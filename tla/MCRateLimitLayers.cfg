CONSTANTS
  None = None
  Request = {r1, r2}
  KeyId = {"k1", "k2"}
  Call <- LayeredCall
  MaxMinute = 1
  MaxLife = 0
SPECIFICATION Spec
INVARIANT ProviderLimitHolds
CHECK_DEADLOCK FALSE
