CONSTANTS
  None = None
  Request = {r1, r2, r3}
  KeyId = {"k1"}
  Call <- MCCall
  MaxMinute = 2
  MaxLife = 1
SYMMETRY Symmetry
SPECIFICATION Spec
INVARIANTS TypeOK InFlightCountsGuards AdmittedUnderLimit RedisAdmitsAtMostLimit ShadowOvershootBounded
CHECK_DEADLOCK FALSE
