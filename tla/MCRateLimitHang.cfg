CONSTANTS
  None = None
  Request = {r1, r2}
  KeyId = {"k1"}
  Call <- HangingCall
  MaxMinute = 1
  MaxLife = 0
SPECIFICATION FairSpec
PROPERTY RedisTroubleIsSurvived
CHECK_DEADLOCK FALSE
