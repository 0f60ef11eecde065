CONSTANTS
  None = None
  Absent = Absent
  Undecodable = Undecodable
  HardError = HardError
  Key <- MCKey
  Body <- MCBody
  BodyFor <- MCBodyFor
  Stored <- MCStored
  Compile <- MCCompile
  MaxRevision = 3
  Request = {r1, r2}
  Call <- MCCall
  default_cache_enabled = FALSE
  listen_port = 4000
  admin_port = 4001
  admin_enabled = TRUE
SPECIFICATION Spec
INVARIANTS TypeOK AnswersAreConfigured ServedInOrder
PROPERTY AccessConverges
CHECK_DEADLOCK FALSE
