CONSTANTS
  None = None
  Absent = Absent
  Undecodable = Undecodable
  HardError = HardError
  Malformed = Malformed
  r1 = r1
  r2 = r2
  r3 = r3
  Request <- MCRequest
  Call <- MCCall
  Calls <- MCCalls
  Key <- MCKey
  Body <- MCBody
  BodyFor <- MCBodyFor
  Stored <- MCStored
  SlashId = {"a/b"}
  MaxRevision = 5
SPECIFICATION AdminSpec
INVARIANTS TypeOK AcknowledgedMeansCommitted ReadsAreCurrent OnlySharedTokensBreakTheLoad
PROPERTIES EveryCallEnds ImplementsService
CHECK_DEADLOCK FALSE
