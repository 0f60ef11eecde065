CONSTANTS
  None = None
  Absent = Absent
  Undecodable = Undecodable
  HardError = HardError
  Request = {r1, r2, r3}
  Call <- MCCall
  Snapshot <- MCSnapshot
  Usage <- MCUsage
  default_cache_enabled = FALSE
SYMMETRY Symmetry
SPECIFICATION Spec
INVARIANTS TypeOK OwnUpstreamAnswer BilledOnce
CHECK_DEADLOCK FALSE
