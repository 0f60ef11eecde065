CONSTANTS
  None = None
  Absent = Absent
  Undecodable = Undecodable
  HardError = HardError
  Request = {r1, r2}
  Call <- MCCall
  Snapshot <- MCSnapshot
  Usage <- MCUsage
  default_cache_enabled = FALSE
SPECIFICATION Spec
INVARIANT OneSnapshotPerRequest
CHECK_DEADLOCK FALSE
