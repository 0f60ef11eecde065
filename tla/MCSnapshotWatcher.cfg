CONSTANTS
  None = None
  Absent = Absent
  Undecodable = Undecodable
  HardError = HardError
  Key <- MCKey
  Body <- MCBody
  BodyFor <- MCBodyFor
  Stored <- MCStored
  Compile <- MCCompile
  MaxRevision = 4
  MaxRestarts = 1
SPECIFICATION FairSpec
INVARIANTS TypeOK SnapshotIsCommitted WaitingMeansFresh
PROPERTIES ImplementsPublisher Converges
CHECK_DEADLOCK FALSE
