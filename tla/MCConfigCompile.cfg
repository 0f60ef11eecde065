CONSTANTS
  None = None
  Absent = Absent
  Undecodable = Undecodable
  HardError = HardError
  Bodies <- MCBodies
SPECIFICATION Spec
INVARIANTS LargestClosedSubset TokensNameTheirKeys
PROPERTY CreationDisturbsNothing
