SPECIFICATION Spec
CONSTANTS
  Kind <- MCKind
  Size <- MCSize
  BadNames <- MCBadNames
  Targets <- MCTargets
INVARIANTS
  SuccessIsStored
  PathsMirrored
PROPERTY
  TransferEnds
CHECK_DEADLOCK FALSE
