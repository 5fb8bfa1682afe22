CONSTANTS
  Names <- MCNames
  MaxMods = 2
  MaxSize = 4
  SizeLimit = 16
SPECIFICATION Spec
INVARIANTS ProbeInBounds SearchCorrect
PROPERTY Terminates
CHECK_DEADLOCK FALSE
