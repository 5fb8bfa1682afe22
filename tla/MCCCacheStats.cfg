CONSTANTS
  Procs = {1, 2}
  Names <- TwoNames
  NPut = 1
  Limits = {2}
  MaxClock = 2
  MaxCount = 3
  Compilers = {1, 2}
  Commanders = {1}
  Killable = {1}
SPECIFICATION Spec
INVARIANTS LimitKept CountCovers NewFilesKept 
PROPERTY OperationsEnd
