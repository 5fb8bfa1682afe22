CONSTANTS
  None = None
  Junk = Junk
  v1 = v1
  v2 = v2
  v3 = v3
  Procs = {b1, b2}
  Keys = {v1, v2}
  NFiles = 2
  Outcome <- SecondFails
  Environments <- Default
  Swig = TRUE
  TempInCache = FALSE
SPECIFICATION Spec
INVARIANTS CacheSound ExitFaithful
PROPERTY PlainSpec
SYMMETRY Interchangeable
