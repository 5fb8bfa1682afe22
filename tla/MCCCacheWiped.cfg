CONSTANTS
  None = None
  Junk = Junk
  v1 = v1
  v2 = v2
  v3 = v3
  Procs = {b1}
  Keys = {v1, v2, v3}
  NFiles = 1
  Outcome <- EveryKind
  Environments <- Guarded
  Swig = FALSE
  TempInCache = TRUE
SPECIFICATION Spec
INVARIANT CacheSound
