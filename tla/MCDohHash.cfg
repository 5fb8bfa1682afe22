CONSTANTS
  Keys <- SixKeys
  Vals = {1, 2}
  Stores <- TwoForOne
  Freed <- TwoReads
  InitSize = 1
SPECIFICATION Spec
INVARIANTS WellPlaced LenExact
PROPERTY MapSpec
