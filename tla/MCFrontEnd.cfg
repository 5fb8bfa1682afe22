SPECIFICATION FrontSpec
CONSTANTS
  Names = {"X"}
  Imported = "SWIGIMPORTED"
  MaxFiles = 3
  MaxLevel = 3
  Numbers <- MCNumbers
  Texts = {1, 2}
  Binary <- MCBinary
  Unary = {"neg", "lnot"}
  MaxTokens = 7
  MaxSlots = 5
  Decls = {1, 2}
  Bases <- MCBases
  MaxExtend = 2
  MaxMembers = 3
  MaxDecls = 4
INVARIANTS
  TypeOK ChunkFaithful StackSound EvaluatesByPrecedence
  ListsExact ExtendWins OverloadedSetMostly
PROPERTY CondSpec
CHECK_DEADLOCK FALSE
