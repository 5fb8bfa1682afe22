CONSTANTS
  a = a  b = b  f = f  int = int  None = None
  Names = {a, b, f}
  Core = {int}
  Uses <- MCUses
  Signatures <- MCSignatures
  Members <- MCMembers
  MaxDecls = 2
SPECIFICATION Spec
INVARIANT OnlyUnknownPruned
CHECK_DEADLOCK FALSE
