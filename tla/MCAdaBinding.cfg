CONSTANTS
  a = a  b = b  f = f  int = int  None = None
  Names = {a, b, f}
  Core = {int}
  Uses <- MCUses
  Signatures <- MCSignatures
  Members <- MCMembers
  MaxDecls = 3
SPECIFICATION Spec
INVARIANTS TableConsistent MarkedExact PrunedClean AdaTypesInOrder BoundComplete
CHECK_DEADLOCK FALSE
