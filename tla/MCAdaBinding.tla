---------------------------- MODULE MCAdaBinding ----------------------------
(* A header that declares the names a, b and f and mentions the types int, a,  *)
(* a* and b.                                                                  *)
EXTENDS AdaBinding

CONSTANTS a, b, f, int

I      == Plain(int)
A      == Plain(a)
PtrToA == Ptr(A)
B      == Plain(b)

MCUses    == {I, A, PtrToA, B}
MCMembers == {<<>>, <<PtrToA>>, <<B, I>>}

MCSignatures ==
  {[ret |-> I, params |-> <<I>>], [ret |-> I, params |-> <<A, B>>],
   [ret |-> B, params |-> <<PtrToA>>]}
=============================================================================
