----------------------------- MODULE MCDohHash -----------------------------
(* A table that starts with one chain and grows to three, then to seven.    *)
EXTENDS DohHash

SixKeys    == {1, 2, 3, 4, 7, 10}
TwoForOne == SixKeys \X {1} \cup {4} \X {2}

\* A node that was freed still holds what it held, or another name and a next node.
TwoReads  == {<<4, 1, 0>>, <<3, 1, 10>>}
=============================================================================
