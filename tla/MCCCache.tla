------------------------------ MODULE MCCCache ------------------------------
(* Instances of CCache with few build trees, source versions and files. *)
EXTENDS CCache, TLC

CONSTANTS v1, v2, v3

Interchangeable == Permutations(Procs)

AllGood == [k \in Keys |-> "ok"]

\* The second version of the source does not compile.
SecondFails == [k \in Keys |-> IF k = v2 THEN "fails" ELSE "ok"]

\* One version of every kind; the first compiles.
EveryKind == [k \in Keys |-> IF k = v1 THEN "ok" ELSE IF k = v2 THEN "stdout" ELSE "cppfails"]

Guarded == {{}, {"RECACHE"}, {"READONLY"}, {"DISABLE"}}
Linking == {{"HARDLINK", "NOCOMPRESS"}}
Default == {{}}
=============================================================================
