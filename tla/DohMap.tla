------------------------------ MODULE DohMap ------------------------------
(***************************************************************************)
(* What a hash table promises its clients: it is a map, and a loop with    *)
(* First and Next meets every attribute that is there from the beginning   *)
(* to the end of the loop exactly once, also when attributes are replaced  *)
(* or added meanwhile, or the one the loop is at is deleted.  Two things   *)
(* upset a loop, never the map: a new attribute may make the table grow,   *)
(* and an attribute that is deleted may be the next one of the loop.       *)
(***************************************************************************)
EXTENDS Naturals

CONSTANTS
  Keys,    \* the attribute names
  Vals,    \* the objects that can be stored
  Absent   \* the null pointer, returned for what is not there

VARIABLES
  map,     \* the object stored under each name
  iter,    \* the name that a loop is at, Absent if there is no loop
  todo,    \* the names that the loop has still to meet, while it is exact
  loop,    \* "exact"; "moved" after the table grew; "freed" after its next item went
  result   \* what the last call returned

vars == <<map, iter, todo, loop, result>>

Names == {k \in Keys : map[k] # Absent}

Init ==
  /\ map = [k \in Keys |-> Absent]
  /\ iter = Absent
  /\ todo = {}
  /\ loop = "exact"
  /\ result = Absent

Upset(how) == todo' = {} /\ loop' = how

\* A name that is added during a loop may be met or not, or make the table grow.
Setattr(k, v) ==
  /\ UNCHANGED iter
  /\ result' = IF map[k] # Absent THEN 1 ELSE 0
  /\ map' = [map EXCEPT ![k] = v]
  /\ \/ UNCHANGED <<todo, loop>>
     \/ /\ iter # Absent /\ map[k] = Absent /\ loop = "exact"
        /\ \/ todo' = todo \cup {k} /\ UNCHANGED loop
           \/ Upset("moved")

Getattr(k) ==
  /\ UNCHANGED <<iter, loop>>
  /\ result' = map[k]
  /\ UNCHANGED <<map, todo>>

\* Deleting what the loop is at, or has met, never upsets it.
Delattr(k) ==
  /\ UNCHANGED iter
  /\ result' = IF map[k] # Absent THEN 1 ELSE 0
  /\ map' = [map EXCEPT ![k] = Absent]
  /\ \/ todo' = todo \ {k} /\ UNCHANGED loop
     \/ loop = "exact" /\ k \in todo /\ Upset("freed")
     \/ loop = "moved" /\ k # iter /\ map[k] # Absent /\ Upset("freed")

Clear ==
  /\ UNCHANGED <<iter, result>>
  /\ map' = [k \in Keys |-> Absent]
  /\ \/ todo' = {} /\ UNCHANGED loop
     \/ iter # Absent /\ Names # {} /\ Upset("freed")

EndLoop == iter' = Absent /\ todo' = {} /\ loop' = "exact" /\ result' = Absent

\* The loop goes on with one of the names in S, or ends.
Meet(S) ==
  /\ \/ S = {} /\ EndLoop
     \/ \E k \in S : iter' = k /\ todo' = S \ {k} /\ result' = map[k] /\ UNCHANGED loop
  /\ UNCHANGED map

\* A loop over a table that has grown meets any name that is there, or ends.
Stray ==
  /\ \/ EndLoop
     \/ \E k \in Names : iter' = k /\ result' = map[k] /\ UNCHANGED <<todo, loop>>
  /\ UNCHANGED map

\* Nothing is promised of a loop whose next item was deleted.
Lost ==
  /\ \/ EndLoop
     \/ iter' \in Keys /\ result' \in Vals /\ UNCHANGED <<todo, loop>>
  /\ UNCHANGED map

First == iter = Absent /\ Meet(Names)

Advance ==
  /\ iter # Absent
  /\ \/ loop = "exact" /\ Meet(todo)
     \/ loop = "moved" /\ Stray
     \/ loop = "freed" /\ Lost

Next ==
  \/ \E k \in Keys : Getattr(k) \/ Delattr(k) \/ \E v \in Vals : Setattr(k, v)
  \/ Clear \/ First \/ Advance

Spec == Init /\ [][Next]_vars
=============================================================================
