----------------------------- MODULE TypeSearch -----------------------------
(***************************************************************************)
(* SWIG_MangledTypeQueryModule of Lib/swigrun.swg: the walk over the       *)
(* circular list of modules, with a binary search on unsigned indices in   *)
(* the type table of each module.  One behaviour is one call.              *)
(*                                                                         *)
(* The modules the walk visits are numbered 1 .. nmods in list order, from *)
(* "start" to the last one before "end".  Mangled names are integers       *)
(* ordered as strcmp orders them; a generated type table is sorted by name *)
(* (SortList(table_list, ...) in Source/Swig/typesys.c).                   *)
(***************************************************************************)
EXTENDS Integers

CONSTANTS
  Names,     \* the mangled names, as integers
  MaxMods,   \* bound on the number of modules visited
  MaxSize,   \* bound on the number of types of a module
  SizeLimit  \* size_t counts modulo this number

ASSUME TypeSearchAssumption ==
  /\ Names \subseteq Int
  /\ MaxMods \in Nat \ {0}
  /\ MaxSize \in Nat
  /\ SizeLimit \in Nat
  /\ 2 * MaxSize < SizeLimit

VARIABLES
  nmods,   \* how many modules the walk visits
  size,    \* swig_module_info.size of each of them
  types,   \* the name in each slot of each module's types array
  name,    \* the mangled name searched for
  iter,    \* the module under search
  l, r,    \* the bounds of the binary search
  pc,      \* "enter" (if iter->size), "probe" (the inner loop), "next", "done"
  found    \* the slot returned; the module part is 0 when nothing is found

input == <<nmods, size, types, name>>
vars == <<nmods, size, types, name, iter, l, r, pc, found>>

Mods == 1 .. MaxMods

Sorted(f) == \A j, k \in DOMAIN f : j < k => f[j] < f[k]

\* The type tables of at most MaxSize types.
Tables == UNION {{f \in [0 .. n - 1 -> Names] : Sorted(f)} : n \in 0 .. MaxSize}

Init ==
  /\ nmods \in Mods
  /\ types \in [1 .. nmods -> Tables]
  /\ size \in [1 .. nmods -> 0 .. MaxSize]
  /\ \A m \in 1 .. nmods : DOMAIN types[m] = 0 .. size[m] - 1
  /\ name \in Names
  /\ iter = 1
  /\ l = 0
  /\ r = 0
  /\ pc = "enter"
  /\ found = [module |-> 0, slot |-> 0]

\* if (iter->size) { l = 0; r = iter->size - 1; do { ...
EnterModule ==
  /\ pc = "enter"
  /\ IF size[iter] # 0
     THEN l' = 0 /\ r' = (size[iter] - 1) % SizeLimit /\ pc' = "probe"
     ELSE pc' = "next" /\ UNCHANGED <<l, r>>
  /\ UNCHANGED <<input, iter, found>>

Middle == ((l + r) % SizeLimit) \div 2

\* compare == 0: return iter->types[i].
ProbeHit ==
  /\ pc = "probe"
  /\ name = types[iter][Middle]
  /\ found' = [module |-> iter, slot |-> Middle]
  /\ pc' = "done"
  /\ UNCHANGED <<input, iter, l, r>>

\* Mutant: the guard "if (i)" is dropped, so that r wraps at slot 0.
ProbeLowUnguarded ==
  /\ pc = "probe"
  /\ name < types[iter][Middle]
  /\ r' = (Middle - 1) % SizeLimit
  /\ pc' = IF l <= r' THEN "probe" ELSE "next"
  /\ UNCHANGED <<input, iter, l, found>>

\* compare < 0: r = i - 1, or leave the loop when i is 0.
ProbeLow ==
  /\ pc = "probe"
  /\ name < types[iter][Middle]
  /\ IF Middle # 0
     THEN /\ r' = (Middle - 1) % SizeLimit
          /\ pc' = IF l <= r' THEN "probe" ELSE "next"
     ELSE /\ pc' = "next"
          /\ UNCHANGED r
  /\ UNCHANGED <<input, iter, l, found>>

\* Mutant: l = i, which never leaves the last pair of slots.
ProbeHighStuck ==
  /\ pc = "probe"
  /\ name > types[iter][Middle]
  /\ l' = Middle
  /\ pc' = IF l' <= r THEN "probe" ELSE "next"
  /\ UNCHANGED <<input, iter, r, found>>

\* Mutant: l = i + 2 skips a slot.
ProbeHighSkip ==
  /\ pc = "probe"
  /\ name > types[iter][Middle]
  /\ l' = (Middle + 2) % SizeLimit
  /\ pc' = IF l' <= r THEN "probe" ELSE "next"
  /\ UNCHANGED <<input, iter, r, found>>

\* compare > 0: l = i + 1.
ProbeHigh ==
  /\ pc = "probe"
  /\ name > types[iter][Middle]
  /\ l' = (Middle + 1) % SizeLimit
  /\ pc' = IF l' <= r THEN "probe" ELSE "next"
  /\ UNCHANGED <<input, iter, r, found>>

\* iter = iter->next; while (iter != end).
NextModule ==
  /\ pc = "next"
  /\ IF iter < nmods
     THEN iter' = iter + 1 /\ pc' = "enter"
     ELSE pc' = "done" /\ UNCHANGED iter
  /\ UNCHANGED <<input, l, r, found>>

Next == EnterModule \/ ProbeHit \/ ProbeLow \/ ProbeHigh \/ NextModule

Spec == Init /\ [][Next]_vars /\ WF_vars(Next)
-----------------------------------------------------------------------------
TypeOK ==
  /\ nmods \in Mods
  /\ size \in [1 .. nmods -> 0 .. MaxSize]
  /\ types \in [1 .. nmods -> Tables]
  /\ name \in Names
  /\ iter \in 1 .. nmods
  /\ l \in 0 .. SizeLimit - 1
  /\ r \in 0 .. SizeLimit - 1
  /\ pc \in {"enter", "probe", "next", "done"}
  /\ found \in [module : 0 .. nmods, slot : 0 .. MaxSize]

\* Every probe reads a slot that the module's types array really has: the
\* unsigned bounds never wrap (swigrun.swg:412-413, the guard "if (i)").
ProbeInBounds == pc = "probe" => Middle < size[iter]

Holds(m, n) == \E k \in 0 .. size[m] - 1 : types[m][k] = n

\* What a call returns: a slot with the name, in the first visited module that
\* has one, and nothing only when no visited module knows the name.
SearchCorrect ==
  pc = "done" =>
    IF found.module = 0
    THEN \A m \in 1 .. nmods : ~ Holds(m, name)
    ELSE /\ types[found.module][found.slot] = name
         /\ \A m \in 1 .. found.module - 1 : ~ Holds(m, name)

\* The search always ends (the bounds close in at every probe).
Terminates == <>(pc = "done")
=============================================================================
