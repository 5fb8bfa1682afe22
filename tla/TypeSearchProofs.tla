-------------------------- MODULE TypeSearchProofs --------------------------
(***************************************************************************)
(* SWIG_MangledTypeQueryModule never reads outside a types array and       *)
(* returns the right slot, for every number of modules, every table size   *)
(* and every sorted table.                                                 *)
(***************************************************************************)
EXTENDS TypeSearch, TLAPS

\* The tables are what the generator emits: sorted arrays of the stated size.
TablesOK ==
  \A m \in 1 .. nmods : /\ types[m] \in [0 .. size[m] - 1 -> Names]
                        /\ Sorted(types[m])

\* The loop invariant of the binary search: everything left of l is too small
\* and everything right of r too large.
Narrowed ==
  pc = "probe" =>
    /\ 0 <= l
    /\ l <= r
    /\ r < size[iter]
    /\ \A k \in 0 .. size[iter] - 1 : /\ k < l => types[iter][k] < name
                                      /\ k > r => name < types[iter][k]

\* The loop invariant of the walk: no module already left has the name.
Passed ==
  /\ \A m \in 1 .. iter - 1 : ~ Holds(m, name)
  /\ pc = "next" => ~ Holds(iter, name)
  /\ pc # "done" => found = [module |-> 0, slot |-> 0]

SearchInv == TypeOK /\ TablesOK /\ Narrowed /\ Passed /\ SearchCorrect

\* An index below the limit of size_t is its own remainder.
LEMMA NoWrap == ASSUME NEW x \in Int, 0 <= x, x < SizeLimit
                PROVE  x % SizeLimit = x
  BY TypeSearchAssumption

\* The walk starts inside the tables.
LEMMA InitInv == Init => SearchInv
<1> SUFFICES ASSUME Init PROVE SearchInv
  OBVIOUS
<1>1. TypeOK
  BY TypeSearchAssumption DEF Init, TypeOK, Mods
<1>2. TablesOK
  <2> SUFFICES ASSUME NEW m \in 1 .. nmods
               PROVE  types[m] \in [0 .. size[m] - 1 -> Names] /\ Sorted(types[m])
    BY DEF TablesOK
  <2>1. types[m] \in Tables /\ DOMAIN types[m] = 0 .. size[m] - 1
    BY DEF Init
  <2>2. PICK n \in 0 .. MaxSize : types[m] \in {f \in [0 .. n - 1 -> Names] : Sorted(f)}
    BY <2>1 DEF Tables
  <2> QED
    BY <2>1, <2>2
<1>3. Narrowed /\ Passed /\ SearchCorrect
  BY DEF Init, Narrowed, Passed, SearchCorrect
<1> QED
  BY <1>1, <1>2, <1>3 DEF SearchInv

\* While the search probes, the middle slot lies between the bounds.
LEMMA MiddleBetween ==
  ASSUME SearchInv, pc = "probe"
  PROVE  /\ Middle \in 0 .. size[iter] - 1
         /\ l <= Middle
         /\ Middle <= r
         /\ size[iter] \in 0 .. MaxSize
         /\ types[iter] \in [0 .. size[iter] - 1 -> Names]
<1>1. /\ size[iter] \in 0 .. MaxSize
      /\ types[iter] \in [0 .. size[iter] - 1 -> Names]
      /\ l \in Int /\ r \in Int
      /\ 0 <= l /\ l <= r /\ r < size[iter]
  BY TypeSearchAssumption DEF SearchInv, TypeOK, TablesOK, Narrowed
<1>2. (l + r) % SizeLimit = l + r
  <2>1. l + r \in Int /\ 0 <= l + r /\ l + r < SizeLimit
    BY <1>1, TypeSearchAssumption
  <2> QED
    BY <2>1, NoWrap
<1>3. l <= (l + r) \div 2 /\ (l + r) \div 2 <= r /\ (l + r) \div 2 \in Int
  BY <1>1
<1> QED
  BY <1>1, <1>2, <1>3 DEF Middle

\* Every step of the search keeps its bounds and its reading of the tables.
LEMMA NextInv == SearchInv /\ [Next]_vars => SearchInv'
<1> SUFFICES ASSUME SearchInv, [Next]_vars PROVE SearchInv'
  OBVIOUS
<1> USE TypeSearchAssumption
<1>1. CASE EnterModule
  <2>1. UNCHANGED <<input, iter, found>> /\ pc = "enter"
    BY <1>1 DEF EnterModule
  <2>2. iter \in 1 .. nmods /\ size[iter] \in 0 .. MaxSize /\ nmods \in Nat
    BY DEF SearchInv, TypeOK, Mods
  <2>3. CASE size[iter] # 0
    <3>1. (size[iter] - 1) % SizeLimit = size[iter] - 1
      BY <2>2, <2>3, NoWrap
    <3>2. l' = 0 /\ r' = size[iter] - 1 /\ pc' = "probe"
      BY <1>1, <2>3, <3>1 DEF EnterModule
    <3>3. TypeOK'
      BY <2>1, <2>2, <2>3, <3>2 DEF SearchInv, TypeOK, Mods, input
    <3>4. Narrowed'
      BY <2>1, <2>2, <2>3, <3>2 DEF Narrowed, input
    <3>5. TablesOK' /\ Passed' /\ SearchCorrect'
      BY <2>1, <3>2 DEF SearchInv, TablesOK, Passed, SearchCorrect, Holds, input
    <3> QED
      BY <3>3, <3>4, <3>5 DEF SearchInv
  <2>4. CASE size[iter] = 0
    <3>1. pc' = "next" /\ UNCHANGED <<l, r>>
      BY <1>1, <2>4 DEF EnterModule
    <3>2. ~ Holds(iter, name)
      BY <2>4 DEF Holds
    <3> QED
      BY <2>1, <3>1, <3>2 DEF SearchInv, TypeOK, TablesOK, Narrowed, Passed,
         SearchCorrect, Holds, input, Mods
  <2> QED
    BY <2>3, <2>4
<1>2. CASE ProbeHit
  <2>1. /\ UNCHANGED <<input, iter, l, r>>
        /\ pc = "probe" /\ pc' = "done"
        /\ name = types[iter][Middle]
        /\ found' = [module |-> iter, slot |-> Middle]
    BY <1>2 DEF ProbeHit
  <2>2. Middle \in 0 .. size[iter] - 1 /\ size[iter] \in 0 .. MaxSize
    BY <2>1, MiddleBetween
  <2>3. TypeOK'
    BY <2>1, <2>2 DEF SearchInv, TypeOK, Mods, input
  <2>4. SearchCorrect'
    <3>1. found'.module = iter /\ found'.slot = Middle /\ iter # 0
      BY <2>1 DEF SearchInv, TypeOK, Mods
    <3>2. \A m \in 1 .. iter - 1 : ~ Holds(m, name)
      BY DEF SearchInv, Passed
    <3> QED
      BY <2>1, <3>1, <3>2 DEF SearchCorrect, Holds, input
  <2>5. TablesOK' /\ Narrowed' /\ Passed'
    BY <2>1 DEF SearchInv, TablesOK, Narrowed, Passed, Holds, input
  <2> QED
    BY <2>3, <2>4, <2>5 DEF SearchInv
<1>3. CASE ProbeLow
  <2>1. /\ UNCHANGED <<input, iter, l, found>>
        /\ pc = "probe"
        /\ name < types[iter][Middle]
    BY <1>3 DEF ProbeLow
  <2>2. /\ Middle \in 0 .. size[iter] - 1 /\ l <= Middle /\ Middle <= r
        /\ size[iter] \in 0 .. MaxSize
        /\ types[iter] \in [0 .. size[iter] - 1 -> Names]
        /\ l \in Nat /\ r \in Nat /\ iter \in 1 .. nmods /\ nmods \in Nat
    BY <2>1, MiddleBetween DEF SearchInv, TypeOK, Mods
  <2>3. \A k \in 0 .. size[iter] - 1 : k >= Middle => name < types[iter][k]
    <3> SUFFICES ASSUME NEW k \in 0 .. size[iter] - 1, k >= Middle
                 PROVE  name < types[iter][k]
      OBVIOUS
    <3>1. name \in Int /\ types[iter][k] \in Int /\ types[iter][Middle] \in Int
      BY <2>2 DEF SearchInv, TypeOK
    <3>2. Middle < k => types[iter][Middle] < types[iter][k]
      BY <2>2 DEF SearchInv, TablesOK, Sorted
    <3> QED
      BY <2>1, <2>2, <3>1, <3>2
  <2>4. CASE Middle # 0
    <3>1. (Middle - 1) % SizeLimit = Middle - 1
      BY <2>2, <2>4, NoWrap
    <3>2. r' = Middle - 1 /\ pc' = IF l <= r' THEN "probe" ELSE "next"
      BY <1>3, <2>4, <3>1 DEF ProbeLow
    <3>3. TypeOK'
      BY <2>1, <2>2, <2>4, <3>2 DEF SearchInv, TypeOK, Mods, input
    <3>4. \A k \in 0 .. size[iter] - 1 : k < l => types[iter][k] < name
      BY <2>1 DEF SearchInv, Narrowed
    <3>5. Narrowed'
      BY <2>1, <2>2, <2>3, <2>4, <3>2, <3>4 DEF Narrowed, input
    <3>6. pc' = "next" => ~ Holds(iter, name)
      <4> SUFFICES ASSUME l > Middle - 1, NEW k \in 0 .. size[iter] - 1
                   PROVE  types[iter][k] # name
        BY <2>2, <3>2 DEF Holds
      <4>1. name \in Int /\ types[iter][k] \in Int
        BY <2>2 DEF SearchInv, TypeOK
      <4>2. CASE k < l
        BY <3>4, <4>1, <4>2
      <4>3. CASE k >= Middle
        BY <2>3, <4>1, <4>3
      <4> QED
        BY <2>2, <4>2, <4>3
    <3>7. TablesOK' /\ Passed' /\ SearchCorrect'
      BY <2>1, <3>2, <3>6 DEF SearchInv, TablesOK, Passed, SearchCorrect, Holds, input
    <3> QED
      BY <3>3, <3>5, <3>7 DEF SearchInv
  <2>5. CASE Middle = 0
    <3>1. pc' = "next" /\ r' = r
      BY <1>3, <2>5 DEF ProbeLow
    <3>2. ~ Holds(iter, name)
      <4> SUFFICES ASSUME NEW k \in 0 .. size[iter] - 1 PROVE types[iter][k] # name
        BY DEF Holds
      <4>1. name \in Int /\ types[iter][k] \in Int
        BY <2>2 DEF SearchInv, TypeOK
      <4> QED
        BY <2>2, <2>3, <2>5, <4>1
    <3> QED
      BY <2>1, <3>1, <3>2 DEF SearchInv, TypeOK, TablesOK, Narrowed, Passed,
         SearchCorrect, Holds, input, Mods
  <2> QED
    BY <2>4, <2>5
<1>4. CASE ProbeHigh
  <2>1. /\ UNCHANGED <<input, iter, r, found>>
        /\ pc = "probe"
        /\ name > types[iter][Middle]
    BY <1>4 DEF ProbeHigh
  <2>2. /\ Middle \in 0 .. size[iter] - 1 /\ l <= Middle /\ Middle <= r
        /\ size[iter] \in 0 .. MaxSize
        /\ types[iter] \in [0 .. size[iter] - 1 -> Names]
        /\ l \in Nat /\ r \in Nat /\ iter \in 1 .. nmods /\ nmods \in Nat
    BY <2>1, MiddleBetween DEF SearchInv, TypeOK, Mods
  <2>3. \A k \in 0 .. size[iter] - 1 : k <= Middle => types[iter][k] < name
    <3> SUFFICES ASSUME NEW k \in 0 .. size[iter] - 1, k <= Middle
                 PROVE  types[iter][k] < name
      OBVIOUS
    <3>1. name \in Int /\ types[iter][k] \in Int /\ types[iter][Middle] \in Int
      BY <2>2 DEF SearchInv, TypeOK
    <3>2. k < Middle => types[iter][k] < types[iter][Middle]
      BY <2>2 DEF SearchInv, TablesOK, Sorted
    <3> QED
      BY <2>1, <2>2, <3>1, <3>2
  <2>4. (Middle + 1) % SizeLimit = Middle + 1
    BY <2>2, NoWrap
  <2>5. l' = Middle + 1 /\ pc' = IF l' <= r THEN "probe" ELSE "next"
    BY <1>4, <2>4 DEF ProbeHigh
  <2>6. TypeOK'
    BY <2>1, <2>2, <2>5 DEF SearchInv, TypeOK, Mods, input
  <2>7. r < size[iter] /\ \A k \in 0 .. size[iter] - 1 : k > r => name < types[iter][k]
    BY <2>1 DEF SearchInv, Narrowed
  <2>8. Narrowed'
    BY <2>1, <2>2, <2>3, <2>5, <2>7 DEF Narrowed, input
  <2>9. pc' = "next" => ~ Holds(iter, name)
    <3> SUFFICES ASSUME Middle + 1 > r, NEW k \in 0 .. size[iter] - 1
                 PROVE  types[iter][k] # name
      BY <2>2, <2>5 DEF Holds
    <3>1. name \in Int /\ types[iter][k] \in Int
      BY <2>2 DEF SearchInv, TypeOK
    <3>2. CASE k > r
      BY <2>7, <3>1, <3>2
    <3>3. CASE k <= Middle
      BY <2>3, <3>1, <3>3
    <3> QED
      BY <2>2, <3>2, <3>3
  <2>10. TablesOK' /\ Passed' /\ SearchCorrect'
    BY <2>1, <2>5, <2>9 DEF SearchInv, TablesOK, Passed, SearchCorrect, Holds, input
  <2> QED
    BY <2>6, <2>8, <2>10 DEF SearchInv
<1>5. CASE NextModule
  <2>1. UNCHANGED <<input, l, r, found>> /\ pc = "next"
    BY <1>5 DEF NextModule
  <2>2. iter \in 1 .. nmods /\ nmods \in Nat
    BY DEF SearchInv, TypeOK, Mods
  <2>3. CASE iter < nmods
    <3>1. iter' = iter + 1 /\ pc' = "enter"
      BY <1>5, <2>3 DEF NextModule
    <3>2. \A m \in 1 .. iter : ~ Holds(m, name)
      BY <2>1, <2>2 DEF SearchInv, Passed
    <3>3. TypeOK'
      BY <2>1, <2>2, <2>3, <3>1 DEF SearchInv, TypeOK, Mods, input
    <3>4. TablesOK' /\ Narrowed' /\ Passed' /\ SearchCorrect'
      BY <2>1, <2>2, <3>1, <3>2
      DEF SearchInv, TablesOK, Narrowed, Passed, SearchCorrect, Holds, input
    <3> QED
      BY <3>3, <3>4 DEF SearchInv
  <2>4. CASE ~ (iter < nmods)
    <3>1. iter' = iter /\ pc' = "done"
      BY <1>5, <2>4 DEF NextModule
    <3>2. \A m \in 1 .. nmods : ~ Holds(m, name)
      BY <2>1, <2>2, <2>4 DEF SearchInv, Passed
    <3>3. SearchCorrect'
      BY <2>1, <3>2 DEF SearchInv, Passed, SearchCorrect, Holds, input
    <3>4. TypeOK' /\ TablesOK' /\ Narrowed' /\ Passed'
      BY <2>1, <3>1 DEF SearchInv, TypeOK, TablesOK, Narrowed, Passed, Holds, input, Mods
    <3> QED
      BY <3>3, <3>4 DEF SearchInv
  <2> QED
    BY <2>3, <2>4
<1>6. CASE UNCHANGED vars
  BY <1>6 DEF SearchInv, TypeOK, TablesOK, Narrowed, Passed, SearchCorrect, Holds,
     vars, Mods
<1> QED
  BY <1>1, <1>2, <1>3, <1>4, <1>5, <1>6 DEF Next

\* The loop invariants hold throughout every call.
LEMMA SearchInvariant == Spec => []SearchInv
  BY InitInv, NextInv, PTL DEF Spec

\* The value returned by SWIG_MangledTypeQueryModule is the slot of the first
\* visited module that has the name, or none (swigrun.swg:401-435).
THEOREM SearchIsCorrect == Spec => []SearchCorrect
<1>1. SearchInv => SearchCorrect
  BY DEF SearchInv
<1> QED
  BY <1>1, SearchInvariant, PTL

\* Every probe reads a slot of the types array, whatever the size of the table
\* (swigrun.swg:408-425).
THEOREM ProbesStayInBounds == Spec => []ProbeInBounds
<1>1. SearchInv => ProbeInBounds
  <2> SUFFICES ASSUME SearchInv, pc = "probe" PROVE Middle < size[iter]
    BY DEF ProbeInBounds
  <2> QED
    BY MiddleBetween
<1> QED
  BY <1>1, SearchInvariant, PTL
=============================================================================
