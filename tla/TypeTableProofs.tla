-------------------------- MODULE TypeTableProofs --------------------------
(***************************************************************************)
(* For any number of modules, interpreters and types, and whatever casts   *)
(* the modules declare: the cast lists stay doubly linked lists and the    *)
(* unguarded dereference of iter->prev in SWIG_TypeCheck is never one of a *)
(* null pointer.  With one interpreter, the modules form one ring and use  *)
(* one structure for a type, the list of a type holds exactly the casts    *)
(* that the loaded modules declare, each pointing at the structure in use  *)
(* unless it was merged late, and client data reaches what they point at.  *)
(***************************************************************************)
EXTENDS TypeTable, FiniteSetTheorems, FunctionTheorems, SequenceTheorems, WellFoundedInduction,
        NaturalsInduction, TLAPS

\* The control points at which the casts of module m are being filled in.
Filling == pc \in {"type", "typequery", "cast", "castquery", "loadcheck"}
             \/ (pc = "walk" /\ init)

\* What the running call may rely on at each control point.
ControlOK ==
  /\ pc \in {"walk", "type", "typequery", "cast", "castquery", "loadcheck",
             "propagate", "proptype", "propcast"} => m \in Modules /\ next[m] # Null
  /\ pc = "walk" => itp \in Interps /\ head[itp] # Null
  /\ pc \in {"walk", "typequery", "castquery"} => iter \in Modules /\ next[iter] # Null
  /\ pc = "walk" => i = 1
  /\ pc = "walk" /\ init => next[m] = m /\ iter # m
                              /\ \A x \in Modules : next[x] = m => x = m
  /\ pc = "type" => i \in 1 .. Len(TypeInitial[m]) + 1
  /\ pc \in {"typequery", "cast", "castquery", "loadcheck"} => i \in 1 .. Len(TypeInitial[m])
  /\ pc = "cast" => k \in 1 .. Len(Row) + 1
  /\ pc \in {"castquery", "loadcheck"} => k \in 1 .. Len(Row)
  /\ pc = "proptype" => i \in 1 .. Len(TypeInitial[m]) + 1
  /\ pc = "propcast" => i \in 1 .. Len(TypeInitial[m])
  /\ pc \in {"cast", "castquery", "loadcheck", "checkname", "checkstruct", "propcast"}
       => type \in Type

\* A next pointer never leads out of the linked modules.
LinkedOK ==
  /\ \A x \in Modules : next[x] # Null => next[next[x]] # Null
  /\ \A x \in Interps : head[x] # Null => next[head[x]] # Null

\* The types array of a linked module is complete, except for the module being
\* filled in, where the slots before i are.
TypesFilled ==
  \A x \in Modules : \A a \in 1 .. Len(TypeInitial[x]) :
    /\ next[x] # Null /\ ~ (x = m /\ Filling) => types[x][TypeInitial[x][a]] # Null
    /\ x = m /\ Filling /\ a < i => types[x][TypeInitial[x][a]] # Null

\* A cast that is on no list.
Unlinked(c) == /\ castNext[c] = Null
               /\ castPrev[c] = Null
               /\ \A t \in Type : cast[t] # c

\* The casts still to be processed: those of modules not loaded yet and the rest
\* of the rows of the module being filled in.
Pending(c) ==
  \E a \in 1 .. Len(TypeInitial[c.owner]) : \E b \in 1 .. Len(CastInitial[c.owner][c.to]) :
    /\ TypeInitial[c.owner][a] = c.to
    /\ CastInitial[c.owner][c.to][b] = c.from
    /\ \/ next[c.owner] = Null
       \/ /\ c.owner = m /\ Filling
          /\ \/ a > i
             \/ a = i /\ pc \in {"walk", "type", "typequery"}
             \/ a = i /\ b >= k

PendingFresh == \A c \in Cast : Pending(c) => Unlinked(c)

TableInv == TypeOK /\ ControlOK /\ LinkedOK /\ TypesFilled /\ PendingFresh
              /\ WellLinked /\ PrevIsThere

\* The state that PendingFresh and WellLinked speak about besides the lists.
LEMMA ThisCastIsCast ==
  ASSUME TypeOK, ControlOK, pc \in {"cast", "castquery", "loadcheck"}, k \in 1 .. Len(Row)
  PROVE  /\ TypeName \in Names
         /\ Row[k] \in Names
         /\ ThisCast \in Cast
         /\ ThisCast.owner = m /\ ThisCast.to = TypeName /\ ThisCast.from = Row[k]
<1>1. m \in Modules /\ i \in 1 .. Len(TypeInitial[m])
  BY DEF ControlOK
<1>2. TypeInitial[m] \in Seq(Names)
  BY <1>1, TypeTableAssumption
<1>3. TypeName \in Names
  BY <1>1, <1>2 DEF TypeName
<1>4. Row \in Seq(Names)
  BY <1>1, <1>3, TypeTableAssumption DEF Row
<1>5. Row[k] \in Names
  BY <1>4
<1> QED
  BY <1>1, <1>3, <1>5 DEF ThisCast, Cast

\* The cast about to be inserted has not been inserted before.
LEMMA ThisCastIsFresh ==
  ASSUME TableInv, pc \in {"cast", "castquery", "loadcheck"}, k \in 1 .. Len(Row)
  PROVE  Unlinked(ThisCast)
<1>1. /\ ThisCast \in Cast
      /\ ThisCast.owner = m /\ ThisCast.to = TypeName /\ ThisCast.from = Row[k]
  BY ThisCastIsCast DEF TableInv
<1>2. i \in 1 .. Len(TypeInitial[m]) /\ TypeInitial[m][i] = TypeName
  BY DEF TableInv, ControlOK, TypeName
<1>3. CastInitial[m][TypeName][k] = Row[k] /\ k \in 1 .. Len(CastInitial[m][TypeName])
  BY DEF Row
<1>4. k >= k
  BY DEF TableInv, TypeOK
<1>5. Pending(ThisCast)
  BY <1>1, <1>2, <1>3, <1>4 DEF Pending, Filling
<1> QED
  BY <1>1, <1>5 DEF TableInv, PendingFresh

\* Inserting a fresh cast at the head keeps the lists well linked and touches no
\* other fresh cast.
LEMMA LinkAtHeadOK ==
  ASSUME TypeOK, WellLinked, type \in Type, NEW c \in Cast, Unlinked(c), LinkAtHead(c)
  PROVE  /\ cast' \in [Type -> Cast \cup {Null}]
         /\ castNext' \in [Cast -> Cast \cup {Null}]
         /\ castPrev' \in [Cast -> Cast \cup {Null}]
         /\ WellLinked'
         /\ \A d \in Cast : d # c /\ Unlinked(d) => Unlinked(d)'
<1> USE TypeTableAssumption
<1>0. Null \notin Cast
  OBVIOUS
<1>1. CASE cast[type] = Null
  <2>1. castPrev' = castPrev /\ castNext' = castNext /\ cast' = [cast EXCEPT ![type] = c]
    BY <1>1 DEF LinkAtHead
  <2> QED
    BY <1>0, <1>1, <2>1 DEF TypeOK, WellLinked, Unlinked
<1>2. CASE cast[type] # Null
  <2> DEFINE h == cast[type]
  <2>1. h \in Cast /\ castPrev[h] = Null /\ h # c
    BY <1>2 DEF TypeOK, WellLinked, Unlinked
  <2>2. /\ castPrev' = [castPrev EXCEPT ![h] = c]
        /\ castNext' = [castNext EXCEPT ![c] = h]
        /\ cast' = [cast EXCEPT ![type] = c]
    BY <1>2 DEF LinkAtHead
  <2>3. \A d \in Cast : castPrev'[d] = IF d = h THEN c ELSE castPrev[d]
    BY <2>2 DEF TypeOK
  <2>4. \A d \in Cast : castNext'[d] = IF d = c THEN h ELSE castNext[d]
    BY <2>2 DEF TypeOK
  <2>5. \A t \in Type : cast'[t] = IF t = type THEN c ELSE cast[t]
    BY <2>2 DEF TypeOK
  <2> HIDE DEF h
  <2>6. /\ cast' \in [Type -> Cast \cup {Null}]
        /\ castNext' \in [Cast -> Cast \cup {Null}]
        /\ castPrev' \in [Cast -> Cast \cup {Null}]
    BY <2>1, <2>2 DEF TypeOK
  <2>7. ASSUME NEW d \in Cast, castNext'[d] # Null
        PROVE  castPrev'[castNext'[d]] = d
    <3>1. CASE d = c
      BY <2>1, <2>3, <2>4, <3>1
    <3>2. CASE d # c
      <4>1. castNext'[d] = castNext[d] /\ castNext[d] \in Cast /\ castPrev[castNext[d]] = d
        BY <2>4, <2>7, <3>2 DEF TypeOK, WellLinked
      <4>2. castNext[d] # h
        BY <1>0, <2>1, <4>1
      <4> QED
        BY <2>3, <4>1, <4>2
    <3> QED
      BY <3>1, <3>2
  <2>8. ASSUME NEW d \in Cast, castPrev'[d] # Null
        PROVE  castNext'[castPrev'[d]] = d
    <3>1. CASE d = h
      BY <2>3, <2>4, <3>1
    <3>2. CASE d # h
      <4>1. castPrev'[d] = castPrev[d] /\ castPrev[d] \in Cast /\ castNext[castPrev[d]] = d
        BY <2>3, <2>8, <3>2 DEF TypeOK, WellLinked
      <4>2. castPrev[d] # c
        BY <1>0, <4>1 DEF Unlinked
      <4> QED
        BY <2>4, <4>1, <4>2
    <3> QED
      BY <3>1, <3>2
  <2>9. \A t \in Type : cast'[t] # Null => castPrev'[cast'[t]] = Null
    <3> SUFFICES ASSUME NEW t \in Type, cast'[t] # Null PROVE castPrev'[cast'[t]] = Null
      OBVIOUS
    <3>1. CASE t = type
      BY <2>1, <2>3, <2>5, <3>1 DEF Unlinked
    <3>2. CASE t # type
      <4>1. cast'[t] = cast[t] /\ cast[t] \in Cast
        BY <2>5, <3>2 DEF TypeOK
      <4>2. cast[t] # h
        BY <1>2, <3>2, <4>1 DEF WellLinked, h
      <4> QED
        BY <2>3, <4>1, <4>2 DEF WellLinked
    <3> QED
      BY <3>1, <3>2
  <2>10. \A t, u \in Type : cast'[t] = cast'[u] /\ cast'[t] # Null => t = u
    BY <2>5 DEF WellLinked, Unlinked
  <2>11. \A d \in Cast : d # c /\ Unlinked(d) => Unlinked(d)'
    <3> SUFFICES ASSUME NEW d \in Cast, d # c, Unlinked(d) PROVE Unlinked(d)'
      OBVIOUS
    <3>1. d # h
      BY DEF Unlinked, h
    <3> QED
      BY <2>3, <2>4, <2>5, <3>1 DEF Unlinked
  <2> QED
    BY <2>6, <2>7, <2>8, <2>9, <2>10, <2>11 DEF WellLinked
<1> QED
  BY <1>1, <1>2

\* Moving a listed cast to the front keeps the lists well linked and touches no
\* fresh cast.
LEMMA MoveToFrontOK ==
  ASSUME TypeOK, WellLinked, type \in Type, NEW c \in Cast,
         c # cast[type] => castPrev[c] # Null, MoveToFront(c)
  PROVE  /\ cast' \in [Type -> Cast \cup {Null}]
         /\ castNext' \in [Cast -> Cast \cup {Null}]
         /\ castPrev' \in [Cast -> Cast \cup {Null}]
         /\ WellLinked'
         /\ \A d \in Cast : Unlinked(d) => Unlinked(d)'
<1> USE TypeTableAssumption
<1>0. Null \notin Cast
  OBVIOUS
<1>1. CASE c = cast[type]
  BY <1>1 DEF MoveToFront, TypeOK, WellLinked, Unlinked
<1>2. CASE c # cast[type]
  <2> DEFINE h == cast[type]
             p == castPrev[c]
             x == castNext[c]
  <2>1. p \in Cast /\ castNext[p] = c /\ c # h
    BY <1>2 DEF TypeOK, WellLinked
  <2>2. x # Null => x \in Cast /\ castPrev[x] = c
    BY DEF TypeOK, WellLinked
  <2>3. /\ castNext' = [castNext EXCEPT ![p] = x, ![c] = h]
        /\ castPrev' = [d \in Cast |-> IF d = h THEN c
                                       ELSE IF d = c THEN Null
                                       ELSE IF d = x THEN p
                                       ELSE castPrev[d]]
        /\ cast' = [cast EXCEPT ![type] = c]
    BY <1>2 DEF MoveToFront
  <2>4. h # Null => h \in Cast /\ castPrev[h] = Null
    BY DEF TypeOK, WellLinked
  <2>5. \A t \in Type : cast[t] # c
    BY <2>1, <1>0 DEF WellLinked
  <2>6. \A d \in Cast : castNext'[d] = IF d = c THEN h ELSE IF d = p THEN x ELSE castNext[d]
    BY <2>1, <2>3 DEF TypeOK
  <2>7. \A d \in Cast : castPrev'[d] = IF d = h THEN c ELSE IF d = c THEN Null
                                       ELSE IF d = x THEN p ELSE castPrev[d]
    BY <2>3
  <2>8. \A t \in Type : cast'[t] = IF t = type THEN c ELSE cast[t]
    BY <2>3 DEF TypeOK
  <2>9. /\ cast' \in [Type -> Cast \cup {Null}]
        /\ castNext' \in [Cast -> Cast \cup {Null}]
        /\ castPrev' \in [Cast -> Cast \cup {Null}]
    BY <2>1, <2>2, <2>3, <2>4 DEF TypeOK
  <2>10. \A t \in Type : cast[t] = h /\ h # Null => t = type
    BY DEF WellLinked
  <2>11. \A t \in Type : cast[t] # Null => cast[t] \in Cast /\ castPrev[cast[t]] = Null
    BY DEF TypeOK, WellLinked
  <2>a. \A d \in Cast : castNext[d] # Null => castNext[d] \in Cast /\ castPrev[castNext[d]] = d
    BY DEF TypeOK, WellLinked
  <2>b. \A d \in Cast : castPrev[d] # Null => castPrev[d] \in Cast /\ castNext[castPrev[d]] = d
    BY DEF TypeOK, WellLinked
  <2> HIDE DEF h, p, x
  <2>12. ASSUME NEW d \in Cast, castNext'[d] # Null
         PROVE  castPrev'[castNext'[d]] = d
    <3>1. CASE d = c
      BY <2>4, <2>6, <2>7, <2>12, <3>1
    <3>2. CASE d # c /\ d = p
      <4>1. castNext'[d] = x /\ x \in Cast /\ castPrev[x] = c
        BY <2>2, <2>6, <2>12, <3>2
      <4>2. x # h /\ x # c
        BY <1>0, <2>4, <3>2, <4>1 DEF p
      <4> QED
        BY <2>7, <3>2, <4>1, <4>2
    <3>3. CASE d # c /\ d # p
      <4>1. castNext'[d] = castNext[d] /\ castNext[d] \in Cast /\ castPrev[castNext[d]] = d
        BY <2>6, <2>12, <2>a, <3>3
      <4>2. castNext[d] # h /\ castNext[d] # c /\ castNext[d] # x
        BY <1>0, <2>2, <2>4, <3>3, <4>1 DEF p
      <4> QED
        BY <2>7, <4>1, <4>2
    <3> QED
      BY <3>1, <3>2, <3>3
  <2>13. ASSUME NEW d \in Cast, castPrev'[d] # Null
         PROVE  castNext'[castPrev'[d]] = d
    <3>1. CASE d = h
      BY <2>6, <2>7, <3>1
    <3>2. CASE d # h /\ d = c
      BY <2>7, <2>13, <3>2
    <3>3. CASE d # h /\ d # c /\ d = x
      <4>1. castPrev'[d] = p
        BY <2>7, <3>3
      <4>2. p # c
        BY <2>1, <3>3 DEF x
      <4> QED
        BY <2>1, <2>6, <3>3, <4>1, <4>2
    <3>4. CASE d # h /\ d # c /\ d # x
      <4>1. castPrev'[d] = castPrev[d] /\ castPrev[d] \in Cast /\ castNext[castPrev[d]] = d
        BY <2>7, <2>13, <2>b, <3>4
      <4>2. castPrev[d] # c /\ castPrev[d] # p
        BY <2>1, <3>4, <4>1 DEF x
      <4> QED
        BY <2>6, <4>1, <4>2
    <3> QED
      BY <3>1, <3>2, <3>3, <3>4
  <2>14. ASSUME NEW t \in Type, cast'[t] # Null
         PROVE  castPrev'[cast'[t]] = Null
    <3>1. CASE t = type
      BY <2>1, <2>7, <2>8, <3>1
    <3>2. CASE t # type
      <4>1. cast'[t] = cast[t] /\ cast[t] \in Cast /\ castPrev[cast[t]] = Null
        BY <2>8, <2>11, <2>14, <3>2
      <4>2. cast[t] # h /\ cast[t] # c /\ cast[t] # x
        BY <1>0, <2>2, <2>5, <2>10, <3>2, <4>1
      <4> QED
        BY <2>7, <4>1, <4>2
    <3> QED
      BY <3>1, <3>2
  <2>15. \A t, u \in Type : cast'[t] = cast'[u] /\ cast'[t] # Null => t = u
    BY <2>5, <2>8 DEF WellLinked
  <2>16. ASSUME NEW d \in Cast, Unlinked(d)
         PROVE  Unlinked(d)'
    <3>1. d # c /\ d # p /\ d # x
      BY <1>0, <2>1, <2>2, <2>16 DEF Unlinked, p
    <3>2. d # h
      BY <2>16 DEF Unlinked, h
    <3> QED
      BY <2>6, <2>7, <2>8, <2>16, <3>1, <3>2 DEF Unlinked
  <2> QED
    BY <2>9, <2>12, <2>13, <2>14, <2>15, <2>16 DEF WellLinked
<1> QED
  BY <1>1, <1>2

\* The tables start empty, with no module linked.
LEMMA TableInit == Init => TableInv
<1> SUFFICES ASSUME Init PROVE TableInv
  OBVIOUS
<1> USE TypeTableAssumption
<1>1. \A c \in Cast : Own(c.owner, c.from) \in Type
  BY DEF Cast, Type, Own
<1>2. \A t \in Type : t.owner \in Modules
  BY DEF Type
<1>3. TypeOK
  BY <1>1, <1>2 DEF Init, TypeOK
<1>4. ControlOK /\ LinkedOK /\ WellLinked /\ PrevIsThere
  BY DEF Init, ControlOK, LinkedOK, WellLinked, PrevIsThere
<1>5. TypesFilled
  BY DEF Init, TypesFilled, Filling
<1>6. PendingFresh
  BY DEF Init, PendingFresh, Unlinked
<1> QED
  BY <1>3, <1>4, <1>5, <1>6 DEF TableInv

\* Facts about the array entries the loops use.
LEMMA EntryTypes ==
  ASSUME NEW x \in Modules
  PROVE  /\ Len(TypeInitial[x]) \in Nat
         /\ \A a \in 1 .. Len(TypeInitial[x]) : TypeInitial[x][a] \in Names
         /\ \A n \in Names : Own(x, n) \in Type
         /\ \A n \in Names : Len(CastInitial[x][n]) \in Nat
<1>1. TypeInitial[x] \in Seq(Names)
  BY TypeTableAssumption
<1>2. \A n \in Names : CastInitial[x][n] \in Seq(Names)
  BY TypeTableAssumption
<1> QED
  BY <1>1, <1>2 DEF Own, Type

\* The search of the list for the module itself keeps the invariant.
LEMMA AlreadyInListOK == TableInv /\ AlreadyInList => TableInv'
<1> SUFFICES ASSUME TableInv, AlreadyInList PROVE TableInv'
  OBVIOUS
<1> USE TypeTableAssumption DEF TableInv
<1>0. /\ pc = "walk" /\ pc' = "propagate" /\ ~ init /\ ~ Filling /\ ~ Filling'
      /\ UNCHANGED <<next, head, types, lists, clientdata, initRun, m, itp, init, i, k,
                     type, iter, citer, want>>
  BY DEF AlreadyInList, ControlOK, Filling
<1>1. TypeOK'
  BY <1>0 DEF TypeOK, lists
<1>2. ControlOK'
  BY <1>0 DEF ControlOK
<1>3. LinkedOK'
  BY <1>0 DEF LinkedOK
<1>4. TypesFilled'
  BY <1>0 DEF TypesFilled
<1>5. PendingFresh'
  BY <1>0 DEF PendingFresh, Pending, Unlinked, lists
<1>6. WellLinked' /\ PrevIsThere'
  BY <1>0 DEF WellLinked, PrevIsThere, lists
<1> QED
  BY <1>1, <1>2, <1>3, <1>4, <1>5, <1>6

\* The two assignments of the insertion after the head.
LEMMA TwoUpdates ==
  ASSUME NEW A, NEW B, NEW f \in [A -> B], NEW a \in A, NEW b \in A, NEW u, NEW v,
         NEW x \in A
  PROVE  [f EXCEPT ![a] = u, ![b] = v][x]
           = IF x = b THEN v ELSE IF x = a THEN u ELSE f[x]
OBVIOUS

\* The assignment to an element of a module's table.
LEMMA InnerUpdate ==
  ASSUME NEW A, NEW B, NEW C, NEW f \in [A -> [B -> C]], NEW a \in A, NEW b \in B, NEW v,
         NEW x \in A, NEW y \in B
  PROVE  [f EXCEPT ![a][b] = v][x][y] = IF x = a /\ y = b THEN v ELSE f[x][y]
OBVIOUS

\* So does the step to the next module of the list, and the insertion at its end.
LEMMA WalkModulesOK == TableInv /\ WalkModules => TableInv'
<1> SUFFICES ASSUME TableInv, WalkModules PROVE TableInv'
  OBVIOUS
<1> USE TypeTableAssumption DEF TableInv
<1>0. /\ pc = "walk" /\ iter # m
      /\ UNCHANGED <<head, types, lists, clientdata, initRun, m, itp, init, i, k,
                     type, citer, want>>
  BY DEF WalkModules
<1>1. /\ m \in Modules /\ next[m] \in Modules /\ iter \in Modules /\ next[iter] \in Modules
      /\ itp \in Interps /\ head[itp] \in Modules /\ next[head[itp]] \in Modules
      /\ next[next[iter]] # Null /\ i = 1
      /\ Null \notin Modules
  BY <1>0 DEF ControlOK, LinkedOK, TypeOK
<1>6. WellLinked' /\ \A c \in Cast : Unlinked(c) => Unlinked(c)'
  BY <1>0 DEF WellLinked, Unlinked, lists
<1>2. CASE next[iter] # head[itp]
  <2>1. iter' = next[iter] /\ next' = next /\ pc' = "walk"
    BY <1>0, <1>2 DEF WalkModules
  <2>2. TypeOK'
    BY <1>0, <1>1, <2>1 DEF TypeOK, lists
  <2>3. ControlOK'
    BY <1>0, <1>1, <2>1 DEF ControlOK
  <2>4. LinkedOK' /\ TypesFilled' /\ PrevIsThere'
    BY <1>0, <2>1 DEF LinkedOK, TypesFilled, Filling, PrevIsThere
  <2>5. PendingFresh'
    <3>1. \A c \in Cast : Pending(c)' => Pending(c)
      BY <1>0, <2>1 DEF Pending, Filling
    <3> QED
      BY <1>6, <3>1 DEF PendingFresh
  <2> QED
    BY <1>6, <2>2, <2>3, <2>4, <2>5
<1>3. CASE next[iter] = head[itp]
  <2>1. /\ next' = [next EXCEPT ![m] = next[head[itp]], ![head[itp]] = m]
        /\ pc' = IF init THEN "type" ELSE "propagate"
        /\ iter' = Null
    BY <1>0, <1>3 DEF WalkModules
  <2>2. \A x \in Modules : /\ next'[x] = IF x = head[itp] THEN m
                                         ELSE IF x = m THEN next[head[itp]] ELSE next[x]
                           /\ next'[x] # Null <=> next[x] # Null
    <3>1. next \in [Modules -> Modules \cup {Null}]
      BY DEF TypeOK
    <3>2. \A x \in Modules : next'[x] = IF x = head[itp] THEN m
                                        ELSE IF x = m THEN next[head[itp]] ELSE next[x]
      BY <1>1, <2>1, <3>1, TwoUpdates
    <3>3. next[head[itp]] # Null /\ next[m] # Null /\ m # Null
      BY <1>1
    <3> HIDE DEF TableInv
    <3> QED
      BY <3>2, <3>3, Zenon
  <2>3. Filling' = Filling
    BY <1>0, <2>1 DEF Filling
  <2>4. TypeOK'
    BY <1>0, <1>1, <2>1 DEF TypeOK, lists
  <2>5. ControlOK'
    <3>1. Len(TypeInitial[m]) \in Nat
      BY <1>1, EntryTypes
    <3>a. next'[m] # Null
      BY <1>1, <2>2
    <3>b. 1 \in 1 .. Len(TypeInitial[m]) + 1
      BY <3>1
    <3>2. m' = m /\ next'[m] # Null /\ i' = 1 /\ 1 \in 1 .. Len(TypeInitial[m]) + 1
      BY <1>0, <1>1, <3>a, <3>b
    <3>3. pc' \in {"type", "propagate"}
      BY <2>1
    <3> QED
      BY <1>1, <3>2, <3>3 DEF ControlOK
  <2>6. LinkedOK'
    <3>1. \A x \in Interps : head'[x] # Null => next'[head'[x]] # Null
      BY <1>0, <2>2 DEF LinkedOK, TypeOK
    <3>2. ASSUME NEW x \in Modules, next'[x] # Null PROVE next'[next'[x]] # Null
      <4>1. next[x] # Null /\ next[x] \in Modules /\ next[next[x]] # Null
        BY <2>2, <3>2 DEF LinkedOK, TypeOK
      <4>2. next'[x] \in Modules /\ next[next'[x]] # Null
        BY <1>1, <2>2, <4>1 DEF LinkedOK
      <4> QED
        BY <2>2, <4>2
    <3> QED
      BY <3>1, <3>2 DEF LinkedOK
  <2>7. TypesFilled'
    BY <1>0, <2>2, <2>3 DEF TypesFilled
  <2>8. PendingFresh'
    <3>1. \A c \in Cast : c.owner \in Modules
      BY DEF Cast
    <3>2. \A c \in Cast : Pending(c)' => Pending(c)
      BY <1>0, <2>2, <2>3, <3>1 DEF Pending
    <3> QED
      BY <1>6, <3>2 DEF PendingFresh
  <2>9. PrevIsThere'
    BY <2>1 DEF PrevIsThere
  <2> QED
    BY <1>6, <2>4, <2>5, <2>6, <2>7, <2>8, <2>9
<1> QED
  BY <1>2, <1>3

\* A step that leaves the lists alone, keeps the modules linked and makes no
\* cast pending preserves the parts of the invariant about lists.
LEMMA Frame ==
  ASSUME TableInv, UNCHANGED lists, \A c \in Cast : Pending(c)' => Pending(c)
  PROVE  WellLinked' /\ PendingFresh'
  BY DEF TableInv, WellLinked, PendingFresh, Unlinked, lists

\* So does the start of SWIG_InitializeModule.
LEMMA InitializeModuleOK ==
  ASSUME TableInv, NEW x \in Interps, NEW mod \in Modules, InitializeModule(x, mod)
  PROVE  TableInv'
<1> USE TypeTableAssumption DEF TableInv
<1>0. /\ pc = "idle" /\ m' = mod /\ itp' = x /\ i' = 1 /\ k' = 1
      /\ init' = (next[mod] = Null)
      /\ next' = IF next[mod] = Null THEN [next EXCEPT ![mod] = mod] ELSE next
      /\ UNCHANGED <<types, lists, clientdata, initRun, type, citer, want>>
  BY DEF InitializeModule
<1>1. \A y \in Modules : next'[y] = IF y = mod /\ next[mod] = Null THEN mod ELSE next[y]
  BY <1>0 DEF TypeOK
<1>2. /\ head[x] = Null => /\ head' = [head EXCEPT ![x] = mod]
                           /\ pc' = IF init' THEN "type" ELSE "propagate"
                           /\ iter' = iter
      /\ head[x] # Null => /\ iter' = head[x]
                           /\ pc' = "walk"
                           /\ head' = head
  BY DEF InitializeModule
<1>3. pc' \in {"type", "propagate", "walk"} /\ Filling' = init' /\ ~ Filling
  BY <1>0, <1>2 DEF Filling
<1>4. next'[mod] # Null /\ Null \notin Modules
  BY <1>1
<1>5. TypeOK'
  <2>1. next' \in [Modules -> Modules \cup {Null}]
    BY <1>0 DEF TypeOK
  <2>2. head' \in [Interps -> Modules \cup {Null}] /\ iter' \in Modules \cup {Null}
    <3>1. CASE head[x] = Null
      <4>1. head' = [head EXCEPT ![x] = mod] /\ iter' = iter
        BY <1>2, <3>1
      <4> QED
        BY <4>1 DEF TypeOK
    <3>2. CASE head[x] # Null
      BY <1>2, <3>2 DEF TypeOK
    <3> QED
      BY <3>1, <3>2
  <2>3. init' \in BOOLEAN /\ i' \in Nat /\ k' \in Nat /\ m' \in Modules /\ itp' \in Interps
    BY <1>0
  <2> QED
    BY <1>0, <1>3, <2>1, <2>2, <2>3 DEF TypeOK, lists
<1>6. ControlOK'
  <2>1. Len(TypeInitial[mod]) \in Nat /\ 1 \in 1 .. Len(TypeInitial[mod]) + 1
    BY EntryTypes
  <2>2. ASSUME pc' = "walk"
        PROVE  /\ itp' \in Interps /\ head'[itp'] # Null
               /\ iter' \in Modules /\ next'[iter'] # Null
               /\ init' => /\ next'[m'] = m' /\ iter' # m'
                           /\ \A y \in Modules : next'[y] = m' => y = m'
    <3>1. head[x] # Null /\ head' = head /\ iter' = head[x] /\ head[x] \in Modules
      BY <1>2, <2>2 DEF TypeOK
    <3>2. next[head[x]] # Null
      BY <3>1 DEF LinkedOK
    <3>3. ASSUME init' PROVE /\ next'[mod] = mod /\ iter' # mod
                             /\ \A y \in Modules : next'[y] = mod => y = mod
      <4>1. next[mod] = Null
        BY <1>0, <3>3
      <4>2. \A y \in Modules : next[y] # mod
        BY <1>4, <4>1 DEF LinkedOK
      <4> QED
        BY <1>1, <3>1, <3>2, <4>1, <4>2
    <3> QED
      BY <1>0, <1>1, <3>1, <3>2, <3>3
  <2> QED
    BY <1>0, <1>3, <1>4, <2>1, <2>2 DEF ControlOK
<1>7. LinkedOK'
  <2>1. ASSUME NEW y \in Modules, next'[y] # Null PROVE next'[next'[y]] # Null
    <3>1. CASE y = mod /\ next[mod] = Null
      BY <1>1, <1>4, <3>1
    <3>2. CASE ~ (y = mod /\ next[mod] = Null)
      <4>1. next'[y] = next[y] /\ next[y] \in Modules /\ next[next[y]] # Null
        BY <1>1, <2>1, <3>2 DEF LinkedOK, TypeOK
      <4> QED
        BY <1>1, <1>4, <4>1
    <3> QED
      BY <3>1, <3>2
  <2>2. ASSUME NEW y \in Interps, head'[y] # Null PROVE next'[head'[y]] # Null
    <3>1. head'[y] = mod \/ (head'[y] = head[y] /\ head[y] \in Modules /\ next[head[y]] # Null)
      BY <1>2, <2>2 DEF TypeOK, LinkedOK
    <3> QED
      BY <1>1, <1>4, <3>1
  <2> QED
    BY <2>1, <2>2 DEF LinkedOK
<1>8. TypesFilled'
  <2> SUFFICES ASSUME NEW y \in Modules, NEW a \in 1 .. Len(TypeInitial[y])
               PROVE  /\ next'[y] # Null /\ ~ (y = mod /\ init') => types[y][TypeInitial[y][a]] # Null
                      /\ ~ (a < 1)
    BY <1>0, <1>3 DEF TypesFilled
  <2>1. ~ (a < 1)
    BY EntryTypes
  <2>2. ASSUME next'[y] # Null, ~ (y = mod /\ init') PROVE next[y] # Null
    BY <1>0, <1>1, <2>2
  <2> QED
    BY <1>3, <2>1, <2>2 DEF TypesFilled
<1>9. \A c \in Cast : Pending(c)' => Pending(c)
  <2>1. \A c \in Cast : c.owner \in Modules
    BY DEF Cast
  <2>2. \A c \in Cast : next'[c.owner] = Null => next[c.owner] = Null
    BY <1>1, <1>4, <2>1
  <2>3. Filling' => next[mod] = Null
    BY <1>0, <1>3
  <2> QED
    BY <1>0, <2>2, <2>3 DEF Pending
<1>10. PrevIsThere'
  BY <1>3 DEF PrevIsThere
<1> QED
  BY <1>0, <1>5, <1>6, <1>7, <1>8, <1>9, <1>10, Frame

\* StartRow, from either place that calls it.
LEMMA StartRowOK ==
  ASSUME TableInv, pc \in {"type", "typequery"}, i \in 1 .. Len(TypeInitial[m]),
         NEW t \in Type, StartRow(t), clientdata' \in [Type -> Modules \cup Data \cup {Null}],
         UNCHANGED <<next, head, types, lists, initRun, m, itp, init, i, citer, want>>
  PROVE  TableInv'
<1> USE TypeTableAssumption DEF TableInv
<1>0. type' = t /\ k' = 1 /\ iter' = Null /\ pc' = "cast" /\ Filling /\ Filling'
  BY DEF StartRow, Filling
<1>1. TypeOK'
  BY <1>0 DEF TypeOK, lists
<1>2. ControlOK'
  <2>1. m \in Modules /\ next[m] # Null
    BY DEF ControlOK
  <2>2. TypeName \in Names /\ Len(Row) \in Nat
    BY <2>1, EntryTypes DEF TypeName, Row
  <2>3. Row' = Row /\ 1 \in 1 .. Len(Row) + 1
    BY <2>2 DEF Row, TypeName
  <2> QED
    BY <1>0, <2>1, <2>3 DEF ControlOK
<1>3. LinkedOK' /\ TypesFilled' /\ PrevIsThere'
  BY <1>0 DEF LinkedOK, TypesFilled, PrevIsThere
<1>4. \A c \in Cast : Pending(c)' => Pending(c)
  BY <1>0 DEF Pending
<1> QED
  BY <1>1, <1>2, <1>3, <1>4, Frame

\* So does the start of the outer loop on an initial type.
LEMMA NextTypeOK == TableInv /\ NextType => TableInv'
<1> SUFFICES ASSUME TableInv, NextType PROVE TableInv'
  OBVIOUS
<1> USE TypeTableAssumption DEF TableInv
<1>0. /\ pc = "type" /\ m \in Modules /\ next[m] # Null /\ i \in 1 .. Len(TypeInitial[m]) + 1
      /\ UNCHANGED <<next, head, types, lists, clientdata, initRun, m, itp, init, i,
                     citer, want>>
  BY DEF NextType, ControlOK
<1>1. Len(TypeInitial[m]) \in Nat /\ i \in Nat
  BY <1>0, EntryTypes
<1>2. CASE i > Len(TypeInitial[m])
  <2>0. pc' = "propagate" /\ UNCHANGED <<type, k, iter>> /\ Filling /\ ~ Filling'
    BY <1>0, <1>2 DEF NextType, Filling
  <2>1. TypeOK'
    BY <1>0, <2>0 DEF TypeOK, lists
  <2>2. ControlOK' /\ LinkedOK' /\ PrevIsThere'
    BY <1>0, <2>0 DEF ControlOK, LinkedOK, PrevIsThere
  <2>3. TypesFilled'
    <3> SUFFICES ASSUME NEW x \in Modules, NEW a \in 1 .. Len(TypeInitial[x]),
                        next[x] # Null
                 PROVE  types[x][TypeInitial[x][a]] # Null
      BY <1>0, <2>0, Zenon DEF TypesFilled
    <3>1. x = m => a < i
      BY <1>1, <1>2
    <3>2. /\ ~ (x = m /\ Filling) => types[x][TypeInitial[x][a]] # Null
          /\ x = m /\ Filling /\ a < i => types[x][TypeInitial[x][a]] # Null
      BY Zenon DEF TypesFilled
    <3> QED
      BY <2>0, <3>1, <3>2, Zenon
  <2>4. \A c \in Cast : Pending(c)' => Pending(c)
    BY <1>0, <2>0 DEF Pending
  <2> QED
    BY <1>0, <2>1, <2>2, <2>3, <2>4, Frame
<1>3. CASE i <= Len(TypeInitial[m]) /\ next[m] # m
  <2>0. /\ pc' = "typequery" /\ iter' = next[m] /\ UNCHANGED <<type, k>> /\ Filling /\ Filling'
        /\ i \in 1 .. Len(TypeInitial[m]) /\ next[m] \in Modules /\ next[next[m]] # Null
    <3>1. pc' = "typequery" /\ iter' = next[m] /\ UNCHANGED <<type, k>>
      BY <1>0, <1>1, <1>3 DEF NextType
    <3>2. i \in 1 .. Len(TypeInitial[m]) /\ next[m] \in Modules
      BY <1>0, <1>1, <1>3 DEF TypeOK
    <3> QED
      BY <1>0, <3>1, <3>2 DEF Filling, LinkedOK
  <2>1. TypeOK'
    BY <1>0, <2>0 DEF TypeOK, lists
  <2>2. ControlOK' /\ LinkedOK' /\ PrevIsThere'
    BY <1>0, <2>0 DEF ControlOK, LinkedOK, PrevIsThere
  <2>3. TypesFilled'
    BY <1>0, <2>0 DEF TypesFilled
  <2>4. \A c \in Cast : Pending(c)' => Pending(c)
    BY <1>0, <2>0 DEF Pending
  <2> QED
    BY <1>0, <2>1, <2>2, <2>3, <2>4, Frame
<1>4. CASE i <= Len(TypeInitial[m]) /\ next[m] = m
  <2>1. i \in 1 .. Len(TypeInitial[m]) /\ StartRow(Own(m, TypeName))
    BY <1>0, <1>1, <1>4 DEF NextType
  <2>2. Own(m, TypeName) \in Type
    BY <1>0, <2>1, EntryTypes DEF TypeName
  <2>3. clientdata' \in [Type -> Modules \cup Data \cup {Null}]
    BY <1>0 DEF TypeOK
  <2> QED
    BY <1>0, <2>1, <2>2, <2>3, StartRowOK
<1> QED
  BY <1>1, <1>2, <1>3, <1>4

\* So does the search of the other modules for the type.
LEMMA QueryTypeOK == TableInv /\ QueryType => TableInv'
<1> SUFFICES ASSUME TableInv, QueryType PROVE TableInv'
  OBVIOUS
<1> USE TypeTableAssumption DEF TableInv
<1>0. /\ pc = "typequery" /\ m \in Modules /\ iter \in Modules /\ next[iter] # Null
      /\ i \in 1 .. Len(TypeInitial[m])
      /\ UNCHANGED <<next, head, types, lists, initRun, m, itp, init, i, citer, want>>
  BY DEF QueryType, ControlOK
<1>1. TypeName \in Names /\ Own(m, TypeName) \in Type
  BY <1>0, EntryTypes DEF TypeName
<1>2. CASE types[iter][TypeName] # Null
  <2>1. types[iter][TypeName] \in Type
    BY <1>0, <1>1, <1>2 DEF TypeOK
  <2>2. StartRow(types[iter][TypeName])
    BY <1>2 DEF QueryType
  <2>3. clientdata' \in [Type -> Modules \cup Data \cup {Null}]
    <3>1. \/ clientdata' = clientdata
          \/ clientdata' = [clientdata EXCEPT ![type'] = clientdata[Own(m, TypeName)]]
      BY <1>2 DEF QueryType
    <3> QED
      BY <1>1, <3>1 DEF TypeOK
  <2> QED
    BY <1>0, <2>1, <2>2, <2>3, StartRowOK
<1>3. CASE types[iter][TypeName] = Null /\ next[iter] # m
  <2>0. /\ pc' = "typequery" /\ iter' = next[iter] /\ UNCHANGED <<type, k, clientdata>>
        /\ Filling /\ Filling'
        /\ next[iter] \in Modules /\ next[next[iter]] # Null
    BY <1>0, <1>3 DEF QueryType, Filling, LinkedOK, TypeOK
  <2>1. TypeOK'
    BY <1>0, <2>0 DEF TypeOK, lists
  <2>2. ControlOK' /\ LinkedOK' /\ PrevIsThere'
    BY <1>0, <2>0 DEF ControlOK, LinkedOK, PrevIsThere
  <2>3. TypesFilled'
    BY <1>0, <2>0 DEF TypesFilled
  <2>4. \A c \in Cast : Pending(c)' => Pending(c)
    BY <1>0, <2>0 DEF Pending
  <2> QED
    BY <1>0, <2>1, <2>2, <2>3, <2>4, Frame
<1>4. CASE types[iter][TypeName] = Null /\ next[iter] = m
  <2>1. StartRow(Own(m, TypeName)) /\ clientdata' = clientdata
    BY <1>4 DEF QueryType
  <2>2. clientdata' \in [Type -> Modules \cup Data \cup {Null}]
    BY <2>1 DEF TypeOK
  <2> QED
    BY <1>0, <1>1, <2>1, <2>2, StartRowOK
<1> QED
  BY <1>2, <1>3, <1>4

\* What the loop over a row needs to know of the position it is at.
LEMMA RowFacts ==
  ASSUME TableInv, pc \in {"cast", "castquery", "loadcheck"}
  PROVE  /\ m \in Modules /\ next[m] # Null /\ next[m] \in Modules /\ next[next[m]] # Null
         /\ i \in 1 .. Len(TypeInitial[m]) /\ TypeInitial[m][i] = TypeName
         /\ TypeName \in Names /\ Len(Row) \in Nat
         /\ type \in Type /\ k \in Nat /\ i \in Nat
         /\ Filling
<1>1. m \in Modules /\ next[m] # Null /\ i \in 1 .. Len(TypeInitial[m]) /\ type \in Type
  BY DEF TableInv, ControlOK
<1>2. next[m] \in Modules /\ next[next[m]] # Null /\ k \in Nat /\ i \in Nat
  BY <1>1 DEF TableInv, TypeOK, LinkedOK
<1>3. TypeName \in Names /\ Len(Row) \in Nat /\ TypeInitial[m][i] = TypeName
  BY <1>1, EntryTypes DEF TypeName, Row
<1> QED
  BY <1>1, <1>2, <1>3 DEF Filling

\* The step from one cast of the row to the next, after an insertion or a skip.
LEMMA NextInRowOK ==
  ASSUME TableInv, pc \in {"cast", "castquery", "loadcheck"}, k \in 1 .. Len(Row), NextInRow,
         UNCHANGED <<next, head, types, clientdata, initRun, m, itp, init, i, type>>,
         castType' \in [Cast -> Type],
         cast' \in [Type -> Cast \cup {Null}],
         castNext' \in [Cast -> Cast \cup {Null}],
         castPrev' \in [Cast -> Cast \cup {Null}],
         WellLinked',
         \A d \in Cast : d # ThisCast /\ Unlinked(d) => Unlinked(d)'
  PROVE  TableInv'
<1>a. /\ m \in Modules /\ next[m] # Null
      /\ i \in 1 .. Len(TypeInitial[m]) /\ TypeInitial[m][i] = TypeName
      /\ TypeName \in Names /\ Len(Row) \in Nat
      /\ type \in Type /\ k \in Nat /\ i \in Nat
      /\ Filling
  BY RowFacts
<1>0. k' = k + 1 /\ iter' = Null /\ citer' = Null /\ want' = Null /\ pc' = "cast" /\ Filling'
  BY DEF NextInRow, Filling
<1>1. TypeOK'
  <2>1. k + 1 \in Nat
    BY <1>a
  <2> QED
    BY <1>0, <2>1 DEF TypeOK, TableInv
<1>2. ControlOK'
  <2>1. Row' = Row
    BY DEF Row, TypeName
  <2>2. k + 1 \in 1 .. Len(Row) + 1
    BY <1>a
  <2> QED
    BY <1>0, <1>a, <2>1, <2>2 DEF ControlOK
<1>3. LinkedOK' /\ PrevIsThere'
  BY <1>0 DEF LinkedOK, PrevIsThere, TableInv
<1>4. TypesFilled'
  BY <1>0, <1>a DEF TypesFilled, TableInv
<1>5. PendingFresh'
  <2> SUFFICES ASSUME NEW c \in Cast, Pending(c)' PROVE Unlinked(c)'
    BY DEF PendingFresh
  <2>1. c.owner \in Modules /\ c.to \in Names
    BY DEF Cast
  <2>2. PICK a \in 1 .. Len(TypeInitial[c.owner]), b \in 1 .. Len(CastInitial[c.owner][c.to]) :
           /\ TypeInitial[c.owner][a] = c.to
           /\ CastInitial[c.owner][c.to][b] = c.from
           /\ \/ next[c.owner] = Null
              \/ /\ c.owner = m
                 /\ a > i \/ (a = i /\ b >= k + 1)
    BY <1>0 DEF Pending
  <2>3. a \in Nat /\ b \in Nat
    BY <2>1, EntryTypes
  <2>4. Pending(c)
    <3>1. b >= k + 1 => b >= k
      BY <1>a, <2>3
    <3> QED
      BY <1>a, <2>2, <3>1 DEF Pending
  <2>5. c # ThisCast
    <3> SUFFICES ASSUME c.owner = m, c.to = TypeName, c.from = Row[k] PROVE FALSE
      BY ThisCastIsCast DEF TableInv
    <3>a. /\ \A q, w \in 1 .. Len(TypeInitial[m]) : TypeInitial[m][q] = TypeInitial[m][w] => q = w
          /\ \A q, w \in 1 .. Len(Row) : Row[q] = Row[w] => q = w
      BY <1>a, TypeTableAssumption DEF Row
    <3>1. a = i
      BY <1>a, <2>2, <3>a
    <3>2. b = k
      <4>1. b \in 1 .. Len(Row) /\ Row[b] = Row[k]
        BY <2>2 DEF Row
      <4> QED
        BY <3>a, <4>1
    <3>3. ~ (i > i) /\ ~ (k >= k + 1)
      BY <1>a
    <3> QED
      BY <1>a, <2>2, <3>1, <3>2, <3>3
  <2> QED
    BY <2>4, <2>5 DEF PendingFresh, TableInv
<1> QED
  BY <1>1, <1>2, <1>3, <1>4, <1>5 DEF TableInv

\* The insertion of the current cast, from any of the places that make it.
LEMMA InsertOK ==
  ASSUME TableInv, pc \in {"cast", "castquery", "loadcheck"}, k \in 1 .. Len(Row),
         LinkAtHead(ThisCast), NextInRow, castType' \in [Cast -> Type],
         UNCHANGED <<next, head, types, clientdata, initRun, m, itp, init, i, type>>
  PROVE  TableInv'
<1>1. ThisCast \in Cast /\ Unlinked(ThisCast) /\ type \in Type
  BY ThisCastIsCast, ThisCastIsFresh, RowFacts DEF TableInv
<1>2. /\ cast' \in [Type -> Cast \cup {Null}]
      /\ castNext' \in [Cast -> Cast \cup {Null}]
      /\ castPrev' \in [Cast -> Cast \cup {Null}]
      /\ WellLinked'
      /\ \A d \in Cast : d # ThisCast /\ Unlinked(d) => Unlinked(d)'
  BY <1>1, LinkAtHeadOK DEF TableInv
<1> QED
  BY <1>2, NextInRowOK

\* So does the head of the inner loop, with the insertion of a cast.
LEMMA NextCastOK == TableInv /\ NextCast => TableInv'
<1> SUFFICES ASSUME TableInv, NextCast PROVE TableInv'
  OBVIOUS
<1> USE TypeTableAssumption
<1>0. /\ pc = "cast" /\ k \in 1 .. Len(Row) + 1
      /\ UNCHANGED <<next, head, clientdata, initRun, m, itp, init>>
  BY DEF NextCast, TableInv, ControlOK
<1>1. CASE k > Len(Row)
  <2>0. /\ types' = [types EXCEPT ![m][TypeName] = type]
        /\ i' = i + 1 /\ type' = Null /\ pc' = "type" /\ Filling'
        /\ UNCHANGED <<lists, k, iter, citer, want>>
    BY <1>0, <1>1 DEF NextCast, Filling
  <2>1. TypeOK'
    <3>1. types' \in [Modules -> [Names -> Type \cup {Null}]]
      BY <1>0, <2>0, RowFacts DEF TypeOK, TableInv
    <3>2. i + 1 \in Nat
      BY <1>0, RowFacts
    <3> QED
      BY <1>0, <2>0, <3>1, <3>2 DEF TypeOK, lists, TableInv
  <2>2. ControlOK' /\ LinkedOK' /\ PrevIsThere'
    <3>1. i + 1 \in 1 .. Len(TypeInitial[m]) + 1
      BY <1>0, RowFacts, EntryTypes, SMTT(30)
    <3> QED
      BY <1>0, <2>0, <3>1, RowFacts DEF ControlOK, LinkedOK, PrevIsThere, TableInv
  <2>3. TypesFilled'
    <3>1. \A x \in Modules, n \in Names :
             types'[x][n] = IF x = m /\ n = TypeName THEN type ELSE types[x][n]
      <4>1. types \in [Modules -> [Names -> Type \cup {Null}]] /\ m \in Modules /\ TypeName \in Names
        BY <1>0, RowFacts DEF TypeOK, TableInv
      <4> QED
        BY <2>0, <4>1, InnerUpdate
    <3>2. type # Null
      BY <1>0, RowFacts
    <3> SUFFICES ASSUME NEW x \in Modules, NEW a \in 1 .. Len(TypeInitial[x])
                 PROVE  /\ next[x] # Null /\ x # m => types'[x][TypeInitial[x][a]] # Null
                        /\ x = m /\ a < i + 1 => types'[x][TypeInitial[x][a]] # Null
      BY <1>0, <2>0 DEF TypesFilled
    <3>3. TypeInitial[x][a] \in Names /\ a \in Nat
      BY EntryTypes
    <3>a. Filling /\ i \in Nat /\ TypeInitial[m][i] = TypeName
      BY <1>0, RowFacts
    <3>b. /\ next[x] # Null /\ x # m => types[x][TypeInitial[x][a]] # Null
          /\ x = m /\ a < i => types[x][TypeInitial[x][a]] # Null
      BY <3>a DEF TypesFilled, TableInv
    <3>4. ASSUME next[x] # Null, x # m PROVE types'[x][TypeInitial[x][a]] # Null
      BY <3>1, <3>3, <3>4, <3>b
    <3>5. ASSUME x = m, a < i + 1 PROVE types'[x][TypeInitial[x][a]] # Null
      <4>1. a < i \/ a = i
        BY <3>3, <3>5, <3>a
      <4> QED
        BY <3>1, <3>2, <3>3, <3>5, <3>a, <3>b, <4>1
    <3> QED
      BY <3>4, <3>5
  <2>4. \A c \in Cast : Pending(c)' => Pending(c)
    <3> SUFFICES ASSUME NEW c \in Cast, Pending(c)' PROVE Pending(c)
      OBVIOUS
    <3>1. c.owner \in Modules
      BY DEF Cast
    <3>2. \A a \in 1 .. Len(TypeInitial[c.owner]) : a > i + 1 \/ a = i + 1 => a > i
      BY <1>0, <3>1, RowFacts, EntryTypes
    <3> QED
      BY <1>0, <2>0, <3>2, RowFacts DEF Pending
  <2> QED
    BY <2>0, <2>1, <2>2, <2>3, <2>4, Frame DEF TableInv
<1>2. CASE ~ (k > Len(Row)) /\ next[m] # m
  <2>0. /\ pc' = "castquery" /\ iter' = next[m] /\ Filling'
        /\ UNCHANGED <<types, lists, i, k, type, citer, want>>
    BY <1>2 DEF NextCast, Filling
  <2>1. TypeOK'
    BY <1>0, <2>0, RowFacts DEF TypeOK, lists, TableInv
  <2>2. ControlOK' /\ LinkedOK' /\ PrevIsThere'
    <3>1. k \in 1 .. Len(Row) /\ Row' = Row
      BY <1>0, <1>2, <2>0, RowFacts DEF Row, TypeName
    <3> QED
      BY <1>0, <2>0, <3>1, RowFacts DEF ControlOK, LinkedOK, PrevIsThere, TableInv
  <2>3. TypesFilled'
    BY <1>0, <2>0, RowFacts DEF TypesFilled, TableInv
  <2>4. \A c \in Cast : Pending(c)' => Pending(c)
    BY <1>0, <2>0, RowFacts DEF Pending
  <2> QED
    BY <2>0, <2>1, <2>2, <2>3, <2>4, Frame DEF TableInv
<1>3. CASE ~ (k > Len(Row)) /\ next[m] = m
  <2>1. /\ LinkAtHead(ThisCast) /\ NextInRow
        /\ UNCHANGED <<types, castType, i, type>>
    BY <1>3 DEF NextCast
  <2>2. k \in 1 .. Len(Row)
    BY <1>0, <1>3, RowFacts
  <2>3. castType' \in [Cast -> Type]
    BY <2>1 DEF TableInv, TypeOK
  <2> QED
    BY <1>0, <2>1, <2>2, <2>3, InsertOK
<1> QED
  BY <1>1, <1>2, <1>3

\* So does the search for the type a cast comes from.
LEMMA QueryCastOK == TableInv /\ QueryCast => TableInv'
<1> SUFFICES ASSUME TableInv, QueryCast PROVE TableInv'
  OBVIOUS
<1> USE TypeTableAssumption
<1>0. /\ pc = "castquery" /\ k \in 1 .. Len(Row) /\ iter \in Modules /\ next[iter] # Null
      /\ UNCHANGED <<next, head, types, clientdata, initRun, m, itp, init, i, type>>
  BY DEF QueryCast, TableInv, ControlOK
<1>1. /\ ThisCast \in Cast /\ ThisCast.from \in Names
      /\ types[iter][ThisCast.from] \in Type \cup {Null}
  <2>1. ThisCast \in Cast /\ ThisCast.from \in Names
    <3>1. ThisCast \in Cast /\ ThisCast.from = Row[k] /\ Row[k] \in Names
      BY <1>0, ThisCastIsCast DEF TableInv
    <3> QED
      BY <3>1
  <2>2. types \in [Modules -> [Names -> Type \cup {Null}]]
    BY DEF TableInv, TypeOK
  <2> QED
    BY <1>0, <2>1, <2>2
<1>2. CASE types[iter][ThisCast.from] # Null /\ type = Own(m, TypeName)
  <2>1. /\ castType' = [castType EXCEPT ![ThisCast] = types[iter][ThisCast.from]]
        /\ LinkAtHead(ThisCast) /\ NextInRow
    BY <1>2 DEF QueryCast
  <2>2. castType' \in [Cast -> Type]
    BY <1>1, <1>2, <2>1 DEF TableInv, TypeOK
  <2> QED
    BY <1>0, <2>1, <2>2, InsertOK
<1>3. CASE types[iter][ThisCast.from] # Null /\ type # Own(m, TypeName)
  <2>0. /\ pc' = "loadcheck" /\ citer' = cast[type] /\ want' = ThisCast.from /\ iter' = Null
        /\ UNCHANGED <<lists, k>> /\ Filling'
    BY <1>3 DEF QueryCast, Filling
  <2>1. TypeOK'
    <3>1. cast[type] \in Cast \cup {Null}
      BY <1>0, RowFacts DEF TableInv, TypeOK
    <3> QED
      BY <1>0, <1>1, <2>0, <3>1 DEF TypeOK, lists, TableInv
  <2>2. ControlOK'
    <3>1. Row' = Row
      BY <1>0 DEF Row, TypeName
    <3> QED
      BY <1>0, <2>0, <3>1, RowFacts DEF ControlOK
  <2>3. LinkedOK' /\ TypesFilled' /\ PrevIsThere'
    BY <1>0, <2>0, RowFacts DEF LinkedOK, TypesFilled, PrevIsThere, TableInv, lists
  <2>4. \A c \in Cast : Pending(c)' => Pending(c)
    BY <1>0, <2>0, RowFacts DEF Pending
  <2> QED
    BY <2>0, <2>1, <2>2, <2>3, <2>4, Frame DEF TableInv
<1>4. CASE types[iter][ThisCast.from] = Null /\ next[iter] # m
  <2>0. /\ pc' = "castquery" /\ iter' = next[iter] /\ Filling'
        /\ UNCHANGED <<lists, k, citer, want>>
    BY <1>0, <1>4 DEF QueryCast, Filling
  <2>a. next[iter] \in Modules /\ next[next[iter]] # Null
    BY <1>0 DEF TableInv, LinkedOK, TypeOK
  <2>1. TypeOK'
    BY <1>0, <2>0, <2>a DEF TypeOK, lists, TableInv
  <2>2. ControlOK'
    <3>1. Row' = Row
      BY <1>0 DEF Row, TypeName
    <3> QED
      BY <1>0, <2>0, <2>a, <3>1, RowFacts DEF ControlOK
  <2>3. LinkedOK' /\ TypesFilled' /\ PrevIsThere'
    BY <1>0, <2>0, RowFacts DEF LinkedOK, TypesFilled, PrevIsThere, TableInv
  <2>4. \A c \in Cast : Pending(c)' => Pending(c)
    BY <1>0, <2>0, RowFacts DEF Pending
  <2> QED
    BY <2>0, <2>1, <2>2, <2>3, <2>4, Frame DEF TableInv
<1>5. CASE types[iter][ThisCast.from] = Null /\ next[iter] = m
  <2>1. LinkAtHead(ThisCast) /\ NextInRow /\ castType' = castType
    BY <1>5 DEF QueryCast
  <2>2. castType' \in [Cast -> Type]
    BY <2>1 DEF TableInv, TypeOK
  <2> QED
    BY <1>0, <2>1, <2>2, InsertOK
<1> QED
  BY <1>2, <1>3, <1>4, <1>5

\* A step of a walk along a cast list arrives at a cast with a predecessor.
LEMMA WalkedCast ==
  ASSUME TableInv, citer \in Cast, castNext[citer] # Null
  PROVE  castNext[citer] \in Cast /\ castPrev[castNext[citer]] # Null
<1>1. castPrev[castNext[citer]] = citer
  BY DEF TableInv, WellLinked
<1> QED
  BY <1>1, TypeTableAssumption DEF TableInv, TypeOK

\* So does the look whether the list holds the cast already.
LEMMA LoadCheckOK == TableInv /\ LoadCheck => TableInv'
<1> SUFFICES ASSUME TableInv, LoadCheck PROVE TableInv'
  OBVIOUS
<1> USE TypeTableAssumption
<1>0. /\ pc = "loadcheck" /\ k \in 1 .. Len(Row)
      /\ UNCHANGED <<next, head, types, castType, clientdata, initRun, m, itp, init, i, type>>
  BY DEF LoadCheck, TableInv, ControlOK
<1>1. castType' \in [Cast -> Type] /\ citer \in Cast \cup {Null}
  BY <1>0 DEF TableInv, TypeOK
<1>2. CASE citer = Null
  <2>1. LinkAtHead(ThisCast) /\ NextInRow
    BY <1>2 DEF LoadCheck
  <2> QED
    BY <1>0, <1>1, <2>1, InsertOK
<1>3. CASE citer # Null /\ castType[citer].name = want
  <2>1. MoveToFront(citer) /\ NextInRow
    BY <1>3 DEF LoadCheck
  <2>2. citer # cast[type] => castPrev[citer] # Null
    BY <1>0, <1>3 DEF TableInv, PrevIsThere
  <2>3. /\ cast' \in [Type -> Cast \cup {Null}]
        /\ castNext' \in [Cast -> Cast \cup {Null}]
        /\ castPrev' \in [Cast -> Cast \cup {Null}]
        /\ WellLinked'
        /\ \A d \in Cast : Unlinked(d) => Unlinked(d)'
    BY <1>0, <1>1, <1>3, <2>1, <2>2, MoveToFrontOK, RowFacts DEF TableInv
  <2> QED
    BY <1>0, <1>1, <2>1, <2>3, NextInRowOK
<1>4. CASE citer # Null /\ castType[citer].name # want
  <2>0. /\ citer' = castNext[citer] /\ pc' = "loadcheck" /\ Filling'
        /\ UNCHANGED <<cast, castNext, castPrev, k, iter, want>>
    BY <1>0, <1>4 DEF LoadCheck, Filling
  <2>1. TypeOK'
    BY <1>0, <1>1, <1>4, <2>0 DEF TypeOK, TableInv
  <2>2. ControlOK'
    <3>1. Row' = Row
      BY <1>0 DEF Row, TypeName
    <3> QED
      BY <1>0, <2>0, <3>1, RowFacts DEF ControlOK
  <2>3. LinkedOK' /\ TypesFilled'
    BY <1>0, <2>0, RowFacts DEF LinkedOK, TypesFilled, TableInv
  <2>4. PrevIsThere'
    BY <1>1, <1>4, <2>0, WalkedCast DEF PrevIsThere
  <2>5. \A c \in Cast : Pending(c)' => Pending(c)
    BY <1>0, <2>0, RowFacts DEF Pending
  <2> QED
    BY <1>0, <2>0, <2>1, <2>2, <2>3, <2>4, <2>5, Frame DEF TableInv, lists
<1> QED
  BY <1>2, <1>3, <1>4

\* So does the start of SWIG_TypeCheck and of SWIG_TypeCheckStruct.
LEMMA StartCheckOK ==
  ASSUME TableInv, NEW t \in Type, NEW what \in Names \cup Type,
         NEW loop \in {"checkname", "checkstruct"}, StartCheck(t, what, loop)
  PROVE  TableInv'
<1> USE TypeTableAssumption
<1>0. /\ pc = "idle" /\ type' = t /\ citer' = cast[t] /\ want' = what /\ pc' = loop
      /\ UNCHANGED <<next, head, types, lists, clientdata, initRun, m, itp, init, i, k, iter>>
      /\ ~ Filling /\ ~ Filling'
  BY DEF StartCheck, Filling
<1>1. TypeOK'
  <2>1. cast[t] \in Cast \cup {Null}
    BY DEF TableInv, TypeOK
  <2> QED
    BY <1>0, <2>1 DEF TypeOK, lists, TableInv
<1>2. ControlOK' /\ LinkedOK' /\ TypesFilled'
  BY <1>0 DEF ControlOK, LinkedOK, TypesFilled, TableInv
<1>3. PrevIsThere'
  BY <1>0 DEF PrevIsThere, lists
<1>4. \A c \in Cast : Pending(c)' => Pending(c)
  BY <1>0 DEF Pending
<1> QED
  BY <1>0, <1>1, <1>2, <1>3, <1>4, Frame DEF TableInv

\* A return to the caller outside the filling phase.
LEMMA ReturnOK ==
  ASSUME TableInv, ~ Filling, Return,
         UNCHANGED <<next, head, types, castType, clientdata>>,
         initRun' \subseteq Modules,
         cast' \in [Type -> Cast \cup {Null}],
         castNext' \in [Cast -> Cast \cup {Null}],
         castPrev' \in [Cast -> Cast \cup {Null}],
         WellLinked',
         \A d \in Cast : Unlinked(d) => Unlinked(d)'
  PROVE  TableInv'
<1> USE TypeTableAssumption
<1>0. /\ pc' = "idle" /\ m' = Null /\ itp' = Null /\ init' = FALSE /\ i' = 0 /\ k' = 0
      /\ type' = Null /\ iter' = Null /\ citer' = Null /\ want' = Null /\ ~ Filling'
  BY DEF Return, Filling
<1>1. TypeOK'
  BY <1>0 DEF TypeOK, TableInv
<1>2. ControlOK' /\ LinkedOK' /\ PrevIsThere'
  BY <1>0 DEF ControlOK, LinkedOK, PrevIsThere, TableInv
<1>3. TypesFilled'
  BY <1>0 DEF TypesFilled, TableInv
<1>4. \A c \in Cast : Pending(c)' => Pending(c)
  BY <1>0 DEF Pending
<1>5. PendingFresh'
  BY <1>4 DEF PendingFresh, TableInv
<1> QED
  BY <1>1, <1>2, <1>3, <1>5 DEF TableInv

\* So does one step along a cast list, with the move of the cast found to the front.
LEMMA CheckCastOK == TableInv /\ CheckCast => TableInv'
<1> SUFFICES ASSUME TableInv, CheckCast PROVE TableInv'
  OBVIOUS
<1> USE TypeTableAssumption
<1> DEFINE hit == IF pc = "checkname" THEN castType[citer].name = want ELSE castType[citer] = want
<1>0. /\ pc \in {"checkname", "checkstruct"} /\ ~ Filling /\ type \in Type
      /\ UNCHANGED <<next, head, types, castType, clientdata, initRun>>
  BY DEF CheckCast, Filling, TableInv, ControlOK
<1>1. citer \in Cast \cup {Null} /\ initRun' \subseteq Modules
  BY <1>0 DEF TableInv, TypeOK
<1>2. CASE citer = Null
  <2>1. Return /\ UNCHANGED <<cast, castNext, castPrev>>
    BY <1>2 DEF CheckCast
  <2>2. /\ cast' \in [Type -> Cast \cup {Null}]
        /\ castNext' \in [Cast -> Cast \cup {Null}]
        /\ castPrev' \in [Cast -> Cast \cup {Null}]
        /\ WellLinked'
        /\ \A d \in Cast : Unlinked(d) => Unlinked(d)'
    BY <2>1 DEF TableInv, TypeOK, WellLinked, Unlinked
  <2> QED
    BY <1>0, <1>1, <2>1, <2>2, ReturnOK
<1>3. CASE citer # Null /\ hit
  <2>1. MoveToFront(citer) /\ Return
    BY <1>3 DEF CheckCast
  <2>2. citer # cast[type] => castPrev[citer] # Null
    BY <1>0, <1>3 DEF TableInv, PrevIsThere
  <2>3. /\ cast' \in [Type -> Cast \cup {Null}]
        /\ castNext' \in [Cast -> Cast \cup {Null}]
        /\ castPrev' \in [Cast -> Cast \cup {Null}]
        /\ WellLinked'
        /\ \A d \in Cast : Unlinked(d) => Unlinked(d)'
    BY <1>0, <1>1, <1>3, <2>1, <2>2, MoveToFrontOK DEF TableInv
  <2> QED
    BY <1>0, <1>1, <2>1, <2>3, ReturnOK
<1>4. CASE citer # Null /\ ~ hit
  <2>0. /\ citer' = castNext[citer]
        /\ UNCHANGED <<cast, castNext, castPrev, pc, m, itp, init, i, k, type, iter, want>>
    BY <1>4 DEF CheckCast
  <2>1. TypeOK'
    BY <1>0, <1>1, <1>4, <2>0 DEF TypeOK, TableInv
  <2>2. ControlOK' /\ LinkedOK' /\ TypesFilled'
    BY <1>0, <2>0 DEF ControlOK, LinkedOK, TypesFilled, TableInv, Filling
  <2>3. PrevIsThere'
    BY <1>1, <1>4, <2>0, WalkedCast DEF PrevIsThere
  <2>4. \A c \in Cast : Pending(c)' => Pending(c)
    BY <1>0, <2>0 DEF Pending, Filling
  <2> QED
    BY <1>0, <2>0, <2>1, <2>2, <2>3, <2>4, Frame DEF TableInv, lists
<1> QED
  BY <1>2, <1>3, <1>4

\* Client data spread over the casts of a type keeps its type.
LEMMA SpreadType ==
  ASSUME TypeOK, NEW t \in Type, NEW d \in Modules \cup Data \cup {Null}, Spread(t, d)
  PROVE  clientdata' \in [Type -> Modules \cup Data \cup {Null}]
  BY DEF Spread, TypeOK

\* So does SWIG_TypeClientData, which a user may call at any time.
LEMMA TypeClientDataOK ==
  ASSUME TableInv, NEW t \in Type, NEW d \in Data, TypeClientData(t, d)
  PROVE  TableInv'
<1>0. /\ UNCHANGED <<next, head, types, lists, initRun, pc, m, itp, init, i, k, type, iter,
                     citer, want>>
      /\ Spread(t, d)
  BY DEF TypeClientData
<1>1. TypeOK'
  <2>1. clientdata' \in [Type -> Modules \cup Data \cup {Null}]
    BY <1>0, SpreadType DEF TableInv
  <2> QED
    BY <1>0, <2>1 DEF TypeOK, lists, TableInv
<1>2. ControlOK' /\ LinkedOK' /\ TypesFilled' /\ PrevIsThere'
  BY <1>0 DEF ControlOK, LinkedOK, TypesFilled, PrevIsThere, TableInv, Filling, lists,
     Row, TypeName
<1>3. \A c \in Cast : Pending(c)' => Pending(c)
  BY <1>0 DEF Pending, Filling
<1> QED
  BY <1>0, <1>1, <1>2, <1>3, Frame DEF TableInv

\* A return that leaves the lists alone.
LEMMA PlainReturnOK ==
  ASSUME TableInv, ~ Filling, Return, UNCHANGED <<next, head, types, lists, clientdata, initRun>>
  PROVE  TableInv'
<1>1. /\ cast' \in [Type -> Cast \cup {Null}]
      /\ castNext' \in [Cast -> Cast \cup {Null}]
      /\ castPrev' \in [Cast -> Cast \cup {Null}]
      /\ WellLinked'
      /\ \A d \in Cast : Unlinked(d) => Unlinked(d)'
  BY DEF TableInv, TypeOK, WellLinked, Unlinked, lists
<1>2. initRun' \subseteq Modules /\ castType' = castType
  BY DEF TableInv, TypeOK, lists
<1> QED
  BY <1>1, <1>2, ReturnOK

\* So does the start of SWIG_PropagateClientData.
LEMMA PropagateClientDataOK == TableInv /\ PropagateClientData => TableInv'
<1> SUFFICES ASSUME TableInv, PropagateClientData PROVE TableInv'
  OBVIOUS
<1>0. /\ pc = "propagate" /\ m \in Modules /\ next[m] # Null /\ ~ Filling
      /\ UNCHANGED <<next, head, types, lists, clientdata>>
  BY DEF PropagateClientData, TableInv, ControlOK, Filling
<1>1. CASE m \in initRun
  <2>1. Return /\ initRun' = initRun
    BY <1>1 DEF PropagateClientData
  <2> QED
    BY <1>0, <2>1, PlainReturnOK
<1>2. CASE m \notin initRun
  <2>0. /\ initRun' = initRun \cup {m} /\ i' = 1 /\ pc' = "proptype" /\ ~ Filling'
        /\ UNCHANGED <<m, itp, init, k, type, iter, citer, want>>
    BY <1>2 DEF PropagateClientData, Filling
  <2>1. TypeOK'
    BY <1>0, <2>0 DEF TypeOK, lists, TableInv
  <2>2. ControlOK'
    <3>1. 1 \in 1 .. Len(TypeInitial[m]) + 1
      BY <1>0, EntryTypes
    <3> QED
      BY <1>0, <2>0, <3>1 DEF ControlOK
  <2>3. LinkedOK' /\ TypesFilled' /\ PrevIsThere'
    BY <1>0, <2>0 DEF LinkedOK, TypesFilled, PrevIsThere, TableInv
  <2>4. \A c \in Cast : Pending(c)' => Pending(c)
    BY <1>0, <2>0 DEF Pending
  <2> QED
    BY <1>0, <2>1, <2>2, <2>3, <2>4, Frame DEF TableInv
<1> QED
  BY <1>1, <1>2

\* So does its loop over the types of the module.
LEMMA PropagateTypeOK == TableInv /\ PropagateType => TableInv'
<1> SUFFICES ASSUME TableInv, PropagateType PROVE TableInv'
  OBVIOUS
<1> USE TypeTableAssumption
<1>0. /\ pc = "proptype" /\ m \in Modules /\ next[m] # Null /\ ~ Filling
      /\ i \in 1 .. Len(TypeInitial[m]) + 1
      /\ UNCHANGED <<next, head, types, lists, clientdata, initRun>>
  BY DEF PropagateType, TableInv, ControlOK, Filling
<1>1. CASE i > Len(TypeInitial[m])
  BY <1>0, <1>1, PlainReturnOK DEF PropagateType
<1>2. CASE ~ (i > Len(TypeInitial[m]))
  <2>a. i \in 1 .. Len(TypeInitial[m]) /\ i \in Nat /\ i + 1 \in 1 .. Len(TypeInitial[m]) + 1
    BY <1>0, <1>2, EntryTypes
  <2>b. types[m][TypeName] \in Type
    <3>1. TypeName \in Names
      BY <1>0, <2>a, EntryTypes DEF TypeName
    <3>2. types[m][TypeName] # Null
      BY <1>0, <2>a DEF TableInv, TypesFilled, TypeName
    <3> QED
      BY <1>0, <3>1, <3>2 DEF TableInv, TypeOK
  <2>0. /\ type' = types[m][TypeName] /\ UNCHANGED <<m, itp, init, k, iter, want>>
        /\ \/ pc' = "propcast" /\ citer' = cast[type'] /\ i' = i
           \/ i' = i + 1 /\ pc' = pc /\ citer' = citer
    BY <1>2 DEF PropagateType
  <2>c. ~ Filling'
    BY <1>0, <2>0 DEF Filling
  <2>1. TypeOK'
    <3> TypeOK
      BY DEF TableInv
    <3>1. type' \in Type /\ cast[type'] \in Cast \cup {Null} /\ i + 1 \in Nat
      BY <2>0, <2>a, <2>b DEF TypeOK
    <3>2. /\ i' \in Nat /\ citer' \in Cast \cup {Null}
          /\ pc' \in {"propcast", "proptype"}
      BY <1>0, <2>0, <2>a, <3>1 DEF TypeOK
    <3>3. type' \in Type /\ UNCHANGED <<next, head, types, lists, clientdata, initRun, m, itp, init, k, iter, want>>
      BY <1>0, <2>0, <3>1
    <3> QED
      BY <3>2, <3>3 DEF TypeOK, lists
  <2>2. ControlOK'
    <3>1. CASE pc' = "propcast" /\ i' = i
      BY <1>0, <2>0, <2>a, <2>b, <3>1 DEF ControlOK
    <3>2. CASE pc' = "proptype" /\ i' = i + 1
      BY <1>0, <2>0, <2>a, <3>2 DEF ControlOK
    <3> QED
      BY <1>0, <2>0, <3>1, <3>2
  <2>3. LinkedOK' /\ TypesFilled'
    BY <1>0, <2>0, <2>c DEF LinkedOK, TypesFilled, TableInv
  <2>4. PrevIsThere'
    BY <1>0, <2>0 DEF PrevIsThere
  <2>5. \A c \in Cast : Pending(c)' => Pending(c)
    BY <1>0, <2>c DEF Pending
  <2> QED
    BY <1>0, <2>1, <2>2, <2>3, <2>4, <2>5, Frame DEF TableInv
<1> QED
  BY <1>1, <1>2

\* So does the loop over the casts of a type.
LEMMA PropagateCastOK == TableInv /\ PropagateCast => TableInv'
<1> SUFFICES ASSUME TableInv, PropagateCast PROVE TableInv'
  OBVIOUS
<1> USE TypeTableAssumption
<1>0. /\ pc = "propcast" /\ m \in Modules /\ next[m] # Null /\ ~ Filling
      /\ i \in 1 .. Len(TypeInitial[m]) /\ type \in Type
      /\ UNCHANGED <<next, head, types, lists, initRun, m, itp, init, k, type, iter, want>>
  BY DEF PropagateCast, TableInv, ControlOK, Filling
<1>a. i \in Nat /\ i + 1 \in Nat /\ i + 1 \in 1 .. Len(TypeInitial[m]) + 1
  BY <1>0, EntryTypes
<1>1. \/ i' = i + 1 /\ pc' = "proptype"
      \/ i' = i /\ pc' = "propcast"
  BY <1>0 DEF PropagateCast
<1>2. ~ Filling'
  BY <1>1 DEF Filling
<1>3. clientdata' \in [Type -> Modules \cup Data \cup {Null}] /\ citer' \in Cast \cup {Null}
  <2>1. CASE citer = Null
    BY <2>1 DEF PropagateCast, TableInv, TypeOK
  <2>2. CASE citer # Null
    <3>1. citer \in Cast /\ castType[citer] \in Type /\ castNext[citer] \in Cast \cup {Null}
          /\ clientdata[type] \in Modules \cup Data \cup {Null}
      BY <1>0, <2>2 DEF TableInv, TypeOK
    <3>2. citer' = castNext[citer]
      BY <2>2 DEF PropagateCast
    <3>3. Spread(castType[citer], clientdata[type]) \/ clientdata' = clientdata
      BY <2>2 DEF PropagateCast
    <3>4. clientdata \in [Type -> Modules \cup Data \cup {Null}]
      BY DEF TableInv, TypeOK
    <3>5. CASE Spread(castType[citer], clientdata[type])
      BY <3>1, <3>2, <3>5, SpreadType DEF TableInv
    <3>6. CASE clientdata' = clientdata
      BY <3>1, <3>2, <3>4, <3>6
    <3> QED
      BY <3>3, <3>5, <3>6
  <2> QED
    BY <2>1, <2>2
<1>4. TypeOK'
  BY <1>0, <1>1, <1>3, <1>a DEF TypeOK, lists, TableInv
<1>5. ControlOK'
  BY <1>0, <1>1, <1>a DEF ControlOK
<1>6. LinkedOK' /\ TypesFilled'
  BY <1>0, <1>2 DEF LinkedOK, TypesFilled, TableInv
<1>7. PrevIsThere'
  BY <1>1 DEF PrevIsThere
<1>8. \A c \in Cast : Pending(c)' => Pending(c)
  BY <1>0, <1>2 DEF Pending
<1> QED
  BY <1>0, <1>4, <1>5, <1>6, <1>7, <1>8, Frame DEF TableInv

\* Every step keeps the invariant.
LEMMA TableNext == TableInv /\ [Next]_vars => TableInv'
<1> SUFFICES ASSUME TableInv, [Next]_vars PROVE TableInv'
  OBVIOUS
<1>0. Loaded \subseteq Type
  BY DEF Loaded, TableInv, TypeOK
<1>1. ASSUME NEW x \in Interps, NEW mod \in Modules, InitializeModule(x, mod) PROVE TableInv'
  BY <1>1, InitializeModuleOK
<1>2. ASSUME NEW t \in Loaded, NEW n \in Names, TypeCheck(t, n) PROVE TableInv'
  BY <1>0, <1>2, StartCheckOK DEF TypeCheck
<1>3. ASSUME NEW t \in Loaded, NEW from \in Loaded, TypeCheckStruct(t, from) PROVE TableInv'
  BY <1>0, <1>3, StartCheckOK DEF TypeCheckStruct
<1>4. ASSUME NEW t \in Loaded, NEW d \in Data, TypeClientData(t, d) PROVE TableInv'
  BY <1>0, <1>4, TypeClientDataOK
<1>5. CASE Step
  BY <1>5, AlreadyInListOK, WalkModulesOK, NextTypeOK, QueryTypeOK, NextCastOK, QueryCastOK,
     LoadCheckOK, CheckCastOK, PropagateClientDataOK, PropagateTypeOK, PropagateCastOK DEF Step
<1>6. CASE UNCHANGED vars
  BY <1>6 DEF vars, TableInv, TypeOK, ControlOK, LinkedOK, TypesFilled, PendingFresh, Pending,
     Unlinked, Filling, WellLinked, PrevIsThere, Row, TypeName
<1> QED
  BY <1>1, <1>2, <1>3, <1>4, <1>5, <1>6 DEF Next

\* The invariant of the run-time type table.
LEMMA TableInvariant == Spec => []TableInv
  BY TableInit, TableNext, PTL DEF Spec

\* The type table keeps its shape: every pointer leads to a module, a type or a
\* cast, or is null.
THEOREM TypeTableTypeOK == Spec => []TypeOK
<1>1. TableInv => TypeOK
  BY DEF TableInv
<1> QED
  BY <1>1, TableInvariant, PTL

\* The cast lists are doubly linked lists at every step of every call, for any
\* modules, any order of loading and any number of interpreters.
THEOREM CastListsWellLinked == Spec => []WellLinked
<1>1. TableInv => WellLinked
  BY DEF TableInv
<1> QED
  BY <1>1, TableInvariant, PTL

\* SWIG_TypeCheck and SWIG_TypeCheckStruct never follow a null prev pointer.
THEOREM NoNullPrev == Spec => []PrevIsThere
<1>1. TableInv => PrevIsThere
  BY DEF TableInv
<1> QED
  BY <1>1, TableInvariant, PTL
-----------------------------------------------------------------------------
(***************************************************************************)
(* One interpreter x.  Its modules form a ring r of n modules, that starts *)
(* at the interpreter's own; a module being filled in stands right after   *)
(* the first.  Queries go round the ring from there, so that they see      *)
(* every other module before they give up.                                 *)
(***************************************************************************)
Ring(n, r, x) ==
  /\ n \in Nat \ {0} /\ r \in [1 .. n -> Modules]
  /\ r[1] = head[x] /\ next[r[n]] = r[1]
  /\ \A j \in 1 .. n - 1 : next[r[j]] = r[j + 1]
  /\ \A a, b \in 1 .. n : r[a] = r[b] => a = b

On(n, r, y) == \E j \in 1 .. n : r[j] = y

\* The linked modules are those of the ring, and the one about to be put into it.
RingHolds(n, r) ==
  \A y \in Modules : next[y] # Null <=> On(n, r, y) \/ (pc = "walk" /\ init /\ y = m)

\* The walk of SWIG_InitializeModule has not passed m.
WalkAt(n, r) ==
  pc = "walk" =>
    /\ init <=> ~ On(n, r, m)
    /\ \E j \in 1 .. n : iter = r[j] /\ \A l \in 1 .. j - 1 : r[l] # m

LoadAt(n, r) ==
  pc \in {"type", "typequery", "cast", "castquery", "loadcheck"} => m = IF n = 1 THEN r[1] ELSE r[2]

\* The modules that a query has passed do not have the type.
QueryAt(n, r) ==
  pc = "typequery" =>
    /\ n >= 2
    /\ \E p \in 3 .. n + 1 : /\ iter = r[IF p = n + 1 THEN 1 ELSE p]
                             /\ \A l \in 3 .. p - 1 : types[r[l]][TypeName] = Null

Placed(n, r, x) == Ring(n, r, x) /\ RingHolds(n, r) /\ WalkAt(n, r) /\ LoadAt(n, r) /\ QueryAt(n, r)

RingOK(x) ==
  \/ head[x] = Null /\ \A y \in Modules : next[y] = Null
  \/ \E n, r : Placed(n, r, x)

\* All modules agree on the structure of a type, a module that is not filled in has
\* none, and the structure at hand is the one all others have.
Agree == \A y, z \in Modules : \A n \in Names :
           types[y][n] # Null /\ types[z][n] # Null => types[y][n] = types[z][n]

NotFilled ==
  /\ \A y \in Modules : next[y] = Null => \A n \in Names : types[y][n] = Null
  /\ Filling => \A a \in 1 .. Len(TypeInitial[m]) : a >= i => types[m][TypeInitial[m][a]] = Null

TypeRight ==
  pc \in {"cast", "castquery", "loadcheck"} =>
    \A y \in Modules : types[y][TypeName] # Null => types[y][TypeName] = type

OneInv(x) == RingOK(x) /\ Agree /\ NotFilled /\ TypeRight
-----------------------------------------------------------------------------
(* Steps that leave the ring alone.                                         *)

Loading == {"type", "typequery", "cast", "castquery", "loadcheck"}

\* A step outside the loading of types.
LEMMA RingQuiet ==
  ASSUME NEW x \in Interps, RingOK(x), next' = next, head' = head,
         pc' \notin Loading \cup {"walk"}, ~ (pc = "walk" /\ init)
  PROVE  RingOK(x)'
<1>1. CASE head[x] = Null /\ \A y \in Modules : next[y] = Null
  BY <1>1 DEF RingOK
<1>2. CASE \E n, r : Placed(n, r, x)
  <2>1. PICK n, r : Placed(n, r, x)
    BY <1>2
  <2>2. Ring(n, r, x)'
    BY <2>1 DEF Placed, Ring
  <2>3. RingHolds(n, r)'
    BY <2>1 DEF Placed, RingHolds, On, Loading
  <2>4. WalkAt(n, r)' /\ LoadAt(n, r)' /\ QueryAt(n, r)'
    BY DEF WalkAt, LoadAt, QueryAt, Loading
  <2>5. Placed(n, r, x)'
    BY <2>2, <2>3, <2>4 DEF Placed
  <2> QED
    BY <2>5 DEF RingOK
<1> QED
  BY <1>1, <1>2 DEF RingOK

\* A step of the loops over types and casts that starts no query of a type.
LEMMA RingLoading ==
  ASSUME NEW x \in Interps, TableInv, RingOK(x), next' = next, head' = head, m' = m,
         pc \in Loading, pc' \in Loading \ {"typequery"}
  PROVE  RingOK(x)'
<1>1. m \in Modules /\ next[m] # Null
  BY DEF TableInv, ControlOK, Loading
<1>2. PICK n, r : Placed(n, r, x)
  BY <1>1 DEF RingOK
<1>3. Ring(n, r, x)'
  BY <1>2 DEF Placed, Ring
<1>4. RingHolds(n, r)'
  BY <1>2 DEF Placed, RingHolds, On, Loading
<1>5. WalkAt(n, r)' /\ QueryAt(n, r)'
  BY DEF WalkAt, QueryAt, Loading
<1>6. LoadAt(n, r)'
  BY <1>2 DEF Placed, LoadAt, Loading
<1>7. Placed(n, r, x)'
  BY <1>3, <1>4, <1>5, <1>6 DEF Placed
<1> QED
  BY <1>7 DEF RingOK

\* While a module is filled in, it is the only one or the second of the ring, and
\* every other linked module is on the ring too.
LEMMA LoadedRing ==
  ASSUME NEW x \in Interps, TableInv, RingOK(x), pc \in Loading
  PROVE  \E n, r : /\ Placed(n, r, x) /\ Ring(n, r, x)
                   /\ m = IF n = 1 THEN r[1] ELSE r[2]
                   /\ \A y \in Modules : next[y] # Null => On(n, r, y)
<1>1. m \in Modules /\ next[m] # Null
  BY DEF TableInv, ControlOK, Loading
<1>2. PICK n, r : Placed(n, r, x)
  BY <1>1 DEF RingOK
<1> QED
  BY <1>2 DEF Placed, LoadAt, RingHolds, Loading

\* The tables of types are left alone outside the loading of types.
LEMMA TypesQuiet ==
  ASSUME Agree, NotFilled, next' = next, types' = types, pc' \notin Loading \cup {"walk"}
  PROVE  Agree' /\ NotFilled' /\ TypeRight'
  BY DEF Agree, NotFilled, TypeRight, Filling, Loading

\* They are so too while casts are inserted.
LEMMA TypesCasts ==
  ASSUME Agree, NotFilled, TypeRight, next' = next, types' = types, m' = m, i' = i, type' = type,
         pc \in {"cast", "castquery", "loadcheck"}, pc' \in {"cast", "castquery", "loadcheck"}
  PROVE  Agree' /\ NotFilled' /\ TypeRight'
<1>1. Agree'
  BY DEF Agree
<1>2. NotFilled'
  BY DEF NotFilled, Filling
<1>3. TypeRight'
  BY DEF TypeRight, TypeName
<1> QED
  BY <1>1, <1>2, <1>3
-----------------------------------------------------------------------------
(* Linking a module into the ring.                                          *)

LEMMA OneInitializeModule ==
  ASSUME NEW x \in Interps, Interps = {x}, NEW mod \in Modules, TableInv, OneInv(x), InitializeModule(x, mod)
  PROVE  OneInv(x)'
<1>t. next \in [Modules -> Modules \cup {Null}] /\ head \in [Interps -> Modules \cup {Null}] /\ Null \notin Modules
  BY TypeTableAssumption DEF TableInv, TypeOK
<1>0. /\ pc = "idle" /\ m' = mod /\ i' = 1 /\ types' = types
      /\ init' = (next[mod] = Null)
      /\ next' = IF next[mod] = Null THEN [next EXCEPT ![mod] = mod] ELSE next
  BY DEF InitializeModule
<1>1. CASE head[x] = Null
  <2>1. \A y \in Modules : next[y] = Null
    <3>1. ASSUME NEW n, NEW r, Placed(n, r, x) PROVE FALSE
      BY <1>1, <1>t, <3>1 DEF Placed, Ring
    <3> QED
      BY <3>1 DEF OneInv, RingOK
  <2>2. head'[x] = mod /\ next' = [next EXCEPT ![mod] = mod] /\ pc' = "type"
    BY <1>0, <1>1, <1>t, <2>1 DEF InitializeModule
  <2> DEFINE r == [j \in 1 .. 1 |-> mod]
  <2>3. Ring(1, r, x)'
    BY <1>t, <2>2 DEF Ring
  <2>4. RingHolds(1, r)'
    BY <1>t, <2>1, <2>2 DEF RingHolds, On
  <2>5. WalkAt(1, r)' /\ LoadAt(1, r)' /\ QueryAt(1, r)'
    BY <1>0, <2>2 DEF WalkAt, LoadAt, QueryAt
  <2>6. RingOK(x)'
    BY <2>3, <2>4, <2>5 DEF RingOK, Placed
  <2>7. Agree' /\ TypeRight'
    BY <1>0, <2>2 DEF OneInv, Agree, TypeRight
  <2>8. NotFilled'
    <3>1. \A y \in Modules, n \in Names : types[y][n] = Null
      BY <2>1 DEF OneInv, NotFilled
    <3>2. \A a \in 1 .. Len(TypeInitial[mod]) : TypeInitial[mod][a] \in Names
      BY TypeTableAssumption
    <3> QED
      BY <1>0, <3>1, <3>2 DEF NotFilled
  <2> QED
    BY <2>6, <2>7, <2>8 DEF OneInv
<1>2. CASE head[x] # Null
  <2>1. PICK n, r : Placed(n, r, x)
    BY <1>2 DEF OneInv, RingOK
  <2>2. head' = head /\ iter' = head[x] /\ pc' = "walk"
    BY <1>2 DEF InitializeModule
  <2>3. /\ Ring(n, r, x)
        /\ \A y \in Modules : next[y] # Null <=> On(n, r, y)
    BY <1>0, <2>1 DEF Placed, RingHolds
  <2>4. /\ \A y \in Modules : On(n, r, y) => next'[y] = next[y]
        /\ next'[mod] # Null
        /\ \A y \in Modules : y # mod => next'[y] = next[y]
    BY <1>0, <1>t, <2>3
  <2>5. \A j \in 1 .. n : r[j] \in Modules /\ On(n, r, r[j])
    BY <2>3 DEF Ring, On
  <2>6. Ring(n, r, x)'
    BY <2>2, <2>3, <2>4, <2>5, SMTT(30) DEF Ring
  <2>7. RingHolds(n, r)'
    BY <1>0, <2>2, <2>3, <2>4 DEF RingHolds, On
  <2>8. WalkAt(n, r)'
    <3>1. init' <=> ~ On(n, r, m')
      BY <1>0, <2>3
    <3>2. 1 \in 1 .. n /\ iter' = r[1] /\ \A l \in 1 .. 1 - 1 : r[l] # m'
      BY <2>2, <2>3 DEF Ring
    <3> QED
      BY <3>1, <3>2 DEF WalkAt, On
  <2>9. LoadAt(n, r)' /\ QueryAt(n, r)'
    BY <2>2 DEF LoadAt, QueryAt
  <2>10. RingOK(x)'
    BY <2>6, <2>7, <2>8, <2>9 DEF RingOK, Placed
  <2>11. Agree' /\ TypeRight'
    BY <1>0, <2>2 DEF OneInv, Agree, TypeRight
  <2>12. NotFilled'
    <3>1. \A y \in Modules, l \in Names : next[y] = Null => types[y][l] = Null
      BY DEF OneInv, NotFilled
    <3>2. \A a \in 1 .. Len(TypeInitial[mod]) : TypeInitial[mod][a] \in Names
      BY TypeTableAssumption
    <3>3. \A y \in Modules : next'[y] = Null => next[y] = Null
      BY <2>4
    <3>4. Filling' => next[mod] = Null
      BY <1>0, <2>2 DEF Filling
    <3> QED
      BY <1>0, <3>1, <3>2, <3>3, <3>4 DEF NotFilled
  <2> QED
    BY <2>10, <2>11, <2>12 DEF OneInv
<1> QED
  BY <1>1, <1>2
LEMMA OneAlreadyInList ==
  ASSUME NEW x \in Interps, TableInv, OneInv(x), AlreadyInList
  PROVE  OneInv(x)'
<1>1. /\ pc' = "propagate" /\ next' = next /\ head' = head /\ types' = types
      /\ ~ (pc = "walk" /\ init)
  BY DEF AlreadyInList, TableInv, ControlOK
<1> QED
  BY <1>1, RingQuiet, TypesQuiet DEF OneInv, Loading

\* The walk goes on to the next module of the ring.
LEMMA WalkOn ==
  ASSUME NEW x \in Interps, Interps = {x}, TableInv, OneInv(x), WalkModules, next[iter] # head[itp]
  PROVE  OneInv(x)'
<1>0. /\ pc = "walk" /\ pc' = pc /\ iter # m /\ iter' = next[iter] /\ itp = x /\ m \in Modules /\ next[m] # Null
      /\ UNCHANGED <<next, head, types, m, init, i>>
  BY DEF WalkModules, TableInv, ControlOK
<1>1. PICK n, r : Placed(n, r, x)
  BY <1>0 DEF OneInv, RingOK
<1>2. Ring(n, r, x) /\ WalkAt(n, r) /\ RingHolds(n, r)
  BY <1>1 DEF Placed
<1>3. PICK j \in 1 .. n : iter = r[j] /\ \A l \in 1 .. j - 1 : r[l] # m
  BY <1>0, <1>2 DEF WalkAt
<1>4. j # n
  BY <1>0, <1>2, <1>3 DEF Ring
<1>5. j + 1 \in 1 .. n /\ j \in 1 .. n - 1 /\ n \in Nat
  BY <1>2, <1>4 DEF Ring
<1>6. iter' = r[j + 1]
  BY <1>0, <1>2, <1>3, <1>5 DEF Ring
<1>7. \A l \in 1 .. (j + 1) - 1 : r[l] # m
  BY <1>0, <1>3, <1>5
<1>8. Ring(n, r, x)' /\ RingHolds(n, r)'
  BY <1>0, <1>2 DEF Ring, RingHolds, On
<1>9. WalkAt(n, r)'
  <2>1. (init <=> ~ On(n, r, m))'
    BY <1>0, <1>2 DEF WalkAt, On
  <2> QED
    BY <1>0, <1>5, <1>6, <1>7, <2>1 DEF WalkAt
<1>10. LoadAt(n, r)' /\ QueryAt(n, r)'
  BY <1>0 DEF LoadAt, QueryAt
<1>11. RingOK(x)'
  BY <1>8, <1>9, <1>10 DEF RingOK, Placed
<1>12. Agree' /\ NotFilled' /\ TypeRight'
  BY <1>0 DEF OneInv, Agree, NotFilled, TypeRight, Filling
<1> QED
  BY <1>11, <1>12 DEF OneInv

\* The walk is back at the start: the module is new, and becomes the second of the ring.
LEMMA WalkEnds ==
  ASSUME NEW x \in Interps, Interps = {x}, TableInv, OneInv(x), WalkModules, next[iter] = head[itp]
  PROVE  OneInv(x)'
<1>0. /\ pc = "walk" /\ iter # m /\ itp = x /\ m \in Modules /\ next[m] # Null /\ i = 1
      /\ next' = [next EXCEPT ![m] = next[head[x]], ![head[x]] = m]
      /\ pc' = IF init THEN "type" ELSE "propagate"
      /\ UNCHANGED <<head, types, m, init, i>>
  BY DEF WalkModules, TableInv, ControlOK
<1>t. next \in [Modules -> Modules \cup {Null}] /\ head \in [Interps -> Modules \cup {Null}] /\ Null \notin Modules
  BY TypeTableAssumption DEF TableInv, TypeOK
<1>1. PICK n, r : Placed(n, r, x)
  BY <1>0 DEF OneInv, RingOK
<1>2. Ring(n, r, x) /\ WalkAt(n, r) /\ RingHolds(n, r)
  BY <1>1 DEF Placed
<1>3. PICK j \in 1 .. n : iter = r[j] /\ \A l \in 1 .. j - 1 : r[l] # m
  BY <1>0, <1>2 DEF WalkAt
<1>n. n \in Nat \ {0} /\ 1 \in 1 .. n /\ n \in 1 .. n
  BY <1>2 DEF Ring
<1>4. j = n
  <2>1. SUFFICES ASSUME j # n PROVE FALSE
    OBVIOUS
  <2>2. j \in 1 .. n - 1 /\ j + 1 \in 1 .. n /\ j + 1 # 1
    BY <1>n, <2>1
  <2>3. next[r[j]] = r[j + 1] /\ next[r[j]] = r[1]
    BY <1>0, <1>2, <1>3, <2>2 DEF Ring
  <2> QED
    BY <1>2, <1>n, <2>2, <2>3 DEF Ring
<1>5. ~ On(n, r, m)
  <2> SUFFICES ASSUME NEW a \in 1 .. n, r[a] = m PROVE FALSE
    BY DEF On
  <2>1. a = n \/ a \in 1 .. n - 1
    BY <1>n
  <2> QED
    BY <1>0, <1>3, <1>4, <2>1
<1>6. init /\ pc' = "type"
  BY <1>0, <1>2, <1>5 DEF WalkAt
<1>q. PICK q : q = [a \in 1 .. n + 1 |-> IF a = 1 THEN r[1] ELSE IF a = 2 THEN m ELSE r[a - 1]]
  OBVIOUS
<1>7. /\ head[x] = r[1] /\ r[1] \in Modules /\ r[1] # m
      /\ \A a \in 1 .. n : r[a] \in Modules /\ r[a] # m
  BY <1>2, <1>5, <1>n DEF Ring, On
<1>8. /\ next'[r[1]] = m /\ next'[m] = next[r[1]]
      /\ \A y \in Modules : y # m /\ y # r[1] => next'[y] = next[y]
  BY <1>0, <1>t, <1>7
<1>9. /\ n + 1 \in Nat \ {0}
      /\ q \in [1 .. n + 1 -> Modules] /\ q[1] = r[1] /\ q[2] = m
      /\ \A a \in 3 .. n + 1 : q[a] = r[a - 1] /\ a - 1 \in 2 .. n
  <2>1. m \in Modules /\ r[1] \in Modules /\ \A a \in 1 .. n : r[a] \in Modules
    BY <1>0, <1>7
  <2>2. n + 1 \in Nat \ {0} /\ 1 \in 1 .. n + 1 /\ 2 \in 1 .. n + 1
    BY <1>n
  <2>3. \A a \in 3 .. n + 1 : a \in 1 .. n + 1 /\ a # 1 /\ a # 2 /\ a - 1 \in 2 .. n
    BY <1>n
  <2>4. \A a \in 1 .. n + 1 : a # 1 /\ a # 2 => a - 1 \in 1 .. n
    BY <1>n
  <2>5. q \in [1 .. n + 1 -> Modules]
    BY <1>q, <2>1, <2>4
  <2> QED
    BY <1>q, <2>2, <2>3, <2>5
<1>10. \A a, b \in 1 .. n + 1 : q[a] = q[b] => a = b
  <2> SUFFICES ASSUME NEW a \in 1 .. n + 1, NEW b \in 1 .. n + 1, a < b PROVE q[a] # q[b]
    BY <1>n
  <2>1. CASE a = 1 /\ b = 2
    BY <1>7, <1>9, <2>1
  <2>2. CASE a = 1 /\ b # 2
    <3>1. b \in 3 .. n + 1 /\ b - 1 \in 1 .. n /\ b - 1 # 1
      BY <1>n, <2>2
    <3> QED
      BY <1>2, <1>9, <1>n, <2>2, <3>1 DEF Ring
  <2>3. CASE a = 2
    <3>1. b \in 3 .. n + 1 /\ b - 1 \in 1 .. n
      BY <1>n, <2>3
    <3> QED
      BY <1>7, <1>9, <2>3, <3>1
  <2>4. CASE a # 1 /\ a # 2
    <3>1. a \in 3 .. n + 1 /\ b \in 3 .. n + 1 /\ a - 1 \in 1 .. n /\ b - 1 \in 1 .. n /\ a - 1 # b - 1
      BY <1>n, <2>4
    <3> QED
      BY <1>2, <1>9, <3>1 DEF Ring
  <2> QED
    BY <2>1, <2>2, <2>3, <2>4
<1>11. \A a \in 1 .. n : next'[q[a]] = q[a + 1]
  <2> SUFFICES ASSUME NEW a \in 1 .. n PROVE next'[q[a]] = q[a + 1]
    OBVIOUS
  <2>1. CASE a = 1
    BY <1>8, <1>9, <2>1
  <2>2. CASE a = 2
    <3>1. 3 \in 3 .. n + 1 /\ 1 \in 1 .. n - 1 /\ 3 - 1 = 2 /\ 1 + 1 = 2
      BY <1>n, <2>2
    <3>2. q[3] = r[2] /\ next[r[1]] = r[2]
      BY <1>2, <1>9, <3>1 DEF Ring
    <3> QED
      BY <1>8, <1>9, <2>2, <3>2
  <2>3. CASE a # 1 /\ a # 2
    <3>1. /\ a \in 3 .. n + 1 /\ a + 1 \in 3 .. n + 1 /\ a - 1 \in 1 .. n - 1 /\ (a + 1) - 1 = (a - 1) + 1
          /\ a - 1 \in 1 .. n /\ a - 1 # 1
      BY <1>n, <2>3
    <3>2. q[a] = r[a - 1] /\ q[a + 1] = r[(a - 1) + 1] /\ next[r[a - 1]] = r[(a - 1) + 1]
      BY <1>2, <1>9, <3>1 DEF Ring
    <3>3. r[a - 1] # r[1] /\ r[a - 1] # m /\ r[a - 1] \in Modules
      BY <1>2, <1>7, <1>n, <3>1 DEF Ring
    <3> QED
      BY <1>8, <3>2, <3>3
  <2> QED
    BY <2>1, <2>2, <2>3
<1>12. next'[q[n + 1]] = q[1]
  <2>1. CASE n = 1
    BY <1>2, <1>8, <1>9, <2>1 DEF Ring
  <2>2. CASE n # 1
    <3>1. n + 1 \in 3 .. n + 1 /\ (n + 1) - 1 = n /\ n # 1
      BY <1>n, <2>2
    <3>2. q[n + 1] = r[n] /\ r[n] # r[1] /\ r[n] # m /\ r[n] \in Modules
      BY <1>2, <1>7, <1>9, <1>n, <3>1 DEF Ring
    <3> QED
      BY <1>2, <1>8, <1>9, <3>2 DEF Ring
  <2> QED
    BY <2>1, <2>2
<1>13. Ring(n + 1, q, x)'
  <2>1. (n + 1) - 1 = n
    BY <1>n
  <2> QED
    BY <1>0, <1>7, <1>9, <1>10, <1>11, <1>12, <2>1 DEF Ring
<1>14. \A y \in Modules : On(n + 1, q, y) <=> On(n, r, y) \/ y = m
  <2> SUFFICES ASSUME NEW y \in Modules PROVE On(n + 1, q, y) <=> On(n, r, y) \/ y = m
    OBVIOUS
  <2>1. ASSUME NEW a \in 1 .. n + 1, q[a] = y PROVE On(n, r, y) \/ y = m
    <3>1. a = 1 \/ a = 2 \/ a \in 3 .. n + 1
      BY <1>n
    <3>2. ASSUME a \in 3 .. n + 1 PROVE a - 1 \in 1 .. n
      BY <1>n, <3>2
    <3> QED
      BY <1>9, <1>n, <2>1, <3>1, <3>2 DEF On
  <2>2. ASSUME NEW a \in 1 .. n, r[a] = y PROVE On(n + 1, q, y)
    <3>1. CASE a = 1
      BY <1>9, <1>n, <2>2, <3>1 DEF On
    <3>2. CASE a # 1
      <4>1. a + 1 \in 3 .. n + 1 /\ a + 1 \in 1 .. n + 1 /\ (a + 1) - 1 = a
        BY <1>n, <3>2
      <4> QED
        BY <1>9, <2>2, <4>1 DEF On
    <3> QED
      BY <3>1, <3>2
  <2>3. On(n + 1, q, m)
    <3>1. 2 \in 1 .. n + 1
      BY <1>n
    <3> QED
      BY <1>9, <3>1 DEF On
  <2> QED
    BY <2>1, <2>2, <2>3 DEF On
<1>15. RingHolds(n + 1, q)'
  <2>1. next'[m] # Null /\ next'[r[1]] # Null
    <3>1. next[r[1]] # Null
      BY <1>2, <1>7, <1>n DEF RingHolds, On
    <3> QED
      BY <1>0, <1>8, <1>t, <3>1
  <2>2. \A y \in Modules : next'[y] # Null <=> next[y] # Null
    <3>1. next[r[1]] # Null
      BY <1>2, <1>7, <1>n DEF RingHolds, On
    <3> QED
      BY <1>0, <1>8, <2>1, <3>1
  <2>3. \A y \in Modules : next'[y] # Null <=> On(n + 1, q, y)
    BY <1>0, <1>2, <1>6, <1>14, <2>2 DEF RingHolds
  <2> QED
    BY <1>6, <2>3 DEF RingHolds, On
<1>16. LoadAt(n + 1, q)'
  <2>1. n + 1 # 1
    BY <1>n
  <2> QED
    BY <1>0, <1>9, <2>1 DEF LoadAt
<1>17. WalkAt(n + 1, q)' /\ QueryAt(n + 1, q)'
  BY <1>6 DEF WalkAt, QueryAt
<1>18. RingOK(x)'
  BY <1>13, <1>15, <1>16, <1>17 DEF RingOK, Placed
<1>19. Agree' /\ TypeRight'
  BY <1>0, <1>6 DEF OneInv, Agree, TypeRight
<1>20. NotFilled'
  <2>1. \A y \in Modules : next'[y] = Null => next[y] = Null
    BY <1>8, <1>0, <1>2, <1>7, <1>n, <1>t DEF RingHolds, On
  <2> QED
    BY <1>0, <1>6, <2>1 DEF OneInv, NotFilled, Filling
<1> QED
  BY <1>18, <1>19, <1>20 DEF OneInv
-----------------------------------------------------------------------------
(* Looking for the structure of a type.                                     *)

\* The name of the type at hand, which m does not have yet.
LEMMA AtHand ==
  ASSUME TableInv, NotFilled, pc \in {"typequery", "cast", "castquery", "loadcheck"}
  PROVE  /\ m \in Modules /\ i \in 1 .. Len(TypeInitial[m]) /\ TypeName \in Names
         /\ types[m][TypeName] = Null
<1>1. m \in Modules /\ i \in 1 .. Len(TypeInitial[m])
  BY DEF TableInv, ControlOK
<1>2. TypeName \in Names
  BY <1>1, TypeTableAssumption DEF TypeName
<1>3. types[m][TypeName] = Null
  BY <1>1 DEF NotFilled, Filling, TypeName
<1> QED
  BY <1>1, <1>2, <1>3

LEMMA OneNextType ==
  ASSUME NEW x \in Interps, TableInv, OneInv(x), NextType
  PROVE  OneInv(x)'
<1>0. /\ pc = "type" /\ m \in Modules /\ i \in Nat
      /\ UNCHANGED <<next, head, types, m, i, init>>
  BY DEF NextType, TableInv, ControlOK, TypeOK
<1>1. PICK n, r : /\ Placed(n, r, x) /\ Ring(n, r, x)
                  /\ m = IF n = 1 THEN r[1] ELSE r[2]
                  /\ \A y \in Modules : next[y] # Null => On(n, r, y)
  BY <1>0, LoadedRing DEF OneInv, Loading
<1>n. n \in Nat \ {0} /\ 1 \in 1 .. n
  BY <1>1 DEF Ring
<1>2. CASE i > Len(TypeInitial[m])
  <2>1. pc' = "propagate"
    BY <1>2 DEF NextType
  <2> QED
    BY <1>0, <2>1, RingQuiet, TypesQuiet DEF OneInv, Loading
<1>3. CASE ~ (i > Len(TypeInitial[m])) /\ next[m] # m
  <2>1. pc' = "typequery" /\ iter' = next[m]
    BY <1>3 DEF NextType
  <2>2. n # 1
    BY <1>1, <1>3 DEF Ring
  <2>3. m = r[2] /\ n >= 2 /\ 3 \in 3 .. n + 1 /\ 2 \in 1 .. n
    BY <1>1, <1>n, <2>2
  <2>4. iter' = r[IF 3 = n + 1 THEN 1 ELSE 3]
    <3>1. CASE n = 2
      BY <1>1, <2>1, <2>3, <3>1 DEF Ring
    <3>2. CASE n # 2
      <4>1. 2 \in 1 .. n - 1 /\ 2 + 1 = 3 /\ 3 # n + 1
        BY <1>n, <2>3, <3>2
      <4> QED
        BY <1>1, <2>1, <2>3, <4>1 DEF Ring
    <3> QED
      BY <3>1, <3>2
  <2>5. QueryAt(n, r)'
    <3>1. \A l \in 3 .. 3 - 1 : types'[r[l]][TypeName'] = Null
      OBVIOUS
    <3> QED
      BY <2>3, <2>4, <3>1 DEF QueryAt
  <2>6. Ring(n, r, x)'
    BY <1>0, <1>1 DEF Ring
  <2>7. RingHolds(n, r)'
    BY <1>0, <1>1, <2>1 DEF Placed, RingHolds, On
  <2>8. WalkAt(n, r)' /\ LoadAt(n, r)'
    BY <1>0, <1>1, <2>1 DEF WalkAt, LoadAt
  <2>9. RingOK(x)'
    BY <2>5, <2>6, <2>7, <2>8 DEF RingOK, Placed
  <2>10. Agree' /\ NotFilled' /\ TypeRight'
    BY <1>0, <2>1 DEF OneInv, Agree, NotFilled, TypeRight, Filling
  <2> QED
    BY <2>9, <2>10 DEF OneInv
<1>4. CASE ~ (i > Len(TypeInitial[m])) /\ next[m] = m
  <2>1. pc' = "cast"
    BY <1>4 DEF NextType, StartRow
  <2>2. n = 1
    <3>1. SUFFICES ASSUME n # 1 PROVE FALSE
      OBVIOUS
    <3>2. m = r[2] /\ 2 \in 1 .. n
      BY <1>1, <1>n, <3>1
    <3>3. CASE n = 2
      BY <1>1, <1>4, <1>n, <3>2, <3>3 DEF Ring
    <3>4. CASE n # 2
      <4>1. 2 \in 1 .. n - 1 /\ 3 \in 1 .. n
        BY <1>n, <3>1, <3>4
      <4>2. next[r[2]] = r[2 + 1]
        BY <1>1, <4>1 DEF Ring
      <4> QED
        BY <1>1, <1>4, <3>2, <4>1, <4>2 DEF Ring
    <3> QED
      BY <3>3, <3>4
  <2>3. RingOK(x)'
    BY <1>0, <2>1, RingLoading DEF OneInv, Loading
  <2>4. Agree' /\ NotFilled'
    BY <1>0, <2>1 DEF OneInv, Agree, NotFilled, Filling
  <2>5. i \in 1 .. Len(TypeInitial[m]) /\ TypeName' = TypeName
    BY <1>0, <1>4 DEF TableInv, ControlOK, TypeName
  <2>6. TypeName \in Names /\ types[m][TypeName] = Null
    BY <1>0, <2>5, TypeTableAssumption DEF OneInv, NotFilled, Filling, TypeName
  <2>7. ASSUME NEW y \in Modules PROVE types[y][TypeName] = Null
    <3>1. next[y] # Null => y = m
      BY <1>1, <2>2 DEF On
    <3> QED
      BY <2>6, <3>1 DEF OneInv, NotFilled
  <2>8. TypeRight'
    BY <1>0, <2>5, <2>7 DEF TypeRight
  <2> QED
    BY <2>3, <2>4, <2>8 DEF OneInv
<1> QED
  BY <1>2, <1>3, <1>4

\* The query finds the structure that all have, or passes every other module.
LEMMA OneQueryType ==
  ASSUME NEW x \in Interps, TableInv, OneInv(x), QueryType
  PROVE  OneInv(x)'
<1>0. /\ pc = "typequery" /\ m \in Modules /\ iter \in Modules
      /\ UNCHANGED <<next, head, types, m, i, init>> /\ TypeName' = TypeName
  BY DEF QueryType, TableInv, ControlOK, TypeName
<1>h. TypeName \in Names /\ types[m][TypeName] = Null
  BY <1>0, AtHand DEF OneInv
<1>1. PICK n, r : /\ Placed(n, r, x) /\ Ring(n, r, x)
                  /\ m = IF n = 1 THEN r[1] ELSE r[2]
                  /\ \A y \in Modules : next[y] # Null => On(n, r, y)
  BY <1>0, LoadedRing DEF OneInv, Loading
<1>2. n \in Nat \ {0} /\ n >= 2 /\ m = r[2] /\ 1 \in 1 .. n /\ 2 \in 1 .. n
  BY <1>0, <1>1 DEF Placed, QueryAt, Ring
<1>3. PICK p \in 3 .. n + 1 : /\ iter = r[IF p = n + 1 THEN 1 ELSE p]
                              /\ \A l \in 3 .. p - 1 : types[r[l]][TypeName] = Null
  BY <1>0, <1>1 DEF Placed, QueryAt
<1>4. CASE types[iter][TypeName] # Null
  <2>1. pc' = "cast" /\ type' = types[iter][TypeName]
    BY <1>4 DEF QueryType, StartRow
  <2>2. RingOK(x)'
    BY <1>0, <2>1, RingLoading DEF OneInv, Loading
  <2>3. Agree' /\ NotFilled'
    BY <1>0, <2>1 DEF OneInv, Agree, NotFilled, Filling
  <2>4. \A y \in Modules : types[y][TypeName] # Null => types[y][TypeName] = types[iter][TypeName]
    BY <1>0, <1>4, <1>h DEF OneInv, Agree
  <2>5. TypeRight'
    BY <1>0, <2>1, <2>4 DEF TypeRight
  <2> QED
    BY <2>2, <2>3, <2>5 DEF OneInv
<1>5. CASE types[iter][TypeName] = Null /\ next[iter] # m
  <2>1. pc' = "typequery" /\ iter' = next[iter]
    BY <1>0, <1>5 DEF QueryType
  <2>2. p # n + 1
    <3>1. SUFFICES ASSUME p = n + 1 PROVE FALSE
      OBVIOUS
    <3>2. 1 \in 1 .. n - 1 /\ 1 + 1 = 2
      BY <1>2
    <3>3. next[r[1]] = r[2]
      BY <1>1, <3>2 DEF Ring
    <3> QED
      BY <1>2, <1>3, <1>5, <3>1, <3>3
  <2>3. p \in 3 .. n /\ p + 1 \in 3 .. n + 1 /\ iter = r[p]
    BY <1>2, <1>3, <2>2
  <2>4. next[r[p]] = r[IF p + 1 = n + 1 THEN 1 ELSE p + 1]
    <3>1. CASE p = n
      BY <1>1, <3>1 DEF Ring
    <3>2. CASE p # n
      <4>1. p \in 1 .. n - 1 /\ p + 1 # n + 1
        BY <1>2, <2>3, <3>2
      <4> QED
        BY <1>1, <4>1 DEF Ring
    <3> QED
      BY <3>1, <3>2
  <2>5. \A l \in 3 .. (p + 1) - 1 : types[r[l]][TypeName] = Null
    <3> SUFFICES ASSUME NEW l \in 3 .. (p + 1) - 1 PROVE types[r[l]][TypeName] = Null
      OBVIOUS
    <3>1. l = p \/ l \in 3 .. p - 1
      BY <1>2, <2>3
    <3> QED
      BY <1>3, <1>5, <2>3, <3>1
  <2>6. QueryAt(n, r)'
    BY <1>0, <1>2, <2>1, <2>3, <2>4, <2>5 DEF QueryAt
  <2>7. Ring(n, r, x)' /\ RingHolds(n, r)'
    BY <1>0, <1>1, <2>1 DEF Ring, Placed, RingHolds, On
  <2>8. WalkAt(n, r)' /\ LoadAt(n, r)'
    BY <1>0, <1>1, <2>1 DEF WalkAt, LoadAt
  <2>9. RingOK(x)'
    BY <2>6, <2>7, <2>8 DEF RingOK, Placed
  <2>10. Agree' /\ NotFilled' /\ TypeRight'
    BY <1>0, <2>1 DEF OneInv, Agree, NotFilled, TypeRight, Filling
  <2> QED
    BY <2>9, <2>10 DEF OneInv
<1>6. CASE types[iter][TypeName] = Null /\ next[iter] = m
  <2>1. pc' = "cast"
    BY <1>6 DEF QueryType, StartRow
  <2>2. p = n + 1
    <3>1. SUFFICES ASSUME p # n + 1 PROVE FALSE
      OBVIOUS
    <3>2. p \in 3 .. n /\ iter = r[p] /\ p \in 1 .. n
      BY <1>2, <1>3, <3>1
    <3>3. CASE p = n
      BY <1>1, <1>2, <1>6, <3>2, <3>3 DEF Ring
    <3>4. CASE p # n
      <4>1. p \in 1 .. n - 1 /\ p + 1 \in 1 .. n /\ p + 1 # 2
        BY <1>2, <3>2, <3>4
      <4>2. next[r[p]] = r[p + 1]
        BY <1>1, <4>1 DEF Ring
      <4> QED
        BY <1>1, <1>2, <1>6, <3>2, <4>1, <4>2 DEF Ring
    <3> QED
      BY <3>3, <3>4
  <2>3. ASSUME NEW l \in 1 .. n PROVE types[r[l]][TypeName] = Null
    <3>1. l = 1 \/ l = 2 \/ l \in 3 .. p - 1
      BY <1>2, <2>2
    <3> QED
      BY <1>2, <1>3, <1>6, <1>h, <2>2, <3>1
  <2>4. ASSUME NEW y \in Modules PROVE types[y][TypeName] = Null
    BY <1>1, <1>h, <2>3 DEF OneInv, NotFilled, On
  <2>5. RingOK(x)'
    BY <1>0, <2>1, RingLoading DEF OneInv, Loading
  <2>6. Agree' /\ NotFilled'
    BY <1>0, <2>1 DEF OneInv, Agree, NotFilled, Filling
  <2>7. TypeRight'
    BY <1>0, <2>4 DEF TypeRight
  <2> QED
    BY <2>5, <2>6, <2>7 DEF OneInv
<1> QED
  BY <1>4, <1>5, <1>6

\* At the end of a row m gets the structure that all others have.
LEMMA OneNextCast ==
  ASSUME NEW x \in Interps, TableInv, OneInv(x), NextCast
  PROVE  OneInv(x)'
<1>0. /\ pc = "cast" /\ type \in Type
      /\ UNCHANGED <<next, head, m, init>>
      /\ types \in [Modules -> [Names -> Type \cup {Null}]]
  BY DEF NextCast, TableInv, ControlOK, TypeOK
<1>h. m \in Modules /\ i \in 1 .. Len(TypeInitial[m]) /\ TypeName \in Names /\ types[m][TypeName] = Null
  BY <1>0, AtHand DEF OneInv
<1>1. CASE k > Len(Row)
  <2>1. /\ pc' = "type" /\ i' = i + 1
        /\ types' = [types EXCEPT ![m][TypeName] = type]
    BY <1>1 DEF NextCast
  <2>2. RingOK(x)'
    BY <1>0, <2>1, RingLoading DEF OneInv, Loading
  <2>3. \A y \in Modules, n \in Names : types'[y][n] = IF y = m /\ n = TypeName THEN type ELSE types[y][n]
    BY <1>0, <1>h, <2>1
  <2>4. Agree'
    <3>1. \A y \in Modules : types[y][TypeName] # Null => types[y][TypeName] = type
      BY <1>0 DEF OneInv, TypeRight
    <3> QED
      BY <2>3, <3>1 DEF OneInv, Agree
  <2>5. NotFilled'
    <3>1. m \in Modules /\ next[m] # Null
      BY <1>0 DEF TableInv, ControlOK
    <3>2. ASSUME NEW a \in 1 .. Len(TypeInitial[m]), a >= i + 1
          PROVE  types'[m][TypeInitial[m][a]] = Null
      <4>1. a # i /\ a >= i /\ TypeInitial[m][a] \in Names
        BY <1>h, <3>2, TypeTableAssumption
      <4>2. TypeInitial[m][a] # TypeName
        BY <1>h, <4>1, TypeTableAssumption DEF TypeName
      <4> QED
        BY <1>0, <1>h, <2>3, <4>1, <4>2 DEF OneInv, NotFilled, Filling
    <3> QED
      BY <1>0, <2>1, <2>3, <3>1, <3>2 DEF OneInv, NotFilled
  <2>6. TypeRight'
    BY <2>1 DEF TypeRight
  <2> QED
    BY <2>2, <2>4, <2>5, <2>6 DEF OneInv
<1>2. CASE ~ (k > Len(Row))
  <2>1. pc' \in {"cast", "castquery"} /\ types' = types /\ i' = i /\ type' = type
    BY <1>2 DEF NextCast, NextInRow
  <2>2. RingOK(x)'
    BY <1>0, <2>1, RingLoading DEF OneInv, Loading
  <2> QED
    BY <1>0, <2>1, <2>2, TypesCasts DEF OneInv
<1> QED
  BY <1>1, <1>2

LEMMA OneCasts ==
  ASSUME NEW x \in Interps, TableInv, OneInv(x), QueryCast \/ LoadCheck
  PROVE  OneInv(x)'
<1>1. /\ pc \in {"castquery", "loadcheck"} /\ pc' \in {"cast", "castquery", "loadcheck"}
      /\ UNCHANGED <<next, head, types, m, init, i, type>>
  BY DEF QueryCast, LoadCheck, NextInRow
<1>2. RingOK(x)'
  BY <1>1, RingLoading DEF OneInv, Loading
<1> QED
  BY <1>1, <1>2, TypesCasts DEF OneInv

\* Everything else leaves the modules and their types alone.
LEMMA OneOthers ==
  ASSUME NEW x \in Interps, TableInv, OneInv(x),
         \/ \E t \in Loaded, n \in Names : TypeCheck(t, n)
         \/ \E t, from \in Loaded : TypeCheckStruct(t, from)
         \/ \E t \in Loaded, d \in Data : TypeClientData(t, d)
         \/ CheckCast \/ PropagateClientData \/ PropagateType \/ PropagateCast
  PROVE  OneInv(x)'
<1>1. /\ pc # "walk" /\ pc' \notin Loading \cup {"walk"}
      /\ UNCHANGED <<next, head, types>>
  BY DEF TypeCheck, TypeCheckStruct, StartCheck, TypeClientData, CheckCast, PropagateClientData, PropagateType,
     PropagateCast, Return, Loading
<1> QED
  BY <1>1, RingQuiet, TypesQuiet DEF OneInv

LEMMA OneStutter == ASSUME NEW x, OneInv(x), UNCHANGED vars PROVE OneInv(x)'
<1>1. RingOK(x)'
  <2>1. \A n, r : Placed(n, r, x) => Placed(n, r, x)'
    BY DEF vars, Placed, Ring, RingHolds, WalkAt, LoadAt, QueryAt, On, TypeName
  <2> QED
    BY <2>1 DEF OneInv, RingOK, vars
<1>2. Agree' /\ NotFilled' /\ TypeRight'
  BY DEF vars, OneInv, Agree, NotFilled, TypeRight, Filling, TypeName
<1> QED
  BY <1>1, <1>2 DEF OneInv

LEMMA OneInit == ASSUME NEW x \in Interps PROVE Init => OneInv(x)
<1> SUFFICES ASSUME Init PROVE OneInv(x)
  OBVIOUS
<1>1. RingOK(x)
  BY DEF Init, RingOK
<1>2. Agree /\ NotFilled /\ TypeRight
  BY DEF Init, Agree, NotFilled, TypeRight, Filling
<1> QED
  BY <1>1, <1>2 DEF OneInv

LEMMA OneNext ==
  ASSUME NEW x \in Interps, Interps = {x}
  PROVE  TableInv /\ OneInv(x) /\ [Next]_vars => OneInv(x)'
<1> SUFFICES ASSUME TableInv, OneInv(x), [Next]_vars PROVE OneInv(x)'
  OBVIOUS
<1>1. ASSUME NEW y \in Interps, NEW mod \in Modules, InitializeModule(y, mod) PROVE OneInv(x)'
  BY <1>1, OneInitializeModule
<1>2. CASE WalkModules
  BY <1>2, WalkOn, WalkEnds
<1> QED
  BY <1>1, <1>2, OneAlreadyInList, OneNextType, OneQueryType, OneNextCast, OneCasts, OneOthers, OneStutter
     DEF Next, Step

LEMMA OneInvariant == ASSUME NEW x \in Interps, Interps = {x} PROVE Spec => []OneInv(x)
  BY OneInit, OneNext, TableInvariant, PTL DEF Spec

\* In a process with one interpreter all modules use one structure for a type, in
\* whatever order they are loaded: SWIG_MangledTypeQueryModule finds it.
THEOREM OneStruct == ASSUME NEW x \in Interps, Interps = {x} PROVE Spec => []OneStructPerType
<1>1. OneInv(x) => OneStructPerType
  BY DEF OneInv, Agree, OneStructPerType, LoadedModules
<1> QED
  BY <1>1, OneInvariant, PTL

\* In a process with one interpreter the modules form one circular list, in whatever
\* order they are loaded and however often.
THEOREM ModulesInCircle == ASSUME NEW x \in Interps, Interps = {x} PROVE Spec => []CircularList
<1>1. OneInv(x) => CircularList
  <2> SUFFICES ASSUME OneInv(x), pc = "idle"
               PROVE  /\ head[x] # Null => \E n \in 1 .. Cardinality(Modules) : Rings(n, x) # {}
                      /\ \A mod \in LoadedModules :
                           \E n \in 1 .. Cardinality(Modules) : \E r \in Rings(n, x), j \in 1 .. n : r[j] = mod
    BY DEF CircularList, ListsLeadBack
  <2>1. CASE head[x] = Null /\ \A y \in Modules : next[y] = Null
    BY <2>1 DEF LoadedModules
  <2>2. CASE \E n, r : Placed(n, r, x)
    <3>1. PICK n, r : Placed(n, r, x)
      BY <2>2
    <3>2. Ring(n, r, x) /\ \A y \in Modules : next[y] # Null => On(n, r, y)
      BY <3>1 DEF Placed, RingHolds
    <3>3. n \in Nat \ {0} /\ r \in [1 .. n -> Modules] /\ 1 \in Int /\ n \in Int
      BY <3>2 DEF Ring
    <3>4. ASSUME NEW j \in 1 .. n PROVE next[r[j]] = r[IF j = n THEN 1 ELSE j + 1]
      <4>1. j = n \/ j \in 1 .. n - 1
        BY <3>3
      <4> QED
        BY <3>2, <3>3, <4>1 DEF Ring
    <3>5. r \in Rings(n, x)
      BY <3>2, <3>3, <3>4 DEF Ring, Rings
    <3>6. n \in 1 .. Cardinality(Modules)
      <4>1. r \in Injection(1 .. n, Modules)
        BY <3>2, <3>3, Zenon DEF Ring, Injection, IsInjective
      <4>2. IsFiniteSet(Modules) /\ Cardinality(Modules) \in Nat
        BY TypeTableAssumption, FS_CardinalityType
      <4>3. Cardinality(1 .. n) <= Cardinality(Modules)
        BY <4>1, <4>2, FS_Injection
      <4>4. Cardinality(1 .. n) = IF 1 > n THEN 0 ELSE n - 1 + 1
        BY <3>3, FS_Interval, Zenon
      <4> QED
        BY <3>3, <4>2, <4>3, <4>4
    <3> QED
      BY <3>2, <3>5, <3>6 DEF On, LoadedModules
  <2> QED
    BY <2>1, <2>2 DEF OneInv, RingOK
<1> QED
  BY <1>1, OneInvariant, PTL
-----------------------------------------------------------------------------
(***************************************************************************)
(* What is on the cast lists.  A list is a sequence of emitted casts with  *)
(* different cast types, which starts at c0 and goes on with the next      *)
(* pointers nx.                                                            *)
(***************************************************************************)
Linked(c0, nx, s) ==
  /\ s \in Seq(Emitted)
  /\ \A a, b \in 1 .. Len(s) : s[a].from = s[b].from => a = b
  /\ Len(s) = 0 => c0 = Null
  /\ Len(s) # 0 => c0 = s[1]
  /\ \A j \in 1 .. Len(s) : nx[s[j]] = IF j = Len(s) THEN Null ELSE s[j + 1]

Froms(s) == {s[j].from : j \in 1 .. Len(s)}

\* The list with c in front of it, and with its element p moved to the front.
Push(c, s)  == [j \in 1 .. Len(s) + 1 |-> IF j = 1 THEN c ELSE s[j - 1]]
Front(s, p) == [j \in 1 .. Len(s) |-> IF j = 1 THEN s[p] ELSE IF j <= p THEN s[j - 1] ELSE s[j]]

\* A function on 1 .. n is a sequence of length n.
LEMMA IsSeqOf ==
  ASSUME NEW S, NEW n \in Nat, NEW f, f \in [1 .. n -> S]
  PROVE  f \in Seq(S) /\ Len(f) = n
<1>1. f \in Seq(S)
  BY IsASeq
<1> QED
  BY <1>1

\* A new cast is inserted at the head of a list.
LEMMA LinkedPush ==
  ASSUME NEW c0, NEW nx, NEW s, Linked(c0, nx, s), NEW c \in Emitted, c.from \notin Froms(s), NEW ny,
         ny[c] = c0, \A j \in 1 .. Len(s) : ny[s[j]] = nx[s[j]]
  PROVE  /\ Linked(c, ny, Push(c, s)) /\ Froms(Push(c, s)) = Froms(s) \cup {c.from}
         /\ Len(Push(c, s)) = Len(s) + 1
         /\ \A j \in 1 .. Len(s) + 1 : Push(c, s)[j] = IF j = 1 THEN c ELSE s[j - 1]
<1>1. PICK n, q : n = Len(s) /\ q = Push(c, s)
  OBVIOUS
<1>2. s \in Seq(Emitted) /\ n \in Nat
  BY <1>1 DEF Linked
<1>3. \A j \in 1 .. n + 1 : j # 1 => j - 1 \in 1 .. n
  BY <1>2
<1>4. q = [j \in 1 .. n + 1 |-> IF j = 1 THEN c ELSE s[j - 1]]
  BY <1>1 DEF Push
<1>5. q \in [1 .. n + 1 -> Emitted]
  <2>1. \A j \in 1 .. n : s[j] \in Emitted
    BY <1>1, <1>2
  <2> QED
    BY <1>3, <1>4, <2>1
<1>6. q \in Seq(Emitted) /\ Len(q) = n + 1
  BY <1>2, <1>5, IsSeqOf
<1>7. \A j \in 1 .. n + 1 : q[j] = IF j = 1 THEN c ELSE s[j - 1]
  BY <1>4
<1>8. \A j \in 1 .. n : j + 1 \in 1 .. n + 1 /\ q[j + 1] = s[j]
  BY <1>2, <1>7
<1>9. 1 \in 1 .. n + 1 /\ q[1] = c
  BY <1>2, <1>7
<1>10. Froms(q) = Froms(s) \cup {c.from}
  <2>1. \A j \in 1 .. n + 1 : q[j].from \in Froms(s) \cup {c.from}
    BY <1>1, <1>3, <1>7 DEF Froms
  <2>2. c.from \in Froms(q)
    BY <1>6, <1>9 DEF Froms
  <2>3. \A j \in 1 .. n : s[j].from \in Froms(q)
    BY <1>6, <1>8 DEF Froms
  <2>4. \A z \in Froms(q) : z \in Froms(s) \cup {c.from}
    BY <1>6, <2>1 DEF Froms
  <2>5. \A z \in Froms(s) : z \in Froms(q)
    BY <1>1, <2>3 DEF Froms
  <2> QED
    BY <2>2, <2>4, <2>5
<1>11. \A a, b \in 1 .. n + 1 : q[a].from = q[b].from => a = b
  <2>1. \A a \in 1 .. n + 1 : a # 1 => q[a].from \in Froms(s)
    BY <1>1, <1>3, <1>7 DEF Froms
  <2>2. \A a, b \in 1 .. n + 1 : a # 1 /\ b # 1 /\ q[a].from = q[b].from => a - 1 = b - 1
    BY <1>1, <1>3, <1>7 DEF Linked
  <2>3. \A a, b \in 1 .. n + 1 : a - 1 = b - 1 => a = b
    BY <1>2
  <2> QED
    BY <1>9, <2>1, <2>2, <2>3
<1>12. \A j \in 1 .. n + 1 : ny[q[j]] = IF j = n + 1 THEN Null ELSE q[j + 1]
  <2>1. ny[q[1]] = IF 1 = n + 1 THEN Null ELSE q[1 + 1]
    <3>1. CASE n = 0
      BY <1>1, <1>9, <3>1 DEF Linked
    <3>2. CASE n # 0
      <4>1. 1 \in 1 .. n /\ 1 # n + 1
        BY <1>2, <3>2
      <4> QED
        BY <1>1, <1>8, <1>9, <3>2, <4>1 DEF Linked
    <3> QED
      BY <3>1, <3>2
  <2>2. ASSUME NEW j \in 1 .. n PROVE ny[q[j + 1]] = IF j + 1 = n + 1 THEN Null ELSE q[j + 1 + 1]
    <3>1. ny[q[j + 1]] = IF j = n THEN Null ELSE s[j + 1]
      BY <1>1, <1>8 DEF Linked
    <3>2. j # n => j + 1 \in 1 .. n
      BY <1>2
    <3>3. j + 1 = n + 1 <=> j = n
      BY <1>2
    <3> QED
      BY <1>8, <3>1, <3>2, <3>3
  <2>3. \A j \in 1 .. n + 1 : j # 1 => \E l \in 1 .. n : j = l + 1
    BY <1>2
  <2> QED
    BY <2>1, <2>2, <2>3
<1>13. Linked(c, ny, q)
  BY <1>2, <1>6, <1>9, <1>11, <1>12 DEF Linked
<1> QED
  BY <1>1, <1>6, <1>7, <1>10, <1>13
\* The pointers of the casts on a list do not change.
LEMMA LinkedSame ==
  ASSUME NEW c0, NEW nx, NEW s, Linked(c0, nx, s), NEW ny, \A j \in 1 .. Len(s) : ny[s[j]] = nx[s[j]]
  PROVE  Linked(c0, ny, s)
  BY DEF Linked

\* Different places of a list have different casts.
LEMMA LinkedOnce ==
  ASSUME NEW c0, NEW nx, NEW s, Linked(c0, nx, s), NEW a \in 1 .. Len(s), NEW b \in 1 .. Len(s), s[a] = s[b]
  PROVE  a = b
  BY DEF Linked

\* List q, which starts at c0 and goes on with nx, holds what s holds.
SameList(q, c0, nx, s) ==
  /\ Linked(c0, nx, q) /\ Froms(q) = Froms(s)
  /\ Len(q) = Len(s)
  /\ \A j \in 1 .. Len(s) : \E e \in 1 .. Len(s) : q[j] = s[e]

\* A cast that is not the first is unlinked and inserted at the head.
LEMMA LinkedFront ==
  ASSUME NEW c0, NEW nx, NEW s, Linked(c0, nx, s), NEW p \in 1 .. Len(s), p # 1, NEW ny,
         ny[s[p]] = c0, ny[s[p - 1]] = nx[s[p]],
         \A d \in Emitted : d # s[p] /\ d # s[p - 1] => ny[d] = nx[d]
  PROVE  SameList(Front(s, p), s[p], ny, s)
<1>1. PICK n, q : n = Len(s) /\ q = Front(s, p)
  OBVIOUS
<1>2. s \in Seq(Emitted) /\ n \in Nat /\ p \in 2 .. n /\ p - 1 \in 1 .. n
  BY <1>1 DEF Linked
<1>3. \A j \in 1 .. n : j # 1 => j - 1 \in 1 .. n
  BY <1>2
<1>4. q = [j \in 1 .. n |-> IF j = 1 THEN s[p] ELSE IF j <= p THEN s[j - 1] ELSE s[j]]
  BY <1>1 DEF Front
<1>5. q \in [1 .. n -> Emitted]
  <2>1. \A j \in 1 .. n : s[j] \in Emitted
    BY <1>1, <1>2
  <2> QED
    BY <1>1, <1>3, <1>4, <2>1
<1>6. q \in Seq(Emitted) /\ Len(q) = n
  BY <1>2, <1>5, IsSeqOf
<1>7. \A j \in 1 .. n : q[j] = IF j = 1 THEN s[p] ELSE IF j <= p THEN s[j - 1] ELSE s[j]
  BY <1>4
<1>8. \A j \in 1 .. n : \E l \in 1 .. n : q[j] = s[l] /\ l = IF j = 1 THEN p ELSE IF j <= p THEN j - 1 ELSE j
  BY <1>1, <1>3, <1>7
<1>9. \A l \in 1 .. n : \E j \in 1 .. n : q[j] = s[l]
  <2>1. ASSUME NEW l \in 1 .. n PROVE \E j \in 1 .. n : q[j] = s[l]
    <3>1. PICK j : j = IF l = p THEN 1 ELSE IF l < p THEN l + 1 ELSE l
      OBVIOUS
    <3>2. j \in 1 .. n /\ (j = 1 => l = p) /\ (j # 1 /\ j <= p => l = j - 1) /\ (j # 1 /\ ~ (j <= p) => l = j)
      BY <1>2, <3>1
    <3> QED
      BY <1>7, <3>2
  <2> QED
    BY <2>1
<1>10. Froms(q) = Froms(s)
  <2>1. Froms(q) = {q[j].from : j \in 1 .. n} /\ Froms(s) = {s[j].from : j \in 1 .. n}
    BY <1>1, <1>6 DEF Froms
  <2>2. \A j \in 1 .. n : q[j].from \in Froms(s)
    <3>1. \A j \in 1 .. n : \E l \in 1 .. n : q[j] = s[l]
      BY <1>8
    <3> HIDE DEF Froms
    <3> QED
      BY <2>1, <3>1
  <2>3. \A j \in 1 .. n : s[j].from \in Froms(q)
    BY <1>9, <2>1
  <2>4. \A z \in Froms(q) : z \in Froms(s)
    BY <2>1, <2>2
  <2>5. \A z \in Froms(s) : z \in Froms(q)
    BY <2>1, <2>3
  <2> QED
    BY <2>4, <2>5
<1>11. \A a, b \in 1 .. n : q[a].from = q[b].from => a = b
  <2>1. ASSUME NEW a \in 1 .. n, NEW b \in 1 .. n, q[a].from = q[b].from PROVE a = b
    <3>1. PICK f \in 1 .. n : q[a] = s[f] /\ f = IF a = 1 THEN p ELSE IF a <= p THEN a - 1 ELSE a
      BY <1>8
    <3>2. PICK g \in 1 .. n : q[b] = s[g] /\ g = IF b = 1 THEN p ELSE IF b <= p THEN b - 1 ELSE b
      BY <1>8
    <3>3. f = g
      BY <1>1, <2>1, <3>1, <3>2 DEF Linked
    <3> QED
      BY <1>2, <3>1, <3>2, <3>3
  <2> QED
    BY <2>1
<1>12. /\ \A a, b \in 1 .. n : s[a] = s[b] => a = b
       /\ \A a \in 1 .. n : s[a] \in Emitted
  BY <1>1, <1>2, LinkedOnce
<1>13. \A j \in 1 .. n : nx[s[j]] = IF j = n THEN Null ELSE s[j + 1]
  BY <1>1 DEF Linked
<1>14. c0 = s[1] /\ 1 \in 1 .. n /\ 2 \in 1 .. n
  <2>1. n # 0 /\ 1 \in 1 .. n /\ 2 \in 1 .. n
    BY <1>2
  <2> QED
    BY <1>1, <2>1 DEF Linked
<1>15. ASSUME NEW j \in 1 .. n PROVE ny[q[j]] = IF j = n THEN Null ELSE q[j + 1]
  <2>1. CASE j = 1
    <3>1. 1 # n /\ 1 + 1 = 2 /\ 2 <= p /\ 2 - 1 = 1
      BY <1>2
    <3>2. q[2] = s[1] /\ q[1] = s[p]
      BY <1>7, <1>14, <3>1
    <3> QED
      BY <1>14, <2>1, <3>1, <3>2
  <2>2. CASE j = p
    <3>1. q[p] = s[p - 1] /\ ny[q[p]] = IF p = n THEN Null ELSE s[p + 1]
      BY <1>1, <1>2, <1>7, <1>13
    <3>2. p # n => p + 1 \in 1 .. n /\ p + 1 # 1 /\ ~ (p + 1 <= p)
      BY <1>2
    <3>3. p # n => q[p + 1] = s[p + 1]
      BY <1>7, <3>2
    <3> QED
      BY <2>2, <3>1, <3>3
  <2>3. CASE j # 1 /\ j < p
    <3>1. j - 1 \in 1 .. n /\ j - 1 # p /\ j - 1 # p - 1 /\ j - 1 # n /\ j # n /\ j - 1 + 1 = j
          /\ j + 1 \in 1 .. n /\ j + 1 # 1 /\ j + 1 <= p /\ j + 1 - 1 = j /\ j <= p
      BY <1>2, <2>3
    <3>2. q[j] = s[j - 1] /\ q[j + 1] = s[j]
      BY <1>7, <2>3, <3>1
    <3>3. s[j - 1] # s[p] /\ s[j - 1] # s[p - 1]
      BY <1>1, <1>2, <1>12, <3>1
    <3>4. ny[s[j - 1]] = s[j]
      BY <1>12, <1>13, <3>1, <3>3
    <3> QED
      BY <3>1, <3>2, <3>4
  <2>4. CASE j > p
    <3>1. j # 1 /\ ~ (j <= p) /\ j # p /\ j # p - 1
          /\ (j # n => j + 1 \in 1 .. n /\ j + 1 # 1 /\ ~ (j + 1 <= p))
      BY <1>2, <2>4
    <3>2. q[j] = s[j] /\ (j # n => q[j + 1] = s[j + 1])
      BY <1>7, <3>1
    <3>3. s[j] # s[p] /\ s[j] # s[p - 1]
      BY <1>1, <1>2, <1>12, <3>1
    <3> QED
      BY <1>12, <1>13, <3>2, <3>3
  <2> QED
    BY <1>2, <2>1, <2>2, <2>3, <2>4
<1>16. q[1] = s[p]
  BY <1>7, <1>14
<1>17. Linked(s[p], ny, q)
  <2>1. Len(q) # 0
    BY <1>2, <1>6
  <2> QED
    BY <1>6, <1>11, <1>15, <1>16, <2>1 DEF Linked
<1>18. \A j \in 1 .. n : \E e \in 1 .. n : q[j] = s[e]
  BY <1>8
<1> QED
  BY <1>1, <1>6, <1>10, <1>17, <1>18 DEF SameList

\* A set of naturals that is not empty has a least element.
LEMMA Least ==
  ASSUME NEW T \in SUBSET Nat, T # {}
  PROVE  \E x \in T : \A y \in T : x <= y
<1> DEFINE R == OpToRel(<, Nat)
<1>1. IsWellFoundedOn(R, Nat)
  BY NatLessThanWellFounded
<1>2. \A x, y \in Nat : <<y, x>> \in R <=> y < x
  BY DEF OpToRel
<1> HIDE DEF R
<1>3. PICK x \in T : \A y \in T : ~ (<<y, x>> \in R)
  BY <1>1, WFMin
<1>4. \A y \in T : ~ (y < x)
  BY <1>2, <1>3, Zenon
<1>5. \A y \in T : x <= y
  BY <1>4
<1> QED
  BY <1>5

\* Induction up to n over the members of a set.
LEMMA UpToAll ==
  ASSUME NEW n \in Nat, NEW S, 0 \in S, \A l \in 1 .. n : l - 1 \in S => l \in S
  PROVE  \A l \in 0 .. n : l \in S
<1> DEFINE T == {l \in 0 .. n : l \notin S}
<1> SUFFICES ASSUME T # {} PROVE FALSE
  OBVIOUS
<1>1. T \in SUBSET Nat
  OBVIOUS
<1>2. PICK x \in T : \A y \in T : x <= y
  BY <1>1, Least, Zenon
<1>3. x \in 1 .. n /\ x - 1 \in 0 .. n /\ ~ (x <= x - 1)
  BY DEF T
<1>4. x - 1 \in S
  BY <1>2, <1>3
<1> QED
  BY <1>3, <1>4

\* w[e] is what e rounds make of U; round e is G[e].
Rounds(w, n, C, U, G) ==
  /\ w \in [0 .. n -> C] /\ w[0] = U
  /\ \A e \in 1 .. n : w[e] = G[e][w[e - 1]]

\* A loop of n rounds that stays in C is a function.
LEMMA RoundsExist ==
  ASSUME NEW n \in Nat, NEW C, NEW U \in C, NEW G, \A e \in 1 .. n : \A x \in C : G[e][x] \in C
  PROVE  \E w : Rounds(w, n, C, U, G)
<1> DEFINE S == {l \in 0 .. n : \E w : Rounds(w, l, C, U, G)}
<1>1. 0 \in S
  <2>1. PICK w : w = [e \in 0 .. 0 |-> U]
    OBVIOUS
  <2>2. Rounds(w, 0, C, U, G)
    BY <2>1 DEF Rounds
  <2> QED
    BY <2>2
<1>2. ASSUME NEW l \in 1 .. n, l - 1 \in S PROVE l \in S
  <2>1. PICK w : Rounds(w, l - 1, C, U, G)
    BY <1>2
  <2>2. l \in Nat /\ l - 1 \in 0 .. l - 1 /\ \A e \in 0 .. l : e = l \/ e \in 0 .. l - 1
    OBVIOUS
  <2>3. w \in [0 .. l - 1 -> C] /\ w[0] = U /\ \A e \in 1 .. l - 1 : w[e] = G[e][w[e - 1]]
    BY <2>1 DEF Rounds
  <2>4. PICK v : v = [e \in 0 .. l |-> IF e = l THEN G[l][w[l - 1]] ELSE w[e]]
    OBVIOUS
  <2>5. G[l][w[l - 1]] \in C
    BY <2>2, <2>3
  <2>6. v \in [0 .. l -> C]
    BY <2>2, <2>3, <2>4, <2>5
  <2>7. v[l] = G[l][w[l - 1]] /\ \A e \in 0 .. l - 1 : v[e] = w[e]
    BY <2>4
  <2>8. ASSUME NEW e \in 1 .. l PROVE v[e] = G[e][v[e - 1]]
    <3>1. e - 1 \in 0 .. l - 1 /\ (e # l => e \in 1 .. l - 1 /\ e \in 0 .. l - 1)
      BY <2>2
    <3> QED
      BY <2>3, <2>7, <3>1
  <2>9. v[0] = U
    BY <2>3, <2>7
  <2>10. Rounds(v, l, C, U, G)
    BY <2>6, <2>8, <2>9 DEF Rounds
  <2> QED
    BY <2>10
<1> HIDE DEF S
<1>3. \A l \in 0 .. n : l \in S
  BY <1>1, <1>2, UpToAll
<1>4. n \in S
  BY <1>3
<1> QED
  BY <1>4 DEF S

\* The casts that a walk of at most n steps along nx meets.
Walked(c0, nx, n) ==
  LET walk[j \in 0 .. n] ==
        IF j = 0 THEN c0
        ELSE IF walk[j - 1] = Null THEN Null ELSE nx[walk[j - 1]]
  IN  {walk[j] : j \in 0 .. n} \ {Null}

\* A walk over a list meets all of it.
LEMMA WalkedIs ==
  ASSUME NEW c0, NEW nx, NEW s, Linked(c0, nx, s), NEW n \in Nat, Len(s) <= n
  PROVE  Walked(c0, nx, n) = {s[j] : j \in 1 .. Len(s)}
<1> DEFINE Eq(f) == f = [j \in 0 .. n |-> IF j = 0 THEN c0 ELSE IF f[j - 1] = Null THEN Null ELSE nx[f[j - 1]]]
           w == [j \in 0 .. n |-> IF j < Len(s) THEN s[j + 1] ELSE Null]
           f == CHOOSE f : Eq(f)
<1>1. s \in Seq(Emitted) /\ Len(s) \in Nat
  BY DEF Linked
<1>2. \A j \in 1 .. Len(s) : s[j] # Null
  <2>1. \A j \in 1 .. Len(s) : s[j] \in Cast
    BY <1>1 DEF Emitted
  <2> QED
    BY <2>1, TypeTableAssumption
<1>3. \A j \in 1 .. Len(s) : nx[s[j]] = IF j = Len(s) THEN Null ELSE s[j + 1]
  BY DEF Linked
<1>4. ASSUME NEW j \in 0 .. n
      PROVE  w[j] = IF j = 0 THEN c0 ELSE IF w[j - 1] = Null THEN Null ELSE nx[w[j - 1]]
  <2>1. CASE j = 0
    <3>1. CASE Len(s) = 0
      BY <2>1, <3>1 DEF Linked
    <3>2. CASE Len(s) # 0
      BY <1>1, <2>1, <3>2 DEF Linked
    <3> QED
      BY <3>1, <3>2
  <2>2. CASE j # 0
    <3>1. j - 1 \in 0 .. n /\ (j < Len(s) => j - 1 < Len(s) /\ j \in 1 .. Len(s) /\ j # Len(s)) /\ j - 1 + 1 = j
      BY <1>1, <2>2
    <3>2. CASE j < Len(s)
      BY <1>2, <1>3, <2>2, <3>1, <3>2
    <3>3. CASE ~ (j < Len(s))
      <4>1. CASE j = Len(s)
        <5>1. j \in 1 .. Len(s) /\ j - 1 < Len(s)
          BY <1>1, <2>2, <4>1
        <5> QED
          BY <1>2, <1>3, <2>2, <3>1, <3>3, <4>1, <5>1
      <4>2. CASE j # Len(s)
        <5>1. ~ (j - 1 < Len(s))
          BY <1>1, <2>2, <3>3, <4>2
        <5> QED
          BY <2>2, <3>1, <3>3, <5>1
      <4> QED
        BY <4>1, <4>2
    <3> QED
      BY <3>2, <3>3
  <2> QED
    BY <2>1, <2>2
<1>5. w = [j \in 0 .. n |-> w[j]]
  OBVIOUS
<1> HIDE DEF w
<1>6. [j \in 0 .. n |-> w[j]] = [j \in 0 .. n |-> IF j = 0 THEN c0 ELSE IF w[j - 1] = Null THEN Null ELSE nx[w[j - 1]]]
  BY <1>4
<1>7. Eq(w)
  BY <1>5, <1>6
<1> HIDE DEF Eq
<1>8. Eq(f)
  BY <1>7, Zenon
<1> USE DEF Eq
<1> HIDE DEF f
<1>9. \A j \in 0 .. n : f[j] = IF j = 0 THEN c0 ELSE IF f[j - 1] = Null THEN Null ELSE nx[f[j - 1]]
  BY <1>8
<1> DEFINE S == {j \in 0 .. n : f[j] = w[j]}
<1>10. 0 \in S
  BY <1>4, <1>9
<1>11. ASSUME NEW j \in 1 .. n, j - 1 \in S PROVE j \in S
  <2>1. j \in 0 .. n /\ j # 0
    OBVIOUS
  <2> QED
    BY <1>4, <1>9, <1>11, <2>1
<1> HIDE DEF S
<1>12. \A j \in 0 .. n : j \in S
  BY <1>10, <1>11, UpToAll
<1>13. \A j \in 0 .. n : f[j] = w[j]
  BY <1>12 DEF S
<1>14. Walked(c0, nx, n) = {f[j] : j \in 0 .. n} \ {Null}
  BY DEF Walked, f
<1>15. {f[j] : j \in 0 .. n} = {w[j] : j \in 0 .. n}
  BY <1>13
<1>16. ASSUME NEW j \in 0 .. n, w[j] # Null PROVE \E l \in 1 .. Len(s) : w[j] = s[l]
  <2>1. j < Len(s) /\ w[j] = s[j + 1]
    BY <1>16 DEF w
  <2>2. j + 1 \in 1 .. Len(s)
    BY <1>1, <2>1
  <2> QED
    BY <2>1, <2>2
<1>17. ASSUME NEW l \in 1 .. Len(s) PROVE \E j \in 0 .. n : w[j] = s[l] /\ w[j] # Null
  <2>1. l - 1 \in 0 .. n /\ l - 1 < Len(s) /\ l - 1 + 1 = l
    BY <1>1
  <2>2. w[l - 1] = s[l]
    BY <2>1 DEF w
  <2> QED
    BY <1>2, <2>1, <2>2
<1>18. \A z \in {w[j] : j \in 0 .. n} \ {Null} : z \in {s[j] : j \in 1 .. Len(s)}
  BY <1>16
<1>19. \A l \in 1 .. Len(s) : s[l] \in {w[j] : j \in 0 .. n} \ {Null}
  BY <1>17
<1>20. \A z \in {s[j] : j \in 1 .. Len(s)} : z \in {w[j] : j \in 0 .. n} \ {Null}
  BY <1>19
<1> QED
  BY <1>14, <1>15, <1>18, <1>20, Zenon
-----------------------------------------------------------------------------
(* Everything there is one of is finite.                                    *)

LEMMA FiniteTypes == IsFiniteSet(Type) /\ Cardinality(Type) \in Nat
<1>1. IsFiniteSet(Modules \X Names)
  BY TypeTableAssumption, CastTypesAssumption, FS_Product
<1> DEFINE f == [t \in Type |-> <<t.owner, t.name>>]
<1>2. f \in Injection(Type, Modules \X Names)
  <2>1. f \in [Type -> Modules \X Names]
    BY DEF Type
  <2>2. \A t, u \in Type : f[t] = f[u] => t = u
    BY DEF Type
  <2> HIDE DEF f
  <2> QED
    BY <2>1, <2>2, Zenon DEF Injection, IsInjective
<1>3. IsFiniteSet(Type)
  BY <1>1, <1>2, FS_Injection
<1> QED
  BY <1>3, FS_CardinalityType

LEMMA FiniteCasts == IsFiniteSet(Emitted) /\ Cardinality(Emitted) \in Nat
<1>1. IsFiniteSet(Modules \X Names)
  BY TypeTableAssumption, CastTypesAssumption, FS_Product
<1>2. IsFiniteSet((Modules \X Names) \X Names)
  BY <1>1, CastTypesAssumption, FS_Product
<1> DEFINE f == [c \in Cast |-> <<<<c.owner, c.to>>, c.from>>]
<1>3. f \in Injection(Cast, (Modules \X Names) \X Names)
  <2>1. f \in [Cast -> (Modules \X Names) \X Names]
    BY DEF Cast
  <2>2. \A c, d \in Cast : f[c] = f[d] => c = d
    BY DEF Cast
  <2> HIDE DEF f
  <2> QED
    BY <2>1, <2>2, Zenon DEF Injection, IsInjective
<1>4. IsFiniteSet(Cast)
  BY <1>2, <1>3, FS_Injection
<1>5. IsFiniteSet(Emitted)
  BY <1>4, FS_Subset DEF Emitted
<1> QED
  BY <1>5, FS_CardinalityType

\* A list is not longer than there are casts.
LEMMA LinkedLength ==
  ASSUME NEW c0, NEW nx, NEW s, Linked(c0, nx, s)
  PROVE  Len(s) \in Nat /\ Len(s) <= Cardinality(Emitted)
<1>1. PICK n : n = Len(s)
  OBVIOUS
<1>2. s \in Seq(Emitted) /\ n \in Nat /\ 1 \in Int /\ n \in Int
  BY <1>1 DEF Linked
<1>3. s \in [1 .. n -> Emitted]
  BY <1>1, <1>2
<1>4. \A a, b \in 1 .. n : s[a] = s[b] => a = b
  BY <1>1, LinkedOnce
<1>5. s \in Injection(1 .. n, Emitted)
  BY <1>3, <1>4, Zenon DEF Injection, IsInjective
<1>6. Cardinality(1 .. n) <= Cardinality(Emitted)
  BY <1>5, FiniteCasts, FS_Injection
<1>7. Cardinality(1 .. n) = IF 1 > n THEN 0 ELSE n - 1 + 1
  BY <1>2, FS_Interval, Zenon
<1> QED
  BY <1>1, <1>2, <1>6, <1>7, FiniteCasts
-----------------------------------------------------------------------------
(***************************************************************************)
(* What the list of a type holds: one cast for every type that a module    *)
(* with that type declares, and for those of the row being inserted that   *)
(* were looked at.                                                         *)
(***************************************************************************)
RowLoops == {"cast", "castquery", "loadcheck"}

InRow(y, n, z) == \E b \in 1 .. Len(CastInitial[y][n]) : CastInitial[y][n][b] = z

Declares(t, z) ==
  \/ \E y \in Modules : types[y][t.name] = t /\ InRow(y, t.name, z)
  \/ pc \in RowLoops /\ t = type /\ \E b \in 1 .. k - 1 : Row[b] = z

ListIs(t, s) ==
  /\ Linked(cast[t], castNext, s)
  /\ \A j \in 1 .. Len(s) : s[j].to = t.name
  /\ \A z : z \in Froms(s) <=> Declares(t, z)

Lists == \A t \in Type : \E s : ListIs(t, s)

\* Casts and types have the names they were generated with; the structure of a type
\* is that of a module which has it.
CastNamed == \A c \in Cast : castType[c].name = c.from

TypesNamed ==
  \A y \in Modules : \A n \in Names : types[y][n] # Null =>
    types[y][n].name = n /\ types[types[y][n].owner][n] = types[y][n]

\* The structure at hand is a new one or one that is loaded.
HandOK ==
  /\ pc \in RowLoops => /\ type.name = TypeName
                        /\ type = Own(m, TypeName) \/ \E y \in Modules : types[y][TypeName] = type
  /\ pc \in {"checkname", "checkstruct", "propcast"} => \E y \in Modules : types[y][type.name] = type
  /\ pc = "propcast" => type = types[m][TypeName] /\ clientdata[type] # Null

\* What a walk over the casts found of those it passed.
Passed(c) ==
  /\ pc = "loadcheck" => c.from # want
  /\ pc = "propcast" /\ ~ HasConverter(c) => clientdata[castType[c]] # Null

Walks == {"loadcheck", "checkname", "checkstruct", "propcast"}

At(s) ==
  \/ citer = Null /\ \A j \in 1 .. Len(s) : Passed(s[j])
  \/ \E p \in 1 .. Len(s) : citer = s[p] /\ \A j \in 1 .. p - 1 : Passed(s[j])

WalkOK ==
  /\ pc \in Walks => \E s : ListIs(type, s) /\ At(s)
  /\ pc = "loadcheck" => want = ThisCast.from

\* The modules that the query for a cast type has passed do not have it.
CastQueryAt(n, r) ==
  /\ n >= 2
  /\ \E p \in 3 .. n + 1 : /\ iter = r[IF p = n + 1 THEN 1 ELSE p]
                           /\ \A e \in 3 .. p - 1 : types[r[e]][ThisCast.from] = Null

CastQueryOK(x) ==
  pc = "castquery" =>
    \E n, r : /\ Ring(n, r, x) /\ (\A y \in Modules : next[y] # Null => On(n, r, y))
              /\ m = r[2] /\ CastQueryAt(n, r)

ListInv(x) == Lists /\ CastNamed /\ TypesNamed /\ HandOK /\ WalkOK /\ CastQueryOK(x)

\* The casts on a list, as the specification collects them.
LEMMA ListOfIs ==
  ASSUME NEW t, NEW s, ListIs(t, s)
  PROVE  ListOf(t) = {s[j] : j \in 1 .. Len(s)}
<1>1. Linked(cast[t], castNext, s)
  BY DEF ListIs
<1>2. Len(s) <= Cardinality(Emitted)
  BY <1>1, LinkedLength
<1>3. PICK c0, nx, n : c0 = cast[t] /\ nx = castNext /\ n = Cardinality(Emitted)
  OBVIOUS
<1>4. Walked(c0, nx, n) = {s[j] : j \in 1 .. Len(s)}
  BY <1>1, <1>2, <1>3, WalkedIs, FiniteCasts
<1>5. ListOf(t) = Walked(cast[t], castNext, Cardinality(Emitted))
  BY DEF ListOf, Walked
<1> QED
  BY <1>3, <1>4, <1>5
\* A type whose list is not empty is a loaded one or the one at hand.
LEMMA ListKnown ==
  ASSUME NEW t, NEW s, ListIs(t, s), NEW j \in 1 .. Len(s)
  PROVE  \/ \E y \in Modules : types[y][t.name] = t
         \/ pc \in RowLoops /\ t = type
<1>1. Declares(t, s[j].from)
  BY DEF ListIs, Froms
<1> QED
  BY <1>1 DEF Declares

\* Two types share no cast.
LEMMA ListsDisjoint ==
  ASSUME TypeOK, Agree, TypeRight, HandOK, NEW t \in Type, NEW u \in Type, NEW s, NEW q, ListIs(t, s), ListIs(u, q),
         NEW a \in 1 .. Len(s), NEW b \in 1 .. Len(q), s[a] = q[b]
  PROVE  t = u
<1>1. t.name = u.name /\ t.name \in Names /\ t # Null /\ u # Null
  BY TypeTableAssumption DEF ListIs, Type
<1>2. \/ \E y \in Modules : types[y][t.name] = t
      \/ pc \in RowLoops /\ t = type
  BY ListKnown
<1>3. \/ \E y \in Modules : types[y][u.name] = u
      \/ pc \in RowLoops /\ u = type
  BY ListKnown
<1>4. CASE \E y, z \in Modules : types[y][t.name] = t /\ types[z][u.name] = u
  BY <1>1, <1>4 DEF Agree
<1>5. CASE pc \in RowLoops /\ (t = type \/ u = type)
  <2>1. type.name = TypeName /\ \A y \in Modules : types[y][TypeName] # Null => types[y][TypeName] = type
    BY <1>5 DEF TypeRight, HandOK, RowLoops
  <2> QED
    BY <1>1, <1>2, <1>3, <1>5, <2>1
<1> QED
  BY <1>2, <1>3, <1>4, <1>5

\* The casts of a list are casts, and each but the first has a predecessor.
LEMMA ListCasts ==
  ASSUME TypeOK, WellLinked, NEW t, NEW s, ListIs(t, s)
  PROVE  /\ Len(s) \in Nat /\ \A j \in 1 .. Len(s) : s[j] \in Emitted /\ s[j] \in Cast /\ s[j] # Null
         /\ Len(s) = 0 => cast[t] = Null
         /\ Len(s) # 0 => cast[t] = s[1]
         /\ \A j \in 1 .. Len(s) : castNext[s[j]] = IF j = Len(s) THEN Null ELSE s[j + 1]
         /\ \A j \in 1 .. Len(s) : j # 1 => j - 1 \in 1 .. Len(s) /\ castPrev[s[j]] = s[j - 1]
<1>1. s \in Seq(Emitted) /\ Len(s) \in Nat
  BY DEF ListIs, Linked
<1>2. \A j \in 1 .. Len(s) : s[j] \in Emitted /\ s[j] \in Cast
  <2>1. \A c \in Emitted : c \in Cast
    BY DEF Emitted
  <2> QED
    BY <1>1, <2>1
<1>3. \A j \in 1 .. Len(s) : s[j] # Null
  BY <1>2, TypeTableAssumption
<1>4. \A j \in 1 .. Len(s) : castNext[s[j]] = IF j = Len(s) THEN Null ELSE s[j + 1]
  BY DEF ListIs, Linked
<1>5. ASSUME NEW j \in 1 .. Len(s), j # 1 PROVE j - 1 \in 1 .. Len(s) /\ castPrev[s[j]] = s[j - 1]
  <2>1. j - 1 \in 1 .. Len(s) /\ j - 1 # Len(s) /\ j - 1 + 1 = j
    BY <1>1, <1>5
  <2>2. castNext[s[j - 1]] = s[j]
    BY <1>4, <2>1
  <2> QED
    BY <1>2, <1>3, <2>1, <2>2 DEF WellLinked
<1>6. (Len(s) = 0 => cast[t] = Null) /\ (Len(s) # 0 => cast[t] = s[1])
  BY DEF ListIs, Linked
<1> QED
  BY <1>1, <1>2, <1>3, <1>4, <1>5, <1>6

\* A cast that is on no list is on no list.
LEMMA FreshOnNone ==
  ASSUME TypeOK, WellLinked, NEW t \in Type, NEW s, ListIs(t, s), NEW c, Unlinked(c), NEW j \in 1 .. Len(s)
  PROVE  s[j] # c
<1>1. CASE j = 1
  <2>1. Len(s) # 0
    BY <1>1, ListCasts
  <2> QED
    BY <1>1, <2>1, ListCasts DEF Unlinked
<1>2. CASE j # 1
  BY <1>2, ListCasts DEF Unlinked
<1> QED
  BY <1>1, <1>2

\* The step leaves on every list what is there.
Kept ==
  \A t \in Type : \A s : ListIs(t, s) =>
    \E q : /\ Linked(cast'[t], castNext', q) /\ Froms(q) = Froms(s)
           /\ \A j \in 1 .. Len(q) : \E e \in 1 .. Len(s) : q[j] = s[e]

LEMMA KeptSame == ASSUME cast' = cast, castNext' = castNext PROVE Kept
<1> SUFFICES ASSUME NEW t \in Type, NEW s, ListIs(t, s)
             PROVE  /\ Linked(cast'[t], castNext', s) /\ Froms(s) = Froms(s)
                    /\ \A j \in 1 .. Len(s) : \E e \in 1 .. Len(s) : s[j] = s[e]
  BY DEF Kept
<1> QED
  BY DEF ListIs

LEMMA ListsKept ==
  ASSUME Lists, Kept, \A t \in Type : \A z : Declares(t, z)' <=> Declares(t, z)
  PROVE  Lists'
<1> SUFFICES ASSUME NEW t \in Type PROVE \E q : ListIs(t, q)'
  BY DEF Lists
<1>1. PICK s : ListIs(t, s)
  BY DEF Lists
<1>2. PICK q : /\ Linked(cast'[t], castNext', q) /\ Froms(q) = Froms(s)
               /\ \A j \in 1 .. Len(q) : \E e \in 1 .. Len(s) : q[j] = s[e]
  BY <1>1 DEF Kept
<1>3. \A j \in 1 .. Len(q) : q[j].to = t.name
  BY <1>1, <1>2 DEF ListIs
<1>4. \A z : z \in Froms(q) <=> Declares(t, z)'
  BY <1>1, <1>2 DEF ListIs
<1>5. ListIs(t, q)'
  BY <1>2, <1>3, <1>4 DEF ListIs
<1> QED
  BY <1>5
\* What the head of a list and the next pointers become when c is inserted.
LEMMA LinkAtHeadIs ==
  ASSUME TypeOK, type \in Type, NEW c \in Cast, Unlinked(c), LinkAtHead(c)
  PROVE  /\ \A t \in Type : cast'[t] = IF t = type THEN c ELSE cast[t]
         /\ castNext'[c] = cast[type] /\ \A d \in Cast : d # c => castNext'[d] = castNext[d]
<1>1. \A t \in Type : cast'[t] = IF t = type THEN c ELSE cast[t]
  BY DEF LinkAtHead, TypeOK
<1>2. CASE cast[type] = Null
  BY <1>1, <1>2 DEF LinkAtHead, Unlinked
<1>3. CASE cast[type] # Null
  BY <1>1, <1>3 DEF LinkAtHead, TypeOK
<1> QED
  BY <1>2, <1>3

\* The cast of a row that the list does not have is inserted.
LEMMA InsertLists ==
  ASSUME TableInv, Lists, HandOK, pc \in RowLoops, k \in 1 .. Len(Row), ~ Declares(type, ThisCast.from),
         LinkAtHead(ThisCast), k' = k + 1, pc' = "cast", UNCHANGED <<types, type, m, i>>
  PROVE  Lists'
<1> DEFINE c == ThisCast
<1>0. TypeOK /\ WellLinked /\ type \in Type /\ Null \notin Type
  BY TypeTableAssumption DEF TableInv, ControlOK, RowLoops
<1>1. c \in Cast /\ c.owner = m /\ c.to = TypeName /\ c.from = Row[k] /\ Unlinked(c)
  BY ThisCastIsCast, ThisCastIsFresh DEF TableInv, RowLoops
<1>2. c \in Emitted
  <2>1. CastInitial[c.owner][c.to] = Row
    BY <1>1 DEF Row
  <2> QED
    BY <1>1, <2>1 DEF Emitted
<1>3. type.name = TypeName /\ Row' = Row
  BY DEF HandOK, Row, TypeName
<1>4. /\ \A t \in Type : cast'[t] = IF t = type THEN c ELSE cast[t]
      /\ castNext'[c] = cast[type] /\ \A d \in Cast : d # c => castNext'[d] = castNext[d]
  BY <1>0, <1>1, LinkAtHeadIs
<1> HIDE DEF c
<1>5. ASSUME NEW t \in Type, t # type PROVE \E q : ListIs(t, q)'
  <2>1. PICK s : ListIs(t, s)
    BY DEF Lists
  <2>2. \A j \in 1 .. Len(s) : castNext'[s[j]] = castNext[s[j]]
    BY <1>0, <1>1, <1>4, <2>1, FreshOnNone, ListCasts
  <2>3. Linked(cast'[t], castNext', s)
    <3>1. PICK c0, nx, ny : c0 = cast[t] /\ nx = castNext /\ ny = castNext'
      OBVIOUS
    <3>2. Linked(c0, nx, s) /\ \A j \in 1 .. Len(s) : ny[s[j]] = nx[s[j]]
      BY <2>1, <2>2, <3>1 DEF ListIs
    <3>3. Linked(c0, ny, s)
      BY <3>2, LinkedSame
    <3> QED
      BY <1>4, <1>5, <3>1, <3>3
  <2>4. \A z : Declares(t, z)' <=> Declares(t, z)
    BY <1>5 DEF Declares
  <2>5. ListIs(t, s)'
    BY <2>1, <2>3, <2>4 DEF ListIs
  <2> QED
    BY <2>5
<1>6. \E q : ListIs(type, q)'
  <2>1. PICK s : ListIs(type, s)
    BY <1>0 DEF Lists
  <2>2. c.from \notin Froms(s)
    BY <2>1 DEF ListIs, c
  <2>3. \A j \in 1 .. Len(s) : s[j] # c
    BY <2>2 DEF Froms
  <2>4. \A j \in 1 .. Len(s) : castNext'[s[j]] = castNext[s[j]]
    BY <1>0, <1>4, <2>1, <2>3, ListCasts
  <2>5. PICK q, c0, nx, ny : q = Push(c, s) /\ c0 = cast[type] /\ nx = castNext /\ ny = castNext'
    OBVIOUS
  <2>6. Linked(c0, nx, s) /\ ny[c] = c0 /\ \A j \in 1 .. Len(s) : ny[s[j]] = nx[s[j]]
    BY <1>4, <2>1, <2>4, <2>5 DEF ListIs
  <2>7. /\ Linked(c, ny, q) /\ Froms(q) = Froms(s) \cup {c.from}
        /\ Len(q) = Len(s) + 1
        /\ \A j \in 1 .. Len(s) + 1 : q[j] = IF j = 1 THEN c ELSE s[j - 1]
    BY <1>2, <2>2, <2>5, <2>6, LinkedPush
  <2>8. Linked(cast'[type], castNext', q)
    BY <1>0, <1>4, <2>5, <2>7
  <2>9. \A j \in 1 .. Len(q) : q[j].to = type.name
    <3>1. \A j \in 1 .. Len(s) + 1 : j # 1 => j - 1 \in 1 .. Len(s)
      BY <1>0, <2>1, ListCasts
    <3> QED
      BY <1>1, <1>3, <2>1, <2>7, <3>1 DEF ListIs
  <2>10. \A z : Declares(type, z)' <=> Declares(type, z) \/ z = c.from
    <3>1. k \in Nat /\ \A b : b \in 1 .. (k + 1) - 1 <=> b \in 1 .. k - 1 \/ b = k
      BY <1>0
    <3>2. \A z : (\E b \in 1 .. k' - 1 : Row'[b] = z) <=> (\E b \in 1 .. k - 1 : Row[b] = z) \/ z = Row[k]
      BY <1>3, <3>1
    <3> QED
      BY <1>1, <3>2 DEF Declares, RowLoops
  <2>11. \A z : z \in Froms(q) <=> Declares(type, z)'
    BY <2>1, <2>7, <2>10 DEF ListIs
  <2>12. ListIs(type, q)'
    BY <2>8, <2>9, <2>11 DEF ListIs
  <2> QED
    BY <2>12
<1> QED
  BY <1>5, <1>6 DEF Lists
\* The cast that a walk found is moved to the front.
LEMMA FrontKept ==
  ASSUME TableInv, Agree, TypeRight, HandOK, type \in Type, NEW w, ListIs(type, w), NEW p \in 1 .. Len(w), citer = w[p],
         MoveToFront(citer)
  PROVE  Kept
<1>0. TypeOK /\ WellLinked /\ castNext \in [Cast -> Cast \cup {Null}] /\ cast \in [Type -> Cast \cup {Null}]
  BY DEF TableInv, TypeOK
<1>1. CASE citer = cast[type]
  BY <1>1, KeptSame DEF MoveToFront
<1>2. CASE citer # cast[type]
  <2>1. /\ castNext' = [castNext EXCEPT ![castPrev[citer]] = castNext[citer], ![citer] = cast[type]]
        /\ cast' = [cast EXCEPT ![type] = citer]
    BY <1>2 DEF MoveToFront
  <2>2. p # 1
    BY <1>0, <1>2, ListCasts
  <2>3. /\ citer \in Cast /\ citer \in Emitted /\ w[p - 1] \in Cast /\ p - 1 \in 1 .. Len(w)
        /\ castPrev[citer] = w[p - 1]
    BY <1>0, <2>2, ListCasts
  <2>4. w[p - 1] # citer
    <3>1. p - 1 # p
      BY <1>0, ListCasts
    <3> QED
      BY <2>3, <3>1, LinkedOnce DEF ListIs
  <2>5. /\ castNext'[citer] = cast[type] /\ castNext'[w[p - 1]] = castNext[citer]
        /\ \A d \in Cast : d # citer /\ d # w[p - 1] => castNext'[d] = castNext[d]
    BY <1>0, <2>1, <2>3, <2>4
  <2>6. \A t \in Type : cast'[t] = IF t = type THEN citer ELSE cast[t]
    BY <1>0, <2>1
  <2>7. ASSUME NEW t \in Type, NEW s, ListIs(t, s), t # type
        PROVE  \E q : /\ Linked(cast'[t], castNext', q) /\ Froms(q) = Froms(s)
                      /\ \A j \in 1 .. Len(q) : \E e \in 1 .. Len(s) : q[j] = s[e]
    <3>1. \A j \in 1 .. Len(s) : s[j] # citer /\ s[j] # w[p - 1]
      BY <1>0, <2>3, <2>7, ListsDisjoint
    <3>2. \A j \in 1 .. Len(s) : castNext'[s[j]] = castNext[s[j]]
      BY <1>0, <2>5, <2>7, <3>1, ListCasts
    <3>3. PICK c0, nx, ny : c0 = cast[t] /\ nx = castNext /\ ny = castNext'
      OBVIOUS
    <3>4. Linked(c0, nx, s) /\ \A j \in 1 .. Len(s) : ny[s[j]] = nx[s[j]]
      BY <2>7, <3>2, <3>3 DEF ListIs
    <3>5. Linked(c0, ny, s)
      BY <3>4, LinkedSame
    <3>6. Linked(cast'[t], castNext', s)
      BY <2>6, <2>7, <3>3, <3>5
    <3> QED
      BY <3>6
  <2>8. ASSUME NEW s, ListIs(type, s)
        PROVE  \E q : /\ Linked(cast'[type], castNext', q) /\ Froms(q) = Froms(s)
                      /\ \A j \in 1 .. Len(q) : \E e \in 1 .. Len(s) : q[j] = s[e]
    <3>1. PICK c0, nx, ny, q : c0 = cast[type] /\ nx = castNext /\ ny = castNext' /\ q = Front(w, p)
      OBVIOUS
    <3>2. \A d \in Emitted : d \in Cast
      BY DEF Emitted
    <3>3. /\ Linked(c0, nx, w) /\ ny[w[p]] = c0 /\ ny[w[p - 1]] = nx[w[p]]
          /\ \A d \in Emitted : d # w[p] /\ d # w[p - 1] => ny[d] = nx[d]
      BY <2>5, <3>1, <3>2 DEF ListIs
    <3>4. /\ Linked(w[p], ny, q) /\ Froms(q) = Froms(w) /\ Len(q) = Len(w)
          /\ \A j \in 1 .. Len(w) : \E e \in 1 .. Len(w) : q[j] = w[e]
      <4>1. SameList(Front(w, p), w[p], ny, w)
        BY <2>2, <3>3, LinkedFront
      <4> QED
        BY <3>1, <4>1 DEF SameList
    <3>5. Linked(cast'[type], castNext', q)
      BY <2>6, <3>1, <3>4
    <3>6. Froms(s) = Froms(w)
      BY <2>8 DEF ListIs
    <3>7. {s[j] : j \in 1 .. Len(s)} = {w[j] : j \in 1 .. Len(w)}
      <4>1. PICK t0 : t0 = type
        OBVIOUS
      <4>2. ListOf(t0) = {s[j] : j \in 1 .. Len(s)}
        BY <2>8, <4>1, ListOfIs
      <4>3. ListOf(t0) = {w[j] : j \in 1 .. Len(w)}
        BY <4>1, ListOfIs
      <4> QED
        BY <4>2, <4>3, Zenon
    <3>8. \A e \in 1 .. Len(w) : \E f \in 1 .. Len(s) : w[e] = s[f]
      BY <3>7
    <3>9. ASSUME NEW j \in 1 .. Len(q) PROVE \E e \in 1 .. Len(s) : q[j] = s[e]
      <4>1. j \in 1 .. Len(w)
        BY <3>4
      <4>2. PICK e \in 1 .. Len(w) : q[j] = w[e]
        BY <3>4, <4>1
      <4>3. PICK f \in 1 .. Len(s) : w[e] = s[f]
        BY <3>8
      <4> QED
        BY <4>2, <4>3
    <3> QED
      BY <3>4, <3>5, <3>6, <3>9
  <2> QED
    BY <2>7, <2>8 DEF Kept
<1> QED
  BY <1>1, <1>2

\* A walk goes on to the next cast.
LEMMA WalkGoesOn ==
  ASSUME TypeOK, WellLinked, NEW s, ListIs(type, s), At(s), NEW c, c = citer, c # Null, Passed(c)',
         citer' = castNext[c], \A d \in Cast : Passed(d) => Passed(d)'
  PROVE  At(s)'
<1>1. PICK p \in 1 .. Len(s) : citer = s[p] /\ \A j \in 1 .. p - 1 : Passed(s[j])
  BY DEF At
<1>2. Len(s) \in Nat /\ \A j \in 1 .. Len(s) : castNext[s[j]] = IF j = Len(s) THEN Null ELSE s[j + 1]
  BY ListCasts
<1>3. \A j \in 1 .. p : j = p \/ j \in 1 .. p - 1
  BY <1>2
<1>4. \A j \in 1 .. p : j \in 1 .. Len(s) /\ s[j] \in Cast
  <2>1. \A j \in 1 .. p : j \in 1 .. Len(s)
    BY <1>2
  <2> QED
    BY <2>1, ListCasts
<1>5. \A j \in 1 .. p : Passed(s[j])'
  BY <1>1, <1>3, <1>4
<1>6. CASE p = Len(s)
  BY <1>1, <1>2, <1>5, <1>6 DEF At
<1>7. CASE p # Len(s)
  <2>1. p + 1 \in 1 .. Len(s) /\ (p + 1) - 1 = p
    BY <1>2, <1>7
  <2>2. citer' = s[p + 1]
    BY <1>1, <1>2, <1>7
  <2> QED
    BY <1>5, <2>1, <2>2 DEF At
<1> QED
  BY <1>6, <1>7

\* A walk starts at the first cast.
LEMMA WalkStarts ==
  ASSUME TypeOK, WellLinked, NEW t, NEW s, ListIs(t, s), citer' = cast[t]
  PROVE  At(s)'
<1>1. CASE Len(s) = 0
  <2>1. \A j \in 1 .. Len(s) : FALSE
    BY <1>1
  <2> QED
    BY <1>1, <2>1, ListCasts DEF At
<1>2. CASE Len(s) # 0
  <2>1. 1 \in 1 .. Len(s) /\ \A j \in 1 .. 1 - 1 : FALSE
    BY <1>2, ListCasts
  <2> QED
    BY <1>2, <2>1, ListCasts DEF At
<1> QED
  BY <1>1, <1>2
-----------------------------------------------------------------------------
(* The recursion of SWIG_TypeClientData.                                    *)

\* Rounds that only add to a set of at most n members have ended after n of them.
LEMMA RoundsEnd ==
  ASSUME NEW S, IsFiniteSet(S), NEW n \in Nat, n = Cardinality(S), NEW t \in S, NEW G,
         \A T \in SUBSET S : T \subseteq G[T] /\ G[T] \subseteq S,
         NEW w, w[0] = {t}, \A e \in 1 .. n : w[e] = G[w[e - 1]]
  PROVE  t \in w[n] /\ w[n] \subseteq S /\ G[w[n]] = w[n]
<1> DEFINE Big(e) == /\ t \in w[e] /\ w[e] \subseteq S
                     /\ Cardinality(w[e]) >= e + 1 \/ G[w[e]] = w[e]
           B == {e \in 0 .. n : Big(e)}
<1>1. 0 \in B
  <2>1. Cardinality(w[0]) = 1
    BY FS_Singleton
  <2>2. 0 \in 0 .. n /\ 1 >= 0 + 1
    OBVIOUS
  <2>3. Big(0)
    BY <2>1, <2>2
  <2> QED
    BY <2>2, <2>3
<1>2. ASSUME NEW e \in 1 .. n, e - 1 \in B PROVE e \in B
  <2>1. PICK T, U : T = w[e - 1] /\ U = w[e]
    OBVIOUS
  <2>2. T \in SUBSET S /\ U = G[T] /\ t \in T
    BY <1>2, <2>1
  <2>3. T \in SUBSET U /\ U \in SUBSET S /\ t \in U
    BY <2>2
  <2>4. CASE G[T] = T
    BY <2>1, <2>2, <2>3, <2>4
  <2>5. CASE G[T] # T
    <3>1. Cardinality(T) >= e
      <4>1. (e - 1) + 1 = e
        OBVIOUS
      <4> QED
        BY <1>2, <2>1, <2>5, <4>1
    <3>2. IsFiniteSet(U) /\ IsFiniteSet(T) /\ Cardinality(T) <= Cardinality(U) /\ Cardinality(T) # Cardinality(U)
      BY <2>2, <2>3, <2>5, FS_Subset
    <3>3. Cardinality(T) \in Nat /\ Cardinality(U) \in Nat
      BY <3>2, FS_CardinalityType
    <3>4. Cardinality(U) >= e + 1
      BY <3>1, <3>2, <3>3
    <3> QED
      BY <2>1, <2>3, <3>4
  <2> QED
    BY <2>4, <2>5
<1> HIDE DEF B
<1>3. \A e \in 0 .. n : e \in B
  BY <1>1, <1>2, UpToAll
<1>4. Big(n)
  BY <1>3 DEF B
<1>5. Cardinality(w[n]) \in Nat /\ Cardinality(w[n]) <= n
  <2>1. IsFiniteSet(w[n]) /\ Cardinality(w[n]) <= Cardinality(S)
    BY <1>4, FS_Subset
  <2> QED
    BY <2>1, FS_CardinalityType
<1>6. ~ (Cardinality(w[n]) >= n + 1)
  BY <1>5
<1> QED
  BY <1>4, <1>6

\* One round.
Round(S) == S \cup {x \in {castType[c] : c \in {d \in UNION {ListOf(u) : u \in S} : ~ HasConverter(d)}} :
                      clientdata[x] = Null}

\* The types reached are closed under the casts the recursion follows.
LEMMA EquivalentsClosed ==
  ASSUME TypeOK, \A u \in Type : ListOf(u) \subseteq Cast, NEW t \in Type
  PROVE  /\ t \in Equivalents(t) /\ Equivalents(t) \subseteq Type
         /\ \A u \in Equivalents(t) : \A c \in ListOf(u) :
              ~ HasConverter(c) /\ clientdata[castType[c]] = Null => castType[c] \in Equivalents(t)
<1>1. PICK n : n = Cardinality(Type) /\ n \in Nat
  BY FiniteTypes
<1>2. PICK G : G = [S \in SUBSET Type |-> Round(S)]
  OBVIOUS
<1>3. \A S \in SUBSET Type : S \subseteq Round(S) /\ Round(S) \subseteq Type
  <2>1. \A S \in SUBSET Type : \A c \in UNION {ListOf(u) : u \in S} : castType[c] \in Type
    BY DEF TypeOK
  <2> QED
    BY <2>1 DEF Round
<1>4. \A S \in SUBSET Type : G[S] = Round(S)
  BY <1>2
<1> DEFINE Eq(f) == f = [e \in 0 .. n |-> IF e = 0 THEN {t} ELSE LET S == f[e - 1] IN Round(S)]
           g == CHOOSE f : Eq(f)
<1>5. \E f : Eq(f)
  <2>1. PICK H : H = [e \in 1 .. n |-> G]
    OBVIOUS
  <2>2. \A e \in 1 .. n : \A S \in SUBSET Type : H[e][S] = Round(S) /\ H[e][S] \in SUBSET Type
    BY <1>3, <1>4, <2>1
  <2>3. PICK w : Rounds(w, n, SUBSET Type, {t}, H)
    <3>1. \A e \in 1 .. n : \A S \in SUBSET Type : H[e][S] \in SUBSET Type
      BY <2>2
    <3>2. {t} \in SUBSET Type
      OBVIOUS
    <3>3. PICK C, U : C = SUBSET Type /\ U = {t}
      OBVIOUS
    <3> QED
      BY <1>1, <3>1, <3>2, <3>3, RoundsExist
  <2>4. w \in [0 .. n -> SUBSET Type] /\ w[0] = {t} /\ \A e \in 1 .. n : w[e] = H[e][w[e - 1]]
    BY <2>3 DEF Rounds
  <2>5. ASSUME NEW e \in 0 .. n PROVE w[e] = IF e = 0 THEN {t} ELSE LET S == w[e - 1] IN Round(S)
    <3>1. e # 0 => e \in 1 .. n /\ e - 1 \in 0 .. n
      BY <1>1
    <3> QED
      BY <2>2, <2>4, <3>1
  <2>6. w = [e \in 0 .. n |-> w[e]]
    BY <2>4
  <2>7. [e \in 0 .. n |-> w[e]] = [e \in 0 .. n |-> IF e = 0 THEN {t} ELSE LET S == w[e - 1] IN Round(S)]
    BY <2>5, Zenon
  <2>8. Eq(w)
    BY <2>6, <2>7, Zenon
  <2> QED
    BY <2>8, Zenon
<1> HIDE DEF Eq
<1>6. Eq(g)
  BY <1>5, Zenon
<1>7. Equivalents(t) = g[n]
  BY <1>1, Zenon DEF Equivalents, Round, g, Eq
<1> USE DEF Eq
<1> HIDE DEF g
<1>8. \A e \in 0 .. n : g[e] = IF e = 0 THEN {t} ELSE Round(g[e - 1])
  BY <1>6
<1>9. g[0] = {t} /\ \A e \in 1 .. n : g[e] = Round(g[e - 1])
  BY <1>1, <1>8
<1>10. \A e \in 0 .. n : g[e] \in SUBSET Type
  <2> DEFINE B == {e \in 0 .. n : g[e] \in SUBSET Type}
  <2>1. 0 \in B
    BY <1>1, <1>9
  <2>2. ASSUME NEW e \in 1 .. n, e - 1 \in B PROVE e \in B
    BY <1>1, <1>3, <1>9, <2>2
  <2> HIDE DEF B
  <2>3. \A e \in 0 .. n : e \in B
    BY <1>1, <2>1, <2>2, UpToAll
  <2> QED
    BY <2>3 DEF B
<1>11. \A e \in 1 .. n : g[e] = G[g[e - 1]]
  BY <1>1, <1>4, <1>9, <1>10
<1>12. PICK S, w : S = Type /\ w = g
  OBVIOUS
<1>13. \A T \in SUBSET S : T \subseteq G[T] /\ G[T] \subseteq S
  BY <1>3, <1>4, <1>12
<1>14. t \in w[n] /\ w[n] \subseteq S /\ G[w[n]] = w[n]
  <2>1. IsFiniteSet(S) /\ n = Cardinality(S) /\ t \in S /\ w[0] = {t} /\ \A e \in 1 .. n : w[e] = G[w[e - 1]]
    BY <1>1, <1>9, <1>11, <1>12, FiniteTypes
  <2> QED
    BY <1>1, <1>13, <2>1, RoundsEnd
<1>15. PICK R : R = Equivalents(t) /\ t \in R /\ R \subseteq Type /\ Round(R) = R
  BY <1>4, <1>7, <1>12, <1>14
<1>16. ASSUME NEW u \in R, NEW c \in ListOf(u), ~ HasConverter(c), clientdata[castType[c]] = Null
       PROVE  castType[c] \in Round(R)
  BY <1>16 DEF Round
<1> QED
  BY <1>15, <1>16
-----------------------------------------------------------------------------
(* A cast is inserted only when the list does not have one for its type.    *)

\* No cast of the row before this one is for the same type.
LEMMA RowOnce ==
  ASSUME TableInv, pc \in RowLoops, k \in 1 .. Len(Row)
  PROVE  /\ ThisCast.from = Row[k] /\ m \in Modules /\ TypeName \in Names
         /\ \A b \in 1 .. k - 1 : Row[b] # ThisCast.from
<1>1. ThisCast.from = Row[k] /\ m \in Modules /\ TypeName \in Names
  BY ThisCastIsCast DEF TableInv, RowLoops, ControlOK
<1>2. Len(Row) \in Nat
  BY <1>1, TypeTableAssumption DEF Row
<1>3. ASSUME NEW b \in 1 .. k - 1 PROVE b \in 1 .. Len(Row) /\ b # k
  BY <1>2
<1>4. \A a, b \in 1 .. Len(Row) : Row[a] = Row[b] => a = b
  BY <1>1, TypeTableAssumption DEF Row
<1> QED
  BY <1>1, <1>3, <1>4

\* A new structure has the casts of this row only.
LEMMA NewStructure ==
  ASSUME TableInv, NotFilled, TypesNamed, pc \in RowLoops, k \in 1 .. Len(Row), type = Own(m, TypeName)
  PROVE  ~ Declares(type, ThisCast.from)
<1>1. m \in Modules /\ TypeName \in Names /\ types[m][TypeName] = Null
  BY AtHand DEF RowLoops
<1>2. type.name = TypeName /\ type.owner = m /\ type \in Type /\ type # Null
  BY <1>1, TypeTableAssumption DEF Own, Type
<1>3. ASSUME NEW y \in Modules, types[y][TypeName] = type PROVE FALSE
  BY <1>1, <1>2, <1>3 DEF TypesNamed
<1> QED
  BY <1>2, <1>3, RowOnce DEF Declares

\* A module that declares a cast has the type to cast from.
LEMMA NotLoaded ==
  ASSUME TableInv, NotFilled, HandOK, pc \in RowLoops, k \in 1 .. Len(Row),
         \A y \in Modules : y # m => types[y][ThisCast.from] = Null
  PROVE  ~ Declares(type, ThisCast.from)
<1>1. m \in Modules /\ TypeName \in Names /\ types[m][TypeName] = Null
  BY AtHand DEF RowLoops
<1>2. type.name = TypeName /\ type # Null
  BY TypeTableAssumption DEF HandOK, RowLoops, TableInv, ControlOK
<1>3. ASSUME NEW y \in Modules, types[y][TypeName] = type, InRow(y, TypeName, ThisCast.from) PROVE FALSE
  <2>1. y # m /\ next[y] # Null
    BY <1>1, <1>2, <1>3 DEF NotFilled
  <2>2. PICK b \in 1 .. Len(TypeInitial[y]) : TypeInitial[y][b] = ThisCast.from
    BY <1>1, <1>3, CastTypesAssumption DEF InRow
  <2>3. types[y][TypeInitial[y][b]] # Null
    BY <2>1 DEF TableInv, TypesFilled
  <2> QED
    BY <2>1, <2>2, <2>3
<1> QED
  BY <1>2, <1>3, RowOnce DEF Declares

\* A module that is its own successor is the only one.
LEMMA Alone ==
  ASSUME NEW x \in Interps, TableInv, RingOK(x), pc \in Loading, next[m] = m
  PROVE  \A y \in Modules : y # m => next[y] = Null
<1>1. PICK n, r : /\ Placed(n, r, x) /\ Ring(n, r, x)
                  /\ m = IF n = 1 THEN r[1] ELSE r[2]
                  /\ \A y \in Modules : next[y] # Null => On(n, r, y)
  BY LoadedRing
<1>2. n \in Nat \ {0} /\ 1 \in 1 .. n
  BY <1>1 DEF Ring
<1>3. n = 1
  <2>1. SUFFICES ASSUME n # 1 PROVE FALSE
    OBVIOUS
  <2>2. m = r[2] /\ 2 \in 1 .. n
    BY <1>1, <1>2, <2>1
  <2>3. CASE n = 2
    BY <1>1, <1>2, <2>2, <2>3 DEF Ring
  <2>4. CASE n # 2
    <3>1. 2 \in 1 .. n - 1 /\ 3 \in 1 .. n
      BY <1>2, <2>1, <2>4
    <3>2. next[r[2]] = r[2 + 1]
      BY <1>1, <3>1 DEF Ring
    <3> QED
      BY <1>1, <2>2, <3>1, <3>2 DEF Ring
  <2> QED
    BY <2>3, <2>4
<1> QED
  BY <1>1, <1>3 DEF On

\* The query for a cast type starts behind m.
LEMMA CastQueryStarts ==
  ASSUME NEW x \in Interps, TableInv, RingOK(x), pc = "cast", next[m] # m, pc' = "castquery", iter' = next[m],
         UNCHANGED <<next, head, m>>
  PROVE  CastQueryOK(x)'
<1>1. PICK n, r : /\ Placed(n, r, x) /\ Ring(n, r, x)
                  /\ m = IF n = 1 THEN r[1] ELSE r[2]
                  /\ \A y \in Modules : next[y] # Null => On(n, r, y)
  BY LoadedRing DEF Loading
<1>2. n \in Nat \ {0} /\ 1 \in 1 .. n
  BY <1>1 DEF Ring
<1>3. n # 1
  BY <1>1 DEF Ring
<1>4. m = r[2] /\ n >= 2 /\ 3 \in 3 .. n + 1 /\ 2 \in 1 .. n
  BY <1>1, <1>2, <1>3
<1>5. iter' = r[IF 3 = n + 1 THEN 1 ELSE 3]
  <2>1. CASE n = 2
    BY <1>1, <1>4, <2>1 DEF Ring
  <2>2. CASE n # 2
    <3>1. 2 \in 1 .. n - 1 /\ 2 + 1 = 3 /\ 3 # n + 1
      BY <1>2, <1>4, <2>2
    <3> QED
      BY <1>1, <1>4, <3>1 DEF Ring
  <2> QED
    BY <2>1, <2>2
<1>6. CastQueryAt(n, r)'
  <2>1. \A e \in 3 .. 3 - 1 : types'[r[e]][ThisCast'.from] = Null
    OBVIOUS
  <2> QED
    BY <1>4, <1>5, <2>1 DEF CastQueryAt
<1>7. Ring(n, r, x)' /\ (\A y \in Modules : next'[y] # Null => On(n, r, y)) /\ m' = r[2]
  BY <1>1, <1>4 DEF Ring
<1> QED
  BY <1>6, <1>7 DEF CastQueryOK, On

\* It goes on to the next module, or has passed all others.
LEMMA CastQueryOn ==
  ASSUME NEW x \in Interps, CastQueryOK(x), pc = "castquery", types[iter][ThisCast.from] = Null,
         next[iter] # m, iter' = next[iter], UNCHANGED <<next, head, types, m, i, k>>
  PROVE  CastQueryOK(x)'
<1>0. ThisCast' = ThisCast
  BY DEF ThisCast, TypeName, Row
<1>1. PICK n, r : /\ Ring(n, r, x) /\ (\A y \in Modules : next[y] # Null => On(n, r, y))
                  /\ m = r[2] /\ CastQueryAt(n, r)
  BY DEF CastQueryOK
<1>2. n \in Nat \ {0} /\ n >= 2 /\ 1 \in 1 .. n /\ 2 \in 1 .. n
  BY <1>1 DEF CastQueryAt, Ring
<1>3. PICK p \in 3 .. n + 1 : /\ iter = r[IF p = n + 1 THEN 1 ELSE p]
                              /\ \A e \in 3 .. p - 1 : types[r[e]][ThisCast.from] = Null
  BY <1>1 DEF CastQueryAt
<1>4. p # n + 1
  <2>1. SUFFICES ASSUME p = n + 1 PROVE FALSE
    OBVIOUS
  <2>2. 1 \in 1 .. n - 1 /\ 1 + 1 = 2
    BY <1>2
  <2>3. next[r[1]] = r[2]
    BY <1>1, <2>2 DEF Ring
  <2> QED
    BY <1>1, <1>3, <2>1, <2>3
<1>5. p \in 3 .. n /\ p + 1 \in 3 .. n + 1 /\ iter = r[p]
  BY <1>2, <1>3, <1>4
<1>6. next[r[p]] = r[IF p + 1 = n + 1 THEN 1 ELSE p + 1]
  <2>1. CASE p = n
    BY <1>1, <2>1 DEF Ring
  <2>2. CASE p # n
    <3>1. p \in 1 .. n - 1 /\ p + 1 # n + 1
      BY <1>2, <1>5, <2>2
    <3> QED
      BY <1>1, <3>1 DEF Ring
  <2> QED
    BY <2>1, <2>2
<1>7. ASSUME NEW e \in 3 .. (p + 1) - 1 PROVE types[r[e]][ThisCast.from] = Null
  <2>1. e = p \/ e \in 3 .. p - 1
    BY <1>2, <1>5
  <2> QED
    BY <1>3, <1>5, <2>1
<1>8. CastQueryAt(n, r)'
  BY <1>0, <1>2, <1>5, <1>6, <1>7 DEF CastQueryAt
<1>9. Ring(n, r, x)' /\ (\A y \in Modules : next'[y] # Null => On(n, r, y)) /\ m' = r[2]
  BY <1>1 DEF Ring
<1> QED
  BY <1>8, <1>9 DEF CastQueryOK, On

LEMMA CastQueryEnds ==
  ASSUME NEW x \in Interps, CastQueryOK(x), NotFilled, pc = "castquery", types[iter][ThisCast.from] = Null,
         ThisCast.from \in Names, next[iter] = m
  PROVE  \A y \in Modules : y # m => types[y][ThisCast.from] = Null
<1>1. PICK n, r : /\ Ring(n, r, x) /\ (\A y \in Modules : next[y] # Null => On(n, r, y))
                  /\ m = r[2] /\ CastQueryAt(n, r)
  BY DEF CastQueryOK
<1>2. n \in Nat \ {0} /\ n >= 2 /\ 1 \in 1 .. n /\ 2 \in 1 .. n
  BY <1>1 DEF CastQueryAt, Ring
<1>3. PICK p \in 3 .. n + 1 : /\ iter = r[IF p = n + 1 THEN 1 ELSE p]
                              /\ \A e \in 3 .. p - 1 : types[r[e]][ThisCast.from] = Null
  BY <1>1 DEF CastQueryAt
<1>4. p = n + 1
  <2>1. SUFFICES ASSUME p # n + 1 PROVE FALSE
    OBVIOUS
  <2>2. p \in 3 .. n /\ iter = r[p] /\ p \in 1 .. n
    BY <1>2, <1>3, <2>1
  <2>3. CASE p = n
    BY <1>1, <1>2, <2>2, <2>3 DEF Ring
  <2>4. CASE p # n
    <3>1. p \in 1 .. n - 1 /\ p + 1 \in 1 .. n /\ p + 1 # 2
      BY <1>2, <2>2, <2>4
    <3>2. next[r[p]] = r[p + 1]
      BY <1>1, <3>1 DEF Ring
    <3> QED
      BY <1>1, <1>2, <2>2, <3>1, <3>2 DEF Ring
  <2> QED
    BY <2>3, <2>4
<1>5. ASSUME NEW e \in 1 .. n, r[e] # m PROVE types[r[e]][ThisCast.from] = Null
  <2>1. e = 1 \/ e = 2 \/ e \in 3 .. p - 1
    BY <1>2, <1>4
  <2> QED
    BY <1>1, <1>3, <1>4, <1>5, <2>1
<1> QED
  BY <1>1, <1>5 DEF NotFilled, On
-----------------------------------------------------------------------------
(* The steps.                                                               *)

LEMMA DeclaresQuiet ==
  ASSUME types' = types, pc \notin RowLoops, pc' \notin RowLoops
  PROVE  \A t \in Type : \A z : Declares(t, z)' <=> Declares(t, z)
  BY DEF Declares

\* The list of a type while no casts are inserted.
LEMMA ListIsQuiet ==
  ASSUME NEW t, NEW s, ListIs(t, s), types' = types, cast' = cast, castNext' = castNext,
         pc \notin RowLoops, pc' \notin RowLoops
  PROVE  ListIs(t, s)'
  BY DEF ListIs, Declares

\* A step outside the loops over types and casts.
LEMMA ListQuiet ==
  ASSUME NEW x, ListInv(x), Kept, UNCHANGED <<types, castType>>, pc \notin RowLoops, pc' \notin RowLoops,
         HandOK', WalkOK'
  PROVE  ListInv(x)'
<1>1. Lists'
  BY DeclaresQuiet, ListsKept DEF ListInv
<1>2. CastNamed' /\ TypesNamed'
  BY DEF ListInv, CastNamed, TypesNamed
<1>3. CastQueryOK(x)'
  BY DEF CastQueryOK, RowLoops
<1> QED
  BY <1>1, <1>2, <1>3 DEF ListInv

LEMMA ListIdle ==
  ASSUME NEW x, ListInv(x), Kept, UNCHANGED <<types, castType>>, pc \notin RowLoops, pc' \notin RowLoops \cup Walks
  PROVE  ListInv(x)'
<1>1. HandOK' /\ WalkOK'
  BY DEF HandOK, WalkOK, Walks, RowLoops
<1> QED
  BY <1>1, ListQuiet

\* Linking modules, setting client data, and the start of the propagation.
LEMMA ListModules ==
  ASSUME NEW x, ListInv(x),
         \/ \E y \in Interps, mod \in Modules : InitializeModule(y, mod)
         \/ AlreadyInList \/ WalkModules \/ PropagateClientData
         \/ \E t \in Loaded, d \in Data : TypeClientData(t, d)
  PROVE  ListInv(x)'
<1>1. /\ UNCHANGED <<types, castType, cast, castNext>>
      /\ pc \in {"idle", "walk", "propagate"} /\ pc' \in {"idle", "walk", "type", "propagate", "proptype"}
  BY DEF InitializeModule, AlreadyInList, WalkModules, PropagateClientData, TypeClientData, Return, lists
<1> QED
  BY <1>1, KeptSame, ListIdle DEF RowLoops, Walks

\* The row of a type is started.
LEMMA ListStartRow ==
  ASSUME NEW x, TableInv, ListInv(x), NEW t \in Type, t.name = TypeName,
         t = Own(m, TypeName) \/ \E y \in Modules : types[y][TypeName] = t,
         pc \notin RowLoops, StartRow(t), UNCHANGED <<types, lists, m, i>>
  PROVE  ListInv(x)'
<1>0. pc' = "cast" /\ k' = 1 /\ type' = t /\ UNCHANGED <<cast, castNext, castType>>
  BY DEF StartRow, lists
<1>1. \A u \in Type : \A z : Declares(u, z)' <=> Declares(u, z)
  <2>1. \A b \in 1 .. k' - 1 : FALSE
    BY <1>0
  <2> QED
    BY <2>1 DEF Declares
<1>2. Lists'
  BY <1>0, <1>1, KeptSame, ListsKept DEF ListInv
<1>3. CastNamed' /\ TypesNamed'
  BY <1>0 DEF ListInv, CastNamed, TypesNamed
<1>4. HandOK'
  <2>1. TypeName' = TypeName
    BY DEF TypeName
  <2> QED
    BY <1>0, <2>1 DEF HandOK, Own
<1>5. WalkOK' /\ CastQueryOK(x)'
  BY <1>0 DEF WalkOK, Walks, CastQueryOK
<1> QED
  BY <1>2, <1>3, <1>4, <1>5 DEF ListInv

LEMMA ListNextType ==
  ASSUME NEW x, TableInv, ListInv(x), NextType
  PROVE  ListInv(x)'
<1>0. pc = "type" /\ UNCHANGED <<types, lists, m, i>> /\ m \in Modules
  BY DEF NextType, TableInv, ControlOK
<1>1. CASE pc' # "cast"
  <2>1. pc' \in {"propagate", "typequery"}
    BY <1>1 DEF NextType, StartRow
  <2> QED
    BY <1>0, <2>1, KeptSame, ListIdle DEF RowLoops, Walks, lists
<1>2. CASE pc' = "cast"
  <2>1. ~ (i > Len(TypeInitial[m])) /\ StartRow(Own(m, TypeName))
    BY <1>2 DEF NextType
  <2>2. i \in 1 .. Len(TypeInitial[m])
    BY <1>0, <2>1, TypeTableAssumption DEF TableInv, ControlOK
  <2>3. TypeName \in Names
    BY <1>0, <2>2, TypeTableAssumption DEF TypeName
  <2>4. PICK t : t = Own(m, TypeName)
    OBVIOUS
  <2>5. t \in Type /\ t.name = TypeName
    BY <1>0, <2>3, <2>4 DEF Own, Type
  <2> QED
    BY <1>0, <2>1, <2>4, <2>5, ListStartRow DEF RowLoops
<1> QED
  BY <1>1, <1>2

LEMMA ListQueryType ==
  ASSUME NEW x, TableInv, NotFilled, ListInv(x), QueryType
  PROVE  ListInv(x)'
<1>0. pc = "typequery" /\ UNCHANGED <<types, lists, m, i>> /\ m \in Modules /\ iter \in Modules
  BY DEF QueryType, TableInv, ControlOK
<1>h. TypeName \in Names
  BY <1>0, AtHand
<1>1. CASE types[iter][TypeName] # Null
  <2>1. PICK t : t = types[iter][TypeName]
    OBVIOUS
  <2>2. t \in Type /\ t.name = TypeName
    BY <1>0, <1>h, <1>1, <2>1 DEF ListInv, TypesNamed, TableInv, TypeOK
  <2>3. StartRow(t)
    BY <1>1, <2>1 DEF QueryType
  <2> QED
    BY <1>0, <2>1, <2>2, <2>3, ListStartRow DEF RowLoops
<1>2. CASE types[iter][TypeName] = Null /\ next[iter] # m
  <2>1. pc' = "typequery"
    BY <1>0, <1>2 DEF QueryType
  <2> QED
    BY <1>0, <2>1, KeptSame, ListIdle DEF RowLoops, Walks, lists
<1>3. CASE types[iter][TypeName] = Null /\ next[iter] = m
  <2>1. PICK t : t = Own(m, TypeName)
    OBVIOUS
  <2>2. t \in Type /\ t.name = TypeName
    BY <1>0, <1>h, <2>1 DEF Own, Type
  <2>3. StartRow(t)
    BY <1>3, <2>1 DEF QueryType
  <2> QED
    BY <1>0, <2>1, <2>2, <2>3, ListStartRow DEF RowLoops
<1> QED
  BY <1>1, <1>2, <1>3
\* A cast that the list does not have is inserted.
LEMMA ListInsert ==
  ASSUME NEW x, TableInv, ListInv(x), pc \in RowLoops, k \in 1 .. Len(Row), ~ Declares(type, ThisCast.from),
         LinkAtHead(ThisCast), NextInRow, UNCHANGED <<types, type, m, i>>, CastNamed'
  PROVE  ListInv(x)'
<1>0. k' = k + 1 /\ pc' = "cast"
  BY DEF NextInRow
<1>1. Lists'
  BY <1>0, InsertLists DEF ListInv
<1>2. TypesNamed'
  BY DEF ListInv, TypesNamed
<1>3. HandOK'
  BY <1>0 DEF ListInv, HandOK, RowLoops, TypeName, Own
<1>4. WalkOK' /\ CastQueryOK(x)'
  BY <1>0 DEF WalkOK, Walks, CastQueryOK
<1> QED
  BY <1>1, <1>2, <1>3, <1>4 DEF ListInv

\* At the end of a row the structure is the one of m too.
LEMMA ListRowEnds ==
  ASSUME NEW x, TableInv, NotFilled, ListInv(x), NextCast, k > Len(Row)
  PROVE  ListInv(x)'
<1>0. /\ pc = "cast" /\ pc' = "type" /\ type \in Type /\ type # Null
      /\ types' = [types EXCEPT ![m][TypeName] = type]
      /\ UNCHANGED <<cast, castType, castNext>>
      /\ types \in [Modules -> [Names -> Type \cup {Null}]]
  BY TypeTableAssumption DEF NextCast, lists, TableInv, ControlOK, TypeOK
<1>h. m \in Modules /\ i \in 1 .. Len(TypeInitial[m]) /\ TypeName \in Names /\ types[m][TypeName] = Null
  BY <1>0, AtHand
<1>1. \A y \in Modules, n \in Names : types'[y][n] = IF y = m /\ n = TypeName THEN type ELSE types[y][n]
  BY <1>0, <1>h
<1>2. type.name = TypeName /\ (type = Own(m, TypeName) \/ \E y \in Modules : types[y][TypeName] = type)
  BY <1>0 DEF ListInv, HandOK, RowLoops
<1>3. \A z : InRow(m, TypeName, z) <=> \E b \in 1 .. k - 1 : Row[b] = z
  <2>1. k - 1 = Len(Row)
    <3>1. Len(Row) \in Nat
      BY <1>h, TypeTableAssumption DEF Row
    <3>2. k \in 1 .. Len(Row) + 1
      BY <1>0 DEF TableInv, ControlOK
    <3> QED
      BY <3>1, <3>2
  <2> QED
    BY <2>1 DEF InRow, Row
<1>4. ASSUME NEW t \in Type, NEW z PROVE Declares(t, z)' <=> Declares(t, z)
  <2>1. t.name \in Names /\ t # Null
    BY TypeTableAssumption DEF Type
  <2>2. Declares(t, z)' <=> \E y \in Modules : types'[y][t.name] = t /\ InRow(y, t.name, z)
    BY <1>0 DEF Declares, RowLoops
  <2>3. CASE t = type
    <3>1. \A y \in Modules : types'[y][t.name] = t <=> types[y][t.name] = t \/ y = m
      BY <1>0, <1>1, <1>2, <1>h, <2>3
    <3>2. Declares(t, z) <=> (\E y \in Modules : types[y][t.name] = t /\ InRow(y, t.name, z)) \/ InRow(m, TypeName, z)
      BY <1>0, <1>3, <2>3 DEF Declares, RowLoops
    <3> QED
      BY <1>2, <1>h, <2>2, <2>3, <3>1, <3>2
  <2>4. CASE t # type
    <3>1. \A y \in Modules : types'[y][t.name] = t <=> types[y][t.name] = t
      BY <1>1, <1>h, <2>1, <2>4
    <3> QED
      BY <2>2, <2>4, <3>1 DEF Declares
  <2> QED
    BY <2>3, <2>4
<1>5. Lists'
  BY <1>0, <1>4, KeptSame, ListsKept DEF ListInv
<1>6. CastNamed'
  BY <1>0 DEF ListInv, CastNamed
<1>7. TypesNamed'
  <2>1. type.owner \in Modules /\ types'[type.owner][TypeName] = type
    <3>1. type.owner \in Modules
      BY <1>0 DEF Type
    <3>2. CASE type.owner = m
      BY <1>1, <1>h, <3>2
    <3>3. CASE type.owner # m
      <4>1. types[type.owner][TypeName] = type
        BY <1>0, <1>2, <1>h, <3>3 DEF Own, ListInv, TypesNamed
      <4> QED
        BY <1>1, <1>h, <3>1, <3>3, <4>1
    <3> QED
      BY <3>1, <3>2, <3>3
  <2>2. ASSUME NEW y \in Modules, NEW n \in Names, types'[y][n] # Null, ~ (y = m /\ n = TypeName)
        PROVE  types'[y][n].name = n /\ types'[types'[y][n].owner][n] = types'[y][n]
    <3>1. types'[y][n] = types[y][n] /\ types[y][n] \in Type
      BY <1>0, <1>1, <2>2
    <3>2. PICK u : u = types[y][n]
      OBVIOUS
    <3>3. u.name = n /\ types[u.owner][n] = u /\ u # Null /\ u.owner \in Modules
      BY <2>2, <3>1, <3>2 DEF ListInv, TypesNamed, Type
    <3>4. types'[u.owner][n] = u
      BY <1>1, <1>h, <3>3
    <3> QED
      BY <3>1, <3>2, <3>3, <3>4
  <2>3. ASSUME NEW y \in Modules, NEW n \in Names, types'[y][n] # Null, y = m /\ n = TypeName
        PROVE  types'[y][n].name = n /\ types'[types'[y][n].owner][n] = types'[y][n]
    BY <1>1, <1>2, <2>1, <2>3
  <2> QED
    BY <2>2, <2>3 DEF TypesNamed
<1>8. HandOK' /\ WalkOK' /\ CastQueryOK(x)'
  BY <1>0 DEF HandOK, RowLoops, WalkOK, Walks, CastQueryOK
<1> QED
  BY <1>5, <1>6, <1>7, <1>8 DEF ListInv

LEMMA ListNextCast ==
  ASSUME NEW x \in Interps, TableInv, OneInv(x), ListInv(x), NextCast
  PROVE  ListInv(x)'
<1>0. pc = "cast" /\ UNCHANGED <<next, head, m>> /\ NotFilled /\ RingOK(x)
  BY DEF NextCast, OneInv
<1>1. CASE k > Len(Row)
  BY <1>0, <1>1, ListRowEnds
<1>2. CASE ~ (k > Len(Row))
  <2>0. k \in 1 .. Len(Row)
    <3>1. m \in Modules /\ TypeName \in Names /\ k \in 1 .. Len(Row) + 1
      BY <1>0, AtHand DEF TableInv, ControlOK
    <3>2. Len(Row) \in Nat
      BY <3>1, TypeTableAssumption DEF Row
    <3> QED
      BY <1>2, <3>1, <3>2
  <2>1. CASE next[m] # m
    <3>1. /\ pc' = "castquery" /\ iter' = next[m]
          /\ UNCHANGED <<types, cast, castType, castNext, i, k, type>>
      BY <1>2, <2>1 DEF NextCast, lists
    <3>2. \A t \in Type : \A z : Declares(t, z)' <=> Declares(t, z)
      BY <1>0, <3>1 DEF Declares, RowLoops, Row, TypeName
    <3>3. Lists'
      BY <3>1, <3>2, KeptSame, ListsKept DEF ListInv
    <3>4. CastNamed' /\ TypesNamed'
      BY <3>1 DEF ListInv, CastNamed, TypesNamed
    <3>5. HandOK' /\ WalkOK'
      BY <1>0, <3>1 DEF ListInv, HandOK, RowLoops, WalkOK, Walks, TypeName, Own
    <3>6. CastQueryOK(x)'
      BY <1>0, <2>1, <3>1, CastQueryStarts
    <3> QED
      BY <3>3, <3>4, <3>5, <3>6 DEF ListInv
  <2>2. CASE next[m] = m
    <3>1. LinkAtHead(ThisCast) /\ NextInRow /\ UNCHANGED <<types, castType, i, type>>
      BY <1>2, <2>2 DEF NextCast
    <3>2. \A y \in Modules : y # m => next[y] = Null
      BY <1>0, <2>2, Alone DEF Loading
    <3>3. ThisCast.from \in Names
      BY <1>0, <2>0, ThisCastIsCast DEF TableInv
    <3>4. \A y \in Modules : y # m => types[y][ThisCast.from] = Null
      BY <1>0, <3>2, <3>3 DEF NotFilled
    <3>5. ~ Declares(type, ThisCast.from)
      BY <1>0, <2>0, <3>4, NotLoaded DEF ListInv, RowLoops
    <3>6. CastNamed'
      BY <3>1 DEF ListInv, CastNamed
    <3> QED
      BY <1>0, <2>0, <3>1, <3>5, <3>6, ListInsert DEF RowLoops
  <2> QED
    BY <2>1, <2>2
<1> QED
  BY <1>1, <1>2
LEMMA ListQueryCast ==
  ASSUME NEW x \in Interps, TableInv, OneInv(x), ListInv(x), QueryCast
  PROVE  ListInv(x)'
<1>0. /\ pc = "castquery" /\ UNCHANGED <<next, head, types, m, i, type>> /\ NotFilled /\ k \in 1 .. Len(Row)
      /\ TypeOK /\ type \in Type /\ iter \in Modules /\ Row' = Row /\ TypeName' = TypeName
  BY DEF QueryCast, OneInv, TableInv, ControlOK, Row, TypeName
<1>h. ThisCast \in Cast /\ ThisCast.from \in Names /\ ThisCast.from = Row[k]
  BY <1>0, ThisCastIsCast DEF TableInv
<1>1. CASE types[iter][ThisCast.from] # Null /\ type = Own(m, TypeName)
  <2>1. /\ castType' = [castType EXCEPT ![ThisCast] = types[iter][ThisCast.from]]
        /\ LinkAtHead(ThisCast) /\ NextInRow
    BY <1>0, <1>1 DEF QueryCast
  <2>2. types[iter][ThisCast.from].name = ThisCast.from
    BY <1>0, <1>1, <1>h DEF ListInv, TypesNamed
  <2>3. CastNamed'
    BY <1>0, <1>h, <2>1, <2>2 DEF ListInv, CastNamed, TypeOK
  <2>4. ~ Declares(type, ThisCast.from)
    BY <1>0, <1>1, NewStructure DEF ListInv, RowLoops
  <2> QED
    BY <1>0, <2>1, <2>3, <2>4, ListInsert DEF RowLoops
<1>2. CASE types[iter][ThisCast.from] # Null /\ type # Own(m, TypeName)
  <2>1. /\ pc' = "loadcheck" /\ citer' = cast[type] /\ want' = ThisCast.from
        /\ UNCHANGED <<cast, castType, castNext, k>>
    BY <1>0, <1>2 DEF QueryCast, lists
  <2>2. \A t \in Type : \A z : Declares(t, z)' <=> Declares(t, z)
    BY <1>0, <2>1 DEF Declares, RowLoops
  <2>3. Lists'
    BY <2>1, <2>2, KeptSame, ListsKept DEF ListInv
  <2>4. CastNamed' /\ TypesNamed'
    BY <1>0, <2>1 DEF ListInv, CastNamed, TypesNamed
  <2>5. HandOK'
    BY <1>0, <2>1 DEF ListInv, HandOK, RowLoops, Own
  <2>6. WalkOK'
    <3>1. PICK s : ListIs(type, s)
      BY <1>0 DEF ListInv, Lists
    <3>2. PICK t : t = type
      OBVIOUS
    <3>3. ListIs(t, s) /\ t \in Type /\ citer' = cast[t]
      BY <1>0, <2>1, <3>1, <3>2
    <3>4. At(s)'
      BY <3>3, WalkStarts DEF TableInv
    <3>5. ListIs(t, s)'
      BY <2>1, <2>2, <3>3 DEF ListIs
    <3>6. want' = ThisCast'.from
      BY <1>0, <2>1 DEF ThisCast
    <3>7. type' = t
      BY <1>0, <3>2
    <3> QED
      BY <3>4, <3>5, <3>6, <3>7 DEF WalkOK
  <2>7. CastQueryOK(x)'
    BY <2>1 DEF CastQueryOK
  <2> QED
    BY <2>3, <2>4, <2>5, <2>6, <2>7 DEF ListInv
<1>3. CASE types[iter][ThisCast.from] = Null /\ next[iter] # m
  <2>1. pc' = "castquery" /\ iter' = next[iter] /\ UNCHANGED <<cast, castType, castNext, k>>
    BY <1>0, <1>3 DEF QueryCast, lists
  <2>2. \A t \in Type : \A z : Declares(t, z)' <=> Declares(t, z)
    BY <1>0, <2>1 DEF Declares, RowLoops
  <2>3. Lists'
    BY <2>1, <2>2, KeptSame, ListsKept DEF ListInv
  <2>4. CastNamed' /\ TypesNamed'
    BY <1>0, <2>1 DEF ListInv, CastNamed, TypesNamed
  <2>5. HandOK' /\ WalkOK'
    BY <1>0, <2>1 DEF ListInv, HandOK, RowLoops, Own, WalkOK, Walks
  <2>6. CastQueryOK(x)'
    BY <1>0, <1>3, <2>1, CastQueryOn DEF ListInv
  <2> QED
    BY <2>3, <2>4, <2>5, <2>6 DEF ListInv
<1>4. CASE types[iter][ThisCast.from] = Null /\ next[iter] = m
  <2>1. LinkAtHead(ThisCast) /\ NextInRow /\ UNCHANGED castType
    BY <1>0, <1>4 DEF QueryCast
  <2>2. CastNamed'
    BY <2>1 DEF ListInv, CastNamed
  <2>3. \A y \in Modules : y # m => types[y][ThisCast.from] = Null
    BY <1>0, <1>4, <1>h, CastQueryEnds DEF ListInv
  <2>4. ~ Declares(type, ThisCast.from)
    BY <1>0, <2>3, NotLoaded DEF ListInv, RowLoops
  <2> QED
    BY <1>0, <2>1, <2>2, <2>4, ListInsert DEF RowLoops
<1> QED
  BY <1>1, <1>2, <1>3, <1>4

\* SWIG_TypeCheck, called while a module is loaded: a cast is inserted only when the
\* walk has passed the whole list, and the one it finds is of the row already.
LEMMA ListLoadCheck ==
  ASSUME NEW x \in Interps, TableInv, OneInv(x), ListInv(x), LoadCheck
  PROVE  ListInv(x)'
<1>0. /\ pc = "loadcheck" /\ UNCHANGED <<next, head, types, castType, m, i, type>> /\ NotFilled /\ Agree /\ TypeRight
      /\ k \in 1 .. Len(Row) /\ TypeOK /\ WellLinked /\ type \in Type /\ Row' = Row /\ TypeName' = TypeName
      /\ want = ThisCast.from
  BY DEF LoadCheck, OneInv, TableInv, ControlOK, Row, TypeName, ListInv, WalkOK
<1>h. ThisCast.from = Row[k]
  BY <1>0, ThisCastIsCast DEF TableInv
<1>n. CastNamed' /\ TypesNamed'
  BY <1>0 DEF ListInv, CastNamed, TypesNamed
<1>s. PICK s : ListIs(type, s) /\ At(s)
  BY <1>0 DEF ListInv, WalkOK, Walks
<1>c. Len(s) \in Nat /\ \A j \in 1 .. Len(s) : s[j] \in Cast /\ s[j] # Null
  BY <1>0, <1>s, ListCasts
<1>1. CASE citer = Null
  <2>1. LinkAtHead(ThisCast) /\ NextInRow
    BY <1>1 DEF LoadCheck
  <2>2. \A j \in 1 .. Len(s) : s[j].from # want
    BY <1>0, <1>1, <1>c, <1>s DEF At, Passed
  <2>3. want \notin Froms(s)
    BY <2>2 DEF Froms
  <2>4. ~ Declares(type, ThisCast.from)
    BY <1>0, <1>s, <2>3 DEF ListIs
  <2> QED
    BY <1>0, <1>n, <2>1, <2>4, ListInsert DEF RowLoops
<1>2. CASE citer # Null /\ castType[citer].name = want
  <2>1. MoveToFront(citer) /\ NextInRow
    BY <1>2 DEF LoadCheck
  <2>2. PICK p \in 1 .. Len(s) : citer = s[p]
    BY <1>2, <1>s DEF At
  <2>3. Kept
    BY <1>0, <1>s, <2>1, <2>2, FrontKept DEF ListInv
  <2>4. want \in Froms(s)
    <3>1. s[p].from = want
      BY <1>2, <1>c, <2>2 DEF ListInv, CastNamed
    <3> QED
      BY <3>1 DEF Froms
  <2>5. Declares(type, Row[k])
    BY <1>0, <1>h, <1>s, <2>4 DEF ListIs
  <2>6. pc' = "cast" /\ k' = k + 1
    BY <2>1 DEF NextInRow
  <2>7. ASSUME NEW t \in Type, NEW z PROVE Declares(t, z)' <=> Declares(t, z)
    <3>1. k \in Nat /\ \A b : b \in 1 .. (k + 1) - 1 <=> b \in 1 .. k - 1 \/ b = k
      BY <1>0
    <3>2. (\E b \in 1 .. k' - 1 : Row'[b] = z) <=> (\E b \in 1 .. k - 1 : Row[b] = z) \/ z = Row[k]
      BY <1>0, <2>6, <3>1
    <3>3. Declares(t, z)' <=> Declares(t, z) \/ (t = type /\ z = Row[k])
      BY <1>0, <2>6, <3>2 DEF Declares, RowLoops
    <3> QED
      BY <2>5, <3>3
  <2>8. Lists'
    BY <2>3, <2>7, ListsKept DEF ListInv
  <2>9. HandOK' /\ WalkOK' /\ CastQueryOK(x)'
    BY <1>0, <2>6 DEF ListInv, HandOK, RowLoops, Own, WalkOK, Walks, CastQueryOK
  <2> QED
    BY <1>n, <2>8, <2>9 DEF ListInv
<1>3. CASE citer # Null /\ castType[citer].name # want
  <2>1. citer' = castNext[citer] /\ UNCHANGED <<cast, castNext, k, want, pc>>
    BY <1>3 DEF LoadCheck
  <2>2. \A t \in Type : \A z : Declares(t, z)' <=> Declares(t, z)
    BY <1>0, <2>1 DEF Declares, RowLoops
  <2>3. Lists'
    BY <2>1, <2>2, KeptSame, ListsKept DEF ListInv
  <2>4. PICK t, c : t = type /\ c = citer
    OBVIOUS
  <2>5. At(s)'
    <3>1. c \in Cast
      BY <1>3, <1>c, <1>s, <2>4 DEF At
    <3>2. c.from # want
      BY <1>3, <2>4, <3>1 DEF ListInv, CastNamed
    <3>3. Passed(c)' /\ \A d \in Cast : Passed(d) => Passed(d)'
      BY <1>0, <2>1, <3>2 DEF Passed
    <3> QED
      BY <1>0, <1>3, <1>s, <2>1, <2>4, <3>3, WalkGoesOn
  <2>6. ListIs(t, s)'
    BY <1>0, <1>s, <2>1, <2>2, <2>4 DEF ListIs
  <2>7. WalkOK'
    <3>1. want' = ThisCast'.from /\ type' = t
      BY <1>0, <2>1, <2>4 DEF ThisCast
    <3> QED
      BY <2>5, <2>6, <3>1 DEF WalkOK
  <2>8. HandOK' /\ CastQueryOK(x)'
    BY <1>0, <2>1 DEF ListInv, HandOK, RowLoops, Own, CastQueryOK
  <2> QED
    BY <1>n, <2>3, <2>7, <2>8 DEF ListInv
<1> QED
  BY <1>1, <1>2, <1>3
\* The casts on the lists, as the specification collects them, are casts.
LEMMA ListOfCasts ==
  ASSUME TableInv, Lists
  PROVE  \A u \in Type : ListOf(u) \subseteq Cast
<1> SUFFICES ASSUME NEW u \in Type PROVE ListOf(u) \subseteq Cast
  OBVIOUS
<1>1. PICK s : ListIs(u, s)
  BY DEF Lists
<1>2. ListOf(u) = {s[j] : j \in 1 .. Len(s)}
  BY <1>1, ListOfIs
<1>3. \A j \in 1 .. Len(s) : s[j] \in Cast
  BY <1>1, ListCasts DEF TableInv
<1> QED
  BY <1>2, <1>3

\* Spreading client data takes none away, and reaches all that it must.
LEMMA SpreadIs ==
  ASSUME TableInv, Lists, NEW t \in Type, NEW d, d # Null, Spread(t, d)
  PROVE  /\ clientdata'[t] = d
         /\ \A u \in Type : clientdata[u] # Null => clientdata'[u] # Null
         /\ \A u \in Type : \A c \in ListOf(u) :
              clientdata[u] = Null /\ clientdata'[u] # Null /\ ~ HasConverter(c) => clientdata'[castType[c]] # Null
<1>0. TypeOK /\ \A u \in Type : ListOf(u) \subseteq Cast
  BY ListOfCasts DEF TableInv
<1>1. PICK R : R = Equivalents(t)
  OBVIOUS
<1>2. /\ t \in R /\ R \subseteq Type
      /\ \A u \in R : \A c \in ListOf(u) :
           ~ HasConverter(c) /\ clientdata[castType[c]] = Null => castType[c] \in R
  BY <1>0, <1>1, EquivalentsClosed
<1>3. clientdata' = [u \in Type |-> IF u \in R THEN d ELSE clientdata[u]]
  BY <1>1 DEF Spread
<1>4. \A u \in Type : clientdata'[u] = IF u \in R THEN d ELSE clientdata[u]
  BY <1>3
<1>5. ASSUME NEW u \in Type, NEW c \in ListOf(u), clientdata[u] = Null, clientdata'[u] # Null, ~ HasConverter(c)
      PROVE  clientdata'[castType[c]] # Null
  <2>1. u \in R
    BY <1>4, <1>5
  <2>2. castType[c] \in Type
    BY <1>0 DEF TypeOK
  <2> QED
    BY <1>2, <1>4, <1>5, <2>1, <2>2
<1> QED
  BY <1>2, <1>4, <1>5

\* A check starts at a loaded type.
LEMMA ListStartCheck ==
  ASSUME NEW x, TableInv, ListInv(x), NEW t \in Loaded, NEW what, NEW loop \in {"checkname", "checkstruct"},
         StartCheck(t, what, loop)
  PROVE  ListInv(x)'
<1>0. pc = "idle" /\ pc' = loop /\ type' = t /\ citer' = cast[t] /\ UNCHANGED <<types, cast, castType, castNext>>
  BY DEF StartCheck, lists
<1>1. PICK y \in Modules, n \in Names : t = types[y][n] /\ t # Null
  BY DEF Loaded
<1>2. t \in Type /\ t.name = n
  BY <1>1 DEF ListInv, TypesNamed, TableInv, TypeOK
<1>3. HandOK'
  BY <1>0, <1>1, <1>2 DEF HandOK, RowLoops
<1>4. PICK s : ListIs(t, s)
  BY <1>2 DEF ListInv, Lists
<1>5. At(s)'
  BY <1>0, <1>4, WalkStarts DEF TableInv
<1>6. ListIs(t, s)'
  BY <1>0, <1>4, ListIsQuiet DEF RowLoops
<1>7. WalkOK'
  BY <1>0, <1>5, <1>6 DEF WalkOK
<1> QED
  BY <1>0, <1>3, <1>7, KeptSame, ListQuiet DEF RowLoops

LEMMA ListCheckCast ==
  ASSUME NEW x, TableInv, OneInv(x), ListInv(x), CheckCast
  PROVE  ListInv(x)'
<1>0. /\ pc \in {"checkname", "checkstruct"} /\ UNCHANGED <<types, castType>> /\ TypeOK /\ WellLinked /\ type \in Type
      /\ Agree /\ TypeRight /\ HandOK
  BY DEF CheckCast, TableInv, ControlOK, OneInv, ListInv
<1>s. PICK s : ListIs(type, s) /\ At(s)
  BY <1>0 DEF ListInv, WalkOK, Walks
<1>1. CASE citer = Null
  <2>1. pc' = "idle" /\ UNCHANGED <<cast, castNext>>
    BY <1>1 DEF CheckCast, Return
  <2> QED
    BY <1>0, <2>1, KeptSame, ListIdle DEF RowLoops, Walks
<1>2. CASE citer # Null /\ pc' = "idle"
  <2>1. MoveToFront(citer)
    BY <1>0, <1>2 DEF CheckCast
  <2>2. PICK p \in 1 .. Len(s) : citer = s[p]
    BY <1>2, <1>s DEF At
  <2>3. Kept
    BY <1>0, <1>s, <2>1, <2>2, FrontKept
  <2> QED
    BY <1>0, <1>2, <2>3, ListIdle DEF RowLoops, Walks
<1>3. CASE citer # Null /\ pc' # "idle"
  <2>1. citer' = castNext[citer] /\ UNCHANGED <<cast, castNext, pc, type>>
    BY <1>3 DEF CheckCast, Return
  <2>2. PICK t, c : t = type /\ c = citer
    OBVIOUS
  <2>3. Passed(c)' /\ \A d \in Cast : Passed(d) => Passed(d)'
    BY <1>0, <2>1 DEF Passed
  <2>4. At(s)'
    BY <1>0, <1>3, <1>s, <2>1, <2>2, <2>3, WalkGoesOn
  <2>5. ListIs(t, s)'
    BY <1>0, <1>s, <2>1, <2>2, ListIsQuiet DEF RowLoops
  <2>6. WalkOK'
    BY <1>0, <2>1, <2>2, <2>4, <2>5 DEF WalkOK
  <2>7. HandOK'
    BY <1>0, <2>1 DEF HandOK, RowLoops
  <2> QED
    BY <1>0, <2>1, <2>6, <2>7, KeptSame, ListQuiet DEF RowLoops
<1> QED
  BY <1>1, <1>2, <1>3

\* The propagation comes to a type of m, which is filled in.
LEMMA ListPropagateType ==
  ASSUME NEW x, TableInv, ListInv(x), PropagateType
  PROVE  ListInv(x)'
<1>0. pc = "proptype" /\ UNCHANGED <<types, castType, cast, castNext, clientdata>> /\ m \in Modules /\ next[m] # Null
  BY DEF PropagateType, lists, TableInv, ControlOK
<1>1. CASE pc' # "propcast"
  <2>1. pc' \in {"idle", "proptype"}
    BY <1>0, <1>1 DEF PropagateType, Return
  <2> QED
    BY <1>0, <2>1, KeptSame, ListIdle DEF RowLoops, Walks
<1>2. CASE pc' = "propcast"
  <2>1. /\ ~ (i > Len(TypeInitial[m])) /\ type' = types[m][TypeName] /\ clientdata[type'] # Null
        /\ citer' = cast[type'] /\ UNCHANGED <<i, m>>
    BY <1>0, <1>2 DEF PropagateType, Return
  <2>2. i \in 1 .. Len(TypeInitial[m])
    BY <1>0, <2>1, TypeTableAssumption DEF TableInv, ControlOK
  <2>3. TypeName \in Names /\ TypeName' = TypeName
    BY <1>0, <2>1, <2>2, TypeTableAssumption DEF TypeName
  <2>4. PICK t : t = types[m][TypeName]
    OBVIOUS
  <2>5. t # Null
    BY <1>0, <2>2, <2>4 DEF TableInv, TypesFilled, Filling, TypeName
  <2>6. t \in Type /\ t.name = TypeName
    BY <1>0, <2>3, <2>4, <2>5 DEF ListInv, TypesNamed, TableInv, TypeOK
  <2>7. HandOK'
    BY <1>0, <1>2, <2>1, <2>3, <2>4, <2>6 DEF HandOK, RowLoops
  <2>8. PICK s : ListIs(t, s)
    BY <2>6 DEF ListInv, Lists
  <2>9. At(s)'
    BY <2>1, <2>4, <2>8, WalkStarts DEF TableInv
  <2>10. ListIs(t, s)'
    BY <1>0, <1>2, <2>8, ListIsQuiet DEF RowLoops
  <2>11. WalkOK'
    BY <1>2, <2>1, <2>4, <2>9, <2>10 DEF WalkOK
  <2> QED
    BY <1>0, <1>2, <2>7, <2>11, KeptSame, ListQuiet DEF RowLoops
<1> QED
  BY <1>1, <1>2

\* Client data is never taken away again.
LEMMA PropagateGrows ==
  ASSUME TableInv, Lists, HandOK, PropagateCast, citer # Null
  PROVE  /\ \A u \in Type : clientdata[u] # Null => clientdata'[u] # Null
         /\ ~ HasConverter(citer) => clientdata'[castType[citer]] # Null
         /\ \A u \in Type : \A c \in ListOf(u) :
              clientdata[u] = Null /\ clientdata'[u] # Null /\ ~ HasConverter(c) => clientdata'[castType[c]] # Null
<1>1. CASE ~ HasConverter(citer) /\ clientdata[castType[citer]] = Null
  <2>1. PICK t, d : t = castType[citer] /\ d = clientdata[type]
    OBVIOUS
  <2>2. t \in Type /\ d # Null /\ Spread(t, d)
    BY <1>1, <2>1 DEF PropagateCast, HandOK, TableInv, TypeOK
  <2>3. /\ clientdata'[t] = d
        /\ \A u \in Type : clientdata[u] # Null => clientdata'[u] # Null
        /\ \A u \in Type : \A c \in ListOf(u) :
             clientdata[u] = Null /\ clientdata'[u] # Null /\ ~ HasConverter(c) => clientdata'[castType[c]] # Null
    BY <2>2, SpreadIs
  <2> QED
    BY <2>1, <2>2, <2>3
<1>2. CASE ~ (~ HasConverter(citer) /\ clientdata[castType[citer]] = Null)
  <2>1. clientdata' = clientdata
    BY <1>2 DEF PropagateCast
  <2> QED
    BY <1>2, <2>1
<1> QED
  BY <1>1, <1>2

LEMMA ListPropagateCast ==
  ASSUME NEW x, TableInv, ListInv(x), PropagateCast
  PROVE  ListInv(x)'
<1>0. /\ pc = "propcast" /\ UNCHANGED <<types, castType, cast, castNext, type, m>> /\ TypeOK /\ WellLinked
      /\ Lists /\ HandOK /\ type \in Type
  BY DEF PropagateCast, lists, TableInv, ControlOK, ListInv
<1>1. CASE citer = Null
  <2>1. pc' = "proptype"
    BY <1>1 DEF PropagateCast
  <2> QED
    BY <1>0, <2>1, KeptSame, ListIdle DEF RowLoops, Walks
<1>2. CASE citer # Null
  <2>1. citer' = castNext[citer] /\ UNCHANGED <<i, pc>>
    BY <1>2 DEF PropagateCast
  <2>2. /\ \A u \in Type : clientdata[u] # Null => clientdata'[u] # Null
        /\ ~ HasConverter(citer) => clientdata'[castType[citer]] # Null
    BY <1>0, <1>2, PropagateGrows
  <2>s. PICK s : ListIs(type, s) /\ At(s)
    BY <1>0 DEF ListInv, WalkOK, Walks
  <2>3. PICK t, c : t = type /\ c = citer
    OBVIOUS
  <2>4. Passed(c)'
    BY <1>0, <2>1, <2>2, <2>3 DEF Passed, HasConverter
  <2>5. \A d \in Cast : Passed(d) => Passed(d)'
    <3>1. \A d \in Cast : castType[d] \in Type
      BY <1>0 DEF TypeOK
    <3> QED
      BY <1>0, <2>1, <2>2, <3>1 DEF Passed, HasConverter
  <2>6. At(s)'
    BY <1>0, <1>2, <2>1, <2>3, <2>4, <2>5, <2>s, WalkGoesOn
  <2>7. ListIs(t, s)'
    BY <1>0, <2>1, <2>3, <2>s, ListIsQuiet DEF RowLoops
  <2>8. WalkOK'
    BY <1>0, <2>1, <2>3, <2>6, <2>7 DEF WalkOK
  <2>9. HandOK'
    <3>1. TypeName' = TypeName
      BY <1>0, <2>1 DEF TypeName
    <3> QED
      BY <1>0, <2>1, <2>2, <3>1 DEF HandOK, RowLoops
  <2> QED
    BY <1>0, <2>1, <2>8, <2>9, KeptSame, ListQuiet DEF RowLoops
<1> QED
  BY <1>1, <1>2
LEMMA ListStutter == ASSUME NEW x, ListInv(x), UNCHANGED vars PROVE ListInv(x)'
<1>0. /\ UNCHANGED <<next, head, types, cast, castType, castNext, clientdata, pc, m, i, k, type, iter, citer, want>>
      /\ Row' = Row /\ TypeName' = TypeName /\ ThisCast' = ThisCast
  BY DEF vars, Row, TypeName, ThisCast
<1>1. \A t, z : Declares(t, z)' <=> Declares(t, z)
  BY <1>0 DEF Declares
<1>2. \A t, s : ListIs(t, s) => ListIs(t, s)'
  BY <1>0, <1>1 DEF ListIs
<1>3. Lists'
  BY <1>2 DEF ListInv, Lists
<1>4. CastNamed' /\ TypesNamed' /\ HandOK'
  BY <1>0 DEF ListInv, CastNamed, TypesNamed, HandOK, Own
<1>5. WalkOK'
  <2>1. \A s : At(s) => At(s)'
    BY <1>0 DEF At, Passed, HasConverter
  <2>2. CASE pc \in Walks
    <3>1. PICK s, t : t = type /\ ListIs(t, s) /\ At(s)
      BY <2>2 DEF ListInv, WalkOK
    <3>2. ListIs(t, s)' /\ At(s)' /\ t = type'
      BY <1>0, <1>2, <2>1, <3>1
    <3> QED
      BY <1>0, <3>2 DEF ListInv, WalkOK
  <2>3. CASE pc \notin Walks
    BY <1>0, <2>3 DEF WalkOK, Walks
  <2> QED
    BY <2>2, <2>3
<1>6. CastQueryOK(x)'
  <2>1. \A n, r : CastQueryAt(n, r) => CastQueryAt(n, r)'
    BY <1>0 DEF CastQueryAt
  <2>2. \A n, r : Ring(n, r, x) => Ring(n, r, x)'
    BY <1>0 DEF Ring
  <2>3. CASE pc = "castquery"
    <3>1. PICK n, r : /\ Ring(n, r, x) /\ (\A y \in Modules : next[y] # Null => On(n, r, y))
                      /\ m = r[2] /\ CastQueryAt(n, r)
      BY <2>3 DEF ListInv, CastQueryOK
    <3>2. /\ Ring(n, r, x)' /\ (\A y \in Modules : next'[y] # Null => On(n, r, y))
          /\ m' = r[2] /\ CastQueryAt(n, r)'
      BY <1>0, <2>1, <2>2, <3>1
    <3> QED
      BY <3>2 DEF CastQueryOK, On
  <2>4. CASE pc # "castquery"
    BY <1>0, <2>4 DEF CastQueryOK
  <2> QED
    BY <2>3, <2>4
<1> QED
  BY <1>3, <1>4, <1>5, <1>6 DEF ListInv

LEMMA ListInit == ASSUME NEW x PROVE Init => ListInv(x)
<1> SUFFICES ASSUME Init PROVE ListInv(x)
  OBVIOUS
<1>1. Lists
  <2> SUFFICES ASSUME NEW t \in Type PROVE ListIs(t, <<>>)
    BY DEF Lists
  <2>1. cast[t] = Null /\ pc = "idle" /\ \A y \in Modules : \A n \in Names : types[y][n] = Null
    BY DEF Init
  <2>2. t.name \in Names /\ t # Null
    BY TypeTableAssumption DEF Type
  <2>3. Len(<<>>) = 0 /\ <<>> \in Seq(Emitted) /\ \A j \in 1 .. 0 : FALSE
    OBVIOUS
  <2>4. \A z : z \notin Froms(<<>>) /\ ~ Declares(t, z)
    BY <2>1, <2>2, <2>3 DEF Froms, Declares, RowLoops
  <2>5. Linked(cast[t], castNext, <<>>)
    BY <2>1, <2>3 DEF Linked
  <2> QED
    BY <2>3, <2>4, <2>5 DEF ListIs
<1>2. CastNamed
  BY DEF Init, CastNamed, Own
<1>3. TypesNamed /\ HandOK /\ WalkOK /\ CastQueryOK(x)
  BY DEF Init, TypesNamed, HandOK, RowLoops, WalkOK, Walks, CastQueryOK
<1> QED
  BY <1>1, <1>2, <1>3 DEF ListInv

LEMMA ListNext ==
  ASSUME NEW x \in Interps
  PROVE  TableInv /\ OneInv(x) /\ ListInv(x) /\ [Next]_vars => ListInv(x)'
<1> SUFFICES ASSUME TableInv, OneInv(x), ListInv(x), [Next]_vars PROVE ListInv(x)'
  OBVIOUS
<1>0. NotFilled
  BY DEF OneInv
<1>1. CASE \/ \E y \in Interps, mod \in Modules : InitializeModule(y, mod)
           \/ AlreadyInList \/ WalkModules \/ PropagateClientData
           \/ \E t \in Loaded, d \in Data : TypeClientData(t, d)
  BY <1>1, ListModules
<1>2. CASE (\E t \in Loaded, n \in Names : TypeCheck(t, n)) \/ (\E t, from \in Loaded : TypeCheckStruct(t, from))
  BY <1>2, ListStartCheck DEF TypeCheck, TypeCheckStruct
<1>3. CASE NextType \/ QueryType \/ NextCast \/ QueryCast \/ LoadCheck
  BY <1>0, <1>3, ListNextType, ListQueryType, ListNextCast, ListQueryCast, ListLoadCheck
<1>4. CASE CheckCast \/ PropagateType \/ PropagateCast
  BY <1>4, ListCheckCast, ListPropagateType, ListPropagateCast
<1>5. CASE UNCHANGED vars
  BY <1>5, ListStutter
<1> QED
  BY <1>1, <1>2, <1>3, <1>4, <1>5 DEF Next, Step

LEMMA ListInvariant == ASSUME NEW x \in Interps, Interps = {x} PROVE Spec => []ListInv(x)
  BY ListInit, ListNext, TableInvariant, OneInvariant, PTL DEF Spec

-----------------------------------------------------------------------------
(***************************************************************************)
(* What the casts point at.  A cast of a structure that its own module     *)
(* brought points at the loaded structure of its type as soon as one is    *)
(* loaded; a cast added to the structure of another module keeps the       *)
(* pointer it was generated with.                                          *)
(***************************************************************************)

\* The structure at hand is new, and the cast is one of those of its row before k.
AtWork(c) == pc \in RowLoops /\ c.owner = m /\ c.to = TypeName

\* The cast is one of a structure that its own module brought.
OwnStruct(c) ==
  \/ types[c.owner][c.to] = Own(c.owner, c.to)
  \/ AtWork(c) /\ type = Own(m, TypeName)

\* The module of the cast has dealt with it.
Done(c) ==
  \/ types[c.owner][c.to] # Null
  \/ AtWork(c) /\ \E b \in 1 .. k - 1 : Row[b] = c.from

LateKept == \A c \in Cast : castType[c] # Own(c.owner, c.from) => OwnStruct(c)

ToLoaded == \A c \in Cast : castType[c] # Own(c.owner, c.from) => \E y \in Modules : castType[c] = types[y][c.from]

Pointed == \A c \in Emitted : OwnStruct(c) /\ Done(c) =>
             \A y \in Modules : types[y][c.from] # Null => castType[c] = types[y][c.from]

ListedDone == \A c \in Cast : ~ Unlinked(c) => Done(c)

Merging == pc = "loadcheck" => type # Own(m, TypeName)

PointInv == LateKept /\ ToLoaded /\ Pointed /\ ListedDone /\ Merging

\* Outside the loops over rows only the lists change.
LEMMA PointQuiet ==
  ASSUME TypeOK, PointInv, UNCHANGED <<types, castType>>, pc \notin RowLoops, pc' \notin RowLoops,
         \A d \in Cast : Unlinked(d) => Unlinked(d)'
  PROVE  PointInv'
<1>1. \A c : (OwnStruct(c)' <=> OwnStruct(c)) /\ (Done(c)' <=> Done(c))
  BY DEF OwnStruct, Done, AtWork
<1>2. LateKept' /\ ToLoaded' /\ Pointed' /\ ListedDone'
  BY <1>1 DEF PointInv, LateKept, ToLoaded, Pointed, ListedDone
<1>3. Merging'
  BY DEF Merging, RowLoops
<1> QED
  BY <1>2, <1>3 DEF PointInv

\* A row is started: none of its casts is done.
LEMMA PointStartRow ==
  ASSUME TableInv, NotFilled, PointInv, pc = "typequery" \/ (pc = "type" /\ i \in 1 .. Len(TypeInitial[m])), NEW t, StartRow(t),
         UNCHANGED <<types, lists, m, i>>
  PROVE  PointInv'
<1>0. /\ pc' = "cast" /\ k' = 1 /\ type' = t /\ UNCHANGED <<cast, castNext, castPrev, castType>> /\ TypeName' = TypeName
      /\ pc \notin RowLoops
  BY DEF StartRow, lists, TypeName, RowLoops
<1>1. m \in Modules /\ TypeName \in Names /\ types[m][TypeName] = Null
  <2>1. m \in Modules /\ i \in 1 .. Len(TypeInitial[m])
    BY DEF TableInv, ControlOK
  <2>2. TypeName \in Names
    BY <2>1, TypeTableAssumption DEF TypeName
  <2> QED
    BY <2>1, <2>2 DEF NotFilled, Filling, TypeName
<1>2. \A c : Done(c)' <=> Done(c)
  <2>1. \A b \in 1 .. k' - 1 : FALSE
    BY <1>0
  <2> QED
    BY <1>0, <2>1 DEF Done, AtWork
<1>3. \A c : OwnStruct(c) => OwnStruct(c)'
  BY <1>0 DEF OwnStruct, AtWork
<1>4. \A c : OwnStruct(c)' /\ Done(c) => OwnStruct(c)
  BY <1>0, <1>1 DEF OwnStruct, Done, AtWork
<1>5. LateKept' /\ ToLoaded' /\ Pointed' /\ ListedDone'
  <2>1. LateKept'
    BY <1>0, <1>3 DEF PointInv, LateKept
  <2>2. ToLoaded'
    BY <1>0 DEF PointInv, ToLoaded
  <2>3. Pointed'
    BY <1>0, <1>2, <1>4 DEF PointInv, Pointed
  <2>4. ListedDone'
    BY <1>0, <1>2 DEF PointInv, ListedDone, Unlinked
  <2> QED
    BY <2>1, <2>2, <2>3, <2>4
<1>6. Merging'
  BY <1>0 DEF Merging
<1> QED
  BY <1>5, <1>6 DEF PointInv

\* Within a row, without an insertion.
LEMMA PointSame ==
  ASSUME TypeOK, PointInv, pc \in RowLoops, pc' \in RowLoops, UNCHANGED <<types, castType, cast, castNext, castPrev, m, i, k, type>>,
         pc' = "loadcheck" => type # Own(m, TypeName)
  PROVE  PointInv'
<1>0. TypeName' = TypeName /\ Row' = Row
  BY DEF TypeName, Row
<1>1. \A c : (OwnStruct(c)' <=> OwnStruct(c)) /\ (Done(c)' <=> Done(c)) /\ (Unlinked(c)' <=> Unlinked(c))
  BY <1>0 DEF OwnStruct, Done, AtWork, Unlinked
<1>2. LateKept' /\ ToLoaded' /\ Pointed' /\ ListedDone'
  BY <1>1 DEF PointInv, LateKept, ToLoaded, Pointed, ListedDone
<1>3. Merging'
  BY <1>0 DEF Merging
<1> QED
  BY <1>2, <1>3 DEF PointInv

\* A cast is dealt with: inserted or found.  Its pointer is the generated one or that
\* of a loaded structure.
LEMMA PointRow ==
  ASSUME TableInv, NotFilled, PointInv, pc \in RowLoops, pc' = "cast", k \in 1 .. Len(Row), k' = k + 1,
         UNCHANGED <<types, m, i, type>>,
         \A d \in Cast : d # ThisCast => castType'[d] = castType[d] /\ (Unlinked(d) => Unlinked(d)'),
         castType'[ThisCast] = castType[ThisCast] \/ type = Own(m, TypeName),
         castType'[ThisCast] # Own(m, ThisCast.from) => \E y \in Modules : castType'[ThisCast] = types[y][ThisCast.from],
         type = Own(m, TypeName) =>
           \A y \in Modules : types[y][ThisCast.from] # Null => castType'[ThisCast] = types[y][ThisCast.from]
  PROVE  PointInv'
<1>0. TypeName' = TypeName /\ Row' = Row
  BY DEF TypeName, Row
<1>h. /\ ThisCast \in Cast /\ ThisCast.owner = m /\ ThisCast.to = TypeName /\ ThisCast.from = Row[k]
      /\ m \in Modules /\ TypeName \in Names /\ types[m][TypeName] = Null /\ k \in Nat
  BY ThisCastIsCast, AtHand DEF TableInv, RowLoops
<1>1. \A c \in Cast : OwnStruct(c)' <=> OwnStruct(c)
  BY <1>0 DEF OwnStruct, AtWork, RowLoops
<1>2. \A c \in Cast : Done(c) => Done(c)'
  <2>1. \A b \in 1 .. k - 1 : b \in 1 .. k' - 1
    BY <1>h
  <2> QED
    BY <1>0, <2>1 DEF Done, AtWork, RowLoops
<1>3. ASSUME NEW c, c = ThisCast PROVE Done(c)'
  <2>1. k \in 1 .. k' - 1
    BY <1>h
  <2> QED
    BY <1>0, <1>3, <1>h, <2>1 DEF Done, AtWork, RowLoops
<1>4. ASSUME NEW c \in Cast, c # ThisCast, Done(c)' PROVE Done(c)
  <2>1. CASE types[c.owner][c.to] # Null
    BY <2>1 DEF Done
  <2>2. CASE c.owner = m /\ c.to = TypeName /\ \E b \in 1 .. k' - 1 : Row[b] = c.from
    <3>1. PICK b \in 1 .. k' - 1 : Row[b] = c.from
      BY <2>2
    <3>2. b # k
      BY <1>4, <2>2, <3>1 DEF ThisCast, Cast
    <3>3. b \in 1 .. k - 1
      BY <1>h, <3>1, <3>2
    <3> QED
      BY <2>2, <3>1, <3>3 DEF Done, AtWork
  <2> QED
    BY <1>0, <1>4, <2>1, <2>2 DEF Done, AtWork
<1>5. LateKept'
  <2> SUFFICES ASSUME NEW c \in Cast, castType'[c] # Own(c.owner, c.from) PROVE OwnStruct(c)
    BY <1>1 DEF LateKept, Own
  <2>1. CASE castType'[c] = castType[c]
    BY <2>1 DEF PointInv, LateKept
  <2>2. CASE castType'[c] # castType[c]
    <3>1. c = ThisCast /\ type = Own(m, TypeName)
      BY <2>2
    <3> QED
      BY <1>h, <3>1 DEF OwnStruct, AtWork
  <2> QED
    BY <2>1, <2>2
<1>6. ToLoaded'
  <2> SUFFICES ASSUME NEW c \in Cast, castType'[c] # Own(c.owner, c.from)
               PROVE  \E y \in Modules : castType'[c] = types[y][c.from]
    BY DEF ToLoaded, Own
  <2>1. CASE c = ThisCast
    BY <1>h, <2>1
  <2>2. CASE c # ThisCast
    BY <2>2 DEF PointInv, ToLoaded
  <2> QED
    BY <2>1, <2>2
<1>7. Pointed'
  <2> SUFFICES ASSUME NEW c \in Emitted, OwnStruct(c), Done(c)', NEW y \in Modules, types[y][c.from] # Null
               PROVE  castType'[c] = types[y][c.from]
    <3>1. \A c \in Emitted : c \in Cast
      BY DEF Emitted
    <3> QED
      BY <1>1, <3>1 DEF Pointed
  <2>0. c \in Cast
    BY DEF Emitted
  <2>1. CASE c = ThisCast
    <3>1. type = Own(m, TypeName)
      BY <1>h, <2>1, TypeTableAssumption DEF OwnStruct, AtWork, Own, Type
    <3> QED
      BY <2>1, <3>1
  <2>2. CASE c # ThisCast
    BY <1>4, <2>0, <2>2 DEF PointInv, Pointed
  <2> QED
    BY <2>1, <2>2
<1>8. ListedDone'
  <2> SUFFICES ASSUME NEW c \in Cast, ~ Unlinked(c)' PROVE Done(c)'
    BY DEF ListedDone
  <2>1. CASE c = ThisCast
    BY <1>3, <2>1
  <2>2. CASE c # ThisCast
    BY <1>2, <2>2 DEF PointInv, ListedDone
  <2> QED
    BY <2>1, <2>2
<1>9. Merging'
  BY DEF Merging
<1> QED
  BY <1>5, <1>6, <1>7, <1>8, <1>9 DEF PointInv

\* At the end of a row the structure is that of m too.  When it is new, no other module
\* has its type, so no cast points at another structure of that name.
LEMMA PointRowEnds ==
  ASSUME TableInv, NotFilled, Agree, TypeRight, TypesNamed, HandOK, PointInv, NextCast, k > Len(Row)
  PROVE  PointInv'
<1>0. /\ pc = "cast" /\ pc' = "type" /\ type \in Type /\ type # Null
      /\ types' = [types EXCEPT ![m][TypeName] = type]
      /\ UNCHANGED <<cast, castType, castNext, castPrev>>
      /\ types \in [Modules -> [Names -> Type \cup {Null}]] /\ castType \in [Cast -> Type]
  BY TypeTableAssumption DEF NextCast, lists, TableInv, ControlOK, TypeOK
<1>h. m \in Modules /\ i \in 1 .. Len(TypeInitial[m]) /\ TypeName \in Names /\ types[m][TypeName] = Null
  BY <1>0, AtHand
<1>1. \A y \in Modules, n \in Names : types'[y][n] = IF y = m /\ n = TypeName THEN type ELSE types[y][n]
  BY <1>0, <1>h
<1>2. type.name = TypeName /\ (type = Own(m, TypeName) \/ \E y \in Modules : types[y][TypeName] = type)
  BY <1>0 DEF HandOK, RowLoops
<1>3. k - 1 = Len(Row)
  <2>1. Len(Row) \in Nat
    BY <1>h, TypeTableAssumption DEF Row
  <2>2. k \in 1 .. Len(Row) + 1
    BY <1>0 DEF TableInv, ControlOK
  <2> QED
    BY <2>1, <2>2
<1>c. \A c \in Cast : c.owner \in Modules /\ c.to \in Names /\ c.from \in Names
  BY DEF Cast
<1>e. \A c \in Emitted : c \in Cast
  BY DEF Emitted
<1>4. ASSUME NEW c \in Cast PROVE OwnStruct(c)' <=> OwnStruct(c)
  <2>1. CASE c.owner = m /\ c.to = TypeName
    <3>1. types'[c.owner][c.to] = type /\ types[c.owner][c.to] = Null
      BY <1>1, <1>h, <2>1
    <3>2. Own(m, TypeName) # Null
      BY <1>h, TypeTableAssumption DEF Own, Type
    <3> QED
      BY <1>0, <2>1, <3>1, <3>2 DEF OwnStruct, AtWork, RowLoops
  <2>2. CASE ~ (c.owner = m /\ c.to = TypeName)
    BY <1>0, <1>1, <1>c, <2>2 DEF OwnStruct, AtWork, RowLoops
  <2> QED
    BY <2>1, <2>2
<1>5. ASSUME NEW c \in Cast, Done(c) PROVE Done(c)'
  BY <1>0, <1>1, <1>c, <1>5, <1>h DEF Done, AtWork
<1>6. ASSUME NEW c \in Emitted, Done(c)' PROVE Done(c)
  <2>1. types'[c.owner][c.to] # Null
    BY <1>0, <1>6 DEF Done, AtWork, RowLoops
  <2>2. CASE c.owner = m /\ c.to = TypeName
    <3>1. PICK b \in 1 .. Len(CastInitial[m][TypeName]) : CastInitial[m][TypeName][b] = c.from
      BY <2>2 DEF Emitted
    <3>2. b \in 1 .. k - 1 /\ Row[b] = c.from
      BY <1>3, <3>1 DEF Row
    <3> QED
      BY <1>0, <2>2, <3>2 DEF Done, AtWork, RowLoops
  <2>3. CASE ~ (c.owner = m /\ c.to = TypeName)
    BY <1>1, <1>c, <1>e, <2>1, <2>3 DEF Done
  <2> QED
    BY <2>2, <2>3
<1>7. LateKept'
  BY <1>0, <1>4 DEF PointInv, LateKept, Own
<1>8. ToLoaded'
  <2> SUFFICES ASSUME NEW c \in Cast, castType[c] # Own(c.owner, c.from)
               PROVE  \E y \in Modules : castType[c] = types'[y][c.from]
    BY <1>0 DEF ToLoaded, Own
  <2>1. PICK y \in Modules : castType[c] = types[y][c.from]
    BY DEF PointInv, ToLoaded
  <2>2. types[y][c.from] # Null
    BY <1>0, <2>1, TypeTableAssumption
  <2>3. types'[y][c.from] = types[y][c.from]
    BY <1>1, <1>c, <1>h, <2>2
  <2> QED
    BY <2>1, <2>3
<1>9. Pointed'
  <2> SUFFICES ASSUME NEW c \in Emitted, OwnStruct(c), Done(c), NEW y \in Modules, types'[y][c.from] # Null
               PROVE  castType[c] = types'[y][c.from]
    BY <1>0, <1>4, <1>6, <1>e DEF Pointed
  <2>0. c \in Cast /\ c.from \in Names /\ c.owner \in Modules /\ c.to \in Names
    BY <1>c, <1>e
  <2>1. \A z \in Modules : types[z][c.from] # Null => castType[c] = types[z][c.from]
    BY DEF PointInv, Pointed
  <2>2. CASE ~ (y = m /\ c.from = TypeName)
    BY <1>1, <2>0, <2>1, <2>2
  <2>3. CASE y = m /\ c.from = TypeName
    <3>1. types'[y][c.from] = type
      BY <1>1, <1>h, <2>3
    <3>2. CASE \E z \in Modules : types[z][TypeName] = type
      BY <1>0, <2>1, <2>3, <3>1, <3>2
    <3>3. CASE \A z \in Modules : types[z][TypeName] # type
      <4>1. type = Own(m, TypeName)
        BY <1>2, <3>3
      <4>2. \A z \in Modules : types[z][TypeName] = Null
        BY <1>0, <3>3 DEF TypeRight
      <4>3. castType[c] = Own(c.owner, c.from)
        <5>1. castType[c] # Null
          BY <1>0, <2>0, TypeTableAssumption
        <5> QED
          BY <2>0, <2>3, <4>2, <5>1 DEF PointInv, ToLoaded
      <4>4. c.owner = m
        <5> SUFFICES ASSUME c.owner # m PROVE FALSE
          OBVIOUS
        <5>1. next[c.owner] # Null
          BY <2>0 DEF Done, AtWork, NotFilled
        <5>2. PICK b \in 1 .. Len(TypeInitial[c.owner]) : TypeInitial[c.owner][b] = c.from
          BY <2>0, CastTypesAssumption DEF Emitted
        <5>3. types[c.owner][TypeInitial[c.owner][b]] # Null
          BY <2>0, <5>1 DEF TableInv, TypesFilled
        <5> QED
          BY <2>0, <2>3, <4>2, <5>2, <5>3
      <4> QED
        BY <2>3, <3>1, <4>1, <4>3, <4>4
    <3> QED
      BY <3>2, <3>3
  <2> QED
    BY <2>2, <2>3
<1>10. ListedDone'
  <2>1. \A c : Unlinked(c)' <=> Unlinked(c)
    BY <1>0 DEF Unlinked
  <2> QED
    BY <1>5, <2>1 DEF PointInv, ListedDone
<1>11. Merging'
  BY <1>0 DEF Merging
<1> QED
  BY <1>7, <1>8, <1>9, <1>10, <1>11 DEF PointInv

\* A cast type that no other module has is that of m, if it is loaded at all.
LEMMA OnlyOwn ==
  ASSUME TypeOK, TypesNamed, m \in Modules, NEW n \in Names, \A y \in Modules : y # m => types[y][n] = Null,
         NEW y \in Modules, types[y][n] # Null
  PROVE  types[y][n] = Own(m, n)
<1>1. PICK t : t = types[y][n]
  OBVIOUS
<1>2. t \in Type /\ t.name = n /\ types[t.owner][n] = t /\ t # Null
  BY <1>1 DEF TypesNamed, TypeOK
<1>3. t.owner = m
  BY <1>2 DEF Type
<1> QED
  BY <1>1, <1>2, <1>3 DEF Own, Type

LEMMA PointAlone ==
  ASSUME TableInv, NotFilled, TypesNamed, PointInv, pc \in RowLoops, k \in 1 .. Len(Row),
         LinkAtHead(ThisCast), NextInRow, UNCHANGED <<types, castType, m, i, type>>,
         \A y \in Modules : y # m => types[y][ThisCast.from] = Null
  PROVE  PointInv'
<1>0. pc' = "cast" /\ k' = k + 1
  BY DEF NextInRow
<1>1. ThisCast \in Cast /\ ThisCast.owner = m /\ ThisCast.from \in Names /\ m \in Modules
  BY ThisCastIsCast DEF TableInv, RowLoops, ControlOK
<1>2. \A d \in Cast : d # ThisCast => (Unlinked(d) => Unlinked(d)')
  BY <1>1, ThisCastIsFresh, LinkAtHeadOK, RowFacts DEF TableInv, RowLoops
<1>3. \A y \in Modules : types[y][ThisCast.from] # Null => types[y][ThisCast.from] = Own(m, ThisCast.from)
  BY <1>1, OnlyOwn DEF TableInv
<1>4. castType[ThisCast] \in Type /\ castType[ThisCast] # Null
  BY <1>1, TypeTableAssumption DEF TableInv, TypeOK
<1>5. castType[ThisCast] = Own(m, ThisCast.from)
  <2> SUFFICES ASSUME castType[ThisCast] # Own(m, ThisCast.from) PROVE FALSE
    OBVIOUS
  <2>1. PICK y \in Modules : castType[ThisCast] = types[y][ThisCast.from]
    BY <1>1 DEF PointInv, ToLoaded
  <2> QED
    BY <1>3, <1>4, <2>1
<1> QED
  BY <1>0, <1>2, <1>3, <1>5, PointRow

LEMMA PointNextCast ==
  ASSUME NEW x \in Interps, TableInv, OneInv(x), ListInv(x), PointInv, NextCast
  PROVE  PointInv'
<1>0. pc = "cast" /\ UNCHANGED <<next, head, m>> /\ NotFilled /\ RingOK(x) /\ Agree /\ TypeRight /\ TypesNamed /\ HandOK
  BY DEF NextCast, OneInv, ListInv
<1>1. CASE k > Len(Row)
  BY <1>0, <1>1, PointRowEnds
<1>2. CASE ~ (k > Len(Row)) /\ next[m] # m
  <2>1. pc' = "castquery" /\ UNCHANGED <<types, castType, cast, castNext, castPrev, i, k, type>>
    BY <1>2 DEF NextCast, lists
  <2> QED
    BY <1>0, <2>1, PointSame DEF TableInv, RowLoops
<1>3. CASE ~ (k > Len(Row)) /\ next[m] = m
  <2>1. LinkAtHead(ThisCast) /\ NextInRow /\ UNCHANGED <<types, castType, i, type>>
    BY <1>3 DEF NextCast
  <2>2. k \in 1 .. Len(Row)
    <3>1. m \in Modules /\ TypeName \in Names /\ k \in 1 .. Len(Row) + 1
      BY <1>0, AtHand DEF TableInv, ControlOK
    <3>2. Len(Row) \in Nat
      BY <3>1, TypeTableAssumption DEF Row
    <3> QED
      BY <1>3, <3>1, <3>2
  <2>3. \A y \in Modules : y # m => next[y] = Null
    BY <1>0, <1>3, Alone DEF Loading
  <2>4. ThisCast.from \in Names
    BY <1>0, <2>2, ThisCastIsCast DEF TableInv
  <2>5. \A y \in Modules : y # m => types[y][ThisCast.from] = Null
    BY <1>0, <2>3, <2>4 DEF NotFilled
  <2> QED
    BY <1>0, <2>1, <2>2, <2>5, PointAlone DEF RowLoops
<1> QED
  BY <1>1, <1>2, <1>3

LEMMA PointQueryCast ==
  ASSUME NEW x \in Interps, TableInv, OneInv(x), ListInv(x), PointInv, QueryCast
  PROVE  PointInv'
<1>0. /\ pc = "castquery" /\ UNCHANGED <<next, head, types, m, i, type>> /\ NotFilled /\ k \in 1 .. Len(Row)
      /\ TypeOK /\ iter \in Modules /\ Agree /\ TypesNamed /\ CastQueryOK(x)
  BY DEF QueryCast, OneInv, ListInv, TableInv, ControlOK
<1>h. ThisCast \in Cast /\ ThisCast.from \in Names /\ ThisCast.owner = m
  BY <1>0, ThisCastIsCast DEF TableInv
<1>1. CASE types[iter][ThisCast.from] # Null /\ type = Own(m, TypeName)
  <2>1. /\ castType' = [castType EXCEPT ![ThisCast] = types[iter][ThisCast.from]]
        /\ LinkAtHead(ThisCast) /\ NextInRow
    BY <1>0, <1>1 DEF QueryCast
  <2>2. pc' = "cast" /\ k' = k + 1
    BY <2>1 DEF NextInRow
  <2>3. castType'[ThisCast] = types[iter][ThisCast.from] /\ \A d \in Cast : d # ThisCast => castType'[d] = castType[d]
    BY <1>0, <1>h, <2>1 DEF TypeOK
  <2>4. \A d \in Cast : d # ThisCast => (Unlinked(d) => Unlinked(d)')
    BY <1>0, <1>h, <2>1, ThisCastIsFresh, LinkAtHeadOK, RowFacts DEF TableInv, RowLoops
  <2>5. \A y \in Modules : types[y][ThisCast.from] # Null => castType'[ThisCast] = types[y][ThisCast.from]
    BY <1>0, <1>1, <1>h, <2>3 DEF Agree
  <2> QED
    BY <1>0, <1>1, <2>2, <2>3, <2>4, <2>5, PointRow DEF RowLoops
<1>2. CASE types[iter][ThisCast.from] # Null /\ type # Own(m, TypeName)
  <2>1. pc' = "loadcheck" /\ UNCHANGED <<cast, castType, castNext, castPrev, k>>
    BY <1>0, <1>2 DEF QueryCast, lists
  <2> QED
    BY <1>0, <1>2, <2>1, PointSame DEF RowLoops
<1>3. CASE types[iter][ThisCast.from] = Null /\ next[iter] # m
  <2>1. pc' = "castquery" /\ UNCHANGED <<cast, castType, castNext, castPrev, k>>
    BY <1>0, <1>3 DEF QueryCast, lists
  <2> QED
    BY <1>0, <2>1, PointSame DEF RowLoops
<1>4. CASE types[iter][ThisCast.from] = Null /\ next[iter] = m
  <2>1. LinkAtHead(ThisCast) /\ NextInRow /\ UNCHANGED castType
    BY <1>0, <1>4 DEF QueryCast
  <2>2. \A y \in Modules : y # m => types[y][ThisCast.from] = Null
    BY <1>0, <1>4, <1>h, CastQueryEnds
  <2> QED
    BY <1>0, <2>1, <2>2, PointAlone DEF RowLoops
<1> QED
  BY <1>1, <1>2, <1>3, <1>4

LEMMA PointLoadCheck ==
  ASSUME TableInv, NotFilled, PointInv, LoadCheck
  PROVE  PointInv'
<1>0. /\ pc = "loadcheck" /\ UNCHANGED <<types, castType, m, i, type>> /\ k \in 1 .. Len(Row) /\ TypeOK /\ WellLinked
      /\ type # Own(m, TypeName) /\ citer \in Cast \cup {Null}
  BY DEF LoadCheck, TableInv, ControlOK, TypeOK, PointInv, Merging
<1>h. ThisCast \in Cast /\ ThisCast.owner = m /\ ThisCast.to = TypeName /\ m \in Modules /\ type \in Type
  BY <1>0, ThisCastIsCast, RowFacts DEF TableInv, ControlOK
<1>1. CASE citer = Null \/ castType[citer].name = want
  <2>1. NextInRow /\ (LinkAtHead(ThisCast) \/ (citer # Null /\ MoveToFront(citer)))
    BY <1>1 DEF LoadCheck
  <2>2. pc' = "cast" /\ k' = k + 1
    BY <2>1 DEF NextInRow
  <2>3. \A d \in Cast : d # ThisCast => (Unlinked(d) => Unlinked(d)')
    <3>1. CASE LinkAtHead(ThisCast)
      BY <1>0, <1>h, <3>1, ThisCastIsFresh, LinkAtHeadOK DEF TableInv
    <3>2. CASE citer # Null /\ MoveToFront(citer)
      <4>1. citer # cast[type] => castPrev[citer] # Null
        BY <1>0, <3>2 DEF TableInv, PrevIsThere
      <4> QED
        BY <1>0, <1>h, <3>2, <4>1, MoveToFrontOK
    <3> QED
      BY <2>1, <3>1, <3>2
  <2>4. castType'[ThisCast] # Own(m, ThisCast.from) => \E y \in Modules : castType'[ThisCast] = types[y][ThisCast.from]
    BY <1>0, <1>h DEF PointInv, ToLoaded
  <2> QED
    BY <1>0, <2>2, <2>3, <2>4, PointRow DEF RowLoops
<1>2. CASE citer # Null /\ castType[citer].name # want
  <2>1. pc' = "loadcheck" /\ UNCHANGED <<cast, castNext, castPrev, k>>
    BY <1>0, <1>2 DEF LoadCheck
  <2> QED
    BY <1>0, <2>1, PointSame DEF RowLoops
<1> QED
  BY <1>1, <1>2

LEMMA PointTypes ==
  ASSUME TableInv, NotFilled, PointInv, NextType \/ QueryType
  PROVE  PointInv'
<1>0. pc \in {"type", "typequery"} /\ UNCHANGED <<types, lists, m, i>> /\ TypeOK
  BY DEF NextType, QueryType, TableInv
<1>1. CASE pc' # "cast"
  <2>1. pc \notin RowLoops /\ pc' \notin RowLoops
    BY <1>0, <1>1 DEF NextType, QueryType, StartRow, RowLoops
  <2>2. \A d \in Cast : Unlinked(d) => Unlinked(d)'
    BY <1>0 DEF Unlinked, lists
  <2> QED
    BY <1>0, <2>1, <2>2, PointQuiet DEF lists
<1>2. CASE pc' = "cast"
  <2>1. \E t : StartRow(t)
    BY <1>2 DEF NextType, QueryType
  <2>2. pc = "typequery" \/ (pc = "type" /\ i \in 1 .. Len(TypeInitial[m]))
    <3>1. CASE NextType
      <4>1. m \in Modules /\ i \in 1 .. Len(TypeInitial[m]) + 1 /\ ~ (i > Len(TypeInitial[m]))
        BY <1>2, <3>1 DEF NextType, TableInv, ControlOK
      <4>2. Len(TypeInitial[m]) \in Nat
        BY <4>1, TypeTableAssumption
      <4> QED
        BY <3>1, <4>1, <4>2 DEF NextType
    <3>2. CASE QueryType
      BY <3>2 DEF QueryType
    <3> QED
      BY <3>1, <3>2
  <2> QED
    BY <1>0, <2>1, <2>2, PointStartRow
<1> QED
  BY <1>1, <1>2

\* Everything else.
LEMMA PointOthers ==
  ASSUME TableInv, PointInv,
         \/ \E y \in Interps, mod \in Modules : InitializeModule(y, mod)
         \/ AlreadyInList \/ WalkModules \/ PropagateClientData \/ PropagateType \/ PropagateCast
         \/ \E t \in Loaded, d \in Data : TypeClientData(t, d)
         \/ \E t \in Loaded, n \in Names : TypeCheck(t, n)
         \/ \E t, from \in Loaded : TypeCheckStruct(t, from)
  PROVE  PointInv'
<1>1. pc \notin RowLoops /\ pc' \notin RowLoops /\ UNCHANGED <<types, cast, castType, castNext, castPrev>> /\ TypeOK
  BY DEF InitializeModule, AlreadyInList, WalkModules, PropagateClientData, PropagateType, PropagateCast,
     TypeClientData, TypeCheck, TypeCheckStruct, StartCheck, Return, lists, RowLoops, TableInv
<1>2. \A d \in Cast : Unlinked(d) => Unlinked(d)'
  BY <1>1 DEF Unlinked
<1> QED
  BY <1>1, <1>2, PointQuiet

LEMMA PointCheckCast ==
  ASSUME TableInv, PointInv, CheckCast
  PROVE  PointInv'
<1>1. /\ pc \in {"checkname", "checkstruct"} /\ pc' \notin RowLoops /\ UNCHANGED <<types, castType>> /\ TypeOK /\ WellLinked
      /\ type \in Type /\ citer \in Cast \cup {Null}
  BY DEF CheckCast, Return, RowLoops, TableInv, TypeOK, ControlOK
<1>2. \A d \in Cast : Unlinked(d) => Unlinked(d)'
  <2>1. CASE UNCHANGED <<cast, castNext, castPrev>>
    BY <2>1 DEF Unlinked
  <2>2. CASE citer # Null /\ MoveToFront(citer)
    <3>1. citer # cast[type] => castPrev[citer] # Null
      BY <1>1, <2>2 DEF TableInv, PrevIsThere
    <3> QED
      BY <1>1, <2>2, <3>1, MoveToFrontOK
  <2> QED
    BY <2>1, <2>2 DEF CheckCast
<1> QED
  BY <1>1, <1>2, PointQuiet DEF RowLoops

LEMMA PointStutter == ASSUME PointInv, UNCHANGED vars PROVE PointInv'
<1>0. UNCHANGED <<types, cast, castType, castNext, castPrev, pc, m, i, k, type>> /\ TypeName' = TypeName /\ Row' = Row
  BY DEF vars, TypeName, Row
<1>1. \A c : (OwnStruct(c)' <=> OwnStruct(c)) /\ (Done(c)' <=> Done(c)) /\ (Unlinked(c)' <=> Unlinked(c))
  BY <1>0 DEF OwnStruct, Done, AtWork, Unlinked
<1>2. LateKept' /\ ToLoaded' /\ Pointed' /\ ListedDone'
  BY <1>0, <1>1 DEF PointInv, LateKept, ToLoaded, Pointed, ListedDone
<1>3. Merging'
  BY <1>0 DEF PointInv, Merging
<1> QED
  BY <1>2, <1>3 DEF PointInv

LEMMA PointInit == Init => PointInv
<1> SUFFICES ASSUME Init PROVE PointInv
  OBVIOUS
<1>1. LateKept /\ ToLoaded
  BY DEF Init, LateKept, ToLoaded, Own
<1>2. Pointed
  <2> SUFFICES ASSUME NEW c \in Emitted, OwnStruct(c), Done(c) PROVE FALSE
    BY DEF Pointed
  <2>1. c \in Cast /\ c.owner \in Modules /\ c.to \in Names
    BY DEF Emitted, Cast
  <2> QED
    BY <2>1 DEF Init, Done, AtWork, RowLoops
<1>3. ListedDone
  BY TypeTableAssumption DEF Init, ListedDone, Unlinked
<1>4. Merging
  BY DEF Init, Merging
<1> QED
  BY <1>1, <1>2, <1>3, <1>4 DEF PointInv

LEMMA PointNext ==
  ASSUME NEW x \in Interps
  PROVE  TableInv /\ OneInv(x) /\ ListInv(x) /\ PointInv /\ [Next]_vars => PointInv'
<1> SUFFICES ASSUME TableInv, OneInv(x), ListInv(x), PointInv, [Next]_vars PROVE PointInv'
  OBVIOUS
<1>0. NotFilled
  BY DEF OneInv
<1>1. CASE \/ \E y \in Interps, mod \in Modules : InitializeModule(y, mod)
           \/ AlreadyInList \/ WalkModules \/ PropagateClientData \/ PropagateType \/ PropagateCast
           \/ \E t \in Loaded, d \in Data : TypeClientData(t, d)
           \/ \E t \in Loaded, n \in Names : TypeCheck(t, n)
           \/ \E t, from \in Loaded : TypeCheckStruct(t, from)
  BY <1>1, PointOthers
<1>2. CASE NextType \/ QueryType
  BY <1>0, <1>2, PointTypes
<1>3. CASE NextCast \/ QueryCast \/ LoadCheck
  BY <1>0, <1>3, PointNextCast, PointQueryCast, PointLoadCheck
<1>4. CASE CheckCast
  BY <1>4, PointCheckCast
<1>5. CASE UNCHANGED vars
  BY <1>5, PointStutter
<1> QED
  BY <1>1, <1>2, <1>3, <1>4, <1>5 DEF Next, Step

LEMMA PointInvariant == ASSUME NEW x \in Interps, Interps = {x} PROVE Spec => []PointInv
  BY PointInit, PointNext, TableInvariant, OneInvariant, ListInvariant, PTL DEF Spec

\* Between calls a listed cast points where CastsComplete says.
LEMMA ListedPoint ==
  ASSUME TableInv, NotFilled, TypesNamed, PointInv, pc = "idle", NEW t \in Type, NEW s, ListIs(t, s), NEW c \in ListOf(t)
  PROVE  castType[c] = CastFrom(c)
<1>1. PICK j \in 1 .. Len(s) : c = s[j]
  BY ListOfIs
<1>2. c \in Emitted /\ c \in Cast /\ c.owner \in Modules /\ c.to \in Names /\ c.from \in Names
  BY <1>1, ListCasts DEF TableInv, Cast
<1>3. ~ Unlinked(c)
  BY <1>1, FreshOnNone DEF TableInv
<1>4. Done(c) /\ types[c.owner][c.to] # Null
  BY <1>2, <1>3 DEF PointInv, ListedDone, Done, AtWork, RowLoops
<1>5. types[c.owner][c.from] # Null
  <2>1. PICK b \in 1 .. Len(TypeInitial[c.owner]) : TypeInitial[c.owner][b] = c.from
    BY <1>2, CastTypesAssumption DEF Emitted
  <2>2. next[c.owner] # Null
    BY <1>2, <1>4 DEF NotFilled
  <2> QED
    BY <1>2, <2>1, <2>2 DEF TableInv, TypesFilled, Filling
<1>6. \A n \in Names : types[c.owner][n] # Null => (types[c.owner][n].owner = c.owner <=> types[c.owner][n] = Own(c.owner, n))
  <2>1. \A n \in Names : types[c.owner][n] # Null => types[c.owner][n] \in Type /\ types[c.owner][n].name = n
    BY <1>2 DEF TypesNamed, TableInv, TypeOK
  <2> QED
    BY <2>1 DEF Own, Type
<1>7. CASE OwnStruct(c)
  <2>1. types[c.owner][c.to] = Own(c.owner, c.to)
    BY <1>7 DEF OwnStruct, AtWork, RowLoops
  <2>2. ~ Late(c)
    BY <1>2, <1>4, <1>6, <2>1 DEF Late
  <2>3. castType[c] = types[c.owner][c.from]
    BY <1>2, <1>4, <1>5, <1>7 DEF PointInv, Pointed
  <2> QED
    BY <2>2, <2>3 DEF CastFrom
<1>8. CASE ~ OwnStruct(c)
  <2>1. castType[c] = Own(c.owner, c.from) /\ types[c.owner][c.to].owner # c.owner
    BY <1>2, <1>4, <1>6, <1>8 DEF PointInv, LateKept, OwnStruct
  <2>2. CASE types[c.owner][c.from].owner = c.owner
    BY <1>2, <1>5, <1>6, <2>1, <2>2 DEF CastFrom, Late
  <2>3. CASE types[c.owner][c.from].owner # c.owner
    BY <2>1, <2>3 DEF CastFrom, Late
  <2> QED
    BY <2>2, <2>3
<1> QED
  BY <1>7, <1>8

\* The lists as CastsComplete counts them.
LEMMA ListCounts ==
  ASSUME NEW t, NEW s, ListIs(t, s), CastNamed
  PROVE  /\ {castType[c].name : c \in ListOf(t)} = Froms(s)
         /\ Cardinality(ListOf(t)) = Cardinality(Froms(s))
<1>1. PICK n, S, F : n = Len(s) /\ S = ListOf(t) /\ F = Froms(s)
  OBVIOUS
<1>2. S = {s[j] : j \in 1 .. n} /\ F = {s[j].from : j \in 1 .. n}
  BY <1>1, ListOfIs DEF Froms
<1>3. n \in Nat /\ 1 \in Int /\ n \in Int /\ \A j \in 1 .. n : s[j] \in Cast
  <2>1. s \in Seq(Emitted) /\ n \in Nat
    BY <1>1 DEF ListIs, Linked
  <2>2. \A c \in Emitted : c \in Cast
    BY DEF Emitted
  <2> QED
    BY <1>1, <2>1, <2>2
<1>4. \A a, b \in 1 .. n : s[a].from = s[b].from => a = b
  BY <1>1 DEF ListIs, Linked
<1>5. \A j \in 1 .. n : castType[s[j]].name = s[j].from
  BY <1>3 DEF CastNamed
<1>6. {castType[c].name : c \in S} = F
  <2>1. \A c \in S : castType[c].name \in F
    BY <1>2, <1>5
  <2>2. \A z \in F : \E c \in S : z = castType[c].name
    BY <1>2, <1>5
  <2> QED
    BY <2>1, <2>2
<1>7. IsFiniteSet(1 .. n)
  BY <1>3, FS_Interval
<1>8. Cardinality(S) = Cardinality(1 .. n)
  <2> DEFINE f == [j \in 1 .. n |-> s[j]]
  <2>1. f \in [1 .. n -> S] /\ (\A y \in S : \E j \in 1 .. n : f[j] = y) /\ \A a, b \in 1 .. n : f[a] = f[b] => a = b
    BY <1>2, <1>4
  <2> HIDE DEF f
  <2>2. f \in Surjection(1 .. n, S) /\ f \in Injection(1 .. n, S)
    BY <2>1, Zenon DEF Surjection, Injection, IsInjective
  <2> QED
    BY <1>7, <2>2, FS_Surjection
<1>9. Cardinality(F) = Cardinality(1 .. n)
  <2> DEFINE f == [j \in 1 .. n |-> s[j].from]
  <2>1. f \in [1 .. n -> F] /\ (\A y \in F : \E j \in 1 .. n : f[j] = y) /\ \A a, b \in 1 .. n : f[a] = f[b] => a = b
    BY <1>2, <1>4
  <2> HIDE DEF f
  <2>2. f \in Surjection(1 .. n, F) /\ f \in Injection(1 .. n, F)
    BY <2>1, Zenon DEF Surjection, Injection, IsInjective
  <2> QED
    BY <1>7, <2>2, FS_Surjection
<1> QED
  BY <1>1, <1>6, <1>8, <1>9

\* In a process with one interpreter a loaded type can be cast from exactly the types
\* that some loaded module declares, each listed once and, unless it was merged late,
\* pointing at the structure in use, whatever the order in which modules were loaded
\* and checks moved casts to the front.
THEOREM ListsComplete == ASSUME NEW x \in Interps, Interps = {x} PROVE Spec => []CastsComplete
<1>1. TableInv /\ OneInv(x) /\ ListInv(x) /\ PointInv => CastsComplete
  <2> SUFFICES ASSUME TableInv, OneInv(x), ListInv(x), PointInv, pc = "idle", NEW t \in Loaded
               PROVE  LET declared == UNION {{CastInitial[y][t.name][j] : j \in 1 .. Len(CastInitial[y][t.name])} :
                                               y \in {z \in LoadedModules : types[z][t.name] # Null}}
                      IN  /\ {castType[c].name : c \in ListOf(t)} = declared
                          /\ Cardinality(ListOf(t)) = Cardinality(declared)
                          /\ \A c \in ListOf(t) : castType[c] = CastFrom(c)
    BY Zenon DEF CastsComplete
  <2> DEFINE declared == UNION {{CastInitial[y][t.name][j] : j \in 1 .. Len(CastInitial[y][t.name])} :
                                  y \in {z \in LoadedModules : types[z][t.name] # Null}}
  <2>1. PICK y \in Modules, n \in Names : t = types[y][n] /\ t # Null
    BY DEF Loaded
  <2>2. t \in Type /\ t.name = n
    BY <2>1 DEF ListInv, TypesNamed, TableInv, TypeOK
  <2>3. \A z \in Modules : types[z][n] # Null <=> types[z][n] = t
    BY <2>1 DEF OneInv, Agree
  <2>4. \A z \in Modules : types[z][n] # Null => z \in LoadedModules
    BY DEF OneInv, NotFilled, LoadedModules
  <2>5. PICK s : ListIs(t, s)
    BY <2>2 DEF ListInv, Lists
  <2>6. \A z : z \in Froms(s) <=> \E u \in Modules : types[u][n] = t /\ InRow(u, n, z)
    BY <2>2, <2>5 DEF ListIs, Declares, RowLoops
  <2>7. \A z : z \in declared <=> \E u \in LoadedModules : types[u][n] # Null /\ InRow(u, n, z)
    BY <2>2 DEF InRow
  <2>8. \A u \in LoadedModules : u \in Modules
    BY DEF LoadedModules
  <2>9. declared = Froms(s)
    <3> HIDE DEF declared
    <3>1. \A z : z \in declared <=> z \in Froms(s)
      BY <2>3, <2>4, <2>6, <2>7, <2>8
    <3> QED
      BY <3>1
  <2>10. {castType[c].name : c \in ListOf(t)} = Froms(s) /\ Cardinality(ListOf(t)) = Cardinality(Froms(s))
    BY <2>5, ListCounts DEF ListInv
  <2> HIDE DEF declared
  <2>11. {castType[c].name : c \in ListOf(t)} = declared /\ Cardinality(ListOf(t)) = Cardinality(declared)
    BY <2>9, <2>10
  <2>12. \A c \in ListOf(t) : castType[c] = CastFrom(c)
    BY <2>2, <2>5, ListedPoint DEF OneInv, ListInv
  <2> QED
    BY <2>11, <2>12, Zenon DEF declared
<1> QED
  BY <1>1, TableInvariant, OneInvariant, ListInvariant, PointInvariant, PTL
-----------------------------------------------------------------------------
(***************************************************************************)
(* Client data.  A type holds when it has no client data or all types that *)
(* can be cast to it without a converter have some.  All types hold but    *)
(* those of the module being loaded that its propagation has not reached.  *)
(***************************************************************************)
Holds(t) == clientdata[t] # Null => \A c \in ListOf(t) : ~ HasConverter(c) => clientdata[castType[c]] # Null

Slot(n, a) == \E b \in 1 .. Len(TypeInitial[m]) : b >= a /\ TypeInitial[m][b] = n

Exempt(n) ==
  \/ (Filling \/ (pc = "propagate" /\ m \notin initRun)) /\ Slot(n, 1)
  \/ pc \in {"proptype", "propcast"} /\ Slot(n, i)

AllHold == \A t \in Type : ~ Exempt(t.name) => Holds(t)

\* The propagation of a module has not run while its types are filled in.
NotRun ==
  /\ \A y \in Modules : next[y] = Null => y \notin initRun
  /\ Filling => m \notin initRun

DataInv == AllHold /\ NotRun

\* What a step that keeps the list of a type may do to client data.
LEMMA HoldsKept ==
  ASSUME NEW t \in Type, Holds(t), ListOf(t)' \subseteq ListOf(t),
         \A c \in ListOf(t) : castType'[c] = castType[c] /\ castType[c] \in Type,
         \A u \in Type : clientdata[u] # Null => clientdata'[u] # Null,
         \A c \in ListOf(t) :
           clientdata[t] = Null /\ clientdata'[t] # Null /\ ~ HasConverter(c) => clientdata'[castType[c]] # Null
  PROVE  Holds(t)'
<1>1. PICK L, K : L = ListOf(t) /\ K = ListOf(t)'
  OBVIOUS
<1>2. ASSUME clientdata'[t] # Null, NEW c \in K, ~ HasConverter(c) PROVE clientdata'[castType'[c]] # Null
  <2>1. c \in L /\ castType'[c] = castType[c] /\ castType[c] \in Type
    BY <1>1, <1>2
  <2>2. CASE clientdata[t] # Null
    BY <1>1, <1>2, <2>1, <2>2 DEF Holds
  <2>3. CASE clientdata[t] = Null
    BY <1>1, <1>2, <2>1, <2>3
  <2> QED
    BY <2>2, <2>3
<1> QED
  BY <1>1, <1>2 DEF Holds, HasConverter

\* The list of a type as a set, when the step keeps what is on it.
LEMMA ListOfKept ==
  ASSUME Lists, Kept, NEW t \in Type
  PROVE  ListOf(t)' \subseteq ListOf(t)
<1>1. PICK s : ListIs(t, s)
  BY DEF Lists
<1>2. PICK q : /\ Linked(cast'[t], castNext', q)
               /\ \A j \in 1 .. Len(q) : \E e \in 1 .. Len(s) : q[j] = s[e]
  BY <1>1 DEF Kept
<1>3. PICK c0, nx, n : c0 = cast'[t] /\ nx = castNext' /\ n = Cardinality(Emitted)
  OBVIOUS
<1>4. Len(q) <= n
  BY <1>2, <1>3, LinkedLength
<1>5. Walked(c0, nx, n) = {q[j] : j \in 1 .. Len(q)}
  BY <1>2, <1>3, <1>4, WalkedIs, FiniteCasts
<1>6. ListOf(t)' = Walked(cast'[t], castNext', Cardinality(Emitted))
  BY DEF ListOf, Walked
<1>7. ListOf(t)' = {q[j] : j \in 1 .. Len(q)}
  BY <1>3, <1>5, <1>6
<1>8. ListOf(t) = {s[j] : j \in 1 .. Len(s)}
  BY <1>1, ListOfIs
<1> QED
  BY <1>2, <1>7, <1>8

\* The types of the casts on a list.
LEMMA CastTypes ==
  ASSUME TableInv, Lists, NEW t \in Type, NEW c \in ListOf(t)
  PROVE  castType[c] \in Type
  BY ListOfCasts DEF TableInv, TypeOK

\* A step that leaves client data alone and exempts no type less.
LEMMA DataQuiet ==
  ASSUME TableInv, Lists, AllHold, Kept, UNCHANGED <<castType, clientdata>>, \A n \in Names : Exempt(n) => Exempt(n)'
  PROVE  AllHold'
<1> SUFFICES ASSUME NEW t \in Type, ~ Exempt(t.name)' PROVE Holds(t)'
  BY DEF AllHold
<1>1. Holds(t)
  BY DEF AllHold, Type
<1>2. ListOf(t)' \subseteq ListOf(t)
  BY ListOfKept
<1> QED
  BY <1>1, <1>2, CastTypes, HoldsKept

\* A step that spreads client data.
LEMMA DataSpread ==
  ASSUME TableInv, Lists, AllHold, UNCHANGED <<cast, castNext, castType>>, \A n \in Names : Exempt(n) => Exempt(n)',
         \A u \in Type : clientdata[u] # Null => clientdata'[u] # Null,
         \A u \in Type : \A c \in ListOf(u) :
           clientdata[u] = Null /\ clientdata'[u] # Null /\ ~ HasConverter(c) => clientdata'[castType[c]] # Null
  PROVE  AllHold'
<1> SUFFICES ASSUME NEW t \in Type, ~ Exempt(t.name)' PROVE Holds(t)'
  BY DEF AllHold
<1>1. Holds(t)
  BY DEF AllHold, Type
<1>2. ListOf(t)' \subseteq ListOf(t)
  BY KeptSame, ListOfKept
<1> QED
  BY <1>1, <1>2, CastTypes, HoldsKept

\* The insertion of a cast touches the list of the type at hand only.
LEMMA DataInsert ==
  ASSUME TableInv, Lists, HandOK, AllHold, pc \in RowLoops, k \in 1 .. Len(Row), LinkAtHead(ThisCast), pc' = "cast",
         UNCHANGED <<m, clientdata>>, \A d \in Cast : d # ThisCast => castType'[d] = castType[d]
  PROVE  AllHold'
<1>0. TypeOK /\ WellLinked /\ type \in Type /\ type.name = TypeName
  BY DEF TableInv, ControlOK, RowLoops, HandOK
<1>1. ThisCast \in Cast /\ Unlinked(ThisCast)
  BY ThisCastIsCast, ThisCastIsFresh DEF TableInv, RowLoops
<1>2. PICK d : d = ThisCast
  OBVIOUS
<1>3. /\ \A t \in Type : t # type => cast'[t] = cast[t]
      /\ \A c \in Cast : c # d => castNext'[c] = castNext[c]
  BY <1>0, <1>1, <1>2, LinkAtHeadIs
<1>n. PICK tn : tn = TypeName
  OBVIOUS
<1>4. Exempt(tn)' /\ \A n \in Names : Exempt(n) => Exempt(n)'
  <2>1. i \in 1 .. Len(TypeInitial[m]) /\ i >= 1
    BY DEF TableInv, ControlOK, RowLoops
  <2>2. Slot(tn, 1)
    BY <1>n, <2>1 DEF Slot, TypeName
  <2>3. \A n : Slot(n, 1)' <=> Slot(n, 1)
    BY DEF Slot
  <2>4. \A n : Exempt(n)' <=> Slot(n, 1)
    BY <2>3 DEF Exempt, Filling
  <2>5. \A n : Exempt(n) => Slot(n, 1)
    BY DEF Exempt, Filling, RowLoops
  <2> QED
    BY <2>2, <2>4, <2>5
<1> SUFFICES ASSUME NEW t \in Type, ~ Exempt(t.name)' PROVE Holds(t)'
  BY DEF AllHold
<1>5. t # type
  BY <1>0, <1>4, <1>n
<1>6. Holds(t)
  BY <1>4 DEF AllHold, Type
<1>7. PICK s : ListIs(t, s)
  BY DEF Lists
<1>8. \A j \in 1 .. Len(s) : s[j] \in Cast /\ s[j] # d
  <2>1. Unlinked(d)
    BY <1>1, <1>2
  <2>2. \A j \in 1 .. Len(s) : s[j] # d
    BY <1>0, <1>7, <2>1, FreshOnNone
  <2> QED
    BY <1>0, <1>7, <2>2, ListCasts
<1>9. ListOf(t) = {s[j] : j \in 1 .. Len(s)}
  BY <1>7, ListOfIs
<1>10. ListOf(t)' = {s[j] : j \in 1 .. Len(s)}
  <2>1. PICK c0, nx, ny, n : c0 = cast[t] /\ nx = castNext /\ ny = castNext' /\ n = Cardinality(Emitted)
    OBVIOUS
  <2>2. Linked(c0, nx, s) /\ \A j \in 1 .. Len(s) : ny[s[j]] = nx[s[j]]
    BY <1>3, <1>7, <1>8, <2>1 DEF ListIs
  <2>3. Linked(c0, ny, s) /\ Len(s) <= n
    BY <2>1, <2>2, LinkedSame, LinkedLength
  <2>4. Walked(c0, ny, n) = {s[j] : j \in 1 .. Len(s)}
    BY <2>1, <2>3, WalkedIs, FiniteCasts
  <2>5. ListOf(t)' = Walked(cast'[t], castNext', Cardinality(Emitted))
    BY DEF ListOf, Walked
  <2> QED
    BY <1>3, <1>5, <2>1, <2>4, <2>5
<1>11. \A c \in ListOf(t) : castType'[c] = castType[c] /\ castType[c] \in Type
  <2>1. \A c \in ListOf(t) : c \in Cast /\ c # d
    BY <1>8, <1>9
  <2> QED
    BY <1>0, <1>2, <2>1 DEF TypeOK
<1>12. ListOf(t)' \subseteq ListOf(t)
  BY <1>9, <1>10
<1> QED
  BY <1>6, <1>11, <1>12, HoldsKept
-----------------------------------------------------------------------------
(* The steps.                                                               *)

LEMMA NotRunNext ==
  ASSUME TableInv, NotRun, Next
  PROVE  NotRun'
<1>1. /\ \A y \in Modules : next[y] # Null => next'[y] # Null
      /\ \A y \in initRun' : y \in initRun \/ (y = m /\ pc = "propagate")
  <2>1. CASE \E x \in Interps, mod \in Modules : InitializeModule(x, mod)
    BY <2>1, TypeTableAssumption DEF InitializeModule, TableInv, TypeOK
  <2>2. CASE WalkModules
    <3>1. m \in Modules /\ itp \in Interps /\ head[itp] \in Modules /\ next[head[itp]] # Null
          /\ next \in [Modules -> Modules \cup {Null}] /\ Null \notin Modules
      BY <2>2, TypeTableAssumption DEF WalkModules, TableInv, ControlOK, LinkedOK, TypeOK
    <3>2. \/ next' = next
          \/ next' = [next EXCEPT ![m] = next[head[itp]], ![head[itp]] = m]
      BY <2>2 DEF WalkModules
    <3>3. \A y \in Modules : next[y] # Null => next'[y] # Null
      BY <3>1, <3>2
    <3> QED
      BY <2>2, <3>3 DEF WalkModules
  <2>3. CASE PropagateClientData
    BY <2>3 DEF PropagateClientData
  <2>4. CASE \/ \E t \in Loaded, n \in Names : TypeCheck(t, n)
             \/ \E t, from \in Loaded : TypeCheckStruct(t, from)
             \/ \E t \in Loaded, d \in Data : TypeClientData(t, d)
    BY <2>4 DEF TypeCheck, TypeCheckStruct, StartCheck, TypeClientData
  <2>5. CASE \/ AlreadyInList \/ NextType \/ QueryType \/ NextCast \/ QueryCast
             \/ LoadCheck \/ CheckCast \/ PropagateType \/ PropagateCast
    BY <2>5 DEF AlreadyInList, NextType, QueryType, NextCast, QueryCast, LoadCheck, CheckCast, PropagateType,
       PropagateCast
  <2> QED
    BY <2>1, <2>2, <2>3, <2>4, <2>5 DEF Next, Step
<1>2. \A y \in Modules : next'[y] = Null => y \notin initRun'
  BY <1>1 DEF NotRun, TableInv, ControlOK
<1>3. Filling' => m' \notin initRun'
  <2>1. CASE \E x \in Interps, mod \in Modules : InitializeModule(x, mod)
    <3>1. PICK x \in Interps, mod \in Modules : InitializeModule(x, mod)
      BY <2>1
    <3>2. Filling' => next[mod] = Null
      BY <3>1 DEF InitializeModule, Filling
    <3> QED
      BY <3>1, <3>2 DEF InitializeModule, NotRun
  <2>2. CASE WalkModules
    <3>1. Filling' => Filling
      BY <2>2 DEF WalkModules, Filling
    <3> QED
      BY <2>2, <3>1 DEF WalkModules, NotRun
  <2>3. CASE \/ PropagateClientData \/ AlreadyInList \/ CheckCast \/ PropagateType \/ PropagateCast
             \/ \E t \in Loaded, n \in Names : TypeCheck(t, n)
             \/ \E t, from \in Loaded : TypeCheckStruct(t, from)
             \/ \E t \in Loaded, d \in Data : TypeClientData(t, d)
    <3>1. pc' \in {"idle", "propagate", "proptype", "propcast", "checkname", "checkstruct"}
      BY <2>3 DEF PropagateClientData, AlreadyInList, CheckCast, PropagateType, PropagateCast, TypeCheck,
         TypeCheckStruct, StartCheck, TypeClientData, Return
    <3> QED
      BY <3>1 DEF Filling
  <2>4. CASE NextType \/ QueryType \/ NextCast \/ QueryCast \/ LoadCheck
    <3>1. Filling /\ UNCHANGED <<m, initRun>>
      BY <2>4 DEF NextType, QueryType, NextCast, QueryCast, LoadCheck, Filling
    <3> QED
      BY <3>1 DEF NotRun
  <2> QED
    BY <2>1, <2>2, <2>3, <2>4 DEF Next, Step
<1> QED
  BY <1>2, <1>3 DEF NotRun

\* The calls, the walk over the modules, and the checks.
LEMMA DataCalls ==
  ASSUME NEW x, TableInv, OneInv(x), ListInv(x), AllHold,
         \/ \E y \in Interps, mod \in Modules : InitializeModule(y, mod)
         \/ AlreadyInList \/ WalkModules \/ PropagateClientData
         \/ \E t \in Loaded, n \in Names : TypeCheck(t, n)
         \/ \E t, from \in Loaded : TypeCheckStruct(t, from)
  PROVE  AllHold'
<1>1. UNCHANGED <<cast, castNext, castType, clientdata>>
  BY DEF InitializeModule, AlreadyInList, WalkModules, PropagateClientData, TypeCheck, TypeCheckStruct, StartCheck,
     lists
<1>2. ASSUME NEW n \in Names, Exempt(n) PROVE Exempt(n)'
  <2>1. \/ pc = "walk" /\ init /\ Slot(n, 1)
        \/ pc = "propagate" /\ m \notin initRun /\ Slot(n, 1)
    BY <1>2 DEF InitializeModule, AlreadyInList, WalkModules, PropagateClientData, TypeCheck, TypeCheckStruct,
       StartCheck, Exempt, Filling
  <2>2. CASE pc = "walk" /\ init /\ Slot(n, 1)
    <3>1. iter # m
      BY <2>2 DEF TableInv, ControlOK
    <3>2. WalkModules
      BY <2>2, <3>1 DEF InitializeModule, AlreadyInList, PropagateClientData, TypeCheck, TypeCheckStruct, StartCheck
    <3>3. m' = m /\ init' = init /\ pc' \in {"walk", "type"}
      BY <2>2, <3>2 DEF WalkModules
    <3> QED
      BY <2>2, <3>3 DEF Exempt, Filling, Slot
  <2>3. CASE pc = "propagate" /\ m \notin initRun /\ Slot(n, 1)
    <3>1. PropagateClientData
      BY <2>3 DEF InitializeModule, AlreadyInList, WalkModules, TypeCheck, TypeCheckStruct, StartCheck
    <3>2. m' = m /\ pc' = "proptype" /\ i' = 1
      BY <2>3, <3>1 DEF PropagateClientData
    <3> QED
      BY <2>3, <3>2 DEF Exempt, Slot
  <2> QED
    BY <2>1, <2>2, <2>3
<1> QED
  BY <1>1, <1>2, KeptSame, DataQuiet DEF ListInv

\* A wrapper sets client data between calls: no type is exempt.
LEMMA DataClientData ==
  ASSUME NEW x, TableInv, ListInv(x), AllHold, NEW t \in Loaded, NEW d \in Data, TypeClientData(t, d)
  PROVE  AllHold'
<1>1. t \in Type /\ d # Null
  BY TypeTableAssumption DEF Loaded, TableInv, TypeOK
<1>2. pc = "idle" /\ Spread(t, d) /\ UNCHANGED <<cast, castNext, castType>>
  BY DEF TypeClientData, lists
<1>3. \A n \in Names : ~ Exempt(n)
  BY <1>2 DEF Exempt, Filling
<1>4. Lists
  BY DEF ListInv
<1> QED
  BY <1>1, <1>2, <1>3, <1>4, SpreadIs, DataSpread

LEMMA DataCheckCast ==
  ASSUME NEW x, TableInv, OneInv(x), ListInv(x), AllHold, CheckCast
  PROVE  AllHold'
<1>0. /\ pc \in {"checkname", "checkstruct"} /\ UNCHANGED <<castType, clientdata>> /\ type \in Type
      /\ Agree /\ TypeRight /\ HandOK /\ Lists
  BY DEF CheckCast, TableInv, ControlOK, OneInv, ListInv
<1>1. \A n \in Names : ~ Exempt(n)
  BY <1>0 DEF Exempt, Filling
<1>2. Kept
  <2>1. CASE UNCHANGED <<cast, castNext>>
    BY <2>1, KeptSame
  <2>2. CASE citer # Null /\ MoveToFront(citer)
    <3>1. PICK s : ListIs(type, s) /\ At(s)
      BY <1>0 DEF ListInv, WalkOK, Walks
    <3>2. PICK p \in 1 .. Len(s) : citer = s[p]
      BY <2>2, <3>1 DEF At
    <3> QED
      BY <1>0, <2>2, <3>1, <3>2, FrontKept
  <2> QED
    BY <2>1, <2>2 DEF CheckCast
<1> QED
  BY <1>0, <1>1, <1>2, DataQuiet
\* While a module is filled in, its types are exempt.
LEMMA ExemptLoading ==
  ASSUME pc \in Loading
  PROVE  \A n : Exempt(n) <=> Slot(n, 1)
  BY DEF Exempt, Filling, Loading

\* A step of the loops over types and casts leaves the same types exempt.
LEMMA ExemptStep ==
  ASSUME NotRun, pc \in Loading, m' = m, initRun' = initRun, pc' \in Loading \cup {"propagate"}
  PROVE  \A n : Exempt(n) => Exempt(n)'
<1>1. m \notin initRun
  BY DEF NotRun, Filling, Loading
<1>2. \A n : Slot(n, 1) => Exempt(n)'
  BY <1>1 DEF Exempt, Filling, Loading, Slot
<1> QED
  BY <1>2, ExemptLoading

\* A structure at hand may take over client data, and is exempt.
LEMMA DataTypes ==
  ASSUME NEW x, TableInv, NotFilled, ListInv(x), AllHold, NotRun, NextType \/ QueryType
  PROVE  AllHold'
<1>0. /\ pc \in {"type", "typequery"} /\ pc' \in {"type", "typequery", "cast", "propagate"}
      /\ UNCHANGED <<cast, castNext, castType, m, i, initRun>> /\ Lists
  BY DEF NextType, QueryType, StartRow, lists, ListInv
<1>1. \A n : Exempt(n) => Exempt(n)'
  BY <1>0, ExemptStep DEF Loading
<1>2. CASE clientdata' = clientdata
  BY <1>0, <1>1, <1>2, KeptSame, DataQuiet
<1>3. CASE clientdata' # clientdata
  <2>1. pc = "typequery" /\ types[iter][TypeName] # Null /\ clientdata[Own(m, TypeName)] # Null
    BY <1>3 DEF NextType, QueryType
  <2>2. QueryType
    BY <2>1 DEF NextType
  <2>3. PICK u, d : u = types[iter][TypeName] /\ d = clientdata[Own(m, TypeName)]
    OBVIOUS
  <2>4. clientdata' = [clientdata EXCEPT ![u] = d] /\ d # Null
    BY <2>1, <2>2, <2>3 DEF QueryType, StartRow
  <2>5. TypeName \in Names /\ iter \in Modules /\ i \in 1 .. Len(TypeInitial[m])
    BY <2>1, AtHand DEF TableInv, ControlOK
  <2>6. u.name = TypeName
    BY <2>1, <2>3, <2>5 DEF ListInv, TypesNamed
  <2>7. \A t \in Type : clientdata'[t] = IF t = u THEN d ELSE clientdata[t]
    BY <2>4 DEF TableInv, TypeOK
  <2>8. PICK tn : tn = TypeName
    OBVIOUS
  <2>9. Exempt(tn)
    <3>1. Slot(tn, 1)
      BY <2>5, <2>8 DEF Slot, TypeName
    <3> QED
      BY <2>1, <3>1, ExemptLoading DEF Loading
  <2>10. ASSUME NEW t \in Type, ~ Exempt(t.name)' PROVE Holds(t)'
    <3>1. ~ Exempt(t.name) /\ t # u
      BY <1>1, <2>6, <2>8, <2>9, <2>10
    <3>2. Holds(t)
      BY <3>1 DEF AllHold
    <3>3. ListOf(t)' \subseteq ListOf(t)
      BY <1>0, KeptSame, ListOfKept
    <3>4. clientdata'[t] = clientdata[t] /\ \A v \in Type : clientdata[v] # Null => clientdata'[v] # Null
      BY <2>4, <2>7, <3>1
    <3>5. \A c \in ListOf(t) : castType'[c] = castType[c] /\ castType[c] \in Type
      BY <1>0, CastTypes
    <3> QED
      BY <3>2, <3>3, <3>4, <3>5, HoldsKept
  <2> QED
    BY <2>10 DEF AllHold
<1> QED
  BY <1>2, <1>3

\* Casts are inserted into the list of a type that is exempt.
LEMMA DataCasts ==
  ASSUME NEW x, TableInv, OneInv(x), ListInv(x), AllHold, NotRun, NextCast \/ QueryCast \/ LoadCheck
  PROVE  AllHold'
<1>0. /\ pc \in RowLoops /\ pc' \in Loading /\ UNCHANGED <<clientdata, m, initRun>>
      /\ Lists /\ HandOK /\ Agree /\ TypeRight /\ type \in Type /\ m \in Modules /\ TypeName \in Names
  <2>1. pc \in RowLoops /\ pc' \in Loading /\ UNCHANGED <<clientdata, m, initRun>>
    BY DEF NextCast, QueryCast, LoadCheck, NextInRow, RowLoops, Loading
  <2>2. Lists /\ HandOK /\ Agree /\ TypeRight /\ NotFilled
    BY DEF ListInv, OneInv
  <2> QED
    BY <2>1, <2>2, AtHand DEF TableInv, ControlOK, RowLoops
<1>1. \A n : Exempt(n) => Exempt(n)'
  BY <1>0, ExemptStep DEF Loading, RowLoops
<1>2. \/ UNCHANGED <<cast, castNext, castType>>
      \/ /\ LinkAtHead(ThisCast) /\ pc' = "cast" /\ (pc = "cast" => k \in 1 .. Len(Row))
         /\ \A d \in Cast : d # ThisCast => castType'[d] = castType[d]
      \/ pc = "loadcheck" /\ citer # Null /\ MoveToFront(citer) /\ castType' = castType
  <2>1. CASE NextCast
    <3>1. CASE k > Len(Row)
      BY <2>1, <3>1 DEF NextCast, lists
    <3>2. CASE ~ (k > Len(Row))
      <4>1. pc = "cast" => k \in 1 .. Len(Row)
        <5>1. Len(Row) \in Nat
          BY <1>0, TypeTableAssumption DEF Row
        <5> QED
          BY <3>2, <5>1 DEF TableInv, ControlOK
      <4> QED
        BY <2>1, <3>2, <4>1 DEF NextCast, NextInRow, lists
    <3> QED
      BY <3>1, <3>2
  <2>2. CASE QueryCast
    <3>1. pc = "castquery"
      BY <2>2 DEF QueryCast
    <3>2. CASE LinkAtHead(ThisCast) /\ NextInRow
      <4>1. castType' = castType \/ castType' = [castType EXCEPT ![ThisCast] = types[iter][ThisCast.from]]
        BY <2>2 DEF QueryCast, lists
      <4>2. \A d \in Cast : d # ThisCast => castType'[d] = castType[d]
        BY <4>1 DEF TableInv, TypeOK
      <4> QED
        BY <3>1, <3>2, <4>2 DEF NextInRow
    <3>3. CASE ~ (LinkAtHead(ThisCast) /\ NextInRow)
      BY <2>2, <3>3 DEF QueryCast, lists
    <3> QED
      BY <3>2, <3>3
  <2>3. CASE LoadCheck
    BY <2>3 DEF LoadCheck, NextInRow
  <2> QED
    BY <2>1, <2>2, <2>3
<1>3. CASE UNCHANGED <<cast, castNext, castType>>
  BY <1>0, <1>1, <1>3, KeptSame, DataQuiet
<1>4. CASE /\ LinkAtHead(ThisCast) /\ pc' = "cast" /\ (pc = "cast" => k \in 1 .. Len(Row))
           /\ \A d \in Cast : d # ThisCast => castType'[d] = castType[d]
  <2>1. k \in 1 .. Len(Row)
    BY <1>0, <1>4 DEF TableInv, ControlOK, RowLoops
  <2> QED
    BY <1>0, <1>4, <2>1, DataInsert
<1>5. CASE pc = "loadcheck" /\ citer # Null /\ MoveToFront(citer) /\ castType' = castType
  <2>1. PICK s : ListIs(type, s) /\ At(s)
    BY <1>5 DEF ListInv, WalkOK, Walks
  <2>2. PICK p \in 1 .. Len(s) : citer = s[p]
    BY <1>5, <2>1 DEF At
  <2>3. Kept
    BY <1>0, <1>5, <2>1, <2>2, FrontKept
  <2> QED
    BY <1>0, <1>1, <1>5, <2>3, DataQuiet
<1> QED
  BY <1>2, <1>3, <1>4, <1>5

\* The propagation leaves a type behind: it is the only one with that name that has
\* casts.
LEMMA OthersEmpty ==
  ASSUME NEW x, TableInv, OneInv(x), ListInv(x), pc \notin RowLoops, NEW t \in Type, NEW y \in Modules,
         types[y][t.name] # Null, t # types[y][t.name]
  PROVE  Holds(t)
<1>1. t.name \in Names /\ t # Null
  BY TypeTableAssumption DEF Type
<1>2. PICK s : ListIs(t, s)
  BY DEF ListInv, Lists
<1>3. ASSUME NEW j \in 1 .. Len(s) PROVE FALSE
  <2>1. PICK z \in Modules : types[z][t.name] = t
    BY <1>2, <1>3, ListKnown
  <2> QED
    BY <1>1, <2>1 DEF OneInv, Agree
<1>4. ListOf(t) = {}
  BY <1>2, <1>3, ListOfIs
<1> QED
  BY <1>4 DEF Holds

\* The next type is no more exempt.
LEMMA ExemptNext ==
  ASSUME TableInv, pc \in {"proptype", "propcast"}, pc' = "proptype", m' = m, i' = i + 1,
         NEW n, ~ Exempt(n)'
  PROVE  ~ Exempt(n) \/ (i \in 1 .. Len(TypeInitial[m]) /\ n = TypeName)
<1>1. ~ \E b \in 1 .. Len(TypeInitial[m]) : b >= i + 1 /\ TypeInitial[m][b] = n
  BY DEF Exempt, Slot
<1>2. i \in Nat
  BY DEF TableInv, TypeOK
<1>3. ASSUME NEW b \in 1 .. Len(TypeInitial[m]), b >= i, TypeInitial[m][b] = n PROVE b = i
  <2>1. ~ (b >= i + 1)
    BY <1>1, <1>3
  <2> QED
    BY <1>2, <1>3, <2>1
<1>4. Exempt(n) => \E b \in 1 .. Len(TypeInitial[m]) : b >= i /\ TypeInitial[m][b] = n
  BY DEF Exempt, Filling, Slot
<1> QED
  BY <1>3, <1>4 DEF TypeName

LEMMA DataPropagateType ==
  ASSUME NEW x, TableInv, OneInv(x), ListInv(x), AllHold, PropagateType
  PROVE  AllHold'
<1>0. /\ pc = "proptype" /\ UNCHANGED <<cast, castNext, castType, clientdata, types>> /\ m \in Modules /\ next[m] # Null
      /\ Lists
  BY DEF PropagateType, lists, TableInv, ControlOK, ListInv
<1>1. CASE i > Len(TypeInitial[m])
  <2>1. \A b \in 1 .. Len(TypeInitial[m]) : ~ (b >= i)
    <3>1. Len(TypeInitial[m]) \in Nat /\ i \in Nat
      BY <1>0, TypeTableAssumption DEF TableInv, TypeOK
    <3> QED
      BY <1>1, <3>1
  <2>2. \A n : ~ Exempt(n)
    BY <1>0, <2>1 DEF Exempt, Filling, Slot
  <2> QED
    BY <1>0, <2>2, KeptSame, DataQuiet
<1>2. CASE ~ (i > Len(TypeInitial[m])) /\ pc' = "propcast"
  <2>1. m' = m /\ i' = i
    BY <1>0, <1>2 DEF PropagateType
  <2>2. \A n : Exempt(n) => Exempt(n)'
    BY <1>0, <1>2, <2>1 DEF Exempt, Filling, Slot
  <2> QED
    BY <1>0, <2>2, KeptSame, DataQuiet
<1>3. CASE ~ (i > Len(TypeInitial[m])) /\ pc' # "propcast"
  <2>1. m' = m /\ i' = i + 1 /\ pc' = "proptype" /\ clientdata[types[m][TypeName]] = Null
    BY <1>0, <1>3 DEF PropagateType
  <2>2. ASSUME NEW t \in Type, ~ Exempt(t.name)' PROVE Holds(t)
    <3>1. ~ Exempt(t.name) \/ (i \in 1 .. Len(TypeInitial[m]) /\ t.name = TypeName)
      BY <1>0, <2>1, <2>2, ExemptNext
    <3>2. CASE ~ Exempt(t.name)
      BY <3>2 DEF AllHold
    <3>3. CASE i \in 1 .. Len(TypeInitial[m]) /\ t.name = TypeName
      <4>1. types[m][TypeName] # Null
        BY <1>0, <3>3 DEF TableInv, TypesFilled, Filling, TypeName
      <4>2. CASE t = types[m][TypeName]
        BY <2>1, <4>2 DEF Holds
      <4>3. CASE t # types[m][TypeName]
        BY <1>0, <3>3, <4>1, <4>3, OthersEmpty DEF RowLoops
      <4> QED
        BY <4>2, <4>3
    <3> QED
      BY <3>1, <3>2, <3>3
  <2>3. ASSUME NEW t \in Type, ~ Exempt(t.name)' PROVE Holds(t)'
    <3>1. ListOf(t)' \subseteq ListOf(t)
      BY <1>0, KeptSame, ListOfKept
    <3> QED
      BY <1>0, <2>2, <2>3, <3>1, CastTypes, HoldsKept
  <2> QED
    BY <2>3 DEF AllHold
<1> QED
  BY <1>1, <1>2, <1>3

LEMMA DataPropagateCast ==
  ASSUME NEW x, TableInv, OneInv(x), ListInv(x), AllHold, PropagateCast
  PROVE  AllHold'
<1>0. /\ pc = "propcast" /\ UNCHANGED <<cast, castNext, castType, m>> /\ m \in Modules /\ Lists /\ HandOK /\ type \in Type
      /\ TypeOK /\ WellLinked
  BY DEF PropagateCast, lists, TableInv, ControlOK, ListInv
<1>1. CASE citer # Null
  <2>1. pc' = pc /\ i' = i
    BY <1>1 DEF PropagateCast
  <2>2. \A n : Exempt(n) => Exempt(n)'
    BY <1>0, <2>1 DEF Exempt, Filling, Slot
  <2> QED
    BY <1>0, <1>1, <2>2, PropagateGrows, DataSpread
<1>2. CASE citer = Null
  <2>1. i' = i + 1 /\ pc' = "proptype" /\ clientdata' = clientdata
    BY <1>2 DEF PropagateCast
  <2>2. Holds(type)
    <3>1. PICK s : ListIs(type, s) /\ At(s)
      BY <1>0 DEF ListInv, WalkOK, Walks
    <3>2. \A j \in 1 .. Len(s) : s[j] # Null
      BY <1>0, <3>1, ListCasts
    <3>3. \A j \in 1 .. Len(s) : Passed(s[j])
      BY <1>2, <3>1, <3>2 DEF At
    <3>4. PICK t : t = type
      OBVIOUS
    <3>5. ListIs(t, s)
      BY <3>1, <3>4
    <3>6. ListOf(t) = {s[j] : j \in 1 .. Len(s)}
      BY <3>5, ListOfIs
    <3>7. \A c \in ListOf(t) : Passed(c)
      BY <3>3, <3>6
    <3> QED
      BY <1>0, <3>4, <3>7 DEF Holds, Passed
  <2>3. ASSUME NEW t \in Type, ~ Exempt(t.name)' PROVE Holds(t)
    <3>1. ~ Exempt(t.name) \/ (i \in 1 .. Len(TypeInitial[m]) /\ t.name = TypeName)
      BY <1>0, <2>1, <2>3, ExemptNext
    <3>2. CASE ~ Exempt(t.name)
      BY <3>2 DEF AllHold
    <3>3. CASE i \in 1 .. Len(TypeInitial[m]) /\ t.name = TypeName
      <4>1. types[m][TypeName] = type /\ type # Null
        BY <1>0, TypeTableAssumption DEF HandOK
      <4>2. CASE t = type
        BY <2>2, <4>2
      <4>3. CASE t # type
        BY <1>0, <3>3, <4>1, <4>3, OthersEmpty DEF RowLoops
      <4> QED
        BY <4>2, <4>3
    <3> QED
      BY <3>1, <3>2, <3>3
  <2>4. ASSUME NEW t \in Type, ~ Exempt(t.name)' PROVE Holds(t)'
    <3>1. ListOf(t)' \subseteq ListOf(t)
      BY <1>0, KeptSame, ListOfKept
    <3> QED
      BY <1>0, <2>1, <2>3, <2>4, <3>1, CastTypes, HoldsKept
  <2> QED
    BY <2>4 DEF AllHold
<1> QED
  BY <1>1, <1>2

LEMMA DataInit == Init => DataInv
<1> SUFFICES ASSUME Init PROVE DataInv
  OBVIOUS
<1>1. ASSUME NEW t \in Type PROVE Holds(t)
  <2>1. ListInv(t) /\ cast[t] = Null
    BY <1>1, ListInit DEF Init
  <2>2. PICK s : ListIs(t, s)
    BY <2>1 DEF ListInv, Lists
  <2>3. Len(s) = 0
    <3>1. Len(s) # 0 => s[1] = Null /\ 1 \in 1 .. Len(s) /\ s[1] \in Cast
      <4>1. s \in Seq(Emitted) /\ \A c \in Emitted : c \in Cast
        BY <2>2 DEF ListIs, Linked, Emitted
      <4> QED
        BY <2>1, <2>2, <4>1 DEF ListIs, Linked
    <3> QED
      BY <3>1, TypeTableAssumption
  <2>4. ListOf(t) = {}
    BY <2>2, <2>3, ListOfIs
  <2> QED
    BY <2>4 DEF Holds
<1> QED
  BY <1>1 DEF DataInv, AllHold, NotRun, Init, Filling

LEMMA DataStutter == ASSUME DataInv, UNCHANGED vars PROVE DataInv'
<1>0. UNCHANGED <<next, cast, castType, castNext, clientdata, initRun, pc, m, init, i>>
  BY DEF vars
<1>1. \A n : Exempt(n) <=> Exempt(n)'
  BY <1>0 DEF Exempt, Filling, Slot
<1>2. \A t : Holds(t) => Holds(t)'
  BY <1>0 DEF Holds, HasConverter, ListOf
<1>3. NotRun'
  BY <1>0 DEF DataInv, NotRun, Filling
<1> QED
  BY <1>1, <1>2, <1>3 DEF DataInv, AllHold

LEMMA DataNext ==
  ASSUME NEW x
  PROVE  TableInv /\ OneInv(x) /\ ListInv(x) /\ DataInv /\ [Next]_vars => DataInv'
<1> SUFFICES ASSUME TableInv, OneInv(x), ListInv(x), DataInv, [Next]_vars PROVE DataInv'
  OBVIOUS
<1>0. NotFilled /\ AllHold /\ NotRun
  BY DEF OneInv, DataInv
<1>1. CASE Next
  <2> SUFFICES AllHold'
    BY <1>0, <1>1, NotRunNext DEF DataInv
  <2>1. CASE \/ \E y \in Interps, mod \in Modules : InitializeModule(y, mod)
             \/ AlreadyInList \/ WalkModules \/ PropagateClientData
             \/ \E t \in Loaded, n \in Names : TypeCheck(t, n)
             \/ \E t, from \in Loaded : TypeCheckStruct(t, from)
    BY <1>0, <2>1, DataCalls
  <2>2. CASE \E t \in Loaded, d \in Data : TypeClientData(t, d)
    BY <1>0, <2>2, DataClientData
  <2>3. CASE NextType \/ QueryType
    BY <1>0, <2>3, DataTypes
  <2>4. CASE NextCast \/ QueryCast \/ LoadCheck
    BY <1>0, <2>4, DataCasts
  <2>5. CASE CheckCast \/ PropagateType \/ PropagateCast
    BY <1>0, <2>5, DataCheckCast, DataPropagateType, DataPropagateCast
  <2> QED
    BY <1>1, <2>1, <2>2, <2>3, <2>4, <2>5 DEF Next, Step
<1>2. CASE UNCHANGED vars
  BY <1>2, DataStutter
<1> QED
  BY <1>1, <1>2

\* In a process with one interpreter, between calls, whatever was loaded and whatever
\* client data wrappers set: when a type has client data, so has the loaded structure
\* of each of its equivalents, or, for a cast merged late, the copy it points at.
THEOREM EquivalentsKnown == ASSUME NEW x \in Interps, Interps = {x} PROVE Spec => []ClientDataPropagated
<1>1. TableInv /\ OneInv(x) /\ ListInv(x) /\ PointInv /\ DataInv => ClientDataPropagated
  <2> SUFFICES ASSUME TableInv, OneInv(x), ListInv(x), PointInv, DataInv, pc = "idle", NEW t \in Loaded, clientdata[t] # Null,
                      NEW c \in ListOf(t), ~ HasConverter(c)
               PROVE  clientdata[CastFrom(c)] # Null
    BY DEF ClientDataPropagated
  <2>1. t \in Type
    BY DEF Loaded, TableInv, TypeOK
  <2>2. ~ Exempt(t.name)
    BY DEF Exempt, Filling
  <2>3. clientdata[castType[c]] # Null
    BY <2>1, <2>2 DEF DataInv, AllHold, Holds
  <2>4. PICK s : ListIs(t, s)
    BY <2>1 DEF ListInv, Lists
  <2>5. castType[c] = CastFrom(c)
    BY <2>1, <2>4, ListedPoint DEF OneInv, ListInv
  <2> QED
    BY <2>3, <2>5
<1> QED
  BY <1>1, DataInit, DataNext, TableInvariant, OneInvariant, ListInvariant, PointInvariant, PTL DEF Spec
=============================================================================
