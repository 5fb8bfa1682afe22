--------------------------- MODULE FrontEndProofs ---------------------------
(***************************************************************************)
(* Proofs about the generator's front end.  About Preprocessor, for every  *)
(* set of names and every bound: its types, the treatment of collected     *)
(* text, and that the levels and flags of Preprocessor_parse implement     *)
(* CondStack.  About the evaluator of its conditions, Expr, for every set  *)
(* of operators and every bound: its stack keeps the shape that reduce_op  *)
(* takes for granted.  About SymbolTable, for every set of parameter lists *)
(* and every bound: the lists of the tables are exact while the parser     *)
(* builds them, and an %extend block wins over the class it extends.       *)
(***************************************************************************)
EXTENDS Preprocessor, Expr, SymbolTable, FiniteSetTheorems, FunctionTheorems, SequenceTheorems,
        WellFoundedInduction, NaturalsInduction, TLAPS

Variables ==
  [allow : BOOLEAN, level : 0 .. MaxLevel, start_level : 0 .. MaxLevel,
   mask : BOOLEAN, chunk : SUBSET BOOLEAN,
   how : {"main", "%include", "%import", "#include"}]

\* The levels of a call: what is skipped began at start_level.
Levels(c) ==
  /\ c.start_level <= c.level
  /\ c.allow => c.start_level = c.level
  /\ ~ c.allow => c.start_level > 0

\* The active calls that were imported.
ImportedCalls == {f \in 1 .. depth : Imports(call[f])}

\* A #include is an import or not according to include_all when it is met, and
\* according to import_all when its file ends.
SameOption ==
  \A f \in 1 .. depth : call[f].how = "#include" => (import_all <=> ~ include_all)

\* The inductive invariant behind the refinement.
Inv ==
  /\ TypeOK
  /\ \A f \in Calls : Levels(call[f])
  /\ \A f \in Calls : f > depth => call[f] = Fresh("main")
  /\ imported_depth = Cardinality(ImportedCalls)
  /\ (Imported \in symbols) <=> (ImportedCalls # {})
  /\ SameOption
-----------------------------------------------------------------------------
(* The variables of a call.                                                 *)

\* A new call of Preprocessor_parse starts with sound levels and an empty stack.
LEMMA FreshCall ==
  ASSUME NEW how \in {"main", "%include", "%import", "#include"}
  PROVE  /\ Fresh(how) \in Variables
         /\ Levels(Fresh(how))
         /\ Fresh(how).how = how
         /\ StackOf(Fresh(how)) = Stack!Empty
<1>1. Fresh(how) \in Variables
  BY PreprocessorAssumption, SMT DEF Fresh, Variables
<1>2. Levels(Fresh(how)) /\ Fresh(how).how = how
  BY SMT DEF Fresh, Levels
<1>3. StackOf(Fresh(how)) = Stack!Empty
  BY SMT DEF Fresh, StackOf, StatusAt, Stack!Empty
<1>4. QED
  BY <1>1, <1>2, <1>3

\* Writing the chunk leaves everything else alone.
LEMMA FlushedCall ==
  ASSUME NEW c \in Variables, Levels(c)
  PROVE  /\ Flushed(c) \in Variables
         /\ Levels(Flushed(c))
         /\ Flushed(c).how = c.how /\ Flushed(c).allow = c.allow
         /\ Flushed(c).level = c.level /\ Flushed(c).start_level = c.start_level
         /\ Flushed(c).mask = c.mask
         /\ Flushed(c).chunk = {}
         /\ StackOf(Flushed(c)) = StackOf(c)
<1>1. /\ Flushed(c) \in Variables
      /\ Flushed(c).how = c.how /\ Flushed(c).allow = c.allow
      /\ Flushed(c).level = c.level /\ Flushed(c).start_level = c.start_level
      /\ Flushed(c).mask = c.mask /\ Flushed(c).chunk = {}
  BY SMT DEF Flushed, Variables
<1>2. Levels(Flushed(c))
  BY <1>1, SMT DEF Levels
<1>3. \A i : StatusAt(Flushed(c), i) = StatusAt(c, i)
  BY <1>1, Zenon DEF StatusAt
<1>4. StackOf(Flushed(c)) = StackOf(c)
  BY <1>1, <1>3, Zenon DEF StackOf
<1>5. QED
  BY <1>1, <1>2, <1>4

\* The stack of a call: its height, and the status of each level.
LEMMA StackShape ==
  ASSUME NEW c
  PROVE  /\ StackOf(c).n = c.level
         /\ \A i \in 1 .. c.level : StackOf(c).is[i] = StatusAt(c, i)
BY Zenon DEF StackOf

\* What is read counts exactly if all conditionals of the stack are active.
LEMMA AllowIsVisible ==
  ASSUME NEW c \in Variables, Levels(c)
  PROVE  Stack!Visible(StackOf(c)) <=> c.allow
<1>1. CASE c.allow
  <2>1. \A i : StatusAt(c, i) = "active"
    BY <1>1, Zenon DEF StatusAt
  <2>2. QED
    BY <1>1, <2>1, StackShape, Zenon DEF Stack!Visible
<1>2. CASE ~ c.allow
  <2>1. c.start_level \in 1 .. c.level
    BY <1>2, SMT DEF Levels, Variables
  <2>2. StatusAt(c, c.start_level) # "active"
    BY <1>2, <2>1, SMT DEF StatusAt, Variables
  <2>3. QED
    BY <1>2, <2>1, <2>2, StackShape, Zenon DEF Stack!Visible
<1>3. QED
  BY <1>1, <1>2

\* A conditional begins: a level is pushed, dead where nothing is read.
LEMMA OpenedCall ==
  ASSUME NEW c \in Variables, Levels(c), c.level < MaxLevel, NEW v \in BOOLEAN
  PROVE  /\ Opened(c, v) \in Variables
         /\ Levels(Opened(c, v))
         /\ Opened(c, v).how = c.how
         /\ Opened(c, v).chunk = c.chunk
         /\ StackOf(Opened(c, v)) =
              Stack!Push(StackOf(c), IF ~ c.allow THEN "dead"
                                     ELSE IF v THEN "active" ELSE "waiting")
<1> DEFINE d == Opened(c, v)
           s == IF ~ c.allow THEN "dead" ELSE IF v THEN "active" ELSE "waiting"
<1>0. c.level + 1 \in 0 .. MaxLevel
  BY PreprocessorAssumption, SMT DEF Variables
<1>1. /\ d \in Variables
      /\ d.level = c.level + 1
      /\ d.how = c.how /\ d.chunk = c.chunk
      /\ c.allow => d.start_level = c.level + 1 /\ d.allow = v /\ d.mask = TRUE
      /\ ~ c.allow => d.start_level = c.start_level /\ d.allow = FALSE /\ d.mask = c.mask
  <2>1. CASE c.allow
    <3>1. d = [c EXCEPT !.level = c.level + 1, !.start_level = c.level + 1, !.allow = v, !.mask = TRUE]
      BY <2>1, Zenon DEF Opened
    <3> HIDE DEF d
    <3>2. d.level = c.level + 1 /\ d.start_level = c.level + 1
      BY <3>1, SMT DEF Variables
    <3>3. d.how = c.how /\ d.chunk = c.chunk
      BY <3>1, SMT DEF Variables
    <3>4. d.allow = v
      BY <3>1, SMT DEF Variables
    <3>5. d.mask = TRUE
      BY <3>1, SMT DEF Variables
    <3>6. d \in Variables
      BY <3>1, <1>0, Zenon DEF Variables
    <3>7. QED
      BY <2>1, <3>2, <3>3, <3>4, <3>5, <3>6
  <2>2. CASE ~ c.allow
    <3>1. d = [c EXCEPT !.level = c.level + 1]
      BY <2>2, Zenon DEF Opened
    <3> HIDE DEF d
    <3>2. d.level = c.level + 1 /\ d.start_level = c.start_level
      BY <3>1, SMT DEF Variables
    <3>3. d.how = c.how /\ d.chunk = c.chunk
      BY <3>1, SMT DEF Variables
    <3>4. d.allow = c.allow /\ d.mask = c.mask
      BY <3>1, SMT DEF Variables
    <3>5. d \in Variables
      BY <3>1, <1>0, SMT DEF Variables
    <3>6. QED
      BY <2>2, <3>2, <3>3, <3>4, <3>5 DEF Variables
  <2>3. QED
    BY <2>1, <2>2
<1>3. Levels(d)
  BY <1>1, SMT DEF Levels, Variables
<1>4. \A i \in 1 .. c.level : StatusAt(d, i) = StatusAt(c, i)
  BY <1>1, SMT DEF StatusAt, Levels, Variables
<1>5. StatusAt(d, c.level + 1) = s
  BY <1>1, SMT DEF StatusAt, Levels, Variables
<1>6. \A i \in 1 .. c.level + 1 :
        StatusAt(d, i) = IF i = c.level + 1 THEN s ELSE StackOf(c).is[i]
  <2>1. c.level \in Nat
    BY PreprocessorAssumption, SMT DEF Variables
  <2>2. \A i \in 1 .. c.level + 1 : i = c.level + 1 \/ i \in 1 .. c.level
    BY <2>1, SMT
  <2>3. QED
    BY <1>4, <1>5, <2>2, StackShape, Zenon
<1> HIDE DEF d, s
<1>7. StackOf(d) = Stack!Push(StackOf(c), s)
  BY <1>1, <1>6, StackShape, Zenon DEF StackOf, Stack!Push
<1>8. QED
  BY <1>1, <1>3, <1>7 DEF d, s

\* Another branch begins: the status of the innermost conditional changes.
LEMMA BranchedCall ==
  ASSUME NEW c \in Variables, Levels(c), c.level > 0, NEW v \in BOOLEAN
  PROVE  /\ Branched(c, v) \in Variables
         /\ Levels(Branched(c, v))
         /\ Branched(c, v).how = c.how
         /\ Branched(c, v).chunk = c.chunk
         /\ StackOf(Branched(c, v)) =
              Stack!SetTop(StackOf(c),
                LET t == StackOf(c).is[StackOf(c).n]
                IN  IF t = "active" THEN "done"
                    ELSE IF t = "waiting" /\ v THEN "active" ELSE t)
<1> DEFINE d == Branched(c, v)
           t == StatusAt(c, c.level)
           s == IF t = "active" THEN "done"
                ELSE IF t = "waiting" /\ v THEN "active" ELSE t
<1>0. c.level \in 1 .. MaxLevel /\ c.start_level \in 0 .. MaxLevel
  BY PreprocessorAssumption, SMT DEF Variables
<1>1. /\ d \in Variables
      /\ d.level = c.level /\ d.start_level = c.start_level
      /\ d.how = c.how /\ d.chunk = c.chunk
      /\ c.allow => d.allow = FALSE /\ d.mask = FALSE
      /\ ~ c.allow /\ c.level = c.start_level => d.allow = (v /\ c.mask) /\ d.mask = c.mask
      /\ ~ c.allow /\ c.level # c.start_level => d.allow = c.allow /\ d.mask = c.mask
  <2>0. c.level # 0
    BY <1>0, SMT
  <2>1. CASE c.allow
    <3>1. d = [c EXCEPT !.allow = FALSE, !.mask = FALSE]
      BY <2>0, <2>1, Zenon DEF Branched
    <3> HIDE DEF d
    <3>2. d.level = c.level /\ d.start_level = c.start_level /\ d.how = c.how /\ d.chunk = c.chunk
      BY <3>1, SMT DEF Variables
    <3>3. d.allow = FALSE /\ d.mask = FALSE
      BY <3>1, SMT DEF Variables
    <3>4. d \in Variables
      BY <3>1, Zenon DEF Variables
    <3>5. QED
      BY <2>1, <3>2, <3>3, <3>4
  <2>2. CASE ~ c.allow /\ c.level = c.start_level
    <3>1. d = [c EXCEPT !.allow = v /\ c.mask]
      BY <2>0, <2>2, Zenon DEF Branched
    <3> HIDE DEF d
    <3>2. d.level = c.level /\ d.start_level = c.start_level /\ d.how = c.how /\ d.chunk = c.chunk
      BY <3>1, SMT DEF Variables
    <3>3. d.allow = (v /\ c.mask)
      BY <3>1, Zenon DEF Variables
    <3>4. d.mask = c.mask
      BY <3>1, SMT DEF Variables
    <3>5. (v /\ c.mask) \in BOOLEAN
      OBVIOUS
    <3>6. d \in Variables
      BY <3>1, <3>5, Zenon DEF Variables
    <3>7. QED
      BY <2>2, <3>2, <3>3, <3>4, <3>6, Zenon
  <2>3. CASE ~ c.allow /\ c.level # c.start_level
    <3>1. d = c
      BY <2>0, <2>3, Zenon DEF Branched
    <3>2. QED
      BY <2>3, <3>1, Zenon
  <2>4. QED
    BY <2>1, <2>2, <2>3, Zenon
<1>2. Levels(d)
  BY <1>0, <1>1, SMT DEF Levels
<1>3. \A i \in 1 .. c.level : i # c.level => StatusAt(d, i) = StatusAt(c, i)
  BY <1>0, <1>1, SMT DEF StatusAt, Levels, Variables
<1>4. StatusAt(d, c.level) = s
  BY <1>0, <1>1, SMT DEF StatusAt, Levels, Variables
<1>5. StackOf(c).n = c.level /\ StackOf(c).is[StackOf(c).n] = t
  BY <1>0, StackShape, SMT
<1> HIDE DEF d, s
<1>6. \A i \in 1 .. c.level :
        StatusAt(d, i) = IF i = c.level THEN s ELSE StackOf(c).is[i]
  BY <1>3, <1>4, StackShape, Zenon
<1>7. StackOf(d) = Stack!SetTop(StackOf(c), s)
  BY <1>1, <1>5, <1>6, Zenon DEF StackOf, Stack!SetTop
<1>8. QED
  BY <1>1, <1>2, <1>5, <1>7, Zenon DEF d, s

\* The innermost conditional ends: its level is popped.
LEMMA ClosedCall ==
  ASSUME NEW c \in Variables, Levels(c), c.level > 0
  PROVE  /\ Closed(c) \in Variables
         /\ Levels(Closed(c))
         /\ Closed(c).how = c.how
         /\ Closed(c).chunk = c.chunk
         /\ StackOf(Closed(c)) = Stack!Pop(StackOf(c))
<1> DEFINE d == Closed(c)
<1>0. /\ c.level \in 1 .. MaxLevel /\ c.level - 1 \in 0 .. MaxLevel
      /\ c.start_level \in 0 .. MaxLevel /\ c.level # 0
  BY PreprocessorAssumption, SMT DEF Variables
<1>1. /\ d \in Variables
      /\ d.level = c.level - 1
      /\ d.how = c.how /\ d.chunk = c.chunk
      /\ c.start_level = c.level =>
           d.start_level = c.start_level - 1 /\ d.allow = TRUE
      /\ c.start_level # c.level =>
           d.start_level = c.start_level /\ d.allow = c.allow /\ d.mask = c.mask
  <2>1. CASE c.start_level = c.level
    <3>1. d = [c EXCEPT !.level = c.level - 1, !.allow = TRUE, !.start_level = c.start_level - 1]
      BY <1>0, <2>1, SMT DEF Closed
    <3> HIDE DEF d
    <3>2. /\ d.level = c.level - 1 /\ d.start_level = c.start_level - 1
          /\ d.how = c.how /\ d.chunk = c.chunk
      BY <3>1, SMT DEF Variables
    <3>3. d.allow = TRUE
      BY <3>1, SMT DEF Variables
    <3>4. d \in Variables
      BY <3>1, <1>0, <2>1, Zenon DEF Variables
    <3>5. QED
      BY <2>1, <3>2, <3>3, <3>4
  <2>2. CASE c.start_level # c.level
    <3>0. ~ (c.level - 1 < c.start_level)
      BY <1>0, <2>2, SMT DEF Levels
    <3>1. d = [c EXCEPT !.level = c.level - 1]
      BY <1>0, <3>0, Zenon DEF Closed
    <3> HIDE DEF d
    <3>2. /\ d.level = c.level - 1 /\ d.start_level = c.start_level
          /\ d.how = c.how /\ d.chunk = c.chunk
      BY <3>1, SMT DEF Variables
    <3>3. d.allow = c.allow /\ d.mask = c.mask
      BY <3>1, SMT DEF Variables
    <3>4. d \in Variables
      BY <3>1, <1>0, Zenon DEF Variables
    <3>5. QED
      BY <2>2, <3>2, <3>3, <3>4
  <2>3. QED
    BY <2>1, <2>2
<1>2. Levels(d)
  BY <1>0, <1>1, SMT DEF Levels
<1> HIDE DEF d
<1>3. \A i \in 1 .. c.level - 1 : StatusAt(d, i) = StatusAt(c, i)
  BY <1>0, <1>1, SMT DEF StatusAt, Levels
<1>4. \A i \in 1 .. c.level - 1 : i \in 1 .. c.level
  BY <1>0, SMT
<1>5. \A i \in 1 .. c.level - 1 : StatusAt(d, i) = StackOf(c).is[i]
  BY <1>3, <1>4, StackShape, Zenon
<1>6. StackOf(d) = Stack!Pop(StackOf(c))
  BY <1>1, <1>5, StackShape, Zenon DEF StackOf, Stack!Pop
<1>7. QED
  BY <1>1, <1>2, <1>6 DEF d
-----------------------------------------------------------------------------
(* The calls together.                                                      *)

\* The state of CondStack that the calls stand for.
Conds == [f \in Calls |-> StackOf(call[f])]
Imps  == [f \in Calls |-> Imports(call[f])]

\* The type invariant in terms of Variables.
LEMMA TypeFacts ==
  TypeOK <=> /\ depth \in Calls
             /\ call \in [Calls -> Variables]
             /\ symbols \subseteq Names \cup {Imported}
             /\ imported_depth \in 0 .. MaxFiles
             /\ include_all \in BOOLEAN
             /\ import_all \in BOOLEAN
BY Zenon DEF TypeOK, Variables

\* There are finitely many imported calls, not more than calls.
LEMMA FewCalls ==
  ASSUME NEW d \in Calls, NEW S \in SUBSET (1 .. d)
  PROVE  /\ IsFiniteSet(S)
         /\ Cardinality(S) \in 0 .. MaxFiles
<1>1. d \in Nat /\ 1 \in Int /\ d \in Int /\ 1 <= d /\ d <= MaxFiles /\ MaxFiles \in Nat
  BY PreprocessorAssumption, SMT DEF Calls
<1>2. IsFiniteSet(1 .. d) /\ Cardinality(1 .. d) = d
  <2>1. IsFiniteSet(1 .. d) /\ Cardinality(1 .. d) = IF 1 > d THEN 0 ELSE d - 1 + 1
    BY <1>1, FS_Interval, Zenon
  <2>2. QED
    BY <1>1, <2>1, SMT
<1>3. IsFiniteSet(S) /\ Cardinality(S) <= Cardinality(1 .. d)
  BY <1>2, FS_Subset, Zenon
<1>4. Cardinality(S) \in Nat
  BY <1>3, FS_CardinalityType, Zenon
<1>5. QED
  BY <1>1, <1>2, <1>3, <1>4, SMT

\* A line that changes the current call only, and neither its directive nor
\* SWIGIMPORTED, keeps the invariant and changes one stack.
LEMMA CallStep ==
  ASSUME Inv, NEW d \in Variables, Levels(d), d.how = Here.how,
         call' = [call EXCEPT ![depth] = d],
         symbols' \subseteq Names \cup {Imported},
         (Imported \in symbols') <=> (Imported \in symbols),
         UNCHANGED <<depth, imported_depth, include_all, import_all>>
  PROVE  /\ Inv'
         /\ Conds' = [Conds EXCEPT ![depth] = StackOf(d)]
         /\ Imps' = Imps
<1>1. /\ depth \in Calls /\ call \in [Calls -> Variables]
      /\ depth' = depth /\ imported_depth' = imported_depth
      /\ include_all' = include_all /\ import_all' = import_all
  BY TypeFacts, Zenon DEF Inv
<1>2. /\ call' \in [Calls -> Variables]
      /\ call'[depth] = d
      /\ \A f \in Calls : f # depth => call'[f] = call[f]
  BY <1>1, Zenon
<1>3. \A f \in Calls : call'[f].how = call[f].how
  BY <1>1, <1>2, Zenon DEF Here
<1>4. \A f \in Calls : Imports(call[f])' = Imports(call[f])
  <2> TAKE f \in Calls
  <2>1. call'[f].how = call[f].how /\ include_all' = include_all
    BY <1>1, <1>3
  <2>2. QED
    BY <2>1, SMT DEF Imports
<1>5. \A f \in 1 .. depth : f \in Calls
  BY <1>1, PreprocessorAssumption, SMT DEF Calls
<1>6. ImportedCalls' = ImportedCalls
  BY <1>1, <1>4, <1>5, Zenon DEF ImportedCalls
<1>7. TypeOK'
  BY <1>1, <1>2, TypeFacts, Zenon DEF Inv, TypeOK, Variables
<1>8. \A f \in Calls : Levels(call[f])'
  BY <1>1, <1>2, Zenon DEF Inv, Levels
<1>9. \A f \in Calls : f > depth' => call'[f] = Fresh("main")
  BY <1>1, <1>2, PreprocessorAssumption, SMT DEF Inv, Calls
<1>10. SameOption'
  <2>1. SUFFICES ASSUME NEW f \in 1 .. depth, call'[f].how = "#include"
                 PROVE  import_all' <=> ~ include_all'
    BY <1>1, Zenon DEF SameOption
  <2>2. call[f].how = "#include"
    BY <1>3, <1>5, <2>1
  <2>3. import_all <=> ~ include_all
    BY <2>2, Zenon DEF Inv, SameOption
  <2>4. QED
    BY <1>1, <2>3, SMT
<1>11. Inv'
  BY <1>1, <1>6, <1>7, <1>8, <1>9, <1>10, Zenon DEF Inv, Fresh
<1>12. \A f \in Calls : StackOf(call[f])' = IF f = depth THEN StackOf(d) ELSE StackOf(call[f])
  BY <1>1, <1>2, Zenon DEF StackOf, StatusAt
<1>13. Conds' = [Conds EXCEPT ![depth] = StackOf(d)]
  BY <1>1, <1>12, Zenon DEF Conds, Calls
<1>14. Imps' = Imps
  BY <1>4, Zenon DEF Imps, Calls
<1>15. QED
  BY <1>11, <1>13, <1>14

\* With the invariant, SWIGIMPORTED is what the files being read say.
LEMMA Announced ==
  ASSUME Inv', symbols' \ {Imported} = symbols \ {Imported}
  PROVE  Stack!Announce
<1>1. depth' \in Calls
  BY Zenon DEF Inv, TypeOK
<1>2. \A f \in 1 .. depth' : f \in Calls
  BY <1>1, PreprocessorAssumption, SMT DEF Calls
<1>3. (Imported \in symbols') <=> \E f \in 1 .. depth' : Imports(call[f])'
  BY Zenon DEF Inv, ImportedCalls
<1>4. (Imported \in symbols') <=> \E f \in 1 .. depth' : Imps'[f]
  BY <1>2, <1>3, Zenon DEF Imps, Calls
<1>5. symbols' = (symbols \ {Imported}) \cup
                 (IF Imported \in symbols' THEN {Imported} ELSE {})
  BY Zenon
<1>6. QED
  BY <1>4, <1>5, Zenon DEF Stack!Announce, Imps

\* A file is entered: a new call with an empty stack.
LEMMA EnterStep ==
  ASSUME Inv, Here.allow, NEW how \in {"%include", "%import", "#include"},
         Recurse(how),
         include_all' = include_all, import_all' \in BOOLEAN,
         \/ how # "#include" /\ import_all' = import_all
         \/ import_all' <=> ~ include_all,
         \/ Imports(Fresh(how)) /\ push_imported
         \/ ~ Imports(Fresh(how)) /\ UNCHANGED <<symbols, imported_depth>>
  PROVE  /\ Inv'
         /\ Stack!Enter(Imports(Fresh(how)))
<1> DEFINE n == depth + 1
<1>1. /\ depth \in Calls /\ n \in Calls /\ call \in [Calls -> Variables]
      /\ n # depth /\ depth' = n
      /\ call' = [call EXCEPT ![depth] = Flushed(Here), ![n] = Fresh(how)]
      /\ symbols \subseteq Names \cup {Imported}
      /\ include_all \in BOOLEAN
  <2>1. depth \in Calls /\ call \in [Calls -> Variables] /\ include_all \in BOOLEAN
        /\ symbols \subseteq Names \cup {Imported}
    BY TypeFacts, Zenon DEF Inv
  <2>2. n \in Calls /\ n # depth
    BY <2>1, PreprocessorAssumption, SMT DEF Recurse, Calls
  <2>3. QED
    BY <2>1, <2>2, Zenon DEF Recurse
<1>2. /\ Here \in Variables /\ Levels(Here) /\ Here = call[depth]
  BY <1>1, Zenon DEF Here, Inv
<1>3. /\ Flushed(Here) \in Variables /\ Levels(Flushed(Here))
      /\ Flushed(Here).how = Here.how /\ StackOf(Flushed(Here)) = StackOf(Here)
  BY <1>2, FlushedCall, Zenon
<1>4. /\ Fresh(how) \in Variables /\ Levels(Fresh(how)) /\ Fresh(how).how = how
      /\ StackOf(Fresh(how)) = Stack!Empty
  BY FreshCall, Zenon
<1> HIDE DEF n
<1>5. /\ call' \in [Calls -> Variables]
      /\ call'[depth] = Flushed(Here) /\ call'[n] = Fresh(how)
      /\ \A f \in Calls : f # depth /\ f # n => call'[f] = call[f]
  BY <1>1, <1>3, <1>4, Zenon
<1>6. \A f \in Calls : f # n => call'[f].how = call[f].how
  BY <1>1, <1>2, <1>3, <1>5, Zenon
<1>7. \A f \in Calls : f # n => (Imports(call[f])' <=> Imports(call[f]))
  <2> TAKE f \in Calls
  <2> HAVE f # n
  <2>1. call'[f].how = call[f].how /\ include_all' = include_all
    BY <1>6
  <2>2. QED
    BY <2>1, SMT DEF Imports
<1>8. \A f \in Calls : f = n => (Imports(call[f])' <=> Imports(Fresh(how)))
  <2> TAKE f \in Calls
  <2> HAVE f = n
  <2>1. call'[f].how = how /\ Fresh(how).how = how /\ include_all' = include_all
    BY <1>4, <1>5
  <2>2. QED
    BY <2>1, SMT DEF Imports
<1>9. 1 .. depth' = (1 .. depth) \cup {n} /\ n \notin 1 .. depth
  BY <1>1, PreprocessorAssumption, SMT DEF Calls, n
<1>10. 1 .. depth \subseteq Calls
  BY <1>1, PreprocessorAssumption, SMT DEF Calls
<1>11. ImportedCalls' = ImportedCalls \cup (IF Imports(Fresh(how)) THEN {n} ELSE {})
  <2>1. \A f \in Calls : f \in ImportedCalls' <=> f \in 1 .. depth' /\ Imports(call[f])'
    BY Zenon DEF ImportedCalls
  <2>2. \A f \in Calls : f \in ImportedCalls <=> f \in 1 .. depth /\ Imports(call[f])
    BY Zenon DEF ImportedCalls
  <2>3. ImportedCalls \subseteq Calls /\ ImportedCalls' \subseteq Calls
    BY <1>1, <1>9, <1>10, Zenon DEF ImportedCalls
  <2>4. QED
    BY <1>1, <1>7, <1>8, <1>9, <2>1, <2>2, <2>3, Zenon
<1>12. n \notin ImportedCalls
  BY <1>9, Zenon DEF ImportedCalls
<1>13. IsFiniteSet(ImportedCalls) /\ Cardinality(ImportedCalls) \in Nat
  <2>1. ImportedCalls \in SUBSET (1 .. depth)
    BY Zenon DEF ImportedCalls
  <2>2. QED
    BY <1>1, <2>1, FewCalls, FS_CardinalityType, Zenon
<1>14. /\ imported_depth' = Cardinality(ImportedCalls')
       /\ (Imported \in symbols') <=> (ImportedCalls' # {})
       /\ symbols' \ {Imported} = symbols \ {Imported}
       /\ symbols' \subseteq Names \cup {Imported}
  <2>1. CASE Imports(Fresh(how))
    <3>1. ImportedCalls' = ImportedCalls \cup {n}
      BY <1>11, <2>1, Zenon
    <3>2. Cardinality(ImportedCalls') = Cardinality(ImportedCalls) + 1
      BY <1>12, <1>13, <3>1, FS_AddElement, Zenon
    <3>3. imported_depth' = imported_depth + 1
      BY <2>1, Zenon DEF push_imported
    <3>4. imported_depth = 0 <=> ImportedCalls = {}
      BY <1>13, FS_EmptySet, Zenon DEF Inv
    <3>5. symbols' = symbols \cup {Imported}
      BY <2>1, <3>4, Zenon DEF push_imported, Inv
    <3>6. QED
      BY <1>1, <3>1, <3>2, <3>3, <3>5, Zenon DEF Inv
  <2>2. CASE ~ Imports(Fresh(how))
    BY <1>1, <1>11, <2>2, Zenon DEF Inv
  <2>3. QED
    BY <2>1, <2>2
<1>15. TypeOK'
  <2>1. imported_depth' \in 0 .. MaxFiles
    <3>1. ImportedCalls' \in SUBSET (1 .. depth')
      BY Zenon DEF ImportedCalls
    <3>2. QED
      BY <1>1, <1>14, <3>1, FewCalls, Zenon
  <2>2. QED
    BY <1>1, <1>5, <1>14, <2>1, Zenon DEF TypeOK, Variables
<1>16. \A f \in Calls : Levels(call[f])'
  BY <1>1, <1>3, <1>4, <1>5, Zenon DEF Inv, Levels
<1>17. \A f \in Calls : f > depth' => call'[f] = Fresh("main")
  BY <1>1, <1>5, PreprocessorAssumption, SMT DEF Inv, Calls, n
<1>18. SameOption'
  <2>1. CASE import_all' <=> ~ include_all
    BY <2>1, Zenon DEF SameOption
  <2>2. CASE how # "#include" /\ import_all' = import_all
    <3>1. SUFFICES ASSUME NEW f \in 1 .. depth', call'[f].how = "#include"
                   PROVE  import_all' <=> ~ include_all'
      BY Zenon DEF SameOption
    <3>2. f # n
      BY <1>4, <1>5, <2>2, <3>1, Zenon
    <3>3. f \in 1 .. depth /\ call[f].how = "#include"
      BY <1>6, <1>9, <1>10, <3>1, <3>2, Zenon
    <3>4. import_all <=> ~ include_all
      BY <3>3, Zenon DEF Inv, SameOption
    <3>5. QED
      BY <2>2, <3>4, SMT
  <2>3. QED
    BY <2>1, <2>2
<1>19. Inv'
  BY <1>14, <1>15, <1>16, <1>17, <1>18, Zenon DEF Inv, Fresh
<1>20. \A f \in Calls : StackOf(call[f])' = IF f = n THEN Stack!Empty ELSE StackOf(call[f])
  <2> TAKE f \in Calls
  <2>1. StackOf(call[f])' = StackOf(call'[f])
    BY Zenon DEF StackOf, StatusAt
  <2>2. CASE f = n
    BY <1>4, <1>5, <2>1, <2>2, Zenon
  <2>3. CASE f = depth
    BY <1>1, <1>2, <1>3, <1>5, <2>1, <2>3, Zenon
  <2>4. CASE f # n /\ f # depth
    BY <1>5, <2>1, <2>4, Zenon
  <2>5. QED
    BY <2>2, <2>3, <2>4
<1>21. Conds' = [Conds EXCEPT ![n] = Stack!Empty]
  BY <1>1, <1>20, Zenon DEF Conds, Calls
<1>22. Imps' = [Imps EXCEPT ![n] = Imports(Fresh(how))]
  <2>1. \A f \in Calls : Imports(call[f])' = IF f = n THEN Imports(Fresh(how)) ELSE Imports(call[f])
    BY <1>7, <1>8, SMT DEF Imports
  <2>2. QED
    BY <1>1, <2>1, Zenon DEF Imps, Calls
<1>23. Stack!Visible(Conds[depth])
  BY <1>1, <1>2, AllowIsVisible, Zenon DEF Conds
<1>24. depth < MaxFiles /\ depth' = depth + 1
  BY Zenon DEF Recurse
<1>25. Stack!Announce
  BY <1>14, <1>19, Announced, Zenon
<1>26. QED
  BY <1>19, <1>21, <1>22, <1>23, <1>24, <1>25, Zenon
  DEF Stack!Enter, Stack!Here, Conds, Imps, n

\* The end of an included file: its call is as good as never made.
LEMMA LeaveStep ==
  ASSUME Inv, EndOfFile
  PROVE  Inv' /\ Stack!Leave
<1> DEFINE n == depth
<1>1. /\ n \in Calls /\ depth' \in Calls /\ call \in [Calls -> Variables]
      /\ call' = [call EXCEPT ![n] = Fresh("main")]
      /\ symbols \subseteq Names \cup {Imported}
      /\ include_all \in BOOLEAN /\ import_all \in BOOLEAN
      /\ include_all' = include_all /\ import_all' = import_all
  <2>1. /\ depth \in Calls /\ call \in [Calls -> Variables]
        /\ symbols \subseteq Names \cup {Imported}
        /\ include_all \in BOOLEAN /\ import_all \in BOOLEAN
    BY TypeFacts, Zenon DEF Inv
  <2>2. depth' \in Calls
    BY <2>1, PreprocessorAssumption, SMT DEF EndOfFile, Calls
  <2>3. QED
    BY <2>1, <2>2, Zenon DEF EndOfFile
<1>2. /\ 1 .. depth = (1 .. depth') \cup {n} /\ n \notin 1 .. depth'
      /\ 1 .. depth \subseteq Calls /\ n \in 1 .. depth
  BY <1>1, PreprocessorAssumption, SMT DEF Calls, EndOfFile
<1>3. /\ Fresh("main") \in Variables /\ Levels(Fresh("main")) /\ Fresh("main").how = "main"
      /\ StackOf(Fresh("main")) = Stack!Empty
  BY FreshCall, Zenon
<1>4. \A f \in Calls : f > n => call[f] = Fresh("main")
  BY Zenon DEF Inv
<1>5. Undoes <=> Imports(call[n])
  <2>1. Undoes <=> call[n].how = "%import" \/ (call[n].how = "#include" /\ import_all)
    BY Zenon DEF Undoes, Here
  <2>2. call[n].how = "#include" => (import_all <=> ~ include_all)
    BY <1>2, Zenon DEF Inv, SameOption
  <2>3. QED
    BY <1>1, <2>1, <2>2, SMT DEF Imports
<1>6. IF Undoes THEN pop_imported ELSE UNCHANGED <<symbols, imported_depth>>
  BY Zenon DEF EndOfFile
<1> HIDE DEF n
<1>7. /\ call' \in [Calls -> Variables] /\ call'[n] = Fresh("main")
      /\ \A f \in Calls : f # n => call'[f] = call[f]
  BY <1>1, <1>3, Zenon
<1>8. \A f \in Calls : f # n => (Imports(call[f])' <=> Imports(call[f]))
  <2> TAKE f \in Calls
  <2> HAVE f # n
  <2>1. call'[f].how = call[f].how /\ include_all' = include_all
    BY <1>1, <1>7
  <2>2. QED
    BY <2>1, SMT DEF Imports
<1>9. \A f \in Calls : f = n => ~ Imports(call[f])'
  <2> TAKE f \in Calls
  <2> HAVE f = n
  <2>1. call'[f].how = "main"
    BY <1>3, <1>7
  <2>2. QED
    BY <2>1, SMT DEF Imports
<1>10. ImportedCalls' = ImportedCalls \ {n}
  <2>1. \A f \in Calls : f \in ImportedCalls' <=> f \in 1 .. depth' /\ Imports(call[f])'
    BY Zenon DEF ImportedCalls
  <2>2. \A f \in Calls : f \in ImportedCalls <=> f \in 1 .. depth /\ Imports(call[f])
    BY Zenon DEF ImportedCalls
  <2>3. ImportedCalls \subseteq Calls /\ ImportedCalls' \subseteq Calls
    BY <1>2, Zenon DEF ImportedCalls
  <2>4. QED
    BY <1>1, <1>2, <1>8, <1>9, <2>1, <2>2, <2>3, Zenon
<1>11. n \in ImportedCalls <=> Imports(call[n])
  BY <1>2, Zenon DEF ImportedCalls
<1>12. IsFiniteSet(ImportedCalls) /\ Cardinality(ImportedCalls) \in Nat
  <2>1. ImportedCalls \in SUBSET (1 .. depth)
    BY Zenon DEF ImportedCalls
  <2>2. depth \in Calls
    BY <1>1 DEF n
  <2>3. QED
    BY <2>1, <2>2, FewCalls, FS_CardinalityType, Zenon
<1>13. /\ imported_depth' = Cardinality(ImportedCalls')
       /\ (Imported \in symbols') <=> (ImportedCalls' # {})
       /\ symbols' \ {Imported} = symbols \ {Imported}
       /\ symbols' \subseteq Names \cup {Imported}
  <2>1. CASE Imports(call[n])
    <3>1. n \in ImportedCalls
      BY <1>11, <2>1
    <3>2. IsFiniteSet(ImportedCalls') /\ Cardinality(ImportedCalls') = Cardinality(ImportedCalls) - 1
      BY <1>10, <1>12, <3>1, FS_RemoveElement, Zenon
    <3>3. Cardinality(ImportedCalls') = 0 <=> ImportedCalls' = {}
      BY <3>2, FS_EmptySet, Zenon
    <3>4. imported_depth = Cardinality(ImportedCalls)
      BY Zenon DEF Inv
    <3>5. imported_depth = 1 <=> ImportedCalls' = {}
      BY <1>12, <3>2, <3>3, <3>4, SMT
    <3>6. /\ imported_depth' = imported_depth - 1
          /\ symbols' = IF ImportedCalls' = {} THEN symbols \ {Imported} ELSE symbols
      BY <1>5, <1>6, <2>1, <3>5, Zenon DEF pop_imported
    <3>7. Imported \in symbols
      BY <3>1, Zenon DEF Inv
    <3>8. QED
      BY <1>1, <3>2, <3>4, <3>6, <3>7, Zenon
  <2>2. CASE ~ Imports(call[n])
    <3>1. ImportedCalls' = ImportedCalls
      BY <1>10, <1>11, <2>2, Zenon
    <3>2. symbols' = symbols /\ imported_depth' = imported_depth
      BY <1>5, <1>6, <2>2, Zenon
    <3>3. QED
      BY <1>1, <3>1, <3>2, Zenon DEF Inv
  <2>3. QED
    BY <2>1, <2>2
<1>14. TypeOK'
  <2>1. imported_depth' \in 0 .. MaxFiles
    <3>1. ImportedCalls' \in SUBSET (1 .. depth')
      BY Zenon DEF ImportedCalls
    <3>2. QED
      BY <1>1, <1>13, <3>1, FewCalls, Zenon
  <2>2. QED
    BY <1>1, <1>7, <1>13, <2>1, Zenon DEF TypeOK, Variables
<1>15. \A f \in Calls : Levels(call[f])'
  BY <1>1, <1>3, <1>7, Zenon DEF Inv, Levels
<1>16. \A f \in Calls : f > depth' => call'[f] = Fresh("main")
  <2>1. \A f \in Calls : f > depth' => f = n \/ f > n
    BY <1>1, PreprocessorAssumption, SMT DEF Calls, EndOfFile, n
  <2>2. QED
    BY <1>4, <1>7, <2>1, Zenon
<1>17. SameOption'
  <2>1. SUFFICES ASSUME NEW f \in 1 .. depth', call'[f].how = "#include"
                 PROVE  import_all' <=> ~ include_all'
    BY Zenon DEF SameOption
  <2>2. f # n /\ f \in Calls /\ f \in 1 .. depth
    BY <1>2, <2>1, Zenon
  <2>3. call[f].how = "#include"
    BY <1>7, <2>1, <2>2, Zenon
  <2>4. import_all <=> ~ include_all
    BY <2>2, <2>3, Zenon DEF Inv, SameOption
  <2>5. QED
    BY <1>1, <2>4, SMT
<1>18. Inv'
  BY <1>13, <1>14, <1>15, <1>16, <1>17, Zenon DEF Inv, Fresh
<1>19. \A f \in Calls : StackOf(call[f])' = IF f = n THEN Stack!Empty ELSE StackOf(call[f])
  <2> TAKE f \in Calls
  <2>1. StackOf(call[f])' = StackOf(call'[f])
    BY Zenon DEF StackOf, StatusAt
  <2>2. CASE f = n
    BY <1>3, <1>7, <2>1, <2>2, Zenon
  <2>3. CASE f # n
    BY <1>7, <2>1, <2>3, Zenon
  <2>4. QED
    BY <2>2, <2>3
<1>20. Conds' = [Conds EXCEPT ![n] = Stack!Empty]
  BY <1>1, <1>19, Zenon DEF Conds, Calls
<1>21. Imps' = [Imps EXCEPT ![n] = FALSE]
  <2>1. \A f \in Calls : Imports(call[f])' = IF f = n THEN FALSE ELSE Imports(call[f])
    <3> TAKE f \in Calls
    <3>1. CASE f = n
      <4>1. Imports(call[f])' = FALSE
        BY <1>9, <3>1, SMT DEF Imports
      <4>2. QED
        BY <3>1, <4>1, Zenon
    <3>2. CASE f # n
      <4>1. Imports(call[f])' = Imports(call[f])
        BY <1>8, <3>2, SMT DEF Imports
      <4>2. QED
        BY <3>2, <4>1, Zenon
    <3>3. QED
      BY <3>1, <3>2
  <2>2. QED
    BY <1>1, <2>1, Zenon DEF Imps, Calls
<1>22. depth > 1 /\ depth' = depth - 1
  BY Zenon DEF EndOfFile
<1>23. Stack!Announce
  BY <1>13, <1>18, Announced, Zenon
<1>24. QED
  BY <1>18, <1>20, <1>21, <1>22, <1>23, Zenon
  DEF Stack!Leave, Stack!Here, Conds, Imps, n

\* The current call, and what is left of it when its chunk has been written.
LEMMA CurrentCall ==
  ASSUME Inv
  PROVE  /\ depth \in Calls /\ call \in [Calls -> Variables]
         /\ Here \in Variables /\ Levels(Here)
         /\ Conds[depth] = StackOf(Here)
         /\ Flushed(Here) \in Variables /\ Levels(Flushed(Here))
         /\ Flushed(Here).how = Here.how /\ Flushed(Here).allow = Here.allow
         /\ Flushed(Here).level = Here.level
         /\ Flushed(Here).chunk = {}
         /\ StackOf(Flushed(Here)) = StackOf(Here)
         /\ StackOf(Here).n = Here.level
         /\ Stack!Visible(StackOf(Here)) <=> Here.allow
<1>1. depth \in Calls /\ call \in [Calls -> Variables]
  BY TypeFacts, Zenon DEF Inv
<1>2. Here \in Variables /\ Levels(Here) /\ Conds[depth] = StackOf(Here)
  BY <1>1, Zenon DEF Here, Inv, Conds
<1>3. QED
  BY <1>1, <1>2, FlushedCall, StackShape, AllowIsVisible, Zenon

\* #if, #ifdef and #ifndef open a conditional of the stack.
LEMMA OpenStep ==
  ASSUME Inv, NEW v \in BOOLEAN, Here.level < MaxLevel,
         Conditional(Opened(Flushed(Here), v))
  PROVE  /\ Inv' /\ Stack!Open(v)
         /\ Opened(Flushed(Here), v).chunk = {}
<1> DEFINE d == Opened(Flushed(Here), v)
<1>1. /\ d \in Variables /\ Levels(d) /\ d.how = Here.how /\ d.chunk = {}
      /\ StackOf(d) = Stack!Push(StackOf(Here), IF ~ Here.allow THEN "dead"
                                 ELSE IF v THEN "active" ELSE "waiting")
  BY CurrentCall, OpenedCall, Zenon
<1> HIDE DEF d
<1>2. Conditional(d)
  BY DEF d
<1>3. /\ call' = [call EXCEPT ![depth] = d] /\ symbols' = symbols
      /\ UNCHANGED <<depth, imported_depth, include_all, import_all>>
  BY <1>2, Zenon DEF Conditional
<1>4. symbols' \subseteq Names \cup {Imported}
  BY <1>3, Zenon DEF Inv, TypeOK
<1>5. Inv' /\ Conds' = [Conds EXCEPT ![depth] = StackOf(d)] /\ Imps' = Imps
  BY <1>1, <1>3, <1>4, CallStep, Zenon
<1>6. StackOf(d) = Stack!Push(Conds[depth], IF ~ Stack!Visible(Conds[depth]) THEN "dead"
                                            ELSE IF v THEN "active" ELSE "waiting")
  BY <1>1, CurrentCall, Zenon
<1>7. Conds[depth].n < MaxLevel
  BY CurrentCall, Zenon
<1>8. Stack!Open(v)
  BY <1>3, <1>5, <1>6, <1>7, Zenon DEF Stack!Open, Stack!Here, Conds, Imps
<1>9. QED
  BY <1>1, <1>5, <1>8 DEF d

\* #elif and #else begin another branch; without a conditional they do nothing.
LEMMA BranchStep ==
  ASSUME Inv, NEW v \in BOOLEAN, Conditional(Branched(Flushed(Here), v))
  PROVE  /\ Inv' /\ (Stack!Branch(v) \/ UNCHANGED Stack!vars)
         /\ Branched(Flushed(Here), v).chunk = {}
<1> DEFINE d == Branched(Flushed(Here), v)
<1>1. /\ call' = [call EXCEPT ![depth] = d] /\ symbols' = symbols
      /\ UNCHANGED <<depth, imported_depth, include_all, import_all>>
      /\ symbols' \subseteq Names \cup {Imported}
  BY Zenon DEF Conditional, Inv, TypeOK
<1>2. Here.level \in Nat
  BY CurrentCall, PreprocessorAssumption, SMT DEF Variables
<1>3. CASE Here.level = 0
  <2>1. d = Flushed(Here)
    BY <1>3, CurrentCall, Zenon DEF Branched
  <2>2. /\ d \in Variables /\ Levels(d) /\ d.how = Here.how /\ d.chunk = {}
        /\ StackOf(d) = Conds[depth]
    BY <2>1, CurrentCall, Zenon
  <2> HIDE DEF d
  <2>3. Inv' /\ Conds' = [Conds EXCEPT ![depth] = StackOf(d)] /\ Imps' = Imps
    BY <1>1, <2>2, CallStep, Zenon
  <2>4. Conds' = Conds
    BY <2>2, <2>3, Zenon DEF Conds
  <2>5. QED
    BY <1>1, <2>2, <2>3, <2>4, Zenon DEF Stack!vars, Conds, Imps, d
<1>4. CASE Here.level > 0
  <2> DEFINE t == StackOf(Here).is[StackOf(Here).n]
             s == IF t = "active" THEN "done"
                  ELSE IF t = "waiting" /\ v THEN "active" ELSE t
  <2>1. /\ d \in Variables /\ Levels(d) /\ d.how = Here.how /\ d.chunk = {}
        /\ StackOf(d) = Stack!SetTop(StackOf(Here), s)
    BY <1>4, CurrentCall, BranchedCall, ZenonT(40)
  <2> HIDE DEF d
  <2>2. Inv' /\ Conds' = [Conds EXCEPT ![depth] = StackOf(d)] /\ Imps' = Imps
    BY <1>1, <2>1, CallStep, Zenon
  <2>3. Conds[depth].n > 0 /\ Conds[depth] = StackOf(Here)
    BY <1>4, CurrentCall, Zenon
  <2>4. Stack!Branch(v)
    BY <1>1, <2>1, <2>2, <2>3, Zenon DEF Stack!Branch, Stack!Here, Conds, Imps
  <2>5. QED
    BY <2>1, <2>2, <2>4 DEF d
<1>5. QED
  BY <1>2, <1>3, <1>4, SMT

\* #endif ends the innermost conditional; without one it does nothing.
LEMMA CloseStep ==
  ASSUME Inv, Conditional(Closed(Flushed(Here)))
  PROVE  /\ Inv' /\ (Stack!Close \/ UNCHANGED Stack!vars)
         /\ Closed(Flushed(Here)).chunk = {}
<1> DEFINE d == Closed(Flushed(Here))
<1>1. /\ call' = [call EXCEPT ![depth] = d] /\ symbols' = symbols
      /\ UNCHANGED <<depth, imported_depth, include_all, import_all>>
      /\ symbols' \subseteq Names \cup {Imported}
  BY Zenon DEF Conditional, Inv, TypeOK
<1>2. Here.level \in Nat
  BY CurrentCall, PreprocessorAssumption, SMT DEF Variables
<1>3. CASE Here.level = 0
  <2>1. d = Flushed(Here)
    BY <1>3, CurrentCall, Zenon DEF Closed
  <2>2. /\ d \in Variables /\ Levels(d) /\ d.how = Here.how /\ d.chunk = {}
        /\ StackOf(d) = Conds[depth]
    BY <2>1, CurrentCall, Zenon
  <2> HIDE DEF d
  <2>3. Inv' /\ Conds' = [Conds EXCEPT ![depth] = StackOf(d)] /\ Imps' = Imps
    BY <1>1, <2>2, CallStep, Zenon
  <2>4. Conds' = Conds
    BY <2>2, <2>3, Zenon DEF Conds
  <2>5. QED
    BY <1>1, <2>2, <2>3, <2>4, Zenon DEF Stack!vars, Conds, Imps, d
<1>4. CASE Here.level > 0
  <2>1. /\ d \in Variables /\ Levels(d) /\ d.how = Here.how /\ d.chunk = {}
        /\ StackOf(d) = Stack!Pop(StackOf(Here))
    BY <1>4, CurrentCall, ClosedCall, Zenon
  <2> HIDE DEF d
  <2>2. Inv' /\ Conds' = [Conds EXCEPT ![depth] = StackOf(d)] /\ Imps' = Imps
    BY <1>1, <2>1, CallStep, Zenon
  <2>3. Conds[depth].n > 0 /\ Conds[depth] = StackOf(Here)
    BY <1>4, CurrentCall, Zenon
  <2>4. Stack!Close
    BY <1>1, <2>1, <2>2, <2>3, Zenon DEF Stack!Close, Stack!Here, Conds, Imps
  <2>5. QED
    BY <2>1, <2>2, <2>4 DEF d
<1>5. QED
  BY <1>2, <1>3, <1>4, SMT

\* A line of text is collected; the stacks do not change.
LEMMA TextStep ==
  ASSUME Inv, Text
  PROVE  Inv' /\ UNCHANGED Stack!vars
<1> DEFINE d == [Here EXCEPT !.chunk = @ \cup {Here.allow}]
<1>1. /\ d.how = Here.how /\ d.allow = Here.allow
      /\ d.level = Here.level /\ d.start_level = Here.start_level /\ d.mask = Here.mask
  BY CurrentCall, SMT DEF Variables
<1>2. d \in Variables
  <2>1. Here.chunk \cup {Here.allow} \in SUBSET BOOLEAN
    BY CurrentCall, SMT DEF Variables
  <2>2. QED
    BY <2>1, CurrentCall, Zenon DEF Variables
<1>3. call' = [call EXCEPT ![depth] = d]
  BY CurrentCall, Zenon DEF Text, Here
<1> HIDE DEF d
<1>4. /\ symbols' = symbols /\ symbols' \subseteq Names \cup {Imported}
      /\ UNCHANGED <<depth, imported_depth, include_all, import_all>>
  BY Zenon DEF Text, Inv, TypeOK
<1>5. Levels(d)
  BY <1>1, CurrentCall, Zenon DEF Levels
<1>6. \A i : StatusAt(d, i) = StatusAt(Here, i)
  BY <1>1, Zenon DEF StatusAt
<1>7. StackOf(d) = Conds[depth]
  BY <1>1, <1>6, CurrentCall, Zenon DEF StackOf
<1>8. Inv' /\ Conds' = [Conds EXCEPT ![depth] = StackOf(d)] /\ Imps' = Imps
  BY <1>1, <1>2, <1>3, <1>4, <1>5, CallStep, Zenon
<1>9. Conds' = Conds
  BY <1>7, <1>8, Zenon DEF Conds
<1>10. QED
  BY <1>4, <1>8, <1>9, Zenon DEF Stack!vars, Conds, Imps

\* #define and #undef change the macros where they are read, and nothing elsewhere.
LEMMA MacroStep ==
  ASSUME Inv, NEW x \in Names, Define(x) \/ Undef(x)
  PROVE  Inv' /\ (Stack!Define(x) \/ Stack!Undef(x) \/ UNCHANGED Stack!vars)
<1>1. /\ call' = [call EXCEPT ![depth] = Flushed(Here)]
      /\ UNCHANGED <<depth, imported_depth, include_all, import_all>>
      /\ symbols \subseteq Names \cup {Imported}
  BY Zenon DEF Define, Undef, Inv, TypeOK
<1>2. x # Imported
  BY PreprocessorAssumption, Zenon
<1>3. /\ Here.allow => symbols' = symbols \cup {x} \/ symbols' = symbols \ {x}
      /\ ~ Here.allow => symbols' = symbols
  BY Zenon DEF Define, Undef
<1>4. /\ symbols' \subseteq Names \cup {Imported}
      /\ (Imported \in symbols') <=> (Imported \in symbols)
  BY <1>1, <1>2, <1>3, Zenon
<1>5. Inv' /\ Conds' = [Conds EXCEPT ![depth] = StackOf(Flushed(Here))] /\ Imps' = Imps
  BY <1>1, <1>4, CurrentCall, CallStep, Zenon
<1>6. StackOf(Flushed(Here)) = Conds[depth]
  BY CurrentCall, Zenon
<1>7. Conds' = Conds
  BY <1>5, <1>6, Zenon DEF Conds
<1>8. CASE Here.allow
  <2>1. Stack!Visible(Conds[depth])
    BY <1>8, CurrentCall, Zenon
  <2>2. QED
    BY <1>1, <1>3, <1>5, <1>7, <1>8, <2>1, Zenon
    DEF Stack!Define, Stack!Undef, Stack!Here, Conds, Imps
<1>9. CASE ~ Here.allow
  BY <1>1, <1>3, <1>5, <1>7, <1>9, Zenon DEF Stack!vars, Conds, Imps
<1>10. QED
  BY <1>8, <1>9

\* #ifdef and #ifndef are #if with a condition about the macros.
LEMMA OpensSome ==
  ASSUME NEW x, Ifdef(x) \/ Ifndef(x)
  PROVE  \E v \in BOOLEAN : Here.level < MaxLevel /\ Conditional(Opened(Flushed(Here), v))
<1>1. CASE Ifdef(x)
  <2>1. (x \in symbols) \in BOOLEAN
    OBVIOUS
  <2>2. Here.level < MaxLevel /\ Conditional(Opened(Flushed(Here), x \in symbols))
    BY <1>1, Zenon DEF Ifdef
  <2> WITNESS (x \in symbols) \in BOOLEAN
  <2>3. QED
    BY <2>2, Zenon
<1>2. CASE Ifndef(x)
  <2>1. (x \notin symbols) \in BOOLEAN
    OBVIOUS
  <2>2. Here.level < MaxLevel /\ Conditional(Opened(Flushed(Here), x \notin symbols))
    BY <1>2, Zenon DEF Ifndef
  <2> WITNESS (x \notin symbols) \in BOOLEAN
  <2>3. QED
    BY <2>2, Zenon
<1>3. QED
  BY <1>1, <1>2

\* %include, %import and #include enter a file.
LEMMA FileStep ==
  ASSUME Inv, IncludeFile \/ ImportFile \/ HashInclude
  PROVE  Inv' /\ \E v \in BOOLEAN : Stack!Enter(v)
<1>0. include_all \in BOOLEAN /\ import_all \in BOOLEAN
  BY Zenon DEF Inv, TypeOK
<1>1. \A how : Imports(Fresh(how)) \in BOOLEAN
  BY Zenon DEF Imports
<1>2. CASE IncludeFile
  <2>1. Fresh("%include").how = "%include"
    BY FreshCall, Zenon
  <2>2. ~ Imports(Fresh("%include"))
    BY <2>1, SMT DEF Imports
  <2>3. /\ Here.allow /\ Recurse("%include")
        /\ include_all' = include_all /\ import_all' = import_all
        /\ UNCHANGED <<symbols, imported_depth>>
    BY <1>2, Zenon DEF IncludeFile
  <2>4. import_all' \in BOOLEAN /\ "%include" # "#include"
    BY <1>0, <2>3, Zenon
  <2>5. Inv' /\ Stack!Enter(Imports(Fresh("%include")))
    BY <2>2, <2>3, <2>4, EnterStep, Zenon
  <2>6. QED
    BY <1>1, <2>5, Zenon
<1>3. CASE ImportFile
  <2>1. Fresh("%import").how = "%import"
    BY FreshCall, Zenon
  <2>2. Imports(Fresh("%import"))
    BY <2>1, Zenon DEF Imports
  <2>3. /\ Here.allow /\ Recurse("%import") /\ push_imported
        /\ include_all' = include_all /\ import_all' = import_all
    BY <1>3, Zenon DEF ImportFile
  <2>4. import_all' \in BOOLEAN /\ "%import" # "#include"
    BY <1>0, <2>3, Zenon
  <2>5. Inv' /\ Stack!Enter(Imports(Fresh("%import")))
    BY <2>2, <2>3, <2>4, EnterStep, Zenon
  <2>6. QED
    BY <1>1, <2>5, Zenon
<1>4. CASE HashInclude
  <2>1. Fresh("#include").how = "#include"
    BY FreshCall, Zenon
  <2>2. Imports(Fresh("#include")) <=> ~ include_all
    BY <2>1, SMT DEF Imports
  <2>3. /\ Here.allow /\ Recurse("#include")
        /\ include_all \/ import_all
        /\ include_all' = include_all
        /\ import_all' = (import_all /\ ~ include_all)
        /\ IF include_all THEN UNCHANGED <<symbols, imported_depth>> ELSE push_imported
    BY <1>4, Zenon DEF HashInclude
  <2>4. import_all' \in BOOLEAN /\ (import_all' <=> ~ include_all)
    BY <1>0, <2>3, Zenon
  <2>5. \/ Imports(Fresh("#include")) /\ push_imported
        \/ ~ Imports(Fresh("#include")) /\ UNCHANGED <<symbols, imported_depth>>
    BY <2>2, <2>3, Zenon
  <2>6. Inv' /\ Stack!Enter(Imports(Fresh("#include")))
    BY <2>3, <2>4, <2>5, EnterStep, Zenon
  <2>7. QED
    BY <1>1, <2>6, Zenon
<1>5. QED
  BY <1>2, <1>3, <1>4
-----------------------------------------------------------------------------
(* The specification.                                                       *)

\* The first call starts with the invariant and with empty stacks.
LEMMA InvInit == Init => Inv /\ Stack!Init
<1> SUFFICES ASSUME Init PROVE Inv /\ Stack!Init
  OBVIOUS
<1>1. /\ Fresh("main") \in Variables /\ Levels(Fresh("main")) /\ Fresh("main").how = "main"
      /\ StackOf(Fresh("main")) = Stack!Empty
  BY FreshCall, Zenon
<1>2. /\ depth = 1 /\ symbols = {} /\ imported_depth = 0
      /\ call = [f \in Calls |-> Fresh("main")]
      /\ include_all \in BOOLEAN /\ import_all \in BOOLEAN
  BY Zenon DEF Init
<1>3. \A f \in Calls : call[f] = Fresh("main")
  BY <1>2, Zenon
<1>4. depth \in Calls /\ 0 \in 0 .. MaxFiles /\ 1 .. depth \subseteq Calls
  BY <1>2, PreprocessorAssumption, SMT DEF Calls
<1>5. \A f \in Calls : ~ Imports(call[f])
  <2> TAKE f \in Calls
  <2>1. call[f].how = "main"
    BY <1>1, <1>3, Zenon
  <2>2. QED
    BY <2>1, SMT DEF Imports
<1>6. ImportedCalls = {}
  BY <1>4, <1>5, Zenon DEF ImportedCalls
<1>7. Cardinality(ImportedCalls) = 0
  BY <1>6, FS_EmptySet, Zenon
<1>8. TypeOK
  <2>1. call \in [Calls -> Variables]
    BY <1>1, <1>2, Zenon
  <2>2. QED
    BY <1>2, <1>4, <2>1, TypeFacts, Zenon
<1>9. SameOption
  <2>1. \A f \in 1 .. depth : call[f].how = "main"
    BY <1>1, <1>3, <1>4, Zenon
  <2>2. QED
    BY <2>1, SMT DEF SameOption
<1>10. Inv
  BY <1>1, <1>2, <1>3, <1>6, <1>7, <1>8, <1>9, Zenon DEF Inv
<1>11. Conds = [f \in Calls |-> Stack!Empty]
  BY <1>1, <1>3, Zenon DEF Conds
<1>12. Imps = [f \in Calls |-> FALSE]
  <2>1. \A f \in Calls : Imports(call[f]) = FALSE
    BY <1>5, SMT DEF Imports
  <2>2. QED
    BY <2>1, Zenon DEF Imps
<1>13. Stack!Init
  BY <1>2, <1>11, <1>12, Zenon DEF Stack!Init, Stack!Files, Conds, Imps, Calls
<1>14. QED
  BY <1>10, <1>13

\* Every line keeps the invariant and is a step of the stack, or none.
LEMMA InvNext == Inv /\ [Next]_vars => Inv' /\ [Stack!Next]_(Stack!vars)
<1> SUFFICES ASSUME Inv, [Next]_vars PROVE Inv' /\ [Stack!Next]_(Stack!vars)
  OBVIOUS
<1>1. CASE Text
  BY <1>1, TextStep, Zenon
<1>2. CASE \E v \in BOOLEAN : If(v)
  <2>1. PICK v \in BOOLEAN : If(v)
    BY <1>2
  <2>2. Inv' /\ Stack!Open(v)
    BY <2>1, OpenStep, Zenon DEF If
  <2>3. QED
    BY <2>2, Zenon DEF Stack!Next
<1>3. CASE \E x \in Names \cup {Imported} : Ifdef(x) \/ Ifndef(x)
  <2>1. PICK x : Ifdef(x) \/ Ifndef(x)
    BY <1>3
  <2>2. PICK v \in BOOLEAN : Here.level < MaxLevel /\ Conditional(Opened(Flushed(Here), v))
    BY <2>1, OpensSome, Zenon
  <2>3. Inv' /\ Stack!Open(v)
    BY <2>2, OpenStep, Zenon
  <2>4. QED
    BY <2>3, Zenon DEF Stack!Next
<1>4. CASE Else \/ \E v \in BOOLEAN : Elif(v)
  <2>1. PICK v \in BOOLEAN : Conditional(Branched(Flushed(Here), v))
    BY <1>4, Zenon DEF Else, Elif
  <2>2. Inv' /\ (Stack!Branch(v) \/ UNCHANGED Stack!vars)
    BY <2>1, BranchStep, Zenon
  <2>3. QED
    BY <2>2, Zenon DEF Stack!Next
<1>5. CASE Endif
  <2>1. Inv' /\ (Stack!Close \/ UNCHANGED Stack!vars)
    BY <1>5, CloseStep, Zenon DEF Endif
  <2>2. QED
    BY <2>1, Zenon DEF Stack!Next
<1>6. CASE \E x \in Names : Define(x) \/ Undef(x)
  <2>1. PICK x \in Names : Define(x) \/ Undef(x)
    BY <1>6
  <2>2. Inv' /\ (Stack!Define(x) \/ Stack!Undef(x) \/ UNCHANGED Stack!vars)
    BY <2>1, MacroStep, Zenon
  <2>3. QED
    BY <2>2, Zenon DEF Stack!Next
<1>7. CASE IncludeFile \/ ImportFile \/ HashInclude
  <2>1. Inv' /\ \E v \in BOOLEAN : Stack!Enter(v)
    BY <1>7, FileStep, Zenon
  <2>2. QED
    BY <2>1, Zenon DEF Stack!Next
<1>8. CASE EndOfFile
  BY <1>8, LeaveStep, Zenon DEF Stack!Next
<1>9. CASE UNCHANGED vars
  <2>1. /\ depth' = depth /\ call' = call /\ symbols' = symbols
        /\ imported_depth' = imported_depth
        /\ include_all' = include_all /\ import_all' = import_all
    BY <1>9, Zenon DEF vars
  <2>2. Inv'
    BY <2>1, Zenon DEF Inv, TypeOK, Levels, ImportedCalls, Imports, SameOption, Fresh, Calls
  <2>3. UNCHANGED Stack!vars
    BY <2>1, Zenon DEF Stack!vars, StackOf, StatusAt, Imports, Calls
  <2>4. QED
    BY <2>2, <2>3
<1>10. QED
  BY <1>1, <1>2, <1>3, <1>4, <1>5, <1>6, <1>7, <1>8, <1>9, Zenon DEF Next

\* The variables of Preprocessor_parse keep their types and bounds.
THEOREM TypeCorrect == Spec => []TypeOK
<1>1. Inv => TypeOK
  BY Zenon DEF Inv
<1>2. QED
  BY <1>1, InvInit, InvNext, PTL DEF Spec

\* The levels and flags of Preprocessor_parse, one set for each file that is being
\* read, implement the stacks of conditionals of CondStack: the same lines are read,
\* the same macros are defined, and SWIGIMPORTED follows the imported files.
THEOREM CondRefinement == Spec => CondSpec
<1>1. QED
  BY InvInit, InvNext, PTL DEF Spec, CondSpec, Stack!Spec
-----------------------------------------------------------------------------
(* Collected text.                                                          *)

\* A call whose chunk is empty is as good as one that collected what it should.
LEMMA ChunkKept ==
  ASSUME Inv, ChunkFaithful,
         \A f \in Calls : call'[f] = call[f] \/ call'[f].chunk = {}
  PROVE  ChunkFaithful'
BY Zenon DEF ChunkFaithful, Calls

\* No line leaves text in a chunk that conditionals of another value would treat.
LEMMA ChunkNext == Inv /\ ChunkFaithful /\ [Next]_vars => ChunkFaithful'
<1> SUFFICES ASSUME Inv, ChunkFaithful, [Next]_vars PROVE ChunkFaithful'
  OBVIOUS
<1>0. \A how \in {"main", "%include", "%import", "#include"} : Fresh(how).chunk = {}
  BY SMT DEF Fresh
<1>1. ASSUME NEW d, d.chunk = {}, call' = [call EXCEPT ![depth] = d]
      PROVE  ChunkFaithful'
  BY <1>1, CurrentCall, ChunkKept, Zenon
<1>2. CASE Text
  <2> DEFINE d == [Here EXCEPT !.chunk = @ \cup {Here.allow}]
  <2>1. d.allow = Here.allow /\ d.chunk = Here.chunk \cup {Here.allow}
    BY CurrentCall, SMT DEF Variables
  <2>2. call' = [call EXCEPT ![depth] = d]
    BY <1>2, CurrentCall, Zenon DEF Text, Here
  <2>3. Here.chunk \subseteq {Here.allow}
    BY CurrentCall, Zenon DEF ChunkFaithful, Here
  <2> HIDE DEF d
  <2>4. \A f \in Calls : call'[f] = d \/ call'[f] = call[f]
    BY <2>2, CurrentCall, Zenon
  <2>5. QED
    BY <2>1, <2>3, <2>4, Zenon DEF ChunkFaithful, Calls
<1>3. CASE \E v \in BOOLEAN : If(v)
  <2>1. PICK v \in BOOLEAN : If(v)
    BY <1>3
  <2>2. /\ Opened(Flushed(Here), v).chunk = {}
        /\ call' = [call EXCEPT ![depth] = Opened(Flushed(Here), v)]
    BY <2>1, OpenStep, Zenon DEF If, Conditional
  <2>3. QED
    BY <1>1, <2>2, Zenon
<1>4. CASE \E x \in Names \cup {Imported} : Ifdef(x) \/ Ifndef(x)
  <2>1. PICK v \in BOOLEAN : Here.level < MaxLevel /\ Conditional(Opened(Flushed(Here), v))
    BY <1>4, OpensSome, Zenon
  <2>2. /\ Opened(Flushed(Here), v).chunk = {}
        /\ call' = [call EXCEPT ![depth] = Opened(Flushed(Here), v)]
    BY <2>1, OpenStep, Zenon DEF Conditional
  <2>3. QED
    BY <1>1, <2>2, Zenon
<1>5. CASE Else \/ \E v \in BOOLEAN : Elif(v)
  <2>1. PICK v \in BOOLEAN : Conditional(Branched(Flushed(Here), v))
    BY <1>5, Zenon DEF Else, Elif
  <2>2. /\ Branched(Flushed(Here), v).chunk = {}
        /\ call' = [call EXCEPT ![depth] = Branched(Flushed(Here), v)]
    BY <2>1, BranchStep, Zenon DEF Conditional
  <2>3. QED
    BY <1>1, <2>2, Zenon
<1>6. CASE Endif
  <2>1. /\ Closed(Flushed(Here)).chunk = {}
        /\ call' = [call EXCEPT ![depth] = Closed(Flushed(Here))]
    BY <1>6, CloseStep, Zenon DEF Endif, Conditional
  <2>2. QED
    BY <1>1, <2>1, Zenon
<1>7. CASE \E x \in Names : Define(x) \/ Undef(x)
  <2>1. call' = [call EXCEPT ![depth] = Flushed(Here)]
    BY <1>7, Zenon DEF Define, Undef
  <2>2. QED
    BY <1>1, <2>1, CurrentCall, Zenon
<1>8. ASSUME NEW how \in {"%include", "%import", "#include"}, Recurse(how)
      PROVE  ChunkFaithful'
  <2>1. call' = [call EXCEPT ![depth] = Flushed(Here), ![depth + 1] = Fresh(how)]
    BY <1>8, Zenon DEF Recurse
  <2>2. Fresh(how).chunk = {} /\ Flushed(Here).chunk = {}
    BY <1>0, <1>8, CurrentCall, Zenon
  <2>3. \A f \in Calls : call'[f] \in {call[f], Flushed(Here), Fresh(how)}
    BY <2>1, CurrentCall, Zenon
  <2>4. QED
    BY <2>2, <2>3, ChunkKept, Zenon
<1>9. CASE IncludeFile \/ ImportFile \/ HashInclude
  BY <1>8, <1>9, Zenon DEF IncludeFile, ImportFile, HashInclude
<1>10. CASE EndOfFile
  <2>1. call' = [call EXCEPT ![depth] = Fresh("main")] /\ Fresh("main").chunk = {}
    BY <1>0, <1>10, Zenon DEF EndOfFile
  <2>2. QED
    BY <1>1, <2>1, Zenon
<1>11. CASE UNCHANGED vars
  BY <1>11, Zenon DEF vars, ChunkFaithful, Calls
<1>12. QED
  BY <1>2, <1>3, <1>4, <1>5, <1>6, <1>7, <1>9, <1>10, <1>11, Zenon DEF Next

\* Collected text is written, or turned into blank lines, according to the
\* conditionals that were open when Preprocessor_parse read it.
THEOREM ChunkCorrect == Spec => []ChunkFaithful
<1>1. Init => ChunkFaithful
  <2>1. Fresh("main").chunk = {}
    BY SMT DEF Fresh
  <2>2. QED
    BY <2>1, Zenon DEF Init, ChunkFaithful
<1>2. QED
  BY <1>1, InvInit, InvNext, ChunkNext, PTL DEF Spec
-----------------------------------------------------------------------------
(***************************************************************************)
(* The stack of Preprocessor_expr.  Whatever is read, the values that the  *)
(* slots hold play no part: the argument is about their kinds alone.       *)
(***************************************************************************)
(* Least elements and induction.                                            *)

\* A set of naturals that is not empty has a least element.
LEMMA Least ==
  ASSUME NEW T \in SUBSET Nat, T # {}
  PROVE  \E x \in T : \A y \in T : x <= y
<1> DEFINE R == OpToRel(<, Nat)
<1>1. IsWellFoundedOn(R, Nat)
  BY NatLessThanWellFounded
<1>2. \A x, y \in Nat : <<y, x>> \in R <=> y < x
  BY DEF OpToRel
<1> HIDE DEF R
<1>3. PICK x \in T : \A y \in T : ~ (<<y, x>> \in R)
  BY <1>1, WFMin
<1>4. \A y \in T : ~ (y < x)
  BY <1>2, <1>3, Zenon
<1>5. \A y \in T : x <= y
  BY <1>4
<1> QED
  BY <1>5

\* Induction up to n over the members of a set.
LEMMA UpToAll ==
  ASSUME NEW n \in Nat, NEW S, 0 \in S, \A k \in 1 .. n : k - 1 \in S => k \in S
  PROVE  \A k \in 0 .. n : k \in S
<1> DEFINE T == {k \in 0 .. n : k \notin S}
<1> SUFFICES ASSUME T # {} PROVE FALSE
  OBVIOUS
<1>1. T \in SUBSET Nat
  OBVIOUS
<1>2. PICK x \in T : \A y \in T : x <= y
  BY <1>1, Least, Zenon
<1>3. x \in 1 .. n /\ x - 1 \in 0 .. n /\ ~ (x <= x - 1)
  BY DEF T
<1>4. x - 1 \in S
  BY <1>2, <1>3
<1> QED
  BY <1>3, <1>4

\* Min is a member of the set, and no member is below it.

SlotKinds == {"TOP", "VALUE", "OP", "GROUP"}

\* A stack, whatever its values are.
IsStack(s) == Len(s) \in Nat \ {0} /\ s \in Seq({s[j] : j \in 1 .. Len(s)})

\* The shape of a stack that StackSound asks for.
Shaped(s) ==
  /\ \A j \in 1 .. Len(s) : s[j].op \in SlotKinds
  /\ s[1].op # "OP" \/ s[1].value \in UnaryOps
  /\ \A j \in 1 .. Len(s) - 1 : MayFollow(s[j], s[j + 1])

Fits(s) == IsStack(s) /\ Len(s) <= MaxSlots /\ Shaped(s)

Valued(s) == Fits(s) /\ s[Len(s)].op = "VALUE"

StackInv == Fits(stack) /\ Top \in {"TOP", "VALUE"}

\* What one sequence operation makes of a stack.
LEMMA StackCut ==
  ASSUME NEW s, IsStack(s), NEW n \in 0 .. Len(s) - 1, NEW x
  PROVE  LET t == Append(SubSeq(s, 1, n), x)
         IN  IsStack(t) /\ Len(t) = n + 1 /\ t[n + 1] = x /\ \A j \in 1 .. n : t[j] = s[j]
<1>1. PICK S : S = {s[j] : j \in 1 .. Len(s)} \cup {x}
  OBVIOUS
<1>2. s \in Seq(S) /\ x \in S /\ Len(s) \in Nat
  <2>1. s \in Seq({s[j] : j \in 1 .. Len(s)})
    BY DEF IsStack
  <2>2. {s[j] : j \in 1 .. Len(s)} \subseteq S /\ x \in S
    BY <1>1
  <2> QED
    BY <2>1, <2>2
<1>3. PICK u : u = SubSeq(s, 1, n)
  OBVIOUS
<1>4. u \in Seq(S) /\ Len(u) = n /\ \A j \in 1 .. n : u[j] = s[j]
  BY <1>2, <1>3
<1>5. PICK t : t = Append(u, x)
  OBVIOUS
<1>6. t \in Seq(S) /\ Len(t) = n + 1 /\ t[n + 1] = x /\ \A j \in 1 .. n : t[j] = u[j]
  BY <1>2, <1>4, <1>5
<1>7. IsStack(t)
  <2>1. Len(t) \in Nat \ {0}
    BY <1>6
  <2>2. t \in Seq({t[j] : j \in 1 .. Len(t)})
    BY <1>6
  <2> QED
    BY <2>1, <2>2 DEF IsStack
<1> QED
  BY <1>3, <1>4, <1>5, <1>6, <1>7

\* The last slot is replaced, or what follows slot n by one value.
LEMMA LastBecomes ==
  ASSUME NEW s, Fits(s), NEW n \in 1 .. Len(s), NEW x, x.op \in SlotKinds,
         n = 1 => x.op # "OP" \/ x.value \in UnaryOps,
         n > 1 => MayFollow(s[n - 1], x)
  PROVE  LET t == Append(SubSeq(s, 1, n - 1), x)
         IN  Fits(t) /\ Len(t) = n /\ t[n] = x
<1>1. IsStack(s) /\ Len(s) \in Nat /\ Len(s) <= MaxSlots /\ n \in Nat /\ n - 1 \in 0 .. Len(s) - 1 /\ MaxSlots \in Nat
  BY ExprAssumption DEF Fits, IsStack
<1>2. PICK t : t = Append(SubSeq(s, 1, n - 1), x)
  OBVIOUS
<1>3. IsStack(t) /\ Len(t) = n /\ t[n] = x /\ \A j \in 1 .. n - 1 : t[j] = s[j]
  <2>1. n - 1 + 1 = n
    BY <1>1
  <2>2. IsStack(t) /\ Len(t) = n - 1 + 1 /\ t[n - 1 + 1] = x /\ \A j \in 1 .. n - 1 : t[j] = s[j]
    BY <1>1, <1>2, StackCut
  <2> QED
    BY <2>1, <2>2
<1>4. \A j \in 1 .. n : t[j].op \in SlotKinds
  <2>1. \A j \in 1 .. n : j = n \/ (j \in 1 .. n - 1 /\ j \in 1 .. Len(s))
    BY <1>1
  <2> QED
    BY <1>3, <2>1 DEF Fits, Shaped
<1>5. t[1].op # "OP" \/ t[1].value \in UnaryOps
  <2>1. CASE n = 1
    BY <1>3, <2>1
  <2>2. CASE n > 1
    <3>1. t[1] = s[1]
      BY <1>1, <1>3, <2>2
    <3> QED
      BY <3>1 DEF Fits, Shaped
  <2> QED
    BY <1>1, <2>1, <2>2
<1>6. ASSUME NEW j \in 1 .. n - 1 PROVE MayFollow(t[j], t[j + 1])
  <2>1. CASE j = n - 1
    <3>1. t[j + 1] = x /\ t[j] = s[n - 1] /\ n > 1
      BY <1>1, <1>3, <2>1
    <3> QED
      BY <3>1
  <2>2. CASE j # n - 1
    <3>1. t[j + 1] = s[j + 1] /\ t[j] = s[j] /\ j \in 1 .. Len(s) - 1
      BY <1>1, <1>3, <2>2
    <3> QED
      BY <3>1 DEF Fits, Shaped
  <2> QED
    BY <2>1, <2>2
<1>7. Fits(t)
  BY <1>1, <1>3, <1>4, <1>5, <1>6 DEF Fits, Shaped
<1> QED
  BY <1>2, <1>3, <1>7

\* A slot is pushed.
LEMMA Pushed ==
  ASSUME NEW s, Fits(s), Len(s) < MaxSlots, NEW x, x.op \in SlotKinds, MayFollow(s[Len(s)], x)
  PROVE  Fits(Append(s, x)) /\ Len(Append(s, x)) = Len(s) + 1 /\ Append(s, x)[Len(s) + 1] = x
<1>1. PICK S : S = {s[j] : j \in 1 .. Len(s)} \cup {x}
  OBVIOUS
<1>2. s \in Seq(S) /\ x \in S /\ Len(s) \in Nat \ {0} /\ MaxSlots \in Nat
  <2>1. s \in Seq({s[j] : j \in 1 .. Len(s)}) /\ Len(s) \in Nat \ {0}
    BY DEF Fits, IsStack
  <2>2. {s[j] : j \in 1 .. Len(s)} \subseteq S /\ x \in S
    BY <1>1
  <2> QED
    BY <2>1, <2>2, ExprAssumption
<1>3. PICK t : t = Append(s, x)
  OBVIOUS
<1>4. t \in Seq(S) /\ Len(t) = Len(s) + 1 /\ t[Len(s) + 1] = x /\ \A j \in 1 .. Len(s) : t[j] = s[j]
  BY <1>2, <1>3
<1>5. IsStack(t)
  <2>1. t \in Seq({t[j] : j \in 1 .. Len(t)})
    BY <1>4
  <2> QED
    BY <1>2, <1>4, <2>1 DEF IsStack
<1>6. \A j \in 1 .. Len(t) : t[j].op \in SlotKinds
  <2>1. \A j \in 1 .. Len(t) : j = Len(s) + 1 \/ j \in 1 .. Len(s)
    BY <1>2, <1>4
  <2> QED
    BY <1>4, <2>1 DEF Fits, Shaped
<1>7. t[1].op # "OP" \/ t[1].value \in UnaryOps
  BY <1>2, <1>4 DEF Fits, Shaped
<1>8. ASSUME NEW j \in 1 .. Len(t) - 1 PROVE MayFollow(t[j], t[j + 1])
  <2>1. CASE j = Len(s)
    BY <1>2, <1>4, <2>1
  <2>2. CASE j # Len(s)
    <3>1. t[j + 1] = s[j + 1] /\ t[j] = s[j] /\ j \in 1 .. Len(s) - 1
      BY <1>2, <1>4, <2>2
    <3> QED
      BY <3>1 DEF Fits, Shaped
  <2> QED
    BY <2>1, <2>2
<1>9. Fits(t)
  BY <1>2, <1>4, <1>5, <1>6, <1>7, <1>8 DEF Fits, Shaped
<1> QED
  BY <1>3, <1>4, <1>9
-----------------------------------------------------------------------------
(* Reducing.                                                                *)

\* A state of the evaluator whose top is a value.
StateOK(st) == DOMAIN st = {"stack", "svalue", "status"} /\ Valued(st.stack)

\* What Reduced does to the stack.
LEMMA ReducedStack ==
  ASSUME NEW st, DOMAIN st = {"stack", "svalue", "status"}, NEW n, NEW v
  PROVE  /\ DOMAIN Reduced(st, n, v) = {"stack", "svalue", "status"}
         /\ Reduced(st, n, v).stack = Append(SubSeq(st.stack, 1, n - 1), Slot("VALUE", v))
  BY DEF Reduced

\* A value may follow what an operand in its place followed.
LEMMA ValueFollows ==
  ASSUME NEW a, NEW b, NEW v, a.op \in SlotKinds, MayFollow(a, b), b.op \in {"TOP", "VALUE", "GROUP"} \/ b.value \in UnaryOps
  PROVE  MayFollow(a, Slot("VALUE", v))
<1>1. a.op \in {"OP", "GROUP"} => MayFollow(a, Slot("VALUE", v))
  BY DEF MayFollow, Slot
<1>2. a.op \in {"OP", "GROUP"}
  BY DEF MayFollow, SlotKinds
<1> QED
  BY <1>1, <1>2

\* Slot n is taken by a value, and what is above it goes.
LEMMA ValueAt ==
  ASSUME NEW s, Fits(s), NEW n \in 1 .. Len(s), NEW v,
         s[n].op \in {"TOP", "VALUE", "GROUP"} \/ s[n].value \in UnaryOps
  PROVE  Valued(Append(SubSeq(s, 1, n - 1), Slot("VALUE", v)))
<1>1. PICK x : x = Slot("VALUE", v)
  OBVIOUS
<1>2. x.op = "VALUE" /\ x.op \in SlotKinds
  BY <1>1 DEF Slot, SlotKinds
<1>3. ASSUME n > 1 PROVE MayFollow(s[n - 1], x)
  <2>1. n - 1 \in 1 .. Len(s) /\ n - 1 \in 1 .. Len(s) - 1 /\ n - 1 + 1 = n
    BY <1>3 DEF Fits, IsStack
  <2>2. s[n - 1].op \in SlotKinds /\ MayFollow(s[n - 1], s[n])
    BY <2>1 DEF Fits, Shaped
  <2> QED
    BY <1>1, <2>2, ValueFollows
<1>4. PICK t : t = Append(SubSeq(s, 1, n - 1), x)
  OBVIOUS
<1>5. Fits(t) /\ Len(t) = n /\ t[n] = x
  BY <1>2, <1>3, <1>4, LastBecomes
<1> QED
  BY <1>1, <1>2, <1>4, <1>5 DEF Valued

\* A reduction leaves a value on top of a stack that is no higher.
LEMMA ReduceOK ==
  ASSUME NEW st, StateOK(st), Reducible(st)
  PROVE  StateOK(reduce_op(st))
<1>1. PICK s, n : s = st.stack /\ n = Len(s)
  OBVIOUS
<1>2. Fits(s) /\ Len(s) \in Nat /\ n > 1 /\ s[n].op = "VALUE" /\ s[n - 1].op = "OP"
  BY <1>1 DEF StateOK, Valued, Reducible, Fits, IsStack
<1>3. PICK u : u = reduce_op(st)
  OBVIOUS
<1>4. \/ DOMAIN u = DOMAIN st /\ u.stack = s
      \/ s[n - 1].value \in UnaryOps /\ \E v : u = Reduced(st, n - 1, v)
      \/ s[n - 1].value \notin UnaryOps /\ n # 2 /\ \E w, v : w = st /\ u = Reduced(w, n - 2, v)
      \/ s[n - 1].value \notin UnaryOps /\ n # 2 /\ \E w, v : w = [st EXCEPT !.svalue[n] = Freed] /\ u = Reduced(w, n - 2, v)
  <2> DEFINE t == s[n - 1].value
             left == st.svalue[n - 2]
             right == st.svalue[n]
             fails == [st EXCEPT !.status = "error"]
             undefd == [st EXCEPT !.status = "undefined"]
             R1 == Reduced(st, n - 1, Unary1(t, s[n].value))
             R2 == Reduced(st, n - 2, Binary2(s[n - 2].value, t, s[n].value))
             W == [st EXCEPT !.svalue[n] = Freed]
             R3 == Reduced(W, n - 2, Binary2(left, t, right))
  <2>1. u = IF t \in UnaryOps THEN IF right # Null THEN fails ELSE R1
            ELSE IF n = 2 \/ (left = Null) # (right = Null) THEN fails
            ELSE IF right = Null THEN IF t \in {"div", "mod"} /\ s[n].value = 0 THEN fails ELSE R2
            ELSE IF t \notin {"eq", "ne"} THEN fails
            ELSE IF Freed \in {left, right} THEN undefd ELSE R3
    BY <1>1, <1>3, Zenon DEF reduce_op
  <2>2. /\ DOMAIN fails = DOMAIN st /\ fails.stack = s
        /\ DOMAIN undefd = DOMAIN st /\ undefd.stack = s
    BY <1>1 DEF StateOK
  <2>3. t = s[n - 1].value /\ W = [st EXCEPT !.svalue[n] = Freed]
    OBVIOUS
  <2>4. /\ \E v : R1 = Reduced(st, n - 1, v)
        /\ \E v : R2 = Reduced(st, n - 2, v)
        /\ \E v : R3 = Reduced(W, n - 2, v)
    OBVIOUS
  <2> HIDE DEF t, left, right, fails, undefd, R1, R2, R3, W
  <2>5. u = fails \/ u = undefd \/ (t \in UnaryOps /\ u = R1) \/ (t \notin UnaryOps /\ n # 2 /\ (u = R2 \/ u = R3))
    BY <2>1, Zenon
  <2> QED
    BY <2>2, <2>3, <2>4, <2>5, Zenon
<1>5. CASE DOMAIN u = DOMAIN st /\ u.stack = s
  BY <1>1, <1>3, <1>5 DEF StateOK
<1>6. CASE s[n - 1].value \in UnaryOps /\ \E v : u = Reduced(st, n - 1, v)
  <2>1. PICK v : u = Reduced(st, n - 1, v)
    BY <1>6
  <2>2. DOMAIN u = {"stack", "svalue", "status"} /\ u.stack = Append(SubSeq(s, 1, n - 1 - 1), Slot("VALUE", v))
    BY <1>1, <2>1, ReducedStack DEF StateOK
  <2>3. n - 1 \in 1 .. Len(s)
    BY <1>1, <1>2
  <2>4. Valued(Append(SubSeq(s, 1, n - 1 - 1), Slot("VALUE", v)))
    BY <1>2, <1>6, <2>3, ValueAt
  <2> QED
    BY <1>3, <2>2, <2>4 DEF StateOK
<1>7. CASE s[n - 1].value \notin UnaryOps /\ n # 2 /\ \E w, v : (w = st \/ w = [st EXCEPT !.svalue[n] = Freed]) /\ u = Reduced(w, n - 2, v)
  <2>1. PICK w, v : (w = st \/ w = [st EXCEPT !.svalue[n] = Freed]) /\ u = Reduced(w, n - 2, v)
    BY <1>7
  <2>2. DOMAIN w = {"stack", "svalue", "status"} /\ w.stack = s
    BY <1>1, <2>1 DEF StateOK
  <2>3. DOMAIN u = {"stack", "svalue", "status"} /\ u.stack = Append(SubSeq(s, 1, n - 2 - 1), Slot("VALUE", v))
    <3>1. PICK q : q = n - 2
      OBVIOUS
    <3>2. u = Reduced(w, q, v)
      BY <2>1, <3>1
    <3>3. DOMAIN u = {"stack", "svalue", "status"} /\ u.stack = Append(SubSeq(w.stack, 1, q - 1), Slot("VALUE", v))
      BY <2>2, <3>2, ReducedStack
    <3> QED
      BY <2>2, <3>1, <3>3
  <2>4. n - 2 \in 1 .. Len(s) /\ n - 2 \in 1 .. Len(s) - 1 /\ n - 2 + 1 = n - 1
    <3>1. n # 2
      BY <1>7
    <3>2. Len(s) \in Nat /\ n > 1 /\ n = Len(s)
      BY <1>1, <1>2
    <3> QED
      BY <3>1, <3>2
  <2>5. s[n - 2].op \in SlotKinds /\ MayFollow(s[n - 2], s[n - 1])
    BY <1>2, <2>4 DEF Fits, Shaped
  <2>6. s[n - 2].op = "VALUE"
    BY <1>2, <1>7, <2>5 DEF MayFollow, SlotKinds
  <2>7. Valued(Append(SubSeq(s, 1, n - 2 - 1), Slot("VALUE", v)))
    BY <1>2, <2>4, <2>6, ValueAt
  <2> QED
    BY <1>3, <2>3, <2>7 DEF StateOK
<1> QED
  BY <1>4, <1>5, <1>6, <1>7, Zenon

\* The states that the loop goes through.
Loop(r, st, n) ==
  /\ r[0] = st
  /\ \A j \in 1 .. n : r[j] = IF Reducible(r[j - 1]) THEN reduce_op(r[j - 1]) ELSE r[j - 1]

\* There is such a loop of n rounds.
LEMMA LoopExists ==
  ASSUME NEW st, NEW n \in Nat
  PROVE  \E r : r = [j \in 0 .. n |-> r[j]] /\ Loop(r, st, n)
<1> DEFINE S == {k \in 0 .. n : \E r : r = [j \in 0 .. k |-> r[j]] /\ Loop(r, st, k)}
<1>1. 0 \in S
  <2>1. PICK r : r = [j \in 0 .. 0 |-> st]
    OBVIOUS
  <2>2. r = [j \in 0 .. 0 |-> r[j]] /\ Loop(r, st, 0)
    BY <2>1 DEF Loop
  <2> QED
    BY <2>2
<1>2. ASSUME NEW k \in 1 .. n, k - 1 \in S PROVE k \in S
  <2>1. PICK w : w = [j \in 0 .. k - 1 |-> w[j]] /\ Loop(w, st, k - 1)
    BY <1>2
  <2>2. PICK e : e = IF Reducible(w[k - 1]) THEN reduce_op(w[k - 1]) ELSE w[k - 1]
    OBVIOUS
  <2>3. PICK v : v = [j \in 0 .. k |-> IF j = k THEN e ELSE w[j]]
    OBVIOUS
  <2>4. v = [j \in 0 .. k |-> v[j]] /\ v[k] = e /\ \A j \in 0 .. k - 1 : v[j] = w[j]
    BY <2>3
  <2>5. w[0] = st /\ \A j \in 1 .. k - 1 : w[j] = IF Reducible(w[j - 1]) THEN reduce_op(w[j - 1]) ELSE w[j - 1]
    BY <2>1 DEF Loop
  <2>6. v[0] = st
    <3>1. 0 \in 0 .. k - 1
      OBVIOUS
    <3> QED
      BY <2>4, <2>5, <3>1
  <2>7. ASSUME NEW j \in 1 .. k PROVE v[j] = IF Reducible(v[j - 1]) THEN reduce_op(v[j - 1]) ELSE v[j - 1]
    <3>1. v[j - 1] = w[j - 1]
      <4>1. j - 1 \in 0 .. k - 1
        OBVIOUS
      <4> QED
        BY <2>4, <4>1
    <3>2. CASE j = k
      BY <2>2, <2>4, <3>1, <3>2
    <3>3. CASE j # k
      <4>1. j \in 1 .. k - 1 /\ j \in 0 .. k - 1
        BY <3>3
      <4> QED
        BY <2>4, <2>5, <3>1, <4>1
    <3> QED
      BY <3>2, <3>3
  <2>8. Loop(v, st, k)
    BY <2>6, <2>7 DEF Loop
  <2> QED
    BY <2>4, <2>8
<1> HIDE DEF S
<1>3. \A k \in 0 .. n : k \in S
  BY <1>1, <1>2, UpToAll
<1>4. n \in S
  BY <1>3
<1> QED
  BY <1>4 DEF S

\* The loop of ReduceAll has a state after each round.
LEMMA ReduceAllIs ==
  ASSUME NEW st, NEW n, n = Len(st.stack), n \in Nat
  PROVE  \E r : Loop(r, st, n) /\ ReduceAll(st) = r[n]
<1> DEFINE Round(r, j) == IF j = 0 THEN st ELSE IF Reducible(r[j - 1]) THEN reduce_op(r[j - 1]) ELSE r[j - 1]
           Eq(r) == r = [j \in 0 .. Len(st.stack) |-> Round(r, j)]
           e == CHOOSE r : Eq(r)
<1>1. PICK w : w = [j \in 0 .. n |-> w[j]] /\ Loop(w, st, n)
  BY LoopExists
<1>2. \A j \in 0 .. n : w[j] = Round(w, j)
  <2>1. \A j \in 0 .. n : j = 0 \/ (j # 0 /\ j \in 1 .. n)
    OBVIOUS
  <2> QED
    BY <1>1, <2>1 DEF Loop
<1> HIDE DEF Round
<1>3. Eq(w)
  BY <1>1, <1>2
<1> HIDE DEF Eq
<1>4. Eq(e)
  BY <1>3, Zenon
<1> HIDE DEF e
<1>5. PICK r : r = e
  OBVIOUS
<1>6. \A j \in 0 .. n : r[j] = Round(r, j)
  BY <1>4, <1>5 DEF Eq
<1>7. Loop(r, st, n)
  BY <1>6 DEF Loop, Round
<1>8. ReduceAll(st) = e[n]
  BY Zenon DEF ReduceAll, e, Eq, Round
<1> QED
  BY <1>5, <1>7, <1>8

\* Reducing all operators keeps the stack sound.
LEMMA ReduceAllOK ==
  ASSUME NEW st, StateOK(st)
  PROVE  StateOK(ReduceAll(st))
<1>1. PICK n : n = Len(st.stack) /\ n \in Nat
  BY DEF StateOK, Valued, Fits, IsStack
<1>2. PICK r : Loop(r, st, n) /\ ReduceAll(st) = r[n]
  BY <1>1, ReduceAllIs
<1> DEFINE S == {k \in 0 .. n : StateOK(r[k])}
<1>3. 0 \in S
  BY <1>1, <1>2 DEF Loop
<1>4. ASSUME NEW k \in 1 .. n, k - 1 \in S PROVE k \in S
  <2>1. StateOK(r[k - 1]) /\ r[k] = IF Reducible(r[k - 1]) THEN reduce_op(r[k - 1]) ELSE r[k - 1]
    BY <1>2, <1>4 DEF Loop
  <2>2. StateOK(r[k])
    BY <2>1, ReduceOK
  <2> QED
    BY <1>1, <2>2
<1> HIDE DEF S
<1>5. \A k \in 0 .. n : k \in S
  BY <1>1, <1>3, <1>4, UpToAll
<1>6. n \in S
  BY <1>1, <1>5
<1> QED
  BY <1>2, <1>6 DEF S
-----------------------------------------------------------------------------
(* The tokens.                                                              *)

\* The state of the program, when a value is on top.
LEMMA StateIs == ASSUME StackInv, Top = "VALUE" PROVE StateOK(State)
  BY DEF StateOK, State, StackInv, Valued, Top, sp

\* What the stack becomes has to have the shape.
LEMMA StackInvIf == ASSUME NEW s, stack' = s, Fits(s), s[Len(s)].op \in {"TOP", "VALUE"} PROVE StackInv'
  BY DEF StackInv, Top, sp

LEMMA StateBecomes == ASSUME NEW st, StateOK(st), stack' = st.stack PROVE StackInv'
  BY StackInvIf DEF StateOK, Valued

\* What replaces the last slot, as the program writes it.
LEMMA LastSlot ==
  ASSUME NEW s, Fits(s), NEW x
  PROVE  [s EXCEPT ![Len(s)] = x] = Append(SubSeq(s, 1, Len(s) - 1), x)
<1>1. PICK S : S = {s[j] : j \in 1 .. Len(s)} \cup {x}
  OBVIOUS
<1>2. s \in Seq(S) /\ x \in S /\ Len(s) \in Nat \ {0}
  <2>1. s \in Seq({s[j] : j \in 1 .. Len(s)}) /\ Len(s) \in Nat \ {0}
    BY DEF Fits, IsStack
  <2>2. {s[j] : j \in 1 .. Len(s)} \subseteq S /\ x \in S
    BY <1>1
  <2> QED
    BY <2>1, <2>2
<1>3. PICK n : n = Len(s)
  OBVIOUS
<1>4. PICK t : t = [s EXCEPT ![n] = x]
  OBVIOUS
<1>5. PICK u : u = Append(SubSeq(s, 1, n - 1), x)
  OBVIOUS
<1>6. t \in Seq(S) /\ Len(t) = n /\ \A j \in 1 .. n : t[j] = IF j = n THEN x ELSE s[j]
  BY <1>2, <1>3, <1>4
<1>7. u \in Seq(S) /\ Len(u) = n /\ \A j \in 1 .. n : u[j] = IF j = n THEN x ELSE s[j]
  BY <1>2, <1>3, <1>5
<1>8. t = u
  BY <1>2, <1>3, <1>6, <1>7
<1> QED
  BY <1>3, <1>4, <1>5, <1>8

\* The place of a value is taken by x, which may stand where a value is expected.
LEMMA PlaceTaken ==
  ASSUME StackInv, Top = "TOP", NEW x,
         x.op \in {"VALUE", "GROUP"} \/ (x.op = "OP" /\ x.value \in UnaryOps)
  PROVE  LET s == [stack EXCEPT ![sp] = x]
         IN  Fits(s) /\ Len(s) = Len(stack) /\ s[Len(s)] = x
<1>1. PICK s0, n : s0 = stack /\ n = Len(s0)
  OBVIOUS
<1>2. Fits(s0) /\ n \in 1 .. Len(s0) /\ n \in Nat /\ s0[n].op = "TOP"
  BY <1>1 DEF StackInv, Top, sp, Fits, IsStack
<1>3. x.op \in SlotKinds
  BY DEF SlotKinds
<1>4. ASSUME n > 1 PROVE MayFollow(s0[n - 1], x)
  <2>1. n - 1 \in 1 .. Len(s0) /\ n - 1 \in 1 .. Len(s0) - 1 /\ n - 1 + 1 = n
    BY <1>1, <1>2, <1>4
  <2>2. s0[n - 1].op \in SlotKinds /\ MayFollow(s0[n - 1], s0[n])
    BY <1>2, <2>1 DEF Fits, Shaped
  <2> QED
    BY <1>2, <2>2 DEF MayFollow, SlotKinds
<1>5. PICK t : t = Append(SubSeq(s0, 1, n - 1), x)
  OBVIOUS
<1>6. Fits(t) /\ Len(t) = n /\ t[n] = x
  BY <1>2, <1>3, <1>4, <1>5, LastBecomes
<1>7. [s0 EXCEPT ![n] = x] = t
  BY <1>1, <1>2, <1>5, LastSlot
<1> QED
  BY <1>1, <1>6, <1>7 DEF sp

\* A sign or a parenthesis, and the place of a value above it.
LEMMA PrefixStep ==
  ASSUME StackInv, Top = "TOP", sp < MaxSlots, NEW x,
         x.op = "GROUP" \/ (x.op = "OP" /\ x.value \in UnaryOps),
         stack' = Append([stack EXCEPT ![sp] = x], Slot("TOP", 0))
  PROVE  StackInv'
<1>1. PICK s : s = [stack EXCEPT ![sp] = x]
  OBVIOUS
<1>2. Fits(s) /\ Len(s) = Len(stack) /\ s[Len(s)] = x
  BY <1>1, PlaceTaken
<1>3. PICK y : y = Slot("TOP", 0)
  OBVIOUS
<1>4. y.op = "TOP" /\ y.op \in SlotKinds /\ MayFollow(x, y)
  BY <1>3 DEF Slot, SlotKinds, MayFollow
<1>5. PICK t : t = Append(s, y)
  OBVIOUS
<1>6. Fits(t) /\ Len(t) = Len(s) + 1 /\ t[Len(s) + 1] = y
  BY <1>2, <1>4, <1>5, Pushed DEF sp
<1> QED
  BY <1>1, <1>3, <1>4, <1>5, <1>6, StackInvIf

\* A number or a string.
LEMMA ValueStep ==
  ASSUME StackInv, Top = "TOP", NEW v, stack' = [stack EXCEPT ![sp] = Slot("VALUE", v)]
  PROVE  StackInv'
<1>1. PICK x : x = Slot("VALUE", v)
  OBVIOUS
<1>2. x.op = "VALUE"
  BY <1>1 DEF Slot
<1>3. PICK s : s = [stack EXCEPT ![sp] = x]
  OBVIOUS
<1>4. Fits(s) /\ s[Len(s)] = x
  BY <1>2, <1>3, PlaceTaken
<1> QED
  BY <1>1, <1>2, <1>3, <1>4, StackInvIf

\* A binary operator.
LEMMA OperatorStep ==
  ASSUME StackInv, NEW t \in Binary, Operator(t)
  PROVE  StackInv'
<1>1. PICK st : st = IF Binds(State, t) THEN reduce_op(State) ELSE State
  OBVIOUS
<1>2. /\ Top = "VALUE" /\ Len(st.stack) + 2 <= MaxSlots
      /\ Becomes(IF st.status = "reading"
                 THEN [st EXCEPT !.stack = @ \o <<Slot("OP", t), Slot("TOP", 0)>>] ELSE st)
  BY <1>1, Zenon DEF Operator
<1>3. StateOK(st)
  BY <1>1, <1>2, StateIs, ReduceOK DEF Binds
<1>4. CASE st.status = "reading"
  <2>1. PICK s, x, y : s = st.stack /\ x = Slot("OP", t) /\ y = Slot("TOP", 0)
    OBVIOUS
  <2>2. stack' = s \o <<x, y>>
    <3>1. stack' = [st EXCEPT !.stack = @ \o <<Slot("OP", t), Slot("TOP", 0)>>].stack
      BY <1>2, <1>4 DEF Becomes
    <3> QED
      BY <1>3, <2>1, <3>1 DEF StateOK
  <2>3. x.op = "OP" /\ x.value = t /\ y.op = "TOP" /\ x.op \in SlotKinds /\ y.op \in SlotKinds
    BY <2>1 DEF Slot, SlotKinds
  <2>4. x.value \notin UnaryOps
    BY <2>3, ExprAssumption
  <2>5. Fits(s) /\ s[Len(s)].op = "VALUE" /\ Len(s) + 2 <= MaxSlots /\ Len(s) \in Nat /\ MaxSlots \in Nat
    BY <1>2, <1>3, <2>1, ExprAssumption DEF StateOK, Valued, Fits, IsStack
  <2>6. MayFollow(s[Len(s)], x) /\ MayFollow(x, y)
    BY <2>3, <2>4, <2>5 DEF MayFollow
  <2>7. PICK a : a = Append(s, x)
    OBVIOUS
  <2>8. Fits(a) /\ Len(a) = Len(s) + 1 /\ a[Len(s) + 1] = x
    BY <2>3, <2>5, <2>6, <2>7, Pushed
  <2>9. PICK b : b = Append(a, y)
    OBVIOUS
  <2>10. Fits(b) /\ Len(b) = Len(a) + 1 /\ b[Len(a) + 1] = y
    BY <2>3, <2>5, <2>6, <2>8, <2>9, Pushed
  <2>11. b = s \o <<x, y>>
    <3>1. PICK S : S = {s[j] : j \in 1 .. Len(s)} \cup {x, y}
      OBVIOUS
    <3>2. s \in Seq(S) /\ x \in S /\ y \in S
      <4>1. s \in Seq({s[j] : j \in 1 .. Len(s)})
        BY <2>5 DEF Fits, IsStack
      <4>2. {s[j] : j \in 1 .. Len(s)} \subseteq S /\ x \in S /\ y \in S
        BY <3>1
      <4> QED
        BY <4>1, <4>2
    <3> QED
      BY <2>7, <2>9, <3>2
  <2> QED
    BY <2>2, <2>3, <2>10, <2>11, StackInvIf
<1>5. CASE st.status # "reading"
  <2>1. stack' = st.stack
    BY <1>2, <1>5 DEF Becomes
  <2> QED
    BY <1>3, <2>1, StateBecomes
<1> QED
  BY <1>4, <1>5

\* A right parenthesis.
LEMMA RightParenStep == ASSUME StackInv, RightParen PROVE StackInv'
<1>1. PICK st, n : st = ReduceAll(State) /\ n = Len(st.stack)
  OBVIOUS
<1>2. Top = "VALUE"
  BY DEF RightParen
<1>3. StateOK(st)
  BY <1>1, <1>2, StateIs, ReduceAllOK
<1>4. \/ /\ n > 1 /\ st.stack[n - 1].op = "GROUP"
         /\ Becomes([st EXCEPT !.stack = Append(SubSeq(@, 1, n - 2), Slot("VALUE", @[n].value))])
      \/ Becomes(IF st.status = "reading" THEN [st EXCEPT !.status = "error"] ELSE st)
  BY <1>1, Zenon DEF RightParen
<1>5. CASE /\ n > 1 /\ st.stack[n - 1].op = "GROUP"
           /\ Becomes([st EXCEPT !.stack = Append(SubSeq(@, 1, n - 2), Slot("VALUE", @[n].value))])
  <2>1. PICK s, v : s = st.stack /\ v = s[n].value
    OBVIOUS
  <2>2. stack' = Append(SubSeq(s, 1, n - 2), Slot("VALUE", v))
    BY <1>3, <1>5, <2>1 DEF Becomes, StateOK
  <2>3. Fits(s) /\ n - 1 \in 1 .. Len(s) /\ n - 1 - 1 = n - 2 /\ s[n - 1].op = "GROUP"
    BY <1>1, <1>3, <1>5, <2>1 DEF StateOK, Valued, Fits, IsStack
  <2>4. Valued(Append(SubSeq(s, 1, n - 1 - 1), Slot("VALUE", v)))
    BY <2>3, ValueAt
  <2>5. PICK t : t = Append(SubSeq(s, 1, n - 2), Slot("VALUE", v))
    OBVIOUS
  <2>6. Fits(t) /\ t[Len(t)].op = "VALUE"
    BY <2>3, <2>4, <2>5 DEF Valued
  <2> QED
    BY <2>2, <2>5, <2>6, StackInvIf
<1>6. CASE Becomes(IF st.status = "reading" THEN [st EXCEPT !.status = "error"] ELSE st)
  <2>1. stack' = st.stack
    BY <1>3, <1>6 DEF Becomes, StateOK
  <2> QED
    BY <1>3, <2>1, StateBecomes
<1> QED
  BY <1>4, <1>5, <1>6

\* The end of the input.
LEMMA EndStep == ASSUME StackInv, End PROVE StackInv'
<1>1. PICK st : st = ReduceAll(State)
  OBVIOUS
<1>2. Becomes(IF Top = "TOP" THEN [State EXCEPT !.status = "error"]
              ELSE IF st.status # "reading" THEN st
              ELSE IF Len(st.stack) > 1 THEN [st EXCEPT !.status = "error"]
              ELSE [st EXCEPT !.status = "value"])
  BY <1>1, Zenon DEF End
<1>3. CASE Top = "TOP"
  <2>1. stack' = stack
    BY <1>2, <1>3 DEF Becomes, State
  <2> QED
    BY <2>1 DEF StackInv, Top, sp
<1>4. CASE Top # "TOP"
  <2>1. StateOK(st)
    BY <1>1, <1>4, StateIs, ReduceAllOK DEF StackInv
  <2>2. stack' = st.stack
    BY <1>2, <1>4, <2>1 DEF Becomes, StateOK
  <2> QED
    BY <2>1, <2>2, StateBecomes
<1> QED
  BY <1>3, <1>4

\* The stack of one place.
LEMMA ExpectedOK == ASSUME stack' = Expected \/ stack = Expected PROVE (stack = Expected => StackInv) /\ (stack' = Expected => StackInv')
<1>1. PICK s : s = Expected
  OBVIOUS
<1>2. Len(s) = 1 /\ s[1].op = "TOP" /\ s[1].op \in SlotKinds /\ s \in Seq({s[1]})
  BY <1>1 DEF Expected, Slot, SlotKinds
<1>3. s \in Seq({s[j] : j \in 1 .. Len(s)})
  <2>1. {s[1]} \subseteq {s[j] : j \in 1 .. Len(s)}
    BY <1>2
  <2> QED
    BY <1>2, <2>1
<1>4. Fits(s)
  BY <1>2, <1>3, ExprAssumption DEF Fits, IsStack, Shaped
<1> QED
  BY <1>1, <1>2, <1>4 DEF StackInv, Top, sp

\* Every token.
LEMMA TokenStep == StackInv /\ [EvalNext]_evalvars => StackInv'
<1> SUFFICES ASSUME StackInv, [EvalNext]_evalvars PROVE StackInv'
  OBVIOUS
<1>1. ASSUME NEW v \in Numbers, Number(v) PROVE StackInv'
  BY <1>1, ValueStep DEF Number
<1>2. ASSUME NEW v \in Texts, String(v) PROVE StackInv'
  BY <1>2, ValueStep DEF String
<1>3. ASSUME NEW t \in Unary, Prefix(t) PROVE StackInv'
  <2>1. PICK x : x = Slot("OP", t)
    OBVIOUS
  <2>2. x.op = "OP" /\ x.value = t /\ t \in UnaryOps
    BY <2>1, ExprAssumption DEF Slot
  <2>3. Top = "TOP" /\ sp < MaxSlots /\ stack' = Append([stack EXCEPT ![sp] = x], Slot("TOP", 0))
    BY <1>3, <2>1 DEF Prefix
  <2> QED
    BY <2>2, <2>3, PrefixStep
<1>4. ASSUME NEW t \in Binary, Operator(t) PROVE StackInv'
  BY <1>4, OperatorStep
<1>5. CASE LeftParen
  <2>1. PICK x : x = Slot("GROUP", 0)
    OBVIOUS
  <2>2. x.op = "GROUP"
    BY <2>1 DEF Slot
  <2>3. Top = "TOP" /\ sp < MaxSlots /\ stack' = Append([stack EXCEPT ![sp] = x], Slot("TOP", 0))
    BY <1>5, <2>1 DEF LeftParen
  <2> QED
    BY <2>2, <2>3, PrefixStep
<1>6. CASE RightParen
  BY <1>6, RightParenStep
<1>7. CASE End
  BY <1>7, EndStep
<1>8. CASE Begin
  BY <1>8, ExpectedOK DEF Begin
<1>9. CASE SyntaxError \/ UNCHANGED evalvars
  <2>1. stack' = stack
    BY <1>9 DEF SyntaxError, evalvars
  <2> QED
    BY <2>1 DEF StackInv, Top, sp
<1> QED
  BY <1>1, <1>2, <1>3, <1>4, <1>5, <1>6, <1>7, <1>8, <1>9 DEF EvalNext

\* In every evaluation, of any length and over any operators, whatever strings the
\* slots have kept: the stack fits its slots and alternates as reduce_op takes for
\* granted, so its assertions hold and its left operand is one.
THEOREM StackAlwaysSound == EvalSpec => []StackSound
<1>1. EvalInit => StackInv
  BY ExpectedOK DEF EvalInit
<1>2. StackInv => StackSound
  <2> SUFFICES ASSUME StackInv PROVE StackSound
    OBVIOUS
  <2>1. Len(stack) \in Nat \ {0} /\ Len(stack) <= MaxSlots /\ MaxSlots \in Nat
    BY ExprAssumption DEF StackInv, Fits, IsStack
  <2>2. Len(stack) \in Slots
    BY <2>1 DEF Slots
  <2> QED
    BY <2>2 DEF StackInv, StackSound, Fits, Shaped
<1> QED
  BY <1>1, <1>2, TokenStep, PTL DEF EvalSpec

-----------------------------------------------------------------------------
(***************************************************************************)
(* The lists of the symbol table.  A list is a sequence of nodes laid over *)
(* their links.                                                            *)
(***************************************************************************)

\* From x on along a link the nodes of l follow each other.
Follows(N, x, link, l) ==
  /\ l \in Seq(1 .. Len(N))
  /\ \A a, b \in 1 .. Len(l) : l[a] = l[b] => a = b
  /\ Len(l) = 0 => x = NoNode
  /\ Len(l) # 0 => x = l[1]
  /\ \A j \in 1 .. Len(l) : N[l[j]][link] = IF j = Len(l) THEN NoNode ELSE l[j + 1]

\* A list is not longer than there are nodes.
LEMMA ListFits ==
  ASSUME NEW n \in Nat, NEW l \in Seq(1 .. n), \A a, b \in 1 .. Len(l) : l[a] = l[b] => a = b
  PROVE  Len(l) \in Nat /\ Len(l) <= n
<1>1. PICK g : g = Len(l)
  OBVIOUS
<1>2. g \in Nat /\ 1 \in Int /\ g \in Int /\ n \in Int
  BY <1>1
<1>3. l \in [1 .. g -> 1 .. n] /\ \A a, b \in 1 .. g : l[a] = l[b] => a = b
  BY <1>1
<1>4. l \in Injection(1 .. g, 1 .. n)
  BY <1>3, Zenon DEF Injection, IsInjective
<1>5. IsFiniteSet(1 .. n)
  BY <1>2, FS_Interval
<1>6. Cardinality(1 .. g) <= Cardinality(1 .. n)
  BY <1>4, <1>5, FS_Injection
<1>7. Cardinality(1 .. g) = (IF 1 > g THEN 0 ELSE g - 1 + 1) /\ Cardinality(1 .. n) = (IF 1 > n THEN 0 ELSE n - 1 + 1)
  BY <1>2, FS_Interval, Zenon
<1> QED
  BY <1>1, <1>2, <1>6, <1>7

\* The loops along a link meet the nodes of the list.
LEMMA AlongIs ==
  ASSUME NEW N, NEW n \in Nat, n = Len(N), NEW x, NEW link, NEW l, Follows(N, x, link, l)
  PROVE  Along(N, x, link) = l
<1>1. PICK g : g = Len(l)
  OBVIOUS
<1>2. /\ l \in Seq(1 .. n) /\ g \in Nat
      /\ (g = 0 => x = NoNode) /\ (g # 0 => x = l[1])
      /\ \A j \in 1 .. g : N[l[j]][link] = IF j = g THEN NoNode ELSE l[j + 1]
  BY <1>1 DEF Follows
<1>3. g <= n
  BY <1>1, <1>2, ListFits DEF Follows
<1>4. \A j \in 1 .. g : l[j] \in 1 .. n /\ l[j] # NoNode
  BY <1>1, <1>2 DEF NoNode
<1> DEFINE Turn(at, i) == IF i = 0 THEN x ELSE IF at[i - 1] = NoNode THEN NoNode ELSE N[at[i - 1]][link]
           Eq(at) == at = [i \in 0 .. Len(N) |-> Turn(at, i)]
           e == CHOOSE at : Eq(at)
           w == [i \in 0 .. n |-> IF i < g THEN l[i + 1] ELSE NoNode]
<1>5. ASSUME NEW at, \A i \in 0 .. n : i > 0 => at[i - 1] = w[i - 1], NEW i \in 0 .. n PROVE Turn(at, i) = w[i]
  <2>1. CASE i = 0
    BY <1>2, <2>1
  <2>2. CASE i > 0 /\ i - 1 < g
    <3>1. i - 1 \in 0 .. n /\ i \in 1 .. g /\ i - 1 + 1 = i /\ (i < g <=> i # g)
      BY <1>2, <2>2
    <3>2. w[i - 1] = l[i] /\ w[i] = IF i = g THEN NoNode ELSE l[i + 1]
      BY <3>1, <2>2
    <3> HIDE DEF w
    <3>3. at[i - 1] = l[i] /\ i # 0
      BY <1>5, <2>2, <3>2
    <3> QED
      BY <1>2, <1>4, <3>1, <3>2, <3>3
  <2>3. CASE i > 0 /\ ~ (i - 1 < g)
    <3>1. i - 1 \in 0 .. n /\ ~ (i < g)
      BY <1>2, <2>3
    <3>2. w[i - 1] = NoNode /\ w[i] = NoNode
      BY <2>3, <3>1
    <3> HIDE DEF w
    <3> QED
      BY <1>5, <2>3, <3>2
  <2> QED
    BY <1>2, <2>1, <2>2, <2>3
<1>6. Eq(w)
  <2>1. \A i \in 0 .. n : Turn(w, i) = w[i]
    BY <1>5
  <2> HIDE DEF Turn
  <2>2. w = [i \in 0 .. n |-> w[i]]
    OBVIOUS
  <2> HIDE DEF w
  <2> QED
    BY <2>1, <2>2, Zenon
<1> HIDE DEF Eq
<1>7. Eq(e)
  BY <1>6, Zenon
<1> HIDE DEF e
<1>8. PICK at : at = e
  OBVIOUS
<1>9. at = [i \in 0 .. n |-> Turn(at, i)]
  BY <1>7, <1>8 DEF Eq
<1>10. \A i \in 0 .. n : at[i] = w[i]
  <2> DEFINE S == {i \in 0 .. n : at[i] = w[i]}
  <2>1. 0 \in S
    <3>1. at[0] = x /\ w[0] = x
      BY <1>2, <1>9
    <3> QED
      BY <3>1
  <2>2. ASSUME NEW i \in 1 .. n, i - 1 \in S PROVE i \in S
    <3>1. at[i - 1] = w[i - 1] /\ i \in 0 .. n
      BY <2>2
    <3>2. at[i] = Turn(at, i)
      BY <1>9, <3>1
    <3> HIDE DEF S
    <3>3. PICK bt : bt = [j \in 0 .. n |-> IF j = i - 1 THEN at[i - 1] ELSE w[j]]
      OBVIOUS
    <3>4. \A j \in 0 .. n : j > 0 => bt[j - 1] = w[j - 1]
      BY <3>1, <3>3
    <3>5. Turn(bt, i) = w[i]
      BY <1>5, <3>1, <3>4
    <3>6. i # 0 /\ bt[i - 1] = at[i - 1]
      BY <3>3
    <3>7. Turn(bt, i) = Turn(at, i)
      BY <3>6
    <3> QED
      BY <3>1, <3>2, <3>5, <3>7 DEF S
  <2> HIDE DEF S
  <2>3. \A i \in 0 .. n : i \in S
    BY <2>1, <2>2, UpToAll
  <2> QED
    BY <2>3 DEF S
<1> DEFINE met == Cardinality({i \in 0 .. Len(N) : e[i] # NoNode})
<1>11. met = g
  <2>1. {i \in 0 .. Len(N) : e[i] # NoNode} = 0 .. g - 1
    <3>0. \A i \in 0 .. n : i < g => i + 1 \in 1 .. g
      BY <1>2
    <3>1. \A i \in 0 .. n : at[i] # NoNode <=> i < g
      BY <1>4, <1>10, <3>0
    <3> HIDE DEF w
    <3> QED
      BY <1>2, <1>3, <1>8, <3>1
  <2>2. 0 \in Int /\ g - 1 \in Int
    BY <1>2
  <2>3. Cardinality(0 .. g - 1) = IF 0 > g - 1 THEN 0 ELSE g - 1 - 0 + 1
    BY <2>2, FS_Interval, Zenon
  <2>4. (IF 0 > g - 1 THEN 0 ELSE g - 1 - 0 + 1) = g
    <3>1. g \in Nat
      BY <1>2
    <3> QED
      BY <3>1
  <2> QED
    BY <2>1, <2>3, <2>4, Zenon
<1>12. Along(N, x, link) = [i \in 1 .. met |-> e[i - 1]]
  BY Zenon DEF Along, e, Eq, Turn
<1>13. \A i \in 1 .. g : e[i - 1] = l[i]
  <2>1. \A i \in 1 .. g : i - 1 \in 0 .. n /\ i - 1 < g /\ i - 1 + 1 = i
    BY <1>2, <1>3
  <2> QED
    BY <1>8, <1>10, <2>1
<1>14. [i \in 1 .. g |-> e[i - 1]] = l
  BY <1>1, <1>2, <1>13
<1> QED
  BY <1>11, <1>12, <1>14

NodeType ==
  [kind : Kinds, decl : Nat, symtab : Scopes \cup {"none"}, error : BOOLEAN,
   nextSibling : Nat, previousSibling : Nat, overloaded : Nat, overname : Seq(Int)]

\* l is the list of scope s, whose first node is e.
ListOK(N, e, s, l) ==
  /\ Follows(N, e, "nextSibling", l)
  /\ \A j \in 1 .. Len(l) : /\ N[l[j]].previousSibling = IF j = 1 THEN NoNode ELSE l[j - 1]
                            /\ N[l[j]].overname = <<j - 1>>
  /\ \A y \in 1 .. Len(N) : N[y].symtab = s <=> \E j \in 1 .. Len(l) : l[j] = y

\* A node in no table has no link and no overname.
Unused(r) ==
  r.symtab = "none" => /\ r.overname = <<>>
                       /\ r.nextSibling = NoNode /\ r.previousSibling = NoNode /\ r.overloaded = NoNode

Loose(N) == \A y \in 1 .. Len(N) : Unused(N[y])

TablesOK(N, E) ==
  /\ N \in Seq(NodeType) /\ E \in [Scopes -> Nat] /\ Loose(N)
  /\ \A s \in Scopes : \E l : ListOK(N, E[s], s, l)

\* What a step that adds to a list or removes from one leaves alone.
SameNodes(N, M) ==
  /\ M \in Seq(NodeType) /\ Len(M) = Len(N)
  /\ \A y \in 1 .. Len(N) : M[y].kind = N[y].kind /\ M[y].decl = N[y].decl /\ M[y].error = N[y].error

\* Node y is where it was, between the same nodes.
SameLinks(N, M, y) ==
  /\ M[y].symtab = N[y].symtab /\ M[y].overname = N[y].overname
  /\ M[y].nextSibling = N[y].nextSibling /\ M[y].previousSibling = N[y].previousSibling
  /\ M[y].overloaded = N[y].overloaded

\* Scope s has the nodes it had, where they were.
SameScope(N, M, s) ==
  /\ \A y \in 1 .. Len(N) : N[y].symtab = s => SameLinks(N, M, y)
  /\ \A y \in 1 .. Len(N) : M[y].symtab = s => N[y].symtab = s

\* The nodes of a list are nodes.
LEMMA ListNodes ==
  ASSUME NEW N, NEW e, NEW s, NEW l, ListOK(N, e, s, l)
  PROVE  /\ Len(l) \in Nat /\ l \in Seq(1 .. Len(N))
         /\ \A j \in 1 .. Len(l) : l[j] \in 1 .. Len(N) /\ N[l[j]].symtab = s
         /\ \A a, b \in 1 .. Len(l) : l[a] = l[b] => a = b
         /\ (Len(l) = 0 => e = NoNode) /\ (Len(l) # 0 => e = l[1])
  BY DEF ListOK, Follows

\* A list stays as long as its nodes do.
LEMMA ListStays ==
  ASSUME NEW N, NEW M, Len(M) = Len(N), NEW e, NEW s, NEW l, ListOK(N, e, s, l), SameScope(N, M, s)
  PROVE  ListOK(M, e, s, l)
<1>1. \A j \in 1 .. Len(l) : SameLinks(N, M, l[j])
  BY ListNodes DEF SameScope
<1>2. Follows(M, e, "nextSibling", l)
  BY <1>1 DEF ListOK, Follows, SameLinks
<1>3. \A j \in 1 .. Len(l) : /\ M[l[j]].previousSibling = IF j = 1 THEN NoNode ELSE l[j - 1]
                             /\ M[l[j]].overname = <<j - 1>>
  BY <1>1 DEF ListOK, SameLinks
<1>4. \A y \in 1 .. Len(M) : M[y].symtab = s <=> \E j \in 1 .. Len(l) : l[j] = y
  BY DEF ListOK, SameLinks, SameScope
<1> QED
  BY <1>2, <1>3, <1>4 DEF ListOK

\* The lists of all scopes but s stay.
LEMMA OtherLists ==
  ASSUME NEW N, NEW E, TablesOK(N, E), NEW M, Len(M) = Len(N), NEW s \in Scopes, NEW t \in Scopes, t # s,
         SameScope(N, M, t)
  PROVE  \E l : ListOK(M, E[t], t, l)
<1>1. PICK e, l : e = E[t] /\ ListOK(N, E[t], t, l)
  BY DEF TablesOK
<1>2. ListOK(N, e, t, l)
  BY <1>1
<1>3. ListOK(M, e, t, l)
  BY <1>2, ListStays
<1> QED
  BY <1>1, <1>3

\* Node n joins a list of g nodes behind last.
Joins(N, M, n, last, s, g) ==
  /\ SameNodes(N, M)
  /\ M[n].symtab = s /\ M[n].overname = <<g>>
  /\ M[n].previousSibling = last /\ M[n].nextSibling = NoNode
  /\ g > 0 => /\ M[last].nextSibling = n
              /\ M[last].symtab = N[last].symtab /\ M[last].overname = N[last].overname
              /\ M[last].previousSibling = N[last].previousSibling
  /\ \A y \in 1 .. Len(N) : y # n /\ y # last => SameLinks(N, M, y)

LEMMA JoinedList ==
  ASSUME NEW N, NEW M, NEW s \in Scopes, NEW e, NEW l, ListOK(N, e, s, l), NEW n \in 1 .. Len(N), N[n].symtab = "none",
         NEW last, last = (IF Len(l) = 0 THEN NoNode ELSE l[Len(l)]),
         Joins(N, M, n, last, s, Len(l)), Len(N) \in Nat
  PROVE  ListOK(M, IF Len(l) = 0 THEN n ELSE e, s, Append(l, n))
<1>1. PICK g, q : g = Len(l) /\ q = Append(l, n)
  OBVIOUS
<1>2. /\ g \in Nat /\ l \in Seq(1 .. Len(N)) /\ \A j \in 1 .. g : l[j] \in 1 .. Len(N) /\ N[l[j]].symtab = s
      /\ \A a, b \in 1 .. g : l[a] = l[b] => a = b
  BY <1>1, ListNodes
<1>3. q \in Seq(1 .. Len(N)) /\ Len(q) = g + 1 /\ q[g + 1] = n /\ \A j \in 1 .. g : q[j] = l[j] /\ q[j] # n
  <2>1. s # "none"
    BY DEF Scopes
  <2> QED
    BY <1>1, <1>2, <2>1
<1>4. \A a, b \in 1 .. g + 1 : q[a] = q[b] => a = b
  <2>1. \A a \in 1 .. g + 1 : a = g + 1 \/ a \in 1 .. g
    BY <1>2
  <2> QED
    BY <1>2, <1>3, <2>1
<1>5. g > 0 => last = q[g] /\ g \in 1 .. g /\ \A j \in 1 .. g : j # g => q[j] # last
  BY <1>1, <1>2, <1>3
<1>6. /\ SameNodes(N, M) /\ M[n].symtab = s /\ M[n].overname = <<g>>
      /\ M[n].previousSibling = last /\ M[n].nextSibling = NoNode
      /\ g > 0 => /\ M[last].nextSibling = n
                  /\ M[last].symtab = N[last].symtab /\ M[last].overname = N[last].overname
                  /\ M[last].previousSibling = N[last].previousSibling
      /\ \A y \in 1 .. Len(N) : y # n /\ y # last => SameLinks(N, M, y)
  BY <1>1 DEF Joins
<1>7. \A j \in 1 .. g : /\ N[l[j]].nextSibling = IF j = g THEN NoNode ELSE l[j + 1]
                        /\ N[l[j]].previousSibling = IF j = 1 THEN NoNode ELSE l[j - 1]
                        /\ N[l[j]].overname = <<j - 1>>
  BY <1>1 DEF ListOK, Follows
<1>8. ASSUME NEW j \in 1 .. g + 1
      PROVE  /\ M[q[j]].nextSibling = IF j = g + 1 THEN NoNode ELSE q[j + 1]
             /\ M[q[j]].previousSibling = IF j = 1 THEN NoNode ELSE q[j - 1]
             /\ M[q[j]].overname = <<j - 1>>
  <2>1. CASE j = g + 1
    <3>1. q[j] = n /\ j - 1 = g /\ (g = 0 => last = NoNode) /\ (g > 0 => q[j - 1] = last) /\ (j = 1 <=> g = 0)
      BY <1>1, <1>2, <1>3, <1>5, <2>1
    <3> QED
      BY <1>2, <1>6, <2>1, <3>1
  <2>2. CASE j = g
    <3>1. j > 0 /\ j \in 1 .. g /\ j # g + 1 /\ q[j] = last /\ q[j + 1] = n /\ last = l[j]
          /\ (j # 1 => j - 1 \in 1 .. g)
      BY <1>1, <1>2, <1>3, <1>5, <2>2
    <3> QED
      BY <1>3, <1>6, <1>7, <2>2, <3>1
  <2>3. CASE j # g + 1 /\ j # g
    <3>1. j \in 1 .. g /\ j + 1 \in 1 .. g /\ (j # 1 => j - 1 \in 1 .. g) /\ g > 0
      BY <1>2, <2>3
    <3>2. q[j] = l[j] /\ q[j] # n /\ q[j] # last /\ q[j + 1] = l[j + 1] /\ (j # 1 => q[j - 1] = l[j - 1])
      BY <1>3, <1>5, <2>3, <3>1
    <3>3. SameLinks(N, M, l[j])
      BY <1>2, <1>6, <3>1, <3>2
    <3> QED
      BY <1>7, <2>3, <3>1, <3>2, <3>3 DEF SameLinks
  <2> QED
    BY <2>1, <2>2, <2>3
<1>9. ASSUME NEW y \in 1 .. Len(N) PROVE M[y].symtab = s <=> \E j \in 1 .. g + 1 : q[j] = y
  <2>1. N[y].symtab = s <=> \E j \in 1 .. g : l[j] = y
    BY <1>1 DEF ListOK
  <2>2. y # n => M[y].symtab = N[y].symtab
    <3>1. g > 0 \/ last # y
      BY <1>1, <1>2 DEF NoNode
    <3> QED
      BY <1>6, <3>1 DEF SameLinks
  <2>3. \A j \in 1 .. g : j \in 1 .. g + 1
    BY <1>2
  <2>4. \A j \in 1 .. g + 1 : j = g + 1 \/ j \in 1 .. g
    BY <1>2
  <2>5. g + 1 \in 1 .. g + 1
    BY <1>2
  <2> QED
    BY <1>3, <1>6, <2>1, <2>2, <2>3, <2>4, <2>5
<1>10. Len(M) = Len(N)
  BY <1>6 DEF SameNodes
<1>11. q[1] = IF g = 0 THEN n ELSE e
  BY <1>1, <1>2, <1>3, ListNodes
<1>12. Follows(M, q[1], "nextSibling", q)
  BY <1>2, <1>3, <1>4, <1>8, <1>10 DEF Follows
<1>13. ListOK(M, q[1], s, q)
  BY <1>3, <1>8, <1>9, <1>10, <1>12 DEF ListOK
<1> QED
  BY <1>1, <1>11, <1>13

\* Node n is in the table of s now, nothing else has changed.
Added(N, E, s, n, M, F) ==
  /\ TablesOK(M, F) /\ M[n].symtab = s /\ SameNodes(N, M)
  /\ \A y \in 1 .. Len(N) : y # n => M[y].symtab = N[y].symtab
  /\ F[s] = IF E[s] = NoNode THEN n ELSE E[s]
  /\ \A t \in Scopes : t # s => F[t] = E[t]

\* The last node of a list, and the first when n has joined it.
IsLast(l, last) == last = IF Len(l) = 0 THEN NoNode ELSE l[Len(l)]
EntryIs(E, F, s, n, l) ==
  /\ F \in [Scopes -> Nat] /\ F[s] = (IF Len(l) = 0 THEN n ELSE E[s])
  /\ \A t \in Scopes : t # s => F[t] = E[t]

\* The tables when a node has joined list l.
LEMMA JoinedTables ==
  ASSUME NEW N, NEW E, TablesOK(N, E), NEW M, NEW s \in Scopes, NEW l, ListOK(N, E[s], s, l),
         NEW n \in 1 .. Len(N), N[n].symtab = "none", NEW last, IsLast(l, last),
         Joins(N, M, n, last, s, Len(l)), NEW F, EntryIs(E, F, s, n, l)
  PROVE  Added(N, E, s, n, M, F)
<1>1. N \in Seq(NodeType) /\ Len(N) \in Nat /\ E \in [Scopes -> Nat] /\ s # "none"
  BY DEF TablesOK, Scopes
<1>2. F \in [Scopes -> Nat] /\ F[s] = (IF Len(l) = 0 THEN n ELSE E[s]) /\ \A t \in Scopes : t # s => F[t] = E[t]
  BY DEF EntryIs
<1>3. ListOK(M, F[s], s, Append(l, n))
  <2>1. PICK e : e = E[s]
    OBVIOUS
  <2>2. ListOK(M, IF Len(l) = 0 THEN n ELSE e, s, Append(l, n))
    BY <1>1, <2>1, JoinedList DEF IsLast
  <2> QED
    BY <1>2, <2>1, <2>2
<1>4. SameNodes(N, M) /\ M[n].symtab = s
  BY DEF Joins
<1>5. ASSUME NEW y \in 1 .. Len(N), y # n PROVE M[y].symtab = N[y].symtab /\ (N[y].symtab # s => SameLinks(N, M, y))
  <2>1. Len(l) > 0 \/ (Len(l) = 0 /\ y # last)
    BY <1>1, ListNodes DEF NoNode, IsLast
  <2>2. Len(l) > 0 => N[last].symtab = s
    <3>1. Len(l) \in Nat /\ \A j \in 1 .. Len(l) : N[l[j]].symtab = s
      BY ListNodes
    <3>2. Len(l) > 0 => Len(l) \in 1 .. Len(l) /\ last = l[Len(l)]
      BY <3>1 DEF IsLast
    <3> QED
      BY <3>1, <3>2
  <2>3. y # last => SameLinks(N, M, y)
    BY <1>5 DEF Joins
  <2>4. Len(l) > 0 => M[last].symtab = N[last].symtab
    BY DEF Joins
  <2> QED
    BY <2>1, <2>2, <2>3, <2>4 DEF SameLinks
<1>6. Loose(M)
  <2>1. ASSUME NEW y \in 1 .. Len(M) PROVE Unused(M[y])
    <3>1. y \in 1 .. Len(N)
      BY <1>4, <2>1 DEF SameNodes
    <3>2. Unused(N[y])
      BY <3>1 DEF TablesOK, Loose
    <3>3. y = n => Unused(M[y])
      BY <1>1, <1>4 DEF Unused
    <3> QED
      BY <1>1, <1>5, <3>1, <3>2, <3>3 DEF Unused, SameLinks
  <2> QED
    BY <2>1 DEF Loose
<1>7. ASSUME NEW t \in Scopes PROVE \E q : ListOK(M, F[t], t, q)
  <2>1. CASE t = s
    BY <1>3, <2>1
  <2>2. CASE t # s
    <3>1. t # "none"
      BY DEF Scopes
    <3>2. SameScope(N, M, t)
      BY <1>4, <1>5, <2>2, <3>1 DEF SameScope
    <3>3. Len(M) = Len(N)
      BY <1>4 DEF SameNodes
    <3> QED
      BY <1>2, <2>2, <3>2, <3>3, OtherLists
  <2> QED
    BY <2>1, <2>2
<1>8. TablesOK(M, F)
  BY <1>2, <1>4, <1>6, <1>7 DEF TablesOK, SameNodes
<1>9. E[s] = NoNode <=> Len(l) = 0
  <2>1. PICK e : e = E[s]
    OBVIOUS
  <2>2. /\ Len(l) \in Nat /\ \A j \in 1 .. Len(l) : l[j] \in 1 .. Len(N)
        /\ (Len(l) = 0 => e = NoNode) /\ (Len(l) # 0 => e = l[1])
    BY <2>1, ListNodes
  <2> QED
    BY <1>1, <2>1, <2>2 DEF NoNode
<1> QED
  BY <1>2, <1>4, <1>5, <1>8, <1>9 DEF Added

\* A function over the places of a sequence.
Over(N, M) == M = [y \in DOMAIN N |-> M[y]]

LEMMA SeqIs ==
  ASSUME NEW T, NEW N \in Seq(T), NEW S, NEW M, Over(N, M), \A y \in 1 .. Len(N) : M[y] \in S
  PROVE  M \in Seq(S) /\ Len(M) = Len(N)
<1>1. PICK n : n = Len(N)
  OBVIOUS
<1>2. n \in Nat /\ DOMAIN N = 1 .. n
  BY <1>1
<1>3. M = [y \in 1 .. n |-> M[y]] /\ \A y \in 1 .. n : M[y] \in S
  BY <1>1, <1>2 DEF Over
<1> QED
  BY <1>1, <1>2, <1>3

\* Node n gets another table and overname, or becomes the one behind last.
SetPlace(N, n, s, o) == [N EXCEPT ![n].symtab = s, ![n].overname = o]

Enter(r, s, o) == [r EXCEPT !.symtab = s, !.overname = o]
EnterBehind(r, s, o, x, c) == [r EXCEPT !.symtab = s, !.overname = o, !.previousSibling = x, !.overloaded = c]
GetNext(r, x, c) == [r EXCEPT !.nextSibling = x, !.overloaded = c]

Behind(N, n, s, last, c, g) ==
  [i \in DOMAIN N |-> CASE i = n    -> [N[i] EXCEPT !.symtab = s, !.overname = <<g>>,
                                                    !.previousSibling = last, !.overloaded = c]
                        [] i = last -> [N[i] EXCEPT !.nextSibling = n, !.overloaded = c]
                        [] OTHER    -> N[i]]

\* Two nodes are the same but for their place in the lists.
SameThing(q, r) == q \in NodeType /\ q.kind = r.kind /\ q.decl = r.decl /\ q.error = r.error

\* The fields of a node that enters a table or leaves one.
LEMMA Entered ==
  ASSUME NEW r \in NodeType, NEW s \in Scopes \cup {"none"}, NEW o \in Seq(Int), NEW q, q = Enter(r, s, o)
  PROVE  /\ SameThing(q, r) /\ q.symtab = s /\ q.overname = o
         /\ q.nextSibling = r.nextSibling /\ q.previousSibling = r.previousSibling
         /\ q.overloaded = r.overloaded
  BY DEF NodeType, Enter, SameThing

\* Node r in scope s, behind x.
InTable(q, r, s, o, x) ==
  /\ SameThing(q, r) /\ q.symtab = s /\ q.overname = o
  /\ q.nextSibling = r.nextSibling /\ q.previousSibling = x

LEMMA EnteredBehind ==
  ASSUME NEW r \in NodeType, NEW s \in Scopes, NEW o \in Seq(Int), NEW x \in Nat, NEW c \in Nat
  PROVE  InTable(EnterBehind(r, s, o, x, c), r, s, o, x)
  BY DEF NodeType, EnterBehind, SameThing, InTable

LEMMA GotNext ==
  ASSUME NEW r \in NodeType, NEW x \in Nat, NEW c \in Nat, NEW q, q = GetNext(r, x, c)
  PROVE  /\ SameThing(q, r) /\ q.symtab = r.symtab /\ q.overname = r.overname
         /\ q.nextSibling = x /\ q.previousSibling = r.previousSibling
  BY DEF NodeType, GetNext, SameThing

\* What becomes of the nodes.
LEMMA PlacedNodes ==
  ASSUME NEW T, NEW N \in Seq(T), NEW n \in 1 .. Len(N), NEW s, NEW o, NEW M, M = SetPlace(N, n, s, o)
  PROVE  /\ Over(N, M) /\ M[n] = Enter(N[n], s, o)
         /\ \A y \in 1 .. Len(N) : y # n => M[y] = N[y]
<1>1. PICK L : L = [N EXCEPT ![n].symtab = s]
  OBVIOUS
<1>2. DOMAIN L = DOMAIN N /\ DOMAIN N = 1 .. Len(N)
      /\ L[n] = [N[n] EXCEPT !.symtab = s] /\ \A y \in 1 .. Len(N) : y # n => L[y] = N[y]
  BY <1>1
<1>3. PICK K : K = [L EXCEPT ![n].overname = o]
  OBVIOUS
<1>4. K[n] = [L[n] EXCEPT !.overname = o] /\ \A y \in 1 .. Len(N) : y # n => K[y] = L[y]
  BY <1>2, <1>3
<1>5. K = [y \in DOMAIN N |-> K[y]]
  BY <1>2, <1>3
<1>6. SetPlace(N, n, s, o) = K
  BY <1>1, <1>3 DEF SetPlace
<1>7. M = K
  BY <1>6
<1>8. M[n] = Enter(N[n], s, o)
  BY <1>2, <1>4, <1>7 DEF Enter
<1> QED
  BY <1>2, <1>4, <1>5, <1>7, <1>8 DEF Over

Placed(N, M, n, s, o) ==
  /\ M \in Seq(NodeType) /\ Len(M) = Len(N)
  /\ SameThing(M[n], N[n]) /\ M[n].symtab = s /\ M[n].overname = o
  /\ M[n].nextSibling = N[n].nextSibling /\ M[n].previousSibling = N[n].previousSibling
  /\ M[n].overloaded = N[n].overloaded
  /\ \A y \in 1 .. Len(N) : y # n => M[y] = N[y]

LEMMA PlacedOK ==
  ASSUME NEW N \in Seq(NodeType), NEW n \in 1 .. Len(N), NEW s \in Scopes \cup {"none"}, NEW o \in Seq(Int),
         NEW M, M = SetPlace(N, n, s, o)
  PROVE  Placed(N, M, n, s, o)
<1>1. Over(N, M) /\ M[n] = Enter(N[n], s, o) /\ \A y \in 1 .. Len(N) : y # n => M[y] = N[y]
  BY PlacedNodes
<1>2. /\ SameThing(M[n], N[n]) /\ M[n].symtab = s /\ M[n].overname = o
      /\ M[n].nextSibling = N[n].nextSibling /\ M[n].previousSibling = N[n].previousSibling
      /\ M[n].overloaded = N[n].overloaded
  <2>1. PICK q, r : q = M[n] /\ r = N[n]
    OBVIOUS
  <2>2. r \in NodeType /\ q = Enter(r, s, o)
    BY <1>1, <2>1
  <2>3. SameThing(q, r) /\ q.symtab = s /\ q.overname = o /\ q.nextSibling = r.nextSibling
         /\ q.previousSibling = r.previousSibling /\ q.overloaded = r.overloaded
    BY <2>2, Entered
  <2> QED
    BY <2>1, <2>3
<1>3. \A y \in 1 .. Len(N) : N[y] \in NodeType
  OBVIOUS
<1>4. \A y \in 1 .. Len(N) : M[y] \in NodeType
  BY <1>1, <1>2, <1>3 DEF SameThing
<1>5. M \in Seq(NodeType) /\ Len(M) = Len(N)
  BY <1>1, <1>4, SeqIs
<1> QED
  BY <1>1, <1>2, <1>5 DEF Placed

LEMMA BehindNodes ==
  ASSUME NEW T, NEW N \in Seq(T), NEW n \in 1 .. Len(N), NEW s, NEW last \in 1 .. Len(N), last # n, NEW c, NEW g,
         NEW M, M = Behind(N, n, s, last, c, g)
  PROVE  /\ Over(N, M) /\ M[n] = EnterBehind(N[n], s, <<g>>, last, c)
         /\ M[last] = GetNext(N[last], n, c)
         /\ \A y \in 1 .. Len(N) : y # n /\ y # last => M[y] = N[y]
<1>1. DOMAIN N = 1 .. Len(N)
  OBVIOUS
<1> QED
  BY <1>1 DEF Behind, EnterBehind, GetNext, Over

\* The overname of the first node of a list.
FirstName == <<0>>

\* What the program does to the first node of a list.
LEMMA FirstJoins ==
  ASSUME NEW N \in Seq(NodeType), NEW n \in 1 .. Len(N), Unused(N[n]), N[n].symtab = "none", NEW s \in Scopes,
         NEW M, M = SetPlace(N, n, s, FirstName)
  PROVE  Joins(N, M, n, NoNode, s, 0)
<1>1. PICK o : o = <<0>> /\ o = FirstName
  BY DEF FirstName
<1>2. M = SetPlace(N, n, s, o) /\ o \in Seq(Int) /\ s \in Scopes \cup {"none"}
  <2>1. M = SetPlace(N, n, s, o)
    BY <1>1, Zenon
  <2> QED
    BY <1>1, <2>1
<1>3. /\ M \in Seq(NodeType) /\ Len(M) = Len(N)
      /\ SameThing(M[n], N[n]) /\ M[n].symtab = s /\ M[n].overname = o
      /\ M[n].nextSibling = N[n].nextSibling /\ M[n].previousSibling = N[n].previousSibling
      /\ \A y \in 1 .. Len(N) : y # n => M[y] = N[y]
  <2>1. Placed(N, M, n, s, o)
    BY ONLY <1>2, N \in Seq(NodeType), n \in 1 .. Len(N), PlacedOK
  <2> QED
    BY ONLY <2>1 DEF Placed
<1>4. SameNodes(N, M)
  BY <1>3 DEF SameNodes, SameThing
<1>5. N[n].nextSibling = NoNode /\ N[n].previousSibling = NoNode
  BY DEF Unused
<1>6. \A y \in 1 .. Len(N) : y # n => SameLinks(N, M, y)
  BY <1>3 DEF SameLinks
<1> QED
  BY <1>1, <1>3, <1>4, <1>5, <1>6 DEF Joins

\* What the program does to a node behind the last of a list.
LEMMA BehindJoins ==
  ASSUME NEW N \in Seq(NodeType), NEW n \in 1 .. Len(N), Unused(N[n]), N[n].symtab = "none", NEW s \in Scopes,
         NEW last \in 1 .. Len(N), last # n, NEW c \in Nat, NEW g \in Nat,
         NEW M, M = Behind(N, n, s, last, c, g)
  PROVE  Joins(N, M, n, last, s, g)
<1>1. PICK q, r, p, w : q = M[n] /\ r = N[n] /\ p = M[last] /\ w = N[last]
  OBVIOUS
<1>2. /\ Over(N, M) /\ q = EnterBehind(r, s, <<g>>, last, c) /\ p = GetNext(w, n, c)
      /\ \A y \in 1 .. Len(N) : y # n /\ y # last => M[y] = N[y]
  BY <1>1, BehindNodes
<1>3. r \in NodeType /\ w \in NodeType /\ last \in Nat /\ n \in Nat
  BY <1>1
<1>4. /\ SameThing(q, r) /\ q.symtab = s /\ q.overname = <<g>>
      /\ q.nextSibling = r.nextSibling /\ q.previousSibling = last
  <2>1. PICK o : o = <<g>>
    OBVIOUS
  <2>2. o \in Seq(Int) /\ q = EnterBehind(r, s, o, last, c) /\ c \in Nat
    BY <1>2, <2>1
  <2>3. InTable(EnterBehind(r, s, o, last, c), r, s, o, last)
    BY <1>3, <2>2, EnteredBehind, Zenon
  <2> QED
    BY <2>1, <2>2, <2>3 DEF InTable
<1>5. /\ SameThing(p, w) /\ p.symtab = w.symtab /\ p.overname = w.overname
      /\ p.nextSibling = n /\ p.previousSibling = w.previousSibling
  BY <1>2, <1>3, GotNext
<1>6. \A y \in 1 .. Len(N) : N[y] \in NodeType
  OBVIOUS
<1>7. \A y \in 1 .. Len(N) : y = n \/ y = last \/ M[y] = N[y]
  BY <1>2
<1>8. \A y \in 1 .. Len(N) : M[y] \in NodeType
  BY <1>1, <1>4, <1>5, <1>6, <1>7 DEF SameThing
<1>9. M \in Seq(NodeType) /\ Len(M) = Len(N)
  BY <1>2, <1>8, SeqIs
<1>10. SameNodes(N, M)
  BY <1>1, <1>4, <1>5, <1>7, <1>9 DEF SameNodes, SameThing
<1>11. r.nextSibling = NoNode
  BY <1>1 DEF Unused
<1>12. \A y \in 1 .. Len(N) : y # n /\ y # last => SameLinks(N, M, y)
  BY <1>7 DEF SameLinks
<1> QED
  BY <1>1, <1>4, <1>5, <1>10, <1>11, <1>12 DEF Joins

\* What Swig_symbol_add compares a declaration with.
Compared(N, e, s, n, x) ==
  \/ /\ x = NoNode
     /\ \/ "using" \in {N[e].kind, N[n].kind}
        \/ /\ "variable" \notin {N[e].kind, N[n].kind}
           /\ \A y \in 1 .. Len(N) : N[y].symtab = s => ~ SameDecl(N[y], N[n])
  \/ /\ x \in 1 .. Len(N) /\ N[x].symtab = s /\ "using" \notin {N[e].kind, N[n].kind}
     /\ \/ x = e /\ "variable" \in {N[e].kind, N[n].kind}
        \/ "variable" \notin {N[e].kind, N[n].kind} /\ SameDecl(N[x], N[n])

Clash(N, c, n, list) ==
  LET same == {i \in 1 .. Len(list) : SameDecl(N[list[i]], N[n])}
  IN  IF "using" \in {N[c].kind, N[n].kind} THEN NoNode
      ELSE IF "variable" \in {N[c].kind, N[n].kind} THEN c
      ELSE IF same = {} THEN NoNode
      ELSE list[CHOOSE i \in same : \A j \in same : i <= j]

LEMMA ConflictIs ==
  ASSUME NEW N \in Seq(NodeType), NEW e, NEW s, NEW l, ListOK(N, e, s, l), Len(l) # 0, NEW n
  PROVE  Compared(N, e, s, n, Conflict(N, e, n))
<1>1. PICK g : g = Len(l)
  OBVIOUS
<1>2. /\ g \in Nat /\ 1 \in 1 .. g /\ e = l[1] /\ l \in Seq(1 .. Len(N))
      /\ \A j \in 1 .. g : l[j] \in 1 .. Len(N) /\ N[l[j]].symtab = s
  BY <1>1, ListNodes
<1>3. \A y \in 1 .. Len(N) : N[y].symtab = s => \E j \in 1 .. g : l[j] = y
  BY <1>1 DEF ListOK
<1> DEFINE same == {i \in 1 .. Len(l) : SameDecl(N[l[i]], N[n])}
           x == CHOOSE i \in same : \A j \in same : i <= j
           v == IF "using" \in {N[e].kind, N[n].kind} THEN NoNode
                ELSE IF "variable" \in {N[e].kind, N[n].kind} THEN e
                ELSE IF same = {} THEN NoNode ELSE l[x]
<1>4. Conflict(N, e, n) = v
  <2>1. ListFrom(N, e) = l
    BY AlongIs DEF ListOK, ListFrom
  <2>2. Conflict(N, e, n) = Clash(N, e, n, ListFrom(N, e))
    BY Zenon DEF Conflict, Clash
  <2>3. Clash(N, e, n, l) = v
    BY Zenon DEF Clash
  <2> HIDE DEF v
  <2> QED
    BY <2>1, <2>2, <2>3, Zenon
<1>5. same # {} => x \in same
  <2>1. same \subseteq Nat
    BY <1>1, <1>2
  <2> HIDE DEF same
  <2>2. ASSUME same # {} PROVE \E i \in same : \A j \in same : i <= j
    BY <2>1, <2>2, Least
  <2> QED
    BY <2>2, Zenon
<1>6. same = {} => \A y \in 1 .. Len(N) : N[y].symtab = s => ~ SameDecl(N[y], N[n])
  BY <1>1, <1>3
<1>7. same # {} => l[x] \in 1 .. Len(N) /\ N[l[x]].symtab = s /\ SameDecl(N[l[x]], N[n])
  <2> HIDE DEF x
  <2> QED
    BY <1>1, <1>2, <1>5
<1>8. e \in 1 .. Len(N) /\ N[e].symtab = s
  BY <1>2
<1> HIDE DEF same, x
<1>9. Compared(N, e, s, n, v)
  BY <1>6, <1>7, <1>8 DEF Compared
<1> QED
  BY <1>4, <1>9

\* What Swig_symbol_add does.
AddIs(N, E, s, n, R) ==
  \/ /\ R.found = n /\ Added(N, E, s, n, R.node, R.entry)
     /\ E[s] # NoNode => Compared(N, E[s], s, n, NoNode)
  \/ /\ R.found # n /\ R.found # NoNode /\ R.node = N /\ R.entry = E
     /\ E[s] # NoNode /\ Compared(N, E[s], s, n, R.found)

LEMMA AddUnfold ==
  ASSUME NEW st, NEW s, NEW n
  PROVE  LET c == st.entry[s]
             list == ListFrom(st.node, c)
             clash == Conflict(st.node, c, n)
         IN  Swig_symbol_add(st, s, n)
             = IF c = NoNode
               THEN [node |-> SetPlace(st.node, n, s, <<0>>), entry |-> [st.entry EXCEPT ![s] = n], found |-> n]
               ELSE IF clash # NoNode
               THEN [node |-> st.node, entry |-> st.entry, found |-> clash]
               ELSE [node |-> Behind(st.node, n, s, Last(list), c, Len(list)), entry |-> st.entry, found |-> n]
  BY Zenon DEF Swig_symbol_add, SetPlace, Behind

LEMMA AddOK ==
  ASSUME NEW N, NEW E, TablesOK(N, E), NEW s \in Scopes, NEW n \in 1 .. Len(N), N[n].symtab = "none",
         NEW st, st.node = N, st.entry = E
  PROVE  AddIs(N, E, s, n, Swig_symbol_add(st, s, n))
<1>1. PICK l, c : ListOK(N, E[s], s, l) /\ c = E[s]
  BY DEF TablesOK
<1>2. PICK g, last : g = Len(l) /\ last = IF g = 0 THEN NoNode ELSE l[g]
  OBVIOUS
<1>3. /\ N \in Seq(NodeType) /\ E \in [Scopes -> Nat] /\ Unused(N[n]) /\ Len(N) \in Nat
      /\ s # "none"
  BY DEF TablesOK, Loose, Scopes
<1>4. /\ g \in Nat /\ l \in Seq(1 .. Len(N)) /\ \A j \in 1 .. g : l[j] \in 1 .. Len(N) /\ N[l[j]].symtab = s
      /\ (g = 0 => c = NoNode) /\ (g # 0 => c = l[1])
  BY <1>1, <1>2, ListNodes
<1>5. c = NoNode <=> g = 0
  BY <1>4 DEF NoNode
<1>6. PICK clash : clash = Conflict(N, c, n)
  OBVIOUS
<1>7. ListFrom(N, c) = l
  BY <1>1, AlongIs DEF ListOK, ListFrom
<1>8. g # 0 => Last(l) = last /\ last \in 1 .. Len(N) /\ last # n
  BY <1>2, <1>3, <1>4 DEF Last
<1>9. Swig_symbol_add(st, s, n)
        = IF c = NoNode THEN [node |-> SetPlace(N, n, s, <<0>>), entry |-> [E EXCEPT ![s] = n], found |-> n]
          ELSE IF clash # NoNode THEN [node |-> N, entry |-> E, found |-> clash]
          ELSE [node |-> Behind(N, n, s, Last(l), c, g), entry |-> E, found |-> n]
  <2>1. Swig_symbol_add(st, s, n)
        = IF st.entry[s] = NoNode
          THEN [node |-> SetPlace(st.node, n, s, <<0>>), entry |-> [st.entry EXCEPT ![s] = n], found |-> n]
          ELSE IF Conflict(st.node, st.entry[s], n) # NoNode
          THEN [node |-> st.node, entry |-> st.entry, found |-> Conflict(st.node, st.entry[s], n)]
          ELSE [node |-> Behind(st.node, n, s, Last(ListFrom(st.node, st.entry[s])), st.entry[s],
                                Len(ListFrom(st.node, st.entry[s]))),
                entry |-> st.entry, found |-> n]
    BY AddUnfold, Zenon
  <2>2. st.node = N /\ st.entry = E
    OBVIOUS
  <2>3. c = E[s] /\ g = Len(l) /\ clash = Conflict(N, c, n) /\ ListFrom(N, c) = l
    BY <1>1, <1>2, <1>6, <1>7
  <2> QED
    BY <2>1, <2>2, <2>3, Zenon
<1>10. g # 0 => Compared(N, c, s, n, clash)
  BY <1>1, <1>2, <1>3, <1>6, ConflictIs
<1>11. CASE g = 0
  <2>1. PICK M, F : M = SetPlace(N, n, s, <<0>>) /\ F = [E EXCEPT ![s] = n]
    OBVIOUS
  <2>2. Joins(N, M, n, NoNode, s, 0)
    <3>1. M = SetPlace(N, n, s, FirstName)
      BY <2>1, Zenon DEF FirstName
    <3> QED
      BY <1>3, <3>1, FirstJoins
  <2>3. Len(l) = 0
    BY <1>2, <1>11
  <2>4. IsLast(l, NoNode) /\ EntryIs(E, F, s, n, l)
    BY <1>3, <2>1, <2>3 DEF IsLast, EntryIs
  <2>5. Joins(N, M, n, NoNode, s, Len(l))
    BY <2>2, <2>3
  <2>7. Added(N, E, s, n, M, F)
    BY <1>1, <2>4, <2>5, JoinedTables
  <2>8. Swig_symbol_add(st, s, n) = [node |-> M, entry |-> F, found |-> n]
    BY <1>5, <1>9, <1>11, <2>1
  <2> QED
    BY <1>1, <1>5, <1>11, <2>7, <2>8 DEF AddIs
<1>12. CASE g # 0 /\ clash = NoNode
  <2>1. PICK M : M = Behind(N, n, s, last, c, g)
    OBVIOUS
  <2>2. c \in Nat
    BY <1>1, <1>3
  <2>3. Joins(N, M, n, last, s, g)
    BY <1>3, <1>4, <1>8, <1>12, <2>1, <2>2, BehindJoins
  <2>4. IsLast(l, last) /\ EntryIs(E, E, s, n, l)
    BY <1>2, <1>3, <1>12 DEF IsLast, EntryIs
  <2>5. Joins(N, M, n, last, s, Len(l))
    BY <1>2, <2>3
  <2>6. Added(N, E, s, n, M, E)
    BY <1>1, <2>4, <2>5, JoinedTables
  <2>7. Swig_symbol_add(st, s, n) = [node |-> M, entry |-> E, found |-> n]
    BY <1>5, <1>8, <1>9, <1>12, <2>1
  <2>8. Compared(N, c, s, n, NoNode)
    BY <1>10, <1>12
  <2> QED
    BY <1>1, <2>6, <2>7, <2>8 DEF AddIs
<1>13. CASE g # 0 /\ clash # NoNode
  <2>1. Swig_symbol_add(st, s, n) = [node |-> N, entry |-> E, found |-> clash]
    BY <1>5, <1>9, <1>13
  <2>2. Compared(N, c, s, n, clash)
    BY <1>10, <1>13
  <2>3. N[clash].symtab = s
    BY <1>13, <2>2 DEF Compared
  <2>4. clash # n
    BY <1>3, <2>3
  <2> QED
    BY <1>1, <1>5, <1>13, <2>1, <2>2, <2>4 DEF AddIs
<1> QED
  BY <1>11, <1>12, <1>13

\* Node n is out of its list, its neighbours ps and ns are linked.
Cut(N, M, n, ps, ns) ==
  /\ SameNodes(N, M)
  /\ M[n].symtab = "none" /\ Unused(M[n])
  /\ ps # NoNode => /\ M[ps].nextSibling = ns /\ M[ps].symtab = N[ps].symtab /\ M[ps].overname = N[ps].overname
                    /\ M[ps].previousSibling = N[ps].previousSibling
  /\ ns # NoNode => /\ M[ns].previousSibling = ps /\ M[ns].symtab = N[ns].symtab /\ M[ns].overname = N[ns].overname
                    /\ M[ns].nextSibling = N[ns].nextSibling
  /\ \A y \in 1 .. Len(N) : y \notin {n, ps, ns} => SameLinks(N, M, y)

\* What Unlink does to a node that it takes out, and to its neighbours.
Out(r) == [r EXCEPT !.nextSibling = NoNode, !.previousSibling = NoNode, !.overloaded = NoNode]
Before(r, x) == [r EXCEPT !.nextSibling = x]
After(r, x) == [r EXCEPT !.previousSibling = x]

LEMMA OutIs ==
  ASSUME NEW r \in NodeType, NEW q, q = Out(r)
  PROVE  SameThing(q, r) /\ q.nextSibling = NoNode /\ q.previousSibling = NoNode /\ q.overloaded = NoNode
  BY DEF NodeType, Out, SameThing, NoNode

LEMMA BeforeIs ==
  ASSUME NEW r \in NodeType, NEW x \in Nat, NEW q, q = Before(r, x)
  PROVE  SameThing(q, r) /\ q.nextSibling = x /\ q.symtab = r.symtab /\ q.overname = r.overname
         /\ q.previousSibling = r.previousSibling
  BY DEF NodeType, Before, SameThing

LEMMA AfterIs ==
  ASSUME NEW r \in NodeType, NEW x \in Nat, NEW q, q = After(r, x)
  PROVE  SameThing(q, r) /\ q.previousSibling = x /\ q.symtab = r.symtab /\ q.overname = r.overname
         /\ q.nextSibling = r.nextSibling
  BY DEF NodeType, After, SameThing

Unlinked(N, n, ps, ns) ==
  [i \in DOMAIN N |->
     CASE i = n -> Out(N[i]) [] i = ps /\ i # n -> Before(N[i], ns)
       [] i = ns /\ i # n -> After(N[i], ps) [] OTHER -> N[i]]

LEMMA UnlinkNodes ==
  ASSUME NEW T, NEW N \in Seq(T), NEW n \in 1 .. Len(N), NEW ps, ps = N[n].previousSibling,
         NEW ns, ns = N[n].nextSibling, ps # n, ns # n, ps # ns \/ ps \notin 1 .. Len(N), NEW M, M = Unlink(N, n)
  PROVE  /\ Over(N, M) /\ M[n] = Out(N[n])
         /\ ps \in 1 .. Len(N) => M[ps] = Before(N[ps], ns)
         /\ ns \in 1 .. Len(N) => M[ns] = After(N[ns], ps)
         /\ \A y \in 1 .. Len(N) : y \notin {n, ps, ns} => M[y] = N[y]
<1>1. DOMAIN N = 1 .. Len(N)
  OBVIOUS
<1>2. Unlink(N, n) = Unlinked(N, n, N[n].previousSibling, N[n].nextSibling)
  BY Zenon DEF Unlink, Unlinked, Out, Before, After
<1>3. M = Unlinked(N, n, ps, ns)
  BY <1>2, Zenon
<1> QED
  BY <1>1, <1>3 DEF Over, Unlinked

LEMMA CutOK ==
  ASSUME NEW N \in Seq(NodeType), NEW n \in 1 .. Len(N), NEW ps \in Nat, ps = N[n].previousSibling,
         NEW ns \in Nat, ns = N[n].nextSibling, ps # n, ns # n, ps # ns \/ ps = NoNode,
         ps \in {NoNode} \cup 1 .. Len(N), ns \in {NoNode} \cup 1 .. Len(N),
         NEW M, M = SetPlace(Unlink(N, n), n, "none", <<>>)
  PROVE  Cut(N, M, n, ps, ns)
<1>1. PICK U : U = Unlink(N, n)
  OBVIOUS
<1>2. ps # ns \/ ps \notin 1 .. Len(N)
  BY DEF NoNode
<1>3. /\ Over(N, U) /\ U[n] = Out(N[n])
      /\ ps \in 1 .. Len(N) => U[ps] = Before(N[ps], ns)
      /\ ns \in 1 .. Len(N) => U[ns] = After(N[ns], ps)
      /\ \A y \in 1 .. Len(N) : y \notin {n, ps, ns} => U[y] = N[y]
  BY <1>1, <1>2, UnlinkNodes
<1>4. \A y \in 1 .. Len(N) : N[y] \in NodeType
  OBVIOUS
<1>5. /\ SameThing(U[n], N[n]) /\ U[n].nextSibling = NoNode
      /\ U[n].previousSibling = NoNode /\ U[n].overloaded = NoNode
  BY <1>3, <1>4, OutIs
<1>6. ps # NoNode => /\ SameThing(U[ps], N[ps]) /\ U[ps].nextSibling = ns
                     /\ U[ps].symtab = N[ps].symtab /\ U[ps].overname = N[ps].overname
                     /\ U[ps].previousSibling = N[ps].previousSibling
  <2> SUFFICES ASSUME ps # NoNode PROVE SameThing(U[ps], N[ps]) /\ U[ps].nextSibling = ns
                     /\ U[ps].symtab = N[ps].symtab /\ U[ps].overname = N[ps].overname
                     /\ U[ps].previousSibling = N[ps].previousSibling
    OBVIOUS
  <2>1. PICK q, r : q = U[ps] /\ r = N[ps]
    OBVIOUS
  <2>2. r \in NodeType /\ q = Before(r, ns)
    BY <1>3, <1>4, <2>1
  <2>3. SameThing(q, r) /\ q.nextSibling = ns /\ q.symtab = r.symtab /\ q.overname = r.overname
         /\ q.previousSibling = r.previousSibling
    BY <2>2, BeforeIs
  <2> QED
    BY <2>1, <2>3
<1>7. ns # NoNode => /\ SameThing(U[ns], N[ns]) /\ U[ns].previousSibling = ps
                     /\ U[ns].symtab = N[ns].symtab /\ U[ns].overname = N[ns].overname
                     /\ U[ns].nextSibling = N[ns].nextSibling
  <2> SUFFICES ASSUME ns # NoNode PROVE SameThing(U[ns], N[ns]) /\ U[ns].previousSibling = ps
                     /\ U[ns].symtab = N[ns].symtab /\ U[ns].overname = N[ns].overname
                     /\ U[ns].nextSibling = N[ns].nextSibling
    OBVIOUS
  <2>1. PICK q, r : q = U[ns] /\ r = N[ns]
    OBVIOUS
  <2>2. r \in NodeType /\ q = After(r, ps)
    BY <1>3, <1>4, <2>1
  <2>3. SameThing(q, r) /\ q.previousSibling = ps /\ q.symtab = r.symtab /\ q.overname = r.overname
         /\ q.nextSibling = r.nextSibling
    BY <2>2, AfterIs
  <2> QED
    BY <2>1, <2>3
<1>8. \A y \in 1 .. Len(N) : SameThing(U[y], N[y])
  BY <1>3, <1>4, <1>5, <1>6, <1>7 DEF SameThing, NoNode
<1>9. U \in Seq(NodeType) /\ Len(U) = Len(N)
  <2>1. \A y \in 1 .. Len(N) : U[y] \in NodeType
    BY <1>8 DEF SameThing
  <2> QED
    BY <1>3, <2>1, SeqIs
<1>10. PICK o, s : o = <<>> /\ s = "none"
  OBVIOUS
<1>11. M = SetPlace(U, n, s, o) /\ n \in 1 .. Len(U) /\ o \in Seq(Int) /\ s \in Scopes \cup {"none"}
  <2>1. M = SetPlace(U, n, s, o)
    BY <1>1, <1>10, Zenon
  <2> QED
    BY <1>9, <1>10, <2>1
<1>12. /\ M \in Seq(NodeType) /\ Len(M) = Len(U)
       /\ SameThing(M[n], U[n]) /\ M[n].symtab = s /\ M[n].overname = o
       /\ M[n].nextSibling = U[n].nextSibling /\ M[n].previousSibling = U[n].previousSibling
       /\ M[n].overloaded = U[n].overloaded
       /\ \A y \in 1 .. Len(U) : y # n => M[y] = U[y]
  <2>1. U \in Seq(NodeType)
    BY <1>9
  <2> QED
    <3>1. Placed(U, M, n, s, o)
      BY <1>11, <2>1, PlacedOK, Zenon
    <3> QED
      BY <3>1 DEF Placed
<1>13. \A y \in 1 .. Len(N) : y = n \/ M[y] = U[y]
  BY <1>9, <1>12
<1>14. \A y \in 1 .. Len(N) : SameThing(M[y], N[y])
  BY <1>8, <1>12, <1>13 DEF SameThing
<1>15. M \in Seq(NodeType) /\ Len(M) = Len(N)
  BY <1>9, <1>12
<1>16. SameNodes(N, M)
  BY <1>14, <1>15 DEF SameNodes, SameThing
<1>17. \A y \in 1 .. Len(N) : y \notin {n, ps, ns} => SameLinks(N, M, y)
  BY <1>3, <1>13 DEF SameLinks
<1>18. ps # NoNode => M[ps] = U[ps]
  BY <1>13
<1>19. ns # NoNode => M[ns] = U[ns]
  BY <1>13
<1>20. Unused(M[n]) /\ M[n].symtab = "none"
  BY <1>5, <1>10, <1>12 DEF Unused
<1> QED
  BY <1>6, <1>7, <1>16, <1>17, <1>18, <1>19, <1>20 DEF Cut

HeadOf(q) == IF Len(q) = 0 THEN NoNode ELSE q[1]

\* The links of the list of scope s, without the overnames.
Linked(N, s, l) ==
  /\ Follows(N, HeadOf(l), "nextSibling", l)
  /\ \A j \in 1 .. Len(l) : N[l[j]].previousSibling = IF j = 1 THEN NoNode ELSE l[j - 1]
  /\ \A y \in 1 .. Len(N) : N[y].symtab = s <=> \E j \in 1 .. Len(l) : l[j] = y

Without(l, p) == [j \in 1 .. Len(l) - 1 |-> IF j < p THEN l[j] ELSE l[j + 1]]

\* Node n is at place p of l, between ps and ns.
At(l, p, n, ps, ns) ==
  /\ p \in 1 .. Len(l) /\ n = l[p]
  /\ ps = IF p = 1 THEN NoNode ELSE l[p - 1]
  /\ ns = IF p = Len(l) THEN NoNode ELSE l[p + 1]

CutNames(M, q, p) ==
  \A j \in 1 .. Len(q) : M[q[j]].overname = IF j < p THEN <<j - 1>> ELSE <<j>>

\* The list of a scope when node n, at place p, is out of it.
LEMMA CutList ==
  ASSUME NEW N, NEW M, Len(N) \in Nat, NEW s \in Scopes, NEW e, NEW l, ListOK(N, e, s, l),
         NEW p, NEW n, NEW ps, NEW ns, At(l, p, n, ps, ns), Cut(N, M, n, ps, ns), NEW q, q = Without(l, p)
  PROVE  Linked(M, s, q) /\ Len(q) = Len(l) - 1 /\ CutNames(M, q, p)
<1>1. PICK g : g = Len(l)
  OBVIOUS
<1>2. /\ g \in Nat /\ l \in Seq(1 .. Len(N)) /\ \A j \in 1 .. g : l[j] \in 1 .. Len(N) /\ N[l[j]].symtab = s
      /\ \A a, b \in 1 .. g : l[a] = l[b] => a = b
      /\ p \in 1 .. g /\ p \in Int /\ n = l[p]
  <2>1. /\ g \in Nat /\ l \in Seq(1 .. Len(N)) /\ \A j \in 1 .. g : l[j] \in 1 .. Len(N) /\ N[l[j]].symtab = s
        /\ \A a, b \in 1 .. g : l[a] = l[b] => a = b
    BY <1>1, ListNodes
  <2>2. p \in 1 .. g /\ n = l[p]
    BY <1>1 DEF At
  <2> QED
    BY <2>1, <2>2
<1>16. /\ p = 1 => ps = NoNode
       /\ p # 1 => p - 1 \in 1 .. g /\ ps = l[p - 1]
       /\ p = g => ns = NoNode
       /\ p # g => p + 1 \in 1 .. g /\ ns = l[p + 1]
  BY <1>1, <1>2 DEF At
<1>14. PICK k : k = g - 1
  OBVIOUS
<1>15. k \in Nat /\ g = k + 1
  BY <1>2, <1>14
<1>4. \A j \in 1 .. k : j \in 1 .. g /\ j + 1 \in 1 .. g
  BY <1>15
<1>3. /\ q \in Seq(1 .. Len(N)) /\ Len(q) = k /\ p \in 1 .. g
      /\ \A j \in 1 .. k : q[j] = IF j < p THEN l[j] ELSE l[j + 1]
  <2>1. q = [j \in 1 .. k |-> IF j < p THEN l[j] ELSE l[j + 1]]
    BY <1>1, <1>14 DEF Without
  <2>2. \A j \in 1 .. k : (IF j < p THEN l[j] ELSE l[j + 1]) \in 1 .. Len(N)
    BY <1>2, <1>4
  <2> QED
    BY <1>2, <1>15, <2>1, <2>2
<1>5. \A a, b \in 1 .. k : q[a] = q[b] => a = b
  <2>1. \A a \in 1 .. k : (a < p /\ q[a] = l[a]) \/ (~ (a < p) /\ q[a] = l[a + 1])
    BY <1>3
  <2>2. \A a, b \in 1 .. k : a < p /\ ~ (b < p) => a # b + 1
    BY <1>2, <1>15
  <2> QED
    BY <1>2, <1>4, <2>1, <2>2
<1>6. /\ Len(M) = Len(N) /\ M[n].symtab = "none"
      /\ ps # NoNode => /\ M[ps].nextSibling = ns /\ M[ps].symtab = N[ps].symtab /\ M[ps].overname = N[ps].overname
                        /\ M[ps].previousSibling = N[ps].previousSibling
      /\ ns # NoNode => /\ M[ns].previousSibling = ps /\ M[ns].symtab = N[ns].symtab /\ M[ns].overname = N[ns].overname
                        /\ M[ns].nextSibling = N[ns].nextSibling
      /\ \A y \in 1 .. Len(N) : y \notin {n, ps, ns} => SameLinks(N, M, y)
  BY DEF Cut, SameNodes
<1>7. \A j \in 1 .. g : /\ N[l[j]].nextSibling = IF j = g THEN NoNode ELSE l[j + 1]
                        /\ N[l[j]].previousSibling = IF j = 1 THEN NoNode ELSE l[j - 1]
                        /\ N[l[j]].overname = <<j - 1>>
  BY <1>1 DEF ListOK, Follows
<1>8. \A j \in 1 .. g : l[j] # NoNode
  BY <1>2 DEF NoNode
<1>9. ASSUME NEW i \in 1 .. g, i # p
      PROVE  /\ M[l[i]].nextSibling = IF i = p - 1 THEN ns ELSE N[l[i]].nextSibling
             /\ M[l[i]].previousSibling = IF i = p + 1 THEN ps ELSE N[l[i]].previousSibling
             /\ M[l[i]].overname = N[l[i]].overname /\ M[l[i]].symtab = N[l[i]].symtab
  <2>1. l[i] # n
    BY <1>2, <1>3, <1>9
  <2>2. CASE i = p - 1
    <3>1. p # 1 /\ l[i] = ps /\ i # p + 1
      BY <1>2, <1>16, <2>2
    <3>2. ps # NoNode
      BY <1>8, <3>1
    <3> QED
      BY <1>6, <2>2, <3>1, <3>2
  <2>3. CASE i = p + 1
    <3>1. p # g /\ l[i] = ns /\ i # p - 1
      BY <1>2, <1>16, <2>3
    <3>2. ns # NoNode
      BY <1>8, <3>1
    <3> QED
      BY <1>6, <2>3, <3>1, <3>2
  <2>4. CASE i # p - 1 /\ i # p + 1
    <3>1. l[i] # ps
      <4>1. p # 1 => i # p - 1
        BY <2>4
      <4> QED
        BY <1>2, <1>8, <1>16, <4>1
    <3>2. l[i] # ns
      <4>1. p # g => i # p + 1
        BY <2>4
      <4> QED
        BY <1>2, <1>8, <1>16, <4>1
    <3>3. SameLinks(N, M, l[i])
      BY <1>2, <1>6, <2>1, <3>1, <3>2
    <3> QED
      BY <2>4, <3>3 DEF SameLinks
  <2> QED
    BY <2>2, <2>3, <2>4
<1>10. ASSUME NEW j \in 1 .. k
       PROVE  /\ M[q[j]].nextSibling = IF j = k THEN NoNode ELSE q[j + 1]
              /\ M[q[j]].previousSibling = IF j = 1 THEN NoNode ELSE q[j - 1]
              /\ M[q[j]].overname = IF j < p THEN <<j - 1>> ELSE <<j>>
  <2>1. CASE j < p
    <3>1. q[j] = l[j] /\ j \in 1 .. g /\ j # p /\ j # g /\ j # p + 1
      <4>1. q[j] = l[j]
        BY ONLY <1>3, <2>1, j \in 1 .. k
      <4>2. j \in Int /\ p \in Int /\ g \in Int /\ p <= g /\ j \in 1 .. g
        BY ONLY <1>3, <1>4, <1>15, j \in 1 .. k
      <4>3. j # p /\ j # g /\ j # p + 1
        BY ONLY <2>1, <4>2
      <4> QED
        BY ONLY <4>1, <4>2, <4>3
    <3>2. /\ M[q[j]].nextSibling = IF j = p - 1 THEN ns ELSE l[j + 1]
          /\ M[q[j]].previousSibling = IF j = 1 THEN NoNode ELSE l[j - 1]
          /\ M[q[j]].overname = <<j - 1>>
      BY <1>7, <1>9, <3>1
    <3>3. j # 1 => j - 1 \in 1 .. k /\ q[j - 1] = l[j - 1]
      BY <1>3, <1>15, <2>1
    <3>4. CASE j = p - 1
      <4>1. j = k => ns = NoNode
        BY <1>2, <1>15, <1>16, <3>4
      <4>2. j # k => j + 1 \in 1 .. k /\ ns = l[p + 1] /\ j + 1 = p /\ ~ (j + 1 < p)
        BY <1>2, <1>15, <1>16, <3>4
      <4>3. j # k => q[j + 1] = ns
        BY <1>3, <4>2
      <4> QED
        BY <2>1, <3>2, <3>3, <3>4, <4>1, <4>3
    <3>5. CASE j # p - 1
      <4>1. j + 1 \in 1 .. k /\ j + 1 < p /\ j # k
        BY <1>3, <1>15, <2>1, <3>5
      <4>2. q[j + 1] = l[j + 1]
        BY <1>3, <4>1
      <4> QED
        BY <2>1, <3>2, <3>3, <3>5, <4>1, <4>2
    <3> QED
      BY <3>4, <3>5
  <2>2. CASE ~ (j < p)
    <3>1. q[j] = l[j + 1] /\ j + 1 \in 1 .. g /\ j + 1 # p /\ j + 1 # p - 1 /\ j + 1 # 1 /\ j + 1 - 1 = j
          /\ (j + 1 = p + 1 <=> j = p) /\ (j + 1 = g <=> j = k)
      BY <1>3, <1>4, <1>15, <2>2
    <3>2. /\ M[q[j]].nextSibling = IF j = k THEN NoNode ELSE l[j + 1 + 1]
          /\ M[q[j]].previousSibling = IF j = p THEN ps ELSE l[j]
          /\ M[q[j]].overname = <<j>>
      <4>1. PICK i : i = j + 1
        OBVIOUS
      <4>2. i \in 1 .. g /\ i # p /\ i # 1 /\ i # p - 1 /\ i - 1 = j /\ q[j] = l[i]
            /\ (i = p + 1 <=> j = p) /\ (i = g <=> j = k)
        BY <3>1, <4>1
      <4>3. /\ M[l[i]].nextSibling = N[l[i]].nextSibling
            /\ M[l[i]].previousSibling = IF i = p + 1 THEN ps ELSE N[l[i]].previousSibling
            /\ M[l[i]].overname = N[l[i]].overname
        BY <1>9, <4>2
      <4>4. /\ N[l[i]].nextSibling = IF i = g THEN NoNode ELSE l[i + 1]
            /\ N[l[i]].previousSibling = l[i - 1] /\ N[l[i]].overname = <<i - 1>>
        BY <1>7, <4>2
      <4> QED
        BY <4>1, <4>2, <4>3, <4>4
    <3>3. j # k => q[j + 1] = l[j + 1 + 1]
      <4>1. j # k => j + 1 \in 1 .. k /\ ~ (j + 1 < p)
        BY <1>3, <1>15, <2>2
      <4> QED
        BY <1>3, <4>1
    <3>4. j = p => ps = IF j = 1 THEN NoNode ELSE q[j - 1]
      <4>1. j = p /\ j # 1 => j - 1 \in 1 .. k /\ j - 1 < p
        BY <1>2, <1>15
      <4>2. j = p /\ j # 1 => q[j - 1] = l[j - 1]
        BY <1>3, <4>1
      <4> QED
        BY <1>16, <4>2
    <3>5. j # p => j # 1 /\ q[j - 1] = l[j]
      <4>1. j # p => j # 1 /\ j - 1 \in 1 .. k /\ ~ (j - 1 < p) /\ j - 1 + 1 = j
        BY <1>3, <1>15, <2>2
      <4> QED
        BY <1>3, <4>1
    <3> QED
      BY <2>2, <3>2, <3>3, <3>4, <3>5
  <2> QED
    BY <2>1, <2>2
<1>11. ASSUME NEW y \in 1 .. Len(N) PROVE M[y].symtab = s <=> \E j \in 1 .. k : q[j] = y
  <2>1. N[y].symtab = s <=> \E j \in 1 .. g : l[j] = y
    BY <1>1 DEF ListOK
  <2>2. y = n => M[y].symtab # s
    BY <1>6 DEF Scopes
  <2>3. y # n => M[y].symtab = N[y].symtab
    BY <1>6, <1>8 DEF SameLinks, NoNode
  <2>4. \A j \in 1 .. g : j = p \/ (j < p /\ j \in 1 .. k)
                          \/ (~ (j - 1 < p) /\ j - 1 \in 1 .. k /\ j - 1 + 1 = j)
    BY <1>2, <1>15
  <2>5. \A j \in 1 .. g : j = p \/ \E i \in 1 .. k : q[i] = l[j]
    BY <1>3, <2>4
  <2>6. \A i \in 1 .. k : q[i] # n
    <3>1. \A i \in 1 .. k : (i # p /\ q[i] = l[i]) \/ (i + 1 # p /\ q[i] = l[i + 1])
      BY <1>2, <1>3
    <3> QED
      BY <1>2, <1>4, <3>1
  <2>7. \A i \in 1 .. k : \E j \in 1 .. g : q[i] = l[j]
    BY <1>3, <1>4
  <2>8. ASSUME M[y].symtab = s PROVE \E j \in 1 .. k : q[j] = y
    <3>1. PICK j \in 1 .. g : l[j] = y
      BY <2>1, <2>2, <2>3, <2>8
    <3>2. j # p
      BY <1>2, <2>2, <2>8, <3>1
    <3> QED
      BY <2>5, <3>1, <3>2
  <2>9. ASSUME NEW i \in 1 .. k, q[i] = y PROVE M[y].symtab = s
    BY <2>1, <2>3, <2>6, <2>7, <2>9
  <2> QED
    BY <2>8, <2>9
<1>12. Follows(M, HeadOf(q), "nextSibling", q)
  <2>1. Len(q) = k /\ q \in Seq(1 .. Len(M)) /\ \A j \in 1 .. k : M[q[j]].nextSibling = IF j = k THEN NoNode ELSE q[j + 1]
    BY <1>3, <1>6, <1>10
  <2> QED
    BY <1>5, <2>1 DEF Follows, HeadOf
<1>13. Linked(M, s, q)
  <2>1. Len(q) = k /\ Len(M) = Len(N) /\ \A j \in 1 .. k : M[q[j]].previousSibling = IF j = 1 THEN NoNode ELSE q[j - 1]
    BY <1>3, <1>6, <1>10
  <2> QED
    BY <1>11, <1>12, <2>1 DEF Linked
<1>17. CutNames(M, q, p)
  BY <1>3, <1>10 DEF CutNames
<1> QED
  BY <1>1, <1>3, <1>13, <1>14, <1>17

\* The overnames of the nodes of list q.
NumberedBy(M, R, q) ==
  R = [i \in DOMAIN M |->
         IF i \in ToSet(q)
         THEN [M[i] EXCEPT !.overname = <<(CHOOSE k \in DOMAIN q : q[k] = i) - 1>>]
         ELSE M[i]]

LEMMA RenumberedIs ==
  ASSUME NEW M \in Seq(NodeType), NEW s \in Scopes, NEW q, Linked(M, s, q), NEW p \in 1 .. Len(q), NEW x, x = q[p],
         NEW R, R = Renumbered(M, x)
  PROVE  NumberedBy(M, R, q)
<1> DEFINE back == [j \in 1 .. p |-> q[p + 1 - j]]
<1>1. PICK g : g = Len(q)
  OBVIOUS
<1>2. /\ g \in Nat /\ q \in Seq(1 .. Len(M)) /\ p \in 1 .. g
      /\ \A a, b \in 1 .. g : q[a] = q[b] => a = b
      /\ \A j \in 1 .. g : M[q[j]].previousSibling = IF j = 1 THEN NoNode ELSE q[j - 1]
  BY <1>1 DEF Linked, Follows
<1>3. \A j \in 1 .. p : p + 1 - j \in 1 .. g
  BY <1>2
<1>4. Follows(M, x, "previousSibling", back)
  <2>1. PICK b : b = back
    OBVIOUS
  <2>2. b \in Seq(1 .. Len(M)) /\ Len(b) = p
    <3>1. \A j \in 1 .. p : q[p + 1 - j] \in 1 .. Len(M)
      BY <1>2, <1>3
    <3>2. p \in Nat
      BY <1>2
    <3>3. b \in Seq(1 .. Len(M))
      BY <2>1, <3>1, <3>2
    <3>4. DOMAIN b = 1 .. p
      BY <2>1
    <3> QED
      BY <3>2, <3>3, <3>4
  <2>3. \A j \in 1 .. p : b[j] = q[p + 1 - j]
    BY <2>1
  <2> HIDE DEF back
  <2>4. \A a, c \in 1 .. p : b[a] = b[c] => a = c
    <3>1. ASSUME NEW a \in 1 .. p, NEW c \in 1 .. p, b[a] = b[c] PROVE a = c
      <4>1. q[p + 1 - a] = q[p + 1 - c] /\ p + 1 - a \in 1 .. g /\ p + 1 - c \in 1 .. g
        BY <1>3, <2>3, <3>1
      <4>2. PICK i, j : i = p + 1 - a /\ j = p + 1 - c
        OBVIOUS
      <4>3. i = j
        BY <1>2, <4>1, <4>2
      <4> QED
        BY <1>2, <4>2, <4>3
    <3> QED
      BY <3>1
  <2>5. ASSUME NEW j \in 1 .. p PROVE M[b[j]].previousSibling = IF j = p THEN NoNode ELSE b[j + 1]
    <3>1. PICK i : i = p + 1 - j
      OBVIOUS
    <3>2. i \in 1 .. g /\ (i = 1 <=> j = p) /\ b[j] = q[i]
      BY <1>2, <1>3, <2>3, <3>1
    <3>3. j # p => j + 1 \in 1 .. p /\ p + 1 - (j + 1) = i - 1
      BY <1>2, <3>1
    <3>4. j # p => b[j + 1] = q[i - 1]
      BY <2>3, <3>3
    <3> QED
      BY <1>2, <3>2, <3>4
  <2>6. p # 0 /\ x = b[1]
    <3>1. 1 \in 1 .. p /\ p + 1 - 1 = p
      BY <1>2
    <3> QED
      BY <1>2, <2>3, <3>1
  <2>7. Follows(M, x, "previousSibling", b)
    <3>1. \A j \in 1 .. p : M[b[j]]["previousSibling"] = IF j = p THEN NoNode ELSE b[j + 1]
      BY <2>5
    <3> QED
      BY <2>2, <2>4, <2>6, <3>1 DEF Follows
  <2> QED
    BY <2>1, <2>7
<1>5. Last(Along(M, x, "previousSibling")) = q[1]
  <2>1. PICK b : b = back
    OBVIOUS
  <2>2. Follows(M, x, "previousSibling", b)
    BY <1>4, <2>1
  <2>3. Len(M) \in Nat
    OBVIOUS
  <2>4. Along(M, x, "previousSibling") = b
    BY <2>2, <2>3, AlongIs
  <2>5. Len(b) = p /\ b[p] = q[1]
    <3>1. p \in 1 .. p /\ p + 1 - p = 1
      BY <1>2
    <3>2. p \in Nat
      BY <1>2
    <3> QED
      BY <2>1, <3>1, <3>2
  <2> QED
    BY <2>4, <2>5 DEF Last
<1>6. ListFrom(M, q[1]) = q
  <2>1. Len(q) # 0
    BY <1>1, <1>2
  <2>2. PICK h : h = q[1]
    OBVIOUS
  <2>3. Follows(M, h, "nextSibling", q)
    BY <2>1, <2>2 DEF Linked, HeadOf
  <2>4. Len(M) \in Nat
    OBVIOUS
  <2>5. Along(M, h, "nextSibling") = q
    BY <2>3, <2>4, AlongIs
  <2> QED
    BY <2>2, <2>5 DEF ListFrom
<1> HIDE DEF back
<1> QED
  <2>1. NumberedBy(M, Renumbered(M, x), ListFrom(M, Last(Along(M, x, "previousSibling"))))
    BY Zenon DEF Renumbered, NumberedBy
  <2> QED
    BY <1>5, <1>6, <2>1, Zenon

SetName(r, o) == [r EXCEPT !.overname = o]

LEMMA SetNameIs ==
  ASSUME NEW r \in NodeType, NEW o \in Seq(Int), NEW q, q = SetName(r, o)
  PROVE  SameThing(q, r) /\ q.overname = o /\ q.symtab = r.symtab /\ q.nextSibling = r.nextSibling
         /\ q.previousSibling = r.previousSibling /\ q.overloaded = r.overloaded
  BY DEF NodeType, SetName, SameThing

\* The links are the same, the nodes of list q have the overnames.
Renamed(M, R, s, q) ==
  /\ SameNodes(M, R)
  /\ \A y \in 1 .. Len(M) : /\ R[y].symtab = M[y].symtab /\ R[y].nextSibling = M[y].nextSibling
                            /\ R[y].previousSibling = M[y].previousSibling
                            /\ R[y].overloaded = M[y].overloaded
                            /\ M[y].symtab # s => R[y].overname = M[y].overname
  /\ \A j \in 1 .. Len(q) : R[q[j]].overname = <<j - 1>>

\* A list with links and overnames.
LEMMA LinkedNamed ==
  ASSUME NEW M, NEW s, NEW q, Linked(M, s, q), \A j \in 1 .. Len(q) : M[q[j]].overname = <<j - 1>>
  PROVE  ListOK(M, HeadOf(q), s, q)
<1>1. /\ Follows(M, HeadOf(q), "nextSibling", q)
      /\ \A j \in 1 .. Len(q) : M[q[j]].previousSibling = IF j = 1 THEN NoNode ELSE q[j - 1]
      /\ \A y \in 1 .. Len(M) : M[y].symtab = s <=> \E j \in 1 .. Len(q) : q[j] = y
  BY Zenon DEF Linked
<1>2. \A j \in 1 .. Len(q) : /\ M[q[j]].previousSibling = IF j = 1 THEN NoNode ELSE q[j - 1]
                             /\ M[q[j]].overname = <<j - 1>>
  BY <1>1, Zenon
<1> QED
  BY <1>1, <1>2, Zenon DEF ListOK

\* The list with the new overnames.
LEMMA RenamedList ==
  ASSUME NEW M, NEW s, NEW q, Linked(M, s, q), NEW R, Renamed(M, R, s, q)
  PROVE  ListOK(R, HeadOf(q), s, q)
<1>1. PICK e : e = HeadOf(q)
  OBVIOUS
<1>2. /\ Follows(M, e, "nextSibling", q) /\ q \in Seq(1 .. Len(M))
      /\ \A j \in 1 .. Len(q) : M[q[j]].previousSibling = IF j = 1 THEN NoNode ELSE q[j - 1]
      /\ \A y \in 1 .. Len(M) : M[y].symtab = s <=> \E j \in 1 .. Len(q) : q[j] = y
  BY <1>1 DEF Linked, Follows
<1>3. Len(R) = Len(M) /\ \A j \in 1 .. Len(q) : q[j] \in 1 .. Len(M)
  BY <1>2 DEF Renamed, SameNodes
<1>4. \A y \in 1 .. Len(M) : /\ R[y].symtab = M[y].symtab /\ R[y].nextSibling = M[y].nextSibling
                             /\ R[y].previousSibling = M[y].previousSibling
  BY DEF Renamed
<1>5. Follows(R, e, "nextSibling", q)
  BY <1>2, <1>3, <1>4 DEF Follows
<1>6. \A j \in 1 .. Len(q) : R[q[j]].previousSibling = IF j = 1 THEN NoNode ELSE q[j - 1]
  BY <1>2, <1>3, <1>4
<1>7. \A y \in 1 .. Len(R) : R[y].symtab = s <=> \E j \in 1 .. Len(q) : q[j] = y
  BY <1>2, <1>3, <1>4
<1>8. Linked(R, s, q)
  BY <1>1, <1>5, <1>6, <1>7, Zenon DEF Linked
<1>9. \A j \in 1 .. Len(q) : R[q[j]].overname = <<j - 1>>
  BY DEF Renamed
<1> QED
  BY <1>8, <1>9, LinkedNamed

\* What Renumbered leaves of a node, and what it changes.
LEMMA RenumberedOK ==
  ASSUME NEW M \in Seq(NodeType), NEW s \in Scopes, NEW q, Linked(M, s, q), NEW p \in 1 .. Len(q), NEW x, x = q[p],
         NEW R, R = Renumbered(M, x)
  PROVE  Renamed(M, R, s, q)
<1>1. PICK g : g = Len(q)
  OBVIOUS
<1>2. /\ g \in Nat /\ q \in Seq(1 .. Len(M)) /\ \A a, b \in 1 .. g : q[a] = q[b] => a = b
      /\ \A y \in 1 .. Len(M) : M[y].symtab = s <=> \E j \in 1 .. g : q[j] = y
  BY <1>1 DEF Linked, Follows
<1>13. DOMAIN q = 1 .. g
  BY <1>1, <1>2
<1> DEFINE Place(i) == CHOOSE k \in DOMAIN q : q[k] = i
<1>3. R = [i \in DOMAIN M |-> IF i \in ToSet(q) THEN SetName(M[i], <<Place(i) - 1>>) ELSE M[i]]
  <2>1. NumberedBy(M, R, q)
    BY RenumberedIs, Zenon
  <2> QED
    BY <2>1, Zenon DEF NumberedBy, SetName
<1>4. \A i : i \in ToSet(q) <=> \E j \in 1 .. g : q[j] = i
  BY <1>13 DEF ToSet
<1>5. \A j \in 1 .. g : Place(q[j]) = j
  <2>1. \A j \in 1 .. g : \E k \in DOMAIN q : q[k] = q[j]
    BY <1>13
  <2>2. \A j \in 1 .. g : Place(q[j]) \in DOMAIN q /\ q[Place(q[j])] = q[j]
    BY <2>1, Zenon
  <2> HIDE DEF Place
  <2> QED
    BY <1>2, <1>13, <2>2
<1> HIDE DEF Place
<1>6. \A y \in 1 .. Len(M) : M[y] \in NodeType
  OBVIOUS
<1>7. DOMAIN M = 1 .. Len(M) /\ Over(M, R)
  BY <1>3 DEF Over
<1>8. ASSUME NEW y \in 1 .. Len(M), M[y].symtab # s PROVE R[y] = M[y]
  BY <1>2, <1>3, <1>4, <1>7, <1>8
<1>9. ASSUME NEW j \in 1 .. g
      PROVE  SameThing(R[q[j]], M[q[j]]) /\ R[q[j]].overname = <<j - 1>> /\ R[q[j]].symtab = M[q[j]].symtab
             /\ R[q[j]].nextSibling = M[q[j]].nextSibling /\ R[q[j]].previousSibling = M[q[j]].previousSibling
             /\ R[q[j]].overloaded = M[q[j]].overloaded
  <2>1. PICK y, r, t, o : y = q[j] /\ r = M[y] /\ t = R[y] /\ o = <<j - 1>>
    OBVIOUS
  <2>2. y \in 1 .. Len(M) /\ y \in ToSet(q) /\ Place(y) = j
    <3>1. y \in 1 .. Len(M)
      BY <1>1, <1>2, <2>1
    <3>2. y \in ToSet(q)
      BY <1>4, <2>1, Zenon
    <3>3. Place(y) = j
      BY <1>5, <2>1, Zenon
    <3> QED
      BY <3>1, <3>2, <3>3
  <2>3. R[y] = SetName(M[y], <<Place(y) - 1>>)
    BY <1>3, <1>7, <2>2
  <2>4. t = SetName(r, o)
    BY <2>1, <2>2, <2>3, Zenon
  <2>5. r \in NodeType /\ o \in Seq(Int)
    BY <1>6, <2>1, <2>2
  <2>6. SameThing(t, r) /\ t.overname = o /\ t.symtab = r.symtab /\ t.nextSibling = r.nextSibling
         /\ t.previousSibling = r.previousSibling /\ t.overloaded = r.overloaded
    BY <2>4, <2>5, SetNameIs
  <2> QED
    BY <2>1, <2>6
<1>10. ASSUME NEW y \in 1 .. Len(M)
       PROVE  /\ SameThing(R[y], M[y]) /\ R[y].symtab = M[y].symtab /\ R[y].nextSibling = M[y].nextSibling
              /\ R[y].previousSibling = M[y].previousSibling /\ R[y].overloaded = M[y].overloaded
              /\ M[y].symtab # s => R[y].overname = M[y].overname
  <2>1. CASE M[y].symtab # s
    BY <1>6, <1>8, <2>1 DEF SameThing
  <2>2. CASE M[y].symtab = s
    <3>1. PICK j \in 1 .. g : q[j] = y
      BY <1>2, <2>2
    <3> QED
      BY <1>9, <2>2, <3>1
  <2> QED
    BY <2>1, <2>2
<1>11. R \in Seq(NodeType) /\ Len(R) = Len(M)
  <2>1. \A y \in 1 .. Len(M) : R[y] \in NodeType
    BY <1>10 DEF SameThing
  <2> QED
    BY <1>7, <2>1, SeqIs
<1>12. SameNodes(M, R)
  BY <1>10, <1>11 DEF SameNodes, SameThing
<1> QED
  BY <1>1, <1>9, <1>10, <1>12 DEF Renamed

\* Node n is gone from the table of scope s, whose list is q now.
Gone(N, M, n, s, q) ==
  /\ SameNodes(N, M) /\ M[n].symtab = "none" /\ Unused(M[n])
  /\ \A y \in 1 .. Len(N) : y # n => M[y].symtab = N[y].symtab
  /\ \A y \in 1 .. Len(N) : N[y].symtab # s => SameLinks(N, M, y)
  /\ ListOK(M, HeadOf(q), s, q)

LEMMA CutGone ==
  ASSUME NEW N, NEW M, NEW s \in Scopes, NEW e, NEW l, ListOK(N, e, s, l),
         NEW p, NEW n, NEW ps, NEW ns, At(l, p, n, ps, ns), Cut(N, M, n, ps, ns)
  PROVE  /\ \A y \in 1 .. Len(N) : y # n => M[y].symtab = N[y].symtab
         /\ \A y \in 1 .. Len(N) : N[y].symtab # s => SameLinks(N, M, y)
<1>1. \A j \in 1 .. Len(l) : N[l[j]].symtab = s
  BY ListNodes
<1>2. Len(l) \in Nat
  BY ListNodes
<1>3. N[n].symtab = s /\ (ps # NoNode => N[ps].symtab = s) /\ (ns # NoNode => N[ns].symtab = s)
  <2>1. ps # NoNode => \E j \in 1 .. Len(l) : ps = l[j]
    <3>1. p # 1 => p - 1 \in 1 .. Len(l)
      BY <1>2 DEF At
    <3> QED
      BY <3>1 DEF At
  <2>2. ns # NoNode => \E j \in 1 .. Len(l) : ns = l[j]
    <3>1. p # Len(l) => p + 1 \in 1 .. Len(l)
      BY <1>2 DEF At
    <3> QED
      BY <3>1 DEF At
  <2> QED
    BY <1>1, <2>1, <2>2 DEF At
<1>4. \A y \in 1 .. Len(N) : y # NoNode
  BY DEF NoNode
<1> QED
  BY <1>3, <1>4 DEF Cut, SameLinks

\* Swig_symbol_remove, when n is the last of its list.
LEMMA GoneLast ==
  ASSUME NEW N, NEW M, Len(N) \in Nat, NEW s \in Scopes, NEW e, NEW l, ListOK(N, e, s, l),
         NEW p, NEW n, NEW ps, NEW ns, At(l, p, n, ps, ns), Cut(N, M, n, ps, ns), NEW q, q = Without(l, p),
         p = Len(l)
  PROVE  Gone(N, M, n, s, q)
<1>1. Linked(M, s, q) /\ Len(q) = Len(l) - 1 /\ CutNames(M, q, p)
  BY CutList
<1>2. \A j \in 1 .. Len(q) : M[q[j]].overname = <<j - 1>>
  <2>1. Len(l) \in Nat
    BY ListNodes
  <2>2. \A j \in 1 .. Len(q) : j < p
    BY <1>1, <2>1
  <2> QED
    BY <1>1, <2>2 DEF CutNames
<1>3. ListOK(M, HeadOf(q), s, q)
  BY <1>1, <1>2, LinkedNamed
<1>4. /\ \A y \in 1 .. Len(N) : y # n => M[y].symtab = N[y].symtab
      /\ \A y \in 1 .. Len(N) : N[y].symtab # s => SameLinks(N, M, y)
  BY CutGone
<1>5. SameNodes(N, M) /\ M[n].symtab = "none" /\ Unused(M[n])
  BY DEF Cut
<1> QED
  BY <1>3, <1>4, <1>5 DEF Gone

\* Swig_symbol_remove, when another node follows.
LEMMA GoneInside ==
  ASSUME NEW N, NEW M, Len(N) \in Nat, NEW s \in Scopes, NEW e, NEW l, ListOK(N, e, s, l), NEW n \in 1 .. Len(N),
         NEW p, NEW ps, NEW ns, At(l, p, n, ps, ns), Cut(N, M, n, ps, ns), NEW q, q = Without(l, p),
         p # Len(l), NEW R, R = Renumbered(M, ns)
  PROVE  Gone(N, R, n, s, q)
<1>1. Linked(M, s, q) /\ Len(q) = Len(l) - 1
  BY CutList
<1>2. p \in 1 .. Len(q) /\ ns = q[p]
  <2>1. PICK g, k : g = Len(l) /\ k = g - 1
    OBVIOUS
  <2>2. g \in Nat /\ p \in 1 .. g /\ p # g /\ ns = l[p + 1]
    BY <2>1, ListNodes DEF At
  <2>3. p \in 1 .. k /\ ~ (p < p) /\ Len(q) = k
    BY <1>1, <2>1, <2>2
  <2>4. q = [j \in 1 .. k |-> IF j < p THEN l[j] ELSE l[j + 1]]
    BY <2>1 DEF Without
  <2> QED
    BY <2>2, <2>3, <2>4
<1>3. M \in Seq(NodeType) /\ SameNodes(N, M) /\ M[n].symtab = "none" /\ Unused(M[n]) /\ Len(M) = Len(N)
  BY DEF Cut, SameNodes
<1>10. Renamed(M, R, s, q)
  BY <1>1, <1>2, <1>3, RenumberedOK
<1>4. /\ SameNodes(M, R)
      /\ \A y \in 1 .. Len(M) : /\ R[y].symtab = M[y].symtab /\ R[y].nextSibling = M[y].nextSibling
                                /\ R[y].previousSibling = M[y].previousSibling
                                /\ R[y].overloaded = M[y].overloaded
                                /\ M[y].symtab # s => R[y].overname = M[y].overname
  BY <1>10 DEF Renamed
<1>5. /\ \A y \in 1 .. Len(N) : y # n => M[y].symtab = N[y].symtab
      /\ \A y \in 1 .. Len(N) : N[y].symtab # s => SameLinks(N, M, y)
  BY CutGone
<1>6. SameNodes(N, R)
  BY <1>3, <1>4 DEF SameNodes
<1>7. \A y \in 1 .. Len(N) : y # n => R[y].symtab = N[y].symtab
  BY <1>3, <1>4, <1>5
<1>8. \A y \in 1 .. Len(N) : N[y].symtab # s => SameLinks(N, R, y)
  BY <1>3, <1>4, <1>5 DEF SameLinks
<1>9. R[n].symtab = "none" /\ Unused(R[n])
  <2>1. s # "none"
    BY DEF Scopes
  <2> QED
    BY <1>3, <1>4, <2>1 DEF Unused
<1>12. ListOK(R, HeadOf(q), s, q)
  BY <1>1, <1>10, RenamedList
<1> QED
  BY <1>6, <1>7, <1>8, <1>9, <1>12 DEF Gone

\* Node n is in no table now, nothing else has changed.
Removed(N, E, s, n, M, F) ==
  /\ TablesOK(M, F) /\ M[n].symtab = "none" /\ SameNodes(N, M)
  /\ \A y \in 1 .. Len(N) : y # n => M[y].symtab = N[y].symtab
  /\ \A t \in Scopes : t # s => F[t] = E[t]

\* The tables when a node is gone from one.
LEMMA GoneTables ==
  ASSUME NEW N, NEW E, TablesOK(N, E), NEW s \in Scopes, NEW n \in 1 .. Len(N), N[n].symtab = s,
         NEW M, NEW q, Gone(N, M, n, s, q), NEW F \in [Scopes -> Nat], F[s] = HeadOf(q),
         \A t \in Scopes : t # s => F[t] = E[t]
  PROVE  Removed(N, E, s, n, M, F)
<1>1. /\ SameNodes(N, M) /\ M[n].symtab = "none" /\ Unused(M[n])
      /\ \A y \in 1 .. Len(N) : y # n => M[y].symtab = N[y].symtab
      /\ \A y \in 1 .. Len(N) : N[y].symtab # s => SameLinks(N, M, y)
      /\ ListOK(M, HeadOf(q), s, q)
  BY DEF Gone
<1>2. M \in Seq(NodeType) /\ Len(M) = Len(N)
  BY <1>1 DEF SameNodes
<1>3. Loose(M)
  <2>1. ASSUME NEW y \in 1 .. Len(M) PROVE Unused(M[y])
    <3>1. y \in 1 .. Len(N)
      BY <1>2, <2>1
    <3>2. Unused(N[y])
      BY <3>1 DEF TablesOK, Loose
    <3>3. y # n /\ M[y].symtab = "none" => SameLinks(N, M, y)
      <4>1. s # "none"
        BY DEF Scopes
      <4> QED
        BY <1>1, <3>1, <4>1
    <3> QED
      BY <1>1, <3>2, <3>3 DEF Unused, SameLinks
  <2> QED
    BY <2>1 DEF Loose
<1>4. ASSUME NEW t \in Scopes PROVE \E l : ListOK(M, F[t], t, l)
  <2>1. CASE t = s
    <3>1. ListOK(M, F[s], s, q)
      BY <1>1
    <3> QED
      BY <2>1, <3>1
  <2>2. CASE t # s
    <3>1. SameScope(N, M, t)
      <4>1. \A y \in 1 .. Len(N) : N[y].symtab = t => SameLinks(N, M, y)
        BY <1>1, <2>2
      <4>2. \A y \in 1 .. Len(N) : M[y].symtab = t => N[y].symtab = t
        <5>1. t # "none"
          BY DEF Scopes
        <5> QED
          BY <1>1, <5>1
      <4> QED
        BY <4>1, <4>2 DEF SameScope
    <3>2. \E l : ListOK(M, E[t], t, l)
      BY <1>2, <2>2, <3>1, OtherLists
    <3> QED
      BY <2>2, <3>2
  <2> QED
    BY <2>1, <2>2
<1>5. TablesOK(M, F)
  BY <1>2, <1>3, <1>4 DEF TablesOK
<1> QED
  BY <1>1, <1>5 DEF Removed

\* What Swig_symbol_remove does.
LEMMA RemoveUnfold ==
  ASSUME NEW st, NEW n
  PROVE  LET s == st.node[n].symtab
             ps == st.node[n].previousSibling
             ns == st.node[n].nextSibling
             cut == SetPlace(Unlink(st.node, n), n, "none", <<>>)
         IN  Swig_symbol_remove(st, n)
             = [node  |-> IF ns = NoNode THEN cut ELSE Renumbered(cut, ns),
                entry |-> IF ps = NoNode THEN [st.entry EXCEPT ![s] = ns] ELSE st.entry]
  BY Zenon DEF Swig_symbol_remove, SetPlace

LEMMA RemoveOK ==
  ASSUME NEW N, NEW E, TablesOK(N, E), NEW s \in Scopes, NEW n \in 1 .. Len(N), N[n].symtab = s,
         NEW st, st.node = N, st.entry = E, NEW R, R = Swig_symbol_remove(st, n)
  PROVE  Removed(N, E, s, n, R.node, R.entry)
<1>1. PICK e, l : e = E[s] /\ ListOK(N, e, s, l)
  BY DEF TablesOK
<1>2. PICK g : g = Len(l)
  OBVIOUS
<1>3. /\ g \in Nat /\ l \in Seq(1 .. Len(N)) /\ \A j \in 1 .. g : l[j] \in 1 .. Len(N) /\ N[l[j]].symtab = s
      /\ \A a, b \in 1 .. g : l[a] = l[b] => a = b
      /\ (g = 0 => e = NoNode) /\ (g # 0 => e = l[1])
  BY <1>1, <1>2, ListNodes
<1>4. N \in Seq(NodeType) /\ E \in [Scopes -> Nat] /\ Len(N) \in Nat
  BY DEF TablesOK
<1>5. PICK p \in 1 .. g : l[p] = n
  BY <1>1, <1>2 DEF ListOK
<1>6. PICK ps, ns : ps = N[n].previousSibling /\ ns = N[n].nextSibling
  OBVIOUS
<1>7. /\ ps = (IF p = 1 THEN NoNode ELSE l[p - 1])
      /\ ns = (IF p = g THEN NoNode ELSE l[p + 1])
  BY <1>1, <1>2, <1>5, <1>6 DEF ListOK, Follows
<1>8. At(l, p, n, ps, ns)
  BY <1>2, <1>5, <1>7 DEF At
<1>9. (p # 1 => p - 1 \in 1 .. g /\ p - 1 # p) /\ (p # g => p + 1 \in 1 .. g /\ p + 1 # p /\ p + 1 # p - 1)
  BY <1>3
<1>10. /\ ps \in {NoNode} \cup 1 .. Len(N) /\ ns \in {NoNode} \cup 1 .. Len(N)
       /\ ps # n /\ ns # n /\ (ps # ns \/ ps = NoNode)
  <2>1. ps \in {NoNode} \cup 1 .. Len(N) /\ ps # n
    BY <1>3, <1>5, <1>7, <1>9 DEF NoNode
  <2>2. ns \in {NoNode} \cup 1 .. Len(N) /\ ns # n
    BY <1>3, <1>5, <1>7, <1>9 DEF NoNode
  <2>3. ps # ns \/ ps = NoNode
    BY <1>3, <1>7, <1>9 DEF NoNode
  <2> QED
    BY <2>1, <2>2, <2>3
<1>11. ps \in Nat /\ ns \in Nat
  BY <1>10 DEF NoNode
<1>12. PICK M : M = SetPlace(Unlink(N, n), n, "none", <<>>)
  OBVIOUS
<1>13. Cut(N, M, n, ps, ns)
  BY <1>4, <1>6, <1>10, <1>11, <1>12, CutOK
<1>14. PICK q : q = Without(l, p)
  OBVIOUS
<1>15. PICK K : K = IF ns = NoNode THEN M ELSE Renumbered(M, ns)
  OBVIOUS
<1>16. ns = NoNode <=> p = g
  BY <1>3, <1>7, <1>9 DEF NoNode
<1>17. Gone(N, K, n, s, q)
  <2>1. CASE ns = NoNode
    <3>1. p = Len(l) /\ K = M
      BY <1>2, <1>15, <1>16, <2>1
    <3> QED
      BY <1>1, <1>4, <1>8, <1>13, <1>14, <3>1, GoneLast
  <2>2. CASE ns # NoNode
    <3>1. p # Len(l) /\ K = Renumbered(M, ns)
      BY <1>2, <1>15, <1>16, <2>2
    <3> QED
      BY <1>1, <1>4, <1>8, <1>13, <1>14, <3>1, GoneInside
  <2> QED
    BY <2>1, <2>2
<1>18. PICK F : F = IF ps = NoNode THEN [E EXCEPT ![s] = ns] ELSE E
  OBVIOUS
<1>19. ps = NoNode <=> p = 1
  BY <1>3, <1>7, <1>9 DEF NoNode
<1>20. F \in [Scopes -> Nat] /\ \A t \in Scopes : t # s => F[t] = E[t]
  BY <1>4, <1>11, <1>18
<1>21. F[s] = HeadOf(q)
  <2>1. F[s] = IF p = 1 THEN ns ELSE l[1]
    <3>1. g # 0
      BY <1>3
    <3> QED
      BY <1>1, <1>3, <1>4, <1>18, <1>19, <3>1
  <2>2. PICK k : k = g - 1
    OBVIOUS
  <2>3. q = [j \in 1 .. k |-> IF j < p THEN l[j] ELSE l[j + 1]] /\ k \in Nat /\ g = k + 1
    BY <1>2, <1>3, <1>14, <2>2 DEF Without
  <2>4. Len(q) = k
    BY <2>3
  <2>5. CASE k = 0
    BY <1>7, <2>1, <2>3, <2>4, <2>5 DEF HeadOf
  <2>6. CASE k # 0
    <3>1. 1 \in 1 .. k /\ (p = 1 => ~ (1 < p) /\ p # g) /\ (p # 1 => 1 < p)
      BY <2>3, <2>6
    <3>2. q[1] = IF p = 1 THEN l[1 + 1] ELSE l[1]
      BY <2>3, <3>1
    <3>3. p = 1 => ns = l[1 + 1]
      BY <1>7, <3>1
    <3> QED
      BY <2>1, <2>4, <2>6, <3>2, <3>3 DEF HeadOf
  <2> QED
    BY <2>5, <2>6
<1>22. R = [node |-> K, entry |-> F]
  <2>1. Swig_symbol_remove(st, n)
             = [node  |-> IF st.node[n].nextSibling = NoNode THEN SetPlace(Unlink(st.node, n), n, "none", <<>>)
                          ELSE Renumbered(SetPlace(Unlink(st.node, n), n, "none", <<>>), st.node[n].nextSibling),
                entry |-> IF st.node[n].previousSibling = NoNode
                          THEN [st.entry EXCEPT ![st.node[n].symtab] = st.node[n].nextSibling] ELSE st.entry]
    BY RemoveUnfold, Zenon
  <2>2. st.node = N /\ st.entry = E /\ N[n].symtab = s
    OBVIOUS
  <2> QED
    BY <1>6, <1>12, <1>15, <1>18, <2>1, <2>2, Zenon
<1>23. Removed(N, E, s, n, K, F)
  BY <1>17, <1>20, <1>21, GoneTables
<1> QED
  BY <1>22, <1>23

-----------------------------------------------------------------------------
(* Nodes that are marked, and nodes that are made.                         *)

Mark(N, n, b) == [N EXCEPT ![n].error = b]

\* Everything but the mark of n is the same.
Marks(N, M, n, b) ==
  /\ M \in Seq(NodeType) /\ Len(M) = Len(N)
  /\ \A y \in 1 .. Len(N) : SameLinks(N, M, y) /\ M[y].kind = N[y].kind /\ M[y].decl = N[y].decl
  /\ \A y \in 1 .. Len(N) : y # n => M[y].error = N[y].error
  /\ M[n].error = b

SetError(r, b) == [r EXCEPT !.error = b]

LEMMA ErrorIs ==
  ASSUME NEW r \in NodeType, NEW b \in BOOLEAN, NEW q, q = SetError(r, b)
  PROVE  /\ q \in NodeType /\ q.kind = r.kind /\ q.decl = r.decl /\ q.error = b
         /\ q.overname = r.overname /\ q.symtab = r.symtab /\ q.nextSibling = r.nextSibling
         /\ q.previousSibling = r.previousSibling /\ q.overloaded = r.overloaded
  BY DEF NodeType, SetError

LEMMA MarkIs ==
  ASSUME NEW N \in Seq(NodeType), NEW n \in 1 .. Len(N), NEW b \in BOOLEAN, NEW M, M = Mark(N, n, b)
  PROVE  Marks(N, M, n, b)
<1>1. DOMAIN N = 1 .. Len(N) /\ \A y \in 1 .. Len(N) : N[y] \in NodeType
  OBVIOUS
<1>2. Over(N, M) /\ M[n] = SetError(N[n], b) /\ \A y \in 1 .. Len(N) : y # n => M[y] = N[y]
  BY <1>1 DEF Mark, SetError, Over
<1>3. /\ M[n] \in NodeType /\ M[n].kind = N[n].kind /\ M[n].decl = N[n].decl /\ M[n].error = b
      /\ M[n].overname = N[n].overname /\ M[n].symtab = N[n].symtab /\ M[n].nextSibling = N[n].nextSibling
      /\ M[n].previousSibling = N[n].previousSibling /\ M[n].overloaded = N[n].overloaded
  <2>1. PICK q, r : q = M[n] /\ r = N[n]
    OBVIOUS
  <2>2. r \in NodeType /\ q = SetError(r, b)
    BY <1>1, <1>2, <2>1
  <2>3. /\ q \in NodeType /\ q.kind = r.kind /\ q.decl = r.decl /\ q.error = b
        /\ q.overname = r.overname /\ q.symtab = r.symtab /\ q.nextSibling = r.nextSibling
        /\ q.previousSibling = r.previousSibling /\ q.overloaded = r.overloaded
    BY <2>2, ErrorIs
  <2> QED
    BY <2>1, <2>3
<1>4. M \in Seq(NodeType) /\ Len(M) = Len(N)
  <2>1. \A y \in 1 .. Len(N) : M[y] \in NodeType
    BY <1>1, <1>2, <1>3
  <2> QED
    BY <1>2, <2>1, SeqIs
<1>5. \A y \in 1 .. Len(N) : y = n \/ M[y] = N[y]
  BY <1>2
<1>6. \A y \in 1 .. Len(N) : SameLinks(N, M, y) /\ M[y].kind = N[y].kind /\ M[y].decl = N[y].decl
  BY <1>3, <1>5 DEF SameLinks
<1> QED
  BY <1>2, <1>3, <1>4, <1>6 DEF Marks

LEMMA MarkTables ==
  ASSUME NEW N, NEW E, TablesOK(N, E), NEW n, NEW b, NEW M, Marks(N, M, n, b)
  PROVE  TablesOK(M, E)
<1>1. /\ M \in Seq(NodeType) /\ Len(M) = Len(N)
      /\ \A y \in 1 .. Len(N) : SameLinks(N, M, y)
  BY DEF Marks
<1>2. Loose(M)
  BY <1>1 DEF TablesOK, Loose, Unused, SameLinks
<1>3. ASSUME NEW s \in Scopes PROVE \E l : ListOK(M, E[s], s, l)
  <2>1. PICK e, l : e = E[s] /\ ListOK(N, e, s, l)
    BY DEF TablesOK
  <2>2. SameScope(N, M, s)
    BY <1>1 DEF SameScope, SameLinks
  <2>3. ListOK(M, e, s, l)
    BY <1>1, <2>1, <2>2, ListStays
  <2> QED
    BY <2>1, <2>3
<1> QED
  BY <1>1, <1>2, <1>3 DEF TablesOK

\* A new node behind the others.
Longer(G, E, N, r) ==
  /\ TablesOK(N, E) /\ Len(G) \in Nat /\ Len(N) = Len(G) + 1 /\ N[Len(G) + 1] = r
  /\ \A y \in 1 .. Len(G) : N[y] = G[y]

\* It is in no table.
LEMMA AppendTables ==
  ASSUME NEW N, NEW E, TablesOK(N, E), NEW r \in NodeType, Unused(r), r.symtab = "none"
  PROVE  Longer(N, E, Append(N, r), r)
<1>0. PICK M : M = Append(N, r)
  OBVIOUS
<1>1. N \in Seq(NodeType) /\ Len(N) \in Nat
  BY DEF TablesOK
<1>2. PICK n : n = Len(N)
  OBVIOUS
<1>3. /\ M \in Seq(NodeType) /\ Len(M) = n + 1 /\ M[n + 1] = r /\ \A y \in 1 .. n : M[y] = N[y]
  BY <1>0, <1>1, <1>2
<1>4. n \in Nat /\ \A y \in 1 .. n + 1 : y = n + 1 \/ y \in 1 .. n
  BY <1>1, <1>2
<1>5. Loose(M)
  <2>1. \A y \in 1 .. n : Unused(N[y])
    BY <1>2 DEF TablesOK, Loose
  <2>2. ASSUME NEW y \in 1 .. n + 1 PROVE Unused(M[y])
    <3>1. CASE y = n + 1
      BY <1>3, <3>1
    <3>2. CASE y \in 1 .. n
      BY <1>3, <2>1, <3>2
    <3> QED
      BY <1>4, <3>1, <3>2
  <2> QED
    BY <1>3, <2>2 DEF Loose
<1>6. ASSUME NEW s \in Scopes PROVE \E l : ListOK(M, E[s], s, l)
  <2>1. PICK e, l : e = E[s] /\ ListOK(N, e, s, l)
    BY DEF TablesOK
  <2>2. l \in Seq(1 .. n) /\ \A j \in 1 .. Len(l) : l[j] \in 1 .. n
    BY <1>2, <2>1, ListNodes
  <2>3. \A y \in 1 .. n : y \in 1 .. n + 1
    BY <1>4
  <2>4. l \in Seq(1 .. n + 1)
    <3>1. Over(l, l)
      BY <2>2 DEF Over
    <3>2. \A j \in 1 .. Len(l) : l[j] \in 1 .. n + 1
      BY <2>2, <2>3
    <3> QED
      BY <2>2, <3>1, <3>2, SeqIs
  <2>5. \A j \in 1 .. Len(l) : M[l[j]] = N[l[j]]
    BY <1>3, <2>2
  <2>6. Follows(M, e, "nextSibling", l)
    BY <1>3, <2>1, <2>4, <2>5 DEF ListOK, Follows
  <2>7. ASSUME NEW y \in 1 .. n + 1 PROVE M[y].symtab = s <=> \E j \in 1 .. Len(l) : l[j] = y
    <3>1. s # "none"
      BY DEF Scopes
    <3>2. CASE y = n + 1
      <4>1. \A j \in 1 .. Len(l) : l[j] # n + 1
        BY <1>4, <2>2
      <4> QED
        BY <1>3, <3>1, <3>2, <4>1
    <3>3. CASE y \in 1 .. n
      BY <1>2, <1>3, <2>1, <3>3 DEF ListOK
    <3> QED
      BY <1>4, <3>2, <3>3
  <2>8. ListOK(M, e, s, l)
    BY <1>3, <2>1, <2>5, <2>6, <2>7 DEF ListOK
  <2> QED
    BY <2>1, <2>8
<1>7. TablesOK(M, E)
  BY <1>3, <1>5, <1>6 DEF TablesOK
<1>8. Longer(N, E, M, r)
  BY <1>1, <1>2, <1>3, <1>7 DEF Longer
<1> QED
  BY <1>0, <1>8, Zenon

-----------------------------------------------------------------------------
(***************************************************************************)
(* The invariant of the symbol table.                                      *)
(***************************************************************************)

Kinded(r) ==
  \/ r.kind \in {"cdecl", "template"} /\ r.decl \in Decls
  \/ r.kind \in {"using", "variable"} /\ r.decl = 0

\* Marked nodes are in no table, and using declarations are not in the table of %extend.
NodesOK(N) ==
  \A y \in 1 .. Len(N) : /\ Kinded(N[y])
                         /\ N[y].error => N[y].symtab = "none"
                         /\ N[y].symtab = "extend" => N[y].kind # "using"

\* The declarations of table c are apart, and those of all tables, but for one that
\* begins with a using declaration.
AllApart(N, c) ==
  \A x, y \in 1 .. Len(N) :
     N[x].symtab = c /\ N[y].symtab = c /\ x # y => Apart(N[x], N[y])
ApartOK(N, E) == \A c \in Scopes : UsingHeads(N, E[c]) \/ AllApart(N, c)

\* The declarations of the %extend block still to merge.
BlockOK(N, b) ==
  /\ b \in Seq(1 .. Len(N)) /\ \A i, j \in 1 .. Len(b) : b[i] = b[j] => i = j
  /\ \A i \in 1 .. Len(b) : N[b[i]].kind # "using" /\ (N[b[i]].error \/ N[b[i]].symtab = "extend")
InBlock(b, x) == \E i \in 1 .. Len(b) : b[i] = x

\* Before the merge: every declaration that is not marked is in a table, and those of
\* %extend are still to merge.
Unmerged(N, b) ==
  \A y \in 1 .. Len(N) : /\ N[y].symtab = "none" => N[y].error
                         /\ N[y].symtab = "extend" => InBlock(b, y)

\* In and after the merge, p has the table of each declaration before it.  A declaration
\* of the block waits, or is in the class, or was turned away.
Kept(N, p, x) ==
  /\ N[x].kind = "variable" /\ N[x].symtab = "none"
  /\ \E m \in 1 .. Len(p) : p[m] = "class" /\ N[m].symtab = "class"
Placing(N, p, b, x) ==
  /\ N[x].kind # "using" /\ ~ N[x].error
  /\ \/ N[x].symtab = "extend" /\ InBlock(b, x)
     \/ N[x].symtab = "class"
     \/ Kept(N, p, x)

\* A member is marked exactly if it is out, and then a declaration of the block conflicts.
OutIfMarked(N, x) == N[x].symtab = IF N[x].error THEN "none" ELSE "class"
Replaced(N, p, x) == \E z \in 1 .. Len(p) : p[z] = "extend" /\ ~ Apart(N[x], N[z])

Turned(N, p, b) ==
  /\ Len(p) \in Nat /\ Len(p) <= Len(N)
  /\ \A x, y \in 1 .. Len(p) : p[x] = "extend" /\ p[y] = "extend" /\ x # y => Apart(N[x], N[y])
  /\ \A x \in 1 .. Len(p) : p[x] = "extend" => Placing(N, p, b, x)
  /\ \A x \in 1 .. Len(p) : p[x] = "class" => OutIfMarked(N, x) /\ (N[x].error => Replaced(N, p, x))
  /\ \A x \in 1 .. Len(p) : p[x] \notin Scopes => N[x].error
  /\ \A x \in 1 .. Len(N) : x > Len(p) => OutIfMarked(N, x)

\* What the phases add.
PhaseOK(N, p, b, ph) ==
  /\ ph \in {"extend", "class"} => p = <<>> /\ Unmerged(N, b)
  /\ ph \in {"merge", "later"} => Turned(N, p, b)
  /\ ph = "merge" => Len(p) = Len(N)
  /\ ph = "later" => b = <<>>

SymInv ==
  Parsing =>
    /\ TablesOK(node, entry) /\ NodesOK(node) /\ ApartOK(node, entry)
    /\ BlockOK(node, block) /\ PhaseOK(node, before, block, phase)

\* The first node of a table is in it.
LEMMA EntryNode ==
  ASSUME NEW N, NEW E, TablesOK(N, E), NEW s \in Scopes
  PROVE  /\ E[s] # NoNode => E[s] \in 1 .. Len(N) /\ N[E[s]].symtab = s
         /\ E[s] = NoNode => \A y \in 1 .. Len(N) : N[y].symtab # s
<1>1. PICK e, l : e = E[s] /\ ListOK(N, e, s, l)
  BY DEF TablesOK
<1>2. /\ Len(l) \in Nat /\ \A j \in 1 .. Len(l) : l[j] \in 1 .. Len(N) /\ N[l[j]].symtab = s
      /\ (Len(l) = 0 => e = NoNode) /\ (Len(l) # 0 => e = l[1])
  BY <1>1, ListNodes
<1>3. Len(l) # 0 => 1 \in 1 .. Len(l) /\ l[1] # NoNode
  BY <1>2 DEF NoNode
<1>4. Len(l) = 0 => \A y \in 1 .. Len(N) : N[y].symtab # s
  BY <1>1 DEF ListOK
<1> QED
  BY <1>1, <1>2, <1>3, <1>4

\* The table of %extend does not begin with a using declaration.
LEMMA BlockHead ==
  ASSUME NEW N, NEW E, TablesOK(N, E), NodesOK(N)
  PROVE  ~ UsingHeads(N, E["extend"])
<1>1. PICK c : c = "extend"
  OBVIOUS
<1>2. E[c] # NoNode => E[c] \in 1 .. Len(N) /\ N[E[c]].symtab = c
  BY <1>1, EntryNode DEF Scopes
<1> QED
  BY <1>1, <1>2 DEF UsingHeads, NodesOK

LEMMA ApartSym ==
  ASSUME NEW a, NEW b, Apart(a, b)
  PROVE  Apart(b, a)
  BY DEF Apart, SameDecl

\* What is apart stays apart.
LEMMA ApartStays ==
  ASSUME NEW a, NEW b, Apart(a, b), NEW c, NEW d, c.kind = a.kind, c.decl = a.decl, d.kind = b.kind, d.decl = b.decl
  PROVE  Apart(c, d)
  BY DEF Apart, SameDecl

\* A declaration that conflicts with none in a table is apart from all.
LEMMA ComparedApart ==
  ASSUME NEW N, NEW e \in 1 .. Len(N), NEW s, N[e].symtab = s, NEW n, Compared(N, e, s, n, NoNode),
         N[e].kind # "using", \A y \in 1 .. Len(N) : N[y].symtab = s /\ e # y => Apart(N[e], N[y]),
         NEW y \in 1 .. Len(N), N[y].symtab = s
  PROVE  Apart(N[y], N[n])
<1>1. \/ "using" \in {N[e].kind, N[n].kind}
      \/ /\ "variable" \notin {N[e].kind, N[n].kind}
         /\ ~ SameDecl(N[y], N[n])
  BY DEF Compared, NoNode
<1>2. y = e \/ N[y].kind = "using" \/ N[y].kind # "variable"
  BY DEF Apart
<1> QED
  BY <1>1, <1>2 DEF Apart

\* A declaration that is found in conflict with another is not apart from it.
LEMMA NotApart ==
  ASSUME NEW N, NEW e, NEW s, NEW n, NEW x, Compared(N, e, s, n, x), x # NoNode, Kinded(N[x]), Kinded(N[n])
  PROVE  ~ Apart(N[x], N[n])
<1>1. /\ x \in 1 .. Len(N) /\ N[x].symtab = s /\ "using" \notin {N[e].kind, N[n].kind}
      /\ \/ x = e /\ "variable" \in {N[e].kind, N[n].kind}
         \/ "variable" \notin {N[e].kind, N[n].kind} /\ SameDecl(N[x], N[n])
  BY DEF Compared
<1>2. CASE x = e /\ "variable" \in {N[e].kind, N[n].kind}
  BY <1>1, <1>2 DEF Apart
<1>3. CASE "variable" \notin {N[e].kind, N[n].kind} /\ SameDecl(N[x], N[n])
  <2>1. PICK a, b : a = N[x] /\ b = N[n]
    OBVIOUS
  <2>2. b.kind \in {"cdecl", "template"} /\ b.decl \in Decls /\ SameDecl(a, b) /\ Kinded(a)
    BY <1>1, <1>3, <2>1 DEF Kinded
  <2>3. a.kind # "using"
    BY <2>2, DeclsAssumption DEF Kinded, SameDecl
  <2>4. ~ Apart(a, b)
    BY <2>2, <2>3 DEF Apart
  <2> QED
    BY <2>1, <2>4
<1> QED
  BY <1>1, <1>2, <1>3

\* The tables keep their declarations apart when one is added.
LEMMA ApartAdded ==
  ASSUME NEW N, NEW E, TablesOK(N, E), NEW s \in Scopes, NEW n \in 1 .. Len(N), N[n].symtab = "none",
         NEW M, NEW F, Added(N, E, s, n, M, F), E[s] # NoNode => Compared(N, E[s], s, n, NoNode),
         NEW c \in Scopes, UsingHeads(N, E[c]) \/ AllApart(N, c)
  PROVE  UsingHeads(M, F[c]) \/ AllApart(M, c)
<1>1. /\ M[n].symtab = s /\ Len(M) = Len(N)
      /\ \A y \in 1 .. Len(N) : M[y].kind = N[y].kind /\ M[y].decl = N[y].decl
      /\ \A y \in 1 .. Len(N) : y # n => M[y].symtab = N[y].symtab
      /\ F[s] = IF E[s] = NoNode THEN n ELSE E[s]
      /\ \A t \in Scopes : t # s => F[t] = E[t]
  BY DEF Added, SameNodes
<1>2. PICK e : e = E[c]
  OBVIOUS
<1>3. /\ c # "none"
      /\ e # NoNode => e \in 1 .. Len(N) /\ N[e].symtab = c
      /\ e = NoNode => \A y \in 1 .. Len(N) : N[y].symtab # c
  BY <1>2, EntryNode DEF Scopes
<1>4. e # NoNode => F[c] = e
  BY <1>1, <1>2, <1>3
<1>5. e # NoNode => (UsingHeads(M, F[c]) <=> UsingHeads(N, e))
  BY <1>1, <1>3, <1>4 DEF UsingHeads
<1>6. ASSUME ~ UsingHeads(M, F[c]) PROVE AllApart(M, c)
  <2>1. ~ UsingHeads(N, e)
    BY <1>5, <1>6 DEF UsingHeads
  <2>2. AllApart(N, c)
    BY <1>2, <2>1
  <2>3. ASSUME NEW y \in 1 .. Len(N), y # n, N[y].symtab = c, s = c PROVE Apart(N[y], N[n])
    <3>1. e # NoNode /\ N[e].kind # "using" /\ e \in 1 .. Len(N) /\ N[e].symtab = c
      BY <1>3, <2>1, <2>3 DEF UsingHeads
    <3>2. Compared(N, e, c, n, NoNode)
      BY <1>2, <2>3, <3>1
    <3>3. \A z \in 1 .. Len(N) : N[z].symtab = c /\ e # z => Apart(N[e], N[z])
      BY <2>2, <3>1 DEF AllApart
    <3> QED
      BY <2>3, <3>1, <3>2, <3>3, ComparedApart
  <2>4. ASSUME NEW x \in 1 .. Len(N), NEW y \in 1 .. Len(N), M[x].symtab = c, M[y].symtab = c, x # y
        PROVE  Apart(N[x], N[y])
    <3>1. CASE x # n /\ y # n
      BY <1>1, <2>2, <2>4, <3>1 DEF AllApart
    <3>2. CASE x = n
      <4>1. y # n /\ N[y].symtab = c /\ s = c
        BY <1>1, <2>4, <3>2
      <4> QED
        BY <2>3, <3>2, <4>1, ApartSym
    <3>3. CASE y = n
      <4>1. x # n /\ N[x].symtab = c /\ s = c
        BY <1>1, <2>4, <3>3
      <4> QED
        BY <2>3, <3>3, <4>1
    <3> QED
      BY <3>1, <3>2, <3>3
  <2>5. \A x, y \in 1 .. Len(N) : Apart(N[x], N[y]) => Apart(M[x], M[y])
    BY <1>1, ApartStays
  <2> QED
    BY <1>1, <2>4, <2>5 DEF AllApart
<1> QED
  BY <1>6

\* And when one is removed, or marked.
LEMMA ApartRemoved ==
  ASSUME NEW N, Len(N) \in Nat, NEW E, NEW s, NEW n, NEW M, NEW F, Removed(N, E, s, n, M, F),
         NEW c \in Scopes, AllApart(N, c)
  PROVE  AllApart(M, c)
<1>1. /\ M[n].symtab = "none" /\ Len(M) = Len(N) /\ c # "none"
      /\ \A y \in 1 .. Len(N) : M[y].kind = N[y].kind /\ M[y].decl = N[y].decl
      /\ \A y \in 1 .. Len(N) : y # n => M[y].symtab = N[y].symtab
  BY DEF Removed, SameNodes, Scopes
<1>2. \A x, y \in 1 .. Len(N) : Apart(N[x], N[y]) => Apart(M[x], M[y])
  BY <1>1, ApartStays
<1>3. \A y \in 1 .. Len(N) : M[y].symtab = c => y # n /\ N[y].symtab = c
  BY <1>1
<1> QED
  BY <1>1, <1>2, <1>3 DEF AllApart

LEMMA ApartMarked ==
  ASSUME NEW N, NEW n, NEW b, NEW M, Marks(N, M, n, b), NEW c, AllApart(N, c)
  PROVE  AllApart(M, c)
<1>1. /\ Len(M) = Len(N)
      /\ \A y \in 1 .. Len(N) : M[y].kind = N[y].kind /\ M[y].decl = N[y].decl /\ M[y].symtab = N[y].symtab
  BY DEF Marks, SameLinks
<1>2. \A x, y \in 1 .. Len(N) : Apart(N[x], N[y]) => Apart(M[x], M[y])
  BY <1>1, ApartStays
<1> QED
  BY <1>1, <1>2 DEF AllApart

\* The fields of the result of Swig_symbol_add.
Result(st) == st = [node |-> st.node, entry |-> st.entry, found |-> st.found]

LEMMA AddResult ==
  ASSUME NEW st, NEW s, NEW n
  PROVE  Result(Swig_symbol_add(st, s, n))
<1>1. PICK c, clash, q, h, z : /\ c = st.entry[s] /\ clash = Conflict(st.node, c, n)
                               /\ q = SetPlace(st.node, n, s, <<0>>) /\ h = [st.entry EXCEPT ![s] = n]
                               /\ z = Behind(st.node, n, s, Last(ListFrom(st.node, c)), c, Len(ListFrom(st.node, c)))
  OBVIOUS
<1>2. Swig_symbol_add(st, s, n)
        = IF c = NoNode THEN [node |-> q, entry |-> h, found |-> n]
          ELSE IF clash # NoNode THEN [node |-> st.node, entry |-> st.entry, found |-> clash]
          ELSE [node |-> z, entry |-> st.entry, found |-> n]
  <2>1. Swig_symbol_add(st, s, n)
        = IF st.entry[s] = NoNode
          THEN [node |-> SetPlace(st.node, n, s, <<0>>), entry |-> [st.entry EXCEPT ![s] = n], found |-> n]
          ELSE IF Conflict(st.node, st.entry[s], n) # NoNode
          THEN [node |-> st.node, entry |-> st.entry, found |-> Conflict(st.node, st.entry[s], n)]
          ELSE [node |-> Behind(st.node, n, s, Last(ListFrom(st.node, st.entry[s])), st.entry[s],
                                Len(ListFrom(st.node, st.entry[s]))),
                entry |-> st.entry, found |-> n]
    BY AddUnfold, Zenon
  <2> QED
    BY <1>1, <2>1, Zenon
<1>3. ASSUME NEW a, NEW b, NEW f, NEW R, R = [node |-> a, entry |-> b, found |-> f] PROVE Result(R)
  BY <1>3 DEF Result
<1> QED
  BY <1>2, <1>3

Marked(st, n, b) == [st EXCEPT !.node[n].error = b]

LEMMA MarkedState ==
  ASSUME NEW st, Result(st), NEW n, NEW b
  PROVE  Marked(st, n, b).node = Mark(st.node, n, b) /\ Marked(st, n, b).entry = st.entry
<1>1. PICK N, E, f : st = [node |-> N, entry |-> E, found |-> f] /\ N = st.node /\ E = st.entry
  BY DEF Result
<1>2. PICK M : M = Mark(N, n, b)
  OBVIOUS
<1>3. Marked(st, n, b) = [st EXCEPT !.node = M]
  BY <1>1, <1>2 DEF Mark, Marked
<1>4. Marked(st, n, b).node = M /\ Marked(st, n, b).entry = E
  BY <1>1, <1>3
<1> QED
  BY <1>1, <1>2, <1>4

\* What is added to a table keeps it apart.
LEMMA AddApart ==
  ASSUME NEW N, NEW E, TablesOK(N, E), NodesOK(N), ApartOK(N, E), NEW s \in Scopes, NEW n \in 1 .. Len(N),
         N[n].symtab = "none", ~ N[n].error, s = "extend" => N[n].kind # "using",
         NEW st, st.node = N, st.entry = E, NEW R, R = Swig_symbol_add(st, s, n)
  PROVE  AddIs(N, E, s, n, R) /\ TablesOK(R.node, R.entry) /\ NodesOK(R.node) /\ ApartOK(R.node, R.entry)
<1>1. AddIs(N, E, s, n, R)
  BY AddOK
<1>2. CASE R.node = N /\ R.entry = E
  BY <1>1, <1>2
<1>3. CASE Added(N, E, s, n, R.node, R.entry) /\ (E[s] # NoNode => Compared(N, E[s], s, n, NoNode))
  <2>1. PICK M, F : M = R.node /\ F = R.entry
    OBVIOUS
  <2>2. Added(N, E, s, n, M, F) /\ (E[s] # NoNode => Compared(N, E[s], s, n, NoNode))
    BY <1>3, <2>1
  <2>3. TablesOK(M, F)
    BY <2>2 DEF Added
  <2>4. ApartOK(M, F)
    BY <2>2, ApartAdded DEF ApartOK
  <2>5. NodesOK(M)
    <3>1. /\ M[n].symtab = s /\ Len(M) = Len(N)
          /\ \A y \in 1 .. Len(N) : M[y].kind = N[y].kind /\ M[y].decl = N[y].decl /\ M[y].error = N[y].error
          /\ \A y \in 1 .. Len(N) : y # n => M[y].symtab = N[y].symtab
      BY <2>2 DEF Added, SameNodes
    <3> QED
      BY <3>1 DEF NodesOK, Kinded
  <2> QED
    BY <1>1, <2>1, <2>3, <2>4, <2>5
<1> QED
  BY <1>1, <1>2, <1>3 DEF AddIs

\* Marking a node that is in no table.
LEMMA MarkNodes ==
  ASSUME NEW N, NEW E, TablesOK(N, E), NodesOK(N), NEW n \in 1 .. Len(N), NEW b \in BOOLEAN, b => N[n].symtab = "none",
         NEW M, Marks(N, M, n, b)
  PROVE  /\ NodesOK(M)
         /\ ApartOK(N, E) => ApartOK(M, E)
         /\ \A c : AllApart(N, c) => AllApart(M, c)
<1>1. /\ Len(M) = Len(N) /\ M[n].error = b
      /\ \A y \in 1 .. Len(N) : M[y].kind = N[y].kind /\ M[y].decl = N[y].decl /\ M[y].symtab = N[y].symtab
      /\ \A y \in 1 .. Len(N) : y # n => M[y].error = N[y].error
  BY DEF Marks, SameLinks
<1>2. NodesOK(M)
  BY <1>1 DEF NodesOK, Kinded
<1>3. \A c : AllApart(N, c) => AllApart(M, c)
  BY ApartMarked
<1>4. ASSUME ApartOK(N, E), NEW c \in Scopes PROVE UsingHeads(M, E[c]) \/ AllApart(M, c)
  <2>1. E[c] # NoNode => E[c] \in 1 .. Len(N)
    BY EntryNode
  <2>2. UsingHeads(M, E[c]) <=> UsingHeads(N, E[c])
    BY <1>1, <2>1 DEF UsingHeads
  <2> QED
    BY <1>3, <1>4, <2>2 DEF ApartOK
<1> QED
  BY <1>2, <1>3, <1>4 DEF ApartOK

\* Scope s has one more declaration, or a marked node is left out of it.
Declared(N, E, s, k, d, M, F) ==
  /\ Len(M) = Len(N) + 1 /\ Len(N) \in Nat
  /\ TablesOK(M, F) /\ NodesOK(M) /\ ApartOK(M, F)
  /\ \A y \in 1 .. Len(N) : /\ M[y].kind = N[y].kind /\ M[y].decl = N[y].decl
                            /\ M[y].error = N[y].error /\ M[y].symtab = N[y].symtab
  /\ M[Len(M)].kind = k /\ M[Len(M)].decl = d /\ (M[Len(M)].error \/ M[Len(M)].symtab = s)

Born(r, k, d) ==
  r \in NodeType /\ r.kind = k /\ r.decl = d /\ r.symtab = "none" /\ r.error = FALSE /\ Unused(r)

LEMMA NewNodeIs ==
  ASSUME NEW k \in Kinds, NEW d \in Nat
  PROVE  Born(NewNode(k, d), k, d)
  BY DEF Born, NewNode, NodeType, Unused, NoNode, Scopes

LEMMA BornTables ==
  ASSUME NEW G, NEW E, TablesOK(G, E), NEW k, NEW d, NEW r, Born(r, k, d)
  PROVE  Longer(G, E, Append(G, r), r)
<1>1. r \in NodeType /\ Unused(r) /\ r.symtab = "none"
  BY DEF Born
<1> QED
  BY <1>1, AppendTables, Zenon

\* What Swig_symbol_add finds: the new node, the last one, is in no table.
NewLast(G, E, s, k, d, N, n) ==
  /\ TablesOK(N, E) /\ NodesOK(N) /\ ApartOK(N, E)
  /\ Len(G) \in Nat /\ n = Len(G) + 1 /\ Len(N) = n
  /\ \A y \in 1 .. Len(G) : N[y] = G[y]
  /\ N[n].kind = k /\ N[n].decl = d /\ N[n].symtab = "none" /\ N[n].error = FALSE
  /\ s = "extend" => k # "using"

LEMMA NewLastIs ==
  ASSUME NEW G, NEW E, TablesOK(G, E), NodesOK(G), ApartOK(G, E),
         NEW s, NEW k, NEW d, s = "extend" => k # "using", NEW r, Born(r, k, d), Kinded(r),
         NEW N, Longer(G, E, N, r)
  PROVE  NewLast(G, E, s, k, d, N, Len(G) + 1)
<1>1. r \in NodeType /\ r.kind = k /\ r.decl = d /\ r.symtab = "none" /\ r.error = FALSE /\ Unused(r)
  BY DEF Born
<1>2. /\ TablesOK(N, E) /\ Len(G) \in Nat /\ Len(N) = Len(G) + 1 /\ N[Len(G) + 1] = r
      /\ \A y \in 1 .. Len(G) : N[y] = G[y]
  BY DEF Longer
<1>3. PICK n : n = Len(G) + 1
  OBVIOUS
<1>4. n \in 1 .. n /\ \A y \in 1 .. n : y = n \/ y \in 1 .. Len(G)
  BY <1>2, <1>3
<1>5. NodesOK(N)
  BY <1>1, <1>2, <1>3, <1>4 DEF NodesOK
<1>6. ApartOK(N, E)
  <2>1. ASSUME NEW c \in Scopes PROVE UsingHeads(N, E[c]) \/ AllApart(N, c)
    <3>1. E[c] # NoNode => E[c] \in 1 .. Len(G)
      BY EntryNode
    <3>2. UsingHeads(N, E[c]) <=> UsingHeads(G, E[c])
      BY <1>2, <3>1 DEF UsingHeads
    <3>3. c # "none"
      BY DEF Scopes
    <3>4. AllApart(G, c) => AllApart(N, c)
      BY <1>1, <1>2, <1>3, <1>4, <3>3 DEF AllApart
    <3> QED
      BY <3>2, <3>4 DEF ApartOK
  <2> QED
    BY <2>1 DEF ApartOK
<1> QED
  BY <1>1, <1>2, <1>5, <1>6 DEF NewLast

LEMMA DeclareOK ==
  ASSUME NEW G, NEW E, NEW s \in Scopes, NEW k, NEW d, NEW N, NEW n, NewLast(G, E, s, k, d, N, n),
         NEW st, st.node = N, st.entry = E,
         NEW R, R = Swig_symbol_add(st, s, n), NEW b \in BOOLEAN, b <=> R.found # n
  PROVE  Declared(G, E, s, k, d, Marked(R, n, b).node, Marked(R, n, b).entry)
<1>1. /\ TablesOK(N, E) /\ NodesOK(N) /\ ApartOK(N, E)
      /\ Len(G) \in Nat /\ n = Len(G) + 1 /\ Len(N) = n
      /\ \A y \in 1 .. Len(G) : N[y] = G[y]
      /\ N[n].kind = k /\ N[n].decl = d /\ N[n].symtab = "none" /\ N[n].error = FALSE
      /\ s = "extend" => k # "using"
  BY DEF NewLast
<1>2. n \in 1 .. n /\ \A y \in 1 .. n : y = n \/ y \in 1 .. Len(G)
  BY <1>1
<1>3. n \in 1 .. Len(N) /\ ~ N[n].error /\ (s = "extend" => N[n].kind # "using")
  BY <1>1, <1>2
<1>4. AddIs(N, E, s, n, R) /\ TablesOK(R.node, R.entry) /\ NodesOK(R.node) /\ ApartOK(R.node, R.entry)
  BY <1>1, <1>3, AddApart
<1>5. PICK A, F : A = R.node /\ F = R.entry
  OBVIOUS
<1>6. /\ SameNodes(N, A) /\ \A y \in 1 .. Len(N) : y # n => A[y].symtab = N[y].symtab
      /\ (~ b => A[n].symtab = s) /\ (b => A[n].symtab = "none")
  <2>1. SameNodes(N, N)
    BY <1>1 DEF SameNodes, TablesOK
  <2>2. (R.found = n /\ Added(N, E, s, n, A, F)) \/ (R.found # n /\ A = N)
    BY <1>4, <1>5 DEF AddIs
  <2>3. CASE R.found = n /\ Added(N, E, s, n, A, F)
    BY <2>3 DEF Added
  <2>4. CASE R.found # n /\ A = N
    BY <1>1, <2>1, <2>4
  <2> QED
    BY <2>2, <2>3, <2>4
<1>7. A \in Seq(NodeType) /\ Len(A) = n /\ n \in 1 .. Len(A) /\ b \in BOOLEAN
  BY <1>1, <1>2, <1>5, <1>6 DEF SameNodes
<1>8. Marked(R, n, b).node = Mark(A, n, b) /\ Marked(R, n, b).entry = F
  <2>1. Result(R)
    BY AddResult
  <2> QED
    BY <1>5, <2>1, MarkedState
<1>9. PICK M : M = Mark(A, n, b)
  OBVIOUS
<1>10. Marks(A, M, n, b)
  BY <1>7, <1>9, MarkIs
<1>11. TablesOK(A, F) /\ NodesOK(A) /\ ApartOK(A, F)
  BY <1>4, <1>5
<1>12. TablesOK(M, F)
  BY <1>10, <1>11, MarkTables
<1>13. NodesOK(M) /\ ApartOK(M, F)
  BY <1>6, <1>7, <1>10, <1>11, MarkNodes
<1>14. /\ Len(M) = n /\ M[n].error = b
       /\ \A y \in 1 .. n : M[y].kind = A[y].kind /\ M[y].decl = A[y].decl /\ M[y].symtab = A[y].symtab
       /\ \A y \in 1 .. n : y # n => M[y].error = A[y].error
  BY <1>7, <1>10 DEF Marks, SameLinks
<1>15. \A y \in 1 .. n : A[y].kind = N[y].kind /\ A[y].decl = N[y].decl /\ A[y].error = N[y].error
  BY <1>1, <1>6 DEF SameNodes
<1>16. \A y \in 1 .. Len(G) : y \in 1 .. n /\ y # n
  BY <1>1
<1>17. \A y \in 1 .. Len(G) : /\ M[y].kind = G[y].kind /\ M[y].decl = G[y].decl
                              /\ M[y].error = G[y].error /\ M[y].symtab = G[y].symtab
  BY <1>1, <1>6, <1>14, <1>15, <1>16
<1>18. M[n].kind = k /\ M[n].decl = d /\ (M[n].error \/ M[n].symtab = s)
  BY <1>1, <1>2, <1>6, <1>14, <1>15
<1>19. Declared(G, E, s, k, d, M, F)
  BY <1>1, <1>12, <1>13, <1>14, <1>17, <1>18 DEF Declared
<1> QED
  BY <1>8, <1>9, <1>19, Zenon

\* A declaration that is still to be merged.
LEMMA DeclaredBlock ==
  ASSUME NEW N, NEW E, NEW s, NEW k, NEW d, NEW M, NEW F, Declared(N, E, s, k, d, M, F), NEW b, BlockOK(N, b)
  PROVE  BlockOK(M, b) /\ (s = "extend" /\ k # "using" => BlockOK(M, Append(b, Len(N) + 1)))
<1>1. PICK g, n : g = Len(b) /\ n = Len(N) + 1
  OBVIOUS
<1>2. /\ Len(M) = n /\ Len(N) \in Nat /\ n \in Nat
      /\ \A y \in 1 .. Len(N) : M[y].kind = N[y].kind /\ M[y].error = N[y].error /\ M[y].symtab = N[y].symtab
      /\ M[n].kind = k /\ (M[n].error \/ M[n].symtab = s)
  BY <1>1 DEF Declared
<1>3. /\ b \in Seq(1 .. Len(N)) /\ g \in Nat /\ \A i, j \in 1 .. g : b[i] = b[j] => i = j
      /\ \A i \in 1 .. g : b[i] \in 1 .. Len(N) /\ N[b[i]].kind # "using" /\ (N[b[i]].error \/ N[b[i]].symtab = "extend")
  BY <1>1 DEF BlockOK
<1>4. \A y \in 1 .. Len(N) : y \in 1 .. n /\ y # n
  BY <1>1, <1>2
<1>5. b \in Seq(1 .. n)
  <2>1. Over(b, b) /\ \A i \in 1 .. Len(b) : b[i] \in 1 .. n
    BY <1>1, <1>3, <1>4 DEF Over
  <2> QED
    BY <1>3, <2>1, SeqIs
<1>6. BlockOK(M, b)
  BY <1>1, <1>2, <1>3, <1>5 DEF BlockOK
<1>7. ASSUME s = "extend", k # "using" PROVE BlockOK(M, Append(b, n))
  <2>1. PICK q : q = Append(b, n)
    OBVIOUS
  <2>2. n \in 1 .. n
    BY <1>1, <1>2
  <2>3. q \in Seq(1 .. n) /\ Len(q) = g + 1 /\ q[g + 1] = n /\ \A i \in 1 .. g : q[i] = b[i]
    BY <1>1, <1>5, <2>1, <2>2
  <2>4. \A i \in 1 .. g + 1 : i = g + 1 \/ i \in 1 .. g
    BY <1>3
  <2>5. \A i, j \in 1 .. g + 1 : q[i] = q[j] => i = j
    BY <1>3, <1>4, <2>3, <2>4
  <2>6. \A i \in 1 .. g + 1 : M[q[i]].kind # "using" /\ (M[q[i]].error \/ M[q[i]].symtab = "extend")
    <3>1. M[n].kind # "using" /\ (M[n].error \/ M[n].symtab = "extend")
      BY <1>2, <1>7
    <3>2. \A i \in 1 .. g : M[b[i]].kind # "using" /\ (M[b[i]].error \/ M[b[i]].symtab = "extend")
      BY <1>2, <1>3
    <3> QED
      BY <2>3, <2>4, <3>1, <3>2
  <2> QED
    BY <1>2, <2>1, <2>3, <2>5, <2>6 DEF BlockOK
<1> QED
  BY <1>1, <1>6, <1>7

\* A declaration before the merge is in a table, or marked.
LEMMA DeclaredUnmerged ==
  ASSUME NEW N, NEW E, NEW s, NEW k, NEW d, NEW M, NEW F, Declared(N, E, s, k, d, M, F),
         NEW b, BlockOK(N, b), Unmerged(N, b), NEW q,
         \/ s = "class" /\ q = b
         \/ s = "extend" /\ q = Append(b, Len(N) + 1)
  PROVE  Unmerged(M, q)
<1>1. PICK g, n : g = Len(b) /\ n = Len(N) + 1
  OBVIOUS
<1>2. /\ Len(M) = n /\ Len(N) \in Nat
      /\ \A y \in 1 .. Len(N) : M[y].error = N[y].error /\ M[y].symtab = N[y].symtab
      /\ M[n].error \/ M[n].symtab = s
      /\ M[n].error => M[n].symtab = "none"
  <2>1. Len(M) = n /\ Len(N) \in Nat /\ NodesOK(M)
    BY <1>1 DEF Declared
  <2>2. n \in 1 .. Len(M)
    BY <1>1, <2>1
  <2> QED
    BY <1>1, <2>1, <2>2 DEF Declared, NodesOK
<1>3. /\ b \in Seq(1 .. Len(N)) /\ g \in Nat
      /\ s = "extend" => Len(q) = g + 1 /\ q[g + 1] = n /\ \A i \in 1 .. g : q[i] = b[i]
      /\ s = "class" => q = b
  BY <1>1 DEF BlockOK
<1>4. \A y : InBlock(b, y) => InBlock(q, y)
  <2>1. \A i \in 1 .. g : i \in 1 .. g + 1
    BY <1>3
  <2> QED
    BY <1>1, <1>3, <2>1 DEF InBlock
<1>5. s = "extend" => InBlock(q, n)
  <2>1. g + 1 \in 1 .. g + 1
    BY <1>3
  <2> QED
    BY <1>3, <2>1 DEF InBlock
<1>6. ASSUME NEW y \in 1 .. Len(M)
      PROVE  (M[y].symtab = "none" => M[y].error) /\ (M[y].symtab = "extend" => InBlock(q, y))
  <2>1. CASE y = n
    BY <1>2, <1>5, <2>1
  <2>2. CASE y # n
    <3>1. y \in 1 .. Len(N)
      BY <1>1, <1>2, <2>2
    <3> QED
      BY <1>2, <1>4, <3>1 DEF Unmerged
  <2> QED
    BY <2>1, <2>2
<1> QED
  BY <1>6 DEF Unmerged

\* A declaration after the merge gives way.
LEMMA DeclaredTurned ==
  ASSUME NEW N, NEW E, NEW k, NEW d, NEW M, NEW F, Declared(N, E, "class", k, d, M, F),
         NEW p, NEW b, Turned(N, p, b)
  PROVE  Turned(M, p, b)
<1>1. PICK n, l : n = Len(N) + 1 /\ l = Len(p)
  OBVIOUS
<1>2. /\ Len(M) = n /\ Len(N) \in Nat /\ n \in Nat
      /\ \A y \in 1 .. Len(N) : /\ M[y].kind = N[y].kind /\ M[y].decl = N[y].decl
                                /\ M[y].error = N[y].error /\ M[y].symtab = N[y].symtab
      /\ M[n].error \/ M[n].symtab = "class"
      /\ M[n].error => M[n].symtab = "none"
  <2>1. Len(M) = n /\ Len(N) \in Nat /\ NodesOK(M)
    BY <1>1 DEF Declared
  <2>2. n \in 1 .. Len(M)
    BY <1>1, <2>1
  <2> QED
    BY <1>1, <2>1, <2>2 DEF Declared, NodesOK
<1>3. l \in Nat /\ l <= Len(N) /\ \A x \in 1 .. l : x \in 1 .. Len(N)
  BY <1>1, <1>2 DEF Turned
<1>4. \A x, y \in 1 .. Len(N) : Apart(N[x], N[y]) <=> Apart(M[x], M[y])
  BY <1>2, ApartStays
<1>5. \A x \in 1 .. Len(N) : OutIfMarked(N, x) => OutIfMarked(M, x)
  BY <1>2 DEF OutIfMarked
<1>6. \A x, y \in 1 .. l : p[x] = "extend" /\ p[y] = "extend" /\ x # y => Apart(M[x], M[y])
  BY <1>1, <1>3, <1>4 DEF Turned
<1>7. ASSUME NEW x \in 1 .. l, p[x] = "extend" PROVE Placing(M, p, b, x)
  <2>1. Placing(N, p, b, x) /\ x \in 1 .. Len(N)
    BY <1>1, <1>3, <1>7 DEF Turned
  <2>2. Kept(N, p, x) => Kept(M, p, x)
    BY <1>1, <1>2, <1>3, <2>1 DEF Kept
  <2> QED
    BY <1>2, <2>1, <2>2 DEF Placing
<1>8. ASSUME NEW x \in 1 .. l, p[x] = "class" PROVE OutIfMarked(M, x) /\ (M[x].error => Replaced(M, p, x))
  <2>1. OutIfMarked(N, x) /\ (N[x].error => Replaced(N, p, x)) /\ x \in 1 .. Len(N)
    BY <1>1, <1>3, <1>8 DEF Turned
  <2>2. Replaced(N, p, x) => Replaced(M, p, x)
    BY <1>1, <1>3, <1>4, <2>1 DEF Replaced
  <2> QED
    BY <1>2, <1>5, <2>1, <2>2
<1>9. \A x \in 1 .. l : p[x] \notin Scopes => M[x].error
  BY <1>1, <1>2, <1>3 DEF Turned
<1>10. ASSUME NEW x \in 1 .. Len(M), x > l PROVE OutIfMarked(M, x)
  <2>1. CASE x = n
    BY <1>2, <2>1 DEF OutIfMarked
  <2>2. CASE x # n
    <3>1. x \in 1 .. Len(N)
      BY <1>1, <1>2, <2>2
    <3> QED
      BY <1>1, <1>5, <1>10, <3>1 DEF Turned
  <2> QED
    BY <2>1, <2>2
<1>11. l <= Len(M)
  BY <1>1, <1>2, <1>3
<1> QED
  BY ONLY <1>1, <1>3, <1>6, <1>7, <1>8, <1>9, <1>10, <1>11 DEF Turned


-----------------------------------------------------------------------------
(***************************************************************************)
(* A turn of the loop that merges a %extend block with its class.          *)
(***************************************************************************)

\* Declaration n can be added to the class.
Ready(N, M, F, n) ==
  /\ TablesOK(M, F) /\ NodesOK(M) /\ ApartOK(M, F)
  /\ SameNodes(N, M) /\ M[n].symtab = "none"
  /\ \A y \in 1 .. Len(N) : y # n => M[y].symtab = N[y].symtab

LEMMA TakenOut ==
  ASSUME NEW N, NEW E, TablesOK(N, E), NodesOK(N), ApartOK(N, E),
         NEW n \in 1 .. Len(N), NEW s, s = "extend", N[n].symtab = s,
         NEW M, NEW F, Removed(N, E, s, n, M, F)
  PROVE  Ready(N, M, F, n)
<1>1. /\ TablesOK(M, F) /\ SameNodes(N, M) /\ M[n].symtab = "none"
      /\ \A y \in 1 .. Len(N) : y # n => M[y].symtab = N[y].symtab
      /\ \A t \in Scopes : t # s => F[t] = E[t]
  BY DEF Removed
<1>2. Len(N) \in Nat /\ s \in Scopes
  BY DEF TablesOK, Scopes
<1>3. /\ Len(M) = Len(N)
      /\ \A y \in 1 .. Len(N) : M[y].kind = N[y].kind /\ M[y].decl = N[y].decl /\ M[y].error = N[y].error
  BY <1>1 DEF SameNodes
<1>4. NodesOK(M)
  BY <1>1, <1>3 DEF NodesOK, Kinded
<1>5. ASSUME NEW c \in Scopes PROVE UsingHeads(M, F[c]) \/ AllApart(M, c)
  <2>1. UsingHeads(N, E[c]) \/ AllApart(N, c)
    BY DEF ApartOK
  <2>2. AllApart(N, c) => AllApart(M, c)
    BY <1>2, ApartRemoved
  <2>3. ASSUME UsingHeads(N, E[c]) PROVE UsingHeads(M, F[c])
    <3>1. c # s
      BY <2>3, BlockHead
    <3>2. F[c] = E[c] /\ (E[c] # NoNode => E[c] \in 1 .. Len(N))
      BY <1>1, <3>1, EntryNode
    <3> QED
      BY <1>3, <2>3, <3>2 DEF UsingHeads
  <2> QED
    BY <2>1, <2>2, <2>3
<1>6. ApartOK(M, F)
  BY <1>5 DEF ApartOK
<1> QED
  BY <1>1, <1>4, <1>6 DEF Ready

\* A declaration n that conflicts with a, in a list that begins with e.
Clashes(a, e, n) ==
  /\ "using" \notin {e.kind, n.kind}
  /\ \/ a.kind = e.kind /\ "variable" \in {e.kind, n.kind}
     \/ "variable" \notin {e.kind, n.kind} /\ SameDecl(a, n)

\* Only a variable conflicts with a declaration after one it conflicts with is taken out.
LEMMA Lost ==
  ASSUME NEW a, NEW b, NEW c, NEW e, NEW n, Kinded(a), Kinded(b), Kinded(c), Kinded(e), Kinded(n), Apart(a, b),
         Clashes(a, e, n), Clashes(b, c, n)
  PROVE  n.kind = "variable"
<1>0. /\ "using" \notin {e.kind, n.kind} /\ "using" \notin {c.kind, n.kind}
      /\ \/ a.kind = e.kind /\ "variable" \in {e.kind, n.kind}
         \/ "variable" \notin {e.kind, n.kind} /\ SameDecl(a, n)
      /\ \/ b.kind = c.kind /\ "variable" \in {c.kind, n.kind}
         \/ "variable" \notin {c.kind, n.kind} /\ SameDecl(b, n)
  BY DEF Clashes
<1>1. \A x \in Decls : x # 0
  BY DeclsAssumption
<1> SUFFICES ASSUME n.kind # "variable" PROVE FALSE
  OBVIOUS
<1>2. n.kind \in {"cdecl", "template"} /\ n.decl # 0
  BY <1>0, <1>1 DEF Kinded
<1>3. a.kind # "using"
  BY <1>0, <1>2 DEF Kinded, SameDecl
<1>4. b.kind # "using"
  BY <1>0, <1>2 DEF Kinded, SameDecl
<1>5. ~ SameDecl(a, b) /\ a.kind # "variable" /\ b.kind # "variable"
  BY <1>3, <1>4 DEF Apart
<1>6. SameDecl(a, n) /\ SameDecl(b, n)
  BY <1>0, <1>2, <1>5
<1>7. a.kind \in {"cdecl", "template"} /\ b.kind \in {"cdecl", "template"}
  BY <1>3, <1>4, <1>5 DEF Kinded
<1>8. a.kind = n.kind /\ b.kind = n.kind /\ a.decl = b.decl
  BY <1>2, <1>6, <1>7 DEF SameDecl
<1> QED
  BY <1>5, <1>8 DEF SameDecl

\* The class without the member that n conflicts with, which is marked.
MadeRoom(M, F, P, H, x) ==
  /\ TablesOK(P, H) /\ NodesOK(P) /\ ApartOK(P, H)
  /\ Len(P) = Len(M) /\ P[x].symtab = "none" /\ P[x].error
  /\ \A y \in 1 .. Len(M) : P[y].kind = M[y].kind /\ P[y].decl = M[y].decl
  /\ \A y \in 1 .. Len(M) : y # x => P[y].error = M[y].error /\ P[y].symtab = M[y].symtab

LEMMA MadeRoomIs ==
  ASSUME NEW M, NEW F, TablesOK(M, F), NodesOK(M), \A c \in Scopes : AllApart(M, c), NEW s, s = "class",
         NEW x \in 1 .. Len(M), M[x].symtab = s,
         NEW W, NEW H, Removed(M, F, s, x, W, H), NEW P, P = Mark(W, x, TRUE)
  PROVE  MadeRoom(M, F, P, H, x)
<1>1. /\ TablesOK(W, H) /\ SameNodes(M, W) /\ W[x].symtab = "none"
      /\ \A y \in 1 .. Len(M) : y # x => W[y].symtab = M[y].symtab
  BY DEF Removed
<1>2. Len(M) \in Nat /\ s \in Scopes
  BY DEF TablesOK, Scopes
<1>3. /\ Len(W) = Len(M) /\ W \in Seq(NodeType) /\ x \in 1 .. Len(W)
      /\ \A y \in 1 .. Len(M) : W[y].kind = M[y].kind /\ W[y].decl = M[y].decl /\ W[y].error = M[y].error
  BY <1>1 DEF SameNodes
<1>4. NodesOK(W)
  BY <1>1, <1>3 DEF NodesOK, Kinded
<1>5. \A c \in Scopes : AllApart(W, c)
  BY <1>2, ApartRemoved
<1>6. PICK b \in BOOLEAN : b = TRUE
  OBVIOUS
<1>7. Marks(W, P, x, b)
  BY <1>3, <1>6, MarkIs
<1>8. TablesOK(P, H)
  BY <1>1, <1>7, MarkTables
<1>9. NodesOK(P) /\ \A c : AllApart(W, c) => AllApart(P, c)
  <2>1. TablesOK(W, H) /\ NodesOK(W) /\ x \in 1 .. Len(W) /\ (b => W[x].symtab = "none") /\ Marks(W, P, x, b)
    BY <1>1, <1>3, <1>4, <1>7
  <2> QED
    BY ONLY b \in BOOLEAN, <2>1, MarkNodes
<1>10. ApartOK(P, H)
  BY <1>5, <1>9 DEF ApartOK
<1>11. /\ Len(P) = Len(W) /\ P[x].error = b
       /\ \A y \in 1 .. Len(W) : P[y].kind = W[y].kind /\ P[y].decl = W[y].decl /\ P[y].symtab = W[y].symtab
       /\ \A y \in 1 .. Len(W) : y # x => P[y].error = W[y].error
  BY <1>7 DEF Marks, SameLinks
<1> QED
  BY <1>1, <1>3, <1>6, <1>8, <1>9, <1>10, <1>11 DEF MadeRoom

\* The mark on the member that was taken out.
WithoutMarked(st, x) == [st EXCEPT !.node[x].error = TRUE]

LEMMA WithoutState ==
  ASSUME NEW st, NEW n, NEW x
  PROVE  LET R == Swig_symbol_remove(st, n)
         IN  WithoutMarked(R, x).node = Mark(R.node, x, TRUE) /\ WithoutMarked(R, x).entry = R.entry
<1>1. PICK N, E : Swig_symbol_remove(st, n) = [node |-> N, entry |-> E]
  BY RemoveUnfold
<1>2. PICK R : R = Swig_symbol_remove(st, n)
  OBVIOUS
<1>3. R.node = N /\ R.entry = E
  BY <1>1, <1>2
<1>4. PICK M : M = Mark(N, x, TRUE)
  OBVIOUS
<1>5. WithoutMarked(R, x) = [R EXCEPT !.node = M]
  BY <1>3, <1>4 DEF Mark, WithoutMarked
<1>6. WithoutMarked(R, x).node = M /\ WithoutMarked(R, x).entry = E
  BY <1>1, <1>2, <1>5
<1> QED
  BY <1>2, <1>3, <1>4, <1>6

\* A turn of the loop: the nodes before and after it, and f, the member that gives way to
\* n (n itself if there is none).  Then n is in the class, or it is a variable and a
\* member m that it conflicts with is there.
GivesWay(N, n, M, f) ==
  /\ f # n => /\ f \in 1 .. Len(N) /\ N[f].symtab = "class" /\ ~ Apart(N[f], N[n])
              /\ M[f].error /\ M[f].symtab = "none"
  /\ \A y \in 1 .. Len(N) : y # n /\ y # f => M[y].error = N[y].error /\ M[y].symtab = N[y].symtab
Stays(N, n, M, m) ==
  /\ N[n].kind = "variable" /\ M[n].symtab = "none"
  /\ m \in 1 .. Len(N) /\ m # n /\ M[m].symtab = "class" /\ ~ Apart(N[m], N[n])
Turns(N, n, M) ==
  /\ ~ N[n].error /\ ~ M[n].error
  /\ \E f : GivesWay(N, n, M, f)
  /\ M[n].symtab = "class" \/ \E m : Stays(N, n, M, m)

Merged(N, n, M, F) ==
  /\ TablesOK(M, F) /\ NodesOK(M) /\ ApartOK(M, F)
  /\ Len(M) = Len(N)
  /\ \A y \in 1 .. Len(N) : M[y].kind = N[y].kind /\ M[y].decl = N[y].decl
  /\ (N[n].error /\ M = N) \/ Turns(N, n, M)

\* The first addition of a turn: the declaration is in the class, or it conflicts.
Once(N, n, M, F, c, R) ==
  \/ R.found = n /\ Merged(N, n, R.node, R.entry)
  \/ /\ R.found # n /\ R.found # NoNode /\ R.node = M /\ R.entry = F
     /\ F[c] # NoNode /\ Compared(M, F[c], c, n, R.found)

LEMMA MergedOnce ==
  ASSUME NEW N, NEW M, NEW F, NEW n \in 1 .. Len(N), Ready(N, M, F, n), ~ N[n].error,
         NEW c, c = "class", NEW st, st.node = M, st.entry = F, NEW R, R = Swig_symbol_add(st, c, n)
  PROVE  Once(N, n, M, F, c, R)
<1>1. /\ TablesOK(M, F) /\ NodesOK(M) /\ ApartOK(M, F)
      /\ SameNodes(N, M) /\ M[n].symtab = "none"
      /\ \A y \in 1 .. Len(N) : y # n => M[y].symtab = N[y].symtab
  BY DEF Ready
<1>2. /\ Len(M) = Len(N) /\ n \in 1 .. Len(M) /\ ~ M[n].error
      /\ \A y \in 1 .. Len(N) : M[y].kind = N[y].kind /\ M[y].decl = N[y].decl /\ M[y].error = N[y].error
  BY <1>1 DEF SameNodes
<1>3. c \in Scopes /\ (c = "extend" => M[n].kind # "using")
  BY DEF Scopes
<1>4. AddIs(M, F, c, n, R) /\ TablesOK(R.node, R.entry) /\ NodesOK(R.node) /\ ApartOK(R.node, R.entry)
  BY <1>1, <1>2, <1>3, AddApart
<1>5. PICK A, E : A = R.node /\ E = R.entry
  OBVIOUS
<1>6. CASE R.found = n
  <2>1. Added(M, F, c, n, A, E)
    BY <1>4, <1>5, <1>6 DEF AddIs
  <2>2. /\ A[n].symtab = c /\ Len(A) = Len(M)
        /\ \A y \in 1 .. Len(M) : A[y].kind = M[y].kind /\ A[y].decl = M[y].decl /\ A[y].error = M[y].error
        /\ \A y \in 1 .. Len(M) : y # n => A[y].symtab = M[y].symtab
    BY <2>1 DEF Added, SameNodes
  <2>3. TablesOK(A, E) /\ NodesOK(A) /\ ApartOK(A, E)
    BY <1>4, <1>5
  <2>4. /\ Len(A) = Len(N)
        /\ \A y \in 1 .. Len(N) : A[y].kind = N[y].kind /\ A[y].decl = N[y].decl /\ A[y].error = N[y].error
        /\ \A y \in 1 .. Len(N) : y # n => A[y].symtab = N[y].symtab
    BY <1>1, <1>2, <2>2
  <2>5. GivesWay(N, n, A, n)
    BY <2>4 DEF GivesWay
  <2>6. Turns(N, n, A)
    BY <2>2, <2>4, <2>5 DEF Turns
  <2>7. Merged(N, n, A, E)
    BY <2>3, <2>4, <2>6 DEF Merged
  <2> QED
    BY <1>5, <1>6, <2>7 DEF Once
<1>7. CASE R.found # n
  BY <1>4, <1>7 DEF AddIs, Once
<1> QED
  BY <1>6, <1>7

\* It gets in when the member it conflicts with is out, or it is a variable.
LEMMA MergedTwice ==
  ASSUME NEW N, NEW M, NEW F, NEW n \in 1 .. Len(N), Ready(N, M, F, n), ~ N[n].error,
         NEW c, c = "class", NEW x, x # n, x # NoNode, F[c] # NoNode, Compared(M, F[c], c, n, x), AllApart(M, c),
         NEW P, NEW H, MadeRoom(M, F, P, H, x),
         NEW st, st.node = P, st.entry = H, NEW R, R = Swig_symbol_add(st, c, n)
  PROVE  Merged(N, n, R.node, R.entry)
<1>1. /\ TablesOK(M, F) /\ NodesOK(M)
      /\ SameNodes(N, M) /\ M[n].symtab = "none"
      /\ \A y \in 1 .. Len(N) : y # n => M[y].symtab = N[y].symtab
  BY DEF Ready
<1>2. /\ Len(M) = Len(N) /\ n \in 1 .. Len(M) /\ ~ M[n].error
      /\ \A y \in 1 .. Len(N) : M[y].kind = N[y].kind /\ M[y].decl = N[y].decl /\ M[y].error = N[y].error
  BY <1>1 DEF SameNodes
<1>3. c \in Scopes /\ (c = "extend" => P[n].kind # "using")
  BY DEF Scopes
<1>4. /\ TablesOK(P, H) /\ NodesOK(P) /\ ApartOK(P, H)
      /\ Len(P) = Len(M) /\ P[x].symtab = "none" /\ P[x].error
      /\ \A y \in 1 .. Len(M) : P[y].kind = M[y].kind /\ P[y].decl = M[y].decl
      /\ \A y \in 1 .. Len(M) : y # x => P[y].error = M[y].error /\ P[y].symtab = M[y].symtab
  BY DEF MadeRoom
<1>6. PICK e : e = F[c]
  OBVIOUS
<1>5. e \in 1 .. Len(M)
  BY <1>1, <1>3, <1>6, EntryNode
<1>7. /\ x \in 1 .. Len(M) /\ M[x].symtab = c /\ "using" \notin {M[e].kind, M[n].kind}
      /\ \/ x = e /\ "variable" \in {M[e].kind, M[n].kind}
         \/ "variable" \notin {M[e].kind, M[n].kind} /\ SameDecl(M[x], M[n])
  BY <1>6 DEF Compared
<1>8. /\ n \in 1 .. Len(P) /\ P[n].symtab = "none" /\ ~ P[n].error
      /\ P[n].kind = M[n].kind /\ P[n].decl = M[n].decl
  BY <1>1, <1>2, <1>4
<1>9. AddIs(P, H, c, n, R) /\ TablesOK(R.node, R.entry) /\ NodesOK(R.node) /\ ApartOK(R.node, R.entry)
  BY <1>3, <1>4, <1>8, AddApart
<1>10. PICK A, E : A = R.node /\ E = R.entry
  OBVIOUS
<1>11. TablesOK(A, E) /\ NodesOK(A) /\ ApartOK(A, E)
  BY <1>9, <1>10
<1>12. x \in 1 .. Len(N) /\ N[x].symtab = "class" /\ ~ Apart(N[x], N[n])
  <2>1. Kinded(M[x]) /\ Kinded(M[n])
    BY <1>1, <1>2, <1>7 DEF NodesOK
  <2>2. ~ Apart(M[x], M[n])
    BY <2>1, NotApart
  <2>3. Apart(N[x], N[n]) => Apart(M[x], M[n])
    BY <1>2, <1>7, ApartStays
  <2> QED
    BY <1>1, <1>2, <1>7, <2>2, <2>3
<1>13. ASSUME \A y \in 1 .. Len(N) : A[y].error = P[y].error,
              \A y \in 1 .. Len(N) : y # n => A[y].symtab = P[y].symtab
       PROVE  GivesWay(N, n, A, x) /\ ~ A[n].error
  <2>1. A[x].error /\ A[x].symtab = "none"
    BY <1>4, <1>12, <1>13
  <2>2. ASSUME NEW y \in 1 .. Len(N), y # n, y # x PROVE A[y].error = N[y].error /\ A[y].symtab = N[y].symtab
    BY <1>1, <1>2, <1>4, <1>13, <2>2
  <2> QED
    BY <1>8, <1>12, <1>13, <2>1, <2>2 DEF GivesWay
<1>14. CASE R.found = n
  <2>1. Added(P, H, c, n, A, E)
    BY <1>9, <1>10, <1>14 DEF AddIs
  <2>2. /\ A[n].symtab = c /\ Len(A) = Len(P)
        /\ \A y \in 1 .. Len(P) : A[y].kind = P[y].kind /\ A[y].decl = P[y].decl /\ A[y].error = P[y].error
        /\ \A y \in 1 .. Len(P) : y # n => A[y].symtab = P[y].symtab
    BY <2>1 DEF Added, SameNodes
  <2>3. Len(P) = Len(N) /\ Len(M) = Len(N)
    BY <1>2, <1>4
  <2>4. Len(A) = Len(N) /\ \A y \in 1 .. Len(N) : A[y].kind = N[y].kind /\ A[y].decl = N[y].decl
    BY <1>2, <1>4, <2>2, <2>3
  <2>5. Turns(N, n, A)
    BY <1>13, <2>2, <2>3 DEF Turns
  <2>6. Merged(N, n, A, E)
    BY <1>11, <2>4, <2>5 DEF Merged
  <2> QED
    BY <1>10, <2>6
<1>15. CASE R.found # n
  <2>1. PICK y, d : y = R.found /\ d = H[c]
    OBVIOUS
  <2>2. A = P /\ E = H /\ y # NoNode /\ d # NoNode /\ Compared(P, d, c, n, y)
    BY <1>9, <1>10, <1>15, <2>1 DEF AddIs
  <2>3. /\ y \in 1 .. Len(P) /\ P[y].symtab = c /\ "using" \notin {P[d].kind, P[n].kind}
        /\ \/ y = d /\ "variable" \in {P[d].kind, P[n].kind}
           \/ "variable" \notin {P[d].kind, P[n].kind} /\ SameDecl(P[y], P[n])
    BY <2>2 DEF Compared
  <2>4. d \in 1 .. Len(P)
    BY <1>3, <1>4, <2>1, <2>2, EntryNode
  <2>5. y # x /\ y \in 1 .. Len(M) /\ d \in 1 .. Len(M) /\ M[y].symtab = c
    BY <1>3, <1>4, <2>3, <2>4 DEF Scopes
  <2>6. Apart(M[x], M[y])
    BY <1>7, <2>5 DEF AllApart
  <2>7. PICK r, q, z, h, w : r = M[x] /\ q = M[y] /\ z = M[d] /\ h = M[e] /\ w = M[n]
    OBVIOUS
  <2>8. Kinded(r) /\ Kinded(q) /\ Kinded(z) /\ Kinded(h) /\ Kinded(w)
    BY <1>1, <1>2, <1>5, <1>6, <1>7, <2>5, <2>7 DEF NodesOK
  <2>9. P[y].kind = q.kind /\ P[y].decl = q.decl /\ P[d].kind = z.kind /\ P[n].kind = w.kind /\ P[n].decl = w.decl
    BY <1>2, <1>4, <2>5, <2>7
  <2>10. SameDecl(P[y], P[n]) => SameDecl(q, w)
    BY <2>9 DEF SameDecl
  <2>11. Clashes(q, z, w)
    BY <2>3, <2>7, <2>9, <2>10 DEF Clashes
  <2>12. Clashes(r, h, w)
    BY <1>7, <2>7 DEF Clashes
  <2>13. w.kind = "variable"
    <3>1. Apart(r, q)
      BY <2>6, <2>7
    <3> QED
      BY ONLY <2>8, <2>11, <2>12, <3>1, Lost
  <2>14. Len(A) = Len(N) /\ \A i \in 1 .. Len(N) : A[i].kind = N[i].kind /\ A[i].decl = N[i].decl
    BY <1>2, <1>4, <2>2
  <2>15. y # n
    BY <1>3, <1>8, <2>3 DEF Scopes
  <2>16. ~ Apart(N[y], N[n])
    <3>1. Kinded(P[y]) /\ Kinded(P[n])
      BY <1>4, <1>8, <2>3 DEF NodesOK
    <3>2. ~ Apart(P[y], P[n])
      BY <2>2, <3>1, NotApart
    <3>3. Apart(N[y], N[n]) => Apart(P[y], P[n])
      BY <1>2, <2>2, <2>5, <2>14, ApartStays
    <3> QED
      BY <3>2, <3>3
  <2>17. Stays(N, n, A, y)
    BY <1>2, <1>8, <2>2, <2>3, <2>5, <2>7, <2>13, <2>15, <2>16 DEF Stays
  <2>18. Turns(N, n, A)
    BY <1>13, <2>2, <2>17 DEF Turns
  <2>19. Merged(N, n, A, E)
    BY <1>11, <2>14, <2>18 DEF Merged
  <2> QED
    BY <1>10, <2>19
<1> QED
  BY <1>14, <1>15

\* The turn of the loop as the code does it.
LEMMA MergeOK ==
  ASSUME TablesOK(node, entry), NodesOK(node), ApartOK(node, entry),
         NEW n \in 1 .. Len(node), node[n].error \/ node[n].symtab = "extend", Merge(n)
  PROVE  Merged(node, n, node', entry')
<1>1. PICK N, E : N = node /\ E = entry
  OBVIOUS
<1>2. PICK X, Y : X = node' /\ Y = entry'
  OBVIOUS
<1>3. PICK st, c, x : st = [node |-> N, entry |-> E] /\ c = "class" /\ x = "extend"
  OBVIOUS
<1>4. PICK O : O = Swig_symbol_remove(st, n)
  OBVIOUS
<1>5. PICK A : A = Swig_symbol_add(O, c, n)
  OBVIOUS
<1>6. PICK f : f = A.found
  OBVIOUS
<1>7. PICK W : W = Swig_symbol_remove(A, f)
  OBVIOUS
<1>8. PICK Q : Q = WithoutMarked(W, f)
  OBVIOUS
<1>9. PICK B : B = Swig_symbol_add(Q, c, n)
  OBVIOUS
<1>11. \/ N[n].error /\ X = N /\ Y = E
       \/ ~ N[n].error /\ f = n /\ X = A.node /\ Y = A.entry
       \/ ~ N[n].error /\ f # n /\ X = B.node /\ Y = B.entry
  BY <1>1, <1>2, <1>3, <1>4, <1>5, <1>6, <1>7, <1>8, <1>9, Zenon DEF Merge, Tables, WithoutMarked
<1>12. /\ TablesOK(N, E) /\ NodesOK(N) /\ ApartOK(N, E) /\ n \in 1 .. Len(N)
       /\ N[n].error \/ N[n].symtab = x
  BY <1>1, <1>3
<1>13. x \in Scopes /\ c \in Scopes /\ st.node = N /\ st.entry = E
  BY <1>3 DEF Scopes
<1>14. CASE N[n].error /\ X = N /\ Y = E
  <2>1. Merged(N, n, N, E)
    BY <1>12, <1>14 DEF Merged
  <2> QED
    BY <1>1, <1>2, <1>14, <2>1
<1>15. CASE ~ N[n].error
  <2>1. PICK M, F : M = O.node /\ F = O.entry
    OBVIOUS
  <2>2. N[n].symtab = x
    BY <1>12, <1>15
  <2>3. Removed(N, E, x, n, M, F)
    BY ONLY <1>4, <1>12, <1>13, <2>1, <2>2, RemoveOK
  <2>4. Ready(N, M, F, n)
    BY ONLY <1>3, <1>12, <2>2, <2>3, TakenOut
  <2>6. \/ A.found = n /\ Merged(N, n, A.node, A.entry)
        \/ /\ A.found # n /\ A.found # NoNode /\ A.node = M /\ A.entry = F
           /\ F[c] # NoNode /\ Compared(M, F[c], c, n, A.found)
    <3>1. Once(N, n, M, F, c, A)
      BY ONLY <1>3, <1>5, <1>12, <1>15, <2>1, <2>4, MergedOnce
    <3> QED
      BY ONLY <3>1 DEF Once
  <2>7. CASE f = n
    <3>1. X = A.node /\ Y = A.entry
      BY <1>11, <1>15, <2>7
    <3> QED
      BY <1>1, <1>2, <1>6, <2>6, <2>7, <3>1
  <2>8. CASE f # n
    <3>1. X = B.node /\ Y = B.entry
      BY <1>11, <1>15, <2>8
    <3>2. f # NoNode /\ A.node = M /\ A.entry = F /\ F[c] # NoNode /\ Compared(M, F[c], c, n, f)
      BY <1>6, <2>6, <2>8
    <3>3. f \in 1 .. Len(M) /\ M[f].symtab = c
      BY <3>2 DEF Compared
    <3>4. TablesOK(M, F) /\ NodesOK(M) /\ ApartOK(M, F)
      BY <2>4 DEF Ready
    <3>5. ASSUME NEW s \in Scopes PROVE AllApart(M, s)
      <4>1. s = c \/ s = "extend"
        BY <1>3 DEF Scopes
      <4>2. ~ UsingHeads(M, F[c]) /\ ~ UsingHeads(M, F["extend"])
        BY <3>2, <3>4, BlockHead DEF UsingHeads, Compared
      <4> QED
        BY <3>4, <4>1, <4>2 DEF ApartOK
    <3>6. PICK V, H : V = W.node /\ H = W.entry
      OBVIOUS
    <3>7. Removed(M, F, c, f, V, H)
      BY ONLY <1>7, <1>13, <3>2, <3>3, <3>4, <3>6, RemoveOK
    <3>8. PICK P : P = Mark(V, f, TRUE)
      OBVIOUS
    <3>9. MadeRoom(M, F, P, H, f)
      BY ONLY <1>3, <3>3, <3>4, <3>5, <3>7, <3>8, MadeRoomIs
    <3>10. Q.node = P /\ Q.entry = H
      BY ONLY <1>7, <1>8, <3>6, <3>8, WithoutState
    <3>11. AllApart(M, c)
      BY <1>13, <3>5
    <3>12. Merged(N, n, B.node, B.entry)
      BY ONLY <1>3, <1>9, <1>12, <1>15, <2>4, <2>8, <3>2, <3>9, <3>10, <3>11, MergedTwice
    <3> QED
      BY <1>1, <1>2, <3>1, <3>12
  <2> QED
    BY <2>7, <2>8
<1> QED
  BY <1>11, <1>14, <1>15

\* The declaration leaves the block.
Leaves(b, n, q) == \A x : InBlock(b, x) /\ x # n => InBlock(q, x)

LEMMA MergedBlock ==
  ASSUME NEW N, NEW M, NEW F, NEW b, BlockOK(N, b), b # <<>>, NEW n, n = Head(b),
         Merged(N, n, M, F), NEW q, q = Tail(b)
  PROVE  BlockOK(M, q) /\ n \in 1 .. Len(N) /\ Leaves(b, n, q)
<1>1. PICK g, m : g = Len(b) /\ m = Len(N)
  OBVIOUS
<1>2. /\ b \in Seq(1 .. m) /\ g \in Nat /\ \A i, j \in 1 .. g : b[i] = b[j] => i = j
      /\ \A i \in 1 .. g : b[i] \in 1 .. m /\ N[b[i]].kind # "using" /\ (N[b[i]].error \/ N[b[i]].symtab = "extend")
  BY ONLY <1>1, BlockOK(N, b) DEF BlockOK
<1>3. /\ Len(M) = m
      /\ \A y \in 1 .. m : M[y].kind = N[y].kind
  BY <1>1 DEF Merged
<1>0. ASSUME NEW y \in 1 .. m, y # n, N[y].error \/ N[y].symtab = "extend"
      PROVE  M[y].error \/ M[y].symtab = "extend"
  <2>1. CASE M = N
    BY <1>0, <2>1
  <2>2. CASE Turns(N, n, M)
    <3>1. PICK f : GivesWay(N, n, M, f)
      BY <2>2 DEF Turns
    <3> QED
      BY <1>0, <1>1, <3>1 DEF GivesWay
  <2> QED
    BY <2>1, <2>2 DEF Merged
<1>4. g # 0 /\ n = b[1]
  BY <1>1, <1>2
<1>5. PICK h \in Nat : h = g - 1
  BY <1>2, <1>4
<1>6. q \in Seq(1 .. m) /\ Len(q) = h /\ \A i \in 1 .. h : q[i] = b[i + 1]
  BY <1>1, <1>2, <1>4, <1>5
<1>7. \A i \in 1 .. h : i + 1 \in 1 .. g /\ i + 1 # 1
  BY <1>2, <1>4, <1>5
<1>8. 1 \in 1 .. g
  BY <1>2, <1>4
<1>9. \A i \in 1 .. h : q[i] \in 1 .. m /\ q[i] # n /\ N[q[i]].kind # "using" /\ (N[q[i]].error \/ N[q[i]].symtab = "extend")
  BY <1>2, <1>4, <1>6, <1>7, <1>8
<1>10. \A i \in 1 .. h : M[q[i]].kind # "using" /\ (M[q[i]].error \/ M[q[i]].symtab = "extend")
  BY <1>0, <1>3, <1>9
<1>11. \A i, j \in 1 .. h : q[i] = q[j] => i = j
  <2>1. ASSUME NEW i \in 1 .. h, NEW j \in 1 .. h, q[i] = q[j] PROVE i = j
    <3>1. i + 1 = j + 1
      BY <1>2, <1>6, <1>7, <2>1
    <3> QED
      BY <3>1
  <2> QED
    BY <2>1
<1>12. ASSUME NEW x, InBlock(b, x), x # n PROVE InBlock(q, x)
  <2>1. PICK i \in 1 .. g : b[i] = x
    BY <1>1, <1>12 DEF InBlock
  <2>2. i # 1
    BY <1>4, <1>12, <2>1
  <2>3. PICK j \in 1 .. h : j = i - 1
    BY <1>2, <1>5, <2>2
  <2>4. q[j] = x
    BY <1>6, <2>1, <2>3
  <2> QED
    BY <1>6, <2>4 DEF InBlock
<1> QED
  BY <1>1, <1>2, <1>3, <1>4, <1>6, <1>8, <1>10, <1>11, <1>12 DEF BlockOK, Leaves

\* What the merge has done so far, after one more turn.
LEMMA MergedTurned ==
  ASSUME NEW N, NodesOK(N), NEW b, BlockOK(N, b), b # <<>>, NEW p, Turned(N, p, b), Len(p) = Len(N),
         NEW n, n = Head(b), NEW M, NEW F, Merged(N, n, M, F), NEW q, q = Tail(b)
  PROVE  Turned(M, p, q)
<1>1. PICK m : m = Len(N)
  OBVIOUS
<1>2. /\ m \in Nat /\ Len(p) = m /\ Len(M) = m
      /\ \A x, y \in 1 .. m : p[x] = "extend" /\ p[y] = "extend" /\ x # y => Apart(N[x], N[y])
      /\ \A x \in 1 .. m : p[x] = "extend" => Placing(N, p, b, x)
      /\ \A x \in 1 .. m : p[x] = "class" => OutIfMarked(N, x) /\ (N[x].error => Replaced(N, p, x))
      /\ \A x \in 1 .. m : p[x] \notin Scopes => N[x].error
  BY <1>1 DEF Turned, Merged
<1>3. n \in 1 .. m /\ (\A x : InBlock(b, x) /\ x # n => InBlock(q, x)) /\ (N[n].error \/ N[n].symtab = "extend")
  <2>1. n \in 1 .. m /\ \A x : InBlock(b, x) /\ x # n => InBlock(q, x)
    <3>1. BlockOK(M, q) /\ n \in 1 .. Len(N) /\ Leaves(b, n, q)
      BY ONLY BlockOK(N, b), b # <<>>, n = Head(b), Merged(N, n, M, F), q = Tail(b), MergedBlock
    <3> QED
      BY ONLY <1>1, <3>1 DEF Leaves
  <2>2. b \in Seq(1 .. m) /\ \A i \in 1 .. Len(b) : N[b[i]].error \/ N[b[i]].symtab = "extend"
    BY <1>1 DEF BlockOK
  <2>3. 1 \in 1 .. Len(b) /\ n = b[1]
    BY <2>2
  <2> QED
    BY <2>1, <2>2, <2>3
<1>4. \A y \in 1 .. m : M[y].kind = N[y].kind /\ M[y].decl = N[y].decl
  BY <1>1 DEF Merged
<1>5. \A x, y \in 1 .. m : Apart(N[x], N[y]) <=> Apart(M[x], M[y])
  BY <1>4, ApartStays
<1>6. \A x, y \in 1 .. m : p[x] = "extend" /\ p[y] = "extend" /\ x # y => Apart(M[x], M[y])
  BY <1>2, <1>5
<1>7. \A x \in 1 .. m : ~ x > m
  BY <1>2
<1>8. \A x \in 1 .. m : N[x].error => N[x].symtab = "none"
  BY <1>1 DEF NodesOK
<1>9. ASSUME NEW x \in 1 .. m, Replaced(N, p, x) PROVE Replaced(M, p, x)
  BY <1>2, <1>5, <1>9 DEF Replaced
<1>10. CASE N[n].error /\ M = N
  <2>1. ASSUME NEW x \in 1 .. m, p[x] = "extend" PROVE Placing(M, p, q, x)
    <3>1. Placing(N, p, b, x)
      BY <1>2, <2>1
    <3>2. x # n
      BY <1>10, <3>1 DEF Placing
    <3> QED
      BY <1>3, <1>10, <3>1, <3>2 DEF Placing
  <2> QED
    BY ONLY <1>2, <1>6, <1>7, <1>10, <2>1 DEF Turned
<1>11. CASE Turns(N, n, M)
  <2>1. ~ N[n].error /\ ~ M[n].error /\ N[n].symtab = "extend"
    BY <1>3, <1>11 DEF Turns
  <2>2. PICK f : GivesWay(N, n, M, f)
    BY <1>11 DEF Turns
  <2>3. /\ f # n => /\ f \in 1 .. m /\ N[f].symtab = "class" /\ ~ Apart(N[f], N[n])
                    /\ M[f].error /\ M[f].symtab = "none"
        /\ \A y \in 1 .. m : y # n /\ y # f => M[y].error = N[y].error /\ M[y].symtab = N[y].symtab
    BY <1>1, <2>2 DEF GivesWay
  <2>4. p[n] = "extend"
    <3>1. p[n] = "class" => N[n].symtab = "class"
      BY <1>2, <1>3, <2>1 DEF OutIfMarked
    <3>2. p[n] \in Scopes
      BY <1>2, <1>3, <2>1
    <3> QED
      BY <2>1, <3>1, <3>2 DEF Scopes
  <2>5. f # n => p[f] = "class"
    <3>1. ASSUME f # n PROVE p[f] # "extend" /\ p[f] \in Scopes
      BY <1>2, <1>3, <1>8, <2>3, <2>4, <3>1
    <3> QED
      BY <3>1 DEF Scopes
  <2>6. N[n].kind # "using"
    BY <1>2, <1>3, <2>4 DEF Placing
  <2>7. ASSUME NEW x \in 1 .. m, p[x] = "extend", x # n PROVE Placing(M, p, q, x)
    <3>1. x # f /\ M[x].error = N[x].error /\ M[x].symtab = N[x].symtab
      BY <2>3, <2>5, <2>7
    <3>2. Placing(N, p, b, x) /\ Apart(N[x], N[n])
      BY <1>2, <1>3, <2>4, <2>7
    <3>3. ~ Kept(N, p, x)
      BY <2>6, <3>2 DEF Kept, Placing, Apart
    <3> QED
      BY <1>3, <1>4, <2>7, <3>1, <3>2, <3>3 DEF Placing
  <2>8. Placing(M, p, q, n)
    <3>1. CASE M[n].symtab = "class"
      BY <1>3, <1>4, <2>1, <2>6, <3>1 DEF Placing
    <3>2. ASSUME NEW w, Stays(N, n, M, w) PROVE Placing(M, p, q, n)
      <4>1. /\ N[n].kind = "variable" /\ M[n].symtab = "none"
            /\ w \in 1 .. m /\ w # n /\ M[w].symtab = "class" /\ ~ Apart(N[w], N[n])
        BY <1>1, <3>2 DEF Stays
      <4>2. p[w] # "extend"
        BY <1>2, <1>3, <2>4, <4>1
      <4>3. w # f /\ N[w].symtab = "class"
        BY <2>3, <4>1
      <4>4. p[w] \in Scopes
        BY <1>2, <1>8, <4>1, <4>3
      <4>5. p[w] = "class"
        BY <4>2, <4>4 DEF Scopes
      <4>6. Kept(M, p, n)
        BY <1>2, <1>3, <1>4, <4>1, <4>5 DEF Kept
      <4> QED
        BY <1>3, <1>4, <2>1, <2>6, <4>6 DEF Placing
    <3> QED
      BY <1>11, <3>1, <3>2 DEF Turns
  <2>9. ASSUME NEW x \in 1 .. m, p[x] = "class" PROVE OutIfMarked(M, x) /\ (M[x].error => Replaced(M, p, x))
    <3>1. x # n
      BY <2>4, <2>9
    <3>2. CASE x = f
      <4>1. ~ Apart(M[x], M[n])
        BY <1>3, <1>5, <2>3, <3>1, <3>2
      <4>2. Replaced(M, p, x)
        BY <1>2, <1>3, <2>4, <4>1 DEF Replaced
      <4> QED
        BY <2>3, <3>1, <3>2, <4>2 DEF OutIfMarked
    <3>3. CASE x # f
      <4>1. M[x].error = N[x].error /\ M[x].symtab = N[x].symtab
        BY <2>3, <3>1, <3>3
      <4> QED
        BY <1>2, <1>9, <2>9, <4>1 DEF OutIfMarked
    <3> QED
      BY <3>2, <3>3
  <2>10. ASSUME NEW x \in 1 .. m, p[x] \notin Scopes PROVE M[x].error
    <3>1. x # n /\ x # f
      BY <2>4, <2>5, <2>10 DEF Scopes
    <3> QED
      BY <1>2, <2>3, <2>10, <3>1
  <2>11. \A x \in 1 .. m : p[x] = "extend" => Placing(M, p, q, x)
    BY <2>7, <2>8
  <2> QED
    BY ONLY <1>2, <1>6, <1>7, <2>9, <2>10, <2>11 DEF Turned
<1> QED
  BY <1>10, <1>11 DEF Merged

-----------------------------------------------------------------------------
(***************************************************************************)
(* The invariant holds.                                                    *)
(***************************************************************************)

\* What may be declared, in a class or a %extend block.
LEMMA DeclarationsAre ==
  ASSUME NEW k, NEW d, <<k, d>> \in Declarations \cup {<<"using", 0>>}
  PROVE  /\ k \in Kinds /\ d \in Nat
         /\ \/ k \in {"cdecl", "template"} /\ d \in Decls
            \/ k \in {"using", "variable"} /\ d = 0
         /\ <<k, d>> \in Declarations => k # "using"
<1>1. CASE <<k, d>> \in {"cdecl", "template"} \X Decls
  <2>1. k \in {"cdecl", "template"} /\ d \in Decls
    BY <1>1
  <2> QED
    BY <2>1, DeclsAssumption DEF Kinds
<1>2. CASE <<k, d>> = <<"variable", 0>>
  <2>1. k = "variable" /\ d = 0
    BY <1>2
  <2> QED
    BY <2>1 DEF Kinds
<1>3. CASE <<k, d>> = <<"using", 0>>
  <2>1. k = "using" /\ d = 0
    BY <1>3
  <2>2. ~ (k \in {"cdecl", "template"} /\ d \in Decls) /\ k # "variable"
    BY <2>1
  <2>3. <<k, d>> \notin {"cdecl", "template"} \X Decls /\ <<k, d>> # <<"variable", 0>>
    BY <2>2
  <2>4. <<k, d>> \notin Declarations
    BY <2>3, Zenon DEF Declarations
  <2> QED
    BY <2>1, <2>4 DEF Kinds
<1>4. <<k, d>> \in {"cdecl", "template"} \X Decls \/ <<k, d>> = <<"variable", 0>> \/ <<k, d>> = <<"using", 0>>
  BY Zenon DEF Declarations
<1> QED
  BY <1>1, <1>2, <1>3, <1>4

LEMMA DeclareStep ==
  ASSUME TablesOK(node, entry), NodesOK(node), ApartOK(node, entry), NEW s \in Scopes,
         NEW k, NEW d, <<k, d>> \in Declarations \cup {<<"using", 0>>}, s = "extend" => <<k, d>> \in Declarations,
         Declare(s, k, d)
  PROVE  Declared(node, entry, s, k, d, node', entry')
<1>1. PICK G, E : G = node /\ E = entry
  OBVIOUS
<1>2. PICK X, Y : X = node' /\ Y = entry'
  OBVIOUS
<1>3. PICK r : r = NewNode(k, d)
  OBVIOUS
<1>4. PICK N, n : N = Append(G, r) /\ n = Len(G) + 1
  OBVIOUS
<1>5. PICK st : st = [node |-> N, entry |-> E]
  OBVIOUS
<1>6. PICK R : R = Swig_symbol_add(st, s, n)
  OBVIOUS
<1>7. PICK b \in BOOLEAN : b = (R.found # n)
  OBVIOUS
<1>8. X = Marked(R, n, b).node /\ Y = Marked(R, n, b).entry
  BY <1>1, <1>2, <1>3, <1>4, <1>5, <1>6, <1>7, Zenon DEF Declare, Tables, Marked
<1>9. TablesOK(G, E) /\ NodesOK(G) /\ ApartOK(G, E)
  BY <1>1
<1>10. /\ k \in Kinds /\ d \in Nat /\ (s = "extend" => k # "using")
       /\ \/ k \in {"cdecl", "template"} /\ d \in Decls
          \/ k \in {"using", "variable"} /\ d = 0
  BY ONLY DeclarationsAre, <<k, d>> \in Declarations \cup {<<"using", 0>>}, s = "extend" => <<k, d>> \in Declarations
<1>11. Born(r, k, d)
  BY ONLY <1>3, <1>10, NewNodeIs
<1>12. Kinded(r)
  BY ONLY <1>10, <1>11 DEF Born, Kinded
<1>13. Longer(G, E, N, r)
  BY ONLY <1>4, <1>9, <1>11, BornTables
<1>14. NewLast(G, E, s, k, d, N, n)
  BY ONLY <1>4, <1>9, <1>10, <1>11, <1>12, <1>13, NewLastIs
<1>15. st.node = N /\ st.entry = E
  BY ONLY <1>5
<1>17. b <=> R.found # n
  BY ONLY <1>7
<1>18. Declared(G, E, s, k, d, Marked(R, n, b).node, Marked(R, n, b).entry)
  BY ONLY <1>6, <1>7, <1>14, <1>15, <1>17, s \in Scopes, DeclareOK
<1> QED
  BY <1>1, <1>2, <1>8, <1>18

\* The invariant, in the phases it is about.
Holds ==
  /\ TablesOK(node, entry) /\ NodesOK(node) /\ ApartOK(node, entry)
  /\ BlockOK(node, block) /\ PhaseOK(node, before, block, phase)

\* A declaration: before the merge, or after it.
LEMMA DeclaredHolds ==
  ASSUME Holds, NEW s \in Scopes, NEW k, NEW d, Declared(node, entry, s, k, d, node', entry'),
         before' = before, phase' = phase,
         \/ phase = "extend" /\ s = "extend" /\ k # "using" /\ block' = Append(block, Len(node) + 1)
         \/ phase = "class" /\ s = "class" /\ block' = block
         \/ phase = "later" /\ s = "class" /\ block' = block
  PROVE  Holds'
<1>1. PICK N, E, b, p : N = node /\ E = entry /\ b = block /\ p = before
  OBVIOUS
<1>2. PICK M, F, c, ph : M = node' /\ F = entry' /\ c = block' /\ ph = phase
  OBVIOUS
<1>3. Declared(N, E, s, k, d, M, F) /\ BlockOK(N, b) /\ PhaseOK(N, p, b, ph)
  BY <1>1, <1>2 DEF Holds
<1>4. \/ ph = "extend" /\ s = "extend" /\ k # "using" /\ c = Append(b, Len(N) + 1)
      \/ ph = "class" /\ s = "class" /\ c = b
      \/ ph = "later" /\ s = "class" /\ c = b
  BY <1>1, <1>2
<1>5. TablesOK(M, F) /\ NodesOK(M) /\ ApartOK(M, F)
  BY <1>3 DEF Declared
<1>6. BlockOK(M, b) /\ (s = "extend" /\ k # "using" => BlockOK(M, Append(b, Len(N) + 1)))
  BY ONLY <1>3, DeclaredBlock
<1>7. BlockOK(M, c)
  BY ONLY <1>4, <1>6
<1>8. ASSUME ph \in {"extend", "class"} PROVE PhaseOK(M, p, c, ph)
  <2>1. p = <<>> /\ Unmerged(N, b)
    BY <1>3, <1>8 DEF PhaseOK
  <2>2. (s = "class" /\ c = b) \/ (s = "extend" /\ c = Append(b, Len(N) + 1))
    BY <1>4, <1>8
  <2>3. Unmerged(M, c)
    BY ONLY <1>3, <2>1, <2>2, DeclaredUnmerged
  <2> QED
    BY <1>8, <2>1, <2>3 DEF PhaseOK
<1>9. ASSUME ph = "later" PROVE PhaseOK(M, p, c, ph)
  <2>1. Turned(N, p, b) /\ b = <<>> /\ s = "class" /\ c = b
    BY <1>3, <1>4, <1>9 DEF PhaseOK
  <2>2. Turned(M, p, b)
    BY ONLY <1>3, <2>1, DeclaredTurned
  <2> QED
    BY <1>9, <2>1, <2>2 DEF PhaseOK
<1>10. PhaseOK(M, p, c, ph)
  BY <1>4, <1>8, <1>9
<1>11. TablesOK(node', entry') /\ NodesOK(node') /\ ApartOK(node', entry') /\ BlockOK(node', block')
       /\ PhaseOK(node', before', block', phase')
  BY <1>1, <1>2, <1>5, <1>7, <1>10
<1> QED
  BY <1>11 DEF Holds

LEMMA MergedHolds ==
  ASSUME Holds, MergeNext
  PROVE  Holds'
<1>1. PICK N, E, b, p : N = node /\ E = entry /\ b = block /\ p = before
  OBVIOUS
<1>2. PICK M, F, c : M = node' /\ F = entry' /\ c = block'
  OBVIOUS
<1>3. PICK n : n = Head(b)
  OBVIOUS
<1>4. b # <<>> /\ Merge(n) /\ c = Tail(b) /\ phase = "merge" /\ phase' = "merge" /\ before' = p
  BY <1>1, <1>2, <1>3 DEF MergeNext
<1>5. TablesOK(N, E) /\ NodesOK(N) /\ ApartOK(N, E) /\ BlockOK(N, b) /\ PhaseOK(N, p, b, "merge")
  BY <1>1, <1>4 DEF Holds
<1>6. n \in 1 .. Len(N) /\ (N[n].error \/ N[n].symtab = "extend")
  <2>1. /\ b \in Seq(1 .. Len(N))
        /\ \A i \in 1 .. Len(b) : N[b[i]].error \/ N[b[i]].symtab = "extend"
    BY <1>5 DEF BlockOK
  <2>2. 1 \in 1 .. Len(b) /\ n = b[1]
    BY <1>3, <1>4, <2>1
  <2> QED
    BY <2>1, <2>2
<1>7. Merged(node, n, node', entry')
  BY <1>1, <1>4, <1>5, <1>6, MergeOK
<1>8. Merged(N, n, M, F)
  BY <1>1, <1>2, <1>7
<1>9. TablesOK(M, F) /\ NodesOK(M) /\ ApartOK(M, F) /\ Len(M) = Len(N)
  BY <1>8 DEF Merged
<1>10. BlockOK(M, c)
  BY ONLY <1>3, <1>4, <1>5, <1>8, MergedBlock
<1>11. Turned(N, p, b) /\ Len(p) = Len(N)
  BY <1>5 DEF PhaseOK
<1>12. Turned(M, p, c)
  BY ONLY <1>3, <1>4, <1>5, <1>8, <1>11, MergedTurned
<1>13. PhaseOK(M, p, c, "merge")
  BY <1>9, <1>11, <1>12 DEF PhaseOK
<1>14. TablesOK(node', entry') /\ NodesOK(node') /\ ApartOK(node', entry') /\ BlockOK(node', block')
       /\ PhaseOK(node', before', block', phase')
  BY <1>1, <1>2, <1>4, <1>9, <1>10, <1>13
<1> QED
  BY <1>14 DEF Holds

\* The merge begins: the tables are as before it.
LEMMA EndClassHolds ==
  ASSUME Holds, EndClass
  PROVE  Holds'
<1>1. PICK N, E, b : N = node /\ E = entry /\ b = block
  OBVIOUS
<1>2. PICK p : p = [n \in 1 .. Len(N) |-> N[n].symtab]
  OBVIOUS
<1>3. /\ node' = N /\ entry' = E /\ block' = b /\ before' = p
      /\ phase = "class" /\ phase' = "merge"
  BY <1>1, <1>2 DEF EndClass
<1>4. TablesOK(N, E) /\ NodesOK(N) /\ ApartOK(N, E) /\ BlockOK(N, b) /\ Unmerged(N, b)
  BY <1>1, <1>3 DEF Holds, PhaseOK
<1>5. Len(N) \in Nat /\ Len(p) = Len(N) /\ \A x \in 1 .. Len(N) : p[x] = N[x].symtab
  BY <1>2, <1>4 DEF TablesOK
<1>6. \A x, y \in 1 .. Len(N) : p[x] = "extend" /\ p[y] = "extend" /\ x # y => Apart(N[x], N[y])
  <2>1. AllApart(N, "extend")
    BY <1>4, BlockHead DEF ApartOK, Scopes
  <2> QED
    BY <1>5, <2>1 DEF AllApart
<1>7. ASSUME NEW x \in 1 .. Len(N), p[x] = "extend" PROVE Placing(N, p, b, x)
  <2>1. N[x].symtab = "extend"
    BY <1>5, <1>7
  <2>2. InBlock(b, x)
    BY <1>4, <2>1 DEF Unmerged
  <2>3. ~ N[x].error /\ N[x].kind # "using"
    BY <1>4, <2>1 DEF NodesOK
  <2> QED
    BY <2>1, <2>2, <2>3 DEF Placing
<1>8. ASSUME NEW x \in 1 .. Len(N), p[x] = "class" PROVE OutIfMarked(N, x) /\ ~ N[x].error
  BY <1>4, <1>5, <1>8 DEF NodesOK, OutIfMarked
<1>9. ASSUME NEW x \in 1 .. Len(N), p[x] \notin Scopes PROVE N[x].error
  <2>1. N[x].symtab \in Scopes \cup {"none"}
    <3>1. N \in Seq(NodeType)
      BY <1>4 DEF TablesOK
    <3>2. N[x] \in NodeType
      BY ONLY <3>1, x \in 1 .. Len(N)
    <3> QED
      BY ONLY <3>2 DEF NodeType
  <2> QED
    BY <1>4, <1>5, <1>9, <2>1 DEF Unmerged
<1>10. \A x \in 1 .. Len(N) : ~ x > Len(N)
  BY <1>5
<1>11. Turned(N, p, b)
  BY ONLY <1>5, <1>6, <1>7, <1>8, <1>9, <1>10 DEF Turned
<1>12. PhaseOK(N, p, b, "merge")
  BY <1>5, <1>11 DEF PhaseOK
<1>13. TablesOK(node', entry') /\ NodesOK(node') /\ ApartOK(node', entry') /\ BlockOK(node', block')
       /\ PhaseOK(node', before', block', phase')
  BY <1>3, <1>4, <1>12
<1> QED
  BY <1>13 DEF Holds

LEMMA StartHolds ==
  ASSUME SymInit
  PROVE  Holds
<1>1. PICK N, E, b, p : N = node /\ E = entry /\ b = block /\ p = before
  OBVIOUS
<1>2. N = <<>> /\ E = [s \in Scopes |-> NoNode] /\ b = <<>> /\ p = <<>> /\ phase = "extend"
  BY <1>1 DEF SymInit
<1>3. N \in Seq(NodeType) /\ Len(N) = 0 /\ b \in Seq(1 .. 0) /\ Len(b) = 0
  BY <1>2
<1>4. \A y \in 1 .. 0 : FALSE
  OBVIOUS
<1>5. TablesOK(N, E)
  <2>1. ASSUME NEW s \in Scopes PROVE ListOK(N, E[s], s, b)
    <3>1. E[s] = NoNode
      BY <1>2
    <3>2. Follows(N, E[s], "nextSibling", b)
      BY <1>3, <1>4, <3>1 DEF Follows
    <3> QED
      BY <1>3, <1>4, <3>2 DEF ListOK
  <2>2. E \in [Scopes -> Nat]
    BY <1>2 DEF NoNode
  <2>3. Loose(N)
    BY <1>3, <1>4 DEF Loose
  <2> QED
    BY <1>3, <2>1, <2>2, <2>3 DEF TablesOK
<1>6. NodesOK(N) /\ ApartOK(N, E)
  BY <1>3, <1>4 DEF NodesOK, AllApart, ApartOK
<1>7. BlockOK(N, b)
  BY <1>3, <1>4 DEF BlockOK
<1>8. PhaseOK(N, p, b, "extend")
  BY <1>2, <1>3, <1>4 DEF PhaseOK, Unmerged
<1> QED
  BY <1>1, <1>2, <1>5, <1>6, <1>7, <1>8 DEF Holds

\* While the parser builds the tables, every step of Swig_symbol_add, Swig_symbol_remove
\* and Swig_extend_merge leaves each list whole and tied to its table, the declarations
\* of a table apart, every declaration still to merge in the table of %extend, and every
\* member that was replaced marked and in conflict with a declaration of the block.
THEOREM SymInvariant == SymSpec => []SymInv
<1>0. SymInv <=> (Parsing => Holds)
  BY DEF SymInv, Holds
<1>1. SymInit => SymInv
  BY StartHolds, <1>0
<1>2. ASSUME SymInv, [SymNext]_symvars PROVE SymInv'
  <2>1. CASE UNCHANGED symvars
    BY <1>2, <2>1 DEF symvars, SymInv, Parsing
  <2> SUFFICES ASSUME SymNext, Parsing' PROVE Holds'
    BY <1>2, <2>1 DEF SymInv, Holds
  <2>2. ASSUME NEW k, NEW d, AddExtend(k, d) PROVE Holds'
    <3>1. Holds /\ "extend" \in Scopes
      BY <1>2, <2>2 DEF AddExtend, Parsing, SymInv, Holds, Scopes
    <3>2. /\ <<k, d>> \in Declarations /\ Declare("extend", k, d) /\ phase = "extend"
          /\ block' = Append(block, Len(node) + 1) /\ before' = before /\ phase' = phase
      BY <2>2 DEF AddExtend
    <3>3. k # "using"
      BY <3>2, DeclarationsAre
    <3>4. PICK s \in Scopes : s = "extend"
      BY <3>1
    <3>5. Declared(node, entry, s, k, d, node', entry')
      BY <3>1, <3>2, <3>4, DeclareStep DEF Holds
    <3> QED
      BY <3>1, <3>2, <3>3, <3>4, <3>5, DeclaredHolds
  <2>3. ASSUME NEW k, NEW d, AddMember(k, d) \/ AddLater(k, d) PROVE Holds'
    <3>1. Holds /\ "class" \in Scopes
      BY <1>2, <2>3 DEF AddMember, AddLater, Parsing, SymInv, Holds, Scopes
    <3>2. /\ <<k, d>> \in Declarations \cup {<<"using", 0>>} /\ Declare("class", k, d)
          /\ phase \in {"class", "later"} /\ block' = block /\ before' = before /\ phase' = phase
      BY <2>3 DEF AddMember, AddLater
    <3>3. PICK s \in Scopes : s = "class"
      BY <3>1
    <3>4. Declared(node, entry, s, k, d, node', entry')
      BY <3>1, <3>2, <3>3, DeclareStep DEF Holds
    <3> QED
      BY <3>1, <3>2, <3>3, <3>4, DeclaredHolds
  <2>4. CASE MergeNext
    <3>1. Holds
      BY <1>2, <2>4 DEF MergeNext, Parsing, SymInv, Holds
    <3> QED
      BY <2>4, <3>1, MergedHolds
  <2>5. CASE EndClass
    <3>1. Holds
      BY <1>2, <2>5 DEF EndClass, Parsing, SymInv, Holds
    <3> QED
      BY <2>5, <3>1, EndClassHolds
  <2>6. CASE BeginClass
    <3>1. /\ Holds /\ phase = "extend" /\ phase' = "class"
          /\ node' = node /\ entry' = entry /\ block' = block /\ before' = before
      BY <1>2, <2>6 DEF BeginClass, Parsing, SymInv, Holds
    <3>2. PhaseOK(node, before, block, "class")
      BY <3>1 DEF Holds, PhaseOK
    <3> QED
      BY <3>1, <3>2 DEF Holds
  <2>7. CASE EndMerge
    <3>1. /\ Holds /\ phase = "merge" /\ phase' = "later" /\ block = <<>>
          /\ node' = node /\ entry' = entry /\ block' = block /\ before' = before
      BY <1>2, <2>7 DEF EndMerge, Parsing, SymInv, Holds
    <3>2. PhaseOK(node, before, block, "later")
      BY <3>1 DEF Holds, PhaseOK
    <3> QED
      BY <3>1, <3>2 DEF Holds
  <2>8. CASE EndInput \/ VisitCdecl \/ VisitUsing \/ VisitTemplate \/ EndPass
    BY <2>8 DEF EndInput, VisitCdecl, VisitUsing, VisitTemplate, EndPass, Parsing
  <2> QED
    BY <2>2, <2>3, <2>4, <2>5, <2>6, <2>7, <2>8 DEF SymNext
<1> QED
  BY <1>1, <1>2, PTL DEF SymSpec

-----------------------------------------------------------------------------
(***************************************************************************)
(* What follows from the invariant.                                        *)
(***************************************************************************)

LEMMA ListIs ==
  ASSUME NEW N, NEW E, TablesOK(N, E), NEW s \in Scopes
  PROVE  ListOK(N, E[s], s, ListFrom(N, E[s]))
<1>1. PICK l : ListOK(N, E[s], s, l)
  BY DEF TablesOK
<1>2. PICK n, e, link : n = Len(N) /\ e = E[s] /\ link = "nextSibling"
  OBVIOUS
<1>3. n \in Nat /\ Follows(N, e, link, l)
  BY <1>1, <1>2 DEF TablesOK, ListOK
<1>4. Along(N, e, link) = l
  BY ONLY <1>2, <1>3, AlongIs
<1> QED
  BY <1>1, <1>2, <1>4 DEF ListFrom

\* The parts of ListsExact.
ExactList(N, list, s) ==
  /\ ToSet(list) = {n \in 1 .. Len(N) : N[n].symtab = s}
  /\ \A i \in 1 .. Len(list) : /\ N[list[i]].overname = <<i - 1>>
                               /\ N[list[i]].previousSibling = IF i = 1 THEN NoNode ELSE list[i - 1]

Idle(r) == r.overname = <<>> /\ {r.nextSibling, r.previousSibling, r.overloaded} = {NoNode}

LEMMA Exact ==
  ASSUME SymInv
  PROVE  ListsExact
<1>1. PICK N, E : N = node /\ E = entry
  OBVIOUS
<1>0. ListsExact <=> (Parsing => /\ \A s \in Scopes : ExactList(node, ListFrom(node, entry[s]), s)
                                 /\ \A n \in 1 .. Len(node) : node[n].symtab = "none" => Idle(node[n]))
  BY ONLY Zenon DEF ListsExact, ExactList, Idle
<1> SUFFICES ASSUME Parsing
             PROVE  /\ \A s \in Scopes : ExactList(N, ListFrom(N, E[s]), s)
                    /\ \A n \in 1 .. Len(N) : N[n].symtab = "none" => Idle(N[n])
  BY <1>0, <1>1
<1>2. TablesOK(N, E)
  BY <1>1 DEF SymInv
<1>3. ASSUME NEW s \in Scopes PROVE ExactList(N, ListFrom(N, E[s]), s)
  <2>0. PICK list : list = ListFrom(N, E[s])
    OBVIOUS
  <2>1. PICK e : e = E[s]
    OBVIOUS
  <2>2. ListOK(N, e, s, list)
    BY <1>2, <2>0, <2>1, ListIs
  <2>3. list \in Seq(1 .. Len(N)) /\ \A j \in 1 .. Len(list) : list[j] \in 1 .. Len(N)
    BY <2>2, ListNodes
  <2>4. \A y \in 1 .. Len(N) : N[y].symtab = s <=> \E j \in 1 .. Len(list) : list[j] = y
    BY <2>2 DEF ListOK
  <2>5. ToSet(list) = {list[j] : j \in 1 .. Len(list)}
    BY <2>3 DEF ToSet
  <2>6. ToSet(list) = {n \in 1 .. Len(N) : N[n].symtab = s}
    BY <2>3, <2>4, <2>5
  <2>7. \A i \in 1 .. Len(list) : /\ N[list[i]].overname = <<i - 1>>
                                  /\ N[list[i]].previousSibling = IF i = 1 THEN NoNode ELSE list[i - 1]
    BY <2>2 DEF ListOK
  <2> QED
    BY <2>0, <2>6, <2>7 DEF ExactList
<1>4. ASSUME NEW n \in 1 .. Len(N), N[n].symtab = "none"
      PROVE  Idle(N[n])
  BY <1>2, <1>4 DEF TablesOK, Loose, Unused, Idle
<1> QED
  BY <1>3, <1>4
LEMMA Wins ==
  ASSUME SymInv
  PROVE  ExtendWins
<1>1. PICK N, E, p : N = node /\ E = entry /\ p = before
  OBVIOUS
<1>2. PICK l : l = Len(p)
  OBVIOUS
<1> SUFFICES ASSUME phase = "later" PROVE ExtendWins
  BY Zenon DEF ExtendWins
<1>3. ApartOK(N, E) /\ Turned(N, p, <<>>)
  BY <1>1 DEF SymInv, Parsing, PhaseOK
<1>4. /\ \A x \in 1 .. l : p[x] = "extend" => Placing(N, p, <<>>, x)
      /\ \A x \in 1 .. l : p[x] = "class" => OutIfMarked(N, x) /\ (N[x].error => Replaced(N, p, x))
      /\ \A x \in 1 .. l : p[x] \notin Scopes => N[x].error
      /\ \A x \in 1 .. Len(N) : x > l => OutIfMarked(N, x)
      /\ l \in Nat /\ l <= Len(N)
  BY <1>2, <1>3 DEF Turned
<1>5. /\ Extensions = {n \in 1 .. l : p[n] = "extend"}
      /\ Members = {n \in 1 .. l : p[n] = "class"}
  BY <1>1, <1>2 DEF Extensions, Members
<1>6. ASSUME NEW x \in Extensions PROVE ~ node[x].error /\ (node[x].symtab = "class" \/ TurnedAway(x))
  <2>1. Placing(N, p, <<>>, x)
    BY <1>4, <1>5
  <2>2. ~ InBlock(<<>>, x)
    BY DEF InBlock
  <2>3. Kept(N, p, x) => TurnedAway(x)
    BY <1>1, <1>2, <1>5 DEF Kept, TurnedAway
  <2> QED
    BY <1>1, <2>1, <2>2, <2>3 DEF Placing
<1>7. ASSUME NEW m \in Members, node[m].error PROVE \E x \in Extensions : ~ Apart(node[m], node[x])
  <2>1. Replaced(N, p, m)
    BY <1>1, <1>4, <1>5, <1>7
  <2> QED
    BY <1>1, <1>2, <1>5, <2>1 DEF Replaced
<1>8. ASSUME NEW n \in 1 .. Len(node), n \notin Extensions
      PROVE  node[n].symtab = IF node[n].error THEN "none" ELSE "class"
  <2>1. OutIfMarked(N, n)
    <3>1. CASE n > l
      BY <1>1, <1>4, <1>8, <3>1
    <3>2. CASE ~ n > l
      <4>1. n \in 1 .. l /\ p[n] # "extend"
        BY <1>1, <1>4, <1>5, <1>8, <3>2
      <4>2. CASE p[n] = "class"
        BY <1>4, <4>1, <4>2
      <4>3. CASE p[n] # "class"
        <5>1. N[n].error
          BY <1>4, <4>1, <4>3 DEF Scopes
        <5>2. N[n].symtab = "none"
          BY <1>1, <1>8, <5>1 DEF SymInv, Parsing, NodesOK
        <5> QED
          BY <5>1, <5>2 DEF OutIfMarked
      <4> QED
        BY <4>2, <4>3
    <3> QED
      BY <3>1, <3>2
  <2> QED
    BY <1>1, <2>1 DEF OutIfMarked
<1>9. \/ UsingHeads(node, entry["class"])
      \/ \A m, n \in {x \in 1 .. Len(node) : node[x].symtab = "class"} : m # n => Apart(node[m], node[n])
  BY <1>1, <1>3 DEF ApartOK, AllApart, Scopes
<1> QED
  BY <1>6, <1>7, <1>8, <1>9, Zenon DEF ExtendWins

\* While the tables are built (Swig_symbol_add, Swig_symbol_remove and the moves of
\* Swig_extend_merge): the list of a table is exactly the nodes that carry its
\* sym:symtab, linked both ways and numbered __SWIG_0, __SWIG_1, ... in order, and a
\* node outside every list has no link and no overname left.
THEOREM ListsAlwaysExact == SymSpec => []ListsExact
  BY SymInvariant, Exact, PTL

\* The %extend definition is the one that stays (extend.c:35).  After the merge, and
\* additions by later blocks: a declaration of the block is not marked and is in the
\* class's table, or is a variable that was turned away because another member stood in
\* its way (extend.c:85 does not look); a member of the class that was marked conflicts
\* with a declaration of the block; every other declaration is in the table exactly if
\* it is not marked; and no two of the table conflict, unless a using declaration comes
\* first in the list, where Swig_symbol_add does not compare (symbol.c:893).
THEOREM ExtendAlwaysWins == SymSpec => []ExtendWins
  BY SymInvariant, Wins, PTL
=============================================================================
