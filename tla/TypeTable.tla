------------------------------ MODULE TypeTable ------------------------------
(***************************************************************************)
(* The run-time type table every generated module links itself into:       *)
(* Lib/swiginit.swg and Lib/swigrun.swg.                                   *)
(*                                                                         *)
(* A module owns static arrays: one swig_type_info for every type it uses, *)
(* in name order (TypeInitial), and for every type a row of swig_cast_info *)
(* structures, one for every type that can be cast to it (CastInitial).    *)
(* Loading a module links it into the interpreter's circular list of       *)
(* modules, replaces its types by those already loaded under the same name *)
(* and threads its casts into the doubly linked cast list of those types.  *)
(*                                                                         *)
(* The code is sequential: one call runs at a time, and an action is one   *)
(* iteration of one of its loops.  swig_type_info and swig_cast_info are   *)
(* named by their position in the static arrays, so a pointer is a name.   *)
(***************************************************************************)
EXTENDS Naturals, Sequences, FiniteSets

CONSTANTS
  Modules,      \* the generated modules
  Interps,      \* the interpreters of the process
  Names,        \* the mangled type names
  TypeInitial,  \* [Modules -> Seq(Names)], swig_type_initial
  CastInitial,  \* [Modules -> [Names -> Seq(Names)]], the rows of swig_cast_initial
  Converters,   \* the pairs <<from, to>> whose cast has a converter function
  StaticData,   \* [Modules -> SUBSET Names], types with a generated clientdata
  Data,         \* what SWIG_TypeClientData may be called with
  Null          \* the null pointer

\* A swig_type_info, and a swig_cast_info: the entry for "from" in the row "to".
Type == [owner : Modules, name : Names]
Cast == [owner : Modules, to : Names, from : Names]

\* The cast structures the generated code really contains.
Emitted == {c \in Cast : \E j \in 1 .. Len(CastInitial[c.owner][c.to]) :
                           CastInitial[c.owner][c.to][j] = c.from}

ASSUME TypeTableAssumption ==
  /\ IsFiniteSet(Modules)
  /\ TypeInitial \in [Modules -> Seq(Names)]
  /\ CastInitial \in [Modules -> [Names -> Seq(Names)]]
  /\ StaticData \in [Modules -> SUBSET Names]
  /\ \A x \in Modules : \A a, b \in 1 .. Len(TypeInitial[x]) :
        TypeInitial[x][a] = TypeInitial[x][b] => a = b
  /\ \A x \in Modules : \A n \in Names : \A a, b \in 1 .. Len(CastInitial[x][n]) :
        CastInitial[x][n][a] = CastInitial[x][n][b] => a = b
  /\ Null \notin Modules \cup Type \cup Cast \cup Data

\* The generator puts every type of a row of casts into the table of types too
\* (typesys.c:2240-2242).
ASSUME CastTypesAssumption ==
  /\ IsFiniteSet(Names)
  /\ \A x \in Modules : \A n \in Names : \A a \in 1 .. Len(CastInitial[x][n]) :
        \E b \in 1 .. Len(TypeInitial[x]) : TypeInitial[x][b] = CastInitial[x][n][a]

VARIABLES
  next,        \* swig_module_info.next
  head,        \* the module pointer kept by each interpreter
  types,       \* swig_module_info.types, by name; Null while not filled in
  cast,        \* swig_type_info.cast, the first cast of the list
  castType,    \* swig_cast_info.type
  castNext,    \* swig_cast_info.next
  castPrev,    \* swig_cast_info.prev
  clientdata,  \* swig_type_info.clientdata
  initRun,     \* the modules whose SWIG_PropagateClientData has run
  pc,          \* the loop the running call is in; "idle" between calls
  m, itp,      \* the module being loaded and the interpreter that loads it
  init,        \* TRUE when this call found the module's next pointer null
  i, k,        \* index of the type, and position in its row of casts
  type,        \* the swig_type_info whose casts are inserted or checked
  iter,        \* the module pointer of the list walks
  citer,       \* the cast pointer of the list walks
  want         \* what SWIG_TypeCheck or SWIG_TypeCheckStruct looks for

lists == <<cast, castType, castNext, castPrev>>
vars  == <<next, head, types, cast, castType, castNext, castPrev, clientdata, initRun,
           pc, m, itp, init, i, k, type, iter, citer, want>>

Own(mod, n) == [owner |-> mod, name |-> n]

Init ==
  /\ next = [x \in Modules |-> Null]
  /\ head = [x \in Interps |-> Null]
  /\ types = [x \in Modules |-> [n \in Names |-> Null]]
  /\ cast = [t \in Type |-> Null]
  /\ castType = [c \in Cast |-> Own(c.owner, c.from)]
  /\ castNext = [c \in Cast |-> Null]
  /\ castPrev = [c \in Cast |-> Null]
  /\ clientdata = [t \in Type |-> IF t.name \in StaticData[t.owner] THEN t.owner ELSE Null]
  /\ initRun = {}
  /\ pc = "idle"
  /\ m = Null /\ itp = Null /\ init = FALSE /\ i = 0 /\ k = 0
  /\ type = Null /\ iter = Null /\ citer = Null /\ want = Null

\* The running call returns to its caller.
Return ==
  /\ pc' = "idle"
  /\ m' = Null /\ itp' = Null /\ init' = FALSE /\ i' = 0 /\ k' = 0
  /\ type' = Null /\ iter' = Null /\ citer' = Null /\ want' = Null
-----------------------------------------------------------------------------
(* SWIG_InitializeModule: linking the module into the interpreter's list.   *)

\* The initialisation function of module mod runs in interpreter x.
InitializeModule(x, mod) ==
  /\ pc = "idle"
  /\ m' = mod /\ itp' = x /\ i' = 1 /\ k' = 1
  /\ init' = (next[mod] = Null)
  /\ next' = IF next[mod] = Null THEN [next EXCEPT ![mod] = mod] ELSE next
  /\ IF head[x] = Null
     THEN /\ head' = [head EXCEPT ![x] = mod]
          /\ pc' = IF init' THEN "type" ELSE "propagate"
          /\ UNCHANGED iter
     ELSE /\ iter' = head[x]
          /\ pc' = "walk"
          /\ UNCHANGED head
  /\ UNCHANGED <<types, lists, clientdata, initRun, type, citer, want>>

\* The interpreter has loaded this module before: nothing more to do.
AlreadyInList ==
  /\ pc = "walk"
  /\ iter = m
  /\ pc' = "propagate"
  /\ UNCHANGED <<next, head, types, lists, clientdata, initRun, m, itp, init, i, k,
                 type, iter, citer, want>>

\* Mutant: the old successor of the head is lost.
WalkModulesLosesTail ==
  /\ pc = "walk"
  /\ iter # m
  /\ IF next[iter] # head[itp]
     THEN /\ iter' = next[iter]
          /\ UNCHANGED <<next, pc>>
     ELSE /\ next' = [next EXCEPT ![m] = head[itp], ![head[itp]] = m]
          /\ pc' = IF init THEN "type" ELSE "propagate"
          /\ iter' = Null
  /\ UNCHANGED <<head, types, lists, clientdata, initRun, m, itp, init, i, k,
                 type, citer, want>>

\* iter = iter->next, and, back at the head, the insertion after the head.
WalkModules ==
  /\ pc = "walk"
  /\ iter # m
  /\ IF next[iter] # head[itp]
     THEN /\ iter' = next[iter]
          /\ UNCHANGED <<next, pc>>
     ELSE /\ next' = [next EXCEPT ![m] = next[head[itp]], ![head[itp]] = m]
          /\ pc' = IF init THEN "type" ELSE "propagate"
          /\ iter' = Null
  /\ UNCHANGED <<head, types, lists, clientdata, initRun, m, itp, init, i, k,
                 type, citer, want>>
-----------------------------------------------------------------------------
(* SWIG_InitializeModule: filling in the types and their casts.             *)

TypeName == TypeInitial[m][i]
Row      == CastInitial[m][TypeName]
ThisCast == [owner |-> m, to |-> TypeName, from |-> Row[k]]

\* Turn to the casts of the type t.
StartRow(t) == type' = t /\ k' = 1 /\ iter' = Null /\ pc' = "cast"

\* The head of the loop over type_initial.
NextType ==
  /\ pc = "type"
  /\ IF i > Len(TypeInitial[m])
     THEN pc' = "propagate" /\ UNCHANGED <<type, k, iter>>
     ELSE IF next[m] # m
          THEN pc' = "typequery" /\ iter' = next[m] /\ UNCHANGED <<type, k>>
          ELSE StartRow(Own(m, TypeName))
  /\ UNCHANGED <<next, head, types, lists, clientdata, initRun, m, itp, init, i,
                 citer, want>>

\* Mutant: the module keeps its own structure although the type is loaded.
QueryTypeKeepsOwn ==
  /\ pc = "typequery"
  /\ StartRow(Own(m, TypeName))
  /\ UNCHANGED <<next, head, types, lists, clientdata, initRun, m, itp, init, i,
                 citer, want>>

\* SWIG_MangledTypeQueryModule(swig_module.next, &swig_module, type name): the
\* loaded structure is used, and takes over a generated clientdata.
QueryType ==
  /\ pc = "typequery"
  /\ IF types[iter][TypeName] # Null
     THEN /\ StartRow(types[iter][TypeName])
          /\ clientdata' = IF clientdata[Own(m, TypeName)] # Null
                           THEN [clientdata EXCEPT ![type'] = clientdata[Own(m, TypeName)]]
                           ELSE clientdata
     ELSE /\ IF next[iter] # m
             THEN iter' = next[iter] /\ UNCHANGED <<type, k, pc>>
             ELSE StartRow(Own(m, TypeName))
          /\ UNCHANGED clientdata
  /\ UNCHANGED <<next, head, types, lists, initRun, m, itp, init, i, citer, want>>

\* Mutant: the old head's prev pointer is not set.
LinkAtHeadNoPrev(c) ==
  /\ IF cast[type] # Null
     THEN castNext' = [castNext EXCEPT ![c] = cast[type]]
     ELSE UNCHANGED castNext
  /\ cast' = [cast EXCEPT ![type] = c]
  /\ UNCHANGED castPrev

\* Insert the cast c at the head of the list of "type".
LinkAtHead(c) ==
  /\ IF cast[type] # Null
     THEN /\ castPrev' = [castPrev EXCEPT ![cast[type]] = c]
          /\ castNext' = [castNext EXCEPT ![c] = cast[type]]
     ELSE UNCHANGED <<castPrev, castNext>>
  /\ cast' = [cast EXCEPT ![type] = c]

\* cast++: on to the next cast of the row.
NextInRow == k' = k + 1 /\ iter' = Null /\ citer' = Null /\ want' = Null /\ pc' = "cast"

\* The head of the loop over the row; at its end types[i] is set.
NextCast ==
  /\ pc = "cast"
  /\ IF k > Len(Row)
     THEN /\ types' = [types EXCEPT ![m][TypeName] = type]
          /\ i' = i + 1
          /\ type' = Null
          /\ pc' = "type"
          /\ UNCHANGED <<lists, k, iter, citer, want>>
     ELSE IF next[m] # m
          THEN /\ pc' = "castquery"
               /\ iter' = next[m]
               /\ UNCHANGED <<types, lists, i, k, type, citer, want>>
          ELSE /\ LinkAtHead(ThisCast)
               /\ NextInRow
               /\ UNCHANGED <<types, castType, i, type>>
  /\ UNCHANGED <<next, head, clientdata, initRun, m, itp, init>>

\* Mutant: the cast of a new type keeps the type pointer it was generated with.
QueryCastKeepsType ==
  /\ pc = "castquery"
  /\ IF types[iter][ThisCast.from] # Null /\ type # Own(m, TypeName)
     THEN /\ pc' = "loadcheck"
          /\ citer' = cast[type]
          /\ want' = ThisCast.from
          /\ iter' = Null
          /\ UNCHANGED <<cast, castNext, castPrev, k>>
     ELSE IF types[iter][ThisCast.from] = Null /\ next[iter] # m
          THEN iter' = next[iter] /\ UNCHANGED <<cast, castNext, castPrev, k, citer, want, pc>>
          ELSE LinkAtHead(ThisCast) /\ NextInRow
  /\ UNCHANGED <<next, head, types, castType, clientdata, initRun, m, itp, init, i, type>>

\* Mutant: the result of the query is used without the test "if (ret)".
QueryCastUntested ==
  /\ pc = "castquery"
  /\ castType' = [castType EXCEPT ![ThisCast] = types[iter][ThisCast.from]]
  /\ LinkAtHead(ThisCast)
  /\ NextInRow
  /\ UNCHANGED <<next, head, types, clientdata, initRun, m, itp, init, i, type>>

\* SWIG_MangledTypeQueryModule(swig_module.next, &swig_module, cast type name).
QueryCast ==
  /\ pc = "castquery"
  /\ IF types[iter][ThisCast.from] # Null
     THEN IF type = Own(m, TypeName)
          THEN \* the cast type is loaded, the type is new
               /\ castType' = [castType EXCEPT ![ThisCast] = types[iter][ThisCast.from]]
               /\ LinkAtHead(ThisCast)
               /\ NextInRow
          ELSE \* both are loaded: look for the cast with SWIG_TypeCheck
               /\ pc' = "loadcheck"
               /\ citer' = cast[type]
               /\ want' = ThisCast.from
               /\ iter' = Null
               /\ UNCHANGED <<lists, k>>
     ELSE IF next[iter] # m
          THEN /\ iter' = next[iter]
               /\ UNCHANGED <<lists, k, citer, want, pc>>
          ELSE \* the cast type is not loaded
               /\ LinkAtHead(ThisCast)
               /\ NextInRow
               /\ UNCHANGED castType
  /\ UNCHANGED <<next, head, types, clientdata, initRun, m, itp, init, i, type>>
-----------------------------------------------------------------------------
(* SWIG_TypeCheck and SWIG_TypeCheckStruct: list search, move to front.     *)

\* Mutant: the successor keeps its prev pointer.
MoveToFrontHalf(c) ==
  IF c = cast[type]
  THEN UNCHANGED <<cast, castNext, castPrev>>
  ELSE /\ castNext' = [castNext EXCEPT ![castPrev[c]] = castNext[c], ![c] = cast[type]]
       /\ castPrev' = [d \in Cast |-> IF d = cast[type] THEN c
                                      ELSE IF d = c THEN Null
                                      ELSE castPrev[d]]
       /\ cast' = [cast EXCEPT ![type] = c]

\* Unlink c and insert it at the head, unless it is the head.
MoveToFront(c) ==
  IF c = cast[type]
  THEN UNCHANGED <<cast, castNext, castPrev>>
  ELSE /\ castNext' = [castNext EXCEPT ![castPrev[c]] = castNext[c], ![c] = cast[type]]
       /\ castPrev' = [d \in Cast |-> IF d = cast[type] THEN c
                                      ELSE IF d = c THEN Null
                                      ELSE IF d = castNext[c] THEN castPrev[c]
                                      ELSE castPrev[d]]
       /\ cast' = [cast EXCEPT ![type] = c]

\* The call SWIG_TypeCheck(ret->name, type) made while a module is loaded: a
\* cast that is found is skipped, one that is not found is added.
LoadCheck ==
  /\ pc = "loadcheck"
  /\ IF citer = Null
     THEN LinkAtHead(ThisCast) /\ NextInRow
     ELSE IF castType[citer].name = want
          THEN MoveToFront(citer) /\ NextInRow
          ELSE /\ citer' = castNext[citer]
               /\ UNCHANGED <<cast, castNext, castPrev, k, iter, want, pc>>
  /\ UNCHANGED <<next, head, types, castType, clientdata, initRun, m, itp, init, i, type>>

\* The types wrapper code can name: the filled-in entries of swig_types.
Loaded == {types[x][n] : x \in {y \in Modules : next[y] # Null}, n \in Names} \ {Null}

StartCheck(t, what, loop) ==
  /\ pc = "idle"
  /\ type' = t
  /\ citer' = cast[t]
  /\ want' = what
  /\ pc' = loop
  /\ UNCHANGED <<next, head, types, lists, clientdata, initRun, m, itp, init, i, k, iter>>

\* A wrapper asks whether the type called n can be cast to t.
TypeCheck(t, n) == StartCheck(t, n, "checkname")

\* The same question with a type structure.
TypeCheckStruct(t, from) == StartCheck(t, from, "checkstruct")

\* Mutant: "iter = iter->next" is missing.
CheckCastStuck ==
  /\ pc \in {"checkname", "checkstruct"}
  /\ \/ citer = Null
     \/ castType[citer] = want
     \/ castType[citer].name = want
  /\ Return
  /\ UNCHANGED <<next, head, types, lists, clientdata, initRun>>

\* The loop of both functions.
CheckCast ==
  /\ pc \in {"checkname", "checkstruct"}
  /\ IF citer = Null
     THEN Return /\ UNCHANGED <<cast, castNext, castPrev>>
     ELSE IF (IF pc = "checkname" THEN castType[citer].name = want ELSE castType[citer] = want)
          THEN MoveToFront(citer) /\ Return
          ELSE /\ citer' = castNext[citer]
               /\ UNCHANGED <<cast, castNext, castPrev, pc, m, itp, init, i, k, type, iter,
                              want>>
  /\ UNCHANGED <<next, head, types, castType, clientdata, initRun>>
-----------------------------------------------------------------------------
(* Client data.                                                             *)

\* The casts on the list of t.
ListOf(t) ==
  LET walk[n \in 0 .. Cardinality(Emitted)] ==
        IF n = 0 THEN cast[t]
        ELSE IF walk[n - 1] = Null THEN Null ELSE castNext[walk[n - 1]]
  IN  {walk[n] : n \in 0 .. Cardinality(Emitted)} \ {Null}

HasConverter(c) == <<c.from, c.to>> \in Converters

\* The types reached from t through casts without a converter, by way of types
\* that have no client data yet: the recursion of SWIG_TypeClientData.
Equivalents(t) ==
  LET step(S) == S \cup {x \in {castType[c] : c \in {d \in UNION {ListOf(u) : u \in S} :
                                                        ~ HasConverter(d)}} :
                           clientdata[x] = Null}
      grow[n \in 0 .. Cardinality(Type)] ==
        IF n = 0 THEN {t} ELSE LET S == grow[n - 1] IN step(S)
  IN  grow[Cardinality(Type)]

Spread(t, d) ==
  LET reached == Equivalents(t)
  IN  clientdata' = [x \in Type |-> IF x \in reached THEN d ELSE clientdata[x]]

\* A wrapper sets the client data of a type.
TypeClientData(t, d) ==
  /\ pc = "idle"
  /\ Spread(t, d)
  /\ UNCHANGED <<next, head, types, lists, initRun, pc, m, itp, init, i, k, type, iter,
                 citer, want>>

\* SWIG_PropagateClientData, called by the module's initialisation function
\* after SWIG_InitializeModule; it works once.
PropagateClientData ==
  /\ pc = "propagate"
  /\ IF m \in initRun
     THEN Return /\ UNCHANGED initRun
     ELSE /\ initRun' = initRun \cup {m}
          /\ i' = 1
          /\ pc' = "proptype"
          /\ UNCHANGED <<m, itp, init, k, type, iter, citer, want>>
  /\ UNCHANGED <<next, head, types, lists, clientdata>>

\* The head of its loop over the types.
PropagateType ==
  /\ pc = "proptype"
  /\ IF i > Len(TypeInitial[m])
     THEN Return
     ELSE /\ type' = types[m][TypeName]
          /\ IF clientdata[type'] # Null
             THEN pc' = "propcast" /\ citer' = cast[type'] /\ UNCHANGED i
             ELSE i' = i + 1 /\ UNCHANGED <<pc, citer>>
          /\ UNCHANGED <<m, itp, init, k, iter, want>>
  /\ UNCHANGED <<next, head, types, lists, clientdata, initRun>>

\* Mutant: the equivalents of a type with client data are not visited.
PropagateCastNot ==
  /\ pc = "propcast"
  /\ i' = i + 1 /\ pc' = "proptype" /\ citer' = Null
  /\ UNCHANGED <<next, head, types, lists, clientdata, initRun, m, itp, init, k, type, iter,
                 want>>

\* Its loop over the casts of a type.
PropagateCast ==
  /\ pc = "propcast"
  /\ IF citer = Null
     THEN /\ i' = i + 1
          /\ pc' = "proptype"
          /\ UNCHANGED <<citer, clientdata>>
     ELSE /\ IF ~ HasConverter(citer) /\ clientdata[castType[citer]] = Null
             THEN Spread(castType[citer], clientdata[type])
             ELSE UNCHANGED clientdata
          /\ citer' = castNext[citer]
          /\ UNCHANGED <<i, pc>>
  /\ UNCHANGED <<next, head, types, lists, initRun, m, itp, init, k, type, iter, want>>
-----------------------------------------------------------------------------
\* One iteration of the call that is running.
Step ==
  \/ AlreadyInList \/ WalkModules
  \/ NextType \/ QueryType \/ NextCast \/ QueryCast \/ LoadCheck
  \/ CheckCast
  \/ PropagateClientData \/ PropagateType \/ PropagateCast

Next ==
  \/ \E x \in Interps, mod \in Modules : InitializeModule(x, mod)
  \/ \E t \in Loaded, n \in Names : TypeCheck(t, n)
  \/ \E t, from \in Loaded : TypeCheckStruct(t, from)
  \/ \E t \in Loaded, d \in Data : TypeClientData(t, d)
  \/ Step

\* A running call keeps running; nothing makes a new call happen.
Spec == Init /\ [][Next]_vars /\ WF_vars(Step)
-----------------------------------------------------------------------------
TypeOK ==
  /\ next \in [Modules -> Modules \cup {Null}]
  /\ head \in [Interps -> Modules \cup {Null}]
  /\ types \in [Modules -> [Names -> Type \cup {Null}]]
  /\ cast \in [Type -> Cast \cup {Null}]
  /\ castType \in [Cast -> Type]
  /\ castNext \in [Cast -> Cast \cup {Null}]
  /\ castPrev \in [Cast -> Cast \cup {Null}]
  /\ clientdata \in [Type -> Modules \cup Data \cup {Null}]
  /\ initRun \subseteq Modules
  /\ pc \in {"idle", "walk", "type", "typequery", "cast", "castquery", "loadcheck",
             "checkname", "checkstruct", "propagate", "proptype", "propcast"}
  /\ m \in Modules \cup {Null}
  /\ itp \in Interps \cup {Null}
  /\ init \in BOOLEAN
  /\ i \in Nat
  /\ k \in Nat
  /\ type \in Type \cup {Null}
  /\ iter \in Modules \cup {Null}
  /\ citer \in Cast \cup {Null}
  /\ want \in Names \cup Type \cup {Null}

\* The cast lists are doubly linked lists, at every iteration of every loop:
\* next and prev are inverse, a list starts where no prev leads further, and no
\* two types share a first cast (swiginit.swg:167-171, swigrun.swg:273-280).
WellLinked ==
  /\ \A c \in Cast : castNext[c] # Null => castPrev[castNext[c]] = c
  /\ \A c \in Cast : castPrev[c] # Null => castNext[castPrev[c]] = c
  /\ \A t \in Type : cast[t] # Null => castPrev[cast[t]] = Null
  /\ \A t, u \in Type : cast[t] = cast[u] /\ cast[t] # Null => t = u

\* SWIG_TypeCheck dereferences iter->prev without a test (swigrun.swg:274, 301):
\* a cast that is reached and is not the first of the list has a predecessor.
PrevIsThere ==
  pc \in {"loadcheck", "checkname", "checkstruct"} /\ citer # Null /\ citer # cast[type]
    => castPrev[citer] # Null

LoadedModules == {x \in Modules : next[x] # Null}

\* One swig_type_info for each type: between calls, all modules of the process
\* refer to a type by the same structure ("we need to have ONE swig_type_info
\* for each type", Doc/Manual/Typemaps.html).
OneStructPerType ==
  pc = "idle" =>
    \A x, y \in LoadedModules : \A n \in Names :
      types[x][n] # Null /\ types[y][n] # Null => types[x][n] = types[y][n]

\* A cast is merged late when its module found both of its types loaded: it is
\* added with the type pointer it was generated with (swiginit.swg:159-172).
Late(c) == types[c.owner][c.to].owner # c.owner /\ types[c.owner][c.from].owner # c.owner

\* The structure a listed cast is to point at.
CastFrom(c) == IF Late(c) THEN Own(c.owner, c.from) ELSE types[c.owner][c.from]

\* Whatever the order of loading and of the checks in between, a type can be
\* cast from exactly the types that some loaded module says it can, and each is
\* listed once (swiginit.swg:131-174).  The cast points at the one structure the
\* modules share for that type, except for a cast merged late: it points at the
\* structure its own module contains and no module uses.
CastsComplete ==
  pc = "idle" =>
    \A t \in Loaded :
      LET declared == UNION {{CastInitial[x][t.name][j] : j \in 1 .. Len(CastInitial[x][t.name])} :
                               x \in {y \in LoadedModules : types[y][t.name] # Null}}
      IN  /\ {castType[c].name : c \in ListOf(t)} = declared
          /\ Cardinality(ListOf(t)) = Cardinality(declared)
          /\ \A c \in ListOf(t) : castType[c] = CastFrom(c)

\* What the header comment promises of every cast: "The one last trick we need to
\* do is making sure the type pointer in the swig_cast_info struct is correct"
\* (swiginit.swg:25-26).  It is not for a cast merged late, and SWIG_TypeCheckStruct,
\* which compares pointers (swigrun.swg:297), does not find the loaded type.
CastTypesLoaded ==
  pc = "idle" => \A t \in Loaded : \A c \in ListOf(t) : castType[c] = types[c.owner][c.from]

\* After the propagation of every loaded module, a type with client data has
\* only equivalents with client data (swiginit.swg:197-223): the structure that
\* the wrappers use for an equivalent type is known whenever the type is.  Only
\* where the cast was merged late the client data goes to the unused copy the
\* cast points at, and nothing is said of the structure the wrappers use.
ClientDataPropagated ==
  pc = "idle" =>
    \A t \in Loaded : clientdata[t] # Null =>
      \A c \in ListOf(t) : ~ HasConverter(c) => clientdata[CastFrom(c)] # Null

\* Every call returns: no walk over the list of modules or of casts is endless.
CallsReturn == pc # "idle" ~> pc = "idle"

\* The ways to go from the module of interpreter x along n next pointers back to it.
Rings(n, x) ==
  {r \in [1 .. n -> Modules] :
     r[1] = head[x] /\ \A j \in 1 .. n : next[r[j]] = r[IF j = n THEN 1 ELSE j + 1]}

\* The modules of an interpreter are "in a circularly linked list"
\* (swigrun.swg:205-206): from the interpreter's module the next pointers lead back
\* to it, so that the walks of swiginit.swg:80-86 and swigrun.swg:402-435 end.
ListsLeadBack == \A x \in Interps : head[x] # Null => \E n \in 1 .. Cardinality(Modules) : Rings(n, x) # {}

\* Between calls, whatever the order in which modules are loaded: the list of each
\* interpreter leads back to its module, and every module that was loaded is on
\* the list of an interpreter.
CircularList ==
  pc = "idle" =>
    /\ ListsLeadBack
    /\ \A mod \in LoadedModules :
         \E x \in Interps, n \in 1 .. Cardinality(Modules) : \E r \in Rings(n, x), j \in 1 .. n : r[j] = mod
=============================================================================
