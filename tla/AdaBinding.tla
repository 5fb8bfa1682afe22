----------------------------- MODULE AdaBinding -----------------------------
(***************************************************************************)
(* The core of the Ada back end (Source/Modules/ada): the handlers that    *)
(* the parser calls for each C declaration and the C types they register   *)
(* (ada_language.adb), the pruning of all that depends on an unknown type  *)
(* (prune_unknown_C_Types), and the making of Ada types, variables and     *)
(* subprograms (transformer.adb).                                          *)
(*                                                                         *)
(* A swig type is a name with so many pointers and perhaps an array in     *)
(* front of it.  The code strips qualifiers and maps a reference to the    *)
(* pointer's C type, so neither is here.  A C type is identified by the    *)
(* swig type it was registered for.                                        *)
(*                                                                         *)
(* The header is read with -c++, where the type pass has taken "struct"    *)
(* out of the types.  All declarations are of the top module, outside of   *)
(* any namespace, and none is private or ignored.                          *)
(***************************************************************************)
EXTENDS Naturals, Sequences, FiniteSets, Functions

CONSTANTS
  Names,       \* the names that the header declares or mentions
  Core,        \* the standard types, registered from the start
  Uses,        \* the swig types that declarations mention
  Signatures,  \* the signatures of the functions declared, [ret, params]
  Members,     \* the members a class may have, sequences of swig types
  MaxDecls,    \* bound on the number of declarations
  None         \* no C type

SwigTypes == (Names \cup Core) \X (0 .. 3) \X BOOLEAN

Plain(n) == <<n, 0, FALSE>>
Ptr(t)   == <<t[1], t[2] + 1, FALSE>>
Arr(t)   == <<t[1], t[2], TRUE>>

ASSUME AdaBindingAssumption ==
  /\ Names \cap Core = {} /\ IsFiniteSet(Names \cup Core)
  /\ Uses \subseteq {t \in SwigTypes : t[2] \in {0, 1} /\ ~ t[3]}
  /\ Signatures \subseteq [ret : Uses, params : Seq(Uses)]
  /\ Members \subseteq Seq(Uses)
  /\ MaxDecls \in Nat
  /\ None \notin SwigTypes

VARIABLES
  c_type,     \* swig_type_Map_of_c_type: the C type of each swig type, or None
  decl,       \* what was declared: kind, parts, base classes and signature
  new_types,  \* Module_top.C.new_c_Types
  variables,  \* Module_top.C.new_c_Variables, by their types
  functions,  \* Module_top.C.new_c_Functions, by their signatures
  declared,   \* the functions that were declared
  decls,      \* the number of declarations so far
  pc,         \* where the generator is
  pending,    \* the declaration that is being handled
  todo,       \* the types it still has to demand
  marked,     \* not_fully_known_Types
  at,         \* the index of the loop that runs
  ada,        \* c_type_Map_of_ada_type: the C types that have an Ada type
  bound       \* the subprograms made, of functions and of function pointers

types    == <<c_type, decl, new_types>>
items    == <<variables, functions, declared>>
handling == <<pending, todo>>
result   == <<marked, at, ada, bound>>
vars     == <<c_type, decl, new_types, variables, functions, declared, decls, pc, pending, todo,
              marked, at, ada, bound>>

NoSig   == [ret |-> None, params |-> <<>>]
Nothing == [what |-> "nothing", type |-> None, sig |-> NoSig]

Decl(k, ps) == [kind |-> k, parts |-> ps, bases |-> {}, sig |-> NoSig]
-----------------------------------------------------------------------------
(* The table of C types.                                                    *)

Known(t)     == c_type[t] # None
Mentioned(n) == \E t \in SwigTypes : t[1] = n /\ Known(t)

\* Mutant: the array and pointer types are added before the type itself.
FamilyLate(t) == <<Arr(t), Ptr(t), Arr(Ptr(t)), Ptr(Ptr(t)), t>>

\* The C types that register adds for t, in the order in which it adds them.
Family(t) == <<t, Arr(t), Ptr(t), Arr(Ptr(t)), Ptr(Ptr(t))>>

InFamily(x, t) == \E j \in 1 .. 5 : x = Family(t)[j]

\* register would find one of its types in the table, where insert fails.
Clashes(S) == \E t \in S : \E x \in SwigTypes : InFamily(x, t) /\ Known(x)

\* Mutant: an array of pointers is found as an array of what they point to.
RegisterFlat(S, o, d) ==
  /\ ~ Clashes(S)
  /\ c_type' = [x \in SwigTypes |->
       IF \E t \in S : InFamily(x, t)
       THEN LET t == CHOOSE t \in S : InFamily(x, t) IN
            <<o[1], IF x[3] THEN o[2] ELSE o[2] + x[2] - t[2], x[3]>>
       ELSE c_type[x]]
  /\ decl' = [decl EXCEPT ![o] = d]
  /\ new_types' = new_types \o Family(o)

\* register: the C type o, declared as d, and its arrays and pointers, for the
\* swig types of S.
Register(S, o, d) ==
  /\ ~ Clashes(S)
  /\ c_type' = [x \in SwigTypes |->
       IF \E t \in S : InFamily(x, t)
       THEN LET t == CHOOSE t \in S : InFamily(x, t) IN <<o[1], o[2] + x[2] - t[2], x[3]>>
       ELSE c_type[x]]
  /\ decl' = [decl EXCEPT ![o] = d]
  /\ new_types' = new_types \o Family(o)

\* c_type_Kind
Kind(o) ==
  IF decl[o].kind # "none" THEN decl[o].kind ELSE IF o[3] THEN "array" ELSE "pointer"

\* The C types that the C type o is made of: the element of an array, what a
\* pointer gives access to, the base of a typedef, the components of a class.
Parts(o) ==
  IF decl[o].kind # "none" THEN decl[o].parts
  ELSE IF o[3] THEN {<<o[1], o[2], FALSE>>} ELSE {<<o[1], o[2] - 1, FALSE>>}

CTypes == {c_type[t] : t \in {s \in SwigTypes : Known(s)}}

CoreTypes == {t \in SwigTypes : \E n \in Core : InFamily(t, Plain(n))}

Init ==
  /\ c_type = [t \in SwigTypes |-> IF t \in CoreTypes THEN t ELSE None]
  /\ decl = [t \in SwigTypes |->
               IF \E n \in Core : t = Plain(n) THEN Decl("core", {}) ELSE Decl("none", {})]
  /\ new_types = <<>>
  /\ variables = <<>> /\ functions = <<>> /\ declared = {}
  /\ decls = 0
  /\ pc = "parse"
  /\ pending = Nothing /\ todo = <<>>
  /\ marked = {} /\ at = 1 /\ ada = CoreTypes /\ bound = {}

-----------------------------------------------------------------------------
(* The handlers of the parser.                                              *)

Insert == "insert failed"   \* Aborted, or Constraint_Error of an insert
Lookup == "lookup failed"   \* Constraint_Error of an Element

\* An exception that no handler catches ends the program.
Raise(cause) == pc' = cause

RegisterOrRaise(S, o, d) ==
  IF Clashes(S) THEN Raise(Insert) /\ UNCHANGED types ELSE Register(S, o, d) /\ UNCHANGED pc

Handler == pc = "parse" /\ decls < MaxDecls /\ decls' = decls + 1

\* Go on by demanding the types ts, for a declaration of type o.
Pend(what, o, sig, ts) ==
  /\ pending' = [what |-> what, type |-> o, sig |-> sig]
  /\ todo' = ts

classForwardDeclaration(n) ==
  /\ Handler
  /\ IF Known(Plain(n)) THEN UNCHANGED <<types, pc>>
     ELSE RegisterOrRaise({Plain(n)}, Plain(n), Decl("opaque", {}))
  /\ UNCHANGED <<items, handling, result>>

\* A class that was forward declared, or is unknown so far, is morphed.  The
\* members follow.
classHandler(n, ms, B) ==
  LET class == [Decl("class", {}) EXCEPT !.bases = {c_type[Plain(b)] : b \in B}]
      o     == IF Known(Plain(n)) THEN c_type[Plain(n)] ELSE Plain(n)
  IN
  /\ Handler
  /\ Known(Plain(n)) => Kind(o) \in {"opaque", "unknown"}
  /\ \A b \in B : Known(Plain(b)) /\ Kind(c_type[Plain(b)]) = "class"
  /\ \A j \in 1 .. Len(ms) : ms[j] # Plain(n)
  /\ IF Known(Plain(n))
     THEN decl' = [decl EXCEPT ![o] = class] /\ UNCHANGED <<c_type, new_types>> /\ pc' = "demand"
     ELSE IF Clashes({o}) THEN Raise(Insert) /\ UNCHANGED types
     ELSE Register({o}, o, class) /\ pc' = "demand"
  /\ Pend("class", o, [ret |-> None, params |-> ms], ms)
  /\ UNCHANGED <<items, result>>

\* typedef t n, where t is neither an array nor a function type.  "typedef struct
\* foo foo_t" declares foo, if it is not known yet.
typedefHandler(n, t) ==
  /\ Handler
  /\ t = Plain(n) \/ (~ Mentioned(n) /\ t[1] # n)
  /\ IF Known(Plain(n)) THEN UNCHANGED <<types, pc>>
     ELSE IF Known(t) THEN RegisterOrRaise({Plain(n)}, Plain(n), Decl("typedef", {c_type[t]}))
     ELSE RegisterOrRaise({t, Plain(n)}, t, Decl("opaque", {}))
  /\ UNCHANGED <<items, handling, result>>

\* typedefHandler, for a pointer to a function with the signature s.
functionPointer(n, s) ==
  /\ Handler
  /\ ~ Mentioned(n)
  /\ s.ret[1] # n /\ \A j \in 1 .. Len(s.params) : s.params[j][1] # n
  /\ IF Known(s.ret)
     THEN Pend("function pointer", Plain(n), s, s.params) /\ pc' = "demand"
     ELSE Raise(Lookup) /\ UNCHANGED handling
  /\ UNCHANGED <<types, items, result>>

enumDeclaration(n) ==
  /\ Handler
  /\ ~ Mentioned(n)
  /\ RegisterOrRaise({Plain(n)}, Plain(n), Decl("enum", {}))
  /\ UNCHANGED <<items, handling, result>>

\* to_c_Parameters, then the type returned.
functionWrapper(s) ==
  /\ Handler
  /\ Pend("function", None, s, Append(s.params, s.ret))
  /\ pc' = "demand"
  /\ UNCHANGED <<types, items, result>>

globalVariableHandler(t) ==
  /\ Handler
  /\ IF Known(t) THEN variables' = Append(variables, c_type[t]) /\ UNCHANGED pc
     ELSE Raise(Lookup) /\ UNCHANGED variables
  /\ UNCHANGED <<types, functions, declared, handling, result>>

demand_c_Type_for ==
  /\ pc = "demand" /\ todo # <<>>
  /\ todo' = Tail(todo)
  /\ IF Known(Head(todo)) THEN UNCHANGED <<types, pc>>
     ELSE RegisterOrRaise({Head(todo)}, Head(todo), Decl("unknown", {}))
  /\ UNCHANGED <<items, decls, pending, result>>

\* The signature of the declaration being handled, in C types.
Resolved ==
  LET s == pending.sig IN
  [ret |-> IF s.ret = None THEN None ELSE c_type[s.ret],
   params |-> [j \in 1 .. Len(s.params) |-> c_type[s.params[j]]]]

\* All types of a declaration are there: the function is added to the module,
\* the components to their class, the function pointer to the table.
endDeclaration ==
  /\ pc = "demand" /\ todo = <<>>
  /\ \/ /\ pending.what = "function"
        /\ functions' = Append(functions, Resolved)
        /\ declared' = declared \cup {Resolved}
        /\ UNCHANGED <<types, variables>>
     \/ /\ pending.what = "class"
        /\ decl' = [decl EXCEPT ![pending.type].parts = Range(Resolved.params)]
        /\ UNCHANGED <<c_type, new_types, items>>
     \/ /\ pending.what = "function pointer"
        /\ Register({pending.type}, pending.type,
                    [Decl("function pointer", {}) EXCEPT !.sig = Resolved])
        /\ UNCHANGED items
  /\ pending' = Nothing
  /\ pc' = "parse"
  /\ UNCHANGED <<decls, todo, result>>
-----------------------------------------------------------------------------
(* prune_unknown_C_Types                                                    *)

\* depends_directly_on: a class does not depend on pointers to itself, nor a
\* function pointer on its function's types.
DependsOn(o) == IF Kind(o) = "class" THEN Parts(o) \ {Ptr(o)} ELSE Parts(o)

\* The unknown types are the first of the list.
endOfInput ==
  /\ pc = "parse"
  /\ marked' = {o \in CTypes : Kind(o) = "unknown"}
  /\ pc' = "mark"
  /\ UNCHANGED <<types, items, decls, handling, at, ada, bound>>

\* A type that depends on one of the list is added, in the order of a hashed map.
mark ==
  /\ pc = "mark"
  /\ \E o \in CTypes \ marked :
       /\ DependsOn(o) \cap marked # {}
       /\ marked' = marked \cup {o}
  /\ UNCHANGED <<types, items, decls, pc, handling, at, ada, bound>>

\* What is left of s when the members of M are deleted.
Without(s, M) ==
  LET kept == {j \in 1 .. Len(s) : s[j] \notin M}
      nth(k) == CHOOSE j \in kept : Cardinality({i \in kept : i <= j}) = k
  IN [k \in 1 .. Cardinality(kept) |-> s[nth(k)]]

\* Mutant: the list is not completed.
pruneTypesEarly ==
  /\ pc = "mark"
  /\ new_types' = Without(new_types, marked)
  /\ variables' = Without(variables, marked)
  /\ at' = Len(functions)
  /\ pc' = "prune"
  /\ UNCHANGED <<c_type, decl, functions, declared, decls, handling, marked, ada, bound>>

\* The types of the list and the variables of such types are removed.
pruneTypes ==
  /\ pc = "mark"
  /\ \A o \in CTypes \ marked : DependsOn(o) \cap marked = {}
  /\ new_types' = Without(new_types, marked)
  /\ variables' = Without(variables, marked)
  /\ at' = Len(functions)
  /\ pc' = "prune"
  /\ UNCHANGED <<c_type, decl, functions, declared, decls, handling, marked, ada, bound>>

\* Mutant: only the parameters are looked at.
DeletionsNoResult(f) == Cardinality({j \in 1 .. Len(f.params) : f.params[j] \in marked})

\* Mutant: only the result is looked at.
DeletionsResultOnly(f) == IF f.ret \in marked THEN 1 ELSE 0

\* How often delete is called for the function f: once if its result is not fully
\* known, and once for every such parameter.
Deletions(f) ==
  Cardinality({j \in 1 .. Len(f.params) : f.params[j] \in marked})
    + (IF f.ret \in marked THEN 1 ELSE 0)

\* The functions are visited from the last to the first.  Each call of delete
\* removes what is at the index then; past the end it does nothing.
pruneFunction ==
  /\ pc = "prune" /\ at > 0
  /\ functions' = SubSeq(functions, 1, at - 1)
                    \o SubSeq(functions, at + Deletions(functions[at]), Len(functions))
  /\ at' = at - 1
  /\ UNCHANGED <<types, variables, declared, decls, pc, handling, marked, ada, bound>>

pruned ==
  /\ pc = "prune" /\ at = 0
  /\ at' = 1
  /\ pc' = "transform"
  /\ UNCHANGED <<types, items, decls, handling, marked, ada, bound>>
-----------------------------------------------------------------------------
(* transform                                                                *)

\* The pointers to a class, or to a typedef of one, were made with it.
MadeWithClass(o) ==
  \E p \in Parts(o) :
    \/ Kind(p) = "class"
    \/ Kind(p) = "typedef" /\ \E b \in Parts(p) : Kind(b) = "class"

\* The C types whose Ada types are looked up to make that of o.
Needs(o) ==
  CASE Kind(o) \in {"typedef", "array"}          -> Parts(o)
    [] Kind(o) = "pointer" /\ ~ MadeWithClass(o) -> Parts(o)
    [] Kind(o) = "function pointer"              -> {decl[o].sig.ret}
    [] OTHER                                     -> {}

\* The C types that get an Ada type along with o.  (void*, whose typedefs are made
\* like those of other standard types, is not among the Core types here.)
Makes(o) ==
  LET family == {x \in SwigTypes : InFamily(x, o)} IN
  CASE Kind(o) \in {"class", "function pointer"} -> family
    [] Kind(o) = "typedef" -> IF \E b \in Parts(o) : Kind(b) \in {"class", "pointer"}
                              THEN family ELSE {o}
    [] Kind(o) = "pointer" -> IF MadeWithClass(o) THEN {}
                              ELSE IF \E p \in Parts(o) : Kind(p) = "pointer" THEN {o}
                              ELSE {o, Arr(o), Ptr(o)}
    [] Kind(o) \in {"opaque", "enum", "array"} -> {o}
    [] OTHER -> {}

\* to_ada_Parameters: a parameter whose Ada type is not found is left out.
to_ada_Parameters(ps) == Without(ps, SwigTypes \ ada)

Subprogram(w, f) == [what |-> w, sig |-> f, params |-> to_ada_Parameters(f.params)]

\* Pass 1: an Ada type for the next of the new C types, unless it has one; that of
\* a function pointer comes with a subprogram.
transformType ==
  /\ pc = "transform" /\ at <= Len(new_types)
  /\ LET o == new_types[at] IN
     IF o \notin ada /\ ~ Needs(o) \subseteq ada
     THEN Raise(Lookup) /\ UNCHANGED <<at, ada, bound>>
     ELSE /\ ada' = IF o \in ada THEN ada ELSE ada \cup Makes(o)
          /\ bound' = IF o \notin ada /\ Kind(o) = "function pointer"
                      THEN bound \cup {Subprogram("function pointer", decl[o].sig)} ELSE bound
          /\ at' = at + 1
          /\ UNCHANGED pc
  /\ UNCHANGED <<types, items, decls, handling, marked>>

\* What pass 2 and the passes over variables and functions look up.
MemberTypes ==
  UNION {Parts(o) \cup decl[o].bases : o \in {x \in Range(new_types) : Kind(x) = "class"}}

ItemTypes == Range(variables) \cup {f.ret : f \in Range(functions)}

\* Pass 2: the bases and components of the classes, then all variables and
\* subprograms.
transformMembers ==
  /\ pc = "transform" /\ at > Len(new_types)
  /\ IF MemberTypes \cup ItemTypes \subseteq ada
     THEN /\ bound' = bound \cup {Subprogram("function", f) : f \in Range(functions)}
          /\ pc' = "done"
     ELSE Raise(Lookup) /\ UNCHANGED bound
  /\ UNCHANGED <<types, items, decls, handling, marked, at, ada>>
-----------------------------------------------------------------------------
Next ==
  \/ \E n \in Names :
       \/ classForwardDeclaration(n)
       \/ \E ms \in Members, B \in SUBSET (Names \ {n}) : classHandler(n, ms, B)
       \/ \E t \in Uses : typedefHandler(n, t)
       \/ \E s \in Signatures : functionPointer(n, s)
       \/ enumDeclaration(n)
  \/ \E s \in Signatures : functionWrapper(s)
  \/ \E t \in Uses : globalVariableHandler(t)
  \/ demand_c_Type_for \/ endDeclaration
  \/ endOfInput \/ mark \/ pruneTypes \/ pruneFunction \/ pruned
  \/ transformType \/ transformMembers

Spec == Init /\ [][Next]_vars
-----------------------------------------------------------------------------
(* What the generator guarantees.                                           *)

Sigs == [ret : SwigTypes \cup {None}, params : Seq(SwigTypes)]

\* Whatever the order in which a name, its pointers and its typedefs were
\* registered, demanded and morphed, the C type found for a pointer or an array
\* is the pointer to, or the array of, the C type found for what it refers to
\* (register's inserts in swig_type_Map_of_c_type).
TableConsistent ==
  \A t \in SwigTypes : ~ t[3] /\ Known(t) =>
     /\ Known(Arr(t)) => c_type[Arr(t)] = Arr(c_type[t])
     /\ t[2] < 3 /\ Known(Ptr(t)) => c_type[Ptr(t)] = Ptr(c_type[t])

\* The C types that reach an unknown type in at most k dependencies.
Reaches ==
  LET within[k \in 0 .. Cardinality(CTypes)] ==
        IF k = 0 THEN {o \in CTypes : Kind(o) = "unknown"}
        ELSE LET nearer == within[k - 1] IN
             nearer \cup {o \in CTypes : DependsOn(o) \cap nearer # {}}
  IN within[Cardinality(CTypes)]

\* The loops of prune_unknown_C_Types, which grow the list while they walk it,
\* end with the types that are unknown or depend on an unknown type through any
\* number of others: no type is left out and none is listed without cause.
MarkedExact == pc \in {"prune", "transform", "done"} => marked = Reaches

\* After the pruning no type that was kept depends on a type that was removed, in
\* the sense of depends_directly_on, and no variable or function has one in it,
\* though the functions are deleted from the vector that is being walked.  (The
\* signature of a function pointer and the bases of a class are no dependencies to
\* the code: AdaTypesInOrder and BoundComplete say what becomes of those.)
PrunedClean ==
  pc \in {"transform", "done"} =>
    /\ \A o \in Range(new_types) : (DependsOn(o) \cup {o}) \cap marked = {}
    /\ Range(variables) \cap marked = {}
    /\ \A f \in Range(functions) : (Range(f.params) \cup {f.ret}) \cap marked = {}

\* The types that depends_directly_on overlooks: those that a class of the module
\* derives from.
Bases == UNION {decl[o].bases : o \in {x \in Range(new_types) : Kind(x) = "class"}}

\* The single pass over the new C types meets every type after those whose Ada
\* types it looks up, though types are pruned, morphed and made ahead of their
\* turn; the second pass finds the Ada types of all members, variables and
\* functions.  A lookup fails only for a type that was pruned (transformer.adb), and
\* only for the result of a function pointer or the base of a class.
AdaTypesInOrder ==
  pc = "transform" =>
    IF at <= Len(new_types)
    THEN LET o == new_types[at] IN
         o \notin ada => Needs(o) \ ada \subseteq IF Kind(o) = "function pointer" THEN marked ELSE {}
    ELSE (MemberTypes \cup ItemTypes) \ ada \subseteq Bases \cap marked

\* What to_ada_Parameters leaves out of a subprogram, without a word to the user:
\* nothing of a function, and of a function pointer exactly the parameters whose
\* types were pruned.
BoundComplete ==
  \A b \in bound :
    b.params = IF b.what = "function" THEN b.sig.params ELSE Without(b.sig.params, marked)

\* A function is pruned only because of its own types ("Rid functions from top
\* module whose parameters or return type are not fully known C types").
OnlyUnknownPruned ==
  pc \in {"transform", "done"} =>
    \A f \in declared :
      f \in Range(functions) \/ (Range(f.params) \cup {f.ret}) \cap marked # {}

=============================================================================
