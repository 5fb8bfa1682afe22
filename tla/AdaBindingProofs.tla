------------------------- MODULE AdaBindingProofs ---------------------------
(***************************************************************************)
(* What the Ada back end guarantees for every header: the table of C types *)
(* is consistent (TableConsistent), the list of the types to prune is      *)
(* complete and no longer than it need be (MarkedExact), nothing that is   *)
(* kept depends on what was pruned (PrunedClean), an Ada type is looked up *)
(* in vain only for the result of a function pointer or the base of a class*)
(* that was pruned (AdaTypesInOrder), and to_ada_Parameters drops nothing  *)
(* but the pruned parameters of function pointers (BoundComplete).         *)
(*                                                                         *)
(* The invariant follows the code.  Each name has at most one root, the    *)
(* pointer level at which it was registered; all its swig types map to the *)
(* family of one C type (TableOK).  A C type is declared exactly at the    *)
(* root of such a family (DeclOK), and new_c_Types lists the families as   *)
(* they were made, each type after those that it is made of (OrderOK), a   *)
(* function pointer after the types of its signature (SigOK).  The pruning *)
(* keeps that order, so that the pass over the list finds what it looks up *)
(* (MadeOK) and makes nothing that was pruned (BindInv).                   *)
(***************************************************************************)
EXTENDS AdaBinding, FiniteSetTheorems, FunctionTheorems, SequenceTheorems,
        WellFoundedInduction, TLAPS

\* Where a name can be registered: the swig types that declarations use.
Roots == {t \in SwigTypes : t[2] \in {0, 1} /\ ~ t[3]}

\* The C type of x, when s was registered as the C type o.
Moved(x, s, o) == <<o[1], o[2] + x[2] - s[2], x[3]>>

\* The name of s was registered at s, as the C type o.
Entry(s, o) ==
  \A x \in SwigTypes :
    x[1] = s[1] => c_type[x] = IF InFamily(x, s) THEN Moved(x, s, o) ELSE None

Absent(n) == \A x \in SwigTypes : x[1] = n => c_type[x] = None

TableOK ==
  \A n \in Names \cup Core :
    Absent(n) \/ \E s, o \in Roots : s[1] = n /\ Entry(s, o) /\ Entry(o, o)

Kinds == {"none", "core", "opaque", "class", "typedef", "function pointer", "enum", "unknown"}
Pcs   == {"parse", "demand", "mark", "prune", "transform", "done", Insert, Lookup}

Declarations == [kind : Kinds, parts : SUBSET SwigTypes, bases : SUBSET SwigTypes, sig : Sigs]
UseSigs      == [ret : Uses \cup {None}, params : Seq(Uses)]

TypesTyped ==
  /\ c_type \in [SwigTypes -> SwigTypes \cup {None}]
  /\ decl \in [SwigTypes -> Declarations]
  /\ new_types \in Seq(SwigTypes)

ItemsTyped ==
  /\ variables \in Seq(SwigTypes)
  /\ functions \in Seq([ret : SwigTypes, params : Seq(SwigTypes)])

ControlTyped ==
  /\ pc \in Pcs
  /\ pending \in [what : {"nothing", "function", "class", "function pointer"},
                  type : SwigTypes \cup {None}, sig : UseSigs]
  /\ todo \in Seq(Uses)
  /\ marked \subseteq SwigTypes
  /\ at \in Nat

\* A C type is declared only where a name was registered; the standard types, and
\* only they, are declared as such.
DeclOK ==
  /\ \A x \in SwigTypes : decl[x].kind # "none" => x \in Roots /\ Entry(x, x)
  /\ \A x \in SwigTypes : decl[x].kind = "core" => x \in CoreTypes
  /\ \A x \in CoreTypes : decl[x].kind \in {"none", "core"}

\* The types that a declaration still needs are known or in the list todo.
PendingOK ==
  pc = "demand" =>
    /\ pending.what # "nothing"
    /\ \A j \in 1 .. Len(pending.sig.params) :
         Known(pending.sig.params[j]) \/ pending.sig.params[j] \in Range(todo)
    /\ pending.sig.ret # None => Known(pending.sig.ret) \/ pending.sig.ret \in Range(todo)
    /\ pending.what \in {"function", "function pointer"} => pending.sig.ret # None
    /\ pending.what = "class" => pending.type \in SwigTypes /\ decl[pending.type].kind = "class"
    /\ pending.what = "function pointer" => pending.type \in Roots

\* new_c_Types lists all C types, but for the standard ones and those pruned.
ListedOK ==
  /\ CoreTypes \subseteq CTypes
  /\ Range(new_types) \subseteq CTypes
  /\ CTypes \subseteq CoreTypes \cup Range(new_types) \cup marked

\* The parts that an Ada type is made of must be there before it.
OrderedOf(d, o) ==
  IF d.kind = "none" THEN {<<o[1], IF o[3] THEN o[2] ELSE o[2] - 1, FALSE>>}
  ELSE IF d.kind = "typedef" THEN d.parts ELSE {}

Ordered(o) == OrderedOf(decl[o], o)

OrderOK ==
  \A j \in 1 .. Len(new_types) : \A p \in Ordered(new_types[j]) :
    p \in CoreTypes \/ \E i \in 1 .. j - 1 : new_types[i] = p

TypesOf(f) == Range(f.params) \cup {f.ret}

ItemsOK ==
  /\ Range(variables) \subseteq CTypes
  /\ \A j \in 1 .. Len(functions) : TypesOf(functions[j]) \subseteq CTypes

\* The list not_fully_known_Types while it grows and when it is complete.
Unknowns  == {o \in CTypes : Kind(o) = "unknown"}
Closed(X) == \A o \in CTypes : DependsOn(o) \cap X # {} => o \in X

MarkOK ==
  /\ pc \in {"parse", "demand"} => marked = {}
  /\ pc \in {"mark", "prune", "transform", "done"} =>
       /\ Unknowns \subseteq marked /\ marked \subseteq CTypes
       /\ \A X \in SUBSET CTypes : Unknowns \subseteq X /\ Closed(X) => marked \subseteq X
  /\ pc \in {"prune", "transform", "done"} => Closed(marked)

\* What was removed, when the types are and while the functions are.
Clean(f) == TypesOf(f) \cap marked = {}

CleanOK ==
  /\ pc \in {"prune", "transform", "done"} =>
       Range(new_types) \cap marked = {} /\ Range(variables) \cap marked = {}
  /\ pc = "prune" =>
       at <= Len(functions) /\ \A j \in at + 1 .. Len(functions) : Clean(functions[j])
  /\ pc \in {"transform", "done"} => \A j \in 1 .. Len(functions) : Clean(functions[j])

\* A C type whose pointers are made with it.
OfClass(o) ==
  Kind(o) = "class" \/ (Kind(o) = "typedef" /\ \E b \in Parts(o) : Kind(b) = "class")

\* What the pass over new_c_Types has made: the types before the index, with
\* their pointers if they are classes; of the declared types no others.
MadeOK ==
  /\ CoreTypes \subseteq ada
  /\ pc \in {"mark", "prune"} => ada = CoreTypes
  /\ pc # "prune" =>
       /\ 1 <= at
       /\ \A j \in 1 .. Len(new_types) : j < at =>
            /\ new_types[j] \in ada
            /\ OfClass(new_types[j]) => Ptr(new_types[j]) \in ada
       /\ \A x \in SwigTypes : decl[x].kind # "none" /\ x \in ada =>
            x \in CoreTypes \/ \E j \in 1 .. Len(new_types) : j < at /\ new_types[j] = x
  /\ pc \in {"parse", "demand"} => at = 1 /\ ada = CoreTypes
  /\ pc = "mark" => at = 1
  /\ pc = "done" => at > Len(new_types)

TypesOK == TypesTyped /\ TableOK /\ DeclOK /\ ListedOK /\ OrderOK

Inv ==
  /\ TypesOK /\ ItemsTyped /\ ItemsOK /\ ControlTyped /\ PendingOK
  /\ MarkOK /\ CleanOK /\ MadeOK
-----------------------------------------------------------------------------
(* Swig types, roots and families.                                          *)

LEMMA SwigFacts ==
  ASSUME NEW x \in SwigTypes
  PROVE  /\ x[1] \in Names \cup Core /\ x[2] \in 0 .. 3 /\ x[3] \in BOOLEAN
         /\ x = <<x[1], x[2], x[3]>>
BY DEF SwigTypes

LEMMA TripleIsSwig ==
  ASSUME NEW n \in Names \cup Core, NEW k \in 0 .. 3, NEW b \in BOOLEAN
  PROVE  <<n, k, b>> \in SwigTypes
BY DEF SwigTypes

LEMMA RootFacts ==
  ASSUME NEW s \in Roots
  PROVE  /\ s \in SwigTypes /\ s[1] \in Names \cup Core /\ s[2] \in {0, 1} /\ s[3] = FALSE
         /\ s = <<s[1], s[2], FALSE>>
<1>1. s \in SwigTypes /\ s[2] \in {0, 1} /\ ~ s[3]
  BY DEF Roots
<1>2. s[1] \in Names \cup Core /\ s[3] \in BOOLEAN /\ s = <<s[1], s[2], s[3]>>
  BY <1>1, SwigFacts
<1>3. s[3] = FALSE
  BY <1>1, <1>2, Zenon
<1> QED
  BY <1>1, <1>2, <1>3, Zenon

LEMMA UsesAreRoots == Uses \subseteq Roots
BY AdaBindingAssumption DEF Roots

LEMMA PlainIsRoot == ASSUME NEW n \in Names \cup Core PROVE Plain(n) \in Roots
<1>1. 0 \in 0 .. 3 /\ FALSE \in BOOLEAN
  OBVIOUS
<1>2. Plain(n) \in SwigTypes
  BY <1>1, TripleIsSwig, Zenon DEF Plain
<1>3. Plain(n)[2] = 0 /\ Plain(n)[3] = FALSE
  BY DEF Plain
<1> QED
  BY <1>2, <1>3 DEF Roots

\* The family of a root: three levels of pointers, arrays of the first two.
LEMMA FamilyIs ==
  ASSUME NEW x \in SwigTypes, NEW s \in Roots
  PROVE  InFamily(x, s) <=> /\ x[1] = s[1]
                            /\ x[2] = s[2] \/ x[2] = s[2] + 1 \/ (x[2] = s[2] + 2 /\ ~ x[3])
<1>1. s[2] \in {0, 1} /\ s[3] = FALSE /\ s = <<s[1], s[2], FALSE>>
  BY RootFacts
<1>2. x[2] \in 0 .. 3 /\ x[3] \in BOOLEAN /\ x = <<x[1], x[2], x[3]>>
  BY SwigFacts
<1>3. /\ Family(s)[1] = <<s[1], s[2], FALSE>> /\ Family(s)[2] = <<s[1], s[2], TRUE>>
      /\ Family(s)[3] = <<s[1], s[2] + 1, FALSE>> /\ Family(s)[4] = <<s[1], s[2] + 1, TRUE>>
      /\ Family(s)[5] = <<s[1], s[2] + 1 + 1, FALSE>>
  BY <1>1 DEF Family, Arr, Ptr
<1>4. InFamily(x, s) <=> \/ x = <<s[1], s[2], FALSE>> \/ x = <<s[1], s[2], TRUE>>
                         \/ x = <<s[1], s[2] + 1, FALSE>> \/ x = <<s[1], s[2] + 1, TRUE>>
                         \/ x = <<s[1], s[2] + 1 + 1, FALSE>>
  <2>1. \A j \in 1 .. 5 : j = 1 \/ j = 2 \/ j = 3 \/ j = 4 \/ j = 5
    OBVIOUS
  <2>2. 1 \in 1 .. 5 /\ 2 \in 1 .. 5 /\ 3 \in 1 .. 5 /\ 4 \in 1 .. 5 /\ 5 \in 1 .. 5
    OBVIOUS
  <2> QED
    BY <1>3, <2>1, <2>2, Zenon DEF InFamily
<1>5. s[2] + 1 + 1 = s[2] + 2
  BY <1>1
<1>6. \A k, b : x = <<s[1], k, b>> <=> x[1] = s[1] /\ x[2] = k /\ x[3] = b
  <2>1. ASSUME NEW k, NEW b, x = <<s[1], k, b>> PROVE x[1] = s[1] /\ x[2] = k /\ x[3] = b
    BY <2>1
  <2> QED
    BY <1>2, <2>1, Zenon
<1>7. x[3] = TRUE \/ x[3] = FALSE
  BY <1>2
<1> QED
  BY <1>4, <1>5, <1>6, <1>7, Zenon

\* The family of a root consists of swig types, in the order of Family.
LEMMA FamilySeq ==
  ASSUME NEW s \in Roots
  PROVE  /\ Family(s) \in Seq(SwigTypes) /\ Len(Family(s)) = 5
         /\ Range(Family(s)) = {x \in SwigTypes : InFamily(x, s)}
         /\ Family(s)[1] = s
         /\ Family(s)[2] = Arr(s) /\ Family(s)[3] = Ptr(s)
         /\ Family(s)[4] = Arr(Ptr(s)) /\ Family(s)[5] = Ptr(Ptr(s))
<1>1. s[2] \in {0, 1} /\ s[3] = FALSE /\ s = <<s[1], s[2], FALSE>> /\ s[1] \in Names \cup Core
      /\ s \in SwigTypes
  BY RootFacts
<1>2. /\ Arr(s) \in SwigTypes /\ Ptr(s) \in SwigTypes
      /\ Arr(Ptr(s)) \in SwigTypes /\ Ptr(Ptr(s)) \in SwigTypes
  <2>1. s[2] \in 0 .. 3 /\ s[2] + 1 \in 0 .. 3 /\ s[2] + 1 + 1 \in 0 .. 3
    BY <1>1
  <2> QED
    BY <1>1, <2>1, TripleIsSwig DEF Arr, Ptr
<1>3. /\ Family(s)[1] = s
      /\ Family(s)[2] = Arr(s) /\ Family(s)[3] = Ptr(s)
      /\ Family(s)[4] = Arr(Ptr(s)) /\ Family(s)[5] = Ptr(Ptr(s))
      /\ Len(Family(s)) = 5
  BY DEF Family
<1>4. Family(s) \in Seq(SwigTypes)
  BY <1>1, <1>2 DEF Family
<1>5. Range(Family(s)) = {Family(s)[j] : j \in 1 .. 5}
  BY <1>3, <1>4 DEF Range
<1>6. \A j \in 1 .. 5 : Family(s)[j] \in SwigTypes
  BY <1>3, <1>4, ElementOfSeq
<1> QED
  BY <1>3, <1>4, <1>5, <1>6 DEF InFamily
-----------------------------------------------------------------------------
(* The table.                                                               *)

\* A family is moved level by level.
LEMMA MovedFacts ==
  ASSUME NEW x \in SwigTypes, NEW s \in Roots, NEW o \in Roots, InFamily(x, s)
  PROVE  /\ Moved(x, s, o) \in SwigTypes
         /\ Moved(x, s, o) # None
         /\ InFamily(Moved(x, s, o), o)
         /\ Moved(x, s, s) = x
<1>1. /\ s[2] \in {0, 1} /\ o[2] \in {0, 1} /\ o[1] \in Names \cup Core
  BY RootFacts
<1>2. x[2] \in 0 .. 3 /\ x[3] \in BOOLEAN /\ x = <<x[1], x[2], x[3]>>
  BY SwigFacts
<1>3. x[1] = s[1] /\ (x[2] = s[2] \/ x[2] = s[2] + 1 \/ (x[2] = s[2] + 2 /\ ~ x[3]))
  BY FamilyIs
<1>4. x[2] = s[2] \/ x[2] = s[2] + 1 \/ x[2] = s[2] + 2
  BY <1>3, Zenon
<1> DEFINE k == o[2] + x[2] - s[2]
<1>5. k \in 0 .. 3 /\ (x[2] = s[2] => k = o[2]) /\ (x[2] = s[2] + 1 => k = o[2] + 1)
      /\ (x[2] = s[2] + 2 => k = o[2] + 2) /\ s[2] + x[2] - s[2] = x[2]
  BY <1>1, <1>2, <1>4
<1>6. Moved(x, s, s) = x
  BY <1>2, <1>3, <1>5, Zenon DEF Moved
<1> HIDE DEF k
<1>7. Moved(x, s, o) = <<o[1], k, x[3]>>
  BY DEF Moved, k
<1>8. Moved(x, s, o) \in SwigTypes
  BY <1>1, <1>2, <1>5, <1>7, TripleIsSwig, Zenon
<1>9. <<o[1], k, x[3]>>[1] = o[1] /\ <<o[1], k, x[3]>>[2] = k /\ <<o[1], k, x[3]>>[3] = x[3]
  BY Zenon
<1>10. InFamily(Moved(x, s, o), o)
  BY <1>3, <1>5, <1>7, <1>8, <1>9, FamilyIs, Zenon
<1> QED
  BY <1>6, <1>8, <1>10, AdaBindingAssumption, Zenon

\* The second level is in the family of each root of the name.
LEMMA Meet ==
  ASSUME NEW s \in Roots, NEW t \in Roots, s[1] = t[1]
  PROVE  \E x \in SwigTypes : InFamily(x, s) /\ InFamily(x, t)
<1> DEFINE x == <<s[1], 1, FALSE>>
<1>1. /\ s[2] \in {0, 1} /\ t[2] \in {0, 1} /\ s[1] \in Names \cup Core
  BY RootFacts
<1>2. 1 \in 0 .. 3 /\ FALSE \in BOOLEAN
  OBVIOUS
<1>3. x \in SwigTypes
  BY <1>1, <1>2, TripleIsSwig, Zenon
<1>4. x[1] = s[1] /\ x[2] = 1
  OBVIOUS
<1>5. (1 = s[2] \/ 1 = s[2] + 1) /\ (1 = t[2] \/ 1 = t[2] + 1)
  BY <1>1
<1> HIDE DEF x
<1>6. InFamily(x, s) /\ InFamily(x, t)
  BY <1>3, <1>4, <1>5, FamilyIs, Zenon
<1> QED
  BY <1>3, <1>6

\* A name that has a known swig type has a root.
LEMMA KnownEntry ==
  ASSUME TableOK, NEW x \in SwigTypes, Known(x)
  PROVE  \E s, o \in Roots :
           /\ s[1] = x[1] /\ Entry(s, o) /\ Entry(o, o) /\ InFamily(x, s)
           /\ c_type[x] = Moved(x, s, o)
<1>1. x[1] \in Names \cup Core /\ c_type[x] # None
  BY SwigFacts DEF Known
<1>2. ~ Absent(x[1])
  BY <1>1 DEF Absent
<1>3. PICK s \in Roots, o \in Roots : s[1] = x[1] /\ Entry(s, o) /\ Entry(o, o)
  BY <1>1, <1>2 DEF TableOK
<1>4. InFamily(x, s) /\ c_type[x] = Moved(x, s, o)
  BY <1>1, <1>3 DEF Entry
<1> QED
  BY <1>3, <1>4

\* A C type is the C type of itself.
LEMMA Canonical ==
  ASSUME TableOK
  PROVE  /\ \A y \in CTypes : y \in SwigTypes /\ c_type[y] = y /\ y # None
         /\ \A y \in SwigTypes : c_type[y] = y => y \in CTypes
         /\ \A x \in SwigTypes : Known(x) => c_type[x] \in CTypes
<1>1. ASSUME NEW y \in CTypes PROVE y \in SwigTypes /\ c_type[y] = y /\ y # None
  <2>1. PICK x \in SwigTypes : Known(x) /\ y = c_type[x]
    BY DEF CTypes
  <2>2. PICK s \in Roots, o \in Roots : Entry(o, o) /\ InFamily(x, s) /\ y = Moved(x, s, o)
    BY <2>1, KnownEntry
  <2>3. y \in SwigTypes /\ y # None /\ InFamily(y, o)
    BY <2>2, MovedFacts
  <2>4. Moved(y, o, o) = y /\ y[1] = o[1]
    BY <2>3, MovedFacts, FamilyIs
  <2>5. c_type[y] = Moved(y, o, o)
    BY <2>2, <2>3, <2>4 DEF Entry
  <2> QED
    BY <2>3, <2>4, <2>5
<1>2. ASSUME NEW y \in SwigTypes, c_type[y] = y PROVE y \in CTypes
  <2>1. y # None
    BY AdaBindingAssumption
  <2> QED
    BY <1>2, <2>1 DEF CTypes, Known
<1>3. \A x \in SwigTypes : Known(x) => c_type[x] \in CTypes
  BY DEF CTypes
<1> QED
  BY <1>1, <1>2, <1>3

\* What the table promises.
LEMMA TableIsConsistent == TableOK => TableConsistent
<1> SUFFICES ASSUME TableOK, NEW t \in SwigTypes, ~ t[3], Known(t)
             PROVE  /\ Known(Arr(t)) => c_type[Arr(t)] = Arr(c_type[t])
                    /\ t[2] < 3 /\ Known(Ptr(t)) => c_type[Ptr(t)] = Ptr(c_type[t])
  BY Zenon DEF TableConsistent
<1>1. PICK s \in Roots, o \in Roots :
        s[1] = t[1] /\ Entry(s, o) /\ InFamily(t, s) /\ c_type[t] = Moved(t, s, o)
  BY KnownEntry
<1>2. /\ s[2] \in {0, 1} /\ o[2] \in {0, 1}
      /\ t[1] \in Names \cup Core /\ t[2] \in 0 .. 3 /\ t = <<t[1], t[2], t[3]>>
  BY RootFacts, SwigFacts
<1>3. ASSUME NEW x \in SwigTypes, x[1] = t[1], Known(x)
      PROVE  c_type[x] = <<o[1], o[2] + x[2] - s[2], x[3]>>
  BY <1>1, <1>3 DEF Entry, Known, Moved
<1>4. c_type[t] = <<o[1], o[2] + t[2] - s[2], t[3]>>
  BY <1>1 DEF Moved
<1>5. ASSUME Known(Arr(t)) PROVE c_type[Arr(t)] = Arr(c_type[t])
  <2>1. Arr(t) \in SwigTypes
    BY <1>2, TripleIsSwig, Zenon DEF Arr
  <2>2. Arr(t)[1] = t[1] /\ Arr(t)[2] = t[2] /\ Arr(t)[3] = TRUE
    BY DEF Arr
  <2>3. c_type[Arr(t)] = <<o[1], o[2] + t[2] - s[2], TRUE>>
    BY <1>3, <1>5, <2>1, <2>2, Zenon
  <2>4. Arr(c_type[t]) = <<o[1], o[2] + t[2] - s[2], TRUE>>
    BY <1>4 DEF Arr
  <2> QED
    BY <2>3, <2>4
<1>6. ASSUME t[2] < 3, Known(Ptr(t)) PROVE c_type[Ptr(t)] = Ptr(c_type[t])
  <2>0. t[2] + 1 \in 0 .. 3 /\ FALSE \in BOOLEAN
    BY <1>2, <1>6
  <2>1. Ptr(t) \in SwigTypes
    BY <1>2, <2>0, TripleIsSwig, Zenon DEF Ptr
  <2>2. Ptr(t)[1] = t[1] /\ Ptr(t)[2] = t[2] + 1 /\ Ptr(t)[3] = FALSE
    BY DEF Ptr
  <2>3. c_type[Ptr(t)] = <<o[1], o[2] + (t[2] + 1) - s[2], FALSE>>
    BY <1>3, <1>6, <2>1, <2>2, Zenon
  <2>4. Ptr(c_type[t]) = <<o[1], (o[2] + t[2] - s[2]) + 1, FALSE>>
    BY <1>4 DEF Ptr
  <2>5. o[2] + (t[2] + 1) - s[2] = (o[2] + t[2] - s[2]) + 1
    BY <1>2
  <2> QED
    BY <2>3, <2>4, <2>5
<1> QED
  BY <1>5, <1>6
-----------------------------------------------------------------------------
(* register.                                                                *)

\* The swig types that register is called for have different names, and the
\* first of them stands for the C type.
Registers(S, o) == S \in SUBSET Roots /\ o \in S /\ \A t, u \in S : t[1] = u[1] => t = u

\* The table after register: c stands for c_type'.
Registered(c, S, o) ==
  /\ \A x \in SwigTypes, s \in S : InFamily(x, s) => c[x] = Moved(x, s, o) /\ ~ Known(x)
  /\ \A x \in SwigTypes : (\A s \in S : ~ InFamily(x, s)) => c[x] = c_type[x]

LEMMA RegisterMeans ==
  ASSUME NEW S, NEW o, NEW d, Registers(S, o), Register(S, o, d)
  PROVE  Registered(c_type', S, o)
<1>1. \A x \in SwigTypes :
        c_type'[x] = IF \E t \in S : InFamily(x, t)
                     THEN LET t == CHOOSE t \in S : InFamily(x, t)
                          IN <<o[1], o[2] + x[2] - t[2], x[3]>>
                     ELSE c_type[x]
  BY DEF Register
<1>2. ASSUME NEW x \in SwigTypes, NEW s \in S, InFamily(x, s)
      PROVE  c_type'[x] = Moved(x, s, o)
  <2> DEFINE t == CHOOSE t \in S : InFamily(x, t)
  <2>1. t \in S /\ InFamily(x, t)
    BY <1>2
  <2>2. c_type'[x] = <<o[1], o[2] + x[2] - t[2], x[3]>>
    BY <1>1, <1>2
  <2> HIDE DEF t
  <2>3. t \in Roots /\ s \in Roots
    BY <2>1 DEF Registers
  <2>4. t[1] = s[1]
    BY <1>2, <2>1, <2>3, FamilyIs
  <2>5. t = s
    BY <2>1, <2>4 DEF Registers
  <2> QED
    BY <2>2, <2>5 DEF Moved
<1>3. \A x \in SwigTypes, s \in S : InFamily(x, s) => ~ Known(x)
  BY DEF Register, Clashes
<1>4. \A x \in SwigTypes : (\A s \in S : ~ InFamily(x, s)) => c_type'[x] = c_type[x]
  BY <1>1
<1> QED
  BY <1>2, <1>3, <1>4 DEF Registered

\* The names were absent, for the families of two roots of a name meet.
LEMMA WasAbsent ==
  ASSUME TableOK, NEW S, NEW o, NEW c, Registers(S, o), Registered(c, S, o), NEW s \in S
  PROVE  Absent(s[1])
<1>1. s \in Roots
  BY DEF Registers
<1>2. s[1] \in Names \cup Core
  BY <1>1, RootFacts
<1> SUFFICES ASSUME ~ Absent(s[1]) PROVE FALSE
  OBVIOUS
<1>3. PICK t \in Roots, u \in Roots : t[1] = s[1] /\ Entry(t, u)
  BY <1>2 DEF TableOK
<1>4. PICK x \in SwigTypes : InFamily(x, s) /\ InFamily(x, t)
  BY <1>1, <1>3, Meet
<1>5. c_type[x] = Moved(x, t, u) /\ Moved(x, t, u) # None
  BY <1>3, <1>4, FamilyIs, MovedFacts DEF Entry
<1> QED
  BY <1>4, <1>5 DEF Registered, Known

\* register keeps the table in order.
LEMMA RegisterTable ==
  ASSUME TableOK, NEW S, NEW o, Registers(S, o), Registered(c_type', S, o)
  PROVE  /\ TableOK'
         /\ \A s \in S : Entry(s, o)'
         /\ \A s \in Roots, u \in Roots : Entry(s, u) => Entry(s, u)'
         /\ \A x \in SwigTypes : Known(x) => c_type'[x] = c_type[x]
         /\ CTypes' = CTypes \cup Range(Family(o))
<1>0. S \subseteq Roots /\ o \in S /\ o \in Roots
  BY DEF Registers
<1>1. ASSUME NEW s \in S PROVE Entry(s, o)'
  <2> SUFFICES ASSUME NEW x \in SwigTypes, x[1] = s[1]
               PROVE  c_type'[x] = IF InFamily(x, s) THEN Moved(x, s, o) ELSE None
    BY DEF Entry, InFamily
  <2>1. CASE InFamily(x, s)
    BY <2>1 DEF Registered
  <2>2. CASE ~ InFamily(x, s)
    <3>1. \A u \in S : InFamily(x, u) => u[1] = x[1]
      BY <1>0, FamilyIs
    <3>2. \A u \in S : ~ InFamily(x, u)
      BY <2>2, <3>1 DEF Registers
    <3>3. c_type'[x] = c_type[x]
      BY <3>2 DEF Registered
    <3>4. c_type[x] = None
      BY WasAbsent DEF Absent
    <3> QED
      BY <2>2, <3>3, <3>4
  <2> QED
    BY <2>1, <2>2
<1>2. ASSUME NEW n, \A s \in S : s[1] # n
      PROVE  \A x \in SwigTypes : x[1] = n => c_type'[x] = c_type[x]
  <2>1. \A x \in SwigTypes, s \in S : InFamily(x, s) => x[1] = s[1]
    BY <1>0, FamilyIs
  <2> QED
    BY <1>2, <2>1 DEF Registered
<1>3. ASSUME NEW s \in Roots, NEW u \in Roots, Entry(s, u) PROVE Entry(s, u)' /\ \A t \in S : t[1] # s[1]
  <2>1. ASSUME NEW t \in S, t[1] = s[1] PROVE FALSE
    <3>1. Absent(s[1])
      BY <2>1, WasAbsent
    <3>2. PICK x \in SwigTypes : InFamily(x, s)
      BY Meet
    <3>3. x[1] = s[1] /\ c_type[x] = Moved(x, s, u) /\ Moved(x, s, u) # None
      BY <1>3, <3>2, FamilyIs, MovedFacts DEF Entry
    <3> QED
      BY <3>1, <3>3 DEF Absent
  <2>2. \A x \in SwigTypes : x[1] = s[1] => c_type'[x] = c_type[x]
    BY <1>2, <2>1
  <2> QED
    BY <1>3, <2>1, <2>2 DEF Entry, InFamily
<1>4. TableOK'
  <2> SUFFICES ASSUME NEW n \in Names \cup Core
               PROVE  Absent(n)' \/ \E s, u \in Roots : s[1] = n /\ Entry(s, u)' /\ Entry(u, u)'
    BY Zenon DEF TableOK
  <2>1. CASE \E s \in S : s[1] = n
    BY <1>0, <1>1, <2>1
  <2>2. CASE ~ \E s \in S : s[1] = n
    <3>1. CASE Absent(n)
      BY <1>2, <2>2, <3>1 DEF Absent
    <3>2. CASE \E s, u \in Roots : s[1] = n /\ Entry(s, u) /\ Entry(u, u)
      BY <1>3, <3>2
    <3> QED
      BY <3>1, <3>2 DEF TableOK
  <2> QED
    BY <2>1, <2>2
<1>5. \A x \in SwigTypes : Known(x) => c_type'[x] = c_type[x]
  BY DEF Registered
<1>6. CTypes' = CTypes \cup Range(Family(o))
  <2>1. ASSUME NEW y \in CTypes' PROVE y \in CTypes \cup Range(Family(o))
    <3>1. PICK x \in SwigTypes : c_type'[x] # None /\ y = c_type'[x]
      BY <2>1 DEF CTypes, Known
    <3>2. CASE \E s \in S : InFamily(x, s)
      <4>1. PICK s \in S : InFamily(x, s)
        BY <3>2
      <4>2. y = Moved(x, s, o)
        BY <3>1, <4>1 DEF Registered
      <4>3. y \in SwigTypes /\ InFamily(y, o)
        BY <1>0, <4>1, <4>2, MovedFacts
      <4> QED
        BY <1>0, <4>3, FamilySeq
    <3>3. CASE \A s \in S : ~ InFamily(x, s)
      BY <3>1, <3>3 DEF Registered, CTypes, Known
    <3> QED
      BY <3>2, <3>3
  <2>2. ASSUME NEW y \in CTypes PROVE y \in CTypes'
    <3>1. y \in SwigTypes /\ c_type[y] = y /\ y # None
      BY Canonical
    <3>2. c_type'[y] = y
      BY <1>5, <3>1 DEF Known
    <3> QED
      BY <3>1, <3>2 DEF CTypes, Known
  <2>3. ASSUME NEW y \in Range(Family(o)) PROVE y \in CTypes'
    <3>1. y \in SwigTypes /\ InFamily(y, o)
      BY <1>0, FamilySeq
    <3>2. c_type'[y] = Moved(y, o, o) /\ Moved(y, o, o) = y
      BY <1>0, <3>1, MovedFacts DEF Registered
    <3>3. y # None
      BY <3>1, AdaBindingAssumption
    <3> QED
      BY <3>1, <3>2, <3>3 DEF CTypes, Known
  <2> QED
    BY <2>1, <2>2, <2>3
<1> QED
  BY <1>1, <1>3, <1>4, <1>5, <1>6
-----------------------------------------------------------------------------
(* What deleting the members of a set leaves of a vector.                   *)

UpTo(K, j) == {i \in K : i <= j}

LEMMA UpToFinite ==
  ASSUME NEW K, IsFiniteSet(K), NEW j
  PROVE  /\ Cardinality(K) \in Nat
         /\ IsFiniteSet(UpTo(K, j)) /\ Cardinality(UpTo(K, j)) \in Nat
         /\ Cardinality(UpTo(K, j)) <= Cardinality(K)
<1>1. IsFiniteSet(UpTo(K, j)) /\ Cardinality(UpTo(K, j)) <= Cardinality(K)
  BY FS_Subset DEF UpTo
<1> QED
  BY <1>1, FS_CardinalityType

LEMMA UpToGrows ==
  ASSUME NEW K \in SUBSET Int, IsFiniteSet(K), NEW i \in K, NEW j \in K, i < j
  PROVE  Cardinality(UpTo(K, i)) < Cardinality(UpTo(K, j))
<1>1. j \notin UpTo(K, i)
  BY DEF UpTo
<1>2. UpTo(K, i) \cup {j} \in SUBSET UpTo(K, j)
  <2>1. \A k \in K : k <= i => k <= j
    OBVIOUS
  <2>2. j <= j
    OBVIOUS
  <2> QED
    BY <2>1, <2>2, Zenon DEF UpTo
<1>3. /\ IsFiniteSet(UpTo(K, i)) /\ Cardinality(UpTo(K, i)) \in Nat
      /\ IsFiniteSet(UpTo(K, j)) /\ Cardinality(UpTo(K, j)) \in Nat
  BY UpToFinite, Zenon
<1>4. Cardinality(UpTo(K, i) \cup {j}) = Cardinality(UpTo(K, i)) + 1
  BY <1>1, <1>3, FS_AddElement
<1>5. Cardinality(UpTo(K, i) \cup {j}) <= Cardinality(UpTo(K, j))
  BY <1>2, <1>3, FS_Subset
<1> QED
  BY <1>3, <1>4, <1>5

\* Every number up to that of the members of K is the place of exactly one.
LEMMA Places ==
  ASSUME NEW K \in SUBSET Int, IsFiniteSet(K)
  PROVE  /\ \A i, j \in K : Cardinality(UpTo(K, i)) = Cardinality(UpTo(K, j)) => i = j
         /\ \A j \in K : Cardinality(UpTo(K, j)) \in 1 .. Cardinality(K)
         /\ \A k \in 1 .. Cardinality(K) : \E j \in K : Cardinality(UpTo(K, j)) = k
<1> DEFINE N == Cardinality(K)
           B == 1 .. N
           r == [j \in K |-> Cardinality(UpTo(K, j))]
<1>1. N \in Nat
  BY UpToFinite
<1>2. ASSUME NEW i \in K, NEW j \in K, Cardinality(UpTo(K, i)) = Cardinality(UpTo(K, j))
      PROVE  i = j
  <2>1. i \in Int /\ j \in Int
    OBVIOUS
  <2>2. /\ i < j => Cardinality(UpTo(K, i)) < Cardinality(UpTo(K, j))
        /\ j < i => Cardinality(UpTo(K, j)) < Cardinality(UpTo(K, i))
    BY UpToGrows, Zenon
  <2>3. Cardinality(UpTo(K, j)) \in Nat
    BY UpToFinite, Zenon
  <2> QED
    BY <1>2, <2>1, <2>2, <2>3
<1>3. ASSUME NEW j \in K PROVE Cardinality(UpTo(K, j)) \in B
  <2>1. j \in UpTo(K, j)
    BY DEF UpTo
  <2>2. /\ IsFiniteSet(UpTo(K, j)) /\ Cardinality(UpTo(K, j)) \in Nat
        /\ Cardinality(UpTo(K, j)) <= N
    BY UpToFinite, Zenon
  <2>3. Cardinality(UpTo(K, j)) # 0
    BY <2>1, <2>2, FS_EmptySet
  <2> QED
    BY <1>1, <2>2, <2>3
<1>4. IsFiniteSet(B) /\ Cardinality(B) = N
  BY <1>1, FS_Interval
<1>5. r \in Injection(K, B)
  BY <1>2, <1>3, Zenon DEF Injection, IsInjective
<1>6. r \in Surjection(K, B)
  <2> HIDE DEF r, B
  <2> QED
    BY <1>4, <1>5, FS_Injection
<1>7. ASSUME NEW k \in B PROVE \E j \in K : Cardinality(UpTo(K, j)) = k
  <2>1. \A t \in B : \E j \in K : r[j] = t
    BY <1>6, Zenon DEF Surjection
  <2>2. PICK j \in K : r[j] = k
    BY <2>1
  <2> QED
    BY <2>2
<1> QED
  BY <1>2, <1>3, <1>7

\* The elements of w are those of s that are not in M, and f gives their places.
Keeps(w, s, M, f) ==
  /\ f \in [1 .. Len(w) -> 1 .. Len(s)]
  /\ \A k \in 1 .. Len(w) : w[k] = s[f[k]] /\ w[k] \notin M
  /\ \A k, l \in 1 .. Len(w) : k < l => f[k] < f[l]
  /\ \A j \in 1 .. Len(s) : s[j] \notin M => \E k \in 1 .. Len(w) : f[k] = j

LEMMA WithoutKeeps ==
  ASSUME NEW A, NEW s \in Seq(A), NEW M
  PROVE  Without(s, M) \in Seq(A) /\ \E f : Keeps(Without(s, M), s, M, f)
<1> DEFINE K == {j \in 1 .. Len(s) : s[j] \notin M}
           N == Cardinality(K)
           e(k) == CHOOSE j \in K : Cardinality(UpTo(K, j)) = k
           f == [k \in 1 .. N |-> e(k)]
           w == Without(s, M)
<1>0. /\ Len(s) \in Nat /\ \A j \in 1 .. Len(s) : s[j] \in A
      /\ K \in SUBSET (1 .. Len(s)) /\ K \in SUBSET Int /\ IsFiniteSet(K)
  <2>1. Len(s) \in Nat /\ \A j \in 1 .. Len(s) : s[j] \in A
    OBVIOUS
  <2>2. K \in SUBSET (1 .. Len(s)) /\ K \in SUBSET Int
    BY <2>1
  <2>3. IsFiniteSet(1 .. Len(s))
    BY <2>1, FS_Interval
  <2> HIDE DEF K
  <2> QED
    BY <2>1, <2>2, <2>3, FS_Subset
<1>1. w = [k \in 1 .. N |-> s[e(k)]]
  BY DEF Without, UpTo
<1> HIDE DEF w, K
<1>2. N \in Nat
  BY <1>0, UpToFinite
<1>3. ASSUME NEW k \in 1 .. N PROVE e(k) \in K /\ Cardinality(UpTo(K, e(k))) = k
  <2>1. \E j \in K : Cardinality(UpTo(K, j)) = k
    BY <1>0, Places
  <2> QED
    BY <2>1
<1> HIDE DEF e
<1>4. \A k \in 1 .. N : s[e(k)] \in A /\ s[e(k)] \notin M /\ e(k) \in 1 .. Len(s)
  BY <1>0, <1>3 DEF K
<1>5. w \in Seq(A) /\ Len(w) = N
  BY <1>1, <1>2, <1>4
<1>6. ASSUME NEW k \in 1 .. N, NEW l \in 1 .. N, k < l PROVE f[k] < f[l]
  <2>1. /\ e(k) \in K /\ e(l) \in K /\ e(k) \in Int /\ e(l) \in Int
        /\ Cardinality(UpTo(K, e(k))) = k /\ Cardinality(UpTo(K, e(l))) = l
    BY <1>3, <1>4
  <2>2. e(l) < e(k) => Cardinality(UpTo(K, e(l))) < Cardinality(UpTo(K, e(k)))
    BY <1>0, <2>1, UpToGrows, Zenon
  <2>3. e(k) # e(l) /\ ~ (e(l) < e(k))
    BY <1>6, <2>1, <2>2
  <2> QED
    BY <2>1, <2>3
<1>7. ASSUME NEW j \in 1 .. Len(s), s[j] \notin M PROVE \E k \in 1 .. N : f[k] = j
  <2>1. j \in K
    BY <1>7 DEF K
  <2>2. Cardinality(UpTo(K, j)) \in 1 .. N
    BY <1>0, <2>1, Places, Zenon
  <2> DEFINE c == Cardinality(UpTo(K, j))
  <2>3. e(c) \in K /\ Cardinality(UpTo(K, e(c))) = Cardinality(UpTo(K, j))
    BY <1>3, <2>2
  <2>4. e(c) = j
    BY <1>0, <2>1, <2>3, Places, Zenon
  <2> QED
    BY <2>2, <2>4
<1>8. f \in [1 .. N -> 1 .. Len(s)] /\ \A k \in 1 .. N : w[k] = s[f[k]] /\ w[k] \notin M
  BY <1>1, <1>4
<1> HIDE DEF f
<1>9. Keeps(w, s, M, f)
  BY <1>5, <1>6, <1>7, <1>8 DEF Keeps
<1> QED
  BY <1>5, <1>9 DEF w
-----------------------------------------------------------------------------
(* What register, and the morphing of a class, do to the C types.           *)

\* The declarations that handlers make.
Declares(d) ==
  /\ d \in Declarations /\ d.kind \notin {"none", "core"}
  /\ d.kind = "typedef" => d.parts \subseteq CTypes

LEMMA DeclFacts ==
  ASSUME NEW k \in Kinds, NEW ps \in SUBSET SwigTypes
  PROVE  Decl(k, ps) \in Declarations /\ Decl(k, ps).kind = k /\ Decl(k, ps).parts = ps
<1>1. NoSig \in Sigs
  <2>1. <<>> \in Seq(SwigTypes)
    OBVIOUS
  <2> QED
    BY <2>1 DEF NoSig, Sigs
<1> QED
  BY <1>1 DEF Decl, Declarations

LEMMA PartOf ==
  ASSUME NEW d, d.kind = "none", NEW n, NEW k
  PROVE  /\ OrderedOf(d, <<n, k, TRUE>>) = {<<n, k, FALSE>>}
         /\ OrderedOf(d, <<n, k, FALSE>>) = {<<n, k - 1, FALSE>>}
<1>1. /\ <<n, k, TRUE>>[1] = n /\ <<n, k, TRUE>>[2] = k /\ <<n, k, TRUE>>[3] = TRUE
      /\ <<n, k, FALSE>>[1] = n /\ <<n, k, FALSE>>[2] = k /\ <<n, k, FALSE>>[3] = FALSE
  BY Zenon
<1> QED
  BY <1>1, Zenon DEF OrderedOf

\* The parts of a family's types are of the family, and before them.
LEMMA FamilyParts ==
  ASSUME NEW o \in Roots, NEW d, d.kind = "none", NEW k \in 2 .. 5,
         NEW p \in OrderedOf(d, Family(o)[k])
  PROVE  p = Family(o)[1] \/ (p = Family(o)[3] /\ k \in {4, 5})
<1>1. o[2] \in {0, 1} /\ o = <<o[1], o[2], FALSE>>
  BY RootFacts
<1>2. /\ Family(o)[1] = <<o[1], o[2], FALSE>> /\ Family(o)[2] = <<o[1], o[2], TRUE>>
      /\ Family(o)[3] = <<o[1], o[2] + 1, FALSE>> /\ Family(o)[4] = <<o[1], o[2] + 1, TRUE>>
      /\ Family(o)[5] = <<o[1], o[2] + 1 + 1, FALSE>>
  BY <1>1 DEF Family, Arr, Ptr
<1>4. (o[2] + 1) - 1 = o[2] /\ (o[2] + 1 + 1) - 1 = o[2] + 1
  BY <1>1
<1>5. /\ OrderedOf(d, <<o[1], o[2], TRUE>>) = {<<o[1], o[2], FALSE>>}
      /\ OrderedOf(d, <<o[1], o[2] + 1, FALSE>>) = {<<o[1], (o[2] + 1) - 1, FALSE>>}
      /\ OrderedOf(d, <<o[1], o[2] + 1, TRUE>>) = {<<o[1], o[2] + 1, FALSE>>}
      /\ OrderedOf(d, <<o[1], o[2] + 1 + 1, FALSE>>) = {<<o[1], (o[2] + 1 + 1) - 1, FALSE>>}
  <2>1. \A n, l : /\ OrderedOf(d, <<n, l, TRUE>>) = {<<n, l, FALSE>>}
                   /\ OrderedOf(d, <<n, l, FALSE>>) = {<<n, l - 1, FALSE>>}
    BY PartOf
  <2>2. OrderedOf(d, <<o[1], o[2], TRUE>>) = {<<o[1], o[2], FALSE>>}
    BY <2>1
  <2>3. OrderedOf(d, <<o[1], o[2] + 1, FALSE>>) = {<<o[1], (o[2] + 1) - 1, FALSE>>}
    BY <2>1
  <2>4. OrderedOf(d, <<o[1], o[2] + 1, TRUE>>) = {<<o[1], o[2] + 1, FALSE>>}
    BY <2>1
  <2>5. OrderedOf(d, <<o[1], o[2] + 1 + 1, FALSE>>) = {<<o[1], (o[2] + 1 + 1) - 1, FALSE>>}
    BY <2>1
  <2> QED
    BY <2>2, <2>3, <2>4, <2>5
<1>6. /\ OrderedOf(d, Family(o)[2]) = {Family(o)[1]} /\ OrderedOf(d, Family(o)[3]) = {Family(o)[1]}
      /\ OrderedOf(d, Family(o)[4]) = {Family(o)[3]} /\ OrderedOf(d, Family(o)[5]) = {Family(o)[3]}
  BY <1>2, <1>4, <1>5, Zenon
<1>7. k = 2 \/ k = 3 \/ k = 4 \/ k = 5
  OBVIOUS
<1> QED
  BY <1>6, <1>7, Zenon

\* register.
LEMMA RegisterTypes ==
  ASSUME TypesOK, marked = {}, NEW S, NEW o, NEW d, Registers(S, o), Declares(d),
         Register(S, o, d), marked' = marked
  PROVE  /\ TypesOK' /\ CTypes \subseteq CTypes'
         /\ \A s \in S : Known(s)'
         /\ \A x \in SwigTypes : Known(x) => Known(x)' /\ decl'[x] = decl[x]
         /\ decl'[o] = d /\ o \in SwigTypes
<1>0. Registered(c_type', S, o) /\ o \in S /\ S \subseteq Roots
  BY RegisterMeans DEF Registers
<1>r. o \in Roots /\ o \in SwigTypes /\ InFamily(o, o)
  <2>1. o \in Roots /\ o \in SwigTypes
    BY <1>0, RootFacts
  <2> QED
    BY <2>1, FamilyIs
<1>t. TableOK /\ TypesTyped /\ DeclOK /\ ListedOK /\ OrderOK
  BY DEF TypesOK
<1>1. /\ TableOK'
      /\ \A s \in S : Entry(s, o)'
      /\ \A s \in Roots, u \in Roots : Entry(s, u) => Entry(s, u)'
      /\ \A x \in SwigTypes : Known(x) => c_type'[x] = c_type[x]
      /\ CTypes' = CTypes \cup Range(Family(o))
  BY <1>0, <1>t, RegisterTable
<1>2. \A y \in CTypes : y \in SwigTypes /\ c_type[y] = y /\ y # None
  BY <1>t, Canonical
<1>3. \A x \in SwigTypes : InFamily(x, o) => ~ Known(x)
  BY <1>0 DEF Registered
<1>4. /\ decl' = [decl EXCEPT ![o] = d] /\ new_types' = new_types \o Family(o)
  BY DEF Register
<1>5. /\ decl' \in [SwigTypes -> Declarations] /\ decl'[o] = d
      /\ \A x \in SwigTypes : x # o => decl'[x] = decl[x]
  BY <1>r, <1>t, <1>4 DEF TypesTyped, Declares
<1>6. TypesTyped'
  <2>1. c_type' \in [SwigTypes -> SwigTypes \cup {None}]
    <3>1. \E t : c_type' = [x \in SwigTypes |-> t[x]]
      <4> DEFINE t == [x \in SwigTypes |-> IF \E t \in S : InFamily(x, t)
                     THEN LET t == CHOOSE t \in S : InFamily(x, t)
                          IN <<o[1], o[2] + x[2] - t[2], x[3]>>
                     ELSE c_type[x]]
      <4>1. c_type' = t
        BY DEF Register
      <4>2. t = [x \in SwigTypes |-> t[x]]
        OBVIOUS
      <4> HIDE DEF t
      <4> QED
        BY <4>1, <4>2
    <3>2. ASSUME NEW x \in SwigTypes PROVE c_type'[x] \in SwigTypes \cup {None}
      <4>1. CASE \E s \in S : InFamily(x, s)
        BY <1>0, <1>r, <4>1, MovedFacts DEF Registered
      <4>2. CASE \A s \in S : ~ InFamily(x, s)
        BY <1>0, <1>t, <4>2 DEF Registered, TypesTyped
      <4> QED
        BY <4>1, <4>2
    <3> QED
      BY <3>1, <3>2
  <2>2. new_types' \in Seq(SwigTypes)
    BY <1>r, <1>t, <1>4, FamilySeq, ConcatProperties DEF TypesTyped
  <2> QED
    BY <1>5, <2>1, <2>2 DEF TypesTyped
<1>7. \A x \in SwigTypes : Known(x) => Known(x)' /\ decl'[x] = decl[x]
  BY <1>r, <1>1, <1>3, <1>5 DEF Known
<1>8. \A s \in S : Known(s)'
  <2>1. ASSUME NEW s \in S PROVE Known(s)'
    <3>1. s \in Roots /\ s \in SwigTypes
      BY <1>0, RootFacts
    <3>2. InFamily(s, s)
      BY <3>1, FamilyIs
    <3>3. c_type'[s] = Moved(s, s, o) /\ Moved(s, s, o) # None
      BY <1>0, <1>r, <3>1, <3>2, MovedFacts DEF Registered
    <3> QED
      BY <3>3 DEF Known
  <2> QED
    BY <2>1
<1>9. DeclOK'
  <2>0. CoreTypes' = CoreTypes /\ o \notin CoreTypes
    <3>1. CoreTypes' = CoreTypes
      BY DEF CoreTypes, InFamily
    <3>2. c_type[o] = None
      BY <1>r, <1>3 DEF Known
    <3> QED
      BY <1>t, <1>2, <3>1, <3>2 DEF ListedOK
  <2>1. ASSUME NEW x \in SwigTypes, decl'[x].kind # "none" PROVE x \in Roots /\ Entry(x, x)'
    <3>1. CASE x = o
      BY <1>0, <1>r, <1>1, <3>1
    <3>2. CASE x # o
      BY <1>t, <1>1, <1>5, <2>1, <3>2 DEF DeclOK
    <3> QED
      BY <3>1, <3>2
  <2>2. \A x \in SwigTypes : decl'[x].kind = "core" => x \in CoreTypes
    BY <1>t, <1>5 DEF DeclOK, Declares
  <2>3. \A x \in CoreTypes : x \in SwigTypes /\ decl'[x].kind \in {"none", "core"}
    BY <1>t, <1>5, <2>0 DEF DeclOK, CoreTypes
  <2> QED
    BY <2>0, <2>1, <2>2, <2>3 DEF DeclOK
<1> DEFINE N == Len(new_types)
<1>10. /\ N \in Nat /\ Len(new_types') = N + 5
       /\ \A j \in 1 .. N : new_types'[j] = new_types[j]
       /\ \A k \in 1 .. 5 : new_types'[N + k] = Family(o)[k]
  <2>1. Family(o) \in Seq(SwigTypes) /\ Len(Family(o)) = 5 /\ new_types \in Seq(SwigTypes)
    BY <1>r, <1>t, FamilySeq DEF TypesTyped
  <2>2. /\ N \in Nat /\ Len(new_types \o Family(o)) = N + 5
        /\ \A j \in 1 .. N + 5 : (new_types \o Family(o))[j]
                                = IF j <= N THEN new_types[j] ELSE Family(o)[j - N]
    <3>1. /\ Len(new_types \o Family(o)) = Len(new_types) + Len(Family(o))
          /\ \A j \in 1 .. Len(new_types) + Len(Family(o)) :
               (new_types \o Family(o))[j] = IF j <= Len(new_types) THEN new_types[j]
                                             ELSE Family(o)[j - Len(new_types)]
      BY <2>1, ConcatProperties, Zenon
    <3>2. N \in Nat
      BY <2>1
    <3> QED
      BY <2>1, <3>1, <3>2, Zenon
  <2>3. \A k \in 1 .. 5 : N + k \in 1 .. N + 5 /\ ~ (N + k <= N) /\ (N + k) - N = k
    BY <2>2
  <2>4. \A j \in 1 .. N : j \in 1 .. N + 5 /\ j <= N
    BY <2>2
  <2> QED
    BY <1>4, <2>2, <2>3, <2>4
<1>11. Range(new_types') = Range(new_types) \cup Range(Family(o))
  BY <1>r, <1>t, <1>4, FamilySeq, RangeConcatenation DEF TypesTyped
<1>12. ListedOK'
  <2>1. CoreTypes' = CoreTypes
    BY DEF CoreTypes, InFamily
  <2> QED
    BY <1>t, <1>1, <1>11, <2>1 DEF ListedOK
<1>13. OrderOK'
  <2> SUFFICES ASSUME NEW j \in 1 .. N + 5, NEW p \in OrderedOf(decl'[new_types'[j]], new_types'[j])
               PROVE  p \in CoreTypes \/ \E i \in 1 .. j - 1 : new_types'[i] = p
    BY <1>10 DEF OrderOK, Ordered, CoreTypes, InFamily
  <2>1. CASE j <= N
    <3>1. j \in 1 .. N /\ new_types'[j] = new_types[j]
      BY <1>10, <2>1
    <3>2. new_types[j] \in CTypes
      BY <1>t, <3>1 DEF ListedOK, Range, TypesTyped
    <3>3. decl'[new_types[j]] = decl[new_types[j]]
      BY <1>2, <1>7, <3>2 DEF Known
    <3>4. p \in CoreTypes \/ \E i \in 1 .. j - 1 : new_types[i] = p
      BY <1>t, <3>1, <3>3 DEF OrderOK, Ordered
    <3>5. \A i \in 1 .. j - 1 : i \in 1 .. N
      BY <1>10, <3>1
    <3> QED
      BY <1>10, <3>4, <3>5
  <2>2. CASE j = N + 1
    <3>1. new_types'[j] = o
      BY <1>r, <1>10, <2>2, FamilySeq
    <3>2. p \in CTypes
      BY <1>5, <3>1 DEF OrderedOf, Declares
    <3>3. p \in CoreTypes \/ p \in Range(new_types)
      BY <1>t, <3>2 DEF ListedOK
    <3>4. p \in Range(new_types) => \E i \in 1 .. N : new_types[i] = p
      BY <1>t DEF Range, TypesTyped
    <3>5. j - 1 = N
      BY <1>10, <2>2
    <3> QED
      BY <1>10, <3>3, <3>4, <3>5
  <2>3. CASE j > N + 1
    <3>1. PICK k \in 2 .. 5 : j = N + k
      BY <1>10, <2>3
    <3>2. new_types'[j] = Family(o)[k] /\ new_types'[N + 1] = Family(o)[1]
          /\ new_types'[N + 3] = Family(o)[3]
      BY <1>10, <3>1
    <3>3. decl'[Family(o)[k]].kind = "none"
      <4>1. Family(o)[k] \in SwigTypes /\ InFamily(Family(o)[k], o)
        BY <1>r, FamilySeq, ElementOfSeq DEF InFamily
      <4>2. Family(o)[k] # o
        <5>1. o[2] \in {0, 1} /\ o = <<o[1], o[2], FALSE>>
          BY <1>r, RootFacts
        <5>2. /\ Family(o)[2] = <<o[1], o[2], TRUE>>
              /\ Family(o)[3] = <<o[1], o[2] + 1, FALSE>> /\ Family(o)[4] = <<o[1], o[2] + 1, TRUE>>
              /\ Family(o)[5] = <<o[1], o[2] + 1 + 1, FALSE>>
          BY <5>1 DEF Family, Arr, Ptr
        <5>3. o[2] + 1 # o[2] /\ o[2] + 1 + 1 # o[2]
          BY <5>1
        <5>4. k = 2 \/ k = 3 \/ k = 4 \/ k = 5
          OBVIOUS
        <5>5. \A n, l, i : <<n, l, TRUE>> # <<n, i, FALSE>>
          BY Zenon
        <5>6. \A n, l, i : l # i => <<n, l, FALSE>> # <<n, i, FALSE>>
          BY Zenon
        <5> QED
          BY <5>1, <5>2, <5>3, <5>4, <5>5, <5>6, Zenon
      <4>3. ~ Known(Family(o)[k])
        BY <1>3, <4>1
      <4>4. ASSUME decl[Family(o)[k]].kind # "none" PROVE FALSE
        <5> DEFINE y == Family(o)[k]
        <5>1. y \in SwigTypes /\ y \in Roots /\ Entry(y, y)
          BY <1>t, <4>1, <4>4 DEF DeclOK
        <5> HIDE DEF y
        <5>2. InFamily(y, y)
          BY <5>1, FamilyIs
        <5>3. c_type[y] = Moved(y, y, y) /\ Moved(y, y, y) # None
          BY <5>1, <5>2, MovedFacts DEF Entry
        <5> QED
          BY <4>3, <5>3 DEF Known, y
      <4> QED
        BY <1>5, <4>1, <4>2, <4>4
    <3>4. p = Family(o)[1] \/ (p = Family(o)[3] /\ k \in {4, 5})
      BY <1>r, <3>2, <3>3, FamilyParts
    <3>5. N + 1 \in 1 .. j - 1 /\ (k \in {4, 5} => N + 3 \in 1 .. j - 1)
      BY <1>10, <3>1
    <3> QED
      BY <3>2, <3>4, <3>5
  <2> QED
    BY <1>10, <2>1, <2>2, <2>3
<1>14. TypesOK'
  BY <1>1, <1>6, <1>9, <1>12, <1>13 DEF TypesOK
<1> QED
  BY <1>r, <1>1, <1>5, <1>7, <1>8, <1>14
\* The class that stands for a C type known so far by its name, or its components.
LEMMA MorphTypes ==
  ASSUME TypesOK, NEW o \in SwigTypes, NEW d \in Declarations,
         decl[o].kind \notin {"none", "core"}, d.kind = "class",
         decl' = [decl EXCEPT ![o] = d], UNCHANGED <<c_type, new_types, marked>>
  PROVE  /\ TypesOK' /\ CTypes' = CTypes /\ decl'[o] = d
         /\ \A x : Known(x)' <=> Known(x)
<1>t. TableOK /\ TypesTyped /\ DeclOK /\ ListedOK /\ OrderOK
  BY DEF TypesOK
<1>1. /\ decl' \in [SwigTypes -> Declarations] /\ decl'[o] = d
      /\ \A x \in SwigTypes : x # o => decl'[x] = decl[x]
  BY <1>t DEF TypesTyped
<1>2. TypesTyped' /\ TableOK' /\ CTypes' = CTypes /\ CoreTypes' = CoreTypes
      /\ \A x : Known(x)' <=> Known(x)
  <2>1. TypesTyped'
    BY <1>t, <1>1 DEF TypesTyped
  <2>2. TableOK'
    BY <1>t DEF TableOK, Absent, Entry, InFamily
  <2> QED
    BY <2>1, <2>2 DEF CTypes, CoreTypes, Known, InFamily
<1>3. \A x : Entry(x, x)' <=> Entry(x, x)
  BY DEF Entry, InFamily
<1>4. DeclOK'
  <2>1. \A x \in SwigTypes : decl'[x].kind # "none" => decl[x].kind # "none"
    BY <1>1
  <2>2. \A x \in SwigTypes : decl'[x].kind = "core" => decl[x].kind = "core"
    BY <1>1
  <2>3. o \notin CoreTypes /\ \A x \in CoreTypes : x \in SwigTypes
    BY <1>t DEF DeclOK, CoreTypes
  <2> QED
    BY <1>t, <1>1, <1>2, <1>3, <2>1, <2>2, <2>3 DEF DeclOK
<1>5. ListedOK'
  BY <1>t, <1>2 DEF ListedOK
<1>6. OrderOK'
  <2> SUFFICES ASSUME NEW j \in 1 .. Len(new_types),
                      NEW p \in OrderedOf(decl'[new_types[j]], new_types[j])
               PROVE  p \in CoreTypes \/ \E i \in 1 .. j - 1 : new_types[i] = p
    BY <1>2 DEF OrderOK, Ordered
  <2>1. new_types[j] \in SwigTypes
    BY <1>t, ElementOfSeq DEF TypesTyped
  <2>2. new_types[j] # o
    BY <1>1 DEF OrderedOf
  <2> QED
    BY <1>t, <1>1, <2>1, <2>2 DEF OrderOK, Ordered
<1> QED
  BY <1>1, <1>2, <1>4, <1>5, <1>6 DEF TypesOK
-----------------------------------------------------------------------------
(* The handlers.                                                            *)

LEMMA OneIsFirst == 1 <= 1
OBVIOUS

LEMMA FirstIsOne == \A N \in Nat : \A j \in 1 .. N : ~ (j < 1)
OBVIOUS

\* While declarations are read nothing is marked and nothing is made.
LEMMA ParseFrame ==
  ASSUME Inv, pc \in {"parse", "demand"}, pc' \in {"parse", "demand", Insert, Lookup},
         UNCHANGED result, TypesOK', ItemsTyped', ItemsOK',
         pending' \in [what : {"nothing", "function", "class", "function pointer"},
                       type : SwigTypes \cup {None}, sig : UseSigs],
         todo' \in Seq(Uses), PendingOK'
  PROVE  Inv'
<1>0. /\ marked' = marked /\ at' = at /\ ada' = ada
      /\ marked = {} /\ at = 1 /\ ada = CoreTypes
  BY DEF Inv, MarkOK, MadeOK, result
<1>p. /\ pc' \notin {"mark", "prune", "transform", "done"}
      /\ pc' \in Pcs
  BY DEF Insert, Lookup, Pcs
<1>1. ControlTyped'
  BY <1>0, <1>p DEF ControlTyped, Inv
<1>2. MarkOK' /\ CleanOK'
  BY <1>0, <1>p DEF MarkOK, CleanOK
<1>3. MadeOK'
  <2>1. CoreTypes' = CoreTypes
    BY DEF CoreTypes, InFamily
  <2>2. new_types' \in Seq(SwigTypes)
    BY DEF TypesOK, TypesTyped
  <2>3. \A j \in 1 .. Len(new_types') : ~ (j < 1)
    <3>1. Len(new_types') \in Nat
      BY <2>2, LenProperties
    <3> QED
      BY <3>1, FirstIsOne, Zenon
  <2>4. at' = 1 /\ 1 <= 1 /\ ada' = CoreTypes'
    BY <1>0, <2>1, OneIsFirst, Zenon
  <2>5. \A j \in 1 .. Len(new_types') : ~ (j < at')
    BY <2>3, <2>4
  <2>6. \A x \in SwigTypes : x \in ada' => x \in CoreTypes'
    BY <2>4
  <2> QED
    BY <1>p, <2>4, <2>5, <2>6 DEF MadeOK
<1> QED
  BY <1>1, <1>2, <1>3 DEF Inv

\* The items stay what they are when C types are added.
LEMMA SameItems ==
  ASSUME ItemsTyped, ItemsOK, UNCHANGED <<variables, functions>>, CTypes \subseteq CTypes'
  PROVE  ItemsTyped' /\ ItemsOK'
BY DEF ItemsTyped, ItemsOK, TypesOf

\* A handler that only registers a C type, if that.
LEMMA RegisterStep ==
  ASSUME Inv, pc \in {"parse", "demand"}, UNCHANGED <<items, result>>,
         NEW S, NEW o, NEW d, Registers(S, o), Declares(d), RegisterOrRaise(S, o, d)
  PROVE  /\ TypesOK' /\ ItemsTyped' /\ ItemsOK'
         /\ \A x \in SwigTypes : Known(x) => Known(x)' /\ decl'[x] = decl[x]
         /\ pc' # Insert => pc' = pc /\ \A s \in S : Known(s)'
         /\ pc' \in {"parse", "demand", Insert}
<1>0. TypesOK /\ ItemsTyped /\ ItemsOK /\ marked = {} /\ marked' = marked
      /\ UNCHANGED <<variables, functions>>
  BY DEF Inv, MarkOK, items, result
<1>1. CASE Clashes(S)
  <2>1. UNCHANGED types /\ pc' = Insert
    BY <1>1 DEF RegisterOrRaise, Raise
  <2>2. c_type' = c_type /\ decl' = decl /\ new_types' = new_types
    BY <2>1 DEF types
  <2>3. TypesOK' /\ CTypes' = CTypes
    BY <1>0, <2>2 DEF TypesOK, TypesTyped, TableOK, DeclOK, ListedOK, OrderOK, Ordered, Absent,
                      Entry, InFamily, CTypes, CoreTypes, Known
  <2>4. ItemsTyped' /\ ItemsOK'
    BY <1>0, <2>3, SameItems
  <2> QED
    BY <2>1, <2>2, <2>3, <2>4 DEF Known
<1>2. CASE ~ Clashes(S)
  <2>1. Register(S, o, d) /\ pc' = pc
    BY <1>2 DEF RegisterOrRaise
  <2>2. /\ TypesOK' /\ CTypes \subseteq CTypes'
        /\ \A s \in S : Known(s)'
        /\ \A x \in SwigTypes : Known(x) => Known(x)' /\ decl'[x] = decl[x]
    BY <1>0, <2>1, RegisterTypes
  <2>3. ItemsTyped' /\ ItemsOK'
    BY <1>0, <2>2, SameItems
  <2> QED
    BY <2>1, <2>2, <2>3
<1> QED
  BY <1>1, <1>2

\* The types and the items stay as they are.
LEMMA NoTypeStep ==
  ASSUME Inv, UNCHANGED <<types, marked>>
  PROVE  TypesOK' /\ CTypes' = CTypes /\ \A x : Known(x)' <=> Known(x)
<1>1. c_type' = c_type /\ decl' = decl /\ new_types' = new_types /\ marked' = marked
  BY DEF types
<1> QED
  BY <1>1 DEF Inv, TypesOK, TypesTyped, TableOK, DeclOK, ListedOK, OrderOK, Ordered, Absent,
              Entry, InFamily, CTypes, CoreTypes, Known
\* What a handler may leave pending.
LEMMA PendFacts ==
  ASSUME NEW w \in {"function", "class", "function pointer"}, NEW o \in SwigTypes \cup {None},
         NEW r \in Uses \cup {None}, NEW ps \in Seq(Uses)
  PROVE  [what |-> w, type |-> o, sig |-> [ret |-> r, params |-> ps]]
           \in [what : {"nothing", "function", "class", "function pointer"},
                type : SwigTypes \cup {None}, sig : UseSigs]
BY DEF UseSigs

LEMMA PlainRegisters ==
  ASSUME NEW n \in Names
  PROVE  Registers({Plain(n)}, Plain(n)) /\ Plain(n) \in SwigTypes /\ Plain(n) \in Roots
BY PlainIsRoot, RootFacts DEF Registers

LEMMA KindDeclares ==
  ASSUME NEW k \in {"opaque", "class", "enum", "unknown", "function pointer"}
  PROVE  Declares(Decl(k, {}))
<1>1. k \in Kinds
  BY DEF Kinds
<1>2. Decl(k, {}) \in Declarations /\ Decl(k, {}).kind = k
  BY <1>1, DeclFacts
<1> QED
  BY <1>2 DEF Declares

\* A handler that only registers, and leaves what is pending alone.
LEMMA HandlerStep ==
  ASSUME Inv, pc = "parse", UNCHANGED <<items, handling, result>>,
         \/ UNCHANGED <<types, pc>>
         \/ \E S, o, d : Registers(S, o) /\ Declares(d) /\ RegisterOrRaise(S, o, d)
  PROVE  Inv'
<1>0. pc \in {"parse", "demand"} /\ UNCHANGED <<items, result>> /\ UNCHANGED result
      /\ UNCHANGED <<variables, functions>> /\ pending' = pending /\ todo' = todo
      /\ marked' = marked
  BY DEF items, handling, result
<1>1. TypesOK' /\ ItemsTyped' /\ ItemsOK' /\ pc' \in {"parse", Insert}
  <2>1. CASE UNCHANGED <<types, pc>>
    <3>1. TypesOK' /\ CTypes' = CTypes
      BY <1>0, <2>1, NoTypeStep
    <3> QED
      BY <1>0, <2>1, <3>1, SameItems DEF Inv
  <2>2. CASE \E S, o, d : Registers(S, o) /\ Declares(d) /\ RegisterOrRaise(S, o, d)
    BY <1>0, <2>2, RegisterStep
  <2> QED
    BY <2>1, <2>2
<1>2. PendingOK'
  BY <1>1 DEF PendingOK, Insert
<1>3. pc' \in {"parse", "demand", Insert, Lookup}
  BY <1>1
<1> QED
  BY <1>0, <1>1, <1>2, <1>3, ParseFrame DEF Inv, ControlTyped

LEMMA classForwardDeclarationOK ==
  ASSUME Inv, NEW n \in Names, classForwardDeclaration(n) PROVE Inv'
<1>1. Declares(Decl("opaque", {}))
  BY KindDeclares
<1> QED
  BY <1>1, PlainRegisters, HandlerStep DEF classForwardDeclaration, Handler

LEMMA enumDeclarationOK ==
  ASSUME Inv, NEW n \in Names, enumDeclaration(n) PROVE Inv'
<1>1. Declares(Decl("enum", {}))
  BY KindDeclares
<1> QED
  BY <1>1, PlainRegisters, HandlerStep DEF enumDeclaration, Handler

LEMMA typedefHandlerOK ==
  ASSUME Inv, NEW n \in Names, NEW t \in Uses, typedefHandler(n, t) PROVE Inv'
<1>0. /\ pc = "parse" /\ UNCHANGED <<items, handling, result>>
      /\ t = Plain(n) \/ t[1] # n
      /\ t \in Roots /\ t \in SwigTypes /\ TableOK
  BY UsesAreRoots, RootFacts DEF typedefHandler, Handler, Inv, TypesOK
<1>1. CASE Known(Plain(n))
  BY <1>0, <1>1, HandlerStep DEF typedefHandler
<1>2. CASE ~ Known(Plain(n)) /\ Known(t)
  <2>1. c_type[t] \in CTypes /\ c_type[t] \in SwigTypes /\ "typedef" \in Kinds
    BY <1>0, <1>2, Canonical DEF Kinds
  <2>2. Decl("typedef", {c_type[t]}) \in Declarations
        /\ Decl("typedef", {c_type[t]}).kind = "typedef"
        /\ Decl("typedef", {c_type[t]}).parts = {c_type[t]}
    BY <2>1, DeclFacts
  <2>3. Declares(Decl("typedef", {c_type[t]}))
    BY <2>1, <2>2 DEF Declares
  <2>4. RegisterOrRaise({Plain(n)}, Plain(n), Decl("typedef", {c_type[t]}))
    BY <1>2 DEF typedefHandler
  <2> QED
    BY <1>0, <2>3, <2>4, PlainRegisters, HandlerStep
<1>3. CASE ~ Known(Plain(n)) /\ ~ Known(t)
  <2>1. Plain(n)[1] = n /\ Plain(n) \in Roots
    BY PlainRegisters DEF Plain
  <2>2. Registers({t, Plain(n)}, t)
    BY <1>0, <2>1 DEF Registers
  <2>3. Declares(Decl("opaque", {}))
    BY KindDeclares
  <2>4. RegisterOrRaise({t, Plain(n)}, t, Decl("opaque", {}))
    BY <1>3 DEF typedefHandler
  <2> QED
    BY <1>0, <2>2, <2>3, <2>4, HandlerStep
<1> QED
  BY <1>1, <1>2, <1>3
\* Handlers that go on by demanding the types of a declaration.
LEMMA InRange == ASSUME NEW A, NEW s \in Seq(A), NEW j \in 1 .. Len(s) PROVE s[j] \in Range(s)
BY DEF Range

LEMMA RangeAppend ==
  ASSUME NEW A, NEW s \in Seq(A), NEW x \in A
  PROVE  Append(s, x) \in Seq(A) /\ Range(Append(s, x)) = Range(s) \cup {x}
<1>1. <<x>> \in Seq(A) /\ Range(<<x>>) = {x}
  BY DEF Range
<1>2. Append(s, x) = s \o <<x>>
  BY AppendIsConcat
<1>3. s \o <<x>> \in Seq(A) /\ Range(s \o <<x>>) = Range(s) \cup Range(<<x>>)
  <2>1. s \o <<x>> \in Seq(A)
    BY <1>1, ConcatProperties
  <2>2. PICK t \in Seq(A) : t = <<x>>
    BY <1>1
  <2>3. Range(s \o t) = Range(s) \cup Range(t)
    BY RangeConcatenation
  <2> QED
    BY <2>1, <2>2, <2>3
<1> QED
  BY <1>1, <1>2, <1>3

LEMMA HeadThenTail ==
  ASSUME NEW A, NEW s \in Seq(A), s # <<>>
  PROVE  /\ Head(s) \in A /\ Tail(s) \in Seq(A)
         /\ \A x \in Range(s) : x = Head(s) \/ x \in Range(Tail(s))
<1>1. /\ Head(s) \in A /\ Tail(s) \in Seq(A) /\ Len(Tail(s)) = Len(s) - 1
      /\ Len(s) \in Nat /\ Head(s) = s[1]
      /\ \A j \in 1 .. Len(Tail(s)) : Tail(s)[j] = s[j + 1]
  BY HeadTailProperties, LenProperties
<1>2. ASSUME NEW x \in Range(s), x # Head(s) PROVE x \in Range(Tail(s))
  <2>1. PICK j \in 1 .. Len(s) : x = s[j]
    BY RangeEquality
  <2>2. j - 1 \in 1 .. Len(Tail(s)) /\ (j - 1) + 1 = j
    BY <1>1, <1>2, <2>1
  <2>3. Tail(s)[j - 1] = x
    BY <1>1, <2>1, <2>2
  <2> QED
    BY <1>1, <2>2, <2>3, InRange
<1> QED
  BY <1>1, <1>2

LEMMA functionWrapperOK ==
  ASSUME Inv, NEW s \in Signatures, functionWrapper(s) PROVE Inv'
<1>0. s.ret \in Uses /\ s.params \in Seq(Uses) /\ None \notin Uses
  BY AdaBindingAssumption
<1>1. /\ pc = "parse" /\ pc' = "demand" /\ UNCHANGED <<types, items, result>>
      /\ pending' = [what |-> "function", type |-> None, sig |-> s]
      /\ todo' = Append(s.params, s.ret)
  BY DEF functionWrapper, Handler, Pend
<1>2. TypesOK' /\ ItemsTyped' /\ ItemsOK' /\ CTypes' = CTypes
  BY <1>1, NoTypeStep, SameItems DEF Inv, items, result
<1>3. s \in UseSigs
  BY <1>0, AdaBindingAssumption DEF UseSigs
<1>4. todo' \in Seq(Uses) /\ Range(todo') = Range(s.params) \cup {s.ret}
  BY <1>0, <1>1, RangeAppend
<1>5. PendingOK'
  BY <1>0, <1>1, <1>4, InRange DEF PendingOK
<1>6. pending' \in [what : {"nothing", "function", "class", "function pointer"},
                    type : SwigTypes \cup {None}, sig : UseSigs]
  BY <1>1, <1>3
<1> QED
  BY <1>1, <1>2, <1>4, <1>5, <1>6, ParseFrame

LEMMA functionPointerOK ==
  ASSUME Inv, NEW n \in Names, NEW s \in Signatures, functionPointer(n, s) PROVE Inv'
<1>0. s.ret \in Uses /\ s.params \in Seq(Uses) /\ None \notin Uses /\ s \in UseSigs
  BY AdaBindingAssumption DEF UseSigs
<1>1. pc = "parse" /\ UNCHANGED <<types, items, result>>
  BY DEF functionPointer, Handler
<1>2. TypesOK' /\ ItemsTyped' /\ ItemsOK' /\ CTypes' = CTypes /\ \A x : Known(x)' <=> Known(x)
  BY <1>1, NoTypeStep, SameItems DEF Inv, items, result
<1>3. CASE Known(s.ret)
  <2>1. /\ pending' = [what |-> "function pointer", type |-> Plain(n), sig |-> s]
        /\ todo' = s.params /\ pc' = "demand"
    BY <1>3 DEF functionPointer, Pend
  <2>2. PendingOK'
    BY <1>0, <1>2, <1>3, <2>1, InRange, PlainRegisters DEF PendingOK
  <2>3. pending' \in [what : {"nothing", "function", "class", "function pointer"},
                      type : SwigTypes \cup {None}, sig : UseSigs]
    BY <1>0, <2>1, PlainRegisters
  <2>4. todo' \in Seq(Uses)
    BY <1>0, <2>1
  <2> QED
    BY <1>1, <1>2, <2>1, <2>2, <2>3, <2>4, ParseFrame
<1>4. CASE ~ Known(s.ret)
  <2>1. pending' = pending /\ todo' = todo /\ pc' = Lookup
    BY <1>4 DEF functionPointer, handling, Raise
  <2>2. PendingOK'
    BY <2>1 DEF PendingOK, Lookup
  <2> QED
    BY <1>1, <1>2, <2>1, <2>2, ParseFrame DEF Inv, ControlTyped
<1> QED
  BY <1>3, <1>4

LEMMA globalVariableHandlerOK ==
  ASSUME Inv, NEW t \in Uses, globalVariableHandler(t) PROVE Inv'
<1>0. /\ pc = "parse" /\ UNCHANGED <<types, functions, handling, result>>
      /\ t \in SwigTypes /\ TableOK
  BY UsesAreRoots, RootFacts DEF globalVariableHandler, Handler, Inv, TypesOK
<1>1. TypesOK' /\ CTypes' = CTypes
  BY <1>0, NoTypeStep DEF result
<1>2. pending' = pending /\ todo' = todo
  BY <1>0 DEF handling
<1>3. CASE Known(t)
  <2>1. variables' = Append(variables, c_type[t]) /\ pc' = pc
    BY <1>3 DEF globalVariableHandler
  <2>2. c_type[t] \in CTypes /\ c_type[t] \in SwigTypes
    BY <1>0, <1>3, Canonical
  <2>3. variables' \in Seq(SwigTypes) /\ Range(variables') = Range(variables) \cup {c_type[t]}
    BY <2>1, <2>2, RangeAppend DEF Inv, ItemsTyped
  <2>4. ItemsTyped' /\ ItemsOK'
    BY <1>0, <1>1, <2>2, <2>3 DEF Inv, ItemsTyped, ItemsOK, TypesOf
  <2>5. PendingOK'
    BY <1>0, <2>1 DEF PendingOK
  <2> QED
    BY <1>0, <1>1, <1>2, <2>1, <2>4, <2>5, ParseFrame DEF Inv, ControlTyped
<1>4. CASE ~ Known(t)
  <2>1. variables' = variables /\ pc' = Lookup
    BY <1>4 DEF globalVariableHandler, Raise
  <2>2. ItemsTyped' /\ ItemsOK'
    BY <1>0, <1>1, <2>1, SameItems DEF Inv
  <2>3. PendingOK'
    BY <2>1 DEF PendingOK, Lookup
  <2> QED
    BY <1>0, <1>1, <1>2, <2>1, <2>2, <2>3, ParseFrame DEF Inv, ControlTyped
<1> QED
  BY <1>3, <1>4
LEMMA ClassDeclared ==
  ASSUME NEW X \in SUBSET SwigTypes
  PROVE  /\ [Decl("class", {}) EXCEPT !.bases = X] \in Declarations
         /\ [Decl("class", {}) EXCEPT !.bases = X].kind = "class"
         /\ Declares([Decl("class", {}) EXCEPT !.bases = X])
<1>1. Decl("class", {}) \in Declarations /\ Decl("class", {}).kind = "class"
  BY DeclFacts DEF Kinds
<1>2. ASSUME NEW d \in Declarations, d.kind = "class"
      PROVE  [d EXCEPT !.bases = X] \in Declarations /\ [d EXCEPT !.bases = X].kind = "class"
  BY <1>2 DEF Declarations
<1>3. /\ [Decl("class", {}) EXCEPT !.bases = X] \in Declarations
      /\ [Decl("class", {}) EXCEPT !.bases = X].kind = "class"
  BY <1>1, <1>2, Zenon
<1> QED
  BY <1>3 DEF Declares

LEMMA classHandlerOK ==
  ASSUME Inv, NEW n \in Names, NEW ms \in Members, NEW B \in SUBSET (Names \ {n}),
         classHandler(n, ms, B)
  PROVE  Inv'
<1> DEFINE class == [Decl("class", {}) EXCEPT !.bases = {c_type[Plain(b)] : b \in B}]
           o     == IF Known(Plain(n)) THEN c_type[Plain(n)] ELSE Plain(n)
<1>0. /\ ms \in Seq(Uses) /\ None \notin Uses /\ TableOK /\ TypesOK
      /\ Plain(n) \in SwigTypes
  BY AdaBindingAssumption, PlainRegisters DEF Inv, TypesOK
<1>c. /\ class \in Declarations /\ class.kind = "class" /\ Declares(class)
  <2>1. \A b \in B : Plain(b) \in SwigTypes /\ Known(Plain(b))
    BY PlainRegisters DEF classHandler
  <2>2. {c_type[Plain(b)] : b \in B} \in SUBSET SwigTypes
    BY <1>0, <2>1, Canonical
  <2> QED
    BY <2>2, ClassDeclared
<1> HIDE DEF class
<1>1. /\ pc = "parse" /\ UNCHANGED <<items, result>> /\ UNCHANGED result
      /\ marked = {} /\ marked' = marked /\ UNCHANGED <<variables, functions>>
  BY DEF classHandler, Handler, Inv, MarkOK, items, result
<1>2. /\ pending' = [what |-> "class", type |-> o, sig |-> [ret |-> None, params |-> ms]]
      /\ todo' = ms
  BY DEF classHandler, Pend
<1>3. todo' \in Seq(Uses)
  BY <1>0, <1>2
<1>4. ASSUME o \in SwigTypes, TypesOK', CTypes \subseteq CTypes', pc' = "demand",
             decl'[o].kind = "class"
      PROVE  Inv'
  <2>1. ItemsTyped' /\ ItemsOK'
    BY <1>1, <1>4, SameItems DEF Inv
  <2>2. pending' \in [what : {"nothing", "function", "class", "function pointer"},
                      type : SwigTypes \cup {None}, sig : UseSigs]
    BY <1>0, <1>2, <1>4, PendFacts
  <2> HIDE DEF o
  <2>3. PendingOK'
    BY <1>0, <1>2, <1>4, InRange DEF PendingOK
  <2> QED
    BY <1>1, <1>3, <1>4, <2>1, <2>2, <2>3, ParseFrame
<1>5. CASE Known(Plain(n))
  <2>1. /\ decl' = [decl EXCEPT ![o] = class] /\ c_type' = c_type /\ new_types' = new_types
        /\ pc' = "demand" /\ Kind(o) \in {"opaque", "unknown"}
    BY <1>5 DEF classHandler, class
  <2>2. o \in SwigTypes
    BY <1>0, <1>5, Canonical
  <2>3. decl[o].kind \notin {"none", "core"}
    BY <2>1 DEF Kind
  <2> HIDE DEF o
  <2>4. TypesOK' /\ CTypes' = CTypes /\ decl'[o] = class
    BY <1>0, <1>1, <1>c, <2>1, <2>2, <2>3, MorphTypes
  <2> QED
    BY <1>4, <1>c, <2>1, <2>2, <2>4
<1>6. CASE ~ Known(Plain(n)) /\ ~ Clashes({Plain(n)})
  <2>1. Register({Plain(n)}, Plain(n), class) /\ pc' = "demand" /\ o = Plain(n)
    BY <1>6 DEF classHandler, class
  <2>2. TypesOK' /\ CTypes \subseteq CTypes' /\ decl'[Plain(n)] = class
    BY <1>0, <1>1, <1>c, <2>1, PlainRegisters, RegisterTypes
  <2> QED
    BY <1>0, <1>4, <1>c, <2>1, <2>2
<1>7. CASE ~ Known(Plain(n)) /\ Clashes({Plain(n)})
  <2>1. pc' = Insert /\ UNCHANGED types /\ o = Plain(n)
    BY <1>7 DEF classHandler, Raise
  <2>2. TypesOK' /\ CTypes' = CTypes
    BY <1>1, <2>1, NoTypeStep
  <2>3. ItemsTyped' /\ ItemsOK'
    BY <1>1, <2>2, SameItems DEF Inv
  <2>4. pending' \in [what : {"nothing", "function", "class", "function pointer"},
                      type : SwigTypes \cup {None}, sig : UseSigs]
    BY <1>0, <1>2, <2>1, PendFacts
  <2>5. PendingOK'
    BY <2>1 DEF PendingOK, Insert
  <2> QED
    BY <1>1, <1>3, <2>1, <2>2, <2>3, <2>4, <2>5, ParseFrame
<1> QED
  BY <1>5, <1>6, <1>7

LEMMA demandOK ==
  ASSUME Inv, demand_c_Type_for PROVE Inv'
<1>0. /\ pc = "demand" /\ todo # <<>> /\ todo' = Tail(todo) /\ pending' = pending
      /\ UNCHANGED <<items, result>> /\ UNCHANGED result
      /\ todo \in Seq(Uses) /\ marked' = marked /\ UNCHANGED <<variables, functions>>
      /\ pending \in [what : {"nothing", "function", "class", "function pointer"},
                      type : SwigTypes \cup {None}, sig : UseSigs]
  BY DEF demand_c_Type_for, Inv, ControlTyped, items, result
<1>h. PICK h : h = Head(todo)
  OBVIOUS
<1>1. /\ h \in Uses /\ Tail(todo) \in Seq(Uses)
      /\ \A x \in Range(todo) : x = h \/ x \in Range(Tail(todo))
  BY <1>0, <1>h, HeadThenTail
<1>2. h \in Roots /\ h \in SwigTypes
  BY <1>1, UsesAreRoots, RootFacts
<1>3. /\ TypesOK' /\ ItemsTyped' /\ ItemsOK' /\ pc' \in {"parse", "demand", Insert}
      /\ \A x \in SwigTypes : Known(x) => Known(x)' /\ decl'[x] = decl[x]
      /\ pc' = "demand" => c_type'[h] # None
  <2>1. CASE Known(h)
    <3>1. UNCHANGED <<types, pc>>
      BY <1>h, <2>1 DEF demand_c_Type_for
    <3>2. TypesOK' /\ CTypes' = CTypes /\ \A x : Known(x)' <=> Known(x)
      BY <1>0, <3>1, NoTypeStep
    <3>3. ItemsTyped' /\ ItemsOK'
      BY <1>0, <3>2, SameItems DEF Inv
    <3> QED
      BY <1>0, <2>1, <3>1, <3>2, <3>3 DEF types, Known
  <2>2. CASE ~ Known(h)
    <3>1. RegisterOrRaise({h}, h, Decl("unknown", {}))
      BY <1>h, <2>2 DEF demand_c_Type_for
    <3>2. Registers({h}, h) /\ Declares(Decl("unknown", {}))
      BY <1>2, KindDeclares DEF Registers
    <3>3. pc \in {"parse", "demand"} /\ "demand" # Insert
      BY <1>0 DEF Insert
    <3> QED
      BY <1>0, <3>1, <3>2, <3>3, RegisterStep DEF Known
  <2> QED
    BY <2>1, <2>2
<1>4. PendingOK'
  <2> SUFFICES ASSUME pc' = "demand" PROVE PendingOK'
    BY DEF PendingOK
  <2> DEFINE ps == pending.sig.params
             r  == pending.sig.ret
  <2>1. /\ pending.what # "nothing"
        /\ \A j \in 1 .. Len(ps) : Known(ps[j]) \/ ps[j] \in Range(todo)
        /\ r # None => Known(r) \/ r \in Range(todo)
        /\ pending.what \in {"function", "function pointer"} => r # None
        /\ pending.what = "class" => pending.type \in SwigTypes /\ decl[pending.type].kind = "class"
        /\ pending.what = "function pointer" => pending.type \in Roots
    BY <1>0 DEF Inv, PendingOK
  <2>2. ps \in Seq(Uses) /\ r \in Uses \cup {None}
    BY <1>0 DEF UseSigs
  <2>3. \A x \in Uses : x \in SwigTypes
    BY UsesAreRoots, RootFacts
  <2>4. \A x \in Uses : Known(x) \/ x \in Range(todo) => c_type'[x] # None \/ x \in Range(todo')
    BY <1>0, <1>1, <1>3, <2>3 DEF Known
  <2>5. \A j \in 1 .. Len(ps) : ps[j] \in Uses
    BY <2>2, ElementOfSeq
  <2>6. pending.what = "class" => decl'[pending.type].kind = "class"
    <3> SUFFICES ASSUME pending.what = "class" PROVE decl'[pending.type].kind = "class"
      OBVIOUS
    <3>1. pending.type \in SwigTypes /\ decl[pending.type].kind = "class"
      BY <2>1
    <3>2. pending.type \in Roots /\ Entry(pending.type, pending.type)
      BY <3>1 DEF Inv, TypesOK, DeclOK
    <3>3. InFamily(pending.type, pending.type)
      BY <3>1, <3>2, FamilyIs
    <3>4. c_type[pending.type] = Moved(pending.type, pending.type, pending.type)
          /\ Moved(pending.type, pending.type, pending.type) # None
      BY <3>1, <3>2, <3>3, MovedFacts DEF Entry
    <3> QED
      BY <1>3, <3>1, <3>4 DEF Known
  <2>7. /\ \A j \in 1 .. Len(ps) : c_type'[ps[j]] # None \/ ps[j] \in Range(todo')
        /\ r # None => c_type'[r] # None \/ r \in Range(todo')
    BY <2>1, <2>2, <2>4, <2>5
  <2> QED
    BY <1>0, <2>1, <2>6, <2>7 DEF PendingOK, Known
<1>5. todo' \in Seq(Uses) /\ pc \in {"parse", "demand"} /\ pc' \in {"parse", "demand", Insert, Lookup}
  BY <1>0, <1>1, <1>3
<1> QED
  BY <1>0, <1>3, <1>4, <1>5, ParseFrame
\* When all its types are there, a declaration is about C types.
LEMMA ResolvedFacts ==
  ASSUME Inv, pc = "demand", todo = <<>>
  PROVE  /\ pending.what \in {"function", "class", "function pointer"}
         /\ Resolved.params \in Seq(SwigTypes) /\ Range(Resolved.params) \subseteq CTypes
         /\ Resolved \in Sigs
         /\ pending.what # "class" =>
              /\ Resolved \in [ret : SwigTypes, params : Seq(SwigTypes)]
              /\ TypesOf(Resolved) \subseteq CTypes
<1> DEFINE ps == pending.sig.params
           r  == pending.sig.ret
           qs == [j \in 1 .. Len(ps) |-> c_type[ps[j]]]
           q  == IF r = None THEN None ELSE c_type[r]
<1>0. /\ pending.what \in {"nothing", "function", "class", "function pointer"}
      /\ pending.sig \in UseSigs /\ TableOK
  BY DEF Inv, ControlTyped, TypesOK
<1>1. ps \in Seq(Uses) /\ r \in Uses \cup {None}
  BY <1>0 DEF UseSigs
<1>2. Range(todo) = {}
  BY DEF Range
<1>3. /\ pending.what # "nothing"
      /\ \A j \in 1 .. Len(ps) : Known(ps[j])
      /\ r # None => Known(r)
      /\ pending.what # "class" => r # None
  BY <1>0, <1>2 DEF Inv, PendingOK
<1>4. \A x \in Uses : x \in SwigTypes
  BY UsesAreRoots, RootFacts
<1>5. \A x \in Uses : Known(x) => c_type[x] \in CTypes /\ c_type[x] \in SwigTypes
  BY <1>0, <1>4, Canonical
<1>6. \A j \in 1 .. Len(ps) : c_type[ps[j]] \in CTypes /\ c_type[ps[j]] \in SwigTypes
  BY <1>1, <1>3, <1>5, ElementOfSeq
<1>7. Resolved = [ret |-> q, params |-> qs]
  BY DEF Resolved
<1>8. Len(ps) \in Nat
  BY <1>1
<1>9. qs \in Seq(SwigTypes) /\ Range(qs) \subseteq CTypes
  <2>1. qs \in Seq(SwigTypes)
    BY <1>6, <1>8
  <2>2. Range(qs) \subseteq CTypes
    BY <1>6, Zenon DEF Range
  <2> QED
    BY <2>1, <2>2
<1>10. /\ r # None => q \in CTypes /\ q \in SwigTypes
       /\ q \in SwigTypes \cup {None}
  BY <1>1, <1>3, <1>5
<1> HIDE DEF qs, q, ps, r
<1>11. Resolved.params = qs /\ Resolved.ret = q
  BY <1>7
<1>12. Resolved \in Sigs
  BY <1>7, <1>9, <1>10 DEF Sigs
<1>13. pending.what # "class" =>
         /\ Resolved \in [ret : SwigTypes, params : Seq(SwigTypes)]
         /\ TypesOf(Resolved) \subseteq CTypes
  BY <1>3, <1>7, <1>9, <1>10, <1>11 DEF TypesOf
<1> QED
  BY <1>0, <1>3, <1>9, <1>11, <1>12, <1>13

LEMMA endDeclarationOK ==
  ASSUME Inv, endDeclaration PROVE Inv'
<1>0. /\ pc = "demand" /\ todo = <<>> /\ pending' = Nothing /\ pc' = "parse" /\ todo' = todo
      /\ UNCHANGED result /\ marked = {} /\ marked' = marked /\ TypesOK /\ TypesTyped
  BY DEF endDeclaration, Inv, MarkOK, result, TypesOK
<1>1. pending' \in [what : {"nothing", "function", "class", "function pointer"},
                    type : SwigTypes \cup {None}, sig : UseSigs]
  <2>1. <<>> \in Seq(Uses)
    OBVIOUS
  <2> QED
    BY <1>0, <2>1 DEF Nothing, NoSig, UseSigs
<1>2. todo' \in Seq(Uses) /\ PendingOK'
  BY <1>0 DEF PendingOK, Inv, ControlTyped
<1>3. SUFFICES TypesOK' /\ ItemsTyped' /\ ItemsOK'
  BY <1>0, <1>1, <1>2, ParseFrame
<1>4. CASE pending.what = "function"
  <2>1. /\ functions' = Append(functions, Resolved) /\ UNCHANGED types /\ variables' = variables
    BY <1>4 DEF endDeclaration
  <2>2. TypesOK' /\ CTypes' = CTypes
    BY <1>0, <2>1, NoTypeStep
  <2>3. PICK f : f = Resolved
    OBVIOUS
  <2>4. f \in [ret : SwigTypes, params : Seq(SwigTypes)] /\ TypesOf(f) \subseteq CTypes
    BY <1>0, <1>4, <2>3, ResolvedFacts
  <2>5. /\ functions \in Seq([ret : SwigTypes, params : Seq(SwigTypes)])
        /\ variables \in Seq(SwigTypes)
        /\ Range(variables) \subseteq CTypes
        /\ \A j \in 1 .. Len(functions) : TypesOf(functions[j]) \subseteq CTypes
    BY DEF Inv, ItemsTyped, ItemsOK
  <2>6. /\ functions' \in Seq([ret : SwigTypes, params : Seq(SwigTypes)])
        /\ Len(functions') = Len(functions) + 1 /\ Len(functions) \in Nat
        /\ \A j \in 1 .. Len(functions) : functions'[j] = functions[j]
        /\ functions'[Len(functions) + 1] = f
    BY <2>1, <2>3, <2>4, <2>5, AppendProperties, LenProperties
  <2>7. \A j \in 1 .. Len(functions') : TypesOf(functions'[j]) \subseteq CTypes
    <3>1. \A j \in 1 .. Len(functions') : j \in 1 .. Len(functions) \/ j = Len(functions) + 1
      BY <2>6
    <3> QED
      BY <2>4, <2>5, <2>6, <3>1
  <2> QED
    BY <2>1, <2>2, <2>5, <2>6, <2>7 DEF ItemsTyped, ItemsOK, TypesOf
<1>5. CASE pending.what = "class"
  <2>1. /\ decl' = [decl EXCEPT ![pending.type].parts = Range(Resolved.params)]
        /\ UNCHANGED <<c_type, new_types, items>>
    BY <1>5 DEF endDeclaration
  <2>2. PICK o, X : o = pending.type /\ X = Range(Resolved.params)
    OBVIOUS
  <2>3. o \in SwigTypes /\ decl[o].kind = "class" /\ decl[o] \in Declarations
    BY <1>0, <1>5, <2>2 DEF Inv, PendingOK, TypesTyped
  <2>4. X \in SUBSET SwigTypes
    BY <1>0, <2>2, ResolvedFacts, RangeOfSeq
  <2>5. PICK d : d = [decl[o] EXCEPT !.parts = X]
    OBVIOUS
  <2>6. d \in Declarations /\ d.kind = "class"
    BY <2>3, <2>4, <2>5 DEF Declarations
  <2>7. decl' = [decl EXCEPT ![o] = d]
    BY <1>0, <2>1, <2>2, <2>3, <2>5 DEF TypesTyped
  <2>8. TypesOK' /\ CTypes' = CTypes
    BY <1>0, <2>1, <2>3, <2>6, <2>7, MorphTypes
  <2> QED
    BY <2>1, <2>8, SameItems DEF Inv, items
<1>6. CASE pending.what = "function pointer"
  <2>1. /\ Register({pending.type}, pending.type,
                    [Decl("function pointer", {}) EXCEPT !.sig = Resolved])
        /\ UNCHANGED items
    BY <1>6 DEF endDeclaration
  <2>2. PICK o, d : o = pending.type /\ d = [Decl("function pointer", {}) EXCEPT !.sig = Resolved]
    OBVIOUS
  <2>3. o \in Roots
    BY <1>0, <1>6, <2>2 DEF Inv, PendingOK
  <2>4. Registers({o}, o)
    BY <2>3 DEF Registers
  <2>5. d \in Declarations /\ d.kind = "function pointer"
    <3>1. /\ Decl("function pointer", {}) \in Declarations
          /\ Decl("function pointer", {}).kind = "function pointer"
      BY DeclFacts DEF Kinds
    <3>2. ASSUME NEW e \in Declarations, e.kind = "function pointer", NEW s \in Sigs
          PROVE  [e EXCEPT !.sig = s] \in Declarations
                 /\ [e EXCEPT !.sig = s].kind = "function pointer"
      BY <3>2 DEF Declarations
    <3>3. PICK s \in Sigs : s = Resolved
      BY <1>0, ResolvedFacts
    <3> QED
      BY <2>2, <3>1, <3>2, <3>3, Zenon
  <2>6. Declares(d)
    BY <2>5 DEF Declares
  <2>7. Register({o}, o, d)
    BY <2>1, <2>2
  <2>8. TypesOK' /\ CTypes \subseteq CTypes'
    BY <1>0, <2>4, <2>6, <2>7, RegisterTypes
  <2> QED
    BY <2>1, <2>8, SameItems DEF Inv, items
<1> QED
  BY <1>0, <1>4, <1>5, <1>6, ResolvedFacts
-----------------------------------------------------------------------------
(* The pruning.                                                             *)

\* What depends on the table and the declarations alone.
LEMMA SameTable ==
  ASSUME UNCHANGED <<c_type, decl>>
  PROVE  /\ CTypes' = CTypes /\ CoreTypes' = CoreTypes /\ Unknowns' = Unknowns
         /\ \A X : Closed(X)' <=> Closed(X)
         /\ \A o : DependsOn(o)' = DependsOn(o) /\ Kind(o)' = Kind(o)
                   /\ Parts(o)' = Parts(o) /\ Ordered(o)' = Ordered(o)
         /\ \A x : OfClass(x)' <=> OfClass(x)
         /\ TableOK => TableOK'
         /\ DeclOK => DeclOK'
<1>1. \A o : Kind(o)' = Kind(o) /\ Parts(o)' = Parts(o) /\ Ordered(o)' = Ordered(o)
  BY DEF Kind, Parts, Ordered
<1>2. \A o : DependsOn(o)' = DependsOn(o)
  BY <1>1 DEF DependsOn
<1>3. CTypes' = CTypes /\ CoreTypes' = CoreTypes
  BY DEF CTypes, Known, CoreTypes, InFamily
<1>4. Unknowns' = Unknowns /\ \A X : Closed(X)' <=> Closed(X)
  BY <1>1, <1>2, <1>3 DEF Unknowns, Closed
<1>5. \A x : OfClass(x)' <=> OfClass(x)
  BY <1>1 DEF OfClass
<1>6. /\ TableOK => TableOK'
      /\ DeclOK => DeclOK'
  BY <1>3 DEF TableOK, DeclOK, Absent, Entry, InFamily
<1> QED
  BY <1>1, <1>2, <1>3, <1>4, <1>5, <1>6

LEMMA endOfInputOK ==
  ASSUME Inv, endOfInput PROVE Inv'
<1>0. /\ pc = "parse" /\ pc' = "mark" /\ marked' = Unknowns /\ marked = {}
      /\ UNCHANGED <<c_type, decl, new_types, variables, functions, pending, todo, at, ada>>
      /\ at = 1 /\ ada = CoreTypes
  BY DEF endOfInput, Unknowns, Inv, MarkOK, MadeOK, types, items, handling
<1>1. /\ CTypes' = CTypes /\ CoreTypes' = CoreTypes /\ Unknowns' = Unknowns
      /\ TableOK' /\ DeclOK' /\ Unknowns \subseteq CTypes /\ Unknowns \subseteq SwigTypes
      /\ \A o : Ordered(o)' = Ordered(o)
  BY <1>0, SameTable, Canonical DEF Inv, TypesOK, Unknowns
<1>2. TypesOK'
  BY <1>0, <1>1 DEF Inv, TypesOK, TypesTyped, ListedOK, OrderOK
<1>3. ItemsTyped' /\ ItemsOK'
  BY <1>0, <1>1, SameItems DEF Inv
<1>4. ControlTyped' /\ PendingOK' /\ CleanOK'
  BY <1>0, <1>1 DEF Inv, ControlTyped, PendingOK, CleanOK, Pcs
<1>5. MarkOK'
  BY <1>0, <1>1 DEF MarkOK
<1>6. MadeOK'
  <2>1. new_types' \in Seq(SwigTypes)
    BY <1>0 DEF Inv, TypesOK, TypesTyped
  <2>2. \A j \in 1 .. Len(new_types') : ~ (j < 1)
    BY <2>1, FirstIsOne, LenProperties, Zenon
  <2> QED
    BY <1>0, <1>1, <2>2 DEF MadeOK
<1> QED
  BY <1>2, <1>3, <1>4, <1>5, <1>6 DEF Inv

LEMMA markOK ==
  ASSUME Inv, mark PROVE Inv'
<1>0. /\ pc = "mark" /\ pc' = pc
      /\ UNCHANGED <<c_type, decl, new_types, variables, functions, pending, todo, at, ada>>
  BY DEF mark, types, items, handling
<1>m. PICK o \in CTypes \ marked : DependsOn(o) \cap marked # {} /\ marked' = marked \cup {o}
  BY DEF mark
<1>1. /\ CTypes' = CTypes /\ CoreTypes' = CoreTypes /\ Unknowns' = Unknowns
      /\ TableOK' /\ DeclOK' /\ \A x : Ordered(x)' = Ordered(x)
      /\ \A X : Closed(X)' <=> Closed(X)
      /\ o \in SwigTypes
  BY <1>0, <1>m, SameTable, Canonical DEF Inv, TypesOK
<1>2. TypesOK'
  BY <1>0, <1>m, <1>1 DEF Inv, TypesOK, TypesTyped, ListedOK, OrderOK
<1>3. ItemsTyped' /\ ItemsOK'
  BY <1>0, <1>1, SameItems DEF Inv
<1>4. ControlTyped' /\ PendingOK' /\ CleanOK'
  BY <1>0, <1>m, <1>1 DEF Inv, ControlTyped, PendingOK, CleanOK
<1>5. MarkOK'
  <2>1. /\ Unknowns \subseteq marked /\ marked \subseteq CTypes
        /\ \A X \in SUBSET CTypes : Unknowns \subseteq X /\ Closed(X) => marked \subseteq X
    BY <1>0 DEF Inv, MarkOK
  <2>2. ASSUME NEW X \in SUBSET CTypes, Unknowns \subseteq X, Closed(X)
        PROVE  marked' \subseteq X
    <3>1. marked \subseteq X
      BY <2>1, <2>2
    <3>2. o \in X
      BY <1>m, <2>2, <3>1 DEF Closed
    <3> QED
      BY <1>m, <3>1, <3>2
  <2> QED
    BY <1>0, <1>m, <1>1, <2>1, <2>2 DEF MarkOK
<1>6. MadeOK'
  <2>1. \A x : OfClass(x)' <=> OfClass(x)
    BY <1>0, SameTable
  <2> QED
    BY <1>0, <1>1, <2>1 DEF Inv, MadeOK
<1> QED
  BY <1>2, <1>3, <1>4, <1>5, <1>6 DEF Inv

\* The parts that must come first are among those that a type depends on.
LEMMA OrderedDepends ==
  ASSUME NEW y \in SwigTypes, decl \in [SwigTypes -> Declarations] PROVE Ordered(y) \subseteq DependsOn(y)
<1>1. decl[y].kind \in Kinds /\ y[3] \in BOOLEAN
  BY SwigFacts DEF Declarations
<1>2. CASE decl[y].kind = "none"
  <2>1. Ordered(y) = {<<y[1], IF y[3] THEN y[2] ELSE y[2] - 1, FALSE>>}
    BY <1>2 DEF Ordered, OrderedOf
  <2>2. Ordered(y) = Parts(y)
    BY <1>2, <2>1 DEF Parts
  <2>3. Kind(y) # "class"
    BY <1>2 DEF Kind
  <2> QED
    BY <2>2, <2>3 DEF DependsOn
<1>3. CASE decl[y].kind = "typedef"
  BY <1>3 DEF Ordered, OrderedOf, DependsOn, Kind, Parts
<1>4. CASE decl[y].kind \notin {"none", "typedef"}
  BY <1>4 DEF Ordered, OrderedOf
<1> QED
  BY <1>2, <1>3, <1>4

LEMMA pruneTypesOK ==
  ASSUME Inv, pruneTypes PROVE Inv'
<1>0. /\ pc = "mark" /\ pc' = "prune" /\ at' = Len(functions)
      /\ \A o \in CTypes \ marked : DependsOn(o) \cap marked = {}
      /\ UNCHANGED <<c_type, decl, functions, pending, todo, marked, ada>>
      /\ new_types' = Without(new_types, marked) /\ variables' = Without(variables, marked)
  BY DEF pruneTypes, handling
<1>t. /\ new_types \in Seq(SwigTypes) /\ variables \in Seq(SwigTypes)
      /\ decl \in [SwigTypes -> Declarations] /\ c_type \in [SwigTypes -> SwigTypes \cup {None}]
      /\ functions \in Seq([ret : SwigTypes, params : Seq(SwigTypes)])
  BY DEF Inv, TypesOK, TypesTyped, ItemsTyped
<1>1. /\ CTypes' = CTypes /\ CoreTypes' = CoreTypes /\ Unknowns' = Unknowns
      /\ TableOK' /\ DeclOK' /\ \A x : Ordered(x)' = Ordered(x)
      /\ \A X : Closed(X)' <=> Closed(X)
      /\ \A o \in CTypes : o \in SwigTypes
  BY <1>0, SameTable, Canonical DEF Inv, TypesOK
<1>n. PICK N : N = new_types
  OBVIOUS
<1>w. PICK W, f : W = Without(N, marked) /\ Keeps(W, N, marked, f) /\ W \in Seq(SwigTypes)
  BY <1>n, <1>t, WithoutKeeps
<1>v. PICK V, g : V = Without(variables, marked) /\ Keeps(V, variables, marked, g)
                  /\ V \in Seq(SwigTypes)
  BY <1>t, WithoutKeeps
<1>2. /\ Range(W) \subseteq Range(N) /\ Range(W) \cap marked = {}
      /\ \A x \in Range(N) : x \notin marked => x \in Range(W)
  <2>1. /\ Range(W) = {W[i] : i \in 1 .. Len(W)} /\ Range(N) = {N[i] : i \in 1 .. Len(N)}
    BY <1>n, <1>t, <1>w, RangeEquality
  <2>2. \A k \in 1 .. Len(W) : f[k] \in 1 .. Len(N) /\ W[k] = N[f[k]] /\ W[k] \notin marked
    BY <1>w DEF Keeps
  <2>3. \A j \in 1 .. Len(N) : N[j] \notin marked => \E k \in 1 .. Len(W) : W[k] = N[j]
    BY <1>w DEF Keeps
  <2> QED
    BY <2>1, <2>2, <2>3
<1>3. Range(V) \subseteq Range(variables) /\ Range(V) \cap marked = {}
  <2>1. /\ Range(V) = {V[i] : i \in 1 .. Len(V)} /\ Range(variables) = {variables[i] : i \in 1 .. Len(variables)}
    BY <1>t, <1>v, RangeEquality
  <2>2. \A k \in 1 .. Len(V) : g[k] \in 1 .. Len(variables) /\ V[k] = variables[g[k]] /\ V[k] \notin marked
    BY <1>v DEF Keeps
  <2> QED
    BY <2>1, <2>2
<1>4. ListedOK'
  BY <1>0, <1>n, <1>w, <1>1, <1>2 DEF Inv, TypesOK, ListedOK
<1>5. OrderOK'
  <2> SUFFICES ASSUME NEW j \in 1 .. Len(W), NEW p \in Ordered(W[j])
               PROVE  p \in CoreTypes \/ \E i \in 1 .. j - 1 : W[i] = p
    BY <1>0, <1>1, <1>n, <1>w DEF OrderOK
  <2>1. f[j] \in 1 .. Len(N) /\ W[j] = N[f[j]] /\ W[j] \notin marked
    BY <1>w DEF Keeps
  <2>2. W[j] \in CTypes
    BY <1>n, <1>t, <2>1, InRange DEF Inv, TypesOK, ListedOK
  <2>3. p \notin marked
    BY <1>0, <1>1, <1>t, <2>1, <2>2, OrderedDepends
  <2>4. p \in CoreTypes \/ \E i \in 1 .. f[j] - 1 : N[i] = p
    BY <1>n, <2>1 DEF Inv, TypesOK, OrderOK
  <2>5. ASSUME NEW i \in 1 .. f[j] - 1, N[i] = p PROVE \E k \in 1 .. j - 1 : W[k] = p
    <3>1. i \in 1 .. Len(N) /\ i < f[j] /\ Len(W) \in Nat
      BY <1>n, <1>t, <1>w, <2>1
    <3>2. PICK k \in 1 .. Len(W) : f[k] = i
      BY <1>w, <2>3, <2>5, <3>1 DEF Keeps
    <3>3. W[k] = p
      BY <1>w, <2>5, <3>2 DEF Keeps
    <3>4. ~ (j < k) /\ j # k
      <4>1. j < k => f[j] < f[k]
        BY <1>w DEF Keeps
      <4> QED
        BY <2>1, <3>1, <3>2, <4>1
    <3>5. k \in 1 .. j - 1
      BY <3>1, <3>4
    <3> QED
      BY <3>3, <3>5
  <2> QED
    BY <2>4, <2>5
<1>6. TypesOK'
  BY <1>0, <1>1, <1>4, <1>5, <1>n, <1>t, <1>w DEF TypesOK, TypesTyped
<1>7. ItemsTyped' /\ ItemsOK'
  BY <1>0, <1>1, <1>3, <1>t, <1>v DEF Inv, ItemsTyped, ItemsOK, TypesOf
<1>8. ControlTyped' /\ PendingOK'
  <2>1. at' \in Nat
    BY <1>0, <1>t, LenProperties
  <2>2. ControlTyped'
    BY <1>0, <2>1 DEF Inv, ControlTyped, Pcs
  <2> QED
    BY <1>0, <2>2 DEF PendingOK
<1>9. MarkOK'
  <2>1. Closed(marked)
    BY <1>0 DEF Closed
  <2> QED
    BY <1>0, <1>1, <2>1 DEF Inv, MarkOK
<1>10. CleanOK'
  <2>1. at' <= Len(functions') /\ \A j \in at' + 1 .. Len(functions') : FALSE
    BY <1>0, <1>t
  <2> QED
    BY <1>0, <1>2, <1>3, <1>n, <1>w, <1>v, <2>1 DEF CleanOK
<1>11. MadeOK'
  BY <1>0, <1>1 DEF Inv, MadeOK
<1> QED
  BY <1>6, <1>7, <1>8, <1>9, <1>10, <1>11 DEF Inv
\* What is left of a sequence when n elements are deleted from the index a on.
IsCut(w, s, a, n) ==
  /\ a - 1 <= Len(w)
  /\ \A j \in 1 .. Len(w) : j < a => j \in 1 .. Len(s) /\ w[j] = s[j]
  /\ \A j \in 1 .. Len(w) : a <= j => j + n \in 1 .. Len(s) /\ w[j] = s[j + n]

Before(u, s, a) == Len(u) = a - 1 /\ \A j \in 1 .. a - 1 : u[j] = s[j]

After(v, s, b) ==
  /\ Len(v) = IF b <= Len(s) THEN Len(s) - b + 1 ELSE 0
  /\ \A j \in 1 .. Len(v) : v[j] = s[b + j - 1]

Joined(w, u, v) ==
  /\ Len(w) = Len(u) + Len(v)
  /\ \A j \in 1 .. Len(w) : w[j] = IF j <= Len(u) THEN u[j] ELSE v[j - Len(u)]

LEMMA JoinedIs ==
  ASSUME NEW A, NEW u \in Seq(A), NEW v \in Seq(A)
  PROVE  u \o v \in Seq(A) /\ Joined(u \o v, u, v)
BY ConcatProperties DEF Joined

LEMMA CutAt ==
  ASSUME NEW A, NEW s \in Seq(A), NEW a \in 1 .. Len(s), NEW n \in Nat,
         NEW u \in Seq(A), NEW v \in Seq(A), NEW w \in Seq(A),
         Before(u, s, a), After(v, s, a + n), Joined(w, u, v)
  PROVE  IsCut(w, s, a, n)
<1>1. /\ Len(s) \in Nat /\ a \in Nat /\ 1 <= a /\ a <= Len(s)
      /\ Len(v) \in Nat /\ Len(w) = (a - 1) + Len(v) /\ Len(w) \in Nat /\ Len(u) = a - 1
  BY LenProperties DEF Joined, Before
<1>2. ASSUME NEW j \in 1 .. Len(w), j < a PROVE j \in 1 .. Len(s) /\ w[j] = s[j]
  <2>1. j \in 1 .. a - 1 /\ j <= Len(u) /\ j \in 1 .. Len(s)
    BY <1>1, <1>2
  <2>2. w[j] = u[j] /\ u[j] = s[j]
    BY <2>1 DEF Joined, Before
  <2> QED
    BY <2>1, <2>2
<1>3. ASSUME NEW j \in 1 .. Len(w), a <= j PROVE j + n \in 1 .. Len(s) /\ w[j] = s[j + n]
  <2>1. j - (a - 1) \in 1 .. Len(v) /\ ~ (j <= a - 1)
    BY <1>1, <1>3
  <2>2. a + n <= Len(s) /\ Len(v) = Len(s) - (a + n) + 1
    BY <1>1, <2>1 DEF After
  <2>3. w[j] = v[j - (a - 1)]
    BY <1>1, <2>1 DEF Joined
  <2>4. v[j - (a - 1)] = s[(a + n) + (j - (a - 1)) - 1]
    BY <2>1 DEF After
  <2>5. (a + n) + (j - (a - 1)) - 1 = j + n /\ j + n \in 1 .. Len(s)
    BY <1>1, <1>3, <2>1, <2>2
  <2> QED
    BY <2>3, <2>4, <2>5
<1>4. a - 1 <= Len(w)
  BY <1>1
<1> QED
  BY <1>2, <1>3, <1>4 DEF IsCut

LEMMA Cut ==
  ASSUME NEW A, NEW s \in Seq(A), NEW a \in 1 .. Len(s), NEW n \in Nat
  PROVE  LET w == SubSeq(s, 1, a - 1) \o SubSeq(s, a + n, Len(s))
         IN  w \in Seq(A) /\ IsCut(w, s, a, n)
<1>1. Len(s) \in Nat /\ a \in Nat /\ 1 <= a /\ a <= Len(s)
  OBVIOUS
<1>2. PICK u : u = SubSeq(s, 1, a - 1)
  OBVIOUS
<1>3. PICK v : v = SubSeq(s, a + n, Len(s))
  OBVIOUS
<1>4. u \in Seq(A) /\ Before(u, s, a)
  BY <1>1, <1>2 DEF Before
<1>5. v \in Seq(A) /\ After(v, s, a + n)
  BY <1>1, <1>3 DEF After
<1>6. PICK w : w = u \o v
  OBVIOUS
<1>7. w \in Seq(A) /\ Joined(w, u, v)
  BY <1>4, <1>5, <1>6, JoinedIs
<1>8. IsCut(w, s, a, n)
  BY <1>4, <1>5, <1>7, CutAt, Zenon
<1> QED
  BY <1>2, <1>3, <1>6, <1>7, <1>8

\* delete is called for a function unless all its types are kept.
LEMMA DeletionsFacts ==
  ASSUME NEW f, f.params \in Seq(SwigTypes)
  PROVE  Deletions(f) \in Nat /\ (Deletions(f) = 0 => Clean(f))
<1> DEFINE J == {j \in 1 .. Len(f.params) : f.params[j] \in marked}
           n == Cardinality(J)
           r == IF f.ret \in marked THEN 1 ELSE 0
<1>1. Len(f.params) \in Nat
  BY LenProperties
<1>2. IsFiniteSet(1 .. Len(f.params))
  BY <1>1, FS_Interval
<1>3. IsFiniteSet(J)
  BY <1>2, FS_Subset
<1>4. n \in Nat /\ (n = 0 => J = {})
  BY <1>3, FS_CardinalityType, FS_EmptySet
<1>5. Range(f.params) = {f.params[j] : j \in 1 .. Len(f.params)}
  BY RangeEquality
<1>6. J = {} /\ f.ret \notin marked => Clean(f)
  BY <1>5 DEF Clean, TypesOf
<1>7. Deletions(f) = n + r
  BY DEF Deletions
<1> HIDE DEF n, J
<1>8. r \in Nat /\ (r = 0 => f.ret \notin marked)
  OBVIOUS
<1> HIDE DEF r
<1> QED
  BY <1>4, <1>6, <1>7, <1>8

LEMMA pruneFunctionOK ==
  ASSUME Inv, pruneFunction PROVE Inv'
<1>0. /\ pc = "prune" /\ pc' = pc /\ at > 0 /\ at' = at - 1
      /\ UNCHANGED <<c_type, decl, new_types, variables, pending, todo, marked, ada>>
      /\ functions' = SubSeq(functions, 1, at - 1)
                        \o SubSeq(functions, at + Deletions(functions[at]), Len(functions))
  BY DEF pruneFunction, types, handling
<1> DEFINE F == [ret : SwigTypes, params : Seq(SwigTypes)]
<1>1. /\ functions \in Seq(F) /\ at \in Nat /\ at <= Len(functions)
      /\ \A j \in at + 1 .. Len(functions) : Clean(functions[j])
      /\ \A j \in 1 .. Len(functions) : TypesOf(functions[j]) \subseteq CTypes
  BY <1>0 DEF Inv, ItemsTyped, ControlTyped, CleanOK, ItemsOK
<1>2. at \in 1 .. Len(functions) /\ Len(functions) \in Nat
  BY <1>0, <1>1, LenProperties
<1>3. functions[at].params \in Seq(SwigTypes)
  <2>1. functions[at] \in F
    BY <1>1, <1>2, ElementOfSeq
  <2> QED
    BY <2>1
<1>4. PICK n : n = Deletions(functions[at])
  OBVIOUS
<1>5. n \in Nat /\ (n = 0 => Clean(functions[at]))
  BY <1>3, <1>4, DeletionsFacts
<1>6. PICK w : w = functions'
  OBVIOUS
<1>7. w = SubSeq(functions, 1, at - 1) \o SubSeq(functions, at + n, Len(functions))
  BY <1>0, <1>4, <1>6
<1> HIDE DEF F
<1>c. w \in Seq(F) /\ IsCut(w, functions, at, n)
  BY <1>1, <1>2, <1>5, <1>7, Cut
<1>8. /\ w \in Seq(F) /\ Len(w) \in Nat /\ at - 1 <= Len(w)
      /\ \A j \in 1 .. Len(w) : j < at => j \in 1 .. Len(functions) /\ w[j] = functions[j]
      /\ \A j \in 1 .. Len(w) : at <= j => j + n \in 1 .. Len(functions) /\ w[j] = functions[j + n]
  BY <1>c, LenProperties, Zenon DEF IsCut
<1>9. \A j \in 1 .. Len(w) : TypesOf(w[j]) \subseteq CTypes
  <2>1. \A j \in 1 .. Len(w) : j < at \/ at <= j
    BY <1>1, <1>8
  <2> QED
    BY <1>1, <1>8, <2>1
<1>10. \A j \in at .. Len(w) : Clean(w[j])
  <2> SUFFICES ASSUME NEW j \in at .. Len(w) PROVE Clean(w[j])
    OBVIOUS
  <2>1. j \in 1 .. Len(w) /\ at <= j
    BY <1>2, <1>8
  <2>2. j + n \in 1 .. Len(functions) /\ w[j] = functions[j + n]
    BY <1>8, <2>1
  <2>3. CASE n = 0 /\ j = at
    BY <1>5, <2>2, <2>3
  <2>4. CASE ~ (n = 0 /\ j = at)
    <3>1. j + n \in at + 1 .. Len(functions)
      BY <1>2, <1>5, <2>1, <2>2, <2>4
    <3> QED
      BY <1>1, <2>2, <3>1
  <2> QED
    BY <2>3, <2>4
<1>11. /\ CTypes' = CTypes /\ CoreTypes' = CoreTypes /\ Unknowns' = Unknowns
       /\ TableOK' /\ DeclOK' /\ \A x : Ordered(x)' = Ordered(x)
       /\ \A X : Closed(X)' <=> Closed(X)
  BY <1>0, SameTable DEF Inv, TypesOK
<1>12. TypesOK'
  BY <1>0, <1>11 DEF Inv, TypesOK, TypesTyped, ListedOK, OrderOK
<1>13. ItemsTyped' /\ ItemsOK'
  BY <1>0, <1>6, <1>8, <1>9, <1>11 DEF Inv, ItemsTyped, ItemsOK, F, TypesOf
<1>14. ControlTyped' /\ PendingOK'
  <2>1. at' \in Nat
    BY <1>0, <1>1
  <2>2. ControlTyped'
    BY <1>0, <2>1 DEF Inv, ControlTyped
  <2> QED
    BY <1>0, <2>2 DEF PendingOK
<1>15. MarkOK'
  BY <1>0, <1>11 DEF Inv, MarkOK
<1>16. CleanOK'
  <2>1. at' + 1 = at
    BY <1>0, <1>1
  <2> QED
    BY <1>0, <1>6, <1>8, <1>10, <2>1 DEF Inv, CleanOK, Clean, TypesOf
<1>17. MadeOK'
  BY <1>0, <1>11 DEF Inv, MadeOK
<1> QED
  BY <1>12, <1>13, <1>14, <1>15, <1>16, <1>17 DEF Inv

LEMMA prunedOK ==
  ASSUME Inv, pruned PROVE Inv'
<1>0. /\ pc = "prune" /\ pc' = "transform" /\ at = 0 /\ at' = 1 /\ ada = CoreTypes
      /\ UNCHANGED <<c_type, decl, new_types, variables, functions, pending, todo, marked, ada>>
  BY DEF pruned, types, items, handling, Inv, MadeOK
<1>1. /\ CTypes' = CTypes /\ CoreTypes' = CoreTypes /\ Unknowns' = Unknowns
      /\ TableOK' /\ DeclOK' /\ \A x : Ordered(x)' = Ordered(x)
      /\ \A X : Closed(X)' <=> Closed(X)
  BY <1>0, SameTable DEF Inv, TypesOK
<1>2. TypesOK'
  BY <1>0, <1>1 DEF Inv, TypesOK, TypesTyped, ListedOK, OrderOK
<1>3. ItemsTyped' /\ ItemsOK'
  BY <1>0, <1>1, SameItems DEF Inv
<1>4. ControlTyped' /\ PendingOK'
  BY <1>0 DEF Inv, ControlTyped, PendingOK, Pcs
<1>5. MarkOK'
  BY <1>0, <1>1 DEF Inv, MarkOK
<1>6. CleanOK'
  <2>1. 0 + 1 = 1
    OBVIOUS
  <2> QED
    BY <1>0, <2>1 DEF Inv, CleanOK, Clean, TypesOf
<1>7. MadeOK'
  <2>1. new_types' \in Seq(SwigTypes)
    BY <1>0 DEF Inv, TypesOK, TypesTyped
  <2>2. \A j \in 1 .. Len(new_types') : ~ (j < 1)
    BY <2>1, FirstIsOne, LenProperties, Zenon
  <2> QED
    BY <1>0, <1>1, <2>2 DEF MadeOK
<1> QED
  BY <1>2, <1>3, <1>4, <1>5, <1>6, <1>7 DEF Inv
-----------------------------------------------------------------------------
(* The making of the Ada types.                                             *)

\* What Makes means, kind by kind.
LEMMA MakesIs ==
  ASSUME NEW o
  PROVE  /\ Kind(o) \in {"class", "function pointer"} =>
              Makes(o) = {x \in SwigTypes : InFamily(x, o)}
         /\ Kind(o) = "typedef" =>
              \/ Makes(o) = {x \in SwigTypes : InFamily(x, o)}
              \/ Makes(o) = {o} /\ ~ OfClass(o)
         /\ Kind(o) = "pointer" /\ MadeWithClass(o) => Makes(o) = {}
         /\ Kind(o) = "pointer" /\ ~ MadeWithClass(o) =>
              Makes(o) = {o} \/ Makes(o) = {o, Arr(o), Ptr(o)}
         /\ Kind(o) \in {"opaque", "enum", "array"} => Makes(o) = {o}
         /\ Kind(o) \in {"core", "unknown"} => Makes(o) = {}
BY DEF Makes, OfClass

LEMMA KindIs ==
  ASSUME NEW o \in SwigTypes, decl \in [SwigTypes -> Declarations]
  PROVE  /\ decl[o].kind \in Kinds
         /\ decl[o].kind # "none" => Kind(o) = decl[o].kind
         /\ decl[o].kind = "none" => /\ Kind(o) = "array" \/ Kind(o) = "pointer"
                                     /\ Parts(o) = Ordered(o)
                                     /\ Kind(o) = "pointer" => ~ o[3]
<1>1. decl[o].kind \in Kinds
  BY DEF Declarations
<1> QED
  BY <1>1 DEF Kind, Parts, Ordered, OrderedOf

\* A C type lies in the family of the declared type of its name.
LEMMA UnderDeclared ==
  ASSUME TypesOK, NEW o \in CTypes, NEW x \in SwigTypes, decl[x].kind # "none", x[1] = o[1]
  PROVE  x \in Roots /\ InFamily(o, x)
<1>1. x \in Roots /\ Entry(x, x)
  BY DEF TypesOK, DeclOK
<1>2. o \in SwigTypes /\ c_type[o] = o /\ o # None
  BY Canonical DEF TypesOK
<1>3. InFamily(o, x)
  BY <1>1, <1>2 DEF Entry
<1> QED
  BY <1>1, <1>3

LEMMA RootOfRoot ==
  ASSUME NEW o \in Roots, NEW x \in Roots, InFamily(o, x), InFamily(x, o)
  PROVE  x = o
<1>1. o \in SwigTypes /\ x \in SwigTypes
  BY RootFacts
<1>2. /\ o[1] = x[1] /\ o[2] \in {0, 1} /\ x[2] \in {0, 1}
      /\ o = <<o[1], o[2], FALSE>> /\ x = <<x[1], x[2], FALSE>>
      /\ (x[2] = o[2] \/ x[2] = o[2] + 1 \/ x[2] = o[2] + 2)
      /\ (o[2] = x[2] \/ o[2] = x[2] + 1 \/ o[2] = x[2] + 2)
  BY <1>1, RootFacts, FamilyIs, Zenon
<1>3. o[2] = x[2]
  BY <1>2
<1> QED
  BY <1>2, <1>3, Zenon

\* What is made along with a type is not declared.
LEMMA MakesOnlyItself ==
  ASSUME TypesOK, NEW o \in CTypes, NEW x \in Makes(o), x \in SwigTypes, decl[x].kind # "none"
  PROVE  x = o
<1>0. o \in SwigTypes /\ decl \in [SwigTypes -> Declarations]
  BY Canonical DEF TypesOK, TypesTyped
<1>1. x \in Roots
  BY DEF TypesOK, DeclOK
<1>2. ASSUME InFamily(x, o), decl[o].kind # "none" PROVE x = o
  <2>1. o \in Roots
    BY <1>0, <1>2 DEF TypesOK, DeclOK
  <2>2. x[1] = o[1]
    BY <1>2, <2>1, FamilyIs, Zenon
  <2> QED
    BY <1>1, <1>2, <2>1, <2>2, UnderDeclared, RootOfRoot, Zenon
<1>3. x # Arr(o)
  <2>1. x[3] = FALSE
    BY <1>1, RootFacts
  <2>2. Arr(o)[3] = TRUE
    BY DEF Arr
  <2> QED
    BY <2>1, <2>2
<1>4. x # Ptr(o)
  <2> SUFFICES ASSUME x = Ptr(o) PROVE FALSE
    OBVIOUS
  <2>1. x[1] = o[1] /\ x[2] = o[2] + 1
    BY DEF Ptr
  <2>2. InFamily(o, x)
    BY <2>1, UnderDeclared
  <2>3. o[2] = x[2] \/ o[2] = x[2] + 1 \/ o[2] = x[2] + 2
    BY <1>0, <1>1, <2>2, FamilyIs, Zenon
  <2>4. o[2] \in Nat
    <3>1. o[2] \in 0 .. 3
      BY <1>0, SwigFacts
    <3> QED
      BY <3>1
  <2> QED
    BY <2>1, <2>3, <2>4
<1>5. CASE decl[o].kind = "none"
  BY <1>0, <1>3, <1>4, <1>5, KindIs, MakesIs
<1>6. CASE decl[o].kind # "none"
  <2>1. Kind(o) \in Kinds /\ Kind(o) # "none"
    BY <1>0, <1>6, KindIs
  <2>2. InFamily(x, o) \/ x = o
    <3>1. \/ Makes(o) = {y \in SwigTypes : InFamily(y, o)}
          \/ Makes(o) = {o} \/ Makes(o) = {}
      <4>1. CASE Kind(o) \in {"class", "function pointer"}
        BY <4>1, MakesIs
      <4>2. CASE Kind(o) = "typedef"
        BY <4>2, MakesIs
      <4>3. CASE Kind(o) \in {"opaque", "enum", "core", "unknown"}
        BY <4>3, MakesIs
      <4> QED
        BY <2>1, <4>1, <4>2, <4>3 DEF Kinds
    <3> QED
      BY <3>1
  <2> QED
    BY <1>2, <1>6, <2>2
<1> QED
  BY <1>5, <1>6

\* The type at the index gets its Ada type, with the pointers to a class.
LEMMA TurnMakes ==
  ASSUME Inv, pc = "transform", at <= Len(new_types), NEW o, o = new_types[at], o \notin ada
  PROVE  o \in Makes(o) /\ (OfClass(o) => Ptr(o) \in Makes(o))
<1>0. /\ TypesOK /\ new_types \in Seq(SwigTypes) /\ decl \in [SwigTypes -> Declarations]
      /\ at \in Nat /\ 1 <= at /\ CoreTypes \subseteq ada
  BY DEF Inv, TypesOK, TypesTyped, ControlTyped, MadeOK
<1>1. at \in 1 .. Len(new_types) /\ Len(new_types) \in Nat
  BY <1>0, LenProperties
<1>2. o \in SwigTypes /\ o \in Range(new_types)
  BY <1>0, <1>1, ElementOfSeq, InRange
<1>3. o \in CTypes /\ o \notin marked
  BY <1>2 DEF Inv, TypesOK, ListedOK, CleanOK
<1>4. decl[o].kind # "core"
  BY <1>0, <1>2 DEF TypesOK, DeclOK
<1>5. Kind(o) # "unknown"
  <2>1. Unknowns \subseteq marked
    BY DEF Inv, MarkOK
  <2> QED
    BY <1>3, <2>1 DEF Unknowns
<1>6. CASE decl[o].kind = "none"
  <2>1. Kind(o) \in {"array", "pointer"} /\ Parts(o) = Ordered(o)
    BY <1>0, <1>2, <1>6, KindIs
  <2>2. ~ OfClass(o)
    BY <2>1 DEF OfClass
  <2>3. Kind(o) = "pointer" => ~ MadeWithClass(o)
    <3> SUFFICES ASSUME Kind(o) = "pointer", MadeWithClass(o) PROVE FALSE
      OBVIOUS
    <3>1. PICK p \in Ordered(o) : OfClass(p)
      BY <2>1 DEF MadeWithClass, OfClass
    <3>2. p \notin CoreTypes
      <4>1. ASSUME p \in CoreTypes PROVE Kind(p) \notin {"class", "typedef"}
        BY <1>0, <4>1 DEF TypesOK, DeclOK, Kind
      <4> QED
        BY <3>1, <4>1 DEF OfClass
    <3>3. PICK i \in 1 .. at - 1 : new_types[i] = p
      BY <1>0, <1>1, <3>1, <3>2 DEF TypesOK, OrderOK
    <3>4. i \in 1 .. Len(new_types) /\ i < at
      BY <1>1
    <3>5. Ptr(p) \in ada
      BY <3>1, <3>3, <3>4 DEF Inv, MadeOK
    <3>6. ~ o[3] /\ o = <<o[1], o[2], o[3]>> /\ o[2] \in 0 .. 3 /\ o[3] \in BOOLEAN
      BY <1>0, <1>2, <1>6, KindIs, SwigFacts
    <3>7. p = <<o[1], o[2] - 1, FALSE>>
      BY <1>6, <3>1, <3>6 DEF Ordered, OrderedOf
    <3>8. Ptr(p) = <<o[1], (o[2] - 1) + 1, FALSE>>
      BY <3>7 DEF Ptr
    <3>9. (o[2] - 1) + 1 = o[2]
      BY <3>6
    <3>10. o[3] = FALSE
      BY <3>6, Zenon
    <3>11. Ptr(p) = o
      BY <3>6, <3>8, <3>9, <3>10, Zenon
    <3> QED
      BY <3>5, <3>11
  <2> QED
    BY <2>1, <2>2, <2>3, MakesIs
<1>7. CASE decl[o].kind # "none"
  <2>1. o \in Roots
    BY <1>2, <1>7 DEF Inv, TypesOK, DeclOK
  <2>2. /\ o \in {x \in SwigTypes : InFamily(x, o)}
        /\ Ptr(o) \in {x \in SwigTypes : InFamily(x, o)}
    <3>1. Range(Family(o)) = {Family(o)[j] : j \in 1 .. 5}
      BY <2>1, FamilySeq, RangeEquality
    <3>2. Family(o)[1] = o /\ Family(o)[3] = Ptr(o) /\ 1 \in 1 .. 5 /\ 3 \in 1 .. 5
      BY <2>1, FamilySeq
    <3> QED
      BY <2>1, <3>1, <3>2, FamilySeq
  <2>3. Kind(o) \in Kinds \ {"none", "core", "unknown"}
    BY <1>0, <1>2, <1>4, <1>5, <1>7, KindIs
  <2>4. OfClass(o) => Kind(o) \in {"class", "typedef"}
    BY DEF OfClass
  <2> QED
    BY <2>2, <2>3, <2>4, MakesIs DEF Kinds
<1> QED
  BY <1>6, <1>7

LEMMA transformTypeOK ==
  ASSUME Inv, transformType PROVE Inv'
<1>0. /\ pc = "transform" /\ at <= Len(new_types)
      /\ UNCHANGED <<c_type, decl, new_types, variables, functions, pending, todo, marked>>
  BY DEF transformType, types, items, handling
<1>s. PICK o : o = new_types[at]
  OBVIOUS
<1>c. \/ pc' = Lookup /\ at' = at /\ ada' = ada
      \/ pc' = pc /\ at' = at + 1 /\ o \in ada /\ ada' = ada
      \/ pc' = pc /\ at' = at + 1 /\ o \notin ada /\ ada' = ada \cup Makes(o)
  BY <1>s DEF transformType, Raise
<1>1. /\ CTypes' = CTypes /\ CoreTypes' = CoreTypes /\ Unknowns' = Unknowns
      /\ TableOK' /\ DeclOK' /\ \A x : Ordered(x)' = Ordered(x)
      /\ \A X : Closed(X)' <=> Closed(X)
      /\ \A x : OfClass(x)' <=> OfClass(x)
  BY <1>0, SameTable DEF Inv, TypesOK
<1>t. /\ TypesOK /\ new_types \in Seq(SwigTypes) /\ at \in Nat /\ 1 <= at
      /\ pc' \in {"transform", Lookup} /\ pc' # "prune"
  BY <1>0, <1>c DEF Inv, TypesOK, TypesTyped, ControlTyped, MadeOK, Lookup
<1>2. TypesOK'
  BY <1>0, <1>1 DEF Inv, TypesOK, TypesTyped, ListedOK, OrderOK
<1>3. ItemsTyped' /\ ItemsOK'
  BY <1>0, <1>1, SameItems DEF Inv
<1>4. ControlTyped' /\ PendingOK'
  <2>1. at' \in Nat
    BY <1>c, <1>t
  <2>2. ControlTyped'
    BY <1>0, <1>t, <2>1 DEF Inv, ControlTyped, Pcs
  <2> QED
    BY <1>t, <2>2 DEF PendingOK, Lookup
<1>5. MarkOK' /\ CleanOK'
  <2>1. MarkOK'
    BY <1>0, <1>1, <1>t DEF Inv, MarkOK, Lookup
  <2>2. CleanOK'
    BY <1>0, <1>t DEF Inv, CleanOK, Clean, TypesOf, Lookup
  <2> QED
    BY <2>1, <2>2
<1>6. MadeOK'
  <2>0. /\ CoreTypes \subseteq ada
        /\ \A j \in 1 .. Len(new_types) : j < at =>
             /\ new_types[j] \in ada
             /\ OfClass(new_types[j]) => Ptr(new_types[j]) \in ada
        /\ \A x \in SwigTypes : decl[x].kind # "none" /\ x \in ada =>
             x \in CoreTypes \/ \E j \in 1 .. Len(new_types) : j < at /\ new_types[j] = x
    BY <1>0 DEF Inv, MadeOK
  <2>1. CASE pc' = Lookup /\ at' = at /\ ada' = ada
    BY <1>0, <1>1, <1>t, <2>0, <2>1 DEF MadeOK, Lookup
  <2>2. at \in 1 .. Len(new_types) /\ Len(new_types) \in Nat
    BY <1>0, <1>t, LenProperties
  <2>3. o \in SwigTypes /\ o \in CTypes
    <3>1. o \in SwigTypes /\ o \in Range(new_types)
      BY <1>s, <1>t, <2>2, ElementOfSeq, InRange
    <3> QED
      BY <1>t, <3>1 DEF TypesOK, ListedOK
  <2>4. ASSUME pc' = pc, at' = at + 1, ada \subseteq ada', o \in ada', OfClass(o) => Ptr(o) \in ada',
               \A x \in ada' : x \in ada \/ x = o \/ (x \in SwigTypes => decl[x].kind = "none")
        PROVE  MadeOK'
    <3>1. ASSUME NEW j \in 1 .. Len(new_types), j < at + 1
          PROVE  new_types[j] \in ada' /\ (OfClass(new_types[j]) => Ptr(new_types[j]) \in ada')
      <4>1. j < at \/ j = at
        BY <2>2, <3>1
      <4> QED
        BY <1>s, <2>0, <2>4, <4>1
    <3>2. ASSUME NEW x \in SwigTypes, decl[x].kind # "none", x \in ada'
          PROVE  x \in CoreTypes \/ \E j \in 1 .. Len(new_types) : j < at + 1 /\ new_types[j] = x
      <4>1. CASE x \in ada
        <5>1. ASSUME NEW j \in 1 .. Len(new_types), j < at PROVE j < at + 1
          BY <2>2, <5>1
        <5> QED
          BY <2>0, <3>2, <4>1, <5>1
      <4>2. CASE x = o
        <5>1. at < at + 1
          BY <2>2
        <5> QED
          BY <1>s, <2>2, <4>2, <5>1
      <4> QED
        BY <2>4, <3>2, <4>1, <4>2
    <3>3. 1 <= at + 1
      BY <1>t
    <3> QED
      BY <1>0, <1>1, <2>0, <2>4, <3>1, <3>2, <3>3 DEF MadeOK
  <2>5. CASE pc' = pc /\ at' = at + 1 /\ o \in ada /\ ada' = ada
    <3>1. ASSUME OfClass(o) PROVE Ptr(o) \in ada
      <4>1. decl[o].kind \in {"class", "typedef"}
        BY <3>1 DEF OfClass, Kind
      <4>2. o \notin CoreTypes
        BY <1>t, <4>1 DEF TypesOK, DeclOK
      <4>3. PICK j \in 1 .. Len(new_types) : j < at /\ new_types[j] = o
        BY <2>0, <2>3, <2>5, <4>1, <4>2
      <4> QED
        BY <2>0, <3>1, <4>3
    <3> QED
      BY <2>4, <2>5, <3>1
  <2>6. CASE pc' = pc /\ at' = at + 1 /\ o \notin ada /\ ada' = ada \cup Makes(o)
    <3>1. o \in Makes(o) /\ (OfClass(o) => Ptr(o) \in Makes(o))
      BY <1>0, <1>s, <2>6, TurnMakes
    <3>2. \A x \in Makes(o) : x \in SwigTypes /\ decl[x].kind # "none" => x = o
      BY <1>t, <2>3, MakesOnlyItself
    <3> QED
      BY <2>4, <2>6, <3>1, <3>2
  <2> QED
    BY <1>c, <2>1, <2>5, <2>6
<1> QED
  BY <1>2, <1>3, <1>4, <1>5, <1>6 DEF Inv

LEMMA transformMembersOK ==
  ASSUME Inv, transformMembers PROVE Inv'
<1>0. /\ pc = "transform" /\ at > Len(new_types) /\ pc' \in {"done", Lookup}
      /\ UNCHANGED <<c_type, decl, new_types, variables, functions, pending, todo, marked, at, ada>>
  BY DEF transformMembers, types, items, handling, result, Raise
<1>1. /\ CTypes' = CTypes /\ CoreTypes' = CoreTypes /\ Unknowns' = Unknowns
      /\ TableOK' /\ DeclOK' /\ \A x : Ordered(x)' = Ordered(x)
      /\ \A X : Closed(X)' <=> Closed(X)
      /\ \A x : OfClass(x)' <=> OfClass(x)
  BY <1>0, SameTable DEF Inv, TypesOK
<1>2. TypesOK'
  BY <1>0, <1>1 DEF Inv, TypesOK, TypesTyped, ListedOK, OrderOK
<1>3. ItemsTyped' /\ ItemsOK'
  BY <1>0, <1>1, SameItems DEF Inv
<1>4. ControlTyped' /\ PendingOK'
  BY <1>0 DEF Inv, ControlTyped, PendingOK, Pcs, Lookup
<1>5. MarkOK'
  BY <1>0, <1>1 DEF Inv, MarkOK, Lookup
<1>6. CleanOK'
  BY <1>0 DEF Inv, CleanOK, Clean, TypesOf, Lookup
<1>7. MadeOK'
  BY <1>0, <1>1 DEF Inv, MadeOK, Lookup
<1> QED
  BY <1>2, <1>3, <1>4, <1>5, <1>6, <1>7 DEF Inv
-----------------------------------------------------------------------------
(* The invariant.                                                           *)

LEMMA InvInit == Init => Inv
<1> SUFFICES ASSUME Init PROVE Inv
  OBVIOUS
<1>0. /\ c_type = [t \in SwigTypes |-> IF t \in CoreTypes THEN t ELSE None]
      /\ decl = [t \in SwigTypes |->
                   IF \E n \in Core : t = Plain(n) THEN Decl("core", {}) ELSE Decl("none", {})]
      /\ new_types = <<>> /\ variables = <<>> /\ functions = <<>>
      /\ pc = "parse" /\ pending = Nothing /\ todo = <<>>
      /\ marked = {} /\ at = 1 /\ ada = CoreTypes
  BY DEF Init
<1>c. CoreTypes \subseteq SwigTypes
  BY DEF CoreTypes
<1>n. ~ (None \in SwigTypes) /\ Names \cap Core = {}
  BY AdaBindingAssumption
<1>k. \A t \in CoreTypes : \E n \in Core : InFamily(t, Plain(n)) /\ t[1] = n
  <2> SUFFICES ASSUME NEW t \in CoreTypes PROVE \E n \in Core : InFamily(t, Plain(n)) /\ t[1] = n
    OBVIOUS
  <2>1. PICK n \in Core : InFamily(t, Plain(n))
    BY DEF CoreTypes
  <2>2. Plain(n) \in Roots /\ Plain(n)[1] = n
    BY PlainIsRoot DEF Plain
  <2>3. t[1] = Plain(n)[1]
    BY <1>c, <2>1, <2>2, FamilyIs, Zenon
  <2> QED
    BY <2>1, <2>2, <2>3
<1>1. TypesTyped
  <2>1. Decl("core", {}) \in Declarations /\ Decl("none", {}) \in Declarations
    BY DeclFacts DEF Kinds
  <2>2. decl \in [SwigTypes -> Declarations]
    BY <1>0, <2>1
  <2>3. c_type \in [SwigTypes -> SwigTypes \cup {None}]
    BY <1>0
  <2>4. new_types \in Seq(SwigTypes)
    BY <1>0
  <2> QED
    BY <2>2, <2>3, <2>4 DEF TypesTyped
<1>e. \A n \in Core : Plain(n) \in Roots /\ Plain(n)[1] = n /\ Entry(Plain(n), Plain(n))
  <2> SUFFICES ASSUME NEW n \in Core
               PROVE  Plain(n) \in Roots /\ Plain(n)[1] = n /\ Entry(Plain(n), Plain(n))
    OBVIOUS
  <2>1. Plain(n) \in Roots /\ Plain(n)[1] = n
    BY PlainIsRoot DEF Plain
  <2>2. ASSUME NEW x \in SwigTypes, x[1] = Plain(n)[1]
        PROVE  c_type[x] = IF InFamily(x, Plain(n)) THEN Moved(x, Plain(n), Plain(n)) ELSE None
    <3>1. CASE InFamily(x, Plain(n))
      <4>1. x \in CoreTypes
        BY <3>1 DEF CoreTypes
      <4>2. c_type[x] = x
        BY <1>0, <4>1
      <4>3. Moved(x, Plain(n), Plain(n)) = x
        BY <2>1, <3>1, MovedFacts
      <4> QED
        BY <3>1, <4>2, <4>3
    <3>2. CASE ~ InFamily(x, Plain(n))
      <4>1. x \notin CoreTypes
        BY <1>k, <2>1, <2>2, <3>2
      <4> QED
        BY <1>0, <3>2, <4>1
    <3> QED
      BY <3>1, <3>2
  <2> QED
    BY <2>1, <2>2 DEF Entry
<1>2. TableOK
  <2> SUFFICES ASSUME NEW n \in Names \cup Core
               PROVE  Absent(n) \/ \E s, o \in Roots : s[1] = n /\ Entry(s, o) /\ Entry(o, o)
    BY DEF TableOK
  <2>1. CASE n \in Core
    BY <1>e, <2>1
  <2>2. CASE n \notin Core
    BY <1>0, <1>k, <2>2 DEF Absent
  <2> QED
    BY <2>1, <2>2
<1>d. /\ \A x \in SwigTypes : decl[x].kind = "none" \/ decl[x].kind = "core"
      /\ \A x \in SwigTypes : decl[x].kind # "none" => \E n \in Core : x = Plain(n)
  BY <1>0 DEF Decl
<1>3. DeclOK
  <2>1. \A x \in SwigTypes : decl[x].kind # "none" => x \in Roots /\ Entry(x, x)
    BY <1>d, <1>e
  <2>2. \A n \in Core : Plain(n) \in CoreTypes
    <3> SUFFICES ASSUME NEW n \in Core PROVE Plain(n) \in CoreTypes
      OBVIOUS
    <3>1. Plain(n) \in SwigTypes /\ Family(Plain(n))[1] = Plain(n) /\ 1 \in 1 .. 5
      BY <1>e, RootFacts, FamilySeq
    <3>2. InFamily(Plain(n), Plain(n))
      BY <3>1 DEF InFamily
    <3> QED
      BY <3>1, <3>2 DEF CoreTypes
  <2> QED
    BY <1>c, <1>d, <2>1, <2>2 DEF DeclOK
<1>4. CTypes = CoreTypes
  <2>1. \A t \in SwigTypes : Known(t) <=> t \in CoreTypes
    BY <1>0, <1>n DEF Known
  <2>2. \A t \in CoreTypes : c_type[t] = t
    BY <1>0, <1>c
  <2> QED
    BY <1>c, <2>1, <2>2 DEF CTypes
<1>5. Range(new_types) = {} /\ Range(variables) = {}
  BY <1>0 DEF Range
<1>6. ListedOK /\ OrderOK /\ ItemsOK /\ CleanOK
  BY <1>0, <1>4, <1>5 DEF ListedOK, OrderOK, ItemsOK, CleanOK
<1>7. ItemsTyped
  BY <1>0 DEF ItemsTyped
<1>8. ControlTyped /\ PendingOK
  <2>1. <<>> \in Seq(Uses)
    OBVIOUS
  <2>2. pending \in [what : {"nothing", "function", "class", "function pointer"},
                     type : SwigTypes \cup {None}, sig : UseSigs]
    BY <1>0, <2>1 DEF Nothing, NoSig, UseSigs
  <2> QED
    BY <1>0, <2>1, <2>2 DEF ControlTyped, PendingOK, Pcs
<1>9. MarkOK
  BY <1>0 DEF MarkOK
<1>10. MadeOK
  <2>1. \A x \in SwigTypes : decl[x].kind # "none" /\ x \in ada => x \in CoreTypes
    BY <1>0
  <2> QED
    BY <1>0, <2>1 DEF MadeOK
<1> QED
  BY <1>1, <1>2, <1>3, <1>6, <1>7, <1>8, <1>9, <1>10 DEF Inv, TypesOK

LEMMA InvNext == Inv /\ [Next]_vars => Inv'
<1> SUFFICES ASSUME Inv, [Next]_vars PROVE Inv'
  OBVIOUS
<1>1. ASSUME NEW n \in Names, classForwardDeclaration(n) PROVE Inv'
  BY <1>1, classForwardDeclarationOK
<1>2. ASSUME NEW n \in Names, NEW ms \in Members, NEW B \in SUBSET (Names \ {n}),
             classHandler(n, ms, B)
      PROVE  Inv'
  BY <1>2, classHandlerOK
<1>3. ASSUME NEW n \in Names, NEW t \in Uses, typedefHandler(n, t) PROVE Inv'
  BY <1>3, typedefHandlerOK
<1>4. ASSUME NEW n \in Names, NEW s \in Signatures, functionPointer(n, s) PROVE Inv'
  BY <1>4, functionPointerOK
<1>5. ASSUME NEW n \in Names, enumDeclaration(n) PROVE Inv'
  BY <1>5, enumDeclarationOK
<1>6. ASSUME NEW s \in Signatures, functionWrapper(s) PROVE Inv'
  BY <1>6, functionWrapperOK
<1>7. ASSUME NEW t \in Uses, globalVariableHandler(t) PROVE Inv'
  BY <1>7, globalVariableHandlerOK
<1>8. CASE demand_c_Type_for
  BY <1>8, demandOK
<1>9. CASE endDeclaration
  BY <1>9, endDeclarationOK
<1>10. CASE endOfInput \/ mark
  BY <1>10, endOfInputOK, markOK
<1>11. CASE pruneTypes \/ pruneFunction \/ pruned
  BY <1>11, pruneTypesOK, pruneFunctionOK, prunedOK
<1>12. CASE transformType \/ transformMembers
  BY <1>12, transformTypeOK, transformMembersOK
<1>13. CASE UNCHANGED vars
  <2>0. UNCHANGED <<c_type, decl, new_types, variables, functions, pc, pending, todo, marked, at, ada>>
    BY <1>13 DEF vars
  <2>1. /\ CTypes' = CTypes /\ CoreTypes' = CoreTypes /\ Unknowns' = Unknowns
        /\ TableOK' /\ DeclOK' /\ \A x : Ordered(x)' = Ordered(x)
        /\ \A X : Closed(X)' <=> Closed(X)
        /\ \A x : OfClass(x)' <=> OfClass(x)
    BY <2>0, SameTable DEF Inv, TypesOK
  <2>2. TypesOK'
    BY <2>0, <2>1 DEF Inv, TypesOK, TypesTyped, ListedOK, OrderOK
  <2>3. ItemsTyped' /\ ItemsOK'
    BY <2>0, <2>1, SameItems DEF Inv
  <2>4. ControlTyped' /\ PendingOK'
    BY <2>0 DEF Inv, ControlTyped, PendingOK, Known
  <2>5. MarkOK'
    BY <2>0, <2>1 DEF Inv, MarkOK
  <2>6. CleanOK'
    BY <2>0 DEF Inv, CleanOK, Clean, TypesOf
  <2>7. MadeOK'
    BY <2>0, <2>1 DEF Inv, MadeOK
  <2> QED
    BY <2>2, <2>3, <2>4, <2>5, <2>6, <2>7 DEF Inv
<1> QED
  BY <1>1, <1>2, <1>3, <1>4, <1>5, <1>6, <1>7, <1>8, <1>9, <1>10, <1>11, <1>12, <1>13 DEF Next

LEMMA InvHolds == Spec => []Inv
BY InvInit, InvNext, PTL DEF Spec

\* Whatever is declared, forward declared, demanded and morphed, in whatever order,
\* register keeps the table of C types consistent.
THEOREM TableAlwaysConsistent == Spec => []TableConsistent
<1>1. Inv => TableConsistent
  BY TableIsConsistent DEF Inv, TypesOK
<1> QED
  BY <1>1, InvHolds, PTL

\* After prune_unknown_C_Types, and all through the transformation, no type that was
\* kept depends on a type that was removed, as depends_directly_on sees it, and no
\* variable or function that was kept has one in it.
THEOREM PruningClean == Spec => []PrunedClean
<1>1. ASSUME Inv PROVE PrunedClean
  <2> SUFFICES ASSUME pc \in {"transform", "done"}
               PROVE  /\ \A o \in Range(new_types) : (DependsOn(o) \cup {o}) \cap marked = {}
                      /\ Range(variables) \cap marked = {}
                      /\ \A f \in Range(functions) : (Range(f.params) \cup {f.ret}) \cap marked = {}
    BY DEF PrunedClean
  <2>1. /\ Range(new_types) \cap marked = {} /\ Range(variables) \cap marked = {}
        /\ \A j \in 1 .. Len(functions) : Clean(functions[j])
        /\ Closed(marked) /\ Range(new_types) \subseteq CTypes
        /\ functions \in Seq([ret : SwigTypes, params : Seq(SwigTypes)])
    BY <1>1 DEF Inv, CleanOK, MarkOK, TypesOK, ListedOK, ItemsTyped
  <2>2. \A o \in Range(new_types) : (DependsOn(o) \cup {o}) \cap marked = {}
    BY <2>1 DEF Closed
  <2>3. Range(functions) = {functions[j] : j \in 1 .. Len(functions)}
    BY <2>1, RangeEquality
  <2> QED
    BY <2>1, <2>2, <2>3 DEF Clean, TypesOf
<1> QED
  BY <1>1, InvHolds, PTL
-----------------------------------------------------------------------------
(* What depends_directly_on overlooks: the signatures of function pointers    *)
(* and the bases of classes.                                                  *)

FunSigs == [ret : SwigTypes, params : Seq(SwigTypes)]

IsPointer(y) == decl[y].kind = "function pointer"

\* A function pointer comes after the types of its signature, those pruned aside.
SigOK ==
  /\ \A x \in SwigTypes : IsPointer(x) => decl[x].sig \in FunSigs
  /\ \A j \in 1 .. Len(new_types) : IsPointer(new_types[j]) =>
       \A p \in TypesOf(decl[new_types[j]].sig) :
         p \in CoreTypes \/ p \in marked \/ \E i \in 1 .. j - 1 : new_types[i] = p

ClassOK ==
  \A x \in SwigTypes : decl[x].kind = "class" => decl[x].parts \cup decl[x].bases \subseteq CTypes

CoreOK ==
  /\ \A x \in CoreTypes : decl[x].parts = {}
  /\ \A n \in Core : decl[Plain(n)].kind = "core"

SigInv == SigOK /\ ClassOK /\ CoreOK

\* The declarations that handlers make are about C types.
Fits(d) ==
  /\ d.kind = "function pointer" => d.sig \in FunSigs /\ TypesOf(d.sig) \subseteq CTypes
  /\ d.kind = "class" => d.parts \cup d.bases \subseteq CTypes

LEMMA SigInit == Init => SigInv
<1> SUFFICES ASSUME Init PROVE SigInv
  OBVIOUS
<1>1. /\ decl = [t \in SwigTypes |->
                   IF \E n \in Core : t = Plain(n) THEN Decl("core", {}) ELSE Decl("none", {})]
      /\ new_types = <<>>
  BY DEF Init
<1>2. \A t \in SwigTypes : decl[t].kind \in {"core", "none"} /\ decl[t].parts = {}
  BY <1>1 DEF Decl
<1>3. \A n \in Core : Plain(n) \in SwigTypes
  BY PlainIsRoot, RootFacts
<1>4. \A n \in Core : decl[Plain(n)].kind = "core"
  BY <1>1, <1>3 DEF Decl
<1>5. \A x \in CoreTypes : x \in SwigTypes
  BY DEF CoreTypes
<1>6. \A j \in 1 .. Len(new_types) : FALSE
  BY <1>1
<1>7. SigOK /\ ClassOK
  BY <1>2, <1>6 DEF SigOK, ClassOK, IsPointer
<1>8. CoreOK
  BY <1>2, <1>4, <1>5 DEF CoreOK
<1> QED
  BY <1>7, <1>8 DEF SigInv

\* A declared swig type is known.
LEMMA DeclaredKnown ==
  ASSUME TypesOK, NEW x \in SwigTypes, decl[x].kind # "none"
  PROVE  Known(x) /\ x \in CTypes
<1>1. x \in Roots /\ Entry(x, x)
  BY DEF TypesOK, DeclOK
<1>2. InFamily(x, x)
  BY <1>1, FamilyIs
<1>3. c_type[x] = Moved(x, x, x) /\ Moved(x, x, x) # None /\ Moved(x, x, x) = x
  BY <1>1, <1>2, MovedFacts DEF Entry
<1> QED
  BY <1>3, Canonical DEF Known, TypesOK

LEMMA SigRegister ==
  ASSUME TypesOK, marked = {}, SigInv, NEW S, NEW o, NEW d, Registers(S, o), Declares(d), Fits(d),
         Register(S, o, d), marked' = marked
  PROVE  SigInv'
<1>1. /\ CTypes \subseteq CTypes' /\ decl'[o] = d /\ o \in SwigTypes /\ o \in Roots /\ o \in S
      /\ \A x \in SwigTypes : Known(x) => decl'[x] = decl[x]
      /\ decl' \in [SwigTypes -> Declarations]
  BY RegisterTypes DEF TypesOK, TypesTyped, Registers
<1>2. /\ new_types' = new_types \o Family(o) /\ new_types \in Seq(SwigTypes)
      /\ decl' = [decl EXCEPT ![o] = d] /\ decl \in [SwigTypes -> Declarations]
      /\ Family(o) \in Seq(SwigTypes)
  BY <1>1, FamilySeq DEF Register, TypesOK, TypesTyped
<1>3. \A x \in SwigTypes : x # o => decl'[x] = decl[x]
  BY <1>2
<1>4. CoreTypes' = CoreTypes
  BY DEF CoreTypes, InFamily
<1>5. ~ Known(o)
  <2>1. InFamily(o, o)
    BY <1>1, FamilyIs
  <2> QED
    BY <1>1, <2>1, RegisterMeans DEF Registered
<1>6. o \notin CTypes /\ o \notin CoreTypes
  <2>1. \A y \in CTypes : Known(y)
    BY Canonical DEF TypesOK, Known
  <2> QED
    BY <1>5, <2>1 DEF TypesOK, ListedOK
<1> DEFINE N == Len(new_types)
<1>7. /\ N \in Nat /\ Len(new_types') \in Nat
      /\ \A j \in 1 .. N : new_types'[j] = new_types[j]
      /\ \A j \in 1 .. Len(new_types') : new_types'[j] \in SwigTypes
  <2>1. new_types' \in Seq(SwigTypes)
    BY <1>2, ConcatProperties
  <2>2. \A j \in 1 .. N : new_types'[j] = new_types[j]
    <3>1. /\ Len(new_types \o Family(o)) = Len(new_types) + Len(Family(o))
          /\ \A j \in 1 .. Len(new_types) + Len(Family(o)) :
               (new_types \o Family(o))[j] = IF j <= Len(new_types) THEN new_types[j]
                                             ELSE Family(o)[j - Len(new_types)]
      BY <1>2, ConcatProperties, Zenon
    <3>2. N \in Nat /\ Len(Family(o)) \in Nat
      BY <1>2
    <3> QED
      BY <1>2, <3>1, <3>2
  <2> QED
    BY <1>2, <2>1, <2>2, ElementOfSeq, LenProperties
<1>8. Range(new_types) = {new_types[i] : i \in 1 .. N}
  BY <1>2, RangeEquality
<1>9. \A p \in CTypes : p \in CoreTypes \/ \E i \in 1 .. N : new_types[i] = p
  BY <1>8 DEF TypesOK, ListedOK
<1>10. \A x \in SwigTypes : decl'[x].kind = "function pointer" => decl'[x].sig \in FunSigs
  BY <1>1, <1>3 DEF SigInv, SigOK, Fits, IsPointer
<1>11. ASSUME NEW j \in 1 .. Len(new_types'), decl'[new_types'[j]].kind = "function pointer",
              NEW p \in TypesOf(decl'[new_types'[j]].sig)
       PROVE  p \in CoreTypes \/ \E i \in 1 .. j - 1 : new_types'[i] = p
  <2> DEFINE y == new_types'[j]
  <2>1. y \in SwigTypes
    BY <1>7
  <2>2. CASE y = o
    <3>1. p \in CTypes
      BY <1>1, <1>11, <2>2 DEF Fits
    <3>2. ~ (j <= N)
      <4>1. j <= N => y \in CTypes
        BY <1>7, <1>8 DEF TypesOK, ListedOK
      <4> QED
        BY <1>6, <2>2, <4>1
    <3>3. \A i \in 1 .. N : i \in 1 .. j - 1
      BY <1>7, <3>2
    <3> QED
      BY <1>7, <1>9, <3>1, <3>3
  <2>3. CASE y # o
    <3>1. decl[y].kind = "function pointer" /\ decl'[y] = decl[y]
      BY <1>3, <1>11, <2>1, <2>3
    <3>2. y \in CTypes
      BY <2>1, <3>1, DeclaredKnown
    <3>3. y \notin CoreTypes
      BY <3>1 DEF TypesOK, DeclOK
    <3>4. PICK k \in 1 .. N : new_types[k] = y /\ (j <= N => k = j)
      <4>1. CASE j <= N
        BY <1>7, <4>1
      <4>2. CASE ~ (j <= N)
        BY <1>9, <3>2, <3>3, <4>2
      <4> QED
        BY <4>1, <4>2
    <3>5. k <= j
      BY <1>7, <3>4
    <3>6. p \in CoreTypes \/ \E i \in 1 .. k - 1 : new_types[i] = p
      BY <1>11, <3>1, <3>4 DEF SigInv, SigOK, IsPointer
    <3>7. \A i \in 1 .. k - 1 : i \in 1 .. N /\ i \in 1 .. j - 1
      BY <1>7, <3>4, <3>5
    <3> QED
      BY <1>7, <3>6, <3>7
  <2> QED
    BY <2>2, <2>3
<1>12. SigOK'
  BY <1>4, <1>10, <1>11 DEF SigOK, IsPointer, TypesOf, FunSigs, SwigTypes
<1>13. ClassOK'
  BY <1>1, <1>3 DEF SigInv, ClassOK, Fits
<1>14. CoreOK'
  <2>1. \A x \in CoreTypes : x \in SwigTypes /\ decl'[x] = decl[x]
    BY <1>3, <1>6 DEF CoreTypes
  <2>2. \A n \in Core : Plain(n) \in CoreTypes
    <3>1. \A n \in Core : Plain(n) \in SwigTypes /\ InFamily(Plain(n), Plain(n))
      BY PlainIsRoot, RootFacts, FamilyIs
    <3> QED
      BY <3>1 DEF CoreTypes
  <2> QED
    BY <1>4, <2>1, <2>2 DEF SigInv, CoreOK, Plain
<1> QED
  BY <1>12, <1>13, <1>14 DEF SigInv

LEMMA SigMorph ==
  ASSUME TypesOK, SigInv, NEW o \in SwigTypes, NEW d \in Declarations, Fits(d),
         decl[o].kind \notin {"none", "core"}, d.kind = "class",
         decl' = [decl EXCEPT ![o] = d], UNCHANGED <<c_type, new_types, marked>>
  PROVE  SigInv'
<1>1. /\ decl \in [SwigTypes -> Declarations] /\ new_types \in Seq(SwigTypes)
      /\ CTypes' = CTypes /\ CoreTypes' = CoreTypes
  BY DEF TypesOK, TypesTyped, CTypes, Known, CoreTypes, InFamily
<1>2. decl'[o] = d /\ \A x \in SwigTypes : x # o => decl'[x] = decl[x]
  BY <1>1
<1>3. \A j \in 1 .. Len(new_types) : new_types[j] \in SwigTypes
  BY <1>1, ElementOfSeq
<1>4. \A x \in SwigTypes : IsPointer(x)' => IsPointer(x) /\ decl'[x] = decl[x]
  BY <1>2 DEF IsPointer
<1>5. SigOK'
  <2>1. \A x \in SwigTypes : IsPointer(x)' => decl'[x].sig \in FunSigs
    BY <1>4 DEF SigInv, SigOK
  <2>2. ASSUME NEW j \in 1 .. Len(new_types), IsPointer(new_types[j])',
               NEW p \in TypesOf(decl'[new_types[j]].sig)
        PROVE  p \in CoreTypes \/ p \in marked \/ \E i \in 1 .. j - 1 : new_types[i] = p
    BY <1>3, <1>4, <2>2 DEF SigInv, SigOK
  <2>3. new_types' = new_types /\ marked' = marked
    OBVIOUS
  <2>4. \A x \in SwigTypes : decl'[x].kind = "function pointer" => decl'[x].sig \in FunSigs
    BY ONLY <2>1 DEF IsPointer
  <2>5. ASSUME NEW j \in 1 .. Len(new_types'), decl'[new_types'[j]].kind = "function pointer",
               NEW p \in TypesOf(decl'[new_types'[j]].sig)
        PROVE  p \in CoreTypes' \/ p \in marked' \/ \E i \in 1 .. j - 1 : new_types'[i] = p
    BY ONLY <1>1, <2>2, <2>3, <2>5 DEF IsPointer
  <2> QED
    BY ONLY <1>1, <2>1, <2>4, <2>5 DEF SigOK, IsPointer, TypesOf
<1>6. ClassOK'
  BY <1>1, <1>2 DEF SigInv, ClassOK, Fits
<1>7. o \notin CoreTypes
  BY DEF TypesOK, DeclOK
<1>8. CoreOK'
  <2>1. \A x \in CoreTypes : x \in SwigTypes /\ decl'[x] = decl[x]
    BY <1>2, <1>7 DEF CoreTypes
  <2>2. \A n \in Core : Plain(n) \in CoreTypes
    <3>1. \A n \in Core : Plain(n) \in SwigTypes /\ InFamily(Plain(n), Plain(n))
      BY PlainIsRoot, RootFacts, FamilyIs
    <3> QED
      BY <3>1 DEF CoreTypes
  <2> QED
    BY <1>1, <2>1, <2>2 DEF SigInv, CoreOK, Plain
<1> QED
  BY <1>5, <1>6, <1>8 DEF SigInv

LEMMA SigPrune ==
  ASSUME Inv, SigInv, pruneTypes PROVE SigInv'
<1>0. /\ UNCHANGED <<c_type, decl, marked>> /\ new_types' = Without(new_types, marked)
      /\ new_types \in Seq(SwigTypes) /\ TypesOK
  BY DEF pruneTypes, Inv, TypesOK, TypesTyped
<1>1. CTypes' = CTypes /\ CoreTypes' = CoreTypes
  BY <1>0, SameTable
<1>n. PICK N : N = new_types
  OBVIOUS
<1>w. PICK W, f : W = Without(N, marked) /\ Keeps(W, N, marked, f) /\ W \in Seq(SwigTypes)
  BY <1>0, <1>n, WithoutKeeps
<1>2. ASSUME NEW j \in 1 .. Len(W), IsPointer(W[j]), NEW p \in TypesOf(decl[W[j]].sig), p \notin marked
      PROVE  p \in CoreTypes \/ \E i \in 1 .. j - 1 : W[i] = p
  <2>1. f[j] \in 1 .. Len(N) /\ W[j] = N[f[j]] /\ W[j] \notin marked
    BY <1>w DEF Keeps
  <2>4. p \in CoreTypes \/ \E i \in 1 .. f[j] - 1 : N[i] = p
    BY <1>2, <1>n, <2>1 DEF SigInv, SigOK
  <2>5. ASSUME NEW i \in 1 .. f[j] - 1, N[i] = p PROVE \E k \in 1 .. j - 1 : W[k] = p
    <3>1. i \in 1 .. Len(N) /\ i < f[j] /\ Len(W) \in Nat
      BY <1>0, <1>n, <1>w, <2>1
    <3>2. PICK k \in 1 .. Len(W) : f[k] = i
      BY <1>2, <1>w, <2>5, <3>1 DEF Keeps
    <3>3. W[k] = p
      BY <1>w, <2>5, <3>2 DEF Keeps
    <3>4. ~ (j < k) /\ j # k
      <4>1. j < k => f[j] < f[k]
        BY <1>w DEF Keeps
      <4> QED
        BY <2>1, <3>1, <3>2, <4>1
    <3>5. k \in 1 .. j - 1
      BY <3>1, <3>4
    <3> QED
      BY <3>3, <3>5
  <2> QED
    BY <2>4, <2>5
<1>3. SigOK'
  <2>1. new_types' = W /\ marked' = marked /\ decl' = decl
    BY <1>0, <1>n, <1>w
  <2>2. \A x \in SwigTypes : IsPointer(x) => decl[x].sig \in FunSigs
    BY DEF SigInv, SigOK
  <2>3. \A x \in SwigTypes : decl'[x].kind = "function pointer" => decl'[x].sig \in FunSigs
    BY ONLY <2>1, <2>2 DEF IsPointer
  <2>4. ASSUME NEW j \in 1 .. Len(new_types'), decl'[new_types'[j]].kind = "function pointer",
               NEW p \in TypesOf(decl'[new_types'[j]].sig)
        PROVE  p \in CoreTypes' \/ p \in marked' \/ \E i \in 1 .. j - 1 : new_types'[i] = p
    BY ONLY <1>1, <1>2, <2>1, <2>4 DEF IsPointer
  <2> QED
    BY ONLY <2>3, <2>4 DEF SigOK, IsPointer, TypesOf
<1>4. ClassOK' /\ CoreOK'
  BY <1>0, <1>1 DEF SigInv, ClassOK, CoreOK, Plain
<1> QED
  BY <1>3, <1>4 DEF SigInv

\* Nothing about types changes but perhaps that more are marked.
LEMMA SigSame ==
  ASSUME SigInv, UNCHANGED <<c_type, decl, new_types>>, marked \subseteq marked'
  PROVE  SigInv'
<1>1. CTypes' = CTypes /\ CoreTypes' = CoreTypes
  BY SameTable
<1>2. ClassOK' /\ CoreOK'
  BY <1>1 DEF SigInv, ClassOK, CoreOK, Plain
<1>3. SigOK'
  <2>1. new_types' = new_types /\ decl' = decl /\ marked \subseteq marked' /\ SigOK
    BY DEF SigInv
  <2>2. \A x \in SwigTypes : decl'[x].kind = "function pointer" => decl'[x].sig \in FunSigs
    BY ONLY <2>1 DEF SigOK, IsPointer
  <2>3. ASSUME NEW j \in 1 .. Len(new_types'), decl'[new_types'[j]].kind = "function pointer",
               NEW p \in TypesOf(decl'[new_types'[j]].sig)
        PROVE  p \in CoreTypes' \/ p \in marked' \/ \E i \in 1 .. j - 1 : new_types'[i] = p
    BY ONLY <1>1, <2>1, <2>3 DEF SigOK, IsPointer
  <2> QED
    BY ONLY <2>2, <2>3 DEF SigOK, IsPointer, TypesOf
<1> QED
  BY <1>2, <1>3 DEF SigInv

\* What a step does to the table, the declarations and the list.
LEMMA TypeSteps ==
  ASSUME Inv, ClassOK, [Next]_vars
  PROVE  \/ UNCHANGED <<c_type, decl, new_types>> /\ marked \subseteq marked'
         \/ /\ marked = {} /\ marked' = marked
            /\ \E S, o, d : Registers(S, o) /\ Declares(d) /\ Fits(d) /\ Register(S, o, d)
         \/ /\ UNCHANGED <<c_type, new_types, marked>>
            /\ \E o \in SwigTypes, d \in Declarations :
                 /\ decl[o].kind \notin {"none", "core"} /\ d.kind = "class" /\ Fits(d)
                 /\ decl' = [decl EXCEPT ![o] = d]
         \/ pruneTypes
<1> DEFINE Goal == \/ UNCHANGED <<c_type, decl, new_types>> /\ marked \subseteq marked'
                   \/ /\ marked = {} /\ marked' = marked
                      /\ \E S, o, d : Registers(S, o) /\ Declares(d) /\ Fits(d) /\ Register(S, o, d)
                   \/ /\ UNCHANGED <<c_type, new_types, marked>>
                      /\ \E o \in SwigTypes, d \in Declarations :
                           /\ decl[o].kind \notin {"none", "core"} /\ d.kind = "class" /\ Fits(d)
                           /\ decl' = [decl EXCEPT ![o] = d]
                   \/ pruneTypes
<1>t. TypesOK /\ TableOK /\ (pc \in {"parse", "demand"} => marked = {})
  BY DEF Inv, MarkOK, TypesOK
<1>u. UNCHANGED <<types, marked>> => Goal
  BY DEF types
<1>f. \A k \in {"opaque", "enum", "unknown"} : Declares(Decl(k, {})) /\ Fits(Decl(k, {}))
  <2>1. \A k \in {"opaque", "enum", "unknown"} : Declares(Decl(k, {}))
    BY KindDeclares
  <2>2. \A k \in {"opaque", "enum", "unknown"} : Decl(k, {}).kind = k
    BY DEF Decl
  <2> QED
    BY <2>1, <2>2 DEF Fits
<1>r. ASSUME NEW S, NEW o, NEW d, Registers(S, o), Declares(d), Fits(d), RegisterOrRaise(S, o, d),
             marked = {}, marked' = marked
      PROVE  Goal
  <2>1. UNCHANGED types \/ Register(S, o, d)
    BY <1>r DEF RegisterOrRaise
  <2> QED
    BY <1>r, <1>u, <2>1
<1>1. ASSUME NEW n \in Names, classForwardDeclaration(n) PROVE Goal
  <2>1. pc = "parse" /\ marked' = marked
    BY <1>1 DEF classForwardDeclaration, Handler, result
  <2>2. UNCHANGED types \/ RegisterOrRaise({Plain(n)}, Plain(n), Decl("opaque", {}))
    BY <1>1 DEF classForwardDeclaration
  <2> HIDE DEF Goal
  <2> QED
    BY <1>f, <1>r, <1>t, <1>u, <2>1, <2>2, PlainRegisters
<1>2. ASSUME NEW n \in Names, NEW ms \in Members, NEW B \in SUBSET (Names \ {n}),
             classHandler(n, ms, B)
      PROVE  Goal
  <2> DEFINE class == [Decl("class", {}) EXCEPT !.bases = {c_type[Plain(b)] : b \in B}]
             o     == IF Known(Plain(n)) THEN c_type[Plain(n)] ELSE Plain(n)
  <2>1. pc = "parse" /\ marked' = marked /\ marked = {}
    BY <1>2, <1>t DEF classHandler, Handler, result
  <2>2. \A b \in B : Plain(b) \in SwigTypes /\ Known(Plain(b))
    BY <1>2, PlainRegisters DEF classHandler
  <2>3. {c_type[Plain(b)] : b \in B} \in SUBSET SwigTypes /\ {c_type[Plain(b)] : b \in B} \subseteq CTypes
    BY <1>t, <2>2, Canonical
  <2>4. class \in Declarations /\ class.kind = "class" /\ Declares(class)
    BY <2>3, ClassDeclared
  <2>5. class.parts = {} /\ class.bases = {c_type[Plain(b)] : b \in B}
    BY DEF Decl
  <2>6. Fits(class)
    BY <2>3, <2>4, <2>5 DEF Fits
  <2>7. CASE Known(Plain(n))
    <3>1. /\ decl' = [decl EXCEPT ![o] = class] /\ c_type' = c_type /\ new_types' = new_types
          /\ Kind(o) \in {"opaque", "unknown"}
      BY <1>2, <2>7 DEF classHandler
    <3>2. o \in SwigTypes
      BY <1>t, <2>7, Canonical, PlainRegisters
    <3>3. decl[o].kind \notin {"none", "core"}
      BY <3>1 DEF Kind
    <3> HIDE DEF o, class
    <3> QED
      BY <2>1, <2>4, <2>6, <3>1, <3>2, <3>3
  <2>8. CASE ~ Known(Plain(n))
    <3>1. UNCHANGED types \/ Register({Plain(n)}, Plain(n), class)
      BY <1>2, <2>8 DEF classHandler
    <3> HIDE DEF class
    <3> QED
      BY <1>u, <2>1, <2>4, <2>6, <3>1, PlainRegisters
  <2> QED
    BY <2>7, <2>8
<1>3. ASSUME NEW n \in Names, NEW t \in Uses, typedefHandler(n, t) PROVE Goal
  <2>0. /\ pc = "parse" /\ marked' = marked /\ marked = {}
        /\ t = Plain(n) \/ t[1] # n
        /\ t \in Roots /\ t \in SwigTypes
    BY <1>3, <1>t, UsesAreRoots, RootFacts DEF typedefHandler, Handler, result
  <2> HIDE DEF Goal
  <2>1. CASE Known(Plain(n))
    <3>1. UNCHANGED types
      BY <1>3, <2>1 DEF typedefHandler
    <3> QED
      BY <1>u, <2>0, <3>1
  <2>2. CASE ~ Known(Plain(n)) /\ Known(t)
    <3>1. c_type[t] \in CTypes /\ c_type[t] \in SwigTypes /\ "typedef" \in Kinds
      BY <1>t, <2>0, <2>2, Canonical DEF Kinds
    <3>2. Decl("typedef", {c_type[t]}) \in Declarations
          /\ Decl("typedef", {c_type[t]}).kind = "typedef"
          /\ Decl("typedef", {c_type[t]}).parts = {c_type[t]}
      BY <3>1, DeclFacts
    <3>3. Declares(Decl("typedef", {c_type[t]})) /\ Fits(Decl("typedef", {c_type[t]}))
      BY <3>1, <3>2 DEF Declares, Fits
    <3>4. RegisterOrRaise({Plain(n)}, Plain(n), Decl("typedef", {c_type[t]}))
      BY <1>3, <2>2 DEF typedefHandler
    <3> QED
      BY <1>r, <2>0, <3>3, <3>4, PlainRegisters
  <2>3. CASE ~ Known(Plain(n)) /\ ~ Known(t)
    <3>1. Plain(n)[1] = n /\ Plain(n) \in Roots
      BY PlainRegisters DEF Plain
    <3>2. Registers({t, Plain(n)}, t)
      BY <2>0, <3>1 DEF Registers
    <3>4. RegisterOrRaise({t, Plain(n)}, t, Decl("opaque", {}))
      BY <1>3, <2>3 DEF typedefHandler
    <3> QED
      BY <1>f, <1>r, <2>0, <3>2, <3>4
  <2> QED
    BY <2>1, <2>2, <2>3
<1>4. ASSUME NEW n \in Names, enumDeclaration(n) PROVE Goal
  <2>1. pc = "parse" /\ marked' = marked /\ RegisterOrRaise({Plain(n)}, Plain(n), Decl("enum", {}))
    BY <1>4 DEF enumDeclaration, Handler, result
  <2> HIDE DEF Goal
  <2> QED
    BY <1>f, <1>r, <1>t, <2>1, PlainRegisters
<1>5. ASSUME \/ \E n \in Names, s \in Signatures : functionPointer(n, s)
             \/ \E s \in Signatures : functionWrapper(s)
             \/ \E t \in Uses : globalVariableHandler(t)
      PROVE  Goal
  BY <1>5 DEF functionPointer, functionWrapper, globalVariableHandler, types, result
<1>6. ASSUME demand_c_Type_for PROVE Goal
  <2>1. pc = "demand" /\ marked' = marked /\ todo # <<>> /\ todo \in Seq(Uses)
    BY <1>6 DEF demand_c_Type_for, result, Inv, ControlTyped
  <2>2. Head(todo) \in Roots
    BY <2>1, HeadThenTail, UsesAreRoots
  <2>3. PICK h \in Roots : h = Head(todo)
    BY <2>2
  <2>4. Registers({h}, h)
    BY DEF Registers
  <2>5. UNCHANGED types \/ RegisterOrRaise({h}, h, Decl("unknown", {}))
    BY <1>6, <2>3 DEF demand_c_Type_for
  <2>6. Declares(Decl("unknown", {})) /\ Fits(Decl("unknown", {})) /\ marked = {}
    BY <1>f, <1>t, <2>1
  <2>7. UNCHANGED types => UNCHANGED <<types, marked>>
    BY <2>1
  <2>8. marked' = marked
    BY <2>1
  <2> HIDE DEF Goal
  <2> QED
    BY ONLY <1>r, <1>u, <2>4, <2>5, <2>6, <2>7, <2>8
<1>7. ASSUME endDeclaration PROVE Goal
  <2>0. pc = "demand" /\ todo = <<>> /\ marked' = marked /\ marked = {}
    BY <1>7, <1>t DEF endDeclaration, result
  <2>r. /\ pending.what \in {"function", "class", "function pointer"}
        /\ Range(Resolved.params) \subseteq CTypes /\ Resolved.params \in Seq(SwigTypes)
        /\ Resolved \in Sigs
        /\ pending.what # "class" => Resolved \in FunSigs /\ TypesOf(Resolved) \subseteq CTypes
    BY <2>0, ResolvedFacts DEF FunSigs
  <2>1. CASE pending.what = "function"
    BY <1>7, <2>0, <2>1 DEF endDeclaration, types
  <2>2. CASE pending.what = "class"
    <3>1. /\ decl' = [decl EXCEPT ![pending.type].parts = Range(Resolved.params)]
          /\ UNCHANGED <<c_type, new_types>>
      BY <1>7, <2>2 DEF endDeclaration
    <3>2. PICK o, X : o = pending.type /\ X = Range(Resolved.params)
      OBVIOUS
    <3>3. o \in SwigTypes /\ decl[o].kind = "class" /\ decl[o] \in Declarations
      BY <2>0, <2>2, <3>2 DEF Inv, PendingOK, TypesOK, TypesTyped
    <3>4. X \in SUBSET SwigTypes /\ X \subseteq CTypes
      BY <2>r, <3>2, RangeOfSeq
    <3>5. PICK d : d = [decl[o] EXCEPT !.parts = X]
      OBVIOUS
    <3>6. d \in Declarations /\ d.kind = "class" /\ d.parts = X /\ d.bases = decl[o].bases
      BY <3>3, <3>4, <3>5 DEF Declarations
    <3>7. decl' = [decl EXCEPT ![o] = d]
      BY <3>1, <3>2, <3>3, <3>5 DEF Inv, TypesOK, TypesTyped
    <3>8. Fits(d)
      BY <3>3, <3>4, <3>6 DEF Fits, ClassOK
    <3> QED
      BY <2>0, <3>1, <3>3, <3>6, <3>7, <3>8
  <2>3. CASE pending.what = "function pointer"
    <3>1. Register({pending.type}, pending.type,
                   [Decl("function pointer", {}) EXCEPT !.sig = Resolved])
      BY <1>7, <2>3 DEF endDeclaration
    <3>2. PICK o, d : o = pending.type /\ d = [Decl("function pointer", {}) EXCEPT !.sig = Resolved]
      OBVIOUS
    <3>3. o \in Roots
      BY <2>0, <2>3, <3>2 DEF Inv, PendingOK
    <3>4. Registers({o}, o)
      BY <3>3 DEF Registers
    <3>5. d \in Declarations /\ d.kind = "function pointer" /\ d.sig = Resolved
      <4>1. /\ Decl("function pointer", {}) \in Declarations
            /\ Decl("function pointer", {}).kind = "function pointer"
        BY DeclFacts DEF Kinds
      <4>2. ASSUME NEW e \in Declarations, e.kind = "function pointer", NEW s \in Sigs
            PROVE  [e EXCEPT !.sig = s] \in Declarations
                   /\ [e EXCEPT !.sig = s].kind = "function pointer"
                   /\ [e EXCEPT !.sig = s].sig = s
        BY <4>2 DEF Declarations
      <4>3. PICK s \in Sigs : s = Resolved
        BY <2>r
      <4> QED
        BY <3>2, <4>1, <4>2, <4>3, Zenon
    <3>6. Declares(d) /\ Fits(d)
      BY <2>r, <2>3, <3>5 DEF Declares, Fits
    <3>7. Register({o}, o, d)
      BY <3>1, <3>2
    <3> QED
      BY <2>0, <3>4, <3>6, <3>7
  <2> QED
    BY <2>r, <2>1, <2>2, <2>3
<1>8. ASSUME endOfInput PROVE Goal
  BY <1>8, <1>t DEF endOfInput, types
<1>9. ASSUME mark PROVE Goal
  BY <1>9 DEF mark, types
<1>10. ASSUME pruneTypes PROVE Goal
  BY <1>10
<1>11. ASSUME pruneFunction \/ pruned \/ transformType \/ transformMembers PROVE Goal
  BY <1>11, <1>u DEF pruneFunction, pruned, transformType, transformMembers
<1>12. ASSUME UNCHANGED vars PROVE Goal
  BY <1>12 DEF vars
<1> HIDE DEF Goal
<1>13. Goal
  <2>1. CASE \E n \in Names :
               \/ classForwardDeclaration(n)
               \/ \E ms \in Members, B \in SUBSET (Names \ {n}) : classHandler(n, ms, B)
               \/ \E t \in Uses : typedefHandler(n, t)
               \/ enumDeclaration(n)
    BY <1>1, <1>2, <1>3, <1>4, <2>1
  <2> QED
    BY <1>5, <1>6, <1>7, <1>8, <1>9, <1>10, <1>11, <1>12, <2>1 DEF Next
<1> QED
  BY <1>13 DEF Goal

LEMMA SigNext == Inv /\ SigInv /\ [Next]_vars => SigInv'
<1> SUFFICES ASSUME Inv, SigInv, [Next]_vars PROVE SigInv'
  OBVIOUS
<1>1. TypesOK /\ ClassOK
  BY DEF Inv, SigInv
<1> QED
  BY <1>1, TypeSteps, SigSame, SigRegister, SigMorph, SigPrune
-----------------------------------------------------------------------------
(* What is pruned gets no Ada type, and what is kept gets one.                *)

\* The standard types depend on each other alone.
LEMMA CoreDepends ==
  ASSUME TypesOK, CoreOK, NEW x \in CoreTypes, NEW p \in DependsOn(x), p \in CTypes
  PROVE  p \in CoreTypes
<1>0. decl \in [SwigTypes -> Declarations] /\ x \in SwigTypes
  BY DEF TypesOK, TypesTyped, CoreTypes
<1>1. PICK n \in Core : InFamily(x, Plain(n))
  BY DEF CoreTypes
<1>2. Plain(n) \in Roots /\ decl[Plain(n)].kind = "core"
  BY PlainIsRoot DEF CoreOK
<1>3. decl[x].kind \in {"none", "core"}
  BY DEF TypesOK, DeclOK
<1>4. CASE decl[x].kind = "core"
  BY <1>4 DEF CoreOK, DependsOn, Kind, Parts
<1>5. CASE decl[x].kind = "none"
  <2>1. PICK k \in 1 .. 5 : x = Family(Plain(n))[k]
    BY <1>1 DEF InFamily
  <2>2. k # 1
    BY <1>2, <1>5, <2>1, FamilySeq
  <2>3. k \in 2 .. 5
    BY <2>2
  <2>4. p \in OrderedOf(decl[x], x)
    <3>1. DependsOn(x) \subseteq Parts(x)
      BY DEF DependsOn
    <3> QED
      BY <1>0, <1>5, <3>1, KindIs DEF Ordered
  <2>5. p = Family(Plain(n))[1] \/ p = Family(Plain(n))[3]
    BY <1>2, <1>5, <2>1, <2>3, <2>4, FamilyParts
  <2>6. InFamily(p, Plain(n))
    BY <2>5 DEF InFamily
  <2>7. p \in SwigTypes
    BY Canonical DEF TypesOK
  <2> QED
    BY <2>6, <2>7 DEF CoreTypes
<1> QED
  BY <1>3, <1>4, <1>5

\* So they are never on the list, which is the least that it can be.
LEMMA CoreUnmarked ==
  ASSUME Inv, CoreOK, pc \in {"mark", "prune", "transform", "done"}
  PROVE  CoreTypes \cap marked = {}
<1>0. TypesOK /\ \A X \in SUBSET CTypes : Unknowns \subseteq X /\ Closed(X) => marked \subseteq X
  BY DEF Inv, MarkOK
<1> DEFINE X == CTypes \ CoreTypes
<1>1. Unknowns \subseteq X
  <2>1. \A o \in CoreTypes : decl[o].kind \in {"none", "core"}
    BY <1>0 DEF TypesOK, DeclOK
  <2>2. \A o \in CoreTypes : Kind(o) # "unknown"
    BY <2>1 DEF Kind
  <2> QED
    BY <2>2 DEF Unknowns
<1>2. Closed(X)
  BY <1>0, CoreDepends DEF Closed
<1> QED
  BY <1>0, <1>1, <1>2

\* A type is on the list because it is unknown or depends on one of the list.
LEMMA MarkedCause ==
  ASSUME Inv, pc \in {"prune", "transform", "done"}, NEW x \in marked
  PROVE  x \in Unknowns \/ DependsOn(x) \cap marked # {}
<1>1. /\ marked \subseteq CTypes /\ Unknowns \subseteq marked /\ Closed(marked)
      /\ \A X \in SUBSET CTypes : Unknowns \subseteq X /\ Closed(X) => marked \subseteq X
  BY DEF Inv, MarkOK
<1> SUFFICES ASSUME x \notin Unknowns, DependsOn(x) \cap marked = {} PROVE FALSE
  OBVIOUS
<1> DEFINE X == marked \ {x}
<1>2. Unknowns \subseteq X
  BY <1>1
<1>3. Closed(X)
  <2> SUFFICES ASSUME NEW o \in CTypes, DependsOn(o) \cap X # {} PROVE o \in X
    BY DEF Closed
  <2>1. o \in marked /\ o # x
    BY <1>1 DEF Closed
  <2> QED
    BY <2>1
<1> QED
  BY <1>1, <1>2, <1>3

\* A type that is not declared, and is not on the list's account, is not on it.
LEMMA UndeclaredKept ==
  ASSUME Inv, pc \in {"prune", "transform", "done"}, NEW x \in SwigTypes, decl[x].kind = "none",
         Ordered(x) \cap marked = {}
  PROVE  x \notin marked
<1>1. Kind(x) # "unknown" /\ DependsOn(x) \subseteq Parts(x) /\ Parts(x) = Ordered(x)
  <2>1. Kind(x) \in {"array", "pointer"} /\ Parts(x) = Ordered(x)
    BY KindIs DEF Inv, TypesOK, TypesTyped
  <2> QED
    BY <2>1 DEF DependsOn
<1> QED
  BY <1>1, MarkedCause DEF Unknowns

\* What is made along with a type that was kept was kept too.
LEMMA MakesKept ==
  ASSUME Inv, pc = "transform", NEW o \in CTypes, o \notin marked, NEW x \in Makes(o)
  PROVE  x \notin marked
<1> SUFFICES ASSUME x \in marked, x # o PROVE FALSE
  OBVIOUS
<1>0. /\ TypesOK /\ pc \in {"prune", "transform", "done"} /\ decl \in [SwigTypes -> Declarations]
      /\ o \in SwigTypes /\ x \in SwigTypes
  BY Canonical DEF Inv, TypesOK, TypesTyped, MarkOK
<1>1. decl[x].kind = "none"
  BY <1>0, MakesOnlyItself
<1>2. CASE decl[o].kind # "none"
  <2>1. o \in Roots
    BY <1>0, <1>2 DEF TypesOK, DeclOK
  <2>2. Kind(o) \in Kinds /\ Kind(o) # "none"
    BY <1>0, <1>2, KindIs
  <2>3. InFamily(x, o)
    <3>1. \/ Makes(o) = {y \in SwigTypes : InFamily(y, o)}
          \/ Makes(o) = {o} \/ Makes(o) = {}
      <4>1. CASE Kind(o) \in {"class", "function pointer"}
        BY <4>1, MakesIs
      <4>2. CASE Kind(o) = "typedef"
        BY <4>2, MakesIs
      <4>3. CASE Kind(o) \in {"opaque", "enum", "core", "unknown"}
        BY <4>3, MakesIs
      <4> QED
        BY <2>2, <4>1, <4>2, <4>3 DEF Kinds
    <3> QED
      BY <3>1
  <2>4. PICK k \in 1 .. 5 : x = Family(o)[k]
    BY <2>3 DEF InFamily
  <2>5. Family(o)[1] = o
    BY <2>1, FamilySeq
  <2>6. k \in 2 .. 5
    BY <2>4, <2>5
  <2>7. \A p \in Ordered(x) : p = o \/ (p = Family(o)[3] /\ k \in {4, 5})
    BY <1>1, <2>1, <2>4, <2>5, <2>6, FamilyParts DEF Ordered
  <2>8. CASE k \notin {4, 5}
    BY <1>0, <1>1, <2>7, <2>8, UndeclaredKept
  <2>9. CASE k \in {4, 5}
    <3> DEFINE y == Family(o)[3]
    <3>1. y \in SwigTypes /\ InFamily(y, o) /\ 3 \in 2 .. 5
      <4>1. Family(o) \in Seq(SwigTypes) /\ Len(Family(o)) = 5
        BY <2>1, FamilySeq
      <4>2. 3 \in 1 .. 5 /\ 3 \in 2 .. 5
        OBVIOUS
      <4>3. \A j \in 1 .. 5 : Family(o)[j] \in SwigTypes
        BY <4>1, ElementOfSeq
      <4> QED
        BY <4>2, <4>3, Zenon DEF InFamily
    <3>2. decl[y].kind = "none"
      <4> SUFFICES ASSUME decl[y].kind # "none" PROVE FALSE
        OBVIOUS
      <4>1. y \in Roots
        BY <1>0, <3>1 DEF TypesOK, DeclOK
      <4>2. y[1] = o[1]
        BY <2>1, <3>1, FamilyIs, Zenon
      <4>3. y = o
        BY <1>0, <2>1, <3>1, <4>1, <4>2, UnderDeclared, RootOfRoot, Zenon
      <4>4. Family(o)[3] = Ptr(o) /\ Ptr(o)[2] = o[2] + 1 /\ o[2] \in {0, 1}
        BY <2>1, FamilySeq, RootFacts DEF Ptr
      <4>5. Ptr(o)[2] = o[2]
        BY <4>3, <4>4, Zenon
      <4> QED
        BY <4>4, <4>5
    <3>3. \A p \in Ordered(y) : p = o
      BY <2>1, <2>5, <3>1, <3>2, FamilyParts DEF Ordered
    <3>4. y \notin marked
      BY <1>0, <3>1, <3>2, <3>3, UndeclaredKept
    <3> QED
      BY <1>0, <1>1, <2>7, <3>4, UndeclaredKept
  <2> QED
    BY <2>8, <2>9
<1>3. CASE decl[o].kind = "none"
  <2>1. Kind(o) \in {"array", "pointer"} /\ (Kind(o) = "pointer" => ~ o[3])
    BY <1>0, <1>3, KindIs
  <2>2. Kind(o) = "pointer" /\ (x = Arr(o) \/ x = Ptr(o))
    <3>1. /\ Kind(o) = "pointer" /\ MadeWithClass(o) => Makes(o) = {}
          /\ Kind(o) = "pointer" /\ ~ MadeWithClass(o) =>
               Makes(o) = {o} \/ Makes(o) = {o, Arr(o), Ptr(o)}
          /\ Kind(o) = "array" => Makes(o) = {o}
      BY MakesIs
    <3>2. x \in Makes(o) /\ x # o
      OBVIOUS
    <3>3. Kind(o) = "array" \/ Kind(o) = "pointer"
      BY <2>1
    <3> QED
      BY ONLY <3>1, <3>2, <3>3
  <2>3. o = <<o[1], o[2], FALSE>> /\ o[2] \in Nat
    <3>1. o[2] \in 0 .. 3 /\ o[3] \in BOOLEAN /\ o = <<o[1], o[2], o[3]>>
      BY <1>0, SwigFacts
    <3>2. o[3] = FALSE
      BY <2>1, <2>2, <3>1, Zenon
    <3>3. o[2] \in Nat
      BY <3>1
    <3> QED
      BY <3>1, <3>2, <3>3, Zenon
  <2>4. Ordered(x) = {o}
    <3>1. Arr(o) = <<o[1], o[2], TRUE>> /\ Ptr(o) = <<o[1], o[2] + 1, FALSE>> /\ (o[2] + 1) - 1 = o[2]
      BY <2>3 DEF Arr, Ptr
    <3>2. /\ OrderedOf(decl[x], <<o[1], o[2], TRUE>>) = {<<o[1], o[2], FALSE>>}
          /\ OrderedOf(decl[x], <<o[1], o[2] + 1, FALSE>>) = {<<o[1], (o[2] + 1) - 1, FALSE>>}
      <4>1. \A n, l : /\ OrderedOf(decl[x], <<n, l, TRUE>>) = {<<n, l, FALSE>>}
                       /\ OrderedOf(decl[x], <<n, l, FALSE>>) = {<<n, l - 1, FALSE>>}
        BY <1>1, PartOf
      <4>2. OrderedOf(decl[x], <<o[1], o[2], TRUE>>) = {<<o[1], o[2], FALSE>>}
        BY <4>1
      <4>3. OrderedOf(decl[x], <<o[1], o[2] + 1, FALSE>>) = {<<o[1], (o[2] + 1) - 1, FALSE>>}
        BY <4>1
      <4> QED
        BY <4>2, <4>3
    <3> QED
      BY <2>2, <2>3, <3>1, <3>2, Zenon DEF Ordered
  <2> QED
    BY <1>0, <1>1, <2>4, UndeclaredKept
<1> QED
  BY <1>2, <1>3

\* While it transforms, the types before the index have Ada types, no pruned one has.
LEMMA KeptMade ==
  ASSUME Inv, pc = "transform", marked \cap ada = {}, at > Len(new_types)
  PROVE  CTypes \ marked \subseteq ada
<1>1. /\ CTypes \subseteq CoreTypes \cup Range(new_types) \cup marked /\ CoreTypes \subseteq ada
      /\ new_types \in Seq(SwigTypes) /\ at \in Nat
      /\ \A j \in 1 .. Len(new_types) : j < at => new_types[j] \in ada
  BY DEF Inv, TypesOK, TypesTyped, ListedOK, MadeOK, ControlTyped
<1>2. Range(new_types) = {new_types[i] : i \in 1 .. Len(new_types)}
  BY <1>1, RangeEquality
<1>3. \A i \in 1 .. Len(new_types) : i < at
  BY <1>1, LenProperties
<1> QED
  BY <1>1, <1>2, <1>3

LEMMA IndexFacts ==
  ASSUME NEW S, NEW s \in Seq(S), NEW a \in Nat, 1 <= a, a <= Len(s)
  PROVE  a \in 1 .. Len(s) /\ \A i \in 1 .. a - 1 : i \in 1 .. Len(s) /\ i < a
BY LenProperties

\* The types of a function pointer whose turn it is have Ada types unless pruned.
LEMMA TurnSignature ==
  ASSUME Inv, SigOK, pc = "transform", at <= Len(new_types), IsPointer(new_types[at])
  PROVE  /\ decl[new_types[at]].sig \in FunSigs
         /\ \A p \in TypesOf(decl[new_types[at]].sig) : p \in ada \/ p \in marked
<1>1. /\ new_types \in Seq(SwigTypes) /\ at \in Nat /\ 1 <= at /\ CoreTypes \subseteq ada
      /\ \A j \in 1 .. Len(new_types) : j < at => new_types[j] \in ada
  BY DEF Inv, TypesOK, TypesTyped, ControlTyped, MadeOK
<1>2. at \in 1 .. Len(new_types) /\ \A i \in 1 .. at - 1 : i \in 1 .. Len(new_types) /\ i < at
  BY <1>1, IndexFacts, Zenon
<1>3. new_types[at] \in SwigTypes
  BY <1>1, <1>2, ElementOfSeq
<1> QED
  BY <1>1, <1>2, <1>3 DEF SigOK

\* Leaving out the members of one set or of another comes to the same if they
\* have the same elements of s; it leaves s as it is if they have none.
LEMMA WithoutSame ==
  ASSUME NEW s, NEW M, NEW M2, \A j \in 1 .. Len(s) : s[j] \in M <=> s[j] \in M2
  PROVE  Without(s, M) = Without(s, M2)
<1>1. {j \in 1 .. Len(s) : s[j] \notin M} = {j \in 1 .. Len(s) : s[j] \notin M2}
  OBVIOUS
<1> DEFINE W(K) == [k \in 1 .. Cardinality(K) |->
                      s[CHOOSE j \in K : Cardinality({i \in K : i <= j}) = k]]
<1>2. /\ Without(s, M) = W({j \in 1 .. Len(s) : s[j] \notin M})
      /\ Without(s, M2) = W({j \in 1 .. Len(s) : s[j] \notin M2})
  BY DEF Without
<1> HIDE DEF W
<1> QED
  BY <1>1, <1>2, Zenon

LEMMA WithoutNone ==
  ASSUME NEW A, NEW s \in Seq(A), NEW M, \A j \in 1 .. Len(s) : s[j] \notin M
  PROVE  Without(s, M) = s
<1>0. Len(s) \in Nat
  BY LenProperties
<1> DEFINE n == Len(s)
           K == {j \in 1 .. n : s[j] \notin M}
           e(k) == CHOOSE j \in K : Cardinality({i \in K : i <= j}) = k
<1>1. K = 1 .. n
  OBVIOUS
<1>2. ASSUME NEW j \in 1 .. n PROVE Cardinality({i \in K : i <= j}) = j
  <2>1. {i \in K : i <= j} = 1 .. j
    BY <1>0, <1>1
  <2>2. j \in Nat
    BY <1>0
  <2>3. Cardinality(1 .. j) = j
    BY <2>2, FS_Interval
  <2> QED
    BY <2>1, <2>3
<1>3. Cardinality(K) = n
  <2>1. Cardinality(1 .. n) = n
    BY <1>0, FS_Interval
  <2> HIDE DEF K
  <2> QED
    BY <1>1, <2>1, Zenon
<1>w. Without(s, M) = [k \in 1 .. Cardinality(K) |-> s[e(k)]]
  BY DEF Without
<1>4. ASSUME NEW k \in 1 .. n PROVE e(k) = k
  BY <1>1, <1>2
<1> HIDE DEF e, K
<1>5. Without(s, M) = [k \in 1 .. n |-> s[k]]
  BY <1>3, <1>4, <1>w
<1>6. s = [k \in 1 .. n |-> s[k]]
  OBVIOUS
<1> QED
  BY <1>5, <1>6

\* What the pruning and the making of Ada types keep apart.
BindInv ==
  /\ pc \in {"prune", "transform", "done"} => marked \cap ada = {}
  /\ pc \in {"parse", "demand", "mark", "prune"} => bound = {}
  /\ BoundComplete

LEMMA BindInit == Init => BindInv
BY DEF Init, BindInv, BoundComplete

LEMMA BindNext == Inv /\ SigInv /\ BindInv /\ [Next]_vars => BindInv'
<1> SUFFICES ASSUME Inv, SigInv, BindInv, [Next]_vars PROVE BindInv'
  OBVIOUS
<1>i. pc \notin {"parse", "demand", "mark", "prune"} \/ bound = {}
  BY DEF BindInv
<1>1. ASSUME bound = {}, bound' = {}, pc' \notin {"prune", "transform", "done"} PROVE BindInv'
  BY <1>1 DEF BindInv, BoundComplete
<1>2. CASE \E n \in Names :
             \/ classForwardDeclaration(n)
             \/ \E ms \in Members, B \in SUBSET (Names \ {n}) : classHandler(n, ms, B)
             \/ \E t \in Uses : typedefHandler(n, t)
             \/ \E s \in Signatures : functionPointer(n, s)
             \/ enumDeclaration(n)
  <2>1. pc = "parse" /\ bound' = bound
    BY <1>2 DEF Handler, classForwardDeclaration, classHandler, typedefHandler, functionPointer,
                enumDeclaration, result
  <2>2. pc' \in {"parse", "demand", Insert, Lookup}
    BY <1>2, <2>1 DEF classForwardDeclaration, classHandler, typedefHandler, functionPointer,
                enumDeclaration, RegisterOrRaise, Raise
  <2> QED
    BY <1>i, <1>1, <2>1, <2>2 DEF Insert, Lookup
<1>3. CASE \/ \E s \in Signatures : functionWrapper(s)
           \/ \E t \in Uses : globalVariableHandler(t)
           \/ demand_c_Type_for \/ endDeclaration
  <2>1. pc \in {"parse", "demand"} /\ bound' = bound
    BY <1>3 DEF Handler, functionWrapper, globalVariableHandler, demand_c_Type_for, endDeclaration,
                result
  <2>2. pc' \in {"parse", "demand", Insert, Lookup}
    BY <1>3, <2>1 DEF functionWrapper, globalVariableHandler, demand_c_Type_for, endDeclaration,
                Handler, RegisterOrRaise, Raise
  <2> QED
    BY <1>i, <1>1, <2>1, <2>2 DEF Insert, Lookup
<1>4. CASE endOfInput \/ mark
  <2>1. pc \in {"parse", "mark"} /\ pc' = "mark" /\ bound' = bound
    BY <1>4 DEF endOfInput, mark
  <2> QED
    BY <1>i, <1>1, <2>1
<1>5. CASE pruneTypes
  <2>1. pc = "mark" /\ pc' = "prune" /\ UNCHANGED <<marked, ada, bound>>
    BY <1>5 DEF pruneTypes
  <2>2. ada = CoreTypes /\ CoreTypes \cap marked = {}
    BY <2>1, CoreUnmarked DEF Inv, MadeOK, SigInv
  <2> QED
    BY <1>i, <2>1, <2>2 DEF BindInv, BoundComplete
<1>6. CASE pruneFunction \/ pruned
  <2>1. pc = "prune" /\ pc' \in {"prune", "transform"} /\ UNCHANGED <<marked, ada, bound>>
    BY <1>6 DEF pruneFunction, pruned
  <2> QED
    BY <1>i, <2>1 DEF BindInv, BoundComplete
<1>7. CASE transformType
  <2>0. /\ pc = "transform" /\ at <= Len(new_types) /\ marked' = marked /\ marked \cap ada = {}
        /\ BoundComplete
    BY <1>7 DEF transformType, BindInv
  <2>s. PICK o : o = new_types[at]
    OBVIOUS
  <2>1. CASE o \notin ada /\ ~ Needs(o) \subseteq ada
    <3>1. pc' = Lookup /\ bound' = bound
      BY <1>7, <2>1, <2>s DEF transformType, Raise
    <3> QED
      BY <2>0, <3>1 DEF BindInv, BoundComplete, Lookup
  <2>2. CASE ~ (o \notin ada /\ ~ Needs(o) \subseteq ada)
    <3>1. /\ pc' = pc /\ ada' = IF o \in ada THEN ada ELSE ada \cup Makes(o)
          /\ bound' = IF o \notin ada /\ Kind(o) = "function pointer"
                      THEN bound \cup {Subprogram("function pointer", decl[o].sig)} ELSE bound
      BY <1>7, <2>2, <2>s DEF transformType
    <3>2. marked \cap ada' = {}
      <4>1. o \in CTypes /\ o \notin marked
        <5>1. at \in 1 .. Len(new_types) /\ new_types \in Seq(SwigTypes)
          BY <2>0, IndexFacts DEF Inv, TypesOK, TypesTyped, ControlTyped, MadeOK
        <5>2. o \in Range(new_types)
          BY <2>s, <5>1, InRange
        <5> QED
          BY <2>0, <5>2 DEF Inv, TypesOK, ListedOK, CleanOK
      <4>2. \A x \in Makes(o) : x \notin marked
        BY <2>0, <4>1, MakesKept
      <4> QED
        BY <2>0, <3>1, <4>2
    <3>3. ASSUME Kind(o) = "function pointer"
          PROVE  Without(decl[o].sig.params, SwigTypes \ ada) = Without(decl[o].sig.params, marked)
      <4>1. IsPointer(o)
        BY <3>3 DEF Kind, IsPointer
      <4>2. /\ decl[o].sig \in FunSigs
            /\ \A p \in TypesOf(decl[o].sig) : p \in ada \/ p \in marked
        BY <2>0, <2>s, <4>1, TurnSignature DEF SigInv
      <4>3. PICK ps : ps = decl[o].sig.params
        OBVIOUS
      <4>4. ps \in Seq(SwigTypes) /\ \A j \in 1 .. Len(ps) : ps[j] \in ada \/ ps[j] \in marked
        <5>1. ps \in Seq(SwigTypes)
          BY <4>2, <4>3 DEF FunSigs
        <5>2. \A j \in 1 .. Len(ps) : ps[j] \in Range(ps)
          BY <5>1, InRange
        <5>3. Range(ps) \subseteq TypesOf(decl[o].sig)
          BY <4>3 DEF TypesOf
        <5> QED
          BY <4>2, <5>1, <5>2, <5>3
      <4>5. \A j \in 1 .. Len(ps) : ps[j] \in SwigTypes \ ada <=> ps[j] \in marked
        <5>1. \A j \in 1 .. Len(ps) : ps[j] \in SwigTypes
          BY <4>4, ElementOfSeq
        <5> QED
          BY <2>0, <4>4, <5>1
      <4> QED
        BY <4>3, <4>5, WithoutSame
    <3>4. \A b \in bound' :
            b.params = IF b.what = "function" THEN b.sig.params ELSE Without(b.sig.params, marked)
      <4>1. CASE bound' = bound
        BY <2>0, <4>1 DEF BoundComplete
      <4>2. CASE Kind(o) = "function pointer"
                 /\ bound' = bound \cup {Subprogram("function pointer", decl[o].sig)}
        <5>1. PICK b : b = Subprogram("function pointer", decl[o].sig)
          OBVIOUS
        <5>2. b.what = "function pointer" /\ b.sig = decl[o].sig
              /\ b.params = Without(decl[o].sig.params, SwigTypes \ ada)
          BY <5>1 DEF Subprogram, to_ada_Parameters
        <5>3. b.params = IF b.what = "function" THEN b.sig.params ELSE Without(b.sig.params, marked)
          BY <3>3, <4>2, <5>2
        <5> QED
          BY <2>0, <4>2, <5>1, <5>3 DEF BoundComplete
      <4> QED
        BY <3>1, <4>1, <4>2
    <3>5. BoundComplete'
      BY <2>0, <3>4 DEF BoundComplete
    <3> QED
      BY <2>0, <3>1, <3>2, <3>5 DEF BindInv
  <2> QED
    BY <2>1, <2>2
<1>8. CASE transformMembers
  <2>0. /\ pc = "transform" /\ UNCHANGED <<marked, ada, functions>> /\ marked \cap ada = {}
        /\ at > Len(new_types) /\ BoundComplete /\ pc' \in {"done", Lookup}
    BY <1>8 DEF transformMembers, BindInv, items, Raise
  <2>1. CASE bound' = bound
    BY <2>0, <2>1 DEF BindInv, BoundComplete, Lookup
  <2>2. CASE bound' = bound \cup {Subprogram("function", f) : f \in Range(functions)}
    <3>1. /\ functions \in Seq([ret : SwigTypes, params : Seq(SwigTypes)])
          /\ \A j \in 1 .. Len(functions) : Clean(functions[j]) /\ TypesOf(functions[j]) \subseteq CTypes
      BY <2>0 DEF Inv, ItemsTyped, ItemsOK, CleanOK
    <3>2. CTypes \ marked \subseteq ada
      BY <2>0, KeptMade
    <3>3. ASSUME NEW f \in Range(functions) PROVE Without(f.params, SwigTypes \ ada) = f.params
      <4>1. PICK j \in 1 .. Len(functions) : f = functions[j]
        BY <3>1, RangeEquality
      <4>2. f.params \in Seq(SwigTypes) /\ TypesOf(f) \subseteq ada
        <5>1. f \in [ret : SwigTypes, params : Seq(SwigTypes)]
          BY <3>1, <4>1, ElementOfSeq
        <5>2. TypesOf(f) \subseteq ada
          BY <3>1, <3>2, <4>1 DEF Clean
        <5> QED
          BY <5>1, <5>2
      <4>3. \A i \in 1 .. Len(f.params) : f.params[i] \in TypesOf(f)
        BY <4>2, InRange DEF TypesOf
      <4> QED
        BY <4>2, <4>3, WithoutNone
    <3>4. \A b \in bound' : b \in bound \/ (b.what = "function" /\ b.params = b.sig.params)
      <4>1. ASSUME NEW f \in Range(functions), NEW b, b = Subprogram("function", f)
            PROVE  b.what = "function" /\ b.params = b.sig.params
        BY <3>3, <4>1 DEF Subprogram, to_ada_Parameters
      <4> QED
        BY <2>2, <4>1
    <3>5. BoundComplete'
      BY <2>0, <3>4 DEF BoundComplete
    <3> QED
      BY <2>0, <3>5 DEF BindInv, Lookup
  <2> QED
    BY <1>8, <2>1, <2>2 DEF transformMembers
<1>9. CASE UNCHANGED vars
  <2>1. UNCHANGED <<pc, marked, ada, bound>>
    BY <1>9 DEF vars
  <2> QED
    BY <2>1 DEF BindInv, BoundComplete
<1> QED
  BY <1>2, <1>3, <1>4, <1>5, <1>6, <1>7, <1>8, <1>9 DEF Next

LEMMA BindHolds == Spec => [](Inv /\ SigInv /\ BindInv)
<1>1. Init => Inv /\ SigInv /\ BindInv
  BY InvInit, SigInit, BindInit
<1>2. Inv /\ SigInv /\ BindInv /\ [Next]_vars => (Inv /\ SigInv /\ BindInv)'
  BY InvNext, SigNext, BindNext
<1> QED
  BY <1>1, <1>2, PTL DEF Spec

\* transform looks up an Ada type that is not there only for the result of a
\* function pointer or the base of a class, and only where that was pruned: every
\* other type is met after those it is made of, in the first pass as in the second.
THEOREM AdaTypesAlwaysInOrder == Spec => []AdaTypesInOrder
<1>1. ASSUME Inv, SigInv, BindInv PROVE AdaTypesInOrder
  <2> SUFFICES ASSUME pc = "transform" PROVE AdaTypesInOrder
    BY DEF AdaTypesInOrder
  <2>0. /\ new_types \in Seq(SwigTypes) /\ at \in Nat /\ 1 <= at /\ OrderOK
        /\ decl \in [SwigTypes -> Declarations] /\ CoreTypes \subseteq ada
        /\ \A j \in 1 .. Len(new_types) : j < at =>
             new_types[j] \in ada /\ (OfClass(new_types[j]) => Ptr(new_types[j]) \in ada)
        /\ SigOK /\ ClassOK /\ marked \cap ada = {}
    BY <1>1 DEF Inv, TypesOK, TypesTyped, ControlTyped, MadeOK, SigInv, BindInv
  <2>1. ASSUME at <= Len(new_types), NEW o, o = new_types[at], NEW p \in Needs(o), p \notin ada
        PROVE  Kind(o) = "function pointer" /\ p \in marked
    <3>2. /\ at \in 1 .. Len(new_types)
          /\ \A i \in 1 .. at - 1 : i \in 1 .. Len(new_types) /\ i < at
      BY <2>0, <2>1, IndexFacts, Zenon
    <3>3. o \in SwigTypes
      BY <2>0, <2>1, <3>2, ElementOfSeq
    <3>4. CASE Kind(o) = "function pointer"
      <4>1. IsPointer(o) /\ p = decl[o].sig.ret
        BY <2>1, <3>4 DEF Kind, IsPointer, Needs
      <4> QED
        BY <1>1, <2>0, <2>1, <3>4, <4>1, TurnSignature DEF TypesOf
    <3>5. CASE Kind(o) # "function pointer"
      <4>1. Kind(o) \in {"typedef", "array", "pointer"} /\ p \in Parts(o)
        BY <2>1, <3>5 DEF Needs
      <4>2. Parts(o) = Ordered(o)
        <5>1. CASE decl[o].kind = "none"
          BY <2>0, <3>3, <5>1, KindIs
        <5>2. CASE decl[o].kind # "none"
          BY <2>0, <3>3, <4>1, <5>2, KindIs DEF Parts, Ordered, OrderedOf, Kinds
        <5> QED
          BY <5>1, <5>2
      <4>3. p \in CoreTypes \/ \E i \in 1 .. at - 1 : new_types[i] = p
        BY <2>0, <2>1, <3>2, <4>1, <4>2 DEF OrderOK
      <4> QED
        BY <2>0, <2>1, <3>2, <4>3
    <3> QED
      BY <3>4, <3>5
  <2>2. ASSUME ~ (at <= Len(new_types)), NEW t \in (MemberTypes \cup ItemTypes) \ ada
        PROVE  t \in Bases \cap marked
    <3>0. at > Len(new_types) /\ Len(new_types) \in Nat
      BY <2>0, <2>2
    <3>1. CTypes \ marked \subseteq ada
      BY <1>1, <2>0, <3>0, KeptMade
    <3>2. CASE t \in ItemTypes
      <4>1. /\ functions \in Seq([ret : SwigTypes, params : Seq(SwigTypes)])
            /\ \A j \in 1 .. Len(functions) : Clean(functions[j]) /\ TypesOf(functions[j]) \subseteq CTypes
            /\ Range(variables) \subseteq CTypes /\ Range(variables) \cap marked = {}
        BY <1>1 DEF Inv, ItemsTyped, ItemsOK, CleanOK
      <4>2. Range(functions) = {functions[j] : j \in 1 .. Len(functions)}
        BY <4>1, RangeEquality
      <4>3. \A f \in Range(functions) : f.ret \in CTypes \ marked
        BY <4>1, <4>2 DEF Clean, TypesOf
      <4> QED
        BY <2>2, <3>1, <3>2, <4>1, <4>3 DEF ItemTypes
    <3>3. CASE t \in MemberTypes
      <4>1. PICK o \in Range(new_types) : Kind(o) = "class" /\ t \in Parts(o) \cup decl[o].bases
        BY <3>3 DEF MemberTypes
      <4>2. PICK j \in 1 .. Len(new_types) : o = new_types[j]
        BY <2>0, RangeEquality
      <4>3. o \in SwigTypes /\ j < at
        BY <2>0, <3>0, <4>2, ElementOfSeq
      <4>4. decl[o].kind = "class" /\ Parts(o) = decl[o].parts
        BY <4>1 DEF Kind, Parts
      <4>5. t \in CTypes /\ t \in marked
        <5>1. t \in CTypes
          BY <2>0, <4>1, <4>3, <4>4 DEF ClassOK
        <5> QED
          BY <2>2, <3>1, <5>1
      <4>6. t \notin Parts(o)
        <5> SUFFICES ASSUME t \in Parts(o) PROVE FALSE
          OBVIOUS
        <5>1. DependsOn(o) \cap marked = {}
          BY <1>1, <4>1 DEF Inv, TypesOK, ListedOK, MarkOK, CleanOK, Closed
        <5>2. t = Ptr(o)
          BY <4>1, <4>5, <5>1 DEF DependsOn
        <5>3. Ptr(o) \in ada
          BY <2>0, <4>1, <4>2, <4>3 DEF OfClass
        <5> QED
          BY <2>2, <5>2, <5>3
      <4> QED
        BY <4>1, <4>5, <4>6 DEF Bases
    <3> QED
      BY <2>2, <3>2, <3>3
  <2> QED
    BY <2>1, <2>2, Zenon DEF AdaTypesInOrder
<1> QED
  BY <1>1, BindHolds, PTL

\* to_ada_Parameters leaves no parameter out of the subprogram of a function, and
\* out of that of a function pointer exactly those whose types were pruned.
THEOREM BoundAlwaysComplete == Spec => []BoundComplete
<1>1. BindInv => BoundComplete
  BY DEF BindInv
<1> QED
  BY <1>1, BindHolds, PTL
-----------------------------------------------------------------------------
(* The list not_fully_known_Types is what Reaches computes.                 *)

LEMMA Least ==
  ASSUME NEW T \in SUBSET Nat, T # {}
  PROVE  \E x \in T : \A y \in T : x <= y
<1> DEFINE R == OpToRel(<, Nat)
<1>1. IsWellFoundedOn(R, Nat)
  BY NatLessThanWellFounded
<1>2. \A x, y \in Nat : <<y, x>> \in R <=> y < x
  BY DEF OpToRel
<1> HIDE DEF R
<1>3. PICK x \in T : \A y \in T : ~ (<<y, x>> \in R)
  BY <1>1, WFMin
<1>4. \A y \in T : ~ (y < x)
  BY <1>2, <1>3, Zenon
<1>5. \A y \in T : x <= y
  BY <1>4
<1> QED
  BY <1>5

\* Induction up to n, for a property given as the set of numbers that have it.
LEMMA UpToAll ==
  ASSUME NEW n \in Nat, NEW S, 0 \in S, \A k \in 1 .. n : k - 1 \in S => k \in S
  PROVE  \A k \in 0 .. n : k \in S
<1> DEFINE T == {k \in 0 .. n : k \notin S}
<1> SUFFICES ASSUME T # {} PROVE FALSE
  OBVIOUS
<1>1. T \in SUBSET Nat
  OBVIOUS
<1>2. PICK x \in T : \A y \in T : x <= y
  BY <1>1, Least, Zenon
<1>3. x \in 1 .. n /\ x - 1 \in 0 .. n /\ ~ (x <= x - 1)
  BY DEF T
<1>4. x - 1 \in S
  BY <1>2, <1>3
<1> QED
  BY <1>3, <1>4

Grows(C, G)    == \A X \in SUBSET C : X \subseteq G[X]
Stays(C, G, M) == \A X \in SUBSET C : X \subseteq M => G[X] \subseteq M

\* w is what repeating G, a function on the subsets of C, makes of U in n steps.
Repeats(w, n, C, U, G) ==
  w \in [0 .. n -> SUBSET C] /\ w[0] = U /\ \A k \in 1 .. n : w[k] = G[w[k - 1]]

LEMMA RepeatsExists ==
  ASSUME NEW C, NEW U \in SUBSET C, NEW G \in [SUBSET C -> SUBSET C], NEW n \in Nat
  PROVE  \E w : Repeats(w, n, C, U, G)
<1> DEFINE S == {k \in 0 .. n : \E w : Repeats(w, k, C, U, G)}
<1>1. 0 \in S
  <2> DEFINE w == [k \in 0 .. 0 |-> U]
  <2>1. w \in [0 .. 0 -> SUBSET C] /\ w[0] = U /\ \A k \in 1 .. 0 : FALSE
    OBVIOUS
  <2> HIDE DEF w
  <2>2. Repeats(w, 0, C, U, G)
    BY <2>1 DEF Repeats
  <2> QED
    BY <2>2
<1>2. ASSUME NEW k \in 1 .. n, k - 1 \in S PROVE k \in S
  <2>1. PICK w : Repeats(w, k - 1, C, U, G)
    BY <1>2
  <2>2. /\ w \in [0 .. k - 1 -> SUBSET C] /\ w[0] = U
        /\ \A j \in 1 .. k - 1 : w[j] = G[w[j - 1]]
    BY <2>1 DEF Repeats
  <2> DEFINE v == [j \in 0 .. k |-> IF j = k THEN G[w[k - 1]] ELSE w[j]]
  <2>3. k - 1 \in 0 .. k - 1 /\ 0 # k /\ 0 \in 0 .. k
    OBVIOUS
  <2>4. \A j \in 0 .. k : j # k => j \in 0 .. k - 1
    OBVIOUS
  <2>5. v \in [0 .. k -> SUBSET C] /\ v[0] = U
    BY <2>2, <2>3, <2>4
  <2>6. ASSUME NEW j \in 1 .. k PROVE v[j] = G[v[j - 1]]
    <3>1. j \in 0 .. k /\ j - 1 \in 0 .. k /\ j - 1 # k
      OBVIOUS
    <3>2. v[j - 1] = w[j - 1]
      BY <3>1
    <3>3. v[j] = IF j = k THEN G[w[k - 1]] ELSE w[j]
      BY <3>1
    <3>4. j # k => j \in 1 .. k - 1
      OBVIOUS
    <3> QED
      BY <2>2, <3>2, <3>3, <3>4
  <2> HIDE DEF v
  <2>7. Repeats(v, k, C, U, G)
    BY <2>5, <2>6 DEF Repeats
  <2>8. k \in 0 .. n
    OBVIOUS
  <2> QED
    BY <2>7, <2>8
<1> HIDE DEF S
<1>3. \A k \in 0 .. n : k \in S
  BY <1>1, <1>2, UpToAll
<1>4. n \in S
  BY <1>3
<1> QED
  BY <1>4 DEF S

\* Repeating stays between U and any set that G does not leave.
LEMMA RepeatsBetween ==
  ASSUME NEW C, NEW U \in SUBSET C, NEW G \in [SUBSET C -> SUBSET C], NEW n \in Nat,
         NEW w, Repeats(w, n, C, U, G),
         Grows(C, G), NEW M, U \subseteq M, Stays(C, G, M)
  PROVE  \A k \in 0 .. n : U \subseteq w[k] /\ w[k] \subseteq M
<1> DEFINE S == {k \in 0 .. n : U \subseteq w[k] /\ w[k] \subseteq M}
<1>0. w \in [0 .. n -> SUBSET C] /\ w[0] = U /\ \A k \in 1 .. n : w[k] = G[w[k - 1]]
  BY DEF Repeats
<1>1. 0 \in S
  BY <1>0
<1>2. ASSUME NEW k \in 1 .. n, k - 1 \in S PROVE k \in S
  <2>1. k \in 0 .. n /\ k - 1 \in 0 .. n
    OBVIOUS
  <2>2. w[k - 1] \in SUBSET C /\ w[k] = G[w[k - 1]]
    BY <1>0, <2>1
  <2> QED
    BY <1>2, <2>1, <2>2 DEF Grows, Stays
<1> HIDE DEF S
<1>3. \A k \in 0 .. n : k \in S
  BY <1>1, <1>2, UpToAll
<1> QED
  BY <1>3 DEF S

\* Adding something at each step, it comes to an end within as many steps as C
\* has members.
LEMMA RepeatsEnds ==
  ASSUME NEW C, IsFiniteSet(C), NEW U \in SUBSET C, NEW G \in [SUBSET C -> SUBSET C],
         NEW w, Repeats(w, Cardinality(C), C, U, G),
         Grows(C, G)
  PROVE  w[Cardinality(C)] \in SUBSET C /\ G[w[Cardinality(C)]] = w[Cardinality(C)]
<1> DEFINE n == Cardinality(C)
           S == {k \in 0 .. n : G[w[k]] = w[k] \/ Cardinality(w[k]) >= k}
<1>0. n \in Nat
  BY FS_CardinalityType
<1> HIDE DEF n
<1>1. w \in [0 .. n -> SUBSET C] /\ w[0] = U /\ \A k \in 1 .. n : w[k] = G[w[k - 1]]
  BY DEF Repeats, n
<1>2. \A X \in SUBSET C : IsFiniteSet(X) /\ Cardinality(X) \in Nat
  BY FS_Subset, FS_CardinalityType
<1>3. 0 \in S
  BY <1>0, <1>1, <1>2
<1>4. ASSUME NEW k \in 1 .. n, k - 1 \in S PROVE k \in S
  <2>1. k \in 0 .. n /\ k - 1 \in 0 .. n /\ k \in Nat
    BY <1>0
  <2>2. PICK X, Y : X = w[k - 1] /\ Y = w[k]
    OBVIOUS
  <2>3. X \in SUBSET C /\ Y \in SUBSET C /\ Y = G[X] /\ X \subseteq Y
    BY <1>1, <2>1, <2>2 DEF Grows
  <2>4. CASE X = Y
    BY <2>1, <2>2, <2>3, <2>4
  <2>5. CASE X # Y /\ G[X] = X
    BY <2>3, <2>5
  <2>6. CASE X # Y /\ G[X] # X
    <3>1. Cardinality(X) >= k - 1
      BY <1>4, <2>2, <2>6
    <3>2. IsFiniteSet(Y) /\ Cardinality(X) \in Nat /\ Cardinality(Y) \in Nat
      BY <1>2, <2>3
    <3>3. Cardinality(X) <= Cardinality(Y) /\ (Cardinality(Y) = Cardinality(X) => Y = X)
      BY <2>3, <3>2, FS_Subset
    <3>4. Cardinality(Y) >= k
      BY <2>1, <2>6, <3>1, <3>2, <3>3
    <3> QED
      BY <2>1, <2>2, <3>4
  <2> QED
    BY <2>4, <2>5, <2>6
<1> HIDE DEF S
<1>5. \A k \in 0 .. n : k \in S
  BY <1>0, <1>3, <1>4, UpToAll
<1>6. PICK X : X = w[n]
  OBVIOUS
<1>7. n \in 0 .. n /\ X \in SUBSET C
  BY <1>0, <1>1, <1>6
<1>8. G[X] = X \/ Cardinality(X) >= n
  BY <1>5, <1>6, <1>7 DEF S
<1>9. ASSUME Cardinality(X) >= n PROVE G[X] = X
  <2>1. Cardinality(X) <= n /\ (n = Cardinality(X) => C = X)
    BY <1>7, FS_Subset DEF n
  <2>2. Cardinality(X) \in Nat
    BY <1>2, <1>7
  <2>3. C = X
    BY <1>0, <1>9, <2>1, <2>2
  <2>4. G[X] \in SUBSET C /\ X \subseteq G[X]
    BY <1>7 DEF Grows
  <2> QED
    BY <2>3, <2>4
<1> QED
  BY <1>6, <1>7, <1>8, <1>9 DEF n

LEMMA SwigTypesFinite == IsFiniteSet(SwigTypes)
<1> DEFINE N == Names \cup Core
           P == (N \X (0 .. 3)) \X BOOLEAN
           f == [x \in SwigTypes |-> <<<<x[1], x[2]>>, x[3]>>]
<1>1. IsFiniteSet(N)
  BY AdaBindingAssumption
<1>2. IsFiniteSet(0 .. 3)
  <2>1. 0 \in Int /\ 3 \in Int
    OBVIOUS
  <2> QED
    BY <2>1, FS_Interval, Zenon
<1>3. IsFiniteSet(BOOLEAN)
  <2>1. ASSUME NEW a, NEW b PROVE IsFiniteSet({a} \cup {b})
    BY FS_Singleton, FS_AddElement
  <2>2. BOOLEAN = {TRUE} \cup {FALSE}
    OBVIOUS
  <2> QED
    BY <2>1, <2>2, Zenon
<1> HIDE DEF N
<1>4. IsFiniteSet(N \X (0 .. 3))
  BY <1>1, <1>2, FS_Product
<1>5. IsFiniteSet(P)
  BY <1>3, <1>4, FS_Product
<1>6. \A x \in SwigTypes : x[1] \in N /\ x[2] \in 0 .. 3 /\ x[3] \in BOOLEAN /\ x = <<x[1], x[2], x[3]>>
  BY SwigFacts DEF N
<1>7. f \in [SwigTypes -> P]
  BY <1>6
<1>8. ASSUME NEW x \in SwigTypes, NEW y \in SwigTypes, f[x] = f[y] PROVE x = y
  <2>1. <<<<x[1], x[2]>>, x[3]>> = <<<<y[1], y[2]>>, y[3]>>
    BY <1>8
  <2>2. <<x[1], x[2]>> = <<y[1], y[2]>> /\ x[3] = y[3]
    BY <2>1, Zenon
  <2>3. x[1] = y[1] /\ x[2] = y[2]
    BY <2>2, Zenon
  <2> QED
    BY <1>6, <2>2, <2>3, Zenon
<1> HIDE DEF f, P
<1>9. f \in Injection(SwigTypes, P)
  BY <1>7, <1>8 DEF Injection, IsInjective
<1> QED
  BY <1>5, <1>9, FS_Injection

\* Reaches is the least closed set of C types with the unknown ones.
LEMMA ReachesLeast ==
  ASSUME NEW C, C = CTypes, IsFiniteSet(C)
  PROVE  /\ Reaches \in SUBSET C /\ Unknowns \subseteq Reaches /\ Closed(Reaches)
         /\ \A M : Unknowns \subseteq M /\ Closed(M) => Reaches \subseteq M
<1> DEFINE n == Cardinality(C)
           Near(X) == X \cup {o \in C : DependsOn(o) \cap X # {}}
           G == [X \in SUBSET C |-> Near(X)]
           Eq(w) == w = [k \in 0 .. n |-> IF k = 0 THEN Unknowns ELSE Near(w[k - 1])]
           within == CHOOSE w : Eq(w)
<1>0. n \in Nat
  BY FS_CardinalityType
<1>1. Reaches = within[n]
  BY DEF Reaches, Unknowns
<1>2. /\ Unknowns \in SUBSET C /\ G \in [SUBSET C -> SUBSET C]
      /\ \A X \in SUBSET C : G[X] = Near(X) /\ X \subseteq G[X]
  BY DEF Unknowns
<1> HIDE DEF n, G, within
<1>3. PICK v : Repeats(v, n, C, Unknowns, G)
  BY <1>0, <1>2, RepeatsExists
<1>4. /\ v \in [0 .. n -> SUBSET C] /\ v[0] = Unknowns
      /\ \A k \in 1 .. n : v[k] = G[v[k - 1]]
  BY <1>3 DEF Repeats
<1>5. ASSUME NEW k \in 0 .. n, k # 0 PROVE k \in 1 .. n /\ k - 1 \in 0 .. n
  BY <1>0, <1>5
<1>6. Eq(v)
  <2>1. \A k \in 0 .. n : v[k] = IF k = 0 THEN Unknowns ELSE Near(v[k - 1])
    BY <1>2, <1>4, <1>5
  <2> QED
    BY <1>4, <2>1
<1> HIDE DEF Eq
<1>7. Eq(within)
  BY <1>6, Zenon DEF within
<1> USE DEF Eq
<1>8. Repeats(within, n, C, Unknowns, G)
  <2>1. /\ within[0] = Unknowns
        /\ \A k \in 1 .. n : within[k] = Near(within[k - 1])
    <3>1. 0 \in 0 .. n /\ \A k \in 1 .. n : k \in 0 .. n /\ k # 0
      BY <1>0
    <3> QED
      BY <1>7, <3>1
  <2> DEFINE S == {k \in 0 .. n : within[k] \in SUBSET C}
  <2>2. 0 \in S
    BY <1>0, <1>2, <2>1
  <2>3. ASSUME NEW k \in 1 .. n, k - 1 \in S PROVE k \in S
    <3>1. k \in 0 .. n
      BY <1>0
    <3> QED
      BY <2>1, <2>3, <3>1
  <2> HIDE DEF S
  <2>4. \A k \in 0 .. n : k \in S
    BY <1>0, <2>2, <2>3, UpToAll
  <2>5. within \in [0 .. n -> SUBSET C]
    <3>1. within = [k \in 0 .. n |-> within[k]]
      BY <1>7
    <3> QED
      BY <2>4, <3>1 DEF S
  <2>6. \A k \in 1 .. n : within[k] = G[within[k - 1]]
    <3>1. \A k \in 1 .. n : k - 1 \in 0 .. n
      BY <1>0
    <3>2. ASSUME NEW k \in 1 .. n PROVE within[k] = G[within[k - 1]]
      <4>1. within[k - 1] \in SUBSET C
        BY <2>5, <3>1
      <4>2. within[k] = Near(within[k - 1])
        BY <2>1
      <4> HIDE DEF Near
      <4> QED
        BY <1>2, <4>1, <4>2
    <3> QED
      BY <3>2
  <2> QED
    BY <2>1, <2>5, <2>6 DEF Repeats
<1>g. Unknowns \in SUBSET C /\ G \in [SUBSET C -> SUBSET C] /\ Grows(C, G)
  BY <1>2 DEF Grows
<1>9. within[n] \in SUBSET C /\ G[within[n]] = within[n]
  BY <1>8, <1>g, RepeatsEnds, ZenonT(60) DEF n
<1>10. Closed(within[n])
  BY <1>2, <1>9 DEF Closed
<1>11. n \in 0 .. n
  BY <1>0
<1>12. ASSUME NEW M, Unknowns \subseteq M, Closed(M)
       PROVE  Unknowns \subseteq within[n] /\ within[n] \subseteq M
  <2>1. Stays(C, G, M)
    BY <1>2, <1>12 DEF Closed, Stays
  <2> QED
    BY <1>0, <1>8, <1>11, <1>12, <1>g, <2>1, RepeatsBetween, ZenonT(60)
<1>13. Unknowns \subseteq within[n]
  <2>1. Unknowns \subseteq C /\ Closed(C)
    BY <1>2 DEF Closed
  <2> QED
    BY <1>12, <2>1
<1> QED
  BY <1>1, <1>9, <1>10, <1>12, <1>13

\* The loops of prune_unknown_C_Types end with exactly the types that reach an
\* unknown one.
THEOREM MarkedAlwaysExact == Spec => []MarkedExact
<1>1. ASSUME Inv PROVE MarkedExact
  <2> SUFFICES ASSUME pc \in {"prune", "transform", "done"} PROVE marked = Reaches
    BY DEF MarkedExact
  <2>1. /\ Unknowns \subseteq marked /\ marked \subseteq CTypes /\ Closed(marked)
        /\ \A X \in SUBSET CTypes : Unknowns \subseteq X /\ Closed(X) => marked \subseteq X
    BY <1>1 DEF Inv, MarkOK
  <2>2. PICK C : C = CTypes
    OBVIOUS
  <2>3. IsFiniteSet(C)
    <3>1. C \in SUBSET SwigTypes
      BY <1>1, <2>2, Canonical DEF Inv, TypesOK
    <3> QED
      BY <3>1, SwigTypesFinite, FS_Subset
  <2> QED
    BY <2>1, <2>2, <2>3, ReachesLeast
<1> QED
  BY <1>1, InvHolds, PTL
=============================================================================
