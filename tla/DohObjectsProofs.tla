-------------------------- MODULE DohObjectsProofs --------------------------
(***************************************************************************)
(* The reference counts of DOH objects are exact, nothing refers to a      *)
(* destroyed object, and the free list holds the destroyed objects, for a  *)
(* pool of any size, containers of any length and any nesting.             *)
(***************************************************************************)
EXTENDS DohObjects, FiniteSetTheorems, SequenceTheorems, TLAPS

Nodes   == [key : Keys \cup {0}, val : Cells]
Objects == [type : Types \cup {"none"}, refcount : Nat, intern : BOOLEAN,
            items : Seq(Nodes), file : Cells \cup {Null}, meta : Cells \cup {Null}]
Frames  == [on : Cells, at : Nat \ {0}, mode : {"del", "clear"}]
Calls   == [op : {"none", "remove", "set", "attr", "file"}, on : Cells \cup {Null},
            pos : Nat, val : Cells \cup {Null}]

TypeOK ==
  /\ obj \in [Cells -> Objects]
  /\ \A c \in Cells : Len(obj[c].items) <= MaxItems
  /\ FreeList \in Seq(Cells)
  /\ current \in 0 .. PoolSize
  /\ held \in [Cells -> Nat]
  /\ leaked \in [Cells -> Nat]
  /\ stack \in Seq(Frames)
  /\ call \in Calls

\* A destructor or a clearing loop is running on c.
Busy(c) == \E f \in 1 .. Len(stack) : stack[f].on = c

\* c refers to d, by its file, its meta data or a node.  The file that Setfile is
\* about to replace does not count, nor do the nodes of an object that is busy.
Edge(c, d) ==
  \/ obj[c].file = d /\ ~ (call.op = "file" /\ call.on = c)
  \/ obj[c].meta = d
  \/ ~ Busy(c) /\ ItemsTo(c, d) # {}

\* The objects that the client can reach, whatever the running call still deletes.
Bound(S) == Roots \subseteq S /\ \A c \in S, d \in Cells : Edge(c, d) => d \in S
Live     == {c \in Cells : \A S \in SUBSET Cells : Bound(S) => c \in S}

\* A string that Hash_setattr has made of a char * and not yet stored.
Unborn(c) == obj[c] = DohBase("String", 0) /\ ~ Busy(c)

\* Destroyed objects are as CreatePool left them, and so are those never allocated.
FreedOK == \A c \in Cells : obj[c].type = "none" \/ c > current => obj[c] = Freed

\* No object has two destructors, and only one that nobody refers to has one.  A
\* clearing loop runs outside of all others, on an object that stays reachable.
StackOK ==
  /\ \A f, g \in 1 .. Len(stack) : stack[f].on = stack[g].on => f = g
  /\ \A f \in 1 .. Len(stack) :
       LET c == stack[f].on IN
       /\ obj[c].type # "none"
       /\ stack[f].at <= Len(obj[c].items) + 1
       /\ stack[f].mode = "del" => obj[c].refcount = 0 /\ ~ obj[c].intern
       /\ stack[f].mode = "clear" => f = 1 /\ call = NoCall /\ c \in Live

\* The call that goes on after the destructors: its container and its new value are
\* still there then.
CallOK ==
  /\ call.op = "none" => call = NoCall
  /\ call.op # "none" => call.on \in Live
  /\ call.op \in {"remove", "set", "attr"} => call.pos \in 1 .. Len(obj[call.on].items)
  /\ call.op \in {"set", "attr", "file"} => call.val \in Cells
  /\ call.op = "remove" => call.val = Null
  /\ call.op = "set" => held[call.val] > 0
  /\ call.op = "attr" => call.val \in Live \/ Unborn(call.val)

\* The free list has no object twice.
FreeListOK ==
  /\ \A i, j \in 1 .. Len(FreeList) : FreeList[i] = FreeList[j] => i = j
  /\ ToSet(FreeList) = {c \in 1 .. current : obj[c].type = "none"}

Inv == TypeOK /\ FreedOK /\ StackOK /\ CallOK /\ CountsExact /\ FreeListOK
-----------------------------------------------------------------------------
(* Counting.                                                                *)

Pairs == Cells \X (1 .. MaxItems)

LEMMA CellsFinite == IsFiniteSet(Cells)
  BY FS_Interval, DohObjectsAssumption DEF Cells

LEMMA PairsFinite == ASSUME NEW N \in SUBSET Pairs PROVE IsFiniteSet(N)
<1>1. IsFiniteSet(1 .. MaxItems)
  BY FS_Interval, DohObjectsAssumption
<1>2. IsFiniteSet(Pairs)
  BY <1>1, CellsFinite, FS_Product DEF Pairs
<1> QED
  BY <1>2, FS_Subset

LEMMA CountNat == ASSUME NEW S, IsFiniteSet(S) PROVE Cardinality(S) \in Nat
  BY FS_CardinalityType

\* Two sets have as many elements when one maps one to one to the other.
LEMMA SameCount ==
  ASSUME NEW S, NEW T, IsFiniteSet(S), NEW f \in [S -> T],
         \A x, y \in S : f[x] = f[y] => x = y,
         \A t \in T : \E x \in S : f[x] = t
  PROVE  IsFiniteSet(T) /\ Cardinality(T) = Cardinality(S)
<1>1. f \in Bijection(S, T)
  BY DEF Bijection, Injection, Surjection, IsInjective
<1>2. ExistsBijection(S, T)
  BY <1>1 DEF ExistsBijection
<1> QED
  BY <1>2, FS_Bijection

\* The nodes of N in container x.
Slice(N, x) == {i \in 1 .. MaxItems : <<x, i>> \in N}

LEMMA SliceFinite == ASSUME NEW N, NEW x PROVE IsFiniteSet(Slice(N, x))
<1>1. IsFiniteSet(1 .. MaxItems) /\ Slice(N, x) \in SUBSET (1 .. MaxItems)
  BY FS_Interval, DohObjectsAssumption DEF Slice
<1> QED
  BY <1>1, FS_Subset

LEMMA SliceSplit ==
  ASSUME NEW N \in SUBSET Pairs, NEW x \in Cells
  PROVE  Cardinality(N) = Cardinality({n \in N : n[1] # x}) + Cardinality(Slice(N, x))
<1> DEFINE R == {n \in N : n[1] # x}
           X == {n \in N : n[1] = x}
           f == [i \in Slice(N, x) |-> <<x, i>>]
<1>1. IsFiniteSet(R) /\ IsFiniteSet(X)
  <2>1. R \in SUBSET Pairs /\ X \in SUBSET Pairs
    OBVIOUS
  <2> QED
    BY <2>1, PairsFinite
<1>2. Cardinality(X) = Cardinality(Slice(N, x))
  <2>1. f \in [Slice(N, x) -> X]
    BY DEF Slice
  <2>2. \A i, j \in Slice(N, x) : f[i] = f[j] => i = j
    BY DEF Slice
  <2>3. \A n \in X : \E i \in Slice(N, x) : f[i] = n
    <3> SUFFICES ASSUME NEW n \in X PROVE \E i \in Slice(N, x) : f[i] = n
      OBVIOUS
    <3>1. n \in Pairs /\ n \in N /\ n[1] = x
      OBVIOUS
    <3>2. n = <<x, n[2]>> /\ n[2] \in 1 .. MaxItems
      BY <3>1 DEF Pairs
    <3>3. n[2] \in Slice(N, x)
      BY <3>1, <3>2 DEF Slice
    <3> QED
      BY <3>2, <3>3
  <2> HIDE DEF f, X
  <2> QED
    BY <2>1, <2>2, <2>3, SliceFinite, SameCount
<1>3. N = R \cup X /\ R \cap X = {}
  OBVIOUS
<1>4. Cardinality(N) = Cardinality(R) + Cardinality(X) - 0
  <2> HIDE DEF R, X
  <2>1. Cardinality(R \cap X) = 0
    BY <1>3, FS_EmptySet
  <2> QED
    BY <1>1, <1>3, <2>1, FS_Union
<1>5. Cardinality(R) \in Nat /\ Cardinality(X) \in Nat
  BY <1>1, CountNat
<1> QED
  BY <1>2, <1>4, <1>5

\* When only the nodes of container x change, so does the count.
LEMMA SliceCount ==
  ASSUME NEW N \in SUBSET Pairs, NEW M \in SUBSET Pairs, NEW x \in Cells,
         \A n \in Pairs : n[1] # x => (n \in N <=> n \in M)
  PROVE  /\ Cardinality(M) = Cardinality(N) + Cardinality(Slice(M, x)) - Cardinality(Slice(N, x))
         /\ Cardinality(M) \in Nat /\ Cardinality(N) \in Nat
         /\ Cardinality(Slice(M, x)) \in Nat /\ Cardinality(Slice(N, x)) \in Nat
<1> DEFINE r(S) == {n \in S : n[1] # x}
<1>1. r(M) = r(N)
  OBVIOUS
<1>2. /\ Cardinality(M) = Cardinality(r(M)) + Cardinality(Slice(M, x))
      /\ Cardinality(N) = Cardinality(r(N)) + Cardinality(Slice(N, x))
  BY SliceSplit
<1>3. /\ Cardinality(M) \in Nat /\ Cardinality(N) \in Nat
      /\ Cardinality(Slice(M, x)) \in Nat /\ Cardinality(Slice(N, x)) \in Nat
  BY PairsFinite, SliceFinite, CountNat
<1>4. Cardinality(r(M)) \in Nat
  <2>1. r(M) \in SUBSET Pairs
    OBVIOUS
  <2> QED
    BY <2>1, PairsFinite, CountNat
<1> HIDE DEF r
<1> QED
  BY <1>1, <1>2, <1>3, <1>4
-----------------------------------------------------------------------------
(* Sequences of nodes.                                                      *)

Positions(s, d) == {i \in 1 .. Len(s) : s[i].val = d}

\* 1 when p holds and 0 when it does not.
One(p) == IF p THEN 1 ELSE 0

LEMMA PositionsFinite ==
  ASSUME NEW s \in Seq(Nodes), NEW d, NEW P \in SUBSET Positions(s, d)
  PROVE  IsFiniteSet(P) /\ Cardinality(P) \in Nat
<1>1. IsFiniteSet(1 .. Len(s)) /\ P \in SUBSET (1 .. Len(s))
  BY FS_Interval, LenProperties DEF Positions
<1> QED
  BY <1>1, FS_Subset, FS_CardinalityType

LEMMA RemoveAtSeq ==
  ASSUME NEW A, NEW s \in Seq(A), NEW p \in 1 .. Len(s)
  PROVE  /\ RemoveAt(s, p) \in Seq(A)
         /\ Len(RemoveAt(s, p)) = Len(s) - 1
         /\ \A i \in 1 .. Len(s) - 1 : RemoveAt(s, p)[i] = IF i < p THEN s[i] ELSE s[i + 1]
<1> DEFINE a == SubSeq(s, 1, p - 1)
           b == SubSeq(s, p + 1, Len(s))
           r == RemoveAt(s, p)
<1>1. Len(s) \in Nat /\ \A i \in 1 .. Len(s) : s[i] \in A
  BY LenProperties, ElementOfSeq
<1>2. a \in Seq(A) /\ Len(a) = p - 1 /\ \A i \in 1 .. p - 1 : a[i] = s[i]
  <2>1. \A i \in 1 .. p - 1 : s[i] \in A
    BY <1>1
  <2> QED
    BY <1>1, <2>1, SubSeqProperties
<1>3. b \in Seq(A) /\ Len(b) = Len(s) - p /\ \A i \in 1 .. Len(s) - p : b[i] = s[p + i]
  <2>1. \A i \in p + 1 .. Len(s) : s[i] \in A
    BY <1>1
  <2> QED
    BY <1>1, <2>1, SubSeqProperties
<1>4. r = a \o b
  BY DEF RemoveAt
<1> HIDE DEF a, b, r
<1>5. /\ r \in Seq(A)
      /\ Len(r) = Len(a) + Len(b)
      /\ \A i \in 1 .. Len(a) + Len(b) : r[i] = IF i <= Len(a) THEN a[i] ELSE b[i - Len(a)]
  BY <1>2, <1>3, <1>4, ConcatProperties, Zenon
<1>6. Len(r) = Len(s) - 1
  BY <1>1, <1>2, <1>3, <1>5
<1>7. ASSUME NEW i \in 1 .. Len(s) - 1
      PROVE  r[i] = IF i < p THEN s[i] ELSE s[i + 1]
  <2>0. i \in 1 .. Len(a) + Len(b) /\ Len(a) = p - 1
    BY <1>1, <1>2, <1>3
  <2>1. r[i] = IF i <= p - 1 THEN a[i] ELSE b[i - (p - 1)]
    BY <1>5, <2>0, Zenon
  <2>2. CASE i < p
    BY <1>1, <1>2, <2>1, <2>2
  <2>3. CASE ~ (i < p)
    <3>1. i - (p - 1) \in 1 .. Len(s) - p /\ p + (i - (p - 1)) = i + 1 /\ ~ (i <= p - 1)
      BY <1>1, <2>3
    <3>2. b[i - (p - 1)] = s[i + 1]
      BY <1>3, <3>1
    <3> QED
      BY <2>1, <2>3, <3>1, <3>2
  <2> QED
    BY <2>2, <2>3
<1> QED
  BY <1>5, <1>6, <1>7 DEF r

\* t is s with n put in at position p, one of the slots of s.
Slots(s) == 1 .. Len(s) + 1

Inserted(t, s, p, n) ==
  /\ t \in Seq(Nodes)
  /\ Len(t) = Len(s) + 1
  /\ \A i \in 1 .. Len(s) + 1 : t[i] = IF i < p THEN s[i] ELSE IF i = p THEN n ELSE s[i - 1]

LEMMA InsertSeq ==
  ASSUME NEW s \in Seq(Nodes), NEW p \in Slots(s), NEW n \in Nodes
  PROVE  Inserted(Insert(s, p, n), s, p, n)
<1> DEFINE a == SubSeq(s, 1, p - 1)
           b == SubSeq(s, p, Len(s))
           c == a \o <<n>>
           r == Insert(s, p, n)
<1> p \in 1 .. Len(s) + 1
  BY DEF Slots
<1>1. Len(s) \in Nat /\ \A i \in 1 .. Len(s) : s[i] \in Nodes
  BY LenProperties, ElementOfSeq
<1>2. a \in Seq(Nodes) /\ Len(a) = p - 1 /\ \A i \in 1 .. p - 1 : a[i] = s[i]
  <2>1. \A i \in 1 .. p - 1 : s[i] \in Nodes
    BY <1>1
  <2> QED
    BY <1>1, <2>1, SubSeqProperties
<1>3. b \in Seq(Nodes) /\ Len(b) = Len(s) - p + 1 /\ \A i \in 1 .. Len(s) - p + 1 : b[i] = s[p + i - 1]
  <2>1. \A i \in p .. Len(s) : s[i] \in Nodes
    BY <1>1
  <2> QED
    BY <1>1, <2>1, SubSeqProperties
<1>4. r = c \o b
  BY DEF Insert
<1>5. /\ c \in Seq(Nodes) /\ Len(c) = p
      /\ \A i \in 1 .. p : c[i] = IF i <= p - 1 THEN a[i] ELSE n
  <2> HIDE DEF a
  <2>1. <<n>> \in Seq(Nodes) /\ Len(<<n>>) = 1 /\ <<n>>[1] = n
    OBVIOUS
  <2> QED
    BY <1>1, <1>2, <2>1, ConcatProperties
<1> HIDE DEF a, b, c, r
<1>6. /\ r \in Seq(Nodes)
      /\ Len(r) = Len(c) + Len(b)
      /\ \A i \in 1 .. Len(c) + Len(b) : r[i] = IF i <= Len(c) THEN c[i] ELSE b[i - Len(c)]
  BY <1>3, <1>4, <1>5, ConcatProperties, Zenon
<1>7. Len(r) = Len(s) + 1
  BY <1>1, <1>3, <1>5, <1>6
<1>8. ASSUME NEW i \in 1 .. Len(s) + 1
      PROVE  r[i] = IF i < p THEN s[i] ELSE IF i = p THEN n ELSE s[i - 1]
  <2>1. r[i] = IF i <= p THEN c[i] ELSE b[i - p]
    BY <1>1, <1>3, <1>5, <1>6
  <2>2. CASE i <= p
    BY <1>1, <1>2, <1>5, <2>1, <2>2
  <2>3. CASE ~ (i <= p)
    <3>1. i - p \in 1 .. Len(s) - p + 1 /\ p + (i - p) - 1 = i - 1 /\ ~ (i < p) /\ i # p
      BY <1>1, <2>3
    <3>2. b[i - p] = s[i - 1]
      BY <1>3, <3>1
    <3> QED
      BY <2>1, <2>3, <3>1, <3>2
  <2> QED
    BY <2>2, <2>3
<1> QED
  BY <1>6, <1>7, <1>8 DEF r, Inserted

\* What a removal leaves of the nodes with value d.
LEMMA RemoveAtCount ==
  ASSUME NEW s \in Seq(Nodes), NEW p \in 1 .. Len(s), NEW d
  PROVE  Cardinality(Positions(RemoveAt(s, p), d)) = Cardinality(Positions(s, d) \ {p})
<1> DEFINE r == RemoveAt(s, p)
           S == Positions(s, d) \ {p}
           T == Positions(r, d)
           f == [i \in S |-> IF i < p THEN i ELSE i - 1]
<1>0. Len(s) \in Nat
  BY LenProperties
<1>1. /\ r \in Seq(Nodes) /\ Len(r) = Len(s) - 1 /\ Len(s) \in Nat
      /\ \A i \in 1 .. Len(s) - 1 : r[i] = IF i < p THEN s[i] ELSE s[i + 1]
  BY <1>0, RemoveAtSeq, Zenon
<1> HIDE DEF r
<1>2. f \in [S -> T]
  <2> SUFFICES ASSUME NEW i \in S PROVE (IF i < p THEN i ELSE i - 1) \in T
    OBVIOUS
  <2> QED
    BY <1>1, SMTT(30) DEF Positions
<1>3. \A i, j \in S : f[i] = f[j] => i = j
  BY <1>1 DEF Positions
<1>4. \A t \in T : \E i \in S : f[i] = t
  <2> SUFFICES ASSUME NEW t \in T PROVE \E i \in S : f[i] = t
    OBVIOUS
  <2>1. CASE t < p
    BY <1>1, <2>1 DEF Positions
  <2>2. CASE ~ (t < p)
    <3>1. t + 1 \in S /\ f[t + 1] = t
      BY <1>1, <2>2 DEF Positions
    <3> QED
      BY <3>1
  <2>3. QED
    BY <2>1, <2>2
<1>5. IsFiniteSet(S)
  BY PositionsFinite
<1> HIDE DEF S, T, f
<1>6. Cardinality(T) = Cardinality(S)
  BY <1>2, <1>3, <1>4, <1>5, SameCount
<1> QED
  BY <1>6 DEF S, T, r

\* An insertion adds one to the nodes with the value of the new node.
LEMMA InsertCount ==
  ASSUME NEW s \in Seq(Nodes), NEW p \in 1 .. Len(s) + 1, NEW n \in Nodes, NEW d
  PROVE  Cardinality(Positions(Insert(s, p, n), d)) = Cardinality(Positions(s, d)) + One(n.val = d)
<1> DEFINE t == Insert(s, p, n)
<1>0. Len(s) \in Nat
  BY LenProperties
<1>1. /\ t \in Seq(Nodes) /\ Len(t) = Len(s) + 1
      /\ \A i \in 1 .. Len(s) + 1 : t[i] = IF i < p THEN s[i] ELSE IF i = p THEN n ELSE s[i - 1]
  <2>1. p \in Slots(s)
    BY DEF Slots
  <2>2. Inserted(t, s, p, n)
    BY <2>1, InsertSeq, Zenon
  <2> HIDE DEF t
  <2> QED
    BY <2>2 DEF Inserted
<1> HIDE DEF t
<1>2. /\ RemoveAt(t, p) \in Seq(Nodes) /\ Len(RemoveAt(t, p)) = Len(s)
      /\ \A i \in 1 .. Len(s) : RemoveAt(t, p)[i] = IF i < p THEN t[i] ELSE t[i + 1]
  <2>1. p \in 1 .. Len(t) /\ Len(t) - 1 = Len(s)
    BY <1>0, <1>1
  <2> QED
    BY <1>1, <2>1, RemoveAtSeq, Zenon
<1>3. RemoveAt(t, p) = s
  <2>1. ASSUME NEW i \in 1 .. Len(s) PROVE RemoveAt(t, p)[i] = s[i]
    <3>1. CASE i < p
      BY <1>0, <1>1, <1>2, <3>1
    <3>2. CASE ~ (i < p)
      <4>1. RemoveAt(t, p)[i] = t[i + 1]
        BY <1>2, <3>2
      <4>2. i + 1 \in 1 .. Len(s) + 1 /\ ~ (i + 1 < p) /\ i + 1 # p /\ (i + 1) - 1 = i
        BY <1>0, <3>2
      <4> QED
        BY <1>1, <4>1, <4>2
    <3> QED
      BY <3>1, <3>2
  <2> QED
    BY <1>2, <2>1, SeqEqual
<1>4. Cardinality(Positions(s, d)) = Cardinality(Positions(t, d) \ {p})
  BY <1>0, <1>1, <1>3, RemoveAtCount
<1>5. p \in Positions(t, d) <=> n.val = d
  BY <1>0, <1>1 DEF Positions
<1>6. IsFiniteSet(Positions(t, d)) /\ Cardinality(Positions(t, d)) \in Nat
  BY <1>1, PositionsFinite
<1>7. Cardinality(Positions(t, d)) = Cardinality(Positions(s, d)) + One(n.val = d)
  <2>1. CASE n.val = d
    <3>1. Cardinality(Positions(s, d)) = Cardinality(Positions(t, d)) - 1
      BY <1>4, <1>5, <1>6, <2>1, FS_RemoveElement
    <3>2. One(n.val = d) = 1
      BY <2>1 DEF One
    <3> QED
      BY <1>6, <3>1, <3>2
  <2>2. CASE n.val # d
    <3>1. Positions(t, d) \ {p} = Positions(t, d)
      BY <1>5, <2>2
    <3>2. One(n.val = d) = 0
      BY <2>2 DEF One
    <3>3. Cardinality(Positions(s, d)) = Cardinality(Positions(t, d))
      BY <1>4, <3>1, Zenon
    <3> QED
      BY <1>6, <3>2, <3>3
  <2> QED
    BY <2>1, <2>2
<1> QED
  BY <1>7 DEF t

LEMMA AppendCount ==
  ASSUME NEW s \in Seq(Nodes), NEW n \in Nodes, NEW d
  PROVE  /\ Append(s, n) \in Seq(Nodes)
         /\ Len(Append(s, n)) = Len(s) + 1
         /\ Cardinality(Positions(Append(s, n), d)) = Cardinality(Positions(s, d)) + One(n.val = d)
<1>1. Append(s, n) \in Seq(Nodes) /\ Len(Append(s, n)) = Len(s) + 1 /\ Len(s) \in Nat
  BY AppendProperties, LenProperties
<1> DEFINE q == Len(s) + 1
           t == Insert(s, q, n)
<1>2. q \in 1 .. Len(s) + 1
  BY <1>1
<1>q. q = Len(s) + 1
  OBVIOUS
<1> HIDE DEF q
<1>3. /\ t \in Seq(Nodes) /\ Len(t) = Len(s) + 1
      /\ \A i \in 1 .. Len(s) + 1 : t[i] = IF i < q THEN s[i] ELSE IF i = q THEN n ELSE s[i - 1]
  <2>1. q \in Slots(s)
    BY <1>2 DEF Slots
  <2>2. Inserted(t, s, q, n)
    BY <2>1, InsertSeq, Zenon
  <2> HIDE DEF t
  <2> QED
    BY <2>2 DEF Inserted
<1>4. Cardinality(Positions(t, d)) = Cardinality(Positions(s, d)) + One(n.val = d)
  BY <1>2, InsertCount
<1> HIDE DEF t
<1>5. ASSUME NEW i \in 1 .. Len(s) + 1 PROVE Append(s, n)[i] = t[i]
  <2>1. CASE i = q
    BY <1>1, <1>2, <1>q, <1>3, <2>1, AppendProperties
  <2>2. CASE i # q
    <3>1. i \in 1 .. Len(s) /\ i < q
      BY <1>1, <1>2, <1>q, <2>2
    <3> QED
      BY <1>3, <3>1, AppendProperties
  <2> QED
    BY <2>1, <2>2
<1>6. Append(s, n) = t
  BY <1>1, <1>3, <1>5, SeqEqual
<1> QED
  BY <1>1, <1>4, <1>6
-----------------------------------------------------------------------------
(* Counting the references to an object.                                    *)

\* Setfile is about to store d.
Pending(d) == call.op = "file" /\ call.val = d

\* The number of elements of a set of objects when only x comes or goes.
LEMMA CellCount ==
  ASSUME NEW S \in SUBSET Cells, NEW T \in SUBSET Cells, NEW x,
         \A c \in Cells : c # x => (c \in T <=> c \in S)
  PROVE  /\ Cardinality(T) = Cardinality(S) + One(x \in T) - One(x \in S)
         /\ Cardinality(T) \in Nat /\ Cardinality(S) \in Nat
<1>1. IsFiniteSet(S) /\ IsFiniteSet(T)
  BY CellsFinite, FS_Subset
<1>2. Cardinality(S) \in Nat /\ Cardinality(T) \in Nat
  BY <1>1, CountNat
<1>3. S \ {x} = T \ {x}
  OBVIOUS
<1>4. Cardinality(S \ {x}) = IF x \in S THEN Cardinality(S) - 1 ELSE Cardinality(S)
  BY <1>1, FS_RemoveElement
<1>5. Cardinality(T \ {x}) = IF x \in T THEN Cardinality(T) - 1 ELSE Cardinality(T)
  BY <1>1, FS_RemoveElement
<1>6. Cardinality(S \ {x}) = Cardinality(T \ {x})
  BY <1>3, Zenon
<1>7. /\ One(x \in S) = IF x \in S THEN 1 ELSE 0
      /\ One(x \in T) = IF x \in T THEN 1 ELSE 0
  BY DEF One
<1> QED
  BY <1>2, <1>4, <1>5, <1>6, <1>7

\* A set that has an element has at least one.
LEMMA Inhabited ==
  ASSUME NEW S, IsFiniteSet(S), NEW x \in S
  PROVE  Cardinality(S) \in Nat /\ Cardinality(S) >= 1
<1>1. Cardinality(S) \in Nat
  BY CountNat
<1>2. S # {}
  OBVIOUS
<1>3. Cardinality(S) # 0
  BY <1>2, FS_EmptySet
<1> QED
  BY <1>1, <1>3

Sliced == \A c, d \in Cells : ItemsTo(c, d) = Slice(NodesTo(d), c)

LEMMA ItemsSlice == TypeOK => Sliced
<1> SUFFICES ASSUME TypeOK, NEW c \in Cells, NEW d \in Cells
             PROVE  ItemsTo(c, d) = Slice(NodesTo(d), c)
  BY DEF Sliced
<1>1. Len(obj[c].items) <= MaxItems /\ Len(obj[c].items) \in Nat /\ MaxItems \in Nat
  BY DohObjectsAssumption, LenProperties DEF TypeOK, Objects
<1>2. ItemsTo(c, d) \subseteq 1 .. MaxItems
  BY <1>1 DEF ItemsTo
<1>3. \A i \in 1 .. MaxItems : <<c, i>> \in NodesTo(d) <=> i \in ItemsTo(c, d)
  BY DEF NodesTo
<1> QED
  BY <1>2, <1>3 DEF Slice

LEMMA NodesSubset == \A d : NodesTo(d) \in SUBSET Pairs
  BY DEF NodesTo, Pairs

LEMMA SetsSubset ==
  \A d : FilesTo(d) \in SUBSET Cells /\ MetaTo(d) \in SUBSET Cells
  BY DEF FilesTo, MetaTo

\* The terms of the sum are numbers, and each reference is counted.
Counted ==
  \A d \in Cells :
    /\ References(d) \in Nat
    /\ held[d] > 0 => References(d) >= 1
    /\ Pending(d) => References(d) >= 1
    /\ \A c \in Cells : /\ ItemsTo(c, d) # {} => References(d) >= 1
                        /\ c \in FilesTo(d) => References(d) >= 1
                        /\ c \in MetaTo(d) => References(d) >= 1
                        /\ Cardinality(ItemsTo(c, d)) \in Nat

LEMMA RefFacts == TypeOK => Counted
<1> SUFFICES ASSUME TypeOK, NEW d \in Cells
             PROVE  /\ References(d) \in Nat
                    /\ held[d] > 0 => References(d) >= 1
                    /\ Pending(d) => References(d) >= 1
                    /\ \A c \in Cells : /\ ItemsTo(c, d) # {} => References(d) >= 1
                                        /\ c \in FilesTo(d) => References(d) >= 1
                                        /\ c \in MetaTo(d) => References(d) >= 1
                                        /\ Cardinality(ItemsTo(c, d)) \in Nat
  BY DEF Counted
<1> DEFINE n == Cardinality(NodesTo(d))
           f == Cardinality(FilesTo(d))
           m == Cardinality(MetaTo(d))
<1>1. IsFiniteSet(NodesTo(d)) /\ IsFiniteSet(FilesTo(d)) /\ IsFiniteSet(MetaTo(d))
  BY NodesSubset, SetsSubset, PairsFinite, CellsFinite, FS_Subset
<1>2. n \in Nat /\ f \in Nat /\ m \in Nat
  BY <1>1, CountNat
<1>3. held[d] \in Nat
  BY DEF TypeOK
<1>4. References(d) = held[d] + n + f + m + One(Pending(d))
  BY DEF References, One, Pending
<1>5. One(Pending(d)) \in Nat /\ (Pending(d) => One(Pending(d)) = 1)
  BY DEF One
<1>6. ASSUME NEW c \in Cells
      PROVE  /\ ItemsTo(c, d) # {} => n >= 1
             /\ c \in FilesTo(d) => f >= 1
             /\ c \in MetaTo(d) => m >= 1
             /\ Cardinality(ItemsTo(c, d)) \in Nat
  <2>1. ItemsTo(c, d) = Slice(NodesTo(d), c)
    BY ItemsSlice DEF Sliced
  <2>2. ASSUME NEW i \in ItemsTo(c, d) PROVE n >= 1
    <3>1. <<c, i>> \in NodesTo(d)
      BY <2>1 DEF Slice
    <3> QED
      BY <1>1, <3>1, Inhabited
  <2>3. Cardinality(ItemsTo(c, d)) \in Nat
    BY <2>1, SliceFinite, CountNat
  <2> QED
    BY <1>1, <2>2, <2>3, Inhabited
<1> HIDE DEF n, f, m
<1> QED
  BY <1>2, <1>3, <1>4, <1>5, <1>6

\* What a step adds to the references to d when it changes the nodes of x, the file
\* of y and the meta data of z only.
LEMMA RefsChange ==
  ASSUME TypeOK, TypeOK', NEW d \in Cells,
         NEW x \in Cells, \A c \in Cells : c # x => ItemsTo(c, d)' = ItemsTo(c, d),
         NEW y \in Cells, \A c \in Cells : c # y => ((c \in FilesTo(d))' <=> c \in FilesTo(d)),
         NEW z \in Cells, \A c \in Cells : c # z => ((c \in MetaTo(d))' <=> c \in MetaTo(d))
  PROVE  /\ References(d)' = References(d) + (held'[d] - held[d])
              + (Cardinality(ItemsTo(x, d)') - Cardinality(ItemsTo(x, d)))
              + (One(y \in FilesTo(d)') - One(y \in FilesTo(d)))
              + (One(z \in MetaTo(d)') - One(z \in MetaTo(d)))
              + (One(Pending(d)') - One(Pending(d)))
         /\ References(d) \in Nat /\ References(d)' \in Nat
         /\ held[d] \in Nat /\ held'[d] \in Nat
         /\ Cardinality(ItemsTo(x, d)) \in Nat /\ Cardinality(ItemsTo(x, d)') \in Nat
<1>1. /\ ItemsTo(x, d) = Slice(NodesTo(d), x)
      /\ ItemsTo(x, d)' = Slice(NodesTo(d)', x)
  <2>1. Sliced
    BY ItemsSlice
  <2>2. Sliced'
    BY ItemsSlice, PTL
  <2>3. ItemsTo(x, d)' = Slice(NodesTo(d), x)'
    BY <2>2 DEF Sliced
  <2> QED
    BY <2>1, <2>3 DEF Sliced, Slice
<1>2. NodesTo(d) \in SUBSET Pairs /\ NodesTo(d)' \in SUBSET Pairs
  BY DEF NodesTo, Pairs
<1>3. \A n \in Pairs : n[1] # x => (n \in NodesTo(d)' <=> n \in NodesTo(d))
  BY DEF NodesTo, Pairs
<1>4. /\ Cardinality(NodesTo(d)') = Cardinality(NodesTo(d))
           + Cardinality(ItemsTo(x, d)') - Cardinality(ItemsTo(x, d))
      /\ Cardinality(NodesTo(d)) \in Nat /\ Cardinality(NodesTo(d)') \in Nat
      /\ Cardinality(ItemsTo(x, d)) \in Nat /\ Cardinality(ItemsTo(x, d)') \in Nat
  <2> DEFINE N == NodesTo(d)
             M == NodesTo(d)'
  <2>1. N \in SUBSET Pairs /\ M \in SUBSET Pairs /\ (\A n \in Pairs : n[1] # x => (n \in N <=> n \in M))
    BY <1>2, <1>3, Zenon
  <2>2. ItemsTo(x, d) = Slice(N, x) /\ ItemsTo(x, d)' = Slice(M, x)
    BY <1>1
  <2> HIDE DEF N, M
  <2>3. /\ Cardinality(M) = Cardinality(N) + Cardinality(Slice(M, x)) - Cardinality(Slice(N, x))
        /\ Cardinality(M) \in Nat /\ Cardinality(N) \in Nat
        /\ Cardinality(Slice(M, x)) \in Nat /\ Cardinality(Slice(N, x)) \in Nat
    BY <2>1, SliceCount, Zenon
  <2> QED
    BY <2>2, <2>3, Zenon DEF N, M
<1>5. FilesTo(d) \in SUBSET Cells /\ FilesTo(d)' \in SUBSET Cells
  BY DEF FilesTo
<1>6. MetaTo(d) \in SUBSET Cells /\ MetaTo(d)' \in SUBSET Cells
  BY DEF MetaTo
<1>7. /\ Cardinality(FilesTo(d)') = Cardinality(FilesTo(d)) + One(y \in FilesTo(d)') - One(y \in FilesTo(d))
      /\ Cardinality(FilesTo(d)) \in Nat /\ Cardinality(FilesTo(d)') \in Nat
  BY <1>5, CellCount
<1>8. /\ Cardinality(MetaTo(d)') = Cardinality(MetaTo(d)) + One(z \in MetaTo(d)') - One(z \in MetaTo(d))
      /\ Cardinality(MetaTo(d)) \in Nat /\ Cardinality(MetaTo(d)') \in Nat
  BY <1>6, CellCount
<1>9. References(d) = held[d] + Cardinality(NodesTo(d)) + Cardinality(FilesTo(d)) + Cardinality(MetaTo(d)) + One(Pending(d))
  BY DEF References, One, Pending
<1>10. References(d)' = held'[d] + Cardinality(NodesTo(d)') + Cardinality(FilesTo(d)') + Cardinality(MetaTo(d)') + One(Pending(d)')
  BY DEF References, One, Pending
<1>11. held[d] \in Nat /\ held'[d] \in Nat
  BY DEF TypeOK
<1>12. \A p : One(p) \in {0, 1}
  BY DEF One
<1> QED
  BY <1>4, <1>7, <1>8, <1>9, <1>10, <1>11, <1>12
-----------------------------------------------------------------------------
(* Objects without references, and objects that stay reachable.             *)

Nobody(d) == obj[d].refcount = 0 /\ ~ obj[d].intern

\* An object whose count is 0 has no references at all.
Unreferenced ==
  \A d \in Cells : Nobody(d) =>
    /\ References(d) = 0 /\ leaked[d] = 0
    /\ d \notin Roots /\ ~ Pending(d)
    /\ \A c \in Cells : ItemsTo(c, d) = {} /\ c \notin FilesTo(d) /\ c \notin MetaTo(d) /\ ~ Edge(c, d)

LEMMA NobodyFacts == TypeOK /\ CountsExact => Unreferenced
<1> SUFFICES ASSUME TypeOK, CountsExact, NEW d \in Cells, Nobody(d)
             PROVE  /\ References(d) = 0 /\ leaked[d] = 0
                    /\ d \notin Roots /\ ~ Pending(d)
                    /\ \A c \in Cells : ItemsTo(c, d) = {} /\ c \notin FilesTo(d) /\ c \notin MetaTo(d) /\ ~ Edge(c, d)
  BY DEF Unreferenced
<1>1. Counted
  BY RefFacts
<1>2. leaked[d] \in Nat /\ References(d) \in Nat /\ obj[d].refcount = References(d) + leaked[d]
  BY <1>1 DEF TypeOK, CountsExact, Counted, Nobody
<1>3. References(d) = 0 /\ leaked[d] = 0
  BY <1>2 DEF Nobody
<1>4. ~ (References(d) >= 1)
  BY <1>3
<1>5. ~ (held[d] > 0) /\ ~ Pending(d)
  BY <1>1, <1>4 DEF Counted
<1>6. ASSUME NEW c \in Cells
      PROVE  ItemsTo(c, d) = {} /\ c \notin FilesTo(d) /\ c \notin MetaTo(d) /\ ~ Edge(c, d)
  <2>1. ItemsTo(c, d) = {} /\ c \notin FilesTo(d) /\ c \notin MetaTo(d)
    BY <1>1, <1>4 DEF Counted
  <2> QED
    BY <2>1 DEF Edge, FilesTo, MetaTo
<1>7. d \notin Roots
  BY <1>5 DEF Roots, Nobody
<1> QED
  BY <1>3, <1>5, <1>6, <1>7

LiveCounted == \A c \in Live : c \in Cells /\ ~ Nobody(c)

LEMMA LiveFacts == TypeOK /\ CountsExact => LiveCounted
<1> SUFFICES ASSUME TypeOK, CountsExact, NEW c \in Live, Nobody(c) PROVE FALSE
  BY DEF Live, LiveCounted
<1> DEFINE S == {d \in Cells : ~ Nobody(d)}
<1>1. Unreferenced
  BY NobodyFacts
<1>2. Roots \subseteq S
  BY <1>1 DEF Unreferenced, Roots
<1>3. \A e \in S, d \in Cells : Edge(e, d) => d \in S
  BY <1>1 DEF Unreferenced
<1>4. S \in SUBSET Cells /\ Bound(S)
  BY <1>2, <1>3 DEF Bound
<1>5. c \in S
  BY <1>4 DEF Live
<1> QED
  BY <1>5

\* An object stays reachable when a step takes away references from itself and from
\* objects that have no references left.
LEMMA LiveStays ==
  ASSUME TypeOK', CountsExact', NEW z \in Live, Roots \subseteq Roots',
         \A c \in Cells : \/ Nobody(c)'
                          \/ c = z
                          \/ \A d \in Cells : Edge(c, d) => Edge(c, d)'
  PROVE  z \in Live'
<1>1. Unreferenced'
  BY NobodyFacts, PTL
<1>2. \A d \in Cells : Nobody(d)' => d \notin Roots' /\ \A c \in Cells : ~ Edge(c, d)'
  BY <1>1 DEF Unreferenced
<1>3. z \in Cells
  BY DEF Live
<1> SUFFICES ASSUME NEW S \in SUBSET Cells, Bound(S)', z \notin S PROVE FALSE
  BY <1>3 DEF Live
<1> DEFINE T == {c \in S : ~ Nobody(c)'}
<1>4. Roots' \subseteq S /\ \A c \in S, d \in Cells : Edge(c, d)' => d \in S
  BY DEF Bound
<1>5. Roots \subseteq T
  BY <1>2, <1>4
<1>6. \A c \in T, d \in Cells : Edge(c, d) => d \in T
  <2> SUFFICES ASSUME NEW c \in T, NEW d \in Cells, Edge(c, d) PROVE d \in T
    OBVIOUS
  <2>1. Edge(c, d)'
    OBVIOUS
  <2>2. d \in S
    BY <1>4, <2>1
  <2> QED
    BY <1>2, <2>1, <2>2
<1>7. T \in SUBSET Cells /\ Bound(T)
  BY <1>5, <1>6 DEF Bound
<1>8. z \in T
  BY <1>7 DEF Live
<1> QED
  BY <1>8

\* Between calls no node is given up, and what the client can reach is live.
LEMMA IdleFacts ==
  Idle => /\ \A c, i : ~ GivenUp(c, i)
          /\ \A c : ~ Busy(c)
          /\ \A c, d : ItemsTo(c, d) = Positions(obj[c].items, d)
          /\ call = NoCall /\ call.op = "none" /\ stack = <<>> /\ Len(stack) = 0
<1> SUFFICES ASSUME Idle
             PROVE  /\ \A c, i : ~ GivenUp(c, i)
                    /\ \A c : ~ Busy(c)
                    /\ \A c, d : ItemsTo(c, d) = Positions(obj[c].items, d)
                    /\ call = NoCall /\ call.op = "none" /\ stack = <<>> /\ Len(stack) = 0
  OBVIOUS
<1>1. call = NoCall /\ call.op = "none" /\ stack = <<>> /\ Len(stack) = 0
  BY DEF Idle, NoCall
<1>2. 1 .. Len(stack) = {}
  BY <1>1
<1>3. \A c, i : ~ GivenUp(c, i)
  BY <1>1, <1>2 DEF GivenUp
<1>4. \A c : ~ Busy(c)
  BY <1>2 DEF Busy
<1> QED
  BY <1>1, <1>3, <1>4 DEF ItemsTo, Positions

LEMMA ReachLive == TypeOK /\ Idle => Reach \subseteq Live
<1> SUFFICES ASSUME TypeOK, Idle, NEW c \in Reach, NEW S \in SUBSET Cells, Bound(S)
             PROVE  c \in S
  BY DEF Live, Reach, ReachWithout
<1>1. Closed(S, <<Null, 0>>)
  <2> SUFFICES ASSUME NEW x \in S
               PROVE  /\ {obj[x].file, obj[x].meta} \subseteq S \cup {Null}
                      /\ \A i \in 1 .. Len(obj[x].items) : obj[x].items[i].val \in S
    BY DEF Closed
  <2>1. \A d \in Cells : Edge(x, d) => d \in S
    BY DEF Bound
  <2>2. obj[x].file \in Cells \cup {Null} /\ obj[x].meta \in Cells \cup {Null}
    BY DEF TypeOK, Objects
  <2>3. {obj[x].file, obj[x].meta} \subseteq S \cup {Null}
    BY <2>1, <2>2, IdleFacts DEF Edge
  <2>4. ASSUME NEW i \in 1 .. Len(obj[x].items) PROVE obj[x].items[i].val \in S
    <3>1. obj[x].items[i] \in Nodes
      BY ElementOfSeq DEF TypeOK, Objects
    <3>2. obj[x].items[i].val \in Cells
      BY <3>1 DEF Nodes
    <3>3. i \in ItemsTo(x, obj[x].items[i].val)
      BY IdleFacts DEF Positions
    <3> QED
      BY <2>1, <3>2, <3>3, IdleFacts DEF Edge
  <2> QED
    BY <2>3, <2>4
<1>2. Roots \subseteq S
  BY DEF Bound
<1> QED
  BY <1>1, <1>2 DEF Reach, ReachWithout
-----------------------------------------------------------------------------
(* The helpers of the actions.                                              *)

LEMMA CellFacts == Cells \subseteq Nat /\ Null \notin Cells /\ PoolSize \in Nat
  BY DohObjectsAssumption DEF Cells, Null

\* The objects that o and p give to d differ in the count only.
Alike(o, p, d) ==
  /\ p[d].type = o[d].type /\ p[d].intern = o[d].intern /\ p[d].items = o[d].items
  /\ p[d].file = o[d].file /\ p[d].meta = o[d].meta

LEMMA IncrefFacts ==
  ASSUME NEW o \in [Cells -> Objects], NEW v \in Cells
  PROVE  /\ Incref(o, v) \in [Cells -> Objects]
         /\ \A d \in Cells : /\ Alike(o, Incref(o, v), d)
                             /\ Incref(o, v)[d].refcount = o[d].refcount + One(d = v)
                             /\ d # v => Incref(o, v)[d] = o[d]
<1>1. Incref(o, v) = [o EXCEPT ![v].refcount = @ + 1]
  BY CellFacts DEF Incref
<1> QED
  BY <1>1 DEF Alike, Objects, One

LEMMA DecrefFacts ==
  ASSUME NEW o \in [Cells -> Objects], NEW v \in Cells \cup {Null},
         v # Null /\ ~ o[v].intern => o[v].refcount >= 1
  PROVE  /\ Decref(o, v) \in [Cells -> Objects]
         /\ \A d \in Cells :
              /\ Alike(o, Decref(o, v), d)
              /\ Decref(o, v)[d].refcount = o[d].refcount - One(d = v /\ ~ o[d].intern)
              /\ d # v => Decref(o, v)[d] = o[d]
         /\ Doomed(o, v) => v \in Cells /\ Decref(o, v)[v].refcount = 0 /\ ~ Decref(o, v)[v].intern
<1>1. CASE v = Null \/ o[v].intern
  <2>1. Decref(o, v) = o /\ ~ Doomed(o, v)
    BY <1>1 DEF Decref, Doomed
  <2>2. \A d \in Cells : One(d = v /\ ~ o[d].intern) = 0 /\ o[d].refcount \in Nat
    BY <1>1, CellFacts DEF One, Objects
  <2> QED
    BY <2>1, <2>2 DEF Alike
<1>2. CASE ~ (v = Null \/ o[v].intern)
  <2>1. Decref(o, v) = [o EXCEPT ![v].refcount = @ - 1] /\ v \in Cells /\ o[v].refcount \in Nat
    BY <1>2 DEF Decref, Objects
  <2>2. o[v].refcount >= 1 /\ o[v].refcount - 1 \in Nat
    BY <1>2, <2>1
  <2>3. Decref(o, v) \in [Cells -> Objects]
    BY <2>1, <2>2 DEF Objects
  <2>4. ASSUME NEW d \in Cells
        PROVE  /\ Alike(o, Decref(o, v), d)
               /\ Decref(o, v)[d].refcount = o[d].refcount - One(d = v /\ ~ o[d].intern)
               /\ d # v => Decref(o, v)[d] = o[d]
    BY <1>2, <2>1, <2>2 DEF Alike, Objects, One
  <2>5. Doomed(o, v) => v \in Cells /\ Decref(o, v)[v].refcount = 0 /\ ~ Decref(o, v)[v].intern
    BY <1>2, <2>1, <2>2 DEF Doomed, Objects
  <2> QED
    BY <2>3, <2>4, <2>5
<1> QED
  BY <1>1, <1>2

\* The stack of destructors after Delete(o, s, v).
Pushed(o, s, v) == IF Doomed(o, v) THEN Append(s, Frame(v, "del")) ELSE s

GivenBy(s, c, i) == \E f \in 1 .. Len(s) : s[f].on = c /\ i < s[f].at
BusyIn(s, c)     == \E f \in 1 .. Len(s) : s[f].on = c

LEMMA PushFacts ==
  ASSUME NEW o, NEW s \in Seq(Frames), NEW v \in Cells \cup {Null}
  PROVE  LET t == Pushed(o, s, v) IN
         /\ t \in Seq(Frames)
         /\ Len(t) \in Nat /\ Len(s) \in Nat /\ Len(t) >= Len(s)
         /\ \A f \in 1 .. Len(s) : t[f] = s[f]
         /\ \A f \in 1 .. Len(t) :
              f \in 1 .. Len(s) \/ (f = Len(s) + 1 /\ Doomed(o, v) /\ t[f] = Frame(v, "del"))
         /\ \A c, i : i \in Nat \ {0} => (GivenBy(t, c, i) <=> GivenBy(s, c, i))
         /\ \A c : BusyIn(t, c) <=> BusyIn(s, c) \/ (Doomed(o, v) /\ c = v)
<1> DEFINE t == Pushed(o, s, v)
<1>0. Len(s) \in Nat
  BY LenProperties
<1>1. CASE ~ Doomed(o, v)
  <2>1. t = s
    BY <1>1 DEF Pushed
  <2> QED
    BY <1>0, <1>1, <2>1
<1>2. CASE Doomed(o, v)
  <2>1. t = Append(s, Frame(v, "del")) /\ v \in Cells
    BY <1>2 DEF Pushed, Doomed
  <2>2. Frame(v, "del") \in Frames /\ Frame(v, "del").on = v /\ Frame(v, "del").at = 1
    BY <2>1 DEF Frame, Frames
  <2> HIDE DEF t
  <2>3. /\ t \in Seq(Frames) /\ Len(t) = Len(s) + 1
        /\ \A f \in 1 .. Len(s) : t[f] = s[f]
        /\ t[Len(s) + 1] = Frame(v, "del")
    BY <2>1, <2>2, AppendProperties
  <2>4. \A f \in 1 .. Len(t) : f \in 1 .. Len(s) \/ f = Len(s) + 1
    BY <1>0, <2>3
  <2>5. ASSUME NEW c, NEW i \in Nat \ {0} PROVE GivenBy(t, c, i) <=> GivenBy(s, c, i)
    <3>1. ~ (i < Frame(v, "del").at)
      BY <2>2
    <3>2. \A f \in 1 .. Len(s) : f \in 1 .. Len(t)
      BY <1>0, <2>3
    <3> QED
      BY <2>3, <2>4, <3>1, <3>2 DEF GivenBy
  <2>6. ASSUME NEW c PROVE BusyIn(t, c) <=> BusyIn(s, c) \/ c = v
    <3>1. Len(s) + 1 \in 1 .. Len(t) /\ \A f \in 1 .. Len(s) : f \in 1 .. Len(t)
      BY <1>0, <2>3
    <3> QED
      BY <2>2, <2>3, <2>4, <3>1 DEF BusyIn
  <2>7. Len(t) \in Nat /\ Len(t) >= Len(s)
    BY <1>0, <2>3
  <2> QED
    BY <1>0, <1>2, <2>3, <2>4, <2>5, <2>6, <2>7 DEF t
<1> QED
  BY <1>1, <1>2

LEMMA GivenDef ==
  /\ \A c, i : GivenUp(c, i) <=> GivenBy(stack, c, i)
                                 \/ (call.op \in {"remove", "set", "attr"} /\ call.on = c /\ call.pos = i)
  /\ \A c, i : GivenUp(c, i)' <=> GivenBy(stack', c, i)
                                  \/ (call'.op \in {"remove", "set", "attr"} /\ call'.on = c /\ call'.pos = i)
  /\ \A c : Busy(c) <=> BusyIn(stack, c)
  /\ \A c : Busy(c)' <=> BusyIn(stack', c)
  BY DEF GivenUp, GivenBy, Busy, BusyIn
-----------------------------------------------------------------------------
(* The allocator.                                                           *)

LEMMA ToSetDef ==
  ASSUME NEW S, NEW s \in Seq(S) PROVE ToSet(s) = {s[i] : i \in 1 .. Len(s)}
  BY LenProperties DEF ToSet

LEMMA FreedFacts ==
  /\ Freed \in Objects /\ Freed.type = "none" /\ Freed.refcount = 0 /\ ~ Freed.intern
  /\ Freed.items = <<>> /\ Freed.file = Null /\ Freed.meta = Null /\ Len(Freed.items) = 0
  BY DEF Freed, DohBase, Objects

\* DohObjMalloc hands out a destroyed object, or one that was never used, and leaves
\* the others in the free list.
LEMMA TakeFacts ==
  ASSUME TypeOK, FreedOK, FreeListOK, Take
  PROVE  /\ Malloc \in Cells /\ obj[Malloc] = Freed /\ Malloc <= current'
         /\ FreeList' \in Seq(Cells) /\ current' \in 0 .. PoolSize /\ current <= current'
         /\ \A i, j \in 1 .. Len(FreeList') : FreeList'[i] = FreeList'[j] => i = j
         /\ ToSet(FreeList') = {c \in 1 .. current' : c # Malloc /\ obj[c].type = "none"}
<1>1. current \in 0 .. PoolSize /\ PoolSize \in Nat /\ FreeList \in Seq(Cells) /\ Len(FreeList) \in Nat
  BY CellFacts, LenProperties DEF TypeOK
<1>2. CASE FreeList = <<>>
  <2>1. Malloc = current + 1 /\ current < PoolSize /\ FreeList' = <<>> /\ current' = current + 1
    BY <1>2 DEF Take, CanMalloc, Malloc
  <2>2. Malloc \in Cells /\ Malloc > current /\ Malloc = current'
    BY <1>1, <2>1 DEF Cells
  <2>3. obj[Malloc] = Freed
    BY <2>2 DEF FreedOK
  <2>4. ToSet(FreeList') = {} /\ ToSet(FreeList) = {} /\ 1 .. Len(FreeList') = {}
    BY <1>2, <2>1 DEF ToSet
  <2>5. {c \in 1 .. current' : c # Malloc /\ obj[c].type = "none"} = {}
    <3>1. {c \in 1 .. current : obj[c].type = "none"} = {}
      BY <2>4 DEF FreeListOK
    <3>2. \A c \in 1 .. current' : c # Malloc => c \in 1 .. current
      BY <1>1, <2>1
    <3> QED
      BY <3>1, <3>2
  <2>6. /\ Malloc <= current' /\ FreeList' \in Seq(Cells) /\ current' \in 0 .. PoolSize
        /\ current <= current'
    BY <1>1, <2>1, <2>2
  <2> QED
    BY <2>2, <2>3, <2>4, <2>5, <2>6
<1>3. CASE FreeList # <<>>
  <2>1. Malloc = Head(FreeList) /\ FreeList' = Tail(FreeList) /\ current' = current
    BY <1>3 DEF Take, Malloc
  <2>2. /\ FreeList' \in Seq(Cells) /\ Len(FreeList') = Len(FreeList) - 1 /\ Len(FreeList) > 0
        /\ \A i \in 1 .. Len(FreeList') : FreeList'[i] = FreeList[i + 1]
        /\ Malloc = FreeList[1] /\ Malloc \in Cells
    BY <1>1, <1>3, <2>1, HeadTailProperties, EmptySeq
  <2>3. ToSet(FreeList) = {FreeList[i] : i \in 1 .. Len(FreeList)}
    BY <1>1, ToSetDef
  <2>4. ToSet(FreeList') = {FreeList'[i] : i \in 1 .. Len(FreeList')}
    BY <2>2, ToSetDef
  <2>5. \A i, j \in 1 .. Len(FreeList) : FreeList[i] = FreeList[j] => i = j
    BY DEF FreeListOK
  <2>6. \A i, j \in 1 .. Len(FreeList') : FreeList'[i] = FreeList'[j] => i = j
    <3> SUFFICES ASSUME NEW i \in 1 .. Len(FreeList'), NEW j \in 1 .. Len(FreeList'), FreeList'[i] = FreeList'[j]
                 PROVE  i = j
      OBVIOUS
    <3>1. i + 1 \in 1 .. Len(FreeList) /\ j + 1 \in 1 .. Len(FreeList) /\ FreeList[i + 1] = FreeList[j + 1]
      BY <1>1, <2>2
    <3>2. i + 1 = j + 1
      BY <2>5, <3>1
    <3> QED
      BY <3>2
  <2>7. ToSet(FreeList') = ToSet(FreeList) \ {Malloc}
    <3>1. ASSUME NEW c \in ToSet(FreeList') PROVE c \in ToSet(FreeList) /\ c # Malloc
      <4>1. PICK i \in 1 .. Len(FreeList') : c = FreeList'[i]
        BY <2>4
      <4>2. i + 1 \in 1 .. Len(FreeList) /\ c = FreeList[i + 1] /\ 1 \in 1 .. Len(FreeList) /\ i + 1 # 1
        BY <1>1, <2>2, <4>1
      <4> QED
        BY <2>2, <2>3, <2>5, <4>2
    <3>2. ASSUME NEW c \in ToSet(FreeList), c # Malloc PROVE c \in ToSet(FreeList')
      <4>1. PICK i \in 1 .. Len(FreeList) : c = FreeList[i]
        BY <2>3
      <4>2. i # 1
        BY <2>2, <3>2, <4>1
      <4>3. i - 1 \in 1 .. Len(FreeList') /\ (i - 1) + 1 = i
        BY <1>1, <2>2, <4>2
      <4>4. FreeList'[i - 1] = c
        BY <2>2, <4>1, <4>3
      <4> QED
        BY <2>4, <4>3, <4>4
    <3> QED
      BY <3>1, <3>2
  <2>8. ToSet(FreeList) = {c \in 1 .. current : obj[c].type = "none"}
    BY DEF FreeListOK
  <2>9. Malloc \in ToSet(FreeList)
    BY <1>1, <2>2, <2>3
  <2>10. obj[Malloc] = Freed /\ Malloc <= current
    BY <1>1, <2>2, <2>8, <2>9 DEF FreedOK
  <2> QED
    BY <1>1, <2>1, <2>2, <2>6, <2>7, <2>8, <2>10
<1> QED
  BY <1>2, <1>3

\* A step that takes object m and gives it a type.
LEMMA Allocates ==
  ASSUME TypeOK, FreedOK, FreeListOK, Take, NEW m \in Cells, m = Malloc,
         obj'[m].type # "none",
         \A c \in Cells : c # m => obj'[c].type = obj[c].type,
         \A c \in Cells : c # m /\ obj[c] = Freed => obj'[c] = Freed
  PROVE  FreedOK' /\ FreeListOK'
<1>1. /\ m <= current' /\ current <= current' /\ current \in Nat /\ current' \in Nat /\ current' <= PoolSize
      /\ \A i, j \in 1 .. Len(FreeList') : FreeList'[i] = FreeList'[j] => i = j
      /\ ToSet(FreeList') = {c \in 1 .. current' : c # m /\ obj[c].type = "none"}
  BY TakeFacts DEF TypeOK
<1>2. FreedOK'
  <2> SUFFICES ASSUME NEW c \in Cells, obj'[c].type = "none" \/ c > current' PROVE obj'[c] = Freed
    BY DEF FreedOK
  <2>1. c # m /\ (obj'[c].type = "none" \/ c > current)
    BY <1>1, CellFacts
  <2> QED
    BY <2>1 DEF FreedOK
<1>3. {c \in 1 .. current' : c # m /\ obj[c].type = "none"} = {c \in 1 .. current' : obj'[c].type = "none"}
  <2>1. 1 .. current' \subseteq Cells
    BY <1>1, CellFacts DEF Cells
  <2> QED
    BY <2>1
<1> QED
  BY <1>1, <1>2, <1>3 DEF FreeListOK

\* A step that neither allocates nor destroys.
LEMMA KeepsFree ==
  ASSUME TypeOK, FreedOK, FreeListOK, FreeList' = FreeList, current' = current,
         \A c \in Cells : obj'[c].type = obj[c].type,
         \A c \in Cells : obj[c] = Freed => obj'[c] = Freed
  PROVE  FreedOK' /\ FreeListOK'
<1>1. FreedOK'
  BY DEF FreedOK
<1>2. {c \in 1 .. current : obj[c].type = "none"} = {c \in 1 .. current : obj'[c].type = "none"}
  <2>1. 1 .. current \subseteq Cells
    BY CellFacts DEF Cells, TypeOK
  <2> QED
    BY <2>1
<1> QED
  BY <1>1, <1>2 DEF FreeListOK
-----------------------------------------------------------------------------
(* References when no destructor has begun to delete items: between calls,  *)
(* at the start of a deletion, and when a call goes on after one.           *)

Fresh == \A f \in 1 .. Len(stack) : stack[f].at = 1

\* The node that the call in progress has given up.
Cut(c) == IF call.op \in {"remove", "set", "attr"} /\ call.on = c THEN {call.pos} ELSE {}

\* The file of c that counts.
FileOf(c) == IF call.op = "file" /\ call.on = c THEN Null ELSE obj[c].file

FreshItems == \A c, d \in Cells : ItemsTo(c, d) = Positions(obj[c].items, d) \ Cut(c)

LEMMA FreshFacts == Fresh => FreshItems
<1> SUFFICES ASSUME Fresh, NEW c \in Cells, NEW d \in Cells
             PROVE  ItemsTo(c, d) = Positions(obj[c].items, d) \ Cut(c)
  BY DEF FreshItems
<1>1. ASSUME NEW i \in 1 .. Len(obj[c].items) PROVE GivenUp(c, i) <=> i \in Cut(c)
  <2>1. \A f \in 1 .. Len(stack) : ~ (i < stack[f].at)
    BY DEF Fresh
  <2> QED
    BY <2>1 DEF GivenUp, Cut
<1> QED
  BY <1>1 DEF ItemsTo, Positions

LEMMA FilesIff ==
  /\ \A c, d \in Cells : c \in FilesTo(d) <=> FileOf(c) = d
  /\ \A c, d \in Cells : (c \in FilesTo(d))' <=> FileOf(c)' = d
  BY CellFacts DEF FilesTo, FileOf

LEMMA MetaIff ==
  /\ \A c, d \in Cells : c \in MetaTo(d) <=> obj[c].meta = d
  /\ \A c, d \in Cells : (c \in MetaTo(d))' <=> obj'[c].meta = d
  BY DEF MetaTo

\* Nodes of x that count.
Kept(x, d) == Positions(obj[x].items, d) \ Cut(x)

LEMMA FreshRefs ==
  ASSUME TypeOK, TypeOK', Fresh, Fresh', NEW d \in Cells,
         NEW x \in Cells, \A c \in Cells : c # x => obj'[c].items = obj[c].items /\ Cut(c)' = Cut(c),
         NEW y \in Cells, \A c \in Cells : c # y => FileOf(c)' = FileOf(c),
         NEW z \in Cells, \A c \in Cells : c # z => obj'[c].meta = obj[c].meta
  PROVE  /\ References(d)' = References(d) + (held'[d] - held[d])
              + (Cardinality(Kept(x, d)') - Cardinality(Kept(x, d)))
              + (One(FileOf(y)' = d) - One(FileOf(y) = d))
              + (One(obj'[z].meta = d) - One(obj[z].meta = d))
              + (One(Pending(d)') - One(Pending(d)))
         /\ References(d) \in Nat /\ References(d)' \in Nat
         /\ held[d] \in Nat /\ held'[d] \in Nat
         /\ Cardinality(Kept(x, d)) \in Nat /\ Cardinality(Kept(x, d)') \in Nat
<1>1. FreshItems
  BY FreshFacts
<1>2. FreshItems'
  BY FreshFacts, PTL
<1>3. \A c \in Cells : ItemsTo(c, d) = Kept(c, d)
  BY <1>1 DEF FreshItems, Kept
<1>4. \A c \in Cells : ItemsTo(c, d)' = Kept(c, d)'
  BY <1>2 DEF FreshItems, Kept
<1>5. \A c \in Cells : c # x => ItemsTo(c, d)' = ItemsTo(c, d)
  <2> SUFFICES ASSUME NEW c \in Cells, c # x PROVE ItemsTo(c, d)' = ItemsTo(c, d)
    OBVIOUS
  <2>1. Kept(c, d)' = Kept(c, d)
    BY DEF Kept, Positions
  <2> QED
    BY <1>3, <1>4, <2>1
<1>6. \A c \in Cells : c # y => ((c \in FilesTo(d))' <=> c \in FilesTo(d))
  BY FilesIff
<1>7. \A c \in Cells : c # z => ((c \in MetaTo(d))' <=> c \in MetaTo(d))
  BY MetaIff
<1>8. /\ References(d)' = References(d) + (held'[d] - held[d])
           + (Cardinality(ItemsTo(x, d)') - Cardinality(ItemsTo(x, d)))
           + (One(y \in FilesTo(d)') - One(y \in FilesTo(d)))
           + (One(z \in MetaTo(d)') - One(z \in MetaTo(d)))
           + (One(Pending(d)') - One(Pending(d)))
      /\ References(d) \in Nat /\ References(d)' \in Nat
      /\ held[d] \in Nat /\ held'[d] \in Nat
      /\ Cardinality(ItemsTo(x, d)) \in Nat /\ Cardinality(ItemsTo(x, d)') \in Nat
  BY <1>5, <1>6, <1>7, RefsChange
<1>9. /\ One(y \in FilesTo(d)') = One(FileOf(y)' = d) /\ One(y \in FilesTo(d)) = One(FileOf(y) = d)
      /\ One(z \in MetaTo(d)') = One(obj'[z].meta = d) /\ One(z \in MetaTo(d)) = One(obj[z].meta = d)
  BY FilesIff, MetaIff DEF One
<1>10. ItemsTo(x, d) = Kept(x, d) /\ ItemsTo(x, d)' = Kept(x, d)'
  BY <1>3, <1>4
<1> QED
  BY <1>8, <1>9, <1>10

\* Between calls, and after a step to such a state.
LEMMA IdleCut ==
  /\ Idle => Fresh /\ (\A c : Cut(c) = {}) /\ (\A c : FileOf(c) = obj[c].file) /\ (\A d : ~ Pending(d))
  /\ call' = NoCall => (\A c : Cut(c)' = {}) /\ (\A c : FileOf(c)' = obj'[c].file) /\ (\A d : ~ Pending(d)')
  /\ stack' = <<>> => Fresh'
<1>1. NoCall.op = "none" /\ 1 .. Len(<<>>) = {}
  BY DEF NoCall
<1> QED
  BY <1>1 DEF Idle, Fresh, Cut, FileOf, Pending

\* The objects that a client can name.
LEMMA ReachFacts ==
  Inv /\ Idle =>
    \A c \in Reach : /\ c \in Cells /\ c \in Live /\ ~ Nobody(c)
                     /\ obj[c] # Freed /\ obj[c].type # "none"
<1> SUFFICES ASSUME Inv, Idle, NEW c \in Reach
             PROVE  /\ c \in Cells /\ c \in Live /\ ~ Nobody(c)
                    /\ obj[c] # Freed /\ obj[c].type # "none"
  OBVIOUS
<1>1. c \in Live
  BY ReachLive DEF Inv
<1>2. c \in Cells /\ ~ Nobody(c)
  BY <1>1, LiveFacts DEF Inv, LiveCounted
<1>3. obj[c] # Freed
  BY <1>2, FreedFacts DEF Nobody
<1> QED
  BY <1>1, <1>2, <1>3 DEF Inv, FreedOK

\* A step from and to a state between calls.
LEMMA IdleToIdle ==
  ASSUME Inv, Idle, stack' = stack, call' = call, TypeOK', CountsExact', FreedOK', FreeListOK'
  PROVE  Inv'
<1>1. stack' = <<>> /\ call' = NoCall /\ Len(stack') = 0 /\ 1 .. Len(stack') = {}
  BY DEF Idle
<1>2. StackOK'
  BY <1>1 DEF StackOK
<1>3. CallOK'
  BY <1>1 DEF CallOK, NoCall
<1> QED
  BY <1>2, <1>3 DEF Inv
-----------------------------------------------------------------------------
(* Calls that delete nothing.                                               *)

LEMMA IdleRefs ==
  ASSUME Inv, Idle, TypeOK', stack' = stack, call' = call, leaked' = leaked, NEW d \in Cells,
         NEW x \in Cells, \A c \in Cells : c # x => obj'[c].items = obj[c].items,
         NEW y \in Cells, \A c \in Cells : c # y => obj'[c].file = obj[c].file,
         NEW z \in Cells, \A c \in Cells : c # z => obj'[c].meta = obj[c].meta
  PROVE  /\ ~ obj[d].intern =>
              References(d)' + leaked'[d] = obj[d].refcount + (held'[d] - held[d])
                + (Cardinality(Positions(obj'[x].items, d)) - Cardinality(Positions(obj[x].items, d)))
                + (One(obj'[y].file = d) - One(obj[y].file = d))
                + (One(obj'[z].meta = d) - One(obj[z].meta = d))
         /\ held[d] \in Nat /\ held'[d] \in Nat /\ obj[d].refcount \in Nat
         /\ Cardinality(Positions(obj[x].items, d)) \in Nat
         /\ Cardinality(Positions(obj'[x].items, d)) \in Nat
         /\ obj[d] = Freed => held[d] = 0
<1>1. Fresh /\ Fresh' /\ \A c : Cut(c) = {} /\ Cut(c)' = {}
  BY IdleCut DEF Idle
<1>2. /\ \A c : FileOf(c) = obj[c].file /\ FileOf(c)' = obj'[c].file
      /\ \A e : One(Pending(e)) = 0 /\ One(Pending(e)') = 0
  BY IdleCut DEF Idle, One
<1>3. Kept(x, d) = Positions(obj[x].items, d) /\ Kept(x, d)' = Positions(obj'[x].items, d)
  BY <1>1 DEF Kept, Positions
<1>4. \A c \in Cells : c # x => obj'[c].items = obj[c].items /\ Cut(c)' = Cut(c)
  BY <1>1
<1>5. \A c \in Cells : c # y => FileOf(c)' = FileOf(c)
  BY <1>2
<1>6. /\ References(d)' = References(d) + (held'[d] - held[d])
           + (Cardinality(Kept(x, d)') - Cardinality(Kept(x, d)))
           + (One(FileOf(y)' = d) - One(FileOf(y) = d))
           + (One(obj'[z].meta = d) - One(obj[z].meta = d))
           + (One(Pending(d)') - One(Pending(d)))
      /\ References(d) \in Nat /\ References(d)' \in Nat
      /\ held[d] \in Nat /\ held'[d] \in Nat
      /\ Cardinality(Kept(x, d)) \in Nat /\ Cardinality(Kept(x, d)') \in Nat
  BY <1>1, <1>4, <1>5, FreshRefs DEF Inv
<1>7. One(FileOf(y)' = d) = One(obj'[y].file = d) /\ One(FileOf(y) = d) = One(obj[y].file = d)
  BY <1>2 DEF One
<1>8. leaked[d] \in Nat /\ obj[d].refcount \in Nat /\ (~ obj[d].intern => obj[d].refcount = References(d) + leaked[d])
  BY DEF Inv, TypeOK, Objects, CountsExact
<1>9. \A p : One(p) \in {0, 1}
  BY DEF One
<1>10. obj[d] = Freed => held[d] = 0
  <2>1. obj[d] = Freed => References(d) = 0
    BY <1>6, <1>8, FreedFacts
  <2>2. held[d] > 0 => References(d) >= 1
    BY RefFacts DEF Inv, Counted
  <2> QED
    BY <1>6, <2>1, <2>2
<1>11. ~ obj[d].intern =>
        References(d)' + leaked'[d] = obj[d].refcount + (held'[d] - held[d])
          + (Cardinality(Kept(x, d)') - Cardinality(Kept(x, d)))
          + (One(obj'[y].file = d) - One(obj[y].file = d))
          + (One(obj'[z].meta = d) - One(obj[z].meta = d))
  BY <1>2, <1>6, <1>7, <1>8, <1>9
<1> QED
  BY <1>3, <1>6, <1>8, <1>10, <1>11

\* A new object without items refers to nothing.
LEMMA NoPositions == \A d : Positions(<<>>, d) = {} /\ Cardinality(Positions(<<>>, d)) = 0
<1>1. \A d : Positions(<<>>, d) = {}
  BY DEF Positions
<1> QED
  BY <1>1, FS_EmptySet

LEMMA NewObject ==
  \A t \in Types, n \in Nat :
    /\ DohBase(t, n) \in Objects /\ DohBase(t, n).type = t /\ DohBase(t, n).type # "none"
    /\ DohBase(t, n).refcount = n /\ ~ DohBase(t, n).intern
    /\ DohBase(t, n).items = <<>> /\ DohBase(t, n).file = Null /\ DohBase(t, n).meta = Null
    /\ Len(DohBase(t, n).items) = 0
  BY DEF DohBase, Objects, Types

\* What is left to show of a call that makes object m, and of one that makes none.
LEMMA AllocIdle ==
  ASSUME Inv, Idle, Take, leaked' = leaked, stack' = stack, call' = call,
         NEW m \in Cells, m = Malloc,
         obj' \in [Cells -> Objects], held' \in [Cells -> Nat],
         \A c \in Cells : Len(obj'[c].items) <= MaxItems,
         obj'[m].type # "none",
         \A c \in Cells : c # m => obj'[c].type = obj[c].type,
         \A c \in Cells : c # m /\ obj[c] = Freed => obj'[c] = Freed,
         TypeOK' => CountsExact'
  PROVE  Inv'
<1>1. TypeOK /\ FreedOK /\ FreeListOK
  BY DEF Inv
<1>2. FreeList' \in Seq(Cells) /\ current' \in 0 .. PoolSize
  BY <1>1, TakeFacts
<1>3. TypeOK'
  BY <1>1, <1>2 DEF TypeOK
<1>4. FreedOK' /\ FreeListOK'
  BY <1>1, Allocates
<1> QED
  BY <1>3, <1>4, IdleToIdle

LEMMA KeepIdle ==
  ASSUME Inv, Idle, UNCHANGED <<FreeList, current, leaked, stack, call>>,
         obj' \in [Cells -> Objects], held' \in [Cells -> Nat],
         \A c \in Cells : Len(obj'[c].items) <= MaxItems,
         \A c \in Cells : obj'[c].type = obj[c].type,
         \A c \in Cells : obj[c] = Freed => obj'[c] = Freed,
         TypeOK' => CountsExact'
  PROVE  Inv'
<1>1. TypeOK /\ FreedOK /\ FreeListOK
  BY DEF Inv
<1>2. TypeOK'
  BY <1>1 DEF TypeOK
<1>3. FreedOK' /\ FreeListOK'
  BY <1>1, KeepsFree
<1> QED
  BY <1>2, <1>3, IdleToIdle

\* The state that a call on objects starts from.
LEMMA StartFacts ==
  Inv => /\ TypeOK /\ FreedOK /\ FreeListOK /\ CountsExact
         /\ obj \in [Cells -> Objects] /\ held \in [Cells -> Nat] /\ leaked \in [Cells -> Nat]
         /\ \A c \in Cells : /\ Len(obj[c].items) <= MaxItems /\ Len(obj[c].items) \in Nat
                             /\ obj[c].items \in Seq(Nodes) /\ obj[c].refcount \in Nat
                             /\ obj[c].file \in Cells \cup {Null} /\ obj[c].meta \in Cells \cup {Null}
         /\ MaxItems \in Nat
<1> SUFFICES ASSUME Inv
             PROVE  /\ TypeOK /\ FreedOK /\ FreeListOK /\ CountsExact
                    /\ obj \in [Cells -> Objects] /\ held \in [Cells -> Nat] /\ leaked \in [Cells -> Nat]
                    /\ \A c \in Cells : /\ Len(obj[c].items) <= MaxItems /\ Len(obj[c].items) \in Nat
                                        /\ obj[c].items \in Seq(Nodes) /\ obj[c].refcount \in Nat
                                        /\ obj[c].file \in Cells \cup {Null} /\ obj[c].meta \in Cells \cup {Null}
                    /\ MaxItems \in Nat
  OBVIOUS
<1>1. TypeOK /\ FreedOK /\ FreeListOK /\ CountsExact
  BY DEF Inv
<1>2. \A c \in Cells : /\ obj[c].items \in Seq(Nodes) /\ obj[c].refcount \in Nat
                       /\ obj[c].file \in Cells \cup {Null} /\ obj[c].meta \in Cells \cup {Null}
  BY <1>1 DEF TypeOK, Objects
<1>3. \A c \in Cells : Len(obj[c].items) \in Nat
  BY <1>2, LenProperties
<1> QED
  BY <1>1, <1>2, <1>3, DohObjectsAssumption DEF TypeOK

LEMMA NewInv == ASSUME Inv, Idle, NEW t \in Types, New(t) PROVE Inv'
<1> DEFINE m == Malloc
<1>1. m \in Cells /\ obj[m] = Freed
  BY StartFacts, TakeFacts DEF New
<1>2. m = Malloc /\ obj' = [obj EXCEPT ![m] = DohBase(t, 1)] /\ held' = [held EXCEPT ![m] = 1]
      /\ leaked' = leaked /\ stack' = stack /\ call' = call /\ Take
  BY DEF New
<1> HIDE DEF m
<1>3. /\ \A c \in Cells : c # m => obj'[c] = obj[c] /\ held'[c] = held[c]
      /\ obj'[m] = DohBase(t, 1) /\ held'[m] = 1
  BY <1>1, <1>2, StartFacts
<1>4. obj' \in [Cells -> Objects] /\ held' \in [Cells -> Nat]
  BY <1>1, <1>2, StartFacts, NewObject
<1>5. \A c \in Cells : Len(obj'[c].items) <= MaxItems
  <2>1. Len(obj'[m].items) = 0
    BY <1>3, NewObject
  <2>2. Len(obj'[m].items) <= MaxItems
    BY <2>1, StartFacts
  <2> QED
    BY <1>3, <2>2, StartFacts
<1>6. ASSUME TypeOK', NEW d \in Cells, ~ obj'[d].intern
      PROVE  obj'[d].refcount = References(d)' + leaked'[d]
  <2>1. ~ obj[d].intern
    BY <1>1, <1>3, <1>6, FreedFacts
  <2>2. /\ References(d)' + leaked'[d] = obj[d].refcount + (held'[d] - held[d])
             + (Cardinality(Positions(obj'[m].items, d)) - Cardinality(Positions(obj[m].items, d)))
             + (One(obj'[m].file = d) - One(obj[m].file = d))
             + (One(obj'[m].meta = d) - One(obj[m].meta = d))
        /\ held[d] \in Nat /\ held'[d] \in Nat /\ obj[d].refcount \in Nat
        /\ obj[d] = Freed => held[d] = 0
    BY <1>1, <1>2, <1>3, <1>6, <2>1, IdleRefs
  <2>3. /\ obj'[m].items = <<>> /\ obj[m].items = <<>> /\ obj'[m].file = Null /\ obj[m].file = Null
        /\ obj'[m].meta = Null /\ obj[m].meta = Null /\ obj'[m].refcount = 1 /\ obj[m].refcount = 0
    BY <1>1, <1>3, FreedFacts, NewObject
  <2>4. /\ Cardinality(Positions(obj'[m].items, d)) = 0 /\ Cardinality(Positions(obj[m].items, d)) = 0
        /\ One(obj'[m].file = d) = 0 /\ One(obj[m].file = d) = 0
        /\ One(obj'[m].meta = d) = 0 /\ One(obj[m].meta = d) = 0
    BY <2>3, NoPositions, CellFacts DEF One
  <2>5. References(d)' + leaked'[d] = obj[d].refcount + (held'[d] - held[d])
    BY <2>2, <2>4
  <2> QED
    BY <1>1, <1>3, <2>2, <2>3, <2>5
<1>7. TypeOK' => CountsExact'
  BY <1>6 DEF CountsExact
<1> QED
  BY <1>1, <1>2, <1>3, <1>4, <1>5, <1>7, NewObject, AllocIdle

LEMMA InternKeyInv == ASSUME Inv, Idle, InternKey PROVE Inv'
<1> DEFINE m == Malloc
           k == [DohBase("String", 1) EXCEPT !.intern = TRUE]
<1>1. m \in Cells /\ obj[m] = Freed
  BY StartFacts, TakeFacts DEF InternKey
<1>2. m = Malloc /\ obj' = [obj EXCEPT ![m] = k] /\ held' = held
      /\ leaked' = leaked /\ stack' = stack /\ call' = call /\ Take
  BY DEF InternKey
<1>0. /\ k \in Objects /\ k.type # "none" /\ k.intern /\ k.items = <<>> /\ Len(k.items) = 0
      /\ k.file = Null /\ k.meta = Null
  <2> DEFINE b == DohBase("String", 1)
  <2>1. b \in Objects /\ b.type # "none" /\ b.items = <<>> /\ Len(b.items) = 0 /\ b.file = Null /\ b.meta = Null
    BY NewObject DEF Types
  <2> HIDE DEF b
  <2>2. [b EXCEPT !.intern = TRUE] \in Objects
    BY <2>1 DEF Objects
  <2>3. /\ [b EXCEPT !.intern = TRUE].type = b.type /\ [b EXCEPT !.intern = TRUE].items = b.items
        /\ [b EXCEPT !.intern = TRUE].file = b.file /\ [b EXCEPT !.intern = TRUE].meta = b.meta
        /\ [b EXCEPT !.intern = TRUE].intern
    BY <2>1 DEF Objects
  <2> QED
    BY <2>1, <2>2, <2>3 DEF b
<1> HIDE DEF m, k
<1>3. /\ \A c \in Cells : c # m => obj'[c] = obj[c]
      /\ obj'[m] = k
  BY <1>1, <1>2, StartFacts
<1>4. obj' \in [Cells -> Objects] /\ held' \in [Cells -> Nat]
  BY <1>0, <1>1, <1>2, StartFacts
<1>5. \A c \in Cells : Len(obj'[c].items) <= MaxItems
  <2>1. Len(obj'[m].items) <= MaxItems
    BY <1>0, <1>3, StartFacts
  <2> QED
    BY <1>3, <2>1, StartFacts
<1>6. ASSUME TypeOK', NEW d \in Cells, ~ obj'[d].intern
      PROVE  obj'[d].refcount = References(d)' + leaked'[d]
  <2>1. d # m /\ ~ obj[d].intern
    BY <1>0, <1>3, <1>6
  <2>2. /\ References(d)' + leaked'[d] = obj[d].refcount + (held'[d] - held[d])
             + (Cardinality(Positions(obj'[m].items, d)) - Cardinality(Positions(obj[m].items, d)))
             + (One(obj'[m].file = d) - One(obj[m].file = d))
             + (One(obj'[m].meta = d) - One(obj[m].meta = d))
        /\ held[d] \in Nat /\ held'[d] \in Nat /\ obj[d].refcount \in Nat
    BY <1>1, <1>2, <1>3, <1>6, <2>1, IdleRefs
  <2>3. /\ obj'[m].items = <<>> /\ obj[m].items = <<>> /\ obj'[m].file = Null /\ obj[m].file = Null
        /\ obj'[m].meta = Null /\ obj[m].meta = Null
    BY <1>0, <1>1, <1>3, FreedFacts
  <2>4. /\ Cardinality(Positions(obj'[m].items, d)) = 0 /\ Cardinality(Positions(obj[m].items, d)) = 0
        /\ One(obj'[m].file = d) = 0 /\ One(obj[m].file = d) = 0
        /\ One(obj'[m].meta = d) = 0 /\ One(obj[m].meta = d) = 0
    BY <2>3, NoPositions, CellFacts DEF One
  <2>5. References(d)' + leaked'[d] = obj[d].refcount + (held'[d] - held[d])
    BY <2>2, <2>4
  <2> QED
    BY <1>2, <1>3, <2>1, <2>2, <2>5
<1>7. TypeOK' => CountsExact'
  BY <1>6 DEF CountsExact
<1> QED
  BY <1>0, <1>1, <1>2, <1>3, <1>4, <1>5, <1>7, AllocIdle

LEMMA DohIncrefInv == ASSUME Inv, Idle, NEW x \in Reach, DohIncref(x) PROVE Inv'
<1>1. x \in Cells /\ obj[x] # Freed
  BY ReachFacts
<1>2. obj' = Incref(obj, x) /\ held' = [held EXCEPT ![x] = @ + 1]
  BY DEF DohIncref
<1>u. FreeList' = FreeList /\ current' = current
      /\ leaked' = leaked /\ stack' = stack /\ call' = call
  BY DEF DohIncref
<1>3. /\ obj' \in [Cells -> Objects]
      /\ \A d \in Cells : /\ Alike(obj, obj', d)
                          /\ obj'[d].refcount = obj[d].refcount + One(d = x)
                          /\ d # x => obj'[d] = obj[d]
  BY <1>1, <1>2, StartFacts, IncrefFacts, SMTT(30)
<1>4. held' \in [Cells -> Nat] /\ \A d \in Cells : held'[d] = held[d] + One(d = x)
  BY <1>1, <1>2, StartFacts DEF One
<1>5. \A c \in Cells : Len(obj'[c].items) <= MaxItems
  BY <1>3, StartFacts DEF Alike
<1>6. ASSUME TypeOK', NEW d \in Cells, ~ obj'[d].intern
      PROVE  obj'[d].refcount = References(d)' + leaked'[d]
  <2>1. ~ obj[d].intern
    BY <1>3, <1>6 DEF Alike
  <2>0. \A c \in Cells : c # x => obj'[c].items = obj[c].items /\ obj'[c].file = obj[c].file /\ obj'[c].meta = obj[c].meta
    BY <1>3
  <2>2. /\ References(d)' + leaked'[d] = obj[d].refcount + (held'[d] - held[d])
             + (Cardinality(Positions(obj'[x].items, d)) - Cardinality(Positions(obj[x].items, d)))
             + (One(obj'[x].file = d) - One(obj[x].file = d))
             + (One(obj'[x].meta = d) - One(obj[x].meta = d))
        /\ held[d] \in Nat /\ held'[d] \in Nat /\ obj[d].refcount \in Nat
        /\ Cardinality(Positions(obj[x].items, d)) \in Nat
    BY <1>1, <1>u, <1>6, <2>0, <2>1, IdleRefs
  <2>3. obj'[x].items = obj[x].items /\ obj'[x].file = obj[x].file /\ obj'[x].meta = obj[x].meta
    BY <1>1, <1>3 DEF Alike
  <2>4. /\ Cardinality(Positions(obj'[x].items, d)) = Cardinality(Positions(obj[x].items, d))
        /\ One(obj'[x].file = d) = One(obj[x].file = d) /\ One(obj'[x].meta = d) = One(obj[x].meta = d)
        /\ One(obj[x].file = d) \in {0, 1} /\ One(obj[x].meta = d) \in {0, 1} /\ One(d = x) \in {0, 1}
    BY <2>3 DEF One
  <2>5. References(d)' + leaked'[d] = obj[d].refcount + (held'[d] - held[d])
    BY <2>2, <2>4
  <2> QED
    BY <1>3, <1>4, <2>2, <2>4, <2>5
<1>7. TypeOK' => CountsExact'
  BY <1>6 DEF CountsExact
<1>8. \A c \in Cells : obj'[c].type = obj[c].type /\ (obj[c] = Freed => obj'[c] = Freed)
  BY <1>1, <1>3 DEF Alike
<1> QED
  BY <1>u, <1>3, <1>4, <1>5, <1>7, <1>8, KeepIdle
\* The items of container l are replaced; object m is made.
WithItems(o, l, s)  == [o EXCEPT ![l].items = s]
WithNew(o, m, b)    == [o EXCEPT ![m] = b]

LEMMA SetItems ==
  ASSUME NEW o \in [Cells -> Objects], NEW l \in Cells, NEW s \in Seq(Nodes)
  PROVE  LET p == WithItems(o, l, s) IN
         /\ p \in [Cells -> Objects]
         /\ \A c \in Cells : /\ p[c].type = o[c].type /\ p[c].intern = o[c].intern
                             /\ p[c].file = o[c].file /\ p[c].meta = o[c].meta
                             /\ p[c].refcount = o[c].refcount
                             /\ c # l => p[c] = o[c]
         /\ p[l].items = s
  BY DEF Objects, WithItems

LEMMA SetNew ==
  ASSUME NEW o \in [Cells -> Objects], NEW m \in Cells, NEW b \in Objects
  PROVE  LET p == WithNew(o, m, b) IN
         /\ p \in [Cells -> Objects]
         /\ p[m] = b
         /\ \A c \in Cells : c # m => p[c] = o[c]
  BY DEF Objects, WithNew

\* One more item of container l refers to v.
OneMore(l, v, s) ==
  /\ s \in Seq(Nodes) /\ Len(s) <= MaxItems
  /\ \A d \in Cells : Cardinality(Positions(s, d)) = Cardinality(Positions(obj[l].items, d)) + One(v = d)

\* An item that refers to an object v is added to container l.
AddItem(l, v, s) ==
  /\ OneMore(l, v, s)
  /\ obj' = Incref([obj EXCEPT ![l].items = s], v)
  /\ UNCHANGED <<FreeList, current, held, leaked, stack, call>>

LEMMA ItemAdded ==
  ASSUME Inv, Idle, NEW l \in Reach, NEW v \in Reach, NEW s, AddItem(l, v, s)
  PROVE  Inv'
<1> DEFINE o == WithItems(obj, l, s)
<1>1. l \in Cells /\ obj[l] # Freed /\ v \in Cells /\ obj[v] # Freed
  BY ReachFacts
<1>u. FreeList' = FreeList /\ current' = current /\ leaked' = leaked /\ stack' = stack /\ call' = call
      /\ held' = held
  BY DEF AddItem
<1>s. s \in Seq(Nodes) /\ Len(s) <= MaxItems
  BY DEF AddItem, OneMore
<1>2. /\ o \in [Cells -> Objects]
      /\ \A c \in Cells : /\ o[c].type = obj[c].type /\ o[c].intern = obj[c].intern
                          /\ o[c].file = obj[c].file /\ o[c].meta = obj[c].meta
                          /\ o[c].refcount = obj[c].refcount
                          /\ c # l => o[c] = obj[c]
      /\ o[l].items = s
  BY <1>1, <1>s, StartFacts, SetItems, ZenonT(60)
<1>4. obj' = Incref(o, v)
  BY DEF AddItem, WithItems
<1> HIDE DEF o
<1>5. /\ obj' \in [Cells -> Objects]
      /\ \A d \in Cells : /\ Alike(o, obj', d)
                          /\ obj'[d].refcount = o[d].refcount + One(d = v)
                          /\ d # v => obj'[d] = o[d]
  BY <1>1, <1>2, <1>4, IncrefFacts
<1>6. \A c \in Cells : /\ obj'[c].type = obj[c].type /\ obj'[c].intern = obj[c].intern
                       /\ obj'[c].file = obj[c].file /\ obj'[c].meta = obj[c].meta
                       /\ obj'[c].refcount = obj[c].refcount + One(c = v)
                       /\ c # l => obj'[c].items = obj[c].items
                       /\ c # l /\ c # v => obj'[c] = obj[c]
  BY <1>2, <1>5 DEF Alike
<1>7. obj'[l].items = s
  BY <1>1, <1>2, <1>5 DEF Alike
<1>8. \A c \in Cells : Len(obj'[c].items) <= MaxItems
  BY <1>s, <1>6, <1>7, StartFacts
<1>9. ASSUME TypeOK', NEW d \in Cells, ~ obj'[d].intern
      PROVE  obj'[d].refcount = References(d)' + leaked'[d]
  <2>1. ~ obj[d].intern
    BY <1>6, <1>9
  <2>2. \A c \in Cells : /\ c # l => obj'[c].items = obj[c].items
                         /\ obj'[c].file = obj[c].file /\ obj'[c].meta = obj[c].meta
    BY <1>6
  <2>3. /\ References(d)' + leaked'[d] = obj[d].refcount + (held'[d] - held[d])
             + (Cardinality(Positions(obj'[l].items, d)) - Cardinality(Positions(obj[l].items, d)))
             + (One(obj'[l].file = d) - One(obj[l].file = d))
             + (One(obj'[l].meta = d) - One(obj[l].meta = d))
        /\ held[d] \in Nat /\ held'[d] \in Nat /\ obj[d].refcount \in Nat
        /\ Cardinality(Positions(obj[l].items, d)) \in Nat
    BY <1>1, <1>u, <1>9, <2>1, <2>2, IdleRefs
  <2>4. /\ Cardinality(Positions(obj'[l].items, d)) = Cardinality(Positions(obj[l].items, d)) + One(v = d)
        /\ One(v = d) \in {0, 1} /\ One(d = v) = One(v = d)
        /\ One(obj'[l].file = d) = One(obj[l].file = d) /\ One(obj'[l].meta = d) = One(obj[l].meta = d)
        /\ One(obj[l].file = d) \in {0, 1} /\ One(obj[l].meta = d) \in {0, 1}
    BY <1>1, <1>7, <2>2 DEF One, AddItem, OneMore
  <2>5. References(d)' + leaked'[d] = obj[d].refcount + One(v = d)
    BY <1>u, <2>3, <2>4
  <2> QED
    BY <1>6, <2>3, <2>4, <2>5
<1>10. TypeOK' => CountsExact'
  BY <1>9 DEF CountsExact
<1>11. \A c \in Cells : obj'[c].type = obj[c].type /\ (obj[c] = Freed => obj'[c] = Freed)
  BY <1>1, <1>6
<1> QED
  BY <1>u, <1>5, <1>8, <1>10, <1>11, StartFacts, KeepIdle

\* An item that refers to a new string is added to container l.
AddChars(l, s) ==
  /\ Take
  /\ OneMore(l, Malloc, s)
  /\ obj' = [obj EXCEPT ![Malloc] = DohBase("String", 1), ![l].items = s]
  /\ UNCHANGED <<held, leaked, stack, call>>

LEMMA CharsAdded ==
  ASSUME Inv, Idle, NEW l \in Reach, NEW s, AddChars(l, s)
  PROVE  Inv'
<1> DEFINE m == Malloc
           b == DohBase("String", 1)
<1>1. m \in Cells /\ m = Malloc /\ l \in Cells /\ obj[m] = Freed /\ l # m /\ obj[l] # Freed
  BY ReachFacts, StartFacts, TakeFacts DEF AddChars
<1>u. Take /\ leaked' = leaked /\ stack' = stack /\ call' = call /\ held' = held
  BY DEF AddChars
<1>s. s \in Seq(Nodes) /\ Len(s) <= MaxItems
  BY DEF AddChars, OneMore
<1>2. /\ b \in Objects /\ b.type # "none" /\ b.refcount = 1 /\ ~ b.intern /\ b.items = <<>>
      /\ b.file = Null /\ b.meta = Null /\ Len(b.items) = 0
  BY NewObject DEF Types
<1>3. obj' = WithItems(WithNew(obj, m, b), l, s) /\ OneMore(l, m, s)
  BY DEF AddChars, WithItems, WithNew
<1> DEFINE o == WithNew(obj, m, b)
<1> HIDE DEF b, m, o
<1>o. o \in [Cells -> Objects] /\ o[m] = b /\ \A c \in Cells : c # m => o[c] = obj[c]
  BY <1>1, <1>2, StartFacts, SetNew, ZenonT(60) DEF o
<1>p. /\ obj' \in [Cells -> Objects]
      /\ \A c \in Cells : /\ obj'[c].type = o[c].type /\ obj'[c].intern = o[c].intern
                          /\ obj'[c].file = o[c].file /\ obj'[c].meta = o[c].meta
                          /\ obj'[c].refcount = o[c].refcount
                          /\ c # l => obj'[c] = o[c]
      /\ obj'[l].items = s
  BY <1>1, <1>3, <1>o, <1>s, SetItems DEF o
<1>4. /\ obj' \in [Cells -> Objects]
      /\ obj'[m] = b /\ obj'[l].items = s
      /\ \A c \in Cells \ {m} :
           /\ obj'[c].type = obj[c].type /\ obj'[c].intern = obj[c].intern
           /\ obj'[c].file = obj[c].file /\ obj'[c].meta = obj[c].meta
           /\ obj'[c].refcount = obj[c].refcount
           /\ c # l => obj'[c] = obj[c]
  BY <1>1, <1>o, <1>p
<1>6. \A c \in Cells : Len(obj'[c].items) <= MaxItems
  <2>1. Len(obj'[m].items) <= MaxItems
    BY <1>2, <1>4, StartFacts
  <2> QED
    BY <1>s, <1>4, <2>1, StartFacts
<1>7. ASSUME TypeOK', NEW d \in Cells, ~ obj'[d].intern
      PROVE  obj'[d].refcount = References(d)' + leaked'[d]
  <2>1. ~ obj[d].intern
    BY <1>1, <1>4, <1>7, FreedFacts
  <2>2. \A c \in Cells : /\ c # l => obj'[c].items = obj[c].items
                         /\ obj'[c].file = obj[c].file /\ obj'[c].meta = obj[c].meta
    BY <1>1, <1>2, <1>4, FreedFacts
  <2>3. /\ References(d)' + leaked'[d] = obj[d].refcount + (held'[d] - held[d])
             + (Cardinality(Positions(obj'[l].items, d)) - Cardinality(Positions(obj[l].items, d)))
             + (One(obj'[l].file = d) - One(obj[l].file = d))
             + (One(obj'[l].meta = d) - One(obj[l].meta = d))
        /\ held[d] \in Nat /\ held'[d] \in Nat /\ obj[d].refcount \in Nat
        /\ Cardinality(Positions(obj[l].items, d)) \in Nat
    BY <1>1, <1>u, <1>7, <2>1, <2>2, IdleRefs
  <2>4. /\ Cardinality(Positions(obj'[l].items, d)) = Cardinality(Positions(obj[l].items, d)) + One(m = d)
        /\ One(obj'[l].file = d) = One(obj[l].file = d) /\ One(obj'[l].meta = d) = One(obj[l].meta = d)
        /\ One(obj[l].file = d) \in {0, 1} /\ One(obj[l].meta = d) \in {0, 1}
    BY <1>1, <1>3, <1>4, <2>2 DEF One, OneMore
  <2>5. One(m = d) = IF m = d THEN 1 ELSE 0
    BY DEF One
  <2>6. References(d)' + leaked'[d] = obj[d].refcount + One(m = d)
    BY <1>u, <2>3, <2>4, <2>5
  <2>7. obj'[d].refcount = obj[d].refcount + One(m = d)
    <3>1. CASE d = m
      BY <1>1, <1>2, <1>4, <2>5, <3>1, FreedFacts
    <3>2. CASE d # m
      BY <1>4, <2>3, <2>5, <3>2
    <3> QED
      BY <3>1, <3>2
  <2> QED
    BY <2>6, <2>7
<1>8. TypeOK' => CountsExact'
  BY <1>7 DEF CountsExact
<1>9. \A c \in Cells : c # m => obj'[c].type = obj[c].type /\ (obj[c] = Freed => obj'[c] = Freed)
  BY <1>1, <1>4
<1>10. obj'[m].type # "none" /\ held' \in [Cells -> Nat]
  BY <1>u, <1>2, <1>4, StartFacts
<1> QED
  BY <1>1, <1>u, <1>4, <1>6, <1>8, <1>9, <1>10, AllocIdle

LEMMA ListInsertInv ==
  ASSUME Inv, Idle, NEW l \in Reach, NEW v \in Reach, ListInsert(l, v) PROVE Inv'
<1>1. l \in Cells /\ v \in Cells
  BY ReachFacts
<1>2. PICK pos \in 1 .. Len(obj[l].items) + 1 :
        obj' = Incref([obj EXCEPT ![l].items = Insert(@, pos, Node(0, v))], v)
  BY DEF ListInsert
<1> DEFINE s == Insert(obj[l].items, pos, Node(0, v))
<1>3. Node(0, v) \in Nodes /\ Node(0, v).val = v
  BY <1>1 DEF Node, Nodes
<1>4. s \in Seq(Nodes) /\ Len(s) = Len(obj[l].items) + 1
  BY <1>1, <1>3, StartFacts, InsertSeq DEF Slots, Inserted
<1>5. \A d \in Cells : Cardinality(Positions(s, d)) = Cardinality(Positions(obj[l].items, d)) + One(v = d)
  BY <1>1, <1>3, StartFacts, InsertCount
<1>6. obj' = Incref([obj EXCEPT ![l].items = s], v)
  BY <1>2
<1> HIDE DEF s
<1>7. Len(s) <= MaxItems
  BY <1>1, <1>4, StartFacts DEF ListInsert, HasRoom
<1>8. UNCHANGED <<FreeList, current, held, leaked, stack, call>>
  BY DEF ListInsert
<1>9. AddItem(l, v, s)
  BY <1>4, <1>5, <1>6, <1>7, <1>8 DEF AddItem, OneMore
<1> QED
  BY <1>9, ItemAdded

LEMMA SetattrNewInv ==
  ASSUME Inv, Idle, NEW h \in Reach, NEW v \in Reach, NEW k \in Keys, SetattrNew(h, k, v) PROVE Inv'
<1>1. h \in Cells /\ v \in Cells
  BY ReachFacts
<1> DEFINE s == Append(obj[h].items, Node(k, v))
<1>2. obj' = Incref([obj EXCEPT ![h].items = s], v)
  BY DEF SetattrNew
<1>3. Node(k, v) \in Nodes /\ Node(k, v).val = v
  BY <1>1 DEF Node, Nodes
<1>4. /\ s \in Seq(Nodes) /\ Len(s) = Len(obj[h].items) + 1
      /\ \A d \in Cells : Cardinality(Positions(s, d)) = Cardinality(Positions(obj[h].items, d)) + One(v = d)
  BY <1>1, <1>3, StartFacts, AppendCount
<1> HIDE DEF s
<1>5. Len(s) <= MaxItems
  BY <1>1, <1>4, StartFacts DEF SetattrNew, HasRoom
<1>6. UNCHANGED <<FreeList, current, held, leaked, stack, call>>
  BY DEF SetattrNew
<1>7. AddItem(h, v, s)
  BY <1>2, <1>4, <1>5, <1>6 DEF AddItem, OneMore
<1> QED
  BY <1>7, ItemAdded

LEMMA ListInsertCharsInv == ASSUME Inv, Idle, NEW l \in Reach, ListInsertChars(l) PROVE Inv'
<1> DEFINE m == Malloc
           s == Append(obj[l].items, Node(0, m))
<1>1. l \in Cells /\ m \in Cells /\ m = Malloc /\ obj[m] = Freed /\ obj[l] # Freed
  BY ReachFacts, StartFacts, TakeFacts DEF ListInsertChars
<1>2. obj' = [obj EXCEPT ![m] = DohBase("String", 1), ![l].items = Append(@, Node(0, m))]
  BY DEF ListInsertChars
<1> HIDE DEF m
<1>3. obj' = [obj EXCEPT ![m] = DohBase("String", 1), ![l].items = s]
  BY <1>1, <1>2, StartFacts
<1>4. Node(0, m) \in Nodes /\ Node(0, m).val = m
  BY <1>1 DEF Node, Nodes
<1>5. /\ s \in Seq(Nodes) /\ Len(s) = Len(obj[l].items) + 1
      /\ \A d \in Cells : Cardinality(Positions(s, d)) = Cardinality(Positions(obj[l].items, d)) + One(m = d)
  BY <1>1, <1>4, StartFacts, AppendCount
<1> HIDE DEF s
<1>6. Len(s) <= MaxItems
  BY <1>1, <1>5, StartFacts DEF ListInsertChars, HasRoom
<1>7. Take /\ UNCHANGED <<held, leaked, stack, call>>
  BY DEF ListInsertChars
<1>8. AddChars(l, s)
  BY <1>1, <1>3, <1>5, <1>6, <1>7 DEF AddChars, OneMore
<1> QED
  BY <1>8, CharsAdded

LEMMA SetattrCharsInv ==
  ASSUME Inv, Idle, NEW h \in Reach, NEW k \in Keys, SetattrChars(h, k) PROVE Inv'
<1> DEFINE m == Malloc
           s == Append(obj[h].items, Node(k, m))
<1>1. h \in Cells /\ m \in Cells /\ m = Malloc /\ obj[m] = Freed /\ obj[h] # Freed
  BY ReachFacts, StartFacts, TakeFacts DEF SetattrChars
<1>2. obj' = [obj EXCEPT ![m] = DohBase("String", 1), ![h].items = Append(@, Node(k, m))]
  BY DEF SetattrChars
<1> HIDE DEF m
<1>3. obj' = [obj EXCEPT ![m] = DohBase("String", 1), ![h].items = s]
  BY <1>1, <1>2, StartFacts
<1>4. Node(k, m) \in Nodes /\ Node(k, m).val = m
  BY <1>1 DEF Node, Nodes
<1>5. /\ s \in Seq(Nodes) /\ Len(s) = Len(obj[h].items) + 1
      /\ \A d \in Cells : Cardinality(Positions(s, d)) = Cardinality(Positions(obj[h].items, d)) + One(m = d)
  BY <1>1, <1>4, StartFacts, AppendCount
<1> HIDE DEF s
<1>6. Len(s) <= MaxItems
  BY <1>1, <1>5, StartFacts DEF SetattrChars, HasRoom
<1>7. Take /\ UNCHANGED <<held, leaked, stack, call>>
  BY DEF SetattrChars
<1>8. AddChars(h, s)
  BY <1>1, <1>3, <1>5, <1>6, <1>7 DEF AddChars, OneMore
<1> QED
  BY <1>8, CharsAdded
WithMeta(o, c, m) == [o EXCEPT ![c].meta = m]

LEMMA SetMeta ==
  ASSUME NEW o \in [Cells -> Objects], NEW l \in Cells, NEW m \in Cells
  PROVE  LET p == WithMeta(o, l, m) IN
         /\ p \in [Cells -> Objects]
         /\ \A c \in Cells : /\ p[c].type = o[c].type /\ p[c].intern = o[c].intern
                             /\ p[c].file = o[c].file /\ p[c].items = o[c].items
                             /\ p[c].refcount = o[c].refcount
                             /\ c # l => p[c] = o[c]
         /\ p[l].meta = m
  BY DEF Objects, WithMeta

LEMMA SingleCount ==
  ASSUME NEW n \in Nodes
  PROVE  /\ <<n>> \in Seq(Nodes) /\ Len(<<n>>) = 1
         /\ \A d : Cardinality(Positions(<<n>>, d)) = One(n.val = d)
<1>1. <<n>> \in Seq(Nodes) /\ Len(<<n>>) = 1
  OBVIOUS
<1>2. ASSUME NEW d PROVE Cardinality(Positions(<<n>>, d)) = One(n.val = d)
  <2>1. CASE n.val = d
    <3>1. Positions(<<n>>, d) = {1}
      BY <2>1 DEF Positions
    <3> QED
      BY <2>1, <3>1, FS_Singleton DEF One
  <2>2. CASE n.val # d
    <3>1. Positions(<<n>>, d) = {}
      BY <2>2 DEF Positions
    <3> QED
      BY <2>2, <3>1, FS_EmptySet DEF One
  <2> QED
    BY <2>1, <2>2
<1> QED
  BY <1>1, <1>2

LEMMA SetmetaInv ==
  ASSUME Inv, Idle, NEW x \in Reach, NEW v \in Reach, NEW k \in Keys, Setmeta(x, k, v) PROVE Inv'
<1> DEFINE m == Malloc
           n == <<Node(k, v)>>
           b == [DohBase("Hash", 1) EXCEPT !.items = n]
           o == WithNew(obj, m, b)
           p == WithMeta(o, x, m)
<1>1. /\ m \in Cells /\ m = Malloc /\ obj[m] = Freed
      /\ x \in Cells /\ obj[x] # Freed /\ v \in Cells /\ obj[v] # Freed
  BY ReachFacts, StartFacts, TakeFacts DEF Setmeta
<1>u. Take /\ leaked' = leaked /\ stack' = stack /\ call' = call /\ held' = held
  BY DEF Setmeta
<1>2. Node(k, v) \in Nodes /\ Node(k, v).val = v
  BY <1>1 DEF Node, Nodes
<1>3. n \in Seq(Nodes) /\ Len(n) = 1
  BY <1>2, SingleCount
<1>4. \A d \in Cells : Cardinality(Positions(n, d)) = One(v = d)
  BY <1>2, SingleCount
<1>6. obj' = Incref(p, v) /\ obj[x].meta = Null /\ MaxItems > 0
  BY DEF Setmeta, WithMeta, WithNew
<1> HIDE DEF n
<1>5. /\ b \in Objects /\ b.type # "none" /\ b.refcount = 1 /\ ~ b.intern
      /\ b.file = Null /\ b.meta = Null /\ b.items = n
  <2> DEFINE e == DohBase("Hash", 1)
  <2>1. e \in Objects /\ e.type # "none" /\ e.refcount = 1 /\ ~ e.intern /\ e.file = Null /\ e.meta = Null
    BY NewObject DEF Types
  <2> HIDE DEF e
  <2>3. [e EXCEPT !.items = n] \in Objects
    BY <1>3, <2>1 DEF Objects
  <2>4. /\ [e EXCEPT !.items = n].type = e.type /\ [e EXCEPT !.items = n].items = n
        /\ [e EXCEPT !.items = n].file = e.file /\ [e EXCEPT !.items = n].meta = e.meta
        /\ [e EXCEPT !.items = n].intern = e.intern /\ [e EXCEPT !.items = n].refcount = e.refcount
    BY <2>1 DEF Objects
  <2> QED
    BY <2>1, <2>3, <2>4 DEF e
<1> HIDE DEF b, m, o, p
<1>o. o \in [Cells -> Objects] /\ o[m] = b /\ \A c \in Cells : c # m => o[c] = obj[c]
  <2>1. obj \in [Cells -> Objects] /\ m \in Cells /\ b \in Objects
    BY <1>1, <1>5, StartFacts
  <2> QED
    BY <2>1, SetNew DEF o
<1>p. /\ p \in [Cells -> Objects]
      /\ \A c \in Cells : /\ p[c].type = o[c].type /\ p[c].intern = o[c].intern
                          /\ p[c].file = o[c].file /\ p[c].items = o[c].items
                          /\ p[c].refcount = o[c].refcount
                          /\ c # x => p[c] = o[c]
      /\ p[x].meta = m
  BY <1>1, <1>o, SetMeta DEF p
<1>7. /\ obj' \in [Cells -> Objects]
      /\ \A d \in Cells : /\ Alike(p, obj', d)
                          /\ obj'[d].refcount = p[d].refcount + One(d = v)
                          /\ d # v => obj'[d] = p[d]
  BY <1>1, <1>p, <1>6, IncrefFacts
<1>8. /\ \A c \in Cells \ {m} :
           /\ obj'[c].type = obj[c].type /\ obj'[c].intern = obj[c].intern
           /\ obj'[c].file = obj[c].file /\ obj'[c].items = obj[c].items
           /\ obj'[c].refcount = obj[c].refcount + One(c = v)
           /\ c # x => obj'[c].meta = obj[c].meta
           /\ c # x /\ c # v => obj'[c] = obj[c]
      /\ obj'[x].meta = m
  BY <1>1, <1>o, <1>p, <1>7 DEF Alike
<1>9. obj'[m] = b
  BY <1>1, <1>o, <1>p, <1>7
<1>10. \A c \in Cells : Len(obj'[c].items) <= MaxItems
  <2>1. Len(obj'[m].items) <= MaxItems
    <3>1. obj'[m].items = n
      BY <1>5, <1>9
    <3>2. MaxItems \in Nat
      BY DohObjectsAssumption
    <3>3. 1 <= MaxItems
      BY <1>6, <3>2
    <3>4. Len(obj'[m].items) = 1
      BY <1>3, <3>1
    <3> QED
      BY <3>3, <3>4
  <2> QED
    BY <1>8, <2>1, StartFacts
<1>11. ASSUME TypeOK', NEW d \in Cells, ~ obj'[d].intern
       PROVE  obj'[d].refcount = References(d)' + leaked'[d]
  <2>1. ~ obj[d].intern
    BY <1>1, <1>8, <1>11, FreedFacts
  <2>2. \A c \in Cells : /\ c # m => obj'[c].items = obj[c].items
                         /\ c # m => obj'[c].file = obj[c].file
                         /\ c # x => obj'[c].meta = obj[c].meta
    BY <1>1, <1>5, <1>8, <1>9, FreedFacts
  <2>3. /\ References(d)' + leaked'[d] = obj[d].refcount + (held'[d] - held[d])
             + (Cardinality(Positions(obj'[m].items, d)) - Cardinality(Positions(obj[m].items, d)))
             + (One(obj'[m].file = d) - One(obj[m].file = d))
             + (One(obj'[x].meta = d) - One(obj[x].meta = d))
        /\ held[d] \in Nat /\ held'[d] \in Nat /\ obj[d].refcount \in Nat
    BY <1>1, <1>u, <1>11, <2>1, <2>2, IdleRefs
  <2>4. /\ Cardinality(Positions(obj'[m].items, d)) = One(v = d)
        /\ Cardinality(Positions(obj[m].items, d)) = 0
    BY <1>1, <1>4, <1>5, <1>9, FreedFacts, NoPositions
  <2>5. /\ One(obj'[m].file = d) = 0 /\ One(obj[m].file = d) = 0
        /\ One(obj'[x].meta = d) = One(m = d) /\ One(obj[x].meta = d) = 0
    BY <1>1, <1>5, <1>6, <1>8, <1>9, FreedFacts, CellFacts DEF One
  <2>6. /\ One(m = d) = IF m = d THEN 1 ELSE 0
        /\ One(v = d) = IF v = d THEN 1 ELSE 0
        /\ One(d = v) = IF v = d THEN 1 ELSE 0
    BY DEF One
  <2>7. References(d)' + leaked'[d] = obj[d].refcount + One(v = d) + One(m = d)
    BY <1>u, <2>3, <2>4, <2>5, <2>6
  <2>8. obj'[d].refcount = obj[d].refcount + One(v = d) + One(m = d)
    <3>1. CASE d = m
      BY <1>1, <1>5, <1>9, <2>6, <3>1, FreedFacts
    <3>2. CASE d # m
      BY <1>8, <2>3, <2>6, <3>2
    <3> QED
      BY <3>1, <3>2
  <2> QED
    BY <2>7, <2>8
<1>12. TypeOK' => CountsExact'
  BY <1>11 DEF CountsExact
<1>13. \A c \in Cells : c # m => obj'[c].type = obj[c].type /\ (obj[c] = Freed => obj'[c] = Freed)
  BY <1>1, <1>8
<1>14. obj'[m].type # "none" /\ held' \in [Cells -> Nat]
  BY <1>u, <1>5, <1>9, StartFacts
<1> QED
  BY <1>1, <1>u, <1>7, <1>10, <1>12, <1>13, <1>14, AllocIdle

LEMMA DohCopyInv == ASSUME Inv, Idle, NEW x \in Reach, DohCopy(x) PROVE Inv'
<1> DEFINE m == Malloc
           more(d) == Occurs(x, d) + IF obj[x].file = d THEN 1 ELSE 0
           b == [obj[x] EXCEPT !.refcount = 1, !.intern = FALSE]
<1>1. /\ m \in Cells /\ m = Malloc /\ obj[m] = Freed
      /\ x \in Cells /\ obj[x] # Freed /\ obj[x].type # "none"
  BY ReachFacts, StartFacts, TakeFacts DEF DohCopy
<1>u. Take /\ leaked' = leaked /\ stack' = stack /\ call' = call /\ held' = [held EXCEPT ![m] = 1]
      /\ obj[x].meta = Null
  BY DEF DohCopy
<1>2. obj' = [d \in Cells |-> IF d = m THEN b ELSE [obj[d] EXCEPT !.refcount = @ + more(d)]]
  BY DEF DohCopy
<1> DEFINE plus(d) == Cardinality(Positions(obj[x].items, d)) + One(obj[x].file = d)
<1>3. \A d \in Cells : more(d) = plus(d) /\ plus(d) \in Nat
  <2>1. \A d \in Cells : Occurs(x, d) = Cardinality(Positions(obj[x].items, d))
    BY DEF Occurs, Positions
  <2>2. \A d \in Cells : Cardinality(Positions(obj[x].items, d)) \in Nat
    BY <1>1, StartFacts, PositionsFinite
  <2> QED
    BY <2>1, <2>2 DEF One
<1>4. /\ b \in Objects /\ b.type = obj[x].type /\ b.refcount = 1 /\ ~ b.intern
      /\ b.items = obj[x].items /\ b.file = obj[x].file /\ b.meta = obj[x].meta
  BY <1>1, StartFacts DEF Objects
<1> HIDE DEF m, more, b, plus
<1>5. /\ obj'[m] = b
      /\ \A d \in Cells \ {m} : obj'[d] = [obj[d] EXCEPT !.refcount = @ + plus(d)]
      /\ DOMAIN obj' = Cells
      /\ obj' = [d \in Cells |-> obj'[d]]
  BY <1>1, <1>2, <1>3
<1>6. \A d \in Cells \ {m} :
        /\ obj'[d] \in Objects
        /\ obj'[d].type = obj[d].type /\ obj'[d].intern = obj[d].intern
        /\ obj'[d].file = obj[d].file /\ obj'[d].meta = obj[d].meta
        /\ obj'[d].items = obj[d].items
        /\ obj'[d].refcount = obj[d].refcount + plus(d)
  BY <1>3, <1>5, StartFacts, SMTT(30) DEF Objects
<1>7. obj' \in [Cells -> Objects]
  BY <1>4, <1>5, <1>6
<1>8. held' \in [Cells -> Nat] /\ held'[m] = 1 /\ \A d \in Cells : d # m => held'[d] = held[d]
  BY <1>1, <1>u, StartFacts
<1>9. \A c \in Cells : Len(obj'[c].items) <= MaxItems
  BY <1>1, <1>4, <1>5, <1>6, StartFacts
<1>10. \A d \in Cells : obj[d] = Freed => plus(d) = 0
  <2> SUFFICES ASSUME NEW d \in Cells, obj[d] = Freed PROVE plus(d) = 0
    OBVIOUS
  <2>1. Nobody(d)
    BY FreedFacts DEF Nobody
  <2>2. ItemsTo(x, d) = {} /\ x \notin FilesTo(d)
    BY <1>1, <2>1, NobodyFacts, StartFacts DEF Unreferenced
  <2>3. Positions(obj[x].items, d) = {} /\ obj[x].file # d
    BY <1>1, <2>2, IdleFacts, IdleCut, FilesIff
  <2> QED
    BY <2>3, FS_EmptySet DEF plus, One
<1>11. ASSUME TypeOK', NEW d \in Cells, ~ obj'[d].intern
       PROVE  obj'[d].refcount = References(d)' + leaked'[d]
  <2>1. ~ obj[d].intern
    BY <1>1, <1>6, <1>11, FreedFacts
  <2>2. \A c \in Cells : /\ c # m => obj'[c].items = obj[c].items
                         /\ c # m => obj'[c].file = obj[c].file
                         /\ c # m => obj'[c].meta = obj[c].meta
    BY <1>6
  <2>3. /\ References(d)' + leaked'[d] = obj[d].refcount + (held'[d] - held[d])
             + (Cardinality(Positions(obj'[m].items, d)) - Cardinality(Positions(obj[m].items, d)))
             + (One(obj'[m].file = d) - One(obj[m].file = d))
             + (One(obj'[m].meta = d) - One(obj[m].meta = d))
        /\ held[d] \in Nat /\ held'[d] \in Nat /\ obj[d].refcount \in Nat
        /\ obj[d] = Freed => held[d] = 0
    BY <1>1, <1>u, <1>11, <2>1, <2>2, IdleRefs
  <2>4. /\ Cardinality(Positions(obj'[m].items, d)) = Cardinality(Positions(obj[x].items, d))
        /\ Cardinality(Positions(obj[m].items, d)) = 0
    BY <1>1, <1>4, <1>5, FreedFacts, NoPositions
  <2>5. /\ One(obj'[m].file = d) = One(obj[x].file = d) /\ One(obj[m].file = d) = 0
        /\ One(obj'[m].meta = d) = 0 /\ One(obj[m].meta = d) = 0
    BY <1>1, <1>u, <1>4, <1>5, FreedFacts, CellFacts DEF One
  <2>6. plus(d) = Cardinality(Positions(obj[x].items, d)) + One(obj[x].file = d)
    BY DEF plus
  <2>7. Cardinality(Positions(obj[x].items, d)) \in Nat /\ One(obj[x].file = d) \in {0, 1}
    BY <1>1, StartFacts, PositionsFinite DEF One
  <2>8. References(d)' + leaked'[d] = obj[d].refcount + (held'[d] - held[d]) + plus(d)
    BY <2>3, <2>4, <2>5, <2>6, <2>7
  <2>9. CASE d = m
    <3>1. plus(d) = 0 /\ obj[d].refcount = 0 /\ held[d] = 0 /\ held'[d] = 1 /\ obj'[d].refcount = 1
      BY <1>1, <1>4, <1>5, <1>8, <1>10, <2>3, <2>9, FreedFacts
    <3> QED
      BY <2>8, <3>1
  <2>10. CASE d # m
    BY <1>3, <1>6, <1>8, <2>3, <2>8, <2>10
  <2> QED
    BY <2>9, <2>10
<1>12. TypeOK' => CountsExact'
  BY <1>11 DEF CountsExact
<1>13. ASSUME NEW c \in Cells, c # m PROVE obj'[c].type = obj[c].type /\ (obj[c] = Freed => obj'[c] = Freed)
  <2>1. obj[c] = Freed => obj'[c] = [Freed EXCEPT !.refcount = Freed.refcount + 0]
    BY <1>5, <1>10, <1>13
  <2>2. [Freed EXCEPT !.refcount = Freed.refcount + 0] = Freed
    BY FreedFacts DEF Objects
  <2> QED
    BY <1>6, <1>13, <2>1, <2>2
<1>14. obj'[m].type # "none"
  BY <1>1, <1>4, <1>5
<1> QED
  BY <1>1, <1>u, <1>7, <1>8, <1>9, <1>12, <1>13, <1>14, AllocIdle
-----------------------------------------------------------------------------
(* Calls that delete an object.                                             *)

\* An object with references is allocated.
LEMMA SomebodyFacts ==
  Inv => \A v \in Cells : ~ Nobody(v) => /\ obj[v] # Freed /\ obj[v].type # "none"
                                         /\ obj[v].intern \/ obj[v].refcount >= 1
<1> SUFFICES ASSUME Inv, NEW v \in Cells, ~ Nobody(v)
             PROVE  /\ obj[v] # Freed /\ obj[v].type # "none"
                    /\ obj[v].intern \/ obj[v].refcount >= 1
  OBVIOUS
<1>1. obj[v] # Freed
  BY FreedFacts DEF Nobody
<1>2. obj[v].type # "none"
  BY <1>1, StartFacts DEF FreedOK
<1>3. obj[v].refcount \in Nat
  BY StartFacts
<1> QED
  BY <1>1, <1>2, <1>3 DEF Nobody

LEMMA ItemFacts ==
  Inv /\ Idle => \A c \in Cells : \A i \in 1 .. Len(obj[c].items) :
                   obj[c].items[i].val \in Cells /\ ~ Nobody(obj[c].items[i].val)
<1> SUFFICES ASSUME Inv, Idle, NEW c \in Cells, NEW i \in 1 .. Len(obj[c].items)
             PROVE  obj[c].items[i].val \in Cells /\ ~ Nobody(obj[c].items[i].val)
  OBVIOUS
<1>1. obj[c].items[i] \in Nodes
  BY StartFacts, ElementOfSeq
<1>2. obj[c].items[i].val \in Cells
  BY <1>1 DEF Nodes
<1>3. i \in ItemsTo(c, obj[c].items[i].val)
  BY IdleFacts DEF Positions
<1> QED
  BY <1>2, <1>3, StartFacts, NobodyFacts DEF Unreferenced

LEMMA FileFacts ==
  Inv /\ Idle => \A c \in Cells : obj[c].file # Null => obj[c].file \in Cells /\ ~ Nobody(obj[c].file)
<1> SUFFICES ASSUME Inv, Idle, NEW c \in Cells, obj[c].file # Null
             PROVE  obj[c].file \in Cells /\ ~ Nobody(obj[c].file)
  OBVIOUS
<1>1. obj[c].file \in Cells
  BY StartFacts
<1>2. c \in FilesTo(obj[c].file)
  BY <1>1, IdleCut, FilesIff
<1> QED
  BY <1>1, <1>2, StartFacts, NobodyFacts DEF Unreferenced

\* Delete(o, <<>>, v): where the deletion leaves the objects and the stack.
LEMMA StartDelete ==
  ASSUME NEW o \in [Cells -> Objects], NEW v \in Cells \cup {Null}, Delete(o, <<>>, v),
         v # Null => o[v].type # "none" /\ (o[v].intern \/ o[v].refcount >= 1)
  PROVE  /\ obj' \in [Cells -> Objects] /\ stack' \in Seq(Frames) /\ Fresh'
         /\ \A d \in Cells :
              /\ Alike(o, obj', d)
              /\ obj'[d].refcount = o[d].refcount - One(d = v /\ ~ o[d].intern)
              /\ d # v => obj'[d] = o[d]
         /\ \A c \in Cells : Busy(c)' => Nobody(c)' /\ Len(stack') = 1
         /\ StackOK'
<1>1. obj' = Decref(o, v) /\ stack' = Pushed(o, <<>>, v)
  BY DEF Delete, Pushed
<1>2. /\ obj' \in [Cells -> Objects]
      /\ \A d \in Cells :
           /\ Alike(o, obj', d)
           /\ obj'[d].refcount = o[d].refcount - One(d = v /\ ~ o[d].intern)
           /\ d # v => obj'[d] = o[d]
      /\ Doomed(o, v) => v \in Cells /\ obj'[v].refcount = 0 /\ ~ obj'[v].intern
  BY <1>1, DecrefFacts
<1>4. /\ stack' \in Seq(Frames) /\ Len(stack') \in Nat
      /\ \A f \in 1 .. Len(stack') : f = 1 /\ Doomed(o, v) /\ stack'[f] = Frame(v, "del")
  <2> DEFINE e == <<>>
  <2>1. e \in Seq(Frames) /\ Len(e) = 0 /\ 1 .. Len(e) = {} /\ stack' = Pushed(o, e, v)
    BY <1>1
  <2> HIDE DEF e
  <2>2. /\ Pushed(o, e, v) \in Seq(Frames) /\ Len(Pushed(o, e, v)) \in Nat
        /\ \A f \in 1 .. Len(Pushed(o, e, v)) :
             f \in 1 .. Len(e) \/ (f = Len(e) + 1 /\ Doomed(o, v) /\ Pushed(o, e, v)[f] = Frame(v, "del"))
    BY <2>1, PushFacts
  <2> QED
    BY <2>1, <2>2
<1>5. Frame(v, "del").on = v /\ Frame(v, "del").at = 1 /\ Frame(v, "del").mode = "del"
  BY DEF Frame
<1>6. Fresh'
  BY <1>4, <1>5 DEF Fresh
<1>7. \A c \in Cells : Busy(c)' => Nobody(c)' /\ Len(stack') = 1
  <2> SUFFICES ASSUME NEW c \in Cells, Busy(c)' PROVE Nobody(c)' /\ Len(stack') = 1
    OBVIOUS
  <2>1. PICK f \in 1 .. Len(stack') : stack'[f].on = c
    BY DEF Busy
  <2>2. c = v /\ Doomed(o, v) /\ f = 1
    BY <1>4, <1>5, <2>1
  <2>3. Len(stack') = 1
    <3>1. Len(stack') \in 1 .. Len(stack')
      BY <1>4, <2>1
    <3> QED
      BY <1>4, <3>1
  <2> QED
    BY <1>2, <2>2, <2>3 DEF Nobody
<1>8. StackOK'
  <2>1. \A f, g \in 1 .. Len(stack') : stack'[f].on = stack'[g].on => f = g
    BY <1>4
  <2>2. ASSUME NEW f \in 1 .. Len(stack')
        PROVE  LET c == stack'[f].on IN
               /\ obj'[c].type # "none"
               /\ stack'[f].at <= Len(obj'[c].items) + 1
               /\ stack'[f].mode = "del" => obj'[c].refcount = 0 /\ ~ obj'[c].intern
               /\ stack'[f].mode = "clear" => f = 1 /\ call' = NoCall /\ c \in Live'
    <3>1. stack'[f].on = v /\ stack'[f].at = 1 /\ stack'[f].mode = "del" /\ Doomed(o, v) /\ v \in Cells
      BY <1>2, <1>4, <1>5
    <3>2. obj'[v].type # "none"
      BY <1>2, <3>1 DEF Alike, Doomed
    <3>3. Len(obj'[v].items) \in Nat
      <4>1. obj'[v].items \in Seq(Nodes)
        BY <1>2, <3>1 DEF Objects
      <4> QED
        BY <4>1, LenProperties
    <3>4. stack'[f].at <= Len(obj'[v].items) + 1
      BY <3>1, <3>3
    <3> QED
      BY <1>2, <3>1, <3>2, <3>4
  <2> QED
    BY <2>1, <2>2 DEF StackOK
<1> QED
  BY <1>2, <1>4, <1>6, <1>7, <1>8

\* A reference of c that a call takes away from an object at rest.
LEMMA EdgeKept ==
  ASSUME Idle, Fresh', NEW c \in Cells, ~ Busy(c)',
         obj'[c].items = obj[c].items, obj'[c].meta = obj[c].meta,
         Cut(c)' = {}, FileOf(c)' = obj[c].file
  PROVE  \A d \in Cells : Edge(c, d) => Edge(c, d)'
<1> SUFFICES ASSUME NEW d \in Cells, Edge(c, d) PROVE Edge(c, d)'
  OBVIOUS
<1>1. FreshItems'
  BY FreshFacts, PTL
<1>2. ItemsTo(c, d)' = Positions(obj'[c].items, d)
  BY <1>1 DEF FreshItems, Positions
<1>3. ItemsTo(c, d) = Positions(obj[c].items, d)
  BY IdleFacts
<1>4. CASE obj[c].file = d
  BY <1>4, CellFacts DEF Edge, FileOf
<1>5. CASE obj[c].meta = d
  BY <1>5 DEF Edge
<1>6. CASE ItemsTo(c, d) # {}
  BY <1>2, <1>3, <1>6 DEF Edge
<1> QED
  BY <1>4, <1>5, <1>6 DEF Edge

LEMMA CutCount ==
  ASSUME NEW s \in Seq(Nodes), NEW p \in 1 .. Len(s), NEW d
  PROVE  /\ Cardinality(Positions(s, d) \ {p}) = Cardinality(Positions(s, d)) - One(s[p].val = d)
         /\ Cardinality(Positions(s, d)) \in Nat
<1>1. IsFiniteSet(Positions(s, d)) /\ Cardinality(Positions(s, d)) \in Nat
  BY PositionsFinite
<1>2. p \in Positions(s, d) <=> s[p].val = d
  BY DEF Positions
<1>3. Cardinality(Positions(s, d) \ {p})
        = IF p \in Positions(s, d) THEN Cardinality(Positions(s, d)) - 1 ELSE Cardinality(Positions(s, d))
  BY <1>1, FS_RemoveElement
<1>4. One(s[p].val = d) = IF p \in Positions(s, d) THEN 1 ELSE 0
  BY <1>2 DEF One
<1> QED
  BY <1>1, <1>3, <1>4

\* The references at the start of a call that deletes an object, when it changes
\* the nodes of x and the file of y only.
LEMMA StartRefs ==
  ASSUME Inv, Idle, TypeOK', Fresh', leaked' = leaked, NEW d \in Cells,
         NEW x \in Cells, \A c \in Cells : c # x => obj'[c].items = obj[c].items /\ Cut(c)' = {},
         NEW y \in Cells, \A c \in Cells : c # y => FileOf(c)' = obj[c].file,
         \A c \in Cells : obj'[c].meta = obj[c].meta
  PROVE  /\ ~ obj[d].intern =>
              References(d)' + leaked'[d] = obj[d].refcount + (held'[d] - held[d])
                + (Cardinality(Kept(x, d)') - Cardinality(Positions(obj[x].items, d)))
                + (One(FileOf(y)' = d) - One(obj[y].file = d))
                + One(Pending(d)')
         /\ held[d] \in Nat /\ held'[d] \in Nat /\ obj[d].refcount \in Nat
         /\ Cardinality(Positions(obj[x].items, d)) \in Nat
         /\ Cardinality(Kept(x, d)') \in Nat
<1>1. Fresh /\ \A c : Cut(c) = {} /\ FileOf(c) = obj[c].file
  BY IdleCut
<1>2. Kept(x, d) = Positions(obj[x].items, d)
  BY <1>1 DEF Kept, Positions
<1>3. \A c \in Cells : c # x => obj'[c].items = obj[c].items /\ Cut(c)' = Cut(c)
  BY <1>1
<1>4. \A c \in Cells : c # y => FileOf(c)' = FileOf(c)
  BY <1>1
<1>5. /\ References(d)' = References(d) + (held'[d] - held[d])
           + (Cardinality(Kept(x, d)') - Cardinality(Kept(x, d)))
           + (One(FileOf(y)' = d) - One(FileOf(y) = d))
           + (One(obj'[x].meta = d) - One(obj[x].meta = d))
           + (One(Pending(d)') - One(Pending(d)))
      /\ References(d) \in Nat /\ References(d)' \in Nat
      /\ held[d] \in Nat /\ held'[d] \in Nat
      /\ Cardinality(Kept(x, d)) \in Nat /\ Cardinality(Kept(x, d)') \in Nat
  BY <1>1, <1>3, <1>4, FreshRefs DEF Inv
<1>6. One(FileOf(y) = d) = One(obj[y].file = d) /\ One(Pending(d)) = 0
      /\ One(obj'[x].meta = d) = One(obj[x].meta = d)
  BY <1>1, IdleCut DEF One
<1>7. \A p : One(p) \in {0, 1}
  BY DEF One
<1>8. leaked[d] \in Nat /\ obj[d].refcount \in Nat /\ (~ obj[d].intern => obj[d].refcount = References(d) + leaked[d])
  BY DEF Inv, TypeOK, Objects, CountsExact
<1>9. ~ obj[d].intern =>
        References(d)' + leaked'[d] = obj[d].refcount + (held'[d] - held[d])
          + (Cardinality(Kept(x, d)') - Cardinality(Kept(x, d)))
          + (One(FileOf(y)' = d) - One(obj[y].file = d))
          + One(Pending(d)')
  BY <1>5, <1>6, <1>7, <1>8
<1> QED
  BY <1>2, <1>5, <1>8, <1>9

\* What is left to show of a call that deletes an object and allocates none.
LEMMA KeepDelete ==
  ASSUME Inv, FreeList' = FreeList, current' = current, leaked' = leaked, call' \in Calls,
         obj' \in [Cells -> Objects], held' \in [Cells -> Nat], stack' \in Seq(Frames),
         \A c \in Cells : Len(obj'[c].items) <= MaxItems,
         \A c \in Cells : obj'[c].type = obj[c].type,
         \A c \in Cells : obj[c] = Freed => obj'[c] = Freed
  PROVE  TypeOK' /\ FreedOK' /\ FreeListOK'
<1>1. TypeOK /\ FreedOK /\ FreeListOK
  BY DEF Inv
<1>2. TypeOK'
  BY <1>1 DEF TypeOK
<1> QED
  BY <1>1, <1>2, KeepsFree

LEMMA NoCallFacts == NoCall \in Calls /\ NoCall.op = "none" /\ NoCall.on = Null /\ NoCall.val = Null
  BY DEF NoCall, Calls

LEMMA DohDeleteInv == ASSUME Inv, Idle, NEW x \in Reach, DohDelete(x) PROVE Inv'
<1>1. x \in Cells /\ ~ Nobody(x) /\ obj[x] # Freed /\ obj[x].type # "none"
      /\ (obj[x].intern \/ obj[x].refcount >= 1)
  BY ReachFacts, SomebodyFacts
<1>u. FreeList' = FreeList /\ current' = current /\ leaked' = leaked /\ call' = call /\ call = NoCall
      /\ held[x] > 0 /\ held' = [held EXCEPT ![x] = @ - 1] /\ Delete(obj, <<>>, x)
  BY DEF DohDelete, Idle
<1>o. obj \in [Cells -> Objects] /\ held \in [Cells -> Nat]
  BY StartFacts
<1>2. /\ obj' \in [Cells -> Objects] /\ stack' \in Seq(Frames) /\ Fresh'
      /\ \A d \in Cells :
           /\ Alike(obj, obj', d)
           /\ obj'[d].refcount = obj[d].refcount - One(d = x /\ ~ obj[d].intern)
           /\ d # x => obj'[d] = obj[d]
      /\ StackOK'
  BY <1>1, <1>u, <1>o, StartDelete
<1>3. held' \in [Cells -> Nat] /\ \A d \in Cells : held'[d] = held[d] - One(d = x)
  BY <1>1, <1>u, <1>o DEF One
<1>4. /\ \A c \in Cells : Len(obj'[c].items) <= MaxItems
      /\ \A c \in Cells : obj'[c].type = obj[c].type
      /\ \A c \in Cells : obj[c] = Freed => obj'[c] = Freed
  BY <1>1, <1>2, StartFacts DEF Alike
<1>5. TypeOK' /\ FreedOK' /\ FreeListOK'
  BY <1>u, <1>2, <1>3, <1>4, NoCallFacts, KeepDelete
<1>6. CountsExact'
  <2> SUFFICES ASSUME NEW d \in Cells, ~ obj'[d].intern
               PROVE  obj'[d].refcount = References(d)' + leaked'[d]
    BY DEF CountsExact
  <2>1. ~ obj[d].intern
    BY <1>2 DEF Alike
  <2>2. \A c \in Cells : /\ obj'[c].items = obj[c].items /\ Cut(c)' = {}
                         /\ FileOf(c)' = obj[c].file /\ obj'[c].meta = obj[c].meta
    <3>1. call' = NoCall
      BY <1>u
    <3> QED
      BY <1>2, <3>1, IdleCut DEF Alike
  <2>3. /\ References(d)' + leaked'[d] = obj[d].refcount + (held'[d] - held[d])
             + (Cardinality(Kept(x, d)') - Cardinality(Positions(obj[x].items, d)))
             + (One(FileOf(x)' = d) - One(obj[x].file = d))
             + One(Pending(d)')
        /\ held[d] \in Nat /\ held'[d] \in Nat /\ obj[d].refcount \in Nat
        /\ Cardinality(Positions(obj[x].items, d)) \in Nat
    <3>1. TypeOK' /\ Fresh' /\ leaked' = leaked /\ x \in Cells
      BY <1>1, <1>u, <1>2, <1>5
    <3> QED
      BY <2>1, <2>2, <3>1, StartRefs
  <2>4. Kept(x, d)' = Positions(obj[x].items, d)
    BY <1>1, <2>2 DEF Kept, Positions
  <2>5. /\ One(FileOf(x)' = d) = One(obj[x].file = d) /\ One(Pending(d)') = 0
        /\ One(obj[x].file = d) \in {0, 1}
        /\ One(d = x /\ ~ obj[d].intern) = One(d = x) /\ One(d = x) \in {0, 1}
    BY <1>1, <1>u, <2>1, <2>2, IdleCut DEF One
  <2>6. References(d)' + leaked'[d] = obj[d].refcount - One(d = x)
    BY <1>3, <2>3, <2>4, <2>5
  <2> QED
    BY <1>2, <2>5, <2>6
<1>7. CallOK'
  BY <1>u, NoCallFacts DEF CallOK
<1> QED
  BY <1>2, <1>5, <1>6, <1>7 DEF Inv

LEMMA DelattrInv == ASSUME Inv, Idle, NEW h \in Reach, NEW k \in Keys, Delattr(h, k) PROVE Inv'
<1>1. h \in Cells /\ obj[h] # Freed
  BY ReachFacts
<1>2. PICK i \in 1 .. Len(obj[h].items) :
        Delete([obj EXCEPT ![h].items = RemoveAt(@, i)], <<>>, obj[h].items[i].val)
  BY DEF Delattr, Position
<1> DEFINE s == RemoveAt(obj[h].items, i)
           v == obj[h].items[i].val
           o == WithItems(obj, h, s)
<1>u. FreeList' = FreeList /\ current' = current /\ held' = held /\ leaked' = leaked
      /\ call' = call /\ call = NoCall
  BY DEF Delattr, Idle
<1>v. v \in Cells /\ obj[v] # Freed /\ obj[v].type # "none" /\ (obj[v].intern \/ obj[v].refcount >= 1)
  BY <1>1, ItemFacts, SomebodyFacts
<1>s. s \in Seq(Nodes) /\ Len(s) = Len(obj[h].items) - 1
  BY <1>1, StartFacts, RemoveAtSeq
<1>c. \A d \in Cells : /\ Cardinality(Positions(s, d)) = Cardinality(Positions(obj[h].items, d)) - One(v = d)
                       /\ Cardinality(Positions(obj[h].items, d)) \in Nat
  <2> SUFFICES ASSUME NEW d \in Cells
               PROVE  /\ Cardinality(Positions(s, d)) = Cardinality(Positions(obj[h].items, d)) - One(v = d)
                      /\ Cardinality(Positions(obj[h].items, d)) \in Nat
    OBVIOUS
  <2>1. obj[h].items \in Seq(Nodes) /\ i \in 1 .. Len(obj[h].items)
    BY <1>1, StartFacts
  <2>2. Cardinality(Positions(s, d)) = Cardinality(Positions(obj[h].items, d) \ {i})
    BY <2>1, RemoveAtCount
  <2>3. /\ Cardinality(Positions(obj[h].items, d) \ {i})
             = Cardinality(Positions(obj[h].items, d)) - One(v = d)
        /\ Cardinality(Positions(obj[h].items, d)) \in Nat
    BY <2>1, CutCount
  <2> QED
    BY <2>2, <2>3
<1>d. Delete(o, <<>>, v)
  BY <1>2 DEF WithItems
<1> HIDE DEF s, o
<1>o. /\ o \in [Cells -> Objects]
      /\ \A c \in Cells : /\ o[c].type = obj[c].type /\ o[c].intern = obj[c].intern
                          /\ o[c].file = obj[c].file /\ o[c].meta = obj[c].meta
                          /\ o[c].refcount = obj[c].refcount
                          /\ c # h => o[c] = obj[c]
      /\ o[h].items = s
  <2>1. obj \in [Cells -> Objects] /\ h \in Cells /\ s \in Seq(Nodes)
    BY <1>1, <1>s, StartFacts
  <2> QED
    BY <2>1, SetItems DEF o
<1> HIDE DEF v
<1>3. /\ obj' \in [Cells -> Objects] /\ stack' \in Seq(Frames) /\ Fresh'
      /\ \A d \in Cells :
           /\ Alike(o, obj', d)
           /\ obj'[d].refcount = o[d].refcount - One(d = v /\ ~ o[d].intern)
           /\ d # v => obj'[d] = o[d]
      /\ StackOK'
  <2>1. v \in Cells \cup {Null} /\ o[v].type # "none" /\ (o[v].intern \/ o[v].refcount >= 1)
    BY <1>v, <1>o
  <2> QED
    BY <1>d, <1>o, <2>1, StartDelete
<1>4. /\ \A c \in Cells : /\ obj'[c].type = obj[c].type /\ obj'[c].intern = obj[c].intern
                          /\ obj'[c].file = obj[c].file /\ obj'[c].meta = obj[c].meta
                          /\ obj'[c].refcount = obj[c].refcount - One(c = v /\ ~ obj[c].intern)
                          /\ c # h => obj'[c].items = obj[c].items
                          /\ c # h /\ c # v => obj'[c] = obj[c]
      /\ obj'[h].items = s
  BY <1>1, <1>o, <1>3 DEF Alike
<1>5. /\ \A c \in Cells : Len(obj'[c].items) <= MaxItems
      /\ \A c \in Cells : obj'[c].type = obj[c].type
      /\ \A c \in Cells : obj[c] = Freed => obj'[c] = Freed
  <2>1. Len(obj'[h].items) <= MaxItems
    BY <1>1, <1>s, <1>4, StartFacts
  <2> QED
    BY <1>1, <1>v, <1>4, <2>1, StartFacts
<1>6. TypeOK' /\ FreedOK' /\ FreeListOK'
  <2>1. held' \in [Cells -> Nat] /\ call' \in Calls
    BY <1>u, StartFacts, NoCallFacts
  <2> QED
    BY <1>u, <1>3, <1>5, <2>1, KeepDelete
<1>7. CountsExact'
  <2> SUFFICES ASSUME NEW d \in Cells, ~ obj'[d].intern
               PROVE  obj'[d].refcount = References(d)' + leaked'[d]
    BY DEF CountsExact
  <2>1. ~ obj[d].intern
    BY <1>4
  <2>2. \A c \in Cells : /\ c # h => obj'[c].items = obj[c].items
                         /\ Cut(c)' = {}
                         /\ FileOf(c)' = obj[c].file /\ obj'[c].meta = obj[c].meta
    <3>1. call' = NoCall
      BY <1>u
    <3> QED
      BY <1>4, <3>1, IdleCut
  <2>3. /\ References(d)' + leaked'[d] = obj[d].refcount + (held'[d] - held[d])
             + (Cardinality(Kept(h, d)') - Cardinality(Positions(obj[h].items, d)))
             + (One(FileOf(h)' = d) - One(obj[h].file = d))
             + One(Pending(d)')
        /\ held[d] \in Nat /\ held'[d] \in Nat /\ obj[d].refcount \in Nat
    <3>1. TypeOK' /\ Fresh' /\ leaked' = leaked /\ h \in Cells
      BY <1>1, <1>u, <1>3, <1>6
    <3> QED
      BY <2>1, <2>2, <3>1, StartRefs
  <2>4. Kept(h, d)' = Positions(s, d)
    BY <1>1, <1>4, <2>2 DEF Kept, Positions
  <2>5. /\ One(FileOf(h)' = d) = One(obj[h].file = d) /\ One(Pending(d)') = 0
        /\ One(obj[h].file = d) \in {0, 1}
        /\ One(d = v /\ ~ obj[d].intern) = One(v = d) /\ One(v = d) \in {0, 1}
    BY <1>1, <1>u, <2>1, <2>2, IdleCut DEF One
  <2>6. References(d)' + leaked'[d] = obj[d].refcount - One(v = d)
    BY <1>u, <1>c, <2>3, <2>4, <2>5
  <2> QED
    BY <1>4, <2>5, <2>6
<1>8. CallOK'
  BY <1>u, NoCallFacts DEF CallOK
<1> QED
  BY <1>3, <1>6, <1>7, <1>8 DEF Inv

\* A call gives up node pos of container l and deletes its value, in the state where
\* the objects are o.
GiveItem(l, pos, o) ==
  /\ pos \in 1 .. Len(obj[l].items)
  /\ call' \in Calls /\ call'.op \in {"remove", "set", "attr"} /\ call'.on = l /\ call'.pos = pos
  /\ o \in [Cells -> Objects]
  /\ \A c \in Cells : /\ o[c].intern = obj[c].intern /\ o[c].refcount = obj[c].refcount
                      /\ o[c].items = obj[c].items /\ o[c].file = obj[c].file /\ o[c].meta = obj[c].meta
                      /\ obj[c].type # "none" => o[c].type = obj[c].type
  /\ Delete(o, <<>>, obj[l].items[pos].val)
  /\ FreeList' \in Seq(Cells) /\ current' \in 0 .. PoolSize
  /\ UNCHANGED <<held, leaked>>

LEMMA ItemGivenUp ==
  ASSUME Inv, Idle, NEW l \in Reach, NEW pos, NEW o, GiveItem(l, pos, o)
  PROVE  /\ TypeOK' /\ CountsExact' /\ StackOK'
         /\ l \in Live' /\ Fresh'
         /\ \A c \in Cells : Busy(c)' => Nobody(c)'
         /\ \A d \in Cells : Alike(o, obj', d) /\ (d # obj[l].items[pos].val => obj'[d] = o[d])
<1> DEFINE v == obj[l].items[pos].val
<1>1. l \in Cells /\ l \in Live /\ pos \in 1 .. Len(obj[l].items)
  BY ReachFacts DEF GiveItem
<1>u. held' = held /\ leaked' = leaked /\ FreeList' \in Seq(Cells) /\ current' \in 0 .. PoolSize
  BY DEF GiveItem
<1>k. call' \in Calls /\ call'.op \in {"remove", "set", "attr"} /\ call'.on = l /\ call'.pos = pos
  BY DEF GiveItem
<1>v. v \in Cells /\ obj[v].type # "none" /\ (obj[v].intern \/ obj[v].refcount >= 1)
  BY <1>1, ItemFacts, SomebodyFacts
<1>o. /\ o \in [Cells -> Objects]
      /\ \A c \in Cells : /\ o[c].intern = obj[c].intern /\ o[c].refcount = obj[c].refcount
                          /\ o[c].items = obj[c].items /\ o[c].file = obj[c].file /\ o[c].meta = obj[c].meta
                          /\ obj[c].type # "none" => o[c].type = obj[c].type
      /\ Delete(o, <<>>, v)
  BY DEF GiveItem
<1>c. \A d \in Cells : /\ Cardinality(Positions(obj[l].items, d) \ {pos})
                            = Cardinality(Positions(obj[l].items, d)) - One(v = d)
                       /\ Cardinality(Positions(obj[l].items, d)) \in Nat
  BY <1>1, StartFacts, CutCount
<1> HIDE DEF v
<1>3. /\ obj' \in [Cells -> Objects] /\ stack' \in Seq(Frames) /\ Fresh'
      /\ \A d \in Cells :
           /\ Alike(o, obj', d)
           /\ obj'[d].refcount = o[d].refcount - One(d = v /\ ~ o[d].intern)
           /\ d # v => obj'[d] = o[d]
      /\ \A c \in Cells : Busy(c)' => Nobody(c)' /\ Len(stack') = 1
      /\ StackOK'
  <2>1. v \in Cells \cup {Null} /\ o[v].type # "none" /\ (o[v].intern \/ o[v].refcount >= 1)
    BY <1>v, <1>o
  <2> QED
    BY <1>o, <2>1, StartDelete
<1>4. \A c \in Cells : /\ obj'[c].intern = obj[c].intern /\ obj'[c].items = obj[c].items
                       /\ obj'[c].file = obj[c].file /\ obj'[c].meta = obj[c].meta
                       /\ obj'[c].refcount = obj[c].refcount - One(c = v /\ ~ obj[c].intern)
  BY <1>o, <1>3 DEF Alike
<1>5. TypeOK'
  <2>1. \A c \in Cells : Len(obj'[c].items) <= MaxItems
    BY <1>4, StartFacts
  <2> QED
    BY <1>u, <1>k, <1>3, <2>1, StartFacts DEF TypeOK
<1>6. \A c \in Cells : /\ c # l => Cut(c)' = {}
                       /\ FileOf(c)' = obj[c].file
  BY <1>k, <1>4 DEF Cut, FileOf
<1>7. Cut(l)' = {pos}
  BY <1>k DEF Cut
<1>8. CountsExact'
  <2> SUFFICES ASSUME NEW d \in Cells, ~ obj'[d].intern
               PROVE  obj'[d].refcount = References(d)' + leaked'[d]
    BY DEF CountsExact
  <2>1. ~ obj[d].intern
    BY <1>4
  <2>2. \A c \in Cells : /\ c # l => obj'[c].items = obj[c].items /\ Cut(c)' = {}
                         /\ FileOf(c)' = obj[c].file /\ obj'[c].meta = obj[c].meta
    BY <1>4, <1>6
  <2>3. /\ References(d)' + leaked'[d] = obj[d].refcount + (held'[d] - held[d])
             + (Cardinality(Kept(l, d)') - Cardinality(Positions(obj[l].items, d)))
             + (One(FileOf(l)' = d) - One(obj[l].file = d))
             + One(Pending(d)')
        /\ held[d] \in Nat /\ held'[d] \in Nat /\ obj[d].refcount \in Nat
    <3>1. TypeOK' /\ Fresh' /\ leaked' = leaked /\ l \in Cells
      BY <1>1, <1>u, <1>3, <1>5
    <3> QED
      BY <2>1, <2>2, <3>1, StartRefs
  <2>4. Kept(l, d)' = Positions(obj[l].items, d) \ {pos}
    BY <1>1, <1>4, <1>7 DEF Kept, Positions
  <2>5. /\ One(FileOf(l)' = d) = One(obj[l].file = d) /\ One(Pending(d)') = 0
        /\ One(obj[l].file = d) \in {0, 1}
        /\ One(d = v /\ ~ obj[d].intern) = One(v = d) /\ One(v = d) \in {0, 1}
    BY <1>1, <1>k, <2>1, <2>2 DEF One, Pending
  <2>6. Cardinality(Kept(l, d)') = Cardinality(Positions(obj[l].items, d)) - One(v = d)
        /\ Cardinality(Positions(obj[l].items, d)) \in Nat
    BY <1>c, <2>4
  <2>7. References(d)' + leaked'[d] = obj[d].refcount - One(v = d)
    BY <1>u, <2>3, <2>5, <2>6
  <2> QED
    BY <1>4, <2>5, <2>7
<1>9. Roots \subseteq Roots'
  BY <1>u, <1>4 DEF Roots
<1>10. \A c \in Cells : Nobody(c)' \/ c = l \/ \A d \in Cells : Edge(c, d) => Edge(c, d)'
  <2> SUFFICES ASSUME NEW c \in Cells, ~ Nobody(c)', c # l PROVE \A d \in Cells : Edge(c, d) => Edge(c, d)'
    OBVIOUS
  <2>1. ~ Busy(c)' /\ Fresh'
    BY <1>3
  <2>2. obj'[c].items = obj[c].items /\ obj'[c].meta = obj[c].meta /\ Cut(c)' = {} /\ FileOf(c)' = obj[c].file
    BY <1>4, <1>6
  <2> QED
    BY <2>1, <2>2, EdgeKept
<1>11. l \in Live'
  BY <1>1, <1>5, <1>8, <1>9, <1>10, LiveStays
<1> QED
  BY <1>3, <1>5, <1>8, <1>11 DEF v
\* The free list when a call gives up an item and allocates nothing.
LEMMA GivenKeepsFree ==
  ASSUME Inv, Idle, NEW l \in Reach, NEW pos, GiveItem(l, pos, obj),
         FreeList' = FreeList, current' = current
  PROVE  FreedOK' /\ FreeListOK'
<1> DEFINE v == obj[l].items[pos].val
<1>1. \A d \in Cells : Alike(obj, obj', d) /\ (d # v => obj'[d] = obj[d])
  BY ItemGivenUp
<1>2. l \in Cells /\ pos \in 1 .. Len(obj[l].items)
  BY ReachFacts DEF GiveItem
<1>3. v \in Cells /\ obj[v] # Freed
  BY <1>2, ItemFacts, SomebodyFacts
<1>4. TypeOK /\ FreedOK /\ FreeListOK
  BY DEF Inv
<1> HIDE DEF v
<1>5. /\ \A c \in Cells : obj'[c].type = obj[c].type
      /\ \A c \in Cells : obj[c] = Freed => obj'[c] = Freed
  BY <1>1, <1>3 DEF Alike
<1> QED
  BY <1>4, <1>5, KeepsFree

LEMMA ListRemoveInv ==
  ASSUME Inv, Idle, NEW l \in Reach, NEW pos \in 1 .. MaxItems, ListRemove(l, pos) PROVE Inv'
<1> DEFINE k == [op |-> "remove", on |-> l, pos |-> pos, val |-> Null]
<1>1. l \in Cells
  BY ReachFacts
<1>2. /\ pos \in 1 .. Len(obj[l].items) /\ Len(obj[l].items) \in Nat
      /\ obj \in [Cells -> Objects] /\ FreeList \in Seq(Cells) /\ current \in 0 .. PoolSize
  BY <1>1, StartFacts DEF ListRemove, TypeOK
<1>3. /\ call' = k /\ Delete(obj, <<>>, obj[l].items[pos].val)
      /\ FreeList' = FreeList /\ current' = current /\ held' = held /\ leaked' = leaked
  BY DEF ListRemove
<1>4. k \in Calls /\ k.op = "remove" /\ k.on = l /\ k.pos = pos /\ k.val = Null
  BY <1>1, <1>2 DEF Calls
<1> HIDE DEF k
<1>5. GiveItem(l, pos, obj)
  BY <1>2, <1>3, <1>4 DEF GiveItem
<1>6. TypeOK' /\ CountsExact' /\ StackOK' /\ l \in Live' /\ obj'[l].items = obj[l].items
  BY <1>1, <1>5, ItemGivenUp DEF Alike
<1>7. FreedOK' /\ FreeListOK'
  BY <1>3, <1>5, GivenKeepsFree
<1>8. CallOK'
  BY <1>2, <1>3, <1>4, <1>6 DEF CallOK
<1> QED
  BY <1>6, <1>7, <1>8 DEF Inv

LEMMA ListSetInv ==
  ASSUME Inv, Idle, NEW l \in Reach, NEW w \in Reach, NEW pos \in 1 .. MaxItems, ListSet(l, pos, w)
  PROVE  Inv'
<1> DEFINE k == [op |-> "set", on |-> l, pos |-> pos, val |-> w]
<1>1. l \in Cells /\ w \in Cells /\ held[w] > 0
  BY ReachFacts DEF ListSet
<1>2. /\ pos \in 1 .. Len(obj[l].items) /\ Len(obj[l].items) \in Nat
      /\ obj \in [Cells -> Objects] /\ FreeList \in Seq(Cells) /\ current \in 0 .. PoolSize
  BY <1>1, StartFacts DEF ListSet, TypeOK
<1>3. /\ call' = k /\ Delete(obj, <<>>, obj[l].items[pos].val)
      /\ FreeList' = FreeList /\ current' = current /\ held' = held /\ leaked' = leaked
  BY DEF ListSet
<1>4. k \in Calls /\ k.op = "set" /\ k.on = l /\ k.pos = pos /\ k.val = w
  BY <1>1, <1>2 DEF Calls
<1> HIDE DEF k
<1>5. GiveItem(l, pos, obj)
  BY <1>2, <1>3, <1>4 DEF GiveItem
<1>6. TypeOK' /\ CountsExact' /\ StackOK' /\ l \in Live' /\ obj'[l].items = obj[l].items
  BY <1>1, <1>5, ItemGivenUp DEF Alike
<1>7. FreedOK' /\ FreeListOK'
  BY <1>3, <1>5, GivenKeepsFree
<1>8. CallOK'
  BY <1>1, <1>2, <1>3, <1>4, <1>6 DEF CallOK
<1> QED
  BY <1>6, <1>7, <1>8 DEF Inv
\* What can be reached without the node that is given up stays reachable.
LEMMA WithoutLive ==
  ASSUME Inv, Idle, NEW l \in Reach, NEW pos, GiveItem(l, pos, obj), NEW w \in ReachWithout(<<l, pos>>)
  PROVE  w \in Live'
<1>1. TypeOK' /\ CountsExact' /\ Fresh' /\ \A c \in Cells : Busy(c)' => Nobody(c)'
  BY ItemGivenUp
<1>2. \A c \in Cells : /\ obj'[c].items = obj[c].items /\ obj'[c].file = obj[c].file
                       /\ obj'[c].meta = obj[c].meta /\ obj'[c].intern = obj[c].intern
  BY ItemGivenUp DEF Alike
<1>3. held' = held /\ call'.op \in {"remove", "set", "attr"} /\ call'.on = l /\ call'.pos = pos
  BY DEF GiveItem
<1>4. Unreferenced'
  BY <1>1, NobodyFacts, PTL
<1>5. FreshItems'
  BY <1>1, FreshFacts, PTL
<1>6. w \in Cells
  BY DEF ReachWithout
<1>7. Roots' = Roots
  BY <1>2, <1>3 DEF Roots
<1> SUFFICES ASSUME NEW S \in SUBSET Cells, Bound(S)' PROVE w \in S
  BY <1>6 DEF Live
<1> DEFINE T == {c \in S : ~ Nobody(c)'}
<1>8. Roots \subseteq S /\ \A c \in S, d \in Cells : Edge(c, d)' => d \in S
  BY <1>7 DEF Bound
<1>9. Roots \subseteq T
  BY <1>4, <1>7, <1>8 DEF Unreferenced
<1>10. ASSUME NEW c \in T, NEW d \in Cells, Edge(c, d)' PROVE d \in T
  BY <1>4, <1>8, <1>10 DEF Unreferenced
<1>11. Closed(T, <<l, pos>>)
  <2> SUFFICES ASSUME NEW c \in T
               PROVE  /\ {obj[c].file, obj[c].meta} \subseteq T \cup {Null}
                      /\ \A i \in 1 .. Len(obj[c].items) : <<c, i>> = <<l, pos>> \/ obj[c].items[i].val \in T
    BY DEF Closed
  <2>0. c \in Cells /\ ~ Busy(c)'
    BY <1>1
  <2>1. \A d \in Cells : obj[c].file = d \/ obj[c].meta = d => d \in T
    <3> SUFFICES ASSUME NEW d \in Cells, obj[c].file = d \/ obj[c].meta = d PROVE d \in T
      OBVIOUS
    <3>1. Edge(c, d)'
      BY <1>2, <1>3, <2>0 DEF Edge
    <3> QED
      BY <1>10, <3>1
  <2>2. obj[c].file \in Cells \cup {Null} /\ obj[c].meta \in Cells \cup {Null} /\ obj[c].items \in Seq(Nodes)
    BY <2>0, StartFacts
  <2>3. ASSUME NEW i \in 1 .. Len(obj[c].items), ~ (c = l /\ i = pos) PROVE obj[c].items[i].val \in T
    <3>1. PICK d \in Cells : d = obj[c].items[i].val
      BY <2>0, ItemFacts
    <3>2. i \in Positions(obj'[c].items, d)
      BY <1>2, <2>0, <3>1 DEF Positions
    <3>3. i \notin Cut(c)'
      BY <1>3, <2>3 DEF Cut
    <3>4. ItemsTo(c, d)' # {}
      BY <1>5, <2>0, <3>2, <3>3 DEF FreshItems
    <3>5. Edge(c, d)'
      BY <2>0, <3>4 DEF Edge
    <3>6. d \in T
      BY <1>10, <3>5
    <3> QED
      BY <3>1, <3>6
  <2> HIDE DEF T
  <2> QED
    BY <2>1, <2>2, <2>3
<1>12. w \in T
  <2>1. T \in SUBSET Cells
    OBVIOUS
  <2> HIDE DEF T
  <2> QED
    BY <1>9, <1>11, <2>1 DEF ReachWithout
<1> QED
  BY <1>12

LEMMA SetattrOldInv ==
  ASSUME Inv, Idle, NEW h \in Reach, NEW w \in Reach, NEW k \in Keys, SetattrOld(h, k, w) PROVE Inv'
<1>1. h \in Cells /\ w \in Cells
  BY ReachFacts
<1>2. PICK i \in 1 .. Len(obj[h].items) :
        /\ w \in ReachWithout(<<h, i>>)
        /\ call' = [op |-> "attr", on |-> h, pos |-> i, val |-> w]
        /\ Delete(obj, <<>>, obj[h].items[i].val)
  BY DEF SetattrOld, Position
<1> DEFINE q == [op |-> "attr", on |-> h, pos |-> i, val |-> w]
<1>3. /\ call' = q
      /\ FreeList' = FreeList /\ current' = current /\ held' = held /\ leaked' = leaked
  BY <1>2 DEF SetattrOld
<1>o. /\ Len(obj[h].items) \in Nat
      /\ obj \in [Cells -> Objects] /\ FreeList \in Seq(Cells) /\ current \in 0 .. PoolSize
  BY <1>1, StartFacts DEF TypeOK
<1>4. q \in Calls /\ q.op = "attr" /\ q.on = h /\ q.pos = i /\ q.val = w
  BY <1>1, <1>2, <1>o DEF Calls
<1> HIDE DEF q
<1>5. GiveItem(h, i, obj)
  BY <1>2, <1>3, <1>4, <1>o DEF GiveItem
<1>6. TypeOK' /\ CountsExact' /\ StackOK' /\ h \in Live' /\ obj'[h].items = obj[h].items
  BY <1>1, <1>5, ItemGivenUp DEF Alike
<1>7. FreedOK' /\ FreeListOK'
  BY <1>3, <1>5, GivenKeepsFree
<1>8. w \in Live'
  BY <1>2, <1>5, WithoutLive
<1>9. CallOK'
  BY <1>1, <1>2, <1>3, <1>4, <1>6, <1>8 DEF CallOK
<1> QED
  BY <1>6, <1>7, <1>9 DEF Inv
LEMMA SetattrOldCharsInv ==
  ASSUME Inv, Idle, NEW h \in Reach, NEW k \in Keys, SetattrOldChars(h, k) PROVE Inv'
<1>1. h \in Cells /\ Take
  BY ReachFacts DEF SetattrOldChars
<1>a. PICK m \in Cells : m = Malloc
  BY <1>1, StartFacts, TakeFacts
<1> DEFINE b == DohBase("String", 0)
           o == WithNew(obj, m, b)
<1>2. PICK i \in 1 .. Len(obj[h].items) :
        /\ call' = [op |-> "attr", on |-> h, pos |-> i, val |-> m]
        /\ Delete([obj EXCEPT ![m] = b], <<>>, obj[h].items[i].val)
  BY <1>a DEF SetattrOldChars, Position
<1> DEFINE q == [op |-> "attr", on |-> h, pos |-> i, val |-> m]
           v == obj[h].items[i].val
<1>3. call' = q /\ held' = held /\ leaked' = leaked /\ Delete(o, <<>>, v)
  BY <1>2 DEF SetattrOldChars, WithNew
<1>m. /\ m \in Cells /\ obj[m] = Freed
      /\ FreeList' \in Seq(Cells) /\ current' \in 0 .. PoolSize
  BY <1>1, <1>a, StartFacts, TakeFacts
<1>v. v \in Cells /\ obj[v] # Freed
  BY <1>1, ItemFacts, SomebodyFacts
<1>s. Len(obj[h].items) \in Nat /\ obj \in [Cells -> Objects]
  BY <1>1, StartFacts
<1> HIDE DEF v
<1>4. q \in Calls /\ q.op = "attr" /\ q.on = h /\ q.pos = i /\ q.val = m
  BY <1>1, <1>m, <1>s DEF Calls
<1>b. /\ b \in Objects /\ b.type = "String" /\ b.intern = Freed.intern /\ b.refcount = Freed.refcount
      /\ b.items = Freed.items /\ b.file = Freed.file /\ b.meta = Freed.meta
  BY DEF DohBase, Freed, Objects, Types, Null
<1> HIDE DEF q, b, o
<1>o. o \in [Cells -> Objects] /\ o[m] = b /\ \A c \in Cells : c # m => o[c] = obj[c]
  BY <1>m, <1>b, <1>s, SetNew DEF o
<1>5. GiveItem(h, i, o)
  <2>1. \A c \in Cells : /\ o[c].intern = obj[c].intern /\ o[c].refcount = obj[c].refcount
                         /\ o[c].items = obj[c].items /\ o[c].file = obj[c].file /\ o[c].meta = obj[c].meta
                         /\ obj[c].type # "none" => o[c].type = obj[c].type
    BY <1>m, <1>b, <1>o, FreedFacts
  <2> QED
    BY <1>3, <1>4, <1>m, <1>o, <2>1 DEF GiveItem, v
<1>6. /\ TypeOK' /\ CountsExact' /\ StackOK' /\ h \in Live'
      /\ \A d \in Cells : Alike(o, obj', d) /\ (d # v => obj'[d] = o[d])
  BY <1>1, <1>5, ItemGivenUp DEF v
<1>7. FreedOK' /\ FreeListOK'
  <2>1. TypeOK /\ FreedOK /\ FreeListOK
    BY DEF Inv
  <2>2. obj'[m].type # "none"
    BY <1>m, <1>b, <1>o, <1>6 DEF Alike
  <2>3. \A c \in Cells : c # m => obj'[c].type = obj[c].type
    BY <1>o, <1>6 DEF Alike
  <2>4. \A c \in Cells : c # m /\ obj[c] = Freed => obj'[c] = Freed
    BY <1>o, <1>v, <1>6
  <2> QED
    BY <1>1, <1>a, <2>1, <2>2, <2>3, <2>4, Allocates
<1>8. obj'[m] = b /\ m # v
  BY <1>m, <1>v, <1>o, <1>6
<1>9. ~ Busy(m)'
  <2>1. stack' = Pushed(o, <<>>, v)
    BY <1>3 DEF Delete, Pushed
  <2> DEFINE e == <<>>
  <2>2. e \in Seq(Frames) /\ ~ BusyIn(e, m) /\ stack' = Pushed(o, e, v)
    BY <2>1 DEF BusyIn
  <2> HIDE DEF e
  <2>3. ~ BusyIn(Pushed(o, e, v), m)
    BY <1>v, <1>8, <2>2, PushFacts, ZenonT(60)
  <2> QED
    BY <2>2, <2>3, GivenDef
<1>10. CallOK'
  <2>1. obj'[h].items = obj[h].items
    BY <1>1, <1>m, <1>b, <1>o, <1>6, FreedFacts DEF Alike
  <2>2. Unborn(m)'
    BY <1>8, <1>9 DEF Unborn, b
  <2> QED
    BY <1>3, <1>4, <1>m, <1>s, <1>6, <2>1, <2>2 DEF CallOK
<1> QED
  BY <1>6, <1>7, <1>10 DEF Inv
\* Setfile gives up the file of y and deletes it, in the state where the objects are o
\* and its new file f has been referenced.
GiveFile(y, f, o) ==
  /\ f \in Cells
  /\ call' = [op |-> "file", on |-> y, pos |-> 0, val |-> f]
  /\ o \in [Cells -> Objects]
  /\ \A c \in Cells : /\ o[c].intern = obj[c].intern /\ o[c].refcount = obj[c].refcount + One(c = f)
                      /\ o[c].items = obj[c].items /\ o[c].file = obj[c].file /\ o[c].meta = obj[c].meta
                      /\ obj[c].type # "none" => o[c].type = obj[c].type
  /\ Delete(o, <<>>, obj[y].file)
  /\ FreeList' \in Seq(Cells) /\ current' \in 0 .. PoolSize
  /\ UNCHANGED <<held, leaked>>

LEMMA FileGivenUp ==
  ASSUME Inv, Idle, NEW y \in Reach, NEW f, NEW o, GiveFile(y, f, o)
  PROVE  /\ TypeOK' /\ CountsExact' /\ StackOK' /\ CallOK'
         /\ \A d \in Cells : Alike(o, obj', d) /\ (d # obj[y].file => obj'[d] = o[d])
<1> DEFINE v == obj[y].file
<1>1. y \in Cells /\ y \in Live /\ f \in Cells
  BY ReachFacts DEF GiveFile
<1>u. held' = held /\ leaked' = leaked /\ FreeList' \in Seq(Cells) /\ current' \in 0 .. PoolSize
  BY DEF GiveFile
<1>k. call' \in Calls /\ call'.op = "file" /\ call'.on = y /\ call'.val = f
  BY <1>1 DEF GiveFile, Calls
<1>v. v \in Cells \cup {Null} /\ (v # Null => v \in Cells /\ obj[v].type # "none" /\ (obj[v].intern \/ obj[v].refcount >= 1))
  BY <1>1, FileFacts, SomebodyFacts
<1>o. /\ o \in [Cells -> Objects]
      /\ \A c \in Cells : /\ o[c].intern = obj[c].intern /\ o[c].refcount = obj[c].refcount + One(c = f)
                          /\ o[c].items = obj[c].items /\ o[c].file = obj[c].file /\ o[c].meta = obj[c].meta
                          /\ obj[c].type # "none" => o[c].type = obj[c].type
      /\ Delete(o, <<>>, v)
  BY DEF GiveFile
<1> HIDE DEF v
<1>r. \A c \in Cells : obj[c].refcount \in Nat
  BY StartFacts
<1>3. /\ obj' \in [Cells -> Objects] /\ stack' \in Seq(Frames) /\ Fresh'
      /\ \A d \in Cells :
           /\ Alike(o, obj', d)
           /\ obj'[d].refcount = o[d].refcount - One(d = v /\ ~ o[d].intern)
           /\ d # v => obj'[d] = o[d]
      /\ \A c \in Cells : Busy(c)' => Nobody(c)' /\ Len(stack') = 1
      /\ StackOK'
  <2>1. v # Null => o[v].type # "none" /\ (o[v].intern \/ o[v].refcount >= 1)
    BY <1>v, <1>o, <1>r DEF One
  <2> QED
    BY <1>o, <1>v, <2>1, StartDelete
<1>4. \A c \in Cells : /\ obj'[c].intern = obj[c].intern /\ obj'[c].items = obj[c].items
                       /\ obj'[c].file = obj[c].file /\ obj'[c].meta = obj[c].meta
                       /\ obj'[c].refcount = obj[c].refcount + One(c = f) - One(c = v /\ ~ obj[c].intern)
  <2> SUFFICES ASSUME NEW c \in Cells
               PROVE  /\ obj'[c].intern = obj[c].intern /\ obj'[c].items = obj[c].items
                      /\ obj'[c].file = obj[c].file /\ obj'[c].meta = obj[c].meta
                      /\ obj'[c].refcount = obj[c].refcount + One(c = f) - One(c = v /\ ~ obj[c].intern)
    OBVIOUS
  <2>1. Alike(o, obj', c) /\ obj'[c].refcount = o[c].refcount - One(c = v /\ ~ o[c].intern)
    BY <1>3
  <2>2. One(c = v /\ ~ o[c].intern) = One(c = v /\ ~ obj[c].intern)
    BY <1>o
  <2>3. o[c].refcount = obj[c].refcount + One(c = f) /\ obj[c].refcount \in Nat
    BY <1>o, <1>r
  <2>4. obj'[c].refcount = o[c].refcount - One(c = v /\ ~ obj[c].intern)
    BY <2>1, <2>2
  <2>5. obj'[c].refcount = obj[c].refcount + One(c = f) - One(c = v /\ ~ obj[c].intern)
    <3>1. One(c = f) \in {0, 1} /\ One(c = v /\ ~ obj[c].intern) \in {0, 1}
      BY DEF One
    <3> DEFINE p == One(c = f)
               q == One(c = v /\ ~ obj[c].intern)
    <3>2. /\ p \in {0, 1} /\ q \in {0, 1} /\ obj[c].refcount \in Nat
          /\ o[c].refcount = obj[c].refcount + p /\ obj'[c].refcount = o[c].refcount - q
      BY <2>3, <2>4, <3>1
    <3> HIDE DEF p, q
    <3>3. obj'[c].refcount = obj[c].refcount + p - q
      BY <3>2
    <3> QED
      BY <3>3 DEF p, q
  <2> QED
    BY <1>o, <2>1, <2>5 DEF Alike
<1>5. TypeOK'
  <2>1. \A c \in Cells : Len(obj'[c].items) <= MaxItems
    BY <1>4, StartFacts
  <2> QED
    BY <1>u, <1>k, <1>3, <2>1, StartFacts DEF TypeOK
<1>6. \A c \in Cells : /\ Cut(c)' = {}
                       /\ c # y => FileOf(c)' = obj[c].file
  BY <1>k, <1>4 DEF Cut, FileOf
<1>7. FileOf(y)' = Null
  BY <1>k DEF FileOf
<1>8. CountsExact'
  <2> SUFFICES ASSUME NEW d \in Cells, ~ obj'[d].intern
               PROVE  obj'[d].refcount = References(d)' + leaked'[d]
    BY DEF CountsExact
  <2>1. ~ obj[d].intern
    BY <1>4
  <2>2. \A c \in Cells : /\ obj'[c].items = obj[c].items /\ Cut(c)' = {}
                         /\ c # y => FileOf(c)' = obj[c].file
                         /\ obj'[c].meta = obj[c].meta
    BY <1>4, <1>6
  <2>3. /\ References(d)' + leaked'[d] = obj[d].refcount + (held'[d] - held[d])
             + (Cardinality(Kept(y, d)') - Cardinality(Positions(obj[y].items, d)))
             + (One(FileOf(y)' = d) - One(obj[y].file = d))
             + One(Pending(d)')
        /\ held[d] \in Nat /\ held'[d] \in Nat /\ obj[d].refcount \in Nat
        /\ Cardinality(Positions(obj[y].items, d)) \in Nat
    <3>1. TypeOK' /\ Fresh' /\ leaked' = leaked /\ y \in Cells
      BY <1>1, <1>u, <1>3, <1>5
    <3> QED
      BY <2>1, <2>2, <3>1, StartRefs
  <2>4. Kept(y, d)' = Positions(obj[y].items, d)
    BY <1>1, <2>2 DEF Kept, Positions
  <2>5. /\ One(FileOf(y)' = d) = 0 /\ One(obj[y].file = d) = One(d = v) /\ One(Pending(d)') = One(d = f)
        /\ One(d = v /\ ~ obj[d].intern) = One(d = v) /\ One(d = v) \in {0, 1} /\ One(d = f) \in {0, 1}
    BY <1>1, <1>k, <1>7, <2>1, CellFacts DEF One, Pending, v
  <2>6. References(d)' + leaked'[d] = obj[d].refcount + One(d = f) - One(d = v)
    BY <1>u, <2>3, <2>4, <2>5
  <2> QED
    BY <1>4, <2>3, <2>5, <2>6
<1>9. Roots \subseteq Roots'
  BY <1>u, <1>4 DEF Roots
<1>10. \A c \in Cells : Nobody(c)' \/ c = y \/ \A d \in Cells : Edge(c, d) => Edge(c, d)'
  <2> SUFFICES ASSUME NEW c \in Cells, ~ Nobody(c)', c # y PROVE \A d \in Cells : Edge(c, d) => Edge(c, d)'
    OBVIOUS
  <2>1. ~ Busy(c)' /\ Fresh'
    BY <1>3
  <2>2. obj'[c].items = obj[c].items /\ obj'[c].meta = obj[c].meta /\ Cut(c)' = {} /\ FileOf(c)' = obj[c].file
    BY <1>4, <1>6
  <2> QED
    BY <2>1, <2>2, EdgeKept
<1>11. y \in Live'
  BY <1>1, <1>5, <1>8, <1>9, <1>10, LiveStays
<1>12. CallOK'
  BY <1>1, <1>k, <1>11 DEF CallOK
<1> QED
  BY <1>3, <1>5, <1>8, <1>12 DEF v

LEMMA SetfileInv ==
  ASSUME Inv, Idle, NEW y \in Reach, NEW f \in Reach, Setfile(y, f) PROVE Inv'
<1> DEFINE o == Incref(obj, f)
<1>1. y \in Cells /\ f \in Cells /\ obj[f] # Freed
  BY ReachFacts
<1>2. /\ call' = [op |-> "file", on |-> y, pos |-> 0, val |-> f]
      /\ Delete(o, <<>>, obj[y].file)
      /\ FreeList' = FreeList /\ current' = current /\ held' = held /\ leaked' = leaked
  BY DEF Setfile
<1>3. FreeList \in Seq(Cells) /\ current \in 0 .. PoolSize /\ obj \in [Cells -> Objects]
      /\ TypeOK /\ FreedOK /\ FreeListOK
  BY DEF Inv, TypeOK
<1>4. /\ o \in [Cells -> Objects]
      /\ \A c \in Cells : /\ Alike(obj, o, c) /\ o[c].refcount = obj[c].refcount + One(c = f)
                          /\ c # f => o[c] = obj[c]
  BY <1>1, <1>3, IncrefFacts
<1> HIDE DEF o
<1>5. GiveFile(y, f, o)
  BY <1>1, <1>2, <1>3, <1>4 DEF GiveFile, Alike
<1>6. /\ TypeOK' /\ CountsExact' /\ StackOK' /\ CallOK'
      /\ \A d \in Cells : Alike(o, obj', d) /\ (d # obj[y].file => obj'[d] = o[d])
  BY <1>5, FileGivenUp
<1>7. obj[y].file # Null => obj[obj[y].file] # Freed
  BY <1>1, FileFacts, SomebodyFacts
<1>8. /\ \A c \in Cells : obj'[c].type = obj[c].type
      /\ \A c \in Cells : obj[c] = Freed => obj'[c] = Freed
  BY <1>1, <1>4, <1>6, <1>7, CellFacts DEF Alike
<1>9. FreedOK' /\ FreeListOK'
  BY <1>2, <1>3, <1>8, KeepsFree
<1> QED
  BY <1>6, <1>9 DEF Inv

LEMMA SetfileCharsInv ==
  ASSUME Inv, Idle, NEW y \in Reach, SetfileChars(y) PROVE Inv'
<1>1. y \in Cells /\ Take
  BY ReachFacts DEF SetfileChars
<1>a. PICK m \in Cells : m = Malloc
  BY <1>1, StartFacts, TakeFacts
<1> DEFINE b == DohBase("String", 1)
           o == WithNew(obj, m, b)
<1>2. /\ call' = [op |-> "file", on |-> y, pos |-> 0, val |-> m]
      /\ Delete(o, <<>>, obj[y].file) /\ held' = held /\ leaked' = leaked
  BY <1>a DEF SetfileChars, WithNew
<1>m. obj[m] = Freed /\ FreeList' \in Seq(Cells) /\ current' \in 0 .. PoolSize
  BY <1>1, <1>a, StartFacts, TakeFacts
<1>3. obj \in [Cells -> Objects] /\ TypeOK /\ FreedOK /\ FreeListOK /\ \A c \in Cells : obj[c].refcount \in Nat
  BY StartFacts
<1>b. /\ b \in Objects /\ b.type = "String" /\ b.intern = Freed.intern /\ b.refcount = 1
      /\ b.items = Freed.items /\ b.file = Freed.file /\ b.meta = Freed.meta
  BY DEF DohBase, Freed, Objects, Types, Null
<1> HIDE DEF b, o
<1>o. o \in [Cells -> Objects] /\ o[m] = b /\ \A c \in Cells : c # m => o[c] = obj[c]
  BY <1>b, <1>3, SetNew DEF o
<1>5. GiveFile(y, m, o)
  <2>1. \A c \in Cells : /\ o[c].intern = obj[c].intern /\ o[c].refcount = obj[c].refcount + One(c = m)
                         /\ o[c].items = obj[c].items /\ o[c].file = obj[c].file /\ o[c].meta = obj[c].meta
                         /\ obj[c].type # "none" => o[c].type = obj[c].type
    BY <1>m, <1>b, <1>o, <1>3, FreedFacts DEF One
  <2> QED
    BY <1>2, <1>m, <1>o, <2>1 DEF GiveFile
<1>6. /\ TypeOK' /\ CountsExact' /\ StackOK' /\ CallOK'
      /\ \A d \in Cells : Alike(o, obj', d) /\ (d # obj[y].file => obj'[d] = o[d])
  BY <1>5, FileGivenUp
<1>7. obj[y].file # Null => obj[obj[y].file] # Freed
  BY <1>1, FileFacts, SomebodyFacts
<1>8. FreedOK' /\ FreeListOK'
  <2>2. obj'[m].type # "none"
    BY <1>b, <1>o, <1>6 DEF Alike
  <2>3. \A c \in Cells : c # m => obj'[c].type = obj[c].type
    BY <1>o, <1>6 DEF Alike
  <2>4. \A c \in Cells : c # m /\ obj[c] = Freed => obj'[c] = Freed
    BY <1>o, <1>6, <1>7, CellFacts
  <2> QED
    BY <1>1, <1>3, <1>a, <2>2, <2>3, <2>4, Allocates
<1> QED
  BY <1>6, <1>8 DEF Inv

LEMMA DohClearInv == ASSUME Inv, Idle, NEW x \in Reach, DohClear(x) PROVE Inv'
<1> DEFINE fr == Frame(x, "clear")
<1>1. x \in Cells /\ x \in Live /\ obj[x].type # "none" /\ call = NoCall
  BY ReachFacts DEF Idle
<1>2. /\ stack' = <<fr>> /\ obj' = obj /\ FreeList' = FreeList /\ current' = current
      /\ held' = held /\ leaked' = leaked /\ call' = call
  BY DEF DohClear
<1>3. fr \in Frames /\ fr.on = x /\ fr.at = 1 /\ fr.mode = "clear"
  BY <1>1 DEF Frame, Frames
<1> HIDE DEF fr
<1>4. stack' \in Seq(Frames) /\ Len(stack') = 1 /\ stack'[1] = fr /\ 1 .. Len(stack') = {1}
  BY <1>2, <1>3
<1>5. TypeOK /\ FreedOK /\ FreeListOK /\ CallOK
  BY DEF Inv
<1>6. TypeOK' /\ FreedOK' /\ FreeListOK'
  BY <1>2, <1>4, <1>5 DEF TypeOK, FreedOK, FreeListOK
<1>7. Fresh'
  BY <1>3, <1>4 DEF Fresh
<1>8. \A c \in Cells : Cut(c)' = {} /\ FileOf(c)' = obj[c].file
  BY <1>1, <1>2, IdleCut
<1>9. \A c \in Cells : Busy(c)' <=> c = x
  BY <1>3, <1>4 DEF Busy
<1>10. CountsExact'
  <2> SUFFICES ASSUME NEW d \in Cells, ~ obj'[d].intern
               PROVE  obj'[d].refcount = References(d)' + leaked'[d]
    BY DEF CountsExact
  <2>1. \A c \in Cells : obj'[c].items = obj[c].items /\ obj'[c].meta = obj[c].meta
    BY <1>2
  <2>2. /\ ~ obj[d].intern => References(d)' + leaked'[d] = obj[d].refcount + (held'[d] - held[d])
             + (Cardinality(Kept(x, d)') - Cardinality(Positions(obj[x].items, d)))
             + (One(FileOf(x)' = d) - One(obj[x].file = d))
             + One(Pending(d)')
        /\ held[d] \in Nat /\ held'[d] \in Nat /\ obj[d].refcount \in Nat
        /\ Cardinality(Positions(obj[x].items, d)) \in Nat
    <3>1. TypeOK' /\ Fresh' /\ leaked' = leaked
      BY <1>2, <1>6, <1>7
    <3> QED
      BY <1>1, <1>8, <2>1, <3>1, StartRefs
  <2>3. Kept(x, d)' = Positions(obj[x].items, d)
    BY <1>1, <1>2, <1>8 DEF Kept, Positions
  <2>4. One(FileOf(x)' = d) = One(obj[x].file = d) /\ One(Pending(d)') = 0 /\ One(obj[x].file = d) \in {0, 1}
    BY <1>1, <1>2, <1>8, IdleCut DEF One
  <2> QED
    BY <1>2, <2>2, <2>3, <2>4
<1>11. x \in Live'
  <2>1. Roots \subseteq Roots'
    BY <1>2 DEF Roots
  <2>2. ASSUME NEW c \in Cells, c # x PROVE \A d \in Cells : Edge(c, d) => Edge(c, d)'
    <3>1. ~ Busy(c)' /\ obj'[c].items = obj[c].items /\ obj'[c].meta = obj[c].meta
          /\ Cut(c)' = {} /\ FileOf(c)' = obj[c].file /\ Fresh'
      BY <1>2, <1>7, <1>8, <1>9, <2>2
    <3> QED
      BY <3>1, EdgeKept
  <2> QED
    BY <1>1, <1>6, <1>10, <2>1, <2>2, LiveStays
<1>12. StackOK'
  <2>1. Len(obj'[x].items) \in Nat
    BY <1>1, <1>2, StartFacts
  <2> QED
    BY <1>1, <1>2, <1>3, <1>4, <1>11, <2>1 DEF StackOK
<1>13. CallOK'
  BY <1>1, <1>2, NoCallFacts DEF CallOK
<1> QED
  BY <1>6, <1>10, <1>12, <1>13 DEF Inv
-----------------------------------------------------------------------------
(* The rest of a call, when the destructors have ended.                     *)

LEMMA ReturnRefs ==
  ASSUME Inv, TypeOK', Fresh, Fresh', leaked' = leaked, NEW d \in Cells, ~ Pending(d)',
         NEW x \in Cells, \A c \in Cells : c # x => Cut(c) = {} /\ FileOf(c) = obj[c].file,
         \A c \in Cells : Cut(c)' = {} /\ FileOf(c)' = obj'[c].file,
         \A c \in Cells : c # x => obj'[c].items = obj[c].items /\ obj'[c].file = obj[c].file,
         \A c \in Cells : obj'[c].meta = obj[c].meta
  PROVE  /\ ~ obj[d].intern =>
              References(d)' + leaked'[d] = obj[d].refcount + (held'[d] - held[d])
                + (Cardinality(Positions(obj'[x].items, d)) - Cardinality(Kept(x, d)))
                + (One(obj'[x].file = d) - One(FileOf(x) = d))
                - One(Pending(d))
         /\ held[d] \in Nat /\ held'[d] \in Nat /\ obj[d].refcount \in Nat
         /\ Cardinality(Positions(obj'[x].items, d)) \in Nat
         /\ Cardinality(Kept(x, d)) \in Nat
<1>4. /\ \A c \in Cells : c # x => obj'[c].items = obj[c].items /\ Cut(c)' = Cut(c)
      /\ \A c \in Cells : c # x => FileOf(c)' = FileOf(c)
      /\ \A c \in Cells : c # x => obj'[c].meta = obj[c].meta
  OBVIOUS
<1>5. /\ References(d)' = References(d) + (held'[d] - held[d])
              + (Cardinality(Kept(x, d)') - Cardinality(Kept(x, d)))
              + (One(FileOf(x)' = d) - One(FileOf(x) = d))
              + (One(obj'[x].meta = d) - One(obj[x].meta = d))
              + (One(Pending(d)') - One(Pending(d)))
      /\ References(d) \in Nat /\ References(d)' \in Nat
      /\ held[d] \in Nat /\ held'[d] \in Nat
      /\ Cardinality(Kept(x, d)) \in Nat /\ Cardinality(Kept(x, d)') \in Nat
  BY <1>4, FreshRefs DEF Inv
<1>6. Kept(x, d)' = Positions(obj'[x].items, d)
  BY DEF Kept, Positions
<1>7. /\ One(FileOf(x)' = d) = One(obj'[x].file = d) /\ One(Pending(d)') = 0
      /\ One(obj'[x].meta = d) = One(obj[x].meta = d)
  BY DEF One
<1>8. /\ One(FileOf(x) = d) \in {0, 1} /\ One(obj'[x].file = d) \in {0, 1} /\ One(obj[x].meta = d) \in {0, 1}
      /\ One(Pending(d)) \in {0, 1}
  BY DEF One
<1>9. leaked'[d] = leaked[d] /\ leaked[d] \in Nat /\ obj[d].refcount \in Nat
      /\ (~ obj[d].intern => obj[d].refcount = References(d) + leaked[d])
  BY StartFacts DEF CountsExact
<1>10. ~ obj[d].intern =>
         References(d)' + leaked'[d] = obj[d].refcount + (held'[d] - held[d])
           + (Cardinality(Kept(x, d)') - Cardinality(Kept(x, d)))
           + (One(obj'[x].file = d) - One(FileOf(x) = d))
           - One(Pending(d))
  BY <1>5, <1>7, <1>8, <1>9
<1> QED
  BY <1>5, <1>6, <1>9, <1>10

LEMMA ReturnEnd ==
  ASSUME Inv, stack = <<>>, stack' = stack, call' = NoCall,
         FreeList' = FreeList, current' = current, leaked' = leaked,
         obj' \in [Cells -> Objects], held' \in [Cells -> Nat],
         \A c \in Cells : Len(obj'[c].items) <= MaxItems,
         \A c \in Cells : obj'[c].type = obj[c].type,
         \A c \in Cells : obj[c] = Freed => obj'[c] = Freed,
         TypeOK' => CountsExact'
  PROVE  Inv'
<1>1. stack' \in Seq(Frames) /\ 1 .. Len(stack') = {}
  OBVIOUS
<1>2. TypeOK' /\ FreedOK' /\ FreeListOK'
  BY <1>1, NoCallFacts, KeepDelete
<1>3. StackOK'
  BY <1>1 DEF StackOK
<1>4. CallOK'
  BY NoCallFacts DEF CallOK
<1> QED
  BY <1>2, <1>3, <1>4 DEF Inv

\* The container that a call goes on with is there.
LEMMA ReturnOn ==
  ASSUME Inv, call # NoCall
  PROVE  /\ call.on \in Cells /\ obj[call.on] # Freed /\ call.op \in {"remove", "set", "attr", "file"}
         /\ call.op # "file" => call.pos \in 1 .. Len(obj[call.on].items)
         /\ call.op # "remove" => call.val \in Cells
         /\ call.op = "set" => held[call.val] > 0
         /\ call.op = "attr" => obj[call.val] # Freed
<1>1. TypeOK /\ CountsExact /\ CallOK /\ call \in Calls
  BY DEF Inv, TypeOK
<1>2. call.op \in {"remove", "set", "attr", "file"} /\ call.on \in Live
  BY <1>1 DEF CallOK, Calls
<1>3. \A c \in Live : c \in Cells /\ ~ Nobody(c)
  BY <1>1, LiveFacts DEF LiveCounted
<1>4. \A c \in Live : obj[c] # Freed
  BY <1>3, SomebodyFacts
<1>5. call.op = "attr" => obj[call.val] # Freed
  <2>1. ASSUME Unborn(call.val) PROVE obj[call.val] # Freed
    BY <2>1 DEF Unborn, DohBase, Freed
  <2> QED
    BY <1>1, <1>4, <2>1 DEF CallOK
<1> QED
  BY <1>1, <1>2, <1>3, <1>4, <1>5 DEF CallOK

\* A node of a container gets another value.
LEMMA SetVal ==
  ASSUME NEW s \in Seq(Nodes), NEW p \in 1 .. Len(s), NEW w \in Cells
  PROVE  LET r == [s EXCEPT ![p].val = w] IN
         /\ r \in Seq(Nodes) /\ Len(r) = Len(s)
         /\ \A d \in Cells : /\ Cardinality(Positions(r, d)) = Cardinality(Positions(s, d) \ {p}) + One(w = d)
                             /\ Cardinality(Positions(s, d) \ {p}) \in Nat
<1> DEFINE r == [s EXCEPT ![p].val = w]
<1>1. s[p] \in Nodes
  BY ElementOfSeq
<1>2. [s[p] EXCEPT !.val = w] \in Nodes /\ [s[p] EXCEPT !.val = w].val = w
  BY <1>1 DEF Nodes
<1>3. r = [s EXCEPT ![p] = [s[p] EXCEPT !.val = w]]
  OBVIOUS
<1>4. r \in Seq(Nodes) /\ Len(r) = Len(s) /\ r[p].val = w /\ \A i \in 1 .. Len(s) : i # p => r[i] = s[i]
  <2> DEFINE n == [s[p] EXCEPT !.val = w]
  <2>1. n \in Nodes /\ n.val = w /\ r = [s EXCEPT ![p] = n]
    BY <1>2, <1>3
  <2> HIDE DEF n, r
  <2> QED
    BY <2>1, ExceptSeq
<1> HIDE DEF r
<1>5. ASSUME NEW d \in Cells
      PROVE  /\ Cardinality(Positions(r, d)) = Cardinality(Positions(s, d) \ {p}) + One(w = d)
             /\ Cardinality(Positions(s, d) \ {p}) \in Nat
  <2>1. Positions(r, d) \ {p} = Positions(s, d) \ {p}
    BY <1>4 DEF Positions
  <2>2. /\ Cardinality(Positions(r, d) \ {p}) = Cardinality(Positions(r, d)) - One(r[p].val = d)
        /\ Cardinality(Positions(r, d)) \in Nat
    BY <1>4, CutCount
  <2>3. Cardinality(Positions(s, d) \ {p}) \in Nat
    <3>1. Positions(s, d) \ {p} \in SUBSET Positions(s, d)
      OBVIOUS
    <3> QED
      BY <3>1, PositionsFinite
  <2>4. One(r[p].val = d) = One(w = d) /\ One(w = d) \in {0, 1}
    BY <1>4 DEF One
  <2>5. Cardinality(Positions(s, d) \ {p}) = Cardinality(Positions(r, d)) - One(w = d)
    BY <2>1, <2>2, <2>4, Zenon
  <2> QED
    BY <2>2, <2>3, <2>4, <2>5
<1> QED
  BY <1>4, <1>5 DEF r
\* Where a call goes on: the nodes and files that do not count.
LEMMA ReturnFrom ==
  ASSUME Inv, Return
  PROVE  /\ Fresh /\ Fresh' /\ stack = <<>> /\ stack' = stack /\ call' = NoCall
         /\ FreeList' = FreeList /\ current' = current /\ leaked' = leaked
         /\ \A c \in Cells : c # call.on => Cut(c) = {} /\ FileOf(c) = obj[c].file
         /\ \A c \in Cells : Cut(c)' = {} /\ FileOf(c)' = obj'[c].file
         /\ \A d \in Cells : ~ Pending(d)'
         /\ call.op # "file" => Cut(call.on) = {call.pos} /\ FileOf(call.on) = obj[call.on].file
         /\ call.op = "file" => Cut(call.on) = {} /\ FileOf(call.on) = Null
<1>1. /\ stack = <<>> /\ stack' = stack /\ call' = NoCall /\ call # NoCall
      /\ FreeList' = FreeList /\ current' = current /\ leaked' = leaked
  BY DEF Return
<1>2. stack' = <<>> /\ Len(stack) = 0
  BY <1>1
<1>3. Fresh /\ Fresh'
  BY <1>2, IdleCut DEF Fresh
<1>4. /\ \A c \in Cells : Cut(c)' = {} /\ FileOf(c)' = obj'[c].file
      /\ \A d \in Cells : ~ Pending(d)'
  BY <1>1, IdleCut
<1>5. call.op \in {"remove", "set", "attr", "file"}
  BY <1>1, ReturnOn
<1>6. /\ \A c \in Cells : c # call.on => Cut(c) = {} /\ FileOf(c) = obj[c].file
      /\ call.op # "file" => Cut(call.on) = {call.pos} /\ FileOf(call.on) = obj[call.on].file
      /\ call.op = "file" => Cut(call.on) = {} /\ FileOf(call.on) = Null
  BY <1>5 DEF Cut, FileOf
<1> QED
  BY <1>1, <1>3, <1>4, <1>6

\* The rest of List_remove.
LEMMA ReturnRemove == ASSUME Inv, Return, call.op = "remove" PROVE Inv'
<1>1. PICK x \in Cells : x = call.on /\ obj[x] # Freed /\ call.pos \in 1 .. Len(obj[x].items)
  BY ReturnOn DEF Return
<1>2. PICK p \in 1 .. Len(obj[x].items) : p = call.pos
  BY <1>1
<1> DEFINE s == RemoveAt(obj[x].items, p)
<1>3. obj' = WithItems(obj, x, s) /\ held' = held
  BY <1>1, <1>2 DEF Return, WithItems
<1>4. obj \in [Cells -> Objects] /\ held \in [Cells -> Nat] /\ obj[x].items \in Seq(Nodes)
      /\ MaxItems \in Nat /\ \A c \in Cells : Len(obj[c].items) <= MaxItems /\ Len(obj[c].items) \in Nat
  BY StartFacts
<1>5. s \in Seq(Nodes) /\ Len(s) = Len(obj[x].items) - 1
  BY <1>4, RemoveAtSeq
<1>6. \A d \in Cells : Cardinality(Positions(s, d)) = Cardinality(Positions(obj[x].items, d) \ {p})
  BY <1>4, RemoveAtCount
<1> HIDE DEF s
<1>7. /\ obj' \in [Cells -> Objects]
      /\ \A c \in Cells : /\ obj'[c].type = obj[c].type /\ obj'[c].intern = obj[c].intern
                          /\ obj'[c].file = obj[c].file /\ obj'[c].meta = obj[c].meta
                          /\ obj'[c].refcount = obj[c].refcount
                          /\ c # x => obj'[c] = obj[c]
      /\ obj'[x].items = s
  BY <1>3, <1>4, <1>5, SetItems, SMTT(30)
<1>8. /\ Fresh /\ Fresh' /\ leaked' = leaked
      /\ \A c \in Cells : c # x => Cut(c) = {} /\ FileOf(c) = obj[c].file
      /\ \A c \in Cells : Cut(c)' = {} /\ FileOf(c)' = obj'[c].file
      /\ \A d \in Cells : ~ Pending(d)'
      /\ Cut(x) = {p} /\ FileOf(x) = obj[x].file
  BY <1>1, <1>2, ReturnFrom
<1>9. ASSUME TypeOK' PROVE CountsExact'
  <2> SUFFICES ASSUME NEW d \in Cells, ~ obj'[d].intern
               PROVE  obj'[d].refcount = References(d)' + leaked'[d]
    BY DEF CountsExact
  <2>1. /\ ~ obj[d].intern /\ obj'[d].refcount = obj[d].refcount
        /\ \A c \in Cells : c # x => obj'[c].items = obj[c].items /\ obj'[c].file = obj[c].file
        /\ \A c \in Cells : obj'[c].meta = obj[c].meta
    BY <1>7
  <2>2. /\ References(d)' + leaked'[d] = obj[d].refcount + (held'[d] - held[d])
                + (Cardinality(Positions(obj'[x].items, d)) - Cardinality(Kept(x, d)))
                + (One(obj'[x].file = d) - One(FileOf(x) = d))
                - One(Pending(d))
        /\ held[d] \in Nat /\ held'[d] \in Nat /\ obj[d].refcount \in Nat
        /\ Cardinality(Kept(x, d)) \in Nat
    BY <1>8, <1>9, <2>1, ReturnRefs
  <2>3. Cardinality(Positions(obj'[x].items, d)) = Cardinality(Kept(x, d))
    BY <1>6, <1>7, <1>8 DEF Kept
  <2>4. One(obj'[x].file = d) = One(FileOf(x) = d) /\ One(Pending(d)) = 0 /\ One(FileOf(x) = d) \in {0, 1}
    BY <1>7, <1>8 DEF One, Pending
  <2>5. References(d)' + leaked'[d] = obj[d].refcount
    BY <1>3, <2>2, <2>3, <2>4
  <2> QED
    BY <2>1, <2>5
<1>10. /\ \A c \in Cells : Len(obj'[c].items) <= MaxItems
       /\ \A c \in Cells : obj[c] = Freed => obj'[c] = Freed
  <2>1. Len(obj'[x].items) <= MaxItems
    BY <1>4, <1>5, <1>7
  <2> QED
    BY <1>1, <1>4, <1>7, <2>1
<1> QED
  BY <1>3, <1>4, <1>7, <1>9, <1>10, ReturnFrom, ReturnEnd
\* The rest of List_set: the client's reference becomes the list's.
LEMMA ReturnSet == ASSUME Inv, Return, call.op = "set" PROVE Inv'
<1>1. PICK x \in Cells : x = call.on /\ obj[x] # Freed /\ call.pos \in 1 .. Len(obj[x].items)
  BY ReturnOn DEF Return
<1>2. PICK p \in 1 .. Len(obj[x].items) : p = call.pos
  BY <1>1
<1>w. PICK w \in Cells : w = call.val /\ held[w] > 0
  BY ReturnOn DEF Return
<1> DEFINE s == [obj[x].items EXCEPT ![p].val = w]
<1>3. obj' = WithItems(obj, x, s) /\ held' = [held EXCEPT ![w] = @ - 1]
  BY <1>1, <1>2, <1>w DEF Return, WithItems
<1>4. obj \in [Cells -> Objects] /\ held \in [Cells -> Nat] /\ obj[x].items \in Seq(Nodes)
      /\ \A c \in Cells : Len(obj[c].items) <= MaxItems
  BY StartFacts
<1>h. held' \in [Cells -> Nat] /\ \A d \in Cells : held'[d] = held[d] - One(w = d)
  BY <1>3, <1>4, <1>w DEF One
<1>5. /\ s \in Seq(Nodes) /\ Len(s) = Len(obj[x].items)
      /\ \A d \in Cells : /\ Cardinality(Positions(s, d)) = Cardinality(Positions(obj[x].items, d) \ {p}) + One(w = d)
                          /\ Cardinality(Positions(obj[x].items, d) \ {p}) \in Nat
  BY <1>4, SetVal
<1> HIDE DEF s
<1>7. /\ obj' \in [Cells -> Objects]
      /\ \A c \in Cells : /\ obj'[c].type = obj[c].type /\ obj'[c].intern = obj[c].intern
                          /\ obj'[c].file = obj[c].file /\ obj'[c].meta = obj[c].meta
                          /\ obj'[c].refcount = obj[c].refcount
                          /\ c # x => obj'[c] = obj[c]
      /\ obj'[x].items = s
  BY <1>3, <1>4, <1>5, SetItems, SMTT(30)
<1>8. /\ Fresh /\ Fresh' /\ leaked' = leaked
      /\ \A c \in Cells : c # x => Cut(c) = {} /\ FileOf(c) = obj[c].file
      /\ \A c \in Cells : Cut(c)' = {} /\ FileOf(c)' = obj'[c].file
      /\ \A d \in Cells : ~ Pending(d)'
      /\ Cut(x) = {p} /\ FileOf(x) = obj[x].file
  BY <1>1, <1>2, ReturnFrom
<1>9. ASSUME TypeOK' PROVE CountsExact'
  <2> SUFFICES ASSUME NEW d \in Cells, ~ obj'[d].intern
               PROVE  obj'[d].refcount = References(d)' + leaked'[d]
    BY DEF CountsExact
  <2>0. obj'[d].refcount = obj[d].refcount
    BY <1>7
  <2>1. /\ ~ obj[d].intern
        /\ \A c \in Cells : c # x => obj'[c].items = obj[c].items /\ obj'[c].file = obj[c].file
        /\ \A c \in Cells : obj'[c].meta = obj[c].meta
    BY <1>7
  <2>2. /\ References(d)' + leaked'[d] = obj[d].refcount + (held'[d] - held[d])
                + (Cardinality(Positions(obj'[x].items, d)) - Cardinality(Kept(x, d)))
                + (One(obj'[x].file = d) - One(FileOf(x) = d))
                - One(Pending(d))
        /\ held[d] \in Nat /\ held'[d] \in Nat /\ obj[d].refcount \in Nat
        /\ Cardinality(Kept(x, d)) \in Nat
    BY <1>8, <1>9, <2>1, ReturnRefs
  <2>3. Cardinality(Positions(obj'[x].items, d)) = Cardinality(Kept(x, d)) + One(w = d)
    BY <1>5, <1>7, <1>8 DEF Kept
  <2>4. One(obj'[x].file = d) = One(FileOf(x) = d) /\ One(Pending(d)) = 0 /\ One(FileOf(x) = d) \in {0, 1}
    BY <1>7, <1>8 DEF One, Pending
  <2>5. held'[d] = held[d] - One(w = d) /\ One(w = d) \in {0, 1}
    BY <1>h DEF One
  <2>6. References(d)' + leaked'[d] = obj[d].refcount
    <3> DEFINE e == One(w = d)
               k == Cardinality(Kept(x, d))
               n == Cardinality(Positions(obj'[x].items, d))
    <3>1. /\ References(d)' + leaked'[d] = obj[d].refcount + (held'[d] - held[d]) + (n - k)
               + (One(FileOf(x) = d) - One(FileOf(x) = d)) - 0
          /\ held'[d] = held[d] - e /\ n = k + e /\ e \in {0, 1} /\ k \in Nat
          /\ held[d] \in Nat /\ obj[d].refcount \in Nat /\ One(FileOf(x) = d) \in {0, 1}
      BY <2>2, <2>3, <2>4, <2>5, Zenon
    <3> HIDE DEF e, k, n
    <3> QED
      BY <3>1
  <2> QED
    BY <2>0, <2>6
<1>10. /\ \A c \in Cells : Len(obj'[c].items) <= MaxItems
       /\ \A c \in Cells : obj[c] = Freed => obj'[c] = Freed
  BY <1>1, <1>4, <1>5, <1>7
<1> QED
  BY <1>h, <1>7, <1>9, <1>10, ReturnFrom, ReturnEnd

\* The rest of Hash_setattr: the new value is referenced.
LEMMA ReturnAttr == ASSUME Inv, Return, call.op = "attr" PROVE Inv'
<1>1. PICK x \in Cells : x = call.on /\ obj[x] # Freed /\ call.pos \in 1 .. Len(obj[x].items)
  BY ReturnOn DEF Return
<1>2. PICK p \in 1 .. Len(obj[x].items) : p = call.pos
  BY <1>1
<1>w. PICK w \in Cells : w = call.val /\ obj[w] # Freed
  BY ReturnOn DEF Return
<1> DEFINE s == [obj[x].items EXCEPT ![p].val = w]
           o == WithItems(obj, x, s)
<1>3. obj' = Incref(o, w) /\ held' = held
  BY <1>1, <1>2, <1>w DEF Return, WithItems
<1>4. obj \in [Cells -> Objects] /\ held \in [Cells -> Nat] /\ obj[x].items \in Seq(Nodes)
      /\ \A c \in Cells : Len(obj[c].items) <= MaxItems
  BY StartFacts
<1>5. /\ s \in Seq(Nodes) /\ Len(s) = Len(obj[x].items)
      /\ \A d \in Cells : /\ Cardinality(Positions(s, d)) = Cardinality(Positions(obj[x].items, d) \ {p}) + One(w = d)
                          /\ Cardinality(Positions(obj[x].items, d) \ {p}) \in Nat
  BY <1>4, SetVal
<1> HIDE DEF s
<1>6. /\ o \in [Cells -> Objects]
      /\ \A c \in Cells : /\ o[c].type = obj[c].type /\ o[c].intern = obj[c].intern
                          /\ o[c].file = obj[c].file /\ o[c].meta = obj[c].meta
                          /\ o[c].refcount = obj[c].refcount
                          /\ c # x => o[c] = obj[c]
      /\ o[x].items = s
  BY <1>4, <1>5, SetItems
<1> HIDE DEF o
<1>i. /\ obj' \in [Cells -> Objects]
      /\ \A d \in Cells : /\ Alike(o, obj', d)
                          /\ obj'[d].refcount = o[d].refcount + One(d = w)
                          /\ d # w => obj'[d] = o[d]
  BY <1>3, <1>6, IncrefFacts
<1>7. /\ \A c \in Cells : /\ obj'[c].type = obj[c].type /\ obj'[c].intern = obj[c].intern
                          /\ obj'[c].file = obj[c].file /\ obj'[c].meta = obj[c].meta
                          /\ obj'[c].refcount = obj[c].refcount + One(c = w)
                          /\ c # x => obj'[c].items = obj[c].items
                          /\ c # x /\ c # w => obj'[c] = obj[c]
      /\ obj'[x].items = s
  BY <1>6, <1>i DEF Alike
<1>8. /\ Fresh /\ Fresh' /\ leaked' = leaked
      /\ \A c \in Cells : c # x => Cut(c) = {} /\ FileOf(c) = obj[c].file
      /\ \A c \in Cells : Cut(c)' = {} /\ FileOf(c)' = obj'[c].file
      /\ \A d \in Cells : ~ Pending(d)'
      /\ Cut(x) = {p} /\ FileOf(x) = obj[x].file
  BY <1>1, <1>2, ReturnFrom
<1>9. ASSUME TypeOK' PROVE CountsExact'
  <2> SUFFICES ASSUME NEW d \in Cells, ~ obj'[d].intern
               PROVE  obj'[d].refcount = References(d)' + leaked'[d]
    BY DEF CountsExact
  <2>1. /\ ~ obj[d].intern /\ obj'[d].refcount = obj[d].refcount + One(d = w)
        /\ \A c \in Cells : c # x => obj'[c].items = obj[c].items /\ obj'[c].file = obj[c].file
        /\ \A c \in Cells : obj'[c].meta = obj[c].meta
    BY <1>7
  <2>2. /\ References(d)' + leaked'[d] = obj[d].refcount + (held'[d] - held[d])
                + (Cardinality(Positions(obj'[x].items, d)) - Cardinality(Kept(x, d)))
                + (One(obj'[x].file = d) - One(FileOf(x) = d))
                - One(Pending(d))
        /\ held[d] \in Nat /\ held'[d] \in Nat /\ obj[d].refcount \in Nat
        /\ Cardinality(Kept(x, d)) \in Nat
    BY <1>8, <1>9, <2>1, ReturnRefs
  <2>3. Cardinality(Positions(obj'[x].items, d)) = Cardinality(Kept(x, d)) + One(w = d)
    BY <1>5, <1>7, <1>8 DEF Kept
  <2>4. One(obj'[x].file = d) = One(FileOf(x) = d) /\ One(Pending(d)) = 0 /\ One(FileOf(x) = d) \in {0, 1}
    BY <1>7, <1>8 DEF One, Pending
  <2>5. held'[d] = held[d] /\ One(d = w) = One(w = d) /\ One(w = d) \in {0, 1}
    BY <1>3 DEF One
  <2>6. References(d)' + leaked'[d] = obj[d].refcount + One(w = d)
    BY <2>2, <2>3, <2>4, <2>5
  <2> QED
    BY <2>1, <2>5, <2>6
<1>10. /\ \A c \in Cells : Len(obj'[c].items) <= MaxItems
       /\ \A c \in Cells : obj[c] = Freed => obj'[c] = Freed
       /\ \A c \in Cells : obj'[c].type = obj[c].type
  BY <1>1, <1>w, <1>4, <1>5, <1>7
<1> QED
  BY <1>3, <1>4, <1>i, <1>9, <1>10, ReturnFrom, ReturnEnd

\* The rest of Setfile.
LEMMA ReturnFile == ASSUME Inv, Return, call.op = "file" PROVE Inv'
<1>1. PICK x \in Cells : x = call.on /\ obj[x] # Freed
  BY ReturnOn DEF Return
<1>w. PICK w \in Cells : w = call.val
  BY ReturnOn DEF Return
<1>3. obj' = [obj EXCEPT ![x].file = w] /\ held' = held
  BY <1>1, <1>w DEF Return
<1>4. obj \in [Cells -> Objects] /\ held \in [Cells -> Nat] /\ obj[x].items \in Seq(Nodes)
      /\ \A c \in Cells : Len(obj[c].items) <= MaxItems
  BY StartFacts
<1>7. /\ obj' \in [Cells -> Objects]
      /\ \A c \in Cells : /\ obj'[c].type = obj[c].type /\ obj'[c].intern = obj[c].intern
                          /\ obj'[c].items = obj[c].items /\ obj'[c].meta = obj[c].meta
                          /\ obj'[c].refcount = obj[c].refcount
                          /\ c # x => obj'[c] = obj[c]
      /\ obj'[x].file = w
  BY <1>3, <1>4 DEF Objects
<1>8. /\ Fresh /\ Fresh' /\ leaked' = leaked
      /\ \A c \in Cells : c # x => Cut(c) = {} /\ FileOf(c) = obj[c].file
      /\ \A c \in Cells : Cut(c)' = {} /\ FileOf(c)' = obj'[c].file
      /\ \A d \in Cells : ~ Pending(d)'
      /\ Cut(x) = {} /\ FileOf(x) = Null
  BY <1>1, ReturnFrom
<1>9. ASSUME TypeOK' PROVE CountsExact'
  <2> SUFFICES ASSUME NEW d \in Cells, ~ obj'[d].intern
               PROVE  obj'[d].refcount = References(d)' + leaked'[d]
    BY DEF CountsExact
  <2>1. /\ ~ obj[d].intern /\ obj'[d].refcount = obj[d].refcount
        /\ \A c \in Cells : c # x => obj'[c].items = obj[c].items /\ obj'[c].file = obj[c].file
        /\ \A c \in Cells : obj'[c].meta = obj[c].meta
    BY <1>7
  <2>2. /\ References(d)' + leaked'[d] = obj[d].refcount + (held'[d] - held[d])
                + (Cardinality(Positions(obj'[x].items, d)) - Cardinality(Kept(x, d)))
                + (One(obj'[x].file = d) - One(FileOf(x) = d))
                - One(Pending(d))
        /\ held[d] \in Nat /\ held'[d] \in Nat /\ obj[d].refcount \in Nat
        /\ Cardinality(Kept(x, d)) \in Nat
    BY <1>8, <1>9, <2>1, ReturnRefs
  <2>3. Kept(x, d) = Positions(obj'[x].items, d)
    BY <1>7, <1>8 DEF Kept
  <2>4. One(obj'[x].file = d) = One(w = d) /\ One(FileOf(x) = d) = 0
        /\ One(Pending(d)) = One(w = d) /\ One(w = d) \in {0, 1}
    BY <1>w, <1>7, <1>8, CellFacts DEF One, Pending
  <2>5. References(d)' + leaked'[d] = obj[d].refcount
    BY <1>3, <2>2, <2>3, <2>4
  <2> QED
    BY <2>1, <2>5
<1>10. /\ \A c \in Cells : Len(obj'[c].items) <= MaxItems
       /\ \A c \in Cells : obj[c] = Freed => obj'[c] = Freed
       /\ \A c \in Cells : obj'[c].type = obj[c].type
  BY <1>1, <1>4, <1>7
<1> QED
  BY <1>3, <1>4, <1>7, <1>9, <1>10, ReturnFrom, ReturnEnd

LEMMA ReturnInv == ASSUME Inv, Return PROVE Inv'
<1>1. call.op \in {"remove", "set", "attr", "file"}
  BY ReturnOn DEF Return
<1> QED
  BY <1>1, ReturnRemove, ReturnSet, ReturnAttr, ReturnFile
-----------------------------------------------------------------------------
(* The steps of a destructor.                                               *)

\* x is the object of the innermost frame.  The step changes no other object than x
\* and gives up no other node than those of x, then deletes v with the objects o and
\* the frames s.
Cascade(x, o, s, v) ==
  /\ x \in Cells /\ Busy(x) /\ x # call.on
  /\ o \in [Cells -> Objects] /\ \A c \in Cells : c # x => o[c] = obj[c]
  /\ \/ Alike(obj, o, x)
     \/ o[x].items = <<>> /\ o[x].file = obj[x].file /\ o[x].meta = obj[x].meta /\ o[x].intern = obj[x].intern
     \/ o[x] = Freed /\ Nobody(x) /\ v # x
  /\ s \in Seq(Frames)
  /\ \A c \in Cells : c # x => /\ BusyIn(s, c) <=> BusyIn(stack, c)
                               /\ \A i \in Nat \ {0} : GivenBy(s, c, i) <=> GivenBy(stack, c, i)
  /\ v \in Cells \cup {Null}
  /\ v # Null => o[v].type # "none" /\ (o[v].intern \/ o[v].refcount >= 1) /\ ~ Nobody(v)
  /\ Delete(o, s, v)
  /\ held' = held /\ call' = call

LEMMA CascadeFacts ==
  ASSUME NEW x, NEW o, NEW s, NEW v, Cascade(x, o, s, v)
  PROVE  /\ obj' \in [Cells -> Objects] /\ stack' \in Seq(Frames)
         /\ \A d \in Cells :
              /\ Alike(o, obj', d)
              /\ obj'[d].refcount = o[d].refcount - One(d = v /\ ~ o[d].intern)
              /\ d # v => obj'[d] = o[d]
         /\ Doomed(o, v) => v \in Cells /\ Nobody(v)'
         /\ \A c \in Cells : c # x => (Busy(c)' <=> Busy(c) \/ (Doomed(o, v) /\ c = v))
         /\ \A c \in Cells : c # x => \A i \in Nat \ {0} : GivenUp(c, i)' <=> GivenUp(c, i)
         /\ \A i \in Nat \ {0} : GivenUp(x, i)' <=> GivenBy(s, x, i)
<1>1. obj' = Decref(o, v) /\ stack' = Pushed(o, s, v) /\ call' = call
  BY DEF Cascade, Delete, Pushed
<1>2. /\ o \in [Cells -> Objects] /\ v \in Cells \cup {Null} /\ s \in Seq(Frames) /\ x # call.on
      /\ v # Null /\ ~ o[v].intern => o[v].refcount >= 1
  BY DEF Cascade
<1>3. \A c \in Cells : c # x => /\ BusyIn(s, c) <=> BusyIn(stack, c)
                               /\ \A i \in Nat \ {0} : GivenBy(s, c, i) <=> GivenBy(stack, c, i)
  BY DEF Cascade
<1>4. /\ obj' \in [Cells -> Objects]
      /\ \A d \in Cells :
           /\ Alike(o, obj', d)
           /\ obj'[d].refcount = o[d].refcount - One(d = v /\ ~ o[d].intern)
           /\ d # v => obj'[d] = o[d]
      /\ Doomed(o, v) => v \in Cells /\ obj'[v].refcount = 0 /\ ~ obj'[v].intern
  BY <1>1, <1>2, DecrefFacts
<1>5. /\ stack' \in Seq(Frames)
      /\ \A c, i : i \in Nat \ {0} => (GivenBy(stack', c, i) <=> GivenBy(s, c, i))
      /\ \A c : BusyIn(stack', c) <=> BusyIn(s, c) \/ (Doomed(o, v) /\ c = v)
  BY <1>1, <1>2, PushFacts
<1>6. \A c \in Cells : c # x => (Busy(c)' <=> Busy(c) \/ (Doomed(o, v) /\ c = v))
  BY <1>3, <1>5, GivenDef
<1>7. \A c \in Cells : c # x => \A i \in Nat \ {0} : GivenUp(c, i)' <=> GivenUp(c, i)
  BY <1>1, <1>3, <1>5, GivenDef
<1>8. \A i \in Nat \ {0} : GivenUp(x, i)' <=> GivenBy(s, x, i)
  BY <1>1, <1>2, <1>5, GivenDef
<1> QED
  BY <1>4, <1>5, <1>6, <1>7, <1>8 DEF Nobody

\* What the step changes of the references to d.
LEMMA CascadeRefs ==
  ASSUME NEW x, NEW o, NEW s, NEW v, Cascade(x, o, s, v), TypeOK, TypeOK', NEW d \in Cells
  PROVE  /\ References(d)' = References(d)
              + (Cardinality(ItemsTo(x, d)') - Cardinality(ItemsTo(x, d)))
              + (One(obj'[x].file = d) - One(obj[x].file = d))
              + (One(obj'[x].meta = d) - One(obj[x].meta = d))
         /\ References(d) \in Nat /\ References(d)' \in Nat
         /\ Cardinality(ItemsTo(x, d)) \in Nat /\ Cardinality(ItemsTo(x, d)') \in Nat
<1>1. /\ x \in Cells /\ x # call.on /\ held' = held /\ call' = call
      /\ \A c \in Cells : c # x => o[c] = obj[c]
  BY DEF Cascade
<1>2. \A c \in Cells : c # x => /\ obj'[c].items = obj[c].items /\ obj'[c].file = obj[c].file
                                /\ obj'[c].meta = obj[c].meta
  BY <1>1, CascadeFacts DEF Alike
<1>3. ASSUME NEW c \in Cells, c # x PROVE ItemsTo(c, d)' = ItemsTo(c, d)
  <2>1. Len(obj[c].items) \in Nat
    BY LenProperties DEF TypeOK, Objects
  <2>2. \A i \in 1 .. Len(obj[c].items) : GivenUp(c, i)' <=> GivenUp(c, i)
    BY <1>3, <2>1, CascadeFacts
  <2> QED
    BY <1>2, <1>3, <2>2 DEF ItemsTo
<1>4. \A c \in Cells : c # x => ((c \in FilesTo(d))' <=> c \in FilesTo(d))
  BY <1>1, <1>2 DEF FilesTo
<1>5. \A c \in Cells : c # x => ((c \in MetaTo(d))' <=> c \in MetaTo(d))
  BY <1>2 DEF MetaTo
<1>6. /\ References(d)' = References(d) + (held'[d] - held[d])
           + (Cardinality(ItemsTo(x, d)') - Cardinality(ItemsTo(x, d)))
           + (One(x \in FilesTo(d)') - One(x \in FilesTo(d)))
           + (One(x \in MetaTo(d)') - One(x \in MetaTo(d)))
           + (One(Pending(d)') - One(Pending(d)))
      /\ References(d) \in Nat /\ References(d)' \in Nat
      /\ held[d] \in Nat /\ held'[d] \in Nat
      /\ Cardinality(ItemsTo(x, d)) \in Nat /\ Cardinality(ItemsTo(x, d)') \in Nat
  BY <1>1, <1>3, <1>4, <1>5, RefsChange
<1>7. /\ One(x \in FilesTo(d)') = One(obj'[x].file = d) /\ One(x \in FilesTo(d)) = One(obj[x].file = d)
      /\ One(x \in MetaTo(d)') = One(obj'[x].meta = d) /\ One(x \in MetaTo(d)) = One(obj[x].meta = d)
      /\ One(Pending(d)') = One(Pending(d)) /\ held'[d] = held[d]
  BY <1>1 DEF One, FilesTo, MetaTo, Pending
<1>8. \A p : One(p) \in {0, 1}
  BY DEF One
<1> QED
  BY <1>6, <1>7, <1>8

\* What was reachable stays reachable: the references that a destructor gives up are
\* those of objects without references.
LEMMA CascadeLive ==
  ASSUME NEW x, NEW o, NEW s, NEW v, Cascade(x, o, s, v), Inv, TypeOK', CountsExact'
  PROVE  Live \subseteq Live'
<1>1. /\ x \in Cells /\ Busy(x) /\ x # call.on /\ held' = held /\ call' = call
      /\ \A c \in Cells : c # x => o[c] = obj[c]
      /\ \/ o[x].file = obj[x].file /\ o[x].meta = obj[x].meta /\ o[x].intern = obj[x].intern
         \/ o[x] = Freed /\ Nobody(x) /\ v # x
  BY DEF Cascade, Alike
<1>2. \A c \in Cells : c # x => /\ obj'[c].items = obj[c].items /\ obj'[c].file = obj[c].file
                                /\ obj'[c].meta = obj[c].meta /\ obj'[c].intern = obj[c].intern
  BY <1>1, CascadeFacts DEF Alike
<1>3. \/ obj'[x].file = obj[x].file /\ obj'[x].meta = obj[x].meta /\ obj'[x].intern = obj[x].intern
      \/ Nobody(x) /\ Nobody(x)'
  <2>1. CASE o[x] = Freed /\ Nobody(x) /\ v # x
    <3>1. obj'[x] = Freed
      BY <1>1, <2>1, CascadeFacts
    <3> QED
      BY <2>1, <3>1, FreedFacts DEF Nobody
  <2>2. CASE o[x].file = obj[x].file /\ o[x].meta = obj[x].meta /\ o[x].intern = obj[x].intern
    BY <1>1, <2>2, CascadeFacts DEF Alike
  <2> QED
    BY <1>1, <2>1, <2>2
<1>4. Roots \subseteq Roots'
  <2>1. Nobody(x) => x \notin Roots
    BY <1>1, NobodyFacts DEF Inv, Unreferenced
  <2> QED
    BY <1>1, <1>2, <1>3, <2>1 DEF Roots
<1>5. ASSUME NEW c \in Cells, ~ Nobody(c)', NEW d \in Cells, Edge(c, d) PROVE Edge(c, d)'
  <2>1. CASE c = x
    BY <1>1, <1>3, <1>5, <2>1 DEF Edge
  <2>2. CASE c # x /\ ((obj[c].file = d /\ ~ (call.op = "file" /\ call.on = c)) \/ obj[c].meta = d)
    BY <1>1, <1>2, <2>2 DEF Edge
  <2>3. CASE c # x /\ ~ Busy(c) /\ ItemsTo(c, d) # {}
    <3>1. ~ Busy(c)'
      BY <1>5, <2>3, CascadeFacts
    <3>2. Len(obj[c].items) \in Nat
      BY StartFacts
    <3>3. \A i \in 1 .. Len(obj[c].items) : GivenUp(c, i)' <=> GivenUp(c, i)
      BY <2>3, <3>2, CascadeFacts
    <3>4. ItemsTo(c, d)' = ItemsTo(c, d)
      BY <1>2, <2>3, <3>3 DEF ItemsTo
    <3> QED
      BY <2>3, <3>1, <3>4 DEF Edge
  <2> QED
    BY <1>5, <2>1, <2>2, <2>3 DEF Edge
<1> SUFFICES ASSUME NEW z \in Live PROVE z \in Live'
  OBVIOUS
<1> QED
  BY <1>4, <1>5, LiveStays
\* The frames s and the objects o before v is deleted.
FramesOK(o, s) ==
  /\ \A f, g \in 1 .. Len(s) : s[f].on = s[g].on => f = g
  /\ \A f \in 1 .. Len(s) :
       /\ o[s[f].on].type # "none"
       /\ s[f].at <= Len(o[s[f].on].items) + 1
       /\ s[f].mode = "del" => o[s[f].on].refcount = 0 /\ ~ o[s[f].on].intern
       /\ s[f].mode = "clear" => f = 1 /\ call = NoCall /\ s[f].on \in Live

LEMMA CascadeStack ==
  ASSUME NEW x, NEW o, NEW s, NEW v, Cascade(x, o, s, v), Inv, TypeOK', CountsExact', FramesOK(o, s)
  PROVE  StackOK'
<1>1. /\ s \in Seq(Frames) /\ v \in Cells \cup {Null} /\ o \in [Cells -> Objects]
      /\ v # Null => o[v].type # "none" /\ (o[v].intern \/ o[v].refcount >= 1)
      /\ stack' = Pushed(o, s, v) /\ call' = call
  BY DEF Cascade, Delete, Pushed
<1>2. /\ Len(stack') \in Nat /\ Len(s) \in Nat /\ Len(stack') >= Len(s)
      /\ \A f \in 1 .. Len(s) : stack'[f] = s[f]
      /\ \A f \in 1 .. Len(stack') :
           f \in 1 .. Len(s) \/ (f = Len(s) + 1 /\ Doomed(o, v) /\ stack'[f] = Frame(v, "del"))
  <2>1. s \in Seq(Frames) /\ v \in Cells \cup {Null}
    BY <1>1
  <2>2. Len(Pushed(o, s, v)) \in Nat /\ Len(s) \in Nat /\ Len(Pushed(o, s, v)) >= Len(s)
    BY <2>1, PushFacts
  <2>3. \A f \in 1 .. Len(s) : Pushed(o, s, v)[f] = s[f]
    BY <2>1 DEF Pushed
  <2>4. \A f \in 1 .. Len(Pushed(o, s, v)) :
          f \in 1 .. Len(s) \/ (f = Len(s) + 1 /\ Doomed(o, v) /\ Pushed(o, s, v)[f] = Frame(v, "del"))
    BY <2>1, PushFacts
  <2>5. stack' = Pushed(o, s, v)
    BY <1>1
  <2> QED
    BY <2>2, <2>3, <2>4, <2>5
<1>3. \A f \in 1 .. Len(s) : s[f] \in Frames /\ s[f].on \in Cells /\ s[f].mode \in {"del", "clear"}
  <2> SUFFICES ASSUME NEW f \in 1 .. Len(s)
               PROVE  s[f] \in Frames /\ s[f].on \in Cells /\ s[f].mode \in {"del", "clear"}
    OBVIOUS
  <2>1. s[f] \in Frames
    BY <1>1, ElementOfSeq
  <2> QED
    BY <2>1 DEF Frames
<1>4. /\ \A d \in Cells : Alike(o, obj', d) /\ (d # v => obj'[d] = o[d])
      /\ Doomed(o, v) => v \in Cells /\ Nobody(v)'
  BY CascadeFacts
<1>5. \A c \in Live : c \in Live' /\ ~ Nobody(c)'
  <2>1. Live \subseteq Live'
    BY CascadeLive
  <2>2. LiveCounted'
    BY LiveFacts, PTL
  <2> QED
    BY <2>1, <2>2 DEF LiveCounted
<1>6. Frame(v, "del").on = v /\ Frame(v, "del").at = 1 /\ Frame(v, "del").mode = "del"
  BY DEF Frame
<1>7. ASSUME NEW f \in 1 .. Len(s)
      PROVE  /\ Doomed(o, v) => s[f].on # v
             /\ obj'[s[f].on].type # "none"
             /\ s[f].at <= Len(obj'[s[f].on].items) + 1
             /\ s[f].mode = "del" => obj'[s[f].on].refcount = 0 /\ ~ obj'[s[f].on].intern
             /\ s[f].mode = "clear" => f = 1 /\ call' = NoCall /\ s[f].on \in Live'
  <2>1. /\ o[s[f].on].type # "none" /\ s[f].at <= Len(o[s[f].on].items) + 1
        /\ s[f].mode = "del" => o[s[f].on].refcount = 0 /\ ~ o[s[f].on].intern
        /\ s[f].mode = "clear" => f = 1 /\ call = NoCall /\ s[f].on \in Live
    BY DEF FramesOK
  <2>2. s[f].on \in Cells /\ s[f].mode \in {"del", "clear"} /\ Alike(o, obj', s[f].on)
    BY <1>3, <1>4
  <2>3. s[f].mode = "del" => s[f].on # v
    BY <1>1, <2>1, <2>2, CellFacts
  <2>4. s[f].mode = "clear" => s[f].on \in Live' /\ ~ Nobody(s[f].on)'
    BY <1>5, <2>1
  <2>5. Doomed(o, v) => s[f].on # v
    BY <1>4, <2>2, <2>3, <2>4
  <2>6. obj'[s[f].on].type = o[s[f].on].type /\ obj'[s[f].on].items = o[s[f].on].items
    BY <2>2 DEF Alike
  <2>7. s[f].mode = "del" => obj'[s[f].on] = o[s[f].on]
    BY <1>4, <2>2, <2>3
  <2> QED
    BY <1>1, <2>1, <2>4, <2>5, <2>6, <2>7
<1>8. \A f, g \in 1 .. Len(stack') : stack'[f].on = stack'[g].on => f = g
  <2> SUFFICES ASSUME NEW f \in 1 .. Len(stack'), NEW g \in 1 .. Len(stack'), stack'[f].on = stack'[g].on
               PROVE  f = g
    OBVIOUS
  <2>1. CASE f \in 1 .. Len(s) /\ g \in 1 .. Len(s)
    BY <1>2, <2>1 DEF FramesOK
  <2>2. CASE ~ (f \in 1 .. Len(s) /\ g \in 1 .. Len(s))
    BY <1>2, <1>6, <1>7, <2>2
  <2> QED
    BY <2>1, <2>2
<1>9. ASSUME NEW f \in 1 .. Len(stack')
      PROVE  LET c == stack'[f].on IN
             /\ obj'[c].type # "none"
             /\ stack'[f].at <= Len(obj'[c].items) + 1
             /\ stack'[f].mode = "del" => obj'[c].refcount = 0 /\ ~ obj'[c].intern
             /\ stack'[f].mode = "clear" => f = 1 /\ call' = NoCall /\ c \in Live'
  <2>1. CASE f \in 1 .. Len(s)
    BY <1>2, <1>7, <2>1
  <2>2. CASE f \notin 1 .. Len(s)
    <3>1. stack'[f].on = v /\ stack'[f].at = 1 /\ stack'[f].mode = "del" /\ Doomed(o, v) /\ v \in Cells
      BY <1>2, <1>4, <1>6, <2>2
    <3>2. obj'[v].type # "none" /\ obj'[v].refcount = 0 /\ ~ obj'[v].intern
      BY <1>1, <1>4, <3>1, CellFacts DEF Alike, Nobody
    <3>3. Len(obj'[v].items) \in Nat
      BY <3>1, LenProperties DEF TypeOK, Objects
    <3> QED
      BY <3>1, <3>2, <3>3
  <2> QED
    BY <2>1, <2>2
<1> QED
  BY <1>8, <1>9 DEF StackOK

LEMMA CascadeCall ==
  ASSUME NEW x, NEW o, NEW s, NEW v, Cascade(x, o, s, v), Inv, TypeOK', CountsExact'
  PROVE  CallOK'
<1>1. /\ x \in Cells /\ Busy(x) /\ x # call.on /\ held' = held /\ call' = call
      /\ \A c \in Cells : c # x => o[c] = obj[c]
      /\ v # Null => ~ Nobody(v)
  BY DEF Cascade
<1>2. Live \subseteq Live' /\ Live \subseteq Cells
  BY CascadeLive DEF Live
<1>3. CallOK
  BY DEF Inv
<1>4. call.op # "none" => obj'[call.on].items = obj[call.on].items
  BY <1>1, <1>2, <1>3, CascadeFacts DEF CallOK, Alike
<1>5. ASSUME call.val \in Cells, Unborn(call.val) PROVE Unborn(call.val)'
  <2>1. PICK w \in Cells : w = call.val /\ w = call'.val
    BY <1>1, <1>5
  <2>2. obj[w] = DohBase("String", 0) /\ ~ Busy(w) /\ Nobody(w)
    BY <1>5, <2>1, NewObject DEF Unborn, Nobody, Types
  <2>3. w # x /\ w # v
    BY <1>1, <2>2, CellFacts
  <2>4. obj'[w] = obj[w] /\ ~ Busy(w)'
    BY <1>1, <2>2, <2>3, CascadeFacts
  <2>5. Unborn(w)'
    BY <2>2, <2>4 DEF Unborn
  <2> QED
    BY <1>1, <2>1, <2>5
<1>6. call.op = "attr" => call'.val \in Live' \/ Unborn(call.val)'
  BY <1>1, <1>2, <1>3, <1>5 DEF CallOK
<1> QED
  BY <1>1, <1>2, <1>3, <1>4, <1>6 DEF CallOK
LEMMA TopFacts ==
  ASSUME Inv, stack # <<>>
  PROVE  /\ stack \in Seq(Frames) /\ Len(stack) \in Nat \ {0} /\ Len(stack) \in 1 .. Len(stack)
         /\ Top \in Frames /\ Top = stack[Len(stack)]
         /\ Top.on \in Cells /\ Top.at \in Nat \ {0} /\ Top.mode \in {"del", "clear"}
         /\ obj[Top.on].type # "none" /\ Top.at <= Len(obj[Top.on].items) + 1
         /\ Top.mode = "del" => Nobody(Top.on)
         /\ Busy(Top.on) /\ Top.on # call.on
         /\ \A f \in 1 .. Len(stack) : f # Len(stack) => stack[f].on # Top.on
         /\ \A i : GivenUp(Top.on, i) <=> i < Top.at
<1>1. stack \in Seq(Frames) /\ StackOK /\ TypeOK /\ CountsExact /\ CallOK /\ call \in Calls
  BY DEF Inv, TypeOK
<1>2. Len(stack) \in Nat \ {0} /\ Len(stack) \in 1 .. Len(stack)
  BY <1>1
<1>3. Top = stack[Len(stack)]
  BY DEF Top
<1>4. Top \in Frames
  BY <1>1, <1>2, <1>3, ElementOfSeq
<1>5. Top.on \in Cells /\ Top.at \in Nat \ {0} /\ Top.mode \in {"del", "clear"}
  BY <1>4 DEF Frames
<1>6. /\ obj[Top.on].type # "none" /\ Top.at <= Len(obj[Top.on].items) + 1
      /\ Top.mode = "del" => Nobody(Top.on)
      /\ Top.mode = "clear" => call = NoCall
  BY <1>1, <1>2, <1>3 DEF StackOK, Nobody
<1>7. Top.on # call.on
  <2>1. call.op = "none" => call.on = Null
    BY <1>1, NoCallFacts DEF CallOK
  <2>2. call.op # "none" => ~ Nobody(call.on)
    BY <1>1, LiveFacts DEF CallOK, LiveCounted
  <2> QED
    BY <1>5, <1>6, <2>1, <2>2, CellFacts, NoCallFacts
<1>8. \A f \in 1 .. Len(stack) : f # Len(stack) => stack[f].on # Top.on
  BY <1>1, <1>2, <1>3 DEF StackOK
<1>9. Busy(Top.on)
  BY <1>2, <1>3 DEF Busy
<1>10. \A i : GivenUp(Top.on, i) <=> i < Top.at
  BY <1>2, <1>3, <1>7, <1>8 DEF GivenUp
<1> QED
  BY <1>1, <1>2, <1>3, <1>4, <1>5, <1>6, <1>7, <1>8, <1>9, <1>10

\* The innermost frame goes on to its next item.
Advanced == [stack EXCEPT ![Len(stack)].at = @ + 1]

LEMMA AdvancedFacts ==
  ASSUME Inv, stack # <<>>
  PROVE  /\ Advanced \in Seq(Frames) /\ Len(Advanced) = Len(stack)
         /\ \A f \in 1 .. Len(stack) :
              /\ Advanced[f].on = stack[f].on /\ Advanced[f].mode = stack[f].mode
              /\ Advanced[f].at = IF f = Len(stack) THEN stack[f].at + 1 ELSE stack[f].at
         /\ \A c \in Cells : c # Top.on =>
              /\ BusyIn(Advanced, c) <=> BusyIn(stack, c)
              /\ \A i \in Nat \ {0} : GivenBy(Advanced, c, i) <=> GivenBy(stack, c, i)
         /\ \A i : GivenBy(Advanced, Top.on, i) <=> i < Top.at + 1
<1> DEFINE n == Len(stack)
           e == [stack[n] EXCEPT !.at = @ + 1]
<1>1. stack \in Seq(Frames) /\ n \in 1 .. n /\ stack[n] \in Frames /\ Top = stack[n]
  BY TopFacts
<1>2. e \in Frames /\ e.on = stack[n].on /\ e.mode = stack[n].mode /\ e.at = stack[n].at + 1
  BY <1>1 DEF Frames
<1>3. Advanced = [stack EXCEPT ![n] = e]
  BY DEF Advanced
<1> HIDE DEF e
<1>4. /\ Advanced \in Seq(Frames) /\ Len(Advanced) = n
      /\ \A f \in 1 .. n : Advanced[f] = IF f = n THEN e ELSE stack[f]
  BY <1>1, <1>2, <1>3, ExceptSeq
<1>5. \A f \in 1 .. n :
        /\ Advanced[f].on = stack[f].on /\ Advanced[f].mode = stack[f].mode
        /\ Advanced[f].at = IF f = n THEN stack[f].at + 1 ELSE stack[f].at
  BY <1>2, <1>4
<1>6. \A f \in 1 .. n : f # n => stack[f].on # Top.on
  BY TopFacts
<1> HIDE DEF n
<1>7. \A c : BusyIn(Advanced, c) <=> BusyIn(stack, c)
  BY <1>4, <1>5 DEF BusyIn, n
<1>8. \A c \in Cells : c # Top.on => \A i \in Nat \ {0} : GivenBy(Advanced, c, i) <=> GivenBy(stack, c, i)
  BY <1>1, <1>4, <1>5 DEF GivenBy, n
<1>9. \A i : GivenBy(Advanced, Top.on, i) <=> i < Top.at + 1
  BY <1>1, <1>4, <1>5, <1>6 DEF GivenBy, n
<1> QED
  BY <1>4, <1>5, <1>7, <1>8, <1>9 DEF n

LEMMA FrontFacts ==
  ASSUME Inv, stack # <<>>
  PROVE  /\ Front(stack) \in Seq(Frames) /\ Len(Front(stack)) = Len(stack) - 1
         /\ \A f \in 1 .. Len(stack) - 1 : Front(stack)[f] = stack[f] /\ stack[f].on # Top.on
         /\ \A c \in Cells : c # Top.on =>
              /\ BusyIn(Front(stack), c) <=> BusyIn(stack, c)
              /\ \A i \in Nat \ {0} : GivenBy(Front(stack), c, i) <=> GivenBy(stack, c, i)
<1> DEFINE n == Len(stack)
           s == Front(stack)
<1>1. stack \in Seq(Frames) /\ n \in Nat \ {0} /\ Top = stack[n]
      /\ \A f \in 1 .. n : f # n => stack[f].on # Top.on
  BY TopFacts
<1>2. \A f \in 1 .. n - 1 : stack[f] \in Frames
  BY <1>1, ElementOfSeq
<1>3. s \in Seq(Frames) /\ Len(s) = n - 1 /\ \A f \in 1 .. n - 1 : s[f] = stack[f]
  <2>1. s = SubSeq(stack, 1, n - 1)
    BY DEF Front
  <2>2. PICK k \in Nat : k = n - 1
    BY <1>1
  <2> HIDE DEF s
  <2>3. s = SubSeq(stack, 1, k) /\ k \in Int /\ 1 \in Int /\ \A f \in 1 .. k : stack[f] \in Frames
    BY <1>2, <2>1, <2>2
  <2>4. /\ s \in Seq(Frames) /\ Len(s) = (IF 1 <= k THEN k - 1 + 1 ELSE 0)
        /\ \A f \in 1 .. k - 1 + 1 : s[f] = stack[1 + f - 1]
    BY <2>3, SubSeqProperties
  <2>5. Len(s) = k /\ \A f \in 1 .. k : s[f] = stack[f]
    BY <2>4
  <2> QED
    BY <2>2, <2>4, <2>5
<1> HIDE DEF s
<1>4. \A f \in 1 .. n - 1 : f \in 1 .. n /\ f # n
  BY <1>1
<1>5. \A f \in 1 .. n : f = n \/ f \in 1 .. n - 1
  BY <1>1
<1> HIDE DEF n
<1>6. \A c : c # Top.on => (BusyIn(s, c) <=> BusyIn(stack, c))
  BY <1>1, <1>3, <1>4, <1>5 DEF BusyIn, n
<1>7. \A c, i : c # Top.on => (GivenBy(s, c, i) <=> GivenBy(stack, c, i))
  BY <1>1, <1>3, <1>4, <1>5 DEF GivenBy, n
<1> QED
  BY <1>1, <1>3, <1>4, <1>6, <1>7 DEF s, n

LEMMA RemoveCount ==
  ASSUME NEW S, IsFiniteSet(S), NEW p
  PROVE  Cardinality(S \ {p}) = Cardinality(S) - One(p \in S)
<1>1. Cardinality(S) \in Nat
  BY FS_CardinalityType
<1>2. CASE p \in S
  BY <1>1, <1>2, FS_RemoveElement DEF One
<1>3. CASE p \notin S
  <2>1. S \ {p} = S
    BY <1>3
  <2>2. One(p \in S) = 0 /\ Cardinality(S \ {p}) = Cardinality(S)
    BY <1>3, <2>1 DEF One
  <2> QED
    BY <1>1, <2>2
<1> QED
  BY <1>2, <1>3
LEMMA DeleteItemInv == ASSUME Inv, DeleteItem PROVE Inv'
<1>1. stack # <<>> /\ Top.at <= Len(obj[Top.on].items)
  BY DEF DeleteItem
<1>2. PICK x \in Cells : x = Top.on
  BY <1>1, TopFacts
<1>3. PICK p \in 1 .. Len(obj[x].items) : p = Top.at
  BY <1>1, <1>2, TopFacts, StartFacts
<1>4. /\ Delete(obj, Advanced, obj[x].items[p].val)
      /\ FreeList' = FreeList /\ current' = current /\ held' = held /\ leaked' = leaked /\ call' = call
  BY <1>2, <1>3 DEF DeleteItem, Advanced
<1>5. /\ obj \in [Cells -> Objects] /\ TypeOK /\ CountsExact /\ FreedOK /\ FreeListOK
      /\ leaked \in [Cells -> Nat] /\ obj[x].items \in Seq(Nodes) /\ Len(obj[x].items) \in Nat
  BY StartFacts
<1>6. PICK v \in Cells : v = obj[x].items[p].val
  <2>1. obj[x].items[p] \in Nodes
    BY <1>5, ElementOfSeq
  <2> QED
    BY <2>1 DEF Nodes
<1>7. p \in ItemsTo(x, v)
  BY <1>1, <1>2, <1>3, <1>5, <1>6, TopFacts DEF ItemsTo
<1>8. ~ Nobody(v) /\ obj[v] # Freed /\ obj[v].type # "none" /\ (obj[v].intern \/ obj[v].refcount >= 1)
  <2>1. ~ Nobody(v)
    BY <1>5, <1>7, NobodyFacts DEF Unreferenced
  <2> QED
    BY <2>1, SomebodyFacts
<1>9. Cascade(x, obj, Advanced, v)
  <2>1. Busy(x) /\ x # call.on
    BY <1>1, <1>2, TopFacts
  <2>2. /\ Advanced \in Seq(Frames)
        /\ \A c \in Cells : c # x => /\ BusyIn(Advanced, c) <=> BusyIn(stack, c)
                                     /\ \A i \in Nat \ {0} : GivenBy(Advanced, c, i) <=> GivenBy(stack, c, i)
    BY <1>1, <1>2, AdvancedFacts
  <2>3. Alike(obj, obj, x)
    BY DEF Alike
  <2> QED
    BY <1>4, <1>5, <1>6, <1>8, <2>1, <2>2, <2>3 DEF Cascade
<1>10. /\ obj' \in [Cells -> Objects] /\ stack' \in Seq(Frames)
       /\ \A d \in Cells : /\ Alike(obj, obj', d) /\ (d # v => obj'[d] = obj[d])
                           /\ obj'[d].refcount = obj[d].refcount - One(d = v /\ ~ obj[d].intern)
       /\ \A i \in Nat \ {0} : GivenUp(x, i)' <=> GivenBy(Advanced, x, i)
  BY <1>9, CascadeFacts
<1>11. TypeOK' /\ FreedOK' /\ FreeListOK'
  <2>1. \A c \in Cells : Len(obj'[c].items) <= MaxItems /\ obj'[c].type = obj[c].type
    BY <1>10, StartFacts DEF Alike
  <2>2. \A c \in Cells : obj[c] = Freed => obj'[c] = Freed
    BY <1>8, <1>10
  <2>3. call' \in Calls /\ held' \in [Cells -> Nat]
    BY <1>4, <1>5 DEF TypeOK
  <2> QED
    BY <1>4, <1>10, <2>1, <2>2, <2>3, KeepDelete
<1>12. \A d \in Cells : ItemsTo(x, d)' = ItemsTo(x, d) \ {p}
  <2> SUFFICES ASSUME NEW d \in Cells PROVE ItemsTo(x, d)' = ItemsTo(x, d) \ {p}
    OBVIOUS
  <2>1. obj'[x].items = obj[x].items
    BY <1>10 DEF Alike
  <2>2. \A i \in 1 .. Len(obj[x].items) : (GivenUp(x, i) <=> i < p) /\ (GivenUp(x, i)' <=> i < p + 1)
    BY <1>1, <1>2, <1>3, <1>5, <1>10, TopFacts, AdvancedFacts
  <2>3. \A i \in 1 .. Len(obj[x].items) : ~ (i < p + 1) <=> ~ (i < p) /\ i # p
    BY <1>5
  <2> QED
    BY <2>1, <2>2, <2>3 DEF ItemsTo
<1>13. CountsExact'
  <2> SUFFICES ASSUME NEW d \in Cells, ~ obj'[d].intern
               PROVE  obj'[d].refcount = References(d)' + leaked'[d]
    BY DEF CountsExact
  <2>1. /\ ~ obj[d].intern /\ obj'[x].file = obj[x].file /\ obj'[x].meta = obj[x].meta
        /\ obj'[d].refcount = obj[d].refcount - One(d = v /\ ~ obj[d].intern)
    BY <1>10 DEF Alike
  <2>2. /\ References(d)' = References(d)
              + (Cardinality(ItemsTo(x, d)') - Cardinality(ItemsTo(x, d)))
              + (One(obj'[x].file = d) - One(obj[x].file = d))
              + (One(obj'[x].meta = d) - One(obj[x].meta = d))
        /\ References(d) \in Nat /\ References(d)' \in Nat
        /\ Cardinality(ItemsTo(x, d)) \in Nat
    <3>1. TypeOK /\ TypeOK'
      BY <1>5, <1>11
    <3>2. PICK o, s : o = obj /\ s = Advanced /\ Cascade(x, o, s, v)
      BY <1>9
    <3> QED
      BY <3>1, <3>2, CascadeRefs
  <2>3. Cardinality(ItemsTo(x, d)') = Cardinality(ItemsTo(x, d)) - One(p \in ItemsTo(x, d))
    <3>1. ItemsTo(x, d) \in SUBSET Positions(obj[x].items, d)
      BY DEF ItemsTo, Positions
    <3>2. IsFiniteSet(ItemsTo(x, d))
      BY <1>5, <3>1, PositionsFinite
    <3> QED
      BY <1>12, <3>2, RemoveCount
  <2>4. p \in ItemsTo(x, d) <=> d = v
    BY <1>6, <1>7 DEF ItemsTo
  <2>5. /\ One(p \in ItemsTo(x, d)) = One(d = v) /\ One(d = v /\ ~ obj[d].intern) = One(d = v)
        /\ One(d = v) \in {0, 1}
    BY <2>1, <2>4 DEF One
  <2>6. /\ One(obj'[x].file = d) = One(obj[x].file = d) /\ One(obj'[x].meta = d) = One(obj[x].meta = d)
        /\ One(obj[x].file = d) \in {0, 1} /\ One(obj[x].meta = d) \in {0, 1}
    BY <2>1 DEF One
  <2>7. References(d)' = References(d) - One(d = v)
    BY <2>2, <2>3, <2>5, <2>6
  <2>8. obj[d].refcount = References(d) + leaked[d] /\ leaked[d] \in Nat /\ leaked'[d] = leaked[d]
    BY <1>4, <1>5, <2>1 DEF CountsExact
  <2> QED
    BY <2>1, <2>2, <2>5, <2>7, <2>8
<1>14. FramesOK(obj, Advanced)
  <2>1. StackOK
    BY DEF Inv
  <2>2. /\ Len(Advanced) = Len(stack)
        /\ \A f \in 1 .. Len(stack) :
             /\ Advanced[f].on = stack[f].on /\ Advanced[f].mode = stack[f].mode
             /\ Advanced[f].at = IF f = Len(stack) THEN stack[f].at + 1 ELSE stack[f].at
    BY <1>1, AdvancedFacts
  <2>3. stack[Len(stack)].on = x /\ stack[Len(stack)].at = p
    BY <1>2, <1>3 DEF Top
  <2>4. \A f \in 1 .. Len(stack) : Advanced[f].at <= Len(obj[stack[f].on].items) + 1
    BY <1>5, <2>1, <2>2, <2>3 DEF StackOK
  <2>5. ASSUME NEW f \in 1 .. Len(stack)
        PROVE  /\ obj[Advanced[f].on].type # "none"
               /\ Advanced[f].mode = "del" => obj[Advanced[f].on].refcount = 0 /\ ~ obj[Advanced[f].on].intern
               /\ Advanced[f].mode = "clear" => f = 1 /\ call = NoCall /\ Advanced[f].on \in Live
    BY <2>1, <2>2 DEF StackOK
  <2>6. ASSUME NEW f \in 1 .. Len(stack)
        PROVE  Advanced[f].at <= Len(obj[Advanced[f].on].items) + 1
    BY <2>2, <2>4
  <2>7. \A f, g \in 1 .. Len(stack) : Advanced[f].on = Advanced[g].on => f = g
    BY <2>1, <2>2 DEF StackOK
  <2>8. Len(Advanced) = Len(stack)
    BY <2>2
  <2> HIDE DEF Advanced
  <2> QED
    BY <2>5, <2>6, <2>7, <2>8, Zenon DEF FramesOK
<1>15. StackOK' /\ CallOK'
  BY <1>9, <1>11, <1>13, <1>14, CascadeStack, CascadeCall
<1> QED
  BY <1>11, <1>13, <1>15 DEF Inv

LEMMA FrontOK ==
  ASSUME Inv, stack # <<>>, NEW o, \A c \in Cells : c # Top.on => o[c] = obj[c]
  PROVE  FramesOK(o, Front(stack))
<1>1. PICK s \in Seq(Frames) : s = Front(stack)
  BY FrontFacts
<1>2. Len(s) = Len(stack) - 1 /\ Len(stack) \in Nat \ {0}
  BY <1>1, FrontFacts, TopFacts
<1>3. \A f \in 1 .. Len(s) : f \in 1 .. Len(stack) /\ f \in 1 .. Len(stack) - 1
  BY <1>2
<1>4. ASSUME NEW f \in 1 .. Len(s)
      PROVE  s[f] = stack[f] /\ s[f].on \in Cells /\ o[s[f].on] = obj[s[f].on] /\ f \in 1 .. Len(stack)
  <2>1. s[f] = stack[f] /\ s[f].on # Top.on
    BY <1>1, <1>3, FrontFacts
  <2>2. s[f] \in Frames
    BY <1>1, ElementOfSeq
  <2>3. s[f].on \in Cells
    BY <2>2 DEF Frames
  <2> QED
    BY <1>3, <2>1, <2>3
<1>5. StackOK
  BY DEF Inv
<1>6. \A f, g \in 1 .. Len(s) : s[f].on = s[g].on => f = g
  <2> SUFFICES ASSUME NEW f \in 1 .. Len(s), NEW g \in 1 .. Len(s), s[f].on = s[g].on PROVE f = g
    OBVIOUS
  <2>1. stack[f].on = stack[g].on /\ f \in 1 .. Len(stack) /\ g \in 1 .. Len(stack)
    BY <1>4
  <2> QED
    BY <1>5, <2>1 DEF StackOK
<1>7. ASSUME NEW f \in 1 .. Len(s)
      PROVE  /\ o[s[f].on].type # "none"
             /\ s[f].at <= Len(o[s[f].on].items) + 1
             /\ s[f].mode = "del" => o[s[f].on].refcount = 0 /\ ~ o[s[f].on].intern
             /\ s[f].mode = "clear" => f = 1 /\ call = NoCall /\ s[f].on \in Live
  <2>1. s[f] = stack[f] /\ o[s[f].on] = obj[stack[f].on] /\ f \in 1 .. Len(stack)
    BY <1>4
  <2>2. /\ obj[stack[f].on].type # "none"
        /\ stack[f].at <= Len(obj[stack[f].on].items) + 1
        /\ stack[f].mode = "del" => obj[stack[f].on].refcount = 0 /\ ~ obj[stack[f].on].intern
        /\ stack[f].mode = "clear" => f = 1 /\ call = NoCall /\ stack[f].on \in Live
    BY <1>5, <2>1 DEF StackOK
  <2> QED
    BY <2>1, <2>2
<1>8. FramesOK(o, s)
  BY <1>6, <1>7 DEF FramesOK
<1> QED
  BY <1>1, <1>8

LEMMA ClearedInv == ASSUME Inv, Cleared PROVE Inv'
<1> DEFINE e == <<>>
<1>1. stack # <<>> /\ Top.mode = "clear" /\ Top.at > Len(obj[Top.on].items)
  BY DEF Cleared
<1>2. PICK x \in Cells : x = Top.on
  BY <1>1, TopFacts
<1>4. /\ obj' = WithItems(obj, x, e) /\ stack' = Front(stack)
      /\ FreeList' = FreeList /\ current' = current /\ held' = held /\ leaked' = leaked /\ call' = call
  BY <1>2 DEF Cleared, WithItems
<1>e. e \in Seq(Nodes) /\ Len(e) = 0 /\ 1 .. Len(e) = {}
  OBVIOUS
<1> HIDE DEF e
<1>5. /\ obj \in [Cells -> Objects] /\ TypeOK /\ CountsExact /\ FreedOK /\ FreeListOK
      /\ leaked \in [Cells -> Nat] /\ Len(obj[x].items) \in Nat
  BY StartFacts
<1>6. /\ obj' \in [Cells -> Objects]
      /\ \A c \in Cells : /\ obj'[c].type = obj[c].type /\ obj'[c].intern = obj[c].intern
                          /\ obj'[c].file = obj[c].file /\ obj'[c].meta = obj[c].meta
                          /\ obj'[c].refcount = obj[c].refcount
                          /\ c # x => obj'[c] = obj[c]
      /\ obj'[x].items = e
  <2>1. obj \in [Cells -> Objects] /\ e \in Seq(Nodes) /\ obj' = WithItems(obj, x, e)
    BY <1>4, <1>5, <1>e
  <2> QED
    BY <2>1, SetItems
<1>7. PICK o \in [Cells -> Objects] : o = obj'
  BY <1>6
<1>8. PICK s \in Seq(Frames) : s = Front(stack)
  BY <1>1, FrontFacts
<1>9. Cascade(x, o, s, Null)
  <2>1. Busy(x) /\ x # call.on
    BY <1>1, <1>2, TopFacts
  <2>2. \A c \in Cells : c # x => /\ BusyIn(s, c) <=> BusyIn(stack, c)
                                  /\ \A i \in Nat \ {0} : GivenBy(s, c, i) <=> GivenBy(stack, c, i)
    BY <1>1, <1>2, <1>8, FrontFacts
  <2>3. Delete(o, s, Null)
    BY <1>4, <1>7, <1>8 DEF Delete, Decref, Doomed
  <2>4. o[x].items = <<>> /\ o[x].file = obj[x].file /\ o[x].meta = obj[x].meta /\ o[x].intern = obj[x].intern
    <3>1. o[x].items = e /\ o[x].file = obj[x].file /\ o[x].meta = obj[x].meta /\ o[x].intern = obj[x].intern
      BY <1>6, <1>7
    <3> QED
      BY <3>1 DEF e
  <2>5. \A c \in Cells : c # x => o[c] = obj[c]
    BY <1>6, <1>7
  <2> QED
    BY <1>4, <2>1, <2>2, <2>3, <2>4, <2>5 DEF Cascade
<1>10. obj[x] # Freed
  BY <1>1, <1>2, TopFacts, FreedFacts
<1>11. TypeOK' /\ FreedOK' /\ FreeListOK'
  <2>1. \A c \in Cells : Len(obj'[c].items) <= MaxItems /\ obj'[c].type = obj[c].type
    <3>1. Len(obj'[x].items) <= MaxItems
      BY <1>6, <1>e, StartFacts
    <3>2. \A c \in Cells : c # x => Len(obj'[c].items) <= MaxItems
      BY <1>6, StartFacts
    <3> QED
      BY <1>6, <3>1, <3>2
  <2>2. \A c \in Cells : obj[c] = Freed => obj'[c] = Freed
    BY <1>6, <1>10
  <2>3. call' \in Calls /\ held' \in [Cells -> Nat] /\ stack' \in Seq(Frames)
    BY <1>4, <1>5, <1>8 DEF TypeOK
  <2> QED
    BY <1>4, <1>6, <2>1, <2>2, <2>3, KeepDelete
<1>12. \A d \in Cells : ItemsTo(x, d)' = {} /\ ItemsTo(x, d) = {}
  <2>1. \A i \in 1 .. Len(obj[x].items) : GivenUp(x, i)
    BY <1>1, <1>2, <1>5, TopFacts
  <2>2. 1 .. Len(obj'[x].items) = {}
    BY <1>6, <1>e
  <2> QED
    BY <2>1, <2>2 DEF ItemsTo
<1>13. CountsExact'
  <2> SUFFICES ASSUME NEW d \in Cells, ~ obj'[d].intern
               PROVE  obj'[d].refcount = References(d)' + leaked'[d]
    BY DEF CountsExact
  <2>1. /\ ~ obj[d].intern /\ obj'[x].file = obj[x].file /\ obj'[x].meta = obj[x].meta
        /\ obj'[d].refcount = obj[d].refcount
    BY <1>6
  <2>2. /\ References(d)' = References(d)
              + (Cardinality(ItemsTo(x, d)') - Cardinality(ItemsTo(x, d)))
              + (One(obj'[x].file = d) - One(obj[x].file = d))
              + (One(obj'[x].meta = d) - One(obj[x].meta = d))
        /\ References(d) \in Nat /\ References(d)' \in Nat
        /\ Cardinality(ItemsTo(x, d)) \in Nat
    BY <1>5, <1>9, <1>11, CascadeRefs, SMTT(30)
  <2>3. ItemsTo(x, d)' = ItemsTo(x, d)
    BY <1>12
  <2>6. /\ One(obj'[x].file = d) = One(obj[x].file = d) /\ One(obj'[x].meta = d) = One(obj[x].meta = d)
        /\ One(obj[x].file = d) \in {0, 1} /\ One(obj[x].meta = d) \in {0, 1}
    BY <2>1 DEF One
  <2>7. References(d)' = References(d)
    BY <2>2, <2>3, <2>6
  <2>8. obj[d].refcount = References(d) + leaked[d] /\ leaked'[d] = leaked[d]
    BY <1>4, <1>5, <2>1 DEF CountsExact
  <2> QED
    BY <2>1, <2>7, <2>8
<1>14. FramesOK(o, s)
  BY <1>1, <1>2, <1>6, <1>7, <1>8, FrontOK
<1>15. StackOK' /\ CallOK'
  BY <1>9, <1>11, <1>13, <1>14, CascadeStack, CascadeCall
<1> QED
  BY <1>11, <1>13, <1>15 DEF Inv
LEMMA ObjFreeInv == ASSUME Inv, ObjFree PROVE Inv'
<1>1. stack # <<>> /\ Top.mode = "del" /\ Top.at > Len(obj[Top.on].items)
  BY DEF ObjFree
<1>2. PICK x \in Cells : x = Top.on /\ Nobody(x) /\ obj[x].type # "none"
  BY <1>1, TopFacts
<1>3. PICK v \in Cells \cup {Null} : v = obj[x].meta
  BY StartFacts
<1>4. PICK u \in Cells \cup {Null} : u = obj[x].file
  BY StartFacts
<1>5. /\ obj \in [Cells -> Objects] /\ TypeOK /\ CountsExact /\ FreedOK /\ FreeListOK /\ Unreferenced
      /\ leaked \in [Cells -> Nat] /\ held \in [Cells -> Nat] /\ Len(obj[x].items) \in Nat
  BY StartFacts, NobodyFacts
<1>6. PICK o \in [Cells -> Objects] : o = WithNew(obj, x, Freed)
  BY <1>5, FreedFacts, SetNew
<1>7. o[x] = Freed /\ \A c \in Cells : c # x => o[c] = obj[c]
  <2>1. obj \in [Cells -> Objects] /\ Freed \in Objects
    BY <1>5, FreedFacts
  <2>2. /\ WithNew(obj, x, Freed)[x] = Freed
        /\ \A c \in Cells : c # x => WithNew(obj, x, Freed)[c] = obj[c]
    BY <2>1 DEF WithNew
  <2> QED
    BY <1>6, <2>2
<1>8. PICK s \in Seq(Frames) : s = Front(stack)
  BY <1>1, FrontFacts
<1>9. /\ FreeList' = <<x>> \o FreeList /\ current' = current /\ held' = held /\ call' = call
      /\ leaked' = IF u = Null THEN leaked ELSE [leaked EXCEPT ![u] = @ + 1]
      /\ Delete(o, s, v)
  BY <1>2, <1>3, <1>4, <1>6, <1>8 DEF ObjFree, WithNew
<1>10. u # x /\ v # x
  <2>1. x # call.on /\ x \notin FilesTo(x) /\ x \notin MetaTo(x)
    BY <1>1, <1>2, <1>5, TopFacts DEF Unreferenced
  <2> QED
    BY <1>3, <1>4, <2>1 DEF FilesTo, MetaTo
<1>11. v # Null => v \in Cells /\ ~ Nobody(v) /\ o[v] = obj[v] /\ obj[v] # Freed /\ obj[v].type # "none"
                   /\ (obj[v].intern \/ obj[v].refcount >= 1)
  <2> SUFFICES ASSUME v # Null
               PROVE  v \in Cells /\ ~ Nobody(v) /\ o[v] = obj[v] /\ obj[v] # Freed /\ obj[v].type # "none"
                      /\ (obj[v].intern \/ obj[v].refcount >= 1)
    OBVIOUS
  <2>1. v \in Cells /\ x \in MetaTo(v)
    BY <1>3 DEF MetaTo
  <2>2. ~ Nobody(v)
    BY <1>5, <2>1 DEF Unreferenced
  <2> QED
    BY <1>7, <1>10, <2>1, <2>2, SomebodyFacts
<1>12. Cascade(x, o, s, v)
  <2>1. Busy(x) /\ x # call.on
    BY <1>1, <1>2, TopFacts
  <2>2. \A c \in Cells : c # x => /\ BusyIn(s, c) <=> BusyIn(stack, c)
                                  /\ \A i \in Nat \ {0} : GivenBy(s, c, i) <=> GivenBy(stack, c, i)
    BY <1>1, <1>2, <1>8, FrontFacts
  <2>3. o[x] = Freed /\ Nobody(x) /\ v # x
    BY <1>2, <1>7, <1>10
  <2>4. v # Null => o[v].type # "none" /\ (o[v].intern \/ o[v].refcount >= 1) /\ ~ Nobody(v)
    BY <1>11
  <2> QED
    BY <1>7, <1>9, <2>1, <2>2, <2>3, <2>4 DEF Cascade
<1>13. /\ obj' \in [Cells -> Objects] /\ stack' \in Seq(Frames)
       /\ \A d \in Cells : /\ Alike(o, obj', d) /\ (d # v => obj'[d] = o[d])
                           /\ obj'[d].refcount = o[d].refcount - One(d = v /\ ~ o[d].intern)
  BY <1>12, CascadeFacts
<1>14. obj'[x] = Freed /\ \A c \in Cells : c # x => Alike(obj, obj', c) /\ (c # v => obj'[c] = obj[c])
  <2>1. obj'[x] = Freed
    BY <1>7, <1>10, <1>13
  <2> QED
    BY <1>7, <1>13, <2>1 DEF Alike
<1>15. leaked' \in [Cells -> Nat] /\ \A d \in Cells : leaked'[d] = leaked[d] + One(u = d)
  <2>1. leaked \in [Cells -> Nat]
    BY <1>5
  <2>2. CASE u = Null
    <3>1. leaked' = leaked /\ \A d \in Cells : One(u = d) = 0
      BY <1>9, <2>2, CellFacts DEF One
    <3> QED
      BY <2>1, <3>1
  <2>3. CASE u # Null
    <3>1. leaked' = [leaked EXCEPT ![u] = @ + 1] /\ u \in Cells
      BY <1>9, <2>3
    <3> QED
      BY <2>1, <3>1 DEF One
  <2> QED
    BY <2>2, <2>3
<1>16. x \in 1 .. current /\ current \in 0 .. PoolSize /\ FreeList \in Seq(Cells)
       /\ \A i \in 1 .. Len(FreeList) : FreeList[i] # x
  <2>1. current \in 0 .. PoolSize /\ FreeList \in Seq(Cells)
    BY <1>5 DEF TypeOK
  <2>2. x \in 1 .. current
    BY <1>2, <1>5, <2>1, FreedFacts, CellFacts DEF FreedOK, Cells
  <2>3. \A i \in 1 .. Len(FreeList) : FreeList[i] # x
    <3>1. \A i \in 1 .. Len(FreeList) : FreeList[i] \in ToSet(FreeList)
      BY <2>1, ToSetDef
    <3> QED
      BY <1>2, <1>5, <3>1 DEF FreeListOK
  <2> QED
    BY <2>1, <2>2, <2>3
<1>17. /\ FreeList' \in Seq(Cells) /\ Len(FreeList') = Len(FreeList) + 1 /\ Len(FreeList) \in Nat
       /\ FreeList'[1] = x /\ \A i \in 2 .. Len(FreeList) + 1 : FreeList'[i] = FreeList[i - 1]
  <2> DEFINE e == <<x>>
  <2>1. e \in Seq(Cells) /\ Len(e) = 1 /\ e[1] = x /\ FreeList' = e \o FreeList
    BY <1>9
  <2> HIDE DEF e
  <2>2. Len(FreeList) \in Nat /\ FreeList \in Seq(Cells)
    BY <1>16, LenProperties
  <2>3. /\ e \o FreeList \in Seq(Cells) /\ Len(e \o FreeList) = Len(e) + Len(FreeList)
        /\ \A i \in 1 .. Len(e) + Len(FreeList) :
             (e \o FreeList)[i] = IF i <= Len(e) THEN e[i] ELSE FreeList[i - Len(e)]
    BY <2>1, <2>2, ConcatProperties
  <2>4. 1 \in 1 .. Len(e) + Len(FreeList) /\ \A i \in 2 .. Len(FreeList) + 1 : i \in 1 .. Len(e) + Len(FreeList) /\ ~ (i <= Len(e))
    BY <2>1, <2>2
  <2> QED
    BY <2>1, <2>2, <2>3, <2>4
<1>18. FreeListOK'
  <2>1. \A i, j \in 1 .. Len(FreeList') : FreeList'[i] = FreeList'[j] => i = j
    <3> SUFFICES ASSUME NEW i \in 1 .. Len(FreeList'), NEW j \in 1 .. Len(FreeList'), FreeList'[i] = FreeList'[j]
                 PROVE  i = j
      OBVIOUS
    <3>1. \A k \in 1 .. Len(FreeList') :
            k = 1 \/ (k \in 2 .. Len(FreeList) + 1 /\ k - 1 \in 1 .. Len(FreeList))
      BY <1>17
    <3>2. \A k, l \in 1 .. Len(FreeList) : FreeList[k] = FreeList[l] => k = l
      BY <1>5 DEF FreeListOK
    <3>3. CASE i = 1 \/ j = 1
      BY <1>16, <1>17, <3>1, <3>3
    <3>4. CASE i # 1 /\ j # 1
      <4>1. i - 1 \in 1 .. Len(FreeList) /\ j - 1 \in 1 .. Len(FreeList) /\ FreeList[i - 1] = FreeList[j - 1]
        BY <1>17, <3>1, <3>4
      <4>2. i - 1 = j - 1
        BY <3>2, <4>1
      <4> QED
        BY <1>17, <4>2
    <3> QED
      BY <3>3, <3>4
  <2>2. ToSet(FreeList') = {x} \cup ToSet(FreeList)
    <3>1. ToSet(FreeList') = {FreeList'[i] : i \in 1 .. Len(FreeList')}
          /\ ToSet(FreeList) = {FreeList[i] : i \in 1 .. Len(FreeList)}
      BY <1>16, <1>17, ToSetDef
    <3>2. ASSUME NEW k \in 1 .. Len(FreeList') PROVE FreeList'[k] \in {x} \cup ToSet(FreeList)
      <4>1. k = 1 \/ (k \in 2 .. Len(FreeList) + 1 /\ k - 1 \in 1 .. Len(FreeList))
        BY <1>17
      <4> QED
        BY <1>17, <3>1, <4>1
    <3>3. x \in ToSet(FreeList')
      <4>1. 1 \in 1 .. Len(FreeList')
        BY <1>17
      <4> QED
        BY <1>17, <3>1, <4>1
    <3>4. ASSUME NEW k \in 1 .. Len(FreeList) PROVE FreeList[k] \in ToSet(FreeList')
      <4>1. k + 1 \in 2 .. Len(FreeList) + 1 /\ k + 1 \in 1 .. Len(FreeList') /\ (k + 1) - 1 = k
        BY <1>17
      <4>2. FreeList'[k + 1] = FreeList[k]
        BY <1>17, <4>1
      <4> QED
        BY <3>1, <4>1, <4>2
    <3> QED
      BY <3>1, <3>2, <3>3, <3>4
  <2>3. ToSet(FreeList) = {c \in 1 .. current : obj[c].type = "none"}
    BY <1>5 DEF FreeListOK
  <2>4. \A c \in 1 .. current : c \in Cells /\ (c # x => obj'[c].type = obj[c].type)
    BY <1>14, <1>16, CellFacts DEF Cells, Alike
  <2>5. ToSet(FreeList') = {c \in 1 .. current' : obj'[c].type = "none"}
    <3>1. obj'[x].type = "none" /\ current' = current
      BY <1>9, <1>14, FreedFacts
    <3> QED
      BY <1>16, <2>2, <2>3, <2>4, <3>1
  <2> QED
    BY <2>1, <2>5 DEF FreeListOK
<1>19. FreedOK'
  <2> SUFFICES ASSUME NEW c \in Cells, obj'[c].type = "none" \/ c > current' PROVE obj'[c] = Freed
    BY DEF FreedOK
  <2>1. CASE c = x
    BY <1>14, <2>1
  <2>2. CASE c # x
    <3>1. obj[c].type = "none" \/ c > current
      BY <1>9, <1>14, <2>2 DEF Alike
    <3>2. obj[c] = Freed
      BY <1>5, <3>1 DEF FreedOK
    <3>3. c # v
      BY <1>11, <3>2, CellFacts
    <3> QED
      BY <1>14, <2>2, <3>2, <3>3
  <2> QED
    BY <2>1, <2>2
<1>20. TypeOK'
  <2>1. Len(obj'[x].items) <= MaxItems
    BY <1>14, FreedFacts, StartFacts
  <2>2. \A c \in Cells : c # x => Len(obj'[c].items) <= MaxItems
    BY <1>14, StartFacts DEF Alike
  <2>3. call' \in Calls /\ current' \in 0 .. PoolSize /\ held' \in [Cells -> Nat]
    BY <1>5, <1>9 DEF TypeOK
  <2> QED
    BY <1>13, <1>15, <1>17, <2>1, <2>2, <2>3 DEF TypeOK
<1>21. \A d \in Cells : ItemsTo(x, d)' = {} /\ ItemsTo(x, d) = {}
  <2>1. \A i \in 1 .. Len(obj[x].items) : GivenUp(x, i)
    BY <1>1, <1>2, <1>5, TopFacts
  <2>2. 1 .. Len(obj'[x].items) = {}
    BY <1>14, FreedFacts
  <2> QED
    BY <2>1, <2>2 DEF ItemsTo
<1>22. CountsExact'
  <2> SUFFICES ASSUME NEW d \in Cells, ~ obj'[d].intern
               PROVE  obj'[d].refcount = References(d)' + leaked'[d]
    BY DEF CountsExact
  <2>1. /\ References(d)' = References(d)
              + (Cardinality(ItemsTo(x, d)') - Cardinality(ItemsTo(x, d)))
              + (One(obj'[x].file = d) - One(obj[x].file = d))
              + (One(obj'[x].meta = d) - One(obj[x].meta = d))
        /\ References(d) \in Nat /\ References(d)' \in Nat
        /\ Cardinality(ItemsTo(x, d)) \in Nat
    <3>1. TypeOK /\ TypeOK'
      BY <1>5, <1>20
    <3> QED
      BY <1>12, <3>1, CascadeRefs
  <2>2. ItemsTo(x, d)' = ItemsTo(x, d)
    BY <1>21
  <2>3. /\ One(obj'[x].file = d) = 0 /\ One(obj[x].file = d) = One(u = d)
        /\ One(obj'[x].meta = d) = 0 /\ One(obj[x].meta = d) = One(v = d)
        /\ One(u = d) \in {0, 1} /\ One(v = d) \in {0, 1}
    BY <1>3, <1>4, <1>14, FreedFacts, CellFacts DEF One
  <2>4. References(d)' = References(d) - One(u = d) - One(v = d)
    BY <2>1, <2>2, <2>3
  <2>5. leaked'[d] = leaked[d] + One(u = d) /\ leaked[d] \in Nat
    BY <1>5, <1>15
  <2>6. CASE d = x
    <3>1. References(d) = 0 /\ leaked[d] = 0
      BY <1>2, <1>5, <2>6 DEF Unreferenced
    <3>2. One(u = d) = 0 /\ One(v = d) = 0
      BY <1>10, <2>6 DEF One
    <3>3. obj'[d].refcount = 0
      BY <1>14, <2>6, FreedFacts
    <3> QED
      BY <2>4, <2>5, <3>1, <3>2, <3>3
  <2>7. CASE d # x
    <3>1. ~ obj[d].intern
      BY <1>14, <2>7 DEF Alike
    <3>2. obj[d].refcount = References(d) + leaked[d]
      BY <1>5, <3>1 DEF CountsExact
    <3>3. obj'[d].refcount = obj[d].refcount - One(v = d)
      <4>1. o[d] = obj[d] /\ obj'[d].refcount = o[d].refcount - One(d = v /\ ~ o[d].intern)
        BY <1>7, <1>13, <2>7
      <4>2. One(d = v /\ ~ o[d].intern) = One(v = d)
        BY <3>1, <4>1 DEF One
      <4>3. obj'[d].refcount = o[d].refcount - One(v = d)
        BY <4>1, <4>2
      <4> QED
        BY <4>1, <4>3
    <3> DEFINE p == One(u = d)
               q == One(v = d)
    <3>4. /\ References(d) \in Nat /\ p \in {0, 1} /\ q \in {0, 1} /\ leaked[d] \in Nat
          /\ References(d)' = References(d) - p - q /\ leaked'[d] = leaked[d] + p
          /\ obj'[d].refcount = obj[d].refcount - q /\ obj[d].refcount = References(d) + leaked[d]
      BY <2>1, <2>3, <2>4, <2>5, <3>2, <3>3
    <3> HIDE DEF p, q
    <3> QED
      BY <3>4
  <2> QED
    BY <2>6, <2>7
<1>23. FramesOK(o, s)
  BY <1>1, <1>2, <1>7, <1>8, FrontOK
<1>24. StackOK' /\ CallOK'
  BY <1>12, <1>20, <1>22, <1>23, CascadeStack, CascadeCall
<1> QED
  BY <1>18, <1>19, <1>20, <1>22, <1>24 DEF Inv
-----------------------------------------------------------------------------
(* The invariant.                                                           *)

LEMMA InitInv == Init => Inv
<1> SUFFICES ASSUME Init PROVE Inv
  OBVIOUS
<1>1. /\ obj = [c \in Cells |-> Freed] /\ FreeList = <<>> /\ current = 0
      /\ held = [c \in Cells |-> 0] /\ leaked = [c \in Cells |-> 0] /\ stack = <<>> /\ call = NoCall
  BY DEF Init
<1>2. \A c \in Cells : obj[c] = Freed
  BY <1>1
<1>3. obj \in [Cells -> Objects] /\ \A c \in Cells : Len(obj[c].items) <= MaxItems
  BY <1>1, <1>2, FreedFacts, DohObjectsAssumption
<1>4. current \in 0 .. PoolSize /\ held \in [Cells -> Nat] /\ leaked \in [Cells -> Nat]
  BY <1>1, CellFacts
<1>5. FreeList \in Seq(Cells) /\ stack \in Seq(Frames) /\ 1 .. Len(stack) = {} /\ 1 .. Len(FreeList) = {}
  BY <1>1
<1>6. TypeOK
  BY <1>1, <1>3, <1>4, <1>5, NoCallFacts DEF TypeOK
<1>7. FreedOK
  BY <1>2 DEF FreedOK
<1>8. StackOK
  BY <1>5 DEF StackOK
<1>9. CallOK
  BY <1>1, NoCallFacts DEF CallOK
<1>10. FreeListOK
  <2>1. ToSet(FreeList) = {}
    BY <1>5, ToSetDef
  <2>2. {c \in 1 .. current : obj[c].type = "none"} = {}
    BY <1>1
  <2> QED
    BY <1>5, <2>1, <2>2 DEF FreeListOK
<1>11. CountsExact
  <2> SUFFICES ASSUME NEW d \in Cells PROVE obj[d].refcount = References(d) + leaked[d]
    BY DEF CountsExact
  <2>1. NodesTo(d) = {}
    <3>1. \A c \in Cells : 1 .. Len(obj[c].items) = {}
      BY <1>2, FreedFacts
    <3> QED
      BY <3>1 DEF NodesTo, ItemsTo
  <2>2. FilesTo(d) = {} /\ MetaTo(d) = {}
    BY <1>2, FreedFacts, CellFacts DEF FilesTo, MetaTo
  <2>3. held[d] = 0 /\ leaked[d] = 0 /\ obj[d].refcount = 0 /\ call.op # "file"
    BY <1>1, <1>2, FreedFacts, NoCallFacts
  <2>4. Cardinality({}) = 0
    BY FS_EmptySet
  <2> QED
    BY <2>1, <2>2, <2>3, <2>4 DEF References
<1> QED
  BY <1>6, <1>7, <1>8, <1>9, <1>10, <1>11 DEF Inv

LEMMA StutterInv == ASSUME Inv, UNCHANGED vars PROVE Inv'
<1>1. /\ obj' = obj /\ FreeList' = FreeList /\ current' = current /\ held' = held
      /\ leaked' = leaked /\ stack' = stack /\ call' = call
  BY DEF vars
<1>2. TypeOK' /\ FreedOK' /\ FreeListOK'
  BY <1>1 DEF Inv, TypeOK, FreedOK, FreeListOK
<1>3. \A c, i : GivenUp(c, i)' <=> GivenUp(c, i)
  BY <1>1 DEF GivenUp
<1>4. \A c, d : ItemsTo(c, d)' = ItemsTo(c, d)
  BY <1>1, <1>3 DEF ItemsTo
<1>5. \A c : Busy(c)' <=> Busy(c)
  BY <1>1 DEF Busy
<1>6. \A c, d : Edge(c, d)' <=> Edge(c, d)
  BY <1>1, <1>4, <1>5 DEF Edge
<1>7. \A S : Bound(S)' <=> Bound(S)
  BY <1>1, <1>6 DEF Bound, Roots
<1>8. Live' = Live
  BY <1>7 DEF Live
<1>9. StackOK'
  BY <1>1, <1>8 DEF Inv, StackOK
<1>10. CallOK'
  <2>1. Unborn(call.val)' <=> Unborn(call.val)
    BY <1>1 DEF Unborn, Busy
  <2> QED
    BY <1>1, <1>8, <2>1 DEF Inv, CallOK
<1>11. CountsExact'
  <2>1. \A d : NodesTo(d)' = NodesTo(d) /\ FilesTo(d)' = FilesTo(d) /\ MetaTo(d)' = MetaTo(d)
    BY <1>1, <1>4 DEF NodesTo, FilesTo, MetaTo
  <2>2. \A d : References(d)' = References(d)
    BY <1>1, <2>1 DEF References
  <2> QED
    BY <1>1, <2>2 DEF Inv, CountsExact
<1> QED
  BY <1>2, <1>9, <1>10, <1>11 DEF Inv

\* Every step of the client and of a destructor preserves the invariant.
LEMMA NextInv == ASSUME Inv, [Next]_vars PROVE Inv'
<1>1. CASE UNCHANGED vars
  BY <1>1, StutterInv
<1>2. CASE Step
  BY <1>2, DeleteItemInv, ObjFreeInv, ClearedInv, ReturnInv DEF Step
<1>3. CASE Idle /\ Client
  <2>1. CASE InternKey \/ \E t \in Types : New(t)
    BY <1>3, <2>1, InternKeyInv, NewInv
  <2>2. ASSUME NEW c \in Reach,
               DohIncref(c) \/ DohDelete(c) \/ DohClear(c) \/ DohCopy(c) \/ ListInsertChars(c) \/ SetfileChars(c)
        PROVE  Inv'
    BY <1>3, <2>2, DohIncrefInv, DohDeleteInv, DohClearInv, DohCopyInv, ListInsertCharsInv, SetfileCharsInv
  <2>3. ASSUME NEW c \in Reach, NEW pos \in 1 .. MaxItems, ListRemove(c, pos) PROVE Inv'
    BY <1>3, <2>3, ListRemoveInv
  <2>4. ASSUME NEW c \in Reach, NEW k \in Keys,
               SetattrChars(c, k) \/ SetattrOldChars(c, k) \/ Delattr(c, k)
        PROVE  Inv'
    BY <1>3, <2>4, SetattrCharsInv, SetattrOldCharsInv, DelattrInv
  <2>5. ASSUME NEW c \in Reach, NEW d \in Reach, ListInsert(c, d) \/ Setfile(c, d) PROVE Inv'
    BY <1>3, <2>5, ListInsertInv, SetfileInv
  <2>6. ASSUME NEW c \in Reach, NEW d \in Reach, NEW pos \in 1 .. MaxItems, ListSet(c, pos, d) PROVE Inv'
    BY <1>3, <2>6, ListSetInv
  <2>7. ASSUME NEW c \in Reach, NEW d \in Reach, NEW k \in Keys,
               SetattrNew(c, k, d) \/ SetattrOld(c, k, d) \/ Setmeta(c, k, d)
        PROVE  Inv'
    BY <1>3, <2>7, SetattrNewInv, SetattrOldInv, SetmetaInv
  <2> QED
    BY <1>3, <2>1, <2>2, <2>3, <2>4, <2>5, <2>6, <2>7 DEF Client
<1> QED
  BY <1>1, <1>2, <1>3 DEF Next

\* The inductive invariant: types, where destroyed objects are, what the running
\* destructors and the call in progress still need, and the counts.
THEOREM Invariance == Spec => []Inv
<1>1. Inv /\ [Next]_vars => Inv'
  BY NextInv
<1> QED
  BY InitInv, <1>1, PTL DEF Spec

\* DohIncref and DohDelete in the containers, Setfile, the meta data and the copies
\* balance: a count is always the number of references and of leaked files, also in
\* the middle of a cascade of destructors.
THEOREM CountsAlwaysExact == Spec => []CountsExact
<1>1. Inv => CountsExact
  BY DEF Inv
<1> QED
  BY Invariance, <1>1, PTL

LEMMA NoDanglingStep == Inv => NoDangling
<1> SUFFICES ASSUME Inv PROVE NoDangling
  OBVIOUS
<1> DEFINE gone == {c \in Cells : obj[c].type = "none"}
                   \cup {stack[i].on : i \in {j \in 1 .. Len(stack) : stack[j].mode = "del"}}
<1>1. TypeOK /\ FreedOK /\ StackOK /\ CallOK /\ CountsExact /\ Unreferenced /\ Counted /\ LiveCounted
  BY NobodyFacts, RefFacts, LiveFacts DEF Inv
<1>2. ASSUME NEW d \in gone PROVE d \in Cells /\ Nobody(d) /\ (obj[d].type = "none" \/ Busy(d))
  <2>1. CASE d \in Cells /\ obj[d].type = "none"
    BY <1>1, <2>1, FreedFacts DEF FreedOK, Nobody
  <2>2. CASE \E i \in 1 .. Len(stack) : stack[i].mode = "del" /\ d = stack[i].on
    <3>1. PICK i \in 1 .. Len(stack) : stack[i].mode = "del" /\ d = stack[i].on
      BY <2>2
    <3>2. stack[i] \in Frames
      BY <1>1, ElementOfSeq DEF TypeOK
    <3>3. d \in Cells
      BY <3>1, <3>2 DEF Frames
    <3>4. Nobody(d)
      BY <1>1, <3>1 DEF StackOK, Nobody
    <3> QED
      BY <3>1, <3>3, <3>4 DEF Busy
  <2> QED
    BY <2>1, <2>2
<1>3. \A d \in gone : References(d) = 0
  BY <1>1, <1>2 DEF Unreferenced
<1>4. call.on \notin gone
  <2>1. call.op = "none" => call.on \notin Cells
    BY <1>1, NoCallFacts, CellFacts DEF CallOK
  <2>2. call.op # "none" => ~ Nobody(call.on)
    BY <1>1 DEF CallOK, LiveCounted
  <2> QED
    BY <1>2, <2>1, <2>2
<1>5. call.val \notin gone
  <2> HIDE DEF gone
  <2> SUFFICES ASSUME call.val \in gone PROVE FALSE
    OBVIOUS
  <2>0. call.val \in Cells /\ Nobody(call.val) /\ (obj[call.val].type = "none" \/ Busy(call.val))
    BY <1>2
  <2>1. call.op \in {"none", "remove", "set", "attr", "file"}
    BY <1>1 DEF TypeOK, Calls
  <2>2. CASE call.op \in {"none", "remove"}
    <3>1. call.val = Null
      BY <1>1, <2>2, NoCallFacts DEF CallOK
    <3> QED
      BY <2>0, <3>1, CellFacts
  <2>3. CASE call.op = "set"
    <3>1. held[call.val] > 0
      BY <1>1, <2>3 DEF CallOK
    <3>2. call.val \in Roots
      BY <2>0, <3>1 DEF Roots
    <3> QED
      BY <1>1, <2>0, <3>2 DEF Unreferenced
  <2>4. CASE call.op = "attr"
    <3>1. ~ Unborn(call.val)
      BY <2>0, NewObject DEF Unborn, Types
    <3>2. call.val \in Live
      BY <1>1, <2>4, <3>1 DEF CallOK
    <3> QED
      BY <1>1, <2>0, <3>2 DEF LiveCounted
  <2>5. CASE call.op = "file"
    <3>1. Pending(call.val)
      BY <2>5 DEF Pending
    <3> QED
      BY <1>1, <2>0, <3>1 DEF Unreferenced
  <2> QED
    BY <2>1, <2>2, <2>3, <2>4, <2>5
<1> QED
  BY <1>3, <1>4, <1>5 DEF NoDangling

\* Nothing refers to an object that DohObjFree has destroyed or whose destructor runs:
\* no list, hash table, position, meta data or client, and not the rest of List_set,
\* Hash_setattr or Setfile.
THEOREM NeverDangling == Spec => []NoDangling
  BY Invariance, NoDanglingStep, PTL

LEMMA FreeListStep == Inv => FreeListExact
<1> SUFFICES ASSUME Inv PROVE FreeListExact
  OBVIOUS
<1>1. FreeListOK /\ FreeList \in Seq(Cells)
  BY DEF Inv, TypeOK
<1> DEFINE D == 1 .. Len(FreeList)
           R == ToSet(FreeList)
           f == [i \in D |-> FreeList[i]]
<1>2. Len(FreeList) \in Nat /\ R = {FreeList[i] : i \in D}
  BY <1>1, LenProperties, ToSetDef
<1>3. IsFiniteSet(D) /\ Cardinality(D) = Len(FreeList)
  <2>1. PICK n \in Nat : n = Len(FreeList)
    BY <1>2
  <2>2. IsFiniteSet(1 .. n) /\ Cardinality(1 .. n) = IF 1 > n THEN 0 ELSE n - 1 + 1
    BY FS_Interval
  <2>3. Cardinality(1 .. n) = n
    BY <2>2
  <2> QED
    BY <2>1, <2>2, <2>3
<1>4. f \in [D -> R] /\ \A x, y \in D : f[x] = f[y] => x = y
  BY <1>1, <1>2 DEF FreeListOK
<1>5. \A t \in R : \E x \in D : f[x] = t
  BY <1>2
<1>6. Cardinality(R) = Cardinality(D)
  <2> HIDE DEF D, R, f
  <2> QED
    BY <1>3, <1>4, <1>5, SameCount
<1> QED
  BY <1>1, <1>3, <1>6 DEF FreeListOK, FreeListExact

\* The free list holds every destroyed object once: DohObjMalloc never hands out an
\* object that is in use, nor one object twice.
THEOREM FreeListAlwaysExact == Spec => []FreeListExact
  BY Invariance, FreeListStep, PTL
=============================================================================
