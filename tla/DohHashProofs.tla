--------------------------- MODULE DohHashProofs ----------------------------
(***************************************************************************)
(* The hash table of DOH is a map, for any keys, hash values and initial   *)
(* size, and a loop over it meets every attribute once.                    *)
(***************************************************************************)
EXTENDS DohHash, FiniteSetTheorems, FunctionTheorems, SequenceTheorems,
        WellFoundedInduction, NaturalsInduction, TLAPS

(* Least elements and induction.                                            *)

\* A set of naturals that is not empty has a least element.
LEMMA Least ==
  ASSUME NEW T \in SUBSET Nat, T # {}
  PROVE  \E x \in T : \A y \in T : x <= y
<1> DEFINE R == OpToRel(<, Nat)
<1>1. IsWellFoundedOn(R, Nat)
  BY NatLessThanWellFounded
<1>2. \A x, y \in Nat : <<y, x>> \in R <=> y < x
  BY DEF OpToRel
<1> HIDE DEF R
<1>3. PICK x \in T : \A y \in T : ~ (<<y, x>> \in R)
  BY <1>1, WFMin
<1>4. \A y \in T : ~ (y < x)
  BY <1>2, <1>3, Zenon
<1>5. \A y \in T : x <= y
  BY <1>4
<1> QED
  BY <1>5

\* Induction up to n over the members of a set.
LEMMA UpToAll ==
  ASSUME NEW n \in Nat, NEW S, 0 \in S, \A k \in 1 .. n : k - 1 \in S => k \in S
  PROVE  \A k \in 0 .. n : k \in S
<1> DEFINE T == {k \in 0 .. n : k \notin S}
<1> SUFFICES ASSUME T # {} PROVE FALSE
  OBVIOUS
<1>1. T \in SUBSET Nat
  OBVIOUS
<1>2. PICK x \in T : \A y \in T : x <= y
  BY <1>1, Least, Zenon
<1>3. x \in 1 .. n /\ x - 1 \in 0 .. n /\ ~ (x <= x - 1)
  BY DEF T
<1>4. x - 1 \in S
  BY <1>2, <1>3
<1> QED
  BY <1>3, <1>4

\* Min is a member of the set, and no member is below it.
LEMMA MinIs ==
  ASSUME NEW T \in SUBSET Nat, T # {}
  PROVE  Min(T) \in T /\ \A y \in T : Min(T) <= y
  BY Least DEF Min

-----------------------------------------------------------------------------
(* Divisors.                                                                *)

\* A multiple of k between 0 and k - 1 is 0.
LEMMA SmallFactor ==
  ASSUME NEW k \in Nat \ {0}, NEW z \in Int, 0 <= k * z, k * z < k
  PROVE  z = 0
<1>1. CASE z >= 1
  <2>1. k * z >= k * 1
    BY <1>1
  <2> QED
    BY <2>1
<1>2. CASE z <= -1
  <2>1. k * z <= k * (-1)
    BY <1>2
  <2> QED
    BY <2>1
<1> QED
  BY <1>1, <1>2

\* k divides its multiples.
LEMMA MultipleMod ==
  ASSUME NEW k \in Nat \ {0}, NEW a \in Nat
  PROVE  (a * k) % k = 0
<1>1. PICK q \in Int, r \in Int : a * k = k * q + r /\ 0 <= r /\ r < k /\ (a * k) % k = r
  OBVIOUS
<1>2. r = k * (a - q)
  BY <1>1
<1>3. a - q = 0
  BY <1>1, <1>2, SmallFactor
<1> QED
  BY <1>1, <1>2, <1>3

\* What k divides is a multiple of k.
LEMMA ModMultiple ==
  ASSUME NEW k \in Nat \ {0}, NEW x \in Nat, x % k = 0
  PROVE  \E a \in Nat : x = a * k
<1>1. x = k * (x \div k) + (x % k) /\ x \div k \in Int
  OBVIOUS
<1>2. x \div k >= 0
  OBVIOUS
<1> QED
  BY <1>1, <1>2

\* What k divides, it divides times m.
LEMMA TimesMod ==
  ASSUME NEW k \in Nat \ {0}, NEW x \in Nat, NEW m \in Nat, x % k = 0
  PROVE  (x * m) % k = 0
<1>1. PICK a \in Nat : x = a * k
  BY ModMultiple
<1>2. a * m \in Nat /\ x * m = (a * m) * k
  BY <1>1
<1> QED
  BY <1>2, MultipleMod

\* Division is transitive.
LEMMA ModTransitive ==
  ASSUME NEW p \in Nat \ {0}, NEW q \in Nat \ {0}, NEW x \in Nat, q % p = 0, x % q = 0
  PROVE  x % p = 0
<1>1. PICK a \in Nat : x = a * q
  BY ModMultiple
<1>2. (q * a) % p = 0
  BY TimesMod
<1> QED
  BY <1>1, <1>2

\* Only 1 divides two neighbours.
LEMMA NoCommonFactor ==
  ASSUME NEW k \in Nat \ {0}, NEW x \in Nat, x % k = 0, (x + 1) % k = 0
  PROVE  k = 1
<1>1. PICK a \in Nat : x = a * k
  BY ModMultiple
<1>2. PICK b \in Nat : x + 1 = b * k
  BY ModMultiple
<1>3. k * (b - a) = 1
  BY <1>1, <1>2
<1>4. CASE k > 1
  BY <1>3, <1>4, SmallFactor
<1> QED
  BY <1>4

\* All of 1 .. n divide x.
Common(x, n) == x \in Nat \ {0} /\ \A k \in 1 .. n : x % k = 0

\* A common multiple of 1 .. i - 1, times i, is one of 1 .. i.
LEMMA CommonNext ==
  ASSUME NEW i \in Nat \ {0}, NEW x, Common(x, i - 1)
  PROVE  Common(x * i, i)
<1>1. x \in Nat \ {0} /\ x * i \in Nat \ {0}
  BY DEF Common
<1>2. ASSUME NEW k \in 1 .. i PROVE (x * i) % k = 0
  <2>0. k \in Nat \ {0}
    OBVIOUS
  <2>1. CASE k = i
    BY <1>1, <2>1, MultipleMod
  <2>2. CASE k # i
    <3>1. k \in 1 .. i - 1
      BY <2>2
    <3>2. x % k = 0
      BY <3>1 DEF Common
    <3> QED
      BY <1>1, <2>0, <3>2, TimesMod
  <2> QED
    BY <2>1, <2>2
<1> QED
  BY <1>1, <1>2 DEF Common

\* The numbers up to n have a common multiple.
LEMMA CommonMultiple ==
  ASSUME NEW n \in Nat
  PROVE  \E x : Common(x, n)
<1> DEFINE S == {i \in 0 .. n : \E x : Common(x, i)}
<1>1. 0 \in S
  <2>1. Common(1, 0)
    BY DEF Common
  <2> QED
    BY <2>1
<1>2. ASSUME NEW i \in 1 .. n, i - 1 \in S PROVE i \in S
  <2>1. PICK x : Common(x, i - 1)
    BY <1>2
  <2>2. Common(x * i, i)
    BY <2>1, CommonNext
  <2> QED
    BY <2>2
<1> HIDE DEF S
<1>3. \A i \in 0 .. n : i \in S
  BY <1>1, <1>2, UpToAll
<1>4. n \in S
  BY <1>3
<1> QED
  BY <1>4 DEF S

\* There is a prime above n; primes pass the test of resize.
LEMMA AcceptedAbove ==
  ASSUME NEW n \in Nat, n >= 3
  PROVE  \E q \in Nat : q >= n /\ q % 2 = 1 /\ Accepted(q)
<1>1. PICK x \in Nat \ {0} : \A k \in 1 .. n : x % k = 0
  BY CommonMultiple DEF Common
<1> DEFINE N == x + 1
           D == {d \in 2 .. N : N % d = 0}
<1>2. N \in Nat /\ N \in D
  <2>1. (1 * N) % N = 0
    BY MultipleMod
  <2> QED
    BY <2>1
<1>3. D \in SUBSET Nat /\ D # {}
  BY <1>2
<1>4. PICK q \in D : \A d \in D : q <= d
  BY <1>3, Least
<1>5. q \in Nat /\ q >= 2 /\ q <= N /\ N % q = 0
  BY <1>4
<1>6. q > n
  <2> SUFFICES ASSUME q <= n PROVE FALSE
    BY <1>5
  <2>1. x % q = 0
    BY <1>1, <1>5
  <2> QED
    BY <1>5, <2>1, NoCommonFactor
<1>7. ASSUME NEW p \in 2 .. q - 1 PROVE q % p # 0
  <2> SUFFICES ASSUME q % p = 0 PROVE FALSE
    OBVIOUS
  <2>0. p \in Nat \ {0} /\ q \in Nat \ {0}
    BY <1>5
  <2>1. N % p = 0
    BY <1>2, <1>5, <2>0, ModTransitive
  <2>2. p \in D
    BY <2>1, <1>5
  <2> QED
    BY <2>2, <1>4
<1>8. q % 2 = 1
  BY <1>5, <1>6, <1>7
<1>9. Accepted(q)
  <2>1. \A p \in 3 .. (q \div 2) - 1 : p \in 2 .. q - 1
    BY <1>5
  <2> QED
    BY <2>1, <1>7 DEF Accepted
<1> QED
  BY <1>5, <1>6, <1>8, <1>9
-----------------------------------------------------------------------------
(* The new size.                                                            *)

\* The sizes that a search from n on can end with.
Passing(n) == {m \in Nat : m >= n /\ (m - n) % 2 = 0 /\ Accepted(m)}

\* The search of resize is what its definition says, as it ends for every n.
LEMMA SearchStep ==
  \A n \in Nat : Search[n] = IF Accepted(n) THEN n ELSE Search[n + 2]
<1> DEFINE f == [n \in Nat |-> IF Passing(n) = {} THEN 0 ELSE Min(Passing(n))]
           Eq(g) == g = [n \in Nat |-> IF Accepted(n) THEN n ELSE g[n + 2]]
<1>1. ASSUME NEW n \in Nat PROVE f[n] = IF Accepted(n) THEN n ELSE f[n + 2]
  <2>1. CASE Accepted(n)
    <3>1. n \in Passing(n)
      BY <2>1 DEF Passing
    <3>2. Passing(n) \in SUBSET Nat /\ \A m \in Passing(n) : n <= m
      BY DEF Passing
    <3>3. Min(Passing(n)) \in Passing(n) /\ Min(Passing(n)) <= n
      BY <3>1, <3>2, MinIs
    <3>4. Min(Passing(n)) = n
      BY <3>2, <3>3
    <3> QED
      BY <2>1, <3>1, <3>4
  <2>2. CASE ~ Accepted(n)
    <3>1. ASSUME NEW m \in Nat PROVE m \in Passing(n) <=> m \in Passing(n + 2)
      <4>1. CASE m = n
        BY <2>2, <4>1 DEF Passing
      <4>2. CASE m # n
        BY <4>2 DEF Passing
      <4> QED
        BY <4>1, <4>2
    <3>2. Passing(n) = Passing(n + 2)
      BY <3>1 DEF Passing
    <3> QED
      BY <2>2, <3>2
  <2> QED
    BY <2>1, <2>2
<1>2. f = [n \in Nat |-> f[n]]
  OBVIOUS
<1>3. f = [n \in Nat |-> IF Accepted(n) THEN n ELSE f[n + 2]]
  BY <1>1, <1>2, Zenon
<1> HIDE DEF f
<1>4. Eq(f)
  BY <1>3
<1>5. Eq(CHOOSE g : Eq(g))
  BY <1>4, Zenon
<1>6. Search = CHOOSE g : Eq(g)
  BY DEF Search
<1>7. Eq(Search)
  BY <1>5, <1>6, Zenon
<1> QED
  BY <1>7

\* resize makes the table more than twice as large.
LEMMA NewSizeGrows ==
  ASSUME NEW old \in Nat \ {0}
  PROVE  NewSize(old) \in Nat /\ NewSize(old) >= 2 * old + 1
<1> DEFINE n == 2 * old + 1
<1>1. n \in Nat /\ n >= 3 /\ n % 2 = 1
  OBVIOUS
<1>2. PICK q \in Nat : q >= n /\ q % 2 = 1 /\ Accepted(q)
  BY <1>1, AcceptedAbove
<1>3. PICK k \in Nat : q = n + 2 * k
  <2>1. (q - n) \div 2 \in Nat /\ q = n + 2 * ((q - n) \div 2)
    BY <1>1, <1>2
  <2> QED
    BY <2>1
<1> DEFINE S == {j \in 0 .. k : Search[q - 2 * j] \in Nat /\ Search[q - 2 * j] >= q - 2 * j}
<1>4. 0 \in S
  <2>1. Search[q] = q
    BY <1>2, SearchStep
  <2> QED
    BY <2>1
<1>5. ASSUME NEW j \in 1 .. k, j - 1 \in S PROVE j \in S
  <2>1. q - 2 * j \in Nat
    BY <1>1, <1>3
  <2>2. (q - 2 * j) + 2 = q - 2 * (j - 1)
    OBVIOUS
  <2>3. Search[q - 2 * (j - 1)] \in Nat /\ Search[q - 2 * (j - 1)] >= q - 2 * (j - 1)
    BY <1>5
  <2>4. PICK d \in Nat : d = q - 2 * j
    BY <2>1
  <2>5. Search[d] = IF Accepted(d) THEN d ELSE Search[d + 2]
    BY SearchStep
  <2>6. Search[d + 2] \in Nat /\ Search[d + 2] >= d
    BY <2>2, <2>3, <2>4
  <2>7. Search[d] \in Nat /\ Search[d] >= d
    BY <2>5, <2>6
  <2> QED
    BY <2>4, <2>7
<1> HIDE DEF S
<1>6. \A j \in 0 .. k : j \in S
  BY <1>4, <1>5, UpToAll
<1>7. k \in S
  BY <1>6
<1>8. Search[q - 2 * k] \in Nat /\ Search[q - 2 * k] >= q - 2 * k
  BY <1>7 DEF S
<1>9. q - 2 * k = n
  BY <1>1, <1>3
<1> QED
  BY <1>8, <1>9 DEF NewSize
-----------------------------------------------------------------------------
(* Chains.                                                                  *)

HashNodes == [key : Keys, val : Vals]

\* The chain c has the nodes in Y, each key once.
Lists(c, Y) ==
  /\ c \in Seq(HashNodes) /\ Y \subseteq HashNodes
  /\ \A i \in 1 .. Len(c) : c[i] \in Y
  /\ \A i, j \in 1 .. Len(c) : c[i].key = c[j].key => i = j
  /\ \A r \in Y : \E i \in 1 .. Len(c) : c[i] = r

\* No node of Y has the key k.
Lacks(Y, k) == \A r \in Y : r.key # k

\* The chain of no nodes.
LEMMA ListsEmpty == Lists(<<>>, {})
  BY DEF Lists

\* A key has one node.
LEMMA ListsUnique ==
  ASSUME NEW c, NEW Y, Lists(c, Y), NEW r \in Y, NEW s \in Y, r.key = s.key
  PROVE  r = s
  BY DEF Lists

\* A chain is as long as its nodes are many.
LEMMA ListsFinite ==
  ASSUME NEW c, NEW Y, Lists(c, Y)
  PROVE  IsFiniteSet(Y) /\ Cardinality(Y) = Len(c)
<1>1. c \in Seq(HashNodes) /\ Len(c) \in Nat /\ DOMAIN c = 1 .. Len(c)
  BY DEF Lists
<1>2. c \in Bijection(1 .. Len(c), Y)
  <2>1. c \in [1 .. Len(c) -> Y]
    BY <1>1 DEF Lists
  <2>2. \A i, j \in 1 .. Len(c) : c[i] = c[j] => i = j
    BY DEF Lists
  <2>3. \A r \in Y : \E i \in 1 .. Len(c) : c[i] = r
    BY DEF Lists
  <2> QED
    BY <2>1, <2>2, <2>3 DEF Bijection, Injection, Surjection, IsInjective
<1>3. ExistsBijection(1 .. Len(c), Y)
  BY <1>2 DEF ExistsBijection
<1>4. IsFiniteSet(1 .. Len(c)) /\ Cardinality(1 .. Len(c)) = Len(c)
  <2>1. IsFiniteSet(1 .. Len(c)) /\ Cardinality(1 .. Len(c)) = IF 1 > Len(c) THEN 0 ELSE Len(c) - 1 + 1
    BY <1>1, FS_Interval
  <2> QED
    BY <1>1, <2>1
<1> QED
  BY <1>3, <1>4, FS_Bijection

\* A node with a new key is put at the end.
LEMMA ListsAppend ==
  ASSUME NEW c, NEW Y, Lists(c, Y), NEW r \in HashNodes, Lacks(Y, r.key)
  PROVE  Lists(Append(c, r), Y \cup {r})
<1> DEFINE d == Append(c, r)
<1>1. /\ c \in Seq(HashNodes) /\ d \in Seq(HashNodes) /\ Len(d) = Len(c) + 1 /\ Len(c) \in Nat
      /\ d[Len(c) + 1] = r /\ \A i \in 1 .. Len(c) : d[i] = c[i]
  BY DEF Lists
<1> HIDE DEF d
<1>2. \A i \in 1 .. Len(d) : d[i] \in Y \cup {r}
  BY <1>1 DEF Lists
<1>3. \A i, j \in 1 .. Len(d) : d[i].key = d[j].key => i = j
  BY <1>1 DEF Lists, Lacks
<1>4. \A s \in Y \cup {r} : \E i \in 1 .. Len(d) : d[i] = s
  BY <1>1 DEF Lists
<1> QED
  BY <1>1, <1>2, <1>3, <1>4 DEF Lists, d

\* Two chains without a common key are joined.
LEMMA ListsConcat ==
  ASSUME NEW c, NEW Y, Lists(c, Y), NEW d, NEW Z, Lists(d, Z),
         \A r \in Y : Lacks(Z, r.key)
  PROVE  Lists(c \o d, Y \cup Z)
<1> DEFINE e == c \o d
<1>1. /\ c \in Seq(HashNodes) /\ d \in Seq(HashNodes) /\ e \in Seq(HashNodes)
      /\ Len(e) = Len(c) + Len(d) /\ Len(c) \in Nat /\ Len(d) \in Nat
      /\ \A i \in 1 .. Len(c) : e[i] = c[i]
      /\ \A i \in Len(c) + 1 .. Len(e) : e[i] = d[i - Len(c)] /\ i - Len(c) \in 1 .. Len(d)
  BY DEF Lists
<1>2. \A i \in 1 .. Len(d) : i + Len(c) \in Len(c) + 1 .. Len(e) /\ (i + Len(c)) - Len(c) = i
  BY <1>1
<1> HIDE DEF e
<1>3. \A i \in 1 .. Len(e) : i \in 1 .. Len(c) \/ i \in Len(c) + 1 .. Len(e)
  BY <1>1
<1>4. \A i \in 1 .. Len(c) : c[i] \in Y
  BY DEF Lists
<1>5. \A i \in 1 .. Len(d) : d[i] \in Z
  BY DEF Lists
<1>6. \A i \in 1 .. Len(e) : e[i] \in Y \cup Z
  BY <1>1, <1>3, <1>4, <1>5
<1>7. ASSUME NEW i \in 1 .. Len(e), NEW j \in 1 .. Len(e), e[i].key = e[j].key PROVE i = j
  <2>1. CASE i \in 1 .. Len(c) /\ j \in 1 .. Len(c)
    BY <1>1, <1>7, <2>1 DEF Lists
  <2>2. CASE i \in Len(c) + 1 .. Len(e) /\ j \in Len(c) + 1 .. Len(e)
    <3>1. PICK a \in 1 .. Len(d), b \in 1 .. Len(d) : a = i - Len(c) /\ b = j - Len(c)
      BY <1>1, <2>2
    <3>2. d[a].key = d[b].key
      BY <1>1, <1>7, <2>2, <3>1
    <3>3. a = b
      BY <3>2 DEF Lists
    <3> QED
      BY <1>1, <3>1, <3>3
  <2>3. CASE i \in 1 .. Len(c) /\ j \in Len(c) + 1 .. Len(e)
    BY <1>1, <1>4, <1>5, <1>7, <2>3 DEF Lacks
  <2>4. CASE j \in 1 .. Len(c) /\ i \in Len(c) + 1 .. Len(e)
    BY <1>1, <1>4, <1>5, <1>7, <2>4 DEF Lacks
  <2> QED
    BY <1>3, <2>1, <2>2, <2>3, <2>4
<1>8. ASSUME NEW r \in Y \cup Z PROVE \E i \in 1 .. Len(e) : e[i] = r
  <2>1. CASE r \in Y
    <3>1. PICK i \in 1 .. Len(c) : c[i] = r
      BY <2>1 DEF Lists
    <3>2. i \in 1 .. Len(e)
      BY <1>1
    <3> QED
      BY <1>1, <3>1, <3>2
  <2>2. CASE r \in Z
    <3>1. PICK i \in 1 .. Len(d) : d[i] = r
      BY <2>2 DEF Lists
    <3>2. i + Len(c) \in 1 .. Len(e) /\ e[i + Len(c)] = d[i]
      BY <1>1, <1>2
    <3> QED
      BY <3>1, <3>2
  <2> QED
    BY <2>1, <2>2
<1>9. Y \cup Z \subseteq HashNodes
  BY DEF Lists
<1> QED
  BY <1>1, <1>6, <1>7, <1>8, <1>9 DEF Lists, e

\* A node with a new key is put in front.
LEMMA ListsFront ==
  ASSUME NEW c, NEW Y, Lists(c, Y), NEW r \in HashNodes, Lacks(Y, r.key)
  PROVE  Lists(<<r>> \o c, {r} \cup Y)
<1>1. Lists(<<r>>, {r})
  BY DEF Lists
<1>2. \A s \in {r} : Lacks(Y, s.key)
  OBVIOUS
<1> QED
  BY <1>1, <1>2, ListsConcat

\* The value of a node is replaced.
LEMMA ListsReplace ==
  ASSUME NEW c, NEW Y, Lists(c, Y), NEW i \in 1 .. Len(c), NEW v \in Vals
  PROVE  /\ [c EXCEPT ![i].val = v] \in Seq(HashNodes)
         /\ Lists([c EXCEPT ![i].val = v], (Y \ {c[i]}) \cup {[key |-> c[i].key, val |-> v]})
<1> DEFINE d == [c EXCEPT ![i].val = v]
           r == [key |-> c[i].key, val |-> v]
<1>1. c \in Seq(HashNodes) /\ c[i] \in HashNodes /\ Len(c) \in Nat
  BY DEF Lists
<1>2. r \in HashNodes /\ r.key = c[i].key /\ [c[i] EXCEPT !.val = v] = r
  BY <1>1 DEF HashNodes
<1>3. d = [c EXCEPT ![i] = r]
  BY <1>2
<1> HIDE DEF r, d
<1>4. /\ d \in Seq(HashNodes) /\ Len(d) = Len(c)
      /\ d[i] = r /\ \A j \in 1 .. Len(c) : j # i => d[j] = c[j]
  BY <1>1, <1>2, <1>3
<1>5. \A j \in 1 .. Len(d) : d[j].key = c[j].key
  BY <1>2, <1>4
<1>6. ASSUME NEW j \in 1 .. Len(d) PROVE d[j] \in (Y \ {c[i]}) \cup {r}
  <2>1. CASE j = i
    BY <1>4, <2>1
  <2>2. CASE j # i
    <3>1. d[j] = c[j] /\ c[j] \in Y
      BY <1>4, <2>2 DEF Lists
    <3>2. c[j] # c[i]
      BY <1>4, <2>2 DEF Lists
    <3> QED
      BY <3>1, <3>2
  <2> QED
    BY <2>1, <2>2
<1>7. \A j, l \in 1 .. Len(d) : d[j].key = d[l].key => j = l
  BY <1>4, <1>5 DEF Lists
<1>8. ASSUME NEW s \in (Y \ {c[i]}) \cup {r} PROVE \E j \in 1 .. Len(d) : d[j] = s
  <2>1. CASE s = r
    BY <1>4, <2>1
  <2>2. CASE s # r
    <3>1. PICK j \in 1 .. Len(c) : c[j] = s
      BY <2>2 DEF Lists
    <3> QED
      BY <1>4, <2>2, <3>1
  <2> QED
    BY <2>1, <2>2
<1>9. (Y \ {c[i]}) \cup {r} \subseteq HashNodes
  BY <1>2 DEF Lists
<1>10. Lists(d, (Y \ {c[i]}) \cup {r})
  BY <1>4, <1>6, <1>7, <1>8, <1>9 DEF Lists
<1> QED
  BY <1>4, <1>10 DEF d, r

\* What is left of a sequence from which element i was removed.
LEMMA Removed ==
  ASSUME NEW S, NEW c \in Seq(S), NEW i \in 1 .. Len(c)
  PROVE  /\ RemoveAt(c, i) \in Seq(S) /\ Len(RemoveAt(c, i)) = Len(c) - 1
         /\ \A j \in 1 .. Len(c) - 1 : RemoveAt(c, i)[j] = IF j < i THEN c[j] ELSE c[j + 1]
<1> DEFINE a == SubSeq(c, 1, i - 1)
           b == SubSeq(c, i + 1, Len(c))
<1>0. Len(c) \in Nat /\ i \in Nat /\ 1 <= i /\ i <= Len(c)
  OBVIOUS
<1>1. a \in Seq(S) /\ Len(a) = i - 1 /\ \A j \in 1 .. i - 1 : a[j] = c[j]
  BY <1>0
<1>2. b \in Seq(S) /\ Len(b) = Len(c) - i /\ \A j \in 1 .. Len(c) - i : b[j] = c[i + j]
  BY <1>0
<1> HIDE DEF a, b
<1>3. /\ a \o b \in Seq(S) /\ Len(a \o b) = Len(c) - 1
      /\ \A j \in 1 .. Len(c) - 1 : (a \o b)[j] = IF j <= Len(a) THEN a[j] ELSE b[j - Len(a)]
  <2>1. /\ a \o b \in Seq(S) /\ Len(a \o b) = Len(a) + Len(b)
        /\ \A j \in 1 .. Len(a) + Len(b) : (a \o b)[j] = IF j <= Len(a) THEN a[j] ELSE b[j - Len(a)]
    BY <1>1, <1>2, ConcatProperties
  <2>2. Len(a) + Len(b) = Len(c) - 1
    BY <1>0, <1>1, <1>2
  <2> QED
    BY <2>1, <2>2
<1>4. ASSUME NEW j \in 1 .. Len(c) - 1 PROVE (a \o b)[j] = IF j < i THEN c[j] ELSE c[j + 1]
  <2>1. CASE j < i
    BY <1>0, <1>1, <1>3, <2>1
  <2>2. CASE ~ (j < i)
    <3>1. PICK l \in 1 .. Len(c) - i : l = j - (i - 1)
      BY <1>0, <2>2
    <3>2. (a \o b)[j] = b[l]
      BY <1>0, <1>1, <1>3, <2>2, <3>1
    <3>3. i + l = j + 1
      BY <1>0, <3>1
    <3> QED
      BY <1>2, <2>2, <3>2, <3>3
  <2> QED
    BY <2>1, <2>2
<1>5. RemoveAt(c, i) = a \o b
  BY DEF RemoveAt, a, b
<1> QED
  BY <1>3, <1>4, <1>5

\* A node is unlinked.
LEMMA ListsRemove ==
  ASSUME NEW c, NEW Y, Lists(c, Y), NEW i \in 1 .. Len(c)
  PROVE  Lists(RemoveAt(c, i), Y \ {c[i]})
<1>1. c \in Seq(HashNodes) /\ Len(c) \in Nat
  BY DEF Lists
<1>2. PICK d : d = RemoveAt(c, i)
  OBVIOUS
<1>3. /\ d \in Seq(HashNodes) /\ Len(d) = Len(c) - 1
      /\ \A j \in 1 .. Len(c) - 1 : d[j] = IF j < i THEN c[j] ELSE c[j + 1]
  BY <1>1, <1>2, Removed

\* where element j of d was in c
<1> DEFINE From(j) == IF j < i THEN j ELSE j + 1
<1>4. \A j \in 1 .. Len(d) : From(j) \in 1 .. Len(c) /\ From(j) # i /\ d[j] = c[From(j)]
  BY <1>1, <1>3
<1>5. \A j, l \in 1 .. Len(d) : From(j) = From(l) => j = l
  BY <1>1, <1>3
<1>6. \A l \in 1 .. Len(c) : l # i => \E j \in 1 .. Len(d) : From(j) = l
  <2> SUFFICES ASSUME NEW l \in 1 .. Len(c), l # i PROVE \E j \in 1 .. Len(d) : From(j) = l
    OBVIOUS
  <2>1. CASE l < i
    BY <1>1, <1>3, <2>1
  <2>2. CASE l > i
    <3>1. l - 1 \in 1 .. Len(d) /\ From(l - 1) = l
      BY <1>1, <1>3, <2>2
    <3> QED
      BY <3>1
  <2> QED
    BY <2>1, <2>2
<1> HIDE DEF From
<1>7. \A j \in 1 .. Len(d) : d[j] \in Y \ {c[i]}
  BY <1>4 DEF Lists
<1>8. \A j, l \in 1 .. Len(d) : d[j].key = d[l].key => j = l
  BY <1>4, <1>5 DEF Lists
<1>9. ASSUME NEW r \in Y \ {c[i]} PROVE \E j \in 1 .. Len(d) : d[j] = r
  <2>1. PICK l \in 1 .. Len(c) : c[l] = r
    BY DEF Lists
  <2>2. PICK j \in 1 .. Len(d) : From(j) = l
    BY <1>6, <2>1
  <2> QED
    BY <1>4, <2>1, <2>2
<1> QED
  BY <1>2, <1>3, <1>7, <1>8, <1>9 DEF Lists
-----------------------------------------------------------------------------
(* Tables.                                                                  *)

\* The nodes of X that are looked for in chain b of n.
Part(X, n, b) == {r \in X : r.key % n = b}

\* The chains T have the nodes in X, each where its key is looked for.
Table(T, n, X) ==
  /\ n \in Nat \ {0} /\ DOMAIN T = 0 .. n - 1 /\ T = [b \in 0 .. n - 1 |-> T[b]]
  /\ \A b \in 0 .. n - 1 : Lists(T[b], Part(X, n, b))

\* The null pointer is no key and no object.
LEMMA KeysAreNat == Keys \subseteq Nat \ {0} /\ Vals \subseteq Nat \ {0} /\ 0 \notin Keys /\ 0 \notin Vals
  BY DohHashAssumption

\* A hash value selects a chain.
LEMMA Spot ==
  ASSUME NEW k \in Nat, NEW n \in Nat \ {0}
  PROVE  k % n \in 0 .. n - 1
  OBVIOUS

\* Chain b is replaced by one that has the nodes which X then has there.
LEMMA TableStep ==
  ASSUME NEW T, NEW n, NEW X, Table(T, n, X), NEW b \in 0 .. n - 1, NEW c, NEW Z,
         Lists(c, Part(Z, n, b)),
         \A r : r.key % n # b => (r \in Z <=> r \in X)
  PROVE  Table([T EXCEPT ![b] = c], n, Z)
<1> DEFINE U == [T EXCEPT ![b] = c]
<1>1. DOMAIN U = 0 .. n - 1 /\ U = [d \in 0 .. n - 1 |-> U[d]]
  BY DEF Table
<1>2. U[b] = c /\ \A d \in 0 .. n - 1 : d # b => U[d] = T[d]
  BY DEF Table
<1>3. ASSUME NEW d \in 0 .. n - 1, d # b PROVE Part(Z, n, d) = Part(X, n, d)
  BY <1>3 DEF Part
<1> HIDE DEF U
<1>4. \A d \in 0 .. n - 1 : Lists(U[d], Part(Z, n, d))
  BY <1>2, <1>3 DEF Table
<1> QED
  BY <1>1, <1>4 DEF Table, U

\* A node is in the part of its chain, and no key has two nodes.
LEMMA TableNodes ==
  ASSUME NEW T, NEW n, NEW X, Table(T, n, X), X \subseteq HashNodes
  PROVE  /\ \A r \in X : r.key \in Keys /\ r.key % n \in 0 .. n - 1 /\ r \in Part(X, n, r.key % n)
         /\ \A r, s \in X : r.key = s.key => r = s
<1>1. \A r \in X : r.key \in Keys /\ r.key % n \in 0 .. n - 1 /\ r \in Part(X, n, r.key % n)
  <2> SUFFICES ASSUME NEW r \in X
               PROVE  r.key \in Keys /\ r.key % n \in 0 .. n - 1 /\ r \in Part(X, n, r.key % n)
    OBVIOUS
  <2>1. r.key \in Keys
    BY DEF HashNodes
  <2>2. r.key % n \in 0 .. n - 1
    BY <2>1, KeysAreNat, Spot DEF Table
  <2> QED
    BY <2>1, <2>2 DEF Part
<1>2. ASSUME NEW r \in X, NEW s \in X, r.key = s.key PROVE r = s
  <2>1. PICK b \in 0 .. n - 1 : r \in Part(X, n, b) /\ s \in Part(X, n, b)
    BY <1>1, <1>2
  <2>2. Lists(T[b], Part(X, n, b))
    BY DEF Table
  <2> QED
    BY <1>2, <2>1, <2>2, ListsUnique
<1> QED
  BY <1>1, <1>2

\* The table of no nodes.
LEMMA TableEmpty ==
  ASSUME NEW n \in Nat \ {0}
  PROVE  Table([b \in 0 .. n - 1 |-> <<>>], n, {})
<1>1. \A b : Part({}, n, b) = {}
  BY DEF Part
<1> QED
  BY <1>1, ListsEmpty DEF Table

\* A node is put in front of its chain.
LEMMA TableFront ==
  ASSUME NEW T, NEW n, NEW X, Table(T, n, X), X \subseteq HashNodes, NEW r \in HashNodes, Lacks(X, r.key)
  PROVE  Table([T EXCEPT ![r.key % n] = <<r>> \o @], n, X \cup {r})
<1>1. PICK b \in 0 .. n - 1 : b = r.key % n
  BY KeysAreNat, Spot DEF HashNodes, Table
<1>2. Lists(T[b], Part(X, n, b)) /\ Lacks(Part(X, n, b), r.key)
  BY DEF Table, Part, Lacks
<1>3. Lists(<<r>> \o T[b], {r} \cup Part(X, n, b))
  BY <1>2, ListsFront
<1>4. {r} \cup Part(X, n, b) = Part(X \cup {r}, n, b)
  BY <1>1 DEF Part
<1>5. \A s : s.key % n # b => (s \in X \cup {r} <=> s \in X)
  BY <1>1
<1>6. Table([T EXCEPT ![b] = <<r>> \o T[b]], n, X \cup {r})
  BY <1>3, <1>4, <1>5, TableStep
<1>7. [T EXCEPT ![b] = <<r>> \o T[b]] = [T EXCEPT ![b] = <<r>> \o @]
  BY DEF Table
<1> QED
  BY <1>1, <1>6, <1>7
-----------------------------------------------------------------------------
(* Loops.                                                                   *)

\* w[i] is what i rounds make of U; round i is G[i].
Rounds(w, n, C, U, G) ==
  /\ w \in [0 .. n -> C] /\ w[0] = U
  /\ \A i \in 1 .. n : w[i] = G[i][w[i - 1]]

\* A loop of n rounds that stays in C is a function.
LEMMA RoundsExist ==
  ASSUME NEW n \in Nat, NEW C, NEW U \in C, NEW G, \A i \in 1 .. n : \A x \in C : G[i][x] \in C
  PROVE  \E w : Rounds(w, n, C, U, G)
<1> DEFINE S == {k \in 0 .. n : \E w : Rounds(w, k, C, U, G)}
<1>1. 0 \in S
  <2>1. PICK w : w = [i \in 0 .. 0 |-> U]
    OBVIOUS
  <2>2. Rounds(w, 0, C, U, G)
    BY <2>1 DEF Rounds
  <2> QED
    BY <2>2
<1>2. ASSUME NEW k \in 1 .. n, k - 1 \in S PROVE k \in S
  <2>1. PICK w : Rounds(w, k - 1, C, U, G)
    BY <1>2
  <2>2. k \in Nat /\ k - 1 \in 0 .. k - 1 /\ \A i \in 0 .. k : i = k \/ i \in 0 .. k - 1
    OBVIOUS
  <2>3. w \in [0 .. k - 1 -> C] /\ w[0] = U /\ \A i \in 1 .. k - 1 : w[i] = G[i][w[i - 1]]
    BY <2>1 DEF Rounds
  <2>4. PICK v : v = [i \in 0 .. k |-> IF i = k THEN G[k][w[k - 1]] ELSE w[i]]
    OBVIOUS
  <2>5. G[k][w[k - 1]] \in C
    BY <2>2, <2>3
  <2>6. v \in [0 .. k -> C]
    BY <2>2, <2>3, <2>4, <2>5
  <2>7. v[k] = G[k][w[k - 1]] /\ \A i \in 0 .. k - 1 : v[i] = w[i]
    BY <2>4
  <2>8. ASSUME NEW i \in 1 .. k PROVE v[i] = G[i][v[i - 1]]
    <3>1. i - 1 \in 0 .. k - 1 /\ (i # k => i \in 1 .. k - 1 /\ i \in 0 .. k - 1)
      BY <2>2
    <3> QED
      BY <2>3, <2>7, <3>1
  <2>9. v[0] = U
    BY <2>3, <2>7
  <2>10. Rounds(v, k, C, U, G)
    BY <2>6, <2>8, <2>9 DEF Rounds
  <2> QED
    BY <2>10
<1> HIDE DEF S
<1>3. \A k \in 0 .. n : k \in S
  BY <1>1, <1>2, UpToAll
<1>4. n \in S
  BY <1>3
<1> QED
  BY <1>4 DEF S

\* f[i] is the first i of the sequences one after the other.
Flattens(f, seqs) ==
  /\ FlattenSeq(seqs) = f[Len(seqs)] /\ f[1] = seqs[1]
  /\ \A i \in 2 .. Len(seqs) : f[i] = f[i - 1] \o seqs[i]

\* FlattenSeq joins the sequences one by one.
LEMMA FlattenStep ==
  ASSUME NEW S, NEW seqs \in Seq(Seq(S)), Len(seqs) > 0
  PROVE  \E f : Flattens(f, seqs)
<1> DEFINE n == Len(seqs)
           Eq(g) == g = [i \in 1 .. n |-> IF i = 1 THEN seqs[i] ELSE g[i - 1] \o seqs[i]]
           G == [i \in 1 .. n |-> [x \in Seq(S) |-> x \o seqs[i]]]
<1>1. n \in Nat /\ n >= 1 /\ \A i \in 1 .. n : seqs[i] \in Seq(S)
  OBVIOUS
<1>2. \A i \in 1 .. n : \A x \in Seq(S) : G[i][x] = x \o seqs[i] /\ G[i][x] \in Seq(S)
  BY <1>1
<1>3. <<>> \in Seq(S)
  OBVIOUS
<1> HIDE DEF G, n
<1>4. PICK w : Rounds(w, n, Seq(S), <<>>, G)
  BY <1>1, <1>2, <1>3, RoundsExist
<1>5. /\ w \in [0 .. n -> Seq(S)] /\ w[0] = <<>>
      /\ \A i \in 1 .. n : w[i] = w[i - 1] \o seqs[i]
  <2>1. w \in [0 .. n -> Seq(S)] /\ w[0] = <<>> /\ \A i \in 1 .. n : w[i] = G[i][w[i - 1]]
    BY <1>4 DEF Rounds
  <2>2. \A i \in 1 .. n : i - 1 \in 0 .. n
    BY <1>1
  <2> QED
    BY <1>2, <2>1, <2>2
<1>6. w[1] = seqs[1]
  <2>0. 1 \in 1 .. n /\ 1 - 1 = 0
    BY <1>1
  <2>1. w[1] = <<>> \o seqs[1] /\ seqs[1] \in Seq(S)
    BY <1>1, <1>5, <2>0
  <2> QED
    BY <2>1
<1> DEFINE f == [i \in 1 .. n |-> w[i]]
<1>7. ASSUME NEW i \in 1 .. n PROVE f[i] = IF i = 1 THEN seqs[i] ELSE f[i - 1] \o seqs[i]
  <2>1. CASE i = 1
    BY <1>6, <2>1
  <2>2. CASE i # 1
    <3>1. i - 1 \in 1 .. n
      BY <1>1, <2>2
    <3> QED
      BY <1>5, <2>2, <3>1
  <2> QED
    BY <2>1, <2>2
<1>8. f = [i \in 1 .. n |-> f[i]]
  OBVIOUS
<1>9. f = [i \in 1 .. n |-> IF i = 1 THEN seqs[i] ELSE f[i - 1] \o seqs[i]]
  BY <1>7, <1>8, Zenon
<1> HIDE DEF f
<1>10. Eq(f)
  BY <1>9
<1>11. Eq(CHOOSE g : Eq(g))
  BY <1>10, Zenon
<1>12. FlattenSeq(seqs) = (CHOOSE g : Eq(g))[n]
  BY <1>1 DEF FlattenSeq, n
<1> HIDE DEF Eq
<1>13. PICK g : g = CHOOSE e : Eq(e)
  OBVIOUS
<1>14. FlattenSeq(seqs) = g[n] /\ Eq(g)
  BY <1>11, <1>12, <1>13, Zenon
<1>15. g = [i \in 1 .. n |-> IF i = 1 THEN seqs[i] ELSE g[i - 1] \o seqs[i]]
  BY <1>14 DEF Eq
<1>16. g[1] = seqs[1]
  BY <1>1, <1>15
<1>17. \A i \in 2 .. n : g[i] = g[i - 1] \o seqs[i]
  <2>1. \A i \in 2 .. n : i \in 1 .. n /\ i # 1
    BY <1>1
  <2> QED
    BY <1>15, <2>1
<1> QED
  BY <1>14, <1>16, <1>17 DEF n, Flattens

\* The nodes in the chains before chain b.
Before(X, n, b) == {r \in X : r.key % n < b}

\* The walk over all chains meets every node once.
LEMMA NodesList ==
  ASSUME NEW t, NEW X, Table(t.hashtable, t.hashsize, X), X \subseteq HashNodes
  PROVE  Lists(Nodes(t), X)
<1>1. PICK T, n : T = t.hashtable /\ n = t.hashsize
  OBVIOUS
<1>2. Table(T, n, X) /\ n \in Nat /\ n >= 1
  <2>1. Table(T, n, X)
    BY <1>1
  <2> QED
    BY <2>1 DEF Table
<1>3. PICK seqs : seqs = [b \in 1 .. n |-> T[b - 1]]
  OBVIOUS
<1>4. ASSUME NEW i \in 1 .. n PROVE Lists(seqs[i], Part(X, n, i - 1)) /\ seqs[i] \in Seq(HashNodes)
  <2>1. i - 1 \in 0 .. n - 1 /\ seqs[i] = T[i - 1]
    BY <1>2, <1>3
  <2> QED
    BY <1>2, <2>1 DEF Table, Lists
<1>5. seqs \in Seq(Seq(HashNodes)) /\ Len(seqs) = n
  BY <1>2, <1>3, <1>4
<1>6. Nodes(t) = FlattenSeq(seqs)
  BY <1>1, <1>3 DEF Nodes
<1>7. PICK f : /\ FlattenSeq(seqs) = f[n] /\ f[1] = seqs[1]
               /\ \A i \in 2 .. n : f[i] = f[i - 1] \o seqs[i]
  <2>1. PICK f : Flattens(f, seqs)
    BY <1>2, <1>5, FlattenStep
  <2> QED
    BY <1>5, <2>1 DEF Flattens
<1>8. \A r \in X : r.key % n \in 0 .. n - 1
  BY <1>2, TableNodes
<1> DEFINE S == {i \in 0 .. n - 1 : Lists(f[i + 1], Before(X, n, i + 1))}
<1>9. 0 \in S
  <2>1. Before(X, n, 1) = Part(X, n, 0)
    BY <1>2, <1>8 DEF Before, Part
  <2>2. 1 \in 1 .. n /\ 1 - 1 = 0 /\ 0 + 1 = 1 /\ 0 \in 0 .. n - 1
    BY <1>2
  <2>3. Lists(f[1], Part(X, n, 0))
    BY <1>4, <1>7, <2>2
  <2> QED
    BY <2>1, <2>2, <2>3
<1>10. ASSUME NEW i \in 1 .. n - 1, i - 1 \in S PROVE i \in S
  <2>1. i + 1 \in 1 .. n /\ i + 1 \in 2 .. n /\ (i + 1) - 1 = i /\ (i - 1) + 1 = i /\ i \in 0 .. n - 1
    BY <1>2
  <2>2. Lists(f[i], Before(X, n, i))
    BY <1>10, <2>1
  <2>3. Lists(seqs[i + 1], Part(X, n, i))
    BY <1>4, <2>1
  <2>4. f[i + 1] = f[i] \o seqs[i + 1]
    BY <1>7, <2>1
  <2>5. \A r \in Before(X, n, i) : Lacks(Part(X, n, i), r.key)
    BY <1>8 DEF Before, Part, Lacks
  <2>6. Before(X, n, i) \cup Part(X, n, i) = Before(X, n, i + 1)
    BY <1>2, <1>8, <2>1 DEF Before, Part
  <2>7. Lists(f[i] \o seqs[i + 1], Before(X, n, i) \cup Part(X, n, i))
    BY <2>2, <2>3, <2>5, ListsConcat
  <2> QED
    BY <2>1, <2>4, <2>6, <2>7
<1> HIDE DEF S
<1>11. \A i \in 0 .. n - 1 : i \in S
  <2>1. n - 1 \in Nat
    BY <1>2
  <2> QED
    BY <1>9, <1>10, <2>1, UpToAll
<1>12. n - 1 \in S /\ (n - 1) + 1 = n
  BY <1>2, <1>11
<1>13. Lists(f[n], Before(X, n, n))
  BY <1>12 DEF S
<1>14. Before(X, n, n) = X
  BY <1>2, <1>8 DEF Before
<1> QED
  BY <1>6, <1>7, <1>13, <1>14

\* The first i nodes of the list ns.
Upto(ns, i) == {ns[j] : j \in 1 .. i}

\* The next node of the walk has a new key.
LEMMA UptoStep ==
  ASSUME NEW ns, NEW X, Lists(ns, X), NEW i \in 1 .. Len(ns)
  PROVE  /\ ns[i] \in HashNodes /\ Lacks(Upto(ns, i - 1), ns[i].key)
         /\ Upto(ns, i) = Upto(ns, i - 1) \cup {ns[i]}
         /\ Upto(ns, i - 1) \subseteq HashNodes
<1>0. Len(ns) \in Nat /\ i \in Nat
  BY DEF Lists
<1>1. \A j \in 1 .. i - 1 : j \in 1 .. Len(ns) /\ j # i
  BY <1>0
<1>2. \A j \in 1 .. i : j = i \/ j \in 1 .. i - 1
  BY <1>0
<1>3. i \in 1 .. i /\ \A j \in 1 .. i - 1 : j \in 1 .. i
  BY <1>0
<1>4. ns[i] \in HashNodes /\ Lacks(Upto(ns, i - 1), ns[i].key)
  BY <1>1 DEF Lists, Upto, Lacks
<1>5. Upto(ns, i) = Upto(ns, i - 1) \cup {ns[i]}
  BY <1>2, <1>3 DEF Upto
<1>6. Upto(ns, i - 1) \subseteq HashNodes
  BY <1>1 DEF Upto, Lists
<1> QED
  BY <1>4, <1>5, <1>6

\* The walk starts with no node and ends with all.
LEMMA UptoEnds ==
  ASSUME NEW ns, NEW X, Lists(ns, X)
  PROVE  Upto(ns, 0) = {} /\ Upto(ns, Len(ns)) = X /\ Len(ns) \in Nat
  BY DEF Upto, Lists

\* table is the loop of resize over the nodes ns.
Moves(table, ns, n) ==
  /\ table[0] = [b \in 0 .. n - 1 |-> <<>>]
  /\ \A i \in 1 .. Len(ns) : table[i] = [table[i - 1] EXCEPT ![ns[i].key % n] = <<ns[i]>> \o @]

\* Moved is the loop of resize.
LEMMA MovedStep ==
  ASSUME NEW ns \in Seq(HashNodes), NEW n \in Nat \ {0}
  PROVE  \E table : Moves(table, ns, n) /\ Moved(ns, n) = table[Len(ns)]
<1> DEFINE l == Len(ns)
           C == [0 .. n - 1 -> Seq(HashNodes)]
           U == [b \in 0 .. n - 1 |-> <<>>]
           Step(i, x) == [x EXCEPT ![ns[i].key % n] = <<ns[i]>> \o @]
           G == [i \in 1 .. l |-> [x \in C |-> Step(i, x)]]
           Eq(g) == g = [i \in 0 .. l |-> IF i = 0 THEN U ELSE Step(i, g[i - 1])]
<1>1. l \in Nat /\ \A i \in 1 .. l : ns[i] \in HashNodes
  OBVIOUS
<1>2. U \in C
  OBVIOUS
<1>3. ASSUME NEW i \in 1 .. l, NEW x \in C PROVE Step(i, x) \in C
  <2>1. PICK b : b = ns[i].key % n
    OBVIOUS
  <2>2. b \in 0 .. n - 1
    BY <1>1, <2>1, KeysAreNat, Spot DEF HashNodes
  <2>3. <<ns[i]>> \o x[b] \in Seq(HashNodes)
    BY <1>1, <2>2
  <2>4. [x EXCEPT ![b] = <<ns[i]>> \o x[b]] \in C
    BY <2>2, <2>3
  <2> QED
    BY <2>1, <2>4
<1>4. \A i \in 1 .. l : \A x \in C : G[i][x] = Step(i, x)
  OBVIOUS
<1>5. \A i \in 1 .. l : \A x \in C : G[i][x] \in C
  BY <1>3, <1>4
<1> HIDE DEF G, l, C, U, Step
<1>6. PICK w : Rounds(w, l, C, U, G)
  BY <1>1, <1>2, <1>5, RoundsExist
<1>7. w \in [0 .. l -> C] /\ w[0] = U /\ \A i \in 1 .. l : w[i] = G[i][w[i - 1]]
  BY <1>6 DEF Rounds
<1>8. \A i \in 0 .. l : i # 0 => i \in 1 .. l /\ i - 1 \in 0 .. l
  BY <1>1
<1>9. \A i \in 0 .. l : w[i] = IF i = 0 THEN U ELSE Step(i, w[i - 1])
  BY <1>4, <1>7, <1>8
<1>10. w = [i \in 0 .. l |-> w[i]]
  BY <1>7
<1>11. w = [i \in 0 .. l |-> IF i = 0 THEN U ELSE Step(i, w[i - 1])]
  BY <1>9, <1>10, Zenon
<1>12. Eq(w)
  BY <1>11
<1>13. Eq(CHOOSE g : Eq(g))
  BY <1>12, Zenon
<1>14. Moved(ns, n) = (CHOOSE g : Eq(g))[l]
  BY DEF Moved, l, U, Step
<1> HIDE DEF Eq
<1>15. PICK g : g = CHOOSE e : Eq(e)
  OBVIOUS
<1>16. Moved(ns, n) = g[l] /\ Eq(g)
  BY <1>13, <1>14, <1>15, Zenon
<1>17. g = [i \in 0 .. l |-> IF i = 0 THEN U ELSE Step(i, g[i - 1])]
  BY <1>16 DEF Eq
<1>18. g[0] = U
  BY <1>1, <1>17
<1>19. \A i \in 1 .. l : g[i] = Step(i, g[i - 1])
  <2>1. \A i \in 1 .. l : i \in 0 .. l /\ i # 0
    BY <1>1
  <2> QED
    BY <1>17, <2>1
<1>20. Moves(g, ns, n)
  BY <1>18, <1>19 DEF Moves, U, Step, l
<1> QED
  BY <1>16, <1>20 DEF l

\* The nodes that resize moves are in the new table.
LEMMA MovedTable ==
  ASSUME NEW ns, NEW X, Lists(ns, X), NEW n \in Nat \ {0}
  PROVE  Table(Moved(ns, n), n, X)
<1>1. ns \in Seq(HashNodes) /\ Len(ns) \in Nat
  BY DEF Lists
<1>2. PICK table : Moves(table, ns, n) /\ Moved(ns, n) = table[Len(ns)]
  BY <1>1, MovedStep
<1> DEFINE S == {i \in 0 .. Len(ns) : Table(table[i], n, Upto(ns, i))}
<1>3. 0 \in S
  <2>1. Table(table[0], n, {})
    BY <1>2, TableEmpty DEF Moves
  <2>2. Upto(ns, 0) = {}
    BY UptoEnds
  <2>3. Table(table[0], n, Upto(ns, 0))
    BY <2>1, <2>2, Zenon
  <2> QED
    BY <1>1, <2>3
<1>4. ASSUME NEW i \in 1 .. Len(ns), i - 1 \in S PROVE i \in S
  <2>1. i \in 0 .. Len(ns) /\ Table(table[i - 1], n, Upto(ns, i - 1))
    BY <1>4
  <2>2. /\ ns[i] \in HashNodes /\ Lacks(Upto(ns, i - 1), ns[i].key)
        /\ Upto(ns, i) = Upto(ns, i - 1) \cup {ns[i]} /\ Upto(ns, i - 1) \subseteq HashNodes
    BY UptoStep
  <2>3. table[i] = [table[i - 1] EXCEPT ![ns[i].key % n] = <<ns[i]>> \o @]
    BY <1>2 DEF Moves
  <2>4. PICK T, r, Y : T = table[i - 1] /\ r = ns[i] /\ Y = Upto(ns, i - 1)
    OBVIOUS
  <2>5. Table([T EXCEPT ![r.key % n] = <<r>> \o @], n, Y \cup {r})
    BY <2>1, <2>2, <2>4, TableFront
  <2>6. Table(table[i], n, Upto(ns, i))
    BY <2>2, <2>3, <2>4, <2>5
  <2> QED
    BY <2>1, <2>6
<1> HIDE DEF S
<1>5. \A i \in 0 .. Len(ns) : i \in S
  BY <1>1, <1>3, <1>4, UpToAll
<1>6. Len(ns) \in S
  BY <1>1, <1>5
<1>7. Table(table[Len(ns)], n, Upto(ns, Len(ns)))
  BY <1>6 DEF S
<1> QED
  BY <1>2, <1>7, UptoEnds
-----------------------------------------------------------------------------
(* The operations.                                                          *)

\* The table t has the nodes in X, and counts them.
HashOK(t, X) ==
  /\ t = [hashsize |-> t.hashsize, hashtable |-> t.hashtable, nitems |-> t.nitems]
  /\ X \subseteq HashNodes /\ Table(t.hashtable, t.hashsize, X)
  /\ IsFiniteSet(X) /\ t.nitems = Cardinality(X) /\ t.nitems \in Nat

\* A new table has no nodes.
LEMMA EmptyOK ==
  ASSUME NEW n \in Nat \ {0}
  PROVE  HashOK(Empty(n), {}) /\ Empty(n).nitems < 2 * Empty(n).hashsize
  BY TableEmpty, FS_EmptySet DEF HashOK, Empty

\* resize keeps the nodes and makes room.
LEMMA ResizeOK ==
  ASSUME NEW t, NEW X, HashOK(t, X), t.nitems <= 2 * t.hashsize
  PROVE  HashOK(Resize(t), X) /\ Resize(t).nitems < 2 * Resize(t).hashsize
<1>1. t.hashsize \in Nat \ {0} /\ t.nitems \in Nat
  BY DEF HashOK, Table
<1>2. CASE t.nitems < 2 * t.hashsize
  <2>1. Resize(t) = t
    BY <1>2 DEF Resize
  <2> QED
    BY <1>2, <2>1
<1>3. CASE ~ (t.nitems < 2 * t.hashsize)
  <2>1. PICK new : new = NewSize(t.hashsize)
    OBVIOUS
  <2>2. new \in Nat \ {0} /\ new >= 2 * t.hashsize + 1
    BY <1>1, <2>1, NewSizeGrows
  <2>3. Lists(Nodes(t), X)
    BY NodesList DEF HashOK
  <2>4. Table(Moved(Nodes(t), new), new, X)
    BY <2>2, <2>3, MovedTable
  <2>5. Resize(t) = [hashsize |-> new, hashtable |-> Moved(Nodes(t), new), nitems |-> t.nitems]
    BY <1>3, <2>1 DEF Resize
  <2>6. t.nitems < 2 * new
    BY <1>1, <2>2
  <2> QED
    BY <2>4, <2>5, <2>6 DEF HashOK
<1> QED
  BY <1>2, <1>3

\* A key that is in the chain is found at one place.
LEMMA MatchIs ==
  ASSUME NEW c, NEW Y, Lists(c, Y), NEW i \in 1 .. Len(c)
  PROVE  /\ Matches(c, c[i].key) = {i}
         /\ Min(Matches(c, c[i].key)) = i /\ Max(Matches(c, c[i].key)) = i
<1>1. Matches(c, c[i].key) = {i}
  BY DEF Matches, Lists
<1>2. i <= i /\ i >= i
  OBVIOUS
<1> QED
  BY <1>1, <1>2 DEF Min, Max

\* What Chain and Bucket are for the table t with the nodes in X.
LEMMA ChainIs ==
  ASSUME NEW t, NEW X, HashOK(t, X), NEW k \in Keys
  PROVE  /\ t.hashsize \in Nat \ {0} /\ Bucket(t, k) \in 0 .. t.hashsize - 1 /\ Bucket(t, k) = k % t.hashsize
         /\ Chain(t, k) = t.hashtable[Bucket(t, k)]
         /\ Lists(Chain(t, k), Part(X, t.hashsize, Bucket(t, k)))
         /\ \A r \in X : r.key = k => r \in Part(X, t.hashsize, Bucket(t, k))
<1>1. t.hashsize \in Nat \ {0}
  BY DEF HashOK, Table
<1>2. Bucket(t, k) \in 0 .. t.hashsize - 1 /\ Bucket(t, k) = k % t.hashsize
  BY <1>1, KeysAreNat, Spot DEF Bucket
<1>3. Chain(t, k) = t.hashtable[Bucket(t, k)]
  BY DEF Chain
<1>4. Lists(Chain(t, k), Part(X, t.hashsize, Bucket(t, k)))
  BY <1>2, <1>3 DEF HashOK, Table
<1>5. \A r \in X : r.key = k => r \in Part(X, t.hashsize, Bucket(t, k))
  BY <1>2 DEF Part
<1> QED
  BY <1>1, <1>2, <1>3, <1>4, <1>5

\* A key is found exactly if a node has it.
LEMMA Found ==
  ASSUME NEW t, NEW X, HashOK(t, X), NEW k \in Keys
  PROVE  \/ Lacks(X, k) /\ Matches(Chain(t, k), k) = {}
         \/ \E i \in 1 .. Len(Chain(t, k)) :
              /\ Chain(t, k)[i] \in X /\ Chain(t, k)[i].key = k /\ Matches(Chain(t, k), k) = {i}
              /\ Min(Matches(Chain(t, k), k)) = i /\ Max(Matches(Chain(t, k), k)) = i
<1>1. PICK c, Y : c = Chain(t, k) /\ Y = Part(X, t.hashsize, Bucket(t, k))
  OBVIOUS
<1>2. Lists(c, Y) /\ (\A r \in X : r.key = k => r \in Y) /\ Y \subseteq X
  BY <1>1, ChainIs DEF Part
<1>3. CASE \E i \in 1 .. Len(c) : c[i].key = k
  <2>1. PICK i \in 1 .. Len(c) : c[i].key = k
    BY <1>3
  <2>2. Matches(c, k) = {i} /\ Min(Matches(c, k)) = i /\ Max(Matches(c, k)) = i
    BY <1>2, <2>1, MatchIs
  <2>3. c[i] \in X
    BY <1>2 DEF Lists
  <2> QED
    BY <1>1, <2>1, <2>2, <2>3
<1>4. CASE ~ \E i \in 1 .. Len(c) : c[i].key = k
  <2>1. Matches(c, k) = {}
    BY <1>4 DEF Matches
  <2>2. Lacks(X, k)
    BY <1>2, <1>4 DEF Lacks, Lists
  <2> QED
    BY <1>1, <2>1, <2>2
<1> QED
  BY <1>3, <1>4

\* Has is true of the keys of the nodes.
LEMMA HasIs ==
  ASSUME NEW t, NEW X, HashOK(t, X), NEW k \in Keys
  PROVE  Has(t, k) <=> ~ Lacks(X, k)
  BY Found DEF Has, Lacks

\* Hash_getattr finds the object of the node with the key.
LEMMA GetIs ==
  ASSUME NEW t, NEW X, HashOK(t, X), NEW k \in Keys
  PROVE  /\ \A r \in X : r.key = k => Get(t, k) = r.val
         /\ Lacks(X, k) => Get(t, k) = Null
         /\ Get(t, k) # Null <=> ~ Lacks(X, k)
<1>1. CASE Lacks(X, k) /\ Matches(Chain(t, k), k) = {}
  BY <1>1 DEF Get, Lacks
<1>2. CASE \E i \in 1 .. Len(Chain(t, k)) :
              /\ Chain(t, k)[i] \in X /\ Chain(t, k)[i].key = k /\ Matches(Chain(t, k), k) = {i}
              /\ Max(Matches(Chain(t, k), k)) = i
  <2>1. PICK i \in 1 .. Len(Chain(t, k)) :
              /\ Chain(t, k)[i] \in X /\ Chain(t, k)[i].key = k /\ Matches(Chain(t, k), k) = {i}
              /\ Max(Matches(Chain(t, k), k)) = i
    BY <1>2
  <2>2. Get(t, k) = Chain(t, k)[i].val
    BY <2>1 DEF Get
  <2>3. \A r \in X : r.key = k => r = Chain(t, k)[i]
    BY <2>1, TableNodes DEF HashOK
  <2>4. Chain(t, k)[i].val # Null
    BY <2>1, KeysAreNat DEF HashOK, HashNodes, Null
  <2> QED
    BY <2>1, <2>2, <2>3, <2>4 DEF Lacks
<1> QED
  BY <1>1, <1>2, Found

\* Chain b of t is replaced by c.
Relinked(t, b, c, n) == [hashsize |-> t.hashsize, hashtable |-> [t.hashtable EXCEPT ![b] = c], nitems |-> n]

\* Replacing the chain of the key k changes the nodes with the key k only.
LEMMA RelinkedOK ==
  ASSUME NEW t, NEW X, HashOK(t, X), NEW k \in Keys, NEW c, NEW Z, Z \subseteq HashNodes, IsFiniteSet(Z),
         Lists(c, Part(Z, t.hashsize, Bucket(t, k))),
         \A r : r.key # k => (r \in Z <=> r \in X)
  PROVE  HashOK(Relinked(t, Bucket(t, k), c, Cardinality(Z)), Z)
<1>1. Bucket(t, k) \in 0 .. t.hashsize - 1 /\ Bucket(t, k) = k % t.hashsize
  BY ChainIs
<1>2. \A r : r.key % t.hashsize # Bucket(t, k) => (r \in Z <=> r \in X)
  BY <1>1
<1>3. Table([t.hashtable EXCEPT ![Bucket(t, k)] = c], t.hashsize, Z)
  BY <1>1, <1>2, TableStep DEF HashOK
<1>4. Cardinality(Z) \in Nat
  BY FS_CardinalityType
<1> QED
  BY <1>3, <1>4 DEF HashOK, Relinked

\* The nodes when k is set to v, and when it is deleted.
Without(X, k) == {r \in X : r.key # k}
With(X, k, v) == Without(X, k) \cup {[key |-> k, val |-> v]}

\* Without a key there is one node less, if a node had the key.
LEMMA WithoutSize ==
  ASSUME NEW X, X \subseteq HashNodes, IsFiniteSet(X), \A r, s \in X : r.key = s.key => r = s, NEW k
  PROVE  /\ IsFiniteSet(Without(X, k)) /\ Without(X, k) \subseteq HashNodes
         /\ Lacks(X, k) => Without(X, k) = X
         /\ \A r \in X : r.key = k => Without(X, k) = X \ {r} /\ Cardinality(Without(X, k)) = Cardinality(X) - 1
<1>1. IsFiniteSet(Without(X, k)) /\ Without(X, k) \subseteq HashNodes
  BY FS_Subset DEF Without
<1>2. Lacks(X, k) => Without(X, k) = X
  BY DEF Without, Lacks
<1>3. ASSUME NEW r \in X, r.key = k
      PROVE  Without(X, k) = X \ {r} /\ Cardinality(Without(X, k)) = Cardinality(X) - 1
  <2>1. Without(X, k) = X \ {r}
    BY <1>3 DEF Without
  <2>2. Cardinality(X \ {r}) = Cardinality(X) - 1
    BY FS_RemoveElement
  <2> QED
    BY <2>1, <2>2
<1> QED
  BY <1>1, <1>2, <1>3

\* With a key there is one node more, if no node had the key.
LEMMA WithSize ==
  ASSUME NEW X, X \subseteq HashNodes, IsFiniteSet(X), \A r, s \in X : r.key = s.key => r = s,
         NEW k \in Keys, NEW v \in Vals
  PROVE  /\ IsFiniteSet(With(X, k, v)) /\ With(X, k, v) \subseteq HashNodes /\ Cardinality(X) \in Nat
         /\ Lacks(X, k) => Cardinality(With(X, k, v)) = Cardinality(X) + 1
         /\ ~ Lacks(X, k) => Cardinality(With(X, k, v)) = Cardinality(X)
<1>1. PICK n, W : n = [key |-> k, val |-> v] /\ W = Without(X, k)
  OBVIOUS
<1>2. n \in HashNodes /\ n \notin W /\ With(X, k, v) = W \cup {n}
  BY <1>1 DEF HashNodes, Without, With
<1>3. IsFiniteSet(W) /\ W \subseteq HashNodes
  BY <1>1, WithoutSize
<1>4. IsFiniteSet(W \cup {n}) /\ Cardinality(W \cup {n}) = Cardinality(W) + 1
  BY <1>2, <1>3, FS_AddElement
<1>5. Cardinality(X) \in Nat
  BY FS_CardinalityType
<1>6. Lacks(X, k) => Cardinality(With(X, k, v)) = Cardinality(X) + 1
  BY <1>1, <1>2, <1>4, WithoutSize
<1>7. ASSUME ~ Lacks(X, k) PROVE Cardinality(With(X, k, v)) = Cardinality(X)
  <2>1. PICK r \in X : r.key = k
    BY <1>7 DEF Lacks
  <2>2. Cardinality(W) = Cardinality(X) - 1
    BY <1>1, <2>1, WithoutSize
  <2> QED
    BY <1>2, <1>4, <1>5, <2>2
<1> QED
  BY <1>2, <1>3, <1>4, <1>5, <1>6, <1>7

\* The place of key k in the chain c.
Place(c, k, i) == i \in 1 .. Len(c) /\ c[i].key = k /\ Matches(c, k) = {i} /\ Min(Matches(c, k)) = i

\* A key of the table has a place in its chain.
LEMMA PlaceIs ==
  ASSUME NEW t, NEW X, HashOK(t, X), NEW k \in Keys, ~ Lacks(X, k)
  PROVE  \E i : Place(Chain(t, k), k, i) /\ Chain(t, k)[i] \in X
  BY Found DEF Place

\* Hash_setattr for a key that is there.
LEMMA SetFound ==
  ASSUME NEW t, NEW X, HashOK(t, X), NEW k \in Keys, NEW v \in Vals, NEW i, Place(Chain(t, k), k, i)
  PROVE  Set(t, k, v) = Relinked(t, Bucket(t, k), [Chain(t, k) EXCEPT ![i].val = v], t.nitems)
<1>1. PICK b, c : b = Bucket(t, k) /\ c = Chain(t, k)
  OBVIOUS
<1>2. Set(t, k, v) = [t EXCEPT !.hashtable[b][i].val = v]
  BY <1>1 DEF Set, Place
<1>3. c = t.hashtable[b]
  BY <1>1 DEF Chain
<1>4. PICK d : d = [c EXCEPT ![i].val = v]
  OBVIOUS
<1>5. [t EXCEPT !.hashtable[b][i].val = v] = [t EXCEPT !.hashtable = [t.hashtable EXCEPT ![b] = d]]
  BY <1>3, <1>4
<1>6. t = [hashsize |-> t.hashsize, hashtable |-> t.hashtable, nitems |-> t.nitems]
  BY DEF HashOK
<1>7. \A T : [t EXCEPT !.hashtable = T] = [hashsize |-> t.hashsize, hashtable |-> T, nitems |-> t.nitems]
  BY <1>6
<1> QED
  BY <1>1, <1>2, <1>4, <1>5, <1>7 DEF Relinked

\* A table of which two fields are assigned.
LEMMA TwoFields ==
  ASSUME NEW t, NEW T, NEW m, t = [hashsize |-> t.hashsize, hashtable |-> t.hashtable, nitems |-> t.nitems]
  PROVE  [t EXCEPT !.hashtable = T, !.nitems = m] = [hashsize |-> t.hashsize, hashtable |-> T, nitems |-> m]
<1>1. [t EXCEPT !.hashtable = T] = [hashsize |-> t.hashsize, hashtable |-> T, nitems |-> t.nitems]
  OBVIOUS
<1>2. PICK u : u = [hashsize |-> t.hashsize, hashtable |-> T, nitems |-> t.nitems]
  OBVIOUS
<1>3. [u EXCEPT !.nitems = m] = [hashsize |-> t.hashsize, hashtable |-> T, nitems |-> m]
  BY <1>2
<1> QED
  BY <1>1, <1>2, <1>3

\* Hash_setattr for a new key.
LEMMA SetNew ==
  ASSUME NEW t, NEW X, HashOK(t, X), NEW k \in Keys, NEW v \in Vals, Lacks(X, k)
  PROVE  Set(t, k, v) = Resize(Relinked(t, Bucket(t, k), Append(Chain(t, k), [key |-> k, val |-> v]), t.nitems + 1))
<1>1. PICK b, c : b = Bucket(t, k) /\ c = Chain(t, k)
  OBVIOUS
<1>2. Matches(c, k) = {}
  BY <1>1, Found DEF Lacks
<1>3. PICK r : r = [key |-> k, val |-> v]
  OBVIOUS
<1>4. Set(t, k, v) = Resize([t EXCEPT !.hashtable[b] = Append(@, r), !.nitems = @ + 1])
  BY <1>1, <1>2, <1>3 DEF Set
<1>5. t = [hashsize |-> t.hashsize, hashtable |-> t.hashtable, nitems |-> t.nitems] /\ c = t.hashtable[b]
  BY <1>1 DEF HashOK, Chain
<1>6. [t EXCEPT !.hashtable[b] = Append(@, r), !.nitems = @ + 1]
        = [hashsize |-> t.hashsize, hashtable |-> [t.hashtable EXCEPT ![b] = Append(c, r)], nitems |-> t.nitems + 1]
  <2>1. PICK T : T = [t.hashtable EXCEPT ![b] = Append(c, r)]
    OBVIOUS
  <2>2. [t EXCEPT !.hashtable = T, !.nitems = t.nitems + 1]
          = [hashsize |-> t.hashsize, hashtable |-> T, nitems |-> t.nitems + 1]
    BY <1>5, TwoFields
  <2> QED
    BY <1>5, <2>1, <2>2
<1> QED
  BY <1>1, <1>3, <1>4, <1>6 DEF Relinked

\* Hash_delattr for a key that is there.
LEMMA DelFound ==
  ASSUME NEW t, NEW X, HashOK(t, X), NEW k \in Keys, NEW i, Place(Chain(t, k), k, i)
  PROVE  Del(t, k) = Relinked(t, Bucket(t, k), RemoveAt(Chain(t, k), i), t.nitems - 1)
<1>1. PICK b, c : b = Bucket(t, k) /\ c = Chain(t, k)
  OBVIOUS
<1>2. Del(t, k) = [t EXCEPT !.hashtable[b] = RemoveAt(@, i), !.nitems = @ - 1]
  BY <1>1 DEF Del, Place
<1>3. t = [hashsize |-> t.hashsize, hashtable |-> t.hashtable, nitems |-> t.nitems] /\ c = t.hashtable[b]
  BY <1>1 DEF HashOK, Chain
<1>4. [t EXCEPT !.hashtable[b] = RemoveAt(@, i), !.nitems = @ - 1]
        = [hashsize |-> t.hashsize, hashtable |-> [t.hashtable EXCEPT ![b] = RemoveAt(c, i)], nitems |-> t.nitems - 1]
  <2>1. PICK T : T = [t.hashtable EXCEPT ![b] = RemoveAt(c, i)]
    OBVIOUS
  <2>2. [t EXCEPT !.hashtable = T, !.nitems = t.nitems - 1]
          = [hashsize |-> t.hashsize, hashtable |-> T, nitems |-> t.nitems - 1]
    BY <1>3, TwoFields
  <2> QED
    BY <1>3, <2>1, <2>2
<1> QED
  BY <1>1, <1>2, <1>4 DEF Relinked

\* Hash_delattr for a key that is not there.
LEMMA DelNew ==
  ASSUME NEW t, NEW X, HashOK(t, X), NEW k \in Keys, Lacks(X, k)
  PROVE  Del(t, k) = t
  BY Found DEF Del, Lacks

\* What the invariant needs of a table between two calls.
Roomy(t) == t.nitems < 2 * t.hashsize

\* Hash_setattr sets the key, and no other.
LEMMA SetOK ==
  ASSUME NEW t, NEW X, HashOK(t, X), Roomy(t), NEW k \in Keys, NEW v \in Vals
  PROVE  HashOK(Set(t, k, v), With(X, k, v)) /\ Roomy(Set(t, k, v))
<1> DEFINE Z == With(X, k, v)
           r == [key |-> k, val |-> v]
           b == Bucket(t, k)
           c == Chain(t, k)
           n == t.hashsize
<1>1. /\ n \in Nat \ {0} /\ b \in 0 .. n - 1 /\ b = k % n /\ Lists(c, Part(X, n, b)) /\ r \in HashNodes /\ r.key = k
  BY ChainIs DEF HashNodes
<1>2. /\ X \subseteq HashNodes /\ IsFiniteSet(X) /\ t.nitems = Cardinality(X) /\ t.nitems \in Nat
      /\ \A x, s \in X : x.key = s.key => x = s
  BY TableNodes DEF HashOK
<1>3. /\ IsFiniteSet(Z) /\ Z \subseteq HashNodes /\ (Lacks(X, k) => Cardinality(Z) = t.nitems + 1)
      /\ (~ Lacks(X, k) => Cardinality(Z) = t.nitems)
  BY <1>2, WithSize
<1>4. \A s : s.key # k => (s \in Z <=> s \in X)
  BY DEF With, Without
<1>5. Part(Z, n, b) = Without(Part(X, n, b), k) \cup {r}
  BY <1>1 DEF With, Without, Part
<1> HIDE DEF Z, r, b, c
<1>6. CASE Lacks(X, k)
  <2>1. Lacks(Part(X, n, b), r.key) /\ Without(Part(X, n, b), k) = Part(X, n, b)
    BY <1>1, <1>6 DEF Lacks, Part, Without
  <2>2. Lists(Append(c, r), Part(Z, n, b))
    BY <1>1, <1>5, <2>1, ListsAppend
  <2>3. PICK u : u = Relinked(t, b, Append(c, r), t.nitems + 1)
    OBVIOUS
  <2>4. HashOK(u, Z)
    BY <1>3, <1>4, <1>6, <2>2, <2>3, RelinkedOK DEF b
  <2>5. u.nitems <= 2 * u.hashsize
    BY <1>1, <1>2, <2>3 DEF Roomy, Relinked
  <2>6. Set(t, k, v) = Resize(u)
    BY <1>6, <2>3, SetNew DEF b, c, r
  <2> QED
    BY <2>4, <2>5, <2>6, ResizeOK DEF Roomy, Z
<1>7. CASE ~ Lacks(X, k)
  <2>1. PICK i : Place(c, k, i)
    BY <1>7, PlaceIs DEF c
  <2>2. i \in 1 .. Len(c) /\ c[i].key = k
    BY <2>1 DEF Place
  <2>3. c[i] \in Part(X, n, b)
    BY <1>1, <2>2 DEF Lists
  <2>4. Part(X, n, b) \ {c[i]} = Without(Part(X, n, b), k)
    BY <1>1, <2>2, <2>3, ListsUnique DEF Without
  <2>5. Lists([c EXCEPT ![i].val = v], Part(Z, n, b))
    BY <1>1, <1>5, <2>2, <2>4, ListsReplace DEF r
  <2>6. HashOK(Relinked(t, b, [c EXCEPT ![i].val = v], t.nitems), Z)
    BY <1>3, <1>4, <1>7, <2>5, RelinkedOK DEF b
  <2>7. Set(t, k, v) = Relinked(t, b, [c EXCEPT ![i].val = v], t.nitems)
    BY <2>1, SetFound DEF b, c
  <2>8. Roomy(Relinked(t, b, [c EXCEPT ![i].val = v], t.nitems))
    BY DEF Roomy, Relinked
  <2> QED
    BY <2>6, <2>7, <2>8 DEF Z
<1> QED
  BY <1>6, <1>7

\* Hash_delattr removes the key, and no other.
LEMMA DelOK ==
  ASSUME NEW t, NEW X, HashOK(t, X), Roomy(t), NEW k \in Keys
  PROVE  HashOK(Del(t, k), Without(X, k)) /\ Roomy(Del(t, k))
<1> DEFINE Z == Without(X, k)
           b == Bucket(t, k)
           c == Chain(t, k)
           n == t.hashsize
<1>1. /\ n \in Nat \ {0} /\ b \in 0 .. n - 1 /\ b = k % n /\ Lists(c, Part(X, n, b))
  BY ChainIs
<1>2. /\ X \subseteq HashNodes /\ IsFiniteSet(X) /\ t.nitems = Cardinality(X) /\ t.nitems \in Nat
      /\ \A x, s \in X : x.key = s.key => x = s
  BY TableNodes DEF HashOK
<1>3. /\ IsFiniteSet(Z) /\ Z \subseteq HashNodes /\ (Lacks(X, k) => Z = X)
      /\ \A r \in X : r.key = k => Cardinality(Z) = Cardinality(X) - 1
  BY <1>2, WithoutSize
<1>4. \A s : s.key # k => (s \in Z <=> s \in X)
  BY DEF Without
<1>5. Part(Z, n, b) = Without(Part(X, n, b), k)
  BY DEF Without, Part
<1> HIDE DEF Z, b, c
<1>6. CASE Lacks(X, k)
  BY <1>3, <1>6, DelNew DEF Z
<1>7. CASE ~ Lacks(X, k)
  <2>1. PICK i : Place(c, k, i)
    BY <1>7, PlaceIs DEF c
  <2>2. i \in 1 .. Len(c) /\ c[i].key = k
    BY <2>1 DEF Place
  <2>3. c[i] \in Part(X, n, b) /\ c[i] \in X
    BY <1>1, <2>2 DEF Lists, Part
  <2>4. Part(X, n, b) \ {c[i]} = Without(Part(X, n, b), k)
    BY <1>1, <2>2, <2>3, ListsUnique DEF Without
  <2>5. Lists(RemoveAt(c, i), Part(Z, n, b))
    BY <1>1, <1>5, <2>2, <2>4, ListsRemove
  <2>6. Cardinality(Z) = t.nitems - 1
    BY <1>2, <1>3, <2>2, <2>3
  <2>7. HashOK(Relinked(t, b, RemoveAt(c, i), t.nitems - 1), Z)
    BY <1>3, <1>4, <2>5, <2>6, RelinkedOK DEF b
  <2>8. Del(t, k) = Relinked(t, b, RemoveAt(c, i), t.nitems - 1)
    BY <2>1, DelFound DEF b, c
  <2>9. Roomy(Relinked(t, b, RemoveAt(c, i), t.nitems - 1))
    BY <1>1, <1>2 DEF Roomy, Relinked
  <2> QED
    BY <2>7, <2>8, <2>9 DEF Z
<1> QED
  BY <1>6, <1>7

\* copy is the loop of CopyHash over the nodes ns, in a table of size n.
Copies(copy, ns, n) ==
  /\ copy[0] = Empty(n)
  /\ \A i \in 1 .. Len(ns) : copy[i] = Set(copy[i - 1], ns[i].key, ns[i].val)

Tables == [hashsize : Nat, hashtable : UNION {[0 .. n - 1 -> Seq(HashNodes)] : n \in Nat}, nitems : Nat]
Sound  == {t \in Tables : Roomy(t) /\ \E X : HashOK(t, X)}

\* The tables that the copying loop goes through are members of one set.
LEMMA SoundIs ==
  ASSUME NEW t, NEW X, HashOK(t, X), Roomy(t)
  PROVE  t \in Sound
<1>1. PICK n, T, m : n = t.hashsize /\ T = t.hashtable /\ m = t.nitems
  OBVIOUS
<1>2. t = [hashsize |-> n, hashtable |-> T, nitems |-> m] /\ Table(T, n, X) /\ m \in Nat
  BY <1>1 DEF HashOK
<1>3. n \in Nat /\ T = [b \in 0 .. n - 1 |-> T[b]] /\ \A b \in 0 .. n - 1 : T[b] \in Seq(HashNodes)
  BY <1>2 DEF Table, Lists
<1>4. T \in [0 .. n - 1 -> Seq(HashNodes)]
  BY <1>3
<1>5. T \in UNION {[0 .. l - 1 -> Seq(HashNodes)] : l \in Nat}
  BY <1>3, <1>4
<1>6. t \in Tables
  BY <1>2, <1>3, <1>5 DEF Tables
<1> QED
  BY <1>6 DEF Sound

\* Copy is the loop of CopyHash.
LEMMA CopyStep ==
  ASSUME NEW t, NEW n \in Nat \ {0}, n = t.hashsize, NEW ns \in Seq(HashNodes), ns = Nodes(t)
  PROVE  \E copy : Copies(copy, ns, n) /\ Copy(t) = copy[Len(ns)]
<1> DEFINE l == Len(ns)
           U == Empty(n)
           Step(i, x) == Set(x, ns[i].key, ns[i].val)
           G == [i \in 1 .. l |-> [x \in Sound |-> Step(i, x)]]
           Eq(g) == g = [i \in 0 .. l |-> IF i = 0 THEN U ELSE Step(i, g[i - 1])]
<1>1. l \in Nat /\ \A i \in 1 .. l : ns[i].key \in Keys /\ ns[i].val \in Vals
  <2>1. l \in Nat /\ \A i \in 1 .. l : ns[i] \in HashNodes
    OBVIOUS
  <2>2. \A r \in HashNodes : r.key \in Keys /\ r.val \in Vals
    BY DEF HashNodes
  <2> QED
    BY <2>1, <2>2
<1>2. U \in Sound
  BY EmptyOK, SoundIs DEF Roomy
<1>3. ASSUME NEW i \in 1 .. l, NEW x \in Sound PROVE Step(i, x) \in Sound
  <2>1. PICK X : HashOK(x, X) /\ Roomy(x)
    BY DEF Sound
  <2>2. PICK k \in Keys, v \in Vals : k = ns[i].key /\ v = ns[i].val
    BY <1>1
  <2>3. HashOK(Set(x, k, v), With(X, k, v)) /\ Roomy(Set(x, k, v))
    BY <2>1, SetOK
  <2> QED
    BY <2>2, <2>3, SoundIs
<1>4. \A i \in 1 .. l : \A x \in Sound : G[i][x] = Step(i, x)
  OBVIOUS
<1>5. \A i \in 1 .. l : \A x \in Sound : G[i][x] \in Sound
  BY <1>3, <1>4
<1> HIDE DEF G, l, U, Step
<1>6. PICK w : Rounds(w, l, Sound, U, G)
  BY <1>1, <1>2, <1>5, RoundsExist
<1>7. w \in [0 .. l -> Sound] /\ w[0] = U /\ \A i \in 1 .. l : w[i] = G[i][w[i - 1]]
  BY <1>6 DEF Rounds
<1>8. \A i \in 0 .. l : i # 0 => i \in 1 .. l /\ i - 1 \in 0 .. l
  BY <1>1
<1>9. \A i \in 0 .. l : w[i] = IF i = 0 THEN U ELSE Step(i, w[i - 1])
  BY <1>4, <1>7, <1>8
<1>10. w = [i \in 0 .. l |-> w[i]]
  BY <1>7
<1>11. w = [i \in 0 .. l |-> IF i = 0 THEN U ELSE Step(i, w[i - 1])]
  BY <1>9, <1>10, Zenon
<1>12. Eq(w)
  BY <1>11
<1>13. Eq(CHOOSE g : Eq(g))
  BY <1>12, Zenon
<1>14. Copy(t) = (CHOOSE g : Eq(g))[l]
  BY DEF Copy, l, U, Step
<1> HIDE DEF Eq
<1>15. PICK g : g = CHOOSE e : Eq(e)
  OBVIOUS
<1>16. Copy(t) = g[l] /\ Eq(g)
  BY <1>13, <1>14, <1>15, Zenon
<1>17. g = [i \in 0 .. l |-> IF i = 0 THEN U ELSE Step(i, g[i - 1])]
  BY <1>16 DEF Eq
<1>18. g[0] = U
  BY <1>1, <1>17
<1>19. \A i \in 1 .. l : g[i] = Step(i, g[i - 1])
  <2>1. \A i \in 1 .. l : i \in 0 .. l /\ i # 0
    BY <1>1
  <2> QED
    BY <1>17, <2>1
<1>20. Copies(g, ns, n)
  BY <1>18, <1>19 DEF Copies, U, Step, l
<1> QED
  BY <1>16, <1>20 DEF l

\* CopyHash makes a table with the same nodes.
LEMMA CopyOK ==
  ASSUME NEW t, NEW X, HashOK(t, X)
  PROVE  HashOK(Copy(t), X) /\ Roomy(Copy(t))
<1>1. PICK n, ns : n = t.hashsize /\ ns = Nodes(t)
  OBVIOUS
<1>2. n \in Nat \ {0} /\ Lists(ns, X)
  BY <1>1, NodesList DEF HashOK, Table
<1>3. ns \in Seq(HashNodes) /\ Len(ns) \in Nat
  BY <1>2 DEF Lists
<1>4. PICK copy : Copies(copy, ns, n) /\ Copy(t) = copy[Len(ns)]
  BY <1>1, <1>2, <1>3, CopyStep
<1> DEFINE S == {i \in 0 .. Len(ns) : HashOK(copy[i], Upto(ns, i)) /\ Roomy(copy[i])}
<1>5. 0 \in S
  <2>1. HashOK(copy[0], {}) /\ Roomy(copy[0])
    BY <1>2, <1>4, EmptyOK DEF Copies, Roomy
  <2>2. Upto(ns, 0) = {}
    BY <1>2, UptoEnds
  <2>3. HashOK(copy[0], Upto(ns, 0))
    BY <2>1, <2>2, Zenon
  <2> QED
    BY <1>3, <2>1, <2>3
<1>6. ASSUME NEW i \in 1 .. Len(ns), i - 1 \in S PROVE i \in S
  <2>1. i \in 0 .. Len(ns) /\ HashOK(copy[i - 1], Upto(ns, i - 1)) /\ Roomy(copy[i - 1])
    BY <1>6
  <2>2. /\ ns[i] \in HashNodes /\ Lacks(Upto(ns, i - 1), ns[i].key)
        /\ Upto(ns, i) = Upto(ns, i - 1) \cup {ns[i]}
    BY <1>2, UptoStep
  <2>3. copy[i] = Set(copy[i - 1], ns[i].key, ns[i].val)
    BY <1>4 DEF Copies
  <2>4. PICK c, r, Y : c = copy[i - 1] /\ r = ns[i] /\ Y = Upto(ns, i - 1)
    OBVIOUS
  <2>5. r.key \in Keys /\ r.val \in Vals /\ r = [key |-> r.key, val |-> r.val]
    BY <2>2, <2>4 DEF HashNodes
  <2>6. HashOK(Set(c, r.key, r.val), With(Y, r.key, r.val)) /\ Roomy(Set(c, r.key, r.val))
    BY <2>1, <2>4, <2>5, SetOK
  <2>7. With(Y, r.key, r.val) = Y \cup {r}
    BY <2>2, <2>4, <2>5 DEF With, Without, Lacks
  <2>8. HashOK(copy[i], Upto(ns, i)) /\ Roomy(copy[i])
    BY <2>2, <2>3, <2>4, <2>6, <2>7
  <2> QED
    BY <2>1, <2>8
<1> HIDE DEF S
<1>7. \A i \in 0 .. Len(ns) : i \in S
  BY <1>3, <1>5, <1>6, UpToAll
<1>8. Len(ns) \in S
  BY <1>3, <1>7
<1>9. HashOK(copy[Len(ns)], Upto(ns, Len(ns))) /\ Roomy(copy[Len(ns)])
  BY <1>8 DEF S
<1> QED
  BY <1>2, <1>4, <1>9, UptoEnds
-----------------------------------------------------------------------------
(* The iterator.                                                            *)

\* Rest for the table t, the index x, the saved node sv and the key a.
RestOf(t, x, sv, a) ==
  LET c == t.hashtable[x]
      here == {c[j].key : j \in {i \in 1 .. Len(c) : sv # Null /\ \E s \in Matches(c, sv) : i >= s}}
      later == UNION {{t.hashtable[b][i].key : i \in DOMAIN t.hashtable[b]} : b \in x + 1 .. t.hashsize - 1}
  IN  IF a # Null THEN here \cup later ELSE {}

\* The keys of the chain c from node i on, and those of the chains from b on.
From(c, i)  == {c[j].key : j \in i .. Len(c)}
Ahead(t, b) == {k \in Keys : \E d \in b .. t.hashsize - 1 : \E i \in 1 .. Len(t.hashtable[d]) : t.hashtable[d][i].key = k}

\* What the loop has still to meet, by where its saved node is.
LEMMA RestIs ==
  ASSUME NEW t, NEW X, HashOK(t, X), NEW x \in 0 .. t.hashsize - 1, NEW sv, NEW a, a # Null
  PROVE  /\ sv = Null => RestOf(t, x, sv, a) = Ahead(t, x + 1)
         /\ \A s : sv # Null /\ Place(t.hashtable[x], sv, s) =>
                     RestOf(t, x, sv, a) = From(t.hashtable[x], s) \cup Ahead(t, x + 1)
<1> DEFINE c == t.hashtable[x]
           n == t.hashsize
           here == {c[j].key : j \in {i \in 1 .. Len(c) : sv # Null /\ \E s \in Matches(c, sv) : i >= s}}
           later == UNION {{t.hashtable[b][i].key : i \in DOMAIN t.hashtable[b]} : b \in x + 1 .. n - 1}
<1>1. RestOf(t, x, sv, a) = here \cup later
  BY DEF RestOf
<1>2. n \in Nat \ {0} /\ \A b \in 0 .. n - 1 : t.hashtable[b] \in Seq(HashNodes)
  BY DEF HashOK, Table, Lists
<1>3. later = Ahead(t, x + 1)
  <2>1. \A b \in x + 1 .. n - 1 : b \in 0 .. n - 1
    BY <1>2
  <2>2. \A b \in x + 1 .. n - 1 : DOMAIN t.hashtable[b] = 1 .. Len(t.hashtable[b])
    BY <1>2, <2>1
  <2>3. \A b \in x + 1 .. n - 1 : \A i \in 1 .. Len(t.hashtable[b]) : t.hashtable[b][i] \in HashNodes
    BY <1>2, <2>1
  <2>4. \A b \in x + 1 .. n - 1 : \A i \in 1 .. Len(t.hashtable[b]) : t.hashtable[b][i].key \in Keys
    BY <2>3 DEF HashNodes
  <2> QED
    BY <2>2, <2>4 DEF Ahead
<1>4. sv = Null => here = {}
  OBVIOUS
<1>5. ASSUME NEW s, sv # Null, Place(c, sv, s) PROVE here = From(c, s)
  <2>1. Matches(c, sv) = {s} /\ s \in 1 .. Len(c)
    BY <1>5 DEF Place
  <2>2. Len(c) \in Nat
    BY <1>2
  <2>3. {i \in 1 .. Len(c) : sv # Null /\ \E e \in Matches(c, sv) : i >= e} = s .. Len(c)
    BY <1>5, <2>1, <2>2
  <2> QED
    BY <2>3 DEF From
<1> QED
  BY <1>1, <1>3, <1>4, <1>5

IterOK(t, x, sv, a) ==
  /\ a \in Keys \cup {Null} /\ sv \in Keys \cup {Null}
  /\ a = Null => sv = Null
  /\ a # Null => x \in 0 .. t.hashsize - 1
  /\ sv # Null => \E s : Place(t.hashtable[x], sv, s)

\* The iterator of a loop of kind lp in the table t with the nodes in X.  Once the table
\* has grown, the saved node is still there, but in any chain.
LoopOK(t, X, x, sv, a, lp) ==
  /\ lp \in {"exact", "moved", "freed"}
  /\ a \in Keys \cup {Null} /\ sv \in Keys \cup {Null}
  /\ a = Null => lp = "exact" /\ sv = Null
  /\ a # Null => x \in 0 .. t.hashsize - 1
  /\ lp = "exact" => IterOK(t, x, sv, a)
  /\ lp # "freed" /\ sv # Null => ~ Lacks(X, sv) /\ sv # a

\* The table has nodes X and the iterator is in it.
InvWith(X) == HashOK(h, X) /\ Roomy(h) /\ LoopOK(h, X, index, saved, at, loop)
Inv == \E X : InvWith(X)

\* Every node is at one place of its chain.
LEMMA PlaceOf ==
  ASSUME NEW t, NEW X, HashOK(t, X), NEW b \in 0 .. t.hashsize - 1, NEW i \in 1 .. Len(t.hashtable[b])
  PROVE  Place(t.hashtable[b], t.hashtable[b][i].key, i) /\ t.hashtable[b][i] \in X /\ t.hashtable[b][i].key \in Keys
<1>1. PICK c, Y : c = t.hashtable[b] /\ Y = Part(X, t.hashsize, b)
  OBVIOUS
<1>2. Lists(c, Y)
  BY <1>1 DEF HashOK, Table
<1>3. Place(c, c[i].key, i)
  BY <1>1, <1>2, MatchIs DEF Place
<1>4. c[i] \in X
  BY <1>1, <1>2 DEF Lists, Part
<1>5. c[i].key \in Keys
  BY <1>4 DEF HashOK, HashNodes
<1> QED
  BY <1>1, <1>3, <1>4, <1>5

\* A key is in one chain only.
LEMMA OneChain ==
  ASSUME NEW t, NEW X, HashOK(t, X), NEW b \in 0 .. t.hashsize - 1, NEW i \in 1 .. Len(t.hashtable[b])
  PROVE  t.hashtable[b][i].key \notin Ahead(t, b + 1)
<1> SUFFICES ASSUME t.hashtable[b][i].key \in Ahead(t, b + 1) PROVE FALSE
  OBVIOUS
<1>1. t.hashsize \in Nat \ {0} /\ \A d \in 0 .. t.hashsize - 1 : Lists(t.hashtable[d], Part(X, t.hashsize, d))
  BY DEF HashOK, Table
<1>2. PICK d, j : d \in b + 1 .. t.hashsize - 1 /\ j \in 1 .. Len(t.hashtable[d]) /\ t.hashtable[d][j].key = t.hashtable[b][i].key
  BY DEF Ahead
<1>3. d \in 0 .. t.hashsize - 1 /\ d # b
  BY <1>1, <1>2
<1>4. t.hashtable[d][j] \in Part(X, t.hashsize, d) /\ t.hashtable[b][i] \in Part(X, t.hashsize, b)
  BY <1>1, <1>2, <1>3 DEF Lists
<1> QED
  BY <1>2, <1>3, <1>4 DEF Part

\* From a node on: the node, and what is after it in its chain.
LEMMA FromStep ==
  ASSUME NEW c, NEW Y, Lists(c, Y), NEW i \in 1 .. Len(c)
  PROVE  /\ c[i].key \in From(c, i)
         /\ i = Len(c) => From(c, i) = {c[i].key}
         /\ i < Len(c) => i + 1 \in 1 .. Len(c) /\ From(c, i + 1) = From(c, i) \ {c[i].key}
<1>1. Len(c) \in Nat /\ i \in Nat /\ 1 <= i /\ i <= Len(c)
  BY DEF Lists
<1>2. i \in i .. Len(c)
  BY <1>1
<1>3. i = Len(c) => i .. Len(c) = {i}
  BY <1>1
<1>4. i < Len(c) => i + 1 \in 1 .. Len(c) /\ (i + 1) .. Len(c) = (i .. Len(c)) \ {i}
  BY <1>1
<1>5. \A j \in i .. Len(c) : j \in 1 .. Len(c)
  BY <1>1
<1>6. \A j \in i .. Len(c) : c[j].key = c[i].key => j = i
  BY <1>5 DEF Lists
<1>7. {c[j].key : j \in (i .. Len(c)) \ {i}} = From(c, i) \ {c[i].key}
  BY <1>6 DEF From
<1> QED
  BY <1>2, <1>3, <1>4, <1>7 DEF From

\* The iterator goes to node i of chain b: what is left of the loop is what was from
\* there on, without the node.
LEMMA VisitOK ==
  ASSUME NEW X, HashOK(h, X), NEW b \in 0 .. h.hashsize - 1, NEW i \in 1 .. Len(h.hashtable[b]),
         Visit(b, i), h' = h
  PROVE  /\ IterOK(h', b, saved', at') /\ at' \in Keys /\ at' # Null /\ result' = Get(h, at') /\ result' \in Vals
         /\ ~ Lacks(X, at') /\ (saved' # Null => ~ Lacks(X, saved')) /\ saved' # at'
         /\ at' \in From(h.hashtable[b], i) \cup Ahead(h, b + 1)
         /\ RestOf(h', b, saved', at') = (From(h.hashtable[b], i) \cup Ahead(h, b + 1)) \ {at'}
<1>1. PICK t, c, k, sv : t = h /\ c = h.hashtable[b] /\ k = c[i].key /\ sv = After(b, i)
  OBVIOUS
<1>2. at' = k /\ result' = c[i].val /\ saved' = sv /\ h' = t
  BY <1>1 DEF Visit
<1>3. HashOK(t, X) /\ c = t.hashtable[b] /\ b \in 0 .. t.hashsize - 1 /\ i \in 1 .. Len(c)
  BY <1>1
<1>4. Lists(c, Part(X, t.hashsize, b)) /\ Len(c) \in Nat
  BY <1>3 DEF HashOK, Table, Lists
<1>5. Place(c, k, i) /\ c[i] \in X /\ k \in Keys /\ k # Null
  BY <1>1, <1>3, PlaceOf, KeysAreNat DEF Null
<1>6. Get(t, k) = c[i].val
  BY <1>1, <1>3, <1>5, GetIs
<1>7. k \notin Ahead(t, b + 1)
  BY <1>1, <1>3, OneChain
<1>8. k \in From(c, i)
  BY <1>1, <1>3, <1>4, FromStep
<1>9. ~ Lacks(X, k) /\ c[i].val \in Vals
  BY <1>1, <1>5 DEF Lacks, HashOK, HashNodes
<1>10. CASE i < Len(c)
  <2>1. sv = c[i + 1].key
    BY <1>1, <1>10 DEF After
  <2>2. i + 1 \in 1 .. Len(c) /\ From(c, i + 1) = From(c, i) \ {k}
    BY <1>1, <1>3, <1>4, <1>10, FromStep
  <2>3. Place(c, sv, i + 1) /\ sv \in Keys /\ sv # Null
    BY <1>3, <2>1, <2>2, PlaceOf, KeysAreNat DEF Null
  <2>4. RestOf(t, b, sv, k) = From(c, i + 1) \cup Ahead(t, b + 1)
    BY <1>3, <1>5, <2>3, RestIs
  <2>5. RestOf(t, b, sv, k) = (From(c, i) \cup Ahead(t, b + 1)) \ {k}
    BY <1>7, <2>2, <2>4
  <2>6. IterOK(t, b, sv, k)
    BY <1>3, <1>5, <2>3 DEF IterOK
  <2>7. ~ Lacks(X, sv)
    <3>1. c[i + 1] \in X
      BY <1>3, <2>2, PlaceOf
    <3> QED
      BY <2>1, <3>1 DEF Lacks
  <2>8. sv # k
    <3>1. \A m, n \in 1 .. Len(c) : c[m].key = c[n].key => m = n
      BY <1>4 DEF Lists
    <3>2. i # i + 1
      BY <1>3, <1>4
    <3> QED
      BY <1>1, <1>3, <2>1, <2>2, <3>1, <3>2
  <2> QED
    BY <1>1, <1>2, <1>5, <1>6, <1>8, <1>9, <2>5, <2>6, <2>7, <2>8
<1>11. CASE ~ (i < Len(c))
  <2>1. sv = Null
    BY <1>1, <1>11 DEF After
  <2>2. From(c, i) = {k}
    BY <1>1, <1>3, <1>4, <1>11, FromStep
  <2>4. RestOf(t, b, sv, k) = Ahead(t, b + 1)
    BY <1>3, <1>5, <2>1, RestIs
  <2>5. RestOf(t, b, sv, k) = (From(c, i) \cup Ahead(t, b + 1)) \ {k}
    BY <1>7, <2>2, <2>4
  <2>6. IterOK(t, b, sv, k)
    BY <1>3, <1>5, <2>1 DEF IterOK
  <2> QED
    BY <1>1, <1>2, <1>5, <1>6, <1>8, <1>9, <2>1, <2>5, <2>6
<1> QED
  BY <1>10, <1>11

\* The search for the next chain that is not empty.
LEMMA LaterIs ==
  ASSUME NEW X, HashOK(h, X), NEW b \in Nat
  PROVE  /\ Later(b) = {} => Ahead(h, b) = {}
         /\ Later(b) # {} =>
              LET d == Min(Later(b))
              IN  /\ d \in 0 .. h.hashsize - 1 /\ 1 \in 1 .. Len(h.hashtable[d])
                  /\ From(h.hashtable[d], 1) \cup Ahead(h, d + 1) = Ahead(h, b)
<1>1. h.hashsize \in Nat \ {0} /\ \A e \in 0 .. h.hashsize - 1 : h.hashtable[e] \in Seq(HashNodes)
  BY DEF HashOK, Table, Lists
<1>2. \A e \in b .. h.hashsize - 1 : e \in 0 .. h.hashsize - 1
  BY <1>1
<1>3. ASSUME Later(b) = {} PROVE Ahead(h, b) = {}
  <2>1. \A e \in b .. h.hashsize - 1 : h.hashtable[e] = <<>>
    BY <1>3 DEF Later
  <2> QED
    BY <2>1 DEF Ahead
<1>4. ASSUME Later(b) # {}, NEW d, d = Min(Later(b))
      PROVE  /\ d \in 0 .. h.hashsize - 1 /\ 1 \in 1 .. Len(h.hashtable[d])
             /\ From(h.hashtable[d], 1) \cup Ahead(h, d + 1) = Ahead(h, b)
  <2>1. Later(b) \in SUBSET Nat
    BY <1>2 DEF Later
  <2>2. d \in Later(b) /\ \A e \in Later(b) : d <= e
    BY <1>4, <2>1, MinIs
  <2>3. d \in b .. h.hashsize - 1 /\ d \in 0 .. h.hashsize - 1 /\ h.hashtable[d] # <<>>
    BY <1>2, <2>2 DEF Later
  <2>4. h.hashtable[d] \in Seq(HashNodes)
    BY <1>1, <2>3
  <2>5. 1 \in 1 .. Len(h.hashtable[d])
    BY <2>3, <2>4, EmptySeq
  <2>6. \A e \in b .. h.hashsize - 1 : e = d \/ e \in d + 1 .. h.hashsize - 1 \/ h.hashtable[e] = <<>>
    BY <1>1, <2>1, <2>2, <2>3 DEF Later
  <2>7. \A e \in d + 1 .. h.hashsize - 1 : e \in b .. h.hashsize - 1
    BY <1>1, <2>3
  <2>8. From(h.hashtable[d], 1) \subseteq Keys
    <3>1. \A i \in 1 .. Len(h.hashtable[d]) : h.hashtable[d][i] \in HashNodes
      BY <2>4
    <3> QED
      BY <3>1 DEF From, HashNodes
  <2>9. \A k \in Keys : k \in Ahead(h, b) <=> k \in From(h.hashtable[d], 1) \cup Ahead(h, d + 1)
    <3>1. \A i : i \notin 1 .. Len(<<>>)
      OBVIOUS
    <3> QED
      BY <2>3, <2>6, <2>7, <3>1 DEF From, Ahead
  <2> QED
    BY <2>3, <2>5, <2>8, <2>9 DEF Ahead
<1> QED
  BY <1>3, <1>4
-----------------------------------------------------------------------------
(* Changes during a loop.                                                   *)

\* The keys of the chains from y on without chain b.
Others(t, y, b) ==
  {k \in Keys : \E d \in y .. t.hashsize - 1 : d # b /\ \E i \in 1 .. Len(t.hashtable[d]) : t.hashtable[d][i].key = k}

\* The chains from y on, with and without chain b.
LEMMA AheadIs ==
  ASSUME NEW t, NEW X, HashOK(t, X), NEW y \in Nat, NEW b \in 0 .. t.hashsize - 1
  PROVE  Ahead(t, y) = Others(t, y, b) \cup (IF y <= b THEN From(t.hashtable[b], 1) ELSE {})
<1>1. t.hashsize \in Nat \ {0} /\ t.hashtable[b] \in Seq(HashNodes)
  BY DEF HashOK, Table, Lists
<1>2. b \in y .. t.hashsize - 1 <=> y <= b
  BY <1>1
<1>3. From(t.hashtable[b], 1) \subseteq Keys
  <2>1. \A i \in 1 .. Len(t.hashtable[b]) : t.hashtable[b][i] \in HashNodes
    BY <1>1
  <2> QED
    BY <2>1 DEF From, HashNodes
<1> QED
  BY <1>2, <1>3 DEF Ahead, Others, From

\* The other chains do not change with chain b.
LEMMA OthersSame ==
  ASSUME NEW t, NEW X, HashOK(t, X), NEW y \in Nat, NEW b \in 0 .. t.hashsize - 1, NEW c, NEW m
  PROVE  LET u == Relinked(t, b, c, m)
         IN  /\ u.hashsize = t.hashsize /\ u.hashtable[b] = c
             /\ \A d \in 0 .. t.hashsize - 1 : d # b => u.hashtable[d] = t.hashtable[d]
             /\ Others(u, y, b) = Others(t, y, b)
<1>1. PICK u : u = Relinked(t, b, c, m)
  OBVIOUS
<1>2. u.hashsize = t.hashsize /\ u.hashtable = [t.hashtable EXCEPT ![b] = c]
  BY <1>1 DEF Relinked
<1>3. t.hashsize \in Nat \ {0} /\ DOMAIN t.hashtable = 0 .. t.hashsize - 1
  BY DEF HashOK, Table
<1>4. u.hashtable[b] = c /\ \A d \in 0 .. t.hashsize - 1 : d # b => u.hashtable[d] = t.hashtable[d]
  BY <1>2, <1>3
<1>5. \A d \in y .. t.hashsize - 1 : d \in 0 .. t.hashsize - 1
  BY <1>3
<1>6. Others(u, y, b) = Others(t, y, b)
  BY <1>2, <1>4, <1>5 DEF Others
<1> QED
  BY <1>1, <1>2, <1>4, <1>6

\* Chain b becomes c, where the loop is in chain x.
LEMMA OtherChain ==
  ASSUME NEW t, NEW X, HashOK(t, X), NEW x, NEW sv, NEW a, a # Null, IterOK(t, x, sv, a),
         NEW b \in 0 .. t.hashsize - 1, b # x, NEW c, NEW m, NEW Z, HashOK(Relinked(t, b, c, m), Z)
  PROVE  /\ IterOK(Relinked(t, b, c, m), x, sv, a)
         /\ \E O : /\ RestOf(t, x, sv, a) = O \cup (IF x + 1 <= b THEN From(t.hashtable[b], 1) ELSE {})
                   /\ RestOf(Relinked(t, b, c, m), x, sv, a) = O \cup (IF x + 1 <= b THEN From(c, 1) ELSE {})
                   /\ O \subseteq Others(t, x, b)
<1>1. PICK u : u = Relinked(t, b, c, m)
  OBVIOUS
<1>2. x \in 0 .. t.hashsize - 1 /\ t.hashsize \in Nat \ {0} /\ x \in Nat /\ x + 1 \in Nat
  BY DEF IterOK, HashOK, Table
<1>3. /\ u.hashsize = t.hashsize /\ u.hashtable[b] = c /\ u.hashtable[x] = t.hashtable[x]
      /\ Others(u, x + 1, b) = Others(t, x + 1, b)
  BY <1>1, <1>2, OthersSame
<1>4. Ahead(t, x + 1) = Others(t, x + 1, b) \cup (IF x + 1 <= b THEN From(t.hashtable[b], 1) ELSE {})
  BY <1>2, AheadIs
<1>5. Ahead(u, x + 1) = Others(t, x + 1, b) \cup (IF x + 1 <= b THEN From(c, 1) ELSE {})
  BY <1>1, <1>2, <1>3, AheadIs
<1>6. IterOK(u, x, sv, a)
  BY <1>3 DEF IterOK
<1>7. HashOK(u, Z) /\ x \in 0 .. u.hashsize - 1
  BY <1>1, <1>2, <1>3
<1>8. Others(t, x + 1, b) \subseteq Others(t, x, b)
  <2>1. \A d \in x + 1 .. t.hashsize - 1 : d \in x .. t.hashsize - 1
    BY <1>2
  <2> QED
    BY <2>1 DEF Others
<1>9. CASE sv = Null
  <2>1. RestOf(t, x, sv, a) = Ahead(t, x + 1)
    BY <1>2, <1>9, RestIs
  <2>2. RestOf(u, x, sv, a) = Ahead(u, x + 1)
    BY <1>7, <1>9, RestIs
  <2> QED
    BY <1>1, <1>4, <1>5, <1>6, <1>8, <2>1, <2>2
<1>10. CASE sv # Null
  <2>1. PICK s : Place(t.hashtable[x], sv, s)
    BY <1>10 DEF IterOK
  <2>2. RestOf(t, x, sv, a) = From(t.hashtable[x], s) \cup Ahead(t, x + 1)
    BY <1>2, <1>10, <2>1, RestIs
  <2>3. RestOf(u, x, sv, a) = From(t.hashtable[x], s) \cup Ahead(u, x + 1)
    BY <1>3, <1>7, <1>10, <2>1, RestIs
  <2>4. From(t.hashtable[x], s) \subseteq Others(t, x, b)
    <3>1. x \in x .. t.hashsize - 1
      BY <1>2
    <3>2. t.hashtable[x] \in Seq(HashNodes) /\ s \in 1 .. Len(t.hashtable[x])
      BY <1>2, <2>1 DEF HashOK, Table, Lists, Place
    <3>3. \A j \in s .. Len(t.hashtable[x]) : j \in 1 .. Len(t.hashtable[x]) /\ t.hashtable[x][j].key \in Keys
      <4>1. \A j \in s .. Len(t.hashtable[x]) : j \in 1 .. Len(t.hashtable[x])
        BY <3>2
      <4>2. \A j \in 1 .. Len(t.hashtable[x]) : t.hashtable[x][j] \in HashNodes
        BY <3>2
      <4> QED
        BY <4>1, <4>2 DEF HashNodes
    <3> QED
      BY <3>1, <3>3 DEF From, Others
  <2>5. PICK O : O = From(t.hashtable[x], s) \cup Others(t, x + 1, b)
    OBVIOUS
  <2> QED
    BY <1>1, <1>4, <1>5, <1>6, <1>8, <2>2, <2>3, <2>4, <2>5
<1> QED
  BY <1>9, <1>10

\* The chain that the loop is in becomes c.
LEMMA SameChain ==
  ASSUME NEW t, NEW X, HashOK(t, X), NEW x, NEW sv, NEW a, a # Null, IterOK(t, x, sv, a),
         NEW c, NEW m, NEW Z, HashOK(Relinked(t, x, c, m), Z),
         NEW s, NEW e, sv # Null => Place(t.hashtable[x], sv, s) /\ Place(c, sv, e)
  PROVE  /\ IterOK(Relinked(t, x, c, m), x, sv, a)
         /\ \E O : /\ RestOf(t, x, sv, a) = O \cup (IF sv = Null THEN {} ELSE From(t.hashtable[x], s))
                   /\ RestOf(Relinked(t, x, c, m), x, sv, a) = O \cup (IF sv = Null THEN {} ELSE From(c, e))
                   /\ O \subseteq Others(t, x, x)
<1>1. PICK u : u = Relinked(t, x, c, m)
  OBVIOUS
<1>2. x \in 0 .. t.hashsize - 1 /\ t.hashsize \in Nat \ {0} /\ x \in Nat /\ x + 1 \in Nat
  BY DEF IterOK, HashOK, Table
<1>3. /\ u.hashsize = t.hashsize /\ u.hashtable[x] = c
      /\ Others(u, x + 1, x) = Others(t, x + 1, x)
  BY <1>1, <1>2, OthersSame
<1>4. Ahead(t, x + 1) = Others(t, x + 1, x)
  <2>1. Ahead(t, x + 1) = Others(t, x + 1, x) \cup (IF x + 1 <= x THEN From(t.hashtable[x], 1) ELSE {})
    BY <1>2, AheadIs
  <2>2. ~ (x + 1 <= x)
    BY <1>2
  <2> QED
    BY <2>1, <2>2
<1>5. Ahead(u, x + 1) = Others(t, x + 1, x)
  <2>1. Ahead(u, x + 1) = Others(t, x + 1, x) \cup (IF x + 1 <= x THEN From(c, 1) ELSE {})
    BY <1>1, <1>2, <1>3, AheadIs
  <2>2. ~ (x + 1 <= x)
    BY <1>2
  <2> QED
    BY <2>1, <2>2
<1>6. IterOK(u, x, sv, a)
  BY <1>3 DEF IterOK
<1>7. HashOK(u, Z) /\ x \in 0 .. u.hashsize - 1
  BY <1>1, <1>2, <1>3
<1>8. Others(t, x + 1, x) \subseteq Others(t, x, x)
  <2>1. \A d \in x + 1 .. t.hashsize - 1 : d \in x .. t.hashsize - 1
    BY <1>2
  <2> QED
    BY <2>1 DEF Others
<1>9. CASE sv = Null
  <2>1. RestOf(t, x, sv, a) = Ahead(t, x + 1)
    BY <1>2, <1>9, RestIs
  <2>2. RestOf(u, x, sv, a) = Ahead(u, x + 1)
    BY <1>7, <1>9, RestIs
  <2> QED
    BY <1>1, <1>4, <1>5, <1>6, <1>8, <1>9, <2>1, <2>2
<1>10. CASE sv # Null
  <2>2. RestOf(t, x, sv, a) = From(t.hashtable[x], s) \cup Ahead(t, x + 1)
    BY <1>2, <1>10, RestIs
  <2>3. RestOf(u, x, sv, a) = From(c, e) \cup Ahead(u, x + 1)
    BY <1>3, <1>7, <1>10, RestIs
  <2> QED
    BY <1>1, <1>4, <1>5, <1>6, <1>8, <1>10, <2>2, <2>3
<1> QED
  BY <1>9, <1>10

\* Without a loop nothing is left to meet.
LEMMA IdleIter ==
  ASSUME NEW t, NEW u, NEW x, NEW sv, NEW a, a = Null, IterOK(t, x, sv, a)
  PROVE  IterOK(u, x, sv, a) /\ RestOf(t, x, sv, a) = {} /\ RestOf(u, x, sv, a) = {}
  BY DEF IterOK, RestOf

\* The chain d has the keys of c in the same order, without those in L and with those
\* in K at the end.
Becomes(c, d, K, L) ==
  /\ From(d, 1) = (From(c, 1) \ L) \cup K
  /\ \A s \in 1 .. Len(c) : c[s].key \notin L =>
       \E e \in 1 .. Len(d) : d[e].key = c[s].key /\ From(d, e) = (From(c, s) \ L) \cup K

\* What the loop has still to meet was R and is now S.
Changed(R, S, K, L) == S = R \/ \E O, F : R = O \cup F /\ S = O \cup ((F \ L) \cup K)

\* How a change of one chain shows in what the loop has still to meet.
LEMMA ChangedIf ==
  ASSUME NEW R, NEW S, NEW O, NEW F, NEW G, NEW K, NEW L, R = O \cup F, S = O \cup G, G = (F \ L) \cup K
  PROVE  Changed(R, S, K, L)
  BY Zenon DEF Changed

\* A chain changes under the loop: the saved node keeps a place, and what follows it
\* changes alike.
LEMMA ChainChanges ==
  ASSUME NEW t, NEW X, HashOK(t, X), NEW x, NEW sv, NEW a, a # Null, IterOK(t, x, sv, a),
         NEW b \in 0 .. t.hashsize - 1, NEW d, NEW m, NEW Z, HashOK(Relinked(t, b, d, m), Z), NEW K, NEW L,
         Becomes(t.hashtable[b], d, K, L), sv \notin L
  PROVE  /\ IterOK(Relinked(t, b, d, m), x, sv, a)
         /\ Changed(RestOf(t, x, sv, a), RestOf(Relinked(t, b, d, m), x, sv, a), K, L)
<1>1. PICK c, u, R, S : c = t.hashtable[b] /\ u = Relinked(t, b, d, m) /\ R = RestOf(t, x, sv, a) /\ S = RestOf(u, x, sv, a)
  OBVIOUS
<1>2. SUFFICES IterOK(u, x, sv, a) /\ Changed(R, S, K, L)
  BY <1>1
<1>3. CASE b # x
  <2>1. /\ IterOK(u, x, sv, a)
        /\ \E O : /\ R = O \cup (IF x + 1 <= b THEN From(c, 1) ELSE {})
                  /\ S = O \cup (IF x + 1 <= b THEN From(d, 1) ELSE {})
    BY <1>1, <1>3, OtherChain
  <2>2. PICK O : /\ R = O \cup (IF x + 1 <= b THEN From(c, 1) ELSE {})
                 /\ S = O \cup (IF x + 1 <= b THEN From(d, 1) ELSE {})
    BY <2>1
  <2>3. CASE x + 1 <= b
    <3>1. From(d, 1) = (From(c, 1) \ L) \cup K
      BY <1>1 DEF Becomes
    <3>2. R = O \cup From(c, 1) /\ S = O \cup From(d, 1)
      BY <2>2, <2>3
    <3>3. Changed(R, S, K, L)
      BY <3>1, <3>2, ChangedIf, Zenon
    <3> QED
      BY <2>1, <3>3
  <2>4. CASE ~ (x + 1 <= b)
    <3>1. R = S
      BY <2>2, <2>4
    <3> QED
      BY <2>1, <3>1 DEF Changed
  <2> QED
    BY <2>3, <2>4
<1>4. CASE b = x
  <2>1. PICK s : sv # Null => Place(c, sv, s)
    BY <1>1, <1>4 DEF IterOK
  <2>2. \E e : sv # Null => Place(d, sv, e) /\ From(d, e) = (From(c, s) \ L) \cup K
    <3>1. CASE sv = Null
      BY <3>1
    <3>2. CASE sv # Null
      <4>1. s \in 1 .. Len(c) /\ c[s].key = sv
        BY <2>1, <3>2 DEF Place
      <4>2. PICK e \in 1 .. Len(d) : d[e].key = sv /\ From(d, e) = (From(c, s) \ L) \cup K
        BY <1>1, <4>1, Zenon DEF Becomes
      <4>3. u.hashtable[b] = d /\ u.hashsize = t.hashsize
        BY <1>1, OthersSame
      <4>4. Place(d, sv, e)
        BY <1>1, <4>2, <4>3, PlaceOf
      <4> QED
        BY <4>2, <4>4
    <3> QED
      BY <3>1, <3>2
  <2>3. PICK e : sv # Null => Place(d, sv, e) /\ From(d, e) = (From(c, s) \ L) \cup K
    BY <2>2
  <2>4. /\ IterOK(u, x, sv, a)
        /\ \E O : /\ R = O \cup (IF sv = Null THEN {} ELSE From(c, s))
                  /\ S = O \cup (IF sv = Null THEN {} ELSE From(d, e))
    <3>1. u = Relinked(t, x, d, m) /\ c = t.hashtable[x] /\ HashOK(Relinked(t, x, d, m), Z)
      BY <1>1, <1>4
    <3>2. sv # Null => Place(t.hashtable[x], sv, s) /\ Place(d, sv, e)
      BY <2>1, <2>3, <3>1
    <3>3. /\ IterOK(Relinked(t, x, d, m), x, sv, a)
          /\ \E O : /\ RestOf(t, x, sv, a) = O \cup (IF sv = Null THEN {} ELSE From(t.hashtable[x], s))
                    /\ RestOf(Relinked(t, x, d, m), x, sv, a) = O \cup (IF sv = Null THEN {} ELSE From(d, e))
      BY <3>1, <3>2, SameChain
    <3> QED
      BY <1>1, <3>1, <3>3
  <2>5. PICK O : /\ R = O \cup (IF sv = Null THEN {} ELSE From(c, s))
                 /\ S = O \cup (IF sv = Null THEN {} ELSE From(d, e))
    BY <2>4
  <2>6. CASE sv = Null
    <3>1. R = S
      BY <2>5, <2>6
    <3> QED
      BY <2>4, <3>1 DEF Changed
  <2>7. CASE sv # Null
    <3>1. R = O \cup From(c, s) /\ S = O \cup From(d, e)
      BY <2>5, <2>7
    <3>2. Changed(R, S, K, L)
      BY <2>3, <2>7, <3>1, ChangedIf, Zenon
    <3> QED
      BY <2>4, <3>2
  <2> QED
    BY <2>6, <2>7
<1> QED
  BY <1>3, <1>4

\* A node is added at the end of a chain.
LEMMA AppendBecomes ==
  ASSUME NEW c \in Seq(HashNodes), NEW r \in HashNodes
  PROVE  Becomes(c, Append(c, r), {r.key}, {})
<1>1. PICK d, n, k : d = Append(c, r) /\ n = Len(c) /\ k = r.key
  OBVIOUS
<1>2. n \in Nat /\ Len(d) = n + 1 /\ d[n + 1] = r /\ \A j \in 1 .. n : d[j] = c[j]
  BY <1>1
<1>3. ASSUME NEW s \in 1 .. n + 1 PROVE From(d, s) = From(c, s) \cup {k}
  <2>1. s .. Len(d) = (s .. n) \cup {n + 1}
    BY <1>2
  <2>2. \A j \in s .. n : j \in 1 .. n
    BY <1>2
  <2>3. \A j \in s .. n : d[j].key = c[j].key
    BY <1>2, <2>2
  <2>4. d[n + 1].key = k
    BY <1>1, <1>2
  <2>5. From(c, s) = {c[j].key : j \in s .. n}
    BY <1>1 DEF From
  <2>6. From(d, s) = {d[j].key : j \in (s .. n) \cup {n + 1}}
    BY <2>1 DEF From
  <2>7. {d[j].key : j \in (s .. n) \cup {n + 1}} = {d[j].key : j \in s .. n} \cup {d[n + 1].key}
    OBVIOUS
  <2>8. {d[j].key : j \in s .. n} = {c[j].key : j \in s .. n}
    BY <2>3
  <2> QED
    BY <2>4, <2>5, <2>6, <2>7, <2>8
<1>4. 1 \in 1 .. n + 1 /\ \A s \in 1 .. n : s \in 1 .. n + 1
  BY <1>2
<1>5. From(d, 1) = (From(c, 1) \ {}) \cup {k}
  BY <1>3, <1>4
<1>6. \A s \in 1 .. n : s \in 1 .. Len(d) /\ d[s].key = c[s].key /\ From(d, s) = (From(c, s) \ {}) \cup {k}
  BY <1>2, <1>3, <1>4
<1>7. Becomes(c, d, {k}, {})
  BY <1>1, <1>5, <1>6, Zenon DEF Becomes
<1> QED
  BY <1>1, <1>7

\* The object of a node is replaced.
LEMMA ReplaceBecomes ==
  ASSUME NEW c \in Seq(HashNodes), NEW i \in 1 .. Len(c), NEW v
  PROVE  Becomes(c, [c EXCEPT ![i].val = v], {}, {})
<1>1. PICK d, n : d = [c EXCEPT ![i].val = v] /\ n = Len(c)
  OBVIOUS
<1>2. n \in Nat /\ DOMAIN c = 1 .. n /\ DOMAIN d = 1 .. n
  BY <1>1
<1>3. Len(d) = n
  <2>1. d \in [1 .. n -> {d[j] : j \in 1 .. n}]
    BY <1>1, <1>2
  <2>2. d \in Seq({d[j] : j \in 1 .. n})
    BY <1>2, <2>1, IsASeq
  <2> QED
    BY <1>2, <2>2
<1>4. \A j \in 1 .. n : d[j] = IF j = i THEN [c[i] EXCEPT !.val = v] ELSE c[j]
  BY <1>1, <1>2
<1>5. c[i] \in HashNodes
  OBVIOUS
<1>6. [c[i] EXCEPT !.val = v].key = c[i].key
  BY <1>5 DEF HashNodes
<1>7. \A j \in 1 .. n : d[j].key = c[j].key
  BY <1>4, <1>6
<1>8. ASSUME NEW s \in Nat \ {0} PROVE From(d, s) = (From(c, s) \ {}) \cup {}
  <2>1. \A j \in s .. n : j \in 1 .. n
    BY <1>2
  <2> QED
    BY <1>1, <1>3, <1>7, <2>1 DEF From
<1>9. \A s \in 1 .. n : s \in Nat \ {0}
  BY <1>2
<1>10. From(d, 1) = (From(c, 1) \ {}) \cup {}
  BY <1>8
<1>11. \A s \in 1 .. n : s \in 1 .. Len(d) /\ d[s].key = c[s].key /\ From(d, s) = (From(c, s) \ {}) \cup {}
  BY <1>3, <1>7, <1>8, <1>9
<1>12. Becomes(c, d, {}, {})
  BY <1>1, <1>10, <1>11, Zenon DEF Becomes
<1> QED
  BY <1>1, <1>12

\* A node is unlinked.
LEMMA RemoveBecomes ==
  ASSUME NEW c, NEW Y, Lists(c, Y), NEW i \in 1 .. Len(c)
  PROVE  Becomes(c, RemoveAt(c, i), {}, {c[i].key})
<1>1. PICK d, n, k : d = RemoveAt(c, i) /\ n = Len(c) /\ k = c[i].key
  OBVIOUS
<1>2. c \in Seq(HashNodes) /\ n \in Nat /\ i \in 1 .. n /\ \A j \in 1 .. n : c[j].key = k => j = i
  BY <1>1 DEF Lists
<1>3. Len(d) = n - 1 /\ \A j \in 1 .. n - 1 : d[j] = IF j < i THEN c[j] ELSE c[j + 1]
  BY <1>1, <1>2, Removed
<1>4. ASSUME NEW s \in 1 .. n + 1, NEW e, e \in Nat \ {0}, (e = s /\ s <= i) \/ (e = s - 1 /\ i < s)
      PROVE  From(d, e) = (From(c, s) \ {k}) \cup {}
  <2>1. \A j \in e .. n - 1 : j \in 1 .. n - 1
    BY <1>2, <1>4
  <2>2. ASSUME NEW j \in e .. n - 1 PROVE d[j].key \in From(c, s) \ {k}
    <3>1. PICK q : q = IF j < i THEN j ELSE j + 1
      OBVIOUS
    <3>2. q \in s .. n /\ q \in 1 .. n /\ q # i
      BY <1>2, <1>4, <3>1
    <3>3. d[j] = c[q]
      BY <1>3, <2>1, <3>1
    <3>4. c[q].key # k
      BY <1>2, <3>2
    <3> QED
      BY <1>1, <3>2, <3>3, <3>4 DEF From
  <2>3. ASSUME NEW q \in s .. n, c[q].key # k PROVE c[q].key \in From(d, e)
    <3>1. q # i
      BY <1>1, <2>3
    <3>2. PICK j : j = IF q < i THEN q ELSE q - 1
      OBVIOUS
    <3>3. j \in e .. n - 1 /\ (j < i => j = q) /\ (~ (j < i) => j + 1 = q)
      BY <1>2, <1>4, <3>1, <3>2
    <3>4. d[j] = c[q]
      BY <1>3, <2>1, <3>3
    <3> QED
      BY <1>3, <3>3, <3>4 DEF From
  <2>4. From(c, s) = {c[q].key : q \in s .. n} /\ From(d, e) = {d[j].key : j \in e .. n - 1}
    BY <1>1, <1>3 DEF From
  <2>5. \A z \in From(c, s) : z # k => z \in From(d, e)
    BY <2>3, <2>4
  <2>6. \A z \in From(d, e) : z \in From(c, s) \ {k}
    BY <2>2, <2>4
  <2> QED
    BY <2>5, <2>6
<1>5. From(d, 1) = (From(c, 1) \ {k}) \cup {}
  <2>1. 1 \in 1 .. n + 1 /\ 1 <= i
    BY <1>2
  <2> QED
    BY <1>4, <2>1
<1>6. ASSUME NEW s \in 1 .. n, c[s].key \notin {k}
      PROVE  \E e \in 1 .. Len(d) : d[e].key = c[s].key /\ From(d, e) = (From(c, s) \ {k}) \cup {}
  <2>1. PICK e : e = IF s < i THEN s ELSE s - 1
    OBVIOUS
  <2>2. s # i
    BY <1>1, <1>6
  <2>3. e \in 1 .. n - 1 /\ e \in Nat \ {0} /\ ((e = s /\ s <= i) \/ (e = s - 1 /\ i < s)) /\ s \in 1 .. n + 1
        /\ (e < i => e = s) /\ (~ (e < i) => e + 1 = s)
    BY <1>2, <2>1, <2>2
  <2>4. From(d, e) = (From(c, s) \ {k}) \cup {}
    BY <1>4, <2>3
  <2>5. d[e] = c[s]
    BY <1>3, <2>3
  <2> QED
    BY <1>3, <2>3, <2>4, <2>5
<1>7. Becomes(c, d, {}, {k})
  BY <1>1, <1>5, <1>6, Zenon DEF Becomes
<1> QED
  BY <1>1, <1>7

\* Setting an attribute leaves the loop where it is.
LEMMA SetIter ==
  ASSUME NEW t, NEW X, HashOK(t, X), Roomy(t), NEW x, NEW sv, NEW a, IterOK(t, x, sv, a),
         NEW k \in Keys, NEW v \in Vals,
         a # Null => ~ Lacks(X, k) \/ t.nitems + 1 < 2 * t.hashsize
  PROVE  /\ IterOK(Set(t, k, v), x, sv, a)
         /\ \/ RestOf(Set(t, k, v), x, sv, a) = RestOf(t, x, sv, a)
            \/ a # Null /\ Lacks(X, k) /\ RestOf(Set(t, k, v), x, sv, a) = RestOf(t, x, sv, a) \cup {k}
<1>1. CASE a = Null
  BY <1>1, IdleIter
<1>2. CASE a # Null
  <2>1. PICK b, c, r : b = Bucket(t, k) /\ c = Chain(t, k) /\ r = [key |-> k, val |-> v]
    OBVIOUS
  <2>2. b \in 0 .. t.hashsize - 1 /\ c = t.hashtable[b]
    BY <2>1, ChainIs
  <2>3. c \in Seq(HashNodes) /\ r \in HashNodes /\ r.key = k
    <3>1. Lists(c, Part(X, t.hashsize, Bucket(t, k)))
      BY <2>1, ChainIs
    <3> QED
      BY <2>1, <3>1 DEF Lists, HashNodes
  <2>4. HashOK(Set(t, k, v), With(X, k, v))
    BY SetOK
  <2>5. PICK R, S : R = RestOf(t, x, sv, a) /\ S = RestOf(Set(t, k, v), x, sv, a)
    OBVIOUS
  <2>6. CASE Lacks(X, k)
    <3>1. PICK d, u, m : d = Append(c, r) /\ m = t.nitems + 1 /\ u = Relinked(t, b, d, m)
      OBVIOUS
    <3>2. u.nitems < 2 * u.hashsize
      BY <1>2, <2>6, <3>1 DEF Relinked
    <3>3. Set(t, k, v) = Resize(u)
      BY <2>1, <2>6, <3>1, SetNew
    <3>4. Set(t, k, v) = u
      BY <3>2, <3>3 DEF Resize
    <3>5. Becomes(t.hashtable[b], d, {k}, {})
      BY <2>2, <2>3, <3>1, AppendBecomes
    <3>6. HashOK(Relinked(t, b, d, m), With(X, k, v))
      BY <2>4, <3>1, <3>4
    <3>7. IterOK(u, x, sv, a) /\ Changed(R, S, {k}, {})
      BY <1>2, <2>2, <2>5, <3>1, <3>4, <3>5, <3>6, ChainChanges
    <3>8. S = R \/ S = R \cup {k}
      BY <3>7 DEF Changed
    <3> QED
      BY <1>2, <2>5, <2>6, <3>4, <3>7, <3>8
  <2>7. CASE ~ Lacks(X, k)
    <3>1. PICK i : Place(c, k, i)
      BY <2>1, <2>7, PlaceIs
    <3>2. i \in 1 .. Len(c)
      BY <3>1 DEF Place
    <3>3. PICK d, u, m : d = [c EXCEPT ![i].val = v] /\ m = t.nitems /\ u = Relinked(t, b, d, m)
      OBVIOUS
    <3>4. Set(t, k, v) = u
      BY <2>1, <3>1, <3>3, SetFound
    <3>5. Becomes(t.hashtable[b], d, {}, {})
      BY <2>2, <2>3, <3>2, <3>3, ReplaceBecomes
    <3>6. HashOK(Relinked(t, b, d, m), With(X, k, v))
      BY <2>4, <3>3, <3>4
    <3>7. IterOK(u, x, sv, a) /\ Changed(R, S, {}, {})
      <4>1. PICK L : L = {}
        OBVIOUS
      <4>4. sv \notin L
        BY <4>1
      <4>2. Becomes(t.hashtable[b], d, L, L)
        BY <3>5, <4>1, Zenon
      <4>3. /\ IterOK(Relinked(t, b, d, m), x, sv, a)
            /\ Changed(RestOf(t, x, sv, a), RestOf(Relinked(t, b, d, m), x, sv, a), L, L)
        BY <1>2, <2>2, <3>6, <4>2, <4>4, ChainChanges
      <4> QED
        BY <2>5, <3>3, <3>4, <4>1, <4>3, Zenon
    <3>8. S = R
      BY <3>7 DEF Changed
    <3> QED
      BY <2>5, <3>4, <3>7, <3>8
  <2> QED
    BY <2>6, <2>7
<1> QED
  BY <1>1, <1>2

\* The loop goes on with keys of the table.
LEMMA RestKeys ==
  ASSUME NEW t, NEW X, HashOK(t, X), NEW x, NEW sv, NEW a, IterOK(t, x, sv, a), NEW k \in RestOf(t, x, sv, a)
  PROVE  ~ Lacks(X, k)
<1>1. a # Null
  BY DEF RestOf
<1>2. x \in 0 .. t.hashsize - 1 /\ t.hashsize \in Nat \ {0} /\ t.hashtable[x] \in Seq(HashNodes)
  BY <1>1 DEF IterOK, HashOK, Table, Lists
<1>3. \A b \in x + 1 .. t.hashsize - 1 : b \in 0 .. t.hashsize - 1
  BY <1>2
<1>4. CASE k \in Ahead(t, x + 1)
  <2>1. PICK b, i : b \in x + 1 .. t.hashsize - 1 /\ i \in 1 .. Len(t.hashtable[b]) /\ t.hashtable[b][i].key = k
    BY <1>4 DEF Ahead
  <2>2. t.hashtable[b][i] \in X
    BY <1>3, <2>1, PlaceOf
  <2> QED
    BY <2>1, <2>2 DEF Lacks
<1>5. CASE k \notin Ahead(t, x + 1)
  <2>1. sv # Null
    BY <1>1, <1>2, <1>5, RestIs
  <2>2. PICK s : Place(t.hashtable[x], sv, s)
    BY <2>1 DEF IterOK
  <2>3. k \in From(t.hashtable[x], s)
    <3>1. RestOf(t, x, sv, a) = From(t.hashtable[x], s) \cup Ahead(t, x + 1)
      BY <1>1, <1>2, <2>1, <2>2, RestIs
    <3> QED
      BY <1>5, <3>1
  <2>4. s \in 1 .. Len(t.hashtable[x])
    BY <2>2 DEF Place
  <2>5. PICK j \in s .. Len(t.hashtable[x]) : t.hashtable[x][j].key = k
    BY <2>3 DEF From
  <2>6. j \in 1 .. Len(t.hashtable[x])
    BY <1>2, <2>4, <2>5
  <2>7. t.hashtable[x][j] \in X
    BY <1>2, <2>6, PlaceOf
  <2> QED
    BY <2>5, <2>7 DEF Lacks
<1> QED
  BY <1>4, <1>5

\* Deleting an attribute takes it out of the loop.
LEMMA DelIter ==
  ASSUME NEW t, NEW X, HashOK(t, X), Roomy(t), NEW x, NEW sv, NEW a, IterOK(t, x, sv, a),
         NEW k \in Keys, sv # k
  PROVE  /\ IterOK(Del(t, k), x, sv, a)
         /\ RestOf(Del(t, k), x, sv, a) = RestOf(t, x, sv, a) \ {k}
<1>1. CASE a = Null
  <2>1. IterOK(Del(t, k), x, sv, a) /\ RestOf(t, x, sv, a) = {} /\ RestOf(Del(t, k), x, sv, a) = {}
    BY <1>1, IdleIter
  <2> QED
    BY <2>1
<1>2. CASE a # Null /\ Lacks(X, k)
  <2>1. Del(t, k) = t
    BY <1>2, DelNew
  <2>2. k \notin RestOf(t, x, sv, a)
    BY <1>2, RestKeys
  <2> QED
    BY <2>1, <2>2
<1>3. CASE a # Null /\ ~ Lacks(X, k)
  <2>1. PICK b, c : b = Bucket(t, k) /\ c = Chain(t, k)
    OBVIOUS
  <2>2. b \in 0 .. t.hashsize - 1 /\ c = t.hashtable[b] /\ \E Y : Lists(c, Y)
    BY <2>1, ChainIs
  <2>3. HashOK(Del(t, k), Without(X, k))
    BY DelOK
  <2>4. PICK R, S : R = RestOf(t, x, sv, a) /\ S = RestOf(Del(t, k), x, sv, a)
    OBVIOUS
  <2>5. PICK i : Place(c, k, i)
    BY <1>3, <2>1, PlaceIs
  <2>6. i \in 1 .. Len(c) /\ c[i].key = k
    BY <2>5 DEF Place
  <2>7. PICK d, u, m : d = RemoveAt(c, i) /\ m = t.nitems - 1 /\ u = Relinked(t, b, d, m)
    OBVIOUS
  <2>8. Del(t, k) = u
    BY <2>1, <2>5, <2>7, DelFound
  <2>9. Becomes(t.hashtable[b], d, {}, {k})
    BY <2>2, <2>6, <2>7, RemoveBecomes
  <2>10. HashOK(Relinked(t, b, d, m), Without(X, k))
    BY <2>3, <2>7, <2>8
  <2>11. sv \notin {k}
    OBVIOUS
  <2>12. IterOK(u, x, sv, a) /\ Changed(R, S, {}, {k})
    BY <1>3, <2>2, <2>4, <2>7, <2>8, <2>9, <2>10, <2>11, ChainChanges
  <2>13. Lacks(Without(X, k), k)
    BY DEF Lacks, Without
  <2>14. k \notin S
    BY <2>3, <2>4, <2>8, <2>12, <2>13, RestKeys
  <2>15. S = R \ {k}
    BY <2>12, <2>14 DEF Changed
  <2> QED
    BY <2>4, <2>8, <2>12, <2>15
<1> QED
  BY <1>1, <1>2, <1>3
-----------------------------------------------------------------------------
(* The map that a table is.                                                 *)

MapOf(t) == [q \in Keys |-> Get(t, q)]

\* Two tables with the same nodes, but for those with key k, are the same map, but for k.
LEMMA SameGet ==
  ASSUME NEW t, NEW X, HashOK(t, X), NEW u, NEW Z, HashOK(u, Z), NEW q \in Keys,
         \A r : r.key = q => (r \in Z <=> r \in X)
  PROVE  Get(u, q) = Get(t, q)
<1>1. CASE Lacks(X, q)
  <2>1. Lacks(Z, q)
    BY <1>1 DEF Lacks
  <2> QED
    BY <1>1, <2>1, GetIs
<1>2. CASE ~ Lacks(X, q)
  <2>1. PICK r \in X : r.key = q
    BY <1>2 DEF Lacks
  <2>2. r \in Z
    BY <2>1
  <2>3. Get(t, q) = r.val
    BY <2>1, GetIs
  <2>4. Get(u, q) = r.val
    BY <2>1, <2>2, GetIs
  <2> QED
    BY <2>3, <2>4
<1> QED
  BY <1>1, <1>2

\* Hash_setattr on the map.
LEMMA SetMap ==
  ASSUME NEW t, NEW X, HashOK(t, X), Roomy(t), NEW k \in Keys, NEW v \in Vals
  PROVE  MapOf(Set(t, k, v)) = [MapOf(t) EXCEPT ![k] = v]
<1>1. PICK u, Z : u = Set(t, k, v) /\ Z = With(X, k, v)
  OBVIOUS
<1>2. HashOK(u, Z)
  BY <1>1, SetOK
<1>3. PICK r : r = [key |-> k, val |-> v]
  OBVIOUS
<1>4. r \in Z /\ r.key = k /\ r.val = v
  BY <1>1, <1>3 DEF With
<1>5. Get(u, k) = v
  BY <1>2, <1>4, GetIs
<1>6. ASSUME NEW q \in Keys, q # k PROVE Get(u, q) = Get(t, q)
  <2>1. \A s : s.key = q => (s \in Z <=> s \in X)
    <3>1. Z = Without(X, k) \cup {r}
      BY <1>1, <1>3 DEF With
    <3> QED
      BY <1>4, <1>6, <3>1 DEF Without
  <2> QED
    BY <1>2, <2>1, SameGet
<1> QED
  BY <1>1, <1>5, <1>6 DEF MapOf

\* Hash_delattr on the map.
LEMMA DelMap ==
  ASSUME NEW t, NEW X, HashOK(t, X), Roomy(t), NEW k \in Keys
  PROVE  MapOf(Del(t, k)) = [MapOf(t) EXCEPT ![k] = Null]
<1>1. PICK u, Z : u = Del(t, k) /\ Z = Without(X, k)
  OBVIOUS
<1>2. HashOK(u, Z)
  BY <1>1, DelOK
<1>3. Lacks(Z, k)
  BY <1>1 DEF Lacks, Without
<1>4. Get(u, k) = Null
  BY <1>2, <1>3, GetIs
<1>5. ASSUME NEW q \in Keys, q # k PROVE Get(u, q) = Get(t, q)
  <2>1. \A s : s.key = q => (s \in Z <=> s \in X)
    BY <1>1, <1>5 DEF Without
  <2> QED
    BY <1>2, <2>1, SameGet
<1> QED
  BY <1>1, <1>4, <1>5 DEF MapOf

\* A new table is the empty map.
LEMMA EmptyMap ==
  ASSUME NEW n \in Nat \ {0}
  PROVE  MapOf(Empty(n)) = [q \in Keys |-> Null]
<1>1. HashOK(Empty(n), {})
  BY EmptyOK
<1>2. \A q : Lacks({}, q)
  BY DEF Lacks
<1>3. \A q \in Keys : Get(Empty(n), q) = Null
  BY <1>1, <1>2, GetIs
<1> QED
  BY <1>3 DEF MapOf

\* The copy is the same map.
LEMMA CopyMap ==
  ASSUME NEW t, NEW X, HashOK(t, X)
  PROVE  MapOf(Copy(t)) = MapOf(t)
<1>1. HashOK(Copy(t), X)
  BY CopyOK
<1>2. \A q \in Keys : Get(Copy(t), q) = Get(t, q)
  BY <1>1, SameGet
<1> QED
  BY <1>2 DEF MapOf

\* The loop starts with all keys.
LEMMA AheadAll ==
  ASSUME NEW t, NEW X, HashOK(t, X)
  PROVE  Ahead(t, 0) = {q \in Keys : Get(t, q) # Null}
<1>1. ASSUME NEW q \in Ahead(t, 0) PROVE q \in Keys /\ ~ Lacks(X, q)
  <2>1. PICK d, i : d \in 0 .. t.hashsize - 1 /\ i \in 1 .. Len(t.hashtable[d]) /\ t.hashtable[d][i].key = q
    BY <1>1 DEF Ahead
  <2>2. t.hashtable[d][i] \in X
    BY <2>1, PlaceOf
  <2> QED
    BY <2>1, <2>2 DEF Ahead, Lacks
<1>2. ASSUME NEW q \in Keys, ~ Lacks(X, q) PROVE q \in Ahead(t, 0)
  <2>1. PICK i : Place(Chain(t, q), q, i)
    BY <1>2, PlaceIs
  <2>2. Bucket(t, q) \in 0 .. t.hashsize - 1 /\ Chain(t, q) = t.hashtable[Bucket(t, q)]
    BY ChainIs
  <2> QED
    BY <2>1, <2>2 DEF Place, Ahead
<1> QED
  BY <1>1, <1>2, GetIs
-----------------------------------------------------------------------------
(* The invariant, and the steps of the map.                                 *)

\* What the invariant gives for the next state, and what the refinement shows of the step.
MapStep == Inv' /\ (Map!Next \/ UNCHANGED Map!vars)

\* Rest, for this and the next state.
LEMMA RestIsRest == Rest = RestOf(h, index, saved, at) /\ Rest' = RestOf(h', index', saved', at')
  BY DEF Rest, RestOf, Looping

\* The invariant in the next state.
LEMMA InvIf ==
  ASSUME NEW Z, HashOK(h', Z), Roomy(h'), LoopOK(h', Z, index', saved', at', loop')
  PROVE  Inv'
  BY DEF Inv, InvWith

\* The names of the map are the keys that are found.
LEMMA NameIs ==
  ASSUME NEW X, HashOK(h, X), NEW k \in Keys
  PROVE  k \in Map!Names <=> Has(h, k)
<1>1. Map!Names = {q \in Keys : Get(h, q) # Null}
  BY DEF Map!Names
<1> QED
  BY <1>1, GetIs, HasIs

\* A loop that has ended goes on in any table.
LEMMA IdleLoop ==
  ASSUME NEW t, NEW X, NEW u, NEW Z, NEW x, NEW sv, NEW a, NEW lp, a = Null, LoopOK(t, X, x, sv, a, lp)
  PROVE  LoopOK(u, Z, x, sv, a, lp) /\ lp = "exact" /\ sv = Null
<1>1. lp = "exact" /\ sv = Null /\ IterOK(t, x, sv, a)
  BY DEF LoopOK
<1>2. IterOK(u, x, sv, a)
  BY <1>1, IdleIter
<1> QED
  BY <1>1, <1>2 DEF LoopOK

\* The new table.
LEMMA InvInit ==
  ASSUME Init
  PROVE  Inv /\ Map!Init
<1>1. InitSize \in Nat \ {0}
  BY DohHashAssumption
<1>2. HashOK(h, {}) /\ Roomy(h)
  BY <1>1, EmptyOK DEF Init, Roomy
<1>3. LoopOK(h, {}, index, saved, at, loop)
  BY DEF Init, LoopOK, IterOK
<1>4. Rest = {} /\ loop = "exact"
  BY DEF Init, Rest, Looping
<1>5. [k \in Keys |-> Get(h, k)] = [k \in Keys |-> Null]
  BY <1>1, EmptyMap DEF Init, MapOf
<1>6. Inv
  BY <1>2, <1>3 DEF Inv, InvWith
<1> QED
  BY <1>4, <1>5, <1>6 DEF Init, Map!Init

\* Hash_setattr never shrinks the table, and it grows for a new key if there is no room.
LEMMA SetSize ==
  ASSUME NEW t, NEW X, HashOK(t, X), NEW k \in Keys, NEW v \in Vals
  PROVE  /\ Set(t, k, v).hashsize \in Nat /\ Set(t, k, v).hashsize >= t.hashsize
         /\ Set(t, k, v).hashsize # t.hashsize => Lacks(X, k)
         /\ Set(t, k, v).hashsize = t.hashsize => ~ Lacks(X, k) \/ t.nitems + 1 < 2 * t.hashsize
<1>1. t.hashsize \in Nat \ {0} /\ t.nitems \in Nat
  BY DEF HashOK, Table
<1>2. CASE Lacks(X, k)
  <2>1. PICK u : u = Relinked(t, Bucket(t, k), Append(Chain(t, k), [key |-> k, val |-> v]), t.nitems + 1)
    OBVIOUS
  <2>2. Set(t, k, v) = Resize(u) /\ u.hashsize = t.hashsize /\ u.nitems = t.nitems + 1
    BY <1>2, <2>1, SetNew DEF Relinked
  <2>3. CASE t.nitems + 1 < 2 * t.hashsize
    <3>1. Resize(u) = u
      BY <2>2, <2>3 DEF Resize
    <3> QED
      BY <1>1, <2>2, <2>3, <3>1
  <2>4. CASE ~ (t.nitems + 1 < 2 * t.hashsize)
    <3>1. Resize(u).hashsize = NewSize(t.hashsize)
      BY <2>2, <2>4 DEF Resize
    <3>2. NewSize(t.hashsize) \in Nat \ {0} /\ NewSize(t.hashsize) >= 2 * t.hashsize + 1
      BY <1>1, NewSizeGrows
    <3> QED
      BY <1>1, <1>2, <2>2, <3>1, <3>2
  <2> QED
    BY <2>3, <2>4
<1>3. CASE ~ Lacks(X, k)
  <2>1. PICK i : Place(Chain(t, k), k, i)
    BY <1>3, PlaceIs
  <2>2. Set(t, k, v).hashsize = t.hashsize
    BY <2>1, SetFound DEF Relinked
  <2> QED
    BY <1>1, <1>3, <2>2
<1> QED
  BY <1>2, <1>3

\* Hash_delattr and Hash_clear keep the size.
LEMMA DelSize ==
  ASSUME NEW t, NEW X, HashOK(t, X), NEW k \in Keys
  PROVE  Del(t, k).hashsize = t.hashsize
<1>1. CASE Lacks(X, k)
  BY <1>1, DelNew
<1>2. CASE ~ Lacks(X, k)
  <2>1. PICK i : Place(Chain(t, k), k, i)
    BY <1>2, PlaceIs
  <2> QED
    BY <2>1, DelFound DEF Relinked
<1> QED
  BY <1>1, <1>2

\* What is set stays, and what is not deleted.
LEMMA Stays ==
  ASSUME NEW X, NEW k, NEW v, NEW q, ~ Lacks(X, q)
  PROVE  ~ Lacks(With(X, k, v), q) /\ (q # k => ~ Lacks(Without(X, k), q))
<1>1. PICK r \in X : r.key = q
  BY DEF Lacks
<1>2. q # k => r \in Without(X, k)
  BY <1>1 DEF Without
<1>3. PICK s : s = [key |-> k, val |-> v]
  OBVIOUS
<1>4. s \in With(X, k, v) /\ s.key = k
  BY <1>3 DEF With
<1>5. q # k => r \in With(X, k, v)
  BY <1>2 DEF With
<1> QED
  BY <1>1, <1>2, <1>4, <1>5 DEF Lacks

\* What Hash_setattr does to a loop: nothing, or it adds the key to what is left, or the
\* table grows.
LEMMA SetLoop ==
  ASSUME NEW t, NEW X, HashOK(t, X), Roomy(t), NEW x, NEW sv, NEW a, NEW lp, LoopOK(t, X, x, sv, a, lp),
         NEW k \in Keys, NEW v \in Vals, NEW u, u = Set(t, k, v), NEW lq,
         lq = IF a # Null /\ lp = "exact" /\ u.hashsize # t.hashsize THEN "moved" ELSE lp
  PROVE  /\ LoopOK(u, With(X, k, v), x, sv, a, lq)
         /\ \/ lq = lp /\ (lp = "exact" => RestOf(u, x, sv, a) = RestOf(t, x, sv, a))
            \/ /\ a # Null /\ Lacks(X, k) /\ lp = "exact"
               /\ \/ lq = "exact" /\ RestOf(u, x, sv, a) = RestOf(t, x, sv, a) \cup {k}
                  \/ lq = "moved"
<1>1. /\ u.hashsize \in Nat /\ u.hashsize >= t.hashsize /\ t.hashsize \in Nat
      /\ u.hashsize # t.hashsize => Lacks(X, k)
      /\ u.hashsize = t.hashsize => ~ Lacks(X, k) \/ t.nitems + 1 < 2 * t.hashsize
  BY SetSize DEF HashOK, Table
<1>2. /\ a \in Keys \cup {Null} /\ sv \in Keys \cup {Null}
      /\ a = Null => lp = "exact" /\ sv = Null
      /\ a # Null => x \in 0 .. u.hashsize - 1
  BY <1>1 DEF LoopOK
<1>3. lp # "freed" /\ sv # Null => ~ Lacks(With(X, k, v), sv) /\ sv # a
  BY Stays DEF LoopOK
<1>4. CASE lp = "exact" /\ (a = Null \/ u.hashsize = t.hashsize)
  <2>1. lq = "exact"
    BY <1>4
  <2>2. a # Null => ~ Lacks(X, k) \/ t.nitems + 1 < 2 * t.hashsize
    BY <1>1, <1>4
  <2>3. IterOK(t, x, sv, a)
    BY <1>4 DEF LoopOK
  <2>4. /\ IterOK(u, x, sv, a)
        /\ \/ RestOf(u, x, sv, a) = RestOf(t, x, sv, a)
           \/ a # Null /\ Lacks(X, k) /\ RestOf(u, x, sv, a) = RestOf(t, x, sv, a) \cup {k}
    BY <2>2, <2>3, SetIter
  <2>5. LoopOK(u, With(X, k, v), x, sv, a, lq)
    BY <1>2, <1>3, <1>4, <2>1, <2>4 DEF LoopOK
  <2> QED
    BY <1>4, <2>1, <2>4, <2>5
<1>5. CASE lp = "exact" /\ ~ (a = Null \/ u.hashsize = t.hashsize)
  <2>1. lq = "moved"
    BY <1>5
  <2>2. LoopOK(u, With(X, k, v), x, sv, a, lq)
    BY <1>2, <1>3, <1>5, <2>1 DEF LoopOK
  <2> QED
    BY <1>1, <1>5, <2>1, <2>2
<1>6. CASE lp # "exact"
  <2>1. lq = lp /\ lp \in {"moved", "freed"}
    BY <1>6 DEF LoopOK
  <2>2. LoopOK(u, With(X, k, v), x, sv, a, lq)
    BY <1>2, <1>3, <1>6, <2>1 DEF LoopOK
  <2> QED
    BY <1>6, <2>1, <2>2
<1> QED
  BY <1>4, <1>5, <1>6

\* Hash_setattr is Setattr of the map.
LEMMA SetattrStep ==
  ASSUME NEW X, InvWith(X), NEW k \in Keys, NEW v \in Vals, SetattrCall(k, v)
  PROVE  MapStep
<1>1. HashOK(h, X) /\ Roomy(h) /\ LoopOK(h, X, index, saved, at, loop)
  BY DEF InvWith
<1>2. /\ h' = Set(h, k, v) /\ index' = index /\ saved' = saved /\ at' = at /\ result' = IF Has(h, k) THEN 1 ELSE 0
      /\ loop' = IF at # Null /\ loop = "exact" /\ h'.hashsize # h.hashsize THEN "moved" ELSE loop
  BY DEF SetattrCall, iterator, Looping
<1>3. PICK u, lq : u = h' /\ lq = loop'
  OBVIOUS
<1>4. HashOK(u, With(X, k, v)) /\ Roomy(u)
  BY <1>1, <1>2, <1>3, SetOK
<1>5. /\ LoopOK(u, With(X, k, v), index, saved, at, lq)
      /\ \/ lq = loop /\ (loop = "exact" => RestOf(u, index, saved, at) = RestOf(h, index, saved, at))
         \/ /\ at # Null /\ Lacks(X, k) /\ loop = "exact"
            /\ \/ lq = "exact" /\ RestOf(u, index, saved, at) = RestOf(h, index, saved, at) \cup {k}
               \/ lq = "moved"
  <2>1. u = Set(h, k, v) /\ lq = IF at # Null /\ loop = "exact" /\ u.hashsize # h.hashsize THEN "moved" ELSE loop
    BY <1>2, <1>3
  <2> QED
    BY ONLY <1>1, <2>1, SetLoop, k \in Keys, v \in Vals
<1>6. Inv'
  BY <1>2, <1>3, <1>4, <1>5, InvIf
<1>7. \/ loop' = loop /\ (loop = "exact" => Rest' = Rest)
      \/ /\ at # Null /\ k \notin Map!Names /\ loop = "exact"
         /\ \/ loop' = "exact" /\ Rest' = Rest \cup {k}
            \/ loop' = "moved"
  <2>1. Lacks(X, k) => k \notin Map!Names
    BY <1>1, NameIs, HasIs
  <2>2. Rest = RestOf(h, index, saved, at) /\ Rest' = RestOf(u, index, saved, at)
    BY <1>2, <1>3, RestIsRest
  <2> QED
    BY <1>3, <1>5, <2>1, <2>2
<1>8. [q \in Keys |-> Get(h', q)] = [[q \in Keys |-> Get(h, q)] EXCEPT ![k] = v]
  BY <1>1, <1>2, SetMap DEF MapOf
<1>9. k \in Map!Names <=> [q \in Keys |-> Get(h, q)][k] # Null
  BY DEF Map!Names
<1>10. result' = IF [q \in Keys |-> Get(h, q)][k] # Null THEN 1 ELSE 0
  BY <1>1, <1>2, <1>9, NameIs
<1>11. Map!Setattr(k, v)
  BY <1>2, <1>7, <1>8, <1>9, <1>10 DEF Map!Setattr, Map!Upset
<1> QED
  BY <1>6, <1>11 DEF MapStep, Map!Next

\* Hash_getattr is Getattr of the map.
LEMMA GetattrStep ==
  ASSUME NEW X, InvWith(X), NEW k \in Keys, GetattrCall(k)
  PROVE  MapStep
<1>1. h' = h /\ index' = index /\ saved' = saved /\ at' = at /\ loop' = loop /\ result' = Get(h, k)
  BY DEF GetattrCall, iterator
<1>2. Inv'
  BY <1>1, InvIf DEF InvWith
<1>3. Rest' = Rest
  BY <1>1, RestIsRest
<1>4. [q \in Keys |-> Get(h', q)] = [q \in Keys |-> Get(h, q)]
  BY <1>1
<1>5. result' = [q \in Keys |-> Get(h, q)][k]
  BY <1>1
<1>6. Map!Getattr(k)
  BY <1>1, <1>3, <1>4, <1>5 DEF Map!Getattr
<1> QED
  BY <1>2, <1>6 DEF MapStep, Map!Next

\* What Hash_delattr does to a loop: it takes the key out of what is left, or frees the
\* node that the loop goes on with.
LEMMA DelLoop ==
  ASSUME NEW t, NEW X, HashOK(t, X), Roomy(t), NEW x, NEW sv, NEW a, NEW lp, LoopOK(t, X, x, sv, a, lp),
         NEW k \in Keys, NEW u, u = Del(t, k), NEW lq, lq = IF sv = k THEN "freed" ELSE lp
  PROVE  /\ LoopOK(u, Without(X, k), x, sv, a, lq)
         /\ \/ lq = lp /\ (lp = "exact" => RestOf(u, x, sv, a) = RestOf(t, x, sv, a) \ {k})
            \/ lq = "freed" /\ lp = "exact" /\ k \in RestOf(t, x, sv, a)
            \/ lq = "freed" /\ lp = "moved" /\ k # a /\ ~ Lacks(X, k)
<1>1. u.hashsize = t.hashsize
  BY DelSize
<1>2. /\ a \in Keys \cup {Null} /\ sv \in Keys \cup {Null} /\ lp \in {"exact", "moved", "freed"}
      /\ a = Null => lp = "exact" /\ sv = Null
      /\ a # Null => x \in 0 .. u.hashsize - 1
  BY <1>1 DEF LoopOK
<1>3. CASE sv # k
  <2>1. lq = lp
    BY <1>3
  <2>2. lp # "freed" /\ sv # Null => ~ Lacks(Without(X, k), sv) /\ sv # a
    BY <1>3, Stays DEF LoopOK
  <2>3. lp = "exact" => IterOK(u, x, sv, a) /\ RestOf(u, x, sv, a) = RestOf(t, x, sv, a) \ {k}
    BY <1>3, DelIter DEF LoopOK
  <2>4. LoopOK(u, Without(X, k), x, sv, a, lq)
    BY <1>2, <2>1, <2>2, <2>3 DEF LoopOK
  <2> QED
    BY <2>1, <2>3, <2>4
<1>4. CASE sv = k
  <2>1. lq = "freed" /\ sv # Null /\ a # Null
    BY <1>2, <1>4, KeysAreNat DEF Null
  <2>2. LoopOK(u, Without(X, k), x, sv, a, lq)
    BY <1>2, <2>1 DEF LoopOK
  <2>3. lp = "moved" => k # a /\ ~ Lacks(X, k)
    BY <1>4, <2>1 DEF LoopOK
  <2>4. ASSUME lp = "exact" PROVE k \in RestOf(t, x, sv, a)
    <3>1. IterOK(t, x, sv, a)
      BY <2>4 DEF LoopOK
    <3>2. x \in 0 .. t.hashsize - 1
      BY <1>1, <1>2, <2>1
    <3>3. PICK s : Place(t.hashtable[x], sv, s)
      BY <2>1, <3>1 DEF IterOK
    <3>4. RestOf(t, x, sv, a) = From(t.hashtable[x], s) \cup Ahead(t, x + 1)
      BY <2>1, <3>2, <3>3, RestIs
    <3>5. s \in 1 .. Len(t.hashtable[x]) /\ t.hashtable[x][s].key = k
      BY <1>4, <3>3 DEF Place
    <3>6. Lists(t.hashtable[x], Part(X, t.hashsize, x))
      BY <3>2 DEF HashOK, Table
    <3>7. k \in From(t.hashtable[x], s)
      BY <3>5, <3>6, FromStep
    <3> QED
      BY <3>4, <3>7
  <2> QED
    BY <1>2, <2>1, <2>2, <2>3, <2>4
<1> QED
  BY <1>3, <1>4

\* Hash_delattr is Delattr of the map.
LEMMA DelattrStep ==
  ASSUME NEW X, InvWith(X), NEW k \in Keys, DelattrCall(k)
  PROVE  MapStep
<1>1. HashOK(h, X) /\ Roomy(h) /\ LoopOK(h, X, index, saved, at, loop)
  BY DEF InvWith
<1>2. /\ h' = Del(h, k) /\ index' = index /\ saved' = saved /\ at' = at
      /\ result' = (IF Has(h, k) THEN 1 ELSE 0)
      /\ loop' = IF saved = k THEN "freed" ELSE loop
  BY DEF DelattrCall, iterator
<1>3. PICK u, lq : u = h' /\ lq = loop'
  OBVIOUS
<1>4. HashOK(u, Without(X, k)) /\ Roomy(u)
  BY <1>1, <1>2, <1>3, DelOK
<1>5. /\ LoopOK(u, Without(X, k), index, saved, at, lq)
      /\ \/ lq = loop /\ (loop = "exact" => RestOf(u, index, saved, at) = RestOf(h, index, saved, at) \ {k})
         \/ lq = "freed" /\ loop = "exact" /\ k \in RestOf(h, index, saved, at)
         \/ lq = "freed" /\ loop = "moved" /\ k # at /\ ~ Lacks(X, k)
  <2>1. u = Del(h, k) /\ lq = IF saved = k THEN "freed" ELSE loop
    BY <1>2, <1>3
  <2> QED
    BY ONLY <1>1, <2>1, DelLoop, k \in Keys
<1>6. Inv'
  BY <1>2, <1>3, <1>4, <1>5, InvIf
<1>7. \/ loop' = loop /\ (loop = "exact" => Rest' = Rest \ {k})
      \/ loop' = "freed" /\ loop = "exact" /\ k \in Rest
      \/ loop' = "freed" /\ loop = "moved" /\ k # at /\ [q \in Keys |-> Get(h, q)][k] # Null
  <2>1. ~ Lacks(X, k) => [q \in Keys |-> Get(h, q)][k] # Null
    BY <1>1, GetIs
  <2>2. Rest = RestOf(h, index, saved, at) /\ Rest' = RestOf(u, index, saved, at)
    BY <1>2, <1>3, RestIsRest
  <2> QED
    BY <1>3, <1>5, <2>1, <2>2
<1>8. [q \in Keys |-> Get(h', q)] = [[q \in Keys |-> Get(h, q)] EXCEPT ![k] = Null]
  BY <1>1, <1>2, DelMap DEF MapOf
<1>9. result' = IF [q \in Keys |-> Get(h, q)][k] # Null THEN 1 ELSE 0
  <2>1. Has(h, k) <=> Get(h, k) # Null
    BY <1>1, GetIs, HasIs
  <2> QED
    BY <1>2, <2>1
<1>10. Map!Delattr(k)
  BY <1>2, <1>7, <1>8, <1>9 DEF Map!Delattr, Map!Upset
<1> QED
  BY <1>6, <1>10 DEF MapStep, Map!Next

\* Hash_clear is Clear of the map.
LEMMA ClearStep ==
  ASSUME NEW X, InvWith(X), ClearCall
  PROVE  MapStep
<1>1. HashOK(h, X) /\ LoopOK(h, X, index, saved, at, loop) /\ h.hashsize \in Nat \ {0}
  BY DEF InvWith, HashOK, Table
<1>2. /\ h' = Empty(h.hashsize) /\ index' = index /\ saved' = saved /\ at' = at
      /\ result' = result /\ loop' = IF saved # Null THEN "freed" ELSE loop
  BY DEF ClearCall, iterator
<1>3. PICK u, lq : u = h' /\ lq = loop'
  OBVIOUS
<1>4. HashOK(u, {}) /\ Roomy(u) /\ u.hashsize = h.hashsize
  <2>1. Empty(h.hashsize).hashsize = h.hashsize
    BY DEF Empty
  <2> QED
    BY <1>1, <1>2, <1>3, <2>1, EmptyOK DEF Roomy
<1>5. /\ at \in Keys \cup {Null} /\ saved \in Keys \cup {Null} /\ loop \in {"exact", "moved", "freed"}
      /\ at = Null => loop = "exact" /\ saved = Null
      /\ at # Null => index \in 0 .. u.hashsize - 1
  BY <1>1, <1>4 DEF LoopOK
<1>6. saved = Null => IterOK(u, index, saved, at)
  BY <1>5 DEF IterOK
<1>7. LoopOK(u, {}, index, saved, at, lq)
  BY <1>2, <1>3, <1>5, <1>6 DEF LoopOK
<1>8. Inv'
  BY <1>2, <1>3, <1>4, <1>7, InvIf
<1>9. saved = Null => Rest' = {}
  <2>1. saved = Null => \A k : k \notin RestOf(u, index, saved, at)
    BY <1>4, <1>6, RestKeys DEF Lacks
  <2>2. Rest' = RestOf(u, index, saved, at)
    BY <1>2, <1>3, RestIsRest
  <2> QED
    BY <2>1, <2>2
<1>10. saved # Null /\ loop # "freed" => Map!Names # {}
  <2>1. saved # Null /\ loop # "freed" => saved \in Keys /\ ~ Lacks(X, saved)
    BY <1>1, <1>5 DEF LoopOK
  <2> QED
    BY <1>1, <2>1, NameIs, HasIs
<1>11. [q \in Keys |-> Get(h', q)] = [q \in Keys |-> Null]
  BY <1>1, <1>2, EmptyMap DEF MapOf
<1>12. Map!Clear
  <2>1. CASE saved = Null
    BY <1>2, <1>9, <1>11, <2>1 DEF Map!Clear
  <2>2. CASE saved # Null
    BY <1>2, <1>5, <1>10, <1>11, <2>2 DEF Map!Clear, Map!Upset
  <2> QED
    BY <2>1, <2>2
<1> QED
  BY <1>8, <1>12 DEF MapStep, Map!Next

\* CopyHash does not change the map.
LEMMA CopyStepsMap ==
  ASSUME NEW X, InvWith(X), CopyCall
  PROVE  MapStep
<1>1. HashOK(h, X) /\ LoopOK(h, X, index, saved, at, loop)
  BY DEF InvWith
<1>2. /\ h' = Copy(h) /\ index' = index /\ saved' = saved /\ at' = at /\ at = Null
      /\ result' = result /\ loop' = loop
  BY DEF CopyCall, iterator, Looping
<1>3. HashOK(Copy(h), X) /\ Roomy(Copy(h))
  BY <1>1, CopyOK
<1>4. LoopOK(Copy(h), X, index, saved, at, loop)
  BY <1>1, <1>2, IdleLoop
<1>5. Inv'
  BY <1>2, <1>3, <1>4, InvIf
<1>6. Rest' = Rest
  BY <1>2 DEF Rest, Looping
<1>7. [q \in Keys |-> Get(h', q)] = [q \in Keys |-> Get(h, q)]
  BY <1>1, <1>2, CopyMap DEF MapOf
<1>8. UNCHANGED Map!vars
  BY <1>2, <1>6, <1>7 DEF Map!vars
<1> QED
  BY <1>5, <1>8 DEF MapStep

\* The iterator goes to a node, in the chain it is in or, once the table has grown, in
\* another.
LEMMA VisitLoop ==
  ASSUME NEW X, InvWith(X), NEW b \in 0 .. h.hashsize - 1, NEW i \in 1 .. Len(h.hashtable[b]),
         Visit(b, i), h' = h, index' \in 0 .. h.hashsize - 1,
         loop = "exact" => index' = b
  PROVE  /\ Inv' /\ at' \in Keys /\ at' # Null /\ result' = [q \in Keys |-> Get(h, q)][at']
         /\ result' \in Vals /\ loop' = loop /\ at' \in Map!Names
         /\ at' \in From(h.hashtable[b], i) \cup Ahead(h, b + 1)
         /\ loop = "exact" => Rest' = (From(h.hashtable[b], i) \cup Ahead(h, b + 1)) \ {at'}
<1>1. HashOK(h, X) /\ Roomy(h) /\ LoopOK(h, X, index, saved, at, loop) /\ loop' = loop
  BY DEF InvWith, Visit
<1>2. PICK u, j, a, sv, r : u = h' /\ j = index' /\ a = at' /\ sv = saved' /\ r = result'
  OBVIOUS
<1>3. /\ IterOK(u, b, sv, a) /\ a \in Keys /\ a # Null /\ r = Get(h, a) /\ r \in Vals
      /\ ~ Lacks(X, a) /\ (sv # Null => ~ Lacks(X, sv)) /\ sv # a
      /\ a \in From(h.hashtable[b], i) \cup Ahead(h, b + 1)
      /\ RestOf(u, b, sv, a) = (From(h.hashtable[b], i) \cup Ahead(h, b + 1)) \ {a}
  BY <1>1, <1>2, VisitOK
<1>4. sv \in Keys \cup {Null}
  BY <1>3 DEF IterOK
<1>5. loop \in {"exact", "moved", "freed"} /\ j \in 0 .. u.hashsize - 1
  BY <1>1, <1>2 DEF LoopOK
<1>6. LoopOK(u, X, j, sv, a, loop)
  BY <1>2, <1>3, <1>4, <1>5 DEF LoopOK
<1>7. Inv'
  BY <1>1, <1>2, <1>6, InvIf
<1>8. a \in Map!Names
  BY <1>1, <1>3, NameIs, HasIs
<1>9. Rest' = RestOf(u, j, sv, a)
  BY <1>2, RestIsRest
<1> QED
  BY <1>1, <1>2, <1>3, <1>7, <1>8, <1>9

\* The loop ends.
LEMMA EndsLoop ==
  ASSUME NEW X, InvWith(X), End, h' = h
  PROVE  Inv' /\ Map!EndLoop
<1>1. HashOK(h, X) /\ Roomy(h)
  BY DEF InvWith
<1>2. index' = 0 /\ saved' = Null /\ at' = Null /\ loop' = "exact" /\ result' = Null
  BY DEF End
<1>3. LoopOK(h', X, index', saved', at', loop')
  BY <1>2 DEF LoopOK, IterOK
<1>4. Rest' = {}
  BY <1>2 DEF Rest, Looping
<1>5. Inv'
  BY <1>1, <1>3, InvIf
<1>6. Map!EndLoop
  BY <1>2, <1>4 DEF Map!EndLoop
<1> QED
  BY <1>5, <1>6

\* The loop goes on with the chains from b on.
LEMMA GoesOn ==
  ASSUME NEW X, InvWith(X), NEW b \in Nat, h' = h, VisitFrom(b), loop # "freed"
  PROVE  /\ Inv' /\ (loop = "exact" => Map!Meet(Ahead(h, b)))
         /\ loop = "moved" => Map!Stray
<1>1. HashOK(h, X)
  BY DEF InvWith
<1>2. PICK S : S = Ahead(h, b)
  OBVIOUS
<1>3. [q \in Keys |-> Get(h', q)] = [q \in Keys |-> Get(h, q)]
  OBVIOUS
<1>4. CASE Later(b) = {}
  <2>1. S = {}
    BY <1>1, <1>2, <1>4, LaterIs
  <2>2. Inv' /\ Map!EndLoop
    BY <1>4, EndsLoop DEF VisitFrom
  <2> QED
    BY <1>2, <1>3, <2>1, <2>2 DEF Map!Meet, Map!Stray
<1>5. CASE Later(b) # {}
  <2>1. PICK d : d = Min(Later(b))
    OBVIOUS
  <2>2. d \in 0 .. h.hashsize - 1 /\ 1 \in 1 .. Len(h.hashtable[d]) /\ S = From(h.hashtable[d], 1) \cup Ahead(h, d + 1)
    BY <1>1, <1>2, <1>5, <2>1, LaterIs
  <2>3. index' = d /\ Visit(d, 1)
    BY <1>5, <2>1 DEF VisitFrom, Visit
  <2>4. /\ Inv' /\ at' \in Keys /\ at' # Null /\ result' = [q \in Keys |-> Get(h, q)][at']
        /\ loop' = loop /\ at' \in Map!Names /\ at' \in S
        /\ loop = "exact" => Rest' = S \ {at'}
    BY <2>2, <2>3, VisitLoop
  <2>5. loop = "exact" => Map!Meet(S)
    BY <1>3, <2>4 DEF Map!Meet
  <2>6. loop = "moved" => Map!Stray
    BY <1>3, <2>4 DEF Map!Stray
  <2> QED
    BY <1>2, <2>4, <2>5, <2>6
<1> QED
  BY <1>4, <1>5

\* Hash_firstiter is First of the map.
LEMMA FirstStep ==
  ASSUME NEW X, InvWith(X), Hash_firstiter
  PROVE  MapStep
<1>1. at = Null /\ h' = h /\ VisitFrom(0)
  BY DEF Hash_firstiter, Looping
<1>2. loop = "exact"
  BY <1>1 DEF InvWith, LoopOK
<1>3. Inv' /\ Map!Meet(Ahead(h, 0))
  BY <1>1, <1>2, GoesOn
<1>4. Ahead(h, 0) = Map!Names
  <2>1. Ahead(h, 0) = {q \in Keys : Get(h, q) # Null}
    BY AheadAll DEF InvWith
  <2> QED
    BY <2>1 DEF Map!Names
<1>5. Map!First
  BY <1>1, <1>3, <1>4 DEF Map!First
<1> QED
  BY <1>3, <1>5 DEF MapStep, Map!Next

\* The iterator goes on with the node that it has saved, which is still there.
LEMMA SavedStep ==
  ASSUME NEW X, InvWith(X), at # Null, h' = h, saved # Null, loop # "freed", index' = index,
         NEW i, i \in Matches(Chain(h, saved), saved), Visit(Bucket(h, saved), i)
  PROVE  /\ Inv' /\ (loop = "exact" => Map!Meet(Rest))
         /\ loop = "moved" => Map!Stray
<1>1. HashOK(h, X) /\ LoopOK(h, X, index, saved, at, loop)
  BY DEF InvWith
<1>2. saved \in Keys /\ index \in 0 .. h.hashsize - 1
  BY <1>1 DEF LoopOK
<1>3. PICK b : b = Bucket(h, saved)
  OBVIOUS
<1>4. b \in 0 .. h.hashsize - 1 /\ Chain(h, saved) = h.hashtable[b] /\ b = saved % h.hashsize
  BY <1>1, <1>2, <1>3, ChainIs
<1>5. i \in 1 .. Len(h.hashtable[b])
  BY <1>4 DEF Matches
<1>6. [q \in Keys |-> Get(h', q)] = [q \in Keys |-> Get(h, q)]
  OBVIOUS
<1>7. CASE loop = "exact"
  <2>1. PICK s : Place(h.hashtable[index], saved, s)
    BY <1>1, <1>7 DEF LoopOK, IterOK
  <2>2. s \in 1 .. Len(h.hashtable[index]) /\ h.hashtable[index][s].key = saved /\ Matches(h.hashtable[index], saved) = {s}
    BY <2>1 DEF Place
  <2>3. h.hashtable[index][s] \in Part(X, h.hashsize, index)
    BY <1>1, <1>2, <2>2 DEF HashOK, Table, Lists
  <2>4. index = b
    BY <1>4, <2>2, <2>3 DEF Part
  <2>5. i = s
    BY <1>4, <2>2, <2>4
  <2>6. Rest = From(h.hashtable[b], i) \cup Ahead(h, b + 1)
    BY <1>1, <1>2, <2>1, <2>4, <2>5, RestIs, RestIsRest
  <2>7. /\ Inv' /\ at' \in Keys /\ at' # Null /\ result' = [q \in Keys |-> Get(h, q)][at']
        /\ loop' = loop /\ at' \in Rest /\ Rest' = Rest \ {at'}
    BY <1>2, <1>3, <1>4, <1>5, <1>7, <2>4, <2>6, VisitLoop
  <2>8. Map!Meet(Rest)
    BY <1>6, <1>7, <2>7 DEF Map!Meet
  <2> QED
    BY <1>7, <2>7, <2>8
<1>8. CASE loop = "moved"
  <2>1. /\ Inv' /\ at' \in Keys /\ at' # Null /\ result' = [q \in Keys |-> Get(h, q)][at']
        /\ loop' = loop /\ at' \in Map!Names
    BY <1>2, <1>3, <1>4, <1>5, <1>8, VisitLoop
  <2>2. Map!Stray
    BY <1>6, <1>8, <2>1 DEF Map!Stray
  <2> QED
    BY <1>8, <2>1, <2>2
<1> QED
  BY <1>1, <1>7, <1>8 DEF LoopOK

\* The iterator reads a node that was freed.
LEMMA FreedStep ==
  ASSUME NEW X, InvWith(X), at # Null, h' = h, loop = "freed", ReadFreed
  PROVE  Inv' /\ Map!Lost
<1>1. HashOK(h, X) /\ Roomy(h) /\ LoopOK(h, X, index, saved, at, loop)
  BY DEF InvWith
<1>2. [q \in Keys |-> Get(h', q)] = [q \in Keys |-> Get(h, q)]
  OBVIOUS
<1>3. CASE End
  <2>1. Inv' /\ Map!EndLoop
    BY <1>3, EndsLoop
  <2> QED
    BY <1>2, <2>1 DEF Map!Lost
<1>4. CASE ~ End
  <2>1. PICK f \in Freed : at' = f[1] /\ result' = f[2] /\ saved' = f[3]
    BY <1>4 DEF ReadFreed
  <2>2. index' = index /\ loop' = loop
    BY <1>4 DEF ReadFreed
  <2>3. at' \in Keys /\ result' \in Vals /\ saved' \in Keys \cup {Null}
    BY <2>1, DohHashAssumption DEF Null
  <2>4. at' # Null /\ index \in 0 .. h.hashsize - 1
    BY <1>1, <2>3, KeysAreNat DEF Null, LoopOK
  <2>5. LoopOK(h', X, index', saved', at', loop')
    BY <2>2, <2>3, <2>4 DEF LoopOK
  <2>6. Inv'
    BY <1>1, <2>5, InvIf
  <2> QED
    BY <1>2, <2>2, <2>3, <2>6 DEF Map!Lost
<1> QED
  BY <1>3, <1>4

\* A loop that has met a freed node goes on with the chains from b on.
LEMMA LostGoesOn ==
  ASSUME NEW X, InvWith(X), NEW b \in Nat, h' = h, VisitFrom(b), loop = "freed"
  PROVE  Inv' /\ Map!Lost
<1>1. HashOK(h, X)
  BY DEF InvWith
<1>2. [q \in Keys |-> Get(h', q)] = [q \in Keys |-> Get(h, q)]
  OBVIOUS
<1>3. CASE Later(b) = {}
  <2>1. Inv' /\ Map!EndLoop
    BY <1>3, EndsLoop DEF VisitFrom
  <2> QED
    BY <1>2, <2>1 DEF Map!Lost
<1>4. CASE Later(b) # {}
  <2>1. PICK d : d = Min(Later(b))
    OBVIOUS
  <2>2. d \in 0 .. h.hashsize - 1 /\ 1 \in 1 .. Len(h.hashtable[d])
    BY <1>1, <1>4, <2>1, LaterIs
  <2>3. index' = d /\ Visit(d, 1)
    BY <1>4, <2>1 DEF VisitFrom, Visit
  <2>4. Inv' /\ at' \in Keys /\ result' \in Vals /\ loop' = loop
    BY <2>2, <2>3, VisitLoop
  <2> QED
    BY <1>2, <2>4 DEF Map!Lost
<1> QED
  BY <1>3, <1>4

\* Hash_nextiter is Advance of the map.
LEMMA NextStep ==
  ASSUME NEW X, InvWith(X), Hash_nextiter
  PROVE  MapStep
<1>1. at # Null /\ h' = h
  BY DEF Hash_nextiter, Looping
<1>2. HashOK(h, X) /\ LoopOK(h, X, index, saved, at, loop)
  BY DEF InvWith
<1>3. index \in 0 .. h.hashsize - 1 /\ index + 1 \in Nat /\ loop \in {"exact", "moved", "freed"}
  BY <1>1, <1>2 DEF LoopOK
<1>4. CASE saved = Null /\ loop # "freed"
  <2>1. VisitFrom(index + 1)
    BY <1>4 DEF Hash_nextiter
  <2>2. loop = "exact" => Rest = Ahead(h, index + 1)
    BY <1>1, <1>2, <1>3, <1>4, RestIs, RestIsRest
  <2>3. PICK S : S = Ahead(h, index + 1)
    OBVIOUS
  <2>4. Inv' /\ (loop = "exact" => Map!Meet(S)) /\ (loop = "moved" => Map!Stray)
    BY <1>1, <1>3, <1>4, <2>1, <2>3, GoesOn
  <2>5. Map!Advance
    BY <1>1, <1>3, <1>4, <2>2, <2>3, <2>4 DEF Map!Advance
  <2> QED
    BY <2>4, <2>5 DEF MapStep, Map!Next
<1>5. CASE saved # Null /\ loop # "freed"
  <2>1. PICK i : index' = index /\ i \in Matches(Chain(h, saved), saved) /\ Visit(Bucket(h, saved), i)
    BY <1>5 DEF Hash_nextiter
  <2>2. Inv' /\ (loop = "exact" => Map!Meet(Rest)) /\ (loop = "moved" => Map!Stray)
    BY <1>1, <1>5, <2>1, SavedStep
  <2>3. Map!Advance
    BY <1>1, <1>3, <1>5, <2>2 DEF Map!Advance
  <2> QED
    BY <2>2, <2>3 DEF MapStep, Map!Next
<1>6. CASE saved # Null /\ loop = "freed"
  <2>1. Inv' /\ Map!Lost
    BY <1>1, <1>6, FreedStep DEF Hash_nextiter
  <2>2. Map!Advance
    BY <1>1, <1>6, <2>1 DEF Map!Advance
  <2> QED
    BY <2>1, <2>2 DEF MapStep, Map!Next
<1>7. CASE saved = Null /\ loop = "freed"
  <2>1. VisitFrom(index + 1)
    BY <1>7 DEF Hash_nextiter
  <2>2. Inv' /\ Map!Lost
    BY <1>1, <1>3, <1>7, <2>1, LostGoesOn
  <2>3. Map!Advance
    BY <1>1, <1>7, <2>2 DEF Map!Advance
  <2> QED
    BY <2>2, <2>3 DEF MapStep, Map!Next
<1> QED
  BY <1>4, <1>5, <1>6, <1>7

\* Every step keeps the invariant and is one of the map, or is not seen.
LEMMA EveryStep ==
  ASSUME Inv, [Next]_vars
  PROVE  MapStep
<1>1. PICK X : InvWith(X)
  BY DEF Inv
<1>2. CASE Next
  <2>1. CASE \E k \in Keys : GetattrCall(k) \/ DelattrCall(k)
    BY <1>1, <2>1, GetattrStep, DelattrStep
  <2>2. CASE \E s \in Stores : SetattrCall(s[1], s[2])
    <3>1. PICK s \in Stores : SetattrCall(s[1], s[2])
      BY <2>2
    <3>2. s[1] \in Keys /\ s[2] \in Vals
      BY DohHashAssumption
    <3> QED
      BY <1>1, <3>1, <3>2, SetattrStep
  <2> QED
    BY <1>1, <1>2, <2>1, <2>2, ClearStep, CopyStepsMap, FirstStep, NextStep DEF Next
<1>3. CASE UNCHANGED vars
  <2>1. h' = h /\ index' = index /\ saved' = saved /\ at' = at /\ loop' = loop /\ result' = result
    BY <1>3 DEF vars
  <2>2. Inv'
    BY <1>1, <2>1, InvIf DEF InvWith
  <2>3. Rest' = Rest /\ [q \in Keys |-> Get(h', q)] = [q \in Keys |-> Get(h, q)]
    BY <2>1, RestIsRest
  <2>4. UNCHANGED Map!vars
    BY <2>1, <2>3 DEF Map!vars
  <2> QED
    BY <2>2, <2>4 DEF MapStep
<1> QED
  BY <1>2, <1>3

\* Inv is an invariant of the hash table: every node of the set X that the table stands
\* for is in the chain of its key exactly once, and the node that an iterator has saved
\* is in the chain it is in; when the table has grown since, in some chain.
THEOREM Invariance == Spec => []Inv
<1>1. Init => Inv
  BY InvInit
<1>2. Inv /\ [Next]_vars => Inv'
  BY EveryStep DEF MapStep
<1> QED
  BY <1>1, <1>2, PTL DEF Spec

\* No call leaves a node in a chain where Hash_getattr would not look for it, or two
\* nodes with one key: also not resize, which moves all nodes, nor CopyHash.
THEOREM NodesWellPlaced == Spec => []WellPlaced
<1>1. ASSUME Inv PROVE WellPlaced
  <2>1. PICK X : HashOK(h, X)
    BY <1>1 DEF Inv, InvWith
  <2>2. h.hashsize \in Nat \ {0} /\ DOMAIN h.hashtable = 0 .. h.hashsize - 1
    BY <2>1 DEF HashOK, Table
  <2>3. ASSUME NEW b \in 0 .. h.hashsize - 1, NEW i \in DOMAIN h.hashtable[b]
        PROVE  Bucket(h, h.hashtable[b][i].key) = b /\ Matches(h.hashtable[b], h.hashtable[b][i].key) = {i}
    <3>1. Lists(h.hashtable[b], Part(X, h.hashsize, b))
      BY <2>1 DEF HashOK, Table
    <3>2. i \in 1 .. Len(h.hashtable[b])
      BY <3>1 DEF Lists
    <3>3. h.hashtable[b][i] \in Part(X, h.hashsize, b)
      BY <3>1, <3>2 DEF Lists
    <3> QED
      BY <3>1, <3>2, <3>3, MatchIs DEF Part, Bucket
  <2> QED
    BY <2>2, <2>3 DEF WellPlaced
<1> QED
  BY <1>1, Invariance, PTL

\* Hash_len is exact after every call, and every call leaves fewer than two nodes per chain
\* on average.
THEOREM LengthExact == Spec => []LenExact
<1>1. ASSUME Inv PROVE LenExact
  <2>1. PICK X : HashOK(h, X) /\ Roomy(h)
    BY <1>1 DEF Inv, InvWith
  <2>2. Lists(Nodes(h), X)
    BY <2>1, NodesList DEF HashOK
  <2>3. Cardinality(X) = Len(Nodes(h))
    BY <2>2, ListsFinite
  <2> QED
    BY <2>1, <2>3 DEF LenExact, HashOK, Roomy
<1> QED
  BY <1>1, Invariance, PTL

\* The hash table implements DohMap, whatever is set, replaced, deleted or cleared
\* between two iterations: the calls always act on it as on a map, and resizing is not
\* seen.  A loop meets every attribute that is there all the time exactly once, until
\* the table grows, after which it still meets only attributes that are there and
\* returns their objects, or until its next item is deleted, after which nothing is
\* promised of the loop, but everything of the map.
THEOREM HashIsMap == Spec => MapSpec
<1>1. Init => Map!Init
  BY InvInit
<1>2. Inv /\ [Next]_vars => [Map!Next]_Map!vars
  BY EveryStep DEF MapStep
<1> QED
  BY <1>1, <1>2, Invariance, PTL DEF Spec, MapSpec, Map!Spec
=============================================================================
