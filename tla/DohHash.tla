------------------------------ MODULE DohHash ------------------------------
(***************************************************************************)
(* The hash table of DOH (DOH/hash.c): an array of chains of nodes, which  *)
(* grows with the number of nodes, and an iterator that remembers the node *)
(* it goes on with.  DohMap is what it promises.                           *)
(*                                                                         *)
(* A key is its own hash value.  Keys are unique in the table, so a node   *)
(* is named by its key.  Who owns the keys and objects is the subject of   *)
(* DohObjects.                                                             *)
(***************************************************************************)
EXTENDS Naturals, Sequences, FiniteSets, SequencesExt

CONSTANTS
  Keys,      \* the attribute names, as hash values
  Vals,      \* the objects that can be stored
  Stores,    \* which objects the client stores under which name
  Freed,     \* what may be read of a freed node: a name, an object and the next node
  InitSize   \* HASH_INIT_SIZE

ASSUME DohHashAssumption ==
  /\ Keys \subseteq Nat \ {0}
  /\ Vals \subseteq Nat \ {0}
  /\ Stores \subseteq Keys \X Vals
  /\ Freed \subseteq Keys \X Vals \X (Keys \cup {0})
  /\ InitSize \in Nat \ {0}

Null == 0

VARIABLES
  h,       \* the table: its size, its chains and its number of nodes
  index,   \* iter._index: the chain that the iterator is in
  saved,   \* iter._current: the node that the iterator goes on with
  at,      \* iter.key: the key that the iterator is at, Null when it has ended
  loop,    \* history: "exact"; "moved" when the table has grown during the loop;
           \* "freed" when the saved node was deleted
  result   \* what the last call returned

iterator == <<index, saved, at>>
vars == <<h, index, saved, at, loop, result>>

Empty(n) == [hashsize |-> n, hashtable |-> [b \in 0 .. n - 1 |-> <<>>], nitems |-> 0]

Init ==
  /\ h = Empty(InitSize)
  /\ index = 0
  /\ saved = Null
  /\ at = Null
  /\ loop = "exact"
  /\ result = Null
-----------------------------------------------------------------------------
(* The table as a data structure.                                           *)

Bucket(t, k) == k % t.hashsize
Chain(t, k)  == t.hashtable[Bucket(t, k)]

\* The nodes of a chain whose key is k, and of all chains, in the order of a walk.
Matches(c, k) == {i \in 1 .. Len(c) : c[i].key = k}
Nodes(t)      == FlattenSeq([b \in 1 .. t.hashsize |-> t.hashtable[b - 1]])

\* The size that resize computes: from n on, the first in steps of 2 that has no odd
\* factor below half of it.
Accepted(n)       == \A p \in 3 .. (n \div 2) - 1 : p % 2 = 1 => n % p # 0
Search[n \in Nat] == IF Accepted(n) THEN n ELSE Search[n + 2]
NewSize(old)      == Search[2 * old + 1]

\* The nodes ns, one after the other put in front of the chain that the size n selects.
Moved(ns, n) ==
  LET table[i \in 0 .. Len(ns)] ==
        IF i = 0 THEN [b \in 0 .. n - 1 |-> <<>>]
        ELSE [table[i - 1] EXCEPT ![ns[i].key % n] = <<ns[i]>> \o @]
  IN  table[Len(ns)]

\* Mutant: the old size selects the chains.
ResizeInPlace(t) ==
  IF t.nitems < 2 * t.hashsize THEN t
  ELSE LET new == NewSize(t.hashsize)
           old == Moved(Nodes(t), t.hashsize)
       IN  [hashsize |-> new, nitems |-> t.nitems,
            hashtable |-> [b \in 0 .. new - 1 |-> IF b < t.hashsize THEN old[b] ELSE <<>>]]

\* resize
Resize(t) ==
  IF t.nitems < 2 * t.hashsize THEN t
  ELSE LET new == NewSize(t.hashsize)
       IN  [hashsize |-> new, hashtable |-> Moved(Nodes(t), new), nitems |-> t.nitems]

\* Hash_setattr: the first node with the key is changed, or one is added at the end.
Set(t, k, v) ==
  LET b == Bucket(t, k)
      m == Matches(Chain(t, k), k)
  IN  IF m # {}
      THEN [t EXCEPT !.hashtable[b][Min(m)].val = v]
      ELSE Resize([t EXCEPT !.hashtable[b] = Append(@, [key |-> k, val |-> v]), !.nitems = @ + 1])

\* Hash_getattr walks the whole chain: the last node with the key counts.
Get(t, k) ==
  LET m == Matches(Chain(t, k), k) IN IF m = {} THEN Null ELSE Chain(t, k)[Max(m)].val

\* Mutant: a node is counted as deleted even if there is none.
DelCountsAll(t, k) ==
  LET m == Matches(Chain(t, k), k)
  IN  IF m = {} THEN [t EXCEPT !.nitems = @ - 1]
      ELSE [t EXCEPT !.hashtable[Bucket(t, k)] = RemoveAt(@, Min(m)), !.nitems = @ - 1]

\* Hash_delattr: the first node with the key is unlinked.
Del(t, k) ==
  LET m == Matches(Chain(t, k), k)
  IN  IF m = {} THEN t
      ELSE [t EXCEPT !.hashtable[Bucket(t, k)] = RemoveAt(@, Min(m)), !.nitems = @ - 1]

\* Is k in table t?
Has(t, k) == Matches(Chain(t, k), k) # {}

\* CopyHash: all nodes are set in an empty table of the same size.
Copy(t) ==
  LET ns == Nodes(t)
      copy[i \in 0 .. Len(ns)] ==
        IF i = 0 THEN Empty(t.hashsize) ELSE Set(copy[i - 1], ns[i].key, ns[i].val)
  IN  copy[Len(ns)]
-----------------------------------------------------------------------------
(* The calls, also between two iterations of a loop.                       *)

Looping == at # Null

\* resize leaves every node where it is in memory, so the saved node stays the same,
\* but in another chain.
SetattrCall(k, v) ==
  /\ h' = Set(h, k, v)
  /\ loop' = IF Looping /\ loop = "exact" /\ h'.hashsize # h.hashsize THEN "moved" ELSE loop
  /\ result' = IF Has(h, k) THEN 1 ELSE 0
  /\ UNCHANGED iterator

GetattrCall(k) ==
  /\ result' = Get(h, k)
  /\ UNCHANGED <<h, loop, iterator>>

DelattrCall(k) ==
  /\ h' = Del(h, k)
  /\ loop' = IF saved = k THEN "freed" ELSE loop
  /\ result' = IF Has(h, k) THEN 1 ELSE 0
  /\ UNCHANGED iterator

\* Hash_clear keeps the size.
ClearCall ==
  /\ h' = Empty(h.hashsize)
  /\ loop' = IF saved # Null THEN "freed" ELSE loop
  /\ UNCHANGED <<iterator, result>>

\* The client goes on with a copy.
CopyCall ==
  /\ ~ Looping
  /\ h' = Copy(h)
  /\ UNCHANGED <<iterator, loop, result>>

\* The first node of the first chain from b on that is not empty.
Later(b) == {i \in b .. h.hashsize - 1 : h.hashtable[i] # <<>>}

\* The node after node i of chain b.
After(b, i) == IF i < Len(h.hashtable[b]) THEN h.hashtable[b][i + 1].key ELSE Null

\* The iterator is now at node i of chain b, and saves the node after it.
Visit(b, i) ==
  /\ at' = h.hashtable[b][i].key
  /\ result' = h.hashtable[b][i].val
  /\ saved' = After(b, i)
  /\ loop' = loop

\* The iterator has ended; its index is not used any more.
End == index' = 0 /\ saved' = Null /\ at' = Null /\ loop' = "exact" /\ result' = Null

\* The iterator goes on with the chains from b on.
VisitFrom(b) ==
  IF Later(b) = {} THEN End ELSE index' = Min(Later(b)) /\ Visit(index', 1)

\* The saved node was freed: what is read in its place is undefined.
ReadFreed ==
  \/ End
  \/ /\ \E f \in Freed : at' = f[1] /\ result' = f[2] /\ saved' = f[3]
     /\ UNCHANGED <<index, loop>>

\* Hash_firstiter
Hash_firstiter ==
  /\ ~ Looping
  /\ VisitFrom(0)
  /\ UNCHANGED h

\* Mutant: the iterator looks for the chain of the node that it is at, and starts it again.
NextiterSameChain ==
  /\ Looping
  /\ \/ saved = Null /\ VisitFrom(index)
     \/ /\ saved # Null /\ loop # "freed" /\ index' = index
        /\ \E i \in Matches(Chain(h, saved), saved) : Visit(Bucket(h, saved), i)
     \/ saved # Null /\ loop = "freed" /\ ReadFreed
  /\ UNCHANGED h

\* Hash_nextiter: the saved node is read wherever it is, and the index stays.
Hash_nextiter ==
  /\ Looping
  /\ \/ saved = Null /\ VisitFrom(index + 1)
     \/ /\ saved # Null /\ loop # "freed" /\ index' = index
        /\ \E i \in Matches(Chain(h, saved), saved) : Visit(Bucket(h, saved), i)
     \/ saved # Null /\ loop = "freed" /\ ReadFreed
  /\ UNCHANGED h

Next ==
  \/ \E k \in Keys : GetattrCall(k) \/ DelattrCall(k)
  \/ \E s \in Stores : SetattrCall(s[1], s[2])
  \/ ClearCall \/ CopyCall \/ Hash_firstiter \/ Hash_nextiter

Spec == Init /\ [][Next]_vars
-----------------------------------------------------------------------------
\* Every node is in the chain where its key is looked for, and no key has two
\* nodes: otherwise Hash_setattr, Hash_getattr and Hash_delattr, which stop at
\* different nodes, disagree.
WellPlaced ==
  \A b \in DOMAIN h.hashtable :
    LET c == h.hashtable[b]
    IN  \A i \in DOMAIN c : Bucket(h, c[i].key) = b /\ Matches(c, c[i].key) = {i}

\* Hash_len is the number of nodes, and the chains are short on average: a call
\* never leaves a table that resize would have to grow.
LenExact == h.nitems = Len(Nodes(h)) /\ h.nitems < 2 * h.hashsize

\* The nodes that the iterator has still to meet: the rest of the chain from the
\* saved node on, and the chains after it.
Rest ==
  LET c == h.hashtable[index]
      here == {c[j].key : j \in {i \in 1 .. Len(c) : saved # Null /\ \E s \in Matches(c, saved) : i >= s}}
      later == UNION {{h.hashtable[b][i].key : i \in DOMAIN h.hashtable[b]} : b \in index + 1 .. h.hashsize - 1}
  IN  IF Looping THEN here \cup later ELSE {}

Map == INSTANCE DohMap WITH
         Absent <- Null, map <- [k \in Keys |-> Get(h, k)], iter <- at,
         todo <- IF loop = "exact" THEN Rest ELSE {}

\* The hash table is a map whatever is called between two iterations of a loop.  The
\* loop meets every attribute once, and "this makes it possible to delete the item being
\* iterated over without trashing the universe" (hash.c:335), until the table grows, or
\* an item that it has still to meet is deleted.  When the table has grown, the loop
\* still meets only attributes that are there.
MapSpec == Map!Spec
=============================================================================
