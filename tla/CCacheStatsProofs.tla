------------------------- MODULE CCacheStatsProofs -------------------------
(***************************************************************************)
(* No update of the stats file loses the limit, however many processes     *)
(* update it.  Every writer rewrites the whole file from the counters it   *)
(* has read, so the proof is about the lock: who has read the file holds   *)
(* the lock, and has the limit that is still in the file.                  *)
(*                                                                         *)
(* A cleanup holds no lock, and everyone else may put, use and delete      *)
(* files while it runs.  What it stores, and which files it spares,        *)
(* follows from its list and from the times that others can set meanwhile. *)
(***************************************************************************)
EXTENDS CCacheStats, FiniteSetTheorems, FunctionTheorems, SequenceTheorems, TLAPS

\* What the proof needs of the types.
Shape ==
  /\ pc \in [Procs -> {"idle", "lock", "read", "write", "list", "delete"}]
  /\ DOMAIN counters = Procs

\* A process that reads or writes the file holds the lock.
Holders == \A p \in Procs : pc[p] \in {"read", "write"} => lock = p

\* The limit that a process has read is the one it is going to overwrite.
Fresh == \A p \in Procs : pc[p] = "write" => counters[p].max = stats.max

LockInv == Shape /\ Holders /\ Fresh /\ LimitKept
-----------------------------------------------------------------------------
\* The stats file starts without a limit, and nobody uses it.
LEMMA LockInit == Init => LockInv
  BY DEF Init, LockInv, Shape, Holders, Fresh, LimitKept

\* Every step of every process keeps the lock's discipline, and with it the limit.
LEMMA LockNext == LockInv /\ [Next]_vars => LockInv'
<1> SUFFICES ASSUME LockInv, [Next]_vars
             PROVE  LockInv'
  OBVIOUS
<1> USE CCacheStatsAssumption DEF LockInv, LimitKept, Free
<1>1. ASSUME NEW p \in Procs, Put(p)
      PROVE  LockInv'
  BY <1>1 DEF Put, Update, Goto, local, Shape, Holders, Fresh
<1>2. ASSUME NEW p \in Procs, Hit(p)
      PROVE  LockInv'
  BY <1>2 DEF Hit, Update, Goto, local, Shape, Holders, Fresh
<1>3. ASSUME NEW p \in Procs, SetLimits(p)
      PROVE  LockInv'
  BY <1>3 DEF SetLimits, Update, Goto, local, Shape, Holders, Fresh
<1>4. ASSUME NEW p \in Procs, Zero(p)
      PROVE  LockInv'
  BY <1>4 DEF Zero, Update, Goto, local, Shape, Holders, Fresh
<1>5. ASSUME NEW p \in Procs, Discard(p)
      PROVE  LockInv'
  BY <1>5 DEF Discard, local, Shape, Holders, Fresh
<1>6. ASSUME NEW p \in Procs, CleanAll(p)
      PROVE  LockInv'
  BY <1>6 DEF CleanAll, CleanUp, Goto, Shape, Holders, Fresh
<1>7. ASSUME NEW p \in Procs, WipeAll(p)
      PROVE  LockInv'
  BY <1>7 DEF WipeAll, CleanUp, Goto, Shape, Holders, Fresh
<1>8. ASSUME NEW p \in Procs, LockStats(p)
      PROVE  LockInv'
  BY <1>8 DEF LockStats, Goto, local, Shape, Holders, Fresh
<1>9. ASSUME NEW p \in Procs, ReadStats(p)
      PROVE  LockInv'
  BY <1>9 DEF ReadStats, Goto, Shape, Holders, Fresh
<1>10. ASSUME NEW p \in Procs, WriteStats(p)
      PROVE  LockInv'
  <2>1. /\ stats'.max = limit'
        /\ lock' = Free
    BY <1>10 DEF WriteStats, Changed, Fresh
  <2>2. \A q \in Procs \ {p} : pc[q] \notin {"read", "write"}
    BY <1>10 DEF WriteStats, Holders
  <2>3. CASE NeedCleanup(p, Changed(p))
    <3>1. /\ counters' = [counters EXCEPT ![p] = [files |-> 0, max |-> stats'.max]]
          /\ pc' = [pc EXCEPT ![p] = "list"]
      BY <1>10, <2>3 DEF WriteStats, Written, CleanUp, Goto
    <3> QED
      BY <2>1, <2>2, <3>1 DEF Shape, Holders, Fresh
  <2>4. CASE ~ NeedCleanup(p, Changed(p))
    <3>1. /\ counters' = [counters EXCEPT ![p] = [files |-> 0, max |-> 0]]
          /\ pc' = [pc EXCEPT ![p] = "idle"]
      BY <1>10, <2>4 DEF WriteStats, Written, Finish, Goto
    <3> QED
      BY <2>1, <2>2, <3>1 DEF Shape, Holders, Fresh
  <2> QED
    BY <2>3, <2>4
<1>11. ASSUME NEW p \in Procs, List(p)
      PROVE  LockInv'
  BY <1>11 DEF List, Goto, Shape, Holders, Fresh
<1>12. ASSUME NEW p \in Procs, Delete(p)
      PROVE  LockInv'
  BY <1>12 DEF Delete, Shape, Holders, Fresh
<1>13. ASSUME NEW p \in Procs, SetSizes(p)
      PROVE  LockInv'
  BY <1>13 DEF SetSizes, Update, Goto, local, Shape, Holders, Fresh
<1>14. ASSUME NEW p \in Procs, Kill(p)
      PROVE  LockInv'
  BY <1>14 DEF Kill, Finish, Goto, Shape, Holders, Fresh
<1>15. CASE Tick
  BY <1>15 DEF Tick, local, Shape, Holders, Fresh
<1>16. CASE UNCHANGED vars
  BY <1>16 DEF vars, Shape, Holders, Fresh
<1> QED
  BY <1>1, <1>2, <1>3, <1>4, <1>5, <1>6, <1>7, <1>8, <1>9, <1>10, <1>11, <1>12, <1>13, <1>14, <1>15, <1>16 DEF Next, Step

\* However the updates of stats_update_size, stats_set_limits, stats_zero and
\* stats_set_sizes interleave, and whoever is killed in between, the limit in the
\* stats file is the one that was set last.
THEOREM LimitIsKept == Spec => []LimitKept
<1>1. LockInv => LimitKept
  BY DEF LockInv
<1> QED
  BY LockInit, LockNext, <1>1, PTL DEF Spec
-----------------------------------------------------------------------------
(***************************************************************************)
(* The cleanup.  OwnInv says what a process knows of the files its compile *)
(* has put, whatever others do; SpareInv why its cleanup spares them; and  *)
(* CoverInv which files the count of a cleanup still covers.               *)
(***************************************************************************)
Kinds == {"none", "compile", "count", "limit", "zero", "sizes"}
Pcs   == {"idle", "lock", "read", "write", "list", "delete"}

\* What the stats file may hold.
Counters == [files : Nat, max : Limits \cup {0}]

\* What a cleanup knows of a file.
Entry == [fname : Names, mtime : Nat]

Typed ==
  /\ mtime \in [Names -> Nat] /\ clock \in Nat \ {0} /\ \A f \in Names : mtime[f] <= clock
  /\ stats \in Counters /\ counters \in [Procs -> Counters]
  /\ pc \in [Procs -> Pcs]
  /\ task \in [Procs -> [kind : Kinds, value : Nat]]
  /\ put \in [Procs -> SUBSET Names] /\ min \in [Procs -> Nat]
  /\ found \in [Procs -> Seq(Entry)] /\ at \in [Procs -> Nat \ {0}]
  /\ since \in [Procs -> Nat] /\ \A p \in Procs : since[p] <= clock
  /\ missed \in [Procs -> SUBSET Names]
  /\ \A p \in Procs : task[p].kind = "limit" => task[p].value \in Limits
  /\ \A p \in Procs : pc[p] = "delete" => at[p] <= Len(found[p]) + 1

\* A process that writes the file has read what is still in it.
AllFresh == \A p \in Procs : pc[p] = "write" => counters[p] = stats

\* The files a compile has put, while they are counted and until they are listed,
\* have at least the time they were put with, or are gone.
Own(p) ==
  /\ IsFiniteSet(put[p]) /\ Cardinality(put[p]) = NPut
  /\ \A f \in put[p] : mtime[f] = 0 \/ mtime[f] >= since[p]

OwnInv ==
  \A p \in Procs : task[p].kind = "compile" =>
    /\ pc[p] \in {"lock", "read", "write", "list"} => Own(p)
    /\ pc[p] \in {"lock", "read", "write"} => task[p].value = NPut
    /\ pc[p] = "list" => min[p] = NPut
    /\ pc[p] # "idle"

\* As many of the listed files as a compile puts are newer than those it has put.
Overtaken(p) == Cardinality({j \in 1 .. Len(found[p]) : found[p][j].mtime > since[p]}) >= NPut

\* The cleanup has not gone beyond min files before the end, and none of the files
\* before is one that its compile has put.
SpareInv ==
  \A p \in Procs : pc[p] = "delete" /\ task[p].kind = "compile" =>
    /\ at[p] = 1 \/ (at[p] - 1) + min[p] <= Len(found[p])
    /\ \/ Overtaken(p)
       \/ \A j \in 1 .. Len(found[p]) : j + min[p] <= Len(found[p]) => found[p][j].fname \notin put[p]
    /\ min[p] # 0

\* The files that a cleanup has listed and not come to yet.
Rest(p) == {found[p][j].fname : j \in at[p] .. Len(found[p])}

\* What a cleanup counts, or has counted, covers all files but those it has missed.
CoverInv ==
  \A p \in Procs :
    /\ pc[p] = "delete" => Present \ missed[p] \subseteq Rest(p)
    /\ pc[p] \in {"lock", "read", "write"} /\ task[p].kind = "sizes" =>
         Cardinality(Present \ missed[p]) <= task[p].value

\* The files that the stored count has to cover.
Covered == {f \in Present \ uncounted : \A p \in Procs : Pending(p) => f \notin put[p]}
-----------------------------------------------------------------------------
(* The list that qsort makes of the files that are there.                   *)

Below(f) == {g \in Present : Before(g, f)}

LEMMA PresentFinite == IsFiniteSet(Present) /\ Cardinality(Present) \in Nat
<1>1. IsFiniteSet(Names) /\ Present \in SUBSET Names
  BY CCacheStatsAssumption DEF Present
<1>2. IsFiniteSet(Present)
  BY <1>1, FS_Subset
<1> QED
  BY <1>2, FS_CardinalityType

LEMMA BelowFinite == ASSUME NEW f PROVE IsFiniteSet(Below(f)) /\ Cardinality(Below(f)) \in Nat
<1>1. IsFiniteSet(Below(f))
  BY PresentFinite, FS_Subset DEF Below
<1> QED
  BY <1>1, FS_CardinalityType

\* files_compare orders any two files.
LEMMA BeforeTotal ==
  ASSUME mtime \in [Names -> Nat], NEW f \in Present, NEW g \in Present
  PROVE  /\ f = g \/ Before(f, g) \/ Before(g, f)
         /\ ~ Before(f, f)
         /\ Before(f, g) => mtime[f] <= mtime[g]
         /\ \A h \in Present : Before(h, f) /\ Before(f, g) => Before(h, g)
  BY CCacheStatsAssumption DEF Before, Present

\* What comes first has less below it.
LEMMA BelowGrows ==
  ASSUME mtime \in [Names -> Nat], NEW f \in Present, NEW g \in Present, Before(f, g)
  PROVE  Cardinality(Below(f)) < Cardinality(Below(g))
<1>1. f \notin Below(f) /\ Below(f) \cup {f} \in SUBSET Below(g)
  BY BeforeTotal DEF Below
<1>2. Cardinality(Below(f) \cup {f}) = Cardinality(Below(f)) + 1
  BY <1>1, BelowFinite, FS_AddElement
<1>3. Cardinality(Below(f) \cup {f}) <= Cardinality(Below(g))
  BY <1>1, BelowFinite, FS_Subset
<1> QED
  BY <1>2, <1>3, BelowFinite

\* Every number of files below is that of exactly one file.
LEMMA BelowCounts ==
  ASSUME mtime \in [Names -> Nat]
  PROVE  LET N == Cardinality(Present) IN
         /\ \A f, g \in Present : Cardinality(Below(f)) = Cardinality(Below(g)) => f = g
         /\ \A f \in Present : Cardinality(Below(f)) \in 0 .. N - 1
         /\ \A j \in 0 .. N - 1 : \E f \in Present : Cardinality(Below(f)) = j
<1> DEFINE N == Cardinality(Present)
           B == 0 .. N - 1
           r == [f \in Present |-> Cardinality(Below(f))]
<1>1. N \in Nat
  BY PresentFinite
<1>2. ASSUME NEW f \in Present, NEW g \in Present, Cardinality(Below(f)) = Cardinality(Below(g))
      PROVE  f = g
  BY <1>2, BeforeTotal, BelowGrows, BelowFinite
<1>3. ASSUME NEW f \in Present PROVE Cardinality(Below(f)) \in B
  <2>1. Below(f) \in SUBSET (Present \ {f})
    BY BeforeTotal DEF Below
  <2>2. IsFiniteSet(Present \ {f}) /\ Cardinality(Present \ {f}) = N - 1
    BY PresentFinite, FS_RemoveElement
  <2>3. Cardinality(Below(f)) <= N - 1
    BY <2>1, <2>2, FS_Subset
  <2> QED
    BY <1>1, <2>3, BelowFinite
<1>4. IsFiniteSet(B) /\ Cardinality(B) = N
  BY <1>1, FS_Interval
<1>5. r \in Injection(Present, B)
  BY <1>2, <1>3, Zenon DEF Injection, IsInjective
<1>6. r \in Surjection(Present, B)
  <2> HIDE DEF r, B
  <2> QED
    BY <1>4, <1>5, FS_Injection
<1>7. ASSUME NEW j \in B PROVE \E f \in Present : Cardinality(Below(f)) = j
  <2>1. \A t \in B : \E f \in Present : r[f] = t
    BY <1>6, Zenon DEF Surjection
  <2>2. PICK f \in Present : r[f] = j
    BY <2>1
  <2> QED
    BY <2>2
<1> QED
  BY <1>2, <1>3, <1>7

Sorted(s) ==
  /\ s \in Seq(Entry) /\ Len(s) \in Nat
  /\ \A j \in 1 .. Len(s) : s[j].fname \in Present /\ s[j].mtime = mtime[s[j].fname]
  /\ \A f \in Present : \E j \in 1 .. Len(s) : s[j].fname = f
  /\ \A i, j \in 1 .. Len(s) : i <= j => s[i].mtime <= s[j].mtime

\* OldestFirst lists every file, the oldest first.
LEMMA Listed ==
  ASSUME mtime \in [Names -> Nat]
  PROVE  Sorted(OldestFirst)
<1> DEFINE N == Cardinality(Present)
           s == OldestFirst
           k(f) == Cardinality(Below(f))
           e(j) == CHOOSE f \in Present : Cardinality({g \in Present : Before(g, f)}) = j - 1
<1>1. N \in Nat
  BY PresentFinite
<1>2. ASSUME NEW j \in 1 .. N
      PROVE  e(j) \in Present /\ k(e(j)) = j - 1
  <2>1. j - 1 \in 0 .. N - 1
    BY <1>1
  <2>2. \E f \in Present : Cardinality(Below(f)) = j - 1
    BY <2>1, BelowCounts
  <2>3. e(j) = CHOOSE f \in Present : Cardinality(Below(f)) = j - 1
    BY DEF Below
  <2> HIDE DEF e
  <2> QED
    BY <2>2, <2>3
<1>3. s = [j \in 1 .. N |-> [fname |-> e(j), mtime |-> mtime[e(j)]]]
  BY DEF OldestFirst
<1> HIDE DEF s, e
<1>4. s \in Seq(Entry) /\ Len(s) = N /\ \A j \in 1 .. N : s[j] = [fname |-> e(j), mtime |-> mtime[e(j)]]
  <2>1. \A j \in 1 .. N : [fname |-> e(j), mtime |-> mtime[e(j)]] \in Entry
    BY <1>2 DEF Present, Entry
  <2> QED
    BY <1>1, <1>3, <2>1
<1>5. ASSUME NEW f \in Present PROVE \E j \in 1 .. N : s[j].fname = f
  <2>1. k(f) \in 0 .. N - 1
    BY BelowCounts
  <2>2. k(f) + 1 \in 1 .. N /\ (k(f) + 1) - 1 = k(f)
    BY <1>1, <2>1
  <2>3. e(k(f) + 1) \in Present /\ k(e(k(f) + 1)) = k(f)
    BY <1>2, <2>2
  <2>4. e(k(f) + 1) = f
    BY <2>3, BelowCounts
  <2> QED
    BY <1>4, <2>2, <2>4
<1>6. ASSUME NEW i \in 1 .. N, NEW j \in 1 .. N, i <= j PROVE mtime[e(i)] <= mtime[e(j)]
  <2>1. CASE i = j
    BY <1>2, <2>1 DEF Present
  <2>2. CASE i # j
    <3>1. /\ e(i) \in Present /\ e(j) \in Present /\ k(e(i)) = i - 1 /\ k(e(j)) = j - 1
      BY <1>2
    <3>2. e(i) # e(j) /\ ~ (k(e(j)) < k(e(i)))
      BY <1>1, <1>6, <2>2, <3>1
    <3>3. ~ Before(e(j), e(i))
      BY <3>1, <3>2, BelowGrows
    <3> QED
      BY <3>1, <3>2, <3>3, BeforeTotal
  <2> QED
    BY <2>1, <2>2
<1>7. Sorted(s)
  <2> HIDE DEF N
  <2>1. \A j \in 1 .. N : s[j].fname = e(j) /\ s[j].mtime = mtime[e(j)]
    BY <1>4
  <2>2. \A j \in 1 .. Len(s) : s[j].fname \in Present /\ s[j].mtime = mtime[s[j].fname]
    BY <1>2, <1>4, <2>1
  <2>3. \A i, j \in 1 .. Len(s) : i <= j => s[i].mtime <= s[j].mtime
    BY <1>4, <1>6, <2>1
  <2> QED
    BY <1>1, <1>4, <1>5, <2>2, <2>3 DEF Sorted
<1> QED
  BY <1>7 DEF s
-----------------------------------------------------------------------------
(* Types, and what a cleanup leaves.                                        *)

\* files_threshold is at most 80% of the limit, and 0 only for a limit below 2.
LEMMA ThresholdFacts ==
  ASSUME NEW m \in Nat
  PROVE  /\ Threshold(m) \in Nat /\ 5 * Threshold(m) <= 4 * m
         /\ m >= 2 => Threshold(m) # 0
  BY DEF Threshold

LEMMA LimitNat == ASSUME NEW v \in Limits \cup {0} PROVE v \in Nat /\ (1 \notin Limits => v # 1)
<1>1. Limits \subseteq Nat
  BY CCacheStatsAssumption
<1> QED
  BY <1>1

\* What minfiles is raised to.
LEMMA AdjustedNat ==
  ASSUME NEW s \in Seq(Entry), NEW m \in Nat
  PROVE  Adjusted(s, m) \in Nat /\ Adjusted(s, m) >= m
<1> DEFINE K == {j \in 1 .. Len(s) - m : s[j].mtime = s[Len(s) - m + 1].mtime}
<1>1. Len(s) \in Nat
  BY LenProperties
<1>2. IsFiniteSet(1 .. Len(s) - m) /\ K \in SUBSET (1 .. Len(s) - m)
  BY <1>1, FS_Interval
<1>3. IsFiniteSet(K)
  BY <1>2, FS_Subset
<1>4. Cardinality(K) \in Nat
  BY <1>3, FS_CardinalityType
<1>5. Adjusted(s, m) = m + Cardinality(K) \/ Adjusted(s, m) = m
  BY DEF Adjusted
<1> HIDE DEF K
<1> QED
  BY <1>4, <1>5

LEMMA TypedInit == Init => Typed
<1> SUFFICES ASSUME Init PROVE Typed
  OBVIOUS
<1>1. found \in [Procs -> Seq(Entry)]
  BY EmptySeq DEF Init
<1>2. stats \in Counters /\ counters \in [Procs -> Counters]
  BY DEF Init, Counters
<1>3. task \in [Procs -> [kind : Kinds, value : Nat]] /\ \A p \in Procs : task[p].kind # "limit"
  BY DEF Init, NoTask, Kinds
<1>4. pc \in [Procs -> Pcs] /\ \A p \in Procs : pc[p] # "delete"
  BY DEF Init, Pcs
<1>5. /\ mtime \in [Names -> Nat] /\ clock \in Nat \ {0} /\ \A f \in Names : mtime[f] <= clock
      /\ put \in [Procs -> SUBSET Names] /\ min \in [Procs -> Nat] /\ at \in [Procs -> Nat \ {0}]
      /\ since \in [Procs -> Nat] /\ \A p \in Procs : since[p] <= clock
      /\ missed \in [Procs -> SUBSET Names]
  BY DEF Init
<1> QED
  BY <1>1, <1>2, <1>3, <1>4, <1>5 DEF Typed

\* An update that starts has a task of its type.
LEMMA UpdateTyped ==
  ASSUME Typed, NEW p \in Procs, NEW k \in Kinds, NEW v \in Nat, k = "limit" => v \in Limits, Update(p, k, v)
  PROVE  /\ pc' \in [Procs -> Pcs] /\ pc'[p] = "lock"
         /\ task' \in [Procs -> [kind : Kinds, value : Nat]]
         /\ \A q \in Procs : task'[q].kind = "limit" => task'[q].value \in Limits
         /\ \A q \in Procs : pc'[q] = "delete" => pc[q] = "delete"
  BY DEF Update, Goto, Typed, Pcs

\* A process that ends leaves its variables as they were at the start.
LEMMA FinishTyped ==
  ASSUME Typed, NEW p \in Procs, Finish(p)
  PROVE  /\ pc' \in [Procs -> Pcs] /\ counters' \in [Procs -> Counters]
         /\ task' \in [Procs -> [kind : Kinds, value : Nat]]
         /\ put' \in [Procs -> SUBSET Names] /\ min' \in [Procs -> Nat]
         /\ found' \in [Procs -> Seq(Entry)] /\ at' \in [Procs -> Nat \ {0}]
         /\ since' \in [Procs -> Nat] /\ (\A q \in Procs : since'[q] <= clock)
         /\ missed' \in [Procs -> SUBSET Names]
         /\ \A q \in Procs : task'[q].kind = "limit" => task'[q].value \in Limits
         /\ \A q \in Procs : pc'[q] = "delete" => at'[q] <= Len(found'[q]) + 1
<1>1. [files |-> 0, max |-> 0] \in Counters
  BY DEF Counters
<1>2. pc' \in [Procs -> Pcs] /\ counters' \in [Procs -> Counters]
  BY <1>1 DEF Finish, Goto, Typed, Pcs
<1>3. /\ task' \in [Procs -> [kind : Kinds, value : Nat]]
      /\ \A q \in Procs : task'[q].kind = "limit" => task'[q].value \in Limits
  BY DEF Finish, Goto, Typed, NoTask, Kinds
<1>4. /\ put' \in [Procs -> SUBSET Names] /\ min' \in [Procs -> Nat] /\ at' \in [Procs -> Nat \ {0}]
      /\ since' \in [Procs -> Nat] /\ (\A q \in Procs : since'[q] <= clock)
      /\ missed' \in [Procs -> SUBSET Names]
  BY DEF Finish, Typed
<1>5. found' \in [Procs -> Seq(Entry)]
  BY EmptySeq DEF Finish, Typed
<1>6. ASSUME NEW q \in Procs, pc'[q] = "delete" PROVE q # p
  BY <1>6 DEF Finish, Goto, Typed
<1>7. \A q \in Procs : q # p => pc'[q] = pc[q] /\ found'[q] = found[q] /\ at'[q] = at[q]
  BY DEF Finish, Goto, Typed
<1>8. \A q \in Procs : pc'[q] = "delete" => at'[q] <= Len(found'[q]) + 1
  BY <1>6, <1>7 DEF Typed
<1> QED
  BY <1>2, <1>3, <1>4, <1>5, <1>8

\* What is written to the file is of its type.
LEMMA ChangedTyped == ASSUME Typed, NEW p \in Procs PROVE Changed(p) \in Counters
<1>1. counters[p] \in Counters /\ task[p].value \in Nat /\ (task[p].kind = "limit" => task[p].value \in Limits)
  BY DEF Typed
<1> QED
  BY <1>1 DEF Changed, Counters
\* A new time for one file is a time that has been reached.
TimeSet(f, v) == mtime' = [mtime EXCEPT ![f] = v]

LEMMA TimeTyped ==
  ASSUME Typed, NEW f, NEW v \in Nat, v <= clock, TimeSet(f, v)
  PROVE  /\ mtime' \in [Names -> Nat]
         /\ \A g \in Names : mtime'[g] <= clock
         /\ \A g \in Names : mtime'[g] = IF g = f THEN v ELSE mtime[g]
<1>1. mtime \in [Names -> Nat] /\ \A g \in Names : mtime[g] <= clock
  BY DEF Typed
<1>2. mtime' \in [Names -> Nat]
  BY <1>1 DEF TimeSet
<1>3. \A g \in Names : mtime'[g] = IF g = f THEN v ELSE mtime[g]
  BY <1>1 DEF TimeSet
<1> QED
  BY <1>1, <1>2, <1>3

\* Files are deleted: no time is later than it was.
LEMMA RemovedTyped ==
  ASSUME Typed, NEW gone, Removed(gone)
  PROVE  /\ mtime' \in [Names -> Nat]
         /\ \A f \in Names : mtime'[f] <= clock
         /\ missed' \in [Procs -> SUBSET Names]
         /\ Present' = Present \ gone
         /\ \A f \in Names : mtime'[f] = 0 \/ mtime'[f] = mtime[f]
<1>1. mtime \in [Names -> Nat] /\ clock \in Nat /\ missed \in [Procs -> SUBSET Names] /\ \A f \in Names : mtime[f] <= clock
  BY DEF Typed
<1> QED
  BY <1>1 DEF Removed, Present

\* A cleanup begins.
LEMMA CleanUpTyped ==
  ASSUME Typed, NEW p \in Procs, NEW m \in Limits \cup {0}, CleanUp(p, m)
  PROVE  /\ counters' \in [Procs -> Counters] /\ pc' \in [Procs -> Pcs]
         /\ pc'[p] = "list"
         /\ \A q \in Procs : q # p => pc'[q] = pc[q] /\ counters'[q] = counters[q]
         /\ \A q \in Procs : pc'[q] = "delete" => pc[q] = "delete"
<1>1. [files |-> 0, max |-> m] \in Counters
  BY DEF Counters
<1> QED
  BY <1>1 DEF CleanUp, Goto, Typed, Pcs

LEMMA TypedNext == Typed /\ [Next]_vars => Typed'
<1> SUFFICES ASSUME Typed, [Next]_vars PROVE Typed'
  OBVIOUS
<1>t. /\ mtime \in [Names -> Nat] /\ clock \in Nat \ {0} /\ \A f \in Names : mtime[f] <= clock
      /\ Compilers \subseteq Procs /\ Commanders \subseteq Procs /\ Killable \subseteq Procs /\ Limits \subseteq Nat /\ NPut \in Nat
  BY CCacheStatsAssumption DEF Typed
<1>1. ASSUME NEW p \in Procs, Put(p) PROVE Typed'
  <2>1. PICK new \in SUBSET Names : /\ mtime' = [f \in Names |-> IF f \in new THEN clock ELSE mtime[f]]
                                   /\ put' = [put EXCEPT ![p] = new]
    BY <1>1 DEF Put
  <2>2. mtime' \in [Names -> Nat] /\ (\A f \in Names : mtime'[f] <= clock) /\ put' \in [Procs -> SUBSET Names]
    BY <1>t, <2>1 DEF Typed
  <2>3. Update(p, "compile", NPut) /\ UNCHANGED <<clock, stats, lock, limit, counters, min, found, at>>
    BY <1>1 DEF Put
  <2>5. since' \in [Procs -> Nat] /\ \A q \in Procs : since'[q] <= clock
    BY <1>1 DEF Put, Typed
  <2>6. missed' \in [Procs -> SUBSET Names]
    BY <1>1 DEF Put, Typed
  <2>4. "compile" \in Kinds
    BY DEF Kinds
  <2> QED
    BY <1>t, <2>2, <2>3, <2>4, <2>5, <2>6, UpdateTyped DEF Typed
<1>2. ASSUME NEW p \in Procs, Hit(p) PROVE Typed'
  <2>1. Update(p, "count", 0) /\ UNCHANGED <<clock, stats, lock, limit, counters, put, min, found, at, since, missed>>
    BY <1>2 DEF Hit, local, history
  <2>2. mtime' \in [Names -> Nat] /\ (\A f \in Names : mtime'[f] <= clock)
    <3>1. PICK f \in Present : TimeSet(f, clock)
      BY <1>2 DEF Hit, TimeSet
    <3> QED
      BY <1>t, <3>1, TimeTyped
  <2>3. "count" \in Kinds
    BY DEF Kinds
  <2> QED
    BY <2>1, <2>2, <2>3, UpdateTyped DEF Typed
<1>3. ASSUME NEW p \in Procs, SetLimits(p) PROVE Typed'
  <2>1. PICK v \in Limits : Update(p, "limit", v)
    BY <1>3 DEF SetLimits
  <2>2. UNCHANGED <<mtime, clock, stats, lock, limit, counters, put, min, found, at, since, missed>>
    BY <1>3 DEF SetLimits, local, history
  <2>3. "limit" \in Kinds /\ v \in Nat
    BY <1>t DEF Kinds
  <2> QED
    BY <2>1, <2>2, <2>3, UpdateTyped DEF Typed
<1>4. ASSUME NEW p \in Procs, Zero(p) PROVE Typed'
  <2>1. Update(p, "zero", 0) /\ UNCHANGED <<mtime, clock, stats, lock, limit, counters, put, min, found, at, since, missed>>
    BY <1>4 DEF Zero, local, history
  <2>2. "zero" \in Kinds
    BY DEF Kinds
  <2> QED
    BY <2>1, <2>2, UpdateTyped DEF Typed
<1>5. ASSUME NEW p \in Procs, Discard(p) PROVE Typed'
  <2>1. PICK f \in Present : Removed({f})
    BY <1>5 DEF Discard
  <2> QED
    BY <1>5, <2>1, RemovedTyped DEF Discard, local, Typed
<1>6. ASSUME NEW p \in Procs, CleanAll(p) PROVE Typed'
  BY <1>6, CleanUpTyped DEF CleanAll, history, Typed, Counters
<1>7. ASSUME NEW p \in Procs, WipeAll(p) PROVE Typed'
  <2>1. PICK gone \in SUBSET Present : Removed(gone)
    BY <1>7 DEF WipeAll
  <2> QED
    BY <1>7, <2>1, RemovedTyped, CleanUpTyped DEF WipeAll, Typed, Counters
<1>8. ASSUME NEW p \in Procs, LockStats(p) PROVE Typed'
  BY <1>8 DEF LockStats, Goto, local, history, Typed, Pcs
<1>9. ASSUME NEW p \in Procs, ReadStats(p) PROVE Typed'
  BY <1>9 DEF ReadStats, Goto, history, Typed, Pcs
<1>10. ASSUME NEW p \in Procs, WriteStats(p) PROVE Typed'
  <2>1. stats' \in Counters /\ Changed(p) \in Counters
    BY <1>10, ChangedTyped DEF WriteStats
  <2>2. UNCHANGED <<mtime, clock>>
    BY <1>10 DEF WriteStats
  <2>3. CASE NeedCleanup(p, Changed(p))
    <3>1. /\ CleanUp(p, Changed(p).max)
          /\ min' = [min EXCEPT ![p] = task[p].value]
          /\ UNCHANGED <<task, put, found, at, since, missed>>
      BY <1>10, <2>3 DEF WriteStats, Written
    <3>2. Changed(p).max \in Limits \cup {0}
      BY <2>1 DEF Counters
    <3>3. min' \in [Procs -> Nat]
      BY <3>1 DEF Typed
    <3> QED
      BY <2>1, <2>2, <3>1, <3>2, <3>3, CleanUpTyped DEF Typed
  <2>4. CASE ~ NeedCleanup(p, Changed(p))
    <3>1. Finish(p)
      BY <1>10, <2>4 DEF WriteStats, Written
    <3> QED
      BY <1>t, <2>1, <2>2, <3>1, FinishTyped DEF Typed
  <2> QED
    BY <2>3, <2>4
<1>11. ASSUME NEW p \in Procs, List(p) PROVE Typed'
  <2> DEFINE s == OldestFirst
  <2>1. s \in Seq(Entry) /\ Len(s) \in Nat
    BY <1>t, Listed, LenProperties DEF Sorted
  <2>2. /\ found' = [found EXCEPT ![p] = s]
        /\ min' = [min EXCEPT ![p] = Adjusted(s, min[p])]
        /\ at' = [at EXCEPT ![p] = 1]
        /\ pc' = [pc EXCEPT ![p] = "delete"]
        /\ UNCHANGED <<mtime, clock, stats, lock, limit, task, counters, put, since>>
        /\ missed' = [missed EXCEPT ![p] = {}]
    BY <1>11 DEF List, Goto
  <2> HIDE DEF s
  <2>3. Adjusted(s, min[p]) \in Nat
    BY <2>1, AdjustedNat DEF Typed
  <2>4. /\ found' \in [Procs -> Seq(Entry)] /\ min' \in [Procs -> Nat]
        /\ at' \in [Procs -> Nat \ {0}] /\ pc' \in [Procs -> Pcs] /\ missed' \in [Procs -> SUBSET Names]
    BY <2>1, <2>2, <2>3 DEF Typed, Pcs
  <2>5. \A q \in Procs : pc'[q] = "delete" => at'[q] <= Len(found'[q]) + 1
    BY <2>1, <2>2 DEF Typed
  <2> QED
    BY <2>2, <2>4, <2>5 DEF Typed
<1>12. ASSUME NEW p \in Procs, Delete(p) PROVE Typed'
  <2>1. /\ pc[p] = "delete" /\ Left(p) # 0
        /\ at' = [at EXCEPT ![p] = at[p] + 1]
        /\ UNCHANGED <<clock, stats, lock, limit, pc, task, counters, put, min, found, since>>
    BY <1>12 DEF Delete, Enough
  <2>2. /\ mtime' \in [Names -> Nat] /\ (\A f \in Names : mtime'[f] <= clock)
        /\ missed' \in [Procs -> SUBSET Names]
    <3> DEFINE f == found[p][at[p]].fname
    <3>1. CASE Removed({f})
      BY <3>1, RemovedTyped
    <3>2. CASE f \in Present /\ missed' = [missed EXCEPT ![p] = @ \cup {f}] /\ UNCHANGED <<mtime, uncounted>>
      <4>1. f \in Names
        BY <3>2 DEF Present
      <4> HIDE DEF f
      <4> QED
        BY <3>2, <4>1 DEF Typed
    <3> QED
      BY <1>12, <3>1, <3>2 DEF Delete
  <2>3. Len(found[p]) \in Nat /\ at[p] \in Nat \ {0} /\ at[p] <= Len(found[p]) + 1
    BY <2>1, LenProperties DEF Typed
  <2>4. at[p] + 1 <= Len(found[p]) + 1 /\ at[p] + 1 \in Nat \ {0}
    BY <2>1, <2>3 DEF Left
  <2>5. at' \in [Procs -> Nat \ {0}] /\ \A q \in Procs : pc[q] = "delete" => at'[q] <= Len(found[q]) + 1
    BY <2>1, <2>4 DEF Typed
  <2> QED
    BY <2>1, <2>2, <2>5 DEF Typed
<1>13. ASSUME NEW p \in Procs, SetSizes(p) PROVE Typed'
  <2>1. /\ pc[p] = "delete" /\ Update(p, "sizes", Left(p)) /\ ListGone(p)
        /\ UNCHANGED <<mtime, clock, stats, lock, limit, counters, min, missed>>
    BY <1>13 DEF SetSizes, history
  <2>2. Len(found[p]) \in Nat /\ at[p] \in Nat \ {0} /\ at[p] <= Len(found[p]) + 1
    BY <2>1, LenProperties DEF Typed
  <2>3. "sizes" \in Kinds /\ Left(p) \in Nat
    BY <2>2 DEF Kinds, Left
  <2>4. /\ put' \in [Procs -> SUBSET Names] /\ found' \in [Procs -> Seq(Entry)] /\ at' \in [Procs -> Nat \ {0}]
        /\ since' \in [Procs -> Nat] /\ (\A q \in Procs : since'[q] <= clock)
    BY <2>1, EmptySeq DEF ListGone, Typed
  <2>5. ASSUME NEW q \in Procs, pc'[q] = "delete" PROVE at'[q] <= Len(found'[q]) + 1
    BY <2>1, <2>5 DEF Update, Goto, ListGone, Typed
  <2>6. /\ pc' \in [Procs -> Pcs] /\ task' \in [Procs -> [kind : Kinds, value : Nat]]
        /\ \A q \in Procs : task'[q].kind = "limit" => task'[q].value \in Limits
    BY <2>1, <2>3, UpdateTyped
  <2> QED
    BY <2>1, <2>4, <2>5, <2>6 DEF Typed
<1>14. ASSUME NEW p \in Procs, Kill(p) PROVE Typed'
  <2>1. Finish(p) /\ UNCHANGED <<mtime, clock, stats, limit>>
    BY <1>14 DEF Kill
  <2> QED
    BY <1>t, <2>1, FinishTyped DEF Typed
<1>15. CASE Tick
  <2>1. /\ clock' \in Nat \ {0} /\ (\A f \in Names : mtime[f] <= clock')
        /\ \A p \in Procs : since[p] <= clock'
    BY <1>15, <1>t DEF Tick, Typed
  <2> QED
    BY <1>15, <2>1 DEF Tick, local, history, Typed
<1>16. CASE UNCHANGED vars
  BY <1>16 DEF vars, Typed
<1> QED
  BY <1>t, <1>1, <1>2, <1>3, <1>4, <1>5, <1>6, <1>7, <1>8, <1>9, <1>10, <1>11, <1>12, <1>13, <1>14, <1>15, <1>16
     DEF Next, Step

\* Left(p) is the number of files that the loop has not reached.
LEMMA LeftNat == ASSUME Typed, NEW p \in Procs, pc[p] = "delete" PROVE Left(p) \in Nat
<1>1. Len(found[p]) \in Nat /\ at[p] \in Nat \ {0} /\ at[p] <= Len(found[p]) + 1
  BY LenProperties DEF Typed
<1> QED
  BY <1>1 DEF Left
\* What a cleanup stores is at most what it may leave.
Stored(p) ==
  pc[p] = "lock" /\ task[p].kind = "sizes" /\ counters[p].max # 0 =>
    5 * task[p].value <= 4 * counters[p].max \/ task[p].value <= min[p]

\* A step of p leaves the others where they are, and starts to store a number of
\* files only at the end of the loop.
LEMMA OnlySetSizes ==
  ASSUME Typed, [Next]_vars
  PROVE  \A q \in Procs :
           \/ pc'[q] = pc[q] /\ task'[q] = task[q] /\ counters'[q] = counters[q] /\ min'[q] = min[q]
           \/ pc'[q] # "lock" \/ task'[q].kind # "sizes"
           \/ SetSizes(q)
<1> SUFFICES ASSUME NEW q \in Procs
             PROVE  \/ pc'[q] = pc[q] /\ task'[q] = task[q] /\ counters'[q] = counters[q] /\ min'[q] = min[q]
                    \/ pc'[q] # "lock" \/ task'[q].kind # "sizes"
                    \/ SetSizes(q)
  OBVIOUS
<1>t. /\ pc \in [Procs -> Pcs] /\ task \in [Procs -> [kind : Kinds, value : Nat]]
      /\ counters \in [Procs -> Counters] /\ min \in [Procs -> Nat]
      /\ Compilers \subseteq Procs /\ Commanders \subseteq Procs /\ Killable \subseteq Procs
  BY CCacheStatsAssumption DEF Typed
<1>1. ASSUME NEW p \in Procs, Put(p) \/ Hit(p) \/ SetLimits(p) \/ Zero(p)
      PROVE  \/ pc'[q] = pc[q] /\ task'[q] = task[q] /\ counters' = counters /\ min' = min
             \/ task'[q].kind # "sizes"
  BY <1>1, <1>t DEF Put, Hit, SetLimits, Zero, Update, Goto, local
<1>2. ASSUME NEW p \in Procs, Discard(p) PROVE pc' = pc /\ task' = task /\ counters' = counters /\ min' = min
  BY <1>2 DEF Discard, local
<1>3. ASSUME NEW p \in Procs, CleanAll(p) \/ WipeAll(p) \/ LockStats(p) \/ ReadStats(p) \/ List(p) \/ Delete(p)
      PROVE  \/ pc'[q] = pc[q] /\ task'[q] = task[q] /\ counters'[q] = counters[q] /\ min'[q] = min[q]
             \/ pc'[q] # "lock"
  BY <1>3, <1>t DEF CleanAll, WipeAll, LockStats, ReadStats, List, Delete, CleanUp, Goto, local
<1>4. ASSUME NEW p \in Procs, WriteStats(p) \/ Kill(p)
      PROVE  \/ pc'[q] = pc[q] /\ task'[q] = task[q] /\ counters'[q] = counters[q] /\ min'[q] = min[q]
             \/ pc'[q] # "lock"
  BY <1>4, <1>t DEF WriteStats, Written, CleanUp, Kill, Finish, Goto
<1>5. ASSUME NEW p \in Procs, SetSizes(p), p # q
      PROVE  pc'[q] = pc[q] /\ task'[q] = task[q] /\ counters' = counters /\ min' = min
  BY <1>5, <1>t DEF SetSizes, Update, Goto
<1>6. ASSUME Tick \/ UNCHANGED vars PROVE pc' = pc /\ task' = task /\ counters' = counters /\ min' = min
  BY <1>6 DEF Tick, vars, local
<1>7. CASE UNCHANGED vars \/ Tick
  BY <1>6, <1>7
<1>8. CASE \/ \E p \in Compilers : Put(p) \/ Hit(p) \/ Discard(p)
           \/ \E p \in Commanders : SetLimits(p) \/ Zero(p) \/ CleanAll(p) \/ WipeAll(p)
  BY <1>t, <1>1, <1>2, <1>3, <1>8
<1>9. CASE \E p \in Procs : Step(p)
  BY <1>3, <1>4, <1>5, <1>9 DEF Step
<1>10. CASE \E p \in Killable : Kill(p)
  BY <1>t, <1>4, <1>10
<1> QED
  BY <1>7, <1>8, <1>9, <1>10 DEF Next

LEMMA CleanedNext ==
  ASSUME 1 \notin Limits
  PROVE  Typed /\ CleanedEnough /\ [Next]_vars => CleanedEnough'
<1> SUFFICES ASSUME Typed, CleanedEnough, [Next]_vars, NEW q \in Procs PROVE Stored(q)'
  BY DEF CleanedEnough, Stored
<1>1. Stored(q)
  BY DEF CleanedEnough, Stored
<1>2. CASE SetSizes(q)
  <2>1. /\ pc[q] = "delete" /\ Enough(q)
        /\ task'[q].value = Left(q) /\ counters'[q] = counters[q] /\ min'[q] = min[q]
    BY <1>2 DEF SetSizes, Update, Typed
  <2>2. counters[q].max \in Nat /\ counters[q].max # 1 /\ min[q] \in Nat
    <3>1. counters[q] \in Counters /\ min[q] \in Nat
      BY DEF Typed
    <3>2. counters[q].max \in Limits \cup {0}
      BY <3>1 DEF Counters
    <3> QED
      BY <3>1, <3>2, LimitNat
  <2>3. Left(q) \in Nat
    BY <2>1, LeftNat
  <2> DEFINE m == counters[q].max
             th == Threshold(m)
  <2>4. th \in Nat /\ 5 * th <= 4 * m /\ (m >= 2 => th # 0)
    BY <2>2, ThresholdFacts
  <2>5. Left(q) = 0 \/ th = 0 \/ Left(q) < th \/ Left(q) <= min[q]
    BY <2>1 DEF Enough
  <2> HIDE DEF th, m
  <2>6. m # 0 => 5 * Left(q) <= 4 * m \/ Left(q) <= min[q]
    <3>1. m \in Nat /\ m # 1
      BY <2>2 DEF m
    <3> QED
      BY <2>2, <2>3, <2>4, <2>5, <3>1
  <2> QED
    BY <2>1, <2>6 DEF Stored, m
<1>3. CASE pc'[q] = pc[q] /\ task'[q] = task[q] /\ counters'[q] = counters[q] /\ min'[q] = min[q]
  BY <1>1, <1>3 DEF Stored
<1>4. CASE pc'[q] # "lock" \/ task'[q].kind # "sizes"
  BY <1>4 DEF Stored
<1> QED
  BY <1>2, <1>3, <1>4, OnlySetSizes

\* Whatever other processes do meanwhile, a cleanup under a limit above 1 leaves at
\* most 80% of the files it allows, apart from new files and those as new.  Under a limit
\* of 1 the threshold is 0, and the cleanup deletes nothing.
THEOREM CleanupsClean == ASSUME 1 \notin Limits PROVE Spec => []CleanedEnough
<1>1. Init => CleanedEnough
  BY DEF Init, CleanedEnough
<1> QED
  BY <1>1, TypedInit, TypedNext, CleanedNext, PTL DEF Spec
-----------------------------------------------------------------------------
(* The lock.                                                                *)

\* Who holds the lock and has read the file knows all that is in it.
LEMMA FreshNext == Holders /\ Typed /\ AllFresh /\ [Next]_vars => AllFresh'
<1> SUFFICES ASSUME Holders, Typed, AllFresh, [Next]_vars, NEW q \in Procs, pc'[q] = "write"
             PROVE  counters'[q] = stats'
  BY DEF AllFresh
<1>t. /\ pc \in [Procs -> Pcs] /\ counters \in [Procs -> Counters]
      /\ Compilers \subseteq Procs /\ Commanders \subseteq Procs /\ Killable \subseteq Procs
  BY CCacheStatsAssumption DEF Typed
<1>f. pc[q] = "write" => counters[q] = stats
  BY DEF AllFresh
<1>1. ASSUME NEW p \in Procs, Put(p) \/ Hit(p) \/ SetLimits(p) \/ Zero(p) \/ SetSizes(p) \/ LockStats(p)
      PROVE  counters'[q] = stats'
  BY <1>1, <1>t, <1>f DEF Put, Hit, SetLimits, Zero, SetSizes, LockStats, Update, Goto, local
<1>2. ASSUME NEW p \in Procs, Discard(p) \/ CleanAll(p) \/ WipeAll(p) \/ ReadStats(p) \/ List(p) \/ Delete(p)
      PROVE  counters'[q] = stats'
  BY <1>2, <1>t, <1>f DEF Discard, CleanAll, WipeAll, ReadStats, List, Delete, CleanUp, Goto, local
<1>3. ASSUME NEW p \in Procs, Kill(p) PROVE counters'[q] = stats'
  BY <1>3, <1>t, <1>f DEF Kill, Finish, Goto
<1>4. ASSUME NEW p \in Procs, WriteStats(p) PROVE counters'[q] = stats'
  <2>1. pc[p] = "write" /\ pc'[p] # "write" /\ (p # q => pc'[q] = pc[q])
    BY <1>4, <1>t DEF WriteStats, Written, CleanUp, Finish, Goto
  <2> QED
    BY <2>1 DEF Holders
<1>5. CASE UNCHANGED vars \/ Tick
  BY <1>5, <1>f DEF vars, Tick, local
<1>6. CASE \/ \E p \in Compilers : Put(p) \/ Hit(p) \/ Discard(p)
           \/ \E p \in Commanders : SetLimits(p) \/ Zero(p) \/ CleanAll(p) \/ WipeAll(p)
  BY <1>t, <1>1, <1>2, <1>6
<1>7. CASE \E p \in Procs : Step(p)
  BY <1>1, <1>2, <1>4, <1>7 DEF Step
<1>8. CASE \E p \in Killable : Kill(p)
  BY <1>t, <1>3, <1>8
<1> QED
  BY <1>5, <1>6, <1>7, <1>8 DEF Next
-----------------------------------------------------------------------------
(* The files of a compile.                                                  *)

\* Whatever a step does to the files, each keeps its time, gets the present one or
\* is gone; the clock does not go back.
LEMMA TimesGrow ==
  ASSUME Typed, [Next]_vars
  PROVE  /\ \A f \in Names : mtime'[f] = mtime[f] \/ mtime'[f] = clock \/ mtime'[f] = 0
         /\ clock' >= clock
<1>t. /\ mtime \in [Names -> Nat] /\ clock \in Nat
      /\ Compilers \subseteq Procs /\ Commanders \subseteq Procs /\ Killable \subseteq Procs
  BY CCacheStatsAssumption DEF Typed
<1>r. ASSUME NEW gone, Removed(gone) PROVE \A f \in Names : mtime'[f] = mtime[f] \/ mtime'[f] = 0
  BY <1>r, <1>t DEF Removed
<1>1. ASSUME NEW p \in Procs, Put(p) \/ Hit(p)
      PROVE  clock' = clock /\ \A f \in Names : mtime'[f] = mtime[f] \/ mtime'[f] = clock
  BY <1>1, <1>t DEF Put, Hit
<1>2. ASSUME NEW p \in Procs, Discard(p) \/ WipeAll(p) \/ Delete(p)
      PROVE  clock' = clock /\ \A f \in Names : mtime'[f] = mtime[f] \/ mtime'[f] = 0
  BY <1>2, <1>t, <1>r DEF Discard, WipeAll, Delete
<1>3. ASSUME NEW p \in Procs,
             SetLimits(p) \/ Zero(p) \/ CleanAll(p) \/ LockStats(p) \/ ReadStats(p) \/ WriteStats(p)
               \/ List(p) \/ SetSizes(p) \/ Kill(p)
      PROVE  clock' = clock /\ mtime' = mtime
  BY <1>3 DEF SetLimits, Zero, CleanAll, LockStats, ReadStats, WriteStats, List, SetSizes, Kill
<1>4. CASE UNCHANGED vars \/ Tick
  BY <1>4, <1>t DEF vars, Tick
<1>5. CASE \/ \E p \in Compilers : Put(p) \/ Hit(p) \/ Discard(p)
           \/ \E p \in Commanders : SetLimits(p) \/ Zero(p) \/ CleanAll(p) \/ WipeAll(p)
           \/ \E p \in Procs : Step(p)
           \/ \E p \in Killable : Kill(p)
  BY <1>t, <1>1, <1>2, <1>3, <1>5 DEF Step
<1> QED
  BY <1>4, <1>5 DEF Next

\* What p knows of its own files.
Mine(p) == <<pc[p], task[p], put[p], since[p], min[p], found[p], at[p]>>

\* A step is one of p, or leaves all that is p's own alone.
LEMMA OwnOrSame ==
  ASSUME Typed, [Next]_vars, NEW p \in Procs
  PROVE  \/ Put(p) \/ Hit(p) \/ SetLimits(p) \/ Zero(p) \/ CleanAll(p) \/ WipeAll(p)
         \/ Step(p) \/ Kill(p)
         \/ UNCHANGED Mine(p)
<1>t. /\ pc \in [Procs -> Pcs] /\ task \in [Procs -> [kind : Kinds, value : Nat]]
      /\ put \in [Procs -> SUBSET Names] /\ since \in [Procs -> Nat] /\ min \in [Procs -> Nat]
      /\ found \in [Procs -> Seq(Entry)] /\ at \in [Procs -> Nat \ {0}]
      /\ Compilers \subseteq Procs /\ Commanders \subseteq Procs /\ Killable \subseteq Procs
  BY CCacheStatsAssumption DEF Typed
<1>1. ASSUME NEW q \in Procs, q # p, Put(q) \/ Hit(q) \/ SetLimits(q) \/ Zero(q)
      PROVE  UNCHANGED Mine(p)
  BY <1>1, <1>t DEF Put, Hit, SetLimits, Zero, Update, Goto, local, Mine
<1>2. ASSUME NEW q \in Procs, q # p, CleanAll(q) \/ WipeAll(q) \/ LockStats(q) \/ ReadStats(q)
      PROVE  UNCHANGED Mine(p)
  BY <1>2, <1>t DEF CleanAll, WipeAll, LockStats, ReadStats, CleanUp, Goto, local, Mine
<1>3. ASSUME NEW q \in Procs, q # p, List(q) \/ Delete(q) \/ SetSizes(q)
      PROVE  UNCHANGED Mine(p)
  BY <1>3, <1>t DEF List, Delete, SetSizes, ListGone, Update, Goto, Mine
<1>4. ASSUME NEW q \in Procs, q # p, WriteStats(q) \/ Kill(q)
      PROVE  UNCHANGED Mine(p)
  BY <1>4, <1>t DEF WriteStats, Written, CleanUp, Kill, Finish, Goto, Mine
<1>5. ASSUME NEW q \in Procs, Discard(q) PROVE UNCHANGED Mine(p)
  BY <1>5 DEF Discard, local, Mine
<1>6. CASE UNCHANGED vars \/ Tick
  BY <1>6 DEF vars, Tick, local, Mine
<1> QED
  BY <1>t, <1>1, <1>2, <1>3, <1>4, <1>5, <1>6 DEF Next, Step

LEMMA OwnNext == Typed /\ OwnInv /\ [Next]_vars => OwnInv'
<1> SUFFICES ASSUME Typed, OwnInv, [Next]_vars, NEW p \in Procs, task'[p].kind = "compile"
             PROVE  /\ pc'[p] \in {"lock", "read", "write", "list"} => Own(p)'
                    /\ pc'[p] \in {"lock", "read", "write"} => task'[p].value = NPut
                    /\ pc'[p] = "list" => min'[p] = NPut
                    /\ pc'[p] # "idle"
  BY DEF OwnInv
<1>t. /\ pc \in [Procs -> Pcs] /\ task \in [Procs -> [kind : Kinds, value : Nat]]
      /\ put \in [Procs -> SUBSET Names] /\ since \in [Procs -> Nat] /\ min \in [Procs -> Nat]
      /\ mtime \in [Names -> Nat] /\ clock \in Nat \ {0} /\ since[p] <= clock
  BY DEF Typed
<1>o. task[p].kind = "compile" =>
        /\ pc[p] \in {"lock", "read", "write", "list"} => Own(p)
        /\ pc[p] \in {"lock", "read", "write"} => task[p].value = NPut
        /\ pc[p] = "list" => min[p] = NPut
        /\ pc[p] # "idle"
  BY DEF OwnInv
<1>k. put'[p] = put[p] /\ since'[p] = since[p] /\ Own(p) => Own(p)'
  <2> SUFFICES ASSUME put'[p] = put[p], since'[p] = since[p], Own(p), NEW f \in put[p]
               PROVE  mtime'[f] = 0 \/ mtime'[f] >= since[p]
    BY DEF Own
  <2>1. f \in Names /\ (mtime[f] = 0 \/ mtime[f] >= since[p])
    BY <1>t DEF Own
  <2>2. mtime'[f] = mtime[f] \/ mtime'[f] = clock \/ mtime'[f] = 0
    BY <2>1, TimesGrow
  <2> QED
    BY <1>t, <2>1, <2>2
<1>1. CASE Put(p)
  <2>1. PICK new \in SUBSET Names : /\ Cardinality(new) = NPut
                                   /\ mtime' = [f \in Names |-> IF f \in new THEN clock ELSE mtime[f]]
                                   /\ put' = [put EXCEPT ![p] = new]
    BY <1>1 DEF Put
  <2>2. IsFiniteSet(new)
    BY CCacheStatsAssumption, FS_Subset
  <2>3. put'[p] = new /\ since'[p] = clock /\ \A f \in new : mtime'[f] = clock
    BY <1>1, <1>t, <2>1 DEF Put
  <2>4. Own(p)'
    BY <1>t, <2>1, <2>2, <2>3 DEF Own
  <2>5. pc'[p] = "lock" /\ task'[p].value = NPut
    BY <1>1, <1>t DEF Put, Update, Goto
  <2> QED
    BY <2>4, <2>5
<1>2. CASE Hit(p) \/ SetLimits(p) \/ Zero(p) \/ SetSizes(p)
  <2>1. task'[p].kind # "compile"
    BY <1>2, <1>t DEF Hit, SetLimits, Zero, SetSizes, Update
  <2> QED
    BY <2>1
<1>3. CASE CleanAll(p) \/ WipeAll(p)
  <2>1. pc[p] = "idle" /\ task' = task
    BY <1>3 DEF CleanAll, WipeAll
  <2>2. task[p].kind # "compile"
    BY <2>1 DEF OwnInv
  <2> QED
    BY <2>1, <2>2
<1>4. CASE LockStats(p) \/ ReadStats(p)
  <2>1. /\ task' = task /\ put' = put /\ since' = since
        /\ pc[p] \in {"lock", "read"} /\ pc'[p] \in {"read", "write"}
    BY <1>4, <1>t DEF LockStats, ReadStats, Goto, local
  <2> QED
    BY <1>k, <1>o, <2>1
<1>5. CASE Finish(p)
  <2>1. task'[p].kind # "compile"
    BY <1>5, <1>t DEF Finish, NoTask
  <2> QED
    BY <2>1
<1>6. CASE WriteStats(p)
  <2>1. CASE ~ NeedCleanup(p, Changed(p))
    BY <1>5, <1>6, <2>1 DEF WriteStats, Written
  <2>2. CASE NeedCleanup(p, Changed(p))
    <3>1. /\ pc[p] = "write" /\ pc'[p] = "list" /\ min'[p] = task[p].value
          /\ task' = task /\ put' = put /\ since' = since
      BY <1>6, <1>t, <2>2 DEF WriteStats, Written, CleanUp, Goto
    <3> QED
      BY <1>k, <1>o, <3>1
  <2> QED
    BY <2>1, <2>2
<1>7. CASE List(p) \/ Delete(p)
  <2>1. pc'[p] = "delete"
    BY <1>7, <1>t DEF List, Delete, Goto
  <2> QED
    BY <2>1
<1>8. CASE Kill(p)
  BY <1>5, <1>8 DEF Kill
<1>9. CASE UNCHANGED Mine(p)
  <2>1. pc'[p] = pc[p] /\ task'[p] = task[p] /\ put'[p] = put[p] /\ since'[p] = since[p] /\ min'[p] = min[p]
    BY <1>9 DEF Mine
  <2> QED
    BY <1>k, <1>o, <2>1
<1> QED
  BY <1>1, <1>2, <1>3, <1>4, <1>6, <1>7, <1>8, <1>9, OwnOrSame DEF Step
\* sort_and_clean does not get to the files of P, all with time t or later, unless
\* m of the listed files are newer.
LEMMA SortSpares ==
  ASSUME mtime \in [Names -> Nat], NEW s, Sorted(s), NEW P \in SUBSET Names, NEW t \in Nat,
         NEW m \in Nat \ {0}, \A f \in P : mtime[f] = 0 \/ mtime[f] >= t,
         ~ (Cardinality({j \in 1 .. Len(s) : s[j].mtime > t}) >= m),
         NEW j \in 1 .. Len(s), j + Adjusted(s, m) <= Len(s)
  PROVE  s[j].fname \notin P
<1> DEFINE n == Len(s)
           T == s[n - m + 1].mtime
           K == {i \in 1 .. n - m : s[i].mtime = s[n - m + 1].mtime}
           F == {i \in 1 .. n : s[i].mtime > t}
<1>1. n \in Nat /\ \A i \in 1 .. n : s[i] \in Entry
  BY ElementOfSeq DEF Sorted
<1>2. Adjusted(s, m) \in Nat /\ Adjusted(s, m) >= m
  BY AdjustedNat DEF Sorted
<1>3. j \in 1 .. n - m /\ m < n /\ n - m + 1 \in 1 .. n /\ T \in Nat
  <2>1. j \in 1 .. n - m /\ m < n /\ n - m + 1 \in 1 .. n
    BY <1>1, <1>2
  <2> QED
    BY <1>1, <2>1 DEF Entry
<1>4. SUFFICES ASSUME s[j].fname \in P PROVE FALSE
  OBVIOUS
<1>5. s[j].mtime \in Nat /\ s[j].mtime >= t
  <2>1. s[j].fname \in Present /\ s[j].mtime = mtime[s[j].fname] /\ s[j].mtime \in Nat
    BY <1>1 DEF Sorted, Entry
  <2> QED
    BY <1>4, <2>1 DEF Present
<1>6. \A i, k \in 1 .. n : i <= k => s[i].mtime <= s[k].mtime
  BY DEF Sorted
<1>7. IsFiniteSet(F)
  <2>1. 1 \in Int /\ n \in Int
    BY <1>1
  <2>2. IsFiniteSet(1 .. n) /\ F \in SUBSET (1 .. n)
    BY <2>1, FS_Interval, Zenon
  <2> QED
    BY <2>2, FS_Subset
<1>8. CASE T > t
  <2>1. (n - m + 1) .. n \in SUBSET F
    <3> SUFFICES ASSUME NEW i \in (n - m + 1) .. n PROVE i \in F
      OBVIOUS
    <3>1. i \in 1 .. n /\ n - m + 1 <= i
      BY <1>1, <1>3
    <3>2. T <= s[i].mtime /\ s[i].mtime \in Nat
      BY <1>1, <1>3, <1>6, <3>1 DEF Entry
    <3> HIDE DEF T
    <3> QED
      BY <1>3, <1>8, <3>1, <3>2
  <2>2. Cardinality((n - m + 1) .. n) = m
    <3>1. n - m + 1 \in Int /\ n \in Int /\ ~ (n - m + 1 > n)
      BY <1>1, <1>3
    <3>2. Cardinality((n - m + 1) .. n) = IF n - m + 1 > n THEN 0 ELSE n - (n - m + 1) + 1
      BY <3>1, FS_Interval
    <3> QED
      BY <1>1, <3>1, <3>2
  <2>3. Cardinality(F) >= m
    <3>1. Cardinality((n - m + 1) .. n) <= Cardinality(F)
      BY <1>7, <2>1, FS_Subset
    <3>2. Cardinality(F) \in Nat
      BY <1>7, FS_CardinalityType
    <3> QED
      BY <2>2, <3>1, <3>2
  <2> QED
    BY <2>3
<1>9. CASE ~ (T > t)
  <2>1. T = t /\ s[j].mtime = t
    <3>1. s[j].mtime <= T
      BY <1>1, <1>3, <1>6
    <3> HIDE DEF T
    <3> QED
      BY <1>3, <1>5, <1>9, <3>1
  <2>2. j .. n - m \in SUBSET K
    <3> SUFFICES ASSUME NEW i \in j .. n - m PROVE i \in K
      OBVIOUS
    <3>1. i \in 1 .. n - m /\ i \in 1 .. n /\ j <= i /\ i <= n - m + 1
      BY <1>1, <1>3
    <3>2. s[j].mtime <= s[i].mtime /\ s[i].mtime <= T /\ s[i].mtime \in Nat
      BY <1>1, <1>3, <1>6, <3>1 DEF Entry
    <3>3. s[i].mtime = T
      BY <1>3, <2>1, <3>2
    <3> QED
      BY <3>1, <3>3
  <2>3. IsFiniteSet(K) /\ Cardinality(K) \in Nat
    <3>1. 1 \in Int /\ n - m \in Int
      BY <1>1
    <3>2. IsFiniteSet(1 .. n - m) /\ K \in SUBSET (1 .. n - m)
      BY <3>1, FS_Interval, Zenon
    <3> QED
      BY <3>2, FS_Subset, FS_CardinalityType
  <2>4. Cardinality(j .. n - m) = n - m - j + 1
    <3>1. j \in Int /\ n - m \in Int /\ ~ (j > n - m)
      BY <1>1, <1>3
    <3>2. Cardinality(j .. n - m) = IF j > n - m THEN 0 ELSE n - m - j + 1
      BY <3>1, FS_Interval
    <3> QED
      BY <3>1, <3>2
  <2>5. Cardinality(j .. n - m) <= Cardinality(K)
    BY <2>2, <2>3, FS_Subset
  <2>6. Adjusted(s, m) = m + Cardinality(K)
    BY <1>3 DEF Adjusted
  <2> HIDE DEF K, T, F
  <2> QED
    BY <1>1, <1>3, <2>3, <2>4, <2>5, <2>6
<1> QED
  BY <1>8, <1>9

\* The list of a cleanup that a compile has started.
LEMMA ListSpares ==
  ASSUME Typed, OwnInv, NEW p \in Procs, List(p), task[p].kind = "compile"
  PROVE  /\ at'[p] = 1 /\ min'[p] # 0
         /\ \/ Overtaken(p)'
            \/ \A j \in 1 .. Len(found'[p]) : j + min'[p] <= Len(found'[p]) => found'[p][j].fname \notin put'[p]
<1> DEFINE s == OldestFirst
<1>1. mtime \in [Names -> Nat] /\ NPut \in Nat \ {0} /\ put[p] \in SUBSET Names /\ since[p] \in Nat /\ Sorted(s)
  BY CCacheStatsAssumption, Listed DEF Typed
<1>2. Own(p) /\ min[p] = NPut
  BY DEF List, OwnInv
<1>3. /\ found'[p] = s /\ min'[p] = Adjusted(s, NPut) /\ at'[p] = 1
      /\ put' = put /\ since' = since
  BY <1>2 DEF List, Typed
<1> HIDE DEF s
<1>4. min'[p] # 0
  <2>1. Adjusted(s, NPut) \in Nat /\ Adjusted(s, NPut) >= NPut
    BY <1>1, AdjustedNat DEF Sorted
  <2> QED
    BY <1>1, <1>3, <2>1
<1>5. ASSUME ~ Overtaken(p)', NEW j \in 1 .. Len(s), j + Adjusted(s, NPut) <= Len(s)
      PROVE  s[j].fname \notin put[p]
  <2>1. ~ (Cardinality({i \in 1 .. Len(s) : s[i].mtime > since[p]}) >= NPut)
    BY <1>3, <1>5 DEF Overtaken
  <2>2. \A f \in put[p] : mtime[f] = 0 \/ mtime[f] >= since[p]
    BY <1>2 DEF Own
  <2> QED
    BY ONLY <1>1, <1>5, <2>1, <2>2, SortSpares
<1> QED
  BY <1>3, <1>4, <1>5

LEMMA SpareNext == Typed /\ OwnInv /\ SpareInv /\ [Next]_vars => SpareInv'
<1> SUFFICES ASSUME Typed, OwnInv, SpareInv, [Next]_vars,
                    NEW p \in Procs, pc'[p] = "delete", task'[p].kind = "compile"
             PROVE  /\ at'[p] = 1 \/ (at'[p] - 1) + min'[p] <= Len(found'[p])
                    /\ \/ Overtaken(p)'
                       \/ \A j \in 1 .. Len(found'[p]) :
                            j + min'[p] <= Len(found'[p]) => found'[p][j].fname \notin put'[p]
                    /\ min'[p] # 0
  BY DEF SpareInv
<1>t. /\ pc \in [Procs -> Pcs] /\ task \in [Procs -> [kind : Kinds, value : Nat]]
      /\ at \in [Procs -> Nat \ {0}] /\ min[p] \in Nat
      /\ (pc[p] = "delete" => at[p] <= Len(found[p]) + 1)
  BY DEF Typed
<1>1. CASE Put(p) \/ Hit(p) \/ SetLimits(p) \/ Zero(p) \/ SetSizes(p)
  BY <1>1, <1>t DEF Put, Hit, SetLimits, Zero, SetSizes, Update, Goto
<1>2. CASE CleanAll(p) \/ WipeAll(p) \/ LockStats(p) \/ ReadStats(p) \/ WriteStats(p) \/ Kill(p)
  BY <1>2, <1>t DEF CleanAll, WipeAll, LockStats, ReadStats, WriteStats, Written, Kill, Finish, CleanUp, Goto
<1>3. CASE List(p)
  <2>1. task[p].kind = "compile"
    BY <1>3 DEF List
  <2> QED
    BY <1>3, <2>1, ListSpares
<1>4. CASE Delete(p)
  <2>1. /\ pc[p] = "delete" /\ task' = task /\ ~ Enough(p) /\ at'[p] = at[p] + 1
        /\ put' = put /\ min' = min /\ found' = found /\ since' = since
    BY <1>4, <1>t DEF Delete
  <2>2. /\ Overtaken(p) \/ \A j \in 1 .. Len(found[p]) : j + min[p] <= Len(found[p]) => found[p][j].fname \notin put[p]
        /\ min[p] # 0
    BY <2>1 DEF SpareInv
  <2>3. ~ (Left(p) <= min[p]) /\ Left(p) \in Nat
    BY <2>1, <2>2, LeftNat DEF Enough
  <2>4. Len(found[p]) \in Nat
    BY LenProperties DEF Typed
  <2>5. (at'[p] - 1) + min[p] <= Len(found[p])
    BY <1>t, <2>1, <2>3, <2>4 DEF Left
  <2>6. Overtaken(p)' <=> Overtaken(p)
    BY <2>1 DEF Overtaken
  <2> QED
    BY <2>1, <2>2, <2>5, <2>6
<1>5. CASE UNCHANGED Mine(p)
  <2>1. /\ pc'[p] = pc[p] /\ task'[p] = task[p] /\ put'[p] = put[p] /\ since'[p] = since[p] /\ min'[p] = min[p]
        /\ found'[p] = found[p] /\ at'[p] = at[p]
    BY <1>5 DEF Mine
  <2>2. Overtaken(p)' <=> Overtaken(p)
    BY <2>1 DEF Overtaken
  <2>3. /\ at[p] = 1 \/ (at[p] - 1) + min[p] <= Len(found[p])
        /\ \/ Overtaken(p)
           \/ \A j \in 1 .. Len(found[p]) : j + min[p] <= Len(found[p]) => found[p][j].fname \notin put[p]
        /\ min[p] # 0
    BY <2>1 DEF SpareInv
  <2> QED
    BY <2>1, <2>2, <2>3
<1> QED
  BY <1>1, <1>2, <1>3, <1>4, <1>5, OwnOrSame DEF Step

\* What has been deleted lies before the files that the cleanup keeps.
LEMMA SpareKeeps == Typed /\ SpareInv => NewFilesKept
<1> SUFFICES ASSUME Typed, SpareInv, NEW p \in Procs, pc[p] = "delete", task[p].kind = "compile"
             PROVE  Overtaken(p) \/ \A j \in 1 .. at[p] - 1 : found[p][j].fname \notin put[p]
  BY DEF NewFilesKept, Overtaken
<1>1. /\ Len(found[p]) \in Nat /\ at[p] \in Nat \ {0} /\ at[p] <= Len(found[p]) + 1 /\ min[p] \in Nat
  BY LenProperties DEF Typed
<1>2. /\ at[p] = 1 \/ (at[p] - 1) + min[p] <= Len(found[p])
      /\ \/ Overtaken(p)
         \/ \A j \in 1 .. Len(found[p]) : j + min[p] <= Len(found[p]) => found[p][j].fname \notin put[p]
  BY DEF SpareInv
<1>3. ASSUME NEW j \in 1 .. at[p] - 1 PROVE j \in 1 .. Len(found[p]) /\ j + min[p] <= Len(found[p])
  BY <1>1, <1>2
<1> QED
  BY <1>2, <1>3

\* Whatever others put, use, delete and wipe meanwhile, the cleanup that a compile
\* starts does not delete the files the compile has just put: they keep the time they
\* were put with or get a later one, and sort_and_clean keeps the newest files of the
\* list, as many as the compile has put, with all that are as old as the oldest of these.
\* Only where the list holds as many that are newer is this not so.
THEOREM NewFilesStay == Spec => []NewFilesKept
<1>1. Init => OwnInv /\ SpareInv
  BY DEF Init, OwnInv, SpareInv, NoTask
<1> QED
  BY <1>1, TypedInit, TypedNext, OwnNext, SpareNext, SpareKeeps, PTL DEF Spec
-----------------------------------------------------------------------------
(* The count.                                                               *)

\* The cleanup counts no more than the files it has left.
LEMMA RestCount ==
  ASSUME Typed, NEW p \in Procs, pc[p] = "delete"
  PROVE  IsFiniteSet(Rest(p)) /\ Cardinality(Rest(p)) <= Left(p)
<1> DEFINE I == at[p] .. Len(found[p])
           g == [j \in I |-> found[p][j].fname]
<1>1. Len(found[p]) \in Nat /\ at[p] \in Nat \ {0} /\ at[p] <= Len(found[p]) + 1
  BY LenProperties DEF Typed
<1>2. at[p] \in Int /\ Len(found[p]) \in Int
  BY <1>1
<1>3. IsFiniteSet(I) /\ Cardinality(I) = IF at[p] > Len(found[p]) THEN 0 ELSE Len(found[p]) - at[p] + 1
  BY <1>2, FS_Interval
<1>4. Cardinality(I) = Left(p)
  BY <1>1, <1>3 DEF Left
<1>5. g \in Surjection(I, Rest(p))
  BY DEF Surjection, Rest
<1> HIDE DEF I, g
<1> QED
  BY <1>3, <1>4, <1>5, FS_Surjection

\* A part of the files that are there.
LEMMA PartCount ==
  ASSUME NEW S, NEW T, IsFiniteSet(T), S \subseteq T
  PROVE  IsFiniteSet(S) /\ Cardinality(S) \in Nat /\ Cardinality(T) \in Nat /\ Cardinality(S) <= Cardinality(T)
  BY FS_Subset, FS_CardinalityType

\* What a step of p may do to the files that another cleanup has not missed.
LEMMA MissedGrows ==
  ASSUME Typed, [Next]_vars, NEW q \in Procs, Cleaning(q), UNCHANGED Mine(q)
  PROVE  Present' \ missed'[q] \subseteq Present \ missed[q]
<1>t. /\ mtime \in [Names -> Nat] /\ missed \in [Procs -> SUBSET Names]
      /\ pc \in [Procs -> Pcs] /\ at \in [Procs -> Nat \ {0}]
      /\ Compilers \subseteq Procs /\ Commanders \subseteq Procs /\ Killable \subseteq Procs
  BY CCacheStatsAssumption DEF Typed
<1>q. pc'[q] = pc[q] /\ at'[q] = at[q] /\ pc[q] # "idle"
  BY DEF Mine, Cleaning
<1>r. ASSUME NEW gone, Removed(gone) PROVE Present' \ missed'[q] \subseteq Present \ missed[q]
  BY <1>r, <1>t DEF Removed, Present
<1>s. ASSUME mtime' = mtime, missed'[q] = missed[q] PROVE Present' \ missed'[q] \subseteq Present \ missed[q]
  BY <1>s DEF Present
<1>1. ASSUME NEW p \in Procs, Put(p) PROVE Present' \ missed'[q] \subseteq Present \ missed[q]
  <2>1. PICK new \in SUBSET Names :
          /\ mtime' = [f \in Names |-> IF f \in new THEN clock ELSE mtime[f]]
          /\ missed' = [c \in Procs |-> IF Cleaning(c) THEN missed[c] \cup new ELSE missed[c]]
    BY <1>1 DEF Put
  <2>2. missed'[q] = missed[q] \cup new
    BY <2>1
  <2> QED
    BY <2>1, <2>2 DEF Present
<1>2. ASSUME NEW p \in Procs, Hit(p) PROVE Present' \ missed'[q] \subseteq Present \ missed[q]
  BY <1>2, <1>t DEF Hit, history, Present
<1>3. ASSUME NEW p \in Procs, Discard(p) \/ WipeAll(p) PROVE Present' \ missed'[q] \subseteq Present \ missed[q]
  BY <1>3, <1>r DEF Discard, WipeAll
<1>4. ASSUME NEW p \in Procs, SetLimits(p) \/ Zero(p) \/ CleanAll(p) \/ LockStats(p) \/ ReadStats(p) \/ SetSizes(p)
      PROVE  Present' \ missed'[q] \subseteq Present \ missed[q]
  BY <1>4, <1>s DEF SetLimits, Zero, CleanAll, LockStats, ReadStats, SetSizes, history
<1>5. ASSUME NEW p \in Procs, WriteStats(p) \/ Kill(p) PROVE Present' \ missed'[q] \subseteq Present \ missed[q]
  <2>0. mtime' = mtime
    BY <1>5 DEF WriteStats, Kill
  <2>1. missed' = missed \/ Finish(p)
    BY <1>5 DEF WriteStats, Written, Kill
  <2>f. Finish(p) => p # q
    BY <1>q, <1>t DEF Finish, Goto
  <2>2. missed'[q] = missed[q]
    BY <1>t, <2>1, <2>f DEF Finish
  <2> QED
    BY <1>s, <2>0, <2>2
<1>6. ASSUME NEW p \in Procs, List(p) PROVE Present' \ missed'[q] \subseteq Present \ missed[q]
  <2>1. /\ mtime' = mtime /\ missed' = [missed EXCEPT ![p] = {}]
        /\ pc[p] = "list" /\ pc'[p] = "delete"
    BY <1>6, <1>t DEF List, Goto
  <2>2. p # q
    BY <1>q, <2>1
  <2> QED
    BY <1>s, <1>t, <2>1, <2>2
<1>7. ASSUME NEW p \in Procs, Delete(p) PROVE Present' \ missed'[q] \subseteq Present \ missed[q]
  <2>1. at'[p] = at[p] + 1
    BY <1>7, <1>t DEF Delete
  <2>2. p # q
    BY <1>q, <1>t, <2>1
  <2>3. \/ Removed({found[p][at[p]].fname})
        \/ mtime' = mtime /\ missed'[q] = missed[q]
    BY <1>7, <1>t, <2>2 DEF Delete
  <2> QED
    BY <1>r, <1>s, <2>3
<1>8. CASE UNCHANGED vars \/ Tick
  BY <1>8, <1>s DEF vars, Tick, history
<1> QED
  BY <1>t, <1>1, <1>2, <1>3, <1>4, <1>5, <1>6, <1>7, <1>8 DEF Next, Step

LEMMA CoverNext == Typed /\ CoverInv /\ [Next]_vars => CoverInv'
<1> SUFFICES ASSUME Typed, CoverInv, [Next]_vars, NEW p \in Procs
             PROVE  /\ pc'[p] = "delete" => Present' \ missed'[p] \subseteq Rest(p)'
                    /\ pc'[p] \in {"lock", "read", "write"} /\ task'[p].kind = "sizes" =>
                         Cardinality(Present' \ missed'[p]) <= task'[p].value
  BY DEF CoverInv
<1>t. /\ pc \in [Procs -> Pcs] /\ task \in [Procs -> [kind : Kinds, value : Nat]]
      /\ at \in [Procs -> Nat \ {0}] /\ found \in [Procs -> Seq(Entry)]
      /\ mtime \in [Names -> Nat] /\ missed \in [Procs -> SUBSET Names]
  BY DEF Typed
<1>i. /\ pc[p] = "delete" => Present \ missed[p] \subseteq Rest(p)
      /\ pc[p] \in {"lock", "read", "write"} /\ task[p].kind = "sizes" =>
           Cardinality(Present \ missed[p]) <= task[p].value
  BY DEF CoverInv
<1>f. IsFiniteSet(Present \ missed[p])
  BY PresentFinite, FS_Subset
<1>1. CASE Put(p) \/ Hit(p) \/ SetLimits(p) \/ Zero(p)
  <2>1. pc'[p] = "lock" /\ task'[p].kind # "sizes"
    BY <1>1, <1>t DEF Put, Hit, SetLimits, Zero, Update, Goto
  <2> QED
    BY <2>1
<1>2. CASE CleanAll(p) \/ WipeAll(p)
  <2>1. pc'[p] = "list"
    BY <1>2, <1>t DEF CleanAll, WipeAll, CleanUp, Goto
  <2> QED
    BY <2>1
<1>3. CASE LockStats(p) \/ ReadStats(p)
  <2>1. /\ pc[p] \in {"lock", "read"} /\ pc'[p] \in {"read", "write"}
        /\ task' = task /\ mtime' = mtime /\ missed' = missed
    BY <1>3, <1>t DEF LockStats, ReadStats, Goto, history
  <2>2. Present' = Present
    BY <2>1 DEF Present
  <2> QED
    BY <1>i, <2>1, <2>2
<1>4. CASE WriteStats(p) \/ Kill(p)
  <2>1. pc'[p] \in {"idle", "list"}
    BY <1>4, <1>t DEF WriteStats, Written, CleanUp, Kill, Finish, Goto
  <2> QED
    BY <2>1
<1>5. CASE List(p)
  <2>1. /\ pc'[p] = "delete" /\ found'[p] = OldestFirst /\ at'[p] = 1 /\ mtime' = mtime
    BY <1>5, <1>t DEF List, Goto
  <2>2. Sorted(OldestFirst)
    BY <1>t, Listed
  <2>3. Present \subseteq Rest(p)'
    <3> SUFFICES ASSUME NEW f \in Present PROVE f \in Rest(p)'
      OBVIOUS
    <3>1. PICK j \in 1 .. Len(OldestFirst) : OldestFirst[j].fname = f
      BY <2>2 DEF Sorted
    <3> QED
      BY <2>1, <3>1 DEF Rest
  <2>4. Present' = Present
    BY <2>1 DEF Present
  <2> QED
    BY <2>1, <2>3, <2>4
<1>6. CASE Delete(p)
  <2> DEFINE f == found[p][at[p]].fname
  <2>1. pc[p] = "delete" /\ pc' = pc /\ Left(p) # 0 /\ found' = found /\ at'[p] = at[p] + 1
    BY <1>6, <1>t DEF Delete, Enough
  <2>2. Present' \ missed'[p] \subseteq (Present \ missed[p]) \ {f}
    <3>1. CASE Removed({f})
      BY <1>t, <3>1 DEF Removed, Present
    <3>2. CASE f \in Present /\ missed' = [missed EXCEPT ![p] = @ \cup {f}] /\ mtime' = mtime
      <4> HIDE DEF f
      <4> QED
        BY <1>t, <3>2 DEF Present
    <3> QED
      BY <1>6, <3>1, <3>2 DEF Delete
  <2>3. Rest(p) \subseteq Rest(p)' \cup {f}
    <3> SUFFICES ASSUME NEW j \in at[p] .. Len(found[p]) PROVE found[p][j].fname \in Rest(p)' \cup {f}
      BY DEF Rest
    <3>1. Len(found[p]) \in Nat /\ at[p] \in Nat
      BY <1>t, LenProperties
    <3>2. j = at[p] \/ j \in (at[p] + 1) .. Len(found[p])
      BY <3>1
    <3> QED
      BY <2>1, <3>2 DEF Rest
  <2> HIDE DEF f
  <2> QED
    BY <1>i, <2>1, <2>2, <2>3
<1>7. CASE SetSizes(p)
  <2>1. /\ pc[p] = "delete" /\ pc'[p] = "lock" /\ task'[p].value = Left(p)
        /\ mtime' = mtime /\ missed' = missed
    BY <1>7, <1>t DEF SetSizes, Update, Goto, history
  <2>2. Present' = Present
    BY <2>1 DEF Present
  <2>3. IsFiniteSet(Rest(p)) /\ Cardinality(Rest(p)) <= Left(p) /\ Left(p) \in Nat
    BY <2>1, RestCount, LeftNat
  <2>4. /\ Cardinality(Present \ missed[p]) <= Cardinality(Rest(p))
        /\ Cardinality(Present \ missed[p]) \in Nat /\ Cardinality(Rest(p)) \in Nat
    BY <1>i, <2>1, <2>3, PartCount
  <2> QED
    BY <2>1, <2>2, <2>3, <2>4
<1>8. CASE UNCHANGED Mine(p)
  <2>1. pc'[p] = pc[p] /\ task'[p] = task[p] /\ found'[p] = found[p] /\ at'[p] = at[p]
    BY <1>8 DEF Mine
  <2>2. Cleaning(p) => Present' \ missed'[p] \subseteq Present \ missed[p]
    BY <1>8, MissedGrows
  <2>3. pc[p] = "delete" => Present' \ missed'[p] \subseteq Rest(p)'
    BY <1>i, <2>1, <2>2 DEF Cleaning, Rest
  <2>4. ASSUME pc[p] \in {"lock", "read", "write"}, task[p].kind = "sizes"
        PROVE  Cardinality(Present' \ missed'[p]) <= task[p].value
    <3>1. Present' \ missed'[p] \subseteq Present \ missed[p]
      BY <2>2, <2>4 DEF Cleaning
    <3>2. /\ Cardinality(Present' \ missed'[p]) <= Cardinality(Present \ missed[p])
          /\ Cardinality(Present' \ missed'[p]) \in Nat /\ Cardinality(Present \ missed[p]) \in Nat
      BY <1>f, <3>1, PartCount
    <3>3. Cardinality(Present \ missed[p]) <= task[p].value /\ task[p].value \in Nat
      BY <1>i, <1>t, <2>4
    <3> QED
      BY <3>2, <3>3
  <2> QED
    BY <2>1, <2>3, <2>4
<1> QED
  BY <1>1, <1>2, <1>3, <1>4, <1>5, <1>6, <1>7, <1>8, OwnOrSame DEF Step

LEMMA CoveredFinite == IsFiniteSet(Covered)
<1>1. Covered \subseteq Present
  BY DEF Covered
<1> QED
  BY <1>1, PresentFinite, FS_Subset

\* Where the stored count stays, no step adds to the files that it has to cover.
LEMMA CoveredShrinks ==
  ASSUME Typed, [Next]_vars, OwnInv
  PROVE  \/ Covered' \subseteq Covered /\ stats' = stats
         \/ \E p \in Procs : WriteStats(p)
<1>t. /\ mtime \in [Names -> Nat] /\ pc \in [Procs -> Pcs]
      /\ task \in [Procs -> [kind : Kinds, value : Nat]] /\ put \in [Procs -> SUBSET Names]
      /\ clock \in Nat \ {0}
      /\ Compilers \subseteq Procs /\ Commanders \subseteq Procs /\ Killable \subseteq Procs
  BY CCacheStatsAssumption DEF Typed
\* The files of another process that are still to be counted stay so.
<1>o. ASSUME NEW p \in Procs, Pending(p), UNCHANGED <<pc[p], task[p], put[p]>>
      PROVE  Pending(p)' /\ put'[p] = put[p]
  BY <1>o DEF Pending
<1>1. ASSUME NEW p \in Procs, Put(p) PROVE Covered' \subseteq Covered /\ stats' = stats
  <2>1. PICK new \in SUBSET Names :
          /\ mtime' = [f \in Names |-> IF f \in new THEN clock ELSE mtime[f]]
          /\ put' = [put EXCEPT ![p] = new]
    BY <1>1 DEF Put
  <2>2. /\ pc[p] = "idle" /\ pc' = [pc EXCEPT ![p] = "lock"]
        /\ task' = [task EXCEPT ![p] = [kind |-> "compile", value |-> NPut]]
        /\ uncounted' = uncounted /\ stats' = stats
    BY <1>1 DEF Put, Update, Goto
  <2>3. Pending(p)' /\ put'[p] = new /\ ~ Pending(p)
    BY <1>t, <2>1, <2>2 DEF Pending
  <2>4. ASSUME NEW f \in Covered' PROVE f \in Covered
    <3>1. f \in Present' /\ f \notin uncounted /\ f \notin new
      BY <2>2, <2>3, <2>4 DEF Covered
    <3>2. f \in Present
      BY <2>1, <3>1 DEF Present
    <3>3. \A q \in Procs : Pending(q) => f \notin put[q]
      BY <1>t, <2>1, <2>2, <2>3, <2>4 DEF Covered, Pending
    <3> QED
      BY <3>1, <3>2, <3>3 DEF Covered
  <2> QED
    BY <2>2, <2>4
\* Steps that take files away or none, and change nothing of what is pending.
<1>s. ASSUME Present' \subseteq Present, uncounted \cap Present' \subseteq uncounted',
             \A q \in Procs : Pending(q) => Pending(q)' /\ put'[q] = put[q]
      PROVE  Covered' \subseteq Covered
  BY <1>s DEF Covered
<1>2. ASSUME NEW p \in Procs, Hit(p) PROVE Covered' \subseteq Covered /\ stats' = stats
  <2>1. /\ Present' = Present /\ uncounted' = uncounted /\ stats' = stats /\ put' = put
    BY <1>2, <1>t DEF Hit, local, history, Present
  <2>2. \A q \in Procs : Pending(q) => Pending(q)'
    BY <1>2, <1>t DEF Hit, Update, Goto, Pending
  <2> QED
    BY <1>s, <2>1, <2>2
<1>r. ASSUME NEW gone, Removed(gone) PROVE Present' \subseteq Present /\ uncounted \cap Present' \subseteq uncounted'
  BY <1>r, <1>t DEF Removed, Present
<1>3. ASSUME NEW p \in Procs, Discard(p) PROVE Covered' \subseteq Covered /\ stats' = stats
  <2>1. PICK gone : Removed(gone)
    BY <1>3 DEF Discard
  <2>2. stats' = stats /\ \A q \in Procs : Pending(q) => Pending(q)' /\ put'[q] = put[q]
    BY <1>3 DEF Discard, local, Pending
  <2> QED
    BY <1>r, <1>s, <2>1, <2>2
<1>4. ASSUME NEW p \in Procs, WipeAll(p) PROVE Covered' \subseteq Covered /\ stats' = stats
  <2>1. PICK gone : Removed(gone)
    BY <1>4 DEF WipeAll
  <2>2. stats' = stats /\ \A q \in Procs : Pending(q) => Pending(q)' /\ put'[q] = put[q]
    BY <1>4, <1>t DEF WipeAll, CleanUp, Goto, Pending
  <2> QED
    BY <1>r, <1>s, <2>1, <2>2
<1>5. ASSUME NEW p \in Procs, Delete(p) PROVE Covered' \subseteq Covered /\ stats' = stats
  <2>1. Present' \subseteq Present /\ uncounted \cap Present' \subseteq uncounted'
    BY <1>5, <1>r DEF Delete, Present
  <2>2. stats' = stats /\ \A q \in Procs : Pending(q) => Pending(q)' /\ put'[q] = put[q]
    BY <1>5 DEF Delete, Pending
  <2> QED
    BY <1>s, <2>1, <2>2
<1>6. ASSUME NEW p \in Procs, SetLimits(p) \/ Zero(p) \/ CleanAll(p) \/ LockStats(p) \/ ReadStats(p) \/ List(p)
      PROVE  Covered' \subseteq Covered /\ stats' = stats
  <2>1. Present' = Present /\ uncounted' = uncounted /\ stats' = stats /\ put' = put
    BY <1>6 DEF SetLimits, Zero, CleanAll, LockStats, ReadStats, List, local, history, Present
  <2>2. \A q \in Procs : Pending(q) => Pending(q)'
    BY <1>6, <1>t DEF SetLimits, Zero, CleanAll, LockStats, ReadStats, List, CleanUp, Update, Goto, local, Pending
  <2> QED
    BY <1>s, <2>1, <2>2
<1>7. ASSUME NEW p \in Procs, SetSizes(p) PROVE Covered' \subseteq Covered /\ stats' = stats
  <2>1. Present' = Present /\ uncounted' = uncounted /\ stats' = stats
    BY <1>7 DEF SetSizes, history, Present
  <2>2. \A q \in Procs : Pending(q) => Pending(q)' /\ put'[q] = put[q]
    BY <1>7, <1>t DEF SetSizes, ListGone, Update, Goto, Pending
  <2> QED
    BY <1>s, <2>1, <2>2
<1>8. ASSUME NEW p \in Procs, Kill(p) PROVE Covered' \subseteq Covered /\ stats' = stats
  <2>1. /\ Present' = Present /\ stats' = stats
        /\ uncounted' = IF Pending(p) THEN uncounted \cup put[p] ELSE uncounted
    BY <1>8 DEF Kill, Present
  <2>2. \A q \in Procs \ {p} : Pending(q) => Pending(q)' /\ put'[q] = put[q]
    BY <1>8, <1>t DEF Kill, Finish, Goto, Pending
  <2>3. ASSUME NEW f \in Covered' PROVE f \in Covered
    <3>1. f \in Present /\ f \notin uncounted /\ (Pending(p) => f \notin put[p])
      BY <2>1, <2>3 DEF Covered
    <3>2. \A q \in Procs \ {p} : Pending(q) => f \notin put[q]
      BY <2>2, <2>3 DEF Covered
    <3> QED
      BY <3>1, <3>2 DEF Covered
  <2> QED
    BY <2>1, <2>3
<1>9. CASE UNCHANGED vars \/ Tick
  BY <1>9 DEF vars, Tick, local, history, Covered, Present, Pending
<1> QED
  BY <1>t, <1>1, <1>2, <1>3, <1>4, <1>5, <1>6, <1>7, <1>8, <1>9 DEF Next, Step

\* What is written covers the files that it has to cover then.
LEMMA WriteCovers ==
  ASSUME Typed, AllFresh, OwnInv, CoverInv, Cardinality(Covered) <= stats.files, NEW p \in Procs, WriteStats(p)
  PROVE  Cardinality(Covered') <= stats'.files
<1>t. /\ pc \in [Procs -> Pcs] /\ task \in [Procs -> [kind : Kinds, value : Nat]]
      /\ put \in [Procs -> SUBSET Names] /\ stats.files \in Nat /\ NPut \in Nat
  BY CCacheStatsAssumption DEF Typed, Counters
<1>1. /\ pc[p] = "write" /\ mtime' = mtime /\ stats' = Changed(p) /\ uncounted' = Uncounted(p)
      /\ counters[p] = stats
  BY DEF WriteStats, AllFresh
<1>2. Present' = Present
  BY <1>1 DEF Present
<1>3. \A q \in Procs \ {p} : Pending(q) => Pending(q)' /\ put'[q] = put[q]
  BY <1>t DEF WriteStats, Written, CleanUp, Finish, Goto, Pending
<1>4. CASE task[p].kind = "compile"
  <2>1. Own(p) /\ task[p].value = NPut
    BY <1>1, <1>4 DEF OwnInv
  <2>2. Covered' \subseteq Covered \cup put[p]
    BY <1>1, <1>2, <1>3, <1>4 DEF Covered, Uncounted
  <2>3. /\ IsFiniteSet(Covered \cup put[p])
        /\ Cardinality(Covered \cup put[p]) = Cardinality(Covered) + Cardinality(put[p]) - Cardinality(Covered \cap put[p])
    BY <2>1, CoveredFinite, FS_Union DEF Own
  <2>4. Cardinality(Covered) \in Nat /\ Cardinality(Covered \cap put[p]) \in Nat /\ Cardinality(put[p]) = NPut
    BY <2>1, CoveredFinite, FS_Subset, FS_CardinalityType DEF Own
  <2>5. Cardinality(Covered') <= Cardinality(Covered \cup put[p]) /\ Cardinality(Covered') \in Nat
    BY <2>2, <2>3, PartCount
  <2>6. stats'.files = stats.files + NPut
    BY <1>1, <1>4, <2>1 DEF Changed
  <2> QED
    BY <1>t, <2>3, <2>4, <2>5, <2>6
<1>5. CASE task[p].kind = "sizes"
  <2>1. Covered' \subseteq Present \ missed[p]
    BY <1>1, <1>2, <1>5 DEF Covered, Uncounted
  <2>2. Cardinality(Present \ missed[p]) <= task[p].value
    BY <1>1, <1>5 DEF CoverInv
  <2>3. stats'.files = task[p].value /\ task[p].value \in Nat
    BY <1>1, <1>5, <1>t DEF Changed
  <2>4. IsFiniteSet(Present \ missed[p])
    BY PresentFinite, FS_Subset
  <2>5. /\ Cardinality(Covered') <= Cardinality(Present \ missed[p])
        /\ Cardinality(Covered') \in Nat /\ Cardinality(Present \ missed[p]) \in Nat
    BY <2>1, <2>4, PartCount
  <2> QED
    BY <2>2, <2>3, <2>5
<1>6. CASE task[p].kind \notin {"compile", "sizes"}
  <2>1. stats'.files = stats.files /\ uncounted' = uncounted
    BY <1>1, <1>6 DEF Changed, Uncounted
  <2>2. ~ Pending(p)
    BY <1>6 DEF Pending
  <2>3. Covered' \subseteq Covered
    BY <1>2, <1>3, <2>1, <2>2 DEF Covered
  <2>4. Cardinality(Covered') <= Cardinality(Covered) /\ Cardinality(Covered') \in Nat /\ Cardinality(Covered) \in Nat
    BY <2>3, CoveredFinite, PartCount
  <2> QED
    BY <1>t, <2>1, <2>4
<1> QED
  BY <1>4, <1>5, <1>6

LEMMA CountNext ==
  Typed /\ AllFresh /\ OwnInv /\ CoverInv /\ CountCovers /\ [Next]_vars => CountCovers'
<1> SUFFICES ASSUME Typed, AllFresh, OwnInv, CoverInv, Cardinality(Covered) <= stats.files, [Next]_vars
             PROVE  Cardinality(Covered') <= stats'.files
  BY DEF CountCovers, Covered
<1>1. CASE \E p \in Procs : WriteStats(p)
  BY <1>1, WriteCovers
<1>2. CASE Covered' \subseteq Covered /\ stats' = stats
  <2>1. Cardinality(Covered') <= Cardinality(Covered) /\ Cardinality(Covered') \in Nat /\ Cardinality(Covered) \in Nat
    BY <1>2, CoveredFinite, PartCount
  <2>2. stats.files \in Nat
    BY DEF Typed, Counters
  <2> QED
    BY <1>2, <2>1, <2>2
<1> QED
  BY <1>1, <1>2, CoveredShrinks

\* However compiles, cleanups and wipes interleave and whoever is killed, the stored
\* file count covers all files that are there, apart from those that a running compile
\* has still to count or a killed one never did, and those that the last cleanup did
\* not count, put after it had listed the directory or not to be deleted.  An update
\* adds to the count that is still in the file, as its process holds the lock; what
\* stats_set_sizes stores in its place covers what the loop has not come to.
THEOREM CountAlwaysCovers == Spec => []CountCovers
<1>1. Init => AllFresh /\ OwnInv /\ CoverInv /\ CountCovers
  <2> SUFFICES ASSUME Init PROVE AllFresh /\ OwnInv /\ CoverInv /\ CountCovers
    OBVIOUS
  <2>1. Covered = {}
    BY DEF Init, Covered, Present
  <2>2. Cardinality(Covered) = 0 /\ stats.files = 0
    BY <2>1, FS_EmptySet DEF Init
  <2>3. CountCovers
    BY <2>2 DEF CountCovers, Covered
  <2> QED
    BY <2>3 DEF Init, AllFresh, OwnInv, CoverInv, NoTask
<1>2. LockInv => Holders
  BY DEF LockInv
<1> QED
  BY <1>1, <1>2, LockInit, LockNext, TypedInit, TypedNext, FreshNext, OwnNext, CoverNext, CountNext, PTL DEF Spec
=============================================================================
