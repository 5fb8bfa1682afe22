---------------------------- MODULE CCacheStats ----------------------------
(***************************************************************************)
(* The counters and the limits of one cache subdirectory (CCache/stats.c)  *)
(* and the cleanup that keeps it below them (CCache/cleanup.c).            *)
(*                                                                         *)
(* The stats file is updated under an fcntl lock: open and lock, read,     *)
(* write and close.  A cleanup lists the files, deletes the oldest, and    *)
(* then overwrites the file count; it holds no lock while it does so.      *)
(* Any number of processes may compile and clean up at once.               *)
(* Files are numbered in the order of their names.  The limit on the size  *)
(* works as the one on the number of files and is left out.                *)
(***************************************************************************)
EXTENDS Naturals, Sequences, FiniteSets

CONSTANTS
  Procs,      \* the ccache processes that use the subdirectory
  Names,      \* the names files can have, natural numbers
  NPut,       \* how many files a compile puts into the cache
  Limits,     \* the values -F may store as MAXFILES of a subdirectory, 0 for none
  MaxClock,   \* bound on the clock
  MaxCount,   \* bound on NUMFILES, which grows when entries are replaced
  Compilers,  \* the processes that compile
  Commanders, \* the processes that are given -F, -z, -c or -C
  Killable    \* the processes that may be killed

ASSUME CCacheStatsAssumption ==
  /\ Names \subseteq Nat \ {0} /\ IsFiniteSet(Names)
  /\ NPut \in Nat \ {0}
  /\ Limits \subseteq Nat
  /\ MaxClock \in Nat \ {0}
  /\ MaxCount \in Nat
  /\ Compilers \subseteq Procs /\ Commanders \subseteq Procs
  /\ Killable \subseteq Procs
  /\ 0 \notin Procs

VARIABLES
  mtime,     \* modification time of every file of the subdirectory, 0 if there is none
  clock,     \* the time, in the resolution of mtime
  stats,     \* the stats file: NUMFILES and MAXFILES
  lock,      \* the process that has locked it, 0 if none
  limit,     \* the limit that -F stored last
  pc,        \* where each process is
  task,      \* what it is going to do to the stats file
  counters,  \* the counters it has read
  put,       \* the files its compile has just put into the cache
  min,       \* minfiles of its cleanup
  found,     \* the files its cleanup has listed, oldest first: fname and mtime
  at,        \* the index of the next file to delete
  since,     \* history: the time at which its compile has put its files
  missed,    \* history: the files that its cleanup need not count
  uncounted  \* history: the files that the stored count need not cover

local   == <<counters, put, min, found, at, since>>
history == <<missed, uncounted>>
vars    == <<mtime, clock, stats, lock, limit, pc, task, counters, put, min, found, at, since,
             missed, uncounted>>

Free     == 0
Present  == {f \in Names : mtime[f] # 0}
NoTask   == [kind |-> "none", value |-> 0]

Init ==
  /\ mtime = [f \in Names |-> 0]
  /\ clock = 1
  /\ stats = [files |-> 0, max |-> 0]
  /\ lock = Free
  /\ limit = 0
  /\ pc = [p \in Procs |-> "idle"]
  /\ task = [p \in Procs |-> NoTask]
  /\ counters = [p \in Procs |-> [files |-> 0, max |-> 0]]
  /\ put = [p \in Procs |-> {}]
  /\ min = [p \in Procs |-> 0]
  /\ found = [p \in Procs |-> <<>>]
  /\ at = [p \in Procs |-> 1]
  /\ since = [p \in Procs |-> 0]
  /\ missed = [p \in Procs |-> {}]
  /\ uncounted = {}

Goto(p, l) == pc' = [pc EXCEPT ![p] = l]

\* Files are deleted.
Removed(gone) ==
  /\ mtime' = [f \in Names |-> IF f \in gone THEN 0 ELSE mtime[f]]
  /\ missed' = [q \in Procs |-> missed[q] \ gone]
  /\ uncounted' = uncounted \ gone

\* cleanup_dir is called; of the counters it is given the limit only.
CleanUp(p, max) ==
  /\ counters' = [counters EXCEPT ![p] = [files |-> 0, max |-> max]]
  /\ Goto(p, "list")

\* Start an update of the stats file.
Update(p, kind, value) ==
  /\ task' = [task EXCEPT ![p] = [kind |-> kind, value |-> value]]
  /\ Goto(p, "lock")

\* The process is done.
Finish(p) ==
  /\ Goto(p, "idle")
  /\ task' = [task EXCEPT ![p] = NoTask]
  /\ counters' = [counters EXCEPT ![p] = [files |-> 0, max |-> 0]]
  /\ put' = [put EXCEPT ![p] = {}]
  /\ min' = [min EXCEPT ![p] = 0]
  /\ found' = [found EXCEPT ![p] = <<>>]
  /\ at' = [at EXCEPT ![p] = 1]
  /\ since' = [since EXCEPT ![p] = 0]
  /\ missed' = [missed EXCEPT ![p] = {}]

\* Between the putting of a compile's files and their counting.
Pending(p) == task[p].kind = "compile" /\ pc[p] \in {"lock", "read", "write"}

\* Between the listing of a cleanup and the storing of its count.
Cleaning(p) == pc[p] = "delete" \/ (pc[p] # "idle" /\ task[p].kind = "sizes")
-----------------------------------------------------------------------------
(* The operations.                                                          *)

\* to_cache: a compile has put its files into the cache, where another compile
\* may have put them already; stats_tocache follows.
Put(p) ==
  /\ pc[p] = "idle"
  /\ stats.files + NPut <= MaxCount
  /\ \E new \in SUBSET Names :
       /\ Cardinality(new) = NPut
       /\ mtime' = [f \in Names |-> IF f \in new THEN clock ELSE mtime[f]]
       /\ put' = [put EXCEPT ![p] = new]
       /\ missed' = [q \in Procs |-> IF Cleaning(q) THEN missed[q] \cup new ELSE missed[q]]
  /\ since' = [since EXCEPT ![p] = clock]
  /\ Update(p, "compile", NPut)
  /\ UNCHANGED <<clock, stats, lock, limit, counters, min, found, at, uncounted>>

\* from_cache: a file is used and gets a new time; stats_update(STATS_CACHED).
Hit(p) ==
  /\ pc[p] = "idle"
  /\ \E f \in Present : mtime' = [mtime EXCEPT ![f] = clock]
  /\ Update(p, "count", 0)
  /\ UNCHANGED <<clock, stats, lock, limit, local, history>>

\* from_cache: unlink(stderr_file) of an incomplete entry.
Discard(p) ==
  /\ pc[p] = "idle"
  /\ \E f \in Present : Removed({f})
  /\ UNCHANGED <<clock, stats, lock, limit, pc, task, local>>

\* "ccache -F": stats_set_limits, in this subdirectory.
SetLimits(p) ==
  /\ pc[p] = "idle"
  /\ \E v \in Limits : Update(p, "limit", v)
  /\ UNCHANGED <<mtime, clock, stats, lock, limit, local, history>>

\* "ccache -z": stats_zero, which keeps the counters modelled here.
Zero(p) ==
  /\ pc[p] = "idle"
  /\ Update(p, "zero", 0)
  /\ UNCHANGED <<mtime, clock, stats, lock, limit, local, history>>

\* "ccache -c": cleanup_all reads the limit and cleans up, with minfiles 0.
CleanAll(p) ==
  /\ pc[p] = "idle"
  /\ CleanUp(p, stats.max)
  /\ UNCHANGED <<mtime, clock, stats, lock, limit, task, put, min, found, at, since, history>>

\* "ccache -C": wipe_all deletes all files but the stats, or those that unlink can
\* delete, then cleanup_all.
WipeAll(p) ==
  /\ pc[p] = "idle"
  /\ \E gone \in SUBSET Present : Removed(gone)
  /\ CleanUp(p, stats.max)
  /\ UNCHANGED <<clock, stats, lock, limit, task, put, min, found, at, since>>
-----------------------------------------------------------------------------
(* An update of the stats file.                                             *)

\* Mutant: the lock is not taken.
LockStatsNot(p) ==
  /\ pc[p] = "lock"
  /\ Goto(p, "read")
  /\ UNCHANGED <<mtime, clock, stats, lock, limit, task, local, history>>

\* lock_fd waits for the lock.
LockStats(p) ==
  /\ pc[p] = "lock"
  /\ lock \in {Free, p}
  /\ lock' = p
  /\ Goto(p, "read")
  /\ UNCHANGED <<mtime, clock, stats, limit, task, local, history>>

\* stats_read_fd
ReadStats(p) ==
  /\ pc[p] = "read"
  /\ counters' = [counters EXCEPT ![p] = stats]
  /\ Goto(p, "write")
  /\ UNCHANGED <<mtime, clock, stats, lock, limit, task, put, min, found, at, since, history>>

\* The counters to be written.
Changed(p) ==
  LET v == task[p].value
      c == counters[p]
  IN  [files |-> IF task[p].kind = "compile" THEN c.files + v
                 ELSE IF task[p].kind = "sizes" THEN v ELSE c.files,
       max   |-> IF task[p].kind = "limit" THEN v ELSE c.max]

\* Whether stats_update_size finds the limit exceeded.
NeedCleanup(p, c) == task[p].kind \in {"compile", "count"} /\ c.max # 0 /\ c.files > c.max

\* The process has written c: what it goes on with.
Written(p, c) ==
  IF NeedCleanup(p, c)
  THEN /\ CleanUp(p, c.max)
       /\ min' = [min EXCEPT ![p] = task[p].value]
       /\ UNCHANGED <<task, put, found, at, since, missed>>
  ELSE Finish(p)

\* The files that the count which is written need not cover: a compile's own are
\* counted now, a cleanup's count leaves out what it has missed.
Uncounted(p) ==
  CASE task[p].kind = "compile" -> uncounted \ put[p]
    [] task[p].kind = "sizes"   -> missed[p]
    [] OTHER                    -> uncounted

\* Mutant: the file is left open, and with it locked.
WriteStatsOpen(p) ==
  /\ pc[p] = "write"
  /\ stats' = Changed(p)
  /\ limit' = IF task[p].kind = "limit" THEN task[p].value ELSE limit
  /\ uncounted' = Uncounted(p)
  /\ Written(p, Changed(p))
  /\ UNCHANGED <<mtime, clock, lock>>

\* write_stats and close.
WriteStats(p) ==
  /\ pc[p] = "write"
  /\ stats' = Changed(p)
  /\ lock' = Free
  /\ limit' = IF task[p].kind = "limit" THEN task[p].value ELSE limit
  /\ uncounted' = Uncounted(p)
  /\ Written(p, Changed(p))
  /\ UNCHANGED <<mtime, clock>>
-----------------------------------------------------------------------------
(* cleanup_dir                                                              *)

\* files_compare: by time, and among equals by falling names.
Before(f, g) == mtime[f] < mtime[g] \/ (mtime[f] = mtime[g] /\ f > g)

OldestFirst ==
  LET nth(j) == CHOOSE f \in Present : Cardinality({g \in Present : Before(g, f)}) = j - 1
  IN  [j \in 1 .. Cardinality(Present) |-> [fname |-> nth(j), mtime |-> mtime[nth(j)]]]

\* minfiles of sort_and_clean: the newest min files are kept, and with them all
\* that are as old as the oldest of them.
Adjusted(s, m) ==
  IF m # 0 /\ m < Len(s)
  THEN m + Cardinality({j \in 1 .. Len(s) - m : s[j].mtime = s[Len(s) - m + 1].mtime})
  ELSE m

\* traverse and qsort.
List(p) ==
  /\ pc[p] = "list"
  /\ found' = [found EXCEPT ![p] = OldestFirst]
  /\ min' = [min EXCEPT ![p] = Adjusted(OldestFirst, @)]
  /\ at' = [at EXCEPT ![p] = 1]
  /\ missed' = [missed EXCEPT ![p] = {}]
  /\ Goto(p, "delete")
  /\ UNCHANGED <<mtime, clock, stats, lock, limit, task, counters, put, since, uncounted>>

\* files_threshold = maxfiles * LIMIT_MULTIPLE, which is 0.8, as a size_t.
Threshold(m) == (m * 4) \div 5

\* How many of the listed files are left.
Left(p) == Len(found[p]) - (at[p] - 1)

\* Mutant: the new files are not kept.
EnoughIgnoresNew(p) ==
  \/ Left(p) = 0
  \/ Threshold(counters[p].max) = 0 \/ Left(p) < Threshold(counters[p].max)

\* Mutant: the cleanup stops one file too early.
EnoughEarly(p) ==
  \/ Left(p) = 0
  \/ Threshold(counters[p].max) = 0 \/ Left(p) <= Threshold(counters[p].max) + 1
  \/ min[p] # 0 /\ Left(p) <= min[p]

\* The conditions that end the loop of sort_and_clean.
Enough(p) ==
  \/ Left(p) = 0
  \/ Threshold(counters[p].max) = 0 \/ Left(p) < Threshold(counters[p].max)
  \/ min[p] # 0 /\ Left(p) <= min[p]

\* unlink of the oldest file, which may be gone already.  If it fails for another
\* reason the file stays, but the loop goes on all the same ("continue").
Delete(p) ==
  /\ pc[p] = "delete"
  /\ ~ Enough(p)
  /\ LET f == found[p][at[p]].fname IN
     \/ Removed({f})
     \/ /\ f \in Present
        /\ missed' = [missed EXCEPT ![p] = @ \cup {f}]
        /\ UNCHANGED <<mtime, uncounted>>
  /\ at' = [at EXCEPT ![p] = @ + 1]
  /\ UNCHANGED <<clock, stats, lock, limit, pc, task, counters, put, min, found, since>>

\* The list is not used any more.
ListGone(p) ==
  /\ put' = [put EXCEPT ![p] = {}]
  /\ since' = [since EXCEPT ![p] = 0]
  /\ found' = [found EXCEPT ![p] = <<>>]
  /\ at' = [at EXCEPT ![p] = 1]

\* stats_set_sizes, with total_files = num_files - i.
SetSizes(p) ==
  /\ pc[p] = "delete"
  /\ Enough(p)
  /\ Update(p, "sizes", Left(p))
  /\ ListGone(p)
  /\ UNCHANGED <<mtime, clock, stats, lock, limit, counters, min, history>>

\* A process is killed, which drops its lock; the files of its compile may not
\* have been counted.
Kill(p) ==
  /\ pc[p] # "idle"
  /\ uncounted' = IF Pending(p) THEN uncounted \cup put[p] ELSE uncounted
  /\ lock' = IF lock = p THEN Free ELSE lock
  /\ Finish(p)
  /\ UNCHANGED <<mtime, clock, stats, limit>>

\* Time passes.
Tick ==
  /\ clock < MaxClock
  /\ clock' = clock + 1
  /\ UNCHANGED <<mtime, stats, lock, limit, pc, task, local, history>>

Step(p) == LockStats(p) \/ ReadStats(p) \/ WriteStats(p) \/ List(p) \/ Delete(p) \/ SetSizes(p)

Next ==
  \/ \E p \in Compilers : Put(p) \/ Hit(p) \/ Discard(p)
  \/ \E p \in Commanders : SetLimits(p) \/ Zero(p) \/ CleanAll(p) \/ WipeAll(p)
  \/ \E p \in Procs : Step(p)
  \/ \E p \in Killable : Kill(p)
  \/ Tick

\* A process that has begun an operation goes on with it, and the system gives the
\* lock to every process that waits for it.
Spec == Init /\ [][Next]_vars /\ \A p \in Procs : WF_vars(Step(p)) /\ SF_vars(LockStats(p))
-----------------------------------------------------------------------------
\* The stored limit is the one that was set last: no update of another counter
\* writes an old limit back (stats_update_size, stats_set_limits and
\* stats_set_sizes all rewrite the whole file).
LimitKept == stats.max = limit

\* However compiles, cleanups, wipes and settings of the limit interleave, the count
\* covers all files that are there but those whose compile has still to count them,
\* or was killed before; and those which the last cleanup did not count, as they were
\* put after it had listed the directory or could not be deleted (stats.c:356; "keeps
\* statistics up to date on each compile", ccache.yo:81).  No update is lost.
CountCovers ==
  Cardinality({f \in Present \ uncounted : \A p \in Procs : Pending(p) => f \notin put[p]})
    <= stats.files

\* A compile's cleanup does not delete the files that the compile has just put
\* into the cache ("ensure newly cached files (minfiles) are kept", "assumes these
\* are the most recent in the cache", cleanup.c:88), whatever others put, use, clean
\* and wipe in between, unless they have put or used as many files in a later second.
NewFilesKept ==
  \A p \in Procs : pc[p] = "delete" /\ task[p].kind = "compile" =>
    \/ Cardinality({j \in 1 .. Len(found[p]) : found[p][j].mtime > since[p]}) >= NPut
    \/ \A j \in 1 .. at[p] - 1 : found[p][j].fname \notin put[p]

\* A finished cleanup leaves at most 80% of the files the limit allows, apart from
\* new ones and those as new ("ccache will reduce the cache to 20% below the numbers
\* you specified", ccache.yo:289).
CleanedEnough ==
  \A p \in Procs :
    pc[p] = "lock" /\ task[p].kind = "sizes" /\ counters[p].max # 0 =>
      5 * task[p].value <= 4 * counters[p].max \/ task[p].value <= min[p]

\* Every operation ends: no process waits for the lock for ever, and the loop of
\* a cleanup ends.
OperationsEnd == \A p \in Procs : pc[p] # "idle" ~> pc[p] = "idle"
=============================================================================
