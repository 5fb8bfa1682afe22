------------------------------ MODULE Compiler ------------------------------
(***************************************************************************)
(* What a build sees of the compiler when there is no cache: a run in a    *)
(* build tree ends with the output and the status that belong to a version *)
(* its source has had during the run, and the output then stays as it is   *)
(* until the next run in that tree.  ccache-swig promises the same         *)
(* (CCache/ccache.yo: "always produce exactly the same compiler output     *)
(* that you would get without the cache").                                 *)
(***************************************************************************)
CONSTANTS
  Procs,      \* the build trees, each with its own source and output files
  Keys,       \* the versions of the source
  Compiles    \* the versions that compile without error

VARIABLES
  source,     \* the current version of each tree's source
  seen,       \* the versions the source has had since the tree's last run began
  result      \* how far each tree's run is, and the output it has left behind

vars == <<source, seen, result>>

Idle    == [phase |-> "idle", output |-> {}]
Running == [phase |-> "running", output |-> {}]

Init ==
  /\ source \in [Procs -> Keys]
  /\ seen = [p \in Procs |-> {}]
  /\ result = [p \in Procs |-> Idle]

\* The source of p is changed, perhaps while it is being compiled.
Edit(p, v) ==
  /\ source' = [source EXCEPT ![p] = v]
  /\ seen' = IF result[p] = Running THEN [seen EXCEPT ![p] = @ \cup {v}] ELSE seen
  /\ UNCHANGED result

Begin(p) ==
  /\ result[p] # Running
  /\ seen' = [seen EXCEPT ![p] = {source[p]}]
  /\ result' = [result EXCEPT ![p] = Running]
  /\ UNCHANGED source

\* The outcome of compiling the version v.
ResultOf(v) == IF v \in Compiles THEN [phase |-> "ok", output |-> {v}]
               ELSE [phase |-> "error", output |-> {}]

End(p) ==
  /\ result[p] = Running
  /\ \E v \in seen[p] : result' = [result EXCEPT ![p] = ResultOf(v)]
  /\ UNCHANGED <<source, seen>>

\* The run is killed.
Kill(p) ==
  /\ result[p] = Running
  /\ result' = [result EXCEPT ![p] = Idle]
  /\ UNCHANGED <<source, seen>>

Next ==
  \E p \in Procs : Begin(p) \/ End(p) \/ Kill(p) \/ \E v \in Keys : Edit(p, v)

Spec == Init /\ [][Next]_vars
=============================================================================
