---------------------------- MODULE CCacheProofs ----------------------------
(***************************************************************************)
(* The cache is sound, and invisible to the builds that use it, for any    *)
(* number of build trees, source versions and output files, when no run    *)
(* uses CCACHE_HARDLINK or CCACHE_CPP2.                                    *)
(***************************************************************************)
EXTENDS CCache, TLAPS

\* No environment shares files by hard links or reads the source twice.
Separate == \A e \in Environments : "HARDLINK" \notin e /\ "CPP2" \notin e

FromCache == {"open", "stat", "list", "get", "miss", "run"}
ToCache   == {"commit", "install", "putlist", "puterr", "open2", "stat2"}

\* Every file has one name.
Unshared == \A x \in Paths : same[x] = {x}

\* A cached file is complete, of its key's version, and that version compiles.
CacheGood == \A k \in Keys : \A f \in Files :
               data[<<k, f>>] = None \/ (data[<<k, f>>] = k /\ Outcome[k] = "ok")

\* A running ccache has a key its source has had, and compiles that version.
RunOK(p) ==
  /\ "HARDLINK" \notin env[p] /\ "CPP2" \notin env[p]
  /\ Running(p) => key[p] \in seen[p] /\ source[p] \in seen[p]
  /\ pc[p] = "compiling" => ran[p] \in {key[p], Junk}
  /\ pc[p] = "realcompiling" => ran[p] \in seen[p]

\* While the output is committed it is the complete output of the key's version.
CommitOK(p) ==
  pc[p] \in ToCache => Outcome[key[p]] = "ok" /\ \A f \in Files : data[<<p, f>>] = key[p]

SoundInv ==
  /\ TypeOK /\ Unshared /\ CacheGood
  /\ \A p \in Procs : RunOK(p) /\ CommitOK(p)
-----------------------------------------------------------------------------
(* Paths and file operations.                                               *)

\* The paths in the cache and those in the build trees are different.
LEMMA PathFacts ==
  /\ Paths = Cached \cup Output
  /\ Cached \cap Output = {}
  /\ \A k \in Keys, f \in Files : <<k, f>> \in Cached
  /\ \A p \in Procs, f \in Files : <<p, f>> \in Output
  /\ \A p \in Procs : Outs(p) \subseteq Output
  /\ \A p \in Procs, f \in Files : <<p, f>> \in Outs(p)
  /\ \A p, q \in Procs, f \in Files : <<q, f>> \in Outs(p) => q = p
  /\ \A x \in Cached : \E k \in Keys, f \in Files : x = <<k, f>>
  /\ \A p \in Procs : \A x \in Outs(p) : \E f \in Files : x = <<p, f>>
  /\ 1 \in Files
BY CCacheAssumption DEF Paths, Cached, Output, Outs, Files

\* Writing in place changes only the paths written, when no file is shared.
LEMMA WriteEffect ==
  ASSUME FilesTyped, Unshared, NEW S \in SUBSET Paths, NEW d \in Keys \cup {Junk}, Write(S, d)
  PROVE  /\ data' = [x \in Paths |-> IF x \in S THEN d ELSE data[x]]
         /\ FilesTyped' /\ Unshared'
<1>1. data' = [x \in Paths |-> IF x \in S THEN d ELSE data[x]]
  BY DEF Write, Unshared
<1>2. same' = same /\ packed' = packed
  BY DEF Write
<1>3. data' \in [Paths -> Keys \cup {None, Junk}]
  BY <1>1 DEF FilesTyped
<1> QED
  BY <1>1, <1>2, <1>3 DEF FilesTyped, Unshared

\* Removing files shares none.
LEMMA UnlinkEffect ==
  ASSUME FilesTyped, Unshared, NEW S \in SUBSET Paths, Unlink(S)
  PROVE  /\ data' = [x \in Paths |-> IF x \in S THEN None ELSE data[x]]
         /\ FilesTyped' /\ Unshared'
<1>1. data' = [x \in Paths |-> IF x \in S THEN None ELSE data[x]]
  BY DEF Unlink
<1>2. \A x \in Paths : same'[x] = {x}
  BY DEF Unlink, Unshared
<1>3. same' \in [Paths -> SUBSET Paths] /\ packed' \subseteq Cached
  BY DEF Unlink, FilesTyped
<1>4. data' \in [Paths -> Keys \cup {None, Junk}]
  BY <1>1 DEF FilesTyped
<1> QED
  BY <1>1, <1>2, <1>3, <1>4 DEF FilesTyped, Unshared

\* A copy is a file of its own.
LEMMA CopyEffect ==
  ASSUME FilesTyped, Unshared, NEW x \in Paths, NEW y \in Paths, NEW zip \in BOOLEAN,
         zip => y \in Cached, Copy(x, y, zip)
  PROVE  /\ data' = [data EXCEPT ![y] = data[x]]
         /\ FilesTyped' /\ Unshared'
<1>1. data' = [data EXCEPT ![y] = data[x]]
  BY DEF Copy
<1>2. \A z \in Paths : same'[z] = {z}
  BY DEF Copy, Unshared
<1>3. same' \in [Paths -> SUBSET Paths] /\ packed' \subseteq Cached
  BY DEF Copy, FilesTyped
<1>4. data' \in [Paths -> Keys \cup {None, Junk}]
  BY <1>1 DEF FilesTyped
<1> QED
  BY <1>1, <1>2, <1>3, <1>4 DEF FilesTyped, Unshared
-----------------------------------------------------------------------------
(* A step of one build does not touch the others.                           *)

\* What belongs to the other builds stays as it is.
Frame(p) ==
  \A q \in Procs : q # p =>
    /\ pc'[q] = pc[q] /\ key'[q] = key[q] /\ env'[q] = env[q] /\ n'[q] = n[q]
    /\ tmp'[q] = tmp[q] /\ ran'[q] = ran[q] /\ status'[q] = status[q]
    /\ source'[q] = source[q] /\ seen'[q] = seen[q]

\* The output files of the other builds stay as they are.
OutputsKept(p) == \A q \in Procs : q # p => \A f \in Files : data'[<<q, f>>] = data[<<q, f>>]

\* Steps only change the variables of their own build.
LEMMA StepFrame == ASSUME SoundInv, NEW p \in Procs, Step(p) PROVE Frame(p)
<1> ProcsTyped
  BY DEF SoundInv, TypeOK
<1>1. CASE OpenStderr(p)
  BY <1>1 DEF OpenStderr, Frame, ProcsTyped, Goto, Leave, Discard, tree, call
<1>2. CASE StatOutput(p)
  BY <1>2 DEF StatOutput, Frame, ProcsTyped, Goto, Leave, Discard, tree, call
<1>3. CASE OpenOutfiles(p)
  BY <1>3 DEF OpenOutfiles, Frame, ProcsTyped, Goto, Leave, Discard, tree, call
<1>4. CASE Retrieve(p)
  BY <1>4 DEF Retrieve, Frame, ProcsTyped, Goto, Leave, Discard, tree, call
<1>5. CASE RetrieveFails(p)
  BY <1>5 DEF RetrieveFails, Frame, ProcsTyped, Goto, Leave, Discard, tree, call
<1>6. CASE Miss(p)
  BY <1>6 DEF Miss, Frame, ProcsTyped, Goto, Leave, Discard, tree, call
<1>7. CASE Compile(p)
  BY <1>7 DEF Compile, Frame, ProcsTyped, Goto, Leave, Discard, tree, call
<1>8. CASE CompiledStdout(p)
  BY <1>8 DEF CompiledStdout, Frame, ProcsTyped, Goto, Leave, Discard, tree, call
<1>9. CASE CompiledError(p)
  BY <1>9 DEF CompiledError, Frame, ProcsTyped, Goto, Leave, Discard, tree, call
<1>10. CASE CompiledOk(p)
  BY <1>10 DEF CompiledOk, Frame, ProcsTyped, Goto, Leave, Discard, tree, call
<1>11. CASE Commit(p)
  BY <1>11 DEF Commit, Frame, ProcsTyped, Goto, Leave, Discard, tree, call
<1>12. CASE Install(p)
  BY <1>12 DEF Install, Frame, ProcsTyped, Goto, Leave, Discard, tree, call
<1>13. CASE PutOutfiles(p)
  BY <1>13 DEF PutOutfiles, Frame, ProcsTyped, Goto, Leave, Discard, tree, call
<1>14. CASE PutStderr(p)
  BY <1>14 DEF PutStderr, Frame, ProcsTyped, Goto, Leave, Discard, tree, call
<1>15. CASE PutFails(p)
  BY <1>15 DEF PutFails, Frame, ProcsTyped, Goto, Leave, Discard, tree, call
<1>16. CASE OpenStderr2(p)
  BY <1>16 DEF OpenStderr2, Frame, ProcsTyped, Goto, Leave, Discard, tree, call
<1>17. CASE StatOutput2(p)
  BY <1>17 DEF StatOutput2, Frame, ProcsTyped, Goto, Leave, Discard, tree, call
<1>18. CASE RealCompile(p)
  BY <1>18 DEF RealCompile, Frame, ProcsTyped, Goto, Leave, Discard, tree, call
<1>19. CASE RealCompiled(p)
  BY <1>19 DEF RealCompiled, Frame, ProcsTyped, Goto, Leave, Discard, tree, call
<1> QED
  BY <1>1, <1>2, <1>3, <1>4, <1>5, <1>6, <1>7, <1>8, <1>9, <1>10, <1>11, <1>12, <1>13, <1>14, <1>15, <1>16, <1>17, <1>18, <1>19 DEF Step

\* A key that is in use is a version of the source.
LEMMA KeyInUse == ASSUME SoundInv, NEW p \in Procs, Running(p) PROVE key[p] \in Keys /\ source[p] \in Keys
BY DEF SoundInv, RunOK, TypeOK, ProcsTyped

\* The end of a process keeps the types.
LEMMA LeaveTyped ==
  ASSUME ProcsTyped, NEW p \in Procs, NEW l \in {"idle", "exit"}, NEW st \in {"none", "ok", "error"},
         Leave(p, l, st), UNCHANGED <<lists, tree>>
  PROVE  ProcsTyped'
<1> USE CCacheAssumption
<1>1. UNCHANGED <<stderr, outfiles, source>> /\ 1 \in Files
  BY DEF lists, tree, Files
<1>2. pc' \in [Procs -> {"idle", "open", "stat", "list", "get", "miss", "run", "compiling",
                       "commit", "install", "putlist", "puterr", "open2", "stat2", "real",
                       "realcompiling", "exit"}]
  BY DEF ProcsTyped, Leave, Goto
<1>3. UNCHANGED <<source, seen>>
  BY DEF tree
<1>4. key' \in [Procs -> Keys \cup {None}] /\ env' \in [Procs -> SUBSET Variables]
  BY DEF ProcsTyped, Leave
<1>5. n' \in [Procs -> Files] /\ tmp' \in [Procs -> SUBSET {"i", "stdout", "stderr", "outfiles"}]
  BY <1>1 DEF ProcsTyped, Leave
<1>6. ran' \in [Procs -> Keys \cup {Junk}] /\ status' \in [Procs -> {"none", "ok", "error"}]
  BY DEF ProcsTyped, Leave
<1> QED
  BY <1>1, <1>2, <1>3, <1>4, <1>5, <1>6 DEF ProcsTyped

\* The variables of the builds keep their types.
LEMMA StepTyped == ASSUME SoundInv, NEW p \in Procs, Step(p) PROVE ProcsTyped'
<1> ProcsTyped
  BY DEF SoundInv, TypeOK
<1> USE CCacheAssumption
<1>1. CASE OpenStderr(p)
  BY <1>1 DEF OpenStderr, ProcsTyped, Goto, lists, tree, call
<1>2. CASE StatOutput(p)
  BY <1>2 DEF StatOutput, ProcsTyped, Goto, Discard, lists, tree, call, Files
<1>3. CASE OpenOutfiles(p)
  BY <1>3 DEF OpenOutfiles, ProcsTyped, Goto, Discard, lists, tree, call, Files
<1>4. CASE Retrieve(p)
  <2>1. CASE n[p] < NFiles
    <3>1. n[p] + 1 \in Files
      BY <2>1 DEF ProcsTyped, Files
    <3>2. n' = [n EXCEPT ![p] = @ + 1] /\ UNCHANGED <<pc, call, tmp, ran, status, lists, tree>>
      BY <1>4, <2>1 DEF Retrieve
    <3> QED
      BY <3>1, <3>2 DEF ProcsTyped, lists, tree, call
  <2>2. CASE ~ (n[p] < NFiles)
    BY <1>4, <2>2, LeaveTyped DEF Retrieve
  <2> QED
    BY <2>1, <2>2
<1>5. CASE RetrieveFails(p)
  BY <1>5 DEF RetrieveFails, ProcsTyped, Goto, Discard, lists, tree, call, Files
<1>6. CASE Miss(p)
  BY <1>6 DEF Miss, ProcsTyped, Goto, lists, tree, call
<1>7. CASE Compile(p)
  <2>1. key[p] \in Keys /\ source[p] \in Keys
    BY <1>7, KeyInUse DEF Compile, Running
  <2> QED
    BY <1>7, <2>1 DEF Compile, ProcsTyped, Goto, lists, tree, call
<1>8. CASE CompiledStdout(p)
  BY <1>8 DEF CompiledStdout, ProcsTyped, Goto, lists, tree, call
<1>9. CASE CompiledError(p)
  <2>1. CASE "stderr" \in tmp[p]
    BY <1>9, <2>1, LeaveTyped DEF CompiledError
  <2>2. CASE "stderr" \notin tmp[p]
    <3>1. /\ pc' = [pc EXCEPT ![p] = "real"]
          /\ tmp' = [tmp EXCEPT ![p] = @ \ {"stdout", "outfiles"}]
          /\ UNCHANGED <<call, n, ran, status, lists, tree>>
      BY <1>9, <2>2 DEF CompiledError, Goto
    <3> QED
      BY <3>1 DEF ProcsTyped, lists, tree, call
  <2> QED
    BY <2>1, <2>2
<1>10. CASE CompiledOk(p)
  BY <1>10 DEF CompiledOk, ProcsTyped, Goto, lists, tree, call, Files
<1>11. CASE Commit(p)
  BY <1>11 DEF Commit, ProcsTyped, Goto, lists, tree, call
<1>12. CASE Install(p)
  <2>1. UNCHANGED <<lists, tree, call, tmp, ran, status>>
    BY <1>12 DEF Install
  <2>2. CASE n[p] < NFiles
    <3>1. n[p] + 1 \in Files
      BY <2>2 DEF ProcsTyped, Files
    <3>2. n' = [n EXCEPT ![p] = @ + 1] /\ pc' = [pc EXCEPT ![p] = "commit"]
      BY <1>12, <2>2 DEF Install, Goto
    <3> QED
      BY <2>1, <3>1, <3>2 DEF ProcsTyped, lists, tree, call
  <2>3. CASE ~ (n[p] < NFiles)
    <3>1. UNCHANGED n /\ pc' = [pc EXCEPT ![p] = IF Swig THEN "putlist" ELSE "puterr"]
      BY <1>12, <2>3 DEF Install, Goto
    <3> QED
      BY <2>1, <3>1 DEF ProcsTyped, lists, tree, call
  <2> QED
    BY <2>2, <2>3
<1>13. CASE PutOutfiles(p)
  <2>1. key[p] \in Keys /\ source[p] \in Keys
    BY <1>13, KeyInUse DEF PutOutfiles, Running
  <2> QED
    BY <1>13, <2>1 DEF PutOutfiles, ProcsTyped, Goto, lists, tree, call
<1>14. CASE PutStderr(p)
  <2>1. key[p] \in Keys /\ source[p] \in Keys
    BY <1>14, KeyInUse DEF PutStderr, Running
  <2> QED
    BY <1>14, <2>1 DEF PutStderr, ProcsTyped, Goto, lists, tree, call
<1>15. CASE PutFails(p)
  BY <1>15 DEF PutFails, ProcsTyped, Goto, lists, tree, call
<1>16. CASE OpenStderr2(p)
  BY <1>16 DEF OpenStderr2, ProcsTyped, Goto, lists, tree, call
<1>17. CASE StatOutput2(p)
  <2>1. CASE data[<<key[p], 1>>] = None
    <3>1. /\ stderr' = stderr \ {key[p]} /\ pc' = [pc EXCEPT ![p] = "real"]
          /\ UNCHANGED <<call, n, tmp, ran, status, outfiles, tree>>
      BY <1>17, <2>1 DEF StatOutput2, Goto
    <3> QED
      BY <3>1 DEF ProcsTyped, tree, call
  <2>2. CASE data[<<key[p], 1>>] # None
    <3>1. Leave(p, "exit", "ok") /\ UNCHANGED <<lists, tree>>
      BY <1>17, <2>2 DEF StatOutput2, lists
    <3> QED
      BY <3>1, LeaveTyped
  <2> QED
    BY <2>1, <2>2
<1>18. CASE RealCompile(p)
  <2>1. key[p] \in Keys /\ source[p] \in Keys
    BY <1>18, KeyInUse DEF RealCompile, Running
  <2> QED
    BY <1>18, <2>1 DEF RealCompile, ProcsTyped, Goto, lists, tree, call
<1>19. CASE RealCompiled(p)
  <2>1. UNCHANGED <<lists, tree>> /\ (Leave(p, "exit", "ok") \/ Leave(p, "exit", "error"))
    BY <1>19 DEF RealCompiled
  <2> QED
    BY <2>1, LeaveTyped
<1> QED
  BY <1>1, <1>2, <1>3, <1>4, <1>5, <1>6, <1>7, <1>8, <1>9, <1>10, <1>11, <1>12, <1>13, <1>14, <1>15, <1>16, <1>17, <1>18, <1>19 DEF Step
-----------------------------------------------------------------------------
(* The invariant of the cache.                                              *)

\* The cached files and the other builds' outputs are good after a step that
\* changes only outputs of p.
LEMMA OnlyOutputs ==
  ASSUME CacheGood, NEW p \in Procs, \A x \in Paths : x \notin Outs(p) => data'[x] = data[x]
  PROVE  CacheGood' /\ OutputsKept(p)
<1>1. \A k \in Keys, f \in Files : data'[<<k, f>>] = data[<<k, f>>]
  BY PathFacts
<1>2. \A q \in Procs, f \in Files : q # p => data'[<<q, f>>] = data[<<q, f>>]
  BY PathFacts
<1> QED
  BY <1>1, <1>2 DEF CacheGood, OutputsKept

\* The same after a step that changes one cached file to a good content.
LEMMA OnlyCached ==
  ASSUME CacheGood, NEW k \in Keys, NEW f \in Files,
         \A x \in Paths : x # <<k, f>> => data'[x] = data[x],
         data'[<<k, f>>] = None \/ (data'[<<k, f>>] = k /\ Outcome[k] = "ok")
  PROVE  CacheGood' /\ \A q \in Procs, g \in Files : data'[<<q, g>>] = data[<<q, g>>]
<1>1. \A q \in Procs, g \in Files : <<q, g>> \in Paths /\ <<q, g>> # <<k, f>>
  BY PathFacts
<1>2. \A j \in Keys, g \in Files : <<j, g>> \in Paths /\ (<<j, g>> # <<k, f>> \/ (j = k /\ g = f))
  BY PathFacts
<1> QED
  BY <1>1, <1>2 DEF CacheGood

\* What a step does to the files.
LEMMA StepFiles ==
  ASSUME SoundInv, NEW p \in Procs, Step(p)
  PROVE  FilesTyped' /\ Unshared' /\ CacheGood' /\ OutputsKept(p)
<1> FilesTyped /\ ProcsTyped /\ Unshared /\ CacheGood /\ RunOK(p) /\ CommitOK(p)
  BY DEF SoundInv, TypeOK
<1>a. Outs(p) \in SUBSET Paths
  BY PathFacts
<1>b. UNCHANGED fs => FilesTyped' /\ Unshared' /\ CacheGood' /\ OutputsKept(p)
  BY DEF fs, FilesTyped, Unshared, CacheGood, OutputsKept
<1>c. ASSUME NEW d \in Keys \cup {Junk}, Write(Outs(p), d)
      PROVE  FilesTyped' /\ Unshared' /\ CacheGood' /\ OutputsKept(p)
  <2>1. /\ data' = [x \in Paths |-> IF x \in Outs(p) THEN d ELSE data[x]]
        /\ FilesTyped' /\ Unshared'
    BY <1>a, <1>c, WriteEffect
  <2> QED
    BY <2>1, OnlyOutputs
<1>d. ASSUME NEW S \in SUBSET Outs(p), Unlink(S)
      PROVE  FilesTyped' /\ Unshared' /\ CacheGood' /\ OutputsKept(p)
  <2>1. /\ data' = [x \in Paths |-> IF x \in S THEN None ELSE data[x]]
        /\ FilesTyped' /\ Unshared'
    BY <1>a, <1>d, UnlinkEffect
  <2> QED
    BY <2>1, OnlyOutputs
<1>e. ASSUME NEW d \in Keys \cup {Junk}, DropOutput(p, d)
      PROVE  FilesTyped' /\ Unshared' /\ CacheGood' /\ OutputsKept(p)
  BY <1>c, <1>d, <1>e DEF DropOutput
<1>1. CASE OpenStderr(p) \/ StatOutput(p) \/ OpenOutfiles(p) \/ Miss(p) \/ PutOutfiles(p)
           \/ PutStderr(p) \/ PutFails(p) \/ OpenStderr2(p) \/ StatOutput2(p)
  BY <1>1, <1>b DEF OpenStderr, StatOutput, OpenOutfiles, Miss, PutOutfiles, PutStderr, PutFails,
                    OpenStderr2, StatOutput2
<1>2. CASE Retrieve(p)
  <2>1. key[p] \in Keys /\ n[p] \in Files
    BY <1>2, KeyInUse DEF Retrieve, Running, ProcsTyped
  <2>2. Copy(<<key[p], n[p]>>, <<p, n[p]>>, FALSE)
    BY <1>2 DEF Retrieve, RunOK
  <2>3. <<key[p], n[p]>> \in Paths /\ <<p, n[p]>> \in Paths /\ <<p, n[p]>> \in Outs(p)
    BY <2>1, PathFacts
  <2>4. /\ data' = [data EXCEPT ![<<p, n[p]>>] = data[<<key[p], n[p]>>]]
        /\ FilesTyped' /\ Unshared'
    BY <2>2, <2>3, CopyEffect
  <2>5. \A x \in Paths : x \notin Outs(p) => data'[x] = data[x]
    BY <2>3, <2>4 DEF FilesTyped
  <2> QED
    BY <2>4, <2>5, OnlyOutputs
<1>3. CASE RetrieveFails(p)
  <2>1. {<<p, n[p]>>} \in SUBSET Outs(p)
    BY PathFacts DEF ProcsTyped
  <2> QED
    BY <1>3, <1>d, <2>1 DEF RetrieveFails
<1>4. CASE Compile(p)
  BY <1>4, <1>c DEF Compile
<1>5. CASE CompiledStdout(p)
  <2>1. (IF Succeeds(ran[p]) THEN ran[p] ELSE Junk) \in Keys \cup {Junk}
    BY DEF Succeeds
  <2> QED
    BY <1>5, <1>e, <2>1 DEF CompiledStdout
<1>6. CASE CompiledError(p)
  BY <1>6, <1>b, <1>e DEF CompiledError
<1>7. CASE CompiledOk(p)
  BY <1>7, <1>c DEF CompiledOk
<1>8. CASE Commit(p)
  <2>1. CASE UNCHANGED fs
    BY <2>1, <1>b
  <2>2. CASE Unlink({<<key[p], n[p]>>})
    <3>1. key[p] \in Keys /\ n[p] \in Files
      BY <1>8, KeyInUse DEF Commit, Running, ProcsTyped
    <3>2. {<<key[p], n[p]>>} \in SUBSET Paths
      BY <3>1, PathFacts
    <3>3. /\ data' = [x \in Paths |-> IF x \in {<<key[p], n[p]>>} THEN None ELSE data[x]]
          /\ FilesTyped' /\ Unshared'
      BY <2>2, <3>2, UnlinkEffect
    <3>4. data'[<<key[p], n[p]>>] = None
      BY <3>2, <3>3
    <3> QED
      BY <3>1, <3>3, <3>4, OnlyCached DEF OutputsKept
  <2> QED
    BY <1>8, <2>1, <2>2 DEF Commit
<1>9. CASE Install(p)
  <2>1. key[p] \in Keys /\ n[p] \in Files
    BY <1>9, KeyInUse DEF Install, Running, ProcsTyped
  <2>2. Copy(<<p, n[p]>>, <<key[p], n[p]>>, "NOCOMPRESS" \notin env[p])
    BY <1>9 DEF Install, RunOK
  <2>3. <<key[p], n[p]>> \in Cached /\ <<key[p], n[p]>> \in Paths /\ <<p, n[p]>> \in Paths
    BY <2>1, PathFacts
  <2>4. /\ data' = [data EXCEPT ![<<key[p], n[p]>>] = data[<<p, n[p]>>]]
        /\ FilesTyped' /\ Unshared'
    BY <2>2, <2>3, CopyEffect
  <2>5. Outcome[key[p]] = "ok" /\ data[<<p, n[p]>>] = key[p]
    BY <1>9, <2>1 DEF Install, CommitOK, ToCache
  <2>6. data'[<<key[p], n[p]>>] = key[p]
    BY <2>3, <2>4, <2>5 DEF FilesTyped
  <2>7. \A x \in Paths : x # <<key[p], n[p]>> => data'[x] = data[x]
    BY <2>4 DEF FilesTyped
  <2> QED
    BY <2>1, <2>4, <2>5, <2>6, <2>7, OnlyCached DEF OutputsKept
<1>10. CASE RealCompile(p)
  BY <1>10, <1>c DEF RealCompile
<1>11. CASE RealCompiled(p)
  BY <1>11, <1>b, <1>c DEF RealCompiled, Succeeds
<1> QED
  BY <1>1, <1>2, <1>3, <1>4, <1>5, <1>6, <1>7, <1>8, <1>9, <1>10, <1>11 DEF Step

\* Committing leaves the build's own output alone.
LEMMA OwnOutputsKept ==
  ASSUME SoundInv, NEW p \in Procs, Commit(p) \/ Install(p)
  PROVE  \A f \in Files : data'[<<p, f>>] = data[<<p, f>>]
<1> FilesTyped /\ ProcsTyped /\ Unshared /\ RunOK(p)
  BY DEF SoundInv, TypeOK
<1>1. key[p] \in Keys /\ n[p] \in Files
  BY KeyInUse DEF Commit, Install, Running, ProcsTyped
<1>2. <<key[p], n[p]>> \in Cached /\ <<key[p], n[p]>> \in Paths
  BY <1>1, PathFacts
<1>3. \A f \in Files : <<p, f>> \in Paths /\ <<p, f>> # <<key[p], n[p]>>
  BY <1>2, PathFacts
<1>4. CASE Commit(p)
  BY <1>3, <1>4 DEF Commit, Unlink, fs
<1>5. CASE Install(p)
  <2>1. Copy(<<p, n[p]>>, <<key[p], n[p]>>, "NOCOMPRESS" \notin env[p])
    BY <1>5 DEF Install, RunOK
  <2> QED
    BY <1>3, <2>1 DEF Copy, FilesTyped
<1> QED
  BY <1>4, <1>5

\* A step keeps the invariant of its own build.
LEMMA StepOwn == ASSUME SoundInv, NEW p \in Procs, Step(p) PROVE RunOK(p)' /\ CommitOK(p)'
<1> ProcsTyped /\ FilesTyped /\ Unshared /\ CacheGood /\ RunOK(p) /\ CommitOK(p)
  BY DEF SoundInv, TypeOK
<1>1. CASE OpenStderr(p)
  BY <1>1 DEF OpenStderr, RunOK, CommitOK, Running, ToCache, ProcsTyped, Goto, Leave, Discard, lists, tree, call, fs
<1>2. CASE StatOutput(p)
  BY <1>2 DEF StatOutput, RunOK, CommitOK, Running, ToCache, ProcsTyped, Goto, Leave, Discard, lists, tree, call, fs
<1>3. CASE OpenOutfiles(p)
  BY <1>3 DEF OpenOutfiles, RunOK, CommitOK, Running, ToCache, ProcsTyped, Goto, Leave, Discard, lists, tree, call, fs
<1>4. CASE Retrieve(p)
  BY <1>4 DEF Retrieve, RunOK, CommitOK, Running, ToCache, ProcsTyped, Goto, Leave, Discard, lists, tree, call, fs
<1>5. CASE RetrieveFails(p)
  BY <1>5 DEF RetrieveFails, RunOK, CommitOK, Running, ToCache, ProcsTyped, Goto, Leave, Discard, lists, tree, call, fs
<1>6. CASE Miss(p)
  BY <1>6 DEF Miss, RunOK, CommitOK, Running, ToCache, ProcsTyped, Goto, Leave, Discard, lists, tree, call, fs
<1>7. CASE Compile(p)
  BY <1>7 DEF Compile, RunOK, CommitOK, Running, ToCache, ProcsTyped, Goto, Leave, Discard, lists, tree, call, fs
<1>8. CASE CompiledStdout(p)
  BY <1>8 DEF CompiledStdout, RunOK, CommitOK, Running, ToCache, ProcsTyped, Goto, Leave, Discard, lists, tree, call, fs
<1>9. CASE CompiledError(p)
  BY <1>9 DEF CompiledError, RunOK, CommitOK, Running, ToCache, ProcsTyped, Goto, Leave, Discard, lists, tree, call, fs
<1>10. CASE CompiledOk(p)
  <2>1. ran[p] = key[p] /\ Outcome[key[p]] = "ok" /\ key[p] \in Keys
    BY <1>10, CCacheAssumption DEF CompiledOk, RunOK
  <2>2. \A f \in Files : data'[<<p, f>>] = key[p]
    <3>0. Outs(p) \in SUBSET Paths /\ ran[p] \in Keys \cup {Junk} /\ Write(Outs(p), ran[p])
      BY <1>10, <2>1, PathFacts DEF CompiledOk
    <3>1. data' = [x \in Paths |-> IF x \in Outs(p) THEN ran[p] ELSE data[x]]
      BY <3>0, WriteEffect
    <3> QED
      BY <2>1, <3>1, PathFacts
  <2> QED
    BY <1>10, <2>1, <2>2 DEF CompiledOk, RunOK, CommitOK, Running, ToCache, ProcsTyped, Goto, Leave, Discard, lists, tree, call, fs
<1>11. CASE Commit(p)
  <2>1. \A f \in Files : data'[<<p, f>>] = data[<<p, f>>]
    BY <1>11, OwnOutputsKept
  <2> QED
    BY <1>11, <2>1 DEF Commit, RunOK, CommitOK, Running, ToCache, ProcsTyped, Goto, Leave, Discard, lists, tree, call, fs
<1>12. CASE Install(p)
  <2>1. \A f \in Files : data'[<<p, f>>] = data[<<p, f>>]
    BY <1>12, OwnOutputsKept
  <2> QED
    BY <1>12, <2>1 DEF Install, RunOK, CommitOK, Running, ToCache, ProcsTyped, Goto, Leave, Discard, lists, tree, call, fs
<1>13. CASE PutOutfiles(p)
  BY <1>13 DEF PutOutfiles, RunOK, CommitOK, Running, ToCache, ProcsTyped, Goto, Leave, Discard, lists, tree, call, fs
<1>14. CASE PutStderr(p)
  BY <1>14 DEF PutStderr, RunOK, CommitOK, Running, ToCache, ProcsTyped, Goto, Leave, Discard, lists, tree, call, fs
<1>15. CASE PutFails(p)
  BY <1>15 DEF PutFails, RunOK, CommitOK, Running, ToCache, ProcsTyped, Goto, Leave, Discard, lists, tree, call, fs
<1>16. CASE OpenStderr2(p)
  BY <1>16 DEF OpenStderr2, RunOK, CommitOK, Running, ToCache, ProcsTyped, Goto, Leave, Discard, lists, tree, call, fs
<1>17. CASE StatOutput2(p)
  BY <1>17 DEF StatOutput2, RunOK, CommitOK, Running, ToCache, ProcsTyped, Goto, Leave, Discard, lists, tree, call, fs
<1>18. CASE RealCompile(p)
  BY <1>18 DEF RealCompile, RunOK, CommitOK, Running, ToCache, ProcsTyped, Goto, Leave, Discard, lists, tree, call, fs
<1>19. CASE RealCompiled(p)
  BY <1>19 DEF RealCompiled, RunOK, CommitOK, Running, ToCache, ProcsTyped, Goto, Leave, Discard, lists, tree, call, fs
<1> QED
  BY <1>1, <1>2, <1>3, <1>4, <1>5, <1>6, <1>7, <1>8, <1>9, <1>10, <1>11, <1>12, <1>13, <1>14, <1>15, <1>16, <1>17, <1>18, <1>19 DEF Step

\* The other builds keep theirs.
LEMMA OthersKept ==
  ASSUME NEW p \in Procs, NEW q \in Procs, q # p, Frame(p), OutputsKept(p), RunOK(q), CommitOK(q)
  PROVE  RunOK(q)' /\ CommitOK(q)'
BY DEF Frame, OutputsKept, RunOK, CommitOK, Running

\* The steps of ccache keep the invariant.
LEMMA StepSound == ASSUME SoundInv, NEW p \in Procs, Step(p) PROVE SoundInv'
<1>1. ProcsTyped'
  BY StepTyped
<1>2. FilesTyped' /\ Unshared' /\ CacheGood' /\ OutputsKept(p)
  BY StepFiles
<1>3. RunOK(p)' /\ CommitOK(p)'
  BY StepOwn
<1>4. \A q \in Procs : q # p => RunOK(q)' /\ CommitOK(q)'
  BY <1>2, StepFrame, OthersKept DEF SoundInv
<1> QED
  BY <1>1, <1>2, <1>3, <1>4 DEF SoundInv, TypeOK

\* A new run of p, an edit of its source, its end by a signal and the loss of its
\* temporary files leave the other builds alone.
LEMMA TreeFrame ==
  ASSUME ProcsTyped, NEW p \in Procs,
         \/ \E e \in Environments : Start(p, e)
         \/ \E v \in Keys : Edit(p, v)
         \/ Kill(p)
         \/ WipeTemp(p)
  PROVE  Frame(p) /\ UNCHANGED fs
BY DEF Frame, Start, Edit, Kill, WipeTemp, Leave, Goto, ProcsTyped, lists, tree, call

\* They keep the invariant.
LEMMA TreeSound ==
  ASSUME Separate, SoundInv, NEW p \in Procs,
         \/ \E e \in Environments : Start(p, e)
         \/ \E v \in Keys : Edit(p, v)
         \/ Kill(p)
         \/ WipeTemp(p)
  PROVE  SoundInv'
<1> ProcsTyped /\ FilesTyped /\ Unshared /\ CacheGood /\ RunOK(p) /\ CommitOK(p)
  BY DEF SoundInv, TypeOK
<1>1. Frame(p) /\ UNCHANGED fs
  BY TreeFrame
<1>2. FilesTyped' /\ Unshared' /\ CacheGood' /\ OutputsKept(p)
  BY <1>1 DEF fs, FilesTyped, Unshared, CacheGood, OutputsKept
<1>3. \A q \in Procs : q # p => RunOK(q)' /\ CommitOK(q)'
  BY <1>1, <1>2, OthersKept DEF SoundInv
<1>4. ProcsTyped' /\ RunOK(p)' /\ CommitOK(p)'
  <2>1. ASSUME NEW e \in Environments, Start(p, e) PROVE ProcsTyped' /\ RunOK(p)' /\ CommitOK(p)'
    BY <2>1, CCacheAssumption DEF Separate, Start, ProcsTyped, RunOK, CommitOK, ToCache, Running, Goto, lists
  <2>2. ASSUME NEW v \in Keys, Edit(p, v) PROVE ProcsTyped' /\ RunOK(p)' /\ CommitOK(p)'
    BY <2>2 DEF Edit, ProcsTyped, RunOK, CommitOK, ToCache, Running, fs, lists, call
  <2>3. ASSUME Kill(p) PROVE ProcsTyped' /\ RunOK(p)' /\ CommitOK(p)'
    BY <2>3, CCacheAssumption DEF Kill, Leave, Goto, ProcsTyped, RunOK, CommitOK, ToCache, Running, lists, tree, Files
  <2>4. ASSUME WipeTemp(p) PROVE ProcsTyped' /\ RunOK(p)' /\ CommitOK(p)'
    BY <2>4 DEF WipeTemp, ProcsTyped, RunOK, CommitOK, ToCache, Running, fs, lists, tree, call
  <2> QED
    BY <2>1, <2>2, <2>3, <2>4
<1> QED
  BY <1>2, <1>3, <1>4 DEF SoundInv, TypeOK

\* So does the removal of a cached file, by whatever cleanup.
LEMMA EvictSound ==
  ASSUME SoundInv, (\E x \in Cached : Evict(x)) \/ (\E k \in Keys : EvictLists(k))
  PROVE  SoundInv' /\ (\A q \in Procs, g \in Files : data'[<<q, g>>] = data[<<q, g>>])
         /\ UNCHANGED <<source, seen, pc, key, env, n, tmp, ran, status>>
<1> ProcsTyped /\ FilesTyped /\ Unshared /\ CacheGood
  BY DEF SoundInv, TypeOK
<1>1. UNCHANGED <<source, seen, pc, key, env, n, tmp, ran, status>>
  BY DEF Evict, EvictLists, tree, call
<1>2. ProcsTyped'
  BY <1>1 DEF Evict, EvictLists, ProcsTyped, lists
<1>3. /\ FilesTyped' /\ Unshared' /\ CacheGood'
      /\ \A q \in Procs, g \in Files : data'[<<q, g>>] = data[<<q, g>>]
  <2>1. CASE UNCHANGED fs
    BY <2>1 DEF fs, FilesTyped, Unshared, CacheGood
  <2>2. ASSUME NEW x \in Cached, Unlink({x})
        PROVE  /\ FilesTyped' /\ Unshared' /\ CacheGood'
               /\ \A q \in Procs, g \in Files : data'[<<q, g>>] = data[<<q, g>>]
    <3>1. PICK k \in Keys, f \in Files : x = <<k, f>>
      BY PathFacts
    <3>2. {x} \in SUBSET Paths
      BY PathFacts
    <3>3. /\ data' = [y \in Paths |-> IF y \in {x} THEN None ELSE data[y]]
          /\ FilesTyped' /\ Unshared'
      BY <2>2, <3>2, UnlinkEffect
    <3>4. data'[<<k, f>>] = None
      BY <3>1, <3>2, <3>3
    <3>5. \A y \in Paths : y # <<k, f>> => data'[y] = data[y]
      BY <3>1, <3>3
    <3> QED
      BY <3>3, <3>4, <3>5, OnlyCached
  <2> QED
    BY <2>1, <2>2 DEF Evict, EvictLists
<1>4. \A p \in Procs : RunOK(p)' /\ CommitOK(p)'
  BY <1>1, <1>3 DEF SoundInv, RunOK, CommitOK, Running
<1> QED
  BY <1>1, <1>2, <1>3, <1>4 DEF SoundInv, TypeOK

\* An empty cache is sound.
LEMMA SoundInit == Init => SoundInv
<1> SUFFICES ASSUME Init PROVE SoundInv
  OBVIOUS
<1>1. TypeOK
  BY CCacheAssumption, PathFacts DEF Init, TypeOK, FilesTyped, ProcsTyped
<1>2. Unshared
  BY DEF Init, Unshared
<1>3. CacheGood
  BY PathFacts DEF Init, CacheGood
<1>4. \A p \in Procs : RunOK(p) /\ CommitOK(p)
  BY DEF Init, RunOK, CommitOK, Running, ToCache
<1> QED
  BY <1>1, <1>2, <1>3, <1>4 DEF SoundInv

\* Every step, of ccache or of its surroundings, keeps the invariant.
LEMMA SoundNext == ASSUME Separate, SoundInv, [Next]_vars PROVE SoundInv'
<1>1. CASE UNCHANGED vars
  BY <1>1 DEF vars, SoundInv, TypeOK, FilesTyped, ProcsTyped, Unshared, CacheGood, RunOK, CommitOK, Running
<1>2. ASSUME NEW p \in Procs, Step(p) PROVE SoundInv'
  BY <1>2, StepSound
<1> QED
  BY <1>1, <1>2, TreeSound, EvictSound DEF Next

\* Nothing wrong or half-written is ever in the cache, whatever the interleaving
\* of compiles, kills, evictions and wipes (to_cache and commit_to_cache), as
\* long as no run uses CCACHE_HARDLINK or CCACHE_CPP2.
THEOREM CacheIsSound == ASSUME Separate PROVE Spec => []CacheSound
<1>1. Init => SoundInv
  BY SoundInit
<1>2. SoundInv /\ [Next]_vars => SoundInv'
  BY SoundNext
<1>3. SoundInv => CacheSound
  BY DEF SoundInv, CacheGood, CacheSound
<1> QED
  BY <1>1, <1>2, <1>3, PTL DEF Spec
-----------------------------------------------------------------------------
(* ccache implements the plain compiler (Compiler), when moreover          *)
(* CCACHE_TEMPDIR is outside the cache directory.                           *)

\* What a run has achieved on its way to a faithful exit.
FaithOK(p) ==
  /\ pc[p] \in FromCache => "i" \in tmp[p]
  /\ pc[p] = "compiling" => ran[p] = key[p] /\ "stdout" \in tmp[p] /\ "stderr" \in tmp[p]
  /\ pc[p] = "list" => n[p] = 1
  /\ pc[p] = "get" => \A f \in Files : f < n[p] => data[<<p, f>>] = key[p]
  /\ pc[p] = "exit" => Left(p)

FaithInv == SoundInv /\ \A p \in Procs : FaithOK(p)

\* Leaving with the output or the error of the version v, one of those seen.
LEMMA LeftOk ==
  ASSUME NEW p \in Procs, NEW v \in Keys, v \in seen'[p], Succeeds(v), status'[p] = "ok",
         \A f \in Files : data'[<<p, f>>] = v
  PROVE  Left(p)'
BY DEF Left

\* Leaving with the status of the failed compiler.
LEMMA LeftError ==
  ASSUME NEW p \in Procs, NEW v, v \in seen'[p], ~ Succeeds(v), status'[p] = "error"
  PROVE  Left(p)'
BY DEF Left

\* A step keeps the invariant of its own build.
LEMMA FaithOwn == ASSUME FaithInv, NEW p \in Procs, Step(p) PROVE FaithOK(p)'
<1> SoundInv /\ ProcsTyped /\ FilesTyped /\ Unshared /\ CacheGood /\ RunOK(p) /\ CommitOK(p) /\ FaithOK(p)
  BY DEF FaithInv, SoundInv, TypeOK
<1>1. CASE OpenStderr(p)
  BY <1>1 DEF OpenStderr, FaithOK, FromCache, ProcsTyped, Goto, Leave, Discard, lists, tree, call, fs
<1>2. CASE StatOutput(p)
  BY <1>2 DEF StatOutput, FaithOK, FromCache, ProcsTyped, Goto, Leave, Discard, lists, tree, call, fs, Files
<1>3. CASE OpenOutfiles(p)
  BY <1>3 DEF OpenOutfiles, FaithOK, FromCache, ProcsTyped, Goto, Leave, Discard, lists, tree, call, fs, Files
<1>4. CASE Retrieve(p)
  <2>1. key[p] \in Keys /\ n[p] \in Files /\ key[p] \in seen[p]
    BY <1>4, KeyInUse DEF Retrieve, Running, ProcsTyped, RunOK
  <2>2. Copy(<<key[p], n[p]>>, <<p, n[p]>>, FALSE)
    BY <1>4 DEF Retrieve, RunOK
  <2>3. data[<<key[p], n[p]>>] = key[p] /\ Outcome[key[p]] = "ok"
    BY <1>4, <2>1 DEF Retrieve, CacheGood
  <2>4. \A f \in Files : <<p, f>> \in Paths /\ (<<p, f>> = <<p, n[p]>> => f = n[p])
    BY PathFacts
  <2>5. \A f \in Files : f < n[p] \/ f = n[p] => data'[<<p, f>>] = key[p]
    BY <1>4, <2>1, <2>2, <2>3, <2>4 DEF Retrieve, Copy, FilesTyped, FaithOK
  <2>6. CASE n[p] < NFiles
    <3>1. \A f \in Files : f < n'[p] => f < n[p] \/ f = n[p]
      BY <1>4, <2>1, <2>6, CCacheAssumption DEF Retrieve, ProcsTyped, Files
    <3>2. pc'[p] = "get" /\ key'[p] = key[p] /\ tmp'[p] = tmp[p]
      BY <1>4, <2>6 DEF Retrieve, call
    <3> QED
      BY <1>4, <2>5, <3>1, <3>2 DEF FaithOK, FromCache, Retrieve
  <2>7. CASE ~ (n[p] < NFiles)
    <3>1. pc'[p] = "exit" /\ status'[p] = "ok" /\ seen' = seen
      BY <1>4, <2>7 DEF Retrieve, Leave, Goto, ProcsTyped, tree
    <3>2. \A f \in Files : data'[<<p, f>>] = key[p]
      BY <2>1, <2>5, <2>7, CCacheAssumption DEF Files
    <3>3. Left(p)'
      BY <2>1, <2>3, <3>1, <3>2, LeftOk DEF Succeeds
    <3> QED
      BY <3>1, <3>3 DEF FaithOK, FromCache
  <2> QED
    BY <2>6, <2>7
<1>5. CASE RetrieveFails(p)
  BY <1>5 DEF RetrieveFails, FaithOK, FromCache, ProcsTyped, Goto, Leave, Discard, lists, tree, call, fs
<1>6. CASE Miss(p)
  BY <1>6 DEF Miss, FaithOK, FromCache, ProcsTyped, Goto, Leave, Discard, lists, tree, call, fs
<1>7. CASE Compile(p)
  BY <1>7 DEF Compile, FaithOK, FromCache, ProcsTyped, Goto, Leave, Discard, lists, tree, call, fs, RunOK
<1>8. CASE CompiledStdout(p)
  BY <1>8 DEF CompiledStdout, FaithOK, FromCache, ProcsTyped, Goto, Leave, Discard, lists, tree, call, fs
<1>9. CASE CompiledError(p)
  <2>1. ~ Succeeds(key[p]) /\ key[p] \in seen[p]
    BY <1>9 DEF CompiledError, FaithOK, RunOK, Running
  <2>2. pc'[p] = "exit" /\ status'[p] = "error" /\ seen' = seen
    BY <1>9 DEF CompiledError, FaithOK, Leave, Goto, ProcsTyped, tree
  <2>3. Left(p)'
    BY <2>1, <2>2, LeftError
  <2> QED
    BY <2>2, <2>3 DEF FaithOK, FromCache
<1>10. CASE CompiledOk(p)
  BY <1>10 DEF CompiledOk, FaithOK, FromCache, ProcsTyped, Goto, Leave, Discard, lists, tree, call, fs
<1>11. CASE Commit(p)
  BY <1>11 DEF Commit, FaithOK, FromCache, ProcsTyped, Goto, Leave, Discard, lists, tree, call, fs
<1>12. CASE Install(p)
  BY <1>12 DEF Install, FaithOK, FromCache, ProcsTyped, Goto, Leave, Discard, lists, tree, call, fs
<1>13. CASE PutOutfiles(p)
  BY <1>13 DEF PutOutfiles, FaithOK, FromCache, ProcsTyped, Goto, Leave, Discard, lists, tree, call, fs
<1>14. CASE PutStderr(p)
  BY <1>14 DEF PutStderr, FaithOK, FromCache, ProcsTyped, Goto, Leave, Discard, lists, tree, call, fs
<1>15. CASE PutFails(p)
  BY <1>15 DEF PutFails, FaithOK, FromCache, ProcsTyped, Goto, Leave, Discard, lists, tree, call, fs
<1>16. CASE OpenStderr2(p)
  BY <1>16 DEF OpenStderr2, FaithOK, FromCache, ProcsTyped, Goto, Leave, Discard, lists, tree, call, fs
<1>17. CASE StatOutput2(p)
  <2>1. CASE data[<<key[p], 1>>] = None
    BY <1>17, <2>1 DEF StatOutput2, FaithOK, FromCache, ProcsTyped, Goto, Leave, Discard, lists, tree, call, fs
  <2>2. CASE data[<<key[p], 1>>] # None
    <3>1. key[p] \in Keys /\ key[p] \in seen[p]
      BY <1>17, KeyInUse DEF StatOutput2, Running, RunOK
    <3>2. Outcome[key[p]] = "ok" /\ \A f \in Files : data[<<p, f>>] = key[p]
      BY <1>17 DEF StatOutput2, CommitOK, ToCache
    <3>3. pc'[p] = "exit" /\ status'[p] = "ok" /\ seen' = seen /\ data' = data
      BY <1>17, <2>2 DEF StatOutput2, Leave, Goto, ProcsTyped, tree, fs
    <3>4. Left(p)'
      BY <3>1, <3>2, <3>3, LeftOk DEF Succeeds
    <3> QED
      BY <3>3, <3>4 DEF FaithOK, FromCache
  <2> QED
    BY <2>1, <2>2
<1>18. CASE RealCompile(p)
  BY <1>18 DEF RealCompile, FaithOK, FromCache, ProcsTyped, Goto, Leave, Discard, lists, tree, call, fs
<1>19. CASE RealCompiled(p)
  <2>1. ran[p] \in seen[p] /\ pc'[p] = "exit" /\ seen' = seen
    BY <1>19 DEF RealCompiled, RunOK, Leave, Goto, ProcsTyped, tree
  <2>2. CASE Succeeds(ran[p])
    <3>1. ran[p] \in Keys /\ status'[p] = "ok" /\ Write(Outs(p), ran[p])
      BY <1>19, <2>2 DEF RealCompiled, Succeeds, Leave, ProcsTyped
    <3>2. Outs(p) \in SUBSET Paths /\ ran[p] \in Keys \cup {Junk}
      BY <3>1, PathFacts
    <3>3. data' = [x \in Paths |-> IF x \in Outs(p) THEN ran[p] ELSE data[x]]
      BY <3>1, <3>2, WriteEffect
    <3>4. \A f \in Files : data'[<<p, f>>] = ran[p]
      BY <3>3, PathFacts
    <3>5. Left(p)'
      BY <2>1, <2>2, <3>1, <3>4, LeftOk
    <3> QED
      BY <2>1, <3>5 DEF FaithOK, FromCache
  <2>3. CASE ~ Succeeds(ran[p])
    <3>1. status'[p] = "error"
      BY <1>19, <2>3 DEF RealCompiled, Leave, ProcsTyped
    <3>2. Left(p)'
      BY <2>1, <2>3, <3>1, LeftError
    <3> QED
      BY <2>1, <3>2 DEF FaithOK, FromCache
  <2> QED
    BY <2>2, <2>3
<1> QED
  BY <1>1, <1>2, <1>3, <1>4, <1>5, <1>6, <1>7, <1>8, <1>9, <1>10, <1>11, <1>12, <1>13, <1>14, <1>15, <1>16, <1>17, <1>18, <1>19 DEF Step

\* The other builds keep theirs.
LEMMA FaithOthers ==
  ASSUME NEW p \in Procs, NEW q \in Procs, q # p, Frame(p), OutputsKept(p), FaithOK(q)
  PROVE  FaithOK(q)'
BY DEF Frame, OutputsKept, FaithOK, Left

\* No run has left anything at first.
LEMMA FaithInit == Init => FaithInv
BY SoundInit DEF Init, FaithInv, FaithOK, FromCache

\* Every step keeps the invariant of all builds.
LEMMA FaithNext == ASSUME Separate, ~ TempInCache, FaithInv, [Next]_vars PROVE FaithInv'
<1> SoundInv /\ ProcsTyped
  BY DEF FaithInv, SoundInv, TypeOK
<1>1. SoundInv'
  BY SoundNext
<1>2. CASE UNCHANGED vars
  BY <1>1, <1>2 DEF vars, FaithInv, FaithOK, Left
<1>3. ASSUME NEW p \in Procs, Step(p) PROVE FaithInv'
  <2>1. FaithOK(p)'
    BY <1>3, FaithOwn
  <2>2. Frame(p) /\ OutputsKept(p)
    BY <1>3, StepFrame, StepFiles
  <2> QED
    BY <1>1, <2>1, <2>2, FaithOthers DEF FaithInv
<1>4. ASSUME NEW p \in Procs,
             \/ \E e \in Environments : Start(p, e)
             \/ \E v \in Keys : Edit(p, v)
             \/ Kill(p)
      PROVE  FaithInv'
  <2>1. Frame(p) /\ UNCHANGED fs
    BY <1>4, TreeFrame
  <2>2. OutputsKept(p)
    BY <2>1 DEF OutputsKept, fs
  <2>3. FaithOK(p)
    BY DEF FaithInv
  <2>4. ASSUME NEW e \in Environments, Start(p, e) PROVE FaithOK(p)'
    BY <2>3, <2>4 DEF Start, FaithOK, FromCache, Goto, ProcsTyped
  <2>5. ASSUME NEW v \in Keys, Edit(p, v) PROVE FaithOK(p)'
    BY <2>3, <2>5 DEF Edit, FaithOK, Left, Running, ProcsTyped, fs, call
  <2>6. ASSUME Kill(p) PROVE FaithOK(p)'
    BY <2>6 DEF Kill, Leave, Goto, FaithOK, FromCache, ProcsTyped
  <2> QED
    BY <1>1, <1>4, <2>1, <2>2, <2>4, <2>5, <2>6, FaithOthers DEF FaithInv
<1>5. ASSUME (\E x \in Cached : Evict(x)) \/ (\E k \in Keys : EvictLists(k)) PROVE FaithInv'
  <2>1. /\ \A q \in Procs, g \in Files : data'[<<q, g>>] = data[<<q, g>>]
        /\ UNCHANGED <<source, seen, pc, key, env, n, tmp, ran, status>>
    BY <1>5, EvictSound
  <2> QED
    BY <1>1, <2>1 DEF FaithInv, FaithOK, Left
<1>6. \A p \in Procs : ~ WipeTemp(p)
  BY DEF WipeTemp
<1> QED
  BY <1>2, <1>3, <1>4, <1>5, <1>6 DEF Next

\* Every exit is faithful: ccache returns the status and leaves the output that
\* the compiler alone would have, for a version the source has had during the run
\* (from_cache, to_cache, failed).
THEOREM ExitsAreFaithful == ASSUME Separate, ~ TempInCache PROVE Spec => []ExitFaithful
<1>1. Init => FaithInv
  BY FaithInit
<1>2. FaithInv /\ [Next]_vars => FaithInv'
  BY FaithNext
<1>3. FaithInv => ExitFaithful
  BY DEF FaithInv, FaithOK, ExitFaithful
<1> QED
  BY <1>1, <1>2, <1>3, PTL DEF Spec
-----------------------------------------------------------------------------
(* The refinement.                                                          *)

\* What a build sees depends only on its own variables and output files.
LEMMA ResultFrame ==
  ASSUME NEW q \in Procs, pc'[q] = pc[q], status'[q] = status[q],
         \A f \in Files : data'[<<q, f>>] = data[<<q, f>>]
  PROVE  Result(q)' = Result(q)
<1>1. \A x \in Outs(q) : data'[x] = data[x]
  BY PathFacts
<1>2. {data'[x] : x \in Outs(q)} = {data[x] : x \in Outs(q)}
  BY <1>1
<1>3. Outs(q)' = Outs(q)
  BY DEF Outs, Files
<1> QED
  BY <1>2, <1>3 DEF Result, Running

\* While a run goes on a build sees no more than that.
LEMMA ResultRunning == ASSUME NEW p \in Procs, Running(p) PROVE Result(p) = Plain!Running
BY DEF Result, Running, Plain!Running

\* After the run it sees the outcome of a version seen.
LEMMA ResultLeft ==
  ASSUME NEW p \in Procs, pc'[p] = "exit", Left(p)'
  PROVE  \E v \in seen'[p] : Result(p)' = Plain!ResultOf(v)
<1>1. PICK v \in seen'[p] : IF Succeeds(v)
                            THEN status'[p] = "ok" /\ \A f \in Files : data'[<<p, f>>] = v
                            ELSE status'[p] = "error"
  BY DEF Left
<1>2. CASE Succeeds(v)
  <2>1. \A x \in Outs(p) : data'[x] = v
    BY <1>1, <1>2, PathFacts
  <2>2. <<p, 1>> \in Outs(p)
    BY PathFacts
  <2>3. {data'[x] : x \in Outs(p)} = {v}
    BY <2>1, <2>2
  <2>4. v \in Keys
    BY <1>2 DEF Succeeds
  <2> QED
    BY <1>1, <1>2, <2>3, <2>4 DEF Result, Plain!ResultOf, Outs
<1>3. CASE ~ Succeeds(v)
  BY <1>1, <1>3 DEF Result, Plain!ResultOf
<1> QED
  BY <1>2, <1>3

\* A step of ccache runs in a running process and ends it, if at all, by exit.
LEMMA StepRuns == ASSUME ProcsTyped, NEW p \in Procs, Step(p)
                  PROVE Running(p) /\ pc'[p] # "idle" /\ UNCHANGED <<source, seen>>
<1>1. CASE OpenStderr(p)
  BY <1>1 DEF OpenStderr, Running, ProcsTyped, Goto, Leave, Discard, tree
<1>2. CASE StatOutput(p)
  BY <1>2 DEF StatOutput, Running, ProcsTyped, Goto, Leave, Discard, tree
<1>3. CASE OpenOutfiles(p)
  BY <1>3 DEF OpenOutfiles, Running, ProcsTyped, Goto, Leave, Discard, tree
<1>4. CASE Retrieve(p)
  BY <1>4 DEF Retrieve, Running, ProcsTyped, Goto, Leave, Discard, tree
<1>5. CASE RetrieveFails(p)
  BY <1>5 DEF RetrieveFails, Running, ProcsTyped, Goto, Leave, Discard, tree
<1>6. CASE Miss(p)
  BY <1>6 DEF Miss, Running, ProcsTyped, Goto, Leave, Discard, tree
<1>7. CASE Compile(p)
  BY <1>7 DEF Compile, Running, ProcsTyped, Goto, Leave, Discard, tree
<1>8. CASE CompiledStdout(p)
  BY <1>8 DEF CompiledStdout, Running, ProcsTyped, Goto, Leave, Discard, tree
<1>9. CASE CompiledError(p)
  BY <1>9 DEF CompiledError, Running, ProcsTyped, Goto, Leave, Discard, tree
<1>10. CASE CompiledOk(p)
  BY <1>10 DEF CompiledOk, Running, ProcsTyped, Goto, Leave, Discard, tree
<1>11. CASE Commit(p)
  BY <1>11 DEF Commit, Running, ProcsTyped, Goto, Leave, Discard, tree
<1>12. CASE Install(p)
  BY <1>12 DEF Install, Running, ProcsTyped, Goto, Leave, Discard, tree
<1>13. CASE PutOutfiles(p)
  BY <1>13 DEF PutOutfiles, Running, ProcsTyped, Goto, Leave, Discard, tree
<1>14. CASE PutStderr(p)
  BY <1>14 DEF PutStderr, Running, ProcsTyped, Goto, Leave, Discard, tree
<1>15. CASE PutFails(p)
  BY <1>15 DEF PutFails, Running, ProcsTyped, Goto, Leave, Discard, tree
<1>16. CASE OpenStderr2(p)
  BY <1>16 DEF OpenStderr2, Running, ProcsTyped, Goto, Leave, Discard, tree
<1>17. CASE StatOutput2(p)
  BY <1>17 DEF StatOutput2, Running, ProcsTyped, Goto, Leave, Discard, tree
<1>18. CASE RealCompile(p)
  BY <1>18 DEF RealCompile, Running, ProcsTyped, Goto, Leave, Discard, tree
<1>19. CASE RealCompiled(p)
  BY <1>19 DEF RealCompiled, Running, ProcsTyped, Goto, Leave, Discard, tree
<1> QED
  BY <1>1, <1>2, <1>3, <1>4, <1>5, <1>6, <1>7, <1>8, <1>9, <1>10, <1>11, <1>12, <1>13, <1>14, <1>15, <1>16, <1>17, <1>18, <1>19 DEF Step

\* The abstract state after a step that changes nothing a build sees, and after
\* one that changes what only p sees.
Seen == [p \in Procs |-> Result(p)]

\* Initial states map to initial states of the plain compiler.
LEMMA InitRefines == Init => Plain!Init
BY DEF Init, Plain!Init, Result, Running, Plain!Idle

\* Every step maps to a step of the plain compiler or to none.
LEMMA NextRefines ==
  ASSUME Separate, ~ TempInCache, FaithInv, FaithInv', [Next]_vars
  PROVE  [Plain!Next]_(Plain!vars)
<1> SoundInv /\ ProcsTyped /\ ProcsTyped'
  BY DEF FaithInv, SoundInv, TypeOK
<1>a. ASSUME NEW p \in Procs, Frame(p), OutputsKept(p)
      PROVE  Seen' = [Seen EXCEPT ![p] = Result(p)']
  <2>1. \A q \in Procs : q # p => Result(q)' = Result(q)
    BY <1>a, ResultFrame DEF Frame, OutputsKept
  <2> QED
    BY <2>1 DEF Seen
<1>1. CASE UNCHANGED vars
  <2>1. \A q \in Procs : Result(q)' = Result(q)
    BY <1>1, ResultFrame DEF vars
  <2> QED
    BY <1>1, <2>1 DEF vars, Plain!vars
<1>2. ASSUME NEW p \in Procs, Step(p) PROVE [Plain!Next]_(Plain!vars)
  <2>1. Running(p) /\ pc'[p] # "idle" /\ UNCHANGED <<source, seen>>
    BY <1>2, StepRuns
  <2>2. Seen' = [Seen EXCEPT ![p] = Result(p)']
    BY <1>2, <1>a, StepFrame, StepFiles
  <2>3. CASE pc'[p] = "exit"
    <3>1. Left(p)'
      BY <2>3 DEF FaithInv, FaithOK
    <3>2. PICK v \in seen'[p] : Result(p)' = Plain!ResultOf(v)
      BY <2>3, <3>1, ResultLeft
    <3> QED
      BY <2>1, <2>2, <3>2, ResultRunning DEF Plain!Next, Plain!End, Seen
  <2>4. CASE pc'[p] # "exit"
    <3>1. Result(p)' = Plain!Running /\ Result(p) = Plain!Running
      BY <2>1, <2>4, ResultRunning DEF Running, Result, Plain!Running
    <3> QED
      BY <2>1, <2>2, <3>1 DEF Seen, Plain!vars
  <2> QED
    BY <2>3, <2>4
<1>3. ASSUME NEW p \in Procs,
             \/ \E e \in Environments : Start(p, e)
             \/ \E v \in Keys : Edit(p, v)
             \/ Kill(p)
      PROVE  [Plain!Next]_(Plain!vars)
  <2>1. Frame(p) /\ UNCHANGED fs
    BY <1>3, TreeFrame
  <2>2. Seen' = [Seen EXCEPT ![p] = Result(p)']
    BY <2>1, <1>a DEF OutputsKept, fs
  <2>3. ASSUME NEW e \in Environments, Start(p, e) PROVE Plain!Begin(p)
    <3>1. Result(p) # Plain!Running /\ Result(p)' = Plain!Running
      BY <2>3 DEF Start, Result, Running, Plain!Running, Goto, ProcsTyped
    <3> QED
      BY <2>2, <2>3, <3>1 DEF Plain!Begin, Seen, Start
  <2>4. ASSUME NEW v \in Keys, Edit(p, v) PROVE Plain!Edit(p, v)
    <3>1. Result(p)' = Result(p)
      BY <2>1, <2>4, ResultFrame DEF Edit, fs
    <3>2. Result(p) = Plain!Running <=> Running(p)
      BY DEF Result, Running, Plain!Running, ProcsTyped
    <3> QED
      BY <2>2, <2>4, <3>1, <3>2 DEF Plain!Edit, Seen, Edit
  <2>5. ASSUME Kill(p) PROVE Plain!Kill(p)
    <3>1. Result(p) = Plain!Running /\ Result(p)' = Plain!Idle
      BY <2>5 DEF Kill, Leave, Goto, Result, Running, Plain!Running, Plain!Idle, ProcsTyped
    <3> QED
      BY <2>2, <2>5, <3>1 DEF Plain!Kill, Seen, Kill, tree
  <2> QED
    BY <1>3, <2>3, <2>4, <2>5 DEF Plain!Next
<1>4. ASSUME (\E x \in Cached : Evict(x)) \/ (\E k \in Keys : EvictLists(k))
      PROVE  [Plain!Next]_(Plain!vars)
  <2>1. /\ \A q \in Procs, g \in Files : data'[<<q, g>>] = data[<<q, g>>]
        /\ UNCHANGED <<source, seen, pc, key, env, n, tmp, ran, status>>
    BY <1>4, EvictSound
  <2>2. \A q \in Procs : Result(q)' = Result(q)
    BY <2>1, ResultFrame
  <2> QED
    BY <2>1, <2>2 DEF Plain!vars
<1>5. \A p \in Procs : ~ WipeTemp(p)
  BY DEF WipeTemp
<1> QED
  BY <1>1, <1>2, <1>3, <1>4, <1>5 DEF Next

\* The cache is invisible: ccache implements the plain compiler.  Every run ends
\* as it could have ended without the cache, and what it left is not changed by
\* any other build, by cleanups or by wipes.
THEOREM CacheIsInvisible == ASSUME Separate, ~ TempInCache PROVE Spec => PlainSpec
<1>1. Init => FaithInv /\ Plain!Init
  BY FaithInit, InitRefines
<1>2. FaithInv /\ [Next]_vars => FaithInv'
  BY FaithNext
<1>3. FaithInv /\ FaithInv' /\ [Next]_vars => [Plain!Next]_(Plain!vars)
  BY NextRefines
<1> QED
  BY <1>1, <1>2, <1>3, PTL DEF Spec, PlainSpec, Plain!Spec
=============================================================================
