------------------------------- MODULE CCache -------------------------------
(***************************************************************************)
(* ccache-swig (CCache/ccache.c, util.c, cleanup.c): compiles in several   *)
(* build trees share a cache directory, without a lock.  An action is a    *)
(* stretch of the program between two points where another process can     *)
(* interfere with the files it uses.                                       *)
(*                                                                         *)
(* The hash of a compile (find_hash) identifies the version of the source, *)
(* so a version is its own key.  The content of a file is the version it   *)
(* was compiled from, or Junk while a compiler is writing it.              *)
(***************************************************************************)
EXTENDS Naturals

CONSTANTS
  Procs,        \* the build trees; at most one ccache runs in each
  Keys,         \* the versions of the source
  NFiles,       \* how many files a compile produces
  Outcome,      \* [Keys -> {"ok", "fails", "stdout", "cppfails"}], the compiler
  Environments, \* the sets of CCACHE_ variables a run may be started with
  Swig,         \* TRUE for SWIG, FALSE for a C compiler (one file, no .outfiles)
  TempInCache,  \* TRUE when CCACHE_TEMPDIR is not set (main, ccache.c:1379)
  None, Junk    \* no file, and a file that is being written

Files  == 1 .. NFiles
Cached == Keys \X Files      \* hashname, hashname.1, ... in the cache
Output == Procs \X Files     \* the output files in the build trees
Paths  == Cached \cup Output

Variables == {"HARDLINK", "NOCOMPRESS", "READONLY", "RECACHE", "CPP2", "DISABLE"}

ASSUME CCacheAssumption ==
  /\ NFiles \in Nat \ {0}
  /\ Outcome \in [Keys -> {"ok", "fails", "stdout", "cppfails"}]
  /\ Swig \in BOOLEAN /\ (~ Swig => NFiles = 1)
  /\ TempInCache \in BOOLEAN
  /\ Environments \subseteq SUBSET Variables
  /\ Keys \cap Procs = {}
  /\ None \notin Keys /\ Junk \notin Keys /\ None # Junk

VARIABLES
  data,      \* the content of every path, None when there is no such file
  same,      \* the paths that are hard links to the same file
  packed,    \* the cached files that are compressed
  stderr,    \* the keys with a .stderr file in the cache
  outfiles,  \* the keys with an .outfiles file in the cache
  source,    \* the version of each tree's source
  seen,      \* the versions it has had since the tree's last run began
  pc,        \* where the tree's ccache is
  key,       \* the hash it has computed
  env,       \* the CCACHE_ variables it runs with
  n,         \* the output file it is at
  tmp,       \* its temporary files
  ran,       \* the version the compiler it runs has read, Junk if it found none
  status     \* the exit status of the tree's last run

fs    == <<data, same, packed>>
lists == <<stderr, outfiles>>
tree  == <<source, seen>>
call  == <<key, env>>
vars  == <<data, same, packed, stderr, outfiles, source, seen, pc, key, env, n, tmp, ran,
           status>>

Init ==
  /\ data = [x \in Paths |-> None]
  /\ same = [x \in Paths |-> {x}]
  /\ packed = {} /\ stderr = {} /\ outfiles = {}
  /\ source \in [Procs -> Keys]
  /\ seen = [p \in Procs |-> {}]
  /\ pc = [p \in Procs |-> "idle"]
  /\ key = [p \in Procs |-> None]
  /\ env = [p \in Procs |-> {}]
  /\ n = [p \in Procs |-> 1]
  /\ tmp = [p \in Procs |-> {}]
  /\ ran = [p \in Procs |-> Junk]
  /\ status = [p \in Procs |-> "none"]
-----------------------------------------------------------------------------
(* Files.                                                                   *)

Outs(p) == {p} \X Files

\* unlink of every path of S.
Unlink(S) ==
  /\ data' = [x \in Paths |-> IF x \in S THEN None ELSE data[x]]
  /\ same' = [x \in Paths |-> IF x \in S THEN {x} ELSE same[x] \ S]
  /\ packed' = packed \ S

\* fopen(..., "w") of every path of S: an existing file is written in place, so
\* that every hard link to it shows the new content d.
Write(S, d) ==
  /\ data' = [x \in Paths |-> IF \E y \in S : x \in same[y] THEN d ELSE data[x]]
  /\ UNCHANGED <<same, packed>>

\* unlink(y), link(x, y)
Link(x, y) ==
  /\ data' = [data EXCEPT ![y] = data[x]]
  /\ same' = [z \in Paths |-> IF z \in same[x] \cup {y} THEN same[x] \cup {y} ELSE same[z] \ {y}]
  /\ packed' = packed \ {y}

\* copy_file: a temporary file is written and takes the place of y; zip says
\* whether it is compressed.
Copy(x, y, zip) ==
  /\ data' = [data EXCEPT ![y] = data[x]]
  /\ same' = [z \in Paths |-> IF z = y THEN {y} ELSE same[z] \ {y}]
  /\ packed' = IF zip THEN packed \cup {y} ELSE packed \ {y}

Goto(p, l) == pc' = [pc EXCEPT ![p] = l]

\* The process of p ends.  Temporary files carry its process id: those it leaves
\* behind are never used again.
Leave(p, l, st) ==
  /\ Goto(p, l)
  /\ status' = [status EXCEPT ![p] = st]
  /\ key' = [key EXCEPT ![p] = None]
  /\ env' = [env EXCEPT ![p] = {}]
  /\ n' = [n EXCEPT ![p] = 1]
  /\ tmp' = [tmp EXCEPT ![p] = {}]
  /\ ran' = [ran EXCEPT ![p] = Junk]
-----------------------------------------------------------------------------
(* ccache(): the hash, and the first from_cache().                          *)

Running(p) == pc[p] \notin {"idle", "exit"}

\* find_compiler, process_args and find_hash: cpp is run, its output is hashed and
\* kept in a temporary file.  Without a hash the real compiler is run.
Start(p, e) ==
  /\ ~ Running(p)
  /\ seen' = [seen EXCEPT ![p] = {source[p]}]
  /\ key' = [key EXCEPT ![p] = source[p]]
  /\ env' = [env EXCEPT ![p] = e]
  /\ tmp' = [tmp EXCEPT ![p] = {"i"}]
  /\ status' = [status EXCEPT ![p] = "none"]
  /\ Goto(p, IF "DISABLE" \in e \/ Outcome[source[p]] = "cppfails" THEN "real" ELSE "open")
  /\ UNCHANGED <<fs, lists, source, n, ran>>

\* open(stderr_file): the entry exists when it has one.
OpenStderr(p) ==
  /\ pc[p] = "open"
  /\ Goto(p, IF key[p] \in stderr THEN "stat" ELSE "miss")
  /\ UNCHANGED <<fs, lists, tree, call, n, tmp, ran, status>>

\* The entry is unusable: unlink(stderr_file) and return.
Discard(p) ==
  /\ stderr' = stderr \ {key[p]}
  /\ Goto(p, "miss")
  /\ UNCHANGED <<outfiles, n>>

\* stat(hashname), and the test of CCACHE_RECACHE.
StatOutput(p) ==
  /\ pc[p] = "stat"
  /\ IF data[<<key[p], 1>>] = None \/ "RECACHE" \in env[p]
     THEN Discard(p)
     ELSE /\ Goto(p, IF Swig THEN "list" ELSE "get")
          /\ n' = [n EXCEPT ![p] = 1]
          /\ UNCHANGED lists
  /\ UNCHANGED <<fs, tree, call, tmp, ran, status>>

\* fopen(outfiles): the list of the files to retrieve.
OpenOutfiles(p) ==
  /\ pc[p] = "list"
  /\ IF key[p] \in outfiles
     THEN Goto(p, "get") /\ UNCHANGED <<lists, n>>
     ELSE Discard(p)
  /\ UNCHANGED <<fs, tree, call, tmp, ran, status>>

\* Mutant: the output is always a hard link to the cached file.
RetrieveLinks(p) ==
  /\ pc[p] = "get"
  /\ data[<<key[p], n[p]>>] # None
  /\ Link(<<key[p], n[p]>>, <<p, n[p]>>)
  /\ IF n[p] < NFiles
     THEN n' = [n EXCEPT ![p] = @ + 1] /\ UNCHANGED <<pc, call, tmp, ran, status>>
     ELSE Leave(p, "exit", "ok")
  /\ UNCHANGED <<lists, tree>>

\* retrieve_from_cache of one file; after the last one, exit(0).
Retrieve(p) ==
  LET from == <<key[p], n[p]>>
      to   == <<p, n[p]>>
  IN
  /\ pc[p] = "get"
  /\ data[from] # None
  /\ IF "HARDLINK" \in env[p] /\ from \notin packed THEN Link(from, to) ELSE Copy(from, to, FALSE)
  /\ IF n[p] < NFiles
     THEN n' = [n EXCEPT ![p] = @ + 1] /\ UNCHANGED <<pc, call, tmp, ran, status>>
     ELSE Leave(p, "exit", "ok")
  /\ UNCHANGED <<lists, tree>>

\* Mutant: a file that cannot be retrieved is passed over.
RetrieveFailsSkips(p) ==
  /\ pc[p] = "get"
  /\ Unlink({<<p, n[p]>>})
  /\ IF n[p] < NFiles
     THEN n' = [n EXCEPT ![p] = @ + 1] /\ UNCHANGED <<pc, call, tmp, ran, status>>
     ELSE Leave(p, "exit", "ok")
  /\ UNCHANGED <<lists, tree>>

\* The cached file is gone, or cannot be copied.
RetrieveFails(p) ==
  /\ pc[p] = "get"
  /\ Unlink({<<p, n[p]>>})
  /\ Discard(p)
  /\ UNCHANGED <<tree, call, tmp, ran, status>>

\* The test of CCACHE_READONLY.
Miss(p) ==
  /\ pc[p] = "miss"
  /\ Goto(p, IF "READONLY" \in env[p] THEN "real" ELSE "run")
  /\ UNCHANGED <<fs, lists, tree, call, n, tmp, ran, status>>
-----------------------------------------------------------------------------
(* to_cache(): the compiler is run and its output is put into the cache.    *)

\* Mutant: execute() does not wait for the compiler to end.
CompileNoWait(p) ==
  /\ pc[p] = "run"
  /\ ran' = [ran EXCEPT ![p] = key[p]]
  /\ Write(Outs(p), Junk)
  /\ tmp' = [tmp EXCEPT ![p] = @ \cup {"stderr", "outfiles"}]
  /\ n' = [n EXCEPT ![p] = 1]
  /\ Goto(p, "commit")
  /\ UNCHANGED <<lists, tree, call, status>>

\* execute(): the compiler reads the preprocessed file, or the source itself
\* under CCACHE_CPP2, and opens its output files.
Compile(p) ==
  /\ pc[p] = "run"
  /\ ran' = [ran EXCEPT ![p] = IF "CPP2" \in env[p] THEN source[p]
                               ELSE IF "i" \in tmp[p] THEN key[p] ELSE Junk]
  /\ Write(Outs(p), Junk)
  /\ tmp' = [tmp EXCEPT ![p] = (@ \cup {"stdout", "stderr"}) \ {"outfiles"}]
  /\ Goto(p, "compiling")
  /\ UNCHANGED <<lists, tree, call, n, status>>

Succeeds(v) == v \in Keys /\ Outcome[v] \in {"ok", "stdout"}

\* if (!swig) unlink(output_file), on the ways to failed().
DropOutput(p, d) == IF Swig THEN Write(Outs(p), d) ELSE Unlink(Outs(p))

\* The compiler wrote to its standard output: nothing is cached.
CompiledStdout(p) ==
  /\ pc[p] = "compiling"
  /\ "stdout" \notin tmp[p] \/ (ran[p] \in Keys /\ Outcome[ran[p]] = "stdout")
  /\ DropOutput(p, IF Succeeds(ran[p]) THEN ran[p] ELSE Junk)
  /\ tmp' = [tmp EXCEPT ![p] = @ \ {"stdout", "stderr", "outfiles"}]
  /\ Goto(p, "real")
  /\ UNCHANGED <<lists, tree, call, n, ran, status>>

\* The compiler failed: its error output is shown and its status returned.
CompiledError(p) ==
  /\ pc[p] = "compiling"
  /\ "stdout" \in tmp[p]
  /\ ~ Succeeds(ran[p])
  /\ IF "stderr" \in tmp[p]
     THEN Leave(p, "exit", "error") /\ UNCHANGED fs
     ELSE /\ Goto(p, "real")
          /\ DropOutput(p, Junk)
          /\ tmp' = [tmp EXCEPT ![p] = @ \ {"stdout", "outfiles"}]
          /\ UNCHANGED <<call, n, ran, status>>
  /\ UNCHANGED <<lists, tree>>

\* Mutant: the status of the compiler is not looked at.
CompiledOkAlways(p) ==
  /\ pc[p] = "compiling"
  /\ "stdout" \in tmp[p]
  /\ Write(Outs(p), IF Succeeds(ran[p]) THEN ran[p] ELSE Junk)
  /\ tmp' = [tmp EXCEPT ![p] = (@ \ {"stdout"}) \cup (IF Swig THEN {"outfiles"} ELSE {})]
  /\ n' = [n EXCEPT ![p] = 1]
  /\ Goto(p, "commit")
  /\ UNCHANGED <<lists, tree, call, ran, status>>

\* The compiler succeeded; SWIG has listed its output files.
CompiledOk(p) ==
  /\ pc[p] = "compiling"
  /\ "stdout" \in tmp[p]
  /\ ran[p] \in Keys /\ Outcome[ran[p]] = "ok"
  /\ Write(Outs(p), ran[p])
  /\ tmp' = [tmp EXCEPT ![p] = (@ \ {"stdout"}) \cup (IF Swig THEN {"outfiles"} ELSE {})]
  /\ n' = [n EXCEPT ![p] = 1]
  /\ Goto(p, "commit")
  /\ UNCHANGED <<lists, tree, call, ran, status>>

\* commit_to_cache, first half: unlink(dest).
Commit(p) ==
  /\ pc[p] = "commit"
  /\ IF Swig /\ n[p] = 1 /\ "outfiles" \notin tmp[p]
     THEN Goto(p, "real") /\ UNCHANGED fs
     ELSE Goto(p, "install") /\ Unlink({<<key[p], n[p]>>})
  /\ UNCHANGED <<lists, tree, call, n, tmp, ran, status>>

\* commit_to_cache, second half: a hard link, or a copy where a link is not
\* wanted or cannot be made.
Install(p) ==
  LET from == <<p, n[p]>>
      to   == <<key[p], n[p]>>
  IN
  /\ pc[p] = "install"
  /\ IF {"HARDLINK", "NOCOMPRESS"} \subseteq env[p] /\ data[to] = None
     THEN Link(from, to)
     ELSE Copy(from, to, "NOCOMPRESS" \notin env[p])
  /\ IF n[p] < NFiles
     THEN Goto(p, "commit") /\ n' = [n EXCEPT ![p] = @ + 1]
     ELSE Goto(p, IF Swig THEN "putlist" ELSE "puterr") /\ UNCHANGED n
  /\ UNCHANGED <<lists, tree, call, tmp, ran, status>>

\* safe_rename of the list of output files.
PutOutfiles(p) ==
  /\ pc[p] = "putlist"
  /\ "outfiles" \in tmp[p]
  /\ outfiles' = outfiles \cup {key[p]}
  /\ tmp' = [tmp EXCEPT ![p] = @ \ {"outfiles"}]
  /\ Goto(p, "puterr")
  /\ UNCHANGED <<fs, stderr, tree, call, n, ran, status>>

\* move_file of the error output: the entry is complete.
PutStderr(p) ==
  /\ pc[p] = "puterr"
  /\ "stderr" \in tmp[p]
  /\ stderr' = stderr \cup {key[p]}
  /\ tmp' = [tmp EXCEPT ![p] = @ \ {"stderr"}]
  /\ Goto(p, "open2")
  /\ UNCHANGED <<fs, outfiles, tree, call, n, ran, status>>

\* A file cannot be put into the cache, or has been removed from it or from the
\* temporary directory when it is looked at again.
PutFails(p) ==
  /\ pc[p] \in {"install", "putlist", "puterr"}
  /\ tmp' = [tmp EXCEPT ![p] = @ \ {"outfiles"}]
  /\ Goto(p, "real")
  /\ UNCHANGED <<fs, lists, tree, call, n, ran, status>>

\* The second from_cache() opens the entry just made ...
OpenStderr2(p) ==
  /\ pc[p] = "open2"
  /\ Goto(p, IF key[p] \in stderr THEN "stat2" ELSE "real")
  /\ UNCHANGED <<fs, lists, tree, call, n, tmp, ran, status>>

\* ... and exits: the output is in place already.
StatOutput2(p) ==
  /\ pc[p] = "stat2"
  /\ IF data[<<key[p], 1>>] = None
     THEN /\ stderr' = stderr \ {key[p]}
          /\ Goto(p, "real")
          /\ UNCHANGED <<call, n, tmp, ran, status>>
     ELSE Leave(p, "exit", "ok") /\ UNCHANGED stderr
  /\ UNCHANGED <<fs, outfiles, tree>>
-----------------------------------------------------------------------------
(* failed(): the real compiler takes the place of ccache.                   *)

RealCompile(p) ==
  /\ pc[p] = "real"
  /\ tmp' = [tmp EXCEPT ![p] = {}]
  /\ ran' = [ran EXCEPT ![p] = source[p]]
  /\ Write(Outs(p), Junk)
  /\ Goto(p, "realcompiling")
  /\ UNCHANGED <<lists, tree, call, n, status>>

RealCompiled(p) ==
  /\ pc[p] = "realcompiling"
  /\ IF Succeeds(ran[p])
     THEN Write(Outs(p), ran[p]) /\ Leave(p, "exit", "ok")
     ELSE UNCHANGED fs /\ Leave(p, "exit", "error")
  /\ UNCHANGED <<lists, tree>>
-----------------------------------------------------------------------------
(* What else happens to the trees and to the cache.                         *)

\* The source is changed, perhaps under a running compiler.
Edit(p, v) ==
  /\ v # source[p]
  /\ source' = [source EXCEPT ![p] = v]
  /\ seen' = IF Running(p) THEN [seen EXCEPT ![p] = @ \cup {v}] ELSE seen
  /\ UNCHANGED <<fs, lists, pc, call, n, tmp, ran, status>>

\* The run is killed; a half-written output stays.
Kill(p) ==
  /\ Running(p)
  /\ Leave(p, "idle", "none")
  /\ UNCHANGED <<fs, lists, tree>>

\* A cleanup after another compile, "ccache -c" or "ccache -C" removes a file.
Evict(x) ==
  /\ data[x] # None
  /\ Unlink({x})
  /\ UNCHANGED <<lists, tree, pc, call, n, tmp, ran, status>>

EvictLists(k) ==
  /\ \/ stderr' = stderr \ {k} /\ UNCHANGED outfiles
     \/ outfiles' = outfiles \ {k} /\ UNCHANGED stderr
  /\ lists' # lists
  /\ UNCHANGED <<fs, tree, pc, call, n, tmp, ran, status>>

\* "ccache -C" walks the whole cache directory sixteen times (wipe_all passes dir,
\* not dname, to traverse), the temporary files in it included.
WipeTemp(p) ==
  /\ TempInCache
  /\ tmp[p] # {}
  /\ tmp' = [tmp EXCEPT ![p] = {}]
  /\ UNCHANGED <<fs, lists, tree, pc, call, n, ran, status>>

\* One step of the ccache of p.
Step(p) ==
  \/ OpenStderr(p) \/ StatOutput(p) \/ OpenOutfiles(p) \/ Retrieve(p) \/ RetrieveFails(p)
  \/ Miss(p) \/ Compile(p) \/ CompiledStdout(p) \/ CompiledError(p) \/ CompiledOk(p)
  \/ Commit(p) \/ Install(p) \/ PutOutfiles(p) \/ PutStderr(p) \/ PutFails(p)
  \/ OpenStderr2(p) \/ StatOutput2(p) \/ RealCompile(p) \/ RealCompiled(p)

Next ==
  \/ \E p \in Procs : \/ \E e \in Environments : Start(p, e)
                      \/ Step(p)
                      \/ \E v \in Keys : Edit(p, v)
                      \/ Kill(p)
                      \/ WipeTemp(p)
  \/ \E x \in Cached : Evict(x)
  \/ \E k \in Keys : EvictLists(k)

Spec == Init /\ [][Next]_vars
-----------------------------------------------------------------------------
FilesTyped ==
  /\ data \in [Paths -> Keys \cup {None, Junk}]
  /\ same \in [Paths -> SUBSET Paths]
  /\ packed \subseteq Cached

ProcsTyped ==
  /\ stderr \subseteq Keys /\ outfiles \subseteq Keys
  /\ source \in [Procs -> Keys]
  /\ seen \in [Procs -> SUBSET Keys]
  /\ pc \in [Procs -> {"idle", "open", "stat", "list", "get", "miss", "run", "compiling",
                       "commit", "install", "putlist", "puterr", "open2", "stat2", "real",
                       "realcompiling", "exit"}]
  /\ key \in [Procs -> Keys \cup {None}]
  /\ env \in [Procs -> SUBSET Variables]
  /\ n \in [Procs -> Files]
  /\ tmp \in [Procs -> SUBSET {"i", "stdout", "stderr", "outfiles"}]
  /\ ran \in [Procs -> Keys \cup {Junk}]
  /\ status \in [Procs -> {"none", "ok", "error"}]

TypeOK == FilesTyped /\ ProcsTyped

\* Whatever is stored under a hash was compiled from the source with that hash,
\* completely: no interleaving of compiles, kills and evictions leaves a wrong
\* or half-written file in the cache (to_cache, ccache.c:324-374).
CacheSound == \A k \in Keys : \A f \in Files : data[<<k, f>>] \in {k, None}

\* The run of p has left what the compiler leaves for one of the versions seen.
Left(p) ==
  \E v \in seen[p] :
    IF Succeeds(v)
    THEN status[p] = "ok" /\ \A f \in Files : data[<<p, f>>] = v
    ELSE status[p] = "error"

\* A run that has ended has left what the compiler alone would have left for a
\* version of the source it could have read: the right status, and on success
\* all output files, complete and of one version ("exactly the same compiler
\* output that you would get without the cache", ccache.yo:320).
ExitFaithful == \A p \in Procs : pc[p] = "exit" => Left(p)

\* The view of a build on a run, as in the specification of the plain compiler.
Result(p) ==
  [phase  |-> IF pc[p] = "exit" THEN status[p] ELSE IF Running(p) THEN "running" ELSE "idle",
   output |-> IF pc[p] = "exit" /\ status[p] = "ok" THEN {data[x] : x \in Outs(p)} ELSE {}]

Plain == INSTANCE Compiler WITH
  Compiles <- {v \in Keys : Succeeds(v)},
  result <- [p \in Procs |-> Result(p)]

\* The cache is invisible: every behaviour of the builds with ccache is one they
\* could have with the compiler alone.  In particular nothing another build
\* does changes an output file once a run has ended.
PlainSpec == Plain!Spec
=============================================================================
