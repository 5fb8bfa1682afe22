# A verification project for swig4ada

swig4ada is SWIG 4.0 with an Ada back end: a compiler that reads C and C++
declarations (`.i` interface files), builds a parse tree, and writes wrapper code
in a target language.  Around the compiler sit a run-time library that the
generated modules share, and `ccache-swig`, a compiler cache that many processes
use at once.  This directory holds TLA+ models of the parts whose correctness
depends on order, sharing, failure or boundary values, the TLC runs that check
them on small instances, and TLAPS proofs of the results that hold for every
instance.  `PROJECT.json` maps every definition to the lines it models.

## Inventory

| Part | Source | State it keeps | Operations |
|------|--------|----------------|------------|
| Run-time type table | `Lib/swigrun.swg`, `Lib/swiginit.swg` | a circular list of modules per interpreter; for each module an array of type structures; for each type a doubly linked list of casts; client data | loading a module, name search, type checks with move-to-front, setting and propagating client data |
| Compiler cache | `CCache/*.c` | the cache directory (outputs, lists of outputs, stderr files), temporary files, statistics files with limits | compile through the cache, cleanup, wipe, statistics, limits |
| Ada back end | `Source/Modules/ada/*` | the tables of C and Ada types, the new types, variables and functions of each module, packages and name spaces | the handlers of the language class, pruning, transformation to Ada, source writing |
| Object system DOH | `Source/DOH` | object pools and a free list, reference counts, lists, hash tables, strings, files | allocation and release, list and hash operations, iteration, interning |
| Preprocessor | `Source/Preprocessor` | macro table, conditional levels, expression stack | directives, macro expansion, expression evaluation |
| Scanner and parser | `Source/CParse`, `Source/Swig/scanner.c` | token queue, scope and template state, the parse tree | tokens, declarations, templates |
| Core library | `Source/Swig` | type scopes, typedef and inheritance tables, typemap tables, symbol tables, fragments | type resolution, typemap search, symbol lookup, name mangling, table emission |
| Common passes | `Source/Modules/{main,lang,allocate,typepass,overload,emit,contract,directors}.cxx` | attributes of the parse tree, the vtable of each class | passes over the tree, overload ranking, director tables |
| Other back ends | `Source/Modules/*.cxx` | per-language buffers | code writing |
| Doxygen translation | `Source/Doxygen` | comment tree | comment conversion |

How they interact.  The preprocessor feeds the parser, the parser builds one tree
of DOH objects, the passes decorate it and call the back end's handlers, one per
declaration, in the order of the header.  The Ada back end collects C types,
functions and variables from these calls and turns them into Ada packages when
the input has ended.  What it and the other back ends write refers to the
run-time type table, which all generated modules of one program share: each
module's initialisation function links its tables into those already loaded.
`ccache-swig` stands in front of `swig` or a C compiler; its processes
communicate only through the files of the cache directory and lock only the
statistics files.

What is hard.  The generator is sequential: its hazards are sequences of legal
calls that leave tables inconsistent (types mentioned before they are declared,
vectors changed while they are walked, destructors that run in the middle of an
operation, lists that several passes relink), and boundary values.  The type table adds
an order of loading that nobody controls.  The cache has real concurrency:
unlocked multi-file entries, kills in the middle of a commit, evictions under a
reader, sources edited under a compiler.  `PROJECT.json` lists the hazards with
their lines and the properties that would catch them.

What makes each part correct:

* type table: a search reads inside the table and finds the type that is there;
  one structure per type; the cast lists are well formed and complete; client
  data reaches all equivalent types; every walk ends.
* cache: a build sees what it would see without a cache.
* statistics: counters cover the files, limits are not lost, a cleanup gets below
  the limit and keeps what was just put, every process gets the lock.
* DOH: reference counts are what containers and clients keep, nothing refers to a
  destroyed object, the free list is exact; a hash table is a map whose loops meet
  every attribute once.
* preprocessor: what is read counts exactly when all open conditionals are active;
  a condition has the value that the operators' precedence gives it.
* symbol tables: the list of overloaded functions is exact while it is built, the
  `%extend` definition is the one that stays, and each function that is wrapped knows
  its set.
* Ada back end: one consistent table of C types however a header orders its
  declarations; exactly what depends on an unknown type is pruned; every Ada type
  is made after the types it is made of; bound subprograms have their parameters.

## Modules

| Module | Models | Extends |
|--------|--------|---------|
| `TypeSearch` | `SWIG_MangledTypeQueryModule`, with unsigned indices | |
| `TypeTable` | `SWIG_InitializeModule`, `SWIG_PropagateClientData`, `SWIG_TypeCheck`, `SWIG_TypeCheckStruct`, `SWIG_TypeClientData` | |
| `Compiler` | what a build sees of a compiler without a cache (abstract) | |
| `CCache` | a compile through the cache; instantiates `Compiler` | |
| `CCacheStats` | statistics files, limits and cleanup of one cache subdirectory | |
| `AdaBinding` | handlers, pruning and transformation of the Ada back end | |
| `DohObjects` | allocator, reference counts, lists, hashes and positions of DOH objects | |
| `DohMap` | what a hash table promises (abstract) | |
| `DohHash` | `hash.c`: chains, growth, the iterator; instantiates `DohMap` | |
| `CondStack` | what conditional inclusion promises (abstract) | |
| `Preprocessor` | the directives of `Preprocessor_parse`; instantiates `CondStack` | |
| `Expr` | `expr.c`: the evaluator of `#if` expressions | |
| `SymbolTable` | the entry of one name: `symbol.c`, `extend.c`, and the list operations of `typepass.cxx` and `utils.cxx` | |
| `TypeSearchProofs`, `TypeTableProofs`, `CCacheProofs`, `CCacheStatsProofs`, `AdaBindingProofs`, `DohObjectsProofs`, `DohHashProofs` | theorems | the module they are about |
| `FrontEndProofs` | theorems about what a header meets before the passes | `Preprocessor`, `Expr`, `SymbolTable` |
| `MC...` | small instances for TLC | the module they instantiate |

A definition whose comment starts with "Mutant" is a faulty variant of the
definition after it; `PROJECT.json` names the property that each one breaks.

### TypeSearch

One behaviour is one call.  `iter`, `l`, `r` are the function's variables, the
bounds counted modulo `SizeLimit` as `size_t` counts.  Names are integers in the
order of `strcmp`; the tables are sorted, as `typesys.c` sorts them.  Actions:
`EnterModule`, `ProbeHit`, `ProbeLow`, `ProbeHigh`, `NextModule`.

### TypeTable

`next`, `head`, `types`, `cast`, `castNext`, `castPrev`, `castType`,
`clientdata` and `initRun` are the fields of the C structures with their pointers
(`Null` for 0; `castType` is the type structure a cast points at, which need not be
the one that the modules share for the name); `pc`, `m`, `iter`, `citer`, ... are the locals of the call in
progress.  Every iteration of every loop is an action of its own, so that the
invariants hold in the middle of a call too.  The generated tables
(`type_initial`, `cast_initial`, converters, static client data) are constants.
`ListsLeadBack` is the part of `CircularList` that is about each interpreter's own
list; it is a property of its own for the run with two interpreters.
Calls do not overlap: the language interpreters serialise them.

### CCache and Compiler

The hash is taken to identify the source version, so a version is its own key.  A
file's content is the version it was compiled from, or `Junk` while it is being
written; `same` says which paths are hard links of one file.  An action is a
stretch of the program between two points where another process can interfere:
opening `.stderr`, the `stat`, each file retrieved, the two halves of
`commit_to_cache`, the renames.  `Kill`, `Evict`, `EvictLists`, `WipeTemp` and
`Edit` are the environment: a killed run, a cleanup elsewhere, `ccache -C`, the
user's editor.  `seen` is a history variable, the versions that the source has had
during the run.  `Compiler` is the promise: a run ends with the output and status
of a version in `seen`, and the output then stays until the next run.

### CCacheStats

One subdirectory with its stats file (`NUMFILES`, `MAXFILES`), its files with
their times, and processes that update the file under the lock of `lock_fd`.
`stats_update` reads and writes under the lock, the cleanup lists and deletes
without it, `stats_set_sizes` takes it again.  `unlink` may fail, in a cleanup and
in a wipe; the loop of the cleanup goes on.  Any number of `Compilers` put and use
files and clean up after themselves, `Commanders` are run with `-F`, `-z`, `-c` or
`-C`, and those in `Killable` may die at any point.  Three variables are history:
`since`, when a compile put its files; `missed`, the files that a running cleanup's
count leaves out, as they came after its listing or could not be deleted; and
`uncounted`, those that the stored count leaves out.  Sizes (`TOTALSIZE`, `MAXSIZE`)
follow the same code as counts and are left out.

### AdaBinding

A swig type is a name with so many pointers, and perhaps an array; a C type is
identified by the swig type it was registered for.  `c_type` is
`swig_type_Map_of_c_type`, `decl` the variant part of the C types, `new_types`,
`variables` and `functions` the vectors of the top module, `ada` the domain of
`c_type_Map_of_ada_type`, `bound` the subprograms made, of functions and of function
pointers, each with the signature in the header and the parameters that
`to_ada_Parameters` gave it.  One action per handler; `demand_c_Type_for` is an
action of its own, as each demand may fail.  An exception that nobody catches
sets `pc` to `Insert` or `Lookup`, where the program ends.  The order in which
the marking meets the types is that of a hashed map, hence free.  The header is
read with `-c++`; in C mode the type pass leaves `struct` in the types and
`typedefHandler` does not strip it, which is not modelled.  Qualifiers are
stripped by the code and references map to the pointer's C type.

### DohObjects

`obj` is the pool, `FreeList` and `current` the allocator's state, `held` the
references that the clients of DOH own, `leaked` those that nobody can give back.
Destroying a container deletes what it holds, one item after the other, which may
destroy further containers in the middle of the first: `stack` has a frame for
each destructor that is running and `call` the operation that goes on afterwards.
Actions: `New`, `DohIncref`, `DohDelete`, the list operations, `Setattr` and
`Delattr` with and without an old value, `Setmeta`, `DohClear`, `Setfile`,
`DohCopy`; and the steps of the destructors `DeleteItem`, `ObjFree`, `Cleared`,
`Return`.  The guards state the discipline that the code asks of its clients and
does not check: they delete only what they own.

### DohHash and DohMap

`h` is the table with `hashsize`, `hashtable` and `nitems`; `index`, `saved` and
`at` are the iterator.  A key is its own hash value, which makes collisions a
matter of the instance.  `Resize` moves the nodes as `resize` does, with its search
for a size that is prime or passes for one.  Nothing keeps a client from changing the
table during a loop: the nodes are moved in memory by no one, so after a growth the
iterator goes on from the saved node in whatever chain that is now, with the old
index (`loop` is `"moved"`); after the saved node was deleted, what is read of it is
undefined (`loop` is `"freed"`, `ReadFreed`).  `DohMap` is a map with a loop.  It
promises that an exact loop meets every attribute once, that a loop over a table that
has grown meets only attributes that are there, and of a loop whose next attribute
was deleted nothing; in all cases the map stays a map.  The refinement maps `todo`,
the attributes an exact loop has still to meet, to the rest of the saved node's chain
and the chains after it.

### Preprocessor and CondStack

One record for each active call of `Preprocessor_parse` holds `allow`, `level`,
`start_level`, `mask`, and what its chunk of collected text should become.  An
action is one line of input: text, `#if` (and `#ifdef`, `#ifndef`), `#elif`,
`#else`, `#endif`, `#define`, `#undef`, `%include`, `%import`, `#include` under
`-includeall` and `-importall`, and the end of a file.  Whether a condition holds
is an input.  `CondStack` has a stack of conditionals with their states for each
file; `StackOf` computes it from the two levels and the mask.

### Expr

`stack` and `sp` are the evaluator's stack; `svalue`, the strings of the slots, is
a variable of its own since it survives from one evaluation to the next.  An
action reads one token.  The reference, `Meaning`, splits the tokens at the
operator that is applied last, without a stack.  `odd` records the two habits of
the code that the reference does not share (see the limits below).

### SymbolTable

All declarations share one target-language name.  `node` holds the attributes
`sym:nextSibling`, `sym:previousSibling`, `sym:overloaded`, `sym:overname`,
`sym:symtab` and `error` of each declaration; `entry` the head of the list in the
`%extend` block's and in the class's table.  The phases are those of a run: an
earlier `%extend` block, the class, the merge, later blocks, and the type pass,
which visits each member and rewrites the lists.  `before` is a history variable, the
table of each declaration when the merge begins: it tells the extension's
declarations from the members.

### MCFrontEnd

`Preprocessor`, `Expr` and `SymbolTable` are checked in one run.  They share no
variable, and none of them runs during a step of another: `cpp.c` calls
`Preprocessor_expr` to its end inside one step, and the parser reads the text that the
preprocessor wrote.  So one of them, `part`, moves while the others rest.

## Runs

| Run | Bounds | Shows |
|-----|--------|-------|
| `type_search` | up to two modules of up to four types, `SizeLimit` 16 | `ProbeInBounds`, `SearchCorrect`, `Terminates` |
| `type_table` | three modules over a base, a derived class and a typedef, one interpreter | `TypeOK`, `WellLinked`, `PrevIsThere`, `OneStructPerType`, `CastsComplete`, `ClientDataPropagated`, `CircularList`, `CallsReturn` |
| `merged_casts` | the same | finding: `CastTypesLoaded` fails |
| `two_interpreters` | three modules of one type, two interpreters | finding: `ListsLeadBack` fails |
| `ccache` | two trees, a good and a failing version, two output files | `CacheSound`, `ExitFaithful`, refinement of `Compiler` (`PlainSpec`) |
| `ccache_wiped` | one tree, versions of every outcome, every guard variable, temporary files in the cache | `CacheSound` |
| `stats` | two compilers, one of which also gets `-F`, `-z`, `-c`, `-C` and may be killed, two names, one file per put, limit 2, two seconds, a count of up to 3 | `LimitKept`, `CountCovers`, `NewFilesKept`, `CleanedEnough`, `OperationsEnd` |
| `ada` | headers of up to three declarations over three names, four types, three signatures | `TableConsistent`, `MarkedExact`, `PrunedClean`, `AdaTypesInOrder`, `BoundComplete` |
| `ada_pruned_functions` | two declarations | finding: `OnlyUnknownPruned` fails |
| `doh_objects` | a pool of three objects, one key, containers of two items, two references | `CountsExact`, `NoDangling`, `FreeListExact`, `CallsEnd` |
| `doh_hash` | six keys in a table that grows from one chain to three and seven | `WellPlaced`, `LenExact`, refinement of `DohMap` (`MapSpec`) |
| `front_end` | three nested files, three levels each, one macro; any number of evaluations of up to seven tokens, five slots, numbers 0 and 2, two strings, four binary and two unary operators; two parameter lists, an extension of up to two and a class of up to three declarations, four in all, bases with up to two methods | `TypeOK`, `ChunkFaithful`, refinement of `CondStack` (`CondSpec`); `StackSound`, `EvaluatesByPrecedence`; `ListsExact`, `ExtendWins`, `OverloadedSetMostly` |

Why the bounds are enough.  The binary search needs a table with a slot on both
sides of the middle and one with a single slot.  A cast is merged in one of four
ways, according to what is loaded; three modules over three names meet all of
them, in every order.  The races of the cache are between two builds of one
entry, with one file already copied and one not, hence two files.  Of the
statistics, the races are between two updates, between a listing and a put, and
between a kill and a count, hence two processes.  The threshold of a limit is 0.8
times it, hence a limit (2) that is not truncated to 0; replacing an entry counts its
files again, so the count exceeds the limit with two files there, and a cleanup has
an older and a newer file to choose from.  The same run with three names has
6.1 million states and no error; the theorems hold for any number of processes, files
and limits.  A header reaches every handler's cases with one name that is mentioned,
one that depends on it and one function; three names make a class with a pruned base
and a function pointer with a pruned parameter beside a known type.  Three objects
make a container in a container, a cycle of two, and a value that depends on the one
it replaces.  Six keys fill a table past two thresholds, collide before a growth and part after it.  Three
levels have a conditional inside a hidden branch of another one, and three files an
import inside an import; the proofs lift both bounds.  Seven tokens hold two
operators with a group or two signs between them, which is where one reduction is
not enough.  Four declarations make a list whose first, middle and last element
can each be the one that is removed, replaced or spliced.

Where a program may stop, deadlock is not checked: a search ends (`type_search`), a
run of the generator ends (`ada`, `ada_pruned_functions`, and the symbol table of
`front_end`), an evaluation that compares a deleted string has no defined continuation
(the conditions of `front_end`), and the pool may be used up by objects that refer to
each other (`doh_objects`).

Fairness.  `Terminates`, `CallsReturn` and `CallsEnd` assume that the running call goes on
(weak fairness of its steps): nothing in it waits.  `OperationsEnd` assumes that
a process which is not killed goes on, and strong fairness of the lock: `fcntl`
with `F_SETLKW` queues the waiting processes, and the lock is released with its
holder, even when it is killed.

## Findings

Three runs show disagreements of the code with its own comments (`findings` in
`PROJECT.json`).

* `merged_casts`: when a module brings a cast between two types that other modules
  have loaded already, the cast is added with the pointer it was generated with, to
  its own module's structure that nobody uses (`swiginit.swg:159`, against the comment
  at line 25).  `SWIG_TypeCheckStruct` then does not find the loaded type, and client
  data spreads to the unused structure.  `CastsComplete` and `ClientDataPropagated`
  state what is true nevertheless: every other cast points at the shared structure
  (`CastFrom`).
* `two_interpreters`: a module that is loaded into a second interpreter is taken out of
  the first one's list by `swiginit.swg:89-90`, and the next load there walks without
  end.
* `ada_pruned_functions`: a function with several unknown types takes its neighbours
  along when it is pruned (`ada_language.adb:487`, `495`), although only functions that
  depend on unknown types should be.

Limits of the code that other instances of the same modules show, or that the
properties state as exceptions:

* With `Environments = {{"CPP2"}}` `ExitFaithful` fails: the compiler reads the
  source again after it was hashed (`ccache.c:267`).
* With `TempInCache = TRUE` `ExitFaithful` fails: a wipe removes the
  preprocessed file of a running compile (`cleanup.c:207`).
* Files that others put or used in a later second are newer than a compile's own; if
  there are as many of them, its cleanup may delete its own (`cleanup.c:92`, the
  exception of `NewFilesKept`).
* A cleanup stores the number of files that it has listed without the lock, over what
  others have added meanwhile, and counts files it could not delete as deleted
  (`stats.c:357`, `cleanup.c:112`; `missed` and `uncounted` in `CountCovers`).
* With a limit of 1, that is `-F 16` to `-F 31`, `CleanedEnough` fails: the
  threshold is truncated to 0, which means no limit (`cleanup.c:130`).
* With `CCACHE_HARDLINK` and `CCACHE_NOCOMPRESS` `ExitFaithful` fails: a compiler
  that writes into its old output changes the cache entry (`util.c:362`).
* `depends_directly_on` follows neither the signature of a function pointer nor the
  bases of a class, so those are kept when a type in them is pruned.  The program ends
  in `Lookup` for the result of a function pointer and for a base, the exceptions of
  `AdaTypesInOrder`; a pruned parameter of a function pointer is left out of its
  subprogram without a word, the exception of `BoundComplete`.
* The program ends in `Insert` for a type that was mentioned through a pointer and is
  declared afterwards, as `demand_c_Type_for` registers the pointed-to type under the
  pointer's name (`ada_language.adb:2675`, against `c_type.ads:358`).
* DOH relies on its callers: the new value of an attribute must not live only
  through the old one (`hash.c`), `List_set` takes over the caller's reference
  instead of adding one, and the reference to the file of an object's position is
  not given back when the object is destroyed.  Those are guards, or `leaked`, in `DohObjects`.
* A loop over a hash table that makes the table grow may meet attributes twice or not
  at all, and one that deletes the next attribute reads freed memory (`hash.c:336`;
  `"moved"` and `"freed"` in `DohMap`).
* `cond_lines[256]` and the evaluator's `stack[256]` are not checked (`MaxLevel`,
  `MaxSlots`).
* `Expr` reduces at most one operator before it pushes the next, so
  `1 - 2 * 3 - 4` is -1 and `a && b == c || d` is `a && (b == c || d)`
  (`expr.c:383`).  A parenthesised string loses its string, and a slot that held a
  compared string keeps it, deleted, until a parenthesis takes the slot over.  `&&`
  and `||` evaluate both sides, and `!` binds weaker than `==`.
* `SymbolTable`: with a using declaration first in the list, functions are not
  compared (`symbol.c:893`), so a member and the extension that should replace it both
  stay, and after the type pass both of two overloaded functions have lost
  `sym:overloaded` (`typepass.cxx:1137`).  A variable of `%extend` over overloaded
  functions removes the first of them and is turned away by the next (`extend.c:85`).  A
  template that takes the first's place leaves a stale `sym:overloaded`.  `ExtendWins`
  names the first two as its only exceptions (`UsingHeads`, `TurnedAway`), and
  `OverloadedSetMostly` excludes exactly these three (`cases`).

## Proofs

All proofs are checked by TLAPS, from the assumptions on the constants that each
module names (`TypeSearchAssumption`, `TypeTableAssumption`, `CCacheAssumption`,
`CCacheStatsAssumption`, `AdaBindingAssumption`, `DohObjectsAssumption`,
`DohHashAssumption`, `PreprocessorAssumption`, `ExprAssumption`, `DeclsAssumption`:
a parameter list is a positive number, as 0 stands for none; and
`CastTypesAssumption`: the types of a row of casts are in the type table of the same
module, where `SwigType_emit_type_table` puts them, typesys.c:2240); TLC evaluates
these in the runs of the modules.  Three groups of theorems have a further hypothesis,
which the run of the property satisfies: one interpreter (`TypeTableProofs`), no limit
of 1 (`CleanupsClean`), and no `CCACHE_HARDLINK` or `CCACHE_CPP2` (`CCacheProofs`);
the findings and limits above say which behaviour of the code makes each necessary.

* `TypeSearchProofs`: `SearchIsCorrect`, `ProbesStayInBounds`.  The inductive
  invariant `SearchInv` adds to `SearchCorrect` that the name, if it is in the
  table, lies between the bounds (`Narrowed`), that it is in no module passed
  (`Passed`), and that the tables are sorted.  The bounds never wrap because twice
  a table's size fits `size_t`.
* `TypeTableProofs`: `TypeTableTypeOK`, `CastListsWellLinked`, `NoNullPrev`, for
  any modules, tables and number of interpreters.  `TableInv` adds where each loop
  is (`ControlOK`), which modules are linked (`LinkedOK`), and that the casts of
  the rows not yet merged are in no list (`PendingFresh`); without the last,
  inserting a cast could tie a list to itself.  One lemma per action, two for the
  list operations.

  `OneStruct` and `ModulesInCircle` are for one interpreter, as a second one breaks
  the list.  `OneInv` says that the linked modules are exactly those of a ring that
  starts at the interpreter's module (`Placed`), where the walk or the query in
  progress stands in that ring and what it has not met so far, and that the modules
  agree on every structure (`Agree`).  A new module is put right after the head, so
  a query that starts behind it and comes back to the head has seen all others: what
  it does not find is nowhere, and a module's own structure may be used.

  `ListsComplete` and `EquivalentsKnown` are for one interpreter too.  `ListInv` says
  for every type which casts its list holds: the types that a module with this type
  declares, and those of the row in progress that the loop has passed (`Declares`).
  What each loop needs for that goes with it: the row's type is a structure that is
  loaded or the module's own (`HandOK`), the search of a list has not met what it
  looks for (`WalkOK`), and the query for a cast type stands in the ring with nothing
  found behind it (`CastQueryOK`), so a new structure is used only for a type that
  nobody has, whose list is empty.  A list is a sequence laid over the pointers
  (`Linked`): pushing an element and moving one to the front are two lemmas, and that
  the set which the specification collects along the pointers is that of the sequence
  is one more (`WalkedIs`).  `PointInv` says where casts point: a cast in the list of a
  structure that its own module brought points at the shared structure of its type as
  soon as there is one (`Pointed`), and only such a cast has ever left the pointer it
  was generated with (`LateKept`); the rest are the casts merged late, which the
  property names.  `DataInv` says that every type with client data has
  equivalents with client data, but for the types of the module being loaded that its
  propagation has not reached (`Exempt`).  `SWIG_TypeClientData` calls itself; the
  model takes the set of types that it reaches, in as many rounds as there are types,
  and `EquivalentsClosed` shows that this many are enough: a round that adds nothing
  ends the growth, and each of the others adds a type.
* `CCacheProofs`: `CacheIsSound`, under `Separate`: no run uses
  `CCACHE_HARDLINK` or `CCACHE_CPP2`.  `SoundInv` says that no two paths share a
  file, that what is in the cache is what its key says, that a run's key and
  compiler belong together (`RunOK`), and that a run that commits has finished
  outputs (`CommitOK`).  `ExitsAreFaithful` and `CacheIsInvisible` (`CCache`
  implements `Compiler`) hold when moreover the temporary files are not in the
  cache; `FaithInv` adds what each stage knows about the outputs of its tree.
* `CCacheStatsProofs`: `LimitIsKept`, for any number of processes and any limits.
  `LockInv` says that one process at most holds the lock and that what the holder
  has read is still what the file says.  `CleanupsClean`, for any number of
  processes: what a cleanup leaves follows from its own variables, provided that no
  limit is 1, whose threshold is truncated to "no limit".  `NewFilesStay` and
  `CountAlwaysCovers` hold for any number of compilers and of processes that clean up,
  wipe, set limits and are killed at the same time.  For the first, `OwnInv` says that
  others can only make a compile's files newer or delete them, never older; the list
  that `qsort` makes has as many files before a file as are older than it (a lemma
  about ranks), so unless as many files of others are newer (`Overtaken`) the compile's
  own are among those that the loop stops in front of (`SpareInv`).  For the second,
  `CoverInv` says that what a cleanup has still to go through, and then the number it
  is going to store, covers all files but those it has missed.  What is stored under
  the lock was read under it (`AllFresh`), so a put is added to what is in the file.
* `AdaBindingProofs`, for any names, declarations and length of the header:
  `TableAlwaysConsistent`, `MarkedAlwaysExact`, `PruningClean`,
  `AdaTypesAlwaysInOrder`, `BoundAlwaysComplete`.  In the invariant `Inv`, a name
  has at most one root, the level at which it was first registered, and its swig
  types map to the family of one C type (`TableOK`); C types are declared at roots
  only (`DeclOK`); `new_types` lists the C types each after the ones it is made of
  (`ListedOK`, `OrderOK`); what a handler demands is known or about to be
  (`PendingOK`); `marked` is within every closed set with the unknown types, and
  closed once the loop has ended (`MarkOK`); what is kept avoids `marked`
  (`CleanOK`); and the transformation has made what is before its index (`MadeOK`).
  Function pointers and classes need more, as the pruning overlooks what they refer
  to: `SigInv` says that the types of a signature come before the function pointer or
  were pruned, and `BindInv` that nothing pruned gets an Ada type, so what is missing
  from a subprogram is exactly what was pruned.
  That a least closed set is what paths reach is an induction over a path, done with
  an explicit set of indices (`Least`, `UpToAll`), as the library's induction rule
  cannot be instantiated here.  The deletion of functions from the vector that is
  being walked is a lemma about cutting a sequence.
* `DohObjectsProofs`: `CountsAlwaysExact`, `NeverDangling`, `FreeListAlwaysExact`,
  for any pool, containers and keys.  `CountsExact` is not inductive: whether the
  next `DohDelete` destroys an object depends on the destructors that are running.
  `Inv` adds that a destroyed object holds nothing (`FreedOK`), that the frames of
  running destructors stand on different objects, whose counts are 0, while a
  clearing loop runs outside of all others (`StackOK`), that the container and the
  new value which the call in progress uses afterwards are reached by the clients in
  another way than through what is being deleted (`CallOK`, `Live`), and that the
  free list is free of repetitions (`FreeListOK`).  The counts are cardinalities of sets
  of places, so each action has lemmas on which places it adds and removes.
* `DohHashProofs`: `NodesWellPlaced`, `LengthExact`, `HashIsMap` (`DohHash`
  implements `DohMap`), for any keys, objects and initial size.  `HashOK` says that
  the chains list a set of nodes with different keys, each in the chain of its key's
  remainder (`Table`, `Lists`), and that `nitems` is the size of that set; `Roomy` that
  a call leaves fewer than two nodes per chain; `LoopOK` that the saved node of an exact
  loop is in the chain of the iterator's index (`IterOK`), and that of a loop over a
  table that has grown in the table.  The helpers of the model are recursive functions, over the chains
  (`Moved`), over the nodes (`Copy`) and over the sizes (`NewSize`); each has a lemma
  that says what it returns, for which the values so far are taken together and the
  least index that breaks the claim is led to a contradiction (`RoundsExist`,
  `UpToAll`).  That `resize` ends at all is Euclid's argument: the number after a
  common multiple of all smaller ones has a larger prime factor (`AcceptedAbove`).  For
  the loop, `RestOf` is what the iterator has still to meet; a call changes one chain,
  and `ChainChanges` says how what is ahead in a chain changes with it, which is the
  change that `DohMap` makes to `todo`.  Growth and deletion during a loop are steps
  like others: the proof shows that they upset at most the loop, and only in the cases
  that `DohMap` names.
* `FrontEndProofs`, on `Preprocessor`: `TypeCorrect`, `CondRefinement` (`Preprocessor` implements
  `CondStack`) and `ChunkCorrect`, for any number of files, levels and macros.
  `Inv` adds how the two levels relate to the flag (`Levels`), that calls not yet
  made are fresh, that `imported_depth` counts the imported calls, that
  `SWIGIMPORTED` is defined exactly when there is one, and that the options agree
  with the calls made under them (`SameOption`).  One lemma per action says which
  step of the stack it is.

  On `Expr` (specification `EvalSpec`): `StackAlwaysSound`, for any operators and any
  number of tokens and slots.  `StackInv` says that the stack
  fits the slots, that its neighbours follow each other as `MayFollow` has it, and that
  between two tokens its top waits for an operand or is one; of the operands' values it
  says nothing, as they never decide what `reduce_op` finds.  That a closing
  parenthesis and the end of the expression reduce as long as there is something to
  reduce is a loop, written as a recursive function: `LoopExists` and `ReduceAllIs` say
  that its values are those of the steps, `UpToAll` that each of them is a sound stack.

  On `SymbolTable` (specification `SymSpec`): `ListsAlwaysExact` and
  `ExtendAlwaysWins`, for any parameter lists and any number of declarations.
  `SymInv` says that each table's list is a sequence laid over the links (`ListOK`) of
  exactly the nodes with its `sym:symtab`, and that nodes in no table are loose
  (`TablesOK`); that marked nodes are in none (`NodesOK`); that any two nodes of a table
  could stand in one list, unless a using declaration is its first (`ApartOK`); and that
  what is still to merge of the `%extend` block is in its table (`BlockOK`).  `PhaseOK`
  adds where each declaration is: before the merge, those not marked are in a table
  (`Unmerged`); from then on, each declaration of the block waits, is in the class or is
  a variable turned away (`Placing`), and each member is in the class or marked, and
  marked only for a declaration of the block that it conflicts with (`Turned`).  That the
  declarations of the block are apart from each other is needed: `Swig_symbol_add`
  returns one node that conflicts, which must be a member and not a declaration merged
  earlier.  And that those of the class are apart is needed for the second
  `Swig_symbol_add` of a turn: only because the others are apart from the member that
  was taken out is there no second conflict, but for a variable (`Lost`).  `AddOK` and
  `RemoveOK` say what the two functions do to the lists, the renumbering included; what
  `Along` meets is that sequence (`AlongIs`).

Only model-checked:

* liveness (`Terminates`, `CallsReturn`, `OperationsEnd`, `CallsEnd`): out of the
  scope of TLAPS;
* `Expr`: `EvaluatesByPrecedence` compares with the recursive `Meaning`, and what
  that computes needs induction over the tokens, which is out of the prover's reach;
* `SymbolTable`: `OverloadedSetMostly`, about the end of the type pass.  It follows from
  no property of the single visits: an entry of `sym:overloaded` that
  `Swig_symbol_remove` leaves behind is repaired by a later visit or it is not, so the
  invariant would have to say of every tree which visits are still to come.

## Not modelled

Pointer packing and human-readable type names, argument parsing and hashing of
ccache, its Windows branches, macro substitution: string handling.  The Ada source
writer, the other back ends, the grammar, the Doxygen translator: text to text, out
of a model checker's reach as a whole.  Generated bindings, generated parsers,
examples and tools are not part of the program's own logic.  These make up nearly
all of the repository's lines (the parser that bison wrote, the back ends of
upstream SWIG and the generated bindings alone are more than half), which is why the mapped share is small:
the modules cover the parts that keep state across calls.

## Plan

1. Proofs next: the type pass of `SymbolTable`, from `SymInv` at its start, with an
   invariant that relates the `sym:overloaded` of a list to the visits still to come.
2. `AdaBinding`: imported modules, which are transformed before the pruning, array
   and function typedefs, `register_Mirror`, name spaces and the class stacks with
   `classHandler`'s early return.
3. Type system and typemaps: typedef resolution over scopes ends, the order of
   typemap lookup, overload ranking as an order.
