---------------------------- MODULE Preprocessor ----------------------------
(***************************************************************************)
(* Directives of the preprocessor (Preprocessor_parse in                   *)
(* Preprocessor/cpp.c).  It does not keep a stack of conditionals but, for *)
(* each file, two levels and two flags.  CondStack is what it promises.    *)
(*                                                                         *)
(* The input is any sequence of lines: text, directives and the ends of    *)
(* files.  An action reads one of them.  Text is collected in a chunk and  *)
(* written when the next directive begins.  Included files are read by a   *)
(* recursive call, which has its own variables.                            *)
(***************************************************************************)
EXTENDS Naturals

CONSTANTS
  Names,      \* the names of macros that files define
  Imported,   \* SWIGIMPORTED
  MaxFiles,   \* bound on the nesting of files
  MaxLevel    \* bound on the nesting of conditionals, 256 in the code

ASSUME PreprocessorAssumption ==
  /\ Imported \notin Names
  /\ MaxFiles \in Nat \ {0}
  /\ MaxLevel \in Nat

VARIABLES
  depth,            \* how many calls of Preprocessor_parse are active
  call,             \* the variables of each of them
  symbols,          \* the macros that are defined
  imported_depth,   \* how many of the files were imported
  include_all,      \* -includeall
  import_all        \* -importall

vars == <<depth, call, symbols, imported_depth, include_all, import_all>>

Calls == 1 .. MaxFiles

\* The variables of a call: "chunk" is how the text in the chunk was to be treated
\* when it was read, "how" the directive that made the call.
Fresh(how) == [allow |-> TRUE, level |-> 0, start_level |-> 0, mask |-> FALSE,
               chunk |-> {}, how |-> how]

Init ==
  /\ depth = 1
  /\ call = [f \in Calls |-> Fresh("main")]
  /\ symbols = {}
  /\ imported_depth = 0
  /\ include_all \in BOOLEAN
  /\ import_all \in BOOLEAN

Here == call[depth]
-----------------------------------------------------------------------------
(* Conditionals, as functions of the variables of a call.                   *)

\* #if, #ifdef, #ifndef with a condition that holds or not; an error counts as not.
Opened(c, v) ==
  IF c.allow
  THEN [c EXCEPT !.level = @ + 1, !.start_level = c.level + 1, !.allow = v, !.mask = TRUE]
  ELSE [c EXCEPT !.level = @ + 1]

\* Mutant: the level of the conditional is not looked at.
BranchedAnywhere(c, v) ==
  IF c.level = 0 THEN c
  ELSE IF c.allow THEN [c EXCEPT !.allow = FALSE, !.mask = FALSE]
  ELSE [c EXCEPT !.allow = v /\ c.mask]

\* #elif and, with a condition that holds, #else.
Branched(c, v) ==
  IF c.level = 0 THEN c
  ELSE IF c.allow THEN [c EXCEPT !.allow = FALSE, !.mask = FALSE]
  ELSE IF c.level = c.start_level THEN [c EXCEPT !.allow = v /\ c.mask]
  ELSE c

\* Mutant: an extraneous #endif is counted.
ClosedAnyway(c) ==
  IF c.level - 1 < c.start_level
  THEN [c EXCEPT !.level = @ - 1, !.allow = TRUE, !.start_level = @ - 1]
  ELSE [c EXCEPT !.level = @ - 1]

\* #endif
Closed(c) ==
  IF c.level = 0 THEN c
  ELSE IF c.level - 1 < c.start_level
  THEN [c EXCEPT !.level = @ - 1, !.allow = TRUE, !.start_level = @ - 1]
  ELSE [c EXCEPT !.level = @ - 1]

\* Mutant: the chunk is not written when a directive begins.
FlushedNot(c) == c

\* add_chunk
Flushed(c) == [c EXCEPT !.chunk = {}]
-----------------------------------------------------------------------------
(* The lines of a file.                                                     *)

\* A line of text, a %{ %} block, or a directive that the preprocessor leaves alone.
Text ==
  /\ call' = [call EXCEPT ![depth].chunk = @ \cup {Here.allow}]
  /\ UNCHANGED <<depth, symbols, imported_depth, include_all, import_all>>

\* A directive that changes the conditionals of the file.
Conditional(c) ==
  /\ call' = [call EXCEPT ![depth] = c]
  /\ UNCHANGED <<depth, symbols, imported_depth, include_all, import_all>>

If(v)      == Here.level < MaxLevel /\ Conditional(Opened(Flushed(Here), v))
Ifdef(x)   == Here.level < MaxLevel /\ Conditional(Opened(Flushed(Here), x \in symbols))
Ifndef(x)  == Here.level < MaxLevel /\ Conditional(Opened(Flushed(Here), x \notin symbols))
Elif(v)    == Conditional(Branched(Flushed(Here), v))
Else       == Conditional(Branched(Flushed(Here), TRUE))
Endif      == Conditional(Closed(Flushed(Here)))

\* #define and %define ... %enddef: Preprocessor_define adds the macro.
Define(x) ==
  /\ symbols' = IF Here.allow THEN symbols \cup {x} ELSE symbols
  /\ call' = [call EXCEPT ![depth] = Flushed(Here)]
  /\ UNCHANGED <<depth, imported_depth, include_all, import_all>>

\* #undef
Undef(x) ==
  /\ symbols' = IF Here.allow THEN symbols \ {x} ELSE symbols
  /\ call' = [call EXCEPT ![depth] = Flushed(Here)]
  /\ UNCHANGED <<depth, imported_depth, include_all, import_all>>

push_imported ==
  /\ symbols' = IF imported_depth = 0 THEN symbols \cup {Imported} ELSE symbols
  /\ imported_depth' = imported_depth + 1

pop_imported ==
  /\ symbols' = IF imported_depth = 1 THEN symbols \ {Imported} ELSE symbols
  /\ imported_depth' = imported_depth - 1

\* Preprocessor_parse of another file.
Recurse(how) ==
  /\ depth < MaxFiles
  /\ depth' = depth + 1
  /\ call' = [call EXCEPT ![depth] = Flushed(Here), ![depth + 1] = Fresh(how)]

\* %include, and %extern, which does not announce an import.
IncludeFile ==
  /\ Here.allow
  /\ Recurse("%include")
  /\ UNCHANGED <<symbols, imported_depth, include_all, import_all>>

\* %import
ImportFile ==
  /\ Here.allow
  /\ Recurse("%import")
  /\ push_imported
  /\ UNCHANGED <<include_all, import_all>>

\* #include, which does something with -includeall or -importall only.
HashInclude ==
  /\ Here.allow
  /\ include_all \/ import_all
  /\ Recurse("#include")
  /\ import_all' = (import_all /\ ~ include_all)
  /\ IF include_all THEN UNCHANGED <<symbols, imported_depth>> ELSE push_imported
  /\ UNCHANGED include_all

\* Does the call that is about to return undo an import?
Undoes == Here.how = "%import" \/ (Here.how = "#include" /\ import_all)

\* The end of an included file.  Conditionals that are still open are reported.
EndOfFile ==
  /\ depth > 1
  /\ depth' = depth - 1
  /\ call' = [call EXCEPT ![depth] = Fresh("main")]
  /\ IF Undoes THEN pop_imported ELSE UNCHANGED <<symbols, imported_depth>>
  /\ UNCHANGED <<include_all, import_all>>

Next ==
  \/ Text \/ Else \/ Endif
  \/ \E v \in BOOLEAN : If(v) \/ Elif(v)
  \/ \E x \in Names \cup {Imported} : Ifdef(x) \/ Ifndef(x)
  \/ \E x \in Names : Define(x) \/ Undef(x)
  \/ IncludeFile \/ ImportFile \/ HashInclude
  \/ EndOfFile

Spec == Init /\ [][Next]_vars
-----------------------------------------------------------------------------
TypeOK ==
  /\ depth \in Calls
  /\ call \in [Calls -> [allow : BOOLEAN, level : 0 .. MaxLevel, start_level : 0 .. MaxLevel,
                         mask : BOOLEAN, chunk : SUBSET BOOLEAN,
                         how : {"main", "%include", "%import", "#include"}]]
  /\ symbols \subseteq Names \cup {Imported}
  /\ imported_depth \in 0 .. MaxFiles
  /\ include_all \in BOOLEAN
  /\ import_all \in BOOLEAN

\* The text in a chunk is written, or turned into blank lines, according to the
\* conditionals that were open when it was read, not those that are open when the
\* chunk is written ("All code inside false conditionals is changed to blank
\* lines", cpp.c:1360).
ChunkFaithful == \A f \in Calls : call[f].chunk \subseteq {call[f].allow}

\* The stack of conditionals that two levels and two flags stand for.
StatusAt(c, i) ==
  IF c.allow \/ i < c.start_level THEN "active"
  ELSE IF i > c.start_level THEN "dead"
  ELSE IF c.mask THEN "waiting" ELSE "done"

StackOf(c) == [n |-> c.level, is |-> [i \in 1 .. c.level |-> StatusAt(c, i)]]

\* Was the file of call c imported?
Imports(c) == c.how = "%import" \/ (c.how = "#include" /\ ~ include_all)

Stack == INSTANCE CondStack WITH
           conds <- [f \in Calls |-> StackOf(call[f])],
           import <- [f \in Calls |-> Imports(call[f])],
           macros <- symbols

\* However conditionals, definitions and files are nested, the levels and flags
\* select the lines that a stack of conditionals would select, an included file
\* leaves the conditionals of its parent alone, and SWIGIMPORTED is defined while
\* an imported file is read.
CondSpec == Stack!Spec
=============================================================================
