----------------------------- MODULE CondStack -----------------------------
(***************************************************************************)
(* What a preprocessor promises about conditional inclusion: every file    *)
(* that is being read has a stack of open conditionals of its own; what is *)
(* read counts if all of them are active; of the branches of a conditional *)
(* at most one is active, the first whose condition holds.  SWIGIMPORTED   *)
(* is defined while a file is read that was imported, directly or not.     *)
(***************************************************************************)
EXTENDS Naturals

CONSTANTS
  Names,      \* the names of macros
  Imported,   \* SWIGIMPORTED
  MaxFiles,   \* bound on the nesting of files
  MaxLevel    \* bound on the nesting of conditionals in a file

VARIABLES
  depth,    \* how many files are being read, one included by the other
  conds,    \* the open conditionals of each file, the outermost first
  import,   \* was the file imported?
  macros    \* the macros that are defined

vars == <<depth, conds, import, macros>>

Files  == 1 .. MaxFiles
Status == {"active",    \* this branch is read
           "waiting",   \* no branch has been read so far
           "done",      \* a branch has been read
           "dead"}      \* the conditional is in a branch that is not read

Empty        == [n |-> 0, is |-> [i \in 1 .. 0 |-> "active"]]
Push(c, s)   == [n |-> c.n + 1, is |-> [i \in 1 .. c.n + 1 |-> IF i = c.n + 1 THEN s ELSE c.is[i]]]
Pop(c)       == [n |-> c.n - 1, is |-> [i \in 1 .. c.n - 1 |-> c.is[i]]]
SetTop(c, s) == [n |-> c.n, is |-> [i \in 1 .. c.n |-> IF i = c.n THEN s ELSE c.is[i]]]
Visible(c)   == \A i \in 1 .. c.n : c.is[i] = "active"

Here == conds[depth]

Init ==
  /\ depth = 1
  /\ conds = [f \in Files |-> Empty]
  /\ import = [f \in Files |-> FALSE]
  /\ macros = {}

\* A conditional with condition v begins.
Open(v) ==
  /\ Here.n < MaxLevel
  /\ conds' = [conds EXCEPT ![depth] =
       Push(Here, IF ~ Visible(Here) THEN "dead" ELSE IF v THEN "active" ELSE "waiting")]
  /\ UNCHANGED <<depth, import, macros>>

\* Another branch begins, with condition v; #else has one that holds.
Branch(v) ==
  /\ Here.n > 0
  /\ LET s == Here.is[Here.n]
     IN  conds' = [conds EXCEPT ![depth] =
           SetTop(Here, IF s = "active" THEN "done"
                        ELSE IF s = "waiting" /\ v THEN "active" ELSE s)]
  /\ UNCHANGED <<depth, import, macros>>

\* The innermost conditional ends.
Close ==
  /\ Here.n > 0
  /\ conds' = [conds EXCEPT ![depth] = Pop(Here)]
  /\ UNCHANGED <<depth, import, macros>>

Define(x) ==
  /\ Visible(Here)
  /\ macros' = macros \cup {x}
  /\ UNCHANGED <<depth, conds, import>>

Undef(x) ==
  /\ Visible(Here)
  /\ macros' = macros \ {x}
  /\ UNCHANGED <<depth, conds, import>>

\* SWIGIMPORTED follows from the files that are being read.
Announce ==
  macros' = (macros \ {Imported}) \cup
            (IF \E f \in 1 .. depth' : import'[f] THEN {Imported} ELSE {})

\* A file is included, or imported.
Enter(how) ==
  /\ Visible(Here)
  /\ depth < MaxFiles
  /\ depth' = depth + 1
  /\ conds' = [conds EXCEPT ![depth + 1] = Empty]
  /\ import' = [import EXCEPT ![depth + 1] = how]
  /\ Announce

\* The end of an included file, whatever conditionals are open in it.
Leave ==
  /\ depth > 1
  /\ depth' = depth - 1
  /\ conds' = [conds EXCEPT ![depth] = Empty]
  /\ import' = [import EXCEPT ![depth] = FALSE]
  /\ Announce

Next ==
  \/ \E v \in BOOLEAN : Open(v) \/ Branch(v) \/ Enter(v)
  \/ \E x \in Names : Define(x) \/ Undef(x)
  \/ Close
  \/ Leave

Spec == Init /\ [][Next]_vars
=============================================================================
