---------------------------- MODULE MCTypeSearch ----------------------------
(* TypeSearch on every list of one or two sorted tables of up to four types. *)
EXTENDS TypeSearch

MCNames == 1 .. 5
=============================================================================
