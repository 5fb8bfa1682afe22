---------------------------- MODULE MCDohObjects ----------------------------
(* Three objects are enough for a container in a container, a cycle of two,  *)
(* and a value that depends on the value it replaces.                        *)
EXTENDS DohObjects
=============================================================================
