---------------------------- MODULE MCUserFiles ----------------------------
(* Small instances of UserFiles for TLC. *)
EXTENDS UserFiles
CONSTANTS s, e, w, u, v, i
Started == {[value |-> u, list |-> {i}]}
=============================================================================
