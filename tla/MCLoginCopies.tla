--------------------------- MODULE MCLoginCopies ---------------------------
(* Small instances of LoginCopies for TLC. *)
EXTENDS LoginCopies, TLC
CONSTANTS a, b, c
Symmetric == Permutations({a, b, c})

=============================================================================
