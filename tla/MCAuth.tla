------------------------------ MODULE MCAuth ------------------------------
(* Small instances of AuthStore. *)
EXTENDS AuthStore, TLC

SymRoots == Permutations(Roots)
=============================================================================
