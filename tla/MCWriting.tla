----------------------------- MODULE MCWriting ------------------------------
(***************************************************************************)
(* Small instances of Writing.                                             *)
(***************************************************************************)
EXTENDS Writing, TLC

CONSTANTS k1, k2

Symmetric == Permutations(Keys)
=============================================================================
