------------------------------ MODULE MCApply -------------------------------
(***************************************************************************)
(* Small instances of ApplyRemoval: two file paths in one folder, a source *)
(* with a bin, and one or two apply jobs.                                  *)
(***************************************************************************)
EXTENDS ApplyRemoval, TLC

CONSTANTS k1, k2, c1, b1, b2, j1, j2

OneFolderPlaces == {<<c1, k1>>, <<c1, k2>>}

\* Paths, contents and jobs are interchangeable.
Interchangeable ==
    Permutations({k1, k2}) \cup Permutations({b1, b2}) \cup Permutations({j1, j2})
=============================================================================
