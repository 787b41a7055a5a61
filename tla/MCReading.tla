----------------------------- MODULE MCReading ------------------------------
(***************************************************************************)
(* Small instances of Reading: two items, one of which may be odd.         *)
(***************************************************************************)
EXTENDS Reading, TLC

CONSTANTS i1, i2

Shallow == [i \in Items |-> 1]
Nested == (i1 :> 2) @@ (i2 :> 1)
=============================================================================
