----------------------------- MODULE MCService ------------------------------
(***************************************************************************)
(* Small instance of SyncService: one mapping, two runs at once.           *)
(***************************************************************************)
EXTENDS SyncService

CONSTANTS m1, j1, j2, r1, r2

OneDomain == [m \in Mappings |-> Domains]
=============================================================================
