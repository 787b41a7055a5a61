------------------------------ MODULE MCPeople ------------------------------
(***************************************************************************)
(* What people decide about an organisation and a migration: who may act   *)
(* for it (Accounts) and when its traffic is switched (Cutover).  The two  *)
(* share no state, so they are explored side by side and not in product:   *)
(* about says which one a behaviour is about, and the other rests in an    *)
(* initial state.                                                          *)
(***************************************************************************)
EXTENDS Accounts, Cutover, TLC

VARIABLE about

\* Requests and commands under way are interchangeable.
Interchangeable == Permutations(Handlers) \cup Permutations(Procs)

PeopleInit ==
    /\ about \in {"accounts", "cutover"}
    /\ AccountsInit
    /\ CutoverInit /\ (about = "cutover" \/ mapping = "active")

OnAccounts == about = "accounts" /\ AccountsNext /\ UNCHANGED vars
OnCutover == about = "cutover" /\ CutoverNext /\ UNCHANGED accountsVars

PeopleNext == (OnAccounts \/ OnCutover) /\ UNCHANGED about

PeopleSpec == PeopleInit /\ [][PeopleNext]_<<about, accountsVars, vars>>
=============================================================================
