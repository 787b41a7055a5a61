--------------------------- MODULE CutoverMachine ---------------------------
(***************************************************************************)
(* What the cutover of a mapping promises to be: a state that is created   *)
(* once, in PREPARING, and then changes only along VALID_TRANSITIONS       *)
(* (packages/core/src/cutover-state.ts).  "none" is a mapping that has no  *)
(* cutover row.                                                            *)
(***************************************************************************)

VARIABLE state

States == {"PREPARING", "READY_FOR_CUTOVER", "APPROVED", "CUTOVER_IN_PROGRESS",
           "GRACE_PERIOD", "COMPLETED", "ROLLED_BACK", "FAILED"}

VALID_TRANSITIONS ==
    [PREPARING |-> {"READY_FOR_CUTOVER", "FAILED"},
     READY_FOR_CUTOVER |-> {"APPROVED", "PREPARING", "FAILED"},
     APPROVED |-> {"CUTOVER_IN_PROGRESS", "READY_FOR_CUTOVER", "FAILED", "ROLLED_BACK"},
     CUTOVER_IN_PROGRESS |-> {"GRACE_PERIOD", "FAILED", "ROLLED_BACK"},
     GRACE_PERIOD |-> {"COMPLETED", "ROLLED_BACK", "FAILED"},
     COMPLETED |-> {},
     ROLLED_BACK |-> {},
     FAILED |-> {"PREPARING", "ROLLED_BACK"}]

\* A variant that would let `execute` be repeated, or skip an approval.
isValidTransitionLoose(from, to) ==
    /\ from \in States
    /\ \/ to \in VALID_TRANSITIONS[from]
       \/ to = "CUTOVER_IN_PROGRESS" /\ from \in {"READY_FOR_CUTOVER", "CUTOVER_IN_PROGRESS"}

isValidTransition(from, to) == from \in States /\ to \in VALID_TRANSITIONS[from]

MachineInit == state = "none"

MachineNext ==
    \/ state = "none" /\ state' = "PREPARING"
    \/ isValidTransition(state, state')

MachineSpec == MachineInit /\ [][MachineNext]_state
=============================================================================
