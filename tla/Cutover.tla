------------------------------- MODULE Cutover -------------------------------
(***************************************************************************)
(* The cutover of one mapping: CutoverStore (packages/ledger/src/          *)
(* cutover-store.ts), the operator's commands (apps/worker/src/cli/        *)
(* cutover-commands.ts) and the two jobs that drive it (run-cutover.ts,    *)
(* run-rollback.ts).                                                       *)
(*                                                                         *)
(* A transition is a load, a check, an INSERT of the event and an          *)
(* unconditional upsert of the row, with nothing that keeps two of them    *)
(* apart; a command first looks at the row itself and may wait for minutes *)
(* (the gate, DNS) between its own transitions.  Overlapping says whether  *)
(* the load and the writes of one may be separated by another.             *)
(***************************************************************************)
EXTENDS CutoverMachine

CONSTANTS
    Procs,        \* invocations that can be under way at once
    Overlapping   \* their transitions may overlap, as they may in the code

ASSUME CutoverAssumption == Overlapping \in BOOLEAN

VARIABLES
    mapping,    \* mailbox_mapping.status
    lastEvent,  \* the newest row of cutover_event: from and to
    granted,    \* the operator has approved since the latest verdict
    proc        \* the invocations

vars == <<state, mapping, lastEvent, granted, proc>>

Commands == {"start", "verify", "approve", "execute", "complete", "rollback",
             "run-cutover", "run-rollback"}
Lifecycles == {"paused", "active", "cutover", "done"}

Idle == [cmd |-> "start", at |-> "idle", read |-> "none", goal |-> "PREPARING"]
Proc == [cmd: Commands,
         at: {"idle", "insert", "announce", "gate", "reactivate", "validate", "log",
              "save", "dns"},
         read: States \cup {"none"}, goal: States]

CutoverTypeOK ==
    /\ state \in States \cup {"none"}
    /\ mapping \in Lifecycles
    /\ lastEvent \in (States \cup {"none"}) \X (States \cup {"none"})
    /\ granted \in BOOLEAN
    /\ proc \in [Procs -> Proc]

CutoverInit ==
    /\ MachineInit
    /\ mapping \in Lifecycles
    /\ lastEvent = <<"none", "none">>
    /\ granted = FALSE
    /\ proc = [p \in Procs |-> Idle]

-----------------------------------------------------------------------------
(* The store.                                                              *)

\* Between a load that writes are based on and the last of those writes.
InTransition(p) == proc[p].at \in {"insert", "announce", "log", "save"}
MayLoad(p) == Overlapping \/ \A q \in Procs \ {p} : ~InTransition(q)

Ends(p) == proc' = [proc EXCEPT ![p] = Idle]
Goes(p, at) == proc' = [proc EXCEPT ![p].at = at]
Seeks(p, goal) == proc' = [proc EXCEPT ![p].at = "validate", ![p].goal = goal]

\* Only the jobs catch what they throw, and try to record it.
Throws(p) ==
    IF proc[p].cmd \in {"run-cutover", "run-rollback"} /\ proc[p].goal # "FAILED"
    THEN Seeks(p, "FAILED") ELSE Ends(p)

\* What `start` and `run-cutover` do once there is a cutover.
Initialized(p, cmd) ==
    proc' = [proc EXCEPT ![p] =
                IF cmd = "start" THEN Idle ELSE [Idle EXCEPT !.cmd = cmd, !.at = "gate"]]

\* initializeCutover: an existing cutover is returned as it is, ...
initializeCutover(p, cmd) ==
    /\ proc[p].at = "idle" /\ cmd \in {"start", "run-cutover"}
    /\ MayLoad(p)
    /\ IF state # "none" THEN Initialized(p, cmd)
       ELSE proc' = [proc EXCEPT ![p] = [Idle EXCEPT !.cmd = cmd, !.at = "insert"]]
    /\ UNCHANGED <<state, mapping, lastEvent, granted>>

\* ... otherwise it is saved first and logged afterwards.
InsertInitial(p) ==
    /\ proc[p].at = "insert"
    /\ state' = "PREPARING"
    /\ Goes(p, "announce")
    /\ UNCHANGED <<mapping, lastEvent, granted>>

AnnounceInitial(p) ==
    /\ proc[p].at = "announce"
    /\ lastEvent' = <<"none", "PREPARING">>
    /\ Initialized(p, proc[p].cmd)
    /\ UNCHANGED <<state, mapping, granted>>

\* A variant of transitionState that leaves the check to its callers.
transitionStateUnchecked(p) ==
    /\ proc[p].at = "validate"
    /\ MayLoad(p)
    /\ proc' = [proc EXCEPT ![p].at = "log", ![p].read = state]
    /\ UNCHANGED <<state, mapping, lastEvent, granted>>

\* transitionState: load and check, ...
transitionState(p) ==
    /\ proc[p].at = "validate"
    /\ MayLoad(p)
    /\ IF isValidTransition(state, proc[p].goal)
       THEN proc' = [proc EXCEPT ![p].at = "log", ![p].read = state]
       ELSE Throws(p)
    /\ UNCHANGED <<state, mapping, lastEvent, granted>>

\* A variant that logs the two states the wrong way round.
logCutoverEventSwapped(p) ==
    /\ proc[p].at = "log"
    /\ lastEvent' = <<proc[p].goal, proc[p].read>>
    /\ Goes(p, "save")
    /\ UNCHANGED <<state, mapping, granted>>

\* ... logCutoverEvent, ...
logCutoverEvent(p) ==
    /\ proc[p].at = "log"
    /\ lastEvent' = <<proc[p].read, proc[p].goal>>
    /\ Goes(p, "save")
    /\ UNCHANGED <<state, mapping, granted>>

\* ... saveCutoverState.  `execute` then waits for DNS; the others are done.
saveCutoverState(p) ==
    /\ proc[p].at = "save"
    /\ state' = proc[p].goal
    /\ granted' = CASE proc[p].goal = "APPROVED" -> TRUE
                    [] proc[p].goal = "READY_FOR_CUTOVER" -> FALSE
                    [] OTHER -> granted
    /\ IF proc[p].goal = "CUTOVER_IN_PROGRESS" THEN Goes(p, "dns") ELSE Ends(p)
    /\ UNCHANGED <<mapping, lastEvent>>

-----------------------------------------------------------------------------
(* The commands and the jobs.                                              *)

\* verifyCutover runs its checks before it looks at the state.
verifyCutover(p) ==
    /\ proc[p].at = "idle"
    /\ proc' = [proc EXCEPT ![p] = [Idle EXCEPT !.cmd = "verify", !.at = "gate"]]
    /\ UNCHANGED <<state, mapping, lastEvent, granted>>

\* The final sync and the gate: a failure ends `verify` and fails `run-cutover`;
\* `verify` advances a cutover in PREPARING only, `run-cutover` any.
Verdict(p, passed) ==
    /\ proc[p].at = "gate"
    /\ IF ~passed THEN Throws(p)
       ELSE IF proc[p].cmd = "verify" /\ state # "PREPARING" THEN Ends(p)
       ELSE Seeks(p, "READY_FOR_CUTOVER")
    /\ UNCHANGED <<state, mapping, lastEvent, granted>>

\* approveCutover, executeCutover and completeCutover, each from its one state;
\* rollbackCutover from whatever state there is.
Steps == [approve |-> <<"READY_FOR_CUTOVER", "APPROVED">>,
          execute |-> <<"APPROVED", "CUTOVER_IN_PROGRESS">>,
          complete |-> <<"GRACE_PERIOD", "COMPLETED">>]

OperatorCommand(p, cmd) ==
    /\ proc[p].at = "idle" /\ cmd \in DOMAIN Steps
    /\ state = Steps[cmd][1]
    /\ proc' = [proc EXCEPT ![p] = [cmd |-> cmd, at |-> "validate", read |-> "none",
                                    goal |-> Steps[cmd][2]]]
    /\ UNCHANGED <<state, mapping, lastEvent, granted>>

rollbackCutover(p) ==
    /\ proc[p].at = "idle" /\ state # "none"
    /\ proc' = [proc EXCEPT ![p] = [cmd |-> "rollback", at |-> "validate", read |-> "none",
                                    goal |-> "ROLLED_BACK"]]
    /\ UNCHANGED <<state, mapping, lastEvent, granted>>

\* checkPropagation answers, or gives up.
Propagation(p, confirmed) ==
    /\ proc[p].at = "dns"
    /\ Seeks(p, IF confirmed THEN "GRACE_PERIOD" ELSE "FAILED")
    /\ UNCHANGED <<state, mapping, lastEvent, granted>>

\* run-rollback reactivates the mapping before the state machine is asked.
runRollback(p) ==
    /\ proc[p].at = "idle" /\ state # "none"
    /\ proc' = [proc EXCEPT ![p] = [cmd |-> "run-rollback", at |-> "reactivate",
                                    read |-> "none", goal |-> "ROLLED_BACK"]]
    /\ UNCHANGED <<state, mapping, lastEvent, granted>>

\* A variant that stores a status the mapping's lifecycle does not have.
ReactivateAsRolledBack(p) ==
    /\ proc[p].at = "reactivate"
    /\ mapping' = "ROLLED_BACK"
    /\ Goes(p, "validate")
    /\ UNCHANGED <<state, lastEvent, granted>>

Reactivate(p) ==
    /\ proc[p].at = "reactivate"
    /\ mapping' = "active"
    /\ Goes(p, "validate")
    /\ UNCHANGED <<state, lastEvent, granted>>

\* The process is killed, wherever it is.
Killed(p) ==
    /\ proc[p].at # "idle"
    /\ Ends(p)
    /\ UNCHANGED <<state, mapping, lastEvent, granted>>

\* The API changes the lifecycle of the mapping.
LifecycleChange(status) ==
    /\ status # mapping
    /\ mapping' = status
    /\ UNCHANGED <<state, lastEvent, granted, proc>>

Begins(p) ==
    \/ \E cmd \in {"start", "run-cutover"} : initializeCutover(p, cmd)
    \/ verifyCutover(p) \/ rollbackCutover(p) \/ runRollback(p)
    \/ \E cmd \in {"approve", "execute", "complete"} : OperatorCommand(p, cmd)

GoesOn(p) ==
    \/ InsertInitial(p) \/ AnnounceInitial(p)
    \/ transitionState(p) \/ logCutoverEvent(p) \/ saveCutoverState(p)
    \/ \E passed \in BOOLEAN : Verdict(p, passed)
    \/ \E confirmed \in BOOLEAN : Propagation(p, confirmed)
    \/ Reactivate(p)

CutoverNext ==
    \/ \E p \in Procs : Begins(p) \/ GoesOn(p) \/ Killed(p)
    \/ \E status \in Lifecycles : LifecycleChange(status)

CutoverSpec == CutoverInit /\ [][CutoverNext]_vars

\* The operator follows the runbook: what has begun goes on, and the commands it
\* names for a retry are issued again and again, with checks that pass.
Persistence ==
    \A p \in Procs :
        /\ WF_vars(GoesOn(p))
        /\ SF_vars(verifyCutover(p)) /\ SF_vars(Verdict(p, TRUE))
        /\ \A cmd \in {"start", "run-cutover"} : SF_vars(initializeCutover(p, cmd))
        /\ \A cmd \in {"approve", "execute"} : SF_vars(OperatorCommand(p, cmd))

PersistentSpec == CutoverSpec /\ Persistence

-----------------------------------------------------------------------------
(* What the cutover promises.                                              *)

\* The row only ever moves along the state machine ("enforced by CutoverStore -
\* an invalid transition throws", docs/cutover-runbook.md).
ObeysMachine == MachineSpec

\* Traffic is switched, and the cutover closed, only under an approval given
\* after the latest verdict: the stale read of `execute` is caught by the store
\* when a preparation has revoked the approval since.
SwitchIsApproved ==
    state \in {"APPROVED", "CUTOVER_IN_PROGRESS", "GRACE_PERIOD", "COMPLETED"} => granted

\* Two executions never wait for DNS at once, even when both found the cutover
\* APPROVED before either had moved it.
OneExecution ==
    \A p, q \in Procs : proc[p].at = "dns" /\ proc[q].at = "dns" => p = q

\* Each change of the row after the first is the one the newest event announces:
\* no command can end with a state that the audit trail does not show.
ChangesAreAudited ==
    [][(state' # state /\ state # "none") => (lastEvent = <<state, state'>>)]_vars

\* COMPLETED and ROLLED_BACK are final: no command reports success and is then
\* undone by another.
TerminalStands ==
    [][(state \in {"COMPLETED", "ROLLED_BACK"}) => (state' = state)]_vars

\* A failed cutover can be retried: an operator who keeps re-running the commands
\* of the runbook gets it out of FAILED.
FailedCanBeRetried == state = "FAILED" ~> state # "FAILED"
=============================================================================
