----------------------------- MODULE SyncService -----------------------------
(***************************************************************************)
(* The managed service around the passes of one tenant: the minute tick    *)
(* that enqueues them (apps/worker/src/jobs/managed-sync-tick.ts), the     *)
(* requests that start, finish or run a mapping, the two jobs that open a  *)
(* run row and do the passes (run-delta-sync.ts, run-full-sync.ts), the    *)
(* orchestrator that queues, retries and cancels them, workers that die,   *)
(* and the end of the service: closing, reopening, and the hourly job that *)
(* stops what still runs and erases the tenant (managed-purge-closed.ts,   *)
(* packages/managed/src/offboarding.ts, packages/shared/src/quiesce.ts).   *)
(*                                                                         *)
(* A pass is a step here; DomainSync models what happens inside one.       *)
(***************************************************************************)
EXTENDS Integers

CONSTANTS
    Mappings,
    Domains,
    Scope,         \* the domains each mapping has selected
    Jobs,          \* runs the orchestrator keeps at once
    Rows,          \* rows of the run table that are kept apart
    None,
    MaxAttempts,   \* maxAttempts of trigger.config.ts
    DuringPurge,   \* the owner may also act between the steps of an erasure
    MaxManual, MaxDeaths, MaxCloses   \* bounds on what people and machines do

ASSUME ServiceAssumption ==
    /\ Scope \in [Mappings -> SUBSET Domains]
    /\ None \notin Mappings \cup Jobs \cup Rows
    /\ MaxAttempts \in Nat \ {0}
    /\ DuringPurge \in BOOLEAN
    /\ {MaxManual, MaxDeaths, MaxCloses} \subseteq Nat

VARIABLES
    tenant,    \* tenant.status; "gone" once its rows are deleted
    closure,   \* tenant_closure: no row, a date to come, or one that has passed
    record,    \* what the latest row of erasure_record says
    mapping,   \* mailbox_mapping.status
    due,       \* the cron of the mapping has fired since its last run started
    job,       \* what the orchestrator knows, and where the code of the job is
    run,       \* the run table
    tick,      \* mappings the tick has found due and not yet enqueued
    purge,     \* the hourly erasure job
    used       \* what the environment has spent of its bounds

vars == <<tenant, closure, record, mapping, due, job, run, tick, purge, used>>

-----------------------------------------------------------------------------
(* Jobs, rows and what they are made of.                                   *)

Kinds == {"delta", "full"}

\* `keyed`: triggered with concurrencyKey, the mapping's own lane of the queue.
Job == [state: {"over", "queued", "executing"},
        kind: Kinds, mapping: Mappings \cup {None}, keyed: BOOLEAN,
        attempt: 1 .. MaxAttempts,
        at: {"open", "pass"}, row: Rows \cup {None}, left: SUBSET Domains,
        cancelled: BOOLEAN]

NoJob == [state |-> "over", kind |-> "delta", mapping |-> None, keyed |-> FALSE,
          attempt |-> 1, at |-> "open", row |-> None, left |-> {},
          cancelled |-> FALSE]

\* A row of the run table, forgotten once it has an outcome.  A row without a job
\* was written before handles were recorded; `old`: past DEFAULT_STALE_AFTER_MS.
Run == [status: {"none", "running"}, mapping: Mappings \cup {None},
        job: Jobs \cup {None}, old: BOOLEAN]

NoRun == [status |-> "none", mapping |-> None, job |-> None, old |-> FALSE]
Legacy(m) == [status |-> "running", mapping |-> m, job |-> None, old |-> FALSE]

Verdicts == {"unasked", "live", "finished", "unknown"}

\* `live`: the rows it has read, `ref`: their handles as it read them.
Purge == [at: {"idle", "due", "ask", "erase"}, live: SUBSET Rows,
          ref: [Rows -> Jobs \cup {None}], verdict: [Rows -> Verdicts]]

NoPurge == [at |-> "idle", live |-> {}, ref |-> [r \in Rows |-> None],
            verdict |-> [r \in Rows |-> "unasked"]]

ServiceTypeOK ==
    /\ tenant \in {"active", "closed", "gone"}
    /\ closure \in {"none", "closed", "due"}
    /\ record \in {"none", "asked", "withdrawn", "done"}
    /\ mapping \in [Mappings -> {"paused", "active", "done", "gone"}]
    /\ due \in [Mappings -> BOOLEAN]
    /\ job \in [Jobs -> Job]
    /\ run \in [Rows -> Run]
    /\ tick \subseteq Mappings
    /\ purge \in Purge
    /\ used \in [manual: Nat, deaths: Nat, closes: Nat]

ServiceInit ==
    /\ tenant = "active" /\ closure = "none" /\ record = "none"
    /\ mapping = [m \in Mappings |-> "paused"]
    /\ due = [m \in Mappings |-> TRUE]
    /\ job = [j \in Jobs |-> NoJob]
    /\ \E old \in {NoRun} \cup {Legacy(m) : m \in Mappings} :
          run = [[r \in Rows |-> NoRun] EXCEPT ![CHOOSE q \in Rows : TRUE] = old]
    /\ tick = {}
    /\ purge = NoPurge
    /\ used = [manual |-> 0, deaths |-> 0, closes |-> 0]

\* No row of scope_selection means not selected, never everything.
enabledDomains(m) == Scope[m]

Running(r) == run[r].status = "running"
HasRunning(m) == \E r \in Rows : Running(r) /\ run[r].mapping = m

\* A job slot can be used again once no row asks about the run it held.
Forgotten(j) ==
    /\ job[j].state = "over"
    /\ \A r \in Rows : Running(r) => run[r].job # j
    /\ \A r \in purge.live : purge.ref[r] # j

FreeRow(r) == ~Running(r) /\ r \notin purge.live

Live(j) == job[j].state \in {"queued", "executing"}
Passing(j) == job[j].state = "executing" /\ job[j].at = "pass"

Spend(what, bound) ==
    /\ used[what] < bound
    /\ used' = [used EXCEPT ![what] = @ + 1]

\* People do not act on the account while it is being erased, unless DuringPurge.
OwnerActs == purge.at = "idle" \/ DuringPurge

-----------------------------------------------------------------------------
(* What enqueues a pass.                                                   *)

\* Which slot a run gets says nothing, so it is the first.
Enqueue(m, kind, keyed) ==
    /\ \E j \in Jobs : Forgotten(j)
    /\ LET j == CHOOSE i \in Jobs : Forgotten(i)
       IN job' = [job EXCEPT ![j] = [NoJob EXCEPT !.state = "queued", !.kind = kind,
                                                   !.mapping = m, !.keyed = keyed]]

\* A variant of isSyncDue that looks for the next time after now.
CronFiresNever(m) ==
    /\ FALSE
    /\ UNCHANGED vars

\* isSyncDue turns true again: the schedule's next time after the last start is past.
CronFires(m) ==
    /\ ~due[m]
    /\ due' = [due EXCEPT ![m] = TRUE]
    /\ UNCHANGED <<tenant, closure, record, mapping, job, run, tick, purge, used>>

\* Phases 1 and 2 of the tick, over one query.  Ticks do not overlap.
TickRead ==
    /\ tick = {}
    /\ tick' = {m \in Mappings : /\ mapping[m] = "active" /\ ~HasRunning(m)
                                 /\ due[m] /\ enabledDomains(m) # {}}
    /\ tick' # {}
    /\ UNCHANGED <<tenant, closure, record, mapping, due, job, run, purge, used>>

\* Phase 3: what was read may be out of date by now.
TickEnqueue(m) ==
    /\ m \in tick
    /\ tick' = tick \ {m}
    /\ Enqueue(m, "delta", TRUE)
    /\ UNCHANGED <<tenant, closure, record, mapping, due, run, purge, used>>

TickEnqueueFails(m) ==
    /\ m \in tick
    /\ tick' = tick \ {m}
    /\ UNCHANGED <<tenant, closure, record, mapping, due, job, run, purge, used>>

\* POST /start: only the transition into 'active' also runs a first pass, and a
\* failure to enqueue it does not undo the start.
StartMapping(m) ==
    /\ OwnerActs
    /\ mapping[m] = "paused"
    /\ mapping' = [mapping EXCEPT ![m] = "active"]
    /\ Enqueue(m, "delta", TRUE) \/ UNCHANGED job
    /\ UNCHANGED <<tenant, closure, record, due, run, tick, purge, used>>

\* POST /sync: refused for a paused mapping only; the trigger names no concurrencyKey.
SyncNow(m, kind) ==
    /\ OwnerActs
    /\ mapping[m] \in {"active", "done"}
    /\ Spend("manual", MaxManual)
    /\ Enqueue(m, kind, FALSE)
    /\ UNCHANGED <<tenant, closure, record, mapping, due, run, tick, purge>>

\* POST /finish, forced when failures are unresolved.
FinishMapping(m) ==
    /\ OwnerActs
    /\ mapping[m] = "active"
    /\ mapping' = [mapping EXCEPT ![m] = "done"]
    /\ UNCHANGED <<tenant, closure, record, due, job, run, tick, purge, used>>

-----------------------------------------------------------------------------
(* The orchestrator and the jobs.                                          *)

\* A variant with the lanes the wrong way round.
SameLaneOfOthers(j, i) ==
    /\ job[j].kind = "delta" /\ job[i].kind = "delta"
    /\ job[j].keyed = job[i].keyed
    /\ job[j].keyed => job[j].mapping # job[i].mapping

\* The queue of run-delta-sync has concurrencyLimit 1 in each lane: one lane per
\* concurrencyKey and one for runs that have none.  run-full-sync has no queue.
SameLane(j, i) ==
    /\ job[j].kind = "delta" /\ job[i].kind = "delta"
    /\ job[j].keyed = job[i].keyed
    /\ job[j].keyed => job[j].mapping = job[i].mapping

StartAttempt(j) ==
    /\ job[j].state = "queued" /\ ~job[j].cancelled
    /\ \A i \in Jobs \ {j} : job[i].state = "executing" => ~SameLane(i, j)
    /\ job' = [job EXCEPT ![j] = [@ EXCEPT !.state = "executing", !.at = "open"]]
    /\ UNCHANGED <<tenant, closure, record, mapping, due, run, tick, purge, used>>

\* A variant with one attempt too many.
RetriedOnceMore(b) ==
    IF b.attempt <= MaxAttempts /\ ~b.cancelled
    THEN [b EXCEPT !.state = "queued", !.attempt = @ + 1, !.at = "open", !.row = None,
                   !.left = {}]
    ELSE NoJob

\* The job once an attempt has failed: tried again, or over.
Retried(b) ==
    IF b.attempt < MaxAttempts /\ ~b.cancelled
    THEN [b EXCEPT !.state = "queued", !.attempt = @ + 1, !.at = "open", !.row = None,
                   !.left = {}]
    ELSE NoJob

\* A variant without the foreign key.
OpenRowUnreferenced(j, r) ==
    /\ job[j].state = "executing" /\ job[j].at = "open"
    /\ FreeRow(r) /\ r = CHOOSE q \in Rows : FreeRow(q)
    /\ run' = [run EXCEPT ![r] = [status |-> "running", mapping |-> job[j].mapping,
                                  job |-> j, old |-> FALSE]]
    /\ due' = [due EXCEPT ![job[j].mapping] = FALSE]
    /\ job' = [job EXCEPT ![j] = [@ EXCEPT !.at = "pass", !.row = r, !.left = {}]]
    /\ UNCHANGED <<tenant, closure, record, mapping, tick, purge, used>>

\* startRun: the row that makes the run visible.  The rows of the mapping and of the
\* tenant must exist, or the INSERT is refused.
OpenRow(j, r) ==
    /\ job[j].state = "executing" /\ job[j].at = "open"
    /\ tenant # "gone"
    /\ FreeRow(r) /\ r = CHOOSE q \in Rows : FreeRow(q)
    /\ run' = [run EXCEPT ![r] = [status |-> "running", mapping |-> job[j].mapping,
                                  job |-> j, old |-> FALSE]]
    /\ due' = [due EXCEPT ![job[j].mapping] = FALSE]
    /\ job' = [job EXCEPT ![j] = [@ EXCEPT !.at = "pass", !.row = r,
                    !.left = IF job[j].kind = "full" THEN {} ELSE enabledDomains(job[j].mapping)]]
    /\ UNCHANGED <<tenant, closure, record, mapping, tick, purge, used>>

RowRefused(j) ==
    /\ job[j].state = "executing" /\ job[j].at = "open"
    /\ tenant = "gone"
    /\ job' = [job EXCEPT ![j] = Retried(@)]
    /\ UNCHANGED <<tenant, closure, record, mapping, due, run, tick, purge, used>>

\* The domains are run one after the other.
RunDomain(j, d) ==
    /\ Passing(j) /\ tenant # "gone"
    /\ d \in job[j].left
    /\ job' = [job EXCEPT ![j].left = @ \ {d}]
    /\ UNCHANGED <<tenant, closure, record, mapping, due, run, tick, purge, used>>

\* finishRun: the row has an outcome.
CloseRow(r) == [run EXCEPT ![r] = NoRun]

SucceedRun(j) ==
    /\ Passing(j) /\ tenant # "gone"
    /\ job[j].left = {}
    /\ run' = CloseRow(job[j].row)
    /\ job' = [job EXCEPT ![j] = NoJob]
    /\ UNCHANGED <<tenant, closure, record, mapping, due, tick, purge, used>>

\* A pass throws: the domains after it are not run, the row is closed as failed and
\* the orchestrator retries.  With the tenant's rows gone every statement of the
\* job is refused or changes nothing.
FailRun(j) ==
    /\ Passing(j)
    /\ job[j].left # {} \/ job[j].kind = "full" \/ tenant = "gone"
    /\ run' = IF tenant = "gone" THEN run ELSE CloseRow(job[j].row)
    /\ job' = [job EXCEPT ![j] = Retried(@)]
    /\ UNCHANGED <<tenant, closure, record, mapping, due, tick, purge, used>>

\* The worker is killed, the bookkeeping after a failure fails too, or a full sync
\* cannot build its connectors: the attempt is over and its row still says running.
LoseRun(j) ==
    /\ job[j].state = "executing"
    /\ Spend("deaths", MaxDeaths)
    /\ job' = [job EXCEPT ![j] = Retried(@)]
    /\ UNCHANGED <<tenant, closure, record, mapping, due, run, tick, purge>>

\* A cancelled run ends where it is.
Cancelled(j) ==
    /\ Live(j) /\ job[j].cancelled
    /\ job' = [job EXCEPT ![j] = NoJob]
    /\ UNCHANGED <<tenant, closure, record, mapping, due, run, tick, purge, used>>

-----------------------------------------------------------------------------
(* Ending the service.                                                     *)

\* runs.cancel on the runs of these rows; cancelling twice, or too late, does nothing.
AskToStop(refs) ==
    [j \in Jobs |-> IF Live(j) /\ j \in refs
                    THEN [job[j] EXCEPT !.cancelled = TRUE] ELSE job[j]]

\* One transaction: the status, the dates (moved when there are any), the record.
closeTenant(window) ==
    /\ tenant # "gone"
    /\ tenant' = "closed"
    /\ closure' = window
    /\ record' = "asked"

\* Deleting the closure row is the reopen, while its date is still to come.
reopenTenant ==
    /\ closure = "closed"
    /\ closure' = "none"
    /\ tenant' = IF tenant = "closed" THEN "active" ELSE tenant
    /\ record' = "withdrawn"

\* POST /close: closeTenant, then stopPassesInFlight on a best effort.
CloseTenant(window) ==
    /\ OwnerActs
    /\ Spend("closes", MaxCloses)
    /\ closeTenant(window)
    /\ \E asked \in {{}, {run[r].job : r \in Rows}} : job' = AskToStop(asked)
    /\ UNCHANGED <<mapping, due, run, tick, purge>>

ReopenTenant ==
    /\ OwnerActs
    /\ reopenTenant
    /\ UNCHANGED <<mapping, due, job, run, tick, purge, used>>

\* purge_after passes.
WindowPasses ==
    /\ closure = "closed"
    /\ closure' = "due"
    /\ UNCHANGED <<tenant, record, mapping, due, job, run, tick, purge, used>>

\* A row has said running for longer than DEFAULT_STALE_AFTER_MS.
RowAges(r) ==
    /\ Running(r) /\ run[r].job = None /\ ~run[r].old
    /\ run' = [run EXCEPT ![r].old = TRUE]
    /\ UNCHANGED <<tenant, closure, record, mapping, due, job, tick, purge, used>>

\* A variant that trusts the status and not the date.
PurgeDueUndated ==
    /\ purge.at = "idle"
    /\ tenant = "closed"
    /\ purge' = [purge EXCEPT !.at = "due"]
    /\ UNCHANGED <<tenant, closure, record, mapping, due, job, run, tick, used>>

\* The query for tenants whose window has run out.
PurgeDue ==
    /\ purge.at = "idle"
    /\ tenant = "closed" /\ closure = "due"
    /\ purge' = [purge EXCEPT !.at = "due"]
    /\ UNCHANGED <<tenant, closure, record, mapping, due, job, run, tick, used>>

PurgeReadRuns ==
    /\ purge.at = "due"
    /\ purge' = [NoPurge EXCEPT !.at = "ask", !.live = {r \in Rows : Running(r)},
                                !.ref = [r \in Rows |-> run[r].job]]
    /\ UNCHANGED <<tenant, closure, record, mapping, due, job, run, tick, used>>

\* verdictsFor: what the orchestrator says of the run behind a row, when asked.
Verdict(r) ==
    IF purge.ref[r] = None THEN "unknown"
    ELSE IF Live(purge.ref[r]) THEN "live" ELSE "finished"

PurgeAsk(r) ==
    /\ purge.at = "ask" /\ r \in purge.live
    /\ purge.verdict[r] = "unasked"
    /\ purge' = [purge EXCEPT !.verdict[r] = Verdict(r)]
    /\ UNCHANGED <<tenant, closure, record, mapping, due, job, run, tick, used>>

PurgeCannotAsk(r) ==
    /\ purge.at = "ask" /\ r \in purge.live
    /\ purge.verdict[r] = "unasked"
    /\ purge' = [purge EXCEPT !.verdict[r] = "unknown"]
    /\ UNCHANGED <<tenant, closure, record, mapping, due, job, run, tick, used>>

\* quiescePlan.
\* A variant that lands every row the orchestrator does not call live.
landStaleUnlessLive == {r \in purge.live : purge.verdict[r] # "live"}

\* A variant that lands nothing the orchestrator has an opinion about.
landStaleByAge == {r \in purge.live : /\ purge.verdict[r] = "unknown"
                                      /\ purge.ref[r] = None /\ run[r].old}

landStale == {r \in purge.live :
                 \/ purge.verdict[r] = "finished"
                 \/ purge.verdict[r] = "unknown" /\ purge.ref[r] = None /\ run[r].old}
blockedBy == purge.live \ landStale
toCancel == {purge.ref[r] : r \in {q \in purge.live : purge.verdict[q] = "live"}}

\* The plan is carried out, and the tenant skipped unless nothing blocks it.
PurgeQuiesce ==
    /\ purge.at = "ask"
    /\ \A r \in purge.live : purge.verdict[r] # "unasked"
    /\ job' = AskToStop(toCancel)
    /\ run' = [r \in Rows |-> IF r \in landStale
                              THEN NoRun ELSE run[r]]
    /\ purge' = IF blockedBy = {} THEN [NoPurge EXCEPT !.at = "erase"] ELSE NoPurge
    /\ UNCHANGED <<tenant, closure, record, mapping, due, tick, used>>

\* Credentials are revoked, then one transaction: status 'deleting', every table
\* of PURGED_TABLES, the tenant, and the record of the erasure.
PurgeErase ==
    /\ purge.at = "erase"
    /\ tenant' = "gone"
    /\ closure' = "none"
    /\ record' = "done"
    /\ mapping' = [m \in Mappings |-> "gone"]
    /\ run' = [r \in Rows |-> NoRun]
    /\ purge' = NoPurge
    /\ UNCHANGED <<due, job, tick, used>>

\* ... or it fails and is rolled back.
PurgeRollsBack ==
    /\ purge.at = "erase"
    /\ purge' = NoPurge
    /\ UNCHANGED <<tenant, closure, record, mapping, due, job, run, tick, used>>

-----------------------------------------------------------------------------
(* The specification.                                                      *)

TickStep == TickRead \/ \E m \in Mappings : TickEnqueue(m) \/ TickEnqueueFails(m)

OwnerStep ==
    \/ \E m \in Mappings : StartMapping(m) \/ FinishMapping(m)
    \/ \E m \in Mappings, kind \in Kinds : SyncNow(m, kind)
    \/ \E window \in {"closed", "due"} : CloseTenant(window)
    \/ ReopenTenant

JobProgress(j) ==
    \/ RowRefused(j) \/ SucceedRun(j) \/ FailRun(j)
    \/ \E d \in Domains : RunDomain(j, d)
    \/ \E r \in Rows : OpenRow(j, r)

JobStep == \E j \in Jobs : StartAttempt(j) \/ JobProgress(j) \/ LoseRun(j) \/ Cancelled(j)

PurgeStep ==
    \/ PurgeDue \/ PurgeReadRuns \/ PurgeQuiesce \/ PurgeErase \/ PurgeRollsBack
    \/ \E r \in Rows : PurgeAsk(r) \/ PurgeCannotAsk(r)

TimePasses ==
    \/ WindowPasses
    \/ \E m \in Mappings : CronFires(m)
    \/ \E r \in Rows : RowAges(r)

ServiceNext == TickStep \/ OwnerStep \/ JobStep \/ PurgeStep \/ TimePasses

\* Cron jobs run again and again; the orchestrator starts what it can and every
\* attempt ends; time passes; what may fail does not fail for ever (an enqueue, a
\* question to the orchestrator, the erasure's transaction).
ServiceFairness ==
    /\ WF_vars(TickRead)
    /\ \A m \in Mappings : WF_vars(CronFires(m)) /\ SF_vars(TickEnqueue(m))
    /\ \A j \in Jobs : SF_vars(StartAttempt(j)) /\ WF_vars(JobProgress(j) \/ Cancelled(j))
    /\ \A r \in Rows : WF_vars(RowAges(r)) /\ SF_vars(PurgeAsk(r))
    /\ WF_vars(PurgeDue \/ PurgeReadRuns \/ PurgeQuiesce)
    /\ SF_vars(PurgeErase)

ServiceSpec == ServiceInit /\ [][ServiceNext]_vars /\ ServiceFairness

-----------------------------------------------------------------------------
(* What the service promises.                                              *)

\* The account's owner sees exactly the life that closing promises: the service
\* can be taken up again until the window has run out, and nothing is erased
\* before (offboarding.ts, managed-purge-closed.ts).
Promise == INSTANCE TenantLife WITH
    life <- IF tenant = "gone" THEN "erased"
            ELSE IF tenant = "active" THEN "serving" ELSE closure
KeepsPromise == Promise!LifeSpec

\* The lanes of the queue keep the passes that the tick and the start of a mapping
\* enqueue apart: of two delta runs of a mapping at work at once, one was asked
\* for by hand (managed-sync-tick.ts: "even a tick/start race serializes").
ScheduledRunsSerialize ==
    \A i, j \in Jobs :
        /\ i # j /\ Passing(i) /\ Passing(j)
        /\ job[i].mapping = job[j].mapping
        /\ job[i].kind = "delta" /\ job[j].kind = "delta"
        => ~job[i].keyed \/ ~job[j].keyed

\* ... and by hand too (run-delta-sync.ts: "one running delta sync per mapping,
\* ever").
OneDeltaPerMapping ==
    \A i, j \in Jobs :
        /\ i # j /\ Passing(i) /\ Passing(j)
        /\ job[i].kind = "delta" /\ job[j].kind = "delta"
        => job[i].mapping # job[j].mapping

\* A pass that is at work has a row that says so, which is what the tick and the
\* erasure go by; no erasure has landed it in the meantime.
WorkIsVisible ==
    \A j \in Jobs : Passing(j) /\ tenant # "gone" => /\ Running(job[j].row)
                                                     /\ run[job[j].row].job = j

\* A tenant is not erased under a pass (quiesce.ts: "the purge must never run under
\* a live pass").
NoPassOverErased == tenant = "gone" => \A j \in Jobs : ~Passing(j)

\* What is erased stays erased: no job that was still queued brings a row back, and
\* the record says it was done.
ErasedForGood ==
    tenant = "gone" => /\ record = "done" /\ closure = "none"
                       /\ \A r \in Rows : run[r] = NoRun
                       /\ \A m \in Mappings : mapping[m] = "gone"

\* A closed account past its window is erased in the end, whatever a dead worker
\* left in the run table, once nothing schedules new passes for it.
ErasureOwed ==
    /\ tenant = "closed" /\ closure = "due"
    /\ \A m \in Mappings : mapping[m] # "active"
ErasureHappens == []<>~ErasureOwed

\* A row whose run is over: nobody will ever close it while the tenant is served.
Abandoned(m) ==
    \E r \in Rows : Running(r) /\ run[r].mapping = m /\ (run[r].job = None \/ ~Live(run[r].job))

\* An active mapping with something to sync is never left without a pass, unless a
\* row that a dead worker left behind hides it from the tick.
LeftBehind(m) ==
    /\ mapping[m] = "active" /\ Scope[m] # {} /\ ~Abandoned(m)
    /\ \A j \in Jobs : ~(Live(j) /\ job[j].mapping = m)
ActiveKeepsSyncing == \A m \in Mappings : []<>~LeftBehind(m)
=============================================================================
