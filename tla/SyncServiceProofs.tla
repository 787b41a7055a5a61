------------------------- MODULE SyncServiceProofs --------------------------
(***************************************************************************)
(* For any number of mappings, runs and rows: the service keeps what       *)
(* closing an account promises (KeepsPromise, the refinement of            *)
(* TenantLife), and a pass at work always has a row that says so           *)
(* (WorkIsVisible).                                                        *)
(*                                                                         *)
(* The refinement needs to know that an erasure under way finds the window *)
(* still run out (LifeInv), which is so as long as the owner does not act  *)
(* in between.  WorkIsVisible needs to know what the erasure job may still *)
(* believe of the rows it has read: a row it read is closed or still the   *)
(* same run's, and a run it was told is finished has not come back.        *)
(*                                                                         *)
(* The last part is about the appliance, which runs the domains of a pass  *)
(* in lanes: however the endpoints share hosts, domains at work at once    *)
(* have none in common (OneHostAtATime).  The plan of the lanes is a       *)
(* recursion over the domains, so that its lanes are apart is shown of the *)
(* first n domains, by the least n for which it might fail.                *)
(***************************************************************************)
EXTENDS SyncService, Appliance, WellFoundedInduction, TLAPS

-----------------------------------------------------------------------------
(* Types.                                                                  *)

\* A run that is not over was enqueued for a mapping.
Assigned == \A j \in Jobs : job[j].state # "over" => job[j].mapping \in Mappings

\* The records that stand for nothing have their types.
LEMMA Blank == NoJob \in Job /\ NoRun \in Run /\ NoPurge \in Purge
  BY ServiceAssumption DEF NoJob, NoRun, NoPurge, Job, Run, Purge, Kinds, Verdicts

LEMMA TypesInitially == ServiceInit => ServiceTypeOK
  <1> SUFFICES ASSUME ServiceInit PROVE ServiceTypeOK
    OBVIOUS
  <1>1. job \in [Jobs -> Job] /\ purge \in Purge
    BY Blank DEF ServiceInit
  <1>2. \A m \in Mappings : Legacy(m) \in Run
    BY DEF Legacy, Run
  <1>3. run \in [Rows -> Run]
    <2>1. PICK old \in {NoRun} \cup {Legacy(m) : m \in Mappings} :
             run = [[r \in Rows |-> NoRun] EXCEPT ![CHOOSE q \in Rows : TRUE] = old]
      BY DEF ServiceInit
    <2>2. old \in Run
      BY <1>2, Blank
    <2> QED BY <2>1, <2>2, Blank
  <1> QED BY <1>1, <1>3 DEF ServiceInit, ServiceTypeOK

\* What is known of one job.
LEMMA JobTyped == ASSUME ServiceTypeOK, NEW j \in Jobs PROVE job[j] \in Job
  BY DEF ServiceTypeOK

\* A job that is tried again is a job, within its attempts.
LEMMA RetriedTyped == ASSUME NEW b \in Job PROVE Retried(b) \in Job
  <1>1. CASE b.attempt < MaxAttempts /\ ~b.cancelled
    <2>1. b.attempt + 1 \in 1 .. MaxAttempts
      BY <1>1, ServiceAssumption DEF Job
    <2> QED BY <1>1, <2>1, ServiceAssumption DEF Retried, Job
  <1>2. CASE ~(b.attempt < MaxAttempts /\ ~b.cancelled)
    BY <1>2, Blank DEF Retried
  <1> QED BY <1>1, <1>2

LEMMA EnqueueTyped ==
    ASSUME ServiceTypeOK, NEW m \in Mappings, NEW kind \in Kinds, NEW keyed \in BOOLEAN,
           Enqueue(m, kind, keyed)
    PROVE  job' \in [Jobs -> Job]
  <1> DEFINE new == [NoJob EXCEPT !.state = "queued", !.kind = kind, !.mapping = m, !.keyed = keyed]
  <1>1. new \in Job
    BY Blank DEF Job
  <1> QED BY <1>1 DEF Enqueue, ServiceTypeOK

LEMMA AskToStopTyped ==
    ASSUME ServiceTypeOK, NEW refs PROVE AskToStop(refs) \in [Jobs -> Job]
  <1>1. \A j \in Jobs : [job[j] EXCEPT !.cancelled = TRUE] \in Job
    BY JobTyped DEF Job
  <1> QED BY <1>1, JobTyped DEF AskToStop

LEMMA SpendTyped ==
    ASSUME ServiceTypeOK, NEW what \in {"manual", "deaths", "closes"}, NEW bound, Spend(what, bound)
    PROVE  used' \in [manual: Nat, deaths: Nat, closes: Nat]
  BY DEF Spend, ServiceTypeOK

LEMMA TickTyped == ServiceTypeOK /\ TickStep => ServiceTypeOK'
  <1> SUFFICES ASSUME ServiceTypeOK, TickStep PROVE ServiceTypeOK'
    OBVIOUS
  <1>1. CASE TickRead
    BY <1>1 DEF TickRead, ServiceTypeOK
  <1>2. ASSUME NEW m \in Mappings, TickEnqueue(m) PROVE ServiceTypeOK'
    <2>1. job' \in [Jobs -> Job]
      BY <1>2, EnqueueTyped DEF TickEnqueue, Kinds
    <2> QED BY <1>2, <2>1 DEF TickEnqueue, ServiceTypeOK
  <1>3. ASSUME NEW m \in Mappings, TickEnqueueFails(m) PROVE ServiceTypeOK'
    BY <1>3 DEF TickEnqueueFails, ServiceTypeOK
  <1> QED BY <1>1, <1>2, <1>3 DEF TickStep

LEMMA OwnerTyped == ServiceTypeOK /\ OwnerStep => ServiceTypeOK'
  <1> SUFFICES ASSUME ServiceTypeOK, OwnerStep PROVE ServiceTypeOK'
    OBVIOUS
  <1>1. ASSUME NEW m \in Mappings, StartMapping(m) PROVE ServiceTypeOK'
    <2>1. job' \in [Jobs -> Job]
      BY <1>1, EnqueueTyped DEF StartMapping, Kinds, ServiceTypeOK
    <2> QED BY <1>1, <2>1 DEF StartMapping, ServiceTypeOK
  <1>2. ASSUME NEW m \in Mappings, FinishMapping(m) PROVE ServiceTypeOK'
    BY <1>2 DEF FinishMapping, ServiceTypeOK
  <1>3. ASSUME NEW m \in Mappings, NEW kind \in Kinds, SyncNow(m, kind) PROVE ServiceTypeOK'
    <2>1. job' \in [Jobs -> Job]
      BY <1>3, EnqueueTyped DEF SyncNow
    <2>2. used' \in [manual: Nat, deaths: Nat, closes: Nat]
      BY <1>3, SpendTyped DEF SyncNow
    <2> QED BY <1>3, <2>1, <2>2 DEF SyncNow, ServiceTypeOK
  <1>4. ASSUME NEW window \in {"closed", "due"}, CloseTenant(window) PROVE ServiceTypeOK'
    <2>1. job' \in [Jobs -> Job]
      BY <1>4, AskToStopTyped DEF CloseTenant
    <2>2. used' \in [manual: Nat, deaths: Nat, closes: Nat]
      BY <1>4, SpendTyped DEF CloseTenant
    <2> QED BY <1>4, <2>1, <2>2 DEF CloseTenant, closeTenant, ServiceTypeOK
  <1>5. CASE ReopenTenant
    BY <1>5 DEF ReopenTenant, reopenTenant, ServiceTypeOK
  <1> QED BY <1>1, <1>2, <1>3, <1>4, <1>5 DEF OwnerStep

LEMMA JobStepTyped == ServiceTypeOK /\ Assigned /\ JobStep => ServiceTypeOK'
  <1> SUFFICES ASSUME ServiceTypeOK, Assigned, NEW j \in Jobs,
                      StartAttempt(j) \/ JobProgress(j) \/ LoseRun(j) \/ Cancelled(j)
               PROVE  ServiceTypeOK'
    BY DEF JobStep
  <1>1. job[j] \in Job
    BY JobTyped
  <1>2. ASSUME NEW new \in Job, job' = [job EXCEPT ![j] = new] PROVE job' \in [Jobs -> Job]
    BY <1>2 DEF ServiceTypeOK
  <1>3. \A r \in Rows : CloseRow(r) \in [Rows -> Run]
    BY Blank DEF CloseRow, ServiceTypeOK
  <1>4. CASE StartAttempt(j)
    <2>1. [job[j] EXCEPT !.state = "executing", !.at = "open"] \in Job
      BY <1>1 DEF Job
    <2>2. job' \in [Jobs -> Job]
      BY <1>2, <1>4, <2>1 DEF StartAttempt
    <2> QED BY <1>4, <2>2 DEF StartAttempt, ServiceTypeOK
  <1>5. ASSUME NEW r \in Rows, OpenRow(j, r) PROVE ServiceTypeOK'
    <2> DEFINE left == IF job[j].kind = "full" THEN {} ELSE enabledDomains(job[j].mapping)
    <2>1. job[j].mapping \in Mappings
      BY <1>5 DEF OpenRow, Assigned
    <2>2. [status |-> "running", mapping |-> job[j].mapping, job |-> j, old |-> FALSE] \in Run
      BY <2>1 DEF Run
    <2>3. run' \in [Rows -> Run]
      BY <1>5, <2>2 DEF OpenRow, ServiceTypeOK
    <2>4. left \in SUBSET Domains
      BY <2>1, ServiceAssumption DEF enabledDomains
    <2> HIDE DEF left
    <2>5. [job[j] EXCEPT !.at = "pass", !.row = r, !.left = left] \in Job
      BY <1>1, <2>4 DEF Job
    <2>6. job' = [job EXCEPT ![j] = [job[j] EXCEPT !.at = "pass", !.row = r, !.left = left]]
      BY <1>5 DEF OpenRow, left
    <2>7. job' \in [Jobs -> Job]
      BY <1>2, <2>5, <2>6
    <2> QED BY <1>5, <2>3, <2>7 DEF OpenRow, ServiceTypeOK
  <1>6. CASE RowRefused(j)
    BY <1>1, <1>2, <1>6, RetriedTyped DEF RowRefused, ServiceTypeOK
  <1>7. ASSUME NEW d \in Domains, RunDomain(j, d) PROVE ServiceTypeOK'
    <2>1. [job[j] EXCEPT !.left = job[j].left \ {d}] \in Job
      BY <1>1 DEF Job
    <2>2. job' \in [Jobs -> Job]
      BY <1>2, <1>7, <2>1 DEF RunDomain, ServiceTypeOK
    <2> QED BY <1>7, <2>2 DEF RunDomain, ServiceTypeOK
  <1>8. CASE SucceedRun(j)
    BY <1>2, <1>3, <1>8, Blank DEF SucceedRun, CloseRow, ServiceTypeOK
  <1>9. CASE FailRun(j)
    <2>1. job' \in [Jobs -> Job]
      BY <1>1, <1>2, <1>9, RetriedTyped DEF FailRun
    <2>2. run' \in [Rows -> Run]
      BY <1>9, Blank DEF FailRun, CloseRow, ServiceTypeOK
    <2> QED BY <1>9, <2>1, <2>2 DEF FailRun, ServiceTypeOK
  <1>10. CASE LoseRun(j)
    <2>1. job' \in [Jobs -> Job]
      BY <1>1, <1>2, <1>10, RetriedTyped DEF LoseRun
    <2>2. used' \in [manual: Nat, deaths: Nat, closes: Nat]
      BY <1>10, SpendTyped DEF LoseRun
    <2> QED BY <1>10, <2>1, <2>2 DEF LoseRun, ServiceTypeOK
  <1>11. CASE Cancelled(j)
    BY <1>2, <1>11, Blank DEF Cancelled, ServiceTypeOK
  <1> QED BY <1>4, <1>5, <1>6, <1>7, <1>8, <1>9, <1>10, <1>11 DEF JobProgress

\* What the erasure job reads and is told.
LEMMA PurgeTyped == ServiceTypeOK /\ PurgeStep => ServiceTypeOK'
  <1> SUFFICES ASSUME ServiceTypeOK, PurgeStep PROVE ServiceTypeOK'
    OBVIOUS
  <1>1. purge \in Purge /\ run \in [Rows -> Run]
    BY DEF ServiceTypeOK
  <1>2. CASE PurgeDue
    <2>1. purge' \in Purge
      BY <1>1, <1>2 DEF PurgeDue, Purge
    <2> QED BY <1>2, <2>1 DEF PurgeDue, ServiceTypeOK
  <1>3. CASE PurgeReadRuns
    <2> DEFINE live == {r \in Rows : Running(r)}
               ref == [r \in Rows |-> run[r].job]
    <2>1. live \in SUBSET Rows /\ ref \in [Rows -> Jobs \cup {None}]
      BY <1>1 DEF Run
    <2> HIDE DEF live, ref
    <2>2. [NoPurge EXCEPT !.at = "ask", !.live = live, !.ref = ref] \in Purge
      BY <2>1, Blank DEF Purge
    <2>3. purge' \in Purge
      BY <1>3, <2>2 DEF PurgeReadRuns, live, ref
    <2> QED BY <1>3, <2>3 DEF PurgeReadRuns, ServiceTypeOK
  <1>4. ASSUME NEW r \in Rows, NEW says \in Verdicts, purge' = [purge EXCEPT !.verdict[r] = says],
               UNCHANGED <<tenant, closure, record, mapping, due, job, run, tick, used>>
        PROVE  ServiceTypeOK'
    <2>1. purge' = [purge EXCEPT !.verdict = [purge.verdict EXCEPT ![r] = says]]
      BY <1>1, <1>4 DEF Purge
    <2>2. [purge.verdict EXCEPT ![r] = says] \in [Rows -> Verdicts]
      BY <1>1 DEF Purge
    <2>3. purge' \in Purge
      BY <1>1, <2>1, <2>2 DEF Purge
    <2> QED BY <1>4, <2>3 DEF ServiceTypeOK
  <1>5. ASSUME NEW r \in Rows, PurgeAsk(r) \/ PurgeCannotAsk(r) PROVE ServiceTypeOK'
    <2>1. Verdict(r) \in Verdicts /\ "unknown" \in Verdicts
      BY DEF Verdict, Verdicts
    <2> QED BY <1>4, <1>5, <2>1 DEF PurgeAsk, PurgeCannotAsk
  <1>6. CASE PurgeQuiesce
    <2>1. job' \in [Jobs -> Job]
      BY <1>6, AskToStopTyped DEF PurgeQuiesce
    <2>2. run' \in [Rows -> Run]
      BY <1>1, <1>6, Blank DEF PurgeQuiesce
    <2>3. purge' \in Purge
      BY <1>6, Blank DEF PurgeQuiesce, Purge
    <2> QED BY <1>6, <2>1, <2>2, <2>3 DEF PurgeQuiesce, ServiceTypeOK
  <1>7. CASE PurgeErase
    BY <1>7, Blank DEF PurgeErase, ServiceTypeOK
  <1>8. CASE PurgeRollsBack
    BY <1>8, Blank DEF PurgeRollsBack, ServiceTypeOK
  <1> QED BY <1>2, <1>3, <1>5, <1>6, <1>7, <1>8 DEF PurgeStep

LEMMA TimeTyped == ServiceTypeOK /\ TimePasses => ServiceTypeOK'
  <1> SUFFICES ASSUME ServiceTypeOK, TimePasses PROVE ServiceTypeOK'
    OBVIOUS
  <1>1. CASE WindowPasses
    BY <1>1 DEF WindowPasses, ServiceTypeOK
  <1>2. ASSUME NEW m \in Mappings, CronFires(m) PROVE ServiceTypeOK'
    BY <1>2 DEF CronFires, ServiceTypeOK
  <1>3. ASSUME NEW r \in Rows, RowAges(r) PROVE ServiceTypeOK'
    <2>1. run[r] \in Run /\ [run[r] EXCEPT !.old = TRUE] \in Run
      BY DEF ServiceTypeOK, Run
    <2>2. run' = [run EXCEPT ![r] = [run[r] EXCEPT !.old = TRUE]]
      BY <1>3 DEF RowAges, ServiceTypeOK
    <2>3. run' \in [Rows -> Run]
      BY <2>1, <2>2 DEF ServiceTypeOK
    <2> QED BY <1>3, <2>3 DEF RowAges, ServiceTypeOK
  <1> QED BY <1>1, <1>2, <1>3 DEF TimePasses

-----------------------------------------------------------------------------
(* The promise of closing.                                                 *)

LifeInv ==
    /\ purge \in Purge
    /\ tenant \in {"active", "closed", "gone"}
    /\ tenant = "active" \/ tenant = "gone" => closure = "none"
    /\ tenant = "closed" => closure \in {"closed", "due"}
    /\ purge.at # "idle" => tenant = "closed" /\ closure = "due"

\* Every step keeps LifeInv and is a step of the account's life, or none.
LEMMA LifeStep ==
    ASSUME ~DuringPurge, ServiceTypeOK, ServiceTypeOK', LifeInv, [ServiceNext]_vars
    PROVE  LifeInv' /\ [Promise!LifeNext]_(IF tenant = "gone" THEN "erased"
                                          ELSE IF tenant = "active" THEN "serving" ELSE closure)
  <1> DEFINE seen == IF tenant = "gone" THEN "erased" ELSE IF tenant = "active" THEN "serving" ELSE closure
  <1>0. purge' \in Purge /\ purge \in Purge
    BY DEF ServiceTypeOK
  <1>1. CASE UNCHANGED <<tenant, closure>> /\ (purge'.at # "idle" => purge.at # "idle")
    BY <1>0, <1>1 DEF LifeInv
  <1>2. CASE UNCHANGED <<tenant, closure, purge>>
    BY <1>1, <1>2
  <1>3. CASE TickStep
    BY <1>2, <1>3 DEF TickStep, TickRead, TickEnqueue, TickEnqueueFails
  <1>4. CASE JobStep
    BY <1>2, <1>4 DEF JobStep, StartAttempt, JobProgress, LoseRun, Cancelled, RowRefused, SucceedRun,
                      FailRun, RunDomain, OpenRow
  <1>5. CASE UNCHANGED vars
    BY <1>2, <1>5 DEF vars
  <1>6. CASE TimePasses
    <2>1. CASE WindowPasses
      BY <1>0, <2>1 DEF WindowPasses, LifeInv, Promise!LifeNext, Promise!WindowEnds
    <2>2. CASE \E m \in Mappings : CronFires(m)
      BY <1>2, <2>2 DEF CronFires
    <2>3. CASE \E r \in Rows : RowAges(r)
      BY <1>2, <2>3 DEF RowAges
    <2> QED BY <1>6, <2>1, <2>2, <2>3 DEF TimePasses
  <1>7. CASE OwnerStep
    <2>1. CASE \E m \in Mappings : StartMapping(m) \/ FinishMapping(m)
      BY <1>2, <2>1 DEF StartMapping, FinishMapping
    <2>2. CASE \E m \in Mappings, kind \in Kinds : SyncNow(m, kind)
      BY <1>2, <2>2 DEF SyncNow
    <2>3. ASSUME NEW window \in {"closed", "due"}, CloseTenant(window)
          PROVE  LifeInv' /\ [Promise!LifeNext]_seen
      <3>1. /\ purge.at = "idle" /\ UNCHANGED purge /\ tenant # "gone"
            /\ tenant' = "closed" /\ closure' = window
        BY <2>3 DEF CloseTenant, closeTenant, OwnerActs
      <3> QED BY <1>0, <3>1 DEF LifeInv, Promise!LifeNext, Promise!CloseAccount
    <2>4. CASE ReopenTenant
      <3>1. /\ purge.at = "idle" /\ UNCHANGED purge /\ closure = "closed" /\ closure' = "none"
            /\ tenant = "closed" /\ tenant' = "active"
        BY <2>4 DEF ReopenTenant, reopenTenant, OwnerActs, LifeInv
      <3> QED BY <1>0, <3>1 DEF LifeInv, Promise!LifeNext, Promise!ReopenAccount
    <2> QED BY <1>7, <2>1, <2>2, <2>3, <2>4 DEF OwnerStep
  <1>8. CASE PurgeStep
    <2>1. CASE PurgeDue
      <3>1. UNCHANGED <<tenant, closure>> /\ tenant = "closed" /\ closure = "due"
        BY <2>1 DEF PurgeDue
      <3> QED BY <1>0, <3>1 DEF LifeInv
    <2>2. CASE PurgeReadRuns
      BY <1>1, <2>2 DEF PurgeReadRuns
    <2>3. CASE PurgeQuiesce
      BY <1>1, <2>3 DEF PurgeQuiesce
    <2>4. CASE PurgeErase
      <3>1. /\ tenant = "closed" /\ closure = "due" /\ tenant' = "gone" /\ closure' = "none"
            /\ purge'.at = "idle"
        BY <2>4 DEF PurgeErase, LifeInv, NoPurge
      <3> QED BY <1>0, <3>1 DEF LifeInv, Promise!LifeNext, Promise!EraseAccount
    <2>5. CASE PurgeRollsBack
      <3>1. UNCHANGED <<tenant, closure>> /\ purge'.at = "idle"
        BY <2>5 DEF PurgeRollsBack, NoPurge
      <3> QED BY <1>1, <3>1
    <2>6. CASE \E r \in Rows : PurgeAsk(r) \/ PurgeCannotAsk(r)
      BY <1>1, <2>6 DEF PurgeAsk, PurgeCannotAsk
    <2> QED BY <1>8, <2>1, <2>2, <2>3, <2>4, <2>5, <2>6 DEF PurgeStep
  <1> QED BY <1>3, <1>4, <1>5, <1>6, <1>7, <1>8 DEF ServiceNext

-----------------------------------------------------------------------------
(* Passes and their rows.                                                  *)

\* What the erasure job read of a row, and was told of its run, is out of date at
\* most in that the row has been closed.
VisibleInv ==
    /\ \A j \in Jobs : Passing(j) /\ tenant # "gone" =>
          job[j].row \in Rows /\ Running(job[j].row) /\ run[job[j].row].job = j
    /\ \A r \in purge.live :
          /\ Running(r) => run[r].job = purge.ref[r]
          /\ purge.verdict[r] = "finished" =>
                purge.ref[r] \in Jobs /\ job[purge.ref[r]].state = "over"

\* A step that leaves a job where it is ...
Same(j) ==
    /\ job'[j].state = job[j].state /\ job'[j].mapping = job[j].mapping
    /\ job'[j].at = job[j].at /\ job'[j].row = job[j].row

\* ... and one after which it has no row of its own; only a forgotten one is used anew.
Quiet(j) ==
    /\ job'[j].state = "executing" => job'[j].at = "open"
    /\ job'[j].state # "over" => job'[j].mapping \in Mappings
    /\ job[j].state = "over" /\ job'[j].state # "over" => Forgotten(j)

AllQuiet == \A j \in Jobs : Same(j) \/ Quiet(j)

LEMMA QuietKeepsAssigned == ASSUME Assigned, AllQuiet PROVE Assigned'
  BY DEF Assigned, AllQuiet, Same, Quiet

\* Any step but OpenRow: rows are kept or closed, and no row of a pass at work is
\* closed under it.
LEMMA Carried ==
    ASSUME ServiceTypeOK, ServiceTypeOK', VisibleInv, AllQuiet,
           tenant = "gone" => tenant' = "gone",
           \A r \in Rows :
              \/ run'[r].status = run[r].status /\ run'[r].job = run[r].job
              \/ /\ run'[r].status = "none"
                 /\ \A j \in Jobs : Same(j) /\ Passing(j) /\ tenant' # "gone" => job[j].row # r,
           \A r \in purge'.live :
              /\ r \in purge.live /\ purge'.ref[r] = purge.ref[r]
              /\ purge'.verdict[r] = "finished" =>
                    \/ purge.verdict[r] = "finished"
                    \/ purge.ref[r] \in Jobs /\ job[purge.ref[r]].state = "over"
    PROVE  VisibleInv'
  <1>1. ASSUME NEW j \in Jobs, Passing(j)', tenant' # "gone"
        PROVE  /\ job'[j].row \in Rows /\ run'[job'[j].row].status = "running"
               /\ run'[job'[j].row].job = j
    <2>1. Same(j)
      BY <1>1 DEF AllQuiet, Quiet, Passing
    <2>2. Passing(j) /\ tenant # "gone" /\ job'[j].row = job[j].row
      BY <1>1, <2>1 DEF Same, Passing
    <2>3. job[j].row \in Rows /\ Running(job[j].row) /\ run[job[j].row].job = j
      BY <2>2 DEF VisibleInv
    <2>4. run'[job[j].row].status = run[job[j].row].status /\ run'[job[j].row].job = run[job[j].row].job
      BY <1>1, <2>1, <2>2, <2>3
    <2> QED BY <2>2, <2>3, <2>4 DEF Running
  <1>2. ASSUME NEW r \in purge'.live
        PROVE  /\ Running(r)' => run'[r].job = purge'.ref[r]
               /\ purge'.verdict[r] = "finished" =>
                     purge'.ref[r] \in Jobs /\ job'[purge'.ref[r]].state = "over"
    <2>1. r \in Rows /\ r \in purge.live /\ purge'.ref[r] = purge.ref[r]
      BY <1>2 DEF ServiceTypeOK, Purge
    <2>2. Running(r)' => run'[r].job = purge'.ref[r]
      BY <2>1 DEF Running, VisibleInv
    <2>3. ASSUME purge'.verdict[r] = "finished"
          PROVE  purge'.ref[r] \in Jobs /\ job'[purge'.ref[r]].state = "over"
      <3>1. purge.ref[r] \in Jobs /\ job[purge.ref[r]].state = "over"
        BY <1>2, <2>1, <2>3 DEF VisibleInv
      <3>2. ~Forgotten(purge.ref[r])
        BY <2>1 DEF Forgotten
      <3> QED BY <2>1, <3>1, <3>2 DEF AllQuiet, Same, Quiet
    <2> QED BY <2>2, <2>3
  <1> QED BY <1>1, <1>2 DEF VisibleInv, Running

LEMMA EnqueueQuiet ==
    ASSUME ServiceTypeOK, NEW m \in Mappings, NEW kind, NEW keyed, Enqueue(m, kind, keyed)
    PROVE  AllQuiet
  <1> DEFINE j == CHOOSE i \in Jobs : Forgotten(i)
             new == [NoJob EXCEPT !.state = "queued", !.kind = kind, !.mapping = m, !.keyed = keyed]
  <1>1. j \in Jobs /\ Forgotten(j)
    BY DEF Enqueue
  <1>2. job' = [job EXCEPT ![j] = new]
    BY DEF Enqueue
  <1>3. new.state = "queued" /\ new.mapping = m
    BY DEF NoJob
  <1> HIDE DEF j, new
  <1>4. \A i \in Jobs : job'[i] = IF i = j THEN new ELSE job[i]
    BY <1>2 DEF ServiceTypeOK
  <1> QED BY <1>1, <1>3, <1>4 DEF AllQuiet, Same, Quiet

LEMMA StopQuiet == ASSUME ServiceTypeOK, NEW refs, job' = AskToStop(refs) PROVE AllQuiet
  <1>1. ASSUME NEW j \in Jobs PROVE Same(j)
    <2>1. job[j] \in Job
      BY JobTyped
    <2>2. job'[j] = job[j] \/ job'[j] = [job[j] EXCEPT !.cancelled = TRUE]
      BY DEF AskToStop
    <2> QED BY <2>1, <2>2 DEF Same, Job
  <1> QED BY <1>1 DEF AllQuiet

LEMMA UnchangedQuiet == ASSUME UNCHANGED job PROVE AllQuiet
  BY DEF AllQuiet, Same

\* One job is over, tried again or started.
LEMMA OneQuiet ==
    ASSUME ServiceTypeOK, Assigned, NEW j \in Jobs, job[j].state # "over", NEW new,
           job' = [job EXCEPT ![j] = new],
           \/ new = NoJob
           \/ new = Retried(job[j])
           \/ new = [job[j] EXCEPT !.state = "executing", !.at = "open"]
    PROVE  AllQuiet /\ Quiet(j)
  <1>1. job[j] \in Job /\ job[j].mapping \in Mappings
    BY JobTyped DEF Assigned
  <1>2. /\ new.state = "executing" => new.at = "open"
        /\ new.state # "over" => new.mapping \in Mappings
    <2>1. CASE new = NoJob
      BY <2>1 DEF NoJob
    <2>2. CASE new = Retried(job[j])
      <3>1. CASE job[j].attempt < MaxAttempts /\ ~job[j].cancelled
        BY <1>1, <2>2, <3>1 DEF Retried, Job
      <3>2. CASE ~(job[j].attempt < MaxAttempts /\ ~job[j].cancelled)
        BY <2>1, <2>2, <3>2 DEF Retried
      <3> QED BY <3>1, <3>2
    <2>3. CASE new = [job[j] EXCEPT !.state = "executing", !.at = "open"]
      BY <1>1, <2>3 DEF Job
    <2> QED BY <2>1, <2>2, <2>3
  <1>3. \A i \in Jobs : job'[i] = IF i = j THEN new ELSE job[i]
    BY DEF ServiceTypeOK
  <1> QED BY <1>2, <1>3 DEF AllQuiet, Same, Quiet

\* A step that leaves the rows and the erasure job alone.
LEMMA JobsOnly ==
    ASSUME ServiceTypeOK, ServiceTypeOK', VisibleInv, AllQuiet,
           tenant = "gone" => tenant' = "gone", UNCHANGED <<run, purge>>
    PROVE  VisibleInv'
  <1>1. \A r \in Rows : run'[r].status = run[r].status /\ run'[r].job = run[r].job
    OBVIOUS
  <1>2. \A r \in purge'.live : /\ r \in purge.live /\ purge'.ref[r] = purge.ref[r]
                               /\ purge'.verdict[r] = purge.verdict[r]
    OBVIOUS
  <1> QED BY <1>1, <1>2, Carried

\* The row of a pass that ends is nobody else's.
LEMMA CloseRowHolds ==
    ASSUME ServiceTypeOK, ServiceTypeOK', VisibleInv, AllQuiet, NEW j \in Jobs, Passing(j), Quiet(j),
           tenant # "gone", run' = CloseRow(job[j].row), UNCHANGED <<tenant, purge>>
    PROVE  VisibleInv'
  <1>1. job[j].row \in Rows /\ run[job[j].row].job = j
    BY DEF VisibleInv
  <1>2. \A r \in Rows : run'[r] = IF r = job[j].row THEN NoRun ELSE run[r]
    BY DEF CloseRow, ServiceTypeOK
  <1>3. ASSUME NEW i \in Jobs, Same(i), Passing(i)
        PROVE  job[i].row # job[j].row
    <2>1. i # j
      BY <1>3 DEF Same, Quiet, Passing
    <2>2. run[job[i].row].job = i
      BY <1>3 DEF VisibleInv
    <2> QED BY <1>1, <2>1, <2>2
  <1>4. NoRun.status = "none"
    BY DEF NoRun
  <1>5. \A r \in Rows :
           \/ run'[r].status = run[r].status /\ run'[r].job = run[r].job
           \/ /\ run'[r].status = "none"
              /\ \A i \in Jobs : Same(i) /\ Passing(i) /\ tenant' # "gone" => job[i].row # r
    BY <1>2, <1>3, <1>4
  <1>6. \A r \in purge'.live : /\ r \in purge.live /\ purge'.ref[r] = purge.ref[r]
                               /\ purge'.verdict[r] = purge.verdict[r]
    OBVIOUS
  <1> QED BY <1>5, <1>6, Carried

\* A row that is opened was nobody's and is not among those the erasure has read.
LEMMA OpenRowHolds ==
    ASSUME ServiceTypeOK, Assigned, VisibleInv, NEW j \in Jobs, NEW r \in Rows, OpenRow(j, r)
    PROVE  VisibleInv' /\ Assigned'
  <1> DEFINE new == [job[j] EXCEPT !.at = "pass", !.row = r,
                       !.left = IF job[j].kind = "full" THEN {} ELSE enabledDomains(job[j].mapping)]
  <1>1. job[j] \in Job /\ job[j].state = "executing"
    BY JobTyped DEF OpenRow
  <1>2. new.state = "executing" /\ new.row = r /\ new.mapping = job[j].mapping
    BY <1>1 DEF Job
  <1>3. \A i \in Jobs : job'[i] = IF i = j THEN new ELSE job[i]
    BY DEF OpenRow, ServiceTypeOK
  <1> HIDE DEF new
  <1>4. run'[r].status = "running" /\ run'[r].job = j /\ \A q \in Rows : q # r => run'[q] = run[q]
    BY DEF OpenRow, ServiceTypeOK
  <1>5. ~Running(r) /\ r \notin purge.live /\ UNCHANGED <<tenant, purge>>
    BY DEF OpenRow, FreeRow
  <1>6. ASSUME NEW i \in Jobs, Passing(i)', tenant' # "gone"
        PROVE  /\ job'[i].row \in Rows /\ run'[job'[i].row].status = "running"
               /\ run'[job'[i].row].job = i
    <2>1. CASE i = j
      BY <1>2, <1>3, <1>4, <2>1
    <2>2. CASE i # j
      <3>1. Passing(i) /\ tenant # "gone" /\ job'[i] = job[i]
        BY <1>3, <1>5, <1>6, <2>2 DEF Passing
      <3>2. job[i].row \in Rows /\ Running(job[i].row) /\ run[job[i].row].job = i
        BY <3>1 DEF VisibleInv
      <3> QED BY <1>4, <1>5, <3>1, <3>2 DEF Running
    <2> QED BY <2>1, <2>2
  <1>7. ASSUME NEW q \in purge.live
        PROVE  /\ run'[q].status = "running" => run'[q].job = purge.ref[q]
               /\ purge.verdict[q] = "finished" =>
                     purge.ref[q] \in Jobs /\ job'[purge.ref[q]].state = "over"
    <2>1. q \in Rows /\ q # r
      BY <1>5 DEF ServiceTypeOK, Purge
    <2>2. ASSUME purge.verdict[q] = "finished"
          PROVE  purge.ref[q] \in Jobs /\ job'[purge.ref[q]].state = "over"
      <3>1. purge.ref[q] \in Jobs /\ job[purge.ref[q]].state = "over"
        BY <2>2 DEF VisibleInv
      <3> QED BY <1>1, <1>3, <3>1
    <2> QED BY <1>4, <2>1, <2>2 DEF VisibleInv, Running
  <1>8. VisibleInv'
    BY <1>5, <1>6, <1>7 DEF VisibleInv, Running
  <1>9. Assigned'
    BY <1>1, <1>2, <1>3 DEF Assigned
  <1> QED BY <1>8, <1>9

LEMMA JobStepHolds ==
    ASSUME ServiceTypeOK, ServiceTypeOK', Assigned, VisibleInv, JobStep
    PROVE  VisibleInv' /\ Assigned'
  <1>0. PICK j \in Jobs : StartAttempt(j) \/ JobProgress(j) \/ LoseRun(j) \/ Cancelled(j)
    BY DEF JobStep
  <1>1. CASE StartAttempt(j) \/ RowRefused(j) \/ LoseRun(j) \/ Cancelled(j)
    <2>1. AllQuiet
      BY <1>1, OneQuiet DEF StartAttempt, RowRefused, LoseRun, Cancelled, Live
    <2>2. UNCHANGED <<tenant, run, purge>>
      BY <1>1 DEF StartAttempt, RowRefused, LoseRun, Cancelled
    <2> QED BY <2>1, <2>2, JobsOnly, QuietKeepsAssigned
  <1>2. ASSUME NEW r \in Rows, OpenRow(j, r) PROVE VisibleInv' /\ Assigned'
    BY <1>2, OpenRowHolds
  <1>3. ASSUME NEW d \in Domains, RunDomain(j, d) PROVE VisibleInv' /\ Assigned'
    <2>1. job[j] \in Job /\ job' = [job EXCEPT ![j] = [job[j] EXCEPT !.left = job[j].left \ {d}]]
      BY <1>3, JobTyped DEF RunDomain, ServiceTypeOK
    <2>2. \A i \in Jobs : Same(i)
      BY <2>1 DEF Same, ServiceTypeOK, Job
    <2>3. UNCHANGED <<tenant, run, purge>>
      BY <1>3 DEF RunDomain
    <2> QED BY <2>2, <2>3, JobsOnly, QuietKeepsAssigned DEF AllQuiet
  <1>4. CASE SucceedRun(j)
    <2>1. AllQuiet /\ Quiet(j)
      BY <1>4, OneQuiet DEF SucceedRun, Passing
    <2> QED BY <1>4, <2>1, CloseRowHolds, QuietKeepsAssigned DEF SucceedRun
  <1>5. CASE FailRun(j)
    <2>1. AllQuiet /\ Quiet(j)
      BY <1>5, OneQuiet DEF FailRun, Passing
    <2>2. CASE tenant = "gone"
      BY <1>5, <2>1, <2>2, JobsOnly, QuietKeepsAssigned DEF FailRun
    <2>3. CASE tenant # "gone"
      BY <1>5, <2>1, <2>3, CloseRowHolds, QuietKeepsAssigned DEF FailRun
    <2> QED BY <2>2, <2>3
  <1> QED BY <1>0, <1>1, <1>2, <1>3, <1>4, <1>5 DEF JobProgress

\* A row the erasure lands is not the row of a pass at work: its run was said to be
\* finished, or it never had one.
LEMMA LandedIsDead ==
    ASSUME ServiceTypeOK, VisibleInv, NEW r \in landStale, NEW j \in Jobs, Passing(j), tenant # "gone"
    PROVE  job[j].row # r
  <1>1. r \in purge.live
    BY DEF landStale
  <1>2. CASE purge.verdict[r] = "finished"
    <2>1. job[purge.ref[r]].state = "over" /\ (Running(r) => run[r].job = purge.ref[r])
      BY <1>1, <1>2 DEF VisibleInv
    <2> QED BY <2>1 DEF VisibleInv, Passing
  <1>3. CASE purge.ref[r] = None
    <2>1. Running(r) => run[r].job = None
      BY <1>1, <1>3 DEF VisibleInv
    <2> QED BY <2>1, ServiceAssumption DEF VisibleInv
  <1> QED BY <1>2, <1>3 DEF landStale

LEMMA PurgeHolds ==
    ASSUME ServiceTypeOK, ServiceTypeOK', Assigned, VisibleInv, PurgeStep
    PROVE  VisibleInv' /\ Assigned'
  <1>0. purge \in Purge /\ purge' \in Purge
    BY DEF ServiceTypeOK
  <1>1. CASE PurgeDue
    <2>1. AllQuiet /\ UNCHANGED <<tenant, run, job>>
      BY <1>1, UnchangedQuiet DEF PurgeDue
    <2>2. purge'.live = purge.live /\ purge'.ref = purge.ref /\ purge'.verdict = purge.verdict
      BY <1>0, <1>1 DEF PurgeDue, Purge
    <2> QED BY <2>1, <2>2, QuietKeepsAssigned, Carried
  <1>2. CASE PurgeReadRuns
    <2>1. /\ purge'.live = {r \in Rows : Running(r)} /\ purge'.ref = [r \in Rows |-> run[r].job]
          /\ purge'.verdict = [r \in Rows |-> "unasked"]
      BY <1>2 DEF PurgeReadRuns, NoPurge
    <2>2. UNCHANGED <<tenant, job, run>>
      BY <1>2 DEF PurgeReadRuns
    <2> QED BY <2>1, <2>2 DEF VisibleInv, Assigned, Passing, Running
  <1>3. ASSUME NEW r \in Rows, PurgeAsk(r) \/ PurgeCannotAsk(r) PROVE VisibleInv' /\ Assigned'
    <2>1. PICK says \in Verdicts : /\ purge' = [purge EXCEPT !.verdict[r] = says]
                                   /\ says \in {Verdict(r), "unknown"}
      BY <1>3 DEF PurgeAsk, PurgeCannotAsk, Verdict, Verdicts
    <2>2. AllQuiet /\ UNCHANGED <<tenant, run, job>> /\ r \in purge.live
      BY <1>3, UnchangedQuiet DEF PurgeAsk, PurgeCannotAsk
    <2>3. /\ purge'.live = purge.live /\ purge'.ref = purge.ref
          /\ purge'.verdict = [purge.verdict EXCEPT ![r] = says]
      BY <1>0, <2>1 DEF Purge
    <2>4. \A q \in Rows : q # r => purge'.verdict[q] = purge.verdict[q]
      BY <1>0, <2>3 DEF Purge
    <2>5. purge'.verdict[r] = says
      BY <1>0, <2>3 DEF Purge
    <2>6. says = "finished" => purge.ref[r] \in Jobs /\ job[purge.ref[r]].state = "over"
      <3>1. ASSUME says = "finished"
            PROVE  purge.ref[r] \in Jobs /\ job[purge.ref[r]].state = "over"
        <4>1. purge.ref[r] # None /\ ~Live(purge.ref[r])
          BY <2>1, <3>1 DEF Verdict
        <4>2. purge.ref[r] \in Jobs
          BY <1>0, <4>1 DEF Purge
        <4> QED BY <4>1, <4>2, JobTyped DEF Live, Job
      <3> QED BY <3>1
    <2>7. \A q \in purge'.live :
             /\ q \in purge.live /\ purge'.ref[q] = purge.ref[q]
             /\ purge'.verdict[q] = "finished" =>
                   \/ purge.verdict[q] = "finished"
                   \/ purge.ref[q] \in Jobs /\ job[purge.ref[q]].state = "over"
      BY <1>0, <2>3, <2>4, <2>5, <2>6 DEF Purge
    <2> QED BY <2>2, <2>7, QuietKeepsAssigned, Carried
  <1>4. CASE PurgeQuiesce
    <2>1. AllQuiet /\ UNCHANGED tenant
      BY <1>4, StopQuiet DEF PurgeQuiesce
    <2>2. purge'.live = {}
      BY <1>4 DEF PurgeQuiesce, NoPurge
    <2>3. \A r \in Rows : run'[r] = IF r \in landStale THEN NoRun ELSE run[r]
      BY <1>4 DEF PurgeQuiesce
    <2>4. \A r \in landStale : \A j \in Jobs : Passing(j) /\ tenant # "gone" => job[j].row # r
      BY LandedIsDead
    <2>5. NoRun.status = "none"
      BY DEF NoRun
    <2>6. \A r \in Rows :
             \/ run'[r].status = run[r].status /\ run'[r].job = run[r].job
             \/ /\ run'[r].status = "none"
                /\ \A j \in Jobs : Same(j) /\ Passing(j) /\ tenant' # "gone" => job[j].row # r
      BY <2>1, <2>3, <2>4, <2>5
    <2> QED BY <2>1, <2>2, <2>6, QuietKeepsAssigned, Carried
  <1>5. CASE PurgeErase
    BY <1>5 DEF PurgeErase, VisibleInv, NoPurge, Assigned
  <1>6. CASE PurgeRollsBack
    <2>1. AllQuiet /\ UNCHANGED <<tenant, run, job>> /\ purge'.live = {}
      BY <1>6, UnchangedQuiet DEF PurgeRollsBack, NoPurge
    <2> QED BY <2>1, QuietKeepsAssigned, Carried
  <1> QED BY <1>1, <1>2, <1>3, <1>4, <1>5, <1>6 DEF PurgeStep

\* The steps that no pass takes part in.
LEMMA OthersHold ==
    ASSUME ServiceTypeOK, ServiceTypeOK', Assigned, VisibleInv,
           TickStep \/ OwnerStep \/ TimePasses \/ UNCHANGED vars
    PROVE  VisibleInv' /\ Assigned'
  <1>1. CASE AllQuiet /\ (tenant = "gone" => tenant' = "gone") /\ UNCHANGED <<run, purge>>
    BY <1>1, JobsOnly, QuietKeepsAssigned
  <1>2. CASE UNCHANGED <<tenant, job, run, purge>>
    BY <1>1, <1>2, UnchangedQuiet
  <1>3. CASE TickStep
    <2>1. CASE TickRead
      BY <1>2, <2>1 DEF TickRead
    <2>2. ASSUME NEW m \in Mappings, TickEnqueue(m) PROVE VisibleInv' /\ Assigned'
      BY <1>1, <2>2, EnqueueQuiet DEF TickEnqueue
    <2>3. ASSUME NEW m \in Mappings, TickEnqueueFails(m) PROVE VisibleInv' /\ Assigned'
      BY <1>2, <2>3 DEF TickEnqueueFails
    <2> QED BY <1>3, <2>1, <2>2, <2>3 DEF TickStep
  <1>4. CASE OwnerStep
    <2>1. ASSUME NEW m \in Mappings, StartMapping(m) PROVE VisibleInv' /\ Assigned'
      BY <1>1, <2>1, EnqueueQuiet, UnchangedQuiet DEF StartMapping
    <2>2. ASSUME NEW m \in Mappings, FinishMapping(m) PROVE VisibleInv' /\ Assigned'
      BY <1>2, <2>2 DEF FinishMapping
    <2>3. ASSUME NEW m \in Mappings, NEW kind \in Kinds, SyncNow(m, kind) PROVE VisibleInv' /\ Assigned'
      BY <1>1, <2>3, EnqueueQuiet DEF SyncNow
    <2>4. ASSUME NEW window, CloseTenant(window) PROVE VisibleInv' /\ Assigned'
      <3>1. AllQuiet
        BY <2>4, StopQuiet DEF CloseTenant
      <3> QED BY <1>1, <2>4, <3>1 DEF CloseTenant, closeTenant
    <2>5. CASE ReopenTenant
      BY <1>1, <2>5, UnchangedQuiet DEF ReopenTenant, reopenTenant
    <2> QED BY <1>4, <2>1, <2>2, <2>3, <2>4, <2>5 DEF OwnerStep
  <1>5. CASE TimePasses
    <2>1. CASE WindowPasses \/ \E m \in Mappings : CronFires(m)
      BY <1>2, <2>1 DEF WindowPasses, CronFires
    <2>2. ASSUME NEW r \in Rows, RowAges(r) PROVE VisibleInv' /\ Assigned'
      <3>1. AllQuiet /\ UNCHANGED <<tenant, purge>>
        BY <2>2, UnchangedQuiet DEF RowAges
      <3>2. run[r] \in Run /\ run' = [run EXCEPT ![r] = [run[r] EXCEPT !.old = TRUE]]
        BY <2>2 DEF RowAges, ServiceTypeOK
      <3>3. \A q \in Rows : run'[q].status = run[q].status /\ run'[q].job = run[q].job
        BY <3>2 DEF ServiceTypeOK, Run
      <3>4. \A q \in purge'.live : q \in purge.live /\ purge'.ref[q] = purge.ref[q]
                                   /\ purge'.verdict[q] = purge.verdict[q]
        BY <3>1
      <3> QED BY <3>1, <3>3, <3>4, Carried, QuietKeepsAssigned
    <2> QED BY <1>5, <2>1, <2>2 DEF TimePasses
  <1>6. CASE UNCHANGED vars
    BY <1>2, <1>6 DEF vars
  <1> QED BY <1>3, <1>4, <1>5, <1>6

-----------------------------------------------------------------------------
(* What holds of every behaviour.                                          *)

ServiceInv == ServiceTypeOK /\ Assigned /\ VisibleInv

LEMMA ServiceInitially == ServiceInit => ServiceInv
  <1> SUFFICES ASSUME ServiceInit PROVE ServiceInv
    OBVIOUS
  <1>1. \A j \in Jobs : job[j].state = "over"
    BY DEF ServiceInit, NoJob
  <1>2. purge.live = {}
    BY DEF ServiceInit, NoPurge
  <1> QED BY <1>1, <1>2, TypesInitially DEF ServiceInv, Assigned, VisibleInv, Passing

LEMMA ServiceStep == ServiceInv /\ [ServiceNext]_vars => ServiceInv'
  <1> SUFFICES ASSUME ServiceInv, [ServiceNext]_vars PROVE ServiceInv'
    OBVIOUS
  <1>1. CASE UNCHANGED vars
    <2>1. ServiceTypeOK'
      BY <1>1 DEF vars, ServiceInv, ServiceTypeOK
    <2> QED BY <1>1, <2>1, OthersHold DEF ServiceInv
  <1>2. CASE ServiceNext
    <2>1. ServiceTypeOK'
      BY <1>2, TickTyped, OwnerTyped, JobStepTyped, PurgeTyped, TimeTyped DEF ServiceInv, ServiceNext
    <2> QED BY <1>2, <2>1, OthersHold, JobStepHolds, PurgeHolds DEF ServiceInv, ServiceNext
  <1> QED BY <1>1, <1>2

\* For any number of mappings, jobs and rows the service keeps its types, a job past
\* its opening (PgRunStore.open) holds a row of its own, and a pass at work has a row that says so.
THEOREM ServiceHolds == ServiceSpec => []ServiceInv
  BY ServiceInitially, ServiceStep, PTL DEF ServiceSpec

\* However ticks, requests, retries, deaths and cancellations interleave with an
\* erasure, a pass at work keeps the row that makes it visible.
THEOREM WorkStaysVisible == ServiceSpec => []WorkIsVisible
  <1>1. ServiceInv => WorkIsVisible
    BY DEF ServiceInv, VisibleInv, WorkIsVisible
  <1> QED BY <1>1, ServiceHolds, PTL

\* The service implements what closing an account promises (TenantLife), as long as
\* the owner does not act between the steps of an erasure.
THEOREM PromiseKept == ASSUME ~DuringPurge PROVE ServiceSpec => KeepsPromise
  <1> DEFINE seen == IF tenant = "gone" THEN "erased" ELSE IF tenant = "active" THEN "serving" ELSE closure
  <1>1. ServiceInit => LifeInv /\ Promise!LifeInit
    BY Blank DEF ServiceInit, LifeInv, Promise!LifeInit, NoPurge
  <1>2. ServiceInv /\ ServiceInv' /\ LifeInv /\ [ServiceNext]_vars
           => LifeInv' /\ [Promise!LifeNext]_seen
    BY LifeStep DEF ServiceInv
  <1> QED BY <1>1, <1>2, ServiceHolds, PTL DEF ServiceSpec, KeepsPromise, Promise!LifeSpec

-----------------------------------------------------------------------------
(* The lanes of a pass.                                                    *)

\* A set of numbers that is not empty has a least.
LEMMA HasLeast ==
    ASSUME NEW S \in SUBSET Nat, S # {}
    PROVE  \E x \in S : \A y \in S : x <= y
  <1>1. \E x \in S : \A y \in S : ~ (<<y, x>> \in OpToRel(<, Nat))
    BY NatLessThanWellFounded, WFMin
  <1>2. PICK x \in S : \A y \in S : ~(y < x)
    BY <1>1 DEF OpToRel
  <1> QED BY <1>2

\* Two lanes have no domain and no host in common.
Apart(lanes) ==
    \A k, l \in DOMAIN lanes : k # l => \A d \in lanes[k], e \in lanes[l] : d # e /\ hosts[d] \cap hosts[e] = {}

\* The first n domains of a pass.
UpTo(n) == {DomainOrder[i] : i \in 1 .. n}

\* Placing one more domain keeps the lanes apart.
LEMMA PlaceKeeps ==
    ASSUME NEW S, NEW lanes \in Seq(SUBSET S), NEW d, d \notin S, Apart(lanes)
    PROVE  Place(lanes, d) \in Seq(SUBSET (S \cup {d})) /\ Apart(Place(lanes, d))
  <1>1. PICK claimed : claimed = LanesOf(lanes, d)
    OBVIOUS
  <1>2. /\ claimed \subseteq DOMAIN lanes /\ DOMAIN lanes = 1 .. Len(lanes) /\ Len(lanes) \in Nat
        /\ \A k \in DOMAIN lanes : lanes[k] \subseteq S
    <2>1. DOMAIN lanes = 1 .. Len(lanes) /\ Len(lanes) \in Nat /\ \A k \in DOMAIN lanes : lanes[k] \subseteq S
      OBVIOUS
    <2>2. lanes # <<>> => 1 \in DOMAIN lanes
      OBVIOUS
    <2> QED BY <1>1, <2>1, <2>2 DEF LanesOf
  <1>3. ASSUME NEW l \in DOMAIN lanes \ claimed, NEW e \in lanes[l]
        PROVE  hosts[e] \cap hosts[d] = {}
    BY <1>1 DEF LanesOf
  <1>4. CASE claimed = {}
    <2>1. PICK m : m = Append(lanes, {d})
      OBVIOUS
    <2>2. Place(lanes, d) = m
      BY <1>1, <1>4, <2>1 DEF Place
    <2>3. m \in Seq(SUBSET (S \cup {d}))
      <3>1. lanes \in Seq(SUBSET (S \cup {d})) /\ {d} \in SUBSET (S \cup {d})
        OBVIOUS
      <3> QED BY <2>1, <3>1
    <2>4. DOMAIN m = 1 .. Len(lanes) + 1 /\ m[Len(lanes) + 1] = {d} /\ \A k \in DOMAIN lanes : m[k] = lanes[k]
      BY <2>1
    <2>5. ASSUME NEW k \in DOMAIN lanes, NEW e \in m[k], NEW c \in m[Len(lanes) + 1]
          PROVE  c # e /\ hosts[c] \cap hosts[e] = {}
      BY <1>2, <1>3, <1>4, <2>4
    <2>6. Apart(m)
      <3> SUFFICES ASSUME NEW k \in DOMAIN m, NEW l \in DOMAIN m, k # l, NEW c \in m[k], NEW e \in m[l]
                   PROVE  c # e /\ hosts[c] \cap hosts[e] = {}
        BY DEF Apart
      <3>1. CASE k = Len(lanes) + 1
        <4>1. l \in DOMAIN lanes
          BY <1>2, <2>4, <3>1
        <4> QED BY <2>5, <3>1, <4>1
      <3>2. CASE l = Len(lanes) + 1
        <4>1. k \in DOMAIN lanes
          BY <1>2, <2>4, <3>2
        <4> QED BY <2>5, <3>2, <4>1
      <3>3. CASE k # Len(lanes) + 1 /\ l # Len(lanes) + 1
        <4>1. k \in DOMAIN lanes /\ l \in DOMAIN lanes
          BY <1>2, <2>4, <3>3
        <4> QED BY <2>4, <4>1 DEF Apart
      <3> QED BY <3>1, <3>2, <3>3
    <2> QED BY <2>2, <2>3, <2>6
  <1>5. CASE claimed # {}
    <2>1. PICK keep \in claimed : keep = CHOOSE k \in claimed : \A m \in claimed : k <= m
      <3>1. claimed \in SUBSET Nat
        BY <1>2
      <3>2. \E k \in claimed : \A m \in claimed : k <= m
        BY <1>5, <3>1, HasLeast
      <3> QED BY <3>2
    <2>2. PICK joined : joined = {d} \cup UNION {lanes[k] : k \in claimed}
      OBVIOUS
    <2>3. PICK m : m = [k \in DOMAIN lanes |-> IF k = keep THEN joined ELSE IF k \in claimed THEN {} ELSE lanes[k]]
      OBVIOUS
    <2>4. Place(lanes, d) = m
      BY <1>1, <1>5, <2>1, <2>2, <2>3 DEF Place
    <2>5. /\ DOMAIN m = DOMAIN lanes
          /\ \A k \in DOMAIN lanes : m[k] = IF k = keep THEN joined ELSE IF k \in claimed THEN {} ELSE lanes[k]
      BY <2>3
    <2>6. \A c \in joined : c = d \/ \E j \in claimed : c \in lanes[j]
      BY <2>2
    <2>7. m \in Seq(SUBSET (S \cup {d}))
      <3>1. \A k \in 1 .. Len(lanes) : m[k] \in SUBSET (S \cup {d})
        BY <1>2, <2>5, <2>6
      <3>2. m = [k \in 1 .. Len(lanes) |-> m[k]]
        BY <1>2, <2>3
      <3>3. m \in [1 .. Len(lanes) -> SUBSET (S \cup {d})]
        BY <3>1, <3>2
      <3> QED BY <1>2, <3>3
    <2>8. ASSUME NEW l \in DOMAIN lanes, l # keep, NEW c \in joined, NEW e \in m[l]
          PROVE  c # e /\ hosts[c] \cap hosts[e] = {}
      <3>1. l \notin claimed /\ e \in lanes[l] /\ e \in S
        BY <1>2, <2>5, <2>8
      <3>2. CASE c = d
        BY <1>3, <3>1, <3>2
      <3>3. ASSUME NEW j \in claimed, c \in lanes[j]
            PROVE  c # e /\ hosts[c] \cap hosts[e] = {}
        BY <1>2, <3>1, <3>3 DEF Apart
      <3> QED BY <2>6, <3>2, <3>3
    <2>9. Apart(m)
      <3> SUFFICES ASSUME NEW k \in DOMAIN m, NEW l \in DOMAIN m, k # l, NEW c \in m[k], NEW e \in m[l]
                   PROVE  c # e /\ hosts[c] \cap hosts[e] = {}
        BY DEF Apart
      <3>1. k \in DOMAIN lanes /\ l \in DOMAIN lanes /\ keep \in DOMAIN lanes
        BY <1>2, <2>5
      <3>2. CASE k = keep
        <4>1. c \in joined
          BY <2>5, <3>1, <3>2
        <4> QED BY <2>8, <3>1, <3>2, <4>1
      <3>3. CASE l = keep
        <4>1. e \in joined
          BY <2>5, <3>1, <3>3
        <4> QED BY <2>8, <3>1, <3>3, <4>1
      <3>4. CASE k # keep /\ l # keep
        <4>1. c \in lanes[k] /\ e \in lanes[l]
          BY <2>5, <3>1, <3>4
        <4> QED BY <3>1, <4>1 DEF Apart
      <3> QED BY <3>2, <3>3, <3>4
    <2> QED BY <2>4, <2>7, <2>9
  <1> QED BY <1>4, <1>5

\* What the plan of the first n domains makes of the plan before.
Onward(p, n) == IF DomainOrder[n] \in InScope THEN Place(p, DomainOrder[n]) ELSE p

\* A function that plans the first k domains.
Plans(g, k) ==
    /\ g = [n \in 0 .. k |-> g[n]]
    /\ \A n \in 0 .. k : g[n] = IF n = 0 THEN <<>> ELSE Onward(g[n - 1], n)

\* There is one for each k.
LEMMA PlansExist == \A k \in Nat : \E g : Plans(g, k)
  <1> DEFINE T == {k \in Nat : ~\E g : Plans(g, k)}
  <1> SUFFICES ASSUME T # {} PROVE FALSE
    OBVIOUS
  <1>1. T \in SUBSET Nat
    OBVIOUS
  <1> HIDE DEF T
  <1>2. PICK k \in T : \A j \in T : k <= j
    BY <1>1, HasLeast
  <1>3. k \in Nat /\ ~\E g : Plans(g, k)
    BY DEF T
  <1>4. CASE k = 0
    <2>1. PICK g : g = [n \in 0 .. 0 |-> <<>>]
      OBVIOUS
    <2>2. g = [n \in 0 .. 0 |-> g[n]] /\ \A n \in 0 .. 0 : n = 0 /\ g[n] = <<>>
      BY <2>1
    <2>3. Plans(g, 0)
      BY <2>2 DEF Plans
    <2> QED BY <1>3, <1>4, <2>3
  <1>5. CASE k # 0
    <2>1. k - 1 \in Nat /\ k - 1 \notin T
      BY <1>2, <1>3, <1>5
    <2>2. PICK g : Plans(g, k - 1)
      BY <2>1 DEF T
    <2>3. PICK z : z = Onward(g[k - 1], k)
      OBVIOUS
    <2>4. PICK h : h = [n \in 0 .. k |-> IF n = k THEN z ELSE g[n]]
      OBVIOUS
    <2>5. h = [n \in 0 .. k |-> h[n]] /\ \A n \in 0 .. k : h[n] = IF n = k THEN z ELSE g[n]
      BY <2>4
    <2>6. ASSUME NEW n \in 0 .. k PROVE h[n] = IF n = 0 THEN <<>> ELSE Onward(h[n - 1], n)
      <3>1. CASE n = k
        <4>1. h[n] = z /\ n # 0 /\ n - 1 \in 0 .. k /\ n - 1 # k
          BY <1>3, <1>5, <2>5, <3>1
        <4>2. h[n - 1] = g[k - 1]
          BY <2>5, <3>1, <4>1
        <4> QED BY <2>3, <3>1, <4>1, <4>2
      <3>2. CASE n # k
        <4>1. n \in 0 .. (k - 1) /\ h[n] = g[n]
          BY <1>3, <2>5, <3>2
        <4>2. g[n] = IF n = 0 THEN <<>> ELSE Onward(g[n - 1], n)
          BY <2>2, <4>1 DEF Plans
        <4>3. n # 0 => h[n - 1] = g[n - 1]
          BY <1>3, <2>5, <4>1
        <4> QED BY <4>1, <4>2, <4>3
      <3> QED BY <3>1, <3>2
    <2>7. Plans(h, k)
      BY <2>5, <2>6 DEF Plans
    <2> QED BY <1>3, <2>7
  <1> QED BY <1>4, <1>5

\* The plan is one.
LEMMA PlannedIs == Plans(Planned, Len(DomainOrder))
  <1> DEFINE N == Len(DomainOrder)
             F(p) == [n \in 0 .. N |-> IF n = 0 THEN <<>>
                            ELSE IF DomainOrder[n] \in InScope THEN Place(p[n - 1], DomainOrder[n]) ELSE p[n - 1]]
  <1>1. N \in Nat
    BY ApplianceAssumption
  <1>2. PICK g : Plans(g, N)
    BY <1>1, PlansExist
  <1>3. g = F(g)
    <2>1. \A n \in 0 .. N : g[n] = IF n = 0 THEN <<>> ELSE IF DomainOrder[n] \in InScope THEN Place(g[n - 1], DomainOrder[n]) ELSE g[n - 1]
      BY <1>2 DEF Plans, Onward
    <2>2. g = [n \in 0 .. N |-> g[n]]
      BY <1>2 DEF Plans
    <2> QED BY <2>1, <2>2
  <1>4. Planned = CHOOSE p : p = F(p)
    BY DEF Planned
  <1>5. Planned = F(Planned)
    <2> HIDE DEF F
    <2> QED BY <1>3, <1>4
  <1>6. \A n \in 0 .. N : F(Planned)[n] = IF n = 0 THEN <<>>
                            ELSE IF DomainOrder[n] \in InScope THEN Place(Planned[n - 1], DomainOrder[n]) ELSE Planned[n - 1]
    OBVIOUS
  <1>7. F(Planned) = [n \in 0 .. N |-> F(Planned)[n]]
    OBVIOUS
  <1> HIDE DEF F
  <1> QED BY <1>5, <1>6, <1>7 DEF Plans, Onward

\* The lanes planned are of the domains of the pass, and apart.
LEMMA PlanApart == planDomainLanes \in Seq(SUBSET SyncDomains) /\ Apart(planDomainLanes)
  <1> DEFINE N == Len(DomainOrder)
             Good(n) == Planned[n] \in Seq(SUBSET UpTo(n)) /\ Apart(Planned[n])
             T == {n \in 0 .. N : ~Good(n)}
  <1>1. N \in Nat /\ DOMAIN DomainOrder = 1 .. N
    BY ApplianceAssumption
  <1>2. \A n \in 0 .. N : Planned[n] = IF n = 0 THEN <<>> ELSE Onward(Planned[n - 1], n)
    BY PlannedIs DEF Plans
  <1>3. ASSUME T # {} PROVE FALSE
    <2>1. T \in SUBSET Nat
      BY <1>1
    <2> HIDE DEF T
    <2>2. PICK k \in T : \A j \in T : k <= j
      BY <1>3, <2>1, HasLeast
    <2>3. k \in 0 .. N /\ ~Good(k)
      BY DEF T
    <2> HIDE DEF Good
    <2>4. CASE k = 0
      <3>1. Planned[k] = <<>>
        BY <1>2, <2>3, <2>4
      <3>2. <<>> \in Seq(SUBSET UpTo(k)) /\ DOMAIN <<>> = {}
        OBVIOUS
      <3>3. Apart(Planned[k])
        BY <3>1, <3>2 DEF Apart
      <3> QED BY <2>3, <3>1, <3>2, <3>3 DEF Good
    <2>5. CASE k # 0
      <3>1. k - 1 \in 0 .. N /\ k - 1 \notin T /\ k \in 1 .. N
        BY <1>1, <2>2, <2>3, <2>5
      <3>2. Good(k - 1)
        BY <3>1 DEF T
      <3>3. PICK p : p = Planned[k - 1]
        OBVIOUS
      <3>4. PICK S : S = UpTo(k - 1)
        OBVIOUS
      <3>5. p \in Seq(SUBSET S) /\ Apart(p)
        BY <3>2, <3>3, <3>4 DEF Good
      <3>6. DomainOrder[k] \notin S
        <4>1. \A i \in 1 .. k - 1 : i \in 1 .. N /\ i # k
          BY <1>1, <3>1
        <4> QED BY <1>1, <3>1, <3>4, <4>1, ApplianceAssumption DEF UpTo, IsInjective
      <3>7. UpTo(k) = S \cup {DomainOrder[k]}
        <4>1. 1 .. k = (1 .. k - 1) \cup {k}
          BY <3>1
        <4> QED BY <3>4, <4>1 DEF UpTo
      <3>8. Planned[k] = Onward(p, k)
        BY <1>2, <2>3, <2>5, <3>3
      <3>9. CASE DomainOrder[k] \in InScope
        <4>1. Planned[k] = Place(p, DomainOrder[k])
          BY <3>8, <3>9 DEF Onward
        <4>2. Place(p, DomainOrder[k]) \in Seq(SUBSET (S \cup {DomainOrder[k]})) /\ Apart(Place(p, DomainOrder[k]))
          BY <3>5, <3>6, PlaceKeeps
        <4> QED BY <2>3, <3>7, <4>1, <4>2 DEF Good
      <3>10. CASE DomainOrder[k] \notin InScope
        <4>1. Planned[k] = p
          BY <3>8, <3>10 DEF Onward
        <4>2. p \in Seq(SUBSET (S \cup {DomainOrder[k]}))
          BY <3>5
        <4> QED BY <2>3, <3>5, <3>7, <4>1, <4>2 DEF Good
      <3> QED BY <3>9, <3>10
    <2> QED BY <2>4, <2>5
  <1>4. Good(N)
    BY <1>1, <1>3
  <1>5. UpTo(N) = SyncDomains
    BY <1>1 DEF UpTo, SyncDomains, Range
  <1> QED BY <1>4, <1>5 DEF planDomainLanes

-----------------------------------------------------------------------------
(* One host at a time.                                                     *)

Flight == [at: {"none", "ask", "unschedule", "open", "lanes"}, lanes: Seq(SUBSET SyncDomains),
           begun: SUBSET SyncDomains, ended: SUBSET SyncDomains, failed: SUBSET SyncDomains]

\* A pass in flight: nothing is begun before the lanes are planned, they are apart, and
\* of what is begun and not over there is one domain in each lane.
Orderly(f) ==
    /\ f.at # "lanes" => f.begun = {}
    /\ Apart(f.lanes)
    /\ f.begun \subseteq UNION {f.lanes[k] : k \in DOMAIN f.lanes}
    /\ \A k \in DOMAIN f.lanes : \A d, e \in f.lanes[k] \cap (f.begun \ f.ended) : d = e
FlightInv == flight \in Flight /\ Orderly(flight)

\* With no pass, or one that has only been fired, nothing is begun.
LEMMA FlightStarts == NoFlight \in Flight /\ Orderly(NoFlight) /\ Flying \in Flight /\ Orderly(Flying)
  <1>1. <<>> \in Seq(SUBSET SyncDomains) /\ DOMAIN <<>> = {}
    OBVIOUS
  <1>2. NoFlight \in Flight /\ NoFlight.lanes = <<>> /\ NoFlight.begun = {} /\ NoFlight.at = "none"
    BY <1>1 DEF NoFlight, Flight
  <1>3. Flying \in Flight /\ Flying.lanes = <<>> /\ Flying.begun = {} /\ Flying.at = "ask"
    BY <1>1 DEF NoFlight, Flight, Flying
  <1> QED BY <1>1, <1>2, <1>3 DEF Orderly, Apart

\* Of the domains that are left of a lane there is a first.
LEMMA FirstIs ==
    ASSUME NEW ds \in SUBSET SyncDomains, ds # {}
    PROVE  First(ds) \in ds
  <1>1. ASSUME NEW d \in SyncDomains PROVE Rank(d) \in Nat
    <2>1. \E k \in DOMAIN DomainOrder : DomainOrder[k] = d
      BY DEF SyncDomains, Range
    <2>2. Rank(d) \in DOMAIN DomainOrder
      BY <2>1 DEF Rank
    <2> QED BY <2>2, ApplianceAssumption
  <1>2. PICK R : R = {Rank(d) : d \in ds}
    OBVIOUS
  <1>3. R \in SUBSET Nat /\ R # {}
    BY <1>1, <1>2
  <1>4. PICK r \in R : \A q \in R : r <= q
    BY <1>3, HasLeast
  <1>5. \E d \in ds : \A e \in ds : Rank(d) <= Rank(e)
    BY <1>2, <1>4
  <1> QED BY <1>5 DEF First

\* A step that leaves the hosts and the flight leaves the invariant; so does one that
\* ends a pass or fires one.
LEMMA FlightKeeps ==
    ASSUME FlightInv, UNCHANGED hosts, flight' \in {flight, NoFlight, Flying}
    PROVE  FlightInv'
  <1>2. CASE flight' = flight
    BY <1>2 DEF FlightInv, Orderly, Apart
  <1>3. CASE flight' = NoFlight
    BY <1>3, FlightStarts DEF FlightInv, Orderly, Apart
  <1>4. CASE flight' = Flying
    BY <1>4, FlightStarts DEF FlightInv, Orderly, Apart
  <1> QED BY <1>2, <1>3, <1>4

\* Every step of the appliance keeps it.
LEMMA FlightStep ==
    ASSUME FlightInv, [ApplianceNext]_applianceVars
    PROVE  FlightInv'
  <1>1. PICK f \in Flight : f = flight
    BY DEF FlightInv
  <1>2. Orderly(f)
    BY <1>1 DEF FlightInv
  <1>3. CASE Boot \/ Stop \/ Tick \/ SkipPass \/ (\E closed \in BOOLEAN : CloseRun(closed)) \/ PassThrows \/ UNCHANGED applianceVars
    <2>1. UNCHANGED hosts /\ flight' \in {flight, NoFlight, Flying}
      BY <1>3 DEF Boot, Stop, Tick, SkipPass, CloseRun, PassThrows, applianceVars, Untouched, config, RunOnce
    <2> QED BY <2>1, FlightKeeps
  <1>4. CASE Requests
    <2>1. UNCHANGED hosts /\ flight' \in {flight, NoFlight, Flying}
      BY <1>4 DEF Requests, Serve, StartAsks, RunAsks, FinishAsks, Ask, StartActivates, StartSchedules, FinishCounts, FinishWrites,
                  FinishUnschedules, RunNow, RunOnce, Untouched, config
    <2> QED BY <2>1, FlightKeeps
  <1>5. CASE RunMapping
    <2>1. UNCHANGED hosts /\ f.at = "ask"
      BY <1>1, <1>5 DEF RunMapping, RunMappingAsks, Untouched, config
    <2>2. PICK a \in {"open", "unschedule"} : flight' = [f EXCEPT !.at = a]
      BY <1>1, <1>5 DEF RunMapping, RunMappingAsks
    <2>3. PICK g \in Flight : g = flight' /\ g.at = a /\ g.lanes = f.lanes /\ g.begun = f.begun /\ g.ended = f.ended
      BY <2>2 DEF Flight
    <2>4. Orderly(g)
      BY <1>2, <2>1, <2>3 DEF Orderly
    <2> QED BY <2>1, <2>3, <2>4 DEF FlightInv, Orderly, Apart
  <1>6. ASSUME NEW opened \in BOOLEAN, OpenRun(opened)
        PROVE  FlightInv'
    <2>1. UNCHANGED hosts /\ f.at = "open"
      BY <1>1, <1>6 DEF OpenRun, Untouched, config
    <2>2. PICK lanes \in Seq(SUBSET SyncDomains) : lanes = planDomainLanes /\ Apart(lanes)
      BY PlanApart
    <2>3. flight' = [f EXCEPT !.at = "lanes", !.lanes = lanes]
      BY <1>1, <1>6, <2>2 DEF OpenRun
    <2>4. PICK g \in Flight : g = flight' /\ g.at = "lanes" /\ g.lanes = lanes /\ g.begun = f.begun /\ g.ended = f.ended
      <3>1. PICK h : h = [f EXCEPT !.at = "lanes"]
        OBVIOUS
      <3>2. h \in Flight /\ h.at = "lanes" /\ h.begun = f.begun /\ h.ended = f.ended
        BY <3>1 DEF Flight
      <3>3. PICK g : g = [h EXCEPT !.lanes = lanes]
        OBVIOUS
      <3>4. g \in Flight /\ g.lanes = lanes /\ g.at = h.at /\ g.begun = h.begun /\ g.ended = h.ended
        BY <3>2, <3>3 DEF Flight
      <3>5. g = flight'
        BY <2>3, <3>1, <3>3
      <3> QED BY <3>2, <3>4, <3>5
    <2>5. Orderly(g)
      BY <1>2, <2>1, <2>2, <2>4 DEF Orderly
    <2> QED BY <2>1, <2>4, <2>5 DEF FlightInv, Orderly, Apart
  <1>7. ASSUME NEW k \in DOMAIN flight.lanes, RunOneDomain(k)
        PROVE  FlightInv'
    <2>1. UNCHANGED hosts /\ f.at = "lanes" /\ k \in DOMAIN f.lanes
      BY <1>1, <1>7 DEF RunOneDomain, Untouched, config
    <2>2. /\ f.lanes \in Seq(SUBSET SyncDomains) /\ f.begun \in SUBSET SyncDomains /\ f.ended \in SUBSET SyncDomains
          /\ f.lanes[k] \in SUBSET SyncDomains
      <3>1. f.lanes \in Seq(SUBSET SyncDomains) /\ f.begun \in SUBSET SyncDomains /\ f.ended \in SUBSET SyncDomains
        BY DEF Flight
      <3> QED BY <2>1, <3>1
    <2>3. PICK d : d = First(f.lanes[k] \ f.begun) /\ d \in f.lanes[k] \ f.begun
      <3>1. f.lanes[k] \ f.begun # {} /\ f.lanes[k] \ f.begun \in SUBSET SyncDomains
        BY <1>1, <1>7, <2>2 DEF RunOneDomain
      <3> QED BY <3>1, FirstIs
    <2>4. f.lanes[k] \cap (f.begun \ f.ended) = {}
      BY <1>1, <1>7 DEF RunOneDomain, InProgress
    <2>5. flight' = [f EXCEPT !.begun = f.begun \cup {d}]
      BY <1>1, <1>7, <2>3 DEF RunOneDomain
    <2>6. d \in SyncDomains
      BY <2>2, <2>3
    <2>7. PICK g \in Flight : g = flight' /\ g.at = f.at /\ g.lanes = f.lanes /\ g.begun = f.begun \cup {d} /\ g.ended = f.ended
      BY <2>5, <2>6 DEF Flight
    <2>8. ASSUME NEW l \in DOMAIN f.lanes, NEW b \in f.lanes[l] \cap (g.begun \ g.ended), NEW c \in f.lanes[l] \cap (g.begun \ g.ended)
          PROVE  b = c
      <3>1. CASE l = k
        <4>1. \A x \in f.lanes[k] \cap (g.begun \ g.ended) : x = d
          BY <2>4, <2>7
        <4> QED BY <2>8, <3>1, <4>1
      <3>2. CASE l # k
        <4>1. d \notin f.lanes[l]
          BY <1>2, <2>1, <2>3, <3>2 DEF Orderly, Apart
        <4>2. b \in f.begun \ f.ended /\ c \in f.begun \ f.ended
          BY <2>7, <4>1
        <4> QED BY <1>2, <4>2 DEF Orderly
      <3> QED BY <3>1, <3>2
    <2>9. Orderly(g)
      <3>1. g.begun \subseteq UNION {g.lanes[l] : l \in DOMAIN g.lanes}
        BY <1>2, <2>1, <2>3, <2>7 DEF Orderly
      <3> QED BY <1>2, <2>1, <2>7, <2>8, <3>1 DEF Orderly
    <2> QED BY <2>1, <2>7, <2>9 DEF FlightInv, Orderly, Apart
  <1>8. ASSUME NEW d \in SyncDomains, NEW ok \in BOOLEAN, NEW left \in BOOLEAN, DomainOver(d, ok, left)
        PROVE  FlightInv'
    <2>1. UNCHANGED hosts
      BY <1>8 DEF DomainOver, Untouched, config
    <2>2. PICK x \in SUBSET SyncDomains : x = IF ok THEN f.failed ELSE f.failed \cup {d}
      BY DEF Flight
    <2>3. flight' = [f EXCEPT !.ended = f.ended \cup {d}, !.failed = x]
      BY <1>1, <1>8, <2>2 DEF DomainOver
    <2>4. f.ended \cup {d} \in SUBSET SyncDomains
      BY DEF Flight
    <2>5. PICK g \in Flight : g = flight' /\ g.at = f.at /\ g.lanes = f.lanes /\ g.begun = f.begun /\ g.ended = f.ended \cup {d}
      <3>1. PICK h : h = [f EXCEPT !.ended = f.ended \cup {d}]
        OBVIOUS
      <3>2. h \in Flight /\ h.ended = f.ended \cup {d} /\ h.at = f.at /\ h.lanes = f.lanes /\ h.begun = f.begun
        BY <2>4, <3>1 DEF Flight
      <3>3. PICK g : g = [h EXCEPT !.failed = x]
        OBVIOUS
      <3>4. g \in Flight /\ g.at = h.at /\ g.lanes = h.lanes /\ g.begun = h.begun /\ g.ended = h.ended
        BY <3>2, <3>3 DEF Flight
      <3>5. g = flight'
        BY <2>3, <3>1, <3>3
      <3> QED BY <3>2, <3>4, <3>5
    <2>6. Orderly(g)
      <3>1. g.begun \ g.ended \subseteq f.begun \ f.ended
        BY <2>5
      <3> QED BY <1>2, <2>5, <3>1 DEF Orderly
    <2> QED BY <2>1, <2>5, <2>6 DEF FlightInv, Orderly, Apart
  <1> QED BY <1>3, <1>4, <1>5, <1>6, <1>7, <1>8 DEF ApplianceNext, Unattended, Pass

\* However the endpoints of the domains are spread over servers: no two domains at work
\* at once, in one pass or in any, name a host in common (planDomainLanes).
THEOREM LanesShareNoHost == ApplianceSpec => []OneHostAtATime
  <1>1. ApplianceInit => FlightInv
    BY FlightStarts DEF ApplianceInit, FlightInv
  <1>2. FlightInv /\ [ApplianceNext]_applianceVars => FlightInv'
    BY FlightStep
  <1>3. FlightInv => OneHostAtATime
    <2> SUFFICES ASSUME FlightInv, NEW d \in InProgress, NEW e \in InProgress, d # e PROVE hosts[d] \cap hosts[e] = {}
      BY DEF OneHostAtATime
    <2>1. PICK k \in DOMAIN flight.lanes : d \in flight.lanes[k]
      BY DEF FlightInv, Orderly, InProgress
    <2>2. PICK l \in DOMAIN flight.lanes : e \in flight.lanes[l]
      BY DEF FlightInv, Orderly, InProgress
    <2>3. k # l
      BY <2>1, <2>2 DEF FlightInv, Orderly, InProgress
    <2> QED BY <2>1, <2>2, <2>3 DEF FlightInv, Orderly, Apart
  <1> QED BY <1>1, <1>2, <1>3, PTL DEF ApplianceSpec

=============================================================================
