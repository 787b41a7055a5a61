------------------------- MODULE ApplyRemovalProofs -------------------------
(***************************************************************************)
(* What the jobs that remove copies keep, for every number of jobs, items  *)
(* and folders, beside the passes whose invariants DomainSyncProofs        *)
(* proves.                                                                 *)
(***************************************************************************)
EXTENDS ApplyRemoval, DomainSyncProofs, FiniteSetTheorems

USE LedgerAssumption, SyncAssumption, ApplyAssumption

-----------------------------------------------------------------------------
(* Type correctness.                                                       *)

JobsOK ==
    /\ job \in [Jobs -> Job]
    /\ \A j \in Jobs : job[j].at # "none" => job[j].key \in Keys
    /\ unrecorded \subseteq Keys
    /\ erased \subseteq Keys /\ movedToo \subseteq erased

\* The statements that tombstone a row leave a row, of the same item and place.
LEMMA RemovalRows ==
    ASSUME NEW row \in Row, NEW r \in {applyDeletion(row), applyRelocation(row)}
    PROVE  /\ r \in Row /\ r.status = "tombstoned" /\ r.collection = row.collection
           /\ r.deletionApplied /\ r.movedToNaturalKeyHash = row.movedToNaturalKeyHash
<1>1. CASE r = applyDeletion(row) BY <1>1 DEF applyDeletion, Row, Statuses
<1>2. CASE r = applyRelocation(row)
  <2> DEFINE b == \/ row.deletionAcknowledged \/ row.deletionReported
                  \/ row.deletionTrashed \/ row.absentPasses > 0
  <2>1. b \in BOOLEAN BY DEF Row
  <2>2. r = [row EXCEPT !.status = "tombstoned", !.deletionApplied = TRUE,
                        !.moveAcknowledged = TRUE, !.deletionAcknowledged = b]
    BY <1>2 DEF applyRelocation
  <2> HIDE DEF b
  <2> QED BY <2>1, <2>2 DEF Row, Statuses
<1> QED BY <1>1, <1>2

\* An empty slot is a job.
LEMMA NoJobType == NoJob \in Job
  BY NoRowType DEF NoJob, Job

\* What recording does: the row is tombstoned, or left as it is and reported.
LEMMA RecordEffect ==
    ASSUME RowsOK, JobsOK, NEW j \in Jobs, Record(j)
    PROVE  LET k == job[j].key IN
           /\ k \in Keys /\ job' = [job EXCEPT ![j] = NoJob]
           /\ UNCHANGED <<world, used, phase, passVars>>
           /\ \/ /\ ledger' = [ledger EXCEPT ![k] = applyDeletion(ledger[k])]
                 /\ job[j].kind = "deletion" /\ CanApplyDeletion(ledger[k])
                 /\ unrecorded' = unrecorded /\ erased' = erased \cup {k}
                 /\ movedToo' = IF ledger[k].movedToNaturalKeyHash # None
                                THEN movedToo \cup {k} ELSE movedToo
              \/ /\ ledger' = [ledger EXCEPT ![k] = applyRelocation(ledger[k])]
                 /\ CanApplyRelocation(ledger, k)
                 /\ UNCHANGED <<unrecorded, erased, movedToo>>
              \/ /\ ledger' = ledger /\ unrecorded' = unrecorded \cup {k}
                 /\ UNCHANGED <<erased, movedToo>>
<1> DEFINE k == job[j].key
           deletion == job[j].kind = "deletion"
           can == IF deletion THEN CanApplyDeletion(ledger[k]) ELSE CanApplyRelocation(ledger, k)
<1>1. /\ k \in Keys /\ job' = [job EXCEPT ![j] = NoJob]
      /\ UNCHANGED <<world, used, phase, passVars>>
  BY DEF Record, Closes, JobsOK
<1>2. /\ ledger' = [ledger EXCEPT ![k] = IF ~can THEN @
                       ELSE IF deletion THEN applyDeletion(@) ELSE applyRelocation(@)]
      /\ unrecorded' = IF can THEN unrecorded ELSE unrecorded \cup {k}
      /\ erased' = IF can /\ deletion THEN erased \cup {k} ELSE erased
      /\ movedToo' = IF can /\ deletion /\ ledger[k].movedToNaturalKeyHash # None
                     THEN movedToo \cup {k} ELSE movedToo
  BY DEF Record
<1>3. CASE ~can
  <2> HIDE DEF can
  <2>1. ledger' = ledger BY <1>1, <1>2, <1>3 DEF RowsOK
  <2> QED BY <1>1, <1>2, <1>3, <2>1
<1>4. CASE can /\ deletion BY <1>1, <1>2, <1>4
<1>5. CASE can /\ ~deletion BY <1>1, <1>2, <1>5
<1> QED BY <1>3, <1>4, <1>5

\* What the steps of a job leave alone: the pass and the source, and, but for
\* the removal and its record, the target and the rows.
LEMMA JobFrame ==
    ASSUME NEW j \in Jobs, JobSteps(j)
    PROVE  /\ UNCHANGED <<src, trash, cursor, fresh, clearing, phase, passVars>>
           /\ used'.owner = used.owner
           /\ ~Remove(j) => UNCHANGED tgt
           /\ ~Record(j) => UNCHANGED <<ledger, erased, movedToo>>
           /\ ~Record(j) /\ ~JobFails(j) => UNCHANGED unrecorded
<1>1. ASSUME NEW kind, Fault(kind) PROVE used'.owner = used.owner BY <1>1 DEF Fault
<1>2. ASSUME NEW k \in Keys, NEW kind, Open(j, k, kind)
      PROVE  UNCHANGED <<vars, unrecorded, erased, movedToo>>
  BY <1>2 DEF Open
<1>3. ASSUME NEW answered, CheckVersion(j, answered)
      PROVE  UNCHANGED <<world, ledger, phase, passVars, unrecorded, erased, movedToo>>
             /\ used'.owner = used.owner
  BY <1>1, <1>3 DEF CheckVersion
<1> QED BY <1>1, <1>2, <1>3
        DEF JobSteps, ConfirmArrival, Remove, Record, JobFails, vars, world

\* One job moves at a time: it opens on the row as it stands, goes on with what
\* it has read, or closes.
LEMMA JobMoves ==
    ASSUME JobsOK, NEW j \in Jobs, JobSteps(j)
    PROVE  \/ Closes(j)
           \/ \E at \in {"confirmed", "checked", "removed"} :
                 Advances(j, at) /\ job[j].at # "none"
           \/ \E k \in Keys, kind \in {"deletion", "relocation"} : Open(j, k, kind)
<1>1. ASSUME NEW answered, CheckVersion(j, answered)
      PROVE  Closes(j) \/ (Advances(j, "checked") /\ job[j].at # "none")
  BY <1>1 DEF CheckVersion
<1>2. ConfirmArrival(j) => Closes(j) \/ (Advances(j, "confirmed") /\ job[j].at # "none")
  BY DEF ConfirmArrival
<1>3. Remove(j) => Advances(j, "removed") /\ job[j].at # "none" BY DEF Remove
<1>4. Record(j) \/ JobFails(j) => Closes(j) BY DEF Record, JobFails
<1> QED BY <1>1, <1>2, <1>3, <1>4 DEF JobSteps

\* The steps of a job keep the types.
LEMMA JobTypes ==
    ASSUME TypeOK, WorkersOK, JobsOK, NEW j \in Jobs, JobSteps(j)
    PROVE  TypeOK' /\ WorkersOK' /\ JobsOK'
<1> WorldOK /\ UsedOK /\ RowsOK /\ FolderOK /\ WorkOK BY TypeParts
<1>f. /\ UNCHANGED <<src, trash, cursor, fresh, clearing, phase, passVars>>
      /\ ~Remove(j) => UNCHANGED tgt
      /\ ~Record(j) => UNCHANGED <<ledger, erased, movedToo>>
      /\ ~Record(j) /\ ~JobFails(j) => UNCHANGED unrecorded
  BY JobFrame
<1>1. UsedOK'
  <2>1. UNCHANGED used \/ \E kind : Fault(kind)
    BY DEF JobSteps, Open, CheckVersion, ConfirmArrival, Remove, Record, JobFails, vars
  <2> QED BY <2>1, UsedStep, Spends
<1>2. WorldOK'
  <2>1. tgt' \in [Places -> Contents \cup {None, Theirs}] BY <1>f DEF Remove, WorldOK
  <2> QED BY <1>f, <2>1 DEF WorldOK, Present, PlaceOf
<1>3. RowsOK'
  <2>1. CASE Record(j)
    <3> DEFINE k == job[j].key
    <3>1. /\ k \in Keys
          /\ \/ ledger' = [ledger EXCEPT ![k] = applyDeletion(ledger[k])]
             \/ ledger' = [ledger EXCEPT ![k] = applyRelocation(ledger[k])]
             \/ ledger' = ledger
      BY <2>1, RecordEffect
    <3> HIDE DEF k
    <3>2. ledger[k] \in Row BY <3>1 DEF RowsOK
    <3>3. applyDeletion(ledger[k]) \in Row /\ applyRelocation(ledger[k]) \in Row
      BY <3>2, RemovalRows
    <3> QED BY <3>1, <3>3 DEF RowsOK
  <2> QED BY <1>f, <2>1 DEF RowsOK
<1>4. FolderOK' /\ WorkOK' /\ WorkersOK'
  BY <1>f, FolderKept, WorkKept, WorkersKept DEF passVars
<1>5. JobsOK'
  <2>1. /\ job' \in [Jobs -> Job]
        /\ \A i \in Jobs : job'[i].at # "none" => job'[i].key \in Keys
    <3>1. CASE Closes(j) BY <3>1, NoJobType DEF Closes, JobsOK, NoJob
    <3>2. ASSUME NEW at \in {"confirmed", "checked", "removed"}, Advances(j, at),
                 job[j].at # "none"
          PROVE  /\ job' \in [Jobs -> Job]
                 /\ \A i \in Jobs : job'[i].at # "none" => job'[i].key \in Keys
      BY <3>2 DEF Advances, JobsOK, Job
    <3>3. ASSUME NEW k \in Keys, NEW kind \in {"deletion", "relocation"}, Open(j, k, kind)
          PROVE  /\ job' \in [Jobs -> Job]
                 /\ \A i \in Jobs : job'[i].at # "none" => job'[i].key \in Keys
      <4> DEFINE v == [at |-> IF kind = "deletion" THEN "confirmed" ELSE "gated",
                       kind |-> kind, key |-> k, row |-> ledger[k]]
      <4>1. v \in Job /\ v.key = k BY DEF Job, RowsOK
      <4>2. job' = [job EXCEPT ![j] = v] BY <3>3 DEF Open
      <4> HIDE DEF v
      <4> QED BY <4>1, <4>2 DEF JobsOK
    <3> QED BY <3>1, <3>2, <3>3, JobMoves
  <2>3. /\ unrecorded' \subseteq Keys
        /\ erased' \subseteq Keys /\ movedToo' \subseteq erased'
    <3>1. CASE Record(j) BY <3>1, RecordEffect DEF JobsOK
    <3>2. CASE JobFails(j) /\ ~Record(j) BY <1>f, <3>2 DEF JobFails, JobsOK
    <3> QED BY <1>f, <3>1, <3>2 DEF JobsOK
  <2> QED BY <2>1, <2>3 DEF JobsOK
<1> QED BY <1>1, <1>2, <1>3, <1>4, <1>5, TypePartsNext

TypesHold == TypeOK /\ WorkersOK /\ JobsOK

\* Every step keeps the types ...
LEMMA ApplyTypeNext ==
    ASSUME TypesHold, [ApplyNext]_allVars
    PROVE  TypesHold'
<1> USE DEF TypesHold
<1>1. ASSUME [Next]_vars, UNCHANGED applyVars PROVE TypesHold'
  BY <1>1, SyncTypeNext DEF applyVars, JobsOK
<1>2. ASSUME NEW j \in Jobs, JobSteps(j) PROVE TypesHold' BY <1>2, JobTypes
<1> QED BY <1>1, <1>2 DEF ApplyNext, BesideJobs, allVars

\* ... which hold at the start.
LEMMA ApplyTypeInit == ApplyInit => TypesHold
<1> SUFFICES ASSUME ApplyInit PROVE TypesHold
  OBVIOUS
<1>1. TypeOK /\ WorkersOK BY SyncTypeInit, OutOK DEF ApplyInit, Init, NoPass, WorkersOK
<1>2. JobsOK BY NoJobType DEF ApplyInit, JobsOK, NoJob
<1> QED BY <1>1, <1>2 DEF TypesHold

\* The rows, the target, the passes and the jobs are well typed in every reachable
\* state, whoever acts while a job is open: the two statements that tombstone a row
\* store what the columns can hold.
THEOREM ApplyTypeCorrect == ApplySpec => []ApplyTypeOK
<1>1. TypesHold => ApplyTypeOK BY DEF TypesHold, ApplyTypeOK, JobsOK
<1> QED BY <1>1, ApplyTypeInit, ApplyTypeNext, PTL DEF ApplySpec

-----------------------------------------------------------------------------
(* Nobody's bytes but ours are destroyed.  The jobs rest on the invariant  *)
(* of the passes and keep it, even beside a running pass: a removal leaves *)
(* nothing to be overwritten, and a tombstone claims no copy.              *)

\* A job holds a row of ours with its version, and once it has asked the target,
\* what it is about to remove is not somebody else's.
JobSafe(j) ==
    /\ job[j].at # "none" => job[j].row.targetVersion # None
    /\ job[j].at = "checked" =>
          \A p \in Places : p = CopyOf(job[j].key, job[j].row) => tgt[p] # Theirs

JobsSafe == \A j \in Jobs : JobSafe(j)

ApplySafe == TypesHold /\ Safe /\ JobsSafe

\* A step of a pass or of its surroundings makes bytes the owner's only when the
\* owner takes it.
LEMMA OnlyOwnerMakesTheirs ==
    ASSUME TypeOK, WorkersOK, [Next]_vars, NEW p \in Places, tgt[p] # Theirs,
           used'.owner = used.owner
    PROVE  tgt'[p] # Theirs
<1> WorldOK /\ UsedOK /\ RowsOK /\ FolderOK /\ WorkOK BY TypeParts
<1>1. ASSUME NEW q \in Places, OwnerChange(q) PROVE FALSE
  BY <1>1 DEF OwnerChange, May, UsedOK
<1>2. ASSUME NEW k \in Keys, ItemSteps(k) PROVE tgt'[p] # Theirs
  <2>1. UNCHANGED tgt \/ (work[k].at = "put" /\ here # None /\ Lands(k))
    BY <1>2 DEF ItemSteps, TakeItem, SettleItem, FetchItem, FetchFails, CheckOwnership,
                CheckExisting, PutItem, PutFails, RecordItem, RecordConflict, ItemStep, world,
                resolveReportedRemoval, resolveDiscardedItem, detectPathKeyedMove, Inspects
  <2>2. work[k].at = "put" => work[k].raw \in Contents BY DEF WorkersOK, WorkerOK
  <2> QED BY <2>1, <2>2 DEF Lands, WorldOK
<1>3. ASSUME Environment PROVE UNCHANGED tgt
  BY <1>1, <1>3 DEF Environment, SourceChange, SourceRename, AcceptFailure, RetryFailure,
                    KeepMove, KeepDeletion, ClearCursors, Crash, world
<1>4. ASSUME PassSteps, ~\E k \in Keys : ItemSteps(k) PROVE UNCHANGED tgt
  BY <1>4 DEF PassSteps, StartPass, ListFolder, FinishFolder, AbortPass, BeginRemovals,
              BeginDiscarded, BeginMoves, Proceed, EndPass, world
<1> QED BY <1>2, <1>3, <1>4 DEF Next, vars

\* The steps of a job keep the invariant of the passes.
LEMMA JobKeepsSafe ==
    ASSUME TypesHold, Safe, NEW j \in Jobs, JobSteps(j)
    PROVE  Safe'
<1> USE DEF TypesHold
<1> WorldOK /\ UsedOK /\ RowsOK /\ FolderOK /\ WorkOK BY TypeParts
<1>t. TypeOK' /\ WorkersOK' BY JobTypes
<1>f. /\ UNCHANGED <<phase, todo, here, snapped, snap, work>>
      /\ ~Remove(j) => UNCHANGED tgt
      /\ ~Record(j) => UNCHANGED ledger
  BY JobFrame DEF passVars
<1>p. PassIsFresh' BY <1>f DEF Safe, PassIsFresh
<1>1. CASE Remove(j)
  <2>1. UNCHANGED ledger BY <1>1 DEF Remove
  <2>2. \A p \in Places : tgt'[p] = tgt[p] \/ tgt'[p] = None BY <1>1 DEF Remove, WorldOK
  <2>3. RowsSafe' BY <2>1 DEF Safe, RowsSafe
  <2>4. SnapshotComplete' BY <1>f, <2>2 DEF Safe, SnapshotComplete, Ahead
  <2>5. ASSUME NEW k \in Keys
        PROVE  WorkerSafe(k, work'[k], ledger'[k], tgt'[<<here', k>>], here')
    <3>1. WorkerSafe(k, work[k], ledger[k], tgt[<<here, k>>], here) BY DEF Safe, WorkersSafe
    <3>2. CASE work[k].at = "put"
      <4>1. <<here, k>> \in Places BY <3>2 DEF WorkersOK, WorkerOK
      <4> QED BY <1>f, <2>1, <2>2, <3>1, <4>1 DEF WorkerSafe
    <3>3. CASE work[k].at # "put" BY <1>f, <2>1, <3>1, <3>3 DEF WorkerSafe
    <3> QED BY <3>2, <3>3
  <2>6. WorkersSafe' BY <2>5 DEF WorkersSafe
  <2> QED BY <1>t, <1>p, <2>3, <2>4, <2>6 DEF Safe
<1>2. CASE ~Remove(j)
  <2>1. UNCHANGED tgt BY <1>f, <1>2
  <2>2. ASSUME NEW k \in Keys PROVE ClaimsNoMore(ledger[k], ledger'[k])
    <3>l. ledger[k] \in Row BY DEF RowsOK
    <3>u. ClaimsNoMore(ledger[k], ledger[k]) BY <3>l, StatementsClaimNoMore
    <3>1. ASSUME NEW r \in {applyDeletion(ledger[k]), applyRelocation(ledger[k])}
          PROVE  ClaimsNoMore(ledger[k], r)
      BY <3>l, RemovalRows DEF ClaimsNoMore, isOnTarget, WroteIt, Found
    <3>2. CASE Record(j) BY <3>u, <3>1, <3>2, RecordEffect DEF RowsOK
    <3> QED BY <1>f, <3>u, <3>2
  <2>3. RowsSafe' /\ WorkersSafe' BY <1>f, <2>1, <2>2, QuietSafe DEF Safe
  <2>4. SnapshotComplete' BY <1>f, <2>1, SnapshotKept DEF Safe
  <2> QED BY <1>t, <1>p, <2>3, <2>4 DEF Safe
<1> QED BY <1>1, <1>2

\* The steps of a job keep what is known of the jobs: the target answers the HEAD,
\* and its answer is not somebody else's version.
LEMMA JobsStaySafe ==
    ASSUME Protected, ApplySafe, NEW j \in Jobs, JobSteps(j)
    PROVE  JobsSafe'
<1> USE DEF ApplySafe, TypesHold
<1> WorldOK /\ UsedOK /\ RowsOK /\ FolderOK /\ WorkOK BY TypeParts
<1>1. \A p \in Places : tgt'[p] = tgt[p] \/ tgt'[p] = None
  BY JobFrame DEF Remove, WorldOK
<1>2. ASSUME NEW i \in Jobs, job'[i] = job[i] PROVE JobSafe(i)'
  BY <1>1, <1>2 DEF JobsSafe, JobSafe, CopyOf
<1>3. ASSUME NEW i \in Jobs, i # j PROVE job'[i] = job[i]
  BY <1>3, JobMoves DEF Closes, Advances, Open, JobsOK
<1>4. JobSafe(j)'
  <2>0. ASSUME NEW at \in {"confirmed", "removed"}, Advances(j, at), job[j].at # "none"
        PROVE  JobSafe(j)'
    <3>1. job'[j].at = at /\ job'[j].row = job[j].row BY <2>0 DEF Advances, JobsOK, Job
    <3> QED BY <2>0, <3>1 DEF JobSafe, JobsSafe
  <2>c. ASSUME Closes(j) PROVE JobSafe(j)'
    <3>1. job'[j].at = "none" BY <2>c DEF Closes, JobsOK, NoJob
    <3> QED BY <3>1 DEF JobSafe
  <2>1. ASSUME NEW k \in Keys, NEW kind \in {"deletion", "relocation"}, Open(j, k, kind)
        PROVE  JobSafe(j)'
    <3>1. job'[j].at # "checked" /\ job'[j].row = ledger[k] BY <2>1 DEF Open, JobsOK
    <3>2. WroteIt(ledger[k]) BY <2>1 DEF Open, deletionGates, relocationGates
    <3>3. RowSafe(ledger[k]) BY DEF Safe, RowsSafe
    <3> QED BY <3>1, <3>2, <3>3 DEF JobSafe, RowSafe
  <2>2. ASSUME NEW answered \in BOOLEAN, CheckVersion(j, answered) PROVE JobSafe(j)'
    <3> DEFINE row == job[j].row
               here0 == CopyOf(job[j].key, row)
    <3>1. answered /\ job[j].at = "confirmed" /\ UNCHANGED tgt
      BY <2>2 DEF CheckVersion, Fault, Protected, world
    <3>2. row.targetVersion \in Contents
      BY <3>1 DEF JobsSafe, JobSafe, JobsOK, Job, Row
    <3>3. CASE ownershipOf(row.targetVersion, tgt[here0]) = "changed"
      BY <2>2, <2>c, <3>1, <3>3 DEF CheckVersion
    <3>4. CASE ownershipOf(row.targetVersion, tgt[here0]) # "changed"
      <4>1. tgt[here0] # Theirs BY <3>2, <3>4 DEF ownershipOf
      <4>2. Advances(j, "checked") BY <2>2, <3>1, <3>4 DEF CheckVersion
      <4>3. job'[j].at = "checked" /\ job'[j].row = row /\ job'[j].key = job[j].key
        BY <4>2 DEF Advances, JobsOK, Job
      <4> QED BY <3>1, <3>2, <4>1, <4>3 DEF JobSafe
    <3> QED BY <3>3, <3>4
  <2>3. CASE ConfirmArrival(j) BY <2>0, <2>c, <2>3 DEF ConfirmArrival
  <2>4. CASE Remove(j) BY <2>0, <2>4 DEF Remove
  <2>5. CASE Record(j) \/ JobFails(j) BY <2>c, <2>5 DEF Record, JobFails
  <2> QED BY <2>1, <2>2, <2>3, <2>4, <2>5 DEF JobSteps
<1> QED BY <1>2, <1>3, <1>4 DEF JobsSafe

\* Every step keeps the invariant, if the owner stays away while a job is open.
LEMMA ApplySafeNext ==
    ASSUME Protected, "owner" \notin DuringJob, ApplySafe, [ApplyNext]_allVars
    PROVE  ApplySafe'
<1> USE DEF ApplySafe
<1>1. TypesHold' BY ApplyTypeNext
<1>2. ASSUME NEW j \in Jobs, JobSteps(j) PROVE Safe' /\ JobsSafe'
  BY <1>2, JobKeepsSafe, JobsStaySafe
<1>3. ASSUME BesideJobs PROVE Safe' /\ JobsSafe'
  <2>1. [Next]_vars /\ UNCHANGED job BY <1>3 DEF BesideJobs, applyVars
  <2>2. Safe' BY <2>1, SafeNext
  <2>3. NoJobOpen \/ used'.owner = used.owner BY <1>3 DEF BesideJobs
  <2>4. ASSUME NEW j \in Jobs PROVE JobSafe(j)'
    <3>1. job'[j] = job[j] /\ JobSafe(j) BY <2>1 DEF JobsSafe
    <3>2. CASE job[j].at = "none" BY <3>1, <3>2 DEF JobSafe
    <3>3. CASE job[j].at # "none"
      <4>1. used'.owner = used.owner BY <2>3, <3>3 DEF NoJobOpen
      <4>2. \A p \in Places : tgt[p] # Theirs => tgt'[p] # Theirs
        BY <2>1, <4>1, OnlyOwnerMakesTheirs DEF TypesHold
      <4> QED BY <3>1, <4>2 DEF JobSafe, CopyOf
    <3> QED BY <3>2, <3>3
  <2> QED BY <2>2, <2>4 DEF JobsSafe
<1>4. ASSUME UNCHANGED allVars PROVE Safe' /\ JobsSafe'
  <2>1. UNCHANGED vars /\ UNCHANGED job BY <1>4 DEF allVars, applyVars
  <2>2. UNCHANGED tgt BY <2>1 DEF vars
  <2>3. Safe' BY <2>1, SafeNext
  <2> QED BY <2>1, <2>2, <2>3 DEF JobsSafe, JobSafe, CopyOf
<1> QED BY <1>1, <1>2, <1>3, <1>4 DEF ApplyNext

\* Neither a pass nor a job destroys bytes this tool did not write: for any number
\* of jobs open at once, with passes running beside them, under Protected and with
\* the owner staying away from the target while a job is open (the DELETE carries
\* no precondition, so an edit made after the HEAD would be lost).
THEOREM JobsSpareTheirs ==
    ASSUME Protected, "owner" \notin DuringJob
    PROVE  ApplySpec => NeverDestroysTheirs
<1>1. ApplyInit => ApplySafe
  <2>1. ApplyInit => TypesHold /\ Safe BY ApplyTypeInit, SafeStarts DEF ApplyInit
  <2>2. ApplyInit => JobsSafe BY DEF ApplyInit, JobsSafe, JobSafe, NoJob
  <2> QED BY <2>1, <2>2 DEF ApplySafe
<1>2. ApplySafe /\ [ApplyNext]_allVars =>
        [\A p \in Places : tgt[p] = Theirs /\ tgt'[p] # Theirs => used'.owner # used.owner]_allVars
  <2> SUFFICES ASSUME ApplySafe, ApplyNext, NEW p \in Places, tgt[p] = Theirs, tgt'[p] # Theirs
               PROVE  used'.owner # used.owner
    OBVIOUS
  <2>1. ASSUME BesideJobs PROVE used'.owner # used.owner
    BY <2>1, StepSparesTheirs DEF ApplySafe, BesideJobs
  <2>2. ASSUME NEW j \in Jobs, JobSteps(j) PROVE FALSE
    <3>1. Remove(j) BY <2>2, JobFrame
    <3>2. p = CopyOf(job[j].key, job[j].row) /\ job[j].at = "checked"
      <4>1. tgt \in [Places -> Contents \cup {None, Theirs}] BY TypeParts DEF ApplySafe, TypesHold, WorldOK
      <4> QED BY <3>1, <4>1 DEF Remove
    <3> QED BY <3>2 DEF ApplySafe, JobsSafe, JobSafe
  <2> QED BY <2>1, <2>2 DEF ApplyNext
<1> QED BY <1>1, <1>2, ApplySafeNext, PTL DEF ApplySpec, NeverDestroysTheirs

-----------------------------------------------------------------------------
(* Jobs and passes one at a time: what the cursors hide stays accounted    *)
(* for, since a tombstone accounts for its item.                           *)

JobsAlone == NoJobOpen \/ phase = "idle"

Alone == TypesHold /\ CursorInv /\ JobsAlone

\* The steps of a job find no worker in flight.
LEMMA JobKeepsCursor ==
    ASSUME "pass" \notin DuringJob, Alone, NEW j \in Jobs, JobSteps(j)
    PROVE  /\ CursorInv' /\ phase = "idle" /\ here = None
           /\ \A k \in Keys : work[k].at = "out"
<1> USE DEF Alone, TypesHold
<1> WorldOK /\ UsedOK /\ RowsOK /\ FolderOK /\ WorkOK BY TypeParts
<1>t. TypeOK' /\ WorkersOK' BY JobTypes
<1>f. /\ UNCHANGED <<src, cursor, fresh, clearing, phase, here, since, work, queue,
                     retryablePending>>
      /\ ~Record(j) => UNCHANGED ledger
  BY JobFrame DEF passVars
<1>i. phase = "idle"
  <2>1. job[j].at # "none" \/ phase = "idle"
    BY DEF JobSteps, Open, ConfirmArrival, CheckVersion, Remove, Record, JobFails
  <2> QED BY <2>1 DEF JobsAlone, NoJobOpen
<1>o. here = None /\ \A k \in Keys : work[k].at = "out"
  BY <1>i DEF CursorInv, CursorParts, PassShape
<1>1. ASSUME NEW k \in Keys
      PROVE  /\ RowPlaced(k, ledger'[k]) /\ Abreast(work[k], ledger'[k])
             /\ Accounted(ledger[k], src[k]) => Accounted(ledger'[k], src[k])
  <2>r. RowPlaced(k, ledger[k]) BY DEF CursorInv, CursorParts, RowsPlaced
  <2>a. Abreast(work[k], ledger'[k]) BY <1>o DEF Abreast, Writing
  <2>1. CASE ledger'[k] = ledger[k] BY <2>r, <2>a, <2>1
  <2>2. CASE ledger'[k] # ledger[k]
    <3>l. ledger[k] \in Row BY DEF RowsOK
    <3>1. Record(j) BY <1>f, <2>2
    <3>2. ledger'[k] \in {applyDeletion(ledger[k]), applyRelocation(ledger[k])}
      BY <2>2, <3>1, RecordEffect DEF RowsOK
    <3>3. ledger'[k].status = "tombstoned" /\ ledger'[k].collection = ledger[k].collection
      BY <3>l, <3>2, RemovalRows
    <3> QED BY <2>r, <2>a, <3>3 DEF RowPlaced, Accounted
  <2> QED BY <2>1, <2>2
<1>2. PassShape' BY <1>f DEF CursorInv, CursorParts, PassShape
<1>3. CursorParts' BY <1>f, <1>1, <1>2, QuietCursor
<1> QED BY <1>t, <1>i, <1>o, <1>3 DEF CursorInv

\* Every step keeps it.
LEMMA AloneNext ==
    ASSUME Undisturbed, "pass" \notin DuringJob, Alone, [ApplyNext]_allVars
    PROVE  Alone'
<1> USE DEF Alone
<1>1. TypesHold' BY ApplyTypeNext
<1>2. ASSUME NEW j \in Jobs, JobSteps(j) PROVE CursorInv' /\ JobsAlone'
  <2>1. CursorInv' /\ phase = "idle" BY <1>2, JobKeepsCursor
  <2>2. phase' = phase BY <1>2, JobFrame
  <2> QED BY <2>1, <2>2 DEF JobsAlone
<1>3. ASSUME BesideJobs PROVE CursorInv' /\ JobsAlone'
  BY <1>3, CursorNext DEF BesideJobs, JobsAlone, NoJobOpen, applyVars
<1>4. ASSUME UNCHANGED allVars PROVE CursorInv' /\ JobsAlone'
  <2>1. UNCHANGED <<vars, job>> BY <1>4 DEF allVars, applyVars
  <2>2. phase' = phase BY <2>1 DEF vars
  <2> QED BY <2>1, <2>2, CursorNext DEF JobsAlone, NoJobOpen
<1> QED BY <1>1, <1>2, <1>3, <1>4 DEF ApplyNext

\* It holds at the start.
LEMMA AloneStarts == ApplyInit => Alone
  BY ApplyTypeInit, CursorStarts DEF ApplyInit, Alone, JobsAlone, NoJobOpen, NoJob

-----------------------------------------------------------------------------
(* What a step of a pass, or of what surrounds it, does with one item.     *)

Tombstoned(row) == row.status = "tombstoned"

\* The row of the item is left alone, or answered about between passes, or its
\* worker takes a step; a worker that is writing is dismissed by a crash only.
LEMMA StepKinds ==
    ASSUME Undisturbed, CursorInv, [Next]_vars, NEW k \in Keys
    PROVE  \/ ledger'[k] = ledger[k] /\ work'[k] = work[k]
           \/ /\ ledger'[k] = ledger[k] /\ work'[k].at \in {"out", "todo"}
              /\ work[k].at \notin Writing \/ Crash
           \/ /\ phase = "idle" /\ work'[k] = work[k]
              /\ \/ \E action : ledger'[k] = resolveFailure(ledger[k], action)
                 \/ ledger'[k] = resolveMove(ledger[k])
                 \/ ledger'[k] = resolveDeletion(ledger[k])
           \/ ItemSteps(k)
<1> USE DEF CursorInv, CursorParts
<1> WorldOK /\ UsedOK /\ RowsOK /\ FolderOK /\ WorkOK BY TypeParts
<1>o. Out.at = "out" BY DEF Out
<1>1. ASSUME NEW i \in Keys, AcceptFailure(i) \/ RetryFailure(i) \/ KeepMove(i) \/ KeepDeletion(i)
      PROVE  /\ phase = "idle" /\ work'[k] = work[k]
             /\ \/ ledger'[k] = ledger[k]
                \/ \E action : ledger'[k] = resolveFailure(ledger[k], action)
                \/ ledger'[k] = resolveMove(ledger[k])
                \/ ledger'[k] = resolveDeletion(ledger[k])
  BY <1>1 DEF AcceptFailure, RetryFailure, KeepMove, KeepDeletion, May, Undisturbed, passVars, RowsOK
<1>2. CASE Crash
  <2>1. ledger' = ledger /\ work' = [i \in Keys |-> Out] BY <1>2 DEF Crash, ForgetPass
  <2> QED BY <1>o, <1>2, <2>1
<1>3. CASE Environment
  BY <1>1, <1>2, <1>3 DEF Environment, SourceChange, SourceRename, OwnerChange, ClearCursors, passVars
<1>4. ASSUME NEW c \in Colls, NEW keysOk \in BOOLEAN, ListFolder(c, keysOk)
      PROVE  /\ ledger'[k] = ledger[k] /\ work'[k].at \in {"out", "todo"}
             /\ work[k].at \notin Writing
  <2>1. here = None /\ ledger' = ledger BY <1>4 DEF ListFolder
  <2>2. work[k].at = "out" BY <2>1 DEF PassShape
  <2>3. work'[k].at \in {"out", "todo"} BY <1>4 DEF ListFolder, Out
  <2> QED BY <2>1, <2>2, <2>3 DEF Writing
<1>5. CASE AbortPass \/ EndPass
  <2>1. ledger' = ledger /\ work' = [i \in Keys |-> Out]
    BY <1>5 DEF AbortPass, EndPass, ForgetPass
  <2>2. work[k].at \notin Writing
    BY <1>5 DEF AbortPass, EndPass, Busy, PassShape, Writing
  <2> QED BY <1>o, <2>1, <2>2
<1>6. CASE \/ \E folders \in SUBSET Colls : StartPass(folders)
           \/ FinishFolder \/ BeginRemovals \/ BeginDiscarded \/ BeginMoves
  BY <1>6 DEF StartPass, FinishFolder, BeginRemovals, BeginDiscarded, BeginMoves, Proceed
<1>7. ASSUME NEW i \in Keys, i # k, ItemSteps(i) PROVE ledger'[k] = ledger[k] /\ work'[k] = work[k]
  <2>1. work' = work \/ \E w : Goes(i, w)
    BY <1>7 DEF ItemSteps, TakeItem, SettleItem, FetchItem, FetchFails, CheckOwnership,
                CheckExisting, PutItem, PutFails, RecordItem, RecordConflict, ItemFails,
                LookUpDerived, Done, resolveReportedRemoval, resolveDiscardedItem,
                detectPathKeyedMove, Inspects
  <2>2. ledger' = ledger \/ \E r : ledger' = [ledger EXCEPT ![i] = r]
    BY <1>7 DEF ItemSteps, TakeItem, SettleItem, FetchItem, FetchFails, CheckOwnership,
                CheckExisting, PutItem, PutFails, RecordItem, RecordConflict, ItemFails,
                resolveReportedRemoval, resolveDiscardedItem,
                detectPathKeyedMove, StillThere, MovedAway, Vanished
  <2> QED BY <1>7, <2>1, <2>2 DEF Goes, WorkOK, RowsOK
<1>8. CASE UNCHANGED vars BY <1>8 DEF vars, passVars
<1> QED BY <1>3, <1>4, <1>5, <1>6, <1>7, <1>8 DEF Next, PassSteps

\* What is settled keeps its copy; a worker goes on to write when the copy is to be
\* rewritten, when there is none, or when a relocation left the tombstone.
LEMMA SettleOutcome ==
    ASSUME CursorInv, NEW k \in Keys, SettleItem(k)
    PROVE  LET old == ledger[k] new == ledger'[k] IN
           /\ new.status = old.status /\ new.collection = old.collection
           /\ new.deletionApplied = old.deletionApplied
           /\ work[k].at = "settle" /\ old = work[k].known
           /\ \/ /\ work'[k] = Out
                 /\ Tombstoned(old) => /\ old.movedToNaturalKeyHash = None
                                       /\ new.movedToNaturalKeyHash = None
              \/ /\ work'[k] = [work[k] EXCEPT !.at = "fetch"]
                 /\ isOnTarget(old) =>
                       classifyKnownItem(old, work[k].version, here) = "rewrite"
                 /\ Tombstoned(old) => old.movedToNaturalKeyHash # None
<1> USE DEF CursorInv, CursorParts
<1> WorldOK /\ UsedOK /\ RowsOK /\ FolderOK /\ WorkOK BY TypeParts
<1> DEFINE known == work[k].known
           again == Reappeared(known, ledger[k])
           back == MovedBack(known, again)
           action == classifyKnownItem(known, work[k].version, here)
<1>0. work[k].at = "settle" BY DEF SettleItem, ItemStep
<1>1. ledger[k] = known /\ Found(known) /\ known \in Row
  BY <1>0 DEF WorkersAbreast, Abreast, RowsOK
<1>2. again \in Row /\ SameCopy(known, again) /\ back \in Row /\ SameCopy(known, back)
  BY <1>1, ReturnKeepsCopy
<1>3. /\ again.deletionApplied = known.deletionApplied
      /\ again.movedToNaturalKeyHash = known.movedToNaturalKeyHash
  BY <1>1 DEF Reappeared, clearAbsent, Row
<1>4. /\ back.deletionApplied = known.deletionApplied
      /\ known.movedToNaturalKeyHash = None => back.movedToNaturalKeyHash = None
  <2> HIDE DEF again
  <2> QED BY <1>2, <1>3 DEF MovedBack, clearMove, Row
<1>5. CASE action = "moved"
  <2> DEFINE r == IF decided(known, here, None) THEN again ELSE recordMove(again, here, None)
  <2>1. work'[k] = Out BY <1>5 DEF SettleItem, Done, Goes, WorkOK
  <2>2. ledger'[k] = r
    <3> HIDE DEF again, back, action, known
    <3> QED BY <1>5 DEF SettleItem, again, known, action, RowsOK
  <2>3. ~Tombstoned(known) BY <1>5 DEF classifyKnownItem, Tombstoned
  <2> HIDE DEF again, known
  <2>4. /\ r.status = known.status /\ r.collection = known.collection
        /\ r.deletionApplied = known.deletionApplied
    BY <1>2, <1>3 DEF SameCopy, recordMove, Row
  <2> HIDE DEF r
  <2> QED BY <1>0, <1>1, <2>1, <2>2, <2>3, <2>4 DEF known
<1>6. CASE action = "record-version"
  <2> DEFINE r == recordUpdate(back, known.status, work[k].version, known.contentHash,
                               known.targetVersion, known.collection)
  <2>1. work'[k] = Out BY <1>6 DEF SettleItem, Done, Goes, WorkOK
  <2>2. ledger'[k] = r
    <3> HIDE DEF again, back, action, known
    <3> QED BY <1>6 DEF SettleItem, again, back, known, action, RowsOK
  <2>3. ~Tombstoned(known) BY <1>6 DEF classifyKnownItem, Tombstoned
  <2> HIDE DEF back, known
  <2>4. /\ r.status = known.status /\ r.collection = known.collection
        /\ r.deletionApplied = known.deletionApplied
    BY <1>2, <1>4 DEF SameCopy, recordUpdate, Row
  <2> HIDE DEF r
  <2> QED BY <1>0, <1>1, <2>1, <2>2, <2>3, <2>4 DEF known
<1>7. CASE action \notin {"moved", "record-version"}
  <2>2. ledger'[k] = back
    <3> HIDE DEF again, back, action, known
    <3> QED BY <1>7 DEF SettleItem, again, back, known, action, RowsOK
  <2>3. CASE action \in {"retry-failed", "rewrite", "relocated-away"}
    <3>1. work'[k] = [work[k] EXCEPT !.at = "fetch"] BY <2>3 DEF SettleItem, Goes, WorkOK
    <3>2. Tombstoned(known) => known.movedToNaturalKeyHash # None
      BY <2>3 DEF classifyKnownItem, Tombstoned
    <3>3. isOnTarget(known) => action = "rewrite"
      BY <2>3 DEF classifyKnownItem, isOnTarget
    <3> HIDE DEF back, known
    <3> QED BY <1>0, <1>1, <1>2, <1>4, <2>2, <3>1, <3>2, <3>3 DEF SameCopy, known
  <2>4. CASE action \notin {"retry-failed", "rewrite", "relocated-away"}
    <3>1. work'[k] = Out BY <2>4 DEF SettleItem, Done, Goes, WorkOK
    <3>2. Tombstoned(known) => known.movedToNaturalKeyHash = None
      BY <2>4 DEF classifyKnownItem, Tombstoned
    <3> HIDE DEF back, known
    <3> QED BY <1>0, <1>1, <1>2, <1>4, <2>2, <3>1, <3>2 DEF SameCopy, known
  <2> QED BY <2>3, <2>4
<1> QED BY <1>5, <1>6, <1>7

\* A worker that fetches, asks or puts goes on with the row it has read.
LEMMA GoesOn ==
    ASSUME CursorInv, Undisturbed, NEW k \in Keys,
           \/ FetchItem(k)
           \/ \E answered \in BOOLEAN : CheckOwnership(k, answered) \/ CheckExisting(k, answered)
           \/ \E tagged \in BOOLEAN : PutItem(k, tagged)
    PROVE  /\ ledger' = ledger /\ work[k].at \in Writing /\ work'[k].at \in Writing
           /\ work'[k].known = work[k].known /\ work'[k].version = work[k].version
<1> USE DEF CursorInv
<1> WorkOK BY TypeParts
<1>w. work[k] \in Work BY DEF WorkOK
<1>1. /\ ledger' = ledger /\ work[k].at \in Writing
      /\ \/ Goes(k, [work[k] EXCEPT !.at = "check", !.raw = Bytes(k)])
         \/ Goes(k, [work[k] EXCEPT !.at = "put"])
         \/ \E r : Goes(k, [work[k] EXCEPT !.at = "record", !.result = r])
         \/ \E r, t : Goes(k, [work[k] EXCEPT !.at = "record", !.result = r, !.targetVersion = t])
  BY DEF FetchItem, CheckOwnership, CheckExisting, PutItem, ItemStep, Writing, world, Undisturbed
<1> DEFINE Same(w) == /\ w.at \in Writing
                      /\ w.known = work[k].known /\ w.version = work[k].version
<1>2. /\ Same([work[k] EXCEPT !.at = "check", !.raw = Bytes(k)])
      /\ Same([work[k] EXCEPT !.at = "put"])
      /\ \A r : Same([work[k] EXCEPT !.at = "record", !.result = r])
      /\ \A r, t : Same([work[k] EXCEPT !.at = "record", !.result = r, !.targetVersion = t])
  BY <1>w DEF Work, Writing
<1> HIDE DEF Same
<1>3. \E w : Goes(k, w) /\ Same(w) BY <1>1, <1>2
<1>4. Same(work'[k]) BY <1>3 DEF Goes, WorkOK
<1> QED BY <1>1, <1>4 DEF Same

\* A failure is recorded as one.
LEMMA FailOutcome ==
    ASSUME CursorInv, Undisturbed, NEW k \in Keys, FetchFails(k) \/ PutFails(k)
    PROVE  work[k].at \in Writing /\ work'[k] = Out /\ ledger'[k].status = "failed"
<1> USE DEF CursorInv
<1> RowsOK /\ WorkOK BY TypeParts
<1>1. PICK hash : ItemFails(k, hash) BY DEF FetchFails, PutFails
<1>2. work[k].at \in Writing BY DEF FetchFails, PutFails, ItemStep, Writing
<1>3. work'[k] = Out /\ ledger'[k] = recordFailure(ledger[k], hash)
  BY <1>1 DEF ItemFails, Undisturbed, Done, Goes, WorkOK, RowsOK
<1>4. recordFailure(ledger[k], hash).status = "failed" BY DEF recordFailure, RowsOK, Row, NoRow
<1> QED BY <1>2, <1>3, <1>4

\* A copy is recorded where it was written, and a conflict where the copy was.
LEMMA RecordOutcome ==
    ASSUME CursorInv, NEW k \in Keys, RecordItem(k) \/ RecordConflict(k)
    PROVE  /\ work[k].at = "record" /\ work'[k] = Out
           /\ ledger'[k].status \in {"copied", "adopted", "updated"}
           /\ RecordItem(k) => ledger'[k].collection = here
           /\ RecordConflict(k) => ledger'[k].collection = ledger[k].collection
<1> USE DEF CursorInv, CursorParts
<1> WorldOK /\ UsedOK /\ RowsOK /\ FolderOK /\ WorkOK BY TypeParts
<1> DEFINE w == work[k]
<1>1. w.at = "record" /\ here # None BY DEF RecordItem, RecordConflict, ItemStep
<1>2. /\ ledger[k] \in Row
      /\ ~Found(w.known) => ~Found(ledger[k])
      /\ w.known.collection = ledger[k].collection
  BY <1>1 DEF RowsOK, WorkersAbreast, Abreast, Writing
<1>4. work'[k] = Out BY DEF RecordItem, RecordConflict, Done, Goes, WorkOK
<1>5. CASE RecordItem(k)
  <2> DEFINE status == CASE w.result = "created" -> "copied"
                         [] w.result = "adopted" -> "adopted"
                         [] OTHER -> "updated"
             r == IF Found(w.known)
                  THEN recordUpdate(ledger[k], status, w.version, w.raw, w.targetVersion, here)
                  ELSE recordIfAbsent(ledger[k], status, w.version, w.raw, w.targetVersion, here)
  <2>1. ledger'[k] = r /\ ~RecordConflict(k) BY <1>5 DEF RecordItem, RecordConflict, RowsOK
  <2>2. status \in {"copied", "adopted", "updated"} OBVIOUS
  <2> HIDE DEF status
  <2>3. r.status = status /\ r.collection = here
    <3>1. CASE Found(w.known) BY <1>1, <1>2, <3>1 DEF recordUpdate, Row
    <3>2. CASE ~Found(w.known) BY <1>2, <3>2 DEF recordIfAbsent, NoRow
    <3> QED BY <3>1, <3>2
  <2> HIDE DEF r
  <2> QED BY <1>1, <1>4, <2>1, <2>2, <2>3
<1>6. CASE RecordConflict(k)
  <2> DEFINE r == recordUpdate(ledger[k], "adopted", w.known.sourceVersion, w.known.contentHash,
                               w.known.targetVersion, w.known.collection)
  <2>1. ledger'[k] = r /\ ~RecordItem(k) BY <1>6 DEF RecordItem, RecordConflict, RowsOK
  <2>2. r.status = "adopted" /\ r.collection = ledger[k].collection
    BY <1>2 DEF recordUpdate, Row
  <2> HIDE DEF r
  <2> QED BY <1>1, <1>4, <2>1, <2>2
<1> QED BY <1>5, <1>6

-----------------------------------------------------------------------------
(* Tombstones.                                                             *)

\* Every tombstone is a removal that was carried out, and move detection knows it.
TombstonesApplied ==
    \A k \in Keys : Tombstoned(ledger[k]) =>
        /\ ledger[k].deletionApplied
        /\ phase = "moves" /\ k \in queue => placed[k].deletionApplied

\* What a step of a pass or of its surroundings may do with a tombstone: leave it,
\* begin to migrate the item again if a relocation left it, or finish that.
TombstoneStep(k) ==
    LET old == ledger[k] new == ledger'[k] IN
    \/ ~Tombstoned(old) /\ ~Tombstoned(new)
    \/ /\ Tombstoned(old) /\ Tombstoned(new)
       /\ new.movedToNaturalKeyHash = old.movedToNaturalKeyHash
       /\ new.deletionApplied = old.deletionApplied
       /\ \/ work[k].at \in Writing <=> work'[k].at \in Writing
          \/ Crash /\ work'[k].at = "out"
    \/ /\ Tombstoned(old) /\ Tombstoned(new) /\ new.deletionApplied = old.deletionApplied
       /\ old.movedToNaturalKeyHash # None
       /\ work[k].at = "settle" /\ work'[k].at \in Writing
    \/ Tombstoned(old) /\ ~Tombstoned(new) /\ work[k].at \in Writing

\* No other step touches a tombstone.
LEMMA TombstonesMove ==
    ASSUME Undisturbed, CursorInv, TombstonesApplied, [Next]_vars, NEW k \in Keys
    PROVE  TombstoneStep(k)
<1> WorldOK /\ UsedOK /\ RowsOK /\ FolderOK /\ WorkOK BY TypeParts DEF CursorInv
<1>l. ledger[k] \in Row BY DEF RowsOK
<1>u. ASSUME ledger'[k] = ledger[k], \/ work[k].at \in Writing <=> work'[k].at \in Writing
                                     \/ Crash /\ work'[k].at = "out"
      PROVE  TombstoneStep(k)
  BY <1>u DEF TombstoneStep
<1>o. Out.at = "out" /\ "out" \notin Writing BY DEF Out, Writing
<1>1. ASSUME ledger'[k] = ledger[k], work'[k].at \in {"out", "todo"},
             work[k].at \notin Writing \/ Crash
      PROVE  TombstoneStep(k)
  <2>1. Crash => work'[k].at = "out" BY <1>o DEF Crash, ForgetPass
  <2> QED BY <1>1, <1>u, <2>1 DEF Writing
<1>2. ASSUME work'[k] = work[k],
             \/ \E action : ledger'[k] = resolveFailure(ledger[k], action)
             \/ ledger'[k] = resolveMove(ledger[k])
             \/ ledger'[k] = resolveDeletion(ledger[k])
      PROVE  TombstoneStep(k)
  <2>1. /\ Tombstoned(ledger'[k]) <=> Tombstoned(ledger[k])
        /\ ledger'[k].movedToNaturalKeyHash = ledger[k].movedToNaturalKeyHash
        /\ ledger'[k].deletionApplied = ledger[k].deletionApplied
    BY <1>2, <1>l DEF resolveFailure, resolveMove, resolveDeletion, Tombstoned, Row
  <2> QED BY <1>2, <2>1 DEF TombstoneStep
<1>3. ASSUME ItemSteps(k) PROVE TombstoneStep(k)
  <2>1. CASE TakeItem(k)
    <3>1. work[k].at = "todo" /\ ledger' = ledger
      BY <2>1 DEF TakeItem, ItemStep
    <3>2. work'[k] = [work[k] EXCEPT !.known = ledger[k],
                                     !.at = IF Found(ledger[k]) THEN "settle" ELSE "fetch"]
      BY <2>1 DEF TakeItem, Undisturbed, Goes, WorkOK
    <3>3. Found(ledger[k]) => work'[k].at = "settle" BY <3>2 DEF WorkOK, Work
    <3>4. Tombstoned(ledger[k]) => Found(ledger[k]) BY DEF Tombstoned, Found
    <3> QED BY <3>1, <3>3, <3>4 DEF TombstoneStep, Writing
  <2>2. CASE SettleItem(k)
    <3>1. [work[k] EXCEPT !.at = "fetch"].at \in Writing BY DEF WorkOK, Work, Writing
    <3>2. "settle" \notin Writing BY DEF Writing
    <3> QED BY <1>o, <2>2, <3>1, <3>2, SettleOutcome DEF TombstoneStep, Tombstoned
  <2>3. CASE \/ FetchItem(k)
             \/ \E answered \in BOOLEAN : CheckOwnership(k, answered) \/ CheckExisting(k, answered)
             \/ \E tagged \in BOOLEAN : PutItem(k, tagged)
    BY <1>u, <2>3, GoesOn
  <2>4. CASE FetchFails(k) \/ PutFails(k)
    BY <2>4, FailOutcome DEF TombstoneStep, Tombstoned
  <2>5. CASE RecordItem(k) \/ RecordConflict(k)
    BY <2>5, RecordOutcome DEF TombstoneStep, Tombstoned, Writing
  <2>6. CASE resolveReportedRemoval(k) \/ resolveDiscardedItem(k) \/ detectPathKeyedMove(k)
    <3>1. work' = work
      BY <2>6 DEF resolveReportedRemoval, resolveDiscardedItem, detectPathKeyedMove, Inspects
    <3>2. CASE Tombstoned(ledger[k])
      <4>1. ~isOnTarget(ledger[k]) BY <3>2 DEF Tombstoned, isOnTarget
      <4>2. detectPathKeyedMove(k) => placed[k].deletionApplied
        BY <3>2 DEF detectPathKeyedMove, Inspects, TombstonesApplied
      <4>3. ledger'[k] = ledger[k]
        BY <2>6, <4>1, <4>2 DEF resolveReportedRemoval, resolveDiscardedItem,
                                detectPathKeyedMove, RowsOK
      <4> QED BY <1>u, <3>1, <4>3
    <3>3. CASE ~Tombstoned(ledger[k])
      <4>1. \E r : ledger' = [ledger EXCEPT ![k] = r] /\ SameCopy(ledger[k], r)
        BY <2>6, DetectorCopies
      <4>2. ledger'[k].status = ledger[k].status BY <4>1 DEF RowsOK, SameCopy
      <4> QED BY <3>3, <4>2 DEF TombstoneStep, Tombstoned
    <3> QED BY <3>2, <3>3
  <2> QED BY <1>3, <2>1, <2>2, <2>3, <2>4, <2>5, <2>6 DEF ItemSteps
<1> QED BY <1>u, <1>1, <1>2, <1>3, StepKinds

\* Hence every tombstone stays a removal that was carried out.
LEMMA TombstonesStay ==
    ASSUME Undisturbed, CursorInv, TombstonesApplied, [Next]_vars
    PROVE  TombstonesApplied'
<1> USE DEF CursorInv, CursorParts
<1> WorldOK /\ UsedOK /\ RowsOK /\ FolderOK /\ WorkOK BY TypeParts
<1> SUFFICES ASSUME NEW k \in Keys, Tombstoned(ledger'[k])
             PROVE  /\ ledger'[k].deletionApplied
                    /\ phase' = "moves" /\ k \in queue' => placed'[k].deletionApplied
  BY DEF TombstonesApplied
<1>1. Tombstoned(ledger[k]) /\ ledger'[k].deletionApplied = ledger[k].deletionApplied
  BY TombstonesMove DEF TombstoneStep
<1>2. ledger[k].deletionApplied BY <1>1 DEF TombstonesApplied
<1>3. \/ phase' # "moves" \/ placed' = ledger
      \/ phase = "moves" /\ queue' \subseteq queue /\ placed' = placed
  <2>1. CASE Environment
    BY <2>1 DEF Environment, SourceChange, SourceRename, OwnerChange, AcceptFailure, RetryFailure,
                KeepMove, KeepDeletion, ClearCursors, Crash, ForgetPass, passVars
  <2>2. ASSUME NEW i \in Keys, ItemSteps(i)
        PROVE  phase' = phase /\ queue' \subseteq queue /\ placed' = placed
    BY <2>2 DEF ItemSteps, TakeItem, SettleItem, FetchItem, FetchFails, CheckOwnership,
                CheckExisting, PutItem, PutFails, RecordItem, RecordConflict,
                resolveReportedRemoval, resolveDiscardedItem, detectPathKeyedMove, Inspects
  <2>3. CASE PassSteps
    BY <2>2, <2>3 DEF PassSteps, StartPass, ListFolder, FinishFolder, AbortPass, BeginRemovals,
                      BeginDiscarded, BeginMoves, Proceed, EndPass, ForgetPass
  <2>4. CASE UNCHANGED vars BY <2>4 DEF vars, passVars
  <2> QED BY <2>1, <2>3, <2>4 DEF Next
<1> QED BY <1>1, <1>2, <1>3 DEF TombstonesApplied

\* A tombstone that no deletion left says where the item went, or the item is being
\* migrated again.
Marked ==
    \A k \in Keys \ erased : Tombstoned(ledger[k]) =>
        ledger[k].movedToNaturalKeyHash # None \/ work[k].at \in Writing

\* A tombstone that only a deletion left says nothing of the kind, and nobody is
\* migrating its item.
ErasedPlainly ==
    \A k \in erased \ movedToo :
        /\ Tombstoned(ledger[k]) /\ ledger[k].movedToNaturalKeyHash = None
        /\ work[k].at \notin Writing

Buried == Alone /\ TombstonesApplied

\* What recording a removal adds is a tombstone of the right kind.
LEMMA JobBuries ==
    ASSUME "pass" \notin DuringJob, Buried, NEW j \in Jobs, JobSteps(j)
    PROVE  /\ TombstonesApplied'
           /\ Marked => Marked'
           /\ ErasedPlainly => ErasedPlainly'
<1> USE DEF Buried, Alone, TypesHold
<1> WorldOK /\ UsedOK /\ RowsOK /\ FolderOK /\ WorkOK BY TypeParts
<1>f. /\ UNCHANGED <<phase, work, queue, placed>>
      /\ ~Record(j) => UNCHANGED <<ledger, erased, movedToo>>
  BY JobFrame DEF passVars
<1>i. phase = "idle" /\ \A k \in Keys : work[k].at \notin Writing
  BY JobKeepsCursor DEF Writing
<1>1. CASE ~Record(j)
  BY <1>f, <1>1 DEF TombstonesApplied, Marked, ErasedPlainly
<1>2. CASE Record(j)
  <2> DEFINE d == job[j].key
  <2>e. /\ d \in Keys
        /\ \/ /\ ledger' = [ledger EXCEPT ![d] = applyDeletion(ledger[d])]
              /\ CanApplyDeletion(ledger[d]) /\ erased' = erased \cup {d}
              /\ movedToo' = IF ledger[d].movedToNaturalKeyHash # None
                             THEN movedToo \cup {d} ELSE movedToo
           \/ /\ ledger' = [ledger EXCEPT ![d] = applyRelocation(ledger[d])]
              /\ CanApplyRelocation(ledger, d) /\ UNCHANGED <<erased, movedToo>>
           \/ UNCHANGED <<ledger, erased, movedToo>>
    BY <1>2, RecordEffect
  <2> HIDE DEF d
  <2>l. ledger[d] \in Row BY <2>e DEF RowsOK
  <2>1. CASE UNCHANGED <<ledger, erased, movedToo>>
    BY <1>f, <2>1 DEF TombstonesApplied, Marked, ErasedPlainly
  <2>2. CASE /\ ledger' = [ledger EXCEPT ![d] = applyDeletion(ledger[d])]
             /\ CanApplyDeletion(ledger[d]) /\ erased' = erased \cup {d}
             /\ movedToo' = IF ledger[d].movedToNaturalKeyHash # None
                            THEN movedToo \cup {d} ELSE movedToo
    <3>1. /\ Tombstoned(ledger'[d]) /\ ledger'[d].deletionApplied
          /\ ledger'[d].movedToNaturalKeyHash = ledger[d].movedToNaturalKeyHash
          /\ \A k \in Keys : k # d => ledger'[k] = ledger[k]
      BY <2>e, <2>l, <2>2, RemovalRows DEF Tombstoned, RowsOK
    <3>2. TombstonesApplied' BY <1>f, <1>i, <3>1 DEF TombstonesApplied
    <3>3. Marked => Marked' BY <1>f, <2>2, <3>1 DEF Marked
    <3>4. ErasedPlainly => ErasedPlainly'
      BY <1>f, <1>i, <2>2, <2>e, <3>1 DEF ErasedPlainly, JobsOK
    <3> QED BY <3>2, <3>3, <3>4
  <2>3. CASE /\ ledger' = [ledger EXCEPT ![d] = applyRelocation(ledger[d])]
             /\ CanApplyRelocation(ledger, d) /\ UNCHANGED <<erased, movedToo>>
    <3>1. /\ Tombstoned(ledger'[d]) /\ ledger'[d].deletionApplied
          /\ ledger'[d].movedToNaturalKeyHash = ledger[d].movedToNaturalKeyHash
          /\ \A k \in Keys : k # d => ledger'[k] = ledger[k]
      BY <2>e, <2>l, <2>3, RemovalRows DEF Tombstoned, RowsOK
    <3>0. ledger[d].movedToNaturalKeyHash # None /\ ~Tombstoned(ledger[d])
      BY <2>3 DEF CanApplyRelocation, WroteIt, Tombstoned
    <3>2. TombstonesApplied' BY <1>f, <1>i, <3>1 DEF TombstonesApplied
    <3>3. Marked => Marked' BY <1>f, <2>3, <3>0, <3>1 DEF Marked
    <3>4. ErasedPlainly => ErasedPlainly'
      BY <1>f, <1>i, <2>3, <3>0, <3>1 DEF ErasedPlainly, JobsOK
    <3> QED BY <3>2, <3>3, <3>4
  <2> QED BY <2>e, <2>1, <2>2, <2>3
<1> QED BY <1>1, <1>2

\* Every step keeps the tombstones and what they say.
LEMMA BuriedNext ==
    ASSUME Undisturbed, "pass" \notin DuringJob, Buried, [ApplyNext]_allVars
    PROVE  /\ Buried'
           /\ ErasedPlainly => ErasedPlainly'
           /\ "crash" \notin Faults /\ Marked => Marked'
<1>1. Alone' BY AloneNext DEF Buried
<1>2. ASSUME [Next]_vars, UNCHANGED applyVars
      PROVE  /\ TombstonesApplied'
             /\ ErasedPlainly => ErasedPlainly'
             /\ "crash" \notin Faults /\ Marked => Marked'
  <2>1. TombstonesApplied' BY <1>2, TombstonesStay DEF Buried, Alone
  <2>2. \A k \in Keys : TombstoneStep(k) BY <1>2, TombstonesMove DEF Buried, Alone
  <2>3. erased' = erased /\ movedToo' = movedToo /\ erased \subseteq Keys
    BY <1>2 DEF applyVars, Buried, Alone, TypesHold, JobsOK
  <2>4. "out" \notin Writing BY DEF Writing
  <2>5. ErasedPlainly => ErasedPlainly'
    BY <2>2, <2>3, <2>4 DEF ErasedPlainly, TombstoneStep
  <2>6. "crash" \notin Faults => ~Crash BY DEF Crash, Fault
  <2>7. "crash" \notin Faults /\ Marked => Marked'
    BY <2>2, <2>3, <2>6 DEF Marked, TombstoneStep
  <2> QED BY <2>1, <2>5, <2>7
<1>3. ASSUME NEW j \in Jobs, JobSteps(j)
      PROVE  /\ TombstonesApplied'
             /\ ErasedPlainly => ErasedPlainly'
             /\ "crash" \notin Faults /\ Marked => Marked'
  BY <1>3, JobBuries
<1> QED BY <1>1, <1>2, <1>3 DEF ApplyNext, BesideJobs, allVars, Buried

\* At the start nothing is buried.
LEMMA BuriedStarts == ApplyInit => Buried /\ Marked /\ ErasedPlainly
<1> SUFFICES ASSUME ApplyInit PROVE Buried /\ Marked /\ ErasedPlainly
  OBVIOUS
<1>1. \A k \in Keys : ~Tombstoned(ledger[k])
  BY DEF ApplyInit, Init, legacyRow, NoRow, Tombstoned
<1>2. erased = {} BY DEF ApplyInit
<1> QED BY <1>1, <1>2, AloneStarts DEF Buried, TombstonesApplied, Marked, ErasedPlainly

\* Between passes and jobs, a tombstone that a relocation left still says where the
\* item went, so that a later file at the old path is migrated: for any number of
\* items and jobs, if no pass dies between withdrawing the move and writing the copy.
THEOREM RelocationsLeaveTheirMark ==
    ASSUME Undisturbed, "pass" \notin DuringJob, "crash" \notin Faults
    PROVE  ApplySpec => []RelocationLeavesItsMark
<1>1. Buried /\ Marked => RelocationLeavesItsMark
  <2> SUFFICES ASSUME Buried, Marked, phase = "idle", NEW k \in Keys \ erased,
                      ledger[k].status = "tombstoned"
               PROVE  ledger[k].movedToNaturalKeyHash # None
    BY DEF RelocationLeavesItsMark
  <2>1. work[k].at \notin Writing
    BY DEF Buried, Alone, CursorInv, CursorParts, PassShape, Writing
  <2> QED BY <2>1 DEF Marked, Tombstoned
<1> QED BY <1>1, BuriedStarts, BuriedNext, PTL DEF ApplySpec

\* What was removed on a deletion, with no relocation recorded for the item, is not
\* put back by any pass, however often the source shows the item again.
THEOREM PlainErasuresStand ==
    ASSUME Undisturbed, "pass" \notin DuringJob
    PROVE  ApplySpec => PlainErasureStands
<1>1. Buried /\ ErasedPlainly /\ [ApplyNext]_allVars =>
        [\A p \in Places : p[2] \in erased \ movedToo /\ tgt'[p] # tgt[p] =>
           tgt'[p] \notin Contents]_allVars
  <2> SUFFICES ASSUME Buried, ErasedPlainly, ApplyNext, NEW p \in Places,
                      p[2] \in erased \ movedToo, tgt'[p] # tgt[p]
               PROVE  tgt'[p] \notin Contents
    OBVIOUS
  <2> USE DEF Buried, Alone, TypesHold
  <2> WorldOK /\ UsedOK /\ RowsOK /\ FolderOK /\ WorkOK BY TypeParts
  <2>1. ASSUME NEW q \in Places, OwnerChange(q) PROVE tgt'[p] \notin Contents
    <3>1. PICK b \in {None, Theirs} : tgt' = [tgt EXCEPT ![q] = b] BY <2>1 DEF OwnerChange
    <3> QED BY <3>1 DEF WorldOK
  <2>2. ASSUME NEW k \in Keys, ItemSteps(k) PROVE FALSE
    <3>1. work[k].at = "put" /\ Lands(k)
      BY <2>2 DEF ItemSteps, TakeItem, SettleItem, FetchItem, FetchFails, CheckOwnership,
                  CheckExisting, PutItem, PutFails, RecordItem, RecordConflict, ItemStep, world,
                  resolveReportedRemoval, resolveDiscardedItem, detectPathKeyedMove, Inspects
    <3>2. p = <<here, k>> BY <3>1 DEF Lands, Place, WorldOK
    <3> QED BY <3>1, <3>2 DEF ErasedPlainly, Writing
  <2>3. ASSUME Environment PROVE tgt'[p] \notin Contents
    BY <2>1, <2>3 DEF Environment, SourceChange, SourceRename, AcceptFailure, RetryFailure,
                      KeepMove, KeepDeletion, ClearCursors, Crash, world
  <2>4. ASSUME PassSteps PROVE tgt'[p] \notin Contents
    BY <2>2, <2>4 DEF PassSteps, StartPass, ListFolder, FinishFolder, AbortPass, BeginRemovals,
                BeginDiscarded, BeginMoves, Proceed, EndPass, world
  <2>5. ASSUME NEW j \in Jobs, JobSteps(j) PROVE tgt'[p] \notin Contents
    <3>1. Remove(j) BY <2>5, JobFrame
    <3> QED BY <3>1 DEF Remove, WorldOK
  <2> QED BY <2>3, <2>4, <2>5 DEF ApplyNext, BesideJobs, Next
<1> QED BY <1>1, BuriedStarts, BuriedNext, PTL DEF ApplySpec, PlainErasureStands

-----------------------------------------------------------------------------
(* A row that says its item is on the target is right, while the owner has *)
(* removed nothing.                                                        *)

\* What the writer has enumerated in this pass is there.
SnapshotStands ==
    /\ phase = "idle" => snap = {}
    /\ used.owner = 0 => \A p \in snap : tgt[p] # None

\* A worker that writes has a row as it read it, which is on the target only if it
\* is to be rewritten, and it records a copy only where there is one.
WorkerStands(k) ==
    LET w == work[k] IN
    /\ w.at \in Writing =>
          /\ ledger[k].status = w.known.status
          /\ isOnTarget(w.known) => classifyKnownItem(w.known, w.version, here) = "rewrite"
    /\ w.at = "record" =>
          /\ w.result # "present"
          /\ used.owner = 0 => tgt[<<here, k>>] # None
          /\ w.result = "conflicted" => w.known.collection \in {None, here}

WorkersStand == \A k \in Keys : WorkerStands(k)

Standing == Alone /\ SnapshotStands /\ WorkersStand /\ NoSilentRemoval

\* A pass and its surroundings remove nothing, but for the owner.
LEMMA TargetKept ==
    ASSUME TypeOK, WorkersOK, [Next]_vars, used'.owner = 0
    PROVE  used.owner = 0 /\ \A p \in Places : tgt[p] # None => tgt'[p] # None
<1> WorldOK /\ UsedOK /\ RowsOK /\ FolderOK /\ WorkOK BY TypeParts
<1>1. ASSUME NEW q \in Places, OwnerChange(q) PROVE FALSE
  BY <1>1 DEF OwnerChange, May, UsedOK
<1>2. ASSUME NEW k \in Keys, ItemSteps(k) PROVE \A p \in Places : tgt[p] # None => tgt'[p] # None
  <2>1. UNCHANGED tgt \/ (work[k].at = "put" /\ here # None /\ Lands(k))
    BY <1>2 DEF ItemSteps, TakeItem, SettleItem, FetchItem, FetchFails, CheckOwnership,
                CheckExisting, PutItem, PutFails, RecordItem, RecordConflict, ItemStep, world,
                resolveReportedRemoval, resolveDiscardedItem, detectPathKeyedMove, Inspects
  <2>2. work[k].at = "put" => work[k].raw \in Contents BY DEF WorkersOK, WorkerOK
  <2> QED BY <2>1, <2>2 DEF Lands, WorldOK
<1>3. ASSUME Environment PROVE UNCHANGED tgt
  BY <1>1, <1>3 DEF Environment, SourceChange, SourceRename, AcceptFailure, RetryFailure,
                    KeepMove, KeepDeletion, ClearCursors, Crash, world
<1>4. ASSUME PassSteps, ~\E k \in Keys : ItemSteps(k) PROVE UNCHANGED tgt
  BY <1>4 DEF PassSteps, StartPass, ListFolder, FinishFolder, AbortPass, BeginRemovals,
              BeginDiscarded, BeginMoves, Proceed, EndPass, world
<1>5. \A p \in Places : tgt[p] # None => tgt'[p] # None
  BY <1>2, <1>3, <1>4 DEF Next, vars
<1>6. used.owner = 0
  <2>f. \A kind : Fault(kind) => used'.owner = used.owner BY DEF Fault
  <2>m. \A bound : May("source", bound) \/ May("operator", bound) => used'.owner = used.owner
    BY DEF May, UsedOK
  <2>1. CASE Environment
    BY <1>1, <2>1, <2>f, <2>m DEF Environment, SourceChange, SourceRename, AcceptFailure,
                    RetryFailure, KeepMove, KeepDeletion, ClearCursors, Crash
  <2>2. ASSUME NEW k \in Keys, ItemSteps(k) PROVE used'.owner = used.owner
    BY <2>2, <2>f DEF ItemSteps, TakeItem, SettleItem, FetchItem, FetchFails, CheckOwnership,
                CheckExisting, PutItem, PutFails, RecordItem, RecordConflict,
                resolveReportedRemoval, resolveDiscardedItem, detectPathKeyedMove, Inspects
  <2>3. CASE PassSteps
    BY <2>2, <2>3, <2>f DEF PassSteps, StartPass, ListFolder, FinishFolder, AbortPass,
              BeginRemovals, BeginDiscarded, BeginMoves, Proceed, EndPass
  <2> QED BY <2>1, <2>3 DEF Next, vars
<1> QED BY <1>5, <1>6

\* While a worker is at its item, its folder stays.
LEMMA FolderStays ==
    ASSUME CursorInv, [Next]_vars, NEW k \in Keys, work[k].at # "out", work'[k].at # "out"
    PROVE  here' = here
<1> USE DEF CursorInv, CursorParts
<1>1. ASSUME ForgetPass PROVE FALSE
  <2>1. work'[k] = Out BY <1>1 DEF ForgetPass
  <2> QED BY <2>1 DEF Out
<1>2. CASE Environment
  BY <1>1, <1>2 DEF Environment, SourceChange, SourceRename, OwnerChange, AcceptFailure,
                    RetryFailure, KeepMove, KeepDeletion, ClearCursors, Crash, passVars
<1>3. ASSUME NEW i \in Keys, ItemSteps(i) PROVE here' = here
  BY <1>3 DEF ItemSteps, TakeItem, SettleItem, FetchItem, FetchFails, CheckOwnership,
              CheckExisting, PutItem, PutFails, RecordItem, RecordConflict,
              resolveReportedRemoval, resolveDiscardedItem, detectPathKeyedMove, Inspects
<1>4. CASE PassSteps
  BY <1>1, <1>3, <1>4 DEF PassSteps, StartPass, ListFolder, FinishFolder, AbortPass,
              BeginRemovals, BeginDiscarded, BeginMoves, Proceed, EndPass, PassShape
<1>5. CASE UNCHANGED vars BY <1>5 DEF vars, passVars
<1> QED BY <1>2, <1>4, <1>5 DEF Next

\* The enumeration is forgotten with the pass and adds what is there.
LEMMA SnapshotStandsNext ==
    ASSUME CursorInv, SnapshotStands, [Next]_vars
    PROVE  SnapshotStands'
<1> USE DEF CursorInv, CursorParts
<1> WorldOK /\ UsedOK /\ RowsOK /\ FolderOK /\ WorkOK BY TypeParts
<1>f. ASSUME ForgetPass PROVE SnapshotStands' BY <1>f DEF ForgetPass, SnapshotStands
<1>u. ASSUME snap' = snap, phase' = phase \/ phase' # "idle" PROVE SnapshotStands'
  <2>1. snap \subseteq Places BY DEF FolderOK
  <2> QED BY <1>u, <2>1, TargetKept DEF SnapshotStands
<1>1. CASE Environment
  BY <1>1, <1>f, <1>u DEF Environment, SourceChange, SourceRename, OwnerChange, AcceptFailure,
                    RetryFailure, KeepMove, KeepDeletion, ClearCursors, Crash, passVars
<1>2. ASSUME NEW k \in Keys, ItemSteps(k) PROVE SnapshotStands'
  <2>1. /\ phase' = phase /\ phase # "idle"
        /\ \/ snap' = snap
           \/ TakeSnapshot({}) \/ \E tagged : PutItem(k, tagged)
    BY <1>2 DEF ItemSteps, TakeItem, SettleItem, FetchItem, FetchFails, CheckOwnership,
              CheckExisting, PutItem, PutFails, RecordItem, RecordConflict, ItemStep,
              resolveReportedRemoval, resolveDiscardedItem, detectPathKeyedMove, Inspects
  <2>2. ASSUME NEW extra \in SUBSET Places, TakeSnapshot(extra), \A p \in extra : tgt'[p] # None
        PROVE  SnapshotStands'
    <3>1. snap' \subseteq snap \cup {p \in Places : tgt'[p] # None} BY <2>2 DEF TakeSnapshot, Held
    <3>2. snap \subseteq Places BY DEF FolderOK
    <3> QED BY <2>1, <3>1, <3>2, TargetKept DEF SnapshotStands
  <2>3. ASSUME NEW tagged, PutItem(k, tagged) PROVE SnapshotStands'
    <3>1. /\ <<here, k>> \in Places /\ work[k].raw \in Contents
          /\ TakeSnapshot({Place(k)}) /\ Lands(k)
      BY <2>3 DEF PutItem, ItemStep, WorkersOK, WorkerOK
    <3>2. tgt'[<<here, k>>] # None BY <3>1 DEF Lands, Refused, Place, WorldOK
    <3> QED BY <2>2, <3>1, <3>2 DEF Place
  <2> QED BY <1>u, <2>1, <2>2, <2>3
<1>3. CASE PassSteps
  BY <1>2, <1>3, <1>f, <1>u DEF PassSteps, StartPass, ListFolder, FinishFolder, AbortPass,
              BeginRemovals, BeginDiscarded, BeginMoves, Proceed, EndPass
<1>4. CASE UNCHANGED vars BY <1>4, <1>u DEF vars, passVars
<1> QED BY <1>1, <1>3, <1>4 DEF Next

\* A worker goes on as it may.
LEMMA WorkersStandNext ==
    ASSUME Undisturbed, CursorInv, SnapshotStands, WorkersStand, [Next]_vars
    PROVE  WorkersStand'
<1> USE DEF CursorInv, CursorParts
<1> WorldOK /\ UsedOK /\ RowsOK /\ FolderOK /\ WorkOK BY TypeParts
<1> SUFFICES ASSUME NEW k \in Keys PROVE WorkerStands(k)'
  BY DEF WorkersStand
<1>w. work[k] \in Work /\ WorkerStands(k) BY DEF WorkOK, WorkersStand
<1>t. used'.owner = 0 => used.owner = 0 /\ \A p \in Places : tgt[p] # None => tgt'[p] # None
  BY TargetKept
<1>p. work[k].at # "out" => <<here, k>> \in Places BY DEF WorkersOK, WorkerOK
<1>q. ASSUME work'[k].at \in {"out", "todo"} PROVE WorkerStands(k)'
  BY <1>q DEF WorkerStands, Writing
<1>o. Out.at = "out" BY DEF Out
<1>1. ASSUME ledger'[k] = ledger[k], work'[k] = work[k] PROVE WorkerStands(k)'
  <2>1. CASE work[k].at = "out" BY <1>1, <1>q, <2>1
  <2>2. CASE work[k].at # "out"
    <3>1. here' = here BY <1>1, <2>2, FolderStays
    <3> QED BY <1>1, <1>t, <1>p, <1>w, <2>2, <3>1 DEF WorkerStands
  <2> QED BY <2>1, <2>2
<1>2. ASSUME phase = "idle", work'[k] = work[k] PROVE WorkerStands(k)'
  BY <1>2, <1>q DEF PassShape
<1>3. ASSUME ItemSteps(k) PROVE WorkerStands(k)'
  <2>h. here' = here
    BY <1>3 DEF ItemSteps, TakeItem, SettleItem, FetchItem, FetchFails, CheckOwnership,
                CheckExisting, PutItem, PutFails, RecordItem, RecordConflict,
                resolveReportedRemoval, resolveDiscardedItem, detectPathKeyedMove, Inspects
  <2>1. CASE TakeItem(k)
    <3> DEFINE at == IF Found(ledger[k]) THEN "settle" ELSE "fetch"
    <3>1. work'[k] = [work[k] EXCEPT !.known = ledger[k], !.at = at] /\ ledger' = ledger
      BY <2>1 DEF TakeItem, Undisturbed, Goes, WorkOK
    <3>2. work'[k].at = at /\ work'[k].known = ledger[k] BY <1>w, <3>1 DEF Work
    <3>3. at \in Writing => ~isOnTarget(ledger[k]) BY DEF Writing, isOnTarget, Found
    <3> QED BY <3>1, <3>2, <3>3 DEF WorkerStands
  <2>2. CASE SettleItem(k)
    <3>1. CASE work'[k] = Out BY <1>o, <1>q, <3>1
    <3>2. CASE work'[k] # Out
      <4>1. /\ ledger'[k].status = ledger[k].status /\ ledger[k] = work[k].known
            /\ work'[k] = [work[k] EXCEPT !.at = "fetch"]
            /\ isOnTarget(ledger[k]) =>
                  classifyKnownItem(ledger[k], work[k].version, here) = "rewrite"
        BY <2>2, <3>2, SettleOutcome
      <4>2. /\ work'[k].at = "fetch" /\ work'[k].known = work[k].known
            /\ work'[k].version = work[k].version
        BY <1>w, <4>1 DEF Work
      <4> QED BY <2>h, <4>1, <4>2 DEF WorkerStands
    <3> QED BY <3>1, <3>2
  <2>3. ASSUME \/ FetchItem(k)
               \/ \E answered \in BOOLEAN : CheckOwnership(k, answered) \/ CheckExisting(k, answered)
               \/ \E tagged \in BOOLEAN : PutItem(k, tagged),
               work'[k].at = "record" =>
                  /\ work'[k].result # "present"
                  /\ used'.owner = 0 => tgt'[<<here, k>>] # None
                  /\ work'[k].result = "conflicted" => work[k].known.collection \in {None, here}
        PROVE  WorkerStands(k)'
    <3>1. /\ ledger' = ledger /\ work[k].at \in Writing /\ work'[k].at \in Writing
          /\ work'[k].known = work[k].known /\ work'[k].version = work[k].version
      BY <2>3, GoesOn
    <3> QED BY <1>w, <2>h, <2>3, <3>1 DEF WorkerStands
  <2>4. CASE FetchItem(k)
    <3>1. work'[k] = [work[k] EXCEPT !.at = "check", !.raw = Bytes(k)]
      BY <2>4 DEF FetchItem, Undisturbed, Goes, WorkOK
    <3>2. work'[k].at = "check" BY <1>w, <3>1 DEF Work
    <3> QED BY <2>3, <2>4, <3>2
  <2>5. ASSUME NEW answered \in BOOLEAN, CheckOwnership(k, answered) PROVE WorkerStands(k)'
    <3> DEFINE current == IF answered THEN tgt[Place(k)] ELSE None
    <3>1. /\ work[k].at = "check" /\ tgt' = tgt
          /\ classifyKnownItem(work[k].known, work[k].version, here) = "rewrite"
      BY <2>5 DEF CheckOwnership, ItemStep, Rewrites, world
    <3>2. CASE ownershipOf(work[k].known.targetVersion, current) = "changed"
      <4>1. work'[k] = [work[k] EXCEPT !.at = "record", !.result = "conflicted"]
        BY <2>5, <3>2 DEF CheckOwnership, Goes, WorkOK
      <4>2. work'[k].result = "conflicted" BY <1>w, <4>1 DEF Work
      <4>3. tgt[<<here, k>>] # None BY <3>2 DEF ownershipOf, Place
      <4>4. work[k].known.collection \in {None, here} BY <3>1 DEF classifyKnownItem
      <4> QED BY <2>3, <2>5, <3>1, <4>2, <4>3, <4>4
    <3>3. CASE ownershipOf(work[k].known.targetVersion, current) # "changed"
      <4>1. work'[k] = [work[k] EXCEPT !.at = "put"]
        BY <2>5, <3>3 DEF CheckOwnership, Goes, WorkOK
      <4>2. work'[k].at = "put" BY <1>w, <4>1 DEF Work
      <4> QED BY <2>3, <2>5, <4>2
    <3> QED BY <3>2, <3>3
  <2>6. ASSUME NEW answered \in BOOLEAN, CheckExisting(k, answered) PROVE WorkerStands(k)'
    <3>1. /\ work[k].at = "check" /\ tgt' = tgt /\ here # None
          /\ classifyKnownItem(work[k].known, work[k].version, here) # "rewrite"
      BY <2>6 DEF CheckExisting, ItemStep, Rewrites
    <3>2. ~isOnTarget(ledger[k]) BY <1>w, <3>1 DEF WorkerStands, Writing, isOnTarget
    <3>3. CASE Exists(k, answered)
      <4>1. work'[k] = [work[k] EXCEPT !.at = "record", !.result = "adopted"]
        BY <2>6, <3>2, <3>3 DEF CheckExisting, Goes, WorkOK
      <4>2. work'[k].result = "adopted" BY <1>w, <4>1 DEF Work
      <4>3. SnapshotStands' BY SnapshotStandsNext
      <4>4. used'.owner = 0 => tgt'[<<here, k>>] # None
        BY <3>1, <3>3, <4>3 DEF Exists, Place, SnapshotStands
      <4> QED BY <2>3, <2>6, <4>2, <4>4
    <3>4. CASE ~Exists(k, answered)
      <4>1. work'[k] = [work[k] EXCEPT !.at = "put"]
        BY <2>6, <3>2, <3>4 DEF CheckExisting, Goes, WorkOK
      <4>2. work'[k].at = "put" BY <1>w, <4>1 DEF Work
      <4> QED BY <2>3, <2>6, <4>2
    <3> QED BY <3>3, <3>4
  <2>7. ASSUME NEW tagged \in BOOLEAN, PutItem(k, tagged) PROVE WorkerStands(k)'
    <3> DEFINE r == IF Rewrites(k) THEN "updated" ELSE "created"
    <3>1. /\ <<here, k>> \in Places /\ work[k].raw \in Contents /\ Lands(k)
      BY <2>7 DEF PutItem, ItemStep, WorkersOK, WorkerOK
    <3>2. tgt'[<<here, k>>] # None BY <3>1 DEF Lands, Refused, Place, WorldOK
    <3>3. work'[k] = [work[k] EXCEPT !.at = "record", !.result = r,
                                     !.targetVersion = Minted(k, tagged)]
      BY <2>7 DEF PutItem, Goes, WorkOK
    <3>4. work'[k].result = r BY <1>w, <3>3 DEF Work
    <3> QED BY <2>3, <2>7, <3>2, <3>4
  <2>8. CASE FetchFails(k) \/ PutFails(k) BY <1>o, <1>q, <2>8, FailOutcome
  <2>9. CASE RecordItem(k) \/ RecordConflict(k) BY <1>o, <1>q, <2>9, RecordOutcome
  <2>10. CASE resolveReportedRemoval(k) \/ resolveDiscardedItem(k) \/ detectPathKeyedMove(k)
    <3>1. work' = work /\ phase \notin {"idle", "folders"}
      BY <2>10 DEF resolveReportedRemoval, resolveDiscardedItem, detectPathKeyedMove, Inspects
    <3> QED BY <1>q, <3>1 DEF PassShape
  <2> QED BY <1>3, <2>1, <2>2, <2>4, <2>5, <2>6, <2>7, <2>8, <2>9, <2>10 DEF ItemSteps
<1> QED BY <1>q, <1>1, <1>2, <1>3, StepKinds

\* What a row claims after a step of a pass it claimed before, of the same place, or
\* a worker has just put it there.
LEMMA RowsClaim ==
    ASSUME Undisturbed, CursorInv, WorkersStand, [Next]_vars, NEW k \in Keys,
           isOnTarget(ledger'[k])
    PROVE  \/ isOnTarget(ledger[k]) /\ ledger'[k].collection = ledger[k].collection
           \/ /\ work[k].at = "record" /\ tgt' = tgt
              /\ ledger'[k].collection \in {None, here}
<1> USE DEF CursorInv, CursorParts
<1> WorldOK /\ UsedOK /\ RowsOK /\ FolderOK /\ WorkOK BY TypeParts
<1>l. ledger[k] \in Row BY DEF RowsOK
<1>1. ASSUME \/ \E action : ledger'[k] = resolveFailure(ledger[k], action)
             \/ ledger'[k] = resolveMove(ledger[k])
             \/ ledger'[k] = resolveDeletion(ledger[k])
      PROVE  isOnTarget(ledger[k]) /\ ledger'[k].collection = ledger[k].collection
  BY <1>l, <1>1 DEF resolveFailure, resolveMove, resolveDeletion, isOnTarget, Row
<1>2. ASSUME ItemSteps(k)
      PROVE  \/ isOnTarget(ledger[k]) /\ ledger'[k].collection = ledger[k].collection
             \/ /\ work[k].at = "record" /\ tgt' = tgt
                /\ ledger'[k].collection \in {None, here}
  <2>1. CASE TakeItem(k) BY <2>1 DEF TakeItem
  <2>2. CASE SettleItem(k) BY <2>2, SettleOutcome DEF isOnTarget
  <2>3. CASE \/ FetchItem(k)
             \/ \E answered \in BOOLEAN : CheckOwnership(k, answered) \/ CheckExisting(k, answered)
             \/ \E tagged \in BOOLEAN : PutItem(k, tagged)
    BY <2>3, GoesOn
  <2>4. CASE FetchFails(k) \/ PutFails(k) BY <2>4, FailOutcome DEF isOnTarget
  <2>5. CASE RecordItem(k) BY <2>5, RecordOutcome DEF RecordItem, world
  <2>6. CASE RecordConflict(k)
    <3>1. /\ work[k].at = "record" /\ work[k].result = "conflicted" /\ tgt' = tgt
      BY <2>6 DEF RecordConflict, ItemStep, world
    <3>2. work[k].known.collection = ledger[k].collection
      BY <3>1 DEF WorkersAbreast, Abreast, Writing
    <3>3. work[k].known.collection \in {None, here} BY <3>1 DEF WorkersStand, WorkerStands
    <3> QED BY <2>6, <3>1, <3>2, <3>3, RecordOutcome
  <2>7. CASE resolveReportedRemoval(k) \/ resolveDiscardedItem(k) \/ detectPathKeyedMove(k)
    <3>1. \E r : ledger' = [ledger EXCEPT ![k] = r] /\ SameCopy(ledger[k], r)
      BY <2>7, DetectorCopies
    <3> QED BY <3>1 DEF RowsOK, SameCopy, isOnTarget
  <2> QED BY <1>2, <2>1, <2>2, <2>3, <2>4, <2>5, <2>6, <2>7 DEF ItemSteps
<1> QED BY <1>1, <1>2, StepKinds

\* A pass keeps the rows right.
LEMMA PassStands ==
    ASSUME Undisturbed, Standing, [Next]_vars, UNCHANGED applyVars
    PROVE  SnapshotStands' /\ WorkersStand' /\ NoSilentRemoval'
<1> USE DEF Standing, Alone
<1>1. SnapshotStands' /\ WorkersStand' BY SnapshotStandsNext, WorkersStandNext
<1>2. ASSUME used'.owner = 0, NEW k \in Keys \ unrecorded, isOnTarget(ledger'[k]),
             ledger'[k].collection # None
      PROVE  \/ tgt'[<<ledger'[k].collection, k>>] # None
             \/ \E j \in Jobs : job[j].key = k /\ job[j].at = "removed"
  <2>1. used.owner = 0 /\ \A p \in Places : tgt[p] # None => tgt'[p] # None
    BY <1>2, TargetKept DEF CursorInv
  <2>2. \/ isOnTarget(ledger[k]) /\ ledger'[k].collection = ledger[k].collection
        \/ /\ work[k].at = "record" /\ tgt' = tgt
           /\ ledger'[k].collection \in {None, here}
    BY <1>2, RowsClaim
  <2>3. CASE isOnTarget(ledger[k]) /\ ledger'[k].collection = ledger[k].collection
    <3>1. <<ledger[k].collection, k>> \in Places
      BY <1>2, <2>3 DEF CursorInv, CursorParts, RowsPlaced, RowPlaced
    <3>2. \/ tgt[<<ledger[k].collection, k>>] # None
          \/ \E j \in Jobs : job[j].key = k /\ job[j].at = "removed"
      BY <1>2, <2>1, <2>3 DEF NoSilentRemoval, CopyOf
    <3> QED BY <2>1, <2>3, <3>1, <3>2
  <2>4. CASE work[k].at = "record" /\ tgt' = tgt /\ ledger'[k].collection \in {None, here}
    BY <1>2, <2>1, <2>4 DEF WorkersStand, WorkerStands
  <2> QED BY <2>2, <2>3, <2>4
<1>3. job' = job /\ unrecorded' = unrecorded BY DEF applyVars
<1>4. NoSilentRemoval' BY <1>2, <1>3 DEF NoSilentRemoval, CopyOf
<1> QED BY <1>1, <1>4

\* So does a job: it is at work on what it has removed until it has recorded or
\* reported it.
LEMMA JobStands ==
    ASSUME "pass" \notin DuringJob, Standing, NEW j \in Jobs, JobSteps(j)
    PROVE  SnapshotStands' /\ WorkersStand' /\ NoSilentRemoval'
<1> USE DEF Standing, Alone, TypesHold
<1> WorldOK /\ UsedOK /\ RowsOK /\ FolderOK /\ WorkOK BY TypeParts
<1>f. /\ UNCHANGED <<phase, snap, work, here>> /\ used'.owner = used.owner
      /\ ~Remove(j) => UNCHANGED tgt
      /\ ~Record(j) => UNCHANGED ledger
      /\ ~Record(j) /\ ~JobFails(j) => UNCHANGED unrecorded
  BY JobFrame DEF passVars
<1>i. phase = "idle" /\ \A k \in Keys : work[k].at = "out" BY JobKeepsCursor
<1>1. SnapshotStands' BY <1>f, <1>i DEF SnapshotStands
<1>2. WorkersStand' BY <1>f, <1>i DEF WorkersStand, WorkerStands, Writing
<1> DEFINE Removing(k) == \E i \in Jobs : job[i].key = k /\ job[i].at = "removed"
<1>m. \A i \in Jobs : i # j => job'[i] = job[i]
  BY JobMoves DEF Closes, Advances, Open, JobsOK
<1>3. ASSUME used'.owner = 0, NEW k \in Keys \ unrecorded', isOnTarget(ledger'[k]),
             ledger'[k].collection # None
      PROVE  tgt'[<<ledger'[k].collection, k>>] # None \/ Removing(k)'
  <2>0. used.owner = 0 /\ k \notin unrecorded
    BY <1>3, <1>f, RecordEffect DEF JobFails
  <2>1. ledger'[k] = ledger[k]
    <3>1. CASE ~Record(j) BY <1>f, <3>1
    <3>2. CASE Record(j)
      <4>l. ledger[k] \in Row BY DEF RowsOK
      <4>1. \/ ledger'[k] = ledger[k]
            \/ ledger'[k] \in {applyDeletion(ledger[k]), applyRelocation(ledger[k])}
        BY <3>2, RecordEffect DEF RowsOK
      <4>2. \A r \in {applyDeletion(ledger[k]), applyRelocation(ledger[k])} : ~isOnTarget(r)
        BY <4>l, RemovalRows DEF isOnTarget
      <4> QED BY <1>3, <4>1, <4>2
    <3> QED BY <3>1, <3>2
  <2>2. tgt[<<ledger[k].collection, k>>] # None \/ Removing(k)
    BY <1>3, <2>0, <2>1 DEF NoSilentRemoval, CopyOf
  <2>3. CASE Remove(j)
    <3>1. job'[j].at = "removed" /\ job'[j].key = job[j].key
      BY <2>3 DEF Remove, Advances, JobsOK, Job
    <3>2. <<ledger[k].collection, k>> \in Places
      BY <1>3, <2>1 DEF CursorInv, CursorParts, RowsPlaced, RowPlaced
    <3>3. CASE job[j].key = k BY <3>1, <3>3
    <3>4. CASE job[j].key # k
      <4>1. CopyOf(job[j].key, job[j].row) # <<ledger[k].collection, k>> BY <3>4 DEF CopyOf
      <4>2. tgt'[<<ledger[k].collection, k>>] = tgt[<<ledger[k].collection, k>>]
        BY <2>3, <3>2, <4>1 DEF Remove, WorldOK
      <4>3. Removing(k) => Removing(k)' BY <1>m, <3>4
      <4> QED BY <2>1, <2>2, <4>2, <4>3
    <3> QED BY <3>3, <3>4
  <2>4. CASE ~Remove(j)
    <3>1. tgt' = tgt BY <1>f, <2>4
    <3>2. ASSUME Removing(k) PROVE Removing(k)'
      <4>1. PICK i \in Jobs : job[i].key = k /\ job[i].at = "removed" BY <3>2
      <4>2. CASE i # j BY <1>m, <4>1, <4>2
      <4>3. CASE i = j
        <5>1. Record(j) \/ JobFails(j)
          BY <2>4, <4>1, <4>3 DEF JobSteps, Open, ConfirmArrival, CheckVersion
        <5>2. CASE JobFails(j) BY <1>3, <4>1, <4>3, <5>2 DEF JobFails
        <5>3. CASE Record(j)
          <6>l. ledger[k] \in Row BY DEF RowsOK
          <6>1. \/ ledger'[k] \in {applyDeletion(ledger[k]), applyRelocation(ledger[k])}
                \/ k \in unrecorded'
            BY <4>1, <4>3, <5>3, RecordEffect DEF RowsOK
          <6>2. \A r \in {applyDeletion(ledger[k]), applyRelocation(ledger[k])} : ~isOnTarget(r)
            BY <6>l, RemovalRows DEF isOnTarget
          <6> QED BY <1>3, <6>1, <6>2
        <5> QED BY <5>1, <5>2, <5>3
      <4> QED BY <4>2, <4>3
    <3> QED BY <2>1, <2>2, <3>1, <3>2
  <2> QED BY <2>3, <2>4
<1>4. NoSilentRemoval' BY <1>3 DEF NoSilentRemoval, CopyOf
<1> QED BY <1>1, <1>2, <1>4

\* A copy is never removed silently: while the owner has removed nothing, a row that
\* says its item is on the target is right, unless a job is at work on it or has
\* reported or died over it; for any number of items, folders, workers and jobs,
\* whichever requests fail and wherever a pass or a job dies.
THEOREM NothingIsRemovedSilently ==
    ASSUME Undisturbed, "pass" \notin DuringJob
    PROVE  ApplySpec => []NoSilentRemoval
<1>1. ApplyInit => Standing
  <2> SUFFICES ASSUME ApplyInit PROVE Standing
    OBVIOUS
  <2>1. snap = {} /\ \A k \in Keys : work[k].at = "out"
    BY DEF ApplyInit, Init, NoPass, Out
  <2>2. \A k \in Keys : ledger[k].collection = None
    BY DEF ApplyInit, Init, legacyRow, NoRow
  <2>3. SnapshotStands /\ WorkersStand
    BY <2>1 DEF SnapshotStands, WorkersStand, WorkerStands, Writing
  <2>4. NoSilentRemoval BY <2>2 DEF NoSilentRemoval
  <2> QED BY <2>3, <2>4, AloneStarts DEF Standing
<1>2. Standing /\ [ApplyNext]_allVars => Standing'
  <2> SUFFICES ASSUME Standing, [ApplyNext]_allVars PROVE Standing'
    OBVIOUS
  <2>1. Alone' BY AloneNext DEF Standing
  <2>2. ASSUME [Next]_vars, UNCHANGED applyVars
        PROVE  SnapshotStands' /\ WorkersStand' /\ NoSilentRemoval'
    BY <2>2, PassStands
  <2>3. ASSUME NEW j \in Jobs, JobSteps(j)
        PROVE  SnapshotStands' /\ WorkersStand' /\ NoSilentRemoval'
    BY <2>3, JobStands
  <2> QED BY <2>1, <2>2, <2>3 DEF ApplyNext, BesideJobs, allVars, Standing
<1>3. Standing => NoSilentRemoval BY DEF Standing
<1> QED BY <1>1, <1>2, <1>3, PTL DEF ApplySpec

-----------------------------------------------------------------------------
(* No relocation leads back.                                               *)

\* A relocation is on a row that has a place and names the new one, and a key without
\* a row has no place.
RowMoved(row) ==
    /\ row.movedToNaturalKeyHash # None => row.movedToCollection # None /\ row.collection # None
    /\ ~Found(row) => row.collection = None

\* Relocations lead to items that have a place, and none leads back.
OneWay ==
    \A k \in Keys : LET to == ledger[k].movedToNaturalKeyHash IN
        /\ RowMoved(ledger[k])
        /\ to # None => ledger[to].collection # None /\ ledger[to].movedToNaturalKeyHash # k

\* An item that is being migrated, or that this pass has created, was seen where it is
\* and has no relocation on its row; what is searched for moves is as it was read.
Unmoved ==
    /\ \A k \in Keys :
          /\ work[k].at \in Writing => ledger[k].movedToNaturalKeyHash = None
          /\ work[k].at \in Writing \cup {"settle"} => <<here, k>> \in seen
    /\ \A a \in createdThisPass :
          /\ ledger[a.key].movedToNaturalKeyHash = None
          /\ <<ledger[a.key].collection, a.key>> \in seen
    /\ phase = "moves" => \A k \in queue : placed[k] = ledger[k] /\ Placed(ledger[k])

\* A statement that records no relocation leaves the one there is, or withdraws it.
Lessens(old, new) ==
    /\ new.movedToNaturalKeyHash \in {old.movedToNaturalKeyHash, None}
    /\ new.collection = old.collection /\ RowMoved(new)

\* These are the statements that do so.
LEMMA StatementsLessen ==
    ASSUME NEW row \in Row, RowMoved(row)
    PROVE  /\ Lessens(row, row)
           /\ \A to \in Colls : Lessens(row, recordMove(row, to, None))
           /\ Lessens(row, clearMove(row))
           /\ Lessens(row, recordAbsent(row))
           /\ Lessens(row, recordReportedDeletion(row))
           /\ Lessens(row, recordTrashedDeletion(row))
           /\ Lessens(row, clearAbsent(row))
           /\ Lessens(row, resolveMove(row))
           /\ Lessens(row, resolveDeletion(row))
           /\ \A action : Lessens(row, resolveFailure(row, action))
           /\ \A hash : Lessens(row, recordFailure(row, hash))
<1> USE DEF Lessens, RowMoved, Found, Row
<1>1. Lessens(row, row) OBVIOUS
<1>2. \A to \in Colls : Lessens(row, recordMove(row, to, None)) BY DEF recordMove
<1>3. Lessens(row, clearMove(row)) BY DEF clearMove
<1>4. Lessens(row, recordAbsent(row)) BY DEF recordAbsent
<1>5. Lessens(row, recordReportedDeletion(row)) BY DEF recordReportedDeletion
<1>6. Lessens(row, recordTrashedDeletion(row)) BY DEF recordTrashedDeletion
<1>7. Lessens(row, clearAbsent(row)) BY DEF clearAbsent
<1>8. Lessens(row, resolveMove(row)) BY DEF resolveMove
<1>9. Lessens(row, resolveDeletion(row)) BY DEF resolveDeletion
<1>10. \A action : Lessens(row, resolveFailure(row, action)) BY DEF resolveFailure
<1>11. \A hash : Lessens(row, recordFailure(row, hash)) BY DEF recordFailure, NoRow
<1> QED BY <1>1, <1>2, <1>3, <1>4, <1>5, <1>6, <1>7, <1>8, <1>9, <1>10, <1>11

\* One statement after another.
LEMMA LessensTwice ==
    ASSUME NEW a, NEW b, NEW c, Lessens(a, b), Lessens(b, c)
    PROVE  Lessens(a, c)
  BY DEF Lessens

\* Settling an item withdraws the relocation on its row.
LEMMA SettleUnmoves ==
    ASSUME CursorInv, OneWay, NEW k \in Keys, SettleItem(k)
    PROVE  Lessens(ledger[k], ledger'[k]) /\ ledger'[k].movedToNaturalKeyHash = None
<1> USE DEF CursorInv, CursorParts
<1> WorldOK /\ UsedOK /\ RowsOK /\ FolderOK /\ WorkOK BY TypeParts
<1> DEFINE known == work[k].known
           again == Reappeared(known, ledger[k])
           back == MovedBack(known, again)
           action == classifyKnownItem(known, work[k].version, here)
<1>0. work[k].at = "settle" /\ here \in Colls BY DEF SettleItem, ItemStep, FolderOK
<1>1. ledger[k] = known /\ known \in Row /\ RowMoved(known)
  BY <1>0 DEF WorkersAbreast, Abreast, RowsOK, OneWay
<1>2. again \in Row /\ back \in Row BY <1>1, ReturnKeepsCopy
<1>3. /\ Lessens(known, again) /\ again.movedToCollection = known.movedToCollection
      /\ again.movedToNaturalKeyHash = known.movedToNaturalKeyHash
  <2>1. /\ clearAbsent(known).movedToCollection = known.movedToCollection
        /\ clearAbsent(known).movedToNaturalKeyHash = known.movedToNaturalKeyHash
    BY <1>1 DEF clearAbsent, Row
  <2> QED BY <1>1, <2>1, StatementsLessen DEF Reappeared
<1>r. RowMoved(again) BY <1>3 DEF Lessens
<1>4. Lessens(known, back) /\ back.movedToNaturalKeyHash = None
  <2> HIDE DEF again, known
  <2>1. CASE known.movedToCollection # None
    <3>1. back = clearMove(again) BY <2>1 DEF MovedBack
    <3>2. Lessens(again, clearMove(again)) /\ clearMove(again).movedToNaturalKeyHash = None
      <4>1. clearMove(again).movedToNaturalKeyHash = None BY <1>2 DEF clearMove, Row
      <4> QED BY <1>2, <1>r, <4>1, StatementsLessen
    <3> QED BY <1>3, <3>1, <3>2, LessensTwice
  <2>2. CASE known.movedToCollection = None
    <3>1. back = again /\ again.movedToNaturalKeyHash = None
      BY <1>1, <1>3, <2>2 DEF MovedBack, RowMoved
    <3> QED BY <1>3, <3>1
  <2> QED BY <2>1, <2>2
<1>5. CASE action = "moved"
  <2>1. ledger'[k] = IF decided(known, here, None) THEN again ELSE recordMove(again, here, None)
    <3> HIDE DEF again, back, action, known
    <3> QED BY <1>5 DEF SettleItem, again, known, action, RowsOK
  <2> HIDE DEF again, known
  <2>2. decided(known, here, None) => again.movedToNaturalKeyHash = None
    BY <1>3 DEF decided
  <2>3. /\ Lessens(again, recordMove(again, here, None))
        /\ recordMove(again, here, None).movedToNaturalKeyHash = None
    <3>1. recordMove(again, here, None).movedToNaturalKeyHash = None BY <1>2 DEF recordMove, Row
    <3> QED BY <1>0, <1>2, <1>r, <3>1, StatementsLessen
  <2>4. Lessens(known, recordMove(again, here, None)) BY <1>3, <2>3, LessensTwice
  <2> QED BY <1>1, <1>3, <2>1, <2>2, <2>3, <2>4
<1>6. CASE action = "record-version"
  <2> DEFINE r == recordUpdate(back, known.status, work[k].version, known.contentHash,
                               known.targetVersion, known.collection)
  <2>2. ledger'[k] = r
    <3> HIDE DEF again, back, action, known
    <3> QED BY <1>6 DEF SettleItem, again, back, known, action, RowsOK
  <2> HIDE DEF back, known
  <2>4. /\ r.status = known.status /\ r.movedToNaturalKeyHash = None /\ r.collection = known.collection
    BY <1>2, <1>4 DEF Lessens, recordUpdate, Row
  <2> HIDE DEF r
  <2> QED BY <1>1, <2>2, <2>4 DEF Lessens, RowMoved, Found
<1>7. CASE action \notin {"moved", "record-version"}
  <2>2. ledger'[k] = back
    <3> HIDE DEF again, back, action, known
    <3> QED BY <1>7 DEF SettleItem, again, back, known, action, RowsOK
  <2> HIDE DEF back, known
  <2> QED BY <1>1, <1>4, <2>2
<1> QED BY <1>5, <1>6, <1>7

\* What is recorded has the relocation its row had.
LEMMA RecordUnmoves ==
    ASSUME CursorInv, OneWay, NEW k \in Keys, RecordItem(k) \/ RecordConflict(k)
    PROVE  /\ ledger'[k].movedToNaturalKeyHash \in {ledger[k].movedToNaturalKeyHash, None}
           /\ RowMoved(ledger[k]) /\ ledger[k] \in Row
           /\ Found(ledger[k]) => ledger'[k].movedToCollection = ledger[k].movedToCollection
<1> USE DEF CursorInv, CursorParts
<1> WorldOK /\ UsedOK /\ RowsOK /\ FolderOK /\ WorkOK BY TypeParts
<1> DEFINE w == work[k]
<1>1. ledger[k] \in Row /\ RowMoved(ledger[k]) BY DEF RowsOK, OneWay
<1>2. CASE RecordItem(k)
  <2>1. PICK status :
          ledger'[k] = IF Found(w.known)
                       THEN recordUpdate(ledger[k], status, w.version, w.raw, w.targetVersion, here)
                       ELSE recordIfAbsent(ledger[k], status, w.version, w.raw, w.targetVersion, here)
    BY <1>2 DEF RecordItem, RowsOK
  <2>2. LET r == recordUpdate(ledger[k], status, w.version, w.raw, w.targetVersion, here)
        IN  /\ r.movedToNaturalKeyHash = ledger[k].movedToNaturalKeyHash
            /\ r.movedToCollection = ledger[k].movedToCollection
    BY <1>1 DEF recordUpdate, Row
  <2>3. LET r == recordIfAbsent(ledger[k], status, w.version, w.raw, w.targetVersion, here)
        IN  IF Found(ledger[k]) THEN r = ledger[k] ELSE r.movedToNaturalKeyHash = None
    BY DEF recordIfAbsent, NoRow
  <2> QED BY <1>1, <2>1, <2>2, <2>3
<1>3. CASE RecordConflict(k)
  <2>1. ledger'[k] = recordUpdate(ledger[k], "adopted", w.known.sourceVersion, w.known.contentHash,
                               w.known.targetVersion, w.known.collection)
    BY <1>3 DEF RecordConflict, RowsOK
  <2> QED BY <1>1, <2>1 DEF recordUpdate, Row
<1> QED BY <1>2, <1>3

\* What a step of a pass, or of what surrounds it, may do with the relocation on a
\* row: leave it, withdraw it, record the copy, or find the item moved away.
RelocationStep(k) ==
    LET old == ledger[k] new == ledger'[k] IN
    /\ \/ Lessens(old, new)
       \/ /\ RecordItem(k) /\ RowMoved(new) /\ new.collection = here
          /\ new.movedToNaturalKeyHash = None
       \/ /\ phase = "moves" /\ k \in queue /\ MovedAway(k)
          /\ <<placed[k].collection, k>> \notin seen
    /\ work'[k].at \in Writing => new.movedToNaturalKeyHash = None

\* No step does anything else.
LEMMA RelocationsMove ==
    ASSUME Undisturbed, CursorInv, OneWay, Unmoved, [Next]_vars, NEW k \in Keys
    PROVE  RelocationStep(k)
<1> USE DEF CursorInv, CursorParts
<1> WorldOK /\ UsedOK /\ RowsOK /\ FolderOK /\ WorkOK BY TypeParts
<1>l. ledger[k] \in Row /\ RowMoved(ledger[k]) BY DEF RowsOK, OneWay
<1>w. work[k].at \in Writing => ledger[k].movedToNaturalKeyHash = None BY DEF Unmoved
<1>o. Out.at = "out" /\ "out" \notin Writing /\ "todo" \notin Writing /\ "settle" \notin Writing
  BY DEF Out, Writing
<1>u. ASSUME Lessens(ledger[k], ledger'[k]),
             work'[k].at \in Writing => work[k].at \in Writing
      PROVE  RelocationStep(k)
  BY <1>u, <1>w DEF RelocationStep, Lessens
<1>1. ASSUME ledger'[k] = ledger[k], work'[k] = work[k] \/ work'[k].at \in {"out", "todo"}
      PROVE  RelocationStep(k)
  BY <1>1, <1>l, <1>o, <1>u, StatementsLessen
<1>2. ASSUME work'[k] = work[k],
             \/ \E action : ledger'[k] = resolveFailure(ledger[k], action)
             \/ ledger'[k] = resolveMove(ledger[k])
             \/ ledger'[k] = resolveDeletion(ledger[k])
      PROVE  RelocationStep(k)
  BY <1>2, <1>l, <1>u, StatementsLessen
<1>3. ASSUME ItemSteps(k) PROVE RelocationStep(k)
  <2>1. CASE TakeItem(k)
    <3>1. work[k].at = "todo" /\ ledger' = ledger BY <2>1 DEF TakeItem, ItemStep
    <3>2. work'[k] = [work[k] EXCEPT !.known = ledger[k],
                                     !.at = IF Found(ledger[k]) THEN "settle" ELSE "fetch"]
      BY <2>1 DEF TakeItem, Undisturbed, Goes, WorkOK
    <3>3. Found(ledger[k]) => work'[k].at = "settle" BY <3>2 DEF WorkOK, Work
    <3>4. ~Found(ledger[k]) => ledger[k].movedToNaturalKeyHash = None BY <1>l DEF RowMoved
    <3>5. Lessens(ledger[k], ledger'[k]) BY <1>l, <3>1, StatementsLessen
    <3> QED BY <1>o, <3>1, <3>3, <3>4, <3>5 DEF RelocationStep
  <2>2. CASE SettleItem(k) BY <2>2, SettleUnmoves DEF RelocationStep
  <2>3. CASE \/ FetchItem(k)
             \/ \E answered \in BOOLEAN : CheckOwnership(k, answered) \/ CheckExisting(k, answered)
             \/ \E tagged \in BOOLEAN : PutItem(k, tagged)
    <3>1. ledger' = ledger /\ work[k].at \in Writing BY <2>3, GoesOn
    <3> QED BY <1>l, <1>u, <3>1, StatementsLessen
  <2>4. CASE FetchFails(k) \/ PutFails(k)
    <3>1. PICK hash : ItemFails(k, hash) BY <2>4 DEF FetchFails, PutFails
    <3>2. work'[k] = Out /\ ledger'[k] = recordFailure(ledger[k], hash)
      BY <3>1 DEF ItemFails, Undisturbed, Done, Goes, WorkOK, RowsOK
    <3> QED BY <1>l, <1>o, <1>u, <3>2, StatementsLessen
  <2>5. CASE RecordItem(k) \/ RecordConflict(k)
    <3>1. /\ work[k].at = "record" /\ work'[k] = Out
          /\ ledger'[k].status \in {"copied", "adopted", "updated"}
          /\ RecordItem(k) => ledger'[k].collection = here
          /\ RecordConflict(k) => ledger'[k].collection = ledger[k].collection
      BY <2>5, RecordOutcome
    <3>2. ledger'[k].movedToNaturalKeyHash = None
      BY <1>w, <2>5, <3>1, RecordUnmoves DEF Writing
    <3>3. RowMoved(ledger'[k]) BY <3>1, <3>2 DEF RowMoved, Found
    <3> QED BY <1>o, <2>5, <3>1, <3>2, <3>3 DEF RelocationStep, Lessens
  <2>6. CASE resolveReportedRemoval(k) \/ resolveDiscardedItem(k)
    <3>1. work' = work BY <2>6 DEF resolveReportedRemoval, resolveDiscardedItem, Inspects
    <3>2. ledger'[k] \in {ledger[k], recordReportedDeletion(ledger[k]), recordTrashedDeletion(ledger[k])}
      BY <2>6 DEF resolveReportedRemoval, resolveDiscardedItem, RowsOK
    <3> QED BY <1>l, <1>u, <3>1, <3>2, StatementsLessen
  <2>7. CASE detectPathKeyedMove(k)
    <3>0. phase = "moves" /\ k \in queue /\ work' = work
      BY <2>7 DEF detectPathKeyedMove, Inspects
    <3>1. work[k].at = "out" BY <3>0 DEF PassShape
    <3>2. CASE ledger' = ledger BY <1>l, <1>u, <3>0, <3>2, StatementsLessen
    <3>3. CASE StillThere(k)
      <4>1. PICK r : /\ r \in {ledger[k], clearMove(ledger[k])}
                     /\ ledger'[k] \in {r, clearAbsent(r)}
        BY <3>3 DEF StillThere, RowsOK
      <4>2. Lessens(ledger[k], r) /\ r \in Row BY <1>l, <4>1, StatementsLessen, ClaimTypes
      <4>3. Lessens(r, ledger'[k]) BY <4>1, <4>2, StatementsLessen DEF Lessens
      <4> QED BY <1>u, <3>0, <4>2, <4>3, LessensTwice
    <3>4. CASE MovedAway(k) /\ <<placed[k].collection, k>> \notin seen
      BY <1>o, <3>0, <3>1, <3>4 DEF RelocationStep
    <3>5. CASE Vanished(k)
      <4>1. ledger'[k] = recordAbsent(ledger[k]) BY <3>5 DEF Vanished, RowsOK
      <4> QED BY <1>l, <1>u, <3>0, <4>1, StatementsLessen
    <3> QED BY <2>7, <3>2, <3>3, <3>4, <3>5 DEF detectPathKeyedMove
  <2> QED BY <1>3, <2>1, <2>2, <2>3, <2>4, <2>5, <2>6, <2>7 DEF ItemSteps
<1> QED BY <1>1, <1>2, <1>3, StepKinds

\* What a pass remembers of the items it has seen and created.
LEMMA MemoryMoves ==
    ASSUME Undisturbed, CursorInv, [Next]_vars
    PROVE  /\ \/ here' = here /\ seen \subseteq seen'
              \/ \A k \in Keys : work'[k].at \in {"out", "todo"}
           /\ \/ createdThisPass' = {}
              \/ /\ seen \subseteq seen'
                 /\ \A a \in createdThisPass' : a \in createdThisPass \/ RecordItem(a.key)
           /\ \A k \in Keys : work'[k].at \in Writing \cup {"settle"} =>
                 work[k].at \in Writing \cup {"settle"} \/ <<here', k>> \in seen'
<1> USE DEF CursorInv, CursorParts
<1> WorldOK /\ UsedOK /\ RowsOK /\ FolderOK /\ WorkOK BY TypeParts
<1> DEFINE Busier == \A k \in Keys : work'[k].at \in Writing \cup {"settle"} =>
                        work[k].at \in Writing \cup {"settle"} \/ <<here', k>> \in seen'
<1>o. Out.at = "out" BY DEF Out
<1>b. (\A k \in Keys : work'[k].at \in {"out", "todo"}) => Busier BY DEF Writing
<1>c. work' = work => Busier OBVIOUS
<1>1. CASE UNCHANGED <<here, seen, createdThisPass, work>>
  BY <1>1, <1>c
<1>2. CASE ForgetPass
  <2>1. \A k \in Keys : work'[k].at \in {"out", "todo"} BY <1>2, <1>o DEF ForgetPass
  <2> QED BY <1>2, <1>b, <2>1 DEF ForgetPass
<1>3. ASSUME NEW c \in Colls, NEW keysOk \in BOOLEAN, ListFolder(c, keysOk)
      PROVE  /\ \A k \in Keys : work'[k].at \in {"out", "todo"}
             /\ createdThisPass' = createdThisPass /\ seen \subseteq seen'
  BY <1>3 DEF ListFolder, Out
<1>4. CASE FinishFolder
  <2>1. \A k \in Keys : work'[k].at \in {"out", "todo"} BY <1>4 DEF FinishFolder
  <2> QED BY <1>4, <1>b, <2>1 DEF FinishFolder, FolderOK
<1>5. CASE (\E folders \in SUBSET Colls : StartPass(folders)) \/ BeginRemovals \/ BeginDiscarded \/ BeginMoves
  BY <1>5, <1>c DEF StartPass, BeginRemovals, BeginDiscarded, BeginMoves, Proceed
<1>6. ASSUME NEW i \in Keys, ItemSteps(i)
      PROVE  /\ here' = here /\ seen \subseteq seen'
             /\ \A a \in createdThisPass' : a \in createdThisPass \/ RecordItem(a.key)
             /\ Busier
  <2>1. CASE TakeItem(i)
    <3>1. \E w : Goes(i, w) BY <2>1 DEF TakeItem
    <3>2. /\ here' = here /\ seen' = seen \cup {<<here, i>>}
          /\ createdThisPass' = createdThisPass
      BY <2>1 DEF TakeItem, Undisturbed
    <3>3. \A k \in Keys : k # i => work'[k] = work[k] BY <3>1 DEF Goes, WorkOK
    <3> QED BY <3>2, <3>3
  <2>2. CASE \/ FetchItem(i)
             \/ \E answered \in BOOLEAN : CheckOwnership(i, answered) \/ CheckExisting(i, answered)
             \/ \E tagged \in BOOLEAN : PutItem(i, tagged)
    <3>1. \E w : Goes(i, w)
      BY <2>2 DEF FetchItem, CheckOwnership, CheckExisting, PutItem, Undisturbed
    <3>2. /\ here' = here /\ seen' = seen
          /\ createdThisPass' = createdThisPass
      BY <2>2 DEF FetchItem, CheckOwnership, CheckExisting, PutItem, Undisturbed
    <3>3. work[i].at \in Writing BY <2>2, GoesOn
    <3>4. \A k \in Keys : k # i => work'[k] = work[k] BY <3>1 DEF Goes, WorkOK
    <3> QED BY <3>2, <3>3, <3>4
  <2>3. CASE SettleItem(i)
    <3>1. \E w : Goes(i, w) BY <2>3 DEF SettleItem, Done
    <3>2. /\ here' = here /\ seen' = seen
          /\ createdThisPass' = createdThisPass /\ work[i].at = "settle"
      BY <2>3 DEF SettleItem, ItemStep
    <3>4. \A k \in Keys : k # i => work'[k] = work[k] BY <3>1 DEF Goes, WorkOK
    <3> QED BY <3>2, <3>4
  <2>4. CASE FetchFails(i) \/ PutFails(i) \/ RecordConflict(i)
    <3>1. Done(i) BY <2>4 DEF FetchFails, PutFails, ItemFails, RecordConflict
    <3>2. /\ here' = here /\ seen' = seen
          /\ createdThisPass' = createdThisPass
      BY <2>4 DEF FetchFails, PutFails, RecordConflict
    <3>3. work'[i] = Out /\ \A k \in Keys : k # i => work'[k] = work[k] BY <3>1 DEF Done, Goes, WorkOK
    <3> QED BY <1>o, <3>2, <3>3 DEF Writing
  <2>5. CASE RecordItem(i)
    <3>1. Done(i) BY <2>5 DEF RecordItem
    <3>2. /\ here' = here /\ seen' = seen
      BY <2>5 DEF RecordItem
    <3>3. work'[i] = Out /\ \A k \in Keys : k # i => work'[k] = work[k] BY <3>1 DEF Done, Goes, WorkOK
    <3>4. \A a \in createdThisPass' : a \in createdThisPass \/ a.key = i
      BY <2>5 DEF RecordItem
    <3> QED BY <1>o, <2>5, <3>2, <3>3, <3>4 DEF Writing
  <2>6. CASE resolveReportedRemoval(i) \/ resolveDiscardedItem(i) \/ detectPathKeyedMove(i)
    <3>1. /\ here' = here /\ seen' = seen /\ work' = work
      BY <2>6 DEF resolveReportedRemoval, resolveDiscardedItem, detectPathKeyedMove, Inspects
    <3>2. createdThisPass' \subseteq createdThisPass
      BY <2>6 DEF resolveReportedRemoval, resolveDiscardedItem, detectPathKeyedMove, StillThere,
                  MovedAway, Vanished
    <3> QED BY <1>c, <3>1, <3>2
  <2> QED BY <1>6, <2>1, <2>2, <2>3, <2>4, <2>5, <2>6 DEF ItemSteps
<1>7. CASE Environment
  BY <1>1, <1>2, <1>7 DEF Environment, SourceChange, SourceRename, OwnerChange, AcceptFailure, RetryFailure,
                KeepMove, KeepDeletion, ClearCursors, Crash, passVars
<1>8. CASE PassSteps
  <2>1. ASSUME NEW c \in Colls, NEW keysOk \in BOOLEAN, ListFolder(c, keysOk) PROVE Busier
    BY <1>b, <1>3, <2>1
  <2> HIDE DEF Busier
  <2>2. CASE AbortPass \/ EndPass BY <1>2, <2>2 DEF AbortPass, EndPass, Busier
  <2>3. CASE \E c \in Colls, keysOk \in BOOLEAN : ListFolder(c, keysOk)
    BY <1>3, <2>1, <2>3 DEF Busier
  <2>4. CASE \E i \in Keys : ItemSteps(i)
    BY <1>6, <2>4 DEF Busier
  <2> QED BY <1>4, <1>5, <1>8, <2>2, <2>3, <2>4 DEF PassSteps
<1>9. CASE UNCHANGED vars BY <1>1, <1>9 DEF vars, passVars
<1> QED BY <1>7, <1>8, <1>9 DEF Next

\* What is searched for moves is read once, and left alone until its turn.
LEMMA QueueMoves ==
    ASSUME Undisturbed, CursorInv, [Next]_vars, phase' = "moves"
    PROVE  \/ placed' = ledger' /\ \A k \in queue' : Placed(ledger'[k])
           \/ /\ phase = "moves" /\ placed' = placed /\ queue' \subseteq queue
              /\ \A k \in queue' : ledger'[k] = ledger[k]
<1> USE DEF CursorInv
<1> RowsOK BY TypeParts
<1>1. CASE phase = "moves" /\ UNCHANGED <<placed, queue, ledger>> BY <1>1
<1>2. CASE Environment
  BY <1>1, <1>2 DEF Environment, SourceChange, SourceRename, OwnerChange, AcceptFailure, RetryFailure,
                KeepMove, KeepDeletion, ClearCursors, Crash, ForgetPass, passVars, May, Undisturbed
<1>3. ASSUME NEW i \in Keys, ItemSteps(i)
      PROVE  /\ phase = "moves" /\ placed' = placed /\ queue' \subseteq queue
             /\ \A k \in queue' : ledger'[k] = ledger[k]
  <2>1. detectPathKeyedMove(i)
    BY <1>3 DEF ItemSteps, TakeItem, SettleItem, FetchItem, FetchFails, CheckOwnership,
                CheckExisting, PutItem, PutFails, RecordItem, RecordConflict, ItemStep,
                resolveReportedRemoval, resolveDiscardedItem, Inspects
  <2>2. phase = "moves" /\ placed' = placed /\ queue' = queue \ {i}
    BY <2>1 DEF detectPathKeyedMove, Inspects
  <2>3. ledger' = ledger \/ \E r : ledger' = [ledger EXCEPT ![i] = r]
    BY <2>1 DEF detectPathKeyedMove, StillThere, MovedAway, Vanished
  <2>4. queue \subseteq Keys BY TypeParts DEF FolderOK
  <2> QED BY <2>2, <2>3, <2>4 DEF RowsOK
<1>4. CASE BeginMoves
  BY <1>4 DEF BeginMoves, Proceed
<1>5. CASE PassSteps
  BY <1>3, <1>4, <1>5 DEF PassSteps, StartPass, ListFolder, FinishFolder, AbortPass, BeginRemovals,
                      BeginDiscarded, Proceed, EndPass, ForgetPass
<1>6. CASE UNCHANGED vars BY <1>1, <1>6 DEF vars, passVars
<1> QED BY <1>2, <1>5, <1>6 DEF Next

\* A pass finds an item moved away only to one it has created, which has itself not
\* moved.
LEMMA MovesAreFresh ==
    ASSUME CursorInv, OneWay, Unmoved, NEW k \in Keys, phase = "moves", k \in queue, MovedAway(k),
           <<placed[k].collection, k>> \notin seen, Placed(ledger[k])
    PROVE  \E to \in Keys :
              /\ to # k /\ ledger'[k].movedToNaturalKeyHash = to
              /\ ledger'[k].collection = ledger[k].collection /\ RowMoved(ledger'[k])
              /\ \A x \in Keys : x # k => ledger'[x] = ledger[x]
              /\ ledger[to].movedToNaturalKeyHash = None /\ ledger[to].collection # None
              /\ \A a \in createdThisPass : a.key # k
<1> USE DEF CursorInv
<1> RowsOK /\ FolderOK BY TypeParts
<1>l. ledger[k] \in Row /\ RowMoved(ledger[k]) /\ placed[k] = ledger[k] BY DEF RowsOK, OneWay, Unmoved
<1>1. PICK a \in createdThisPass : ledger' = [ledger EXCEPT ![k] = recordMove(ledger[k], a.collection, a.key)]
  BY DEF MovedAway, RowsOK
<1>2. a.key \in Keys /\ a.collection \in Colls BY DEF FolderOK, Arrivals
<1>3. \A b \in createdThisPass : b.key # k
  BY <1>l DEF Unmoved
<1>4. ledger[a.key].movedToNaturalKeyHash = None /\ ledger[a.key].collection # None
  <2>1. <<ledger[a.key].collection, a.key>> \in Colls \X Keys BY DEF Unmoved, FolderOK
  <2> QED BY <2>1 DEF Unmoved
<1>5. /\ ledger'[k] = recordMove(ledger[k], a.collection, a.key)
      /\ \A x \in Keys : x # k => ledger'[x] = ledger[x]
  BY <1>1 DEF RowsOK
<1>6. LET r == recordMove(ledger[k], a.collection, a.key) IN
      /\ r.movedToNaturalKeyHash = a.key /\ r.collection = ledger[k].collection
      /\ r.movedToCollection = a.collection /\ r.status = ledger[k].status
  BY <1>l DEF recordMove, Row
<1>7. RowMoved(ledger'[k]) BY <1>2, <1>5, <1>6 DEF RowMoved, Found, Placed
<1> QED BY <1>2, <1>3, <1>4, <1>5, <1>6, <1>7

\* Every step keeps relocations from leading back.
LEMMA OneWayNext ==
    ASSUME Undisturbed, CursorInv, OneWay, Unmoved, [Next]_vars
    PROVE  OneWay' /\ Unmoved'
<1> USE DEF CursorInv, CursorParts
<1> WorldOK /\ UsedOK /\ RowsOK /\ FolderOK /\ WorkOK BY TypeParts
<1>s. \A k \in Keys : RelocationStep(k) BY RelocationsMove
<1>k. \A k \in Keys : ledger[k].movedToNaturalKeyHash \in Keys \cup {None} BY DEF RowsOK, Row
<1>q. phase = "moves" => \A k \in queue : placed[k] = ledger[k] BY DEF Unmoved
<1>r. \A k \in Keys : RecordItem(k) => /\ work[k].at = "record" /\ here \in Colls /\ here' = here
                                       /\ <<here, k>> \in seen /\ phase = "folders" /\ seen' = seen
  BY DEF RecordItem, ItemStep, Unmoved, Writing, FolderOK
<1>m. /\ \/ here' = here /\ seen \subseteq seen'
         \/ \A k \in Keys : work'[k].at \in {"out", "todo"}
      /\ \/ createdThisPass' = {}
         \/ /\ seen \subseteq seen'
            /\ \A a \in createdThisPass' : a \in createdThisPass \/ RecordItem(a.key)
      /\ \A k \in Keys : work'[k].at \in Writing \cup {"settle"} =>
            work[k].at \in Writing \cup {"settle"} \/ <<here', k>> \in seen'
  BY MemoryMoves
<1>a. /\ createdThisPass \subseteq Arrivals /\ createdThisPass' \subseteq Arrivals
      /\ \A a \in Arrivals : a.key \in Keys
  <2>1. TypeOK' BY SyncTypeNext
  <2> QED BY <2>1 DEF TypeOK, Arrivals
<1>u1. \A k \in Keys : work'[k].at \in Writing => ledger'[k].movedToNaturalKeyHash = None
  BY <1>s DEF RelocationStep
<1>u2. \A k \in Keys : work'[k].at \in Writing \cup {"settle"} => <<here', k>> \in seen'
  BY <1>m DEF Unmoved, Writing
<1>u3. phase' = "moves" => \A k \in queue' : placed'[k] = ledger'[k] /\ Placed(ledger'[k])
  BY QueueMoves DEF Unmoved
<1>1. ASSUME NEW k \in Keys, phase = "moves", k \in queue, MovedAway(k),
             <<placed[k].collection, k>> \notin seen
      PROVE  OneWay' /\ Unmoved'
  <2>1. PICK to \in Keys :
              /\ to # k /\ ledger'[k].movedToNaturalKeyHash = to
              /\ ledger'[k].collection = ledger[k].collection /\ RowMoved(ledger'[k])
              /\ \A x \in Keys : x # k => ledger'[x] = ledger[x]
              /\ ledger[to].movedToNaturalKeyHash = None /\ ledger[to].collection # None
              /\ \A a \in createdThisPass : a.key # k
    BY <1>1, MovesAreFresh DEF Unmoved
  <2>2. ASSUME NEW x \in Keys
        PROVE  /\ RowMoved(ledger'[x])
               /\ \A y \in Keys : ledger'[x].movedToNaturalKeyHash = y =>
                     ledger'[y].collection # None /\ ledger'[y].movedToNaturalKeyHash # x
    <3>1. CASE x = k BY <2>1, <3>1
    <3>2. CASE x # k
      <4>1. ledger'[x] = ledger[x] /\ RowMoved(ledger[x]) BY <2>1, <3>2 DEF OneWay
      <4>2. ASSUME NEW y \in Keys, ledger[x].movedToNaturalKeyHash = y
            PROVE  ledger'[y].collection # None /\ ledger'[y].movedToNaturalKeyHash # x
        <5>1. ledger[y].collection # None /\ ledger[y].movedToNaturalKeyHash # x
          BY <4>2 DEF OneWay
        <5>2. x # to BY <2>1, <4>2
        <5> QED BY <2>1, <5>1, <5>2
      <4> QED BY <4>1, <4>2
    <3> QED BY <3>1, <3>2
  <2>3. \A x \in Keys : ledger'[x].movedToNaturalKeyHash \in Keys \cup {None}
    BY <1>k, <2>1
  <2>4. OneWay' BY <2>2, <2>3 DEF OneWay
  <2>5. ASSUME NEW a \in createdThisPass'
        PROVE  ledger'[a.key].movedToNaturalKeyHash = None /\ <<ledger'[a.key].collection, a.key>> \in seen'
    <3>1. a \in createdThisPass /\ seen \subseteq seen' BY <1>1, <1>a, <1>m, <1>r, <2>5
    <3>2. ledger'[a.key] = ledger[a.key] BY <1>a, <2>1, <3>1
    <3> QED BY <3>1, <3>2 DEF Unmoved
  <2> QED BY <1>u1, <1>u2, <1>u3, <2>4, <2>5 DEF Unmoved
<1>2. ASSUME \A k \in Keys : ~(/\ phase = "moves" /\ k \in queue /\ MovedAway(k)
                               /\ <<placed[k].collection, k>> \notin seen)
      PROVE  OneWay' /\ Unmoved'
  <2>1. ASSUME NEW x \in Keys
        PROVE  /\ RowMoved(ledger'[x])
               /\ ledger'[x].movedToNaturalKeyHash \in {ledger[x].movedToNaturalKeyHash, None}
               /\ \/ ledger'[x].collection = ledger[x].collection
                  \/ RecordItem(x) /\ ledger'[x].collection = here
    BY <1>2, <1>s DEF RelocationStep, Lessens
  <2>2. \A x \in Keys : ledger[x].collection # None => ledger'[x].collection # None
    BY <1>r, <2>1
  <2>3. ASSUME NEW x \in Keys, NEW y \in Keys, ledger'[x].movedToNaturalKeyHash = y
        PROVE  ledger'[y].collection # None /\ ledger'[y].movedToNaturalKeyHash # x
    <3>1. ledger[x].movedToNaturalKeyHash = y BY <2>1, <2>3
    <3>2. ledger[y].collection # None /\ ledger[y].movedToNaturalKeyHash # x
      BY <3>1 DEF OneWay
    <3> QED BY <2>1, <2>2, <3>2
  <2>4. \A x \in Keys : ledger'[x].movedToNaturalKeyHash \in Keys \cup {None}
    BY <1>k, <2>1
  <2>5. OneWay' BY <2>1, <2>3, <2>4 DEF OneWay
  <2>6. ASSUME NEW a \in createdThisPass'
        PROVE  ledger'[a.key].movedToNaturalKeyHash = None /\ <<ledger'[a.key].collection, a.key>> \in seen'
    <3>0. a.key \in Keys BY <1>a
    <3>1. CASE RecordItem(a.key)
      <4>1. ledger'[a.key].collection = here BY <3>0, <3>1, RecordOutcome
      <4>2. ledger[a.key].movedToNaturalKeyHash = None BY <1>r, <3>0, <3>1 DEF Unmoved, Writing
      <4> QED BY <1>r, <2>1, <3>0, <3>1, <4>1, <4>2
    <3>2. CASE ~RecordItem(a.key)
      <4>1. a \in createdThisPass /\ seen \subseteq seen' BY <1>m, <2>6, <3>2
      <4>2. ledger[a.key].movedToNaturalKeyHash = None /\ <<ledger[a.key].collection, a.key>> \in seen
        BY <4>1 DEF Unmoved
      <4> QED BY <2>1, <3>0, <3>2, <4>1, <4>2
    <3> QED BY <3>1, <3>2
  <2> QED BY <1>u1, <1>u2, <1>u3, <2>5, <2>6 DEF Unmoved
<1> QED BY <1>1, <1>2

\* At the start nothing has moved.
LEMMA OneWayStarts == Init => OneWay /\ Unmoved
<1> SUFFICES ASSUME Init PROVE OneWay /\ Unmoved
  OBVIOUS
<1>1. \A k \in Keys : /\ ledger[k].movedToNaturalKeyHash = None /\ ledger[k].collection = None
                      /\ work[k].at = "out"
  BY DEF Init, NoPass, legacyRow, NoRow, Out
<1>2. createdThisPass = {} /\ phase = "idle" BY DEF Init, NoPass
<1> QED BY <1>1, <1>2 DEF OneWay, RowMoved, Unmoved, Writing

-----------------------------------------------------------------------------
(* The last copy.                                                          *)

\* The relocated copy is there, or was itself removed on a deletion.
Arrived(to) ==
    \/ \E p \in Places : p[2] = to /\ tgt[p] # None
    \/ to \in erased \cup unrecorded
    \/ \E i \in Jobs : job[i].key = to /\ job[i].kind = "deletion" /\ job[i].at = "removed"

\* Nothing but the item and its arrival has these bytes.
Pair(k, to) ==
    /\ to \in Keys /\ to # k /\ ledger[k].movedToNaturalKeyHash = to
    /\ Placed(ledger[k]) /\ Placed(ledger[to]) /\ ledger[to].contentHash = ledger[k].contentHash
    /\ \A x \in Keys : Placed(ledger[x]) /\ ledger[x].contentHash = ledger[k].contentHash => x \in {k, to}

JobArrived(j) ==
    LET to == job[j].row.movedToNaturalKeyHash IN
    job[j].at # "none" /\ job[j].kind = "relocation" =>
        /\ Pair(job[j].key, to)
        /\ job[j].at \in {"confirmed", "checked"} => Arrived(to)

JobsArrived == \A j \in Jobs : JobArrived(j)

OneKept == Alone /\ OneWay /\ Unmoved /\ JobsArrived

\* A set of at most two has no third element.
LEMMA NoThird ==
    ASSUME NEW S, IsFiniteSet(S), Cardinality(S) <= 2, NEW a \in S, NEW b \in S, a # b, NEW c \in S
    PROVE  c \in {a, b}
<1> SUFFICES ASSUME c # a, c # b PROVE FALSE
  OBVIOUS
<1>1. IsFiniteSet({a}) /\ Cardinality({a}) = 1 BY FS_Singleton
<1>2. PICK T : T = {a} \cup {b} OBVIOUS
<1>3. PICK U : U = T \cup {c} OBVIOUS
<1>4. /\ IsFiniteSet(T)
      /\ Cardinality(T) = IF b \in {a} THEN Cardinality({a}) ELSE Cardinality({a}) + 1
  BY <1>1, <1>2, FS_AddElement, Zenon
<1>5. Cardinality(U) = IF c \in T THEN Cardinality(T) ELSE Cardinality(T) + 1
  BY <1>3, <1>4, FS_AddElement, Zenon
<1>6. c \notin T /\ b \notin {a} /\ U \in SUBSET S BY <1>2, <1>3
<1>7. Cardinality(U) <= Cardinality(S) BY <1>6, FS_Subset
<1>8. Cardinality(S) \in Nat BY FS_CardinalityType
<1>9. Cardinality(U) = 3 BY <1>1, <1>4, <1>5, <1>6
<1> QED BY <1>7, <1>8, <1>9

\* What relocationCheck finds: at most two rows have these bytes.
LEMMA GatesPair ==
    ASSUME TypeOK, OneWay, NEW k \in Keys, relocationGates(k)
    PROVE  Pair(k, ledger[k].movedToNaturalKeyHash)
<1> RowsOK BY TypeParts
<1> DEFINE to == ledger[k].movedToNaturalKeyHash
           S == {i \in PlacedKeys : ledger[i].contentHash = ledger[k].contentHash}
<1>1. /\ to # None /\ to # k /\ WroteIt(ledger[k]) /\ WroteIt(ledger[to])
      /\ ledger[to].contentHash = ledger[k].contentHash /\ Cardinality(S) <= 2
  BY DEF relocationGates, relocationCheck
<1>2. to \in Keys BY <1>1 DEF RowsOK, Row
<1>3. Placed(ledger[k]) /\ Placed(ledger[to])
  BY <1>1, <1>2 DEF OneWay, RowMoved, Placed, WroteIt
<1>4. k \in S /\ to \in S /\ S \in SUBSET Keys BY <1>1, <1>2, <1>3 DEF PlacedKeys
<1>5. IsFiniteSet(S)
  <2> HIDE DEF S
  <2> QED BY <1>4, FS_Subset
<1>6. \A x \in S : x \in {k, to}
  <2> HIDE DEF S
  <2> QED BY <1>1, <1>4, <1>5, NoThird
<1> QED BY <1>1, <1>2, <1>3, <1>6 DEF Pair, PlacedKeys

\* What a pair of rows is told by.
SameMove(old, new) ==
    /\ new.movedToNaturalKeyHash = old.movedToNaturalKeyHash /\ new.contentHash = old.contentHash
    /\ Placed(new) <=> Placed(old)

\* A tombstone is placed as the row was, and so is a row that was answered about.
LEMMA AnswersKeepMove ==
    ASSUME NEW row \in Row
    PROVE  /\ CanApplyDeletion(row) => SameMove(row, applyDeletion(row))
           /\ WroteIt(row) => SameMove(row, applyRelocation(row))
           /\ \A action : SameMove(row, resolveFailure(row, action))
           /\ SameMove(row, resolveMove(row))
           /\ SameMove(row, resolveDeletion(row))
<1> USE DEF SameMove, Placed, Row
<1>1. CanApplyDeletion(row) => SameMove(row, applyDeletion(row))
  BY DEF CanApplyDeletion, WroteIt, applyDeletion
<1>2. WroteIt(row) => SameMove(row, applyRelocation(row)) BY DEF WroteIt, applyRelocation
<1>3. \A action : SameMove(row, resolveFailure(row, action)) BY DEF resolveFailure
<1>4. SameMove(row, resolveMove(row)) BY DEF resolveMove
<1>5. SameMove(row, resolveDeletion(row)) BY DEF resolveDeletion
<1> QED BY <1>1, <1>2, <1>3, <1>4, <1>5

\* While the rows keep their moves and places, so do pairs.
LEMMA PairsStay ==
    ASSUME \A x \in Keys : SameMove(ledger[x], ledger'[x]), NEW k \in Keys, NEW to, Pair(k, to)
    PROVE  Pair(k, to)'
  BY DEF Pair, SameMove

\* While a job is open no pass runs and the owner leaves the target alone.
LEMMA BesideOpenJobs ==
    ASSUME Undisturbed, DuringJob = {}, Alone, ~NoJobOpen, BesideJobs
    PROVE  tgt' = tgt /\ \A x \in Keys : SameMove(ledger[x], ledger'[x])
<1> USE DEF Alone, TypesHold
<1> WorldOK /\ UsedOK /\ RowsOK /\ FolderOK /\ WorkOK BY TypeParts
<1>1. phase = "idle" /\ phase' = "idle" /\ used'.owner = used.owner /\ Next
  BY DEF BesideJobs, JobsAlone
<1>2. here = None BY <1>1 DEF CursorInv, CursorParts, PassShape
<1>3. \A i \in Keys : ~ItemSteps(i)
  BY <1>1 DEF ItemSteps, TakeItem, SettleItem, FetchItem, FetchFails, CheckOwnership,
                CheckExisting, PutItem, PutFails, RecordItem, RecordConflict, ItemStep,
                resolveReportedRemoval, resolveDiscardedItem, detectPathKeyedMove, Inspects
<1>4. \A p \in Places : ~OwnerChange(p)
  <2>1. ASSUME NEW p \in Places, OwnerChange(p) PROVE FALSE
    <3>1. used' = [used EXCEPT !["owner"] = @ + 1] BY <2>1 DEF OwnerChange, May
    <3> QED BY <1>1, <3>1 DEF UsedOK
  <2> QED BY <2>1
<1>5. tgt' = tgt
  <2>1. CASE Environment
    BY <1>4, <2>1 DEF Environment, SourceChange, SourceRename, AcceptFailure, RetryFailure,
                KeepMove, KeepDeletion, ClearCursors, Crash, world
  <2>2. CASE PassSteps
    BY <1>3, <2>2 DEF PassSteps, StartPass, ListFolder, FinishFolder, AbortPass, BeginRemovals,
              BeginDiscarded, BeginMoves, Proceed, EndPass, world
  <2> QED BY <1>1, <2>1, <2>2 DEF Next
<1>6. ASSUME NEW x \in Keys PROVE SameMove(ledger[x], ledger'[x])
  <2>1. ledger[x] \in Row BY DEF RowsOK
  <2>2. SameMove(ledger[x], ledger[x]) BY DEF SameMove
  <2>3. \/ ledger'[x] = ledger[x]
        \/ \E action : ledger'[x] = resolveFailure(ledger[x], action)
        \/ ledger'[x] = resolveMove(ledger[x])
        \/ ledger'[x] = resolveDeletion(ledger[x])
    BY <1>1, <1>3, StepKinds
  <2> QED BY <2>1, <2>2, <2>3, AnswersKeepMove
<1> QED BY <1>5, <1>6

\* The steps of a job leave the relocations on the rows, and where they lead.
LEMMA JobKeepsMoves ==
    ASSUME "pass" \notin DuringJob, Alone, OneWay, Unmoved, NEW j \in Jobs, JobSteps(j)
    PROVE  OneWay' /\ Unmoved' /\ \A x \in Keys : SameMove(ledger[x], ledger'[x])
<1> USE DEF Alone, TypesHold
<1> RowsOK /\ FolderOK BY TypeParts
<1>f. /\ UNCHANGED <<phase, here, work, seen, createdThisPass, queue, placed>>
      /\ ~Record(j) => UNCHANGED ledger
  BY JobFrame DEF passVars
<1>i. phase = "idle" /\ \A k \in Keys : work[k].at = "out" BY JobKeepsCursor
<1>1. ASSUME NEW x \in Keys
      PROVE  /\ SameMove(ledger[x], ledger'[x]) /\ RowMoved(ledger'[x])
             /\ ledger'[x].collection = ledger[x].collection
  <2>l. ledger[x] \in Row /\ RowMoved(ledger[x]) BY DEF RowsOK, OneWay
  <2>1. CASE ledger'[x] = ledger[x] BY <2>l, <2>1 DEF SameMove
  <2>2. CASE ledger'[x] # ledger[x]
    <3>1. Record(j) BY <1>f, <2>2
    <3>2. \/ ledger'[x] = applyDeletion(ledger[x]) /\ CanApplyDeletion(ledger[x])
          \/ ledger'[x] = applyRelocation(ledger[x]) /\ WroteIt(ledger[x])
      BY <2>2, <3>1, RecordEffect DEF RowsOK, CanApplyRelocation
    <3>3. SameMove(ledger[x], ledger'[x]) BY <2>l, <3>2, AnswersKeepMove
    <3>4. /\ ledger'[x].status = "tombstoned" /\ ledger'[x].collection = ledger[x].collection
          /\ ledger'[x].movedToNaturalKeyHash = ledger[x].movedToNaturalKeyHash
      BY <2>l, <3>2, RemovalRows
    <3>5. ledger'[x].movedToCollection = ledger[x].movedToCollection
      BY <2>l, <3>2 DEF applyDeletion, applyRelocation, Row
    <3> QED BY <2>l, <3>3, <3>4, <3>5 DEF RowMoved, Found
  <2> QED BY <2>1, <2>2
<1>k. \A k \in Keys : ledger[k].movedToNaturalKeyHash \in Keys \cup {None} BY DEF RowsOK, Row
<1>2. OneWay'
  <2>1. ASSUME NEW x \in Keys, NEW y \in Keys, ledger'[x].movedToNaturalKeyHash = y
        PROVE  ledger'[y].collection # None /\ ledger'[y].movedToNaturalKeyHash # x
    <3>1. ledger[x].movedToNaturalKeyHash = y BY <1>1, <2>1 DEF SameMove
    <3>2. ledger[y].collection # None /\ ledger[y].movedToNaturalKeyHash # x BY <3>1 DEF OneWay
    <3> QED BY <1>1, <3>2 DEF SameMove
  <2>2. \A x \in Keys : ledger'[x].movedToNaturalKeyHash \in Keys \cup {None}
    BY <1>k, <1>1 DEF SameMove
  <2> QED BY <1>1, <2>1, <2>2 DEF OneWay
<1>3. Unmoved'
  <2>1. \A a \in createdThisPass : a.key \in Keys BY DEF FolderOK, Arrivals
  <2>2. \A a \in createdThisPass : /\ ledger'[a.key].movedToNaturalKeyHash = None
                                   /\ <<ledger'[a.key].collection, a.key>> \in seen
    BY <1>1, <2>1 DEF Unmoved, SameMove
  <2> QED BY <1>f, <1>i, <2>2 DEF Unmoved, Writing
<1> QED BY <1>1, <1>2, <1>3

\* The copy an item was relocated to is not itself removed as relocated: the two would
\* lead to each other.
LEMMA ArrivalStays ==
    ASSUME TypesHold, OneWay, JobsArrived, NEW i \in Jobs, NEW j \in Jobs,
           job[i].at # "none", job[i].kind = "relocation",
           job[j].at # "none", job[j].kind = "relocation"
    PROVE  job[i].key # job[j].row.movedToNaturalKeyHash
<1> SUFFICES ASSUME job[i].key = job[j].row.movedToNaturalKeyHash PROVE FALSE
  OBVIOUS
<1> DEFINE k == job[j].key
           to == job[j].row.movedToNaturalKeyHash
           next == job[i].row.movedToNaturalKeyHash
<1>1. Pair(k, to) /\ Pair(to, next) BY DEF JobsArrived, JobArrived
<1>2. k \in Keys BY DEF TypesHold, JobsOK
<1> HIDE DEF k, to, next
<1>3. next = k BY <1>1 DEF Pair
<1> QED BY <1>1, <1>2, <1>3 DEF Pair, OneWay

\* What has arrived stays, unless a job removes it on a deletion, and then that is told.
LEMMA ArrivedStays ==
    ASSUME TypesHold, NEW j \in Jobs, JobSteps(j), NEW to \in Keys, Arrived(to),
           Remove(j) /\ job[j].key = to => job[j].kind = "deletion"
    PROVE  Arrived(to)'
<1> USE DEF TypesHold
<1> WorldOK /\ RowsOK BY TypeParts
<1>f. /\ ~Remove(j) => UNCHANGED tgt
      /\ ~Record(j) => UNCHANGED <<ledger, erased>>
      /\ ~Record(j) /\ ~JobFails(j) => UNCHANGED unrecorded
  BY JobFrame
<1>m. \A i \in Jobs : i # j => job'[i] = job[i]
  BY JobMoves DEF Closes, Advances, Open, JobsOK
<1>1. ASSUME NEW p \in Places, p[2] = to, tgt[p] # None PROVE Arrived(to)'
  <2>1. CASE ~Remove(j) BY <1>f, <1>1, <2>1 DEF Arrived
  <2>2. CASE Remove(j) /\ job[j].key = to
    <3>1. job'[j].at = "removed" /\ job'[j].key = to /\ job'[j].kind = "deletion"
      BY <2>2 DEF Remove, Advances, JobsOK, Job
    <3> QED BY <3>1 DEF Arrived
  <2>3. CASE Remove(j) /\ job[j].key # to
    <3>1. CopyOf(job[j].key, job[j].row) # p BY <1>1, <2>3 DEF CopyOf
    <3>2. tgt'[p] = tgt[p] BY <2>3, <3>1 DEF Remove, WorldOK
    <3> QED BY <1>1, <3>2 DEF Arrived
  <2> QED BY <2>1, <2>2, <2>3
<1>2. erased \cup unrecorded \subseteq erased' \cup unrecorded'
  <2>1. CASE Record(j) BY <2>1, RecordEffect
  <2>2. CASE JobFails(j) /\ ~Record(j) BY <1>f, <2>2 DEF JobFails
  <2> QED BY <1>f, <2>1, <2>2
<1>3. ASSUME NEW i \in Jobs, job[i].key = to, job[i].kind = "deletion", job[i].at = "removed"
      PROVE  Arrived(to)'
  <2>1. CASE i # j BY <1>m, <1>3, <2>1 DEF Arrived
  <2>2. CASE i = j
    <3>1. Record(j) \/ JobFails(j)
      BY <1>3, <2>2 DEF JobSteps, Open, ConfirmArrival, CheckVersion, Remove
    <3>2. to \in erased' \cup unrecorded'
      BY <1>3, <2>2, <3>1 DEF Record, JobFails
    <3> QED BY <3>2 DEF Arrived
  <2> QED BY <2>1, <2>2
<1> QED BY <1>1, <1>2, <1>3 DEF Arrived

\* A job keeps what is known of the jobs: it opens on a pair, and goes on once the
\* target has the relocated copy.
LEMMA JobArrives ==
    ASSUME "pass" \notin DuringJob, OneKept, NEW j \in Jobs, JobSteps(j)
    PROVE  JobsArrived'
<1> USE DEF OneKept, Alone, TypesHold
<1> WorldOK /\ RowsOK BY TypeParts
<1>s. \A x \in Keys : SameMove(ledger[x], ledger'[x]) BY JobKeepsMoves
<1>m. \A i \in Jobs : i # j => job'[i] = job[i]
  BY JobMoves DEF Closes, Advances, Open, JobsOK
<1>1. ASSUME NEW i \in Jobs, job[i].at # "none", job[i].kind = "relocation", NEW to,
             to = job[i].row.movedToNaturalKeyHash
      PROVE  /\ Pair(job[i].key, to) /\ to \in Keys
             /\ job[i].at \in {"confirmed", "checked"} => Arrived(to)'
             /\ \A k \in Keys : k = job[i].key => Pair(k, to)'
  <2>1. Pair(job[i].key, to) /\ to \in Keys /\ (job[i].at \in {"confirmed", "checked"} => Arrived(to))
    BY <1>1 DEF JobsArrived, JobArrived, Pair
  <2>2. Remove(j) /\ job[j].key = to => job[j].kind = "deletion"
    <3>1. Remove(j) => job[j].at # "none" BY DEF Remove
    <3>2. job[j].kind \in {"deletion", "relocation"} BY DEF JobsOK, Job
    <3> QED BY <1>1, <3>1, <3>2, ArrivalStays
  <2>3. \A k \in Keys : k = job[i].key => Pair(k, to)' BY <1>s, <2>1, PairsStay
  <2> QED BY <2>1, <2>2, <2>3, ArrivedStays
<1>2. ASSUME NEW i \in Jobs, job'[i].at # "none", job[i].at # "none",
             job'[i].row = job[i].row, job'[i].key = job[i].key, job'[i].kind = job[i].kind,
             job'[i].at \in {"confirmed", "checked"} /\ job[i].kind = "relocation" =>
                \/ job[i].at \in {"confirmed", "checked"}
                \/ \A to \in Keys : to = job[i].row.movedToNaturalKeyHash => Arrived(to)'
      PROVE  JobArrived(i)'
  <2> SUFFICES ASSUME job[i].kind = "relocation" PROVE JobArrived(i)'
    BY <1>2 DEF JobArrived
  <2>1. PICK to : to = job[i].row.movedToNaturalKeyHash OBVIOUS
  <2>2. PICK k \in Keys : k = job[i].key BY <1>2 DEF JobsOK
  <2>3. /\ to \in Keys /\ Pair(k, to)'
        /\ job[i].at \in {"confirmed", "checked"} => Arrived(to)'
    BY <1>1, <1>2, <2>1, <2>2
  <2>4. job'[i].at \in {"confirmed", "checked"} => Arrived(to)' BY <1>2, <2>1, <2>3
  <2>5. to = job'[i].row.movedToNaturalKeyHash /\ k = job'[i].key BY <1>2, <2>1, <2>2
  <2> QED BY <2>3, <2>4, <2>5 DEF JobArrived
<1>3. ASSUME NEW i \in Jobs, job'[i].at = "none" PROVE JobArrived(i)' BY <1>3 DEF JobArrived
<1>4. ASSUME NEW i \in Jobs, i # j PROVE JobArrived(i)'
  BY <1>2, <1>3, <1>4, <1>m
<1>5. JobArrived(j)'
  <2>c. ASSUME Closes(j) PROVE JobArrived(j)' BY <1>3, <2>c DEF Closes, JobsOK, NoJob
  <2>a. ASSUME NEW at, Advances(j, at)
        PROVE  /\ job'[j].at = at /\ job'[j].row = job[j].row /\ job'[j].key = job[j].key
               /\ job'[j].kind = job[j].kind
    BY <2>a DEF Advances, JobsOK, Job
  <2>1. ASSUME NEW k \in Keys, NEW kind \in {"deletion", "relocation"}, Open(j, k, kind)
        PROVE  JobArrived(j)'
    <3>1. /\ job'[j].kind = kind /\ job'[j].key = k /\ job'[j].row = ledger[k]
          /\ kind = "relocation" => job'[j].at = "gated"
      BY <2>1 DEF Open, JobsOK
    <3> SUFFICES ASSUME kind = "relocation" PROVE JobArrived(j)'
      BY <3>1 DEF JobArrived
    <3>2. PICK to : to = ledger[k].movedToNaturalKeyHash OBVIOUS
    <3>3. Pair(k, to) BY <2>1, <3>2, GatesPair DEF Open
    <3>4. Pair(k, to)' BY <1>s, <3>3, PairsStay
    <3> QED BY <3>1, <3>2, <3>4 DEF JobArrived
  <2>2. ASSUME NEW answered \in BOOLEAN, CheckVersion(j, answered) PROVE JobArrived(j)'
    <3>1. job[j].at = "confirmed" /\ (Closes(j) \/ Advances(j, "checked")) BY <2>2 DEF CheckVersion
    <3> QED BY <1>2, <2>a, <2>c, <3>1
  <2>3. CASE ConfirmArrival(j)
    <3>1. CASE Closes(j) BY <2>c, <3>1
    <3>2. CASE ~Closes(j)
      <4>1. PICK to : to = job[j].row.movedToNaturalKeyHash OBVIOUS
      <4>2. /\ job[j].at = "gated" /\ Advances(j, "confirmed") /\ UNCHANGED tgt
            /\ tgt[<<ledger[to].collection, to>>] # None
        BY <2>3, <3>2, <4>1 DEF ConfirmArrival, CopyOf, vars
      <4>3. ASSUME to \in Keys, job[j].kind = "relocation" PROVE Arrived(to)'
        <5>1. Placed(ledger[to])
          BY <1>1, <4>1, <4>2, <4>3 DEF Pair
        <5>2. <<ledger[to].collection, to>> \in Places
          BY <4>3, <5>1 DEF Placed, CursorInv, CursorParts, RowsPlaced, RowPlaced
        <5> QED BY <4>2, <5>2 DEF Arrived
      <4> QED BY <1>2, <2>a, <4>1, <4>2, <4>3
    <3> QED BY <3>1, <3>2
  <2>4. CASE Remove(j)
    <3>1. job[j].at = "checked" /\ Advances(j, "removed") BY <2>4 DEF Remove
    <3> QED BY <1>2, <2>a, <3>1
  <2>5. CASE Record(j) \/ JobFails(j) BY <2>c, <2>5 DEF Record, JobFails
  <2> QED BY <2>1, <2>2, <2>3, <2>4, <2>5 DEF JobSteps
<1> QED BY <1>4, <1>5 DEF JobsArrived

\* Every step keeps the invariant, if passes and the owner stay away while a job is open.
LEMMA OneKeptNext ==
    ASSUME Undisturbed, DuringJob = {}, OneKept, [ApplyNext]_allVars
    PROVE  OneKept'
<1> USE DEF OneKept
<1>1. Alone' BY AloneNext
<1>2. ASSUME NEW j \in Jobs, JobSteps(j) PROVE OneWay' /\ Unmoved' /\ JobsArrived'
  BY <1>2, JobKeepsMoves, JobArrives
<1>3. ASSUME [Next]_vars PROVE OneWay' /\ Unmoved'
  BY <1>3, OneWayNext DEF Alone
<1>4. ASSUME UNCHANGED applyVars, tgt' = tgt, \A x \in Keys : SameMove(ledger[x], ledger'[x])
      PROVE  JobsArrived'
  <2>u. job' = job /\ unrecorded' = unrecorded /\ erased' = erased BY <1>4 DEF applyVars
  <2>1. ASSUME NEW j \in Jobs, job[j].at # "none", job[j].kind = "relocation" PROVE JobArrived(j)'
    <3>1. PICK to : to = job[j].row.movedToNaturalKeyHash OBVIOUS
    <3>2. PICK k \in Keys : k = job[j].key BY <2>1 DEF Alone, TypesHold, JobsOK
    <3>3. Pair(k, to) /\ (job[j].at \in {"confirmed", "checked"} => Arrived(to))
      BY <2>1, <3>1, <3>2 DEF JobsArrived, JobArrived
    <3>4. Pair(k, to)' BY <1>4, <3>3, PairsStay
    <3>5. Arrived(to) => Arrived(to)' BY <1>4, <2>u DEF Arrived
    <3> QED BY <2>u, <3>1, <3>2, <3>3, <3>4, <3>5 DEF JobArrived
  <2>2. ASSUME NEW j \in Jobs, ~(job[j].at # "none" /\ job[j].kind = "relocation") PROVE JobArrived(j)'
    BY <2>u, <2>2 DEF JobArrived
  <2> QED BY <2>1, <2>2 DEF JobsArrived
<1>5. ASSUME BesideJobs PROVE JobsArrived'
  <2>1. CASE NoJobOpen BY <1>5, <2>1 DEF BesideJobs, applyVars, NoJobOpen, JobsArrived, JobArrived
  <2>2. CASE ~NoJobOpen
    <3>1. tgt' = tgt /\ \A x \in Keys : SameMove(ledger[x], ledger'[x]) BY <1>5, <2>2, BesideOpenJobs
    <3> QED BY <1>4, <1>5, <3>1 DEF BesideJobs
  <2> QED BY <2>1, <2>2
<1>6. ASSUME UNCHANGED allVars PROVE JobsArrived'
  <2>1. UNCHANGED applyVars /\ tgt' = tgt /\ ledger' = ledger BY <1>6 DEF allVars, vars
  <2>2. \A x \in Keys : SameMove(ledger[x], ledger'[x]) BY <2>1 DEF SameMove
  <2> QED BY <1>4, <2>1, <2>2
<1> QED BY <1>1, <1>2, <1>3, <1>5, <1>6 DEF ApplyNext, BesideJobs, allVars

\* Removing the old copy of a relocated item never removes the last one: for any number
\* of jobs open at once, with passes running between them, whichever requests fail and
\* wherever a pass or a job dies, while neither a pass nor the owner comes between the
\* steps of a job.
THEOREM LastCopiesAreKept ==
    ASSUME Undisturbed, DuringJob = {}
    PROVE  ApplySpec => LastCopyKept
<1>1. ApplyInit => OneKept
  BY AloneStarts, OneWayStarts DEF ApplyInit, OneKept, JobsArrived, JobArrived, NoJob
<1>2. OneKept /\ [ApplyNext]_allVars =>
        [\A j \in Jobs : LET to == job[j].row.movedToNaturalKeyHash IN
          job[j].kind = "relocation" /\ job[j].at = "checked" /\ job'[j].at = "removed" =>
             \/ \E p \in Places : p[2] = to /\ tgt'[p] # None
             \/ to \in erased \cup unrecorded
             \/ \E i \in Jobs : job[i].key = to /\ job[i].kind = "deletion"]_allVars
  <2> SUFFICES ASSUME OneKept, ApplyNext, NEW j \in Jobs, job[j].kind = "relocation",
                      job[j].at = "checked", job'[j].at = "removed"
               PROVE  LET to == job[j].row.movedToNaturalKeyHash IN
                      \/ \E p \in Places : p[2] = to /\ tgt'[p] # None
                      \/ to \in erased \cup unrecorded
                      \/ \E i \in Jobs : job[i].key = to /\ job[i].kind = "deletion"
    OBVIOUS
  <2> USE DEF OneKept, Alone, TypesHold
  <2> WorldOK BY TypeParts
  <2>1. PICK to : to = job[j].row.movedToNaturalKeyHash OBVIOUS
  <2>2. Arrived(to) /\ to # job[j].key
    BY <2>1 DEF JobsArrived, JobArrived, Pair
  <2>3. PICK i \in Jobs : JobSteps(i) BY DEF ApplyNext, BesideJobs, applyVars
  <2>4. i = j
    BY <2>3, JobMoves DEF Closes, Advances, Open, JobsOK
  <2>5. Remove(j)
    BY <2>3, <2>4, JobMoves DEF JobSteps, Open, ConfirmArrival, CheckVersion, Record, JobFails,
                                Closes, JobsOK, NoJob
  <2>6. ASSUME NEW p \in Places, p[2] = to, tgt[p] # None PROVE tgt'[p] # None
    <3>1. CopyOf(job[j].key, job[j].row) # p BY <2>2, <2>6 DEF CopyOf
    <3> QED BY <2>5, <2>6, <3>1 DEF Remove, WorldOK
  <2> QED BY <2>1, <2>2, <2>6 DEF Arrived
<1> QED BY <1>1, <1>2, OneKeptNext, PTL DEF ApplySpec, LastCopyKept
=============================================================================
