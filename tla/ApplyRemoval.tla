---------------------------- MODULE ApplyRemoval ----------------------------
(***************************************************************************)
(* The only operations that destroy anything: `applyDeletion` and          *)
(* `applyRelocation` (packages/core/src/apply-deletion.ts), run as jobs of *)
(* their own (run-apply-deletion.ts, run-apply-relocation.ts) beside the   *)
(* passes of DomainSync, over the same ledger and the same target.         *)
(*                                                                         *)
(* A job reads the row and passes its gates, asks the target whether the   *)
(* relocated copy is there, asks it for the version it holds, deletes, and *)
(* records; other jobs and the operator act between any two of these.      *)
(* Nothing keeps a pass or the owner out either; DuringJob says who of     *)
(* them is allowed in, so that the promises can be checked with and        *)
(* without that company.                                                   *)
(***************************************************************************)
EXTENDS DomainSync

CONSTANTS
    Jobs,                     \* apply requests that can be open at once
    MASS_DELETION_MIN_ITEMS,  \* fewer placed items than this: no mass check
    MASS_DELETION_PERCENT,    \* the share of pending removals that stops every job
    DuringJob                 \* who acts while a job is open: "pass", "owner"

ASSUME ApplyAssumption ==
    /\ IsFiniteSet(Keys)
    /\ MASS_DELETION_MIN_ITEMS \in Nat \ {0}
    /\ MASS_DELETION_PERCENT \in Nat
    /\ DuringJob \subseteq {"pass", "owner"}

VARIABLES
    job,         \* the open jobs
    unrecorded,  \* keys whose job removed the copy and ended without recording it
    erased,      \* keys whose deletion was carried out and recorded
    movedToo     \* those of them whose row also held a recorded relocation

applyVars == <<job, unrecorded, erased, movedToo>>
allVars == <<vars, applyVars>>

NoJob == [at |-> "none", kind |-> "deletion", key |-> None, row |-> NoRow]
Job == [at: {"none", "gated", "confirmed", "checked", "removed"},
        kind: {"deletion", "relocation"}, key: Keys \cup {None}, row: Row]

\* The types of the jobs, on top of those of the passes.
ApplyTypeOK ==
    /\ TypeOK
    /\ job \in [Jobs -> Job]
    /\ \A j \in Jobs : job[j].at # "none" => job[j].key \in Keys
    /\ unrecorded \subseteq Keys
    /\ erased \subseteq Keys /\ movedToo \subseteq erased

ApplyInit ==
    /\ Init
    /\ job = [j \in Jobs |-> NoJob]
    /\ unrecorded = {}
    /\ erased = {} /\ movedToo = {}

NoJobOpen == \A j \in Jobs : job[j].at = "none"

-----------------------------------------------------------------------------
(* The gates.                                                              *)

PlacedKeys == {k \in Keys : Placed(ledger[k])}
PendingDeletions == {k \in Keys : DeletionConfirmed(ledger[k]) /\ ~ledger[k].deletionAcknowledged}
PendingRelocations == {k \in Keys : /\ ledger[k].movedToNaturalKeyHash # None
                                    /\ ~ledger[k].moveAcknowledged}

\* massDeletionCheck, massRelocationCheck: so much at once is a source problem.
TooMany(pending) ==
    /\ Cardinality(PlacedKeys) >= MASS_DELETION_MIN_ITEMS
    /\ 100 * Cardinality(pending) > MASS_DELETION_PERCENT * Cardinality(PlacedKeys)

NotYetRemoved(row) == ~row.deletionApplied /\ row.status # "tombstoned"

deletionGates(k) ==
    LET row == ledger[k] IN
    /\ Found(row) /\ NotYetRemoved(row)
    /\ row.deletionReported \/ row.deletionTrashed
    /\ WroteIt(row)
    /\ ~TooMany(PendingDeletions)

\* relocationCheck: the arrival is a copy of ours of exactly these bytes, and no
\* third item has them.
relocationCheck(k) ==
    LET row == ledger[k] to == row.movedToNaturalKeyHash IN
    /\ ~row.moveAcknowledged
    /\ to # None /\ to # k
    /\ WroteIt(ledger[to])
    /\ row.contentHash # None /\ ledger[to].contentHash = row.contentHash
    /\ Cardinality({i \in PlacedKeys : ledger[i].contentHash = row.contentHash}) <= 2

relocationGates(k) ==
    /\ Found(ledger[k]) /\ NotYetRemoved(ledger[k])
    /\ relocationCheck(k)
    /\ WroteIt(ledger[k])
    /\ ~TooMany(PendingDeletions) /\ ~TooMany(PendingRelocations)

-----------------------------------------------------------------------------
(* The steps of a job.  A refusal changes nothing, so a job a gate refuses *)
(* is one that never opens.                                                *)

Open(j, k, kind) ==
    /\ job[j].at = "none"
    /\ phase = "idle" \/ "pass" \in DuringJob
    /\ IF kind = "deletion" THEN deletionGates(k) ELSE relocationGates(k)
    /\ job' = [job EXCEPT ![j] = [at |-> IF kind = "deletion" THEN "confirmed" ELSE "gated",
                                  kind |-> kind, key |-> k, row |-> ledger[k]]]
    /\ UNCHANGED <<vars, unrecorded, erased, movedToo>>

Closes(j) == job' = [job EXCEPT ![j] = NoJob]
Advances(j, at) == job' = [job EXCEPT ![j].at = at]

\* The place the ledger's target handle leads to.
CopyOf(k, row) == <<row.collection, k>>

\* A variant that takes the ledger's word for the relocated copy.
ConfirmArrivalTrusting(j) ==
    /\ job[j].at = "gated"
    /\ Advances(j, "confirmed")
    /\ UNCHANGED <<vars, unrecorded, erased, movedToo>>

\* hasItem: the relocated copy has to be there, whatever the ledger says.
ConfirmArrival(j) ==
    /\ job[j].at = "gated"
    /\ LET to == job[j].row.movedToNaturalKeyHash
       IN IF tgt[CopyOf(to, ledger[to])] # None THEN Advances(j, "confirmed") ELSE Closes(j)
    /\ UNCHANGED <<vars, unrecorded, erased, movedToo>>

\* A variant that does not ask the target for its version.
CheckVersionBlind(j, answered) ==
    /\ job[j].at = "confirmed"
    /\ Advances(j, "checked")
    /\ UNCHANGED <<vars, unrecorded, erased, movedToo>>

\* removeDavResource, the HEAD: refused when somebody has edited our copy, and
\* no obstacle when the target does not answer it.
CheckVersion(j, answered) ==
    /\ job[j].at = "confirmed"
    /\ IF answered THEN UNCHANGED used
       ELSE job[j].row.targetVersion # None /\ Fault("head")
    /\ LET row == job[j].row
           current == IF answered THEN tgt[CopyOf(job[j].key, row)] ELSE None
       IN IF ownershipOf(row.targetVersion, current) = "changed"
          THEN Closes(j) ELSE Advances(j, "checked")
    /\ UNCHANGED <<world, ledger, phase, passVars, unrecorded, erased, movedToo>>

\* The DELETE carries no precondition; a copy that is already gone is a success.
Remove(j) ==
    /\ job[j].at = "checked"
    /\ tgt' = [tgt EXCEPT ![CopyOf(job[j].key, job[j].row)] = None]
    /\ Advances(j, "removed")
    /\ UNCHANGED <<src, trash, ledger, cursor, fresh, clearing, used, phase, passVars,
                   unrecorded, erased, movedToo>>

\* A variant that does not report a removal it could not record.
RecordQuietly(j) ==
    /\ job[j].at = "removed"
    /\ LET k == job[j].key
           deletion == job[j].kind = "deletion"
           can == IF deletion THEN CanApplyDeletion(ledger[k]) ELSE CanApplyRelocation(ledger, k)
       IN ledger' = [ledger EXCEPT ![k] = IF ~can THEN @
                        ELSE IF deletion THEN applyDeletion(@) ELSE applyRelocation(@)]
    /\ Closes(j)
    /\ UNCHANGED <<world, used, phase, passVars, unrecorded, erased, movedToo>>

\* ledger.applyDeletion and ledger.applyRelocation re-check what they record; a
\* row that no longer qualifies is left as it is and the removal reported.
Record(j) ==
    /\ job[j].at = "removed"
    /\ LET k == job[j].key
           deletion == job[j].kind = "deletion"
           can == IF deletion THEN CanApplyDeletion(ledger[k]) ELSE CanApplyRelocation(ledger, k)
       IN /\ ledger' = [ledger EXCEPT ![k] = IF ~can THEN @
                            ELSE IF deletion THEN applyDeletion(@) ELSE applyRelocation(@)]
          /\ unrecorded' = IF can THEN unrecorded ELSE unrecorded \cup {k}
          /\ erased' = IF can /\ deletion THEN erased \cup {k} ELSE erased
          /\ movedToo' = IF can /\ deletion /\ ledger[k].movedToNaturalKeyHash # None
                         THEN movedToo \cup {k} ELSE movedToo
    /\ Closes(j)
    /\ UNCHANGED <<world, used, phase, passVars>>

\* The job dies, or a request fails and the job with it.
JobFails(j) ==
    /\ job[j].at # "none"
    /\ Fault("job")
    /\ unrecorded' = IF job[j].at = "removed" THEN unrecorded \cup {job[j].key} ELSE unrecorded
    /\ Closes(j)
    /\ UNCHANGED <<world, ledger, phase, passVars, erased, movedToo>>

JobSteps(j) ==
    \/ \E k \in Keys, kind \in {"deletion", "relocation"} : Open(j, k, kind)
    \/ \E answered \in BOOLEAN : CheckVersion(j, answered)
    \/ ConfirmArrival(j) \/ Remove(j) \/ Record(j) \/ JobFails(j)

\* A pass and its surroundings, beside the open jobs.
BesideJobs ==
    /\ Next
    /\ NoJobOpen \/ phase' = "idle" \/ "pass" \in DuringJob
    /\ NoJobOpen \/ used'.owner = used.owner \/ "owner" \in DuringJob
    /\ UNCHANGED applyVars

ApplyNext == BesideJobs \/ \E j \in Jobs : JobSteps(j)

ApplySpec == ApplyInit /\ [][ApplyNext]_allVars

-----------------------------------------------------------------------------
(* What applying promises.                                                 *)

\* Neither a pass nor a job destroys bytes this tool did not write.
NeverDestroysTheirs ==
    [][\A p \in Places : tgt[p] = Theirs /\ tgt'[p] # Theirs => used'.owner # used.owner]_allVars

\* A copy is never removed silently: while the owner has removed nothing, a row
\* that says its item is on the target is right, unless a job is at work on it,
\* has reported 'removed_not_recorded' for it, or died before it could record.
NoSilentRemoval ==
    used.owner = 0 =>
        \A k \in Keys \ unrecorded : LET row == ledger[k] IN
            isOnTarget(row) /\ row.collection # None =>
                \/ tgt[CopyOf(k, row)] # None
                \/ \E j \in Jobs : job[j].key = k /\ job[j].at = "removed"

\* Removing the old copy of a relocated item never removes the last one: the
\* relocated copy is on the target, or is itself being removed on a deletion.
LastCopyKept ==
    [][\A j \in Jobs : LET to == job[j].row.movedToNaturalKeyHash IN
          job[j].kind = "relocation" /\ job[j].at = "checked" /\ job'[j].at = "removed" =>
             \/ \E p \in Places : p[2] = to /\ tgt'[p] # None
             \/ to \in erased \cup unrecorded
             \/ \E i \in Jobs : job[i].key = to /\ job[i].kind = "deletion"]_allVars

\* What was removed on a deletion the owner decided is not put back by a pass,
\* however often the source shows the item again (it may be an erasure request).
ErasedStaysErased ==
    [][\A p \in Places : p[2] \in erased /\ tgt'[p] # tgt[p] => tgt'[p] \notin Contents]_allVars

\* The same for an item that no relocation was recorded for: its tombstone cannot
\* be taken for one a relocation left.
PlainErasureStands ==
    [][\A p \in Places : p[2] \in erased \ movedToo /\ tgt'[p] # tgt[p] =>
          tgt'[p] \notin Contents]_allVars

\* Between passes and jobs, a tombstone that a relocation left still says so; it
\* is what lets a later file at the old path be migrated.
RelocationLeavesItsMark ==
    phase = "idle" /\ NoJobOpen =>
        \A k \in Keys \ erased :
            ledger[k].status = "tombstoned" => ledger[k].movedToNaturalKeyHash # None
=============================================================================
