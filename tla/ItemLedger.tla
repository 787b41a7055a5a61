----------------------------- MODULE ItemLedger -----------------------------
(***************************************************************************)
(* The item ledger: one row per (mapping, domain, natural key), and the    *)
(* single-row statements that change it (packages/ledger/src/ledger.ts).   *)
(* Every statement of PgLedger is one UPDATE or INSERT, hence atomic, and  *)
(* is modelled as an operator from the row to the row it leaves.           *)
(*                                                                         *)
(* Data is abstracted to what decisions are taken on.  A content stands    *)
(* for its bytes, for their hash, for the version (ETag) the source lists  *)
(* them under and for the ETag the target mints for them: two are equal    *)
(* exactly when the bytes are.  A timestamp is the Boolean "is it set".    *)
(* None is an absent (NULL, undefined or '') column.                       *)
(***************************************************************************)
EXTENDS Naturals

CONSTANTS
    Keys,                   \* natural keys of the items of one mapping and domain
    Colls,                  \* source collections (folders, calendars)
    Contents,               \* the bytes an item can have
    None,                   \* no value
    MAX_ITEM_ATTEMPTS,      \* automatic attempts before a person must decide
    DELETION_CONFIRMATIONS  \* absences in a row that count as a deletion

ASSUME LedgerAssumption ==
    /\ None \notin Keys \cup Colls \cup Contents
    /\ MAX_ITEM_ATTEMPTS \in Nat \ {0}
    /\ DELETION_CONFIRMATIONS \in Nat \ {0}

\* "absent" is not a stored status: it is a key with no row.
Statuses == {"absent", "copied", "updated", "adopted", "failed",
             "left_behind", "tombstoned"}

Row == [status: Statuses,
        sourceVersion: Contents \cup {None},
        contentHash: Contents \cup {None},
        targetVersion: Contents \cup {None},
        collection: Colls \cup {None},
        attemptCount: Nat,
        movedToCollection: Colls \cup {None},
        movedToNaturalKeyHash: Keys \cup {None},
        moveAcknowledged: BOOLEAN,
        absentPasses: Nat,
        deletionReported: BOOLEAN,
        deletionTrashed: BOOLEAN,
        deletionAcknowledged: BOOLEAN,
        deletionApplied: BOOLEAN]

NoRow == [status |-> "absent", sourceVersion |-> None, contentHash |-> None,
          targetVersion |-> None, collection |-> None, attemptCount |-> 0,
          movedToCollection |-> None, movedToNaturalKeyHash |-> None,
          moveAcknowledged |-> FALSE, absentPasses |-> 0,
          deletionReported |-> FALSE, deletionTrashed |-> FALSE,
          deletionAcknowledged |-> FALSE, deletionApplied |-> FALSE]

\* `find` returned a row.
Found(row) == row.status # "absent"

\* Does this status mean the item is on the target?
isOnTarget(row) == row.status \notin {"absent", "failed", "left_behind", "tombstoned"}

\* Did this tool write the bytes the row is about?
WroteIt(row) == row.status \in {"copied", "updated"}

-----------------------------------------------------------------------------
(* What a pass does with an item it already has a row for.                 *)

\* A variant that does not look at the collection an item was found in.
classifyKnownItemAnywhere(known, version, coll) ==
    CASE known.status = "left_behind" -> "left-behind"
      [] known.status = "tombstoned" ->
            IF known.movedToNaturalKeyHash # None THEN "relocated-away" ELSE "tombstoned"
      [] known.status = "failed" ->
            IF known.attemptCount >= MAX_ITEM_ATTEMPTS THEN "needs-decision" ELSE "retry-failed"
      [] OTHER -> IF known.sourceVersion = version THEN "skip" ELSE "rewrite"

\* A variant that takes every tombstone for one a relocation left.
classifyKnownItemRevived(known, version, coll) ==
    CASE known.status = "left_behind" -> "left-behind"
      [] known.status = "tombstoned" -> "relocated-away"
      [] known.status = "failed" ->
            IF known.attemptCount >= MAX_ITEM_ATTEMPTS THEN "needs-decision" ELSE "retry-failed"
      [] OTHER -> IF known.sourceVersion = version THEN "skip" ELSE "rewrite"

classifyKnownItem(known, version, coll) ==
    CASE known.status = "left_behind" -> "left-behind"
      [] known.status = "tombstoned" ->
            IF known.movedToNaturalKeyHash # None THEN "relocated-away" ELSE "tombstoned"
      [] known.status = "failed" ->
            IF known.attemptCount >= MAX_ITEM_ATTEMPTS THEN "needs-decision" ELSE "retry-failed"
      [] OTHER ->
            IF known.collection # None /\ known.collection # coll THEN "moved"
            ELSE IF version = None THEN "skip"
            ELSE IF known.sourceVersion = None THEN "record-version"
            ELSE IF known.sourceVersion = version THEN "skip"
            ELSE IF known.status = "adopted" THEN "leave-adopted"
            ELSE "rewrite"

\* The owner has already closed this very move.
decided(row, to, toKey) ==
    /\ row.movedToCollection = to
    /\ row.movedToNaturalKeyHash = toKey
    /\ row.moveAcknowledged

-----------------------------------------------------------------------------
(* Writing the outcome of a copy.                                          *)

\* INSERT ... ON CONFLICT DO NOTHING
recordIfAbsent(row, status, version, hash, etag, coll) ==
    IF Found(row) THEN row
    ELSE [NoRow EXCEPT !.status = status, !.sourceVersion = version,
                       !.contentHash = hash, !.targetVersion = etag, !.collection = coll]

\* The optional columns keep their value when the caller has none to give.
recordUpdate(row, status, version, hash, etag, coll) ==
    [row EXCEPT !.status = status, !.sourceVersion = version, !.contentHash = hash,
                !.targetVersion = IF etag = None THEN @ ELSE etag,
                !.collection = IF coll = None THEN @ ELSE coll]

\* A failure counts the attempt and leaves what is known of the last copy.
recordFailure(row, hash) ==
    IF Found(row) THEN [row EXCEPT !.status = "failed", !.attemptCount = @ + 1]
    ELSE [NoRow EXCEPT !.status = "failed", !.attemptCount = 1, !.contentHash = hash]

-----------------------------------------------------------------------------
(* Moves and deletions the source shows, and the owner's answers.          *)

\* A variant with the new collection and the new key in each other's column.
recordMoveSwapped(row, to, toKey) ==
    [row EXCEPT !.movedToCollection = toKey, !.movedToNaturalKeyHash = to]

recordMove(row, to, toKey) ==
    [row EXCEPT !.movedToCollection = to, !.movedToNaturalKeyHash = toKey,
                !.moveAcknowledged = /\ @
                                     /\ row.movedToCollection = to
                                     /\ row.movedToNaturalKeyHash = toKey]

\* A variant that reopens the question and leaves the move standing.
clearMovePartly(row) == [row EXCEPT !.moveAcknowledged = FALSE]

clearMove(row) ==
    [row EXCEPT !.movedToCollection = None, !.movedToNaturalKeyHash = None,
                !.moveAcknowledged = FALSE]

\* The count only matters up to DELETION_CONFIRMATIONS and is cut off there.
recordAbsent(row) ==
    [row EXCEPT !.absentPasses = IF @ < DELETION_CONFIRMATIONS THEN @ + 1 ELSE @]

recordReportedDeletion(row) == [row EXCEPT !.deletionReported = TRUE]

recordTrashedDeletion(row) == [row EXCEPT !.deletionTrashed = TRUE]

\* A variant that predates the bin and leaves its claim standing.
clearAbsentPartly(row) == [row EXCEPT !.absentPasses = 0, !.deletionReported = FALSE]

clearAbsent(row) ==
    [row EXCEPT !.absentPasses = 0, !.deletionReported = FALSE,
                !.deletionTrashed = FALSE, !.deletionAcknowledged = FALSE]

\* placedItems: the rows move detection looks at, tombstones included.
Placed(row) ==
    /\ row.status \notin {"absent", "failed", "left_behind"}
    /\ row.collection # None

\* resolveFailure: the operator's RETRY and ACCEPT, for a failed row only.
resolveFailure(row, action) ==
    IF row.status # "failed" THEN row
    ELSE IF action = "accept" THEN [row EXCEPT !.status = "left_behind"]
    ELSE [row EXCEPT !.attemptCount = 0]

\* resolveMove and resolveDeletion: the owner's 'keep'.
resolveMove(row) ==
    [row EXCEPT !.moveAcknowledged = @ \/ row.movedToCollection # None]

DeletionConfirmed(row) ==
    \/ row.absentPasses >= DELETION_CONFIRMATIONS
    \/ row.deletionReported
    \/ row.deletionTrashed

resolveDeletion(row) ==
    [row EXCEPT !.deletionAcknowledged = @ \/ DeletionConfirmed(row)]

-----------------------------------------------------------------------------
(* The two statements that tombstone a row, each with its own re-check.    *)

CanApplyDeletion(row) ==
    /\ row.deletionReported \/ row.deletionTrashed
    /\ ~row.deletionApplied
    /\ WroteIt(row)

\* A variant that stores a status the column does not know.
applyDeletionUnknown(row) ==
    [row EXCEPT !.status = "deleted", !.deletionApplied = TRUE]

applyDeletion(row) ==
    [row EXCEPT !.status = "tombstoned", !.deletionApplied = TRUE,
                !.deletionAcknowledged = TRUE]

\* `k` is the row's key and `rows` the table the EXISTS sub-query reads.
CanApplyRelocation(rows, k) ==
    LET row == rows[k] to == row.movedToNaturalKeyHash IN
    /\ to # None /\ to # k
    /\ ~row.deletionApplied
    /\ ~row.moveAcknowledged
    /\ WroteIt(row)
    /\ WroteIt(rows[to])
    /\ rows[to].contentHash # None
    /\ rows[to].contentHash = row.contentHash

\* A variant that clears the move it has carried out.
applyRelocationUnmarked(row) == [clearMove(row) EXCEPT !.status = "tombstoned"]

applyRelocation(row) ==
    [row EXCEPT !.status = "tombstoned", !.deletionApplied = TRUE,
                !.moveAcknowledged = TRUE,
                !.deletionAcknowledged = \/ @
                                         \/ row.deletionReported
                                         \/ row.deletionTrashed
                                         \/ row.absentPasses > 0]
=============================================================================
