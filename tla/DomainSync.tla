----------------------------- MODULE DomainSync -----------------------------
(***************************************************************************)
(* One (mapping, domain) being synchronised: `runDomainSync` and the three *)
(* detectors it calls (packages/core/src/domain-sync.ts), the DAV writer   *)
(* it writes through (packages/engines/src/webdav-target-writer.ts and its *)
(* CalDAV and CardDAV siblings), the ledger rows and cursors that outlive  *)
(* a pass, and the world around them: a source that keeps changing, an     *)
(* owner who edits the target, an operator who answers the failure queue,  *)
(* requests that fail and workers that die.                                *)
(*                                                                         *)
(* A pass is the only one for its mapping (the queue of run-delta-sync has *)
(* concurrencyLimit 1); its workers, the owner, the source and the         *)
(* operator interleave.  What a pass keeps in memory is lost with it.      *)
(***************************************************************************)
EXTENDS ItemLedger, FiniteSets

CONSTANTS
    Places,           \* where a key can be: pairs <<collection, key>>
    PathKeyed,        \* the file domain: the key is the path
    Unkeyed,          \* items whose key is a hash of their bytes (mail without Message-ID)
    Legacy,           \* items copied before the version and collection columns existed
    Large,            \* contents the writer uploads in chunks
    Theirs,           \* bytes on the target that this tool did not write
    HasKeyListing,    \* the source answers listCollectionKeys
    ReportsRemovals,  \* its listing names what was removed since the cursor
    HasBin,           \* it can list the owner's bin (listDiscardedKeys)
    ListsBodies,      \* its listing carries the bodies (calendars, contacts)
    Walkable,         \* the target can be enumerated up front
    OnCollisionFail,  \* onCollision is 'fail' rather than 'skip'
    Concurrency,      \* workers of a pass
    ABORT_AFTER_CONSECUTIVE_FAILURES,
    Faults,           \* the kinds of fault that can happen
    DuringPass,       \* who may act while a pass is running
    MaxSource, MaxOwner, MaxOperator, MaxFaults  \* bounds on what the environment does

FaultKinds == {"fetch", "put_refused", "put_lost", "no_etag", "head", "list_keys",
               "list_folders", "propfind", "crash", "job"}
Actors == {"source", "owner", "operator"}

ASSUME SyncAssumption ==
    /\ Places \subseteq Colls \X Keys
    /\ \A k \in Keys : \E c \in Colls : <<c, k>> \in Places
    /\ PathKeyed => \A p, q \in Places : p[2] = q[2] => p = q
    /\ ListsBodies => Unkeyed = {}
    /\ Unkeyed \subseteq Keys /\ Legacy \subseteq Keys /\ Large \subseteq Contents
    /\ Theirs \notin Contents \cup {None}
    /\ {PathKeyed, HasKeyListing, ReportsRemovals, HasBin, ListsBodies, Walkable,
        OnCollisionFail} \subseteq BOOLEAN
    /\ Concurrency \in Nat \ {0}
    /\ ABORT_AFTER_CONSECUTIVE_FAILURES \in Nat \ {0}
    /\ Faults \subseteq FaultKinds /\ DuringPass \subseteq Actors
    /\ {MaxSource, MaxOwner, MaxOperator, MaxFaults} \subseteq Nat

VARIABLES
    src,       \* what the source holds: for each key its collection and bytes
    trash,     \* keys in the owner's bin
    tgt,       \* the bytes at each place of the target
    ledger,    \* the row of each key
    cursor,    \* collections with a stored cursor
    fresh,     \* places the source changed after that cursor
    clearing,  \* an operator RETRY has reset a row and not yet cleared the cursors
    used       \* what the environment has spent of its bounds

\* The memory of the running pass.
VARIABLES
    phase,       \* "idle", or the part of runDomainSync being executed
    todo,        \* folders not yet listed
    here,        \* the folder being processed
    since,       \* places of that folder changed after it was listed
    seen,        \* seenByCollection
    removals,    \* reportedRemovals
    createdThisPass,
    retryablePending,
    fullyEnumerated,
    consecutiveFailures,
    aborted,     \* a worker threw PassAbortError
    snapped,     \* target collections the writer has enumerated
    snap,        \* and what it found there
    work,        \* the workers, by the key of their item
    queue,       \* keys the current detector has still to look at
    placed       \* the rows detectPathKeyedMoves read

passVars == <<todo, here, since, seen, removals, createdThisPass, retryablePending,
              fullyEnumerated, consecutiveFailures, aborted, snapped, snap, work,
              queue, placed>>
world == <<src, trash, tgt, cursor, fresh, clearing>>
vars == <<src, trash, tgt, ledger, cursor, fresh, clearing, used, phase, passVars>>

-----------------------------------------------------------------------------
(* Items, places and workers.                                              *)

Gone == [coll |-> None, bytes |-> None]
Present(k) == src[k] # Gone
PlaceOf(k) == <<src[k].coll, k>>

Results == {"none", "created", "adopted", "updated", "present", "conflicted"}

Work == [at: {"out", "todo", "settle", "fetch", "check", "put", "record"},
         known: Row, version: Contents \cup {None}, raw: Contents \cup {None},
         result: Results, targetVersion: Contents \cup {None}]

Out == [at |-> "out", known |-> NoRow, version |-> None, raw |-> None,
        result |-> "none", targetVersion |-> None]

Busy(k) == work[k].at \notin {"out", "todo"}

\* The worker overwrites the copy its row describes.
Rewrites(k) == classifyKnownItem(work[k].known, work[k].version, here) = "rewrite"

Arrivals == [key: Keys, contentHash: Contents, collection: Colls]

TypeOK ==
    /\ src \in [Keys -> [coll: Colls \cup {None}, bytes: Contents \cup {None}]]
    /\ \A k \in Keys : Present(k) => PlaceOf(k) \in Places /\ src[k].bytes \in Contents
    /\ trash \subseteq Keys
    /\ tgt \in [Places -> Contents \cup {None, Theirs}]
    /\ ledger \in [Keys -> Row]
    /\ cursor \subseteq Colls
    /\ fresh \subseteq Places
    /\ clearing \in BOOLEAN
    /\ used \in [source: Nat, owner: Nat, operator: Nat, fault: Nat]
    /\ phase \in {"idle", "folders", "removals", "discarded", "moves"}
    /\ todo \subseteq Colls
    /\ here \in Colls \cup {None}
    /\ since \subseteq Places
    /\ seen \subseteq Colls \X Keys
    /\ removals \subseteq Places
    /\ createdThisPass \subseteq Arrivals
    /\ retryablePending \in BOOLEAN
    /\ fullyEnumerated \in BOOLEAN
    /\ consecutiveFailures \in Nat
    /\ aborted \in BOOLEAN
    /\ snapped \subseteq Colls
    /\ snap \subseteq Places
    /\ work \in [Keys -> Work]
    /\ queue \subseteq Keys
    /\ placed \in [Keys -> Row]

-----------------------------------------------------------------------------
(* The start.  A legacy item was copied by a version of the tool that      *)
(* recorded neither versions nor the collection; anything may already be   *)
(* on the target wherever this tool has not written.                       *)

legacyRow(b) == [NoRow EXCEPT !.status = "copied", !.contentHash = b]

NoPass ==
    /\ phase = "idle"
    /\ todo = {} /\ here = None /\ since = {} /\ seen = {} /\ removals = {}
    /\ createdThisPass = {} /\ retryablePending = FALSE /\ fullyEnumerated = TRUE
    /\ consecutiveFailures = 0 /\ aborted = FALSE /\ snapped = {} /\ snap = {}
    /\ work = [k \in Keys |-> Out]
    /\ queue = {} /\ placed = [k \in Keys |-> NoRow]

Init ==
    /\ src \in [Keys -> {Gone} \cup [coll: Colls, bytes: Contents]]
    /\ \A k \in Keys : Present(k) => PlaceOf(k) \in Places
    /\ \A k \in Legacy : Present(k)
    /\ trash = {}
    /\ tgt \in [Places -> {None, Theirs} \cup Contents]
    /\ \A p \in Places : tgt[p] \in Contents <=> p[2] \in Legacy /\ p = PlaceOf(p[2])
    /\ \A k \in Legacy : tgt[PlaceOf(k)] = src[k].bytes
    /\ ledger = [k \in Keys |-> IF k \in Legacy THEN legacyRow(src[k].bytes) ELSE NoRow]
    /\ cursor = {} /\ fresh = {}
    /\ clearing = FALSE
    /\ used = [source |-> 0, owner |-> 0, operator |-> 0, fault |-> 0]
    /\ NoPass

-----------------------------------------------------------------------------
(* The environment.                                                        *)

May(actor, bound) ==
    /\ phase = "idle" \/ actor \in DuringPass
    /\ used[actor] < bound
    /\ used' = [used EXCEPT ![actor] = @ + 1]

Fault(kind) ==
    /\ kind \in Faults
    /\ used.fault < MaxFaults
    /\ used' = [used EXCEPT !.fault = @ + 1]

\* The change is newer than any cursor handed out before it.
MarkChanged(ps) ==
    /\ fresh' = fresh \cup {p \in ps : p[1] \in cursor}
    /\ since' = since \cup {p \in ps : p[1] = here}

PlacesHeld(k, v) == IF v = Gone THEN {} ELSE {<<v.coll, k>>}

\* An item appears, is edited, moves to another collection or is deleted.  What
\* comes back may have been taken out of the bin, or the bin may still hold an
\* older item of that key.
\* The bytes of an un-keyed item never change: other bytes are another key.
SourceChange(k, v) ==
    /\ May("source", MaxSource)
    /\ v # src[k]
    /\ v # Gone => <<v.coll, k>> \in Places
    /\ k \in Unkeyed /\ Present(k) /\ v # Gone => v.bytes = src[k].bytes
    /\ src' = [src EXCEPT ![k] = v]
    /\ IF v = Gone /\ HasBin
       THEN trash' = trash \cup {k}
       ELSE trash' \in {trash, trash \ {k}}
    /\ MarkChanged(PlacesHeld(k, src[k]) \cup PlacesHeld(k, v))
    /\ UNCHANGED <<tgt, ledger, cursor, clearing, phase, todo, here, seen, removals,
                   createdThisPass, retryablePending, fullyEnumerated,
                   consecutiveFailures, aborted, snapped, snap, work, queue, placed>>

\* A file renamed or moved: in the file domain its key changes with its path.
SourceRename(k, p) ==
    /\ PathKeyed
    /\ May("source", MaxSource)
    /\ Present(k) /\ ~Present(p[2]) /\ p[2] # k
    /\ src' = [src EXCEPT ![k] = Gone, ![p[2]] = [coll |-> p[1], bytes |-> src[k].bytes]]
    /\ UNCHANGED trash
    /\ MarkChanged({PlaceOf(k), p})
    /\ UNCHANGED <<tgt, ledger, cursor, clearing, phase, todo, here, seen, removals,
                   createdThisPass, retryablePending, fullyEnumerated,
                   consecutiveFailures, aborted, snapped, snap, work, queue, placed>>

\* The owner creates, edits or removes something on the target.
OwnerChange(p) ==
    /\ May("owner", MaxOwner)
    /\ tgt' \in {[tgt EXCEPT ![p] = b] : b \in {None, Theirs} \ {tgt[p]}}
    /\ UNCHANGED <<src, trash, ledger, cursor, fresh, clearing, phase, passVars>>

\* The operator accepts that a failed item is left behind.
AcceptFailure(k) ==
    /\ May("operator", MaxOperator)
    /\ ledger[k].status = "failed"
    /\ ledger' = [ledger EXCEPT ![k] = resolveFailure(@, "accept")]
    /\ UNCHANGED <<world, phase, passVars>>

\* The operator asks for a retry: the attempts are reset ...
RetryFailure(k) ==
    /\ May("operator", MaxOperator)
    /\ ~clearing
    /\ ledger[k].status = "failed"
    /\ ledger' = [ledger EXCEPT ![k] = resolveFailure(@, "retry")]
    /\ clearing' = TRUE
    /\ UNCHANGED <<src, trash, tgt, cursor, fresh, phase, passVars>>

\* (A variant in which the request ends there.)
ClearCursorsNot ==
    /\ clearing
    /\ clearing' = FALSE
    /\ UNCHANGED <<src, trash, tgt, ledger, cursor, fresh, used, phase, passVars>>

\* ... and then the cursors of the mapping are cleared, so that it is listed again.
ClearCursors ==
    /\ clearing
    /\ clearing' = FALSE
    /\ cursor' = {}
    /\ fresh' = {}
    /\ UNCHANGED <<src, trash, tgt, ledger, used, phase, passVars>>

\* The owner keeps the layout, or the copy, that the queues asked about.
KeepMove(k) ==
    /\ May("operator", MaxOperator)
    /\ resolveMove(ledger[k]) # ledger[k]
    /\ ledger' = [ledger EXCEPT ![k] = resolveMove(@)]
    /\ UNCHANGED <<world, phase, passVars>>

KeepDeletion(k) ==
    /\ May("operator", MaxOperator)
    /\ resolveDeletion(ledger[k]) # ledger[k]
    /\ ledger' = [ledger EXCEPT ![k] = resolveDeletion(@)]
    /\ UNCHANGED <<world, phase, passVars>>

-----------------------------------------------------------------------------
(* The pass: folders.                                                      *)

\* What a pass keeps in memory goes with it.
ForgetPass ==
    /\ phase' = "idle"
    /\ todo' = {} /\ here' = None /\ since' = {} /\ seen' = {} /\ removals' = {}
    /\ createdThisPass' = {} /\ retryablePending' = FALSE /\ fullyEnumerated' = TRUE
    /\ consecutiveFailures' = 0 /\ aborted' = FALSE /\ snapped' = {} /\ snap' = {}
    /\ work' = [k \in Keys |-> Out]
    /\ queue' = {} /\ placed' = [k \in Keys |-> NoRow]

\* The scheduler starts a pass; it has the mapping to itself.  A source having a
\* bad moment may leave folders out of its answer.
StartPass(folders) ==
    /\ phase = "idle"
    /\ ~clearing \/ "operator" \in DuringPass
    /\ IF folders = Colls THEN UNCHANGED used ELSE Fault("list_folders")
    /\ phase' = "folders"
    /\ todo' = folders
    /\ UNCHANGED <<world, ledger, here, since, seen, removals, createdThisPass,
                   retryablePending, fullyEnumerated, consecutiveFailures, aborted,
                   snapped, snap, work, queue, placed>>

\* listSince: everything in the folder, or what changed after its cursor.
Listed(c) == {k \in Keys : /\ Present(k) /\ src[k].coll = c
                           /\ c \in cursor => <<c, k>> \in fresh}
Removed(c) == {p \in fresh : p[1] = c /\ ~(Present(p[2]) /\ PlaceOf(p[2]) = p)}

ListFolder(c, keysOk) ==
    /\ phase = "folders" /\ here = None /\ c \in todo
    /\ IF keysOk THEN UNCHANGED used ELSE HasKeyListing /\ Fault("list_keys")
    /\ here' = c
    /\ todo' = todo \ {c}
    /\ since' = {}
    /\ removals' = IF ReportsRemovals THEN removals \cup Removed(c) ELSE removals
    /\ seen' = IF HasKeyListing /\ keysOk
               THEN seen \cup {<<c, k>> : k \in {j \in Keys \ Unkeyed : Present(j) /\ src[j].coll = c}}
               ELSE seen
    /\ fullyEnumerated' = /\ fullyEnumerated
                          /\ IF HasKeyListing THEN keysOk ELSE c \notin cursor
    /\ work' = [k \in Keys |->
                  IF k \in Listed(c)
                  THEN [Out EXCEPT !.at = "todo",
                                   !.version = IF k \in Unkeyed THEN None ELSE src[k].bytes]
                  ELSE Out]
    /\ UNCHANGED <<world, ledger, phase, createdThisPass, retryablePending,
                   consecutiveFailures, aborted, snapped, snap, queue, placed>>

\* A variant that stores the cursor whatever is still to be retried.
FinishFolderHasty ==
    /\ here # None /\ ~aborted
    /\ \A k \in Keys : work[k].at = "out"
    /\ cursor' = cursor \cup {here}
    /\ fresh' = {p \in fresh : p[1] # here} \cup since
    /\ here' = None
    /\ since' = {}
    /\ UNCHANGED <<src, trash, tgt, clearing, ledger, used, phase, todo, seen, removals,
                   createdThisPass, retryablePending, fullyEnumerated,
                   consecutiveFailures, aborted, snapped, snap, work, queue, placed>>

\* A variant whose cursor is that of the end of the folder, not of its listing.
FinishFolderLate ==
    /\ here # None /\ ~aborted
    /\ \A k \in Keys : work[k].at = "out"
    /\ cursor' = cursor \cup {here}
    /\ fresh' = {p \in fresh : p[1] # here}
    /\ here' = None
    /\ since' = {}
    /\ UNCHANGED <<src, trash, tgt, clearing, ledger, used, phase, todo, seen, removals,
                   createdThisPass, retryablePending, fullyEnumerated,
                   consecutiveFailures, aborted, snapped, snap, work, queue, placed>>

\* The cursor is stored unless something that failed is still to be retried.
FinishFolder ==
    /\ here # None /\ ~aborted
    /\ \A k \in Keys : work[k].at = "out"
    /\ IF retryablePending
       THEN UNCHANGED <<cursor, fresh>>
       ELSE /\ cursor' = cursor \cup {here}
            /\ fresh' = {p \in fresh : p[1] # here} \cup since
    /\ here' = None
    /\ since' = {}
    /\ UNCHANGED <<src, trash, tgt, clearing, ledger, used, phase, todo, seen, removals,
                   createdThisPass, retryablePending, fullyEnumerated,
                   consecutiveFailures, aborted, snapped, snap, work, queue, placed>>

\* mapWithConcurrency: no new item is taken, those in flight settle, then it rejects.
AbortPass ==
    /\ aborted
    /\ \A k \in Keys : ~Busy(k)
    /\ ForgetPass
    /\ UNCHANGED <<world, ledger, used>>

\* The worker dies, or a listing or the database throws: the pass is simply over.
Crash ==
    /\ phase # "idle"
    /\ Fault("crash")
    /\ ForgetPass
    /\ UNCHANGED <<world, ledger>>

-----------------------------------------------------------------------------
(* The pass: one item.                                                     *)

ItemStep(k, at) ==
    /\ phase = "folders" /\ here # None
    /\ work[k].at = at

Goes(k, w) == work' = [work EXCEPT ![k] = w]
Done(k) == Goes(k, Out)

\* A worker takes the item and looks it up; without a key there is nothing to look up.
TakeItem(k) ==
    /\ ItemStep(k, "todo")
    /\ ~aborted
    /\ Cardinality({j \in Keys : Busy(j)}) < Concurrency
    /\ IF k \in Unkeyed
       THEN Goes(k, [work[k] EXCEPT !.at = "fetch"]) /\ UNCHANGED seen
       ELSE /\ seen' = seen \cup {<<here, k>>}
            /\ Goes(k, [work[k] EXCEPT !.known = ledger[k],
                                       !.at = IF Found(ledger[k]) THEN "settle" ELSE "fetch"])
    /\ UNCHANGED <<world, ledger, used, phase, todo, here, since, removals,
                   createdThisPass, retryablePending, fullyEnumerated,
                   consecutiveFailures, aborted, snapped, snap, queue, placed>>

\* Any claim that it had disappeared is withdrawn.
Reappeared(known, row) ==
    IF known.absentPasses > 0 \/ known.deletionReported \/ known.deletionTrashed
    THEN clearAbsent(row) ELSE row

\* A variant that leaves a move standing once the item is back.
MovedBackUnseen(known, row) == row

\* The item is where it was: a move recorded earlier is over.
MovedBack(known, row) == IF known.movedToCollection # None THEN clearMove(row) ELSE row

\* The branches on classifyKnownItem.  The decision is taken on the row as it
\* was found, the statements act on the row as it is.
SettleItem(k) ==
    /\ ItemStep(k, "settle")
    /\ LET known == work[k].known
           action == classifyKnownItem(known, work[k].version, here)
           row == Reappeared(known, ledger[k])
           back == MovedBack(known, row)
       IN /\ ledger' = [ledger EXCEPT ![k] =
                CASE action = "moved" ->
                        IF decided(known, here, None) THEN row ELSE recordMove(row, here, None)
                  [] action = "record-version" ->
                        recordUpdate(back, known.status, work[k].version, known.contentHash,
                                     known.targetVersion, known.collection)
                  [] OTHER -> back]
          /\ IF action \in {"retry-failed", "rewrite", "relocated-away"}
             THEN Goes(k, [work[k] EXCEPT !.at = "fetch"])
             ELSE Done(k)
    /\ UNCHANGED <<world, used, phase, todo, here, since, seen, removals,
                   createdThisPass, retryablePending, fullyEnumerated,
                   consecutiveFailures, aborted, snapped, snap, queue, placed>>

Tripped(n) == n >= ABORT_AFTER_CONSECUTIVE_FAILURES

\* A variant that takes the last attempt but one for the last.
ItemFailsEarly(k, hash) ==
    LET row == recordFailure(ledger[k], hash)
    IN /\ ledger' = [ledger EXCEPT ![k] = row]
       /\ retryablePending' = (retryablePending \/ row.attemptCount + 1 < MAX_ITEM_ATTEMPTS)
       /\ consecutiveFailures' = consecutiveFailures + 1
       /\ aborted' = (aborted \/ Tripped(consecutiveFailures + 1))
       /\ Done(k)

\* The catch: the item failed and the pass goes on, until too many fail in a row.
\* An un-keyed item that could not be fetched has no row to write the failure to.
ItemFails(k, hash) ==
    LET row == recordFailure(ledger[k], hash)
        keyed == k \notin Unkeyed \/ hash # None
        n == IF Tripped(consecutiveFailures) THEN consecutiveFailures
             ELSE consecutiveFailures + 1
    IN /\ ledger' = IF keyed THEN [ledger EXCEPT ![k] = row] ELSE ledger
       /\ retryablePending' = \/ retryablePending
                              \/ keyed /\ row.attemptCount < MAX_ITEM_ATTEMPTS
       /\ consecutiveFailures' = n
       /\ aborted' = (aborted \/ Tripped(n))
       /\ Done(k)

\* The second look-up, once the key of an un-keyed item is known: no version to
\* compare, and neither a disappearance nor a move is touched.
LookUpDerived(k, bytes) ==
    LET w == [work[k] EXCEPT !.at = "check", !.raw = bytes, !.known = ledger[k]]
        action == classifyKnownItem(ledger[k], None, here)
    IN IF Found(ledger[k]) /\ action \notin {"retry-failed", "relocated-away"}
       THEN Done(k) ELSE Goes(k, w)

\* fetchRaw: the bytes of now, or those the listing brought along.
Served(k) == ListsBodies \/ src[k].coll = here
Bytes(k) == IF ListsBodies THEN work[k].version ELSE src[k].bytes

FetchItem(k) ==
    /\ ItemStep(k, "fetch") /\ Served(k)
    /\ IF k \in Unkeyed
       THEN seen' = seen \cup {<<here, k>>} /\ LookUpDerived(k, Bytes(k))
       ELSE UNCHANGED seen /\ Goes(k, [work[k] EXCEPT !.at = "check", !.raw = Bytes(k)])
    /\ UNCHANGED <<world, ledger, used, phase, todo, here, since, removals,
                   createdThisPass, retryablePending, fullyEnumerated,
                   consecutiveFailures, aborted, snapped, snap, queue, placed>>

\* The source cannot serve it, or it left the folder after it was listed.
FetchFails(k) ==
    /\ ItemStep(k, "fetch") /\ ~ListsBodies
    /\ IF Served(k) THEN Fault("fetch") ELSE UNCHANGED used
    /\ ItemFails(k, None)
    /\ UNCHANGED <<world, phase, todo, here, since, seen, removals, createdThisPass,
                   fullyEnumerated, snapped, snap, queue, placed>>

-----------------------------------------------------------------------------
(* The writer: upsertFile, upsertCalendarEvent, upsertContact.             *)

Place(k) == <<here, k>>
Held(ps) == {p \in ps : tgt'[p] # None}

\* The up-front enumeration, memoised for the pass: the whole root of a file
\* target, one calendar or address book otherwise.
Scope == IF PathKeyed THEN Colls ELSE {here}
NeedsSnapshot == Walkable /\ here \notin snapped
TakeSnapshot(extra) ==
    /\ snapped' = IF NeedsSnapshot THEN snapped \cup Scope ELSE snapped
    /\ snap' = IF NeedsSnapshot
               THEN snap \cup Held({p \in Places : p[1] \in Scope \ snapped}) \cup extra
               ELSE snap \cup extra

\* existingTargetId: without the enumeration the target is asked for this one
\* item, and no answer reads as "not there".
Exists(k, answered) ==
    IF Walkable THEN Place(k) \in snap' ELSE answered /\ tgt[Place(k)] # None

\* A variant with the comparison the wrong way round.
ownershipOfInverted(expected, current) ==
    IF expected = current THEN "changed" ELSE "ours"

\* ownershipOf: only two known and different versions are evidence of an edit.
ownershipOf(expected, current) ==
    IF expected = None \/ current = None \/ expected = current THEN "ours" ELSE "changed"

\* Before a rewrite the target is asked for the version it holds now.
CheckOwnership(k, answered) ==
    /\ ItemStep(k, "check") /\ Rewrites(k)
    /\ IF answered THEN UNCHANGED used
       ELSE work[k].known.targetVersion # None /\ Fault("head")
    /\ LET current == IF answered THEN tgt[Place(k)] ELSE None
       IN IF ownershipOf(work[k].known.targetVersion, current) = "changed"
          THEN Goes(k, [work[k] EXCEPT !.at = "record", !.result = "conflicted"])
          ELSE Goes(k, [work[k] EXCEPT !.at = "put"])
    /\ UNCHANGED <<world, ledger, phase, todo, here, since, seen, removals,
                   createdThisPass, retryablePending, fullyEnumerated,
                   consecutiveFailures, aborted, snapped, snap, queue, placed>>

\* Otherwise: a row that says it is there, something already there, or a new item.
CheckExisting(k, answered) ==
    /\ ItemStep(k, "check") /\ ~Rewrites(k)
    /\ IF answered THEN UNCHANGED used ELSE ~Walkable /\ Fault("propfind")
    /\ UNCHANGED tgt
    /\ IF isOnTarget(ledger[k])
       THEN /\ Goes(k, [work[k] EXCEPT !.at = "record", !.result = "present"])
            /\ UNCHANGED <<snapped, snap>>
       ELSE /\ TakeSnapshot({})
            /\ IF Exists(k, answered)
               THEN Goes(k, [work[k] EXCEPT !.at = "record", !.result = "adopted"])
               ELSE Goes(k, [work[k] EXCEPT !.at = "put"])
    /\ UNCHANGED <<src, trash, cursor, fresh, clearing, ledger, phase, todo, here,
                   since, seen, removals, createdThisPass, retryablePending,
                   fullyEnumerated, consecutiveFailures, aborted, queue, placed>>

\* A create carries If-None-Match, so the server refuses (412) to replace what
\* is there; a rewrite and a chunked upload carry no precondition.
Refused(k) == ~Rewrites(k) /\ work[k].raw \notin Large /\ tgt[Place(k)] # None

Lands(k) == tgt' = IF Refused(k) THEN tgt ELSE [tgt EXCEPT ![Place(k)] = work[k].raw]

\* The version the writer reports: none after a 412 or a chunked upload.
Minted(k, tagged) ==
    IF Refused(k) \/ work[k].raw \in Large \/ ~tagged THEN None ELSE work[k].raw

PutItem(k, tagged) ==
    /\ ItemStep(k, "put")
    /\ IF tagged THEN UNCHANGED used ELSE Fault("no_etag")
    /\ Lands(k)
    /\ TakeSnapshot({Place(k)})
    /\ Goes(k, [work[k] EXCEPT !.at = "record",
                               !.result = IF Rewrites(k) THEN "updated" ELSE "created",
                               !.targetVersion = Minted(k, tagged)])
    /\ UNCHANGED <<src, trash, cursor, fresh, clearing, ledger, phase, todo, here,
                   since, seen, removals, createdThisPass, retryablePending,
                   fullyEnumerated, consecutiveFailures, aborted, queue, placed>>

\* The request fails: it never reached the target, or the answer was lost.
PutFails(k) ==
    /\ ItemStep(k, "put")
    /\ \/ Fault("put_refused") /\ UNCHANGED tgt
       \/ Fault("put_lost") /\ Lands(k)
    /\ ItemFails(k, work[k].raw)
    /\ UNCHANGED <<src, trash, cursor, fresh, clearing, phase, todo, here, since, seen,
                   removals, createdThisPass, fullyEnumerated, snapped, snap, queue, placed>>

\* The row: the writer's own recordIfAbsent and then the loop's recordUpdate or
\* recordIfAbsent, of which exactly one takes effect.
RecordItem(k) ==
    /\ ItemStep(k, "record") /\ work[k].result # "conflicted"
    /\ LET w == work[k]
           status == CASE w.result = "created" -> "copied"
                       [] w.result = "adopted" -> "adopted"
                       [] OTHER -> "updated"
       IN /\ ledger' = [ledger EXCEPT ![k] =
                IF Found(w.known)
                THEN recordUpdate(@, status, w.version, w.raw, w.targetVersion, here)
                ELSE recordIfAbsent(@, status, w.version, w.raw, w.targetVersion, here)]
          /\ createdThisPass' =
                IF w.result = "created"
                THEN createdThisPass \cup
                        {[key |-> k, contentHash |-> w.raw, collection |-> here]}
                ELSE createdThisPass
          /\ aborted' = (aborted \/ (OnCollisionFail /\ w.result = "adopted"))
    /\ consecutiveFailures' = 0
    /\ Done(k)
    /\ UNCHANGED <<world, used, phase, todo, here, since, seen, removals,
                   retryablePending, fullyEnumerated, snapped, snap, queue, placed>>

\* Somebody edited our copy: nothing was written, the item is the owner's now,
\* and the version it was copied at is kept so that the divergence stays visible.
RecordConflict(k) ==
    /\ ItemStep(k, "record") /\ work[k].result = "conflicted"
    /\ LET known == work[k].known
       IN ledger' = [ledger EXCEPT ![k] =
                recordUpdate(@, "adopted", known.sourceVersion, known.contentHash,
                             known.targetVersion, known.collection)]
    /\ Done(k)
    /\ UNCHANGED <<world, used, phase, todo, here, since, seen, removals,
                   createdThisPass, retryablePending, fullyEnumerated,
                   consecutiveFailures, aborted, snapped, snap, queue, placed>>

-----------------------------------------------------------------------------
(* The detectors that run once every folder has been listed.               *)

SeenAnywhere(k) == \E c \in Colls : <<c, k>> \in seen

Proceed(from, to) ==
    /\ phase = from /\ here = None /\ todo = {} /\ queue = {}
    /\ phase' = to
    /\ UNCHANGED <<world, ledger, used, todo, here, since, seen, removals, createdThisPass,
                   retryablePending, fullyEnumerated, consecutiveFailures, aborted,
                   snapped, snap, work>>

\* findBySourceRef: the source's handle of an item is the place it was copied from.
BeginRemovals ==
    /\ Proceed("folders", "removals")
    /\ queue' = {k \in Keys : \E p \in removals : p[2] = k}
    /\ UNCHANGED placed

Inspects(k, during) ==
    /\ phase = during /\ k \in queue
    /\ queue' = queue \ {k}
    /\ UNCHANGED <<world, used, phase, todo, here, since, seen, removals,
                   retryablePending, fullyEnumerated, consecutiveFailures, aborted,
                   snapped, snap, work, placed>>

resolveReportedRemoval(k) ==
    /\ Inspects(k, "removals")
    /\ ledger' = [ledger EXCEPT ![k] =
            IF isOnTarget(@) /\ <<@.collection, k>> \in removals /\ ~SeenAnywhere(k)
            THEN recordReportedDeletion(@) ELSE @]
    /\ UNCHANGED createdThisPass

\* A bin that cannot be read counts as an empty one.
BeginDiscarded ==
    /\ Proceed("removals", "discarded")
    /\ queue' \in {{}, IF HasBin THEN trash ELSE {}}
    /\ UNCHANGED placed

resolveDiscardedItem(k) ==
    /\ Inspects(k, "discarded")
    /\ ledger' = [ledger EXCEPT ![k] =
            IF isOnTarget(@) /\ ~SeenAnywhere(k) THEN recordTrashedDeletion(@) ELSE @]
    /\ UNCHANGED createdThisPass

\* The rows are read once; each is then acted on in turn.
BeginMoves ==
    /\ Proceed("discarded", "moves")
    /\ placed' = ledger
    /\ queue' = IF PathKeyed /\ fullyEnumerated THEN {k \in Keys : Placed(ledger[k])} ELSE {}

\* detectPathKeyedMoves for one row that has not been removed.
StillThere(k) ==
    LET row == IF placed[k].movedToCollection # None THEN clearMove(ledger[k]) ELSE ledger[k]
    IN /\ <<placed[k].collection, k>> \in seen
       /\ ledger' = [ledger EXCEPT ![k] =
                        IF placed[k].absentPasses > 0 THEN clearAbsent(row) ELSE row]
       /\ UNCHANGED createdThisPass

Explains(a, k) == a.contentHash = placed[k].contentHash

MovedAway(k) ==
    /\ \E a \in createdThisPass :
          /\ Explains(a, k)
          /\ ledger' = [ledger EXCEPT ![k] = recordMove(@, a.collection, a.key)]
          /\ createdThisPass' = createdThisPass \ {a}

Vanished(k) ==
    /\ \A a \in createdThisPass : ~Explains(a, k)
    /\ ledger' = [ledger EXCEPT ![k] = recordAbsent(@)]
    /\ UNCHANGED createdThisPass

detectPathKeyedMove(k) ==
    /\ Inspects(k, "moves")
    /\ IF placed[k].deletionApplied THEN UNCHANGED <<ledger, createdThisPass>>
       ELSE IF <<placed[k].collection, k>> \in seen THEN StillThere(k)
       ELSE IF placed[k].movedToCollection # None THEN UNCHANGED <<ledger, createdThisPass>>
       ELSE MovedAway(k) \/ Vanished(k)

EndPass ==
    /\ phase = "moves" /\ queue = {}
    /\ ForgetPass
    /\ UNCHANGED <<world, ledger, used>>

-----------------------------------------------------------------------------
ItemSteps(k) ==
    \/ TakeItem(k) \/ SettleItem(k)
    \/ FetchItem(k) \/ FetchFails(k)
    \/ \E answered \in BOOLEAN : CheckOwnership(k, answered) \/ CheckExisting(k, answered)
    \/ \E tagged \in BOOLEAN : PutItem(k, tagged)
    \/ PutFails(k)
    \/ RecordItem(k) \/ RecordConflict(k)
    \/ resolveReportedRemoval(k) \/ resolveDiscardedItem(k) \/ detectPathKeyedMove(k)

PassSteps ==
    \/ \E folders \in SUBSET Colls : StartPass(folders)
    \/ \E c \in Colls, keysOk \in BOOLEAN : ListFolder(c, keysOk)
    \/ FinishFolder \/ AbortPass
    \/ \E k \in Keys : ItemSteps(k)
    \/ BeginRemovals \/ BeginDiscarded \/ BeginMoves \/ EndPass

Environment ==
    \/ \E k \in Keys : \E v \in {Gone} \cup [coll: Colls, bytes: Contents] : SourceChange(k, v)
    \/ \E k \in Keys, p \in Places : SourceRename(k, p)
    \/ \E p \in Places : OwnerChange(p)
    \/ \E k \in Keys : AcceptFailure(k) \/ RetryFailure(k) \/ KeepMove(k) \/ KeepDeletion(k)
    \/ ClearCursors
    \/ Crash

Next == PassSteps \/ Environment

\* Passes keep being scheduled and a pass that can go on does; a request the
\* operator has begun is finished.  Nothing obliges the source, the owner, the
\* operator or a fault to act.
Fairness == WF_vars(PassSteps) /\ WF_vars(ClearCursors)

Spec == Init /\ [][Next]_vars /\ Fairness

-----------------------------------------------------------------------------
(* What a pass promises.                                                   *)

\* A pass never replaces or removes bytes on the target that this tool did not
\* write: only the owner's own step changes them (hard rule 2; the ownership
\* check of the rewrite path and the If-None-Match of the create path).
NeverOverwritesTheirs ==
    [][\A p \in Places : tgt[p] = Theirs /\ tgt'[p] # Theirs => used'.owner # used.owner]_vars

\* The row accounts for the item as the source has it now: it is copied at this
\* version, or the owner, the operator or a queue has it.
Handled(k) ==
    LET row == ledger[k] IN
    \/ row.status \in {"adopted", "left_behind", "tombstoned"}
    \/ row.status = "failed" /\ row.attemptCount >= MAX_ITEM_ATTEMPTS
    \/ WroteIt(row) /\ k \in Unkeyed
    \/ WroteIt(row) /\ row.sourceVersion = src[k].bytes
    \/ WroteIt(row) /\ row.movedToCollection = src[k].coll

\* The stored cursor hides the item from the next pass.
CoveredByCursor(k) ==
    /\ Present(k)
    /\ src[k].coll \in cursor
    /\ PlaceOf(k) \notin fresh

\* A cursor never retires an item that has still to be copied, rewritten or
\* retried: whatever it hides has been handled (the comment at the cursor write).
CursorHidesOnlyHandled ==
    ~clearing => \A k \in Keys : CoveredByCursor(k) => Handled(k)

\* A claim that an item was deleted on the source, which an owner may act on,
\* does not outlive the item's return: it is gone, or the next pass will list
\* the item and withdraw it (clearAbsent ahead of every early return).
DeletionClaimIsCurrent ==
    \A k \in Keys : CoveredByCursor(k) => ~DeletionConfirmed(ledger[k])

\* Nor does a recorded move outlive its cause: for an item the cursor hides, the
\* move on its row is the one the source shows (clearMove once it is back), and
\* a file that is there is not said to have moved to another path.
MoveClaimIsCurrent ==
    \A k \in Keys : CoveredByCursor(k) /\ phase = "idle" =>
        /\ ledger[k].movedToCollection \in {None, src[k].coll}
        /\ ledger[k].movedToNaturalKeyHash = None

\* One item is never copied into two collections: a move is reported, not
\* written, because the copy it left behind would be a duplicate.
NoDuplicateCopy ==
    \A p, q \in Places : p[2] = q[2] /\ tgt[p] \in Contents /\ tgt[q] \in Contents => p = q

\* What the ledger says has landed is what the target holds: between passes, a
\* copy of ours whose row is on the target has the bytes the row records (the
\* comment at recordFailure: a failed rewrite is retried, never taken as landed).
LandedMeansThere ==
    phase = "idle" =>
        \A k \in Keys : LET row == ledger[k] p == <<row.collection, k>> IN
            isOnTarget(row) /\ row.collection # None /\ tgt[p] \in Contents =>
                tgt[p] = row.contentHash

\* Once the source, the owner and the faults are quiet, every item the source
\* holds ends up handled and stays so: nothing is forgotten and nothing is
\* retried for ever.
EventuallyHandled == <>[](\A k \in Keys : Present(k) => Handled(k))
=============================================================================
