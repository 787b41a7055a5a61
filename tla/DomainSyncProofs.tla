-------------------------- MODULE DomainSyncProofs --------------------------
(***************************************************************************)
(* What holds of the passes for every set of keys, collections, places and *)
(* contents, every number of workers and every bound on the environment:   *)
(* what the passes keep, and then what a stored cursor may hide (items     *)
(* that are dealt with, and rows whose claims about a deletion or a move   *)
(* are current) and that what a pass copies has one place.                 *)
(***************************************************************************)
EXTENDS DomainSync, TLAPS

-----------------------------------------------------------------------------
(* What the statements of the ledger leave: a row, whatever the key, the   *)
(* content, the collection and the limit.                                  *)

\* A key without a row is a row like any other.
LEMMA NoRowType == NoRow \in Row
  BY DEF NoRow, Row, Statuses

\* Recording the outcome of a copy leaves a row.
LEMMA RecordTypes ==
    ASSUME NEW row \in Row, NEW status \in Statuses, NEW version \in Contents \cup {None},
           NEW hash \in Contents \cup {None}, NEW etag \in Contents \cup {None},
           NEW coll \in Colls \cup {None}
    PROVE  /\ recordIfAbsent(row, status, version, hash, etag, coll) \in Row
           /\ recordUpdate(row, status, version, hash, etag, coll) \in Row
           /\ recordFailure(row, hash) \in Row
<1>1. recordIfAbsent(row, status, version, hash, etag, coll) \in Row
  <2>1. [NoRow EXCEPT !.status = status, !.sourceVersion = version, !.contentHash = hash,
                      !.targetVersion = etag, !.collection = coll] \in Row
    BY NoRowType DEF Row
  <2> QED BY <2>1 DEF recordIfAbsent
<1>2. recordUpdate(row, status, version, hash, etag, coll) \in Row
  <2>1. CASE etag = None /\ coll = None BY <2>1 DEF Row, recordUpdate
  <2>2. CASE etag = None /\ coll # None BY <2>2 DEF Row, recordUpdate
  <2>3. CASE etag # None /\ coll = None BY <2>3 DEF Row, recordUpdate
  <2>4. CASE etag # None /\ coll # None BY <2>4 DEF Row, recordUpdate
  <2> QED BY <2>1, <2>2, <2>3, <2>4
<1>3. recordFailure(row, hash) \in Row
  <2>1. [row EXCEPT !.status = "failed", !.attemptCount = @ + 1] \in Row
    <3> DEFINE n == row.attemptCount + 1
    <3>1. n \in Nat BY DEF Row
    <3> HIDE DEF n
    <3>2. [row EXCEPT !.status = "failed", !.attemptCount = n] \in Row
      BY <3>1 DEF Row, Statuses
    <3> QED BY <3>2 DEF n
  <2>2. [NoRow EXCEPT !.status = "failed", !.attemptCount = 1, !.contentHash = hash] \in Row
    BY NoRowType DEF Row, Statuses
  <2> QED BY <2>1, <2>2 DEF recordFailure
<1> QED BY <1>1, <1>2, <1>3

\* So does recording a move.
LEMMA MoveTypes ==
    ASSUME NEW row \in Row, NEW to \in Colls, NEW toKey \in Keys \cup {None}
    PROVE  recordMove(row, to, toKey) \in Row
<1> DEFINE b == /\ row.moveAcknowledged
               /\ row.movedToCollection = to
               /\ row.movedToNaturalKeyHash = toKey
<1>1. b \in BOOLEAN BY DEF Row
<1>2. recordMove(row, to, toKey) = [row EXCEPT !.movedToCollection = to,
            !.movedToNaturalKeyHash = toKey, !.moveAcknowledged = b]
  BY DEF recordMove
<1> HIDE DEF b
<1> QED BY <1>1, <1>2 DEF Row

\* Withdrawing a move and recording or withdrawing a disappearance leave a row.
LEMMA ClaimTypes ==
    ASSUME NEW row \in Row
    PROVE  /\ clearMove(row) \in Row
           /\ recordAbsent(row) \in Row
           /\ recordReportedDeletion(row) \in Row
           /\ recordTrashedDeletion(row) \in Row
           /\ clearAbsent(row) \in Row
<1> USE DEF Row
<1>1. clearMove(row) \in Row BY DEF clearMove
<1>2. recordAbsent(row) \in Row BY DEF recordAbsent
<1>3. recordReportedDeletion(row) \in Row BY DEF recordReportedDeletion
<1>4. recordTrashedDeletion(row) \in Row BY DEF recordTrashedDeletion
<1>5. clearAbsent(row) \in Row BY DEF clearAbsent
<1> QED BY <1>1, <1>2, <1>3, <1>4, <1>5

\* And so do the answers of the operator and the owner.
LEMMA AnswerTypes ==
    ASSUME NEW row \in Row, NEW action
    PROVE  /\ resolveFailure(row, action) \in Row
           /\ resolveMove(row) \in Row
           /\ resolveDeletion(row) \in Row
<1> USE DEF Row
<1>1. resolveFailure(row, action) \in Row BY DEF resolveFailure, Statuses
<1>2. resolveMove(row) \in Row BY DEF resolveMove
<1>3. resolveDeletion(row) \in Row BY DEF resolveDeletion, DeletionConfirmed
<1> QED BY <1>1, <1>2, <1>3

USE LedgerAssumption, SyncAssumption

-----------------------------------------------------------------------------
(* Type correctness.  The variables fall into three groups: the world, the *)
(* rows, and the memory of the pass.                                       *)

WorldOK ==
    /\ src \in [Keys -> [coll: Colls \cup {None}, bytes: Contents \cup {None}]]
    /\ \A k \in Keys : Present(k) => PlaceOf(k) \in Places /\ src[k].bytes \in Contents
    /\ trash \subseteq Keys
    /\ tgt \in [Places -> Contents \cup {None, Theirs}]
    /\ cursor \subseteq Colls
    /\ fresh \subseteq Places
    /\ clearing \in BOOLEAN

UsedOK == used \in [source: Nat, owner: Nat, operator: Nat, fault: Nat]

RowsOK == ledger \in [Keys -> Row]

FolderOK ==
    /\ phase \in {"idle", "folders", "removals", "discarded", "moves"}
    /\ todo \subseteq Colls
    /\ here \in Colls \cup {None}
    /\ since \subseteq Places
    /\ seen \subseteq Colls \X Keys
    /\ removals \subseteq Places
    /\ createdThisPass \subseteq Arrivals
    /\ retryablePending \in BOOLEAN
    /\ fullyEnumerated \in BOOLEAN
    /\ consecutiveFailures \in Nat
    /\ aborted \in BOOLEAN
    /\ snapped \subseteq Colls
    /\ snap \subseteq Places
    /\ queue \subseteq Keys
    /\ placed \in [Keys -> Row]

WorkOK == work \in [Keys -> Work]

\* The type invariant is the conjunction of its groups ...
LEMMA TypeParts == TypeOK <=> WorldOK /\ UsedOK /\ RowsOK /\ FolderOK /\ WorkOK
  BY DEF TypeOK, WorldOK, UsedOK, RowsOK, FolderOK, WorkOK

\* ... and so is its primed form.
LEMMA TypePartsNext == TypeOK' <=> (WorldOK /\ UsedOK /\ RowsOK /\ FolderOK /\ WorkOK)'
  BY DEF TypeOK, WorldOK, UsedOK, RowsOK, FolderOK, WorkOK

\* An idle worker is a worker.
LEMMA OutType == Out \in Work
  BY NoRowType DEF Out, Work, Results

\* A step that leaves the world alone keeps its types.
LEMMA WorldKept == WorldOK /\ UNCHANGED world => WorldOK'
  BY DEF WorldOK, world, Present, PlaceOf

\* So does one that leaves the memory of the pass alone ...
LEMMA FolderKept == FolderOK /\ UNCHANGED <<phase, passVars>> => FolderOK'
  BY DEF FolderOK, passVars

\* ... its workers ...
LEMMA WorkKept == WorkOK /\ UNCHANGED work => WorkOK'
  BY DEF WorkOK

\* ... or the rows.
LEMMA RowsKept == RowsOK /\ UNCHANGED ledger => RowsOK'
  BY DEF RowsOK

\* Spending from a bound keeps the counters natural numbers.
LEMMA UsedStep ==
    ASSUME UsedOK,
           \/ UNCHANGED used
           \/ \E kind \in {"source", "owner", "operator", "fault"} :
                 used' = [used EXCEPT ![kind] = @ + 1]
    PROVE  UsedOK'
<1>1. CASE UNCHANGED used BY <1>1 DEF UsedOK
<1>2. CASE used' = [used EXCEPT !["source"] = @ + 1] BY <1>2 DEF UsedOK
<1>3. CASE used' = [used EXCEPT !["owner"] = @ + 1] BY <1>3 DEF UsedOK
<1>4. CASE used' = [used EXCEPT !["operator"] = @ + 1] BY <1>4 DEF UsedOK
<1>5. CASE used' = [used EXCEPT !["fault"] = @ + 1] BY <1>5 DEF UsedOK
<1> QED BY <1>1, <1>2, <1>3, <1>4, <1>5

\* The types hold initially.
LEMMA SyncTypeInit == Init => TypeOK
<1> SUFFICES ASSUME Init PROVE TypeOK
  OBVIOUS
<1>1. WorldOK
  <2>1. src \in [Keys -> [coll: Colls \cup {None}, bytes: Contents \cup {None}]]
    BY DEF Init, Gone
  <2>2. ASSUME NEW k \in Keys, Present(k) PROVE PlaceOf(k) \in Places /\ src[k].bytes \in Contents
    BY <2>2 DEF Init, Present
  <2>3. tgt \in [Places -> Contents \cup {None, Theirs}] BY DEF Init
  <2>4. trash = {} /\ cursor = {} /\ fresh = {} BY DEF Init
  <2>5. clearing \in BOOLEAN BY Zenon DEF Init
  <2> QED BY <2>1, <2>2, <2>3, <2>4, <2>5 DEF WorldOK
<1>2. UsedOK BY DEF Init, UsedOK
<1>3. RowsOK
  <2>1. \A k \in Legacy : legacyRow(src[k].bytes) \in Row
    <3> TAKE k \in Legacy
    <3>1. src[k].bytes \in Contents BY DEF Init, Present
    <3> QED BY <3>1, NoRowType DEF legacyRow, Row, Statuses
  <2> QED BY <2>1, NoRowType DEF Init, RowsOK
<1>4. FolderOK
  <2>1. retryablePending \in BOOLEAN /\ fullyEnumerated \in BOOLEAN /\ aborted \in BOOLEAN
    BY Zenon DEF Init, NoPass
  <2>2. placed \in [Keys -> Row] BY NoRowType DEF Init, NoPass
  <2>3. /\ phase = "idle" /\ todo = {} /\ here = None /\ since = {} /\ seen = {}
        /\ removals = {} /\ createdThisPass = {} /\ consecutiveFailures = 0
        /\ snapped = {} /\ snap = {} /\ queue = {}
    BY DEF Init, NoPass
  <2> QED BY <2>1, <2>2, <2>3 DEF FolderOK
<1>5. WorkOK BY OutType DEF Init, NoPass, WorkOK
<1> QED BY <1>1, <1>2, <1>3, <1>4, <1>5, TypeParts

\* May and Fault spend from a bound.
LEMMA Spends ==
    /\ \A kind : Fault(kind) => used' = [used EXCEPT !["fault"] = @ + 1]
    /\ \A actor, bound : May(actor, bound) => used' = [used EXCEPT ![actor] = @ + 1]
  BY DEF Fault, May

\* A pass that is over leaves its memory in the initial state.
LEMMA ForgetType == ForgetPass => FolderOK' /\ WorkOK'
<1> SUFFICES ASSUME ForgetPass PROVE FolderOK' /\ WorkOK'
  OBVIOUS
<1>1. retryablePending' \in BOOLEAN /\ fullyEnumerated' \in BOOLEAN /\ aborted' \in BOOLEAN
  BY Zenon DEF ForgetPass
<1>2. placed' \in [Keys -> Row] BY NoRowType DEF ForgetPass
<1>3. /\ phase' = "idle" /\ todo' = {} /\ here' = None /\ since' = {} /\ seen' = {}
      /\ removals' = {} /\ createdThisPass' = {} /\ consecutiveFailures' = 0
      /\ snapped' = {} /\ snap' = {} /\ queue' = {}
  BY DEF ForgetPass
<1>4. FolderOK' BY <1>1, <1>2, <1>3 DEF FolderOK
<1>5. WorkOK' BY OutType DEF ForgetPass, WorkOK
<1> QED BY <1>4, <1>5

\* What the source, the owner and the operator do keeps the types.
LEMMA EnvironmentType ==
    ASSUME TypeOK, Environment
    PROVE  TypeOK'
<1> WorldOK /\ UsedOK /\ RowsOK /\ FolderOK /\ WorkOK BY TypeParts
<1>1. ASSUME NEW k \in Keys, NEW v \in {Gone} \cup [coll: Colls, bytes: Contents],
             SourceChange(k, v)
      PROVE  TypeOK'
  <2>1. UsedOK'
    <3>1. May("source", MaxSource) BY <1>1 DEF SourceChange
    <3> QED BY <3>1, Spends, UsedStep
  <2>2. RowsOK' /\ WorkOK' BY <1>1, RowsKept, WorkKept DEF SourceChange
  <2>3. v \in [coll: Colls \cup {None}, bytes: Contents \cup {None}] BY DEF Gone
  <2>4. PlacesHeld(k, src[k]) \subseteq Places /\ PlacesHeld(k, v) \subseteq Places
    BY <1>1 DEF SourceChange, PlacesHeld, WorldOK, Present, PlaceOf
  <2>5. fresh' \subseteq Places /\ since' \subseteq Places
    BY <1>1, <2>4 DEF SourceChange, MarkChanged, WorldOK, FolderOK
  <2>6. src' \in [Keys -> [coll: Colls \cup {None}, bytes: Contents \cup {None}]]
    BY <1>1, <2>3 DEF SourceChange, WorldOK
  <2>7. ASSUME NEW j \in Keys, Present(j)'
        PROVE  PlaceOf(j)' \in Places /\ src'[j].bytes \in Contents
    BY <1>1, <2>7 DEF SourceChange, WorldOK, Present, PlaceOf
  <2>8. trash' \subseteq Keys BY <1>1 DEF SourceChange, WorldOK
  <2>9. WorldOK' BY <1>1, <2>5, <2>6, <2>7, <2>8 DEF SourceChange, WorldOK
  <2>10. FolderOK' BY <1>1, <2>5 DEF SourceChange, FolderOK
  <2> QED BY <2>1, <2>2, <2>9, <2>10, TypePartsNext
<1>2. ASSUME NEW k \in Keys, NEW p \in Places, SourceRename(k, p)
      PROVE  TypeOK'
  <2>0. p[1] \in Colls /\ p[2] \in Keys /\ p = <<p[1], p[2]>> OBVIOUS
  <2>1. UsedOK'
    <3>1. May("source", MaxSource) BY <1>2 DEF SourceRename
    <3> QED BY <3>1, Spends, UsedStep
  <2>2. RowsOK' /\ WorkOK' BY <1>2, RowsKept, WorkKept DEF SourceRename
  <2>3. PlaceOf(k) \in Places /\ src[k].bytes \in Contents
    BY <1>2 DEF SourceRename, WorldOK
  <2>4. fresh' \subseteq Places /\ since' \subseteq Places
    BY <1>2, <2>3 DEF SourceRename, MarkChanged, WorldOK, FolderOK
  <2>5. src' \in [Keys -> [coll: Colls \cup {None}, bytes: Contents \cup {None}]]
    BY <1>2, <2>0, <2>3 DEF SourceRename, WorldOK, Gone
  <2>6. ASSUME NEW j \in Keys, Present(j)'
        PROVE  PlaceOf(j)' \in Places /\ src'[j].bytes \in Contents
    BY <1>2, <2>0, <2>3, <2>6 DEF SourceRename, WorldOK, Present, PlaceOf, Gone
  <2>7. WorldOK' BY <1>2, <2>4, <2>5, <2>6 DEF SourceRename, WorldOK
  <2>8. FolderOK' BY <1>2, <2>4 DEF SourceRename, FolderOK
  <2> QED BY <2>1, <2>2, <2>7, <2>8, TypePartsNext
<1>3. ASSUME NEW p \in Places, OwnerChange(p) PROVE TypeOK'
  <2>1. UsedOK'
    <3>1. May("owner", MaxOwner) BY <1>3 DEF OwnerChange
    <3> QED BY <3>1, Spends, UsedStep
  <2>2. tgt' \in [Places -> Contents \cup {None, Theirs}] BY <1>3 DEF OwnerChange, WorldOK
  <2>3. WorldOK' BY <1>3, <2>2 DEF OwnerChange, WorldOK, Present, PlaceOf
  <2>4. UNCHANGED <<ledger, phase, passVars>> BY <1>3 DEF OwnerChange
  <2>5. RowsOK' /\ WorkOK' /\ FolderOK'
    BY <2>4, RowsKept, WorkKept, FolderKept DEF passVars
  <2> QED BY <2>1, <2>3, <2>5, TypePartsNext
<1>4. ASSUME NEW k \in Keys,
             AcceptFailure(k) \/ RetryFailure(k) \/ KeepMove(k) \/ KeepDeletion(k)
      PROVE  TypeOK'
  <2>1. UsedOK'
    <3>1. May("operator", MaxOperator)
      BY <1>4 DEF AcceptFailure, RetryFailure, KeepMove, KeepDeletion
    <3> QED BY <3>1, Spends, UsedStep
  <2>2. \E r \in Row : ledger' = [ledger EXCEPT ![k] = r]
    BY <1>4, AnswerTypes DEF AcceptFailure, RetryFailure, KeepMove, KeepDeletion, RowsOK
  <2>3. RowsOK' BY <2>2 DEF RowsOK
  <2>4. UNCHANGED <<src, trash, tgt, cursor, fresh, phase, passVars>>
    BY <1>4 DEF AcceptFailure, RetryFailure, KeepMove, KeepDeletion, world
  <2>5. clearing' \in BOOLEAN
    BY Zenon, <1>4 DEF AcceptFailure, RetryFailure, KeepMove, KeepDeletion, world, WorldOK
  <2>6. WorldOK' BY <2>4, <2>5 DEF WorldOK, Present, PlaceOf
  <2>7. WorkOK' /\ FolderOK' BY <2>4, WorkKept, FolderKept DEF passVars
  <2> QED BY <2>1, <2>3, <2>6, <2>7, TypePartsNext
<1>5. ASSUME ClearCursors PROVE TypeOK'
  <2>1. UNCHANGED <<src, trash, tgt, ledger, used, phase, passVars>> BY <1>5 DEF ClearCursors
  <2>2. clearing' \in BOOLEAN BY Zenon, <1>5 DEF ClearCursors
  <2>3. WorldOK' BY <1>5, <2>1, <2>2 DEF ClearCursors, WorldOK, Present, PlaceOf
  <2>4. RowsOK' /\ WorkOK' /\ FolderOK' /\ UsedOK'
    BY <2>1, RowsKept, WorkKept, FolderKept, UsedStep DEF passVars
  <2> QED BY <2>3, <2>4, TypePartsNext
<1>6. ASSUME Crash PROVE TypeOK'
  <2>1. UsedOK' BY <1>6, Spends, UsedStep DEF Crash
  <2>2. WorldOK' /\ RowsOK' BY <1>6, WorldKept, RowsKept DEF Crash
  <2>3. FolderOK' /\ WorkOK' BY <1>6, ForgetType DEF Crash
  <2> QED BY <2>1, <2>2, <2>3, TypePartsNext
<1> QED BY <1>1, <1>2, <1>3, <1>4, <1>5, <1>6 DEF Environment

\* Starting a pass, listing a folder, storing its cursor and ending a pass.
LEMMA FolderStepsType ==
    ASSUME TypeOK,
           \/ \E folders \in SUBSET Colls : StartPass(folders)
           \/ \E c \in Colls, keysOk \in BOOLEAN : ListFolder(c, keysOk)
           \/ FinishFolder \/ AbortPass
           \/ BeginRemovals \/ BeginDiscarded \/ BeginMoves \/ EndPass
    PROVE  TypeOK'
<1> WorldOK /\ UsedOK /\ RowsOK /\ FolderOK /\ WorkOK BY TypeParts
<1>1. ASSUME NEW folders \in SUBSET Colls, StartPass(folders) PROVE TypeOK'
  <2>1. UsedOK' BY <1>1, Spends, UsedStep DEF StartPass
  <2>2. WorldOK' /\ RowsOK' /\ WorkOK' BY <1>1, WorldKept, RowsKept, WorkKept DEF StartPass
  <2>3. FolderOK' BY <1>1 DEF StartPass, FolderOK
  <2> QED BY <2>1, <2>2, <2>3, TypePartsNext
<1>2. ASSUME NEW c \in Colls, NEW keysOk \in BOOLEAN, ListFolder(c, keysOk) PROVE TypeOK'
  <2>1. UsedOK' BY <1>2, Spends, UsedStep DEF ListFolder
  <2>2. WorldOK' /\ RowsOK' BY <1>2, WorldKept, RowsKept DEF ListFolder
  <2>3. WorkOK'
    <3>1. ASSUME NEW k \in Keys, k \in Listed(c)
          PROVE  [Out EXCEPT !.at = "todo",
                             !.version = IF k \in Unkeyed THEN None ELSE src[k].bytes] \in Work
      <4> DEFINE v == IF k \in Unkeyed THEN None ELSE src[k].bytes
      <4>1. v \in Contents \cup {None} BY <3>1 DEF Listed, WorldOK
      <4> HIDE DEF v
      <4>2. [Out EXCEPT !.at = "todo", !.version = v] \in Work BY <4>1, OutType DEF Work
      <4> QED BY <4>2 DEF v
    <3> QED BY <1>2, <3>1, OutType DEF ListFolder, WorkOK
  <2>4. seen' \subseteq Colls \X Keys
    <3>1. \A S \in SUBSET Keys : {<<c, k>> : k \in S} \subseteq Colls \X Keys OBVIOUS
    <3>2. {j \in Keys \ Unkeyed : Present(j) /\ src[j].coll = c} \in SUBSET Keys OBVIOUS
    <3>3. {<<c, k>> : k \in {j \in Keys \ Unkeyed : Present(j) /\ src[j].coll = c}}
             \subseteq Colls \X Keys
      BY <3>1, <3>2
    <3> QED BY <1>2, <3>3 DEF ListFolder, FolderOK
  <2>5. removals' \subseteq Places BY <1>2 DEF ListFolder, FolderOK, Removed, WorldOK
  <2>6. fullyEnumerated' \in BOOLEAN BY Zenon, <1>2 DEF ListFolder
  <2>7. FolderOK' BY <1>2, <2>4, <2>5, <2>6 DEF ListFolder, FolderOK
  <2> QED BY <2>1, <2>2, <2>3, <2>7, TypePartsNext
<1>3. ASSUME FinishFolder PROVE TypeOK'
  <2>1. UsedOK' /\ RowsOK' /\ WorkOK' BY <1>3, UsedStep, RowsKept, WorkKept DEF FinishFolder
  <2>2. cursor' \subseteq Colls /\ fresh' \subseteq Places
    BY <1>3 DEF FinishFolder, WorldOK, FolderOK
  <2>3. WorldOK' BY <1>3, <2>2 DEF FinishFolder, WorldOK, Present, PlaceOf
  <2>4. FolderOK' BY <1>3 DEF FinishFolder, FolderOK
  <2> QED BY <2>1, <2>3, <2>4, TypePartsNext
<1>4. ASSUME AbortPass \/ EndPass PROVE TypeOK'
  <2>1. ForgetPass /\ UNCHANGED <<world, ledger, used>> BY <1>4 DEF AbortPass, EndPass
  <2> QED BY <2>1, ForgetType, UsedStep, WorldKept, RowsKept, TypePartsNext
<1>5. ASSUME BeginRemovals \/ BeginDiscarded \/ BeginMoves PROVE TypeOK'
  <2>1. UNCHANGED <<world, ledger, used, work>>
    BY <1>5 DEF BeginRemovals, BeginDiscarded, BeginMoves, Proceed
  <2>2. WorldOK' /\ UsedOK' /\ RowsOK' /\ WorkOK'
    BY <2>1, WorldKept, RowsKept, UsedStep, WorkKept
  <2>3. queue' \subseteq Keys
    BY <1>5 DEF BeginRemovals, BeginDiscarded, BeginMoves, WorldOK
  <2>4. placed' \in [Keys -> Row]
    BY <1>5 DEF BeginRemovals, BeginDiscarded, BeginMoves, RowsOK, FolderOK
  <2>5. FolderOK'
    BY <1>5, <2>3, <2>4 DEF BeginRemovals, BeginDiscarded, BeginMoves, Proceed, FolderOK
  <2> QED BY <2>2, <2>5, TypePartsNext
<1> QED BY <1>1, <1>2, <1>3, <1>4, <1>5

\* A worker that moves on to a well-typed record.
LEMMA GoesType ==
    ASSUME WorkOK, NEW k \in Keys, \E w \in Work : Goes(k, w)
    PROVE  WorkOK'
  BY DEF WorkOK, Goes

\* The catch of a failed item.
LEMMA FailsType ==
    ASSUME TypeOK, NEW k \in Keys, NEW hash \in Contents \cup {None}, ItemFails(k, hash)
    PROVE  /\ RowsOK' /\ WorkOK'
           /\ retryablePending' \in BOOLEAN /\ aborted' \in BOOLEAN
           /\ consecutiveFailures' \in Nat
<1> WorldOK /\ UsedOK /\ RowsOK /\ FolderOK /\ WorkOK BY TypeParts
<1>1. recordFailure(ledger[k], hash) \in Row
  <2> "failed" \in Statuses BY DEF Statuses
  <2> QED BY RecordTypes DEF RowsOK
<1>2. RowsOK' BY <1>1 DEF ItemFails, RowsOK
<1>3. Goes(k, Out) BY DEF ItemFails, Done
<1>4. WorkOK' BY <1>3, OutType, GoesType
<1>5. retryablePending' \in BOOLEAN BY DEF ItemFails, FolderOK
<1>6. aborted' \in BOOLEAN BY DEF ItemFails, FolderOK
<1>7. consecutiveFailures' \in Nat BY DEF ItemFails, FolderOK
<1> QED BY <1>2, <1>4, <1>5, <1>6, <1>7

\* The steps of a worker before it writes.
LEMMA TakeTypes ==
    ASSUME TypeOK, NEW k \in Keys,
           TakeItem(k) \/ SettleItem(k) \/ FetchItem(k) \/ FetchFails(k)
    PROVE  TypeOK'
<1> WorldOK /\ UsedOK /\ RowsOK /\ FolderOK /\ WorkOK BY TypeParts
<1>w. work[k] \in Work BY DEF WorkOK
<1>l. ledger[k] \in Row BY DEF RowsOK
<1>s. ASSUME here # None PROVE seen \cup {<<here, k>>} \subseteq Colls \X Keys
  BY <1>s DEF FolderOK
<1>1. CASE TakeItem(k)
  <2>1. WorldOK' /\ UsedOK' /\ RowsOK' BY <1>1, WorldKept, RowsKept, UsedStep DEF TakeItem
  <2>2. WorkOK'
    <3>1. [work[k] EXCEPT !.at = "fetch"] \in Work BY <1>w DEF Work
    <3>2. CASE Found(ledger[k])
      <4>1. [work[k] EXCEPT !.known = ledger[k], !.at = "settle"] \in Work
        BY <1>w, <1>l DEF Work
      <4>2. \E w \in Work : Goes(k, w) BY <1>1, <3>1, <3>2, <4>1 DEF TakeItem
      <4> QED BY <4>2, GoesType
    <3>3. CASE ~Found(ledger[k])
      <4>1. [work[k] EXCEPT !.known = ledger[k], !.at = "fetch"] \in Work
        BY <1>w, <1>l DEF Work
      <4>2. \E w \in Work : Goes(k, w) BY <1>1, <3>1, <3>3, <4>1 DEF TakeItem
      <4> QED BY <4>2, GoesType
    <3> QED BY <3>2, <3>3
  <2>3. seen' \subseteq Colls \X Keys BY <1>1, <1>s DEF TakeItem, ItemStep, FolderOK
  <2>4. FolderOK' BY <1>1, <2>3 DEF TakeItem, FolderOK
  <2> QED BY <2>1, <2>2, <2>4, TypePartsNext
<1>2. CASE SettleItem(k)
  <2> DEFINE known == work[k].known
             row == Reappeared(known, ledger[k])
             back == MovedBack(known, row)
             action == classifyKnownItem(known, work[k].version, here)
  <2>1. WorldOK' /\ UsedOK' BY <1>2, WorldKept, UsedStep DEF SettleItem
  <2>2. known \in Row BY <1>w DEF Work
  <2>3. row \in Row BY <1>l, ClaimTypes DEF Reappeared
  <2>4. back \in Row BY <2>3, ClaimTypes DEF MovedBack
  <2>5. here \in Colls BY <1>2 DEF SettleItem, ItemStep, FolderOK
  <2>6. recordMove(row, here, None) \in Row BY <2>3, <2>5, MoveTypes
  <2>7. recordUpdate(back, known.status, work[k].version, known.contentHash,
                     known.targetVersion, known.collection) \in Row
    <3>1. /\ work[k].version \in Contents \cup {None}
          /\ known.status \in Statuses
          /\ known.contentHash \in Contents \cup {None}
          /\ known.targetVersion \in Contents \cup {None}
          /\ known.collection \in Colls \cup {None}
      BY <1>w, <2>2 DEF Work, Row
    <3> HIDE DEF known, back
    <3> QED BY <2>4, <3>1, RecordTypes
  <2>8. \E r \in Row : ledger' = [ledger EXCEPT ![k] = r]
    <3> HIDE DEF row, back, action, known
    <3>1. CASE action = "moved"
      BY <1>2, <2>3, <2>6, <3>1 DEF SettleItem, row, known, action
    <3>2. CASE action = "record-version"
      BY <1>2, <2>7, <3>2 DEF SettleItem, row, known, back, action
    <3>3. CASE action \notin {"moved", "record-version"}
      BY <1>2, <2>4, <3>3 DEF SettleItem, row, known, back, action
    <3> QED BY <3>1, <3>2, <3>3
  <2>9. RowsOK' BY <2>8 DEF RowsOK
  <2>10. WorkOK'
    <3>1. [work[k] EXCEPT !.at = "fetch"] \in Work BY <1>w DEF Work
    <3>2. Goes(k, [work[k] EXCEPT !.at = "fetch"]) \/ Goes(k, Out)
      BY <1>2 DEF SettleItem, Done
    <3> QED BY <3>1, <3>2, OutType, GoesType
  <2>11. FolderOK' BY <1>2 DEF SettleItem, FolderOK
  <2> QED BY <2>1, <2>9, <2>10, <2>11, TypePartsNext
<1>3. CASE FetchItem(k)
  <2>1. WorldOK' /\ UsedOK' /\ RowsOK' BY <1>3, WorldKept, RowsKept, UsedStep DEF FetchItem
  <2>2. Bytes(k) \in Contents \cup {None} BY <1>w DEF Bytes, WorldOK, Work
  <2>3. /\ [work[k] EXCEPT !.at = "check", !.raw = Bytes(k), !.known = ledger[k]] \in Work
        /\ [work[k] EXCEPT !.at = "check", !.raw = Bytes(k)] \in Work
    BY <1>w, <1>l, <2>2 DEF Work
  <2>4. \E w \in Work : Goes(k, w)
    BY <1>3, <2>3, OutType DEF FetchItem, LookUpDerived, Done
  <2>5. WorkOK' BY <2>4, GoesType
  <2>6. seen' \subseteq Colls \X Keys BY <1>3, <1>s DEF FetchItem, ItemStep, FolderOK
  <2>7. FolderOK' BY <1>3, <2>6 DEF FetchItem, FolderOK
  <2> QED BY <2>1, <2>5, <2>7, TypePartsNext
<1>4. CASE FetchFails(k)
  <2>1. WorldOK' /\ UsedOK' BY <1>4, WorldKept, UsedStep, Spends DEF FetchFails
  <2>2. /\ RowsOK' /\ WorkOK' /\ retryablePending' \in BOOLEAN /\ aborted' \in BOOLEAN
        /\ consecutiveFailures' \in Nat
    BY <1>4, FailsType DEF FetchFails
  <2>3. FolderOK' BY <1>4, <2>2 DEF FetchFails, FolderOK
  <2> QED BY <2>1, <2>2, <2>3, TypePartsNext
<1> QED BY <1>1, <1>2, <1>3, <1>4

-----------------------------------------------------------------------------
(* The types are not inductive by themselves: what a worker records of an  *)
(* item it has copied are bytes, and the place it copied them to exists.   *)

\* A worker whose item is in flight works on a place of the target, and once it
\* has fetched the item it holds its bytes.
WorkerOK(k, w, coll) ==
    w.at # "out" =>
        /\ <<coll, k>> \in Places
        /\ ListsBodies => w.version \in Contents
        /\ w.at \in {"check", "put", "record"} => w.raw \in Contents

WorkersOK == \A k \in Keys : WorkerOK(k, work[k], here)

\* A worker that has let go of its item.
LEMMA OutOK == \A k, coll : WorkerOK(k, Out, coll)
  BY DEF WorkerOK, Out

\* Workers that stay where they are stay well placed.
LEMMA WorkersKept == WorkersOK /\ UNCHANGED <<work, here>> => WorkersOK'
  BY DEF WorkersOK

\* One worker goes on, the others stay where they are.
LEMMA WorkersGo ==
    ASSUME WorkOK, WorkersOK, NEW k \in Keys, here' = here,
           \E w : Goes(k, w) /\ WorkerOK(k, w, here)
    PROVE  WorkersOK'
  BY DEF WorkOK, WorkersOK, Goes

\* The steps of one worker keep WorkersOK.
LEMMA ItemWorkers ==
    ASSUME TypeOK, WorkersOK, NEW k \in Keys, ItemSteps(k)
    PROVE  WorkersOK'
<1> WorldOK /\ UsedOK /\ RowsOK /\ FolderOK /\ WorkOK BY TypeParts
<1> DEFINE w == work[k]
<1>o. WorkerOK(k, w, here) /\ w \in Work BY DEF WorkersOK, WorkOK
<1>d. ASSUME Done(k), here' = here PROVE WorkersOK'
  BY <1>d, OutOK, WorkersGo DEF Done
<1>1. CASE TakeItem(k)
  <2>1. \A at \in {"fetch", "settle"} :
          /\ WorkerOK(k, [w EXCEPT !.at = at], here)
          /\ WorkerOK(k, [w EXCEPT !.known = ledger[k], !.at = at], here)
    BY <1>1, <1>o DEF TakeItem, ItemStep, WorkerOK, Work
  <2>2. \E v : Goes(k, v) /\ WorkerOK(k, v, here) BY <1>1, <2>1 DEF TakeItem
  <2>3. here' = here BY <1>1 DEF TakeItem
  <2> QED BY <2>2, <2>3, WorkersGo
<1>2. CASE SettleItem(k)
  <2>1. WorkerOK(k, [w EXCEPT !.at = "fetch"], here)
    BY <1>2, <1>o DEF SettleItem, ItemStep, WorkerOK, Work
  <2>2. Goes(k, [w EXCEPT !.at = "fetch"]) \/ Done(k) BY <1>2 DEF SettleItem
  <2>3. here' = here BY <1>2 DEF SettleItem
  <2> QED BY <2>1, <2>2, <2>3, <1>d, WorkersGo
<1>3. CASE FetchItem(k)
  <2>1. here' = here /\ here # None /\ w.at = "fetch" /\ Served(k)
    BY <1>3 DEF FetchItem, ItemStep
  <2>2. Bytes(k) \in Contents
    <3>1. CASE ListsBodies BY <3>1, <2>1, <1>o DEF WorkerOK, Bytes
    <3>2. CASE ~ListsBodies
      BY <3>2, <2>1 DEF Bytes, Served, WorldOK, Present, Gone
    <3> QED BY <3>1, <3>2
  <2>3. /\ WorkerOK(k, [w EXCEPT !.at = "check", !.raw = Bytes(k), !.known = ledger[k]], here)
        /\ WorkerOK(k, [w EXCEPT !.at = "check", !.raw = Bytes(k)], here)
    BY <1>o, <2>1, <2>2 DEF WorkerOK, Work
  <2>4. \/ Goes(k, [w EXCEPT !.at = "check", !.raw = Bytes(k), !.known = ledger[k]])
        \/ Goes(k, [w EXCEPT !.at = "check", !.raw = Bytes(k)])
        \/ Done(k)
    BY <1>3 DEF FetchItem, LookUpDerived
  <2> QED BY <2>1, <2>3, <2>4, <1>d, WorkersGo
<1>4. CASE FetchFails(k) BY <1>4, <1>d DEF FetchFails, ItemFails
<1>5. ASSUME NEW answered \in BOOLEAN, CheckOwnership(k, answered) \/ CheckExisting(k, answered)
      PROVE  WorkersOK'
  <2>1. here' = here /\ w.at = "check"
    BY <1>5 DEF CheckOwnership, CheckExisting, ItemStep
  <2>2. /\ WorkerOK(k, [w EXCEPT !.at = "put"], here)
        /\ \A r : WorkerOK(k, [w EXCEPT !.at = "record", !.result = r], here)
    BY <1>o, <2>1 DEF WorkerOK, Work
  <2>3. \/ Goes(k, [w EXCEPT !.at = "put"])
        \/ \E r : Goes(k, [w EXCEPT !.at = "record", !.result = r])
    BY <1>5 DEF CheckOwnership, CheckExisting
  <2> QED BY <2>1, <2>2, <2>3, WorkersGo
<1>6. ASSUME NEW tagged \in BOOLEAN, PutItem(k, tagged) PROVE WorkersOK'
  <2>1. here' = here /\ w.at = "put" BY <1>6 DEF PutItem, ItemStep
  <2>2. \A r, t : WorkerOK(k, [w EXCEPT !.at = "record", !.result = r, !.targetVersion = t], here)
    BY <1>o, <2>1 DEF WorkerOK, Work
  <2>3. \E r, t : Goes(k, [w EXCEPT !.at = "record", !.result = r, !.targetVersion = t])
    BY <1>6 DEF PutItem
  <2> QED BY <2>1, <2>2, <2>3, WorkersGo
<1>7. CASE PutFails(k) BY <1>7, <1>d DEF PutFails, ItemFails
<1>8. CASE RecordItem(k) BY <1>8, <1>d DEF RecordItem
<1>9. CASE RecordConflict(k) BY <1>9, <1>d DEF RecordConflict
<1>10. CASE resolveReportedRemoval(k) \/ resolveDiscardedItem(k) \/ detectPathKeyedMove(k)
  BY <1>10, WorkersKept
     DEF resolveReportedRemoval, resolveDiscardedItem, detectPathKeyedMove, Inspects
<1> QED BY <1>1, <1>2, <1>3, <1>4, <1>5, <1>6, <1>7, <1>8, <1>9, <1>10 DEF ItemSteps

\* A folder is listed with nothing in flight, and a pass that is over has no workers.
LEMMA WorkersNext ==
    ASSUME TypeOK, WorkersOK, [Next]_vars
    PROVE  WorkersOK'
<1> WorldOK /\ UsedOK /\ RowsOK /\ FolderOK /\ WorkOK BY TypeParts
<1>f. ASSUME ForgetPass PROVE WorkersOK' BY <1>f, OutOK DEF ForgetPass, WorkersOK
<1>1. CASE Environment \/ UNCHANGED vars
  <2>1. ForgetPass \/ UNCHANGED <<work, here>>
    BY <1>1 DEF Environment, SourceChange, SourceRename, OwnerChange, AcceptFailure, RetryFailure,
                KeepMove, KeepDeletion, ClearCursors, Crash, passVars, vars
  <2> QED BY <2>1, <1>f, WorkersKept
<1>2. CASE \E k \in Keys : ItemSteps(k) BY <1>2, ItemWorkers
<1>3. ASSUME NEW c \in Colls, NEW keysOk \in BOOLEAN, ListFolder(c, keysOk) PROVE WorkersOK'
  <2> SUFFICES ASSUME NEW k \in Keys PROVE WorkerOK(k, work'[k], here')
    BY DEF WorkersOK
  <2>1. here' = c BY <1>3 DEF ListFolder
  <2>2. CASE k \notin Listed(c)
    <3>1. work'[k] = Out BY <1>3, <2>2 DEF ListFolder
    <3> QED BY <3>1, OutOK
  <2>3. CASE k \in Listed(c)
    <3> DEFINE v == IF k \in Unkeyed THEN None ELSE src[k].bytes
    <3>1. work'[k] = [Out EXCEPT !.at = "todo", !.version = v] BY <1>3, <2>3 DEF ListFolder
    <3>2. <<c, k>> \in Places BY <2>3 DEF Listed, WorldOK, PlaceOf
    <3>3. ListsBodies => v \in Contents BY <2>3 DEF Listed, WorldOK
    <3> HIDE DEF v
    <3> QED BY <2>1, <3>1, <3>2, <3>3 DEF WorkerOK, Out
  <2> QED BY <2>2, <2>3
<1>4. CASE FinishFolder BY <1>4 DEF FinishFolder, WorkersOK, WorkerOK
<1>5. CASE AbortPass \/ EndPass BY <1>5, <1>f DEF AbortPass, EndPass
<1>6. CASE \/ \E folders \in SUBSET Colls : StartPass(folders)
           \/ BeginRemovals \/ BeginDiscarded \/ BeginMoves
  BY <1>6, WorkersKept DEF StartPass, BeginRemovals, BeginDiscarded, BeginMoves, Proceed
<1> QED BY <1>1, <1>2, <1>3, <1>4, <1>5, <1>6 DEF Next, PassSteps

\* What a worker learns from the writer is well typed.
LEMMA SnapshotType ==
    ASSUME FolderOK, NEW extra \in SUBSET Places, here \in Colls, TakeSnapshot(extra)
    PROVE  snapped' \subseteq Colls /\ snap' \subseteq Places
<1>1. Scope \subseteq Colls BY DEF Scope
<1>2. Held({p \in Places : p[1] \in Scope \ snapped}) \subseteq Places BY DEF Held
<1> QED BY <1>1, <1>2 DEF TakeSnapshot, FolderOK

\* The steps of a worker that asks the target, writes to it and records the outcome.
LEMMA WriterTypes ==
    ASSUME TypeOK, WorkersOK, NEW k \in Keys,
           \/ \E answered \in BOOLEAN : CheckOwnership(k, answered) \/ CheckExisting(k, answered)
           \/ \E tagged \in BOOLEAN : PutItem(k, tagged)
           \/ PutFails(k) \/ RecordItem(k) \/ RecordConflict(k)
    PROVE  TypeOK'
<1> WorldOK /\ UsedOK /\ RowsOK /\ FolderOK /\ WorkOK BY TypeParts
<1> DEFINE w == work[k]
<1>o. WorkerOK(k, w, here) BY DEF WorkersOK
<1>w. w \in Work BY DEF WorkOK
<1>l. ledger[k] \in Row BY DEF RowsOK
<1>p. ASSUME w.at \in {"check", "put", "record"}, here # None
      PROVE  Place(k) \in Places /\ here \in Colls /\ w.raw \in Contents
  BY <1>o, <1>p DEF WorkerOK, Place, FolderOK
<1>t. ASSUME w.at = "put", here # None PROVE Lands(k) => tgt' \in [Places -> Contents \cup {None, Theirs}]
  BY <1>p, <1>t DEF Lands, WorldOK
<1>1. ASSUME NEW answered \in BOOLEAN, CheckOwnership(k, answered) PROVE TypeOK'
  <2>1. WorldOK' /\ UsedOK' /\ RowsOK'
    BY <1>1, WorldKept, RowsKept, UsedStep, Spends DEF CheckOwnership
  <2>2. /\ [w EXCEPT !.at = "record", !.result = "conflicted"] \in Work
        /\ [w EXCEPT !.at = "put"] \in Work
    BY <1>w DEF Work, Results
  <2>3. WorkOK' BY <1>1, <2>2, GoesType DEF CheckOwnership
  <2>4. FolderOK' BY <1>1 DEF CheckOwnership, FolderOK
  <2> QED BY <2>1, <2>3, <2>4, TypePartsNext
<1>2. ASSUME NEW answered \in BOOLEAN, CheckExisting(k, answered) PROVE TypeOK'
  <2>1. WorldOK' /\ UsedOK' /\ RowsOK'
    BY <1>2, WorldKept, RowsKept, UsedStep, Spends DEF CheckExisting, world
  <2>2. /\ \A r \in Results : [w EXCEPT !.at = "record", !.result = r] \in Work
        /\ [w EXCEPT !.at = "put"] \in Work
    BY <1>w DEF Work
  <2>3. \E v \in Work : Goes(k, v)
    <3>1. "present" \in Results /\ "adopted" \in Results BY DEF Results
    <3> QED BY <1>2, <2>2, <3>1 DEF CheckExisting
  <2>4. WorkOK' BY <2>3, GoesType
  <2>5. snapped' \subseteq Colls /\ snap' \subseteq Places
    <3>1. here \in Colls BY <1>2 DEF CheckExisting, ItemStep, FolderOK
    <3>2. TakeSnapshot({}) \/ UNCHANGED <<snapped, snap>> BY <1>2 DEF CheckExisting
    <3> QED BY <3>1, <3>2, SnapshotType DEF FolderOK
  <2>6. FolderOK' BY <1>2, <2>5 DEF CheckExisting, FolderOK
  <2> QED BY <2>1, <2>4, <2>6, TypePartsNext
<1>3. ASSUME NEW tagged \in BOOLEAN, PutItem(k, tagged) PROVE TypeOK'
  <2>1. w.at = "put" /\ here # None BY <1>3 DEF PutItem, ItemStep
  <2>2. Place(k) \in Places /\ here \in Colls /\ w.raw \in Contents BY <2>1, <1>p
  <2>3. WorldOK' BY <1>3, <2>1, <1>t DEF PutItem, WorldOK, Present, PlaceOf
  <2>4. RowsOK' /\ UsedOK' BY <1>3, RowsKept, UsedStep, Spends DEF PutItem
  <2>5. Minted(k, tagged) \in Contents \cup {None} BY <2>2 DEF Minted
  <2>6. \A r \in Results, t \in Contents \cup {None} :
          [w EXCEPT !.at = "record", !.result = r, !.targetVersion = t] \in Work
    BY <1>w DEF Work
  <2>7. (IF Rewrites(k) THEN "updated" ELSE "created") \in Results BY DEF Results
  <2>8. WorkOK' BY <1>3, <2>5, <2>6, <2>7, GoesType DEF PutItem
  <2>9. snapped' \subseteq Colls /\ snap' \subseteq Places
    BY <1>3, <2>2, SnapshotType DEF PutItem
  <2>10. FolderOK' BY <1>3, <2>9 DEF PutItem, FolderOK
  <2> QED BY <2>3, <2>4, <2>8, <2>10, TypePartsNext
<1>4. CASE PutFails(k)
  <2>1. w.at = "put" /\ here # None BY <1>4 DEF PutFails, ItemStep
  <2>2. w.raw \in Contents BY <2>1, <1>p
  <2>3. WorldOK' BY <1>4, <2>1, <1>t DEF PutFails, WorldOK, Present, PlaceOf
  <2>4. UsedOK' BY <1>4, UsedStep, Spends DEF PutFails
  <2>5. /\ RowsOK' /\ WorkOK' /\ retryablePending' \in BOOLEAN /\ aborted' \in BOOLEAN
        /\ consecutiveFailures' \in Nat
    BY <1>4, <2>2, FailsType DEF PutFails
  <2>6. FolderOK' BY <1>4, <2>5 DEF PutFails, FolderOK
  <2> QED BY <2>3, <2>4, <2>5, <2>6, TypePartsNext
<1>5. CASE RecordItem(k)
  <2>1. w.at = "record" /\ here # None BY <1>5 DEF RecordItem, ItemStep
  <2>2. here \in Colls /\ w.raw \in Contents BY <2>1, <1>p
  <2>3. WorldOK' /\ UsedOK' BY <1>5, WorldKept, UsedStep DEF RecordItem
  <2>4. \E r \in Row : ledger' = [ledger EXCEPT ![k] = r]
    <3> DEFINE status == CASE w.result = "created" -> "copied"
                           [] w.result = "adopted" -> "adopted"
                           [] OTHER -> "updated"
    <3>1. status \in Statuses BY DEF Statuses
    <3>2. w.version \in Contents \cup {None} /\ w.targetVersion \in Contents \cup {None}
      BY <1>w DEF Work
    <3> HIDE DEF status
    <3>3. /\ recordUpdate(ledger[k], status, w.version, w.raw, w.targetVersion, here) \in Row
          /\ recordIfAbsent(ledger[k], status, w.version, w.raw, w.targetVersion, here) \in Row
      BY <1>l, <2>2, <3>1, <3>2, RecordTypes
    <3> QED BY <1>5, <3>3 DEF RecordItem, status
  <2>5. RowsOK' BY <2>4 DEF RowsOK
  <2>6. WorkOK' BY <1>5, OutType, GoesType DEF RecordItem, Done
  <2>7. [key |-> k, contentHash |-> w.raw, collection |-> here] \in Arrivals
    BY <2>2 DEF Arrivals
  <2>8. createdThisPass' \subseteq Arrivals BY <1>5, <2>7 DEF RecordItem, FolderOK
  <2>9. aborted' \in BOOLEAN BY Zenon, <1>5 DEF RecordItem
  <2>10. FolderOK' BY <1>5, <2>8, <2>9 DEF RecordItem, FolderOK
  <2> QED BY <2>3, <2>5, <2>6, <2>10, TypePartsNext
<1>6. CASE RecordConflict(k)
  <2>1. WorldOK' /\ UsedOK' BY <1>6, WorldKept, UsedStep DEF RecordConflict
  <2>2. \E r \in Row : ledger' = [ledger EXCEPT ![k] = r]
    <3> DEFINE known == w.known
    <3>1. known \in Row BY <1>w DEF Work
    <3>2. /\ known.sourceVersion \in Contents \cup {None}
          /\ known.contentHash \in Contents \cup {None}
          /\ known.targetVersion \in Contents \cup {None}
          /\ known.collection \in Colls \cup {None}
      BY <3>1 DEF Row
    <3>3. "adopted" \in Statuses BY DEF Statuses
    <3> HIDE DEF known
    <3>4. recordUpdate(ledger[k], "adopted", known.sourceVersion, known.contentHash,
                       known.targetVersion, known.collection) \in Row
      BY <1>l, <3>2, <3>3, RecordTypes
    <3> QED BY <1>6, <3>4 DEF RecordConflict, known
  <2>3. RowsOK' BY <2>2 DEF RowsOK
  <2>4. WorkOK' BY <1>6, OutType, GoesType DEF RecordConflict, Done
  <2>5. FolderOK' BY <1>6 DEF RecordConflict, FolderOK
  <2> QED BY <2>1, <2>3, <2>4, <2>5, TypePartsNext
<1> QED BY <1>1, <1>2, <1>3, <1>4, <1>5, <1>6

\* The detectors change the row they look at, and consume an arrival.
LEMMA DetectorTypes ==
    ASSUME TypeOK, NEW k \in Keys,
           resolveReportedRemoval(k) \/ resolveDiscardedItem(k) \/ detectPathKeyedMove(k)
    PROVE  TypeOK'
<1> WorldOK /\ UsedOK /\ RowsOK /\ FolderOK /\ WorkOK BY TypeParts
<1>l. ledger[k] \in Row BY DEF RowsOK
<1>i. \E during : Inspects(k, during)
  BY DEF resolveReportedRemoval, resolveDiscardedItem, detectPathKeyedMove
<1>1. WorldOK' /\ UsedOK' /\ WorkOK' BY <1>i, WorldKept, UsedStep, WorkKept DEF Inspects
<1>2. /\ \E r \in Row : ledger' = [ledger EXCEPT ![k] = r]
      /\ createdThisPass' \subseteq Arrivals
  <2>u. ASSUME UNCHANGED <<ledger, createdThisPass>>
        PROVE  /\ \E r \in Row : ledger' = [ledger EXCEPT ![k] = r]
               /\ createdThisPass' \subseteq Arrivals
    BY <2>u, <1>l DEF FolderOK, RowsOK
  <2>1. CASE resolveReportedRemoval(k)
    BY <2>1, <1>l, ClaimTypes DEF resolveReportedRemoval, FolderOK
  <2>2. CASE resolveDiscardedItem(k)
    BY <2>2, <1>l, ClaimTypes DEF resolveDiscardedItem, FolderOK
  <2>3. CASE StillThere(k)
    <3>1. clearMove(ledger[k]) \in Row BY <1>l, ClaimTypes
    <3>2. clearAbsent(clearMove(ledger[k])) \in Row /\ clearAbsent(ledger[k]) \in Row
      BY <1>l, <3>1, ClaimTypes
    <3> QED BY <2>3, <1>l, <3>1, <3>2 DEF StillThere, FolderOK
  <2>4. CASE MovedAway(k)
    <3>1. PICK a \in createdThisPass :
            /\ ledger' = [ledger EXCEPT ![k] = recordMove(@, a.collection, a.key)]
            /\ createdThisPass' = createdThisPass \ {a}
      BY <2>4 DEF MovedAway
    <3>2. a.collection \in Colls /\ a.key \in Keys BY DEF FolderOK, Arrivals
    <3>3. recordMove(ledger[k], a.collection, a.key) \in Row BY <1>l, <3>2, MoveTypes
    <3> QED BY <3>1, <3>3 DEF FolderOK
  <2>5. CASE Vanished(k) BY <2>5, <1>l, ClaimTypes DEF Vanished, FolderOK
  <2> QED BY <2>1, <2>2, <2>3, <2>4, <2>5, <2>u DEF detectPathKeyedMove
<1>3. RowsOK' BY <1>2 DEF RowsOK
<1>4. FolderOK' BY <1>i, <1>2 DEF Inspects, FolderOK
<1> QED BY <1>1, <1>3, <1>4, TypePartsNext

\* Every step keeps the types.
LEMMA SyncTypeNext == TypeOK /\ WorkersOK /\ [Next]_vars => TypeOK' /\ WorkersOK'
<1> SUFFICES ASSUME TypeOK, WorkersOK, [Next]_vars PROVE TypeOK' /\ WorkersOK'
  OBVIOUS
<1>1. WorkersOK' BY WorkersNext
<1>2. ASSUME Environment PROVE TypeOK' BY <1>2, EnvironmentType
<1>3. ASSUME NEW k \in Keys, ItemSteps(k) PROVE TypeOK'
  BY <1>3, TakeTypes, WriterTypes, DetectorTypes DEF ItemSteps
<1>4. ASSUME PassSteps PROVE TypeOK' BY <1>4, <1>3, FolderStepsType DEF PassSteps
<1>5. ASSUME UNCHANGED vars PROVE TypeOK' BY <1>5 DEF vars, passVars, TypeOK, Present, PlaceOf
<1> QED BY <1>1, <1>2, <1>4, <1>5 DEF Next

\* The types hold in every reachable state, strengthened by what is true of workers.
LEMMA SyncTypesAlways == Spec => [](TypeOK /\ WorkersOK)
<1>1. Init => TypeOK /\ WorkersOK
  BY SyncTypeInit, OutOK DEF Init, NoPass, WorkersOK
<1> QED BY <1>1, SyncTypeNext, PTL DEF Spec

\* The rows, the target and the memory of every pass are well typed in every
\* reachable state, whatever the source, the owner and the operator do.
THEOREM SyncTypeCorrect == Spec => []TypeOK
  BY SyncTypesAlways, PTL

-----------------------------------------------------------------------------
(* The hard rule of a pass: it never replaces bytes on the target that     *)
(* this tool did not write, when the conditions `Protected` lists hold.    *)
(* Each of them is needed: the runs held_file_overwritten and sync_file    *)
(* show the rule broken without, and kept with, them.                      *)

\* Every copy carries the version the target minted for it (nothing was copied
\* before the column existed, nothing is uploaded in chunks, every answer to a
\* PUT names its ETag), the target answers when it is asked what it holds, and
\* the owner does not edit it between that answer and the write that follows.
Protected ==
    /\ Legacy = {} /\ Large = {}
    /\ {"no_etag", "head", "propfind"} \cap Faults = {}
    /\ "owner" \notin DuringPass

-----------------------------------------------------------------------------
(* The inductive invariant.                                                *)

\* A row of ours knows the version of the copy it describes; no row, no version.
RowSafe(row) ==
    /\ WroteIt(row) => row.targetVersion # None
    /\ ~Found(row) => row.sourceVersion = None

RowsSafe == \A k \in Keys : RowSafe(ledger[k])

\* Between passes nothing is left of one, and a folder is listed once.
PassIsFresh ==
    /\ phase = "idle" => here = None /\ snapped = {} /\ \A k \in Keys : work[k].at = "out"
    /\ here \notin todo

\* A place this pass has still to write to, or is writing to.
Ahead(p) == p[1] \in todo \/ (p[1] = here /\ work[p[2]].at # "out")

\* The enumeration of the target is complete for those places.
SnapshotComplete ==
    \A p \in Places : p[1] \in snapped /\ tgt[p] # None /\ Ahead(p) => p \in snap

\* What a worker w of item k in collection coll is about to do is safe, where
\* row is the ledger's row of k now and bytes what the target holds there now.
WorkerSafe(k, w, row, bytes, coll) ==
    LET rewrites == classifyKnownItem(w.known, w.version, coll) = "rewrite" IN
    /\ w.at # "out" => RowSafe(w.known)
    /\ w.at = "todo" => ~isOnTarget(w.known)
    /\ w.at = "settle" => Found(w.known)
    /\ (w.at \in {"settle", "check", "put", "record"} \/ (w.at = "fetch" /\ k \notin Unkeyed))
          => (isOnTarget(row) => isOnTarget(w.known))
    /\ w.at \in {"fetch", "check", "put", "record"} => (isOnTarget(w.known) => rewrites)
    /\ w.at = "put" => IF rewrites THEN bytes # Theirs ELSE bytes = None
    /\ w.at = "record" => \/ w.result \in {"adopted", "conflicted"}
                          \/ w.result \in {"created", "updated"} /\ w.targetVersion # None

WorkersSafe == \A k \in Keys : WorkerSafe(k, work[k], ledger[k], tgt[<<here, k>>], here)

Safe == TypeOK /\ WorkersOK /\ RowsSafe /\ PassIsFresh /\ SnapshotComplete /\ WorkersSafe

-----------------------------------------------------------------------------
(* Facts about rows and decisions.                                         *)

\* The new row does not claim a copy the old one did not.
ClaimsNoMore(old, new) ==
    /\ isOnTarget(new) => isOnTarget(old)
    /\ WroteIt(new) => WroteIt(old) /\ new.targetVersion = old.targetVersion
    /\ ~Found(new) => ~Found(old) /\ new.sourceVersion = old.sourceVersion

\* Every statement but the two that record a copy is such a change.
LEMMA StatementsClaimNoMore ==
    ASSUME NEW row \in Row
    PROVE  /\ ClaimsNoMore(row, row)
           /\ \A hash : ClaimsNoMore(row, recordFailure(row, hash))
           /\ \A to, toKey : ClaimsNoMore(row, recordMove(row, to, toKey))
           /\ ClaimsNoMore(row, clearMove(row))
           /\ ClaimsNoMore(row, recordAbsent(row))
           /\ ClaimsNoMore(row, recordReportedDeletion(row))
           /\ ClaimsNoMore(row, recordTrashedDeletion(row))
           /\ ClaimsNoMore(row, clearAbsent(row))
           /\ \A action : ClaimsNoMore(row, resolveFailure(row, action))
           /\ ClaimsNoMore(row, resolveMove(row))
           /\ ClaimsNoMore(row, resolveDeletion(row))
<1> USE DEF ClaimsNoMore, isOnTarget, WroteIt, Found, Row
<1>1. ClaimsNoMore(row, row) OBVIOUS
<1>2. \A hash : ClaimsNoMore(row, recordFailure(row, hash)) BY DEF recordFailure, NoRow
<1>3. \A to, toKey : ClaimsNoMore(row, recordMove(row, to, toKey)) BY DEF recordMove
<1>4. ClaimsNoMore(row, clearMove(row)) BY DEF clearMove
<1>5. ClaimsNoMore(row, recordAbsent(row)) BY DEF recordAbsent
<1>6. ClaimsNoMore(row, recordReportedDeletion(row)) BY DEF recordReportedDeletion
<1>7. ClaimsNoMore(row, recordTrashedDeletion(row)) BY DEF recordTrashedDeletion
<1>8. ClaimsNoMore(row, clearAbsent(row)) BY DEF clearAbsent
<1>9. \A action : ClaimsNoMore(row, resolveFailure(row, action)) BY DEF resolveFailure
<1>10. ClaimsNoMore(row, resolveMove(row)) BY DEF resolveMove
<1>11. ClaimsNoMore(row, resolveDeletion(row)) BY DEF resolveDeletion
<1> QED BY <1>1, <1>2, <1>3, <1>4, <1>5, <1>6, <1>7, <1>8, <1>9, <1>10, <1>11

\* Only a copy of ours is rewritten, and what a pass fetches again is either that
\* or something the row says is not on the target.
LEMMA Decisions ==
    ASSUME NEW known \in Row, RowSafe(known), NEW version, NEW coll
    PROVE  /\ classifyKnownItem(known, version, coll) = "rewrite" => WroteIt(known)
           /\ classifyKnownItem(known, version, coll) \in {"retry-failed", "relocated-away"}
                 => ~isOnTarget(known)
           /\ ~Found(known) => ~isOnTarget(known)
<1> USE DEF classifyKnownItem, isOnTarget, WroteIt, Found
<1>1. known.status \in Statuses BY DEF Row
<1> USE <1>1 DEF Statuses
<1>2. CASE known.status = "left_behind" BY <1>2
<1>3. CASE known.status = "tombstoned" BY <1>3
<1>4. CASE known.status = "failed" BY <1>4
<1>5. CASE known.status \notin {"left_behind", "tombstoned", "failed"}
  <2>1. classifyKnownItem(known, version, coll) \in
          {"moved", "skip", "record-version", "leave-adopted", "rewrite"}
    BY <1>5
  <2>2. classifyKnownItem(known, version, coll) = "rewrite" => known.status # "adopted"
    BY <1>5
  <2>3. known.status = "absent" => classifyKnownItem(known, version, coll) # "rewrite"
    BY <1>5 DEF RowSafe
  <2> QED BY <1>5, <2>1, <2>2, <2>3
<1> QED BY <1>2, <1>3, <1>4, <1>5

\* A worker that has let go of its item is safe.
LEMMA OutSafe == \A k, row, bytes, coll : WorkerSafe(k, Out, row, bytes, coll)
  BY DEF WorkerSafe, Out

-----------------------------------------------------------------------------
(* What keeps each part of the invariant.                                  *)

\* A step that claims no new copy and leaves the workers and the target alone.
LEMMA QuietSafe ==
    ASSUME RowsSafe, WorkersSafe, UNCHANGED <<work, here, tgt>>,
           \A k \in Keys : ClaimsNoMore(ledger[k], ledger'[k])
    PROVE  RowsSafe' /\ WorkersSafe'
<1>1. RowsSafe' BY DEF RowsSafe, RowSafe, ClaimsNoMore
<1>2. ASSUME NEW k \in Keys
      PROVE  WorkerSafe(k, work'[k], ledger'[k], tgt'[<<here', k>>], here')
  BY DEF WorkersSafe, WorkerSafe, ClaimsNoMore
<1> QED BY <1>1, <1>2 DEF WorkersSafe

\* One worker goes on; the rows of the others and the bytes at their places stay.
LEMMA OneGoesSafe ==
    ASSUME WorkOK, WorkersOK, WorkersSafe, NEW k \in Keys, here' = here,
           \E w : /\ Goes(k, w)
                  /\ WorkerSafe(k, w, ledger'[k], tgt'[<<here, k>>], here),
           \A j \in Keys : j # k => ledger'[j] = ledger[j],
           \A p \in Places : p # <<here, k>> => tgt'[p] = tgt[p]
    PROVE  WorkersSafe'
<1>1. ASSUME NEW j \in Keys, j # k
      PROVE  WorkerSafe(j, work'[j], ledger'[j], tgt'[<<here', j>>], here')
  <2>1. work'[j] = work[j] /\ ledger'[j] = ledger[j] BY <1>1 DEF WorkOK, Goes
  <2>2. CASE work[j].at = "out" BY <2>1, <2>2 DEF WorkerSafe
  <2>3. CASE work[j].at # "out"
    <3>1. <<here, j>> \in Places BY <2>3 DEF WorkersOK, WorkerOK
    <3>2. tgt'[<<here, j>>] = tgt[<<here, j>>] BY <1>1, <3>1
    <3> QED BY <2>1, <3>2 DEF WorkersSafe
  <2> QED BY <2>2, <2>3
<1>2. WorkerSafe(k, work'[k], ledger'[k], tgt'[<<here', k>>], here')
  BY DEF WorkOK, Goes
<1> QED BY <1>1, <1>2 DEF WorkersSafe

\* No place comes into a worker's reach and the enumeration is as it was.
LEMMA SnapshotKept ==
    ASSUME SnapshotComplete, UNCHANGED <<here, todo, snapped, snap, tgt>>,
           \A k \in Keys : work'[k].at # "out" => work[k].at # "out"
    PROVE  SnapshotComplete'
<1> SUFFICES ASSUME NEW p \in Places, p[1] \in snapped', tgt'[p] # None, Ahead(p)'
             PROVE  p \in snap'
  BY DEF SnapshotComplete
<1>1. p[2] \in Keys OBVIOUS
<1>2. Ahead(p) BY <1>1 DEF Ahead
<1> QED BY <1>2 DEF SnapshotComplete

\* Enumerating what is missing keeps it complete.
LEMMA SnapshotTaken ==
    ASSUME FolderOK, SnapshotComplete, UNCHANGED <<here, todo>>, NEW extra \in SUBSET Places,
           TakeSnapshot(extra),
           \A p \in Places \ extra : tgt'[p] = tgt[p],
           \A k \in Keys : work'[k].at # "out" => work[k].at # "out"
    PROVE  /\ SnapshotComplete'
           /\ Walkable /\ here \in Colls => here \in snapped'
<1>1. Walkable /\ here \in Colls => here \in snapped'
  BY DEF TakeSnapshot, NeedsSnapshot, Scope
<1>2. ASSUME NEW p \in Places, p[1] \in snapped', tgt'[p] # None, Ahead(p)'
      PROVE  p \in snap'
  <2>1. p[2] \in Keys OBVIOUS
  <2>2. Ahead(p) BY <1>2, <2>1 DEF Ahead
  <2>3. CASE p \in extra BY <2>3 DEF TakeSnapshot
  <2>4. CASE p \notin extra /\ p[1] \in snapped
    BY <2>2, <2>4, <1>2 DEF SnapshotComplete, TakeSnapshot
  <2>5. CASE p[1] \notin snapped
    <3>1. NeedsSnapshot /\ p[1] \in Scope BY <1>2, <2>5 DEF TakeSnapshot
    <3>2. p \in Held({q \in Places : q[1] \in Scope \ snapped}) BY <1>2, <2>5, <3>1 DEF Held
    <3> QED BY <3>1, <3>2 DEF TakeSnapshot
  <2> QED BY <2>3, <2>4, <2>5
<1>3. SnapshotComplete' BY <1>2 DEF SnapshotComplete
<1> QED BY <1>1, <1>3

-----------------------------------------------------------------------------
(* The steps.                                                              *)

\* A pass that is over, or that has just begun, has nothing in flight.
LEMMA ForgetSafe ==
    ASSUME RowsSafe, ForgetPass, UNCHANGED ledger
    PROVE  RowsSafe' /\ PassIsFresh' /\ SnapshotComplete' /\ WorkersSafe'
<1>1. RowsSafe' BY DEF RowsSafe
<1>2. PassIsFresh' BY DEF ForgetPass, PassIsFresh, Out
<1>3. SnapshotComplete' BY DEF ForgetPass, SnapshotComplete
<1>4. WorkersSafe' BY OutSafe DEF ForgetPass, WorkersSafe
<1> QED BY <1>1, <1>2, <1>3, <1>4

\* The owner acts between passes only, and the operator's answers claim no copy.
LEMMA EnvironmentSafe ==
    ASSUME Protected, Safe, Environment
    PROVE  RowsSafe' /\ PassIsFresh' /\ SnapshotComplete' /\ WorkersSafe'
<1> USE DEF Safe
<1> WorldOK /\ UsedOK /\ RowsOK /\ FolderOK /\ WorkOK BY TypeParts
<1>c. \A k \in Keys : ClaimsNoMore(ledger[k], ledger[k]) BY StatementsClaimNoMore DEF RowsOK
<1>1. ASSUME NEW k \in Keys, NEW v, SourceChange(k, v) \/ \E p \in Places : SourceRename(k, p)
      PROVE  RowsSafe' /\ PassIsFresh' /\ SnapshotComplete' /\ WorkersSafe'
  <2>1. UNCHANGED <<tgt, ledger, phase, todo, here, snapped, snap, work>>
    BY <1>1 DEF SourceChange, SourceRename
  <2>2. RowsSafe' /\ WorkersSafe' BY <2>1, <1>c, QuietSafe
  <2>3. SnapshotComplete' BY <2>1, SnapshotKept
  <2> QED BY <2>1, <2>2, <2>3 DEF PassIsFresh
<1>2. ASSUME NEW p \in Places, OwnerChange(p)
      PROVE  RowsSafe' /\ PassIsFresh' /\ SnapshotComplete' /\ WorkersSafe'
  <2>1. phase = "idle" BY <1>2 DEF OwnerChange, May, Protected
  <2>2. UNCHANGED <<ledger, phase, todo, here, snapped, snap, work>>
    BY <1>2 DEF OwnerChange, passVars
  <2>3. snapped' = {} /\ \A k \in Keys : work'[k].at = "out" BY <2>1, <2>2 DEF PassIsFresh
  <2>4. RowsSafe' /\ PassIsFresh' BY <2>2 DEF RowsSafe, PassIsFresh
  <2>5. SnapshotComplete' BY <2>3 DEF SnapshotComplete
  <2>6. WorkersSafe' BY <2>3 DEF WorkersSafe, WorkerSafe
  <2> QED BY <2>4, <2>5, <2>6
<1>3. ASSUME NEW k \in Keys,
             AcceptFailure(k) \/ RetryFailure(k) \/ KeepMove(k) \/ KeepDeletion(k)
      PROVE  RowsSafe' /\ PassIsFresh' /\ SnapshotComplete' /\ WorkersSafe'
  <2>1. UNCHANGED <<tgt, phase, todo, here, snapped, snap, work>>
    BY <1>3 DEF AcceptFailure, RetryFailure, KeepMove, KeepDeletion, world, passVars
  <2>2. \E r : ledger' = [ledger EXCEPT ![k] = r] /\ ClaimsNoMore(ledger[k], r)
    <3>1. ledger[k] \in Row BY DEF RowsOK
    <3> QED BY <1>3, <3>1, StatementsClaimNoMore
            DEF AcceptFailure, RetryFailure, KeepMove, KeepDeletion
  <2>3. \A j \in Keys : ClaimsNoMore(ledger[j], ledger'[j]) BY <2>2, <1>c DEF RowsOK
  <2>4. RowsSafe' /\ WorkersSafe' BY <2>1, <2>3, QuietSafe
  <2>5. SnapshotComplete' BY <2>1, SnapshotKept
  <2> QED BY <2>1, <2>4, <2>5 DEF PassIsFresh
<1>4. CASE ClearCursors
  <2>1. UNCHANGED <<tgt, ledger, phase, todo, here, snapped, snap, work>>
    BY <1>4 DEF ClearCursors, passVars
  <2>2. RowsSafe' /\ WorkersSafe' BY <2>1, <1>c, QuietSafe
  <2>3. SnapshotComplete' BY <2>1, SnapshotKept
  <2> QED BY <2>1, <2>2, <2>3 DEF PassIsFresh
<1>5. CASE Crash BY <1>5, ForgetSafe DEF Crash
<1> QED BY <1>1, <1>2, <1>3, <1>4, <1>5 DEF Environment

\* Between the items of a pass.
LEMMA FolderStepsSafe ==
    ASSUME Safe,
           \/ \E folders \in SUBSET Colls : StartPass(folders)
           \/ \E c \in Colls, keysOk \in BOOLEAN : ListFolder(c, keysOk)
           \/ FinishFolder \/ AbortPass
           \/ BeginRemovals \/ BeginDiscarded \/ BeginMoves \/ EndPass
    PROVE  RowsSafe' /\ PassIsFresh' /\ SnapshotComplete' /\ WorkersSafe'
<1> USE DEF Safe
<1> WorldOK /\ UsedOK /\ RowsOK /\ FolderOK /\ WorkOK BY TypeParts
<1>c. \A k \in Keys : ClaimsNoMore(ledger[k], ledger[k]) BY StatementsClaimNoMore DEF RowsOK
<1>1. ASSUME NEW folders \in SUBSET Colls, StartPass(folders)
      PROVE  RowsSafe' /\ PassIsFresh' /\ SnapshotComplete' /\ WorkersSafe'
  <2>1. /\ UNCHANGED <<tgt, ledger, here, snapped, snap, work>>
        /\ phase = "idle" /\ phase' = "folders" /\ todo' = folders
    BY <1>1 DEF StartPass, world
  <2>2. RowsSafe' /\ WorkersSafe' BY <2>1, <1>c, QuietSafe
  <2>3. PassIsFresh' BY <2>1 DEF PassIsFresh
  <2>4. SnapshotComplete' BY <2>1 DEF PassIsFresh, SnapshotComplete
  <2> QED BY <2>2, <2>3, <2>4
<1>2. ASSUME NEW c \in Colls, NEW keysOk \in BOOLEAN, ListFolder(c, keysOk)
      PROVE  RowsSafe' /\ PassIsFresh' /\ SnapshotComplete' /\ WorkersSafe'
  <2>1. /\ UNCHANGED <<tgt, ledger, phase, snapped, snap>>
        /\ phase = "folders" /\ c \in todo /\ here' = c /\ todo' = todo \ {c}
    BY <1>2 DEF ListFolder, world
  <2>2. RowsSafe' /\ PassIsFresh' BY <2>1 DEF RowsSafe, PassIsFresh
  <2>3. SnapshotComplete' BY <2>1 DEF SnapshotComplete, Ahead
  <2>4. ASSUME NEW k \in Keys
        PROVE  WorkerSafe(k, work'[k], ledger'[k], tgt'[<<here', k>>], here')
    <3>1. CASE k \notin Listed(c)
      <4>1. work'[k] = Out BY <1>2, <3>1 DEF ListFolder
      <4> QED BY <4>1, OutSafe
    <3>2. CASE k \in Listed(c)
      <4> DEFINE v == IF k \in Unkeyed THEN None ELSE src[k].bytes
      <4>1. work'[k] = [Out EXCEPT !.at = "todo", !.version = v] BY <1>2, <3>2 DEF ListFolder
      <4> HIDE DEF v
      <4>2. work'[k].at = "todo" /\ work'[k].known = NoRow BY <4>1 DEF Out
      <4> QED BY <4>2 DEF WorkerSafe, RowSafe, NoRow, WroteIt, isOnTarget
    <3> QED BY <3>1, <3>2
  <2>5. WorkersSafe' BY <2>4 DEF WorkersSafe
  <2> QED BY <2>2, <2>3, <2>5
<1>3. CASE FinishFolder
  <2>1. /\ UNCHANGED <<tgt, ledger, phase, todo, snapped, snap, work>>
        /\ here' = None /\ \A k \in Keys : work[k].at = "out"
    BY <1>3 DEF FinishFolder
  <2>2. RowsSafe' BY <2>1 DEF RowsSafe
  <2>3. PassIsFresh' BY <2>1 DEF PassIsFresh, FolderOK
  <2>4. SnapshotComplete' BY <2>1 DEF SnapshotComplete, Ahead
  <2>5. WorkersSafe' BY <2>1 DEF WorkersSafe, WorkerSafe
  <2> QED BY <2>2, <2>3, <2>4, <2>5
<1>4. CASE AbortPass \/ EndPass BY <1>4, ForgetSafe DEF AbortPass, EndPass
<1>5. CASE BeginRemovals \/ BeginDiscarded \/ BeginMoves
  <2>1. /\ UNCHANGED <<tgt, ledger, todo, here, snapped, snap, work>>
        /\ phase' # "idle"
    BY <1>5 DEF BeginRemovals, BeginDiscarded, BeginMoves, Proceed, world
  <2>2. RowsSafe' /\ WorkersSafe' BY <2>1, <1>c, QuietSafe
  <2>3. SnapshotComplete' BY <2>1, SnapshotKept
  <2> QED BY <2>1, <2>2, <2>3 DEF PassIsFresh
<1> QED BY <1>1, <1>2, <1>3, <1>4, <1>5

\* A worker goes on without touching the target, and its row claims no more.
LEMMA StepsSafely ==
    ASSUME Safe, NEW k \in Keys, ItemStep(k, work[k].at), work[k].at # "out",
           UNCHANGED <<tgt, phase, todo, here>>,
           \E r : ledger' = [ledger EXCEPT ![k] = r] /\ RowSafe(r),
           \E w : Goes(k, w) /\ WorkerSafe(k, w, ledger'[k], tgt[<<here, k>>], here)
    PROVE  /\ RowsSafe' /\ PassIsFresh' /\ WorkersSafe'
           /\ \A j \in Keys : work'[j].at # "out" => work[j].at # "out"
<1> USE DEF Safe
<1> WorldOK /\ UsedOK /\ RowsOK /\ FolderOK /\ WorkOK BY TypeParts
<1>1. RowsSafe' BY DEF RowsSafe, RowsOK
<1>2. PassIsFresh' BY DEF PassIsFresh, ItemStep
<1>3. \A j \in Keys : j # k => ledger'[j] = ledger[j] BY DEF RowsOK
<1>4. WorkersSafe' BY <1>3, OneGoesSafe
<1>5. \A j \in Keys : work'[j].at # "out" => work[j].at # "out" BY DEF WorkOK, Goes
<1> QED BY <1>1, <1>2, <1>4, <1>5

\* The steps of a worker before it asks the target anything.
LEMMA TakeSafe ==
    ASSUME Safe, NEW k \in Keys,
           TakeItem(k) \/ SettleItem(k) \/ FetchItem(k) \/ FetchFails(k)
    PROVE  RowsSafe' /\ PassIsFresh' /\ SnapshotComplete' /\ WorkersSafe'
<1> USE DEF Safe
<1> WorldOK /\ UsedOK /\ RowsOK /\ FolderOK /\ WorkOK BY TypeParts
<1> DEFINE w == work[k]
           bytes == tgt[<<here, k>>]
<1>w. w \in Work /\ w.known \in Row BY DEF WorkOK, Work
<1>l. ledger[k] \in Row /\ RowSafe(ledger[k]) BY DEF RowsOK, RowsSafe
<1>s. WorkerSafe(k, w, ledger[k], bytes, here) BY DEF WorkersSafe
<1>u. /\ UNCHANGED <<tgt, phase, todo, here, snapped, snap>>
      /\ ItemStep(k, w.at) /\ w.at # "out"
  BY DEF TakeItem, SettleItem, FetchItem, FetchFails, ItemStep, world
<1>e. ledger = [ledger EXCEPT ![k] = ledger[k]] BY DEF RowsOK
<1> SUFFICES /\ \E r : ledger' = [ledger EXCEPT ![k] = r] /\ RowSafe(r)
             /\ \E v : Goes(k, v) /\ WorkerSafe(k, v, ledger'[k], bytes, here)
  BY <1>u, StepsSafely, SnapshotKept
<1>1. CASE TakeItem(k)
  <2>1. w.at = "todo" /\ ledger' = ledger BY <1>1 DEF TakeItem, ItemStep
  <2>2. CASE k \in Unkeyed
    <3> DEFINE v == [w EXCEPT !.at = "fetch"]
    <3>1. v.at = "fetch" /\ v.known = w.known BY <1>w DEF Work
    <3>2. ~isOnTarget(v.known) /\ RowSafe(v.known) BY <1>s, <2>1, <3>1 DEF WorkerSafe
    <3>3. Goes(k, v) BY <1>1, <2>2 DEF TakeItem
    <3> HIDE DEF v
    <3>4. WorkerSafe(k, v, ledger'[k], bytes, here) BY <2>2, <3>1, <3>2 DEF WorkerSafe
    <3> QED BY <2>1, <3>3, <3>4, <1>e, <1>l
  <2>3. CASE k \notin Unkeyed
    <3> DEFINE at == IF Found(ledger[k]) THEN "settle" ELSE "fetch"
               v == [w EXCEPT !.known = ledger[k], !.at = at]
    <3>1. v.at = at /\ v.known = ledger[k] BY <1>w DEF Work
    <3>2. ~Found(ledger[k]) => ~isOnTarget(ledger[k]) BY DEF Found, isOnTarget
    <3>3. Goes(k, v) BY <1>1, <2>3 DEF TakeItem
    <3> HIDE DEF v
    <3>4. WorkerSafe(k, v, ledger'[k], bytes, here)
      BY <2>1, <3>1, <3>2, <1>l DEF WorkerSafe
    <3> QED BY <2>1, <3>3, <3>4, <1>e, <1>l
  <2> QED BY <2>2, <2>3
<1>2. CASE SettleItem(k)
  <2> DEFINE known == w.known
             row == Reappeared(known, ledger[k])
             back == MovedBack(known, row)
             action == classifyKnownItem(known, w.version, here)
  <2>1. w.at = "settle" BY <1>2 DEF SettleItem, ItemStep
  <2>2. RowSafe(known) /\ (isOnTarget(ledger[k]) => isOnTarget(known))
    BY <1>s, <2>1 DEF WorkerSafe
  <2>3. row \in Row /\ ClaimsNoMore(ledger[k], row)
    BY <1>l, ClaimTypes, StatementsClaimNoMore DEF Reappeared
  <2>4. back \in Row /\ ClaimsNoMore(row, back)
    BY <2>3, ClaimTypes, StatementsClaimNoMore DEF MovedBack
  <2>5. RowSafe(row) /\ RowSafe(back) BY <1>l, <2>3, <2>4 DEF RowSafe, ClaimsNoMore
  <2>6. isOnTarget(back) => isOnTarget(known) BY <2>2, <2>3, <2>4 DEF ClaimsNoMore
  <2>7. \E r : /\ ledger' = [ledger EXCEPT ![k] = r] /\ RowSafe(r)
               /\ action \notin {"moved", "record-version"} => r = back
    <3>1. CASE action = "moved"
      <4>1. ClaimsNoMore(row, recordMove(row, here, None)) BY <2>3, StatementsClaimNoMore
      <4>2. RowSafe(recordMove(row, here, None)) BY <2>5, <4>1 DEF RowSafe, ClaimsNoMore
      <4> HIDE DEF row, back, action, known
      <4> QED BY <1>2, <2>5, <3>1, <4>2 DEF SettleItem, row, known, action
    <3>2. CASE action = "record-version"
      <4> DEFINE r == recordUpdate(back, known.status, w.version, known.contentHash,
                                   known.targetVersion, known.collection)
      <4>1. Found(known) BY <1>s, <2>1 DEF WorkerSafe
      <4>2. r.status = known.status BY <2>4 DEF recordUpdate, Row
      <4>3. known.targetVersion # None => r.targetVersion = known.targetVersion
        BY <2>4 DEF recordUpdate, Row
      <4> HIDE DEF r
      <4>4. RowSafe(r) BY <2>2, <4>1, <4>2, <4>3 DEF RowSafe, WroteIt, Found
      <4> HIDE DEF row, back, action, known
      <4> QED BY <1>2, <3>2, <4>4 DEF SettleItem, row, known, back, action, r
    <3>3. CASE action \notin {"moved", "record-version"}
      <4> HIDE DEF row, back, action, known
      <4> QED BY <1>2, <2>5, <3>3 DEF SettleItem, row, known, back, action
    <3> QED BY <3>1, <3>2, <3>3
  <2>8. \E v : Goes(k, v) /\ WorkerSafe(k, v, ledger'[k], bytes, here)
    <3>1. CASE action \in {"retry-failed", "rewrite", "relocated-away"}
      <4> DEFINE v == [w EXCEPT !.at = "fetch"]
      <4>1. v.at = "fetch" /\ v.known = w.known /\ v.version = w.version BY <1>w DEF Work
      <4>2. ledger'[k] = back BY <2>7, <3>1 DEF RowsOK
      <4>3. isOnTarget(known) => action = "rewrite" BY <1>w, <2>2, <3>1, Decisions
      <4>4. Goes(k, v) BY <1>2, <3>1 DEF SettleItem
      <4> HIDE DEF v, back
      <4>5. WorkerSafe(k, v, ledger'[k], bytes, here)
        BY <2>2, <2>6, <4>1, <4>2, <4>3 DEF WorkerSafe
      <4> QED BY <4>4, <4>5
    <3>2. CASE action \notin {"retry-failed", "rewrite", "relocated-away"}
      <4>1. Goes(k, Out) BY <1>2, <3>2 DEF SettleItem, Done
      <4> QED BY <4>1, OutSafe
    <3> QED BY <3>1, <3>2
  <2> QED BY <2>7, <2>8
<1>3. CASE FetchItem(k)
  <2>1. w.at = "fetch" /\ ledger' = ledger BY <1>3 DEF FetchItem, ItemStep
  <2>2. CASE k \notin Unkeyed
    <3> DEFINE v == [w EXCEPT !.at = "check", !.raw = Bytes(k)]
    <3>1. v.at = "check" /\ v.known = w.known /\ v.version = w.version BY <1>w DEF Work
    <3>2. Goes(k, v) BY <1>3, <2>2 DEF FetchItem
    <3> HIDE DEF v
    <3>3. WorkerSafe(k, v, ledger'[k], bytes, here) BY <1>s, <2>1, <2>2, <3>1 DEF WorkerSafe
    <3> QED BY <2>1, <3>2, <3>3, <1>e, <1>l
  <2>3. CASE k \in Unkeyed
    <3> DEFINE v == [w EXCEPT !.at = "check", !.raw = Bytes(k), !.known = ledger[k]]
    <3>1. v.at = "check" /\ v.known = ledger[k] BY <1>w DEF Work
    <3>2. \/ Goes(k, Out)
          \/ /\ Goes(k, v)
             /\ \/ ~Found(ledger[k])
                \/ classifyKnownItem(ledger[k], None, here) \in {"retry-failed", "relocated-away"}
      BY <1>3, <2>3 DEF FetchItem, LookUpDerived, Done
    <3>3. \/ Goes(k, Out)
          \/ Goes(k, v) /\ ~isOnTarget(ledger[k])
      BY <3>2, <1>l, Decisions
    <3> HIDE DEF v
    <3>4. ~isOnTarget(ledger[k]) => WorkerSafe(k, v, ledger'[k], bytes, here)
      BY <2>1, <3>1, <1>l DEF WorkerSafe
    <3> QED BY <2>1, <3>3, <3>4, <1>e, <1>l, OutSafe
  <2> QED BY <2>2, <2>3
<1>4. CASE FetchFails(k)
  <2>1. ClaimsNoMore(ledger[k], recordFailure(ledger[k], None))
    BY <1>l, StatementsClaimNoMore
  <2>2. RowSafe(recordFailure(ledger[k], None)) BY <1>l, <2>1 DEF RowSafe, ClaimsNoMore
  <2>3. \E r : ledger' = [ledger EXCEPT ![k] = r] /\ RowSafe(r)
    BY <1>4, <1>e, <1>l, <2>2 DEF FetchFails, ItemFails
  <2>4. Goes(k, Out) BY <1>4 DEF FetchFails, ItemFails, Done
  <2> QED BY <2>3, <2>4, OutSafe
<1> QED BY <1>1, <1>2, <1>3, <1>4

\* The steps of a worker that asks the target, writes to it and records the outcome.
LEMMA WriterSafe ==
    ASSUME Protected, Safe, NEW k \in Keys,
           \/ \E answered \in BOOLEAN : CheckOwnership(k, answered) \/ CheckExisting(k, answered)
           \/ \E tagged \in BOOLEAN : PutItem(k, tagged)
           \/ PutFails(k) \/ RecordItem(k) \/ RecordConflict(k)
    PROVE  RowsSafe' /\ PassIsFresh' /\ SnapshotComplete' /\ WorkersSafe'
<1> USE DEF Safe
<1> WorldOK /\ UsedOK /\ RowsOK /\ FolderOK /\ WorkOK BY TypeParts
<1> DEFINE w == work[k]
           bytes == tgt[<<here, k>>]
           rewrites == classifyKnownItem(w.known, w.version, here) = "rewrite"
<1>w. w \in Work /\ w.known \in Row BY DEF WorkOK, Work
<1>l. ledger[k] \in Row /\ RowSafe(ledger[k]) BY DEF RowsOK, RowsSafe
<1>s. WorkerSafe(k, w, ledger[k], bytes, here) BY DEF WorkersSafe
<1>u. /\ UNCHANGED <<phase, todo, here>>
      /\ ItemStep(k, w.at) /\ w.at \in {"check", "put", "record"}
  BY DEF CheckOwnership, CheckExisting, PutItem, PutFails, RecordItem, RecordConflict, ItemStep
<1>p. /\ <<here, k>> \in Places /\ here \in Colls /\ here # None
      /\ w.raw \in Contents /\ w.raw # None
  BY <1>u DEF WorkersOK, WorkerOK, ItemStep, FolderOK
<1>e. ledger = [ledger EXCEPT ![k] = ledger[k]] BY DEF RowsOK
<1>k. RowSafe(w.known) /\ (isOnTarget(ledger[k]) => isOnTarget(w.known))
      /\ (isOnTarget(w.known) => rewrites)
  BY <1>s, <1>u DEF WorkerSafe
<1>r. rewrites => WroteIt(w.known) /\ w.known.targetVersion \in Contents
  BY <1>w, <1>k, Decisions DEF RowSafe, Row
<1>q. Rewrites(k) <=> rewrites BY DEF Rewrites
<1>1. ASSUME NEW answered \in BOOLEAN, CheckOwnership(k, answered)
      PROVE  RowsSafe' /\ PassIsFresh' /\ SnapshotComplete' /\ WorkersSafe'
  <2>1. /\ w.at = "check" /\ rewrites /\ answered
        /\ UNCHANGED <<tgt, ledger, snapped, snap>>
    BY <1>1, <1>q DEF CheckOwnership, ItemStep, Fault, Protected, world
  <2>2. CASE ownershipOf(w.known.targetVersion, bytes) = "changed"
    <3> DEFINE v == [w EXCEPT !.at = "record", !.result = "conflicted"]
    <3>1. /\ v.at = "record" /\ v.result = "conflicted"
          /\ v.known = w.known /\ v.version = w.version
      BY <1>w DEF Work
    <3>2. Goes(k, v) BY <1>1, <2>1, <2>2 DEF CheckOwnership, Place
    <3> HIDE DEF v
    <3>3. WorkerSafe(k, v, ledger'[k], bytes, here) BY <1>k, <2>1, <3>1 DEF WorkerSafe
    <3> QED BY <1>e, <1>l, <1>u, <2>1, <3>2, <3>3, StepsSafely, SnapshotKept
  <2>3. CASE ownershipOf(w.known.targetVersion, bytes) # "changed"
    <3> DEFINE v == [w EXCEPT !.at = "put"]
    <3>1. v.at = "put" /\ v.known = w.known /\ v.version = w.version BY <1>w DEF Work
    <3>2. bytes # Theirs BY <1>r, <2>1, <2>3 DEF ownershipOf
    <3>3. Goes(k, v) BY <1>1, <2>1, <2>3 DEF CheckOwnership, Place
    <3> HIDE DEF v
    <3>4. WorkerSafe(k, v, ledger'[k], bytes, here) BY <1>k, <2>1, <3>1, <3>2 DEF WorkerSafe
    <3> QED BY <1>e, <1>l, <1>u, <2>1, <3>3, <3>4, StepsSafely, SnapshotKept
  <2> QED BY <2>2, <2>3
<1>2. ASSUME NEW answered \in BOOLEAN, CheckExisting(k, answered)
      PROVE  RowsSafe' /\ PassIsFresh' /\ SnapshotComplete' /\ WorkersSafe'
  <2>1. /\ w.at = "check" /\ ~rewrites /\ (answered \/ Walkable)
        /\ UNCHANGED <<tgt, ledger>>
    BY <1>2, <1>q DEF CheckExisting, ItemStep, Fault, Protected
  <2>2. ~isOnTarget(ledger[k]) /\ ~isOnTarget(w.known) BY <1>k, <2>1
  <2>3. TakeSnapshot({}) BY <1>2, <2>2 DEF CheckExisting
  <2>4. CASE Exists(k, answered)
    <3> DEFINE v == [w EXCEPT !.at = "record", !.result = "adopted"]
    <3>1. v.at = "record" /\ v.result = "adopted" /\ v.known = w.known BY <1>w DEF Work
    <3>2. Goes(k, v) BY <1>2, <2>2, <2>4 DEF CheckExisting
    <3> HIDE DEF v
    <3>3. WorkerSafe(k, v, ledger'[k], bytes, here) BY <1>k, <2>1, <2>2, <3>1 DEF WorkerSafe
    <3>4. /\ RowsSafe' /\ PassIsFresh' /\ WorkersSafe'
          /\ \A j \in Keys : work'[j].at # "out" => work[j].at # "out"
      BY <1>e, <1>l, <1>u, <2>1, <3>2, <3>3, StepsSafely
    <3>5. SnapshotComplete' BY <1>u, <2>1, <2>3, <3>4, SnapshotTaken
    <3> QED BY <3>4, <3>5
  <2>5. CASE ~Exists(k, answered)
    <3> DEFINE v == [w EXCEPT !.at = "put"]
    <3>1. v.at = "put" /\ v.known = w.known /\ v.version = w.version BY <1>w DEF Work
    <3>2. Goes(k, v) BY <1>2, <2>2, <2>5 DEF CheckExisting
    <3> HIDE DEF v
    <3>3. \A j \in Keys : work'[j].at # "out" => work[j].at # "out"
      BY <2>1, <3>2 DEF Goes, WorkOK
    <3>4. SnapshotComplete' /\ (Walkable => here \in snapped')
      BY <1>p, <1>u, <2>1, <2>3, <3>3, SnapshotTaken
    <3>5. bytes = None
      <4>1. CASE ~Walkable BY <2>1, <2>5, <4>1 DEF Exists, Place
      <4>2. CASE Walkable
        <5>1. <<here, k>> \notin snap' BY <2>5, <4>2 DEF Exists, Place
        <5>2. work'[k].at # "out" BY <3>1, <3>2 DEF Goes, WorkOK
        <5>3. Ahead(<<here, k>>)' BY <1>u, <5>2 DEF Ahead
        <5> QED BY <1>p, <1>u, <2>1, <3>4, <4>2, <5>1, <5>3 DEF SnapshotComplete
      <4> QED BY <4>1, <4>2
    <3>6. WorkerSafe(k, v, ledger'[k], bytes, here)
      BY <1>k, <2>1, <2>2, <3>1, <3>5 DEF WorkerSafe
    <3> QED BY <1>e, <1>l, <1>u, <2>1, <3>2, <3>4, <3>6, StepsSafely
  <2> QED BY <2>4, <2>5
<1>3. ASSUME NEW tagged \in BOOLEAN, PutItem(k, tagged)
      PROVE  RowsSafe' /\ PassIsFresh' /\ SnapshotComplete' /\ WorkersSafe'
  <2> DEFINE r == IF Rewrites(k) THEN "updated" ELSE "created"
             v == [w EXCEPT !.at = "record", !.result = r, !.targetVersion = Minted(k, tagged)]
  <2>1. w.at = "put" /\ tagged /\ UNCHANGED ledger /\ TakeSnapshot({Place(k)}) /\ Lands(k)
    BY <1>3 DEF PutItem, ItemStep, Fault, Protected
  <2>2. ~Refused(k) BY <1>q, <1>s, <2>1 DEF Refused, WorkerSafe, Place
  <2>3. Minted(k, tagged) # None BY <1>p, <2>1, <2>2 DEF Minted, Protected
  <2>4. /\ v.at = "record" /\ v.known = w.known /\ v.version = w.version
        /\ v.result \in {"created", "updated"} /\ v.targetVersion # None
    BY <1>w, <2>3 DEF Work
  <2>5. Goes(k, v) BY <1>3 DEF PutItem
  <2> HIDE DEF v
  <2>6. WorkerSafe(k, v, ledger'[k], tgt'[<<here, k>>], here)
    <3>1. ledger'[k] = ledger[k] BY <2>1
    <3> HIDE DEF r
    <3> QED BY <1>k, <2>4, <3>1 DEF WorkerSafe
  <2>7. \A p \in Places : p # <<here, k>> => tgt'[p] = tgt[p]
    BY <2>1 DEF Lands, WorldOK, Place
  <2>8. RowsSafe' /\ PassIsFresh' BY <1>u, <2>1 DEF RowsSafe, PassIsFresh, ItemStep
  <2>9. WorkersSafe' BY <1>u, <2>1, <2>5, <2>6, <2>7, OneGoesSafe
  <2>10. \A j \in Keys : work'[j].at # "out" => work[j].at # "out"
    BY <2>1, <2>5 DEF Goes, WorkOK
  <2>11. SnapshotComplete'
    <3>1. {Place(k)} \in SUBSET Places BY <1>p DEF Place
    <3>2. \A p \in Places \ {Place(k)} : tgt'[p] = tgt[p] BY <2>7 DEF Place
    <3> HIDE DEF r
    <3> QED BY <1>u, <2>1, <2>10, <3>1, <3>2, SnapshotTaken
  <2> QED BY <2>8, <2>9, <2>11
<1>4. CASE PutFails(k)
  <2>1. /\ w.at = "put" /\ Goes(k, Out) /\ (Lands(k) \/ tgt' = tgt)
        /\ UNCHANGED <<snapped, snap>>
    BY <1>4 DEF PutFails, ItemStep, ItemFails, Done
  <2>2. ClaimsNoMore(ledger[k], recordFailure(ledger[k], w.raw))
    BY <1>l, StatementsClaimNoMore
  <2>3. RowSafe(recordFailure(ledger[k], w.raw)) BY <1>l, <2>2 DEF RowSafe, ClaimsNoMore
  <2>4. \E r : ledger' = [ledger EXCEPT ![k] = r] /\ RowSafe(r)
    BY <1>4, <1>e, <1>l, <2>3 DEF PutFails, ItemFails
  <2>5. RowsSafe' BY <2>4 DEF RowsSafe, RowsOK
  <2>6. PassIsFresh' BY <1>u DEF PassIsFresh, ItemStep
  <2>7. \A p \in Places : p # <<here, k>> => tgt'[p] = tgt[p]
    BY <2>1 DEF Lands, WorldOK, Place
  <2>8. \A j \in Keys : j # k => ledger'[j] = ledger[j] BY <2>4 DEF RowsOK
  <2>9. WorkersSafe' BY <1>u, <2>1, <2>7, <2>8, OutSafe, OneGoesSafe
  <2>10. ASSUME NEW p \in Places, p[1] \in snapped', tgt'[p] # None, Ahead(p)'
         PROVE  p \in snap'
    <3>1. p[2] \in Keys /\ p = <<p[1], p[2]>> OBVIOUS
    <3>2. p # <<here, k>>
      <4>1. work'[k].at = "out" BY <2>1 DEF Goes, WorkOK, Out
      <4> QED BY <1>u, <2>10, <4>1 DEF Ahead, PassIsFresh
    <3>3. p[2] # k => work'[p[2]] = work[p[2]] BY <2>1, <3>1 DEF Goes, WorkOK
    <3>4. Ahead(p) BY <1>u, <2>10, <3>1, <3>2, <3>3 DEF Ahead
    <3> QED BY <2>1, <2>7, <2>10, <3>2, <3>4 DEF SnapshotComplete
  <2>11. SnapshotComplete' BY <2>10 DEF SnapshotComplete
  <2> QED BY <2>5, <2>6, <2>9, <2>11
<1>5. CASE RecordItem(k)
  <2>1. /\ w.at = "record" /\ w.result # "conflicted" /\ Goes(k, Out)
        /\ UNCHANGED <<tgt, snapped, snap>>
    BY <1>5 DEF RecordItem, ItemStep, Done, world
  <2>2. \/ w.result = "adopted"
        \/ w.result \in {"created", "updated"} /\ w.targetVersion # None
    BY <1>s, <2>1 DEF WorkerSafe
  <2> DEFINE status == CASE w.result = "created" -> "copied"
                         [] w.result = "adopted" -> "adopted"
                         [] OTHER -> "updated"
             written == recordUpdate(ledger[k], status, w.version, w.raw, w.targetVersion, here)
             inserted == recordIfAbsent(ledger[k], status, w.version, w.raw, w.targetVersion, here)
  <2>3. /\ status \in {"copied", "adopted", "updated"}
        /\ status # "adopted" => w.targetVersion # None
    BY <2>2
  <2> HIDE DEF status
  <2>4. RowSafe(written)
    <3>1. written.status = status /\ (w.targetVersion # None => written.targetVersion = w.targetVersion)
      BY <1>l DEF recordUpdate, Row
    <3> HIDE DEF written
    <3> QED BY <2>3, <3>1 DEF RowSafe, WroteIt, Found
  <2>5. RowSafe(inserted)
    <3>1. CASE Found(ledger[k]) BY <1>l, <3>1 DEF recordIfAbsent
    <3>2. CASE ~Found(ledger[k])
      <4>1. inserted.status = status /\ inserted.targetVersion = w.targetVersion
        BY <3>2 DEF recordIfAbsent, NoRow
      <4> HIDE DEF inserted
      <4> QED BY <2>3, <4>1 DEF RowSafe, WroteIt, Found
    <3> QED BY <3>1, <3>2
  <2>6. \E r : ledger' = [ledger EXCEPT ![k] = r] /\ RowSafe(r)
    <3>1. \/ ledger' = [ledger EXCEPT ![k] = written]
          \/ ledger' = [ledger EXCEPT ![k] = inserted]
      BY <1>5 DEF RecordItem, status
    <3> QED BY <2>4, <2>5, <3>1
  <2> QED BY <1>u, <2>1, <2>6, OutSafe, StepsSafely, SnapshotKept
<1>6. CASE RecordConflict(k)
  <2>1. Goes(k, Out) /\ UNCHANGED <<tgt, snapped, snap>>
    BY <1>6 DEF RecordConflict, Done, world
  <2>2. ASSUME NEW version, NEW hash, NEW etag, NEW coll
        PROVE  RowSafe(recordUpdate(ledger[k], "adopted", version, hash, etag, coll))
    <3>1. recordUpdate(ledger[k], "adopted", version, hash, etag, coll).status = "adopted"
      BY <1>l DEF recordUpdate, Row
    <3> QED BY <3>1 DEF RowSafe, WroteIt, Found
  <2>3. \E r : ledger' = [ledger EXCEPT ![k] = r] /\ RowSafe(r)
    BY <1>6, <2>2 DEF RecordConflict
  <2> QED BY <1>u, <2>1, <2>3, OutSafe, StepsSafely, SnapshotKept
<1> QED BY <1>1, <1>2, <1>3, <1>4, <1>5, <1>6

\* The detectors run between the folders and the end; they claim no copy.
LEMMA DetectorSafe ==
    ASSUME Safe, NEW k \in Keys,
           resolveReportedRemoval(k) \/ resolveDiscardedItem(k) \/ detectPathKeyedMove(k)
    PROVE  RowsSafe' /\ PassIsFresh' /\ SnapshotComplete' /\ WorkersSafe'
<1> USE DEF Safe
<1> WorldOK /\ UsedOK /\ RowsOK /\ FolderOK /\ WorkOK BY TypeParts
<1>l. ledger[k] \in Row BY DEF RowsOK
<1>c. \A j \in Keys : ClaimsNoMore(ledger[j], ledger[j]) BY StatementsClaimNoMore DEF RowsOK
<1>1. UNCHANGED <<tgt, phase, todo, here, snapped, snap, work>>
  BY DEF resolveReportedRemoval, resolveDiscardedItem, detectPathKeyedMove, Inspects, world
<1>2. \/ UNCHANGED ledger
      \/ \E r : ledger' = [ledger EXCEPT ![k] = r] /\ ClaimsNoMore(ledger[k], r)
  <2>1. CASE resolveReportedRemoval(k)
    BY <2>1, <1>l, StatementsClaimNoMore DEF resolveReportedRemoval
  <2>2. CASE resolveDiscardedItem(k)
    BY <2>2, <1>l, StatementsClaimNoMore DEF resolveDiscardedItem
  <2>3. CASE StillThere(k)
    <3>1. clearMove(ledger[k]) \in Row BY <1>l, ClaimTypes
    <3>2. /\ ClaimsNoMore(ledger[k], clearMove(ledger[k]))
          /\ ClaimsNoMore(ledger[k], clearAbsent(ledger[k]))
          /\ ClaimsNoMore(clearMove(ledger[k]), clearAbsent(clearMove(ledger[k])))
      BY <1>l, <3>1, StatementsClaimNoMore
    <3>3. ClaimsNoMore(ledger[k], clearAbsent(clearMove(ledger[k])))
      BY <3>2 DEF ClaimsNoMore
    <3> QED BY <2>3, <1>l, <1>c, <3>2, <3>3 DEF StillThere
  <2>4. CASE MovedAway(k) BY <2>4, <1>l, StatementsClaimNoMore DEF MovedAway
  <2>5. CASE Vanished(k) BY <2>5, <1>l, StatementsClaimNoMore DEF Vanished
  <2> QED BY <2>1, <2>2, <2>3, <2>4, <2>5 DEF detectPathKeyedMove
<1>3. \A j \in Keys : ClaimsNoMore(ledger[j], ledger'[j]) BY <1>2, <1>c DEF RowsOK
<1>4. RowsSafe' /\ WorkersSafe' BY <1>1, <1>3, QuietSafe
<1>5. SnapshotComplete' BY <1>1, SnapshotKept
<1> QED BY <1>1, <1>4, <1>5 DEF PassIsFresh

\* Every step keeps the invariant.
LEMMA SafeNext ==
    ASSUME Protected, Safe, [Next]_vars
    PROVE  Safe'
<1>1. TypeOK' /\ WorkersOK' BY SyncTypeNext DEF Safe
<1>2. RowsSafe' /\ PassIsFresh' /\ SnapshotComplete' /\ WorkersSafe'
  <2>1. CASE Environment BY <2>1, EnvironmentSafe
  <2>2. ASSUME NEW k \in Keys, ItemSteps(k)
        PROVE  RowsSafe' /\ PassIsFresh' /\ SnapshotComplete' /\ WorkersSafe'
    BY <2>2, TakeSafe, WriterSafe, DetectorSafe DEF ItemSteps
  <2>3. CASE PassSteps BY <2>2, <2>3, FolderStepsSafe DEF PassSteps
  <2>4. CASE UNCHANGED vars
    <3>1. UNCHANGED <<ledger, tgt, phase, todo, here, snapped, snap, work>>
      BY <2>4 DEF vars, passVars
    <3> QED BY <3>1 DEF Safe, RowsSafe, PassIsFresh, SnapshotComplete, Ahead, WorkersSafe
  <2> QED BY <2>1, <2>3, <2>4 DEF Next
<1> QED BY <1>1, <1>2 DEF Safe

\* It holds at the start, where there is no row and no pass.
LEMMA SafeStarts == Protected /\ Init => Safe
<1> SUFFICES ASSUME Protected, Init PROVE Safe
  OBVIOUS
<1>1. TypeOK /\ WorkersOK BY SyncTypeInit, OutOK DEF Init, NoPass, WorkersOK
<1>2. ledger = [k \in Keys |-> NoRow] BY DEF Init, Protected
<1>3. RowSafe(NoRow) BY DEF RowSafe, NoRow, WroteIt, Found
<1>4. RowsSafe BY <1>2, <1>3 DEF RowsSafe
<1>5. PassIsFresh BY DEF Init, NoPass, PassIsFresh, Out
<1>6. SnapshotComplete BY DEF Init, NoPass, SnapshotComplete
<1>7. WorkersSafe BY OutSafe DEF Init, NoPass, WorkersSafe
<1> QED BY <1>1, <1>4, <1>5, <1>6, <1>7 DEF Safe

\* What a step does to bytes this tool did not write: nothing, unless the owner took it.
LEMMA StepSparesTheirs ==
    ASSUME Safe, [Next]_vars, NEW p \in Places, tgt[p] = Theirs, tgt'[p] # Theirs
    PROVE  used'.owner # used.owner
<1> USE DEF Safe
<1> WorldOK /\ UsedOK /\ RowsOK /\ FolderOK /\ WorkOK BY TypeParts
<1>1. ASSUME NEW q \in Places, OwnerChange(q) PROVE used'.owner # used.owner
  BY <1>1 DEF OwnerChange, May, UsedOK
<1>2. ASSUME NEW k \in Keys, work[k].at = "put", here # None, Lands(k) PROVE FALSE
  <2>1. <<here, k>> \in Places BY <1>2 DEF WorkersOK, WorkerOK
  <2>2. ~Refused(k) /\ p = <<here, k>> BY <1>2, <2>1 DEF Lands, Place, WorldOK
  <2>3. WorkerSafe(k, work[k], ledger[k], tgt[p], here) BY <2>2 DEF WorkersSafe
  <2> QED BY <1>2, <2>2, <2>3 DEF WorkerSafe
<1>3. ASSUME NEW k \in Keys, ItemSteps(k) PROVE FALSE
  <2>1. UNCHANGED tgt \/ (work[k].at = "put" /\ here # None /\ Lands(k))
    BY <1>3 DEF ItemSteps, TakeItem, SettleItem, FetchItem, FetchFails, CheckOwnership,
                CheckExisting, PutItem, PutFails, RecordItem, RecordConflict, ItemStep, world,
                resolveReportedRemoval, resolveDiscardedItem, detectPathKeyedMove, Inspects
  <2> QED BY <1>2, <2>1
<1>4. ASSUME NEW q \in Places, Environment, ~\E o \in Places : OwnerChange(o) PROVE UNCHANGED tgt
  BY <1>4 DEF Environment, SourceChange, SourceRename, AcceptFailure, RetryFailure, KeepMove,
              KeepDeletion, ClearCursors, Crash, world
<1>5. ASSUME PassSteps, ~\E k \in Keys : ItemSteps(k) PROVE UNCHANGED tgt
  BY <1>5 DEF PassSteps, StartPass, ListFolder, FinishFolder, AbortPass, BeginRemovals,
              BeginDiscarded, BeginMoves, Proceed, EndPass, world
<1> QED BY <1>1, <1>3, <1>4, <1>5 DEF Next, vars

\* The inductive invariant holds in every reachable state.
LEMMA SafeAlways ==
    ASSUME Protected
    PROVE  Spec => []Safe
  BY SafeStarts, SafeNext, PTL DEF Spec

\* A pass never replaces or removes bytes on the target that this tool did not
\* write, for any number of items, folders and workers, whatever the source does
\* meanwhile and whichever requests fail or workers die, under Protected.
THEOREM PassesSpareTheirs ==
    ASSUME Protected
    PROVE  Spec => NeverOverwritesTheirs
<1>1. Safe /\ [Next]_vars =>
        [\A p \in Places : tgt[p] = Theirs /\ tgt'[p] # Theirs => used'.owner # used.owner]_vars
  BY StepSparesTheirs
<1> QED BY <1>1, SafeAlways, PTL DEF Spec, NeverOverwritesTheirs

-----------------------------------------------------------------------------
(* What a stored cursor may hide.                                          *)

\* Every item has a key of its own, and the operator answers between passes: a
\* RETRY that clears the cursors under a running pass, and a message whose fetch
\* failed before it had a key, are the two known ways around this.
Undisturbed == Unkeyed = {} /\ "operator" \notin DuringPass

\* The source lists all keys of a folder, and all folders.
FullyListed == HasKeyListing /\ {"list_keys", "list_folders"} \cap Faults = {}

-----------------------------------------------------------------------------
(* The inductive invariant.                                                *)

\* Handled, without the move to another collection that an item keyed by its
\* path cannot make.
Accounted(row, item) ==
    \/ row.status \in {"adopted", "left_behind", "tombstoned"}
    \/ row.status = "failed" /\ row.attemptCount >= MAX_ITEM_ATTEMPTS
    \/ WroteIt(row) /\ row.sourceVersion = item.bytes
    \/ WroteIt(row) /\ row.movedToCollection = item.coll /\ ~PathKeyed

\* The cursors are not being cleared under a pass, workers have a folder, and
\* only paths are searched for moves.
PassShape ==
    /\ phase # "idle" => ~clearing
    /\ phase # "folders" => here = None
    /\ here = None => \A k \in Keys : work[k].at = "out"
    /\ phase = "moves" /\ queue # {} => PathKeyed

\* The collection on a row is one its item can be in.
RowPlaced(k, row) == row.collection # None => <<row.collection, k>> \in Places

RowsPlaced == \A k \in Keys : RowPlaced(k, ledger[k])

Writing == {"fetch", "check", "put", "record"}

\* Nobody else writes the row a worker has read.
Abreast(w, row) ==
    /\ w.at = "settle" => Found(row) /\ row = w.known
    /\ w.at \in Writing => /\ ~Found(w.known) => ~Found(row)
                           /\ w.known.collection = row.collection

WorkersAbreast == \A k \in Keys : Abreast(work[k], ledger[k])

\* The source holds the item as it was when its folder was listed.
Current(k) == Present(k) /\ src[k].coll = here /\ <<here, k>> \notin since

\* No cursor hides an item that is being worked on.
WorkersUncovered == \A k \in Keys : work[k].at # "out" => ~CoveredByCursor(k)

\* An item listed at its present version is worked on at that version, or is
\* accounted for, or keeps the cursor from being stored.
CurrentAccounted ==
    \A k \in Keys : Current(k) =>
        IF work[k].at = "out" THEN Accounted(ledger[k], src[k]) \/ retryablePending
        ELSE work[k].version = src[k].bytes

HiddenAccounted ==
    ~clearing => \A k \in Keys : CoveredByCursor(k) => Accounted(ledger[k], src[k])

CursorParts ==
    /\ PassShape /\ RowsPlaced
    /\ WorkersAbreast /\ WorkersUncovered /\ CurrentAccounted /\ HiddenAccounted

CursorInv == TypeOK /\ WorkersOK /\ CursorParts

-----------------------------------------------------------------------------
(* Facts about rows.                                                       *)

\* What is known of the copy, as against what is claimed of its absence or move.
SameCopy(old, new) ==
    /\ new.status = old.status /\ new.attemptCount = old.attemptCount
    /\ new.sourceVersion = old.sourceVersion /\ new.collection = old.collection

\* Statements about absence and moves leave the copy alone.
LEMMA ClaimsKeepCopy ==
    ASSUME NEW row \in Row
    PROVE  /\ \A to, toKey : SameCopy(row, recordMove(row, to, toKey))
           /\ SameCopy(row, clearMove(row))
           /\ SameCopy(row, recordAbsent(row))
           /\ SameCopy(row, recordReportedDeletion(row))
           /\ SameCopy(row, recordTrashedDeletion(row))
           /\ SameCopy(row, clearAbsent(row))
           /\ SameCopy(row, resolveMove(row))
           /\ SameCopy(row, resolveDeletion(row))
<1> USE DEF SameCopy, Row
<1>1. \A to, toKey : SameCopy(row, recordMove(row, to, toKey)) BY DEF recordMove
<1>2. SameCopy(row, clearMove(row)) BY DEF clearMove
<1>3. SameCopy(row, recordAbsent(row)) BY DEF recordAbsent
<1>4. SameCopy(row, recordReportedDeletion(row)) BY DEF recordReportedDeletion
<1>5. SameCopy(row, recordTrashedDeletion(row)) BY DEF recordTrashedDeletion
<1>6. SameCopy(row, clearAbsent(row)) BY DEF clearAbsent
<1>7. SameCopy(row, resolveMove(row)) BY DEF resolveMove
<1>8. SameCopy(row, resolveDeletion(row)) BY DEF resolveDeletion
<1> QED BY <1>1, <1>2, <1>3, <1>4, <1>5, <1>6, <1>7, <1>8

\* The row of an item found again: the same copy, its claims withdrawn.
LEMMA ReturnKeepsCopy ==
    ASSUME NEW known \in Row, NEW row \in Row
    PROVE  LET again == Reappeared(known, row) back == MovedBack(known, again)
           IN  /\ again \in Row /\ SameCopy(row, again)
               /\ again.movedToCollection = row.movedToCollection
               /\ back \in Row /\ SameCopy(row, back)
<1> DEFINE again == Reappeared(known, row)
           back == MovedBack(known, again)
<1>1. again \in Row /\ SameCopy(row, again) /\ again.movedToCollection = row.movedToCollection
  <2>1. clearAbsent(row).movedToCollection = row.movedToCollection BY DEF clearAbsent, Row
  <2>2. SameCopy(row, row) BY DEF SameCopy
  <2> QED BY <2>1, <2>2, ClaimTypes, ClaimsKeepCopy DEF Reappeared
<1> HIDE DEF again
<1>2. back \in Row /\ SameCopy(again, back)
  <2>1. SameCopy(again, again) BY DEF SameCopy
  <2> QED BY <1>1, <2>1, ClaimTypes, ClaimsKeepCopy DEF MovedBack
<1> HIDE DEF back
<1>3. SameCopy(row, back) BY <1>1, <1>2 DEF SameCopy
<1> QED BY <1>1, <1>2, <1>3 DEF again, back

\* An item keyed by its path has one place.
LEMMA OnePlace ==
    ASSUME PathKeyed, NEW k, NEW c, NEW d, <<c, k>> \in Places, <<d, k>> \in Places
    PROVE  c = d
<1>1. \A p, q \in Places : p[2] = q[2] => p = q OBVIOUS
<1>2. <<c, k>>[2] = <<d, k>>[2] OBVIOUS
<1>3. <<c, k>> = <<d, k>> BY <1>1, <1>2
<1> QED BY <1>3

\* The place of an item the source holds.
LEMMA PresentPlace ==
    ASSUME WorldOK, NEW k \in Keys, Present(k)
    PROVE  /\ <<src[k].coll, k>> \in Places /\ src[k].coll \in Colls /\ src[k].coll # None
           /\ src[k].bytes \in Contents /\ src[k].bytes # None
<1>1. <<src[k].coll, k>> \in Places /\ src[k].bytes \in Contents BY DEF WorldOK, PlaceOf
<1>2. <<src[k].coll, k>> \in Colls \X Keys BY <1>1
<1>3. src[k].coll \in Colls BY <1>2
<1> QED BY <1>1, <1>3

\* An account of an item stands as long as the copy and its move do.
LEMMA AccountKept ==
    ASSUME NEW old, NEW new, NEW item, SameCopy(old, new), Accounted(old, item),
           PathKeyed \/ new.movedToCollection = old.movedToCollection
    PROVE  Accounted(new, item)
  BY DEF SameCopy, Accounted, WroteIt

-----------------------------------------------------------------------------
(* What keeps the invariant.                                               *)

\* A step that leaves the workers, the source and the cursors alone, and rows
\* accounted for as they were.
LEMMA QuietCursor ==
    ASSUME CursorInv, UNCHANGED <<src, cursor, fresh, here, since, work, clearing>>,
           PassShape', retryablePending => retryablePending',
           \A k \in Keys : /\ RowPlaced(k, ledger'[k])
                           /\ Abreast(work[k], ledger'[k])
                           /\ Accounted(ledger[k], src[k]) => Accounted(ledger'[k], src[k])
    PROVE  CursorParts'
<1> USE DEF CursorInv, CursorParts
<1>1. \A k \in Keys : /\ Current(k)' <=> Current(k)
                      /\ CoveredByCursor(k)' <=> CoveredByCursor(k)
  BY DEF Current, CoveredByCursor, Present, PlaceOf
<1>2. RowsPlaced' BY DEF RowsPlaced
<1>3. WorkersAbreast' BY DEF WorkersAbreast
<1>4. WorkersUncovered' BY <1>1 DEF WorkersUncovered
<1>5. CurrentAccounted' BY <1>1 DEF CurrentAccounted
<1>6. HiddenAccounted' BY <1>1 DEF HiddenAccounted
<1> QED BY <1>2, <1>3, <1>4, <1>5, <1>6

\* One worker goes on and writes its row, with everything else as it was.
LEMMA OneGoesCurrent ==
    ASSUME CursorInv, NEW k \in Keys, work[k].at # "out",
           UNCHANGED <<src, cursor, fresh, here, since, clearing, phase, queue>>,
           retryablePending => retryablePending',
           NEW w, Goes(k, w), NEW r, ledger' = [ledger EXCEPT ![k] = r],
           Abreast(w, r), RowPlaced(k, r),
           w.at # "out" => w.version = work[k].version,
           w.at = "out" /\ Current(k) => Accounted(r, src[k]) \/ retryablePending'
    PROVE  CursorParts'
<1> USE DEF CursorInv, CursorParts
<1> WorldOK /\ UsedOK /\ RowsOK /\ FolderOK /\ WorkOK BY TypeParts
<1>1. \A j \in Keys : /\ Current(j)' <=> Current(j)
                      /\ CoveredByCursor(j)' <=> CoveredByCursor(j)
  BY DEF Current, CoveredByCursor, Present, PlaceOf
<1>2. /\ work'[k] = w /\ ledger'[k] = r
      /\ \A j \in Keys : j # k => work'[j] = work[j] /\ ledger'[j] = ledger[j]
  BY DEF Goes, WorkOK, RowsOK
<1>3. ~CoveredByCursor(k) BY DEF WorkersUncovered
<1>4. PassShape' BY DEF PassShape
<1>5. RowsPlaced' BY <1>2 DEF RowsPlaced
<1>6. WorkersAbreast' BY <1>2 DEF WorkersAbreast
<1>7. WorkersUncovered' BY <1>1, <1>2, <1>3 DEF WorkersUncovered
<1>8. CurrentAccounted'
  <2>1. ASSUME NEW j \in Keys, j # k, Current(j)
        PROVE  IF work'[j].at = "out" THEN Accounted(ledger'[j], src[j]) \/ retryablePending'
               ELSE work'[j].version = src[j].bytes
    BY <1>2, <2>1 DEF CurrentAccounted
  <2>2. ASSUME Current(k)
        PROVE  IF work'[k].at = "out" THEN Accounted(ledger'[k], src[k]) \/ retryablePending'
               ELSE work'[k].version = src[k].bytes
    BY <1>2, <2>2 DEF CurrentAccounted
  <2> QED BY <1>1, <2>1, <2>2 DEF CurrentAccounted
<1>9. HiddenAccounted' BY <1>1, <1>2, <1>3 DEF HiddenAccounted
<1> QED BY <1>4, <1>5, <1>6, <1>7, <1>8, <1>9

\* The source changes: what changed is newer than every cursor and listing.
LEMMA SourceMoves ==
    ASSUME CursorInv, UNCHANGED <<ledger, cursor, here, work, clearing, phase, queue,
                                  retryablePending>>,
           fresh \subseteq fresh', since \subseteq since',
           \A k \in Keys : \/ src'[k] = src[k]
                           \/ /\ src'[k].coll \in cursor => <<src'[k].coll, k>> \in fresh'
                              /\ src'[k].coll = here => <<src'[k].coll, k>> \in since'
                           \/ src'[k] = Gone
    PROVE  CursorParts'
<1> USE DEF CursorInv, CursorParts
<1>1. \A k \in Keys : /\ Current(k)' => Current(k) /\ src'[k] = src[k]
                      /\ CoveredByCursor(k)' => CoveredByCursor(k) /\ src'[k] = src[k]
  BY DEF Current, CoveredByCursor, Present, PlaceOf
<1>2. PassShape' /\ RowsPlaced' /\ WorkersAbreast' BY DEF PassShape, RowsPlaced, WorkersAbreast
<1>3. WorkersUncovered' BY <1>1 DEF WorkersUncovered
<1>4. CurrentAccounted' BY <1>1 DEF CurrentAccounted
<1>5. HiddenAccounted' BY <1>1 DEF HiddenAccounted
<1> QED BY <1>2, <1>3, <1>4, <1>5

\* A pass that is over leaves the cursors and the rows as they are.
LEMMA ForgetCursor ==
    ASSUME CursorInv, ForgetPass, UNCHANGED <<world, ledger>>
    PROVE  CursorParts'
<1> USE DEF CursorInv, CursorParts
<1> WorldOK BY TypeParts
<1>1. /\ here' = None /\ phase' = "idle" /\ queue' = {} /\ work' = [k \in Keys |-> Out]
      /\ UNCHANGED <<src, cursor, fresh, clearing>>
  BY DEF ForgetPass, world
<1>2. \A k \in Keys : work'[k].at = "out" BY <1>1 DEF Out
<1>3. \A k \in Keys : ~Current(k)'
  BY <1>1, PresentPlace DEF Current, Present
<1>4. \A k \in Keys : CoveredByCursor(k)' <=> CoveredByCursor(k)
  BY <1>1 DEF CoveredByCursor, Present, PlaceOf
<1>5. PassShape' BY <1>1, <1>2 DEF PassShape
<1>6. RowsPlaced' BY DEF RowsPlaced
<1>7. WorkersAbreast' BY <1>2 DEF WorkersAbreast, Abreast, Writing
<1>8. WorkersUncovered' BY <1>2 DEF WorkersUncovered
<1>9. CurrentAccounted' BY <1>3 DEF CurrentAccounted
<1>10. HiddenAccounted' BY <1>1, <1>4 DEF HiddenAccounted
<1> QED BY <1>5, <1>6, <1>7, <1>8, <1>9, <1>10

-----------------------------------------------------------------------------
(* The steps.                                                              *)

\* The source may act at any time, the operator between passes.
LEMMA EnvironmentCursor ==
    ASSUME Undisturbed, CursorInv, Environment
    PROVE  CursorParts'
<1> USE DEF CursorInv, CursorParts
<1> WorldOK /\ UsedOK /\ RowsOK /\ FolderOK /\ WorkOK BY TypeParts
<1>1. ASSUME NEW k \in Keys, NEW v, SourceChange(k, v) PROVE CursorParts'
  <2>1. /\ UNCHANGED <<ledger, cursor, here, work, clearing, phase, queue, retryablePending>>
        /\ src' = [src EXCEPT ![k] = v]
    BY <1>1 DEF SourceChange
  <2>2. /\ fresh' = fresh \cup {p \in PlacesHeld(k, src[k]) \cup PlacesHeld(k, v) : p[1] \in cursor}
        /\ since' = since \cup {p \in PlacesHeld(k, src[k]) \cup PlacesHeld(k, v) : p[1] = here}
    BY <1>1 DEF SourceChange, MarkChanged
  <2>3. v # Gone => <<v.coll, k>> \in PlacesHeld(k, v) BY DEF PlacesHeld
  <2>4. src'[k] = v /\ \A j \in Keys : j # k => src'[j] = src[j] BY <2>1 DEF WorldOK
  <2>5. /\ fresh \subseteq fresh' /\ since \subseteq since'
        /\ v # Gone => /\ v.coll \in cursor => <<v.coll, k>> \in fresh'
                       /\ v.coll = here => <<v.coll, k>> \in since'
    BY <2>2, <2>3
  <2> QED BY <2>1, <2>4, <2>5, SourceMoves
<1>2. ASSUME NEW k \in Keys, NEW p \in Places, SourceRename(k, p) PROVE CursorParts'
  <2>0. p[1] \in Colls /\ p[2] \in Keys /\ p = <<p[1], p[2]>> OBVIOUS
  <2>1. /\ UNCHANGED <<ledger, cursor, here, work, clearing, phase, queue, retryablePending>>
        /\ src' = [src EXCEPT ![k] = Gone, ![p[2]] = [coll |-> p[1], bytes |-> src[k].bytes]]
        /\ p[2] # k
    BY <1>2 DEF SourceRename
  <2>2. /\ fresh' = fresh \cup {q \in {PlaceOf(k), p} : q[1] \in cursor}
        /\ since' = since \cup {q \in {PlaceOf(k), p} : q[1] = here}
    BY <1>2 DEF SourceRename, MarkChanged
  <2>3. /\ fresh \subseteq fresh' /\ since \subseteq since'
        /\ p[1] \in cursor => p \in fresh'
        /\ p[1] = here => p \in since'
    BY <2>2
  <2>4. /\ src'[k] = Gone /\ src'[p[2]].coll = p[1]
        /\ \A j \in Keys : j \notin {k, p[2]} => src'[j] = src[j]
    BY <2>0, <2>1 DEF WorldOK
  <2> QED BY <2>0, <2>1, <2>3, <2>4, SourceMoves
<1>3. ASSUME NEW p \in Places, OwnerChange(p) PROVE CursorParts'
  <2>1. UNCHANGED <<src, cursor, fresh, here, since, work, clearing, ledger, phase, queue,
                    retryablePending>>
    BY <1>3 DEF OwnerChange, passVars
  <2>2. PassShape' BY <2>1 DEF PassShape
  <2> QED BY <2>1, <2>2, QuietCursor DEF RowsPlaced, WorkersAbreast
<1>4. ASSUME NEW k \in Keys, AcceptFailure(k) \/ KeepMove(k) \/ KeepDeletion(k)
      PROVE  CursorParts'
  <2>1. /\ UNCHANGED <<src, cursor, fresh, here, since, work, clearing, phase, queue,
                       retryablePending>>
        /\ phase = "idle"
    BY <1>4 DEF AcceptFailure, KeepMove, KeepDeletion, May, Undisturbed, world, passVars
  <2>2. PassShape' BY <2>1 DEF PassShape
  <2>l. ledger[k] \in Row BY DEF RowsOK
  <2>3. \E r : /\ ledger' = [ledger EXCEPT ![k] = r]
               /\ r.collection = ledger[k].collection
               /\ Accounted(ledger[k], src[k]) => Accounted(r, src[k])
    <3>1. CASE AcceptFailure(k)
      <4> DEFINE r == resolveFailure(ledger[k], "accept")
      <4>1. ledger' = [ledger EXCEPT ![k] = r] /\ ledger[k].status = "failed"
        BY <3>1 DEF AcceptFailure
      <4>2. r.status = "left_behind" /\ r.collection = ledger[k].collection
        BY <2>l, <4>1 DEF resolveFailure, Row
      <4> HIDE DEF r
      <4> QED BY <4>1, <4>2 DEF Accounted
    <3>2. CASE KeepMove(k)
      <4> DEFINE r == resolveMove(ledger[k])
      <4>1. ledger' = [ledger EXCEPT ![k] = r] BY <3>2 DEF KeepMove
      <4>2. r.movedToCollection = ledger[k].movedToCollection BY <2>l DEF resolveMove, Row
      <4>3. SameCopy(ledger[k], r) BY <2>l, ClaimsKeepCopy
      <4> HIDE DEF r
      <4> QED BY <4>1, <4>2, <4>3, AccountKept DEF SameCopy
    <3>3. CASE KeepDeletion(k)
      <4> DEFINE r == resolveDeletion(ledger[k])
      <4>1. ledger' = [ledger EXCEPT ![k] = r] BY <3>3 DEF KeepDeletion
      <4>2. r.movedToCollection = ledger[k].movedToCollection BY <2>l DEF resolveDeletion, Row
      <4>3. SameCopy(ledger[k], r) BY <2>l, ClaimsKeepCopy
      <4> HIDE DEF r
      <4> QED BY <4>1, <4>2, <4>3, AccountKept DEF SameCopy
    <3> QED BY <1>4, <3>1, <3>2, <3>3
  <2>4. \A j \in Keys : work[j].at = "out" BY <2>1 DEF PassShape
  <2>5. ASSUME NEW j \in Keys
        PROVE  /\ RowPlaced(j, ledger'[j]) /\ Abreast(work[j], ledger'[j])
               /\ Accounted(ledger[j], src[j]) => Accounted(ledger'[j], src[j])
    <3>1. ledger'[j].collection = ledger[j].collection BY <2>3 DEF RowsOK
    <3>2. Accounted(ledger[j], src[j]) => Accounted(ledger'[j], src[j]) BY <2>3 DEF RowsOK
    <3> QED BY <2>4, <3>1, <3>2 DEF RowsPlaced, RowPlaced, Abreast, Writing
  <2> QED BY <2>1, <2>2, <2>5, QuietCursor
<1>5. ASSUME NEW k \in Keys, RetryFailure(k) PROVE CursorParts'
  <2>1. /\ UNCHANGED <<src, cursor, fresh, here, since, work, phase, queue>>
        /\ phase = "idle" /\ clearing' = TRUE
        /\ ledger' = [ledger EXCEPT ![k] = resolveFailure(ledger[k], "retry")]
    BY <1>5 DEF RetryFailure, May, Undisturbed, passVars
  <2>2. here = None /\ \A j \in Keys : work[j].at = "out" BY <2>1 DEF PassShape
  <2>3. \A j \in Keys : ledger'[j].collection = ledger[j].collection
    BY <2>1 DEF resolveFailure, RowsOK, Row
  <2>4. \A j \in Keys : ~Current(j)' BY <2>1, <2>2, PresentPlace DEF Current, Present
  <2>5. PassShape' BY <2>1, <2>2 DEF PassShape
  <2>6. RowsPlaced' BY <2>3 DEF RowsPlaced, RowPlaced
  <2>7. WorkersAbreast' /\ WorkersUncovered'
    BY <2>1, <2>2 DEF WorkersAbreast, Abreast, Writing, WorkersUncovered
  <2>8. CurrentAccounted' BY <2>4 DEF CurrentAccounted
  <2>9. HiddenAccounted' BY <2>1 DEF HiddenAccounted
  <2> QED BY <2>5, <2>6, <2>7, <2>8, <2>9
<1>6. CASE ClearCursors
  <2>1. /\ UNCHANGED <<src, ledger, here, since, work, phase, queue>>
        /\ clearing /\ cursor' = {} /\ clearing' = FALSE
    BY <1>6 DEF ClearCursors, passVars
  <2>2. here = None /\ \A j \in Keys : work[j].at = "out" BY <2>1 DEF PassShape
  <2>3. \A j \in Keys : ~CoveredByCursor(j)' BY <2>1 DEF CoveredByCursor
  <2>4. \A j \in Keys : ~Current(j)' BY <2>1, <2>2, PresentPlace DEF Current, Present
  <2>5. PassShape' BY <2>1, <2>2 DEF PassShape
  <2>6. RowsPlaced' /\ WorkersAbreast' BY <2>1 DEF RowsPlaced, WorkersAbreast
  <2>7. WorkersUncovered' /\ HiddenAccounted' BY <2>3 DEF WorkersUncovered, HiddenAccounted
  <2>8. CurrentAccounted' BY <2>4 DEF CurrentAccounted
  <2> QED BY <2>5, <2>6, <2>7, <2>8
<1>7. CASE Crash BY <1>7, ForgetCursor DEF Crash
<1> QED BY <1>1, <1>2, <1>3, <1>4, <1>5, <1>6, <1>7 DEF Environment

\* A listing brings what no cursor hides; its cursor is stored when every item it
\* brought is accounted for.
LEMMA FolderStepsCursor ==
    ASSUME Undisturbed, CursorInv,
           \/ \E folders \in SUBSET Colls : StartPass(folders)
           \/ \E c \in Colls, keysOk \in BOOLEAN : ListFolder(c, keysOk)
           \/ FinishFolder \/ AbortPass
           \/ BeginRemovals \/ BeginDiscarded \/ BeginMoves \/ EndPass
    PROVE  CursorParts'
<1> USE DEF CursorInv, CursorParts
<1> WorldOK /\ UsedOK /\ RowsOK /\ FolderOK /\ WorkOK BY TypeParts
<1>1. ASSUME NEW folders \in SUBSET Colls, StartPass(folders) PROVE CursorParts'
  <2>1. /\ UNCHANGED <<src, cursor, fresh, here, since, work, clearing, ledger, queue,
                       retryablePending>>
        /\ ~clearing /\ phase' = "folders"
    BY <1>1 DEF StartPass, Undisturbed, world
  <2>2. PassShape' BY <2>1 DEF PassShape
  <2> QED BY <2>1, <2>2, QuietCursor DEF RowsPlaced, WorkersAbreast
<1>2. ASSUME NEW c \in Colls, NEW keysOk \in BOOLEAN, ListFolder(c, keysOk) PROVE CursorParts'
  <2>1. /\ UNCHANGED <<src, cursor, fresh, clearing, ledger, phase, queue, retryablePending>>
        /\ phase = "folders" /\ here' = c /\ since' = {} /\ c # None
    BY <1>2 DEF ListFolder, world
  <2>2. ASSUME NEW k \in Keys
        PROVE  \/ k \in Listed(c) /\ work'[k].at = "todo" /\ work'[k].version = src[k].bytes
               \/ k \notin Listed(c) /\ work'[k].at = "out"
    <3>1. CASE k \in Listed(c)
      <4>1. work'[k] = [Out EXCEPT !.at = "todo", !.version = src[k].bytes]
        BY <1>2, <3>1 DEF ListFolder, Undisturbed
      <4> QED BY <3>1, <4>1 DEF Out
    <3>2. CASE k \notin Listed(c) BY <1>2, <3>2 DEF ListFolder, Out
    <3> QED BY <3>1, <3>2
  <2>3. ~clearing BY <2>1 DEF PassShape
  <2>4. \A k \in Keys : CoveredByCursor(k)' <=> CoveredByCursor(k)
    BY <2>1 DEF CoveredByCursor, Present, PlaceOf
  <2>5. PassShape' BY <2>1, <2>3 DEF PassShape
  <2>6. RowsPlaced' BY <2>1 DEF RowsPlaced
  <2>7. WorkersAbreast' BY <2>2 DEF WorkersAbreast, Abreast, Writing
  <2>8. WorkersUncovered'
    BY <2>2, <2>4 DEF WorkersUncovered, Listed, CoveredByCursor, PlaceOf
  <2>9. CurrentAccounted'
    <3> SUFFICES ASSUME NEW k \in Keys, Current(k)', work'[k].at = "out"
                 PROVE  Accounted(ledger[k], src[k])
      BY <2>1, <2>2 DEF CurrentAccounted
    <3>1. Present(k) /\ src[k].coll = c /\ k \notin Listed(c)
      BY <2>1, <2>2 DEF Current, Present
    <3>2. CoveredByCursor(k) BY <3>1 DEF Listed, CoveredByCursor, PlaceOf
    <3> QED BY <2>3, <3>2 DEF HiddenAccounted
  <2>10. HiddenAccounted' BY <2>1, <2>4 DEF HiddenAccounted
  <2> QED BY <2>5, <2>6, <2>7, <2>8, <2>9, <2>10
<1>3. CASE FinishFolder
  <2>1. /\ UNCHANGED <<src, clearing, ledger, phase, queue, work, retryablePending>>
        /\ here' = None /\ since' = {} /\ \A k \in Keys : work[k].at = "out"
        /\ here # None
    BY <1>3 DEF FinishFolder
  <2>2. \A k \in Keys : ~Current(k)' BY <2>1, PresentPlace DEF Current, Present
  <2>3. PassShape' BY <2>1 DEF PassShape
  <2>4. RowsPlaced' /\ WorkersAbreast' BY <2>1 DEF RowsPlaced, WorkersAbreast
  <2>5. WorkersUncovered' BY <2>1 DEF WorkersUncovered
  <2>6. CurrentAccounted' BY <2>2 DEF CurrentAccounted
  <2>7. HiddenAccounted'
    <3> SUFFICES ASSUME ~clearing, NEW k \in Keys, CoveredByCursor(k)'
                 PROVE  Accounted(ledger[k], src[k])
      BY <2>1 DEF HiddenAccounted
    <3>1. CASE CoveredByCursor(k) BY <3>1 DEF HiddenAccounted
    <3>2. CASE ~CoveredByCursor(k)
      <4>1. /\ ~retryablePending /\ cursor' = cursor \cup {here}
            /\ fresh' = {p \in fresh : p[1] # here} \cup since
        BY <1>3, <2>1, <3>2 DEF FinishFolder, CoveredByCursor, Present, PlaceOf
      <4>2. Present(k) /\ src[k].coll \in cursor \cup {here} /\ <<src[k].coll, k>> \notin fresh'
        BY <2>1, <4>1 DEF CoveredByCursor, Present, PlaceOf
      <4>3. <<src[k].coll, k>> \in Places BY <4>2, PresentPlace
      <4>4. src[k].coll = here
        BY <3>2, <4>1, <4>2, <4>3 DEF CoveredByCursor, PlaceOf
      <4>5. Current(k) BY <4>1, <4>2, <4>4 DEF Current
      <4> QED BY <2>1, <4>1, <4>5 DEF CurrentAccounted
    <3> QED BY <3>1, <3>2
  <2> QED BY <2>3, <2>4, <2>5, <2>6, <2>7
<1>4. CASE AbortPass \/ EndPass BY <1>4, ForgetCursor DEF AbortPass, EndPass
<1>5. CASE BeginRemovals \/ BeginDiscarded \/ BeginMoves
  <2>1. /\ UNCHANGED <<src, cursor, fresh, here, since, work, clearing, ledger, retryablePending>>
        /\ here = None /\ phase # "idle"
        /\ phase' = "moves" /\ queue' # {} => PathKeyed
    BY <1>5 DEF BeginRemovals, BeginDiscarded, BeginMoves, Proceed, world
  <2>2. PassShape' BY <2>1 DEF PassShape
  <2> QED BY <2>1, <2>2, QuietCursor DEF RowsPlaced, WorkersAbreast
<1> QED BY <1>1, <1>2, <1>3, <1>4, <1>5

\* What a settled item comes to: fetched anew, or accounted for at the version it
\* was listed at.
LEMMA SettleAccounts ==
    ASSUME CursorInv, Undisturbed, NEW k \in Keys, SettleItem(k)
    PROVE  \E w, r : /\ Goes(k, w) /\ ledger' = [ledger EXCEPT ![k] = r]
                     /\ Abreast(w, r) /\ RowPlaced(k, r)
                     /\ w.at # "out" => w.version = work[k].version
                     /\ w.at = "out" /\ Current(k) => Accounted(r, src[k])
<1> USE DEF CursorInv, CursorParts
<1> WorldOK /\ UsedOK /\ RowsOK /\ FolderOK /\ WorkOK BY TypeParts
<1> DEFINE known == work[k].known
           again == Reappeared(known, ledger[k])
           back == MovedBack(known, again)
           action == classifyKnownItem(known, work[k].version, here)
<1>0. work[k].at = "settle" /\ here # None BY DEF SettleItem, ItemStep
<1>1. /\ ledger[k] = known /\ Found(known) /\ known \in Row /\ RowPlaced(k, known)
      /\ work[k] \in Work /\ <<here, k>> \in Places
  BY <1>0 DEF WorkersAbreast, Abreast, RowsOK, RowsPlaced, WorkOK, WorkersOK, WorkerOK
<1>2. /\ again \in Row /\ SameCopy(known, again)
      /\ again.movedToCollection = known.movedToCollection
      /\ back \in Row /\ SameCopy(known, back)
  BY <1>1, ReturnKeepsCopy
<1>3. ASSUME Current(k) PROVE work[k].version = src[k].bytes /\ src[k].coll = here
                              /\ work[k].version # None
  BY <1>0, <1>3, PresentPlace DEF CurrentAccounted, Current
<1>4. known.status \in Statuses \ {"absent"} BY <1>1 DEF Found, Row
<1>5. CASE action = "moved"
  <2> DEFINE r == IF decided(known, here, None) THEN again ELSE recordMove(again, here, None)
  <2>1. Goes(k, Out) BY <1>5 DEF SettleItem, Done
  <2>2. ledger' = [ledger EXCEPT ![k] = r]
    <3> HIDE DEF again, back, action, known
    <3> QED BY <1>5 DEF SettleItem, again, known, action
  <2>3. /\ known.status \in {"copied", "updated", "adopted"}
        /\ known.collection # None /\ known.collection # here
    BY <1>4, <1>5 DEF classifyKnownItem, Statuses
  <2>4. ~PathKeyed BY <1>1, <2>3, OnePlace DEF RowPlaced
  <2>5. /\ recordMove(again, here, None).movedToCollection = here
        /\ SameCopy(again, recordMove(again, here, None))
    BY <1>2, ClaimsKeepCopy DEF recordMove, Row
  <2>6. r.movedToCollection = here /\ SameCopy(known, r)
    BY <1>2, <2>5 DEF decided, SameCopy
  <2> HIDE DEF r
  <2>7. RowPlaced(k, r) BY <1>1, <2>6 DEF RowPlaced, SameCopy
  <2>8. Current(k) => Accounted(r, src[k])
    BY <1>3, <2>3, <2>4, <2>6 DEF Accounted, SameCopy, WroteIt
  <2>9. Abreast(Out, r) BY DEF Abreast, Out, Writing
  <2>10. Out.at = "out" BY DEF Out
  <2> QED BY <2>1, <2>2, <2>7, <2>8, <2>9, <2>10
<1>6. CASE action = "record-version"
  <2> DEFINE r == recordUpdate(back, known.status, work[k].version, known.contentHash,
                               known.targetVersion, known.collection)
  <2>1. Goes(k, Out) BY <1>6 DEF SettleItem, Done
  <2>2. ledger' = [ledger EXCEPT ![k] = r]
    <3> HIDE DEF again, back, action, known
    <3> QED BY <1>6 DEF SettleItem, again, back, known, action
  <2>3. known.status \in {"copied", "updated", "adopted"}
    BY <1>4, <1>6 DEF classifyKnownItem, Statuses
  <2>4. /\ r.status = known.status /\ r.sourceVersion = work[k].version
        /\ r.collection = known.collection
    <3>1. back.collection = known.collection BY <1>2 DEF SameCopy
    <3> HIDE DEF back, known
    <3> QED BY <1>2, <3>1 DEF recordUpdate, Row
  <2> HIDE DEF r
  <2>5. RowPlaced(k, r) BY <1>1, <2>4 DEF RowPlaced
  <2>6. Current(k) => Accounted(r, src[k]) BY <1>3, <2>3, <2>4 DEF Accounted, WroteIt
  <2>7. Abreast(Out, r) /\ Out.at = "out" BY DEF Abreast, Out, Writing
  <2> QED BY <2>1, <2>2, <2>5, <2>6, <2>7
<1>7. CASE action \in {"retry-failed", "rewrite", "relocated-away"}
  <2> DEFINE w == [work[k] EXCEPT !.at = "fetch"]
  <2>1. Goes(k, w) BY <1>7 DEF SettleItem
  <2>2. ledger' = [ledger EXCEPT ![k] = back]
    <3> HIDE DEF again, back, action, known
    <3> QED BY <1>7 DEF SettleItem, again, back, known, action
  <2>3. w.at = "fetch" /\ w.known = known /\ w.version = work[k].version BY <1>1 DEF Work
  <2> HIDE DEF w, back
  <2>4. RowPlaced(k, back) BY <1>1, <1>2 DEF RowPlaced, SameCopy
  <2>5. Abreast(w, back) BY <1>1, <1>2, <2>3 DEF Abreast, SameCopy
  <2> QED BY <2>1, <2>2, <2>3, <2>4, <2>5
<1>8. CASE action \notin {"moved", "record-version", "retry-failed", "rewrite", "relocated-away"}
  <2>1. Goes(k, Out) BY <1>8 DEF SettleItem, Done
  <2>2. ledger' = [ledger EXCEPT ![k] = back]
    <3> HIDE DEF again, back, action, known
    <3> QED BY <1>8 DEF SettleItem, again, back, known, action
  <2>3. ASSUME Current(k)
        PROVE  \/ known.status \in {"adopted", "left_behind", "tombstoned"}
               \/ known.status = "failed" /\ known.attemptCount >= MAX_ITEM_ATTEMPTS
               \/ WroteIt(known) /\ known.sourceVersion = src[k].bytes
    <3>1. CASE known.status = "failed" BY <1>8, <3>1 DEF classifyKnownItem
    <3>2. CASE known.status \in {"copied", "updated"}
      BY <1>3, <1>8, <2>3, <3>2 DEF classifyKnownItem, WroteIt
    <3> QED BY <1>4, <3>1, <3>2 DEF Statuses
  <2> HIDE DEF back, known
  <2>4. RowPlaced(k, back) BY <1>1, <1>2 DEF RowPlaced, SameCopy
  <2>5. Current(k) => Accounted(back, src[k]) BY <1>2, <2>3 DEF Accounted, SameCopy, WroteIt
  <2>6. Abreast(Out, back) /\ Out.at = "out" BY DEF Abreast, Out, Writing
  <2> QED BY <2>1, <2>2, <2>4, <2>5, <2>6
<1> QED BY <1>5, <1>6, <1>7, <1>8

\* A failed item is tried again, which keeps the cursor from being stored, or
\* has used up its attempts.
LEMMA FailureAccounts ==
    ASSUME CursorInv, Undisturbed, NEW k \in Keys, NEW hash, ItemFails(k, hash)
    PROVE  \E r : /\ Goes(k, Out) /\ ledger' = [ledger EXCEPT ![k] = r]
                  /\ RowPlaced(k, r)
                  /\ \A item : Accounted(r, item) \/ retryablePending'
                  /\ retryablePending => retryablePending'
<1> USE DEF CursorInv, CursorParts
<1> RowsOK BY TypeParts
<1> DEFINE r == recordFailure(ledger[k], hash)
<1>1. ledger[k] \in Row BY DEF RowsOK
<1>2. /\ r.status = "failed" /\ r.attemptCount \in Nat
      /\ r.collection \in {None, ledger[k].collection}
  <2>1. CASE Found(ledger[k]) BY <1>1, <2>1 DEF recordFailure, Row
  <2>2. CASE ~Found(ledger[k]) BY <2>2 DEF recordFailure, NoRow
  <2> QED BY <2>1, <2>2
<1>3. /\ Goes(k, Out) /\ ledger' = [ledger EXCEPT ![k] = r]
      /\ retryablePending' = (retryablePending \/ r.attemptCount < MAX_ITEM_ATTEMPTS)
  BY DEF ItemFails, Undisturbed, Done
<1> HIDE DEF r
<1>4. RowPlaced(k, r) BY <1>2 DEF RowsPlaced, RowPlaced
<1>5. r.attemptCount < MAX_ITEM_ATTEMPTS \/ r.attemptCount >= MAX_ITEM_ATTEMPTS BY <1>2
<1>6. \A item : Accounted(r, item) \/ retryablePending' BY <1>2, <1>3, <1>5 DEF Accounted
<1> QED BY <1>3, <1>4, <1>6

\* What a worker records of a copy is at the version it was listed at.
LEMMA RecordAccounts ==
    ASSUME CursorInv, Undisturbed, NEW k \in Keys, RecordItem(k) \/ RecordConflict(k)
    PROVE  \E r : /\ Goes(k, Out) /\ ledger' = [ledger EXCEPT ![k] = r]
                  /\ RowPlaced(k, r)
                  /\ Current(k) => Accounted(r, src[k])
<1> USE DEF CursorInv, CursorParts
<1> WorldOK /\ UsedOK /\ RowsOK /\ FolderOK /\ WorkOK BY TypeParts
<1> DEFINE w == work[k]
<1>1. w.at = "record" /\ here # None BY DEF RecordItem, RecordConflict, ItemStep
<1>2. /\ ledger[k] \in Row /\ <<here, k>> \in Places /\ RowPlaced(k, ledger[k])
      /\ ~Found(w.known) => ~Found(ledger[k])
      /\ w.known.collection = ledger[k].collection
  BY <1>1 DEF RowsOK, WorkersOK, WorkerOK, RowsPlaced, WorkersAbreast, Abreast, Writing
<1>3. ASSUME Current(k) PROVE w.version = src[k].bytes BY <1>1, <1>3 DEF CurrentAccounted
<1>4. Goes(k, Out) BY DEF RecordItem, RecordConflict, Done
<1>5. CASE RecordItem(k)
  <2> DEFINE status == CASE w.result = "created" -> "copied"
                         [] w.result = "adopted" -> "adopted"
                         [] OTHER -> "updated"
             r == IF Found(w.known)
                  THEN recordUpdate(ledger[k], status, w.version, w.raw, w.targetVersion, here)
                  ELSE recordIfAbsent(ledger[k], status, w.version, w.raw, w.targetVersion, here)
  <2>1. ledger' = [ledger EXCEPT ![k] = r] BY <1>5 DEF RecordItem
  <2>2. status \in {"copied", "adopted", "updated"} OBVIOUS
  <2> HIDE DEF status
  <2>3. r.status = status /\ r.sourceVersion = w.version /\ r.collection = here
    <3>1. CASE Found(w.known) BY <1>1, <1>2, <3>1 DEF recordUpdate, Row
    <3>2. CASE ~Found(w.known) BY <1>2, <3>2 DEF recordIfAbsent, NoRow
    <3> QED BY <3>1, <3>2
  <2> HIDE DEF r
  <2>4. RowPlaced(k, r) BY <1>2, <2>3 DEF RowPlaced
  <2>5. Current(k) => Accounted(r, src[k]) BY <1>3, <2>2, <2>3 DEF Accounted, WroteIt
  <2> QED BY <1>4, <2>1, <2>4, <2>5
<1>6. CASE RecordConflict(k)
  <2> DEFINE r == recordUpdate(ledger[k], "adopted", w.known.sourceVersion, w.known.contentHash,
                               w.known.targetVersion, w.known.collection)
  <2>1. ledger' = [ledger EXCEPT ![k] = r] BY <1>6 DEF RecordConflict
  <2>2. r.status = "adopted" /\ r.collection = ledger[k].collection
    BY <1>2 DEF recordUpdate, Row
  <2> HIDE DEF r
  <2> QED BY <1>2, <1>4, <2>1, <2>2 DEF RowPlaced, Accounted
<1> QED BY <1>5, <1>6

\* The steps of a worker.
LEMMA WorkerCursor ==
    ASSUME Undisturbed, CursorInv, NEW k \in Keys,
           \/ TakeItem(k) \/ SettleItem(k) \/ FetchItem(k) \/ FetchFails(k)
           \/ \E answered \in BOOLEAN : CheckOwnership(k, answered) \/ CheckExisting(k, answered)
           \/ \E tagged \in BOOLEAN : PutItem(k, tagged)
           \/ PutFails(k) \/ RecordItem(k) \/ RecordConflict(k)
    PROVE  CursorParts'
<1> USE DEF CursorInv, CursorParts
<1> WorldOK /\ UsedOK /\ RowsOK /\ FolderOK /\ WorkOK BY TypeParts
<1>u. /\ UNCHANGED <<src, cursor, fresh, here, since, clearing, phase, queue>>
      /\ work[k].at # "out"
  BY DEF TakeItem, SettleItem, FetchItem, FetchFails, CheckOwnership, CheckExisting, PutItem,
         PutFails, RecordItem, RecordConflict, ItemStep, world
<1>w. work[k] \in Work /\ ledger[k] \in Row /\ ledger = [ledger EXCEPT ![k] = ledger[k]]
  BY DEF WorkOK, RowsOK
<1>a. Abreast(work[k], ledger[k]) /\ RowPlaced(k, ledger[k]) BY DEF WorkersAbreast, RowsPlaced
<1>o. Out.at = "out" /\ \A r : Abreast(Out, r) BY DEF Abreast, Out, Writing
<1>g. ASSUME UNCHANGED <<ledger, retryablePending>>,
             NEW w, Goes(k, w), w.at # "out", w.version = work[k].version, Abreast(w, ledger[k])
      PROVE  CursorParts'
  BY <1>a, <1>g, <1>u, <1>w, OneGoesCurrent
<1>1. CASE TakeItem(k)
  <2> DEFINE at == IF Found(ledger[k]) THEN "settle" ELSE "fetch"
             w == [work[k] EXCEPT !.known = ledger[k], !.at = at]
  <2>1. Goes(k, w) /\ UNCHANGED <<ledger, retryablePending>>
    BY <1>1 DEF TakeItem, Undisturbed
  <2>2. w.at = at /\ w.known = ledger[k] /\ w.version = work[k].version BY <1>w DEF Work
  <2>3. Abreast(w, ledger[k]) BY <2>2 DEF Abreast, Writing
  <2> HIDE DEF w
  <2> QED BY <1>g, <2>1, <2>2, <2>3
<1>2. CASE SettleItem(k)
  <2>1. UNCHANGED retryablePending BY <1>2 DEF SettleItem
  <2> QED BY <1>2, <1>u, <2>1, SettleAccounts, OneGoesCurrent
<1>3. CASE FetchItem(k)
  <2> DEFINE w == [work[k] EXCEPT !.at = "check", !.raw = Bytes(k)]
  <2>1. Goes(k, w) /\ UNCHANGED <<ledger, retryablePending>> /\ work[k].at = "fetch"
    BY <1>3 DEF FetchItem, Undisturbed, ItemStep
  <2>2. w.at = "check" /\ w.known = work[k].known /\ w.version = work[k].version
    BY <1>w DEF Work
  <2> HIDE DEF w
  <2>3. Abreast(w, ledger[k]) BY <1>a, <2>1, <2>2 DEF Abreast, Writing
  <2> QED BY <1>g, <2>1, <2>2, <2>3
<1>4. CASE FetchFails(k) \/ PutFails(k)
  <2>1. \E hash : ItemFails(k, hash) BY <1>4 DEF FetchFails, PutFails
  <2> QED BY <1>o, <1>u, <2>1, FailureAccounts, OneGoesCurrent
<1>5. CASE \/ \E answered \in BOOLEAN : CheckOwnership(k, answered) \/ CheckExisting(k, answered)
           \/ \E tagged \in BOOLEAN : PutItem(k, tagged)
  <2>1. /\ UNCHANGED <<ledger, retryablePending>> /\ work[k].at \in Writing
        /\ \/ Goes(k, [work[k] EXCEPT !.at = "put"])
           \/ \E r : Goes(k, [work[k] EXCEPT !.at = "record", !.result = r])
           \/ \E r, t : Goes(k, [work[k] EXCEPT !.at = "record", !.result = r, !.targetVersion = t])
    BY <1>5 DEF CheckOwnership, CheckExisting, PutItem, ItemStep, Writing, world
  <2>2. \E w : /\ Goes(k, w) /\ w.at \in Writing /\ w.known = work[k].known
               /\ w.version = work[k].version
    <3> DEFINE w1 == [work[k] EXCEPT !.at = "put"]
               w2(r) == [work[k] EXCEPT !.at = "record", !.result = r]
               w3(r, t) == [work[k] EXCEPT !.at = "record", !.result = r, !.targetVersion = t]
    <3>1. w1.at \in Writing /\ w1.known = work[k].known /\ w1.version = work[k].version
      BY <1>w DEF Work, Writing
    <3>2. \A r : /\ w2(r).at \in Writing /\ w2(r).known = work[k].known
                 /\ w2(r).version = work[k].version
      BY <1>w DEF Work, Writing
    <3>3. \A r, t : /\ w3(r, t).at \in Writing /\ w3(r, t).known = work[k].known
                    /\ w3(r, t).version = work[k].version
      BY <1>w DEF Work, Writing
    <3>4. Goes(k, w1) \/ (\E r : Goes(k, w2(r))) \/ (\E r, t : Goes(k, w3(r, t))) BY <2>1
    <3> HIDE DEF w1, w2, w3
    <3> QED BY <3>1, <3>2, <3>3, <3>4
  <2>3. PICK w : /\ Goes(k, w) /\ w.at \in Writing /\ w.known = work[k].known
                 /\ w.version = work[k].version
    BY <2>2
  <2>4. Abreast(w, ledger[k]) BY <1>a, <2>1, <2>3 DEF Abreast, Writing
  <2> QED BY <1>g, <2>1, <2>3, <2>4 DEF Writing
<1>6. CASE RecordItem(k) \/ RecordConflict(k)
  <2>1. UNCHANGED retryablePending BY <1>6 DEF RecordItem, RecordConflict
  <2> QED BY <1>6, <1>o, <1>u, <2>1, RecordAccounts, OneGoesCurrent
<1> QED BY <1>1, <1>2, <1>3, <1>4, <1>5, <1>6

\* The detectors, which run with no folder open, change claims and not copies;
\* only where items are keyed by their path do they change a move.
LEMMA DetectorCopies ==
    ASSUME CursorInv, NEW k \in Keys,
           resolveReportedRemoval(k) \/ resolveDiscardedItem(k) \/ detectPathKeyedMove(k)
    PROVE  \E r : /\ ledger' = [ledger EXCEPT ![k] = r] /\ SameCopy(ledger[k], r)
                  /\ PathKeyed \/ r.movedToCollection = ledger[k].movedToCollection
<1> USE DEF CursorInv, CursorParts
<1> WorldOK /\ UsedOK /\ RowsOK /\ FolderOK /\ WorkOK BY TypeParts
<1> DEFINE old == ledger[k]
<1>l. old \in Row BY DEF RowsOK
<1>e. ledger = [ledger EXCEPT ![k] = old] /\ SameCopy(old, old) BY DEF RowsOK, SameCopy
<1>1. CASE resolveReportedRemoval(k)
  <2>1. recordReportedDeletion(old).movedToCollection = old.movedToCollection
    BY <1>l DEF recordReportedDeletion, Row
  <2>2. SameCopy(old, recordReportedDeletion(old)) BY <1>l, ClaimsKeepCopy
  <2> QED BY <1>1, <1>e, <2>1, <2>2 DEF resolveReportedRemoval
<1>2. CASE resolveDiscardedItem(k)
  <2>1. recordTrashedDeletion(old).movedToCollection = old.movedToCollection
    BY <1>l DEF recordTrashedDeletion, Row
  <2>2. SameCopy(old, recordTrashedDeletion(old)) BY <1>l, ClaimsKeepCopy
  <2> QED BY <1>2, <1>e, <2>1, <2>2 DEF resolveDiscardedItem
<1>3. CASE detectPathKeyedMove(k)
  <2>1. PathKeyed BY <1>3 DEF detectPathKeyedMove, Inspects, PassShape
  <2>2. /\ SameCopy(old, clearMove(old)) /\ SameCopy(old, clearAbsent(old))
        /\ SameCopy(old, clearAbsent(clearMove(old)))
    <3>1. clearMove(old) \in Row BY <1>l, ClaimTypes
    <3>2. SameCopy(clearMove(old), clearAbsent(clearMove(old))) BY <3>1, ClaimsKeepCopy
    <3>3. SameCopy(old, clearMove(old)) /\ SameCopy(old, clearAbsent(old))
      BY <1>l, ClaimsKeepCopy
    <3> QED BY <3>2, <3>3 DEF SameCopy
  <2>3. /\ SameCopy(old, recordAbsent(old))
        /\ \A to, toKey : SameCopy(old, recordMove(old, to, toKey))
    BY <1>l, ClaimsKeepCopy
  <2>4. CASE StillThere(k) BY <1>e, <2>1, <2>2, <2>4 DEF StillThere
  <2>5. CASE MovedAway(k) BY <2>1, <2>3, <2>5 DEF MovedAway
  <2>6. CASE Vanished(k) BY <2>1, <2>3, <2>6 DEF Vanished
  <2> QED BY <1>3, <1>e, <2>1, <2>4, <2>5, <2>6 DEF detectPathKeyedMove
<1> QED BY <1>1, <1>2, <1>3

\* Hence they account for what was accounted for.
LEMMA DetectorCursor ==
    ASSUME CursorInv, NEW k \in Keys,
           resolveReportedRemoval(k) \/ resolveDiscardedItem(k) \/ detectPathKeyedMove(k)
    PROVE  CursorParts'
<1> USE DEF CursorInv, CursorParts
<1> WorldOK /\ UsedOK /\ RowsOK /\ FolderOK /\ WorkOK BY TypeParts
<1>1. /\ UNCHANGED <<src, cursor, fresh, here, since, work, clearing, retryablePending, phase>>
      /\ phase \notin {"idle", "folders"} /\ queue' \subseteq queue
  BY DEF resolveReportedRemoval, resolveDiscardedItem, detectPathKeyedMove, Inspects, world
<1>2. here = None /\ \A j \in Keys : work[j].at = "out" BY <1>1 DEF PassShape
<1>3. PassShape' BY <1>1, <1>2 DEF PassShape
<1>4. PICK r : /\ ledger' = [ledger EXCEPT ![k] = r] /\ SameCopy(ledger[k], r)
               /\ PathKeyed \/ r.movedToCollection = ledger[k].movedToCollection
  BY DetectorCopies
<1>5. ASSUME NEW j \in Keys
      PROVE  /\ RowPlaced(j, ledger'[j]) /\ Abreast(work[j], ledger'[j])
             /\ Accounted(ledger[j], src[j]) => Accounted(ledger'[j], src[j])
  <2>1. CASE j = k
    <3>1. ledger'[j] = r BY <1>4, <2>1 DEF RowsOK
    <3> QED BY <1>2, <1>4, <2>1, <3>1, AccountKept
            DEF RowsPlaced, RowPlaced, Abreast, Writing, SameCopy
  <2>2. CASE j # k
    <3>1. ledger'[j] = ledger[j] BY <1>4, <2>2 DEF RowsOK
    <3> QED BY <3>1 DEF RowsPlaced, WorkersAbreast
  <2> QED BY <2>1, <2>2
<1> QED BY <1>1, <1>3, <1>5, QuietCursor

\* Every step keeps the invariant.
LEMMA CursorNext ==
    ASSUME Undisturbed, CursorInv, [Next]_vars
    PROVE  CursorInv'
<1>1. TypeOK' /\ WorkersOK' BY SyncTypeNext DEF CursorInv
<1>2. CursorParts'
  <2>1. CASE Environment BY <2>1, EnvironmentCursor
  <2>2. ASSUME NEW k \in Keys, ItemSteps(k) PROVE CursorParts'
    BY <2>2, WorkerCursor, DetectorCursor DEF ItemSteps
  <2>3. CASE PassSteps BY <2>2, <2>3, FolderStepsCursor DEF PassSteps
  <2>4. CASE UNCHANGED vars
    <3>1. UNCHANGED <<src, cursor, fresh, here, since, work, clearing, ledger, phase, queue,
                      retryablePending>>
      BY <2>4 DEF vars, passVars
    <3>2. PassShape' BY <3>1 DEF CursorInv, CursorParts, PassShape
    <3> QED BY <3>1, <3>2, QuietCursor DEF CursorInv, CursorParts, RowsPlaced, WorkersAbreast
  <2> QED BY <2>1, <2>3, <2>4 DEF Next
<1> QED BY <1>1, <1>2 DEF CursorInv

\* It holds at the start, where there is no cursor.
LEMMA CursorStarts == Init => CursorInv
<1> SUFFICES ASSUME Init PROVE CursorInv
  OBVIOUS
<1>1. TypeOK /\ WorkersOK BY SyncTypeInit, OutOK DEF Init, NoPass, WorkersOK
<1> WorldOK BY <1>1, TypeParts
<1>2. /\ phase = "idle" /\ here = None /\ cursor = {} /\ \A k \in Keys : work[k].at = "out"
  BY DEF Init, NoPass, Out
<1>3. PassShape BY <1>2 DEF PassShape
<1>4. RowsPlaced
  <2>1. \A k \in Keys : ledger[k].collection = None BY DEF Init, legacyRow, NoRow
  <2> QED BY <2>1 DEF RowsPlaced, RowPlaced
<1>5. WorkersAbreast BY <1>2 DEF WorkersAbreast, Abreast, Writing
<1>6. WorkersUncovered /\ HiddenAccounted
  BY <1>2 DEF WorkersUncovered, HiddenAccounted, CoveredByCursor
<1>7. CurrentAccounted
  <2>1. \A k \in Keys : ~Current(k) BY <1>2, PresentPlace DEF Current
  <2> QED BY <2>1 DEF CurrentAccounted
<1> QED BY <1>1, <1>3, <1>4, <1>5, <1>6, <1>7 DEF CursorInv, CursorParts

\* The inductive invariant holds in every reachable state.
LEMMA CursorAlways ==
    ASSUME Undisturbed
    PROVE  Spec => []CursorInv
  BY CursorStarts, CursorNext, PTL DEF Spec

\* A stored cursor never hides an item that is still to be copied, rewritten or
\* retried, for any number of items, folders and workers, whatever the source
\* and the owner do meanwhile, whichever requests fail and wherever a pass dies.
THEOREM CursorsRetireOnlyHandled ==
    ASSUME Undisturbed
    PROVE  Spec => []CursorHidesOnlyHandled
<1>1. CursorInv => CursorHidesOnlyHandled
  BY DEF CursorInv, CursorParts, HiddenAccounted, CursorHidesOnlyHandled, Accounted, Handled
<1> QED BY <1>1, CursorAlways, PTL

-----------------------------------------------------------------------------
(* What is claimed of an item the cursor hides.                            *)

\* Nothing is claimed of the item but what the source shows: it is there, and it
\* was not moved, or it was moved to where it is.
Truthful(row, coll) ==
    /\ ~DeletionConfirmed(row)
    /\ row.movedToCollection \in {None, coll}
    /\ row.movedToNaturalKeyHash = None

SameClaims(old, new) ==
    /\ new.absentPasses = old.absentPasses
    /\ new.deletionReported = old.deletionReported
    /\ new.deletionTrashed = old.deletionTrashed
    /\ new.movedToCollection = old.movedToCollection
    /\ new.movedToNaturalKeyHash = old.movedToNaturalKeyHash

\* There are no claims without a row, and no new key without a new collection.
RowCoherent(row) ==
    /\ ~Found(row) => SameClaims(NoRow, row)
    /\ row.movedToCollection = None => row.movedToNaturalKeyHash = None

RowsCoherent == \A k \in Keys : RowCoherent(ledger[k])

\* Settling an item withdraws what is no longer so ...
WorkersTruthful ==
    \A k \in Keys : work[k].at \in Writing \/ (work[k].at = "out" /\ Current(k)) =>
        Truthful(ledger[k], here)

\* ... so that a stored cursor hides no false claim ...
HiddenTruthful ==
    \A k \in Keys : CoveredByCursor(k) => Truthful(ledger[k], src[k].coll)

\* ... and what it hides, or the open folder has brought, is in the listing of keys.
HiddenSeen ==
    /\ here \in cursor => since \subseteq fresh
    /\ phase # "idle" =>
          \A k \in Keys : \/ CoveredByCursor(k) /\ src[k].coll \notin todo
                          \/ Current(k)
                          => PlaceOf(k) \in seen

\* The detectors run after the last folder; each row is as it was read until its turn.
DetectorsAbreast ==
    /\ phase # "folders" => todo = {}
    /\ phase = "moves" => \A k \in queue : Placed(ledger[k]) /\ placed[k] = ledger[k]

ClaimParts ==
    RowsCoherent /\ WorkersTruthful /\ HiddenTruthful /\ HiddenSeen /\ DetectorsAbreast

ClaimInv == CursorInv /\ ClaimParts

\* Rows with the same claims are as truthful as each other.
LEMMA ClaimsStand ==
    ASSUME NEW old, NEW new, NEW coll, SameClaims(old, new), Truthful(old, coll)
    PROVE  Truthful(new, coll)
  BY DEF SameClaims, Truthful, DeletionConfirmed

\* Recording an outcome, or an answer, claims no more and no less.
LEMMA OutcomesClaimNothing ==
    ASSUME NEW row \in Row, RowCoherent(row),
           NEW status \in Statuses \ {"absent"}, NEW version, NEW hash, NEW etag, NEW coll
    PROVE  /\ LET r == recordUpdate(row, status, version, hash, etag, coll)
              IN  RowCoherent(r) /\ SameClaims(row, r)
           /\ LET r == recordIfAbsent(row, status, version, hash, etag, coll)
              IN  RowCoherent(r) /\ SameClaims(row, r)
           /\ LET r == recordFailure(row, hash)
              IN  RowCoherent(r) /\ SameClaims(row, r)
           /\ \A action : LET r == resolveFailure(row, action)
                          IN  RowCoherent(r) /\ SameClaims(row, r)
           /\ LET r == resolveMove(row) IN RowCoherent(r) /\ SameClaims(row, r)
           /\ LET r == resolveDeletion(row) IN RowCoherent(r) /\ SameClaims(row, r)
<1>s. status # "absent" OBVIOUS
<1>n. /\ NoRow.absentPasses = 0 /\ NoRow.deletionReported = FALSE
      /\ NoRow.deletionTrashed = FALSE /\ NoRow.movedToCollection = None
      /\ NoRow.moveAcknowledged = FALSE /\ NoRow.deletionAcknowledged = FALSE
      /\ NoRow.movedToNaturalKeyHash = None
  BY DEF NoRow
<1>1. LET r == recordUpdate(row, status, version, hash, etag, coll)
      IN  RowCoherent(r) /\ SameClaims(row, r)
  BY <1>s DEF recordUpdate, RowCoherent, SameClaims, Found, Row
<1>2. LET r == recordIfAbsent(row, status, version, hash, etag, coll)
      IN  RowCoherent(r) /\ SameClaims(row, r)
  <2>1. CASE Found(row) BY <2>1 DEF recordIfAbsent, SameClaims
  <2>2. CASE ~Found(row)
    BY <1>s, <1>n, <2>2 DEF recordIfAbsent, SameClaims, RowCoherent, Found, NoRow
  <2> QED BY <2>1, <2>2
<1>3. LET r == recordFailure(row, hash) IN RowCoherent(r) /\ SameClaims(row, r)
  <2>1. CASE Found(row) BY <2>1 DEF recordFailure, SameClaims, RowCoherent, Found, Row
  <2>2. CASE ~Found(row) BY <2>2 DEF recordFailure, SameClaims, RowCoherent, Found, NoRow
  <2> QED BY <2>1, <2>2
<1>4. \A action : LET r == resolveFailure(row, action) IN RowCoherent(r) /\ SameClaims(row, r)
  BY DEF resolveFailure, SameClaims, RowCoherent, Found, Row
<1>5. LET r == resolveMove(row) IN RowCoherent(r) /\ SameClaims(row, r)
  BY DEF resolveMove, SameClaims, RowCoherent, Found, Row
<1>6. LET r == resolveDeletion(row) IN RowCoherent(r) /\ SameClaims(row, r)
  BY DEF resolveDeletion, SameClaims, RowCoherent, Found, Row
<1> QED BY <1>1, <1>2, <1>3, <1>4, <1>5, <1>6

\* Nothing is claimed of an item that has no row.
LEMMA NoRowTruthful == \A coll : Truthful(NoRow, coll)
<1>1. DELETION_CONFIRMATIONS > 0 OBVIOUS
<1> QED BY <1>1 DEF Truthful, NoRow, DeletionConfirmed

\* Withdrawing a claim leaves the others.
LEMMA WithdrawalsTruthful ==
    ASSUME NEW row \in Row
    PROVE  /\ RowCoherent(row) /\ Found(row) =>
                 RowCoherent(clearMove(row)) /\ RowCoherent(clearAbsent(row))
           /\ \A coll : Truthful(row, coll) =>
                 Truthful(clearMove(row), coll) /\ Truthful(clearAbsent(row), coll)
           /\ ~DeletionConfirmed(clearAbsent(row))
           /\ clearMove(row).movedToCollection = None
           /\ clearMove(row).movedToNaturalKeyHash = None
<1>1. DELETION_CONFIRMATIONS > 0 OBVIOUS
<1>2. RowCoherent(row) /\ Found(row) =>
          RowCoherent(clearMove(row)) /\ RowCoherent(clearAbsent(row))
  BY DEF RowCoherent, Found, clearMove, clearAbsent, Row
<1>3. ~DeletionConfirmed(clearAbsent(row))
  BY <1>1 DEF DeletionConfirmed, clearAbsent, Row
<1>4. /\ clearMove(row).movedToCollection = None /\ clearMove(row).movedToNaturalKeyHash = None
      /\ DeletionConfirmed(clearMove(row)) <=> DeletionConfirmed(row)
  BY DEF clearMove, DeletionConfirmed, Row
<1>5. /\ clearAbsent(row).movedToCollection = row.movedToCollection
      /\ clearAbsent(row).movedToNaturalKeyHash = row.movedToNaturalKeyHash
  BY DEF clearAbsent, Row
<1> QED BY <1>2, <1>3, <1>4, <1>5 DEF Truthful

-----------------------------------------------------------------------------
(* What keeps the claims truthful.                                         *)

\* A step that leaves the workers, the source and the cursors alone, and claims
\* nothing new of what a cursor hides.
LEMMA QuietClaims ==
    ASSUME ClaimInv, UNCHANGED <<src, cursor, fresh, here, since, work, todo>>,
           seen \subseteq seen', phase' # "idle" => phase # "idle", DetectorsAbreast',
           \A k \in Keys : RowCoherent(ledger'[k]),
           \A k \in Keys : CoveredByCursor(k) \/ here # None =>
               \A coll : Truthful(ledger[k], coll) => Truthful(ledger'[k], coll)
    PROVE  ClaimParts'
<1> USE DEF ClaimInv, ClaimParts, CursorInv, CursorParts
<1> WorldOK /\ UsedOK /\ RowsOK /\ FolderOK /\ WorkOK BY TypeParts
<1>1. \A k \in Keys : /\ Current(k)' <=> Current(k)
                      /\ CoveredByCursor(k)' <=> CoveredByCursor(k)
                      /\ PlaceOf(k)' = PlaceOf(k)
  BY DEF Current, CoveredByCursor, Present, PlaceOf
<1>2. RowsCoherent' BY DEF RowsCoherent
<1>3. WorkersTruthful'
  <2>1. here = None => \A k \in Keys : work[k].at = "out" /\ ~Current(k)
    BY PresentPlace DEF PassShape, Current
  <2> QED BY <1>1, <2>1 DEF WorkersTruthful, Writing
<1>4. HiddenTruthful' BY <1>1 DEF HiddenTruthful
<1>5. HiddenSeen' BY <1>1 DEF HiddenSeen
<1> QED BY <1>2, <1>3, <1>4, <1>5

\* One worker goes on and writes its row; no cursor hides its item.
LEMMA OneGoesTruthful ==
    ASSUME ClaimInv, NEW k \in Keys, work[k].at # "out", phase = "folders",
           UNCHANGED <<src, cursor, fresh, here, since, todo, phase>>, seen \subseteq seen',
           NEW w, Goes(k, w), NEW r, ledger' = [ledger EXCEPT ![k] = r],
           RowCoherent(r), w.at \in Writing \cup {"out"} => Truthful(r, here)
    PROVE  ClaimParts'
<1> USE DEF ClaimInv, ClaimParts, CursorInv, CursorParts
<1> WorldOK /\ UsedOK /\ RowsOK /\ FolderOK /\ WorkOK BY TypeParts
<1>1. \A j \in Keys : /\ Current(j)' <=> Current(j)
                      /\ CoveredByCursor(j)' <=> CoveredByCursor(j)
                      /\ PlaceOf(j)' = PlaceOf(j)
  BY DEF Current, CoveredByCursor, Present, PlaceOf
<1>2. /\ work'[k] = w /\ ledger'[k] = r
      /\ \A j \in Keys : j # k => work'[j] = work[j] /\ ledger'[j] = ledger[j]
  BY DEF Goes, WorkOK, RowsOK
<1>3. ~CoveredByCursor(k) BY DEF WorkersUncovered
<1>4. RowsCoherent' BY <1>2 DEF RowsCoherent
<1>5. WorkersTruthful' BY <1>1, <1>2 DEF WorkersTruthful
<1>6. HiddenTruthful' BY <1>1, <1>2, <1>3 DEF HiddenTruthful
<1>7. HiddenSeen' BY <1>1 DEF HiddenSeen
<1>8. DetectorsAbreast' BY DEF DetectorsAbreast
<1> QED BY <1>4, <1>5, <1>6, <1>7, <1>8

\* The source changes: no cursor and no listing vouches for what changed.
LEMMA SourceClaims ==
    ASSUME ClaimInv, UNCHANGED <<ledger, cursor, here, work, phase, queue, todo, seen, placed>>,
           NEW ps, fresh' = fresh \cup {p \in ps : p[1] \in cursor},
           since' = since \cup {p \in ps : p[1] = here},
           \A k \in Keys : src'[k] \in {src[k], Gone} \/ <<src'[k].coll, k>> \in ps
    PROVE  ClaimParts'
<1> USE DEF ClaimInv, ClaimParts, CursorInv, CursorParts
<1>1. \A k \in Keys : /\ Current(k)' => Current(k) /\ src'[k] = src[k]
                      /\ CoveredByCursor(k)' => CoveredByCursor(k) /\ src'[k] = src[k]
  BY DEF Current, CoveredByCursor, Present, PlaceOf
<1>2. RowsCoherent' /\ DetectorsAbreast' BY DEF RowsCoherent, DetectorsAbreast
<1>3. WorkersTruthful' BY <1>1 DEF WorkersTruthful
<1>4. HiddenTruthful' BY <1>1 DEF HiddenTruthful
<1>5. HiddenSeen'
  <2>1. here' \in cursor' => since' \subseteq fresh' BY DEF HiddenSeen
  <2>2. \A k \in Keys : src'[k] = src[k] => PlaceOf(k)' = PlaceOf(k) BY DEF PlaceOf
  <2> QED BY <1>1, <2>1, <2>2 DEF HiddenSeen
<1> QED BY <1>2, <1>3, <1>4, <1>5

\* A pass that is over leaves no folder open.
LEMMA ForgetClaims ==
    ASSUME ClaimInv, ForgetPass, UNCHANGED <<world, ledger>>
    PROVE  ClaimParts'
<1> USE DEF ClaimInv, ClaimParts, CursorInv, CursorParts
<1> WorldOK BY TypeParts
<1>1. /\ here' = None /\ phase' = "idle" /\ todo' = {} /\ queue' = {}
      /\ work' = [k \in Keys |-> Out] /\ UNCHANGED <<src, cursor, fresh>>
  BY DEF ForgetPass, world
<1>2. \A k \in Keys : ~Current(k)' BY <1>1, PresentPlace DEF Current, Present
<1>3. \A k \in Keys : CoveredByCursor(k)' <=> CoveredByCursor(k)
  BY <1>1 DEF CoveredByCursor, Present, PlaceOf
<1>4. \A k \in Keys : work'[k].at = "out" BY <1>1 DEF Out
<1>5. RowsCoherent' BY DEF RowsCoherent
<1>6. WorkersTruthful' BY <1>2, <1>4 DEF WorkersTruthful, Writing
<1>7. HiddenTruthful' BY <1>1, <1>3 DEF HiddenTruthful
<1>8. HiddenSeen' BY <1>1 DEF HiddenSeen, WorldOK
<1>9. DetectorsAbreast' BY <1>1 DEF DetectorsAbreast
<1> QED BY <1>5, <1>6, <1>7, <1>8, <1>9

-----------------------------------------------------------------------------
(* The steps.                                                              *)

\* The source may act at any time, the operator between passes.
LEMMA EnvironmentClaims ==
    ASSUME Undisturbed, ClaimInv, Environment
    PROVE  ClaimParts'
<1> USE DEF ClaimInv, ClaimParts, CursorInv, CursorParts
<1> WorldOK /\ UsedOK /\ RowsOK /\ FolderOK /\ WorkOK BY TypeParts
<1>1. ASSUME NEW k \in Keys, NEW v, SourceChange(k, v) PROVE ClaimParts'
  <2> DEFINE ps == PlacesHeld(k, src[k]) \cup PlacesHeld(k, v)
  <2>1. /\ UNCHANGED <<ledger, cursor, here, work, phase, queue, todo, seen, placed>>
        /\ src' = [src EXCEPT ![k] = v]
    BY <1>1 DEF SourceChange
  <2>2. /\ fresh' = fresh \cup {p \in ps : p[1] \in cursor}
        /\ since' = since \cup {p \in ps : p[1] = here}
    BY <1>1 DEF SourceChange, MarkChanged
  <2>3. v = Gone \/ <<v.coll, k>> \in ps BY DEF PlacesHeld
  <2> HIDE DEF ps
  <2>4. \A j \in Keys : src'[j] \in {src[j], Gone} \/ <<src'[j].coll, j>> \in ps
    BY <2>1, <2>3 DEF WorldOK
  <2> QED BY <2>1, <2>2, <2>4, SourceClaims
<1>2. ASSUME NEW k \in Keys, NEW p \in Places, SourceRename(k, p) PROVE ClaimParts'
  <2> DEFINE ps == {PlaceOf(k), p}
  <2>0. p[1] \in Colls /\ p[2] \in Keys /\ p = <<p[1], p[2]>> OBVIOUS
  <2>1. /\ UNCHANGED <<ledger, cursor, here, work, phase, queue, todo, seen, placed>>
        /\ src' = [src EXCEPT ![k] = Gone, ![p[2]] = [coll |-> p[1], bytes |-> src[k].bytes]]
        /\ p[2] # k
    BY <1>2 DEF SourceRename
  <2>2. /\ fresh' = fresh \cup {q \in ps : q[1] \in cursor}
        /\ since' = since \cup {q \in ps : q[1] = here}
    BY <1>2 DEF SourceRename, MarkChanged
  <2>3. p \in ps OBVIOUS
  <2> HIDE DEF ps
  <2>4. \A j \in Keys : src'[j] \in {src[j], Gone} \/ <<src'[j].coll, j>> \in ps
    BY <2>0, <2>1, <2>3 DEF WorldOK
  <2> QED BY <2>1, <2>2, <2>4, SourceClaims
<1>3. ASSUME NEW p \in Places, OwnerChange(p) PROVE ClaimParts'
  <2>1. UNCHANGED <<src, cursor, fresh, here, since, work, todo, seen, phase, ledger, queue,
                    placed>>
    BY <1>3 DEF OwnerChange, passVars
  <2>2. DetectorsAbreast' BY <2>1 DEF DetectorsAbreast
  <2> QED BY <2>1, <2>2, QuietClaims DEF RowsCoherent
<1>4. ASSUME NEW k \in Keys,
             AcceptFailure(k) \/ RetryFailure(k) \/ KeepMove(k) \/ KeepDeletion(k)
      PROVE  ClaimParts'
  <2>1. /\ UNCHANGED <<src, cursor, fresh, here, since, work, todo, seen, phase>>
        /\ phase = "idle"
    BY <1>4 DEF AcceptFailure, RetryFailure, KeepMove, KeepDeletion, May, Undisturbed, world,
                passVars
  <2>2. DetectorsAbreast' BY <2>1 DEF DetectorsAbreast
  <2>3. ledger[k] \in Row /\ RowCoherent(ledger[k]) BY DEF RowsOK, RowsCoherent
  <2>4. \E r : /\ ledger' = [ledger EXCEPT ![k] = r]
               /\ RowCoherent(r) /\ SameClaims(ledger[k], r)
    <3>1. "copied" \in Statuses \ {"absent"} BY DEF Statuses
    <3>2. /\ \A action : LET r == resolveFailure(ledger[k], action)
                         IN  RowCoherent(r) /\ SameClaims(ledger[k], r)
          /\ LET r == resolveMove(ledger[k]) IN RowCoherent(r) /\ SameClaims(ledger[k], r)
          /\ LET r == resolveDeletion(ledger[k]) IN RowCoherent(r) /\ SameClaims(ledger[k], r)
      BY <2>3, <3>1, OutcomesClaimNothing
    <3> QED BY <1>4, <3>2 DEF AcceptFailure, RetryFailure, KeepMove, KeepDeletion
  <2>5. ASSUME NEW j \in Keys
        PROVE  /\ RowCoherent(ledger'[j])
               /\ \A coll : Truthful(ledger[j], coll) => Truthful(ledger'[j], coll)
    <3>1. PICK r : /\ ledger' = [ledger EXCEPT ![k] = r]
                   /\ RowCoherent(r) /\ SameClaims(ledger[k], r)
      BY <2>4
    <3>2. CASE j = k
      <4>1. ledger'[j] = r BY <3>1, <3>2 DEF RowsOK
      <4> QED BY <3>1, <3>2, <4>1, ClaimsStand
    <3>3. CASE j # k BY <3>1, <3>3 DEF RowsOK, RowsCoherent
    <3> QED BY <3>2, <3>3
  <2> QED BY <2>1, <2>2, <2>5, QuietClaims
<1>5. CASE ClearCursors
  <2>1. /\ UNCHANGED <<src, ledger, here, since, work, phase, queue, todo, placed>>
        /\ clearing /\ cursor' = {}
    BY <1>5 DEF ClearCursors, passVars
  <2>2. phase = "idle" /\ here = None /\ \A j \in Keys : work[j].at = "out"
    BY <2>1 DEF PassShape
  <2>3. \A j \in Keys : ~CoveredByCursor(j)' BY <2>1 DEF CoveredByCursor
  <2>4. \A j \in Keys : ~Current(j)' BY <2>1, <2>2, PresentPlace DEF Current, Present
  <2>5. RowsCoherent' /\ DetectorsAbreast' BY <2>1 DEF RowsCoherent, DetectorsAbreast
  <2>6. WorkersTruthful' BY <2>1, <2>2, <2>4 DEF WorkersTruthful, Writing
  <2>7. HiddenTruthful' /\ HiddenSeen' BY <2>1, <2>2, <2>3 DEF HiddenTruthful, HiddenSeen
  <2> QED BY <2>5, <2>6, <2>7
<1>6. CASE Crash BY <1>6, ForgetClaims DEF Crash
<1> QED BY <1>1, <1>2, <1>3, <1>4, <1>5, <1>6 DEF Environment

\* Every folder is listed, with all its keys, before anything is claimed.
LEMMA FolderStepsClaims ==
    ASSUME Undisturbed, FullyListed, ClaimInv,
           \/ \E folders \in SUBSET Colls : StartPass(folders)
           \/ \E c \in Colls, keysOk \in BOOLEAN : ListFolder(c, keysOk)
           \/ FinishFolder \/ AbortPass
           \/ BeginRemovals \/ BeginDiscarded \/ BeginMoves \/ EndPass
    PROVE  ClaimParts'
<1> USE DEF ClaimInv, ClaimParts, CursorInv, CursorParts
<1> WorldOK /\ UsedOK /\ RowsOK /\ FolderOK /\ WorkOK BY TypeParts
<1>1. ASSUME NEW folders \in SUBSET Colls, StartPass(folders) PROVE ClaimParts'
  <2>1. /\ UNCHANGED <<src, cursor, fresh, here, since, work, ledger, queue, seen>>
        /\ phase = "idle" /\ phase' = "folders" /\ todo' = Colls
    BY <1>1 DEF StartPass, Fault, FullyListed, world
  <2>2. here = None BY <2>1 DEF PassShape
  <2>3. \A k \in Keys : /\ ~Current(k) /\ ~Current(k)'
                        /\ CoveredByCursor(k)' <=> CoveredByCursor(k)
    BY <2>1, <2>2, PresentPlace DEF Current, CoveredByCursor, Present, PlaceOf
  <2>4. RowsCoherent' BY <2>1 DEF RowsCoherent
  <2>5. WorkersTruthful' BY <2>1, <2>3 DEF WorkersTruthful
  <2>6. HiddenTruthful' BY <2>1, <2>3 DEF HiddenTruthful
  <2>7. HiddenSeen'
    <3>1. \A k \in Keys : CoveredByCursor(k)' => src'[k].coll \in todo'
      BY <2>1, <2>3 DEF CoveredByCursor, WorldOK
    <3> QED BY <2>1, <2>3, <3>1 DEF HiddenSeen
  <2>8. DetectorsAbreast' BY <2>1 DEF DetectorsAbreast
  <2> QED BY <2>4, <2>5, <2>6, <2>7, <2>8
<1>2. ASSUME NEW c \in Colls, NEW keysOk \in BOOLEAN, ListFolder(c, keysOk) PROVE ClaimParts'
  <2>1. /\ UNCHANGED <<src, cursor, fresh, ledger, phase>>
        /\ phase = "folders" /\ here' = c /\ since' = {} /\ todo' = todo \ {c} /\ c # None
        /\ keysOk
    BY <1>2 DEF ListFolder, Fault, FullyListed, world
  <2>2. seen' = seen \cup {<<c, k>> : k \in {j \in Keys : Present(j) /\ src[j].coll = c}}
    BY <1>2, <2>1 DEF ListFolder, FullyListed, Undisturbed
  <2>3. ASSUME NEW k \in Keys
        PROVE  \/ k \in Listed(c) /\ work'[k].at = "todo"
               \/ k \notin Listed(c) /\ work'[k].at = "out"
    <3>1. CASE k \in Listed(c) BY <1>2, <3>1 DEF ListFolder, Out
    <3>2. CASE k \notin Listed(c) BY <1>2, <3>2 DEF ListFolder, Out
    <3> QED BY <3>1, <3>2
  <2>4. \A k \in Keys : CoveredByCursor(k)' <=> CoveredByCursor(k)
    BY <2>1 DEF CoveredByCursor, Present, PlaceOf
  <2>5. RowsCoherent' BY <2>1 DEF RowsCoherent
  <2>6. WorkersTruthful'
    <3> SUFFICES ASSUME NEW k \in Keys, Current(k)', work'[k].at = "out"
                 PROVE  Truthful(ledger[k], c)
      BY <2>1, <2>3 DEF WorkersTruthful, Writing
    <3>1. Present(k) /\ src[k].coll = c /\ k \notin Listed(c)
      BY <2>1, <2>3 DEF Current, Present
    <3>2. CoveredByCursor(k) BY <3>1 DEF Listed, CoveredByCursor, PlaceOf
    <3> QED BY <3>1, <3>2 DEF HiddenTruthful
  <2>7. HiddenTruthful' BY <2>1, <2>4 DEF HiddenTruthful
  <2>8. HiddenSeen'
    <3>1. \A k \in Keys : Present(k) /\ src[k].coll = c => PlaceOf(k) \in seen'
      BY <2>2 DEF PlaceOf
    <3> SUFFICES ASSUME NEW k \in Keys,
                        (CoveredByCursor(k) /\ src[k].coll \notin todo') \/ Current(k)'
                 PROVE  PlaceOf(k) \in seen'
      BY <2>1, <2>4 DEF HiddenSeen, PlaceOf
    <3>2. Present(k) BY <2>1 DEF CoveredByCursor, Current, Present
    <3>3. CASE src[k].coll = c BY <3>1, <3>2, <3>3
    <3>4. CASE src[k].coll # c
      <4>1. CoveredByCursor(k) /\ src[k].coll \notin todo BY <2>1, <3>4 DEF Current
      <4> QED BY <2>1, <2>2, <4>1 DEF HiddenSeen
    <3> QED BY <3>3, <3>4
  <2>9. DetectorsAbreast' BY <2>1 DEF DetectorsAbreast
  <2> QED BY <2>5, <2>6, <2>7, <2>8, <2>9
<1>3. CASE FinishFolder
  <2>1. /\ UNCHANGED <<src, ledger, phase, queue, work, seen, todo, placed>>
        /\ here' = None /\ since' = {} /\ \A k \in Keys : work[k].at = "out"
        /\ here # None
    BY <1>3 DEF FinishFolder
  <2>2. \A k \in Keys : ~Current(k)' BY <2>1, PresentPlace DEF Current, Present
  <2>3. ASSUME NEW k \in Keys, CoveredByCursor(k)'
        PROVE  \/ CoveredByCursor(k)
               \/ Current(k) /\ src[k].coll = here
    <3>1. CASE UNCHANGED <<cursor, fresh>>
      BY <2>1, <2>3, <3>1 DEF CoveredByCursor, Present, PlaceOf
    <3>2. CASE /\ cursor' = cursor \cup {here}
               /\ fresh' = {p \in fresh : p[1] # here} \cup since
      <4>1. Present(k) /\ src[k].coll \in cursor \cup {here} /\ <<src[k].coll, k>> \notin fresh'
        BY <2>1, <2>3, <3>2 DEF CoveredByCursor, Present, PlaceOf
      <4>2. CASE src[k].coll = here BY <3>2, <4>1, <4>2 DEF Current
      <4>3. CASE src[k].coll # here
        <5>1. <<src[k].coll, k>>[1] # here BY <4>3
        <5>2. <<src[k].coll, k>> \notin fresh BY <3>2, <4>1, <5>1
        <5> QED BY <4>1, <4>3, <5>2 DEF CoveredByCursor, PlaceOf
      <4> QED BY <4>2, <4>3
    <3> QED BY <1>3, <3>1, <3>2 DEF FinishFolder
  <2>4. RowsCoherent' /\ DetectorsAbreast' BY <2>1 DEF RowsCoherent, DetectorsAbreast
  <2>5. WorkersTruthful' BY <2>1, <2>2 DEF WorkersTruthful, Writing
  <2>6. HiddenTruthful'
    BY <2>1, <2>3 DEF HiddenTruthful, WorkersTruthful
  <2>7. HiddenSeen'
    <3>1. here' \notin cursor'
      <4>1. cursor' \subseteq Colls BY <1>3, <2>1 DEF FinishFolder, WorldOK, FolderOK
      <4> QED BY <2>1, <4>1
    <3>2. \A k \in Keys : PlaceOf(k)' = PlaceOf(k) BY <2>1 DEF PlaceOf
    <3> QED BY <2>1, <2>2, <2>3, <3>1, <3>2 DEF HiddenSeen
  <2> QED BY <2>4, <2>5, <2>6, <2>7
<1>4. CASE AbortPass \/ EndPass BY <1>4, ForgetClaims DEF AbortPass, EndPass
<1>5. CASE BeginRemovals \/ BeginDiscarded \/ BeginMoves
  <2>1. /\ UNCHANGED <<src, cursor, fresh, here, since, work, ledger, todo, seen>>
        /\ phase # "idle" /\ todo = {}
        /\ phase' = "moves" => placed' = ledger /\ \A k \in queue' : Placed(ledger[k])
    BY <1>5 DEF BeginRemovals, BeginDiscarded, BeginMoves, Proceed, world
  <2>2. DetectorsAbreast' BY <2>1 DEF DetectorsAbreast
  <2> QED BY <2>1, <2>2, QuietClaims DEF RowsCoherent
<1> QED BY <1>1, <1>2, <1>3, <1>4, <1>5

\* What is left of the claims about an item once it is found again.
LEMMA SettleClaims ==
    ASSUME ClaimInv, NEW k \in Keys, SettleItem(k)
    PROVE  \E w, r : /\ Goes(k, w) /\ ledger' = [ledger EXCEPT ![k] = r]
                     /\ RowCoherent(r) /\ Truthful(r, here)
<1> USE DEF ClaimInv, ClaimParts, CursorInv, CursorParts
<1> WorldOK /\ UsedOK /\ RowsOK /\ FolderOK /\ WorkOK BY TypeParts
<1> DEFINE known == work[k].known
           again == Reappeared(known, ledger[k])
           back == MovedBack(known, again)
           action == classifyKnownItem(known, work[k].version, here)
<1>0. work[k].at = "settle" /\ here # None BY DEF SettleItem, ItemStep
<1>1. ledger[k] = known /\ Found(known) /\ known \in Row /\ RowCoherent(known)
  BY <1>0 DEF WorkersAbreast, Abreast, RowsOK, RowsCoherent
<1>2. /\ again \in Row /\ SameCopy(known, again)
      /\ again.movedToCollection = known.movedToCollection
      /\ back \in Row /\ SameCopy(known, back)
  BY <1>1, ReturnKeepsCopy
<1>3. /\ RowCoherent(again) /\ ~DeletionConfirmed(again)
      /\ again.movedToNaturalKeyHash = known.movedToNaturalKeyHash
  <2>1. clearAbsent(known).movedToNaturalKeyHash = known.movedToNaturalKeyHash
    BY <1>1 DEF clearAbsent, Row
  <2>2. ~(known.absentPasses > 0 \/ known.deletionReported \/ known.deletionTrashed)
        => ~DeletionConfirmed(known)
    <3>1. DELETION_CONFIRMATIONS > 0 /\ DELETION_CONFIRMATIONS \in Nat OBVIOUS
    <3>2. known.absentPasses \in Nat BY <1>1 DEF Row
    <3> QED BY <3>1, <3>2 DEF DeletionConfirmed
  <2> QED BY <1>1, <2>1, <2>2, WithdrawalsTruthful DEF Reappeared
<1>4. RowCoherent(back) /\ Truthful(back, here)
  <2>1. Found(again) BY <1>1, <1>2 DEF Found, SameCopy
  <2> HIDE DEF again
  <2>2. CASE known.movedToCollection # None
    <3>1. back = clearMove(again) BY <2>2 DEF MovedBack
    <3>2. RowCoherent(back) /\ back.movedToCollection = None /\ back.movedToNaturalKeyHash = None
      BY <1>2, <1>3, <2>1, <3>1, WithdrawalsTruthful
    <3>3. ~DeletionConfirmed(back) BY <1>2, <1>3, <3>1 DEF clearMove, DeletionConfirmed, Row
    <3> QED BY <3>2, <3>3 DEF Truthful
  <2>3. CASE known.movedToCollection = None
    BY <1>1, <1>2, <1>3, <2>3 DEF MovedBack, Truthful, RowCoherent
  <2> QED BY <2>2, <2>3
<1>5. CASE action = "moved"
  <2> DEFINE r == IF decided(known, here, None) THEN again ELSE recordMove(again, here, None)
  <2>1. Goes(k, Out) BY <1>5 DEF SettleItem, Done
  <2>2. ledger' = [ledger EXCEPT ![k] = r]
    <3> HIDE DEF again, back, action, known
    <3> QED BY <1>5 DEF SettleItem, again, known, action
  <2>3. CASE decided(known, here, None)
    BY <1>2, <1>3, <2>1, <2>2, <2>3 DEF decided, Truthful
  <2>4. CASE ~decided(known, here, None)
    <3> HIDE DEF again
    <3>1. r = recordMove(again, here, None) BY <2>4
    <3>2. /\ r.status = again.status /\ r.movedToCollection = here
          /\ r.movedToNaturalKeyHash = None
          /\ DeletionConfirmed(r) <=> DeletionConfirmed(again)
      BY <1>2, <3>1 DEF recordMove, DeletionConfirmed, Row
    <3> HIDE DEF r
    <3>3. Found(r) BY <1>1, <1>2, <3>2 DEF Found, SameCopy
    <3> QED BY <1>0, <1>3, <2>1, <2>2, <3>2, <3>3 DEF Truthful, RowCoherent
  <2> QED BY <2>3, <2>4
<1>6. CASE action = "record-version"
  <2> DEFINE r == recordUpdate(back, known.status, work[k].version, known.contentHash,
                               known.targetVersion, known.collection)
  <2>1. Goes(k, Out) BY <1>6 DEF SettleItem, Done
  <2>2. ledger' = [ledger EXCEPT ![k] = r]
    <3> HIDE DEF again, back, action, known
    <3> QED BY <1>6 DEF SettleItem, again, back, known, action
  <2>3. known.status \in Statuses \ {"absent"} BY <1>1 DEF Found, Row
  <2> HIDE DEF back
  <2>4. RowCoherent(r) /\ SameClaims(back, r) BY <1>2, <1>4, <2>3, OutcomesClaimNothing
  <2> HIDE DEF r
  <2>5. Truthful(r, here) BY <1>4, <2>4, ClaimsStand
  <2> QED BY <2>1, <2>2, <2>4, <2>5
<1>7. CASE action \notin {"moved", "record-version"}
  <2>1. ledger' = [ledger EXCEPT ![k] = back]
    <3> HIDE DEF again, back, action, known
    <3> QED BY <1>7 DEF SettleItem, again, back, known, action
  <2>2. \E w : Goes(k, w) BY DEF SettleItem, Done
  <2> QED BY <1>4, <2>1, <2>2
<1> QED BY <1>5, <1>6, <1>7

\* The steps of a worker.
LEMMA WorkerClaims ==
    ASSUME Undisturbed, ClaimInv, NEW k \in Keys,
           \/ TakeItem(k) \/ SettleItem(k) \/ FetchItem(k) \/ FetchFails(k)
           \/ \E answered \in BOOLEAN : CheckOwnership(k, answered) \/ CheckExisting(k, answered)
           \/ \E tagged \in BOOLEAN : PutItem(k, tagged)
           \/ PutFails(k) \/ RecordItem(k) \/ RecordConflict(k)
    PROVE  ClaimParts'
<1> USE DEF ClaimInv, ClaimParts, CursorInv, CursorParts
<1> WorldOK /\ UsedOK /\ RowsOK /\ FolderOK /\ WorkOK BY TypeParts
<1>u. /\ UNCHANGED <<src, cursor, fresh, here, since, todo, phase>>
      /\ work[k].at # "out" /\ phase = "folders"
  BY DEF TakeItem, SettleItem, FetchItem, FetchFails, CheckOwnership, CheckExisting, PutItem,
         PutFails, RecordItem, RecordConflict, ItemStep, world
<1>n. seen \subseteq seen'
  BY DEF TakeItem, SettleItem, FetchItem, FetchFails, CheckOwnership, CheckExisting, PutItem,
         PutFails, RecordItem, RecordConflict, ItemStep, world
<1>w. /\ work[k] \in Work /\ ledger[k] \in Row /\ ledger = [ledger EXCEPT ![k] = ledger[k]]
      /\ RowCoherent(ledger[k])
      /\ work[k].at \in Writing => Truthful(ledger[k], here)
  <2>1. work[k] \in Work /\ ledger[k] \in Row /\ ledger = [ledger EXCEPT ![k] = ledger[k]]
    BY DEF WorkOK, RowsOK
  <2>2. RowCoherent(ledger[k]) BY DEF RowsCoherent
  <2>3. work[k].at \in Writing => Truthful(ledger[k], here) BY DEF WorkersTruthful
  <2> QED BY <2>1, <2>2, <2>3
<1>1. CASE TakeItem(k)
  <2> DEFINE at == IF Found(ledger[k]) THEN "settle" ELSE "fetch"
             w == [work[k] EXCEPT !.known = ledger[k], !.at = at]
  <2>1. Goes(k, w) /\ UNCHANGED ledger BY <1>1 DEF TakeItem, Undisturbed
  <2>2. w.at = at BY <1>w DEF Work
  <2>3. ~Found(ledger[k]) => Truthful(ledger[k], here)
    BY <1>w, NoRowTruthful, ClaimsStand DEF RowCoherent
  <2> HIDE DEF w
  <2>4. w.at \in Writing \cup {"out"} => Truthful(ledger[k], here) BY <2>2, <2>3 DEF Writing
  <2> QED BY <1>n, <1>u, <1>w, <2>1, <2>4, OneGoesTruthful
<1>2. CASE SettleItem(k) BY <1>2, <1>n, <1>u, SettleClaims, OneGoesTruthful
<1>3. CASE \/ FetchItem(k)
           \/ \E answered \in BOOLEAN : CheckOwnership(k, answered) \/ CheckExisting(k, answered)
           \/ \E tagged \in BOOLEAN : PutItem(k, tagged)
  <2>1. UNCHANGED ledger /\ work[k].at \in Writing /\ \E w : Goes(k, w)
    BY <1>3 DEF FetchItem, CheckOwnership, CheckExisting, PutItem, ItemStep, Writing, world,
                Undisturbed
  <2> QED BY <1>n, <1>u, <1>w, <2>1, OneGoesTruthful
<1>4. CASE FetchFails(k) \/ PutFails(k)
  <2>1. PICK hash : ItemFails(k, hash) BY <1>4 DEF FetchFails, PutFails
  <2> DEFINE r == recordFailure(ledger[k], hash)
  <2>2. Goes(k, Out) /\ ledger' = [ledger EXCEPT ![k] = r]
    BY <2>1 DEF ItemFails, Undisturbed, Done
  <2>3. "failed" \in Statuses \ {"absent"} BY DEF Statuses
  <2>4. RowCoherent(r) /\ SameClaims(ledger[k], r) BY <1>w, <2>3, OutcomesClaimNothing
  <2>5. work[k].at \in Writing BY <1>4 DEF FetchFails, PutFails, ItemStep, Writing
  <2> HIDE DEF r
  <2>6. Truthful(r, here) BY <1>w, <2>4, <2>5, ClaimsStand
  <2> QED BY <1>n, <1>u, <2>2, <2>4, <2>6, OneGoesTruthful
<1>5. CASE RecordItem(k) \/ RecordConflict(k)
  <2>1. work[k].at \in Writing /\ Goes(k, Out)
    BY <1>5 DEF RecordItem, RecordConflict, ItemStep, Writing, Done
  <2>2. \E r : /\ ledger' = [ledger EXCEPT ![k] = r]
               /\ RowCoherent(r) /\ SameClaims(ledger[k], r)
    <3>1. ASSUME NEW status \in {"copied", "adopted", "updated"}
          PROVE  \A version, hash, etag, coll :
                    /\ LET r == recordUpdate(ledger[k], status, version, hash, etag, coll)
                       IN  RowCoherent(r) /\ SameClaims(ledger[k], r)
                    /\ LET r == recordIfAbsent(ledger[k], status, version, hash, etag, coll)
                       IN  RowCoherent(r) /\ SameClaims(ledger[k], r)
      <4>1. status \in Statuses \ {"absent"} BY DEF Statuses
      <4> QED BY <1>w, <4>1, OutcomesClaimNothing
    <3>2. CASE RecordItem(k)
      <4> DEFINE status == CASE work[k].result = "created" -> "copied"
                             [] work[k].result = "adopted" -> "adopted"
                             [] OTHER -> "updated"
      <4>1. status \in {"copied", "adopted", "updated"} OBVIOUS
      <4>2. ledger' = [ledger EXCEPT ![k] =
                IF Found(work[k].known)
                THEN recordUpdate(ledger[k], status, work[k].version, work[k].raw,
                                  work[k].targetVersion, here)
                ELSE recordIfAbsent(ledger[k], status, work[k].version, work[k].raw,
                                    work[k].targetVersion, here)]
        BY <3>2 DEF RecordItem
      <4> HIDE DEF status
      <4> QED BY <3>1, <4>1, <4>2
    <3>3. CASE RecordConflict(k) BY <3>1, <3>3 DEF RecordConflict
    <3> QED BY <1>5, <3>2, <3>3
  <2>3. PICK r : /\ ledger' = [ledger EXCEPT ![k] = r]
                 /\ RowCoherent(r) /\ SameClaims(ledger[k], r)
    BY <2>2
  <2>4. Truthful(r, here) BY <1>w, <2>1, <2>3, ClaimsStand
  <2> QED BY <1>n, <1>u, <2>1, <2>3, <2>4, OneGoesTruthful
<1> QED BY <1>1, <1>2, <1>3, <1>4, <1>5

\* The detectors claim nothing of an item they have seen.
LEMMA DetectorClaims ==
    ASSUME ClaimInv, NEW k \in Keys,
           resolveReportedRemoval(k) \/ resolveDiscardedItem(k) \/ detectPathKeyedMove(k)
    PROVE  ClaimParts'
<1> USE DEF ClaimInv, ClaimParts, CursorInv, CursorParts
<1> WorldOK /\ UsedOK /\ RowsOK /\ FolderOK /\ WorkOK BY TypeParts
<1> DEFINE old == ledger[k]
<1>1. /\ UNCHANGED <<src, cursor, fresh, here, since, work, todo, seen, phase, placed>>
      /\ phase \notin {"idle", "folders"} /\ queue' = queue \ {k} /\ k \in queue
  BY DEF resolveReportedRemoval, resolveDiscardedItem, detectPathKeyedMove, Inspects, world
<1>2. here = None /\ todo = {} BY <1>1 DEF PassShape, DetectorsAbreast
<1>3. ASSUME CoveredByCursor(k) PROVE PlaceOf(k) \in seen
  BY <1>1, <1>2, <1>3 DEF HiddenSeen
<1>4. CoveredByCursor(k) => SeenAnywhere(k)
  BY <1>3, PresentPlace DEF SeenAnywhere, CoveredByCursor, PlaceOf
<1>l. old \in Row /\ RowCoherent(old) BY DEF RowsOK, RowsCoherent
<1>e. ledger = [ledger EXCEPT ![k] = old] BY DEF RowsOK
<1>5. \E r : /\ ledger' = [ledger EXCEPT ![k] = r] /\ RowCoherent(r)
             /\ CoveredByCursor(k) => \A coll : Truthful(old, coll) => Truthful(r, coll)
  <2>1. CASE resolveReportedRemoval(k)
    <3>1. isOnTarget(old) => RowCoherent(recordReportedDeletion(old))
      BY <1>l DEF isOnTarget, RowCoherent, Found, recordReportedDeletion, Row
    <3> QED BY <1>4, <1>e, <1>l, <2>1, <3>1 DEF resolveReportedRemoval
  <2>2. CASE resolveDiscardedItem(k)
    <3>1. isOnTarget(old) => RowCoherent(recordTrashedDeletion(old))
      BY <1>l DEF isOnTarget, RowCoherent, Found, recordTrashedDeletion, Row
    <3> QED BY <1>4, <1>e, <1>l, <2>2, <3>1 DEF resolveDiscardedItem
  <2>3. CASE detectPathKeyedMove(k)
    <3>1. PathKeyed /\ placed[k] = old /\ Placed(old)
      BY <1>1, <2>3 DEF detectPathKeyedMove, Inspects, PassShape, DetectorsAbreast
    <3>2. Found(old) /\ old.collection # None BY <3>1 DEF Placed, Found
    <3>3. CoveredByCursor(k) => <<old.collection, k>> \in seen
      <4> SUFFICES ASSUME CoveredByCursor(k) PROVE <<old.collection, k>> \in seen
        OBVIOUS
      <4>1. Present(k) /\ <<src[k].coll, k>> \in seen BY <1>3 DEF CoveredByCursor, PlaceOf
      <4>2. <<src[k].coll, k>> \in Places BY <4>1, PresentPlace
      <4>3. <<old.collection, k>> \in Places BY <3>2 DEF RowsPlaced, RowPlaced
      <4>4. src[k].coll = old.collection BY <3>1, <4>2, <4>3, OnePlace
      <4> QED BY <4>1, <4>4
    <3>4. CASE StillThere(k)
      <4> DEFINE row == IF old.movedToCollection # None THEN clearMove(old) ELSE old
                 r == IF old.absentPasses > 0 THEN clearAbsent(row) ELSE row
      <4>1. ledger' = [ledger EXCEPT ![k] = r] BY <3>1, <3>4 DEF StillThere
      <4>2. /\ row \in Row /\ RowCoherent(row) /\ Found(row)
            /\ \A coll : Truthful(old, coll) => Truthful(row, coll)
        <5>1. Found(clearMove(old)) BY <1>l, <3>2 DEF Found, clearMove, Row
        <5> QED BY <1>l, <3>2, <5>1, ClaimTypes, WithdrawalsTruthful
      <4> HIDE DEF row
      <4>3. RowCoherent(r) /\ \A coll : Truthful(row, coll) => Truthful(r, coll)
        BY <4>2, WithdrawalsTruthful
      <4> HIDE DEF r
      <4> QED BY <4>1, <4>2, <4>3
    <3>5. CASE MovedAway(k) /\ ~CoveredByCursor(k)
      <4>1. PICK a \in createdThisPass : ledger' = [ledger EXCEPT ![k] = recordMove(old, a.collection, a.key)]
        BY <3>5 DEF MovedAway
      <4>2. a.collection # None BY <4>1 DEF FolderOK, Arrivals
      <4> DEFINE r == recordMove(old, a.collection, a.key)
      <4>3. r.status = old.status /\ r.movedToCollection = a.collection
        BY <1>l DEF recordMove, Row
      <4> HIDE DEF r
      <4>4. RowCoherent(r) BY <3>2, <4>2, <4>3 DEF RowCoherent, Found
      <4> QED BY <3>5, <4>1, <4>4 DEF r
    <3>6. CASE Vanished(k) /\ ~CoveredByCursor(k)
      <4> DEFINE r == recordAbsent(old)
      <4>1. ledger' = [ledger EXCEPT ![k] = r] BY <3>6 DEF Vanished
      <4>2. /\ r.status = old.status /\ r.movedToCollection = old.movedToCollection
            /\ r.movedToNaturalKeyHash = old.movedToNaturalKeyHash
        BY <1>l DEF recordAbsent, Row
      <4> HIDE DEF r
      <4>3. RowCoherent(r) BY <1>l, <3>2, <4>2 DEF RowCoherent, Found
      <4> QED BY <3>6, <4>1, <4>3
    <3>7. CASE UNCHANGED ledger BY <1>e, <1>l, <3>7
    <3> QED BY <2>3, <3>1, <3>3, <3>4, <3>5, <3>6, <3>7 DEF detectPathKeyedMove
  <2> QED BY <2>1, <2>2, <2>3
<1>6. PICK r : /\ ledger' = [ledger EXCEPT ![k] = r] /\ RowCoherent(r)
               /\ CoveredByCursor(k) => \A coll : Truthful(old, coll) => Truthful(r, coll)
  BY <1>5
<1>7. ledger'[k] = r /\ \A j \in Keys : j # k => ledger'[j] = ledger[j] BY <1>6 DEF RowsOK
<1>8. DetectorsAbreast' BY <1>1, <1>2, <1>7 DEF DetectorsAbreast, FolderOK
<1>9. \A j \in Keys : /\ RowCoherent(ledger'[j])
                      /\ CoveredByCursor(j) =>
                            \A coll : Truthful(ledger[j], coll) => Truthful(ledger'[j], coll)
  BY <1>6, <1>7 DEF RowsCoherent
<1> QED BY <1>1, <1>2, <1>8, <1>9, QuietClaims

\* Every step keeps the claims truthful.
LEMMA ClaimNext ==
    ASSUME Undisturbed, FullyListed, ClaimInv, [Next]_vars
    PROVE  ClaimInv'
<1>1. CursorInv' BY CursorNext DEF ClaimInv
<1>2. ClaimParts'
  <2>1. CASE Environment BY <2>1, EnvironmentClaims
  <2>2. ASSUME NEW k \in Keys, ItemSteps(k) PROVE ClaimParts'
    BY <2>2, WorkerClaims, DetectorClaims DEF ItemSteps
  <2>3. CASE PassSteps BY <2>2, <2>3, FolderStepsClaims DEF PassSteps
  <2>4. CASE UNCHANGED vars
    <3>1. UNCHANGED <<src, cursor, fresh, here, since, work, todo, seen, phase, ledger, queue,
                      placed>>
      BY <2>4 DEF vars, passVars
    <3>2. DetectorsAbreast' BY <3>1 DEF ClaimInv, ClaimParts, DetectorsAbreast
    <3> QED BY <3>1, <3>2, QuietClaims DEF ClaimInv, ClaimParts, RowsCoherent
  <2> QED BY <2>1, <2>3, <2>4 DEF Next
<1> QED BY <1>1, <1>2 DEF ClaimInv

\* At the start there are no claims.
LEMMA ClaimStarts == Init => ClaimInv
<1> SUFFICES ASSUME Init PROVE ClaimInv
  OBVIOUS
<1>1. CursorInv BY CursorStarts
<1> WorldOK BY <1>1, TypeParts DEF CursorInv
<1>2. /\ phase = "idle" /\ here = None /\ cursor = {} /\ todo = {}
      /\ \A k \in Keys : work[k].at = "out"
  BY DEF Init, NoPass, Out
<1>3. \A k \in Keys : ~Current(k) /\ ~CoveredByCursor(k)
  BY <1>2, PresentPlace DEF Current, CoveredByCursor
<1>4. RowsCoherent
  <2>1. \A b : RowCoherent(legacyRow(b)) BY DEF legacyRow, NoRow, RowCoherent, Found
  <2>2. RowCoherent(NoRow) BY DEF NoRow, RowCoherent, SameClaims
  <2> QED BY <2>1, <2>2 DEF Init, RowsCoherent
<1>5. WorkersTruthful /\ HiddenTruthful
  BY <1>2, <1>3 DEF WorkersTruthful, HiddenTruthful, Writing
<1>6. HiddenSeen /\ DetectorsAbreast BY <1>2 DEF HiddenSeen, DetectorsAbreast
<1> QED BY <1>1, <1>4, <1>5, <1>6 DEF ClaimInv, ClaimParts

\* The inductive invariant of the claims holds in every reachable state.
LEMMA ClaimsAlways ==
    ASSUME Undisturbed, FullyListed
    PROVE  Spec => []ClaimInv
  BY ClaimStarts, ClaimNext, PTL DEF Spec

\* A claim that an item was deleted never outlives the item's return: the cursor
\* hides no item with such a claim, where the source lists every key.
THEOREM DeletionClaimsAreCurrent ==
    ASSUME Undisturbed, FullyListed
    PROVE  Spec => []DeletionClaimIsCurrent
<1>1. ClaimInv => DeletionClaimIsCurrent
  BY DEF ClaimInv, ClaimParts, HiddenTruthful, Truthful, DeletionClaimIsCurrent
<1> QED BY <1>1, ClaimsAlways, PTL

\* Nor does a recorded move outlive its cause.
THEOREM MoveClaimsAreCurrent ==
    ASSUME Undisturbed, FullyListed
    PROVE  Spec => []MoveClaimIsCurrent
<1>1. ClaimInv => MoveClaimIsCurrent
  BY DEF ClaimInv, ClaimParts, HiddenTruthful, Truthful, MoveClaimIsCurrent
<1> QED BY <1>1, ClaimsAlways, PTL

-----------------------------------------------------------------------------
(* One copy of each item.                                                  *)

\* No write fails and no pass dies, and bodies come with the listing, so that an
\* item cannot leave between its listing and its fetch.  A write that failed is
\* retried in whatever folder the item is listed in next, and would leave its
\* first copy where it was.
Unfailing ==
    /\ ListsBodies /\ Legacy = {} /\ "operator" \notin DuringPass
    /\ {"put_refused", "put_lost", "crash"} \cap Faults = {}

\* A row is about a copy at its collection, or there is none.
RowsLanded ==
    \A k \in Keys : LET row == ledger[k] IN
        /\ row.status \in {"absent", "copied", "updated", "adopted"}
        /\ Found(row) => row.collection # None
        /\ ~Found(row) => row.sourceVersion = None

\* A worker writes where its row says the copy is, or there is no row.
Landing(w, row, coll) ==
    /\ w.at \in Writing => \/ Found(w.known) /\ Found(row) /\ row.collection = coll
                           \/ /\ ~Found(w.known) /\ ~Found(row)
                              /\ w.known.sourceVersion = None
    /\ w.result = "conflicted" => w.at = "record" /\ Found(w.known)

WorkersLanding ==
    \A k \in Keys : Landing(work[k], ledger[k], here)

\* A copy of ours is where its row says, or its row is about to say so.
Landed(k, w, row, held, coll) ==
    \A p \in Places : p[2] = k /\ held[p] \in Contents =>
        \/ Found(row) /\ row.collection = p[1]
        \/ w.at = "record" /\ p[1] = coll

CopiesLanded == \A k \in Keys : Landed(k, work[k], ledger[k], tgt, here)

LandedParts == RowsLanded /\ WorkersLanding /\ CopiesLanded
LandedInv == CursorInv /\ LandedParts

\* A step that keeps the rows' copies and the workers, and puts none of our bytes
\* on the target.
LEMMA QuietLanded ==
    ASSUME LandedInv, UNCHANGED <<work, here>>,
           \A p \in Places : tgt'[p] \in Contents => tgt[p] \in Contents,
           \A k \in Keys : /\ ledger'[k].status = ledger[k].status
                           /\ ledger'[k].collection = ledger[k].collection
                           /\ ledger'[k].sourceVersion = ledger[k].sourceVersion
    PROVE  LandedParts'
<1> USE DEF LandedInv, LandedParts, CursorInv, CursorParts
<1>1. \A k \in Keys : Found(ledger'[k]) <=> Found(ledger[k]) BY DEF Found
<1>2. RowsLanded' BY <1>1 DEF RowsLanded
<1>3. WorkersLanding' BY <1>1 DEF WorkersLanding, Landing
<1>4. CopiesLanded' BY <1>1 DEF CopiesLanded, Landed
<1> QED BY <1>2, <1>3, <1>4

\* The workers are done, whichever folder comes next.
LEMMA FolderLanded ==
    ASSUME LandedInv, UNCHANGED <<tgt, ledger>>, \A k \in Keys : ~Busy(k),
           \A k \in Keys : work'[k].at \in {"out", "todo"} /\ work'[k].result = "none"
    PROVE  LandedParts'
<1> USE DEF LandedInv, LandedParts
<1>1. RowsLanded' BY DEF RowsLanded
<1>2. WorkersLanding' BY DEF WorkersLanding, Landing, Writing
<1>3. CopiesLanded'
  <2>1. \A k \in Keys : work[k].at # "record" BY DEF Busy
  <2> QED BY <2>1 DEF CopiesLanded, Landed
<1> QED BY <1>1, <1>2, <1>3

\* One worker goes on, at the place of its item.
LEMMA OneGoesLanded ==
    ASSUME LandedInv, NEW k \in Keys, UNCHANGED here,
           NEW w, Goes(k, w), NEW r, ledger' = [ledger EXCEPT ![k] = r],
           r.status \in {"absent", "copied", "updated", "adopted"},
           Found(r) => r.collection # None,
           ~Found(r) => r.sourceVersion = None,
           Landing(w, r, here),
           \A p \in Places : tgt'[p] # tgt[p] => p = <<here, k>>,
           Landed(k, w, r, tgt', here)
    PROVE  LandedParts'
<1> USE DEF LandedInv, LandedParts, CursorInv, CursorParts
<1> RowsOK /\ WorkOK BY TypeParts
<1>1. /\ work'[k] = w /\ ledger'[k] = r
      /\ \A j \in Keys : j # k => work'[j] = work[j] /\ ledger'[j] = ledger[j]
  BY DEF Goes, WorkOK, RowsOK
<1>2. RowsLanded' BY <1>1 DEF RowsLanded
<1>3. WorkersLanding' BY <1>1 DEF WorkersLanding
<1>4. CopiesLanded'
  <2>1. ASSUME NEW j \in Keys, j # k PROVE Landed(j, work[j], ledger[j], tgt', here)
    <3> SUFFICES ASSUME NEW p \in Places, p[2] = j, tgt'[p] \in Contents
                 PROVE  \/ Found(ledger[j]) /\ ledger[j].collection = p[1]
                        \/ work[j].at = "record" /\ p[1] = here
      BY DEF Landed
    <3>1. tgt'[p] = tgt[p] BY <2>1
    <3> QED BY <3>1 DEF CopiesLanded, Landed
  <2> QED BY <1>1, <2>1 DEF CopiesLanded
<1> QED BY <1>2, <1>3, <1>4

\* The steps of a worker.
LEMMA WorkerLanded ==
    ASSUME Unfailing, LandedInv, NEW k \in Keys,
           \/ TakeItem(k) \/ SettleItem(k) \/ FetchItem(k) \/ FetchFails(k)
           \/ \E answered \in BOOLEAN : CheckOwnership(k, answered) \/ CheckExisting(k, answered)
           \/ \E tagged \in BOOLEAN : PutItem(k, tagged)
           \/ PutFails(k) \/ RecordItem(k) \/ RecordConflict(k)
    PROVE  LandedParts'
<1> USE DEF LandedInv, LandedParts, CursorInv, CursorParts
<1> WorldOK /\ UsedOK /\ RowsOK /\ FolderOK /\ WorkOK BY TypeParts
<1>k. k \notin Unkeyed BY DEF Unfailing
<1>u. UNCHANGED here /\ here # None /\ work[k].at # "out"
  BY DEF TakeItem, SettleItem, FetchItem, FetchFails, CheckOwnership, CheckExisting, PutItem,
         PutFails, RecordItem, RecordConflict, ItemStep
<1>w. /\ work[k] \in Work /\ ledger[k] \in Row /\ ledger = [ledger EXCEPT ![k] = ledger[k]]
      /\ <<here, k>> \in Places
  BY <1>u DEF WorkOK, RowsOK, WorkersOK, WorkerOK
<1>r. /\ ledger[k].status \in {"absent", "copied", "updated", "adopted"}
      /\ Found(ledger[k]) => ledger[k].collection # None
      /\ ~Found(ledger[k]) => ledger[k].sourceVersion = None
  BY DEF RowsLanded
<1>l. Landing(work[k], ledger[k], here) BY DEF WorkersLanding
<1>c. Landed(k, work[k], ledger[k], tgt, here) BY DEF CopiesLanded
<1>a. Abreast(work[k], ledger[k]) BY DEF WorkersAbreast
<1>g. ASSUME UNCHANGED <<tgt, ledger>>, work[k].at # "record", NEW w, Goes(k, w),
             Landing(w, ledger[k], here)
      PROVE  LandedParts'
  <2>1. Landed(k, w, ledger[k], tgt', here) BY <1>c, <1>g DEF Landed
  <2> QED BY <1>g, <1>r, <1>u, <1>w, <2>1, OneGoesLanded
<1>1. CASE TakeItem(k)
  <2> DEFINE at == IF Found(ledger[k]) THEN "settle" ELSE "fetch"
             w == [work[k] EXCEPT !.known = ledger[k], !.at = at]
  <2>1. Goes(k, w) /\ UNCHANGED <<tgt, ledger>> /\ work[k].at = "todo"
    BY <1>1, <1>k DEF TakeItem, ItemStep, world
  <2>2. w.at = at /\ w.known = ledger[k] /\ w.result = work[k].result BY <1>w DEF Work
  <2> HIDE DEF w
  <2>3. Landing(w, ledger[k], here) BY <1>l, <1>r, <2>1, <2>2 DEF Landing, Writing
  <2> QED BY <1>g, <2>1, <2>3
<1>2. CASE SettleItem(k)
  <2> DEFINE known == work[k].known
             action == classifyKnownItem(known, work[k].version, here)
  <2>0. work[k].at = "settle" /\ UNCHANGED tgt BY <1>2 DEF SettleItem, ItemStep, world
  <2>1. known = ledger[k] /\ Found(known) /\ known \in Row BY <1>a, <1>w, <2>0 DEF Abreast
  <2>2. known.status \in {"copied", "updated", "adopted"} /\ known.collection # None
    BY <1>r, <2>1 DEF Found
  <2>3. action \notin {"retry-failed", "relocated-away"}
    BY <2>2 DEF classifyKnownItem
  <2>4. action = "rewrite" => known.collection = here BY <2>2 DEF classifyKnownItem
  <2>5. \E r : /\ ledger' = [ledger EXCEPT ![k] = r]
               /\ r.status = known.status /\ r.collection = known.collection
    <3> DEFINE again == Reappeared(known, ledger[k])
               back == MovedBack(known, again)
    <3>1. /\ again \in Row /\ SameCopy(known, again)
          /\ back \in Row /\ SameCopy(known, back)
      BY <2>1, ReturnKeepsCopy
    <3>2. SameCopy(known, recordMove(again, here, None))
      <4>1. SameCopy(again, recordMove(again, here, None)) BY <3>1, ClaimsKeepCopy
      <4> HIDE DEF again
      <4> QED BY <3>1, <4>1 DEF SameCopy
    <3>3. LET r == recordUpdate(back, known.status, work[k].version, known.contentHash,
                                known.targetVersion, known.collection)
          IN  r.status = known.status /\ r.collection = known.collection
      <4> HIDE DEF back, known
      <4> QED BY <2>2, <3>1 DEF recordUpdate, Row
    <3> HIDE DEF again, back, known, action
    <3>4. ledger' = [ledger EXCEPT ![k] =
                CASE action = "moved" ->
                        IF decided(known, here, None) THEN again ELSE recordMove(again, here, None)
                  [] action = "record-version" ->
                        recordUpdate(back, known.status, work[k].version, known.contentHash,
                                     known.targetVersion, known.collection)
                  [] OTHER -> back]
      BY <1>2 DEF SettleItem, again, back, known, action
    <3>5. CASE action = "moved"
      <4>1. ledger' = [ledger EXCEPT ![k] = IF decided(known, here, None) THEN again
                                            ELSE recordMove(again, here, None)]
        BY <3>4, <3>5
      <4> QED BY <3>1, <3>2, <4>1 DEF SameCopy
    <3>6. CASE action = "record-version"
      <4>1. ledger' = [ledger EXCEPT ![k] =
                recordUpdate(back, known.status, work[k].version, known.contentHash,
                             known.targetVersion, known.collection)]
        BY <3>4, <3>6
      <4> QED BY <3>3, <4>1
    <3>7. CASE action \notin {"moved", "record-version"}
      <4>1. ledger' = [ledger EXCEPT ![k] = back] BY <3>4, <3>7
      <4> QED BY <3>1, <4>1 DEF SameCopy
    <3> QED BY <3>5, <3>6, <3>7
  <2>6. PICK r : /\ ledger' = [ledger EXCEPT ![k] = r]
                 /\ r.status = known.status /\ r.collection = known.collection
    BY <2>5
  <2>7. Found(r) BY <2>1, <2>6 DEF Found
  <2>8. \E w : Goes(k, w) /\ Landing(w, r, here) /\ w.at # "record"
    <3>1. CASE action = "rewrite"
      <4> DEFINE w == [work[k] EXCEPT !.at = "fetch"]
      <4>1. Goes(k, w) BY <1>2, <3>1 DEF SettleItem
      <4>2. w.at = "fetch" /\ w.known = known /\ w.result = work[k].result BY <1>w DEF Work
      <4> HIDE DEF w
      <4>3. Landing(w, r, here)
        BY <1>l, <2>0, <2>1, <2>4, <2>6, <2>7, <3>1, <4>2 DEF Landing, Writing
      <4> QED BY <4>1, <4>2, <4>3
    <3>2. CASE action # "rewrite"
      <4>1. Goes(k, Out) BY <1>2, <2>3, <3>2 DEF SettleItem, Done
      <4>2. Landing(Out, r, here) /\ Out.at # "record" BY DEF Landing, Out, Writing
      <4> QED BY <4>1, <4>2
    <3> QED BY <3>1, <3>2
  <2>10. PICK w : Goes(k, w) /\ Landing(w, r, here) BY <2>8
  <2>9. Landed(k, w, r, tgt', here) BY <1>c, <2>0, <2>1, <2>6, <2>7 DEF Landed
  <2>11. r.status \in {"absent", "copied", "updated", "adopted"} /\ r.collection # None
    BY <2>2, <2>6
  <2>12. \A p \in Places : tgt'[p] # tgt[p] => p = <<here, k>> BY <2>0
  <2> QED BY <1>u, <2>6, <2>7, <2>9, <2>10, <2>11, <2>12, OneGoesLanded
<1>3. CASE FetchItem(k)
  <2> DEFINE w == [work[k] EXCEPT !.at = "check", !.raw = Bytes(k)]
  <2>1. Goes(k, w) /\ UNCHANGED <<tgt, ledger>> /\ work[k].at = "fetch"
    BY <1>3, <1>k DEF FetchItem, ItemStep, world
  <2>2. w.at = "check" /\ w.known = work[k].known /\ w.result = work[k].result
    BY <1>w DEF Work
  <2> HIDE DEF w
  <2>3. Landing(w, ledger[k], here) BY <1>l, <2>1, <2>2 DEF Landing, Writing
  <2> QED BY <1>g, <2>1, <2>3
<1>4. CASE FetchFails(k) \/ PutFails(k)
  BY <1>4 DEF FetchFails, PutFails, Unfailing, Fault
<1>5. ASSUME NEW answered \in BOOLEAN, CheckOwnership(k, answered) PROVE LandedParts'
  <2>1. UNCHANGED <<tgt, ledger>> /\ work[k].at = "check" /\ Rewrites(k)
    BY <1>5 DEF CheckOwnership, ItemStep, world
  <2>2. Found(work[k].known)
    BY <1>l, <2>1 DEF Landing, Writing, Rewrites, classifyKnownItem, Found
  <2> DEFINE w1 == [work[k] EXCEPT !.at = "record", !.result = "conflicted"]
             w2 == [work[k] EXCEPT !.at = "put"]
  <2>3. Goes(k, w1) \/ Goes(k, w2) BY <1>5 DEF CheckOwnership
  <2>4. /\ w1.at = "record" /\ w1.known = work[k].known
        /\ w2.at = "put" /\ w2.known = work[k].known /\ w2.result = work[k].result
    BY <1>w DEF Work
  <2> HIDE DEF w1, w2
  <2>5. Landing(w1, ledger[k], here) /\ Landing(w2, ledger[k], here)
    BY <1>l, <2>1, <2>2, <2>4 DEF Landing, Writing
  <2>6. work[k].at # "record" BY <2>1
  <2> QED BY <1>g, <2>1, <2>3, <2>5, <2>6
<1>6. ASSUME NEW answered \in BOOLEAN, CheckExisting(k, answered) PROVE LandedParts'
  <2>1. UNCHANGED <<tgt, ledger>> /\ work[k].at = "check"
    BY <1>6 DEF CheckExisting, ItemStep
  <2> DEFINE w1 == [work[k] EXCEPT !.at = "record", !.result = "present"]
             w2 == [work[k] EXCEPT !.at = "record", !.result = "adopted"]
             w3 == [work[k] EXCEPT !.at = "put"]
  <2>2. Goes(k, w1) \/ Goes(k, w2) \/ Goes(k, w3) BY <1>6 DEF CheckExisting
  <2>3. /\ w1.at = "record" /\ w1.known = work[k].known /\ w1.result = "present"
        /\ w2.at = "record" /\ w2.known = work[k].known /\ w2.result = "adopted"
        /\ w3.at = "put" /\ w3.known = work[k].known /\ w3.result = work[k].result
    BY <1>w DEF Work
  <2> HIDE DEF w1, w2, w3
  <2>4. /\ Landing(w1, ledger[k], here) /\ Landing(w2, ledger[k], here)
        /\ Landing(w3, ledger[k], here)
    BY <1>l, <2>1, <2>3 DEF Landing, Writing
  <2>5. work[k].at # "record" BY <2>1
  <2> QED BY <1>g, <2>1, <2>2, <2>4, <2>5
<1>7. ASSUME NEW tagged \in BOOLEAN, PutItem(k, tagged) PROVE LandedParts'
  <2> DEFINE result == IF Rewrites(k) THEN "updated" ELSE "created"
             w == [work[k] EXCEPT !.at = "record", !.result = result,
                                  !.targetVersion = Minted(k, tagged)]
  <2>1. Goes(k, w) /\ UNCHANGED ledger /\ work[k].at = "put" /\ Lands(k)
    BY <1>7 DEF PutItem, ItemStep
  <2>2. w.at = "record" /\ w.known = work[k].known /\ w.result # "conflicted" BY <1>w DEF Work
  <2> HIDE DEF w
  <2>3. Landing(w, ledger[k], here) BY <1>l, <2>1, <2>2 DEF Landing, Writing
  <2>4. \A p \in Places : tgt'[p] # tgt[p] => p = <<here, k>>
    BY <1>w, <2>1 DEF Lands, Place, WorldOK
  <2>5. Landed(k, w, ledger[k], tgt', here) BY <1>c, <2>1, <2>2, <2>4 DEF Landed
  <2> QED BY <1>r, <1>u, <1>w, <2>1, <2>3, <2>4, <2>5, OneGoesLanded
<1>8. CASE RecordItem(k) \/ RecordConflict(k)
  <2>1. /\ Goes(k, Out) /\ UNCHANGED tgt /\ work[k].at = "record"
    BY <1>8 DEF RecordItem, RecordConflict, ItemStep, Done, world
  <2>2. Landing(Out, ledger[k], here) /\ \A r : Landing(Out, r, here) BY DEF Landing, Out, Writing
  <2>3. \E r : /\ ledger' = [ledger EXCEPT ![k] = r] /\ r.collection = here
               /\ r.status \in {"copied", "updated", "adopted"}
    <3>1. CASE RecordItem(k)
      <4> DEFINE w == work[k]
                 status == CASE w.result = "created" -> "copied"
                             [] w.result = "adopted" -> "adopted"
                             [] OTHER -> "updated"
                 r == IF Found(w.known)
                      THEN recordUpdate(ledger[k], status, w.version, w.raw, w.targetVersion, here)
                      ELSE recordIfAbsent(ledger[k], status, w.version, w.raw, w.targetVersion, here)
      <4>1. ledger' = [ledger EXCEPT ![k] = r] BY <3>1 DEF RecordItem
      <4>2. status \in {"copied", "adopted", "updated"} OBVIOUS
      <4> HIDE DEF status
      <4>3. r.status = status /\ r.collection = here
        <5>1. CASE Found(w.known) BY <1>u, <1>w, <5>1 DEF recordUpdate, Row
        <5>2. CASE ~Found(w.known)
          <6>1. ~Found(ledger[k]) BY <1>l, <2>1, <5>2 DEF Landing, Writing
          <6> QED BY <5>2, <6>1 DEF recordIfAbsent, NoRow
        <5> QED BY <5>1, <5>2
      <4> HIDE DEF r
      <4> QED BY <4>1, <4>2, <4>3
    <3>2. CASE RecordConflict(k)
      <4> DEFINE known == work[k].known
                 r == recordUpdate(ledger[k], "adopted", known.sourceVersion, known.contentHash,
                                   known.targetVersion, known.collection)
      <4>1. ledger' = [ledger EXCEPT ![k] = r] /\ work[k].result = "conflicted"
        BY <3>2 DEF RecordConflict
      <4>2. ledger[k].collection = here /\ known.collection = here
        BY <1>a, <1>l, <2>1, <4>1 DEF Landing, Abreast, Writing
      <4>3. r.status = "adopted" /\ r.collection = here BY <1>w, <4>2 DEF recordUpdate, Row
      <4> HIDE DEF r
      <4> QED BY <4>1, <4>3
    <3> QED BY <1>8, <3>1, <3>2
  <2>4. PICK r : /\ ledger' = [ledger EXCEPT ![k] = r] /\ r.collection = here
                 /\ r.status \in {"copied", "updated", "adopted"}
    BY <2>3
  <2>5. Found(r) BY <2>4 DEF Found
  <2>6. Landed(k, Out, r, tgt', here)
    BY <1>c, <1>l, <2>1, <2>4, <2>5 DEF Landed, Landing, Writing
  <2>7. \A p \in Places : tgt'[p] # tgt[p] => p = <<here, k>> BY <2>1
  <2>8. r.status \in {"absent", "copied", "updated", "adopted"} /\ r.collection # None
    BY <1>u, <2>4
  <2> QED BY <1>u, <2>1, <2>2, <2>4, <2>5, <2>6, <2>7, <2>8, OneGoesLanded
<1> QED BY <1>1, <1>2, <1>3, <1>4, <1>5, <1>6, <1>7, <1>8

\* Everything else leaves the copies, and what the rows say of them.
LEMMA OthersLanded ==
    ASSUME Unfailing, LandedInv,
           \/ Environment
           \/ \E folders \in SUBSET Colls : StartPass(folders)
           \/ \E c \in Colls, keysOk \in BOOLEAN : ListFolder(c, keysOk)
           \/ FinishFolder \/ AbortPass
           \/ BeginRemovals \/ BeginDiscarded \/ BeginMoves \/ EndPass
           \/ \E k \in Keys : \/ resolveReportedRemoval(k) \/ resolveDiscardedItem(k)
                              \/ detectPathKeyedMove(k)
           \/ UNCHANGED vars
    PROVE  LandedParts'
<1> USE DEF LandedInv, LandedParts, CursorInv, CursorParts
<1> WorldOK /\ UsedOK /\ RowsOK /\ FolderOK /\ WorkOK BY TypeParts
<1>q. ASSUME UNCHANGED <<work, here, tgt, ledger>> PROVE LandedParts'
  BY <1>q, QuietLanded
<1>f. \A k \in Keys : ledger[k].status \notin {"failed", "tombstoned"}
  BY DEF RowsLanded
<1>1. CASE Environment
  <2>1. ASSUME NEW k \in Keys, NEW v, SourceChange(k, v) PROVE LandedParts'
    BY <1>q, <2>1 DEF SourceChange
  <2>2. ASSUME NEW k \in Keys, NEW p \in Places, SourceRename(k, p) PROVE LandedParts'
    BY <1>q, <2>2 DEF SourceRename
  <2>3. ASSUME NEW p \in Places, OwnerChange(p) PROVE LandedParts'
    <3>1. UNCHANGED <<work, here, ledger>> BY <2>3 DEF OwnerChange, passVars
    <3>2. PICK b \in {None, Theirs} : tgt' = [tgt EXCEPT ![p] = b] BY <2>3 DEF OwnerChange
    <3>3. \A q \in Places : tgt'[q] \in Contents => tgt[q] \in Contents BY <3>2 DEF WorldOK
    <3> QED BY <3>1, <3>3, QuietLanded
  <2>4. ASSUME NEW k \in Keys, AcceptFailure(k) \/ RetryFailure(k) PROVE LandedParts'
    BY <1>f, <2>4 DEF AcceptFailure, RetryFailure
  <2>5. ASSUME NEW k \in Keys, KeepMove(k) \/ KeepDeletion(k) PROVE LandedParts'
    <3>1. UNCHANGED <<work, here, tgt>> BY <2>5 DEF KeepMove, KeepDeletion, world, passVars
    <3>2. ledger[k] \in Row BY DEF RowsOK
    <3>3. \E r : ledger' = [ledger EXCEPT ![k] = r] /\ SameCopy(ledger[k], r)
      BY <2>5, <3>2, ClaimsKeepCopy DEF KeepMove, KeepDeletion
    <3>4. \A j \in Keys : SameCopy(ledger[j], ledger'[j]) BY <3>3 DEF RowsOK, SameCopy
    <3> QED BY <3>1, <3>4, QuietLanded DEF SameCopy
  <2>6. CASE ClearCursors BY <1>q, <2>6 DEF ClearCursors, passVars
  <2>7. CASE Crash BY <2>7 DEF Crash, Fault, Unfailing
  <2> QED BY <1>1, <2>1, <2>2, <2>3, <2>4, <2>5, <2>6, <2>7 DEF Environment
<1>2. ASSUME NEW folders \in SUBSET Colls, StartPass(folders) PROVE LandedParts'
  BY <1>q, <1>2 DEF StartPass, world
<1>3. ASSUME NEW c \in Colls, NEW keysOk \in BOOLEAN, ListFolder(c, keysOk) PROVE LandedParts'
  <2>1. UNCHANGED <<tgt, ledger>> /\ here = None BY <1>3 DEF ListFolder, world
  <2>2. \A k \in Keys : ~Busy(k) BY <2>1 DEF PassShape, Busy
  <2>3. \A k \in Keys : work'[k].at \in {"out", "todo"} /\ work'[k].result = "none"
    <3> TAKE k \in Keys
    <3>1. CASE k \in Listed(c)
      <4>1. \E v : work'[k] = [Out EXCEPT !.at = "todo", !.version = v]
        BY <1>3, <3>1 DEF ListFolder
      <4> QED BY <4>1 DEF Out
    <3>2. CASE k \notin Listed(c) BY <1>3, <3>2 DEF ListFolder, Out
    <3> QED BY <3>1, <3>2
  <2> QED BY <2>1, <2>2, <2>3, FolderLanded
<1>4. CASE FinishFolder
  <2>1. UNCHANGED <<tgt, ledger, work>> /\ \A k \in Keys : work[k].at = "out"
    BY <1>4 DEF FinishFolder
  <2>2. \A k \in Keys : ~Busy(k) /\ work[k].result # "conflicted"
    BY <2>1 DEF Busy, WorkersLanding, Landing
  <2>3. RowsLanded' BY <2>1 DEF RowsLanded
  <2>4. WorkersLanding' BY <2>1, <2>2 DEF WorkersLanding, Landing, Writing
  <2>5. CopiesLanded' BY <2>1 DEF CopiesLanded, Landed
  <2> QED BY <2>3, <2>4, <2>5
<1>5. CASE AbortPass \/ EndPass
  <2>1. UNCHANGED <<tgt, ledger>> /\ work' = [k \in Keys |-> Out]
    BY <1>5 DEF AbortPass, EndPass, ForgetPass, world
  <2>2. \A k \in Keys : ~Busy(k) BY <1>5 DEF AbortPass, EndPass, PassShape, Busy
  <2>3. \A k \in Keys : work'[k].at \in {"out", "todo"} /\ work'[k].result = "none"
    BY <2>1 DEF Out
  <2> QED BY <2>1, <2>2, <2>3, FolderLanded
<1>6. CASE BeginRemovals \/ BeginDiscarded \/ BeginMoves
  BY <1>q, <1>6 DEF BeginRemovals, BeginDiscarded, BeginMoves, Proceed, world
<1>7. ASSUME NEW k \in Keys,
             resolveReportedRemoval(k) \/ resolveDiscardedItem(k) \/ detectPathKeyedMove(k)
      PROVE  LandedParts'
  <2>1. UNCHANGED <<work, here, tgt>>
    BY <1>7 DEF resolveReportedRemoval, resolveDiscardedItem, detectPathKeyedMove, Inspects, world
  <2>2. \E r : ledger' = [ledger EXCEPT ![k] = r] /\ SameCopy(ledger[k], r)
    BY <1>7, DetectorCopies
  <2>3. \A j \in Keys : SameCopy(ledger[j], ledger'[j]) BY <2>2 DEF RowsOK, SameCopy
  <2> QED BY <2>1, <2>3, QuietLanded DEF SameCopy
<1>8. CASE UNCHANGED vars BY <1>q, <1>8 DEF vars, passVars
<1> QED BY <1>1, <1>2, <1>3, <1>4, <1>5, <1>6, <1>7, <1>8

\* Copies are where their rows say in every reachable state.
LEMMA LandedAlways ==
    ASSUME Unfailing
    PROVE  Spec => []LandedInv
<1>1. Init => LandedInv
  <2> SUFFICES ASSUME Init PROVE LandedParts
    BY CursorStarts DEF LandedInv
  <2>1. /\ ledger = [k \in Keys |-> NoRow] /\ work = [k \in Keys |-> Out]
        /\ \A p \in Places : tgt[p] \notin Contents
    BY DEF Init, NoPass, Unfailing
  <2>2. RowsLanded BY <2>1 DEF RowsLanded, NoRow, Found
  <2>3. WorkersLanding BY <2>1 DEF WorkersLanding, Landing, Out, Writing
  <2>4. CopiesLanded BY <2>1 DEF CopiesLanded, Landed
  <2> QED BY <2>2, <2>3, <2>4 DEF LandedParts
<1>2. LandedInv /\ [Next]_vars => LandedInv'
  <2> SUFFICES ASSUME LandedInv, [Next]_vars PROVE LandedInv'
    OBVIOUS
  <2>1. CursorInv'
    <3>1. Undisturbed BY DEF Unfailing, Undisturbed
    <3> QED BY <3>1, CursorNext DEF LandedInv
  <2>2. LandedParts'
    <3>1. ASSUME NEW k \in Keys, ItemSteps(k) PROVE LandedParts'
      BY <3>1, WorkerLanded, OthersLanded DEF ItemSteps
    <3> QED BY <3>1, OthersLanded DEF Next, PassSteps
  <2> QED BY <2>1, <2>2 DEF LandedInv
<1> QED BY <1>1, <1>2, PTL DEF Spec

\* An item is never copied into two collections, whatever moves the source makes
\* while passes run: always where the key is the path, and elsewhere as long as no
\* write fails and no pass dies.
THEOREM ItemsAreCopiedOnce ==
    ASSUME PathKeyed \/ Unfailing
    PROVE  Spec => []NoDuplicateCopy
<1>1. CASE PathKeyed
  <2>1. NoDuplicateCopy BY <1>1 DEF NoDuplicateCopy
  <2> QED BY <2>1, PTL
<1>2. CASE Unfailing
  <2>1. LandedInv => NoDuplicateCopy
    <3> SUFFICES ASSUME LandedInv, NEW p \in Places, NEW q \in Places, p[2] = q[2],
                        tgt[p] \in Contents, tgt[q] \in Contents
                 PROVE  p = q
      BY DEF NoDuplicateCopy
    <3> DEFINE k == p[2]
    <3>1. /\ k \in Keys /\ p = <<p[1], k>> /\ q = <<q[1], k>> OBVIOUS
    <3>2. Landed(k, work[k], ledger[k], tgt, here) /\ Landing(work[k], ledger[k], here)
      BY <3>1 DEF LandedInv, LandedParts, CopiesLanded, WorkersLanding
    <3>3. p[1] = q[1] BY <3>2 DEF Landed, Landing, Writing
    <3> QED BY <3>1, <3>3
  <2> QED BY <1>2, <2>1, LandedAlways, PTL
<1> QED BY <1>1, <1>2
=============================================================================
