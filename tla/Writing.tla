------------------------------- MODULE Writing -------------------------------
(***************************************************************************)
(* How an item is written to, rewritten on and removed from the new        *)
(* system: the JMAP writers (packages/connectors/src/jmap-*-target.ts),    *)
(* the IMAP writer (imapflow-dav-target.ts) and the CardDAV writer         *)
(* (packages/engines/src/carddav-target-writer.ts), one request at a time. *)
(* A writer lives as long as a pass and remembers what the account held    *)
(* when the pass began; between two of its requests the owner works in the *)
(* same account.  The server is external.                                  *)
(***************************************************************************)
EXTENDS Integers, FiniteSets

CONSTANTS
    Keys,          \* natural keys: Message-ID, UID or path
    NoKey,         \* the key of an entry that has none
    Writers,       \* the writers of an instance
    LIMIT,         \* entries per page of Email/query
    SNAPSHOT_MAX_ENTRIES,
    ServerDedups,  \* the JMAP server refuses a second message or card of one key
    EditsMidWrite, \* the owner may edit a copy while it is being written
    MovesMidApply, \* a mailbox may be recreated while a message is being removed
    MaxIds, MaxClock, MaxPasses, MaxOwner, MaxFaults

Jmap == {"jmapMail", "jmapFile", "jmapContact"}

ASSUME WritingAssumption ==
    /\ IsFiniteSet(Keys) /\ NoKey \notin Keys
    /\ Writers \subseteq (Jmap \cup {"imap", "carddav"}) /\ Writers # {}
    /\ {ServerDedups, EditsMidWrite, MovesMidApply} \subseteq BOOLEAN
    /\ {LIMIT, SNAPSHOT_MAX_ENTRIES} \subseteq Nat \ {0}
    /\ {MaxIds, MaxClock, MaxPasses, MaxOwner, MaxFaults} \subseteq Nat

VARIABLES
    writer,    \* the writer the mapping was built with
    bin,       \* the account has a mailbox with the trash role
    uidplus,   \* the IMAP server says which UID it gave a message
    folder,    \* the folder to write to: absent, there, or a file has its name
    copies,    \* what the account holds under each id (UID, href)
    nextId,    \* ids given out so far
    epoch,     \* UIDVALIDITY
    clock,     \* writes and edits so far: the version of the latest
    rows,      \* the ledger: what each key was recorded with
    changed,   \* keys whose source changed since they were copied
    pass,      \* the pass in progress
    snapshot,  \* what the writer remembers of the account
    op,        \* the operation in progress
    wrong,     \* copies a removal took that were not its item's
    used       \* what owner and network have spent of their bounds

vars == <<writer, bin, uidplus, folder, copies, nextId, epoch, clock, rows, changed, pass,
          snapshot, op, wrong, used>>
server == <<writer, bin, uidplus, folder, copies, nextId, epoch, clock>>

-----------------------------------------------------------------------------
(* Copies, rows and operations.                                            *)

Ids == 1 .. MaxIds
Places == {"nowhere", "folder", "elsewhere", "bin", "both"}
\* `ours`: a writer put it there; `edited`: the owner has changed it since.
Copy == [key: Keys \cup {NoKey}, ver: 0 .. MaxClock, place: Places,
         ours: BOOLEAN, edited: BOOLEAN]
NoCopy == [key |-> NoKey, ver |-> 0, place |-> "nowhere", ours |-> FALSE, edited |-> FALSE]

\* ver: targetVersion, an ETag or fingerprint, over IMAP the UIDVALIDITY; 0 when
\* there is none.
Row == [status: {"none", "copied", "adopted", "failed", "tombstoned"}, id: 0 .. MaxIds,
        ver: 0 .. MaxClock + 1]
NoRow == [status |-> "none", id |-> 0, ver |-> 0]

\* The snapshot is not taken, being listed, a map, or the account could not be listed.
Snapshot == [at: {"none", "listing", "map", "undefined"}, keys: [Keys -> 0 .. MaxIds],
             position: Nat]
NoSnapshot == [at |-> "none", keys |-> [k \in Keys |-> 0], position |-> 0]

Op == [kind: {"none", "create", "rewrite", "remove"},
       at: {"idle", "lookup", "stamp", "check", "write", "rescan", "readback", "record",
            "act", "verify"},
       key: Keys \cup {NoKey}, id: 0 .. MaxIds, ver: 0 .. MaxClock + 1,
       adopted: BOOLEAN, conflicted: BOOLEAN, blind: BOOLEAN]
NoOp == [kind |-> "none", at |-> "idle", key |-> NoKey, id |-> 0, ver |-> 0,
         adopted |-> FALSE, conflicted |-> FALSE, blind |-> FALSE]

Pass == [at: {"idle", "folder", "make", "items"}, done: SUBSET Keys, n: 0 .. MaxPasses]

Live == {i \in Ids : copies[i].place # "nowhere"}
Shown == {i \in Ids : copies[i].place \in {"folder", "elsewhere", "both"}}

Spend(what, bound, n) == used[what] + n <= bound /\ used' = [used EXCEPT ![what] = @ + n]

WritingInit ==
    /\ writer \in Writers
    /\ bin \in (IF writer \in {"jmapMail", "imap"} THEN BOOLEAN ELSE {FALSE})
    /\ uidplus \in (IF writer = "imap" THEN BOOLEAN ELSE {TRUE})
    /\ folder \in (IF writer = "jmapFile" THEN {"absent", "blocked"} ELSE {"absent"})
    /\ copies = [i \in Ids |-> NoCopy] /\ nextId = 0 /\ epoch = 1 /\ clock = 0
    /\ rows = [k \in Keys |-> NoRow]
    /\ changed = {}
    /\ pass = [at |-> "idle", done |-> {}, n |-> 0]
    /\ snapshot = NoSnapshot /\ op = NoOp /\ wrong = {}
    /\ used = [owner |-> 0, faults |-> 0]

-----------------------------------------------------------------------------
(* What a writer sees of the account.                                      *)

\* Email/query searches the whole account, the trash included.
findEmail == {"folder", "elsewhere", "both", "bin"}
\* Messages are compared one mailbox at a time.
findMessage == {"folder"}
\* A file is what has its path,
findNode == {"folder"}
\* a card what has its UID in any address book,
findCard == {"folder", "elsewhere"}
\* and over DAV in this one.
findContact == {"folder"}

Finds == [jmapMail |-> findEmail, imap |-> findMessage, jmapFile |-> findNode,
          jmapContact |-> findCard, carddav |-> findContact]

Visible(i) == copies[i].place \in Finds[writer]

Holders(k) == {i \in Ids : Visible(i) /\ copies[i].key = k}
Unkeyable == \E i \in Ids : Visible(i) /\ copies[i].key = NoKey

\* How an upsert ends.  `then`: the step after the write; `etag`: the answer may have
\* one; `exists`: what a refusal for being there already is taken for.
upsertEmail == [then |-> "record", etag |-> FALSE, exists |-> "adopted"]
upsertMessage == [then |-> IF uidplus THEN "record" ELSE "rescan", etag |-> FALSE,
                  exists |-> "none"]
upsertFile == [then |-> "readback", etag |-> FALSE, exists |-> "adopted"]
upsertCard == [then |-> "readback", etag |-> FALSE, exists |-> "adopted"]
uploadContact == [then |-> "record", etag |-> TRUE, exists |-> "copied"]

Upsert == [jmapMail |-> upsertEmail, imap |-> upsertMessage, jmapFile |-> upsertFile,
           jmapContact |-> upsertCard, carddav |-> uploadContact]

\* Messages are never rewritten.
Rewrites == writer \notin {"jmapMail", "imap"}
Snapshots == writer # "imap"

-----------------------------------------------------------------------------
(* The pass and its folder.                                                *)

\* A pass builds a new writer, which remembers nothing.
StartPass ==
    /\ pass.at = "idle" /\ op = NoOp /\ pass.n < MaxPasses
    /\ pass' = [at |-> "folder", done |-> {}, n |-> pass.n + 1]
    /\ snapshot' = NoSnapshot
    /\ UNCHANGED <<server, rows, changed, op, wrong, used>>

\* A mailbox with the role or the name, in the list the writer has just fetched.
ensureMailbox == IF folder = "there" THEN "items" ELSE "make"
\* A file that has the directory's name is never replaced.
ensureDirectoryPath == CASE folder = "there" -> "items"
                         [] folder = "blocked" -> "idle"
                         [] OTHER -> "make"
\* An address book of the name.
ensureAddressBook == IF folder = "there" THEN "items" ELSE "make"
\* CardDAV takes a question that fails for a book that is not there.
addressBookExists == IF folder = "there" THEN {"items", "make"} ELSE {"make"}

\* The folder is looked up,
FindFolder ==
    /\ pass.at = "folder"
    /\ \E next \in CASE writer \in {"jmapMail", "imap"} -> {ensureMailbox}
                     [] writer = "jmapFile" -> {ensureDirectoryPath}
                     [] writer = "jmapContact" -> {ensureAddressBook}
                     [] OTHER -> addressBookExists :
          pass' = [pass EXCEPT !.at = next]
    /\ UNCHANGED <<server, rows, changed, snapshot, op, wrong, used>>

\* `alreadyExists`: the mailboxes are listed again and the one there is adopted,
createMailbox == "items"
\* and so is the directory, from a new tree.
createDirectory == "items"
\* MKCOL on what is there is an error.
createAddressBook == IF folder = "there" THEN "idle" ELSE "items"

\* and made, although somebody may have made it since.
MakeFolder ==
    /\ pass.at = "make"
    /\ folder' = "there"
    /\ pass' = [pass EXCEPT !.at = CASE writer = "carddav" -> createAddressBook
                                     [] writer = "jmapFile" -> createDirectory
                                     [] OTHER -> createMailbox]
    /\ UNCHANGED <<writer, bin, uidplus, copies, nextId, epoch, clock, rows, changed,
                   snapshot, op, wrong, used>>

EndPass ==
    /\ pass.at = "items" /\ op = NoOp
    /\ pass' = [pass EXCEPT !.at = "idle"]
    /\ UNCHANGED <<server, rows, changed, snapshot, op, wrong, used>>

\* The worker dies.
Crash ==
    /\ pass.at # "idle" \/ op # NoOp
    /\ Spend("faults", MaxFaults, 1)
    /\ pass' = [pass EXCEPT !.at = "idle"] /\ op' = NoOp /\ snapshot' = NoSnapshot
    /\ UNCHANGED <<server, rows, changed, wrong>>

\* An item that is not on the target, or whose last attempt failed.
BeginCreate(k) ==
    /\ pass.at = "items" /\ op = NoOp /\ k \notin pass.done
    /\ rows[k].status \in {"none", "failed"}
    /\ op' = [NoOp EXCEPT !.kind = "create", !.at = "lookup", !.key = k]
    /\ pass' = [pass EXCEPT !.done = @ \cup {k}]
    /\ UNCHANGED <<server, rows, changed, snapshot, wrong, used>>

\* An item this tool wrote and whose source has changed.  DAV knows the path.
BeginRewrite(k) ==
    /\ pass.at = "items" /\ op = NoOp /\ k \notin pass.done /\ Rewrites
    /\ rows[k].status = "copied" /\ k \in changed
    /\ op' = [NoOp EXCEPT !.kind = "rewrite", !.key = k,
                          !.at = IF writer = "carddav" THEN "check" ELSE "lookup",
                          !.id = IF writer = "carddav" THEN rows[k].id ELSE 0]
    /\ pass' = [pass EXCEPT !.done = @ \cup {k}]
    /\ UNCHANGED <<server, rows, changed, snapshot, wrong, used>>

\* The owner decides, and applyDeletion is past the gates before the target is asked.
BeginRemove(k) ==
    /\ op = NoOp /\ rows[k].status = "copied"
    /\ op' = [NoOp EXCEPT !.kind = "remove", !.key = k, !.id = rows[k].id,
                          !.at = IF writer = "jmapMail" THEN "act" ELSE "check"]
    /\ UNCHANGED <<server, rows, changed, pass, snapshot, wrong, used>>

\* The operation throws: a copy is recorded as failed, a removal is not recorded.
Throws ==
    /\ op' = NoOp
    /\ rows' = IF op.kind = "remove" THEN rows ELSE [rows EXCEPT ![op.key].status = "failed"]

\* A request is refused, or its answer never comes; it has changed nothing.
RequestFails ==
    /\ op # NoOp
    /\ Spend("faults", MaxFaults, 1)
    /\ Throws
    /\ UNCHANGED <<server, changed, pass, snapshot, wrong>>

-----------------------------------------------------------------------------
(* Is the item there already?                                              *)

Undefined == [NoSnapshot EXCEPT !.at = "undefined"]
Rank(i) == Cardinality({j \in Live : j <= i})
Page == {i \in Live : snapshot.position < Rank(i) /\ Rank(i) <= snapshot.position + LIMIT}

\* A variant of With that remembers the entry after the one it found.
WithNext(keys, S) ==
    [k \in Keys |-> LET In == {i \in S : copies[i].key = k}
                    IN IF In = {} THEN keys[k] ELSE 1 + CHOOSE i \in In : \A j \in In : j <= i]

\* The last of the entries listed so far that have the key.
With(keys, S) ==
    [k \in Keys |-> LET In == {i \in S : copies[i].key = k}
                    IN IF In = {} THEN keys[k] ELSE CHOOSE i \in In : \A j \in In : j <= i]

\* Email/query by position: a full page means ask again.
listEmails ==
    LET keys == With(snapshot.keys, Page)
    IN IF Cardinality({k \in Keys : keys[k] # 0}) > SNAPSHOT_MAX_ENTRIES THEN Undefined
       ELSE IF Cardinality(Page) < LIMIT THEN [at |-> "map", keys |-> keys, position |-> 0]
       ELSE [at |-> "listing", keys |-> keys, position |-> snapshot.position + LIMIT]

AllVisible == [at |-> "map", keys |-> With(NoSnapshot.keys, {i \in Ids : Visible(i)}), position |-> 0]

\* The others are listed with one request, and an entry that cannot be keyed is an
\* error: a node without a name,
readTree == IF Unkeyable THEN Undefined ELSE AllVisible
\* a card without a UID.
listCards == IF Unkeyable THEN Undefined ELSE AllVisible
listContactsIn == IF Unkeyable THEN Undefined ELSE AllVisible

\* A snapshot that cannot be taken is undefined, never empty.
targetKeys ==
    /\ op.at = "lookup" /\ Snapshots /\ snapshot.at \in {"none", "listing"}
    /\ \/ /\ snapshot' = CASE writer = "jmapMail" -> listEmails
                            [] writer = "jmapFile" -> readTree
                            [] writer = "jmapContact" -> listCards
                            [] OTHER -> listContactsIn
          /\ UNCHANGED used
       \/ Spend("faults", MaxFaults, 1) /\ snapshot' = Undefined
    /\ UNCHANGED <<server, rows, changed, pass, op, wrong>>

Asked == snapshot.at = "map" \/ ~Snapshots \/ snapshot.at = "undefined"
Remembered(k) == IF snapshot.at = "map" /\ snapshot.keys[k] # 0 THEN {snapshot.keys[k]} ELSE {}

\* A variant of AsksTarget that takes a snapshot there is not for an empty one.
AsksForRewrites == op.kind = "rewrite" /\ Remembered(op.key) = {}

\* The per-item question, when there is no snapshot or, for a rewrite, nothing in it.
AsksTarget == snapshot.at # "map" \/ (op.kind = "rewrite" /\ Remembered(op.key) = {})
\* Reading the tree throws on a node that has no name.
QueryThrows == AsksTarget /\ writer = "jmapFile" /\ Unkeyable

Answer(i) ==
    IF op.kind = "rewrite" THEN [op EXCEPT !.id = i, !.at = "check"]
    ELSE [op EXCEPT !.id = i, !.adopted = TRUE,
                    !.at = IF writer = "imap" THEN "stamp" ELSE "record"]
Absent == [op EXCEPT !.at = IF writer = "imap" THEN "stamp" ELSE "write"]

\* A failed question is an error, never "not there"; but for CardDAV it is "not there".
findByNaturalKey ==
    /\ op.at = "lookup" /\ Asked
    /\ LET Found == IF AsksTarget THEN Holders(op.key) ELSE Remembered(op.key)
       IN \/ QueryThrows /\ Throws /\ UNCHANGED used
          \/ ~QueryThrows /\ \E i \in Found : op' = Answer(i) /\ UNCHANGED <<rows, used>>
          \/ /\ ~QueryThrows /\ Found = {}
             /\ IF op.kind = "rewrite" THEN Throws ELSE op' = Absent /\ UNCHANGED rows
             /\ UNCHANGED used
          \/ /\ AsksTarget /\ writer = "carddav"
             /\ Spend("faults", MaxFaults, 1)
             /\ op' = Absent /\ UNCHANGED rows
    /\ UNCHANGED <<server, changed, pass, snapshot, wrong>>

\* IMAP reads UIDVALIDITY: before it appends, and after it has found a message.
uidValidityOf ==
    /\ op.at = "stamp"
    /\ op' = [op EXCEPT !.ver = epoch, !.at = IF op.adopted THEN "record" ELSE "write"]
    /\ UNCHANGED <<server, rows, changed, pass, snapshot, wrong, used>>

-----------------------------------------------------------------------------
(* Writing a copy.                                                         *)

\* Copies the server will not have a second one beside, and those of which it is
\* the server's choice: a card the owner added may be at our path or at one of its own.
MustRefuse(k) ==
    CASE writer = "jmapFile" -> Holders(k)
      [] writer = "carddav" -> {i \in Holders(k) : copies[i].ours}
      [] writer = "imap" -> {}
      [] OTHER -> IF ServerDedups THEN Holders(k) ELSE {}
MayRefuse(k) == IF writer = "carddav" /\ MustRefuse(k) = {} THEN Holders(k) ELSE MustRefuse(k)

Learn(k, i) == IF snapshot.at = "map" THEN [snapshot EXCEPT !.keys[k] = i] ELSE snapshot

\* `alreadyExists`: the copy that is there is adopted.  A 412 is taken for our own.
AlreadyThere ==
    /\ op.at = "write" /\ op.kind = "create" /\ folder = "there"
    /\ \E i \in MayRefuse(op.key) :
          /\ op' = [op EXCEPT !.at = "record", !.id = i, 
                              !.adopted = Upsert[writer].exists = "adopted"]
          /\ snapshot' = IF writer = "jmapFile" THEN NoSnapshot ELSE Learn(op.key, i)
    /\ UNCHANGED <<server, rows, changed, pass, wrong, used>>

\* A JMAP file or card is read back for its version, a DAV server may give an ETag
\* with its answer, and an IMAP server may give the UID.
AfterWrite(i, etag) ==
    [op EXCEPT !.id = i, !.ver = IF writer = "imap" THEN @ ELSE etag, !.at = Upsert[writer].then]

Etags == IF Upsert[writer].etag THEN {0, clock + 1} ELSE {0}

\* The copy is made.  If the answer is lost the writer knows nothing of it.
CreateCopy ==
    /\ op.at = "write" /\ op.kind = "create" /\ folder = "there"
    /\ MustRefuse(op.key) = {}
    /\ nextId < MaxIds /\ clock < MaxClock
    /\ nextId' = nextId + 1 /\ clock' = clock + 1
    /\ copies' = [copies EXCEPT ![nextId + 1] =
                    [key |-> op.key, ver |-> clock + 1, place |-> "folder",
                     ours |-> TRUE, edited |-> FALSE]]
    /\ \/ /\ \E etag \in Etags : op' = AfterWrite(nextId + 1, etag)
          /\ snapshot' = Learn(op.key, nextId + 1)
          /\ UNCHANGED <<rows, used>>
       \/ /\ Spend("faults", MaxFaults, 1)
          /\ Throws /\ UNCHANGED snapshot
    /\ UNCHANGED <<writer, bin, uidplus, folder, epoch, changed, pass, wrong>>

\* The folder has gone since the pass began.
NoFolder ==
    /\ op.at = "write" /\ op.kind = "create" /\ folder # "there"
    /\ Throws
    /\ UNCHANGED <<server, changed, pass, snapshot, wrong, used>>

\* No APPENDUID: the whole mailbox is searched for the Message-ID.
Rescan ==
    /\ op.at = "rescan"
    /\ \/ \E i \in Holders(op.key) : op' = [op EXCEPT !.id = i, !.at = "record"] /\ UNCHANGED rows
       \/ Holders(op.key) = {} /\ Throws
    /\ UNCHANGED <<server, changed, pass, snapshot, wrong, used>>

\* A hash of the node, or of the card, as the server stores it; nothing if there is none.
storedNodeVersion(i) == IF i \in Shown THEN copies[i].ver ELSE 0
storedCardVersion(i) == IF i \in Shown THEN copies[i].ver ELSE 0
\* HEAD; any answer but a success has no ETag.
currentEtag(i) == IF i \in Shown THEN copies[i].ver ELSE 0

Fingerprint(i) == CASE writer = "jmapFile" -> storedNodeVersion(i)
                    [] writer = "jmapContact" -> storedCardVersion(i)
                    [] OTHER -> currentEtag(i)

\* What is there now; one that cannot be read has no version.
ReadBack ==
    /\ op.at = "readback"
    /\ \/ op' = [op EXCEPT !.ver = Fingerprint(op.id), !.at = "record"] /\ UNCHANGED used
       \/ Spend("faults", MaxFaults, 1) /\ op' = [op EXCEPT !.ver = 0, !.at = "record"]
    /\ UNCHANGED <<server, rows, changed, pass, snapshot, wrong>>

-----------------------------------------------------------------------------
(* Is the copy still the one we wrote?                                     *)

\* A variant of ownershipOf that trusts what the ledger says.
ownershipUnasked(expected, current) == "ours"

\* Only two versions that differ say that it is not.
ownershipOf(expected, current) ==
    IF expected # 0 /\ current # 0 /\ expected # current THEN "changed" ELSE "ours"

\* An answer that cannot be read, or no copy: the check says nothing.
CheckVersion ==
    /\ op.at = "check" /\ writer # "imap"
    /\ \/ LET verdict == ownershipOf(rows[op.key].ver, Fingerprint(op.id))
          IN /\ op' = CASE verdict = "changed" /\ op.kind = "remove" -> NoOp
                        [] verdict = "changed" /\ op.kind # "remove" ->
                               [op EXCEPT !.at = "record", !.conflicted = TRUE]
                        [] OTHER -> [op EXCEPT !.at = IF op.kind = "remove" THEN "act" ELSE "write"]
             /\ UNCHANGED used
       \/ /\ rows[op.key].ver # 0 /\ Spend("faults", MaxFaults, 1)
          /\ op' = [op EXCEPT !.blind = TRUE, !.at = IF op.kind = "remove" THEN "act" ELSE "write"]
    /\ UNCHANGED <<server, rows, changed, pass, snapshot, wrong>>

\* A variant of CheckUid that does not compare UIDVALIDITY.
CheckUidAlone ==
    /\ op.at = "check" /\ writer = "imap"
    /\ op' = IF copies[op.id].place = "folder" THEN [op EXCEPT !.at = "act"] ELSE NoOp
    /\ UNCHANGED <<server, rows, changed, pass, snapshot, wrong, used>>

\* IMAP refuses when the mailbox was recreated, and when the UID is not in it.
CheckUid ==
    /\ op.at = "check" /\ writer = "imap"
    /\ op' = IF epoch = rows[op.key].ver /\ copies[op.id].place = "folder"
             THEN [op EXCEPT !.at = "act"] ELSE NoOp
    /\ UNCHANGED <<server, rows, changed, pass, snapshot, wrong, used>>

\* A JMAP server refuses to update a node or a card that is not there,
rewriteFile(i) == i \in Shown
rewriteCard(i) == i \in Shown
\* and a PUT makes it again.
uploadOver(i) == TRUE

RewriteCopy ==
    /\ op.at = "write" /\ op.kind = "rewrite" /\ clock < MaxClock
    /\ IF ~CASE writer = "jmapFile" -> rewriteFile(op.id)
             [] writer = "jmapContact" -> rewriteCard(op.id)
             [] OTHER -> uploadOver(op.id)
       THEN Throws /\ UNCHANGED <<copies, clock, used>>
       ELSE /\ copies' = [copies EXCEPT ![op.id] =
                            [key |-> op.key, ver |-> clock + 1, place |-> "folder",
                             ours |-> TRUE, edited |-> FALSE]]
            /\ clock' = clock + 1
            /\ \/ \E etag \in Etags : op' = AfterWrite(op.id, etag) /\ UNCHANGED <<rows, used>>
               \/ Spend("faults", MaxFaults, 1) /\ Throws
    /\ UNCHANGED <<writer, bin, uidplus, folder, nextId, epoch, changed, pass,
                   snapshot, wrong>>

\* recordIfAbsent, or recordUpdate, which keeps the version it is given none for.
\* A conflict leaves the copy to its owner.
RecordCopy ==
    /\ op.at = "record" /\ op.kind \in {"create", "rewrite"}
    /\ rows' = [rows EXCEPT ![op.key] =
                  IF op.conflicted THEN [@ EXCEPT !.status = "adopted"]
                  ELSE [status |-> IF op.adopted THEN "adopted" ELSE "copied", id |-> op.id,
                        ver |-> IF op.ver = 0 THEN @.ver ELSE op.ver]]
    /\ changed' = changed \ {op.key}
    /\ op' = NoOp
    /\ UNCHANGED <<server, pass, snapshot, wrong, used>>

-----------------------------------------------------------------------------
(* Removing a copy.                                                        *)

Reaches(i) == IF writer = "imap" THEN copies[i].place = "folder" ELSE i \in Live

\* What a removal can leave of a copy; with nothing it can, it throws.  JMAP mail takes
\* it out of the mailboxes it is in and puts it in the trash, or destroys it.
trashMailboxId == bin
removeEmail(i) ==
    IF ~Reaches(i) THEN {} ELSE
    IF trashMailboxId THEN {[copies[i] EXCEPT !.place = "bin"]} ELSE {NoCopy}
\* IMAP moves it there; without one it needs UIDPLUS, or it would have to EXPUNGE.
findBin == bin
removeMessage(i) ==
    IF ~Reaches(i) THEN {} ELSE
    IF findBin THEN {[copies[i] EXCEPT !.place = "bin"]} ELSE
    IF uidplus THEN {NoCopy} ELSE {}
\* Destroying what is not there is not confirmed,
removeNode(i) == IF Reaches(i) THEN {NoCopy} ELSE {}
removeCard(i) == IF Reaches(i) THEN {NoCopy} ELSE {}
\* but a DELETE that finds nothing has done its work.
removeDavResource(i) == {NoCopy}

Removed(i) == CASE writer = "jmapMail" -> removeEmail(i)
                [] writer = "imap" -> removeMessage(i)
                [] writer = "jmapFile" -> removeNode(i)
                [] writer = "jmapContact" -> removeCard(i)
                [] OTHER -> removeDavResource(i)

\* A server that says it moved the message is not believed.
Verifies == writer = "imap" \/ (writer = "jmapMail" /\ bin)

\* A variant of removeItem that believes the server.
removeItemTrusting ==
    /\ op.at = "act"
    /\ IF Removed(op.id) = {}
       THEN Throws /\ UNCHANGED <<copies, wrong, used>>
       ELSE /\ \/ (\E c \in Removed(op.id) : copies' = [copies EXCEPT ![op.id] = c]) /\ UNCHANGED used
               \/ Verifies /\ Spend("faults", MaxFaults, 1) /\ UNCHANGED copies
            /\ wrong' = wrong \cup {i \in {op.id} \cap Live : copies[i].key # op.key}
            /\ op' = [op EXCEPT !.at = "record"]
            /\ UNCHANGED rows
    /\ UNCHANGED <<writer, bin, uidplus, folder, nextId, epoch, clock, changed, pass, snapshot>>

\* The request, which the server may say it has done when it has not.
removeItem ==
    /\ op.at = "act"
    /\ IF Removed(op.id) = {}
       THEN Throws /\ UNCHANGED <<copies, wrong, used>>
       ELSE /\ \/ (\E c \in Removed(op.id) : copies' = [copies EXCEPT ![op.id] = c]) /\ UNCHANGED used
               \/ Verifies /\ Spend("faults", MaxFaults, 1) /\ UNCHANGED copies
            /\ wrong' = wrong \cup {i \in {op.id} \cap Live : copies[i].key # op.key}
            /\ op' = [op EXCEPT !.at = IF Verifies THEN "verify" ELSE "record"]
            /\ UNCHANGED rows
    /\ UNCHANGED <<writer, bin, uidplus, folder, nextId, epoch, clock, changed, pass, snapshot>>

\* JMAP: the trash alone holds it now; IMAP: the UID is not in the mailbox.
verifyGone ==
    /\ op.at = "verify"
    /\ IF IF writer = "imap" THEN ~Reaches(op.id) ELSE copies[op.id].place = "bin"
       THEN op' = [op EXCEPT !.at = "record"] /\ UNCHANGED rows
       ELSE Throws
    /\ UNCHANGED <<server, changed, pass, snapshot, wrong, used>>

RecordRemoval ==
    /\ op.at = "record" /\ op.kind = "remove"
    /\ rows' = [rows EXCEPT ![op.key].status = "tombstoned"]
    /\ op' = NoOp
    /\ UNCHANGED <<server, changed, pass, snapshot, wrong, used>>

-----------------------------------------------------------------------------
(* The owner, in the old system and in the new.                            *)

Owner == Spend("owner", MaxOwner, 1)
AtHome == <<rows, pass, snapshot, op, wrong>>

SourceChanges(k) ==
    /\ Rewrites /\ k \notin changed /\ rows[k].status = "copied" /\ op.key # k
    /\ changed' = changed \cup {k}
    /\ UNCHANGED <<server, AtHome, used>>

\* Somebody adds an item with the same key, or one that has none.
Arrives(k) ==
    /\ Owner /\ nextId < MaxIds /\ clock < MaxClock /\ folder = "there"
    /\ writer \in {"jmapFile", "jmapContact"} => MustRefuse(k) = {}
    /\ nextId' = nextId + 1 /\ clock' = clock + 1
    /\ copies' = [copies EXCEPT ![nextId + 1] =
                    [key |-> k, ver |-> clock + 1, place |-> "folder",
                     ours |-> FALSE, edited |-> FALSE]]
    /\ UNCHANGED <<writer, bin, uidplus, folder, epoch, changed, AtHome>>

Edits(i) ==
    /\ Owner /\ Rewrites /\ i \in Shown /\ clock < MaxClock
    /\ EditsMidWrite \/ op.id # i \/ op.at \notin {"write", "act", "readback"}
    /\ copies' = [copies EXCEPT ![i].ver = clock + 1, ![i].edited = TRUE]
    /\ clock' = clock + 1
    /\ UNCHANGED <<writer, bin, uidplus, folder, nextId, epoch, changed, AtHome>>

Discards(i) ==
    /\ Owner /\ i \in Live
    /\ copies' = [copies EXCEPT ![i] = IF writer \in {"jmapMail", "imap"} /\ bin /\ @.place # "bin"
                                       THEN [@ EXCEPT !.place = "bin"] ELSE NoCopy]
    /\ UNCHANGED <<writer, bin, uidplus, folder, nextId, epoch, clock, changed, AtHome>>

\* A message filed elsewhere while it is being moved to the trash is in both.
Files(i) ==
    /\ Owner /\ writer \in {"jmapMail", "jmapContact", "imap"}
    /\ copies[i].place = "folder" \/ (copies[i].place = "bin" /\ op.at = "verify" /\ op.id = i
                                      /\ writer = "jmapMail")
    /\ copies' = [copies EXCEPT ![i].place = IF @ = "bin" THEN "both" ELSE "elsewhere"]
    /\ UNCHANGED <<writer, bin, uidplus, folder, nextId, epoch, clock, changed, AtHome>>

\* The mailbox is made anew, and its messages are numbered in another order.
Recreates ==
    /\ Owner /\ writer = "imap" /\ epoch <= MaxClock
    /\ MovesMidApply \/ op.kind # "remove"
    /\ epoch' = epoch + 1
    /\ \E p \in [1 .. nextId -> 1 .. nextId] :
          /\ \A i, j \in 1 .. nextId : i # j => p[i] # p[j]
          /\ copies' = [i \in Ids |-> IF i <= nextId THEN copies[p[i]] ELSE copies[i]]
    /\ UNCHANGED <<writer, bin, uidplus, folder, nextId, clock, changed, AtHome>>

\* The folder goes, with what is in it, or comes back.
TogglesFolder ==
    /\ Owner
    /\ folder' = IF folder = "there" THEN "absent" ELSE "there"
    /\ copies' = [i \in Ids |-> IF copies[i].place = "folder" THEN NoCopy ELSE copies[i]]
    /\ UNCHANGED <<writer, bin, uidplus, nextId, epoch, clock, changed, AtHome>>

-----------------------------------------------------------------------------

PassNext == StartPass \/ FindFolder \/ MakeFolder \/ EndPass \/ Crash \/ RequestFails
OpNext ==
    \/ targetKeys \/ findByNaturalKey \/ uidValidityOf
    \/ AlreadyThere \/ CreateCopy \/ NoFolder \/ Rescan \/ ReadBack
    \/ CheckVersion \/ CheckUid \/ RewriteCopy \/ RecordCopy
    \/ removeItem \/ verifyGone \/ RecordRemoval
ItemNext == \E k \in Keys : BeginCreate(k) \/ BeginRewrite(k) \/ BeginRemove(k)
                             \/ SourceChanges(k)
OwnerNext ==
    \/ \E k \in Keys \cup {NoKey} : Arrives(k)
    \/ \E i \in Ids : Edits(i) \/ Discards(i) \/ Files(i)
    \/ Recreates \/ TogglesFolder

WritingNext == PassNext \/ OpNext \/ ItemNext \/ OwnerNext
WritingSpec == WritingInit /\ [][WritingNext]_vars

-----------------------------------------------------------------------------
(* Properties.                                                             *)

\* Every variable keeps its type.
WritingTypeOK ==
    /\ writer \in Writers /\ {bin, uidplus} \subseteq BOOLEAN
    /\ folder \in {"absent", "there", "blocked"}
    /\ copies \in [Ids -> Copy] /\ nextId \in 0 .. MaxIds
    /\ epoch \in 1 .. MaxClock + 1 /\ clock \in 0 .. MaxClock
    /\ rows \in [Keys -> Row]
    /\ changed \subseteq Keys
    /\ pass \in Pass /\ snapshot \in Snapshot /\ op \in Op
    /\ wrong \subseteq Ids
    /\ used \in [owner: 0 .. MaxOwner, faults: 0 .. MaxFaults]

\* However answers are lost, listings shift and workers die, an item is never on the
\* target twice by our doing, as far as its writer can see (hard rule 2, ADR-0020).
NoSecondCopy ==
    \A k \in Keys : Cardinality({i \in Holders(k) : copies[i].ours}) <= 1

\* A row says an item was removed only when its copy is nowhere to be seen (over IMAP:
\* not in the mailbox it was copied to): what the server claims is checked before the
\* ledger is told.
RemovalIsReal ==
    \A k \in Keys : rows[k].status = "tombstoned"
                    => IF writer = "imap" THEN rows[k].ver = epoch => ~Reaches(rows[k].id)
                       ELSE rows[k].id \notin Shown

\* A removal never takes a message other than its own, however mailboxes are
\* recreated and UIDs are given out again.
RemovesOnlyItsItem == wrong = {}

\* A file or card the owner has edited, or made, is rewritten or removed by us only when
\* the ledger has no version for it or the check could not read one.
KeepsTheirEdit ==
    [][\A i \in Ids : Rewrites /\ (copies[i].edited \/ ~copies[i].ours) /\ i \in Live
                      /\ copies'[i] # copies[i] /\ op' # op
                      => rows[op.key].ver = 0 \/ op.blind]_vars

\* The version the ledger has for a copy is never that of an edit the owner made.
\* (jmap-file-target.ts, jmap-contact-target.ts: the version is read back after the
\* write, so it is whatever is there by then.)
VersionIsOurs ==
    \A k \in Keys : LET row == rows[k] IN
        Rewrites /\ row.status = "copied" /\ row.ver # 0 /\ copies[row.id].ver = row.ver
        => ~copies[row.id].edited
=============================================================================
