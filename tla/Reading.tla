------------------------------- MODULE Reading -------------------------------
(***************************************************************************)
(* How a folder of the old system is read (packages/connectors/src/*-      *)
(* source.ts): eleven connectors, one `listSince` each, and a cursor the   *)
(* caller stores between passes.  The connectors differ in what their      *)
(* cursor means, in what they do with one they cannot use, in what they    *)
(* leave out of a listing and in whether they say what was removed.        *)
(*                                                                         *)
(* The provider is external: it keeps a log of changes, answers in pages   *)
(* while its contents go on changing, forgets old positions in the log,    *)
(* refuses requests, and may change its mind about UIDVALIDITY.            *)
(***************************************************************************)
EXTENDS Integers, FiniteSets

CONSTANTS
    Items,
    Odd,          \* entries the connector can make no item of, or not name
    Level,        \* how many folders below the root an item is
    Twins,        \* items in a second folder of the same name
    Dialects,     \* the connectors of an instance
    Roles,        \* "content": a folder to copy; "bin": the owner's trash
    HasFallback,  \* the mailbox can be read over Graph when IMAP refuses to log in
    MAX_PAGES,    \* MAX_DELTA_PAGES, or the 1000 hops of Box and Dropbox
    MAX_FOLDER_DEPTH,
    MaxChanges, MaxEpochs, MaxFaults, MaxEmpty   \* bounds on the provider

Graph == {"graphMail", "graphDrive", "graphCalendar", "graphContacts"}
Dav == {"caldav", "carddav"}
FullListings == {"drive", "box", "dropbox"}
AllDialects == {"imap", "webdav"} \cup Graph \cup Dav \cup FullListings

ASSUME ReadingAssumption ==
    /\ IsFiniteSet(Items)
    /\ Odd \subseteq Items /\ Twins \subseteq Items
    /\ Level \in [Items -> Nat]
    /\ Dialects \subseteq AllDialects /\ Dialects # {}
    /\ Roles \subseteq {"content", "bin"} /\ Roles # {}
    /\ HasFallback \in BOOLEAN
    /\ MAX_PAGES \in Nat \ {0} /\ MAX_FOLDER_DEPTH \in Nat
    /\ {MaxChanges, MaxEpochs, MaxFaults, MaxEmpty} \subseteq Nat

VARIABLES
    dialect,  \* the connector the mapping was built with
    role,     \* what the folder is for
    version,  \* when each item last changed: its etag, its place in the log
    uid,      \* over IMAP, its UID
    uidNext,  \* and the UID the next message will get
    here,     \* the items the folder holds now
    clock,    \* the number of changes so far
    epoch,    \* UIDVALIDITY, or the age of the oldest log position still known
    cursor,   \* the stored cursor of the folder
    pass,     \* the listing in progress
    given,    \* the version of each item the caller has recorded last
    skipped,  \* items left out of a listing, with at most a warning, as they are now
    told,     \* items reported as removed since they were last given
    restarted,\* a listing has had to start over although items were given
    used      \* what the environment has spent of its bounds

vars == <<dialect, role, version, uid, uidNext, here, clock, epoch, cursor, pass,
          given, skipped, told, restarted, used>>
provider == <<dialect, role, version, uid, uidNext, here, clock, epoch>>

-----------------------------------------------------------------------------
(* Cursors and listings.                                                   *)

Forms == {"none", "imap", "delta", "token", "ctag", "etags", "full"}
Versions == 0 .. MaxChanges
Nothing == [i \in Items |-> 0]

Cursor == [form: Forms, epoch: 0 .. MaxEpochs, at: 0 .. MaxChanges + 1,
           seen: [Items -> Versions]]
NoCursor == [form |-> "none", epoch |-> 0, at |-> 0, seen |-> Nothing]

\* `left`: entries the provider has not sent yet; `gone`: tombstones it has sent;
\* `start`, `epoch`: what the provider said when the listing began; `all`: CardDAV
\* has fallen back to a query for everything.
Pass == [at: {"idle", "pages", "listed", "recorded", "stored"}, by: AllDialects,
         from: Cursor, start: 0 .. MaxChanges + 1, epoch: 0 .. MaxEpochs, left: SUBSET Items,
         hops: Nat, found: [Items -> Versions], uids: SUBSET Versions, gone: SUBSET Items,
         blank: SUBSET Items, all: BOOLEAN, again: BOOLEAN, next: Cursor]

NoPass == [at |-> "idle", by |-> "imap", from |-> NoCursor, start |-> 0, epoch |-> 0,
           left |-> {}, hops |-> 0, found |-> Nothing, uids |-> {}, gone |-> {}, blank |-> {},
           all |-> FALSE, again |-> FALSE, next |-> NoCursor]

ReadingTypeOK ==
    /\ dialect \in Dialects /\ role \in Roles
    /\ version \in [Items -> Versions]
    /\ uid \in [Items -> Versions] /\ uidNext \in 1 .. MaxChanges + 1
    /\ here \subseteq Items
    /\ clock \in Versions /\ epoch \in 0 .. MaxEpochs
    /\ cursor \in Cursor
    /\ pass \in Pass
    /\ given \in [Items -> Versions]
    /\ skipped \subseteq Items /\ told \subseteq Items
    /\ restarted \in BOOLEAN
    /\ used \in [faults: Nat, empty: Nat]

ReadingInit ==
    /\ dialect \in Dialects
    /\ role \in IF dialect = "imap" THEN Roles ELSE Roles \cap {"content"}
    /\ version = Nothing /\ uid = Nothing /\ uidNext = 1 /\ here = {} /\ clock = 0 /\ epoch = 0
    /\ cursor = NoCursor /\ pass = NoPass
    /\ given = Nothing /\ skipped = {} /\ told = {} /\ restarted = FALSE
    /\ used = [faults |-> 0, empty |-> 0]

\* A mailbox over IMAP is read over Graph for the rest of a run once listFolders has
\* failed to log in; the next run starts with IMAP again.
Transports == IF dialect = "imap" /\ HasFallback THEN {"imap", "graphMail"} ELSE {dialect}

Spend(what, bound, n) ==
    /\ used[what] + n <= bound
    /\ used' = [used EXCEPT ![what] = @ + n]

-----------------------------------------------------------------------------
(* The provider (external).                                                *)

\* An item arrives, changes or comes back.
Change(i) ==
    /\ clock < MaxChanges
    /\ clock' = clock + 1
    /\ version' = [version EXCEPT ![i] = clock + 1]
    /\ here' = here \cup {i}
    /\ IF dialect = "imap"
       THEN uid' = [uid EXCEPT ![i] = uidNext] /\ uidNext' = uidNext + 1
       ELSE UNCHANGED <<uid, uidNext>>
    /\ skipped' = skipped \ {i}
    /\ UNCHANGED <<dialect, role, epoch, cursor, pass, given, told, restarted, used>>

Remove(i) ==
    /\ clock < MaxChanges /\ i \in here
    /\ clock' = clock + 1
    /\ version' = [version EXCEPT ![i] = clock + 1]
    /\ here' = here \ {i}
    /\ skipped' = skipped \ {i}
    /\ UNCHANGED <<dialect, role, uid, uidNext, epoch, cursor, pass, given, told, restarted, used>>

\* Tokens issued so far are no longer accepted.  Over IMAP, UIDVALIDITY changes and
\* the messages are numbered anew; never under an open mailbox.
Expire ==
    /\ epoch < MaxEpochs
    /\ epoch' = epoch + 1
    /\ IF dialect = "imap"
       THEN /\ ~(pass.at = "pages" /\ pass.by = "imap")
            /\ uid' = [i \in Items |-> IF i \in here
                                       THEN Cardinality({j \in here : uid[j] <= uid[i]})
                                       ELSE 0]
            /\ uidNext' = Cardinality(here) + 1
       ELSE UNCHANGED <<uid, uidNext>>
    /\ UNCHANGED <<dialect, role, version, here, clock, cursor, pass, given, skipped,
                   told, restarted, used>>

-----------------------------------------------------------------------------
(* What each connector does: the form of its cursor, whether it gives up   *)
(* on a listing that does not stop paging, what it does when the provider  *)
(* refuses the position it asks from, which entries it makes no item of,   *)
(* what becomes of a tombstone, and whether each item is requested again.  *)

\* Entries no item is made of: an event or a card without a UID, or one that cannot be
\* parsed; an event whose iCalendar has no component; a drive item whose
\* parentReference names no path; a Dropbox entry without path_display.
parseCalendarObject == Odd
parseContactObject == Odd
parseIcal == Odd
itemPath == Odd
relativePath == Odd

\* An entry without fields, as a tombstone is, is mapped to a card all the same.
mapToVCard4 == "item"

\* UIDs from the cursor on, of the same UIDVALIDITY.  A message without a Message-ID
\* is listed all the same, with an empty one.
ImapFlowSource ==
    [form |-> "imap", capped |-> FALSE, onRefusal |-> "restart", drops |-> {},
     tombstones |-> "none", refetches |-> FALSE]

\* A variant of GraphMailSource that does not look at `@removed`.
GraphMailUnfiltered ==
    [form |-> "delta", capped |-> FALSE, onRefusal |-> "throw", drops |-> Odd,
     tombstones |-> "item", refetches |-> FALSE]

GraphMailSource ==
    [form |-> "delta", capped |-> FALSE, onRefusal |-> "throw", drops |-> Odd,
     tombstones |-> "removed", refetches |-> FALSE]

GraphDriveSource ==
    [form |-> "delta", capped |-> FALSE, onRefusal |-> "throw", drops |-> itemPath,
     tombstones |-> "removed", refetches |-> FALSE]

\* Each event is requested again as iCalendar; one that fails is skipped.  A
\* tombstone is such an event.
GraphCalendarSource ==
    [form |-> "delta", capped |-> TRUE, onRefusal |-> "throw", drops |-> parseIcal,
     tombstones |-> "none", refetches |-> TRUE]

\* A tombstone is mapped like any contact: to a card that has a UID and no content.
GraphContactsSource ==
    [form |-> "delta", capped |-> TRUE, onRefusal |-> "throw", drops |-> {},
     tombstones |-> mapToVCard4, refetches |-> FALSE]

CalDAVSource ==
    [form |-> "token", capped |-> FALSE, onRefusal |-> "throw", drops |-> parseCalendarObject,
     tombstones |-> "removed", refetches |-> FALSE]

\* Any answer but 207 falls back to an addressbook-query for everything.
CarddavSource ==
    [form |-> "token", capped |-> FALSE, onRefusal |-> "query", drops |-> parseContactObject,
     tombstones |-> "removed", refetches |-> FALSE]

WebdavFileSource ==
    [form |-> "etags", capped |-> FALSE, onRefusal |-> "restart", drops |-> {},
     tombstones |-> "none", refetches |-> FALSE]

GoogleDriveSource ==
    [form |-> "full", capped |-> FALSE, onRefusal |-> "restart", drops |-> {},
     tombstones |-> "none", refetches |-> FALSE]

BoxFileSource ==
    [form |-> "full", capped |-> TRUE, onRefusal |-> "restart", drops |-> {},
     tombstones |-> "none", refetches |-> FALSE]

DropboxFileSource ==
    [form |-> "full", capped |-> TRUE, onRefusal |-> "restart", drops |-> relativePath,
     tombstones |-> "none", refetches |-> FALSE]

Connector == [imap |-> ImapFlowSource, webdav |-> WebdavFileSource,
              graphMail |-> GraphMailSource, graphDrive |-> GraphDriveSource,
              graphCalendar |-> GraphCalendarSource,
              graphContacts |-> GraphContactsSource,
              caldav |-> CalDAVSource, carddav |-> CarddavSource,
              drive |-> GoogleDriveSource, box |-> BoxFileSource,
              dropbox |-> DropboxFileSource]

\* WebDAV asks for its folders with Depth: 1 and goes no further.
webdavListFolders == {i \in Items : Level[i] <= 1}
\* OneDrive's walk throws past MAX_FOLDER_DEPTH, and then nothing is read at all.
graphDriveListFolders == IF \A i \in Items : Level[i] <= MAX_FOLDER_DEPTH THEN Items ELSE {}
\* Drive finds a folder again by its name, and takes the first match.
driveResolveFolderId == Items \ Twins

Reads(d) == CASE d = "webdav" -> webdavListFolders
              [] d = "graphDrive" -> graphDriveListFolders
              [] d = "drive" -> driveResolveFolderId
              [] OTHER -> Items

-----------------------------------------------------------------------------
(* Decoding the stored cursor.                                             *)

\* A variant of decodeImapCursor that does not look at UIDVALIDITY.
decodeImapUid(c) == c.form = "imap"

\* decodeImapCursor throws on any other form, and another UIDVALIDITY is no cursor.
decodeImapCursor(c) == c.form = "imap" /\ c.epoch = epoch
\* CURSOR_PREFIX, or decodeCursor throws.
decodeDelta(c) == c.form = "delta"
\* "ctag:" and the empty value ask for everything.
decodeSyncToken(c) == c.form = "token"
decodeEtags(c) == c.form = "etags"

Usable(d, c) == CASE Connector[d].form = "imap" -> decodeImapCursor(c)
                  [] Connector[d].form = "delta" -> decodeDelta(c)
                  [] Connector[d].form = "token" -> decodeSyncToken(c)
                  [] Connector[d].form = "etags" -> decodeEtags(c)
                  [] OTHER -> FALSE

From(d, c) == IF Usable(d, c) THEN c ELSE NoCursor

\* The provider does not know the position any more (410, or an invalid sync-token).
Refused(c) == c.form \in {"delta", "token"} /\ c.epoch # epoch

\* WebDAV: the etag, the size and the date the cursor holds are the ones seen now.
hasChanged(i, c) == c.seen[i] # version[i]

\* What a listing from c has to send.
Sent(c, i) == CASE c.form = "imap" -> i \in here /\ uid[i] >= c.at
                [] c.form \in {"delta", "token"} -> version[i] > c.at
                [] c.form = "etags" -> i \in here /\ hasChanged(i, c)
                [] OTHER -> i \in here

-----------------------------------------------------------------------------
(* A listing.                                                              *)

\* listFolders has answered and listSince sends its first request.  IMAP opens the
\* mailbox; what it then fetches is decided when it fetches.
BeginListing(d) ==
    /\ pass.at = "idle" /\ d \in Transports
    /\ Reads(d) # {}
    /\ LET c == From(d, cursor)
           from == IF Refused(c) THEN NoCursor ELSE c
       IN /\ Refused(c) => Connector[d].onRefusal # "throw"
          /\ pass' = [NoPass EXCEPT !.at = "pages", !.by = d, !.from = from,
                                    !.start = IF d = "imap" THEN uidNext ELSE clock,
                                    !.epoch = epoch,
                                    !.left = {i \in Reads(d) : Sent(from, i)},
                                    !.all = Refused(c)]
          /\ restarted' = (restarted \/ (from = NoCursor /\ given # Nothing))
    /\ UNCHANGED <<provider, cursor, given, skipped, told, used>>

\* The 404 entries of a sync-collection report, Graph's `@removed` and `deleted`.
parseRemovedHrefs(S) == S \ here

\* A variant of Received that drops tombstones on the first page.
ReceivedLate(S) ==
    [pass EXCEPT !.left = @ \ S,
                 !.found = [i \in Items |-> IF i \in S \cap here THEN version[i] ELSE @[i]],
                 !.gone = @ \cup (IF pass.hops = 0 THEN {} ELSE S \ here)]

\* Entries the provider sends as they are by now: found, or gone.
Received(S) == [pass EXCEPT !.left = @ \ S,
                            !.found = [i \in Items |-> IF i \in S \cap here
                                                       THEN version[i] ELSE @[i]],
                            !.gone = @ \cup (IF pass.from = NoCursor THEN {} ELSE parseRemovedHrefs(S))]

\* One page of a listing that pages; a page may be empty.
NextPage ==
    /\ pass.at = "pages" /\ pass.left # {}
    /\ Connector[pass.by].form \in {"delta", "full"}
    /\ \E S \in SUBSET pass.left :
          /\ IF S = {} THEN Spend("empty", MaxEmpty, 1) ELSE UNCHANGED used
          /\ pass' = IF Connector[pass.by].capped /\ pass.hops = MAX_PAGES
                     THEN NoPass
                     ELSE [Received(S) EXCEPT !.hops = @ + 1]
    /\ UNCHANGED <<provider, cursor, given, skipped, told, restarted>>

\* IMAP's FETCH 1:*, WebDAV's PROPFIND and a DAV REPORT answer at once.
OneAnswer ==
    /\ pass.at = "pages" /\ pass.hops = 0
    /\ Connector[pass.by].form \in {"imap", "etags", "token"}
    /\ LET S == IF pass.by = "imap" THEN {i \in Items : Sent(pass.from, i)} ELSE pass.left
       IN pass' = [Received(S) EXCEPT !.left = {}, !.hops = 1,
                              !.uids = IF pass.by = "imap" THEN {uid[i] : i \in S} ELSE {}]
    /\ UNCHANGED <<provider, cursor, given, skipped, told, restarted, used>>

\* A variant of maxUidNext that counts past UIDNEXT.
uidAfterNext == pass.start + 1

\* The UIDNEXT the mailbox was opened with, or the cursor's; past every UID above it.
maxUidNext ==
    LET opened == IF pass.from.form = "imap" THEN pass.from.at ELSE pass.start
        Above == pass.uids \ (0 .. opened)
    IN IF Above = {} THEN opened ELSE 1 + CHOOSE u \in Above : \A v \in Above : v <= u

\* WebDAV's cursor holds what changed in this listing, and no more.
buildCursor == [NoCursor EXCEPT !.form = "etags", !.seen = pass.found]

Positioned(form) == [NoCursor EXCEPT !.form = form, !.epoch = pass.epoch, !.at = pass.start]

\* A DAV server may answer without a token; a query for everything never has one.
NextCursors ==
    CASE Connector[pass.by].form = "imap" ->
            {[NoCursor EXCEPT !.form = "imap", !.epoch = pass.epoch, !.at = maxUidNext]}
      [] Connector[pass.by].form = "delta" -> {Positioned("delta")}
      [] Connector[pass.by].form = "token" ->
            IF pass.all THEN {NoCursor}
            ELSE {Positioned("token"), [NoCursor EXCEPT !.form = "ctag"]}
      [] Connector[pass.by].form = "etags" -> {buildCursor}
      [] OTHER -> {[NoCursor EXCEPT !.form = "full"]}

\* The last page is in: entries become items, and the next cursor is made.  An event
\* of Graph's calendar is requested again here, and skipped if that fails.
EndListing ==
    /\ pass.at = "pages" /\ pass.left = {} /\ (pass.hops > 0 \/ pass.by # "imap")
    /\ (Connector[pass.by].form \in {"imap", "etags", "token"}) => pass.hops = 1
    /\ LET k == Connector[pass.by]
           Found == {i \in Items : pass.found[i] > 0}
       IN \E failed \in IF k.refetches THEN SUBSET Found ELSE {{}} :
          /\ Spend("faults", MaxFaults, Cardinality(failed))
          /\ LET out == failed \cup (Found \cap k.drops)
             IN \E c \in NextCursors :
                /\ pass' = [pass EXCEPT
                       !.at = "listed", !.next = c, !.uids = {},
                       !.found = [i \in Items |-> IF i \in out THEN 0 ELSE @[i]],
                       !.gone = IF k.tombstones = "removed" THEN @ ELSE {},
                       !.blank = IF k.tombstones = "item" THEN pass.gone ELSE {}]
                /\ skipped' = skipped \cup {i \in out : pass.found[i] = version[i]}
    /\ UNCHANGED <<provider, cursor, given, told, restarted>>

\* A request fails for good, or the worker dies: what was listed is lost.
Fail ==
    /\ pass.at # "idle"
    /\ Spend("faults", MaxFaults, 1)
    /\ pass' = NoPass
    /\ UNCHANGED <<provider, cursor, given, skipped, told, restarted>>

\* IMAP: an authentication error refreshes the token and does the listing again, once.
withConnection ==
    /\ pass.at = "pages" /\ pass.by = "imap" /\ ~pass.again
    /\ Spend("faults", MaxFaults, 1)
    /\ pass' = [pass EXCEPT !.from = From("imap", cursor), !.start = uidNext,
                            !.epoch = epoch, !.hops = 0, !.again = TRUE,
                            !.left = {}, !.found = Nothing, !.uids = {}, !.gone = {}]
    /\ UNCHANGED <<provider, cursor, given, skipped, told, restarted>>

-----------------------------------------------------------------------------
(* What the caller does with it.  A folder to copy is recorded item by     *)
(* item and its cursor stored last (runDomainSync); the bin's cursor is    *)
(* stored inside listDiscardedKeys, before its caller records anything.    *)

First == IF role = "content" THEN "listed" ELSE "stored"

RecordListing ==
    /\ pass.at = First
    /\ given' = [i \in Items |-> IF pass.found[i] > 0 THEN pass.found[i] ELSE given[i]]
    /\ told' = (told \ {i \in Items : pass.found[i] > 0}) \cup pass.gone
    /\ pass' = IF role = "content" THEN [pass EXCEPT !.at = "recorded"] ELSE NoPass
    /\ UNCHANGED <<provider, cursor, skipped, restarted, used>>

\* A variant of StoreCursor: a folder's cursor is kept as soon as it is listed.
StoreCursorFirst ==
    /\ pass.at \in {"listed", "recorded"}
    /\ cursor' = pass.next
    /\ pass' = IF pass.at = "recorded" THEN NoPass ELSE pass
    /\ UNCHANGED <<provider, given, skipped, told, restarted, used>>

StoreCursor ==
    /\ pass.at = IF role = "content" THEN "recorded" ELSE "listed"
    /\ cursor' = pass.next
    /\ pass' = IF role = "content" THEN NoPass ELSE [pass EXCEPT !.at = "stored"]
    /\ UNCHANGED <<provider, given, skipped, told, restarted, used>>

\* RETRY clears the stored cursors of a mapping.
ClearCursor ==
    /\ cursor # NoCursor
    /\ Spend("faults", MaxFaults, 1)
    /\ cursor' = NoCursor
    /\ UNCHANGED <<provider, pass, given, skipped, told, restarted>>

Begin == \E d \in AllDialects : BeginListing(d)
Provider == Expire \/ \E i \in Items : Change(i) \/ Remove(i)

ReadingNext == \/ Provider \/ Begin \/ NextPage \/ OneAnswer \/ EndListing
               \/ Fail \/ withConnection \/ RecordListing \/ StoreCursor \/ ClearCursor

\* Passes are scheduled again and again (SyncService), and requests are answered.
ReadingFairness ==
    /\ WF_vars(Begin) /\ WF_vars(NextPage) /\ WF_vars(OneAnswer)
    /\ WF_vars(EndListing) /\ WF_vars(RecordListing) /\ WF_vars(StoreCursor)

ReadingSpec == ReadingInit /\ [][ReadingNext]_vars /\ ReadingFairness

-----------------------------------------------------------------------------
(* What must hold.                                                         *)

UpToDate(i) == given[i] = version[i] \/ i \in skipped
\* What the stored cursor does not hide; a cursor the provider refuses hides nothing.
Sends(d, i) == LET c == From(d, cursor) IN Refused(c) \/ Sent(c, i)
SeenBy(d) == here \cap Reads(d)

\* A cursor never hides an item the caller has not recorded: whatever the order of
\* changes, pages, expiries, changes of transport and crashes, each item of a folder
\* to copy is recorded as it is now, was left out with a warning, or is sent by the
\* next listing from the stored cursor, over every transport it may be read by.
NothingHidden ==
    role = "content" =>
        \A d \in Transports : \A i \in SeenBy(d) :
            UpToDate(i) \/ Sends(d, i)

\* The same of the bin, whose entries are the evidence that mail was deleted.
DiscardedNotForgotten ==
    (role = "bin" /\ pass.at # "stored") =>
        \A i \in here : UpToDate(i) \/ Sends("imap", i)

\* The same of every folder below the root, the deep ones too.
AllFoldersRead ==
    \A i \in here : UpToDate(i) \/ (i \in Reads(dialect) /\ Sends(dialect, i))

\* A listing hands over only items the source had while it was being listed.
ListedIsReal == pass.blank = {}

\* A removal the provider reports is never lost between two listings: an item that was
\* recorded and is gone has been reported, or is still in the log after the stored
\* cursor; only a listing that starts over loses sight of it.
RemovalNotLost ==
    (role = "content" /\ Connector[dialect].tombstones = "removed" /\ ~restarted) =>
        \A i \in Items \ here :
            (given[i] # 0 /\ i \notin told) =>
                cursor = NoCursor \/ (Usable(dialect, cursor) => Sent(cursor, i))

Forgiving == {d \in AllDialects : Connector[d].onRefusal # "throw"}

\* Once the source is quiet everything it holds has been handed over, whatever became
\* of the cursors on the way, for every connector that can do without its cursor.  (A
\* mailbox with a fallback is read over IMAP again some time.)
CatchesUp ==
    <>[]((role = "content" /\ dialect \in Forgiving) =>
             \A i \in SeenBy(dialect) : UpToDate(i))

\* The same for every connector: an expired cursor is only a reason to list again.
CursorsAreNotAuthoritative == <>[](\A i \in SeenBy(dialect) : UpToDate(i))
=============================================================================
