---------------------------- MODULE ReadingProofs ----------------------------
(***************************************************************************)
(* What holds of the listings of a folder and of its stored cursor, for    *)
(* every set of items, every connector and every number of changes,        *)
(* expiries and faults.                                                    *)
(***************************************************************************)
EXTENDS Reading, FiniteSetTheorems, WellFoundedInduction, TLAPS

\* A set of natural numbers that is not empty has a smallest member ...
LEMMA Smallest ==
    ASSUME NEW T \in SUBSET Nat, T # {}
    PROVE  \E x \in T : \A y \in T : x <= y
  <1>1. \E x \in T : \A y \in T : ~ (<<y, x>> \in OpToRel(<, Nat))
    BY NatLessThanWellFounded, WFMin
  <1>2. \E x \in T : \A y \in T : ~(y < x)
    BY <1>1 DEF OpToRel
  <1> QED BY <1>2

\* ... and, if it is bounded, a largest one.
LEMMA Largest ==
    ASSUME NEW S \in SUBSET Nat, S # {}, NEW n \in Nat, \A s \in S : s <= n
    PROVE  \E u \in S : \A v \in S : v <= u
  <1> DEFINE T == {m \in Nat : n - m \in S}
  <1>1. \A s \in S : n - s \in T
    OBVIOUS
  <1>2. T \subseteq Nat /\ T # {}
    BY <1>1
  <1>3. PICK x \in T : \A y \in T : x <= y
    BY <1>2, Smallest
  <1>4. x \in Nat /\ n - x \in S
    OBVIOUS
  <1> HIDE DEF T
  <1>5. ASSUME NEW v \in S PROVE v <= n - x
    <2>1. x <= n - v
      BY <1>1, <1>3
    <2> QED BY <2>1, <1>4
  <1> QED BY <1>4, <1>5

\* What each connector's cursor looks like.
LEMMA ConnectorForms ==
    /\ \A d \in AllDialects : /\ Connector[d].form \in {"imap", "delta", "token", "etags", "full"}
                              /\ Connector[d].form = "imap" <=> d = "imap"
    /\ Connector["graphMail"].form = "delta"
    /\ Connector["imap"].tombstones = "none" /\ Connector["webdav"].drops = {}
  BY DEF AllDialects, Graph, Dav, FullListings, Connector, ImapFlowSource, WebdavFileSource, GraphMailSource,
         GraphDriveSource, GraphCalendarSource, GraphContactsSource, CalDAVSource, CarddavSource,
         GoogleDriveSource, BoxFileSource, DropboxFileSource

-----------------------------------------------------------------------------
(* The invariant.                                                          *)

\* The types, without the bounds of an instance.
AnyCursor == [form: Forms, epoch: Nat, at: Nat, seen: [Items -> Nat]]
AnyPass == [at: {"idle", "pages", "listed", "recorded", "stored"}, by: AllDialects,
            from: AnyCursor, start: Nat, epoch: Nat, left: SUBSET Items,
            hops: Nat, found: [Items -> Nat], uids: SUBSET Nat, gone: SUBSET Items,
            blank: SUBSET Items, all: BOOLEAN, again: BOOLEAN, next: AnyCursor]

Unbounded ==
    /\ dialect \in AllDialects /\ role \in {"content", "bin"}
    /\ version \in [Items -> Nat] /\ uid \in [Items -> Nat] /\ uidNext \in Nat
    /\ here \subseteq Items /\ clock \in Nat /\ epoch \in Nat
    /\ cursor \in AnyCursor /\ pass \in AnyPass
    /\ given \in [Items -> Nat]

\* A version is a time that has been; what is here has one; a UID has been given out.
Dated ==
    /\ \A i \in Items : given[i] <= version[i] /\ version[i] <= clock
    /\ \A i \in here : 0 < version[i] /\ (dialect = "imap" => uid[i] < uidNext)

\* A cursor speaks of the past.
Past(c) ==
    /\ c.epoch <= epoch
    /\ c.form = "imap" /\ c.epoch = epoch => c.at <= uidNext
    /\ c.form \in {"delta", "token"} => c.at <= clock
    /\ c.form = "etags" => \A i \in Items : c.seen[i] <= version[i]

\* A cursor accepted by the provider keeps an item that is here out of the next listing.
Hides(c, i) ==
    \/ c.form = "imap" /\ c.epoch = epoch /\ uid[i] < c.at
    \/ c.form \in {"delta", "token"} /\ c.epoch = epoch /\ version[i] <= c.at
    \/ c.form = "etags" /\ c.seen[i] = version[i]

\* The transport d would ask from c.
Takes(d, c) == Connector[d].form = c.form

Recorded(c) ==
    \A d \in Transports : Takes(d, c) => \A i \in SeenBy(d) : Hides(c, i) => UpToDate(i)

\* The item is recorded as it is now, or will be when the listing is.
InHand(i) == UpToDate(i) \/ pass.found[i] = version[i]

\* What a listing that is under way has still to hear of.
Listing ==
    /\ Past(pass.from) /\ Recorded(pass.from)
    /\ pass.from.form \in {"none", Connector[pass.by].form}
    /\ pass.epoch <= epoch
    /\ pass.by = "imap" =>
          /\ pass.epoch = epoch /\ pass.start <= uidNext
          /\ pass.from.form = "imap" => pass.from.epoch = epoch
          /\ \A u \in pass.uids : u < uidNext
          /\ pass.hops # 0 => \A i \in here : InHand(i) \/ maxUidNext <= uid[i]
    /\ Connector[pass.by].form \in {"delta", "token"} =>
          /\ pass.start <= clock
          /\ \A i \in SeenBy(pass.by) : version[i] <= pass.start => i \in pass.left \/ InHand(i)

\* What the next cursor hides is in hand, and recorded before the cursor is stored.
Listed ==
    /\ Past(pass.next)
    /\ \A i \in SeenBy(pass.by) :
          Hides(pass.next, i) => IF pass.at = "listed" THEN InHand(i) ELSE UpToDate(i)
    /\ pass.next.form \in {"none", "ctag", Connector[pass.by].form}

FoundOnce == \A i \in Items : pass.found[i] <= version[i] /\ (pass.found[i] # 0 => given[i] <= pass.found[i])

PassHolds ==
    /\ pass.at # "idle" => pass.by \in Transports
    /\ FoundOnce
    /\ pass.at = "pages" => Listing
    /\ pass.at \in {"listed", "recorded"} => Listed

Kept == Unbounded /\ Dated /\ Past(cursor) /\ Recorded(cursor) /\ PassHolds

HiddenInv == role = "content" => Kept

-----------------------------------------------------------------------------
(* Facts about cursors.                                                    *)

\* A listing that starts over asks for everything.
LEMMA Blank ==
    /\ NoCursor \in AnyCursor /\ NoCursor.form = "none" /\ NoCursor.epoch = 0
    /\ NoPass \in AnyPass /\ NoPass.at = "idle" /\ \A i \in Items : NoPass.found[i] = 0
    /\ epoch \in Nat => Past(NoCursor)
    /\ \A i : ~Hides(NoCursor, i)
  BY DEF NoCursor, NoPass, Nothing, AnyCursor, AnyPass, Forms, Past, Hides, AllDialects

\* A connector that uses a cursor made it, over IMAP for the mailbox as it is numbered now.
LEMMA UsableForm ==
    ASSUME NEW d \in AllDialects, NEW c \in AnyCursor, Usable(d, c)
    PROVE  /\ Takes(d, c) /\ c.form # "none"
           /\ c.form = "imap" => c.epoch = epoch
  BY ConnectorForms DEF Usable, Takes, decodeImapCursor, decodeDelta, decodeSyncToken, decodeEtags

\* What a listing does not send is hidden by its cursor.
LEMMA UnsentHidden ==
    ASSUME NEW c \in AnyCursor, NEW i \in here, ~Sent(c, i), ~Refused(c),
           c.form = "imap" => c.epoch = epoch, Unbounded
    PROVE  Hides(c, i)
  <1>1. i \in Items /\ uid[i] \in Nat /\ version[i] \in Nat /\ c.at \in Nat
    BY DEF Unbounded, AnyCursor
  <1> QED BY <1>1 DEF Sent, Refused, Hides, hasChanged

\* The transports of a mapping make cursors of different forms.
LEMMA OneForm ==
    ASSUME NEW d \in Transports, NEW e \in Transports, Connector[d].form = Connector[e].form
    PROVE  d = e
  BY ConnectorForms DEF Transports, AllDialects

\* They are connectors.
LEMMA TransportIs == Unbounded => Transports \subseteq AllDialects /\ ("imap" \in Transports => dialect = "imap")
  BY DEF Unbounded, Transports, AllDialects, Graph

\* Therefore no cursor hides what has not been recorded.
LEMMA KeptMeansNothingHidden == HiddenInv => NothingHidden
  <1> SUFFICES ASSUME Kept, role = "content", NEW d \in Transports, NEW i \in SeenBy(d),
                      ~Sends(d, i)
               PROVE  UpToDate(i)
    BY DEF HiddenInv, NothingHidden
  <1>1. d \in AllDialects /\ cursor \in AnyCursor /\ i \in here /\ Unbounded
    BY TransportIs DEF Kept, Unbounded, SeenBy
  <1>2. CASE Usable(d, cursor)
    <2>1. ~Refused(cursor) /\ ~Sent(cursor, i)
      BY <1>2 DEF Sends, From
    <2>2. Hides(cursor, i)
      BY <1>1, <1>2, <2>1, UsableForm, UnsentHidden
    <2> QED BY <1>1, <1>2, <2>2, UsableForm DEF Kept, Recorded
  <1>3. CASE ~Usable(d, cursor)
    <2>1. Sent(NoCursor, i)
      BY <1>1, Blank DEF Sent
    <2> QED BY <1>3, <2>1 DEF Sends, From
  <1> QED BY <1>2, <1>3

\* The largest UID seen is below the next one to be given out.
LEMMA NextUidIsPast ==
    ASSUME Unbounded, pass.by = "imap", Listing
    PROVE  maxUidNext \in Nat /\ maxUidNext <= uidNext
  <1> DEFINE opened == IF pass.from.form = "imap" THEN pass.from.at ELSE pass.start
             Above == pass.uids \ (0 .. opened)
  <1>1. opened \in Nat /\ opened <= uidNext /\ uidNext \in Nat /\ pass.uids \subseteq Nat
    BY DEF Unbounded, AnyPass, AnyCursor, Listing, Past
  <1>2. \A u \in pass.uids : u < uidNext
    BY DEF Listing
  <1> HIDE DEF opened
  <1>3. CASE Above = {}
    BY <1>1, <1>3 DEF maxUidNext, opened
  <1>4. CASE Above # {}
    <2>1. Above \in SUBSET Nat /\ \A u \in Above : u <= uidNext
      BY <1>1, <1>2
    <2>2. \E u \in Above : \A v \in Above : v <= u
      BY <1>1, <1>4, <2>1, Largest
    <2> DEFINE m == CHOOSE u \in Above : \A v \in Above : v <= u
    <2>3. m \in Above
      BY <2>2
    <2>4. maxUidNext = 1 + m
      BY <1>4 DEF maxUidNext, opened
    <2> HIDE DEF m
    <2>5. m \in Nat /\ m < uidNext
      BY <1>1, <1>2, <2>3
    <2> QED BY <1>1, <2>4, <2>5
  <1> QED BY <1>3, <1>4

-----------------------------------------------------------------------------
(* The provider.                                                           *)

\* Time goes on.
Later ==
    /\ UNCHANGED <<dialect, role, cursor, pass, given>>
    /\ version' \in [Items -> Nat] /\ uid' \in [Items -> Nat] /\ uidNext' \in Nat
    /\ here' \subseteq Items /\ clock' \in Nat /\ epoch' \in Nat
    /\ clock <= clock' /\ epoch <= epoch' /\ \A i \in Items : version[i] <= version'[i]

\* What changed has a new version and UID, the rest is as it was,
Renews ==
    \A i \in here' : \/ version'[i] = clock + 1 /\ (dialect = "imap" => uid'[i] = uidNext)
                     \/ i \in here /\ version'[i] = version[i] /\ (UpToDate(i) => UpToDate(i)')

\* numbered as before, unless the mailbox is numbered anew.
Renumbers ==
    \/ epoch' = epoch + 1 /\ ~(pass.at = "pages" /\ pass.by = "imap" /\ dialect = "imap")
    \/ /\ epoch' = epoch /\ uidNext <= uidNext'
       /\ \A i \in here' : version'[i] = version[i] => uid'[i] = uid[i]

\* The steps of the provider do no more than that.
LEMMA ProviderShows ==
    ASSUME Unbounded, Dated, Provider
    PROVE  Dated' /\ Later /\ Renews /\ Renumbers
  <1>0. /\ version \in [Items -> Nat] /\ uid \in [Items -> Nat] /\ uidNext \in Nat
        /\ here \subseteq Items /\ clock \in Nat /\ epoch \in Nat /\ given \in [Items -> Nat]
        /\ \A i \in Items : given[i] <= version[i] /\ version[i] <= clock
        /\ \A i \in here : 0 < version[i] /\ (dialect = "imap" => uid[i] < uidNext)
    BY DEF Unbounded, Dated
  <1>1. ASSUME NEW j \in Items, Change(j) PROVE Dated' /\ Later /\ Renews /\ Renumbers
    <2>1. Later
      BY <1>0, <1>1 DEF Change, Later
    <2>2. Dated'
      BY <1>0, <1>1 DEF Change, Dated
    <2>3. Renews
      BY <1>0, <1>1 DEF Change, Renews, UpToDate
    <2>4. Renumbers
      BY <1>0, <1>1 DEF Change, Renumbers
    <2> QED BY <2>1, <2>2, <2>3, <2>4
  <1>2. ASSUME NEW j \in Items, Remove(j) PROVE Dated' /\ Later /\ Renews /\ Renumbers
    <2>1. Later
      BY <1>0, <1>2 DEF Remove, Later
    <2>2. Dated'
      BY <1>0, <1>2 DEF Remove, Dated
    <2>3. Renews
      BY <1>0, <1>2 DEF Remove, Renews, UpToDate
    <2>4. Renumbers
      BY <1>0, <1>2 DEF Remove, Renumbers
    <2> QED BY <2>1, <2>2, <2>3, <2>4
  <1>3. CASE Expire
    <2> DEFINE Below(i) == {j \in here : uid[j] <= uid[i]}
    <2>1. IsFiniteSet(here) /\ Cardinality(here) \in Nat
      BY <1>0, ReadingAssumption, FS_Subset, FS_CardinalityType
    <2>2. \A i \in Items : Cardinality(Below(i)) \in Nat /\ Cardinality(Below(i)) <= Cardinality(here)
      <3> SUFFICES ASSUME NEW i \in Items
                   PROVE  Cardinality(Below(i)) \in Nat /\ Cardinality(Below(i)) <= Cardinality(here)
        OBVIOUS
      <3>1. Below(i) \in SUBSET here
        OBVIOUS
      <3> HIDE DEF Below
      <3> QED BY <2>1, <3>1, FS_Subset, FS_CardinalityType
    <2>3. /\ epoch' = epoch + 1 /\ UNCHANGED <<dialect, role, version, here, clock, cursor, pass, given, skipped>>
          /\ IF dialect = "imap"
             THEN /\ ~(pass.at = "pages" /\ pass.by = "imap")
                  /\ uid' = [i \in Items |-> IF i \in here THEN Cardinality(Below(i)) ELSE 0]
                  /\ uidNext' = Cardinality(here) + 1
             ELSE UNCHANGED <<uid, uidNext>>
      BY <1>3 DEF Expire
    <2> HIDE DEF Below
    <2>4. uid' \in [Items -> Nat] /\ uidNext' \in Nat /\ (dialect = "imap" => \A i \in here : uid'[i] < uidNext')
      BY <1>0, <2>1, <2>2, <2>3
    <2>5. Later /\ Renumbers
      BY <1>0, <2>3, <2>4 DEF Later, Renumbers
    <2>6. Dated'
      BY <1>0, <2>3, <2>4 DEF Dated
    <2>7. Renews
      BY <1>0, <2>3 DEF Renews, UpToDate
    <2> QED BY <2>5, <2>6, <2>7
  <1> QED BY <1>1, <1>2, <1>3 DEF Provider

\* A cursor goes on speaking of the past, and hides nothing new.
LEMMA HidesNoMore ==
    ASSUME Unbounded, Dated, Later, Renews, Renumbers
    PROVE  \A c \in AnyCursor : Past(c) =>
              /\ Past(c)'
              /\ (c.form = "imap" => dialect = "imap") => \A i \in here' : Hides(c, i)' =>
                    i \in here /\ version'[i] = version[i] /\ Hides(c, i) /\ (UpToDate(i) => UpToDate(i)')
  <1> SUFFICES ASSUME NEW c \in AnyCursor, Past(c)
               PROVE  /\ Past(c)'
                      /\ (c.form = "imap" => dialect = "imap") => \A i \in here' : Hides(c, i)' =>
                            i \in here /\ version'[i] = version[i] /\ Hides(c, i) /\ (UpToDate(i) => UpToDate(i)')
    OBVIOUS
  <1>0. /\ version \in [Items -> Nat] /\ uid \in [Items -> Nat] /\ uidNext \in Nat /\ clock \in Nat /\ epoch \in Nat
        /\ version' \in [Items -> Nat] /\ uid' \in [Items -> Nat] /\ uidNext' \in Nat /\ clock' \in Nat /\ epoch' \in Nat
        /\ here' \subseteq Items /\ c.epoch \in Nat /\ c.at \in Nat /\ c.seen \in [Items -> Nat]
        /\ \A i \in Items : version[i] <= clock /\ version[i] <= version'[i]
        /\ clock <= clock' /\ epoch <= epoch'
    BY DEF Unbounded, Dated, Later, AnyCursor
  <1>1. Past(c)'
    BY <1>0 DEF Past, Renumbers
  <1>2. ASSUME c.form = "imap" => dialect = "imap", NEW i \in here', Hides(c, i)'
        PROVE  i \in here /\ version'[i] = version[i] /\ Hides(c, i) /\ (UpToDate(i) => UpToDate(i)')
    <2>0. i \in Items
      BY <1>0
    <2>1. ~(version'[i] = clock + 1 /\ (dialect = "imap" => uid'[i] = uidNext))
      BY <1>0, <1>2, <2>0 DEF Past, Hides, Renumbers
    <2>2. i \in here /\ version'[i] = version[i] /\ (UpToDate(i) => UpToDate(i)')
      BY <1>2, <2>1 DEF Renews
    <2>3. Hides(c, i)
      BY <1>0, <1>2, <2>0, <2>2 DEF Past, Hides, Renumbers
    <2> QED BY <2>2, <2>3
  <1> QED BY <1>1, <1>2

\* The provider's steps keep what cursors and listings hold.
LEMMA ProviderKeeps ==
    ASSUME Kept, Provider
    PROVE  Kept'
  <1>0. Unbounded /\ Dated /\ Past(cursor) /\ Recorded(cursor) /\ PassHolds
    BY DEF Kept
  <1>1. Dated' /\ Later /\ Renews /\ Renumbers
    BY <1>0, ProviderShows
  <1>2. Unbounded'
    BY <1>0, <1>1 DEF Unbounded, Later
  <1>3. /\ UNCHANGED <<dialect, role, cursor, pass, given>> /\ Transports' = Transports
        /\ \A d : Reads(d)' = Reads(d)
    BY <1>1 DEF Later, Transports, Reads, webdavListFolders, graphDriveListFolders, driveResolveFolderId
  <1>4. \A d \in Transports : d \in AllDialects /\ (Connector[d].form = "imap" => dialect = "imap")
    BY <1>0, TransportIs, ConnectorForms
  <1>5. ASSUME NEW c \in AnyCursor, Past(c), Recorded(c)
        PROVE  Past(c)' /\ Recorded(c)'
    <2>1. Past(c)'
      BY <1>0, <1>1, <1>5, HidesNoMore
    <2>2. ASSUME NEW d \in Transports, Takes(d, c), NEW i \in here', i \in Reads(d), Hides(c, i)'
          PROVE  UpToDate(i)'
      <3>1. c.form = "imap" => dialect = "imap"
        BY <1>4, <2>2 DEF Takes
      <3>2. i \in here /\ Hides(c, i) /\ (UpToDate(i) => UpToDate(i)')
        BY <1>0, <1>1, <1>5, <2>2, <3>1, HidesNoMore
      <3> QED BY <1>5, <2>2, <3>2 DEF Recorded, SeenBy
    <2>3. Recorded(c)'
      BY <1>3, <2>2 DEF Recorded, SeenBy, Takes
    <2> QED BY <2>1, <2>3
  <1>6. Past(cursor)' /\ Recorded(cursor)'
    <2>1. PICK c \in AnyCursor : c = cursor
      BY <1>0 DEF Unbounded
    <2>2. Past(c)' /\ Recorded(c)' /\ cursor' = c
      BY <1>0, <1>3, <1>5, <2>1
    <2> QED BY <2>2
  <1>7. FoundOnce'
    BY <1>0, <1>1, <1>3 DEF PassHolds, FoundOnce, Later, Unbounded, AnyPass
  <1>8. ASSUME NEW i \in here', version'[i] # clock + 1
        PROVE  i \in here /\ version'[i] = version[i] /\ (InHand(i) => InHand(i)')
    BY <1>1, <1>3, <1>8 DEF Renews, InHand
  <1>9. pass.at = "pages" => Listing'
    <2> SUFFICES ASSUME pass.at = "pages" PROVE Listing'
      OBVIOUS
    <2>0. Listing /\ pass.by \in Transports /\ pass.from \in AnyCursor /\ pass.start \in Nat /\ pass.epoch \in Nat
      BY <1>0 DEF PassHolds, Unbounded, AnyPass
    <2>1. Past(pass.from)' /\ Recorded(pass.from)'
      <3>1. PICK c \in AnyCursor : c = pass.from
        BY <2>0
      <3>2. Past(c) /\ Recorded(c)
        BY <2>0, <3>1 DEF Listing
      <3>3. Past(c)' /\ Recorded(c)' /\ pass.from' = c
        BY <1>3, <1>5, <3>1, <3>2
      <3> QED BY <3>3
    <2>2. pass.by = "imap" => dialect = "imap" /\ epoch' = epoch /\ uidNext <= uidNext'
      BY <1>0, <1>1, <2>0, TransportIs DEF Renumbers
    <2>3. ASSUME pass.by = "imap", pass.hops # 0, NEW i \in here'
          PROVE  InHand(i)' \/ maxUidNext <= uid'[i]
      <3>0. i \in Items /\ version[i] \in Nat /\ version[i] <= clock /\ clock \in Nat /\ uidNext \in Nat
        BY <1>0, <1>1 DEF Unbounded, Dated, Later
      <3>1. maxUidNext \in Nat /\ maxUidNext <= uidNext
        BY <1>0, <2>0, <2>3, NextUidIsPast
      <3>2. CASE version'[i] = clock + 1
        <4>1. uid'[i] = uidNext
          BY <1>1, <2>2, <2>3, <3>0, <3>2 DEF Renews
        <4> QED BY <3>1, <4>1
      <3>3. CASE version'[i] # clock + 1
        <4>1. uid'[i] = uid[i]
          BY <1>1, <1>8, <2>2, <2>3, <3>0, <3>3 DEF Renumbers
        <4> QED BY <1>8, <2>0, <2>3, <3>3, <4>1 DEF Listing
      <3> QED BY <3>2, <3>3
    <2>4. ASSUME Connector[pass.by].form \in {"delta", "token"}, NEW i \in here', i \in Reads(pass.by),
                 version'[i] <= pass.start
          PROVE  i \in pass.left \/ InHand(i)'
      <3>1. version'[i] # clock + 1
        BY <1>0, <2>0, <2>4 DEF Listing, Unbounded
      <3> QED BY <1>8, <2>0, <2>4, <3>1 DEF Listing, SeenBy
    <2>5. maxUidNext' = maxUidNext
      BY <1>3 DEF maxUidNext
    <2>6. epoch \in Nat /\ epoch' \in Nat /\ uidNext \in Nat /\ uidNext' \in Nat /\ clock \in Nat /\ clock' \in Nat
          /\ epoch <= epoch' /\ clock <= clock' /\ pass.uids \subseteq Nat
      BY <1>0, <1>1 DEF Unbounded, Later, AnyPass
    <2>7. /\ pass.from.form \in {"none", Connector[pass.by].form} /\ pass.epoch <= epoch
          /\ pass.by = "imap" => /\ pass.epoch = epoch /\ pass.start <= uidNext
                                 /\ pass.from.form = "imap" => pass.from.epoch = epoch
                                 /\ \A u \in pass.uids : u < uidNext
          /\ Connector[pass.by].form \in {"delta", "token"} => pass.start <= clock
      BY <2>0 DEF Listing
    <2>8. /\ pass.from.form \in {"none", Connector[pass.by].form} /\ pass.epoch <= epoch'
          /\ pass.by = "imap" => /\ pass.epoch = epoch' /\ pass.start <= uidNext'
                                 /\ pass.from.form = "imap" => pass.from.epoch = epoch'
                                 /\ \A u \in pass.uids : u < uidNext'
          /\ Connector[pass.by].form \in {"delta", "token"} => pass.start <= clock'
      BY <2>0, <2>2, <2>6, <2>7
    <2> QED BY <1>3, <2>1, <2>3, <2>4, <2>5, <2>8 DEF Listing, SeenBy
  <1>10. pass.at \in {"listed", "recorded"} => Listed'
    <2> SUFFICES ASSUME pass.at \in {"listed", "recorded"} PROVE Listed'
      OBVIOUS
    <2>0. Listed /\ pass.by \in Transports /\ pass.next \in AnyCursor
      BY <1>0 DEF PassHolds, Unbounded, AnyPass
    <2>1. PICK c \in AnyCursor : c = pass.next
      BY <2>0
    <2>2. Past(c) /\ c.form \in {"none", "ctag", Connector[pass.by].form}
      BY <2>0, <2>1 DEF Listed
    <2>3. Past(c)'
      BY <1>0, <1>1, <2>2, HidesNoMore
    <2>4. ASSUME NEW i \in here', i \in Reads(pass.by), Hides(c, i)'
          PROVE  IF pass.at = "listed" THEN InHand(i)' ELSE UpToDate(i)'
      <3>1. c.form = "imap" => dialect = "imap"
        BY <1>4, <2>0, <2>2
      <3>2. i \in here /\ Hides(c, i) /\ version'[i] = version[i] /\ (UpToDate(i) => UpToDate(i)')
        BY <1>0, <1>1, <2>2, <2>4, <3>1, HidesNoMore
      <3>3. IF pass.at = "listed" THEN InHand(i) ELSE UpToDate(i)
        BY <2>0, <2>1, <2>4, <3>2 DEF Listed, SeenBy
      <3> QED BY <1>3, <3>2, <3>3 DEF InHand
    <2>5. pass'.next = c /\ pass' = pass
      BY <1>3, <2>1
    <2>6. \A i \in (SeenBy(pass.by))' : Hides(c, i)' => IF pass.at = "listed" THEN InHand(i)' ELSE UpToDate(i)'
      BY <1>3, <2>4 DEF SeenBy
    <2> QED BY <2>2, <2>3, <2>5, <2>6 DEF Listed
  <1>11. PassHolds'
    BY <1>0, <1>3, <1>7, <1>9, <1>10 DEF PassHolds
  <1> QED BY <1>1, <1>2, <1>6, <1>11 DEF Kept

-----------------------------------------------------------------------------
(* The listing and its caller.                                             *)

\* While the provider rests, cursors hide what they hid, and what is recorded stays so.
LEMMA AtRest ==
    ASSUME UNCHANGED provider
    PROVE  /\ Transports' = Transports /\ here' = here /\ version' = version
           /\ uid' = uid /\ uidNext' = uidNext /\ clock' = clock /\ epoch' = epoch
           /\ dialect' = dialect /\ role' = role
           /\ \A d : SeenBy(d)' = SeenBy(d)
           /\ \A c : (Past(c)' <=> Past(c)) /\ \A i : Hides(c, i)' <=> Hides(c, i)
  BY DEF provider, Transports, SeenBy, Reads, webdavListFolders, graphDriveListFolders,
         driveResolveFolderId, Past, Hides

\* A cursor stays good if nothing recorded is forgotten.
LEMMA StillRecorded ==
    ASSUME Unbounded, UNCHANGED provider, \A i \in Items : UpToDate(i) => UpToDate(i)'
    PROVE  \A c : Recorded(c) => Recorded(c)'
  BY AtRest DEF Recorded, Takes, SeenBy, Unbounded

\* A pass that is over holds nothing.
LEMMA OverHolds ==
    ASSUME Kept, UNCHANGED <<provider, given, skipped>>, pass' = NoPass,
           cursor' \in AnyCursor, Past(cursor)', Recorded(cursor)'
    PROVE  Kept'
  <1>1. Unbounded' /\ Dated'
    BY Blank, AtRest DEF Kept, Unbounded, Dated
  <1>2. PassHolds'
    BY <1>1, Blank DEF PassHolds, FoundOnce, Unbounded
  <1> QED BY <1>1, <1>2 DEF Kept

\* The cursor a listing begins with is the stored one, or none.
LEMMA FromStored ==
    ASSUME Kept, NEW d \in Transports
    PROVE  LET c == From(d, cursor) IN
           /\ c \in AnyCursor /\ Past(c) /\ Recorded(c)
           /\ c.form \in {"none", Connector[d].form}
           /\ c.form = "imap" => c.epoch = epoch
           /\ c # NoCursor => c = cursor /\ Takes(d, c)
  <1>1. cursor \in AnyCursor /\ d \in AllDialects /\ epoch \in Nat /\ Past(cursor) /\ Recorded(cursor)
    BY TransportIs DEF Kept, Unbounded
  <1>2. Past(NoCursor) /\ Recorded(NoCursor)
    BY <1>1, Blank DEF Recorded
  <1>3. CASE Usable(d, cursor)
    BY <1>1, <1>3, UsableForm DEF From, Takes
  <1>4. CASE ~Usable(d, cursor)
    BY <1>2, <1>4, Blank DEF From
  <1> QED BY <1>3, <1>4

\* What the first request leaves out has been recorded.
LEMMA BeginKeeps ==
    ASSUME Kept, NEW d, BeginListing(d)
    PROVE  Kept'
  <1> DEFINE c == From(d, cursor)
             from == IF Refused(c) THEN NoCursor ELSE c
             left == {i \in Reads(d) : Sent(from, i)}
  <1>0. Unbounded /\ Dated /\ Past(cursor) /\ Recorded(cursor) /\ PassHolds /\ d \in Transports
    BY DEF Kept, BeginListing
  <1>1. /\ UNCHANGED <<provider, cursor, given, skipped>>
        /\ pass' = [NoPass EXCEPT !.at = "pages", !.by = d, !.from = from,
                                  !.start = IF d = "imap" THEN uidNext ELSE clock,
                                  !.epoch = epoch, !.left = left, !.all = Refused(c)]
    BY DEF BeginListing
  <1>2. /\ c \in AnyCursor /\ Past(c) /\ Recorded(c) /\ c.form \in {"none", Connector[d].form}
        /\ c.form = "imap" => c.epoch = epoch
        /\ c # NoCursor => c = cursor /\ Takes(d, c)
    BY <1>0, FromStored
  <1> HIDE DEF c
  <1>3. /\ from \in AnyCursor /\ Past(from) /\ Recorded(from) /\ from.form \in {"none", Connector[d].form}
        /\ from.form = "imap" => from.epoch = epoch
        /\ ~Refused(from) /\ (from # NoCursor => Takes(d, from))
    <2>1. epoch \in Nat
      BY <1>0 DEF Unbounded
    <2>2. Past(NoCursor) /\ Recorded(NoCursor) /\ ~Refused(NoCursor)
      BY <2>1, Blank DEF Recorded, Refused
    <2> QED BY <1>2, <2>2, Blank
  <1>4. ASSUME NEW i \in SeenBy(d), ~Sent(from, i) PROVE UpToDate(i)
    <2>0. i \in here
      BY DEF SeenBy
    <2>1. from # NoCursor
      BY <1>4, <2>0, Blank DEF Sent
    <2>2. Hides(from, i)
      BY <1>0, <1>3, <1>4, <2>0, UnsentHidden
    <2> QED BY <1>0, <1>3, <2>1, <2>2 DEF Recorded
  <1> HIDE DEF from
  <1>5. d \in AllDialects /\ left \subseteq Items /\ Refused(c) \in BOOLEAN
    BY <1>0, TransportIs DEF Reads, webdavListFolders, graphDriveListFolders, driveResolveFolderId, Refused
  <1>6. /\ pass'.at = "pages" /\ pass'.by = d /\ pass'.from = from /\ pass'.epoch = epoch /\ pass'.left = left
        /\ pass'.start = (IF d = "imap" THEN uidNext ELSE clock)
        /\ pass'.hops = 0 /\ pass'.uids = {} /\ \A i \in Items : pass'.found[i] = 0
    BY <1>1 DEF NoPass, Nothing
  <1>7. pass' \in AnyPass
    <2>1. uidNext \in Nat /\ clock \in Nat /\ epoch \in Nat
      BY <1>0 DEF Unbounded
    <2> HIDE DEF left
    <2> QED BY <1>1, <1>3, <1>5, <2>1, Blank DEF AnyPass
  <1>8. Unbounded' /\ Dated'
    BY <1>0, <1>1, <1>7, AtRest DEF Unbounded, Dated
  <1>9. \A i \in Items : UpToDate(i) => UpToDate(i)'
    BY <1>1, AtRest DEF UpToDate
  <1>10. Past(cursor)' /\ Recorded(cursor)'
    <2>1. PICK e \in AnyCursor : e = cursor
      BY <1>0 DEF Unbounded
    <2>2. Past(e)' /\ Recorded(e)' /\ cursor' = e
      BY <1>0, <1>1, <1>9, <2>1, AtRest, StillRecorded
    <2> QED BY <2>2
  <1>11. Past(pass.from)' /\ Recorded(pass.from)'
    <2>1. PICK e \in AnyCursor : e = from
      BY <1>3
    <2>2. Past(e)' /\ Recorded(e)' /\ pass'.from = e
      BY <1>0, <1>1, <1>3, <1>6, <1>9, <2>1, AtRest, StillRecorded
    <2> QED BY <2>2
  <1>12. Listing'
    <2>1. uidNext \in Nat /\ clock \in Nat /\ epoch \in Nat
      BY <1>0 DEF Unbounded
    <2>2. ASSUME NEW i \in SeenBy(d), i \notin left PROVE InHand(i)'
      <3>1. i \in Items /\ i \in Reads(d)
        BY <1>0 DEF SeenBy, Unbounded
      <3>2. UpToDate(i)
        BY <1>4, <2>2, <3>1
      <3> QED BY <1>9, <3>1, <3>2 DEF InHand
    <2> HIDE DEF left
    <2> QED BY <1>1, <1>3, <1>6, <1>11, <2>1, <2>2, <1>5, ConnectorForms, AtRest DEF Listing
  <1>13. FoundOnce'
    BY <1>6, <1>8 DEF FoundOnce, Unbounded
  <1>14. PassHolds'
    BY <1>0, <1>1, <1>6, <1>12, <1>13, AtRest DEF PassHolds
  <1> QED BY <1>8, <1>10, <1>14 DEF Kept

\* The stored cursor is left alone.
LEMMA CursorRests ==
    ASSUME Kept, UNCHANGED <<provider, cursor>>, pass' \in AnyPass, given' \in [Items -> Nat],
           \A i \in Items : given'[i] <= version[i],
           \A i \in Items : UpToDate(i) => UpToDate(i)'
    PROVE  Unbounded' /\ Dated' /\ Past(cursor)' /\ Recorded(cursor)'
  <1>0. Unbounded /\ Dated /\ Past(cursor) /\ Recorded(cursor)
    BY DEF Kept
  <1>1. Unbounded' /\ Dated'
    BY <1>0, AtRest DEF Unbounded, Dated
  <1>2. PICK e \in AnyCursor : e = cursor
    BY <1>0 DEF Unbounded
  <1>3. Past(e)' /\ Recorded(e)' /\ cursor' = e
    BY <1>0, <1>2, AtRest, StillRecorded
  <1> QED BY <1>1, <1>3

\* What has been received, with what was known before.
LEMMA ReceivedIs ==
    ASSUME Unbounded, NEW S \in SUBSET Items
    PROVE  LET p == Received(S) IN
           /\ p \in AnyPass /\ DOMAIN p = DOMAIN pass
           /\ p.left = pass.left \ S
           /\ \A i \in Items : p.found[i] = IF i \in S \cap here THEN version[i] ELSE pass.found[i]
           /\ p.gone = pass.gone \cup (IF pass.from = NoCursor THEN {} ELSE S \ here)
           /\ p.at = pass.at /\ p.by = pass.by /\ p.from = pass.from /\ p.start = pass.start
           /\ p.epoch = pass.epoch /\ p.hops = pass.hops /\ p.uids = pass.uids /\ p.next = pass.next
  BY DEF Unbounded, AnyPass, Received, parseRemovedHrefs

\* A page is received, or one too many.
LEMMA PageKeeps ==
    ASSUME Kept, NextPage
    PROVE  Kept'
  <1>0. Unbounded /\ Dated /\ Past(cursor) /\ Recorded(cursor) /\ PassHolds /\ Listing
    BY DEF Kept, NextPage, PassHolds
  <1>1. PICK S \in SUBSET pass.left :
            pass' = IF Connector[pass.by].capped /\ pass.hops = MAX_PAGES
                    THEN NoPass ELSE [Received(S) EXCEPT !.hops = @ + 1]
    BY DEF NextPage
  <1>2. UNCHANGED <<provider, cursor, given, skipped>> /\ pass.at = "pages" /\ Connector[pass.by].form \in {"delta", "full"}
    BY DEF NextPage
  <1>3. CASE pass' = NoPass
    <2>1. NoPass \in AnyPass /\ given' \in [Items -> Nat] /\ \A i \in Items : given'[i] <= version[i]
      BY <1>0, <1>2, Blank DEF Unbounded, Dated
    <2>2. \A i \in Items : UpToDate(i) => UpToDate(i)'
      BY <1>2, AtRest DEF UpToDate
    <2>3. Unbounded' /\ Dated' /\ Past(cursor)' /\ Recorded(cursor)'
      BY <1>2, <1>3, <2>1, <2>2, CursorRests
    <2> QED BY <1>2, <1>3, <2>3, OverHolds DEF Unbounded
  <1>4. CASE pass' = [Received(S) EXCEPT !.hops = @ + 1]
    <2>0. S \in SUBSET Items /\ pass.by \in AllDialects
      BY <1>0 DEF Unbounded, AnyPass
    <2> DEFINE p == Received(S)
    <2>1. /\ p \in AnyPass
          /\ p.left = pass.left \ S
          /\ \A i \in Items : p.found[i] = IF i \in S \cap here THEN version[i] ELSE pass.found[i]
          /\ p.at = pass.at /\ p.by = pass.by /\ p.from = pass.from /\ p.start = pass.start
          /\ p.epoch = pass.epoch
      BY <1>0, <2>0, ReceivedIs
    <2>2. pass' = [p EXCEPT !.hops = p.hops + 1]
      BY <1>4
    <2> HIDE DEF p
    <2>3. /\ pass' \in AnyPass
          /\ pass'.left = pass.left \ S
          /\ \A i \in Items : pass'.found[i] = IF i \in S \cap here THEN version[i] ELSE pass.found[i]
          /\ pass'.at = "pages" /\ pass'.by = pass.by /\ pass'.from = pass.from /\ pass'.start = pass.start
          /\ pass'.epoch = pass.epoch
      BY <1>2, <2>1, <2>2 DEF AnyPass
    <2>4. \A i \in Items : UpToDate(i) => UpToDate(i)'
      BY <1>2, AtRest DEF UpToDate
    <2>5. given' \in [Items -> Nat] /\ \A i \in Items : given'[i] <= version[i]
      BY <1>0, <1>2 DEF Unbounded, Dated
    <2>6. Unbounded' /\ Dated' /\ Past(cursor)' /\ Recorded(cursor)'
      BY <1>2, <2>3, <2>4, <2>5, CursorRests
    <2>7. \A i \in Items : InHand(i) \/ i \in S \cap here => InHand(i)'
      BY <2>3, <2>4, <1>2, AtRest DEF InHand
    <2>8. Past(pass.from)' /\ Recorded(pass.from)'
      <3>1. PICK e \in AnyCursor : e = pass.from
        BY <1>0 DEF Unbounded, AnyPass
      <3>2. Past(e) /\ Recorded(e)
        BY <1>0, <3>1 DEF Listing
      <3>3. Past(e)' /\ Recorded(e)' /\ pass'.from = e
        BY <1>0, <1>2, <2>3, <2>4, <3>1, <3>2, AtRest, StillRecorded
      <3> QED BY <3>3
    <2>9. pass.by # "imap"
      BY <1>2, <2>0, ConnectorForms
    <2>10. ASSUME Connector[pass.by].form \in {"delta", "token"}, NEW i \in SeenBy(pass.by), version[i] <= pass.start
           PROVE  i \in pass'.left \/ InHand(i)'
      <3>1. i \in here /\ i \in Items
        BY <1>0 DEF SeenBy, Unbounded
      <3>2. i \in pass.left \/ InHand(i)
        BY <1>0, <2>10 DEF Listing
      <3> QED BY <2>3, <2>7, <3>1, <3>2
    <2>11. Listing'
      BY <1>0, <1>2, <2>3, <2>8, <2>9, <2>10, AtRest DEF Listing
    <2>12. FoundOnce'
      BY <1>0, <1>2, <2>3, AtRest DEF FoundOnce, PassHolds, Unbounded, Dated
    <2>13. PassHolds'
      BY <1>0, <1>2, <2>3, <2>11, <2>12, AtRest DEF PassHolds
    <2> QED BY <2>6, <2>13 DEF Kept
  <1> QED BY <1>1, <1>3, <1>4

\* The answer to a request that has one.
LEMMA AnswerKeeps ==
    ASSUME Kept, OneAnswer
    PROVE  Kept'
  <1> DEFINE S == IF pass.by = "imap" THEN {i \in Items : Sent(pass.from, i)} ELSE pass.left
             p == Received(S)
             uids == IF pass.by = "imap" THEN {uid[i] : i \in S} ELSE {}
  <1>0. Unbounded /\ Dated /\ Past(cursor) /\ Recorded(cursor) /\ PassHolds /\ Listing
    BY DEF Kept, OneAnswer, PassHolds
  <1>1. /\ pass' = [p EXCEPT !.left = {}, !.hops = 1, !.uids = uids]
        /\ UNCHANGED <<provider, cursor, given, skipped>> /\ pass.at = "pages" /\ pass.hops = 0
    BY DEF OneAnswer
  <1>2. /\ S \in SUBSET Items /\ pass.by \in AllDialects /\ pass.by \in Transports
        /\ (pass.by = "imap" => dialect = "imap" /\ Connector[pass.by].form = "imap")
    BY <1>0, <1>1, TransportIs, ConnectorForms DEF Unbounded, AnyPass, PassHolds
  <1>3. /\ p \in AnyPass
        /\ \A i \in Items : p.found[i] = IF i \in S \cap here THEN version[i] ELSE pass.found[i]
        /\ p.at = pass.at /\ p.by = pass.by /\ p.from = pass.from /\ p.start = pass.start
        /\ p.epoch = pass.epoch
    BY <1>0, <1>2, ReceivedIs
  <1> HIDE DEF p
  <1>4. pass.by = "imap" => S \subseteq here
    BY <1>0, <1>2 DEF Sent, Listing
  <1>5. uids \subseteq Nat /\ \A u \in uids : u < uidNext
    BY <1>0, <1>2, <1>4 DEF Unbounded, Dated
  <1> HIDE DEF uids
  <1>6. /\ pass' \in AnyPass /\ pass'.left = {} /\ pass'.hops = 1 /\ pass'.uids = uids
        /\ \A i \in Items : pass'.found[i] = IF i \in S \cap here THEN version[i] ELSE pass.found[i]
        /\ pass'.at = "pages" /\ pass'.by = pass.by /\ pass'.from = pass.from /\ pass'.start = pass.start
        /\ pass'.epoch = pass.epoch
    BY <1>1, <1>3, <1>5 DEF AnyPass
  <1>7. \A i \in Items : UpToDate(i) => UpToDate(i)'
    BY <1>1, AtRest DEF UpToDate
  <1>8. given' \in [Items -> Nat] /\ \A i \in Items : given'[i] <= version[i]
    BY <1>0, <1>1 DEF Unbounded, Dated
  <1>9. Unbounded' /\ Dated' /\ Past(cursor)' /\ Recorded(cursor)'
    BY <1>1, <1>6, <1>7, <1>8, CursorRests
  <1>10. \A i \in Items : InHand(i) \/ i \in S \cap here => InHand(i)'
    BY <1>1, <1>6, <1>7, AtRest DEF InHand
  <1>11. Past(pass.from)' /\ Recorded(pass.from)'
    <2>1. PICK e \in AnyCursor : e = pass.from
      BY <1>0 DEF Unbounded, AnyPass
    <2>2. Past(e) /\ Recorded(e)
      BY <1>0, <2>1 DEF Listing
    <2>3. Past(e)' /\ Recorded(e)' /\ pass'.from = e
      BY <1>0, <1>1, <1>6, <1>7, <2>1, <2>2, AtRest, StillRecorded
    <2> QED BY <2>3
  <1>12. ASSUME pass.by = "imap", NEW i \in here PROVE InHand(i)'
    <2>0. i \in Items /\ pass.from \in AnyCursor
      BY <1>0 DEF Unbounded, AnyPass
    <2>1. CASE i \in S
      BY <1>10, <2>0, <2>1
    <2>2. CASE i \notin S
      <3>1. ~Sent(pass.from, i) /\ pass.from.form \in {"none", "imap"}
        BY <1>0, <1>2, <1>12, <2>0, <2>2 DEF Listing
      <3>2. pass.from.form = "imap" /\ ~Refused(pass.from) /\ pass.from.epoch = epoch
        BY <1>0, <1>12, <3>1 DEF Sent, Refused, Listing
      <3>3. Hides(pass.from, i)
        BY <1>0, <2>0, <3>1, <3>2, UnsentHidden
      <3>4. i \in SeenBy("imap")
        BY <2>0 DEF SeenBy, Reads
      <3>5. UpToDate(i)
        BY <1>0, <1>2, <1>12, <3>2, <3>3, <3>4 DEF Listing, Recorded, Takes
      <3> QED BY <1>10, <2>0, <3>5 DEF InHand
    <2> QED BY <2>1, <2>2
  <1>13. ASSUME Connector[pass.by].form \in {"delta", "token"}, NEW i \in SeenBy(pass.by), version[i] <= pass.start
         PROVE  InHand(i)'
    <2>1. i \in here /\ i \in Items /\ pass.by # "imap"
      BY <1>0, <1>2, <1>13 DEF SeenBy, Unbounded
    <2>2. i \in pass.left \/ InHand(i)
      BY <1>0, <1>13 DEF Listing
    <2> QED BY <1>10, <2>1, <2>2
  <1> HIDE DEF S
  <1>14. Listing'
    BY <1>0, <1>1, <1>5, <1>6, <1>11, <1>12, <1>13, AtRest DEF Listing
  <1>15. FoundOnce'
    BY <1>0, <1>1, <1>6, AtRest DEF FoundOnce, PassHolds, Unbounded, Dated
  <1>16. PassHolds'
    BY <1>1, <1>2, <1>6, <1>14, <1>15, AtRest DEF PassHolds
  <1> QED BY <1>9, <1>16 DEF Kept

\* The cursor made at the end of a listing hides what is in hand.
LEMMA NextHides ==
    ASSUME Kept, pass.at = "pages", pass.left = {}, pass.by = "imap" => pass.hops # 0,
           NEW c \in NextCursors
    PROVE  /\ c \in AnyCursor /\ Past(c) /\ c.form \in {"none", "ctag", Connector[pass.by].form}
           /\ \A i \in SeenBy(pass.by) : Hides(c, i) => InHand(i)
  <1>0. Unbounded /\ PassHolds /\ Listing /\ pass \in AnyPass /\ pass.by \in AllDialects
    BY DEF Kept, PassHolds, Unbounded, AnyPass
  <1>1. /\ epoch \in Nat /\ pass.epoch \in Nat /\ pass.start \in Nat /\ pass.found \in [Items -> Nat]
        /\ here \subseteq Items /\ version \in [Items -> Nat] /\ uid \in [Items -> Nat]
    BY <1>0 DEF Unbounded, AnyPass
  <1>2. CASE c.form \in {"none", "ctag", "full"} /\ c \in AnyCursor /\ c.epoch = 0
             /\ (c.form = "full" => Connector[pass.by].form = "full")
    BY <1>1, <1>2 DEF Past, Hides
  <1>3. CASE Connector[pass.by].form = "imap"
    <2>1. pass.by = "imap"
      BY <1>0, <1>3, ConnectorForms
    <2>2. maxUidNext \in Nat /\ maxUidNext <= uidNext
      BY <1>0, <2>1, NextUidIsPast
    <2>3. c = [NoCursor EXCEPT !.form = "imap", !.epoch = pass.epoch, !.at = maxUidNext]
      BY <1>3 DEF NextCursors
    <2>4. /\ c \in AnyCursor /\ c.form = "imap" /\ c.epoch = pass.epoch /\ c.at = maxUidNext
      BY <1>1, <2>2, <2>3, Blank DEF AnyCursor, Forms
    <2>5. pass.epoch = epoch /\ \A i \in here : InHand(i) \/ maxUidNext <= uid[i]
      BY <1>0, <2>1 DEF Listing
    <2>6. Past(c)
      BY <1>1, <2>2, <2>4, <2>5 DEF Past
    <2>7. ASSUME NEW i \in SeenBy(pass.by), Hides(c, i) PROVE InHand(i)
      BY <1>1, <2>2, <2>4, <2>5, <2>7 DEF Hides, SeenBy
    <2> QED BY <1>3, <2>4, <2>6, <2>7
  <1>4. CASE /\ Connector[pass.by].form \in {"delta", "token"}
             /\ c = Positioned(Connector[pass.by].form)
    <2>1. /\ c \in AnyCursor /\ c.form = Connector[pass.by].form /\ c.epoch = pass.epoch /\ c.at = pass.start
      BY <1>1, <1>4, Blank DEF AnyCursor, Forms, Positioned
    <2>2. Past(c)
      BY <1>0, <1>1, <1>4, <2>1 DEF Past, Listing
    <2>3. ASSUME NEW i \in SeenBy(pass.by), Hides(c, i) PROVE InHand(i)
      <3>1. version[i] <= pass.start
        BY <1>4, <2>1, <2>3 DEF Hides
      <3> QED BY <1>0, <1>4, <3>1 DEF Listing
    <2> QED BY <2>1, <2>2, <2>3
  <1>5. CASE Connector[pass.by].form = "etags"
    <2>1. c = [NoCursor EXCEPT !.form = "etags", !.seen = pass.found]
      BY <1>5 DEF NextCursors, buildCursor
    <2>2. c \in AnyCursor /\ c.form = "etags" /\ c.epoch = 0 /\ c.seen = pass.found
      BY <1>1, <2>1, Blank DEF AnyCursor, Forms
    <2>3. Past(c)
      BY <1>0, <1>1, <2>2 DEF Past, PassHolds, FoundOnce
    <2> QED BY <1>5, <2>2, <2>3 DEF Hides, InHand
  <1>7. \/ Connector[pass.by].form \in {"imap", "etags"}
        \/ Connector[pass.by].form \in {"delta", "token"} /\ c = Positioned(Connector[pass.by].form)
        \/ c \in {NoCursor, [NoCursor EXCEPT !.form = "ctag"]}
        \/ Connector[pass.by].form = "full" /\ c = [NoCursor EXCEPT !.form = "full"]
    BY <1>0, ConnectorForms DEF NextCursors
  <1>8. CASE c \in {NoCursor, [NoCursor EXCEPT !.form = "ctag"]}
    <2>1. c.form \in {"none", "ctag"} /\ c \in AnyCursor /\ c.epoch = 0
      BY <1>8, Blank DEF AnyCursor, Forms
    <2> QED BY <1>2, <2>1
  <1>9. CASE Connector[pass.by].form = "full" /\ c = [NoCursor EXCEPT !.form = "full"]
    <2>1. c.form = "full" /\ c \in AnyCursor /\ c.epoch = 0
      BY <1>9, Blank DEF AnyCursor, Forms
    <2> QED BY <1>2, <1>9, <2>1
  <1>10. CASE Connector[pass.by].form \in {"imap", "etags"}
    BY <1>3, <1>5, <1>10
  <1>11. CASE /\ Connector[pass.by].form \in {"delta", "token"}
              /\ c = Positioned(Connector[pass.by].form)
    BY <1>4, <1>11
  <1> QED BY <1>7, <1>8, <1>9, <1>10, <1>11

\* A listing ends: the items in `out` are left out, and c is the next cursor.
HandsOver(out, c) ==
    /\ pass' = [pass EXCEPT
           !.at = "listed", !.next = c, !.uids = {},
           !.found = [i \in Items |-> IF i \in out THEN 0 ELSE pass.found[i]],
           !.gone = IF Connector[pass.by].tombstones = "removed" THEN pass.gone ELSE {},
           !.blank = IF Connector[pass.by].tombstones = "item" THEN pass.gone ELSE {}]
    /\ skipped' = skipped \cup {i \in out : pass.found[i] = version[i]}

\* Every end of a listing is such a step.
LEMMA EndsSo ==
    ASSUME EndListing, pass \in AnyPass
    PROVE  \E out : \E c \in NextCursors : HandsOver(out, c)
  <1> DEFINE Found == {i \in Items : pass.found[i] > 0}
             k == Connector[pass.by]
  <1>1. PICK failed \in IF k.refetches THEN SUBSET Found ELSE {{}} :
          LET out == failed \cup (Found \cap k.drops)
          IN \E c \in NextCursors :
                /\ pass' = [pass EXCEPT
                       !.at = "listed", !.next = c, !.uids = {},
                       !.found = [i \in Items |-> IF i \in out THEN 0 ELSE @[i]],
                       !.gone = IF k.tombstones = "removed" THEN @ ELSE {},
                       !.blank = IF k.tombstones = "item" THEN pass.gone ELSE {}]
                /\ skipped' = skipped \cup {i \in out : pass.found[i] = version[i]}
    BY DEF EndListing
  <1>2. PICK out : out = failed \cup (Found \cap k.drops)
    OBVIOUS
  <1>3. \E c \in NextCursors : HandsOver(out, c)
    BY <1>1, <1>2 DEF HandsOver
  <1> QED BY <1>3

\* The items are handed over, those left out with a warning.
LEMMA EndKeeps ==
    ASSUME Kept, EndListing
    PROVE  Kept'
  <1>0. Unbounded /\ Dated /\ Past(cursor) /\ Recorded(cursor) /\ PassHolds /\ Listing
    BY DEF Kept, EndListing, PassHolds
  <1>1. PICK out : \E c \in NextCursors : HandsOver(out, c)
    BY <1>0, EndsSo DEF Unbounded
  <1>2. PICK c \in NextCursors : HandsOver(out, c)
    BY <1>1
  <1>3. /\ UNCHANGED <<provider, cursor, given>> /\ pass.at = "pages" /\ pass.left = {}
        /\ (pass.by = "imap" => pass.hops # 0)
    <2>1. pass.hops \in Nat
      BY <1>0 DEF Unbounded, AnyPass
    <2> QED BY <2>1 DEF EndListing
  <1>4. /\ c \in AnyCursor /\ Past(c) /\ c.form \in {"none", "ctag", Connector[pass.by].form}
        /\ \A i \in SeenBy(pass.by) : Hides(c, i) => InHand(i)
    BY <1>3, NextHides
  <1>5. /\ pass' \in AnyPass /\ pass'.at = "listed" /\ pass'.next = c /\ pass'.by = pass.by
        /\ \A i \in Items : pass'.found[i] = IF i \in out THEN 0 ELSE pass.found[i]
    BY <1>0, <1>2, <1>4 DEF Unbounded, AnyPass, HandsOver
  <1>6. \A i \in Items : UpToDate(i) => UpToDate(i)'
    BY <1>2, <1>3, AtRest DEF UpToDate, HandsOver
  <1>7. given' \in [Items -> Nat] /\ \A i \in Items : given'[i] <= version[i]
    BY <1>0, <1>3 DEF Unbounded, Dated
  <1>8. Unbounded' /\ Dated' /\ Past(cursor)' /\ Recorded(cursor)'
    BY <1>3, <1>5, <1>6, <1>7, CursorRests
  <1>9. ASSUME NEW i \in Items, InHand(i) PROVE InHand(i)'
    <2>1. CASE i \in out /\ pass.found[i] = version[i]
      BY <1>2, <2>1 DEF InHand, UpToDate, HandsOver
    <2>2. CASE i \notin out /\ pass.found[i] = version[i]
      BY <1>3, <1>5, <2>2, AtRest DEF InHand
    <2>3. CASE UpToDate(i)
      BY <1>6, <2>3 DEF InHand
    <2> QED BY <1>9, <2>1, <2>2, <2>3 DEF InHand
  <1>10. Listed'
    <2>1. Past(c)' /\ \A i \in SeenBy(pass.by) : Hides(c, i)' => InHand(i)'
      BY <1>0, <1>3, <1>4, <1>9, AtRest DEF SeenBy, Unbounded
    <2>2. SeenBy(pass.by)' = SeenBy(pass.by)
      <3>1. PICK d : d = pass.by
        OBVIOUS
      <3>2. SeenBy(d)' = SeenBy(d) /\ pass'.by = d
        BY <1>3, <1>5, <3>1, AtRest
      <3> QED BY <3>1, <3>2
    <2> QED BY <1>4, <1>5, <2>1, <2>2 DEF Listed
  <1>11. FoundOnce'
    BY <1>0, <1>3, <1>5, AtRest DEF FoundOnce, PassHolds, Unbounded
  <1>12. PassHolds'
    BY <1>0, <1>3, <1>5, <1>10, <1>11, AtRest DEF PassHolds
  <1> QED BY <1>8, <1>12 DEF Kept

\* A listing that fails leaves everything as it was.
LEMMA FailKeeps ==
    ASSUME Kept, Fail
    PROVE  Kept'
  <1>0. Unbounded /\ Dated
    BY DEF Kept
  <1>1. UNCHANGED <<provider, cursor, given, skipped>> /\ pass' = NoPass
    BY DEF Fail
  <1>2. NoPass \in AnyPass /\ given' \in [Items -> Nat] /\ \A i \in Items : given'[i] <= version[i]
    BY <1>0, <1>1, Blank DEF Unbounded, Dated
  <1>3. \A i \in Items : UpToDate(i) => UpToDate(i)'
    BY <1>1, AtRest DEF UpToDate
  <1>4. Unbounded' /\ Dated' /\ Past(cursor)' /\ Recorded(cursor)'
    BY <1>1, <1>2, <1>3, CursorRests
  <1> QED BY <1>1, <1>4, OverHolds DEF Unbounded

\* The mailbox is opened again and listed from the stored cursor.
LEMMA AgainKeeps ==
    ASSUME Kept, withConnection
    PROVE  Kept'
  <1> DEFINE c == From("imap", cursor)
  <1>0. Unbounded /\ Dated /\ Past(cursor) /\ Recorded(cursor) /\ PassHolds
    BY DEF Kept
  <1>1. /\ UNCHANGED <<provider, cursor, given, skipped>> /\ pass.at = "pages" /\ pass.by = "imap"
        /\ pass' = [pass EXCEPT !.from = c, !.start = uidNext, !.epoch = epoch, !.hops = 0, !.again = TRUE,
                                !.left = {}, !.found = Nothing, !.uids = {}, !.gone = {}]
    BY DEF withConnection
  <1>2. "imap" \in Transports
    BY <1>0, <1>1 DEF PassHolds
  <1>3. /\ c \in AnyCursor /\ Past(c) /\ Recorded(c) /\ c.form \in {"none", Connector["imap"].form}
        /\ c.form = "imap" => c.epoch = epoch
    BY <1>2, FromStored
  <1> HIDE DEF c
  <1>4. /\ pass' \in AnyPass /\ pass'.at = "pages" /\ pass'.by = "imap" /\ pass'.from = c
        /\ pass'.epoch = epoch /\ pass'.start = uidNext /\ pass'.hops = 0 /\ pass'.uids = {}
        /\ \A i \in Items : pass'.found[i] = 0
    BY <1>0, <1>1, <1>3 DEF Unbounded, AnyPass, Nothing
  <1>5. \A i \in Items : UpToDate(i) => UpToDate(i)'
    BY <1>1, AtRest DEF UpToDate
  <1>6. given' \in [Items -> Nat] /\ \A i \in Items : given'[i] <= version[i]
    BY <1>0, <1>1 DEF Unbounded, Dated
  <1>7. Unbounded' /\ Dated' /\ Past(cursor)' /\ Recorded(cursor)'
    BY <1>1, <1>4, <1>5, <1>6, CursorRests
  <1>8. Past(pass.from)' /\ Recorded(pass.from)'
    <2>1. PICK e \in AnyCursor : e = c
      BY <1>3
    <2>2. Past(e)' /\ Recorded(e)' /\ pass'.from = e
      BY <1>0, <1>1, <1>3, <1>4, <1>5, <2>1, AtRest, StillRecorded
    <2> QED BY <2>2
  <1>9. Listing'
    <2>1. uidNext \in Nat /\ epoch \in Nat /\ Connector["imap"].form = "imap"
      BY <1>0, ConnectorForms DEF Unbounded, AllDialects
    <2> QED BY <1>1, <1>3, <1>4, <1>8, <2>1, AtRest DEF Listing
  <1>10. FoundOnce'
    BY <1>4, <1>7 DEF FoundOnce, Unbounded
  <1>11. PassHolds'
    BY <1>1, <1>2, <1>4, <1>9, <1>10, AtRest DEF PassHolds
  <1> QED BY <1>7, <1>11 DEF Kept

\* What was in hand is recorded.
LEMMA RecordKeeps ==
    ASSUME Kept, role = "content", RecordListing
    PROVE  Kept'
  <1>0. Unbounded /\ Dated /\ Past(cursor) /\ Recorded(cursor) /\ PassHolds /\ Listed /\ FoundOnce
    BY DEF Kept, PassHolds, RecordListing, First
  <1>1. /\ UNCHANGED <<provider, cursor, skipped>> /\ pass.at = "listed"
        /\ given' = [i \in Items |-> IF pass.found[i] > 0 THEN pass.found[i] ELSE given[i]]
        /\ pass' = [pass EXCEPT !.at = "recorded"]
    BY DEF RecordListing, First
  <1>2. /\ version \in [Items -> Nat] /\ given \in [Items -> Nat] /\ pass.found \in [Items -> Nat]
        /\ here \subseteq Items /\ \A i \in here : version[i] > 0
    BY <1>0 DEF Unbounded, Dated, AnyPass
  <1>3. /\ pass' \in AnyPass /\ pass'.at = "recorded" /\ pass'.next = pass.next /\ pass'.by = pass.by
        /\ pass'.found = pass.found
    BY <1>0, <1>1 DEF Unbounded, AnyPass
  <1>4. given' \in [Items -> Nat] /\ \A i \in Items : given'[i] <= version[i]
    BY <1>0, <1>1, <1>2 DEF FoundOnce, Dated
  <1>5. \A i \in Items : UpToDate(i) => UpToDate(i)'
    BY <1>0, <1>1, <1>2, AtRest DEF UpToDate, FoundOnce
  <1>6. Unbounded' /\ Dated' /\ Past(cursor)' /\ Recorded(cursor)'
    BY <1>1, <1>3, <1>4, <1>5, CursorRests
  <1>7. ASSUME NEW i \in here, InHand(i) PROVE UpToDate(i)'
    <2>1. CASE UpToDate(i)
      BY <1>2, <1>5, <2>1
    <2>2. CASE pass.found[i] = version[i]
      BY <1>1, <1>2, <2>2, AtRest DEF UpToDate
    <2> QED BY <1>7, <2>1, <2>2 DEF InHand
  <1>8. Listed'
    <2>1. PICK c \in AnyCursor, d \in AllDialects : c = pass.next /\ d = pass.by
      BY <1>0 DEF Unbounded, AnyPass
    <2>2. Past(c) /\ c.form \in {"none", "ctag", Connector[d].form} /\ \A i \in SeenBy(d) : Hides(c, i) => InHand(i)
      BY <1>0, <1>1, <2>1 DEF Listed
    <2>3. Past(c)' /\ \A i \in SeenBy(d)' : Hides(c, i)' => UpToDate(i)'
      BY <1>1, <1>7, <2>2, AtRest DEF SeenBy
    <2>4. pass'.next = c /\ pass'.by = d /\ pass'.at = "recorded"
      BY <1>3, <2>1
    <2> QED BY <2>2, <2>3, <2>4 DEF Listed
  <1>9. FoundOnce'
    BY <1>0, <1>1, <1>2, <1>3, AtRest DEF FoundOnce
  <1>10. PassHolds'
    BY <1>0, <1>1, <1>3, <1>8, <1>9, AtRest DEF PassHolds
  <1> QED BY <1>6, <1>10 DEF Kept

\* Only then is the cursor stored.
LEMMA StoreKeeps ==
    ASSUME Kept, role = "content", StoreCursor
    PROVE  Kept'
  <1>0. Unbounded /\ Dated /\ PassHolds /\ Listed /\ pass.by \in Transports /\ pass.next \in AnyCursor
    BY DEF Kept, PassHolds, StoreCursor, Unbounded, AnyPass
  <1>1. /\ UNCHANGED <<provider, given, skipped>> /\ pass.at = "recorded" /\ cursor' = pass.next /\ pass' = NoPass
    BY DEF StoreCursor
  <1>2. PICK c \in AnyCursor, d \in Transports : c = pass.next /\ d = pass.by
    BY <1>0
  <1>3. Past(c) /\ c.form \in {"none", "ctag", Connector[d].form} /\ \A i \in SeenBy(d) : Hides(c, i) => UpToDate(i)
    BY <1>0, <1>1, <1>2 DEF Listed
  <1>4. Recorded(c)
    <2> SUFFICES ASSUME NEW e \in Transports, Takes(e, c), NEW i \in SeenBy(e), Hides(c, i)
                 PROVE  UpToDate(i)
      BY DEF Recorded
    <2>1. c.form \in {"imap", "delta", "token", "etags"}
      BY DEF Hides
    <2>2. Connector[d].form = Connector[e].form
      BY <1>3, <2>1 DEF Takes
    <2>3. d = e
      BY <2>2, OneForm
    <2> QED BY <1>3, <2>3
  <1>5. \A i \in Items : UpToDate(i) => UpToDate(i)'
    BY <1>1, AtRest DEF UpToDate
  <1>6. Past(c)' /\ Recorded(c)' /\ cursor' = c
    BY <1>0, <1>1, <1>2, <1>3, <1>4, <1>5, AtRest, StillRecorded
  <1>7. Past(cursor)' /\ Recorded(cursor)' /\ cursor' \in AnyCursor
    BY <1>6
  <1> QED BY <1>1, <1>7, OverHolds

\* RETRY clears the cursor, and nothing is hidden.
LEMMA ClearKeeps ==
    ASSUME Kept, ClearCursor
    PROVE  Kept'
  <1>0. Unbounded /\ Dated /\ PassHolds
    BY DEF Kept
  <1>1. UNCHANGED <<provider, pass, given, skipped>> /\ cursor' = NoCursor
    BY DEF ClearCursor
  <1>2. Unbounded' /\ Dated'
    BY <1>0, <1>1, Blank, AtRest DEF Unbounded, Dated
  <1>3. \A i \in Items : (UpToDate(i) => UpToDate(i)') /\ (InHand(i) => InHand(i)')
    BY <1>1, AtRest DEF UpToDate, InHand
  <1>4. Past(cursor)' /\ Recorded(cursor)'
    <2>1. PICK c : c = NoCursor
      OBVIOUS
    <2>2. Past(c)' /\ \A i : ~Hides(c, i)'
      BY <1>0, <1>1, <2>1, Blank, AtRest DEF Unbounded
    <2>3. Recorded(c)' /\ cursor' = c
      BY <1>1, <2>1, <2>2 DEF Recorded
    <2> QED BY <2>2, <2>3
  <1>5. FoundOnce'
    BY <1>0, <1>1, AtRest DEF PassHolds, FoundOnce
  <1>6. PICK d, f, n : d = pass.by /\ f = pass.from /\ n = pass.next
    OBVIOUS
  <1>7. pass'.by = d /\ pass'.from = f /\ pass'.next = n /\ pass' = pass
    BY <1>1, <1>6
  <1>8. pass.at = "pages" => Listing'
    <2> SUFFICES ASSUME pass.at = "pages" PROVE Listing'
      OBVIOUS
    <2>1. Past(f)' /\ Recorded(f)'
      BY <1>0, <1>1, <1>3, <1>6, AtRest, StillRecorded DEF PassHolds, Listing
    <2>2. maxUidNext' = maxUidNext
      BY <1>1 DEF maxUidNext
    <2>3. SeenBy(d)' = SeenBy(d) /\ SeenBy(d) \subseteq Items /\ here \subseteq Items
      BY <1>0, <1>1, AtRest DEF SeenBy, Unbounded
    <2> QED BY <1>0, <1>1, <1>3, <1>6, <1>7, <2>1, <2>2, <2>3, AtRest DEF Listing, PassHolds
  <1>9. pass.at \in {"listed", "recorded"} => Listed'
    <2> SUFFICES ASSUME pass.at \in {"listed", "recorded"} PROVE Listed'
      OBVIOUS
    <2>1. Past(n)' /\ \A i : Hides(n, i)' <=> Hides(n, i)
      BY <1>0, <1>1, <1>6, AtRest DEF PassHolds, Listed
    <2>2. SeenBy(d)' = SeenBy(d) /\ SeenBy(d) \subseteq Items
      BY <1>0, <1>1, AtRest DEF SeenBy, Unbounded
    <2> QED BY <1>0, <1>3, <1>6, <1>7, <2>1, <2>2 DEF Listed, PassHolds
  <1>10. PassHolds'
    BY <1>0, <1>1, <1>5, <1>8, <1>9, AtRest DEF PassHolds
  <1> QED BY <1>2, <1>4, <1>10 DEF Kept

\* At first there is nothing to hide.
LEMMA HiddenInvInit == ReadingInit => HiddenInv
  <1> SUFFICES ASSUME ReadingInit PROVE Kept
    BY DEF HiddenInv
  <1>1. /\ dialect \in AllDialects /\ role \in {"content", "bin"}
        /\ version = Nothing /\ uid = Nothing /\ uidNext = 1 /\ here = {} /\ clock = 0 /\ epoch = 0
        /\ cursor = NoCursor /\ pass = NoPass /\ given = Nothing
    BY ReadingAssumption DEF ReadingInit
  <1>2. Unbounded /\ Dated
    BY <1>1, Blank DEF Unbounded, Dated, Nothing
  <1>3. Past(cursor) /\ Recorded(cursor)
    BY <1>1, Blank DEF Recorded
  <1>4. PassHolds
    BY <1>1, Blank DEF PassHolds, FoundOnce, Nothing
  <1> QED BY <1>2, <1>3, <1>4 DEF Kept

\* Every step keeps the invariant.
LEMMA HiddenInvStep ==
    ASSUME HiddenInv, [ReadingNext]_vars
    PROVE  HiddenInv'
  <1>1. role' = role
    BY DEF vars, provider, ReadingNext, Provider, Change, Remove, Expire, Begin, BeginListing, NextPage, OneAnswer,
           EndListing, Fail, withConnection, RecordListing, StoreCursor, ClearCursor
  <1> SUFFICES ASSUME role = "content", Kept PROVE Kept'
    BY <1>1 DEF HiddenInv
  <1>2. CASE UNCHANGED vars
    BY <1>2 DEF vars, Kept, Unbounded, Dated, Past, Recorded, Transports, Takes, SeenBy, Reads, webdavListFolders,
                graphDriveListFolders, driveResolveFolderId, Hides, UpToDate, PassHolds, FoundOnce, Listing, Listed,
                InHand, maxUidNext
  <1>3. CASE Begin
    BY <1>3, BeginKeeps DEF Begin
  <1> QED BY <1>2, <1>3, ProviderKeeps, PageKeeps, AnswerKeeps, EndKeeps, FailKeeps, AgainKeeps, RecordKeeps,
            StoreKeeps, ClearKeeps DEF ReadingNext

\* No cursor hides an item that has not been recorded: listSince of every connector, the
\* fallback to Graph, the retry of withConnection and runDomainSync, which stores the cursor last.
THEOREM NothingIsHidden == ReadingSpec => []NothingHidden
  <1>1. HiddenInv => NothingHidden
    BY KeptMeansNothingHidden
  <1> QED BY <1>1, HiddenInvInit, HiddenInvStep, PTL DEF ReadingSpec

-----------------------------------------------------------------------------
(* Removals.                                                               *)

\* The owner's folder is read by a connector that reports removals, and never started over.
Reports == role = "content" /\ Connector[dialect].tombstones = "removed" /\ ~restarted

\* An item that is gone since the time t or before is not known of, or has been reported.
Settled(t) == \A i \in Items \ here : version[i] <= t => given[i] = 0 \/ i \in told

\* What is known of an item that is gone, or will be heard of in the listing.
Heard(i) ==
    /\ pass.found[i] = 0
    /\ i \in pass.left => pass.from # NoCursor
    /\ given[i] = 0 \/ i \in told \/ (pass.at # "recorded" /\ (i \in pass.left \/ i \in pass.gone))

\* A listing that has begun has to hear of what has gone since its cursor.
GoneHeard ==
    /\ pass.start <= clock
    /\ cursor.form = Connector[dialect].form => cursor.at <= pass.start
    /\ \A i \in Items \ here : version[i] <= pass.start => Heard(i)

Ending ==
    /\ pass.left = {}
    /\ pass.next.form = Connector[dialect].form => pass.next.at = pass.start

AllHeard ==
    /\ cursor.form = Connector[dialect].form => Settled(cursor.at)
    /\ pass.at # "idle" => GoneHeard
    /\ pass.at \in {"listed", "recorded"} => Ending

RemovalsInv == Reports => AllHeard

\* The connectors that report removals keep a position in a log and read every item.
LEMMA Reporters ==
    ASSUME Unbounded, Connector[dialect].tombstones = "removed"
    PROVE  /\ Connector[dialect].form \in {"delta", "token"} /\ dialect # "imap" /\ Transports = {dialect}
           /\ Reads(dialect) \in {{}, Items}
  <1>1. dialect \in {"graphMail", "graphDrive", "caldav", "carddav"}
    BY DEF Unbounded, AllDialects, Graph, Dav, FullListings, Connector, ImapFlowSource, WebdavFileSource,
           GraphMailSource, GraphDriveSource, GraphCalendarSource, GraphContactsSource, CalDAVSource, CarddavSource,
           GoogleDriveSource, BoxFileSource, DropboxFileSource, mapToVCard4
  <1>2. Connector[dialect].form \in {"delta", "token"}
    BY <1>1 DEF Connector, GraphMailSource, GraphDriveSource, CalDAVSource, CarddavSource
  <1>3. Reads(dialect) \in {{}, Items}
    BY <1>1 DEF Reads, graphDriveListFolders
  <1> QED BY <1>1, <1>2, <1>3 DEF Transports

\* Therefore the stored cursor is followed by every removal that was not reported.
LEMMA HeardMeansNotLost ==
    ASSUME HiddenInv, RemovalsInv
    PROVE  RemovalNotLost
  <1> SUFFICES ASSUME Reports, NEW i \in Items \ here, given[i] # 0, i \notin told,
                      cursor # NoCursor, Usable(dialect, cursor)
               PROVE  Sent(cursor, i)
    BY DEF RemovalNotLost, Reports
  <1>1. Unbounded /\ cursor \in AnyCursor /\ dialect \in AllDialects
        /\ version[i] \in Nat /\ cursor.at \in Nat
    BY DEF HiddenInv, Kept, Reports, Unbounded, AnyCursor
  <1>2. Connector[dialect].form \in {"delta", "token"}
    BY <1>1, Reporters DEF Reports
  <1>3. cursor.form = Connector[dialect].form
    BY <1>1, UsableForm DEF Takes
  <1>4. ~(version[i] <= cursor.at)
    BY <1>3 DEF RemovalsInv, AllHeard, Settled
  <1> QED BY <1>1, <1>2, <1>3, <1>4 DEF Sent

\* The provider removes items after everything that has been asked for.
LEMMA ProviderHeard ==
    ASSUME Kept, Reports, AllHeard, Provider
    PROVE  AllHeard'
  <1>0. /\ version \in [Items -> Nat] /\ clock \in Nat /\ here \subseteq Items
        /\ cursor.at \in Nat /\ pass.start \in Nat
        /\ \A i \in Items : version[i] <= clock
    BY DEF Kept, Unbounded, Dated, AnyCursor, AnyPass
  <1>1. cursor.form = Connector[dialect].form => cursor.at <= clock
    BY Reporters DEF Kept, Past, Reports
  <1>2. /\ UNCHANGED <<dialect, cursor, pass, given, told>> /\ clock' \in {clock, clock + 1}
        /\ \A i \in Items \ here' : \/ i \notin here /\ version'[i] = version[i]
                                    \/ version'[i] = clock + 1
    BY <1>0 DEF Provider, Change, Remove, Expire
  <1>3. cursor.form = Connector[dialect].form => Settled(cursor.at)'
    BY <1>0, <1>1, <1>2 DEF AllHeard, Settled
  <1>4. pass.at # "idle" => GoneHeard'
    <2> SUFFICES ASSUME pass.at # "idle" PROVE GoneHeard'
      OBVIOUS
    <2>1. GoneHeard
      BY DEF AllHeard
    <2>2. ASSUME NEW i \in Items \ here', version'[i] <= pass.start PROVE Heard(i)'
      <3>1. i \notin here /\ version'[i] = version[i]
        BY <1>0, <1>2, <2>1, <2>2 DEF GoneHeard
      <3>2. Heard(i)
        BY <2>1, <2>2, <3>1 DEF GoneHeard
      <3> QED BY <1>2, <3>2 DEF Heard
    <2> QED BY <1>0, <1>2, <2>1, <2>2 DEF GoneHeard
  <1> QED BY <1>2, <1>3, <1>4 DEF AllHeard, Ending

\* The listing begins at the stored cursor, and has yet to hear of what went after it.
LEMMA BeginHeard ==
    ASSUME Kept, Reports, AllHeard, NEW d, BeginListing(d), Reports'
    PROVE  AllHeard'
  <1> DEFINE c == From(d, cursor)
             from == IF Refused(c) THEN NoCursor ELSE c
             left == {i \in Reads(d) : Sent(from, i)}
  <1>0. Unbounded /\ d \in Transports /\ Reads(d) # {} /\ pass.at = "idle"
    BY DEF Kept, BeginListing
  <1>1. d = dialect /\ Connector[d].form \in {"delta", "token"} /\ d # "imap" /\ Reads(d) = Items
    BY <1>0, Reporters DEF Reports
  <1>2. /\ UNCHANGED <<provider, cursor, given, told>>
        /\ pass' = [NoPass EXCEPT !.at = "pages", !.by = d, !.from = from,
                                  !.start = IF d = "imap" THEN uidNext ELSE clock,
                                  !.epoch = epoch, !.left = left, !.all = Refused(c)]
        /\ (from = NoCursor => given = Nothing)
    <2>1. ~(restarted \/ (from = NoCursor /\ given # Nothing))
      BY DEF BeginListing, Reports
    <2> QED BY <2>1 DEF BeginListing
  <1>3. from # NoCursor => from = cursor /\ Takes(d, from)
    <2>1. c # NoCursor => c = cursor /\ Takes(d, c)
      BY <1>0, FromStored
    <2> QED BY <2>1
  <1>4. /\ pass'.at = "pages" /\ pass'.start = clock /\ pass'.from = from /\ pass'.left = left
        /\ \A i \in Items : pass'.found[i] = 0
    BY <1>1, <1>2 DEF NoPass, Nothing
  <1>5. clock \in Nat /\ version \in [Items -> Nat] /\ cursor.at \in Nat
    BY <1>0 DEF Unbounded, AnyCursor
  <1>6. cursor.form = Connector[dialect].form => cursor.at <= clock
    BY <1>1 DEF Kept, Past
  <1> HIDE DEF c
  <1>7. ASSUME NEW i \in Items \ here PROVE Heard(i)'
    <2>1. CASE from = NoCursor
      <3>1. i \notin left /\ given[i] = 0
        BY <1>2, <2>1, Blank DEF Sent, Nothing
      <3> QED BY <1>2, <1>4, <3>1 DEF Heard
    <2>2. CASE from # NoCursor
      <3>1. from = cursor /\ cursor.form = Connector[dialect].form /\ cursor.form \in {"delta", "token"}
        BY <1>1, <1>3, <2>2 DEF Takes
      <3>2. CASE version[i] <= cursor.at
        <4>1. given[i] = 0 \/ i \in told
          BY <3>1, <3>2 DEF AllHeard, Settled
        <4> HIDE DEF from, left
        <4> QED BY <1>2, <1>4, <2>2, <4>1 DEF Heard
      <3>3. CASE ~(version[i] <= cursor.at)
        <4>1. Sent(cursor, i)
          BY <1>5, <3>1, <3>3 DEF Sent
        <4>2. i \in left
          BY <1>1, <3>1, <4>1
        <4> HIDE DEF from, left
        <4> QED BY <1>2, <1>4, <2>2, <4>2 DEF Heard
      <3> QED BY <3>2, <3>3
    <2> QED BY <2>1, <2>2
  <1> HIDE DEF from, left
  <1>8. GoneHeard'
    BY <1>2, <1>4, <1>5, <1>6, <1>7, AtRest DEF GoneHeard
  <1>9. cursor'.form = Connector[dialect'].form => Settled(cursor.at)'
    BY <1>2, AtRest DEF AllHeard, Settled
  <1> QED BY <1>4, <1>8, <1>9 DEF AllHeard

\* While only the listing moves, the cursor settles what it settled.
LEMMA SettledRests ==
    ASSUME AllHeard, UNCHANGED <<provider, cursor, given, told>>
    PROVE  cursor'.form = Connector[dialect'].form => Settled(cursor.at)'
  BY AtRest DEF AllHeard, Settled

\* What a page says has gone has been heard of.
LEMMA PageHeard ==
    ASSUME Kept, Reports, AllHeard, NextPage \/ OneAnswer
    PROVE  AllHeard'
  <1>0. /\ Unbounded /\ pass.at = "pages" /\ pass.by = dialect /\ dialect # "imap" /\ GoneHeard
        /\ UNCHANGED <<provider, cursor, given, told>>
    BY Reporters DEF Kept, PassHolds, Reports, AllHeard, NextPage, OneAnswer
  <1>1. PICK S \in SUBSET pass.left :
           \/ pass' = NoPass
           \/ pass' = [Received(S) EXCEPT !.hops = @ + 1]
           \/ S = pass.left /\ pass' = [Received(S) EXCEPT !.left = {}, !.hops = 1, !.uids = {}]
    <2>1. CASE NextPage
      BY <2>1 DEF NextPage
    <2>2. CASE OneAnswer
      BY <1>0, <2>2 DEF OneAnswer
    <2> QED BY <2>1, <2>2
  <1>2. CASE pass' = NoPass
    BY <1>0, <1>2, Blank, SettledRests DEF AllHeard
  <1>3. CASE pass' # NoPass
    <2> DEFINE p == Received(S)
    <2>0. S \in SUBSET Items
      BY <1>0 DEF Unbounded, AnyPass
    <2>1. /\ p \in AnyPass
          /\ p.left = pass.left \ S
          /\ \A i \in Items : p.found[i] = IF i \in S \cap here THEN version[i] ELSE pass.found[i]
          /\ p.gone = pass.gone \cup (IF pass.from = NoCursor THEN {} ELSE S \ here)
          /\ p.at = pass.at /\ p.from = pass.from /\ p.start = pass.start
      BY <1>0, <2>0, ReceivedIs
    <2>2. \/ pass' = [p EXCEPT !.hops = p.hops + 1]
          \/ S = pass.left /\ pass' = [p EXCEPT !.left = {}, !.hops = 1, !.uids = {}]
      BY <1>1, <1>3
    <2> HIDE DEF p
    <2>3. /\ pass'.left = pass.left \ S
          /\ \A i \in Items : pass'.found[i] = IF i \in S \cap here THEN version[i] ELSE pass.found[i]
          /\ pass'.gone = pass.gone \cup (IF pass.from = NoCursor THEN {} ELSE S \ here)
          /\ pass'.at = "pages" /\ pass'.from = pass.from /\ pass'.start = pass.start
      <3>1. CASE pass' = [p EXCEPT !.hops = p.hops + 1]
        BY <1>0, <2>1, <3>1 DEF AnyPass
      <3>2. CASE S = pass.left /\ pass' = [p EXCEPT !.left = {}, !.hops = 1, !.uids = {}]
        BY <1>0, <2>1, <3>2 DEF AnyPass
      <3> QED BY <2>2, <3>1, <3>2
    <2>4. ASSUME NEW i \in Items \ here, Heard(i) PROVE Heard(i)'
      BY <1>0, <2>3, <2>4 DEF Heard
    <2>5. GoneHeard'
      BY <1>0, <2>3, <2>4, AtRest DEF GoneHeard
    <2> QED BY <1>0, <2>3, <2>5, SettledRests DEF AllHeard
  <1> QED BY <1>2, <1>3

\* The listing is over, and says what has gone.
LEMMA EndHeard ==
    ASSUME Kept, Reports, AllHeard, EndListing
    PROVE  AllHeard'
  <1>0. /\ Unbounded /\ pass.at = "pages" /\ pass.by = dialect /\ GoneHeard /\ pass.left = {}
        /\ Connector[dialect].form \in {"delta", "token"} /\ Connector[dialect].tombstones = "removed"
        /\ UNCHANGED <<provider, cursor, given, told>>
    BY Reporters DEF Kept, PassHolds, Reports, AllHeard, EndListing
  <1>1. PICK out : \E c \in NextCursors : HandsOver(out, c)
    BY <1>0, EndsSo DEF Unbounded
  <1>2. PICK c \in NextCursors : HandsOver(out, c)
    BY <1>1
  <1>3. /\ pass'.at = "listed" /\ pass'.next = c /\ pass'.gone = pass.gone /\ pass'.left = pass.left
        /\ pass'.start = pass.start /\ pass'.from = pass.from
        /\ \A i \in Items : pass'.found[i] = IF i \in out THEN 0 ELSE pass.found[i]
    BY <1>0, <1>2 DEF Unbounded, AnyPass, HandsOver
  <1>4. c.form = Connector[dialect].form => c.at = pass.start
    <2>1. \/ c = Positioned(Connector[dialect].form)
          \/ c \in {NoCursor, [NoCursor EXCEPT !.form = "ctag"]}
      BY <1>0, <1>2 DEF NextCursors
    <2>2. c = Positioned(Connector[dialect].form) => c.at = pass.start
      BY DEF Positioned, NoCursor
    <2>3. c \in {NoCursor, [NoCursor EXCEPT !.form = "ctag"]} => c.form \in {"none", "ctag"}
      BY DEF NoCursor
    <2> QED BY <1>0, <2>1, <2>2, <2>3
  <1>5. ASSUME NEW i \in Items, Heard(i) PROVE Heard(i)'
    BY <1>0, <1>3, <1>5 DEF Heard
  <1>6. GoneHeard'
    BY <1>0, <1>3, <1>5, AtRest DEF GoneHeard
  <1>7. Ending'
    BY <1>0, <1>3, <1>4, AtRest DEF Ending
  <1> QED BY <1>0, <1>3, <1>6, <1>7, SettledRests DEF AllHeard

\* The caller is told of it before the cursor is stored.
LEMMA RecordHeard ==
    ASSUME Kept, Reports, AllHeard, RecordListing
    PROVE  AllHeard'
  <1>0. Unbounded /\ pass.at = "listed" /\ GoneHeard /\ Ending /\ UNCHANGED <<provider, cursor>>
    BY DEF Kept, Reports, AllHeard, RecordListing, First
  <1>1. /\ pass' = [pass EXCEPT !.at = "recorded"]
        /\ given' = [i \in Items |-> IF pass.found[i] > 0 THEN pass.found[i] ELSE given[i]]
        /\ told' = (told \ {i \in Items : pass.found[i] > 0}) \cup pass.gone
    BY DEF RecordListing, Reports
  <1>2. /\ pass'.at = "recorded" /\ pass'.next = pass.next /\ pass'.gone = pass.gone /\ pass'.left = {}
        /\ pass'.start = pass.start /\ pass'.from = pass.from /\ pass'.found = pass.found
    BY <1>0, <1>1 DEF Unbounded, AnyPass, Ending
  <1>3. /\ version \in [Items -> Nat] /\ clock \in Nat /\ cursor.at \in Nat /\ pass.start \in Nat
    BY <1>0 DEF Unbounded, AnyCursor, AnyPass
  <1>4. ASSUME NEW i \in Items, pass.found[i] = 0 PROVE given'[i] = given[i] /\ (i \in told \cup pass.gone => i \in told')
    BY <1>1, <1>4
  <1>5. ASSUME NEW i \in Items, Heard(i) PROVE Heard(i)' /\ (given'[i] = 0 \/ i \in told')
    BY <1>0, <1>2, <1>4, <1>5 DEF Heard, Ending
  <1>6. GoneHeard'
    BY <1>0, <1>2, <1>5, AtRest DEF GoneHeard
  <1>7. cursor'.form = Connector[dialect'].form => Settled(cursor.at)'
    <2> SUFFICES ASSUME cursor.form = Connector[dialect].form, NEW i \in Items \ here, version[i] <= cursor.at
                 PROVE  given'[i] = 0 \/ i \in told'
      BY <1>0, AtRest DEF Settled
    <2>1. version[i] <= pass.start
      BY <1>0, <1>3 DEF GoneHeard
    <2> QED BY <1>0, <1>5, <2>1 DEF GoneHeard
  <1>8. Ending'
    BY <1>0, <1>2, AtRest DEF Ending
  <1> QED BY <1>2, <1>6, <1>7, <1>8 DEF AllHeard

\* The cursor stored is the position the listing began at.
LEMMA StoreHeard ==
    ASSUME Kept, Reports, AllHeard, StoreCursor
    PROVE  AllHeard'
  <1>0. /\ pass.at = "recorded" /\ GoneHeard /\ Ending /\ UNCHANGED <<provider, given, told>>
        /\ cursor' = pass.next /\ pass' = NoPass
    BY DEF Reports, AllHeard, StoreCursor
  <1>1. cursor'.form = Connector[dialect'].form => Settled(cursor.at)'
    BY <1>0, AtRest DEF Ending, GoneHeard, Heard, Settled
  <1> QED BY <1>0, <1>1, Blank DEF AllHeard

\* At first there is nothing to hear of.
LEMMA RemovalsInvInit == ReadingInit => RemovalsInv
  <1> SUFFICES ASSUME ReadingInit, Reports PROVE AllHeard
    BY DEF RemovalsInv
  <1>1. dialect \in AllDialects
    BY ReadingAssumption DEF ReadingInit
  <1> QED BY <1>1, Blank, ConnectorForms DEF ReadingInit, AllHeard

\* Every step keeps it.
LEMMA RemovalsInvStep ==
    ASSUME HiddenInv, RemovalsInv, [ReadingNext]_vars
    PROVE  RemovalsInv'
  <1>1. role' = role /\ dialect' = dialect
    BY DEF vars, provider, ReadingNext, Provider, Change, Remove, Expire, Begin, BeginListing, NextPage, OneAnswer,
           EndListing, Fail, withConnection, RecordListing, StoreCursor, ClearCursor
  <1>2. restarted => restarted'
    <2>1. CASE Begin
      <3>1. PICK d \in AllDialects : BeginListing(d)
        BY <2>1 DEF Begin
      <3>2. \E b : restarted' = (restarted \/ b)
        BY <3>1 DEF BeginListing
      <3> QED BY <3>2, Zenon
    <2>2. CASE ~Begin
      <3>1. restarted' = restarted
        BY <2>2 DEF vars, ReadingNext, Provider, Change, Remove, Expire, NextPage, OneAnswer, EndListing, Fail,
                    withConnection, RecordListing, StoreCursor, ClearCursor
      <3> QED BY <3>1, Zenon
    <2> QED BY <2>1, <2>2
  <1> SUFFICES ASSUME Kept, Reports, AllHeard, Reports' PROVE AllHeard'
    BY <1>1, <1>2 DEF HiddenInv, RemovalsInv, Reports
  <1>3. CASE UNCHANGED vars
    BY <1>3 DEF vars, AllHeard, Settled, GoneHeard, Heard, Ending
  <1>4. CASE Begin
    BY <1>4, BeginHeard DEF Begin
  <1>5. CASE Fail
    BY <1>5, Blank, SettledRests DEF Fail, AllHeard
  <1>6. CASE withConnection
    BY <1>6, Reporters DEF withConnection, Kept, PassHolds, Reports
  <1>7. CASE ClearCursor
    <2>1. /\ UNCHANGED <<provider, pass, given, told>> /\ cursor' = NoCursor
          /\ Connector[dialect].form \in {"delta", "token"}
      BY <1>7, Reporters DEF ClearCursor, Kept, Reports
    <2>2. \A i : Heard(i) => Heard(i)'
      BY <2>1 DEF Heard
    <2> QED BY <2>1, <2>2, Blank, AtRest DEF AllHeard, GoneHeard, Ending
  <1> QED BY <1>3, <1>4, <1>5, <1>6, <1>7, ProviderHeard, PageHeard, EndHeard, RecordHeard, StoreHeard
          DEF ReadingNext

\* A removal that the provider reports (`@removed`, `deleted`, a 404 entry) is never lost between
\* two listings, unless one had to start over.
THEOREM RemovalsAreNotLost == ReadingSpec => []RemovalNotLost
  <1>1. HiddenInv /\ RemovalsInv => RemovalNotLost
    BY HeardMeansNotLost
  <1> QED BY <1>1, HiddenInvInit, HiddenInvStep, RemovalsInvInit, RemovalsInvStep, PTL DEF ReadingSpec
=============================================================================
