---------------------------- MODULE OperateProofs ---------------------------
(***************************************************************************)
(* What an operator works with.  For every set of grants and owners,       *)
(* SharedOnPurpose and SettledStands.  Neither is inductive: an owner's    *)
(* request carries what it saw of the mapping and of the row across the    *)
(* call to the target, and the invariant says what may still be relied on  *)
(* of it (RequestsHold).  For any number of mappings and queues,           *)
(* DigestMissesNothing: the invariant says at each point of a digest what  *)
(* of all that has waited since it began is in it already (Tells).  For    *)
(* every mapping of fewer than 100 items, GateHolds: the invariant says at *)
(* each point of a verification run what it has to show already of the     *)
(* items gone ever since it began (Sound).  For every directory,           *)
(* DismissedStays: the subjects a pass has still to ask about are none it  *)
(* found dismissed or covered (Spares).  For any finite set of folders and *)
(* things, FiguresAreWhole: the count of a scan covers what has stayed in  *)
(* place in the folders it has read (CountCovers).  For every choice of    *)
(* sources, targets and things typed, any number of connections and        *)
(* mappings, WorkingStaysWorking, ReadsStated and AcceptedOpens: the       *)
(* invariant says what each stored connection, each request under way and  *)
(* each mapping still owes to what the wizard was told (SetupInv).         *)
(***************************************************************************)
EXTENDS Sharing, Notices, Verification, Decisions, Discovery, Setup, FiniteSetTheorems, TLAPS

-----------------------------------------------------------------------------
(* Sharing.                                                                *)

Request ==
    [op : {"apply", "done", "skip"}, grant : Grants, lifecycleDone : BOOLEAN,
     at : {"find", "create", "settle"}]

\* The mapping is not taken back from 'done', so what a request read of it
\* still holds; a request that is about to call the target may, and one that
\* is about to tick a row off as applied has made its share.
Relies(a, done, about, ocs, made) ==
    a # NoAsk =>
        /\ a.lifecycleDone = TRUE => done = TRUE
        /\ a.at = "create" =>
              a.lifecycleDone = TRUE /\ about[a.grant] \in {"calendar", "drive"} /\ ocs = TRUE
        /\ a.at = "settle" /\ a.op = "apply" => made[a.grant] > 0

RequestsHold == \A o \in Owners : Relies(ask[o], finished, nature, speaksOcs, shares)

SharingInv == SharingTypeOK /\ RequestsHold /\ SharedOnPurpose

-----------------------------------------------------------------------------

\* A request that is there is a request.
LEMMA RequestTyped ==
    ASSUME SharingTypeOK, NEW o \in Owners, ask[o] # NoAsk
    PROVE  ask[o] \in Request
  BY DEF SharingTypeOK, Request

\* The initial states.
LEMMA SharingInitially == SharingInit => SharingInv
  <1> SUFFICES ASSUME SharingInit PROVE SharingInv
    OBVIOUS
  <1>1. SharingTypeOK
    <2>1. ask \in [Owners -> {NoAsk} \cup Request] /\ shares \in [Grants -> Nat]
      BY DEF SharingInit
    <2> QED BY <2>1 DEF SharingInit, SharingTypeOK, Request
  <1>2. RequestsHold
    BY DEF SharingInit, RequestsHold, Relies
  <1>3. SharedOnPurpose
    BY DEF SharingInit, SharedOnPurpose
  <1> QED BY <1>1, <1>2, <1>3 DEF SharingInv

\* What a request relies on outlasts any step that keeps the shares and the cutover.
LEMMA RelianceLasts ==
    ASSUME NEW a \in Request, NEW done, NEW about, NEW ocs, NEW made \in [Grants -> Nat],
           NEW later, NEW more \in [Grants -> Nat],
           Relies(a, done, about, ocs, made),
           done = TRUE => later = TRUE, \A g \in Grants : more[g] >= made[g]
    PROVE  Relies(a, later, about, ocs, more)
  BY DEF Relies, Request

\* Answering a request: the others keep what they have.
LEMMA AnswerHolds ==
    ASSUME SharingTypeOK, NEW o \in Owners, Answer(o)
    PROVE  /\ ask' \in [Owners -> {NoAsk} \cup Request]
           /\ \A p \in Owners : ask'[p] # NoAsk => ask'[p] = ask[p]
  BY DEF SharingTypeOK, Answer, Request, NoAsk

\* A request takes what it sees of the mapping with it.
LEMMA DecisionAskedHolds ==
    ASSUME SharingInv, NEW o \in Owners, NEW g \in Grants, NEW op \in {"apply", "done", "skip"},
           DecisionAsked(o, g, op)
    PROVE  SharingInv'
  <1> DEFINE new == [op |-> op, grant |-> g, lifecycleDone |-> finished, at |-> "find"]
  <1>1. new \in Request /\ new # NoAsk
    BY DEF SharingInv, SharingTypeOK, Request, NoAsk
  <1>2. /\ ask' = [ask EXCEPT ![o] = new]
        /\ \A p \in Owners : ask'[p] = IF p = o THEN new ELSE ask[p]
        /\ UNCHANGED <<edition, nature, speaksOcs, listed, shares, finished>>
    BY DEF DecisionAsked, SharingInv, SharingTypeOK, sharingFixed
  <1>3. SharingTypeOK'
    BY <1>1, <1>2 DEF SharingInv, SharingTypeOK, Request
  <1>4. RequestsHold'
    <2> SUFFICES ASSUME NEW p \in Owners
                 PROVE  Relies(ask'[p], finished', nature', speaksOcs', shares')
      BY DEF RequestsHold
    <2>1. CASE p = o
      <3>1. /\ ask'[p] = new /\ new.at = "find" /\ new.lifecycleDone = finished
            /\ UNCHANGED <<nature, speaksOcs, shares, finished>>
        BY <1>2, <2>1
      <3> QED BY <3>1 DEF Relies
    <2>2. CASE p # o
      BY <1>2, <2>2 DEF SharingInv, RequestsHold, Relies
    <2> QED BY <2>1, <2>2
  <1>5. SharedOnPurpose'
    BY <1>2 DEF SharingInv, SharedOnPurpose
  <1> QED BY <1>3, <1>4, <1>5 DEF SharingInv

\* The row is looked up; only a grant on a file, after the cutover, goes on to the target.
LEMMA FindHolds ==
    ASSUME SharingInv, NEW o \in Owners, findOpenRow(o)
    PROVE  SharingInv'
  <1>1. ask[o] \in Request /\ ask[o] # NoAsk
    BY RequestTyped DEF SharingInv, findOpenRow
  <1>2. UNCHANGED <<edition, nature, speaksOcs, listed, shares, finished>>
    BY DEF findOpenRow, sharingFixed
  <1>3. SharedOnPurpose'
    BY <1>2 DEF SharingInv, SharedOnPurpose
  <1>4. CASE Answer(o)
    <2>1. SharingTypeOK'
      BY <1>2, <1>4, AnswerHolds DEF SharingInv, SharingTypeOK, Request
    <2>2. RequestsHold'
      BY <1>2, <1>4, AnswerHolds DEF SharingInv, RequestsHold, Relies
    <2> QED BY <1>3, <2>1, <2>2 DEF SharingInv
  <1>5. CASE ask[o].op = "apply" /\ MayApply(ask[o]) /\ ask' = [ask EXCEPT ![o].at = "create"]
    <2> DEFINE new == [ask[o] EXCEPT !.at = "create"]
    <2>1. /\ new \in Request /\ new.lifecycleDone = ask[o].lifecycleDone
          /\ new.grant = ask[o].grant /\ new.at = "create"
      BY <1>1 DEF Request
    <2>2. \A p \in Owners : ask'[p] = IF p = o THEN new ELSE ask[p]
      BY <1>5 DEF SharingInv, SharingTypeOK
    <2>3. SharingTypeOK'
      BY <1>2, <1>5, <2>1 DEF SharingInv, SharingTypeOK, Request
    <2>4. RequestsHold'
      <3> SUFFICES ASSUME NEW p \in Owners
                   PROVE  Relies(ask'[p], finished', nature', speaksOcs', shares')
        BY DEF RequestsHold
      <3>1. CASE p = o
        BY <1>1, <1>2, <1>5, <2>1, <2>2, <3>1
           DEF SharingInv, SharingTypeOK, RequestsHold, Relies, MayApply, nextcloudCapability, mapGrant, Request
      <3>2. CASE p # o
        BY <1>2, <2>2, <3>2 DEF SharingInv, RequestsHold, Relies
      <3> QED BY <3>1, <3>2
    <2> QED BY <1>3, <2>3, <2>4 DEF SharingInv
  <1>6. CASE ask[o].op # "apply" /\ ask' = [ask EXCEPT ![o].at = "settle"]
    <2> DEFINE new == [ask[o] EXCEPT !.at = "settle"]
    <2>1. /\ new \in Request /\ new.lifecycleDone = ask[o].lifecycleDone
          /\ new.op = ask[o].op /\ new.at = "settle"
      BY <1>1 DEF Request
    <2>2. \A p \in Owners : ask'[p] = IF p = o THEN new ELSE ask[p]
      BY <1>6 DEF SharingInv, SharingTypeOK
    <2>3. SharingTypeOK'
      BY <1>2, <1>6, <2>1 DEF SharingInv, SharingTypeOK, Request
    <2>4. RequestsHold'
      BY <1>1, <1>2, <1>6, <2>1, <2>2 DEF SharingInv, RequestsHold, Relies
    <2> QED BY <1>3, <2>3, <2>4 DEF SharingInv
  <1> QED BY <1>4, <1>5, <1>6 DEF findOpenRow

\* The call to the target: the one step that makes a share.
LEMMA CreateHolds ==
    ASSUME SharingInv, NEW o \in Owners, NEW outcome \in {"created", "refused", "lost"},
           createShare(o, outcome)
    PROVE  SharingInv'
  <1>1. ask[o] \in Request /\ ask[o] # NoAsk
    BY RequestTyped DEF SharingInv, createShare
  <1>2. UNCHANGED <<edition, nature, speaksOcs, listed, finished>>
    BY DEF createShare, sharingFixed
  <1>3. finished /\ speaksOcs /\ nature[ask[o].grant] \in {"calendar", "drive"}
    BY <1>1 DEF SharingInv, SharingTypeOK, RequestsHold, Relies, createShare, Request
  <1>4. /\ shares' \in [Grants -> Nat]
        /\ \A g \in Grants : shares'[g] >= shares[g]
        /\ outcome = "created" => shares'[ask[o].grant] > 0
        /\ \A g \in Grants : shares'[g] > 0 => shares[g] > 0 \/ (g = ask[o].grant /\ nature[g] = "drive")
    BY <1>1, <1>3 DEF SharingInv, SharingTypeOK, createShare, Request
  <1>5. SharedOnPurpose'
    BY <1>2, <1>3, <1>4 DEF SharingInv, SharingTypeOK, SharedOnPurpose
  <1>6. CASE Answer(o)
    <2>1. SharingTypeOK'
      BY <1>2, <1>4, <1>6, AnswerHolds DEF SharingInv, SharingTypeOK, Request
    <2>2. RequestsHold'
      <3> SUFFICES ASSUME NEW p \in Owners
                   PROVE  Relies(ask'[p], finished', nature', speaksOcs', shares')
        BY DEF RequestsHold
      <3>1. CASE ask'[p] = NoAsk
        BY <3>1 DEF Relies
      <3>2. CASE ask'[p] # NoAsk
        <4>1. ask'[p] = ask[p] /\ ask[p] \in Request
          BY <1>6, <3>2, AnswerHolds, RequestTyped DEF SharingInv
        <4>2. Relies(ask[p], finished, nature, speaksOcs, shares) /\ shares \in [Grants -> Nat]
          BY DEF SharingInv, SharingTypeOK, RequestsHold
        <4>3. Relies(ask[p], finished, nature, speaksOcs, shares')
          BY <1>4, <4>1, <4>2, RelianceLasts
        <4> QED BY <1>2, <4>1, <4>3
      <3> QED BY <3>1, <3>2
    <2> QED BY <1>5, <2>1, <2>2 DEF SharingInv
  <1>7. CASE outcome = "created" /\ ask' = [ask EXCEPT ![o].at = "settle"]
    <2> DEFINE new == [ask[o] EXCEPT !.at = "settle"]
    <2>1. /\ new \in Request /\ new.lifecycleDone = ask[o].lifecycleDone
          /\ new.grant = ask[o].grant /\ new.at = "settle"
      BY <1>1 DEF Request
    <2>2. \A p \in Owners : ask'[p] = IF p = o THEN new ELSE ask[p]
      BY <1>7 DEF SharingInv, SharingTypeOK
    <2>3. SharingTypeOK'
      BY <1>2, <1>4, <1>7, <2>1 DEF SharingInv, SharingTypeOK, Request
    <2>4. RequestsHold'
      <3> SUFFICES ASSUME NEW p \in Owners
                   PROVE  Relies(ask'[p], finished', nature', speaksOcs', shares')
        BY DEF RequestsHold
      <3>1. CASE p = o
        BY <1>2, <1>3, <1>4, <1>7, <2>1, <2>2, <3>1 DEF Relies
      <3>2. CASE p # o /\ ask[p] = NoAsk
        BY <2>2, <3>2 DEF Relies
      <3>3. CASE p # o /\ ask[p] # NoAsk
        <4>1. ask'[p] = ask[p] /\ ask[p] \in Request
          BY <2>2, <3>3, RequestTyped DEF SharingInv
        <4>2. Relies(ask[p], finished, nature, speaksOcs, shares) /\ shares \in [Grants -> Nat]
          BY DEF SharingInv, SharingTypeOK, RequestsHold
        <4>3. Relies(ask[p], finished, nature, speaksOcs, shares')
          BY <1>4, <4>1, <4>2, RelianceLasts
        <4> QED BY <1>2, <4>1, <4>3
      <3> QED BY <3>1, <3>2, <3>3
    <2> QED BY <1>5, <2>3, <2>4 DEF SharingInv
  <1> QED BY <1>6, <1>7 DEF createShare

\* The row is ticked off, with the share made when it says applied.
LEMMA DecideHolds ==
    ASSUME SharingInv, NEW o \in Owners, NEW audited \in BOOLEAN, decideShareGrant(o, audited)
    PROVE  SharingInv'
  <1>1. ask[o] \in Request /\ ask[o] # NoAsk /\ ask[o].at = "settle"
    BY RequestTyped DEF SharingInv, decideShareGrant
  <1>2. UNCHANGED <<edition, nature, speaksOcs, shares, finished>> /\ Answer(o)
    BY DEF decideShareGrant, sharingFixed
  <1>3. /\ listed' \in [Grants -> {"none", "open"} \cup Settled]
        /\ \A g \in Grants : listed'[g] = listed[g] \/ (g = ask[o].grant /\ listed'[g] = StateFor(ask[o].op))
    BY <1>1 DEF SharingInv, SharingTypeOK, decideShareGrant, Request, StateFor, Settled
  <1>4. SharingTypeOK'
    BY <1>2, <1>3, AnswerHolds DEF SharingInv, SharingTypeOK, Request
  <1>5. RequestsHold'
    BY <1>2, AnswerHolds DEF SharingInv, RequestsHold, Relies
  <1>6. StateFor(ask[o].op) = "applied" => shares[ask[o].grant] > 0
    BY <1>1 DEF SharingInv, RequestsHold, Relies, StateFor, Request
  <1>7. SharedOnPurpose'
    BY <1>2, <1>3, <1>6 DEF SharingInv, SharedOnPurpose
  <1> QED BY <1>4, <1>5, <1>7 DEF SharingInv

\* A rescan only opens rows that were not there.
LEMMA UpsertHolds ==
    ASSUME SharingInv, NEW some \in SUBSET Grants, upsertShareGrants(some)
    PROVE  SharingInv'
  <1>1. /\ UNCHANGED <<edition, nature, speaksOcs, shares, finished, ask>>
        /\ listed' = [g \in Grants |-> IF g \in some THEN UpsertRow(g) ELSE listed[g]]
    BY DEF upsertShareGrants, sharingFixed
  <1>2. SharingTypeOK'
    BY <1>1 DEF SharingInv, SharingTypeOK, UpsertRow
  <1>3. RequestsHold'
    BY <1>1 DEF SharingInv, RequestsHold, Relies
  <1>4. SharedOnPurpose'
    BY <1>1 DEF SharingInv, SharedOnPurpose, UpsertRow
  <1> QED BY <1>2, <1>3, <1>4 DEF SharingInv

\* The remaining actions leave the rows, the shares and the open requests alone.
LEMMA OthersHold ==
    ASSUME SharingInv,
           UNCHANGED <<edition, nature, speaksOcs, listed, shares>>,
           finished' \in BOOLEAN, finished => finished',
           ask' = ask \/ ask' = [o \in Owners |-> NoAsk]
    PROVE  SharingInv'
  <1>1. SharingTypeOK'
    BY DEF SharingInv, SharingTypeOK
  <1>2. RequestsHold'
    BY DEF SharingInv, RequestsHold, Relies
  <1>3. SharedOnPurpose'
    BY DEF SharingInv, SharedOnPurpose
  <1> QED BY <1>1, <1>2, <1>3 DEF SharingInv

\* Every step of owners, rescans and the mapping keeps the invariant.
LEMMA SharingStep == SharingInv /\ [SharingNext]_sharingVars => SharingInv'
  <1> SUFFICES ASSUME SharingInv, [SharingNext]_sharingVars PROVE SharingInv'
    OBVIOUS
  <1>0. finished \in BOOLEAN
    BY DEF SharingInv, SharingTypeOK
  <1>1. ASSUME NEW g \in Grants, SourceChanges(g) PROVE SharingInv'
    BY <1>0, <1>1, OthersHold DEF SourceChanges, sharingFixed
  <1>2. CASE RescanAsked
    BY <1>0, <1>2, OthersHold DEF RescanAsked, sharingFixed
  <1>3. ASSUME NEW seen \in BOOLEAN, ScanCalendarPermissions(seen) \/ ScanDrivePermissions(seen)
        PROVE  SharingInv'
    BY <1>0, <1>3, OthersHold DEF ScanCalendarPermissions, ScanDrivePermissions, sharingFixed
  <1>4. ASSUME NEW some \in SUBSET Grants, upsertShareGrants(some) PROVE SharingInv'
    BY <1>4, UpsertHolds
  <1>5. ASSUME NEW o \in Owners, NEW g \in Grants, NEW op \in {"apply", "done", "skip"},
               DecisionAsked(o, g, op)
        PROVE  SharingInv'
    BY <1>5, DecisionAskedHolds
  <1>6. ASSUME NEW o \in Owners, findOpenRow(o) PROVE SharingInv'
    BY <1>6, FindHolds
  <1>7. ASSUME NEW o \in Owners, NEW outcome \in {"created", "refused", "lost"}, createShare(o, outcome)
        PROVE  SharingInv'
    BY <1>7, CreateHolds
  <1>8. ASSUME NEW o \in Owners, NEW audited \in BOOLEAN, decideShareGrant(o, audited) PROVE SharingInv'
    BY <1>8, DecideHolds
  <1>9. CASE ShareRequestDies
    BY <1>0, <1>9, OthersHold DEF ShareRequestDies, sharingFixed
  <1>10. CASE CutOver
    BY <1>0, <1>10, OthersHold DEF CutOver, sharingFixed
  <1>11. CASE UNCHANGED sharingVars
    BY <1>0, <1>11, OthersHold DEF sharingVars
  <1> QED
    BY <1>1, <1>2, <1>3, <1>4, <1>5, <1>6, <1>7, <1>8, <1>9, <1>10, <1>11 DEF SharingNext

\* A share exists on the target only after the cutover, for a grant a person
\* holds on a file, and a row says applied only when its share was made.
THEOREM SharedOnPurposeAlways == SharingSpec => []SharedOnPurpose
  <1>1. SharingInv => SharedOnPurpose
    BY DEF SharingInv
  <1> QED BY <1>1, SharingInitially, SharingStep, PTL DEF SharingSpec

\* The states of the checklist, the shares and the requests stay well formed.
THEOREM SharingTypeCorrect == SharingSpec => []SharingTypeOK
  <1>1. SharingInv => SharingTypeOK
    BY DEF SharingInv
  <1> QED BY <1>1, SharingInitially, SharingStep, PTL DEF SharingSpec

-----------------------------------------------------------------------------

\* One step never changes a settled row.
LEMMA SettledStep ==
    SharingTypeOK /\ [SharingNext]_sharingVars
        => [\A g \in Grants : listed[g] \in Settled => listed'[g] = listed[g]]_sharingVars
  <1> SUFFICES ASSUME SharingTypeOK, SharingNext, NEW g \in Grants, listed[g] \in Settled
               PROVE  listed'[g] = listed[g]
    OBVIOUS
  <1>1. listed[g] # "open" /\ listed[g] # "none"
    BY DEF Settled
  <1>2. CASE UNCHANGED listed
    BY <1>2
  <1>3. ASSUME NEW some \in SUBSET Grants, upsertShareGrants(some) PROVE listed'[g] = listed[g]
    BY <1>1, <1>3 DEF upsertShareGrants, UpsertRow
  <1>4. ASSUME NEW o \in Owners, NEW audited \in BOOLEAN, decideShareGrant(o, audited)
        PROVE  listed'[g] = listed[g]
    BY <1>1, <1>4 DEF decideShareGrant, SharingTypeOK
  <1> QED
    BY <1>2, <1>3, <1>4
       DEF SharingNext, SourceChanges, RescanAsked, ScanCalendarPermissions, ScanDrivePermissions,
           DecisionAsked, findOpenRow, createShare, ShareRequestDies, CutOver

\* No request, no rescan and no race of two owners changes a settled row.
THEOREM SettledStandsAlways == SharingSpec => SettledStands
  BY SharingTypeCorrect, SettledStep, PTL DEF SharingSpec, SettledStands

-----------------------------------------------------------------------------
(* Digests.                                                                *)

Reading == {"decisions", "window", "mappings"}
UnderWay == Reading \cup {"render", "record"}

\* The fields a digest has at each point.
Shaped(d) ==
    /\ "at" \in DOMAIN d
    /\ d.at # "none" => {"told", "blind"} \subseteq DOMAIN d
    /\ d.at \in Reading => {"live", "next", "since", "reported"} \subseteq DOMAIN d
    /\ d.at \in Reading => d.next \in Nat \ {0}
    /\ d.at \in {"decisions", "window"} => d.next = 1

Mentions(d, w) == w \in d.told \cup d.blind

\* What of w, all that has waited since the digest began, is in the digest already:
\* the decisions once they were asked for, the mappings read so far, in the end all.
Tells(d, w) ==
    /\ d.at \in Reading => \A m \in Mailboxes, q \in Queues : <<m, q>> \in w => d.live[m] = "live"
    /\ \/ d.at = "window"
       \/ d.at = "mappings" /\ site = "managed"
       \/ d.at = "mappings" /\ d.reported = TRUE
       => (Decision \in w => Mentions(d, Decision))
    /\ d.at = "mappings" =>
          \A k \in DOMAIN MailboxOrder, q \in Queues :
              k < d.next /\ <<MailboxOrder[k], q>> \in w => Mentions(d, <<MailboxOrder[k], q>>)
    /\ d.at \in {"render", "record", "quiet", "sent"} => w \subseteq d.told \cup d.blind

\* What is said to have waited since a digest under way began is still waiting.
DigestHolds(c) ==
    /\ Shaped(digest[c])
    /\ Tells(digest[c], throughout[c])
    /\ digest[c].at \in UnderWay => throughout[c] \subseteq Waiting

NoticesInv ==
    /\ site \in {"managed", "selfhost"} /\ undecided \in BOOLEAN
    /\ DOMAIN digest = Cadences
    /\ \A c \in Cadences : DigestHolds(c)

\* No digest is under way at first.
LEMMA NoticesInitially == NoticesInit => NoticesInv
  BY DEF NoticesInit, NoticesInv, DigestHolds, Shaped, Tells, NoDigest, Reading, UnderWay

\* Less has waited throughout: no less is told of it.
LEMMA TellsOfLess ==
    ASSUME NEW d, NEW w, NEW v, v \subseteq w, Tells(d, w)
    PROVE  Tells(d, v)
  BY DEF Tells

\* The history only ever narrows while a digest is there.
LEMMA Narrows ==
    ASSUME Throughout, NEW c \in Cadences, digest[c].at # "none", digest'[c].at # "none"
    PROVE  /\ throughout'[c] \subseteq throughout[c]
           /\ digest[c].at \in UnderWay => throughout'[c] \subseteq Waiting'
  BY DEF Throughout, UnderWay, Reading

\* A digest that a step leaves alone.
LEMMA LeftAlone ==
    ASSUME NoticesInv, Throughout, NEW c \in Cadences, site' = site, digest'[c] = digest[c]
    PROVE  DigestHolds(c)'
  <1>0. DigestHolds(c)
    BY DEF NoticesInv
  <1>1. CASE digest[c].at = "none"
    BY <1>0, <1>1 DEF DigestHolds, Shaped, Tells, Reading, UnderWay
  <1>2. CASE digest[c].at # "none"
    <2>1. throughout'[c] \subseteq throughout[c]
      BY <1>2, Narrows
    <2>2. digest[c].at \in UnderWay => throughout'[c] \subseteq Waiting'
      BY <1>2, Narrows
    <2>3. Tells(digest[c], throughout'[c])
      BY <1>0, <2>1, TellsOfLess DEF DigestHolds
    <2>4. Tells(digest[c], throughout[c])'
      BY <2>3 DEF Tells
    <2>5. Shaped(digest[c])'
      BY <1>0 DEF DigestHolds, Shaped
    <2> QED BY <2>2, <2>4, <2>5 DEF DigestHolds
  <1> QED BY <1>1, <1>2

\* A digest that moves on: enough that what it now says is right of what has waited
\* so far and waits still.
LEMMA MovesOn ==
    ASSUME NoticesInv, Throughout, NEW c \in Cadences, site' = site, Waiting' = Waiting,
           digest[c].at \in UnderWay, digest'[c].at # "none",
           Shaped(digest'[c]), Tells(digest'[c], throughout[c])
    PROVE  DigestHolds(c)'
  <1>1. /\ throughout'[c] \subseteq throughout[c]
        /\ throughout'[c] \subseteq Waiting'
    BY Narrows DEF UnderWay, Reading
  <1>2. Tells(digest'[c], throughout'[c])
    BY <1>1, TellsOfLess
  <1>3. Tells(digest[c], throughout[c])'
    BY <1>2 DEF Tells
  <1>4. Shaped(digest[c])'
    BY DEF Shaped
  <1> QED BY <1>1, <1>3, <1>4 DEF DigestHolds

\* A digest with more in it.
Grows(d, e) ==
    /\ DOMAIN e = DOMAIN d
    /\ e.at = d.at /\ e.live = d.live /\ e.next = d.next
    /\ d.told \subseteq e.told /\ d.blind \subseteq e.blind

\* A queue that is asked about, or cannot be read, loses nothing told before.
LEMMA AskedGrows ==
    ASSUME NEW d, Shaped(d), d.at \in Reading, NEW spot, NEW ok \in BOOLEAN, NEW found \in BOOLEAN
    PROVE  /\ Grows(d, Asked(d, spot, ok, found))
           /\ Asked(d, spot, ok, found).reported = d.reported
           /\ found => Mentions(Asked(d, spot, ok, found), spot)
  BY DEF Shaped, Grows, Asked, Mentions, Reading

\* The same for all queues of a mapping.
LEMMA AttentionGrows ==
    ASSUME NEW d, Shaped(d), d.at \in Reading, NEW m, NEW unread
    PROVE  /\ Grows(d, attentionFor(d, m, unread))
           /\ attentionFor(d, m, unread).reported = d.reported
           /\ \A q \in awaiting[m] : Mentions(attentionFor(d, m, unread), <<m, q>>)
  <1> DEFINE auto == IF CountAutoApplied(m, d.since) > 0 THEN {<<m, "autoApplied">>} ELSE {}
             told == d.told \cup {<<m, q>> : q \in awaiting[m] \ unread} \cup auto
             blind == d.blind \cup {<<m, q>> : q \in unread}
             e == attentionFor(d, m, unread)
  <1>1. e = [d EXCEPT !.told = told, !.blind = blind]
    BY DEF attentionFor
  <1> HIDE DEF auto, e
  <1>2. /\ DOMAIN e = DOMAIN d /\ e.told = told /\ e.blind = blind
        /\ e.at = d.at /\ e.live = d.live /\ e.next = d.next /\ e.reported = d.reported
    BY <1>1 DEF Shaped, Reading
  <1>3. \A q \in awaiting[m] : <<m, q>> \in told \cup blind
    OBVIOUS
  <1> QED BY <1>2, <1>3 DEF Grows, Mentions, e

\* The digest after a mapping was read: all that waits in its queues is in it, and
\* so are the decisions if the appliance had not asked for them before.
LEMMA ReportingGrows ==
    ASSUME NoticesInv, NEW c \in Cadences, digest[c].at \in Reading, NEW m, NEW unread
    PROVE  /\ Grows(digest[c], Reporting(c, m, unread))
           /\ Reporting(c, m, unread).reported = TRUE
           /\ \A q \in awaiting[m] : Mentions(Reporting(c, m, unread), <<m, q>>)
           /\ site = "selfhost" /\ undecided /\ digest[c].reported # TRUE
              => Mentions(Reporting(c, m, unread), Decision)
  <1> DEFINE d == digest[c]
             e == attentionFor(d, m, unread \cap Queues)
             first == site = "selfhost" /\ ~digest[c].reported
             ok == "decisions" \notin unread
             f == IF first THEN Asked(e, Decision, ok, undecided) ELSE e
             g == Reporting(c, m, unread)
  <1>1. Shaped(d) /\ undecided \in BOOLEAN /\ ok \in BOOLEAN
    BY DEF NoticesInv, DigestHolds
  <1>2. /\ Grows(d, e) /\ e.reported = d.reported
        /\ \A q \in awaiting[m] : Mentions(e, <<m, q>>)
    BY <1>1, AttentionGrows
  <1>3. Shaped(e) /\ e.at \in Reading
    BY <1>1, <1>2 DEF Shaped, Grows, Reading
  <1>4. g = [f EXCEPT !.reported = TRUE]
    BY DEF Reporting
  <1> HIDE DEF e, ok
  <1>5. /\ Grows(e, Asked(e, Decision, ok, undecided))
        /\ undecided => Mentions(Asked(e, Decision, ok, undecided), Decision)
    BY <1>1, <1>3, AskedGrows
  <1>6. Grows(e, f) /\ (first /\ undecided => Mentions(f, Decision))
    BY <1>5 DEF Grows
  <1> HIDE DEF f, g
  <1>7. /\ Grows(f, g) /\ g.reported = TRUE /\ g.told = f.told /\ g.blind = f.blind
    BY <1>1, <1>2, <1>4, <1>6 DEF Grows, Shaped, Reading
  <1>8. Grows(d, g)
    BY <1>2, <1>6, <1>7 DEF Grows
  <1>9. \A q \in awaiting[m] : Mentions(g, <<m, q>>)
    BY <1>2, <1>6, <1>7 DEF Grows, Mentions
  <1>10. first /\ undecided => Mentions(g, Decision)
    BY <1>6, <1>7 DEF Mentions
  <1> QED BY <1>7, <1>8, <1>9, <1>10 DEF g

\* A digest begins with nothing read, and the history with what waits.
LEMMA BeginsHolds ==
    ASSUME NoticesInv, Throughout, NEW c \in Cadences, DigestBegins(c)
    PROVE  DigestHolds(c)'
  <1> DEFINE d == [at |-> IF site = "managed" THEN "decisions" ELSE "mappings", live |-> phase, next |-> 1,
                   since |-> 0, reported |-> FALSE, told |-> {}, blind |-> {}]
  <1>1. digest'[c] = d /\ UNCHANGED <<site, phase, awaiting, undecided>>
    BY DEF DigestBegins, NoticesInv
  <1>2. digest[c].at = "none" /\ site \in {"managed", "selfhost"}
    BY DEF DigestBegins, NoDigest, NoticesInv
  <1>3. /\ d.at \in {"decisions", "mappings"} /\ (d.at = "mappings" => site = "selfhost")
        /\ d.live = phase /\ d.next = 1 /\ d.reported = FALSE
        /\ {"at", "live", "next", "since", "reported", "told", "blind"} \subseteq DOMAIN d
    BY <1>2
  <1> HIDE DEF d
  <1>4. throughout'[c] = Waiting'
    BY <1>1, <1>2, <1>3 DEF Throughout
  <1>5. Waiting' = Waiting
    BY <1>1 DEF Waiting
  <1>6. \A m \in Mailboxes, q \in Queues : <<m, q>> \in Waiting => phase[m] = "live"
    BY NoticesAssumption DEF Waiting, Decision, Mailboxes
  <1>7. Shaped(d)
    BY <1>3 DEF Shaped
  <1>8. Tells(d, Waiting)
    BY <1>3, <1>6, NoticesAssumption DEF Tells, Reading
  <1>9. Shaped(digest[c])'
    BY <1>1, <1>7 DEF Shaped
  <1>10. Tells(digest[c], throughout[c])'
    BY <1>1, <1>4, <1>5, <1>8 DEF Tells
  <1> QED BY <1>4, <1>9, <1>10 DEF DigestHolds

\* The decisions are counted, or named as unread.
LEMMA CountHolds ==
    ASSUME NoticesInv, Throughout, NEW c \in Cadences, NEW ok \in BOOLEAN, CountPendingDecisions(c, ok)
    PROVE  DigestHolds(c)'
  <1> DEFINE d == digest[c]
             e == Asked(d, Decision, ok, undecided)
             f == [e EXCEPT !.at = "window"]
  <1>1. digest'[c] = f /\ UNCHANGED <<site, phase, awaiting, undecided>> /\ d.at = "decisions"
    BY DEF CountPendingDecisions, NoticesInv, DigestOnly
  <1>2. Shaped(d) /\ Tells(d, throughout[c]) /\ throughout[c] \subseteq Waiting /\ undecided \in BOOLEAN
    BY <1>1 DEF NoticesInv, DigestHolds, UnderWay, Reading
  <1>3. Grows(d, e) /\ (undecided => Mentions(e, Decision))
    BY <1>1, <1>2, AskedGrows DEF Reading
  <1> HIDE DEF e
  <1>4. /\ DOMAIN f = DOMAIN d /\ f.at = "window" /\ f.told = e.told /\ f.blind = e.blind
        /\ f.live = d.live /\ f.next = d.next
    BY <1>1, <1>2, <1>3 DEF Grows, Shaped, Reading
  <1> HIDE DEF f
  <1>5. Decision \in throughout[c] => undecided
    BY <1>2, NoticesAssumption DEF Waiting, Decision, Mailboxes
  <1>6. Shaped(f)
    BY <1>1, <1>2, <1>4 DEF Shaped, Reading
  <1>7. Tells(f, throughout[c])
    BY <1>1, <1>2, <1>3, <1>4, <1>5 DEF Tells, Reading, Mentions
  <1>8. Waiting' = Waiting
    BY <1>1 DEF Waiting
  <1> QED BY <1>1, <1>4, <1>6, <1>7, <1>8, MovesOn DEF UnderWay, Reading

\* Since when removals are counted is asked for.
LEMMA WindowHolds ==
    ASSUME NoticesInv, Throughout, NEW c \in Cadences, NEW ok \in BOOLEAN, LastDigestSentAt(c, ok)
    PROVE  DigestHolds(c)'
  <1> DEFINE d == digest[c]
             f == [d EXCEPT !.at = "mappings", !.since = Since(c, ok)]
  <1>1. digest'[c] = f /\ UNCHANGED <<site, phase, awaiting, undecided>> /\ d.at = "window"
    BY DEF LastDigestSentAt, NoticesInv, DigestOnly
  <1>2. Shaped(d) /\ Tells(d, throughout[c])
    BY DEF NoticesInv, DigestHolds
  <1>4. /\ DOMAIN f = DOMAIN d /\ f.at = "mappings" /\ f.told = d.told /\ f.blind = d.blind
        /\ f.live = d.live /\ f.next = d.next
    BY <1>1, <1>2 DEF Shaped, Reading
  <1> HIDE DEF f
  <1>6. Shaped(f)
    BY <1>1, <1>2, <1>4 DEF Shaped, Reading
  <1>8. Waiting' = Waiting
    BY <1>1 DEF Waiting
  <1>7. Tells(f, throughout[c])
    <2>1. f.next = 1 /\ \A k \in DOMAIN MailboxOrder : ~(k < 1)
      BY <1>1, <1>2, <1>4, NoticesAssumption DEF Shaped
    <2> QED BY <1>1, <1>2, <1>4, <2>1 DEF Tells, Reading, Mentions
  <1> QED BY <1>1, <1>4, <1>6, <1>7, <1>8, MovesOn DEF UnderWay, Reading

\* A mapping is read: every queue of it is told of, or named as unread.  One that
\* does not report had nothing that has waited since the digest began.
LEMMA ReadHolds ==
    ASSUME NoticesInv, Throughout, NEW c \in Cadences, NEW unread, ReadMailbox(c, unread)
    PROVE  DigestHolds(c)'
  <1> DEFINE d == digest[c]
             m == MailboxOrder[d.next]
             e == IF reportsToDigest(c, m, unread) THEN Reporting(c, m, unread) ELSE d
             f == [e EXCEPT !.next = e.next + 1]
             w == throughout[c]
  <1>1. /\ digest'[c] = f /\ UNCHANGED <<site, phase, awaiting, undecided>>
        /\ d.at = "mappings" /\ d.next <= Len(MailboxOrder)
    BY DEF ReadMailbox, NoticesInv, DigestOnly
  <1>2. /\ Shaped(d) /\ Tells(d, w) /\ w \subseteq Waiting
        /\ undecided \in BOOLEAN /\ site \in {"managed", "selfhost"}
    BY <1>1 DEF NoticesInv, DigestHolds, UnderWay, Reading
  <1>3. d.next \in DOMAIN MailboxOrder /\ m \in Mailboxes
    BY <1>1, <1>2, NoticesAssumption DEF Shaped, Mailboxes, Reading
  <1>4. /\ Grows(d, Reporting(c, m, unread))
        /\ Reporting(c, m, unread).reported = TRUE
        /\ \A q \in awaiting[m] : Mentions(Reporting(c, m, unread), <<m, q>>)
        /\ site = "selfhost" /\ undecided /\ d.reported # TRUE => Mentions(Reporting(c, m, unread), Decision)
    BY <1>1, ReportingGrows DEF Reading
  <1>5. \A q \in Queues : <<m, q>> \in w => q \in awaiting[m] /\ phase[m] = "live" /\ d.live[m] = "live"
    BY <1>1, <1>2, <1>3, NoticesAssumption DEF Waiting, Decision, Mailboxes, Tells, Reading
  <1>6. \A q \in Queues : <<m, q>> \in w => reportsToDigest(c, m, unread)
    BY <1>2, <1>5 DEF reportsToDigest
  <1>7. Decision \in w => undecided
    BY <1>2, NoticesAssumption DEF Waiting, Decision, Mailboxes
  <1>8. /\ Grows(d, e) /\ (e.reported = TRUE \/ e = d)
        /\ \A q \in Queues : <<m, q>> \in w => Mentions(e, <<m, q>>)
        /\ site = "managed" \/ e.reported = TRUE => (Decision \in w => Mentions(e, Decision))
    <2>1. CASE reportsToDigest(c, m, unread)
      <3>1. e = Reporting(c, m, unread)
        BY <2>1
      <3>2. d.reported = TRUE \/ site = "managed" => (Decision \in w => Mentions(d, Decision))
        BY <1>1, <1>2 DEF Tells
      <3> HIDE DEF e
      <3>3. Mentions(d, Decision) => Mentions(e, Decision)
        BY <1>4, <3>1 DEF Grows, Mentions
      <3>4. Decision \in w => Mentions(e, Decision)
        BY <1>2, <1>4, <1>7, <3>1, <3>2, <3>3
      <3> QED BY <1>4, <1>5, <3>1, <3>4
    <2>2. CASE ~reportsToDigest(c, m, unread)
      <3>1. e = d
        BY <2>2
      <3> HIDE DEF e
      <3> QED BY <1>1, <1>2, <1>6, <2>2, <3>1 DEF Grows, Tells
    <2> QED BY <2>1, <2>2
  <1> HIDE DEF e
  <1>9. /\ DOMAIN f = DOMAIN d /\ f.at = "mappings" /\ f.told = e.told /\ f.blind = e.blind
        /\ f.live = d.live /\ f.next = d.next + 1 /\ f.reported = e.reported
    BY <1>1, <1>2, <1>8 DEF Grows, Shaped, Reading
  <1> HIDE DEF f
  <1>10. Shaped(f)
    BY <1>1, <1>2, <1>9 DEF Shaped, Reading
  <1>11. ASSUME NEW k \in DOMAIN MailboxOrder, NEW q \in Queues, k < f.next, <<MailboxOrder[k], q>> \in w
         PROVE  Mentions(f, <<MailboxOrder[k], q>>)
    <2>1. k = d.next \/ k < d.next
      BY <1>1, <1>2, <1>9, <1>11, NoticesAssumption DEF Shaped, Reading
    <2>2. k < d.next => Mentions(d, <<MailboxOrder[k], q>>)
      BY <1>1, <1>2, <1>11 DEF Tells
    <2>3. Mentions(e, <<MailboxOrder[k], q>>)
      BY <1>8, <1>11, <2>1, <2>2 DEF Grows, Mentions
    <2> QED BY <1>9, <2>3 DEF Mentions
  <1>12. Tells(f, w)
    BY <1>1, <1>2, <1>8, <1>9, <1>11 DEF Tells, Reading, Mentions
  <1>13. Waiting' = Waiting
    BY <1>1 DEF Waiting
  <1> QED BY <1>1, <1>9, <1>10, <1>12, <1>13, MovesOn DEF UnderWay, Reading

\* All mappings are read; decisions nobody has asked for are asked for now.
LEMMA CollectHolds ==
    ASSUME NoticesInv, Throughout, NEW c \in Cadences, NEW ok \in BOOLEAN, CollectTenantAttention(c, ok)
    PROVE  DigestHolds(c)'
  <1> DEFINE d == digest[c]
             alone == site = "selfhost" /\ ~d.reported
             e == IF alone THEN Asked(d, Decision, ok, undecided) ELSE d
             f == [e EXCEPT !.at = "render"]
             w == throughout[c]
  <1>1. /\ digest'[c] = f /\ UNCHANGED <<site, phase, awaiting, undecided>>
        /\ d.at = "mappings" /\ d.next > Len(MailboxOrder)
    BY DEF CollectTenantAttention, NoticesInv, DigestOnly
  <1>2. /\ Shaped(d) /\ Tells(d, w) /\ w \subseteq Waiting
        /\ undecided \in BOOLEAN /\ site \in {"managed", "selfhost"}
    BY <1>1 DEF NoticesInv, DigestHolds, UnderWay, Reading
  <1>3. Grows(d, Asked(d, Decision, ok, undecided))
        /\ (undecided => Mentions(Asked(d, Decision, ok, undecided), Decision))
    BY <1>1, <1>2, AskedGrows DEF Reading
  <1>4. Decision \in w => undecided
    BY <1>2, NoticesAssumption DEF Waiting, Decision, Mailboxes
  <1>5. Grows(d, e) /\ (Decision \in w => Mentions(e, Decision))
    <2>1. CASE alone
      <3>1. e = Asked(d, Decision, ok, undecided)
        BY <2>1
      <3> HIDE DEF e
      <3> QED BY <1>3, <1>4, <3>1
    <2>2. CASE ~alone
      <3>1. e = d /\ (site = "managed" \/ d.reported = TRUE \/ d.reported)
        BY <1>2, <2>2
      <3>2. Decision \in w => Mentions(d, Decision)
        BY <1>1, <1>2, <3>1 DEF Tells
      <3> HIDE DEF e
      <3> QED BY <3>1, <3>2 DEF Grows
    <2> QED BY <2>1, <2>2
  <1> HIDE DEF e
  <1>6. /\ DOMAIN f = DOMAIN d /\ f.at = "render" /\ f.told = e.told /\ f.blind = e.blind
    BY <1>1, <1>2, <1>5 DEF Grows, Shaped, Reading
  <1> HIDE DEF f
  <1>7. Shaped(f)
    BY <1>1, <1>2, <1>6 DEF Shaped, Reading
  <1>8. \A x \in w : Mentions(d, x) \/ x = Decision
    <2> SUFFICES ASSUME NEW x \in w, x # Decision PROVE Mentions(d, x)
      OBVIOUS
    <2>1. PICK m \in Mailboxes, q \in Queues : x = <<m, q>>
      BY <1>2 DEF Waiting
    <2>2. PICK k \in DOMAIN MailboxOrder : m = MailboxOrder[k]
      BY DEF Mailboxes
    <2>3. k < d.next
      BY <1>1, <1>2, NoticesAssumption DEF Shaped, Reading
    <2> QED BY <1>1, <1>2, <2>1, <2>2, <2>3 DEF Tells
  <1>9. w \subseteq f.told \cup f.blind
    BY <1>5, <1>6, <1>8 DEF Grows, Mentions
  <1>10. Tells(f, w)
    BY <1>6, <1>9 DEF Tells, Reading
  <1>11. Waiting' = Waiting
    BY <1>1 DEF Waiting
  <1> QED BY <1>1, <1>6, <1>7, <1>10, <1>11, MovesOn DEF UnderWay, Reading

\* What is sent, or not sent, is what was read.
LEMMA EndsHolds ==
    ASSUME NoticesInv, Throughout, NEW c \in Cadences, digest[c].at \in {"render", "record"},
           NEW how \in {"quiet", "record", "failed", "sent"},
           DigestEnds(c, how), UNCHANGED <<site, phase, awaiting, undecided>>
    PROVE  DigestHolds(c)'
  <1> DEFINE d == digest[c]
             f == [at |-> how, since |-> d.since, told |-> d.told, blind |-> d.blind]
             w == throughout[c]
  <1>1. digest'[c] = f
    BY DEF DigestEnds, NoticesInv
  <1>2. Shaped(d) /\ Tells(d, w)
    BY DEF NoticesInv, DigestHolds
  <1>3. f.at = how /\ f.told = d.told /\ f.blind = d.blind /\ {"at", "told", "blind"} \subseteq DOMAIN f
    OBVIOUS
  <1> HIDE DEF f
  <1>4. Shaped(f) /\ Tells(f, w)
    BY <1>2, <1>3 DEF Shaped, Tells, Reading
  <1>5. Waiting' = Waiting
    BY DEF Waiting
  <1> QED BY <1>1, <1>3, <1>4, <1>5, MovesOn DEF UnderWay, Reading

\* The process dies under a digest, or the day is over: nothing is said to have
\* been told.
LEMMA OverHolds ==
    ASSUME NoticesInv, NEW c \in Cadences, Shaped(digest'[c]), digest'[c].at \in {"none", "failed"}
    PROVE  DigestHolds(c)'
  BY DEF DigestHolds, Shaped, Tells, Reading, UnderWay

\* Every step of the digests and of what they report on keeps the invariant.
LEMMA NoticesStep == NoticesInv /\ [NoticesNext]_noticesVars => NoticesInv'
  <1> SUFFICES ASSUME NoticesInv, [NoticesNext]_noticesVars PROVE NoticesInv'
    OBVIOUS
  <1>0. DOMAIN digest = Cadences /\ \A c \in Cadences : DigestHolds(c)
    BY DEF NoticesInv
  <1>1. CASE UNCHANGED noticesVars
    <2>1. \A c \in Cadences : DigestHolds(c)'
      BY <1>0, <1>1 DEF noticesVars, DigestHolds, Shaped, Tells, Waiting
    <2> QED BY <1>1, <2>1 DEF NoticesInv, noticesVars
  <1>2. ASSUME Throughout, UNCHANGED digest, UNCHANGED site, undecided' \in BOOLEAN PROVE NoticesInv'
    BY <1>2, LeftAlone DEF NoticesInv
  <1>3. ASSUME Throughout, NEW c \in Cadences,
               \/ DigestBegins(c)
               \/ \E ok \in BOOLEAN : \/ CountPendingDecisions(c, ok) \/ LastDigestSentAt(c, ok)
                                      \/ CollectTenantAttention(c, ok) \/ SendDigest(c, ok)
                                      \/ RecordDigestSent(c, ok)
               \/ \E unread \in Unreadable : ReadMailbox(c, unread)
        PROVE  NoticesInv'
    <2>1. UNCHANGED <<site, phase, awaiting, undecided>>
      BY <1>3 DEF DigestBegins, CountPendingDecisions, LastDigestSentAt, CollectTenantAttention, SendDigest,
                  RecordDigestSent, ReadMailbox, DigestOnly
    <2>2. PICK f : digest' = [digest EXCEPT ![c] = f]
      BY <1>3 DEF DigestBegins, CountPendingDecisions, LastDigestSentAt, CollectTenantAttention, SendDigest,
                  RecordDigestSent, ReadMailbox, DigestEnds
    <2>3. DOMAIN digest' = Cadences /\ \A b \in Cadences \ {c} : digest'[b] = digest[b]
      BY <1>0, <2>2
    <2>4. ASSUME NEW ok \in BOOLEAN, SendDigest(c, ok) PROVE DigestHolds(c)'
      <3>1. PICK how \in {"quiet", "record", "failed"} : DigestEnds(c, how)
        BY <2>4 DEF SendDigest
      <3> QED BY <1>3, <2>1, <2>4, <3>1, EndsHolds DEF SendDigest
    <2>5. ASSUME NEW ok \in BOOLEAN, RecordDigestSent(c, ok) PROVE DigestHolds(c)'
      BY <1>3, <2>1, <2>5, EndsHolds DEF RecordDigestSent
    <2>6. DigestHolds(c)'
      BY <1>3, <2>4, <2>5, BeginsHolds, CountHolds, WindowHolds, CollectHolds, ReadHolds
    <2>7. \A b \in Cadences \ {c} : DigestHolds(b)'
      BY <1>3, <2>1, <2>3, LeftAlone
    <2> QED BY <2>1, <2>3, <2>6, <2>7 DEF NoticesInv
  <1>4. ASSUME Throughout, DigestDies PROVE NoticesInv'
    <2>1. DOMAIN digest' = Cadences /\ UNCHANGED <<site, undecided>>
      BY <1>4 DEF DigestDies
    <2>2. ASSUME NEW c \in Cadences PROVE DigestHolds(c)'
      <3>1. CASE digest'[c] = digest[c]
        BY <1>4, <2>1, <3>1, LeftAlone
      <3>2. CASE digest'[c] = [at |-> "failed", told |-> {}, blind |-> {}]
        <4>1. Shaped(digest'[c]) /\ digest'[c].at = "failed"
          BY <3>2 DEF Shaped, Reading
        <4> QED BY <4>1, OverHolds
      <3> QED BY <1>4, <2>2, <3>1, <3>2 DEF DigestDies
    <2> QED BY <2>1, <2>2 DEF NoticesInv
  <1>5. ASSUME NewDay PROVE NoticesInv'
    <2>1. DOMAIN digest' = Cadences /\ UNCHANGED <<site, undecided>>
      BY <1>5 DEF NewDay
    <2>2. ASSUME NEW c \in Cadences PROVE DigestHolds(c)'
      <3>1. Shaped(digest'[c]) /\ digest'[c].at = "none"
        BY <1>5 DEF NewDay, NoDigest, Shaped, Reading
      <3> QED BY <3>1, OverHolds
    <2> QED BY <2>1, <2>2 DEF NoticesInv
  <1>6. ASSUME Throughout,
               \/ \E failed \in BOOLEAN : FailureStreakRecord(failed)
               \/ \E m \in Mailboxes : \/ \E q \in Queues : QueueChanges(m, q)
                                       \/ FinishMailbox(m) \/ AutoApplied(m)
               \/ DecisionsChange
               \/ \E p \in {"off", "daily", "weekly"} : PutNotifications(p)
        PROVE  NoticesInv'
    BY <1>2, <1>6 DEF FailureStreakRecord, QueueChanges, FinishMailbox, AutoApplied, DecisionsChange,
                      PutNotifications, Stir, NoticesInv
  <1> QED BY <1>1, <1>3, <1>4, <1>5, <1>6 DEF NoticesNext

\* For any number of mappings and queues, whatever changes under a digest and
\* whichever of its reads fail: what waited all along is told or named as unread.
THEOREM DigestsMissNothing == NoticesSpec => []DigestMissesNothing
  <1>1. NoticesInv => DigestMissesNothing
    BY DEF NoticesInv, DigestHolds, Tells, DigestMissesNothing
  <1> QED BY <1>1, NoticesInitially, NoticesStep, PTL DEF NoticesSpec

-----------------------------------------------------------------------------
(* The verification gate.                                                  *)

\* One item is more than 1 %.
SmallMapping == IsFiniteSet(Items) /\ Cardinality(Items) < 100

Bad == {"FAIL", "NOT_VERIFIABLE"}
Counted == {"known", "relisted", "sampled", "compared"}
Measuring == {"recorded", "listed"} \cup Counted
RunFields == {"state", "at", "done", "type", "count", "keys", "missing", "extra", "sample", "results"}

\* Something of type t is in a, what has been gone ever since a run began.
Affects(a, t) == \E i \in a : typeOf[i] = t

\* What a run under way has to show of a: a bad verdict for every type it is done
\* with, a missing item for the type whose items it has looked for, and before
\* that at least the item's key.
Sound(c, a) ==
    /\ "state" \in DOMAIN c
    /\ IF c.state = "none" THEN c = NoRun ELSE RunFields \subseteq DOMAIN c
    /\ c.state = "running" =>
          /\ DOMAIN c.results = Types
          /\ \A t \in c.done : Affects(a, t) => c.results[t].status \in Bad
          /\ c.at \in Measuring => c.count \in 0 .. 99 /\ (Affects(a, c.type) => c.count >= 1)
          /\ c.at = "listed" => c.keys \subseteq Items /\ \A i \in a : typeOf[i] = c.type => i \in c.keys
          /\ c.at \in Counted => c.missing \in Nat /\ (Affects(a, c.type) => c.missing >= 1)
    /\ c.state = "done" /\ a # {} => \E t \in Types : c.results[t].status \in Bad

GateInv ==
    /\ DOMAIN run = Runs
    /\ enabled \subseteq Types
    /\ \A r \in Runs : Sound(run[r], amiss[r]) /\ (run[r].state = "running" => amiss[r] \subseteq Gone)

\* Whatever is no longer gone, or left behind since, is no longer asked for.
LEMMA SoundOfLess ==
    ASSUME NEW c, NEW a, NEW b, b \subseteq a, Sound(c, a)
    PROVE  Sound(c, b)
  BY DEF Sound, Affects

\* No run is under way at first.
LEMMA GateInitially == VerificationInit => GateInv
  BY DEF VerificationInit, GateInv, Sound, NoRun

\* A run that a step leaves alone.
LEMMA LeftRunning ==
    ASSUME GateInv, StillAmiss, NEW r \in Runs, run'[r] = run[r]
    PROVE  Sound(run'[r], amiss'[r]) /\ (run'[r].state = "running" => amiss'[r] \subseteq Gone')
  <1>1. Sound(run[r], amiss[r])
    BY DEF GateInv
  <1>2. amiss'[r] = IF run'[r].state # "running" THEN amiss[r]
                    ELSE IF run[r].state = "running" THEN amiss[r] \cap Gone' ELSE Gone'
    BY DEF StillAmiss
  <1>3. amiss'[r] \subseteq amiss[r]
    BY <1>2
  <1> QED BY <1>1, <1>2, <1>3, SoundOfLess

\* A run that goes on: enough that what it shows is right of all that was gone so far.
LEMMA GoesOn ==
    ASSUME GateInv, StillAmiss, NEW r \in Runs, run[r].state = "running", NEW c, run'[r] = c,
           Sound(c, amiss[r])
    PROVE  Sound(run'[r], amiss'[r]) /\ (run'[r].state = "running" => amiss'[r] \subseteq Gone')
  <1>1. amiss'[r] = IF run'[r].state # "running" THEN amiss[r]
                    ELSE IF run[r].state = "running" THEN amiss[r] \cap Gone' ELSE Gone'
    BY DEF StillAmiss
  <1>2. amiss'[r] \subseteq amiss[r]
    BY <1>1
  <1> QED BY <1>1, <1>2, SoundOfLess

\* A run that begins, or is failed at once.
LEMMA BegunSound ==
    ASSUME NEW a, NEW c \in {Begun, [Begun EXCEPT !.state = "failed"]}
    PROVE  Sound(c, a)
  <1>1. CASE c = Begun
    BY <1>1 DEF Sound, Begun, RunFields, Measuring, Counted
  <1>2. CASE c = [Begun EXCEPT !.state = "failed"]
    BY <1>2 DEF Sound, Begun, RunFields
  <1> QED BY <1>1, <1>2

\* A run that begins has nothing to show yet.
LEMMA Begins ==
    ASSUME GateInv, StillAmiss, NEW r \in Runs, NEW c \in {Begun, [Begun EXCEPT !.state = "failed"]},
           run'[r] = c
    PROVE  Sound(run'[r], amiss'[r]) /\ (run'[r].state = "running" => amiss'[r] \subseteq Gone')
  <1>1. amiss'[r] = IF run'[r].state # "running" THEN amiss[r]
                    ELSE IF run[r].state = "running" THEN amiss[r] \cap Gone' ELSE Gone'
    BY DEF StillAmiss
  <1> QED BY <1>1, BegunSound

\* What is gone is recorded, is not listed, and is of a type in scope.
LEMMA GoneIs ==
    ASSUME NEW i \in Gone
    PROVE  i \in Items /\ i \in getAllNaturalKeyHashes(typeOf[i]) /\ i \notin listEntries(typeOf[i])
           /\ typeOf[i] \in enabled
  BY DEF Gone, getAllNaturalKeyHashes, listEntries

\* A count is less than 100, and not 0 when something is counted.
LEMMA Counts ==
    ASSUME SmallMapping, NEW S, S \subseteq Items
    PROVE  Cardinality(S) \in 0 .. 99 /\ (S # {} => Cardinality(S) >= 1)
  <1>1. IsFiniteSet(S) /\ Cardinality(S) <= Cardinality(Items) /\ Cardinality(Items) \in Nat /\ Cardinality(S) \in Nat
    BY FS_Subset, FS_CardinalityType DEF SmallMapping
  <1>2. S # {} => Cardinality(S) # 0
    BY <1>1, FS_EmptySet
  <1> QED BY <1>1, <1>2 DEF SmallMapping

\* A type is skipped, or begun: it is not skipped, and does not count nothing, when
\* something of it is gone.
LEMMA VerifyDomainSound ==
    ASSUME SmallMapping, GateInv, NEW r \in Runs, VerifyDomain(r)
    PROVE  Sound(run'[r], amiss[r])
  <1> DEFINE c == run[r]
             t == TypeOrder[CHOOSE k \in Left(r) : \A m \in Left(r) : k <= m]
             skip(status) == [c EXCEPT !.done = c.done \cup {t}, !.results = [c.results EXCEPT ![t] = notMeasured(status)]]
             start == [c EXCEPT !.at = "recorded", !.type = t, !.count = countItems(t)]
             a == amiss[r]
  <1>1. /\ Sound(c, a) /\ c.state = "running" /\ c.at = "next" /\ a \subseteq Gone
        /\ RunFields \subseteq DOMAIN c /\ DOMAIN c.results = Types
    BY DEF VerifyDomain, Step, GateInv, Sound
  <1>2. \A i \in a : i \in Items /\ typeOf[i] \in Types /\ typeOf[i] \in enabled
    BY <1>1, GoneIs, VerificationAssumption
  <1> HIDE DEF t
  <1>3. \/ t \notin enabled /\ run'[r] = skip("SKIPPED")
        \/ run'[r] = skip(IF countItems(t) = 0 THEN "SKIPPED" ELSE "NOT_VERIFIABLE")
        \/ run'[r] = start
    <2> DEFINE skipped(status) == [run EXCEPT ![r].done = @ \cup {t}, ![r].results[t] = notMeasured(status)]
    <2>1. \/ t \notin enabled /\ run' = skipped("SKIPPED")
          \/ run' = skipped(IF countItems(t) = 0 THEN "SKIPPED" ELSE "NOT_VERIFIABLE")
          \/ run' = [run EXCEPT ![r].at = "recorded", ![r].type = t, ![r].count = countItems(t)]
      BY Zenon DEF VerifyDomain, t
    <2>2. \A status : skipped(status)[r] = skip(status)
      BY DEF GateInv
    <2>3. [run EXCEPT ![r].at = "recorded", ![r].type = t, ![r].count = countItems(t)][r] = start
      BY DEF GateInv
    <2> HIDE DEF skipped, skip, start
    <2> QED BY <2>1, <2>2, <2>3
  <1>4. Affects(a, t) => t \in enabled /\ t \in Types /\ countItems(t) # 0 /\ countItems(t) >= 1
    <2> SUFFICES ASSUME NEW i \in a, typeOf[i] = t
                 PROVE  t \in enabled /\ t \in Types /\ countItems(t) # 0 /\ countItems(t) >= 1
      BY DEF Affects
    <2>1. i \in getAllNaturalKeyHashes(t) /\ getAllNaturalKeyHashes(t) \subseteq Items
      BY <1>1, GoneIs DEF getAllNaturalKeyHashes
    <2>2. countItems(t) \in 0 .. 99 /\ countItems(t) >= 1
      BY <2>1, Counts DEF countItems
    <2> QED BY <1>2, <2>2
  <1>5. ASSUME NEW status \in {"SKIPPED", "NOT_VERIFIABLE"}, Affects(a, t) => status = "NOT_VERIFIABLE"
        PROVE  Sound(skip(status), a)
    <2>1. /\ DOMAIN skip(status) = DOMAIN c /\ skip(status).done = c.done \cup {t} /\ skip(status).state = "running"
          /\ skip(status).at = "next" /\ skip(status).results = [c.results EXCEPT ![t] = notMeasured(status)]
      BY <1>1 DEF RunFields
    <2>2. DOMAIN skip(status).results = Types
      BY <1>1, <2>1
    <2>3. ASSUME NEW u \in skip(status).done, Affects(a, u) PROVE skip(status).results[u].status \in Bad
      <3>1. u \in Types
        BY <1>2, <2>3 DEF Affects
      <3>2. CASE u = t
        <4>1. skip(status).results[u] = notMeasured(status)
          BY <1>1, <2>1, <3>1, <3>2
        <4> QED BY <1>5, <2>3, <3>2, <4>1 DEF notMeasured, Bad
      <3>3. CASE u # t
        BY <1>1, <2>1, <2>3, <3>1, <3>3 DEF Sound
      <3> QED BY <3>2, <3>3
    <2> QED BY <1>1, <2>1, <2>2, <2>3 DEF Sound, Measuring, Counted
  <1>6. Sound(start, a)
    <2>1. countItems(t) \in 0 .. 99
      BY Counts DEF countItems, getAllNaturalKeyHashes
    <2>2. /\ DOMAIN start = DOMAIN c /\ start.done = c.done /\ start.state = "running" /\ start.at = "recorded"
          /\ start.type = t /\ start.count = countItems(t) /\ start.results = c.results
      BY <1>1 DEF RunFields
    <2> HIDE DEF start
    <2> QED BY <1>1, <1>4, <2>1, <2>2 DEF Sound, Counted
  <1> QED BY <1>3, <1>4, <1>5, <1>6

\* The recorded keys are read: what is gone is among them.
LEMMA ReadForMissingSound ==
    ASSUME GateInv, NEW r \in Runs, ReadForMissing(r)
    PROVE  Sound(run'[r], amiss[r])
  <1> DEFINE c == run[r]
             d == [c EXCEPT !.at = "listed", !.keys = getAllNaturalKeyHashes(c.type)]
             a == amiss[r]
  <1>1. /\ Sound(c, a) /\ c.state = "running" /\ c.at = "recorded" /\ a \subseteq Gone
        /\ RunFields \subseteq DOMAIN c
    BY DEF ReadForMissing, Step, GateInv, Sound
  <1>2. run'[r] = d
    BY DEF ReadForMissing, GateInv
  <1>3. /\ DOMAIN d = DOMAIN c /\ d.done = c.done /\ d.state = "running" /\ d.at = "listed" /\ d.type = c.type
        /\ d.keys = getAllNaturalKeyHashes(c.type) /\ d.count = c.count /\ d.results = c.results
    BY <1>1 DEF RunFields
  <1> HIDE DEF d
  <1>4. d.keys \subseteq Items /\ \A i \in a : typeOf[i] = d.type => i \in d.keys
    BY <1>1, <1>3, GoneIs DEF getAllNaturalKeyHashes
  <1> QED BY <1>1, <1>2, <1>3, <1>4 DEF Sound, Measuring, Counted

\* The target is listed: what is gone is missing.
LEMMA FindMissingSound ==
    ASSUME SmallMapping, GateInv, NEW r \in Runs, FindMissingOnTarget(r)
    PROVE  Sound(run'[r], amiss[r])
  <1> DEFINE c == run[r]
             d == [c EXCEPT !.at = "known", !.missing = MissingFrom(r), !.keys = {}]
             a == amiss[r]
  <1>1. /\ Sound(c, a) /\ c.state = "running" /\ c.at = "listed" /\ a \subseteq Gone
        /\ RunFields \subseteq DOMAIN c
    BY DEF FindMissingOnTarget, Step, GateInv, Sound
  <1>2. run'[r] = d
    BY DEF FindMissingOnTarget, GateInv
  <1>3. /\ DOMAIN d = DOMAIN c /\ d.done = c.done /\ d.state = "running" /\ d.at = "known" /\ d.type = c.type
        /\ d.missing = MissingFrom(r) /\ d.count = c.count /\ d.results = c.results
    BY <1>1 DEF RunFields
  <1> HIDE DEF d
  <1>4. MissingFrom(r) \in Nat /\ (Affects(a, c.type) => MissingFrom(r) >= 1)
    <2> DEFINE S == c.keys \ listEntries(c.type)
    <2>1. S \subseteq Items
      BY <1>1 DEF Sound
    <2>2. Affects(a, c.type) => S # {}
      BY <1>1, GoneIs DEF Sound, Affects
    <2> HIDE DEF S
    <2>3. Cardinality(S) \in 0 .. 99 /\ (S # {} => Cardinality(S) >= 1)
      BY <2>1, Counts
    <2> QED BY <2>2, <2>3 DEF MissingFrom, S
  <1> QED BY <1>1, <1>2, <1>3, <1>4 DEF Sound, Measuring, Counted

\* The extra items and the sample decide nothing about what is missing.
LEMMA MeasuresOn ==
    ASSUME NEW c, NEW a, NEW d, Sound(c, a), c.state = "running", c.at \in Counted, d.at \in Counted,
           DOMAIN d = DOMAIN c, d.state = c.state, d.done = c.done, d.type = c.type,
           d.missing = c.missing, d.count = c.count, d.results = c.results
    PROVE  Sound(d, a)
  BY DEF Sound, Counted, Measuring

\* Looking for extra items and sampling leave the count and the missing items alone.
LEMMA MeasuringSound ==
    ASSUME GateInv, NEW r \in Runs, ReadForExtra(r) \/ FindExtraOnTarget(r) \/ GetSourceSamples(r)
    PROVE  Sound(run'[r], amiss[r])
  <1> DEFINE c == run[r]
  <1>1. Sound(c, amiss[r]) /\ c.state = "running" /\ c.at \in Counted /\ RunFields \subseteq DOMAIN c
    BY DEF ReadForExtra, FindExtraOnTarget, GetSourceSamples, Step, GateInv, Sound, Counted
  <1>2. CASE ReadForExtra(r)
    <2> DEFINE d == [c EXCEPT !.at = "relisted", !.keys = getAllNaturalKeyHashes(c.type)]
    <2>1. run'[r] = d
      BY <1>2 DEF ReadForExtra, GateInv
    <2>2. /\ DOMAIN d = DOMAIN c /\ d.state = c.state /\ d.done = c.done /\ d.type = c.type /\ d.at = "relisted"
          /\ d.missing = c.missing /\ d.count = c.count /\ d.results = c.results
      BY <1>1 DEF RunFields
    <2> HIDE DEF d
    <2> QED BY <1>1, <2>1, <2>2, MeasuresOn DEF Counted
  <1>3. CASE FindExtraOnTarget(r)
    <2> DEFINE x == IF c.keys = {} THEN 0 ELSE Cardinality(listEntries(c.type) \ c.keys)
               d == [c EXCEPT !.at = "sampled", !.keys = {}, !.extra = x]
    <2> HIDE DEF x
    <2>1. run'[r] = d
      BY <1>3 DEF FindExtraOnTarget, GateInv, x
    <2>2. /\ DOMAIN d = DOMAIN c /\ d.state = c.state /\ d.done = c.done /\ d.type = c.type /\ d.at = "sampled"
          /\ d.missing = c.missing /\ d.count = c.count /\ d.results = c.results
      BY <1>1 DEF RunFields
    <2> HIDE DEF d
    <2> QED BY <1>1, <2>1, <2>2, MeasuresOn DEF Counted
  <1>4. CASE GetSourceSamples(r)
    <2>1. PICK s : run' = [run EXCEPT ![r].at = "compared", ![r].sample = s]
      BY <1>4 DEF GetSourceSamples
    <2> DEFINE d == [c EXCEPT !.at = "compared", !.sample = s]
    <2>2. run'[r] = d
      BY <2>1 DEF GateInv
    <2>3. /\ DOMAIN d = DOMAIN c /\ d.state = c.state /\ d.done = c.done /\ d.type = c.type /\ d.at = "compared"
          /\ d.missing = c.missing /\ d.count = c.count /\ d.results = c.results
      BY <1>1 DEF RunFields
    <2> HIDE DEF d
    <2> QED BY <1>1, <2>2, <2>3, MeasuresOn DEF Counted
  <1> QED BY <1>2, <1>3, <1>4

\* One missing item of fewer than a hundred fails its type.
LEMMA OneMissingFails ==
    ASSUME NEW count \in 1 .. 99, NEW missing \in Nat, missing >= 1, NEW extra, NEW matches, NEW mismatches
    PROVE  determineVerificationStatus(count, missing, extra, matches, mismatches) = "FAIL"
  BY DEF determineVerificationStatus

\* A type is done: a missing item makes its verdict bad.
LEMMA CompareSound ==
    ASSUME GateInv, NEW r \in Runs, CompareSamples(r)
    PROVE  Sound(run'[r], amiss[r])
  <1> DEFINE c == run[r]
             t == c.type
             matches == Cardinality(checksumMatches(t, c.sample))
             mismatches == Cardinality(checksumMismatches(t, c.sample))
             status == determineVerificationStatus(c.count, c.missing, c.extra, matches, mismatches)
             verdict == measuredAs(status, Score(c.count, c.missing, matches, mismatches))
             d == [c EXCEPT !.at = "next", !.done = c.done \cup {t}, !.results = [c.results EXCEPT ![t] = verdict],
                            !.count = 0, !.missing = 0, !.extra = 0, !.sample = <<>>]
             a == amiss[r]
  <1>1. /\ Sound(c, a) /\ c.state = "running" /\ c.at = "compared" /\ a \subseteq Gone
        /\ RunFields \subseteq DOMAIN c /\ DOMAIN c.results = Types
    BY DEF CompareSamples, Step, GateInv, Sound
  <1>2. Affects(a, t) => verdict.status = "FAIL"
    <2> SUFFICES ASSUME Affects(a, t) PROVE verdict.status = "FAIL"
      OBVIOUS
    <2>1. c.count \in 1 .. 99 /\ c.missing \in Nat /\ c.missing >= 1
      BY <1>1 DEF Sound, Counted, Measuring
    <2> HIDE DEF matches, mismatches
    <2>2. status = "FAIL"
      BY <2>1, OneMissingFails
    <2> HIDE DEF status
    <2> QED BY <2>2 DEF measuredAs
  <1> HIDE DEF verdict
  <1>3. run'[r] = d
    BY DEF CompareSamples, GateInv, verdict
  <1>4. /\ DOMAIN d = DOMAIN c /\ d.state = "running" /\ d.at = "next" /\ d.done = c.done \cup {t}
        /\ d.results = [c.results EXCEPT ![t] = verdict]
    BY <1>1 DEF RunFields
  <1> HIDE DEF d
  <1>5. DOMAIN d.results = Types
    BY <1>1, <1>4
  <1>6. ASSUME NEW u \in d.done, Affects(a, u) PROVE d.results[u].status \in Bad
    <2>1. u \in Types
      BY <1>1, <1>6, GoneIs, VerificationAssumption DEF Affects
    <2>2. CASE u = t
      BY <1>1, <1>2, <1>4, <1>6, <2>1, <2>2 DEF Bad
    <2>3. CASE u # t
      BY <1>1, <1>4, <1>6, <2>1, <2>3 DEF Sound
    <2> QED BY <2>2, <2>3
  <1> QED BY <1>1, <1>3, <1>4, <1>5, <1>6 DEF Sound, Measuring, Counted

\* All types are done.
LEMMA LandSound ==
    ASSUME GateInv, NEW r \in Runs, LandRun(r)
    PROVE  Sound(run'[r], amiss[r])
  <1> DEFINE c == run[r]
             d == [c EXCEPT !.state = "done"]
             a == amiss[r]
  <1>1. /\ Sound(c, a) /\ c.state = "running" /\ a \subseteq Gone /\ RunFields \subseteq DOMAIN c
        /\ Left(r) = {}
    BY DEF LandRun, Step, GateInv, Sound
  <1>2. run'[r] = d
    BY DEF LandRun, GateInv
  <1>3. DOMAIN d = DOMAIN c /\ d.state = "done" /\ d.results = c.results
    BY <1>1 DEF RunFields
  <1>4. \A t \in Types : t \in c.done
    BY <1>1, VerificationAssumption DEF Left
  <1>5. ASSUME NEW i \in a PROVE \E t \in Types : c.results[t].status \in Bad
    <2>1. typeOf[i] \in Types
      BY <1>1, GoneIs, VerificationAssumption
    <2>2. Affects(a, typeOf[i])
      BY DEF Affects
    <2> QED BY <1>1, <1>4, <2>1, <2>2 DEF Sound
  <1> HIDE DEF d
  <1> QED BY <1>1, <1>2, <1>3, <1>5 DEF Sound

\* A run that fails, or whose worker dies, shows nothing more.
LEMMA OverSound ==
    ASSUME GateInv, NEW r \in Runs, run[r].state # "none",
           NEW state \in {"running", "failed", "forgotten"}, NEW at,
           state = "running" => at = "dead" /\ run[r].state = "running",
           NEW d, d = [run[r] EXCEPT !.state = state, !.at = at]
    PROVE  Sound(d, amiss[r])
  <1>1. Sound(run[r], amiss[r]) /\ RunFields \subseteq DOMAIN run[r]
    BY DEF GateInv, Sound
  <1>2. /\ DOMAIN d = DOMAIN run[r] /\ d.state = state /\ d.at = at /\ d.done = run[r].done
        /\ d.results = run[r].results
    BY <1>1 DEF RunFields
  <1> QED BY <1>1, <1>2 DEF Sound, Measuring, Counted

\* Every step of runs, passes and items keeps the invariant.
LEMMA GateStep ==
    ASSUME SmallMapping, GateInv, [VerificationNext]_gateVars
    PROVE  GateInv'
  <1> DEFINE Holds(r) == Sound(run'[r], amiss'[r]) /\ (run'[r].state = "running" => amiss'[r] \subseteq Gone')
  <1>0. DOMAIN run = Runs /\ enabled \subseteq Types
    BY DEF GateInv
  <1>1. CASE UNCHANGED gateVars
    BY <1>1 DEF GateInv, gateVars, Gone
  <1>2. SUFFICES ASSUME VerificationNext PROVE GateInv'
    BY <1>1
  <1>3. StillAmiss
    BY <1>2 DEF VerificationNext
  <1>4. ASSUME DOMAIN run' = Runs, enabled' = enabled, \A r \in Runs : Holds(r) PROVE GateInv'
    BY <1>0, <1>4 DEF GateInv
  <1> HIDE DEF Holds
  <1>5. ASSUME NEW r \in Runs, run'[r] = run[r] PROVE Holds(r)
    BY <1>3, <1>5, LeftRunning DEF Holds
  <1>6. ASSUME enabled' = enabled, run' = run PROVE GateInv'
    BY <1>0, <1>4, <1>5, <1>6
  <1>7. ASSUME NEW r, NEW c, enabled' = enabled, run' = [run EXCEPT ![r] = c], r \in Runs => Holds(r) PROVE GateInv'
    <2>1. DOMAIN run' = Runs /\ \A q \in Runs : q # r => run'[q] = run[q]
      BY <1>0, <1>7
    <2> QED BY <1>4, <1>5, <1>7, <2>1
  <1>8. ASSUME NEW o \in Operators, VerifyStartAsk(o) PROVE GateInv'
    BY <1>6, <1>8 DEF VerifyStartAsk
  <1>9. ASSUME NEW c \in {Begun, [Begun EXCEPT !.state = "failed"]}, enabled' = enabled,
               run' = [run EXCEPT ![Latest + 1] = c]
        PROVE  GateInv'
    <2>1. Latest + 1 \in Runs => run'[Latest + 1] = c
      BY <1>0, <1>9
    <2>2. Latest + 1 \in Runs => Holds(Latest + 1)
      BY <1>3, <2>1, Begins DEF Holds
    <2> QED BY <1>7, <1>9, <2>2
  <1>10. ASSUME NEW o \in Operators, NEW queued \in BOOLEAN, VerifyStartInsert(o, queued) PROVE GateInv'
    BY <1>9, <1>10 DEF VerifyStartInsert
  <1>11. CASE VerifyRunnerStart
    BY <1>9, <1>11 DEF VerifyRunnerStart
  <1>12. ASSUME NEW r \in Runs, Scan(r) PROVE GateInv'
    <2>1. Sound(run'[r], amiss[r])
      BY <1>12, VerifyDomainSound, ReadForMissingSound, FindMissingSound, MeasuringSound, CompareSound, LandSound
         DEF Scan
    <2>2. run[r].state = "running" /\ enabled' = enabled
      BY <1>12 DEF Scan, VerifyDomain, ReadForMissing, FindMissingOnTarget, ReadForExtra, FindExtraOnTarget,
                   GetSourceSamples, CompareSamples, LandRun, Step, RunOnly
    <2>3. Holds(r)
      BY <1>3, <2>1, <2>2, GoesOn DEF Holds
    <2>4. DOMAIN run' = Runs /\ \A q \in Runs : q # r => run'[q] = run[q]
      <3>1. CASE VerifyDomain(r)
        <4> DEFINE t == TypeOrder[CHOOSE k \in Left(r) : \A m \in Left(r) : k <= m]
                   skipped(status) == [run EXCEPT ![r].done = @ \cup {t}, ![r].results[t] = notMeasured(status)]
        <4> HIDE DEF t
        <4>1. \/ run' = skipped("SKIPPED")
              \/ run' = skipped(IF countItems(t) = 0 THEN "SKIPPED" ELSE "NOT_VERIFIABLE")
              \/ run' = [run EXCEPT ![r].at = "recorded", ![r].type = t, ![r].count = countItems(t)]
          BY <3>1, Zenon DEF VerifyDomain, t
        <4>2. \A status : DOMAIN skipped(status) = Runs /\ \A q \in Runs : q # r => skipped(status)[q] = run[q]
          BY <1>0
        <4>3. \A n : LET f == [run EXCEPT ![r].at = "recorded", ![r].type = t, ![r].count = n]
                     IN  DOMAIN f = Runs /\ \A q \in Runs : q # r => f[q] = run[q]
          BY <1>0
        <4> HIDE DEF skipped
        <4> QED BY <4>1, <4>2, <4>3
      <3>2. CASE CompareSamples(r)
        <4>1. PICK x, y : run' = [run EXCEPT ![r].at = "next", ![r].done = x, ![r].results[run[r].type] = y,
                                   ![r].count = 0, ![r].missing = 0, ![r].extra = 0, ![r].sample = <<>>]
          BY <3>2 DEF CompareSamples
        <4> QED BY <1>0, <4>1
      <3>3. CASE ReadForMissing(r) \/ FindMissingOnTarget(r) \/ ReadForExtra(r) \/ LandRun(r)
        BY <1>0, <3>3 DEF ReadForMissing, FindMissingOnTarget, ReadForExtra, LandRun
      <3>4. CASE FindExtraOnTarget(r) \/ GetSourceSamples(r)
        <4>1. \/ \E s : run' = [run EXCEPT ![r].at = "compared", ![r].sample = s]
              \/ \E x : run' = [run EXCEPT ![r].at = "sampled", ![r].keys = {}, ![r].extra = x]
          BY <3>4 DEF FindExtraOnTarget, GetSourceSamples
        <4> QED BY <1>0, <4>1
      <3> QED BY <1>12, <3>1, <3>2, <3>3, <3>4 DEF Scan
    <2> QED BY <1>4, <1>5, <2>2, <2>3, <2>4
  <1>13. ASSUME NEW r \in Runs, ScanFails(r) PROVE GateInv'
    <2> DEFINE d == [run[r] EXCEPT !.state = "failed", !.at = run[r].at]
    <2>1. run[r].state = "running" /\ enabled' = enabled
      BY <1>13 DEF ScanFails, RunOnly
    <2>2. RunFields \subseteq DOMAIN run[r]
      BY <2>1 DEF GateInv, Sound
    <2>3. run' = [run EXCEPT ![r] = d]
      BY <1>13, <2>2 DEF ScanFails, RunFields
    <2>4. Sound(d, amiss[r])
      BY <2>1, OverSound
    <2>5. run'[r] = d
      BY <1>0, <2>3
    <2>6. Holds(r)
      BY <1>3, <2>1, <2>4, <2>5, GoesOn DEF Holds
    <2> QED BY <1>7, <2>1, <2>3, <2>6
  <1>14. ASSUME NEW r \in Runs, Dies(r) PROVE GateInv'
    <2>1. run[r].state = "running" /\ enabled' = enabled
      BY <1>14 DEF Dies
    <2>2. CASE deployment = "managed"
      <3> DEFINE d == [run[r] EXCEPT !.state = "running", !.at = "dead"]
      <3>1. RunFields \subseteq DOMAIN run[r]
        BY <2>1 DEF GateInv, Sound
      <3>2. run' = [run EXCEPT ![r] = d]
        BY <1>14, <2>1, <2>2, <3>1 DEF Dies, RunFields
      <3>3. Sound(d, amiss[r])
        BY <2>1, OverSound
      <3>4. run'[r] = d
        BY <1>0, <3>2
      <3>5. Holds(r)
        BY <1>3, <2>1, <3>3, <3>4, GoesOn DEF Holds
      <3> QED BY <1>7, <2>1, <3>2, <3>5
    <2>3. CASE deployment # "managed"
      <3>1. run' = [q \in Runs |-> IF run[q] = NoRun THEN NoRun ELSE [run[q] EXCEPT !.state = "forgotten"]]
        BY <1>14, <2>3 DEF Dies
      <3>2. ASSUME NEW q \in Runs PROVE Holds(q)
        <4>1. CASE run[q] = NoRun
          BY <1>5, <3>1, <4>1
        <4>2. CASE run[q] # NoRun
          <5> DEFINE d == [run[q] EXCEPT !.state = "forgotten"]
          <5>1. run'[q] = d
            BY <3>1, <4>2
          <5>2. Sound(run[q], amiss[q])
            BY DEF GateInv
          <5>3. DOMAIN d = DOMAIN run[q] /\ d.state = "forgotten"
            BY <5>2 DEF Sound
          <5>4. Sound(d, amiss'[q])
            BY <4>2, <5>2, <5>3 DEF Sound
          <5> QED BY <5>1, <5>3, <5>4 DEF Holds
        <4> QED BY <4>1, <4>2
      <3>3. DOMAIN run' = Runs
        BY <3>1
      <3> QED BY <1>4, <2>1, <3>2, <3>3
    <2> QED BY <2>2, <2>3
  <1>15. ASSUME \/ \E i \in Items : \/ \E hash \in {"ours", "newer"} : PassWrites(i, hash)
                                    \/ PassFails(i) \/ Accept(i) \/ RemoveCopy(i)
                                    \/ \E to \in {"none", "theirs"} : TargetUser(i, to)
                \/ PassRecords \/ Tombstone
         PROVE  GateInv'
    BY <1>6, <1>15 DEF PassWrites, PassFails, Accept, RemoveCopy, TargetUser, PassRecords, Tombstone, Meanwhile
  <1> QED BY <1>2, <1>8, <1>10, <1>11, <1>12, <1>13, <1>14, <1>15 DEF VerificationNext

\* In a mapping of fewer than a hundred items, of any types, and whatever passes,
\* owners and users of the target do while a run asks its questions: it lets no
\* cutover go ahead over a recorded item whose copy was gone all along.
THEOREM GateAlwaysHolds == ASSUME SmallMapping PROVE VerificationSpec => []GateHolds
  <1>1. GateInv /\ [VerificationNext]_gateVars => GateInv'
    BY GateStep
  <1>2. GateInv => GateHolds
    <2> SUFFICES ASSUME GateInv, NEW r \in Runs, run[r].state = "done", amiss[r] # {}
                 PROVE  ~canProceedToCutover(run[r].results)
      BY DEF GateHolds
    <2>1. PICK t \in Types : run[r].results[t].status \in Bad
      BY DEF GateInv, Sound
    <2>2. calculateOverallStatus(run[r].results) = "FAIL"
      BY <2>1 DEF calculateOverallStatus, Bad
    <2> QED BY <2>2 DEF canProceedToCutover
  <1> QED BY <1>1, <1>2, GateInitially, PTL DEF VerificationSpec

-----------------------------------------------------------------------------
(* Decisions: what the owner has dismissed stays dismissed.                *)

\* A pass under way.
Underway == [at: {"list", "known", "preset", "loop", "raise", "read", "again", "close"},
             kind: {"mailboxes", "groups"}, covered: SUBSET Addresses, incomplete: BOOLEAN,
             listing: SUBSET Addresses, spared: SUBSET Subjects, preset: {"auto", "ask"},
             todo: SUBSET Subjects, subject: Subjects \cup {"none"}, id: Nat]

\* What a pass has still to ask about was neither dismissed nor covered when it began,
\* and the subject it is asking about is among it.
Spares(q) ==
    /\ q.spared \subseteq dismissed
    /\ q.todo \cap Addresses \cap (q.spared \cup q.covered) = {}
    /\ q.at \in {"raise", "read", "again"} => q.subject \in q.todo

\* The types, and that every pass under way spares what it found dismissed.
DecisionsInv ==
    /\ pending \in [Subjects -> Nat] /\ rows \in Nat
    /\ directory \subseteq Addresses /\ covered \subseteq Addresses /\ unstated \in BOOLEAN
    /\ dismissed \subseteq Subjects /\ preset \in {"auto", "ask"}
    /\ pass \in [Passes -> {NotBegun, Over} \cup Underway]
    /\ \A p \in Passes : pass[p] \in Underway => Spares(pass[p])

\* At first no pass is under way.
LEMMA DecisionsInvInit == DecisionsInit => DecisionsInv
  BY DEF DecisionsInit, DecisionsInv, Underway, NotBegun, Over

\* A pass that moves on does so within its bounds.
LEMMA PassMoves ==
    ASSUME DecisionsInv, NEW p \in Passes, NEW q \in {NotBegun, Over} \cup Underway,
           pass' = [pass EXCEPT ![p] = q], q \in Underway => Spares(q),
           UNCHANGED <<directory, covered, unstated, dismissed, preset>>,
           pending' \in [Subjects -> Nat], rows' \in Nat
    PROVE  DecisionsInv'
  BY DEF DecisionsInv, Spares

\* It is under way, where it is.
LEMMA AtStep ==
    ASSUME DecisionsInv, NEW p \in Passes, pass[p].at \notin {"none", "over"}
    PROVE  pass[p] \in Underway /\ Spares(pass[p])
  BY DEF DecisionsInv, NotBegun, Over

\* The next subject.
LEMMA NextSubject ==
    ASSUME DecisionsInv, NEW p \in Passes, pass[p].at \notin {"none", "over"}
    PROVE  Next1(p) \in Underway /\ Spares(Next1(p)) /\ Next1(p).at = "loop"
  BY AtStep DEF Next1, Underway, Spares

\* What `raise` found: its own row to close, or the next subject.
LEMMA RaisedIs ==
    ASSUME DecisionsInv, NEW p \in Passes, pass[p].at \notin {"none", "over"}
    PROVE  Raised(p) \in Underway /\ Spares(Raised(p)) /\ Raised(p).at \in {"loop", "close"}
  <1>1. rows \in Nat /\ pass[p] \in Underway /\ Spares(pass[p])
    BY AtStep DEF DecisionsInv
  <1>2. CASE Raised(p) = Next1(p)
    BY <1>2, NextSubject
  <1>3. CASE Raised(p) = [pass[p] EXCEPT !.at = "close", !.id = rows + 1]
    <2>1. PICK n \in Nat : n = rows + 1
      BY <1>1
    <2>2. PICK q : q = [pass[p] EXCEPT !.at = "close", !.id = n]
      OBVIOUS
    <2>3. /\ q \in Underway /\ q.at = "close"
          /\ q.spared = pass[p].spared /\ q.todo = pass[p].todo /\ q.covered = pass[p].covered
      BY <1>1, <2>2 DEF Underway
    <2> QED BY <1>1, <1>3, <2>1, <2>2, <2>3 DEF Spares
  <1> QED BY <1>2, <1>3 DEF Raised

\* A row of its own.
LEMMA Inserted ==
    ASSUME DecisionsInv, NEW s \in Subjects, InsertRow(s)
    PROVE  pending' \in [Subjects -> Nat] /\ rows' \in Nat
           /\ \A a \in Subjects : a # s => pending'[a] = pending[a]
  BY DEF DecisionsInv, InsertRow

\* Every step keeps the invariant.
LEMMA DecisionsInvStep ==
    ASSUME DecisionsInv, [DecisionsNext]_decisionVars
    PROVE  DecisionsInv'
  <1>0. /\ pending \in [Subjects -> Nat] /\ rows \in Nat
        /\ directory \subseteq Addresses /\ covered \subseteq Addresses /\ unstated \in BOOLEAN
        /\ dismissed \subseteq Subjects /\ preset \in {"auto", "ask"}
        /\ pass \in [Passes -> {NotBegun, Over} \cup Underway]
    BY DEF DecisionsInv
  <1>1. CASE UNCHANGED decisionVars
    BY <1>1 DEF decisionVars, DecisionsInv, Spares
  <1>2. ASSUME NEW p \in Passes, NEW kind \in {"mailboxes", "groups"}, PassBegins(p, kind)
        PROVE  DecisionsInv'
    <2>1. PassBeginning(kind) \in Underway /\ Spares(PassBeginning(kind))
      BY <1>0 DEF PassBeginning, Underway, Spares, Subjects
    <2> QED BY <1>0, <1>2, <2>1, PassMoves DEF PassBegins, directoryVars
  <1>3. ASSUME NEW p \in Passes, NEW answers \in BOOLEAN, ListTenantMailboxes(p, answers)
        PROVE  DecisionsInv'
    <2>1. pass[p] \in Underway /\ Spares(pass[p])
      BY <1>3, AtStep DEF ListTenantMailboxes
    <2> DEFINE q == IF answers THEN [pass[p] EXCEPT !.at = "known", !.listing = directory] ELSE Over
    <2>2. pass' = [pass EXCEPT ![p] = q]
      BY <1>0, <1>3, <2>1 DEF ListTenantMailboxes, BlindSpot, Underway
    <2>3. q \in {NotBegun, Over} \cup Underway /\ (q \in Underway => Spares(q))
      BY <1>0, <2>1 DEF Underway, Spares, Over
    <2> HIDE DEF q
    <2> QED BY <1>0, <1>3, <2>2, <2>3, PassMoves DEF ListTenantMailboxes, directoryVars
  <1>4. ASSUME NEW p \in Passes, NEW answers \in BOOLEAN, ListMailEnabledGroups(p, answers)
        PROVE  DecisionsInv'
    <2>1. pass[p] \in Underway /\ Spares(pass[p])
      BY <1>4, AtStep DEF ListMailEnabledGroups
    <2> DEFINE q == IF answers THEN [pass[p] EXCEPT !.at = "loop", !.todo = Groups] ELSE Over
    <2>2. pass' = [pass EXCEPT ![p] = q]
      BY <1>0, <1>4, <2>1 DEF ListMailEnabledGroups, BlindSpot, Underway
    <2>3. q \in {NotBegun, Over} \cup Underway /\ (q \in Underway => Spares(q))
      BY <1>0, <2>1, DecisionsAssumption DEF Underway, Spares, Over, Subjects
    <2> HIDE DEF q
    <2> QED BY <1>0, <1>4, <2>2, <2>3, PassMoves DEF ListMailEnabledGroups, directoryVars
  <1>5. ASSUME NEW p \in Passes, DetectNewMailboxes(p) PROVE DecisionsInv'
    <2>1. pass[p] \in Underway /\ Spares(pass[p])
      BY <1>5, AtStep DEF DetectNewMailboxes
    <2> DEFINE q == IF pass[p].incomplete THEN Over ELSE [pass[p] EXCEPT !.at = "preset", !.todo = Newcomers(p)]
    <2>2. pass' = [pass EXCEPT ![p] = q]
      BY <1>5 DEF DetectNewMailboxes
    <2>3. q \in {NotBegun, Over} \cup Underway /\ (q \in Underway => Spares(q))
      BY <1>0, <2>1 DEF Underway, Spares, Over, Newcomers, Subjects
    <2> HIDE DEF q
    <2> QED BY <1>0, <1>5, <2>2, <2>3, PassMoves DEF DetectNewMailboxes, directoryVars
  <1>6. ASSUME NEW p \in Passes, ReadPreset(p) PROVE DecisionsInv'
    <2>1. pass[p] \in Underway /\ Spares(pass[p])
      BY <1>6, AtStep DEF ReadPreset
    <2> DEFINE q == [pass[p] EXCEPT !.at = "loop", !.preset = preset]
    <2>2. pass' = [pass EXCEPT ![p] = q]
      BY <1>0, <1>6, <2>1 DEF ReadPreset, Underway
    <2>3. q \in Underway /\ Spares(q)
      BY <1>0, <2>1 DEF Underway, Spares
    <2> HIDE DEF q
    <2> QED BY <1>0, <1>6, <2>2, <2>3, PassMoves DEF ReadPreset, directoryVars
  <1>7. ASSUME NEW p \in Passes, NEW s \in Subjects, TakeSubject(p, s) PROVE DecisionsInv'
    <2>1. pass[p] \in Underway /\ Spares(pass[p]) /\ s \in pass[p].todo
      BY <1>7, AtStep DEF TakeSubject
    <2> DEFINE due == s \in Addresses \/ classifyStoreSignal(store[s]) = "null"
               q == [pass[p] EXCEPT !.subject = s, !.at = IF due THEN "raise" ELSE "loop",
                                    !.todo = IF due THEN pass[p].todo ELSE pass[p].todo \ {s}]
    <2>2. pass' = [pass EXCEPT ![p] = q]
      BY <1>0, <1>7, <2>1 DEF TakeSubject, Underway
    <2> HIDE DEF due
    <2>3. q \in Underway /\ Spares(q)
      BY <2>1 DEF Underway, Spares
    <2> HIDE DEF q
    <2> QED BY <1>0, <1>7, <2>2, <2>3, PassMoves DEF TakeSubject, directoryVars
  <1>8. ASSUME NEW p \in Passes, Raise(p) \/ RaiseAgain(p) PROVE DecisionsInv'
    <2>1. pass[p] \in Underway /\ Spares(pass[p]) /\ pass[p].at \in {"raise", "again"}
      BY <1>8, AtStep DEF Raise, RaiseAgain
    <2>2. pass[p].subject \in Subjects
      BY <2>1 DEF Spares, Underway
    <2>3. pending' \in [Subjects -> Nat] /\ rows' \in Nat
      BY <1>8, <2>2, Inserted DEF Raise, RaiseAgain
    <2>4. [pass[p] EXCEPT !.at = "read"] \in Underway /\ Spares([pass[p] EXCEPT !.at = "read"])
      BY <2>1 DEF Underway, Spares
    <2>5. Raised(p) \in Underway /\ Spares(Raised(p)) /\ Next1(p) \in Underway /\ Spares(Next1(p))
      BY <2>1, NextSubject, RaisedIs
    <2>6. \E q \in Underway : Spares(q) /\ pass' = [pass EXCEPT ![p] = q]
      BY <1>8, <2>4, <2>5 DEF Raise, RaiseAgain
    <2> QED BY <1>8, <2>3, <2>6, PassMoves DEF Raise, RaiseAgain, directoryVars
  <1>9. ASSUME NEW p \in Passes, RaiseReads(p) PROVE DecisionsInv'
    <2>1. pass[p] \in Underway /\ Spares(pass[p]) /\ pass[p].at = "read"
      BY <1>9, AtStep DEF RaiseReads
    <2>2. [pass[p] EXCEPT !.at = "again"] \in Underway /\ Spares([pass[p] EXCEPT !.at = "again"])
      BY <2>1 DEF Underway, Spares
    <2>3. Next1(p) \in Underway /\ Spares(Next1(p))
      BY <2>1, NextSubject
    <2>4. \E q \in Underway : Spares(q) /\ pass' = [pass EXCEPT ![p] = q]
      BY <1>9, <2>2, <2>3 DEF RaiseReads
    <2> QED BY <1>0, <1>9, <2>4, PassMoves DEF RaiseReads, directoryVars
  <1>10. ASSUME NEW p \in Passes, SubjectFails(p) \/ \E works \in BOOLEAN : AutoResolve(p, works)
         PROVE  DecisionsInv'
    <2>1. pass[p].at \in {"raise", "close"} /\ pass' = [pass EXCEPT ![p] = Next1(p)]
      BY <1>10 DEF SubjectFails, AutoResolve
    <2>2. Next1(p) \in Underway /\ Spares(Next1(p))
      BY <2>1, NextSubject
    <2>3. pending' \in [Subjects -> Nat]
      BY <1>0, <1>10 DEF SubjectFails, AutoResolve
    <2> QED BY <1>0, <1>10, <2>1, <2>2, <2>3, PassMoves DEF SubjectFails, AutoResolve, directoryVars
  <1>11. ASSUME NEW p \in Passes, EndPass(p) PROVE DecisionsInv'
    BY <1>0, <1>11, PassMoves DEF EndPass, directoryVars, Over, Underway
  <1>12. ASSUME NEW s \in Subjects, Dismiss(s) PROVE DecisionsInv'
    BY <1>12 DEF Dismiss, Close, directoryVars, DecisionsInv, Spares
  <1>13. ASSUME NEW a \in Addresses, ResolveMailbox(a) \/ CoverMailbox(a) PROVE DecisionsInv'
    BY <1>13 DEF ResolveMailbox, CoverMailbox, Close, directoryVars, DecisionsInv, Spares
  <1>14. ASSUME NEW g \in Groups, NEW choice \in Patterns, ResolveGroup(g, choice) \/ OperatorResolves(g, choice)
         PROVE  DecisionsInv'
    BY <1>14 DEF ResolveGroup, OperatorResolves, Close, directoryVars, DecisionsInv, Spares
  <1>15. ASSUME NEW works \in BOOLEAN, SetPattern(works) PROVE DecisionsInv'
    BY <1>15 DEF SetPattern, directoryVars, DecisionsInv, Spares
  <1>16. ASSUME NEW action \in {"auto", "ask"}, SetPreset(action) PROVE DecisionsInv'
    BY <1>16 DEF SetPreset, directoryVars, DecisionsInv, Spares
  <1> QED BY <1>1, <1>2, <1>3, <1>4, <1>5, <1>6, <1>7, <1>8, <1>9, <1>10, <1>11, <1>12, <1>13, <1>14, <1>15, <1>16
          DEF DecisionsNext, ManagedDriftDetect, DetectDrift, ManagedGroupDiscovery, DiscoverGroups

\* Only the two inserts of `raise` make a question pending.
LEMMA AskedByPass ==
    ASSUME DecisionsInv, [DecisionsNext]_decisionVars, NEW a \in Addresses, pending[a] = 0, pending'[a] # 0
    PROVE  \E p \in Passes : Raise(p) \/ RaiseAgain(p)
  <1>1. pending \in [Subjects -> Nat] /\ a \in Subjects
    BY DEF DecisionsInv, Subjects
  <1> QED BY <1>1 DEF DecisionsNext, decisionVars, directoryVars, ManagedDriftDetect, DetectDrift,
          ManagedGroupDiscovery, DiscoverGroups, PassBegins, ListTenantMailboxes, ListMailEnabledGroups,
          DetectNewMailboxes, ReadPreset, TakeSubject, RaiseReads, SubjectFails, EndPass, AutoResolve, Dismiss,
          Close, ResolveMailbox, CoverMailbox, ResolveGroup, OperatorResolves, SetPattern, SetPreset

\* No pass asks again about what had been dismissed or covered when it began
\* (detectNewMailboxes, raise).
THEOREM DismissalsStand == DecisionsSpec => DismissedStays
  <1>1. ASSUME DecisionsInv, [DecisionsNext]_decisionVars, NEW a \in Addresses, pending[a] = 0, pending'[a] # 0
        PROVE  \E p \in Passes : /\ pass[p] # pass'[p] /\ pass[p].at \in {"raise", "again"}
                                 /\ a \notin pass[p].spared \cup pass[p].covered
    <2>1. PICK p \in Passes : Raise(p) \/ RaiseAgain(p)
      BY <1>1, AskedByPass
    <2>2. pass[p] \in Underway /\ Spares(pass[p]) /\ pass[p].at \in {"raise", "again"}
      BY <1>1, <2>1, AtStep DEF Raise, RaiseAgain
    <2>3. pass[p].subject \in Subjects /\ pass[p].subject \in pass[p].todo /\ a \in Subjects
      BY <2>2 DEF Spares, Underway, Subjects
    <2>4. a = pass[p].subject
      BY <1>1, <2>1, <2>3, Inserted DEF Raise, RaiseAgain
    <2>5. pass'[p].at \in {"loop", "close", "read"}
      <3>1. Raised(p).at \in {"loop", "close"} /\ Next1(p).at = "loop" /\ [pass[p] EXCEPT !.at = "read"].at = "read"
        BY <1>1, <2>2, RaisedIs, NextSubject DEF Underway
      <3> QED BY <1>1, <2>1, <3>1 DEF Raise, RaiseAgain, DecisionsInv
    <2> QED BY <2>2, <2>3, <2>4, <2>5 DEF Spares
  <1>2. DecisionsInv /\ [DecisionsNext]_decisionVars =>
          [\A a \in Addresses : pending[a] = 0 /\ pending'[a] # 0
             => \E p \in Passes : /\ pass[p] # pass'[p] /\ pass[p].at \in {"raise", "again"}
                                  /\ a \notin pass[p].spared \cup pass[p].covered]_decisionVars
    BY <1>1
  <1> QED BY <1>2, DecisionsInvInit, DecisionsInvStep, PTL DEF DecisionsSpec, DismissedStays

-----------------------------------------------------------------------------
(* Discovery: the inductive invariant.                                     *)

\* What has stayed in place in the folders a scan has read.
ReadIn(t, rest) == {p \in t.things : p[1] \notin rest}

\* The count so far covers it, and so do the keys and the figures of the destination.
CountCovers(c, t) ==
    /\ c.items \in Nat /\ c.items >= Cardinality(ReadIn(t, c.rest))
    /\ asCountableTarget(Head(c.todo)) => KeysOf(ReadIn(t, c.rest)) \subseteq c.keys
    /\ c.at # "folders" => c.rest = {}
    /\ c.at = "target" => asCountableTarget(Head(c.todo))
    /\ c.existing \in Nat \cup {Unknown} /\ c.colliding \in Nat \cup {Unknown}
    /\ c.existing # Unknown =>
          /\ c.at = "store" /\ c.colliding \in Nat
          /\ c.existing >= Cardinality(t.keys)
          /\ c.colliding >= Cardinality(t.keys \cap KeysOf(t.things))

\* The steps of a scan that counts a kind.
Counting == {"folders", "target", "store"}

\* The record of a scan at each point.
ScanShaped(s, c) ==
    \/ c = NoSweep
    \/ c.at \in {"open", "error"} /\ c = [at |-> c.at, todo |-> c.todo, turn |-> c.turn]
    \/ /\ c.at \in Counting /\ c.id = s /\ c.rest \subseteq Folders
       /\ c = [at |-> c.at, todo |-> c.todo, turn |-> c.turn, id |-> c.id, rest |-> c.rest, items |-> c.items,
               keys |-> c.keys, existing |-> c.existing, colliding |-> c.colliding]

\* What has stayed in place is in place, and what has been read of it is counted.
Scanning(s, c, t) ==
    /\ t = [things |-> t.things, keys |-> t.keys] /\ t.things \subseteq Folders \X Things
    /\ ScanShaped(s, c)
    /\ c.at # "idle" /\ Head(c.todo) \in Kinds =>
          /\ \A f \in Folders, i \in Things : <<f, i>> \in t.things => i \in content[Head(c.todo)][f]
          /\ t.keys \subseteq arrived[Head(c.todo)]
          /\ c.at \in Counting => CountCovers(c, t)

\* A stored row of figures.
FigureRow == [items: Nat, existing: Nat \cup {Unknown}, colliding: Nat \cup {Unknown}, lastError: BOOLEAN]

\* The figures of a kind cover what they were counted from.
Figured(fig, b) ==
    /\ fig \in {NoRow} \cup FigureRow
    /\ fig = NoRow => b.things = {}
    /\ fig # NoRow =>
          /\ fig.items >= Cardinality(b.things)
          /\ fig.existing # Unknown =>
                /\ fig.existing >= Cardinality(b.keys)
                /\ fig.colliding >= Cardinality(b.keys \cap KeysOf(b.things))

\* Every scan is sound, and so is what scans have stored.
DiscoveryInv ==
    /\ content \in [Kinds -> [Folders -> SUBSET Things]] /\ arrived \in [Kinds -> SUBSET keyed]
    /\ DOMAIN sweep = Scans /\ steady = [s \in Scans |-> steady[s]]
    /\ DOMAIN figures = Kinds /\ DOMAIN basis = Kinds
    /\ \A s \in Scans : Scanning(s, sweep[s], steady[s])
    /\ \A k \in Kinds : Figured(figures[k], basis[k])

-----------------------------------------------------------------------------
(* Discovery: counting.                                                    *)

\* What stays in place is finite, and so is what is read of it.
LEMMA StillFinite ==
    ASSUME NEW T \in SUBSET (Folders \X Things)
    PROVE  IsFiniteSet(T) /\ Cardinality(T) \in Nat
  BY DiscoveryAssumption, FS_Product, FS_Subset, FS_CardinalityType

\* The things of one folder.
LEMMA OneFolder ==
    ASSUME NEW f \in Folders, NEW C \in SUBSET Things, NEW T \in SUBSET (Folders \X Things),
           \A p \in T : p[1] = f /\ p[2] \in C
    PROVE  Cardinality(T) <= Cardinality(C)
  <1> DEFINE g == [p \in T |-> p[2]]
  <1>1. IsFiniteSet(C)
    BY DiscoveryAssumption, FS_Subset
  <1>2. g \in [T -> C]
    OBVIOUS
  <1>3. ASSUME NEW p \in T, NEW q \in T, g[p] = g[q] PROVE p = q
    <2>1. p \in Folders \X Things /\ q \in Folders \X Things /\ p[1] = q[1] /\ p[2] = q[2]
      BY <1>3
    <2> QED BY <2>1
  <1>4. g \in Injection(T, C)
    BY <1>2, <1>3 DEF Injection, IsInjective
  <1> QED BY <1>1, <1>4, FS_Injection

\* What is in place when a kind is begun.
LEMMA InPlaceIs ==
    ASSUME NEW k
    PROVE  /\ InPlace(k) = [things |-> InPlace(k).things, keys |-> InPlace(k).keys]
           /\ InPlace(k).things \subseteq Folders \X Things
           /\ \A f \in Folders, i \in Things : <<f, i>> \in InPlace(k).things => i \in content[k][f]
           /\ InPlace(k).keys = arrived[k]
  BY DEF InPlace

\* A scan that another step does not touch goes on as it is.
LEMMA ScanRests ==
    ASSUME UNCHANGED <<house, sides, content, arrived>>
    PROVE  \A s, c, t : Scanning(s, c, t) => Scanning(s, c, t)'
  BY DEF Scanning, ScanShaped, CountCovers, asCountableTarget, ReadIn, KeysOf

\* One scan moves on.
LEMMA ScanMoves ==
    ASSUME DiscoveryInv, NEW s \in Scans, NEW c, NEW t, Scanning(s, c, t),
           sweep' = [sweep EXCEPT ![s] = c], steady' = [steady EXCEPT ![s] = t],
           UNCHANGED <<house, sides, content, arrived>>,
           DOMAIN figures' = Kinds, DOMAIN basis' = Kinds, \A k \in Kinds : Figured(figures'[k], basis'[k])
    PROVE  DiscoveryInv'
  <1>1. \A o \in Scans : Scanning(o, sweep'[o], steady'[o])
    BY DEF DiscoveryInv
  <1>2. \A o \in Scans : Scanning(o, sweep[o], steady[o])'
    BY <1>1, ScanRests
  <1> QED BY <1>2 DEF DiscoveryInv, Figured, KeysOf

\* If less has stayed in place, it is counted all the more.
LEMMA CountedLess ==
    ASSUME NEW c, NEW t, NEW u, CountCovers(c, t), u.things \subseteq t.things, u.keys \subseteq t.keys,
           t.things \subseteq Folders \X Things, t.keys \subseteq keyed
    PROVE  CountCovers(c, u)
  <1>1. /\ IsFiniteSet(ReadIn(t, c.rest)) /\ ReadIn(u, c.rest) \in SUBSET ReadIn(t, c.rest)
        /\ Cardinality(ReadIn(t, c.rest)) \in Nat /\ Cardinality(ReadIn(u, c.rest)) \in Nat
    <2>1. ReadIn(t, c.rest) \in SUBSET (Folders \X Things) /\ ReadIn(u, c.rest) \in SUBSET ReadIn(t, c.rest)
      BY DEF ReadIn
    <2>2. ReadIn(u, c.rest) \in SUBSET (Folders \X Things)
      BY <2>1
    <2> QED BY <2>1, <2>2, StillFinite
  <1>2. Cardinality(ReadIn(u, c.rest)) <= Cardinality(ReadIn(t, c.rest))
    BY <1>1, FS_Subset
  <1>3. KeysOf(ReadIn(u, c.rest)) \subseteq KeysOf(ReadIn(t, c.rest)) /\ KeysOf(u.things) \subseteq KeysOf(t.things)
    BY <1>1 DEF KeysOf
  <1>4. IsFiniteSet(t.keys)
    BY DiscoveryAssumption, FS_Subset
  <1>5. /\ Cardinality(t.keys) \in Nat /\ Cardinality(u.keys) \in Nat /\ Cardinality(u.keys) <= Cardinality(t.keys)
    BY <1>4, FS_Subset, FS_CardinalityType
  <1>6. PICK K, L : K = t.keys \cap KeysOf(t.things) /\ L = u.keys \cap KeysOf(u.things)
    OBVIOUS
  <1>7. K \in SUBSET t.keys /\ L \in SUBSET K
    BY <1>3, <1>6
  <1>8. Cardinality(K) \in Nat /\ Cardinality(L) \in Nat /\ Cardinality(L) <= Cardinality(K)
    BY <1>4, <1>7, FS_Subset, FS_CardinalityType
  <1>9. \A a, x, y : a \in Nat /\ x \in Nat /\ y \in Nat /\ a >= x /\ y <= x => a >= y
    OBVIOUS
  <1>10. c.items >= Cardinality(ReadIn(u, c.rest))
    BY <1>1, <1>2, <1>9 DEF CountCovers
  <1>11. c.existing # Unknown => c.existing >= Cardinality(u.keys) /\ c.colliding >= Cardinality(L)
    BY <1>5, <1>6, <1>8, <1>9 DEF CountCovers
  <1> QED BY <1>3, <1>6, <1>10, <1>11 DEF CountCovers

-----------------------------------------------------------------------------
(* Discovery: the steps.                                                   *)

\* The rows stay.
LEMMA RowsRest ==
    ASSUME DiscoveryInv, UNCHANGED <<figures, basis>>
    PROVE  DOMAIN figures' = Kinds /\ DOMAIN basis' = Kinds /\ \A k \in Kinds : Figured(figures'[k], basis'[k])
  BY DEF DiscoveryInv

\* A scan begins with a kind, begins the next one, or ends.
LEMMA KindBegins ==
    ASSUME NEW s, NEW todo, NEW turn
    PROVE  Scanning(s, [at |-> "open", todo |-> todo, turn |-> turn], InPlace(Head(todo)))
  <1>1. PICK c, t : c = [at |-> "open", todo |-> todo, turn |-> turn] /\ t = InPlace(Head(todo))
    OBVIOUS
  <1>2. c.at = "open" /\ c.todo = todo /\ c = [at |-> c.at, todo |-> c.todo, turn |-> c.turn]
    BY <1>1
  <1>3. /\ t = [things |-> t.things, keys |-> t.keys] /\ t.things \subseteq Folders \X Things
        /\ \A f \in Folders, i \in Things : <<f, i>> \in t.things => i \in content[Head(todo)][f]
        /\ t.keys = arrived[Head(todo)]
    BY <1>1, InPlaceIs
  <1>4. Scanning(s, c, t)
    BY <1>2, <1>3 DEF Scanning, ScanShaped, Counting
  <1> QED BY <1>1, <1>4

\* A scan that is over.
LEMMA Ended == \A s : Scanning(s, NoSweep, Nothing)
  BY DEF Scanning, ScanShaped, NoSweep, Nothing, Counting

\* A scan is launched.
LEMMA LaunchKeeps ==
    ASSUME DiscoveryInv, NEW s \in Scans, NEW todo, Launch(s, todo),
           UNCHANGED <<house, sides, content, arrived, figures, basis>>
    PROVE  DiscoveryInv'
  <1>1. PICK c, t : c = [at |-> "open", todo |-> todo, turn |-> turns + 1] /\ t = InPlace(Head(todo))
    OBVIOUS
  <1>2. sweep' = [sweep EXCEPT ![s] = c] /\ steady' = [steady EXCEPT ![s] = t]
    BY <1>1 DEF Launch
  <1> QED BY <1>1, <1>2, KindBegins, RowsRest, ScanMoves

\* A scan stores what it has and goes on to the next kind.
LEMMA OnwardKeeps ==
    ASSUME DiscoveryInv, NEW s \in Scans, Onward(s), UNCHANGED <<house, sides, content, arrived>>,
           DOMAIN figures' = Kinds, DOMAIN basis' = Kinds, \A k \in Kinds : Figured(figures'[k], basis'[k])
    PROVE  DiscoveryInv'
  <1>0. PICK left, turn : left = Tail(sweep[s].todo) /\ turn = sweep[s].turn
    OBVIOUS
  <1>1. PICK c, t : /\ c = (IF left = <<>> THEN NoSweep ELSE [at |-> "open", todo |-> left, turn |-> turn])
                    /\ t = (IF left = <<>> THEN Nothing ELSE InPlace(Head(left)))
    OBVIOUS
  <1>2. sweep' = [sweep EXCEPT ![s] = c] /\ steady' = [steady EXCEPT ![s] = t]
    BY <1>0, <1>1 DEF Onward
  <1>3. Scanning(s, c, t)
    BY <1>1, KindBegins, Ended
  <1> QED BY <1>2, <1>3, ScanMoves

\* A scan ends.
LEMMA EndedKeeps ==
    ASSUME DiscoveryInv, NEW s \in Scans, UNCHANGED <<house, sides, content, arrived, figures, basis>>,
           sweep' = [sweep EXCEPT ![s] = NoSweep], steady' = [steady EXCEPT ![s] = Nothing]
    PROVE  DiscoveryInv'
  BY Ended, RowsRest, ScanMoves

\* A scan goes on with the kind it is at.
LEMMA ScanGoesOn ==
    ASSUME DiscoveryInv, NEW s \in Scans, NEW c, sweep' = [sweep EXCEPT ![s] = c],
           UNCHANGED <<house, sides, content, arrived, figures, basis, steady>>,
           ScanShaped(s, c), sweep[s].at # "idle", c.todo = sweep[s].todo,
           c.at \in Counting /\ Head(c.todo) \in Kinds => CountCovers(c, steady[s])
    PROVE  DiscoveryInv'
  <1>1. Scanning(s, sweep[s], steady[s])
    BY DEF DiscoveryInv
  <1>2. Scanning(s, c, steady[s])
    BY <1>1 DEF Scanning
  <1>3. steady' = [steady EXCEPT ![s] = steady[s]]
    BY DEF DiscoveryInv
  <1> QED BY <1>2, <1>3, RowsRest, ScanMoves

\* The kind has failed.
LEMMA FailedIs ==
    ASSUME NEW s, NEW c
    PROVE  /\ ScanShaped(s, [at |-> "error", todo |-> c.todo, turn |-> c.turn])
           /\ [at |-> "error", todo |-> c.todo, turn |-> c.turn].at = "error"
           /\ [at |-> "error", todo |-> c.todo, turn |-> c.turn].todo = c.todo
  BY DEF ScanShaped

\* The folders of the source are listed, or cannot be.
LEMMA ListKeeps ==
    ASSUME DiscoveryInv, NEW s \in Scans, NEW lists, ListFolders(s, lists)
    PROVE  DiscoveryInv'
  <1> DEFINE b == sweep[s]
             c == [at |-> "folders", todo |-> b.todo, turn |-> b.turn, id |-> s, rest |-> Folders, items |-> 0,
                   keys |-> {}, existing |-> Unknown, colliding |-> Unknown]
  <1>0. /\ UNCHANGED <<house, sides, content, arrived, figures, basis, steady>> /\ sweep[s].at = "open"
        /\ steady[s].things \subseteq Folders \X Things
    BY DEF ListFolders, ScanOnly, DiscoveryInv, Scanning
  <1>1. \/ sweep' = [sweep EXCEPT ![s] = c]
        \/ sweep' = [sweep EXCEPT ![s] = [at |-> "error", todo |-> b.todo, turn |-> b.turn]]
    BY DEF ListFolders
  <1>2. /\ c.at = "folders" /\ c.todo = b.todo /\ c.rest = Folders /\ c.items = 0 /\ c.existing = Unknown
        /\ c.colliding = Unknown
    OBVIOUS
  <1>3. ScanShaped(s, c)
    BY DEF ScanShaped, Counting
  <1>4. CASE sweep' = [sweep EXCEPT ![s] = c]
    <2> HIDE DEF c
    <2>1. ReadIn(steady[s], Folders) = {} /\ KeysOf({}) = {}
      BY <1>0 DEF ReadIn, KeysOf
    <2>2. CountCovers(c, steady[s])
      BY <1>2, <2>1, FS_EmptySet DEF CountCovers
    <2> QED BY <1>0, <1>2, <1>3, <1>4, <2>2, ScanGoesOn
  <1>5. CASE sweep' = [sweep EXCEPT ![s] = [at |-> "error", todo |-> b.todo, turn |-> b.turn]]
    BY <1>0, <1>5, FailedIs, ScanGoesOn DEF Counting
  <1> QED BY <1>1, <1>4, <1>5

\* A folder is read: what has stayed in it is counted.
LEMMA ReadKeeps ==
    ASSUME DiscoveryInv, NEW s \in Scans, NEW f \in Folders, NEW ok, ReadFolder(s, f, ok)
    PROVE  DiscoveryInv'
  <1> DEFINE b == sweep[s]
             k == Head(b.todo)
             at == IF b.rest # {f} THEN b.at ELSE IF asCountableTarget(k) THEN "target" ELSE "store"
             c == [b EXCEPT !.rest = b.rest \ {f}, !.items = b.items + Cardinality(content[k][f]),
                            !.keys = IF asCountableTarget(k) THEN b.keys \cup sourceKeyHash(k, f) ELSE b.keys,
                            !.at = at]
  <1>0. /\ UNCHANGED <<house, sides, content, arrived, figures, basis, steady>>
        /\ b.at = "folders" /\ f \in b.rest /\ Scanning(s, b, steady[s])
    BY DEF ReadFolder, ScanOnly, DiscoveryInv
  <1>1. \/ sweep' = [sweep EXCEPT ![s] = c]
        \/ sweep' = [sweep EXCEPT ![s] = [at |-> "error", todo |-> b.todo, turn |-> b.turn]]
    BY DEF ReadFolder, Failed
  <1>2. CASE sweep' = [sweep EXCEPT ![s] = [at |-> "error", todo |-> b.todo, turn |-> b.turn]]
    BY <1>0, <1>2, FailedIs, ScanGoesOn DEF Counting
  <1>3. CASE sweep' = [sweep EXCEPT ![s] = c]
    <2>1. /\ b.id = s /\ b.rest \subseteq Folders
          /\ b = [at |-> b.at, todo |-> b.todo, turn |-> b.turn, id |-> b.id, rest |-> b.rest, items |-> b.items,
                  keys |-> b.keys, existing |-> b.existing, colliding |-> b.colliding]
      BY <1>0 DEF Scanning, ScanShaped, NoSweep
    <2>2. at \in Counting /\ (at # "folders" => b.rest = {f}) /\ (at = "target" => asCountableTarget(k))
      BY <1>0 DEF Counting
    <2>3. /\ c.at = at /\ c.todo = b.todo /\ c.turn = b.turn /\ c.id = b.id /\ c.rest = b.rest \ {f}
          /\ c.items = b.items + Cardinality(content[k][f]) /\ c.existing = b.existing /\ c.colliding = b.colliding
          /\ c.keys = (IF asCountableTarget(k) THEN b.keys \cup sourceKeyHash(k, f) ELSE b.keys)
          /\ c = [at |-> c.at, todo |-> c.todo, turn |-> c.turn, id |-> c.id, rest |-> c.rest, items |-> c.items,
                  keys |-> c.keys, existing |-> c.existing, colliding |-> c.colliding]
      <3>1. PICK r, a, n, K, R : /\ r = b /\ a = at /\ R = b.rest \ {f} /\ n = b.items + Cardinality(content[k][f])
                                 /\ K = IF asCountableTarget(k) THEN b.keys \cup sourceKeyHash(k, f) ELSE b.keys
        OBVIOUS
      <3>2. c = [r EXCEPT !.rest = R, !.items = n, !.keys = K, !.at = a]
        BY <3>1
      <3>3. r = [at |-> r.at, todo |-> r.todo, turn |-> r.turn, id |-> r.id, rest |-> r.rest, items |-> r.items,
                 keys |-> r.keys, existing |-> r.existing, colliding |-> r.colliding]
        BY <2>1, <3>1
      <3> HIDE DEF at, b, c
      <3>4. c = [at |-> a, todo |-> r.todo, turn |-> r.turn, id |-> r.id, rest |-> R, items |-> n,
                 keys |-> K, existing |-> r.existing, colliding |-> r.colliding]
        BY <3>2, <3>3
      <3> QED BY <3>1, <3>4
    <2> HIDE DEF at, c
    <2>4. ScanShaped(s, c)
      BY <2>1, <2>2, <2>3 DEF ScanShaped
    <2>5. ASSUME k \in Kinds PROVE CountCovers(c, steady[s])
      <3> DEFINE T == steady[s].things
                 Old == ReadIn(steady[s], b.rest)
                 New == ReadIn(steady[s], b.rest \ {f})
                 Here == {p \in T : p[1] = f}
      <3>1. /\ CountCovers(b, steady[s]) /\ T \subseteq Folders \X Things
            /\ \A i \in Things : <<f, i>> \in T => i \in content[k][f]
        BY <1>0, <2>5 DEF Scanning, Counting
      <3>2. content[k][f] \in SUBSET Things
        BY <2>5 DEF DiscoveryInv
      <3>3. \A p \in Here : p[1] = f /\ p[2] \in content[k][f]
        BY <3>1
      <3>4. New = Old \cup Here
        BY <1>0 DEF ReadIn
      <3>5. /\ Old \in SUBSET (Folders \X Things) /\ Here \in SUBSET (Folders \X Things)
            /\ Old \cap Here \in SUBSET (Folders \X Things)
        BY <3>1 DEF ReadIn
      <3> HIDE DEF Old, New, Here, T
      <3>6. Cardinality(Here) <= Cardinality(content[k][f])
        BY <3>2, <3>3, <3>5, OneFolder
      <3>7. /\ Cardinality(Old) \in Nat /\ Cardinality(Here) \in Nat /\ Cardinality(Old \cap Here) \in Nat
            /\ IsFiniteSet(Old) /\ IsFiniteSet(Here)
        BY <3>5, StillFinite
      <3>8. Cardinality(New) = Cardinality(Old) + Cardinality(Here) - Cardinality(Old \cap Here)
        BY <3>4, <3>7, FS_Union
      <3>9. Cardinality(content[k][f]) \in Nat
        BY <3>2, DiscoveryAssumption, FS_Subset, FS_CardinalityType
      <3>10. b.items \in Nat /\ b.items >= Cardinality(Old)
        BY <3>1 DEF CountCovers, Old
      <3>11. c.items \in Nat /\ c.items >= Cardinality(New)
        BY <2>3, <3>6, <3>7, <3>8, <3>9, <3>10
      <3>12. KeysOf(New) \subseteq KeysOf(Old) \cup sourceKeyHash(k, f)
        BY <3>3, <3>4 DEF KeysOf, sourceKeyHash
      <3>13. asCountableTarget(k) => KeysOf(New) \subseteq c.keys
        BY <2>3, <3>1, <3>12 DEF CountCovers, Old
      <3> QED BY <1>0, <2>2, <2>3, <3>1, <3>11, <3>13 DEF CountCovers, New
    <2> QED BY <1>0, <1>3, <2>3, <2>4, <2>5, ScanGoesOn
  <1> QED BY <1>1, <1>2, <1>3

\* The destination is counted after the source: what both held throughout is among the keys.
LEMMA TargetKeeps ==
    ASSUME DiscoveryInv, NEW s \in Scans, NEW ok, discoverTarget(s, ok)
    PROVE  DiscoveryInv'
  <1> DEFINE b == sweep[s]
             k == Head(b.todo)
  <1>0. /\ UNCHANGED <<house, sides, content, arrived, figures, basis, steady>>
        /\ b.at = "target" /\ Scanning(s, b, steady[s])
    BY DEF discoverTarget, ScanOnly, DiscoveryInv
  <1>1. PICK e, o : /\ sweep' = [sweep EXCEPT ![s] = [b EXCEPT !.at = "store", !.existing = e, !.colliding = o]]
                    /\ \/ e = Cardinality(arrived[k]) /\ o = Cardinality(arrived[k] \cap b.keys)
                       \/ e = b.existing /\ o = b.colliding
    <2>1. b = [at |-> b.at, todo |-> b.todo, turn |-> b.turn, id |-> b.id, rest |-> b.rest, items |-> b.items,
               keys |-> b.keys, existing |-> b.existing, colliding |-> b.colliding]
      BY <1>0 DEF Scanning, ScanShaped, NoSweep
    <2>2. CASE ok
      BY <2>2 DEF discoverTarget
    <2>3. CASE ~ok
      <3>1. PICK r : r = b
        OBVIOUS
      <3>2. [r EXCEPT !.at = "store"] = [r EXCEPT !.at = "store", !.existing = r.existing, !.colliding = r.colliding]
        BY <2>1, <3>1
      <3>3. sweep' = [sweep EXCEPT ![s] = [r EXCEPT !.at = "store"]]
        BY <2>3, <3>1 DEF discoverTarget
      <3>4. sweep' = [sweep EXCEPT ![s] = [r EXCEPT !.at = "store", !.existing = r.existing, !.colliding = r.colliding]]
        BY <3>2, <3>3
      <3> QED BY <3>1, <3>4
    <2> QED BY <2>2, <2>3
  <1>2. PICK c : c = [b EXCEPT !.at = "store", !.existing = e, !.colliding = o]
    OBVIOUS
  <1>3. /\ c.at = "store" /\ c.todo = b.todo /\ c.id = s /\ c.rest = b.rest /\ c.items = b.items /\ c.keys = b.keys
        /\ c.existing = e /\ c.colliding = o /\ b.rest \subseteq Folders
        /\ c = [at |-> c.at, todo |-> c.todo, turn |-> c.turn, id |-> c.id, rest |-> c.rest, items |-> c.items,
                keys |-> c.keys, existing |-> c.existing, colliding |-> c.colliding]
    <2>1. PICK r : r = b
      OBVIOUS
    <2>2. /\ r = [at |-> r.at, todo |-> r.todo, turn |-> r.turn, id |-> r.id, rest |-> r.rest, items |-> r.items,
                  keys |-> r.keys, existing |-> r.existing, colliding |-> r.colliding]
          /\ r.id = s /\ r.rest \subseteq Folders
      BY <1>0, <2>1 DEF Scanning, ScanShaped, NoSweep
    <2>3. c = [at |-> "store", todo |-> r.todo, turn |-> r.turn, id |-> r.id, rest |-> r.rest, items |-> r.items,
               keys |-> r.keys, existing |-> e, colliding |-> o]
      BY <1>2, <2>1, <2>2
    <2> QED BY <2>1, <2>2, <2>3
  <1>4. ScanShaped(s, c)
    BY <1>3 DEF ScanShaped, Counting
  <1>5. ASSUME k \in Kinds PROVE CountCovers(c, steady[s])
    <2> DEFINE T == steady[s]
    <2>1. CountCovers(b, T) /\ T.keys \subseteq arrived[k] /\ b.rest = {} /\ asCountableTarget(k)
      BY <1>0, <1>5 DEF Scanning, Counting, CountCovers
    <2>2. KeysOf(T.things) \subseteq b.keys
      BY <2>1 DEF CountCovers, ReadIn
    <2>3. IsFiniteSet(arrived[k])
      BY <1>5, DiscoveryAssumption, FS_Subset DEF DiscoveryInv
    <2>4. PICK A, K, L : A = arrived[k] /\ K = arrived[k] \cap b.keys /\ L = T.keys \cap KeysOf(T.things)
      OBVIOUS
    <2>5. T.keys \in SUBSET A /\ K \in SUBSET A /\ L \in SUBSET K
      BY <2>1, <2>2, <2>4
    <2>6. /\ Cardinality(A) \in Nat /\ Cardinality(K) \in Nat
          /\ Cardinality(T.keys) <= Cardinality(A) /\ Cardinality(L) <= Cardinality(K)
      BY <2>3, <2>4, <2>5, FS_Subset, FS_CardinalityType
    <2>7. CASE e = Cardinality(arrived[k]) /\ o = Cardinality(arrived[k] \cap b.keys)
      <3>1. c.existing \in Nat /\ c.colliding \in Nat /\ c.existing >= Cardinality(T.keys) /\ c.colliding >= Cardinality(L)
        BY <1>3, <2>4, <2>6, <2>7, FS_CardinalityType, FS_Subset, <2>3, <2>5
      <3> QED BY <1>3, <2>1, <2>4, <3>1 DEF CountCovers
    <2>8. CASE e = b.existing /\ o = b.colliding
      BY <1>0, <1>3, <2>1, <2>8 DEF CountCovers
    <2> QED BY <1>1, <2>7, <2>8
  <1>6. sweep' = [sweep EXCEPT ![s] = c]
    BY <1>1, <1>2
  <1> QED BY <1>0, <1>3, <1>4, <1>5, <1>6, ScanGoesOn

\* The figures are stored with what stayed in place.
LEMMA StoreFiguresKeeps ==
    ASSUME DiscoveryInv, NEW s \in Scans, NEW ok \in BOOLEAN, StoreFigures(s, ok)
    PROVE  DiscoveryInv'
  <1> DEFINE b == sweep[s]
             k == Head(b.todo)
             T == steady[s]
             fig == [items |-> b.items, existing |-> b.existing, colliding |-> b.colliding, lastError |-> FALSE]
             ground == [turn |-> b.turn, things |-> T.things, keys |-> T.keys]
  <1>0. UNCHANGED <<house, sides, content, arrived>> /\ b.at = "store" /\ Scanning(s, b, T) /\ b.id = s
    BY DEF StoreFigures, ScanOnly, DiscoveryInv, Scanning, ScanShaped, NoSweep
  <1>1. CASE ~ok
    <2>1. /\ sweep' = [sweep EXCEPT ![s] = [at |-> "error", todo |-> b.todo, turn |-> b.turn]]
          /\ UNCHANGED <<figures, steady, basis>>
      BY <1>1 DEF StoreFigures, Failed
    <2> QED BY <1>0, <2>1, FailedIs, ScanGoesOn DEF Counting
  <1>2. CASE ok
    <2>1. /\ figures' = [figures EXCEPT ![k] = fig] /\ basis' = [basis EXCEPT ![k] = ground] /\ Onward(s)
      BY <1>0, <1>2 DEF StoreFigures, upsertDiscovery
    <2>2. k \in Kinds => Figured(fig, ground)
      <3> SUFFICES ASSUME k \in Kinds PROVE Figured(fig, ground)
        OBVIOUS
      <3>1. CountCovers(b, T) /\ b.rest = {}
        BY <1>0 DEF Scanning, Counting, CountCovers
      <3>2. ReadIn(T, {}) = T.things
        BY DEF ReadIn
      <3>3. fig.items = b.items /\ fig.existing = b.existing /\ fig.colliding = b.colliding
            /\ ground.things = T.things /\ ground.keys = T.keys
        OBVIOUS
      <3>4. fig \in FigureRow
        BY <3>1 DEF CountCovers, FigureRow
      <3> HIDE DEF fig, ground, T
      <3>5. fig # NoRow
        BY <3>1, <3>3 DEF CountCovers, NoRow
      <3> QED BY <3>1, <3>2, <3>3, <3>4, <3>5 DEF Figured, CountCovers
    <2> HIDE DEF fig, ground
    <2>3. DOMAIN figures' = Kinds /\ DOMAIN basis' = Kinds /\ \A q \in Kinds : Figured(figures'[q], basis'[q])
      BY <2>1, <2>2 DEF DiscoveryInv
    <2> QED BY <1>0, <2>1, <2>3, OnwardKeeps
  <1> QED BY <1>1, <1>2

\* An error leaves the figures, or stands where there are none.
LEMMA StoreErrorKeeps ==
    ASSUME DiscoveryInv, NEW s \in Scans, NEW ok \in BOOLEAN, StoreError(s, ok)
    PROVE  DiscoveryInv'
  <1>0. UNCHANGED <<house, sides, content, arrived>>
    BY DEF StoreError, ScanOnly
  <1>1. CASE ~ok
    <2>1. sweep' = [sweep EXCEPT ![s] = NoSweep] /\ steady' = [steady EXCEPT ![s] = Nothing] /\ UNCHANGED <<figures, basis>>
      BY <1>1 DEF StoreError
    <2> QED BY <1>0, <2>1, EndedKeeps
  <1>2. CASE ok
    <2> DEFINE k == Head(sweep[s].todo)
               fig == IF figures[k] = NoRow
                      THEN [items |-> 0, existing |-> Unknown, colliding |-> Unknown, lastError |-> TRUE]
                      ELSE [figures[k] EXCEPT !.lastError = TRUE]
    <2>1. figures' = [figures EXCEPT ![k] = fig] /\ UNCHANGED basis /\ Onward(s)
      BY <1>2 DEF StoreError, recordDiscoveryError
    <2>2. k \in Kinds => Figured(fig, basis[k])
      <3> SUFFICES ASSUME k \in Kinds PROVE Figured(fig, basis[k])
        OBVIOUS
      <3>1. Figured(figures[k], basis[k])
        BY DEF DiscoveryInv
      <3>2. CASE figures[k] = NoRow
        <4>1. basis[k].things = {}
          BY <3>1, <3>2 DEF Figured
        <4>2. fig \in FigureRow /\ fig.items = 0 /\ fig.existing = Unknown
          BY <3>2 DEF FigureRow
        <4> HIDE DEF fig
        <4>3. fig # NoRow
          BY <4>2 DEF NoRow
        <4> QED BY <4>1, <4>2, <4>3, FS_EmptySet DEF Figured
      <3>3. CASE figures[k] # NoRow
        <4>1. figures[k] \in FigureRow
          BY <3>1, <3>3 DEF Figured
        <4>2. /\ fig \in FigureRow /\ fig.items = figures[k].items /\ fig.existing = figures[k].existing
              /\ fig.colliding = figures[k].colliding
          BY <3>3, <4>1 DEF FigureRow
        <4> HIDE DEF fig
        <4>3. fig # NoRow
          BY <4>2 DEF NoRow, FigureRow
        <4> QED BY <3>1, <3>3, <4>2, <4>3 DEF Figured
      <3> QED BY <3>2, <3>3
    <2> HIDE DEF fig
    <2>3. DOMAIN figures' = Kinds /\ DOMAIN basis' = Kinds /\ \A q \in Kinds : Figured(figures'[q], basis'[q])
      BY <2>1, <2>2 DEF DiscoveryInv
    <2> QED BY <1>0, <2>1, <2>3, OnwardKeeps
  <1> QED BY <1>1, <1>2

\* Something changes in the source or in the destination: it has not stayed in place.
LEMMA ShiftKeeps ==
    ASSUME DiscoveryInv, NEW k \in Kinds,
           UNCHANGED <<house, sides, sweep, figures, basis>>,
           content' \in [Kinds -> [Folders -> SUBSET Things]], arrived' \in [Kinds -> SUBSET keyed],
           \A q \in Kinds : q # k => content'[q] = content[q] /\ arrived'[q] = arrived[q],
           steady' = [s \in Scans |-> steady'[s]],
           \A s \in Scans :
              /\ steady'[s] = [things |-> steady'[s].things, keys |-> steady'[s].keys]
              /\ steady'[s].things \subseteq steady[s].things /\ steady'[s].keys \subseteq steady[s].keys
              /\ sweep[s].at # "idle" /\ Head(sweep[s].todo) = k =>
                    /\ \A f \in Folders, i \in Things :
                          <<f, i>> \in steady'[s].things /\ i \in content[k][f] => i \in content'[k][f]
                    /\ \A i \in steady'[s].keys : i \in arrived[k] => i \in arrived'[k]
    PROVE  DiscoveryInv'
  <1>1. ASSUME NEW s \in Scans PROVE Scanning(s, sweep[s], steady[s])'
    <2>1. PICK c, t, u : c = sweep[s] /\ t = steady[s] /\ u = steady'[s]
      OBVIOUS
    <2>2. Scanning(s, c, t)
      BY <2>1 DEF DiscoveryInv
    <2>3. /\ u = [things |-> u.things, keys |-> u.keys] /\ u.things \subseteq Folders \X Things
          /\ u.things \subseteq t.things /\ u.keys \subseteq t.keys
      BY <2>1, <2>2 DEF Scanning
    <2>4. ASSUME c.at # "idle", Head(c.todo) \in Kinds
          PROVE  /\ \A f \in Folders, i \in Things : <<f, i>> \in u.things => i \in content'[Head(c.todo)][f]
                 /\ u.keys \subseteq arrived'[Head(c.todo)]
      <3>1. /\ \A f \in Folders, i \in Things : <<f, i>> \in t.things => i \in content[Head(c.todo)][f]
            /\ t.keys \subseteq arrived[Head(c.todo)]
        BY <2>2, <2>4 DEF Scanning
      <3>2. CASE Head(c.todo) # k
        BY <2>3, <2>4, <3>1, <3>2
      <3>3. CASE Head(c.todo) = k
        BY <2>1, <2>3, <2>4, <3>1, <3>3
      <3> QED BY <3>2, <3>3
    <2>5. ASSUME c.at \in Counting, Head(c.todo) \in Kinds PROVE CountCovers(c, u)
      <3>1. CountCovers(c, t) /\ t.keys \subseteq arrived[Head(c.todo)] /\ t.things \subseteq Folders \X Things
        BY <2>2, <2>5 DEF Scanning, Counting
      <3>2. t.keys \subseteq keyed
        BY <2>5, <3>1 DEF DiscoveryInv
      <3> QED BY <2>3, <3>1, <3>2, CountedLess
    <2>6. CountCovers(c, u) => CountCovers(c, u)'
      BY DEF CountCovers, asCountableTarget
    <2>7. Scanning(s, c, u)'
      BY <2>2, <2>3, <2>4, <2>5, <2>6 DEF Scanning, ScanShaped
    <2>8. sweep'[s] = c /\ steady'[s] = u
      BY <2>1
    <2> QED BY <2>7, <2>8
  <1> QED BY <1>1 DEF DiscoveryInv, Figured, KeysOf

\* At first nothing is counted.
LEMMA DiscoveryInvInit == DiscoveryInit => DiscoveryInv
  <1> SUFFICES ASSUME DiscoveryInit PROVE DiscoveryInv
    OBVIOUS
  <1>1. /\ content \in [Kinds -> [Folders -> SUBSET Things]] /\ arrived \in [Kinds -> SUBSET keyed]
        /\ sweep = [s \in Scans |-> NoSweep] /\ steady = [s \in Scans |-> Nothing]
        /\ figures = [k \in Kinds |-> NoRow] /\ basis = [k \in Kinds |-> [turn |-> 0, things |-> {}, keys |-> {}]]
    BY DEF DiscoveryInit
  <1>2. \A s \in Scans : Scanning(s, sweep[s], steady[s])
    BY <1>1, Ended
  <1>3. \A k \in Kinds : Figured(figures[k], basis[k])
    BY <1>1 DEF Figured
  <1> QED BY <1>1, <1>2, <1>3 DEF DiscoveryInv

\* Every step keeps the invariant.
LEMMA DiscoveryInvStep ==
    ASSUME DiscoveryInv, [DiscoveryNext]_discoveryVars
    PROVE  DiscoveryInv'
  <1>0. /\ content \in [Kinds -> [Folders -> SUBSET Things]] /\ arrived \in [Kinds -> SUBSET keyed]
        /\ steady = [s \in Scans |-> steady[s]]
        /\ \A s \in Scans : steady[s] = [things |-> steady[s].things, keys |-> steady[s].keys]
    BY DEF DiscoveryInv, Scanning
  <1>1. CASE UNCHANGED <<house, sides, content, arrived, sweep, figures, steady, basis>>
    <2>1. \A s \in Scans : Scanning(s, sweep[s], steady[s])'
      <3> TAKE s \in Scans
      <3>1. PICK c, t : c = sweep[s] /\ t = steady[s]
        OBVIOUS
      <3>2. Scanning(s, c, t)
        BY <3>1 DEF DiscoveryInv
      <3>3. Scanning(s, c, t)'
        BY <1>1, <3>2, ScanRests
      <3>4. sweep'[s] = c /\ steady'[s] = t
        BY <1>1, <3>1
      <3> QED BY <3>3, <3>4
    <2> QED BY <1>1, <2>1 DEF DiscoveryInv, Figured, KeysOf
  <1>2. ASSUME NEW s \in Scans, NEW kinds \in SUBSET Kinds, DiscoverRoute(s, kinds) PROVE DiscoveryInv'
    BY <1>2, LaunchKeeps DEF DiscoverRoute
  <1>3. ASSUME NEW s \in Scans, BootScan(s) \/ SweepDies(s) \/ ConfirmMigration(s) PROVE DiscoveryInv'
    BY <1>3, LaunchKeeps, EndedKeeps DEF BootScan, SweepDies, ConfirmMigration, ScanOnly
  <1>4. ASSUME NEW k \in Kinds, NEW f \in Folders, NEW i \in Things, SourceShifts(k, f, i) PROVE DiscoveryInv'
    <2>1. /\ UNCHANGED <<house, sides, sweep, figures, basis, arrived>>
          /\ content' = [content EXCEPT ![k][f] = IF i \in @ THEN @ \ {i} ELSE @ \cup {i}]
          /\ steady' = [s \in Scans |-> IF sweep[s] # NoSweep /\ Head(sweep[s].todo) = k
                                        THEN [steady[s] EXCEPT !.things = @ \ {<<f, i>>}] ELSE steady[s]]
      BY <1>4 DEF SourceShifts, Elsewhere
    <2>2. content' \in [Kinds -> [Folders -> SUBSET Things]] /\ \A q \in Kinds : q # k => content'[q] = content[q]
      BY <1>0, <2>1
    <2>3. \A g \in Folders, j \in Things : <<g, j>> # <<f, i>> /\ j \in content[k][g] => j \in content'[k][g]
      BY <1>0, <2>1
    <2>4. ASSUME NEW s \in Scans
          PROVE  /\ steady'[s] = [things |-> steady'[s].things, keys |-> steady'[s].keys]
                 /\ steady'[s].things \subseteq steady[s].things /\ steady'[s].keys = steady[s].keys
                 /\ sweep[s].at # "idle" /\ Head(sweep[s].todo) = k => <<f, i>> \notin steady'[s].things
      <3>1. PICK t, x, y : t = steady[s] /\ x = t.things /\ y = t.keys
        OBVIOUS
      <3>2. t = [things |-> x, keys |-> y]
        BY <1>0, <3>1
      <3>3. CASE sweep[s] # NoSweep /\ Head(sweep[s].todo) = k
        <4>1. steady'[s] = [t EXCEPT !.things = @ \ {<<f, i>>}]
          BY <2>1, <3>1, <3>3
        <4>2. [t EXCEPT !.things = @ \ {<<f, i>>}] = [things |-> x \ {<<f, i>>}, keys |-> y]
          BY <3>2
        <4> QED BY <3>1, <3>2, <4>1, <4>2
      <3>4. CASE ~(sweep[s] # NoSweep /\ Head(sweep[s].todo) = k)
        <4>1. steady'[s] = t
          BY <2>1, <3>1, <3>4
        <4>2. sweep[s].at # "idle" => sweep[s] # NoSweep
          BY DEF NoSweep
        <4> QED BY <3>1, <3>2, <3>4, <4>1, <4>2
      <3> QED BY <3>3, <3>4
    <2>5. ASSUME NEW s \in Scans
          PROVE  /\ steady'[s] = [things |-> steady'[s].things, keys |-> steady'[s].keys]
                 /\ steady'[s].things \subseteq steady[s].things /\ steady'[s].keys \subseteq steady[s].keys
                 /\ sweep[s].at # "idle" /\ Head(sweep[s].todo) = k =>
                       /\ \A g \in Folders, j \in Things :
                             <<g, j>> \in steady'[s].things /\ j \in content[k][g] => j \in content'[k][g]
                       /\ \A j \in steady'[s].keys : j \in arrived[k] => j \in arrived'[k]
      BY <2>1, <2>3, <2>4
    <2>6. /\ steady' = [s \in Scans |-> steady'[s]] /\ arrived' \in [Kinds -> SUBSET keyed]
          /\ \A q \in Kinds : q # k => content'[q] = content[q] /\ arrived'[q] = arrived[q]
      BY <1>0, <2>1, <2>2
    <2> QED BY <2>1, <2>2, <2>5, <2>6, ShiftKeeps
  <1>5. ASSUME NEW k \in Kinds, NEW i \in keyed, DestinationShifts(k, i) PROVE DiscoveryInv'
    <2>1. /\ UNCHANGED <<house, sides, sweep, figures, basis, content>>
          /\ arrived' = [arrived EXCEPT ![k] = IF i \in @ THEN @ \ {i} ELSE @ \cup {i}]
          /\ steady' = [s \in Scans |-> IF sweep[s] # NoSweep /\ Head(sweep[s].todo) = k
                                        THEN [steady[s] EXCEPT !.keys = @ \ {i}] ELSE steady[s]]
      BY <1>5 DEF DestinationShifts, Elsewhere
    <2>2. /\ arrived' \in [Kinds -> SUBSET keyed] /\ \A q \in Kinds : q # k => arrived'[q] = arrived[q]
          /\ \A j \in arrived[k] : j # i => j \in arrived'[k]
      BY <1>0, <2>1
    <2>3. ASSUME NEW s \in Scans
          PROVE  /\ steady'[s] = [things |-> steady'[s].things, keys |-> steady'[s].keys]
                 /\ steady'[s].things = steady[s].things /\ steady'[s].keys \subseteq steady[s].keys
                 /\ sweep[s].at # "idle" /\ Head(sweep[s].todo) = k => i \notin steady'[s].keys
      <3>1. PICK t, x, y : t = steady[s] /\ x = t.things /\ y = t.keys
        OBVIOUS
      <3>2. t = [things |-> x, keys |-> y]
        BY <1>0, <3>1
      <3>3. CASE sweep[s] # NoSweep /\ Head(sweep[s].todo) = k
        <4>1. steady'[s] = [t EXCEPT !.keys = @ \ {i}]
          BY <2>1, <3>1, <3>3
        <4>2. [t EXCEPT !.keys = @ \ {i}] = [things |-> x, keys |-> y \ {i}]
          BY <3>2
        <4> QED BY <3>1, <3>2, <4>1, <4>2
      <3>4. CASE ~(sweep[s] # NoSweep /\ Head(sweep[s].todo) = k)
        <4>1. steady'[s] = t
          BY <2>1, <3>1, <3>4
        <4>2. sweep[s].at # "idle" => sweep[s] # NoSweep
          BY DEF NoSweep
        <4> QED BY <3>1, <3>2, <3>4, <4>1, <4>2
      <3> QED BY <3>3, <3>4
    <2>4. ASSUME NEW s \in Scans
          PROVE  /\ steady'[s] = [things |-> steady'[s].things, keys |-> steady'[s].keys]
                 /\ steady'[s].things \subseteq steady[s].things /\ steady'[s].keys \subseteq steady[s].keys
                 /\ sweep[s].at # "idle" /\ Head(sweep[s].todo) = k =>
                       /\ \A g \in Folders, j \in Things :
                             <<g, j>> \in steady'[s].things /\ j \in content[k][g] => j \in content'[k][g]
                       /\ \A j \in steady'[s].keys : j \in arrived[k] => j \in arrived'[k]
      BY <2>1, <2>2, <2>3
    <2>5. /\ steady' = [s \in Scans |-> steady'[s]] /\ content' \in [Kinds -> [Folders -> SUBSET Things]]
          /\ \A q \in Kinds : q # k => content'[q] = content[q] /\ arrived'[q] = arrived[q]
      BY <1>0, <2>1, <2>2
    <2> QED BY <2>1, <2>2, <2>4, <2>5, ShiftKeeps
  <1>6. CASE Confirm \/ DiscoveryRead \/ UNCHANGED discoveryVars
    BY <1>1, <1>6 DEF Confirm, DiscoveryRead, discoveryVars
  <1> QED BY <1>2, <1>3, <1>4, <1>5, <1>6, ListKeeps, ReadKeeps, TargetKeeps, StoreFiguresKeeps, StoreErrorKeeps
          DEF DiscoveryNext

\* The figures on the confirm screen count at least what both sides held all through
\* the scan that stored them, whatever failed and whichever scans overlapped.
THEOREM FiguresAreAlwaysWhole == DiscoverySpec => []FiguresAreWhole
  <1>1. DiscoveryInv => FiguresAreWhole
    BY DEF DiscoveryInv, Figured, FiguresAreWhole
  <1> QED BY <1>1, DiscoveryInvInit, DiscoveryInvStep, PTL DEF DiscoverySpec
-----------------------------------------------------------------------------
(* Setting up.                                                             *)

SourceKinds == {"google_drive", "google_calendar", "google_contacts", "gmail", "o365", "imap", "dropbox", "box"}
SomeAccount == Accounts \cup {""}

\* A stored connection: its config, its credential and the rest of its row.
Config == [type: {"graph-mail", "imap-oauth2", "jmap", "imap-dav", "none"} \cup AllSourceTypes,
           user: SomeAccount, userId: SomeAccount, host: BOOLEAN]
Creds == [works: BOOLEAN, who: SomeAccount,
          keys: SUBSET (Consent \cup App \cup {"password", "serviceAccountKey"})]
Conn == [role: Sides, kind: SourceKinds \cup AllTargetTypes, config: Config, creds: Creds,
         status: {"untested", "connected", "error"}, with: {0} \cup MapIds, live: BOOLEAN]

\* An id, or none.
MaybeId == {0} \cup Ids

\* What the wizard holds, a request that was sent, a mapping.
Form == [type: [source: AllSourceTypes, target: AllTargetTypes], typed: [Sides -> Values],
         conn: [Sides -> MaybeId], draft: [Sides -> MaybeId]]
Sending == [op: {"add", "test", "rotate"}, side: Sides, id: {0} \cup Ids,
            type: AllSourceTypes \cup AllTargetTypes \cup {""}, values: Values, heard: BOOLEAN,
            row: {None} \cup Conn]
Named == [user: SomeAccount, userId: SomeAccount]
Mapping == [src: Ids, tgt: {0} \cup Ids, prefix: Prefixes, domains: SUBSET Domains, over: Named,
            said: Named, meant: Ids]

SetupTypes ==
    /\ conns \in [Ids -> {None} \cup Conn]
    /\ form \in Form
    /\ request \in [{"wizard", "page"} -> {NoRequest} \cup Sending]
    /\ maps \in [MapIds -> {NoMap} \cup Mapping]
    /\ deleting \in {0} \cup Ids

ProbeOf(c) == Probe(c.role, c.kind, c.config, c.creds)

\* What a pass makes of a source that names its data.
Builds(c) ==
    CASE c.kind = "gmail" -> buildGmailSourceFrom(c.config, c.creds)
      [] c.kind \in {"google_drive", "dropbox", "box"} -> buildFileSourceFromConnection(c.kind, c.config, c.creds)
      [] OTHER -> buildGoogleDavSourceFrom(c.config, c.creds)

\* A row a mapping was made with, or that a probe found to work, can be opened; one
\* that is called connected has the credential that the provider took, or a later one
\* that it took.
RowSound(c) ==
    /\ c.role = "source" =>
          /\ c.kind \in SourceKinds
          /\ c.kind = "gmail" => c.config.type = "gmail"
          /\ c.kind \notin {"imap", "o365"} /\ (c.with # 0 \/ c.status = "connected") => Builds(c)
    /\ c.role = "target" =>
          /\ c.kind \in AllTargetTypes /\ davEndpointFromCreds(c.config, c.creds)
          /\ c.with # 0 /\ c.kind \in {"jmap", "imap"} => buildTargetWriterFromCredentials(c.config, c.creds)
    /\ c.status = "connected" => ProbeOf(c)

\* The id, if there is one, is of a row of that side.
Held(i, side, cs) == i # 0 => i \in Ids /\ cs[i] \in Conn /\ cs[i].role = side

\* A request was sent with a row whose fixed part still stands, and whose credential
\* does or has been replaced by one that works.
SendingHolds(a, cs) ==
    a # NoRequest =>
        /\ a.op = "add" => a.type \in (IF a.side = "source" THEN AllSourceTypes ELSE AllTargetTypes)
        /\ a.op # "add" =>
              /\ a.id # 0 /\ Held(a.id, a.side, cs) /\ a.row \in Conn
              /\ a.row.role = a.side /\ a.row.kind = cs[a.id].kind /\ a.row.config = cs[a.id].config
              /\ a.row.creds = cs[a.id].creds \/ ProbeOf(cs[a.id])

\* A mapping has a source that carries its data, and the account it was created for
\* is named by the mapping or by the connection.
MappingHolds(m, cs) ==
    m # NoMap =>
        /\ Held(m.src, "source", cs) /\ Held(m.tgt, "target", cs)
        /\ m.domains \subseteq SOURCE_TYPE_DOMAINS(wizardTypeForConnectionKind(cs[m.src].kind))
        /\ m.tgt # 0 => m.domains \subseteq TARGET_TYPE_DOMAINS(cs[m.tgt].kind)
        /\ cs[m.src].kind \in {"google_calendar", "google_contacts"} =>
              /\ m.over.user \in {"", m.said.user}
              /\ m.over.user = "" /\ m.said.user # "" => cs[m.src].config.user = m.said.user
        /\ cs[m.src].kind = "box" =>
              /\ m.said.userId # "" /\ m.over.userId \in {"", m.said.userId}
              /\ m.over.userId = "" => cs[m.src].config.userId = m.said.userId

SetupInv ==
    /\ SetupTypes
    /\ \A i \in Ids : conns[i] \in Conn => RowSound(conns[i])
    /\ \A side \in Sides : Held(form.conn[side], side, conns) /\ Held(form.draft[side], side, conns)
    /\ \A who \in {"wizard", "page"} : SendingHolds(request[who], conns)
    /\ \A m \in MapIds : MappingHolds(maps[m], conns)
    /\ deleting # 0 => conns[deleting] \in Conn

-----------------------------------------------------------------------------

\* What a row may become: its fixed part stays, a credential is replaced by one the
\* provider takes, and a deleted row stays deleted.
Evolves(c, d) ==
    /\ d \in Conn /\ d.role = c.role /\ d.kind = c.kind /\ d.config = c.config /\ d.with = c.with
    /\ d.creds = c.creds \/ ProbeOf(d)
    /\ d.live = c.live \/ d.live = FALSE

\* No row, no request and no mapping are told from the others.
LEMMA NothingIs == None \notin Conn /\ NoRequest \notin Sending /\ NoMap \notin Mapping /\ NoRequest.op = "none" /\ NoMap.src = 0 /\ 0 \notin Ids
  <1>1. None \notin Conn
    <2>1. None.role = "none"
      BY DEF None
    <2> QED BY <2>1 DEF Conn, Sides
  <1>2. NoRequest.op = "none" /\ NoMap.src = 0
    BY DEF NoRequest, NoMap
  <1>3. 0 \notin Ids
    BY SetupAssumption DEF Ids
  <1> QED BY <1>1, <1>2, <1>3 DEF Sending, Mapping

\* A row that stays the same evolves.
LEMMA EvolvesSame ==
    ASSUME NEW c \in Conn
    PROVE  Evolves(c, c)
  BY DEF Evolves

\* What is held of a row is held of what becomes of it.
LEMMA HeldEvolves ==
    ASSUME NEW cs, NEW ds, \A i \in Ids : cs[i] \in Conn => Evolves(cs[i], ds[i])
    PROVE  /\ \A i, side : Held(i, side, cs) => Held(i, side, ds)
           /\ \A a : SendingHolds(a, cs) => SendingHolds(a, ds)
           /\ \A m \in Mapping : MappingHolds(m, cs) => MappingHolds(m, ds)
  <1>1. \A i, side : Held(i, side, cs) => Held(i, side, ds)
    BY DEF Held, Evolves
  <1>2. ASSUME NEW a, SendingHolds(a, cs), a # NoRequest, a.op # "add"
        PROVE  a.row.kind = ds[a.id].kind /\ a.row.config = ds[a.id].config /\ (a.row.creds = ds[a.id].creds \/ ProbeOf(ds[a.id]))
    <2>1. /\ a.id \in Ids /\ cs[a.id] \in Conn /\ a.row.kind = cs[a.id].kind /\ a.row.config = cs[a.id].config
          /\ a.row.creds = cs[a.id].creds \/ ProbeOf(cs[a.id])
      BY <1>2 DEF SendingHolds, Held
    <2>2. Evolves(cs[a.id], ds[a.id])
      BY <2>1
    <2> QED BY <2>1, <2>2 DEF Evolves, ProbeOf
  <1>3. ASSUME NEW m \in Mapping, MappingHolds(m, cs)
        PROVE  MappingHolds(m, ds)
    <2>1. m.src \in Ids /\ m # NoMap /\ m.src # 0
      BY NothingIs DEF Mapping
    <2>2. cs[m.src] \in Conn /\ Held(m.tgt, "target", cs)
      BY <1>3, <2>1 DEF MappingHolds, Held
    <2>3. ds[m.src].kind = cs[m.src].kind /\ ds[m.src].config = cs[m.src].config
      BY <2>1, <2>2 DEF Evolves
    <2>4. m.tgt # 0 => ds[m.tgt].kind = cs[m.tgt].kind
      BY <2>2 DEF Evolves, Held
    <2> QED BY <1>1, <1>3, <2>1, <2>3, <2>4 DEF MappingHolds
  <1>4. \A a : SendingHolds(a, cs) => SendingHolds(a, ds)
    BY <1>1, <1>2 DEF SendingHolds
  <1> QED BY <1>1, <1>3, <1>4

\* What is typed makes a config and a credential.
LEMMA ConfigIs ==
    ASSUME NEW v \in Values
    PROVE  /\ \A t \in AllSourceTypes : sourceConnectionConfig(t, v) \in Config
           /\ \A t \in AllTargetTypes \cup {""} : targetConnectionConfig(t, v) \in Config /\ targetConnectionConfig(t, v).host = TRUE
           /\ \A t \in AllSourceTypes : sourceCredentialRecord(t, v) \in Creds
           /\ targetCredentialRecord(v) \in Creds
  <1>1. v.works \in BOOLEAN /\ v.user \in SomeAccount /\ v.userId \in SomeAccount
    BY DEF Values, SomeAccount
  <1>2. "" \in SomeAccount
    BY DEF SomeAccount
  <1>3. ASSUME NEW t \in AllSourceTypes
        PROVE  sourceConnectionConfig(t, v) \in Config
    <2>1. (CASE t = "graph" -> "graph-mail" [] t \in {"oauth2", "imap"} -> "imap-oauth2" [] OTHER -> t)
              \in {"graph-mail", "imap-oauth2", "jmap", "imap-dav", "none"} \cup AllSourceTypes
      OBVIOUS
    <2>2. (t = "oauth2" \/ (t = "imap" /\ "host" \in v.keys)) \in BOOLEAN
      OBVIOUS
    <2> QED BY <1>1, <1>2, <2>1, <2>2 DEF sourceConnectionConfig, Config
  <1>4. ASSUME NEW t \in AllTargetTypes \cup {""}
        PROVE  targetConnectionConfig(t, v) \in Config /\ targetConnectionConfig(t, v).host = TRUE
    <2>1. (CASE t = "jmap" -> "jmap" [] t = "imap" -> "imap-dav" [] OTHER -> "none")
              \in {"graph-mail", "imap-oauth2", "jmap", "imap-dav", "none"} \cup AllSourceTypes
      OBVIOUS
    <2> QED BY <1>1, <1>2, <2>1 DEF targetConnectionConfig, Config
  <1>5. ASSUME NEW t \in AllSourceTypes
        PROVE  sourceCredentialRecord(t, v) \in Creds
    <2> DEFINE K == CASE t = "imap" -> v.keys \cap {"password"}
                      [] t = "box" -> v.keys \cap {"clientId", "clientSecret"}
                      [] t \in O365Types -> v.keys \cap App
                      [] OTHER -> v.keys \cap (Consent \cup {"serviceAccountKey"})
    <2>1. K \in SUBSET (Consent \cup App \cup {"password", "serviceAccountKey"})
      BY DEF O365Types, Consent, App
    <2>2. (IF t \in O365Types \cup {"imap"} \/ "serviceAccountKey" \in v.keys THEN v.user ELSE "") \in SomeAccount
      BY <1>1, <1>2
    <2> QED BY <1>1, <2>1, <2>2 DEF sourceCredentialRecord, Creds
  <1>6. targetCredentialRecord(v) \in Creds
    <2>1. v.keys \cap {"password"} \in SUBSET (Consent \cup App \cup {"password", "serviceAccountKey"})
      OBVIOUS
    <2> QED BY <1>1, <2>1 DEF targetCredentialRecord, Creds
  <1> QED BY <1>3, <1>4, <1>5, <1>6

\* The kinds of the types.
LEMMA KindIs ==
    /\ \A t \in AllSourceTypes : /\ sourceKindFor(t) \in SourceKinds
                                 /\ t \notin O365Types => wizardTypeForConnectionKind(sourceKindFor(t)) = t
                                 /\ t \in O365Types => wizardTypeForConnectionKind(sourceKindFor(t)) = "graph" /\ sourceKindFor(t) = "o365"
    /\ \A k \in SourceKinds : wizardTypeForConnectionKind(k) \in AllSourceTypes /\ sourceKindFor(wizardTypeForConnectionKind(k)) = k
    /\ \A k \in AllTargetTypes : wizardTypeForConnectionKind(k) = k
  BY DEF AllSourceTypes, AllTargetTypes, GoogleTypes, O365Types, SourceKinds, sourceKindFor, wizardTypeForConnectionKind

\* What each type of source keeps of what was typed.
LEMMA CredentialIs ==
    ASSUME NEW v, NEW t \in AllSourceTypes \ (O365Types \cup {"imap"})
    PROVE  /\ sourceCredentialRecord(t, v).keys = IF t = "box" THEN v.keys \cap {"clientId", "clientSecret"}
                                                 ELSE v.keys \cap (Consent \cup {"serviceAccountKey"})
           /\ sourceCredentialRecord(t, v).who = IF "serviceAccountKey" \in v.keys THEN v.user ELSE ""
           /\ sourceConnectionConfig(t, v).type = t
           /\ sourceConnectionConfig(t, v).user = IF t \in {"google-drive", "dropbox", "box"} THEN "" ELSE v.user
           /\ sourceConnectionConfig(t, v).userId = IF t = "box" THEN v.userId ELSE ""
  <1>1. t # "imap" /\ t \notin O365Types /\ t # "graph" /\ t # "oauth2"
    BY DEF O365Types
  <1>2. sourceCredentialRecord(t, v).keys = CASE t = "imap" -> v.keys \cap {"password"}
                [] t = "box" -> v.keys \cap {"clientId", "clientSecret"}
                [] t \in O365Types -> v.keys \cap App
                [] OTHER -> v.keys \cap (Consent \cup {"serviceAccountKey"})
    BY DEF sourceCredentialRecord
  <1>3. sourceCredentialRecord(t, v).who = IF t \in O365Types \cup {"imap"} \/ "serviceAccountKey" \in v.keys THEN v.user ELSE ""
    BY DEF sourceCredentialRecord
  <1>4. sourceConnectionConfig(t, v).type = CASE t = "graph" -> "graph-mail" [] t \in {"oauth2", "imap"} -> "imap-oauth2" [] OTHER -> t
    BY DEF sourceConnectionConfig
  <1>5. /\ sourceConnectionConfig(t, v).user = IF t \in {"google-drive", "dropbox", "box"} THEN "" ELSE v.user
        /\ sourceConnectionConfig(t, v).userId = IF t = "box" THEN v.userId ELSE ""
    BY DEF sourceConnectionConfig
  <1>6. sourceCredentialRecord(t, v).keys = IF t = "box" THEN v.keys \cap {"clientId", "clientSecret"} ELSE v.keys \cap (Consent \cup {"serviceAccountKey"})
    BY <1>1, <1>2
  <1> QED BY <1>1, <1>3, <1>4, <1>5, <1>6

\* A Gmail connection says that it is one.
LEMMA GmailConfig == \A v : sourceConnectionConfig("gmail", v).type = "gmail"
  BY DEF sourceConnectionConfig

\* A target whose fields are complete can be reached.
LEMMA TargetReached ==
    ASSUME NEW v \in Values, TARGET_FIELDS \subseteq Given(v), NEW config, config.host = TRUE
    PROVE  davEndpointFromCreds(config, targetCredentialRecord(v)) /\ "password" \in targetCredentialRecord(v).keys
  <1>1. "password" \in v.keys /\ v.user # ""
    <2>1. "password" \in Given(v) /\ "username" \in Given(v)
      BY DEF TARGET_FIELDS
    <2>2. "username" \notin v.keys
      BY DEF Values, Consent, App
    <2> QED BY <2>1, <2>2 DEF Given
  <1> QED BY <1>1 DEF davEndpointFromCreds, targetCredentialRecord

\* Of a source that names its data, what the provider accepts a pass can build.
LEMMA ProbeBuilds ==
    ASSUME NEW c, c.role = "source", c.kind \in SourceKinds \ {"imap", "o365"}, ProbeOf(c)
    PROVE  Builds(c)
  BY DEF ProbeOf, Probe, probeSourceConnection, Builds, SourceKinds

\* A source whose fields are complete can be built.
LEMMA SourceBuilt ==
    ASSUME NEW v \in Values, NEW t \in AllSourceTypes \ (O365Types \cup {"imap"}), NEW c,
           c.kind = sourceKindFor(t), c.config = sourceConnectionConfig(t, v), c.creds = sourceCredentialRecord(t, v),
           v.user # "", t \in GoogleTypes => ("serviceAccountKey" \in v.keys \/ Consent \subseteq v.keys),
           t = "dropbox" => Consent \subseteq v.keys,
           t = "box" => {"clientId", "clientSecret"} \subseteq v.keys /\ v.userId # ""
    PROVE  Builds(c)
  <1>a. /\ sourceCredentialRecord(t, v).keys = IF t = "box" THEN v.keys \cap {"clientId", "clientSecret"}
                                             ELSE v.keys \cap (Consent \cup {"serviceAccountKey"})
        /\ sourceCredentialRecord(t, v).who = IF "serviceAccountKey" \in v.keys THEN v.user ELSE ""
        /\ sourceConnectionConfig(t, v).user = IF t \in {"google-drive", "dropbox", "box"} THEN "" ELSE v.user
        /\ sourceConnectionConfig(t, v).userId = IF t = "box" THEN v.userId ELSE ""
    BY CredentialIs
  <1>b. /\ c.creds.keys = IF t = "box" THEN v.keys \cap {"clientId", "clientSecret"}
                                             ELSE v.keys \cap (Consent \cup {"serviceAccountKey"})
        /\ c.creds.who = IF "serviceAccountKey" \in v.keys THEN v.user ELSE ""
        /\ c.config.user = IF t \in {"google-drive", "dropbox", "box"} THEN "" ELSE v.user
        /\ c.config.userId = IF t = "box" THEN v.userId ELSE ""
    BY <1>a
  <1>1. CASE t = "dropbox"
    <2>1. c.kind = "dropbox" /\ Consent \subseteq c.creds.keys
      <3>1. c.kind = "dropbox"
        BY <1>1 DEF sourceKindFor, O365Types
      <3> QED BY <1>1, <1>b, <3>1
    <2> QED BY <2>1 DEF Builds, buildFileSourceFromConnection, buildDropboxSourceFrom
  <1>2. CASE t = "box"
    <2>1. c.kind = "box" /\ {"clientId", "clientSecret"} \subseteq c.creds.keys /\ c.config.userId # ""
      <3>1. c.kind = "box"
        BY <1>2 DEF sourceKindFor, O365Types
      <3> QED BY <1>2, <1>b, <3>1
    <2> QED BY <2>1 DEF Builds, buildFileSourceFromConnection, buildBoxSourceFrom
  <1>3. CASE t \in GoogleTypes
    <2>1. c.creds.keys = v.keys \cap (Consent \cup {"serviceAccountKey"})
      BY <1>3, <1>b DEF GoogleTypes
    <2>2. "serviceAccountKey" \in c.creds.keys => c.creds.who = v.user
      BY <2>1, <1>b
    <2>3. \A u : u # "" => GoogleOpens(c.creds, u)
      BY <1>3, <2>1 DEF GoogleOpens, dwdTokenProviderIfConfigured
    <2>4. CASE t = "google-drive"
      <3>1. c.kind = "google_drive"
        BY <2>4 DEF sourceKindFor, O365Types
      <3>2. GoogleOpens(c.creds, c.creds.who)
        BY <1>3, <2>1, <2>2 DEF GoogleOpens, dwdTokenProviderIfConfigured
      <3> QED BY <3>1, <3>2 DEF Builds, buildFileSourceFromConnection, buildGoogleDriveSourceFrom
    <2>5. CASE t # "google-drive"
      <3>1. c.kind \in {"gmail", "google_calendar", "google_contacts"}
        BY <1>3, <2>5 DEF sourceKindFor, O365Types, GoogleTypes
      <3>2. c.config.user = v.user
        BY <1>3, <2>5, <1>b DEF GoogleTypes
      <3> QED BY <2>3, <3>1, <3>2 DEF Builds, buildGmailSourceFrom, buildGoogleDavSourceFrom
    <2> QED BY <2>4, <2>5
  <1> QED BY <1>1, <1>2, <1>3 DEF AllSourceTypes

\* The parts of the form, and what comes of changing one.
LEMMA FormIs ==
    ASSUME NEW f \in Form
    PROVE  /\ f.type.source \in AllSourceTypes /\ f.type.target \in AllTargetTypes
           /\ f.typed \in [Sides -> Values] /\ f.conn \in [Sides -> MaybeId] /\ f.draft \in [Sides -> MaybeId]
           /\ \A side \in Sides : f.typed[side] \in Values /\ f.type[side] \in AllSourceTypes \cup AllTargetTypes
           /\ f.typed.source \in Values /\ f.typed.target \in Values
           /\ f.type["source"] = f.type.source /\ f.type["target"] = f.type.target
  BY DEF Form, Sides

\* Another type is chosen.
LEMMA RetypedIs ==
    ASSUME NEW f \in Form, NEW s \in AllSourceTypes, NEW t \in AllTargetTypes
    PROVE  /\ [f EXCEPT !.type.source = s, !.type.target = t] \in Form
           /\ [f EXCEPT !.type.source = s, !.type.target = t].conn = f.conn
           /\ [f EXCEPT !.type.source = s, !.type.target = t].draft = f.draft
           /\ [f EXCEPT !.type.target = t] \in Form
           /\ [f EXCEPT !.type.target = t].conn = f.conn
           /\ [f EXCEPT !.type.target = t].draft = f.draft
  BY DEF Form

\* A connection is chosen.
LEMMA ChosenIs ==
    ASSUME NEW f \in Form, NEW side \in Sides, NEW i \in MaybeId
    PROVE  /\ [f EXCEPT !.conn[side] = i] \in Form
           /\ [f EXCEPT !.conn[side] = i].draft = f.draft
           /\ [f EXCEPT !.conn[side] = i].conn = [f.conn EXCEPT ![side] = i]
  BY DEF Form

\* The connection a test has saved is remembered.
LEMMA DraftedIs ==
    ASSUME NEW f \in Form, NEW side \in Sides, NEW i \in MaybeId
    PROVE  /\ [f EXCEPT !.draft[side] = i] \in Form
           /\ [f EXCEPT !.draft[side] = i].conn = f.conn
           /\ [f EXCEPT !.draft[side] = i].draft = [f.draft EXCEPT ![side] = i]
  BY DEF Form

\* Something is typed.
LEMMA TypedIs ==
    ASSUME NEW f \in Form, NEW side \in Sides, NEW v \in Values
    PROVE  /\ [f EXCEPT !.typed[side] = v] \in Form
           /\ [f EXCEPT !.typed[side] = v].draft = f.draft
           /\ [f EXCEPT !.typed[side] = v].conn = f.conn
  BY DEF Form

\* The invariant goes on when rows evolve, and what is new is as it should be.
LEMMA SetupKeeps ==
    ASSUME SetupInv, conns' \in [Ids -> {None} \cup Conn], form' \in Form,
           request' \in [{"wizard", "page"} -> {NoRequest} \cup Sending], maps' \in [MapIds -> {NoMap} \cup Mapping],
           \A i \in Ids : conns[i] \in Conn => Evolves(conns[i], conns'[i]),
           \A i \in Ids : conns'[i] \in Conn => RowSound(conns'[i]),
           \A side \in Sides : form'.conn[side] = form.conn[side] \/ Held(form'.conn[side], side, conns'),
           \A side \in Sides : form'.draft[side] = form.draft[side] \/ Held(form'.draft[side], side, conns'),
           \A who \in {"wizard", "page"} : request'[who] = request[who] \/ SendingHolds(request'[who], conns'),
           \A m \in MapIds : maps'[m] = maps[m] \/ MappingHolds(maps'[m], conns'),
           deleting' \in {0, deleting} \/ (deleting' \in Ids /\ conns[deleting'] \in Conn)
    PROVE  SetupInv'
  <1>1. SetupTypes'
    BY DEF SetupInv, SetupTypes
  <1>2. /\ \A i, side : Held(i, side, conns) => Held(i, side, conns')
        /\ \A a : SendingHolds(a, conns) => SendingHolds(a, conns')
        /\ \A m \in Mapping : MappingHolds(m, conns) => MappingHolds(m, conns')
    BY HeldEvolves
  <1>3. \A side \in Sides : Held(form'.conn[side], side, conns') /\ Held(form'.draft[side], side, conns')
    BY <1>2 DEF SetupInv
  <1>4. \A who \in {"wizard", "page"} : SendingHolds(request'[who], conns')
    BY <1>2 DEF SetupInv
  <1>5. \A m \in MapIds : MappingHolds(maps'[m], conns')
    <2> SUFFICES ASSUME NEW m \in MapIds, maps'[m] = maps[m] PROVE MappingHolds(maps'[m], conns')
      OBVIOUS
    <2>1. CASE maps[m] = NoMap
      BY <2>1 DEF MappingHolds
    <2>2. CASE maps[m] # NoMap
      BY <1>2, <2>2 DEF SetupInv, SetupTypes
    <2> QED BY <2>1, <2>2
  <1>6. deleting' # 0 => conns'[deleting'] \in Conn
    <2>1. deleting' # 0 => deleting' \in Ids /\ conns[deleting'] \in Conn
      BY DEF SetupInv, SetupTypes
    <2> QED BY <2>1 DEF Evolves
  <1> QED BY <1>1, <1>3, <1>4, <1>5, <1>6 DEF SetupInv

\* Rows that do not change evolve and are as sound as they were.
LEMMA ConnsRest ==
    ASSUME SetupInv, UNCHANGED conns
    PROVE  /\ conns' \in [Ids -> {None} \cup Conn]
           /\ \A i \in Ids : conns[i] \in Conn => Evolves(conns[i], conns'[i])
           /\ \A i \in Ids : conns'[i] \in Conn => RowSound(conns'[i])
  BY EvolvesSame DEF SetupInv, SetupTypes

\* What the wizard's form may do to the form.
FormNext ==
    \/ \E t \in SourceTypes : ChooseSourceType(t)
    \/ \E t \in TargetTypes : ChooseTargetType(t)
    \/ \E side \in Sides : \E v \in Entries[side][form.type[side]] : Type(side, v)
    \/ \E side \in Sides, id \in {0} \cup Ids : ConnectionPicker(side, id)
    \/ restoreDraft

\* A request that nobody waits for is still a request.
LEMMA UnheardIs ==
    ASSUME SetupInv, request' = [request EXCEPT !.wizard = IF @.op = "none" THEN @ ELSE [@ EXCEPT !.heard = FALSE]]
    PROVE  /\ request' \in [{"wizard", "page"} -> {NoRequest} \cup Sending]
           /\ \A who \in {"wizard", "page"} : \A cs : SendingHolds(request[who], cs) => SendingHolds(request'[who], cs)
  <1>1. request \in [{"wizard", "page"} -> {NoRequest} \cup Sending]
    BY DEF SetupInv, SetupTypes
  <1>2. PICK a \in {NoRequest} \cup Sending : a = request["wizard"]
    BY <1>1
  <1>3. request'["page"] = request["page"] /\ request'["wizard"] = IF a.op = "none" THEN a ELSE [a EXCEPT !.heard = FALSE]
    BY <1>1, <1>2
  <1>4. CASE a = NoRequest
    <2>1. request' = request
      BY <1>1, <1>2, <1>4, NothingIs
    <2> QED BY <1>1, <2>1
  <1>5. CASE a \in Sending
    <2>1. PICK b \in Sending : b = [a EXCEPT !.heard = FALSE]
      BY <1>5 DEF Sending
    <2>2. /\ a.op # "none" /\ b.op = a.op /\ b.id = a.id /\ b.row = a.row /\ b.side = a.side /\ b.type = a.type /\ b.values = a.values
          /\ a # NoRequest /\ b # NoRequest
      BY <1>5, <2>1, NothingIs DEF Sending
    <2>3. request' = [request EXCEPT !["wizard"] = b] /\ request'["wizard"] = b
      BY <1>1, <1>2, <2>1, <2>2
    <2>4. \A cs : SendingHolds(a, cs) => SendingHolds(b, cs)
      BY <2>2 DEF SendingHolds
    <2> QED BY <1>1, <1>2, <1>3, <2>3, <2>4
  <1> QED BY <1>2, <1>4, <1>5

\* The steps of the form keep the invariant.
LEMMA FormSteps ==
    ASSUME SetupInv, FormNext
    PROVE  SetupInv'
  <1>1. form \in Form /\ request \in [{"wizard", "page"} -> {NoRequest} \cup Sending] /\ maps \in [MapIds -> {NoMap} \cup Mapping]
    BY DEF SetupInv, SetupTypes
  <1>2. UNCHANGED <<conns, boxes, maps, deleting>>
    BY DEF FormNext, ChooseSourceType, ChooseTargetType, Type, ConnectionPicker, restoreDraft
  <1>3. ASSUME form' \in Form, UNCHANGED request,
               \A side \in Sides : form'.conn[side] \in {0, form.conn[side]} \/ Held(form'.conn[side], side, conns),
               form'.draft = form.draft
        PROVE  SetupInv'
    <2>1. \A side \in Sides : form'.conn[side] = form.conn[side] \/ Held(form'.conn[side], side, conns')
      BY <1>2, <1>3 DEF Held
    <2> QED BY <1>1, <1>2, <1>3, <2>1, ConnsRest, SetupKeeps
  <1>4. ASSUME NEW t \in SourceTypes, ChooseSourceType(t)
        PROVE  SetupInv'
    <2>1. PICK g \in Form : g = clearedSourceFields(t) /\ g.draft = form.draft /\ \A side \in Sides : g.conn[side] \in {0, form.conn[side]}
      <3>1. CASE form.type.source = t
        BY <1>1, <3>1 DEF clearedSourceFields
      <3>2. CASE form.type.source # t
        <4>1. PICK w \in Values : w = Blanked(form.typed.source)
          <5>1. Blank \in Values
            BY DEF Blank, Values
          <5>2. form.typed.source.user \in Accounts \cup {""}
            BY <1>1, FormIs DEF Values
          <5>3. [Blank EXCEPT !.user = form.typed.source.user] \in Values
            BY <5>1, <5>2 DEF Values
          <5> QED BY <5>3 DEF Blanked
        <4>2. clearedSourceFields(t) = [[form EXCEPT !.typed["source"] = w] EXCEPT !.conn["source"] = 0]
          BY <1>1, <3>2, <4>1 DEF clearedSourceFields, Form, Sides
        <4>3. "source" \in Sides /\ 0 \in MaybeId
          BY DEF Sides, MaybeId
        <4>4. PICK h \in Form : h = [form EXCEPT !.typed["source"] = w] /\ h.conn = form.conn /\ h.draft = form.draft
          BY <1>1, <4>1, <4>3, TypedIs
        <4>5. [h EXCEPT !.conn["source"] = 0] \in Form /\ [h EXCEPT !.conn["source"] = 0].draft = h.draft /\ [h EXCEPT !.conn["source"] = 0].conn = [h.conn EXCEPT !["source"] = 0]
          BY <4>3, ChosenIs
        <4>6. \A side \in Sides : [form.conn EXCEPT !["source"] = 0][side] \in {0, form.conn[side]}
          BY <1>1, FormIs
        <4> QED BY <4>2, <4>4, <4>5, <4>6
      <3> QED BY <3>1, <3>2
    <2>2. PICK u \in AllTargetTypes : u = TargetFor(t, form.type.target)
      <3>1. form.type.target \in AllTargetTypes
        BY <1>1, FormIs
      <3> QED BY <3>1 DEF TargetFor, AllTargetTypes
    <2>3. t \in AllSourceTypes
      BY SetupAssumption
    <2>4. form' = [g EXCEPT !.type.source = t, !.type.target = u]
      BY <1>4, <2>1, <2>2 DEF ChooseSourceType
    <2>5. form' \in Form /\ form'.conn = g.conn /\ form'.draft = g.draft
      BY <2>3, <2>4, RetypedIs
    <2> QED BY <1>3, <1>4, <2>1, <2>5 DEF ChooseSourceType
  <1>5. ASSUME NEW t \in TargetTypes, ChooseTargetType(t)
        PROVE  SetupInv'
    <2>1. t \in AllTargetTypes
      BY SetupAssumption
    <2>2. form' \in Form /\ form'.conn = form.conn /\ form'.draft = form.draft
      <3>1. form' = [form EXCEPT !.type.target = t] /\ form.type.source \in AllSourceTypes
        BY <1>1, <1>5, FormIs DEF ChooseTargetType
      <3> QED BY <1>1, <2>1, <3>1, RetypedIs
    <2> QED BY <1>3, <1>5, <2>2 DEF ChooseTargetType
  <1>6. ASSUME NEW side \in Sides, NEW v \in Entries[side][form.type[side]], Type(side, v)
        PROVE  SetupInv'
    <2>1. v \in Values
      <3>1. form.type[side] \in AllSourceTypes \cup AllTargetTypes
        BY <1>1, FormIs
      <3> QED BY <3>1, SetupAssumption
    <2>2. PICK w \in Values : w = IF form.conn[side] = 0 THEN v ELSE [form.typed[side] EXCEPT !.userId = v.userId]
      <3>1. form.typed[side] \in Values
        BY <1>1, FormIs
      <3>2. [form.typed[side] EXCEPT !.userId = v.userId] \in Values
        BY <2>1, <3>1 DEF Values
      <3> QED BY <2>1, <3>2
    <2>3. form' = [form EXCEPT !.typed[side] = w]
      BY <1>6, <2>2 DEF Type
    <2>4. form' \in Form /\ form'.conn = form.conn /\ form'.draft = form.draft
      BY <1>1, <2>3, TypedIs
    <2> QED BY <1>3, <1>6, <2>4 DEF Type
  <1>7. ASSUME NEW side \in Sides, NEW id \in {0} \cup Ids, ConnectionPicker(side, id)
        PROVE  SetupInv'
    <2>1. form' = [form EXCEPT !.conn[side] = id] /\ UNCHANGED request
      BY <1>7 DEF ConnectionPicker
    <2>2. form' \in Form /\ form'.conn = [form.conn EXCEPT ![side] = id] /\ form'.draft = form.draft
      <3>1. id \in MaybeId
        BY DEF MaybeId
      <3> QED BY <1>1, <2>1, <3>1, ChosenIs
    <2>3. Held(id, side, conns)
      <3>1. CASE id = 0
        BY <3>1 DEF Held
      <3>2. CASE id # 0
        <4>1. id \in Ids /\ conns[id].role = side /\ conns[id] \in {None} \cup Conn
          BY <1>7, <3>2 DEF ConnectionPicker, SetupInv, SetupTypes
        <4>2. None.role \notin Sides
          BY DEF None, Sides
        <4> QED BY <4>1, <4>2 DEF Held
      <3> QED BY <3>1, <3>2
    <2>4. form.conn \in [Sides -> MaybeId]
      BY <1>1, FormIs
    <2>5. \A s \in Sides : form'.conn[s] = form.conn[s] \/ (s = side /\ form'.conn[s] = id)
      BY <2>2, <2>4
    <2> QED BY <1>3, <2>1, <2>2, <2>3, <2>5
  <1>8. CASE restoreDraft
    <2>1. PICK y \in [Sides -> Values] : y = [side \in Sides |-> WithoutSecrets(form.typed[side])]
      <3>1. ASSUME NEW side \in Sides PROVE WithoutSecrets(form.typed[side]) \in Values
        <4>1. form.typed[side] \in Values
          BY <1>1, FormIs
        <4> QED BY <4>1 DEF Values, WithoutSecrets
      <3> QED BY <3>1
    <2>2. PICK z \in [Sides -> MaybeId] : z = [side \in Sides |-> 0]
      BY DEF MaybeId
    <2>3. form' = [form EXCEPT !.typed = y, !.draft = z]
      BY <1>8, <2>1, <2>2 DEF restoreDraft
    <2>4. form' \in Form /\ form'.conn = form.conn /\ form'.draft = z
      BY <1>1, <2>3 DEF Form
    <2>5. \A side \in Sides : Held(form'.draft[side], side, conns')
      BY <2>2, <2>4 DEF Held
    <2>6. request' \in [{"wizard", "page"} -> {NoRequest} \cup Sending] /\ \A who \in {"wizard", "page"} : SendingHolds(request'[who], conns')
      <3>1. request' = [request EXCEPT !.wizard = IF @.op = "none" THEN @ ELSE [@ EXCEPT !.heard = FALSE]]
        BY <1>8 DEF restoreDraft
      <3>2. \A who \in {"wizard", "page"} : SendingHolds(request[who], conns)
        BY DEF SetupInv
      <3> QED BY <1>2, <3>1, <3>2, UnheardIs
    <2> QED BY <1>1, <1>2, <2>4, <2>5, <2>6, ConnsRest, SetupKeeps
  <1> QED BY <1>4, <1>5, <1>6, <1>7, <1>8 DEF FormNext

\* A request is sent with what was typed and with the row as it is.
LEMMA AskKeeps ==
    ASSUME SetupInv, NEW who \in {"wizard", "page"}, NEW op \in {"add", "test", "rotate"}, NEW side \in Sides, NEW id \in {0} \cup Ids,
           NEW t \in AllSourceTypes \cup AllTargetTypes \cup {""}, NEW v \in Values, Ask(who, op, side, id, t, v),
           UNCHANGED <<conns, maps, form, deleting>>,
           op = "add" => t \in (IF side = "source" THEN AllSourceTypes ELSE AllTargetTypes),
           op # "add" => id # 0 /\ Held(id, side, conns)
    PROVE  SetupInv'
  <1>1. form \in Form /\ request \in [{"wizard", "page"} -> {NoRequest} \cup Sending] /\ maps \in [MapIds -> {NoMap} \cup Mapping]
    BY DEF SetupInv, SetupTypes
  <1>2. PICK was \in {None} \cup Conn : was = IF id = 0 THEN None ELSE conns[id]
    BY DEF SetupInv, SetupTypes
  <1>3. PICK b \in Sending : b = [op |-> op, side |-> side, id |-> id, type |-> t, values |-> v, heard |-> TRUE, row |-> was]
    BY DEF Sending
  <1>4. request' = [request EXCEPT ![who] = b]
    BY <1>2, <1>3 DEF Ask
  <1>5. b.op = op /\ b.side = side /\ b.id = id /\ b.type = t /\ b.row = was
    BY <1>3
  <1>6. op # "add" => conns[id] \in Conn /\ conns[id].role = side /\ was = conns[id]
    BY <1>2 DEF Held
  <1>7. SendingHolds(b, conns)
    BY <1>5, <1>6 DEF SendingHolds
  <1>8. request' \in [{"wizard", "page"} -> {NoRequest} \cup Sending] /\ \A w \in {"wizard", "page"} : request'[w] = request[w] \/ request'[w] = b
    BY <1>1, <1>4
  <1> QED BY <1>1, <1>7, <1>8, ConnsRest, SetupKeeps

\* The tests and additions of the wizard and of the page.
AskNext ==
    \/ \E side \in Sides : saveSide(side)
    \/ \E side \in Sides : \E t \in IF side = "source" THEN SourceTypes ELSE TargetTypes :
            \E v \in Entries[side][t] : PageAdd(side, t, v)
    \/ \E id \in Ids : PageTest(id)
    \/ \E id \in {i \in Ids : Live(i)} :
            \E v \in Entries[conns[id].role][wizardTypeForConnectionKind(conns[id].kind)] : PageRotate(id, v)

\* A row that is live is a row.
LEMMA LiveIs ==
    ASSUME SetupTypes, NEW id \in {0} \cup Ids, Live(id)
    PROVE  id \in Ids /\ conns[id] \in Conn /\ conns[id].role \in Sides /\ conns[id].kind \in SourceKinds \cup AllTargetTypes
           /\ Held(id, conns[id].role, conns)
  <1>1. id \in Ids /\ conns[id] \in {None} \cup Conn /\ conns[id].role # "none"
    BY DEF Live, SetupTypes
  <1>2. None.role = "none"
    BY DEF None
  <1>3. conns[id] \in Conn
    BY <1>1, <1>2
  <1> QED BY <1>1, <1>3 DEF Held, Conn

\* What the form sends was typed.
LEMMA BuiltIs ==
    ASSUME NEW f \in Form, f = form
    PROVE  /\ builtSourceConfig \in Values /\ builtSourceConfig.user = form.typed.source.user
           /\ builtSourceConfig.keys = form.typed.source.keys \cap Sent(form.type.source)
           /\ builtSourceConfig.userId = IF form.type.source = "box" THEN form.typed.source.userId ELSE ""
           /\ builtSourceConfig.works = form.typed.source.works
  <1>1. PICK w \in Values : w = form.typed.source
    BY FormIs
  <1>2. w.keys \cap Sent(form.type.source) \subseteq w.keys
    OBVIOUS
  <1>3. PICK k : k = w.keys \cap Sent(form.type.source)
    OBVIOUS
  <1>4. PICK u \in Accounts \cup {""} : u = IF form.type.source = "box" THEN w.userId ELSE ""
    BY DEF Values
  <1>5. builtSourceConfig = [w EXCEPT !.keys = k, !.userId = u]
    BY <1>1, <1>3, <1>4 DEF builtSourceConfig
  <1>6. k \in SUBSET (Consent \cup App \cup {"host", "port", "password", "serviceAccountKey"})
    BY <1>3 DEF Values
  <1>7. [w EXCEPT !.keys = k, !.userId = u] \in Values
    BY <1>6 DEF Values
  <1>8. /\ [w EXCEPT !.keys = k, !.userId = u].keys = k /\ [w EXCEPT !.keys = k, !.userId = u].userId = u
        /\ [w EXCEPT !.keys = k, !.userId = u].user = w.user /\ [w EXCEPT !.keys = k, !.userId = u].works = w.works
    BY DEF Values
  <1> QED BY <1>1, <1>3, <1>4, <1>5, <1>7, <1>8

\* Sending a request keeps the invariant.
LEMMA AskSteps ==
    ASSUME SetupInv, AskNext
    PROVE  SetupInv'
  <1>1. SetupTypes /\ form \in Form
    BY DEF SetupInv, SetupTypes
  <1>2. ASSUME NEW side \in Sides, saveSide(side)
        PROVE  SetupInv'
    <2>1. UNCHANGED <<conns, maps, form, deleting>>
      BY <1>2 DEF saveSide
    <2>2. PICK v \in Values : v = credentialValuesFor(side)
      BY <1>1, BuiltIs, FormIs DEF credentialValuesFor
    <2>3. PICK t : t = form.type[side] /\ t \in (IF side = "source" THEN AllSourceTypes ELSE AllTargetTypes)
      BY <1>1, FormIs DEF Sides
    <2>4. PICK i \in MaybeId : i = form.conn[side]
      BY <1>1, FormIs
    <2>5. PICK j \in MaybeId : j = form.draft[side]
      BY <1>1, FormIs
    <2>6. Held(i, side, conns) /\ Held(j, side, conns)
      BY <2>4, <2>5 DEF SetupInv
    <2>7. \/ i # 0 /\ Ask("wizard", "test", side, i, t, v)
          \/ j # 0 /\ Ask("wizard", "rotate", side, j, t, v)
          \/ Ask("wizard", "add", side, 0, t, v)
      BY <1>2, <2>2, <2>3, <2>4, <2>5 DEF saveSide
    <2>8. i \in {0} \cup Ids /\ j \in {0} \cup Ids /\ t \in AllSourceTypes \cup AllTargetTypes \cup {""}
      BY <2>3 DEF MaybeId
    <2>9. CASE i # 0 /\ Ask("wizard", "test", side, i, t, v)
      BY <2>1, <2>3, <2>6, <2>8, <2>9, AskKeeps
    <2>10. CASE j # 0 /\ Ask("wizard", "rotate", side, j, t, v)
      BY <2>1, <2>3, <2>6, <2>8, <2>10, AskKeeps
    <2>11. CASE Ask("wizard", "add", side, 0, t, v)
      BY <2>1, <2>3, <2>6, <2>8, <2>11, AskKeeps
    <2> QED BY <2>7, <2>9, <2>10, <2>11
  <1>3. ASSUME NEW side \in Sides, NEW t \in IF side = "source" THEN SourceTypes ELSE TargetTypes, NEW v \in Entries[side][t], PageAdd(side, t, v)
        PROVE  SetupInv'
    <2>1. t \in (IF side = "source" THEN AllSourceTypes ELSE AllTargetTypes) /\ v \in Values
      BY SetupAssumption
    <2>2. Ask("page", "add", side, 0, t, v) /\ UNCHANGED <<conns, maps, form, deleting>>
      BY <1>3 DEF PageAdd
    <2>3. t \in AllSourceTypes \cup AllTargetTypes \cup {""}
      BY <2>1
    <2> QED BY <2>1, <2>2, <2>3, AskKeeps
  <1>4. ASSUME NEW id \in Ids, PageTest(id)
        PROVE  SetupInv'
    <2>1. PICK r \in Sides : r = conns[id].role /\ Held(id, r, conns)
      BY <1>1, <1>4, LiveIs DEF PageTest
    <2>2. Ask("page", "test", r, id, "", Blank) /\ UNCHANGED <<conns, maps, form, deleting>>
      BY <1>4, <2>1 DEF PageTest
    <2>3. Blank \in Values
      BY DEF Blank, Values
    <2>4. id # 0
      BY NothingIs
    <2> QED BY <2>1, <2>2, <2>3, <2>4, AskKeeps
  <1>5. ASSUME NEW id \in {i \in Ids : Live(i)}, NEW v \in Entries[conns[id].role][wizardTypeForConnectionKind(conns[id].kind)], PageRotate(id, v)
        PROVE  SetupInv'
    <2>1. PICK r \in Sides : r = conns[id].role /\ Held(id, r, conns)
      BY <1>1, <1>5, LiveIs
    <2>2. Ask("page", "rotate", r, id, "", v) /\ UNCHANGED <<conns, maps, form, deleting>>
      BY <1>5, <2>1 DEF PageRotate
    <2>3. v \in Values
      <3>1. wizardTypeForConnectionKind(conns[id].kind) \in AllSourceTypes \cup AllTargetTypes
        <4>1. PICK k \in SourceKinds \cup AllTargetTypes : k = conns[id].kind
          BY <1>1, <1>5, LiveIs
        <4>2. wizardTypeForConnectionKind(k) \in AllSourceTypes \cup AllTargetTypes
          BY KindIs
        <4> QED BY <4>1, <4>2
      <3> QED BY <2>1, <3>1, SetupAssumption
    <2>4. id # 0
      BY NothingIs
    <2> QED BY <2>1, <2>2, <2>3, <2>4, AskKeeps
  <1> QED BY <1>2, <1>3, <1>4, <1>5 DEF AskNext

\* One row is made or evolves.
LEMMA RowChanges ==
    ASSUME SetupInv, NEW i \in Ids, NEW d \in Conn, conns' = [conns EXCEPT ![i] = d], RowSound(d),
           conns[i] = None \/ Evolves(conns[i], d)
    PROVE  /\ conns' \in [Ids -> {None} \cup Conn] /\ conns'[i] = d
           /\ \A j \in Ids : conns[j] \in Conn => Evolves(conns[j], conns'[j])
           /\ \A j \in Ids : conns'[j] \in Conn => RowSound(conns'[j])
  <1>1. conns \in [Ids -> {None} \cup Conn] /\ \A j \in Ids : conns[j] \in Conn => RowSound(conns[j])
    BY DEF SetupInv, SetupTypes
  <1>2. conns'[i] = d /\ \A j \in Ids : j # i => conns'[j] = conns[j]
    BY <1>1
  <1>3. conns' \in [Ids -> {None} \cup Conn]
    BY <1>1
  <1>4. \A j \in Ids : conns[j] \in Conn => Evolves(conns[j], conns'[j])
    BY <1>2, EvolvesSame, NothingIs
  <1> QED BY <1>1, <1>2, <1>3, <1>4

\* A request is answered.
LEMMA AnsweredIs ==
    ASSUME SetupInv, NEW who \in {"wizard", "page"}, Answered(who)
    PROVE  /\ request' \in [{"wizard", "page"} -> {NoRequest} \cup Sending]
           /\ \A w \in {"wizard", "page"} : request'[w] = request[w] \/ SendingHolds(request'[w], conns')
  <1>1. request \in [{"wizard", "page"} -> {NoRequest} \cup Sending]
    BY DEF SetupInv, SetupTypes
  <1>2. \A w \in {"wizard", "page"} : request'[w] = request[w] \/ request'[w] = NoRequest
    BY <1>1 DEF Answered
  <1>3. request' \in [{"wizard", "page"} -> {NoRequest} \cup Sending]
    BY <1>1 DEF Answered
  <1> QED BY <1>2, <1>3 DEF SendingHolds

\* What a request under way is known to be.
LEMMA SendingIs ==
    ASSUME SetupInv, NEW who \in {"wizard", "page"}, request[who].op # "none"
    PROVE  request[who] \in Sending /\ request[who] # NoRequest /\ SendingHolds(request[who], conns)
  BY NothingIs DEF SetupInv, SetupTypes

\* A request refused changes nothing else.
LEMMA RefuseStep ==
    ASSUME SetupInv, NEW who \in {"wizard", "page"}, Refuse(who)
    PROVE  SetupInv'
  <1>1. Answered(who) /\ UNCHANGED <<conns, maps, form, deleting>>
    BY DEF Refuse
  <1>2. form \in Form /\ maps \in [MapIds -> {NoMap} \cup Mapping]
    BY DEF SetupInv, SetupTypes
  <1> QED BY <1>1, <1>2, AnsweredIs, ConnsRest, SetupKeeps

\* A connection added is one that a probe found to work, or says that it was not.
LEMMA AddStep ==
    ASSUME SetupInv, NEW who \in {"wizard", "page"}, Add(who)
    PROVE  SetupInv' /\ \A i \in Ids : conns[i] \in Conn => Evolves(conns[i], conns'[i])
  <1>1. PICK a : a = request[who]
    OBVIOUS
  <1>2. a \in Sending /\ a.op = "add" /\ SendingHolds(a, conns) /\ a # NoRequest
    BY <1>1, SendingIs DEF Add
  <1>3. /\ a.side \in Sides /\ a.values \in Values /\ a.heard \in BOOLEAN
        /\ a.type \in (IF a.side = "source" THEN AllSourceTypes ELSE AllTargetTypes)
    BY <1>2 DEF Sending, SendingHolds
  <1>4. PICK kind \in SourceKinds \cup AllTargetTypes :
            /\ kind = KindOf(a.side, a.type)
            /\ a.side = "source" => kind \in SourceKinds
            /\ a.side = "target" => kind \in AllTargetTypes
    BY <1>3, KindIs DEF KindOf, Sides
  <1>5. PICK config \in Config : config = IF a.side = "source" THEN sourceConnectionConfig(a.type, a.values) ELSE targetConnectionConfig("", a.values)
    BY <1>3, ConfigIs
  <1>6. PICK creds \in Creds : creds = CredentialRecord(a.side, a.type, a.values)
    BY <1>3, ConfigIs DEF CredentialRecord
  <1>7. PICK ok \in BOOLEAN : ok = Probe(a.side, kind, config, creds)
    BY DEF Probe, probeSourceConnection, probeTargetConnection
  <1>8. credentialFieldsFor(a.side, a.type) \subseteq Given(a.values) /\ Answered(who) /\ UNCHANGED <<maps, deleting>>
    BY <1>1 DEF Add
  <1>9. PICK id \in Fresh : /\ conns' = [conns EXCEPT ![id] = Row(a.side, kind, config, creds, IF ok THEN "connected" ELSE "error", 0)]
                            /\ form' = IF ~Heard(who) THEN form
                                       ELSE [form EXCEPT !.draft[a.side] = id, !.conn[a.side] = IF ok THEN id ELSE @]
    BY <1>1, <1>4, <1>5, <1>6, <1>7 DEF Add
  <1>10. PICK d \in Conn : d = Row(a.side, kind, config, creds, IF ok THEN "connected" ELSE "error", 0)
    BY <1>3 DEF Row, Conn
  <1>11. /\ d.role = a.side /\ d.kind = kind /\ d.config = config /\ d.creds = creds /\ d.with = 0
         /\ d.status = IF ok THEN "connected" ELSE "error"
    BY <1>10 DEF Row
  <1>12. RowSound(d)
    <2>1. d.status = "connected" => ProbeOf(d)
      BY <1>7, <1>11 DEF ProbeOf
    <2>2. CASE a.side = "source"
      <3>1. kind = "gmail" => config.type = "gmail"
        <4> SUFFICES ASSUME kind = "gmail" PROVE config.type = "gmail"
          OBVIOUS
        <4>1. a.type \in AllSourceTypes /\ sourceKindFor(a.type) = "gmail"
          BY <1>3, <1>4, <2>2 DEF KindOf
        <4>2. a.type = "gmail"
          BY <4>1 DEF sourceKindFor, O365Types
        <4>3. sourceConnectionConfig("gmail", a.values).type = "gmail"
          BY GmailConfig
        <4> QED BY <1>5, <2>2, <4>2, <4>3
      <3>2. d.kind \notin {"imap", "o365"} /\ d.status = "connected" => Builds(d)
        BY <1>4, <1>11, <2>1, <2>2, ProbeBuilds
      <3> QED BY <1>4, <1>11, <2>1, <2>2, <3>1, <3>2 DEF RowSound
    <2>3. CASE a.side = "target"
      <3>1. config.host = TRUE /\ creds = targetCredentialRecord(a.values)
        BY <1>3, <1>5, <1>6, <2>3, ConfigIs DEF CredentialRecord
      <3>2. TARGET_FIELDS \subseteq Given(a.values)
        BY <1>8, <2>3 DEF credentialFieldsFor
      <3>3. davEndpointFromCreds(config, creds)
        BY <1>3, <3>1, <3>2, TargetReached
      <3> QED BY <1>4, <1>11, <2>1, <2>3, <3>3 DEF RowSound
    <2> QED BY <1>3, <2>2, <2>3 DEF Sides
  <1>13. id \in Ids /\ conns[id] = None
    BY DEF Fresh
  <1>14. /\ conns' \in [Ids -> {None} \cup Conn] /\ conns'[id] = d
         /\ \A j \in Ids : conns[j] \in Conn => Evolves(conns[j], conns'[j])
         /\ \A j \in Ids : conns'[j] \in Conn => RowSound(conns'[j])
    BY <1>9, <1>10, <1>12, <1>13, RowChanges
  <1>15. Held(id, a.side, conns')
    BY <1>11, <1>13, <1>14 DEF Held
  <1>16. form \in Form /\ maps \in [MapIds -> {NoMap} \cup Mapping]
    BY DEF SetupInv, SetupTypes
  <1>17. /\ form' \in Form
         /\ \A side \in Sides : form'.conn[side] = form.conn[side] \/ Held(form'.conn[side], side, conns')
         /\ \A side \in Sides : form'.draft[side] = form.draft[side] \/ Held(form'.draft[side], side, conns')
    <2>1. CASE ~Heard(who)
      BY <1>9, <1>16, <2>1
    <2>2. CASE Heard(who)
      <3>1. PICK s \in Sides : s = a.side
        BY <1>3
      <3>2. PICK j \in MaybeId : j = IF ok THEN id ELSE form.conn[s]
        BY <1>13, <1>16, <3>1, FormIs DEF MaybeId
      <3>3. id \in MaybeId
        BY <1>13 DEF MaybeId
      <3>4. PICK g \in Form : g = [form EXCEPT !.draft[s] = id] /\ g.conn = form.conn /\ g.draft = [form.draft EXCEPT ![s] = id]
        <4>1. [form EXCEPT !.draft[s] = id] \in Form /\ [form EXCEPT !.draft[s] = id].conn = form.conn
              /\ [form EXCEPT !.draft[s] = id].draft = [form.draft EXCEPT ![s] = id]
          BY <1>16, <3>3, DraftedIs
        <4> QED BY <4>1
      <3>5. form' = [g EXCEPT !.conn[s] = j]
        BY <1>9, <2>2, <3>1, <3>2, <3>4 DEF Form
      <3>6. form' \in Form /\ form'.draft = g.draft /\ form'.conn = [g.conn EXCEPT ![s] = j]
        BY <3>5, ChosenIs
      <3>7. \A side \in Sides : form'.draft[side] = form.draft[side] \/ (side = s /\ form'.draft[side] = id)
        BY <1>16, <3>4, <3>6, FormIs
      <3>8. \A side \in Sides : form'.conn[side] = form.conn[side] \/ (side = s /\ form'.conn[side] = id)
        BY <1>16, <3>2, <3>4, <3>6, FormIs
      <3> QED BY <1>15, <3>1, <3>6, <3>7, <3>8
    <2> QED BY <2>1, <2>2
  <1> QED BY <1>8, <1>14, <1>16, <1>17, AnsweredIs, SetupKeeps

\* A test changes the status alone, and says what is so of the row it was sent with
\* and of the one there now.
LEMMA TestStep ==
    ASSUME SetupInv, NEW who \in {"wizard", "page"}, Test(who)
    PROVE  SetupInv' /\ \A i \in Ids : conns[i] \in Conn => Evolves(conns[i], conns'[i])
  <1>1. PICK a : a = request[who]
    OBVIOUS
  <1>2. a \in Sending /\ a.op = "test" /\ SendingHolds(a, conns) /\ a # NoRequest
    BY <1>1, SendingIs DEF Test
  <1>3. PICK i \in Ids : i = a.id /\ conns[i] \in Conn
    BY <1>2 DEF SendingHolds, Held
  <1>4. PICK c \in Conn : c = conns[i]
    BY <1>3
  <1>5. PICK s \in {"connected", "error"} : s = IF ProbeOf(a.row) THEN "connected" ELSE "error"
    OBVIOUS
  <1>6. PICK d \in Conn : d = [c EXCEPT !.status = s]
    BY DEF Conn
  <1>7. /\ d.role = c.role /\ d.kind = c.kind /\ d.config = c.config /\ d.creds = c.creds /\ d.with = c.with /\ d.live = c.live
        /\ d.status = s
    BY <1>6 DEF Conn
  <1>8. conns' = [conns EXCEPT ![i] = d]
    BY <1>1, <1>3, <1>4, <1>5, <1>6 DEF Test, ProbeOf
  <1>9. s = "connected" => ProbeOf(c) /\ ProbeOf(d)
    <2> SUFFICES ASSUME ProbeOf(a.row) PROVE ProbeOf(c) /\ ProbeOf(d)
      BY <1>5
    <2>1. /\ a.row.role = c.role /\ a.row.kind = c.kind /\ a.row.config = c.config
          /\ a.row.creds = c.creds \/ ProbeOf(c)
      BY <1>2, <1>3, <1>4 DEF SendingHolds, Held
    <2>2. ProbeOf(c)
      BY <2>1 DEF ProbeOf
    <2> QED BY <1>7, <2>2 DEF ProbeOf
  <1>10. RowSound(c)
    BY <1>3, <1>4 DEF SetupInv
  <1>11. RowSound(d)
    <2>1. Builds(c) => Builds(d)
      BY <1>7 DEF Builds
    <2>2. d.role = "source" /\ d.kind \notin {"imap", "o365"} /\ (d.with # 0 \/ d.status = "connected") => Builds(d)
      <3>1. CASE d.with # 0
        BY <1>7, <1>10, <2>1, <3>1 DEF RowSound
      <3>2. CASE d.status = "connected" /\ d.role = "source" /\ d.kind \notin {"imap", "o365"}
        <4>1. c.kind \in SourceKinds \ {"imap", "o365"} /\ c.role = "source"
          BY <1>7, <1>10, <3>2 DEF RowSound
        <4> QED BY <1>7, <1>9, <2>1, <3>2, <4>1, ProbeBuilds
      <3> QED BY <3>1, <3>2
    <2> QED BY <1>7, <1>9, <1>10, <2>2 DEF RowSound
  <1>12. Evolves(c, d)
    BY <1>7 DEF Evolves
  <1>13. form \in Form /\ maps \in [MapIds -> {NoMap} \cup Mapping] /\ Answered(who) /\ UNCHANGED <<maps, form, deleting>>
    BY DEF SetupInv, SetupTypes, Test
  <1>14. /\ conns' \in [Ids -> {None} \cup Conn]
         /\ \A j \in Ids : conns[j] \in Conn => Evolves(conns[j], conns'[j])
         /\ \A j \in Ids : conns'[j] \in Conn => RowSound(conns'[j])
    BY <1>4, <1>8, <1>11, <1>12, RowChanges
  <1> QED BY <1>13, <1>14, AnsweredIs, SetupKeeps

\* A rotation puts in a credential the provider took, or none.
LEMMA RotateStep ==
    ASSUME SetupInv, NEW who \in {"wizard", "page"}, Rotate(who)
    PROVE  SetupInv' /\ \A i \in Ids : conns[i] \in Conn => Evolves(conns[i], conns'[i])
  <1>1. PICK a : a = request[who]
    OBVIOUS
  <1>2. a \in Sending /\ a.op = "rotate" /\ SendingHolds(a, conns) /\ a # NoRequest
    BY <1>1, SendingIs DEF Rotate
  <1>3. PICK i \in Ids : i = a.id /\ conns[i] \in Conn
    BY <1>2 DEF SendingHolds, Held
  <1>4. PICK c \in Conn : c = conns[i]
    BY <1>3
  <1>5. /\ a.side \in Sides /\ a.values \in Values /\ a.row.role = a.side /\ c.role = a.side /\ a.row.kind = c.kind /\ a.row.config = c.config
        /\ RowSound(c)
    BY <1>2, <1>3, <1>4 DEF Sending, SendingHolds, Held, SetupInv
  <1>6. PICK t : t = wizardTypeForConnectionKind(c.kind) /\ (a.side = "source" => t \in AllSourceTypes)
    BY <1>5, KindIs DEF RowSound
  <1>7. PICK creds \in Creds : creds = CredentialRecord(a.side, t, a.values)
    BY <1>5, <1>6, ConfigIs DEF CredentialRecord
  <1>8. credentialFieldsFor(a.side, t) \subseteq Given(a.values) /\ Answered(who) /\ UNCHANGED <<maps, deleting>> /\ conns' = Rotated(a, creds)
    BY <1>1, <1>5, <1>6, <1>7 DEF Rotate
  <1>9. form' = form \/ form' = [form EXCEPT !.conn[a.side] = i]
    BY <1>1, <1>3 DEF Rotate
  <1>10. PICK d \in Conn : d = [c EXCEPT !.creds = creds, !.status = "connected"]
    BY DEF Conn
  <1>11. /\ d.role = c.role /\ d.kind = c.kind /\ d.config = c.config /\ d.creds = creds /\ d.with = c.with /\ d.live = c.live
         /\ d.status = "connected"
    BY <1>10 DEF Conn
  <1>12. UNCHANGED conns \/ (ProbeOf(d) /\ conns' = [conns EXCEPT ![i] = d])
    <2>1. CASE Probe(c.role, c.kind, c.config, creds)
      <3>1. conns \in [Ids -> {None} \cup Conn]
        BY DEF SetupInv, SetupTypes
      <3>2. conns' = [conns EXCEPT ![i].creds = creds, ![i].status = "connected"]
        BY <1>3, <1>5, <1>8, <2>1 DEF Rotated
      <3>3. conns' = [conns EXCEPT ![i] = d]
        BY <1>3, <1>4, <1>10, <3>1, <3>2
      <3> QED BY <1>11, <2>1, <3>3 DEF ProbeOf
    <2>2. CASE ~Probe(c.role, c.kind, c.config, creds)
      BY <1>5, <1>8, <2>2 DEF Rotated
    <2> QED BY <2>1, <2>2
  <1>13. ProbeOf(d) => RowSound(d)
    <2> SUFFICES ASSUME ProbeOf(d) PROVE RowSound(d)
      OBVIOUS
    <2>1. CASE a.side = "source"
      <3>1. d.role = "source" /\ d.kind \in SourceKinds /\ (d.kind = "gmail" => d.config.type = "gmail")
        BY <1>5, <1>11, <2>1 DEF RowSound
      <3>2. d.kind \notin {"imap", "o365"} => Builds(d)
        BY <3>1, ProbeBuilds
      <3> QED BY <3>1, <3>2 DEF RowSound
    <2>2. CASE a.side = "target"
      <3>1. c.kind \in AllTargetTypes /\ davEndpointFromCreds(c.config, c.creds)
        BY <1>5, <2>2 DEF RowSound
      <3>2. c.config.host = TRUE
        <4>1. c.config.host \in BOOLEAN
          BY DEF Conn, Config
        <4> QED BY <3>1, <4>1 DEF davEndpointFromCreds
      <3>3. TARGET_FIELDS \subseteq Given(a.values) /\ creds = targetCredentialRecord(a.values)
        BY <1>7, <1>8, <2>2 DEF credentialFieldsFor, CredentialRecord
      <3>4. davEndpointFromCreds(c.config, creds) /\ "password" \in creds.keys
        BY <1>5, <3>2, <3>3, TargetReached
      <3>5. c.with # 0 /\ c.kind \in {"jmap", "imap"} => buildTargetWriterFromCredentials(c.config, creds)
        BY <1>5, <2>2, <3>4 DEF RowSound, buildTargetWriterFromCredentials
      <3> QED BY <1>5, <1>11, <2>2, <3>1, <3>4, <3>5 DEF RowSound
    <2> QED BY <1>5, <2>1, <2>2 DEF Sides
  <1>14. ProbeOf(d) => Evolves(c, d)
    BY <1>11 DEF Evolves
  <1>15. /\ conns' \in [Ids -> {None} \cup Conn]
         /\ \A j \in Ids : conns[j] \in Conn => Evolves(conns[j], conns'[j])
         /\ \A j \in Ids : conns'[j] \in Conn => RowSound(conns'[j])
    <2>1. CASE UNCHANGED conns
      BY <2>1, ConnsRest
    <2>2. CASE ProbeOf(d) /\ conns' = [conns EXCEPT ![i] = d]
      BY <1>4, <1>13, <1>14, <2>2, RowChanges
    <2> QED BY <1>12, <2>1, <2>2
  <1>16. form \in Form /\ maps \in [MapIds -> {NoMap} \cup Mapping]
    BY DEF SetupInv, SetupTypes
  <1>17. /\ form' \in Form
         /\ \A side \in Sides : form'.conn[side] = form.conn[side] \/ Held(form'.conn[side], side, conns')
         /\ form'.draft = form.draft
    <2>1. CASE form' = form
      BY <1>16, <2>1
    <2>2. CASE form' = [form EXCEPT !.conn[a.side] = i]
      <3>1. PICK s \in Sides : s = a.side
        BY <1>5
      <3>2. i \in MaybeId
        BY DEF MaybeId
      <3>3. form' \in Form /\ form'.draft = form.draft /\ form'.conn = [form.conn EXCEPT ![s] = i]
        BY <1>16, <2>2, <3>1, <3>2, ChosenIs
      <3>4. \A side \in Sides : form'.conn[side] = form.conn[side] \/ (side = s /\ form'.conn[side] = i)
        BY <1>16, <3>3, FormIs
      <3>5. Held(i, s, conns')
        <4>1. Evolves(conns[i], conns'[i])
          BY <1>3, <1>15
        <4> QED BY <1>4, <1>5, <3>1, <4>1 DEF Held, Evolves
      <3> QED BY <3>3, <3>4, <3>5
    <2> QED BY <1>9, <2>1, <2>2
  <1> QED BY <1>8, <1>15, <1>16, <1>17, AnsweredIs, SetupKeeps

\* A connection is looked at and deleted.
LEMMA DeleteSteps ==
    ASSUME SetupInv, (\E id \in Ids : DeleteConnectionChecks(id)) \/ DeleteConnection \/ (\E m \in MapIds : DeleteMapping(m))
    PROVE  SetupInv' /\ \A i \in Ids : conns[i] \in Conn => Evolves(conns[i], conns'[i])
  <1>1. /\ SetupTypes /\ form \in Form /\ maps \in [MapIds -> {NoMap} \cup Mapping] /\ request \in [{"wizard", "page"} -> {NoRequest} \cup Sending]
        /\ \A i \in Ids : conns[i] \in Conn => Evolves(conns[i], conns[i])
    BY EvolvesSame DEF SetupInv, SetupTypes
  <1>2. ASSUME NEW id \in Ids, DeleteConnectionChecks(id)
        PROVE  SetupInv' /\ \A i \in Ids : conns[i] \in Conn => Evolves(conns[i], conns'[i])
    <2>1. deleting' = id /\ Live(id) /\ UNCHANGED <<conns, maps, form, request>>
      BY <1>2 DEF DeleteConnectionChecks
    <2>2. conns[id] \in Conn
      BY <1>1, <2>1, LiveIs
    <2> QED BY <1>1, <2>1, <2>2, ConnsRest, SetupKeeps
  <1>3. CASE DeleteConnection
    <2>1. PICK i \in Ids : i = deleting /\ conns[i] \in Conn
      BY <1>1, <1>3 DEF DeleteConnection, SetupInv, SetupTypes
    <2>2. PICK c \in Conn : c = conns[i]
      BY <2>1
    <2>3. PICK d \in Conn : d = [c EXCEPT !.live = FALSE]
      BY DEF Conn
    <2>4. /\ d.role = c.role /\ d.kind = c.kind /\ d.config = c.config /\ d.creds = c.creds /\ d.with = c.with /\ d.status = c.status
          /\ d.live = FALSE
      BY <2>3 DEF Conn
    <2>5. conns' = [conns EXCEPT ![i] = d]
      BY <1>3, <2>1, <2>2, <2>3 DEF DeleteConnection
    <2>6. Evolves(c, d)
      BY <2>4 DEF Evolves
    <2>7. RowSound(d)
      <3>1. RowSound(c)
        BY <2>1, <2>2 DEF SetupInv
      <3>2. (Builds(c) => Builds(d)) /\ (ProbeOf(c) => ProbeOf(d))
        BY <2>4 DEF Builds, ProbeOf
      <3> QED BY <2>4, <3>1, <3>2 DEF RowSound
    <2>8. /\ conns' \in [Ids -> {None} \cup Conn]
          /\ \A j \in Ids : conns[j] \in Conn => Evolves(conns[j], conns'[j])
          /\ \A j \in Ids : conns'[j] \in Conn => RowSound(conns'[j])
      BY <2>2, <2>5, <2>6, <2>7, RowChanges
    <2>9. ASSUME NEW m \in MapIds
          PROVE  maps'[m] \in {NoMap} \cup Mapping /\ (maps'[m] = maps[m] \/ MappingHolds(maps'[m], conns'))
      <3>1. maps'[m] = CASE maps[m].src = i -> NoMap
                         [] maps[m].src # i /\ maps[m].src # 0 /\ maps[m].tgt = i -> [maps[m] EXCEPT !.tgt = 0]
                         [] OTHER -> maps[m]
        BY <1>3, <2>1 DEF DeleteConnection
      <3>2. CASE maps[m].src = i
        <4>1. maps'[m] = NoMap
          BY <3>1, <3>2
        <4> QED BY <4>1 DEF MappingHolds
      <3>3. CASE maps[m].src # i /\ maps[m].src # 0 /\ maps[m].tgt = i
        <4>1. PICK p \in Mapping : p = maps[m]
          BY <1>1, <3>3, NothingIs
        <4>2. PICK q \in Mapping : q = [p EXCEPT !.tgt = 0]
          BY DEF Mapping
        <4>3. q.src = p.src /\ q.tgt = 0 /\ q.domains = p.domains /\ q.over = p.over /\ q.said = p.said
          BY <4>2 DEF Mapping
        <4>4. maps'[m] = q
          BY <3>1, <3>3, <4>1, <4>2
        <4>5. MappingHolds(p, conns')
          BY <2>8, <4>1, HeldEvolves DEF SetupInv
        <4>6. p # NoMap /\ q # NoMap
          BY NothingIs
        <4>7. MappingHolds(q, conns')
          BY <4>3, <4>5, <4>6 DEF MappingHolds, Held
        <4> QED BY <4>4, <4>7
      <3>4. CASE maps[m].src # i /\ ~(maps[m].src # 0 /\ maps[m].tgt = i)
        <4>1. maps'[m] = maps[m]
          BY <3>1, <3>4
        <4> QED BY <1>1, <4>1
      <3> QED BY <3>2, <3>3, <3>4
    <2>10. maps' \in [MapIds -> {NoMap} \cup Mapping]
      <3>1. \E F : maps' = [m \in MapIds |-> F[m]]
        <4> DEFINE F == [m \in MapIds |-> CASE maps[m].src = deleting -> NoMap
                                   [] maps[m].src # deleting /\ maps[m].src # 0 /\ maps[m].tgt = deleting
                                        -> [maps[m] EXCEPT !.tgt = 0]
                                   [] OTHER -> maps[m]]
        <4>1. maps' = F
          BY <1>3 DEF DeleteConnection
        <4>2. F = [m \in MapIds |-> F[m]]
          OBVIOUS
        <4> QED BY <4>1, <4>2
      <3> QED BY <2>9, <3>1
    <2>11. deleting' = 0 /\ UNCHANGED <<form, request>>
      BY <1>3 DEF DeleteConnection
    <2> QED BY <1>1, <2>8, <2>9, <2>10, <2>11, SetupKeeps
  <1>4. ASSUME NEW m \in MapIds, DeleteMapping(m)
        PROVE  SetupInv' /\ \A i \in Ids : conns[i] \in Conn => Evolves(conns[i], conns'[i])
    <2>1. maps' = [maps EXCEPT ![m] = NoMap] /\ UNCHANGED <<conns, form, request, deleting>>
      BY <1>4 DEF DeleteMapping
    <2>2. maps' \in [MapIds -> {NoMap} \cup Mapping] /\ \A n \in MapIds : maps'[n] = maps[n] \/ maps'[n] = NoMap
      BY <1>1, <2>1
    <2>3. MappingHolds(NoMap, conns')
      BY DEF MappingHolds
    <2> QED BY <1>1, <2>1, <2>2, <2>3, ConnsRest, SetupKeeps
  <1> QED BY <1>2, <1>3, <1>4

\* What the wizard insists on before it sends the form.
LEMMA NothingMissing ==
    ASSUME NEW f \in Form, f = form, NEW side \in Sides, sideStepMissing(side) = {}, form.conn[side] = 0
    PROVE  /\ side = "target" => TARGET_FIELDS \subseteq Given(form.typed.target)
           /\ side = "source" =>
                 LET v == builtSourceConfig
                     t == form.type.source
                 IN t \notin O365Types \cup {"imap"} =>
                       /\ v.user # ""
                       /\ t \in GoogleTypes => ("serviceAccountKey" \in v.keys \/ Consent \subseteq v.keys)
                       /\ t = "dropbox" => Consent \subseteq v.keys
                       /\ t = "box" => {"clientId", "clientSecret"} \subseteq v.keys /\ v.userId # ""
  <1>1. CASE side = "target"
    <2>1. PICK w \in Values : w = form.typed.target
      BY FormIs
    <2>2. PICK t \in AllTargetTypes : t = form.type.target
      BY FormIs
    <2>3. form.type[side] = t /\ form.typed[side] = w
      BY <1>1, <2>1, <2>2, FormIs
    <2> DEFINE N == CASE side = "target" -> TARGET_FIELDS
                  [] t = "dropbox" -> {"username"} \cup Consent
                  [] t = "box" -> {"username", "clientId", "clientSecret", "userId"}
                  [] t \in GoogleTypes -> {"username"} \cup
                        (IF "serviceAccountKey" \in w.keys THEN {} ELSE Consent)
                  [] t \in O365Types -> {"username"} \cup App
                  [] OTHER -> {"username", "host", "port"}
    <2>4. N \ Given(w) = {}
      BY <2>3 DEF sideStepMissing
    <2>5. N = TARGET_FIELDS
      BY <1>1 DEF GoogleTypes, O365Types, AllTargetTypes
    <2> HIDE DEF N
    <2>6. TARGET_FIELDS \subseteq Given(w)
      BY <2>4, <2>5
    <2> QED BY <1>1, <2>1, <2>6
  <1>2. CASE side = "source"
    <2> SUFFICES ASSUME form.type.source \notin O365Types \cup {"imap"}
                 PROVE  /\ builtSourceConfig.user # ""
                        /\ form.type.source \in GoogleTypes => ("serviceAccountKey" \in builtSourceConfig.keys \/ Consent \subseteq builtSourceConfig.keys)
                        /\ form.type.source = "dropbox" => Consent \subseteq builtSourceConfig.keys
                        /\ form.type.source = "box" => {"clientId", "clientSecret"} \subseteq builtSourceConfig.keys /\ builtSourceConfig.userId # ""
      BY <1>2
    <2>1. PICK w \in Values : w = form.typed.source
      BY FormIs
    <2>2. PICK t \in AllSourceTypes \ (O365Types \cup {"imap"}) : t = form.type.source
      BY FormIs
    <2>3. builtSourceConfig.user = w.user /\ builtSourceConfig.keys = w.keys \cap Sent(t) /\ builtSourceConfig.userId = IF t = "box" THEN w.userId ELSE ""
      BY <2>1, <2>2, BuiltIs
    <2>4. PICK need : /\ need \subseteq Given(w)
                      /\ t = "dropbox" => need = {"username"} \cup Consent
                      /\ t = "box" => need = {"username", "clientId", "clientSecret", "userId"}
                      /\ t \in GoogleTypes => need = {"username"} \cup (IF "serviceAccountKey" \in w.keys THEN {} ELSE Consent)
      <3> DEFINE N == CASE side = "target" -> TARGET_FIELDS
                  [] t = "dropbox" -> {"username"} \cup Consent
                  [] t = "box" -> {"username", "clientId", "clientSecret", "userId"}
                  [] t \in GoogleTypes -> {"username"} \cup
                        (IF "serviceAccountKey" \in w.keys THEN {} ELSE Consent)
                  [] t \in O365Types -> {"username"} \cup App
                  [] OTHER -> {"username", "host", "port"}
      <3>1. N \ Given(w) = {}
        <4>1. form.type[side] = t /\ form.typed[side] = w
          BY <1>2, <2>1, <2>2, FormIs
        <4> QED BY <4>1 DEF sideStepMissing
      <3>2. /\ t = "dropbox" => N = {"username"} \cup Consent
            /\ t = "box" => N = {"username", "clientId", "clientSecret", "userId"}
            /\ t \in GoogleTypes => N = {"username"} \cup (IF "serviceAccountKey" \in w.keys THEN {} ELSE Consent)
        BY <1>2 DEF GoogleTypes, O365Types
      <3> HIDE DEF N
      <3>3. N \subseteq Given(w)
        BY <3>1
      <3> QED BY <3>2, <3>3
    <2>5. "username" \notin w.keys /\ "userId" \notin w.keys
      BY DEF Values, Consent, App
    <2>6. t = "dropbox" \/ t = "box" \/ t \in GoogleTypes
      BY DEF AllSourceTypes
    <2>7. w.user # ""
      <3>1. "username" \in Given(w)
        BY <2>4, <2>6
      <3> QED BY <2>5, <3>1 DEF Given
    <2>8. \A x \in Given(w) : x \notin {"username", "userId"} => x \in w.keys
      BY DEF Given
    <2>9. t \in GoogleTypes => ("serviceAccountKey" \in w.keys \cap Sent(t) \/ Consent \subseteq w.keys \cap Sent(t))
      <3> SUFFICES ASSUME t \in GoogleTypes PROVE "serviceAccountKey" \in w.keys \cap Sent(t) \/ Consent \subseteq w.keys \cap Sent(t)
        OBVIOUS
      <3>1. Sent(t) = Consent \cup {"serviceAccountKey"}
        BY DEF Sent, GoogleTypes
      <3>2. "serviceAccountKey" \notin w.keys => Consent \subseteq w.keys
        BY <2>4, <2>8 DEF Consent
      <3> QED BY <3>1, <3>2
    <2>10. t = "dropbox" => Consent \subseteq w.keys \cap Sent(t)
      <3> SUFFICES ASSUME t = "dropbox" PROVE Consent \subseteq w.keys \cap Sent(t)
        OBVIOUS
      <3>1. Sent(t) = Consent
        BY DEF Sent, GoogleTypes, O365Types
      <3>2. Consent \subseteq w.keys
        BY <2>4, <2>8 DEF Consent
      <3> QED BY <3>1, <3>2
    <2>11. t = "box" => {"clientId", "clientSecret"} \subseteq w.keys \cap Sent(t) /\ w.userId # ""
      <3> SUFFICES ASSUME t = "box" PROVE {"clientId", "clientSecret"} \subseteq w.keys \cap Sent(t) /\ w.userId # ""
        OBVIOUS
      <3>1. Sent(t) = {"clientId", "clientSecret"}
        BY DEF Sent, GoogleTypes, O365Types
      <3>2. {"clientId", "clientSecret", "userId"} \subseteq Given(w)
        BY <2>4
      <3>3. {"clientId", "clientSecret"} \subseteq w.keys
        BY <2>8, <3>2
      <3>4. w.userId # ""
        BY <2>5, <3>2 DEF Given
      <3> QED BY <3>1, <3>3, <3>4
    <2> QED BY <2>2, <2>3, <2>7, <2>9, <2>10, <2>11
  <1> QED BY <1>1, <1>2 DEF Sides

\* A connection made with a mapping can be opened.
LEMMA NewRowSound ==
    ASSUME NEW f \in Form, f = form, NEW side \in Sides, sideStepMissing(side) = {}, form.conn[side] = 0, NEW m \in MapIds,
           NEW b, b = (IF side = "source" THEN builtSourceConfig ELSE form.typed.target)
    PROVE  /\ NewRow(side, b, m) \in Conn /\ RowSound(NewRow(side, b, m))
           /\ NewRow(side, b, m).role = side /\ NewRow(side, b, m).kind = KindOf(side, form.type[side])
           /\ side = "source" => NewRow(side, b, m).config = sourceConnectionConfig(form.type.source, builtSourceConfig)
  <1>1. PICK t : /\ t = form.type[side] /\ t \in (IF side = "source" THEN AllSourceTypes ELSE AllTargetTypes)
    BY FormIs DEF Sides
  <1>2. b \in Values
    BY BuiltIs, FormIs
  <1>3. PICK config \in Config : config = IF side = "source" THEN sourceConnectionConfig(t, b) ELSE targetConnectionConfig(t, b)
    BY <1>1, <1>2, ConfigIs
  <1>4. PICK creds \in Creds : creds = CredentialRecord(side, t, b)
    BY <1>1, <1>2, ConfigIs DEF CredentialRecord
  <1>5. PICK kind \in SourceKinds \cup AllTargetTypes :
            kind = KindOf(side, t) /\ (side = "source" => kind \in SourceKinds) /\ (side = "target" => kind \in AllTargetTypes)
    BY <1>1, KindIs DEF KindOf, Sides
  <1>6. PICK d \in Conn : d = Row(side, kind, config, creds, "untested", m)
    BY DEF Row, Conn
  <1>7. /\ d.role = side /\ d.kind = kind /\ d.config = config /\ d.creds = creds /\ d.with = m /\ d.status = "untested"
    BY <1>6 DEF Row
  <1>8. NewRow(side, b, m) = d
    BY <1>1, <1>3, <1>4, <1>5, <1>6 DEF NewRow
  <1>9. RowSound(d)
    <2>1. CASE side = "source"
      <3>1. t \in AllSourceTypes /\ t = form.type.source /\ b = builtSourceConfig
        BY <1>1, <2>1, FormIs
      <3>2. kind \notin {"imap", "o365"} => t \notin O365Types \cup {"imap"}
        BY <1>5, <2>1 DEF KindOf, sourceKindFor, O365Types
      <3>3. kind \notin {"imap", "o365"} => Builds(d)
        <4> SUFFICES ASSUME kind \notin {"imap", "o365"} PROVE Builds(d)
          OBVIOUS
        <4>1. t \in AllSourceTypes \ (O365Types \cup {"imap"})
          BY <3>1, <3>2
        <4>2. d.kind = sourceKindFor(t) /\ d.config = sourceConnectionConfig(t, b) /\ d.creds = sourceCredentialRecord(t, b)
          BY <1>3, <1>4, <1>5, <1>7, <2>1 DEF KindOf, CredentialRecord
        <4>3. /\ b.user # "" /\ (t \in GoogleTypes => ("serviceAccountKey" \in b.keys \/ Consent \subseteq b.keys))
              /\ t = "dropbox" => Consent \subseteq b.keys
              /\ t = "box" => {"clientId", "clientSecret"} \subseteq b.keys /\ b.userId # ""
          BY <2>1, <3>1, <4>1, NothingMissing
        <4> QED BY <1>2, <4>1, <4>2, <4>3, SourceBuilt
      <3>4. kind = "gmail" => config.type = "gmail"
        <4> SUFFICES ASSUME kind = "gmail" PROVE config.type = "gmail"
          OBVIOUS
        <4>1. t = "gmail"
          BY <1>5, <2>1, <3>1 DEF KindOf, sourceKindFor, O365Types
        <4> QED BY <1>3, <2>1, <4>1, GmailConfig
      <3> QED BY <1>5, <1>7, <2>1, <3>3, <3>4 DEF RowSound
    <2>2. CASE side = "target"
      <3>1. t \in AllTargetTypes /\ b = form.typed.target /\ kind = t /\ creds = targetCredentialRecord(b) /\ config = targetConnectionConfig(t, b)
        BY <1>1, <1>3, <1>4, <1>5, <2>2 DEF KindOf, CredentialRecord
      <3>2. TARGET_FIELDS \subseteq Given(b) /\ config.host = TRUE
        BY <1>2, <2>2, <3>1, NothingMissing, ConfigIs
      <3>3. davEndpointFromCreds(config, creds) /\ "password" \in creds.keys
        BY <1>2, <3>1, <3>2, TargetReached
      <3>4. kind \in {"jmap", "imap"} => config.type \in {"jmap", "imap-dav"}
        BY <3>1 DEF targetConnectionConfig
      <3> QED BY <1>5, <1>7, <2>2, <3>3, <3>4 DEF RowSound, buildTargetWriterFromCredentials
    <2> QED BY <2>1, <2>2 DEF Sides
  <1>10. side = "source" => d.config = sourceConnectionConfig(form.type.source, builtSourceConfig)
    BY <1>1, <1>3, <1>7, FormIs
  <1> QED BY <1>1, <1>5, <1>7, <1>8, <1>9, <1>10

\* What a mapping is made from: a complete form, its new sides and their fresh rows, and
\* the rows reused.
Makes(new, id, body) ==
    /\ id \in [Sides -> Ids]
    /\ body = [source |-> builtSourceConfig, target |-> form.typed.target]
    /\ new = {side \in Sides : form.conn[side] = 0}
    /\ \A side \in Sides : sideStepMissing(side) = {}
    /\ \A side \in Sides \ new : reuseConnection(side)
    /\ \A side \in Sides : IF side \in new THEN id[side] \in Fresh ELSE id[side] = form.conn[side]
    /\ new = Sides => id.source < id.target

\* The rows a mapping is made with: each side's own, new ones among them.
LEMMA CreatedRows ==
    ASSUME SetupInv, NEW m \in MapIds, NEW new, NEW id, NEW body, Makes(new, id, body),
           conns' = WithNewRows(new, id, body, m)
    PROVE  /\ conns' \in [Ids -> {None} \cup Conn]
           /\ \A i \in Ids : conns[i] \in Conn => Evolves(conns[i], conns'[i])
           /\ \A i \in Ids : conns'[i] \in Conn => RowSound(conns'[i])
           /\ \A side \in Sides : /\ Held(id[side], side, conns')
                                  /\ conns'[id[side]].kind = KindOf(side, form.type[side])
           /\ form.conn.source = 0 => conns'[id["source"]].config = sourceConnectionConfig(form.type.source, builtSourceConfig)
  <1> USE DEF Makes
  <1>1. form \in Form /\ conns \in [Ids -> {None} \cup Conn] /\ SetupTypes
    BY DEF SetupInv, SetupTypes
  <1>2. PICK r : r = [side \in Sides |-> NewRow(side, body[side], m)]
    OBVIOUS
  <1>3. ASSUME NEW side \in new
        PROVE  /\ side \in Sides /\ r[side] = NewRow(side, body[side], m) /\ r[side] \in Conn /\ RowSound(r[side]) /\ r[side].role = side
               /\ r[side].kind = KindOf(side, form.type[side])
               /\ side = "source" => r[side].config = sourceConnectionConfig(form.type.source, builtSourceConfig)
               /\ id[side] \in Ids /\ conns[id[side]] = None
    <2>1. side \in Sides /\ form.conn[side] = 0 /\ sideStepMissing(side) = {}
      OBVIOUS
    <2>2. PICK b : b = (IF side = "source" THEN builtSourceConfig ELSE form.typed.target) /\ b = body[side]
      BY <2>1 DEF Sides
    <2>3. r[side] = NewRow(side, b, m)
      BY <1>2, <2>1, <2>2
    <2>4. /\ NewRow(side, b, m) \in Conn /\ RowSound(NewRow(side, b, m))
          /\ NewRow(side, b, m).role = side /\ NewRow(side, b, m).kind = KindOf(side, form.type[side])
          /\ side = "source" => NewRow(side, b, m).config = sourceConnectionConfig(form.type.source, builtSourceConfig)
      BY <1>1, <2>1, <2>2, NewRowSound
    <2>5. id[side] \in Ids /\ conns[id[side]] = None
      BY <2>1 DEF Fresh
    <2> QED BY <2>1, <2>2, <2>3, <2>4, <2>5
  <1>4. ASSUME NEW side \in Sides \ new
        PROVE  /\ id[side] \in Ids /\ conns[id[side]] \in Conn /\ conns[id[side]].role = side /\ conns[id[side]].kind = KindOf(side, form.type[side])
    <2>1. id[side] = form.conn[side] /\ reuseConnection(side) /\ id[side] \in Ids
      OBVIOUS
    <2>2. Live(id[side]) /\ conns[id[side]].role = side /\ conns[id[side]].kind = KindOf(side, form.type[side])
      BY <2>1 DEF reuseConnection
    <2>3. conns[id[side]] \in Conn
      BY <1>1, <2>1, <2>2, LiveIs
    <2> QED BY <2>1, <2>2, <2>3
  <1>5. \A a, b \in Sides : id[a] = id[b] => a = b
    <2>1. id["source"] # id["target"]
      <3>1. CASE new = Sides
        <4>1. id["source"] < id["target"]
          BY <3>1
        <4>2. id["source"] \in Int /\ id["target"] \in Int
          BY SetupAssumption DEF Ids, Sides
        <4> QED BY <4>1, <4>2
      <3>2. CASE new = {}
        BY <1>4, <3>2 DEF Sides
      <3>3. CASE new # {} /\ new # Sides
        <4>1. new = {"source"} \/ new = {"target"}
          BY <3>3 DEF Sides
        <4> QED BY <1>3, <1>4, <4>1, NothingIs DEF Sides
      <3> QED BY <3>1, <3>2, <3>3
    <2> QED BY <2>1 DEF Sides
  <1>6. ASSUME NEW side \in new
        PROVE  conns'[id[side]] = r[side]
    <2>1. side \in Sides /\ id[side] \in Ids
      BY <1>3
    <2>2. PICK c : c = (CHOOSE s \in new : id[s] = id[side])
      OBVIOUS
    <2>3. c = side
      <3>1. \A s \in new : id[s] = id[side] => s = side
        BY <1>3, <1>5, <2>1
      <3> QED BY <2>2, <3>1
    <2>4. \E s \in new : id[s] = id[side]
      OBVIOUS
    <2>5. conns'[id[side]] = NewRow(c, body[c], m)
      BY <2>1, <2>2, <2>4 DEF WithNewRows
    <2> QED BY <1>3, <2>3, <2>5
  <1>7. ASSUME NEW i \in Ids, ~\E side \in new : id[side] = i
        PROVE  conns'[i] = conns[i]
    BY <1>7 DEF WithNewRows
  <1>8. ASSUME NEW i \in Ids
        PROVE  /\ conns'[i] \in {None} \cup Conn
               /\ conns[i] \in Conn => Evolves(conns[i], conns'[i])
               /\ conns'[i] \in Conn => RowSound(conns'[i])
    <2>1. CASE \E side \in new : id[side] = i
      <3>1. PICK side \in new : id[side] = i
        BY <2>1
      <3>2. conns'[i] = r[side] /\ conns[i] = None
        <4>1. conns'[id[side]] = r[side]
          BY <1>6
        <4>2. conns[id[side]] = None
          BY <1>3
        <4> QED BY <3>1, <4>1, <4>2
      <3> QED BY <1>3, <3>2, NothingIs
    <2>2. CASE ~\E side \in new : id[side] = i
      <3>1. conns'[i] = conns[i] /\ conns[i] \in {None} \cup Conn
        BY <1>1, <1>7, <2>2
      <3> QED BY <3>1, EvolvesSame DEF SetupInv
    <2> QED BY <2>1, <2>2
  <1>9. conns' \in [Ids -> {None} \cup Conn]
    <2>1. conns' = [i \in Ids |-> conns'[i]]
      <3>1. WithNewRows(new, id, body, m) = [i \in Ids |-> WithNewRows(new, id, body, m)[i]]
        BY DEF WithNewRows
      <3> QED BY <3>1
    <2> QED BY <1>8, <2>1
  <1>10. ASSUME NEW side \in Sides
         PROVE  Held(id[side], side, conns') /\ conns'[id[side]].kind = KindOf(side, form.type[side])
    <2>1. CASE side \in new
      <3>1. conns'[id[side]] = r[side]
        BY <1>6, <2>1
      <3>2. id[side] \in Ids /\ r[side] \in Conn /\ r[side].role = side /\ r[side].kind = KindOf(side, form.type[side])
        BY <1>3, <2>1
      <3> QED BY <3>1, <3>2 DEF Held
    <2>2. CASE side \notin new
      <3>1. ~\E s \in new : id[s] = id[side]
        BY <1>3, <1>5, <2>2
      <3>2. conns'[id[side]] = conns[id[side]]
        BY <1>4, <1>7, <2>2, <3>1
      <3> QED BY <1>4, <2>2, <3>2 DEF Held
    <2> QED BY <2>1, <2>2
  <1>11. form.conn.source = 0 => conns'[id["source"]].config = sourceConnectionConfig(form.type.source, builtSourceConfig)
    <2> SUFFICES ASSUME form.conn.source = 0 PROVE conns'[id["source"]].config = sourceConnectionConfig(form.type.source, builtSourceConfig)
      OBVIOUS
    <2>1. "source" \in new
      BY DEF Sides
    <2> QED BY <1>3, <1>6, <2>1
  <1> QED BY <1>8, <1>9, <1>10, <1>11

\* The account that the connection of a type names.
LEMMA ConfigNames ==
    /\ \A v : \A t \in {"google-calendar", "google-contacts"} : sourceConnectionConfig(t, v).user = v.user
    /\ \A v : sourceConnectionConfig("box", v).userId = v.userId
  BY DEF sourceConnectionConfig

\* The mapping made is about the connections it was made with.
LEMMA CreatedMapping ==
    ASSUME SetupInv, NEW domains \in SUBSET Domains, NEW prefix \in Prefixes, NEW v, v = builtSourceConfig, canProceed(domains),
           CreateMappingSchema(v, domains),
           NEW id \in [Sides -> Ids], NEW cs,
           \A side \in Sides : Held(id[side], side, cs) /\ cs[id[side]].kind = KindOf(side, form.type[side]),
           form.conn.source = 0 => cs[id["source"]].config = sourceConnectionConfig(form.type.source, v),
           NEW p, p = [src |-> id.source, tgt |-> id.target, prefix |-> prefix, domains |-> domains,
                       over |-> sourceConfigOverride(v), said |-> [user |-> v.user, userId |-> v.userId],
                       meant |-> id.target]
    PROVE  p \in Mapping /\ MappingHolds(p, cs)
  <1>1. form \in Form
    BY DEF SetupInv, SetupTypes
  <1>2. v \in Values /\ v.user \in SomeAccount /\ v.userId \in SomeAccount
    <2>1. v \in Values
      BY <1>1, BuiltIs
    <2> QED BY <2>1 DEF Values, SomeAccount
  <1>3. PICK t \in AllSourceTypes : t = form.type.source /\ t = form.type["source"]
    BY <1>1, FormIs
  <1>4. PICK u \in AllTargetTypes : u = form.type.target /\ u = form.type["target"]
    BY <1>1, FormIs
  <1>5. PICK over : over = sourceConfigOverride(v)
    OBVIOUS
  <1>6. over = IF form.conn.source = 0 THEN [user |-> "", userId |-> ""]
               ELSE [user |-> IF t \in {"google-drive", "dropbox", "box"} THEN "" ELSE v.user,
                     userId |-> IF t = "box" THEN v.userId ELSE ""]
    BY <1>3, <1>5 DEF sourceConfigOverride
  <1>a. /\ over.user = IF form.conn.source = 0 \/ t \in {"google-drive", "dropbox", "box"} THEN "" ELSE v.user
        /\ over.userId = IF form.conn.source # 0 /\ t = "box" THEN v.userId ELSE ""
    BY <1>6
  <1>7. over \in Named
    <2>1. "" \in SomeAccount
      BY DEF SomeAccount
    <2>2. (IF t \in {"google-drive", "dropbox", "box"} THEN "" ELSE v.user) \in SomeAccount /\ (IF t = "box" THEN v.userId ELSE "") \in SomeAccount
      BY <1>2, <2>1
    <2> QED BY <1>6, <2>1, <2>2 DEF Named
  <1>8. PICK said \in Named : said = [user |-> v.user, userId |-> v.userId]
    BY <1>2 DEF Named
  <1>9. id["source"] \in Ids /\ id["target"] \in Ids
    BY DEF Sides
  <1>10. p \in Mapping
    BY <1>5, <1>7, <1>8, <1>9 DEF Mapping
  <1>11. /\ p.src = id["source"] /\ p.tgt = id["target"] /\ p.domains = domains /\ p.over = over
         /\ p.said.user = v.user /\ p.said.userId = v.userId
    BY <1>5, <1>8
  <1>12. Held(p.src, "source", cs) /\ Held(p.tgt, "target", cs) /\ cs[p.src].kind = sourceKindFor(t) /\ cs[p.tgt].kind = u
    BY <1>3, <1>4, <1>11 DEF Sides, KindOf
  <1>13. p.domains \subseteq SOURCE_TYPE_DOMAINS(wizardTypeForConnectionKind(cs[p.src].kind))
    <2>1. domains \subseteq SOURCE_TYPE_DOMAINS(t)
      BY <1>3 DEF canProceed, sourceDomainRefusal
    <2>2. CASE t \in O365Types
      <3>1. wizardTypeForConnectionKind(sourceKindFor(t)) = "graph"
        BY <2>2, KindIs
      <3>2. SOURCE_TYPE_DOMAINS("graph") = Domains
        BY DEF SOURCE_TYPE_DOMAINS
      <3> QED BY <1>11, <1>12, <3>1, <3>2
    <2>3. CASE t \notin O365Types
      BY <1>11, <1>12, <2>1, <2>3, KindIs
    <2> QED BY <2>2, <2>3
  <1>14. p.domains \subseteq TARGET_TYPE_DOMAINS(cs[p.tgt].kind)
    BY <1>4, <1>11, <1>12 DEF canProceed, targetDomainRefusal
  <1>15. ASSUME cs[p.src].kind \in {"google_calendar", "google_contacts"}
         PROVE  p.over.user \in {"", p.said.user} /\ (p.over.user = "" /\ p.said.user # "" => cs[p.src].config.user = p.said.user)
    <2>1. t \in {"google-calendar", "google-contacts"}
      BY <1>12, <1>15, KindIs DEF wizardTypeForConnectionKind, O365Types
    <2>2. CASE form.conn.source = 0
      <3>2. sourceConnectionConfig(t, v).user = v.user
        BY <2>1, ConfigNames
      <3>3. cs[p.src].config.user = v.user
        BY <1>3, <1>11, <2>2, <3>2
      <3> QED BY <1>a, <1>11, <2>2, <3>3
    <2>3. CASE form.conn.source # 0
      BY <1>a, <1>11, <2>1, <2>3
    <2> QED BY <2>2, <2>3
  <1>16. ASSUME cs[p.src].kind = "box"
         PROVE  /\ p.said.userId # "" /\ p.over.userId \in {"", p.said.userId}
                /\ p.over.userId = "" => cs[p.src].config.userId = p.said.userId
    <2>1. t = "box"
      BY <1>12, <1>16, KindIs DEF wizardTypeForConnectionKind, O365Types
    <2>2. CASE form.conn.source = 0
      <3>1. t \in AllSourceTypes \ (O365Types \cup {"imap"})
        BY <2>1 DEF O365Types
      <3>2. sourceConnectionConfig(t, v).userId = v.userId
        BY <2>1, ConfigNames
      <3>3. v.userId # ""
        <4>1. "source" \in Sides /\ form.conn["source"] = 0 /\ sideStepMissing("source") = {}
          BY <2>2 DEF Sides, canProceed
        <4> QED BY <1>1, <1>3, <2>1, <3>1, <4>1, NothingMissing
      <3>4. cs[p.src].config.userId = v.userId
        BY <1>3, <1>11, <2>2, <3>2
      <3> QED BY <1>a, <1>11, <2>2, <3>3, <3>4
    <2>3. CASE form.conn.source # 0
      <3>1. v.userId # ""
        BY <1>3, <2>1, <2>3 DEF CreateMappingSchema, ReusedSourceNamed
      <3> QED BY <1>a, <1>11, <2>1, <2>3, <3>1
    <2> QED BY <2>2, <2>3
  <1>17. MappingHolds(p, cs)
    BY <1>12, <1>13, <1>14, <1>15, <1>16 DEF MappingHolds
  <1> QED BY <1>10, <1>17

\* The wizard's last step keeps the invariant.
LEMMA CreateStep ==
    ASSUME SetupInv, NEW m \in MapIds, NEW domains \in SUBSET Domains, NEW prefix \in Prefixes, handleNext(m, domains, prefix)
    PROVE  SetupInv' /\ \A i \in Ids : conns[i] \in Conn => Evolves(conns[i], conns'[i])
  <1>1. form \in Form /\ maps \in [MapIds -> {NoMap} \cup Mapping] /\ request \in [{"wizard", "page"} -> {NoRequest} \cup Sending]
    BY DEF SetupInv, SetupTypes
  <1>2. canProceed(domains) /\ UNCHANGED deleting
    BY DEF handleNext
  <1>3. PICK body : body = [source |-> builtSourceConfig, target |-> form.typed.target]
    OBVIOUS
  <1>4. PICK v : v = builtSourceConfig /\ v = body.source
    BY <1>3
  <1>5. CreateMapping(m, body, domains, prefix)
    BY <1>3 DEF handleNext
  <1>6. PICK new : new = {side \in Sides : form.conn[side] = 0}
    OBVIOUS
  <1>7. CreateMappingSchema(v, domains) /\ \A side \in Sides \ new : reuseConnection(side)
    BY <1>4, <1>5, <1>6 DEF CreateMapping
  <1>8. PICK id \in [Sides -> Ids] :
            /\ \A side \in Sides : IF side \in new THEN id[side] \in Fresh ELSE id[side] = form.conn[side]
            /\ new = Sides => id.source < id.target
            /\ conns' = WithNewRows(new, id, body, m)
            /\ maps' = [maps EXCEPT ![m] =
                    [src |-> id.source, tgt |-> id.target, prefix |-> prefix, domains |-> domains,
                     over |-> sourceConfigOverride(v), said |-> [user |-> v.user, userId |-> v.userId],
                     meant |-> id.target]]
    BY <1>4, <1>5, <1>6 DEF CreateMapping
  <1>9. \A side \in Sides : sideStepMissing(side) = {}
    BY <1>2 DEF canProceed
  <1>10. /\ conns' \in [Ids -> {None} \cup Conn]
         /\ \A i \in Ids : conns[i] \in Conn => Evolves(conns[i], conns'[i])
         /\ \A i \in Ids : conns'[i] \in Conn => RowSound(conns'[i])
         /\ \A side \in Sides : /\ Held(id[side], side, conns')
                                /\ conns'[id[side]].kind = KindOf(side, form.type[side])
         /\ form.conn.source = 0 => conns'[id["source"]].config = sourceConnectionConfig(form.type.source, v)
    <2>1. Makes(new, id, body)
      BY <1>3, <1>6, <1>7, <1>8, <1>9 DEF Makes
    <2>2. conns' = WithNewRows(new, id, body, m)
      BY <1>8
    <2>3. /\ conns' \in [Ids -> {None} \cup Conn]
          /\ \A i \in Ids : conns[i] \in Conn => Evolves(conns[i], conns'[i])
          /\ \A i \in Ids : conns'[i] \in Conn => RowSound(conns'[i])
          /\ \A side \in Sides : /\ Held(id[side], side, conns')
                                 /\ conns'[id[side]].kind = KindOf(side, form.type[side])
          /\ form.conn.source = 0 => conns'[id["source"]].config = sourceConnectionConfig(form.type.source, builtSourceConfig)
      BY <2>1, <2>2, CreatedRows
    <2> QED BY <1>4, <2>3
  <1>11. PICK cs : cs = conns'
    OBVIOUS
  <1>12. PICK p : p = [src |-> id.source, tgt |-> id.target, prefix |-> prefix, domains |-> domains,
                     over |-> sourceConfigOverride(v), said |-> [user |-> v.user, userId |-> v.userId],
                     meant |-> id.target]
    OBVIOUS
  <1>13. p \in Mapping /\ MappingHolds(p, conns')
    <2>1. /\ \A side \in Sides : Held(id[side], side, cs) /\ cs[id[side]].kind = KindOf(side, form.type[side])
          /\ form.conn.source = 0 => cs[id["source"]].config = sourceConnectionConfig(form.type.source, v)
      BY <1>10, <1>11
    <2>2. p \in Mapping /\ MappingHolds(p, cs)
      BY <1>2, <1>4, <1>7, <1>12, <2>1, CreatedMapping
    <2> QED BY <1>11, <2>2
  <1>14. maps' = [maps EXCEPT ![m] = p]
    BY <1>8, <1>12
  <1>15. maps' \in [MapIds -> {NoMap} \cup Mapping] /\ \A n \in MapIds : maps'[n] = maps[n] \/ maps'[n] = p
    BY <1>1, <1>13, <1>14
  <1>16. PICK y \in [Sides -> Values] : y = [side \in Sides |-> Blank]
    <2>1. Blank \in Values
      BY DEF Blank, Values
    <2> QED BY <2>1
  <1>17. PICK z \in [Sides -> MaybeId] : z = [side \in Sides |-> 0]
    BY DEF MaybeId
  <1>18. form' = [form EXCEPT !.typed = y, !.conn = z, !.draft = z]
    BY <1>16, <1>17 DEF handleNext
  <1>19. form' \in Form /\ form'.conn = z /\ form'.draft = z
    <2>1. PICK f \in Form : f = form
      BY <1>1
    <2>2. PICK g : g = [f EXCEPT !.typed = y, !.conn = z, !.draft = z]
      OBVIOUS
    <2>3. g \in Form /\ g.conn = z /\ g.draft = z
      BY <2>2 DEF Form
    <2> QED BY <1>18, <2>1, <2>2, <2>3
  <1>20. \A side \in Sides : Held(form'.conn[side], side, conns') /\ Held(form'.draft[side], side, conns')
    BY <1>17, <1>19 DEF Held
  <1>21. request' \in [{"wizard", "page"} -> {NoRequest} \cup Sending] /\ \A who \in {"wizard", "page"} : SendingHolds(request'[who], conns')
    <2>1. request' = [request EXCEPT !.wizard = IF @.op = "none" THEN @ ELSE [@ EXCEPT !.heard = FALSE]]
      BY DEF handleNext
    <2>2. \A who \in {"wizard", "page"} : SendingHolds(request[who], conns')
      <3>1. \A a : SendingHolds(a, conns) => SendingHolds(a, conns')
        BY <1>10, HeldEvolves
      <3> QED BY <3>1 DEF SetupInv
    <2> QED BY <2>1, <2>2, UnheardIs
  <1>22. SetupInv'
    BY <1>2, <1>10, <1>13, <1>15, <1>19, <1>20, <1>21, SetupKeeps
  <1> QED BY <1>10, <1>22

\* The start.
LEMMA SetupStarts == SetupInit => SetupInv
  <1> SUFFICES ASSUME SetupInit PROVE SetupInv
    OBVIOUS
  <1>1. PICK s \in SourceTypes, t \in TargetTypes :
            form = [type |-> [source |-> s, target |-> t], typed |-> [side \in Sides |-> Blank],
                    conn |-> [side \in Sides |-> 0], draft |-> [side \in Sides |-> 0]]
    BY DEF SetupInit
  <1>2. s \in AllSourceTypes /\ t \in AllTargetTypes
    BY SetupAssumption
  <1>3. PICK y \in [Sides -> Values] : y = [side \in Sides |-> Blank]
    <2>1. Blank \in Values
      BY DEF Blank, Values
    <2> QED BY <2>1
  <1>4. PICK z \in [Sides -> MaybeId] : z = [side \in Sides |-> 0]
    BY DEF MaybeId
  <1>5. form \in Form /\ form.conn = z /\ form.draft = z
    BY <1>1, <1>2, <1>3, <1>4 DEF Form
  <1>6. SetupTypes
    BY <1>5 DEF SetupInit, SetupTypes
  <1>7. \A side \in Sides : Held(form.conn[side], side, conns) /\ Held(form.draft[side], side, conns)
    BY <1>4, <1>5 DEF Held
  <1>8. \A i \in Ids : conns[i] \notin Conn
    BY NothingIs DEF SetupInit
  <1>9. \A who \in {"wizard", "page"} : SendingHolds(request[who], conns)
    BY DEF SetupInit, SendingHolds
  <1>10. \A m \in MapIds : MappingHolds(maps[m], conns)
    BY DEF SetupInit, MappingHolds
  <1> QED BY <1>6, <1>7, <1>8, <1>9, <1>10 DEF SetupInv, SetupInit

\* Every step keeps the invariant, and a row only evolves.
LEMMA SetupStep ==
    ASSUME SetupInv, [SetupNext]_vars
    PROVE  SetupInv' /\ \A i \in Ids : conns[i] \in Conn => Evolves(conns[i], conns'[i])
  <1>1. ASSUME UNCHANGED conns
        PROVE  \A i \in Ids : conns[i] \in Conn => Evolves(conns[i], conns'[i])
    BY <1>1, EvolvesSame
  <1>2. CASE FormNext
    <2>1. UNCHANGED conns
      BY <1>2 DEF FormNext, ChooseSourceType, ChooseTargetType, Type, ConnectionPicker, restoreDraft
    <2> QED BY <1>1, <1>2, <2>1, FormSteps
  <1>3. CASE AskNext
    <2>1. UNCHANGED conns
      BY <1>3 DEF AskNext, saveSide, PageAdd, PageTest, PageRotate
    <2> QED BY <1>1, <1>3, <2>1, AskSteps
  <1>4. ASSUME NEW who \in {"wizard", "page"}, Refuse(who) \/ Add(who) \/ Test(who) \/ Rotate(who)
        PROVE  SetupInv' /\ \A i \in Ids : conns[i] \in Conn => Evolves(conns[i], conns'[i])
    <2>1. CASE Refuse(who)
      <3>1. UNCHANGED conns
        BY <2>1 DEF Refuse
      <3> QED BY <1>1, <2>1, <3>1, RefuseStep
    <2> QED BY <1>4, <2>1, AddStep, TestStep, RotateStep
  <1>5. CASE UNCHANGED vars
    <2>1. UNCHANGED <<conns, maps, form, request, deleting>>
      BY <1>5 DEF vars
    <2>2. form \in Form /\ maps \in [MapIds -> {NoMap} \cup Mapping] /\ request \in [{"wizard", "page"} -> {NoRequest} \cup Sending]
      BY DEF SetupInv, SetupTypes
    <2> QED BY <2>1, <2>2, ConnsRest, SetupKeeps
  <1>6. CASE (\E id \in Ids : DeleteConnectionChecks(id)) \/ DeleteConnection \/ (\E m \in MapIds : DeleteMapping(m))
    BY <1>6, DeleteSteps
  <1>7. CASE \E m \in MapIds, domains \in SUBSET Domains, prefix \in Prefixes : handleNext(m, domains, prefix)
    BY <1>7, CreateStep
  <1> QED BY <1>2, <1>3, <1>4, <1>5, <1>6, <1>7 DEF SetupNext, FormNext, AskNext

\* The invariant holds throughout.
LEMMA SetupCorrect == SetupSpec => []SetupInv
  <1>1. SetupInit => SetupInv
    BY SetupStarts
  <1>2. SetupInv /\ [SetupNext]_vars => SetupInv'
    BY SetupStep
  <1> QED BY <1>1, <1>2, PTL DEF SetupSpec

\* However the wizard and the connections page overlap, a connection that a probe
\* would find working works until it is deleted: a rotation is stored only when the
\* provider takes it, and nothing else writes a stored credential
\* (apps/api/src/routes/connections.ts).
THEOREM WorkingConnectionsStay == SetupSpec => WorkingStaysWorking
  <1>1. ASSUME SetupInv, [SetupNext]_vars
        PROVE  [\A id \in Ids : Works(conns[id]) => Works(conns'[id]) \/ ~conns'[id].live]_vars
    <2> SUFFICES ASSUME NEW id \in Ids, Works(conns[id]), conns'[id].live PROVE Works(conns'[id])
      OBVIOUS
    <2>1. PICK c : c = conns[id]
      OBVIOUS
    <2>2. PICK d : d = conns'[id]
      OBVIOUS
    <2>3. c \in Conn
      <3>1. c.role # "none" /\ c \in {None} \cup Conn
        BY <1>1, <2>1 DEF Works, SetupInv, SetupTypes
      <3>2. None.role = "none"
        BY DEF None
      <3> QED BY <3>1, <3>2
    <2>4. Evolves(c, d)
      BY <1>1, <2>1, <2>2, <2>3, SetupStep
    <2>5. ProbeOf(d)
      <3>1. ProbeOf(c)
        BY <2>1 DEF Works, ProbeOf
      <3> QED BY <2>4, <3>1 DEF Evolves, ProbeOf
    <2>6. Works(d)
      BY <2>1, <2>2, <2>4, <2>5 DEF Works, ProbeOf, Evolves
    <2> QED BY <2>2, <2>6
  <1> QED BY <1>1, SetupCorrect, PTL DEF SetupSpec, WorkingStaysWorking

\* A mapping and the rows it was made with.
LEMMA MappingIs ==
    ASSUME SetupInv, NEW m \in Mappings
    PROVE  m \in Mapping /\ m # NoMap /\ MappingHolds(m, conns) /\ m.src \in Ids /\ conns[m.src] \in Conn /\ conns[m.src].role = "source"
  <1>1. PICK i \in MapIds : m = maps[i]
    BY DEF Mappings
  <1>2. m # NoMap /\ m \in Mapping /\ MappingHolds(m, conns)
    BY <1>1 DEF Mappings, SetupInv, SetupTypes
  <1>3. m.src \in Ids /\ m.src # 0
    BY <1>2, NothingIs DEF Mapping
  <1>4. Held(m.src, "source", conns)
    BY <1>2 DEF MappingHolds
  <1> QED BY <1>2, <1>3, <1>4 DEF Held

\* What kind of source each kind of data comes from.
LEMMA SourceDomains ==
    ASSUME NEW k \in SourceKinds \ {"imap", "o365"}, NEW d \in SOURCE_TYPE_DOMAINS(wizardTypeForConnectionKind(k))
    PROVE  \/ d = "email" /\ k = "gmail"
           \/ d = "calendar" /\ k = "google_calendar"
           \/ d = "contact" /\ k = "google_contacts"
           \/ d = "file" /\ k \in {"google_drive", "dropbox", "box"}
  <1>1. CASE k = "gmail"
    <2>1. wizardTypeForConnectionKind(k) = "gmail"
      BY <1>1 DEF wizardTypeForConnectionKind
    <2>2. SOURCE_TYPE_DOMAINS("gmail") = {"email"}
      BY DEF SOURCE_TYPE_DOMAINS
    <2> QED BY <1>1, <2>1, <2>2
  <1>2. CASE k = "google_calendar"
    <2>1. wizardTypeForConnectionKind(k) = "google-calendar"
      BY <1>2 DEF wizardTypeForConnectionKind
    <2>2. SOURCE_TYPE_DOMAINS("google-calendar") = {"calendar"}
      BY DEF SOURCE_TYPE_DOMAINS
    <2> QED BY <1>2, <2>1, <2>2
  <1>3. CASE k = "google_contacts"
    <2>1. wizardTypeForConnectionKind(k) = "google-contacts"
      BY <1>3 DEF wizardTypeForConnectionKind
    <2>2. SOURCE_TYPE_DOMAINS("google-contacts") = {"contact"}
      BY DEF SOURCE_TYPE_DOMAINS
    <2> QED BY <1>3, <2>1, <2>2
  <1>4. CASE k \in {"google_drive", "dropbox", "box"}
    <2>1. wizardTypeForConnectionKind(k) \in {"google-drive", "dropbox", "box"}
      BY <1>4 DEF wizardTypeForConnectionKind
    <2>2. \A t \in {"google-drive", "dropbox", "box"} : SOURCE_TYPE_DOMAINS(t) = {"file"}
      BY DEF SOURCE_TYPE_DOMAINS
    <2> QED BY <1>4, <2>1, <2>2
  <1> QED BY <1>1, <1>2, <1>3, <1>4 DEF SourceKinds

\* The account a mapping names goes before its connection's.
LEMMA OverlaidIs ==
    ASSUME NEW config \in Config, NEW over \in Named
    PROVE  /\ Overlaid(config, over).user = IF over.user # "" THEN over.user ELSE config.user
           /\ Overlaid(config, over).userId = IF over.userId # "" THEN over.userId ELSE config.userId
           /\ Overlaid(config, over).host = config.host /\ Overlaid(config, over).type = config.type
  BY DEF Overlaid, Config, Named

\* What a pass of a calendar, contact or Box migration reads is the account that the
\* wizard named, whichever connection was reused for it
\* (packages/orchestration/src/build-deps-from-mapping.ts).
THEOREM StatedAccountsAreRead == SetupSpec => []ReadsStated
  <1>1. ASSUME SetupInv
        PROVE  ReadsStated
    <2> SUFFICES ASSUME NEW m \in Mappings, NEW d \in m.domains
                 PROVE  /\ conns[m.src].kind \in {"google_calendar", "google_contacts"} /\ m.said.user # ""
                             => Reads(m, d) = m.said.user
                        /\ conns[m.src].kind = "box" => m.said.userId # "" /\ Reads(m, d) = m.said.userId
      BY DEF ReadsStated
    <2>1. m \in Mapping /\ m # NoMap /\ MappingHolds(m, conns) /\ m.src \in Ids /\ conns[m.src] \in Conn /\ conns[m.src].role = "source"
      BY <1>1, MappingIs
    <2>2. PICK c \in Conn : c = conns[m.src]
      BY <2>1
    <2>3. /\ d \in SOURCE_TYPE_DOMAINS(wizardTypeForConnectionKind(c.kind))
          /\ c.kind \in {"google_calendar", "google_contacts"} =>
                /\ m.over.user \in {"", m.said.user}
                /\ m.over.user = "" /\ m.said.user # "" => c.config.user = m.said.user
          /\ c.kind = "box" =>
                /\ m.said.userId # "" /\ m.over.userId \in {"", m.said.userId}
                /\ m.over.userId = "" => c.config.userId = m.said.userId
      BY <2>1, <2>2 DEF MappingHolds
    <2>4. PICK config : /\ config = Overlaid(c.config, m.over)
                        /\ config.user = IF m.over.user # "" THEN m.over.user ELSE c.config.user
                        /\ config.userId = IF m.over.userId # "" THEN m.over.userId ELSE c.config.userId
      <3>1. c.config \in Config /\ m.over \in Named
        BY <2>1 DEF Conn, Mapping
      <3> QED BY <3>1, OverlaidIs
    <2>5. Reads(m, d) = CASE d = "email" -> c.config.user
                          [] c.kind \in {"google_calendar", "google_contacts"} -> config.user
                          [] c.kind = "box" -> config.userId
                          [] OTHER -> c.creds.who
      BY <2>2, <2>4 DEF Reads
    <2>6. c.kind \in {"google_calendar", "google_contacts", "box"} => d # "email"
      <3> SUFFICES ASSUME c.kind \in {"google_calendar", "google_contacts", "box"} PROVE d # "email"
        OBVIOUS
      <3>1. c.kind \in SourceKinds \ {"imap", "o365"}
        BY DEF SourceKinds
      <3> QED BY <2>3, <3>1, SourceDomains
    <2>7. c.kind \in {"google_calendar", "google_contacts"} => Reads(m, d) = config.user
      BY <2>5, <2>6
    <2>8. c.kind = "box" => Reads(m, d) = config.userId
      BY <2>5, <2>6
    <2> QED BY <2>2, <2>3, <2>4, <2>7, <2>8
  <1> QED BY <1>1, SetupCorrect, PTL

\* A source laid over with the mapping's own account opens if it opens without.
LEMMA OverlaidOpens ==
    ASSUME NEW c \in Conn, NEW over \in Named, Builds(c)
    PROVE  /\ c.kind \in {"google_drive", "dropbox", "box"} => buildFileSourceFromConnection(c.kind, Overlaid(c.config, over), c.creds)
           /\ c.kind \in {"google_calendar", "google_contacts"} => buildGoogleDavSourceFrom(Overlaid(c.config, over), c.creds)
  <1>1. PICK config : /\ config = Overlaid(c.config, over)
                      /\ config.user = IF over.user # "" THEN over.user ELSE c.config.user
                      /\ config.userId = IF over.userId # "" THEN over.userId ELSE c.config.userId
    <2>1. c.config \in Config
      BY DEF Conn
    <2> QED BY <2>1, OverlaidIs
  <1>2. c.kind \in {"google_calendar", "google_contacts"} => buildGoogleDavSourceFrom(config, c.creds)
    <2> SUFFICES ASSUME c.kind \in {"google_calendar", "google_contacts"} PROVE buildGoogleDavSourceFrom(config, c.creds)
      OBVIOUS
    <2>1. buildGoogleDavSourceFrom(c.config, c.creds)
      BY DEF Builds
    <2>2. config.user # ""
      BY <1>1, <2>1 DEF buildGoogleDavSourceFrom
    <2> QED BY <2>1, <2>2 DEF buildGoogleDavSourceFrom, GoogleOpens, dwdTokenProviderIfConfigured
  <1>3. c.kind \in {"google_drive", "dropbox", "box"} => buildFileSourceFromConnection(c.kind, config, c.creds)
    <2> SUFFICES ASSUME c.kind \in {"google_drive", "dropbox", "box"} PROVE buildFileSourceFromConnection(c.kind, config, c.creds)
      OBVIOUS
    <2>1. buildFileSourceFromConnection(c.kind, c.config, c.creds)
      BY DEF Builds
    <2>2. c.config.userId # "" => config.userId # ""
      BY <1>1
    <2> QED BY <2>1, <2>2 DEF buildFileSourceFromConnection, buildBoxSourceFrom
  <1> QED BY <1>1, <1>2, <1>3

\* Every mapping the wizard and the server accept can be opened by its passes, for the
\* sources that name their data and for targets made with it or reached over DAV,
\* however its connections were tested, rotated or reused
\* (packages/orchestration/src/build-deps-from-mapping.ts).
THEOREM AcceptedMappingsOpen == SetupSpec => []AcceptedOpens
  <1>1. ASSUME SetupInv
        PROVE  AcceptedOpens
    <2> SUFFICES ASSUME NEW m \in Mappings, Made(m.src), conns[m.src].kind \notin {"imap", "o365"}, Made(m.tgt),
                        conns[m.tgt].with # 0 \/ conns[m.tgt].kind \in {"caldav", "carddav", "webdav"},
                        NEW d \in m.domains
                 PROVE  Opens(m, d)
      BY DEF AcceptedOpens
    <2>1. m \in Mapping /\ m # NoMap /\ MappingHolds(m, conns) /\ m.src \in Ids /\ conns[m.src] \in Conn /\ conns[m.src].role = "source"
      BY <1>1, MappingIs
    <2>2. m.tgt \in Ids /\ m.tgt # 0 /\ conns[m.tgt] \in Conn /\ conns[m.tgt].role = "target"
      BY <2>1 DEF Made, Live, MappingHolds, Held
    <2>3. viaMailbox(m.src, "source") = {m.src} /\ viaMailbox(m.tgt, "target") = {m.tgt}
      BY DEF Made, viaMailbox
    <2>4. PICK c \in Conn : c = conns[m.src]
      BY <2>1
    <2>5. PICK e \in Conn : e = conns[m.tgt]
      BY <2>2
    <2>6. RowSound(c) /\ RowSound(e)
      BY <1>1, <2>1, <2>2, <2>4, <2>5 DEF SetupInv
    <2>7. c.kind \in SourceKinds \ {"imap", "o365"} /\ Builds(c) /\ (c.kind = "gmail" => c.config.type = "gmail")
      BY <2>1, <2>4, <2>6 DEF RowSound, Made
    <2>8. davEndpointFromCreds(e.config, e.creds) /\ e.kind \in AllTargetTypes /\ (e.with # 0 /\ e.kind \in {"jmap", "imap"} => buildTargetWriterFromCredentials(e.config, e.creds))
      BY <2>2, <2>5, <2>6 DEF RowSound
    <2>9. d \in SOURCE_TYPE_DOMAINS(wizardTypeForConnectionKind(c.kind)) /\ d \in TARGET_TYPE_DOMAINS(e.kind)
      BY <2>1, <2>2, <2>4, <2>5 DEF MappingHolds
    <2>10. \/ d = "email" /\ c.kind = "gmail"
           \/ d = "calendar" /\ c.kind = "google_calendar"
           \/ d = "contact" /\ c.kind = "google_contacts"
           \/ d = "file" /\ c.kind \in {"google_drive", "dropbox", "box"}
      BY <2>7, <2>9, SourceDomains
    <2>11. CASE d = "email"
      <3>1. c.kind = "gmail"
        BY <2>10, <2>11
      <3>2. buildGmailSourceFrom(c.config, c.creds) /\ c.config.type = "gmail"
        BY <2>7, <3>1 DEF Builds
      <3>3. buildSourceConnectorFromCredentials(c.config, c.creds)
        BY <3>2 DEF buildSourceConnectorFromCredentials
      <3>4. e.kind \in {"jmap", "imap"}
        BY <2>8, <2>9, <2>11 DEF TARGET_TYPE_DOMAINS, AllTargetTypes
      <3>5. buildTargetWriterFromCredentials(e.config, e.creds)
        BY <2>5, <2>8, <3>4
      <3>6. buildDepsFromMapping(m.src, m.tgt)
        BY <2>4, <2>5, <3>3, <3>5 DEF buildDepsFromMapping
      <3> QED BY <2>3, <2>11, <3>6 DEF Opens
    <2>12. CASE d # "email"
      <3>1. m.over \in Named
        BY <2>1 DEF Mapping
      <3>2. /\ c.kind \in {"google_drive", "dropbox", "box"} => buildFileSourceFromConnection(c.kind, Overlaid(c.config, m.over), c.creds)
            /\ c.kind \in {"google_calendar", "google_contacts"} => buildGoogleDavSourceFrom(Overlaid(c.config, m.over), c.creds)
        BY <2>7, <3>1, OverlaidOpens
      <3>3. buildDomainDepsFromMapping(m, d, m.src, m.tgt)
        BY <2>4, <2>5, <2>8, <2>10, <2>12, <3>2 DEF buildDomainDepsFromMapping
      <3> QED BY <2>3, <2>12, <3>3 DEF Opens
    <2> QED BY <2>11, <2>12
  <1> QED BY <1>1, SetupCorrect, PTL

=============================================================================
