------------------------------ MODULE Sharing ------------------------------
(***************************************************************************)
(* The sharing checklist: who had access to what on the source, and what   *)
(* became of it (packages/core/src/share-queue.ts and permission-map.ts,   *)
(* kept in packages/ledger/src/ledger.ts, served by                        *)
(* apps/api/src/routes/migrations/operating-routes.ts and by the           *)
(* appliance, filled by packages/connectors/src/graph-permission-scan.ts,  *)
(* applied through packages/connectors/src/nextcloud-ocs.ts).              *)
(*                                                                         *)
(* Creating a share on the target invites a person and cannot be taken     *)
(* back from here.  Between the look at the row and the row's update lies  *)
(* a call to the target, and someone else may settle the row meanwhile.    *)
(***************************************************************************)
EXTENDS Naturals, FiniteSets

CONSTANTS
    Grants,         \* access grants on the source
    Owners,         \* people working through the checklist
    MaxAsks,        \* bound: requests
    MaxChanges      \* bound: changes of the source's grants

ASSUME SharingAssumption == {MaxAsks, MaxChanges} \subseteq Nat

VARIABLES
    edition,        \* "managed" or "selfhost"
    nature,         \* what each grant is about: calendar, drive, link, mailbox
    speaksOcs,      \* the target is a WebDAV server, and taken for a Nextcloud
    granted,        \* grants that stand on the source
    listed,         \* the checklist: the state of each grant's row
    shares,         \* share invitations each grant has led to on the target
    finished,       \* the mapping is 'done'
    ask,            \* each owner's request
    scan,           \* the rescan under way
    asks, changes

sharingVars == <<edition, nature, speaksOcs, granted, listed, shares, finished, ask, scan, asks, changes>>
sharingFixed == <<edition, nature, speaksOcs>>

NoAsk == [op |-> "none"]
NoScan == [at |-> "none", found |-> {}]
Settled == {"applied", "done_manual", "skipped"}

-----------------------------------------------------------------------------
(* The source's grants and the rescan.                                     *)

mapGrant(g) == IF nature[g] \in {"calendar", "drive"} THEN "clean" ELSE "manual"
onCalendars(g) == nature[g] = "calendar"

SourceChanges(g) ==
    /\ changes < MaxChanges /\ changes' = changes + 1
    /\ granted' = IF g \in granted THEN granted \ {g} ELSE granted \cup {g}
    /\ UNCHANGED sharingFixed /\ UNCHANGED <<listed, shares, finished, ask, scan, asks>>

RescanAsked ==
    /\ scan = NoScan /\ asks < MaxAsks /\ asks' = asks + 1
    /\ scan' = [at |-> "calendars", found |-> {}]
    /\ UNCHANGED sharingFixed /\ UNCHANGED <<granted, listed, shares, finished, ask, changes>>

\* A listing that is cut short or refused says so and contributes nothing.
Listing(seen, grants) == IF seen THEN granted \cap grants ELSE {}

\* One listing after the other, the calendars first.
ScanCalendarPermissions(seen) ==
    /\ scan.at = "calendars"
    /\ scan' = [at |-> "drive", found |-> Listing(seen, {g \in Grants : onCalendars(g)})]
    /\ UNCHANGED sharingFixed /\ UNCHANGED <<granted, listed, shares, finished, ask, asks, changes>>

ScanDrivePermissions(seen) ==
    /\ scan.at = "drive"
    /\ scan' = [at |-> "record",
                found |-> scan.found \cup Listing(seen, {g \in Grants : ~onCalendars(g)})]
    /\ UNCHANGED sharingFixed /\ UNCHANGED <<granted, listed, shares, finished, ask, asks, changes>>

\* A variant: a grant seen again is put back on the list.
ReopenRow(g) == "open"

\* A grant seen again keeps its row as it is.
UpsertRow(g) == IF listed[g] = "none" THEN "open" ELSE listed[g]

\* The rows go in together, or, on the appliance, one by one: a crash leaves
\* some of them out.
upsertShareGrants(some) ==
    /\ scan.at = "record"
    /\ some \subseteq scan.found /\ (edition = "managed" => some = scan.found)
    /\ listed' = [g \in Grants |-> IF g \in some THEN UpsertRow(g) ELSE listed[g]]
    /\ scan' = NoScan
    /\ UNCHANGED sharingFixed /\ UNCHANGED <<granted, shares, finished, ask, asks, changes>>

-----------------------------------------------------------------------------
(* Working the checklist.                                                  *)

Answer(o) == ask' = [ask EXCEPT ![o] = NoAsk]

\* The mapping's status is read first, and the row after it.
DecisionAsked(o, g, op) ==
    /\ ask[o] = NoAsk /\ listed[g] # "none" /\ asks < MaxAsks /\ asks' = asks + 1
    /\ ask' = [ask EXCEPT ![o] = [op |-> op, grant |-> g, lifecycleDone |-> finished, at |-> "find"]]
    /\ UNCHANGED sharingFixed /\ UNCHANGED <<granted, listed, shares, finished, scan, changes>>

\* Any WebDAV target is taken to have Nextcloud's share API.
nextcloudCapability == speaksOcs

\* A variant: shares before the cutover.
MayApplyEarly(a) == listed[a.grant] = "open" /\ mapGrant(a.grant) = "clean" /\ nextcloudCapability

\* applyShareGrant's checks: open, not a link, clean, cut over, a share API.
MayApply(a) ==
    /\ listed[a.grant] = "open" /\ mapGrant(a.grant) = "clean"
    /\ a.lifecycleDone /\ nextcloudCapability

findOpenRow(o) ==
    /\ ask[o] # NoAsk /\ ask[o].at = "find"
    /\ LET go == IF ask[o].op = "apply" THEN MayApply(ask[o]) ELSE listed[ask[o].grant] = "open"
       IN IF go THEN ask' = [ask EXCEPT ![o].at = IF ask[o].op = "apply" THEN "create" ELSE "settle"]
          ELSE Answer(o)
    /\ UNCHANGED sharingFixed /\ UNCHANGED <<granted, listed, shares, finished, scan, asks, changes>>

\* The one share call there is names a path among the files: the target makes
\* the share, refuses, or makes it and its answer is lost.  It refuses the name
\* of a calendar.
createShare(o, outcome) ==
    /\ ask[o] # NoAsk /\ ask[o].at = "create"
    /\ nature[ask[o].grant] = "calendar" => outcome = "refused"
    /\ shares' = IF outcome = "refused" THEN shares ELSE [shares EXCEPT ![ask[o].grant] = @ + 1]
    /\ IF outcome = "created" THEN ask' = [ask EXCEPT ![o].at = "settle"] ELSE Answer(o)
    /\ UNCHANGED sharingFixed /\ UNCHANGED <<granted, listed, finished, scan, asks, changes>>

StateFor(op) == CASE op = "apply" -> "applied" [] op = "done" -> "done_manual" [] op = "skip" -> "skipped"

\* In the managed service the decision is one transaction with its audit row,
\* whose failure is caught: the decision goes with it.
Kept(audited) == edition = "selfhost" \/ audited

\* Only an open row is settled.
decideShareGrant(o, audited) ==
    /\ ask[o] # NoAsk /\ ask[o].at = "settle"
    /\ listed' = IF listed[ask[o].grant] = "open" /\ Kept(audited)
                 THEN [listed EXCEPT ![ask[o].grant] = StateFor(ask[o].op)] ELSE listed
    /\ Answer(o)
    /\ UNCHANGED sharingFixed /\ UNCHANGED <<granted, shares, finished, scan, asks, changes>>

\* The process dies under a request or a rescan.
ShareRequestDies ==
    /\ scan # NoScan \/ \E o \in Owners : ask[o] # NoAsk
    /\ ask' = [o \in Owners |-> NoAsk] /\ scan' = NoScan
    /\ UNCHANGED sharingFixed /\ UNCHANGED <<granted, listed, shares, finished, asks, changes>>

CutOver ==
    /\ ~finished /\ finished' = TRUE
    /\ UNCHANGED sharingFixed /\ UNCHANGED <<granted, listed, shares, ask, scan, asks, changes>>

-----------------------------------------------------------------------------
SharingInit ==
    /\ edition \in {"managed", "selfhost"} /\ speaksOcs \in BOOLEAN
    /\ nature \in [Grants -> {"calendar", "drive", "link", "mailbox"}]
    /\ granted \in SUBSET Grants
    /\ listed = [g \in Grants |-> "none"] /\ shares = [g \in Grants |-> 0]
    /\ finished = FALSE
    /\ ask = [o \in Owners |-> NoAsk] /\ scan = NoScan
    /\ asks = 0 /\ changes = 0

SharingNext ==
    \/ \E g \in Grants : SourceChanges(g)
    \/ RescanAsked \/ (\E seen \in BOOLEAN : ScanCalendarPermissions(seen) \/ ScanDrivePermissions(seen))
    \/ \E some \in SUBSET Grants : upsertShareGrants(some)
    \/ \E o \in Owners :
          \/ \E g \in Grants, op \in {"apply", "done", "skip"} : DecisionAsked(o, g, op)
          \/ findOpenRow(o)
          \/ \E outcome \in {"created", "refused", "lost"} : createShare(o, outcome)
          \/ \E audited \in BOOLEAN : decideShareGrant(o, audited)
    \/ ShareRequestDies \/ CutOver

SharingSpec == SharingInit /\ [][SharingNext]_sharingVars

-----------------------------------------------------------------------------
(* Properties.                                                             *)

SharingTypeOK ==
    /\ edition \in {"managed", "selfhost"} /\ speaksOcs \in BOOLEAN /\ finished \in BOOLEAN
    /\ nature \in [Grants -> {"calendar", "drive", "link", "mailbox"}]
    /\ listed \in [Grants -> {"none", "open"} \cup Settled]
    /\ shares \in [Grants -> Nat]
    /\ ask \in [Owners -> {NoAsk} \cup
            [op : {"apply", "done", "skip"}, grant : Grants, lifecycleDone : BOOLEAN,
             at : {"find", "create", "settle"}]]

\* share-queue.ts: an invitation announces that the new system is live, and a
\* link has no audience to invite.  A share exists on the target only after the
\* cutover and for a grant a person holds on a file; and a row is ticked off as
\* applied only when its share was made, whatever the answers and the deaths of
\* the process in between.
SharedOnPurpose ==
    \A g \in Grants :
        /\ shares[g] > 0 => finished /\ nature[g] = "drive" /\ speaksOcs
        /\ listed[g] = "applied" => shares[g] > 0

\* share-queue.ts, line 196, "a settled checklist item stays settled": no
\* request, no rescan and no race of two owners changes a settled row.
SettledStands ==
    [][\A g \in Grants : listed[g] \in Settled => listed'[g] = listed[g]]_sharingVars

\* A grant leads to one invitation at most.
OneShare == \A g \in Grants : shares[g] <= 1

\* A row that was skipped led to no invitation.
SkippedMeansUnshared == \A g \in Grants : listed[g] = "skipped" => shares[g] = 0

=============================================================================
