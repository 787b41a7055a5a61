----------------------------- MODULE MCOperate -----------------------------
(***************************************************************************)
(* The parts an operator works with: the verification gate, the appliance, *)
(* the sharing checklist, the decision queue and the digests.  They share  *)
(* no state but the mapping's status, which each of them models as it sees *)
(* it, so they are explored side by side and not in product: desk says     *)
(* which one a behaviour is about, and the others rest in one of their     *)
(* initial states.                                                         *)
(*                                                                         *)
(* The appliance has two desks: every configuration of domains and hosts   *)
(* with the passes of an active mapping, and one configuration with the    *)
(* operator's requests.                                                    *)
(***************************************************************************)
EXTENDS Verification, Appliance, Sharing, Decisions, Notices

VARIABLE desk

MCTypeOrder == <<"mail", "files">>
MCTypeOf == [i \in Items |-> IF i = "f1" THEN "files" ELSE "mail"]
MCMailboxOrder == <<"x", "y">>
MCDomainOrder == <<"email", "calendar", "file">>

GateRests ==
    /\ deployment = "managed" /\ enabled = {} /\ readable = {} /\ hashing = {}
    /\ row = [i \in Items |-> Absent]
ApplianceRests ==
    /\ flag = [d \in SyncDomains |-> "off"] /\ ~mailSource /\ life = "paused"
SharingRests ==
    /\ edition = "managed" /\ ~speaksOcs /\ nature = [g \in Grants |-> "drive"] /\ granted = {}
QueueRests ==
    /\ place = "managed" /\ store = [g \in Groups |-> "unknown"]
    /\ directory = {} /\ covered = {} /\ ~unstated

NoticesRest ==
    /\ site = "managed" /\ prefs = "off" /\ ~undecided
    /\ phase = [m \in Mailboxes |-> "live"] /\ awaiting = [m \in Mailboxes |-> {}]

\* Mail has been copied and is verified, files with it or not, and either may
\* be out of reach.
GateConfigured ==
    /\ "mail" \in enabled /\ Cardinality(readable) >= 1 /\ (hashing = {} => readable = Types)
    /\ row["m1"] # Absent

\* The directory lists every mailbox, and at most one of them is covered.
QueueConfigured == directory = Addresses /\ Cardinality(covered) <= 1

\* Something may wait in the second mapping's queue; both cadences at once only
\* with both mappings under way.
NoticesConfigured ==
    /\ awaiting["x"] = {}
    /\ \/ site = "managed" /\ prefs = "daily"
       \/ site = "selfhost" /\ prefs = "weekly" /\ (undecided <=> phase["x"] = "done")
       \/ prefs = "both" /\ undecided /\ awaiting["y"] # {} /\ \A m \in Mailboxes : phase[m] = "live"

\* Mail on one server and files on another.
TwoHosts ==
    /\ flag = [d \in SyncDomains |-> IF d = "calendar" THEN "off" ELSE "on"] /\ ~mailSource
    /\ \E a, b \in Hosts : a # b /\ hosts["email"] = {a} /\ hosts["file"] = {b}
                           /\ a = CHOOSE h \in Hosts : TRUE

OperateInit ==
    /\ desk \in {"gate", "lanes", "requests", "sharing", "queue", "notices"}
    /\ VerificationInit /\ IF desk = "gate" THEN GateConfigured ELSE GateRests
    /\ ApplianceInit
    /\ CASE desk = "lanes" -> life = "active" [] desk = "requests" -> TwoHosts [] OTHER -> ApplianceRests
    /\ SharingInit /\ (desk = "sharing" \/ SharingRests)
    /\ DecisionsInit /\ IF desk = "queue" THEN QueueConfigured ELSE QueueRests
    /\ NoticesInit /\ IF desk = "notices" THEN NoticesConfigured ELSE NoticesRest

AtGate == desk = "gate" /\ VerificationNext /\ UNCHANGED <<applianceVars, sharingVars, decisionVars, noticesVars>>
AtLanes == desk \in {"lanes", "requests"} /\ Unattended /\ UNCHANGED <<gateVars, sharingVars, decisionVars, noticesVars>>
AtRequests == desk = "requests" /\ Requests /\ UNCHANGED <<gateVars, sharingVars, decisionVars, noticesVars>>
AtSharing == desk = "sharing" /\ SharingNext /\ UNCHANGED <<gateVars, applianceVars, decisionVars, noticesVars>>
AtQueue == desk = "queue" /\ DecisionsNext /\ UNCHANGED <<gateVars, applianceVars, sharingVars, noticesVars>>
AtNotices == desk = "notices" /\ NoticesNext /\ UNCHANGED <<gateVars, applianceVars, sharingVars, decisionVars>>

OperateNext == (AtGate \/ AtLanes \/ AtRequests \/ AtSharing \/ AtQueue \/ AtNotices) /\ UNCHANGED desk

\* Only the appliance makes a promise about what happens in the end.
OperateFairness == desk \in {"lanes", "requests"} => ApplianceFairness

OperateSpec ==
    OperateInit /\ [][OperateNext]_<<desk, gateVars, applianceVars, sharingVars, decisionVars, noticesVars>>
    /\ OperateFairness

=============================================================================
