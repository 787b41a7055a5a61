------------------------------ MODULE Notices ------------------------------
(***************************************************************************)
(* What the owner is told by mail: the digest of what awaits a decision    *)
(* (apps/worker/src/jobs/managed-digest-run.ts, apps/selfhost/src          *)
(* /digest-collect.ts and index.ts) and the alarm about a mapping whose    *)
(* passes keep failing (packages/shared/src/notifications.ts).             *)
(*                                                                         *)
(* A digest asks one queue after the other, each of which may fail to      *)
(* answer, while passes and owners go on filling and emptying them; it is  *)
(* sent only when it has something to say.  One tenant.  The wording is    *)
(* left out.                                                               *)
(***************************************************************************)
EXTENDS Integers, Sequences, FiniteSets

CONSTANTS
    MailboxOrder,   \* the tenant's mappings, in the order they are read
    Queues,         \* deletions, moves, failures, shares, of each mapping
    Week,           \* days in a week
    threshold,      \* failed passes in a row that make an alarm
    MaxDays, MaxStirs, MaxApplied   \* bounds: days, changes, removals

ASSUME NoticesAssumption ==
    /\ Len(MailboxOrder) \in Nat \ {0} /\ DOMAIN MailboxOrder = 1 .. Len(MailboxOrder)
    /\ \A k \in DOMAIN MailboxOrder : MailboxOrder[k] # "tenant"
    /\ {Week, threshold} \subseteq Nat \ {0}
    /\ {MaxDays, MaxStirs, MaxApplied} \subseteq Nat

VARIABLES
    site,           \* "managed" or "selfhost"
    prefs,          \* how often the tenant wants its digest
    phase,          \* each mapping: "live" or "done"
    awaiting,       \* the queues of each mapping with something in them
    undecided,      \* the tenant's decision queue is not empty
    applied,        \* audit rows of removals made without asking, in order
    sentUpTo,       \* digest_sent_<cadence>: rows of applied older than it
    digest,         \* the digest of each cadence, today
    throughout,     \* history: what has waited ever since each digest began
    streak,         \* failed passes of a mapping in a row, in memory
    alarms,         \* alarms given since the last good pass or restart
    day, stirs

noticesVars == <<site, prefs, phase, awaiting, undecided, applied, sentUpTo, digest, throughout,
                 streak, alarms, day, stirs>>

Mailboxes == {MailboxOrder[k] : k \in DOMAIN MailboxOrder}
Cadences == {"daily", "weekly"}
NoDigest == [at |-> "none"]

\* Each thing that waits, by where it is found.
Decision == <<"tenant", "decisions">>
Waiting ==
    {w \in Mailboxes \X Queues : phase[w[1]] = "live" /\ w[2] \in awaiting[w[1]]}
    \cup IF undecided THEN {Decision} ELSE {}

-----------------------------------------------------------------------------
(* When a digest is due.                                                   *)

\* An organisation chooses one cadence, an appliance any of them.
parseDigests == IF prefs = "both" THEN Cadences ELSE {prefs} \cap Cadences
digestDueToday(c) == c \in parseDigests /\ (c = "weekly" => day % Week = 1)

\* The statuses of the mappings come with their list, or are asked for in turn.
DigestBegins(c) ==
    /\ digest[c] = NoDigest /\ digestDueToday(c)
    /\ digest' = [digest EXCEPT ![c] =
           [at |-> IF site = "managed" THEN "decisions" ELSE "mappings", live |-> phase, next |-> 1,
            since |-> 0, reported |-> FALSE, told |-> {}, blind |-> {}]]
    /\ UNCHANGED <<site, prefs, phase, awaiting, undecided, applied, sentUpTo, streak, alarms, day, stirs>>

-----------------------------------------------------------------------------
(* Reading the queues.                                                     *)

DigestOnly == UNCHANGED <<site, prefs, phase, awaiting, undecided, applied, streak, alarms, day, stirs>>
DigestEnds(c, how) == digest' = [digest EXCEPT ![c] = [at |-> how, since |-> @.since, told |-> @.told, blind |-> @.blind]]

\* What a read adds: what it found, or that it could not look.
Asked(d, place, ok, found) ==
    IF ~ok THEN [d EXCEPT !.blind = @ \cup {place}]
    ELSE IF found THEN [d EXCEPT !.told = @ \cup {place}] ELSE d

CountPendingDecisions(c, ok) ==
    /\ digest[c].at = "decisions"
    /\ digest' = [digest EXCEPT ![c] = [Asked(@, Decision, ok, undecided) EXCEPT !.at = "window"]]
    /\ DigestOnly /\ UNCHANGED sentUpTo

\* The last digest that went out, or, unread or never, the cadence's length.
Since(c, ok) ==
    IF ok /\ sentUpTo[c] >= 0 THEN sentUpTo[c]
    ELSE Cardinality({k \in DOMAIN applied :
            applied[k].day <= day - IF c = "weekly" THEN Week ELSE 1})
LastDigestSentAt(c, ok) ==
    /\ digest[c].at = "window"
    /\ digest' = [digest EXCEPT ![c].at = "mappings", ![c].since = Since(c, ok)]
    /\ DigestOnly /\ UNCHANGED sentUpTo

\* The appliance counts the rows under the name the mapping has in its file,
\* which no row carries.
CountAutoApplied(m, since) ==
    IF site = "selfhost" THEN 0
    ELSE Cardinality({k \in DOMAIN applied : k > since /\ applied[k].mailbox = m})

\* Each queue of a mapping in turn; unread are those that do not answer.
attentionFor(d, m, unread) ==
    [d EXCEPT !.told = @ \cup {<<m, q>> : q \in awaiting[m] \ unread}
                         \cup IF CountAutoApplied(m, d.since) > 0 THEN {<<m, "autoApplied">>} ELSE {},
              !.blind = @ \cup {<<m, q>> : q \in unread}]

\* The tenant's decisions are told with the first mapping that reports.
Reporting(c, m, unread) ==
    LET d == attentionFor(digest[c], m, unread \cap Queues)
        first == site = "selfhost" /\ ~digest[c].reported
    IN [(IF first THEN Asked(d, Decision, "decisions" \notin unread, undecided) ELSE d)
            EXCEPT !.reported = TRUE]

\* A variant: what is told of a mapping depends on the one read before it.
reportsAfterFirst(c, m, unread) == phase[m] = "live" /\ digest[c].told = {}

\* Bound: of the reads about one mapping at most one fails.
Unreadable == {{}} \cup {{what} : what \in Queues \cup {"decisions", "status"}}

\* A finished mapping reports nothing; one whose status is unreadable does.
reportsToDigest(c, m, unread) ==
    IF site = "managed" THEN digest[c].live[m] # "done" ELSE "status" \in unread \/ phase[m] # "done"

ReadMailbox(c, unread) ==
    /\ digest[c].at = "mappings" /\ digest[c].next <= Len(MailboxOrder)
    /\ LET m == MailboxOrder[digest[c].next]
           d == IF reportsToDigest(c, m, unread) THEN Reporting(c, m, unread) ELSE digest[c]
       IN digest' = [digest EXCEPT ![c] = [d EXCEPT !.next = @ + 1]]
    /\ DigestOnly /\ UNCHANGED sentUpTo

\* With no mapping to report, the appliance asks for the decisions now.
CollectTenantAttention(c, ok) ==
    /\ digest[c].at = "mappings" /\ digest[c].next > Len(MailboxOrder)
    /\ digest' = [digest EXCEPT ![c] =
           [(IF site = "selfhost" /\ ~@.reported THEN Asked(@, Decision, ok, undecided) ELSE @)
               EXCEPT !.at = "render"]]
    /\ DigestOnly /\ UNCHANGED sentUpTo

-----------------------------------------------------------------------------
(* Sending it.                                                             *)

\* Nothing to say, no mail.
renderDigest(c) == digest[c].told \cup digest[c].blind # {}

SendDigest(c, ok) ==
    /\ digest[c].at = "render"
    /\ DigestEnds(c, IF ~renderDigest(c) THEN "quiet" ELSE IF ok THEN "record" ELSE "failed")
    /\ DigestOnly /\ UNCHANGED sentUpTo

RecordDigestSent(c, ok) ==
    /\ digest[c].at = "record"
    /\ DigestEnds(c, "sent")
    /\ sentUpTo' = IF ok THEN [sentUpTo EXCEPT ![c] = Len(applied)] ELSE sentUpTo
    /\ DigestOnly

\* The worker or the appliance dies; with the appliance goes the streak.
DigestDies ==
    /\ stirs < MaxStirs /\ stirs' = stirs + 1
    /\ digest' = [c \in Cadences |->
           IF digest[c].at \in {"none", "quiet", "sent", "failed"} THEN digest[c]
           ELSE [at |-> "failed", told |-> {}, blind |-> {}]]
    /\ streak' = 0 /\ alarms' = 0
    /\ UNCHANGED <<site, prefs, phase, awaiting, undecided, applied, sentUpTo, day>>

NewDay ==
    /\ day < MaxDays /\ day' = day + 1
    /\ \A c \in Cadences : digest[c].at \in {"none", "quiet", "sent", "failed"}
    /\ digest' = [c \in Cadences |-> NoDigest]
    /\ UNCHANGED <<site, prefs, phase, awaiting, undecided, applied, sentUpTo, streak, alarms, stirs>>

-----------------------------------------------------------------------------
(* The alarm.                                                              *)

\* Exactly at the threshold, whatever becomes of the mail.
FailureStreakRecord(failed) ==
    /\ site = "selfhost" /\ stirs < MaxStirs /\ stirs' = stirs + 1
    /\ streak' = IF failed THEN streak + 1 ELSE 0
    /\ alarms' = IF ~failed THEN 0 ELSE IF streak + 1 = threshold THEN alarms + 1 ELSE alarms
    /\ UNCHANGED <<site, prefs, phase, awaiting, undecided, applied, sentUpTo, digest, day>>

-----------------------------------------------------------------------------
(* Meanwhile.                                                              *)

Stir ==
    /\ stirs < MaxStirs /\ stirs' = stirs + 1
    /\ UNCHANGED <<site, sentUpTo, digest, streak, alarms, day>>

QueueChanges(m, q) ==
    /\ Stir
    /\ awaiting' = [awaiting EXCEPT ![m] = IF q \in @ THEN @ \ {q} ELSE @ \cup {q}]
    /\ UNCHANGED <<prefs, phase, undecided, applied>>
DecisionsChange ==
    Stir /\ undecided' = ~undecided /\ UNCHANGED <<prefs, phase, awaiting, applied>>
FinishMailbox(m) ==
    /\ Stir /\ phase[m] = "live" /\ phase' = [phase EXCEPT ![m] = "done"]
    /\ UNCHANGED <<prefs, awaiting, undecided, applied>>
AutoApplied(m) ==
    /\ Len(applied) < MaxApplied /\ Stir
    /\ applied' = Append(applied, [mailbox |-> m, day |-> day])
    /\ UNCHANGED <<prefs, phase, awaiting, undecided>>
PutNotifications(p) ==
    /\ site = "managed" /\ p # prefs /\ Stir /\ prefs' = p
    /\ UNCHANGED <<phase, awaiting, undecided, applied>>

-----------------------------------------------------------------------------
\* For the property: what waits from the beginning of a digest to its end.
Throughout ==
    throughout' = [c \in Cadences |->
        CASE digest'[c].at = "none" -> {}
          [] digest[c].at = "none" /\ digest'[c].at # "none" -> Waiting'
          [] digest[c].at \in {"quiet", "sent", "failed"} /\ digest'[c] = digest[c] -> throughout[c]
          [] OTHER -> throughout[c] \cap Waiting']

NoticesInit ==
    /\ site \in {"managed", "selfhost"}
    /\ prefs \in {"off", "daily", "weekly"} \cup IF site = "selfhost" THEN {"both"} ELSE {}
    /\ phase \in [Mailboxes -> {"live", "done"}]
    /\ awaiting \in [Mailboxes -> SUBSET Queues] /\ undecided \in BOOLEAN
    /\ applied = <<>> /\ sentUpTo = [c \in Cadences |-> -1]
    /\ digest = [c \in Cadences |-> NoDigest] /\ throughout = [c \in Cadences |-> {}]
    /\ streak = 0 /\ alarms = 0 /\ day = 1 /\ stirs = 0

NoticesNext ==
    /\ \/ \E c \in Cadences :
             \/ DigestBegins(c)
             \/ \E ok \in BOOLEAN : \/ CountPendingDecisions(c, ok) \/ LastDigestSentAt(c, ok)
                                    \/ CollectTenantAttention(c, ok) \/ SendDigest(c, ok)
                                    \/ RecordDigestSent(c, ok)
             \/ \E unread \in Unreadable : ReadMailbox(c, unread)
       \/ DigestDies \/ NewDay
       \/ \E failed \in BOOLEAN : FailureStreakRecord(failed)
       \/ \E m \in Mailboxes : \/ \E q \in Queues : QueueChanges(m, q)
                               \/ FinishMailbox(m) \/ AutoApplied(m)
       \/ DecisionsChange
       \/ \E p \in {"off", "daily", "weekly"} : PutNotifications(p)
    /\ Throughout

NoticesSpec == NoticesInit /\ [][NoticesNext]_noticesVars

-----------------------------------------------------------------------------
(* Properties.                                                             *)

\* managed-digest-run.ts and digest-collect.ts: "nothing waiting, no email at
\* all", and a queue that could not be read is said.  What waited in a queue of
\* an unfinished mapping, or among the tenant's decisions, from the beginning
\* of a digest to its end is in it or is named as unread: a digest that was not
\* sent for want of matter had none.
DigestMissesNothing ==
    \A c \in Cadences : digest[c].at \in {"quiet", "sent"}
        => throughout[c] \subseteq digest[c].told \cup digest[c].blind

\* notifications.ts: one alarm for an outage.
OneAlarmPerOutage == alarms <= 1

\* A removal made without asking is in the next digest that goes out, or is
\* still to be counted by the one after it.
RemovalsReported ==
    [][\A c \in Cadences, k \in DOMAIN applied :
         digest[c].at = "record" /\ digest'[c].at = "sent" /\ sentUpTo'[c] >= k
         /\ digest[c].since < k => <<applied[k].mailbox, "autoApplied">> \in digest[c].told]_noticesVars

=============================================================================
