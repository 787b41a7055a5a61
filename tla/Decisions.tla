----------------------------- MODULE Decisions -----------------------------
(***************************************************************************)
(* The decision queue and the two daily passes that fill it: mailboxes on  *)
(* the source that no mapping covers (packages/core/src                    *)
(* /run-new-mailbox-detection.ts, detect-new-mailboxes.ts) and shared      *)
(* addresses the source cannot classify (run-group-discovery.ts,           *)
(* classify-shared-address.ts), the stores they write (packages/ledger/src *)
(* /decision-store.ts, group-def-store.ts, policy-preset-store.ts), and    *)
(* the owner's answers (apps/api/src/routes/decisions.ts, the appliance).  *)
(*                                                                         *)
(* A pass reads the directory, the coverage, the dismissals and the preset *)
(* once and works through what it found; owners answer meanwhile.  A       *)
(* subject has any number of closed rows and at most one pending one (a    *)
(* partial unique index): the rows are kept as the pending ones, by id,    *)
(* and the subjects ever dismissed.  Announcements are left out.           *)
(***************************************************************************)
EXTENDS Naturals, FiniteSets

CONSTANTS
    Addresses,      \* mailboxes of the source's directory
    Groups,         \* its mail-enabled groups
    Passes,         \* detection and discovery passes
    MaxRows         \* bound: rows of the decision table

ASSUME DecisionsAssumption == MaxRows \in Nat /\ Addresses \cap Groups = {}

VARIABLES
    place,          \* "managed" or "selfhost"
    store,          \* what the directory says of each group: has_store, no_store, unknown
    directory,      \* addresses that exist on the source
    covered,        \* addresses some mapping states it reads
    unstated,       \* some mapping does not state its address
    pending,        \* the pending row of each subject, 0 for none
    dismissed,      \* subjects with a dismissed row
    preset,         \* the tenant's preset for new mailboxes
    pattern,        \* group_def.pattern, "norow" before it is recorded
    answered,       \* the owner's answer about each group, once given
    answering,      \* an answer closed and not yet written to the group's row
    pass,           \* the passes
    rows            \* ids given out

decisionVars == <<place, store, directory, covered, unstated, pending, dismissed, preset,
                  pattern, answered, answering, pass, rows>>
directoryVars == <<place, store, directory, covered, unstated>>

Subjects == Addresses \cup Groups
Patterns == {"shared_s", "distribution_d"}
NotBegun == [at |-> "none"]
Over == [at |-> "over"]
NoAnswer == [group |-> "none"]

\* The source says which of the two it is, or it does not.
classifyStoreSignal(s) ==
    CASE s = "has_store" -> "shared_s" [] s = "no_store" -> "distribution_d" [] s = "unknown" -> "null"

-----------------------------------------------------------------------------
(* Raising a question.                                                     *)

\* The partial unique index refuses a second pending row.
InsertRow(s) ==
    IF pending[s] = 0 THEN pending' = [pending EXCEPT ![s] = rows + 1] /\ rows' = rows + 1
    ELSE UNCHANGED <<pending, rows>>

\* What a pass does about the subject it is at, and goes on to the next one.
Next1(p) == [pass[p] EXCEPT !.at = "loop", !.todo = @ \ {pass[p].subject}]

\* raise inserts; refused, it reads the pending row; that gone, it inserts once
\* more and throws if refused again.  A row made under 'auto' is closed next.
Raised(p) ==
    IF pass[p].preset = "auto" /\ pass[p].subject \in Addresses
    THEN [pass[p] EXCEPT !.at = "close", !.id = rows + 1] ELSE Next1(p)

Raise(p) ==
    /\ pass[p].at = "raise" /\ rows < MaxRows
    /\ InsertRow(pass[p].subject)
    /\ pass' = [pass EXCEPT ![p] = IF pending[pass[p].subject] = 0 THEN Raised(p)
                                   ELSE [@ EXCEPT !.at = "read"]]
    /\ UNCHANGED directoryVars /\ UNCHANGED <<dismissed, preset, pattern, answered, answering>>

RaiseReads(p) ==
    /\ pass[p].at = "read"
    /\ pass' = [pass EXCEPT ![p] = IF pending[pass[p].subject] # 0 THEN Next1(p)
                                   ELSE [@ EXCEPT !.at = "again"]]
    /\ UNCHANGED directoryVars
    /\ UNCHANGED <<pending, rows, dismissed, preset, pattern, answered, answering>>

RaiseAgain(p) ==
    /\ pass[p].at = "again" /\ rows < MaxRows
    /\ InsertRow(pass[p].subject)
    /\ pass' = [pass EXCEPT ![p] = IF pending[pass[p].subject] = 0 THEN Raised(p) ELSE Next1(p)]
    /\ UNCHANGED directoryVars /\ UNCHANGED <<dismissed, preset, pattern, answered, answering>>

\* autoResolve closes the row it made, if it is still pending; or it fails.
AutoResolve(p, works) ==
    /\ pass[p].at = "close"
    /\ pending' = IF works THEN [s \in Subjects |-> IF pending[s] = pass[p].id THEN 0 ELSE pending[s]]
                  ELSE pending
    /\ pass' = [pass EXCEPT ![p] = Next1(p)]
    /\ UNCHANGED directoryVars /\ UNCHANGED <<rows, dismissed, preset, pattern, answered, answering>>

-----------------------------------------------------------------------------
(* The two passes.                                                         *)

PassBeginning(kind) ==
    [at |-> "list", kind |-> kind, covered |-> covered, incomplete |-> unstated, listing |-> {},
     spared |-> dismissed, preset |-> "ask", todo |-> {}, subject |-> "none", id |-> 0]

PassBegins(p, kind) ==
    /\ pass[p] = NotBegun
    /\ pass' = [pass EXCEPT ![p] = PassBeginning(kind)]
    /\ UNCHANGED directoryVars
    /\ UNCHANGED <<pending, rows, dismissed, preset, pattern, answered, answering>>

\* The appliance's scheduler keeps a pass from running beside another one of
\* its kind; the worker's does not.
SingleFlight(kind) ==
    {q \in Passes : pass[q].at \notin {"none", "over"} /\ pass[q].kind = kind} = {}

\* The coverage is read first, and a tenant that migrates no mailbox is passed
\* over; spared is the history of what was dismissed by then.
ManagedDriftDetect(p) ==
    place = "managed" /\ (covered # {} \/ unstated) /\ PassBegins(p, "mailboxes")
DetectDrift(p) ==
    /\ place = "selfhost" /\ SingleFlight("mailboxes") /\ (covered # {} \/ unstated)
    /\ PassBegins(p, "mailboxes")

ManagedGroupDiscovery(p) == place = "managed" /\ PassBegins(p, "groups")
DiscoverGroups(p) == place = "selfhost" /\ SingleFlight("groups") /\ PassBegins(p, "groups")

\* A directory that cannot be asked, or not to its end, is a blind spot, and
\* ends the pass.
BlindSpot(p) == pass' = [pass EXCEPT ![p] = Over]

ListTenantMailboxes(p, readable) ==
    /\ pass[p].at = "list" /\ pass[p].kind = "mailboxes"
    /\ IF readable THEN pass' = [pass EXCEPT ![p].at = "known", ![p].listing = directory]
       ELSE BlindSpot(p)
    /\ UNCHANGED directoryVars
    /\ UNCHANGED <<pending, rows, dismissed, preset, pattern, answered, answering>>

ListMailEnabledGroups(p, readable) ==
    /\ pass[p].at = "list" /\ pass[p].kind = "groups"
    /\ IF readable THEN pass' = [pass EXCEPT ![p].at = "loop", ![p].todo = Groups]
       ELSE BlindSpot(p)
    /\ UNCHANGED directoryVars
    /\ UNCHANGED <<pending, rows, dismissed, preset, pattern, answered, answering>>

\* A variant: only coverage keeps an address out of the queue.
NewcomersAll(p) == pass[p].listing \ pass[p].covered
Newcomers(p) == pass[p].listing \ (pass[p].covered \cup dismissed)

\* detectNewMailboxes: what is listed, not covered and not dismissed; nothing
\* when the coverage is incomplete.
DetectNewMailboxes(p) ==
    /\ pass[p].at = "known"
    /\ pass' = [pass EXCEPT ![p] =
           IF pass[p].incomplete THEN Over ELSE [@ EXCEPT !.at = "preset", !.todo = Newcomers(p)]]
    /\ UNCHANGED directoryVars
    /\ UNCHANGED <<pending, rows, dismissed, preset, pattern, answered, answering>>

ReadPreset(p) ==
    /\ pass[p].at = "preset"
    /\ pass' = [pass EXCEPT ![p].at = "loop", ![p].preset = preset]
    /\ UNCHANGED directoryVars
    /\ UNCHANGED <<pending, rows, dismissed, preset, pattern, answered, answering>>

\* The group's row takes what the directory says now, the pattern included.
UpsertedPattern(g) == classifyStoreSignal(store[g])

\* A mailbox is asked about; a group is recorded, and asked about when the
\* source did not say.
TakeSubject(p, s) ==
    /\ pass[p].at = "loop" /\ s \in pass[p].todo
    /\ LET asks == s \in Addresses \/ classifyStoreSignal(store[s]) = "null"
       IN pass' = [pass EXCEPT ![p].subject = s, ![p].at = IF asks THEN "raise" ELSE "loop",
                               ![p].todo = IF asks THEN @ ELSE @ \ {s}]
    /\ pattern' = IF s \in Groups THEN [pattern EXCEPT ![s] = UpsertedPattern(s)] ELSE pattern
    /\ UNCHANGED directoryVars /\ UNCHANGED <<pending, rows, dismissed, preset, answered, answering>>

\* A row that cannot be written is logged, and the pass goes on.
SubjectFails(p) ==
    /\ pass[p].at = "raise"
    /\ pass' = [pass EXCEPT ![p] = Next1(p)]
    /\ UNCHANGED directoryVars
    /\ UNCHANGED <<pending, rows, dismissed, preset, pattern, answered, answering>>

\* The pass is through, or its process dies.
EndPass(p) ==
    /\ pass[p].at \notin {"none", "over"}
    /\ pass' = [pass EXCEPT ![p] = Over]
    /\ UNCHANGED directoryVars
    /\ UNCHANGED <<pending, rows, dismissed, preset, pattern, answered, answering>>

-----------------------------------------------------------------------------
(* The owner.                                                              *)

\* Only a pending row is closed.
Close(s) == pending[s] # 0 /\ pending' = [pending EXCEPT ![s] = 0]

Dismiss(s) ==
    /\ Close(s)
    /\ dismissed' = dismissed \cup {s}
    /\ UNCHANGED directoryVars /\ UNCHANGED <<rows, preset, pattern, answered, answering, pass>>

ResolveMailbox(a) ==
    /\ Close(a)
    /\ UNCHANGED directoryVars /\ UNCHANGED <<rows, dismissed, preset, pattern, answered, answering, pass>>

\* The answer about a group goes to its row in the same transaction, ...
ResolveGroup(g, choice) ==
    /\ place = "managed" /\ Close(g)
    /\ pattern' = [pattern EXCEPT ![g] = choice]
    /\ answered' = [answered EXCEPT ![g] = choice]
    /\ UNCHANGED directoryVars /\ UNCHANGED <<rows, dismissed, preset, answering, pass>>

\* ... or, on the appliance, in a statement of its own.
OperatorResolves(g, choice) ==
    /\ place = "selfhost" /\ Close(g) /\ answering = NoAnswer
    /\ answering' = [group |-> g, choice |-> choice]
    /\ UNCHANGED directoryVars /\ UNCHANGED <<rows, dismissed, preset, pattern, answered, pass>>

SetPattern(works) ==
    /\ answering # NoAnswer /\ answering' = NoAnswer
    /\ IF works
       THEN /\ pattern' = [pattern EXCEPT ![answering.group] = answering.choice]
            /\ answered' = [answered EXCEPT ![answering.group] = answering.choice]
       ELSE UNCHANGED <<pattern, answered>>
    /\ UNCHANGED directoryVars /\ UNCHANGED <<rows, pending, dismissed, preset, pass>>

SetPreset(action) ==
    /\ preset # action /\ preset' = action
    /\ UNCHANGED directoryVars /\ UNCHANGED <<rows, pending, dismissed, pattern, answered, answering, pass>>

\* A mapping is added for a mailbox.
CoverMailbox(a) ==
    /\ a \notin covered /\ covered' = covered \cup {a}
    /\ UNCHANGED <<place, store, directory, unstated, rows, pending, dismissed, preset,
                   pattern, answered, answering, pass>>

-----------------------------------------------------------------------------
DecisionsInit ==
    /\ place \in {"managed", "selfhost"}
    /\ store \in [Groups -> {"has_store", "no_store", "unknown"}]
    /\ directory \in SUBSET Addresses /\ covered \in SUBSET Addresses /\ unstated \in BOOLEAN
    /\ pending = [s \in Subjects |-> 0] /\ rows = 0 /\ dismissed = {}
    /\ preset = "ask"
    /\ pattern = [g \in Groups |-> "norow"] /\ answered = [g \in Groups |-> "none"]
    /\ answering = NoAnswer
    /\ pass = [p \in Passes |-> NotBegun]

DecisionsNext ==
    \/ \E p \in Passes :
          \/ ManagedDriftDetect(p) \/ DetectDrift(p) \/ ManagedGroupDiscovery(p) \/ DiscoverGroups(p)
          \/ \E readable \in BOOLEAN : ListTenantMailboxes(p, readable) \/ ListMailEnabledGroups(p, readable)
          \/ DetectNewMailboxes(p) \/ ReadPreset(p)
          \/ \E s \in Subjects : TakeSubject(p, s)
          \/ Raise(p) \/ RaiseReads(p) \/ RaiseAgain(p) \/ SubjectFails(p) \/ EndPass(p)
          \/ \E works \in BOOLEAN : AutoResolve(p, works)
    \/ \E s \in Subjects : Dismiss(s)
    \/ \E a \in Addresses : ResolveMailbox(a) \/ CoverMailbox(a)
    \/ \E g \in Groups, choice \in Patterns : ResolveGroup(g, choice) \/ OperatorResolves(g, choice)
    \/ \E works \in BOOLEAN : SetPattern(works)
    \/ \E action \in {"auto", "ask"} : SetPreset(action)

DecisionsSpec == DecisionsInit /\ [][DecisionsNext]_decisionVars

-----------------------------------------------------------------------------
(* Properties.                                                             *)

\* detect-new-mailboxes.ts, lines 40-43: a question the owner has closed is not
\* asked again.  No pass that began after an address was dismissed puts it in
\* the queue, and none puts in an address that was covered when it began.
DismissedStays ==
    [][\A a \in Addresses : pending[a] = 0 /\ pending'[a] # 0
         => \E p \in Passes : /\ pass[p] # pass'[p] /\ pass[p].at \in {"raise", "again"}
                              /\ a \notin pass[p].spared \cup pass[p].covered]_decisionVars

\* The owner's answer about a group stands (classify-shared-address.ts, lines
\* 33-35: "the admin may override").
AnswerStands ==
    \A g \in Groups : answered[g] # "none" => pattern[g] = answered[g]

=============================================================================
