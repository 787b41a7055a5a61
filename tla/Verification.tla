---------------------------- MODULE Verification ----------------------------
(***************************************************************************)
(* The verification gate: does the target hold what the ledger says was    *)
(* copied?  (packages/core/src/verification.ts and                         *)
(* verification-implementations.ts, read through                           *)
(* packages/ledger/src/verification-queries.ts.)  A run goes through the   *)
(* data types one after the other and asks the ledger and the target anew  *)
(* for every figure, while a pass, an owner and the users of the target go *)
(* on changing both; the verdict is put together from answers given at     *)
(* different times.                                                        *)
(*                                                                         *)
(* A run is started from the API, as a row of verification_run and a job   *)
(* of the worker, or by the one process of the appliance, in memory.       *)
(* Counts and byte totals of the target are shown and decide nothing: they *)
(* are left out.  So are the wording of issues and recommendations.        *)
(***************************************************************************)
EXTENDS Integers, FiniteSets

CONSTANTS
    Types,              \* data types: mail, calendar, contacts, files
    TypeOrder,          \* the order they are verified in, a sequence of Types
    Items, typeOf,      \* natural keys, and the type each belongs to
    Operators,          \* who may press "verify"
    minSampleSize, maxSampleSize,   \* items whose content is compared
    MaxRuns, MaxEvents  \* bounds: runs; changes made while they go on

ASSUME VerificationAssumption ==
    /\ typeOf \in [Items -> Types]
    /\ {minSampleSize, maxSampleSize, MaxRuns, MaxEvents} \subseteq Nat
    /\ \A t \in Types : \E k \in 1 .. Cardinality(Types) : TypeOrder[k] = t

VARIABLES
    deployment,     \* "managed" or "selfhost"
    enabled,        \* data types in the mapping's scope
    readable,       \* types whose target can be listed (has a reindexer)
    hashing,        \* types whose target answers with a content hash
    row,            \* the item rows
    copy,           \* what the target holds for each key
    writing,        \* the key a pass or a removal has done on the target and
                    \* not yet in the ledger
    run,            \* the verification runs, by number
    asked,          \* operators whose start has seen no run under way
    amiss,          \* history: items gone ever since each run began
    events

gateVars == <<deployment, enabled, readable, hashing, row, copy, writing, run, asked, amiss, events>>

Runs == 1 .. MaxRuns
Absent == [status |-> "absent", hash |-> "none"]
NoRun == [state |-> "none"]
Idle == [op |-> "none", key |-> "none"]
Verdicts == {"PASS", "WARN", "FAIL", "SKIPPED", "NOT_VERIFIABLE"}

-----------------------------------------------------------------------------
(* The ledger's and the target's answers.                                  *)

\* Everything but what the owner chose to leave behind; a failed item counts.
getAllNaturalKeyHashes(t) ==
    {i \in Items : typeOf[i] = t /\ row[i].status \notin {"absent", "left_behind"}}
countItems(t) == Cardinality(getAllNaturalKeyHashes(t))
listEntries(t) == {i \in Items : typeOf[i] = t /\ copy[i] # "none"}

calculateSampleSize(n) ==
    LET calculated == (n * 5) \div 100
        capped == IF calculated < maxSampleSize THEN calculated ELSE maxSampleSize
        wanted == IF minSampleSize > capped THEN minSampleSize ELSE capped
    IN IF wanted < n THEN wanted ELSE n

\* ORDER BY natural_key_hash LIMIT n: some n rows, with the hashes recorded.
getSamples(t, n) ==
    LET all == getAllNaturalKeyHashes(t)
    IN {[i \in s |-> row[i].hash] :
            s \in {x \in SUBSET all : Cardinality(x) = IF Cardinality(all) < n THEN Cardinality(all) ELSE n}}

\* A hash of an unknown algorithm, or none, can be compared with nothing.
isComparable(t, mine, theirs) == t \in hashing /\ theirs # "none" /\ mine # "none"
checksumMatches(t, s) == {i \in DOMAIN s : isComparable(t, s[i], copy[i]) /\ s[i] = copy[i]}
checksumMismatches(t, s) == {i \in DOMAIN s : isComparable(t, s[i], copy[i]) /\ s[i] # copy[i]}

-----------------------------------------------------------------------------
(* The verdict.                                                            *)

\* a/b < 99 %, with nothing to measure counting as all of it.
Below99(a, b) == b > 0 /\ 100 * a < 99 * b

determineVerificationStatus(count, missing, extra, matches, mismatches) ==
    IF \/ Below99(count - missing, count)
       \/ Below99(matches, matches + mismatches)
       \/ count > 0 /\ 100 * missing > count
    THEN "FAIL"
    ELSE IF missing + extra > 0 THEN "WARN" ELSE "PASS"

\* In thousandths: 0.7 for what is present, 0.3 for what is the same.
Score(count, missing, matches, mismatches) ==
    (IF count > 0 THEN (700 * (count - missing)) \div count ELSE 700)
    + (IF matches + mismatches > 0 THEN (300 * matches) \div (matches + mismatches) ELSE 300)

calculateOverallStatus(results) ==
    LET all == {results[t].status : t \in Types}
    IN IF all \cap {"FAIL", "NOT_VERIFIABLE"} # {} THEN "FAIL"
       ELSE IF "WARN" \in all THEN "WARN" ELSE "PASS"

\* The mean of the measured types is at least 95 %.
ScoreIsHigh(results) ==
    LET measured == {t \in Types : results[t].status \notin {"SKIPPED", "NOT_VERIFIABLE"}}
        sum[s \in SUBSET measured] ==
            IF s = {} THEN 0 ELSE LET t == CHOOSE x \in s : TRUE IN results[t].score + sum[s \ {t}]
    IN measured = {} \/ sum[measured] >= 950 * Cardinality(measured)

canProceedToCutover(results) ==
    LET overall == calculateOverallStatus(results)
    IN overall = "PASS" \/ (overall = "WARN" /\ ScoreIsHigh(results))

notMeasured(status) == [status |-> status, score |-> 0]
measuredAs(status, score) == [status |-> status, score |-> score]

-----------------------------------------------------------------------------
(* What a careful reader would call wrong, for the properties.             *)

Gone == {i \in Items : typeOf[i] \in enabled
                       /\ row[i].status \notin {"absent", "left_behind"} /\ copy[i] = "none"}

\* What was gone when a run began, has stayed so, and is still to be judged.
StillAmiss ==
    amiss' = [r \in Runs |->
        IF run'[r].state # "running" THEN amiss[r]
        ELSE IF run[r].state = "running" THEN amiss[r] \cap Gone' ELSE Gone']

-----------------------------------------------------------------------------
(* Starting a run.                                                         *)

Latest == IF \E r \in Runs : run[r].state # "none"
          THEN CHOOSE r \in Runs : run[r].state # "none" /\ \A q \in Runs : q > r => run[q].state = "none"
          ELSE 0
latestRunReport ==
    IF Latest = 0 \/ run[Latest].state = "forgotten" THEN "never-run" ELSE run[Latest].state

\* A row of a run, waiting for its scan to begin.
Begun == [state |-> "running", at |-> "next", done |-> {}, type |-> TypeOrder[1], count |-> 0,
          keys |-> {}, missing |-> 0, extra |-> 0, sample |-> <<>>,
          results |-> [t \in Types |-> notMeasured("SKIPPED")]]

\* POST /verify/start asks for the latest run; while it is 'running' the
\* answer is that run.
VerifyStartAsk(o) ==
    /\ deployment = "managed" /\ o \notin asked
    /\ latestRunReport # "running"
    /\ asked' = asked \cup {o}
    /\ UNCHANGED <<deployment, enabled, readable, hashing, row, copy, writing, run, events>>

\* It then inserts its own row and hands it to the worker, and fails the row
\* when the queue refuses it.
VerifyStartInsert(o, queued) ==
    /\ o \in asked /\ Latest < MaxRuns
    /\ asked' = asked \ {o}
    /\ run' = [run EXCEPT ![Latest + 1] = IF queued THEN Begun ELSE [Begun EXCEPT !.state = "failed"]]
    /\ UNCHANGED <<deployment, enabled, readable, hashing, row, copy, writing, events>>

\* The appliance: one run at a time, held in memory.
VerifyRunnerStart ==
    /\ deployment = "selfhost" /\ latestRunReport # "running" /\ Latest < MaxRuns
    /\ run' = [run EXCEPT ![Latest + 1] = Begun]
    /\ UNCHANGED <<deployment, enabled, readable, hashing, row, copy, writing, asked, events>>

\* The worker dies and leaves its row 'running'; the appliance restarts and
\* has forgotten every run.
Dies(r) ==
    /\ run[r].state = "running" /\ run[r].at # "dead"
    /\ IF deployment = "managed"
       THEN run' = [run EXCEPT ![r].at = "dead"]
       ELSE run' = [q \in Runs |-> IF run[q] = NoRun THEN NoRun
                                    ELSE [run[q] EXCEPT !.state = "forgotten"]]
    /\ UNCHANGED <<deployment, enabled, readable, hashing, row, copy, writing, asked, events>>

-----------------------------------------------------------------------------
(* A run, one question at a time.                                          *)

Left(r) == {k \in 1 .. Cardinality(Types) : TypeOrder[k] \notin run[r].done}
Step(r, at) == run[r].state = "running" /\ run[r].at = at
RunOnly == UNCHANGED <<deployment, enabled, readable, hashing, row, copy, writing, asked, events>>

\* verifyDomain: a type out of scope is skipped; one whose target cannot be
\* read is skipped when nothing was recorded, and blocks otherwise.
VerifyDomain(r) ==
    /\ Step(r, "next") /\ Left(r) # {}
    /\ LET t == TypeOrder[CHOOSE k \in Left(r) : \A m \in Left(r) : k <= m]
           skip(status) == [run EXCEPT ![r].done = @ \cup {t}, ![r].results[t] = notMeasured(status)]
       IN CASE t \notin enabled -> run' = skip("SKIPPED")
            [] t \in enabled /\ t \notin readable ->
                 run' = skip(IF countItems(t) = 0 THEN "SKIPPED" ELSE "NOT_VERIFIABLE")
            [] OTHER -> run' = [run EXCEPT ![r].at = "recorded", ![r].type = t, ![r].count = countItems(t)]
    /\ RunOnly

\* findMissingOnTarget: the recorded keys, then the target's listing.
ReadForMissing(r) ==
    /\ Step(r, "recorded")
    /\ run' = [run EXCEPT ![r].at = "listed", ![r].keys = getAllNaturalKeyHashes(run[r].type)]
    /\ RunOnly

\* A variant: the difference of the counts.
MissingByCount(r) ==
    LET there == Cardinality(listEntries(run[r].type))
    IN IF there < Cardinality(run[r].keys) THEN Cardinality(run[r].keys) - there ELSE 0
MissingFrom(r) == Cardinality(run[r].keys \ listEntries(run[r].type))
FindMissingOnTarget(r) ==
    /\ Step(r, "listed")
    /\ run' = [run EXCEPT ![r].at = "known", ![r].missing = MissingFrom(r), ![r].keys = {}]
    /\ RunOnly

\* findExtraOnTarget, likewise; nothing recorded means nothing is extra.
ReadForExtra(r) ==
    /\ Step(r, "known")
    /\ run' = [run EXCEPT ![r].at = "relisted", ![r].keys = getAllNaturalKeyHashes(run[r].type)]
    /\ RunOnly

FindExtraOnTarget(r) ==
    /\ Step(r, "relisted")
    /\ run' = [run EXCEPT ![r].at = "sampled", ![r].keys = {},
                          ![r].extra = IF run[r].keys = {} THEN 0
                                       ELSE Cardinality(listEntries(run[r].type) \ run[r].keys)]
    /\ RunOnly

\* The sample is drawn from the ledger, then looked up on the target.
GetSourceSamples(r) ==
    /\ Step(r, "sampled")
    /\ \E s \in getSamples(run[r].type, calculateSampleSize(run[r].count)) :
          run' = [run EXCEPT ![r].at = "compared", ![r].sample = s]
    /\ RunOnly

CompareSamples(r) ==
    /\ Step(r, "compared")
    /\ LET t == run[r].type
           matches == Cardinality(checksumMatches(t, run[r].sample))
           mismatches == Cardinality(checksumMismatches(t, run[r].sample))
           verdict == measuredAs(
               determineVerificationStatus(run[r].count, run[r].missing, run[r].extra, matches, mismatches),
               Score(run[r].count, run[r].missing, matches, mismatches))
       IN run' = [run EXCEPT ![r].at = "next", ![r].done = @ \cup {t}, ![r].results[t] = verdict,
                             ![r].count = 0, ![r].missing = 0, ![r].extra = 0, ![r].sample = <<>>]
    /\ RunOnly

\* The report lands on the run's own row.
LandRun(r) ==
    /\ Step(r, "next") /\ Left(r) = {}
    /\ run' = [run EXCEPT ![r].state = "done"]
    /\ RunOnly

\* A listing or a query throws: the whole run is failed.
ScanFails(r) ==
    /\ run[r].state = "running" /\ run[r].at \notin {"dead", "next"}
    /\ run' = [run EXCEPT ![r].state = "failed"]
    /\ RunOnly

Scan(r) ==
    VerifyDomain(r) \/ ReadForMissing(r) \/ FindMissingOnTarget(r) \/ ReadForExtra(r)
    \/ FindExtraOnTarget(r) \/ GetSourceSamples(r) \/ CompareSamples(r) \/ LandRun(r)

-----------------------------------------------------------------------------
(* Meanwhile: a pass, the owner, and whoever else uses the target.         *)

Meanwhile ==
    /\ events < MaxEvents /\ events' = events + 1
    /\ UNCHANGED <<deployment, enabled, readable, hashing, run, asked>>

\* A pass puts the source's bytes on the target, and only then in the ledger.
PassWrites(i, hash) ==
    /\ Meanwhile
    /\ writing = Idle /\ row[i].status \in {"absent", "copied", "failed"} /\ hash # row[i].hash
    /\ copy' = [copy EXCEPT ![i] = hash]
    /\ writing' = [op |-> "record", key |-> i]
    /\ UNCHANGED row

PassRecords ==
    /\ writing.op = "record"
    /\ row' = [row EXCEPT ![writing.key] = [status |-> "copied", hash |-> copy[writing.key]]]
    /\ writing' = Idle
    /\ UNCHANGED <<deployment, enabled, readable, hashing, copy, run, asked, events>>

\* An item that cannot be copied is recorded as failed.
PassFails(i) ==
    /\ Meanwhile
    /\ row[i].status = "absent" /\ writing = Idle
    /\ row' = [row EXCEPT ![i] = [status |-> "failed", hash |-> "none"]]
    /\ UNCHANGED <<copy, writing>>

\* The owner accepts a failure: the item is left behind.
Accept(i) ==
    /\ Meanwhile
    /\ row[i].status = "failed"
    /\ row' = [row EXCEPT ![i].status = "left_behind"]
    /\ UNCHANGED <<copy, writing>>

\* The owner applies a deletion: the copy goes, then the row is tombstoned.
RemoveCopy(i) ==
    /\ Meanwhile
    /\ writing = Idle /\ row[i].status = "copied" /\ copy[i] = row[i].hash
    /\ copy' = [copy EXCEPT ![i] = "none"]
    /\ writing' = [op |-> "tombstone", key |-> i]
    /\ UNCHANGED row

Tombstone ==
    /\ writing.op = "tombstone"
    /\ row' = [row EXCEPT ![writing.key].status = "tombstoned"]
    /\ writing' = Idle
    /\ UNCHANGED <<deployment, enabled, readable, hashing, copy, run, asked, events>>

\* A user of the target deletes or edits what is there, or adds an item.
TargetUser(i, to) ==
    /\ Meanwhile
    /\ to # copy[i] /\ writing.key # i
    /\ copy' = [copy EXCEPT ![i] = to]
    /\ UNCHANGED <<row, writing>>

-----------------------------------------------------------------------------
VerificationInit ==
    /\ deployment \in {"managed", "selfhost"}
    /\ enabled \in SUBSET Types /\ readable \in SUBSET Types /\ hashing \in {{}, readable}
    /\ row \in [Items -> {Absent, [status |-> "copied", hash |-> "ours"]}]
    /\ copy = [i \in Items |-> IF row[i] = Absent THEN "none" ELSE "ours"]
    /\ writing = Idle
    /\ run = [r \in Runs |-> NoRun]
    /\ asked = {}
    /\ amiss = [r \in Runs |-> {}]
    /\ events = 0

VerificationNext ==
    /\ \/ \E o \in Operators : VerifyStartAsk(o)
       \/ \E o \in Operators, queued \in BOOLEAN : VerifyStartInsert(o, queued)
       \/ VerifyRunnerStart
       \/ \E r \in Runs : Scan(r) \/ ScanFails(r) \/ Dies(r)
       \/ \E i \in Items : \/ \E hash \in {"ours", "newer"} : PassWrites(i, hash)
                           \/ PassFails(i) \/ Accept(i) \/ RemoveCopy(i)
                           \/ \E to \in {"none", "theirs"} : TargetUser(i, to)
       \/ PassRecords \/ Tombstone
    /\ StillAmiss

VerificationSpec == VerificationInit /\ [][VerificationNext]_gateVars

-----------------------------------------------------------------------------
(* Properties.                                                             *)

\* verification.ts promises that an incomplete copy never reads as ready.  A run
\* that says the cutover may go ahead was not begun over a recorded item, of a
\* data type in scope, whose copy was gone by then and stayed gone until the
\* verdict, whatever passes, owners and users of the target did in between (in
\* a mapping small enough for one item to be more than 1 %).  The contents are
\* only sampled, by a count the pass may have outrun, so no such thing is said
\* of an altered copy.
GateHolds ==
    \A r \in Runs : run[r].state = "done" /\ canProceedToCutover(run[r].results)
                    => amiss[r] = {}

\* verification-queries.ts, lines 101-103, excludes what the owner accepted
\* because counting it would block the cutover forever.  A removal the owner
\* approved and the tool carried out is no reason to hold the cutover either:
\* with nothing else wrong a run does not fail.
ApprovedRemovalPasses ==
    \A r \in Runs :
        run[r].state = "done" /\ events = 1 /\ (\E i \in Items : row[i].status = "tombstoned")
        /\ enabled \subseteq readable
        => canProceedToCutover(run[r].results)

=============================================================================
