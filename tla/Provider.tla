------------------------------ MODULE Provider ------------------------------
(***************************************************************************)
(* How requests reach a provider that limits them.  Each worker process    *)
(* has a ThrottleLimiter (packages/shared/src/throttling.ts: a count of    *)
(* requests under way and a token bucket) and a token provider that mints  *)
(* access tokens one at a time; the workers share one rate budget in       *)
(* Postgres (packages/ledger/src/pg-rate-budget.ts).  Sources and targets  *)
(* call through them in six ways; requests of one worker interleave at     *)
(* every await, requests of two workers anywhere.                          *)
(*                                                                         *)
(* Time is counted in refills: a tick is the time in which a bucket gains  *)
(* one token.  Waits before a retry are not timed.                         *)
(***************************************************************************)
EXTENDS Integers, Sequences

CONSTANTS
    Workers, Calls, Home,           \* the worker each call is made in
    Ways,                           \* the ways in which each call may be made
    MaxConcurrent, MaxRetries,      \* ThrottleConfig
    Rate,                           \* requestsPerSecond: what a bucket holds
    Shared,                         \* the limiters were given the shared budget
    Lifetimes, Buffer,              \* how long a token lives; when it counts as stale
    Asked,                          \* what a Retry-After may say
    Patience, LongestWait,          \* RATE_LIMIT_TOTAL_BUDGET_MS, RATE_LIMIT_MAX_WAIT_MS
    MaxTime, MaxMints, MaxCalls

Sent == {"calendar", "drive"}       \* ways through executeWithThrottling
AllWays == Sent \cup {"dav", "mail", "google", "jmap"}

ASSUME ProviderAssumption ==
    /\ Home \in [Calls -> Workers]
    /\ Ways \in [Calls -> SUBSET AllWays]
    /\ {MaxConcurrent, Rate} \subseteq Nat \ {0}
    /\ MaxRetries \in Nat /\ Shared \in BOOLEAN
    /\ Lifetimes \subseteq Nat /\ Asked \subseteq Nat
    /\ {Buffer, Patience, LongestWait, MaxTime, MaxMints, MaxCalls} \subseteq Nat

VARIABLES
    now,
    active,    \* activeRequests of each worker's limiter
    bucket,    \* each worker's TokenBucket for the provider
    budget,    \* the row of rate_budget
    tokens,    \* each worker's token provider
    calls,     \* the calls under way
    begun,     \* how many calls there have been
    admitted   \* when the shared budget let each request through

vars == <<now, active, bucket, budget, tokens, calls, begun, admitted>>

Bucket == [tokens: 0 .. Rate, at: Nat]

\* cached: the number of the token held, 0 for none; minted: the tokens issued.
TokenProvider == [cached: Nat, expires: Nat, inFlight: BOOLEAN, minted: Nat]

\* refused: the token the provider answered 401 to.
Call == [way: {"none"} \cup AllWays, attempt: Nat, token: Nat, refused: Nat, waited: Nat,
         at: {"idle", "token", "minting", "slot", "bucket", "budget", "sending", "waiting"}]
Idle == [way |-> "none", attempt |-> 0, token |-> 0, refused |-> 0, waited |-> 0, at |-> "idle"]

ProviderTypeOK ==
    /\ now \in Nat
    /\ active \in [Workers -> Int]
    /\ bucket \in [Workers -> Bucket]
    /\ budget \in Bucket
    /\ tokens \in [Workers -> TokenProvider]
    /\ calls \in [Calls -> Call]
    /\ begun \in Nat
    /\ admitted \in Seq(Nat)

Full == [tokens |-> Rate, at |-> 0]

ProviderInit ==
    /\ now = 0
    /\ active = [w \in Workers |-> 0]
    /\ bucket = [w \in Workers |-> Full]
    /\ budget = Full
    /\ tokens = [w \in Workers |-> [cached |-> 0, expires |-> 0, inFlight |-> FALSE, minted |-> 0]]
    /\ calls = [c \in Calls |-> Idle]
    /\ begun = 0
    /\ admitted = << >>

Moves(c, at) == calls' = [calls EXCEPT ![c].at = at]
Returns(c) == calls' = [calls EXCEPT ![c] = Idle]

-----------------------------------------------------------------------------
(* Buckets.                                                                *)

Lesser(a, b) == IF a < b THEN a ELSE b

\* A variant that keeps every token an idle time would have brought.
refillUncapped(b) == b.tokens + (now - b.at)
\* What is in a bucket now: refilled for the time elapsed, never beyond capacity.
refill(b) == Lesser(Rate, b.tokens + (now - b.at))

consume(b) == [tokens |-> refill(b) - 1, at |-> now]

-----------------------------------------------------------------------------
(* Tokens.                                                                 *)

stillValid(p) == p.cached # 0 /\ p.expires - now > Buffer

\* Where a call goes with its token: through the limiter, or straight out.
AfterToken(way) == IF way \in Sent THEN "slot" ELSE "sending"

mint(w, p) == tokens' = [tokens EXCEPT ![w] = [p EXCEPT !.inFlight = TRUE]]

\* getToken: the cached token while it is valid, else the mint in flight, else one.
getToken(c, p) ==
    \/ /\ stillValid(p)
       /\ calls' = [calls EXCEPT ![c].token = p.cached, ![c].at = AfterToken(calls[c].way)]
       /\ tokens' = [tokens EXCEPT ![Home[c]] = p]
    \/ /\ ~stillValid(p)
       /\ p.inFlight \/ p.minted < MaxMints
       /\ Moves(c, "minting")
       /\ mint(Home[c], p)

GetToken(c) ==
    /\ calls[c].at = "token" /\ calls[c].refused = 0
    /\ getToken(c, tokens[Home[c]])
    /\ UNCHANGED <<now, active, bucket, budget, begun, admitted>>

\* A variant that answers a refusal from the cache.
RefreshCached(p) == p
\* refresh, after a 401: what is cached is dropped; a mint in flight is joined.
refresh(p) == [p EXCEPT !.cached = 0, !.expires = 0]

Refresh(c) ==
    /\ calls[c].at = "token" /\ calls[c].refused # 0
    /\ getToken(c, refresh(tokens[Home[c]]))
    /\ UNCHANGED <<now, active, bucket, budget, begun, admitted>>

\* The calls that wait for the worker's mint.
Waiting(w) == {c \in Calls : Home[c] = w /\ calls[c].at = "minting"}

\* The provider's token endpoint answers: the token is cached and all who wait get it.
Minted(w, life) ==
    LET n == tokens[w].minted + 1 IN
    /\ tokens[w].inFlight
    /\ tokens' = [tokens EXCEPT ![w] =
                    [cached |-> n, expires |-> now + life, inFlight |-> FALSE, minted |-> n]]
    /\ calls' = [c \in Calls |->
                   IF c \in Waiting(w)
                   THEN [calls[c] EXCEPT !.token = n, !.at = AfterToken(calls[c].way)]
                   ELSE calls[c]]
    /\ UNCHANGED <<now, active, bucket, budget, begun, admitted>>

\* It refuses, or cannot be reached: all who wait fail.
MintFails(w) ==
    /\ tokens[w].inFlight
    /\ tokens' = [tokens EXCEPT ![w].inFlight = FALSE]
    /\ calls' = [c \in Calls |-> IF c \in Waiting(w) THEN Idle ELSE calls[c]]
    /\ UNCHANGED <<now, active, bucket, budget, begun, admitted>>

-----------------------------------------------------------------------------
(* The limiter.                                                            *)

Holds(w, n) == active' = [active EXCEPT ![w] = @ + n]

\* waitForSlot: polled until fewer requests are under way than the limit.
WaitForSlot(c) ==
    /\ calls[c].at = "slot"
    /\ active[Home[c]] < MaxConcurrent
    /\ Holds(Home[c], 1)
    /\ Moves(c, "bucket")
    /\ UNCHANGED <<now, bucket, budget, tokens, begun, admitted>>

TryConsume(c) ==
    LET w == Home[c] IN
    /\ calls[c].at = "bucket" /\ refill(bucket[w]) >= 1
    /\ bucket' = [bucket EXCEPT ![w] = consume(@)]
    /\ Moves(c, IF Shared THEN "budget" ELSE "sending")
    /\ UNCHANGED <<now, active, budget, tokens, begun, admitted>>

\* PgRateBudget.take: one statement refills, tests and consumes.
Take(c) ==
    /\ calls[c].at = "budget" /\ refill(budget) >= 1
    /\ budget' = consume(budget)
    /\ admitted' = Append(admitted, now)
    /\ Moves(c, "sending")
    /\ UNCHANGED <<now, active, bucket, tokens, begun>>

\* A failure of executeWithThrottling's try block, freed slots already given up in
\* it: one that may pass is retried, its slot kept; else the slot is released.
Retried(c, freed) ==
    /\ calls[c].attempt < MaxRetries
    /\ calls' = [calls EXCEPT ![c].attempt = @ + 1, ![c].at = "waiting"]
    /\ Holds(Home[c], -freed)
Thrown(c, freed) == Returns(c) /\ Holds(Home[c], -1 - freed)

\* The budget's statement fails: waitForSlot gives its slot up and throws.  For
\* executeWithThrottling that is a failure like any other.
BudgetFails(c, transient) ==
    /\ calls[c].at = "budget"
    /\ IF calls[c].way = "dav" THEN Returns(c) /\ Holds(Home[c], -1)
       ELSE IF transient /\ calls[c].attempt < MaxRetries THEN Retried(c, 1)
       ELSE Thrown(c, 1)
    /\ UNCHANGED <<now, bucket, budget, tokens, begun, admitted>>

-----------------------------------------------------------------------------
(* What the provider answers.                                              *)

\* executeWithThrottling: a response, 429 or 503, a failure that may pass, another.
Executed(c, answer) ==
    /\ calls[c].way = "calendar"
    /\ \/ answer \in {"limited", "transient"} /\ Retried(c, 0)
       \/ /\ answer \in {"limited", "transient"} => calls[c].attempt = MaxRetries
          /\ Thrown(c, 0)

\* The drive source waits out a 429 inside the request, in its slot.
DriveAnswered(c, answer) ==
    /\ calls[c].way = "drive"
    /\ \/ answer = "limited" /\ UNCHANGED <<calls, active>>
       \/ answer = "transient" /\ Retried(c, 0)
       \/ /\ answer # "limited" /\ (answer = "transient" => calls[c].attempt = MaxRetries)
          /\ Thrown(c, 0)

\* send of the DAV sources: the slot is released whatever the answer.
DavAnswered(c) ==
    /\ calls[c].way = "dav"
    /\ Returns(c) /\ Holds(Home[c], -1)

\* request of the Graph mail source: a 429 starts it over, token included.
MailAnswered(c, answer) ==
    /\ calls[c].way = "mail"
    /\ IF answer = "limited" THEN Moves(c, "waiting") ELSE Returns(c)
    /\ UNCHANGED active

\* googleDriveTransport: a 401 is answered with one renewed token.
GoogleAnswered(c, answer) ==
    /\ calls[c].way = "google"
    /\ IF answer = "refused" /\ calls[c].refused = 0
       THEN calls' = [calls EXCEPT ![c].refused = calls[c].token, ![c].at = "token"]
       ELSE Returns(c)
    /\ UNCHANGED active

Answered(c, answer) ==
    /\ calls[c].at = "sending"
    /\ \/ Executed(c, answer) \/ DriveAnswered(c, answer) \/ DavAnswered(c)
       \/ MailAnswered(c, answer) \/ GoogleAnswered(c, answer)
    /\ UNCHANGED <<now, bucket, budget, tokens, begun, admitted>>

\* fetchWithRateLimitRetry: a wait asked for beyond what is left of the budget ends
\* the call, any other is waited out in part; without Retry-After the wait doubles.
JmapLimited(c, asked) ==
    LET remaining == Patience - calls[c].waited
        wait == Lesser(asked, Lesser(LongestWait, remaining))
    IN  /\ calls[c].way = "jmap" /\ calls[c].at = "sending"
        /\ IF remaining <= 0 \/ asked > remaining THEN Returns(c)
           ELSE calls' = [calls EXCEPT ![c].waited = @ + wait, ![c].at = "waiting"]
        /\ UNCHANGED <<now, active, bucket, budget, tokens, begun, admitted>>

JmapBackoff(c) ==
    LET remaining == Patience - calls[c].waited
        wait == Lesser(2 ^ calls[c].attempt, Lesser(LongestWait, remaining))
    IN  /\ calls[c].way = "jmap" /\ calls[c].at = "sending"
        /\ IF remaining <= 0 THEN Returns(c)
           ELSE calls' = [calls EXCEPT ![c].waited = @ + wait, ![c].at = "waiting",
                                       ![c].attempt = Lesser(@ + 1, LongestWait)]
        /\ UNCHANGED <<now, active, bucket, budget, tokens, begun, admitted>>

JmapAnswered(c) ==
    /\ calls[c].way = "jmap" /\ calls[c].at = "sending"
    /\ Returns(c)
    /\ UNCHANGED <<now, active, bucket, budget, tokens, begun, admitted>>

-----------------------------------------------------------------------------

\* A source or a target starts a call.
Begin(c, way) ==
    /\ calls[c] = Idle /\ begun < MaxCalls
    /\ begun' = begun + 1
    /\ calls' = [calls EXCEPT ![c].way = way,
                   ![c].at = CASE way = "dav" -> "slot" [] way = "jmap" -> "sending"
                               [] OTHER -> "token"]
    /\ UNCHANGED <<now, active, bucket, budget, tokens, admitted>>

\* A wait is over: back to the start of the loop.
Resume(c) ==
    /\ calls[c].at = "waiting"
    /\ Moves(c, CASE calls[c].way \in Sent -> "slot" [] calls[c].way = "mail" -> "token"
                  [] OTHER -> "sending")
    /\ UNCHANGED <<now, active, bucket, budget, tokens, begun, admitted>>

Tick ==
    /\ now < MaxTime
    /\ now' = now + 1
    /\ UNCHANGED <<active, bucket, budget, tokens, calls, begun, admitted>>

Answers == {"ok", "limited", "transient", "refused"}

ProviderNext ==
    \/ Tick
    \/ \E w \in Workers : MintFails(w) \/ \E life \in Lifetimes : Minted(w, life)
    \/ \E c \in Calls :
         \/ \E way \in Ways[c] : Begin(c, way)
         \/ GetToken(c) \/ Refresh(c) \/ WaitForSlot(c) \/ TryConsume(c) \/ Take(c)
         \/ \E transient \in BOOLEAN : BudgetFails(c, transient)
         \/ \E answer \in Answers : Answered(c, answer)
         \/ \E asked \in Asked : JmapLimited(c, asked)
         \/ JmapBackoff(c) \/ JmapAnswered(c) \/ Resume(c)

ProviderSpec == ProviderInit /\ [][ProviderNext]_vars

\* Timers fire and providers answer; nobody has to begin a call.
Patient == \A c \in Calls :
    WF_vars(Resume(c) \/ JmapBackoff(c) \/ JmapAnswered(c) \/ \E a \in Asked : JmapLimited(c, a))
ProviderFairSpec == ProviderSpec /\ Patient

-----------------------------------------------------------------------------
(* Properties.                                                             *)

\* The budget the whole service shares: between any two requests it let through,
\* whichever workers they came from, no more than a burst and the time elapsed
\* allow (PgRateBudget.take, one statement for concurrent acquires).
InBudget ==
    \A i, j \in DOMAIN admitted :
        i <= j => (j - i) + 1 <= Rate + (admitted[j] - admitted[i])

\* A request sent again after a 401 never carries the token that was refused,
\* whoever else is minting, joining or dropping tokens meanwhile (refresh).
RefusedNotResent ==
    \A c \in Calls : calls[c].at = "sending" /\ calls[c].refused # 0
                       => calls[c].token # calls[c].refused

\* A limiter none of whose requests is under way counts no request as active.
IdleCountsNone ==
    \A w \in Workers : (\A c \in Calls : Home[c] = w => calls[c].at = "idle") => active[w] = 0

\* A JMAP call ends: fetchWithRateLimitRetry retries within a time budget.
PatienceEnds == \A c \in Calls : calls[c].way = "jmap" ~> calls[c].way # "jmap"

=============================================================================
