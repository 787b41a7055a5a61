---------------------------- MODULE OutsideProofs ---------------------------
(***************************************************************************)
(* The service and those it deals with, for any number of workers, calls   *)
(* and requests, any rate and any price list: the shared budget keeps      *)
(* every interval within its rate (InBudget), a request is never sent      *)
(* again with the token that was refused (RefusedNotResent), an invoice is *)
(* settled by what became of its payment (SettledMeansSettled), and an     *)
(* agreed price stands (PriceStands).                                      *)
(*                                                                         *)
(* InBudget speaks of what was let through; what makes it inductive is the *)
(* bucket: what is left in it, added to what has been let through since a  *)
(* request, never exceeds a burst and the time up to its last refill.      *)
(* RefusedNotResent rests on the numbering of tokens: a renewal is always  *)
(* later than everything its worker has held.  The two about billing rest  *)
(* on what a request may still rely on when it writes: of what it read,    *)
(* only a payment that has ended is final; the rest is only kept from      *)
(* changing while one request at a time is between its read and its write. *)
(***************************************************************************)
EXTENDS Billing, Provider, TLAPS

-----------------------------------------------------------------------------
(* The shared budget.                                                      *)

BudgetInv ==
    /\ now \in Nat
    /\ budget \in Bucket /\ budget.at <= now
    /\ admitted \in Seq(Nat)
    /\ \A i \in DOMAIN admitted :
          /\ admitted[i] <= budget.at
          /\ (Len(admitted) - i) + 1 + budget.tokens <= Rate + (budget.at - admitted[i])
    /\ InBudget

\* What a bucket holds after a wait, measured from an earlier request.
LEMMA Accrued ==
    ASSUME NEW n \in Nat, NEW i \in Nat, NEW held \in Nat, NEW filled \in Nat, NEW rate \in Nat,
           NEW at \in Nat, NEW later \in Nat, NEW then \in Nat,
           then <= at, at <= later, filled <= held + (later - at),
           (n - i) + 1 + held <= rate + (at - then)
    PROVE  /\ then <= later
           /\ ((n + 1) - i) + 1 + (filled - 1) <= rate + (later - then)
  OBVIOUS

\* The bucket is full and nothing is admitted at first.
LEMMA BudgetInitially == ProviderInit => BudgetInv
  BY ProviderAssumption DEF ProviderInit, BudgetInv, Full, Bucket, InBudget

\* PgRateBudget.take is the only step that lets a request through.
LEMMA TakeKeepsBudget ==
    ASSUME BudgetInv, NEW c \in Calls, Take(c)
    PROVE  BudgetInv'
  <1> DEFINE n == Len(admitted)
  <1>1. Rate \in Nat /\ n \in Nat /\ DOMAIN admitted = 1 .. n
    BY ProviderAssumption DEF BudgetInv
  <1>2. /\ budget.tokens \in 0 .. Rate /\ budget.at \in Nat /\ now \in Nat
        /\ budget.at <= now
    BY DEF BudgetInv, Bucket
  <1>3. /\ refill(budget) \in 1 .. Rate
        /\ refill(budget) <= budget.tokens + (now - budget.at)
    BY <1>1, <1>2 DEF Take, refill, Lesser
  <1>4. /\ budget' = [tokens |-> refill(budget) - 1, at |-> now]
        /\ admitted' = Append(admitted, now) /\ now' = now
    BY DEF Take, consume
  <1>5. budget' \in Bucket /\ budget'.tokens = refill(budget) - 1 /\ budget'.at = now
    BY <1>1, <1>2, <1>3, <1>4 DEF Bucket
  <1>6. /\ admitted' \in Seq(Nat) /\ Len(admitted') = n + 1 /\ DOMAIN admitted' = 1 .. (n + 1)
        /\ \A i \in 1 .. n : admitted'[i] = admitted[i]
        /\ admitted'[n + 1] = now
    BY <1>1, <1>2, <1>4 DEF BudgetInv
  <1>7. \A i \in 1 .. n :
           /\ admitted[i] \in Nat /\ admitted[i] <= budget.at
           /\ (n - i) + 1 + budget.tokens <= Rate + (budget.at - admitted[i])
    BY <1>1 DEF BudgetInv
  <1>8. \A i \in DOMAIN admitted' :
           /\ admitted'[i] <= now
           /\ (Len(admitted') - i) + 1 + (refill(budget) - 1) <= Rate + (now - admitted'[i])
    <2> SUFFICES ASSUME NEW i \in 1 .. (n + 1)
                 PROVE  /\ admitted'[i] <= now
                        /\ ((n + 1) - i) + 1 + (refill(budget) - 1) <= Rate + (now - admitted'[i])
      BY <1>6
    <2>1. CASE i = n + 1
      <3>1. admitted'[i] = now /\ ((n + 1) - i) = 0
        BY <1>1, <1>6, <2>1
      <3>2. refill(budget) \in Nat /\ refill(budget) <= Rate
        BY <1>1, <1>3
      <3> QED BY <1>1, <1>2, <3>1, <3>2
    <2>2. CASE i \in 1 .. n
      <3>1. /\ admitted'[i] \in Nat /\ admitted'[i] <= budget.at
            /\ (n - i) + 1 + budget.tokens <= Rate + (budget.at - admitted'[i])
        BY <1>6, <1>7, <2>2
      <3>2. /\ refill(budget) \in Nat /\ budget.tokens \in Nat /\ i \in Nat
            /\ refill(budget) <= budget.tokens + (now - budget.at)
        BY <1>1, <1>2, <1>3, <2>2
      <3>3. \A held, filled, at, then \in Nat :
               /\ then <= at /\ at <= now /\ filled <= held + (now - at)
               /\ (n - i) + 1 + held <= Rate + (at - then)
               => /\ then <= now
                  /\ ((n + 1) - i) + 1 + (filled - 1) <= Rate + (now - then)
        BY <1>1, <1>2, <3>2, Accrued
      <3>4. /\ budget.at \in Nat /\ admitted'[i] <= budget.at /\ budget.at <= now
            /\ admitted'[i] \in Nat
        BY <1>2, <3>1
      <3> HIDE DEF n
      <3> QED BY <3>1, <3>2, <3>3, <3>4
    <2> QED BY <1>1, <2>1, <2>2
  <1>9. InBudget'
    <2> SUFFICES ASSUME NEW i \in 1 .. (n + 1), NEW j \in 1 .. (n + 1), i <= j
                 PROVE  (j - i) + 1 <= Rate + (admitted'[j] - admitted'[i])
      BY <1>6 DEF InBudget
    <2>1. CASE j = n + 1
      <3>1. admitted'[i] \in Nat /\ admitted'[j] = now /\ refill(budget) \in Nat /\ refill(budget) >= 1
        BY <1>1, <1>2, <1>3, <1>6, <2>1
      <3>2. ((n + 1) - i) + 1 + (refill(budget) - 1) <= Rate + (now - admitted'[i])
        BY <1>6, <1>8
      <3> QED BY <1>1, <1>2, <2>1, <3>1, <3>2
    <2>2. CASE j \in 1 .. n
      <3>1. i \in 1 .. n
        BY <1>1, <2>2
      <3> QED BY <1>1, <1>6, <2>2, <3>1 DEF BudgetInv, InBudget
    <2> QED BY <1>1, <2>1, <2>2
  <1> QED BY <1>2, <1>4, <1>5, <1>6, <1>8, <1>9 DEF BudgetInv

\* Time, and whatever else calls do, keeps the budget.
LEMMA BudgetStep == BudgetInv /\ [ProviderNext]_vars => BudgetInv'
  <1> SUFFICES ASSUME BudgetInv, [ProviderNext]_vars PROVE BudgetInv'
    OBVIOUS
  <1>1. CASE UNCHANGED <<budget, admitted>> /\ now' \in Nat /\ now <= now'
    BY <1>1 DEF BudgetInv, InBudget, Bucket
  <1>2. now \in Nat /\ now <= now
    BY DEF BudgetInv
  <1>3. CASE Tick
    BY <1>1, <1>2, <1>3 DEF Tick
  <1>4. CASE UNCHANGED vars
    BY <1>1, <1>2, <1>4 DEF vars
  <1>5. ASSUME NEW w \in Workers, MintFails(w) \/ \E life \in Lifetimes : Minted(w, life)
        PROVE  BudgetInv'
    BY <1>1, <1>2, <1>5 DEF MintFails, Minted
  <1>6. ASSUME NEW c \in Calls, Take(c) PROVE BudgetInv'
    BY <1>6, TakeKeepsBudget
  <1>7. ASSUME NEW c \in Calls,
               \/ \E way \in Ways[c] : Begin(c, way)
               \/ GetToken(c) \/ Refresh(c) \/ WaitForSlot(c) \/ TryConsume(c)
               \/ \E transient \in BOOLEAN : BudgetFails(c, transient)
               \/ \E answer \in Answers : Answered(c, answer)
               \/ \E asked \in Asked : JmapLimited(c, asked)
               \/ JmapBackoff(c) \/ JmapAnswered(c) \/ Resume(c)
        PROVE  BudgetInv'
    <2>1. UNCHANGED <<now, budget, admitted>>
      BY <1>7 DEF Begin, GetToken, Refresh, WaitForSlot, TryConsume, BudgetFails, Answered,
                  JmapLimited, JmapBackoff, JmapAnswered, Resume
    <2> QED BY <1>1, <1>2, <2>1
  <1> QED BY <1>3, <1>4, <1>5, <1>6, <1>7 DEF ProviderNext

\* Whichever workers ask, the budget lets no more through between any two
\* requests than a burst and the time between them allow.
THEOREM BudgetKept == ProviderSpec => []InBudget
  <1>1. BudgetInv => InBudget
    BY DEF BudgetInv
  <1> QED BY <1>1, BudgetInitially, BudgetStep, PTL DEF ProviderSpec

-----------------------------------------------------------------------------
(* Tokens.                                                                 *)

\* A wait need not be shown natural here.
WideCall == [way: {"none"} \cup AllWays, attempt: Nat, token: Nat, refused: Nat, waited: Int,
             at: {"idle", "token", "minting", "slot", "bucket", "budget", "sending", "waiting"}]

\* A call holds nothing its worker's provider has not issued, and one that was
\* refused is on its way to a later token or has it.
HoldsIssued(call, p) ==
    /\ call.token <= p.minted /\ call.refused <= p.minted
    /\ call.refused # 0 =>
          /\ call.way = "google" /\ call.at \in {"token", "minting", "sending"}
          /\ call.at = "sending" => call.token # call.refused

TokenInv ==
    /\ now \in Nat
    /\ calls \in [Calls -> WideCall] /\ tokens \in [Workers -> TokenProvider]
    /\ \A w \in Workers : tokens[w].cached <= tokens[w].minted
    /\ \A c \in Calls : HoldsIssued(calls[c], tokens[Home[c]])

\* A call that rests holds no token.
LEMMA IdleHolds == Idle \in WideCall /\ \A p \in TokenProvider : HoldsIssued(Idle, p)
  BY DEF Idle, WideCall, HoldsIssued, TokenProvider

\* No token is issued at first.
LEMMA TokenInitially == ProviderInit => TokenInv
  <1> SUFFICES ASSUME ProviderInit PROVE TokenInv
    OBVIOUS
  <1>1. tokens \in [Workers -> TokenProvider] /\ \A w \in Workers : tokens[w].cached <= tokens[w].minted
    BY DEF ProviderInit, TokenProvider
  <1>2. calls \in [Calls -> WideCall] /\ \A c \in Calls : HoldsIssued(calls[c], tokens[Home[c]])
    BY <1>1, IdleHolds, ProviderAssumption DEF ProviderInit
  <1> QED BY <1>1, <1>2 DEF ProviderInit, TokenInv

\* A step of one call that leaves the tokens alone.
LEMMA OneCall ==
    ASSUME TokenInv, NEW c \in Calls, NEW new \in WideCall,
           calls' = [calls EXCEPT ![c] = new], UNCHANGED <<now, tokens>>,
           HoldsIssued(new, tokens[Home[c]])
    PROVE  TokenInv'
  <1>1. \A d \in Calls : calls'[d] = IF d = c THEN new ELSE calls[d]
    BY DEF TokenInv
  <1>2. calls' \in [Calls -> WideCall]
    BY DEF TokenInv
  <1> QED BY <1>1, <1>2 DEF TokenInv

\* What is known of a call and of its worker's provider.
LEMMA Known ==
    ASSUME TokenInv, NEW c \in Calls
    PROVE  /\ calls[c] \in WideCall /\ Home[c] \in Workers
           /\ tokens[Home[c]] \in TokenProvider /\ tokens[Home[c]].cached <= tokens[Home[c]].minted
           /\ HoldsIssued(calls[c], tokens[Home[c]])
  BY ProviderAssumption DEF TokenInv

\* Moving on, except to where a request is sent, changes nothing of what is held.
LEMMA MovesHold ==
    ASSUME TokenInv, NEW c \in Calls,
           NEW at \in {"idle", "token", "minting", "slot", "bucket", "budget", "sending", "waiting"},
           calls[c].refused = 0, Moves(c, at), UNCHANGED <<now, tokens>>
    PROVE  TokenInv'
  <1> DEFINE new == [calls[c] EXCEPT !.at = at]
  <1>1. new \in WideCall /\ HoldsIssued(new, tokens[Home[c]])
    BY Known DEF WideCall, HoldsIssued
  <1>2. calls' = [calls EXCEPT ![c] = new]
    BY DEF Moves
  <1> QED BY <1>1, <1>2, OneCall

\* A call that is over lets go of its token.
LEMMA ReturnsHold ==
    ASSUME TokenInv, NEW c \in Calls, Returns(c), UNCHANGED <<now, tokens>>
    PROVE  TokenInv'
  BY Known, IdleHolds, OneCall DEF Returns

\* A call that is not a renewed Google request has not been refused.
LEMMA NotRefused ==
    ASSUME TokenInv, NEW c \in Calls,
           calls[c].way # "google" \/ calls[c].at \notin {"token", "minting", "sending"}
    PROVE  calls[c].refused = 0
  BY Known DEF HoldsIssued

\* getToken with the provider's record as refresh leaves it, or untouched.
LEMMA GetTokenHolds ==
    ASSUME TokenInv, NEW c \in Calls, GetToken(c)
    PROVE  TokenInv'
  <1> DEFINE p == tokens[Home[c]]
  <1>1. /\ p \in TokenProvider /\ p.cached <= p.minted /\ Home[c] \in Workers
        /\ calls[c] \in WideCall /\ HoldsIssued(calls[c], p) /\ calls[c].refused = 0
        /\ UNCHANGED now
    BY Known DEF GetToken
  <1>2. CASE /\ calls' = [calls EXCEPT ![c].token = p.cached, ![c].at = AfterToken(calls[c].way)]
             /\ tokens' = [tokens EXCEPT ![Home[c]] = p]
    <2> DEFINE new == [[calls[c] EXCEPT !.token = p.cached] EXCEPT !.at = AfterToken(calls[c].way)]
    <2>1. new \in WideCall /\ HoldsIssued(new, p)
      BY <1>1 DEF WideCall, HoldsIssued, AfterToken, TokenProvider
    <2>2. calls' = [calls EXCEPT ![c] = new] /\ tokens' = tokens
      BY <1>1, <1>2 DEF TokenInv
    <2> QED BY <1>1, <2>1, <2>2, OneCall
  <1>3. CASE Moves(c, "minting") /\ mint(Home[c], p)
    <2> DEFINE new == [calls[c] EXCEPT !.at = "minting"]
    <2>1. new \in WideCall /\ HoldsIssued(new, p)
      BY <1>1 DEF WideCall, HoldsIssued
    <2>2. /\ [p EXCEPT !.inFlight = TRUE] \in TokenProvider
          /\ [p EXCEPT !.inFlight = TRUE].minted = p.minted /\ [p EXCEPT !.inFlight = TRUE].cached = p.cached
      BY <1>1 DEF TokenProvider
    <2>3. /\ tokens' \in [Workers -> TokenProvider]
          /\ \A w \in Workers : tokens'[w].minted = tokens[w].minted /\ tokens'[w].cached = tokens[w].cached
      BY <1>1, <1>3, <2>2 DEF mint, TokenInv
    <2>4. /\ calls' \in [Calls -> WideCall]
          /\ \A d \in Calls : calls'[d] = IF d = c THEN new ELSE calls[d]
      BY <1>3, <2>1 DEF Moves, TokenInv
    <2>5. \A d \in Calls : HoldsIssued(calls'[d], tokens'[Home[d]])
      BY <2>1, <2>3, <2>4, ProviderAssumption DEF TokenInv, HoldsIssued
    <2> QED BY <1>1, <2>3, <2>4, <2>5 DEF TokenInv
  <1> QED BY <1>2, <1>3 DEF GetToken, getToken

\* refresh empties the cache, so getToken has nothing to answer from.
LEMMA RefreshHolds ==
    ASSUME TokenInv, NEW c \in Calls, Refresh(c)
    PROVE  TokenInv'
  <1> DEFINE p == tokens[Home[c]]
             q == refresh(p)
  <1>1. /\ p \in TokenProvider /\ p.cached <= p.minted /\ Home[c] \in Workers
        /\ calls[c] \in WideCall /\ HoldsIssued(calls[c], p) /\ UNCHANGED now
    BY Known DEF Refresh
  <1>2. q \in TokenProvider /\ q.cached = 0 /\ q.minted = p.minted
    BY <1>1 DEF refresh, TokenProvider
  <1>3. Moves(c, "minting") /\ mint(Home[c], q)
    BY <1>2 DEF Refresh, getToken, stillValid
  <1> DEFINE new == [calls[c] EXCEPT !.at = "minting"]
  <1>4. new \in WideCall /\ HoldsIssued(new, p)
    BY <1>1 DEF WideCall, HoldsIssued
  <1>5. /\ [q EXCEPT !.inFlight = TRUE] \in TokenProvider
        /\ [q EXCEPT !.inFlight = TRUE].minted = p.minted /\ [q EXCEPT !.inFlight = TRUE].cached = 0
    BY <1>2 DEF TokenProvider
  <1>6. /\ tokens' \in [Workers -> TokenProvider]
        /\ \A w \in Workers : tokens'[w].minted = tokens[w].minted
        /\ \A w \in Workers : tokens'[w].cached <= tokens'[w].minted
    BY <1>1, <1>3, <1>5 DEF mint, TokenInv, TokenProvider
  <1>7. /\ calls' \in [Calls -> WideCall]
        /\ \A d \in Calls : calls'[d] = IF d = c THEN new ELSE calls[d]
    BY <1>3, <1>4 DEF Moves, TokenInv
  <1>8. \A d \in Calls : HoldsIssued(calls'[d], tokens'[Home[d]])
    BY <1>4, <1>6, <1>7, ProviderAssumption DEF TokenInv, HoldsIssued
  <1> QED BY <1>1, <1>6, <1>7, <1>8 DEF TokenInv

\* A mint's token is later than anything its worker's calls hold or were refused.
LEMMA MintedHolds ==
    ASSUME TokenInv, NEW w \in Workers, NEW life \in Lifetimes, Minted(w, life)
    PROVE  TokenInv'
  <1> DEFINE n == tokens[w].minted + 1
             p == [cached |-> n, expires |-> now + life, inFlight |-> FALSE, minted |-> n]
  <1>1. tokens[w] \in TokenProvider /\ now \in Nat /\ life \in Nat
    BY ProviderAssumption DEF TokenInv
  <1>2. tokens[w].minted \in Nat /\ n \in Nat /\ n # 0 /\ p \in TokenProvider
    BY <1>1 DEF TokenProvider
  <1>3. /\ tokens' \in [Workers -> TokenProvider]
        /\ \A v \in Workers : tokens'[v] = IF v = w THEN p ELSE tokens[v]
    BY <1>2 DEF Minted, TokenInv
  <1>4. p.minted = n /\ p.cached = n
    OBVIOUS
  <1> HIDE DEF p
  <1>5. \A v \in Workers : tokens'[v].cached <= tokens'[v].minted
    BY <1>2, <1>3, <1>4 DEF TokenInv
  <1>6. ASSUME NEW c \in Calls
        PROVE  calls'[c] \in WideCall /\ HoldsIssued(calls'[c], tokens'[Home[c]])
    <2>1. /\ calls[c] \in WideCall /\ Home[c] \in Workers
          /\ HoldsIssued(calls[c], tokens[Home[c]]) /\ tokens[Home[c]] \in TokenProvider
      BY Known
    <2>2. /\ calls[c].token \in Nat /\ calls[c].refused \in Nat /\ tokens[Home[c]].minted \in Nat
      BY <2>1 DEF WideCall, TokenProvider
    <2>3. CASE c \in Waiting(w)
      <3> DEFINE new == [calls[c] EXCEPT !.token = n, !.at = AfterToken(calls[c].way)]
      <3>1. calls'[c] = new
        BY <2>3 DEF Minted
      <3>2. Home[c] = w
        BY <2>3 DEF Waiting
      <3>3. /\ new \in WideCall /\ new.token = n /\ new.refused = calls[c].refused
            /\ new.way = calls[c].way /\ new.at = AfterToken(calls[c].way)
        BY <1>2, <2>1 DEF WideCall, AfterToken
      <3>4. calls[c].refused <= tokens[w].minted /\ (calls[c].refused # 0 => calls[c].way = "google")
        BY <2>1, <3>2 DEF HoldsIssued
      <3>5. calls[c].way = "google" => AfterToken(calls[c].way) = "sending"
        BY DEF AfterToken, Sent
      <3>6. n <= n /\ calls[c].refused <= n /\ n # calls[c].refused
        BY <1>2, <2>2, <3>2, <3>4
      <3> HIDE DEF new, n
      <3> QED BY <1>3, <1>4, <3>1, <3>2, <3>3, <3>4, <3>5, <3>6 DEF HoldsIssued
    <2>4. CASE c \notin Waiting(w)
      <3>1. calls'[c] = calls[c]
        BY <2>4 DEF Minted
      <3>2. tokens[Home[c]].minted <= tokens'[Home[c]].minted /\ tokens'[Home[c]].minted \in Nat
        BY <1>2, <1>3, <1>4, <2>1, <2>2
      <3> QED BY <2>1, <2>2, <3>1, <3>2 DEF HoldsIssued
    <2> QED BY <2>3, <2>4
  <1>7. calls' \in [Calls -> WideCall]
    BY <1>6 DEF Minted
  <1> QED BY <1>1, <1>3, <1>5, <1>6, <1>7 DEF TokenInv, Minted

\* A mint that fails leaves its callers without a token, and issues none.
LEMMA MintFailsHolds ==
    ASSUME TokenInv, NEW w \in Workers, MintFails(w)
    PROVE  TokenInv'
  <1>1. /\ tokens' \in [Workers -> TokenProvider]
        /\ \A v \in Workers : tokens'[v].cached = tokens[v].cached /\ tokens'[v].minted = tokens[v].minted
    BY DEF MintFails, TokenInv, TokenProvider
  <1>2. \A c \in Calls : calls'[c] = Idle \/ calls'[c] = calls[c]
    BY DEF MintFails
  <1>3. calls' \in [Calls -> WideCall]
    BY <1>2, IdleHolds DEF MintFails, TokenInv
  <1>4. ASSUME NEW c \in Calls PROVE HoldsIssued(calls'[c], tokens'[Home[c]])
    <2>1. Home[c] \in Workers /\ tokens'[Home[c]] \in TokenProvider
      BY <1>1, ProviderAssumption
    <2>2. CASE calls'[c] = Idle
      BY <2>1, <2>2, IdleHolds
    <2>3. CASE calls'[c] = calls[c]
      BY <1>1, <2>1, <2>3, Known DEF HoldsIssued
    <2> QED BY <1>2, <2>2, <2>3
  <1> QED BY <1>1, <1>3, <1>4 DEF TokenInv, MintFails

\* A call begins without a token.
LEMMA BeginHolds ==
    ASSUME TokenInv, NEW c \in Calls, NEW way \in Ways[c], Begin(c, way)
    PROVE  TokenInv'
  <1> DEFINE at == CASE way = "dav" -> "slot" [] way = "jmap" -> "sending" [] OTHER -> "token"
             new == [way |-> way, attempt |-> 0, token |-> 0, refused |-> 0, waited |-> 0, at |-> at]
  <1>1. way \in AllWays /\ at \in {"slot", "sending", "token"}
    BY ProviderAssumption
  <1> HIDE DEF at
  <1>2. new \in WideCall /\ new.token = 0 /\ new.refused = 0
    BY <1>1 DEF WideCall
  <1>3. HoldsIssued(new, tokens[Home[c]])
    BY <1>2, Known DEF HoldsIssued, TokenProvider
  <1>4. calls' = [calls EXCEPT ![c] = new]
    <2> DEFINE named == [way |-> way, attempt |-> 0, token |-> 0, refused |-> 0, waited |-> 0, at |-> "idle"]
    <2>0. [Idle EXCEPT !.way = way] = named
      BY DEF Idle
    <2>1. [[Idle EXCEPT !.way = way] EXCEPT !.at = at] = new
      <3>1. [named EXCEPT !.at = at] = new
        OBVIOUS
      <3> QED BY <2>0, <3>1
    <2>2. calls' = [calls EXCEPT ![c] = [[calls[c] EXCEPT !.way = way] EXCEPT !.at = at]]
      BY DEF Begin, TokenInv, at
    <2> QED BY <2>1, <2>2 DEF Begin
  <1> QED BY <1>2, <1>3, <1>4, OneCall DEF Begin

\* The limiter moves calls that carry no refused token.
LEMMA LimiterHolds ==
    ASSUME TokenInv, NEW c \in Calls, WaitForSlot(c) \/ TryConsume(c) \/ Take(c)
    PROVE  TokenInv'
  <1>1. calls[c].refused = 0
    BY NotRefused DEF WaitForSlot, TryConsume, Take
  <1>2. UNCHANGED <<now, tokens>>
    BY DEF WaitForSlot, TryConsume, Take
  <1>3. Moves(c, "bucket") \/ Moves(c, "budget") \/ Moves(c, "sending")
    BY DEF WaitForSlot, TryConsume, Take
  <1> QED BY <1>1, <1>2, <1>3, MovesHold

\* A call tried again after anything but a 401 has not been refused.
LEMMA RetriedHolds ==
    ASSUME TokenInv, NEW c \in Calls, NEW freed, calls[c].refused = 0, Retried(c, freed),
           UNCHANGED <<now, tokens>>
    PROVE  TokenInv'
  <1> DEFINE new == [[calls[c] EXCEPT !.attempt = calls[c].attempt + 1] EXCEPT !.at = "waiting"]
  <1>0. calls[c] \in WideCall /\ calls[c].attempt + 1 \in Nat
    BY Known DEF WideCall
  <1>1. new \in WideCall /\ HoldsIssued(new, tokens[Home[c]])
    BY <1>0, Known DEF WideCall, HoldsIssued
  <1>2. calls' = [calls EXCEPT ![c] = new]
    BY DEF Retried, TokenInv
  <1> QED BY <1>1, <1>2, OneCall

\* The budget store fails: the call is tried again or gives up.
LEMMA BudgetFailsHolds ==
    ASSUME TokenInv, NEW c \in Calls, NEW transient \in BOOLEAN, BudgetFails(c, transient)
    PROVE  TokenInv'
  <1>1. calls[c].refused = 0 /\ UNCHANGED <<now, tokens>>
    BY NotRefused DEF BudgetFails
  <1>2. Returns(c) \/ Retried(c, 1)
    BY DEF BudgetFails, Thrown
  <1> QED BY <1>1, <1>2, ReturnsHold, RetriedHolds

\* An answer: only a 401 marks a token as refused.
LEMMA AnsweredHolds ==
    ASSUME TokenInv, NEW c \in Calls, NEW answer \in Answers, Answered(c, answer)
    PROVE  TokenInv'
  <1>1. calls[c].at = "sending" /\ UNCHANGED <<now, tokens>>
    BY DEF Answered
  <1>2. CASE Executed(c, answer) \/ DriveAnswered(c, answer) \/ DavAnswered(c) \/ MailAnswered(c, answer)
    <2>1. calls[c].refused = 0
      BY <1>2, NotRefused DEF Executed, DriveAnswered, DavAnswered, MailAnswered
    <2>2. Returns(c) \/ Retried(c, 0) \/ Moves(c, "waiting") \/ UNCHANGED calls
      BY <1>2 DEF Executed, DriveAnswered, DavAnswered, MailAnswered, Thrown
    <2>3. CASE UNCHANGED calls
      BY <1>1, <2>3 DEF TokenInv
    <2> QED BY <1>1, <2>1, <2>2, <2>3, ReturnsHold, RetriedHolds, MovesHold
  <1>3. CASE GoogleAnswered(c, answer)
    <2>1. CASE calls' = [calls EXCEPT ![c].refused = calls[c].token, ![c].at = "token"]
      <3> DEFINE new == [[calls[c] EXCEPT !.refused = calls[c].token] EXCEPT !.at = "token"]
      <3>1. new \in WideCall
        BY Known DEF WideCall
      <3>2. /\ new.token = calls[c].token /\ new.refused = calls[c].token /\ new.at = "token"
            /\ new.way = "google"
        BY <1>3, Known DEF WideCall, GoogleAnswered
      <3>3. calls' = [calls EXCEPT ![c] = new]
        BY <2>1 DEF TokenInv
      <3> HIDE DEF new
      <3>4. HoldsIssued(new, tokens[Home[c]])
        BY <3>2, Known DEF HoldsIssued
      <3> QED BY <1>1, <3>1, <3>3, <3>4, OneCall
    <2>2. CASE Returns(c)
      BY <1>1, <2>2, ReturnsHold
    <2> QED BY <1>3, <2>1, <2>2 DEF GoogleAnswered
  <1> QED BY <1>2, <1>3 DEF Answered

\* The smaller of two numbers is one of them.
LEMMA LesserIsEither == \A a, b \in Int : Lesser(a, b) \in {a, b}
  BY DEF Lesser

\* The retry loop of the JMAP transport, which knows no tokens.
LEMMA JmapHolds ==
    ASSUME TokenInv, NEW c \in Calls,
           JmapAnswered(c) \/ JmapBackoff(c) \/ \E asked \in Asked : JmapLimited(c, asked)
    PROVE  TokenInv'
  <1>1. calls[c].refused = 0 /\ UNCHANGED <<now, tokens>>
    BY NotRefused DEF JmapAnswered, JmapBackoff, JmapLimited
  <1>2. calls[c] \in WideCall /\ calls[c].waited \in Int /\ calls[c].attempt \in Nat
    BY Known DEF WideCall
  <1>3. Patience \in Nat /\ LongestWait \in Nat /\ Asked \subseteq Nat
    BY ProviderAssumption
  <1>4. CASE Returns(c)
    BY <1>1, <1>4, ReturnsHold
  <1>5. ASSUME NEW more \in Int, NEW tries \in Nat,
               calls' = [calls EXCEPT ![c] = [calls[c] EXCEPT !.waited = more, !.at = "waiting",
                                                              !.attempt = tries]]
        PROVE  TokenInv'
    <2> DEFINE new == [calls[c] EXCEPT !.waited = more, !.at = "waiting", !.attempt = tries]
    <2>1. new \in WideCall /\ HoldsIssued(new, tokens[Home[c]])
      BY <1>1, <1>2, Known DEF WideCall, HoldsIssued
    <2> QED BY <1>1, <1>5, <2>1, OneCall
  <1> DEFINE remaining == Patience - calls[c].waited
  <1>6. remaining \in Int /\ Lesser(LongestWait, remaining) \in Int
    BY <1>2, <1>3 DEF Lesser
  <1>7. ASSUME NEW asked \in Asked, JmapLimited(c, asked)
        PROVE  TokenInv'
    <2> DEFINE wait == Lesser(asked, Lesser(LongestWait, remaining))
    <2>1. asked \in Int /\ wait \in Int
      BY <1>3, <1>6 DEF Lesser
    <2> HIDE DEF remaining, wait
    <2>2. calls[c].waited + wait \in Int
      BY <1>2, <2>1
    <2>3. CASE calls' = [calls EXCEPT ![c].waited = @ + wait, ![c].at = "waiting"]
      <3>1. calls' = [calls EXCEPT ![c] = [calls[c] EXCEPT !.waited = calls[c].waited + wait,
                                                           !.at = "waiting", !.attempt = calls[c].attempt]]
        BY <1>2, <2>3 DEF TokenInv, WideCall
      <3> QED BY <1>2, <1>5, <2>2, <3>1
    <2> QED BY <1>4, <1>7, <2>3 DEF JmapLimited, remaining, wait
  <1>8. ASSUME JmapBackoff(c)
        PROVE  TokenInv'
    <2> DEFINE wait == Lesser(2 ^ calls[c].attempt, Lesser(LongestWait, remaining))
               tries == Lesser(calls[c].attempt + 1, LongestWait)
    <2>0. 2 ^ calls[c].attempt \in Int
      BY <1>2
    <2>1. wait \in Int /\ tries \in Nat
      BY <1>2, <1>3, <1>6, <2>0 DEF Lesser
    <2> HIDE DEF remaining, wait, tries
    <2>2. calls[c].waited + wait \in Int
      BY <1>2, <2>1
    <2>3. CASE calls' = [calls EXCEPT ![c].waited = @ + wait, ![c].at = "waiting", ![c].attempt = tries]
      <3>1. calls' = [calls EXCEPT ![c] = [calls[c] EXCEPT !.waited = calls[c].waited + wait,
                                                           !.at = "waiting", !.attempt = tries]]
        BY <1>2, <2>3 DEF TokenInv, WideCall
      <3> QED BY <1>5, <2>1, <2>2, <3>1
    <2> QED BY <1>4, <1>8, <2>3 DEF JmapBackoff, remaining, wait, tries
  <1> QED BY <1>4, <1>7, <1>8 DEF JmapAnswered

\* A wait is over.
LEMMA ResumeHolds ==
    ASSUME TokenInv, NEW c \in Calls, Resume(c)
    PROVE  TokenInv'
  <1>1. calls[c].refused = 0 /\ UNCHANGED <<now, tokens>>
    BY NotRefused DEF Resume
  <1>2. Moves(c, "slot") \/ Moves(c, "token") \/ Moves(c, "sending")
    BY DEF Resume
  <1> QED BY <1>1, <1>2, MovesHold

\* Every step of calls, mints and time keeps the invariant.
LEMMA TokenStep == TokenInv /\ [ProviderNext]_vars => TokenInv'
  <1> SUFFICES ASSUME TokenInv, [ProviderNext]_vars PROVE TokenInv'
    OBVIOUS
  <1>1. CASE UNCHANGED <<tokens, calls>> /\ now' \in Nat
    BY <1>1 DEF TokenInv
  <1>2. CASE Tick
    BY <1>1, <1>2 DEF Tick, TokenInv
  <1>3. CASE UNCHANGED vars
    BY <1>1, <1>3 DEF vars, TokenInv
  <1>4. ASSUME NEW w \in Workers, MintFails(w) \/ \E life \in Lifetimes : Minted(w, life)
        PROVE  TokenInv'
    BY <1>4, MintFailsHolds, MintedHolds
  <1>5. ASSUME NEW c \in Calls,
               \/ \E way \in Ways[c] : Begin(c, way)
               \/ GetToken(c) \/ Refresh(c) \/ WaitForSlot(c) \/ TryConsume(c) \/ Take(c)
               \/ \E transient \in BOOLEAN : BudgetFails(c, transient)
               \/ \E answer \in Answers : Answered(c, answer)
               \/ \E asked \in Asked : JmapLimited(c, asked)
               \/ JmapBackoff(c) \/ JmapAnswered(c) \/ Resume(c)
        PROVE  TokenInv'
    BY <1>5, BeginHolds, GetTokenHolds, RefreshHolds, LimiterHolds, BudgetFailsHolds, AnsweredHolds,
       JmapHolds, ResumeHolds
  <1> QED BY <1>2, <1>3, <1>4, <1>5 DEF ProviderNext

\* Whatever the other calls of the worker mint, join or drop meanwhile, a request
\* sent again after a 401 carries another token than the one refused.
THEOREM RenewedBeforeResent == ProviderSpec => []RefusedNotResent
  <1>1. TokenInv => RefusedNotResent
    BY DEF TokenInv, HoldsIssued, RefusedNotResent
  <1> QED BY <1>1, TokenInitially, TokenStep, PTL DEF ProviderSpec

-----------------------------------------------------------------------------
(* Invoices and prices.                                                    *)

\* The amounts are sums over the usage of all domains, about which the provers
\* cannot reason; nothing below depends on them.  So the types are stated without.
CallFields == {"at", "bills", "price", "payment", "next"}
Unpriced ==
    /\ {"status", "payment"} \subseteq DOMAIN invoice
    /\ \E S : payments \in Seq(S)
    /\ \A k \in DOMAIN payments : {"status"} \subseteq DOMAIN payments[k]
    /\ DOMAIN api = Callers
    /\ \A h \in Callers : CallFields \subseteq DOMAIN api[h]

\* One request at a time is between its read and its write.
OneWrites == \A g, h \in Callers : api[g].at \in Writing /\ api[h].at \in Writing => g = h

\* What a webhook has read of its payment is final, since the payment has ended.
Ended(c) ==
    /\ c.payment \in DOMAIN payments
    /\ c.next = invoiceStatusFor(payments[c.payment].status)
    /\ c.next # "none"

\* What a request has read still holds.
CallHolds(c) ==
    /\ c.at = "pinning" => agreed = NoPrice
    /\ c.at \in {"matching", "settling"} => Ended(c)
    /\ c.at = "settling" => invoice.payment = c.payment

CallsHold == \A h \in Callers : CallHolds(api[h])

BillingInv == Unpriced /\ OneWrites /\ CallsHold /\ SettledMeansSettled

\* There is no invoice and no call at first.
LEMMA BillingInitially == BillingInit => BillingInv
  <1> SUFFICES ASSUME BillingInit PROVE BillingInv
    OBVIOUS
  <1>1. /\ DOMAIN api = Callers /\ \A h \in Callers : api[h] = NoCall
        /\ invoice = NoInvoice
    BY DEF BillingInit
  <1>2. DOMAIN payments = {} /\ payments \in Seq({})
    BY DEF BillingInit
  <1>3. Unpriced
    BY <1>1, <1>2 DEF Unpriced, CallFields, NoCall, NoInvoice
  <1> QED BY <1>1, <1>3 DEF BillingInv, OneWrites, CallsHold, CallHolds, SettledMeansSettled, NoCall, NoInvoice, Writing

\* A request's next state is op: the other requests stay as they are.
LEMMA GoesTo ==
    ASSUME Unpriced, NEW h \in Callers, NEW op, CallFields \subseteq DOMAIN op, Goes(h, op)
    PROVE  /\ api'[h] = op
           /\ \A g \in Callers \ {h} : api'[g] = api[g]
           /\ DOMAIN api' = Callers
           /\ \A g \in Callers : CallFields \subseteq DOMAIN api'[g]
  BY DEF Unpriced, Goes

\* A request moves on without a write: enough that what it holds is true, and that
\* no other request writes if it is about to.
LEMMA ReaderHolds ==
    ASSUME BillingInv, NEW h \in Callers, NEW op, CallFields \subseteq DOMAIN op, Goes(h, op),
           CallHolds(op),
           op.at \in Writing => api[h].at \in Writing \/ \A g \in Callers \ {h} : api[g].at \notin Writing,
           UNCHANGED <<agreed, invoice, payments>>
    PROVE  BillingInv'
  <1>0. Unpriced /\ OneWrites /\ CallsHold /\ SettledMeansSettled
    BY DEF BillingInv
  <1>1. /\ api'[h] = op /\ \A g \in Callers \ {h} : api'[g] = api[g]
        /\ DOMAIN api' = Callers /\ \A g \in Callers : CallFields \subseteq DOMAIN api'[g]
    BY <1>0, GoesTo
  <1>2. Unpriced'
    BY <1>0, <1>1 DEF Unpriced
  <1>3. OneWrites'
    BY <1>0, <1>1 DEF OneWrites
  <1>4. CallsHold'
    <2> SUFFICES ASSUME NEW g \in Callers PROVE CallHolds(api[g])'
      BY DEF CallsHold
    <2>1. CallHolds(api'[g])
      BY <1>0, <1>1 DEF CallsHold
    <2> QED BY <2>1 DEF CallHolds, Ended
  <1>5. SettledMeansSettled'
    BY <1>0 DEF SettledMeansSettled
  <1> QED BY <1>2, <1>3, <1>4, <1>5 DEF BillingInv

\* A request ends.
LEMMA NoCallShape == CallFields \subseteq DOMAIN NoCall /\ NoCall.at = "idle" /\ CallHolds(NoCall)
  BY DEF NoCall, CallFields, CallHolds

\* The only request that writes ends with it: the others hold nothing the write can
\* make untrue.
LEMMA WriterHolds ==
    ASSUME BillingInv, NEW h \in Callers, \A g \in Callers \ {h} : api[g].at \notin Writing,
           NEW op, CallFields \subseteq DOMAIN op, Goes(h, op), op.at \notin Writing,
           op.at # "matching",
           payments' = payments, {"status", "payment"} \subseteq DOMAIN invoice', SettledMeansSettled'
    PROVE  BillingInv'
  <1>0. Unpriced /\ OneWrites /\ CallsHold /\ SettledMeansSettled
    BY DEF BillingInv
  <1>1. /\ api'[h] = op /\ \A g \in Callers \ {h} : api'[g] = api[g]
        /\ DOMAIN api' = Callers /\ \A g \in Callers : CallFields \subseteq DOMAIN api'[g]
    BY <1>0, GoesTo
  <1>2. Unpriced'
    BY <1>0, <1>1 DEF Unpriced
  <1>3. OneWrites'
    BY <1>0, <1>1 DEF OneWrites
  <1>4. CallsHold'
    <2> SUFFICES ASSUME NEW g \in Callers PROVE CallHolds(api[g])'
      BY DEF CallsHold
    <2>1. CASE g = h
      BY <1>1, <2>1 DEF CallHolds, Writing
    <2>2. CASE g # h
      <3>1. api'[g] = api[g] /\ CallHolds(api[g]) /\ api[g].at \notin Writing
        BY <1>0, <1>1, <2>2 DEF CallsHold
      <3> QED BY <3>1 DEF CallHolds, Ended, Writing
    <2> QED BY <2>1, <2>2
  <1> QED BY <1>2, <1>3, <1>4 DEF BillingInv

\* Every step of billing keeps the invariant, and a price once agreed.
LEMMA BillingStep ==
    ASSUME ~CallsOverlap, BillingInv, [BillingNext]_billingVars
    PROVE  BillingInv' /\ (agreed # NoPrice => agreed' = agreed)
  <1> DEFINE Good == BillingInv' /\ (agreed # NoPrice => agreed' = agreed)
  <1>0. Unpriced /\ OneWrites /\ CallsHold /\ SettledMeansSettled
    BY DEF BillingInv
  <1>1. CASE UNCHANGED <<invoice, payments, api>> /\ (agreed' = agreed \/ (agreed = NoPrice /\ \A h \in Callers : api[h].at \notin Writing))
    <2>1. Unpriced' /\ OneWrites' /\ SettledMeansSettled'
      BY <1>0, <1>1 DEF Unpriced, OneWrites, SettledMeansSettled
    <2>2. CallsHold'
      BY <1>0, <1>1 DEF CallsHold, CallHolds, Ended, Writing
    <2> QED BY <1>1, <2>1, <2>2 DEF BillingInv
  <1>2. CASE UNCHANGED billingVars
    BY <1>1, <1>2 DEF billingVars
  <1>3. ASSUME NEW t \in Templates, Redeploy(t) PROVE Good
    BY <1>1, <1>3 DEF Redeploy, money
  <1>4. ASSUME NEW d \in Domains, NEW mb \in Megabytes, NEW ch \in CentiHours, Meter(d, mb, ch) PROVE Good
    BY <1>1, <1>4 DEF Meter, money
  <1>5. CASE AddMethod
    BY <1>1, <1>5 DEF AddMethod, money
  <1>6. ASSUME NEW k \in DOMAIN payments, NEW s \in {"paid"} \cup Dead, PaymentEnds(k, s) PROVE Good
    <2>1. UNCHANGED <<agreed, invoice, api>>
      BY <1>6 DEF PaymentEnds, usage
    <2>2. /\ payments' \in Seq(UNION {{payments[i], payments'[i]} : i \in DOMAIN payments})
          /\ DOMAIN payments' = DOMAIN payments
          /\ \A i \in DOMAIN payments : {"status"} \subseteq DOMAIN payments'[i]
          /\ \A i \in DOMAIN payments : payments[i].status # "open" => payments'[i] = payments[i]
      <3>1. PICK S : payments \in Seq(S)
        BY <1>0 DEF Unpriced
      <3>2. payments' = [payments EXCEPT ![k] = [payments[k] EXCEPT !.status = s]] /\ payments[k].status = "open"
        BY <1>6 DEF PaymentEnds
      <3>3. Len(payments) \in Nat /\ DOMAIN payments = 1 .. Len(payments)
        BY <3>1
      <3> QED BY <1>0, <3>2, <3>3 DEF Unpriced
    <2>3. \A i \in DOMAIN payments : invoiceStatusFor(payments[i].status) # "none" => payments'[i] = payments[i]
      BY <2>2 DEF invoiceStatusFor, Dead
    <2>4. Unpriced'
      BY <1>0, <2>1, <2>2 DEF Unpriced
    <2>5. OneWrites' /\ CallsHold'
      BY <1>0, <2>1, <2>2, <2>3 DEF OneWrites, CallsHold, CallHolds, Ended
    <2>6. SettledMeansSettled'
      BY <1>0, <2>1, <2>2, <2>3 DEF SettledMeansSettled
    <2> QED BY <2>1, <2>4, <2>5, <2>6 DEF BillingInv
  <1>7. ASSUME NEW h \in Callers PROVE
          /\ (Quote(h) \/ GenerateInvoice(h)) => Good
          /\ PinPricing(h) => Good
          /\ CostUsage(h) => Good
          /\ UpsertInvoice(h) => Good
          /\ ReadInvoice(h) => Good
          /\ CreatePayment(h) => Good
          /\ NamePayment(h) => Good
          /\ (\E k \in DOMAIN payments : Webhook(h, k)) => Good
          /\ MatchInvoice(h) => Good
          /\ SettleInvoice(h) => Good
          /\ (\E m \in DOMAIN methods : ClearDefaults(h, m)) => Good
          /\ SetDefault(h) => Good
          /\ CallDies(h) => Good
    <2>0. NoneWrites(h) => \A g \in Callers \ {h} : api[g].at \notin Writing
      BY DEF NoneWrites
    <2>9. api[h].at \in Writing => \A g \in Callers \ {h} : api[g].at \notin Writing
      BY <1>0 DEF OneWrites
    <2>10. CallFields \subseteq DOMAIN api[h] /\ CallHolds(api[h])
      BY <1>0 DEF Unpriced, CallsHold
    <2>e. ASSUME Ends(h), UNCHANGED <<agreed, invoice, payments>> PROVE Good
      BY <2>e, NoCallShape, ReaderHolds DEF Ends, Writing
    <2>1. ASSUME Quote(h) \/ GenerateInvoice(h) PROVE Good
      <3>1. PICK b \in BOOLEAN : NoneWrites(h) /\ resolveTenantPricing(h, b)
        BY <2>1 DEF Quote, GenerateInvoice
      <3>2. UNCHANGED <<agreed, invoice, payments>>
        BY <2>1 DEF Quote, GenerateInvoice, money
      <3> DEFINE a == [NoCall EXCEPT !.at = "costing", !.bills = b, !.price = agreed]
                 p == [NoCall EXCEPT !.at = "pinning", !.bills = b, !.price = template]
      <3>3. /\ CallFields \subseteq DOMAIN a /\ a.at = "costing"
            /\ CallFields \subseteq DOMAIN p /\ p.at = "pinning"
        BY DEF NoCall, CallFields
      <3>4. Goes(h, a) \/ (agreed = NoPrice /\ Goes(h, p))
        BY <3>1 DEF resolveTenantPricing, parsePinnedPricing
      <3>5. CallHolds(a) /\ (agreed = NoPrice => CallHolds(p))
        BY <3>3 DEF CallHolds
      <3> HIDE DEF a, p
      <3>6. a.at \notin Writing
        BY <3>3 DEF Writing
      <3> QED BY <2>0, <3>1, <3>2, <3>3, <3>4, <3>5, <3>6, ReaderHolds
    <2>2. ASSUME PinPricing(h) PROVE Good
      <3>1. /\ api[h].at \in Writing /\ agreed = NoPrice
            /\ UNCHANGED <<invoice, payments>>
        BY <2>2, <2>10 DEF PinPricing, Writing, CallHolds, money
      <3>2. SettledMeansSettled' /\ {"status", "payment"} \subseteq DOMAIN invoice'
        BY <1>0, <3>1 DEF SettledMeansSettled, Unpriced
      <3>3. /\ CallFields \subseteq DOMAIN Where(h, "costing") /\ Where(h, "costing").at = "costing"
        BY <2>10 DEF Where, CallFields
      <3>4. Goes(h, Where(h, "costing")) \/ Goes(h, NoCall)
        BY <2>2 DEF PinPricing, Ends
      <3>5. "costing" \notin Writing /\ "idle" \notin Writing
        BY DEF Writing
      <3> QED BY <2>9, <3>1, <3>2, <3>3, <3>4, <3>5, NoCallShape, WriterHolds
    <2>3. ASSUME CostUsage(h) PROVE Good
      <3> DEFINE cost == calculateCost(getUsageMetricsForPeriod, api[h].price).total
                 op == [Where(h, "upserting") EXCEPT !.total = cost]
      <3> HIDE DEF cost
      <3>1. CallFields \subseteq DOMAIN op /\ op.at = "upserting"
        BY <2>10 DEF Where, CallFields
      <3>2. Ends(h) \/ Goes(h, op)
        BY <2>3 DEF CostUsage, cost
      <3>3. UNCHANGED <<agreed, invoice, payments>> /\ NoneWrites(h)
        BY <2>3 DEF CostUsage, money
      <3>4. CallHolds(op)
        BY <3>1 DEF CallHolds
      <3> HIDE DEF op
      <3> QED BY <2>0, <2>e, <3>1, <3>2, <3>3, <3>4, ReaderHolds
    <2>4. ASSUME UpsertInvoice(h) PROVE Good
      <3>1. api[h].at \in Writing /\ Goes(h, NoCall) /\ payments' = payments /\ agreed' = agreed
        BY <2>4 DEF UpsertInvoice, Writing, Ends
      <3>2. SettledMeansSettled' /\ {"status", "payment"} \subseteq DOMAIN invoice'
        BY <1>0, <2>4 DEF SettledMeansSettled, Unpriced, UpsertInvoice, NoInvoice
      <3>3. "idle" \notin Writing
        BY DEF Writing
      <3> QED BY <2>9, <3>1, <3>2, <3>3, NoCallShape, WriterHolds
    <2>5. ASSUME ReadInvoice(h) PROVE Good
      <3> DEFINE op == [NoCall EXCEPT !.at = "paying", !.total = invoice.total]
      <3>1. CallFields \subseteq DOMAIN op /\ op.at = "paying"
        BY DEF NoCall, CallFields
      <3>2. Goes(h, op) /\ UNCHANGED <<agreed, invoice, payments>>
        BY <2>5 DEF ReadInvoice, money
      <3>3. CallHolds(op) /\ op.at \notin Writing
        BY <3>1 DEF CallHolds, Writing
      <3> HIDE DEF op
      <3> QED BY <3>1, <3>2, <3>3, ReaderHolds
    <2>6. ASSUME CreatePayment(h) PROVE Good
      <3> DEFINE new == [status |-> "open", amount |-> api[h].total]
                 op == [Where(h, "naming") EXCEPT !.payment = Len(payments) + 1]
      <3>1. CallFields \subseteq DOMAIN op /\ op.at = "naming"
        BY <2>10 DEF Where, CallFields
      <3>2. Goes(h, op) /\ payments' = Append(payments, new) /\ UNCHANGED <<agreed, invoice>>
        BY <2>6 DEF CreatePayment
      <3>3. PICK S : payments \in Seq(S)
        BY <1>0 DEF Unpriced
      <3>4. {"status"} \subseteq DOMAIN new
        OBVIOUS
      <3> HIDE DEF op, new
      <3>5. /\ payments' \in Seq(S \cup {new})
            /\ DOMAIN payments \subseteq DOMAIN payments'
            /\ \A i \in DOMAIN payments : payments'[i] = payments[i]
            /\ \A i \in DOMAIN payments' : payments'[i] = new \/ (i \in DOMAIN payments /\ payments'[i] = payments[i])
        <4>1. payments \in Seq(S \cup {new}) /\ new \in S \cup {new}
          BY <3>3
        <4> QED BY <3>2, <4>1
      <3>6. /\ api'[h] = op /\ \A g \in Callers \ {h} : api'[g] = api[g]
            /\ DOMAIN api' = Callers /\ \A g \in Callers : CallFields \subseteq DOMAIN api'[g]
        BY <1>0, <3>1, <3>2, GoesTo
      <3>7. Unpriced'
        BY <1>0, <3>2, <3>4, <3>5, <3>6 DEF Unpriced
      <3>8. OneWrites'
        BY <1>0, <3>1, <3>6 DEF OneWrites, Writing
      <3>9. CallsHold'
        <4> SUFFICES ASSUME NEW g \in Callers PROVE CallHolds(api[g])'
          BY DEF CallsHold
        <4>1. CASE g = h
          BY <3>1, <3>6, <4>1 DEF CallHolds
        <4>2. CASE g # h
          <5>1. api'[g] = api[g] /\ CallHolds(api[g])
            BY <1>0, <3>6, <4>2 DEF CallsHold
          <5> QED BY <3>2, <3>5, <5>1 DEF CallHolds, Ended
        <4> QED BY <4>1, <4>2
      <3>10. SettledMeansSettled'
        BY <1>0, <3>2, <3>5 DEF SettledMeansSettled
      <3> QED BY <3>2, <3>7, <3>8, <3>9, <3>10 DEF BillingInv
    <2>7. ASSUME NamePayment(h) PROVE Good
      <3>1. NoneWrites(h) /\ Goes(h, NoCall) /\ payments' = payments /\ agreed' = agreed
        BY <2>7 DEF NamePayment, Ends
      <3>2. SettledMeansSettled' /\ {"status", "payment"} \subseteq DOMAIN invoice'
        BY <1>0, <2>7 DEF SettledMeansSettled, Unpriced, NamePayment
      <3>3. "idle" \notin Writing
        BY DEF Writing
      <3> QED BY <2>0, <3>1, <3>2, <3>3, NoCallShape, WriterHolds
    <2>8. ASSUME NEW k \in DOMAIN payments, Webhook(h, k) PROVE Good
      <3> DEFINE next == invoiceStatusFor(payments[k].status)
                 op == [NoCall EXCEPT !.at = "matching", !.payment = k, !.next = next]
      <3>1. UNCHANGED <<agreed, invoice, payments>>
        BY <2>8 DEF Webhook
      <3>2. UNCHANGED api \/ (next # "none" /\ Goes(h, op))
        BY <2>8 DEF Webhook
      <3>3. CASE UNCHANGED api
        BY <1>1, <3>1, <3>3
      <3>4. CASE next # "none" /\ Goes(h, op)
        <4>1. CallFields \subseteq DOMAIN op /\ op.at = "matching" /\ op.payment = k /\ op.next = next
          BY DEF NoCall, CallFields
        <4>2. CallHolds(op) /\ op.at \notin Writing
          BY <3>4, <4>1 DEF CallHolds, Writing, Ended
        <4> HIDE DEF op, next
        <4> QED BY <3>1, <3>4, <4>1, <4>2, ReaderHolds
      <3> QED BY <3>2, <3>3, <3>4
    <2>11. ASSUME MatchInvoice(h) PROVE Good
      <3>1. UNCHANGED <<agreed, invoice, payments>> /\ NoneWrites(h) /\ api[h].at = "matching"
        BY <2>11 DEF MatchInvoice
      <3>2. Ends(h) \/ (invoice.payment = api[h].payment /\ Goes(h, Where(h, "settling")))
        BY <2>11 DEF MatchInvoice
      <3>3. /\ CallFields \subseteq DOMAIN Where(h, "settling") /\ Where(h, "settling").at = "settling"
            /\ Where(h, "settling").payment = api[h].payment /\ Where(h, "settling").next = api[h].next
        BY <2>10 DEF Where, CallFields
      <3>4. invoice.payment = api[h].payment => CallHolds(Where(h, "settling"))
        BY <2>10, <3>1, <3>3 DEF CallHolds, Ended
      <3> QED BY <2>0, <2>e, <3>1, <3>2, <3>3, <3>4, ReaderHolds
    <2>12. ASSUME SettleInvoice(h) PROVE Good
      <3>1. api[h].at \in Writing /\ Goes(h, NoCall) /\ payments' = payments /\ agreed' = agreed
        BY <2>12 DEF SettleInvoice, Writing, Ends
      <3>2. Ended(api[h]) /\ invoice.payment = api[h].payment
        BY <2>10, <2>12 DEF SettleInvoice, CallHolds
      <3>3. invoice'.status = api[h].next /\ invoice'.payment = invoice.payment
            /\ {"status", "payment"} \subseteq DOMAIN invoice'
        BY <1>0, <2>12 DEF SettleInvoice, Unpriced
      <3>4. SettledMeansSettled'
        BY <3>1, <3>2, <3>3 DEF SettledMeansSettled, Ended
      <3>5. "idle" \notin Writing
        BY DEF Writing
      <3> QED BY <2>9, <3>1, <3>3, <3>4, <3>5, NoCallShape, WriterHolds
    <2>13. ASSUME NEW m \in DOMAIN methods, ClearDefaults(h, m) PROVE Good
      <3> DEFINE op == [NoCall EXCEPT !.at = "defaulting", !.method = m]
      <3>1. CallFields \subseteq DOMAIN op /\ op.at = "defaulting"
        BY DEF NoCall, CallFields
      <3>2. Goes(h, op) /\ UNCHANGED <<agreed, invoice, payments>> /\ NoneWrites(h)
        BY <2>13 DEF ClearDefaults, money
      <3>3. CallHolds(op)
        BY <3>1 DEF CallHolds
      <3> HIDE DEF op
      <3> QED BY <2>0, <3>1, <3>2, <3>3, ReaderHolds
    <2>14. ASSUME SetDefault(h) \/ CallDies(h) PROVE Good
      BY <2>e, <2>14 DEF SetDefault, CallDies, money
    <2> HIDE DEF Good
    <2> QED BY <2>1, <2>2, <2>3, <2>4, <2>5, <2>6, <2>7, <2>8, <2>11, <2>12, <2>13, <2>14
  <1> HIDE DEF Good
  <1>8. Good
    BY <1>2, <1>3, <1>4, <1>5, <1>6, <1>7 DEF BillingNext, Good
  <1> QED BY <1>8 DEF Good

\* Whatever payments end in which order, and however often Mollie reports them: as
\* long as requests do not write between another's read and its write, an invoice is
\* settled only by what became of the payment it names.
THEOREM InvoicesSettleTruly == ASSUME ~CallsOverlap PROVE BillingSpec => []SettledMeansSettled
  <1>1. BillingInv /\ [BillingNext]_billingVars => BillingInv'
    BY BillingStep
  <1>2. BillingInv => SettledMeansSettled
    BY DEF BillingInv
  <1> QED BY <1>1, <1>2, BillingInitially, PTL DEF BillingSpec

\* Under the same condition no request replaces an agreed price.
THEOREM AgreedPriceStands == ASSUME ~CallsOverlap PROVE BillingSpec => PriceStands
  <1>1. BillingInv /\ [BillingNext]_billingVars => BillingInv'
    BY BillingStep
  <1>2. BillingInv /\ [BillingNext]_billingVars => [agreed # NoPrice => agreed' = agreed]_billingVars
    BY BillingStep
  <1> QED BY <1>1, <1>2, BillingInitially, PTL DEF BillingSpec, PriceStands

=============================================================================
