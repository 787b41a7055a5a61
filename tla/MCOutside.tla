----------------------------- MODULE MCOutside ------------------------------
(***************************************************************************)
(* The service's dealings with others: the payment provider that settles   *)
(* its invoices (Billing) and the mail, file and calendar providers that   *)
(* limit its requests (Provider).  The two share no state, so they are     *)
(* explored side by side and not in product: about says which one a        *)
(* behaviour is about, and the other rests in an initial state.            *)
(***************************************************************************)
EXTENDS Billing, Provider, TLC

VARIABLE about

\* Billing requests under way are interchangeable.
Interchangeable == Permutations(Callers)

\* Two price lists, one of them the default.
DefaultPricing == [baseFee |-> 999, storagePricePerGB |-> 10, egressPricePerGB |-> 20,
                   computePricePerHour |-> 5]
NewPricing == [DefaultPricing EXCEPT !.baseFee = 1499]
TwoLists == {DefaultPricing, NewPricing}

\* Two workers, one with two calls, against one provider.
MCHome == [c1 |-> "w1", c2 |-> "w1", c3 |-> "w2"]
MCWays == [c1 |-> AllWays, c2 |-> {"google"}, c3 |-> {"dav"}]
JmapAlone == [c \in Calls |-> {"jmap"}]
CalendarsAlone == [c \in Calls |-> {"calendar"}]

OutsideInit ==
    /\ about \in {"billing", "provider"}
    /\ BillingInit /\ (about = "billing" \/ template = DefaultPricing)
    /\ ProviderInit

OnBilling == about = "billing" /\ BillingNext /\ UNCHANGED vars
OnProvider == about = "provider" /\ ProviderNext /\ UNCHANGED billingVars

OutsideNext == (OnBilling \/ OnProvider) /\ UNCHANGED about

OutsideSpec == OutsideInit /\ [][OutsideNext]_<<about, billingVars, vars>>

\* Timers fire and providers answer.
OutsideFairSpec == OutsideSpec /\ Patient
=============================================================================
