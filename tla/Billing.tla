------------------------------ MODULE Billing ------------------------------
(***************************************************************************)
(* What an organisation of the managed service is charged for a month, and *)
(* how it pays: metering (packages/managed/src/usage-metering.ts), prices  *)
(* agreed on first use (tenant-pricing.ts), the invoice of the month       *)
(* (apps/api/src/services/invoice-generation.ts), payments at Mollie       *)
(* (services/mollie, external beyond the client) and the webhook that      *)
(* reports them (routes/billing/webhooks.ts).  Each request is a sequence  *)
(* of statements; the payment provider acts, and calls back, in between.   *)
(***************************************************************************)
EXTENDS Integers, Sequences, Functions

CONSTANTS
    Templates,    \* price lists the operator has configured, in cents
    NoPrice,
    Domains,      \* the domains of a mapping that are metered
    Callers,      \* requests the API can have under way at once
    CallsOverlap,  \* a request may write between another's read and its write
    Megabytes, CentiHours,         \* what a pass may copy, and how long it may take
    MaxPasses, MaxPayments, MaxMethods

Cents == Nat
PricingConfig == [baseFee: Cents, storagePricePerGB: Cents, egressPricePerGB: Cents,
                  computePricePerHour: Cents]

ASSUME BillingAssumption ==
    /\ Templates \subseteq PricingConfig /\ NoPrice \notin PricingConfig
    /\ CallsOverlap \in BOOLEAN
    /\ Megabytes \subseteq Nat /\ CentiHours \subseteq Nat
    /\ {MaxPasses, MaxPayments, MaxMethods} \subseteq Nat

VARIABLES
    template,  \* PRICING_* of the running processes
    agreed,    \* tenant_pricing
    copied,    \* megabytes of the items synced in the period
    compute,   \* usage_metric: hundredths of an hour, for each domain
    passes,    \* passes metered so far
    invoice,   \* the invoice of the period
    payments,  \* the payments at Mollie
    events,    \* payments whose change Mollie has still to report
    methods,   \* payment_method: the default one among those added
    api       \* what each request under way has read

billingVars == <<template, agreed, copied, compute, passes, invoice, payments, events, methods, api>>

-----------------------------------------------------------------------------
(* Usage and cost.                                                         *)

\* Math.round(n / d).
Rounded(n, d) == (2 * n + d) \div (2 * d)
VAT_RATE == 21

\* Integer cents, each component rounded: megabytes and hundredths of an hour
\* against prices for a gigabyte and an hour.
calculateCost(m, pricing) ==
    LET storage == Rounded(m.storageMB * pricing.storagePricePerGB, 1000)
        egress == Rounded(m.egressMB * pricing.egressPricePerGB, 1000)
        computeCost == Rounded(m.centiHours * pricing.computePricePerHour, 100)
        subtotal == pricing.baseFee + storage + egress + computeCost
        tax == Rounded(subtotal * VAT_RATE, 100)
    IN  [subtotal |-> subtotal, tax |-> tax, total |-> subtotal + tax]

\* getUsageMetricsForPeriod: storage and egress are both the bytes of the items
\* synced in the period, compute the sum of the stored metrics.
getUsageMetricsForPeriod ==
    [storageMB |-> copied, egressMB |-> copied, centiHours |-> SumFunction(compute)]

-----------------------------------------------------------------------------
(* Invoices, payments and requests under way.                              *)

Invoice == [status: {"none", "draft", "sent", "paid", "void"}, total: Cents, payment: Nat]
NoInvoice == [status |-> "none", total |-> 0, payment |-> 0]

Dead == {"failed", "canceled", "expired"}
Payment == [status: {"open", "paid"} \cup Dead, amount: Cents]

\* invoiceStatusFor: what a payment makes of its invoice, "none" while it is open.
invoiceStatusFor(status) ==
    IF status = "paid" THEN "paid" ELSE IF status \in Dead THEN "void" ELSE "none"

\* at: what a request does next.
Writing == {"pinning", "upserting", "settling", "defaulting"}
BillingCall == [at: {"idle", "costing", "paying", "naming", "matching"} \cup Writing,
            bills: BOOLEAN, price: PricingConfig \cup {NoPrice}, total: Cents,
            payment: Nat, next: {"none", "paid", "void"}, method: Nat]
NoCall == [at |-> "idle", bills |-> FALSE, price |-> NoPrice, total |-> 0, payment |-> 0,
         next |-> "none", method |-> 0]

BillingTypeOK ==
    /\ template \in Templates
    /\ agreed \in Templates \cup {NoPrice}
    /\ copied \in Nat /\ compute \in [Domains -> Nat] /\ passes \in 0 .. MaxPasses
    /\ invoice \in Invoice
    /\ payments \in Seq(Payment)
    /\ events \subseteq DOMAIN payments
    /\ methods \in Seq(BOOLEAN)
    /\ api \in [Callers -> BillingCall]

BillingInit ==
    /\ template \in Templates
    /\ agreed = NoPrice
    /\ copied = 0 /\ compute = [d \in Domains |-> 0] /\ passes = 0
    /\ invoice = NoInvoice
    /\ payments = << >> /\ events = {}
    /\ methods = << >>
    /\ api = [h \in Callers |-> NoCall]

Goes(h, op) == api' = [api EXCEPT ![h] = op]
Where(h, place) == [api[h] EXCEPT !.at = place]
Ends(h) == Goes(h, NoCall)

\* No other request is between its read and its write.
NoneWrites(h) == CallsOverlap \/ \A g \in Callers \ {h} : api[g].at \notin Writing

usage == <<copied, compute, passes>>
money == <<invoice, payments, events>>

-----------------------------------------------------------------------------
(* Metering and prices.                                                    *)

\* The operator changes PRICING_* and restarts the processes one by one: requests
\* under way keep the template they have read.
Redeploy(t) ==
    /\ t # template
    /\ template' = t
    /\ UNCHANGED <<agreed, usage, money, methods, api>>

\* The end of a domain's pass: its compute replaces that of its last pass
\* (recordComputeForRun), the items it synced carry the period, and the price is
\* agreed now if it has not been.
Meter(d, mb, ch) ==
    /\ passes < MaxPasses
    /\ CallsOverlap \/ \A h \in Callers : api[h].at \notin Writing
    /\ passes' = passes + 1
    /\ copied' = copied + mb
    /\ compute' = [compute EXCEPT ![d] = ch]
    /\ agreed' = IF agreed = NoPrice THEN template ELSE agreed
    /\ UNCHANGED <<template, money, methods, api>>

\* parsePinnedPricing: the stored agreement, when it can be read as one.
parsePinnedPricing == agreed # NoPrice

\* A variant that bills at the current price list.
ReadTemplate(h, bills) == Goes(h, [NoCall EXCEPT !.at = "pinning", !.bills = bills, !.price = template])
\* resolveTenantPricing: the agreement, or else the template, which becomes one.
resolveTenantPricing(h, bills) ==
    IF parsePinnedPricing
    THEN Goes(h, [NoCall EXCEPT !.at = "costing", !.bills = bills, !.price = agreed])
    ELSE Goes(h, [NoCall EXCEPT !.at = "pinning", !.bills = bills, !.price = template])

\* Usage, history and estimate change nothing but the agreement.
Quote(h) ==
    /\ api[h].at = "idle" /\ NoneWrites(h) /\ ~parsePinnedPricing
    /\ resolveTenantPricing(h, FALSE)
    /\ UNCHANGED <<template, agreed, usage, money, methods>>

\* POST invoices/generate.
GenerateInvoice(h) ==
    /\ api[h].at = "idle" /\ NoneWrites(h)
    /\ resolveTenantPricing(h, TRUE)
    /\ UNCHANGED <<template, agreed, usage, money, methods>>

\* An upsert: it also replaces an agreement made since.
PinPricing(h) ==
    /\ api[h].at = "pinning"
    /\ agreed' = api[h].price
    /\ IF api[h].bills THEN Goes(h, Where(h, "costing")) ELSE Ends(h)
    /\ UNCHANGED <<template, usage, money, methods>>

-----------------------------------------------------------------------------
(* The invoice of the period.                                              *)

\* generateInvoiceForPeriod: cost the usage, and leave a settled invoice alone.
CostUsage(h) ==
    /\ api[h].at = "costing" /\ NoneWrites(h)
    /\ IF invoice.status \in {"paid", "void"} THEN Ends(h)
       ELSE Goes(h, [Where(h, "upserting")
                     EXCEPT !.total = calculateCost(getUsageMetricsForPeriod, api[h].price).total])
    /\ UNCHANGED <<template, agreed, usage, money, methods>>

\* ON CONFLICT DO UPDATE ... WHERE status NOT IN ('paid', 'void').
UpsertInvoice(h) ==
    /\ api[h].at = "upserting"
    /\ invoice' = IF invoice.status = "none" THEN [NoInvoice EXCEPT !.status = "draft", !.total = api[h].total]
                  ELSE IF invoice.status \in {"paid", "void"} THEN invoice
                  ELSE [invoice EXCEPT !.total = api[h].total]
    /\ Ends(h)
    /\ UNCHANGED <<template, agreed, usage, payments, events, methods>>

-----------------------------------------------------------------------------
(* Paying.                                                                 *)

\* POST pay: the invoice, whatever its status.
ReadInvoice(h) ==
    /\ api[h].at = "idle"
    /\ invoice.status # "none"
    /\ Goes(h, [NoCall EXCEPT !.at = "paying", !.total = invoice.total])
    /\ UNCHANGED <<template, agreed, usage, money, methods>>

\* payments.create: the payment names the invoice and the amount.
CreatePayment(h) ==
    /\ api[h].at = "paying" /\ Len(payments) < MaxPayments
    /\ payments' = Append(payments, [status |-> "open", amount |-> api[h].total])
    /\ Goes(h, [Where(h, "naming") EXCEPT !.payment = Len(payments) + 1])
    /\ UNCHANGED <<template, agreed, usage, invoice, events, methods>>

\* The invoice is sent, and waits for this payment.
NamePayment(h) ==
    /\ api[h].at = "naming" /\ NoneWrites(h)
    /\ invoice' = [invoice EXCEPT !.status = "sent", !.payment = api[h].payment]
    /\ Ends(h)
    /\ UNCHANGED <<template, agreed, usage, payments, events, methods>>

\* The customer pays, cancels or lets it expire, and Mollie has something to report.
PaymentEnds(k, status) ==
    /\ payments[k].status = "open"
    /\ payments' = [payments EXCEPT ![k].status = status]
    /\ events' = events \cup {k}
    /\ UNCHANGED <<template, agreed, usage, invoice, methods, api>>

\* The webhook asks Mollie for the payment it is told of.  Mollie repeats a call
\* until it is answered 200, and may repeat one that was.
Webhook(h, k) ==
    LET next == invoiceStatusFor(payments[k].status) IN
    /\ api[h].at = "idle"
    /\ IF next = "none" THEN events' = events \ {k} /\ UNCHANGED api
       ELSE /\ Goes(h, [NoCall EXCEPT !.at = "matching", !.payment = k, !.next = next])
            /\ UNCHANGED events
    /\ UNCHANGED <<template, agreed, usage, invoice, payments, methods>>

\* A variant that settles the invoice on a call about any of its payments.
MatchAnyPayment(h) ==
    LET k == api[h].payment IN
    /\ api[h].at = "matching" /\ NoneWrites(h)
    /\ IF invoice.status \notin {"paid", "void"}
       THEN Goes(h, Where(h, "settling")) /\ UNCHANGED events
       ELSE Ends(h) /\ events' = events \ {k}
    /\ UNCHANGED <<template, agreed, usage, invoice, payments, methods>>

\* The invoice that waits for this payment and is not settled, if there is one: any
\* other call is answered and forgotten.
MatchInvoice(h) ==
    LET k == api[h].payment IN
    /\ api[h].at = "matching" /\ NoneWrites(h)
    /\ IF invoice.payment = k /\ invoice.status \notin {"paid", "void"}
       THEN Goes(h, Where(h, "settling")) /\ UNCHANGED events
       ELSE Ends(h) /\ events' = events \ {k}
    /\ UNCHANGED <<template, agreed, usage, invoice, payments, methods>>

\* UPDATE ... WHERE id: by the invoice, not by its payment.
SettleInvoice(h) ==
    /\ api[h].at = "settling"
    /\ invoice' = [invoice EXCEPT !.status = api[h].next]
    /\ events' = events \ {api[h].payment}
    /\ Ends(h)
    /\ UNCHANGED <<template, agreed, usage, payments, methods>>

-----------------------------------------------------------------------------
(* Payment methods.                                                        *)

AddMethod ==
    /\ Len(methods) < MaxMethods
    /\ methods' = Append(methods, FALSE)
    /\ UNCHANGED <<template, agreed, usage, money, api>>

\* PATCH default: clear every default, then set one, in two transactions.
ClearDefaults(h, m) ==
    /\ api[h].at = "idle" /\ NoneWrites(h)
    /\ methods' = [n \in DOMAIN methods |-> FALSE]
    /\ Goes(h, [NoCall EXCEPT !.at = "defaulting", !.method = m])
    /\ UNCHANGED <<template, agreed, usage, money>>

SetDefault(h) ==
    /\ api[h].at = "defaulting"
    /\ methods' = [methods EXCEPT ![api[h].method] = TRUE]
    /\ Ends(h)
    /\ UNCHANGED <<template, agreed, usage, money>>

\* The API process dies: a transaction under way is undone, Mollie is not answered.
CallDies(h) ==
    /\ api[h].at # "idle"
    /\ Ends(h)
    /\ UNCHANGED <<template, agreed, usage, money, methods>>

-----------------------------------------------------------------------------
BillingNext ==
    \/ \E t \in Templates : Redeploy(t)
    \/ \E d \in Domains, mb \in Megabytes, ch \in CentiHours : Meter(d, mb, ch)
    \/ AddMethod
    \/ \E k \in DOMAIN payments, s \in {"paid"} \cup Dead : PaymentEnds(k, s)
    \/ \E h \in Callers :
          \/ Quote(h) \/ GenerateInvoice(h)
          \/ PinPricing(h) \/ CostUsage(h) \/ UpsertInvoice(h)
          \/ ReadInvoice(h) \/ CreatePayment(h) \/ NamePayment(h)
          \/ \E k \in DOMAIN payments : Webhook(h, k)
          \/ MatchInvoice(h) \/ SettleInvoice(h)
          \/ \E m \in DOMAIN methods : ClearDefaults(h, m)
          \/ SetDefault(h) \/ CallDies(h)

BillingSpec == BillingInit /\ [][BillingNext]_billingVars

-----------------------------------------------------------------------------
(* Properties.                                                             *)

\* An invoice says paid, or void, only of a payment that was paid, or that ended
\* unpaid: the webhook asks Mollie instead of believing its caller, and a call about
\* an older payment does not settle the invoice (webhooks.ts).
SettledMeansSettled ==
    invoice.status \in {"paid", "void"} =>
        /\ invoice.payment \in DOMAIN payments
        /\ invoiceStatusFor(payments[invoice.payment].status) = invoice.status

\* An agreement stands: once a price was agreed the organisation is billed at it,
\* whatever the operator's price list becomes (tenant-pricing.ts).
PriceStands == [][agreed # NoPrice => agreed' = agreed]_billingVars

\* A paid invoice is never rewritten (invoice-generation.ts).
PaidStands == [][invoice.status = "paid" => invoice' = invoice]_billingVars

\* What was paid is what the invoice asks for.
PaidInFull == invoice.status = "paid" => payments[invoice.payment].amount = invoice.total

\* One payment method at most is the default one (billing/index.ts PATCH default).
OneDefault == \A m, n \in DOMAIN methods : methods[m] /\ methods[n] => m = n
=============================================================================
