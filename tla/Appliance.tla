----------------------------- MODULE Appliance -----------------------------
(***************************************************************************)
(* The self-hosted appliance: one process that serves the operator's       *)
(* requests, fires the passes of a mapping on a schedule and runs the      *)
(* domains of a pass side by side (apps/selfhost/src/index.ts,             *)
(* packages/orchestration/src/orchestration.ts, packages/scheduler/src).   *)
(*                                                                         *)
(* The process is one thread: what lies between two awaits is one step     *)
(* here, and every await lets another request, a cron tick or a lane in.   *)
(* The mapping's status is in the database and outlives the process; the   *)
(* schedule and the single flight are in memory and do not.                *)
(*                                                                         *)
(* One mapping: requests, schedule and flight are keyed by it.  What a     *)
(* domain's pass does is DomainSync's business.                            *)
(***************************************************************************)
EXTENDS Integers, Sequences, FiniteSets, Functions

CONSTANTS
    DomainOrder,    \* the domains in the order a pass lists them, mail first
    Hosts,          \* servers the domains read from and write to
    Clients,        \* browser tabs of the operator
    MaxOrders,      \* bound: requests
    MaxStops        \* bound: restarts of the process

SyncDomains == Range(DomainOrder)
Mail == DomainOrder[1]

ASSUME ApplianceAssumption ==
    /\ DomainOrder \in Seq(SyncDomains) /\ DomainOrder # <<>> /\ IsInjective(DomainOrder)
    /\ {MaxOrders, MaxStops} \subseteq Nat

VARIABLES
    flag,           \* domains.<d>.enabled as the file says: on, off, unset
    mailSource,     \* the mapping's own source is an IMAP or a Gmail account
    hosts,          \* the hosts each domain's endpoints name; none if unknown
    up,             \* the process runs
    life,           \* mailbox_mapping.status
    unresolved,     \* some item has failed for good and awaits a decision
    armed,          \* a cron handle is held for the mapping
    flight,         \* the pass in flight
    runRow,         \* the latest row of the run table
    order,          \* the request of each tab
    orders, stops

applianceVars == <<flag, mailSource, hosts, up, life, unresolved, armed, flight, runRow, order, orders, stops>>
config == <<flag, mailSource, hosts>>

NoFlight == [at |-> "none", lanes |-> <<>>, begun |-> {}, ended |-> {}, failed |-> {}]
Flying == [NoFlight EXCEPT !.at = "ask"]
NoOrder == [op |-> "none"]

-----------------------------------------------------------------------------
(* Which domains a pass runs, and in which lanes.                          *)

\* With no domain enabled a mailbox source means mail, whatever its own flag.
InScope ==
    LET enabled == {d \in SyncDomains : flag[d] = "on"}
    IN IF enabled = {} /\ mailSource THEN {Mail} ELSE enabled

\* The domains in which an approved removal is looked up: here a mail flag
\* that says 'off' counts.
enabledSyncDomains ==
    LET enabled == {d \in SyncDomains : flag[d] = "on"}
    IN IF enabled = {} /\ mailSource /\ flag[Mail] = "unset" THEN {Mail} ELSE enabled

Rank(d) == CHOOSE k \in DOMAIN DomainOrder : DomainOrder[k] = d
First(ds) == CHOOSE d \in ds : \A e \in ds : Rank(d) <= Rank(e)

LanesOf(lanes, d) ==
    IF hosts[d] = {} THEN IF lanes = <<>> THEN {} ELSE {1}
    ELSE {k \in DOMAIN lanes : \E e \in lanes[k] : hosts[e] \cap hosts[d] # {}}

\* A variant: joins the first lane with a host of its own, and leaves the others.
PlaceFirst(lanes, d) ==
    LET claimed == LanesOf(lanes, d)
    IN IF claimed = {} THEN Append(lanes, {d})
       ELSE [lanes EXCEPT ![CHOOSE k \in claimed : \A m \in claimed : k <= m] = @ \cup {d}]

\* A domain joins the lane of its hosts, and lanes it bridges become the first of
\* them; those merged away are left empty, and no domain finds its hosts there. The
\* first lane is never merged away, so the domains with no host stay in it.
Place(lanes, d) ==
    LET claimed == LanesOf(lanes, d)
        keep == CHOOSE k \in claimed : \A m \in claimed : k <= m
        joined == {d} \cup UNION {lanes[k] : k \in claimed}
    IN IF claimed = {} THEN Append(lanes, {d})
       ELSE [k \in DOMAIN lanes |-> IF k = keep THEN joined ELSE IF k \in claimed THEN {} ELSE lanes[k]]

\* The lanes of the first n domains.
Planned[n \in 0 .. Len(DomainOrder)] ==
    IF n = 0 THEN <<>>
    ELSE IF DomainOrder[n] \in InScope THEN Place(Planned[n - 1], DomainOrder[n]) ELSE Planned[n - 1]
planDomainLanes == Planned[Len(DomainOrder)]

InProgress == flight.begun \ flight.ended

-----------------------------------------------------------------------------
(* The schedule and the single flight.                                     *)

Untouched == UNCHANGED config
Schedule == armed' = TRUE
Unschedule == armed' = FALSE

\* While a pass is in flight another one joins it.
RunOnce == flight' = IF flight.at = "none" THEN Flying ELSE flight

\* The process comes up: the mapping's records are there, and an active
\* mapping is scheduled.  It listens only then.
Boot ==
    /\ ~up /\ up' = TRUE
    /\ IF life = "active" THEN Schedule ELSE UNCHANGED armed
    /\ Untouched /\ UNCHANGED <<life, unresolved, flight, runRow, order, orders, stops>>

\* SIGTERM or a crash, anywhere: handles, flight and requests are gone.
Stop ==
    /\ up /\ stops < MaxStops
    /\ up' = FALSE /\ stops' = stops + 1
    /\ Unschedule /\ flight' = NoFlight /\ order' = [c \in Clients |-> NoOrder]
    /\ Untouched /\ UNCHANGED <<life, unresolved, runRow, orders>>

Tick ==
    /\ up /\ armed /\ flight.at = "none"
    /\ RunOnce
    /\ Untouched /\ UNCHANGED <<up, life, unresolved, armed, runRow, order, orders, stops>>

-----------------------------------------------------------------------------
(* A pass.                                                                 *)

\* A variant: trusts the schedule.
RunMappingTrusting == flight.at = "ask" /\ flight' = [flight EXCEPT !.at = "open"]

\* runMapping reads the status anew: the schedule may be older.
RunMappingAsks ==
    /\ flight.at = "ask"
    /\ flight' = [flight EXCEPT !.at = IF life = "active" THEN "open" ELSE "unschedule"]

RunMapping ==
    /\ RunMappingAsks
    /\ Untouched /\ UNCHANGED <<up, life, unresolved, armed, runRow, order, orders, stops>>

SkipPass ==
    /\ flight.at = "unschedule"
    /\ Unschedule /\ flight' = NoFlight
    /\ Untouched /\ UNCHANGED <<up, life, unresolved, runRow, order, orders, stops>>

\* The run row is opened if it can be; the lanes are planned.
OpenRun(opened) ==
    /\ flight.at = "open"
    /\ runRow' = IF opened THEN "running" ELSE "unrecorded"
    /\ flight' = [flight EXCEPT !.at = "lanes", !.lanes = planDomainLanes]
    /\ Untouched /\ UNCHANGED <<up, life, unresolved, armed, order, orders, stops>>

\* Each lane takes its next domain when the one before it is over.
RunOneDomain(k) ==
    /\ flight.at = "lanes"
    /\ flight.lanes[k] \cap InProgress = {} /\ flight.lanes[k] \ flight.begun # {}
    /\ flight' = [flight EXCEPT !.begun = @ \cup {First(flight.lanes[k] \ flight.begun)}]
    /\ Untouched /\ UNCHANGED <<up, life, unresolved, armed, runRow, order, orders, stops>>

\* A domain is completed or failed; neither ends its lane.
DomainOver(d, ok, left) ==
    /\ d \in InProgress
    /\ flight' = [flight EXCEPT !.ended = @ \cup {d}, !.failed = IF ok THEN @ ELSE @ \cup {d}]
    /\ unresolved' = left
    /\ Untouched /\ UNCHANGED <<up, life, armed, runRow, order, orders, stops>>

\* Every lane is through: the row is closed, if that works.
CloseRun(closed) ==
    /\ flight.at = "lanes" /\ flight.ended = UNION Range(flight.lanes)
    /\ runRow' = IF runRow = "running" /\ closed
                 THEN IF flight.failed # {} /\ flight.failed = flight.ended THEN "failed" ELSE "succeeded"
                 ELSE runRow
    /\ flight' = NoFlight
    /\ Untouched /\ UNCHANGED <<up, life, unresolved, armed, order, orders, stops>>

Pass ==
    \/ RunMapping \/ SkipPass
    \/ \E opened \in BOOLEAN : OpenRun(opened)
    \/ \E k \in DOMAIN flight.lanes : RunOneDomain(k)
    \/ \E d \in SyncDomains, ok, left \in BOOLEAN : DomainOver(d, ok, left)
    \/ \E closed \in BOOLEAN : CloseRun(closed)

\* A statement before the lanes throws: the pass is logged as failed, and a
\* row it has opened stays 'running'.
PassThrows ==
    /\ flight.at \in {"ask", "open"} \/ (flight.at = "lanes" /\ flight.begun = {})
    /\ flight' = NoFlight
    /\ Untouched /\ UNCHANGED <<up, life, unresolved, armed, runRow, order, orders, stops>>

-----------------------------------------------------------------------------
(* The operator's requests.                                                *)

Reply(c) == order' = [order EXCEPT ![c] = NoOrder]
Ask(c, op) ==
    /\ up /\ order[c] = NoOrder /\ orders < MaxOrders
    /\ order' = [order EXCEPT ![c] = op]
    /\ orders' = orders + 1
    /\ Untouched /\ UNCHANGED <<up, life, unresolved, armed, flight, runRow, stops>>

startTransition(status) ==
    IF status = "done" THEN "conflict" ELSE IF status = "active" THEN "keep" ELSE "activate"
finishTransition(status, open, force) ==
    CASE status = "done" -> "already" [] status = "paused" -> "refuse"
      [] status = "active" -> IF open /\ ~force THEN "refuse" ELSE "finish"

\* POST start: the status is read, ...
StartAsks(c) ==
    /\ startTransition(life) # "conflict"
    /\ Ask(c, [op |-> IF startTransition(life) = "activate" THEN "activate" ELSE "schedule", new |-> FALSE])

\* ... written, ...
StartActivates(c) ==
    /\ order[c].op = "activate"
    /\ life' = "active"
    /\ order' = [order EXCEPT ![c] = [op |-> "schedule", new |-> TRUE]]
    /\ Untouched /\ UNCHANGED <<up, unresolved, armed, flight, runRow, orders, stops>>

\* ... and the mapping scheduled, its first pass going off at once.
StartSchedules(c) ==
    /\ order[c].op = "schedule"
    /\ Schedule /\ Reply(c)
    /\ IF order[c].new THEN RunOnce ELSE UNCHANGED flight
    /\ Untouched /\ UNCHANGED <<up, life, unresolved, runRow, orders, stops>>

\* POST finish: the status, then the failures, ...
FinishAsks(c, force) ==
    /\ life # "done"
    /\ Ask(c, [op |-> "failures", status |-> life, force |-> force])

FinishCounts(c) ==
    /\ order[c].op = "failures"
    /\ order' = [order EXCEPT ![c] =
           IF finishTransition(order[c].status, unresolved, order[c].force) = "finish"
           THEN [op |-> "finish"] ELSE NoOrder]
    /\ Untouched /\ UNCHANGED <<up, life, unresolved, armed, flight, runRow, orders, stops>>

\* ... 'done' is written, and only then is the schedule taken down.
FinishWrites(c) ==
    /\ order[c].op = "finish"
    /\ life' = "done"
    /\ order' = [order EXCEPT ![c] = [op |-> "unschedule"]]
    /\ Untouched /\ UNCHANGED <<up, unresolved, armed, flight, runRow, orders, stops>>

FinishUnschedules(c) ==
    /\ order[c].op = "unschedule"
    /\ Unschedule /\ Reply(c)
    /\ Untouched /\ UNCHANGED <<up, life, unresolved, flight, runRow, orders, stops>>

\* POST run: a pass at once, for an active mapping.
RunAsks(c) == life = "active" /\ Ask(c, [op |-> "run"])
RunNow(c) ==
    /\ order[c].op = "run"
    /\ RunOnce /\ Reply(c)
    /\ Untouched /\ UNCHANGED <<up, life, unresolved, armed, runRow, orders, stops>>

Serve(c) ==
    StartActivates(c) \/ StartSchedules(c) \/ FinishCounts(c) \/ FinishWrites(c)
    \/ FinishUnschedules(c) \/ RunNow(c)

-----------------------------------------------------------------------------
ApplianceInit ==
    /\ flag \in {f \in [SyncDomains -> {"on", "off", "unset"}] : \A d \in SyncDomains \ {Mail} : f[d] # "unset"}
    /\ mailSource \in BOOLEAN
    /\ hosts \in {h \in [SyncDomains -> SUBSET Hosts] :
                    \A d \in SyncDomains : Cardinality(h[d]) <= 2 /\ (d \notin InScope => h[d] = {})}
    /\ up = FALSE /\ life \in {"paused", "active"} /\ unresolved = FALSE /\ armed = FALSE
    /\ flight = NoFlight /\ runRow = "none"
    /\ order = [c \in Clients |-> NoOrder]
    /\ orders = 0 /\ stops = 0

Unattended == Boot \/ Stop \/ Tick \/ Pass \/ PassThrows
Requests ==
    \E c \in Clients : StartAsks(c) \/ RunAsks(c) \/ Serve(c)
                       \/ \E force \in BOOLEAN : FinishAsks(c, force)
ApplianceNext == Unattended \/ Requests

\* A stopped appliance is restarted (the container's restart policy), cron
\* fires, and what has been begun goes on: no await waits for an operator.  A
\* status that is read again and again is answered in the end.
ApplianceFairness ==
    /\ WF_applianceVars(Boot) /\ WF_applianceVars(Tick) /\ WF_applianceVars(Pass)
    /\ SF_applianceVars(RunMapping)
    /\ \A c \in Clients : WF_applianceVars(Serve(c))

ApplianceSpec == ApplianceInit /\ [][ApplianceNext]_applianceVars /\ ApplianceFairness

-----------------------------------------------------------------------------
(* Properties.                                                             *)

\* planDomainLanes: "two domains may overlap only if they touch NO host in
\* common".  No two domains in progress at once, in this pass or in another,
\* name a common host, however the domains' endpoints are spread over servers.
OneHostAtATime ==
    \A d, e \in InProgress : d # e => hosts[d] \cap hosts[e] = {}

\* runMapping's status check: a mapping that stays finished ends up without a
\* schedule, even when a start that read the status before the finish has
\* scheduled it again after the finish took the schedule down.
FinishedStops == (life = "done") ~> (~armed \/ life # "done")

\* lifecycle.ts, lines 24-26, refuses to start a finished mapping: a finish is
\* final.
FinishIsFinal == [][life = "done" => life' = "done"]_life

\* A pass has run what an approved removal can be looked up in.
ScopesAgree == flight.at = "lanes" => UNION Range(flight.lanes) = enabledSyncDomains

=============================================================================
