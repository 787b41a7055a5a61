----------------------------- MODULE Discovery -----------------------------
(***************************************************************************)
(* The count before the first pass: what the source holds and what the     *)
(* destination already holds, per kind of content (packages/core/src       *)
(* /discovery.ts, packages/orchestration/src/discovery.ts,                 *)
(* orchestration.ts and build-deps.ts, packages/ledger/src                 *)
(* /discovery-store.ts, apps/worker/src/jobs/run-discovery.ts) and the     *)
(* screen on which the owner reads it before starting the migration        *)
(* (apps/web/src/components/ConfirmMigration.tsx, pages/Confirm.tsx).      *)
(*                                                                         *)
(* A scan takes the kinds one after the other and reads one folder at a    *)
(* time, while the source and the destination go on changing; any read may *)
(* fail, and the database may refuse the result.  Scans may overlap: every *)
(* visit of the managed screen asks for one.  Sizes are left out, and so   *)
(* are folders set apart: no caller excludes one.                          *)
(***************************************************************************)
EXTENDS Integers, Sequences, FiniteSets

CONSTANTS
    KindOrder,      \* email, calendar, contact, file: the kinds counted, in order
    Folders, Things,
    keyed,          \* the things that have a natural key (a Message-ID, a UID, a path)
    Scans,          \* scans that may be under way together
    MaxScans, MaxShifts     \* bounds: scans, changes of source and destination

ASSUME DiscoveryAssumption ==
    /\ IsFiniteSet(Folders) /\ IsFiniteSet(Things)
    /\ keyed \subseteq Things /\ {MaxScans, MaxShifts} \subseteq Nat

VARIABLES
    house,          \* "managed" or "appliance"
    sides,          \* the appliance's mapping: sides of each kind, and their secrets
    content,        \* per kind and folder, the things in the source
    arrived,        \* per kind, the natural keys in the destination
    sweep,          \* the scans
    figures,        \* migration_discovery: the row of each kind
    screen,         \* the confirm screen: polling or not, and what it shows
    steady,         \* history: per scan, what has stayed in place since it began this kind
    basis,          \* history: per kind, what had stayed in place when its figures were stored
    turns, shifts

discoveryVars == <<house, sides, content, arrived, sweep, figures, screen, steady, basis, turns, shifts>>

Kinds == {KindOrder[n] : n \in DOMAIN KindOrder}
NoSweep == [at |-> "idle"]
NoRow == [items |-> -1]
Nothing == [things |-> {}, keys |-> {}]
Unknown == -1       \* a null column

-----------------------------------------------------------------------------
(* Opening the two sides, on the appliance.                                *)

\* The types each builder has a case for.
SourceTypesOf(k) ==
    CASE k = "email" -> {"imap-oauth2", "graph-mail", "gmail"}
      [] k = "calendar" -> {"caldav", "graph-calendar", "google-calendar"}
      [] k = "contact" -> {"carddav", "graph-contacts", "google-contacts"}
      [] k = "file" -> {"webdav", "dropbox", "box", "graph-drive", "google-drive"}

TargetTypesOf(k) ==
    CASE k = "email" -> {"jmap", "imap-dav"}
      [] k = "calendar" -> {"caldav"}
      [] k = "contact" -> {"carddav", "jmap"}
      [] k = "file" -> {"webdav", "jmap"}

\* A server that is asked with a password has to find it in the environment.
davEndpoint(side, types) == side.type \in types /\ side.secret

\* Only IMAP is opened without its secret, and then refused by the server.
buildSourceConnector(side) ==
    /\ side.type \in SourceTypesOf("email")
    /\ side.type = "imap-oauth2" \/ side.secret

buildTargetWriter(side) == side.type \in TargetTypesOf("email") /\ side.secret

buildDeps(c) == buildSourceConnector(c.source) /\ buildTargetWriter(c.target)

buildDomainDepsWithLedger(k, c) ==
    /\ c.enabled
    /\ davEndpoint(c.source, SourceTypesOf(k))
    /\ davEndpoint(c.target, TargetTypesOf(k))

\* Setup.tla says when the managed service's connections open; here they may
\* fail to.
Opened(k) ==
    IF house = "managed" THEN BOOLEAN
    ELSE {IF k = "email" THEN buildDeps(sides[k]) ELSE buildDomainDepsWithLedger(k, sides[k])}

\* Mail servers and JMAP list what they hold; the DAV writers do not, and the
\* managed job does not ask.
asCountableTarget(k) ==
    house = "appliance" /\ (k = "email" \/ sides[k].target.type = "jmap")

-----------------------------------------------------------------------------
(* The rows.                                                               *)

upsertDiscovery(k, s) ==
    /\ figures' = [figures EXCEPT ![k] =
           [items |-> s.items, existing |-> s.existing, colliding |-> s.colliding, lastError |-> FALSE]]
    /\ basis' = [basis EXCEPT ![k] = [turn |-> s.turn, things |-> steady[s.id].things,
                                          keys |-> steady[s.id].keys]]

\* The figures of the last scan that succeeded stay, with the error beside them.
recordDiscoveryError(k) ==
    /\ figures' = [figures EXCEPT ![k] =
           IF @ = NoRow THEN [items |-> 0, existing |-> Unknown, colliding |-> Unknown, lastError |-> TRUE]
           ELSE [@ EXCEPT !.lastError = TRUE]]
    /\ UNCHANGED basis

getDiscovery == [k \in {q \in Kinds : figures[q] # NoRow} |-> figures[k]]

-----------------------------------------------------------------------------
(* A scan.                                                                 *)

ScanOnly == UNCHANGED <<house, sides, content, arrived, screen, turns, shifts>>

\* What the source and the destination hold as a kind is begun.
InPlace(k) == [things |-> {p \in Folders \X Things : p[2] \in content[k][p[1]]}, keys |-> arrived[k]]

\* The next kind of the list, or the end of the scan.
Onward(s) ==
    LET left == Tail(sweep[s].todo)
    IN /\ sweep' = [sweep EXCEPT ![s] =
              IF left = <<>> THEN NoSweep ELSE [at |-> "open", todo |-> left, turn |-> @.turn]]
       /\ steady' = [steady EXCEPT ![s] = IF left = <<>> THEN Nothing ELSE InPlace(Head(left))]

Launch(s, todo) ==
    /\ sweep[s] = NoSweep /\ turns < MaxScans /\ todo # <<>>
    /\ sweep' = [sweep EXCEPT ![s] = [at |-> "open", todo |-> todo, turn |-> turns + 1]]
    /\ turns' = turns + 1
    /\ steady' = [steady EXCEPT ![s] = InPlace(Head(todo))]

\* Mail alone, when the file names no kind, counts as enabled.
Enabled(k) == k \in Kinds /\ sides[k].enabled

\* POST discover: the kinds named in the request, all of them by default.
DiscoverRoute(s, kinds) ==
    /\ house = "managed"
    /\ Launch(s, SelectSeq(KindOrder, LAMBDA k : k \in kinds))
    /\ UNCHANGED <<house, sides, content, arrived, figures, screen, basis, shifts>>

\* The appliance counts every enabled kind when it starts, and a restart ends
\* whatever was under way.
BootScan(s) ==
    /\ house = "appliance" /\ \A o \in Scans \ {s} : sweep[o] = NoSweep
    /\ Launch(s, SelectSeq(KindOrder, Enabled))
    /\ UNCHANGED <<house, sides, content, arrived, figures, screen, basis, shifts>>

SweepDies(s) ==
    /\ sweep[s] # NoSweep
    /\ sweep' = [sweep EXCEPT ![s] = NoSweep]
    /\ steady' = [steady EXCEPT ![s] = Nothing]
    /\ ScanOnly /\ UNCHANGED <<figures, basis>>

\* The sides are opened and the folders listed; either may fail.
ListFolders(s, listed) ==
    /\ sweep[s].at = "open"
    /\ \E opened \in Opened(Head(sweep[s].todo)) :
         sweep' = [sweep EXCEPT ![s] =
             IF opened /\ listed
             THEN [at |-> "folders", todo |-> @.todo, turn |-> @.turn, id |-> s, rest |-> Folders, items |-> 0,
                   keys |-> {}, existing |-> Unknown, colliding |-> Unknown]
             ELSE [at |-> "error", todo |-> @.todo, turn |-> @.turn]]
    /\ ScanOnly /\ UNCHANGED <<figures, steady, basis>>

Failed(s) == [at |-> "error", todo |-> s.todo, turn |-> s.turn]

sourceKeyHash(k, f) == content[k][f] \cap keyed

\* A folder that cannot be read read as an empty one: a variant of ReadFolder.
ReadFolderAnyway(s, f, ok) ==
    LET c == sweep[s]  k == Head(c.todo)
        done == c.rest = {f}
    IN /\ c.at = "folders" /\ f \in c.rest
       /\ sweep' = [sweep EXCEPT ![s] =
              [c EXCEPT !.rest = @ \ {f}, !.items = IF ok THEN @ + Cardinality(content[k][f]) ELSE @,
                        !.keys = IF asCountableTarget(k) /\ ok THEN @ \cup sourceKeyHash(k, f) ELSE @,
                        !.at = IF ~done THEN @ ELSE IF asCountableTarget(k) THEN "target" ELSE "store"]]
       /\ ScanOnly /\ UNCHANGED <<figures, steady, basis>>

\* discoverSource reads a folder in full, with no cursor; a failure ends the kind.
ReadFolder(s, f, ok) ==
    LET c == sweep[s]  k == Head(c.todo)
        done == c.rest = {f}
    IN /\ c.at = "folders" /\ f \in c.rest
       /\ sweep' = [sweep EXCEPT ![s] =
              IF ~ok THEN Failed(c)
              ELSE [c EXCEPT !.rest = @ \ {f}, !.items = @ + Cardinality(content[k][f]),
                             !.keys = IF asCountableTarget(k) THEN @ \cup sourceKeyHash(k, f) ELSE @,
                             !.at = IF ~done THEN @ ELSE IF asCountableTarget(k) THEN "target" ELSE "store"]]
       /\ ScanOnly /\ UNCHANGED <<figures, steady, basis>>

\* A destination that cannot be listed leaves its two figures null.
discoverTarget(s, ok) ==
    LET c == sweep[s]  k == Head(c.todo)
    IN /\ c.at = "target"
       /\ sweep' = [sweep EXCEPT ![s] =
              IF ok THEN [c EXCEPT !.at = "store", !.existing = Cardinality(arrived[k]),
                                   !.colliding = Cardinality(arrived[k] \cap c.keys)]
              ELSE [c EXCEPT !.at = "store"]]
       /\ ScanOnly /\ UNCHANGED <<figures, steady, basis>>

\* discoverDomains stores the figures; a store that fails counts as a failed scan.
StoreFigures(s, ok) ==
    /\ sweep[s].at = "store"
    /\ \/ ok /\ upsertDiscovery(Head(sweep[s].todo), sweep[s]) /\ Onward(s)
       \/ /\ ~ok
          /\ sweep' = [sweep EXCEPT ![s] = Failed(@)]
          /\ UNCHANGED <<figures, steady, basis>>
    /\ ScanOnly

\* An error that cannot be stored either ends the scan, later kinds included.
StoreError(s, ok) ==
    /\ sweep[s].at = "error"
    /\ \/ ok /\ recordDiscoveryError(Head(sweep[s].todo)) /\ Onward(s)
       \/ /\ ~ok
          /\ sweep' = [sweep EXCEPT ![s] = NoSweep]
          /\ steady' = [steady EXCEPT ![s] = Nothing]
          /\ UNCHANGED <<figures, basis>>
    /\ ScanOnly

-----------------------------------------------------------------------------
(* The source and the destination, which others use meanwhile.             *)

Shifted == shifts < MaxShifts /\ shifts' = shifts + 1
Elsewhere == UNCHANGED <<house, sides, sweep, figures, screen, basis, turns>>

\* A thing is added to a folder or taken from it.
SourceShifts(k, f, i) ==
    /\ Shifted
    /\ content' = [content EXCEPT ![k][f] = IF i \in @ THEN @ \ {i} ELSE @ \cup {i}]
    /\ steady' = [s \in Scans |->
           IF sweep[s] # NoSweep /\ Head(sweep[s].todo) = k
           THEN [steady[s] EXCEPT !.things = @ \ {<<f, i>>}] ELSE steady[s]]
    /\ Elsewhere /\ UNCHANGED arrived

DestinationShifts(k, i) ==
    /\ Shifted
    /\ arrived' = [arrived EXCEPT ![k] = IF i \in @ THEN @ \ {i} ELSE @ \cup {i}]
    /\ steady' = [s \in Scans |->
           IF sweep[s] # NoSweep /\ Head(sweep[s].todo) = k
           THEN [steady[s] EXCEPT !.keys = @ \ {i}] ELSE steady[s]]
    /\ Elsewhere /\ UNCHANGED content

-----------------------------------------------------------------------------
(* The confirm screen.                                                     *)

NothingShown == [k \in {} |-> NoRow]

\* The managed screen asks for a scan of everything as it opens.
ConfirmMigration(s) ==
    /\ house = "managed" /\ ~screen.polling /\ screen.shown = NothingShown
    /\ Launch(s, KindOrder)
    /\ screen' = [polling |-> TRUE, shown |-> NothingShown]
    /\ UNCHANGED <<house, sides, content, arrived, figures, basis, shifts>>

\* The appliance's only reads.
Confirm ==
    /\ house = "appliance" /\ ~screen.polling /\ screen.shown = NothingShown
    /\ screen' = [polling |-> TRUE, shown |-> NothingShown]
    /\ UNCHANGED <<house, sides, content, arrived, sweep, figures, steady, basis, turns, shifts>>

\* It asks every two seconds until there is an answer with a row in it.
DiscoveryRead ==
    /\ screen.polling
    /\ screen' = [polling |-> getDiscovery = NothingShown, shown |-> getDiscovery]
    /\ UNCHANGED <<house, sides, content, arrived, sweep, figures, steady, basis, turns, shifts>>

-----------------------------------------------------------------------------

Side(type, secret) == [type |-> type, secret |-> secret]

DiscoveryInit ==
    /\ house \in {"managed", "appliance"}
    /\ sides \in [Kinds -> {[enabled |-> e, source |-> Side(t, x), target |-> Side(u, y)] :
                      e \in BOOLEAN, x \in BOOLEAN, y \in BOOLEAN,
                      t \in {"imap-oauth2", "webdav"}, u \in {"jmap", "webdav"}}]
    /\ content \in [Kinds -> [Folders -> SUBSET Things]]
    /\ arrived \in [Kinds -> SUBSET keyed]
    /\ sweep = [s \in Scans |-> NoSweep]
    /\ figures = [k \in Kinds |-> NoRow]
    /\ screen = [polling |-> FALSE, shown |-> NothingShown]
    /\ steady = [s \in Scans |-> Nothing]
    /\ basis = [k \in Kinds |-> [turn |-> 0, things |-> {}, keys |-> {}]]
    /\ turns = 0 /\ shifts = 0

DiscoveryNext ==
    \/ \E s \in Scans, kinds \in SUBSET Kinds : DiscoverRoute(s, kinds)
    \/ \E s \in Scans : BootScan(s) \/ SweepDies(s) \/ ConfirmMigration(s)
    \/ \E s \in Scans, ok \in BOOLEAN :
          ListFolders(s, ok) \/ discoverTarget(s, ok) \/ StoreFigures(s, ok) \/ StoreError(s, ok)
    \/ \E s \in Scans, f \in Folders, ok \in BOOLEAN : ReadFolder(s, f, ok)
    \/ \E k \in Kinds, f \in Folders, i \in Things : SourceShifts(k, f, i)
    \/ \E k \in Kinds, i \in keyed : DestinationShifts(k, i)
    \/ Confirm \/ DiscoveryRead

DiscoverySpec == DiscoveryInit /\ [][DiscoveryNext]_discoveryVars

-----------------------------------------------------------------------------

KeysOf(things) == {p[2] : p \in things} \cap keyed

\* The figures the owner decides on are whole: whatever failed in between, a
\* row counts at least what was in place all through the scan that stored it,
\* a figure of the destination is one that was read, and what both sides held
\* throughout is announced as kept (core/src/discovery.ts, discoverSource and
\* discoverTarget; orchestration/src/discovery.ts, discoverDomains).
FiguresAreWhole ==
    \A k \in Kinds : figures[k] # NoRow =>
        /\ figures[k].items >= Cardinality(basis[k].things)
        /\ figures[k].existing # Unknown =>
              /\ figures[k].existing >= Cardinality(basis[k].keys)
              /\ figures[k].colliding >= Cardinality(basis[k].keys \cap KeysOf(basis[k].things))

\* A later scan is not overwritten by an earlier one that took longer.  Does
\* not hold: the row has no memory of which scan its figures come from.
NewestStands == [][\A k \in Kinds : basis'[k].turn >= basis[k].turn]_discoveryVars

\* A screen that has stopped asking shows every kind.  Does not hold: it stops
\* at the first row, which is the first kind's
\* (apps/web/src/components/ConfirmMigration.tsx:32, pages/Confirm.tsx:66).
ScreenShowsAll ==
    screen.polling \/ screen.shown = NothingShown \/ DOMAIN screen.shown = DOMAIN getDiscovery

=============================================================================
