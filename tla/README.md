# Verification of open-migrate

open-migrate copies a person's mail, calendars, contacts and files from a source
account to a target account, keeps the two in step until the owner decides to
switch, and then guides the switch (the *cutover*). It runs as a self-hosted
appliance and as a managed service with organisations, schedules, invoices and
offboarding. Two promises run through its code and its documents: nothing on the
target that the tool did not write is ever overwritten or removed, and nothing on
the source is silently left behind. Both have to hold while the source and the
target keep changing, requests fail, answers get lost and workers die. That is what
most of the modules in this directory are about; the others are about the service
around the copying.

Every definition is translated from the TypeScript source; `PROJECT.json` maps each
one to its lines. Paths below are relative to the root of the repository.

Contents: [1 The system](#1-the-system) · [2 Modules](#2-modules) ·
[3 Abstractions and bounds](#3-abstractions-and-bounds) · [4 Fairness](#4-fairness) ·
[5 Runs](#5-runs) · [6 Disagreements](#6-disagreements-between-the-code-and-its-documents) ·
[7 Proofs](#7-proofs) · [8 Not modelled](#8-what-is-not-modelled) · [9 Plan](#9-plan)

## 1 The system

### 1.1 Components

| Component | Where | State it keeps | Operations | Module |
|---|---|---|---|---|
| item ledger | `packages/ledger/src/ledger.ts` | one row per (mapping, domain, natural key): status, versions, hash, collection, attempts, and the move and deletion claims with the owner's answers | `recordIfAbsent`, `recordUpdate`, `recordFailure`, `recordMove`, `clearMove`, `recordAbsent`, ..., `resolve*`, `applyDeletion`, `applyRelocation` | ItemLedger |
| cursor store | `packages/ledger/src/cursor-store.ts` | an incremental token per (mapping, folder) | `get`, `set`, `clear` | DomainSync, Reading |
| sync pass | `packages/core/src/domain-sync.ts`, `reconcile.ts` | in memory, for one pass: what was seen, removals reported, arrivals created, failures | `runDomainSync`, `classifyKnownItem`, the three detectors | DomainSync |
| sources | `packages/connectors/src/*-source.ts` | none; the meaning of a cursor | `listSince` of eleven connectors | Reading |
| target writers | `packages/engines/src/*-target-writer.ts`, `packages/connectors/src/jmap-*-target.ts`, `imapflow-dav-target.ts` | a snapshot of the target, for one pass | create, rewrite, remove | DomainSync (WebDAV, CalDAV), Writing (JMAP, IMAP, CardDAV) |
| applying removals | `packages/core/src/apply-deletion.ts` | none of its own | `applyDeletion`, `applyRelocation` | ApplyRemoval |
| cutover | `packages/core/src/cutover-state.ts`, `packages/ledger/src/cutover-store.ts`, `apps/worker/src/cli/cutover-commands.ts`, two jobs | one state row and an event trail per mapping | start, verify, approve, execute, complete, rollback | CutoverMachine, Cutover |
| managed service | `apps/worker/src/jobs`, `packages/managed/src/offboarding.ts`, `packages/shared/src/quiesce.ts` | run rows, the orchestrator's queue, tenant and closure | tick, start, finish, sync now, close, reopen, purge | SyncService, TenantLife |
| appliance | `apps/selfhost/src/index.ts`, `packages/orchestration`, `packages/scheduler` | status in the database; schedule and single flight in memory | boot, start, finish, tick, lanes of a pass | Appliance |
| setup | `apps/web/src/pages/CreateMapping.tsx`, `apps/api/src/routes/connections.ts`, `migrations/index.ts`, `packages/orchestration/src/build-deps-from-mapping.ts` | the wizard's form and probes, connections, mappings | type, test, save, pick, rotate, delete, create | Setup |
| discovery | `packages/core/src/discovery.ts` and its job, store and screen | figures per kind | scan, store, poll | Discovery |
| verification gate | `packages/core/src/verification*.ts`, `packages/ledger/src/verification-queries.ts` | a run and its report | compare, sample, give a verdict | Verification |
| decisions, groups | `packages/core/src/run-*.ts`, `packages/ledger/src/decision-store.ts` | questions, answers, presets | two daily passes, answer, dismiss | Decisions |
| shares | `packages/core/src/share-queue.ts`, `packages/connectors/src/graph-permission-scan.ts` | the checklist | rescan, apply, done, skip | Sharing |
| notices | `apps/worker/src/jobs/managed-digest-run.ts`, `packages/shared/src/notifications.ts` | when each digest was sent, failure streaks | digest, alarm | Notices |
| accounts | `apps/api/src/routes/access-requests.ts`, `tenants/members.ts`, `middleware/auth.ts` | access requests, organisations, members | ask, grant, decline, invite, sign in, change role, remove | Accounts |
| billing | `packages/managed/src/*pricing.ts`, `apps/api/src/services`, `routes/billing` | usage, agreed price, invoice, payments, methods | meter, quote, invoice, pay, webhook | Billing |
| providers | `packages/ledger/src/pg-rate-budget.ts`, `packages/shared/src/throttling.ts`, token providers of `packages/connectors` | a bucket in the database, a limiter and a token cache per process | acquire, send, back off, mint, renew | Provider |
| not modelled | | | reindex, DNS polling, secrets, deployment and site | |

`PROJECT.json` lists all 28 with their files and status.

### 1.2 How they interact

A *tick* triggers delta syncs through an orchestrator whose lanes keep a mapping's
scheduled passes apart. A pass reads a folder through a source, looks each item up in
the ledger, decides (`classifyKnownItem`), fetches, writes through a target writer,
and records the outcome; several workers do so at once for the items of a folder.
When the folder is done its cursor is stored, unless something in it failed and is
still to be retried. When all folders are done three detectors turn what was *not*
seen into claims on the rows: reported as removed, found in the bin, moved or absent.

The claims feed queues that the owner answers in the web application. An answer is
either a statement on the row, or, for APPLY, a job of its own that removes the
copy from the target and records it. Those jobs are not kept apart from a pass of
the same mapping, nor from each other.

The verification gate reads ledger and target while all this goes on. The cutover is
driven by commands and jobs that share nothing but its row: each looks at the row,
may wait for minutes, and then asks the store for a transition, which loads, checks,
logs and saves in separate statements. The API's requests have the same shape: read
and decide in one transaction, write in another.

Closing an account stops the tick; after the window an hourly job stops what still
runs and erases the tenant. The appliance is one process whose awaits let requests,
cron ticks and lanes interleave.

### 1.3 What is hard here

* **Cursors and failures.** A cursor says "never show me these again". It is stored
  after the items were processed and must be the listing's own; a retryable failure
  holds it back, a parked one must not; it may outlive what it refers to.
* **Absence as evidence.** That an item was not seen may mean it was deleted, moved,
  renamed, hidden by a cursor, missing from a partial listing, or being changed
  while it was listed. The owner acts on the claim, irreversibly.
* **Ownership without locks.** Whether a copy is still ours is one request and the
  rewrite or removal another; a missing version counts as "ours"; a lost answer makes our own
  copy look like the owner's; versions are read back after the write.
* **Effects and records.** Each remote effect is recorded by a later statement. A
  worker may die in between, and the row it decided on may have changed.
* **Two kinds of tombstone**, an erasure that must stand and a relocation that must
  not block the next file at the path, told apart by one column.
* **Check, then write** in the cutover, the members of an organisation, access requests,
  prices and invoices, without a lock or a version.
* **Workers that die** leave run rows that say 'running': the tick and the erasure go by them.
* **Figures read at different times** make up the verdict of the gate, the count on the
  confirm screen and the digest.

The `hazards` of `PROJECT.json` list 40 of these at the line where they bite, with
the properties that would catch them.

### 1.4 What makes each part correct

* pass: `CursorHidesOnlyHandled`, `EventuallyHandled` (nothing is left behind),
  `NeverOverwritesTheirs`, `DeletionClaimIsCurrent`, `MoveClaimIsCurrent`, `NoDuplicateCopy`.
* sources: `NothingHidden`, `RemovalNotLost`, `CatchesUp`, `DiscardedNotForgotten`.
* writers: `NoSecondCopy`, `RemovalIsReal`, `RemovesOnlyItsItem`, `KeepsTheirEdit`.
* applying removals: `NoSilentRemoval`, `LastCopyKept`, `NeverDestroysTheirs`, `RelocationLeavesItsMark`.
* cutover: `ObeysMachine` (refinement), `SwitchIsApproved`, `OneExecution`, `TerminalStands`.
* managed service: `KeepsPromise` (refinement), `WorkIsVisible`, `ErasureHappens`, `ActiveKeepsSyncing`.
* appliance: `OneHostAtATime`, `FinishedStops`.
* setup and discovery: `AcceptedOpens`, `ReadsStated`, `WorkingStaysWorking`, `FiguresAreWhole`.
* gate, shares, decisions, digests: `GateHolds`, `SharedOnPurpose`, `DismissedStays`, `DigestMissesNothing`.
* accounts, billing, providers: `OwnerRemains`, `ClaimSucceeds`, `SettledMeansSettled`, `PriceStands`,
  `InBudget`, `RefusedNotResent`.

## 2 Modules

```
ItemLedger ── DomainSync ──┬── ApplyRemoval ── MCApply     CutoverMachine ─ ─ Cutover ──┬── MCPeople
                 │    │    │                                        Accounts ──────────┤
                 │  MCSync └──────────┐                                          PeopleProofs
          DomainSyncProofs ── ApplyRemovalProofs

TenantLife ─ ─ SyncService ── MCService
SyncService, Appliance ── SyncServiceProofs

Reading ── MCReading, ReadingProofs
Writing ── MCWriting, WritingProofs
Billing, Provider ── MCOutside, OutsideProofs

Setup, Discovery ── MCSetup
Sharing, Notices, Verification, Decisions, Appliance ── MCOperate
Sharing, Notices, Verification, Decisions, Setup, Discovery ── OperateProofs
```

(a line is EXTENDS, read left to right and downwards; a broken one is INSTANCE)

**ItemLedger** is the ledger as a data type. A row is a record; each statement of
`PgLedger` is one SQL statement, hence atomic, and is an operator from the row to the
row it leaves, with its WHERE clause as the condition. `classifyKnownItem` is the
decision a pass takes on a row, the order of its tests kept. `status = "absent"` is a
key without a row.

**DomainSync** is one (mapping, domain). Its first group of variables outlives a pass:
the source (`src`, `trash`), the target (`tgt`), the rows (`ledger`), the cursors
(`cursor`) and, for each, what the source changed since (`fresh`). The second group is
the memory of the running pass and carries the names of the locals of `runDomainSync`.
A pass goes through phases:

| Action | Code |
|---|---|
| `StartPass`, `ListFolder` | the folder loop: listing since the cursor, the key listing and its failure, `fullyEnumerated` |
| `TakeItem`, `SettleItem` | a worker takes an item, looks it up, withdraws a disappearance, and branches on `classifyKnownItem` |
| `FetchItem`, `FetchFails` | `fetchRaw`, and for un-keyed items the second look-up once the key is known |
| `CheckOwnership`, `CheckExisting`, `PutItem`, `PutFails` | the writer's upsert, one action per request |
| `RecordItem`, `RecordConflict` | `recordUpdate`/`recordIfAbsent`, the collision policy |
| `ItemFails` (in the two failing actions) | the catch: `recordFailure`, `retryablePending`, the tripwire |
| `FinishFolder`, `AbortPass`, `Crash` | the cursor rule; workers settling after an abort; a worker that dies |
| `BeginRemovals`, `BeginDiscarded`, `BeginMoves` and the action of each on one key, `EndPass` | the three detectors |

Every request and every statement is a step of its own, so the workers of a pass
interleave with each other, with the source and the owner, and a crash can fall
between any two. The environment acts through `SourceChange`, `SourceRename`,
`OwnerChange` and the operator's answers. A domain is an instance: `PathKeyed` for
files, `ListsBodies` and `ReportsRemovals` for calendars and contacts, `Unkeyed` for
mail without a Message-ID. One pass of the mapping runs at a time, as the scheduled ones do; a
manual run may overlap it (section 6).

**ApplyRemoval** adds the apply jobs. A job opens when the gates let it (`Open`; a
refusal changes nothing and is no step), asks whether the relocated copy is there
(`ConfirmArrival`), asks for the version (`CheckVersion`), deletes (`Remove`) and
records (`Record`), or dies (`JobFails`). The ledger's re-check at the record and the
outcome `removed_not_recorded` are modelled. `unrecorded`, `erased` and `movedToo` are
history variables: nothing reads them but the properties.

**Reading** is one folder, or the mail bin, read through one of eleven connectors. `Connector`
is the table of how they differ: what the cursor is (a UID position, a delta or sync token,
a map of ETags, nothing), what a refused one leads to, what is left out of a listing, and
what is said of removals. A listing is `Begin`, a `NextPage` or `OneAnswer` per request, `EndListing`, then
the caller's `RecordListing` and `StoreCursor` in the order the role has in the code: for content
the items are recorded before the cursor, for the bin after it. The provider changes and
removes items between pages, renumbers a mailbox, expires tokens and refuses requests.

**Writing** is a writer (JMAP mail, files or contacts; IMAP; CardDAV) at work on one account:
find or make the folder, take the snapshot, create, rewrite or remove an item, one action per
request, and the ledger's statement after it. Ids, versions and UIDs are the server's; the owner adds,
edits, moves and discards copies and recreates mailboxes in between.

**SyncService** is the managed service around the passes of a tenant; a pass is a step per
domain. Jobs are queued in lanes, started, retried up to `MaxAttempts`, cancelled and killed; `run` is
the run table; `purge` is what the erasure job has read so far. **TenantLife** is what closing
promises, as four steps; `KeepsPromise` says that `SyncService` implements it.

**CutoverMachine** is the abstract specification of the cutover: a state created once and then
changed only along `VALID_TRANSITIONS`. **Cutover** is the store, the commands and the jobs,
each statement a step; `granted` and `lastEvent` stand for the approval and the newest
event row. `Overlapping` says whether another invocation may come between the load of
one transition and its writes.

**Accounts** and **Billing** are requests of the API as sequences of transactions: each request has read
something, and writes later. `RequestsOverlap` and `CallsOverlap` say, like `Overlapping`, whether another
request may write in between. **Provider** is calls of several worker processes that
draw tokens and slots and are answered, limited or refused, over five ways of sending.

**Setup** is the wizard's form with its probes and drafts, the connections page, the server's acceptance, and
`Opens`/`Reads`: whether a pass can build its clients from what was stored, and whose data they read.
**Discovery** is the scan and the screen. **Verification** is a run of the gate.
**Appliance** is the one process, every stretch between two awaits a step. **Sharing**,
**Decisions** and **Notices** are as their headers say.

**MC\*** give the constants of the small instances. `MCPeople`, `MCOutside`, `MCSetup` and `MCOperate`
put components that share no state side by side: a variable (`about`, `stage`, `desk`) says which of them a behaviour
is about while the others rest, so that one run covers them without their product.

Operators introduced by "a variant that ..." are the plausible mistakes that each
property is shown to detect; no specification uses them.

## 3 Abstractions and bounds

*Data.* In the pass, a content stands for its bytes, their hash, the version the source lists them
under and the ETag the target mints for them: two are equal exactly when the bytes are.
(`Writing` keeps versions apart from contents: every write and edit mints a new one.) `Theirs` is any bytes
this tool did not write. Timestamps are Booleans, or positions in a log where order matters. `None` is NULL, undefined or an empty
string. `absentPasses` and `consecutiveFailures` are capped at their thresholds, above which
nothing tells values apart. Keys are abstract; hashing is injective. Credentials are the set of fields filled in and
whether the provider takes them. Amounts of money are integers in cents, rounded where the code rounds. Time in
`Provider` is a clock of whole ticks; a bucket refills one token a tick.

*Retries inside a request* (`dav-retry.ts`) are folded into the request: a create that
landed, was retried and got 412 is the `PutItem` that reports no version.

*External parts* are modelled from how the code uses them and marked in the map: mail, file and calendar servers and providers, the
orchestrator (queue, lanes, retries, cancellation), Mollie, the directory, Nextcloud.

*Constants of the runs.* One or two keys, one or two collections, two contents, one or
two workers. `MAX_ITEM_ATTEMPTS`, `DELETION_CONFIRMATIONS` and the tripwire are 2: one
failure or absence below the limit and one at it, so both sides of each comparison
occur; more repeat the same states with larger counters. The mass check runs with 2
items and 50 % instead of 20 items and 20 %. Page limits, snapshot limits, knock limits and attempts are 1 or 2 for the same
reason. The gate's tolerance of 1 % needs more than a hundred items to tell; `GateHolds` is stated for fewer.

*Environment.* Every `Max...` constant bounds how often a person, a provider or a fault acts in a behaviour; passes, ticks and
attempts are unbounded unless named. Two source changes suffice for a move and a
return, a rename and a new file at the old path, a deletion and a restore, or a change
during the pass after one before it. In `reading` three changes allow one before, one during and one after
a listing. One fault per behaviour is allowed beside other activity. `Faults` names the kinds a run allows, `DuringPass`,
`DuringJob`, `DuringPurge`, `EditsMidWrite` and `MovesMidApply` who may act while something is under way.

*Restrictions that matter.* Some passing runs leave out an interleaving the code does not exclude, because the
property is known to fail with it; each is a constant, so that the failing instance is one change of the cfg away (section 6):
overlapping read-decide-write sequences (`Overlapping`, `RequestsOverlap`, `CallsOverlap`), the owner in the middle of an erasure
(`DuringPurge`) or of a write (`EditsMidWrite`), an operator's retry in a running pass (`DuringPass`), a JMAP server that stores a message twice
(`ServerDedups`). What the run then shows is that nothing *else* breaks the property.

*What the runs leave out.* No passing run has legacy rows, chunked uploads
(`Large`), un-walkable targets or `OnCollisionFail`; those parts of `DomainSync` are
reached only by the proofs of type correctness and, for un-walkable targets, by `held_file_overwritten.cfg`.
Graph contacts are in `contact_tombstone.cfg` only.

*Symmetry* is used in `sync_file`, `apply`, `people`, `outside` and `writing`, which check no liveness and
whose initial predicates and next-state relations treat the permuted values alike.

*Deadlock* is checked in `sync_file`, `sync_calendar`, `apply` and `completed_overwritten`: a scheduler can always start a pass, an operator a
command. The other runs end when every bounded participant has used up its turns.

## 4 Fairness

`Spec` (DomainSync) assumes weak fairness of `PassSteps` (the tick keeps triggering passes, the queue
runs them, and a worker that can go on does) and of `ClearCursors` (the second statement
of a RETRY request that has begun). Nothing obliges the source, the owner, the operator
or any fault to act, and a crash cannot be forced. The
bounds on the environment make "once things are quiet" meaningful: `EventuallyHandled`
says that from some point on every item the source holds is handled for good.

`ReadingFairness`: passes begin again and again, and what has begun goes on; a fault is never obliged.

`ServiceFairness`: cron jobs fire again and again; the orchestrator starts what it can (strong fairness, as lanes are taken and freed)
and every attempt ends; rows age; and what may fail does not fail for ever: an enqueue, a question to the
orchestrator, the transaction of an erasure (strong fairness). Deaths of workers are bounded, not fair. `ErasureHappens` and
`ActiveKeepsSyncing` name what stands in their way and no fairness would remove: a mapping that is still active,
and a run row that a dead worker left behind.

`ApplianceFairness`: the process is booted again, the cron fires, a pass and a request that have begun go on; strong fairness of `RunMapping`,
since a tick that finds a pass in flight is skipped and comes again.

All other specifications assume no fairness: only safety is checked of them. `PersistentSpec` and `OutsideFairSpec` are for two of the questions of section 6.

## 5 Runs

| Run | Instance | What it shows | States |
|---|---|---|---|
| `sync_file` | two paths in one folder, two workers, a bin; the source changes during the pass; fetch and upload failures, lost answers, crashes; one owner's edit, one answer of the operator | cursors hide only what is handled; claims are withdrawn when the item is back; the owner's bytes survive | 2.0 M |
| `sync_calendar` | one event, two calendars, a source that reports removals, an owner active during the pass; missing versions, unanswered HEADs, missing folders | a move is never written twice, every event ends up handled | 677 k |
| `apply` | two paths, two concurrent jobs that can die, renames, deletions, restores, failing and lost uploads, an owner's edit, an answer of the operator | no silent removal, the last copy stays, the owner's bytes stay, relocations leave their mark | 1.1 M |
| `service` | one mapping, two jobs and rows, a death, a manual run, closing and reopening | implements `TenantLife`; a pass at work is on record; an owed erasure happens; an active mapping is synced | 98 k |
| `reading` | ten connectors, content and bin, two items (one that cannot be named, one in a twin folder), three changes, an expiry, a fault, a fallback transport | cursors hide nothing unrecorded, no reported removal is lost, a quiet source is read to the end | 987 k |
| `writing` | five writers, two keys, three ids, two passes, two acts of the owner, one fault | no second copy, no false removal, no other message removed, no edit lost unseen | 2.8 M |
| `people` | two persons, two requests, two organisations; three cutover invocations, killed anywhere | an owner remains and invitations can be accepted; the cutover implements `CutoverMachine`, is approved and executed once | 872 k |
| `outside` | two price lists, two payments; two workers with three calls | invoices are settled by their payment, prices stand; the budget is kept, a refused token is not sent again | 1.2 M |
| `setup` | two kinds of source and target, two connections and mappings, three edits; two scans of two kinds and folders | what is accepted opens and reads the account stated, rotation breaks nothing, figures are whole | 586 k |
| `operate` | the gate over two items, three domains on two hosts, two clients, two owners of a checklist, two passes of detection, two cadences of digests | the gate holds, domains on one host do not overlap, a finished mapping stops, shares are on purpose, dismissals stay, digests miss nothing | 520 k |
| `completed_overwritten`, `bin_deletion_lost` | | section 6 | |

Each takes from seconds to about two minutes with two workers.

Some properties deserve a word on why they are not obvious.

*CursorHidesOnlyHandled* relates cursors, source and rows across passes. It fails if
the cursor is stored despite a retryable failure, if it is the cursor of the end of the
folder, or if RETRY does not clear the cursors. *NothingHidden* is its counterpart on the other side of the port: there
the cursor means something, and may be refused, expired, of another mailbox numbering or of another transport.

*NeverOverwritesTheirs* needs the ownership check, the If-None-Match of a create, and that
no row of ours lacks a version. Where a version is missing the code treats the copy as
ours. The runs that check it allow no such fault (nor does the theorem).

*LastCopyKept* makes exceptions for an arrival that is itself being, or has been, removed
on a deletion the owner decided: both removals were then asked for.

*WorkIsVisible* depends on what the erasure job may still believe of rows it read earlier: a run it was told is over may have been
retried, under the same row or another.

*GateHolds* has a history variable: what was amiss when a run began and has been ever since. The verdict is made of figures of
different times, so nothing is said of what changed during the run.

*OneExecution* and *SwitchIsApproved* hold although `execute` decides on a state it read
earlier, because the store checks again; without overlap that is enough.

*FinishedStops* is a liveness property because a start that races a finish does arm the schedule again; the next tick finds the mapping
done and takes it down.

## 6 Disagreements between the code and its documents

Two runs check one statement of a comment or a document each and TLC finds
a behaviour of the code that contradicts it; `PROJECT.json` quotes the lines.

* `completed_overwritten`: `initializeCutover` is check-then-upsert; a start that found no
  cutover writes PREPARING over one that has meanwhile ended (`cutover-store.ts:95`).
* `bin_deletion_lost`: the cursor of the mail bin is stored inside the listing, before the deletions
  found there are recorded; a worker that dies in between leaves them unreported for good (`reconcile.ts:128`).

The following were found the same way. Those with a cfg are run with `tlc -config <name>.cfg <module>`; the others by
the named property and constant in place of those of the run mentioned.

The pass and its neighbours:

* `moved_reported_deleted.cfg` (MCSync): an event is moved between calendars. In one pass the new
  calendar lists it and stores its cursor, while a retryable failure holds the old
  calendar's cursor back. The next pass gets the removal again, does not list the
  unchanged arrival, and records the deletion of an item that is alive (`domain-sync.ts:1514`).
* `held_file_overwritten.cfg` (MCSync): a create answered with 412 is reported as created, without a
  version; the row becomes `copied`, and the next source change overwrites the owner's
  file (`webdav-target-writer.ts:644`).
* `failed_rewrite_landed.cfg` (MCSync): a failed rewrite leaves a `failed` row; its retry takes the
  create path, finds our older copy, adopts it, and records the new version and hash
  although nothing was written (`domain-sync.ts:1138`).
* `unkeyed_forgotten.cfg` (MCSync): an un-keyed message whose fetch fails leaves neither a row nor a
  held cursor, so it is not listed again (`domain-sync.ts:1196`).
* `sync_file` with `"operator"` added to `DuringPass`, `CursorHidesOnlyHandled`: the pass stores its cursor over the ones a RETRY has just
  cleared (`cursor-store.ts:57`).
* `erased_recreated.cfg` (MCApply): the tombstone of an applied deletion keeps the move recorded on the
  row; `classifyKnownItem` takes it for a relocation's and the item is copied again (`ledger.ts:1193`).
* `sync_calendar` with `Faults = {"put_refused"}`, `MaxSource = 3` and `DuringPass = {}`, `NoDuplicateCopy`: a rewrite fails, the event then moves, and the retry, which is decided on before
  the collection is looked at, writes it into the new calendar beside the copy in the old one (`domain-sync.ts:291`, against the comment at `:842`).
* `apply` with `DuringJob = {"owner"}`, `NeverDestroysTheirs`: the DELETE of a job carries no precondition; with `Faults = {"crash"}` or `DuringJob = {"pass"}`, `RelocationLeavesItsMark`:
  `clearMove` has taken the mark off before the new copy is written. With `DuringJob = {"pass"}` also `LastCopyKept`: a job is at work on the old copy when the item goes back; a pass
  records the way back, a second job removes the other copy, and neither job looks again (`apply-deletion.ts:708`).
* `Cutover` with `PersistentSpec`, `FailedCanBeRetried`: no command or job makes the transition FAILED to PREPARING that
  `docs/cutover-runbook.md:261` describes (`cutover-commands.ts:154`).

Sources and writers:

* `expired_cursor.cfg` (MCReading): a DAV sync token the server has forgotten fails every later pass; "cursors are non-authoritative" does not hold (`reconcile.ts:107`, `caldav-source.ts:313`).
* `webdav_nested.cfg` (MCReading): files deeper than `MAX_FOLDER_DEPTH` are in no listing.
* `contact_tombstone.cfg` (MCReading): a removed Graph contact is listed as a contact without content (`graph-contacts-source.ts:178-213`).
* `edit_taken_for_ours.cfg` (MCWriting): an edit between a JMAP write and the reading back of its version is recorded as ours (`jmap-file-target.ts:648`).
* `imported_twice.cfg` (MCWriting): with a server that does not refuse duplicates, an import whose answer was lost is repeated (`jmap-target.ts:635-641`).

The service:

* `service`, `OneDeltaPerMapping`: a manual run has no lane (`migrations/index.ts:1778`), against "one running delta sync per mapping, ever" (`run-delta-sync.ts:150-153`).
* `service`, `NoPassOverErased`: a job already started opens its run row after the purge has read the run table and before the erasing transaction, so the tenant is erased under a live pass, which `quiesce.ts` says must never happen (`managed-purge-closed.ts`).
* `service`, `KeepsPromise` with `DuringPurge = TRUE` and `MaxCloses = 2`: an account reopened or closed anew after the purge's query is erased all the same (`offboarding.ts:221`).
* `operate`, `FinishIsFinal`: a start that read the status earlier makes a finished mapping active (`apps/selfhost/src/index.ts:2302`).
* `operate`, `ScopesAgree`: a pass and the look-up of an approved removal compute the enabled domains differently (`orchestration.ts:292`, `:839`).
* `operate`, `RemovalsReported`: a removal made while a digest is collected is marked as told and was not (`managed-digest-run.ts:206`, `:266`; `apps/selfhost/src/index.ts:492`).
* `operate`, `AnswerStands`: a discovery that classified a group earlier writes over the owner's answer (`group-def-store.ts:107`).
* `operate`, `OneShare`, `SkippedMeansUnshared`: two owners can invite twice, and one can skip what the other's invitation has already gone out for (`share-queue.ts:281`).
* `operate`, `ApprovedRemovalPasses`: a tombstoned row still counts as a source item and fails the gate (`verification-queries.ts:106`).

Setup, people and money:

* `setup`, `MailReadsStated`: a mail mapping over a reused connection reads that connection's account (`migrations/index.ts:582`); `TestedTargetOpens`: a target that was tested
  may be of a kind the pass does not open for the source (`connections.ts:242`); `AimedAsStated` (`connections.ts:518`).
* `setup`, `NewestStands`: a scan that took longer overwrites a later one (`discovery-store.ts:55`); `ScreenShowsAll`: the confirm screen stops at the first row (`ConfirmMigration.tsx:32`).
* `people` with `RequestsOverlap = TRUE`: `OneOrganisation` (`access-requests.ts:310`), `OwnerRemains` (`members.ts:258`), `ClaimSucceeds` (`members.ts:122`).
* `outside`, `PaidStands`: generating an invoice again rewrites a paid one (`billing/index.ts:465`); with `CallsOverlap = TRUE` also `PriceStands` and `SettledMeansSettled`.
* `outside`, `IdleCountsNone`: a limiter counts requests that are over (`throttling.ts:312`); `PatienceEnds` with `OutsideFairSpec` and `Ways <- JmapAlone`: the retry's time budget
  is spent only by waiting, so a server that asks for a wait of nothing is asked again without end (`http-rate-limit.ts:178-201`).

## 7 Proofs

Proved by TLAPS for every value of the constants that satisfies the named assumptions
(`LedgerAssumption`, `SyncAssumption`, `ApplyAssumption`, `CutoverAssumption`, `AccountsAssumption`, `ServiceAssumption`, `ProviderAssumption`, `BillingAssumption`, `ReadingAssumption`,
`SharingAssumption`, `NoticesAssumption`, `VerificationAssumption`, `DecisionsAssumption`, `DiscoveryAssumption`, `WritingAssumption`, `SetupAssumption`, `ApplianceAssumption`), which the runs evaluate. A theorem with a further
condition names it in its ASSUME; every condition is met by the run that checks the same property, and for each but one
TLC shows a behaviour that breaks the property without it.

| Condition | Theorems | Without it |
|---|---|---|
| `Protected`: rows and answers carry versions, HEAD and PROPFIND are answered, no owner during a pass | `PassesSpareTheirs`, `JobsSpareTheirs` | `held_file_overwritten.cfg`; a missing version is taken for ours |
| `"owner" \notin DuringJob` | `JobsSpareTheirs` | an edit between the job's HEAD and its DELETE, which has no precondition, is lost |
| `Undisturbed`: every item has a key, no operator during a pass | `CursorsRetireOnlyHandled` and all that rests on `CursorInv` | `unkeyed_forgotten.cfg`; a RETRY clears cursors that the running pass then stores |
| `FullyListed`: a key listing that, like the folder listing, does not fail | `DeletionClaimsAreCurrent`, `MoveClaimsAreCurrent` | `moved_reported_deleted.cfg` |
| `PathKeyed \/ Unfailing` (no failing write or crash, bodies listed, no legacy rows, no operator during a pass) | `ItemsAreCopiedOnce` | section 6: a failed rewrite retried in another calendar |
| `"pass" \notin DuringJob` | `RelocationsLeaveTheirMark`, `PlainErasuresStand`, `NothingIsRemovedSilently` | a pass withdraws the move, or writes the row, between the job's read and its tombstone; for the third the condition is the proof's only, TLC finds no violation (2.3 M states) |
| `DuringJob = {}` | `LastCopiesAreKept` | the owner removes the arrival after the job has asked for it; or, while a job is at work on a move, the item goes back and a pass records the way back, and a second job removes the other copy |
| `"crash" \notin Faults` | `RelocationsLeaveTheirMark` | a pass dies after `clearMove` and before it writes |
| `~Overlapping`, `~RequestsOverlap`, `~CallsOverlap`: no other writes between one's read and write | those on the cutover, accounts and billing | section 6 |
| `~DuringPurge` | `PromiseKept` | section 6 |
| `ServerDedups`, or no JMAP mail or contact writer | `OneCopyOfOurs` | a pass dies before it records its copy; while the next lists the folder by position someone discards an earlier message, the listing steps over ours, and the server stores a second |
| `~EditsMidWrite` | `TheirEditsAreKept` | an edit between the check of the version and an unconditional write is lost |
| `~MovesMidApply`, or no IMAP writer | `RemovalsTakeTheirOwn` | a mailbox recreated while a message is being removed gives its UID to another |
| `SmallMapping`: fewer than 100 items | `GateAlwaysHolds` | one missing item of 100 is within the 1 % the gate allows |

**DomainSyncProofs** begins with the lemmas that the ledger's statements keep the type of a row, and has
`SyncTypeCorrect`, `Spec => []TypeOK`. `TypeOK` is not inductive: that a
write goes to a place that exists, with bytes, depends on where the worker is. The
invariant adds `WorkersOK`: a worker in flight is at a place of the folder being
processed, and has bytes once it has fetched.

Its second part is `PassesSpareTheirs`, `Spec => NeverOverwritesTheirs`: passes replace or
remove nothing the owner put on the target, whatever fetch, upload or listing fails or worker dies. The inductive invariant `Safe` adds
to the types

* `RowsSafe`: a row that says we wrote the copy has its version;
* `PassIsFresh`: between passes no snapshot and no worker is left, and a folder being
  processed is not listed again;
* `SnapshotComplete`: what is on the target in an enumerated collection this pass has
  still to write to is in the snapshot;
* `WorkersSafe`: the row a worker decided on is still true where it matters, a worker about to rewrite faces bytes
  that are not the owner's, one about to create faces nothing, and what it will record
  has a version.

Its third part has three arguments over one invariant.

* `CursorsRetireOnlyHandled`. What makes `CursorHidesOnlyHandled` inductive is what is known of an item before its
  folder's cursor is stored (`CursorInv`): listed at its present version, it is with a worker at that version, accounted for, or
  holds the cursor back (`CurrentAccounted`); nobody else writes the row a worker has read (`WorkersAbreast`); no cursor hides an
  item being worked on (`WorkersUncovered`). A step is classified by what it does to source, rows and cursors; each class has one lemma.
* `DeletionClaimsAreCurrent`, `MoveClaimsAreCurrent`. `ClaimInv` adds that a row's claims are coherent (`RowsCoherent`), that those of an
  item a worker has or a cursor hides are true (`WorkersTruthful`, `HiddenTruthful`), that a hidden item was seen by the pass that counts
  absences (`HiddenSeen`), and that the detectors of the last phases hold rows as they are (`DetectorsAbreast`).
* `ItemsAreCopiedOnce`. `LandedInv` adds that a copy of ours is at the collection of its row or just being written there.

**ApplyRemovalProofs**: `ApplyTypeCorrect` (`TypesHold` adds the locals of jobs). `JobsSpareTheirs` from `ApplySafe`: `Safe`, and a job that has checked a copy
faces bytes that are not the owner's. `RelocationsLeaveTheirMark` and `PlainErasuresStand` from `Buried`: every tombstone is a removal
that was carried out and move detection knows it; `TombstoneStep` lists what a pass may do with one. `NothingIsRemovedSilently`
from `Standing`: what the writer has enumerated is there, and a worker has the row as it read it and records a copy only where there is one.
`LastCopiesAreKept` from `OneKept`, for a finite set of items. `OneWay`: no two relocations lead to each other. A pass records one only from an item it has not
seen to one it has created, and what it migrates it has taken the old relocation off (`Unmoved`). `Pair`: the item of an open relocation job and its arrival are the
only two with these bytes, which is what `relocationCheck` counts; a second job that removed the arrival as relocated would have to lead back. `Arrived`: once asked
for, the arrival is there until a job removes it on a deletion, which is recorded or reported.
All take the invariants of the pass over: a step of a pass is a step of `DomainSync`, so only the steps of jobs are new.

**ReadingProofs**: `NothingIsHidden` and `RemovalsAreNotLost`, for all eleven connectors and without further condition. A cursor *hides* an item if a listing from it
that the provider accepts does not send the item; `HiddenInv` says what that takes in each form of cursor (`Past`: positions, UIDs and etags it holds are not ahead
of the provider's). What it hides is recorded (`Recorded`), for each transport that would use the cursor; the two transports of a mailbox never use each other's.
While a listing runs, what was there when it began is in a page still to come or in hand (`Listing`; over IMAP, below the next UID, which needs that a bounded set of
numbers has a largest); what the next cursor hides is in hand, and recorded before the cursor is stored (`Listed`). Changes get a new version and UID, so they leave
hiding (`HidesNoMore`). `RemovalsInv` says the same of tombstones: what went before the position of the stored cursor has been reported (`Settled`), what went before
a listing began is still to come in it or in its tombstones (`GoneHeard`).

**WritingProofs**: `WritingTypeCorrect` (with the shape of an operation at each of its points), `RemovalsAreReal`, `OneCopyOfOurs`, `RemovalsTakeTheirOwn`, `TheirEditsAreKept`,
for all five writers. What is hard is what a worker may still believe of an id or a version after the request that gave it. `OneKey`: except over IMAP an id stands for one key
for good, in whatever row, memory or operation it is kept; `Uids`: over IMAP it does within one UIDVALIDITY, and a new mailbox has a new one. `Gone`: what a removal leaves
is out of sight from its answer to its record and after. `Single`: a copy of ours is the only one its writer can find, so a retry adopts it. `Versions`: the version of
what people made or edited is in no row and in no operation, so a precondition or a check fails on it. The attempt to prove `OneKey` found an error in the model, now mended: a 412 over CardDAV names
the card at our own path where there is one, not any card with the key (`MayRefuse`).

**PeopleProofs**. Cutover: `CutoverTypeCorrect` without further assumption; `CutoverIsApproved`, `CutoverIsExecutedOnce`, `CutoverIsAudited`, `CutoverTerminalStands`,
and `CutoverImplementsMachine`, that `Cutover` implements `CutoverMachine`. The inductive invariant is `SafetyInv`: at most one transition is between its
load and its last write (`Exclusive`); what it read is still the state, its goal is a
valid successor, and a save follows its event (`Grounded`); and no pending transition
leads back to PREPARING (`NobodyRestarts`), which is why a second execution is refused.
Accounts: `AccountsTypeCorrect`, overlapping or not, since rows are never deleted; `OwnersRemain` and `ClaimsSucceed` from `AccountsInv`: one request at a time
is past its guards (`OneDecides`) and what they found still holds (`DecisionsStand`); one standing row for an address in an organisation (`OneRowEach`), which carries
its own subject once claimed (`ClaimedByOwner`). A row that is not the only owner's leaves another (`TwoOwners`, from the count the guard makes).

**SyncServiceProofs**: `PromiseKept`, that `SyncService` implements `TenantLife`; every step maps to a step of
the account's life or a stutter, given `LifeInv`: an erasure under way finds the window still run out. `WorkStaysVisible` and `ServiceHolds`
rest on `VisibleInv`: beside `WorkIsVisible`, a row the erasure job has read is closed or still the same run's, and a run it was told is finished
has not come back. Each job step is split into those that leave the rows alone (`Quiet`) and the three that open, close or retry.
The appliance: `LanesShareNoHost`, for any domains, in any order, on any hosts. The plan of the lanes is a recursion over the domains; that its lanes are `Apart` (no domain
and no host in common) is shown for the first n of them, through the least n for which it might fail (`HasLeast`, from the well-foundedness of the naturals), since the induction theorems themselves are out of the
provers' reach. `FlightInv` then says that a lane has at most one domain at work and that what is at work is in a lane.

**OutsideProofs**. Providers: `BudgetKept`. `InBudget` alone is not inductive; `BudgetInv` says, for every admitted request, that those since plus the tokens left fit into a burst and the time
up to the last refill. `RenewedBeforeResent` rests on `TokenInv`: tokens are numbered in the order they were issued, a call holds only an issued one, and
a call that was refused is on its way to a later one, whatever mint it joins.
Billing: `InvoicesSettleTruly`, `AgreedPriceStands` from `BillingInv`: a webhook holds the final status of a payment that has ended, and of the
invoice it holds what is still so while it alone is between read and write. The amounts are left out of the invariant; they are sums over the price list.

**OperateProofs**. Sharing: `SharedOnPurposeAlways`, `SharingTypeCorrect`, `SettledStandsAlways`. The invariant adds `RequestsHold`: a request past its checks was let through for a
grant on a file after the cutover, and one about to tick a row off has made its share.
Digests: `DigestsMissNothing`, without condition. `Tells` says at each point of a digest which of the queues that waited throughout are in it already.
Gate: `GateAlwaysHolds`. `Sound` says of a run what it has to show of the items gone ever since it began: a bad verdict for the types it is done with,
a missing item once it has compared the listings, and before that at least a key that was recorded and not listed.
Decisions: `DismissalsStand`, without condition. `Spares`: what a pass has still to ask about is disjoint from what it found dismissed and covered, and the subject in hand is
among it; only the two inserts of `raise` make a question pending (`AskedByPass`).
Discovery: `FiguresAreAlwaysWhole`, for finite folders and things. `CountCovers`: the count of a scan is at least the number of things that have stayed in place in the folders it has
read, its keys include theirs, and the figures of the destination were taken when no folder was left to read. What leaves either side leaves what has stayed in place, which only makes
the count more than enough (`CountedLess`, `ShiftKeeps`); a row once stored keeps its figures when a later scan fails.
Setup: `WorkingConnectionsStay`, `StatedAccountsAreRead`, `AcceptedMappingsOpen`, without condition, for any sources, targets, connections and entries. `SetupInv` says of a stored connection what its status and its uses
have promised (`RowSound`), of a request under way that the fixed part of its row still stands and its credential does or has been replaced by one that works (`SendingHolds`), and of a mapping that its source
carries its data and names the account it was created for (`MappingHolds`). Two screens work on the same rows; `Evolves` is all that either may do to a row the other has read.

Each invariant was checked with TLC on small instances before it was proved.

**Only model-checked.**

* Liveness (`EventuallyHandled`, `CatchesUp`, `ErasureHappens`, `ActiveKeepsSyncing`, `FinishedStops`) and anything with ENABLED is out of the prover's reach.

## 8 What is not modelled

* Of the protocols: XML, MIME, vCard and iCalendar; fetching bodies; the trash bins of the file providers; creation of collections by the DAV writers, a
  directory at a file's path. The bin of a file source is listed in full.
* In applying: the enabling flag, receipts and `autoApplyRelocations`.
* A cursor row has no domain column; two domains of a mapping with equal folder paths
  share it. `DomainSync` is one domain.
* Reindexing (a manual repair), DNS polling (an answer that comes or not, in `Cutover`), encryption of secrets, revocation of tokens, retention of run rows.
* Editing a mapping after it was created, mailbox policies beyond presets, the audit trail apart from what the digest and the cutover read.
* Presentation: pages, translations, mail texts; deployment, site and scripts. They hold no state of their own that another part reads and make up most of the
  lines the map does not cover.
* `build-deps.ts` leaks the pools of a domain whose other side fails to open; `Discovery` has the failure and not the pool.

## 9 Plan

Done: the pass and its neighbours, sources and writers, the managed service, the appliance, setup, gate, checklist, decisions and digests, accounts, billing,
providers; the theorems of section 7.

Next, in order of weight:

1. Theorems: `NothingIsRemovedSilently` with passes beside jobs; what remains of the cutover when transitions overlap.
2. Instances of `DomainSync` that are missing: legacy rows, chunked uploads, `OnCollisionFail`, two domains over one cursor table.
3. Crashes of a pass beside apply jobs, `autoApplyRelocations`, and passes or the owner during a job (`DuringJob`).
4. Reindex after a lost database; editing a mapping; retention.
