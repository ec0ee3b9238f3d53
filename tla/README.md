# Tokenturn in TLA+

Tokenturn collects what a company spends on AI (from vendor APIs, from SDKs
inside its programs, from invoices), decides whose spend it is, and sets it
against outcomes: merged pull requests that survive, issues that stay done. It
is one Next.js container and one PostgreSQL database. All background work runs
in that container: a tick every five minutes (`scheduler.ts`) calls the sync of
each due vendor, then the silence, burn and survival checks. Routes, ticks and
jobs share a pool of ten connections; every transaction is READ COMMITTED, so
what protects the data are row locks, unique keys, foreign keys and a few
advisory locks. There is no queue: what a crash interrupts is taken up by the
next tick, or not at all.

That is why the hard questions are about statements of concurrent transactions,
about work that dies between two commits, about vendors whose data moves while
it is paged through, and about the SDKs' retries. They are what these modules
are about.

Paths below are relative to the repository; `lib/` is `src/src/lib/`, `ee/` is
`src/ee/`, `api/` is `src/src/app/api/`, `sdk/` is `src/sdk/src/`, `sdk-py/` is
`src/sdk-py/src/tokenturn/`.

## How to run

    tlc -workers 2 -config SyncEngine_runs.cfg MCSyncEngine   # any run of the table
    tlapm SyncEngine_proofs.tla                               # any *_proofs module

## Inventory

State is in PostgreSQL unless said otherwise. `PROJECT.json` has every component
with its sources and its status, every hazard with its line, and the source
lines behind every definition.

| Component | State | Operations | What is hard | What makes it correct | Here |
|---|---|---|---|---|---|
| Connector sync engine, `connectors/sync.ts` | `sync_runs` (status, cursor), advisory lock per vendor, `spend_facts`; in memory window, page, span | `runSync`: lock, open or resume a window, fetch and commit pages, promote issues, close, true up | overlapping ticks, deaths anywhere, a lock lost with its connection, vendors that restate days | one run at a time; no day skipped; rows never go back | SyncEngine, IncrementalPull |
| Vendor connectors, `connectors/{github,cursor,openai,anthropic,linear,jira}.ts` | a page token; the vendor's data | phases, chunks, queues, pricing, attribution, timelines | the vendor's data moves between pages and between walks; keys without ids | what a finished walk stored is what the vendor says; every walk ends | Connector, Github, CursorTeam, OpenAiOrg, AnthropicOrg, IssueBoards |
| Issue success ledger, `connectors/issues.ts` | `issue_tracking`, outcomes of kind `issue_done` | evaluate a history, upsert, flip a success, promote after the window | stale clock of a run, resumed windows, bounds of the window | counts match the tracking rows; only a regression in its window flips a success | IssueLedger |
| SDK buffer, `sdk/client.ts`, `sdk-py/client.py` | process memory: buffer, batch in flight | push, flush, answer, requeue, discard | cap reached while a batch fails; threads (Python) | newest kept, in order, nothing lost silently | SdkClient |
| Wrapped model clients, `sdk/wrap.ts`, `sdk-py/wrap.py` | what an observer has read of a stream | call, read, close, drop, fail | streams end in many ways; cumulative counters | one event a call, with the vendor's tokens | Wrap |
| Ingest API, `lib/ingest.ts`, `api/ingest/route.ts` | `ingest_events`, facts, outcomes, identities | authenticate, insert by UUID, state outcomes, re-derive buckets, recompute | retries beside abandoned requests; sums read before they are written | each event counted once; what was acknowledged is stored | SdkIngest |
| Daily rollups and retention, `lib/rollup.ts`, `retention.ts` | `rollup_daily`, `outcome_rollup_daily` | delete and rebuild a span of days; daily prune | overlapping recomputes; commit and recompute apart; pruned days rebuilt | a day's rollups say what its rows say | Rollups |
| Pages and the month report, `lib/overview.ts`, `people.ts`, `products.ts`, `roi.ts`, `tools.ts`, `report.ts` | none; an export's cursor | read-only SQL, the FOCUS export batch by batch | the same money summed by different SQL with other filters and roundings | every page says what its drill-down says; each fact is exported once | LedgerReaders, RoiReaders |
| Attribution, `lib/resolve.ts`, `tags.ts`, `people-import.ts`, `people.ts`, part of `sync.ts` | `people`, `identities`, `tag_settings`, owners of facts and outcomes | pages, confirm, not-a-person, merge, import, hard delete, point a tag | reads of unlocked rows, waits for foreign keys, two-statement deletes | history follows the identity; confirmations stand | Attribution |
| Invoices and seats, `lib/invoices.ts`, `seats.ts` | `invoices`, seats, their facts | import, true-up, price, materialise | a sync commits between read and write; stale seats; opposite month orders | an invoiced month sums to its invoice; a seat bills each month once | Billing |
| Provisioning, offboarding, `lib/provision.ts` | offboarding items, identities; the vendor's access | sweep, retry, mint, invite | two sweeps of one item; a lost answer; a crash between vendor and database | nobody who left keeps an access; what is recorded as removed is gone | Offboard |
| Directory syncs, `ee/lib/okta.ts`, `google.ts`, `directory.ts` | people, the log cursor | tick: roster, upsert, invite, poll; hook | ticks overlap; hooks are lost or late; rosters are old when written | no leaver event is skipped; nobody is invited twice | Directory |
| Limits and alerts, `lib/scheduler.ts`, `limits.ts`, `alerts.ts`, `events.ts`, `connectors/health.ts` | `alert_state`; events in memory | silence, limit and anomaly checks; claim, emit, deliver | claimed but not delivered; months end under a tick | one alert per limit and month | Alerts |
| Survival checks, `lib/survival.ts` | `survival_checks` | a batch of due pull requests a pass | late passes, repositories that go, deferrals that starve | each due one is measured, at its horizon | Survival |
| Sign-in, sessions, API keys, claiming, `lib/auth.ts`, `webauthn.ts`, `api/{auth,users,api-keys}` | users, passkeys, challenges, sessions, links, keys | claim, sign in, register, grant, remove, reset | handlers interleave between a check and its statement | one claim; one-time things are used once; an admin stays | Access |
| Rate limit, `lib/rate-limit.ts` | a map in memory | take | full of live windows, restarts, two windows back to back | at most twice the limit in a window | RateLimit |
| FX rates, `lib/fx.ts` | `fx_rates`, a run row, advisory lock | tick, fetch, parse, upsert | an old feed stored late, a restart that leaves 'running' | rates never go back; the last feed lands | FxRates |
| Settings, licence, audit, `api/settings`, `lib/audit.ts`, `license.ts` | `settings`, `audit_log` | validate, save key by key, audit | requests interleave and fail half-way | the currency converts; changes are audited | Settings |
| Scheduled reports, mail, `ee/lib/scheduled-reports.ts`, `lib/email.ts` | mark in `alert_state` | tick: send one by one, mark | mails before the mark, ticks overlap, restarts | no month is given up unsent; nobody gets it twice but for an overlap | Reports |
| Migrations, `src/scripts/migrate.mjs` | `schema_migrations`, advisory lock | wait, create, lock, apply file by file | containers of several versions boot, and are killed, at once | nobody serves on a schema that is not its own | Migrate |
| Onboarding, demo data, connecting a vendor, `lib/onboarding.ts`, `demo.ts`, `connect.ts` | stage, demo rows, `connectors`, credentials | answer, seed, wipe, connect, disconnect | seeding and connecting cross; real rows hang on demo ones | a connected vendor is not mixed with demo data | Lifecycle |
| Product and tag catalogue, search, lists; secrets, passwords, PDF, texts; routes and web interface | single rows, none | forms, paging, formatting, React | little | - | no |

How they interact: `runSync` walks a connector's pages and writes facts, outcomes,
identities and issues, calls the promotion and then the true-up; ingest, Resolve,
tags, seats, invoices and manual entries commit a change and then call
`recomputeRollups`; the burn checks, the pages and the reports read only the rollups,
the drill-downs the raw rows. The SDKs talk to the ingest route; everything else
talks through the database.

## Modules

| Module | Models | Uses |
|---|---|---|
| `IncrementalPull` | abstract: what an incremental sync promises | - |
| `SyncEngine` | `runSync` statement by statement | implements `IncrementalPull` |
| `IssueLedger` | the issue state machine, its tables and the runs that drive it | relies on `SyncEngine!LockExclusion` |
| `SdkClient` | the buffer of an SDK process; abstract for `SdkIngest` | - |
| `SdkIngest` | processes, network, server and database | extends and implements `SdkClient` |
| `Rollups` | `recomputeRollups`, its callers, syncs, retention | - |
| `Attribution` | who an identity's history counts for | - |
| `Billing` | invoices, true-ups, seats | its commits are callers of `Rollups` |
| `Offboard`, `Directory` | sweeps, retries, invites, keys; the ticks and hooks that start them | a sweep is one step of `Directory` |
| `Connector` | what every page walk shares: token, commit, retry, the vendor's moves | a page's commit is `SyncEngine!Commit` |
| `Github`, `CursorTeam`, `OpenAiOrg`, `AnthropicOrg`, `IssueBoards` | the walks of the vendors | extend `Connector` |
| `LedgerReaders`, `RoiReaders` | pages, drill-downs, report, export as functions of the tables | `RoiReaders` extends `LedgerReaders` |
| `FxRates`, `Settings` | rates; settings that must have one | `Settings` extends `FxRates` |
| `Alerts`, `Survival`, `Wrap`, `Access`, `RateLimit`, `Reports`, `Migrate`, `Lifecycle` | a part of the server, or of the SDKs, each | - |
| `X_proofs` for `X` = `SyncEngine`, `SdkIngest`, `Rollups`, `Attribution`, `Directory` | theorems | extend `X`; `SdkIngest_proofs` has those of `SdkClient` too, `SyncEngine_proofs` those of `Billing`, which its runs true up |
| `Connectors_proofs` | theorems about `IssueLedger` and the boards | extends `IssueLedger` and `MCConnectors` |
| `Vendors_proofs` | theorems about the other connectors | extends `Connectors_proofs` |
| `Operations_proofs` | theorems about `Access`, `RateLimit`, `FxRates`, `Settings`, `Migrate`, `Lifecycle`, `Survival`, `Alerts`, `Reports`, and about `Offboard` | extends `MCOperations` and `Offboard` |
| `MC*` | small instances for TLC; `MCConnectors` and `MCOperations` compose modules | extend the modules they instantiate |

Operators named `X_Something` before an `X`, commented "mutant", are plausible bugs
of `X`: with one in place of `X` some property fails. They belong to no behaviour.
Ghost variables (`raced`, `loose`, `crossed`, `exposed`, `dropped`, `overlaps`, ...) record what the
code does not, so that a property can say which overlap it excuses.

### SyncEngine

`runSync` (`sync.ts:657-798`), several callers at once. `pc[c]` is where a caller
is, `job[c]` what it has in memory: the window, the watermark it read, a fetched
page, the days it wrote (`factSpan`). `last` is the newest row of `sync_runs`,
`holder` the session that owns `pg_try_advisory_lock`; a caller that finds it
taken returns, which is no step. `Check`/`Refuse` are `connectedRow`, `MarkDead`
and `Open` the statements before the loop, `Fetch` and `Commit` one iteration
(rows and cursor are one transaction), `Promote`, `Finish`, `RecordError`,
`TrueUp` the end, `Throw` an exception in the loop. `Die` is the death of the process or of the
connection; `LoseConnection` is the one case in which a run goes on without its
lock, since the true-up runs on connections of its own. A page is a range of days from the
token to any later day of the window; the phases and chunks of real
connectors are taken for such ranges. A day's rows are a version number which the
vendor may raise (`Restate`); `Commit` stores the fetched one, however old.

`IncrementalPull` forgets runs, locks and pages: days are copied, never backwards,
and the watermark tells the truth (`Covered`). The refinement mapping is
`mark <- Mark`, the watermark of the latest row's cursor.

### IssueLedger

`Evaluate` is `evaluateIssue` on the times `distillTransitions` finds: first
submission or completion is the anchor, a regression up to the end of its window
fails the issue, and `<=` holds on all three sides as in `issues.ts`. `Commit`
restates each issue a page carries (`upsertTrackedIssue`), emits or flips its
outcome; `Promote` is `promoteDueIssues` with the clock the run read when it
opened (`now`). The vendor answers with the issues whose last update lies in the
run's days, as of the request; so an issue edited after the window's end is not
carried. `Fail` ends a run anywhere and leaves the cursor. `clean` records whether a run opened its own window and read
it on its last day.

### SdkClient and SdkIngest

`Push`, `Take`, the three answers `Done`, `Requeue`, `Discard`, and `Capped`
(drop the oldest) are `push`, `doFlush` and `requeue` of
`client.ts`; the Python client is the same behind a
lock. In `SdkClient` answers are free. `SdkIngest` extends it: `Post` puts the batch
in a request slot, `GiveUp` is a broken connection that the server does not
notice, so that a retry runs beside the first request. A request then takes the
steps of `ingestEvents`, in its order: identity locks, employee by employee as the batch names them, insert by UUID with the outcome's upsert,
`SUM` and upsert per bucket as two statements, commit, `recomputeRollups`, answer.
`WaitsFor` names the transactions a statement waits for (identity row, UUID,
outcome, fact), `Abort` is the deadlock detector. Facts are sets of events, so a
missing event and a doubled one differ. An event that is in neither `Calls` nor
`Outcomes` is one `parseEvent` rejects.

### Rollups

A caller changes raw rows (`Record`, `Reattribute`) in a committed transaction and
owes a recompute of the days from the first to the last it touched. The recompute
is five statements; each reads what is committed when it starts (`Start`), waits
for rows and keys of others, and takes effect (`Delete`, `Insert`), fails on a key
or a NULL sum (`InsertFails`), or is aborted (`Deadlock`). `Sync` writes rows and owes
nothing, `Prune` is retention. A rollup row is its key (table, day, person) with
the raw rows it sums; amounts and currencies are reduced to "has a rate". The locks
of one statement are taken together. `crossed` has the days that two recomputes were
rebuilding at once (`Begun`): past their check of the rates, and not ended.

### Attribution

`ids`, `roster`, `mergedInto`, `alias`, `pointed`, `facts` are the tables; `facts[i]` is
the set of owners the facts and outcomes of identity `i` carry, each with who chose it (`by`): its
identity, the page that wrote it, or a promotion. A connection runs one
transaction, cut where what it read may be stale when it writes: a page reads people
and tags (`Page`), upserts its identity (`Upsert`), routes it (`Route`), sweeps the history, then writes
its rows (`Write`): facts for the ROI of the identity, outcomes for the ROI of their kind (`OutcomeRoi`), which no
sweep of that page sees; a request of events is a page of an employee (`sdk`), with neither tags nor
routing, whose rows have the key's ROI. `Promote`/`EmitOutcome` are `promoteDueIssues`, which reads the identity
unlocked. `Confirm`/`ConfirmMatch`, `Merge`/`MergePeople`,
`Import`/`ImportPeople`, `PointTag`/`UpdateTag` are each a first statement that locks
or reads and a rest that writes; `Scrub`/`DeletePerson` are hard delete's two
statements without a transaction, so the first is committed on its own. `Conflict` has
the three strengths of lock that matter: KEY SHARE of foreign keys, update, and full
(`FOR UPDATE`, DELETE). `Violates` are the foreign keys and the CHECK that what is
not a person has none. `decided` is a history variable.

Abstractions: a page has one identity; a person is named by the primary address; a statement
takes its locks together; tags were added before; ROIs are not archived;
`counts_personal` and manual tags are left out. `FactsMirror` says nothing of an identity
with neither owner nor mark, whose facts may still name somebody between the halves of a hard delete, nor of the ROI
of a row that got it from its own page and was not moved since.

### Billing

A job is an import, a sync's true-up, a seat's form, its deletion, or
`materializeAllSeats`, cut at every statement; `txn[j]` is what its transaction holds. `synced[m]` is what the facts of a
month sum to, `adjusted[m]` the adjustment row, `fees` the seat facts with the call
that wrote each. A statement that meets a row another transaction has written waits
for it; two that wait for each other are broken up. `loose` and `raced` record the months and
seats whose last writer overlapped another, which is where the code promises less; `upto` the month a seat's
last writer took for the current one, up to which, that one included, an open seat bills.

### Offboard and Directory

`access` is what the vendor really grants, `items` the table; a sweep plans an item
for each identity of a person, marks the person, calls the vendor item by item and
records the answer, with no transaction around it. The call may act and lose its answer,
the database may refuse a statement, `Crash` ends every job. In `Directory` a sweep is one
step; a tick reads a page of the roster, upserts, invites, reads the log page by page
from `cursor` and polls each event; the cursor moves in the statement that makes the
run a success. `Hook` delivers an event late, twice or never. Whoever left may be hired again, and may be in Google
Workspace too, whose tick (`GoogleTick`) knows nothing of Okta's leavers; `returned` records whom it put back.

### Connectors

A walk is the token, `stored` what its pages committed, `world` the vendor's data, which
`Move` changes between any two pages. Each vendor has the phases of its connector with
the requests of one page as one step: GitHub's roster, bills, day reports, search and
pull requests with their queue; Cursor's cycle and events keyed by millisecond with a
count; OpenAI's users, keys, priced usage and cost lines; Anthropic's keys, costs and
analytics; the issue timelines of Linear and Jira. `moved` names what changed since the
last walk began: a ledger must agree with the vendor on whatever has not. A request
that fails, a strict parse that refuses and a death leave the token, so they are the
same as no step.

### The parts of MCOperations

An initial state picks the part that runs; the others stand still. One run can so ask the same question of
each, and each keeps its own variables. The parts share no variable, except that `Settings` extends `FxRates`.

- `Alerts`: a tick's checks, `Claim` (an INSERT that wins once), `Deliver` (memory only; `Restart` loses it), which
  mails every entry of the list, a repeated one too, up to the first call that fails.
- `Survival`: `Pass` lists the oldest due pull requests, reads each with a step per answer of GitHub (`LookUp`, `FindCommit`,
  `ReadFile`), between which its repository may go, and inserts a row per horizon; the base branch is a sequence of trees,
  and `FileAlive` counts added lines still in a file of one.
- `LedgerReaders`, `RoiReaders`: every number of a page is an operator on the tables. The
  tables change, `Rebuild` is a recompute, `ExportBatch` one query of the export.
- `Wrap`: both SDKs' observers, read chunk by chunk by one consumer that may stop, close, drop or be failed.
- `Access`: each handler of the credential and user routes, cut at its statements; deleting a login cascades, and so does
  deleting its person for good (`HardDelete`), which counts no admins.
- `RateLimit`, `FxRates`, `Settings`, `Reports`, `Migrate`: see their headers; the unit is
  a statement, a request to the outside, or a transaction. An audit entry that cannot be written is swallowed (`Settings`);
  a mark may not be stored, and a mail may arrive though its call failed (`Reports`); creating a database is a look and an
  insert, and the second of two is refused (`Migrate`).
- `Lifecycle`: onboarding answers, `Seed` and `Wipe` as transactions, `Connect` and
  `Disconnect` as their statements; `hanging` are real rows on demo people and products. The recompute that follows a seed
  or a wipe deletes, reads and commits in steps of its own, beside another one's; `dataset` numbers what was seeded,
  `counted` is what the committed rollups count.

## Runs

| Run | Checks | Shows |
|---|---|---|
| `SyncEngine_runs` | OneRun, WindowsCover, StoredNeverRegresses, PullsIncrementally, CatchesUp | two overlapping callers, a restating vendor, a fault: one run at a time, no day skipped by watermark or token, rows never go back, the engine implements `IncrementalPull`, and every open window is finished |
| `IssueLedger_runs` | CountsMatchTracking, VerdictsAreEarned, CleanRunsPromoteRightly, LedgerCatchesUp | issues through submissions, regressions, completions and edits, on pages of their own; a run dies in between; the ledger ends up saying what each history says |
| `SdkIngest_calls` | EmployeeFactsExact, AckedIsIngested, BuffersDrain | two processes, two employees named in opposite orders; requests fail, are abandoned, deadlock, run beside their retries, and the buffers still run empty |
| `SdkIngest_outcomes` | BufferSound, OutcomesNewest, ImplementsClient | an outcome restated three times while the buffer overflows and requests are lost and repeated |
| `Rollups_overlap` | UndercountIsOwed, CountedOnceApart, RecomputesEnd | overlapping recomputes, a sync, the prune: no recompute undoes what another counted, a row is counted twice only on a day two of them rebuilt at once, and every recompute ends |
| `Rollups_settled` | SettledDaysExact | callers that overlap on other days, failures and crashes: a settled day is exactly its rows' groups |
| `Attribution_races` | FactsMirror, ConfirmedStays, SyncsCatchUp | pages, events and promotions against every admin operation on two connections that wait, deadlock and fail |
| `Offboard_sweeps` | RemovedIsGone, OnlyOverlapsUndo, LeaversLoseAccess | sweeps, retries, invites and minting at once, vendors that fail, merges, deaths |
| `Directory_ticks` | NoEventSkipped, InvitedOnce, LeaversAreOut | overlapping Okta ticks, hooks and a Google roster that shares a person with Okta's, while people join, leave and come back |
| `Billing_months` | DriftIsAdjustment, SeatsBill, CallsEnd | imports, syncs, prices and deletions at once |
| `Connectors_walks` | VendorLedgers, IssueTimelines, WalksEnd | each connector walks its vendor twice while the vendor's data changes |
| `Operations_parts` | MessagesHold, NumbersAgree, SignInsHold, InstanceHolds, StepsAreFinal, WorkGetsDone | the parts of `MCOperations`, one at a time |

Type invariants (`TypeOK`) are conjuncts of one safety invariant of a module, or proved below.

Bounds, and why they are enough:

- `SyncEngine`: two callers (a third only waits for the same lock); history of two
  days, re-pull of one; the clock goes from day 2 to day 5, so an outage can exceed the
  history; each day may be restated once while the clock is young (`Small` of `MCSyncEngine`);
  one fault, which suffices to leave a dead run and resume it.
- `IssueLedger`: three statuses, one of each kind; two ticks a day, so that an edit can fall on
  the window's day or after it; a window of two ticks and three touches (submit, regress or
  done, edit) for the first issue; the second one, and pages of one issue each, live through the first two ticks
  and touches.
- `SdkIngest`: two request slots, the fewest in which a retry meets its abandoned request; two events
  per process, enough for opposite lock orders, and one fault (calls); a buffer of three, five
  events, three statements of an outcome, one rejected event, four faults (outcomes). Slots are
  symmetric there, since no property of that run is a liveness property.
- `Rollups`: four raw rows over two days, two identities, both tables; two callers and three changes; `overlap` with one
  person, a row without a rate and a prune of both days, `settled` with two people, one fault and a prune of the first day.
- `Attribution`: two connections, two people (one imported at the start), one identity that
  carries the other's address, one tag, one ROI and the one outcomes come with, two admin operations, one failure. The rows of an
  identity never influence each other, so one is enough unless a page brings two (`MaxRows`). Two operations
  make a confirm and a merge, or two competing owners; a page needs no budget and may come at any time.
- `Billing`: three months with the clock in the second, two CSVs that list two months in opposite
  orders, two plans, three calls by two jobs: any two operations overlap, and a third follows.
- `Offboard`: two people (to merge), a key, and an identity that can be granted; two sweeps or invites, one
  fault, one death; two jobs.
- `Directory`: two people in Okta at first, of whom one is in Google Workspace too; two leaver events, so that one person can
  leave, be hired again and leave again; one fault, two runs at a time, which are symmetric.
- `Connectors`: two walks, so that the second meets what the first stored; two changes of the
  vendor's data, at any time; caps, pages and chunks of one or two elements, so that lists have more than one page.
- `Operations`: two ticks, requests, fetchers, rounds or handlers at a time, three boots; one or two of every
  fault; two days or months, so that every one of them ends once. `Alerts` starts either loud (spend, edits, links
  to come, no mail) or quiet (all used up, mail configured); five starts in `Access`, the fewest that
  take two logins, two removals and a sign-in.

Fairness:

- `SyncEngine`: weak fairness of each caller's progress. The scheduler
  calls every five minutes for as long as the process runs, and an answered
  statement is followed by the next one. Only bounded faults stand in the way.
- `IssueLedger`: weak fairness of the run, for the same reason.
- `SdkIngest`: the flush timer posts, the server works; strong fairness of
  the identity's and the fact's upsert, since PostgreSQL queues waiters and each gets the row in
  turn: without it two processes could deadlock and retry for ever.
- `Rollups`, `Billing`: weak fairness of each transaction's next statement.
- `Attribution`: strong fairness of each connection's next step (lock queues),
  and of a page that describes each identity (every hourly sync does).
- `Offboard`: weak fairness of each job; strong fairness of some retry of each identity's live item, which is somebody pressing
  the button again: the sweep itself promises no more than that.
- `Connectors`: weak fairness of the next page. Failed requests leave the token, and the next run resumes at it.
- `Operations`: weak fairness of the steps of the part that runs, for `Alerts`, `Survival`, `FxRates`,
  `Reports` and `Migrate`, whose ticks the scheduler repeats. The other parts have no liveness property.

Deadlock is checked for `SyncEngine` and `IssueLedger`, whose schedulers never stop. The other
runs say `CHECK_DEADLOCK FALSE`: with its bounded changes used up their system rests.

## Proofs

For every value of the constants that meets the modules' named assumptions:

| Module | Theorem | Property |
|---|---|---|
| `SyncEngine_proofs` | TypeCorrect, OneRunAtATime, WindowsLeaveNoGap, RowsNeverRegress | TypeOK, OneRun, WindowsCover, StoredNeverRegresses |
| | ImplementsIncrementalPull | PullsIncrementally |
| | MonthsSumToInvoices, SeatsBillOnce, from BillingInvariance | DriftIsAdjustment, SeatsBill of `Billing` |
| `SdkIngest_proofs` | ClientInvariance | the strengthened invariant ClientIInv of `SdkClient` |
| | ClientTypeCorrect, BufferKeepsNewest, NothingIsLost, DeliveryInOrder, and all of them: BufferIsSound | ClientTypeOK, BufferIsNewest, NothingVanishes, DeliversInOrder; BufferSound |
| | IngestTypeCorrect, IngestImplementsClient | TypeOK, ImplementsClient |
| | DeliveredIsIngested, EmployeeFactsSumUp, from DeliveryInvariance | AckedIsIngested, EmployeeFactsExact |
| | OutcomesStayNewest, from OrderInvariance | OutcomesNewest |
| `Connectors_proofs` | TablesAgree, VerdictsEarned, from LedgerInvariance | CountsMatchTracking, VerdictsAreEarned |
| | CleanRunsPromote, from CleanInvariance; assumes `Young` | CleanRunsPromoteRightly |
| | IssuesJudged, from BoardsInvariance | IssueTimelines |
| `Vendors_proofs` | OpenAiBooked, AnthropicBooked, GithubBooked, CursorBooked, from OpenAiInvariance, AnthropicInvariance, GithubInvariance, CursorInvariance | OpenAiLedger, AnthropicLedger, GithubLedger, CursorLedger |
| | VendorLedgersHold, from these four | VendorLedgers |
| `Rollups_proofs` | NothingUndercounted, from Invariance | UndercountIsOwed |
| | NoDoublesApart, SettledExact, from CalmInvariance | CountedOnceApart, SettledDaysExact |
| `Attribution_proofs` | AttributionType, HistoryFollows, ConfirmationsStand | TypeOK, FactsMirror, ConfirmedStays |
| `Directory_proofs` | CursorSkipsNothing, HiresInvitedOnce, LeaversStayOut, from Invariance | NoEventSkipped, InvitedOnce, LeaversAreOut |
| `Operations_proofs` | InstanceIsSound, SignInsAreSound, MessagesAreSound, FinalStays, from PartsInvariance | InstanceHolds, SignInsHold, MessagesHold, StepsAreFinal |
| | AccessIsSafe, LimiterThrottles, MigrationsAreSafe, LifeIsSafe, AlertsAreSafe, ReportsAreSafe | the same of `Access`, `RateLimit`, `Migrate`, `Lifecycle`, `Alerts`, `Reports` by themselves |
| | RemovedStaysGone, UndoneByOverlaps, from OffboardInvariance | RemovedIsGone, OnlyOverlapsUndo of `Offboard` |

One theorem has a hypothesis on the constants that its run's configuration meets:

- `Young`: the clock ends before the board is older than the vendor's history limit. Past it, `computeWindow`
  may begin a window after the watermark (`sync.ts:641-655` takes the later of the two), and an issue updated in between is
  promoted unread. While it was unproved `CleanRunsPromoteRightly` seemed to need no such condition: no run was long enough.

The arguments:

- **SyncEngine.** Coverage is not inductive: it depends on the window in the cursor and
  on what runs hold in memory. `IInv` adds that an owner past `Open` has a row (`RowOpen`);
  that a window in the cursor lies in the past and starts early enough to leave no hole
  when served (`WindowPlanned`); that a run's window and watermark are its row's
  (`JobFollowsRow`), which needs `LockExclusion`; and that a page in memory is no older than the
  stored rows and no newer than the vendor's (`PageFresh`, `StoredBehindVendor`), from which rows never go
  back. The refinement follows: `Commit` is a `Pull`, clock and restatements are
  `Environment`, the rest stutters.
- **SdkClient.** The batch in flight is a run of consecutive events; unless the buffer is
  full it is the run just before the buffer (`BatchIsRun`), and what was acknowledged is older than
  both (`AckedFirst`). With that, putting the batch back at the front and cutting the
  oldest gives the newest again.
- **SdkIngest.** Types, with `ClientIInv` as part of the invariant, and the step-wise refinement
  of `SdkClient`: each server step answers or leaves the client alone. Then `DeliveryIInv`: one transaction at a
  time holds an identity (`Exclusive`); the calls a request inserted for an employee are under the lock it holds, and
  the sum it took of a bucket is what it will see when it commits (`Guarded`), so facts are exact; and the request a
  client waits for still carries, or has ingested, all of the batch (`Awaited`), so an acknowledgement is true. For
  `OutcomesNewest`, `OrderIInv` adds the order in which the events of a client whose buffer has dropped none arrive:
  every request works through a run of events, preceded in the ledger or in its own inserts by all earlier ones (`InOrder`); of a
  batch and its abandoned retries one at most has anything new (`OneHasNew`, by the unique key on the UUID); the ledger has no
  gap (`NoGap`).
- **IssueLedger.** `LedgerIInv`: a tracking row is borne out (`Backed`) by the history as it is now, and by every earlier
  reading of it a page in memory carries; a history only grows, so a later reading confirms a decided row, which makes
  verdicts final. The first times of a history are minima over a set of times, whose existence is the least-number
  principle (`LeastNat`). `CleanIInv` adds what the watermark means: of an issue not updated since,
  the row is fresh (`Marked`); the same of the window's end for issues already read (`InProgress`) and for those a page
  brings (`PageHolds`); so when a clean run promotes, it has met every regression its clock has passed (`CleanSoFar`).
- **IssueBoards.** `PassedAreJudged`: unless the board moved since the walk began, every issue whose place is not after the token is stored with the
  verdict on what happened to it. What happened is a set; what is served is a sequence, cut, and in either order. A history is a `Chronicle`: its
  instants are distinct and ascend, and each move begins where the last one ended. So ranking the served moves by their instants gives one entry per rank
  (`SortedIs`), of which the first one's origin is where the issue was created (`TimelineIs`), and the first place of an ordered timeline with a
  wanted status is the least instant of one (`FirstInTimeline`, `DistilledIsVerdict`). A page judges the one issue ahead with the least place, so the token
  passes no other.
- **The vendors' walks.** Each invariant says, phase by phase: what the token has passed is stored as the vendor has it, or is still in the token,
  unless its aspect of the vendor moved since the walk began (`moved`). A walk that is over has passed everything, which is the ledger.
  - *OpenAI.* Lists are passed up to a cursor, usage and costs with their day. A usage row's estimate is worth its tokens at their prices
    to half a cent: the sum over lines splits by kind (`SumSplits`), and is rounded once.
  - *Anthropic.* A record of analytics is passed with its day, or with the page of its day it is on. Records of one key
    overwrite each other, so the sessions are the vendor's for those that are alone (`Alone`; SessionsCounted is the rest).
  - *GitHub.* A month's credits are asked user by user: what was attributed is the sum over those asked so far (`CreditsAsked`), so the remainder
    makes the month's facts the bill. Of a daily report the links not yet read are in the token (`LinkAhead`). A pull request is
    passed with its rank among those the search finds (`PRPassed`): others that join push it back, never forward, so no page skips it.
  - *Cursor.* While no page can shift, a chunk's page is a segment of the events, beginning where the last one ended. The counts in the
    token say, for every charge that may still come, how often the chunk has served it (`Tally`): counts of an earlier millisecond may be
    dropped, because events come in time order. So the keys a page books are those of its places in the whole chunk (`BookedCounts`, by the least-number
    principle on the places of a page), and a key of a passed event is never given to another. Events appended meanwhile come after those served.
- **Rollups.** A counted row is not enough: a recompute under way may delete the count. `Cover` says each row is
  in a rollup row that every recompute which has it down as deleted will count again (`WillCount`: its insert is
  still to read, has read it, or has run), or the recompute of its own change will. `Apart` keeps row ids from meeting. For exactness
  `CalmInv` speaks of the days that were never `crossed`: of recomputes under way on them there is one at most (`Parted`), the span it has
  deleted is clear (`Cleared`), what it has inserted are whole groups (`Filled`), and a day that no recompute touches, with nothing owed and
  not pruned, is exact (`Exactly`).
- **Attribution.** `IInv` is TypeOK, what each transaction carries (`TxOK`), that no row is locked for update twice
  (`LocksInv`), `FactsMirror`, which says of each row by whom it was attributed, and `RowOK`: a page past its upsert holds the lock of its identity's row, so what it made
  of the row still fits the committed one when it writes, and a sweep it skips has nothing to do.
- **Billing.** A true-up reads a month's base in one statement and writes the adjustment in another. `Sound` says of every
  transaction that what it has read, or is about to commit, is still so unless something else was committed meanwhile (`disturbed`); `Apart`
  that no two transactions hold the seat (`OneSeat`: there is one, or none), delete the same fact or insert the same key; `Keyed` that a seat
  has one fact a month. So a commit nobody disturbed leaves its months `Settled`, and its seat with the facts its plan owes
  (`Bears`). A sum of facts changes by what is added or taken away (by the least-number principle on the size of the set).
- **Offboard.** `RemovedIsGone` needs that between the vendor's confirmation and the last update the access is gone
  (`Confirmed`), whoever else works on the item; one live item per identity is the partial unique index.
  `OnlyOverlapsUndo` needs that a job which can still turn a removed item to failed took it before it was
  removed (`HeldIsExposed`).
- **Directory.** `Walk`: a run has polled everything between its start and its place. `Lines`: polls behind the
  cursor leave no hole, and every run in flight continues such a line; the delicate case is runs that began without a cursor, of which
  the latest started counts. `Leavers`: whoever is active though their event was polled was put on the
  roster by a run that cannot end before it has come to the event itself (`Owes`), which needs that full log pages are followed by a next one.

- **Operations.** A behavior of `MCOperations` is one of each part (`StepOfEach`), so each part is proved from its own
  initial states and steps, and `PartsIInv` is the conjunction.
  - *Access.* `OneRemoval`: unless two removals overlapped there is one at most (a hard delete is one), and when it is about to delete or demote an
    admin it has counted, there is another one, since nobody else takes any away. `ClaimCount`: claims are at most the times the last admin went, and
    one more while there is an admin, because the claim looks under its lock. `OnceIInv`: ids of challenges and links are below the next
    id and all different, and none that is left was used. `OwnIInv`: whoever is about to register a passkey does so with their own challenge.
  - *RateLimit.* The last attempts of a key, as many as its window counts up to the limit, are of that window; those before it are not later than its
    start, and all of them but the limit a window earlier (`Within`). Without a window all attempts but as many as the limit are a window ago
    (`Idle`). So an attempt and the one that comes twice the limit after it are a window apart (`Gap`).
  - *Migrate.* `LockedIsFresh`: who applies files holds the lock, and has read what is applied; so the file it runs is new, and
    those before it are done. That there is a least one missing is the least-number principle. A boot fails over a broken file, or is
    one of `collided` until it is restarted.
  - *Lifecycle.* Without the marker what is left of the dataset is real (`Unmarked`); unless a seed and a connect were under way at once, a marker means
    that nothing is connected and that every connect is still before its wipe (`Apart`). Unless the process died, a recompute failed or two crossed, one
    rebuilds at a time, what it deletes are all rows that stand, and who has changed the demo facts is about to recompute (`Recounted`); credentials come before the connector's row and go after it (`InOrder`).
  - *FxRates, Settings.* Who fetches holds the lock, and nothing stored is of a newer feed than the one just read (`ReadIsNewest`). A currency that
    passed the check still converts when it is saved (`CheckedConverts`), since no rate is deleted; what is set is the default, audited, or was stored by
    a request that has not answered, or that could not write its entry (`AskedFor`); a schedule is set only if a licence was before (`LicensedSchedules`).
  - *Alerts.* What is in the outbox is claimed, and no destination that may still get it has it (`Delivered`), so the unique key of `alert_state` makes
    the one delivery, which mails each entry of the list once. A claimed limit was crossed (`Justified`) and stays crossed, by a limit the person had, because spend and clock
    only grow: sums over more days of larger amounts are larger. A tick's memory is sound too (`SoundTick`): what it has listed was crossed, a lower
    threshold comes before a higher one or is claimed already, and a connector it found silent today still is, unless it has been synced or linked since.
  - *Reports.* A round that has sent has sent a copy of its month (`SentIsCopied`), so its mark is earned. While rounds do not overlap, one sends, of a
    month that is not marked (`OneSends`); then what a recipient has of a month, with what the round has still to send them, is at most as
    often as a list names them, once more for each restart that cut a round off and each mark that was not stored, and once for each mail that
    arrived though its call failed (`CopiesBounded`).

The assumptions on the constants are named in the modules, and TLC evaluates them: placeholders such as `NoUser` are
none of the values they stand beside, a login's ids are `1..n`, a request to the settings has at least one key of `SETTING_DEFAULTS` (the route refuses
an empty body), limits are natural numbers, months are an interval. `AlertsAssumption` also says what `Alerts` leaves out: spend arrives and is not restated
downward. If it were, an alert that was right when it was sent would stand beside a smaller number.

The vendors' assumptions: no two Anthropic users have addresses that differ in case only; GitHub has finitely many users, and a spender once listed in a month's
bill stays listed, at no cents too; Cursor's events have the instants of the window and are stored in time order, and what happens later has a later or the same
instant. A page token is never the value that stands for none.

Only model-checked: liveness (`CatchesUp`, `LedgerCatchesUp`, `BuffersDrain`, `RecomputesEnd`,
`SyncsCatchUp`, `LeaversLoseAccess`, `CallsEnd`, `WalksEnd`, `WorkGetsDone`), which needs fairness and ENABLED,
and `NumbersAgree`, whose pages are compared as sums of joins, grouped, rounded and reordered by folds over sets of rows.

## Divergences

Where a comment of the source promises more than the code does, the promise is a
property of its module, and TLC shows how it breaks: take the configuration, put the
property in place of its properties (an invariant unless it says PROPERTY) and make the
changes. They are no runs of `PROJECT.json`.

| Property | Configuration and changes | The source says | The code does |
|---|---|---|---|
| EverySyncRereadsTail | `SyncEngine_runs`: `Spec`, one caller, MaxVersion = 0, LastDay = 4, CHECK_DEADLOCK FALSE | `sync.ts:44` "every sync re-reads this many trailing days" | a run that resumes an old window reads nothing after it (`:698`); the next one does |
| EverySyncTruesUp | the same with `SpecMidRunDeaths` | `invoices.ts:29-32` it recomputes "after every connector sync that wrote facts into an invoiced month" | `factSpan` dies with the process; pages committed before are not trued up (`sync.ts:720`) |
| BackfillsAfterConnect | the same with `SpecQuietAdmin`, MaxConnects = 2 | `sync.ts:29-30` "First sync after connect: full backfill" | a disconnect keeps `sync_runs`, so a reconnect starts from the old watermark (`:696`) |
| PromotionsAreUntouched (PROPERTY) | `IssueLedger_runs`: `Spec`, one issue, LastTime = 5, MaxTouches = 4 | `sync.ts:749-752` a pending row that survived the pages "really did pass its window untouched" | a resumed run, or one whose filter no longer matches the issue, promotes it all the same (`issues.ts:335`) until a later run sees it |
| FactsExact | `SdkIngest_calls`: `Spec`, BucketOf <- SharedBucket, OwnerOf <- NobodysBuckets, Employees = {ann}, MaxEvents = 1, MaxFaults = 0 | `ingest.ts:600` "Re-derive every touched call bucket from ALL its events: idempotent" | two requests of one key sum an unassigned bucket without the other's uncommitted events; the second write wins until the bucket is touched again (`:603`) |
| RetriesAreSafe | `SdkIngest_calls`: `Spec`, Clients = {c1}, BucketOf <- OneCall, OwnerOf <- NobodysBuckets, Employees = {ann}, MaxEvents = 1 | `api/ingest/route.ts:17` "retries are safe" | a recompute that fails after the commit is not repeated by the retry, which finds only duplicates (`ingest.ts:648`) |
| CountedOnce | `Rollups_overlap`: `Spec`, NoRate = {}, LastCutoff = 0 | `rollup.ts:11-12` "re-runs are idempotent" | two overlapping recomputes can both leave their rows (`:139`) |
| HistoryKept | `Rollups_overlap`: `Spec`, one caller, NoRate = {}, MaxChanges = 4 | `retention.ts:8` "daily rollups keep forever" | a recompute that spans pruned days deletes their rollups and rebuilds nothing (`rollup.ts:139`) |
| SyncedIsCounted | `Rollups_overlap`: `Spec`, one caller, NoRate = {}, LastCutoff = 0, MaxChanges = 2 | `scheduler.ts:26` alerts fire "on the data that just landed" | `runSync` recomputes no rollups (`sync.ts:418`) |
| NoFakeNumbers | `Rollups_overlap`: `Spec`, one caller, LastCutoff = 0 | `rollup.ts:16-17` a currency without a rate "aborts the recompute - no fake numbers" | the check is a statement of its own; a row committed after it drops out of its sum (`:118`) |
| OutcomesMirror | `Attribution_races`: `Spec` | `sync.ts:327` "facts/metrics/outcomes always mirror their identity" | an outcome gets the ROI of its kind after its page has swept (`sync.ts:504`), an event the ROI of its key (`ingest.ts:588`), until the identity is swept or moved again; a promotion attributes by an unlocked read (`issues.ts:329`) |
| RememberedWins (PROPERTY) | `Attribution_races`: `Spec`, Ids = {k1, k2}, Sessions = {s1} | `resolve.ts:13-15` a remembered email "auto-maps from then on" | an import's match looks at the roster only and gives the identity to a newcomer (`people-import.ts:181`) |
| NoMergedOwner | `Attribution_races`: `Spec`, Imported = {ann, bob}, MaxChanges = 1 | `resolve.ts:454-455` future spend "lands on the survivor too" | the person is read unlocked, and may be merged away before the identity is mapped to them (`:309`) |
| MergedStaysMerged (PROPERTY) | `Attribution_races`: `Spec`, Imported = {ann, bob}, Sessions = {s1} | `people.ts:656` "nothing can re-identify or auto-rematch them" | deleting the survivor of a merge un-merges the other row (`:675`) |
| AdjustmentFollowsInputs | `Billing_months` | `invoices.ts:29` it "recomputes wherever its inputs change" | a sync that commits between an import's read and its commit, and a seat, change a month whose adjustment stays (`:464`, `:359`) |
| DeletedSeatsBillNothing | `Billing_months` | `seats.ts:227` "Remove a seat and the ledger rows it produced" | a seat repriced meanwhile leaves fees without a seat (`:243`) |
| OngoingSeatsBill (PROPERTY) | `Billing_months`: Scheduled = FALSE, MaxCalls = 1 | `seats.ts:265` "an ongoing seat grows its current-month fee as the calendar advances" | nothing calls `materializeAllSeats` |
| RemovedIsFinal (PROPERTY) | `Offboard_sweeps`: `OffboardSpec`, MaxFaults = 0, MaxStops = 0 | `provision.ts:338` "removed items stay listed forever" | a second sweep that still holds the item may turn it to failed (`:450`) |
| SweepsTryAll (PROPERTY) | the same | `provision.ts:480` "plan an item for every piece of current access … then remove every item at its vendor" | items planned for somebody merged into the person are not run (`:533`) |
| MintedIsActive (PROPERTY) | the same | `provision.test.ts:666` "invites and minting refuse offboarded people" | the check is before the vendor's call (`:268`) |
| BackstopHolds (PROPERTY) | `Directory_ticks`: `FairSpec`, Ticks = {t1}, GoogleUsers = {}, no symmetry | `events/route.ts:18` the poll is "the backstop for anything that fails here" | an event whose sweep threw is behind the cursor (`okta.ts:383`) |
| HiresAreInvited (PROPERTY) | the same | `okta.ts:21` "auto-invite on hire" | a run that created the person and died has invited nobody, and the next one did not create them |
| MonthSumsToBill | `Connectors_walks`: Vendors = {"github"}, MaxChanges = 3 | `github.ts:54-57` dollars are "never dropped" and sum to the bill | a user who loses the seat keeps the fact of an earlier walk, and the remainder counts the dollars again |
| GoneIsSkipped (PROPERTY) | the same | `survival.ts:275-284` skips what is gone | the connector throws on a queued pull request that is gone, in every run |
| LedgerIsBilled | `Connectors_walks`: Vendors = {"cursor"} | `cursor.ts:59-63` "so the ledger sums to what Cursor bills" | served newest first, an event that arrives between two pages repeats the last one as #2 of itself; a charge taken back keeps its fact |
| TokensCountedOnce | `Connectors_walks`: Vendors = {"openai"}, MaxChanges = 3 | `openai.ts:517-519` "storing the billed version too would double count" | a token line kept before its model's price was pinned stays beside the estimate |
| SessionsCounted | `Connectors_walks`: Vendors = {"anthropic"} | `anthropic.ts:557-558` "the same person can show up once per terminal per day" | with a key and a subscription in one terminal there are two records, and the second overwrites the first |
| EarlyHistoryDecides | `Connectors_walks`: Vendors = {"issues"}, MaxChanges = 3 | `linear.ts:49` "The machine's decisive events are early" | a completion after the cut of the history is not seen |
| ClaimedIsTold (PROPERTY) | `Operations_parts` | `limits.ts:75-76` once "per threshold per month, exactly (spec 9)" | what is claimed is lost with the process, or with its one delivery |
| ExactlyOneSend | `Operations_parts` | `scheduled-reports.ts:17-18` "exactly one send per month" | overlapping ticks, a death between the mails and the mark or a mark that is not stored send it again, also to whom a call that failed had reached; a list may name an address twice |
| EndsAreCounted | `Operations_parts` | both SDKs record a stream that ends | TypeScript loses a stream that breaks off with an error, Python one that is left without being closed |
| AlwaysAnAdmin | `Operations_parts` | `api/users/[id]/route.ts:12` "Never the last admin" | two admins remove each other at once: both counted two; and deleting the last admin's person for good takes the login along, uncounted (`people.ts:675`, `001_core_schema.sql:485`), though `people.ts:650` calls the users unrelated |
| AlwaysThrottled | `Operations_parts`: MaxForgets = 2 | the limiter lets MaxAttempts through per key and window | the map is cleared when it is full of windows that are not over |
| RejectedStoresNothing | `Operations_parts` | `api/settings/route.ts:133-134` a file that does not verify "is rejected before anything is stored" | the keys before it in the request are saved by then |
| NothingRealGoes (PROPERTY) | `Operations_parts` | `demo.ts` keeps "any person or product that real rows reference by now" | logins and offboarding items of demo people go by CASCADE, seats and tag settings are deleted with them (`:1038-1043`) |
| NeverMixed | `Operations_parts` | no demo data beside a connected vendor | a seed checks the connectors before its transaction (`demo.ts:271-284`) |
| WipedIsNotCounted | `Operations_parts` | `demo.ts:996-1001` the wipe takes the demo dataset | the recomputes of a seed and of the wipe overlap, and what the first one read stays in the rollups (`rollup.ts:139`) |
| ForwardOnly (PROPERTY) | `Operations_parts` | `onboarding.ts:30` "Forward-only" | two answers cross: the later statement wins |

More of the kind, seen while reading, without a property of their own:

- `overview.ts:18` says a tile and its drill-down "sum to the same number": in a display
  currency other than the facts' they differ by roundings (`Near`).
- `reset-admin.mjs:6` "minting a new one voids any unused older link": two concurrent runs leave two
  links; and it takes the first admin the database returns.
- A death between the wipe's commit and its recompute leaves the rollups of demo data; a kept demo person makes another
  seeding a conflict.
- An address that stands twice in the list of alert recipients is mailed every alert twice (`alerts.ts:122-127`; the settings route
  does not take doubles out).
- A repository that goes, or the access to it, between two files of a survival check leaves a final row that counts the rest as deleted
  (`survival.ts:269`), though `survival.ts:275-284` gives what is gone a row without numbers.
- An audit entry that cannot be written is logged and the request answered as if it had been (`audit.ts:32`), though `audit.ts:6` promises every settings change.
- Two first boots at the same moment may both find no database; the second one's CREATE DATABASE then fails with 23505, and only 42P04
  is tolerated (`migrate.mjs:84`). Its restart goes through.
- Google Workspace's tick puts people back on the roster whom Okta has let go (`google.ts:273`). `Directory` starts from people nobody has hard-deleted.
- Two overlapping first Okta ticks, which have no cursor yet, skip an event published between their starts.
- Connect and disconnect interleaved leave a connected row without credentials (`connect.ts:86-98`, `:109-113`).
- `fx.ts` never marks a run dead: one that is 'running' makes the next fetch wait for six hours.
- A failed recipient of the monthly report is not retried once somebody got it.
- `jira.ts` would page for ever over projects if the vendor sent an empty page that is not the last.
- PATCH settings leaves no audit entry of what it had saved when it fails half-way.

## Not modelled, and the plan

Left out, with the reason: the product and tag catalogue, lists and search (forms that read and write one row, and
paging); secrets, passwords, PDF and texts (cryptography, formatting); routes and web interface (they validate and
call the library; React); the CSV parsers, HTTP clients, strict parsers' field lists, mail providers, and generated or
vendored code (no state). Of the modelled components: manual tags, `counts_personal` and archived ROIs in
`Attribution`; project routing and a changed window length in `IssueLedger`; amounts and token kinds
other than those a property tells apart; the origin checks in `Access`; a page is several queries without a snapshot, which
`LedgerReaders` evaluates at once.

Next, in this order:

1. Proofs that wrapped calls are counted once (`Wrap`) and that an export has each fact once (`RoiReaders`).
2. `SyncEngine!Commit` with the rows a connector's page writes, so that `Connectors_walks` can be run through the engine's deaths.
3. Pages read query by query in `LedgerReaders`.
