# DataLume: a verification development

TLA+ models, model-checking runs and machine-checked proofs about
[DataLume](../src/README.md), a multi-tenant property-data platform: a FastAPI
API (`src/apps/api/app`), PostgreSQL with row-level security, Redis sessions, a
polling worker and a Next.js client. Source paths below are relative to
`src/apps/api/app` unless they start with `src/`.

What can go wrong in DataLume and hardly shows in a test is what happens when
transactions of several actors meet: requests of users, the nightly and manual
scans, the worker, and Stripe. One request is one session on one connection
(`core/db.py:38-48`, no autoflush), at READ COMMITTED; a handler that raises is
rolled back by the session's close; the worker runs three jobs one after
another on every tick (`worker/main.py:114-144`). The models are about these
transactions: what they read and then write, their row locks, their unique
indexes, their savepoints, the order of their statements, and what is left when
one of them dies.

## 1. Inventory

| Component | State | Operations | What is hard | What makes it correct |
|---|---|---|---|---|
| **Attention engine** `attention/service.py`, `worker/jobs/attention_scan.py` | `attention_rules`, `attention_signals` (partial unique index on live ones) | list, seed and update rules, scan, upsert, triage | a scan is one long transaction while users triage; seeding races; an index race recovered in a savepoint | one live signal per (rule, entity); dismissals respected; triage never undone; an inactive rule silent; nobody waits for ever |
| **Reference engine** `identifiers/service.py` | `reference_patterns` (format, next_sequence), referenced tables | generate_reference from every create and import, change a pattern, list | bootstrap race, counter lock, rollback, pattern change in flight, patterns that do not render | numbers unique and gap-free; named with the pattern in force |
| **Ingestion** `ingestion/pipeline.py`, `router.py`, `worker/jobs/ingestion.py` | `import_jobs`, `import_rows`, created entities | upload, map, re-map, hand over, import per tick | worker against requests on the same rows, half-done imports, a queue blocked by one job, restarts | one entity per imported row; entities only with their job's verdict; a job handed over gets a verdict |
| **Commercial** `commercial/` | tenants, leases and their audit trail, obligations, payments, allocations, the reconciliation config | lease statuses, record and match a payment, resolve, allocate by hand, arrears | automatic matching under a row lock, its bootstrap race, manual paths without a lock | money counted once; no obligation settled twice; a confirmed match final; a lease's trail its history |
| **Compliance** `operations/compliance` | versioned requirements, applicability, inspections, actions | status engine, versions, assurance report | dates and their boundaries; two code paths for one answer; two versions at once | one current version; the report agrees with the pages; time alone never improves a status |
| **Hazards** `operations/hazards` | hazards, hazard actions, rule config | register, status by table, repeat hazards | unlocked read-check-write; signals computed from rows that close | completion dates mean completion; signals outlive closing |
| **Repairs** `operations/` | repairs, rule configs | register, status by table, three repeat rules, bulk figures | bulk and one-entity computation of one rule | they agree |
| **Documents, specifications, change control** `documents/router.py`, `development/service.py` | version lineages, change controls | upload, new version, revise, approve, implement, cancel | unlocked SUPERSEDED check; a COUNT-based reference | one current row per lineage; the change trail accurate |
| **Hierarchy and registers** `development/service.py` | developments to spaces, components, warranties, defects, building control, surveys, external references | create, import, status by table | optional links at several levels that must agree | the hierarchy view counts every property once |
| **Handover** `development/handover.py`, `service.py:1530-1620` | check weights, handover records, property status | readiness score, authorise, override, status change | rounding before the threshold; concurrent authorisation | a property handed over has its record; none below full readiness without a reason |
| **Data health** `data_health/` | findings | compute, replace | every read replaces what is stored | the findings of one run |
| **Configuration rows** the `get_or_create_*` functions of every package | one row per code | seeded and locked by whoever reads them first | a request reads several of them, and keeps every lock | requests cannot wait for one another in a circle |
| **Worker loop and reports** `worker/main.py`, `reports/service.py` | `last_scan_date` (memory), `report_jobs` | report jobs, import jobs, nightly scan | a job that raises, an hour that is missed, a restart, a commit refused | every organisation scanned once a day; every report ends |
| **Invitations and memberships** `organisations/router.py` | invitations, users, memberships | invite, open, revoke, accept, expire | expiry, revocation and acceptance overlap | a settled invitation stays settled |
| **Billing** `integrations/billing_provider.py`, `platform/billing.py` | the subscription row | the webhook handlers | events repeated, late, out of order; no tenant yet | the row agrees with Stripe |
| **Tenancy** `core/db.py`, `core/tenancy.py` | connection-scoped organisation setting | set, reset at check-in | a setting that outlives its request | every module here is within one organisation |
| Attention rules, read models, Ask DataLume, entitlements, audit | none of their own, or one insert | queries | the rows they lock, the rows they agree on | in the modules above |
| Authentication, storage, report rendering, migrations, demonstration data, web client | - | I/O, rendering | - | - |

How they meet. Handlers of every domain call `generate_reference` inside their
own transaction, so the reference engine's row lock is held until they commit;
importers do the same once per row, so an import holds the counter of its
entity type until its job commits. The worker drives reports, imports and scans
from one thread (`src/infra/docker-compose.yml` runs one worker and one API
process); a manual scan runs the same function in a request. The scan reads the
other domains' committed tables through eight queries (`attention/rules.py`),
which lock configuration rows on the way. Handover and data health read the
estate and its documents. Audit events are inserts in the caller's transaction.

`PROJECT.json` has the same list with a status for each part and, under
`hazards`, the places in the code where each difficulty bites.

## 2. Modules

| Module | What it is |
|---|---|
| `AttentionEngine`, `MCAttentionEngine`, `AttentionEngineProofs` | scans, seeding, upsert, triage, rule updates; instances; theorems |
| `ReferenceLedger` | abstract: an append-only book per entity type |
| `ReferenceEngine`, `MCReferenceEngine`, `ReferenceEngineProofs` | patterns, creations, imports, changes, listings; instances; theorems, with the refinement of the ledger |
| `ImportPipeline`, `MCImportPipeline`, `ImportPipelineProofs` | upload, mapping, hand-over, the worker's import; instances; theorems |
| `TableLemmas` | what the proofs of the domains share: tables as sequences of rows, sums over finite sets |
| `Commercial`, `MCCommercial`, `CommercialProofs` | leases, obligations, payments, matching; instance; theorems |
| `Requests` | base of the modules below: requests that load, check and later commit, and the calendar |
| `Compliance`, `Hazards`, `Repairs` | the three registers of the operations domain |
| `Operations`, `MCOperations`, `OperationsProofs` | their composition and what relates them; instance; theorems |
| `Revisions` | documents, specifications, change controls |
| `Estate` | the hierarchy and its registers |
| `Handover` | extends both: readiness, authorisation, property statuses |
| `DataHealth` | extends `Handover`: rules and stored findings |
| `Development`, `MCDevelopment`, `DevelopmentProofs` | their composition; instance; theorems |
| `WorkerLoop` | the ticks, the reports, the nightly scan |
| `LazyRows` | the configuration rows and the order in which requests lock them |
| `Memberships` | invitations |
| `Billing` | the subscription row and Stripe's events |
| `Platform`, `MCPlatform`, `PlatformProofs` | the composition of these four; instance; theorems of each and of the composition |

Definitions whose comment starts with "Mutant:" are no part of a model: each is
a plausible bug of the definition after it, and the property named beside it in
`PROJECT.json` fails when it takes that definition's place. Service functions
keep their names; an endpoint is an action in CamelCase.

### AttentionEngine

A row of `row` (a signal) has its committed `status`, the status its lock owner
has written (`next`) and its `lock`; `rule` is the same for the rules. `scan`
and `triage` are the program counters and local variables of the transactions.

| Action | Code |
|---|---|
| `BeginScan`, `SelectRule`, `SeedRule` | `list_rules`: lock or seed each rule, in registry order (`service.py:24-77`) |
| `EvaluateRule`, `RuleDone` | the loop of `run_attention_scan` (`attention_scan.py:32-52`); the rule's query may find any set of entities |
| `SelectLiveSignal`, `RefreshSignal`, `CheckDismissed`, `InsertSignal`, `RecoverWinner`, `RecoverFails` | `upsert_signal` statement by statement (`service.py:149-211`) |
| `CommitScan`, `CommitListing`, `CrashScan` | the commit of a scan or of GET /attention/rules; a dead connection |
| `LoadSignal`, `FlushStatus`, `WriteStatus`, `CommitTriage`, `CrashTriage` | `update_signal_status` and its request (`service.py:117-130`, `router.py:86-99`) |
| `UpdateRule` | PATCH of a rule |

`IndexWait` and `IndexTaken` are the partial unique index of
`attention/models.py:109-118`: an INSERT or UPDATE into it waits for another
transaction's uncommitted live entry, and fails on a committed one.

What the checks show is finer than the comments in the code. Because
`list_rules` locks every rule row until commit, two scans never upsert at once
(`ScansSerialised`), so the insert race `upsert_signal` recovers from needs a
user who re-opens an old signal at that moment. "A DISMISSED signal is never
silently recreated" holds for dismissals that were there when the scan began
and were left alone since (`SettledDismissalRespected`): one committed between the two
queries of `upsert_signal` and its insert does not stop the insert.

### ReferenceEngine and ReferenceLedger

`pattern[k]` is the `reference_patterns` row of entity type `k` with committed
and written values and its lock; `entity` the rows of the referenced tables.
`SelectPattern` and `SeedPattern` are `_get_or_create_pattern`; `CreateEntity`
is `generate_reference` with its INSERT (an import repeats it per row);
`CreateFails` and `ImportFails` are a pattern that does not render, in a
request and in a job; `SetPattern`, `ListNext`, `Commit` and `RollBack` the
rest. A format is abstracted to the digit in front of `{sequence}`, which is
all that decides whether two references look alike. `Settable` bounds which
type a PATCH may give which format, and `Rendering` are the types whose
patterns then all render; only they keep their numbers gap-free.

`ReferenceLedger` is what the engine promises: for each type a book whose n-th
page is the entity with number n; pages are appended and never change.
`KeepsTheLedger` says the engine implements it, with the committed entities
below `next_sequence` as the book, for the types in `Rendering`.

### ImportPipeline

`job`, `row` and `made` are the committed `import_jobs`, `import_rows` and the
entities made from each row; `worker` and `request` hold what transactions have
done and not committed. `BeginMap`, `ApplyMapping`, `WriteJob`, `WriteRows` are
`apply_dataset_mapping` with the order in which its flush takes row locks;
`BeginImport`, `HandOver` are `trigger_dataset_import`; `Tick`, `NextJob`,
`SelectRows`, then `ImportRow`, `RejectRow`, `RowRaises` or `RowPoisons` per
row and `FinishJob` are `process_pending_import_jobs`, `process_import_job` and
`import_dataset`. The four row outcomes are the four ways out of an importer:
an entity, an `ImporterRowError`, another exception, and an INSERT the database
refuses. `Fail` is a lost connection or a restart, `BreakDeadlock` what
PostgreSQL does when a mapping that holds the job waits for rows of the worker
that waits for the job.

`apply_mapping` has no status guard, so a COMPLETED dataset can be mapped and
imported again, and then every entity is created twice. `EntityPerImportedRow`
and `NothingLeftBehind` are therefore stated for jobs that are not mapped again
after their hand-over (`remapped` observes which are).

### Requests that overlap: `raced` and `focus`

Outside the engines above, DataLume's handlers load a row, check it and write
it with no row lock. `Requests` gives such a handler two steps: `Hold` when it
loads what it checks, and a step of its own that commits what it decided from
the values it loaded, naming the rows it depends on in `keys`. The observer
`raced` collects the keys that two requests held at once. Many of the
properties would be false without it, because the code does lose to such an
overlap; each is stated as "unless two requests held *this row* at once", which
says both what the sequential logic keeps and which overlap, and no other,
breaks it. A property that failed for another reason, or for the overlap of
another row, would show.

Composed modules (`Operations`, `Development`, `Platform`) fix a `focus` at the
start: a behaviour follows the requests to one group of components, in
`Development` with those that write what the group reads. Groups that write no
row of one another have no interleaving worth exploring, and the product of
their states would drown those that have.

### Commercial

A clerk is a request or a CSV row in flight. `AddPayment` and
`import_payment_row` go through the steps of `match_payment`: `SelectConfig`
(FOR UPDATE), `MissConfig`, `InsertConfig` or `LoseConfig` for the bootstrap
row, `ReadOpenObligations`, `DecideMatch`, `CommitPayment`. The config row is
the lock that serialises automatic matching, but the request that loses the
INSERT goes on without it: `AutoMatchWithinDue` excepts exactly that.
`ResolvePaymentAllocation` and `AddManualAllocation` read and write without a
lock. `trail` is the audit events of `update_lease_status`, with the time each
handler read. Arrears, age buckets and the collection rate are operators.

Amounts are any integers: `commercial/schemas.py` has plain `int` fields and
`_parse_pence` takes zero and negative cells, so a payment may be a refund, an
obligation a credit note, and a manual allocation may take back what another
one gave. What the two money properties can say has to allow for that. A
payment that is placed (has a MATCHED allocation) counts all its allocations,
the tentative ones too, since that total is what the requests check before
they write; and after a clerk has taken something back from an obligation the
reconciler may settle as much again, so `AutoMatchWithinDue` counts the negative
allocations of clerks with the reconciler's own.

### Compliance, Hazards, Repairs, Operations

Requirements are versioned rows of one lineage per (domain, code);
`BeginVersion` and `AddRequirementVersion` are the endpoint that supersedes.
`resolve_compliance_status` is `status_engine.py` case by case for one pair of
entity and requirement; `get_board_assurance_report` is the bulk computation of
`assurance.py`, with its own grouping operators, so that
`ReportAgreesWithStatuses` compares two translations of two pieces of code.
`Determined` excludes ties that a `.first()` without an ordering leaves open.
Likewise `BulkSignalsAgree` compares `repairs_intelligence.py` with
`repeat_repair.py`; a model with no installed base and `min_installed_base` 0
is in the instance, where the code's ratio would be 0/0. Months of a rule's
window are days of the model. Dates a request may give (reported, completed,
effective from) are any day or none, and none is today (`OrToday`); a version of
a requirement takes its hard deadline as a creation does.

### Revisions, Estate, Handover, DataHealth, Development

`Revisions` has one table of documents, one of specifications and one of change
controls; a version's row is Held between the check that it is current and the
commit that supersedes it. `next_document_reference` is the COUNT + 1 of
`documents/reference.py`. `implement_change_control` writes the revision, the
supersession and the change's status in one commit. What a revision or a
change does not give of the texts is kept from the revision before (`Revised`);
its effective date is what was given or none, never the one before
(`development/service.py:716-723`), so a change that says nothing of the date
takes it away. `ChangeTrailAccurate` states both.

`Estate` has every create and update handler of the hierarchy and the
registers; `resolve_property_hierarchy` and `HierarchyMatches` are the checks
that a property's development, building and floor agree. `Handover` has the nine
checks over the estate and its documents, as counts of what each applies to and
what of it fails. Weights are any integers in units of 1/(20 `Unit`), so below
zero too (`development/schemas.py:542` takes any float and nothing checks its
sign), and as fine as `Unit` makes them. `pass_ratio` is exact for any number of
rows: it counts in `Parts`, a number each check's rows divide. `Rounded` is the
`round(score, 1)` that the threshold is compared with. Left out of it are
infinite and NaN weights, the rounding of float sums, and that a score half-way
between two tenths may go either way. `DataHealth` computes findings and
replaces the stored ones in a later step.

What these modules say of the code, beside the properties:

* A property may be created HANDED_OVER, or imported so, and then has no
  handover record; data health reports it for good.
* A property in a building of no development is counted by the readiness of
  its own development but not shown by the hierarchy view.
* `round(score, 1)` lets checks that weigh less than 0.05 % fail at "100 %".
* A weight below zero turns the score round: what fails of that check makes up
  for what fails of others, and with a total below zero more failures mean a
  higher score. `FullReadinessOrOverride` says what is left: failures weighed
  with their signs come to no more than the last digit shows.
* A revision loses the effective date of the one before unless it gives one.
* VOID warranties and SUPERSEDED documents count as received; defects on a
  building or a component alone are not counted by `check_outstanding_defects`;
  the reference of a building control record is stored for the record, and the
  readiness check looks for one of the building.
* Two concurrent authorisations of one property write two records, and two
  data health reads at once store every finding twice.
* A status UPDATE is not emitted when the loaded value equals the new one
  (SQLAlchemy compares with what it loaded), so an overlapping change survives
  under it.

### WorkerLoop, LazyRows, Memberships, Billing, Platform

`WorkerLoop`: `Wake` begins a tick; `ListPendingReports`, `StartReport`
(commits RUNNING), `FinishReport` (READY or FAILED) and `LoseReportCommit` are
`process_pending_report_jobs`; `Imports` stands for the import job, which has
its own module; `CheckHour`, `ScanOrganisation`, `ScanDone` and `ScanRaises` are
the nightly scan with its once-a-day guard; `Crash` and `Start` the process. A
job RUNNING when its process dies, or whose FAILED could not be committed, is
never selected again (`abandoned`). A scan that raises still counts its day as
scanned, and a restart within the hour scans twice (`broken`).

`LazyRows`: every `get_or_create_*` function takes a FOR UPDATE lock, many GETs
among them, and holds it to the end of the request. A request is its plan, the
sequence of rows it reads. All plans but those of Ask DataLume agree with one
order (`RULE_REGISTRY`, `TOOL_REGISTRY` and the orders of the services).
`CirclesExplained` says that a circle of waiting requests has one of two causes, and TLC
finds both: a question to Ask whose tools read the rows in another order,
and a request that lost an INSERT and so does not hold a row it reads again.

`Memberships`: an EXPIRED invitation is not among those
`_resolve_pending_invitation` refuses, so the request after the one that
expired it accepts it (`tests/test_organisation_members.py` makes only the
first); a PENDING one past its date that nobody opens blocks a new
invitation; nothing sets a membership SUSPENDED or REMOVED, and a second
acceptance keeps the first role.

`Billing`: `stripe` is Stripe's own view and `event` what it has sent;
`stripe_webhook` delivers any event sent, again or out of order. The handler is
`async def` without an `await` between reading and committing, so one process
handles one event at a time. The invoice handlers look for the row before any
tenant is set, and row-level security shows them none (`RowSeen`): a payment
that fails changes the row only through the "updated" event Stripe sends with
it. `AgreesWithStripe` therefore says nothing of a history in which an invoice was
notified after Stripe's last change; what the repository says of that one,
`PaymentFailureShows`, is a run of its own and is violated.
`_on_subscription_deleted` does not compare the subscription's id, and no
webhook changes the plan.

## 3. Runs

| Run | Instance | Shows |
|---|---|---|
| `attention_scan` | 1 rule, 1 entity, 2 signal ids, 2 scanners, 2 users; 2 scans, 3 triages | `AtMostOneLive`, `SettledDismissalRespected`, `TriageIsUsersAlone`, `EveryRequestEnds` |
| `attention_rules` | 2 rules, 1 entity, 3 ids, 2 scanners, 1 user; 3 scans, 1 triage | `ScansSerialised`, `InactiveRuleSilent`, `EveryRequestEnds` |
| `reference_races` | 3 requests (4 begun), 2 types, 2 keys, 3 formats; type 1 may get the one that does not render, type 2 another that does | `NumberUnique`, `GapFree`, `NamedByCurrentPattern`, `KeepsTheLedger`, `EveryRequestEnds` |
| `reference_pattern` | 11 keys, 2 formats | violation of `ReferenceNeverReused` |
| `imports_races` | 1 job of 4 rows (one ragged, one refused by the database), 2 users, 4 requests, 1 failure | `EntityPerImportedRow`, `NothingLeftBehind`, `ImportIsAtomic` |
| `imports_queue` | 2 jobs of 2 rows, 1 per tick, 1 user, 4 requests, 1 failure | `QueueDrains` |
| `imports_poison` | 2 jobs of 1 row, one refused by the database | violation of `QueueDrains` |
| `commercial` | 1 lease, 2 obligations, 2 clerks, 3 requests begun; amounts -2, 1 and 2, dates 0 and 1 | `TypeOK`, `MoneyCountedOnce`, `AutoMatchWithinDue`, `LeaseTrailIsItsHistory`, `MatchedIsFinal` |
| `operations` | 2 clerks, 3 days, 1 domain, code, property, hazard type and component, 2 models; 5 compliance, 6 hazard or 4 repair requests | `TypeOK`, `OneCurrentVersion`, `ReportAgreesWithStatuses`, `BulkSignalsAgree`, `DatedIffCompleted`, `TimeOnlyDegrades`, `SignalsOutliveClosing` |
| `development` | 2 clerks, 2 days; 5 requests to the hierarchy, documents or specifications, 2 to the registers, 4 to handover, 3 to data health, from empty and half-built estates; `Unit` 100, one weight changed to 0, 1, -300 or -1700 | `TypeOK`, `OneCurrentRevision`, `ChangeTrailAccurate`, `ViewCountsEveryProperty`, `HandoverIsEvidenced`, `FullReadinessOrOverride`, `FindingsOfOneRun` |
| `platform` | 2 organisations, 1 report per organisation and tick, 2 jobs, 1 fault, 2 days; 3 callers and calls; 2 clerks, 5 requests, 2 e-mails, 2 invitations; 2 subscriptions, 3 events, 4 deliveries | `ScanAccounted`, `ReportsSettle`, `CirclesExplained`, `InvitationSettled`, `AgreesWithStripe` |
| `platform_invoice` | as `platform` | violation of `PaymentFailureShows` |

Why the bounds are enough for what they are to show. Two scanners, users or
clerks are the fewest with which every pair of transactions meets, and the
properties that except an overlap speak of two requests on one row. Three
triages let one user settle a signal, re-open it and race another. Two signal
ids let a settled signal lie beside a live one. One rule is enough for one
pair; two rules are there for the order of the rule locks. Two keys are two
creations, the fewest that can collide, and the other two requests add a pattern
change and a listing or a roll-back to them; a type whose import leaves a hole
stands beside one that may not have any. Four rows carry all the outcomes a row
can have in one job. Two jobs are the fewest that can block one another;
`Limit = 1` makes the limit of a tick bite.

Two obligations let a payment match the wrong one, and three requests are a
payment, the request that settles it and the one that overlaps either; the
amount -2 takes back what 2 gave, and 1 leaves something over. Three
days are a due date, the day before and the day after; five compliance requests
are a requirement, its applicability, an inspection, an action and its status,
or three versions. Handover needs more rows than requests could build within
the bound, so it starts from an estate of two flats that lacks one
certificate: four requests complete, re-weight, authorise and overlap. Of the
2000 units the checks weigh in all, a weight of 1 is a loss that does not show,
-300 makes up for another check, and -1700 leaves a total of nothing. Three
callers are the longest circle worth finding after a pair, since a longer one
has the same cause; the theorem on `LazyRows` has no such bound. Two
subscriptions are what makes an event of the wrong one possible; three events
are a creation, a change and a deletion, and four deliveries repeat one.

The `Max` constants bound behaviours only; a bounded system stops when they are
used up, which is why the runs do not check deadlock (that nobody waits for
ever is `EveryRequestEnds`, `QueueDrains` and `CirclesExplained`). Type
correctness of the first three modules is proved, not run.

### Fairness

A running request or scan takes its next step when the database lets it (weak
fairness per transaction), and the worker, which sleeps and ticks in an endless
loop (`worker/main.py:122`), does so too. Nobody is obliged to begin a request,
upload, triage, advance the clock or fail. `ReportsSettle` therefore excepts a
process that stays down: nothing in the repository restarts one
(`src/infra/docker-compose.yml` has no restart policy). `ImportPipeline` asks
strong fairness of one action, `WriteRows`: a mapping that waits for row locks
gets them in the end although the worker may take them again on every tick,
because PostgreSQL queues lock requests. Without it a mapping could be aborted
as the victim of a deadlock with the worker, or abort it, for ever.

### The three violations

* `reference_pattern`. `set_reference_pattern` says that never setting
  `next_sequence` keeps references from being "silently reused"
  (`identifiers/service.py:101-104`). With `1{sequence}` the first reference is
  `11`; after a change to `{sequence}` the eleventh is `11` again.
* `imports_poison`. `process_import_job` says that on a real exception "the
  whole job is marked FAILED" (`ingestion/pipeline.py:345-347`). When the
  exception comes from the database, the flush that raised has rolled the
  session back, the `commit` of FAILED raises too, and the job is tried first
  on every tick for ever; jobs and organisations behind it are never imported.

* `platform_invoice`. The docstring of the provider has "payment failed -> past
  due" in its state machine (`integrations/billing_provider.py:20-21`), and
  `tests/test_billing.py:251-264` asserts it. The handler looks the row up before
  any organisation is set (281-290), subscriptions are under FORCE ROW LEVEL
  SECURITY (`src/apps/api/alembic/versions/0002_billing.py:67`), and the query finds
  nothing: an ACTIVE row stays ACTIVE. The tests run on SQLite, which has no
  row-level security; `src/.github/workflows/ci.yml:106-118` says that the role
  of the application must be one the policies apply to.

Other disagreements met while reading, without a run of their own:
`documents/reference.py:6-7` calls the reference engine gap-free, but an import
with a pattern that does not render commits the raised counter with its FAILED
job; a bad priority or an infinite amount fails the whole job although
`process_import_job` says a row's own data never does; "v1 requires full
readiness" (`development/service.py:1505`) but the score is rounded to one
decimal before the comparison, and weights below zero are taken.

## 4. Proofs

All theorems are checked by TLAPS for every value of the constants: any number
of clerks, rows, organisations and requests, any payloads, amounts, weights and
windows, negative ones included.
Between them they state every invariant and action property that a passing run
checks. They rest on the assumptions named in the modules, and TLC evaluates
these on every run: bounds and sizes are naturals (`BoundsAssumption`,
`SizesAssumption`, `WorkerAssumption` and the like), amounts, dates and windows
integers (`NumbersAssumption`), null
values are distinct from what they stand in for, the default format renders
(`FormatAssumption`), the payloads and statuses enumerated are those the code's
schemas accept (`PayloadsAssumption`, `EstateAssumption`, `HandoverAssumption`,
`RevisionsAssumption`), configured windows and thresholds are numbers
(`HazardsAssumption`, `RepairsAssumption`, `ComplianceAssumption`), and the
estates and documents `Development` starts from are ones its handlers could
have built (`DevelopmentAssumption`, with `Built` and `Uploaded`).

| Theorem | Says |
|---|---|
| `AttentionEngineProofs!TypeCorrect` | `Spec => []TypeOK` |
| `AttentionEngineProofs!Serialised` | `Spec => []ScansSerialised` |
| `AttentionEngineProofs!OneLive` | `Spec => []AtMostOneLive` |
| `AttentionEngineProofs!DismissalRespected` | `Spec => []SettledDismissalRespected` |
| `AttentionEngineProofs!OnlyTriageChangesStatus` | `Spec => TriageIsUsersAlone` |
| `AttentionEngineProofs!InactiveStaysSilent` | `Spec => InactiveRuleSilent` |
| `ReferenceEngineProofs!TypeCorrect` | `Spec => []TypeOK` |
| `ReferenceEngineProofs!Unique` | `Spec => []NumberUnique` |
| `ReferenceEngineProofs!NoNumberLost` | `Spec => []GapFree` (of the types whose patterns all render) |
| `ReferenceEngineProofs!NamedInForce` | `Spec => NamedByCurrentPattern` |
| `ReferenceEngineProofs!Refinement` | `Spec => KeepsTheLedger` (the engine implements `ReferenceLedger` for the types whose patterns all render) |
| `ImportPipelineProofs!TypeCorrect` | `Spec => []TypeOK` |
| `ImportPipelineProofs!OneEntityEach` | `Spec => []EntityPerImportedRow` |
| `ImportPipelineProofs!NothingLeft` | `Spec => []NothingLeftBehind` |
| `ImportPipelineProofs!Atomic` | `Spec => ImportIsAtomic` |
| `CommercialProofs!CommercialTyping` | `Spec => []TypeOK` |
| `CommercialProofs!LeaseTrails` | `Spec => []LeaseTrailIsItsHistory` |
| `CommercialProofs!MatchesAreFinal` | `Spec => MatchedIsFinal` |
| `CommercialProofs!MoneyIsCountedOnce` | `Spec => []MoneyCountedOnce` |
| `CommercialProofs!ReconcilerStaysWithinDue` | `Spec => []AutoMatchWithinDue` |
| `OperationsProofs!OperationsTyping` | `Spec => []TypeOK` |
| `OperationsProofs!OperationsDates` | `Spec => []DatedIffCompleted` |
| `OperationsProofs!OneVersionIsCurrent` | `Spec => []OneCurrentVersion` |
| `OperationsProofs!BulkReportAgrees` | `Spec => []BulkSignalsAgree` |
| `OperationsProofs!BoardReportAgrees` | `Spec => []ReportAgreesWithStatuses` |
| `OperationsProofs!ClosingKeepsSignals` | `Spec => SignalsOutliveClosing` |
| `OperationsProofs!TimeDegrades` | `Spec => TimeOnlyDegrades` |
| `DevelopmentProofs!DevelopmentTyping` | `Spec => []TypeOK` |
| `DevelopmentProofs!DevelopmentRevisions` | `Spec => []OneCurrentRevision` |
| `DevelopmentProofs!DevelopmentTrails` | `Spec => []ChangeTrailAccurate` |
| `DevelopmentProofs!DevelopmentEvidence` | `Spec => []HandoverIsEvidenced` |
| `DevelopmentProofs!DevelopmentReadiness` | `Spec => []FullReadinessOrOverride` |
| `DevelopmentProofs!DevelopmentFindings` | `Spec => []FindingsOfOneRun` |
| `DevelopmentProofs!DevelopmentView` | `Spec => []ViewCountsEveryProperty` |
| `PlatformProofs!HeldOnce` | a configuration row has one holder, who has read it |
| `PlatformProofs!OrderedCallsHaveNoCircle` | `LazySpec => []CirclesExplained`, if all calls but Ask's read the rows in one order |
| `PlatformProofs!ScannedOnce` | `WorkerSpec => []ScanAccounted` |
| `PlatformProofs!SettledInvitationStays` | `MembershipSpec => InvitationSettled` |
| `PlatformProofs!RowAgreesWithStripe` | `BillingSpec => []AgreesWithStripe` |
| `PlatformProofs!PlatformRunsEach` | `Spec` of the platform implies the specification of each of the four, so the last four theorems hold of the platform too (its corollaries) |

*Attention engine.* `TypeOK` needs `ScansConsistent` (the cursor is inside the
registry whenever a rule is in hand). `ScansSerialised` follows from
`RuleLocks`: a scan holds every rule row before its cursor, and all of them
once it upserts; two scans that both held row 1 would be one. `AtMostOneLive`
speaks of committed rows, but the index also looks at uncommitted ones, so the
induction is on `OneClaim`: among rows live in their committed *or* written
version, at most one per pair. It needs `RowLocks` (what the two versions of a
row may say under each kind of lock owner) and `TriagedExists`. A rollback
withdraws claims, a commit keeps at most those there were, and only the insert
and the triage write add one, both beside none. `SettledDismissalRespected`
rests on `SettledInv`: the settled signals of a scan are still dismissed in
their committed version, because only the commit of a triage changes a
committed status, and that takes the signal out of `settled`. That same fact,
with the row locks, is `TriageIsUsersAlone`. `InactiveRuleSilent` needs
`ActiveInv`: the rule of a signal inserted and not committed is active, because
the scan that read `is_active` holds every rule row (`HeldActive`), and only a
scan past its first rule (`Busy`) has rows of its own.

*Reference engine.* The entities of a type, pending ones included, carry
distinct numbers below the *written* counter (`EntityInv`, `Distinct`, `NoGap`),
only the holder of the pattern row's lock has pending ones, and the holder's
loaded `next_sequence` is the row's (`RequestInv`). A commit makes the written
counter the committed one together with the entities below it; a rollback drops
both. That there is no hole needs that no import of the type failed on its
pattern: a type in `Rendering` only ever has patterns that render
(`RendersInit`, `RendersStep`).

*The refinement.* A step of the ledger enters numbers of one type, while a
transaction of the engine may hold the rows of all types (`list` does).
`OneWriter` is the missing invariant: a written counter ahead of the committed
one belongs to a creating transaction, which holds one row. So a commit moves at
most one counter (`OneType`), what was saved stays (`Published`), every page
has its one entity (`PagesWritten`, from `NoGap` and `Distinct`), and a commit
appends to one book; every other step leaves the book as it is (`SameBook`).
`PendingOwned`, of the same invariant, is `NamedByCurrentPattern`.

*Import pipeline.* One invariant, `TypeOK /\ Safe`, carries all four theorems.
The worker commits what it decided on rows it read long before; `ImportInv`
says these rows are VALID in the table to the last, and all the VALID ones as
long as no exception ended the loop, unless the job was mapped again. It holds
because a mapping of the job under import can only be one after its hand-over
(`WorkerInv`: the job was handed over and has no verdict; `JobInv`: before the
first hand-over no row is IMPORTED). Atomicity uses the same `WorkerInv`: a
verdict always changes the status.

*Requests without locks.* The handlers of the domains load a row, check it, and
write it in a later step. All of `Commercial`, `Operations` and `Development`
rest on one lemma about them, `KeyNext`: two requests that hold a row in common
have both been seen to (`KeyInv`), so a row outside `raced` is held by one
request, and what that request loaded still stands when it commits. Each domain
then has an invariant that says *what* still stands, and a property becomes
inductive together with it. The table under the property is often larger than
the property: a version is replaced by a request that found it current, but
that the lineage has no second current one is only inductive as a chain of
versions (`Chain`), a trail only as a walk through the transition table
(`Walk`).

*Sums.* Amounts, weights and counts are `SumFunctionOnSet`, which the community
module defines by recursion over subsets, taking away a CHOSEN element; the
library proves nothing about it. `TableLemmas` has the theory: the recursion is
well-founded on finite sets, the element taken away may be any (`SumRemove`),
and from this adding an element, disjoint unions, equal or greater summands, a
row appended or overwritten, and a count as a sum of disjoint counts
(`SumOfCounts`). Induction is done with sets in place of the operators the
provers cannot instantiate: a set of numbers that holds 0 and every successor
of its members is all of Nat.

*Commercial.* `LeaseTrails` is `TrailInv`: events in the order of their
timestamps walk from DRAFT to the lease's status, and what a status request has
seen is still so and later than all of them. `MoneyIsCountedOnce` is
`MoneyInv`: the allocations of a payment add up to no more than was received
as soon as one of them is MATCHED, and the capacity that a manual request
checked is still there (`MoneyHeld`); that arrears then count no pound twice is
arithmetic over two partitions of the allocations, and no amount need be
positive for it. `ReconcilerStaysWithinDue` needs the lock: while no request
lost the race for the config row, a payment between reading that row and its
commit holds it (`LockHeld`), so no other payment is matched to the obligation it
decided for, and what clerks do meanwhile can only take room away or be counted
as taken back (`AutoHeld`, `AutoByHand`). `MatchesAreFinal` needs only that no request that
resolves holds a match of the reconciler. That at most `begun` payments exist
or are on their way (`CountInv`) makes the types inductive.

*Operations.* A transition found legal is still legal (`Legal`), so a completed
row stays so and has its date (`DateInv`). `BulkReportAgrees` and
`BoardReportAgrees` hold in every state of the right types: both compare a
computation over groups of rows with one over the rows of a pair, and the proof
shows that the groups are those rows and that ties are what `Determined`
excludes. `TimeDegrades` compares the status engine with itself a day later,
case by case; `ClosingKeepsSignals` shows that no status but a repair's
CANCELLED takes a row out of what a rule counts.

*Development.* `OneOf` says of a lineage that its current rows are one, and
`DocumentInv` and `SpecificationInv` that the row a request is to replace is
one of them. `ReferenceInv` bounds the references by the number of documents: a
reference counted and not yet used lies above those used, unless another upload
counted too. For the trail, `TrailOf` says what a change control says of the
revision it was proposed against and of the one it brought; a change held once
has none until it is implemented, and two changes have none in common, since
revisions are only added and keep what they say (`Remembered`).
`DevelopmentReadiness` is arithmetic: each check's rows divide `Parts`
(`PartsOf`), the weight of a check is earned or lost part by part, earned and
lost add up to all of it whatever its sign, and a score that rounds to 100.0
over a total above zero has lost no more than what the last digit shows
(`RoundedOf`); it needs that the snapshot in a record is that of its score. `DevelopmentEvidence` is `MovedInv`: a status
request still finds the status it loaded, and the request that hands over a
property writes its event and its record in one commit. `DevelopmentView` is
`PlacedInv`, that the three optional links of a property agree; then the
properties on floors, in buildings without a floor and in neither are disjoint
and all of the development's, and the three counts add up. `FindingInv` says
that a run which misses handover information misses it of a property created as
handed over, now as when it was computed, and that what it replaces is all there is, unless two runs overlapped.

*Configuration rows.* A request waits only for the row it wants next, and the
one it waits for holds that row, so has read it. If neither asks nor has lost an
INSERT, a request holds everything it has read, so what it wants next is a row
it has not read, which comes after it in the common order. Going round a circle
from each request to the one it waits for, the wanted rows come later and later
in that order (`LowerRank`); but one of the finitely many ranks is the last, and
the request that wants that row waits for nobody in the circle (`NoCircle`). The
exceptions are the two real ones.

*Worker loop.* A day is not yet checked, being scanned (the organisations left
at 0, the others at 1) or scanned (`Accounts`). What keeps a scanned day from
being scanned again is that `last_scan_date` is the date at which the scan
*began* (`LastIsToday`), and that no later day can be checked while it runs
(`NoneLater`).

*Invitations.* A request that has an invitation in hand read it unsettled
(`Unsettled`), and only another request that had it in hand can have settled it
since (`HandsDiffer`).

*The platform.* Its steps are those of the four components, one at a time, and
each leaves the variables of the others alone; `PlatformRunsEach` says so, and
what is proved of a component holds of the whole. (The fairness of the worker is
stated of the whole only, and `ReportsSettle` is checked there.)

*Billing.* An event records the status Stripe had when it was sent
(`LastSent`), so a notice, which the handlers let pass, repeats what the event
before it said (`NoticesRepeat`), and the first event is a "created". After
the newest event delivered in order, the row agrees with it (`RowFollows`), and
delivering that one again changes nothing. `PaymentFailureShows` is false of the
code and has no theorem.

Only model-checked: liveness under fairness (`EveryRequestEnds`,
`QueueDrains`, `ReportsSettle`), which needs ENABLED, and the prover does not
handle either. `GapFree` and `KeepsTheLedger` speak of the types whose patterns
render; of a type with one that does not they would be false, and section 3
says so. No module uses a RECURSIVE operator or needs induction over
data beyond the sums, which is out of the prover's reach as well.

What the proofs found in the models. The events and the failing checks of
`Handover` were sequences filtered and sets of triples; they are functions
indexed by event and by check now, which says the same and leaves no two failing
checks of one weight to fall together. The estates a run starts from had never
been held to what the handlers keep: `Built` and `Uploaded` say so now. The
references in a document lineage are unique only because a document never
disappears; the code has no DELETE, and `documents/reference.py` depends on it.
With amounts of any sign the first forms of the money properties fell: MATCHED
allocations alone do not bound what arrears count (a tentative refund makes room
for a match), and the reconciler settles again what a clerk took back. With
weights of any sign the readiness of a handover is what its weighted failures
come to, not that none of them counts.

## 5. Abstractions

Each module is one organisation, except that the worker visits several: the
row-level security policies keep organisations apart, and no row is shared.
Wording, explanations, amounts of work and audit rows that no property reads
are left out. A row lock is modelled where another transaction can meet it
between two steps. Statements between two points where the transaction can be
seen or made to wait are one step; a handler whose only checks are 404s on rows
that are never deleted is one step. A mapping is abstracted to the set of rows
it makes usable, an attention rule's query to the set of entities it finds, an
importer to its outcome (and in the domain modules to the row it creates). An
identifier is a position in the table; a reference drawn from the reference
engine is left out, since that engine's module shows it is unique. Most
get_or_create rows are plain values in the domain modules, because
`LazyRows` has their races and the payload of a PATCH cannot be lost between
them; `Commercial`, where the row is the lock, keeps the whole protocol.

### Not modelled

* Authentication, MFA and sessions: a security boundary, not a matter of these
  models. Signing up is in `Memberships` as far as it makes a user.
* The reset of the organisation setting at check-in (`core/tenancy.py`): it is
  behaviour of the connection pool. Its absence is modelled where it shows, in
  `Billing`.
* File parsing, cleaning, header matching and mapping templates; report content
  and rendering; document storage; migrations; the web client; the seed script:
  pure I/O and data without a state machine.
* Read models whose answer is a layout of committed rows (timelines, 360
  views, rankings), the answers of the language model, and the score, suggestions
  and three one-column rules of data health.
* Starting a checkout or a portal session (a call to Stripe) and the check of
  entitlements (a read of the subscription before the handler).
* The date windows of the warranty and lease attention rules.

## 6. What is left

In order of what it would add:

1. An abstract specification of a versioned lineage, which documents,
   specifications and requirements all implement: the same invariants
   (`OneOf`, `Chain`) are proved of each of them by themselves now.
2. Mapping templates and the `COUNT`-based references of other registers as
   further instances of the read-check-write pattern.
3. The date windows of the warranty and lease attention rules, with
   `AttentionEngine` taking what they find as its candidates.
