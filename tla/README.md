# Formal model of Sentinel AML

TLA+ modules, TLC configurations and TLAPS proofs for this repository: a FastAPI
server (`api/main.py`) that runs natural-language queries over transaction
datasets in DuckDB, keeps the resulting investigations and alerts in a review
queue, and lets analysts upload and switch datasets; the scripts and loaders that
fill its database; a second, governed API; and the React client that analysts use.

Paths below are relative to the root of the repository. Run the tools in this
directory: `tlc -config MCWorkflowStore.cfg MCWorkflowStore`,
`tlapm WorkflowStoreProofs.tla`.

## 1. Inventory

### How the system runs

`api/main.py` is the application. Its `def` handlers run on a thread pool, so
requests interleave at every statement; its `async def` handlers (`/ingest`,
`/datasets/upload`, `/datasets/inspect`, `/health`, `/stats`) run on the event
loop. Each operation opens a DuckDB connection of its own to one file in one
process. DuckDB 0.10 gives a transaction the snapshot of its first statement
and raises on an UPDATE that meets another transaction's write; statements
outside `BEGIN ... COMMIT` commit on their own. A second set of routers with
services and repositories (`api/routes`, `api/services`, `api/repositories`,
`api/security`, loaded by `api/router_loader.py`) exists beside them; only the
tests mount it.

### Components

| Component | State | Operations | Hard behaviour |
| --- | --- | --- | --- |
| Review workflow, `tools/workflow_store.py` | tables `investigations`, `alert_queue`, `audit_events` | `persist_investigation`, `assign_alert`, `disposition_alert`, `append_alert_note`, readers | interleaved transactions, conflicts, a read before `BEGIN`, failures and restarts |
| Governed workflow, `api/repositories/workflow_repository.py` | tables `governed_alert_queue`, `governed_audit_events` | `assign`, `disposition`, `append_note`, readers | the same, with the read inside the transaction |
| Dataset registry, `tools/dataset_store.py` | table `dataset_registry`, a DuckDB schema per dataset, stored upload files | `initialize_dataset_registry`, `register_uploaded_dataset`, `activate_dataset`, `delete_dataset`, `resolve_*` | a lock for writers only, statements that commit on their own before the registry's transaction, files beside the database, restarts |
| Model cache, `tools/ml_engine.py` | `_MODEL_BUNDLES` | `get_model_bundle`, `clear_model_cache`, `run_ml` | cache keys, staleness after a knowledge dataset changes, clear during training |
| Ingestion, `tools/data_loader.py`, `scripts/bootstrap_data.py` | tables `transactions`, `saml_knowledge`, staging tables, the database file | `ingest_csv`, `ingest_saml_knowledge`, publication of a staging table, bootstrap | failure half-way, restart, two ingests at once |
| Server life cycle and handlers, `api/main.py` | the above, audit events of dataset changes | lifespan, `/ingest`, `/datasets/*`, `/query`, `/model-card` | the order of a change, the cache flush and the audit event; uploads stored before the lock |
| Query service, `api/services/query_service.py` | permits of a semaphore | `run` | permits on every exit |
| Authentication service, `api/services/auth_service.py` | sessions, failures, lockouts | `authenticate`, `resolve_session`, `revoke_session` | times taken before the lock, work outside the lock, a bounded session table |
| Query pipeline, `agent/runner.py`, `planner.py`, `intent_extractor.py` and the tools they run | of a query: intent, plan, one frame of rows that each tool adds columns to, trace | extraction, planning, eleven tools, explanation, response | tables in several files that must agree, model calls that fail or stray, thresholds and exact boundaries, a capped input |
| Alternate routers, `api/routes`, `api/security` | none | a session, a role, a handler of one of the three services above | the session may end while the handler works |
| Alternate agents, `agent/orchestration`, `agent/detection`, `agent/runtime`, `agent/risk` | none | a plan of bounded length, the findings of its detectors, scoring and rendering under a budget, a risk decision | a deadline that nobody enforces while a call runs, signals of tools that were not planned, normalisation over what is missing |
| Drift monitoring, `tools/model_drift.py`, `api/monitoring/drift_monitor.py` | none | PSI and its classes | boundaries that differ |
| Exports, charts, browsers, EDA (`tools/exporter.py`, `eda.py`, `*_browser.py`, ...) | none | read-only | none that a model checker reaches |
| React client, `frontend/src` | each page's React state, the calls that have not settled, a `localStorage` history | `request()`, a page's fetches and mutations, the upload dialogue | calls that time out, are retried, come late or to a page that has moved on |

### What makes each component correct

- Review workflow: an investigation's status and disposition follow from its
  alerts; nothing changes without an audit event; an investigation, its alerts
  and its events appear together; notes are kept; requests get through.
- Governed workflow: the same audit properties, and no note event is lost.
- Registry: a type with datasets has an active one, and requests never leave two; the
  default changes only for a cause; a registered dataset has its table and its file; a
  failed registration leaves nothing; every request is answered; a query never reads
  another dataset than the one it resolved.
- Model cache: a score comes from the model of the dataset it is said to come from.
- Ingestion: a live table is either the old or the new one, never a part; the
  sample of SAML-D does not depend on chunks; `/ingest` answers for the tables it
  built; every row of an accepted upload is one that queries can work on.
- Query service: permits are conserved. Sessions: bounded in number, and none is
  accepted after it was revoked or has expired; guesses at a password are bounded
  however they interleave; who stands in the audit log was entitled to be there.
- Pipeline: a detector finds the columns it reads and counts exactly if it ran;
  the response lists the worst accounts, each explained; label and action agree;
  no failure of a language model keeps a query from ending.
- Alternate agents: a plan is whole or refused; findings account for the signals of
  the planned detectors and for no others; what takes too long is not answered; a
  decision lies where its evidence lies.
- Client: a click changes the server at most once; a page shows the answer to its
  last question; what waits stops waiting.

`PROJECT.json` lists the hazards of this code at their lines.

## 2. Plan

Most important first. Steps 1 to 9 are done and described below.

| Step | Modules | What they are for | Composes / refines | Theorems |
| --- | --- | --- | --- | --- |
| 1 | `CaseRules`, `CaseWorkflow`, `WorkflowStore` | review queue under concurrent transactions | `WorkflowStore` implements `CaseWorkflow` | invariant, types, status, implementation, the log's three properties, kept investigations |
| 2 | `DatasetRegistry` | datasets under concurrent requests, failures and restarts | composes `dataset_store.py` with `/datasets/*`, `/ingest` and `/query` | invariant, types, completeness, one active dataset, causes of a changed default, clean failure, the log's account |
| 3 | `ModelCache` | the cache that dataset changes must clear | composes `ml_engine.py` with the dataset changes | invariant, card, trained once |
| 4 | `QueryPlan`, `QueryPipeline` | tables and pure functions of a query; one query from question to response | `QueryPipeline` uses the operators of `QueryPlan` | two invariants, every property of the run |
| 5 | `GovernedCase`, `GovernedWorkflow` | `workflow_repository.py`: the read inside the transaction, append-only notes in SQL, pages of the log | `GovernedWorkflow` implements `GovernedCase`, whose notes only grow, which `WorkflowStore` does not | invariant, implementation, notes, pages |
| 6 | `AuthSessions`, `QueryService`, `GovernedApi` | failures, lockouts, sessions and their clocks; permits on every exit; the routers over all three services | `GovernedApi` composes `AuthSessions`, `GovernedWorkflow` and `QueryService` | composition, guesses, sessions, permits, actors |
| 7 | `PublishedTables`, `Installation`, `ImportMapping` | bootstrap, both ingestions, publication and uploads, through kills | `Installation` uses `ImportMapping` and implements `PublishedTables` | implementation, verified start, answers, valid rows |
| 8 | `ApiCalls`, `ReviewClient` | `api.ts` and the pages whose answers come when they like | `ReviewClient` extends `ApiCalls` | invariant, clicks, answers |
| 9 | `BoundedExecution`, `AdaptivePlan`, `RiskDecision` | the alternate agents, which are functions | `AdaptivePlan` uses the intents of `QueryPlan`, `RiskDecision` the findings of `AdaptivePlan` | plans, budgets, findings, decisions |
| 10 | `DriftBands` | bands of `model_drift.py` and `drift_monitor.py` | | not started |

Step 10 is left out on purpose: it is a comparison of floating-point values with
constants. Every safety property that a run checks is now a theorem too. What remains to
be proved is what the theorems still assume without need: that the process is not killed,
in the registry's account and in clean failure, could be replaced by what a restart may
leave behind.

## 3. The modules and the code

### Review queue: `CaseRules`, `CaseWorkflow`, `WorkflowStore`

`CaseRules` holds rows and the pure rules: `Assigned` and `Dispositioned` are the
two UPDATEs of an alert, `RefreshedRow` is `_refresh_investigation_status`.
`CaseWorkflow` is the promise: a query that completes opens an investigation
with an alert for each finding; a request on an alert changes its row and its
investigation's row in one step.

`WorkflowStore` is the code. `inv`, `alert`, `notes` and `audit` are the committed
tables; `txn[s]` is the progress of request `s` and what only its transaction
sees. An action is a statement, or a group of statements with nothing in between
that another request could see or disturb:

| Action | Code |
| --- | --- |
| `BeginPersist`, `QueueFinding`, `CompleteInvestigation` | `persist_investigation`: BEGIN and the first INSERTs, one entity of the loop, the last event and COMMIT |
| `GetQueueItem` | the read before BEGIN; without a row the request ends |
| `BeginTransaction`, `UpdateAlert` | BEGIN, the snapshot and the UPDATE of the alert |
| `RefreshInvestigationStatus` | the SELECT over the investigation's alerts, as the transaction sees them, and its UPDATE |
| `CommitCase`, `CommitNote` | `_insert_audit` and COMMIT |
| `StatementFails`, `Rollback`, `Restart` | a statement raises; `except: ROLLBACK; raise`; the process ends and starts again |

Identifiers of alerts and investigations differ (`ALT-`, `INV-`; `IdAssumption`), so an
event's target says what it is about.

Isolation is DuckDB's, external to this repository: a snapshot at the first
statement and an error when an UPDATE meets a write that is uncommitted or newer
than the snapshot (`Conflict`; it is decided per row and written columns).

### Datasets: `DatasetRegistry`

A dataset is a row of `dataset_registry` (`registry`), a schema with its table
(`space`) and a stored file (`files`); the built-in ones are tables of schema
`main`. The identifier is derived from the content, so a content is its own
identifier; whether columns can be mapped is the constant `Fits`.
`lock` is `_REGISTRY_LOCK`, `log` is the dataset part of `audit_events`.

| Action | Code |
| --- | --- |
| `CreateRegistry`, `Initialize`, `StartFails` | `initialize_dataset_registry` in `lifespan`, a statement at a time; an error is logged and the server goes up with what there is |
| `Ensure` (`EnsureTable`, `EnsureRow`) | `ensure_dataset_registry`: the same by the first request that finds no table (`ready`), under the lock |
| `TakeLock` | `with _REGISTRY_LOCK` |
| `StoreUpload`, `TakeLoop`, `CheckDuplicate`, `CreateSchema`, `CreateTable`, `FillTable`, `Publish`, `DropBroken` | `/datasets/upload`: the file is stored; the rest runs on the event loop, the wait for the lock included; the statements that commit on their own; the registry transaction; the `except` clause |
| `Activate`, `BeginActivate`, `CommitActivate` | `/datasets/{id}/activate` |
| `Delete`, `BeginDelete`, `CommitDelete`, `UnlinkFile` | `DELETE /datasets/{id}`: the transaction, then the file |
| `RecordEvent` | the handler's audit event, after the lock |
| `Query`, `ResolveContext`, `ResolveTable`, `SelectRows`, `AnswerQuery` | what `/query` reads, without the lock |
| `BeginIngest`, `IngestTable` | `/ingest`, one table after the other |
| `StatementFails`, `Restart` | a statement of a request raises at any stage; the process ends and starts again |

`LoopFree` is the event loop: `/datasets/upload` and `/ingest` are `async def`, so from one
`await` to the next nothing else runs on it, and no other request is taken in (`Starts`).
An upload gives the loop away while its file is stored (`stored`), takes it (`TakeLoop`)
and keeps it to its end, also while it is blocked on the lock (`waiting`), since the handler
calls `register_uploaded_dataset` directly (`main.py:560`, `dataset_store.py:344`).
Activations, deletions and queries run in threads, which the loop only has to start. So the
server stands still if a request that holds the lock needs the loop: the mutant
`CommitActivateOnLoop` is an activation that does, and `EveryRequestAnswered` finds it.

### Models: `ModelCache`

`bundles` is `_MODEL_BUNDLES`; a model is the dataset it was trained on. A request
finds the active knowledge dataset and its key in one read (`FindContext`), looks
the key up without the lock (`LookUp`) and with it (`LockAndLookUp`), reads the
table (`LoadBaseline`, an error if it was dropped), trains and stores
(`StoreModel`), and reads the key once more (`ReturnModel`). `ActivateDataset` and
`ClearModelCache` are two steps of the activation handler; `UploadKnowledge`
activates without clearing, as the code does.

### One query: `QueryPlan`, `QueryPipeline`

`QueryPlan` has the tables as the code has them, each from its own file: the order
of tools, what an intent selects, feature families of patterns, rules of patterns
and the columns they read, detectors' weights. `QueryPipeline` runs a query with
them. `rows` and `cols` are `state["df"]`; a row is its account and what the
detectors found in it, chosen freely: how many rules fired, and two scores in units
of `1/Full`. Weights are twentieths and risks are kept over `scale`, so comparisons
with 0.35, 0.40 and 0.70 are exact, as the code's rounding to 12 digits makes them.
`Worst` stands for the sort, the removal of duplicates and the threshold that `explain`
and `_assemble_response` each do: it is the one arrangement of the first rows of the
accounts at risk that the order `Before` allows, as a CHOOSE, because the provers know
sets and functions but not a sorting operator.

| Action | Code |
| --- | --- |
| `ModelCallFails`, `ExtractWithModel`, `ModelIntentInvalid`, `ExtractByRules` | `IntentExtractor.extract`: three attempts, an answer that does not validate, the rule-based fallback |
| `MakePlan` | `DynamicPlanner.plan`; the model's proposal is compared and dropped |
| `LoadData`, `Aggregate`, `Survey`, `EngineerFeatures`, `RunRules`, `RunStatistical`, `RunMl`, `ScoreRisk`, `Escalate` | a branch of `AgentRunner._run_tool` and the tool it calls |
| `StartExplaining`, `ModelExplains`, `ModelStrays`, `ModelUnavailable`, `ExplainByTemplate`, `EndExplaining` | `explain` and `ExplanationGenerator.generate`: primary and fallback model, one correction, the template |
| `Assemble` | `_assemble_response` |
| `ToolRaises`, `NextQuery` | an exception fails the query; the next one starts from nothing |

Tables of primary datasets have no country columns, so the country rule and the
country's surcharge on a score do not occur; no rule sets the flags that make
`recommend` report a politically exposed person.

### The governed API: `ApiRequests`, `GovernedCase`, `GovernedWorkflow`, `AuthSessions`, `QueryService`, `GovernedApi`

`GovernedCase` is the promise of the second review queue: a request changes a row and
appends its event in one step. `GovernedWorkflow` is its code, with the same DuckDB as
above: `seen` is a request's snapshot of its row, `stale` the columns of it that others
have committed since. Unlike `WorkflowStore` it reads inside the transaction.
`AuthSessions` is the authentication service; `at` is the time a request read before it
took the lock, which may be older than what the lock protects, and `live` and `session`
are `_sessions` and its records. `QueryService` is the semaphore. `GovernedApi` puts the
routers on top: a request arrives at the authentication service, is admitted with a
user, and works in one of the other two.

| Action | Code |
| --- | --- |
| `BeginMutation`, `AlertNotFound`, `UpdateRow`, `Commit`, `StatementFails`, `Rollback` | `_mutate`: BEGIN and the SELECT; no row; the UPDATE with the event's INSERT, or a conflict; COMMIT; the `except` clause |
| `CountEvents`, `SelectEvents`, `AnswerPage` | `list_audit`: two statements, without a transaction |
| `BeginLogin`, `PassRateLimit`, `RefuseLocked`, `RecordFailure`, `StoreSession` | `authenticate`: the time; the first hold of the lock; the verification's outcome and the second hold, with `_sweep_sessions` |
| `BeginResolve`, `Resolve`, `ResolveNone`, `Revoke` | `resolve_session`, `revoke_session` |
| `Acquire`, `RefuseQuery`, `PersistResponse`, `Release` | `run`: the semaphore, the sink, `finally` |
| `Arrive`, `Authenticate`, `Forbid` | an HTTP request and its dependency; 403 |
| `MutateAlert`, `ReadAudit`, `ExecuteQuery`, `WorkOnQueue`, `WorkOnQuery` | the handlers of `routes/workflow.py` and `routes/query.py` |
| `ApiTick`, `ApiRestart` | the clock; the process ends with everything it kept in memory |

### The database file: `PublishedTables`, `Installation`, `ImportMapping`

`PublishedTables` is what readers are promised: a table is only replaced, as a whole, by
the whole image of a source. `Installation` is how it comes about: `live` and `staging`
are the tables of schema `main`, as the file they are of and the numbers of its rows;
`job` is the one ingestion that runs (`/ingest` and the first start occupy the event
loop) with the rows it has read, its positives and its `reservoir`. A row of SAML-D is
its label, and its random key the next of a fixed sequence `Key`, as a seeded generator
gives it. `ImportMapping` is `importer.py` as operators over files of columns and cells:
which schema a file has, which column is which field, which rows refuse the file and
what the others become. It stands for what `DatasetRegistry` leaves to `Fits`.

| Action | Code |
| --- | --- |
| `StartProcess`, `VerifyDatabase`, `BeginDownload`, `ReceiveBlock`, `AbandonDownload`, `InstallDownload` | the start command of `render.yaml` and `bootstrap_data.py`: `verify_database`, `download_database` block by block, its checks and `os.replace` |
| `BeginStartupIngest`, `FinishStartup` | `lifespan`: both sources if there is no database file |
| `BeginIngest` | `/ingest`, forced or not |
| `OpenSource` (`Skip`, `BeginScan`) | the head of `ingest_csv` and `ingest_saml_knowledge`: a missing file, a table that exists, a first staging table |
| `ScanChunk` (`ScanTransactions`, `ScanSaml`) | one chunk: inserted, or divided into positives and candidates for the sample |
| `EndScan`, `Publish`, `StatementFails` | no rows is an error; `_publish_staging_table`; the `except` clauses |
| `RegisterUpload`, `DeleteUpload` | uploads that have tables of the same names |
| `PlaceSource`, `Kill` | the operator replaces a source by renaming a file; the process is killed |

### The alternate agents: `BoundedExecution`, `AdaptivePlan`, `RiskDecision`

These parts of `agent/` are called by the tests only and keep no state, so they are
operators, not state machines. `AdaptivePlan` has the plan of an intent under a limit of
steps and the findings that a coordinator makes of its detectors' signals; a request whose
text is not the plan's tidied query is refused. `BoundedExecution` has `score` and
`render` under a budget: an execution depends on its inputs and on what the clock shows
each time it is read, so the clock is a sequence of readings, one per checkpoint.
`RiskDecision` turns the signals of an entity into a score, a label and an action by a
policy. Scores are in millionths, as they are rounded; weights are in hundredths. What a
decision depends on is its evidence, the number of signals of each detector and the sum of
their scores, and `Nearest` gives both neighbours where the exact value lies half-way,
because the floating-point sum may fall to either side. Other errors of floating-point
summation are left out.

`MCAdaptiveAgents` states what TLC evaluates of them as assumptions, before the run
`query_pipeline`, whose module extends it: every intent under every limit, clocks that do
not go back, up to three signals, and decisions in and at the edges of the bands.

### The client: `ApiCalls`, `ReviewClient`

`ApiCalls` is `request()` of `api.ts`: `calls` are those that have not settled, `wire`
what is on its way to the server and may change it, `applied` what the server has done.
The server may do it after the client has given up. `return response.json()` leaves the
`try` block, so the timer is cleared and no attempt is left once the head of a response
is there: a body is read without a limit of time and a failure of it is not retried.

`ReviewClient` has one page mounted at a time (`route`, `mount`, `page`); the click that
made a call is its number, and the page it was made by comes with it. An answer to a
page that was unmounted changes nothing; what an answer does to the page that asked is
one operator for each `then` of the source.

| Action | Code |
| --- | --- |
| `Navigate` | another page is mounted and makes its first call |
| `FilterTransactions`, `FilterCustomers`, `OpenCustomer` | the lists, whose effects clear `active` of the run before |
| `SubmitQuery`, `DismissError` | the command center: a question, and the button that wipes its error away |
| `SelectTab`, `Mutate` | the review queue: `load` and `mutate` |
| `RefreshInvestigations`, `SelectRecord` | Investigations, whose list is followed by its first record |
| `Refresh`, `ActOnDataset` | Datasets; an activation or deletion is followed by a refresh |
| `UseModal`, `ChooseFile`, `Submit` | the upload dialogue |
| `Respond`, `Retry`, `PauseEnds`, `Resolve`, `Reject` | an attempt, its failures (`Failure`), the pause, and the promise's end with what the page does |
| `Handle`, `Reload` | the server; the tab is closed and opened again |

`cleared` is not in the code: it records that an error has been wiped out before the next
question, by `openCustomer` (`Customers.tsx:65`) or by the command center's "Dismiss error"
(`CommandCenter.tsx:763`). The page may then show an older answer without a mark, so
`ShowsItsAnswer` asks nothing of it until the next question (7).

## 4. Runs

Each run checks deadlock. `Quiet` lets a run stutter once its bound is reached and
every request is answered; nothing else may stop.

| Run | Instance | Shows |
| --- | --- | --- |
| `workflow_store` | two requests at a time, an investigation with two findings, failures, restarts | types, investigations agree with their alerts, the log explains each alert, nothing is stored in part, notes follow the log, nothing changes without an event, and the store implements `CaseWorkflow` |
| `workflow_progress` | the same, fair, without failures | conflicts never make requests abort each other for ever |
| `dataset_registry` | two requests, two transaction files, one audited change, every failure and restarts; both built-in tables or none | types, completeness of registered datasets, one active dataset of each type, a default that changes only for a cause |
| `dataset_record` | two requests, one file accepted as transactions or customers, two audited changes, failing statements, both built-in tables or none, fair | no schema left by a failed upload, the log accounts for the datasets, every request is answered |
| `model_cache` | three requests, two knowledge datasets and a primary one, two changes, fair | the card's model is the card's dataset's, models are trained once, every call ends |
| `query_pipeline` | all 60 intents on five tables, up to three rows, two scores per detector, any number of rules, a response of two accounts | columns present when read, detectors counted, a hit reviewed, the worst listed and explained, label and action agree, a complete trace, progress in every step |
| `governed_api` | two threads, a reviewer and another user, two tokens, one alert with a row and one without, four HTTP requests or restarts, two ticks | types, bounded guesses, conserved permits, pages as long as their total, actors in the log, ended sessions stay ended, the queue implements `GovernedCase` |
| `data_install` | both deployments, two bundles, four source files, five uploads, kills and failures anywhere | the tables implement `PublishedTables`, a verified start serves both tables, `/ingest` counts what it built, uploaded rows are valid |
| `review_client` | any of six pages opened, three clicks, three calls at a time, a network that does what it likes, fair timers | no click applied twice, a page shows the answer to its last question, what waits stops waiting unless a body does not end |
| `notes_append_only`, `dataset_queries`, `model_card` | the smallest instance that shows it | a disagreement of code and documents, see 7 |

Bounds. `MaxEvents` bounds the audit log (no request starts once it is reached;
those under way go on) and `MaxChanges` the changes of the active knowledge
dataset. They leave room for what the properties are about: `workflow_store` has
room for an investigation with two alerts and a request on each of them, which is
write skew's smallest case. In `dataset_registry` one audited change is enough, because
requests under way go on and any number of changes come before it whose event fails or that
a restart cuts off, so uploads, activations, deletions, ingestions and starts meet in every
order; in `dataset_record` two audited changes and the two requests under way then make
upload, deletion and upload again. Two requests are enough
for each hazard of the workflow and the registry, whose writers hold one lock; the
cache has three so that two can miss while a third activates. In `query_pipeline` detectors' scores
are 0 or 1 (`Full` = 1), which meets the boundaries 0.35 and 0.40 exactly (the model
alone, the rule alone, over the sum of all weights) and, with fewer detectors, points
between; of up to three loaded rows the tables have none, one, an account's row before
and between those of another, and three accounts, and one table is longer than what is
loaded; two listed accounts are fewer than the three there can be. Symmetry is used
over requests, and in `dataset_registry` over its two files, in the runs
`dataset_registry` and `governed_api` only, which check no liveness. What does not depend on the bounds is proved (6).

In `governed_api` four requests (`MaxCalls`) are two sign-ins and what two sessions can do
to each other, or a sign-in, its resolution, a change of an alert and whatever ends the
session meanwhile; `MaxSessions` = 1 makes the second sign-in evict, `MaxFailures` = 2 lets
two threads guess at once, and with two ticks of the clock a session (2), its idle time (1),
the window (1) and a lock (1) run out. Two changes meet on one row; a page of two events
(`PageSize`) is shorter than a log of three (`MaxLog`). In `data_install` a file of five rows
has, with chunks of two and a sample of two, three chunks, more normal rows than the sample
takes and a row that is neither; others are shorter, empty and malformed. The bundles differ in
size and completeness, `MaxBlocks` allows the longer one just so; the uploads are accepted
as primary or knowledge, refused for a row, and not recognised. In `review_client`
`GetAttempts` is 2, where the code has 3: one repetition after a first attempt. Three clicks
are two questions and a change of page, or an open dialogue with an inspection and an
upload; `MaxPending` = 3 calls are an old answer, a new one and a change. After `Reload` the
clicks are counted anew.

## 5. Fairness

`WF_vars(Proceed(s))` for each request: a thread of the pool runs its handler to
the end, and no step of `Proceed` waits except for a lock. In `DatasetRegistry`
an upload whose file is stored waits for the event loop, which serves its tasks in turn
(`TakeLoop` is strongly fair), and then, like every writer, for the registry lock:
`TakeLock` is strongly fair. An `RLock` promises no order, but while an upload waits for it
on the loop no request is taken in (`Starts`), so only threads that were started before can
overtake it. `Boot` is weakly fair: the server starts, or fails to and serves. In `ModelCache` weak fairness is enough,
because with at most `MaxChanges` changes the lock is held finitely often. Nothing
is assumed of clients: no request has to arrive. `QueryPipeline` needs no fairness:
`EveryStepProgresses` says that each step of a query lowers a natural number, so a
query that goes on ends. `governed_api` and `data_install` check no liveness.

`TimersRun` in `ReviewClient` is all that is assumed of a browser: the timer of an attempt
that gets no response runs out, and a pause between attempts ends. Nothing is assumed of the
network or the server, nor that an analyst does anything. That is why `StopsWaiting` excepts
a page with a response whose body is being read: no timer guards that.

## 6. What is proved

TLAPS proves these for every value of the constants that satisfies the named
assumptions of the modules.

Assumptions. `InvOfAssumption`: a finding belongs to one investigation. `IdAssumption`: no
identifier is both an alert's and an investigation's.
`FitsAssumption`, `TablesAssumption`, `FirstAssumption`, `ChangesAssumption`,
`BoundAssumption`, `MaxEventsAssumption`: types of the constants.
`BuiltinAssumption`, `KeysAssumption`: identifiers of uploads, which are derived
from a digest, differ from the built-in ones, and keys of the two kinds of model
differ (`"active:"`). `BoundsAssumption`, `ThresholdAssumption`: tables hold accounts,
limits are positive, the low threshold is below the high one (`config.py`). `LockAssumption`: no request is called "free".
`QueuedAssumption`, `ReviewerAssumption`: alerts with a row are alerts, reviewers are users.
`AuthAssumption`: there are finitely many requests and tokens and some user, and the
service's two limits are positive, which its constructor checks, as is the time a
lock lasts (fifteen minutes in the code). `ConcurrentAssumption`:
`max_concurrent` is positive, requests are finitely many. `MaxLogAssumption`,
`PageAssumption`, `SizeAssumption`, `FileAssumption`, `BundleAssumption`,
`UploadAssumption`: types of the constants, among them that a cell's number is a number or
`NaN`. `KeyAssumption`: no two rows of a file draw the same of 2^53 keys, on which the
sample's uniqueness rests. `TableAssumption`: "no table" is not a table.

Eight modules hold the proofs: `WorkflowStoreProofs`, `DatasetRegistryProofs`,
`ModelCacheProofs`, `QueryPipelineProofs`, `GovernedApiProofs` (with those of
`AuthSessions`, `GovernedWorkflow` and `QueryService`), `InstallationProofs`,
`AdaptiveAgentsProofs` and `ReviewClientProofs`.

| Theorem | Statement |
| --- | --- |
| `WorkflowStoreInvariant`, `WorkflowStoreTypes`, `InvestigationStatusTheorem` | `IInv`, `TypeOK`, `InvestigationStatusConsistent` always hold |
| `StoreIsSerial` | `WorkflowStore` implements `CaseWorkflow` |
| `EveryChangeAuditedTheorem` | nothing committed changes without an event, and no event changes |
| `AuditInvariant`, `InvestigationKeptWholeTheorem`, `AuditExplainsAlertsTheorem`, `NotesFollowAuditTheorem` | `AuditInv`, `InvestigationKeptWhole`, `AuditExplainsAlerts`, `NotesFollowAudit` always hold |
| `RegistryInvariant`, `RegistryTypes`, `RegisteredIsCompleteTheorem` | `RInv`, `TypeOK`, `RegisteredIsComplete` always hold, through failures and restarts |
| `OneActivePerTypeTheorem`, `DefaultChangesHaveCauseTheorem` | `OneActivePerType` always holds; `DefaultChangesHaveCause`: whichever built-in tables there are, with every failure, at start-up too, and restarts |
| `FailedUploadLeavesNothingTheorem` | no schema without a row except the one being registered; where the process is not killed |
| `AuditAccountsTheorem` | `AuditAccountsForDatasets` always holds; where the process is not killed and `record_audit_event` does not fail |
| `ModelCacheInvariant`, `CardShowsItsDatasetTheorem`, `TrainedOnceTheorem` | `IInv`, `CardShowsItsDataset`, `TrainedOnce` |
| `QueryInvariant`, `InputsPresentTheorem`, `DetectorsCountedTheorem`, `TraceCompleteTheorem` | `QueryInv`, `InputsPresent`, `DetectorsCounted`, `TraceComplete` always hold |
| `FrameInvariant`, `ListsTheWorstTheorem`, `RuleHitIsReviewedTheorem` | `PipelineInv`, `ListsTheWorst`, `RuleHitIsReviewed` always hold |
| `ListedAreExplainedTheorem` | `ListedAreExplained` always holds; where `MaxListed` is at most `MaxExplained` (both are 20 in the code) |
| `BandsAgreeTheorem` | `BandsAgree` always holds; with the thresholds 35 and 70 of a default installation |
| `EveryStepProgressesTheorem` | each step of a query that has not ended lowers `Remaining`, a natural number |
| `AuthInvariant`, `GuessesBoundedTheorem`, `SessionsBoundedTheorem`, `EndedStaysEndedTheorem` | `AuthInv`, `GuessesBounded`, `SessionsBounded` always hold; `EndedStaysEnded` |
| `QueueInvariant`, `QueueIsSerialTheorem`, `NotesOnlyGrowTheorem`, `PageNotShortTheorem` | `QueueInv`, `PageNotShort` always hold; `GovernedWorkflow` implements `GovernedCase`; notes only grow |
| `ApiComposes`, `ApiPromises`, `ApiTypes`, `PermitsConservedTheorem`, `EventsByReviewersTheorem` | the API is each of its three services, with their theorems; `ApiTypeOK`, `PermitsConserved`, `EventsByReviewers` always hold |
| `InstallationInvariant`, `TablesReplacedWholeTheorem` | `InstallInv` always holds; `Installation` implements `PublishedTables` |
| `ServesBothTablesTheorem`, `AnswersCountTablesTheorem`, `UploadedRowsAreValidTheorem` | `ServesBothTables`, `UploadedRowsAreValid` always hold; `AnswersCountTables` |
| `PlanCompleteTheorem`, `DefaultLimitFits`, `FindingsAccountableTheorem` | plans are whole, the default limit refuses none, findings account for every signal |
| `ScoreBudgetTheorem`, `RenderBudgetTheorem` | what gets out of `score` and `render` is within the budget, for every clock that does not go back |
| `WithinEvidenceTheorem`, `BandsFollowScoreTheorem` | a decision lies within its evidence and follows its bands, for every policy |
| `ClientInvariant`, `ClickAppliedTheorem`, `ShowsItsAnswerTheorem` | `ClientInv`, `ClickAppliedAtMostOnce`, `ShowsItsAnswer` always hold |

The conditions in the registry's last two theorems are needed.
Where the process can be killed, a restart after CREATE SCHEMA leaves a schema. The event
of a change is written after the change has been committed, so a kill in between, or a
`record_audit_event` that raises, leaves an upload that the log does not have. The
conditions of `ListedAreExplainedTheorem` and `BandsAgreeTheorem` are numbers that stand in
several files of the code: with a smaller `max_entities`, or with other thresholds in the
environment, the properties are false.

*Review queue.* `InvestigationStatusConsistent` is not inductive: a commit writes
an investigation row that was computed earlier. `IInv` says why it is still right.
`SnapshotInv`: a request's snapshot differs from the committed alerts of an
investigation only if that investigation's row was committed after the snapshot,
and then the row is in the request's `dirty` set; `ConflictInv`: a request that
has written the row has it not in `dirty`. So the alerts a committing request saw
are the committed ones. This also makes every commit one step of `CaseWorkflow`,
which is `StoreIsSerial`.

*The log of the queue.* `AuditInv` ties rows to positions of the log. `InvestigationKeptWhole`
and `NotesFollowAudit` speak of events that exist in some order, so a step has to give the
new positions; a commit appends, and positions found before stay good (`LogKept`,
`EventsAfter`). Two facts about requests make it inductive: while a response is being
inserted, each of its findings has been inserted at most once (`Made`), and the notes that a
request has read before its transaction are in the log although the column may have moved
on (`Seen`). So what `CommitNote` writes, an old value and one more entry, still follows
the log, also where it overwrites another analyst's note (7). That the latest event of an
alert explains its row (`AuditExplainsAlerts`) needs that events about an alert are never
about an investigation, which is `IdAssumption`.

*Registry.* `RInv` adds to completeness what a request knows at each stage
(`StageOK`), that the stages between taking and releasing the lock are exactly the
lock holder's (`LockHeld`), that nothing is served during start-up, and that there are no
rows without the registry's table (`TableThere`). The proof has a lemma for
each action; the holder's step cannot disturb other requests, since what they rely
on needs the lock (`StagesOfOthers`). With `RInv`, `OneActivePerType` is inductive: each step
leaves the active datasets of a type alone (`Kept`), adds the built-in one as the newest
(`Joined`) or makes the dataset of one request the only one (`Switches`,
`EveryStepIsActiveStep`). A request that initialises the registry finds no active dataset of
the type it inserts (`EnsureStage`), so only a start adds a second one. That it is then the
default, and that nothing else changes the default, needs that no row is newer than one
that is not there yet (`OlderRegistered`). The log's account
is kept for each content by counting: the events written and those a request has still to
write (`Uploads`, `Deletions`). A step moves at most one event from the second to the first
(`PendingStep`, `LoggedStep`), and a dataset appears or disappears in the step that makes
its event due. `OtherStage` had to say that a dataset being deleted is registered.

*Cache.* `KeyIsSource` (key and table come from one read) gives
`CardShowsItsDataset`; `TrainingExclusive` (who trains holds the lock, and its key
is not in the cache) gives `TrainedOnce`.

*Query.* That a detector finds its columns depends on what ran before it. `QueryInv`
says that the tools that ran come before those left in the planner's order and are
the plan with them (`OrderInv`), and that the frame has the score column of a
detector exactly if it ran, and the computed columns if features were computed
(`ColumnInv`). `PatternInputs` is the fact about the tables: the families computed
for a pattern cover what its rules read. The prover splits it by pattern, so a
pattern added to one table only breaks the proof.

*Answers.* `FrameInv` says of the rows that scores are those of the findings as they are
now (`ScoredInv`) and actions those of the scores (`ActionInv`); both hold because the
tools that could change what they were taken from come earlier in the order. `GenInv` and
`ExplainInv` say that the rows left to explain are the last of those chosen at first, which
the texts written since do not change, and that the others have their texts.
`AnswerInv` is the definition of the response, kept. The worst rows are an arrangement that
has to exist: `SortedExists` gives each row the number of rows before it as its place,
which is a bijection because `Before` is a strict total order, so no induction on the
number of rows is needed; `SameWorst`, that the choice depends on accounts and risks only,
is why `explain` and `_assemble_response` find the same rows. `BestCount` counts accounts at
risk by their best rows. A hit of the rule is 8 of at most 20 twentieths (`HitIsAtLeast`):
the share of one applied rule is 1, whatever the other detectors find, so it reaches 0.40
exactly when all three ran. `Remaining` falls by one at least in every step; its terms are
linear once the product of tools left and steps per tool is taken as one number (`Scaled`).

*Alternate agents.* These are facts about functions. Where the deadline passes at one of
many checkpoints, the first is needed: `LeastNatural` proves that a set of numbers has a
least one from the well-foundedness of inclusion on finite sets, which the library states
without a predicate as parameter. A weighted mean lies between bounds because the division
is undone (`Nearest`).

*Client.* `ClientInv` says that what may change the server is on its first attempt
(`SentOnce`), that whatever is on the wire or applied is a first attempt (`WireInv`), that
the call of the current run of a list's effect asks for the filters shown (`ListInv`), and
that the command center waits for one call at most, which is the query asked last
(`DeskInv`). Both lists and the command center show the answer to their last question unless
they are loading, show an error, or had one wiped out (`cleared`), which only the next
question ends. The two properties follow at once.

*What the proofs changed in the models.* The proof of the queue's log needed
`IdAssumption`, and found guards of `AuditExplainsAlerts` that overlapped for an analyst
with the name of a disposition. That of the query found explanation steps still enabled in
a query that had failed (`Generating` now asks for the stage), and replaced a sort by
definition (`Worst`).

*Sessions.* `GuessesBounded` counts recorded failures and guesses under way.
`FailuresLock` makes it inductive: a key with enough failures is locked, so who passes
the limit finds fewer than that, and recording a failure only turns a guess under way
into one that is counted. That `PassRateLimit` forgets the failures with the lock is what keeps
`FailuresLock`. `EndedStaysEnded` needs no more than that a token is handed out once.

*Governed queue.* `QueueInv` says that a snapshot differs from its row only in columns
the request knows to be stale (`Snapshot`), that who has written a column is alone and not
stale (`NoConflict`), and that what was counted is still in the log (`PageTrue`). So a
commit merges into the row what it would have made of it (`MergedIsChanged`), which is one
step of `GovernedCase`; that notes only grow follows.

*Composition.* Every step of the API is a step or a stutter of each service
(`ApiStepOfServices`), so `ApiSpec` implies their three specifications and inherits their
theorems. `ActorsKnown` relates two of them: the actor of an open transaction has a session
record, which survives the session.

*Tables.* `ScanInv` says what an ingestion holds after n rows: all of them, or the
positives among them and their sample. `SmallestOfUnion` carries the sample through a chunk:
the smallest of the smallest so far and the new ones are the smallest of all, and
`RankContinues` that the generator's next number is the same however rows are cut into
chunks. Hence `PublishInv`, a table about to be published is whole, and the
implementation. `CountInv` and `DiskInv` are the same for the counts and the database file.

## 7. Where code and documents differ

Shown by a run:

- `notes_append_only`: `append_alert_note` writes the notes column from a row read
  before its transaction; of two notes at a time one disappears from the column
  (its audit event stays). The governed queue does not have this (`NotesOnlyGrow`).
- `dataset_queries`: a query resolves its table and selects from it without the
  lock; a forced re-upload in between lets it read a part of the dataset.
- `model_card`: after an upload of a knowledge dataset the card shows a model that no
  query is scored with, because only the activation handler clears the cache.

Met while modelling, and part of the models' behaviours:

- "activation is explicit" and "inactive datasets cannot silently replace active evidence"
  (`README.md:293`, `:607`): an upload of primary or knowledge data is active as soon as it
  is registered and deactivates the dataset before it (`dataset_store.py:499`). A start
  inserts a missing built-in row as active and newest (`dataset_store.py:100`): if `/ingest`
  builds a table after an upload, or a statement failed at an earlier start, the next one
  changes the default without any request. `DefaultChangesHaveCause` lists both as causes;
  it says that there is no other.
- A failing start-up statement is logged and the server serves (`main.py:92`). The registry
  then lacks a built-in row, so a type may have no active dataset, and no request repeats
  the insertion, because its table exists (`dataset_store.py:164`).
- `_table_exists` asks for a name in any schema. After an upload, `/ingest` without
  `force` skips the missing built-in table and then fails on it; `/ready` asks the same way
  (`data_loader.py:163`).
- A first ingestion that is killed or fails leaves a database file, so later starts ingest
  nothing and the bootstrap refuses the file (`main.py:68`, `bootstrap_data.py`).
- A query loads at most 1,000 matching rows and an aggregation counts only those.
- `inspect_upload` never warns of a missing label in an IBM file, since its map always has
  the field. SAML-D headings in another case are detected and then refused.
- `chooseFile` does not look which file an answer is for: the dialogue may show the
  inspection of the file chosen before, although it says "inspected before ingest"
  (`UploadModal.tsx:83`). The server validates the file again.
- After a question that was answered and one that failed, "Dismiss error" leaves the answer
  to the first on the page while the second is the last one asked (`CommandCenter.tsx:763`,
  `:684`).
- The review queue takes answers to tabs that were left; an error of Customers is cleared by
  opening a customer; refreshes of Datasets may overlap; the note field is emptied when the
  answer comes, with what was typed meanwhile (`ReviewQueue.tsx:83`); a POST that timed out
  may be applied after a later one.

## 8. Only model-checked, and not modelled

Only model-checked: liveness (`RequestsGetThrough`, `EveryRequestAnswered`,
`EveryCallEnds`, `StopsWaiting`), because fairness and ENABLED are out of the prover's
reach; the three disagreements of section 7, which are counterexamples; and that the
evidence of a finding is well formed (`IsEvidence`), a sum over a set. Every other property
of a run is a theorem. Induction on data is available only where it can be stated without
a predicate as parameter, as `LeastNatural` does; where it was not, a definition says what
a loop computes instead of how (`Worst`, the smallest keys of a sample).

Abstracted within the modelled components: SQL values no property tells apart, time
outside `AuthSessions` (order of events instead), the chunks of an uploaded table (none,
some, all), hashing (a password is right or wrong), cookies and headers, the banks and
payment formats of a row. `Installation` assumes that a source is replaced by a rename, so
an open file is read to its end; an upload's registration is one step there, since its
steps are `DatasetRegistry`'s; dropping and creating a staging table are one step, since
nobody reads it.

Not modelled, for the reasons `PROJECT.json` names with each component: wording and layout
of answers, floating-point scores, statistics, drift and charts; readers that keep no
state; pages of the client that read once and show; its local history, which is written
synchronously; its sign-in, which nothing mounts; reasons and rationales of the alternate
agents; external services.
