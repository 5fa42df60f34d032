# TimberOps in TLA+

TimberOps is a weighing and billing system for a timber yard: a FastAPI backend
over PostgreSQL (`src/backend/app`), a Vue front end (`src/frontend/src`), a
weighbridge adapter, an AI assistant over read-only tools, and database
backup scripts (`src/scripts`). This directory holds TLA+ modules of the parts
that keep business facts, the TLC configurations that check them on small
instances, and proofs, checked by TLAPS, of the most important of them for
instances of any size.

All paths below are relative to `src/`; `services/x.py` means
`backend/app/services/x.py`.

## 1. The system

The backend runs as several uvicorn workers. A request gets a database session
of its own (`db/session.py`: `autoflush=False`, `expire_on_commit=False`,
PostgreSQL's default READ COMMITTED), a handler runs in a thread and issues SQL
statements one after the other, and the session commits once, at the end, or is
closed and rolled back. So everything hard in the backend comes from what
another request may commit between two statements of this one, and from the row
locks that are, or are not, taken against it. Permissions are checked in a
session of their own that is over before the handler starts
(`security/permissions.py`).

| Component | State it keeps | Operations | What is hard | What makes it correct |
|---|---|---|---|---|
| Weight calculation (`domain/weighing.py`) | none | quantize, calculate | weights at the limit and at the tare, differences of rounded values | the verdict agrees with the weights; a refusal happens exactly when it should |
| Weighing tasks (`services/weighing_service.py`) | `weighing_tasks`, `weighing_records` | create, tare, finish loading, gross, reweigh, complete, delete, cancel, detail page | requests racing on one task; `sequence_no = max + 1`; partial failure of complete; multi-statement reads | append-only history, summary agrees with it, completed facts never change |
| Billing (`services/billing_service.py`) | `billing_records` | fee on completion, pay, waive | racing a reversal it does not lock against; repeated calls | one fee per completed task, settled at most once, never after a reversal |
| Reversal (`services/weighing_reversal_service.py`) | `weighing_reversals` | reverse | unlocked read of the fee; foreign-key locks | one reversal, of a completed task, that tells the truth about the payment |
| Vehicles, customers (`services/vehicle_service.py`, `customer_service.py`) | `vehicles`, `customers` | create, update, soft delete | check-then-act against create_task; two locks; unlocked updates | nothing with history is deleted; plates are unique; started tasks can be priced |
| Roles (`services/rbac_service.py`), bootstrap (`services/bootstrap_admin_service.py`, `cli/bootstrap_admin.py`), registration (`services/user_service.py`) | `users`, `user_roles` | register, assign, remove, bootstrap | last ADMIN removed twice; two bootstraps; registration under a prompt | there is an ADMIN for ever; one bootstrap; the first ADMIN knows its password |
| Audit log (`models/audit_log.py`) | `audit_logs` | append within the transactions above | rows missing or written for refused calls | the rows account for the state |
| Analytics, dashboard, reports, export (`services/analytics_service.py`, `dashboard_service.py`, `report_service.py`, `export_service.py`) | none | read | several statements without a snapshot; business days and months; reversed and deleted tasks | a figure misses nothing but what was reversed meanwhile, is traceable to tasks, and agrees with the other figures |
| Weighbridge (`integrations/weighbridge`) and device panel (`frontend/src/views/weighing/Workbench.vue`) | shared reading index, device status; reading, timer | read, poll, fall back to manual, reconnect, leave | timers and awaits that finish out of order; one sequence of readings for all pollers | readings are shown in order, one timer per view, none in manual mode |
| Workbench page (`Workbench.vue`) | the task as loaded, forms, pending actions | load, enter, submit, retry | stale pages, late and lost answers, other clients | what is changed is what the operator saw; the preview is the verdict |
| Front-end session (`frontend/src/stores/auth.ts`, `api/request.ts`, `router/index.ts`) | token, identity, page | login, restore, logout, 401, guard | late answers of earlier requests; roles changed between two reads | logins end; a tab without a token leaves the app at the next refusal; identity and token belong together (violated) |
| AI agent (`integrations/ai`, `api/v1/ai.py`) | messages of one request | model/tool loop | threads and connections shared with business requests; deadline while a tool runs | business is served, every request ends, tools return their connections |
| Business counters (`observability/metrics.py`) | counters in files | count after commit | death between commit and count; restarts; several workers | no event is counted twice or early, none disappears unaccounted |
| Request pipeline (`middleware/request_logging.py`, `api/exceptions.py`, `main.py`) | the record of a request | handle, log, answer | errors before and after the response has started; cancellation | every request leaves one record that tells what was answered |
| Backup and restore (`scripts/db_recovery.py`) | archive and manifest files, new databases | backup, restore | failure or death between two steps, a migration or another run in between | an archive is whole, an accepted restore is the backup, the configured database is not touched |

Calls between components: the task service calls billing when it completes a
task, in the same session and transaction; task creation locks the vehicle and
the customer; reversal and payment meet only through the rows of the fee and
the reversal; every service appends to the audit log in its own transaction;
everything that reads statistics reads the same tables.

The `hazards` of `PROJECT.json` list each of the hard places with its line and
the properties that watch it.

## 2. Modules

```
WeightCalculation            quantize_tons, calculate_weight      (pure operators)
   |
WeighingLedger               the rows after each committed transaction (abstract specification)
   |      \
   |       WeighingLedgerProofs     TLAPS proofs
   |
WeighingRequests             the same operations as requests, statement by statement;
   |                         implements WeighingLedger (refinement mapping in the module)
   WeighingRequestsProofs    TLAPS proofs, the last round over those of the ledger

Workbench                    EXTENDS WeighingLedger: one page beside all other clients
   |
   WorkbenchProofs           TLAPS proofs, over those of the ledger; and of DevicePanel

Statistics                   INSTANCE WeighingLedger: figures, periods, a clock
   |
   StatisticsProofs          TLAPS proofs, over those of the ledger

BusinessMetrics              counters after the commits of the handlers
   |
   ObservabilityProofs       TLAPS proofs; and of RequestPipeline and WorkerRequests

MasterRecords                the rows of vehicles, customers and tasks after each committed
   |                         transaction (abstract specification)
MasterData                   the same operations as requests; implements MasterRecords
   |
   MasterDataProofs          TLAPS proofs

AccessRecords                accounts and role assignments after each committed transaction
   |                         (abstract specification)
RoleGrants                   the same operations as requests; implements AccessRecords
   |
   AccessProofs              TLAPS proofs; and of AuthSession

AuthSession   DevicePanel    token, identity and page of one browser tab; the weighbridge
         \     /             adapter, its simulator and the views that poll it
        MCFrontend

WorkerRequests  RequestPipeline   threads, connections and the agent's loop of one worker;
           \     /                the layers, handlers and records around an endpoint
          MCWorker

BackupRestore                backup_db.py and restore_db.py over files and databases
   |
   BackupRestoreProofs       TLAPS proofs
```

The modules `MC...` hold the constants of the instances, and there is one `.cfg`
per run. `MCFrontend` and `MCWorker` put two specifications side by side that
share no data: a behaviour moves in one of them only, which `part` and `side`
tell, so the states add up and do not multiply.

**WeightCalculation.** Weights are integers. A *raw* weight counts units of
0.0001 t, a *tick* is 0.001 t, the third decimal that `NUMERIC(10, 3)` stores,
so a raw weight can lie between two ticks and at a tie. `QuantizeTons` rounds
half up away from zero as `ROUND_HALF_UP` does; `Calculable` is when
`calculate_weight` does not raise, `CalculateWeight` what it returns. The
function accepts any Decimal and is modelled so. The API gives it three decimals
(`schemas/weighing.py:21`, `schemas/vehicle.py:12`, the columns of the limits),
so through the API nothing is ever rounded and no tie arises. The
reference the arithmetic is compared with is in `WeighingLedger`: the closest
tick, found without division (`ClosestTick`, used by `EveryReadingJudged`).

**WeighingLedger.** One action per operation: `CreateTask`, `RecordTare`,
`PrepareForGross`, `RecordGross`, `RecordReweigh`, `CompleteTask`, `DeleteTask`,
`CancelTask`, `MarkPaid`, `Waive`, `Reverse`. Guards are the handler's checks in
its order, and a refused or idempotently answered call is a stuttering step.
The variables are the columns, `verdict` grouping the four that
`calculate_weight` returns, `readings` the `weighing_records` rows in the order
of `sequence_no`, `audit` how many audit rows of each action there are.
`Legacy` tasks were completed before migration `c7b9e2f4a610` added the billing
tables: they have readings but no fee, and both `reverse` and the API have
branches for them.

**WeighingRequests.** `session[s]` is a request in progress: its operation,
where it is (`pc`) and what it has read. Each SQL statement is an action.
`SELECT ... FOR UPDATE` on a task or a fee is `LockTask`, `LockFee`: enabled
when the row is free, they read the row as it is then, which is what PostgreSQL
does under READ COMMITTED after a wait. The flush of a reversal takes a KEY
SHARE lock on the fee through its foreign key (`FlushReversal`), which waits for
a FOR UPDATE holder and makes a later one wait; nothing else keeps a payment
and a reversal apart. A commit writes what the session computed from what it
had read, not what is there now. `Abort` ends a session without a commit at any
point: an error, a lost connection, a killed worker. The instance `Ledger`
carries the refinement mapping; sequence numbers are explicit here, and the
ledger's `readings` are the rows in their order. `WaitsFor(s, r)` says that the
next statement of `s` needs a row that `r` has locked.

**MasterRecords** and **MasterData.** Same style for vehicles and customers:
`MasterRecords` has each operation at once on the rows as they are, `MasterData`
the requests; it EXTENDS the abstract module, whose variables are among its own, so
the refinement mapping is the identity. `create_task` locks the
vehicle, then the customer, FOR UPDATE; the deletions lock the row they
delete and then count its tasks; the updates lock nothing and write the columns
that changed since they read (`Written`); pricing reads the vehicle without a
lock and its flush takes KEY SHARE. `update_vehicle`'s branch for a new plate
cannot be reached, since `VehicleUpdate` has no such field. Vehicles in
`Untyped` come from before the standard vehicle types and have type NULL.
Weighing itself does not touch these rows, so a task here is only created and
priced; the choice among billing rules is left to the ledger's refusal.

**AccessRecords** and **RoleGrants.** `AccessRecords` has registration,
assignment, removal and bootstrap at once, on the committed accounts and
assignments. In `RoleGrants`, `Begin` is a request, `CheckPermission` the check in its own
session, then one action per statement of `assign_role`, `remove_role`,
`register` and of the bootstrap, whose first look (`AssertBootstrapAvailable`)
happens before the prompts and whose second (`AdminExists`) under the lock of
the ADMIN role. A session of `remove_role` remembers the assignment row it has
read; it is `"gone"` once another request deletes it, because deleting by id
then deletes nothing even if the role has been assigned anew. `AccessRecords` does
not know who asks: a permission is read before the request begins, so all that
is left of it at the commit is that somebody is ADMIN.

**Workbench.** `Workbench.vue` beside everybody else. The page keeps the task as
its last answered load found it (`shown`), one form per weighing, and an
`acting` flag. `Submit` is a click; the request then is executed
(`Execute`, one action of the ledger with the weight that was sent), refused or
lost (`NotExecuted`), and answered or given up (`Succeeds`, `GiveUp`), in any
order that the client's timeout allows: a request that was given up may still
be executed later. Only a success loads again, and loads may overtake each
other. `Elsewhere` is any operation of any other client on the task; payments
and reversals are left out since no step of the page depends on them. The
submit functions are guarded by `acting` alone, as in the source. An entry
remembers the version that was shown when it was typed; this is not in the
source, only the property looks at it. The preview is the integer arithmetic
of the page itself (`utils/format.ts`), not the backend's.

**DevicePanel.** The other half of `Workbench.vue`: `mode` is the configured
adapter, `panel` the refs of each mounted view, `asked` its requests as
coroutines. `live` counts the intervals that still fire, `timer` is the one the
view remembers, so a timer that is lost track of can be seen. The simulator's
lock, its index and its configured readings, invalid ones included, are shared
by all views.

**Statistics.** Every count and sum is a set of tasks: the weights and the fee
of a completed task are frozen (`CompletedFactsFrozen`), so a sum over the same
set is the same. A query is a list of statements executed one by one
while `Ledger!Next` and the clock go on. Days begin `Offset` before the UTC day.
The limit of ten of the lifetime ranking is abstracted.

**AuthSession.** Logins, `restoreSession` and page requests are coroutines over
one store. `load` has the two requests of `loadIdentity`, roles and permissions,
which the server answers apart; any 401 clears the token that is current when it
arrives, whatever token the request carried. The page `"app"` stands for every
page behind the guard: all of them ask for their data on arrival but the
assistant's, so `FinishNavigation` may send a request or not. One tab; the
server's checks of token and user are made anew at every request. `EveryWaitIsAnswered` relates
who waits (a guard, a submitted login, a load) to what was sent for it.

**BusinessMetrics.** A handler commits under its locks and then, without them,
counts one counter after the other; a counter's update may fail and is
swallowed, a worker may die anywhere, a container's start deletes the counter
files. `before` and `lost` are history: what was committed before the container
started, and what was given up.

**WorkerRequests.** Which request has a thread and which a connection. User and
permission checks are short sessions in threads; a business handler keeps its
connection until its response is validated, in a thread again, and closed. A
chat alternates between the model, on no thread, and tools, each with a session
of its own; its deadline abandons the tools' threads, not their work.
`MaxRounds` stands for the agent's recursion limit. A request is served once.
A handler may return without ever having a connection (`ReturnWithoutQuery`):
the weighbridge's have no session, and others refuse their arguments first.
`HeldIsUsed` says who may hold what, and when.

**RequestPipeline.** The layers in the order `create_app` adds them, the
exception classes with their registered handlers, responses that have or have
not started, cancellation, and what the logging middleware and the chat's
middleware record. Handlers for the classes are found as starlette finds them,
along the class's ancestors. Debug mode is off, and identity, address and
route are payload. `CORSMiddleware`, which `create_app` puts between the two
middlewares when origins are configured, is no layer of the model: it adds
headers, and a preflight that it answers itself gets a request record but no
chat record.

**BackupRestore.** A file is an inode with a name, because `create_backup`
writes under a `.part` name, renames, hashes and then writes the manifest, and
another run may unlink or rename in between. A database is its revision and a
number standing for its rows. Tools fail at any step, the process may die at any
step, and application and alembic go on. That `pg_restore` refuses an archive
that is not whole is assumed. `SameSecond` tells whether two backups
may take their name, which has the second in it, in the same second.

The operators under "Deliberate faults" in each module are used by no
specification. Each is a plausible bug, listed in `PROJECT.json` with the
definition it would replace and the property that notices.

## 3. Runs

| Run | Question | Instance |
|---|---|---|
| `ledger` | Do the committed rows stay consistent under every sequence of operations, and is every reading judged as the displayed weights say? | one new task and one legacy task, four weights around a limit of 20 or 30, up to 4 readings; for the arithmetic every raw weight from 0 to 50 against every stored tare and limit |
| `requests` | Do interleaved, abandonable requests only commit what the ledger allows, stay right about what they locked, never wait in a circle, and end? | one task, two sessions, two weights, a limit at the lighter (every gross is overweight) or at the heavier, up to 3 readings |
| `paid_reversal` | *(violation)* Is a reversed task never paid? | the same |
| `master_data` | Do deletions, updates and registrations interleave safely with create_task and pricing, each as if at once, and never wait in a circle? | an untyped and an unregistered vehicle, one customer, two plates, limits and contacts, one task, two sessions |
| `role_grants` | Do registrations, role changes and bootstraps racing for two names come out as if each had happened at once, and keep an ADMIN? | two names, two passwords, two roles, three sessions |
| `workbench` | Does a stale page change only what its operator saw, and was the preview right? | one task, two actions and two loads under way, three weights, all other clients |
| `statistics` | What can an answer miss or invent when the ledger and the clock move between its statements? Do the reports of days and months agree? | a new and a legacy task, of which one moves, four instants in three business days of two months, four kinds of answer |
| `backup_restore` | Are archives whole, restorable and restored as they are, whatever fails? Can two restores fill one database? | two backups, two restores, one new name, two seconds, revisions 0 to 2 |
| `frontend` | Is whatever the tab waits for on its way, does a tab that has lost its token leave at the next refusal, does every login end? Are readings in order, is there one timer, and none in manual mode? | session: one user, two tokens, one submission and one request per token in flight; panel: one view with three requests and two reconnections, three readings, the second invalid |
| `auth_identity` | *(violation)* Does the identity belong to the token? | two users, one submission form |
| `worker` | Is everything held in use, within the pools, does everything end and return what it took? Does every request leave one true record, whatever breaks? | two business requests and a chat with two tools, one thread, one connection; one request for the layers, every error class, an id the client may supply |
| `business_metrics` | What is counted, how often, and what is lost? | two tasks, two requests, any number of deaths and restarts |

Why these bounds are enough for the cases that matter. Tasks share no row, so
one task shows every conflict there is on tasks, and in `statistics`, whose properties
speak of one task at a time, one of the two moves in a behaviour (`moved`). Every conflict in this code is
between two requests, one that checks and one that changes; two sessions give
every such pair at every statement, and `role_grants` has a third that could
free or take a lock in between. On the page the conflicts are between an
answer and what was begun later, so two loads, two actions, or three
requests of a view, let each overtake the others. Two backups share a name, two
restores a target; a third of either could do nothing new to the first. Three
readings give tare, an overweight gross and a reweigh that passes or does not,
the fourth in `ledger` a reweigh after a reweigh; weights are chosen so that a
gross may be below, at and above the limit. Four instants hold a task completed
before, at and after midnight of both a day and a month. `MaxReadings` bounds the readings of a task in the guards of the weighing operations, and the
proofs hold for every value of it. The other bounds in guards are named in the
constants of their modules: `MaxRev`, `MaxRows`, `MaxSecond` (BackupRestore),
`MaxNow` (Statistics), `Retries` (DevicePanel), `Tokens`, `InFlight`, `Targets`
(AuthSession), `MaxRounds` (WorkerRequests), `Weights`
(Workbench: what an operator may enter).

`CHECK_DEADLOCK FALSE` is said where the system really may stop: every task
completed, cancelled or deleted (ledger, statistics, workbench), every view left
or token used up, every run of a script ended, every request served. The request
modules of the database, `RoleGrants` and `BusinessMetrics` never stop, since a
client can always send again. That no requests wait for each other's locks does
not follow from this, because any of them may be aborted: it is
`NobodyWaitsInCircle` in `requests` and in `master_data`. It speaks of the locks
and not of `ENABLED`, so that it can be proved for any number of sessions.

**Fairness** is assumed in three runs. `requests` assumes weak fairness of the
statements of a request (a worker thread goes on executing its handler) and
strong fairness of the statements that wait for a row lock (PostgreSQL queues the
waiters of a row, so one whose row becomes free again and again gets it).
Nothing makes a client send a request or a session fail: `Abort` is not fair, so
the result does not rest on failures freeing locks.

In `frontend`, when the tab's session moves: every request is answered or times
out (axios has a timeout of 15 s), so the answer and the refusal of a request are
weakly fair *together*, as is each step of a coroutine and the end of a
navigation; users do nothing fairly. In `worker`, when threads and connections
move: threads, queries, the closing of sessions and the deadline of a chat are
weakly fair (time passes); the model is not, a chat may wait for it until the
deadline, and neither is `ReturnWithoutQuery`, since a handler that waits for a
connection has no other way out than the pool's timeout.

Four limits of the liveness of the tab. A guard may redirect for ever (`tab.at
= "loop"`, section 4), which `TokenlessAppLeaves` and `LoginEnds` except. `Grant`
only adds roles; a role taken away is the other way into that loop. And requests
that fail without an answer (`Fails`) are left out of the run: with them
`LoginEnds` still holds, while a tab whose token was cleared by a catch stays on
its page until its next request or navigation. Nor does a cleared token alone make
the tab leave (section 4): `TokenlessAppLeaves` promises it for
a tab that has a refusal still to come, of a request that it makes without a
token or has made with an expired one.

## 4. What the checks found

Two statements of the repository are refuted by a run.

- **A task whose fee is PAID can be reversed** (`paid_reversal`). `reverse` reads
  the fee without a lock (`services/weighing_reversal_service.py:54`) and refuses
  PAID. A payment that holds the fee's row at that time may commit after the
  reading; the reversal's insert waits for it on the foreign key, then succeeds
  with the snapshot UNPAID. `domain/exceptions.py:59` and
  `docs/business-flow.md:105` say a paid task cannot be reversed. The opposite
  order is safe: `CheckedFeeStaysOpen` and `PaymentSettlesOnce` hold.
- **One user's identity over another's token** (`auth_identity`). `loadIdentity`
  assigns what it gets without looking whether the token is still the one it
  asked with; `frontend/README.md:50`.

Other divergences were met while modelling. The models do what the code does,
and no run is spent on them:

- Role changes are not audited. `assign_role` and `remove_role` write no
  `AuditLog`; `docs/business-flow.md:112` and `docs/architecture.md:60` say role
  changes do.
- A manifest may name the wrong revision. The revisions are read before the
  dump; a migration in between makes `restore_backup` refuse a sound archive
  (`docs/deployment.md:104`). `BackupIsRestorable` excepts it (`migrated`).
- Two backups of one second spoil each other's files: the check that the
  destination does not exist (`scripts/db_recovery.py:248`) is made before the
  dump, the rename after it looks no more. With `SameSecond = TRUE` the instance
  of `backup_restore` violates `PublishedIsWhole`; the run has it `FALSE`.
- Deleted tasks stay in the overweight list (`OverweightIn`);
  `docs/business-flow.md:80` says statistics leave out soft-deleted data.
- A navigation that never ends: a role taken away between the reads of roles and
  of permissions makes the guard redirect from `/` to `/` (`Allowed`);
  `frontend/README.md:52`.
- A 401 may leave a tab without a token on the assistant's page. The handler goes
  to the login page unless that is the current route (`router/index.ts:114-121`),
  which it still is while the page after a login is being loaded; a late 401 to
  the old token then clears the new one, and nothing leads back. Pages that ask
  for data on arrival are refused and do go back; `views/ai/Assistant.vue`, by
  `/login?redirect=/ai`, asks nothing and stays until the next request or
  navigation. TLC refutes `TokenlessAppLeaves` without its third conjunct this
  way; `frontend/README.md:51` says a 401 goes to the login page.
- A failed readiness check is recorded at ERROR (`Level` of a 503);
  `docs/observability.md:60` says WARNING.
- The gauges of the connection pool are sampled before a connection is back, and
  a scrape refreshes only the worker that answers it; `docs/metrics.md:25` reads
  as if they were current. This one is not modelled.

Everything else checked holds. The page's promise that "the final result is the
backend's" holds in a strong form: a page never submits a step the task has left,
and never previews another verdict than the one that is stored, although the
API takes no version from the client. The reason is in section 5.

## 5. Proofs

Every safety property that a passing run checks is proved for every value of
the constants that satisfies the assumptions its module names and the hypothesis
its theorem states, if it has one. Each of the three modules of database requests
is proved to implement its abstract specification.

`WeighingLedgerProofs` proves for every set of tasks, weights and limits and
every `MaxReadings`, from the three assumptions on constants in
`WeighingLedger`, that every state property of the ledger is invariant and
every step keeps its action properties.

The properties are not inductive one by one: that a deleted task was never
billed needs that only completed tasks are billed, that a reweigh follows an
overweight reading needs that the summary is the verdict of the newest reading,
that the audit counts match needs the shape of the history. Together they are:
`Good(t)` is the conjunction for one task, plus that legacy tasks stay
completed, and `IndInv` is `TypeOK` with `Good` of every task. The run `ledger`
checks `IndInv` as an invariant too. Every operation touches one task, so
lemma `OtherTasks` carries `Good` of the others over a step, and one lemma per
operation handles its own task. `Inductive` is `Spec => []IndInv`; the named
invariants and the action properties `CompletedFrozen`, `PaymentOnce` and
`AppendOnly` follow from it. `QuantizeFaithful` is about the rounding: it moves
no weight by more than half a tick and never reverses an order.
`ReadingsJudged` is about the arithmetic: no other tick is as close to a raw weight
as the rounded one, ties excepted (`QuantizeClosest`), so judging by the
displayed weights and judging by the code's formula agree. It needs one fact of
the behaviour, that a task that exists has a positive limit (`LimitSet`).

`WeighingRequestsProofs` proves that the requests implement the ledger
(`RequestsImplementLedger`) and the invariants of `WeighingRequests`, in four
rounds.

1. *Locks.* `IInv` says what each session that has got past a lock still
   knows: it holds the row (`Holding`), the task is as it read it (`KnowsTask`), the
   records it counted are all there are (`KnowsRecords`), the fee it checked is
   still open (`KnowsFee`). Besides, the sequence numbers of a task are 1 to n
   (`Numbered`), and FOR UPDATE and KEY SHARE on one fee exclude each other
   (`FeeLocksExclude`). It is inductive without any knowledge of what the ledger's
   states look like: `Frame` and `OthersKeep` say why another session's step
   disturbs none of it, and one lemma per statement does its own session.
2. *Refinement.* Under `IInv` each statement maps to a stutter and each commit
   to the operation of the ledger that its guards, read earlier, still allow
   (`LedgerTares`, `LedgerCompletes` and so on; `EveryStep`). The ledger's
   `readings` are the rows in the order of their numbers (`OrderOfNumber`,
   `ReadingsAppended`). This is where max + 1 of rows read under the task's lock
   matters: the row is appended.
3. *History.* The ledger's own `IndInv`, proved in `WeighingLedgerProofs`, is
   then an invariant of the requests' rows (`LedgerHolds`), with the kinds of the
   readings. A page of details is read in four unlocked statements; each
   statement covers what the page has already (`Covered`), and what comes later only
   adds to it (`CoveredGrows`).
4. *Waits.* A lock is held only by a request of the kind that takes it, past its
   first statement (`LocksUsed`). The only request that waits again there is a
   reversal, for a fee; who has locked a fee waits for nothing. So waits are
   at most two in a row (`WaitsAreShort`), with any number of sessions.

`MasterDataProofs` proves the type invariant, `NoTaskOfDeleted`,
`PlateNamesOneVehicle`, `StartedCanBePriced` and `TaskStartsWithCurrentLimit` of
`MasterData`, for every set of vehicles, customers and sessions. Again a step is
of one session: `Frame` says which locks and requests it leaves alone, and
`RowsMove` how it may change rows: a locked one only by its holder, an unused one
only by who creates it, and a task gets a vehicle or customer only from a session
that holds the row. So what a deletion counted, or a creation checked, is still so
when it commits (`Knowing`), and the limit a new task copies is the one it read
under the lock. A locked row exists (`LockedLive`), and no two requests create the
same row (`OneCreator`).

It also proves that the requests implement `MasterRecords`
(`RequestsImplementRecords`). `Promised` is what a commit needs beyond the above:
the row that a request creates is still absent, the one it updates or prices is
there, and the vehicle it read has a standard type (`Fit`); no two requests
create the same customer or work on the same task (`Sole`). The updates are
where this is delicate: they write without a lock what they computed from an
old row, but only the columns they change (`Written`), so a deletion in between
is not undone; with the whole row written the run refutes the refinement.
`WaitsAreShort` is the same argument as above: `create_task` takes the vehicle
before the customer, and who has locked a customer waits for nothing.

`StatisticsProofs` proves the invariants and the action property of `Statistics`
for every set of tasks, every calendar and any interleaving of an answer's
statements with transactions and the clock. The rows move as in the ledger,
so its `IndInv` holds; the times follow the rows (`TypeOK`); and each task that
an answer has collected still exists, is still completed if it was counted as
completed, and lies in the answer's period (`Collected`), so that a later
statement of the same answer finds it again unless it was reversed meanwhile
(`FindsAgain`). That the periods partition the completed tasks is arithmetic
about days and months (`Partition`).

`AccessProofs` proves every safety property of `RoleGrants` for every finite
set of accounts and every set of passwords, roles and sessions. The
strengthening says what the locks are for. `Holding(s)`: a session past
`LockRole` or `LockAdminRole` has the role's row. `Knowing(s)`: what it found
under that lock is still so at its commit (more than one ADMIN, none, the
password it verified), and a request that passed its permission check still
lives in a system with an ADMIN.
A step is of one session: `Frame` says what it leaves alone, lemma `OthersHold`
that the others therefore keep their locks, `QuietStep` handles every statement
that changes no row, `AddSafe` every commit that adds an account or an
assignment and `DeleteSafe` the one that deletes one, where the lock is needed:
the ADMINs a session counted cannot have become fewer, since whoever deletes
one holds the same row. `Account` is finite because the last ADMIN is found by
counting.

For `RequestsImplementAccess` a commit needs a little more (`Fit`): the password
that was typed is one, the account an assignment is for is registered, and an
assignment that was read and not reported gone is there, because whoever deletes
it reports it (`RowsKept`). Then each commit is an operation of `AccessRecords`
(`StepIsOperation`): the removal deletes what it read and leaves another ADMIN, the
bootstrap finds none.

The last part of `AccessProofs` is about the tab. `TabInv` says that a guard waits
only for a restoration that runs, a submission is `"loading"` exactly while its
load runs, a load that has not failed has all its requests out or answered, and
it carries a token that the server issued, which it keeps when it is cleared in
the store. The functions that all steps go through are treated once, each with a
lemma: the guard (`GuardedTab`), its resumption (`ResumedTab`), the 401 branch
(`UnauthorizedTab`), the change of tab and loads (`GoGood`) and the end of a load
(`EndOfLoad`). `WaitsAreAnswered` follows for any number of submissions,
tokens and pages. It is the safety half of `LoginEnds`: what is left for fairness is
that what is on its way arrives.

`WorkbenchProofs` proves every safety property of `Workbench` for all weights and
limits and any number of loads and actions under way, on top of the ledger's
`IndInv`, and that a page adds no behaviour to the ledger
(`DeskImplementsLedger`). A page may know any earlier state of the task. What
makes it safe is in the backend: until the first gross weight the version
determines the status (`Numbered`), a task that has passed the scale never comes
back to it, and its tare and limit do not change once they are there (`Moves`,
a relation between a row and any later one). So what a page knew, in the part
that matters for the step it shows, stays true (`Known`, lemma `KnownStays`),
and with it what was typed (`EntryKnown`) and sent (`Asked`). An invariant of
the steps of requests (`OneAwaited`) keeps `acting` exact. Each lemma
`...Keeps` is one step of the page after which the row has moved or stayed.

`WorkbenchProofs` also proves `PollingUnderControl` and `ReadingsInOrder` of
`DevicePanel`, for any number of views, requests and readings. It needs that there
is a reading and that "nobody" is no request (`PanelAssumption`). `Controlled`: a
view remembers the one interval that fires, and in manual mode none fires.
`CallsInv`: the request inside the simulator's lock holds the reading that is
next, and no other is inside.

`ObservabilityProofs` proves, for all sets of tasks and requests, that no event
is counted twice or before its commit, and that every event of the container's
life is counted, due from a live request, or lost. The strengthening accounts
for each event: which request holds the row it is about, and that an event that
somebody is to count is neither counted nor lost yet. Its second part proves
`AnsweredAndRecorded` of `RequestPipeline`, whatever the errors and ids; `None` must
be neither (`NoneAssumption`). The middlewares
know at each step the id and status of what was sent (`Tells`), and the status is
the answer to the error that was met (`Met`). Until something is sent it is 500,
and that is what the outermost handler then sends.

Its third part proves `HeldIsUsed` of `WorkerRequests` for any number of requests and
pools of any size: every held thread is that of a request at a place where it
works in one, every held connection that of a session that is open or of a tool
call that runs. `HeldIsUsed` is inductive with the types and the finiteness of
the two sets of holders (`FiniteShares`), which counting needs. The theorem is
about every behaviour, fair or not. A connection that `ConnectionsReturn` waits for is thus
always in the hands of somebody who has something left to do.

`BackupRestoreProofs` proves, for any number of runs, names and seconds and with
`SameSecond` either way, the types of all files and databases, that two restores
never fill one database, and that neither script changes the configured one.
The invariant says that every name and handle leads to bytes that exist
(`FilesExist`), that a restore past its checks does not aim at the configured
database (`Settled`), and that the target of a restore that created it exists
(`Taken`), which is why createdb refuses it to the next. It needs that no
database is the value `None` (`NoneAssumption`).

With `SameSecond = FALSE` it proves more: what is published is whole, a backup that
reported success can be restored, and what a restore accepts is the dump
(`ArchivesAreWhole`, `SuccessIsRestorable`, `RestoredData`). The hypothesis cannot
be dropped: section 4 tells what two backups of one second do to each other.
Then a second belongs to one backup (`SecondHasOneBackup`) and every name to
the backup of its second (`NamesAreOwned`), so nobody else unlinks or replaces what it
has written (`Names`, `Written`), and bytes under a published name do not
change any more.

Some proved properties are companions of one that a run checks and have no run
of their own: that roles need an ADMIN (`RolesNeedAdmin`),
that an account keeps its password (`AccountsKeepPassword`), that readings are
only appended (`ReadingsAppendOnly`), that nothing is counted before its commit
(`CountedAfterCommit`), that what is given up stays so (`LostStaysLost`), that the
configured database is never set back (`SourceOnlyGrows`), that a
started task can be priced and starts with its vehicle's limit
(`StartedCanBePriced`, `TaskStartsWithCurrentLimit`, which the operations of
`MasterRecords` say too), and the parts of the ledger's `IndInv`, that the audit
rows account for everything among them (`AuditCorrect`). Type correctness is proved for every module with
variables (`TypeCorrect`, `DeskTypeCorrect`, `PanelTypes`, `TabTypeCorrect`,
`WorkerTypeCorrect`, `LayersTypeCorrect`).

Only model-checked:

- liveness, which is out of the prover's reach: `EveryRequestEnds` of
  `WeighingRequests` and of `WorkerRequests`, `ConnectionsReturn`,
  `TokenlessAppLeaves`, `LoginEnds`;
- the two violations of section 4, which are no properties of the code.

## 6. What is not modelled

See `components` in `PROJECT.json`.

- The MCP server has no state: its read-only tools call the queries of
  `AnalyticsService` that `Statistics` models.
- Front-end views other than the workbench are forms and lists over the API;
  what they could do wrong to a task, the backend's modules allow any client to
  try. A list may show an older answer over a newer one, about which nothing is
  promised.
- The choice among billing rules by time and the amount of a fee: rules are
  rows that no operation of the program writes. `WeighingLedger` has the refusal
  that follows when there is none.
- Filters and paging of lists, wording, the layout of exports, the validation
  of settings at start-up, container files and the static security check keep
  no state that outlives a call.
- Schema migrations appear only as the initial states they leave.
- In `Health and metrics`, HTTP and device counters and the gauges of the
  connection pool: they are set in place and nothing is decided by them.

## 7. Plan

Done, in this order: weight calculation; the ledger and its proofs; requests
over it; master data; role grants and its proof; backup and restore; statistics;
the device panel; the tab's session; business counters and their proof; the
worker's threads and connections; the request pipeline; the
workbench page and its proof; the proof of the restores; the proofs of master
data, of the requests and their refinement, of the archives, of the statistics,
of the pipeline's records, of the panel, and of the arithmetic of readings; the
abstract specifications of master data and of access with the proofs that the
requests implement them; the order of the locks; what a worker's threads and
connections are used for; what a tab waits for.

Next, most important first:

1. Pricing with the choice of the billing rule in `MasterData`: rules overlap in
   time and by type, though no operation of the program writes them today.
2. A page beside the requests of `WeighingRequests` instead of the operations of
   the ledger: since the requests implement the ledger this adds no new rows,
   but a load of the page could then be the four statements of `VIEW`.
3. Two uvicorn workers over one pool of database connections in
   `WorkerRequests`.
