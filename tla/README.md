# Turbocat in TLA+

Turbocat copies the records of SaaS sources (Razorpay, Kapture) into ClickHouse.
An *orchestrator* keeps pipelines, schedules and a job queue in Postgres; *agents*
poll it, run the jobs with a *connector* and report back. This directory holds
TLA+ modules of that system, TLC configurations that check them on small
instances, and proofs, checked by TLAPS, of what holds for every instance.

Paths below are relative to the repository (`orchestrator/...` is
`src/orchestrator/src/orchestrator/...`, `agent/...` is `src/agent/src/agent/...`,
`data_connectors/...` is `src/connectors/src/data_connectors/...`).

## 1. Inventory

| Part | Code | State | Operations | What makes it correct |
|---|---|---|---|---|
| Job queue | `orchestrator/routes/jobs.py`, `models/job_run.py` | `job_runs` rows, `pipelines.state` (the cursor) | `GET /jobs/pending` (lock, claim, commit, reload, build payloads with a secret each, answer), `POST /jobs/{id}/status` | a job is handed out once; windows and cursors are sound |
| Scheduler and pipelines | `orchestrator/scheduler.py`, `routes/pipelines.py`, `main.py` | `pipelines` rows, an in-memory APScheduler in every process | startup, bulk creation, deactivation, cron tick | active pipelines fire, deactivated ones do not |
| Connections and secrets | `orchestrator/routes/connections.py`, `secrets.py` | `connections` rows, Secrets Manager | save, test, test again, list the tables of a connection | rows refer to secrets that exist, the status is true, what was saved can be listed |
| Agent process | `agent/agent.py`, `agent/main.py` | set of tasks, semaphore, the loops | poll, spawn, run, drain, exit | permits are conserved, shutdown ends and drops nothing it has spawned |
| Job execution | `agent/executor.py`, `agent/client.py` | none of its own | `run_job`: report RUNNING, sync, report SUCCESS or FAILED | no cursor for what was not copied |
| Source connectors | `data_connectors/sources/**` | the position and the page of a generator | `extract`, `transform`, `get_schema`, `validate` | every record of the window that the source lists is fetched while it goes on changing; what of the accepted fits the table |
| Sync loop | `data_connectors/base/connector.py` | a batch, the counters of `SyncResult` | page, validate, batch, flush | a success has loaded everything, the counters add up |
| ClickHouse destination | `data_connectors/destinations/clickhouse/connector.py` | tables (`ReplacingMergeTree`) | create table, insert | the newest copy of a record survives |
| HTTP client | `data_connectors/common/http_client.py` | a session; the retries left of a request and the nesting of `_request` | `get`, `post`, with retries by urllib3 and on rate limits | a call ends, and fails only after the retries that its failure gets; it waits as it is asked |
| Registry | `data_connectors/registry.py`, `sources/*/config.py` | three constant tables | `build_from_credentials`, `get_schemas_for_source` | what is tested can be listed |
| Migrations | `src/orchestrator/migrations/`, `orchestrator/models/` | the tables and their columns, the revision | `make migrate`, `make migrate-down` | every migration runs, with any rows, and the head is what the models expect |
| Heartbeats, authentication, settings, deployment | `routes/agents.py`, `auth.py`, `settings.py`, `k8s/` | – | – | not modelled, see 8 |

How they interact. A cron tick inserts a `pending` row. An agent polls; the
handler selects the agent's pending rows with `FOR UPDATE SKIP LOCKED`, marks them
`dispatched` and commits, reloads them, and builds for each a payload whose window
goes from the cursor of the pipeline (less a lookback) to the present. The agent
spawns a task for every job of the answer; a task that gets a permit of the
semaphore runs in a thread, posts RUNNING, syncs, and posts the outcome. A SUCCESS
carries the end of the window, which becomes the cursor.

What is hard. Handlers run in a thread each, in several replicas, and can be
interleaved at every commit and call. Posts may be lost or outlive the timeout of
the client that sent them; nothing is retried. Agents are stopped while polls and
jobs are under way, crash, and are replaced while they drain. Jobs of one
pipeline may overlap and finish in any order, and then move the cursor back.
Schedules live in memory, once in each process. Secrets, rows and sources cannot be
changed together. Lists move while they are read page by page, and one record of the
wrong shape reaches as far as the end of a run. Tables are migrated while the
orchestrator serves. `PROJECT.json` lists the hazards line by line.

## 2. The modules

| Module | Models | State and code |
|---|---|---|
| `Times`, `Domain` | entities, clock, window payload | constants only |
| `JobQueue` | `routes/jobs.py`, `_enqueue_job` | `status`, `started`, `completed`, `cursor` are columns; `pc`, `claim`, `seen`, `payload` are the locals of a handler thread; `given` is history |
| `Agent` | `agent.py`, `main.py` | `mode` the process, `asking` the poll that is awaited, `task` the asyncio tasks, `permits` the semaphore |
| `Extraction` | which records `extract` asks for, as a set | operators only |
| `Rows` | `transform`, `get_schema`, `validate`, the table of a schema | operators: a record is its fields by shape (usual, absent, null, empty or garbled text, a number, zero, an object, an empty one), a row its columns by Python type |
| `Paging` | the generators `extract()` of the three connectors | `born` the source; `pos`, `last`, `page` the locals of a generator (skip, or the day); `listed`, `unread` (what the source withheld), `yielded` are history |
| `Turbocat` | the composition with `executor.py`, `client.py`, the sources and the destination | `posts` are status posts in flight, `created` and `dest` the records, `todo` what a sync has still to copy |
| `IncrementalSync` | what the system owes its users | abstract: records appear, copies appear, cursors advance to where the copy is complete |
| `Scheduler` | `scheduler.py`, `routes/pipelines.py`, `main.py` | `row` the table; `sched` the schedule of each process; `loading`, `creating`, `dropping`, `firing` what its threads have still to do |
| `SyncRun` | `sync` of `base/connector.py`, `load`, the merge of ClickHouse | `batch`, the counters `extracted`, `loaded`, `failed`; `table` the rows after a merge; `stored`, `mixed`, `handled` are history |
| `Sync` | what a call of `sync()` promises to the worker that makes it | abstract: the records of a window are loaded or skipped, and a success has none left |
| `Registry` | `registry.py` and the fields of the configurations | operators only |
| `Migrations` | the four scripts and `env.py`, the columns of `models/*.py` | `tables` what the database has, `revision` |
| `Connections` | `routes/connections.py`, `secrets.py`, over `Registry` and `Migrations` | `secret` Secrets Manager, `accepted` the source, `status` the rows, `pc`, `about`, `held` a request |
| `HttpClient` | `common/http_client.py` | `left` the budget of the `Retry` of one `session.request`, `depth` the nested calls of `_request`; `answer`, `sleep`, `outcome`; `sends` is history |
| `JobQueueProofs`, `AgentProofs`, `TurbocatProofs`, `SchedulerProofs`, `ConnectionsProofs`, `HttpClientProofs`, `RowsProofs`, `SyncRunProofs` | theorems | |
| `MC*` | instances for TLC | |

`Turbocat` EXTENDS `JobQueue`, `Agent` and `Extraction`; each of its actions is an
action of one or two of them together with what it does to the rest. `JobQueue`
and `Agent` also have a `Next` of their own against a permissive environment
(clients that report anything on what they were handed, an orchestrator that hands
out any fresh job), and the composition is shown to stay within both.

`SyncRun` EXTENDS `Paging`, which EXTENDS `Extraction` and `Rows`; a step of a run is a step of
its generator with what `sync` does about it. `Turbocat` shares `Extraction` with it and has a coarser
view: a run is the set of records that it has still to copy, a batch any part of what the window selects. `Sync` states that view
without pages, batches and rows, and `SyncRun` implements it (`SyncsAsPromised`): `StartSync`, `LoadBatch`, `SyncSucceeds` and
`SyncFails` of `Turbocat` are `Call`, `Load`, `Succeed` and `Fail` of `Sync`, together with the reports and the worker's task, and
`PassOver`, where a source answers without its records, is in both (the failure `no_list` of `Turbocat`).
`LoadBatch` takes late records by the present clock, where `Sync` goes by the beginning of the
call, which selects no fewer of them. The correspondence of `Sync` to the steps of `Turbocat` is by
reading, action by action; that of `SyncRun` to `Sync` is checked and proved. `Connections` EXTENDS `Registry` and `Migrations` and runs their actions
between its own.

Grain. `GET /jobs/pending` is split where another thread can get in: the locking
SELECT, the commit, the reload (one SELECT of jobs, pipelines and connections), each
payload (which fetches a secret), the answer. `POST /jobs/{id}/status` has one
commit and is one step. In the agent the event loop makes the steps between two
`await`s atomic; what `run_job` does in its thread is split at the posts and at every
flush. Creating and deactivating a pipeline commit first and touch the schedule
later, in two steps. A connection is saved in up to four; a saved one is tested again in three. A sync run
takes one step for a request, one for each record, one for a flush. A run of alembic is one transaction, hence one step. A call of the HTTP client is split at
the request, the answer and the sleep.

Data. Time is counted in seconds, the resolution of the sources' window filters.
A record is a model value with a time of creation; in `Paging` records are numbered as
they are created, and `SyncRun` gives their fields a shape. A script of `Migrations` is the composition of its statements. The fields of the nested objects of a ticket count as fields of the record. Payloads
other than the window, error texts and row counts that nothing reads are left out.
Mutations, named after the operator they change, stand before it; they are not part
of the specification and show that each property can fail.

## 3. The runs

Passing runs (all actions of the modules fire in them):

| Run | Instance | Shows |
|---|---|---|
| `queue_dispatch` | 2 jobs of 1 pipeline, 2 handlers polling for 1 agent, clock to 2, lookback 1; secrets cannot be read, handlers die | no double dispatch, claims are committed, a payload is given once, windows end in the past and include the lookback |
| `agent_workers` | 2 processes, 3 jobs, 2 workers; stop, crash, restart | permits and workers add up; what was spawned is finished unless the process crashes; draining ends |
| `cursor` | 2 overlapping jobs, 2 workers, 2 records of which 1 malformed, clock to 2; failing syncs, lost and late posts | the cursor never stands past a record that was not copied; a success has copied its window; dispatched jobs are held by somebody |
| `failover` | 2 processes of one agent, 2 handlers, 2 jobs, 1 record; failing secrets and handlers, polls that time out, stop, crash, restart | a job has one worker; the system implements `IncrementalSync`; it is an environment that `JobQueue` and `Agent` allow |
| `settles` | 2 processes and 2 handlers that overlap, 2 pipelines, one of whose tables cannot be created; failing syncs and sources that withhold records only | every job ends as success or failed, and stays so |
| `schedules` | 2 processes, 2 pipelines of which 1 has a schedule that does not parse, 2 ticks; crashes, failing requests | a process keeps to the deactivations it answered; one row per tick and process; each active pipeline is fired by somebody; no process knows of a pipeline without a row or keeps anything when it is down (`SCTypeOK`) |
| `sync_batches` | each connector, 2 runs that may overlap, 3 records that appear at any time (valid and bare, invalid, malformed, not storable: a customer whose notes are an empty list), pages of 2, batches of 2, a window and none, days of one second, clock to 1; responses without their list (`Withholding`), failing requests, unconfirmed inserts | counters add up; no record of a window is missed but what the source withheld; a success has loaded all others and met nothing malformed; what is accepted fits its table exactly when its columns of text come from text or nothing; the newest copy survives as long as runs do not overlap; every step of a run is one that `Sync` allows |
| `connection_tests` | 4 connections of which 2 share the name of their secret and 1 has a source that nobody knows, 2 credentials of which 1 is incomplete for one source and may be revoked, 2 requests, all four revisions; every failure, migrations up and down at any time | rows refer to secrets that exist; the status of a connection with a secret of its own is true; its tables can be listed; every migration runs and the head has the columns of the models |
| `http_calls` | calls one after another, 2 retries, 3 nested calls, waits of 0, 1 and 3 around a default of 2, every answer and header, bodies that break off | the retries of the two layers multiply and no more; a failure has used up a budget, met a refusal, a header that cannot be read or a body that broke off; the client waits as it is asked; every call ends |

Violations, each of what the repository says of itself:

| Run | Property | Disagreement |
|---|---|---|
| `secret` | `JobSettles` | a secret that cannot be read after the claim was committed leaves all jobs of the claim `dispatched` for ever |
| `shutdown` | `GracefulExit` | the poll loop is cancelled, its thread is not: jobs claimed by a poll that was under way go nowhere, and the process exits |
| `schedule_replicas` | `DeactivatedEverywhere` | a deactivation changes the schedule of one process; production runs two replicas |

Why the bounds are enough. Two handlers, two processes and two jobs are what an
interleaving of this code needs: the row lock, the claim and the semaphore relate
pairs. Three jobs for two workers make a task wait for a permit. Two clock
ticks give a cursor, a later window and a record between them. Pages of two with three records meet a full
page, a short one, an empty one after a full one, a record that moves from one page to the next, a full batch and a partial
one; with two seconds there is a window that has some of the records, and a day before it. The shapes
of the three records of each connector are chosen to meet each fate; `RowsProofs` covers all others. The
scripts of `Migrations` are the real ones and the run reaches all of their states, so that nothing is bounded there but
which tables have rows. Fewer retries than nested calls let either layer run out first. Where a bound could hide something (number of jobs, agents,
records, lookback, processes), a theorem of section 5 covers every value. The named
bounds are `MaxTime`, `MaxTicks`, `MaxRecords`, `MaxClock` and `MaxDepth` (in the code, Python's
recursion limit; `HttpClientAssumption` only says that it is no less than the retries); requests are reused,
so their number bounds concurrency only. Symmetry is used in runs without liveness.
`sync_batches` turns deadlock checking off because runs end; everywhere
else agents go on polling.

`OneJobPerTick` allows one row *in each process*, since that is what the code does:
with two replicas a tick inserts two rows (`TODO.md:7` speaks of a single pod). `NothingMissed`, `SuccessLoadsAll` and
`SyncsAsPromised` owe nothing for what the source withheld: a day of tickets whose response is not a list, which the code skips, and
the rest of a list when a response has no items, at which the code ends. `CursorCovered` is about `Reliable` pipelines, which
this cannot happen to. `BatchFits` says which of the accepted records fit, and which do not; `StatusTellsOfSecret` is about connections with a secret of their own. Section 7 tells what happens to the others.

## 4. Fairness

`TCFairSpec`, `AGFairSpec` and `HCSpec` are the fair specifications. Weak fairness of
handler steps: a thread that serves a request keeps running, and its calls have
timeouts. Weak fairness of the worker's steps: each HTTP request has a timeout and the
page loops end. Strong fairness of taking a permit: `asyncio.Semaphore` is first in,
first out, so a task that waits is served although the permit is taken by
others in between. Weak fairness of polling: `_poll_loop` catches every exception and goes
on. Posts that are not lost are processed. Restarts, crashes, cron ticks and the clock
are not fair: nothing relies on them. In `HCSpec` the source is fair, since a request that
gets no answer within the timeout has an answer of its own (`network`), and so is the client;
nobody has to call.

## 5. What is proved

All theorems hold for every number of jobs, pipelines, agents, processes, workers,
handlers, records, pages, batches and connections, and (`DispatchedIsHeld` apart) every set of failures. They rest on the
named assumptions of the modules, which give types to the constants
(`DomainAssumption`, `JobQueueAssumption`, ...); TLC evaluates them in
every run.

- **`JobQueueProofs`**: types; `NoDuplicateDispatch`, `ClaimsAreCommitted`,
  `HandedOnce` from `DispatchInv`; `WindowSound` and `CursorWasHanded` from `WindowInv`
  and the dispatch facts. `NoDuplicateDispatch` is not inductive: that a handler may take a pending
  row rests on the row's status agreeing with every holder (`ClaimsAreCommitted`), and
  that an answer is the first for its jobs on `AnswersAreGiven`. Between SELECT and commit
  the lock protects a job, after it the status.
- **`AgentProofs`**: types and `PermitsAccount` from `PermitInv`, which adds that a
  process that is gone awaits and runs nothing and that sets of tasks are finite.
- **`TurbocatProofs`**: types; `SoleWorker`; that the system implements `JobQueue` and
  `Agent` (`TurbocatIsJobQueue`, `TurbocatIsAgents`), so that their theorems hold in it;
  `CursorCovered` (`NothingIsSkipped`) for pipelines that are `Reliable`: no tickets, whose first window is not open, a source that
  withholds nothing, a lookback that is not negative; `SuccessMeansCopied` where all pipelines are
  so; and that it implements `IncrementalSync` (`TurbocatKeepsItsPromise`), which for its part is enough to keep
  cursors covered (`PromiseCoversCursors`). `HoldInv`
  says who holds a job, from the answer to the task to the post. `CoverInv` follows one
  fact around the loop: the cursor is covered, hence what a handler reloads, hence the
  start of the window it builds, hence all up to the window's end once the sync has copied the
  window, hence the post in flight, hence the next cursor. It has to be said of every
  one of these places, because overlapping jobs move the cursor back and stale values
  survive in handlers and posts. `DispatchedIsHeld` is a theorem for the failures it holds under, named `Calm`: syncs may fail,
  posts may be lost or outlive their timeout. `CalmInv` says that no process is down,
  that every busy handler is awaited by one, and that a dispatched job is in the claim of a poll or has been spawned; from there
  on `HoldInv` has it in a task or a post. Each of the
  failures that `Calm` leaves out loses jobs, as a secret does in the run `secret` and a stop in the run `shutdown`.
- **`SchedulerProofs`**: types, and that what processes have in memory has a row (rows are never deleted, and every list a process keeps
  is taken from them: `RowsStep`, `MemoryStep`); `QuietIsUnscheduled` from `QuietInv` (a quiet pipeline is
  inactive for good, and neither in what its process has read nor in what it is about to
  register); `ActiveIsScheduled` from `ActiveInv` (between commit and schedule a pipeline
  is always in some creation or startup under way, or left to a process that is down);
  `OneJobPerTick` from `TickInv` (the rows of a pipeline and the processes that have a thread
  for it under way add up to no more than ticks times processes).
- **`ConnectionsProofs`**: types; `NoDanglingRef` from `StoredInv` (a request past `put_secret`
  finds the secret there); `StatusTellsOfSecret` from `TruthInv` (a request that
  writes a secret is alone with its connection, so no test holds what it replaces);
  `TestedIsListed` from `KnownInv` (a request that is about to save has passed the check of the source). All of
  them over migrations in either direction, which drop rows or leave them alone. `HeadIsModels` and `MigrationsApply` from
  `MigratedInv`: a database at a revision has the tables of that revision and no others, whatever
  upgrades and downgrades led there, so that each script meets tables that it was written for.
- **`HttpClientProofs`**: types; `SendsAreBounded` and `OutcomeIsEarned` from `SendsInv`, which
  accounts for every request by a retry or a level of the stack that was spent, with a sleep
  counting as the request that follows it. The upper bound gives the one, the lower bound the other. A refusal, an
  unreadable header and a body that breaks off end a call whatever is left of its budget.
  `WaitsAsAsked` is inductive with the types.
- **`RowsProofs`**: `AcceptedFits`, for each connector and fields of any shape: a record that `transform` takes and `validate` accepts fits its table
  if and only if it is `Textual`. The rule of `transform` for a column of numbers or dates
  gives values of the type that the schema says, nothing only where the column is nullable or `validate` refuses the row; the
  rules of text pass on what they get, which is the one way for an accepted row not to fit.
  It rests on two lemmas about the tables, column by column.
- **`SyncRunProofs`**: types, including that a batch never has more than `batch_size` rows; `CountsAddUp`, which is inductive with the
  types. `NothingMissed` from `PagesInv`: a record that is owed and not yielded yet is on the page, or stands in the list at or behind the
  position of the next request. New records only push it back. When a page is taken for the last one, it has
  fewer than `count` records, and were an owed record behind it, it would be full (`FullPage`: the records from a position of the
  list on are an interval of numbers, whose cardinality is known). What a source withholds (`CutShort`, `SkipDay`) is owed no more, and nothing else is
  (`PagesCutShort`). `SuccessLoadsAll` from `LoadInv` (a valid record that was
  yielded is in the batch or in the table, in a copy of this run unless runs overlapped). `LastFetchedSurvives` from `OrderInv`
  (stamps and times of fetching are ordered alike within a batch, and between batch and table while no runs overlap).
  `BatchFits` from `AcceptedFits`. That runs implement `Sync` (`RunsKeepTheirPromise`) from `PromiseInv` and the invariants above:
  the requests of a run stay in its window, and what was yielded is in the batch, loaded or skipped. So a record that a run takes is one
  that the window selects, one that it drops is malformed, and a run that returns after its last page, with an empty batch, has
  nothing left but what its source withheld; where `Withholding` is empty, that is nothing. A record that appears while a run is under way may be loaded, but is never owed.

`CursorWasHanded` (a cursor is the end of a window of a completed job of its pipeline) is proved and in no run; `CursorCovered`
says more of the cursor in the composition.

Only model-checked: liveness (`SpawnedIsDone`, `StopLeadsToExit`, `JobSettles`, `CallEnds`), which
is out of reach of the prover. Every other property of a passing run is a theorem.

## 6. What is assumed

- One clock: the orchestrator's `now` and the times of creation at the source are read
  from the same monotone clock. The code has no margin for skew but `lookback_days`.
- Sources list a record from the moment of its time of creation on, and filter by that time.
  `Extraction` takes the windows from the requests of the connectors, both ends included. A source may answer
  without the records it should list (`Withholding`, the failure `no_list`), but a list that it gives is right.
- Postgres commits are atomic and `SKIP LOCKED` skips exactly the rows that another
  transaction has locked.
- Razorpay lists the newest record first and filters before it counts `skip`; nothing is deleted. The repository does
  not say so.
- The window of a payload ends no later than its run begins.
- A response of Kapture to a day has all tickets of that day, since it has no pages; the day of a ticket is that of its creation.
- clickhouse_driver takes text for String, int for Int64, int and float for Float64, datetime for DateTime, and None for what is
  Nullable; numbers are within the range of their column. Of the shapes of a field, "garbled" is a text that no number or date can be read from;
  "number" stands for `true` and "zero" for `false` as well. The nested containers of a ticket are objects, or missing.
- A run of alembic is one transaction; its DDL waits for transactions that have read a table and blocks new ones. Tables other
  than `connections` are taken to have rows.
- Only fields without a default count for a configuration, and the environment is the same for all requests.
- urllib3 and Python, which `HttpClient` models from how they are used: failures that urllib3 sees share
  `Retry.total`; the body of a response is read outside of its retries, so that one that breaks off or does not come in time
  raises at once; a response with Retry-After and status 413, 429 or 503 is retried while retries are
  left; an unreadable header raises; a stack that is full raises. Redirects are left out: each hop would be a request with a budget of its own.
- A lookback is a number; one that is not makes the handler raise while it builds payloads, as a secret does (`PollRaise`).
- A process creates one set of pipelines at a time (`creating` is one set per process).

## 7. Further disagreements met while modelling

These are not runs of their own.

- `CursorCovered` and `SuccessMeansCopied` except Kapture tickets: without a `start_time`
  `tickets_connector.py:66` starts at the current day, although `jobs.py:73` calls that
  window "first run: full sync". As it is, such a run never succeeds once there is a ticket: the table is
  created `ORDER BY (id)`, a column the tickets do not have (`Loadable`).
- A late RUNNING post that is processed after a final one takes the row back to
  `running` (`jobs.py:100` overwrites whatever is there).
- `bulk_create_pipelines` commits all pipelines before it registers them: one
  that is deactivated in between is registered afterwards and fires until the
  next restart. `QuietIsUnscheduled` excepts it.
- A schedule that does not parse is stored all the same, and every later startup raises
  (`StartupFails`).
- `_extracted_at`, the version of `ReplacingMergeTree`, is the time of `transform`,
  not "When we fetched it" (`orders_connector.py:122`): when runs overlap,
  an older copy may displace a newer one, which is why `LastFetchedSurvives` excepts overlaps.
- Two connections of one account to one source share the name of their secret; saving
  the second replaces the credentials of the first.
- `agent.py:8` says that the poll loop "does not claim more jobs than it can immediately start".
  It checks for *one* free worker, and an answer brings all pending jobs; the others wait for a
  permit, as in `agent_workers`.
- `http_client.py:73` says "Safe methods only: GET, PUT, DELETE"; line 79 lists POST as well.
- `http_client.py:17` says "respects 429 and Retry-After header": `WaitsAsAsked` excepts a date,
  which `_handle_rate_limit` does not read. The test of a header that is no number
  (`test_http_client.py:185`) replaces the session and waits for the default; with the real one urllib3 reads the header
  first, and raises if it cannot, although `test_http_client.py:226` says "429 should sleep+retry, never raise."
- `http_client.py:114` says "On failure after all retries": a body that breaks off while it is read raises after one request
  (`BodyBreaks`), and so does an unreadable header.
- A response without `items` ends a list of Razorpay as the last page does (`orders_connector.py:71`, `customers_connector.py:56`,
  `CutShort`), and a day of Kapture whose response is no list is passed over (`tickets_connector.py:98`, `SkipDay`). The run succeeds, and the
  cursor moves past the records that it has not seen. `base/models.py:55` takes every sync "without an exception" for a success.
- `pipelines.py` takes any `params`. With a negative `lookback_days` the window of `jobs.py:71` starts after the cursor
  and skips what lies between; `Reliable` excepts such pipelines.
- One record that `transform` cannot convert (an order without `currency`, a customer without `contact`, whose column is
  not even required) ends the run, and each later run that meets it again, although
  `base/models.py:14` says that a record that misses a required field "is rejected by validate() and counted as
  records_failed". `transform` comes first. `TransformRaises` is that step; `SuccessLoadsAll` says that no success has met one.
- `customers_connector.py:86` takes `notes` as it is. Where it is an object or a list, also the empty list that Razorpay gives
  for no notes, the column `String` does not take it and the run fails (`Refused`). So it is with a number or `true` in any column of text.
  `Textual` says which records these are.
- `registry.py:96` says that `build_from_credentials` "does NOT read from environment variables". The configurations are
  pydantic settings, and fields that the credentials leave out are read from there (`Configures`): an incomplete connection may pass
  its test in an orchestrator that has the variable and fail in an agent that has not. `sources/kapture/config.py:15` speaks of
  KAPTURE_BASE_URL, which is a property and cannot be set.
- An unknown source is refused with a 400 after its credentials were stored (`connections.py:150`); the secret stays (`Rejected`).
- `connections.py:183` and the model have a status `untested`; every connection is tested before it is saved, so no row has it
  (`COTypeOK`). The example of `connections.py:253` lists a table `razorpay_customers`, which `customers_connector.py:94` calls `customers`.
- A customer that is listed already is copied on every run, since the endpoint takes no window (`Extracts`).
- `get` takes "Additional headers" (`http_client.py:108`), which line 139 pops: the call that is
  nested after a 429 goes without them. No connector passes any.

## 8. Not modelled

- `HttpClient` is not composed with `SyncRun` and `Turbocat`: for them a request ends or fails for
  good, which is what `CallEnds` and `OutcomeIsEarned` say of the client.
- Heartbeats (`routes/agents.py`, the second loop of the agent): they write `last_seen_at` and `status`, which nothing reads, so no
  property can tell whether they are right. A draining agent sends none.
- Authentication and settings: stateless.
- `build`, `list_connectors` and `list_sources` of the registry: no service calls them.
- Types and indexes of database columns, and deployment files: no behaviour that the properties tell apart.
- Losses of a cron tick when a process dies, which the repository knows of (`TODO.md:9`): `OneJobPerTick` is an upper bound.

## 9. Plan

Done: the core (`JobQueue`, `Agent`, `Turbocat`, `IncrementalSync`) with its theorems; `Scheduler`, `HttpClient`;
sources and destination down to pages and columns (`Paging`, `Rows`, `SyncRun`) with theorems for each property, and the
refinement of `Sync` by `SyncRun`; connections over the
registry and the migrations (`Connections`, `Registry`, `Migrations`). All safety properties of the passing runs are theorems.

Left, in this order:

1. `Turbocat` with the actions of `Sync` as its own (`INSTANCE Sync` per pipeline), so that the correspondence of section 2 is
   checked as well.
2. The scheduler as the source of `Enqueue` in the composition.
