------------------------------ MODULE Scheduler ------------------------------
(***************************************************************************)
(* Who inserts the jobs: the pipelines table, and in every orchestrator    *)
(* process a schedule that lives in memory only.  A process reads the      *)
(* table once, at startup; after that a request changes the schedule of    *)
(* the process that serves it.  Creating and deactivating both commit the  *)
(* table first and touch the schedule afterwards, in a thread per request, *)
(* and a cron tick inserts its row in another thread.                      *)
(***************************************************************************)
EXTENDS Integers, FiniteSets

CONSTANTS
    Pipeline,   \* rows of pipelines that may ever be inserted
    Replica,    \* orchestrator processes
    Unparsable, \* pipelines whose schedule CronTrigger.from_crontab rejects
    MaxTicks,   \* bound: cron ticks of each pipeline
    Failing     \* whether processes may die and queries may fail

ASSUME SchedulerAssumption ==
    /\ Unparsable \subseteq Pipeline
    /\ IsFiniteSet(Replica)
    /\ MaxTicks \in Nat
    /\ Failing \in BOOLEAN

VARIABLES
    row,        \* Pipeline.is_active, where there is a row
    server,     \* each process: down, in its lifespan startup, or serving
    loading,    \* the pipelines that load_schedules read and not yet added
    sched,      \* the BackgroundScheduler: pipelines with a cron job
    creating,   \* bulk_create_pipelines: committed, not yet registered
    dropping,   \* deactivate_pipeline: committed, not yet deregistered
    firing,     \* _enqueue_job threads that have not committed yet
    ticks,      \* history: cron ticks of each pipeline that some process saw
    jobs,       \* history: rows inserted in job_runs for each pipeline
    quiet,      \* history: pipelines whose deactivation a process answered
                \* when it was not about to register them
    refused     \* history: pipelines whose creation ended as an error

tableVars == <<row, ticks, jobs, quiet, refused>>
memoryVars == <<server, loading, sched, creating, dropping, firing>>
scVars == <<tableVars, memoryVars>>

Nothing == [s \in Replica |-> {}]

\* The pipelines that have a row, and those a process knows of.
Stored == {p \in Pipeline : row[p] # "absent"}
InMemory(s) == loading[s] \cup sched[s] \cup creating[s] \cup dropping[s]
                 \cup firing[s]

SCTypes ==
    /\ row \in [Pipeline -> {"absent", "active", "inactive"}]
    /\ server \in [Replica -> {"down", "starting", "up"}]
    /\ {loading, sched, creating, dropping, firing}
         \subseteq [Replica -> SUBSET Pipeline]
    /\ ticks \in [Pipeline -> 0 .. MaxTicks]
    /\ jobs \in [Pipeline -> Nat]
    /\ quiet \subseteq Replica \X Pipeline
    /\ refused \subseteq Pipeline

\* Rows are active or not. What a process keeps in memory, over commits, crashes
\* and restarts, are pipelines that have a row for job_runs to refer to; on its
\* schedule they are those that could be parsed, and a process that is down
\* keeps nothing.
SCTypeOK ==
    /\ SCTypes
    /\ \A s \in Replica :
         /\ InMemory(s) \subseteq Stored
         /\ sched[s] \cap Unparsable = {}
         /\ server[s] = "down" => InMemory(s) = {}

SCInit ==
    /\ row = [p \in Pipeline |-> "absent"]
    /\ server = [s \in Replica |-> "down"]
    /\ loading = Nothing
    /\ sched = Nothing
    /\ creating = Nothing
    /\ dropping = Nothing
    /\ firing = Nothing
    /\ ticks = [p \in Pipeline |-> 0]
    /\ jobs = [p \in Pipeline |-> 0]
    /\ quiet = {}
    /\ refused = {}

\* Mutation of ActivePipelines: the filter on is_active is left out.
AllPipelines == Stored

ActivePipelines == {p \in Pipeline : row[p] = "active"}

-----------------------------------------------------------------------------
\* lifespan and load_schedules

Startup(s) ==
    /\ server[s] = "down"
    /\ server' = [server EXCEPT ![s] = "starting"]
    /\ loading' = [loading EXCEPT ![s] = ActivePipelines]
    /\ UNCHANGED <<tableVars, sched, creating, dropping, firing>>

\* add_job replaces a cron job of the same id.
LoadOne(s, p) ==
    /\ server[s] = "starting"
    /\ p \in loading[s] \ Unparsable
    /\ loading' = [loading EXCEPT ![s] = @ \ {p}]
    /\ sched' = [sched EXCEPT ![s] = @ \cup {p}]
    /\ UNCHANGED <<tableVars, server, creating, dropping, firing>>

StartupDone(s) ==
    /\ server[s] = "starting"
    /\ loading[s] = {}
    /\ server' = [server EXCEPT ![s] = "up"]
    /\ UNCHANGED <<tableVars, loading, sched, creating, dropping, firing>>

\* The process is gone and its memory with it.
GoDown(s) ==
    /\ server' = [server EXCEPT ![s] = "down"]
    /\ loading' = [loading EXCEPT ![s] = {}]
    /\ sched' = [sched EXCEPT ![s] = {}]
    /\ creating' = [creating EXCEPT ![s] = {}]
    /\ dropping' = [dropping EXCEPT ![s] = {}]
    /\ firing' = [firing EXCEPT ![s] = {}]
    /\ UNCHANGED tableVars

\* from_crontab raises: the exception leaves the lifespan and the process exits.
StartupFails(s) ==
    /\ server[s] = "starting"
    /\ loading[s] \cap Unparsable # {}
    /\ GoDown(s)

\* scheduler.shutdown() waits for the jobs that are being executed.
Shutdown(s) ==
    /\ server[s] = "up"
    /\ creating[s] = {}
    /\ dropping[s] = {}
    /\ firing[s] = {}
    /\ GoDown(s)

ServerCrashes(s) ==
    /\ Failing
    /\ server[s] # "down"
    /\ GoDown(s)

-----------------------------------------------------------------------------
\* POST /pipelines/bulk

BulkCreate(s, tables) ==
    /\ server[s] = "up"
    /\ creating[s] = {}
    /\ tables # {}
    /\ \A p \in tables : row[p] = "absent"
    /\ row' = [p \in Pipeline |-> IF p \in tables THEN "active" ELSE row[p]]
    /\ creating' = [creating EXCEPT ![s] = tables]
    /\ UNCHANGED <<ticks, jobs, quiet, refused, server, loading, sched, dropping,
                   firing>>

\* Mutation of Register: only the first table of a request is registered.
RegisterFirst(s, p) ==
    /\ p \in creating[s] \ Unparsable
    /\ creating' = [creating EXCEPT ![s] = {}]
    /\ sched' = [sched EXCEPT ![s] = @ \cup {p}]
    /\ UNCHANGED <<tableVars, server, loading, dropping, firing>>

\* register_pipeline: whatever became of the row since the commit.
Register(s, p) ==
    /\ p \in creating[s] \ Unparsable
    /\ creating' = [creating EXCEPT ![s] = @ \ {p}]
    /\ sched' = [sched EXCEPT ![s] = @ \cup {p}]
    /\ UNCHANGED <<tableVars, server, loading, dropping, firing>>

\* from_crontab raises, or db.refresh: a 500, and the rest of the request is not
\* registered.
CreateFails(s) ==
    /\ creating[s] # {}
    /\ Failing \/ creating[s] \cap Unparsable # {}
    /\ creating' = [creating EXCEPT ![s] = {}]
    /\ refused' = refused \cup creating[s]
    /\ UNCHANGED <<row, ticks, jobs, quiet, server, loading, sched, dropping, firing>>

-----------------------------------------------------------------------------
\* PATCH /pipelines/{pipeline_id}/deactivate

\* Mutation of Deactivate: the row is deleted, while its process goes on firing.
DeactivateDeletes(s, p) ==
    /\ server[s] = "up"
    /\ row[p] # "absent"
    /\ row' = [row EXCEPT ![p] = "absent"]
    /\ dropping' = [dropping EXCEPT ![s] = @ \cup {p}]
    /\ UNCHANGED <<ticks, jobs, quiet, refused, server, loading, sched, creating,
                   firing>>

Deactivate(s, p) ==
    /\ server[s] = "up"
    /\ row[p] # "absent"
    /\ row' = [row EXCEPT ![p] = "inactive"]
    /\ dropping' = [dropping EXCEPT ![s] = @ \cup {p}]
    /\ UNCHANGED <<ticks, jobs, quiet, refused, server, loading, sched, creating,
                   firing>>

\* deregister_pipeline, in this process only, and the answer.  (A request that
\* creates the pipeline and is still running will register it all the same.)
Deregister(s, p) ==
    /\ p \in dropping[s]
    /\ dropping' = [dropping EXCEPT ![s] = @ \ {p}]
    /\ sched' = [sched EXCEPT ![s] = @ \ {p}]
    /\ quiet' = IF p \in creating[s] THEN quiet ELSE quiet \cup {<<s, p>>}
    /\ UNCHANGED <<row, ticks, jobs, refused, server, loading, creating, firing>>

-----------------------------------------------------------------------------
\* A cron tick: the time comes in every process that has the pipeline on its
\* schedule. One thread per cron job (max_instances of APScheduler is 1).

CronTick(p) ==
    /\ ticks[p] < MaxTicks
    /\ \E s \in Replica : p \in sched[s]
    /\ ticks' = [ticks EXCEPT ![p] = @ + 1]
    /\ firing' = [s \in Replica |-> IF p \in sched[s] THEN firing[s] \cup {p}
                                                      ELSE firing[s]]
    /\ UNCHANGED <<row, jobs, quiet, refused, server, loading, sched, creating,
                   dropping>>

\* Mutation of EnqueueJob: the insert is run once more.
EnqueueTwice(s, p) ==
    /\ p \in firing[s]
    /\ firing' = [firing EXCEPT ![s] = @ \ {p}]
    /\ jobs' = [jobs EXCEPT ![p] = @ + 2]
    /\ UNCHANGED <<row, ticks, quiet, refused, server, loading, sched, creating,
                   dropping>>

EnqueueJob(s, p) ==
    /\ p \in firing[s]
    /\ firing' = [firing EXCEPT ![s] = @ \ {p}]
    /\ jobs' = [jobs EXCEPT ![p] = @ + 1]
    /\ UNCHANGED <<row, ticks, quiet, refused, server, loading, sched, creating,
                   dropping>>

-----------------------------------------------------------------------------

Boot(s) ==
    \/ Startup(s)
    \/ StartupDone(s)
    \/ StartupFails(s)
    \/ \E p \in Pipeline : LoadOne(s, p)

SCNext ==
    \/ \E p \in Pipeline : CronTick(p)
    \/ \E s \in Replica :
         \/ Boot(s)
         \/ Shutdown(s)
         \/ ServerCrashes(s)
         \/ CreateFails(s)
         \/ \E tables \in SUBSET Pipeline : BulkCreate(s, tables)
         \/ \E p \in Pipeline :
              \/ Register(s, p)
              \/ Deactivate(s, p)
              \/ Deregister(s, p)
              \/ EnqueueJob(s, p)

SCSpec == SCInit /\ [][SCNext]_scVars

-----------------------------------------------------------------------------
\* Properties

\* A process that has answered the deactivation of a pipeline never has it on
\* its schedule again: not over restarts, not from a startup of its own that
\* read the table in between, and not from other requests it serves (scheduler.py:
\* "Remove a pipeline's schedule at runtime").  What was about to be registered
\* when the answer was given is excepted.
QuietIsUnscheduled ==
    \A s \in Replica, p \in Pipeline : <<s, p>> \in quiet => p \notin sched[s]

\* What that docstring promises to the caller: no process at all has the pipeline
\* on its schedule.
DeactivatedEverywhere ==
    \A s, t \in Replica, p \in Pipeline : <<s, p>> \in quiet => p \notin sched[t]

\* A cron tick inserts one row at most in each process, over ticks that come
\* while the last one is not through, crashes and restarts (README, steps 1
\* and 2).
OneJobPerTick ==
    \A p \in Pipeline : jobs[p] <= ticks[p] * Cardinality(Replica)

\* When every process serves and no request is under way, somebody fires each
\* active pipeline whose creation was not answered by an error: a process that
\* dies between the commit and the registration makes up for it when it starts
\* again (scheduler.py: "Read all active pipelines from DB and register a cron
\* job for each").
ActiveIsScheduled ==
    (\A s \in Replica : server[s] = "up" /\ creating[s] = {}) =>
        ActivePipelines \ refused \subseteq UNION {sched[s] : s \in Replica}
=============================================================================
