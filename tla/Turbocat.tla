------------------------------ MODULE Turbocat ------------------------------
(***************************************************************************)
(* The whole path of a job: a cron tick inserts it, an agent's poll claims *)
(* it, a worker copies the window of its source into the destination, and  *)
(* the outcome it posts moves the pipeline's cursor.  The module composes  *)
(* JobQueue (the orchestrator) and Agent (the agent processes), and adds   *)
(* what is between and around them: the status posts in flight, the        *)
(* records of the sources, and the destination.                            *)
(***************************************************************************)
EXTENDS JobQueue, Agent, Extraction

CONSTANTS
    IdOf,       \* settings.id of each agent process
    Record,     \* records that may ever appear in a source
    RecordsOf,  \* the records of the source of each pipeline
    Connector,  \* Pipeline.connector
    Malformed   \* records that miss a required field: validate() skips them

ASSUME TurbocatAssumption ==
    /\ IdOf \in [Instance -> AgentId]
    /\ RecordsOf \in [Pipeline -> SUBSET Record]
    /\ Connector \in [Pipeline -> ConnectorName]
    /\ Malformed \subseteq Record

VARIABLES
    posts,      \* status posts that left an agent and were not processed yet
    created,    \* when each record appeared in its source
    dest,       \* the records in the destination tables
    todo        \* what the sync of each job has still to fetch or load

syncVars == <<created, dest, todo>>
tcVars == <<jqVars, agVars, posts, syncVars>>

Post == [job : Job, status : {"running", "success", "failed"}, next : Cursor]

\* The parts keep their types, and what travels between them does: posts carry
\* known statuses and cursors that are times of the clock.
TCTypeOK ==
    /\ JQTypeOK
    /\ AGTypeOK
    /\ posts \subseteq Post
    /\ created \in [Record -> Cursor]
    /\ dest \subseteq Record
    /\ todo \in [Job -> SUBSET Record]

TCInit ==
    /\ JQInit
    /\ AGInit
    /\ posts = {}
    /\ created = [x \in Record |-> NoTime]
    /\ dest = {}
    /\ todo = [j \in Job |-> {}]

-----------------------------------------------------------------------------
\* The world: the clock, the sources, the scheduler.

Create(x) ==
    /\ created[x] = NoTime
    /\ created' = [created EXCEPT ![x] = now]
    /\ UNCHANGED <<jqVars, agVars, posts, dest, todo>>

World ==
    /\ Tick \/ \E j \in Job : Enqueue(j)
    /\ UNCHANGED <<agVars, posts, syncVars>>

-----------------------------------------------------------------------------
\* An agent polls.

Ask(i, r) ==
    /\ IdOf[i] = CallerOf[r]
    /\ PollStart(i, r)
    /\ PollArrive(r)
    /\ UNCHANGED <<posts, syncVars>>

Handle(r) ==
    /\ \/ PollSelect(r)
       \/ PollCommit(r)
       \/ PollReload(r)
       \/ \E j \in Job : PollBuild(r, j)
       \/ PollReply(r)
    /\ UNCHANGED <<agVars, posts, syncVars>>

HandlerFails(r) ==
    /\ PollRaise(r) \/ HandlerDies(r)
    /\ UNCHANGED <<agVars, posts, syncVars>>

TakeAnswer(i, r) ==
    /\ asking[i] = r
    /\ pc[r] = "answered"
    /\ PollReturn(i, claim[r])
    /\ PollClose(r)
    /\ UNCHANGED <<posts, syncVars>>

TakeError(i, r) ==
    /\ asking[i] = r
    /\ pc[r] = "failed"
    /\ PollError(i)
    /\ PollClose(r)
    /\ UNCHANGED <<posts, syncVars>>

\* The client gives up after 30 seconds; the handler does not notice.
PollTimesOut(i) ==
    /\ "poll_timeout" \in Fault
    /\ PollError(i)
    /\ UNCHANGED <<jqVars, posts, syncVars>>

\* Nobody waits for this answer any more: the jobs in it go nowhere.
AnswerIsDropped(r) ==
    /\ \A i \in Instance : asking[i] # r
    /\ PollClose(r)
    /\ UNCHANGED <<agVars, posts, syncVars>>

-----------------------------------------------------------------------------
\* A worker runs a job.

\* report_status returns when the post was processed or lost, or after its
\* timeout of 10 seconds, which the post itself may survive.
PostSettled(j) ==
    \/ "post_timeout" \in Fault
    \/ \A m \in posts : m.job # j

Send(j, s, next) == posts' = posts \cup {[job |-> j, status |-> s, next |-> next]}

BeginJob(i, j) ==
    /\ Acquire(i, j)
    /\ Send(j, "running", NoTime)
    /\ UNCHANGED <<jqVars, syncVars>>

\* The records that the window of a job selects.
InWindow(j) ==
    {x \in RecordsOf[PipelineOf[j]] :
       /\ created[x] # NoTime
       /\ Extracts(Connector[PipelineOf[j]], given[j], now, created[x])}

\* source.sync starts: extract() will yield what its window selects. (Module Sync
\* is this view of a sync, and SyncRun is shown to implement it.)
StartSync(i, j) ==
    /\ PostSettled(j)
    /\ Announced(i, j)
    /\ todo' = [todo EXCEPT ![j] = InWindow(j)]
    /\ UNCHANGED <<jqVars, posts, created, dest>>

\* One batch is flushed; the malformed records among it are dropped. A record of
\* the window that appears while the pages are read may be fetched on top.
LoadBatch(i, j, batch) ==
    /\ Alive(i)
    /\ task[i][j] = "syncing"
    /\ batch # {}
    /\ batch \subseteq todo[j] \cup InWindow(j)
    /\ Loadable(Connector[PipelineOf[j]]) \/ batch \subseteq Malformed
    /\ dest' = dest \cup (batch \ Malformed)
    /\ todo' = [todo EXCEPT ![j] = @ \ batch]
    /\ UNCHANGED <<jqVars, agVars, posts, created>>

\* A source answers without its records: a day of tickets, or the rest of a list,
\* is passed over, and nothing tells of it.
PassOver(i, j, records) ==
    /\ "no_list" \in Fault
    /\ Alive(i)
    /\ task[i][j] = "syncing"
    /\ records # {}
    /\ records \subseteq todo[j]
    /\ Connector[PipelineOf[j]] = "kapture_tickets" =>
         \A x \in records, y \in todo[j] :
           y \in records <=> DayOf(created[y]) = DayOf(created[x])
    /\ todo' = [todo EXCEPT ![j] = @ \ records]
    /\ UNCHANGED <<jqVars, agVars, posts, created, dest>>

\* Mutations of SyncSucceeds: the cursor is the time the sync finished, or the
\* last partial batch is not flushed.
SyncSucceedsNow(i, j) ==
    /\ todo[j] = {}
    /\ Synced(i, j)
    /\ Send(j, "success", now)
    /\ UNCHANGED <<jqVars, syncVars>>

SyncSucceedsEarly(i, j) ==
    /\ Synced(i, j)
    /\ Send(j, "success", given[j].end)
    /\ todo' = [todo EXCEPT ![j] = {}]
    /\ UNCHANGED <<jqVars, created, dest>>

SyncSucceeds(i, j) ==
    /\ todo[j] = {}
    /\ Synced(i, j)
    /\ Send(j, "success", given[j].end)
    /\ UNCHANGED <<jqVars, syncVars>>

\* Mutation of SyncFails: the failure is logged but not reported.
SyncFailsSilently(i, j) ==
    /\ \/ "sync_error" \in Fault
       \/ ~Loadable(Connector[PipelineOf[j]]) /\ ~(todo[j] \subseteq Malformed)
    /\ Synced(i, j)
    /\ todo' = [todo EXCEPT ![j] = {}]
    /\ UNCHANGED <<jqVars, posts, created, dest>>

\* Any exception in lookup, extract, validate, transform or load; the batches
\* that were loaded stay loaded, and no cursor is sent.
SyncFails(i, j) ==
    /\ \/ "sync_error" \in Fault
       \/ ~Loadable(Connector[PipelineOf[j]]) /\ ~(todo[j] \subseteq Malformed)
    /\ Synced(i, j)
    /\ Send(j, "failed", NoTime)
    /\ todo' = [todo EXCEPT ![j] = {}]
    /\ UNCHANGED <<jqVars, created, dest>>

EndJob(i, j) ==
    /\ PostSettled(j)
    /\ Reported(i, j)
    /\ UNCHANGED <<jqVars, posts, syncVars>>

Work(i, j) ==
    \/ BeginJob(i, j)
    \/ StartSync(i, j)
    \/ \E records \in SUBSET Record :
         LoadBatch(i, j, records) \/ PassOver(i, j, records)
    \/ SyncSucceeds(i, j)
    \/ SyncFails(i, j)
    \/ EndJob(i, j)

-----------------------------------------------------------------------------
\* Posts arrive, in any order, or get lost. There is no retry.

Deliver(m) ==
    /\ m \in posts
    /\ posts' = posts \ {m}
    /\ UpdateStatus(m.job, m.status, m.next)
    /\ UNCHANGED <<agVars, syncVars>>

LosePost(m) ==
    /\ "post_lost" \in Fault
    /\ m \in posts
    /\ posts' = posts \ {m}
    /\ UNCHANGED <<jqVars, agVars, syncVars>>

-----------------------------------------------------------------------------
\* Agent processes stop, crash and come back.

Lifecycle(i) ==
    /\ Stop(i) \/ Exit(i) \/ Restart(i)
    /\ UNCHANGED <<jqVars, posts, syncVars>>

CrashAgent(i) ==
    /\ Crash(i)
    /\ todo' = [j \in Job |-> IF task[i][j] \in Active THEN {} ELSE todo[j]]
    /\ UNCHANGED <<jqVars, posts, created, dest>>

-----------------------------------------------------------------------------

TCNext ==
    \/ World
    \/ \E x \in Record : Create(x)
    \/ \E r \in Request :
         \/ Handle(r) \/ HandlerFails(r) \/ AnswerIsDropped(r)
         \/ \E i \in Instance : Ask(i, r) \/ TakeAnswer(i, r) \/ TakeError(i, r)
    \/ \E i \in Instance :
         \/ PollTimesOut(i) \/ Lifecycle(i) \/ CrashAgent(i)
         \/ \E j \in Job : Work(i, j)
    \/ \E m \in posts : Deliver(m) \/ LosePost(m)

TCSpec == TCInit /\ [][TCNext]_tcVars

\* Handler threads, event loops and worker threads that can take a step take
\* it: every request has a timeout and the number of retries is bounded. Agents
\* that are up keep polling; posts that are not lost are processed.
TCFairness ==
    /\ \A r \in Request :
         /\ WF_tcVars(Handle(r))
         /\ WF_tcVars(AnswerIsDropped(r))
         /\ \A i \in Instance : WF_tcVars(TakeAnswer(i, r) \/ TakeError(i, r))
    /\ \A i \in Instance :
         /\ WF_tcVars(\E r \in Request : Ask(i, r))
         /\ \A j \in Job : SF_tcVars(BeginJob(i, j)) /\ WF_tcVars(Work(i, j))
    /\ WF_tcVars(\E m \in posts : Deliver(m))

TCFairSpec == TCSpec /\ TCFairness

-----------------------------------------------------------------------------
\* Properties

\* Every record of the pipeline's source that is well formed and was created
\* before t is in the destination.
Covered(p, t) ==
    t # NoTime => \A x \in RecordsOf[p] \ Malformed :
                     created[x] # NoTime /\ created[x] < t => x \in dest

\* Pipelines whose windows leave nothing out. Kapture tickets do: without a
\* start_time they fetch the current day only. So does a source that answers
\* without its records, and a lookback that looks ahead.
Reliable(p) ==
    /\ Connector[p] # "kapture_tickets"
    /\ "no_list" \notin Fault
    /\ Lookback[p] >= 0

\* The cursor never stands past a record that is not in the destination: over
\* crashes, lost posts, late posts and overlapping jobs of one pipeline, which
\* may even move the cursor back, nothing is skipped by the next window
\* (README: the cursor is updated only on confirmed success).
CursorCovered ==
    \A p \in Pipeline : Reliable(p) => Covered(p, cursor[p])

\* A job that is recorded as a success has copied its window, all of it when
\* the start is open ("first run: full sync", jobs.py). The last second is
\* excepted: a record created in it after the fetch belongs to the next window.
SuccessMeansCopied ==
    \A j \in Job : status[j] = "success" =>
        \A x \in RecordsOf[PipelineOf[j]] \ Malformed :
            /\ created[x] # NoTime
            /\ created[x] < given[j].end
            /\ given[j].start # NoTime => given[j].start <= created[x]
            => x \in dest

\* A job is worked on by one process at most, over concurrent polls, shutdowns
\* and replacements.
SoleWorker ==
    \A j \in Job : \A i \in Instance : task[i][j] # "none" =>
        \A k \in Instance \ {i} : task[k][j] = "none"

\* A job that the orchestrator counts as dispatched is in good hands: in an
\* answer that an agent awaits, or in a task that was spawned for it. Nothing
\* ever gives a dispatched job back to the queue, so one that is in neither
\* is lost.
DispatchedIsHeld ==
    \A j \in Job : status[j] = "dispatched" =>
        \E i \in Instance :
            \/ asking[i] # NoRequest /\ j \in claim[asking[i]]
            \/ task[i][j] \in Active \cup {"done"}

\* Graceful shutdown waits for all jobs in flight (README, agent/): once a
\* process has drained and exits, the orchestrator counts none of the jobs of
\* its agent as dispatched.
GracefulExit ==
    [][\A i \in Instance :
         mode[i] = "draining" /\ mode'[i] = "down" =>
           \A j \in Job : AgentOf[j] = IdOf[i] => status'[j] # "dispatched"]_tcVars

\* Every job that is enqueued comes to an end in the orchestrator's table too,
\* and stays there: the agent reports success or failure back (README, step 6).
JobSettles ==
    \A j \in Job :
        (status[j] = "pending") ~> [](status[j] \in {"success", "failed"})

\* The system keeps the promise of IncrementalSync for the pipelines whose windows
\* leave nothing out; the others owe nothing.
Promise == INSTANCE IncrementalSync WITH
    LastTick <- MaxTime,
    Owed <- [p \in Pipeline |->
               IF Reliable(p) THEN RecordsOf[p] \ Malformed ELSE {}]

SyncsIncrementally == Promise!ISSpec

\* The queue and the agents, seen on their own, do nothing here that their
\* modules do not allow: their environments are not assumed too kind.
QueueIsJobQueue == JQSpec
AgentsAreAgents == AGSpec
=============================================================================
