------------------------------ MODULE JobQueue ------------------------------
(***************************************************************************)
(* The orchestrator's job queue: the job_runs table, the pipeline cursors, *)
(* and the two handlers of routes/jobs.py.  GET /jobs/pending runs in a    *)
(* thread per request and is split at every point where another thread or  *)
(* replica can get in between: the locking SELECT, the commit that claims, *)
(* the reload, the payload of each job (which fetches a secret over the    *)
(* network), and the answer.  POST /jobs/{id}/status has one commit and is *)
(* one step.                                                               *)
(***************************************************************************)
EXTENDS Domain

CONSTANT Lookback   \* params["lookback_days"] of each pipeline, in clock units

\* params is a dict of anything: a lookback may be negative.
ASSUME JobQueueAssumption == Lookback \in [Pipeline -> Int]

VARIABLES
    status,     \* JobRun.status
    started,    \* the jobs with a started_at
    completed,  \* the jobs with a completed_at
    cursor,     \* Pipeline.state["last_sync_at"]
    now,        \* the clock
    pc,         \* where each handler thread is
    claim,      \* the rows it selected: jobs, then job_ids
    seen,       \* the cursors its reload read
    payload,    \* the payloads it has built so far
    given       \* history: the payload each job was answered with

rowVars == <<status, started, completed, cursor>>
reqVars == <<pc, claim, seen, payload>>
jqVars == <<rowVars, now, reqVars, given>>

Handling == {"arrived", "selected", "claimed", "building"}

\* The rows, the handlers and the answers keep the types of their columns and
\* fields; in particular no window, and so no cursor, ends after the last tick.
JQTypeOK ==
    /\ status \in [Job -> RowStatus]
    /\ started \subseteq Job
    /\ completed \subseteq Job
    /\ cursor \in [Pipeline -> Cursor]
    /\ now \in Time
    /\ pc \in [Request -> Handling \cup {"idle", "answered", "failed"}]
    /\ claim \in [Request -> SUBSET Job]
    /\ seen \in [Request -> [Pipeline -> Cursor]]
    /\ payload \in [Request -> [Job -> Payload]]
    /\ given \in [Job -> Payload]

NoCursors == [p \in Pipeline |-> NoTime]
NoPayloads == [j \in Job |-> NoPayload]

JQInit ==
    /\ status = [j \in Job |-> "absent"]
    /\ started = {}
    /\ completed = {}
    /\ cursor = NoCursors
    /\ now = 0
    /\ pc = [r \in Request |-> "idle"]
    /\ claim = [r \in Request |-> {}]
    /\ seen = [r \in Request |-> NoCursors]
    /\ payload = [r \in Request |-> NoPayloads]
    /\ given = NoPayloads

-----------------------------------------------------------------------------
\* The clock and the scheduler.

Tick ==
    /\ now < MaxTime
    /\ now' = now + 1
    /\ UNCHANGED <<rowVars, reqVars, given>>

\* _enqueue_job: a cron tick inserts a row. Nothing looks at the earlier jobs
\* of the pipeline, so two of them may be alive at once.
Enqueue(j) ==
    /\ status[j] = "absent"
    /\ status' = [status EXCEPT ![j] = "pending"]
    /\ UNCHANGED <<started, completed, cursor, now, reqVars, given>>

-----------------------------------------------------------------------------
\* GET /jobs/pending

PollArrive(r) ==
    /\ pc[r] = "idle"
    /\ pc' = [pc EXCEPT ![r] = "arrived"]
    /\ UNCHANGED <<rowVars, now, claim, seen, payload, given>>

\* Row locks last from the SELECT to the end of the transaction.
Locked == UNION {claim[r] : r \in {q \in Request : pc[q] = "selected"}}

\* Mutations of Selectable: without SKIP LOCKED, and with a filter that lets
\* claimed rows through.
SelectableUnlocked(r) ==
    {j \in Job : status[j] = "pending" /\ AgentOf[j] = CallerOf[r]}

SelectableAgain(r) ==
    {j \in Job : /\ status[j] \in {"pending", "dispatched"}
                 /\ AgentOf[j] = CallerOf[r]
                 /\ j \notin Locked}

\* FOR UPDATE SKIP LOCKED: a row another handler holds is not returned.
Selectable(r) ==
    {j \in Job : /\ status[j] = "pending"
                 /\ AgentOf[j] = CallerOf[r]
                 /\ j \notin Locked}

PollSelect(r) ==
    /\ pc[r] = "arrived"
    /\ claim' = [claim EXCEPT ![r] = Selectable(r)]
    /\ pc' = [pc EXCEPT ![r] = IF Selectable(r) = {} THEN "answered"
                                                     ELSE "selected"]
    /\ UNCHANGED <<rowVars, now, seen, payload, given>>

\* Mutations of PollCommit: the status is not written, or it is written to
\* every pending row of the agent and not just to those that were selected.
PollCommitForgets(r) ==
    /\ pc[r] = "selected"
    /\ pc' = [pc EXCEPT ![r] = "claimed"]
    /\ UNCHANGED <<rowVars, now, claim, seen, payload, given>>

PollCommitAll(r) ==
    /\ pc[r] = "selected"
    /\ status' = [j \in Job |->
                    IF status[j] = "pending" /\ AgentOf[j] = CallerOf[r]
                    THEN "dispatched" ELSE status[j]]
    /\ pc' = [pc EXCEPT ![r] = "claimed"]
    /\ UNCHANGED <<started, completed, cursor, now, claim, seen, payload, given>>

PollCommit(r) ==
    /\ pc[r] = "selected"
    /\ status' = [j \in Job |-> IF j \in claim[r] THEN "dispatched"
                                                  ELSE status[j]]
    /\ pc' = [pc EXCEPT ![r] = "claimed"]
    /\ UNCHANGED <<started, completed, cursor, now, claim, seen, payload, given>>

PollReload(r) ==
    /\ pc[r] = "claimed"
    /\ seen' = [seen EXCEPT ![r] = cursor]
    /\ pc' = [pc EXCEPT ![r] = "building"]
    /\ UNCHANGED <<rowVars, now, claim, payload, given>>

Unbuilt(r) == {j \in claim[r] : payload[r][j] = NoPayload}

\* Mutations of WindowFor: it ends in the future, the lookback is added, or the
\* window starts one second too late.
WindowForLate(last, lookback, clock) ==
    [start |-> IF last = NoTime THEN NoTime ELSE last - lookback,
     end |-> clock + 1]

WindowForAhead(last, lookback, clock) ==
    [start |-> IF last = NoTime THEN NoTime ELSE last + lookback,
     end |-> clock]

WindowForShort(last, lookback, clock) ==
    [start |-> IF last = NoTime THEN NoTime ELSE last - lookback + 1,
     end |-> clock]

\* The window of a job: from the cursor less the lookback, or unbounded when
\* there is no cursor, up to the clock.
WindowFor(last, lookback, clock) ==
    [start |-> IF last = NoTime THEN NoTime ELSE last - lookback,
     end |-> clock]

PollBuild(r, j) ==
    /\ pc[r] = "building"
    /\ j \in Unbuilt(r)
    /\ payload' = [payload EXCEPT ![r][j] =
                     WindowFor(seen[r][PipelineOf[j]],
                               Lookback[PipelineOf[j]], now)]
    /\ UNCHANGED <<rowVars, now, pc, claim, seen, given>>

PollReply(r) ==
    /\ pc[r] = "building"
    /\ Unbuilt(r) = {}
    /\ given' = [j \in Job |-> IF j \in claim[r] THEN payload[r][j]
                                                 ELSE given[j]]
    /\ pc' = [pc EXCEPT ![r] = "answered"]
    /\ UNCHANGED <<rowVars, now, claim, seen, payload>>

Abort(r) ==
    /\ pc' = [pc EXCEPT ![r] = "failed"]
    /\ claim' = [claim EXCEPT ![r] = {}]
    /\ seen' = [seen EXCEPT ![r] = NoCursors]
    /\ payload' = [payload EXCEPT ![r] = NoPayloads]
    /\ UNCHANGED <<rowVars, now, given>>

\* get_secret raises for one of the jobs still to be built: the answer is a
\* 500 for all of them, and the claim is already committed.
PollRaise(r) ==
    /\ "secret" \in Fault
    /\ pc[r] = "building"
    /\ Unbuilt(r) # {}
    /\ Abort(r)

\* The process or its database connection dies under the handler; before the
\* commit that also rolls the transaction back and releases the row locks.
HandlerDies(r) ==
    /\ "handler" \in Fault
    /\ pc[r] \in Handling
    /\ Abort(r)

\* The response has been written and the thread is free again.
PollClose(r) ==
    /\ pc[r] \in {"answered", "failed"}
    /\ pc' = [pc EXCEPT ![r] = "idle"]
    /\ claim' = [claim EXCEPT ![r] = {}]
    /\ seen' = [seen EXCEPT ![r] = NoCursors]
    /\ payload' = [payload EXCEPT ![r] = NoPayloads]
    /\ UNCHANGED <<rowVars, now, given>>

-----------------------------------------------------------------------------
\* POST /jobs/{job_id}/status

\* The row's status is overwritten whatever it was. started_at is set once,
\* completed_at on each final status, the cursor only on a success.
UpdateStatus(j, s, next) ==
    /\ status[j] # "absent"
    /\ status' = [status EXCEPT ![j] = s]
    /\ started' = IF s = "running" THEN started \cup {j} ELSE started
    /\ completed' = IF s \in {"success", "failed"} THEN completed \cup {j}
                                                   ELSE completed
    /\ cursor' = IF s = "success" /\ next # NoTime
                 THEN [cursor EXCEPT ![PipelineOf[j]] = next]
                 ELSE cursor
    /\ UNCHANGED <<now, reqVars, given>>

-----------------------------------------------------------------------------
\* On its own the queue is run against any client: requests arrive at any
\* time, and whoever was handed a job may report on it in any order, a success
\* with the end of its window.

Report(j) ==
    /\ given[j] # NoPayload
    /\ \E s \in {"running", "success", "failed"} :
         UpdateStatus(j, s, IF s = "success" THEN given[j].end ELSE NoTime)

Serve(r) ==
    \/ PollSelect(r)
    \/ PollCommit(r)
    \/ PollReload(r)
    \/ \E j \in Job : PollBuild(r, j)
    \/ PollReply(r)
    \/ PollClose(r)

JQNext ==
    \/ Tick
    \/ \E j \in Job : Enqueue(j) \/ Report(j)
    \/ \E r \in Request :
         \/ PollArrive(r)
         \/ Serve(r)
         \/ PollRaise(r)
         \/ HandlerDies(r)

JQSpec == JQInit /\ [][JQNext]_jqVars

-----------------------------------------------------------------------------
\* Properties

Holding == {"selected", "claimed", "building"}

\* No duplicate dispatch, as an invariant of the handlers' state: two requests
\* in progress never hold the same job, and none holds a job that an earlier
\* answer already handed out. It relies on SKIP LOCKED between the SELECT and
\* the commit, and on the committed status after it.
NoDuplicateDispatch ==
    \A r \in Request : pc[r] \in Holding =>
        /\ \A q \in Request \ {r} :
             pc[q] \in Holding => claim[r] \cap claim[q] = {}
        /\ \A j \in claim[r] : given[j] = NoPayload

\* What the row says agrees with where the job is: rows under lock are still
\* pending, and a job that was claimed or handed out is never pending again,
\* whatever reports arrive.
ClaimsAreCommitted ==
    /\ \A r \in Request : pc[r] = "selected" =>
         \A j \in claim[r] : status[j] = "pending"
    /\ \A r \in Request : pc[r] \in {"claimed", "building", "answered"} =>
         \A j \in claim[r] : status[j] \notin {"absent", "pending"}
    /\ \A j \in Job : given[j] # NoPayload =>
         status[j] \notin {"absent", "pending"}

\* A job is handed to a caller at most once, over every interleaving of polls,
\* reports and failures (README: safe to run multiple agents).
HandedOnce ==
    [][\A j \in Job : given[j] # NoPayload => given'[j] = given[j]]_jqVars

\* A window that ends in the past and re-reads at least the lookback.
SoundWindow(j, w) ==
    /\ w.end \in 0 .. now
    /\ w.start # NoTime => w.start + Lookback[PipelineOf[j]] <= w.end

\* Every window handed out is sound, whichever job of the pipeline moved the
\* cursor between the reload of the handler and its payload.
WindowSound ==
    \A j \in Job : given[j] # NoPayload => SoundWindow(j, given[j])

\* The cursor of a pipeline is always the end of a window that was handed out
\* for a job of that pipeline and that has completed.
CursorWasHanded ==
    \A p \in Pipeline : cursor[p] # NoTime =>
        \E j \in completed : PipelineOf[j] = p /\ given[j].end = cursor[p]
=============================================================================
