------------------------------- MODULE Agent -------------------------------
(***************************************************************************)
(* The agent process: one asyncio loop that polls for jobs, a task per job *)
(* that waits for a permit of the semaphore and then runs run_job in a     *)
(* worker thread, and the shutdown sequence of main.py.  Several instances *)
(* may run, with the same agent id or not: a replacement is started while  *)
(* its predecessor drains.                                                 *)
(*                                                                         *)
(* What run_job does to the outside (the reports and the sync) belongs to  *)
(* Turbocat; here its steps are only what holds a permit, and for how long.*)
(***************************************************************************)
EXTENDS Domain, FiniteSets

CONSTANTS
    Instance,   \* agent processes
    MaxWorkers, \* settings.max_workers
    NoRequest   \* no poll is under way

ASSUME AgentAssumption ==
    /\ MaxWorkers \in Nat \ {0}
    /\ NoRequest \notin Request

VARIABLES
    mode,       \* the process: running, shutting down, or gone
    asking,     \* the poll whose answer _poll_loop awaits
    task,       \* the asyncio task of each job
    permits     \* the semaphore

agVars == <<mode, asking, task, permits>>

\* A task with a permit is inside run_job: reporting RUNNING, in source.sync,
\* or reporting the outcome.
InThread == {"announcing", "syncing", "reporting"}
Active == InThread \cup {"waiting"}

\* The semaphore never goes below zero or above max_workers, and the process
\* and its tasks are in states the code knows.
AGTypeOK ==
    /\ mode \in [Instance -> {"up", "draining", "down"}]
    /\ asking \in [Instance -> Request \cup {NoRequest}]
    /\ task \in [Instance -> [Job -> Active \cup {"none", "done", "lost"}]]
    /\ permits \in [Instance -> 0 .. MaxWorkers]

AGInit ==
    /\ mode = [i \in Instance |-> "up"]
    /\ asking = [i \in Instance |-> NoRequest]
    /\ task = [i \in Instance |-> [j \in Job |-> "none"]]
    /\ permits = [i \in Instance |-> MaxWorkers]

ActiveTasks(i) == {j \in Job : task[i][j] \in Active}
Workers(i) == {j \in Job : task[i][j] \in InThread}

-----------------------------------------------------------------------------
\* _poll_loop

PollStart(i, r) ==
    /\ mode[i] = "up"
    /\ asking[i] = NoRequest
    /\ Cardinality(ActiveTasks(i)) < MaxWorkers
    /\ asking' = [asking EXCEPT ![i] = r]
    /\ UNCHANGED <<mode, task, permits>>

\* The answer is spawned whole, however many jobs it holds.
PollReturn(i, jobs) ==
    /\ asking[i] # NoRequest
    /\ asking' = [asking EXCEPT ![i] = NoRequest]
    /\ task' = [task EXCEPT ![i] = [j \in Job |->
                  IF j \in jobs THEN "waiting" ELSE task[i][j]]]
    /\ UNCHANGED <<mode, permits>>

\* An error answer, or the client's timeout: logged, and the loop goes on.
PollError(i) ==
    /\ asking[i] # NoRequest
    /\ asking' = [asking EXCEPT ![i] = NoRequest]
    /\ UNCHANGED <<mode, task, permits>>

-----------------------------------------------------------------------------
\* _run_job and run_job

Alive(i) == mode[i] # "down"

Move(i, j, from, to) ==
    /\ Alive(i)
    /\ task[i][j] = from
    /\ task' = [task EXCEPT ![i][j] = to]

\* Mutation of Acquire: the task does not wait for a permit.
AcquireAnyway(i, j) ==
    /\ Move(i, j, "waiting", "announcing")
    /\ permits' = [permits EXCEPT ![i] = @ - 1]
    /\ UNCHANGED <<mode, asking>>

Acquire(i, j) ==
    /\ Move(i, j, "waiting", "announcing")
    /\ permits[i] > 0
    /\ permits' = [permits EXCEPT ![i] = @ - 1]
    /\ UNCHANGED <<mode, asking>>

Announced(i, j) ==
    /\ Move(i, j, "announcing", "syncing")
    /\ UNCHANGED <<mode, asking, permits>>

Synced(i, j) ==
    /\ Move(i, j, "syncing", "reporting")
    /\ UNCHANGED <<mode, asking, permits>>

\* Mutation of Reported: the permit is not given back.
ReportedLeaks(i, j) ==
    /\ Move(i, j, "reporting", "done")
    /\ UNCHANGED <<mode, asking, permits>>

\* run_job returns; leaving the async with block releases the permit and the
\* done callback takes the task out of the active set.
Reported(i, j) ==
    /\ Move(i, j, "reporting", "done")
    /\ permits' = [permits EXCEPT ![i] = @ + 1]
    /\ UNCHANGED <<mode, asking>>

-----------------------------------------------------------------------------
\* main.py: shutdown, and what is not a shutdown

\* SIGTERM: the poll loop is cancelled. A poll under way runs on in its thread
\* but nobody takes its answer.
Stop(i) ==
    /\ "stop" \in Fault
    /\ mode[i] = "up"
    /\ mode' = [mode EXCEPT ![i] = "draining"]
    /\ asking' = [asking EXCEPT ![i] = NoRequest]
    /\ UNCHANGED <<task, permits>>

\* Mutation of Exit: drain() waits for the worker threads only.
ExitEarly(i) ==
    /\ mode[i] = "draining"
    /\ Workers(i) = {}
    /\ mode' = [mode EXCEPT ![i] = "down"]
    /\ UNCHANGED <<asking, task, permits>>

\* drain() has gathered every active task.
Exit(i) ==
    /\ mode[i] = "draining"
    /\ ActiveTasks(i) = {}
    /\ mode' = [mode EXCEPT ![i] = "down"]
    /\ UNCHANGED <<asking, task, permits>>

Crash(i) ==
    /\ "crash" \in Fault
    /\ Alive(i)
    /\ mode' = [mode EXCEPT ![i] = "down"]
    /\ asking' = [asking EXCEPT ![i] = NoRequest]
    /\ task' = [task EXCEPT ![i] = [j \in Job |->
                  IF task[i][j] \in Active THEN "lost" ELSE task[i][j]]]
    /\ UNCHANGED permits

\* A new process in its place: nothing is persisted, so it starts from Init.
Restart(i) ==
    /\ mode[i] = "down"
    /\ mode' = [mode EXCEPT ![i] = "up"]
    /\ permits' = [permits EXCEPT ![i] = MaxWorkers]
    /\ UNCHANGED <<asking, task>>

-----------------------------------------------------------------------------
\* On its own the agent is run against an orchestrator that answers with any
\* jobs that have not been handed to anyone before.

Fresh == {j \in Job : \A i \in Instance : task[i][j] = "none"}

RunJob(i, j) ==
    \/ Acquire(i, j)
    \/ Announced(i, j)
    \/ Synced(i, j)
    \/ Reported(i, j)

AGNext ==
    \E i \in Instance :
        \/ \E r \in Request : PollStart(i, r)
        \/ \E jobs \in SUBSET Fresh : PollReturn(i, jobs)
        \/ PollError(i)
        \/ \E j \in Job : RunJob(i, j)
        \/ Stop(i)
        \/ Exit(i)
        \/ Crash(i)
        \/ Restart(i)

AGSpec == AGInit /\ [][AGNext]_agVars

\* The event loop runs what is ready and worker threads finish: every request
\* a connector or a report makes has a timeout. The semaphore is first in,
\* first out, so a task that waits for a permit gets one.
AGFairness ==
    \A i \in Instance :
        /\ WF_agVars(Exit(i))
        /\ \A j \in Job : SF_agVars(Acquire(i, j)) /\ WF_agVars(RunJob(i, j))

AGFairSpec == AGSpec /\ AGFairness

-----------------------------------------------------------------------------
\* Properties

\* The semaphore counts: permits left and jobs inside run_job always add up to
\* max_workers, so no more than that many run at once and no permit leaks over
\* failures, shutdowns and restarts (README: a semaphore caps the workers).
PermitsAccount ==
    \A i \in Instance :
        Alive(i) => permits[i] + Cardinality(Workers(i)) = MaxWorkers

\* Shutdown step 2: a job that was spawned is finished, its outcome reported,
\* even when SIGTERM comes while it still waits for a permit, unless the process
\* crashes under it.
SpawnedIsDone ==
    \A i \in Instance, j \in Job :
        (task[i][j] = "waiting") ~> (task[i][j] \in {"done", "lost"})

\* Shutdown step 3: a draining process gets to its exit.
StopLeadsToExit ==
    \A i \in Instance : (mode[i] = "draining") ~> (mode[i] = "down")
=============================================================================
