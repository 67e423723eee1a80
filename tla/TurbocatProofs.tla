--------------------------- MODULE TurbocatProofs ---------------------------
(***************************************************************************)
(* Theorems about the whole system, for any number of jobs, pipelines,     *)
(* agent processes, workers, records and handler threads, with every kind  *)
(* of failure, and for any lookback (none included).                       *)
(*                                                                         *)
(* The composition does only what JobQueue and Agent allow, so what was    *)
(* proved of them holds here.  On top of that: a job is worked on once, a  *)
(* cursor never stands past a record that was not copied, and the system   *)
(* implements IncrementalSync.                                             *)
(***************************************************************************)
EXTENDS Turbocat, JobQueueProofs, AgentProofs

-----------------------------------------------------------------------------
\* Who holds a job.

\* A task exists only for a job that was handed out, and a post in flight is a
\* report that JobQueue would accept of such a job.
TasksAreGiven ==
    \A i \in Instance, j \in Job : task[i][j] # "none" => given[j] # NoPayload

PostsAreReports ==
    \A m \in posts :
        /\ given[m.job] # NoPayload
        /\ m.next = IF m.status = "success" THEN given[m.job].end ELSE NoTime

\* The jobs of an answer that was not taken yet have no task anywhere.
AnswersAreFresh ==
    \A r \in Request : pc[r] = "answered" =>
        \A j \in claim[r], i \in Instance : task[i][j] = "none"

DataTypeOK ==
    /\ posts \subseteq Post
    /\ created \in [Record -> Cursor]
    /\ dest \subseteq Record
    /\ todo \in [Job -> SUBSET Record]

HoldInv ==
    /\ DispatchInv
    /\ PermitInv
    /\ DataTypeOK
    /\ TasksAreGiven
    /\ PostsAreReports
    /\ AnswersAreFresh
    /\ SoleWorker

\* Every step of the system is a step of the job queue, or leaves it alone.
LEMMA QueueStep == HoldInv /\ [TCNext]_tcVars => [JQNext]_jqVars
<1> SUFFICES ASSUME HoldInv, [TCNext]_tcVars PROVE [JQNext]_jqVars
  OBVIOUS
<1>1. CASE World
  BY <1>1 DEF World, JQNext
<1>2. ASSUME NEW r \in Request,
             \/ Handle(r) \/ HandlerFails(r) \/ AnswerIsDropped(r)
             \/ \E i \in Instance : Ask(i, r) \/ TakeAnswer(i, r) \/ TakeError(i, r)
      PROVE  JQNext
  <2>1. HandlerStep(r)
    BY <1>2 DEF Handle, HandlerFails, AnswerIsDropped, Ask, TakeAnswer,
                TakeError, HandlerStep, Serve
  <2> QED
    BY <2>1 DEF HandlerStep, JQNext
<1>3. ASSUME NEW m \in posts, Deliver(m) PROVE JQNext
  <2>1. m.job \in Job /\ m.status \in {"running", "success", "failed"}
    BY DEF HoldInv, DataTypeOK, Post
  <2>2. Report(m.job)
    BY <1>3, <2>1 DEF Deliver, Report, HoldInv, PostsAreReports
  <2> QED
    BY <2>1, <2>2 DEF JQNext
<1>4. CASE \/ \E x \in Record : Create(x)
           \/ \E i \in Instance :
                \/ PollTimesOut(i) \/ Lifecycle(i) \/ CrashAgent(i)
                \/ \E j \in Job : Work(i, j)
           \/ \E m \in posts : LosePost(m)
           \/ UNCHANGED tcVars
  BY <1>4 DEF Create, PollTimesOut, Lifecycle, CrashAgent, Work, BeginJob,
              StartSync, LoadBatch, PassOver, SyncSucceeds, SyncFails, EndJob,
              LosePost, tcVars
<1> QED
  BY <1>1, <1>2, <1>3, <1>4 DEF TCNext

\* Every step of the system is a step of the agents, or leaves them alone.
LEMMA AgentStep == HoldInv /\ [TCNext]_tcVars => [AGNext]_agVars
<1> SUFFICES ASSUME HoldInv, [TCNext]_tcVars PROVE [AGNext]_agVars
  OBVIOUS
<1>1. ASSUME NEW r \in Request, NEW i \in Instance,
             Ask(i, r) \/ TakeAnswer(i, r) \/ TakeError(i, r)
      PROVE  AGNext
  <2>1. CASE TakeAnswer(i, r)
    <3>1. claim[r] \in SUBSET Fresh
      BY <2>1 DEF TakeAnswer, HoldInv, DispatchInv, JQTypeOK, AnswersAreFresh, Fresh
    <3> QED
      BY <2>1, <3>1 DEF TakeAnswer, AGNext
  <2> QED
    BY <1>1, <2>1 DEF Ask, TakeError, AGNext
<1>2. ASSUME NEW i \in Instance, NEW j \in Job, Work(i, j)
      PROVE  AGNext \/ UNCHANGED agVars
  <2>1. RunJob(i, j) \/ UNCHANGED agVars
    BY <1>2 DEF Work, BeginJob, StartSync, LoadBatch, PassOver, SyncSucceeds,
                SyncFails, EndJob, RunJob
  <2> QED
    BY <2>1 DEF AGNext
<1>3. ASSUME NEW i \in Instance, PollTimesOut(i) \/ Lifecycle(i) \/ CrashAgent(i)
      PROVE  AGNext
  BY <1>3 DEF PollTimesOut, Lifecycle, CrashAgent, AGNext
<1>4. CASE \/ World
           \/ \E x \in Record : Create(x)
           \/ \E r \in Request : Handle(r) \/ HandlerFails(r) \/ AnswerIsDropped(r)
           \/ \E m \in posts : Deliver(m) \/ LosePost(m)
           \/ UNCHANGED tcVars
  BY <1>4 DEF World, Create, Handle, HandlerFails, AnswerIsDropped, Deliver,
              LosePost, tcVars
<1> QED
  BY <1>1, <1>2, <1>3, <1>4 DEF TCNext

\* Only taking an answer creates tasks.
LEMMA TasksStay ==
    ASSUME HoldInv, [TCNext]_tcVars,
           \A i \in Instance, r \in Request : ~TakeAnswer(i, r),
           NEW i \in Instance, NEW j \in Job
    PROVE  (task'[i][j] # "none") <=> (task[i][j] # "none")
<1> USE DEF HoldInv, PermitInv, AGTypeOK
<1>1. ASSUME NEW k \in Instance, NEW b \in Job, RunJob(k, b)
      PROVE  (task'[i][j] # "none") <=> (task[i][j] # "none")
  BY <1>1 DEF RunJob, Acquire, Announced, Synced, Reported, Move
<1>2. ASSUME NEW k \in Instance, CrashAgent(k)
      PROVE  (task'[i][j] # "none") <=> (task[i][j] # "none")
  BY <1>2 DEF CrashAgent, Crash, Active, InThread
<1>3. CASE task' = task
  BY <1>3
<1>4. ASSUME NEW k \in Instance, NEW b \in Job, Work(k, b)
      PROVE  RunJob(k, b) \/ task' = task
  BY <1>4 DEF Work, BeginJob, StartSync, LoadBatch, PassOver, SyncSucceeds,
              SyncFails, EndJob, RunJob, agVars
<1> QED
  BY <1>1, <1>2, <1>3, <1>4
     DEF TCNext, World, Create, Handle, HandlerFails, AnswerIsDropped, Ask,
         TakeError, PollStart, PollError, PollTimesOut, Lifecycle, Stop, Exit,
         Restart, Deliver, LosePost, tcVars, agVars

\* An answer that was not there before was just given, or holds no job.
LEMMA AnswersStay ==
    ASSUME HoldInv, [TCNext]_tcVars,
           NEW r \in Request, pc'[r] = "answered"
    PROVE  \/ claim'[r] = {}
           \/ claim'[r] = claim[r] /\ pc[r] = "answered"
           \/ claim'[r] = claim[r] /\ PollReply(r)
<1> USE DEF HoldInv, DispatchInv, JQTypeOK
<1>1. [JQNext]_jqVars
  BY QueueStep
<1>2. ASSUME NEW q \in Request, HandlerStep(q), q # r
      PROVE  pc'[r] = pc[r] /\ claim'[r] = claim[r]
  BY <1>2 DEF HandlerStep, Serve, PollArrive, PollSelect, PollCommit,
              PollReload, PollBuild, PollReply, PollClose, PollRaise,
              HandlerDies, Abort
<1>3. CASE HandlerStep(r)
  BY <1>3 DEF HandlerStep, Serve, PollArrive, PollSelect, PollCommit,
              PollReload, PollBuild, PollReply, PollClose, PollRaise,
              HandlerDies, Abort
<1>4. CASE \/ Tick \/ \E j \in Job : Enqueue(j) \/ Report(j)
           \/ UNCHANGED jqVars
  BY <1>4 DEF Tick, Enqueue, Report, UpdateStatus, reqVars, jqVars
<1> QED
  BY <1>1, <1>2, <1>3, <1>4 DEF JQNext, HandlerStep

\* Nobody holds a job at first.
LEMMA HoldInit == TCInit => HoldInv
  BY DispatchInit, PermitInit
     DEF TCInit, HoldInv, DataTypeOK, TasksAreGiven, PostsAreReports,
         AnswersAreFresh, SoleWorker, AGInit, JQInit, Cursor

\* Posts, records and what is left to sync keep their types.
LEMMA DataTypeStep == HoldInv /\ [TCNext]_tcVars => DataTypeOK'
<1> SUFFICES ASSUME HoldInv, [TCNext]_tcVars PROVE DataTypeOK'
  OBVIOUS
<1> USE DEF HoldInv, DataTypeOK
<1>1. ASSUME NEW x \in Record, Create(x) PROVE DataTypeOK'
  BY <1>1 DEF Create, DispatchInv, JQTypeOK, Cursor
<1>2. ASSUME NEW i \in Instance, NEW j \in Job, Work(i, j) PROVE DataTypeOK'
  <2>1. given[j].end \in Cursor /\ NoTime \in Cursor
    BY DEF DispatchInv, JQTypeOK, Payload, Cursor
  <2>2. /\ [job |-> j, status |-> "running", next |-> NoTime] \in Post
        /\ [job |-> j, status |-> "success", next |-> given[j].end] \in Post
        /\ [job |-> j, status |-> "failed", next |-> NoTime] \in Post
    BY <2>1 DEF Post
  <2>3. RecordsOf[PipelineOf[j]] \subseteq Record
    BY DomainAssumption, TurbocatAssumption
  <2>4. CASE BeginJob(i, j) \/ SyncSucceeds(i, j)
    BY <2>2, <2>4 DEF BeginJob, SyncSucceeds, Send, syncVars
  <2>5. CASE StartSync(i, j)
    BY <2>3, <2>5 DEF StartSync, InWindow
  <2>6. CASE \E records \in SUBSET Record :
                LoadBatch(i, j, records) \/ PassOver(i, j, records)
    BY <2>6 DEF LoadBatch, PassOver
  <2>7. CASE SyncFails(i, j)
    BY <2>2, <2>7 DEF SyncFails, Send
  <2>8. CASE EndJob(i, j)
    BY <2>8 DEF EndJob, syncVars
  <2> QED
    BY <1>2, <2>4, <2>5, <2>6, <2>7, <2>8 DEF Work
<1>3. ASSUME NEW i \in Instance, CrashAgent(i) PROVE DataTypeOK'
  BY <1>3 DEF CrashAgent
<1>4. CASE posts' \subseteq posts /\ UNCHANGED syncVars
  BY <1>4 DEF syncVars
<1> QED
  BY <1>1, <1>2, <1>3, <1>4
     DEF TCNext, World, Handle, HandlerFails, AnswerIsDropped, Ask, TakeAnswer,
         TakeError, PollTimesOut, Lifecycle, Deliver, LosePost, tcVars

\* No step gives a job to a second process, or reports on a job that was not
\* handed out.
LEMMA HoldStep == HoldInv /\ [TCNext]_tcVars => HoldInv'
<1> SUFFICES ASSUME HoldInv, [TCNext]_tcVars PROVE HoldInv'
  OBVIOUS
<1>1. DispatchInv'
  BY QueueStep, DispatchStep DEF HoldInv
<1>2. PermitInv'
  BY AgentStep, PermitStep DEF HoldInv
<1>3. DataTypeOK'
  BY DataTypeStep
<1>4. \A j \in Job : given[j] # NoPayload => given'[j] = given[j]
  BY QueueStep, HandedStep DEF HoldInv
<1>5. ASSUME NEW i \in Instance, NEW r \in Request, TakeAnswer(i, r)
      PROVE  TasksAreGiven' /\ AnswersAreFresh' /\ SoleWorker'
  <2>1. /\ pc[r] = "answered" /\ pc'[r] = "idle"
        /\ claim[r] \subseteq Job
        /\ \A q \in Request \ {r} : pc'[q] = pc[q] /\ claim'[q] = claim[q]
        /\ given' = given
    BY <1>5 DEF TakeAnswer, PollClose, HoldInv, DispatchInv, JQTypeOK
  <2>2. /\ \A k \in Instance \ {i} : task'[k] = task[k]
        /\ \A j \in claim[r] : task'[i][j] = "waiting"
        /\ \A j \in Job \ claim[r] : task'[i][j] = task[i][j]
    BY <1>5, <2>1 DEF TakeAnswer, PollReturn, HoldInv, PermitInv, AGTypeOK
  <2>3. \A j \in claim[r] :
          /\ given[j] # NoPayload
          /\ \A q \in Request \ {r} : pc[q] = "answered" => j \notin claim[q]
    BY <2>1 DEF HoldInv, DispatchInv, AnswersAreGiven
  <2>4. \A j \in claim[r], k \in Instance : task[k][j] = "none"
    BY <2>1 DEF HoldInv, AnswersAreFresh
  <2>5. TasksAreGiven'
    BY <2>1, <2>2, <2>3 DEF HoldInv, TasksAreGiven
  <2>6. AnswersAreFresh'
    <3> SUFFICES ASSUME NEW q \in Request, pc'[q] = "answered",
                        NEW j \in claim'[q], NEW k \in Instance
                 PROVE  task'[k][j] = "none"
      BY DEF AnswersAreFresh
    <3>1. q # r /\ pc[q] = "answered" /\ j \in claim[q] /\ j \in Job
      BY <2>1 DEF HoldInv, DispatchInv, JQTypeOK
    <3>2. task[k][j] = "none" /\ j \notin claim[r]
      BY <3>1, <2>3 DEF HoldInv, AnswersAreFresh
    <3> QED
      BY <2>2, <3>1, <3>2
  <2>7. SoleWorker'
    BY <2>1, <2>2, <2>4 DEF HoldInv, SoleWorker
  <2> QED
    BY <2>5, <2>6, <2>7
<1>6. ASSUME \A i \in Instance, r \in Request : ~TakeAnswer(i, r)
      PROVE  TasksAreGiven' /\ AnswersAreFresh' /\ SoleWorker'
  <2>1. \A i \in Instance, j \in Job :
          (task'[i][j] # "none") <=> (task[i][j] # "none")
    BY <1>6, TasksStay
  <2>2. TasksAreGiven'
    BY <1>4, <2>1 DEF HoldInv, TasksAreGiven
  <2>3. SoleWorker'
    BY <2>1 DEF HoldInv, SoleWorker
  <2>4. AnswersAreFresh'
    <3> SUFFICES ASSUME NEW r \in Request, pc'[r] = "answered",
                        NEW j \in claim'[r], NEW i \in Instance
                 PROVE  task'[i][j] = "none"
      BY DEF AnswersAreFresh
    <3>1. j \in Job
      BY <1>1 DEF DispatchInv, JQTypeOK
    <3>2. CASE claim'[r] = claim[r] /\ pc[r] = "answered"
      BY <2>1, <3>1, <3>2 DEF HoldInv, AnswersAreFresh
    <3>3. CASE claim'[r] = claim[r] /\ PollReply(r)
      <4>1. given[j] = NoPayload
        BY <3>3 DEF PollReply, HoldInv, DispatchInv, NoDuplicateDispatch, Holding
      <4> QED
        BY <2>1, <3>1, <4>1 DEF HoldInv, TasksAreGiven
    <3> QED
      BY <3>2, <3>3, AnswersStay
  <2> QED
    BY <2>2, <2>3, <2>4
<1>7. PostsAreReports'
  <2>1. \A m \in posts :
          /\ given'[m.job] # NoPayload
          /\ m.next = IF m.status = "success" THEN given'[m.job].end ELSE NoTime
    BY <1>4 DEF HoldInv, PostsAreReports, DataTypeOK, Post
  <2>2. ASSUME NEW i \in Instance, NEW j \in Job, Work(i, j)
        PROVE  PostsAreReports'
    <3>1. CASE posts' = posts
      BY <2>1, <3>1 DEF PostsAreReports
    <3>2. CASE posts' # posts
      <4>1. given' = given /\ given[j] # NoPayload
        BY <2>2, <3>2
           DEF Work, BeginJob, StartSync, LoadBatch, PassOver, SyncSucceeds,
               SyncFails, EndJob, Acquire, Synced, Move, jqVars, HoldInv,
               TasksAreGiven
      <4>2. \/ Send(j, "running", NoTime)
            \/ Send(j, "success", given[j].end)
            \/ Send(j, "failed", NoTime)
        BY <2>2, <3>2 DEF Work, BeginJob, StartSync, LoadBatch, PassOver,
                          SyncSucceeds, SyncFails, EndJob
      <4> QED
        BY <2>1, <4>1, <4>2 DEF Send, PostsAreReports
    <3> QED
      BY <3>1, <3>2
  <2>3. CASE posts' \subseteq posts
    BY <2>1, <2>3 DEF PostsAreReports
  <2> QED
    BY <2>2, <2>3
       DEF TCNext, World, Create, Handle, HandlerFails, AnswerIsDropped, Ask,
           TakeAnswer, TakeError, PollTimesOut, Lifecycle, CrashAgent, Deliver,
           LosePost, tcVars
<1> QED
  BY <1>1, <1>2, <1>3, <1>5, <1>6, <1>7 DEF HoldInv

\* The invariant of who holds a job holds throughout.
THEOREM HoldInvariant == TCSpec => []HoldInv
  BY HoldInit, HoldStep, PTL DEF TCSpec

\* Every variable of the system keeps its type.
THEOREM TurbocatTypes == TCSpec => []TCTypeOK
<1>1. HoldInv => TCTypeOK
  BY DEF HoldInv, DispatchInv, PermitInv, DataTypeOK, TCTypeOK
<1> QED
  BY <1>1, HoldInvariant, PTL

\* Two processes never work on the same job.
THEOREM JobsHaveOneWorker == TCSpec => []SoleWorker
  BY HoldInvariant, PTL DEF HoldInv

\* The composed system is an environment that JobQueue allows ...
THEOREM TurbocatIsJobQueue == TCSpec => QueueIsJobQueue
<1>1. TCInit => JQInit
  BY DEF TCInit
<1> QED
  BY <1>1, QueueStep, HoldInvariant, PTL DEF TCSpec, JQSpec, QueueIsJobQueue

\* ... and one that Agent allows: no job is ever given to an agent twice.
THEOREM TurbocatIsAgents == TCSpec => AgentsAreAgents
<1>1. TCInit => AGInit
  BY DEF TCInit
<1> QED
  BY <1>1, AgentStep, HoldInvariant, PTL DEF TCSpec, AGSpec, AgentsAreAgents

-----------------------------------------------------------------------------
\* Dispatched jobs are held. A claim that is committed is never given back, so
\* everything that can end a poll or a task before its time has to be ruled out:
\* a secret that cannot be read, a handler or an agent that dies, a poll whose
\* client gives up, and a shutdown. Each of them does lose jobs (see the runs
\* Turbocat_secret and Turbocat_shutdown for two). What is left may still fail:
\* syncs, and status posts, which may be lost or late.

Calm == Fault \cap {"secret", "handler", "poll_timeout", "stop", "crash"} = {}

\* Every poll in progress is awaited, and only one past its SELECT holds jobs.
PollsAreAwaited ==
    \A r \in Request :
        /\ pc[r] # "failed"
        /\ pc[r] # "idle" => \E i \in Instance : asking[i] = r
        /\ pc[r] \in {"idle", "arrived"} => claim[r] = {}

AgentsStayUp ==
    /\ \A i \in Instance : mode[i] = "up"
    /\ \A i \in Instance, j \in Job : task[i][j] # "lost"

ClaimedOrSpawned(j) ==
    \/ \E r \in Request : j \in claim[r]
    \/ \E i \in Instance : task[i][j] # "none"

CalmInv ==
    /\ HoldInv
    /\ PollsAreAwaited
    /\ AgentsStayUp
    /\ \A j \in Job : status[j] = "dispatched" => ClaimedOrSpawned(j)

\* What can happen while nothing ends a poll or a task before its time.
LEMMA CalmNext ==
    ASSUME Calm, CalmInv, TCNext
    PROVE  \/ World
           \/ \E x \in Record : Create(x)
           \/ \E r \in Request : Handle(r)
           \/ \E r \in Request, i \in Instance : Ask(i, r) \/ TakeAnswer(i, r)
           \/ \E i \in Instance, j \in Job : Work(i, j)
           \/ \E m \in posts : Deliver(m) \/ LosePost(m)
<1>1. ASSUME NEW r \in Request
      PROVE  /\ ~HandlerFails(r)
             /\ ~AnswerIsDropped(r)
             /\ \A i \in Instance : ~TakeError(i, r)
  BY DEF Calm, CalmInv, PollsAreAwaited, HandlerFails, PollRaise, HandlerDies,
         AnswerIsDropped, PollClose, TakeError
<1>2. ASSUME NEW i \in Instance
      PROVE  ~PollTimesOut(i) /\ ~Lifecycle(i) /\ ~CrashAgent(i)
  BY DEF Calm, CalmInv, AgentsStayUp, PollTimesOut, Lifecycle, Stop, Exit,
         Restart, CrashAgent, Crash
<1> QED
  BY <1>1, <1>2 DEF TCNext

\* A poll that was started is awaited until its answer is taken.
LEMMA AwaitedStep ==
    ASSUME Calm, CalmInv, [TCNext]_tcVars
    PROVE  PollsAreAwaited' /\ AgentsStayUp'
<1> USE DEF CalmInv, HoldInv, DispatchInv, JQTypeOK, PermitInv, AGTypeOK,
            PollsAreAwaited, AgentsStayUp
<1>1. CASE UNCHANGED <<pc, claim, asking, mode, task>>
  BY <1>1
<1>2. ASSUME NEW r \in Request, Handle(r)
      PROVE  PollsAreAwaited' /\ AgentsStayUp'
  <2>1. UNCHANGED <<asking, mode, task>>
    BY <1>2 DEF Handle, agVars
  <2>2. /\ pc[r] # "idle" /\ pc'[r] \notin {"idle", "arrived", "failed"}
        /\ \A q \in Request \ {r} : pc'[q] = pc[q] /\ claim'[q] = claim[q]
    BY <1>2 DEF Handle, PollSelect, PollCommit, PollReload, PollBuild, PollReply
  <2> QED
    BY <2>1, <2>2
<1>3. ASSUME NEW r \in Request, NEW i \in Instance, Ask(i, r)
      PROVE  PollsAreAwaited' /\ AgentsStayUp'
  <2>1. /\ UNCHANGED <<mode, task, claim>>
        /\ pc[r] = "idle" /\ pc' = [pc EXCEPT ![r] = "arrived"]
        /\ asking[i] = NoRequest /\ asking' = [asking EXCEPT ![i] = r]
    BY <1>3 DEF Ask, PollStart, PollArrive
  <2> QED
    BY <2>1, AgentAssumption
<1>4. ASSUME NEW r \in Request, NEW i \in Instance, TakeAnswer(i, r)
      PROVE  PollsAreAwaited' /\ AgentsStayUp'
  <2>1. /\ asking[i] = r
        /\ asking' = [asking EXCEPT ![i] = NoRequest]
        /\ pc' = [pc EXCEPT ![r] = "idle"]
        /\ claim' = [claim EXCEPT ![r] = {}]
        /\ mode' = mode
        /\ task' = [task EXCEPT ![i] = [j \in Job |->
                      IF j \in claim[r] THEN "waiting" ELSE task[i][j]]]
    BY <1>4 DEF TakeAnswer, PollReturn, PollClose
  <2>2. AgentsStayUp'
    BY <2>1
  <2>3. PollsAreAwaited'
    BY <2>1
  <2> QED
    BY <2>2, <2>3
<1>5. ASSUME NEW i \in Instance, NEW j \in Job, Work(i, j)
      PROVE  PollsAreAwaited' /\ AgentsStayUp'
  <2>1. UNCHANGED <<pc, claim, asking, mode>>
    BY <1>5 DEF Work, BeginJob, StartSync, LoadBatch, PassOver, SyncSucceeds,
                SyncFails, EndJob, Acquire, Announced, Synced, Reported, jqVars,
                reqVars, agVars
  <2>2. \/ task' = task
        \/ Acquire(i, j) \/ Announced(i, j) \/ Synced(i, j) \/ Reported(i, j)
    BY <1>5 DEF Work, BeginJob, StartSync, LoadBatch, PassOver, SyncSucceeds,
                SyncFails, EndJob, agVars
  <2>3. \A k \in Instance, b \in Job : task'[k][b] # "lost"
    BY <2>2 DEF Acquire, Announced, Synced, Reported, Move
  <2> QED
    BY <2>1, <2>3
<1>6. CASE \/ World
           \/ \E x \in Record : Create(x)
           \/ \E m \in posts : Deliver(m) \/ LosePost(m)
           \/ UNCHANGED tcVars
  <2>1. UNCHANGED <<pc, claim, asking, mode, task>>
    BY <1>6 DEF World, Tick, Enqueue, Create, Deliver, UpdateStatus, LosePost,
                tcVars, jqVars, reqVars, agVars
  <2> QED
    BY <1>1, <2>1
<1> QED
  BY <1>2, <1>3, <1>4, <1>5, <1>6, CalmNext

\* A job stays claimed or spawned, and is so when its row becomes dispatched.
LEMMA ClaimedStep ==
    ASSUME Calm, CalmInv, [TCNext]_tcVars,
           NEW j \in Job, status'[j] = "dispatched"
    PROVE  ClaimedOrSpawned(j)'
<1> USE DEF CalmInv, HoldInv, DispatchInv, JQTypeOK, PermitInv, AGTypeOK
<1>1. ASSUME \A i \in Instance, r \in Request : ~TakeAnswer(i, r)
      PROVE  \A i \in Instance : task[i][j] # "none" => task'[i][j] # "none"
  BY <1>1, TasksStay
<1>2. ASSUME NEW r \in Request, Handle(r) PROVE ClaimedOrSpawned(j)'
  <2>1. task' = task
    BY <1>2 DEF Handle, agVars
  <2>2. \A q \in Request : claim[q] \subseteq claim'[q]
    <3>1. CASE PollSelect(r)
      BY <3>1 DEF PollSelect, PollsAreAwaited
    <3>2. CASE ~PollSelect(r)
      BY <1>2, <3>2 DEF Handle, PollCommit, PollReload, PollBuild, PollReply
    <3> QED
      BY <3>1, <3>2
  <2>3. status[j] = "dispatched" \/ j \in claim'[r]
    BY <1>2 DEF Handle, PollSelect, PollCommit, PollReload, PollBuild,
                PollReply, rowVars
  <2> QED
    BY <2>1, <2>2, <2>3 DEF ClaimedOrSpawned
<1>3. ASSUME NEW r \in Request, NEW i \in Instance, TakeAnswer(i, r)
      PROVE  ClaimedOrSpawned(j)'
  <2>1. status' = status
    BY <1>3 DEF TakeAnswer, PollClose, rowVars
  <2>2. /\ \A q \in Request \ {r} : claim'[q] = claim[q]
        /\ j \in claim[r] => task'[i][j] = "waiting"
        /\ \A k \in Instance : task[k][j] # "none" => task'[k][j] # "none"
    BY <1>3 DEF TakeAnswer, PollReturn, PollClose
  <2> QED
    BY <2>1, <2>2 DEF ClaimedOrSpawned
<1>4. ASSUME NEW r \in Request, NEW i \in Instance, Ask(i, r)
      PROVE  UNCHANGED <<claim, status, task>>
  BY <1>4 DEF Ask, PollStart, PollArrive, rowVars
<1>5. CASE \/ World
           \/ \E x \in Record : Create(x)
           \/ \E i \in Instance, b \in Job : Work(i, b)
           \/ \E m \in posts : Deliver(m) \/ LosePost(m)
           \/ UNCHANGED tcVars
  <2>1. claim' = claim
    BY <1>5 DEF World, Tick, Enqueue, Create, Work, BeginJob, StartSync,
                LoadBatch, PassOver, SyncSucceeds, SyncFails, EndJob, Deliver,
                UpdateStatus, LosePost, tcVars, jqVars, reqVars
  <2>2. status'[j] = status[j]
    BY <1>5 DEF World, Tick, Enqueue, Create, Work, BeginJob, StartSync,
                LoadBatch, PassOver, SyncSucceeds, SyncFails, EndJob, Deliver,
                Post, DataTypeOK, UpdateStatus, LosePost, tcVars, jqVars,
                rowVars
  <2>3. \A i \in Instance : task[i][j] # "none" => task'[i][j] # "none"
    <3>1. asking' = asking
      BY <1>5 DEF World, Create, Work, BeginJob, StartSync, LoadBatch, PassOver,
                  SyncSucceeds, SyncFails, EndJob, Acquire, Announced, Synced,
                  Reported, Deliver, LosePost, tcVars, agVars
    <3>2. ASSUME NEW i \in Instance, NEW r \in Request PROVE ~TakeAnswer(i, r)
      BY <3>1, AgentAssumption DEF TakeAnswer, PollReturn
    <3> QED
      BY <1>1, <3>2
  <2> QED
    BY <2>1, <2>2, <2>3 DEF ClaimedOrSpawned
<1> QED
  BY <1>2, <1>3, <1>4, <1>5, CalmNext DEF ClaimedOrSpawned

\* A job that the orchestrator counts as dispatched is in an answer that an
\* agent awaits or in a task, whatever happens to syncs and status posts, as long
\* as no poll and no process ends early: it is waiting for its turn, not lost.
THEOREM DispatchedJobsAreHeld ==
    ASSUME Calm
    PROVE  TCSpec => []DispatchedIsHeld
<1>1. TCInit => CalmInv
  BY HoldInit
     DEF TCInit, JQInit, AGInit, CalmInv, PollsAreAwaited, AgentsStayUp
<1>2. CalmInv /\ [TCNext]_tcVars => CalmInv'
  BY HoldStep, AwaitedStep, ClaimedStep DEF CalmInv
<1>3. CalmInv => DispatchedIsHeld
  <2> SUFFICES ASSUME CalmInv, NEW j \in Job, status[j] = "dispatched"
               PROVE  \E i \in Instance :
                         \/ asking[i] # NoRequest /\ j \in claim[asking[i]]
                         \/ task[i][j] \in Active \cup {"done"}
    BY DEF DispatchedIsHeld
  <2>1. CASE \E r \in Request : j \in claim[r]
    BY <2>1, AgentAssumption DEF CalmInv, PollsAreAwaited
  <2>2. CASE \E i \in Instance : task[i][j] # "none"
    BY <2>2 DEF CalmInv, AgentsStayUp, HoldInv, PermitInv, AGTypeOK
  <2> QED
    BY <2>1, <2>2 DEF CalmInv, ClaimedOrSpawned
<1> QED
  BY <1>1, <1>2, <1>3, PTL DEF TCSpec

-----------------------------------------------------------------------------
\* Nothing is skipped. Up to the end of its window a job that has synced leaves
\* the destination complete: before the start of the window because the cursor
\* it came from was covered, inside it because the sync copied everything. The
\* invariant follows that fact from the cursor to the cursor: through the
\* reload, the payload, the sync, the post in flight and the update.

CursorsCovered ==
    \A p \in Pipeline : Reliable(p) =>
        /\ Covered(p, cursor[p])
        /\ \A r \in Request : Covered(p, seen[r][p])

StartsCovered ==
    \A j \in Job : Reliable(PipelineOf[j]) =>
        /\ Covered(PipelineOf[j], given[j].start)
        /\ \A r \in Request : Covered(PipelineOf[j], payload[r][j].start)

TodoExists == \A j \in Job : \A x \in todo[j] : created[x] # NoTime

SyncsCover ==
    \A i \in Instance, j \in Job :
        task[i][j] = "syncing" /\ Reliable(PipelineOf[j]) =>
            \A x \in RecordsOf[PipelineOf[j]] \ Malformed :
                created[x] # NoTime /\ created[x] < given[j].end =>
                    x \in dest \/ x \in todo[j]

PostsCover ==
    \A m \in posts : m.status = "success" /\ Reliable(PipelineOf[m.job]) =>
        Covered(PipelineOf[m.job], given[m.job].end)

SuccessCovers ==
    \A j \in Job : status[j] = "success" =>
        /\ given[j] # NoPayload
        /\ Reliable(PipelineOf[j]) => Covered(PipelineOf[j], given[j].end)

CoverInv ==
    /\ CursorsCovered
    /\ StartsCovered
    /\ TodoExists
    /\ SyncsCover
    /\ PostsCover
    /\ SuccessCovers

\* All that is known of a reachable state.
SystemInv == HoldInv /\ WindowInv /\ CoverInv

\* Covered(p, t) in the next state, for the value that t has now.
CoveredNext(p, t) ==
    t # NoTime => \A x \in RecordsOf[p] \ Malformed :
                     created'[x] # NoTime /\ created'[x] < t => x \in dest'

\* A time that is not in the future, or none.
Past(t) == t \in Int \cup {NoTime} /\ (t # NoTime => t <= now)

\* The types that the invariant of the system gives, spelled out.
LEMMA SystemTypes ==
    ASSUME SystemInv
    PROVE  /\ now \in Int
           /\ \A x \in Record : created[x] \in Int \cup {NoTime}
           /\ \A p \in Pipeline : RecordsOf[p] \subseteq Record
           /\ \A j \in Job : PipelineOf[j] \in Pipeline
  BY DomainAssumption, TurbocatAssumption
     DEF SystemInv, WindowInv, HoldInv, DataTypeOK, JQTypeOK, Time, Cursor

\* Windows that were built or handed out end in the past, and start there, unless
\* their lookback looks ahead.
LEMMA WindowsArePast ==
    ASSUME SystemInv, NEW j \in Job, NEW w \in Payload,
           w = NoPayload \/ SoundWindow(j, w)
    PROVE  /\ Past(w.end)
           /\ Reliable(PipelineOf[j]) => Past(w.start)
<1>1. CASE w = NoPayload
  BY <1>1 DEF NoPayload, Past
<1>2. CASE SoundWindow(j, w)
  <2>1. now \in Int /\ Lookback[PipelineOf[j]] \in Int
    BY SystemTypes, JobQueueAssumption
  <2>2. w.end \in Int /\ w.end <= now
    BY <1>2, <2>1 DEF SoundWindow
  <2>3. w.start \in Int \cup {NoTime}
    BY DEF Payload
  <2>4. ASSUME Reliable(PipelineOf[j]), w.start # NoTime PROVE w.start <= now
    <3>1. w.start \in Int /\ w.start + Lookback[PipelineOf[j]] <= w.end
      BY <1>2, <2>3, <2>4 DEF SoundWindow
    <3>2. Lookback[PipelineOf[j]] >= 0
      BY <2>4 DEF Reliable
    <3> QED
      BY <2>1, <2>2, <3>1, <3>2
  <2> QED
    BY <2>2, <2>3, <2>4 DEF Past
<1> QED
  BY <1>1, <1>2

\* Creation times, cursors and posted cursors are in the past.
LEMMA TimesArePast ==
    ASSUME SystemInv
    PROVE  /\ \A p \in Pipeline : Past(cursor[p])
           /\ \A r \in Request, p \in Pipeline : Past(seen[r][p])
           /\ \A j \in Job : /\ Past(given[j].end)
                             /\ Reliable(PipelineOf[j]) => Past(given[j].start)
           /\ \A r \in Request, j \in Job :
                Reliable(PipelineOf[j]) => Past(payload[r][j].start)
<1> USE DEF SystemInv, WindowInv, JQTypeOK
<1>1. Cursor \subseteq Int \cup {NoTime}
  BY DomainAssumption DEF Cursor, Time
<1>2. \A p \in Pipeline : Past(cursor[p])
  BY <1>1 DEF CursorsPast, Past
<1>3. \A r \in Request, p \in Pipeline : Past(seen[r][p])
  BY <1>1 DEF CursorsPast, Past
<1>4. ASSUME NEW j \in Job
      PROVE  /\ Past(given[j].end)
             /\ Reliable(PipelineOf[j]) => Past(given[j].start)
  <2>1. given[j] \in Payload /\ (given[j] = NoPayload \/ SoundWindow(j, given[j]))
    BY DEF WindowSound
  <2> QED
    BY <2>1, WindowsArePast
<1>5. ASSUME NEW r \in Request, NEW j \in Job, Reliable(PipelineOf[j])
      PROVE  Past(payload[r][j].start)
  <2>1. /\ payload[r][j] \in Payload
        /\ payload[r][j] = NoPayload \/ SoundWindow(j, payload[r][j])
    BY DEF BuiltSound
  <2> QED
    BY <1>5, <2>1, WindowsArePast
<1> QED
  BY <1>2, <1>3, <1>4, <1>5

\* The sources only grow, with records of the present second, and so does the
\* destination.
LEMMA DataGrows ==
    ASSUME SystemInv, [TCNext]_tcVars
    PROVE  /\ dest \subseteq dest'
           /\ \A x \in Record :
                created'[x] = created[x] \/ (created[x] = NoTime /\ created'[x] = now)
<1> USE DEF SystemInv, HoldInv, DataTypeOK
<1>1. ASSUME NEW y \in Record, Create(y)
      PROVE  /\ dest' = dest
             /\ \A x \in Record :
                  created'[x] = created[x] \/ (created[x] = NoTime /\ created'[x] = now)
  BY <1>1 DEF Create
<1>2. ASSUME NEW i \in Instance, NEW j \in Job, Work(i, j)
      PROVE  created' = created /\ dest \subseteq dest'
  BY <1>2 DEF Work, BeginJob, StartSync, LoadBatch, PassOver, SyncSucceeds,
              SyncFails, EndJob, syncVars
<1>3. CASE created' = created /\ dest' = dest
  BY <1>3
<1> QED
  BY <1>1, <1>2, <1>3
     DEF TCNext, World, Handle, HandlerFails, AnswerIsDropped, Ask, TakeAnswer,
         TakeError, PollTimesOut, Lifecycle, CrashAgent, Deliver, LosePost,
         tcVars, syncVars

\* What is covered stays covered, as long as it is in the past.
LEMMA CoveredStays ==
    ASSUME SystemInv, [TCNext]_tcVars
    PROVE  \A p \in Pipeline : \A t :
             Past(t) /\ Covered(p, t) => CoveredNext(p, t)
<1> SUFFICES ASSUME NEW p \in Pipeline, NEW t, Past(t), Covered(p, t),
                    NEW x \in RecordsOf[p] \ Malformed,
                    created'[x] # NoTime, created'[x] < t, t # NoTime
             PROVE  x \in dest'
  BY DEF CoveredNext
<1>1. x \in Record /\ now \in Int
  BY SystemTypes
<1>2. created'[x] = created[x]
  BY <1>1, DataGrows DEF Past
<1> QED
  BY <1>2, DataGrows DEF Covered

\* Nothing has to be covered at first.
LEMMA CoverInit == TCInit => CoverInv
<1> SUFFICES ASSUME TCInit PROVE CoverInv
  OBVIOUS
<1> USE DEF TCInit, JQInit, AGInit, NoCursors, NoPayloads, NoPayload, Covered
<1>1. CursorsCovered /\ StartsCovered
  BY DomainAssumption DEF CursorsCovered, StartsCovered
<1>2. TodoExists /\ SyncsCover /\ PostsCover /\ SuccessCovers
  BY DEF TodoExists, SyncsCover, PostsCover, SuccessCovers
<1> QED
  BY <1>1, <1>2 DEF CoverInv

\* A cursor moves only to the end of a window whose success is in flight.
LEMMA CursorMoves ==
    ASSUME SystemInv, [TCNext]_tcVars, NEW p \in Pipeline
    PROVE  \/ cursor'[p] = cursor[p]
           \/ \E m \in posts : /\ m.status = "success"
                               /\ PipelineOf[m.job] = p
                               /\ cursor'[p] = given[m.job].end
<1> USE DEF SystemInv, HoldInv, DataTypeOK, DispatchInv, JQTypeOK
<1>1. ASSUME NEW m \in posts, Deliver(m), cursor'[p] # cursor[p]
      PROVE  /\ m.status = "success"
             /\ PipelineOf[m.job] = p
             /\ cursor'[p] = given[m.job].end
  <2>1. /\ m.status = "success"
        /\ cursor' = [cursor EXCEPT ![PipelineOf[m.job]] = m.next]
    BY <1>1 DEF Deliver, UpdateStatus
  <2>2. m.next = given[m.job].end
    BY <2>1 DEF PostsAreReports
  <2> QED
    BY <1>1, <2>1, <2>2
<1>2. CASE cursor' = cursor
  BY <1>2
<1>3. ASSUME NEW r \in Request, HandlerStep(r) PROVE cursor' = cursor
  BY <1>3 DEF HandlerStep, Serve, PollArrive, PollSelect, PollCommit,
              PollReload, PollBuild, PollReply, PollClose, PollRaise,
              HandlerDies, Abort, rowVars
<1>4. (\E m \in posts : Deliver(m)) \/ (\E r \in Request : HandlerStep(r))
        \/ cursor' = cursor
  BY DEF TCNext, World, Tick, Enqueue, Create, Handle, HandlerFails,
         AnswerIsDropped, Ask, TakeAnswer, TakeError, HandlerStep, Serve,
         PollTimesOut, Lifecycle, CrashAgent, Work, BeginJob, StartSync,
         LoadBatch, PassOver, SyncSucceeds, SyncFails, EndJob, LosePost, tcVars,
         jqVars, rowVars
<1> QED
  BY <1>1, <1>2, <1>3, <1>4

\* Where a window starts, with and without a cursor.
LEMMA WindowStart ==
    \A last, lookback, clock :
        WindowFor(last, lookback, clock).start =
            IF last = NoTime THEN NoTime ELSE last - lookback
  BY DEF WindowFor

\* What a handler has read and built comes from what was there.
LEMMA HandlerCopies ==
    ASSUME SystemInv, [TCNext]_tcVars, NEW r \in Request
    PROVE  /\ \A p \in Pipeline : seen'[r][p] \in {seen[r][p], cursor[p], NoTime}
           /\ \A j \in Job :
                \/ payload'[r][j].start \in {payload[r][j].start, NoTime}
                \/ /\ seen[r][PipelineOf[j]] # NoTime
                   /\ payload'[r][j].start =
                        seen[r][PipelineOf[j]] - Lookback[PipelineOf[j]]
<1> USE DEF SystemInv, HoldInv, DispatchInv, JQTypeOK
<1>1. [JQNext]_jqVars
  BY QueueStep
<1>2. CASE PollReload(r)
  BY <1>2 DEF PollReload
<1>3. ASSUME NEW j \in Job, PollBuild(r, j)
      PROVE  /\ seen' = seen
             /\ \A k \in Job \ {j} : payload'[r][k] = payload[r][k]
             /\ payload'[r][j] = WindowFor(seen[r][PipelineOf[j]],
                                          Lookback[PipelineOf[j]], now)
  BY <1>3 DEF PollBuild
<1>4. CASE PollClose(r) \/ PollRaise(r) \/ HandlerDies(r)
  BY <1>4 DEF PollClose, PollRaise, HandlerDies, Abort, NoCursors, NoPayloads,
              NoPayload
<1>5. CASE seen'[r] = seen[r] /\ payload'[r] = payload[r]
  BY <1>5
<1>6. ASSUME NEW q \in Request, HandlerStep(q), q # r
      PROVE  seen'[r] = seen[r] /\ payload'[r] = payload[r]
  BY <1>6 DEF HandlerStep, Serve, PollArrive, PollSelect, PollCommit,
              PollReload, PollBuild, PollReply, PollClose, PollRaise,
              HandlerDies, Abort
<1>7. CASE PollArrive(r) \/ PollSelect(r) \/ PollCommit(r) \/ PollReply(r)
  BY <1>7 DEF PollArrive, PollSelect, PollCommit, PollReply
<1>8. CASE \E j \in Job : PollBuild(r, j)
  <2>1. PICK b \in Job : PollBuild(r, b)
    BY <1>8
  <2>2. payload'[r][b].start =
          IF seen[r][PipelineOf[b]] = NoTime THEN NoTime
          ELSE seen[r][PipelineOf[b]] - Lookback[PipelineOf[b]]
    BY <1>3, <2>1, WindowStart
  <2>3. seen' = seen /\ \A k \in Job \ {b} : payload'[r][k] = payload[r][k]
    BY <1>3, <2>1
  <2> QED
    BY <2>2, <2>3
<1>9. CASE \/ Tick \/ \E j \in Job : Enqueue(j) \/ Report(j)
           \/ UNCHANGED jqVars
  <2>1. seen'[r] = seen[r] /\ payload'[r] = payload[r]
    BY <1>9 DEF Tick, Enqueue, Report, UpdateStatus, reqVars, jqVars
  <2> QED
    BY <1>5, <2>1
<1> QED
  BY <1>1, <1>2, <1>4, <1>5, <1>6, <1>7, <1>8, <1>9
     DEF JQNext, HandlerStep, Serve

\* A payload that is new is the one that its handler built.
LEMMA GivenCopies ==
    ASSUME SystemInv, [TCNext]_tcVars, NEW j \in Job
    PROVE  given'[j] = given[j] \/ \E r \in Request : given'[j] = payload[r][j]
<1> USE DEF SystemInv, HoldInv, DispatchInv, JQTypeOK
<1>1. [JQNext]_jqVars
  BY QueueStep
<1>2. ASSUME NEW r \in Request, PollReply(r)
      PROVE  given'[j] = given[j] \/ given'[j] = payload[r][j]
  BY <1>2 DEF PollReply
<1>3. CASE \A r \in Request : ~PollReply(r)
  BY <1>1, <1>3
     DEF JQNext, Tick, Enqueue, Report, UpdateStatus, PollArrive, Serve,
         PollSelect, PollCommit, PollReload, PollBuild, PollClose, PollRaise,
         HandlerDies, Abort, jqVars
<1> QED
  BY <1>2, <1>3

\* Every step keeps the destination complete up to each cursor, and up to the
\* start of each window that is under way.
LEMMA CursorsCoveredStep ==
    SystemInv /\ [TCNext]_tcVars => CursorsCovered' /\ StartsCovered'
<1> SUFFICES ASSUME SystemInv, [TCNext]_tcVars
             PROVE  CursorsCovered' /\ StartsCovered'
  OBVIOUS
<1>1. ASSUME NEW p \in Pipeline, Reliable(p)
      PROVE  CoveredNext(p, cursor'[p])
  <2>1. CoveredNext(p, cursor[p])
    BY <1>1, TimesArePast, CoveredStays
       DEF SystemInv, CoverInv, CursorsCovered
  <2>2. ASSUME NEW m \in posts, m.status = "success", PipelineOf[m.job] = p
        PROVE  CoveredNext(p, given[m.job].end)
    <3>1. m.job \in Job
      BY DEF SystemInv, HoldInv, DataTypeOK, Post
    <3>2. Covered(p, given[m.job].end)
      BY <1>1, <2>2 DEF SystemInv, CoverInv, PostsCover
    <3> QED
      BY <3>1, <3>2, TimesArePast, CoveredStays
  <2> QED
    BY <2>1, <2>2, CursorMoves
<1>2. ASSUME NEW p \in Pipeline, Reliable(p), NEW r \in Request
      PROVE  CoveredNext(p, seen'[r][p])
  <2>1. CoveredNext(p, cursor[p]) /\ CoveredNext(p, seen[r][p])
    BY <1>2, TimesArePast, CoveredStays
       DEF SystemInv, CoverInv, CursorsCovered
  <2>2. CoveredNext(p, NoTime)
    BY DEF CoveredNext
  <2> QED
    BY <2>1, <2>2, HandlerCopies
<1>3. CursorsCovered'
  BY <1>1, <1>2 DEF CursorsCovered, Covered, CoveredNext, Reliable
<1>4. ASSUME NEW j \in Job, Reliable(PipelineOf[j])
      PROVE  CoveredNext(PipelineOf[j], given'[j].start)
  <2>1. PipelineOf[j] \in Pipeline
    BY SystemTypes
  <2>2. /\ CoveredNext(PipelineOf[j], given[j].start)
        /\ \A r \in Request : CoveredNext(PipelineOf[j], payload[r][j].start)
    BY <1>4, <2>1, TimesArePast, CoveredStays
       DEF SystemInv, CoverInv, StartsCovered
  <2> QED
    BY <2>2, GivenCopies
<1>5. ASSUME NEW j \in Job, Reliable(PipelineOf[j]), NEW r \in Request
      PROVE  CoveredNext(PipelineOf[j], payload'[r][j].start)
  <2> DEFINE p == PipelineOf[j]
             t == seen[r][p] - Lookback[p]
  <2>1. p \in Pipeline /\ Lookback[p] \in Int /\ Lookback[p] >= 0
    BY <1>5, SystemTypes, JobQueueAssumption DEF Reliable
  <2>2. CoveredNext(p, payload[r][j].start) /\ CoveredNext(p, NoTime)
    BY <1>5, <2>1, TimesArePast, CoveredStays
       DEF SystemInv, CoverInv, StartsCovered, CoveredNext
  <2>3. ASSUME seen[r][p] # NoTime PROVE CoveredNext(p, t)
    <3>1. Past(seen[r][p]) /\ Covered(p, seen[r][p])
      BY <1>5, <2>1, TimesArePast DEF SystemInv, CoverInv, CursorsCovered
    <3>2. seen[r][p] \in Int /\ t \in Int /\ t <= seen[r][p] /\ now \in Int
      BY <2>1, <2>3, <3>1, SystemTypes DEF Past
    <3>3. Past(t)
      BY <2>3, <3>1, <3>2 DEF Past
    <3>4. Covered(p, t)
      <4> SUFFICES ASSUME NEW x \in RecordsOf[p] \ Malformed,
                          created[x] # NoTime, created[x] < t
                   PROVE  x \in dest
        BY DEF Covered
      <4>1. created[x] \in Int
        BY <2>1, SystemTypes
      <4>2. created[x] < seen[r][p]
        BY <3>2, <4>1
      <4> QED
        BY <2>3, <3>1, <4>2 DEF Covered
    <3> QED
      BY <2>1, <3>3, <3>4, CoveredStays
  <2> QED
    BY <2>2, <2>3, HandlerCopies
<1>6. StartsCovered'
  BY <1>4, <1>5 DEF StartsCovered, Covered, CoveredNext, Reliable
<1> QED
  BY <1>3, <1>6

\* What a sync has left to do exists in its source.
LEMMA TodoExistsStep == SystemInv /\ [TCNext]_tcVars => TodoExists'
<1> SUFFICES ASSUME SystemInv, [TCNext]_tcVars, NEW j \in Job, NEW x \in todo'[j]
             PROVE  created'[x] # NoTime
  BY DEF TodoExists
<1> USE DEF SystemInv, HoldInv, DataTypeOK
<1>1. \A y \in todo[j] : y \in Record /\ created[y] # NoTime
  BY DEF CoverInv, TodoExists
<1>2. ASSUME NEW i \in Instance, StartSync(i, j)
      PROVE  x \in Record /\ created[x] # NoTime
  BY <1>2, SystemTypes DEF StartSync, InWindow
<1>3. ASSUME NEW i \in Instance, NEW b \in Job, Work(i, b),
             ~StartSync(i, j)
      PROVE  todo'[j] \subseteq todo[j]
  BY <1>3 DEF Work, BeginJob, StartSync, LoadBatch, PassOver, SyncSucceeds,
              SyncFails, EndJob, syncVars
<1>4. ASSUME NEW i \in Instance, CrashAgent(i) PROVE todo'[j] \subseteq todo[j]
  BY <1>4 DEF CrashAgent
<1>5. (\E i \in Instance : StartSync(i, j)) \/ todo'[j] \subseteq todo[j]
  BY <1>3, <1>4
     DEF TCNext, World, Create, Handle, HandlerFails, AnswerIsDropped, Ask,
         TakeAnswer, TakeError, PollTimesOut, Lifecycle, Deliver, LosePost,
         tcVars, syncVars
<1>6. x \in Record /\ created[x] # NoTime
  BY <1>1, <1>2, <1>5
<1> QED
  BY <1>6, DataGrows

\* A sync keeps what it has to do until it has done it; here it matters that no
\* other process runs, fails or crashes with the same job.
LEMMA SyncingStays ==
    ASSUME SystemInv, [TCNext]_tcVars, NEW i \in Instance, NEW j \in Job,
           task'[i][j] = "syncing", Reliable(PipelineOf[j])
    PROVE  \/ StartSync(i, j)
           \/ /\ task[i][j] = "syncing"
              /\ \A x \in todo[j] : x \in todo'[j] \/ x \in dest' \/ x \in Malformed
<1> USE DEF SystemInv, HoldInv, DataTypeOK, PermitInv, AGTypeOK
<1> DEFINE Kept == /\ task[i][j] = "syncing"
                   /\ \A x \in todo[j] : x \in todo'[j] \/ x \in dest' \/ x \in Malformed
<1>1. ASSUME NEW b \in Job, Work(i, b) PROVE StartSync(i, j) \/ Kept
  <2>1. CASE b # j
    BY <1>1, <2>1
       DEF Work, BeginJob, StartSync, LoadBatch, PassOver, SyncSucceeds,
           SyncFails, EndJob, Acquire, Announced, Synced, Reported, Move,
           syncVars, agVars
  <2>2. CASE b = j
    <3>1. CASE BeginJob(i, j) \/ SyncSucceeds(i, j) \/ SyncFails(i, j) \/ EndJob(i, j)
      BY <3>1 DEF BeginJob, SyncSucceeds, SyncFails, EndJob, Acquire, Synced,
                  Reported, Move
    <3>2. CASE \E batch \in SUBSET Record : LoadBatch(i, j, batch)
      BY <3>2 DEF LoadBatch, agVars
    <3>3. ASSUME NEW records \in SUBSET Record, PassOver(i, j, records) PROVE
    FALSE
      BY <3>3 DEF PassOver, Reliable
    <3> QED
      BY <1>1, <2>2, <3>1, <3>2, <3>3 DEF Work
  <2> QED
    BY <2>1, <2>2
<1>2. ASSUME NEW k \in Instance, k # i, NEW b \in Job, Work(k, b) PROVE Kept
  <2>1. task'[i] = task[i] /\ task[k][b] # "none"
    BY <1>2
       DEF Work, BeginJob, StartSync, LoadBatch, PassOver, SyncSucceeds,
           SyncFails, EndJob, Acquire, Announced, Synced, Reported, Move, agVars
  <2>2. b # j
    BY <1>2, <2>1 DEF SoleWorker
  <2>3. todo'[j] = todo[j]
    BY <1>2, <2>2 DEF Work, BeginJob, StartSync, LoadBatch, PassOver,
                      SyncSucceeds, SyncFails, EndJob, syncVars
  <2> QED
    BY <2>1, <2>3
<1>3. ASSUME NEW k \in Instance, CrashAgent(k) PROVE Kept
  <2>1. task[i][j] = "syncing" /\ k # i
    BY <1>3 DEF CrashAgent, Crash, Active, InThread
  <2>2. task[k][j] = "none"
    BY <2>1 DEF SoleWorker
  <2>3. todo'[j] = todo[j]
    BY <1>3, <2>2 DEF CrashAgent, Active, InThread
  <2> QED
    BY <2>1, <2>3
<1>4. ASSUME NEW k \in Instance, NEW r \in Request, TakeAnswer(k, r) PROVE Kept
  BY <1>4 DEF TakeAnswer, PollReturn, syncVars
<1>5. CASE task' = task /\ todo' = todo
  BY <1>5
<1> QED
  BY <1>1, <1>2, <1>3, <1>4, <1>5
     DEF TCNext, World, Create, Handle, HandlerFails, AnswerIsDropped, Ask,
         TakeError, PollStart, PollError, PollTimesOut, Lifecycle, Stop, Exit,
         Restart, Deliver, LosePost, tcVars, agVars, syncVars

\* A reliable pipeline fetches every record of its window, the last second aside.
LEMMA WindowIsExtracted ==
    ASSUME NEW p \in Pipeline, Reliable(p), NEW w, NEW clock, NEW c \in Int,
           w.start \in Int \cup {NoTime}, w.start # NoTime => w.start <= c,
           w.end \in Int, c < w.end
    PROVE  Extracts(Connector[p], w, clock, c)
<1>1. Connector[p] \in {"razorpay_orders", "razorpay_customers"}
  BY TurbocatAssumption DEF Reliable, ConnectorName
<1>2. OrderInWindow(w, c)
  BY DEF OrderInWindow
<1> QED
  BY <1>1, <1>2 DEF Extracts

\* A sync that is under way has each record of its window in the destination
\* or still to do.
LEMMA SyncsCoverStep == SystemInv /\ [TCNext]_tcVars => SyncsCover'
<1> SUFFICES ASSUME SystemInv, [TCNext]_tcVars, NEW i \in Instance, NEW j \in Job,
                    task'[i][j] = "syncing", Reliable(PipelineOf[j]),
                    NEW x \in RecordsOf[PipelineOf[j]] \ Malformed,
                    created'[x] # NoTime, created'[x] < given'[j].end
             PROVE  x \in dest' \/ x \in todo'[j]
  BY DEF SyncsCover, Reliable
<1> DEFINE p == PipelineOf[j]
<1>1. task[i][j] # "none"
  BY SyncingStays DEF StartSync, Announced, Move
<1>2. given[j] # NoPayload /\ given'[j] = given[j]
  BY <1>1, QueueStep, HandedStep DEF SystemInv, HoldInv, TasksAreGiven
<1>3. /\ given[j].end \in Int /\ given[j].end <= now
      /\ given[j].start \in Int \cup {NoTime}
  <2>1. given[j].end # NoTime
    BY <1>2, DomainAssumption DEF SystemInv, WindowInv, WindowSound, SoundWindow
  <2>2. Reliable(PipelineOf[j])
    OBVIOUS
  <2> QED
    BY <2>1, <2>2, TimesArePast DEF Past
<1>4. p \in Pipeline /\ x \in Record /\ now \in Int
  BY SystemTypes
<1>5. created'[x] = created[x] /\ created[x] \in Int
  BY <1>2, <1>3, <1>4, DataGrows, SystemTypes
<1>6. created[x] < given[j].end
  BY <1>2, <1>5
<1>7. CASE StartSync(i, j)
  <2>1. CASE given[j].start # NoTime /\ created[x] < given[j].start
    <3>1. Covered(p, given[j].start)
      BY DEF SystemInv, CoverInv, StartsCovered
    <3>2. created[x] # NoTime
      BY <1>5, DomainAssumption
    <3> QED
      BY <2>1, <3>1, <3>2, DataGrows DEF Covered
  <2>2. CASE ~(given[j].start # NoTime /\ created[x] < given[j].start)
    <3>1. Extracts(Connector[p], given[j], now, created[x])
      BY <1>3, <1>4, <1>5, <1>6, <2>2, WindowIsExtracted
    <3>2. created[x] # NoTime
      BY <1>5, DomainAssumption
    <3> QED
      BY <1>7, <3>1, <3>2 DEF StartSync, InWindow, SystemInv, HoldInv, DataTypeOK
  <2> QED
    BY <2>1, <2>2
<1>8. CASE ~StartSync(i, j)
  <2>1. /\ task[i][j] = "syncing"
        /\ \A y \in todo[j] : y \in todo'[j] \/ y \in dest' \/ y \in Malformed
    BY <1>8, SyncingStays
  <2>2. x \in dest \/ x \in todo[j]
    BY <1>5, <1>6, <2>1, DomainAssumption DEF SystemInv, CoverInv, SyncsCover
  <2> QED
    BY <2>1, <2>2, DataGrows
<1> QED
  BY <1>7, <1>8

\* A success is posted only by a sync with nothing left to do, and a row reads
\* success only when such a post was processed.
LEMMA SuccessStep == SystemInv /\ [TCNext]_tcVars => PostsCover' /\ SuccessCovers'
<1> SUFFICES ASSUME SystemInv, [TCNext]_tcVars PROVE PostsCover' /\ SuccessCovers'
  OBVIOUS
<1>0. posts \subseteq Post /\ posts' \subseteq Post
  BY DataTypeStep DEF SystemInv, HoldInv, DataTypeOK
<1>1. \A j \in Job : given[j] # NoPayload => given'[j] = given[j]
  BY QueueStep, HandedStep DEF SystemInv, HoldInv
<1>2. ASSUME NEW j \in Job, given[j] # NoPayload,
             Covered(PipelineOf[j], given[j].end)
      PROVE  CoveredNext(PipelineOf[j], given'[j].end)
  <2>1. PipelineOf[j] \in Pipeline /\ given'[j] = given[j]
    BY <1>1, <1>2, SystemTypes
  <2> QED
    BY <1>2, <2>1, TimesArePast, CoveredStays
<1>3. ASSUME NEW m \in posts, m.status = "success"
      PROVE  /\ m.job \in Job
             /\ given[m.job] # NoPayload
             /\ Reliable(PipelineOf[m.job]) =>
                  CoveredNext(PipelineOf[m.job], given'[m.job].end)
  <2>1. m.job \in Job /\ given[m.job] # NoPayload
    BY <1>0 DEF Post, SystemInv, HoldInv, PostsAreReports
  <2>2. ASSUME Reliable(PipelineOf[m.job])
        PROVE  Covered(PipelineOf[m.job], given[m.job].end)
    BY <1>3, <2>2 DEF SystemInv, CoverInv, PostsCover
  <2> QED
    BY <1>2, <2>1, <2>2
<1>4. ASSUME NEW i \in Instance, NEW j \in Job, SyncSucceeds(i, j),
             Reliable(PipelineOf[j])
      PROVE  CoveredNext(PipelineOf[j], given'[j].end)
  <2>1. task[i][j] = "syncing" /\ todo[j] = {}
    BY <1>4 DEF SyncSucceeds, Synced, Move
  <2>2. given[j] # NoPayload
    BY <2>1 DEF SystemInv, HoldInv, TasksAreGiven
  <2>3. Covered(PipelineOf[j], given[j].end)
    BY <1>4, <2>1 DEF SystemInv, CoverInv, SyncsCover, Covered
  <2> QED
    BY <1>2, <2>2, <2>3
<1>5. ASSUME NEW m \in posts', m.status = "success", Reliable(PipelineOf[m.job])
      PROVE  CoveredNext(PipelineOf[m.job], given'[m.job].end)
  <2>1. CASE m \in posts
    BY <1>3, <1>5, <2>1
  <2>2. CASE m \notin posts
    <3>1. PICK i \in Instance, j \in Job : Work(i, j)
      BY <2>2
         DEF TCNext, World, Create, Handle, HandlerFails, AnswerIsDropped, Ask,
             TakeAnswer, TakeError, PollTimesOut, Lifecycle, CrashAgent,
             Deliver, LosePost, tcVars
    <3>2. SyncSucceeds(i, j) /\ m.job = j
      BY <1>5, <2>2, <3>1
         DEF Work, BeginJob, StartSync, LoadBatch, PassOver, SyncSucceeds,
             SyncFails, EndJob, Send
    <3> QED
      BY <1>4, <1>5, <3>2
  <2> QED
    BY <2>1, <2>2
<1>6. PostsCover'
  BY <1>5 DEF PostsCover, Covered, CoveredNext, Reliable
<1>7. ASSUME NEW j \in Job, status'[j] = "success"
      PROVE  \/ status[j] = "success"
             \/ \E m \in posts : m.status = "success" /\ m.job = j
  <2> USE DEF SystemInv, HoldInv, DispatchInv, JQTypeOK
  <2>1. ASSUME NEW m \in posts, Deliver(m)
        PROVE  status'[j] = status[j] \/ (m.job = j /\ m.status = "success")
    BY <1>7, <2>1 DEF Deliver, UpdateStatus
  <2>2. ASSUME NEW r \in Request, HandlerStep(r), status[j] # "success"
        PROVE  FALSE
    BY <1>7, <2>2
       DEF HandlerStep, Serve, PollArrive, PollSelect, PollCommit, PollReload,
           PollBuild, PollReply, PollClose, PollRaise, HandlerDies, Abort,
           rowVars
  <2>3. ASSUME NEW b \in Job, Enqueue(b) PROVE status[j] = "success"
    BY <1>7, <2>3 DEF Enqueue
  <2>4. \/ \E m \in posts : Deliver(m)
        \/ \E r \in Request : HandlerStep(r)
        \/ \E b \in Job : Enqueue(b)
        \/ status' = status
    BY DEF TCNext, World, Tick, Create, Handle, HandlerFails, AnswerIsDropped,
           Ask, TakeAnswer, TakeError, HandlerStep, Serve, PollTimesOut,
           Lifecycle, CrashAgent, Work, BeginJob, StartSync, LoadBatch,
           PassOver, SyncSucceeds, SyncFails, EndJob, LosePost, tcVars, jqVars,
           rowVars
  <2> QED
    BY <1>7, <2>1, <2>2, <2>3, <2>4
<1>8. ASSUME NEW j \in Job, status'[j] = "success"
      PROVE  /\ given'[j] # NoPayload
             /\ Reliable(PipelineOf[j]) =>
                  CoveredNext(PipelineOf[j], given'[j].end)
  <2>1. CASE status[j] = "success"
    <3>1. /\ given[j] # NoPayload
          /\ Reliable(PipelineOf[j]) => Covered(PipelineOf[j], given[j].end)
      BY <2>1 DEF SystemInv, CoverInv, SuccessCovers
    <3> QED
      BY <1>1, <1>2, <3>1
  <2>2. CASE \E m \in posts : m.status = "success" /\ m.job = j
    BY <1>1, <1>3, <2>2
  <2> QED
    BY <1>7, <1>8, <2>1, <2>2
<1>9. SuccessCovers'
  BY <1>8 DEF SuccessCovers, Covered, CoveredNext, Reliable
<1> QED
  BY <1>6, <1>9

\* The inductive invariant of the system holds throughout: jobs are held once,
\* windows are sound, and the destination is complete up to every cursor that is
\* stored, read, built into a window or posted.
THEOREM SystemInvariant == TCSpec => []SystemInv
<1>1. TCInit => SystemInv
  <2>1. TCInit => JQInit
    BY DEF TCInit
  <2> QED
    BY <2>1, HoldInit, WindowInit, CoverInit DEF SystemInv
<1>2. SystemInv /\ [TCNext]_tcVars => SystemInv'
  <2> SUFFICES ASSUME SystemInv, [TCNext]_tcVars PROVE SystemInv'
    OBVIOUS
  <2>1. HoldInv'
    BY HoldStep DEF SystemInv
  <2>2. WindowInv'
    BY QueueStep, WindowStep DEF SystemInv
  <2>3. CoverInv'
    BY CursorsCoveredStep, TodoExistsStep, SyncsCoverStep, SuccessStep
       DEF CoverInv
  <2> QED
    BY <2>1, <2>2, <2>3 DEF SystemInv
<1> QED
  BY <1>1, <1>2, PTL DEF TCSpec

\* The cursor of a reliable pipeline never stands past a record that is not in the
\* destination, with any lookback that does not look ahead, and over every other
\* failure.
THEOREM NothingIsSkipped == TCSpec => []CursorCovered
<1>1. SystemInv => CursorCovered
  BY DEF SystemInv, CoverInv, CursorsCovered, CursorCovered
<1> QED
  BY <1>1, SystemInvariant, PTL

\* Where every pipeline is reliable, a job recorded as a success has copied its
\* window: the first run of a pipeline is a full sync.
THEOREM SuccessIsComplete ==
    ASSUME \A p \in Pipeline : Reliable(p)
    PROVE  TCSpec => []SuccessMeansCopied
<1>1. SystemInv => SuccessMeansCopied
  <2> SUFFICES ASSUME SystemInv, NEW j \in Job, status[j] = "success",
                      NEW x \in RecordsOf[PipelineOf[j]] \ Malformed,
                      created[x] # NoTime, created[x] < given[j].end
               PROVE  x \in dest
    BY DEF SuccessMeansCopied
  <2>1. given[j] # NoPayload /\ Covered(PipelineOf[j], given[j].end)
    BY SystemTypes DEF SystemInv, CoverInv, SuccessCovers
  <2>2. given[j].end # NoTime
    BY <2>1, DomainAssumption DEF SystemInv, WindowInv, WindowSound, SoundWindow
  <2> QED
    BY <2>1, <2>2 DEF Covered
<1> QED
  BY <1>1, SystemInvariant, PTL

-----------------------------------------------------------------------------
\* Refinement. Of all that the system does, IncrementalSync sees the clock, the
\* new records, the batches, and the successes that move a cursor.

PromiseVars == <<now, created, dest, cursor>>

\* Every step of the system maps to a step of IncrementalSync or a stutter.
LEMMA PromiseStep ==
    SystemInv /\ [TCNext]_tcVars => [Promise!ISNext]_PromiseVars
<1> SUFFICES ASSUME SystemInv, [TCNext]_tcVars,
                    ~UNCHANGED PromiseVars
             PROVE  Promise!ISNext
  OBVIOUS
<1> USE DEF PromiseVars
<1>1. CASE World
  <2>1. CASE Tick
    BY <1>1, <2>1 DEF World, Tick, rowVars, syncVars, Promise!ISNext, Promise!Pass
  <2>2. CASE \E j \in Job : Enqueue(j)
    BY <1>1, <2>2 DEF World, Enqueue, syncVars
  <2> QED
    BY <1>1, <2>1, <2>2 DEF World
<1>2. ASSUME NEW x \in Record, Create(x) PROVE Promise!ISNext
  BY <1>2 DEF Create, jqVars, rowVars, Promise!ISNext, Promise!Appear
<1>3. ASSUME NEW i \in Instance, NEW j \in Job, Work(i, j) PROVE Promise!ISNext
  <2>1. PICK batch \in SUBSET Record : LoadBatch(i, j, batch)
    BY <1>3 DEF Work, BeginJob, StartSync, PassOver, SyncSucceeds, SyncFails,
                EndJob, syncVars, jqVars, rowVars
  <2>2. batch \ Malformed \in SUBSET Record
    OBVIOUS
  <2>3. \A x \in batch \ Malformed : created[x] # NoTime
    BY <2>1 DEF LoadBatch, InWindow, SystemInv, CoverInv, TodoExists
  <2>4. Promise!Copy(batch \ Malformed)
    BY <2>1, <2>3 DEF LoadBatch, jqVars, rowVars, Promise!Copy
  <2> QED
    BY <2>2, <2>4 DEF Promise!ISNext
<1>4. ASSUME NEW m \in posts, Deliver(m) PROVE Promise!ISNext
  <2> DEFINE p == PipelineOf[m.job]
  <2>1. /\ m.job \in Job
        /\ UNCHANGED <<now, created, dest>>
        /\ m.status = "success" /\ m.next # NoTime
        /\ cursor' = [cursor EXCEPT ![p] = m.next]
    BY <1>4 DEF Deliver, UpdateStatus, syncVars, SystemInv, HoldInv,
                DataTypeOK, Post
  <2>2. p \in Pipeline
    BY <2>1, SystemTypes
  <2>3. m.next = given[m.job].end
    BY <2>1 DEF SystemInv, HoldInv, PostsAreReports
  <2>4. m.next \in Time
    BY <2>1 DEF SystemInv, HoldInv, DataTypeOK, Post, Cursor
  <2>5. m.next <= now
    BY <2>1, <2>3, TimesArePast DEF Past
  <2>6. Reliable(p) => Covered(p, m.next)
    BY <2>1, <2>3 DEF SystemInv, CoverInv, PostsCover
  <2>7. Promise!CompleteUpTo(p, m.next)
    BY <2>1, <2>2, <2>6 DEF Covered, Promise!CompleteUpTo
  <2>8. Promise!Advance(p, m.next)
    BY <2>1, <2>5, <2>7 DEF Promise!Advance
  <2> QED
    BY <2>2, <2>4, <2>8 DEF Promise!ISNext, Time
<1>5. ASSUME NEW r \in Request, HandlerStep(r) PROVE UNCHANGED <<now, cursor>>
  BY <1>5 DEF HandlerStep, Serve, PollArrive, PollSelect, PollCommit,
              PollReload, PollBuild, PollReply, PollClose, PollRaise,
              HandlerDies, Abort, rowVars
<1>6. ASSUME NEW r \in Request,
             \/ Handle(r) \/ HandlerFails(r) \/ AnswerIsDropped(r)
             \/ \E i \in Instance : Ask(i, r) \/ TakeAnswer(i, r) \/ TakeError(i, r)
      PROVE  FALSE
  <2>1. HandlerStep(r) /\ UNCHANGED <<created, dest>>
    BY <1>6 DEF Handle, HandlerFails, AnswerIsDropped, Ask, TakeAnswer,
                TakeError, HandlerStep, Serve, syncVars
  <2> QED
    BY <1>5, <2>1
<1>7. CASE \/ \E i \in Instance : PollTimesOut(i) \/ Lifecycle(i) \/ CrashAgent(i)
           \/ \E m \in posts : LosePost(m)
           \/ UNCHANGED tcVars
  BY <1>7 DEF PollTimesOut, Lifecycle, CrashAgent, LosePost, tcVars, jqVars,
              rowVars, syncVars
<1> QED
  BY <1>1, <1>2, <1>3, <1>4, <1>6, <1>7 DEF TCNext

\* The system implements IncrementalSync: whatever it does, the data in the
\* destination and the cursors go through steps that the abstract specification
\* allows.
THEOREM TurbocatKeepsItsPromise == TCSpec => SyncsIncrementally
<1>1. TCInit => Promise!ISInit
  BY DEF TCInit, JQInit, NoCursors, Promise!ISInit
<1>2. SystemInv /\ [TCNext]_tcVars => [Promise!ISNext]_(Promise!isVars)
  BY PromiseStep DEF PromiseVars, Promise!isVars
<1> QED
  BY <1>1, <1>2, SystemInvariant, PTL DEF TCSpec, SyncsIncrementally, Promise!ISSpec

-----------------------------------------------------------------------------
\* What the promise is worth.

\* The times that the abstract specification knows are past, and every cursor is
\* covered.
PastAndCovered ==
    /\ now \in Time
    /\ created \in [Record -> Cursor]
    /\ cursor \in [Pipeline -> Cursor]
    /\ \A x \in Record : created[x] # NoTime => created[x] <= now
    /\ \A p \in Pipeline : cursor[p] # NoTime => cursor[p] <= now
    /\ CursorCovered

LEMMA PromiseCoversStep ==
    PastAndCovered /\ [Promise!ISNext]_(Promise!isVars) => PastAndCovered'
<1> SUFFICES ASSUME PastAndCovered, [Promise!ISNext]_(Promise!isVars)
             PROVE  PastAndCovered'
  OBVIOUS
<1> USE DomainAssumption
<1> USE DEF PastAndCovered, Time, Cursor
<1>1. CASE Promise!Pass
  BY <1>1 DEF Promise!Pass, CursorCovered, Covered
<1>2. ASSUME NEW x \in Record, Promise!Appear(x) PROVE PastAndCovered'
  BY <1>2 DEF Promise!Appear, CursorCovered, Covered
<1>3. ASSUME NEW records \in SUBSET Record, Promise!Copy(records)
      PROVE  PastAndCovered'
  BY <1>3 DEF Promise!Copy, CursorCovered, Covered
<1>4. ASSUME NEW p \in Pipeline, NEW t \in 0 .. MaxTime, Promise!Advance(p, t)
      PROVE  PastAndCovered'
  <2>1. /\ UNCHANGED <<now, created, dest>>
        /\ cursor' = [cursor EXCEPT ![p] = t]
        /\ t <= now
    BY <1>4 DEF Promise!Advance
  <2>2. Reliable(p) => Covered(p, t)
    BY <1>4 DEF Promise!Advance, Promise!CompleteUpTo, Covered
  <2>3. CursorCovered'
    BY <2>1, <2>2 DEF CursorCovered, Covered
  <2> QED
    BY <2>1, <2>3
<1>5. CASE UNCHANGED Promise!isVars
  BY <1>5 DEF Promise!isVars, CursorCovered, Covered
<1> QED
  BY <1>1, <1>2, <1>3, <1>4, <1>5 DEF Promise!ISNext

\* The promise is enough for what users need of it: whatever keeps to
\* IncrementalSync has no cursor past a record that was not copied.
THEOREM PromiseCoversCursors == SyncsIncrementally => []CursorCovered
<1>1. Promise!ISInit => PastAndCovered
  BY DomainAssumption
     DEF Promise!ISInit, PastAndCovered, CursorCovered, Covered, Time, Cursor
<1>2. PastAndCovered => CursorCovered
  BY DEF PastAndCovered
<1> QED
  BY <1>1, <1>2, PromiseCoversStep, PTL DEF SyncsIncrementally, Promise!ISSpec
=============================================================================
