--------------------------- MODULE JobQueueProofs ---------------------------
(***************************************************************************)
(* Theorems about the job queue, for any number of jobs, pipelines, agents *)
(* and handler threads, and for every kind of handler failure.             *)
(***************************************************************************)
EXTENDS JobQueue, TLAPS

\* The actions of one handler thread, and the failures of one.
HandlerStep(r) ==
    \/ PollArrive(r) \/ Serve(r) \/ PollRaise(r) \/ HandlerDies(r)

-----------------------------------------------------------------------------
\* Facts about the payloads.

\* The "no payload" record is a payload like any other, as far as types go.
LEMMA NoPayloadType == NoPayload \in Payload
  BY DEF NoPayload, Payload, Cursor

\* The window computed at a time of the clock is well typed.
LEMMA WindowType ==
    ASSUME NEW last \in Cursor, NEW lookback \in Int, NEW clock \in Time
    PROVE  /\ WindowFor(last, lookback, clock) \in Payload
           /\ WindowFor(last, lookback, clock) # NoPayload
  BY DomainAssumption, SMT
     DEF WindowFor, Payload, NoPayload, Cursor, Time

-----------------------------------------------------------------------------
\* The type invariant.

\* The empty queue is well typed.
LEMMA TypeInit == JQInit => JQTypeOK
  BY DomainAssumption, NoPayloadType
     DEF JQInit, JQTypeOK, NoCursors, NoPayloads, Handling, RowStatus, Cursor,
         Time

\* Every step of a handler, a report or the clock keeps the types.
LEMMA TypeStep == JQTypeOK /\ [JQNext]_jqVars => JQTypeOK'
<1> SUFFICES ASSUME JQTypeOK, [JQNext]_jqVars PROVE JQTypeOK'
  OBVIOUS
<1> USE DomainAssumption, JobQueueAssumption DEF JQTypeOK
<1>1. CASE Tick
  BY <1>1, SMT DEF Tick, rowVars, reqVars, Time
<1>2. ASSUME NEW j \in Job, Enqueue(j) PROVE JQTypeOK'
  BY <1>2 DEF Enqueue, reqVars, RowStatus, JobStatus
<1>3. ASSUME NEW j \in Job, Report(j) PROVE JQTypeOK'
  <2>1. PICK s \in {"running", "success", "failed"} :
          UpdateStatus(j, s, IF s = "success" THEN given[j].end ELSE NoTime)
    BY <1>3 DEF Report
  <2>2. given[j].end \in Cursor
    BY DEF Payload
  <2>3. s \in RowStatus
    BY DEF RowStatus, JobStatus
  <2>4. status' \in [Job -> RowStatus] /\ started' \subseteq Job /\ completed' \subseteq Job
    BY <2>1, <2>3 DEF UpdateStatus
  <2>5. cursor' \in [Pipeline -> Cursor]
    BY <2>1, <2>2 DEF UpdateStatus
  <2> QED
    BY <2>1, <2>4, <2>5 DEF UpdateStatus, reqVars
<1>4. ASSUME NEW r \in Request, HandlerStep(r) PROVE JQTypeOK'
  <2>1. CASE PollArrive(r)
    BY <2>1 DEF PollArrive, rowVars, Handling
  <2>2. CASE PollSelect(r)
    <3>1. Selectable(r) \subseteq Job
      BY DEF Selectable
    <3> QED
      BY <2>2, <3>1 DEF PollSelect, rowVars, Handling
  <2>3. CASE PollCommit(r)
    BY <2>3 DEF PollCommit, Handling, RowStatus, JobStatus
  <2>4. CASE PollReload(r)
    BY <2>4 DEF PollReload, rowVars, Handling
  <2>5. ASSUME NEW j \in Job, PollBuild(r, j) PROVE JQTypeOK'
    <3>1. WindowFor(seen[r][PipelineOf[j]], Lookback[PipelineOf[j]], now) \in Payload
      BY WindowType
    <3> QED
      BY <2>5, <3>1 DEF PollBuild, rowVars
  <2>6. CASE PollReply(r)
    BY <2>6 DEF PollReply, rowVars, Handling
  <2>7. CASE PollClose(r)
    BY <2>7, NoPayloadType DEF PollClose, rowVars, NoCursors, NoPayloads, Cursor
  <2>8. CASE PollRaise(r) \/ HandlerDies(r)
    <3>1. Abort(r)
      BY <2>8 DEF PollRaise, HandlerDies
    <3> QED
      BY <3>1, NoPayloadType DEF Abort, rowVars, NoCursors, NoPayloads, Cursor
  <2> QED
    BY <1>4, <2>1, <2>2, <2>3, <2>4, <2>5, <2>6, <2>7, <2>8
       DEF HandlerStep, Serve
<1>5. CASE UNCHANGED jqVars
  BY <1>5 DEF jqVars, rowVars, reqVars
<1> QED
  BY <1>1, <1>2, <1>3, <1>4, <1>5 DEF JQNext, HandlerStep

\* The queue's state is well typed in every reachable state.
THEOREM JobQueueTypes == JQSpec => []JQTypeOK
  BY TypeInit, TypeStep, PTL DEF JQSpec

-----------------------------------------------------------------------------
\* Dispatch. NoDuplicateDispatch is not inductive by itself: that a handler may
\* take a pending row rests on ClaimsAreCommitted, and that its answer is the
\* first for each of its jobs on what earlier answers left in given.

AnswersAreGiven ==
    \A r \in Request : pc[r] = "answered" => \A j \in claim[r] :
        /\ given[j] # NoPayload
        /\ \A q \in Request \ {r} : pc[q] = "answered" => j \notin claim[q]

DispatchInv ==
    /\ JQTypeOK
    /\ NoDuplicateDispatch
    /\ ClaimsAreCommitted
    /\ AnswersAreGiven

\* No handler holds anything at first.
LEMMA DispatchInit == JQInit => DispatchInv
  BY TypeInit
     DEF JQInit, DispatchInv, NoDuplicateDispatch, ClaimsAreCommitted,
         AnswersAreGiven, Holding, NoPayloads

\* No step of a handler makes two of them hold a job, or hands out one that
\* was handed out; the row locks and the committed status see to it in turn.
LEMMA DispatchStep == DispatchInv /\ [JQNext]_jqVars => DispatchInv'
<1> SUFFICES ASSUME DispatchInv, [JQNext]_jqVars PROVE DispatchInv'
  OBVIOUS
<1>0. JQTypeOK'
  BY TypeStep DEF DispatchInv
<1> USE <1>0
    DEF DispatchInv, NoDuplicateDispatch, ClaimsAreCommitted, AnswersAreGiven,
        Holding
<1>1. CASE Tick \/ \E j \in Job : Enqueue(j)
  BY <1>1 DEF Tick, Enqueue, rowVars, reqVars, JQTypeOK
<1>2. ASSUME NEW j \in Job, Report(j) PROVE DispatchInv'
  <2>1. /\ status' \in [Job -> RowStatus]
        /\ status'[j] \notin {"absent", "pending"}
        /\ \A k \in Job \ {j} : status'[k] = status[k]
        /\ UNCHANGED <<reqVars, given>>
    BY <1>2 DEF Report, UpdateStatus, JQTypeOK
  <2>2. \A r \in Request : pc[r] = "selected" => j \notin claim[r]
    BY <1>2 DEF Report
  <2> QED
    BY <2>1, <2>2 DEF reqVars, JQTypeOK
<1>3. ASSUME NEW r \in Request, HandlerStep(r) PROVE DispatchInv'
  <2>1. CASE PollArrive(r)
    BY <2>1 DEF PollArrive, rowVars, JQTypeOK
  <2>2. CASE PollSelect(r)
    <3>1. /\ claim'[r] = Selectable(r)
          /\ \A q \in Request \ {r} : claim'[q] = claim[q] /\ pc'[q] = pc[q]
          /\ pc'[r] \in {"answered", "selected"}
          /\ pc'[r] = "answered" => claim'[r] = {}
          /\ UNCHANGED <<status, given>>
      BY <2>2 DEF PollSelect, rowVars, JQTypeOK
    <3>2. \A j \in Selectable(r) : status[j] = "pending" /\ given[j] = NoPayload
      BY DEF Selectable
    <3>3. \A q \in Request : pc[q] \in Holding => claim[q] \cap Selectable(r) = {}
      <4> SUFFICES ASSUME NEW q \in Request, pc[q] \in Holding,
                          NEW j \in Selectable(r), j \in claim[q]
                   PROVE  FALSE
        OBVIOUS
      <4>1. CASE pc[q] = "selected"
        BY <4>1 DEF Selectable, Locked
      <4>2. CASE pc[q] \in {"claimed", "building"}
        BY <4>2, <3>2
      <4> QED
        BY <4>1, <4>2
    <3> QED
      BY <3>1, <3>2, <3>3
  <2>3. CASE PollCommit(r)
    <3>1. /\ pc[r] = "selected" /\ pc'[r] = "claimed"
          /\ \A q \in Request \ {r} : pc'[q] = pc[q]
          /\ \A j \in claim[r] : status'[j] = "dispatched"
          /\ \A j \in Job \ claim[r] : status'[j] = status[j]
          /\ UNCHANGED <<claim, given>>
      BY <2>3 DEF PollCommit, JQTypeOK
    <3>2. ClaimsAreCommitted'
      BY <3>1 DEF JQTypeOK
    <3> QED
      BY <3>1, <3>2
  <2>4. CASE PollReload(r)
    BY <2>4 DEF PollReload, rowVars, JQTypeOK
  <2>5. CASE \E j \in Job : PollBuild(r, j)
    BY <2>5 DEF PollBuild, rowVars, JQTypeOK
  <2>6. CASE PollReply(r)
    <3>1. /\ pc[r] = "building" /\ pc'[r] = "answered"
          /\ \A q \in Request \ {r} : pc'[q] = pc[q]
          /\ UNCHANGED <<claim, status>>
      BY <2>6 DEF PollReply, rowVars, JQTypeOK
    <3>2. \A j \in claim[r] : given[j] = NoPayload /\ given'[j] # NoPayload
      BY <2>6, <3>1 DEF PollReply, Unbuilt, JQTypeOK
    <3>3. \A j \in Job \ claim[r] : given'[j] = given[j]
      BY <2>6 DEF PollReply, JQTypeOK
    <3>4. \A q \in Request \ {r} : pc[q] \in Holding => claim[q] \cap claim[r] = {}
      BY <3>1
    <3>5. NoDuplicateDispatch'
      BY <3>1, <3>3, <3>4 DEF JQTypeOK
    <3>6. ClaimsAreCommitted'
      BY <3>1, <3>2, <3>3
    <3>7. AnswersAreGiven'
      <4>1. \A q \in Request : pc[q] = "answered" => claim[q] \cap claim[r] = {}
        BY <3>2
      <4>2. \A q \in Request : claim[q] \subseteq Job
        BY DEF JQTypeOK
      <4>3. ASSUME NEW q \in Request, pc'[q] = "answered", NEW j \in claim[q]
            PROVE  /\ given'[j] # NoPayload
                   /\ \A o \in Request \ {q} : pc'[o] = "answered" => j \notin claim[o]
        <5>1. CASE q = r
          BY <5>1, <4>3, <3>1, <3>2, <4>1
        <5>2. CASE q # r
          <6>1. pc[q] = "answered" /\ j \notin claim[r] /\ j \in Job
            BY <5>2, <4>3, <3>1, <4>1, <4>2
          <6> QED
            BY <6>1, <3>1, <3>3
        <5> QED
          BY <5>1, <5>2
      <4> QED
        BY <4>3, <3>1
    <3> QED
      BY <3>5, <3>6, <3>7
  <2>7. CASE PollClose(r)
    BY <2>7 DEF PollClose, rowVars, JQTypeOK
  <2>8. CASE PollRaise(r) \/ HandlerDies(r)
    <3>1. Abort(r)
      BY <2>8 DEF PollRaise, HandlerDies
    <3> QED
      BY <3>1 DEF Abort, rowVars, JQTypeOK
  <2> QED
    BY <1>3, <2>1, <2>2, <2>3, <2>4, <2>5, <2>6, <2>7, <2>8
       DEF HandlerStep, Serve
<1>4. CASE UNCHANGED jqVars
  BY <1>4 DEF jqVars, rowVars, reqVars
<1> QED
  BY <1>1, <1>2, <1>3, <1>4 DEF JQNext, HandlerStep

\* The strengthened invariant of dispatch holds throughout: the types, no
\* duplicate dispatch, committed claims, and answers that were recorded.
THEOREM DispatchInvariant == JQSpec => []DispatchInv
  BY DispatchInit, DispatchStep, PTL DEF JQSpec

\* Two polls in progress never hold the same job, and none holds a job that was
\* already handed out: jobs.py:39, "no duplicate dispatch".
THEOREM DispatchIsUnique == JQSpec => []NoDuplicateDispatch
  BY DispatchInvariant, PTL DEF DispatchInv

\* A claimed job never reads as pending again, whatever is reported about it.
THEOREM ClaimsStayCommitted == JQSpec => []ClaimsAreCommitted
  BY DispatchInvariant, PTL DEF DispatchInv

\* A step that changes the payload of a job finds it without one.
LEMMA HandedStep ==
    DispatchInv /\ [JQNext]_jqVars =>
        \A j \in Job : given[j] # NoPayload => given'[j] = given[j]
<1> SUFFICES ASSUME DispatchInv, [JQNext]_jqVars,
                    NEW j \in Job, given[j] # NoPayload
             PROVE  given'[j] = given[j]
  OBVIOUS
<1>1. ASSUME NEW r \in Request, PollReply(r) PROVE given'[j] = given[j]
  <2>1. j \notin claim[r]
    BY <1>1 DEF PollReply, DispatchInv, NoDuplicateDispatch, Holding
  <2> QED
    BY <1>1, <2>1 DEF PollReply
<1>2. CASE \A r \in Request : ~PollReply(r)
  BY <1>2
     DEF JQNext, Tick, Enqueue, Report, UpdateStatus, PollArrive, Serve,
         PollSelect, PollCommit, PollReload, PollBuild, PollClose, PollRaise,
         HandlerDies, Abort, jqVars
<1> QED
  BY <1>1, <1>2

\* The payload a job was answered with never changes: it is handed out once.
THEOREM JobsAreHandedOnce == JQSpec => HandedOnce
<1>1. DispatchInv /\ [JQNext]_jqVars =>
        [\A j \in Job : given[j] # NoPayload => given'[j] = given[j]]_jqVars
  BY HandedStep
<1> QED
  BY <1>1, DispatchInvariant, PTL DEF JQSpec, HandedOnce

-----------------------------------------------------------------------------
\* Windows. A cursor is the end of some window that was handed out, every such
\* end was the clock when the payload was built, and the clock does not go back.

CursorsPast ==
    /\ \A p \in Pipeline : cursor[p] # NoTime => cursor[p] <= now
    /\ \A r \in Request, p \in Pipeline : seen[r][p] # NoTime => seen[r][p] <= now

BuiltSound ==
    \A r \in Request, j \in Job :
        payload[r][j] # NoPayload => SoundWindow(j, payload[r][j])

WindowInv ==
    /\ JQTypeOK
    /\ CursorsPast
    /\ BuiltSound
    /\ WindowSound

\* A window that is sound stays sound as the clock goes on.
LEMMA SoundLater ==
    ASSUME JQTypeOK, JQTypeOK', now <= now',
           NEW j \in Job, NEW w \in Payload, SoundWindow(j, w)
    PROVE  SoundWindow(j, w)'
  BY DEF SoundWindow, JQTypeOK, Time

\* There are no windows and no cursors at first.
LEMMA WindowInit == JQInit => WindowInv
  BY TypeInit DEF JQInit, WindowInv, CursorsPast, BuiltSound, WindowSound,
                  NoCursors, NoPayloads

\* Every step keeps cursors in the past and windows sound.
LEMMA WindowStep == WindowInv /\ [JQNext]_jqVars => WindowInv'
<1> SUFFICES ASSUME WindowInv, [JQNext]_jqVars PROVE WindowInv'
  OBVIOUS
<1>0. JQTypeOK /\ JQTypeOK'
  BY TypeStep DEF WindowInv
<1>1. now <= now'
  <2>1. now \in Int
    BY <1>0, DomainAssumption DEF JQTypeOK, Time
  <2> QED
    BY <2>1 DEF JQNext, Tick, Enqueue, Report, UpdateStatus, PollArrive, Serve,
           PollSelect, PollCommit, PollReload, PollBuild, PollReply, PollClose,
           PollRaise, HandlerDies, Abort, jqVars
<1>2. ASSUME NEW j \in Job, NEW w \in Payload, SoundWindow(j, w)
      PROVE  SoundWindow(j, w)'
  BY <1>0, <1>1, <1>2, SoundLater
<1>3. ASSUME UNCHANGED <<cursor, seen, payload, given>> PROVE WindowInv'
  <2>1. CursorsPast'
    BY <1>0, <1>1, <1>3, DomainAssumption
       DEF WindowInv, CursorsPast, JQTypeOK, Cursor, Time
  <2>2. BuiltSound'
    BY <1>0, <1>2, <1>3 DEF WindowInv, BuiltSound, JQTypeOK
  <2>3. WindowSound'
    BY <1>0, <1>2, <1>3 DEF WindowInv, WindowSound, JQTypeOK
  <2> QED
    BY <1>0, <2>1, <2>2, <2>3 DEF WindowInv
<1>4. CASE Tick \/ \E j \in Job : Enqueue(j)
  BY <1>3, <1>4 DEF Tick, Enqueue, rowVars, reqVars
<1>5. ASSUME NEW j \in Job, Report(j) PROVE WindowInv'
  <2>1. PICK s \in {"running", "success", "failed"} :
          UpdateStatus(j, s, IF s = "success" THEN given[j].end ELSE NoTime)
    BY <1>5 DEF Report
  <2>2. given[j].end <= now
    <3>1. given[j].end \in 0 .. now /\ now \in Int
      BY <1>0, <1>5, DomainAssumption
         DEF Report, WindowInv, WindowSound, SoundWindow, JQTypeOK, Time
    <3> QED
      BY <3>1
  <2>3. now' = now /\ UNCHANGED <<seen, payload, given>>
    BY <2>1 DEF UpdateStatus, reqVars
  <2>4. \A p \in Pipeline : cursor'[p] = cursor[p] \/ cursor'[p] = given[j].end
    BY <1>0, <2>1 DEF UpdateStatus, JQTypeOK
  <2>5. CursorsPast'
    BY <2>2, <2>3, <2>4 DEF WindowInv, CursorsPast
  <2> QED
    BY <1>0, <2>3, <2>5 DEF WindowInv, BuiltSound, WindowSound, SoundWindow
<1>6. ASSUME NEW r \in Request, HandlerStep(r) PROVE WindowInv'
  <2>1. CASE PollArrive(r) \/ PollSelect(r) \/ PollCommit(r)
    BY <1>3, <2>1 DEF PollArrive, PollSelect, PollCommit, rowVars
  <2>2. CASE PollReload(r)
    BY <1>0, <2>2
       DEF PollReload, rowVars, WindowInv, CursorsPast, BuiltSound,
           WindowSound, SoundWindow, JQTypeOK
  <2>3. ASSUME NEW j \in Job, PollBuild(r, j) PROVE WindowInv'
    <3> DEFINE p == PipelineOf[j]
               w == WindowFor(seen[r][p], Lookback[p], now)
    <3>1. p \in Pipeline /\ Lookback[p] \in Int /\ seen[r][p] \in Cursor
      BY <1>0, DomainAssumption, JobQueueAssumption DEF JQTypeOK
    <3>2. now \in Time /\ now >= 0 /\ now \in Int
      BY <1>0, DomainAssumption DEF JQTypeOK, Time
    <3>3. seen[r][p] # NoTime => seen[r][p] \in Int /\ seen[r][p] <= now
      BY <3>1, DomainAssumption DEF WindowInv, CursorsPast, Cursor, Time
    <3>4. SoundWindow(j, w)
      BY <3>1, <3>2, <3>3, DomainAssumption DEF SoundWindow, WindowFor
    <3>5. \A q \in Request, k \in Job :
            payload'[q][k] = payload[q][k] \/ (k = j /\ payload'[q][k] = w)
      BY <1>0, <2>3 DEF PollBuild, JQTypeOK
    <3>6. UNCHANGED <<now, cursor, seen, given>>
      BY <2>3 DEF PollBuild, rowVars
    <3>7. BuiltSound'
      BY <3>4, <3>5, <3>6 DEF WindowInv, BuiltSound, SoundWindow
    <3> QED
      BY <1>0, <3>6, <3>7 DEF WindowInv, CursorsPast, WindowSound, SoundWindow
  <2>4. CASE PollReply(r)
    <3>1. \A j \in Job : given'[j] = given[j] \/ given'[j] = payload[r][j]
      BY <1>0, <2>4 DEF PollReply, JQTypeOK
    <3>2. UNCHANGED <<now, cursor, seen, payload>>
      BY <2>4 DEF PollReply, rowVars
    <3>3. WindowSound'
      BY <3>1, <3>2 DEF WindowInv, BuiltSound, WindowSound, SoundWindow
    <3> QED
      BY <1>0, <3>2, <3>3 DEF WindowInv, CursorsPast, BuiltSound, SoundWindow
  <2>5. CASE PollClose(r) \/ PollRaise(r) \/ HandlerDies(r)
    <3>1. /\ \A q \in Request : seen'[q] \in {seen[q], NoCursors}
          /\ \A q \in Request : payload'[q] \in {payload[q], NoPayloads}
          /\ UNCHANGED <<now, cursor, given>>
      BY <1>0, <2>5
         DEF PollClose, PollRaise, HandlerDies, Abort, rowVars, JQTypeOK
    <3>2. CursorsPast'
      BY <3>1 DEF WindowInv, CursorsPast, NoCursors
    <3>3. BuiltSound'
      BY <3>1 DEF WindowInv, BuiltSound, NoPayloads, SoundWindow
    <3> QED
      BY <1>0, <3>1, <3>2, <3>3 DEF WindowInv, WindowSound, SoundWindow
  <2> QED
    BY <1>6, <2>1, <2>2, <2>3, <2>4, <2>5 DEF HandlerStep, Serve
<1>7. CASE UNCHANGED jqVars
  BY <1>3, <1>7 DEF jqVars, rowVars, reqVars
<1> QED
  BY <1>4, <1>5, <1>6, <1>7 DEF JQNext, HandlerStep

\* The strengthened invariant of windows holds throughout: what a handler read
\* and built is in the past as well.
THEOREM WindowInvariant == JQSpec => []WindowInv
  BY WindowInit, WindowStep, PTL DEF JQSpec

\* Every window handed to an agent ends in the past and re-reads the lookback of
\* its pipeline, however the cursor moved between the reload and the payload.
THEOREM WindowsAreSound == JQSpec => []WindowSound
  BY WindowInvariant, PTL DEF WindowInv

\* A cursor moves only to the end of the window of a job that was handed out.
LEMMA CursorStep ==
    DispatchInv /\ CursorWasHanded /\ [JQNext]_jqVars => CursorWasHanded'
<1> SUFFICES ASSUME DispatchInv, CursorWasHanded, [JQNext]_jqVars
             PROVE  CursorWasHanded'
  OBVIOUS
<1> USE DEF DispatchInv, JQTypeOK
<1>1. \A j \in Job : given[j] # NoPayload => given'[j] = given[j]
  BY HandedStep
<1>2. ASSUME NEW j \in Job, given[j].end # NoTime PROVE given'[j] = given[j]
  BY <1>1, <1>2 DEF NoPayload
<1>3. ASSUME NEW j \in Job, Report(j) PROVE CursorWasHanded'
  <2>1. PICK s \in {"running", "success", "failed"} :
          UpdateStatus(j, s, IF s = "success" THEN given[j].end ELSE NoTime)
    BY <1>3 DEF Report
  <2>2. completed \subseteq completed' /\ given' = given
    BY <2>1 DEF UpdateStatus
  <2>3. ASSUME NEW p \in Pipeline, cursor'[p] # NoTime
        PROVE  \E k \in completed' : PipelineOf[k] = p /\ given'[k].end = cursor'[p]
    <3>1. CASE cursor'[p] = cursor[p]
      BY <2>2, <2>3, <3>1 DEF CursorWasHanded
    <3>2. CASE cursor'[p] # cursor[p]
      <4>1. s = "success" /\ p = PipelineOf[j] /\ cursor'[p] = given[j].end
        BY <2>1, <3>2 DEF UpdateStatus
      <4>2. j \in completed'
        BY <2>1, <4>1 DEF UpdateStatus
      <4> QED
        BY <2>2, <4>1, <4>2
    <3> QED
      BY <3>1, <3>2
  <2> QED
    BY <2>3 DEF CursorWasHanded
<1>4. CASE \A j \in Job : ~Report(j)
  <2>1. UNCHANGED <<cursor, completed>>
    BY <1>4
       DEF JQNext, Tick, Enqueue, PollArrive, Serve, PollSelect, PollCommit,
           PollReload, PollBuild, PollReply, PollClose, PollRaise, HandlerDies,
           Abort, jqVars, rowVars
  <2>2. \A k \in completed : given[k].end # NoTime => given'[k] = given[k]
    BY <1>2
  <2> QED
    BY <2>1, <2>2 DEF CursorWasHanded
<1> QED
  BY <1>3, <1>4

\* A cursor is the end of a window that was handed out for a completed job of
\* the same pipeline: it is never invented, and never another pipeline's.
THEOREM CursorsWereHanded == JQSpec => []CursorWasHanded
<1>1. JQInit => CursorWasHanded
  BY DEF JQInit, CursorWasHanded, NoCursors
<1> QED
  BY <1>1, CursorStep, DispatchInvariant, PTL DEF JQSpec
=============================================================================
