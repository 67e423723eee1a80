---------------------------- MODULE AgentProofs ----------------------------
(***************************************************************************)
(* Theorems about the agent process, for any number of instances, jobs and *)
(* workers: the semaphore counts.                                          *)
(***************************************************************************)
EXTENDS Agent, FiniteSetTheorems, TLAPS

\* PermitsAccount is not inductive: a restart fills the semaphore, so a process
\* that is gone must have left no task behind, and only a running process may
\* still be waiting for the answer that spawns some.
GoneIsIdle ==
    \A i \in Instance :
        /\ asking[i] # NoRequest => mode[i] = "up"
        /\ mode[i] = "down" => ActiveTasks(i) = {}

WorkersFinite == \A i \in Instance : IsFiniteSet(Workers(i))

PermitInv ==
    /\ AGTypeOK
    /\ GoneIsIdle
    /\ WorkersFinite
    /\ PermitsAccount

\* Every semaphore is full at first, and nothing runs.
LEMMA PermitInit == AGInit => PermitInv
<1> SUFFICES ASSUME AGInit PROVE PermitInv
  OBVIOUS
<1>1. \A i \in Instance : ActiveTasks(i) = {} /\ Workers(i) = {}
  BY DEF AGInit, ActiveTasks, Workers, Active, InThread
<1>2. AGTypeOK
  BY AgentAssumption DEF AGInit, AGTypeOK
<1> QED
  BY <1>1, <1>2, FS_EmptySet, AgentAssumption
     DEF AGInit, PermitInv, GoneIsIdle, WorkersFinite, PermitsAccount

\* Steps that leave what runs in the threads of an instance as it was.
LEMMA SameWorkers ==
    ASSUME NEW i \in Instance, Workers(i)' = Workers(i),
           permits'[i] = permits[i], Alive(i)' => Alive(i),
           WorkersFinite, PermitsAccount
    PROVE  /\ IsFiniteSet(Workers(i))'
           /\ Alive(i)' => permits'[i] + Cardinality(Workers(i)') = MaxWorkers
  BY DEF WorkersFinite, PermitsAccount

\* Tasks that start, end, or are lost with their process keep the count.
LEMMA PermitStep == PermitInv /\ [AGNext]_agVars => PermitInv'
<1> SUFFICES ASSUME PermitInv, [AGNext]_agVars PROVE PermitInv'
  OBVIOUS
<1> USE AgentAssumption
<1>0. \A i \in Instance : Workers(i) \subseteq ActiveTasks(i)
  BY DEF Workers, ActiveTasks, Active
<1>1. CASE UNCHANGED agVars
  BY <1>1 DEF agVars, PermitInv, AGTypeOK, GoneIsIdle, WorkersFinite,
              PermitsAccount, ActiveTasks, Workers, Alive
<1>2. ASSUME NEW i \in Instance,
             \/ \E r \in Request : PollStart(i, r)
             \/ PollError(i)
             \/ \E jobs \in SUBSET Fresh : PollReturn(i, jobs)
             \/ Stop(i)
             \/ Exit(i)
      PROVE  PermitInv'
  <2>1. AGTypeOK'
    BY <1>2 DEF PermitInv, AGTypeOK, PollStart, PollError, PollReturn, Stop,
                Exit, Active
  <2>2. \A k \in Instance : Workers(k)' = Workers(k)
    BY <1>2 DEF PermitInv, AGTypeOK, PollStart, PollError, PollReturn, Fresh,
                Stop, Exit, Workers, InThread
  <2>3. GoneIsIdle'
    BY <1>2 DEF PermitInv, AGTypeOK, GoneIsIdle, PollStart, PollError,
                PollReturn, Stop, Exit, ActiveTasks
  <2>4. /\ permits' = permits
        /\ \A k \in Instance : Alive(k)' => Alive(k)
    BY <1>2 DEF PermitInv, AGTypeOK, PollStart, PollError, PollReturn, Stop,
                Exit, Alive
  <2> QED
    BY <2>1, <2>2, <2>3, <2>4, SameWorkers
       DEF PermitInv, WorkersFinite, PermitsAccount
<1>3. ASSUME NEW i \in Instance, NEW j \in Job, RunJob(i, j) PROVE PermitInv'
  <2>1. /\ Alive(i)
        /\ task[i][j] \in Active
        /\ mode' = mode /\ asking' = asking
        /\ \A k \in Instance \ {i} : task'[k] = task[k]
        /\ \A b \in Job \ {j} : task'[i][b] = task[i][b]
    BY <1>3 DEF RunJob, Acquire, Announced, Synced, Reported, Move, PermitInv,
                AGTypeOK, Active, InThread
  <2>2. \A k \in Instance \ {i} :
          /\ Workers(k)' = Workers(k)
          /\ ActiveTasks(k)' = ActiveTasks(k)
          /\ permits'[k] = permits[k]
          /\ Alive(k)' = Alive(k)
    BY <1>3, <2>1
       DEF RunJob, Acquire, Announced, Synced, Reported, PermitInv, AGTypeOK,
           Workers, ActiveTasks, Alive
  <2>3. GoneIsIdle'
    BY <2>1, <2>2 DEF PermitInv, GoneIsIdle, Alive
  <2>4. /\ IsFiniteSet(Workers(i)) /\ Cardinality(Workers(i)) \in Nat
        /\ permits[i] \in 0 .. MaxWorkers
        /\ permits[i] + Cardinality(Workers(i)) = MaxWorkers
    BY <2>1, FS_CardinalityType
       DEF PermitInv, WorkersFinite, PermitsAccount, AGTypeOK
  <2>5. /\ permits'[i] \in 0 .. MaxWorkers
        /\ IsFiniteSet(Workers(i)')
        /\ permits'[i] + Cardinality(Workers(i)') = MaxWorkers
    <3>1. CASE Acquire(i, j)
      <4>1. j \notin Workers(i) /\ Workers(i)' = Workers(i) \cup {j}
        BY <2>1, <3>1 DEF Acquire, Move, PermitInv, AGTypeOK, Workers, InThread
      <4>2. Cardinality(Workers(i)') = Cardinality(Workers(i)) + 1
        BY <2>4, <4>1, FS_AddElement
      <4>3. permits[i] > 0 /\ permits'[i] = permits[i] - 1
        BY <3>1 DEF Acquire, PermitInv, AGTypeOK
      <4>4. IsFiniteSet(Workers(i)')
        BY <2>4, <4>1, FS_AddElement
      <4> QED
        BY <2>4, <4>2, <4>3, <4>4
    <3>2. CASE Announced(i, j) \/ Synced(i, j)
      <4>1. Workers(i)' = Workers(i) /\ permits' = permits
        BY <2>1, <3>2
           DEF Announced, Synced, Move, PermitInv, AGTypeOK, Workers, InThread
      <4> QED
        BY <2>4, <4>1
    <3>3. CASE Reported(i, j)
      <4>1. j \in Workers(i) /\ Workers(i)' = Workers(i) \ {j}
        BY <2>1, <3>3 DEF Reported, Move, PermitInv, AGTypeOK, Workers, InThread
      <4>2. /\ IsFiniteSet(Workers(i)')
            /\ Cardinality(Workers(i)') = Cardinality(Workers(i)) - 1
        BY <2>4, <4>1, FS_RemoveElement
      <4>3. permits'[i] = permits[i] + 1
        BY <3>3 DEF Reported, PermitInv, AGTypeOK
      <4>4. Cardinality(Workers(i)') \in Nat
        BY <4>2, FS_CardinalityType
      <4> QED
        BY <2>4, <4>2, <4>3, <4>4
    <3> QED
      BY <1>3, <3>1, <3>2, <3>3 DEF RunJob
  <2>6. AGTypeOK'
    <3>1. permits' \in [Instance -> 0 .. MaxWorkers]
      BY <1>3, <2>2, <2>5
         DEF RunJob, Acquire, Announced, Synced, Reported, PermitInv, AGTypeOK
    <3>2. PICK to \in InThread \cup {"done"} :
            task' = [task EXCEPT ![i][j] = to]
      BY <1>3
         DEF RunJob, Acquire, Announced, Synced, Reported, Move, InThread
    <3> QED
      BY <2>1, <3>1, <3>2 DEF PermitInv, AGTypeOK, Active
  <2>7. WorkersFinite'
    BY <2>2, <2>5 DEF PermitInv, WorkersFinite
  <2>8. PermitsAccount'
    BY <2>2, <2>5 DEF PermitInv, PermitsAccount
  <2> QED
    BY <2>3, <2>6, <2>7, <2>8 DEF PermitInv
<1>4. ASSUME NEW i \in Instance, Crash(i) PROVE PermitInv'
  <2>1. AGTypeOK'
    BY <1>4 DEF Crash, PermitInv, AGTypeOK
  <2>2. ActiveTasks(i)' = {} /\ ~Alive(i)'
    BY <1>4 DEF Crash, PermitInv, AGTypeOK, ActiveTasks, Active, InThread, Alive
  <2>3. \A k \in Instance \ {i} :
          /\ Workers(k)' = Workers(k) /\ ActiveTasks(k)' = ActiveTasks(k)
          /\ mode'[k] = mode[k] /\ asking'[k] = asking[k] /\ permits'[k] = permits[k]
    BY <1>4 DEF Crash, PermitInv, AGTypeOK, ActiveTasks, Workers
  <2>4. Workers(i)' = {} /\ asking'[i] = NoRequest
    BY <1>4, <2>2 DEF Crash, PermitInv, AGTypeOK, Workers, ActiveTasks, Active
  <2>5. GoneIsIdle'
    BY <2>2, <2>3, <2>4 DEF PermitInv, GoneIsIdle
  <2> QED
    BY <2>1, <2>2, <2>3, <2>4, <2>5, FS_EmptySet
       DEF PermitInv, WorkersFinite, PermitsAccount, Alive
<1>5. ASSUME NEW i \in Instance, Restart(i) PROVE PermitInv'
  <2>1. AGTypeOK'
    BY <1>5 DEF Restart, PermitInv, AGTypeOK
  <2>2. \A k \in Instance :
          Workers(k)' = Workers(k) /\ ActiveTasks(k)' = ActiveTasks(k)
    BY <1>5 DEF Restart, ActiveTasks, Workers
  <2>3. Workers(i) = {}
    BY <1>0, <1>5 DEF Restart, PermitInv, GoneIsIdle
  <2>4. GoneIsIdle'
    BY <1>5, <2>2 DEF Restart, PermitInv, AGTypeOK, GoneIsIdle
  <2>5. WorkersFinite'
    BY <2>2 DEF PermitInv, WorkersFinite
  <2>6. permits'[i] + Cardinality(Workers(i)') = MaxWorkers
    <3>1. permits'[i] = MaxWorkers
      BY <1>5 DEF Restart, PermitInv, AGTypeOK
    <3>2. Cardinality(Workers(i)') = 0
      BY <2>2, <2>3, FS_EmptySet
    <3> QED
      BY <3>1, <3>2
  <2>7. \A k \in Instance \ {i} : permits'[k] = permits[k] /\ Alive(k)' = Alive(k)
    BY <1>5 DEF Restart, PermitInv, AGTypeOK, Alive
  <2>8. PermitsAccount'
    BY <2>2, <2>6, <2>7 DEF PermitInv, PermitsAccount
  <2> QED
    BY <2>1, <2>4, <2>5, <2>8 DEF PermitInv
<1> QED
  BY <1>1, <1>2, <1>3, <1>4, <1>5 DEF AGNext

\* The strengthened invariant of permits holds throughout: a process that is
\* gone has left nothing behind that a restart could count again.
THEOREM PermitInvariant == AGSpec => []PermitInv
  BY PermitInit, PermitStep, PTL DEF AGSpec

\* The state of the agents is well typed; that a permit count never exceeds
\* max_workers already needs the count of the workers.
THEOREM AgentTypes == AGSpec => []AGTypeOK
  BY PermitInvariant, PTL DEF PermitInv

\* Permits left and jobs inside run_job add up to max_workers in every process
\* that is alive: the semaphore caps the workers and never leaks.
THEOREM SemaphoreCounts == AGSpec => []PermitsAccount
  BY PermitInvariant, PTL DEF PermitInv
=============================================================================
