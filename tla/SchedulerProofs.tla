-------------------------- MODULE SchedulerProofs --------------------------
(***************************************************************************)
(* When a deactivated pipeline is off the schedule of a process for good:  *)
(* for any number of pipelines and processes, crashes and restarts at any  *)
(* point, requests that fail, and schedules that do not parse.  It is a    *)
(* fact about the process that answered the deactivation only; TLC shows   *)
(* that it fails for the others.                                           *)
(***************************************************************************)
EXTENDS Scheduler, FiniteSetTheorems, TLAPS

\* QuietIsUnscheduled is not inductive. A pipeline that went quiet must not come
\* back by what its process is about to register: it is inactive for good, so
\* that no later startup reads it, and it is neither in the table as the process
\* has read it nor in a creation that the process has under way.
QuietIsOver ==
    \A s \in Replica, p \in Pipeline : <<s, p>> \in quiet =>
        /\ row[p] = "inactive"
        /\ p \notin loading[s] \cup creating[s]

\* A pipeline that is about to go quiet is inactive already, and its process has
\* read the table before it took the request.
DroppedIsInactive ==
    \A s \in Replica :
        /\ \A p \in dropping[s] : row[p] = "inactive"
        /\ dropping[s] # {} => server[s] = "up"
        /\ server[s] = "up" => loading[s] = {}

QuietInv ==
    /\ SCTypeOK
    /\ QuietIsOver
    /\ DroppedIsInactive
    /\ QuietIsUnscheduled

\* Nothing is scheduled and nothing was deactivated at first.
LEMMA QuietInit == SCInit => QuietInv
  BY SchedulerAssumption
     DEF SCInit, QuietInv, SCTypeOK, SCTypes, QuietIsOver, DroppedIsInactive,
         QuietIsUnscheduled, Nothing, InMemory, ActivePipelines

\* Every step keeps the types; the history of the ticks stays in its bound.
LEMMA RowsStep == SCTypes /\ [SCNext]_scVars => SCTypes'
<1> SUFFICES ASSUME SCTypes, [SCNext]_scVars PROVE SCTypes'
  OBVIOUS
<1> USE SchedulerAssumption
<1>1. CASE UNCHANGED scVars
  BY <1>1 DEF scVars, tableVars, memoryVars, SCTypes
<1>2. ASSUME NEW p \in Pipeline, CronTick(p) PROVE SCTypes'
  BY <1>2 DEF CronTick, SCTypes
<1>3. ASSUME NEW s \in Replica, Boot(s) \/ Shutdown(s) \/ ServerCrashes(s)
      PROVE  SCTypes'
  BY <1>3 DEF Boot, Startup, LoadOne, StartupDone, StartupFails, Shutdown,
              ServerCrashes, GoDown, tableVars, SCTypes, ActivePipelines
<1>4. ASSUME NEW s \in Replica, CreateFails(s) PROVE SCTypes'
  BY <1>4 DEF CreateFails, tableVars, SCTypes
<1>5. ASSUME NEW s \in Replica, NEW tables \in SUBSET Pipeline,
             BulkCreate(s, tables)
      PROVE  SCTypes'
  BY <1>5 DEF BulkCreate, SCTypes
<1>6. ASSUME NEW s \in Replica, NEW p \in Pipeline,
             Register(s, p) \/ Deactivate(s, p) \/ Deregister(s, p)
      PROVE  SCTypes'
  BY <1>6 DEF Register, Deactivate, Deregister, tableVars, SCTypes
<1>7. ASSUME NEW s \in Replica, NEW p \in Pipeline, EnqueueJob(s, p)
      PROVE  SCTypes'
  BY <1>7 DEF EnqueueJob, SCTypes
<1> QED
  BY <1>1, <1>2, <1>3, <1>4, <1>5, <1>6, <1>7 DEF SCNext

\* What one process knows of, as the type invariant has it.
Known(s) ==
    /\ InMemory(s) \subseteq Stored
    /\ sched[s] \cap Unparsable = {}
    /\ server[s] = "down" => InMemory(s) = {}

\* What a process comes to know of has a row, and a row is never deleted.
LEMMA MemoryStep ==
    ASSUME SCTypeOK, [SCNext]_scVars, NEW s \in Replica
    PROVE  Known(s)'
<1> USE SchedulerAssumption DEF SCTypeOK, SCTypes, InMemory, Known
<1>1. CASE UNCHANGED scVars
  BY <1>1 DEF scVars, tableVars, memoryVars, Stored
<1>2. ASSUME NEW p \in Pipeline, CronTick(p) PROVE Known(s)'
  BY <1>2 DEF CronTick, Stored
<1>3. ASSUME NEW t \in Replica, Startup(t) \/ StartupDone(t) PROVE Known(s)'
  BY <1>3 DEF Startup, StartupDone, tableVars, ActivePipelines, Stored
<1>4. ASSUME NEW t \in Replica, NEW p \in Pipeline, LoadOne(t, p) PROVE Known(s)'
  BY <1>4 DEF LoadOne, tableVars, Stored
<1>5. ASSUME NEW t \in Replica, GoDown(t) PROVE Known(s)'
  BY <1>5 DEF GoDown, tableVars, Stored
<1>6. ASSUME NEW t \in Replica, CreateFails(t) PROVE Known(s)'
  BY <1>6 DEF CreateFails, Stored
<1>7. ASSUME NEW t \in Replica, NEW tables \in SUBSET Pipeline,
             BulkCreate(t, tables)
      PROVE  Known(s)'
  <2>1. Stored \cup tables \subseteq Stored'
    BY <1>7 DEF BulkCreate, Stored
  <2> QED
    BY <1>7, <2>1 DEF BulkCreate
<1>8. ASSUME NEW t \in Replica, NEW p \in Pipeline,
             Register(t, p) \/ Deregister(t, p) \/ EnqueueJob(t, p)
      PROVE  Known(s)'
  BY <1>8 DEF Register, Deregister, EnqueueJob, tableVars, Stored
<1>9. ASSUME NEW t \in Replica, NEW p \in Pipeline, Deactivate(t, p) PROVE Known(s)'
  <2>1. Stored' = Stored /\ p \in Stored
    BY <1>9 DEF Deactivate, Stored
  <2> QED
    BY <1>9, <2>1 DEF Deactivate
<1> HIDE DEF SCTypeOK, SCTypes, InMemory, Known
<1>10. ASSUME NEW t \in Replica, Boot(t) \/ Shutdown(t) \/ ServerCrashes(t)
      PROVE  Known(s)'
  BY <1>3, <1>4, <1>5, <1>10 DEF Boot, StartupFails, Shutdown, ServerCrashes
<1>11. Known(s)'
  BY <1>1, <1>2, <1>6, <1>7, <1>8, <1>9, <1>10 DEF SCNext
<1> QED
  BY <1>11

\* Every step keeps the types, with what a process knows of.
LEMMA SchedulerTypeStep == SCTypeOK /\ [SCNext]_scVars => SCTypeOK'
  BY RowsStep, MemoryStep DEF SCTypeOK, SCTypes, Known

\* The rows, the schedules and the histories of the scheduler are well typed, and
\* no process knows of a pipeline that has no row.
THEOREM SchedulerTypes == SCSpec => []SCTypeOK
<1>1. SCInit => SCTypeOK
  BY QuietInit DEF QuietInv
<1> QED
  BY <1>1, SchedulerTypeStep, PTL DEF SCSpec

\* What goes on the schedule of a process comes from its own reading of the table
\* or from its own requests, and neither holds a quiet pipeline.
LEMMA QuietStep == QuietInv /\ [SCNext]_scVars => QuietInv'
<1> SUFFICES ASSUME QuietInv, [SCNext]_scVars PROVE QuietInv'
  OBVIOUS
<1>0. SCTypeOK'
  BY SchedulerTypeStep DEF QuietInv
<1> SUFFICES (QuietIsOver /\ DroppedIsInactive /\ QuietIsUnscheduled)'
  BY <1>0 DEF QuietInv
<1> USE DEF QuietInv, QuietIsOver, DroppedIsInactive, QuietIsUnscheduled,
            ActivePipelines
<1>1. CASE UNCHANGED scVars
  BY <1>1 DEF scVars, tableVars, memoryVars
<1>2. ASSUME NEW p \in Pipeline, CronTick(p)
      PROVE  (QuietIsOver /\ DroppedIsInactive /\ QuietIsUnscheduled)'
  BY <1>2 DEF CronTick
<1>3. ASSUME NEW s \in Replica, Boot(s) \/ Shutdown(s) \/ ServerCrashes(s)
      PROVE  (QuietIsOver /\ DroppedIsInactive /\ QuietIsUnscheduled)'
  <2>1. CASE Startup(s)
    BY <2>1 DEF Startup, tableVars, SCTypeOK, SCTypes
  <2>2. ASSUME NEW p \in Pipeline, LoadOne(s, p)
        PROVE  (QuietIsOver /\ DroppedIsInactive /\ QuietIsUnscheduled)'
    BY <2>2 DEF LoadOne, tableVars, SCTypeOK, SCTypes
  <2>3. CASE StartupDone(s)
    BY <2>3 DEF StartupDone, tableVars, SCTypeOK, SCTypes
  <2>4. CASE GoDown(s)
    BY <2>4 DEF GoDown, tableVars, SCTypeOK, SCTypes
  <2> QED
    BY <1>3, <2>1, <2>2, <2>3, <2>4 DEF Boot, StartupFails, Shutdown, ServerCrashes
<1>4. ASSUME NEW s \in Replica, CreateFails(s)
      PROVE  (QuietIsOver /\ DroppedIsInactive /\ QuietIsUnscheduled)'
  BY <1>4 DEF CreateFails, tableVars, SCTypeOK, SCTypes
<1>5. ASSUME NEW s \in Replica, NEW tables \in SUBSET Pipeline,
             BulkCreate(s, tables)
      PROVE  (QuietIsOver /\ DroppedIsInactive /\ QuietIsUnscheduled)'
  BY <1>5 DEF BulkCreate, SCTypeOK, SCTypes
<1>6. ASSUME NEW s \in Replica, NEW p \in Pipeline, Register(s, p)
      PROVE  (QuietIsOver /\ DroppedIsInactive /\ QuietIsUnscheduled)'
  BY <1>6 DEF Register, tableVars, SCTypeOK, SCTypes
<1>7. ASSUME NEW s \in Replica, NEW p \in Pipeline, Deactivate(s, p)
      PROVE  (QuietIsOver /\ DroppedIsInactive /\ QuietIsUnscheduled)'
  BY <1>7 DEF Deactivate, SCTypeOK, SCTypes
<1>8. ASSUME NEW s \in Replica, NEW p \in Pipeline, Deregister(s, p)
      PROVE  (QuietIsOver /\ DroppedIsInactive /\ QuietIsUnscheduled)'
  BY <1>8 DEF Deregister, SCTypeOK, SCTypes
<1>9. ASSUME NEW s \in Replica, NEW p \in Pipeline, EnqueueJob(s, p)
      PROVE  (QuietIsOver /\ DroppedIsInactive /\ QuietIsUnscheduled)'
  BY <1>9 DEF EnqueueJob
<1> QED
  BY <1>1, <1>2, <1>3, <1>4, <1>5, <1>6, <1>7, <1>8, <1>9 DEF SCNext

\* A pipeline whose deactivation a process has answered is never on its schedule
\* again, whatever crashes and restarts.
THEOREM DeactivationHolds == SCSpec => []QuietIsUnscheduled
<1>1. QuietInv => QuietIsUnscheduled
  BY DEF QuietInv
<1> QED
  BY <1>1, QuietInit, QuietStep, PTL DEF SCSpec

-----------------------------------------------------------------------------
\* Nobody is forgotten. Between its commit and the schedules a pipeline is always
\* somewhere: about to be registered, read by a startup, or left to the startup
\* of a process that is down.

Reached(p) ==
    \E s \in Replica :
        p \in sched[s] \cup creating[s] \cup loading[s] \/ server[s] = "down"

ActivesReached ==
    \A p \in Pipeline : row[p] = "active" /\ p \notin refused => Reached(p)

ActiveInv ==
    /\ SCTypeOK
    /\ DroppedIsInactive
    /\ ActivesReached

\* No pipeline is active at first.
LEMMA ActiveInit == SCInit => ActiveInv
  BY QuietInit DEF SCInit, ActiveInv, QuietInv, ActivesReached

\* A pipeline leaves a schedule with its process or with its deactivation, and a
\* creation for the schedule or with an error.
LEMMA ActiveStep == QuietInv /\ ActiveInv /\ [SCNext]_scVars => ActiveInv'
<1> SUFFICES ASSUME QuietInv, ActiveInv, [SCNext]_scVars PROVE ActiveInv'
  OBVIOUS
<1>0. SCTypeOK' /\ DroppedIsInactive'
  BY QuietStep DEF QuietInv
<1> SUFFICES ASSUME NEW p \in Pipeline, row'[p] = "active", p \notin refused'
             PROVE  Reached(p)'
  BY <1>0 DEF ActiveInv, ActivesReached
<1> USE DEF ActiveInv, ActivesReached, Reached
<1>1. CASE UNCHANGED scVars
  BY <1>1 DEF scVars, tableVars, memoryVars
<1>2. ASSUME NEW q \in Pipeline, CronTick(q) PROVE Reached(p)'
  BY <1>2 DEF CronTick
<1>3. ASSUME NEW s \in Replica, Boot(s) \/ Shutdown(s) \/ ServerCrashes(s)
      PROVE  Reached(p)'
  <2>1. CASE Startup(s)
    BY <2>1 DEF Startup, tableVars, SCTypeOK, SCTypes, ActivePipelines
  <2>2. ASSUME NEW q \in Pipeline, LoadOne(s, q) PROVE Reached(p)'
    BY <2>2 DEF LoadOne, tableVars, SCTypeOK, SCTypes
  <2>3. CASE StartupDone(s)
    BY <2>3 DEF StartupDone, tableVars, SCTypeOK, SCTypes
  <2>4. CASE GoDown(s)
    BY <2>4 DEF GoDown, tableVars, SCTypeOK, SCTypes
  <2> QED
    BY <1>3, <2>1, <2>2, <2>3, <2>4 DEF Boot, StartupFails, Shutdown, ServerCrashes
<1>4. ASSUME NEW s \in Replica, CreateFails(s) PROVE Reached(p)'
  BY <1>4 DEF CreateFails, SCTypeOK, SCTypes
<1>5. ASSUME NEW s \in Replica, NEW tables \in SUBSET Pipeline,
             BulkCreate(s, tables)
      PROVE  Reached(p)'
  BY <1>5 DEF BulkCreate, SCTypeOK, SCTypes
<1>6. ASSUME NEW s \in Replica, NEW q \in Pipeline, Register(s, q)
      PROVE  Reached(p)'
  BY <1>6 DEF Register, tableVars, SCTypeOK, SCTypes
<1>7. ASSUME NEW s \in Replica, NEW q \in Pipeline, Deactivate(s, q)
      PROVE  Reached(p)'
  BY <1>7 DEF Deactivate, SCTypeOK, SCTypes
<1>8. ASSUME NEW s \in Replica, NEW q \in Pipeline, Deregister(s, q)
      PROVE  Reached(p)'
  BY <1>8 DEF Deregister, SCTypeOK, SCTypes, DroppedIsInactive
<1>9. ASSUME NEW s \in Replica, NEW q \in Pipeline, EnqueueJob(s, q)
      PROVE  Reached(p)'
  BY <1>9 DEF EnqueueJob
<1> QED
  BY <1>1, <1>2, <1>3, <1>4, <1>5, <1>6, <1>7, <1>8, <1>9 DEF SCNext

\* When all processes serve and no request is under way, some process fires each
\* active pipeline whose creation did not end as an error.
THEOREM ActivesAreFired == SCSpec => []ActiveIsScheduled
<1>1. ActiveInv => ActiveIsScheduled
  BY DEF ActiveInv, ActivesReached, Reached, ActiveIsScheduled,
         ActivePipelines, DroppedIsInactive
<1> QED
  BY <1>1, QuietInit, QuietStep, ActiveInit, ActiveStep, PTL DEF SCSpec

-----------------------------------------------------------------------------
\* Rows and ticks. A tick is paid for in every process at once, and what was not
\* inserted yet is in a thread of one of them.

Firing(p) == {s \in Replica : p \in firing[s]}

Paid(p) == jobs[p] + Cardinality(Firing(p)) <= ticks[p] * Cardinality(Replica)

TickInv ==
    /\ SCTypeOK
    /\ \A p \in Pipeline : Paid(p)

\* Processes can be counted, also those that have a thread for a pipeline.
LEMMA FiringIsFinite ==
    ASSUME NEW S \in SUBSET Replica
    PROVE  /\ IsFiniteSet(S)
           /\ Cardinality(S) \in Nat
           /\ Cardinality(Replica) \in Nat
           /\ Cardinality(S) <= Cardinality(Replica)
  BY SchedulerAssumption, FS_Subset, FS_CardinalityType

\* There are no ticks at first.
LEMMA TickInit == SCInit => TickInv
<1> SUFFICES ASSUME SCInit, NEW p \in Pipeline
             PROVE  Paid(p)
  BY QuietInit DEF TickInv, QuietInv
<1>1. Firing(p) = {}
  BY DEF SCInit, Nothing, Firing
<1>2. Cardinality(Firing(p)) = 0 /\ Cardinality(Replica) \in Nat
  BY <1>1, FS_EmptySet, FiringIsFinite
<1> QED
  BY <1>2 DEF SCInit, Paid

\* A bound stays when no pipeline gets rows, ticks or threads.
LEMMA FewerThreads ==
    ASSUME TickInv, SCTypeOK', NEW p \in Pipeline, jobs'[p] = jobs[p],
           ticks'[p] = ticks[p], Firing(p)' \subseteq Firing(p)
    PROVE  Paid(p)'
<1>1. Firing(p) \subseteq Replica
  BY DEF Firing
<1>2. /\ Cardinality(Firing(p)) \in Nat
      /\ Cardinality(Firing(p)') \in Nat
      /\ Cardinality(Firing(p)') <= Cardinality(Firing(p))
  BY <1>1, FiringIsFinite, FS_Subset, FS_CardinalityType
<1>3. /\ jobs[p] \in Nat
      /\ ticks[p] * Cardinality(Replica) \in Nat
      /\ jobs[p] + Cardinality(Firing(p)) <= ticks[p] * Cardinality(Replica)
  BY <1>1, FiringIsFinite, SchedulerAssumption DEF TickInv, Paid, SCTypeOK, SCTypes
<1> QED
  BY <1>2, <1>3 DEF Paid

\* A tick pays for the threads it starts, and a row takes the place of a thread.
LEMMA TickStep == TickInv /\ [SCNext]_scVars => TickInv'
<1> SUFFICES ASSUME TickInv, [SCNext]_scVars PROVE TickInv'
  OBVIOUS
<1>0. SCTypeOK /\ SCTypeOK'
  BY SchedulerTypeStep DEF TickInv
<1> SUFFICES ASSUME NEW p \in Pipeline PROVE Paid(p)'
  BY <1>0 DEF TickInv, Paid
<1> USE DEF Paid
<1>t. /\ jobs[p] \in Nat /\ ticks[p] \in Nat
      /\ Cardinality(Firing(p)) \in Nat /\ Cardinality(Replica) \in Nat
      /\ ticks[p] * Cardinality(Replica) \in Nat
      /\ jobs[p] + Cardinality(Firing(p)) <= ticks[p] * Cardinality(Replica)
  BY <1>0, FiringIsFinite, SchedulerAssumption DEF TickInv, SCTypeOK, SCTypes, Firing
<1>1. CASE /\ jobs'[p] = jobs[p]
           /\ ticks'[p] = ticks[p]
           /\ Firing(p)' \subseteq Firing(p)
  BY <1>1, <1>0, FewerThreads
<1>2. CASE CronTick(p)
  <2>1. jobs'[p] = jobs[p] /\ ticks'[p] = ticks[p] + 1
    BY <1>2, <1>0 DEF CronTick, SCTypeOK, SCTypes
  <2>2. /\ Cardinality(Firing(p)') \in Nat
        /\ Cardinality(Firing(p)') <= Cardinality(Replica)
    BY FiringIsFinite DEF Firing
  <2>3. (ticks[p] + 1) * Cardinality(Replica)
          = ticks[p] * Cardinality(Replica) + Cardinality(Replica)
    BY <1>t
  <2> QED
    BY <1>0, <1>t, <2>1, <2>2, <2>3
<1>3. ASSUME NEW s \in Replica, EnqueueJob(s, p)
      PROVE  Paid(p)'
  <2>1. /\ jobs'[p] = jobs[p] + 1
        /\ ticks'[p] = ticks[p]
        /\ Firing(p)' = Firing(p) \ {s}
        /\ s \in Firing(p)
    BY <1>3, <1>0 DEF EnqueueJob, SCTypeOK, SCTypes, Firing
  <2>2. Cardinality(Firing(p)') = Cardinality(Firing(p)) - 1
    BY <2>1, FiringIsFinite, FS_RemoveElement DEF Firing
  <2> QED
    BY <1>0, <1>t, <2>1, <2>2
<1>4. CASE UNCHANGED scVars
  BY <1>4, <1>1 DEF scVars, tableVars, memoryVars, Firing
<1>5. ASSUME NEW q \in Pipeline, CronTick(q), q # p
      PROVE  Paid(p)'
  BY <1>5, <1>0, <1>1 DEF CronTick, SCTypeOK, SCTypes, Firing
<1>6. ASSUME NEW s \in Replica, Boot(s) \/ Shutdown(s) \/ ServerCrashes(s)
      PROVE  Paid(p)'
  BY <1>6, <1>0, <1>1
     DEF Boot, Startup, LoadOne, StartupDone, StartupFails, Shutdown, ServerCrashes,
         GoDown, tableVars, SCTypeOK, SCTypes, Firing
<1>7. ASSUME NEW s \in Replica,
             CreateFails(s) \/ (\E tables \in SUBSET Pipeline : BulkCreate(s, tables))
      PROVE  Paid(p)'
  BY <1>7, <1>1 DEF CreateFails, BulkCreate, Firing
<1>8. ASSUME NEW s \in Replica, NEW q \in Pipeline,
             Register(s, q) \/ Deactivate(s, q) \/ Deregister(s, q)
      PROVE  Paid(p)'
  BY <1>8, <1>1 DEF Register, Deactivate, Deregister, tableVars, Firing
<1>9. ASSUME NEW s \in Replica, NEW q \in Pipeline, EnqueueJob(s, q), q # p
      PROVE  Paid(p)'
  BY <1>9, <1>0, <1>1 DEF EnqueueJob, SCTypeOK, SCTypes, Firing
<1> QED
  BY <1>2, <1>3, <1>4, <1>5, <1>6, <1>7, <1>8, <1>9 DEF SCNext

\* A cron tick inserts no more rows than there are processes, whatever crashes
\* between the tick and the insert.
THEOREM TicksBoundJobs == SCSpec => []OneJobPerTick
<1>1. TickInv => OneJobPerTick
  <2> SUFFICES ASSUME TickInv, NEW p \in Pipeline
               PROVE  jobs[p] <= ticks[p] * Cardinality(Replica)
    BY DEF OneJobPerTick
  <2>1. Cardinality(Firing(p)) \in Nat /\ Cardinality(Replica) \in Nat
    BY FiringIsFinite DEF Firing
  <2> QED
    BY <2>1, SchedulerAssumption DEF TickInv, Paid, SCTypeOK, SCTypes
<1> QED
  BY <1>1, TickInit, TickStep, PTL DEF SCSpec
=============================================================================
