------------------------------- MODULE Domain -------------------------------
(***************************************************************************)
(* The entities every part of Turbocat talks about: the rows of the        *)
(* pipelines, agents and job_runs tables, the clock, and the payload that  *)
(* the orchestrator hands to an agent for one job.                         *)
(*                                                                         *)
(* Time is counted in whole seconds, the resolution of the window filters  *)
(* of the source APIs; several steps may share a second.                   *)
(***************************************************************************)
EXTENDS Times

CONSTANTS
    Job,        \* rows of job_runs that may ever be inserted
    Pipeline,   \* rows of pipelines
    AgentId,    \* rows of agents
    PipelineOf, \* JobRun.pipeline_id, by job
    AgentOf,    \* JobRun.agent_id, by job
    Request,    \* polls: a handler thread each, reused when it is free
    CallerOf,   \* the agent_id each poll is made with
    MaxTime,    \* bound: the clock stops here
    Fault       \* the kinds of failure the environment may produce

FaultKind == {"secret", "handler", "poll_timeout", "post_lost",
              "post_timeout", "sync_error", "no_list", "stop", "crash"}

Time == 0 .. MaxTime

ASSUME DomainAssumption ==
    /\ PipelineOf \in [Job -> Pipeline]
    /\ AgentOf \in [Job -> AgentId]
    /\ CallerOf \in [Request -> AgentId]
    /\ MaxTime \in Nat
    /\ NoTime \notin Int
    /\ Fault \subseteq FaultKind

\* JobRun.status; "absent" is a row the scheduler has not inserted yet.
JobStatus == {"pending", "dispatched", "running", "success", "failed"}
RowStatus == JobStatus \cup {"absent"}

\* Pipeline.state: the last_sync_at cursor, or nothing before the first success.
Cursor == Time \cup {NoTime}

\* JobPayload: only the window is kept. The code always sets end_time, so an
\* end of NoTime stands for "no payload".
Payload == [start : Int \cup {NoTime}, end : Cursor]
NoPayload == [start |-> NoTime, end |-> NoTime]
=============================================================================
