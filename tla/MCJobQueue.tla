----------------------------- MODULE MCJobQueue -----------------------------
(***************************************************************************)
(* The job queue for TLC: two jobs of one pipeline, and two handler        *)
(* threads, which is what two polls of the same agent, or one poll that    *)
(* timed out and its successor, need.                                      *)
(***************************************************************************)
EXTENDS JobQueue, TLC

CONSTANTS j1, j2, p1, a1, r1, r2

MCPipelineOf == [j \in Job |-> p1]
MCAgentOf == [j \in Job |-> a1]
MCCallerOf == [r \in Request |-> a1]
MCLookback == [p \in Pipeline |-> 1]
=============================================================================
