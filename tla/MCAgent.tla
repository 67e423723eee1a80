------------------------------ MODULE MCAgent ------------------------------
(***************************************************************************)
(* The agent for TLC: more jobs than workers, so that tasks queue for the  *)
(* semaphore, and a second instance for the overlap of a rolling update.   *)
(***************************************************************************)
EXTENDS Agent

CONSTANTS j1, j2, j3, p1, a1, r1, i1, i2

MCPipelineOf == [j \in Job |-> p1]
MCAgentOf == [j \in Job |-> a1]
MCCallerOf == [r \in Request |-> a1]
=============================================================================
