----------------------------- MODULE MCTurbocat -----------------------------
(***************************************************************************)
(* The whole system for TLC: one pipeline whose jobs overlap, agents with  *)
(* one id, and a source with a record or two.  The connector of pipeline   *)
(* p1 is chosen by the configuration; p2, where there is one, copies       *)
(* Kapture tickets and has a job and a record of its own.                  *)
(***************************************************************************)
EXTENDS Turbocat, TLC

CONSTANTS j1, j2, p1, p2, a1, r1, r2, i1, i2, x1, x2, Name

MCPipelineOf == [j \in Job |-> IF p2 \in Pipeline /\ j = j2 THEN p2 ELSE p1]
MCAgentOf == [j \in Job |-> a1]
MCCallerOf == [r \in Request |-> a1]
MCIdOf == [i \in Instance |-> a1]
MCLookback == [p \in Pipeline |-> 0]
MCRecordsOf == [p \in Pipeline |->
                  IF p2 \in Pipeline
                  THEN {x \in Record : (x = x2) = (p = p2)} ELSE Record]
MCConnector == [p \in Pipeline |-> IF p = p2 THEN "kapture_tickets" ELSE Name]

\* Where jobs of two pipelines are told apart, no symmetry is used; records may be
\* told apart by Malformed.
Symmetry == Permutations(Job) \cup Permutations(Instance)
              \cup Permutations(Request)
=============================================================================
