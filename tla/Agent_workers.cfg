\* More jobs than workers in two processes that stop, crash and restart.
SPECIFICATION AGFairSpec
CONSTANTS
    j1 = j1  j2 = j2  j3 = j3
    p1 = p1
    a1 = a1
    r1 = r1
    i1 = i1  i2 = i2
    Job = {j1, j2, j3}
    Pipeline = {p1}
    AgentId = {a1}
    Request = {r1}
    PipelineOf <- MCPipelineOf
    AgentOf <- MCAgentOf
    CallerOf <- MCCallerOf
    MaxTime = 0
    NoTime = NoTime
    NoRequest = NoRequest
    Instance = {i1, i2}
    MaxWorkers = 2
    Fault = {"stop", "crash"}
INVARIANTS
    AGTypeOK
    PermitsAccount
PROPERTIES
    SpawnedIsDone
    StopLeadsToExit
