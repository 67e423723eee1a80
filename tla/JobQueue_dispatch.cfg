\* Two overlapping polls of one agent, every failure of the handler.
SPECIFICATION JQSpec
CONSTANTS
    j1 = j1  j2 = j2
    p1 = p1
    a1 = a1
    r1 = r1  r2 = r2
    Job = {j1, j2}
    Pipeline = {p1}
    AgentId = {a1}
    Request = {r1, r2}
    PipelineOf <- MCPipelineOf
    AgentOf <- MCAgentOf
    CallerOf <- MCCallerOf
    Lookback <- MCLookback
    MaxTime = 2
    NoTime = NoTime
    Fault = {"secret", "handler"}
INVARIANTS
    JQTypeOK
    NoDuplicateDispatch
    ClaimsAreCommitted
    WindowSound
PROPERTY
    HandedOnce
