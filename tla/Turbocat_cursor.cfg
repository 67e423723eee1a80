\* Overlapping jobs of one orders pipeline, two workers, lost and late posts.
SPECIFICATION TCSpec
CONSTANTS
    j1 = j1  j2 = j2
    p1 = p1  p2 = p2
    a1 = a1
    r1 = r1  r2 = r2
    i1 = i1  i2 = i2
    x1 = x1  x2 = x2
    Job = {j1, j2}
    Pipeline = {p1}
    AgentId = {a1}
    Request = {r1}
    PipelineOf <- MCPipelineOf
    AgentOf <- MCAgentOf
    CallerOf <- MCCallerOf
    Lookback <- MCLookback
    MaxTime = 2
    NoTime = NoTime
    NoRequest = NoRequest
    Instance = {i1}
    IdOf <- MCIdOf
    MaxWorkers = 2
    DayLength = 2
    Record = {x1, x2}
    Malformed = {x2}
    RecordsOf <- MCRecordsOf
    Connector <- MCConnector
    Name = "razorpay_orders"
    Fault = {"post_lost", "post_timeout", "sync_error"}
SYMMETRY Symmetry
INVARIANTS
    TCTypeOK
    CursorCovered
    SuccessMeansCopied
    DispatchedIsHeld
