\* Two agent processes with one id that stop, crash and restart, polls that time out, handlers that fail.
SPECIFICATION TCSpec
CONSTANTS
    j1 = j1  j2 = j2
    p1 = p1  p2 = p2
    a1 = a1
    r1 = r1  r2 = r2
    i1 = i1  i2 = i2
    x1 = x1  x2 = x2
    Job = {j1, j2}
    Pipeline = {p1}
    AgentId = {a1}
    Request = {r1, r2}
    PipelineOf <- MCPipelineOf
    AgentOf <- MCAgentOf
    CallerOf <- MCCallerOf
    Lookback <- MCLookback
    MaxTime = 1
    NoTime = NoTime
    NoRequest = NoRequest
    Instance = {i1, i2}
    IdOf <- MCIdOf
    MaxWorkers = 1
    DayLength = 2
    Record = {x1}
    Malformed = {}
    RecordsOf <- MCRecordsOf
    Connector <- MCConnector
    Name = "razorpay_orders"
    Fault = {"secret", "handler", "poll_timeout", "stop", "crash"}
SYMMETRY Symmetry
INVARIANT
    SoleWorker
PROPERTIES
    SyncsIncrementally
    QueueIsJobQueue
    AgentsAreAgents
