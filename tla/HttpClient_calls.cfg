\* Calls one after another, with fewer retries than nested calls, and every answer.
SPECIFICATION HCSpec
CONSTANTS
    MaxRetries = 2
    MaxDepth = 3
    DefaultWait = 2
    Wait <- MCWait
INVARIANTS
    HCTypeOK
    SendsAreBounded
    OutcomeIsEarned
    WaitsAsAsked
PROPERTY
    CallEnds
