\* The docstring of deregister_pipeline, with the two replicas of production.
SPECIFICATION SCSpec
CONSTANTS
    p1 = p1  p2 = p2
    s1 = s1  s2 = s2
    Pipeline = {p1}
    Replica = {s1, s2}
    Unparsable = {}
    MaxTicks = 0
    Failing = FALSE
INVARIANT
    DeactivatedEverywhere
