\* Two processes that crash and restart, and a schedule that does not parse.
SPECIFICATION SCSpec
CONSTANTS
    p1 = p1  p2 = p2
    s1 = s1  s2 = s2
    Pipeline = {p1, p2}
    Replica = {s1, s2}
    Unparsable = {p2}
    MaxTicks = 2
    Failing = TRUE
SYMMETRY ReplicaSymmetry
INVARIANTS
    SCTypeOK
    QuietIsUnscheduled
    OneJobPerTick
    ActiveIsScheduled
