CONSTANTS
    w1 = w1
    w2 = w2
    d1 = d1
    d2 = d2
    Workers = {w1, w2}
    Machines = {d1, d2}
    Pooled = {p1}
    None = None
    Attempts = {a1, a2, a3, a4}
    MaxMonths = 2
    MaxFailures = 1
    MaxCrashes = 1
    MaxExpiries = 1
SPECIFICATION MCSpec
INVARIANTS PaidForOnce AccessAgrees
PROPERTY KeptAndServed
CHECK_DEADLOCK FALSE
