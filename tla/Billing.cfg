CONSTANTS
    pro = pro
    max = max
    o1 = o1
    o2 = o2
    k2 = k2
    c1 = c1
    c2 = c2
    Plans = {pro, max}
    Free = free
    Credits <- MCCredits
    Cycles = {2}
    Period = 2
    Horizon = 3
    TermIds = {o1, o2, g1}
    Orders = {o1, o2}
    Operators = {a1}
    MaxTime = 2
    TopUp = topup
    Keys = {k1, k2}
    Calls = {c1, c2}
    Callbacks = TRUE
    Refunds = TRUE
    NoOrder = none
    s1 = s1
    s2 = s2
    i1 = i1
    p1 = p1
    w1 = w1
    Shots = {s1, s2}
    Composes = {v1}
    Images = {i1}
    Procs = {p1, p2}
    Pollers = {w1, w2}
    Price <- MCPrice
    Limit = 5
    Overrun = 1
    MaxRequests = 3
    MaxReclaims = 1
    MaxCancels = 1
    NoJob = nojob
SPECIFICATION MCSpec
CHECK_DEADLOCK FALSE
INVARIANTS MoneyKept TermsKept 
PROPERTIES NothingTakenBack RefreshedIsCredited
