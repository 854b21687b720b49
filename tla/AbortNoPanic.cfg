\* Two goroutines of the poller fire on the same press.
CONSTANTS
    SetRequests = {r1}
    Chains = {c1}
    Combos = {k1}
    Intervals = {m1, m2}
    MaxStarts = 2
    MaxChans = 1
    ResetUsed = FALSE
SPECIFICATION AbortSpec
INVARIANT NoPanicOnRestart
CHECK_DEADLOCK FALSE
