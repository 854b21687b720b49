\* The hotkey enabled at boot, chains started one after the other.
CONSTANTS
    SetRequests = {}
    Chains = {c1}
    Combos = {k1}
    Intervals = {m1}
    MaxStarts = 1
    MaxChans = 2
    ResetUsed = FALSE
SPECIFICATION AbortFairSpec
PROPERTY HeldHotkeyEndsChain
CHECK_DEADLOCK FALSE
