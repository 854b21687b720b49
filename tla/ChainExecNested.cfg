\* One chain that replays another.
CONSTANTS
    StepIds <- MCStepIds
    Step <- MCStep
    Requests <- Replays
    Calls = {c1}
    Nested = {n1}
    NoExec = none
SPECIFICATION Spec
INVARIANT StopReachesReplays
