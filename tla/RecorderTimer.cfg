\* A timed recording stopped by hand before its time is up, and another recording.
CONSTANTS
    Calls <- MCCalls
    Inputs = {i1}
    Op <- MCOp
    Unguarded = {}
SPECIFICATION Spec
CONSTRAINT Sequential
INVARIANT TimerEndsOwn
CHECK_DEADLOCK FALSE
