\* Two recordings, one of them timed; two stops, one of them by a chain.
CONSTANTS
    Calls <- MCCalls
    Inputs = {i1}
    Op <- MCOp
    Unguarded = {3}
SPECIFICATION FairSpec
INVARIANTS TypeOK ActiveRecords SessionReturnedOnce
PROPERTIES RecordingsEnd
CHECK_DEADLOCK FALSE
