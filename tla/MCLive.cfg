\* The hotkey: two concurrent set_config requests, two chains, the start at boot and one
\* restart.  The chain: one call, at most one nested chain, every program.  The store:
\* two samples over three days, one restart and one fault.
SPECIFICATION LiveSpec
CONSTANTS
  StepIds <- MCStepIds
  Step <- MCStep
  Requests <- AllRequests
  Calls = {x1}
  Nested = {n1}
  NoExec = none
  SetRequests = {r1, r2}
  Chains = {c1, c2}
  Combos = {k1}
  Intervals = {m1}
  MaxStarts = 2
  MaxChans = 3
  ResetUsed = FALSE
  MaxSamples = 2
  MaxDay = 2
  MaxBoots = 1
  MaxFaults = 1
  Retentions = {0, 1}
  Labels = {TRUE}
  Batch = 1
INVARIANTS LiveTypeOK StepBoundary  FailuresReported FailureEndsList RunningChainsReachable PressNotLost
PROPERTIES CallsAndWorkersEnd BroadcastAbort StoppedPollersExit NoticedPressEndsChains 
CHECK_DEADLOCK FALSE
