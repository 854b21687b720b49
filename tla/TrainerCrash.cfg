\* Online training starts only after a reset (its channel is open at the start), so
\* two resets and three trainings are needed at most.
SPECIFICATION MLSpec
CONSTANTS
  Trains = 2
  Resets = 2
  Rounds = 0
  Restarts = 0
  MaxUpsets = 2
  MaxTrainers = 1
  Recent = 2
INVARIANT NoTrainerPanic
CHECK_DEADLOCK FALSE
