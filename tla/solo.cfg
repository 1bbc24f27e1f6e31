SPECIFICATION FairSpec
CONSTANTS
  N = 1
  MaxKeyN = 3
  MaxGen = 7
  MaxStarts = 3
  MaxStops = 3
  MaxLost = 0
  MaxResent = 0
  MaxRestarts = 0
  Prompt = TRUE
  Patient = TRUE
CHECK_DEADLOCK FALSE
PROPERTY WorkerEnds
