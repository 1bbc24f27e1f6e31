SPECIFICATION FairSpec
CONSTANTS
  N = 3
  MaxKeyN = 1
  MaxGen = 3
  MaxStarts = 1
  MaxStops = 0
  MaxLost = 0
  MaxResent = 0
  MaxRestarts = 0
  Prompt = TRUE
  Patient = TRUE
CHECK_DEADLOCK FALSE
PROPERTY KeyReachesAll
