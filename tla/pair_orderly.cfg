SPECIFICATION FairSpec
CONSTANTS
  N = 2
  MaxKeyN = 2
  MaxGen = 3
  MaxStarts = 3
  MaxStops = 2
  MaxLost = 0
  MaxResent = 0
  MaxRestarts = 0
  Prompt = TRUE
  Patient = TRUE
CHECK_DEADLOCK FALSE
PROPERTY LastMemberRefreshes
PROPERTY ImplementsGroupKey
