SPECIFICATION Spec
CONSTANTS
  N = 3
  MaxKeyN = 1
  MaxGen = 2
  MaxStarts = 1
  MaxStops = 0
  MaxLost = 1
  MaxResent = 1
  MaxRestarts = 0
  Prompt = TRUE
  Patient = FALSE
CHECK_DEADLOCK FALSE
INVARIANT Contributory
INVARIANT NumbersUnique
PROPERTY ImplementsGroupKey
