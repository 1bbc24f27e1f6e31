SPECIFICATION FairSpec
CONSTANTS
  N = 2
  MaxKeyN = 2
  MaxGen = 3
  MaxStarts = 2
  MaxStops = 1
  MaxLost = 1
  MaxResent = 0
  MaxRestarts = 1
  Prompt = FALSE
  Patient = FALSE
CHECK_DEADLOCK FALSE
INVARIANT TypeOK
INVARIANT NoEmptyParams
INVARIANT JoinHasThread
INVARIANT ActiveIsNewest
INVARIANT KeysIndependent
INVARIANT OwnContribution
PROPERTY KeysKept
PROPERTY StopReturns
