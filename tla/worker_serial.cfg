SPECIFICATION FairSpec
CONSTANTS
  Sessions = {s1, s2}
  Detached = {d1}
  MaxCalls = 3
  Serial = TRUE
CHECK_DEADLOCK FALSE
INVARIANT NeverCrashes
INVARIANT NoMissedWakeup
INVARIANT JoinIsHeard
PROPERTY TakenOnce
PROPERTY CallsReturn
PROPERTY MessagesTaken
