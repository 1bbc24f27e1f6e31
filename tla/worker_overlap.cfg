SPECIFICATION Spec
CONSTANTS
  Sessions = {s1}
  Detached = {d1}
  MaxCalls = 2
  Serial = FALSE
CHECK_DEADLOCK FALSE
INVARIANT NeverCrashes
