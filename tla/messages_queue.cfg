SPECIFICATION Spec
CONSTANTS
  Chats = {c1, c2}
  MaxTexts = 2
  MaxKeys = 1
  MaxFaults = 0
  Preempt = FALSE
INVARIANT AllEncrypted
CHECK_DEADLOCK FALSE
