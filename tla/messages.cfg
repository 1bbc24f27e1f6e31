SPECIFICATION Spec
CONSTANTS
  Chats = {c1, c2}
  MaxTexts = 2
  MaxKeys = 2
  MaxFaults = 1
  Preempt = TRUE
INVARIANT EncryptedOnce
INVARIANT FirstIsEncrypted
INVARIANT IconIsTrue
INVARIANT IconComes
INVARIANT KeyIsFound
INVARIANT Readable
CHECK_DEADLOCK FALSE
SYMMETRY ChatSymmetry
