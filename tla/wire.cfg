SPECIFICATION Spec
CONSTANTS
  TextSizes = {1, 100, 253, 254, 3023, 3024, 4096, 4097, 4140, 8192}
  LastKeys = {0, 1, 2147483647}
  LastPosition = 0
  OtherWords = {4, 44}
  Foreign = {0, 300}
  Fields = {0, 3}
  Layouts <- MCLayouts
  OtherValues = {1, 27, 255, 1022, 17920254}
  Behind = {30}
  MaxItems = 3
  MaxRead = 2
INVARIANT FramedExactly
INVARIANT NeighbourSkipped
INVARIANT Understood
INVARIANT ReadBack
INVARIANT EndsExplained
INVARIANT LengthsAgree
INVARIANT ListCovered
CHECK_DEADLOCK FALSE
