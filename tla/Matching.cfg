CONSTANTS
  s1 = s1
  s2 = s2
  s3 = s3
  Size <- Sizes
  ZERO_SIZE = ZERO_SIZE
  Malformed = Malformed
  None = None
  Files <- TwoFiles
  Inputs <- Requests
SPECIFICATION Spec
INVARIANTS
  RepliesMatch
CHECK_DEADLOCK FALSE
