CONSTANTS
  Top = 2
  Lines = 0
  Lengths = {1}
  Files <- MCEmptySecret
  Draws = 4
SPECIFICATION ProcSpec
INVARIANT SecretSaved
CHECK_DEADLOCK FALSE
