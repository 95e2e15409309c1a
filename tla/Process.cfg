CONSTANTS
  Top = 4
  Lines = 4
  Lengths = {1, 2}
  Files <- MCFiles
  Draws = 4
SPECIFICATION ProcSpec
INVARIANT ProcTypeOK
PROPERTIES ConfigKept OldestGoFirst
CHECK_DEADLOCK FALSE
