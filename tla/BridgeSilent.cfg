CONSTANTS
  Kinds = {"ws"}
  Window = 1
  Kept = 1
  Wire = 2
SPECIFICATION FairSpec
PROPERTY SilentSessionEnds
CHECK_DEADLOCK FALSE
