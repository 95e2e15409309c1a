CONSTANTS
  Kinds = {"ws", "direct"}
  Window = 1
  Kept = 1
  Wire = 2
SPECIFICATION FairSpec
INVARIANTS TypeOK UpComplete DownComplete
PROPERTIES DataFrameFreesDown CancelEndsSession GoneDCEndsSession
CHECK_DEADLOCK FALSE
