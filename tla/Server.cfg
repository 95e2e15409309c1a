CONSTANTS
  Callers = {main, tray}
  Addrs = {a1}
  MaxConns = 2
  MaxRuns = 2
  WarmDials = 1
SPECIFICATION FairSpec
INVARIANTS TypeOK RunningServes OneRunLives NothingLeft NoStaleEntry
PROPERTIES ImplementsService CallsReturn StoppedRunRests
CHECK_DEADLOCK FALSE
