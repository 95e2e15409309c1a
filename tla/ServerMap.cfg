CONSTANTS
  Callers = {main, tray}
  Addrs = {a1}
  MaxConns = 2
  MaxRuns = 2
  WarmDials = 1
SPECIFICATION Spec
INVARIANTS StopKeepsProcess
CHECK_DEADLOCK FALSE
