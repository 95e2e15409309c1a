CONSTANTS
  Clients = {c1}
  ByName = 4
  ByIP = 2
  ByCF = 3
  MaxHops = 3
  DialTicks = 1
  ShakeTicks = 2
  ReapTicks = 6
  DeadStreak = 4
  DeadTicks = 8
SPECIFICATION FairSpec
INVARIANTS TypeOK NoOrphan BlameIsFair LastResort
PROPERTIES Answered LosersClosed
