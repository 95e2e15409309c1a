CONSTANTS
  Key = {plain, media}
  WarmKey = {plain}
  WS = {w1, w2, w3}
  Refiller = {r1}
  PoolSize = 2
  None = None
SPECIFICATION FairSpec
INVARIANTS TypeOK SoleOwner
PROPERTY HandsOutOldestFresh ImplementsConnPool ExpiredLeaves
CHECK_DEADLOCK FALSE
