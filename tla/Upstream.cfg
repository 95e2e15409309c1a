CONSTANTS
  Bytes = 12
  MaxPayload = 2
  Period = 2
  Heads <- MCHeads
  HdrLen = 1
  InitLen = 2
  WireLen = 10
  WirePeriod = 2
  Wires <- MCWires
  Indexes <- MCIndexes
  Redirects = {2, 4}
  ForceTestDC = FALSE
SPECIFICATION UpSpec
INVARIANTS UpTypeOK Lossless OnePacketEach NothingHeldBack StreamIntact RouteFitsClient
PROPERTY ConnectionEnds
CHECK_DEADLOCK FALSE
