CONSTANTS
  Bytes = 5
  MaxPayload = 2
  Period = 2
  Heads <- MCHeads
  HdrLen = 1
  InitLen = 2
  WireLen = 5
  WirePeriod = 1
  Wires <- MCWires
  Indexes = {2}
  Redirects = {2, 4}
  ForceTestDC = FALSE
SPECIFICATION UpSpec
INVARIANT NoPanic
CHECK_DEADLOCK FALSE
