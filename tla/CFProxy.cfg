CONSTANTS
  c1 = c1
  c2 = c2
  d1 = d1
  d2 = d2
  d3 = d3
  Clients = {c1, c2}
  Domains = {d1, d2, d3}
  User <- MCUser
  Lists <- MCLists
  Attempts = 3
  BanTicks = 4
  Turns = 6
  None = None
SPECIFICATION Spec
SYMMETRY ClientSymmetry
INVARIANTS TypeOK NoSecondTry NotPassedOver
PROPERTIES NilIsDeserved
