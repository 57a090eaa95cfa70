CONSTANTS
  Nets = {"sepolia", "frames"}
  FramesNets = {"frames"}
  StartNets = {"frames"}
  Paid0 = {"frames"}
  Random = {r1}
  Coins = {c1}
  MaxKeys = 2
  MaxSelects = 1
  Anns = {n1, n2, n3}
  PaidRows = {n1, n2}
  MaxOpens = 1
  Tries = 2
  Slots = 2
  MaxClicks = 3
  None = None
SPECIFICATION Spec
INVARIANTS TypeOK CompactResolves OneSpendPerRow ResultExecuted
PROPERTY HandlersEnd
CHECK_DEADLOCK FALSE
