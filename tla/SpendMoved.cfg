CONSTANTS
  Nets = {"sepolia", "frames"}
  FramesNets = {"frames"}
  StartNets = {"frames"}
  Paid0 = {"frames"}
  Random = {r1}
  Coins = {c1}
  MaxKeys = 2
  MaxSelects = 1
  Anns = {n1, n2}
  PaidRows = {n1}
  MaxOpens = 0
  Tries = 1
  Slots = 1
  MaxClicks = 2
  None = None
SPECIFICATION Spec
INVARIANT SpentMoved
CHECK_DEADLOCK FALSE
