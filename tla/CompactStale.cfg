CONSTANTS
  Nets = {"sepolia", "frames"}
  FramesNets = {"frames"}
  StartNets = {"sepolia", "frames"}
  Paid0 = {"frames"}
  Random = {r1}
  Coins = {c1}
  Slots = 2
  MaxKeys = 2
  MaxClicks = 3
  MaxSelects = 1
  None = None
SPECIFICATION Spec
INVARIANT CompactIsMine
CHECK_DEADLOCK FALSE
