CONSTANTS
  Networks = {"anvil", "frames"}
  FramesNets = {"frames"}
  DevNets = {"anvil"}
  LiveNets = {"anvil", "frames"}
  MaxTasks = 2
SPECIFICATION Spec
INVARIANT AnnouncedWherePaid
CHECK_DEADLOCK FALSE
