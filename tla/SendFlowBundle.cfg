CONSTANTS
  Networks = {"anvil", "frames"}
  FramesNets = {"frames"}
  DevNets = {"anvil"}
  LiveNets = {"anvil", "frames"}
  MaxTasks = 2
SPECIFICATION Spec
PROPERTY BundleKept
CHECK_DEADLOCK FALSE
