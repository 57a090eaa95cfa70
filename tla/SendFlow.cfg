CONSTANTS
  Networks = {"anvil", "frames"}
  FramesNets = {"frames"}
  DevNets = {"anvil"}
  LiveNets = {"anvil"}
  MaxTasks = 2
SPECIFICATION FairSpec
INVARIANTS TypeOK OnClickedNetwork SentMeansLogged QuietWhenIdle BundleSettled
PROPERTIES Promise LabelGoes
CHECK_DEADLOCK FALSE
