CONSTANTS
  PqAccounts = {p1, p2}
  ZkAccounts = {z1, z2}
  Paid0 = {p1, z1}
  Typed = {"self"}
  Tabs = {"spend", "frames"}
  p1 = p1
  p2 = p2
  z1 = z1
  z2 = z2
  Attempts = 2
  MaxJobs = 2
  MaxMounts = 2
  MaxUsed = 1
  None = None
SPECIFICATION Spec
INVARIANTS TypeOK OutcomeTrue MinedOnce OwnProof FundsFindable ProofAnswerable
CHECK_DEADLOCK FALSE
