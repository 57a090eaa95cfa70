CONSTANTS
  Recipients = {"alice", "bob"}
  Coins = {"c0", "c1"}
  TaggedOne = {"c1"}
  Chains = {1, 2}
  MaxPays = 2
  MaxLog = 3
  MaxSpends = 2
  Throws = Throws
  ByteBits = 4
  N = 4
  K = 3
  L = 2
  D = 5
  ETA = 1
  ROOT = 1579
  StreamLen = 16
  Seeds = {1, 2, 3, 4, 5}
  MaxPayments = 2
  SECP_P = 43
  SECP_N = 31
  MaxSeed = 47
  Pubkeys = {"pk1", "pk2", "short"}
  Nonces = {0, 1}
  MaxCrafts = 2
  Jobs = {j1, j2}
  Dests = {d1, d2}
  GasPrices = {1, 2}
  Funds0 = 13
  MaxTopUps = 1
  Inputs = {x1, x2}
  Bad = Bad
  MaxRequests = 3
  Params = {p1}
  MaxCalls = 3
  MaxBatch = 2
  None = None
  Error = Error
  Torn = Torn
SPECIFICATION Spec
INVARIANTS ScanFindsPayments StealthKeySpendable NativeAddresses OwnersSpendsOnly OpsFunded
           AnswersOwnInput ReplayAnswers
PROPERTY RequestsEnd
CHECK_DEADLOCK FALSE
