CONSTANTS
  e1 = e1
  p1 = p1
  p2 = p2
  fixed = fixed
  moving = moving
  c1 = c1
  c2 = c2
  o1 = o1
  Vaults = {vA, vB}
  EcKeys = {e1}
  PqKeys = {p1, p2}
  Contracts = {fixed, moving}
  PublicKeys <- Answers
  C13Keys = {c1, c2}
  Openers = {o1}
  Owners <- SomeOwners
  Receivers = {to}
  SignsFor <- SchemeOwners
  Amounts = {1}
  MaxNonce = 2
  MaxEth = 2
  MaxKeys = 1
  MaxBlobs = 1
  MaxSigned = 2
  MaxDepth = 2
  pk1 = pk1
  pk2 = pk2
  a1 = a1
  a2 = a2
  w1 = w1
  w2 = w2
  Keys = {pk1, pk2}
  ShortKeys = {short}
  Matrices = {a1, a2, trap}
  Trapdoored = {trap}
  BadMatrices = {misshaped}
  Callers = {registrar, other}
  REGISTRAR = registrar
  HidingWords = {w1, w2}
  Destinations = {d1, d2}
  ExpandA <- Expansion
  Accounts <- TwoAccounts
  MaxOps = 2
  GasLimits = {0, 30, 1070, 1200}
  AccountGas = 10
  SignerGas = 40
  VerifyGas = 1000
  MaxAuthorizations = 2
  Emitters = {"sender"}
  Schemes = {1, 2}
  Lengths = {0, 1, 767, 768, 769, 799, 800, 801, 833, 1087, 1088, 1089, 1119, 1120, 1121, 1183, 1184, 1185, 1215, 1216, 1217, 1249, 1567, 1568, 1569, 1601, 3777, 5633, 5665, 7489}
  MetadataLengths = {0, 1, 2}
  MaxLog = 1
  MaxViewingKeys = 3
SYMMETRY VaultSymmetry
SPECIFICATION ContractsSpec
INVARIANTS
  TypeOK Solvent NonceCountsPayouts Authorized
  RouteTypeOK AnswersOwnDeployment RecoveryOpen SpendsAuthorized VerdictsAreTrue
  TablesAgree
PROPERTY IndexPermanent
CHECK_DEADLOCK FALSE
