SPECIFICATION FairSpec
CONSTANTS
  a = a
  b = b
  c1 = c1
  c2 = c2
  chunked = chunked
  window = window
  Networks <- MCNetworks
  Recipients = {a}
  Coins <- MCCoins
  Tags <- MCTags
  TagOf <- MCTagOf
  ScanFromBlock <- MCScanFromBlock
  LogChunk <- MCLogChunk
  MaxHead <- MCShortChains
  Traffic <- MCOnePayment
  SCHEME_ID = 1
  OtherScheme = 2
  MaxScans = 2
  Malformed = Malformed
  Nothing = Nothing
  ErrorNote = ErrorNote
PROPERTY
  ScanEnds
