SPECIFICATION Spec
CONSTANTS
  a = a
  b = b
  c1 = c1
  c2 = c2
  chunked = chunked
  window = window
  Networks <- MCNetworks
  Recipients <- MCRecipients
  Coins <- MCCoins
  Tags <- MCTags
  TagOf <- MCTagOf
  ScanFromBlock <- MCScanFromBlock
  LogChunk <- MCLogChunk
  MaxHead <- MCMaxHead
  Traffic <- MCTraffic
  SCHEME_ID = 1
  OtherScheme = 2
  MaxScans = 1
  Malformed = Malformed
  Nothing = Nothing
  ErrorNote = ErrorNote
INVARIANTS
  ScanExact
