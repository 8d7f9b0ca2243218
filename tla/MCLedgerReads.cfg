\* four readers of a ledger of up to five versions
SPECIFICATION Spec
CONSTANTS
  Keys = {1, 2, 3}
  Initially <- MCInitially
  MaxWrites = 5
  a = a
  b = b
  Calls = {a, b}
  PageSize = 1
  MaxFaults = 1
  NftIds <- MCNftIds
  NftBatch = 2
  MarketAt <- MCMarketAt
  MarketPage = 3
  DefaultPools = {11, 13}
  MaxWindow = 1
  Asked <- MCAsked
  PriceBatch = 2
  PoolStats <- MCPoolStats
  Weft = 20
  Xusdc = 13
  FullUsage = 10
INVARIANTS
  ValuesOfVersion
  StoreWhole
  NftsOnce
  MarketSnapshot
  QuotesSnapshot
CHECK_DEADLOCK FALSE
