SPECIFICATION Spec
CONSTANTS
  Assets <- MCAssets
  Fixed <- MCFixed
  Xrd = "XRD"
  Feeds <- MCFeeds
  Plugins <- MCPlugins
  Currency <- MCCurrency
  RawPrices <- MCRawPrices
  Scale = 4
  MaxAge = 1
  MaxTime = 4
  Tiny = FALSE
INVARIANT ReferenceIsXrd
CHECK_DEADLOCK FALSE
