--------------------------- MODULE MCPriceUpdater ---------------------------
(* XRD, two wrapped tokens of one currency and a token without a Pyth feed: an *)
(* excerpt of ASSETS with the four plugins and their feeds as they are there.  *)
EXTENDS PriceUpdater

CONSTANT Tiny  \* may a USD price be below 10^-6?

MCAssets == <<"XRD", "xUSDT", "hUSDT", "WEFT">>
MCFixed == {"XRD"}
MCPlugins == <<"pyth", "caviarnine", "coingecko", "astrolescent">>
MCCurrency == [p \in ToSet(MCPlugins) |-> IF p \in {"pyth", "coingecko"} THEN "USD" ELSE "XRD"]

Feed(p, i) == [plugin |-> p, id |-> i]
MCFeeds == [a \in ToSet(MCAssets) |->
  CASE a = "XRD"   -> <<Feed("pyth", "xrd"), Feed("coingecko", "radix")>>
    [] a = "xUSDT" -> <<Feed("pyth", "usdt"), Feed("coingecko", "tether"),
                        Feed("astrolescent", "xUSDT")>>
    [] a = "hUSDT" -> <<Feed("pyth", "usdt"), Feed("coingecko", "tether"),
                        Feed("astrolescent", "hUSDT")>>
    [] a = "WEFT"  -> <<Feed("caviarnine", "WEFT"), Feed("coingecko", "weft-finance"),
                        Feed("astrolescent", "WEFT")>>]

Raw(m, e) == [m |-> m, e |-> e]
MCRawPrices == [p \in ToSet(MCPlugins) |-> [i \in Ids |->
  CASE i = "xrd" -> {Raw(1650, 6)}
    [] i = "radix" -> {Raw(17, 4), Raw(0, 0)}
    [] i = "usdt" -> {Raw(100200, 5)}
    [] i = "tether" -> {Raw(1, 0)}
    [] i = "weft-finance" -> IF Tiny THEN {Raw(15, 8)} ELSE {Raw(25, 4), Raw(3, 6)}
    [] OTHER -> {Raw(6, 1)}]]

ASSUME TinyAssumption == NoneTiny \/ Tiny
=============================================================================
