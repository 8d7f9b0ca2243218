---------------------------- MODULE MarketQuotes ----------------------------
(***************************************************************************)
(* packages/weft-ledger-state, the figures read off the lending market:    *)
(* getPrice, of a ledger state or live, getInterestModels with the curves  *)
(* of InterestStrategy, and getWeftStakingApr, which joins live prices,    *)
(* the pools and the stake.                                                *)
(***************************************************************************)
EXTENDS MarketReads

CONSTANTS
  Asked,        \* lists of resources whose prices are asked for
  PriceBatch,   \* resources per preview of get_price, 10 in the code
  PoolStats,    \* [state of a pool -> its totalDeposit, totalLoan and borrowingApr]
  Weft, Xusdc,  \* WEFT_RESOURCE, XUSDC_RESOURCE
  FullUsage     \* a usage of 100%, in the unit of the break points

\* Of the ledger, MarketAt[v] also has the stores "prices" and "models" (a sequence of
\* break points each) and what is staked, 0 when there is no holding.  XUSDC_RESOURCE is a
\* key of resourceToDuMapping.
ASSUME QuotesAssumption ==
  /\ \A asked \in Asked : asked \in Seq(Nat) /\ IsInjective(asked)
  /\ PriceBatch \in Nat \ {0} /\ FullUsage \in Nat \ {0}
  /\ IsFiniteSet(DefaultPools) /\ Xusdc \in DefaultPools
  /\ \A v \in 1..MaxWrites :
       /\ {"prices", "models", "staked"} \subseteq DOMAIN MarketAt[v]
       /\ \A s \in {"prices", "models"} :
            /\ IsFiniteSet(DOMAIN MarketAt[v][s])
            /\ MarketAt[v][s] = [k \in DOMAIN MarketAt[v][s] |-> MarketAt[v][s][k]]
       /\ MarketAt[v].staked \in Nat
       /\ \A k \in DOMAIN MarketAt[v].pools :
            PoolStats[MarketAt[v].pools[k]] \in [totalDeposit : Nat, totalLoan : Nat,
                                                borrowingApr : Nat]
       /\ \A k \in DOMAIN MarketAt[v].prices : MarketAt[v].prices[k] \in Nat \ {0}
       /\ \A k \in DOMAIN MarketAt[v].models : LET bps == MarketAt[v].models[k] IN
            /\ bps \in Seq([usage : Nat, rate : Int, slop : Int])
            /\ bps # <<>> => bps[1].usage = 0
            /\ \A i \in DOMAIN bps : bps[i].usage < FullUsage
            /\ \A i, j \in DOMAIN bps : i < j => bps[i].usage < bps[j].usage

VARIABLES quote

\* call: the function called; prices, pools: what getWeftStakingApr has read
QuoteInit ==
  quote = [call |-> "none", stage |-> "idle", at |-> Live, asked |-> <<>>, start |-> 0,
           end |-> 0, prices |-> <<>>, pools |-> <<>>, answer |-> <<>>]

\* One of the functions is called and sends its requests.
QuoteAsked ==
  /\ quote.stage = "idle"
  /\ \E call \in {"prices", "models", "apr"}, at \in {Live} \cup 1..Version,
        asked \in Asked :
       /\ call = "apr" => at = Live
       /\ quote' = [quote EXCEPT !.call = call, !.stage = "reading", !.at = at,
                                 !.asked = IF call = "prices" THEN asked ELSE <<>>,
                                 !.start = Version]

-----------------------------------------------------------------------------
(* getPrice *)

\* Mutant: the last batch is only sent when it is full
BatchesFloor(asked) == Len(asked) \div PriceBatch

\* The batches of resources, each of which a preview is sent for
Batches(asked) == (Len(asked) + PriceBatch - 1) \div PriceBatch

BatchOf(asked, k) == ((CHOOSE i \in DOMAIN asked : asked[i] = k) - 1) \div PriceBatch + 1

\* The first page of the price store, for the resources asked for
PricesAtLedgerState(asked, r) ==
  LET cached == FirstEntries("prices", r) IN
  [k \in ToSet(asked) \cap DOMAIN cached |-> cached[k]]

\* Each batch's preview is answered by the ledger of its moment, for what has a price.
PricesLive(asked, v) ==
  [k \in {j \in ToSet(asked) : /\ BatchOf(asked, j) \in DOMAIN v
                               /\ j \in DOMAIN MarketAt[v[BatchOf(asked, j)]].prices}
     |-> MarketAt[v[BatchOf(asked, k)]].prices[k]]

\* What getPrice may answer when its requests are answered from version start to end
PricesRead(asked, at, start, end) ==
  IF at # Live THEN {PricesAtLedgerState(asked, r) : r \in Reads(at, start, end)}
  ELSE {PricesLive(asked, v) : v \in [1..Batches(asked) -> start..end]}

-----------------------------------------------------------------------------
(* InterestStrategy *)

\* The first segment the usage falls in, or else the last break point
GetInterestRate(bps, usage) ==
  LET fits == {i \in 1..(Len(bps) - 1) : bps[i].usage <= usage /\ usage < bps[i + 1].usage}
      bp == bps[IF fits = {} THEN Len(bps) ELSE Min(fits)] IN
  bp.rate + (usage - bp.usage) * bp.slop

\* Mutant: the rate of the last break point is taken for the one at full usage
InterestStrategyFlat(bps) ==
  Append(bps, [usage |-> FullUsage, rate |-> bps[Len(bps)].rate, slop |-> 0])

\* The constructor: the rate at full usage closes the list of break points.
InterestStrategy(bps) ==
  Append(bps, [usage |-> FullUsage, rate |-> GetInterestRate(bps, FullUsage), slop |-> 0])

\* Without break points the constructor throws.
ModelsRead(r) ==
  LET entries == FirstEntries("models", r) IN
  [thrown |-> \E k \in DOMAIN entries : entries[k] = <<>>,
   models |-> [k \in {j \in DOMAIN entries : entries[j] # <<>>} |->
                 InterestStrategy(entries[k])]]

-----------------------------------------------------------------------------
(* getWeftStakingApr *)

PricedPools(q) == DOMAIN q.pools \cap DOMAIN q.prices
DepositUSD(q, k) == PoolStats[q.pools[k]].totalDeposit * q.prices[k]

\* totalLendingDepositsUSD
TotalDeposits(q) == SumFunction([k \in PricedPools(q) |-> DepositUSD(q, k)])

\* Quotients are pairs.  Decimal answers NaN for 0 / 0, and for Infinity, what the other
\* numbers divided by 0 are, times 0.
NaN == <<0, 0>>

\* netLendingApr divides by totalDeposit.
LendingAprNaN(q) == \E k \in PricedPools(q) : PoolStats[q.pools[k]].totalDeposit = 0

\* weighedApr, which is the average times the total: in netLendingApr * depositUSD the
\* deposits cancel out, unless they are 0.
WeighedApr(q) ==
  SumFunction([k \in PricedPools(q) |->
                 LET pool == PoolStats[q.pools[k]] IN
                 pool.borrowingApr * pool.totalLoan * q.prices[k]])

EmptyApr == [apr |-> <<0, 1>>, staked |-> 0, tvl_usd |-> <<0, 1>>]

\* apr but for two constant shares, and tvl_usd, whose numerator is tvl_xrd
AprOf(q, staked) ==
  LET tvl == staked * q.prices[Weft] IN
  [apr |-> IF LendingAprNaN(q) THEN NaN ELSE <<WeighedApr(q), tvl>>, staked |-> staked,
   tvl_usd |-> <<tvl, q.prices[Xusdc]>>]

\* Mutant: nothing staked is divided by
StakingAprUnstaked(q, staked) ==
  IF Weft \notin DOMAIN q.prices THEN EmptyApr ELSE AprOf(q, staked)

StakingApr(q, staked) ==
  IF Weft \notin DOMAIN q.prices \/ staked = 0 THEN EmptyApr ELSE AprOf(q, staked)

-----------------------------------------------------------------------------

Answered(answer) == quote' = [quote EXCEPT !.stage = "answered", !.end = Version,
                                           !.answer = answer]

GotPrices ==
  /\ quote.stage = "reading" /\ quote.call = "prices"
  /\ \E prices \in PricesRead(quote.asked, quote.at, quote.start, Version) : Answered(prices)

GotModels ==
  /\ quote.stage = "reading" /\ quote.call = "models"
  /\ \E r \in Reads(quote.at, quote.start, Version) :
       IF ModelsRead(r).thrown
       THEN quote' = [quote EXCEPT !.stage = "thrown", !.end = Version]
       ELSE Answered(ModelsRead(r).models)

\* Prices and pools are there; without the price of xUSDC or any deposit priced nothing
\* else is asked for.
GotPricesAndPools ==
  /\ quote.stage = "reading" /\ quote.call = "apr"
  /\ \E prices \in PricesRead(<<Weft>> \o SetToSeq(DefaultPools), Live, quote.start, Version),
        r \in Reads(Live, quote.start, Version) :
       LET q == [quote EXCEPT !.prices = prices, !.pools = PoolStates(Live, r)] IN
       IF PoolsThrow(Live, q.pools)
       THEN quote' = [quote EXCEPT !.stage = "thrown", !.end = Version]
       ELSE IF Xusdc \notin DOMAIN prices \/ TotalDeposits(q) = 0 THEN Answered(EmptyApr)
       ELSE quote' = [q EXCEPT !.stage = "staked"]

GotStaked ==
  /\ quote.stage = "staked"
  /\ Answered(StakingApr(quote, MarketAt[Version].staked))

\* A request fails, or a preview's receipt has another status than 'Succeeded'.
QuoteFails ==
  /\ quote.stage \in {"reading", "staked"}
  /\ quote' = [quote EXCEPT !.stage = "failed"]

QuoteStep ==
  QuoteAsked \/ GotPrices \/ GotModels \/ GotPricesAndPools \/ GotStaked \/ QuoteFails

-----------------------------------------------------------------------------

\* The curve of a list of break points: the last one the usage has reached decides.
Curve(bps, usage) ==
  LET bp == bps[Max({i \in DOMAIN bps : bps[i].usage <= usage})] IN
  bp.rate + (usage - bp.usage) * bp.slop

\* Of version v: the default pools that have a price, the interest they take, and that over
\* the value of the stake, or NaN when one of them has no deposits
PoolsOf(v) == DefaultPools \cap DOMAIN MarketAt[v].prices
InterestOf(v) ==
  LET m == MarketAt[v] IN
  SumFunction([k \in PoolsOf(v) |->
                 LET pool == PoolStats[m.pools[k]] IN
                 pool.borrowingApr * pool.totalLoan * m.prices[k]])
RateOf(v) ==
  LET m == MarketAt[v] IN
  IF \E k \in PoolsOf(v) : PoolStats[m.pools[k]].totalDeposit = 0 THEN NaN
  ELSE <<InterestOf(v), m.staked * m.prices[Weft]>>

\* There is a rate: what it takes is priced, deposited and staked at version v.
AprKnown(v) ==
  LET m == MarketAt[v] IN
  /\ {Weft, Xusdc} \subseteq DOMAIN m.prices /\ m.staked # 0
  /\ \E k \in PoolsOf(v) : PoolStats[m.pools[k]].totalDeposit # 0

\* What was read is of one version: the selected one, or the only one there was.
Snapshot == quote.at # Live \/ quote.start = quote.end
QuoteVersion == IF quote.at = Live THEN quote.end ELSE quote.at

\* Live previews in batches and the ledger's price cache give the same prices, those of one
\* version: each price asked for that the ledger has.
PricesSnapshot ==
  LET prices == MarketAt[QuoteVersion].prices IN
  (/\ quote.call = "prices" /\ quote.stage = "answered" /\ Snapshot
   /\ quote.at = Live \/ Cardinality(DOMAIN prices) <= MarketPage) =>
    quote.answer = [k \in ToSet(quote.asked) \cap DOMAIN prices |-> prices[k]]

\* The curves answered are one version's, at every usage, the end included, and the call
\* throws only when one of them has no break points.
CurvesSnapshot ==
  LET models == MarketAt[QuoteVersion].models IN
  (/\ quote.call = "models" /\ quote.stage \in {"answered", "thrown"} /\ Snapshot
   /\ Cardinality(DOMAIN models) <= MarketPage) =>
    IF quote.stage = "thrown" THEN \E k \in DOMAIN models : models[k] = <<>>
    ELSE /\ DOMAIN quote.answer = DOMAIN models
         /\ \A k \in DOMAIN models, u \in 0..FullUsage :
              GetInterestRate(quote.answer[k], u) = Curve(models[k], u)

\* A staking rate is given exactly when there is one, and is that of one version: no number
\* when one of the pools that have a price has no deposits.
RateWhenKnown ==
  quote.call = "apr" /\ quote.stage = "answered" /\ Snapshot =>
    /\ quote.answer # EmptyApr <=> AprKnown(QuoteVersion)
    /\ AprKnown(QuoteVersion) => quote.answer.apr = RateOf(QuoteVersion)

\* The figures read off the market: PricesSnapshot, CurvesSnapshot and RateWhenKnown.
QuotesSnapshot == PricesSnapshot /\ CurvesSnapshot /\ RateWhenKnown
=============================================================================
