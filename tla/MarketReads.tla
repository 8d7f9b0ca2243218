----------------------------- MODULE MarketReads -----------------------------
(***************************************************************************)
(* packages/weft-ledger-state, getMarketInfos with getPoolInfos: the       *)
(* market's component, seven key-value stores and the pools are read at    *)
(* once and put together.  With a ledger state selected all are of it;     *)
(* otherwise each request is answered by the ledger of its moment.  Only   *)
(* the first page of a store is read, keys first and then values.          *)
(***************************************************************************)
EXTENDS Ledger, SequencesExt

CONSTANTS
  MarketAt,      \* [version -> [store, or component -> its content]]
  MarketPage,    \* entries of a store the gateway puts on a page
  DefaultPools,  \* resourceToDuMapping: the pools known to this release
  MaxWindow      \* bound: versions that pass during a call

Stores == {"resources", "collateralConfigs", "loanConfigs", "groups", "loanServices",
           "collateralServices", "poolServices", "pools"}
Global == 0      \* the key of the entry for all resources
GlobalResource == 1
GlobalLSU == 2
GlobalNFT == 3
GlobalClaimNFT == 4
Undefined == 0   \* what getValue and find return when there is nothing

\* Keys are numbered in the gateway's order, and entries are set but never removed.
\* A resource's entry names its loan config, collateral config and efficiency groups; a
\* group names a collateral config.
ASSUME MarketAssumption ==
  /\ MarketPage \in Nat \ {0} /\ MaxWindow \in Nat
  /\ DOMAIN MarketAt = 1..MaxWrites
  /\ \A v \in 1..MaxWrites :
       /\ Stores \cup {"component"} \subseteq DOMAIN MarketAt[v]
       /\ MarketAt[v] = [s \in DOMAIN MarketAt[v] |-> MarketAt[v][s]]
  /\ \A v \in 1..MaxWrites : \A s \in Stores :
       /\ DOMAIN MarketAt[v][s] \subseteq Nat /\ IsFiniteSet(DOMAIN MarketAt[v][s])
       /\ MarketAt[v][s] = [k \in DOMAIN MarketAt[v][s] |-> MarketAt[v][s][k]]
       /\ v > 1 => DOMAIN MarketAt[v - 1][s] \subseteq DOMAIN MarketAt[v][s]

VARIABLES market

MarketInit ==
  market = [stage |-> "idle", at |-> Live, start |-> 0, end |-> 0, info |-> <<>>]

\* getMarketInfos is called and sends its requests.
MarketAsked ==
  /\ market.stage = "idle"
  /\ \E at \in {Live} \cup 1..Version :
       market' = [market EXCEPT !.stage = "reading", !.at = at, !.start = Version]

-----------------------------------------------------------------------------
(* The reads *)

FirstPage(keys) == {k \in keys : Cardinality({j \in keys : j <= k}) <= MarketPage}

\* KeyValueStore.init: the first page of the keys at a version, their values at a version
FirstEntries(s, r) ==
  [k \in FirstPage(DOMAIN MarketAt[r.keys][s]) |-> MarketAt[r.data][s][k]]

\* Mutant: getMarketInfos forgets to hand the selector on to getPoolInfos
PoolsSelectorForgotten(at) == Live

\* getMarketInfos hands its selector on to getPoolInfos.
PoolsSelector(at) == at

\* The versions at which the requests of a read may be answered between two versions
Reads(at, start, end) ==
  IF at # Live THEN {[keys |-> at, data |-> at]}
  ELSE {r \in [keys : start..end, data : start..end] : r.keys <= r.data}

\* getResourcePoolAtLedgerState reads a store; getResourcePoolLive asks a preview
\* transaction for the default pools.
PoolStates(at, r) ==
  IF at # Live THEN FirstEntries("pools", r)
  ELSE [p \in DefaultPools \cap DOMAIN MarketAt[r.data].pools |-> MarketAt[r.data].pools[p]]

\* At a ledger state, a pool this release does not know is an exception; live, one of
\* its pools the ledger does not have (its variant_id '0' is compared with the number 0).
PoolsThrow(at, pools) ==
  IF at # Live THEN ~(DOMAIN pools \subseteq DefaultPools)
  ELSE ~(DefaultPools \subseteq DOMAIN pools)

-----------------------------------------------------------------------------
(* Putting it together *)

GetValue(f, k) == IF k \in DOMAIN f THEN f[k] ELSE Undefined

\* The dereference of an entry that is not there (`!.entry')
Dangles(m) ==
  \E k \in DOMAIN m.resources :
    LET c == m.resources[k] IN
    \/ c.loan # Undefined /\ c.loan \notin DOMAIN m.loanConfigs
    \/ c.collateral # Undefined /\ c.collateral \notin DOMAIN m.collateralConfigs
    \/ \E g \in c.groups : g \notin DOMAIN m.groups
                             \/ m.groups[g] \notin DOMAIN m.collateralConfigs

\* pools.find(...), with the service status of the resource
LendingPool(m, k) ==
  IF k \in DOMAIN m.pools
  THEN [state |-> m.pools[k], serviceStatus |-> GetValue(m.poolServices, k)]
  ELSE [state |-> Undefined, serviceStatus |-> Undefined]

LoanResource(m, k) ==
  [resourceAddress |-> k,
   riskConfig |-> m.loanConfigs[m.resources[k].loan],
   services |-> GetValue(m.loanServices, k),
   lendingPoolState |-> LendingPool(m, k)]

CollateralResource(m, k) ==
  [resourceAddress |-> k,
   riskConfig |-> m.collateralConfigs[m.resources[k].collateral],
   services |-> GetValue(m.collateralServices, k),
   efficiencyConfigs |-> [g \in m.resources[k].groups |-> m.collateralConfigs[m.groups[g]]]]

\* The names of the global collateral services are permuted in the code.
MarketInfos(m) ==
  [loanResources |->
     {LoanResource(m, k) : k \in {j \in DOMAIN m.resources : m.resources[j].loan # Undefined}},
   collateralResources |->
     {CollateralResource(m, k) :
        k \in {j \in DOMAIN m.resources : m.resources[j].collateral # Undefined}},
   marketConfig |-> m.component,
   globalLendingService |-> GetValue(m.poolServices, Global),
   globalLoanService |-> GetValue(m.loanServices, Global),
   resource |-> GetValue(m.collateralServices, GlobalResource),
   lsu |-> GetValue(m.collateralServices, GlobalNFT),
   nft |-> GetValue(m.collateralServices, GlobalClaimNFT),
   claimNft |-> GetValue(m.collateralServices, GlobalLSU)]

\* What the reads return, pools being read at p, the component and stores at r
ReadMarket(at, r, p) ==
  [s \in Stores \cup {"component"} |->
     IF s = "component" THEN MarketAt[r[s].data].component
     ELSE IF s = "pools" THEN PoolStates(PoolsSelector(at), p)
     ELSE FirstEntries(s, IF s = "poolServices" THEN p ELSE r[s])]

\* Every request has been answered; the answers are put together or an exception is
\* thrown. getPoolInfos' two requests count as one: nothing compares their versions.
MarketAnswered ==
  /\ market.stage = "reading"
  /\ LET window == Reads(market.at, market.start, Version) IN
     \E r \in [(Stores \ {"poolServices", "pools"}) \cup {"component"} -> window],
        p \in Reads(PoolsSelector(market.at), market.start, Version) :
       LET m == ReadMarket(market.at, r, p)
           thrown == \/ PoolsThrow(PoolsSelector(market.at), m.pools)
                     \/ m.component = Undefined
                     \/ Dangles(m) IN
       market' = [market EXCEPT !.stage = IF thrown THEN "thrown" ELSE "answered",
                                !.end = Version,
                                !.info = IF thrown THEN <<>> ELSE MarketInfos(m)]

\* A request fails, and with it the call.
MarketFails ==
  /\ market.stage = "reading"
  /\ market' = [market EXCEPT !.stage = "failed"]

MarketStep == MarketAsked \/ MarketAnswered \/ MarketFails

-----------------------------------------------------------------------------

\* The market at version v as getMarketInfos should see it: whole stores, and of the
\* pools, live, those of this release
MarketOf(at, v) ==
  [MarketAt[v] EXCEPT
     !.pools = IF at = Live THEN [p \in DefaultPools \cap DOMAIN @ |-> @[p]] ELSE @]

OnePage(v) == \A s \in Stores : Cardinality(DOMAIN MarketAt[v][s]) <= MarketPage

\* Sixteen requests answered on their own are put together as one version of the ledger:
\* the selected one, however the ledger moves on meanwhile, or the only one there was.
\* As long as the stores fit on a page the call throws for none but what that version
\* lacks, and gives everything that version has.
MarketSnapshot ==
  LET v == IF market.at = Live THEN market.end ELSE market.at
      m == MarketOf(market.at, v) IN
  (/\ market.stage \in {"thrown", "answered"}
   /\ market.at # Live \/ market.start = market.end
   /\ OnePage(v)) =>
    /\ market.stage = "thrown" =>
         m.component = Undefined \/ Dangles(m) \/ PoolsThrow(market.at, m.pools)
    /\ market.stage = "answered" => market.info = MarketInfos(m)
=============================================================================
