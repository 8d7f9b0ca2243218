---------------------------- MODULE PriceUpdater ----------------------------
(***************************************************************************)
(* services/price-updater: one price update.  The plugins are asked in a   *)
(* fixed order for the assets no earlier one has answered validly, then    *)
(* the first USD price answered is taken for the XRD/USD rate, and then    *)
(* each asset takes its first feed with an answer that is valid by now.    *)
(* Time passes between the steps, so an answer valid when it came may be   *)
(* stale when it is used.                                                  *)
(***************************************************************************)
EXTENDS Decimals

CONSTANTS
  Assets,      \* the sequence ASSETS
  Fixed,       \* those with a fixedPriceXrd
  Xrd,         \* the asset that is XRD
  Feeds,       \* per asset, its priceFeeds: a sequence of [plugin, id]
  Plugins,     \* the sequence PLUGIN_PRIORITY
  Currency,    \* per plugin, "USD" or "XRD"
  RawPrices,   \* per plugin and id, the raw prices it may answer with
  Scale,       \* NORMALIZED_SCALE, 18 in the code
  MaxAge,      \* PYTH_MAX_AGE_SEC; 0 when it is not set
  MaxTime      \* bound: seconds an update may take, and the age of answers

AssetSet == ToSet(Assets)
PluginSet == ToSet(Plugins)
Ids == {f.id : f \in UNION {ToSet(Feeds[a]) : a \in AssetSet}}

ASSUME ScaleAssumption == Scale \in Nat /\ MaxAge \in Nat /\ MaxTime \in Nat \ {0}
ASSUME PluginAssumption ==
  /\ Plugins \in Seq(PluginSet) /\ IsInjective(Plugins)
  /\ "none" \notin PluginSet
  /\ Currency \in [PluginSet -> {"USD", "XRD"}]
ASSUME AssetAssumption ==
  /\ Assets \in Seq(AssetSet)
  /\ Fixed \subseteq AssetSet
  /\ \A a \in AssetSet : Feeds[a] \in Seq([plugin : PluginSet, id : Ids])
ASSUME RawAssumption ==
  \A p \in PluginSet : \A id \in Ids : RawPrices[p][id] \subseteq [m : Nat, e : Nat]

\* In ASSETS the feeds of an asset are of different plugins, in the order of their priority,
\* and assets that share a feed share those before it.
ASSUME FeedsAssumption ==
  /\ \A a \in AssetSet : \A i, j \in DOMAIN Feeds[a] : \A m, n \in DOMAIN Plugins :
       i < j /\ Feeds[a][i].plugin = Plugins[m] /\ Feeds[a][j].plugin = Plugins[n] => m < n
  /\ \A a, b \in AssetSet : \A i \in DOMAIN Feeds[a], j \in DOMAIN Feeds[b] :
       Feeds[a][i] = Feeds[b][j] => i = j /\ \A k \in 1..i : Feeds[a][k] = Feeds[b][k]

VARIABLES
  phase,      \* where executePriceUpdate is
  now,        \* seconds on the clock
  asked,      \* plugins already asked
  caches,     \* pluginCaches: per plugin, its answers in the order it gave them
  resolved,   \* assets with an answer that was valid when it came
  reference,  \* xrdUsdResult: the answer taken for the XRD/USD rate
  done,       \* assets gone through
  prices      \* the result, in the order of the assets

vars == <<phase, now, asked, caches, resolved, reference, done, prices>>

\* publishTime 0 stands for an answer without one.
Answers == [plugin : PluginSet, id : Ids, raw : [m : Nat, e : Nat], publishTime : 0..MaxTime]
NoAnswer == [plugin |-> "none", id |-> "none", raw |-> [m |-> 0, e |-> 0], publishTime |-> 0]

TypeOK ==
  /\ phase \in {"fetching", "resolving", "returned", "thrown"}
  /\ now \in 1..MaxTime
  /\ asked \in 0..Len(Plugins)
  /\ caches \in [PluginSet -> Seq(Answers)]
  /\ resolved \subseteq AssetSet
  /\ reference \in Answers \cup {NoAnswer}
  /\ done \in 0..Len(Assets)
  /\ \A p \in ToSet(prices) :
       p.asset \in AssetSet /\ p.source \in Answers \cup {NoAnswer} /\ p.at \in 1..MaxTime

Init ==
  /\ phase = "fetching"
  /\ now \in 1..MaxTime
  /\ asked = 0
  /\ caches = [p \in PluginSet |-> <<>>]
  /\ resolved = {}
  /\ reference = NoAnswer
  /\ done = 0
  /\ prices = <<>>

-----------------------------------------------------------------------------
\* Mutant: the age is not looked at
IsValidAlways(answer) == TRUE

\* isResultValid: only Pyth has one, and answers without a time pass.
IsValid(answer) ==
  \/ answer.plugin # "pyth" \/ MaxAge = 0 \/ answer.publishTime = 0
  \/ now - answer.publishTime <= MaxAge

\* What the plugin makes of a raw price
Text(answer) ==
  IF answer.plugin = "pyth" THEN FormatScaledValue(answer.raw) ELSE NumberText(answer.raw)

\* An asset's feed of a plugin: priceFeeds.find
FeedsOf(a, p) == {Feeds[a][k] : k \in {k \in DOMAIN Feeds[a] : Feeds[a][k].plugin = p}}

\* The ids a plugin is asked for, each with the first asset that wants it
Wanting(p, id) == {a \in AssetSet \ resolved : \E f \in FeedsOf(a, p) : f.id = id}
Wanted(p) == {id \in Ids : Wanting(p, id) # {}}
Rank(p, id) == Min({k \in DOMAIN Assets : Assets[k] \in Wanting(p, id)})

\* Mutants: of the assets that share an id only the first is marked; every asset the
\* plugin was asked for is
ResolvedFirst(p, answers) ==
  {Assets[Rank(p, x.id)] : x \in {x \in answers : IsValid(x)}}

ResolvedAll(p, answers) == UNION {Wanting(p, id) : id \in Wanted(p)}

Resolved(p, answers) == UNION {Wanting(p, x.id) : x \in {x \in answers : IsValid(x)}}

\* CoinGecko gives no time; the others do, if their source did. Those of CaviarNine and
\* Astrolescent are handed on with the price, however old they are.
AnswersOf(p, id) ==
  {[plugin |-> p, id |-> id, raw |-> r, publishTime |-> t] :
     r \in RawPrices[p][id], t \in IF p = "coingecko" THEN {0} ELSE 0..now}

\* The order in which a plugin's answers are cached: Pyth's as its service lists them,
\* CaviarNine's as its requests end, the others' as they were asked for.
Orders(p, answers) ==
  {order \in SetToSeqs(answers) :
     \/ p \in {"pyth", "caviarnine"}
     \/ \A i, j \in DOMAIN order : i < j => Rank(p, order[i].id) <= Rank(p, order[j].id)}

\* A plugin answers for some of the ids; for none when its request fails or times out,
\* for each plugin catches its errors.
Ask ==
  /\ phase = "fetching"
  /\ asked < Len(Plugins)
  /\ asked' = asked + 1
  /\ LET p == Plugins[asked + 1] IN
     \E answers \in SUBSET UNION {AnswersOf(p, id) : id \in Wanted(p)} :
       /\ \A x, y \in answers : x.id = y.id => x = y
       /\ \E order \in Orders(p, answers) : caches' = [caches EXCEPT ![p] = order]
       /\ resolved' = resolved \cup Resolved(p, answers)
  /\ UNCHANGED <<phase, now, reference, done, prices>>

Tick ==
  /\ phase \in {"fetching", "resolving"}
  /\ now < MaxTime
  /\ now' = now + 1
  /\ UNCHANGED <<phase, asked, caches, resolved, reference, done, prices>>

\* findXrdUsdPrice: the first USD price in the caches, whatever it is the price of
UsdCaches == {k \in DOMAIN Plugins : Currency[Plugins[k]] = "USD" /\ caches[Plugins[k]] # <<>>}

FindXrdUsdPrice ==
  /\ phase = "fetching"
  /\ asked = Len(Plugins)
  /\ \/ /\ UsdCaches = {}
        /\ phase' = "thrown"
        /\ UNCHANGED reference
     \/ /\ UsdCaches # {}
        /\ phase' = "resolving"
        /\ reference' = Head(caches[Plugins[Min(UsdCaches)]])
  /\ UNCHANGED <<now, asked, caches, resolved, done, prices>>

\* The places in an asset's feeds where there is a cached answer, valid by now
Usable(a) ==
  {k \in DOMAIN Feeds[a] :
     \E x \in ToSet(caches[Feeds[a][k].plugin]) : x.id = Feeds[a][k].id /\ IsValid(x)}

\* resolveAssetPrice: the first feed
Quote(a) ==
  CHOOSE x \in ToSet(caches[Feeds[a][Min(Usable(a))].plugin]) : x.id = Feeds[a][Min(Usable(a))].id

Push(a, source, price) ==
  prices' = Append(prices, [asset |-> a, source |-> source, price |-> price, at |-> now])

\* The rate, or a price, that reads as zero or cannot be read is an exception.
Convertible(answer) ==
  /\ Readable(Text(answer))
  /\ Readable(Text(reference))
  /\ Parse(Text(reference), Scale) # 0

PriceOf(answer) ==
  IF Currency[answer.plugin] = "XRD" THEN Text(answer)
  ELSE NormalizeUsdToXrd(Text(answer), Text(reference), Scale)

PriceAsset ==
  /\ phase = "resolving"
  /\ done < Len(Assets)
  /\ LET a == Assets[done + 1] IN
     \/ /\ a \in Fixed
        /\ Push(a, NoAnswer, <<"1">>)
        /\ UNCHANGED phase
     \/ /\ a \notin Fixed /\ Usable(a) = {}
        /\ UNCHANGED <<phase, prices>>
     \/ /\ a \notin Fixed /\ Usable(a) # {}
        /\ IF Currency[Quote(a).plugin] = "XRD" \/ Convertible(Quote(a))
           THEN Push(a, Quote(a), PriceOf(Quote(a))) /\ UNCHANGED phase
           ELSE phase' = "thrown" /\ UNCHANGED prices
  /\ done' = done + 1
  /\ UNCHANGED <<now, asked, caches, resolved, reference>>

Return ==
  /\ phase = "resolving"
  /\ done = Len(Assets)
  /\ phase' = IF prices = <<>> THEN "thrown" ELSE "returned"
  /\ UNCHANGED <<now, asked, caches, resolved, reference, done, prices>>

Next == Ask \/ Tick \/ FindXrdUsdPrice \/ PriceAsset \/ Return

Spec == Init /\ [][Next]_vars
FairSpec == Spec /\ WF_vars(Ask \/ FindXrdUsdPrice \/ PriceAsset \/ Return)

-----------------------------------------------------------------------------
(* Properties *)

Priced == {p.asset : p \in ToSet(prices)}

\* An asset left out of an update has no answer that could have been used, and if a
\* plugin did answer validly for it, so that the later ones were not asked, then that
\* answer went stale between its arrival and its use. Nothing else loses a price.
DroppedOnlyIfStale ==
  phase = "returned" =>
    \A a \in AssetSet \ Priced :
      /\ Usable(a) = {}
      /\ a \in resolved =>
           \E f \in ToSet(Feeds[a]) : \E x \in ToSet(caches[f.plugin]) :
             x.id = f.id /\ x.publishTime # 0 /\ now - x.publishTime > MaxAge

\* Wrapped assets of one currency share feeds. In one update they get one price: when
\* one is priced from a feed they share, the other is priced from it too, or left
\* out, but not from another feed, though time passed and the answer went stale.
PegsAgree ==
  \A p, q \in ToSet(prices) :
    (\E f \in ToSet(Feeds[p.asset]) \cap ToSet(Feeds[q.asset]) :
       f.plugin = p.source.plugin /\ f.id = p.source.id)
    => q.source = NoAnswer \/ q.source = p.source

\* No number that is a USD price is below 10^-6, from where on NumberText has an exponent,
\* which the parser reads as digits.
NoneTiny ==
  \A p \in PluginSet \ {"pyth"} : Currency[p] = "USD" =>
    \A id \in Ids : \A raw \in RawPrices[p][id] :
      raw.m = 0 \/ raw.e <= 6 \/ Power[raw.e - 6] <= raw.m

\* A price made of a USD price is, as it reads at the oracle, the quotient of the two
\* raw prices cut off at Scale digits: no digit is lost or shifted on the way from
\* numbers to texts to integers and back.
UsdConverted ==
  \A p \in ToSet(prices) :
    p.source # NoAnswer /\ Currency[p.source.plugin] = "USD" =>
      LET price == Parse(p.price, Scale)
          rate  == Worth(reference.raw, Scale)
      IN  /\ price * rate <= Worth(p.source.raw, Scale) * Power[Scale]
          /\ Worth(p.source.raw, Scale) * Power[Scale] < (price + 1) * rate

\* A price of Pyth, the one source whose age is limited, was still within its age when it
\* was put in the update, not only when it was fetched. Of the others nothing is said:
\* CaviarNine and Astrolescent give times as well, which nobody looks at; nor does
\* findXrdUsdPrice look at the age of the rate.
FreshWhenPriced ==
  \A p \in ToSet(prices) :
    p.source.plugin = "pyth" /\ MaxAge # 0 /\ p.source.publishTime # 0
      => p.at - p.source.publishTime <= MaxAge

\* "price: string // Final price in XRD" (services/price-updater/src/price-service.ts:23)
\* needs a rate that is XRD's: the answer taken for it is to a feed of XRD.
ReferenceIsXrd ==
  reference # NoAnswer =>
    \E f \in ToSet(Feeds[Xrd]) : f.plugin = reference.plugin /\ f.id = reference.id
=============================================================================
