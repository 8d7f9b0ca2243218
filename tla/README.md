# Weft backend services: models, checks and proofs

The repository is a TypeScript monorepo: four services around a lending protocol on the
Radix ledger, their AWS wrappers, and the packages they use to read the ledger and to sign
transactions. Every so often the **dispatcher** lists all collateralised debt positions
(CDPs) and puts chunks of their ids on the indexer queue (SQS). **Indexer** containers
take the chunks, look the CDPs up on the ledger, store them in S3 and put the ones at risk
on the liquidation queue, which the **liquidator** Lambda consumes. Apart from them, the
**price updater** gathers prices from four sources and makes the transaction manifest that
updates the oracle.

This directory holds TLA+ models of that code, the TLC runs that check them and TLAPS
proofs about them. `PROJECT.json` maps each definition to the lines it models, and lists
runs, mutants (a plausible bug per property, which the run must catch), hazards, findings
and theorems.

    cd tla
    tlc -workers 2 -config MCIndexerWorker.cfg MCIndexerWorker.tla
    tlapm IndexerWorkerProofs.tla

## The system

| component | state it keeps | operations | what is hard | what makes it correct |
|---|---|---|---|---|
| Dispatcher (`services/dispatcher`, `aws-wrappers/dispatcher-lambda`) | within a run: the ids, the loop index, the entries to retry | invocation, fetch, batches of ten, one retry of failed entries | calls that accept part of a batch, a kill between batches, rejected entries | a run that answers 200 forgot no CDP and sent none twice; batches leave no gaps |
| Indexer worker (`services/indexer`, `aws-wrappers/indexer-container`) | `shouldRun`, the messages being processed; on the outside the queue, S3 and the liquidation queue | `runForever`/`runOnce`, `processMessage`, delete, `stop` | redelivery while a message is being processed, crashes and failures between any two calls, poison messages, key collisions, half-accepted sends | a message goes only after its data was stored and its alerts were sent; an alert only after its data; chunks given up have no effect; healthy messages get through |
| CDP lookup (`getMultipleCdp`, `fetchCdpDetails`) | the recursion of ranges and their previews, the progress counter | previews sent concurrently, bisection after a failure, merge | one failure among concurrent previews, CDPs nobody can read, previews at different ledger versions | each CDP is accounted for once, only guilty CDPs fail, progress adds up, it returns |
| CDP listing (`getCdpIds`) | cursor and pinned version | page of ids, locations of the page | ids and locations are of different versions | no CDP alive throughout is missed |
| Price updater (`services/price-updater`) | the caches of the plugins, resolved assets | ask the plugins in order, find the XRD/USD rate, price each asset | plugins that answer partly or not at all, answers going stale, shared feeds, decimal arithmetic | fresh prices where the age is checked, equal prices for equal feeds, exact conversion, nothing dropped without reason |
| Liquidator (`services/liquidator`, `aws-wrappers/liquidator-lambda`) | none | a batch of records, each succeeds or is named in the answer | one record failing among many | exactly the failed records are retried |
| Environment (`packages/common-utils`) | cache of SSM parameters, per container | `createEnvFactory`, `require`, `optional` | a failed request is logged and never repeated | a secret that exists is found in the end |
| State fetcher (`packages/state-fetcher`) | per entity: values, cursor and version, `initialized` | `init`, `loadMore`, recursive loading | pages over a moving ledger, promises nobody awaits, calls that overlap | the values are one version of the ledger, and all of it when it says so |
| Metadata service (`metadata-service.ts`) | resource cache with expiry, validator cache | `getResourceDetails`, `clearCache` | concurrent requests and clears | nothing older than the last clear is returned |
| Market, pool, staking, resource reads (`packages/weft-ledger-state/src/api`) | none; they join reads | `getMarketInfos`, `getPrice`, `getInterestModels`, `getWeftStakingApr`, `getResourceInfos` | many requests, each at the ledger of its moment, that refer to each other; piecewise curves | a record is of one version of the ledger, and whole |
| CDP decoder | none | decoding of the ledger's records | missing fields | |
| Wallet (`packages/typescript-wallet`) | a polling loop | submit, poll with back-off and timeout | a timeout racing with the commit | a caller who is told "failed" does not act on a committed transaction |
| Manifest builder | list of instructions | builder methods | formatting | |

They interact through the two SQS queues (dispatcher to indexer to liquidator), through
plain calls (worker to `fetchCdpDetails` to `getMultipleCdp`, with a progress callback
back; Lambda to `executePriceUpdate`), and through the ledger, which changes under all of
them. There is no shared memory between services. Within one Node.js process, steps
interleave at every `await`, which is where the models cut handlers into actions.

## The modules

`Dispatcher`. One action per await of the handler: `Invoke`, `Fetch`
(`fetchAndBatchCdpIds`), `SendBatch` and `RetryBatch` (`sendBatch`; SQS accepts any of the
entries, fails any others, rejects the rest), and `Throw` for calls that throw, or a Lambda
that is killed, after SQS accepted any part of what it was offered. The code that follows
the answer, up to the next await, is part of the action. Chunks are operators
(`Slice`, `Chunk`, `Entries`) over the id list, with the code's bounds. Invocations follow
one another in the model; two that overlap share nothing but the queue, where messages
carry their run's id.

`CdpListing`. `getCdpIds`, which `Dispatcher` extends and composes: `ListPage` answers a page
of ids at the version the first page pinned, `LocatePage` the locations of that page at the
ledger of the day, and `LedgerMoves` mints or burns a CDP between any two calls. Moves between
runs are left out, because the listing reads whatever ledger it finds; how many CDPs there are
at first is any number. The abstract promise is about the CDPs alive throughout,
`AliveThroughout`, which `NothingForgotten` relates to what is on the queue at the end.

`IndexerWorker`. Several workers and an SQS queue. `loop` is the place of `runForever`
(polling, working on a batch, sleeping after an error, exited); `job[w][m]` is the place of
`processMessage` plus delete for message m in worker w, named by the call it awaits:
fetch, put, send, delete. Each call has its success (`Fetched`, `Put`, `Send`, `Delete`)
and its failure (`FetchFailed`, `PutFailed`, ...), where a failed call may have had its
effect. `VisibilityTimeout` makes a message visible again, even while it is being
processed; the receipts out then are stale (`current`), and a delete with one does nothing.
`Crash` replaces a container. A body is a chunk, one the code drops with success
("unreadable") or the JSON text `null`, which throws before the `try` block. Whether a CDP
is at risk is judged anew at each fetch, any way, and the S3 key is the millisecond in which the
fetch ended (`Times`): a key already in use, or about to be, may come up again (`Keys`), and
then one put replaces the other's data (`Write`). So what S3 holds (`objects`) differs from what
was ever put there (`written`); likewise SendMessageBatch accepts any of a call's entries
(`alerts`) and lists the others as failed (`refused`), which the code does not look at.

`AlertContract`. What the indexer promises, without workers, loops, receipts or batches: a
chunk is retired only when its data was archived and the CDPs its attempt in charge found at
risk were handed over, and those of archived chunks only are handed over.
`IndexerWorker!MeetsContract` is the refinement; the mapping takes the verdict of a chunk from
the attempt that holds its last receipt, and forgets it when that attempt ends or loses its
claim. Archived is what was ever put in S3, handed over what SendMessageBatch was offered: the
contract is about what the workers do, and leaves out what S3 and SQS do with it unnoticed.

`CdpLookup`. A range of the list is a pair of bounds. `stage` is the call of
`cdpRecursiveIndexer` for it; `Preview` and `PreviewFailed` are the answers of the
concurrent previews, in any order, read at the ledger's version of that moment; the last
answer decodes and returns, or gives up (`GiveUp`): the catch block, which halves the
range. A range given up drops the answers it had; those of its previews still under way
have no effect and are not modelled. `Join` is the `Promise.all` of the halves. An empty
list, which returns at once with nothing, is left out.

`Decimals`. Texts, digit by digit, since the properties are about them:
`parseDecimalToBigInt`, `formatBigIntToDecimal`, `trimTrailingZeros`,
`normalizeUsdToXrd`, `formatScaledValue`, and JavaScript's number-to-text. Loops over
characters and powers are recursive functions, so that they can be proved about.

`PriceUpdater`. `Ask` is one turn of `prefetchAllPluginData`: the next plugin answers for any
of the ids it was asked for, with any of its raw prices and any publishing time so far, or
none; CoinGecko gives none. Only Pyth's are looked at (`IsValid`): those of CaviarNine and
Astrolescent, as in the code, go into the update however old they are. `FindXrdUsdPrice`,
`PriceAsset` (one turn of the loop over the assets) and `Return` are the rest of
`executePriceUpdate`; `Tick` lets time pass anywhere. Each plugin catches its own errors, so a
failed request is an empty answer. A plugin that is asked for nothing answers nothing. Pyth's
and CaviarNine's answers are cached in any order, since the order is that of the service's list
or of requests ending.

`EntityState` and `ResourceInfos`. `fetchEntityState` with the two kinds of collections,
`fetchResourceState`, and `getResourceInfos` on top. `FetchEntities` is the answer for a
batch of addresses; each holding starts with the page that came with it, waits for the
second (`awaited`), and recurses into the later ones with nobody waiting (`LoadPage`,
`PageFails`, with `lost` for a page whose failure nobody hears of). When the tasks have
settled (`AfterTasks`) the next batch is asked for, then the details of all resources held
by then (`DescribeResources`). Pages that are late come in between any two of these steps.
`StartTasks` is what runs, without an await, when `fetchEntityState` has returned: each
component's resources are put into classes and its task adds its validators to the shared
set. `Enrich` is the answer to a task.

`Ledger`, `KeyValueStore`, `NftData`, `MarketReads`, `MarketQuotes` and `LedgerReads`. The
ledger is a sequence of writes; a request names a version or gets the latest.
`KeyValueStore` has `init` and `loadMore` as calls that may overlap, each of two requests
(`GotKeys`, which moves the cursor, and `GotData`). `NftData` is `fetchNftData`: from the
end of the list, in batches, data and then locations. `MarketReads` is `getMarketInfos`:
since none of its requests depends on another, they are answered in one action, each at any
version between the call's beginning and end; `MarketInfos` is the join, `Dangles` and
`PoolsThrow` are its exceptions. `MarketQuotes` reads prices (`getPrice`, from the price
store's first page or live by previews in batches), interest curves (`InterestStrategy`)
and the staking rate (`getWeftStakingApr`, whose last request depends on the first ones). Rates
are quotients, and a lending rate, which divides by the pool's deposits, is `NaN` without any.
`LedgerReads` composes them over one ledger and follows one at a time: they share nothing.

`MetadataService`. `Ask` is `getResourceDetails` up to its first await, `GotBatch` and
`GotValidators` are the answers; the last batch's answer includes all that follows it
(`Collect`). The three caches are `cache`, which expires, `infos` and `validators`.
Requests overlap, and `ClearCache` may come between any two steps. The cache is that of
`LocalStorageCacheStrategy`, which stores copies; `InMemoryCacheStrategy` differs by
sharing objects between answers.

`Liquidator`. The Lambda's containers, with the environment promise each makes when it
starts, the invocation it runs (`batch`, `open`, `failures`), and the queue, where a
message is visible, received or deleted. `ProcessRecord` settles one record, in any order;
`Return` is the answer and what SQS does with it. `Crash` and `TimesOut` are faults.

`TransactionWallet`. The code's delays in whole seconds: `Prepare` and `Submitted` lead to
the polling, in which `DelayOver` asks for the status, `StatusAnswered` ends it or computes
the next delay, and `TimeoutPasses` drops an answer under way. `Decide` is the ledger,
which commits within the epochs the header names. `job` tells a plain manifest from a
deployment, which goes on to ask for the details of the commit.

The `MC...` modules give the constants. The `...Proofs` modules hold the theorems: one for
each of `IndexerWorker` (with `AlertContract`), `CdpLookup`, `TransactionWallet`,
`MetadataService`, `PriceUpdater` (with `Decimals`), `LedgerReads` and `ResourceInfos` (with
the modules these two compose), and `LambdaProofs` for the two Lambdas, `Dispatcher` (with
`CdpListing`) and `Liquidator`.

## The runs

| run | question | instance |
|---|---|---|
| `dispatcher` | nothing alive throughout forgotten, nothing burned revived, nothing sent twice, chunks disjoint, no gaps, every run ends | up to 5 CDPs, pages of 3, 2 mints or burns per listing, 2 CDPs per chunk, 2 entries per call, 2 invocations |
| `indexer` | `StoredBeforeAlert`, `ExitsClean`, `AttemptInv`, `MeetsContract` | 2 workers, 2 messages (chunk of two CDPs, unreadable body), 1 entry per send so that sends take two calls, 3 milliseconds for the S3 keys, 2 faults |
| `indexer_live` | `GivenUpWhole`: poison chunks and null bodies leave no trace and stay; healthy chunks get through next to them; a stopped worker leaves | 2 workers of which one may be stopped, a healthy chunk, a chunk with a poison CDP, a null body, 1 fault |
| `indexer_dropped` (violated) | a chunk is deleted only when its alerts are on the queue | one chunk of two CDPs, 1 fault |
| `cdp_lookup` | accounting, blame, progress, return | 7 CDPs, previews of 2, one poison and one undecodable CDP, 2 transient failures, 2 ledger versions |
| `price_update` | reasons for missing prices, shared feeds, exact conversion, freshness of Pyth's prices | XRD, two tokens that share feeds, one token without Pyth; the four plugins; 4 seconds with a maximal age of 1; scale 4 |
| `price_reference` (violated) | the XRD/USD rate is XRD's | the same |
| `resource_infos` | what an entity holds is of one version; the answer is whole; pages nobody waits for arrive | 4 addresses, one twice, two that may not exist, batches of 2, holdings of up to 3 pages, 2 ledger versions, 2 failures |
| `ledger_reads` | values are of the selected version, stores are whole, NFTs come once, the market and its figures are snapshots | 3 keys in pages of 1, 2 calls at once, 5 versions; 5 NFT ids with repetitions in batches of 2; stores in pages of 3, prices in batches of 2, a call seeing up to 2 versions |
| `resource_caches` | the cache is complete, answers agree, a quiet clear leaves nothing old | 3 resources of which two share a validator, batches of 2, 2 requests, 3 ticks with a TTL of 1, 1 failure, 1 clear |
| `liquidator` | only what was processed leaves; what is healthy does leave | 2 containers, 3 messages (a CDP, no CDP id, `null`), batches of 2, 2 deaths or timeouts |
| `wallet` | what the caller is told holds for good; a status final in time is seen | the code's interval 1, multiplier 2, maximal delay 5 and timeout 60, answers within 2 s, epochs of 25 s, 66 s in all |

Why these bounds are enough. The dispatcher looks at one batch at a time: two batches show a
batch followed by another, a short last chunk and a short last batch; five CDPs in pages of
three are two pages, the last short or, with three CDPs, full, and two moves are a mint and a
burn, or two burns, on either side of any call. Its second invocation shows messages of two
runs on one queue. In the worker, what matters is two attempts on one message (two workers, or
one worker again after a redelivery), two messages in one batch, a send of more than one call,
and a fault in the recovery from a fault; two faults are a redelivery during processing plus a
crash or failure, or two attempts on a message of which the second's put replaces the first's
object. The poison chunk and the null body, whose attempts end before any effect, are in the
other run, with the healthy chunk they must not hold up. Seven CDPs in previews of two make
four concurrent previews at the root, bisection to single CDPs along uneven halves on the side
of the two faulty CDPs, and a healthy half of two previews on the other, which only transient
failures split. In the price update each rule has an asset that needs it; scale 4 instead of 18
has the same cases (texts shorter and longer than the scale, quotients cut off).

Three pages of a holding are the first, the one waited for and one nobody waits for; more
would only repeat the last. Three entries one to a page make two calls overlap on the same
page and on pages that follow each other, while the ledger inserts keys before and behind
the cursor. The NFT list has repetitions within and across batches. The market's five
versions lack a config and a pool, are whole, change entries that belong together, get a
pool the release does not know, and outgrow a page; there is a staking rate at the last two, at
one of them NaN; what two requests see differently
shows with two versions. Two requests, one of them for a part of the other's resources,
show each order of filling the caches. Epochs of 25 seconds instead of minutes let a
transaction expire while it is polled.

The theorems below need none of these bounds.

Bounds in the models: `MaxRuns` (invocations), `MaxMoves` (mints and burns during a listing),
`MaxCdps`, `MaxFaults` (failed calls, crashes, untimely redeliveries; in the worker also sends
accepted in part and keys that collide), `Times` (the milliseconds of S3 keys, as many as
attempts can get there: a further one takes a fault), `MaxVersion` and `MaxWrites` (ledger
versions), `MaxWindow` (versions that pass during a call of the market), `MaxClears`, `MaxTime`
(clock). Deadlock is checked for the liquidator, whose containers always can be started or go
on. Elsewhere the models stop when their bounded work is done (all runs over, all workers
stopped, a call returned), as do a Lambda and a call.

Fairness. `Dispatcher`: a started invocation runs on; each await of the SDK settles or the
Lambda times out; a ledger that moves does not count as its progress.
`IndexerWorker`: each await of `processMessage` settles, the loop goes on
after a settled batch, a sleep or an empty poll, and a lapsed delivery becomes visible
(weak fairness each). Strong fairness is assumed of SQS handing out a given visible message
to some worker that polls: a message is visible again and again, but polls may come when it
is not, or return others. Nothing is assumed of arrivals, stops, crashes or failures; the
number of faults is finite, because a call that always fails defeats any worker. The
live run also assumes that one worker is not stopped. `CdpLookup`: each preview is answered
or fails. `ResourceInfos`: likewise each request, also those nobody waits for.
`Liquidator`: what a container has begun goes on, and a message that is visible again and
again is delivered in the end (strong fairness, as SQS chooses what to deliver).

### Findings

The violated runs are statements of the repository that the code does not keep; each is
reported in `PROJECT.json` with the lines: the indexer deletes a chunk though
SendMessageBatch reported failed entries; the XRD/USD rate may be the USD price of another
asset.

Other ways in which the code departs from what one would expect of it, which the
constants and definitions of the modules show without a run of their own:

- "Dispatched N CDPs" counts entries that SQS rejected as sender faults (`NothingForgotten`
  counts them too: `FaultedIds`);
- two chunks fetched in one millisecond share an S3 key, and one replaces the other (two chunks
  whose CDPs can be fetched, with one fault, violate `DeletedMeansStored`);
- prices of CaviarNine and Astrolescent are published however old they say they are
  (`FreshWhenPriced` without its restriction to Pyth is violated); and a USD price of Pyth that is
  too old to be used as a price may still be taken for the XRD/USD rate, for `findXrdUsdPrice`
  (`FindXrdUsdPrice`) does not ask `isResultValid`;
- one pool that has a price but no deposits makes the staking rate NaN (`LendingAprNaN`):
  `getPoolInfos` divides by the deposits (pool-operations.ts:178-179) and
  `getWeftStakingApr` adds NaN times 0 (weft-staking.ts:41), as `RateOf` says;
- `getMarketInfos` answers the global services of collateral in each other's place
  (market-operations.ts:96-101): `lsu` is that of NFTs, `nft` that of claims, `claimNft` that of
  LSUs. `MarketInfos` has it as it is, on both sides of `MarketSnapshot`, which asks whether an
  answer is of one version and not whether its fields are rightly named;
- a price below 10^-6 is written with an exponent, which the parser reads as digits
  (`Tiny = TRUE` violates `UsdConverted`).

Where a property is about less than one might wish, the code is the reason:

- `StoreWhole` excludes a store one of whose pages lost its values to a failure (`lost`):
  the cursor has moved, and a retry goes on behind the page.
- `FreshAfterClear` is about clears while no request is under way: one that is under way
  puts what it had read into the caches just cleared.
- `AnswerWhole` is about the first two pages of fungibles and the first of non-fungibles,
  and allows an empty answer when a whole batch of addresses does not exist.
- `MarketSnapshot` and `QuotesSnapshot` are about calls with a selector, or during which the
  ledger stood still, and about stores that fit on one page of the gateway.
- `QuotesSnapshot` takes the prices on the ledger to be positive (`QuotesAssumption`): a price
  of zero passes for one in `getWeftStakingApr`, which then divides by it.
- A KeyValueStore's `init()` is assumed not to overlap a load of the same store, as nowhere
  in the repository it does.
- `StoredBeforeAlert`, `AttemptInv` and `MeetsContract` hold whatever keys collide and entries
  are refused, because they are about what was put and what was offered. That the data stays and
  the entries arrive is what `DeletedMeansStored` and `DeletedMeansEnqueued` say, and does not
  hold.
- `FreshWhenPriced` is about Pyth, the one source whose age the code looks at, and about the
  prices themselves, not the rate some of them are divided by.

## The proofs

`IndexerWorkerProofs`, for all workers, messages, kinds, limits, times and bounds:

- `TypeCorrect`: `TypeOK`, one step per action.
- `IndInv`: the inductive invariant `IInv`. `GivenUpWhole` says what is not on the queue, in
  S3 or in the alerts; to be preserved it needs that an attempt on such a message never gets
  past its fetch; and for that a job can only exist as `Start` made it. `ExitsClean` needs
  that jobs exist only in a working loop. `OneInCharge`, needed for the contract, says that
  the last receipt is held by one attempt at most and only while the message is in flight.
- `GivenUpChunks`, `ExitsCleanly`: the properties, from `IndInv`.
- `EffectInv`: the invariant `EInv` is `AttemptInv`, `StoredBeforeAlert` and `LeftInv`, that what
  is left to send is at risk. The first says of each attempt that the data it judges by was put
  and what it has sent was offered, so that the next send keeps the second; both survive other
  attempts, crashes and colliding keys since nothing that was put or offered can be taken back.
  `StoredFirst` and `Attempts` follow.
- `Refinement`: `Spec => MeetsContract`. The initial states correspond, and a case per
  action shows a contract step or a stutter: `Fetched` by the attempt in charge is
  `Assess`, `Put` is `Archive`, `Send` is `Alert`, `Delete` with a current receipt is
  `Retire`; a lapsed receipt, a failure or a crash is `Forget`.

`CdpLookupProofs`, for every list, batch size, set of faulty CDPs and bound:

- `TypeInv`, `TypeCorrect`: the halves of a range are ranges again (`Halves`), so the
  recursion stays within the list.
- `AccountInv`, `AccountedFor`: `Accounted`, strengthened by what an unfinished range holds
  (its answers are of its own CDPs, one version each, and of none whose preview cannot
  succeed) and by the first half of `BlameIsolated`: a CDP nobody can read is among the
  failed ids.

- `BlameAndProgressInv`, `BlamedAlone`, `ProgressAddsUp`: ranges under way or returned are
  apart from each other (`TreeInv`), so what they hold can be counted as one set, without
  sums over the tree of ranges. `BlameInv` gives each healthy CDP that failed a preview
  that failed of itself; `LoadedInv` says that the counter is what the returned ranges have.

`LambdaProofs`, of the dispatcher, for any sizes of pages, chunks and batches, numbers of
runs, and moves of the ledger. `IInv` has four parts beside the types: `ListingInv` (what
has been read is of the pinned version; what has been located is found once, unless burned
by then), `RunInv` (the ids of a run are what its listing found), `QueueInv` (messages of
this run are chunks of its ids) and `CursorInv` (chunks behind the cursor are settled, those
ahead are not, and those of the batch in hand are settled or to be sent again). From it:

- `TypesHold`, `NoCdpTwice` (chunks are disjoint), `RetriesOnlyFailed` (`NeverSentTwice`),
  `BatchesInOrder` (`NoGaps`), `NoneBurnedQueued` and `NothingLost` (`NothingForgotten`),
  the last with the count of the answer. They rest on lemmas about slices: that the chunks
  cover the ids (`ConcatIds`), which goes through the quotients of the indices.

Of the liquidator, for any containers and messages: `RecordsInv`, that each record of an
invocation is open, named as failed, or processed; `OnlyProcessedLeave` follows.

`TransactionWalletProofs`, for any delays, timeout, latency and epochs: `StatusInv` (a status
that has been told is the ledger's) gives `OutcomeForGood`; `PollInv` (no timer is passed
over, and a final status not yet told became final after the poll under way was sent) gives
`FinalSeenInTime`, whose bound is the latency, the longest delay, and the latency again.

`MetadataServiceProofs`, for any number of overlapping requests and clears: `StagesInv` (a
request misses only what its unread batches, then its validators, will tell) gives
`CacheComplete` and `AnswersWhole`; `ReadsFresh` (what a request under way has read is of the
time since a quiet clear) gives `ClearedForGood`.

`PriceUpdaterProofs`, for any assets and plugins. `CachesInv` and `ResolvedInv` say which
answers there are and what they resolve, `PricesInv` that a price is the answer to the
asset's last answered feed, `DoneInv` that every asset gone through has a price or no usable
answer. `FreshWhenPriced` is inductive with them (`PricedFresh`), `PegsHold` and
`DroppedStale` follow. They need `FeedsAssumption`, which `tokens.ts` keeps: the feeds of an
asset are of different plugins in the order of their priority, and assets that share a feed
share those before it.

`ConvertedExactly` of the same module is `UsdConverted` for every raw price and every scale. A
price goes through five conversions: a raw price becomes a text (`FormatScaledValue`,
`NumberText`), the text is read (`Parse`), the numerator is scaled and divided, and the
quotient becomes a text without its trailing zeros that the oracle reads again. The lemmas
say of each what it does to the value: `ParseScaled` and `ParseNumber` that a plugin's text
reads as what the raw price is worth (`Worth`), `Normalized` that the price is their quotient,
`ParseFormatted` that writing and trimming lose nothing. They rest on `ParsePoint` (what a
text with a point reads as), `NumberConcat` (what two texts put together count) and
`DigitsOfFacts`. That the recursive functions exist at all is `Recursion`, proved once for any
recursion from earlier places; induction over lengths is `NatSets`, for sets of naturals in
place of predicates. `RawsInv` adds to `IInv` that cached answers have raw prices of their
plugin and that the rate is such an answer in USD. The theorem assumes `NoneTiny`, that no
USD price that is a JavaScript number is below 10^-6; without it the code violates the
property, as noted above. The run's instance satisfies it exactly when `Tiny` is FALSE
(`TinyAssumption`).

`LedgerReadsProofs`, for any sequence of writes, any keys, pages, batches and overlapping
calls:

- `StoreOfVersion`, `StoreComplete`: by `PinInv` there is no other load while `init()` awaits
  its keys, and all others are pinned to the cursor's version; by `CoverInv`, unless a page
  was lost, every key up to a cursor has its value or is being read.
- `EachNftOnce`: by `NftInv` each NFT of the batches done is found or in hand, once, if it
  was there when the call began (`Since`).
- `MarketOfVersion`, `QuotesTrue`: a read whose window is one version is a read
  of that version (`OneVersionRead`), and a store that fits on a page is whole
  (`WholeStore`). `CurveExact` shows, by cases on the segments, that the rate
  `InterestStrategy` computes is that of the piecewise curve at every usage. `AprInv` says
  what is known between the two reads of a staking rate, and `RateMade` that prices and pools of
  one version make that version's rate, NaN included. That the deposits, a fold over the
  pools, add up to nothing only if each of them is nothing is `SumPositive`: induction as the
  absence of a least set of terms that fails, by the well-foundedness of the naturals.

`ResourceInfosProofs`, for any addresses, holdings, pages, batch size and ledger versions. The
invariant `IInv` has, beside the types, `HoldingsInv` (what the pages behind the cursor of a
holding hold is there at the version of its collection), `StatesInv` (a component whose second
page is to come is awaited), `BatchInv`, `DetailsInv` and `InfosInv` (the components asked for
so far, the resources described, and the classes and tasks made of them). From it:

- `ReadAtOneVersion` (`OneVersion`): pages that come late, after the answer they were asked by,
  still read at the version of the first one, and count a resource once.
- `AnswersWhole` (`AnswerWhole`): no component of the ledger is left out, each has the resources
  of the pages that were waited for, in their classes, with the validators' units enriched.
- `TypeCorrect`.

They need that a holding's pages name each resource once (`EntityAssumption`). That the
addresses without their repetitions (`Unique`) are the same addresses is shown of `Kept`, a
recursive function, by induction over sets of naturals.

Assumptions are the named ASSUMEs of the modules: types (S3 keys are naturals), positive sizes,
finite sets, that the ledger's first writes fit `MaxWrites`, that xUSDC is among the default
pools (as in `const.ts`), positive prices, finitely many resources, pages of a holding that
name a resource once, raw prices that are not negative (`RawAssumption`), and
`FeedsAssumption`. TLC evaluates them on the runs. `ConvertedExactly` assumes more, `NoneTiny`,
as said above.

Model-checked only: liveness (`RunEnds`, `EventuallyDeleted`, `StopEnds`, `Returns`,
`PagesArrive`, `HealthyLeave`), which needs fairness and ENABLED, out of TLAPS's reach.

## Not modelled

- State fetcher: `fetchField` and its plugins translate a tree of values and keep no state;
  the collections' own `init()` is called by tests only; `ComponentState` and
  `ResourceDetailsRepo` are used nowhere in the repository.
- Price updater Lambda: one call of `executePriceUpdate` between reading the configuration
  and building a text.
- The decoder of CDPs, the manifest builder and logging: translation and formatting without
  state. `CdpLookup` keeps that decoding may throw. Key derivation and signatures:
  cryptography.
- Liquidation itself: a TODO in the source, where a well-formed message is only logged.
- Workflows, experiments and `*.backup` files: no part of the running system.

## What is left of the plan

Nothing that was planned: every component with state of its own has its module (the environment
is part of `Liquidator`), its run and its theorems, and every invariant, action property and
refinement that a passing run checks is proved for all values of the constants that keep the
assumptions named above. Liveness stays with TLC. What could be added is `fetchField` as a
function on trees, if properties of its answers were wanted.
