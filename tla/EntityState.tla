----------------------------- MODULE EntityState -----------------------------
(***************************************************************************)
(* packages/state-fetcher, fetchEntityState: the states of a list of       *)
(* entities, with their fungible and non-fungible holdings and, when asked *)
(* for, the details of the resources they hold.  Entities are asked for in *)
(* batches.  A holding comes with its first page; the second one is loaded *)
(* and waited for, and loads the ones after it without anybody waiting.    *)
(* All pages of an entity are read at the version its details came from;   *)
(* the ledger moves on meanwhile.                                          *)
(***************************************************************************)
EXTENDS Integers, Sequences, FiniteSets, SequencesExt

CONSTANTS
  Input,        \* the addresses asked for, repetitions included
  Unsure,       \* those the ledger may not have
  BatchSize,    \* addresses per request, 20 in the code
  Pages,        \* [entity -> [kind -> sequence of sets of resources]]
  Emptied,      \* resources of which nothing is left from version 2 on
  MaxVersion,   \* bound: versions of the ledger
  MaxFaults     \* bound: requests that fail

Kinds == {"fungible", "nonFungible"}

\* The members of s at the indices I, in their order.
Kept(s, I) ==
  LET kept[n \in 0..Len(s)] ==
        IF n = 0 THEN <<>>
        ELSE IF n \in I THEN Append(kept[n - 1], s[n]) ELSE kept[n - 1] IN
  kept[Len(s)]

\* [...new Set(entityAddressesInput)]: first occurrences
Unique(s) == Kept(s, {i \in DOMAIN s : \A j \in 1 .. i - 1 : s[j] # s[i]})

\* slice(i, i + batchSize)
Chunk(s, i) == SubSeq(s, i + 1, IF i + BatchSize < Len(s) THEN i + BatchSize ELSE Len(s))

Addresses == Unique(Input)
Entities == ToSet(Input)
Resources == UNION {UNION ToSet(Pages[e][k]) : e \in Entities, k \in Kinds}
Live == 0   \* no ledgerStateSelector

ASSUME EntityAssumption ==
  /\ Unsure \subseteq Entities
  /\ BatchSize \in Nat \ {0} /\ MaxVersion \in Nat \ {0} /\ MaxFaults \in Nat
  /\ Input \in Seq(Entities) /\ IsFiniteSet(Resources)
  /\ \A e \in Entities, k \in Kinds :
       /\ Pages[e][k] \in Seq(SUBSET Resources)
       \* a holding has one entry for a resource
       /\ \A p, q \in DOMAIN Pages[e][k] : p # q => Pages[e][k][p] \cap Pages[e][k][q] = {}

VARIABLES
  absent,    \* addresses the ledger does not have
  version,   \* the ledger's version
  selector,  \* ledgerStateSelector: a version, or Live
  stage,     \* the calls awaited: entities, pages, details; then described or thrown
  from,      \* the batch loop's i
  holdings,  \* [entity -> [kind -> collection]]
  states,    \* returnedStates: the entities answered, batch after batch
  wanted,    \* addresses of resources fetchResourceState has still to ask for
  known,     \* resources whose details it has got
  faults     \* requests failed so far

fetchVars ==
  <<absent, version, selector, stage, from, holdings, states, wanted, known, faults>>

Existing == Entities \ absent

-----------------------------------------------------------------------------
(* Collections: values, cursor and version, as the two classes keep them *)

\* values: [resource -> level and the versions whose amounts were added up]; cursor: the
\* next page or 0; at: the version of the pages; loading: the page requested or 0;
\* awaited: does fetchEntityState wait for it?; lost: did a page fail unnoticed?
Untouched == [values |-> <<>>, cursor |-> 0, at |-> 0, loading |-> 0,
              awaited |-> FALSE, lost |-> FALSE]

Amount(r, v) == IF r \in Emptied /\ v >= 2 THEN 0 ELSE 1

\* parseValues: at vault level amounts are added to what is there, at global level
\* they replace it.
ParseFungibles(values, page, v, level) ==
  [r \in page \cup DOMAIN values |->
     IF r \notin page THEN values[r]
     ELSE [level |-> level,
           reads |-> IF level = "Vault" /\ r \in DOMAIN values
                     THEN Append(values[r].reads, v) ELSE <<v>>]]

\* Resources of which the entity holds none leave no entry here.
ParseNonFungibles(values, page, v, level) ==
  ParseFungibles(values, {r \in page : Amount(r, v) # 0}, v, level)

Parse(k, values, page, v, level) ==
  IF k = "fungible" THEN ParseFungibles(values, page, v, level)
  ELSE ParseNonFungibles(values, page, v, level)

NextCursor(e, k, p) == IF p < Len(Pages[e][k]) THEN p + 1 ELSE 0

FirstPage(e, k) == IF Pages[e][k] = <<>> THEN {} ELSE Head(Pages[e][k])

\* Mutant: nobody waits for the second page either
LoadMoreFloating(c) == [c EXCEPT !.loading = c.cursor]

\* Mutant: loadMore without its test of hasMore
LoadMoreAlways(c) == [c EXCEPT !.loading = c.cursor, !.awaited = TRUE]

\* loadMore(true), awaited
LoadMore(c) == [c EXCEPT !.loading = c.cursor, !.awaited = c.cursor # 0]

\* setInitialValues with the page that came with the details, then loadMore(true)
SetInitialValues(e, k, v) ==
  LoadMore([Untouched EXCEPT
              !.values = Parse(k, <<>>, FirstPage(e, k), v, "Vault"),
              !.cursor = NextCursor(e, k, 1),
              !.at = v])

\* Mutant: at_ledger_state left out
PageVersionLatest(c) == version

\* at_ledger_state of a page's request: the version the cursor belongs to
PageVersion(c) == c.at

\* Mutant: the recursive call is not recursive
RecurseOnce(c) == [c EXCEPT !.loading = 0]

\* loadValues calls itself for the next page and does not wait for it.
Recurse(c) == [c EXCEPT !.loading = c.cursor]

\* loadValues: loadMore passes no aggregation level on, so that pages after the first
\* come at the gateway's default, global.
LoadValues(e, k, c) ==
  Recurse([c EXCEPT !.values = Parse(k, @, Pages[e][k][c.loading], PageVersion(c), "Global"),
                    !.cursor = NextCursor(e, k, c.loading),
                    !.at = PageVersion(c),
                    !.awaited = FALSE])

-----------------------------------------------------------------------------
(* fetchEntityState *)

Held(h, S) == UNION {DOMAIN h[e][k].values : e \in S, k \in Kinds}

\* What follows when tasks have settled, h being the holdings: the next batch, or the
\* details of the resources held so far. States whose pages are awaited stay here.
AfterTasks(h, answered) ==
  IF \E e \in ToSet(answered), k \in Kinds : h[e][k].awaited
  THEN stage' = "pages" /\ UNCHANGED <<from, wanted>>
  ELSE IF from + BatchSize < Len(Addresses)
  THEN stage' = "entities" /\ from' = from + BatchSize /\ UNCHANGED wanted
  ELSE /\ wanted' = Held(h, ToSet(answered))
       /\ stage' = IF wanted' = {} THEN "described" ELSE "details"
       /\ UNCHANGED from

\* The details of a batch are answered, with the first page of each holding. A batch of
\* which the ledger has nothing ends it all with an empty list.
FetchEntities ==
  /\ stage = "entities"
  /\ LET v == IF selector = Live THEN version ELSE selector
         batch == Chunk(Addresses, from)
         items == Kept(batch, {i \in DOMAIN batch : batch[i] \in Existing}) IN
     IF items = <<>>
     THEN stage' = "described" /\ states' = <<>> /\ UNCHANGED <<from, holdings, wanted>>
     ELSE /\ states' = states \o items
          /\ holdings' = [e \in Entities |->
                            IF e \notin ToSet(items) THEN holdings[e]
                            ELSE [k \in Kinds |-> SetInitialValues(e, k, v)]]
          /\ AfterTasks(holdings', states')
  /\ UNCHANGED <<absent, version, selector, known, faults>>

\* A page is answered; the tasks may settle with it.
LoadPage(e, k) ==
  /\ holdings[e][k].loading # 0
  /\ holdings' = [holdings EXCEPT ![e][k] = LoadValues(e, k, @)]
  /\ IF stage = "pages" THEN AfterTasks(holdings', states)
     ELSE UNCHANGED <<stage, from, wanted>>
  /\ UNCHANGED <<absent, version, selector, states, known, faults>>

\* A page's request fails: the call throws when it is waited for, otherwise nobody gets
\* to know (in Node.js, an unhandled rejection).
PageFails(e, k) ==
  /\ holdings[e][k].loading # 0
  /\ faults < MaxFaults
  /\ faults' = faults + 1
  /\ holdings' = [holdings EXCEPT ![e][k] =
                    [@ EXCEPT !.loading = 0, !.awaited = FALSE, !.lost = TRUE]]
  /\ stage' = IF holdings[e][k].awaited THEN "thrown" ELSE stage
  /\ UNCHANGED <<absent, version, selector, from, states, wanted, known>>

\* fetchResourceState: a batch of resource details is answered, by the ledger of the day.
DescribeResources ==
  /\ stage = "details"
  /\ LET size == IF Cardinality(wanted) < BatchSize THEN Cardinality(wanted) ELSE BatchSize
         batch == CHOOSE b \in SUBSET wanted : Cardinality(b) = size IN
     known' = known \cup batch /\ wanted' = wanted \ batch
  /\ stage' = IF wanted' = {} THEN "described" ELSE "details"
  /\ UNCHANGED <<absent, version, selector, from, holdings, states, faults>>

\* A request for entities or resource details fails.
CallFails ==
  /\ stage \in {"entities", "details"}
  /\ faults < MaxFaults
  /\ faults' = faults + 1
  /\ stage' = "thrown"
  /\ UNCHANGED <<absent, version, selector, from, holdings, states, wanted, known>>

LedgerMoves ==
  /\ version < MaxVersion
  /\ version' = version + 1
  /\ UNCHANGED <<absent, selector, stage, from, holdings, states, wanted, known, faults>>

FetchInit ==
  /\ absent \in SUBSET Unsure
  /\ version \in 1..MaxVersion
  /\ selector \in {Live} \cup 1..version
  /\ stage = "entities"
  /\ from = 0
  /\ holdings = [e \in Entities |-> [k \in Kinds |-> Untouched]]
  /\ states = <<>>
  /\ wanted = {}
  /\ known = {}
  /\ faults = 0

PageStep == \E e \in Entities, k \in Kinds : LoadPage(e, k) \/ PageFails(e, k)

-----------------------------------------------------------------------------

\* Whatever the ledger does meanwhile, and whichever pages nobody waits for are still to
\* come: what an entity is said to hold is all of one version, the selected one if there
\* is one, and each resource's amount was counted once.
OneVersion ==
  \A e \in Entities : \E v \in 1..MaxVersion :
    /\ selector # Live => v = selector
    /\ \A k \in Kinds : \A r \in DOMAIN holdings[e][k].values :
         holdings[e][k].values[r].reads = <<v>>

\* Every page that is not lost comes in, though nobody waits for it.
PagesArrive ==
  \A e \in Entities, k \in Kinds :
    holdings[e][k].loading # 0
      ~> \/ holdings[e][k].lost
         \/ \A p \in DOMAIN Pages[e][k] : \A r \in Pages[e][k][p] :
              r \in DOMAIN holdings[e][k].values \/ Amount(r, holdings[e][k].at) = 0
=============================================================================
