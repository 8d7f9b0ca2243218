-------------------------- MODULE LedgerReadsProofs --------------------------
(***************************************************************************)
(* Theorems about LedgerReads: what is read of a ledger that moves on, for *)
(* any keys and writes, sizes of pages and batches, overlapping calls and  *)
(* failures.                                                               *)
(***************************************************************************)
EXTENDS LedgerReads, FiniteSetTheorems, WellFoundedInduction, TLAPS

LedgerInv ==
  /\ writes \in Seq(Keys) /\ Len(Initially) <= Version /\ Version <= MaxWrites

-----------------------------------------------------------------------------
(* The store *)

Load == [stage : {"idle", "keys", "data"}, op : {"init", "more"}, at : Nat, after : Nat,
         keys : SUBSET Keys]

\* The cursor's version is 0 or one there has been, the selected one if there is one, and
\* the values are as the loads pinned to it read them.
StoreType ==
  /\ cursor \in [cursor : Nat, stateVersion : Nat]
  /\ load \in [Calls -> Load]
  /\ selected \in 0..Version
  /\ cursor.stateVersion <= Version
  /\ DOMAIN values \subseteq Keys
  /\ cursor.stateVersion = 0 => cursor.cursor = 0 /\ DOMAIN values = {}
  /\ selected # Live => cursor.stateVersion \in {0, selected}

\* While init() awaits its keys there is no other load; the others are pinned to the
\* version of the cursor.
PinInv ==
  \A c \in Calls : LET l == load[c] IN
    /\ l.stage = "keys" /\ l.op = "init" =>
         /\ cursor.stateVersion = 0 /\ l.at = selected /\ l.after = 0
         /\ \A d \in Calls : d # c => load[d].stage = "idle"
    /\ l.stage = "data" /\ l.op = "init" => cursor.stateVersion # 0 /\ l.at = selected
    /\ l.stage # "idle" /\ l.op = "more" =>
         cursor.stateVersion # 0 /\ l.at = cursor.stateVersion

\* The keys there are or are still being read
Covered == DOMAIN values \cup UNION {load[c].keys : c \in {d \in Calls : load[d].stage = "data"}}

\* Unless a page was lost, every key of the cursor's version up to a cursor is covered.
CoverInv ==
  ~lost =>
    /\ \A k \in Present(cursor.stateVersion) :
         cursor.cursor = 0 \/ k <= cursor.cursor => k \in Covered
    /\ \A c \in Calls : load[c].stage = "keys" =>
         \A k \in Present(cursor.stateVersion) : k <= load[c].after => k \in Covered

StoreInv == StoreType /\ PinInv /\ CoverInv /\ ValuesOfVersion

-----------------------------------------------------------------------------
(* The NFTs *)

\* The version by which an NFT must have been there to be in the answer
Since == IF nft.at = Live THEN Len(Initially) ELSE nft.at

NftInv ==
  /\ nft = [stage |-> nft.stage, at |-> nft.at, left |-> nft.left, batch |-> nft.batch,
            page |-> nft.page, found |-> nft.found]
  /\ nft.stage \in {"data", "locations", "done", "thrown"}
  /\ nft.at \in 0..Version
  /\ nft.left \in 0..Len(NftIds)
  /\ nft.found \in Seq(ToSet(nft.found))
  /\ \A i, j \in DOMAIN nft.found : nft.found[i].id = nft.found[j].id => i = j
  /\ IsFiniteSet(nft.page)
  /\ \A p \in nft.page : /\ p.id \notin LoadedIds(nft.found) /\ p.at \in Nat /\ p.at <= Version
                         /\ nft.at # Live => p.at = nft.at
  /\ \A p, q \in nft.page : p.id = q.id => p = q
  /\ nft.stage \in {"data", "done"} => nft.page = {}
  /\ \A i \in DOMAIN NftIds : nft.left < i /\ NftIds[i] \in Present(Since) =>
       NftIds[i] \in LoadedIds(nft.found) \cup {p.id : p \in nft.page}
  /\ nft.stage = "done" => nft.left = 0
  /\ \A i \in DOMAIN nft.found :
       IF nft.at = Live THEN nft.found[i].at <= nft.found[i].owner
       ELSE nft.found[i].at = nft.at /\ nft.found[i].owner = nft.at

-----------------------------------------------------------------------------
(* The market *)

MarketInv ==
  /\ market = [stage |-> market.stage, at |-> market.at, start |-> market.start,
               end |-> market.end, info |-> market.info]
  /\ market.stage \in {"idle", "reading", "thrown", "answered", "failed"}
  /\ market.at \in 0..Version /\ market.start \in 0..Version /\ market.end \in 0..Version
  /\ market.stage \in {"reading", "thrown", "answered"} => market.start # 0
  /\ market.stage \in {"thrown", "answered"} => market.end # 0
  /\ MarketSnapshot

-----------------------------------------------------------------------------
(* The quotes *)

\* Between the two reads of a staking rate: if the ledger has stood still, the prices and the
\* pools are its own, and what the rate takes, but for the stake, is there.
AprInv ==
  /\ quote.call = "apr" => quote.at = Live
  /\ quote.stage = "staked" /\ quote.start = Version =>
       LET m == MarketAt[Version] IN
       /\ quote.prices = [k \in ({Weft} \cup DefaultPools) \cap DOMAIN m.prices |-> m.prices[k]]
       /\ quote.pools = [k \in DefaultPools |-> m.pools[k]]
       /\ Xusdc \in DOMAIN m.prices
       /\ \E k \in PoolsOf(Version) : PoolStats[m.pools[k]].totalDeposit # 0
  /\ RateWhenKnown

QuoteInv ==
  /\ quote = [call |-> quote.call, stage |-> quote.stage, at |-> quote.at,
              asked |-> quote.asked, start |-> quote.start, end |-> quote.end,
              prices |-> quote.prices, pools |-> quote.pools, answer |-> quote.answer]
  /\ quote.at \in 0..Version /\ quote.start \in 0..Version
  /\ quote.call = "prices" => quote.asked \in Asked
  /\ quote.stage = "staked" => quote.call = "apr"
  /\ PricesSnapshot
  /\ CurvesSnapshot
  /\ AprInv

-----------------------------------------------------------------------------
(* Sets of naturals *)

\* A set of naturals that is bounded and not empty has a greatest one.
LEMMA MaxOfSet ==
  ASSUME NEW n \in Nat, NEW S \in SUBSET (0..n), S # {}
  PROVE  Max(S) \in S /\ \A y \in S : y <= Max(S)
<1> DEFINE T == {n - x : x \in S}
<1>1. T \in SUBSET Nat /\ T # {}
  <2>1. \A x \in S : n - x \in Nat
    OBVIOUS
  <2>2. QED
    BY <2>1
<1>2. \E x \in T : \A y \in T : ~ (<<y, x>> \in OpToRel(<, Nat))
  BY <1>1, NatLessThanWellFounded, WFMin
<1>3. \A x, y \in T : ~ (<<y, x>> \in OpToRel(<, Nat)) => x <= y
  BY <1>1 DEF OpToRel
<1>4. PICK t \in T : \A y \in T : t <= y
  BY <1>2, <1>3
<1>5. PICK m \in S : t = n - m
  BY <1>4
<1>6. \A y \in S : y <= m
  BY <1>4, <1>5
<1>7. QED
  BY <1>6 DEF Max

LEMMA MaxOfFinite ==
  ASSUME NEW S \in SUBSET Nat, S # {}, IsFiniteSet(S)
  PROVE  Max(S) \in S /\ \A y \in S : y <= Max(S)
<1> DEFINE Upto(k) == {j \in S : j <= k}
           Ranks == {Cardinality(Upto(k)) : k \in S}
<1>1. \A k : IsFiniteSet(Upto(k)) /\ Cardinality(Upto(k)) \in 0..Cardinality(S)
  <2>1. \A k : Upto(k) \in SUBSET S
    OBVIOUS
  <2> HIDE DEF Upto
  <2>2. QED
    BY <2>1, FS_Subset, FS_CardinalityType
<1>2. Cardinality(S) \in Nat
  BY FS_CardinalityType
<1>3. Ranks \in SUBSET (0..Cardinality(S)) /\ Ranks # {}
  BY <1>1
<1>4. Max(Ranks) \in Ranks /\ \A y \in Ranks : y <= Max(Ranks)
  <2> HIDE DEF Ranks
  <2>1. QED
    BY <1>2, <1>3, MaxOfSet
<1>5. PICK m \in S : Cardinality(Upto(m)) = Max(Ranks)
  BY <1>4
<1>6. ASSUME NEW y \in S, m < y
      PROVE  FALSE
  <2>1. Upto(m) \in SUBSET Upto(y) /\ y \in Upto(y) /\ y \notin Upto(m)
    <3>1. m \in Nat /\ y \in Nat
      OBVIOUS
    <3>2. \A j \in S : j \in Nat /\ (j <= m => j <= y)
      BY <1>6, <3>1
    <3>3. y \in Upto(y) /\ y \notin Upto(m)
      BY <1>6, <3>1
    <3>4. \A j \in Upto(m) : j \in Upto(y)
      BY <3>2
    <3> HIDE DEF Upto
    <3>5. QED
      BY <3>3, <3>4
  <2>2. Cardinality(Upto(m)) <= Cardinality(Upto(y))
        /\ Cardinality(Upto(m)) # Cardinality(Upto(y))
    <3> HIDE DEF Upto
    <3>1. QED
      BY <1>1, <2>1, FS_Subset
  <2>3. Cardinality(Upto(y)) <= Max(Ranks)
    BY <1>4
  <2>4. Cardinality(Upto(m)) \in Nat /\ Cardinality(Upto(y)) \in Nat
    BY <1>1, <1>2
  <2> HIDE DEF Upto, Ranks
  <2>5. QED
    BY <1>5, <2>2, <2>3, <2>4
<1>7. \A y \in S : y <= m
  BY <1>6
<1>8. QED
  BY <1>7 DEF Max

-----------------------------------------------------------------------------
(* The ledger *)

\* What a key holds at a version is the last write of it by then.
LEMMA ValueAtLast ==
  ASSUME LedgerInv, NEW k, NEW v \in 0..Version
  PROVE  /\ ValueAt(k, v) \in 0..v
         /\ ValueAt(k, v) # 0 => writes[ValueAt(k, v)] = k
         /\ \A i \in 1..v : writes[i] = k => i <= ValueAt(k, v)
<1> DEFINE S == {0} \cup {i \in 1..v : writes[i] = k}
<1>1. Version \in Nat
  BY DEF LedgerInv, Version
<1>2. v \in Nat /\ S \in SUBSET (0..v) /\ S # {}
  BY <1>1
<1>3. Max(S) \in S /\ \A y \in S : y <= Max(S)
  <2> HIDE DEF S
  <2>1. QED
    BY <1>2, MaxOfSet
<1>4. ValueAt(k, v) = Max(S)
  BY DEF ValueAt
<1>5. QED
  BY <1>2, <1>3, <1>4

LEMMA ValueAtMonotone ==
  ASSUME LedgerInv, NEW k, NEW v \in 0..Version, NEW w \in 0..Version, v <= w
  PROVE  ValueAt(k, v) <= ValueAt(k, w)
<1>1. /\ ValueAt(k, v) \in 0..v
      /\ ValueAt(k, v) # 0 => writes[ValueAt(k, v)] = k
  BY ValueAtLast
<1>2. ValueAt(k, w) \in 0..w /\ \A i \in 1..w : writes[i] = k => i <= ValueAt(k, w)
  BY ValueAtLast
<1>3. Version \in Nat
  BY DEF LedgerInv, Version
<1>4. QED
  BY <1>1, <1>2, <1>3

\* A write changes no version there has been.
LEMMA WriteKeeps ==
  ASSUME LedgerInv, Write
  PROVE  /\ LedgerInv' /\ Version' = Version + 1 /\ Version \in Nat
         /\ \A v \in 0..Version : \A k : ValueAt(k, v)' = ValueAt(k, v)
         /\ \A v \in 0..Version : Present(v)' = Present(v)
<1>1. PICK x \in Keys : writes' = Append(writes, x)
  BY DEF Write
<1>2. /\ writes' \in Seq(Keys) /\ Version' = Version + 1 /\ Version \in Nat
      /\ \A i \in 1..Version : writes'[i] = writes[i]
  BY <1>1 DEF LedgerInv, Version
<1>3. LedgerInv'
  BY <1>2, LedgerAssumption DEF Write, LedgerInv
<1>4. ASSUME NEW v \in 0..Version, NEW k
      PROVE  ValueAt(k, v)' = ValueAt(k, v)
  <2>1. {i \in 1..v : writes'[i] = k} = {i \in 1..v : writes[i] = k}
    BY <1>2
  <2>2. QED
    BY <2>1 DEF ValueAt
<1>5. ASSUME NEW v \in 0..Version
      PROVE  Present(v)' = Present(v)
  BY <1>4 DEF Present
<1>6. QED
  BY <1>2, <1>3, <1>4, <1>5

LEMMA PresentFacts ==
  ASSUME LedgerInv, NEW v \in 0..Version
  PROVE  /\ Present(v) \subseteq Keys /\ Present(v) \in SUBSET (Nat \ {0})
         /\ IsFiniteSet(Present(v))
         /\ \A w \in 0..Version : v <= w => Present(v) \subseteq Present(w)
<1>1. Version \in Nat /\ v \in Nat /\ DOMAIN writes = 1..Version
  BY DEF LedgerInv, Version
<1>2. Present(v) \subseteq Keys /\ Present(v) \in SUBSET (Nat \ {0})
  BY LedgerAssumption DEF Present
<1>3. IsFiniteSet(Present(v))
  <2> DEFINE at == [k \in Present(v) |-> ValueAt(k, v)]
  <2>1. at \in [Present(v) -> 0..v]
    BY ValueAtLast
  <2>2. \A j, k \in Present(v) : at[j] = at[k] => j = k
    BY ValueAtLast DEF Present
  <2>3. at \in Injection(Present(v), 0..v)
    BY <2>1, <2>2 DEF Injection, IsInjective
  <2>4. IsFiniteSet(0..v)
    BY <1>1, FS_Interval
  <2>5. QED
    BY <2>3, <2>4, FS_Injection
<1>4. ASSUME NEW w \in 0..Version, v <= w
      PROVE  Present(v) \subseteq Present(w)
  <2>1. ASSUME NEW k \in Present(v)
        PROVE  k \in Present(w)
    <3>1. ValueAt(k, v) <= ValueAt(k, w) /\ ValueAt(k, v) \in 0..v /\ ValueAt(k, v) # 0
      BY <1>4, <2>1, ValueAtMonotone, ValueAtLast DEF Present
    <3>2. ValueAt(k, w) \in 0..w /\ w \in Nat
      BY <1>1, ValueAtLast
    <3>3. QED
      BY <1>1, <2>1, <3>1, <3>2 DEF Present
  <2>2. QED
    BY <2>1
<1>5. QED
  BY <1>2, <1>3, <1>4

LEMMA NothingAtZero ==
  ASSUME LedgerInv
  PROVE  Present(0) = {}
<1>1. 0 \in 0..Version
  BY DEF LedgerInv, Version
<1>2. \A k : ValueAt(k, 0) = 0
  BY <1>1, ValueAtLast
<1>3. QED
  BY <1>2 DEF Present

-----------------------------------------------------------------------------
(* Pages *)

\* The next page has the first keys after the last one: none before its last is missing,
\* and when it is empty there are no more.
LEMMA PageFacts ==
  ASSUME LedgerInv, NEW v \in 0..Version, NEW after \in Nat
  PROVE  /\ PageAfter(after, v) \subseteq Present(v)
         /\ \A k \in PageAfter(after, v) : after < k
         /\ \A j \in PageAfter(after, v) : \A k \in Present(v) :
              after < k /\ k <= j => k \in PageAfter(after, v)
         /\ PageAfter(after, v) = {} => \A k \in Present(v) : k <= after
<1> DEFINE rest == {k \in Present(v) : k > after}
           Upto(k) == {j \in rest : j <= k}
<1>1. PageAfter(after, v) = {k \in rest : Cardinality(Upto(k)) <= PageSize}
  BY DEF PageAfter
<1>2. Present(v) \in SUBSET Nat
  BY PresentFacts
<1>3. IsFiniteSet(rest) /\ rest \in SUBSET Nat
  BY <1>2, PresentFacts, FS_Subset
<1>4. \A k : IsFiniteSet(Upto(k)) /\ Cardinality(Upto(k)) \in Nat
  <2>1. \A k : Upto(k) \in SUBSET rest
    OBVIOUS
  <2> HIDE DEF Upto, rest
  <2>2. QED
    BY <1>3, <2>1, FS_Subset, FS_CardinalityType
<1>5. ASSUME NEW j \in rest, NEW k \in rest, k <= j
      PROVE  Cardinality(Upto(k)) <= Cardinality(Upto(j))
  <2>1. Upto(k) \in SUBSET Upto(j)
    BY <1>3, <1>5
  <2> HIDE DEF Upto
  <2>2. QED
    BY <1>4, <2>1, FS_Subset
<1>6. ASSUME rest # {}
      PROVE  \E k \in rest : Cardinality(Upto(k)) <= PageSize
  <2>1. \E x \in rest : \A y \in rest : ~ (<<y, x>> \in OpToRel(<, Nat))
    BY <1>3, <1>6, NatLessThanWellFounded, WFMin
  <2>2. \A x, y \in rest : ~ (<<y, x>> \in OpToRel(<, Nat)) => x <= y
    BY <1>3 DEF OpToRel
  <2>3. PICK k \in rest : \A y \in rest : k <= y
    BY <2>1, <2>2
  <2>4. Upto(k) = {k}
    BY <1>3, <2>3
  <2>5. Cardinality({k}) = 1
    BY FS_Singleton
  <2>6. QED
    BY <2>4, <2>5, StoreAssumption
<1>7. \A j \in PageAfter(after, v) : \A k \in Present(v) :
        after < k /\ k <= j => k \in PageAfter(after, v)
  <2>1. ASSUME NEW j \in PageAfter(after, v), NEW k \in Present(v), after < k, k <= j
        PROVE  k \in PageAfter(after, v)
    <3>1. j \in rest /\ k \in rest /\ Cardinality(Upto(j)) <= PageSize
      BY <1>1, <1>2, <2>1
    <3>2. Cardinality(Upto(k)) <= Cardinality(Upto(j))
      BY <1>5, <2>1, <3>1
    <3>3. Cardinality(Upto(k)) <= PageSize
      <4> HIDE DEF Upto
      <4>1. QED
        BY <1>4, <3>1, <3>2, StoreAssumption
    <3>4. QED
      BY <1>1, <3>1, <3>3
  <2>2. QED
    BY <2>1
<1>8. PageAfter(after, v) \subseteq rest
  BY <1>1
<1>9. PageAfter(after, v) = {} => rest = {}
  BY <1>1, <1>6
<1>10. rest = {} => \A k \in Present(v) : k <= after
  BY <1>2
<1>11. QED
  BY <1>7, <1>8, <1>9, <1>10

\* The next cursor is the page's last key if there are more, 0 if not.
LEMMA NextFacts ==
  ASSUME LedgerInv, NEW v \in 0..Version, NEW page \in SUBSET Present(v)
  PROVE  /\ NextCursor(page, v) \in Nat
         /\ NextCursor(page, v) = 0 /\ page # {} =>
              \E m \in page : \A k \in Present(v) : k <= m
         /\ NextCursor(page, v) # 0 => NextCursor(page, v) \in page
         /\ page = {} => NextCursor(page, v) = 0
<1>1. Present(v) \in SUBSET (Nat \ {0}) /\ IsFiniteSet(page)
  BY PresentFacts, FS_Subset
<1>2. page # {} => Max(page) \in page
  BY <1>1, MaxOfFinite
<1>3. QED
  BY <1>1, <1>2 DEF NextCursor

-----------------------------------------------------------------------------
(* The store's steps *)

LEMMA SameLedger ==
  ASSUME UNCHANGED writes
  PROVE  /\ Version' = Version
         /\ \A v : \A k : ValueAt(k, v)' = ValueAt(k, v)
         /\ \A v : Present(v)' = Present(v)
  BY DEF Version, ValueAt, Present

LEMMA CoveredKeys ==
  \A k : k \in Covered <=> \/ k \in DOMAIN values
                           \/ \E c \in Calls : load[c].stage = "data" /\ k \in load[c].keys
  BY DEF Covered

LEMMA InitStarts ==
  ASSUME LedgerInv, StoreInv, NEW c \in Calls, StartInit(c), UNCHANGED writes
  PROVE  StoreInv'
<1>1. PICK at \in {Live} \cup 1..Version :
        selected' = at /\ load' = [load EXCEPT ![c] = [Idle EXCEPT !.stage = "keys", !.at = at]]
  BY DEF StartInit
<1>2. Version \in Nat /\ at \in 0..Version /\ at \in Nat
  BY DEF LedgerInv, Version, Live
<1>3. /\ values' = <<>> /\ cursor' = [cursor |-> 0, stateVersion |-> 0]
      /\ \A d \in Calls : load[d].stage = "idle"
  BY DEF StartInit, Quiet
<1>4. load \in [Calls -> Load]
  BY DEF StoreInv, StoreType
<1>5. /\ load'[c] = [stage |-> "keys", op |-> "init", at |-> at, after |-> 0, keys |-> {}]
      /\ \A d \in Calls : d # c => load'[d] = load[d]
  BY <1>1, <1>4 DEF Idle
<1>6. load' \in [Calls -> Load]
  <2>1. load'[c] \in Load
    BY <1>2, <1>5 DEF Load
  <2>2. load' = [d \in Calls |-> load'[d]]
    BY <1>1, <1>4
  <2>3. \A d \in Calls : load'[d] \in Load
    BY <1>4, <1>5, <2>1
  <2>4. QED
    BY <2>2, <2>3
<1>7. StoreType'
  BY <1>1, <1>2, <1>3, <1>6, SameLedger DEF StoreType
<1>8. PinInv'
  <2>1. \A d \in Calls : d # c => load'[d].stage = "idle"
    BY <1>3, <1>5
  <2>2. load'[c].stage = "keys" /\ load'[c].op = "init" /\ load'[c].at = at /\ load'[c].after = 0
    BY <1>5
  <2>3. cursor'.stateVersion = 0 /\ selected' = at
    BY <1>1, <1>3
  <2>4. QED
    BY <2>1, <2>2, <2>3 DEF PinInv
<1>9. CoverInv'
  <2>1. Present(0) = {}
    BY NothingAtZero
  <2>2. Present(cursor.stateVersion)' = {}
    BY <1>3, <2>1, SameLedger DEF Present, ValueAt
  <2>3. QED
    BY <2>2 DEF CoverInv
<1>10. ValuesOfVersion'
  BY <1>3 DEF ValuesOfVersion
<1>11. QED
  BY <1>7, <1>8, <1>9, <1>10 DEF StoreInv

LEMMA MoreStarts ==
  ASSUME LedgerInv, StoreInv, NEW c \in Calls, StartLoadMore(c), UNCHANGED writes
  PROVE  StoreInv'
<1>1. /\ cursor.cursor # 0 /\ UNCHANGED <<values, cursor, selected, lost>>
      /\ load[c].stage = "idle" /\ load \in [Calls -> Load]
      /\ cursor \in [cursor : Nat, stateVersion : Nat]
  BY DEF StartLoadMore, HasMore, StoreInv, StoreType
<1>2. cursor.stateVersion # 0
  BY <1>1 DEF StoreInv, StoreType
<1>3. /\ load'[c] = [stage |-> "keys", op |-> "more", at |-> cursor.stateVersion,
                     after |-> cursor.cursor, keys |-> {}]
      /\ \A d \in Calls : d # c => load'[d] = load[d]
  BY <1>1 DEF StartLoadMore, Idle, Pinned
<1>4. load' \in [Calls -> Load]
  <2>1. load'[c] \in Load
    BY <1>1, <1>3 DEF Load
  <2>2. load' = [d \in Calls |-> load'[d]]
    BY <1>1 DEF StartLoadMore
  <2>3. \A d \in Calls : load'[d] \in Load
    BY <1>1, <1>3, <2>1
  <2>4. QED
    BY <2>2, <2>3
<1>5. StoreType'
  BY <1>1, <1>4, SameLedger DEF StoreInv, StoreType
<1>6. PinInv'
  BY <1>1, <1>2, <1>3 DEF StoreInv, PinInv
<1>7. \A k : k \in Covered => k \in Covered'
  BY <1>1, <1>3, CoveredKeys DEF Covered
<1>8. \A k : k \in Present(cursor.stateVersion)' => k \in Present(cursor.stateVersion)
  BY <1>1, SameLedger DEF Present, ValueAt
<1>9. CoverInv'
  BY <1>1, <1>3, <1>7, <1>8 DEF StoreInv, CoverInv
<1>10. ValuesOfVersion'
  BY <1>1, SameLedger DEF StoreInv, ValuesOfVersion, ValueAt
<1>11. QED
  BY <1>5, <1>6, <1>9, <1>10 DEF StoreInv

LEMMA KeysArrive ==
  ASSUME LedgerInv, StoreInv, NEW c \in Calls, GotKeys(c), UNCHANGED writes
  PROVE  StoreInv'
<1> DEFINE l == load[c]
           v == AnsweredAt(l.at)
           page == PageAfter(l.after, v)
<1>1. /\ UNCHANGED <<values, selected, lost>> /\ l.stage = "keys" /\ l \in Load
      /\ load \in [Calls -> Load] /\ cursor \in [cursor : Nat, stateVersion : Nat]
      /\ selected \in 0..Version /\ cursor.stateVersion <= Version /\ DOMAIN values \subseteq Keys
      /\ Version \in Nat
  BY DEF GotKeys, StoreInv, StoreType, LedgerInv, Version
<1>2. l.op \in {"init", "more"} /\ l.after \in Nat /\ l.at \in Nat
  BY <1>1 DEF Load
<1>3. cursor' = [cursor |-> NextCursor(page, v), stateVersion |-> v]
  BY DEF GotKeys
<1>4. l.op = "init" => /\ cursor.stateVersion = 0 /\ l.at = selected /\ l.after = 0
                       /\ \A d \in Calls : d # c => load[d].stage = "idle"
  BY <1>1 DEF StoreInv, PinInv
<1>5. l.op = "more" => cursor.stateVersion # 0 /\ l.at = cursor.stateVersion
  BY <1>1 DEF StoreInv, PinInv
<1>6. Len(Initially) >= 1 /\ Len(Initially) \in Nat /\ Version >= 1
  BY <1>1, LedgerAssumption DEF LedgerInv
<1>7. v \in 1..Version /\ v \in Nat
  BY <1>1, <1>2, <1>4, <1>5, <1>6 DEF AnsweredAt, Live
<1>8. l.op = "more" => v = cursor.stateVersion
  BY <1>5 DEF AnsweredAt, Live
<1>9. selected # Live => v = selected
  BY <1>2, <1>4, <1>5, <1>8 DEF StoreInv, StoreType, AnsweredAt, Live
<1>10. v \in 0..Version
  BY <1>7
<1>11. /\ page \subseteq Present(v)
       /\ \A j \in page : \A k \in Present(v) : l.after < k /\ k <= j => k \in page
       /\ page = {} => \A k \in Present(v) : k <= l.after
  BY <1>2, <1>10, PageFacts
<1>12. /\ NextCursor(page, v) \in Nat
       /\ NextCursor(page, v) = 0 /\ page # {} => \E m \in page : \A k \in Present(v) : k <= m
       /\ NextCursor(page, v) # 0 => NextCursor(page, v) \in page
  BY <1>10, <1>11, NextFacts
<1>13. Present(v) \subseteq Keys /\ Present(v) \in SUBSET (Nat \ {0})
  BY <1>10, PresentFacts
<1>14. /\ \A d \in Calls : d # c => load'[d] = load[d]
       /\ page = {} => load'[c] = Idle
       /\ page # {} => load'[c] = [stage |-> "data", op |-> l.op, at |-> l.at,
                                    after |-> l.after, keys |-> page]
       /\ load' = [d \in Calls |-> load'[d]]
  <2>1. CASE page = {}
    BY <1>1, <2>1 DEF GotKeys, Ended
  <2>2. CASE page # {}
    <3>1. load' = [load EXCEPT ![c].stage = "data", ![c].keys = page]
      BY <2>2 DEF GotKeys
    <3>2. l = [stage |-> l.stage, op |-> l.op, at |-> l.at, after |-> l.after, keys |-> l.keys]
      BY <1>1 DEF Load
    <3> HIDE DEF page, v
    <3>3. QED
      BY <1>1, <2>2, <3>1, <3>2
  <2>3. QED
    BY <2>1, <2>2
<1>15. load'[c] \in Load
  <2>1. page \in SUBSET Keys
    BY <1>11, <1>13
  <2> HIDE DEF page, v
  <2>2. QED
    BY <1>2, <1>14, <2>1 DEF Idle, Load, Live
<1> HIDE DEF v, page
<1>16. load' \in [Calls -> Load]
  <2>1. \A d \in Calls : load'[d] \in Load
    BY <1>1, <1>14, <1>15
  <2>2. QED
    BY <1>14, <2>1
<1>17. StoreType'
  <2>1. cursor' \in [cursor : Nat, stateVersion : Nat] /\ cursor'.stateVersion = v
    BY <1>3, <1>7, <1>12
  <2>2. v # 0 /\ v <= Version
    BY <1>7
  <2>3. QED
    BY <1>1, <1>9, <1>16, <2>1, <2>2, SameLedger DEF StoreType
<1>18. PinInv'
  <2>1. cursor'.stateVersion = v /\ v # 0 /\ selected' = selected
    BY <1>1, <1>3, <1>7
  <2>2. load'[c].stage # "idle" =>
          /\ load'[c].stage = "data" /\ load'[c].op = l.op /\ load'[c].at = l.at
    BY <1>14 DEF Idle
  <2>3. ASSUME NEW d \in Calls, d # c
        PROVE  /\ ~(load'[d].stage = "keys" /\ load'[d].op = "init")
               /\ load'[d].stage = "data" /\ load'[d].op = "init" => load'[d].at = selected
               /\ load'[d].stage # "idle" /\ load'[d].op = "more" => load'[d].at = v
    <3>1. load'[d] = load[d]
      BY <1>14, <2>3
    <3>2. CASE l.op = "init"
      BY <1>4, <2>3, <3>1, <3>2
    <3>3. CASE l.op = "more"
      BY <1>5, <1>8, <2>3, <3>1, <3>3 DEF StoreInv, PinInv
    <3>4. QED
      BY <1>2, <3>2, <3>3
  <2>4. QED
    BY <1>4, <1>5, <1>8, <1>2, <2>1, <2>2, <2>3 DEF PinInv
<1>19. \A k : k \in Covered \/ k \in page => k \in Covered'
  <2>1. \A d \in Calls : load[d].stage = "data" => load'[d] = load[d]
    BY <1>1, <1>14
  <2>2. page # {} => load'[c].stage = "data" /\ load'[c].keys = page
    BY <1>14
  <2>3. \A k \in page : k \in Covered'
    BY <2>2 DEF Covered
  <2>4. \A k : k \in Covered => k \in Covered'
    BY <1>1, <2>1 DEF Covered
  <2>5. QED
    BY <2>3, <2>4
<1>20. Present(cursor.stateVersion)' = Present(v)
  BY <1>3, SameLedger DEF Present, ValueAt
<1>21. ASSUME ~lost, NEW k \in Present(v), k <= l.after
       PROVE  k \in Covered
  <2>1. k \in Nat \ {0}
    BY <1>13
  <2>2. l.op = "more"
    BY <1>2, <1>4, <1>21, <2>1
  <2>3. QED
    BY <1>1, <1>8, <1>21, <2>2 DEF StoreInv, CoverInv
<1>22. ASSUME ~lost, NEW k \in Present(v), cursor'.cursor = 0 \/ k <= cursor'.cursor
       PROVE  k \in Covered \/ k \in page
  <2>1. k \in Nat \ {0} /\ page \in SUBSET Nat
    BY <1>11, <1>13
  <2>2. CASE k <= l.after
    BY <1>21, <1>22, <2>2
  <2>3. CASE l.after < k
    <3>1. CASE page = {}
      BY <1>2, <1>11, <2>1, <2>3, <3>1
    <3>2. CASE page # {}
      <4>1. PICK m \in page : k <= m
        BY <1>3, <1>12, <1>22, <3>2
      <4>2. QED
        BY <1>11, <2>3, <4>1
    <3>3. QED
      BY <3>1, <3>2
  <2>4. QED
    BY <1>2, <2>1, <2>2, <2>3
<1>23. ASSUME ~lost, NEW d \in Calls, load'[d].stage = "keys", NEW k \in Present(v),
              k <= load'[d].after
       PROVE  k \in Covered
  <2>1. d # c /\ load'[d] = load[d]
    BY <1>14, <1>23 DEF Idle
  <2>2. l.op = "more"
    BY <1>2, <1>4, <1>23, <2>1
  <2>3. QED
    BY <1>8, <1>23, <2>1, <2>2 DEF StoreInv, CoverInv
<1>24. CoverInv'
  BY <1>1, <1>19, <1>20, <1>22, <1>23 DEF CoverInv
<1>25. ValuesOfVersion'
  <2>1. CASE l.op = "init"
    BY <1>1, <1>4, <2>1 DEF StoreInv, StoreType, ValuesOfVersion
  <2>2. CASE l.op = "more"
    BY <1>1, <1>3, <1>8, <2>2, SameLedger DEF StoreInv, ValuesOfVersion, ValueAt
  <2>3. QED
    BY <1>2, <2>1, <2>2
<1>26. QED
  BY <1>17, <1>18, <1>24, <1>25 DEF StoreInv

\* What a load that ends leaves behind
LEMMA LoadEnds ==
  ASSUME LedgerInv, StoreInv, NEW c \in Calls, load' = Ended(c, load)
  PROVE  /\ load' \in [Calls -> Load] /\ load'[c] = Idle
         /\ \A d \in Calls : d # c => load'[d] = load[d]
<1>1. load \in [Calls -> Load]
  BY DEF StoreInv, StoreType
<1>2. Idle \in Load
  BY DEF Idle, Load, Live
<1>3. QED
  BY <1>1, <1>2 DEF Ended

LEMMA ValuesArrive ==
  ASSUME LedgerInv, StoreInv, NEW c \in Calls, GotData(c), UNCHANGED writes
  PROVE  StoreInv'
<1> DEFINE l == load[c]
           v == DataVersion(c)
<1>1. /\ UNCHANGED <<cursor, selected, lost>> /\ l.stage = "data" /\ l \in Load
      /\ load \in [Calls -> Load] /\ load' = Ended(c, load)
      /\ selected \in 0..Version /\ Version \in Nat
      /\ cursor \in [cursor : Nat, stateVersion : Nat] /\ cursor.stateVersion <= Version
  BY DEF GotData, StoreInv, StoreType, LedgerInv, Version
<1>2. l.op \in {"init", "more"} /\ l.keys \subseteq Keys
  BY <1>1 DEF Load
<1>3. /\ load' \in [Calls -> Load] /\ load'[c] = Idle
      /\ \A d \in Calls : d # c => load'[d] = load[d]
  BY <1>1, LoadEnds
<1>4. Idle.stage = "idle"
  BY DEF Idle
<1>5. /\ DOMAIN values' = l.keys \cup DOMAIN values
      /\ \A k \in l.keys : values'[k] = ValueAt(k, v)
      /\ \A k \in DOMAIN values \ l.keys : values'[k] = values[k]
  BY DEF GotData, Merge
<1>6. cursor.stateVersion # 0
  BY <1>1, <1>2 DEF StoreInv, PinInv
<1>7. /\ v \in 0..Version /\ cursor.stateVersion <= v
      /\ selected # Live => v = selected
  <2>1. CASE l.op = "init"
    <3>1. l.at = selected
      BY <1>1, <2>1 DEF StoreInv, PinInv
    <3>2. selected # Live => cursor.stateVersion = selected
      BY <1>6 DEF StoreInv, StoreType
    <3>3. QED
      BY <1>1, <3>1, <3>2 DEF DataVersion, AnsweredAt, Live
  <2>2. CASE l.op = "more"
    <3>1. l.at = cursor.stateVersion
      BY <1>1, <2>2 DEF StoreInv, PinInv
    <3>2. selected # Live => cursor.stateVersion = selected
      BY <1>6 DEF StoreInv, StoreType
    <3>3. QED
      BY <1>1, <1>6, <3>1, <3>2 DEF DataVersion, AnsweredAt, Live
  <2>3. QED
    BY <1>2, <2>1, <2>2
<1> HIDE DEF v
<1>8. StoreType'
  BY <1>1, <1>2, <1>3, <1>5, <1>6, SameLedger DEF StoreInv, StoreType
<1>9. PinInv'
  BY <1>1, <1>3, <1>4 DEF StoreInv, PinInv
<1>10. \A k : k \in Covered => k \in Covered'
  <2>1. \A k \in l.keys : k \in Covered'
    BY <1>5 DEF Covered
  <2>2. \A k \in DOMAIN values : k \in Covered'
    BY <1>5 DEF Covered
  <2>3. \A d \in Calls : d # c /\ load[d].stage = "data" => \A k \in load[d].keys : k \in Covered'
    BY <1>3 DEF Covered
  <2>4. QED
    BY <2>1, <2>2, <2>3, CoveredKeys
<1>11. CoverInv'
  <2>1. Present(cursor.stateVersion)' = Present(cursor.stateVersion)
    BY <1>1, SameLedger DEF Present, ValueAt
  <2>2. QED
    BY <1>1, <1>3, <1>4, <1>10, <2>1 DEF StoreInv, CoverInv
<1>12. ValuesOfVersion'
  <2>1. ASSUME NEW k \in l.keys
        PROVE  IF selected # Live THEN values'[k] = ValueAt(k, selected)
               ELSE values'[k] >= ValueAt(k, cursor.stateVersion)
    <3>1. ValueAt(k, cursor.stateVersion) <= ValueAt(k, v)
      BY <1>1, <1>7, ValueAtMonotone
    <3>2. ValueAt(k, cursor.stateVersion) \in 0..cursor.stateVersion /\ ValueAt(k, v) \in 0..v
      BY <1>1, <1>7, ValueAtLast
    <3>3. QED
      BY <1>5, <1>7, <3>1, <3>2
  <2>2. ASSUME NEW k \in DOMAIN values \ l.keys
        PROVE  IF selected # Live THEN values'[k] = ValueAt(k, selected)
               ELSE values'[k] >= ValueAt(k, cursor.stateVersion)
    BY <1>5, <1>6 DEF StoreInv, ValuesOfVersion
  <2>3. \A k : ValueAt(k, selected)' = ValueAt(k, selected)
               /\ ValueAt(k, cursor.stateVersion)' = ValueAt(k, cursor.stateVersion)
    BY <1>1 DEF ValueAt
  <2>4. \A k \in DOMAIN values' : IF selected # Live THEN values'[k] = ValueAt(k, selected)
                                  ELSE values'[k] >= ValueAt(k, cursor.stateVersion)
    BY <1>5, <2>1, <2>2
  <2>5. QED
    BY <1>1, <2>3, <2>4 DEF ValuesOfVersion
<1>13. QED
  BY <1>8, <1>9, <1>11, <1>12 DEF StoreInv

LEMMA LoadFailing ==
  ASSUME LedgerInv, StoreInv, NEW c \in Calls, LoadFails(c), UNCHANGED writes
  PROVE  StoreInv'
<1>1. /\ UNCHANGED <<values, cursor, selected>> /\ load' = Ended(c, load)
      /\ lost' = (lost \/ load[c].stage = "data")
  BY DEF LoadFails
<1>2. /\ load' \in [Calls -> Load] /\ load'[c] = Idle
      /\ \A d \in Calls : d # c => load'[d] = load[d]
  BY <1>1, LoadEnds
<1>3. Idle.stage = "idle"
  BY DEF Idle
<1>4. StoreType'
  BY <1>1, <1>2, SameLedger DEF StoreInv, StoreType
<1>5. PinInv'
  BY <1>1, <1>2, <1>3 DEF StoreInv, PinInv
<1>6. ASSUME ~lost'
      PROVE  ~lost /\ \A k : k \in Covered => k \in Covered'
  <2>1. ~lost /\ load[c].stage # "data"
    BY <1>1, <1>6
  <2>2. \A d \in Calls : load[d].stage = "data" => load'[d] = load[d]
    BY <1>2, <2>1
  <2>3. QED
    BY <1>1, <2>1, <2>2 DEF Covered
<1>7. Present(cursor.stateVersion)' = Present(cursor.stateVersion)
  BY <1>1, SameLedger DEF Present, ValueAt
<1>8. CoverInv'
  BY <1>1, <1>2, <1>3, <1>6, <1>7 DEF StoreInv, CoverInv
<1>9. ValuesOfVersion'
  BY <1>1, SameLedger DEF StoreInv, ValuesOfVersion, ValueAt
<1>10. QED
  BY <1>4, <1>5, <1>8, <1>9 DEF StoreInv

LEMMA StoreAndWrite ==
  ASSUME LedgerInv, StoreInv, Write, UNCHANGED storeVars
  PROVE  StoreInv'
<1>1. UNCHANGED <<values, cursor, load, selected, lost>>
  BY DEF storeVars
<1>2. /\ Version' = Version + 1 /\ Version \in Nat
      /\ \A v \in 0..Version : \A k : ValueAt(k, v)' = ValueAt(k, v)
      /\ \A v \in 0..Version : Present(v)' = Present(v)
  BY WriteKeeps
<1>3. cursor.stateVersion \in 0..Version /\ selected \in 0..Version
  BY <1>2 DEF StoreInv, StoreType
<1>4. StoreType'
  BY <1>1, <1>2, <1>3 DEF StoreInv, StoreType
<1>5. PinInv'
  BY <1>1 DEF StoreInv, PinInv
<1>6. /\ \A k : ValueAt(k, cursor.stateVersion)' = ValueAt(k, cursor.stateVersion)
      /\ \A k : ValueAt(k, selected)' = ValueAt(k, selected)
      /\ Present(cursor.stateVersion)' = Present(cursor.stateVersion)
  <2>1. \A i \in 1..Version : writes'[i] = writes[i]
    BY DEF Write, LedgerInv, Version
  <2>2. \A k : /\ {i \in 1..cursor'.stateVersion : writes'[i] = k}
                    = {i \in 1..cursor.stateVersion : writes[i] = k}
               /\ {i \in 1..selected' : writes'[i] = k} = {i \in 1..selected : writes[i] = k}
    BY <1>1, <1>2, <1>3, <2>1
  <2>3. \A k : /\ ValueAt(k, cursor.stateVersion)' = ValueAt(k, cursor.stateVersion)
               /\ ValueAt(k, selected)' = ValueAt(k, selected)
    BY <2>2 DEF ValueAt
  <2>4. QED
    BY <2>3 DEF Present
<1>7. CoverInv'
  BY <1>1, <1>6 DEF StoreInv, CoverInv, Covered
<1>8. ValuesOfVersion'
  BY <1>1, <1>6 DEF StoreInv, ValuesOfVersion
<1>9. QED
  BY <1>4, <1>5, <1>7, <1>8 DEF StoreInv

-----------------------------------------------------------------------------
(* The NFTs' steps *)

LEMMA SetToSeqFacts ==
  ASSUME NEW S, IsFiniteSet(S)
  PROVE  /\ SetToSeq(S) \in Seq(S) /\ ToSet(SetToSeq(S)) = S
         /\ \A i, j \in DOMAIN SetToSeq(S) : SetToSeq(S)[i] = SetToSeq(S)[j] => i = j
<1> DEFINE n == Cardinality(S)
           f == SetToSeq(S)
<1>1. n \in Nat /\ ExistsBijection(1..n, S)
  BY FS_CardinalityType
<1>2. \E g \in [1..n -> S] : IsInjective(g)
  BY <1>1 DEF ExistsBijection, Bijection, Injection
<1>3. f \in [1..n -> S] /\ IsInjective(f)
  BY <1>2 DEF SetToSeq
<1>4. IsFiniteSet(1..n) /\ Cardinality(1..n) = n
  BY <1>1, FS_Interval
<1>5. f \in Injection(1..n, S)
  BY <1>3 DEF Injection
<1> HIDE DEF f
<1>6. f \in Surjection(1..n, S)
  BY <1>4, <1>5, FS_Injection
<1>7. S = {f[i] : i \in DOMAIN f}
  BY <1>3, <1>6 DEF Surjection
<1>8. f \in Seq(S)
  BY <1>1, <1>3
<1>9. \A i, j \in DOMAIN f : f[i] = f[j] => i = j
  BY <1>3 DEF IsInjective
<1>10. QED
  BY <1>7, <1>8, <1>9 DEF ToSet, f

LEMMA MaxOfZero ==
  ASSUME NEW x \in Int
  PROVE  Max({0, x}) = IF x < 0 THEN 0 ELSE x
<1> DEFINE m == IF x < 0 THEN 0 ELSE x
<1>1. m \in {0, x} /\ \A y \in {0, x} : m >= y
  OBVIOUS
<1>2. \A k \in {0, x} : (\A y \in {0, x} : k >= y) => k = m
  OBVIOUS
<1>3. QED
  BY <1>1, <1>2 DEF Max

\* A batch has all ids between its first and its last.
LEMMA BatchIds ==
  ASSUME NEW n \in 0..Len(NftIds)
  PROVE  LET m == Max({0, n - NftBatch}) IN
         /\ m \in 0..n
         /\ \A i \in DOMAIN NftIds : m < i /\ i <= n => NftIds[i] \in ToSet(SubSeq(NftIds, m + 1, n))
         /\ ToSet(SubSeq(NftIds, m + 1, n)) \subseteq Keys
<1> DEFINE m == Max({0, n - NftBatch})
           s == SubSeq(NftIds, m + 1, n)
<1>1. NftIds \in Seq(Keys) /\ Len(NftIds) \in Nat /\ n \in Nat /\ NftBatch \in Nat
  BY NftAssumption
<1>2. m \in 0..n
  BY <1>1, MaxOfZero
<1> HIDE DEF m
<1>3. s \in Seq(Keys) /\ Len(s) = n - m /\ \A j \in 1..(n - m) : s[j] = NftIds[j + m]
  BY <1>1, <1>2
<1>4. ASSUME NEW i \in DOMAIN NftIds, m < i, i <= n
      PROVE  NftIds[i] \in ToSet(s)
  <2>1. i \in Nat /\ i - m \in 1..(n - m) /\ (i - m) + m = i
    BY <1>1, <1>2, <1>4
  <2>2. i - m \in DOMAIN s /\ s[i - m] = NftIds[i]
    BY <1>2, <1>1, <1>3, <2>1
  <2> HIDE DEF s
  <2>3. QED
    BY <2>2 DEF ToSet
<1>5. ToSet(s) \subseteq Keys
  <2> HIDE DEF s
  <2>1. QED
    BY <1>3 DEF ToSet
<1>6. QED
  BY <1>2, <1>4, <1>5 DEF m

\* An NFT that has to be in the answer is on the ledger when it is asked for.
LEMMA SinceFacts ==
  ASSUME LedgerInv, NftInv
  PROVE  /\ AnsweredAt(nft.at) \in 0..Version /\ Since \in 0..Version
         /\ Present(Since) \subseteq Present(AnsweredAt(nft.at))
<1>1. Version \in Nat /\ Len(Initially) \in Nat /\ Len(Initially) <= Version
  BY LedgerAssumption DEF LedgerInv, Version
<1>2. nft.at \in 0..Version
  BY DEF NftInv
<1>3. AnsweredAt(nft.at) \in 0..Version /\ Since \in 0..Version /\ Since <= AnsweredAt(nft.at)
  BY <1>1, <1>2 DEF AnsweredAt, Since, Live
<1>4. QED
  BY <1>3, PresentFacts

LEMMA NftsArrive ==
  ASSUME LedgerInv, NftInv, GotNfts, UNCHANGED writes
  PROVE  NftInv'
<1> DEFINE batch == IdsToLoad(nft.left, nft.found)
           v == AnsweredAt(nft.at)
           m == Max({0, nft.left - NftBatch})
           page == {[id |-> i, at |-> v] : i \in batch \cap Present(v)}
<1>1. /\ nft.stage = "data" /\ nft.page = {} /\ nft.left \in 0..Len(NftIds)
      /\ Len(NftIds) \in Nat /\ Version \in Nat
      /\ nft = [stage |-> nft.stage, at |-> nft.at, left |-> nft.left, batch |-> nft.batch,
                page |-> nft.page, found |-> nft.found]
  BY NftAssumption DEF GotNfts, NftInv, LedgerInv, Version
<1>2. nft.left \in Nat
  BY <1>1
<1>3. nft' = IF nft.left = 0 THEN [nft EXCEPT !.stage = "done"]
             ELSE IF batch = {} THEN [nft EXCEPT !.left = m]
             ELSE [nft EXCEPT !.stage = "locations", !.batch = batch, !.left = m, !.page = page]
  BY DEF GotNfts
<1>4. /\ m \in 0..nft.left
      /\ \A i \in DOMAIN NftIds : m < i /\ i <= nft.left =>
           NftIds[i] \in LoadedIds(nft.found) \cup batch
      /\ batch \cap LoadedIds(nft.found) = {}
  BY <1>1, BatchIds DEF IdsToLoad
<1>5. /\ v \in 0..Version /\ v \in Nat /\ v <= Version /\ Present(Since) \subseteq Present(v)
      /\ IsFiniteSet(Present(v)) /\ (nft.at # Live => v = nft.at)
  BY <1>1, SinceFacts, PresentFacts DEF AnsweredAt
<1>7. IsFiniteSet(page)
  <2> DEFINE ids == batch \cap Present(v)
             f == [i \in ids |-> [id |-> i, at |-> v]]
  <2>1. IsFiniteSet(ids)
    BY <1>5, FS_Subset
  <2>2. f \in Surjection(ids, page)
    BY DEF Surjection
  <2> HIDE DEF ids, f, page
  <2>3. QED
    BY <2>1, <2>2, FS_Surjection
<1>8. /\ \A p \in page : p.id \in batch \cap Present(v) /\ p.at = v
      /\ \A p, q \in page : p.id = q.id => p = q
      /\ {p.id : p \in page} = batch \cap Present(v)
  <2>1. \A p \in page : p.id \in batch \cap Present(v) /\ p.at = v
    OBVIOUS
  <2>2. \A p, q \in page : p.id = q.id => p = q
    OBVIOUS
  <2>3. \A i \in batch \cap Present(v) : \E p \in page : p.id = i
    <3>1. \A i \in batch \cap Present(v) : [id |-> i, at |-> v] \in page
      OBVIOUS
    <3>2. \A i : [id |-> i, at |-> v].id = i
      OBVIOUS
    <3> HIDE DEF page, batch, v
    <3>3. QED
      BY <3>1, <3>2
  <2> HIDE DEF page, batch, v
  <2>4. QED
    BY <2>1, <2>2, <2>3
<1> HIDE DEF batch, v, m, page
<1>9. CASE nft.left = 0
  <2>1. nft' = [stage |-> "done", at |-> nft.at, left |-> nft.left, batch |-> nft.batch,
                page |-> nft.page, found |-> nft.found]
    BY <1>1, <1>3, <1>9
  <2>2. Present(Since)' = Present(Since)
    BY <2>1, SameLedger DEF Since, Present, ValueAt
  <2>3. QED
    BY <1>1, <1>9, <2>1, <2>2, SameLedger DEF NftInv
<1>10. CASE nft.left # 0 /\ batch = {}
  <2>1. nft' = [stage |-> nft.stage, at |-> nft.at, left |-> m, batch |-> nft.batch,
                page |-> nft.page, found |-> nft.found]
    BY <1>1, <1>3, <1>10
  <2>2. Present(Since)' = Present(Since)
    BY <2>1, SameLedger DEF Since, Present, ValueAt
  <2>3. ASSUME NEW i \in DOMAIN NftIds, m < i, NftIds[i] \in Present(Since)
        PROVE  NftIds[i] \in LoadedIds(nft.found)
    <3>1. CASE i <= nft.left
      BY <1>4, <1>10, <2>3, <3>1
    <3>2. CASE nft.left < i
      BY <1>1, <2>3, <3>2 DEF NftInv
    <3>3. QED
      BY <1>2, <3>1, <3>2, NftAssumption
  <2>4. m \in 0..Len(NftIds)
    BY <1>1, <1>4
  <2>5. QED
    BY <1>1, <2>1, <2>2, <2>3, <2>4, SameLedger DEF NftInv
<1>11. CASE nft.left # 0 /\ batch # {}
  <2>1. nft' = [stage |-> "locations", at |-> nft.at, left |-> m, batch |-> batch,
                page |-> page, found |-> nft.found]
    BY <1>1, <1>3, <1>11
  <2>2. Present(Since)' = Present(Since)
    BY <2>1, SameLedger DEF Since, Present, ValueAt
  <2>3. ASSUME NEW i \in DOMAIN NftIds, m < i, NftIds[i] \in Present(Since)
        PROVE  NftIds[i] \in LoadedIds(nft.found) \cup {p.id : p \in page}
    <3>1. CASE i <= nft.left
      BY <1>4, <1>5, <1>8, <2>3, <3>1
    <3>2. CASE nft.left < i
      BY <1>1, <2>3, <3>2 DEF NftInv
    <3>3. QED
      BY <1>2, <3>1, <3>2, NftAssumption
  <2>4. m \in 0..Len(NftIds)
    BY <1>1, <1>4
  <2>5. \A p \in page : /\ p.id \notin LoadedIds(nft.found) /\ p.at \in Nat /\ p.at <= Version
                        /\ nft.at # Live => p.at = nft.at
    BY <1>4, <1>5, <1>8
  <2>6. QED
    BY <1>1, <1>7, <1>8, <2>1, <2>2, <2>3, <2>4, <2>5, SameLedger DEF NftInv
<1>12. QED
  BY <1>9, <1>10, <1>11

LEMMA LocationsArrive ==
  ASSUME LedgerInv, NftInv, GotLocations, UNCHANGED writes
  PROVE  NftInv'
<1> DEFINE v == OwnerVersion
           full == {[id |-> p.id, at |-> p.at, owner |-> v] : p \in nft.page}
           more == SetToSeq(full)
           found == nft.found \o more
<1>1. /\ nft.stage = "locations" /\ Version \in Nat
      /\ nft = [stage |-> nft.stage, at |-> nft.at, left |-> nft.left, batch |-> nft.batch,
                page |-> nft.page, found |-> nft.found]
      /\ IsFiniteSet(nft.page) /\ nft.at \in 0..Version /\ nft.left \in 0..Len(NftIds)
      /\ nft.found \in Seq(ToSet(nft.found))
  BY DEF GotLocations, NftInv, LedgerInv, Version
<1>2. nft' = [nft EXCEPT !.stage = "data", !.page = {}, !.batch = {}, !.found = found]
  BY DEF GotLocations
<1>3. v = (IF nft.at = Live THEN Version ELSE nft.at)
  BY DEF OwnerVersion, AnsweredAt
<1>4. IsFiniteSet(full)
  <2> DEFINE f == [p \in nft.page |-> [id |-> p.id, at |-> p.at, owner |-> v]]
  <2>1. f \in Surjection(nft.page, full)
    BY DEF Surjection
  <2> HIDE DEF f, full
  <2>2. QED
    BY <1>1, <2>1, FS_Surjection
<1>5. /\ \A x \in full : \E p \in nft.page : x.id = p.id /\ x.at = p.at /\ x.owner = v
      /\ \A x, y \in full : x.id = y.id => x = y
      /\ \A p \in nft.page : \E x \in full : x.id = p.id
  <2>1. \A p, q \in nft.page : p.id = q.id => p = q
    BY DEF NftInv
  <2>2. \A x \in full : \E p \in nft.page : x = [id |-> p.id, at |-> p.at, owner |-> v]
    OBVIOUS
  <2>3. \A p \in nft.page : [id |-> p.id, at |-> p.at, owner |-> v] \in full
    OBVIOUS
  <2>4. \A p : LET x == [id |-> p.id, at |-> p.at, owner |-> v] IN
                 x.id = p.id /\ x.at = p.at /\ x.owner = v
    OBVIOUS
  <2> HIDE DEF full, v
  <2>5. \A x \in full : \E p \in nft.page : x.id = p.id /\ x.at = p.at /\ x.owner = v
    BY <2>2, <2>4
  <2>6. \A x, y \in full : x.id = y.id => x = y
    <3>1. TAKE x \in full, y \in full
    <3>2. PICK p \in nft.page : x = [id |-> p.id, at |-> p.at, owner |-> v]
      BY <2>2
    <3>3. PICK q \in nft.page : y = [id |-> q.id, at |-> q.at, owner |-> v]
      BY <2>2
    <3>4. x.id = p.id /\ y.id = q.id
      BY <3>2, <3>3
    <3>5. QED
      BY <2>1, <3>2, <3>3, <3>4
  <2>7. \A p \in nft.page : \E x \in full : x.id = p.id
    BY <2>3, <2>4
  <2>8. QED
    BY <2>5, <2>6, <2>7
<1>6. /\ more \in Seq(full) /\ ToSet(more) = full
      /\ \A i, j \in DOMAIN more : more[i] = more[j] => i = j
  <2> HIDE DEF full
  <2>1. QED
    BY <1>4, SetToSeqFacts
<1> HIDE DEF v, full, more
<1>7. /\ Len(nft.found) \in Nat /\ Len(more) \in Nat
      /\ DOMAIN nft.found = 1..Len(nft.found) /\ DOMAIN more = 1..Len(more)
      /\ DOMAIN found = 1..(Len(nft.found) + Len(more))
      /\ \A i \in DOMAIN nft.found : i \in DOMAIN found /\ found[i] = nft.found[i]
      /\ \A i \in DOMAIN more :
           i + Len(nft.found) \in DOMAIN found /\ found[i + Len(nft.found)] = more[i]
  BY <1>1, <1>6
<1>8. \A i \in DOMAIN found :
        \/ i \in DOMAIN nft.found
        \/ i - Len(nft.found) \in DOMAIN more /\ found[i] = more[i - Len(nft.found)]
  <2>1. \A i \in DOMAIN found : i \in DOMAIN nft.found \/ i - Len(nft.found) \in DOMAIN more
    BY <1>7
  <2>2. \A i \in DOMAIN found : (i - Len(nft.found)) + Len(nft.found) = i
    BY <1>7
  <2> HIDE DEF found
  <2>3. QED
    BY <1>7, <2>1, <2>2
<1>9. found \in Seq(ToSet(found))
  <2>1. found = [i \in 1..(Len(nft.found) + Len(more)) |-> found[i]]
    BY <1>1, <1>6
  <2>2. \A i \in DOMAIN found : found[i] \in ToSet(found)
    BY DEF ToSet
  <2> HIDE DEF found
  <2>3. Len(nft.found) + Len(more) \in Nat
    BY <1>7
  <2>4. QED
    BY <1>7, <2>1, <2>2, <2>3
<1> HIDE DEF found
<1>10. nft' = [stage |-> "data", at |-> nft.at, left |-> nft.left, batch |-> {},
               page |-> {}, found |-> found]
  BY <1>1, <1>2
<1>11. \A i \in DOMAIN nft.found : nft.found[i].id \in LoadedIds(nft.found)
  BY DEF LoadedIds
<1>12. \A i \in DOMAIN more : more[i] \in full
  BY <1>6
<1>13. \A x \in full : x.id \notin LoadedIds(nft.found)
  BY <1>5 DEF NftInv
<1>14. ASSUME NEW i \in DOMAIN found, NEW j \in DOMAIN found, found[i].id = found[j].id
       PROVE  i = j
  <2>1. CASE i \in DOMAIN nft.found /\ j \in DOMAIN nft.found
    BY <1>7, <1>14, <2>1 DEF NftInv
  <2>2. CASE i \in DOMAIN nft.found /\ j \notin DOMAIN nft.found
    BY <1>7, <1>8, <1>11, <1>12, <1>13, <1>14, <2>2
  <2>3. CASE i \notin DOMAIN nft.found /\ j \in DOMAIN nft.found
    BY <1>7, <1>8, <1>11, <1>12, <1>13, <1>14, <2>3
  <2>4. CASE i \notin DOMAIN nft.found /\ j \notin DOMAIN nft.found
    <3>1. more[i - Len(nft.found)] = more[j - Len(nft.found)]
      BY <1>5, <1>8, <1>12, <1>14, <2>4
    <3>2. i - Len(nft.found) = j - Len(nft.found)
      BY <1>6, <1>8, <2>4, <3>1
    <3>3. i \in Nat /\ j \in Nat
      BY <1>7
    <3>4. QED
      BY <1>7, <3>2, <3>3
  <2>5. QED
    BY <2>1, <2>2, <2>3, <2>4
<1>15. LoadedIds(nft.found) \cup {p.id : p \in nft.page} \subseteq LoadedIds(found)
  <2>1. \A i \in DOMAIN nft.found : nft.found[i].id \in LoadedIds(found)
    BY <1>7 DEF LoadedIds
  <2>2. \A i \in DOMAIN more : more[i].id \in LoadedIds(found)
    BY <1>7 DEF LoadedIds
  <2>3. \A x \in full : \E i \in DOMAIN more : x = more[i]
    BY <1>6 DEF ToSet
  <2>4. \A p \in nft.page : p.id \in LoadedIds(found)
    BY <1>5, <2>2, <2>3
  <2>5. \A x \in LoadedIds(nft.found) : x \in LoadedIds(found)
    BY <2>1 DEF LoadedIds
  <2>6. QED
    BY <2>4, <2>5
<1>16. ASSUME NEW i \in DOMAIN found
       PROVE  IF nft.at = Live THEN found[i].at <= found[i].owner
              ELSE found[i].at = nft.at /\ found[i].owner = nft.at
  <2>1. CASE i \in DOMAIN nft.found
    BY <1>7, <2>1 DEF NftInv
  <2>2. CASE i \notin DOMAIN nft.found
    <3>1. found[i] \in full
      BY <1>8, <1>12, <2>2
    <3>2. PICK p \in nft.page : found[i].at = p.at /\ found[i].owner = v
      BY <1>5, <3>1
    <3>3. p.at \in Nat /\ p.at <= Version /\ (nft.at # Live => p.at = nft.at)
      BY DEF NftInv
    <3>4. QED
      BY <1>3, <3>2, <3>3
  <2>3. QED
    BY <2>1, <2>2
<1>17. Present(Since)' = Present(Since)
  BY <1>10, SameLedger DEF Since, Present, ValueAt
<1>18. \A i \in DOMAIN NftIds : nft.left < i /\ NftIds[i] \in Present(Since) =>
         NftIds[i] \in LoadedIds(found)
  BY <1>15 DEF NftInv
<1>19. IsFiniteSet({})
  BY FS_EmptySet
<1>20. QED
  BY <1>1, <1>9, <1>10, <1>14, <1>16, <1>17, <1>18, <1>19, SameLedger DEF NftInv

LEMMA NftFailing ==
  ASSUME LedgerInv, NftInv, NftFails, UNCHANGED writes
  PROVE  NftInv'
<1>1. nft' = [stage |-> "thrown", at |-> nft.at, left |-> nft.left, batch |-> nft.batch,
              page |-> nft.page, found |-> nft.found]
  BY DEF NftFails, NftInv
<1>2. Present(Since)' = Present(Since)
  BY <1>1, SameLedger DEF Since, Present, ValueAt
<1>3. QED
  BY <1>1, <1>2, SameLedger DEF NftInv

LEMMA NftAndWrite ==
  ASSUME LedgerInv, NftInv, Write, UNCHANGED nft
  PROVE  NftInv'
<1>1. /\ Version' = Version + 1 /\ Version \in Nat
      /\ \A v \in 0..Version : Present(v)' = Present(v)
  BY WriteKeeps
<1>2. Since \in 0..Version
  BY SinceFacts
<1>3. Since' = Since
  BY DEF Since
<1>4. Present(Since)' = Present(Since)
  <2>1. \A i \in 1..Version : writes'[i] = writes[i]
    BY DEF Write, LedgerInv, Version
  <2>2. \A k : {i \in 1..Since' : writes'[i] = k} = {i \in 1..Since : writes[i] = k}
    BY <1>1, <1>2, <1>3, <2>1
  <2>3. \A k : ValueAt(k, Since)' = ValueAt(k, Since)
    BY <2>2 DEF ValueAt
  <2>4. QED
    BY <2>3 DEF Present
<1>5. QED
  BY <1>1, <1>3, <1>4 DEF NftInv

-----------------------------------------------------------------------------
(* The market's steps *)

\* When there is one version only, all requests are answered at it.
LEMMA OneVersionRead ==
  ASSUME NEW at \in Nat, NEW start \in Nat, NEW end \in Nat, at # Live \/ start = end,
         NEW r \in Reads(at, start, end)
  PROVE  LET v == IF at = Live THEN end ELSE at IN r.keys = v /\ r.data = v
<1>1. CASE at # Live
  <2>1. r = [keys |-> at, data |-> at]
    BY <1>1 DEF Reads
  <2>2. QED
    BY <1>1, <2>1
<1>2. CASE at = Live
  <2>1. r \in [keys : start..end, data : start..end]
    BY <1>2 DEF Reads
  <2>2. QED
    BY <1>2, <2>1
<1>3. QED
  BY <1>1, <1>2

\* A store that fits on a page is read whole.
LEMMA WholeStore ==
  ASSUME NEW v \in 1..MaxWrites, NEW s \in DOMAIN MarketAt[v],
         IsFiniteSet(DOMAIN MarketAt[v][s]), Cardinality(DOMAIN MarketAt[v][s]) <= MarketPage,
         MarketAt[v][s] = [k \in DOMAIN MarketAt[v][s] |-> MarketAt[v][s][k]],
         NEW r, r.keys = v, r.data = v
  PROVE  FirstEntries(s, r) = MarketAt[v][s]
<1> DEFINE D == DOMAIN MarketAt[v][s]
           Upto(k) == {j \in D : j <= k}
<1>1. \A k : Cardinality(Upto(k)) <= MarketPage
  <2>1. \A k : Upto(k) \in SUBSET D
    OBVIOUS
  <2> HIDE DEF Upto
  <2>2. \A k : Cardinality(Upto(k)) <= Cardinality(D) /\ Cardinality(Upto(k)) \in Nat
    BY <2>1, FS_Subset, FS_CardinalityType
  <2>3. Cardinality(D) \in Nat
    BY FS_CardinalityType
  <2>4. QED
    BY <2>2, <2>3, MarketAssumption
<1>2. FirstPage(D) = D
  BY <1>1 DEF FirstPage
<1>3. QED
  BY <1>2 DEF FirstEntries

\* What is put together depends on nothing but the component and the stores.
LEMMA SameMarket ==
  ASSUME NEW m, NEW n, \A s \in Stores \cup {"component"} : m[s] = n[s]
  PROVE  MarketInfos(m) = MarketInfos(n) /\ (Dangles(m) <=> Dangles(n))
<1>1. /\ m.resources = n.resources /\ m.collateralConfigs = n.collateralConfigs
      /\ m.loanConfigs = n.loanConfigs /\ m.groups = n.groups
      /\ m.loanServices = n.loanServices /\ m.collateralServices = n.collateralServices
      /\ m.poolServices = n.poolServices /\ m.pools = n.pools
      /\ m.component = n.component
  BY DEF Stores
<1>2. \A k : LoanResource(m, k) = LoanResource(n, k)
  BY <1>1 DEF LoanResource, LendingPool
<1>3. \A k : CollateralResource(m, k) = CollateralResource(n, k)
  BY <1>1 DEF CollateralResource
<1>4. Dangles(m) <=> Dangles(n)
  BY <1>1 DEF Dangles
<1>5. MarketInfos(m) = MarketInfos(n)
  BY <1>1, <1>2, <1>3 DEF MarketInfos
<1>6. QED
  BY <1>4, <1>5

\* What is read of one version whose stores each fit on a page is that version's market.
LEMMA ReadsWhole ==
  ASSUME NEW v \in 1..MaxWrites, OnePage(v), NEW at, at = Live \/ at = v,
         NEW r, \A s \in (Stores \ {"poolServices", "pools"}) \cup {"component"} :
                  r[s].keys = v /\ r[s].data = v,
         NEW p, p.keys = v, p.data = v
  PROVE  \A s \in Stores \cup {"component"} : ReadMarket(at, r, p)[s] = MarketOf(at, v)[s]
<1> DEFINE m == ReadMarket(at, r, p)
           n == MarketOf(at, v)
<1>1. Stores \cup {"component"} \subseteq DOMAIN MarketAt[v]
      /\ MarketAt[v] = [s \in DOMAIN MarketAt[v] |-> MarketAt[v][s]]
  BY MarketAssumption
<1>2. \A s \in DOMAIN MarketAt[v] \ {"pools"} : n[s] = MarketAt[v][s]
  BY <1>1 DEF MarketOf
<1>3. n["pools"] = IF at = Live THEN [q \in DefaultPools \cap DOMAIN MarketAt[v]["pools"] |->
                                        MarketAt[v]["pools"][q]]
                   ELSE MarketAt[v]["pools"]
  BY <1>1 DEF MarketOf, Stores
<1>4. \A s \in Stores : \A q : q.keys = v /\ q.data = v => FirstEntries(s, q) = MarketAt[v][s]
  <2>1. ASSUME NEW s \in Stores, NEW q, q.keys = v, q.data = v
        PROVE  FirstEntries(s, q) = MarketAt[v][s]
    <3>1. /\ s \in DOMAIN MarketAt[v] /\ IsFiniteSet(DOMAIN MarketAt[v][s])
          /\ MarketAt[v][s] = [k \in DOMAIN MarketAt[v][s] |-> MarketAt[v][s][k]]
      BY <1>1, MarketAssumption
    <3>2. Cardinality(DOMAIN MarketAt[v][s]) <= MarketPage
      BY DEF OnePage
    <3>3. QED
      BY <2>1, <3>1, <3>2, WholeStore
  <2>2. QED
    BY <2>1
<1>5. ASSUME NEW s \in Stores, s \notin {"poolServices", "pools"}
      PROVE  m[s] = n[s]
  <2>1. m[s] = FirstEntries(s, r[s])
    BY <1>5 DEF ReadMarket, Stores
  <2>2. FirstEntries(s, r[s]) = MarketAt[v][s]
    BY <1>4, <1>5
  <2>3. QED
    BY <1>1, <1>2, <1>5, <2>1, <2>2
<1>6. m["poolServices"] = n["poolServices"]
  <2>1. m["poolServices"] = FirstEntries("poolServices", p)
    BY DEF ReadMarket, Stores
  <2>2. QED
    BY <1>1, <1>2, <1>4, <2>1 DEF Stores
<1>7. m["component"] = n["component"]
  <2>1. m["component"] = MarketAt[r["component"].data].component
    BY DEF ReadMarket
  <2>2. QED
    BY <1>1, <1>2, <2>1
<1>8. m["pools"] = n["pools"]
  <2>1. m["pools"] = PoolStates(at, p)
    BY DEF ReadMarket, Stores, PoolsSelector
  <2>2. CASE at = Live
    BY <1>3, <2>1, <2>2 DEF PoolStates
  <2>3. CASE at # Live
    BY <1>3, <1>4, <2>1, <2>3 DEF PoolStates, Stores
  <2>4. QED
    BY <2>2, <2>3
<1> HIDE DEF m, n
<1>9. \A s \in Stores \cup {"component"} : m[s] = n[s]
  BY <1>5, <1>6, <1>7, <1>8
<1>10. QED
  BY <1>9 DEF m, n

LEMMA MarketComes ==
  ASSUME LedgerInv, MarketInv, MarketAnswered, UNCHANGED writes
  PROVE  MarketInv'
<1> DEFINE at == market.at
           v == IF at = Live THEN Version ELSE at
<1>1. /\ market.stage = "reading" /\ market.start # 0
      /\ market = [stage |-> market.stage, at |-> market.at, start |-> market.start,
                   end |-> market.end, info |-> market.info]
      /\ at \in 0..Version /\ market.start \in 0..Version
      /\ Version \in Nat /\ Version <= MaxWrites /\ MaxWrites \in Nat
  BY LedgerAssumption DEF MarketAnswered, MarketInv, LedgerInv, Version
<1>2. Version \in 0..Version /\ Version # 0
  BY <1>1
<1>3. PICK r \in [(Stores \ {"poolServices", "pools"}) \cup {"component"} ->
                    Reads(at, market.start, Version)],
           p \in Reads(at, market.start, Version) :
        LET m == ReadMarket(at, r, p)
            thrown == PoolsThrow(at, m.pools) \/ m.component = Undefined \/ Dangles(m) IN
        market' = [market EXCEPT !.stage = IF thrown THEN "thrown" ELSE "answered",
                                 !.end = Version,
                                 !.info = IF thrown THEN <<>> ELSE MarketInfos(m)]
  BY DEF MarketAnswered, PoolsSelector
<1> DEFINE m == ReadMarket(at, r, p)
           thrown == PoolsThrow(at, m.pools) \/ m.component = Undefined \/ Dangles(m)
           info == IF thrown THEN <<>> ELSE MarketInfos(m)
           stage == IF thrown THEN "thrown" ELSE "answered"
<1>4. market' = [market EXCEPT !.stage = stage, !.end = Version, !.info = info]
  BY <1>3
<1>5. stage \in {"thrown", "answered"} /\ (stage = "thrown" <=> thrown)
      /\ (stage = "answered" => info = MarketInfos(m))
  BY Zenon
<1> HIDE DEF stage, info, thrown
<1>6. market' = [stage |-> stage, at |-> market.at, start |-> market.start, end |-> Version,
                 info |-> info]
  BY <1>1, <1>4
<1>7. ASSUME at # Live \/ market.start = Version, OnePage(v)
      PROVE  LET n == MarketOf(at, v) IN
             /\ stage = "thrown" =>
                  n.component = Undefined \/ Dangles(n) \/ PoolsThrow(at, n.pools)
             /\ stage = "answered" => info = MarketInfos(n)
  <2>1. v \in 1..MaxWrites /\ (at = Live \/ at = v)
    BY <1>1, <1>2 DEF Live
  <2>2. \A q \in Reads(at, market.start, Version) : q.keys = v /\ q.data = v
    BY <1>1, <1>7, OneVersionRead
  <2>3. \A s \in (Stores \ {"poolServices", "pools"}) \cup {"component"} :
          r[s] \in Reads(at, market.start, Version)
    OBVIOUS
  <2> HIDE DEF v
  <2>4. \A s \in (Stores \ {"poolServices", "pools"}) \cup {"component"} :
          r[s].keys = v /\ r[s].data = v
    BY <2>2, <2>3
  <2>5. p.keys = v /\ p.data = v
    BY <2>2
  <2> DEFINE n == MarketOf(at, v)
  <2>6. \A s \in Stores \cup {"component"} : m[s] = n[s]
    BY <1>7, <2>1, <2>4, <2>5, ReadsWhole
  <2> HIDE DEF m, n, at
  <2>7. MarketInfos(m) = MarketInfos(n) /\ (Dangles(m) <=> Dangles(n))
    BY <2>6, SameMarket
  <2>8. m.pools = n.pools /\ m.component = n.component
    BY <2>6 DEF Stores
  <2>9. thrown => n.component = Undefined \/ Dangles(n) \/ PoolsThrow(at, n.pools)
    BY <2>7, <2>8 DEF thrown
  <2>10. QED
    BY <1>5, <2>7, <2>9 DEF n
<1>8. MarketSnapshot'
  BY <1>2, <1>6, <1>7 DEF MarketSnapshot
<1>9. QED
  BY <1>1, <1>2, <1>5, <1>6, <1>8, SameLedger DEF MarketInv

LEMMA MarketSteps ==
  ASSUME LedgerInv, MarketInv, MarketAsked \/ MarketFails, UNCHANGED writes
  PROVE  MarketInv'
<1>1. Version \in Nat /\ Version # 0
  BY LedgerAssumption DEF LedgerInv, Version
<1>2. CASE MarketAsked
  <2>1. PICK at \in {Live} \cup 1..Version :
          market' = [market EXCEPT !.stage = "reading", !.at = at, !.start = Version]
    BY <1>2 DEF MarketAsked
  <2>2. market' = [stage |-> "reading", at |-> at, start |-> Version,
                   end |-> market.end, info |-> market.info]
    BY <2>1 DEF MarketInv
  <2>3. at \in 0..Version /\ Version \in 0..Version
    BY <1>1 DEF Live
  <2>4. MarketSnapshot'
    BY <2>2 DEF MarketSnapshot
  <2>5. QED
    BY <1>1, <2>2, <2>3, <2>4, SameLedger DEF MarketInv
<1>3. CASE MarketFails
  <2>1. market' = [stage |-> "failed", at |-> market.at, start |-> market.start,
                   end |-> market.end, info |-> market.info]
    BY <1>3 DEF MarketFails, MarketInv
  <2>2. MarketSnapshot'
    BY <2>1 DEF MarketSnapshot
  <2>3. QED
    BY <2>1, <2>2, SameLedger DEF MarketInv
<1>4. QED
  BY <1>2, <1>3

LEMMA MarketAndWrite ==
  ASSUME LedgerInv, MarketInv, Write, UNCHANGED market
  PROVE  MarketInv'
<1>1. Version' = Version + 1 /\ Version \in Nat
  BY WriteKeeps
<1>2. MarketSnapshot'
  BY DEF MarketInv, MarketSnapshot
<1>3. QED
  BY <1>1, <1>2 DEF MarketInv

-----------------------------------------------------------------------------
(* The quotes' steps *)

LEMMA ElementsIn ==
  ASSUME NEW S, NEW f \in Seq(S)
  PROVE  \A i \in DOMAIN f : f[i] \in S
  OBVIOUS

\* The constructor's closing break point makes the first segment a usage falls in the one
\* the curve is in, up to and at full usage.
LEMMA CurveExact ==
  ASSUME NEW bps \in Seq([usage : Nat, rate : Int, slop : Int]), bps # <<>>,
         bps[1].usage = 0,
         \A i \in DOMAIN bps : bps[i].usage < FullUsage,
         \A i, j \in DOMAIN bps : i < j => bps[i].usage < bps[j].usage,
         NEW u \in 0..FullUsage
  PROVE  GetInterestRate(InterestStrategy(bps), u) = Curve(bps, u)
<1> DEFINE n == Len(bps)
           closing == [usage |-> FullUsage, rate |-> GetInterestRate(bps, FullUsage), slop |-> 0]
           ext == InterestStrategy(bps)
           reached == {i \in DOMAIN bps : bps[i].usage <= u}
           fits == {i \in 1..(Len(ext) - 1) : ext[i].usage <= u /\ u < ext[i + 1].usage}
<1>1. /\ n \in Nat /\ n # 0 /\ DOMAIN bps = 1..n /\ FullUsage \in Nat /\ u \in Nat
      /\ \A i \in 1..n : bps[i].usage \in Nat /\ bps[i].rate \in Int /\ bps[i].slop \in Int
  <2>1. FullUsage \in Nat
    BY QuotesAssumption
  <2>2. n \in Nat /\ n # 0 /\ DOMAIN bps = 1..n
    OBVIOUS
  <2>3. \A i \in 1..n : bps[i] \in [usage : Nat, rate : Int, slop : Int]
    <3>1. \A i \in DOMAIN bps : bps[i] \in [usage : Nat, rate : Int, slop : Int]
      BY ElementsIn
    <3> HIDE DEF n
    <3>2. QED
      BY <2>2, <3>1
  <2>4. \A b \in [usage : Nat, rate : Int, slop : Int] :
          b.usage \in Nat /\ b.rate \in Int /\ b.slop \in Int
    OBVIOUS
  <2> HIDE DEF n
  <2>5. \A i \in 1..n : bps[i].usage \in Nat /\ bps[i].rate \in Int /\ bps[i].slop \in Int
    BY <2>3, <2>4
  <2>6. u \in Nat
    BY <2>1
  <2>7. QED
    BY <2>1, <2>2, <2>5, <2>6
<1>0. /\ \A i \in 1..n : bps[i].usage < FullUsage
      /\ \A i, j \in 1..n : i < j => bps[i].usage < bps[j].usage
  BY <1>1
<1>2. /\ Len(ext) = n + 1 /\ ext[n + 1] = closing /\ closing.usage = FullUsage
      /\ \A i \in 1..n : ext[i] = bps[i]
  BY <1>1 DEF InterestStrategy
<1> HIDE DEF n
<1>3. reached \in SUBSET (0..n) /\ 1 \in reached
  BY <1>1
<1>4. PICK m \in reached : (\A i \in reached : i <= m) /\ m = Max(reached)
  <2> HIDE DEF reached
  <2>1. QED
    BY <1>1, <1>3, MaxOfSet
<1>5. m \in 1..n /\ bps[m].usage <= u
  BY <1>1, <1>4
<1>6. \A i \in 1..n : m < i => u < bps[i].usage
  <2>1. ASSUME NEW i \in 1..n, m < i, ~(u < bps[i].usage)
        PROVE  FALSE
    <3>1. i \in reached
      BY <1>1, <2>1
    <3>2. m \in Nat /\ i \in Nat
      BY <1>1, <1>5
    <3> HIDE DEF reached
    <3>3. QED
      BY <1>4, <2>1, <3>1, <3>2
  <2>2. QED
    BY <2>1
<1>7. Curve(bps, u) = bps[m].rate + (u - bps[m].usage) * bps[m].slop
  BY <1>4 DEF Curve
<1> HIDE DEF ext, closing
<1>8. CASE u < FullUsage
  <2>1. fits = {m}
    <3>1. m \in fits
      <4>1. m \in 1..(Len(ext) - 1) /\ ext[m].usage <= u
        BY <1>1, <1>2, <1>5
      <4>2. CASE m = n
        BY <1>2, <1>8, <4>1, <4>2
      <4>3. CASE m # n
        <5>1. m + 1 \in 1..n /\ m < m + 1
          BY <1>1, <1>5, <4>3
        <5>2. u < ext[m + 1].usage
          BY <1>2, <1>6, <5>1
        <5>3. QED
          BY <4>1, <5>2
      <4>4. QED
        BY <4>2, <4>3
    <3>2. ASSUME NEW i \in fits
          PROVE  i = m
      <4>1. i \in 1..n /\ ext[i].usage <= u /\ u < ext[i + 1].usage
        BY <1>1, <1>2
      <4>2. i <= m
        <5>1. ext[i] = bps[i] /\ bps[i].usage \in Nat
          BY <1>1, <1>2, <4>1
        <5>2. ~(u < bps[i].usage)
          BY <1>1, <4>1, <5>1
        <5>3. QED
          BY <1>5, <1>6, <4>1, <5>2
      <4>3. ~(i < m)
        <5>1. SUFFICES ASSUME i < m
                       PROVE  FALSE
          OBVIOUS
        <5>2. i + 1 \in 1..n /\ i + 1 <= m /\ ext[i + 1] = bps[i + 1] /\ bps[i + 1].usage \in Nat
          BY <1>1, <1>2, <1>5, <4>1, <5>1
        <5>3. bps[i + 1].usage <= bps[m].usage /\ bps[m].usage \in Nat
          <6>1. CASE i + 1 = m
            BY <5>2, <6>1
          <6>2. CASE i + 1 # m
            <7>1. i + 1 < m
              BY <1>5, <4>1, <5>2, <6>2
            <7>2. bps[i + 1].usage < bps[m].usage /\ bps[m].usage \in Nat
              BY <1>0, <1>1, <1>5, <5>2, <7>1
            <7>3. QED
              BY <5>2, <7>2
          <6>3. QED
            BY <6>1, <6>2
        <5>4. QED
          BY <1>1, <1>5, <4>1, <5>2, <5>3
      <4>4. QED
        BY <1>5, <4>1, <4>2, <4>3
    <3>3. QED
      BY <3>1, <3>2
  <2> HIDE DEF fits
  <2>2. fits # {} /\ Min(fits) = m
    BY <1>1, <1>5, <2>1 DEF Min
  <2>3. ext[m] = bps[m]
    BY <1>2, <1>5
  <2>4. GetInterestRate(ext, u) = ext[m].rate + (u - ext[m].usage) * ext[m].slop
    BY <2>2 DEF GetInterestRate, fits
  <2>5. QED
    BY <1>7, <2>3, <2>4 DEF ext
<1>9. CASE u = FullUsage
  <2>1. fits = {}
    <3>1. ASSUME NEW i \in fits
          PROVE  FALSE
      <4>1. i \in 1..n /\ u < ext[i + 1].usage
        BY <1>1, <1>2
      <4>2. CASE i = n
        BY <1>1, <1>2, <1>9, <4>1, <4>2
      <4>3. CASE i # n
        <5>1. i + 1 \in 1..n
          <6>1. n \in Nat /\ i \in 1..n /\ i # n
            BY <1>1, <4>1, <4>3
          <6>2. QED
            BY <6>1
        <5>2. ext[i + 1] = bps[i + 1] /\ bps[i + 1].usage \in Nat /\ bps[i + 1].usage < FullUsage
          BY <1>0, <1>1, <1>2, <5>1
        <5>3. QED
          BY <1>1, <1>9, <4>1, <5>2
      <4>4. QED
        BY <4>2, <4>3
    <3>2. QED
      BY <3>1
  <2>2. {i \in 1..(n - 1) : bps[i].usage <= FullUsage /\ FullUsage < bps[i + 1].usage} = {}
    <3>1. ASSUME NEW i \in 1..(n - 1), FullUsage < bps[i + 1].usage
          PROVE  FALSE
      <4>1. i + 1 \in 1..n
        BY <1>1
      <4>2. QED
        BY <1>0, <1>1, <3>1, <4>1
    <3>2. QED
      BY <3>1
  <2>3. GetInterestRate(bps, FullUsage) = bps[n].rate + (FullUsage - bps[n].usage) * bps[n].slop
    BY <2>2 DEF GetInterestRate, n
  <2>4. m = n
    <3>1. n \in 1..n /\ ~(u < bps[n].usage)
      BY <1>0, <1>1, <1>9
    <3>2. ~(m < n)
      BY <1>6, <3>1
    <3>3. QED
      BY <1>1, <1>5, <3>2
  <2> HIDE DEF fits
  <2>5. GetInterestRate(ext, u) = ext[n + 1].rate + (u - ext[n + 1].usage) * ext[n + 1].slop
    BY <1>2, <2>1 DEF GetInterestRate, fits
  <2>6. /\ ext[n + 1].rate = GetInterestRate(bps, FullUsage) /\ ext[n + 1].slop = 0
        /\ ext[n + 1].usage = FullUsage
    BY <1>2 DEF closing
  <2>7. GetInterestRate(bps, FullUsage) = Curve(bps, u)
    BY <1>7, <1>9, <2>3, <2>4
  <2>8. Curve(bps, u) \in Int
    <3>1. bps[n].rate \in Int /\ bps[n].slop \in Int /\ bps[n].usage \in Int /\ n \in 1..n
      BY <1>1
    <3>2. QED
      BY <1>1, <1>7, <2>4, <3>1
  <2>9. GetInterestRate(ext, u) = Curve(bps, u) + (u - u) * 0
    BY <1>9, <2>5, <2>6, <2>7
  <2>10. (u - u) * 0 = 0
    BY <1>1
  <2>11. QED
    BY <2>8, <2>9, <2>10 DEF ext
<1>10. QED
  BY <1>1, <1>8, <1>9

\* The batches have all resources asked for.
LEMMA InSomeBatch ==
  ASSUME NEW S, NEW asked \in Seq(S), NEW k \in ToSet(asked)
  PROVE  BatchOf(asked, k) \in 1..Batches(asked)
<1> DEFINE i == CHOOSE i \in DOMAIN asked : asked[i] = k
           n == Len(asked)
           q == (i - 1) \div PriceBatch
           Q == (n + PriceBatch - 1) \div PriceBatch
<1>1. PriceBatch \in Nat \ {0}
  BY QuotesAssumption
<1>2. i \in DOMAIN asked
  BY DEF ToSet
<1>3. n \in Nat /\ i \in 1..n
  BY <1>1, <1>2
<1> HIDE DEF i, n
<1>4. i - 1 \in Nat /\ n + PriceBatch - 1 \in Nat /\ i - 1 + PriceBatch <= n + PriceBatch - 1
  BY <1>1, <1>3
<1>5. \A x, b \in Nat : b # 0 =>
        x \div b \in Nat /\ b * (x \div b) <= x /\ x < b * ((x \div b) + 1)
  BY SMTT(30)
<1>6. /\ q \in Nat /\ PriceBatch * q <= i - 1
      /\ Q \in Nat /\ n + PriceBatch - 1 < PriceBatch * (Q + 1)
  BY <1>1, <1>4, <1>5
<1> HIDE DEF q, Q
<1>7. q < Q
  <2>1. SUFFICES ASSUME Q <= q
                 PROVE  FALSE
    BY <1>6
  <2>2. PriceBatch * (Q + 1) <= PriceBatch * (q + 1)
    BY <1>1, <1>6, <2>1
  <2>3. PriceBatch * (q + 1) = PriceBatch * q + PriceBatch
    BY <1>1, <1>6
  <2>4. PriceBatch * q \in Nat /\ PriceBatch * (Q + 1) \in Nat /\ PriceBatch * (q + 1) \in Nat
    BY <1>1, <1>6
  <2>5. QED
    BY <1>1, <1>3, <1>4, <1>6, <2>2, <2>3, <2>4
<1>8. q + 1 \in 1..Q
  BY <1>6, <1>7
<1>9. QED
  BY <1>8 DEF BatchOf, Batches, q, Q, i, n

\* What is known of the stores of quotes
LEMMA QuoteStore ==
  ASSUME NEW v \in 1..MaxWrites, NEW s \in {"prices", "models"},
         Cardinality(DOMAIN MarketAt[v][s]) <= MarketPage, NEW r, r.keys = v, r.data = v
  PROVE  FirstEntries(s, r) = MarketAt[v][s]
<1>1. /\ s \in DOMAIN MarketAt[v] /\ IsFiniteSet(DOMAIN MarketAt[v][s])
      /\ MarketAt[v][s] = [k \in DOMAIN MarketAt[v][s] |-> MarketAt[v][s][k]]
  BY QuotesAssumption
<1>2. QED
  BY <1>1, WholeStore

LEMMA PricesOfVersion ==
  ASSUME NEW S, NEW asked \in Seq(S), NEW v \in 1..MaxWrites
  PROVE  LET answer == [k \in ToSet(asked) \cap DOMAIN MarketAt[v].prices |->
                          MarketAt[v].prices[k]] IN
         /\ PricesLive(asked, [b \in 1..Batches(asked) |-> v]) = answer
         /\ \A r : /\ r.keys = v /\ r.data = v
                   /\ Cardinality(DOMAIN MarketAt[v].prices) <= MarketPage
                   => PricesAtLedgerState(asked, r) = answer
<1> DEFINE f == [b \in 1..Batches(asked) |-> v]
<1>1. \A k \in ToSet(asked) : BatchOf(asked, k) \in DOMAIN f /\ f[BatchOf(asked, k)] = v
  BY InSomeBatch
<1>2. {j \in ToSet(asked) : /\ BatchOf(asked, j) \in DOMAIN f
                            /\ j \in DOMAIN MarketAt[f[BatchOf(asked, j)]].prices}
        = ToSet(asked) \cap DOMAIN MarketAt[v].prices
  BY <1>1
<1> HIDE DEF f
<1>3. PricesLive(asked, f) = [k \in ToSet(asked) \cap DOMAIN MarketAt[v].prices |->
                                MarketAt[v].prices[k]]
  BY <1>1, <1>2 DEF PricesLive
<1>4. ASSUME NEW r, r.keys = v, r.data = v,
             Cardinality(DOMAIN MarketAt[v].prices) <= MarketPage
      PROVE  PricesAtLedgerState(asked, r) =
               [k \in ToSet(asked) \cap DOMAIN MarketAt[v].prices |-> MarketAt[v].prices[k]]
  <2>1. FirstEntries("prices", r) = MarketAt[v]["prices"]
    BY <1>4, QuoteStore
  <2>2. QED
    BY <2>1 DEF PricesAtLedgerState
<1>5. QED
  BY <1>3, <1>4 DEF f

LEMMA PricesCome ==
  ASSUME LedgerInv, QuoteInv, GotPrices, UNCHANGED writes
  PROVE  QuoteInv'
<1> DEFINE at == quote.at
           v == IF at = Live THEN Version ELSE at
           store == MarketAt[v].prices
<1>1. /\ quote.call = "prices" /\ quote.asked \in Seq(Nat)
      /\ quote.at \in 0..Version /\ quote.start \in 0..Version
      /\ Version \in Nat /\ Version <= MaxWrites /\ MaxWrites \in Nat /\ Version # 0
  BY LedgerAssumption, QuotesAssumption DEF GotPrices, QuoteInv, LedgerInv, Version
<1>2. PICK prices \in PricesRead(quote.asked, at, quote.start, Version) :
        quote' = [quote EXCEPT !.stage = "answered", !.end = Version, !.answer = prices]
  BY DEF GotPrices, Answered
<1>3. quote' = [call |-> quote.call, stage |-> "answered", at |-> quote.at,
                asked |-> quote.asked, start |-> quote.start, end |-> Version,
                prices |-> quote.prices, pools |-> quote.pools, answer |-> prices]
  BY <1>2 DEF QuoteInv
<1>4. ASSUME at # Live \/ quote.start = Version,
             at = Live \/ Cardinality(DOMAIN store) <= MarketPage
      PROVE  prices = [k \in ToSet(quote.asked) \cap DOMAIN store |-> store[k]]
  <2>1. v \in 1..MaxWrites
    BY <1>1 DEF Live
  <2>2. CASE at # Live
    <3>1. PICK r \in Reads(at, quote.start, Version) :
            prices = PricesAtLedgerState(quote.asked, r)
      BY <2>2 DEF PricesRead
    <3>2. r.keys = v /\ r.data = v
      BY <1>1, <2>2, OneVersionRead
    <3> HIDE DEF v, at
    <3>3. Cardinality(DOMAIN MarketAt[v].prices) <= MarketPage
      BY <1>4, <2>2
    <3>4. QED
      BY <1>1, <2>1, <3>1, <3>2, <3>3, PricesOfVersion
  <2>3. CASE at = Live
    <3>1. PICK f \in [1..Batches(quote.asked) -> quote.start..Version] :
            prices = PricesLive(quote.asked, f)
      BY <2>3 DEF PricesRead
    <3>2. \A b \in 1..Batches(quote.asked) : f[b] = v
      BY <1>1, <1>4, <2>3, <3>1
    <3>3. f = [b \in 1..Batches(quote.asked) |-> v]
      BY <3>2
    <3> HIDE DEF v
    <3>4. QED
      BY <1>1, <2>1, <3>1, <3>3, PricesOfVersion
  <2>4. QED
    BY <2>2, <2>3
<1>5. PricesSnapshot'
  <2>1. QuoteVersion' = v /\ Snapshot' = (at # Live \/ quote.start = Version)
    BY <1>3 DEF QuoteVersion, Snapshot
  <2>2. /\ quote'.answer = prices /\ quote'.asked = quote.asked /\ quote'.at = at
    BY <1>3
  <2> HIDE DEF v, at
  <2>3. QED
    BY <1>4, <2>1, <2>2 DEF PricesSnapshot
<1>6. CurvesSnapshot' /\ AprInv'
  BY <1>1, <1>3 DEF CurvesSnapshot, AprInv, RateWhenKnown
<1>7. QED
  BY <1>1, <1>3, <1>5, <1>6, SameLedger DEF QuoteInv

LEMMA ModelsOfVersion ==
  ASSUME NEW v \in 1..MaxWrites, NEW r, r.keys = v, r.data = v,
         Cardinality(DOMAIN MarketAt[v].models) <= MarketPage
  PROVE  LET models == MarketAt[v].models
             read == ModelsRead(r) IN
         /\ read.thrown => \E k \in DOMAIN models : models[k] = <<>>
         /\ ~read.thrown =>
              /\ DOMAIN read.models = DOMAIN models
              /\ \A k \in DOMAIN models, u \in 0..FullUsage :
                   GetInterestRate(read.models[k], u) = Curve(models[k], u)
<1> DEFINE models == MarketAt[v].models
           read == ModelsRead(r)
<1>1. FirstEntries("models", r) = models
  BY QuoteStore
<1>2. /\ read.thrown <=> \E k \in DOMAIN models : models[k] = <<>>
      /\ read.models = [k \in {j \in DOMAIN models : models[j] # <<>>} |->
                          InterestStrategy(models[k])]
  <2> HIDE DEF models
  <2>1. QED
    BY <1>1 DEF ModelsRead
<1>3. ASSUME ~read.thrown, NEW k \in DOMAIN models, NEW u \in 0..FullUsage
      PROVE  GetInterestRate(read.models[k], u) = Curve(models[k], u)
  <2>1. read.models[k] = InterestStrategy(models[k]) /\ models[k] # <<>>
    BY <1>2, <1>3
  <2>2. /\ models[k] \in Seq([usage : Nat, rate : Int, slop : Int])
        /\ models[k] # <<>> => models[k][1].usage = 0
        /\ \A i \in DOMAIN models[k] : models[k][i].usage < FullUsage
        /\ \A i, j \in DOMAIN models[k] : i < j => models[k][i].usage < models[k][j].usage
    BY <1>3, QuotesAssumption
  <2> HIDE DEF models, read
  <2>3. QED
    BY <1>3, <2>1, <2>2, CurveExact
<1>4. QED
  BY <1>2, <1>3

LEMMA ModelsCome ==
  ASSUME LedgerInv, QuoteInv, GotModels, UNCHANGED writes
  PROVE  QuoteInv'
<1> DEFINE at == quote.at
           v == IF at = Live THEN Version ELSE at
           models == MarketAt[v].models
<1>1. /\ quote.call = "models"
      /\ quote.at \in 0..Version /\ quote.start \in 0..Version
      /\ Version \in Nat /\ Version <= MaxWrites /\ MaxWrites \in Nat /\ Version # 0
  BY LedgerAssumption DEF GotModels, QuoteInv, LedgerInv, Version
<1>2. PICK r \in Reads(at, quote.start, Version) :
        IF ModelsRead(r).thrown
        THEN quote' = [quote EXCEPT !.stage = "thrown", !.end = Version]
        ELSE quote' = [quote EXCEPT !.stage = "answered", !.end = Version,
                                    !.answer = ModelsRead(r).models]
  BY DEF GotModels, Answered
<1> DEFINE read == ModelsRead(r)
<1>3. \E stage, answer :
        /\ quote' = [call |-> quote.call, stage |-> stage, at |-> quote.at,
                     asked |-> quote.asked, start |-> quote.start, end |-> Version,
                     prices |-> quote.prices, pools |-> quote.pools, answer |-> answer]
        /\ stage = IF read.thrown THEN "thrown" ELSE "answered"
        /\ ~read.thrown => answer = read.models
  <2> HIDE DEF read
  <2>1. CASE read.thrown
    <3>1. quote' = [call |-> quote.call, stage |-> "thrown", at |-> quote.at,
                    asked |-> quote.asked, start |-> quote.start, end |-> Version,
                    prices |-> quote.prices, pools |-> quote.pools, answer |-> quote.answer]
      BY <1>2, <2>1 DEF QuoteInv, read
    <3>2. QED
      BY <2>1, <3>1
  <2>2. CASE ~read.thrown
    <3>1. quote' = [call |-> quote.call, stage |-> "answered", at |-> quote.at,
                    asked |-> quote.asked, start |-> quote.start, end |-> Version,
                    prices |-> quote.prices, pools |-> quote.pools, answer |-> read.models]
      BY <1>2, <2>2 DEF QuoteInv, read
    <3>2. QED
      BY <2>2, <3>1
  <2>3. QED
    BY <2>1, <2>2
<1>4. PICK stage, answer :
        /\ quote' = [call |-> quote.call, stage |-> stage, at |-> quote.at,
                     asked |-> quote.asked, start |-> quote.start, end |-> Version,
                     prices |-> quote.prices, pools |-> quote.pools, answer |-> answer]
        /\ stage = IF read.thrown THEN "thrown" ELSE "answered"
        /\ ~read.thrown => answer = read.models
  BY <1>3
<1>5. ASSUME at # Live \/ quote.start = Version, Cardinality(DOMAIN models) <= MarketPage
      PROVE  IF stage = "thrown" THEN \E k \in DOMAIN models : models[k] = <<>>
             ELSE /\ DOMAIN answer = DOMAIN models
                  /\ \A k \in DOMAIN models, u \in 0..FullUsage :
                       GetInterestRate(answer[k], u) = Curve(models[k], u)
  <2>1. v \in 1..MaxWrites
    BY <1>1 DEF Live
  <2>2. r.keys = v /\ r.data = v
    BY <1>1, <1>5, OneVersionRead
  <2> HIDE DEF v
  <2>3. /\ read.thrown => \E k \in DOMAIN models : models[k] = <<>>
        /\ ~read.thrown =>
              /\ DOMAIN read.models = DOMAIN models
              /\ \A k \in DOMAIN models, u \in 0..FullUsage :
                   GetInterestRate(read.models[k], u) = Curve(models[k], u)
    BY <1>5, <2>1, <2>2, ModelsOfVersion
  <2> HIDE DEF read, models
  <2>4. QED
    BY <1>4, <2>3
<1>6. CurvesSnapshot'
  <2>1. QuoteVersion' = v /\ Snapshot' = (at # Live \/ quote.start = Version)
    BY <1>4 DEF QuoteVersion, Snapshot
  <2>2. quote'.answer = answer /\ quote'.stage = stage
    BY <1>4
  <2> HIDE DEF v, at
  <2>3. QED
    BY <1>5, <2>1, <2>2 DEF CurvesSnapshot
<1> HIDE DEF read
<1>7. PricesSnapshot' /\ AprInv'
  BY <1>1, <1>4 DEF PricesSnapshot, AprInv, RateWhenKnown
<1>8. stage # "staked"
  BY <1>4
<1>9. QED
  BY <1>1, <1>4, <1>6, <1>7, <1>8, SameLedger DEF QuoteInv

-----------------------------------------------------------------------------
(* Sums over finite sets *)

Body(F, g, s) ==
  IF s = {} THEN 0 ELSE F[CHOOSE k \in s : TRUE] + g[s \ {CHOOSE k \in s : TRUE}]
SumFun(F, S) == CHOOSE g : g = [s \in SUBSET S |-> Body(F, g, s)]

LEMMA LeastOf ==
  ASSUME NEW T \in SUBSET Nat, T # {}
  PROVE  \E m \in T : \A y \in T : m <= y
<1>1. \E x \in T : \A y \in T : ~ (<<y, x>> \in OpToRel(<, Nat))
  BY NatLessThanWellFounded, WFMin
<1>2. \A x, y \in T : ~ (<<y, x>> \in OpToRel(<, Nat)) => x <= y
  BY DEF OpToRel
<1>3. QED
  BY <1>1, <1>2

LEMMA SumUnfolds ==
  ASSUME NEW F
  PROVE  SumFunction(F) = SumFun(F, DOMAIN F)[DOMAIN F]
BY DEF SumFunction, SumFunctionOnSet, FoldFunctionOnSet, MapThenFoldSet, Body, SumFun

\* Removing the chosen element
LEMMA Removing ==
  ASSUME NEW S, IsFiniteSet(S), NEW s \in SUBSET S, s # {}
  PROVE  LET c == CHOOSE k \in s : TRUE IN
         /\ c \in s /\ s \ {c} \in SUBSET S /\ Cardinality(s \ {c}) = Cardinality(s) - 1
         /\ Cardinality(s) \in Nat /\ Cardinality(s) # 0 /\ s = (s \ {c}) \cup {c}
<1> DEFINE c == CHOOSE k \in s : TRUE
<1>1. c \in s
  OBVIOUS
<1> HIDE DEF c
<1>2. IsFiniteSet(s)
  BY FS_Subset
<1>3. Cardinality(s \ {c}) = Cardinality(s) - 1
  BY <1>1, <1>2, FS_RemoveElement
<1>4. Cardinality(s) \in Nat /\ Cardinality(s) # 0
  BY <1>1, <1>2, FS_CardinalityType, FS_EmptySet
<1>5. QED
  BY <1>1, <1>3, <1>4 DEF c

LEMMA SumExists ==
  ASSUME NEW S, IsFiniteSet(S), NEW F
  PROVE  \E g : g = [s \in SUBSET S |-> Body(F, g, s)]
<1> DEFINE D(n) == {s \in SUBSET S : Cardinality(s) <= n}
           Good(n) == \E g : g = [s \in D(n) |-> Body(F, g, s)]
           T == {n \in Nat : ~Good(n)}
<1>1. \A s \in SUBSET S : IsFiniteSet(s) /\ Cardinality(s) \in Nat
  BY FS_Subset, FS_CardinalityType
<1>2. Good(0)
  <2>1. \A s \in D(0) : s = {}
    BY <1>1, FS_EmptySet
  <2> DEFINE g == [s \in D(0) |-> 0]
  <2>2. g = [s \in D(0) |-> Body(F, g, s)]
    BY <2>1 DEF Body
  <2>3. QED
    BY <2>2
<1>3. ASSUME NEW n \in Nat, Good(n)
      PROVE  Good(n + 1)
  <2>1. PICK g : g = [s \in D(n) |-> Body(F, g, s)]
    BY <1>3
  <2> DEFINE h == [s \in D(n + 1) |-> Body(F, g, s)]
  <2>2. \A s \in D(n) : s \in D(n + 1)
    BY <1>1
  <2>3. ASSUME NEW s \in D(n)
        PROVE  h[s] = g[s]
    BY <2>1, <2>2
  <2>4. ASSUME NEW s \in D(n + 1)
        PROVE  Body(F, g, s) = Body(F, h, s)
    <3>1. CASE s = {}
      BY <3>1 DEF Body
    <3>2. CASE s # {}
      <4> DEFINE c == CHOOSE k \in s : TRUE
      <4>1. s \ {c} \in SUBSET S /\ Cardinality(s \ {c}) = Cardinality(s) - 1
            /\ Cardinality(s) \in Nat /\ Cardinality(s) <= n + 1
        BY <3>2, Removing
      <4>2. s \ {c} \in D(n)
        BY <1>3, <4>1
      <4>3. h[s \ {c}] = g[s \ {c}]
        BY <2>3, <4>2
      <4> HIDE DEF h
      <4>4. QED
        BY <3>2, <4>3 DEF Body
    <3>3. QED
      BY <3>1, <3>2
  <2>5. h = [s \in D(n + 1) |-> Body(F, h, s)]
    BY <2>4
  <2>6. QED
    BY <2>5
<1> HIDE DEF Good
<1>4. T = {}
  <2>1. SUFFICES ASSUME T # {}
                 PROVE  FALSE
    OBVIOUS
  <2>2. PICK m \in T : \A y \in T : m <= y
    BY <2>1, LeastOf
  <2>3. m \in Nat /\ m # 0 /\ ~Good(m)
    BY <1>2, <2>2
  <2>4. m - 1 \in Nat /\ m - 1 \notin T
    BY <2>2, <2>3
  <2>5. Good(m - 1)
    BY <2>4
  <2>6. (m - 1) + 1 = m
    BY <2>3
  <2>7. Good((m - 1) + 1)
    BY <1>3, <2>4, <2>5
  <2>8. QED
    BY <2>3, <2>6, <2>7
<1>5. Good(Cardinality(S))
  BY <1>4, FS_CardinalityType
<1>6. D(Cardinality(S)) = SUBSET S
  BY FS_Subset
<1>7. QED
  BY <1>5, <1>6 DEF Good

LEMMA SumEquation ==
  ASSUME NEW S, IsFiniteSet(S), NEW F, NEW s \in SUBSET S
  PROVE  SumFun(F, S)[s] = Body(F, SumFun(F, S), s)
<1>1. SumFun(F, S) = [t \in SUBSET S |-> Body(F, SumFun(F, S), t)]
  BY SumExists DEF SumFun
<1>2. QED
  BY <1>1

LEMMA SumPositive ==
  ASSUME NEW S, IsFiniteSet(S), NEW F \in [S -> Nat]
  PROVE  SumFunction(F) \in Nat /\ (SumFunction(F) = 0 <=> \A k \in S : F[k] = 0)
<1> DEFINE g == SumFun(F, S)
           Good(s) == g[s] \in Nat /\ (g[s] = 0 <=> \A k \in s : F[k] = 0)
           T == {Cardinality(s) : s \in {t \in SUBSET S : ~Good(t)}}
<1>1. \A s \in SUBSET S : Cardinality(s) \in Nat
  BY FS_Subset, FS_CardinalityType
<1>2. \A s \in SUBSET S : g[s] = Body(F, g, s)
  BY SumEquation
<1> HIDE DEF g
<1>3. Good({})
  BY <1>2 DEF Body
<1>4. ASSUME NEW s \in SUBSET S, s # {}, Good(s \ {CHOOSE k \in s : TRUE})
      PROVE  Good(s)
  <2> DEFINE c == CHOOSE k \in s : TRUE
  <2>1. g[s] = F[c] + g[s \ {c}]
    BY <1>2, <1>4 DEF Body
  <2>2. c \in s /\ c \in S
    BY <1>4
  <2>3. F[c] \in Nat /\ g[s \ {c}] \in Nat /\ (g[s \ {c}] = 0 <=> \A k \in s \ {c} : F[k] = 0)
    BY <1>4, <2>2
  <2> HIDE DEF c
  <2>4. g[s] \in Nat /\ (g[s] = 0 <=> F[c] = 0 /\ g[s \ {c}] = 0)
    BY <2>1, <2>3
  <2>5. QED
    BY <2>2, <2>3, <2>4
<1> HIDE DEF Good
<1>5. T = {}
  <2>1. SUFFICES ASSUME T # {}
                 PROVE  FALSE
    OBVIOUS
  <2>2. T \in SUBSET Nat
    BY <1>1
  <2>3. PICK m \in T : \A y \in T : m <= y
    BY <2>1, <2>2, LeastOf
  <2>4. PICK s \in SUBSET S : m = Cardinality(s) /\ ~Good(s)
    BY <2>3
  <2>5. s # {}
    BY <1>3, <2>4
  <2> DEFINE c == CHOOSE k \in s : TRUE
  <2>6. s \ {c} \in SUBSET S /\ Cardinality(s \ {c}) = Cardinality(s) - 1 /\ Cardinality(s) \in Nat
    BY <2>5, Removing
  <2>7. Cardinality(s \ {c}) \notin T
    <3>1. \A n \in T : Cardinality(s) <= n
      BY <2>3, <2>4
    <3> HIDE DEF T, c
    <3>2. QED
      BY <2>6, <3>1
  <2>8. Good(s \ {c})
    BY <2>6, <2>7
  <2>9. QED
    BY <1>4, <2>4, <2>5, <2>8
<1>6. Good(S)
  BY <1>5
<1>7. QED
  BY <1>6, SumUnfolds DEF Good, g
-----------------------------------------------------------------------------
(* The staking rate *)

\* If the ledger has stood still, the prices read are its prices.
LEMMA AprPrices ==
  ASSUME NEW v \in 1..MaxWrites,
         NEW prices \in PricesRead(<<Weft>> \o SetToSeq(DefaultPools), Live, v, v)
  PROVE  prices = [k \in ({Weft} \cup DefaultPools) \cap DOMAIN MarketAt[v].prices |->
                     MarketAt[v].prices[k]]
<1> DEFINE seq == SetToSeq(DefaultPools)
           asked == <<Weft>> \o seq
           S == {Weft} \cup DefaultPools
<1>1. seq \in Seq(DefaultPools) /\ ToSet(seq) = DefaultPools
  BY SetToSeqFacts, QuotesAssumption
<1>2. asked \in Seq(S) /\ ToSet(asked) = S
  <2> HIDE DEF seq
  <2>1. seq \in Seq(S) /\ <<Weft>> \in Seq(S)
    BY <1>1
  <2>2. asked \in Seq(S)
    BY <2>1
  <2>3. /\ Len(asked) = 1 + Len(seq) /\ asked[1] = Weft
        /\ \A i \in 1..Len(seq) : asked[i + 1] = seq[i]
    BY <1>1, <2>1
  <2> HIDE DEF asked
  <2>4. ASSUME NEW x \in S
        PROVE  \E i \in DOMAIN asked : asked[i] = x
    <3>1. CASE x = Weft
      BY <2>2, <2>3, <1>1, <3>1
    <3>2. CASE x \in DefaultPools
      <4>1. PICK i \in 1..Len(seq) : seq[i] = x
        BY <1>1, <3>2 DEF ToSet
      <4>2. i + 1 \in DOMAIN asked
        BY <1>1, <2>2, <2>3, <4>1
      <4>3. QED
        BY <2>3, <4>1, <4>2
    <3>3. QED
      BY <2>4, <3>1, <3>2
  <2>5. \A i \in DOMAIN asked : asked[i] \in S
    BY <2>2
  <2>6. QED
    BY <2>2, <2>4, <2>5 DEF ToSet
<1> HIDE DEF asked, S
<1>3. PICK f \in [1..Batches(asked) -> v..v] : prices = PricesLive(asked, f)
  BY DEF PricesRead, asked
<1>4. f = [b \in 1..Batches(asked) |-> v]
  BY <1>3
<1>5. prices = [k \in ToSet(asked) \cap DOMAIN MarketAt[v].prices |-> MarketAt[v].prices[k]]
  BY <1>2, <1>3, <1>4, PricesOfVersion
<1>6. QED
  BY <1>2, <1>5 DEF S

\* The pools read are those of the version, if none is missing.
LEMMA AprPools ==
  ASSUME NEW v \in 1..MaxWrites, NEW r, r.data = v, ~PoolsThrow(Live, PoolStates(Live, r))
  PROVE  /\ PoolStates(Live, r) = [k \in DefaultPools |-> MarketAt[v].pools[k]]
         /\ DefaultPools \subseteq DOMAIN MarketAt[v].pools
<1>1. PoolStates(Live, r) = [p \in DefaultPools \cap DOMAIN MarketAt[v].pools |->
                                MarketAt[v].pools[p]]
  BY DEF PoolStates
<1>2. DefaultPools \subseteq DOMAIN MarketAt[v].pools
  BY <1>1 DEF PoolsThrow
<1>3. QED
  BY <1>1, <1>2

\* The deposits add up to nothing exactly if no pool with a price has any.
LEMMA DepositsKnown ==
  ASSUME NEW v \in 1..MaxWrites, NEW q, DefaultPools \subseteq DOMAIN MarketAt[v].pools,
         q.prices = [k \in ({Weft} \cup DefaultPools) \cap DOMAIN MarketAt[v].prices |->
                       MarketAt[v].prices[k]],
         q.pools = [k \in DefaultPools |-> MarketAt[v].pools[k]]
  PROVE  TotalDeposits(q) # 0 <=>
           \E k \in PoolsOf(v) : PoolStats[MarketAt[v].pools[k]].totalDeposit # 0
<1> DEFINE S == PricedPools(q)
           F == [k \in S |-> DepositUSD(q, k)]
<1>1. S = PoolsOf(v) /\ S = DefaultPools \cap DOMAIN MarketAt[v].prices
  BY DEF PricedPools, PoolsOf
<1>2. IsFiniteSet(S)
  BY <1>1, QuotesAssumption, FS_Subset
<1>3. ASSUME NEW k \in S
      PROVE  /\ DepositUSD(q, k) \in Nat
             /\ DepositUSD(q, k) # 0 <=> PoolStats[MarketAt[v].pools[k]].totalDeposit # 0
  <2> DEFINE d == PoolStats[MarketAt[v].pools[k]].totalDeposit
             p == MarketAt[v].prices[k]
  <2>1. d \in Nat /\ p \in Nat \ {0}
    BY <1>1, QuotesAssumption
  <2>2. DepositUSD(q, k) = d * p
    BY <1>1 DEF DepositUSD
  <2> HIDE DEF d, p
  <2>3. d * p \in Nat /\ (d * p # 0 <=> d # 0)
    BY <2>1
  <2>4. QED
    BY <2>2, <2>3 DEF d
<1>4. F \in [S -> Nat]
  BY <1>3
<1>5. TotalDeposits(q) # 0 <=> \E k \in S : F[k] # 0
  <2>1. TotalDeposits(q) = SumFunction(F)
    BY DEF TotalDeposits
  <2> HIDE DEF F, S
  <2>2. QED
    BY <1>2, <1>4, <2>1, SumPositive
<1>6. QED
  BY <1>1, <1>3, <1>5

\* The rate made of the prices and pools of a version is the version's.
LEMMA RateMade ==
  ASSUME NEW v \in 1..MaxWrites, NEW q,
         q.prices = [k \in ({Weft} \cup DefaultPools) \cap DOMAIN MarketAt[v].prices |->
                       MarketAt[v].prices[k]],
         q.pools = [k \in DefaultPools |-> MarketAt[v].pools[k]],
         Weft \in DOMAIN MarketAt[v].prices
  PROVE  AprOf(q, MarketAt[v].staked).apr = RateOf(v)
<1>1. /\ PricedPools(q) = PoolsOf(v)
      /\ \A k \in PoolsOf(v) : /\ q.pools[k] = MarketAt[v].pools[k]
                               /\ q.prices[k] = MarketAt[v].prices[k]
      /\ q.prices[Weft] = MarketAt[v].prices[Weft]
  BY DEF PricedPools, PoolsOf
<1>2. LendingAprNaN(q) <=> \E k \in PoolsOf(v) : PoolStats[MarketAt[v].pools[k]].totalDeposit = 0
  BY <1>1 DEF LendingAprNaN
<1>3. WeighedApr(q) = InterestOf(v)
  <2> DEFINE F == [k \in PricedPools(q) |-> LET pool == PoolStats[q.pools[k]] IN
                     pool.borrowingApr * pool.totalLoan * q.prices[k]]
             G == [k \in PoolsOf(v) |-> LET pool == PoolStats[MarketAt[v].pools[k]] IN
                     pool.borrowingApr * pool.totalLoan * MarketAt[v].prices[k]]
  <2>1. F = G
    BY <1>1
  <2>2. WeighedApr(q) = SumFunction(F) /\ InterestOf(v) = SumFunction(G)
    BY DEF WeighedApr, InterestOf
  <2> HIDE DEF F, G
  <2>3. QED
    BY <2>1, <2>2
<1>4. QED
  BY <1>1, <1>2, <1>3 DEF AprOf, RateOf

\* A step that answers neither prices nor curves
LEMMA OtherQuotes ==
  ASSUME LedgerInv, QuoteInv, UNCHANGED writes,
         QuoteAsked \/ GotPricesAndPools \/ GotStaked \/ QuoteFails
  PROVE  QuoteInv'
<1>1. Version \in Nat /\ Version \in 0..Version
  BY DEF LedgerInv, Version
<1>2. CASE QuoteAsked
  <2>1. PICK call \in {"prices", "models", "apr"}, at \in {Live} \cup 1..Version, asked \in Asked :
          quote' = [quote EXCEPT !.call = call, !.stage = "reading", !.at = at,
                                 !.asked = IF call = "prices" THEN asked ELSE <<>>,
                                 !.start = Version]
    BY <1>2 DEF QuoteAsked
  <2>2. quote' = [call |-> call, stage |-> "reading", at |-> at,
                  asked |-> IF call = "prices" THEN asked ELSE <<>>, start |-> Version,
                  end |-> quote.end, prices |-> quote.prices, pools |-> quote.pools,
                  answer |-> quote.answer]
    BY <2>1 DEF QuoteInv
  <2>3. at \in 0..Version
    BY <1>1 DEF Live
  <2>4. PricesSnapshot' /\ CurvesSnapshot'
    BY <2>2 DEF PricesSnapshot, CurvesSnapshot
  <2>5. call = "apr" => at = Live
    BY <1>2, <2>2 DEF QuoteAsked
  <2>6. AprInv'
    BY <2>2, <2>5 DEF AprInv, RateWhenKnown
  <2>7. QED
    BY <1>1, <2>2, <2>3, <2>4, <2>6, SameLedger DEF QuoteInv
<1>3. ASSUME quote.call = "apr", NEW stage, NEW end, NEW prices, NEW pools, NEW answer, AprInv',
             quote' = [call |-> quote.call, stage |-> stage, at |-> quote.at,
                       asked |-> quote.asked, start |-> quote.start, end |-> end,
                       prices |-> prices, pools |-> pools, answer |-> answer]
      PROVE  QuoteInv'
  <2>1. PricesSnapshot' /\ CurvesSnapshot'
    BY <1>3 DEF PricesSnapshot, CurvesSnapshot
  <2>2. QED
    BY <1>3, <2>1, SameLedger DEF QuoteInv
<1>4. ASSUME quote.call = "apr", NEW answer, Answered(answer),
             quote.start = Version =>
               /\ answer # EmptyApr <=> AprKnown(Version)
               /\ AprKnown(Version) => answer.apr = RateOf(Version)
      PROVE  QuoteInv'
  <2>1. quote' = [call |-> quote.call, stage |-> "answered", at |-> quote.at,
                  asked |-> quote.asked, start |-> quote.start, end |-> Version,
                  prices |-> quote.prices, pools |-> quote.pools, answer |-> answer]
    BY <1>4 DEF Answered, QuoteInv
  <2>2. AprInv'
    <3>1. quote.at = Live
      BY <1>4 DEF QuoteInv, AprInv
    <3>2. QuoteVersion' = Version /\ (Snapshot' <=> quote.start = Version)
      BY <2>1, <3>1 DEF QuoteVersion, Snapshot
    <3>3. RateWhenKnown'
      BY <1>4, <2>1, <3>2 DEF RateWhenKnown
    <3>4. QED
      BY <2>1, <3>1, <3>3 DEF AprInv
  <2>3. QED
    BY <1>3, <1>4, <2>1, <2>2
<1>5. CASE GotPricesAndPools
  <2>1. quote.call = "apr"
    BY <1>5 DEF GotPricesAndPools
  <2>2. PICK prices \in PricesRead(<<Weft>> \o SetToSeq(DefaultPools), Live, quote.start,
                                  Version),
             r \in Reads(Live, quote.start, Version) :
          LET q == [quote EXCEPT !.prices = prices, !.pools = PoolStates(Live, r)] IN
          IF PoolsThrow(Live, q.pools)
          THEN quote' = [quote EXCEPT !.stage = "thrown", !.end = Version]
          ELSE IF Xusdc \notin DOMAIN prices \/ TotalDeposits(q) = 0 THEN Answered(EmptyApr)
          ELSE quote' = [q EXCEPT !.stage = "staked"]
    BY <1>5 DEF GotPricesAndPools
  <2> DEFINE pools == PoolStates(Live, r)
             m == MarketAt[Version]
             deposited == \E k \in PoolsOf(Version) : PoolStats[m.pools[k]].totalDeposit # 0
  <2>3. PICK q : q = [quote EXCEPT !.prices = prices, !.pools = pools]
    OBVIOUS
  <2>4. q = [call |-> quote.call, stage |-> quote.stage, at |-> quote.at,
             asked |-> quote.asked, start |-> quote.start, end |-> quote.end,
             prices |-> prices, pools |-> pools, answer |-> quote.answer]
    <3> HIDE DEF pools
    <3>1. QED
      BY <2>3 DEF QuoteInv
  <2>5. IF PoolsThrow(Live, pools)
        THEN quote' = [quote EXCEPT !.stage = "thrown", !.end = Version]
        ELSE IF Xusdc \notin DOMAIN prices \/ TotalDeposits(q) = 0 THEN Answered(EmptyApr)
        ELSE quote' = [q EXCEPT !.stage = "staked"]
    BY <2>2, <2>3, <2>4
  <2>6. ASSUME quote.start = Version, ~PoolsThrow(Live, pools)
        PROVE  /\ prices = [k \in ({Weft} \cup DefaultPools) \cap DOMAIN m.prices |-> m.prices[k]]
               /\ pools = [k \in DefaultPools |-> m.pools[k]]
               /\ Xusdc \in DOMAIN prices <=> Xusdc \in DOMAIN m.prices
               /\ TotalDeposits(q) # 0 <=> deposited
    <3>1. Version \in 1..MaxWrites
      BY LedgerAssumption DEF LedgerInv, Version
    <3>2. prices = [k \in ({Weft} \cup DefaultPools) \cap DOMAIN m.prices |-> m.prices[k]]
      BY <2>2, <2>6, <3>1, AprPrices
    <3>3. r.data = Version
      BY <1>1, <2>2, <2>6, OneVersionRead DEF Live
    <3>4. /\ pools = [k \in DefaultPools |-> m.pools[k]]
          /\ DefaultPools \subseteq DOMAIN m.pools
      BY <2>6, <3>1, <3>3, AprPools
    <3>5. q.prices = prices /\ q.pools = pools
      BY <2>4
    <3> HIDE DEF pools
    <3>6. TotalDeposits(q) # 0 <=> deposited
      BY <3>1, <3>2, <3>4, <3>5, DepositsKnown
    <3>7. Xusdc \in DefaultPools
      BY QuotesAssumption
    <3>8. QED
      BY <3>2, <3>4, <3>6, <3>7
  <2> HIDE DEF pools, deposited
  <2>7. CASE PoolsThrow(Live, pools)
    <3>1. quote' = [call |-> quote.call, stage |-> "thrown", at |-> quote.at,
                    asked |-> quote.asked, start |-> quote.start, end |-> Version,
                    prices |-> quote.prices, pools |-> quote.pools, answer |-> quote.answer]
      BY <2>5, <2>7 DEF QuoteInv
    <3>2. AprInv'
      BY <2>1, <3>1 DEF QuoteInv, AprInv, RateWhenKnown
    <3>3. QED
      BY <1>3, <2>1, <3>1, <3>2
  <2>8. CASE ~PoolsThrow(Live, pools) /\ (Xusdc \notin DOMAIN prices \/ TotalDeposits(q) = 0)
    <3>1. Answered(EmptyApr)
      BY <2>5, <2>8
    <3>2. quote.start = Version => ~AprKnown(Version)
      BY <2>6, <2>8 DEF AprKnown, deposited
    <3>3. QED
      BY <1>4, <2>1, <3>1, <3>2
  <2>9. CASE ~PoolsThrow(Live, pools) /\ Xusdc \in DOMAIN prices /\ TotalDeposits(q) # 0
    <3>1. quote' = [q EXCEPT !.stage = "staked"]
      BY <2>5, <2>9
    <3>2. quote' = [call |-> quote.call, stage |-> "staked", at |-> quote.at,
                    asked |-> quote.asked, start |-> quote.start, end |-> quote.end,
                    prices |-> prices, pools |-> pools, answer |-> quote.answer]
      BY <2>4, <3>1
    <3>3. AprInv'
      <4>1. Version' = Version /\ quote.at = Live
        BY <2>1, SameLedger DEF QuoteInv, AprInv
      <4>2. quote.start = Version =>
              /\ prices = [k \in ({Weft} \cup DefaultPools) \cap DOMAIN m.prices |-> m.prices[k]]
              /\ pools = [k \in DefaultPools |-> m.pools[k]]
              /\ Xusdc \in DOMAIN m.prices /\ deposited
        BY <2>6, <2>9
      <4>3. QED
        BY <3>2, <4>1, <4>2 DEF AprInv, RateWhenKnown, deposited
    <3>4. QED
      BY <1>3, <2>1, <3>2, <3>3
  <2>10. QED
    BY <2>7, <2>8, <2>9
<1>6. CASE GotStaked
  <2> DEFINE m == MarketAt[Version]
             answer == StakingApr(quote, m.staked)
  <2>1. quote.call = "apr" /\ quote.stage = "staked" /\ Answered(answer)
    BY <1>6 DEF GotStaked, QuoteInv
  <2>2. ASSUME quote.start = Version
        PROVE  /\ answer # EmptyApr <=> AprKnown(Version)
               /\ AprKnown(Version) => answer.apr = RateOf(Version)
    <3>1. /\ quote.prices = [k \in ({Weft} \cup DefaultPools) \cap DOMAIN m.prices |-> m.prices[k]]
          /\ quote.pools = [k \in DefaultPools |-> m.pools[k]]
          /\ Xusdc \in DOMAIN m.prices
          /\ \E k \in PoolsOf(Version) : PoolStats[m.pools[k]].totalDeposit # 0
      BY <2>1, <2>2 DEF QuoteInv, AprInv
    <3>2. Version \in 1..MaxWrites
      BY LedgerAssumption DEF LedgerInv, Version
    <3>3. Weft \in DOMAIN quote.prices <=> Weft \in DOMAIN m.prices
      BY <3>1
    <3>4. AprKnown(Version) <=> Weft \in DOMAIN quote.prices /\ m.staked # 0
      BY <3>1, <3>3 DEF AprKnown
    <3>5. CASE Weft \notin DOMAIN quote.prices \/ m.staked = 0
      BY <3>4, <3>5 DEF StakingApr
    <3>6. CASE Weft \in DOMAIN quote.prices /\ m.staked # 0
      <4>1. answer = AprOf(quote, m.staked)
        BY <3>6 DEF StakingApr
      <4>2. answer.staked # EmptyApr.staked
        BY <3>6, <4>1 DEF AprOf, EmptyApr
      <4>3. answer.apr = RateOf(Version)
        BY <3>1, <3>2, <3>3, <3>6, <4>1, RateMade
      <4>4. QED
        BY <3>4, <3>6, <4>2, <4>3
    <3>7. QED
      BY <3>5, <3>6
  <2> HIDE DEF answer
  <2>3. QED
    BY <1>4, <2>1, <2>2
<1>7. CASE QuoteFails
  <2>1. quote' = [call |-> quote.call, stage |-> "failed", at |-> quote.at,
                  asked |-> quote.asked, start |-> quote.start, end |-> quote.end,
                  prices |-> quote.prices, pools |-> quote.pools, answer |-> quote.answer]
    BY <1>7 DEF QuoteFails, QuoteInv
  <2>2. PricesSnapshot' /\ CurvesSnapshot'
    BY <2>1 DEF PricesSnapshot, CurvesSnapshot
  <2>3. AprInv'
    BY <2>1 DEF QuoteInv, AprInv, RateWhenKnown
  <2>4. QED
    BY <2>1, <2>2, <2>3, SameLedger DEF QuoteInv
<1>8. QED
  BY <1>2, <1>5, <1>6, <1>7

LEMMA QuoteAndWrite ==
  ASSUME LedgerInv, QuoteInv, Write, UNCHANGED quote
  PROVE  QuoteInv'
<1>1. Version' = Version + 1 /\ Version \in Nat
  BY WriteKeeps
<1>2. PricesSnapshot' /\ CurvesSnapshot'
  BY DEF QuoteInv, PricesSnapshot, CurvesSnapshot, Snapshot, QuoteVersion
<1>3. AprInv'
  <2>1. RateWhenKnown'
    BY DEF QuoteInv, AprInv, RateWhenKnown, Snapshot, QuoteVersion
  <2>2. quote.start # Version'
    BY <1>1 DEF QuoteInv
  <2>3. QED
    BY <2>1, <2>2 DEF QuoteInv, AprInv
<1>4. QED
  BY <1>1, <1>2, <1>3 DEF QuoteInv

-----------------------------------------------------------------------------
(* The readers *)

IInv == LedgerInv /\ StoreInv /\ NftInv /\ MarketInv /\ QuoteInv

LEMMA InitInv == Init => IInv
<1> SUFFICES ASSUME Init
             PROVE  IInv
  OBVIOUS
<1>1. /\ writes = Initially /\ Version = Len(Initially) /\ Version \in Nat /\ Version # 0
      /\ Version <= MaxWrites /\ 0 \in 0..Version
  BY LedgerAssumption DEF Init, LedgerInit, Version
<1>2. LedgerInv
  BY <1>1, LedgerAssumption DEF LedgerInv
<1>3. StoreInv
  <2>1. /\ values = <<>> /\ cursor = [cursor |-> 0, stateVersion |-> 0]
        /\ load = [c \in Calls |-> Idle] /\ selected = 0
    BY DEF Init, StoreInit, Live
  <2>2. Idle \in Load /\ Idle.stage = "idle"
    BY DEF Idle, Load, Live
  <2>3. StoreType
    BY <1>1, <2>1, <2>2 DEF StoreType
  <2>4. PinInv
    BY <2>1, <2>2 DEF PinInv
  <2>5. CoverInv
    <3>1. Present(cursor.stateVersion) = {}
      BY <1>2, <2>1, NothingAtZero
    <3>2. QED
      BY <3>1 DEF CoverInv
  <2>6. ValuesOfVersion
    BY <2>1 DEF ValuesOfVersion
  <2>7. QED
    BY <2>3, <2>4, <2>5, <2>6 DEF StoreInv
<1>4. NftInv
  <2>1. PICK at \in {Live} \cup 1..Version :
          nft = [stage |-> "data", at |-> at, left |-> Len(NftIds), batch |-> {},
                 page |-> {}, found |-> <<>>]
    BY DEF Init, NftInit
  <2>2. at \in 0..Version /\ Len(NftIds) \in 0..Len(NftIds) /\ DOMAIN NftIds = 1..Len(NftIds)
        /\ Len(NftIds) \in Nat
    BY <1>1, NftAssumption DEF Live
  <2>3. IsFiniteSet({}) /\ <<>> \in Seq(ToSet(<<>>)) /\ DOMAIN <<>> = {}
    BY FS_EmptySet
  <2>4. \A i \in DOMAIN NftIds : ~(Len(NftIds) < i)
    BY <2>2
  <2>5. QED
    BY <2>1, <2>2, <2>3, <2>4 DEF NftInv
<1>5. MarketInv
  BY <1>1 DEF Init, MarketInit, MarketInv, MarketSnapshot, Live
<1>6. QuoteInv
  BY <1>1
  DEF Init, QuoteInit, QuoteInv, PricesSnapshot, CurvesSnapshot, AprInv, RateWhenKnown, Live
<1>7. QED
  BY <1>2, <1>3, <1>4, <1>5, <1>6 DEF IInv

\* What does not change is as it was.
LEMMA StoreKept == LedgerInv /\ StoreInv /\ UNCHANGED <<writes, storeVars>> => StoreInv'
<1> SUFFICES ASSUME LedgerInv, StoreInv, UNCHANGED <<writes, storeVars>>
             PROVE  StoreInv'
  OBVIOUS
<1>1. UNCHANGED <<values, cursor, load, selected, lost>>
  BY DEF storeVars
<1>2. StoreType' /\ PinInv'
  BY <1>1, SameLedger DEF StoreInv, StoreType, PinInv
<1>3. Present(cursor.stateVersion)' = Present(cursor.stateVersion)
  BY <1>1, SameLedger DEF Present, ValueAt
<1>4. CoverInv'
  BY <1>1, <1>3 DEF StoreInv, CoverInv, Covered
<1>5. ValuesOfVersion'
  BY <1>1 DEF StoreInv, ValuesOfVersion, ValueAt
<1>6. QED
  BY <1>2, <1>4, <1>5 DEF StoreInv

LEMMA NftKept == NftInv /\ UNCHANGED <<writes, nft>> => NftInv'
  BY SameLedger DEF NftInv, Since, Present, ValueAt

LEMMA MarketKept == MarketInv /\ UNCHANGED <<writes, market>> => MarketInv'
  BY SameLedger DEF MarketInv, MarketSnapshot

LEMMA QuoteKept == QuoteInv /\ UNCHANGED <<writes, quote>> => QuoteInv'
  BY SameLedger
  DEF QuoteInv, PricesSnapshot, CurvesSnapshot, AprInv, RateWhenKnown, Snapshot, QuoteVersion

LEMMA NextInv == IInv /\ [Next]_vars => IInv'
<1> SUFFICES ASSUME IInv, [Next]_vars
             PROVE  IInv'
  OBVIOUS
<1>1. LedgerInv /\ StoreInv /\ NftInv /\ MarketInv /\ QuoteInv
  BY DEF IInv
<1>2. UNCHANGED writes => LedgerInv'
  BY <1>1 DEF LedgerInv, Version
<1>3. CASE StoreStep /\ UNCHANGED <<writes, nft, market, quote>>
  <2>1. StoreInv'
    BY <1>1, <1>3, InitStarts, MoreStarts, KeysArrive, ValuesArrive, LoadFailing DEF StoreStep
  <2>2. QED
    BY <1>1, <1>2, <1>3, <2>1, NftKept, MarketKept, QuoteKept DEF IInv
<1>4. CASE NftStep /\ UNCHANGED <<writes, storeVars, market, quote>>
  <2>1. NftInv'
    BY <1>1, <1>4, NftsArrive, LocationsArrive, NftFailing DEF NftStep
  <2>2. QED
    BY <1>1, <1>2, <1>4, <2>1, StoreKept, MarketKept, QuoteKept DEF IInv
<1>5. CASE MarketStep /\ UNCHANGED <<writes, storeVars, nft, quote>>
  <2>1. MarketInv'
    BY <1>1, <1>5, MarketComes, MarketSteps DEF MarketStep
  <2>2. QED
    BY <1>1, <1>2, <1>5, <2>1, StoreKept, NftKept, QuoteKept DEF IInv
<1>6. CASE QuoteStep /\ UNCHANGED <<writes, storeVars, nft, market>>
  <2>1. QuoteInv'
    BY <1>1, <1>6, PricesCome, ModelsCome, OtherQuotes DEF QuoteStep
  <2>2. QED
    BY <1>1, <1>2, <1>6, <2>1, StoreKept, NftKept, MarketKept DEF IInv
<1>7. CASE Write /\ UNCHANGED <<storeVars, nft, market, quote>>
  BY <1>1, <1>7, WriteKeeps, StoreAndWrite, NftAndWrite, MarketAndWrite, QuoteAndWrite DEF IInv
<1>8. CASE UNCHANGED vars
  BY <1>1, <1>2, <1>8, StoreKept, NftKept, MarketKept, QuoteKept DEF IInv, vars
<1>9. QED
  BY <1>3, <1>4, <1>5, <1>6, <1>7, <1>8 DEF Next

\* However the ledger moves on, calls overlap and fail, the inductive invariant holds.
THEOREM ReadsHold == Spec => []IInv
<1>1. QED
  BY InitInv, NextInv, PTL DEF Spec

\* KeyValueStore.loadValues: what a store holds is of the version its loads were pinned to,
\* and never older than the version of its cursor.
THEOREM StoreOfVersion == Spec => []ValuesOfVersion
<1>1. IInv => ValuesOfVersion
  BY DEF IInv, StoreInv
<1>2. QED
  BY <1>1, ReadsHold, PTL

\* KeyValueStore.loadMore: a store that has no more is whole once its loads have ended,
\* whatever the order of their answers, unless a page's values were lost.
THEOREM StoreComplete == Spec => []StoreWhole
<1>1. IInv => StoreWhole
  BY DEF IInv, StoreInv, CoverInv, Covered, StoreWhole, HasMore, Quiet
<1>2. QED
  BY <1>1, ReadsHold, PTL

\* fetchNftData: each NFT that was there all along is answered once, its data and its
\* location of the state selected.
THEOREM EachNftOnce == Spec => []NftsOnce
<1>1. ASSUME IInv
      PROVE  NftsOnce
  <2>1. SUFFICES ASSUME nft.stage = "done"
                 PROVE  ToSet(NftIds) \cap Present(Since) \subseteq LoadedIds(nft.found)
    BY <1>1 DEF IInv, NftInv, NftsOnce, Since
  <2>2. nft.left = 0 /\ nft.page = {}
    BY <1>1, <2>1 DEF IInv, NftInv
  <2>3. \A i \in DOMAIN NftIds : 0 < i
    BY NftAssumption
  <2>4. \A i \in DOMAIN NftIds : NftIds[i] \in Present(Since) => NftIds[i] \in LoadedIds(nft.found)
    BY <1>1, <2>2, <2>3 DEF IInv, NftInv
  <2>5. QED
    BY <2>4 DEF ToSet
<1>2. QED
  BY <1>1, ReadsHold, PTL

\* getMarketInfos: its sixteen requests are put together as the market of one version when
\* a ledger state is selected or the ledger stands still.
THEOREM MarketOfVersion == Spec => []MarketSnapshot
<1>1. IInv => MarketSnapshot
  BY DEF IInv, MarketInv
<1>2. QED
  BY <1>1, ReadsHold, PTL

\* getPrice, getInterestModels, getWeftStakingApr: the prices are one version's, read live in
\* batches or from the cache; the curves are the ledger's at every usage, full usage
\* included; and a staking rate is given exactly when what it takes is there, and is that
\* version's: no number if a pool that has a price has no deposits.
THEOREM QuotesTrue == Spec => []QuotesSnapshot
<1>1. IInv => QuotesSnapshot
  BY DEF IInv, QuoteInv, AprInv, QuotesSnapshot
<1>2. QED
  BY <1>1, ReadsHold, PTL
=============================================================================
