----------------------------- MODULE LambdaProofs -----------------------------
(***************************************************************************)
(* Theorems about the two Lambdas that put messages on SQS queues and take *)
(* them off.  Of Dispatcher, with the listing it extends, for any number   *)
(* of CDPs, any page, chunk and batch sizes, any number of runs, and any   *)
(* moves of the ledger; of Liquidator, for any number of containers and    *)
(* messages, any bodies, batch size and number of faults.                  *)
(***************************************************************************)
EXTENDS Dispatcher, Liquidator, FiniteSetTheorems, SequenceTheorems, TLAPS

IdsIn(s) == {s[i] : i \in DOMAIN s}
Distinct(s) == \A i, j \in DOMAIN s : s[i] = s[j] => i = j

\* What the listing knows: the pages read are numbers up to `next' of the pinned version,
\* which has all CDPs there were at the start; of them those located are found, unless
\* burned by now, each once, and none of those burned at the start.
ListingInv ==
  /\ listing.stage \in {"locations", "done"} => listing.pinned # NotPinned
  /\ IF listing.pinned = NotPinned THEN listing.next = 0
     ELSE listing.next <= listing.pinned /\ listing.start.minted <= listing.pinned
  /\ listing.stage = "done" => listing.next = listing.pinned
  /\ listing.start.minted <= minted /\ listing.start.burned \subseteq burned
  /\ listing.page \subseteq 1..listing.next
  /\ listing.stage # "locations" => listing.page = {}
  /\ IdsIn(listing.found) \subseteq (1..listing.next) \ (listing.page \cup listing.start.burned)
  /\ (1..listing.next) \ (listing.page \cup burned) \subseteq IdsIn(listing.found)
  /\ Distinct(listing.found)

\* The ids of a run are those its listing found.
RunInv ==
  /\ phase = "idle" <=> runId = 0
  /\ phase = "fetching" => listing.stage \in {"ids", "locations"} /\ ids = <<>>
  /\ phase \in {"sending", "retrying", "returned"} =>
       listing.stage = "done" /\ ids = listing.found
  /\ ids # <<>> => ids = listing.found

\* The messages of this run on the queue are chunks of its ids.
QueueInv ==
  /\ \A m \in queue : m.runId <= runId
  /\ \A m \in queue : m.runId = runId =>
       m.chunkIndex \in 1..ChunkCount /\ m = Chunk(m.chunkIndex)
  /\ faulted \subseteq 1..ChunkCount
  /\ ChunksPartition

Settled == Accepted \cup faulted

\* The chunks of the batches behind the cursor are settled, those of the batches ahead are
\* not, and those of the batch in hand are settled or to be sent again.
CursorInv ==
  /\ \E q \in 0..cursor : cursor = q * BatchLimit
  /\ \A k \in 1..ChunkCount : k <= cursor => k \in Settled
  /\ \A k \in Settled : k <= cursor + BatchLimit
  /\ phase \in {"fetching", "sending"} => \A k \in Settled : k <= cursor
  /\ phase = "retrying" =>
       /\ failed \subseteq Entries /\ failed \cap Settled = {}
       /\ Entries \subseteq failed \cup Settled
  /\ phase = "fetching" => cursor = 0
  /\ phase = "returned" => ChunkCount <= cursor /\ response = Len(ids)

IInv == TypeOK /\ ListingInv /\ RunInv /\ QueueInv /\ CursorInv
-----------------------------------------------------------------------------
(* Chunks and batches *)

LEMMA Monotone ==
  ASSUME NEW b \in Nat, NEW j \in Nat, NEW k \in Nat, j <= k
  PROVE  j * b <= k * b
<1>1. PICK d \in Nat : k = j + d
  <2>1. k - j \in Nat /\ k = j + (k - j)
    OBVIOUS
  <2>2. QED
    BY <2>1
<1>2. k * b = j * b + d * b /\ d * b >= 0 /\ j * b \in Nat
  BY <1>1
<1>3. QED
  BY <1>2, <1>1

LEMMA Quotient ==
  ASSUME NEW a \in Nat, NEW b \in Nat \ {0}
  PROVE  a \div b \in Nat /\ (a \div b) * b <= a /\ a < (a \div b + 1) * b
OBVIOUS

LEMMA QuotientBelow ==
  ASSUME NEW a \in Nat, NEW b \in Nat \ {0}, NEW q \in Nat
  PROVE  a \div b < q <=> a < q * b
<1>1. CASE a \div b < q
  <2>1. (a \div b + 1) * b <= q * b
    BY <1>1, Quotient, Monotone
  <2>2. QED
    BY <1>1, <2>1, Quotient
<1>2. CASE ~(a \div b < q)
  <2>1. q * b <= (a \div b) * b
    BY <1>2, Quotient, Monotone
  <2>2. QED
    BY <1>2, <2>1, Quotient
<1>3. QED
  BY <1>1, <1>2

LEMMA CountType ==
  ASSUME ids \in Seq(CdpIds)
  PROVE  ChunkCount \in Nat /\ Len(ids) \in Nat /\ Len(ids) <= ChunkCount * IndexerBatchSize
         /\ (ids = <<>> => ChunkCount = 0)
<1> DEFINE n == Len(ids)
           b == IndexerBatchSize
<1>1. n \in Nat /\ b \in Nat \ {0} /\ n + b - 1 \in Nat
  BY SizesAssumption
<1>2. ChunkCount = (n + b - 1) \div b
  BY DEF ChunkCount
<1>3. ChunkCount \in Nat /\ n + b - 1 < (ChunkCount + 1) * b
  BY <1>1, <1>2, Quotient
<1>4. (ChunkCount + 1) * b = ChunkCount * b + b /\ ChunkCount * b \in Nat
  BY <1>1, <1>3
<1>5. n = 0 => ChunkCount = 0
  <2>1. n = 0 => (n + b - 1 < 1 * b)
    BY <1>1
  <2>2. n = 0 => ChunkCount < 1
    BY <1>1, <1>2, <2>1, QuotientBelow
  <2>3. QED
    BY <2>2, <1>3
<1>6. QED
  BY <1>1, <1>3, <1>4, <1>5

LEMMA SlicesDisjoint ==
  ASSUME NEW j \in Nat \ {0}, NEW k \in Nat \ {0}, j < k, ids \in Seq(CdpIds)
  PROVE  Slice(j) \cap Slice(k) = {}
<1>1. j * IndexerBatchSize <= (k - 1) * IndexerBatchSize
  BY SizesAssumption, Monotone
<1>2. QED
  BY <1>1, SizesAssumption DEF Slice

LEMMA SlicesCover ==
  ASSUME ids \in Seq(CdpIds), NEW p \in 1..Len(ids)
  PROVE  \E k \in 1..ChunkCount : p \in Slice(k)
<1> DEFINE k == (p - 1) \div IndexerBatchSize + 1
<1>1. k \in Nat \ {0} /\ (k - 1) * IndexerBatchSize < p /\ p <= k * IndexerBatchSize
  BY SizesAssumption, Quotient
<1>2. k - 1 < ChunkCount
  BY CountType, SizesAssumption, QuotientBelow, Quotient
<1> HIDE DEF k
<1>3. k \in 1..ChunkCount
  BY <1>1, <1>2, CountType
<1>4. QED
  BY <1>1, <1>3 DEF Slice

LEMMA ChunkType ==
  ASSUME TypeOK, runId # 0, NEW k \in 1..ChunkCount
  PROVE  Chunk(k) \in Message /\ Chunk(k).chunkIndex = k /\ Chunk(k).runId = runId
         /\ Chunk(k).cdpIds \subseteq IdsIn(ids)
<1>1. \A p \in 1..Len(ids) : ids[p] \in CdpIds
  BY DEF TypeOK
<1>2. {ids[p] : p \in Slice(k)} \subseteq CdpIds
  BY <1>1 DEF Slice
<1>3. QED
  BY <1>2, CountType, BoundsAssumption DEF Chunk, Message, TypeOK, IdsIn, Slice

LEMMA ChunksDisjoint ==
  ASSUME TypeOK, Distinct(ids), NEW j \in 1..ChunkCount, NEW k \in 1..ChunkCount, j # k
  PROVE  Chunk(j).cdpIds \cap Chunk(k).cdpIds = {}
<1>1. Slice(j) \cap Slice(k) = {}
  BY SlicesDisjoint, CountType DEF TypeOK
<1>2. \A p \in Slice(j), q \in Slice(k) : ids[p] # ids[q]
  BY <1>1 DEF Distinct, Slice, TypeOK
<1>3. QED
  BY <1>2 DEF Chunk
LEMMA IdsNotEmpty == ids \in Seq(CdpIds) /\ ChunkCount # 0 => ids # <<>>
BY CountType

\* What SQS accepts of this run's chunks joins its messages.
LEMMA QueueGrows ==
  ASSUME IInv, runId # 0, NEW accepted \in SUBSET (1..ChunkCount),
         queue' = queue \cup {Chunk(k) : k \in accepted}, runId' = runId, ids' = ids
  PROVE  /\ queue' \subseteq Message
         /\ ChunkCount' = ChunkCount
         /\ Accepted' = Accepted \cup accepted
         /\ \A m \in queue' : m.runId <= runId
         /\ \A m \in queue' : m.runId = runId =>
              m.chunkIndex \in 1..ChunkCount /\ m = Chunk(m.chunkIndex)'
         /\ ChunksPartition'
<1> USE DEF IInv
<1>1. \A k \in accepted : Chunk(k) \in Message /\ Chunk(k).chunkIndex = k
                         /\ Chunk(k).runId = runId
  BY ChunkType
<1>2. ChunkCount' = ChunkCount
  BY DEF ChunkCount
<1>3. \A k \in 1..ChunkCount : Chunk(k)' = Chunk(k)
  BY DEF Chunk, Slice, ChunkCount
<1>4. queue' \subseteq Message
  BY <1>1 DEF TypeOK
<1>5. Accepted' = Accepted \cup accepted
  <2>1. Accepted = {m.chunkIndex : m \in {q \in queue : q.runId = runId}}
    BY DEF Accepted
  <2>2. Accepted' = {m.chunkIndex : m \in {q \in queue' : q.runId = runId}}
    BY DEF Accepted
  <2>3. {q \in queue' : q.runId = runId} =
          {q \in queue : q.runId = runId} \cup {Chunk(k) : k \in accepted}
    BY <1>1
  <2>4. {m.chunkIndex : m \in {Chunk(k) : k \in accepted}} = accepted
    BY <1>1
  <2>5. QED
    BY <2>1, <2>2, <2>3, <2>4
<1>6. \A m \in queue' : m.runId <= runId
  BY <1>1 DEF QueueInv, TypeOK
<1>7. \A m \in queue' : m.runId = runId =>
        m.chunkIndex \in 1..ChunkCount /\ m = Chunk(m.chunkIndex)
  BY <1>1 DEF QueueInv
<1>8. ASSUME NEW m \in queue', NEW n \in queue', m.runId = n.runId, m # n
      PROVE  m.cdpIds \cap n.cdpIds = {} /\ m.chunkCount = n.chunkCount
  <2>1. CASE m.runId = runId
    <3>1. PICK j \in 1..ChunkCount, k \in 1..ChunkCount : m = Chunk(j) /\ n = Chunk(k)
      BY <1>7, <1>8, <2>1
    <3>2. j # k
      BY <3>1, <1>8
    <3>3. Distinct(ids)
      BY IdsNotEmpty, CountType DEF TypeOK, RunInv, ListingInv
    <3>4. m.cdpIds \cap n.cdpIds = {}
      BY <3>1, <3>2, <3>3, ChunksDisjoint
    <3>5. QED
      BY <3>1, <3>4 DEF Chunk
  <2>2. CASE m.runId # runId
    <3>1. m \in queue /\ n \in queue
      BY <2>2, <1>1, <1>8
    <3>2. QED
      BY <3>1, <1>8 DEF QueueInv, ChunksPartition
  <2>3. QED
    BY <2>1, <2>2
<1>9. ChunksPartition'
  BY <1>8 DEF ChunksPartition
<1>10. QED
  BY <1>2, <1>3, <1>4, <1>5, <1>6, <1>7, <1>9

-----------------------------------------------------------------------------
(* The listing *)

LEMMA ConcatIds ==
  ASSUME NEW S, NEW s \in Seq(S), NEW t \in Seq(S)
  PROVE  /\ s \o t \in Seq(S) /\ IdsIn(s \o t) = IdsIn(s) \cup IdsIn(t)
         /\ Distinct(s) /\ Distinct(t) /\ IdsIn(s) \cap IdsIn(t) = {} => Distinct(s \o t)
<1>1. /\ s \o t \in Seq(S) /\ Len(s \o t) = Len(s) + Len(t)
      /\ \A i \in 1..Len(s) : (s \o t)[i] = s[i]
      /\ \A i \in 1..Len(t) : (s \o t)[Len(s) + i] = t[i]
      /\ \A i \in (Len(s) + 1)..(Len(s) + Len(t)) : (s \o t)[i] = t[i - Len(s)]
  OBVIOUS
<1>2. IdsIn(s \o t) = IdsIn(s) \cup IdsIn(t)
  <2>1. IdsIn(s \o t) \subseteq IdsIn(s) \cup IdsIn(t)
    BY <1>1 DEF IdsIn
  <2>2. IdsIn(s) \subseteq IdsIn(s \o t)
    BY <1>1 DEF IdsIn
  <2>3. IdsIn(t) \subseteq IdsIn(s \o t)
    <3>1. \A i \in 1..Len(t) : Len(s) + i \in 1..Len(s \o t)
      BY <1>1
    <3>2. ASSUME NEW i \in 1..Len(t) PROVE t[i] \in IdsIn(s \o t)
      <4>1. (s \o t)[Len(s) + i] = t[i] /\ Len(s) + i \in DOMAIN (s \o t)
        BY <1>1, <3>1
      <4>2. QED
        BY <4>1 DEF IdsIn
    <3>3. QED
      BY <3>2 DEF IdsIn
  <2>4. QED
    BY <2>1, <2>2, <2>3
<1>3. ASSUME Distinct(s), Distinct(t), IdsIn(s) \cap IdsIn(t) = {},
             NEW i \in 1..Len(s \o t), NEW j \in 1..Len(s \o t), (s \o t)[i] = (s \o t)[j]
      PROVE  i = j
  <2>1. CASE i <= Len(s) /\ j <= Len(s)
    BY <1>1, <1>3, <2>1 DEF Distinct
  <2>2. CASE i > Len(s) /\ j > Len(s)
    <3>1. i - Len(s) \in 1..Len(t) /\ j - Len(s) \in 1..Len(t)
      BY <1>1, <2>2
    <3>2. QED
      BY <1>1, <1>3, <2>2, <3>1 DEF Distinct
  <2>3. ASSUME NEW k \in 1..Len(s), NEW l \in (Len(s) + 1)..(Len(s) + Len(t))
        PROVE  (s \o t)[k] # (s \o t)[l]
    <3>1. l - Len(s) \in 1..Len(t)
      OBVIOUS
    <3>2. (s \o t)[k] \in IdsIn(s) /\ (s \o t)[l] \in IdsIn(t)
      BY <1>1, <3>1 DEF IdsIn
    <3>3. QED
      BY <3>2, <1>3
  <2>4. QED
    BY <1>1, <1>3, <2>1, <2>2, <2>3
<1>4. Distinct(s) /\ Distinct(t) /\ IdsIn(s) \cap IdsIn(t) = {} => Distinct(s \o t)
  BY <1>1, <1>3 DEF Distinct
<1>5. QED
  BY <1>1, <1>2, <1>4

LEMMA InOrderIds ==
  ASSUME NEW cs \in SUBSET CdpIds, NEW s \in InOrder(cs)
  PROVE  s \in Seq(CdpIds) /\ IdsIn(s) = cs /\ Distinct(s)
<1>1. IsFiniteSet(cs)
  <2>1. IsFiniteSet(1..MaxCdps)
    BY ListingAssumption, FS_Interval
  <2>2. QED
    BY <2>1, FS_Subset DEF CdpIds
<1>2. Cardinality(cs) \in Nat
  BY <1>1, FS_CardinalityType
<1>3. s \in [1..Cardinality(cs) -> CdpIds]
  BY DEF InOrder
<1>4. s \in Seq(CdpIds) /\ DOMAIN s = 1..Cardinality(cs)
  BY <1>2, <1>3, SeqDef
<1>5. IdsIn(s) = cs
  BY <1>4 DEF InOrder, IdsIn
<1>6. \A i, j \in 1..Cardinality(cs) : s[i] = s[j] => i = j
  BY <1>2, <1>3, <1>4 DEF InOrder, CdpIds
<1>7. QED
  BY <1>4, <1>5, <1>6 DEF Distinct
LEMMA StartInv == ListingTypeOK /\ StartListing => ListingTypeOK' /\ ListingInv'
<1> SUFFICES ASSUME ListingTypeOK, StartListing PROVE ListingTypeOK' /\ ListingInv'
  OBVIOUS
<1>1. /\ listing' = [stage |-> "ids", pinned |-> NotPinned, next |-> 0, page |-> {},
                     found |-> <<>>, start |-> [minted |-> minted, burned |-> burned]]
      /\ moves' = 0 /\ minted' = minted /\ burned' = burned
  BY DEF StartListing, Unlisted, Ledger
<1>2. burned \subseteq CdpIds
  BY ListingAssumption DEF ListingTypeOK, CdpIds
<1>3. <<>> \in Seq(CdpIds) /\ IdsIn(<<>>) = {} /\ Distinct(<<>>)
  BY DEF IdsIn, Distinct
<1>4. ListingTypeOK'
  BY <1>1, <1>2, <1>3, ListingAssumption DEF ListingTypeOK, Listing
<1>5. ListingInv'
  BY <1>1, <1>3 DEF ListingInv, ListingTypeOK, NotPinned
<1>6. QED
  BY <1>4, <1>5

LEMMA LedgerInv ==
  ListingTypeOK /\ ListingInv /\ LedgerMoves => ListingTypeOK' /\ ListingInv'
<1> SUFFICES ASSUME ListingTypeOK, ListingInv, LedgerMoves
             PROVE  ListingTypeOK' /\ ListingInv'
  OBVIOUS
<1>1. minted <= minted' /\ burned \subseteq burned' /\ listing' = listing
  BY DEF LedgerMoves, ListingTypeOK
<1>2. moves' \in 0..MaxMoves
  BY ListingAssumption DEF LedgerMoves, ListingTypeOK
<1>3. minted' \in 0..MaxCdps /\ burned' \subseteq 1..minted'
  <2>1. CASE minted < MaxCdps /\ minted' = minted + 1 /\ burned' = burned
    BY <2>1, ListingAssumption DEF ListingTypeOK
  <2>2. CASE \E c \in (1..minted) \ burned : burned' = burned \cup {c} /\ minted' = minted
    BY <2>2 DEF ListingTypeOK
  <2>3. QED
    BY <2>1, <2>2 DEF LedgerMoves
<1>4. ListingTypeOK'
  BY <1>1, <1>2, <1>3 DEF ListingTypeOK, Listing
<1>5. listing.start.minted \in Nat /\ minted \in Nat /\ minted' \in Nat
  BY <1>3 DEF ListingTypeOK, Listing
<1>6. listing.start.minted <= minted' /\ listing.start.burned \subseteq burned'
  BY <1>1, <1>5 DEF ListingInv
<1>7. (1..listing.next) \ (listing.page \cup burned') \subseteq IdsIn(listing.found)
  BY <1>1 DEF ListingInv
<1>8. ListingInv'
  BY <1>1, <1>6, <1>7 DEF ListingInv
<1>9. QED
  BY <1>4, <1>8

LEMMA PageInv ==
  ListingTypeOK /\ ListingInv /\ ListPage => ListingTypeOK' /\ ListingInv'
<1> SUFFICES ASSUME ListingTypeOK, ListingInv, ListPage
             PROVE  ListingTypeOK' /\ ListingInv'
  OBVIOUS
<1> DEFINE version == IF listing.pinned = NotPinned THEN minted ELSE listing.pinned
           end == PageEnd(listing.next, version)
<1>1. /\ listing.stage = "ids" /\ minted' = minted /\ burned' = burned /\ moves' = moves
      /\ listing' = [listing EXCEPT !.stage = "locations", !.pinned = version,
                                    !.page = listing.next + 1 .. end, !.next = end]
  BY DEF ListPage
<1>2. /\ version \in 0..MaxCdps /\ version # NotPinned
      /\ listing.next \in Nat /\ listing.next <= version
      /\ listing.start.minted <= version
  BY ListingAssumption DEF ListingTypeOK, Listing, ListingInv, NotPinned
<1> HIDE DEF version
<1>3. end \in 0..MaxCdps /\ listing.next <= end /\ end <= version
  BY <1>2, ListingAssumption DEF PageEnd
<1> HIDE DEF end
<1>4. listing.next + 1 .. end \subseteq CdpIds /\ listing.next + 1 .. end \subseteq 1..end
  BY <1>2, <1>3, ListingAssumption DEF CdpIds
<1>5. /\ listing'.stage = "locations" /\ listing'.pinned = version
      /\ listing'.page = (listing.next + 1 .. end) /\ listing'.next = end
      /\ listing'.found = listing.found /\ listing'.start = listing.start
  BY <1>1 DEF ListingTypeOK, Listing
<1>6. ListingTypeOK'
  BY <1>1, <1>2, <1>3, <1>4 DEF ListingTypeOK, Listing
<1>7. /\ IdsIn(listing.found) \subseteq (1..listing.next) \ listing.start.burned
      /\ (1..listing.next) \ burned \subseteq IdsIn(listing.found)
  BY <1>1 DEF ListingInv
<1>8. /\ IdsIn(listing.found) \subseteq
           (1..end) \ ((listing.next + 1 .. end) \cup listing.start.burned)
      /\ (1..end) \ ((listing.next + 1 .. end) \cup burned) \subseteq IdsIn(listing.found)
  BY <1>2, <1>3, <1>7
<1>9. ListingInv'
  BY <1>1, <1>2, <1>3, <1>4, <1>5, <1>8 DEF ListingInv
<1>10. QED
  BY <1>6, <1>9

LEMMA LocateInv ==
  ListingTypeOK /\ ListingInv /\ LocatePage =>
    /\ ListingTypeOK' /\ ListingInv'
    /\ listing'.stage \in {"ids", "done"} /\ listing'.found \in Seq(CdpIds)
<1> SUFFICES ASSUME ListingTypeOK, ListingInv, LocatePage
             PROVE  /\ ListingTypeOK' /\ ListingInv'
                    /\ listing'.stage \in {"ids", "done"} /\ listing'.found \in Seq(CdpIds)
  OBVIOUS
<1> DEFINE wantedIds == {c \in listing.page : Wanted(c)}
<1>1. PICK wanted \in InOrder(wantedIds) :
        listing' = [listing EXCEPT !.found = @ \o wanted, !.page = {},
                                   !.stage = IF Loops THEN "ids" ELSE "done"]
  BY DEF LocatePage
<1>2. /\ listing.stage = "locations"
      /\ minted' = minted /\ burned' = burned /\ moves' = moves
  BY DEF LocatePage
<1>3. wantedIds = listing.page \ burned /\ wantedIds \subseteq CdpIds
  BY DEF Wanted, ListingTypeOK, Listing
<1> HIDE DEF wantedIds
<1>4. wanted \in Seq(CdpIds) /\ IdsIn(wanted) = wantedIds /\ Distinct(wanted)
  BY <1>3, InOrderIds
<1>5. listing.found \in Seq(CdpIds)
  BY DEF ListingTypeOK, Listing
<1> DEFINE found == listing.found \o wanted
<1>6. found \in Seq(CdpIds) /\ IdsIn(found) = IdsIn(listing.found) \cup wantedIds
  BY <1>4, <1>5, ConcatIds
<1>7. Distinct(found)
  BY <1>3, <1>4, <1>5, ConcatIds DEF ListingInv
<1> HIDE DEF found
<1>8. /\ listing'.stage = (IF Loops THEN "ids" ELSE "done") /\ listing'.found = found
      /\ listing'.page = {} /\ listing'.pinned = listing.pinned
      /\ listing'.next = listing.next /\ listing'.start = listing.start
  BY <1>1 DEF ListingTypeOK, Listing, found
<1>9. listing' \in Listing
  BY <1>1, <1>6, <1>8 DEF ListingTypeOK, Listing, found
<1>10. ListingTypeOK'
  BY <1>2, <1>9 DEF ListingTypeOK
<1>11. listing.next \in Nat /\ listing.pinned \in Int
  BY ListingAssumption DEF ListingTypeOK, Listing, NotPinned
<1>12. listing'.stage = "done" => listing.next = listing.pinned
  BY <1>2, <1>8, <1>11 DEF ListingInv, Loops
<1>13. ListingInv'
  <2>1. IdsIn(found) \subseteq (1..listing.next) \ listing.start.burned
    BY <1>3, <1>6 DEF ListingInv
  <2>2. (1..listing.next) \ burned \subseteq IdsIn(found)
    BY <1>3, <1>6 DEF ListingInv
  <2>3. QED
    BY <1>2, <1>7, <1>8, <1>12, <2>1, <2>2 DEF ListingInv
<1>14. QED
  BY <1>6, <1>8, <1>10, <1>13
-----------------------------------------------------------------------------
(* The steps *)

LEMMA InitInv == Init => IInv
<1> SUFFICES ASSUME Init PROVE IInv
  OBVIOUS
<1>1. /\ listing = [stage |-> "idle", pinned |-> NotPinned, next |-> 0, page |-> {},
                    found |-> <<>>, start |-> [minted |-> minted, burned |-> burned]]
      /\ minted \in 0..MaxCdps /\ burned = {} /\ moves = 0
  BY DEF Init, ListingInit, Unlisted, Ledger
<1>2. <<>> \in Seq(CdpIds) /\ IdsIn(<<>>) = {} /\ Distinct(<<>>)
  BY DEF IdsIn, Distinct
<1>3. ListingTypeOK
  BY <1>1, <1>2, ListingAssumption DEF ListingTypeOK, Listing
<1>4. ListingInv
  BY <1>1, <1>2 DEF ListingInv, NotPinned
<1>5. TypeOK
  BY <1>2, <1>3, BoundsAssumption DEF Init, TypeOK
<1>6. RunInv
  BY DEF Init, RunInv
<1>7. Accepted = {} /\ QueueInv
  BY DEF Init, Accepted, QueueInv, ChunksPartition
<1>8. ChunkCount = 0
  BY <1>2, CountType DEF Init
<1>9. CursorInv
  BY <1>7, <1>8, SizesAssumption DEF Init, CursorInv, Settled
<1>10. QED
  BY <1>4, <1>5, <1>6, <1>7, <1>9 DEF IInv

\* Nothing of a run is on the queue while its ids are not known.
LEMMA NothingYet ==
  ASSUME IInv, ids = <<>>
  PROVE  /\ ChunkCount = 0 /\ Accepted = {} /\ faulted = {}
         /\ \A m \in queue : m.runId # runId
<1>1. ChunkCount = 0
  BY CountType DEF IInv, TypeOK
<1>2. QED
  BY <1>1 DEF IInv, QueueInv, Accepted

LEMMA InvokeInv == IInv /\ Invoke => IInv'
<1> SUFFICES ASSUME IInv, Invoke PROVE IInv'
  OBVIOUS
<1> USE DEF IInv
<1>1. ListingTypeOK' /\ ListingInv' /\ listing'.stage = "ids"
  BY StartInv DEF Invoke, TypeOK, StartListing, Unlisted
<1>2. /\ phase' = "fetching" /\ runId' = runId + 1 /\ ids' = <<>> /\ cursor' = 0
      /\ failed' = {} /\ faulted' = {} /\ queue' = queue /\ response' = response
      /\ runId < MaxRuns
  BY DEF Invoke
<1>3. runId' \in 1..MaxRuns
  BY <1>2, BoundsAssumption DEF TypeOK
<1>4. TypeOK'
  BY <1>1, <1>2, <1>3 DEF TypeOK
<1>5. RunInv'
  BY <1>1, <1>2, <1>3 DEF RunInv
<1>6. \A m \in queue : m.runId < runId'
  BY <1>2 DEF QueueInv, TypeOK, Message
<1>7. QueueInv'
  <2>1. \A m \in queue' : m.runId <= runId' /\ m.runId # runId'
    BY <1>2, <1>3, <1>6 DEF TypeOK, Message
  <2>2. ChunksPartition'
    BY <1>2 DEF QueueInv, ChunksPartition
  <2>3. QED
    BY <1>2, <2>1, <2>2 DEF QueueInv
<1>8. Accepted' = {}
  BY <1>2, <1>6 DEF Accepted, TypeOK, Message
<1>9. ChunkCount' = 0
  <2>1. ids' \in Seq(CdpIds) /\ Len(ids') = 0
    BY <1>2
  <2>2. ChunkCount' = (Len(ids') + IndexerBatchSize - 1) \div IndexerBatchSize
    BY DEF ChunkCount
  <2>3. ((0 + IndexerBatchSize - 1) \div IndexerBatchSize) = 0
    BY SizesAssumption
  <2>4. QED
    BY <2>1, <2>2, <2>3
<1>10. CursorInv'
  BY <1>2, <1>8, <1>9, SizesAssumption DEF CursorInv, Settled
<1>11. QED
  BY <1>1, <1>4, <1>5, <1>7, <1>10

\* A step that leaves the run as it is leaves what is known of it.
LEMMA RunUnchanged ==
  ASSUME IInv, UNCHANGED runVars
  PROVE  /\ QueueInv' /\ CursorInv' /\ ChunkCount' = ChunkCount
         /\ Accepted' = Accepted
<1> USE DEF IInv
<1>1. /\ phase' = phase /\ runId' = runId /\ ids' = ids /\ cursor' = cursor
      /\ failed' = failed /\ faulted' = faulted /\ queue' = queue
      /\ response' = response
  BY DEF runVars
<1>2. ChunkCount' = ChunkCount /\ Accepted' = Accepted /\ Entries' = Entries
  BY <1>1 DEF ChunkCount, Accepted, Entries
<1>3. \A k : Chunk(k)' = Chunk(k)
  BY <1>1, <1>2 DEF Chunk, Slice
<1>4. QueueInv'
  BY <1>1, <1>2, <1>3 DEF QueueInv, ChunksPartition
<1>5. CursorInv'
  BY <1>1, <1>2 DEF CursorInv, Settled
<1>6. QED
  BY <1>2, <1>4, <1>5

LEMMA ListingMovesInv == IInv /\ ListingMoves => IInv'
<1> SUFFICES ASSUME IInv, ListingMoves PROVE IInv'
  OBVIOUS
<1>1. /\ phase' = phase /\ runId' = runId /\ ids' = ids /\ cursor' = cursor
      /\ failed' = failed /\ faulted' = faulted /\ queue' = queue
      /\ response' = response /\ phase = "fetching"
  BY DEF ListingMoves, runVars
<1>2. ListingTypeOK' /\ ListingInv'
  BY LedgerInv, PageInv DEF ListingMoves, IInv, TypeOK
<1>3. TypeOK'
  BY <1>1, <1>2 DEF IInv, TypeOK
<1>4. listing'.stage \in {"ids", "locations"}
  BY <1>1 DEF ListingMoves, LedgerMoves, ListPage, IInv, RunInv, TypeOK, ListingTypeOK, Listing
<1>5. RunInv'
  BY <1>1, <1>4 DEF IInv, RunInv
<1>6. QueueInv' /\ CursorInv'
  BY RunUnchanged DEF ListingMoves
<1>7. QED
  BY <1>2, <1>3, <1>5, <1>6 DEF IInv

LEMMA FetchInv == IInv /\ Fetch => IInv'
<1> SUFFICES ASSUME IInv, Fetch PROVE IInv'
  OBVIOUS
<1> USE DEF IInv
<1>1. /\ ListingTypeOK' /\ ListingInv'
      /\ listing'.stage \in {"ids", "done"} /\ listing'.found \in Seq(CdpIds)
  BY LocateInv DEF Fetch, TypeOK
<1>2. /\ phase = "fetching" /\ runId' = runId /\ cursor' = cursor /\ failed' = failed
      /\ faulted' = faulted /\ queue' = queue
  BY DEF Fetch
<1>3. ids = <<>> /\ runId # 0 /\ faulted = {} /\ \A m \in queue : m.runId # runId
  BY <1>2, NothingYet DEF RunInv
<1>4. CASE listing'.stage = "ids"
  <2>1. UNCHANGED runVars
    BY <1>2, <1>4 DEF Fetch, runVars
  <2>2. QueueInv' /\ CursorInv'
    BY <2>1, RunUnchanged
  <2>3. TypeOK'
    BY <1>1, <2>1 DEF TypeOK, runVars
  <2>4. RunInv'
    BY <1>2, <1>3, <1>4, <2>1 DEF RunInv, runVars
  <2>5. QED
    BY <1>1, <2>2, <2>3, <2>4
<1>5. CASE listing'.stage = "done"
  <2>1. /\ ids' = listing'.found
        /\ phase' = (IF ids' = <<>> THEN "returned" ELSE "sending")
        /\ response' = (IF ids' = <<>> THEN 0 ELSE response)
    BY <1>5 DEF Fetch
  <2>2. TypeOK'
    BY <1>1, <1>2, <2>1 DEF TypeOK
  <2>3. RunInv'
    BY <1>2, <1>3, <1>5, <2>1 DEF RunInv
  <2>4. QueueInv'
    BY <1>2, <1>3 DEF QueueInv, ChunksPartition
  <2>5. Accepted' = {}
    BY <1>2, <1>3 DEF Accepted
  <2>6. ids' = <<>> => ChunkCount' = 0 /\ Len(ids') = 0
    <3>1. ChunkCount' = (Len(ids') + IndexerBatchSize - 1) \div IndexerBatchSize
      BY DEF ChunkCount
    <3>2. ((0 + IndexerBatchSize - 1) \div IndexerBatchSize) = 0
      BY SizesAssumption
    <3>3. QED
      BY <3>1, <3>2
  <2>7. cursor = 0
    BY <1>2 DEF CursorInv
  <2>8. CursorInv'
    BY <1>2, <1>3, <2>1, <2>5, <2>6, <2>7 DEF CursorInv, Settled
  <2>9. QED
    BY <1>1, <2>2, <2>3, <2>4, <2>8
<1>6. QED
  BY <1>1, <1>4, <1>5
\* An answer of SQS settles what it accepted and what it rejected.
LEMMA AnsweredInv ==
  ASSUME IInv, runId # 0, NEW offered \in SUBSET (1..ChunkCount),
         NEW accepted \in SUBSET offered, NEW rejected \in SUBSET offered,
         Answered(accepted, rejected), runId' = runId, ids' = ids
  PROVE  /\ ChunkCount' = ChunkCount /\ queue' \subseteq Message /\ faulted' \subseteq Nat
         /\ QueueInv'
         /\ Settled' = Settled \cup accepted \cup rejected
<1>1. /\ queue' = queue \cup {Chunk(k) : k \in accepted}
      /\ faulted' = faulted \cup rejected
  BY DEF Answered
<1>2. /\ queue' \subseteq Message
      /\ ChunkCount' = ChunkCount
      /\ Accepted' = Accepted \cup accepted
      /\ \A m \in queue' : m.runId <= runId
      /\ \A m \in queue' : m.runId = runId =>
           m.chunkIndex \in 1..ChunkCount /\ m = Chunk(m.chunkIndex)'
      /\ ChunksPartition'
  BY <1>1, QueueGrows
<1>3. faulted' \subseteq 1..ChunkCount
  BY <1>1 DEF IInv, QueueInv
<1>4. faulted' \subseteq Nat
  BY <1>3
<1>5. QueueInv'
  BY <1>2, <1>3 DEF QueueInv
<1>6. Settled' = Settled \cup accepted \cup rejected
  BY <1>1, <1>2 DEF Settled
<1>7. QED
  BY <1>2, <1>4, <1>5, <1>6

\* The loop goes on when all of the batch in hand is settled.
LEMMA BatchDoneInv ==
  ASSUME IInv, BatchDone, ChunkCount' = ChunkCount, ids' = ids,
         phase \in {"sending", "retrying"},
         Settled \subseteq Settled', Entries \subseteq Settled',
         Settled' \subseteq Settled \cup Entries
  PROVE  /\ CursorInv' /\ phase' \in {"sending", "returned"}
         /\ cursor' \in Nat /\ response' \in Nat /\ failed' = {}
<1> USE DEF IInv
<1>1. /\ cursor' = cursor + BatchLimit /\ failed' = {}
      /\ phase' = (IF cursor + BatchLimit < ChunkCount THEN "sending" ELSE "returned")
      /\ response' = (IF cursor + BatchLimit < ChunkCount THEN response ELSE Len(ids))
  BY DEF BatchDone
<1>2. ChunkCount \in Nat /\ Len(ids) \in Nat /\ cursor \in Nat /\ response \in Nat
  BY CountType DEF TypeOK
<1>3. Settled \subseteq Nat
  BY DEF Settled, Accepted, TypeOK, Message
<1>4. \E q \in 0..cursor' : cursor' = q * BatchLimit
  <2>1. PICK q \in 0..cursor : cursor = q * BatchLimit
    BY DEF CursorInv
  <2>2. cursor' = (q + 1) * BatchLimit /\ q + 1 \in 0..cursor'
    BY <2>1, <1>1, <1>2, SizesAssumption
  <2>3. QED
    BY <2>2
<1>5. \A k \in 1..ChunkCount : k <= cursor + BatchLimit => k \in Settled'
  BY <1>2 DEF CursorInv, Entries
<1>6. \A k \in Settled' : k <= cursor + BatchLimit
  BY <1>2 DEF CursorInv, Entries
<1>7. \A k \in Settled' : k <= cursor' + BatchLimit
  BY <1>1, <1>2, <1>3, <1>6, SizesAssumption DEF Entries
<1>8. phase' = "returned" => ChunkCount' <= cursor' /\ response' = Len(ids')
  BY <1>1, <1>2, SizesAssumption
<1>9. /\ \A k \in 1..ChunkCount' : k <= cursor' => k \in Settled'
      /\ \A k \in Settled' : k <= cursor'
      /\ phase' \in {"sending", "returned"}
  BY <1>1, <1>5, <1>6
<1>10. CursorInv'
  BY <1>4, <1>7, <1>8, <1>9 DEF CursorInv
<1>11. QED
  BY <1>1, <1>2, <1>9, <1>10, SizesAssumption

\* What a step of the run leaves of the listing's knowledge
LEMMA ListingUnchanged ==
  ASSUME IInv, UNCHANGED listingVars
  PROVE  ListingTypeOK' /\ ListingInv' /\ listing' = listing
BY DEF IInv, TypeOK, listingVars, ListingTypeOK, ListingInv

LEMMA SendBatchInv == IInv /\ SendBatch => IInv'
<1> SUFFICES ASSUME IInv, SendBatch PROVE IInv'
  OBVIOUS
<1>1. /\ phase = "sending" /\ runId' = runId /\ ids' = ids
      /\ ListingTypeOK' /\ ListingInv' /\ listing' = listing
  BY ListingUnchanged DEF SendBatch
<1>2. PICK accepted \in SUBSET Entries, rejected \in Rejectable(Entries) :
        /\ Answered(accepted, rejected)
        /\ LET left == Entries \ (accepted \cup rejected) IN
           \/ left = {} /\ BatchDone
           \/ /\ left # {}
              /\ failed' = RetryEntries(left)
              /\ phase' = "retrying"
              /\ UNCHANGED <<cursor, response>>
  BY DEF SendBatch
<1>3. runId # 0 /\ Entries \subseteq 1..ChunkCount
  BY <1>1 DEF IInv, RunInv, Entries
<1>4. /\ ChunkCount' = ChunkCount /\ queue' \subseteq Message /\ faulted' \subseteq Nat
      /\ QueueInv' /\ rejected \subseteq Entries
      /\ Settled' = Settled \cup accepted \cup rejected
  <2>1. Entries \in SUBSET (1..ChunkCount) /\ rejected \in SUBSET Entries
    BY <1>3 DEF Rejectable
  <2>2. QED
    BY <1>1, <1>2, <1>3, <2>1, AnsweredInv
<1>5. /\ CursorInv' /\ phase' \in {"sending", "retrying", "returned"}
      /\ cursor' \in Nat /\ response' \in Nat /\ failed' \subseteq Nat
  <2>1. CASE Entries \ (accepted \cup rejected) = {} /\ BatchDone
    BY <1>1, <1>4, <2>1, BatchDoneInv
  <2>2. CASE /\ failed' = Entries \ (accepted \cup rejected)
             /\ phase' = "retrying" /\ cursor' = cursor /\ response' = response
    <3>1. Entries' = Entries /\ Entries \subseteq Nat
      BY <1>3, <1>4, <2>2 DEF Entries
    <3>2. Settled \cap Entries = {}
      BY <1>1 DEF IInv, CursorInv, Entries, Settled, Accepted, TypeOK, Message
    <3>3. \A k \in Settled' : k <= cursor + BatchLimit
      BY <1>4 DEF IInv, CursorInv, Entries
    <3>4. /\ failed' \subseteq Entries' /\ failed' \cap Settled' = {}
          /\ Entries' \subseteq failed' \cup Settled'
      BY <1>4, <2>2, <3>1, <3>2
    <3>5. \A k \in 1..ChunkCount' : k <= cursor' => k \in Settled'
      BY <1>4, <2>2 DEF IInv, CursorInv
    <3>6. CursorInv'
      BY <2>2, <3>3, <3>4, <3>5 DEF IInv, CursorInv
    <3>7. QED
      BY <2>2, <3>1, <3>6 DEF IInv, TypeOK
  <2>3. QED
    BY <1>2, <2>1, <2>2 DEF RetryEntries
<1>6. TypeOK'
  BY <1>1, <1>4, <1>5 DEF IInv, TypeOK
<1>7. RunInv'
  BY <1>1, <1>5 DEF IInv, RunInv
<1>8. QED
  BY <1>1, <1>4, <1>5, <1>6, <1>7 DEF IInv

LEMMA RetryBatchInv == IInv /\ RetryBatch => IInv'
<1> SUFFICES ASSUME IInv, RetryBatch PROVE IInv'
  OBVIOUS
<1>1. /\ phase = "retrying" /\ runId' = runId /\ ids' = ids
      /\ ListingTypeOK' /\ ListingInv' /\ listing' = listing
  BY ListingUnchanged DEF RetryBatch
<1>2. PICK accepted \in SUBSET failed, rejected \in Rejectable(failed) :
        /\ Answered(accepted, rejected)
        /\ LET left == failed \ (accepted \cup rejected) IN
           \/ left = {} /\ BatchDone
           \/ left # {} /\ RetryFailed(left)
  BY DEF RetryBatch
<1>3. /\ runId # 0 /\ failed \subseteq Entries /\ Entries \subseteq 1..ChunkCount
      /\ Entries \subseteq failed \cup Settled
  BY <1>1 DEF IInv, RunInv, CursorInv, Entries
<1>4. /\ ChunkCount' = ChunkCount /\ queue' \subseteq Message /\ faulted' \subseteq Nat
      /\ QueueInv' /\ rejected \subseteq failed
      /\ Settled' = Settled \cup accepted \cup rejected
  <2>1. failed \in SUBSET (1..ChunkCount) /\ rejected \in SUBSET failed
    BY <1>3 DEF Rejectable
  <2>2. QED
    BY <1>1, <1>2, <1>3, <2>1, AnsweredInv
<1>5. /\ CursorInv' /\ phase' \in {"sending", "returned", "thrown"}
      /\ cursor' \in Nat /\ response' \in Nat /\ failed' \subseteq Nat
  <2>1. CASE failed \ (accepted \cup rejected) = {} /\ BatchDone
    <3>1. /\ Settled \subseteq Settled' /\ Entries \subseteq Settled'
          /\ Settled' \subseteq Settled \cup Entries
      BY <1>3, <1>4, <2>1
    <3>2. QED
      BY <1>1, <1>4, <2>1, <3>1, BatchDoneInv
  <2>2. CASE RetryFailed(failed \ (accepted \cup rejected))
    <3>1. phase' = "thrown" /\ cursor' = cursor /\ failed' = failed /\ response' = response
      BY <2>2 DEF RetryFailed
    <3>2. \A k \in Settled' : k <= cursor + BatchLimit
      BY <1>3, <1>4 DEF IInv, CursorInv, Entries
    <3>3. CursorInv'
      BY <1>4, <3>1, <3>2 DEF IInv, CursorInv
    <3>4. QED
      BY <3>1, <3>3 DEF IInv, TypeOK
  <2>3. QED
    BY <1>2, <2>1, <2>2
<1>6. TypeOK'
  BY <1>1, <1>4, <1>5 DEF IInv, TypeOK
<1>7. RunInv'
  BY <1>1, <1>5 DEF IInv, RunInv
<1>8. QED
  BY <1>1, <1>4, <1>5, <1>6, <1>7 DEF IInv

LEMMA ThrowInv == IInv /\ Throw => IInv'
<1> SUFFICES ASSUME IInv, Throw PROVE IInv'
  OBVIOUS
<1>1. /\ phase \in {"fetching", "sending", "retrying"} /\ phase' = "thrown"
      /\ runId' = runId /\ ids' = ids /\ cursor' = cursor /\ failed' = failed
      /\ faulted' = faulted /\ response' = response
      /\ ListingTypeOK' /\ ListingInv' /\ listing' = listing
  BY ListingUnchanged DEF Throw
<1>2. PICK accepted \in SUBSET (IF phase = "fetching" THEN {} ELSE Offered) :
        queue' = queue \cup {Chunk(k) : k \in accepted}
  BY DEF Throw
<1>3. accepted \subseteq Entries /\ Entries \subseteq 1..ChunkCount /\ runId # 0
  BY <1>1, <1>2 DEF Offered, IInv, CursorInv, RunInv, Entries
<1>4. /\ queue' \subseteq Message
      /\ ChunkCount' = ChunkCount
      /\ Accepted' = Accepted \cup accepted
      /\ \A m \in queue' : m.runId <= runId
      /\ \A m \in queue' : m.runId = runId =>
           m.chunkIndex \in 1..ChunkCount /\ m = Chunk(m.chunkIndex)'
      /\ ChunksPartition'
  <2>1. accepted \in SUBSET (1..ChunkCount)
    BY <1>3
  <2>2. QED
    BY <1>1, <1>2, <1>3, <2>1, QueueGrows
<1>5. QueueInv'
  BY <1>1, <1>4 DEF QueueInv, IInv
<1>6. CursorInv'
  <2>1. Settled' = Settled \cup accepted
    BY <1>1, <1>4 DEF Settled
  <2>2. \A k \in Settled' : k <= cursor + BatchLimit
    BY <2>1, <1>3 DEF IInv, CursorInv, Entries
  <2>3. QED
    BY <1>1, <1>4, <2>1, <2>2 DEF IInv, CursorInv
<1>7. TypeOK'
  BY <1>1, <1>4 DEF IInv, TypeOK
<1>8. RunInv'
  BY <1>1 DEF IInv, RunInv
<1>9. QED
  BY <1>1, <1>5, <1>6, <1>7, <1>8 DEF IInv

LEMMA NextInv == IInv /\ [Next]_vars => IInv'
<1>1. IInv /\ UNCHANGED vars => IInv'
  <2> SUFFICES ASSUME IInv, UNCHANGED vars PROVE IInv'
    OBVIOUS
  <2>1. UNCHANGED runVars /\ UNCHANGED listingVars
    BY DEF vars
  <2>2. ListingTypeOK' /\ ListingInv' /\ QueueInv' /\ CursorInv' /\ listing' = listing
    BY <2>1, ListingUnchanged, RunUnchanged
  <2>3. TypeOK' /\ RunInv'
    BY <2>1, <2>2 DEF IInv, TypeOK, RunInv, runVars
  <2>4. QED
    BY <2>2, <2>3 DEF IInv
<1>2. QED
  BY <1>1, InvokeInv, ListingMovesInv, FetchInv, SendBatchInv, RetryBatchInv, ThrowInv
  DEF Next

LEMMA Invariance == Spec => []IInv
BY InitInv, NextInv, PTL DEF Spec
-----------------------------------------------------------------------------
(* The theorems *)

\* The state of the handler, of the listing and of the queue is of its type.
THEOREM TypesHold == Spec => []TypeOK
<1>1. IInv => TypeOK
  BY DEF IInv
<1>2. QED
  BY Invariance, <1>1, PTL

\* A run puts no CDP on the queue twice, and its messages agree on their number: the
\* chunks are disjoint slices of ids in which no id repeats, although the pages were
\* listed one after another on a ledger that moved.
THEOREM NoCdpTwice == Spec => []ChunksPartition
<1>1. IInv => ChunksPartition
  BY DEF IInv, QueueInv
<1>2. QED
  BY Invariance, <1>1, PTL

\* What SQS accepted or rejected is not offered to it again, at either attempt.
THEOREM RetriesOnlyFailed == Spec => []NeverSentTwice
<1>1. ASSUME IInv, phase \in {"sending", "retrying"}
      PROVE  Offered \cap (Accepted \cup faulted) = {}
  <2>1. CASE phase = "sending"
    <3>1. Settled \subseteq Nat
      BY <1>1 DEF IInv, Settled, Accepted, TypeOK, Message
    <3>2. \A k \in Settled : k <= cursor
      BY <1>1, <2>1 DEF IInv, CursorInv
    <3>3. QED
      BY <1>1, <2>1, <3>1, <3>2 DEF IInv, TypeOK, Offered, Entries, Settled
  <2>2. CASE phase = "retrying"
    BY <1>1, <2>2 DEF IInv, CursorInv, Offered, Settled
  <2>3. QED
    BY <1>1, <2>1, <2>2
<1>2. IInv => NeverSentTwice
  BY <1>1 DEF NeverSentTwice
<1>3. QED
  BY Invariance, <1>2, PTL

\* Batches are settled in order: with a chunk on the queue, all chunks of the batches
\* before it are on the queue or were rejected, however the run ended.
THEOREM BatchesInOrder == Spec => []NoGaps
<1>1. ASSUME IInv, NEW j \in Accepted, NEW k \in 1..ChunkCount,
             (k - 1) \div BatchLimit < (j - 1) \div BatchLimit
      PROVE  k \in Accepted \cup faulted
  <2>1. PICK q \in 0..cursor : cursor = q * BatchLimit
    BY <1>1 DEF IInv, CursorInv
  <2>2. j \in Nat \ {0} /\ j <= cursor + BatchLimit
    BY <1>1 DEF IInv, CursorInv, Settled, Accepted, TypeOK, Message
  <2>3. k \in Nat \ {0} /\ cursor \in Nat /\ q \in Nat
    BY <1>1, CountType DEF IInv, TypeOK
  <2>4. j - 1 < (q + 1) * BatchLimit
    BY <2>1, <2>2, <2>3, SizesAssumption
  <2>5. (j - 1) \div BatchLimit < q + 1
    BY <2>2, <2>3, <2>4, SizesAssumption, QuotientBelow
  <2>6. (k - 1) \div BatchLimit < q
    <3>1. (k - 1) \div BatchLimit \in Nat /\ (j - 1) \div BatchLimit \in Nat
      BY <2>2, <2>3, SizesAssumption, Quotient
    <3>2. QED
      BY <1>1, <2>3, <2>5, <3>1
  <2>7. k - 1 < q * BatchLimit
    BY <2>3, <2>6, SizesAssumption, QuotientBelow
  <2>8. k <= cursor
    BY <2>1, <2>3, <2>7
  <2>9. QED
    BY <1>1, <2>8 DEF IInv, CursorInv, Settled
<1>2. IInv => NoGaps
  BY <1>1 DEF NoGaps
<1>3. QED
  BY Invariance, <1>2, PTL

\* The ids in the messages and the rejected chunks of a run are ids of the run.
LEMMA SettledIds ==
  ASSUME IInv
  PROVE  /\ QueuedIds \cup FaultedIds = UNION {Chunk(k).cdpIds : k \in Settled}
         /\ Settled \subseteq 1..ChunkCount
<1>1. Settled \subseteq 1..ChunkCount
  BY DEF IInv, QueueInv, Settled, Accepted
<1>2. \A m \in queue : m.runId = runId =>
        m.chunkIndex \in Accepted /\ m.cdpIds = Chunk(m.chunkIndex).cdpIds
  BY DEF IInv, QueueInv, Accepted
<1>3. QueuedIds \subseteq UNION {Chunk(k).cdpIds : k \in Accepted}
  BY <1>2 DEF QueuedIds
<1>4. UNION {Chunk(k).cdpIds : k \in Accepted} \subseteq QueuedIds
  BY <1>2 DEF QueuedIds, Accepted
<1>5. UNION {Chunk(k).cdpIds : k \in Settled} =
        (UNION {Chunk(k).cdpIds : k \in Accepted})
          \cup (UNION {Chunk(k).cdpIds : k \in faulted})
  BY DEF Settled
<1>6. QED
  BY <1>1, <1>3, <1>4, <1>5 DEF FaultedIds

\* No CDP burned before the run began is in one of its messages.
THEOREM NoneBurnedQueued == Spec => []NoneBurnedBefore
<1>1. ASSUME IInv PROVE QueuedIds \subseteq IdsIn(ids)
  <2>1. ASSUME NEW k \in 1..ChunkCount PROVE Chunk(k).cdpIds \subseteq IdsIn(ids)
    BY <1>1, CountType DEF Chunk, Slice, IdsIn, IInv, TypeOK
  <2>2. QED
    BY <1>1, <2>1, SettledIds
<1>2. ASSUME IInv PROVE IdsIn(ids) \cap GoneBefore = {}
  <2>1. CASE ids = <<>>
    BY <2>1 DEF IdsIn
  <2>2. CASE ids # <<>>
    BY <1>2, <2>2 DEF IInv, RunInv, ListingInv, GoneBefore
  <2>3. QED
    BY <2>1, <2>2
<1>3. IInv => NoneBurnedBefore
  BY <1>1, <1>2 DEF NoneBurnedBefore
<1>4. QED
  BY Invariance, <1>3, PTL

LEMMA DistinctCount ==
  ASSUME NEW s \in Seq(CdpIds), Distinct(s)
  PROVE  Cardinality(IdsIn(s)) = Len(s)
<1>1. s \in [1..Len(s) -> IdsIn(s)] /\ DOMAIN s = 1..Len(s) /\ Len(s) \in Nat
  BY LenProperties DEF IdsIn
<1>2. s \in Injection(1..Len(s), IdsIn(s))
  BY <1>1 DEF Injection, IsInjective, Distinct
<1>3. s \in Surjection(1..Len(s), IdsIn(s))
  BY <1>1 DEF Surjection, IdsIn
<1>4. IsFiniteSet(1..Len(s)) /\ Cardinality(1..Len(s)) = Len(s)
  <2>1. /\ IsFiniteSet(1..Len(s))
        /\ Cardinality(1..Len(s)) = (IF 1 > Len(s) THEN 0 ELSE Len(s) - 1 + 1)
    BY <1>1, FS_Interval
  <2>2. QED
    BY <1>1, <2>1
<1>5. QED
  BY <1>2, <1>3, <1>4, FS_Surjection

\* A run that answers 200 forgot no CDP that was alive from its beginning to the end of
\* its listing, and answers the number of CDPs in its messages and rejected entries.
THEOREM NothingLost == Spec => []NothingForgotten
<1>1. ASSUME IInv, phase = "returned"
      PROVE  /\ AliveThroughout \subseteq QueuedIds \cup FaultedIds
             /\ response = Cardinality(QueuedIds \cup FaultedIds)
  <2>1. listing.stage = "done" /\ ids = listing.found /\ ids \in Seq(CdpIds)
    BY <1>1 DEF IInv, RunInv, TypeOK
  <2>2. Settled = 1..ChunkCount
    <3>1. \A k \in 1..ChunkCount : k <= cursor => k \in Settled
      BY <1>1 DEF IInv, CursorInv
    <3>2. ChunkCount <= cursor /\ ChunkCount \in Nat /\ cursor \in Nat
      BY <1>1, CountType DEF IInv, CursorInv, TypeOK
    <3>3. Settled \subseteq 1..ChunkCount
      BY <1>1, SettledIds
    <3>4. 1..ChunkCount \subseteq Settled
      BY <3>1, <3>2
    <3>5. QED
      BY <3>3, <3>4
  <2>3. UNION {Chunk(k).cdpIds : k \in 1..ChunkCount} = IdsIn(ids)
    <3>1. ASSUME NEW k \in 1..ChunkCount PROVE Chunk(k).cdpIds \subseteq IdsIn(ids)
      BY <2>1, CountType DEF Chunk, Slice, IdsIn
    <3>2. ASSUME NEW p \in 1..Len(ids)
          PROVE  \E k \in 1..ChunkCount : ids[p] \in Chunk(k).cdpIds
      BY <2>1, SlicesCover DEF Chunk
    <3>3. IdsIn(ids) = {ids[p] : p \in 1..Len(ids)}
      BY <2>1 DEF IdsIn
    <3>4. QED
      BY <3>1, <3>2, <3>3
  <2>4. QueuedIds \cup FaultedIds = IdsIn(ids)
    BY <1>1, <2>2, <2>3, SettledIds
  <2>5. Cardinality(IdsIn(ids)) = Len(ids)
    BY <1>1, <2>1, DistinctCount DEF IInv, ListingInv
  <2>6. AliveThroughout \subseteq IdsIn(ids)
    <3>1. /\ listing.page = {} /\ listing.start.minted <= listing.next
          /\ (1..listing.next) \ burned \subseteq IdsIn(ids)
      BY <1>1, <2>1 DEF IInv, ListingInv
    <3>2. listing.start.minted \in Nat /\ listing.next \in Nat
      BY <1>1 DEF IInv, TypeOK, ListingTypeOK, Listing
    <3>3. QED
      BY <3>1, <3>2 DEF AliveThroughout
  <2>7. QED
    BY <1>1, <2>4, <2>5, <2>6 DEF IInv, CursorInv
<1>2. IInv => NothingForgotten
  BY <1>1 DEF NothingForgotten
<1>3. QED
  BY Invariance, <1>2, PTL

-----------------------------------------------------------------------------
(* The liquidator *)

Container ==
  [env : {"cold", "pending", "with", "without"}, running : BOOLEAN,
   batch : SUBSET Messages, open : SUBSET Messages, failures : SUBSET Messages]

LiquidatorType ==
  /\ delivery \in [Messages -> {"visible", "received", "deleted"}]
  /\ container \in [Containers -> Container]
  /\ processed \subseteq Messages

\* The records of an invocation are open, named as failed, or processed.
RecordsSettled ==
  \A c \in Containers :
    container[c].batch \ (container[c].open \cup container[c].failures) \subseteq processed

LiquidatorInv == LiquidatorType /\ RecordsSettled /\ LeavesProcessed

LEMMA ColdType == Cold \in Container /\ Cold.batch = {}
BY DEF Cold, Container

LEMMA ReappearType ==
  ASSUME delivery \in [Messages -> {"visible", "received", "deleted"}], NEW ms
  PROVE  /\ Reappear(ms) \in [Messages -> {"visible", "received", "deleted"}]
         /\ \A m \in Messages : Reappear(ms)[m] = "deleted" <=> delivery[m] = "deleted"
BY DEF Reappear

LEMMA LiquidatorInitInv == LiquidatorInit => LiquidatorInv
BY ColdType DEF LiquidatorInit, LiquidatorInv, LiquidatorType, RecordsSettled, LeavesProcessed

LEMMA LiquidatorNextInv == LiquidatorInv /\ [LiquidatorNext]_liquidatorVars => LiquidatorInv'
<1> SUFFICES ASSUME LiquidatorInv, [LiquidatorNext]_liquidatorVars PROVE LiquidatorInv'
  OBVIOUS
<1> USE DEF LiquidatorInv, LiquidatorType
<1>1. ASSUME NEW c \in Containers, StartContainer(c) PROVE LiquidatorInv'
  <2>1. PICK env \in {"pending", "without"} :
          container' = [container EXCEPT ![c].env = env]
    BY <1>1 DEF StartContainer
  <2>2. QED
    BY <1>1, <2>1 DEF StartContainer, Container, RecordsSettled, LeavesProcessed
<1>2. ASSUME NEW c \in Containers, EnvSettles(c) PROVE LiquidatorInv'
  <2>1. PICK env \in {"with", "without"} : container' = [container EXCEPT ![c].env = env]
    BY <1>2 DEF EnvSettles
  <2>2. QED
    BY <1>2, <2>1 DEF EnvSettles, Container, RecordsSettled, LeavesProcessed
<1>3. ASSUME NEW c \in Containers, NEW m \in Messages, Handle(c, m) PROVE LiquidatorInv'
  <2>1. PICK batch \in SUBSET {n \in Messages : delivery[n] = "visible"} :
          /\ delivery' = [n \in Messages |-> IF n \in batch THEN "received" ELSE delivery[n]]
          /\ container' = [container EXCEPT
               ![c] = [env |-> container[c].env, running |-> TRUE, batch |-> batch,
                       open |-> batch, failures |-> {}]]
    BY <1>3 DEF Handle
  <2>2. processed' = processed
    BY <1>3 DEF Handle
  <2>3. LiquidatorType'
    BY <2>1, <2>2 DEF Container
  <2>4. RecordsSettled'
    BY <2>1, <2>2 DEF RecordsSettled, Container
  <2>5. LeavesProcessed'
    BY <2>1, <2>2 DEF LeavesProcessed
  <2>6. QED
    BY <2>3, <2>4, <2>5
<1>4. ASSUME NEW c \in Containers, NEW m \in Messages, ProcessRecord(c, m) PROVE LiquidatorInv'
  <2>1. Failures(c, m) = IF Throws(m) THEN container[c].failures \cup {m}
                         ELSE container[c].failures
    BY <1>4 DEF Failures
  <2>2. LiquidatorType'
    BY <1>4, <2>1 DEF ProcessRecord, Container
  <2>3. RecordsSettled'
    BY <1>4, <2>1 DEF ProcessRecord, Container, RecordsSettled
  <2>4. LeavesProcessed'
    BY <1>4 DEF ProcessRecord, LeavesProcessed
  <2>5. QED
    BY <2>2, <2>3, <2>4
<1>5. ASSUME NEW c \in Containers, Return(c) PROVE LiquidatorInv'
  <2>1. container' = [container EXCEPT ![c] = [Cold EXCEPT !.env = container[c].env]]
    BY <1>5 DEF Return
  <2>2. LiquidatorType'
    BY <1>5, <2>1, ColdType, ReappearType DEF Return, Container
  <2>3. RecordsSettled'
    BY <1>5, <2>1, ColdType DEF Return, Container, RecordsSettled
  <2>4. LeavesProcessed'
    BY <1>5, ReappearType DEF Return, RecordsSettled, LeavesProcessed
  <2>5. QED
    BY <2>2, <2>3, <2>4
<1>6. ASSUME NEW c \in Containers, Crash(c) PROVE LiquidatorInv'
  BY <1>6, ColdType, ReappearType DEF Crash, RecordsSettled, LeavesProcessed
<1>7. ASSUME NEW m \in Messages, TimesOut(m) PROVE LiquidatorInv'
  BY <1>7, ReappearType DEF TimesOut, RecordsSettled, LeavesProcessed
<1>8. CASE UNCHANGED liquidatorVars
  BY <1>8 DEF liquidatorVars, RecordsSettled, LeavesProcessed
<1>9. QED
  BY <1>1, <1>2, <1>3, <1>4, <1>5, <1>6, <1>7, <1>8 DEF LiquidatorNext

\* What container processes which records when, and which of them die: the state is of its
\* type, and the records of an invocation are accounted for.
THEOREM RecordsInv == LiquidatorSpec => []LiquidatorInv
BY LiquidatorInitInv, LiquidatorNextInv, PTL DEF LiquidatorSpec

\* A message leaves the queue only after its processing succeeded, although invocations
\* overlap on it, time out and die.
THEOREM OnlyProcessedLeave == LiquidatorSpec => []LeavesProcessed
<1>1. LiquidatorInv => LeavesProcessed
  BY DEF LiquidatorInv
<1>2. QED
  BY RecordsInv, <1>1, PTL
=============================================================================
