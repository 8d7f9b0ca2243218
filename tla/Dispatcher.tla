------------------------------ MODULE Dispatcher ------------------------------
(***************************************************************************)
(* services/dispatcher: the scheduled job that lists every live CDP (with  *)
(* the page-wise listing of CdpListing, over a ledger that moves on), cuts *)
(* the list into chunks and puts one message per chunk on the indexer      *)
(* queue, in SendMessageBatch calls of at most BatchLimit entries.  A call *)
(* may accept some entries, fail others, and reject yet others as sender   *)
(* faults, which the SQS adapter only logs.  Failed entries are sent once  *)
(* more; a second failure ends the run with an exception, and the batches  *)
(* sent before stay on the queue.                                          *)
(***************************************************************************)
EXTENDS CdpListing, FiniteSets

CONSTANTS
  IndexerBatchSize,   \* INDEXER_BATCH_SIZE: CDP ids per message
  BatchLimit,         \* entries per SendMessageBatch call, 10 in the code
  SenderFaultsOccur,  \* does SQS ever reject an entry as a sender fault?
  MaxRuns             \* bound: invocations of the handler

ASSUME SizesAssumption == IndexerBatchSize \in Nat \ {0} /\ BatchLimit \in Nat \ {0}
ASSUME BoundsAssumption == MaxRuns \in Nat /\ SenderFaultsOccur \in BOOLEAN

VARIABLES
  phase,    \* where the handler is
  runId,    \* the current invocation; randomUUID() never repeats
  ids,      \* the ids fetched by this run, in the order of the ledger's pages
  cursor,   \* chunks already handed to sendBatch (the loop's i)
  failed,   \* chunk indexes SQS failed at the first attempt of this batch
  faulted,  \* chunk indexes of this run dropped as sender faults
  queue,    \* every message SQS ever accepted
  response  \* what the last run returned: the CDPs it says it dispatched

runVars == <<phase, runId, ids, cursor, failed, faulted, queue, response>>
vars == <<runVars, listingVars>>

-----------------------------------------------------------------------------
(* Chunks: fetchAndBatchCdpIds *)

ChunkCount == (Len(ids) + IndexerBatchSize - 1) \div IndexerBatchSize

\* Mutant: slice bounds that overlap by one
SliceOverlapping(k) ==
  {p \in 1..Len(ids) : (k - 1) * IndexerBatchSize <= p /\ p <= k * IndexerBatchSize}

Slice(k) ==
  {p \in 1..Len(ids) : (k - 1) * IndexerBatchSize < p /\ p <= k * IndexerBatchSize}

\* Mutant: the map callback's index used as it is, from 0
ChunkFromZero(k) == [runId |-> runId, chunkIndex |-> k - 1, chunkCount |-> ChunkCount,
                     cdpIds |-> {ids[p] : p \in Slice(k)}]

Chunk(k) == [runId |-> runId, chunkIndex |-> k, chunkCount |-> ChunkCount,
             cdpIds |-> {ids[p] : p \in Slice(k)}]

\* The chunks of the next SendMessageBatch call
Entries == {k \in 1..ChunkCount : cursor < k /\ k <= cursor + BatchLimit}

\* What is offered to SQS next, at either attempt
Offered == IF phase = "retrying" THEN failed ELSE Entries

Accepted == {m.chunkIndex : m \in {q \in queue : q.runId = runId}}

Message == [runId : 1..MaxRuns, chunkIndex : Nat \ {0}, chunkCount : Nat,
            cdpIds : SUBSET CdpIds]

TypeOK ==
  /\ ListingTypeOK
  /\ phase \in {"idle", "fetching", "sending", "retrying", "returned", "thrown"}
  /\ runId \in 0..MaxRuns
  /\ ids \in Seq(CdpIds)
  /\ cursor \in Nat
  /\ failed \subseteq Nat
  /\ faulted \subseteq Nat
  /\ queue \subseteq Message
  /\ response \in Nat

Init ==
  /\ ListingInit
  /\ phase = "idle"
  /\ runId = 0
  /\ ids = <<>>
  /\ cursor = 0
  /\ failed = {}
  /\ faulted = {}
  /\ queue = {}
  /\ response = 0

-----------------------------------------------------------------------------
(* The handler *)

\* The scheduler starts a run; one follows another, whatever became of the last.
Invoke ==
  /\ phase \in {"idle", "returned", "thrown"}
  /\ runId < MaxRuns
  /\ phase' = "fetching"
  /\ StartListing
  /\ runId' = runId + 1
  /\ ids' = <<>>
  /\ cursor' = 0
  /\ failed' = {}
  /\ faulted' = {}
  /\ UNCHANGED <<queue, response>>

\* The ledger moves while the CDPs are listed; a page of ids is answered.
ListingMoves ==
  /\ phase = "fetching"
  /\ LedgerMoves \/ ListPage
  /\ UNCHANGED runVars

\* The locations of a page are answered. With those of the last page getCdpIds(false)
\* returns, and the ids are cut into chunks; without any the run is over.
Fetch ==
  /\ phase = "fetching"
  /\ LocatePage
  /\ IF listing'.stage = "ids" THEN UNCHANGED <<phase, ids, response>>
     ELSE /\ ids' = listing'.found
          /\ phase' = IF ids' = <<>> THEN "returned" ELSE "sending"
          /\ response' = IF ids' = <<>> THEN 0 ELSE response
  /\ UNCHANGED <<runId, cursor, failed, faulted, queue>>

\* Entries SQS may reject as sender faults out of a call's entries
Rejectable(entries) == IF SenderFaultsOccur THEN SUBSET entries ELSE {{}}

\* SQS's answer to a call: accepted and rejected, what is left has failed.
Answered(accepted, rejected) ==
  /\ accepted \cap rejected = {}
  /\ queue' = queue \cup {Chunk(k) : k \in accepted}
  /\ faulted' = faulted \cup rejected

\* sendBatch returns: the loop goes on to the next batch, or the handler answers
\* 200 with the number of CDPs fetched.
BatchDone ==
  /\ cursor' = cursor + BatchLimit
  /\ failed' = {}
  /\ phase' = IF cursor + BatchLimit < ChunkCount THEN "sending" ELSE "returned"
  /\ response' = IF cursor + BatchLimit < ChunkCount THEN response ELSE Len(ids)

\* Mutant: the whole batch is sent again
RetryEntriesAll(left) == Entries

\* What the retry offers: the entries whose ids SQS returned as failed
RetryEntries(left) == left

SendBatch ==
  /\ phase = "sending"
  /\ \E accepted \in SUBSET Entries : \E rejected \in Rejectable(Entries) :
       /\ Answered(accepted, rejected)
       /\ LET left == Entries \ (accepted \cup rejected) IN
          \/ left = {} /\ BatchDone
          \/ /\ left # {}
             /\ failed' = RetryEntries(left)
             /\ phase' = "retrying"
             /\ UNCHANGED <<cursor, response>>
  /\ UNCHANGED <<runId, ids, listingVars>>

\* Mutants: the second failure is logged and the loop goes on; or the batch is taken up
\* again from the start
RetryFailedIgnored(left) == BatchDone

RetryFailedAgain(left) ==
  /\ phase' = "sending"
  /\ failed' = {}
  /\ UNCHANGED <<cursor, response>>

\* A second failure is an exception.
RetryFailed(left) ==
  /\ phase' = "thrown"
  /\ UNCHANGED <<cursor, failed, response>>

\* The only retry, of the failed entries
RetryBatch ==
  /\ phase = "retrying"
  /\ \E accepted \in SUBSET failed : \E rejected \in Rejectable(failed) :
       /\ Answered(accepted, rejected)
       /\ LET left == failed \ (accepted \cup rejected) IN
          \/ left = {} /\ BatchDone
          \/ left # {} /\ RetryFailed(left)
  /\ UNCHANGED <<runId, ids, listingVars>>

\* A gateway or SQS call throws, or the Lambda is killed: SQS may have accepted
\* any of the entries it was offered all the same.
Throw ==
  /\ phase \in {"fetching", "sending", "retrying"}
  /\ \E accepted \in SUBSET (IF phase = "fetching" THEN {} ELSE Offered) :
       queue' = queue \cup {Chunk(k) : k \in accepted}
  /\ phase' = "thrown"
  /\ UNCHANGED <<runId, ids, cursor, failed, faulted, response, listingVars>>

Next == Invoke \/ ListingMoves \/ Fetch \/ SendBatch \/ RetryBatch \/ Throw

\* A started invocation runs on: every await of it resolves or rejects. A ledger that
\* moves does not count as its progress.
Fairness == WF_vars((ListingMoves /\ listing' # listing) \/ Fetch \/ SendBatch \/ RetryBatch \/ Throw)

Spec == Init /\ [][Next]_vars
FairSpec == Spec /\ Fairness

-----------------------------------------------------------------------------
(* Properties *)

\* The CDP ids that reached the indexer queue in this run
QueuedIds == UNION {m.cdpIds : m \in {q \in queue : q.runId = runId}}
FaultedIds == UNION {Chunk(k).cdpIds : k \in faulted}

\* A run that answers 200 left no CDP behind: each CDP that was alive from the beginning
\* of the run to the end of its listing is in a message of this run on the queue, or in
\* one SQS rejected as a sender fault. The pages of the listing must not lose one while
\* the ledger moves, nor the retry of a part of a batch the rest of it; and the number it
\* answers is that of the CDPs in those messages.
NothingForgotten ==
  phase = "returned" =>
    /\ AliveThroughout \subseteq QueuedIds \cup FaultedIds
    /\ response = Cardinality(QueuedIds \cup FaultedIds)

\* No run dispatches a CDP that was burned before it began: what an earlier page or an
\* earlier version of the ledger says of a CDP does not reach the queue.
NoneBurnedBefore == QueuedIds \cap GoneBefore = {}

\* An entry is not offered to SQS again once SQS accepted it: the retry is of the
\* failed entries only, and no batch overlaps an earlier one.
NeverSentTwice ==
  phase \in {"sending", "retrying"} => Offered \cap (Accepted \cup faulted) = {}

\* Within a run the messages on the queue share no CDP and agree on the number of
\* chunks, which the indexer logs as progress: no CDP is indexed twice by a run.
ChunksPartition ==
  \A m, n \in queue :
    m.runId = n.runId /\ m # n =>
      /\ m.cdpIds \cap n.cdpIds = {}
      /\ m.chunkCount = n.chunkCount

\* Batches leave in order: when a chunk is on the queue, every chunk of the batches
\* before it is on the queue too or was rejected, even if the run then failed.
NoGaps ==
  \A j \in Accepted : \A k \in 1..ChunkCount :
    (k - 1) \div BatchLimit < (j - 1) \div BatchLimit => k \in Accepted \cup faulted

\* Every started run ends: one retry, not a loop of them.
RunEnds == phase = "fetching" ~> phase \in {"returned", "thrown"}
=============================================================================
