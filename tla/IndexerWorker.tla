---------------------------- MODULE IndexerWorker ----------------------------
(***************************************************************************)
(* services/indexer: workers poll the indexer queue, and for each message  *)
(* fetch the CDPs it names, store them in S3, put the ones at risk on the  *)
(* liquidation queue and delete the message.  The messages of one receive  *)
(* call are processed concurrently, and the next call waits for them all.  *)
(* The queue is SQS: a message not deleted becomes visible again, even     *)
(* while it is still being processed, so attempts on it may overlap; a     *)
(* delete with the receipt of an earlier delivery succeeds and does        *)
(* nothing.                                                                *)
(***************************************************************************)
EXTENDS Integers, FiniteSets, FiniteSetsExt

CONSTANTS
  Workers,      \* the containers that run the worker
  Messages,     \* the messages of the indexer queue
  Kind,         \* what a message's body is: see Kinds
  IdsOf,        \* the CDP ids a chunk names, after the filter of strings
  CdpIds,
  Poison,       \* CDPs whose data can never be fetched or decoded
  MaxMessages,  \* MAX_MESSAGES: messages per receive call
  SendLimit,    \* entries per SendMessageBatch call, 10 in the code
  Stoppable,    \* workers whose stop() may be called
  Times,        \* the milliseconds in which a fetch may end
  MaxFaults     \* bound on what Fault counts: calls that fail or accept only a part,
                \* crashes, untimely redeliveries, attempts that read the same time

\* "unreadable": no body, no JSON or no ids in it; "null": the JSON text null
Kinds == {"chunk", "unreadable", "null"}

ASSUME MessagesAssumption ==
  Kind \in [Messages -> Kinds] /\ IdsOf \in [Messages -> SUBSET CdpIds]
ASSUME SizesAssumption == MaxMessages \in Nat \ {0} /\ SendLimit \in Nat \ {0}
ASSUME TimesAssumption == Times \subseteq Nat
ASSUME BoundAssumption == MaxFaults \in Nat

VARIABLES
  queue,      \* where each message is on the indexer queue
  shouldRun,  \* per worker, the flag stop() clears
  loop,       \* per worker, where runForever is
  job,        \* per worker and message, how far processing it has come
  objects,    \* what S3 holds: a function of the keys in use
  written,    \* history: all data ever put in S3
  alerts,     \* <<message, CDP id>> pairs put on the liquidation queue
  refused,    \* history: pairs SendMessageBatch listed as failed in its answer
  faults      \* faults so far

vars == <<queue, shouldRun, loop, job, objects, written, alerts, refused, faults>>

-----------------------------------------------------------------------------
\* pc: the call awaited next. current: is the receipt that of the last delivery?
\* risky: the CDPs found at risk; left: those not yet sent; key: the S3 key, a time in
\* milliseconds, while the put is awaited.
Job == [pc : {"none", "fetch", "put", "send", "delete", "settled"}, current : BOOLEAN,
        risky : SUBSET CdpIds, left : SUBSET CdpIds, key : Nat]

\* The data of a chunk's CDPs as one attempt has read it: whose, and which are at risk
Data == [message : Messages, risky : SUBSET CdpIds]

NoJob == [pc |-> "none", current |-> FALSE, risky |-> {}, left |-> {}, key |-> 0]
Settled == [NoJob EXCEPT !.pc = "settled"]
Busy == {"fetch", "put", "send", "delete"}

TypeOK ==
  /\ queue \in [Messages -> {"absent", "visible", "inflight", "deleted"}]
  /\ shouldRun \in [Workers -> BOOLEAN]
  /\ loop \in [Workers -> {"polling", "working", "sleeping", "exited"}]
  /\ job \in [Workers -> [Messages -> Job]]
  /\ \A k \in DOMAIN objects : k \in Nat /\ objects[k] \in written
  /\ written \subseteq Data
  /\ alerts \subseteq Messages \X CdpIds
  /\ refused \subseteq Messages \X CdpIds
  /\ faults \in 0..MaxFaults

Init ==
  /\ queue = [m \in Messages |-> "absent"]
  /\ shouldRun = [w \in Workers |-> TRUE]
  /\ loop = [w \in Workers |-> "polling"]
  /\ job = [w \in Workers |-> [m \in Messages |-> NoJob]]
  /\ objects = <<>>
  /\ written = {}
  /\ alerts = {}
  /\ refused = {}
  /\ faults = 0

Fault == faults < MaxFaults /\ faults' = faults + 1

Stored(m) == \E k \in DOMAIN objects : objects[k].message = m
Written(m) == \E d \in written : d.message = m

\* What SendMessageBatch was asked to put on the liquidation queue
Offered == alerts \cup refused

SetJob(w, m, j) == job' = [job EXCEPT ![w][m] = j]

-----------------------------------------------------------------------------
(* The queue *)

\* The dispatcher puts a message on the queue.
Arrive(m) ==
  /\ queue[m] = "absent"
  /\ queue' = [queue EXCEPT ![m] = "visible"]
  /\ UNCHANGED <<shouldRun, loop, job, objects, written, alerts, refused, faults>>

\* A delivery not followed by a delete lapses. That is a fault only when an
\* attempt with the receipt is still under way.
VisibilityTimeout(m) ==
  /\ queue[m] = "inflight"
  /\ queue' = [queue EXCEPT ![m] = "visible"]
  /\ job' = [w \in Workers |-> [job[w] EXCEPT ![m].current = FALSE]]
  /\ IF \E w \in Workers : job[w][m].current THEN Fault ELSE UNCHANGED faults
  /\ UNCHANGED <<shouldRun, loop, objects, written, alerts, refused>>

-----------------------------------------------------------------------------
(* The loop of a worker: runForever and runOnce *)

\* Mutant: the loop does not look at the flag
NextLoopAlways(w) == "polling"

NextLoop(w) == IF shouldRun[w] THEN "polling" ELSE "exited"

\* What processMessage does before its first await: a body it can make nothing of
\* is dropped, and the body null is an exception outside its try block.
Start(m) == [NoJob EXCEPT
  !.pc = CASE Kind[m] = "chunk" -> "fetch"
           [] Kind[m] = "unreadable" -> "delete"
           [] Kind[m] = "null" -> "settled",
  !.current = Kind[m] # "null"]

Receive(w, batch) ==
  /\ loop[w] = "polling"
  /\ batch # {}
  /\ Cardinality(batch) <= MaxMessages
  /\ \A m \in batch : queue[m] = "visible"
  /\ queue' = [m \in Messages |-> IF m \in batch THEN "inflight" ELSE queue[m]]
  /\ job' = [job EXCEPT ![w] = [m \in Messages |-> IF m \in batch THEN Start(m) ELSE NoJob]]
  /\ loop' = [loop EXCEPT ![w] = "working"]
  /\ UNCHANGED <<shouldRun, objects, written, alerts, refused, faults>>

\* The long poll ends without messages. A worker not stopped polls again.
ReceiveNothing(w) ==
  /\ loop[w] = "polling"
  /\ ~shouldRun[w]
  /\ loop' = [loop EXCEPT ![w] = "exited"]
  /\ UNCHANGED <<queue, shouldRun, job, objects, written, alerts, refused, faults>>

\* Mutant: no try around the receive call, so the loop ends
ReceiveErrorUncaught(w) ==
  /\ loop[w] = "polling"
  /\ Fault
  /\ loop' = [loop EXCEPT ![w] = "exited"]
  /\ UNCHANGED <<queue, shouldRun, job, objects, written, alerts, refused>>

ReceiveError(w) ==
  /\ loop[w] = "polling"
  /\ Fault
  /\ loop' = [loop EXCEPT ![w] = "sleeping"]
  /\ UNCHANGED <<queue, shouldRun, job, objects, written, alerts, refused>>

\* LOOP_ERROR_DELAY_MS later
Wake(w) ==
  /\ loop[w] = "sleeping"
  /\ loop' = [loop EXCEPT ![w] = NextLoop(w)]
  /\ UNCHANGED <<queue, shouldRun, job, objects, written, alerts, refused, faults>>

\* Mutant: the promises of the messages are not awaited
BatchNotAwaited(w) ==
  /\ loop[w] = "working"
  /\ loop' = [loop EXCEPT ![w] = NextLoop(w)]
  /\ UNCHANGED <<queue, shouldRun, job, objects, written, alerts, refused, faults>>

\* Promise.all: the messages received together are all done with.
BatchSettled(w) ==
  /\ loop[w] = "working"
  /\ \A m \in Messages : job[w][m].pc \notin Busy
  /\ job' = [job EXCEPT ![w] = [m \in Messages |-> NoJob]]
  /\ loop' = [loop EXCEPT ![w] = NextLoop(w)]
  /\ UNCHANGED <<queue, shouldRun, objects, written, alerts, refused, faults>>

Stop(w) ==
  /\ w \in Stoppable
  /\ shouldRun[w]
  /\ shouldRun' = [shouldRun EXCEPT ![w] = FALSE]
  /\ UNCHANGED <<queue, loop, job, objects, written, alerts, refused, faults>>

\* The container dies and another takes its place.
Crash(w) ==
  /\ loop[w] # "exited"
  /\ Fault
  /\ job' = [job EXCEPT ![w] = [m \in Messages |-> NoJob]]
  /\ loop' = [loop EXCEPT ![w] = "polling"]
  /\ shouldRun' = [shouldRun EXCEPT ![w] = TRUE]
  /\ UNCHANGED <<queue, objects, written, alerts, refused>>

-----------------------------------------------------------------------------
(* One message: processMessage, then the delete *)

\* The keys that S3 holds objects under, or that a put awaited now will use
Taken ==
  LET storing == {wn \in Workers \X Messages : job[wn[1]][wn[2]].pc = "put"}
  IN  DOMAIN objects \cup {job[wn[1]][wn[2]].key : wn \in storing}

\* Which time a key is does not matter, only whether attempts have read the same one:
\* the keys are numbered as they come up.
Keys == {t \in Times : t \in Taken \/ \A s \in Times : s < t => s \in Taken}

\* The CDPs fetched are at risk or not as the ledger has them now, and the time is read.
\* Two attempts may read the same one: in one container, or in two whose clocks differ.
Evaluated(w, m, ids) ==
  \E risky \in SUBSET ids : \E key \in Keys :
    /\ IF key \in Taken THEN Fault ELSE UNCHANGED faults
    /\ SetJob(w, m, [job[w][m] EXCEPT !.pc = "put", !.risky = risky, !.left = risky,
                                      !.key = key])

\* All of the chunk's CDPs are there.
Fetched(w, m) ==
  /\ job[w][m].pc = "fetch"
  /\ IdsOf[m] \cap Poison = {}
  /\ Evaluated(w, m, IdsOf[m])
  /\ UNCHANGED <<queue, shouldRun, loop, objects, written, alerts, refused>>

\* Mutants: the CDPs that could be fetched are processed all the same; or the message
\* of a failed chunk is deleted like any other
FetchPartial(w, m) ==
  /\ job[w][m].pc = "fetch"
  /\ Evaluated(w, m, IdsOf[m] \ Poison)
  /\ UNCHANGED <<queue, shouldRun, loop, objects, written, alerts, refused>>

FetchFailedDeleted(w, m) ==
  /\ job[w][m].pc = "fetch"
  /\ SetJob(w, m, [job[w][m] EXCEPT !.pc = "delete"])
  /\ UNCHANGED <<queue, shouldRun, loop, objects, written, alerts, refused, faults>>

\* Some CDP could not be fetched: the chunk is given up, whatever the others say.
FetchFailed(w, m) ==
  /\ job[w][m].pc = "fetch"
  /\ IF IdsOf[m] \cap Poison = {} THEN Fault ELSE UNCHANGED faults
  /\ SetJob(w, m, Settled)
  /\ UNCHANGED <<queue, shouldRun, loop, objects, written, alerts, refused>>

AfterPut(j) == [j EXCEPT !.pc = IF j.left = {} THEN "delete" ELSE "send", !.key = 0]

\* The object replaces the one that was under the same key.
Write(w, m) ==
  LET data == [message |-> m, risky |-> job[w][m].risky]
  IN  /\ objects' = [k \in DOMAIN objects \cup {job[w][m].key} |->
                       IF k = job[w][m].key THEN data ELSE objects[k]]
      /\ written' = written \cup {data}

\* Mutant: the put is not awaited, and has not happened yet
PutNotAwaited(w, m) ==
  /\ job[w][m].pc = "put"
  /\ SetJob(w, m, AfterPut(job[w][m]))
  /\ UNCHANGED <<queue, shouldRun, loop, objects, written, alerts, refused, faults>>

Put(w, m) ==
  /\ job[w][m].pc = "put"
  /\ Write(w, m)
  /\ SetJob(w, m, AfterPut(job[w][m]))
  /\ UNCHANGED <<queue, shouldRun, loop, alerts, refused, faults>>

\* The call throws; the object may have been written.
PutFailed(w, m) ==
  /\ job[w][m].pc = "put"
  /\ Fault
  /\ Write(w, m) \/ UNCHANGED <<objects, written>>
  /\ SetJob(w, m, Settled)
  /\ UNCHANGED <<queue, shouldRun, loop, alerts, refused>>

\* The next call's entries: one CDP each, at most SendLimit
Batches(left) == {b \in SUBSET left : Cardinality(b) = Min({SendLimit, Cardinality(left)})}

\* Mutants: one batch only; the fields of an entry exchanged
AfterSendLast(j, batch) == AfterPut([j EXCEPT !.left = {}])
EnqueueSwapped(m, ids) == alerts' = alerts \cup (ids \X {m})

Enqueue(m, ids) == alerts' = alerts \cup ({m} \X ids)

AfterSend(j, batch) == AfterPut([j EXCEPT !.left = @ \ batch])

\* The SQS adapter does not look at the entries the answer lists as failed.
Send(w, m) ==
  /\ job[w][m].pc = "send"
  /\ \E batch \in Batches(job[w][m].left) : \E accepted \in SUBSET batch :
       /\ Enqueue(m, accepted)
       /\ refused' = refused \cup ({m} \X (batch \ accepted))
       /\ IF accepted = batch THEN UNCHANGED faults ELSE Fault
       /\ SetJob(w, m, AfterSend(job[w][m], batch))
  /\ UNCHANGED <<queue, shouldRun, loop, objects, written>>

SendFailed(w, m) ==
  /\ job[w][m].pc = "send"
  /\ Fault
  /\ \E accepted \in UNION {SUBSET b : b \in Batches(job[w][m].left)} :
       Enqueue(m, accepted)
  /\ SetJob(w, m, Settled)
  /\ UNCHANGED <<queue, shouldRun, loop, objects, written, refused>>

Deleted(w, m) ==
  queue' = [queue EXCEPT ![m] = IF job[w][m].current THEN "deleted" ELSE @]

Delete(w, m) ==
  /\ job[w][m].pc = "delete"
  /\ Deleted(w, m)
  /\ SetJob(w, m, Settled)
  /\ UNCHANGED <<shouldRun, loop, objects, written, alerts, refused, faults>>

\* The call throws; the message may be gone.
DeleteFailed(w, m) ==
  /\ job[w][m].pc = "delete"
  /\ Fault
  /\ \/ Deleted(w, m)
     \/ UNCHANGED queue
  /\ SetJob(w, m, Settled)
  /\ UNCHANGED <<shouldRun, loop, objects, written, alerts, refused>>

-----------------------------------------------------------------------------
JobStep(w, m) ==
  \/ Fetched(w, m) \/ FetchFailed(w, m)
  \/ Put(w, m) \/ PutFailed(w, m)
  \/ Send(w, m) \/ SendFailed(w, m)
  \/ Delete(w, m) \/ DeleteFailed(w, m)

LoopStep(w) == ReceiveNothing(w) \/ Wake(w) \/ BatchSettled(w)

Next ==
  \/ \E m \in Messages : Arrive(m) \/ VisibilityTimeout(m)
  \/ \E w \in Workers :
       \/ \E batch \in SUBSET Messages : Receive(w, batch)
       \/ ReceiveError(w) \/ LoopStep(w) \/ Stop(w) \/ Crash(w)
       \/ \E m \in Messages : JobStep(w, m)

Spec == Init /\ [][Next]_vars

\* Every await ends, the loop goes on, a lapsed delivery is noticed, and SQS, asked
\* again and again, hands out each visible message some time.
Fairness ==
  /\ \A w \in Workers, m \in Messages : WF_vars(JobStep(w, m))
  /\ \A w \in Workers : WF_vars(LoopStep(w))
  /\ \A m \in Messages : WF_vars(VisibilityTimeout(m))
  /\ \A m \in Messages :
       SF_vars(\E w \in Workers, batch \in SUBSET Messages : m \in batch /\ Receive(w, batch))

FairSpec == Spec /\ Fairness

-----------------------------------------------------------------------------
(* Properties *)

\* At most one attempt holds the receipt of a message's last delivery, and it does so
\* only while the message is in flight: a delete can only remove a message that
\* nobody was given since.
OneInCharge ==
  \A m \in Messages : \A w \in Workers :
    job[w][m].current =>
      /\ queue[m] = "inflight"
      /\ \A v \in Workers \ {w} : ~job[v][m].current

\* A CDP is offered to the liquidation queue only after the data that showed it at risk
\* was put in S3: whichever attempt offers it, and whatever becomes of the others. That
\* it stays there is more than the code keeps: see DeletedMeansStored.
StoredBeforeAlert ==
  \A a \in Offered : \E d \in written : d.message = a[1] /\ a[2] \in d.risky

\* A chunk with a CDP that cannot be fetched has no effect at all, not even for its
\* healthy CDPs, and is never taken off the queue; nor is a body that is null.
GivenUpWhole ==
  \A m \in Messages :
    Kind[m] = "null" \/ (Kind[m] = "chunk" /\ IdsOf[m] \cap Poison # {}) =>
      /\ queue[m] # "deleted"
      /\ ~Written(m)
      /\ \A a \in Offered : a[1] # m

\* A worker that stop() ended has abandoned no message half-way.
ExitsClean ==
  \A w \in Workers : loop[w] = "exited" => \A m \in Messages : job[w][m] = NoJob

\* What an attempt has reached is what its verdict requires: the very data it judges by
\* was put in S3 before its first send, and each CDP it found at risk and has not left to
\* send was put on the liquidation queue or, unnoticed, refused.
AttemptInv ==
  \A w \in Workers, m \in Messages :
    Kind[m] = "chunk" /\ job[w][m].pc \in {"send", "delete"} =>
      /\ [message |-> m, risky |-> job[w][m].risky] \in written
      /\ {m} \X (job[w][m].risky \ job[w][m].left) \subseteq Offered
      /\ job[w][m].pc = "delete" => job[w][m].left = {}

\* The processor "stores to storage" (services/indexer/src/index.ts:78) the data of
\* every chunk before its message is deleted. That it is there afterwards is not so: the
\* put of an attempt that read the same time replaces it.
DeletedMeansStored ==
  \A m \in Messages : queue[m] = "deleted" /\ Kind[m] = "chunk" => Stored(m)

\* An attempt with the last receipt whose fetch is done decides about its message.
Decides(j) == j.current /\ j.pc \in {"put", "send", "delete"}

\* The verdict of the attempt in charge of a message, as AlertContract sees it
Verdict(jobs, m) ==
  LET deciders == {w \in Workers : Kind[m] = "chunk" /\ Decides(jobs[w][m])}
  IN  [known |-> deciders # {}, risky |-> UNION {jobs[w][m].risky : w \in deciders}]

Contract == INSTANCE AlertContract WITH
  Chunks   <- Messages,
  Readable <- {m \in Messages : Kind[m] # "unreadable"},
  open     <- {m \in Messages : queue[m] \in {"visible", "inflight"}},
  retired  <- {m \in Messages : queue[m] = "deleted"},
  verdict  <- [m \in Messages |-> Verdict(job, m)],
  archived <- {m \in Messages : Written(m)},
  alerts   <- Offered

\* The workers keep the contract for what they do themselves: the message goes only once
\* its data was put in S3 and the CDPs its last attempt found at risk were offered to the
\* liquidation queue. That the bucket keeps the data and SQS takes every entry is not
\* looked at by the code, and not part of the mapping.
MeetsContract == Contract!Spec

\* A message on the queue whose CDPs can all be fetched is processed and deleted in
\* the end, next to a poison message that comes back for ever; given a worker that
\* nobody stops and finitely many faults.
EventuallyDeleted ==
  \A m \in Messages :
    Kind[m] # "null" /\ IdsOf[m] \cap Poison = {} =>
      (queue[m] = "visible" ~> queue[m] = "deleted")

\* A stopped worker leaves its loop, or a crash replaces it.
StopEnds == \A w \in Workers : ~shouldRun[w] ~> (loop[w] = "exited" \/ shouldRun[w])

\* createMessageProcessor "stores to storage, and enqueues at-risk CDPs for
\* liquidation" (services/indexer/src/index.ts:77-78) before the message is deleted
\* "after successful processing" (line 26).
DeletedMeansEnqueued ==
  [][\A m \in Messages :
       Kind[m] = "chunk" /\ queue[m] # "deleted" /\ queue'[m] = "deleted" =>
         {m} \X Verdict(job, m).risky \subseteq alerts]_vars
=============================================================================
