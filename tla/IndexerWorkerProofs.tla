------------------------- MODULE IndexerWorkerProofs -------------------------
(***************************************************************************)
(* Theorems about IndexerWorker, for any number of workers, messages and   *)
(* CDPs, any batch sizes, any number of faults, shared keys and refused    *)
(* entries; and that it implements AlertContract.                          *)
(***************************************************************************)
EXTENDS IndexerWorker, TLAPS

-----------------------------------------------------------------------------
(* Lemmas about the operators of the module *)

LEMMA JobTypes ==
  /\ NoJob \in Job
  /\ Settled \in Job
  /\ NoJob.pc = "none" /\ ~NoJob.current
  /\ Settled.pc = "settled" /\ ~Settled.current
BY DEF NoJob, Settled, Job

LEMMA StartType ==
  ASSUME NEW m \in Messages
  PROVE  /\ Start(m) \in Job
         /\ Start(m).pc \in {"fetch", "delete", "settled"}
         /\ Start(m).pc = "fetch" <=> Kind[m] = "chunk"
         /\ Start(m).pc = "delete" <=> Kind[m] = "unreadable"
         /\ Start(m).risky = {} /\ Start(m).left = {}
<1>1. Kind[m] \in Kinds
  BY MessagesAssumption
<1>2. CASE Kind[m] = "chunk"
  BY <1>2 DEF Start, NoJob, Job
<1>3. CASE Kind[m] = "unreadable"
  BY <1>3 DEF Start, NoJob, Job
<1>4. CASE Kind[m] = "null"
  BY <1>4 DEF Start, NoJob, Job
<1>5. QED
  BY <1>1, <1>2, <1>3, <1>4 DEF Kinds

LEMMA AfterSendType ==
  ASSUME NEW j \in Job, NEW batch
  PROVE  /\ AfterPut(j) \in Job
         /\ AfterPut(j).pc \in {"send", "delete"}
         /\ AfterPut(j).pc = "delete" => AfterPut(j).left = {}
         /\ AfterPut(j).risky = j.risky /\ AfterPut(j).left = j.left
         /\ AfterPut(j).current = j.current
         /\ AfterSend(j, batch) \in Job
         /\ AfterSend(j, batch).pc \in {"send", "delete"}
         /\ AfterSend(j, batch).pc = "delete" => AfterSend(j, batch).left = {}
         /\ AfterSend(j, batch).risky = j.risky
         /\ AfterSend(j, batch).left = j.left \ batch
         /\ AfterSend(j, batch).current = j.current
BY DEF AfterPut, AfterSend, Job

\* The attempt that follows a fetch: everything it found at risk is left to send.
LEMMA FetchedEffect ==
  ASSUME job \in [Workers -> [Messages -> Job]],
         NEW w \in Workers, NEW m \in Messages, Fetched(w, m)
  PROVE  \E k \in Job :
           /\ SetJob(w, m, k)
           /\ k.pc = "put" /\ k.current = job[w][m].current
           /\ k.risky \in SUBSET IdsOf[m] /\ k.left = k.risky
<1> DEFINE j == job[w][m]
<1>1. PICK risky \in SUBSET IdsOf[m], key \in Keys :
        SetJob(w, m, [j EXCEPT !.pc = "put", !.risky = risky, !.left = risky, !.key = key])
  BY DEF Fetched, Evaluated
<1> DEFINE k == [j EXCEPT !.pc = "put", !.risky = risky, !.left = risky, !.key = key]
<1>2. j \in Job /\ key \in Nat
  BY TimesAssumption DEF Keys, Job
<1>3. k \in Job
  BY <1>2, MessagesAssumption DEF Job
<1>4. /\ k.pc = "put" /\ k.current = j.current
      /\ k.risky = risky /\ k.left = risky
  BY <1>2 DEF Job
<1> HIDE DEF k
<1>5. QED
  BY <1>1, <1>3, <1>4 DEF k

\* What a put does to S3: it adds the attempt's data to what has been there.
LEMMA WriteEffect ==
  ASSUME TypeOK, NEW w \in Workers, NEW m \in Messages, job[w][m].pc = "put", Write(w, m)
  PROVE  /\ written' = written \cup {[message |-> m, risky |-> job[w][m].risky]}
         /\ written' \subseteq Data
         /\ \A k \in DOMAIN objects' : k \in Nat /\ objects'[k] \in written'
<1>1. job[w][m] \in Job
  BY DEF TypeOK
<1>2. job[w][m].key \in Nat /\ job[w][m].risky \in SUBSET CdpIds
  BY <1>1 DEF Job
<1>3. [message |-> m, risky |-> job[w][m].risky] \in Data
  BY <1>2 DEF Data
<1>4. QED
  BY <1>2, <1>3 DEF Write, TypeOK

\* Every entry of a send names a CDP left to send.
LEMMA BatchLeft ==
  ASSUME NEW left, NEW batch \in Batches(left)
  PROVE  batch \subseteq left
BY DEF Batches

-----------------------------------------------------------------------------
(* Type correctness *)

THEOREM TypeCorrect == Spec => []TypeOK
<1>1. Init => TypeOK
  BY JobTypes, BoundAssumption DEF Init, TypeOK
<1>2. TypeOK /\ [Next]_vars => TypeOK'
  <2> SUFFICES ASSUME TypeOK, [Next]_vars PROVE TypeOK'
    OBVIOUS
  <2> USE DEF TypeOK
  <2>f. Fault => faults' \in 0..MaxFaults
    BY BoundAssumption DEF Fault
  <2>s. ASSUME NEW w \in Workers, NEW m \in Messages, NEW j \in Job, SetJob(w, m, j)
        PROVE  job' \in [Workers -> [Messages -> Job]]
    BY <2>s DEF SetJob
  <2>1. ASSUME NEW m \in Messages, Arrive(m) PROVE TypeOK'
    BY <2>1 DEF Arrive
  <2>2. ASSUME NEW m \in Messages, VisibilityTimeout(m) PROVE TypeOK'
    <3>1. job' \in [Workers -> [Messages -> Job]]
      <4>1. ASSUME NEW w \in Workers
            PROVE  [job[w] EXCEPT ![m].current = FALSE] \in [Messages -> Job]
        <5>1. job[w][m] \in Job
          OBVIOUS
        <5>2. [job[w][m] EXCEPT !.current = FALSE] \in Job
          BY <5>1 DEF Job
        <5>3. [job[w] EXCEPT ![m].current = FALSE]
                = [job[w] EXCEPT ![m] = [job[w][m] EXCEPT !.current = FALSE]]
          OBVIOUS
        <5>4. QED
          BY <5>2, <5>3
      <4>2. QED
        BY <2>2, <4>1 DEF VisibilityTimeout
    <3>2. QED
      BY <2>2, <2>f, <3>1 DEF VisibilityTimeout
  <2>3. ASSUME NEW w \in Workers, NEW batch \in SUBSET Messages, Receive(w, batch)
        PROVE  TypeOK'
    <3>1. [m \in Messages |-> IF m \in batch THEN Start(m) ELSE NoJob] \in [Messages -> Job]
      BY StartType, JobTypes
    <3>2. QED
      BY <2>3, <3>1 DEF Receive
  <2>4. ASSUME NEW w \in Workers, ReceiveError(w) PROVE TypeOK'
    BY <2>4, <2>f DEF ReceiveError
  <2>5. ASSUME NEW w \in Workers, LoopStep(w) PROVE TypeOK'
    <3>1. CASE ReceiveNothing(w)
      BY <3>1 DEF ReceiveNothing
    <3>2. CASE Wake(w)
      BY <3>2 DEF Wake, NextLoop
    <3>3. CASE BatchSettled(w)
      <4>1. [m \in Messages |-> NoJob] \in [Messages -> Job]
        BY JobTypes
      <4>2. job' \in [Workers -> [Messages -> Job]]
        BY <3>3, <4>1 DEF BatchSettled
      <4>3. QED
        BY <3>3, <4>2 DEF BatchSettled, NextLoop
    <3>4. QED
      BY <2>5, <3>1, <3>2, <3>3 DEF LoopStep
  <2>6. ASSUME NEW w \in Workers, Stop(w) PROVE TypeOK'
    BY <2>6 DEF Stop
  <2>7. ASSUME NEW w \in Workers, Crash(w) PROVE TypeOK'
    BY <2>7, <2>f, JobTypes DEF Crash
  <2>8. ASSUME NEW w \in Workers, NEW m \in Messages, JobStep(w, m) PROVE TypeOK'
    <3> DEFINE j == job[w][m]
    <3>j. j \in Job
      OBVIOUS
    <3>1. CASE Fetched(w, m)
      <4>1. faults' \in 0..MaxFaults
        BY <3>1, <2>f DEF Fetched, Evaluated
      <4>2. QED
        BY <3>1, <4>1, <2>s, FetchedEffect DEF Fetched
    <3>2. CASE FetchFailed(w, m)
      BY <3>2, <2>s, <2>f, JobTypes DEF FetchFailed
    <3>3. CASE Put(w, m)
      BY <3>3, <3>j, <2>s, AfterSendType, WriteEffect DEF Put
    <3>4. CASE PutFailed(w, m)
      BY <3>4, <2>s, <2>f, JobTypes, WriteEffect DEF PutFailed
    <3>5. CASE Send(w, m)
      <4>1. PICK batch \in Batches(j.left) : \E accepted \in SUBSET batch :
              /\ Enqueue(m, accepted)
              /\ refused' = refused \cup ({m} \X (batch \ accepted))
              /\ SetJob(w, m, AfterSend(j, batch))
        BY <3>5 DEF Send
      <4>2. batch \subseteq CdpIds
        BY <3>j, BatchLeft DEF Job
      <4>3. alerts' \subseteq Messages \X CdpIds /\ refused' \subseteq Messages \X CdpIds
        BY <4>1, <4>2 DEF Enqueue
      <4>4. faults' \in 0..MaxFaults
        BY <3>5, <2>f DEF Send
      <4>5. QED
        BY <3>5, <3>j, <4>1, <4>3, <4>4, <2>s, AfterSendType DEF Send
    <3>6. CASE SendFailed(w, m)
      <4>1. PICK accepted \in UNION {SUBSET b : b \in Batches(j.left)} : Enqueue(m, accepted)
        BY <3>6 DEF SendFailed
      <4>2. accepted \subseteq CdpIds
        BY <3>j, BatchLeft DEF Job
      <4>3. QED
        BY <3>6, <4>1, <4>2, <2>s, <2>f, JobTypes DEF SendFailed, Enqueue
    <3>7. CASE Delete(w, m)
      BY <3>7, <2>s, JobTypes DEF Delete, Deleted
    <3>8. CASE DeleteFailed(w, m)
      BY <3>8, <2>s, <2>f, JobTypes DEF DeleteFailed, Deleted
    <3>9. QED
      BY <2>8, <3>1, <3>2, <3>3, <3>4, <3>5, <3>6, <3>7, <3>8 DEF JobStep
  <2>9. CASE UNCHANGED vars
    BY <2>9 DEF vars
  <2>10. QED
    BY <2>1, <2>2, <2>3, <2>4, <2>5, <2>6, <2>7, <2>8, <2>9 DEF Next
<1>3. QED
  BY <1>1, <1>2, PTL DEF Spec

-----------------------------------------------------------------------------
(* What holds whatever the queues accept and whatever the time is *)

\* Outside of a batch a worker has no attempt under way.
LoopInv ==
  \A w \in Workers : loop[w] # "working" => \A m \in Messages : job[w][m] = NoJob

\* How far an attempt can come, by what its message holds
Reached ==
  \A w \in Workers, m \in Messages :
    /\ job[w][m].pc = "fetch" => Kind[m] = "chunk"
    /\ job[w][m].pc \in {"put", "send"} => Kind[m] = "chunk" /\ IdsOf[m] \cap Poison = {}
    /\ job[w][m].pc = "delete" =>
         Kind[m] # "null" /\ (Kind[m] = "chunk" => IdsOf[m] \cap Poison = {})
    /\ job[w][m].pc \in {"none", "settled"} => ~job[w][m].current

IInv == OneInCharge /\ LoopInv /\ Reached /\ GivenUpWhole

LEMMA SetJobEffect ==
  ASSUME TypeOK, NEW w \in Workers, NEW m \in Messages, NEW j, SetJob(w, m, j)
  PROVE  /\ job'[w][m] = j
         /\ \A v \in Workers, n \in Messages :
              v # w \/ n # m => job'[v][n] = job[v][n]
BY DEF SetJob, TypeOK

\* A step of an attempt: what it does to the loop, the receipts and the index queue.
LEMMA JobEffect ==
  ASSUME TypeOK, NEW w \in Workers, NEW m \in Messages, JobStep(w, m)
  PROVE  \E j \in Job :
           /\ SetJob(w, m, j)
           /\ job[w][m].pc \in Busy
           /\ loop' = loop
           /\ j.current => job[w][m].current
           /\ j.pc \in {"none", "settled"} => ~j.current
           /\ \/ queue' = queue
              \/ /\ job[w][m].pc = "delete" /\ job[w][m].current /\ ~j.current
                 /\ queue' = [queue EXCEPT ![m] = "deleted"]
<1> DEFINE j == job[w][m]
<1>j. j \in Job
  BY DEF TypeOK
<1> USE JobTypes DEF Busy
<1>1. CASE Fetched(w, m)
  <2>1. queue' = queue /\ loop' = loop /\ j.pc = "fetch"
    BY <1>1 DEF Fetched
  <2>2. QED
    BY <1>1, <2>1, FetchedEffect DEF TypeOK
<1>2. CASE FetchFailed(w, m)
  BY <1>2 DEF FetchFailed
<1>3. CASE Put(w, m)
  BY <1>3, <1>j, AfterSendType DEF Put
<1>4. CASE PutFailed(w, m)
  BY <1>4 DEF PutFailed
<1>5. CASE Send(w, m)
  <2>1. PICK batch : SetJob(w, m, AfterSend(j, batch))
    BY <1>5 DEF Send
  <2> DEFINE k == AfterSend(j, batch)
  <2>2. k \in Job /\ k.current = j.current /\ k.pc \in {"send", "delete"}
    BY <1>j, AfterSendType
  <2>3. queue' = queue /\ loop' = loop /\ j.pc = "send"
    BY <1>5 DEF Send
  <2> HIDE DEF k
  <2>4. QED
    BY <2>1, <2>2, <2>3 DEF k
<1>6. CASE SendFailed(w, m)
  BY <1>6 DEF SendFailed
<1>d. Deleted(w, m) =>
        \/ queue' = queue
        \/ j.current /\ queue' = [queue EXCEPT ![m] = "deleted"]
  BY DEF Deleted, TypeOK
<1>7. CASE Delete(w, m)
  BY <1>7, <1>d DEF Delete
<1>8. CASE DeleteFailed(w, m)
  BY <1>8, <1>d DEF DeleteFailed
<1>9. QED
  BY <1>1, <1>2, <1>3, <1>4, <1>5, <1>6, <1>7, <1>8 DEF JobStep

\* What a step of an attempt adds to the data ever put in S3
LEMMA WrittenStep ==
  ASSUME TypeOK, NEW w \in Workers, NEW m \in Messages, JobStep(w, m)
  PROVE  \/ UNCHANGED <<objects, written>>
         \/ /\ job[w][m].pc = "put"
            /\ written' = written \cup {[message |-> m, risky |-> job[w][m].risky]}
<1>1. CASE Put(w, m) \/ PutFailed(w, m)
  <2>1. job[w][m].pc = "put" /\ (Write(w, m) \/ UNCHANGED <<objects, written>>)
    BY <1>1 DEF Put, PutFailed
  <2>2. QED
    BY <2>1 DEF Write
<1>2. CASE Fetched(w, m) \/ FetchFailed(w, m) \/ Send(w, m) \/ SendFailed(w, m)
             \/ Delete(w, m) \/ DeleteFailed(w, m)
  BY <1>2 DEF Fetched, FetchFailed, Send, SendFailed, Delete, DeleteFailed
<1>3. QED
  BY <1>1, <1>2 DEF JobStep

\* What a step of an attempt offers to the liquidation queue
LEMMA OfferedStep ==
  ASSUME TypeOK, NEW w \in Workers, NEW m \in Messages, JobStep(w, m)
  PROVE  \/ Offered' = Offered
         \/ /\ job[w][m].pc = "send"
            /\ \E ids \in SUBSET job[w][m].left : Offered' = Offered \cup ({m} \X ids)
<1>1. CASE Send(w, m)
  <2>1. PICK batch \in Batches(job[w][m].left) : \E accepted \in SUBSET batch :
          /\ Enqueue(m, accepted)
          /\ refused' = refused \cup ({m} \X (batch \ accepted))
    BY <1>1 DEF Send
  <2>2. Offered' = Offered \cup ({m} \X batch)
    BY <2>1 DEF Offered, Enqueue
  <2>3. QED
    BY <1>1, <2>2, BatchLeft DEF Send
<1>2. CASE SendFailed(w, m)
  <2>1. PICK ids \in UNION {SUBSET b : b \in Batches(job[w][m].left)} : Enqueue(m, ids)
    BY <1>2 DEF SendFailed
  <2>2. ids \subseteq job[w][m].left
    BY BatchLeft
  <2>3. Offered' = Offered \cup ({m} \X ids)
    BY <1>2, <2>1 DEF Offered, Enqueue, SendFailed
  <2>4. QED
    BY <1>2, <2>2, <2>3 DEF SendFailed
<1>3. CASE Fetched(w, m) \/ FetchFailed(w, m) \/ Put(w, m) \/ PutFailed(w, m)
             \/ Delete(w, m) \/ DeleteFailed(w, m)
  BY <1>3 DEF Fetched, FetchFailed, Put, PutFailed, Delete, DeleteFailed, Offered
<1>4. QED
  BY <1>1, <1>2, <1>3 DEF JobStep

\* What an attempt does to the queue, S3 and the alerts of chunks that cannot be
\* fetched: nothing, as it never comes further than the fetch.
LEMMA GivenUpStep ==
  ASSUME TypeOK, Reached, GivenUpWhole,
         NEW w \in Workers, NEW m \in Messages, JobStep(w, m)
  PROVE  GivenUpWhole'
<1> SUFFICES ASSUME NEW n \in Messages,
                    Kind[n] = "null" \/ (Kind[n] = "chunk" /\ IdsOf[n] \cap Poison # {})
             PROVE  queue'[n] # "deleted" /\ ~Written(n)' /\ \A a \in Offered' : a[1] # n
  BY DEF GivenUpWhole
<1>1. n = m => job[w][m].pc \notin {"put", "send", "delete"}
  BY DEF Reached
<1>2. queue[n] # "deleted" /\ ~Written(n) /\ \A a \in Offered : a[1] # n
  BY DEF GivenUpWhole
<1>3. queue'[n] # "deleted"
  BY <1>1, <1>2 DEF JobStep, Fetched, FetchFailed, Put, PutFailed, Send, SendFailed,
                    Delete, DeleteFailed, Deleted, TypeOK
<1>4. ~Written(n)'
  BY <1>1, <1>2, WrittenStep DEF Written
<1>5. \A a \in Offered' : a[1] # n
  BY <1>1, <1>2, OfferedStep
<1>6. QED
  BY <1>3, <1>4, <1>5

LEMMA ReachedStep ==
  ASSUME TypeOK, Reached, NEW w \in Workers, NEW m \in Messages, JobStep(w, m)
  PROVE  Reached'
<1> DEFINE OK(n, j) ==
      /\ j.pc = "fetch" => Kind[n] = "chunk"
      /\ j.pc \in {"put", "send"} => Kind[n] = "chunk" /\ IdsOf[n] \cap Poison = {}
      /\ j.pc = "delete" =>
           Kind[n] # "null" /\ (Kind[n] = "chunk" => IdsOf[n] \cap Poison = {})
      /\ j.pc \in {"none", "settled"} => ~j.current
<1>j. job[w][m] \in Job /\ OK(m, job[w][m])
  BY DEF TypeOK, Reached
<1>1. \E k \in Job : SetJob(w, m, k) /\ OK(m, k)
  <2>1. CASE Fetched(w, m)
    <3>1. PICK k \in Job : SetJob(w, m, k) /\ k.pc = "put"
      BY <2>1, FetchedEffect DEF TypeOK
    <3>2. Kind[m] = "chunk" /\ IdsOf[m] \cap Poison = {}
      BY <2>1, <1>j DEF Fetched
    <3>3. QED
      BY <3>1, <3>2
  <2>2. CASE Put(w, m) \/ Send(w, m)
    <3>1. PICK k \in Job : SetJob(w, m, k) /\ k.pc \in {"send", "delete"}
      BY <2>2, <1>j, AfterSendType DEF Put, Send
    <3>2. Kind[m] = "chunk" /\ IdsOf[m] \cap Poison = {}
      BY <2>2, <1>j DEF Put, Send
    <3>3. QED
      BY <3>1, <3>2
  <2>3. CASE FetchFailed(w, m) \/ PutFailed(w, m) \/ SendFailed(w, m) \/ Delete(w, m)
               \/ DeleteFailed(w, m)
    BY <2>3, JobTypes DEF FetchFailed, PutFailed, SendFailed, Delete, DeleteFailed
  <2>4. QED
    BY <2>1, <2>2, <2>3 DEF JobStep
<1>2. QED
  BY <1>1, SetJobEffect DEF Reached

THEOREM IndInv == Spec => []IInv
<1>1. Init => IInv
  BY JobTypes
     DEF Init, IInv, OneInCharge, LoopInv, Reached, GivenUpWhole, Written, Offered
<1>2. TypeOK /\ TypeOK' /\ IInv /\ [Next]_vars => IInv'
  <2> SUFFICES ASSUME TypeOK, TypeOK', IInv, [Next]_vars PROVE IInv'
    OBVIOUS
  <2>i. OneInCharge /\ LoopInv /\ Reached /\ GivenUpWhole
    BY DEF IInv
  <2>1. ASSUME NEW m \in Messages, Arrive(m) PROVE IInv'
    BY <2>1, <2>i DEF Arrive, IInv, TypeOK, OneInCharge, LoopInv, Reached, GivenUpWhole, Written, Offered
  <2>2. ASSUME NEW m \in Messages, VisibilityTimeout(m) PROVE IInv'
    <3>1. \A w \in Workers, n \in Messages :
            /\ job'[w][n].pc = job[w][n].pc
            /\ n # m => job'[w][n] = job[w][n]
            /\ ~job'[w][m].current
      BY <2>2 DEF VisibilityTimeout, TypeOK, Job
    <3>2. OneInCharge'
      BY <2>2, <2>i, <3>1 DEF VisibilityTimeout, TypeOK, OneInCharge
    <3>3. LoopInv'
      <4>1. [NoJob EXCEPT !.current = FALSE] = NoJob
        <5> DEFINE cleared == [NoJob EXCEPT !.current = FALSE]
        <5>1. /\ cleared.pc = NoJob.pc /\ cleared.current = NoJob.current
              /\ cleared.risky = NoJob.risky /\ cleared.left = NoJob.left
              /\ cleared.key = NoJob.key
          BY DEF NoJob
        <5>2. cleared \in Job
          BY DEF NoJob, Job
        <5>3. QED
          BY <5>1, <5>2, JobTypes DEF Job
      <4>2. ASSUME NEW w \in Workers, NEW n \in Messages, job[w][n] = NoJob
            PROVE  job'[w][n] = NoJob
        BY <2>2, <4>1, <4>2 DEF VisibilityTimeout, TypeOK
      <4>3. QED
        BY <2>2, <2>i, <4>2 DEF VisibilityTimeout, LoopInv
    <3>4. Reached'
      BY <2>i, <3>1 DEF Reached
    <3>5. GivenUpWhole'
      BY <2>2, <2>i DEF VisibilityTimeout, TypeOK, GivenUpWhole, Written, Offered
    <3>6. QED
      BY <3>2, <3>3, <3>4, <3>5 DEF IInv
  <2>3. ASSUME NEW w \in Workers, NEW batch \in SUBSET Messages, Receive(w, batch)
        PROVE  IInv'
    <3>1. \A v \in Workers, n \in Messages :
            job'[v][n] = IF v # w THEN job[v][n] ELSE IF n \in batch THEN Start(n) ELSE NoJob
      BY <2>3 DEF Receive, TypeOK
    <3>2. \A n \in Messages :
            queue'[n] = IF n \in batch THEN "inflight" ELSE queue[n]
      BY <2>3 DEF Receive
    <3>3. \A n \in batch, v \in Workers : ~job[v][n].current
      BY <2>3, <2>i DEF Receive, OneInCharge
    <3>4. \A n \in Messages : job[w][n] = NoJob
      BY <2>3, <2>i DEF Receive, LoopInv
    <3>5. OneInCharge'
      BY <2>i, <3>1, <3>2, <3>3, JobTypes DEF OneInCharge
    <3>6. LoopInv'
      BY <2>3, <2>i, <3>1 DEF Receive, LoopInv, TypeOK
    <3>7. Reached'
      <4>1. ASSUME NEW n \in Messages PROVE Start(n).pc = "settled" => ~Start(n).current
        BY MessagesAssumption DEF Start, NoJob, Kinds
      <4>2. ASSUME NEW n \in batch PROVE job'[w][n] = Start(n)
        BY <3>1
      <4>3. QED
        BY <2>i, <3>1, <4>1, StartType, JobTypes DEF Reached
    <3>8. GivenUpWhole'
      BY <2>3, <2>i, <3>2 DEF Receive, GivenUpWhole, Written, Offered
    <3>9. QED
      BY <3>5, <3>6, <3>7, <3>8 DEF IInv
  <2>4. ASSUME NEW w \in Workers, ReceiveError(w) \/ ReceiveNothing(w) \/ Wake(w) \/ Stop(w)
        PROVE  IInv'
    <3>1. /\ UNCHANGED <<queue, job, objects, written, alerts, refused>>
          /\ loop[w] # "working" \/ loop' = loop
          /\ \A v \in Workers : v # w => loop'[v] = loop[v]
      BY <2>4 DEF ReceiveError, ReceiveNothing, Wake, Stop, TypeOK
    <3>2. LoopInv'
      BY <2>i, <3>1 DEF LoopInv
    <3>3. QED
      BY <2>i, <3>1, <3>2 DEF IInv, OneInCharge, Reached, GivenUpWhole, Written, Offered
  <2>5. ASSUME NEW w \in Workers, BatchSettled(w) \/ Crash(w) PROVE IInv'
    <3>1. \A v \in Workers, n \in Messages :
            job'[v][n] = IF v = w THEN NoJob ELSE job[v][n]
      BY <2>5 DEF BatchSettled, Crash, TypeOK
    <3>2. /\ UNCHANGED <<queue, objects, written, alerts, refused>>
          /\ \A v \in Workers : v # w => loop'[v] = loop[v]
      BY <2>5 DEF BatchSettled, Crash, TypeOK
    <3>3. OneInCharge' /\ LoopInv' /\ Reached'
      BY <2>i, <3>1, <3>2, JobTypes DEF OneInCharge, LoopInv, Reached
    <3>4. GivenUpWhole'
      BY <2>i, <3>2 DEF GivenUpWhole, Written, Offered
    <3>5. QED
      BY <3>3, <3>4 DEF IInv
  <2>6. ASSUME NEW w \in Workers, NEW m \in Messages, JobStep(w, m) PROVE IInv'
    <3>1. PICK j \in Job :
            /\ SetJob(w, m, j)
            /\ job[w][m].pc \in Busy
            /\ loop' = loop
            /\ j.current => job[w][m].current
            /\ \/ queue' = queue
               \/ /\ job[w][m].current /\ ~j.current
                  /\ queue' = [queue EXCEPT ![m] = "deleted"]
      BY <2>6, JobEffect
    <3>2. /\ job'[w][m] = j
          /\ \A v \in Workers, n \in Messages :
               v # w \/ n # m => job'[v][n] = job[v][n]
      BY <3>1, SetJobEffect
    <3>3. OneInCharge'
      <4>1. queue \in [Messages -> {"absent", "visible", "inflight", "deleted"}]
        BY DEF TypeOK
      <4>2. QED
        BY <2>i, <3>1, <3>2, <4>1 DEF OneInCharge
    <3>4. LoopInv'
      BY <2>i, <3>1, <3>2, JobTypes DEF LoopInv, Busy
    <3>5. QED
      BY <2>6, <2>i, <3>3, <3>4, ReachedStep, GivenUpStep DEF IInv
  <2>7. CASE UNCHANGED vars
    BY <2>7, <2>i DEF vars, IInv, OneInCharge, LoopInv, Reached, GivenUpWhole, Written, Offered
  <2>8. QED
    BY <2>1, <2>2, <2>3, <2>4, <2>5, <2>6, <2>7 DEF Next, LoopStep
<1>3. QED
  BY <1>1, <1>2, TypeCorrect, PTL DEF Spec

\* A chunk with a CDP that cannot be fetched, and a null body, leave no trace and stay
\* on the queue, for ever: processMessage throws before its first write.
THEOREM GivenUpChunks == Spec => []GivenUpWhole
<1>1. IInv => GivenUpWhole
  BY DEF IInv
<1>2. QED
  BY <1>1, IndInv, PTL

\* A worker leaves its loop only between batches, so stop() abandons no message.
THEOREM ExitsCleanly == Spec => []ExitsClean
<1>1. TypeOK /\ IInv => ExitsClean
  BY DEF TypeOK, IInv, LoopInv, ExitsClean
<1>2. QED
  BY <1>1, TypeCorrect, IndInv, PTL
-----------------------------------------------------------------------------
(* The inductive invariant of attempts *)

\* An attempt about to store its data has all of its alerts left to send, and never
\* sends one that it did not find at risk.
LeftInv ==
  \A w \in Workers, m \in Messages :
    /\ job[w][m].left \subseteq job[w][m].risky
    /\ job[w][m].pc = "put" => job[w][m].left = job[w][m].risky

EInv == LeftInv /\ AttemptInv /\ StoredBeforeAlert

LEMMA LeftStep ==
  ASSUME TypeOK, LeftInv, NEW w \in Workers, NEW m \in Messages, JobStep(w, m)
  PROVE  LeftInv'
<1> DEFINE j == job[w][m]
<1>j. j \in Job /\ j.left \subseteq j.risky
  BY DEF TypeOK, LeftInv
<1>1. PICK k \in Job : /\ SetJob(w, m, k)
                       /\ k.left \subseteq k.risky
                       /\ k.pc = "put" => k.left = k.risky
  <2>1. CASE Fetched(w, m)
    BY <2>1, FetchedEffect DEF TypeOK
  <2>2. CASE Put(w, m)
    <3>1. SetJob(w, m, AfterPut(j))
      BY <2>2 DEF Put
    <3>2. QED
      BY <3>1, <1>j, AfterSendType
  <2>3. CASE Send(w, m)
    <3>1. PICK batch : SetJob(w, m, AfterSend(j, batch))
      BY <2>3 DEF Send
    <3>2. QED
      BY <3>1, <1>j, AfterSendType
  <2>4. CASE FetchFailed(w, m) \/ PutFailed(w, m) \/ SendFailed(w, m) \/ Delete(w, m)
               \/ DeleteFailed(w, m)
    <3>1. SetJob(w, m, Settled)
      BY <2>4 DEF FetchFailed, PutFailed, SendFailed, Delete, DeleteFailed
    <3>2. Settled.left = {} /\ Settled.pc = "settled"
      BY DEF Settled, NoJob
    <3>3. QED
      BY <3>1, <3>2, JobTypes
  <2>5. QED
    BY <2>1, <2>2, <2>3, <2>4 DEF JobStep
<1>2. /\ job'[w][m] = k
      /\ \A v \in Workers, n \in Messages : v # w \/ n # m => job'[v][n] = job[v][n]
  BY <1>1, SetJobEffect
<1>3. QED
  BY <1>1, <1>2 DEF LeftInv

\* A step keeps what attempts have reached.
LEMMA AttemptStep ==
  ASSUME TypeOK, IInv, EInv,
         NEW w \in Workers, NEW m \in Messages, JobStep(w, m)
  PROVE  AttemptInv'
<1> DEFINE j == job[w][m]
           own == [message |-> m, risky |-> j.risky]
<1>i. LeftInv /\ AttemptInv /\ Reached
  BY DEF EInv, IInv
<1>j. j \in Job
  BY DEF TypeOK
<1>s. written \subseteq written'
  BY WrittenStep
<1>a. Offered \subseteq Offered'
  BY OfferedStep
<1>1. PICK k \in Job :
        /\ SetJob(w, m, k)
        /\ Kind[m] = "chunk" /\ k.pc \in {"send", "delete"} =>
             /\ [message |-> m, risky |-> k.risky] \in written'
             /\ {m} \X (k.risky \ k.left) \subseteq Offered'
             /\ k.pc = "delete" => k.left = {}
  <2>1. CASE Fetched(w, m)
    BY <2>1, FetchedEffect DEF TypeOK
  <2>2. CASE Put(w, m)
    <3> DEFINE k == AfterPut(j)
    <3>1. SetJob(w, m, k) /\ own \in written' /\ j.left = j.risky
      BY <2>2, <1>i DEF Put, Write, LeftInv
    <3>2. k \in Job /\ k.risky = j.risky /\ k.left = k.risky /\ (k.pc = "delete" => k.left = {})
      BY <1>j, <3>1, AfterSendType
    <3> HIDE DEF k
    <3>3. QED
      BY <3>1, <3>2
  <2>3. CASE Send(w, m)
    <3>1. PICK batch \in Batches(j.left) : \E accepted \in SUBSET batch :
            /\ Enqueue(m, accepted)
            /\ refused' = refused \cup ({m} \X (batch \ accepted))
            /\ SetJob(w, m, AfterSend(j, batch))
      BY <2>3 DEF Send
    <3>2. Offered' = Offered \cup ({m} \X batch)
      BY <3>1 DEF Offered, Enqueue
    <3> DEFINE k == AfterSend(j, batch)
    <3>3. /\ k \in Job /\ k.risky = j.risky /\ k.left = j.left \ batch
          /\ k.pc = "delete" => k.left = {}
      BY <1>j, AfterSendType
    <3>4. Kind[m] = "chunk" => own \in written /\ {m} \X (j.risky \ j.left) \subseteq Offered
      BY <2>3, <1>i DEF Send, AttemptInv
    <3>5. SetJob(w, m, k)
      BY <3>1
    <3> HIDE DEF k
    <3>6. Kind[m] = "chunk" => {m} \X (k.risky \ k.left) \subseteq Offered'
      BY <3>2, <3>3, <3>4
    <3>7. QED
      BY <3>3, <3>4, <3>5, <3>6, <1>s
  <2>4. CASE FetchFailed(w, m) \/ PutFailed(w, m) \/ SendFailed(w, m) \/ Delete(w, m)
               \/ DeleteFailed(w, m)
    BY <2>4, JobTypes DEF FetchFailed, PutFailed, SendFailed, Delete, DeleteFailed
  <2>5. QED
    BY <2>1, <2>2, <2>3, <2>4 DEF JobStep
<1>2. /\ job'[w][m] = k
      /\ \A v \in Workers, n \in Messages : v # w \/ n # m => job'[v][n] = job[v][n]
  BY <1>1, SetJobEffect
<1>3. QED
  BY <1>1, <1>2, <1>i, <1>s, <1>a DEF AttemptInv

THEOREM EffectInv == Spec => []EInv
<1>1. Init => EInv
  BY JobTypes DEF Init, EInv, LeftInv, AttemptInv, StoredBeforeAlert, Offered, NoJob
<1>2. TypeOK /\ IInv /\ EInv /\ [Next]_vars => EInv'
  <2> SUFFICES ASSUME TypeOK, IInv, EInv, [Next]_vars PROVE EInv'
    OBVIOUS
  <2>i. LeftInv /\ AttemptInv /\ StoredBeforeAlert /\ Reached
    BY DEF EInv, IInv
  <2>1. ASSUME NEW w \in Workers, NEW m \in Messages, JobStep(w, m) PROVE EInv'
    <3>1. LeftInv' /\ AttemptInv'
      BY <2>1, <2>i, LeftStep, AttemptStep
    <3>2. StoredBeforeAlert'
      <4>1. job[w][m].pc = "send" => [message |-> m, risky |-> job[w][m].risky] \in written
        BY <2>i DEF AttemptInv, Reached
      <4>2. written \subseteq written'
        BY <2>1, WrittenStep
      <4>3. ASSUME NEW a \in Offered'
            PROVE  \E d \in written' : d.message = a[1] /\ a[2] \in d.risky
        <5>1. CASE a \in Offered
          BY <5>1, <4>2, <2>i DEF StoredBeforeAlert
        <5>2. CASE a \notin Offered
          <6>1. job[w][m].pc = "send" /\ a[1] = m /\ a[2] \in job[w][m].left
            BY <2>1, <5>2, OfferedStep
          <6>2. a[2] \in job[w][m].risky
            BY <6>1, <2>i DEF LeftInv
          <6>3. QED
            BY <6>1, <6>2, <4>1, <4>2
        <5>3. QED
          BY <5>1, <5>2
      <4>4. QED
        BY <4>3 DEF StoredBeforeAlert
    <3>3. QED
      BY <3>1, <3>2 DEF EInv
  <2>2. ASSUME UNCHANGED <<written, alerts, refused>>,
               \A w \in Workers, m \in Messages :
                 \/ /\ job'[w][m].pc = job[w][m].pc
                    /\ job'[w][m].left = job[w][m].left /\ job'[w][m].risky = job[w][m].risky
                 \/ /\ Kind[m] = "chunk" => job'[w][m].pc \notin {"put", "send", "delete"}
                    /\ job'[w][m].left = {} /\ job'[w][m].pc # "put"
        PROVE  EInv'
    <3>1. LeftInv'
      BY <2>i, <2>2 DEF LeftInv
    <3>2. AttemptInv'
      BY <2>i, <2>2 DEF AttemptInv, Offered
    <3>3. StoredBeforeAlert'
      BY <2>i, <2>2 DEF StoredBeforeAlert, Offered
    <3>4. QED
      BY <3>1, <3>2, <3>3 DEF EInv
  <2>3. ASSUME NEW m \in Messages, VisibilityTimeout(m) PROVE EInv'
    <3>1. \A w \in Workers, n \in Messages :
            /\ job'[w][n].pc = job[w][n].pc
            /\ job'[w][n].left = job[w][n].left /\ job'[w][n].risky = job[w][n].risky
      BY <2>3 DEF VisibilityTimeout, TypeOK, Job
    <3>2. QED
      BY <2>2, <2>3, <3>1 DEF VisibilityTimeout
  <2>j. NoJob.left = {} /\ NoJob.pc = "none"
    BY DEF NoJob
  <2>4. ASSUME NEW w \in Workers, NEW batch \in SUBSET Messages, Receive(w, batch)
        PROVE  EInv'
    <3>1. \A v \in Workers, n \in Messages :
            \/ job'[v][n] = job[v][n]
            \/ job'[v][n] = Start(n)
            \/ job'[v][n] = NoJob
      BY <2>4 DEF Receive, TypeOK
    <3>2. QED
      BY <2>2, <2>4, <2>j, <3>1, StartType DEF Receive
  <2>5. ASSUME NEW w \in Workers, BatchSettled(w) \/ Crash(w) PROVE EInv'
    <3>1. \A v \in Workers, n \in Messages : job'[v][n] \in {job[v][n], NoJob}
      BY <2>5 DEF BatchSettled, Crash, TypeOK
    <3>2. QED
      BY <2>2, <2>5, <2>j, <3>1 DEF BatchSettled, Crash
  <2>6. CASE UNCHANGED <<job, written, alerts, refused>>
    BY <2>2, <2>6
  <2>7. QED
    BY <2>1, <2>3, <2>4, <2>5, <2>6
       DEF Next, LoopStep, Arrive, ReceiveNothing, ReceiveError, Wake, Stop, vars
<1>3. QED
  BY <1>1, <1>2, TypeCorrect, IndInv, PTL DEF Spec

\* No CDP is offered to the liquidation queue before the data that shows it at risk was
\* put in S3, whatever keys collide and whatever entries are refused.
THEOREM StoredFirst == Spec => []StoredBeforeAlert
<1>1. EInv => StoredBeforeAlert
  BY DEF EInv
<1>2. QED
  BY <1>1, EffectInv, PTL

\* An attempt has stored and sent what its progress says.
THEOREM Attempts == Spec => []AttemptInv
<1>1. EInv => AttemptInv
  BY DEF EInv
<1>2. QED
  BY <1>1, EffectInv, PTL

-----------------------------------------------------------------------------
(* Refinement *)

\* What the attempts in charge of a message say of it: nothing when there is none, and
\* its own verdict when there is one.
LEMMA VerdictLemma ==
  ASSUME NEW jobs, NEW m \in Messages
  PROVE  /\ Kind[m] # "chunk" \/ (\A w \in Workers : ~Decides(jobs[w][m]))
              => Verdict(jobs, m) = Contract!Unknown
         /\ \A w \in Workers :
              /\ Kind[m] = "chunk" /\ Decides(jobs[w][m])
              /\ \A v \in Workers \ {w} : ~Decides(jobs[v][m])
              => Verdict(jobs, m) = [known |-> TRUE, risky |-> jobs[w][m].risky]
<1> DEFINE deciders == {w \in Workers : Kind[m] = "chunk" /\ Decides(jobs[w][m])}
<1>1. Verdict(jobs, m) = [known |-> deciders # {},
                          risky |-> UNION {jobs[w][m].risky : w \in deciders}]
  BY DEF Verdict
<1>2. ASSUME Kind[m] # "chunk" \/ (\A w \in Workers : ~Decides(jobs[w][m]))
      PROVE  Verdict(jobs, m) = Contract!Unknown
  <2>1. deciders = {}
    BY <1>2
  <2>2. UNION {jobs[w][m].risky : w \in deciders} = {}
    BY <2>1
  <2>3. QED
    BY <1>1, <2>1, <2>2 DEF Contract!Unknown
<1>3. ASSUME NEW w \in Workers, Kind[m] = "chunk", Decides(jobs[w][m]),
             \A v \in Workers \ {w} : ~Decides(jobs[v][m])
      PROVE  Verdict(jobs, m) = [known |-> TRUE, risky |-> jobs[w][m].risky]
  <2>1. deciders = {w}
    BY <1>3
  <2>2. UNION {jobs[v][m].risky : v \in deciders} = jobs[w][m].risky
    BY <2>1
  <2>3. QED
    BY <1>1, <2>1, <2>2
<1>4. QED
  BY <1>2, <1>3

\* The verdict is that of the deciding attempts only.
LEMMA VerdictSame ==
  ASSUME NEW jobs, NEW jobs2, NEW m \in Messages,
         \A w \in Workers :
           /\ Decides(jobs[w][m]) <=> Decides(jobs2[w][m])
           /\ Decides(jobs[w][m]) => jobs[w][m].risky = jobs2[w][m].risky
  PROVE  Verdict(jobs, m) = Verdict(jobs2, m)
<1> DEFINE deciders  == {w \in Workers : Kind[m] = "chunk" /\ Decides(jobs[w][m])}
           deciders2 == {w \in Workers : Kind[m] = "chunk" /\ Decides(jobs2[w][m])}
<1>1. deciders = deciders2
  OBVIOUS
<1>2. UNION {jobs[w][m].risky : w \in deciders} = UNION {jobs2[w][m].risky : w \in deciders2}
  BY <1>1
<1>3. QED
  BY <1>1, <1>2 DEF Verdict

\* A step of an attempt that leaves the index queue alone, as the contract sees it: it
\* keeps the verdict, is forgotten, or assesses its message.
LEMMA VerdictStep ==
  ASSUME TypeOK, OneInCharge, NEW w \in Workers, NEW m \in Messages, JobStep(w, m),
         queue' = queue
  PROVE  /\ \A n \in Messages \ {m} : Verdict(job', n) = Verdict(job, n)
         /\ ~Fetched(w, m) => Verdict(job', m) \in {Verdict(job, m), Contract!Unknown}
         /\ Fetched(w, m) =>
              \/ Verdict(job', m) = Verdict(job, m)
              \/ /\ Kind[m] = "chunk"
                 /\ \E risky \in SUBSET CdpIds :
                      Verdict(job', m) = [known |-> TRUE, risky |-> risky]
<1> DEFINE j == job[w][m]
<1>j. j \in Job
  BY DEF TypeOK
<1>1. PICK k \in Job : SetJob(w, m, k) /\ (k.current => j.current)
  BY JobEffect
<1>2. /\ job'[w][m] = k
      /\ \A v \in Workers, n \in Messages : v # w \/ n # m => job'[v][n] = job[v][n]
  BY <1>1, SetJobEffect
<1>3. \A n \in Messages \ {m} : Verdict(job', n) = Verdict(job, n)
  BY <1>2, VerdictSame
<1>4. ASSUME ~j.current PROVE Verdict(job', m) = Verdict(job, m)
  BY <1>1, <1>2, <1>4, VerdictSame DEF Decides
<1>5. ASSUME j.current PROVE \A v \in Workers \ {w} : ~Decides(job'[v][m])
  BY <1>2, <1>5 DEF OneInCharge, Decides
<1>6. ASSUME ~k.current, j.current PROVE Verdict(job', m) = Contract!Unknown
  <2>1. \A v \in Workers : ~Decides(job'[v][m])
    BY <1>2, <1>5, <1>6 DEF Decides
  <2>2. QED
    BY <2>1, VerdictLemma
<1>7. CASE Fetched(w, m)
  <2>0. k.pc = "put" /\ k.risky \subseteq IdsOf[m] /\ k.current = j.current
    <3>1. PICK f \in Job : /\ SetJob(w, m, f) /\ f.pc = "put" /\ f.current = j.current
                           /\ f.risky \in SUBSET IdsOf[m]
      BY <1>7, FetchedEffect DEF TypeOK
    <3>2. job'[w][m] = f
      BY <3>1, SetJobEffect
    <3>3. QED
      BY <1>2, <3>1, <3>2
  <2>1. CASE k.current
    <3>1. k.pc = "put" /\ k.risky \subseteq IdsOf[m]
      BY <2>0
    <3>2. Kind[m] = "chunk" =>
            Verdict(job', m) = [known |-> TRUE, risky |-> k.risky]
      BY <1>1, <1>2, <1>5, <2>1, <3>1, VerdictLemma DEF Decides
    <3>3. Kind[m] # "chunk" => Verdict(job', m) = Verdict(job, m)
      BY VerdictLemma
    <3>4. QED
      BY <1>3, <1>7, <3>1, <3>2, <3>3, MessagesAssumption
  <2>2. CASE ~k.current
    BY <1>3, <1>4, <1>7, <2>0, <2>2
  <2>3. QED
    BY <2>1, <2>2
<1>8. CASE ~Fetched(w, m)
  <2>1. CASE k.current
    <3>1. Decides(j) /\ Decides(k) /\ k.risky = j.risky
      <4>1. CASE Put(w, m) \/ Send(w, m)
        <5>1. \/ k = AfterPut(j)
              \/ \E batch : k = AfterSend(j, batch)
          BY <1>2, <4>1, SetJobEffect DEF Put, Send
        <5>2. k.risky = j.risky /\ k.pc \in {"send", "delete"}
          BY <1>j, <5>1, AfterSendType
        <5>3. QED
          BY <1>1, <2>1, <4>1, <5>2 DEF Put, Send, Decides
      <4>2. CASE FetchFailed(w, m) \/ PutFailed(w, m) \/ SendFailed(w, m) \/ Delete(w, m)
                   \/ DeleteFailed(w, m)
        <5>1. k = Settled
          BY <1>2, <4>2, SetJobEffect
             DEF FetchFailed, PutFailed, SendFailed, Delete, DeleteFailed
        <5>2. QED
          BY <2>1, <5>1, JobTypes
      <4>3. QED
        BY <1>8, <4>1, <4>2 DEF JobStep
    <3>2. Verdict(job', m) = Verdict(job, m)
      BY <1>2, <3>1, VerdictSame
    <3>3. QED
      BY <1>3, <1>8, <3>2
  <2>2. CASE ~k.current
    BY <1>3, <1>4, <1>6, <1>8, <2>2
  <2>3. QED
    BY <2>1, <2>2
<1>9. QED
  BY <1>7, <1>8

\* The worker implements the contract: a message leaves the queue only after its data
\* was put in S3 and each CDP its last attempt found at risk was offered to the
\* liquidation queue. What SQS refuses, and what another put replaces, is not looked at.
THEOREM Refinement == Spec => MeetsContract
<1> DEFINE archived == {m \in Messages : Written(m)}
           open == {m \in Messages : queue[m] \in {"visible", "inflight"}}
           retired == {m \in Messages : queue[m] = "deleted"}
           verdict == [m \in Messages |-> Verdict(job, m)]
<1>1. Init => Contract!Init
  <2> SUFFICES ASSUME Init PROVE Contract!Init
    OBVIOUS
  <2>1. \A m \in Messages : Verdict(job, m) = Contract!Unknown
    <3>1. \A w \in Workers, m \in Messages : ~Decides(job[w][m])
      BY JobTypes DEF Init, Decides
    <3>2. QED
      BY <3>1, VerdictLemma
  <2>2. open = {} /\ retired = {} /\ archived = {} /\ Offered = {}
    BY DEF Init, Written, Offered
  <2>3. QED
    BY <2>1, <2>2 DEF Contract!Init
<1>2. /\ TypeOK /\ IInv /\ EInv /\ [Next]_vars
      /\ TypeOK' /\ IInv' /\ EInv'
      => [Contract!Next]_(Contract!vars)
  <2> SUFFICES ASSUME TypeOK, IInv, EInv, [Next]_vars, TypeOK', IInv', EInv'
               PROVE  [Contract!Next]_(Contract!vars)
    OBVIOUS
  <2>i. OneInCharge /\ OneInCharge' /\ LoopInv /\ Reached /\ AttemptInv
    BY DEF IInv, EInv
  <2>n. ASSUME UNCHANGED <<written, Offered>>,
               \A n \in Messages :
                 /\ queue'[n] \in {"visible", "inflight"} <=> queue[n] \in {"visible", "inflight"}
                 /\ queue'[n] = "deleted" <=> queue[n] = "deleted",
               NEW ks \in SUBSET Messages,
               \A n \in Messages : Verdict(job', n) =
                 IF n \in ks THEN Contract!Unknown ELSE Verdict(job, n)
        PROVE  Contract!Next
    <3>1. open' = open /\ retired' = retired /\ archived' = archived
      BY <2>n DEF Written
    <3>2. verdict' = [n \in Messages |-> IF n \in ks THEN Contract!Unknown ELSE verdict[n]]
      BY <2>n
    <3>3. Contract!Forget
      BY <2>n, <3>1, <3>2 DEF Contract!Forget, Contract!Forgets
    <3>4. QED
      BY <3>3 DEF Contract!Next
  <2>1. ASSUME NEW m \in Messages, Arrive(m) PROVE Contract!Next
    <3>1. Contract!Publish(m)
      BY <2>1 DEF Arrive, Contract!Publish, Written, Offered, TypeOK
    <3>2. QED
      BY <3>1 DEF Contract!Next
  <2>2. ASSUME NEW m \in Messages, VisibilityTimeout(m) PROVE Contract!Next
    <3>1. \A w \in Workers, n \in Messages :
            /\ n # m => job'[w][n] = job[w][n]
            /\ ~job'[w][m].current
      BY <2>2 DEF VisibilityTimeout, TypeOK, Job
    <3>2. \A n \in Messages : Verdict(job', n) =
            IF n \in {m} THEN Contract!Unknown ELSE Verdict(job, n)
      BY <3>1, VerdictLemma, VerdictSame DEF Decides
    <3>3. \A n \in Messages :
            /\ queue'[n] \in {"visible", "inflight"} <=> queue[n] \in {"visible", "inflight"}
            /\ queue'[n] = "deleted" <=> queue[n] = "deleted"
      BY <2>2 DEF VisibilityTimeout, TypeOK
    <3>4. QED
      BY <2>2, <2>n, <3>2, <3>3 DEF VisibilityTimeout, Offered
  <2>3. ASSUME NEW w \in Workers, NEW batch \in SUBSET Messages, Receive(w, batch)
        PROVE  Contract!Next
    <3>1. \A v \in Workers, n \in Messages :
            job'[v][n] = IF v # w THEN job[v][n] ELSE IF n \in batch THEN Start(n) ELSE NoJob
      BY <2>3 DEF Receive, TypeOK
    <3>2. \A n \in Messages : job[w][n] = NoJob
      BY <2>3, <2>i DEF Receive, LoopInv
    <3>3. ASSUME NEW n \in Messages PROVE Verdict(job', n) = Verdict(job, n)
      <4>1. CASE Kind[n] = "chunk"
        <5>1. Start(n).pc = "fetch"
          BY <4>1, StartType
        <5>2. ~Decides(job'[w][n]) /\ ~Decides(job[w][n])
          BY <3>1, <3>2, <5>1, JobTypes DEF Decides
        <5>3. QED
          BY <3>1, <5>2, VerdictSame
      <4>2. CASE Kind[n] # "chunk"
        BY <4>2, VerdictLemma
      <4>3. QED
        BY <4>1, <4>2
    <3>4. \A n \in Messages :
            /\ queue'[n] \in {"visible", "inflight"} <=> queue[n] \in {"visible", "inflight"}
            /\ queue'[n] = "deleted" <=> queue[n] = "deleted"
      BY <2>3 DEF Receive
    <3>5. \A n \in Messages : Verdict(job', n) =
            IF n \in {} THEN Contract!Unknown ELSE Verdict(job, n)
      BY <3>3
    <3>6. UNCHANGED <<written, Offered>> /\ {} \in SUBSET Messages
      BY <2>3 DEF Receive, Offered
    <3>7. QED
      BY <2>n, <3>4, <3>5, <3>6
  <2>4. ASSUME NEW w \in Workers, BatchSettled(w) \/ Crash(w) PROVE Contract!Next
    <3> DEFINE ks == {n \in Messages : job[w][n].current}
    <3>1. \A v \in Workers, n \in Messages :
            job'[v][n] = IF v = w THEN NoJob ELSE job[v][n]
      BY <2>4 DEF BatchSettled, Crash, TypeOK
    <3>2. ASSUME NEW n \in Messages
          PROVE  Verdict(job', n) = IF n \in ks THEN Contract!Unknown ELSE Verdict(job, n)
      <4>1. CASE n \in ks
        <5>1. \A v \in Workers : ~Decides(job'[v][n])
          BY <2>i, <3>1, <4>1, JobTypes DEF OneInCharge, Decides
        <5>2. QED
          BY <4>1, <5>1, VerdictLemma
      <4>2. CASE n \notin ks
        <5>1. ~Decides(job[w][n]) /\ ~Decides(job'[w][n])
          BY <3>1, <4>2, JobTypes DEF Decides
        <5>2. QED
          BY <3>1, <4>2, <5>1, VerdictSame
      <4>3. QED
        BY <4>1, <4>2
    <3>3. UNCHANGED <<queue, written, Offered>>
      BY <2>4 DEF BatchSettled, Crash, Offered
    <3>4. ks \in SUBSET Messages
      OBVIOUS
    <3> HIDE DEF ks
    <3>5. QED
      BY <2>n, <3>2, <3>3, <3>4
  <2>5. CASE UNCHANGED <<queue, job, written, Offered>>
    <3>1. open' = open /\ retired' = retired /\ archived' = archived /\ verdict' = verdict
      BY <2>5 DEF Written, Verdict
    <3>2. QED
      BY <2>5, <3>1 DEF Contract!vars
  <2>6. ASSUME NEW w \in Workers, NEW m \in Messages, JobStep(w, m), queue' = queue
        PROVE  [Contract!Next]_(Contract!vars)
    <3>1. open' = open /\ retired' = retired
      BY <2>6
    <3>2. \A n \in Messages \ {m} : Verdict(job', n) = Verdict(job, n)
      BY <2>6, <2>i, VerdictStep
    <3>3. CASE Fetched(w, m)
      <4>1. UNCHANGED <<written, Offered>> /\ archived' = archived
        BY <3>3 DEF Fetched, Written, Offered
      <4>2. CASE Verdict(job', m) = Verdict(job, m)
        <5>1. \A n \in Messages : Verdict(job', n) =
                IF n \in {} THEN Contract!Unknown ELSE Verdict(job, n)
          BY <3>2, <4>2
        <5>2. {} \in SUBSET Messages
          OBVIOUS
        <5>3. QED
          BY <2>6, <2>n, <4>1, <5>1, <5>2
      <4>3. ASSUME Kind[m] = "chunk", NEW risky \in SUBSET CdpIds,
                   Verdict(job', m) = [known |-> TRUE, risky |-> risky]
            PROVE  Contract!Next
        <5>1. verdict' = [verdict EXCEPT ![m] = [known |-> TRUE, risky |-> risky]]
          BY <3>2, <4>3
        <5>2. Contract!Assess(m)
          BY <3>1, <4>1, <4>3, <5>1 DEF Contract!Assess
        <5>3. QED
          BY <5>2 DEF Contract!Next
      <4>4. QED
        BY <2>6, <2>i, <3>3, <4>2, <4>3, VerdictStep
    <3>4. CASE ~Fetched(w, m)
      <4>1. Verdict(job', m) \in {Verdict(job, m), Contract!Unknown}
        BY <2>6, <2>i, <3>4, VerdictStep
      <4>2. PICK ks \in SUBSET {m} :
              /\ verdict' = [n \in Messages |-> IF n \in ks THEN Contract!Unknown ELSE verdict[n]]
              /\ \A n \in Messages : Verdict(job', n) =
                   IF n \in ks THEN Contract!Unknown ELSE Verdict(job, n)
        <5>1. CASE Verdict(job', m) = Verdict(job, m)
          <6>1. \A n \in Messages : Verdict(job', n) =
                  IF n \in {} THEN Contract!Unknown ELSE Verdict(job, n)
            BY <3>2, <5>1
          <6>2. verdict' = [n \in Messages |-> IF n \in {} THEN Contract!Unknown
                                                            ELSE verdict[n]]
            BY <6>1
          <6> HIDE DEF verdict
          <6>3. {} \in SUBSET {m}
            OBVIOUS
          <6>4. QED
            BY <6>1, <6>2, <6>3
        <5>2. CASE Verdict(job', m) = Contract!Unknown
          <6>1. \A n \in Messages : Verdict(job', n) =
                  IF n \in {m} THEN Contract!Unknown ELSE Verdict(job, n)
            BY <3>2, <5>2
          <6>2. verdict' = [n \in Messages |-> IF n \in {m} THEN Contract!Unknown
                                                            ELSE verdict[n]]
            BY <6>1
          <6> HIDE DEF verdict
          <6>3. {m} \in SUBSET {m}
            OBVIOUS
          <6>4. QED
            BY <6>1, <6>2, <6>3
        <5>3. QED
          BY <4>1, <5>1, <5>2
      <4>3. Contract!Forgets(ks)
        BY <4>2 DEF Contract!Forgets
      <4>4. CASE UNCHANGED <<written, Offered>>
        <5>1. ks \in SUBSET Messages
          OBVIOUS
        <5>2. \A n \in Messages : Verdict(job', n) =
                IF n \in ks THEN Contract!Unknown ELSE Verdict(job, n)
          BY <4>2
        <5>3. QED
          BY <2>6, <2>n, <4>4, <5>1, <5>2
      <4>5. CASE Offered' = Offered /\
                 written' = written \cup {[message |-> m, risky |-> job[w][m].risky]}
        <5>1. \A n \in Messages : Written(n)' <=> Written(n) \/ n = m
          <6>1. PICK own : own.message = m /\ written' = written \cup {own}
            <7>1. [message |-> m, risky |-> job[w][m].risky].message = m
              OBVIOUS
            <7>2. QED
              BY <4>5, <7>1
          <6>2. QED
            BY <6>1 DEF Written
        <5>2. archived' = archived \cup {m}
          BY <5>1
        <5>3. Contract!Archive(m)
          BY <3>1, <4>3, <4>5, <5>2 DEF Contract!Archive
        <5>4. QED
          BY <5>3 DEF Contract!Next
      <4>6. ASSUME written' = written, job[w][m].pc = "send", NEW ids \in SUBSET CdpIds,
                   Offered' = Offered \cup ({m} \X ids)
            PROVE  Contract!Next
        <5>1. archived' = archived
          BY <4>6 DEF Written
        <5>2. Kind[m] = "chunk"
          BY <2>i, <4>6 DEF Reached
        <5>3. Written(m)
          BY <2>i, <4>6, <5>2 DEF AttemptInv, Written
        <5>4. m \in archived
          BY <5>3
        <5>5. Contract!Alert(m)
          BY <3>1, <4>3, <4>6, <5>1, <5>4 DEF Contract!Alert
        <5>6. QED
          BY <5>5 DEF Contract!Next
      <4>7. CASE job[w][m].pc = "send" /\ Offered' # Offered
        <5>1. written' = written
          BY <2>6, <4>7, WrittenStep
        <5>2. job[w][m].left \subseteq CdpIds
          BY DEF TypeOK, Job
        <5>3. PICK ids \in SUBSET job[w][m].left : Offered' = Offered \cup ({m} \X ids)
          BY <2>6, <4>7, OfferedStep
        <5>4. QED
          BY <4>6, <4>7, <5>1, <5>2, <5>3
      <4>8. CASE Offered' = Offered
        <5>1. CASE written' = written
          BY <4>4, <4>8, <5>1
        <5>2. CASE written' # written
          BY <2>6, <4>5, <4>8, <5>2, WrittenStep
        <5>3. QED
          BY <5>1, <5>2
      <4>9. QED
        BY <2>6, <4>7, <4>8, OfferedStep
    <3>5. QED
      BY <3>3, <3>4
  <2>7. ASSUME NEW w \in Workers, NEW m \in Messages, JobStep(w, m), queue' # queue
        PROVE  Contract!Next
    <3>1. PICK k \in Job :
            /\ SetJob(w, m, k) /\ ~k.current
            /\ job[w][m].pc = "delete" /\ job[w][m].current
            /\ queue' = [queue EXCEPT ![m] = "deleted"]
      BY <2>7, JobEffect
    <3>2. UNCHANGED <<written, Offered>> /\ archived' = archived
      BY <2>7, <3>1, WrittenStep, OfferedStep DEF Written
    <3>3. /\ job'[w][m] = k
          /\ \A v \in Workers, n \in Messages : v # w \/ n # m => job'[v][n] = job[v][n]
      BY <3>1, SetJobEffect
    <3>4. \A v \in Workers \ {w} : ~job[v][m].current
      BY <2>i, <3>1 DEF OneInCharge
    <3>5. m \in open /\ open' = open \ {m} /\ retired' = retired \cup {m}
      BY <2>i, <3>1 DEF OneInCharge, TypeOK
    <3>6. Contract!Forgets({m})
      <4>1. Verdict(job', m) = Contract!Unknown
        <5>1. \A v \in Workers : ~Decides(job'[v][m])
          BY <3>1, <3>3, <3>4 DEF Decides
        <5>2. QED
          BY <5>1, VerdictLemma
      <4>2. \A n \in Messages \ {m} : Verdict(job', n) = Verdict(job, n)
        BY <3>3, VerdictSame
      <4>3. QED
        BY <4>1, <4>2 DEF Contract!Forgets
    <3>7. ASSUME Kind[m] # "unreadable"
          PROVE  /\ verdict[m].known
                 /\ m \in archived
                 /\ {m} \X verdict[m].risky \subseteq Offered
      <4>1. Kind[m] = "chunk"
        BY <2>i, <3>1, <3>7, MessagesAssumption DEF Reached, Kinds
      <4>2. Verdict(job, m) = [known |-> TRUE, risky |-> job[w][m].risky]
        BY <3>1, <3>4, <4>1, VerdictLemma DEF Decides
      <4>3. Written(m) /\ {m} \X job[w][m].risky \subseteq Offered
        <5>1. job[w][m].left = {} /\ Written(m)
              /\ {m} \X (job[w][m].risky \ job[w][m].left) \subseteq Offered
          BY <2>i, <3>1, <4>1 DEF AttemptInv, Written
        <5>2. QED
          BY <5>1
      <4>4. QED
        BY <4>2, <4>3
    <3>8. Contract!Retire(m)
      BY <3>2, <3>5, <3>6, <3>7 DEF Contract!Retire, Contract!Settled
    <3>9. QED
      BY <3>8 DEF Contract!Next
  <2>8. QED
    BY <2>1, <2>2, <2>3, <2>4, <2>5, <2>6, <2>7
       DEF Next, LoopStep, ReceiveNothing, ReceiveError, Wake, Stop, vars, Offered
<1>3. QED
  BY <1>1, <1>2, TypeCorrect, IndInv, EffectInv, PTL DEF Spec, MeetsContract, Contract!Spec
=============================================================================
