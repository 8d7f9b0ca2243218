----------------------- MODULE TransactionWalletProofs -----------------------
(***************************************************************************)
(* Theorems about TransactionWallet, for any delays, timeout, latency,     *)
(* length of epochs and moment of the ledger's decision.                   *)
(***************************************************************************)
EXTENDS TransactionWallet, TLAPS

Times == Nat \cup {Never}
Statuses == {"Unknown", "Pending"} \cup Completed
Stages == {"preparing", "submitting", "polling", "details", "success", "timeout",
           "notSubmitted", "submitError", "statusError", "detailsError"} \cup Completed

TypeInv ==
  /\ clock \in Nat /\ sentAt \in Nat /\ endEpoch \in Int
  /\ job \in {"send", "deploy"} /\ stage \in Stages
  /\ poll \in [began : Times, retries : Nat, due : Times, asked : Times, seen : Statuses]
  /\ tx \in Statuses /\ finalAt \in Times

\* A final status is final from a moment on, which the polling has not missed.
StatusInv ==
  /\ tx \in Completed <=> finalAt # Never
  /\ finalAt # Never => finalAt <= clock
  /\ poll.seen \in Completed => tx = poll.seen
  /\ stage \in {"preparing", "notSubmitted"} => tx = "Unknown"
  /\ stage \in {"details", "success"} => tx = "CommittedSuccess"
  /\ stage \in Completed => tx = stage /\ stage # "CommittedSuccess"

\* An answer under way is not late, no timer has been passed over, and a final status that
\* the answer under way does not tell became final after it was asked for.
PollInv ==
  /\ stage = "submitting" =>
       sentAt <= clock /\ clock <= sentAt + Latency /\ (finalAt # Never => sentAt <= finalAt)
  /\ stage = "polling" =>
       /\ poll.began # Never /\ clock <= poll.began + Timeout
       /\ poll.due = Never <=> poll.asked # Never
       /\ poll.due # Never => clock <= poll.due /\ poll.due <= clock + MaxDelay
       /\ poll.asked # Never => poll.asked <= clock /\ clock <= poll.asked + Latency
       /\ finalAt # Never =>
            /\ poll.due # Never => poll.due <= finalAt + Latency + MaxDelay
            /\ poll.asked # Never => poll.asked <= finalAt + Latency + MaxDelay
            /\ poll.asked # Never /\ poll.seen \notin Completed => poll.asked <= finalAt
  /\ stage = "timeout" => poll.began # Never /\ poll.began + Timeout <= clock

IInv == TypeInv /\ StatusInv /\ PollInv /\ SeenInTime
-----------------------------------------------------------------------------

LEMMA DelayBounds == ASSUME NEW n \in Nat PROVE Delay(n) \in Nat /\ Delay(n) <= MaxDelay
<1>1. n * Interval * Multiplier \in Nat
  BY WalletAssumption
<1>2. QED
  BY <1>1, WalletAssumption DEF Delay

LEMMA InitInv == Init => IInv
BY WalletAssumption
DEF Init, IInv, TypeInv, StatusInv, PollInv, SeenInTime, Stages, Statuses, Times, Unpolled,
    Never, Completed

LEMMA TypeNext == TypeInv /\ [Next]_vars => TypeInv'
<1> SUFFICES ASSUME TypeInv, [Next]_vars PROVE TypeInv'
  OBVIOUS
<1> USE DEF TypeInv
<1>1. CASE Prepare
  <2>1. Epoch \in Int
    BY WalletAssumption DEF Epoch
  <2>2. QED
    BY <1>1, <2>1 DEF Prepare, Stages
<1>2. CASE PrepareFails \/ SubmitFails \/ StatusFails \/ TimeoutPasses \/ DetailsAnswered
  BY <1>2 DEF PrepareFails, SubmitFails, StatusFails, TimeoutPasses, DetailsAnswered, Stages
<1>3. CASE Accepted
  BY <1>3 DEF Accepted, Statuses
<1>4. CASE Submitted
  BY <1>4 DEF Submitted, Unpolled, Stages, Times, Statuses
<1>5. CASE DelayOver
  BY <1>5 DEF DelayOver, Times
<1>6. CASE StatusAnswered
  <2>1. PICK status \in {poll.seen, tx} :
          IF status \in Completed
          THEN stage' = Outcome(status) /\ sentAt' = clock /\ UNCHANGED poll
          ELSE /\ poll' = [poll EXCEPT !.asked = Never, !.retries = @ + 1,
                                       !.due = clock + Delay(poll.retries + 1)]
               /\ UNCHANGED <<stage, sentAt>>
    BY <1>6 DEF StatusAnswered
  <2>2. clock + Delay(poll.retries + 1) \in Times
    BY DelayBounds DEF Times
  <2>3. status \in Completed => Outcome(status) \in Stages
    BY DEF Outcome, Returned, Stages
  <2>4. /\ clock' = clock /\ job' = job /\ endEpoch' = endEpoch /\ tx' = tx
        /\ finalAt' = finalAt
    BY <1>6 DEF StatusAnswered
  <2>5. CASE status \in Completed
    BY <2>1, <2>3, <2>4, <2>5
  <2>6. CASE status \notin Completed
    <3>1. poll' = [poll EXCEPT !.asked = Never, !.retries = @ + 1,
                               !.due = clock + Delay(poll.retries + 1)]
      BY <2>1, <2>6
    <3>2. poll' \in [began : Times, retries : Nat, due : Times, asked : Times, seen : Statuses]
      <4> DEFINE due == clock + Delay(poll.retries + 1)
      <4>1. due \in Times /\ Never \in Times /\ poll.retries + 1 \in Nat
        BY <2>2 DEF Times
      <4> HIDE DEF due
      <4>2. poll' = [poll EXCEPT !.asked = Never, !.retries = poll.retries + 1, !.due = due]
        BY <3>1 DEF due
      <4>3. QED
        BY <4>1, <4>2
    <3>3. QED
      BY <2>1, <2>4, <2>6, <3>2
  <2>7. QED
    BY <2>5, <2>6
<1>7. CASE Decide
  BY <1>7 DEF Decide, Statuses, Times, Completed
<1>8. CASE Tick
  BY <1>8 DEF Tick
<1>9. CASE UNCHANGED vars
  BY <1>9 DEF vars
<1>10. QED
  BY <1>1, <1>2, <1>3, <1>4, <1>5, <1>6, <1>7, <1>8, <1>9 DEF Next

LEMMA StatusNext == TypeInv /\ StatusInv /\ [Next]_vars => StatusInv'
<1> SUFFICES ASSUME TypeInv, StatusInv, [Next]_vars PROVE StatusInv'
  OBVIOUS
<1> USE DEF StatusInv, Completed
<1>1. CASE Prepare
  BY <1>1 DEF Prepare
<1>2. CASE PrepareFails \/ SubmitFails \/ StatusFails \/ TimeoutPasses \/ DetailsAnswered
  BY <1>2 DEF PrepareFails, SubmitFails, StatusFails, TimeoutPasses, DetailsAnswered
<1>3. CASE Accepted
  BY <1>3 DEF Accepted
<1>4. CASE Submitted
  BY <1>4 DEF Submitted, Unpolled
<1>5. CASE DelayOver
  BY <1>5 DEF DelayOver, TypeInv
<1>6. CASE StatusAnswered
  <2>1. PICK status \in {poll.seen, tx} :
          IF status \in Completed
          THEN stage' = Outcome(status) /\ sentAt' = clock /\ UNCHANGED poll
          ELSE /\ poll' = [poll EXCEPT !.asked = Never, !.retries = @ + 1,
                                       !.due = clock + Delay(poll.retries + 1)]
               /\ UNCHANGED <<stage, sentAt>>
    BY <1>6 DEF StatusAnswered
  <2>2. poll'.seen = poll.seen
    BY <2>1 DEF TypeInv
  <2>3. clock' = clock /\ tx' = tx /\ finalAt' = finalAt /\ stage = "polling"
    BY <1>6 DEF StatusAnswered
  <2>4. status \in Completed => tx = status
    BY <2>1
  <2>5. QED
    BY <2>1, <2>2, <2>3, <2>4 DEF Outcome, Returned
<1>7. CASE Decide
  BY <1>7 DEF Decide, TypeInv, Never
<1>8. CASE Tick
  BY <1>8 DEF Tick, TypeInv, Times, Never
<1>9. CASE UNCHANGED vars
  BY <1>9 DEF vars
<1>10. QED
  BY <1>1, <1>2, <1>3, <1>4, <1>5, <1>6, <1>7, <1>8, <1>9 DEF Next

LEMMA PollNext == TypeInv /\ StatusInv /\ PollInv /\ [Next]_vars => PollInv'
<1> SUFFICES ASSUME TypeInv, StatusInv, PollInv, [Next]_vars PROVE PollInv'
  OBVIOUS
<1>0. /\ clock \in Nat /\ sentAt \in Nat /\ poll.began \in Times /\ poll.due \in Times
      /\ poll.asked \in Times /\ finalAt \in Times
      /\ Latency \in Nat /\ Timeout \in Nat /\ MaxDelay \in Nat
  BY WalletAssumption DEF TypeInv
<1> USE DEF PollInv, Times, Never
<1>1. CASE Prepare
  BY <1>0, <1>1 DEF Prepare, StatusInv, Completed
<1>2. CASE PrepareFails \/ SubmitFails \/ StatusFails \/ DetailsAnswered
  BY <1>2 DEF PrepareFails, SubmitFails, StatusFails, DetailsAnswered
<1>3. CASE Accepted
  BY <1>3 DEF Accepted
<1>4. CASE Submitted
  <2>1. /\ stage' = "polling" /\ clock' = clock /\ finalAt' = finalAt /\ poll'.began = clock
        /\ poll'.due = clock /\ poll'.asked = Never /\ poll'.seen = "Unknown"
    BY <1>4 DEF Submitted, Unpolled
  <2>2. finalAt # Never => sentAt <= finalAt /\ clock <= sentAt + Latency
    BY <1>4 DEF Submitted
  <2>3. QED
    BY <1>0, <2>1, <2>2
<1>5. CASE DelayOver
  <2>1. /\ stage = "polling" /\ stage' = stage /\ clock' = clock /\ finalAt' = finalAt
        /\ poll.due = clock /\ poll'.began = poll.began /\ poll'.due = Never
        /\ poll'.asked = clock /\ poll'.seen = tx
    BY <1>5 DEF DelayOver, TypeInv
  <2>2. finalAt # Never => tx \in Completed
    BY DEF StatusInv
  <2>3. QED
    BY <1>0, <2>1, <2>2
<1>6. CASE StatusAnswered
  <2>1. PICK status \in {poll.seen, tx} :
          IF status \in Completed
          THEN stage' = Outcome(status) /\ sentAt' = clock /\ UNCHANGED poll
          ELSE /\ poll' = [poll EXCEPT !.asked = Never, !.retries = @ + 1,
                                       !.due = clock + Delay(poll.retries + 1)]
               /\ UNCHANGED <<stage, sentAt>>
    BY <1>6 DEF StatusAnswered
  <2>2. /\ clock' = clock /\ finalAt' = finalAt /\ stage = "polling" /\ poll.asked # Never
    BY <1>6 DEF StatusAnswered
  <2>3. CASE status \in Completed
    <3>1. stage' \in Completed \cup {"details", "success"}
      BY <2>1, <2>3 DEF Outcome, Returned
    <3>2. QED
      BY <3>1 DEF Completed
  <2>4. CASE status \notin Completed
    <3>1. /\ poll'.asked = Never /\ poll'.began = poll.began
          /\ poll'.due = clock + Delay(poll.retries + 1) /\ stage' = stage
      BY <2>1, <2>4 DEF TypeInv
    <3>2. Delay(poll.retries + 1) \in Nat /\ Delay(poll.retries + 1) <= MaxDelay
      BY DelayBounds DEF TypeInv
    <3>3. finalAt # Never => poll.asked <= finalAt
      BY <2>1, <2>2, <2>4 DEF StatusInv
    <3>4. QED
      BY <1>0, <2>2, <3>1, <3>2, <3>3
  <2>5. QED
    BY <2>3, <2>4
<1>7. CASE TimeoutPasses
  BY <1>0, <1>7 DEF TimeoutPasses
<1>8. CASE Decide
  <2>1. /\ clock' = clock /\ sentAt' = sentAt /\ stage' = stage /\ poll' = poll
        /\ finalAt' = clock /\ tx = "Pending"
    BY <1>8 DEF Decide
  <2>2. finalAt = Never
    BY <2>1 DEF StatusInv, Completed
  <2>3. QED
    BY <1>0, <2>1, <2>2
<1>9. CASE Tick
  <2>1. /\ clock' = clock + 1 /\ sentAt' = sentAt /\ stage' = stage /\ poll' = poll
        /\ finalAt' = finalAt
        /\ stage \in {"submitting", "details"} => clock < sentAt + Latency
        /\ stage = "polling" =>
             /\ clock < poll.began + Timeout
             /\ poll.due # Never => clock < poll.due
             /\ poll.asked # Never => clock < poll.asked + Latency
    BY <1>9 DEF Tick
  <2>2. QED
    BY <1>0, <2>1
<1>10. CASE UNCHANGED vars
  BY <1>10 DEF vars
<1>11. QED
  BY <1>1, <1>2, <1>3, <1>4, <1>5, <1>6, <1>7, <1>8, <1>9, <1>10 DEF Next

LEMMA SeenNext == IInv /\ [Next]_vars => SeenInTime'
<1> SUFFICES ASSUME IInv, [Next]_vars, stage' = "timeout", finalAt' # Never
             PROVE  finalAt' + MaxDelay + 2 * Latency >= poll'.began + Timeout
  BY DEF SeenInTime
<1>0. /\ clock \in Nat /\ poll.began \in Times /\ poll.due \in Times
      /\ poll.asked \in Times /\ finalAt \in Times
      /\ Latency \in Nat /\ Timeout \in Nat /\ MaxDelay \in Nat
  BY WalletAssumption DEF IInv, TypeInv
<1>1. CASE stage = "polling" /\ TimeoutPasses
  <2>1. clock = poll.began + Timeout /\ finalAt' = finalAt /\ poll' = poll
    BY <1>1 DEF TimeoutPasses
  <2>2. clock <= finalAt + Latency + MaxDelay + Latency
    BY <1>0, <1>1, <2>1 DEF IInv, PollInv, Times, Never
  <2>3. QED
    BY <1>0, <2>1, <2>2 DEF Times, Never
<1>2. CASE stage = "timeout" /\ Decide
  <2>1. finalAt' = clock /\ poll' = poll
    BY <1>2 DEF Decide
  <2>2. poll.began + Timeout <= clock
    BY <1>2 DEF IInv, PollInv
  <2>3. QED
    BY <1>0, <2>1, <2>2 DEF Times, Never
<1>3. CASE stage = "timeout" /\ finalAt' = finalAt /\ poll' = poll
  BY <1>3 DEF IInv, SeenInTime
<1>4. /\ stage # "timeout" => TimeoutPasses
      /\ stage = "timeout" => Decide \/ (finalAt' = finalAt /\ poll' = poll)
  <2>1. CASE StatusAnswered
    <3>1. stage = "polling" /\ stage' \in {stage} \cup Completed \cup {"details", "success"}
      BY <2>1 DEF StatusAnswered, Outcome, Returned
    <3>2. QED
      BY <3>1 DEF Completed
  <2>2. CASE ~StatusAnswered
    BY <2>2 DEF Next, vars, Prepare, PrepareFails, Accepted, Submitted, SubmitFails, DelayOver,
                StatusFails, TimeoutPasses, DetailsAnswered, Decide, Tick
  <2>3. QED
    BY <2>1, <2>2
<1>5. QED
  BY <1>1, <1>2, <1>3, <1>4 DEF TimeoutPasses

LEMMA Invariance == Spec => []IInv
<1>1. IInv /\ [Next]_vars => IInv'
  BY TypeNext, StatusNext, PollNext, SeenNext DEF IInv
<1>2. QED
  BY InitInv, <1>1, PTL DEF Spec

\* What sendTransactionManifest or deployPackage says of the transaction is true for good:
\* success is a commit, and an error that names a status, or one before the submission,
\* leaves nothing pending that could still be committed.
THEOREM OutcomeForGood == Spec => []OutcomesHold
<1>1. IInv => OutcomesHold
  BY DEF IInv, StatusInv, OutcomesHold, Completed
<1>2. QED
  BY Invariance, <1>1, PTL

\* The polling reports no timeout for a transaction that became final long enough before
\* it: one delay and two requests.
THEOREM FinalSeenInTime == Spec => []SeenInTime
<1>1. IInv => SeenInTime
  BY DEF IInv
<1>2. QED
  BY Invariance, <1>1, PTL
=============================================================================
