-------------------------- MODULE TransactionWallet --------------------------
(***************************************************************************)
(* packages/typescript-wallet: a manifest is made a transaction valid for  *)
(* two epochs, submitted once, and its status polled with a growing delay  *)
(* until it is final or a timeout passes; a deployment then asks for the   *)
(* details of the commit.  Meanwhile the ledger commits the transaction,   *)
(* rejects it, or lets it expire.  Time is in seconds.                     *)
(***************************************************************************)
EXTENDS Integers

CONSTANTS
  Interval, Multiplier, MaxDelay, Timeout,  \* of pollTransactionStatus: 1, 2, 5 and 60
  Latency,      \* a request is answered within, or fails
  EpochLength,  \* of the ledger
  MaxTime       \* bound: the clock

ASSUME WalletAssumption ==
  /\ Interval \in Nat \ {0} /\ Multiplier \in Nat \ {0} /\ MaxDelay \in Nat
  /\ Timeout \in Nat \ {0} /\ Latency \in Nat /\ EpochLength \in Nat \ {0} /\ MaxTime \in Nat

VARIABLES
  clock,
  job,          \* what it is for: sendTransactionManifest or deployPackage
  stage,        \* the call awaited, or how it all ended
  sentAt,       \* when that call was made
  endEpoch,     \* endEpochExclusive of the transaction's header
  poll,         \* the polling
  tx,           \* the ledger's status of the transaction
  finalAt       \* when it became final

vars == <<clock, job, stage, sentAt, endEpoch, poll, tx, finalAt>>

Never == -1

\* Stages: preparing, submitting, polling, details; then success, an error that is a status
\* of the transaction, or timeout, notSubmitted, submitError, statusError, detailsError.

\* began: when it began; retries: numberOfRetries; due: when the delay is over; asked: when
\* the status was asked for, and what it was by then
Unpolled == [began |-> Never, retries |-> 0, due |-> Never, asked |-> Never, seen |-> "Unknown"]

Init ==
  /\ clock = 0
  /\ job \in {"send", "deploy"}
  /\ stage = "preparing"
  /\ sentAt = 0
  /\ endEpoch = 0
  /\ poll = Unpolled
  /\ tx = "Unknown"
  /\ finalAt = Never

Epoch == clock \div EpochLength

-----------------------------------------------------------------------------
(* Before polling *)

\* The manifest is converted, the epoch asked for, the transaction built; it goes out.
Prepare ==
  /\ stage = "preparing"
  /\ endEpoch' = Epoch + 2
  /\ stage' = "submitting"
  /\ sentAt' = clock
  /\ UNCHANGED <<clock, job, poll, tx, finalAt>>

PrepareFails ==
  /\ stage = "preparing"
  /\ stage' = "notSubmitted"
  /\ UNCHANGED <<clock, job, sentAt, endEpoch, poll, tx, finalAt>>

\* The gateway has got the transaction, at the latest after its caller gave up on it.
Accepted ==
  /\ stage \in {"submitting", "submitError"} /\ tx = "Unknown"
  /\ tx' = "Pending"
  /\ UNCHANGED <<clock, job, stage, sentAt, endEpoch, poll, finalAt>>

\* The submission is answered, and polling begins with a delay of 0.
Submitted ==
  /\ stage = "submitting" /\ tx # "Unknown"
  /\ stage' = "polling"
  /\ poll' = [Unpolled EXCEPT !.began = clock, !.due = clock]
  /\ UNCHANGED <<clock, job, sentAt, endEpoch, tx, finalAt>>

\* The submission fails, before the gateway got it or after.
SubmitFails ==
  /\ stage = "submitting"
  /\ stage' = "submitError"
  /\ UNCHANGED <<clock, job, sentAt, endEpoch, poll, tx, finalAt>>

-----------------------------------------------------------------------------
(* pollTransactionStatus and getExponentialBackoff *)

\* Mutant: the delay without its maximum
DelayUncapped(retries) == retries * Interval * Multiplier

Delay(retries) ==
  IF retries * Interval * Multiplier > MaxDelay THEN MaxDelay
  ELSE retries * Interval * Multiplier

\* The delay is over: the status is asked for.
DelayOver ==
  /\ stage = "polling"
  /\ poll.due = clock
  /\ poll' = [poll EXCEPT !.due = Never, !.asked = clock, !.seen = tx]
  /\ UNCHANGED <<clock, job, stage, sentAt, endEpoch, tx, finalAt>>

Completed == {"CommittedSuccess", "CommittedFailure", "Rejected"}

Returned == IF job = "deploy" THEN "details" ELSE "success"

\* Mutant: every completed status resolves
OutcomeAny(status) == Returned

\* What polling returns for a completed status: any but success is an error, the status.
Outcome(status) == IF status = "CommittedSuccess" THEN Returned ELSE status

\* The status is answered, as it was when asked for or as it is now: it is final, or the
\* next delay begins.
StatusAnswered ==
  /\ stage = "polling"
  /\ poll.asked # Never
  /\ \E status \in {poll.seen, tx} :
       IF status \in Completed
       THEN stage' = Outcome(status) /\ sentAt' = clock /\ UNCHANGED poll
       ELSE /\ poll' = [poll EXCEPT !.asked = Never, !.retries = @ + 1,
                                    !.due = clock + Delay(poll.retries + 1)]
            /\ UNCHANGED <<stage, sentAt>>
  /\ UNCHANGED <<clock, job, endEpoch, tx, finalAt>>

\* A failed request for the status ends the polling.
StatusFails ==
  /\ stage = "polling"
  /\ poll.asked # Never
  /\ stage' = "statusError"
  /\ UNCHANGED <<clock, job, sentAt, endEpoch, poll, tx, finalAt>>

\* The timeout passes; an answer under way is dropped (switchMap).
TimeoutPasses ==
  /\ stage = "polling"
  /\ clock = poll.began + Timeout
  /\ stage' = "timeout"
  /\ UNCHANGED <<clock, job, sentAt, endEpoch, poll, tx, finalAt>>

\* getCommittedDetails, of a deployment; it may fail for all the commit.
DetailsAnswered ==
  /\ stage = "details"
  /\ stage' \in {"success", "detailsError"}
  /\ UNCHANGED <<clock, job, sentAt, endEpoch, poll, tx, finalAt>>

-----------------------------------------------------------------------------
(* Environment *)

\* The ledger decides on the transaction: it commits it while it is valid, or rejects it,
\* as it does once it has expired.
Decide ==
  /\ tx = "Pending"
  /\ tx' \in {"Rejected"} \cup
       (IF Epoch < endEpoch THEN {"CommittedSuccess", "CommittedFailure"} ELSE {})
  /\ finalAt' = clock
  /\ UNCHANGED <<clock, job, stage, sentAt, endEpoch, poll>>

\* Time passes, but for no timer that is due and no answer that is late.
Tick ==
  /\ stage # "preparing"
  /\ clock < MaxTime
  /\ stage \in {"submitting", "details"} => clock < sentAt + Latency
  /\ stage = "polling" =>
       /\ clock < poll.began + Timeout
       /\ poll.due # Never => clock < poll.due
       /\ poll.asked # Never => clock < poll.asked + Latency
  /\ clock' = clock + 1
  /\ UNCHANGED <<job, stage, sentAt, endEpoch, poll, tx, finalAt>>

Next ==
  \/ Prepare \/ PrepareFails \/ Accepted \/ Submitted \/ SubmitFails
  \/ DelayOver \/ StatusAnswered \/ StatusFails \/ TimeoutPasses \/ DetailsAnswered
  \/ Decide \/ Tick

Spec == Init /\ [][Next]_vars

-----------------------------------------------------------------------------

\* How it ends is true for good, whatever the ledger does afterwards: success is a commit,
\* and after an error that names a status, or one before the submission, the transaction
\* will never be committed with success, so that the manifest may be sent again. The
\* other errors (timeout, failed requests) promise nothing.
OutcomesHold ==
  /\ stage = "success" => tx = "CommittedSuccess"
  /\ stage \in Completed \cup {"notSubmitted"} =>
       tx \notin {"Pending", "CommittedSuccess"}

\* A transaction that is final early enough is not reported as timed out: the delay and
\* two requests fit into the time that is left.
SeenInTime ==
  stage = "timeout" /\ finalAt # Never =>
    finalAt + MaxDelay + 2 * Latency >= poll.began + Timeout
=============================================================================
