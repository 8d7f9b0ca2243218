------------------------------ MODULE Liquidator ------------------------------
(***************************************************************************)
(* services/liquidator behind its Lambda: messages of the liquidation      *)
(* queue are received in batches by containers, the records of a batch are *)
(* processed at once, and the names of those that failed are returned, for *)
(* SQS to deliver them again.  A container reads its secret once, when it  *)
(* starts; it may die at any moment.  Liquidating itself is yet to be      *)
(* written: a well-formed message is only logged.                          *)
(***************************************************************************)
EXTENDS Integers, FiniteSets

CONSTANTS
  Messages,    \* the messages of the queue
  BodyOf,      \* [message -> what its body is]
  Containers,  \* Lambda containers at work
  BatchSize,   \* records per invocation
  MaxFaults    \* bound: containers that die, messages that time out

Bodies == {"cdp", "empty", "notJson", "noCdpId", "null"}

ASSUME LiquidatorAssumption ==
  /\ BodyOf \in [Messages -> Bodies]
  /\ BatchSize \in Nat \ {0} /\ MaxFaults \in Nat

VARIABLES
  delivery,    \* [message -> "visible", "received" or "deleted"]
  container,   \* [container -> its env, and the invocation it runs]
  processed,   \* messages that were processed with success
  faults       \* of those, so far

liquidatorVars == <<delivery, container, processed, faults>>

\* env: cold, then envPromise pending, then the factory, with the secret or without it
\* running: an invocation; batch: its records; open: those not processed; failures:
\* batchItemFailures
Cold == [env |-> "cold", running |-> FALSE, batch |-> {}, open |-> {}, failures |-> {}]

LiquidatorInit ==
  /\ delivery = [m \in Messages |-> "visible"]
  /\ container = [c \in Containers |-> Cold]
  /\ processed = {}
  /\ faults = 0

-----------------------------------------------------------------------------
(* createEnvFactory *)

\* The module is loaded: a secret is asked for if its parameter is named.
StartContainer(c) ==
  /\ container[c].env = "cold"
  /\ \E env \in {"pending", "without"} : container' = [container EXCEPT ![c].env = env]
  /\ UNCHANGED <<delivery, processed, faults>>

\* SSM answers. An error is logged: the container stays without its secret for good.
EnvSettles(c) ==
  /\ container[c].env = "pending"
  /\ \E env \in {"with", "without"} : container' = [container EXCEPT ![c].env = env]
  /\ UNCHANGED <<delivery, processed, faults>>

-----------------------------------------------------------------------------
(* The handler *)

\* SQS invokes a container with a batch, message m among it; the handler awaits the env.
Handle(c, m) ==
  /\ container[c].env # "cold" /\ ~container[c].running
  /\ delivery[m] = "visible"
  /\ \E batch \in SUBSET {n \in Messages : delivery[n] = "visible"} :
       /\ m \in batch /\ Cardinality(batch) <= BatchSize
       /\ delivery' = [n \in Messages |-> IF n \in batch THEN "received" ELSE delivery[n]]
       /\ container' = [container EXCEPT
            ![c] = [env |-> container[c].env, running |-> TRUE, batch |-> batch,
                    open |-> batch, failures |-> {}]]
  /\ UNCHANGED <<processed, faults>>

\* processLiquidationMessage: what can never be processed counts as a success. A body
\* that is the JSON null is no payload: reading its runId throws.
Throws(m) == BodyOf[m] = "null"

\* Mutant: the exception is logged and no more
FailuresSwallowed(c, m) == container[c].failures

\* Mutant: an exception fails the whole batch
FailuresAll(c, m) == IF Throws(m) THEN container[c].batch ELSE container[c].failures

\* The handler's catch names the record.
Failures(c, m) == container[c].failures \cup (IF Throws(m) THEN {m} ELSE {})

ProcessRecord(c, m) ==
  /\ container[c].env \in {"with", "without"}
  /\ m \in container[c].open
  /\ container' = [container EXCEPT
       ![c].open = @ \ {m}, ![c].failures = Failures(c, m)]
  /\ processed' = IF Throws(m) THEN processed ELSE processed \cup {m}
  /\ UNCHANGED <<delivery, faults>>

\* The messages ms become visible again, but for those another invocation had deleted.
Reappear(ms) ==
  [m \in Messages |-> IF m \in ms /\ delivery[m] # "deleted" THEN "visible" ELSE delivery[m]]

\* All records are settled: SQS deletes those not named and delivers the others again.
Return(c) ==
  /\ container[c].running /\ container[c].open = {}
  /\ delivery' = [m \in Messages |-> IF m \in container[c].batch \ container[c].failures
                                 THEN "deleted" ELSE Reappear(container[c].failures)[m]]
  /\ container' = [container EXCEPT ![c] = [Cold EXCEPT !.env = container[c].env]]
  /\ UNCHANGED <<processed, faults>>

\* The container dies: all records of its batch become visible again.
Crash(c) ==
  /\ container[c].env # "cold"
  /\ faults < MaxFaults
  /\ faults' = faults + 1
  /\ delivery' = Reappear(container[c].batch)
  /\ container' = [container EXCEPT ![c] = Cold]
  /\ UNCHANGED processed

\* The visibility timeout of a message passes while its invocation runs on.
TimesOut(m) ==
  /\ delivery[m] = "received"
  /\ faults < MaxFaults
  /\ faults' = faults + 1
  /\ delivery' = Reappear({m})
  /\ UNCHANGED <<container, processed>>

LiquidatorNext ==
  \/ \E m \in Messages : TimesOut(m)
  \/ \E c \in Containers :
       \/ StartContainer(c) \/ EnvSettles(c) \/ Return(c) \/ Crash(c)
       \/ \E m \in Messages : Handle(c, m) \/ ProcessRecord(c, m)

LiquidatorSpec == LiquidatorInit /\ [][LiquidatorNext]_liquidatorVars

\* Lambda runs what it has started, SQS delivers what stays visible sooner or later; with
\* what else in a batch is its own choice.
LiquidatorFairSpec ==
  /\ LiquidatorSpec
  /\ \A c \in Containers :
       /\ WF_liquidatorVars(StartContainer(c)) /\ WF_liquidatorVars(EnvSettles(c))
       /\ WF_liquidatorVars(Return(c))
       /\ \A m \in Messages : WF_liquidatorVars(ProcessRecord(c, m))
  /\ \A m \in Messages : SF_liquidatorVars(\E c \in Containers : Handle(c, m))

-----------------------------------------------------------------------------

\* A message leaves the queue only when an invocation that returned processed it with
\* success: a record that throws stays, whichever containers die, and although a message
\* may be with two of them at once.
LeavesProcessed == \A m \in Messages : delivery[m] = "deleted" => m \in processed

\* Each message whose processing does not throw leaves the queue, in whatever batches
\* and with whichever failing records it is delivered.
HealthyLeave == \A m \in Messages : ~Throws(m) => <>(delivery[m] = "deleted")
=============================================================================
