---------------------------- MODULE AlertContract ----------------------------
(***************************************************************************)
(* What the indexer promises for a chunk of CDPs on its queue, whatever    *)
(* workers take it, lose it or crash with it: the chunk leaves the queue   *)
(* only after its data was put in the archive and every CDP that the       *)
(* attempt in charge of it found at risk was handed to the liquidation     *)
(* queue; and a CDP is handed over only after its chunk was archived.      *)
(***************************************************************************)
CONSTANTS
  Chunks,     \* the messages of the indexer queue
  Readable,   \* those that hold a list of CDP ids; the others are discarded
  CdpIds

VARIABLES
  open,       \* chunks on the queue, taken by a worker or not
  retired,    \* chunks removed from it
  verdict,    \* per chunk, what the attempt in charge of it has found
  archived,   \* chunks whose data was stored
  alerts      \* <<chunk, CDP id>> pairs handed to the liquidation queue

vars == <<open, retired, verdict, archived, alerts>>

Unknown == [known |-> FALSE, risky |-> {}]

Init ==
  /\ open = {}
  /\ retired = {}
  /\ verdict = [k \in Chunks |-> Unknown]
  /\ archived = {}
  /\ alerts = {}

Publish(k) ==
  /\ k \notin open \cup retired
  /\ open' = open \cup {k}
  /\ UNCHANGED <<retired, verdict, archived, alerts>>

\* The attempt in charge reads the chunk's CDPs and judges them.
Assess(k) ==
  /\ k \in Readable
  /\ \E risky \in SUBSET CdpIds :
       verdict' = [verdict EXCEPT ![k] = [known |-> TRUE, risky |-> risky]]
  /\ UNCHANGED <<open, retired, archived, alerts>>

\* Attempts end, or lose their claim: nothing is known of their chunks any more.
Forgets(ks) == verdict' = [k \in Chunks |-> IF k \in ks THEN Unknown ELSE verdict[k]]

Forget ==
  /\ \E ks \in SUBSET Chunks : Forgets(ks)
  /\ UNCHANGED <<open, retired, archived, alerts>>

\* A write that is answered by an error ends the attempt, and may have worked.
Archive(k) ==
  /\ archived' = archived \cup {k}
  /\ \E ks \in SUBSET {k} : Forgets(ks)
  /\ UNCHANGED <<open, retired, alerts>>

Alert(k) ==
  /\ k \in archived
  /\ \E risky \in SUBSET CdpIds : alerts' = alerts \cup ({k} \X risky)
  /\ \E ks \in SUBSET {k} : Forgets(ks)
  /\ UNCHANGED <<open, retired, archived>>

Settled(k) ==
  k \in Readable =>
    /\ verdict[k].known
    /\ k \in archived
    /\ {k} \X verdict[k].risky \subseteq alerts

Retire(k) ==
  /\ k \in open
  /\ Settled(k)
  /\ open' = open \ {k}
  /\ retired' = retired \cup {k}
  /\ Forgets({k})
  /\ UNCHANGED <<archived, alerts>>

Next ==
  \/ \E k \in Chunks : Publish(k) \/ Assess(k) \/ Archive(k) \/ Alert(k) \/ Retire(k)
  \/ Forget

Spec == Init /\ [][Next]_vars
=============================================================================
