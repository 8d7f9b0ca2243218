------------------------------ MODULE CdpLookup ------------------------------
(***************************************************************************)
(* packages/weft-ledger-state, getMultipleCdp: the data of a list of CDPs. *)
(* The CDPs of a range are read by transaction previews of CdpPerBatch     *)
(* each, sent together.  When one preview fails, or an answer cannot be    *)
(* decoded, the range is given up and its two halves are looked up         *)
(* concurrently in the same way, down to a single CDP, which then counts   *)
(* as failed.  The ledger goes on meanwhile.  CDPs are named by their      *)
(* place in the list, 1..Count.                                            *)
(***************************************************************************)
EXTENDS Integers, FiniteSets

CONSTANTS
  Count,        \* how many ids are asked for
  CdpPerBatch,  \* CDPs per preview, 10 in the indexer
  Poison,       \* CDPs whose preview never succeeds
  Undecodable,  \* CDPs whose preview succeeds with data decodeCDP throws on
  MaxVersion,   \* bound: versions of the ledger
  MaxFaults     \* bound: previews that fail for reasons of their own

ASSUME CountAssumption == Count \in Nat \ {0} /\ CdpPerBatch \in Nat \ {0}
ASSUME BoundsAssumption == MaxVersion \in Nat \ {0} /\ MaxFaults \in Nat

Cdps == 1..Count
Bad == (Poison \cup Undecodable) \cap Cdps

VARIABLES
  version,  \* the ledger's version
  stage,    \* per range, how far its lookup has come
  got,      \* per range, the <<CDP, version>> pairs its previews have answered
  out,      \* per range, the FetchResult it returned
  fetched,  \* totalFetched, counted by the indexer's onProgress callback
  faults

vars == <<version, stage, got, out, fetched, faults>>

\* <<lo, hi>> is the slice of the CDPs after lo up to hi.
Slices == {r \in (0..Count) \X (0..Count) : r[1] < r[2]}
Root == <<0, Count>>
Span(r) == (r[1] + 1)..r[2]

Pairs == Cdps \X (1..MaxVersion)
FetchResult == [data : SUBSET Pairs, failedIds : SUBSET Cdps]
Nothing == [data |-> {}, failedIds |-> {}]

Known(pairs) == {x[1] : x \in pairs}

TypeOK ==
  /\ version \in 1..MaxVersion
  /\ stage \in [Slices -> {"none", "fetching", "split", "finished"}]
  /\ got \in [Slices -> SUBSET Pairs]
  /\ out \in [Slices -> FetchResult]
  /\ fetched \in Nat
  /\ faults \in 0..MaxFaults

Init ==
  /\ version = 1
  /\ stage = [r \in Slices |-> IF r = Root THEN "fetching" ELSE "none"]
  /\ got = [r \in Slices |-> {}]
  /\ out = [r \in Slices |-> Nothing]
  /\ fetched = 0
  /\ faults = 0

-----------------------------------------------------------------------------
\* A transaction on the ledger
Advance ==
  /\ version < MaxVersion
  /\ version' = version + 1
  /\ UNCHANGED <<stage, got, out, fetched, faults>>

\* The batches of a range
Batch(r, k) == {c \in Span(r) : (c - r[1] - 1) \div CdpPerBatch = k}
Batches(r) == {Batch(r, k) : k \in 0..((r[2] - r[1] - 1) \div CdpPerBatch)}

\* Mutant: the length is cut before it is halved, and a pair's right half is the pair
MidShort(r) == r[1] + (r[2] - r[1] - 1) \div 2

Mid(r) == r[1] + (r[2] - r[1]) \div 2
Left(r) == <<r[1], Mid(r)>>
Right(r) == <<Mid(r), r[2]>>

\* Mutant: pairs are not bisected any further
GiveUpPairs(r) ==
  IF r[2] - r[1] <= 2
  THEN /\ stage' = [stage EXCEPT ![r] = "finished"]
       /\ out' = [out EXCEPT ![r] = [Nothing EXCEPT !.failedIds = Span(r)]]
  ELSE /\ stage' = [stage EXCEPT ![r] = "split", ![Left(r)] = "fetching",
                                 ![Right(r)] = "fetching"]
       /\ UNCHANGED out

\* Mutant: the failed id is the one before the last of the range
GiveUpBefore(r) ==
  IF r[2] - r[1] = 1
  THEN /\ stage' = [stage EXCEPT ![r] = "finished"]
       /\ out' = [out EXCEPT ![r] = [Nothing EXCEPT !.failedIds = {r[1]}]]
  ELSE /\ stage' = [stage EXCEPT ![r] = "split", ![Left(r)] = "fetching",
                                 ![Right(r)] = "fetching"]
       /\ UNCHANGED out

\* The catch of cdpRecursiveIndexer
GiveUp(r) ==
  IF r[2] - r[1] = 1
  THEN /\ stage' = [stage EXCEPT ![r] = "finished"]
       /\ out' = [out EXCEPT ![r] = [Nothing EXCEPT !.failedIds = Span(r)]]
  ELSE /\ stage' = [stage EXCEPT ![r] = "split", ![Left(r)] = "fetching",
                                 ![Right(r)] = "fetching"]
       /\ UNCHANGED out

\* Mutant: the callback is told of each preview
CountPreviews(pairs, all) == fetched' = fetched + Cardinality(pairs)

\* The callback is told once all is decoded.
CountFetched(pairs, all) == fetched' = fetched + Cardinality(all)

\* A preview answers with its CDPs as the ledger has them. After the last one of its
\* range, all answers are decoded.
Preview(r, batch) ==
  /\ stage[r] = "fetching"
  /\ batch \cap Poison = {}
  /\ batch \cap Known(got[r]) = {}
  /\ LET pairs == batch \X {version}
         all == got[r] \cup pairs
     IN \/ /\ Known(all) # Span(r)
           /\ got' = [got EXCEPT ![r] = all]
           /\ UNCHANGED <<stage, out, fetched>>
        \/ /\ Known(all) = Span(r)
           /\ Span(r) \cap Undecodable = {}
           /\ got' = [got EXCEPT ![r] = {}]
           /\ out' = [out EXCEPT ![r] = [Nothing EXCEPT !.data = all]]
           /\ stage' = [stage EXCEPT ![r] = "finished"]
           /\ CountFetched(pairs, all)
        \/ /\ Known(all) = Span(r)
           /\ Span(r) \cap Undecodable # {}
           /\ got' = [got EXCEPT ![r] = {}]
           /\ GiveUp(r)
           /\ UNCHANGED fetched
  /\ UNCHANGED <<version, faults>>

\* Promise.all: the first preview to fail ends the range; the answers of the others
\* are dropped.
PreviewFailed(r, batch) ==
  /\ stage[r] = "fetching"
  /\ batch \cap Known(got[r]) = {}
  /\ IF batch \cap Poison # {} THEN UNCHANGED faults
     ELSE faults < MaxFaults /\ faults' = faults + 1
  /\ got' = [got EXCEPT ![r] = {}]
  /\ GiveUp(r)
  /\ UNCHANGED <<version, fetched>>

\* Mutant: the failed ids of the right half are lost
MergeLeftFailed(l, r) == [data |-> l.data \cup r.data, failedIds |-> l.failedIds]

Merge(l, r) == [data |-> l.data \cup r.data, failedIds |-> l.failedIds \cup r.failedIds]

\* Both halves have returned.
Join(r) ==
  /\ stage[r] = "split"
  /\ stage[Left(r)] = "finished" /\ stage[Right(r)] = "finished"
  /\ stage' = [stage EXCEPT ![r] = "finished"]
  /\ out' = [out EXCEPT ![r] = Merge(out[Left(r)], out[Right(r)])]
  /\ UNCHANGED <<version, got, fetched, faults>>

Step(r) ==
  \/ \E batch \in Batches(r) : Preview(r, batch) \/ PreviewFailed(r, batch)
  \/ Join(r)

Next == Advance \/ \E r \in Slices : Step(r)

Spec == Init /\ [][Next]_vars

\* Each preview is answered in the end, or fails.
FairSpec == Spec /\ \A r \in Slices : WF_vars(Step(r))

-----------------------------------------------------------------------------
(* Properties *)

\* A lookup that has returned accounts for each of its CDPs: it is in the data, once,
\* or it is a failed id, and not both; whatever failed on the way, and though what an
\* abandoned preview answered may have been read again at another version.
Accounted ==
  \A r \in Slices : stage[r] = "finished" =>
    /\ Known(out[r].data) \cup out[r].failedIds = Span(r)
    /\ Known(out[r].data) \cap out[r].failedIds = {}
    /\ \A x, y \in out[r].data : x[1] = y[1] => x = y

\* A CDP that cannot be read always ends up among the failed ids, and takes no other
\* with it: each healthy CDP among them is due to a fault of its own.
BlameIsolated ==
  \A r \in Slices : stage[r] = "finished" =>
    /\ Bad \cap Span(r) \subseteq out[r].failedIds
    /\ Cardinality(out[r].failedIds \ Bad) <= faults

\* The progress the indexer has logged at the end is what it got: data read for a range
\* that was then given up is not counted.
ProgressCounts == stage[Root] = "finished" => fetched = Cardinality(out[Root].data)

\* Every lookup returns.
Returns == <>(stage[Root] = "finished")
=============================================================================
