-------------------------- MODULE CdpLookupProofs --------------------------
(***************************************************************************)
(* CdpLookup accounts for every CDP it is asked for, however many there    *)
(* are and however they fail.                                              *)
(***************************************************************************)
EXTENDS CdpLookup, FiniteSetTheorems, TLAPS

\* Only a range that has halves is ever bisected.
SplitInv == \A r \in Slices : stage[r] = "split" => r[2] - r[1] # 1

\* The two halves of a range of several CDPs are ranges, and share its CDPs out.
LEMMA Halves ==
  ASSUME NEW r \in Slices, r[2] - r[1] # 1
  PROVE  /\ Left(r) \in Slices /\ Right(r) \in Slices
         /\ Left(r) # r /\ Right(r) # r
         /\ Span(Left(r)) \cup Span(Right(r)) = Span(r)
         /\ Span(Left(r)) \cap Span(Right(r)) = {}
<1>1. PICK lo \in 0..Count, hi \in 0..Count : r = <<lo, hi>> /\ lo < hi
  BY DEF Slices
<1>2. lo \in Int /\ hi \in Int /\ Count \in Nat /\ hi - lo >= 2
  BY <1>1, CountAssumption
<1>3. lo < Mid(r) /\ Mid(r) < hi /\ Mid(r) \in Int
  BY <1>1, <1>2 DEF Mid
<1> DEFINE mid == Mid(r)
<1>4. Left(r) = <<lo, mid>> /\ Right(r) = <<mid, hi>>
  BY <1>1 DEF Left, Right
<1> HIDE DEF mid
<1>5. mid \in 0..Count /\ lo < mid /\ mid < hi
  BY <1>2, <1>3 DEF mid
<1>6. Left(r) \in Slices /\ Right(r) \in Slices
  BY <1>1, <1>4, <1>5 DEF Slices
<1>7. /\ Span(Left(r)) = (lo + 1)..mid
      /\ Span(Right(r)) = (mid + 1)..hi
      /\ Span(r) = (lo + 1)..hi
  BY <1>1, <1>4 DEF Span
<1>8. QED
  BY <1>1, <1>2, <1>4, <1>5, <1>6, <1>7

LEMMA SpanCdps ==
  ASSUME NEW r \in Slices
  PROVE  Span(r) \subseteq Cdps
BY CountAssumption DEF Slices, Span, Cdps

LEMMA BatchInSpan ==
  ASSUME NEW r \in Slices, NEW batch \in Batches(r)
  PROVE  batch \subseteq Span(r)
BY DEF Batches, Batch

\* What giving a range up does, in either case
LEMMA GiveUpEffect ==
  ASSUME TypeOK, NEW r \in Slices, GiveUp(r)
  PROVE  /\ stage' \in [Slices -> {"none", "fetching", "split", "finished"}]
         /\ out' \in [Slices -> FetchResult]
         /\ \A s \in Slices : stage'[s] = "finished" =>
              \/ stage[s] = "finished" /\ out'[s] = out[s]
              \/ s = r /\ out'[s] = [data |-> {}, failedIds |-> Span(r)]
         /\ SplitInv => SplitInv'
<1>1. CASE r[2] - r[1] = 1
  <2>1. [Nothing EXCEPT !.failedIds = Span(r)] = [data |-> {}, failedIds |-> Span(r)]
    BY DEF Nothing
  <2>2. [data |-> {}, failedIds |-> Span(r)] \in FetchResult
    BY SpanCdps DEF FetchResult
  <2>3. QED
    BY <1>1, <2>1, <2>2 DEF GiveUp, TypeOK, SplitInv
<1>2. CASE r[2] - r[1] # 1
  BY <1>2, Halves DEF GiveUp, TypeOK, SplitInv
<1>3. QED
  BY <1>1, <1>2

-----------------------------------------------------------------------------
(* Types *)

THEOREM TypeInv == Spec => [](TypeOK /\ SplitInv)
<1>1. Init => TypeOK /\ SplitInv
  BY BoundsAssumption DEF Init, TypeOK, SplitInv, FetchResult, Nothing
<1>2. TypeOK /\ SplitInv /\ [Next]_vars => TypeOK' /\ SplitInv'
  <2> SUFFICES ASSUME TypeOK, SplitInv, [Next]_vars PROVE TypeOK' /\ SplitInv'
    OBVIOUS
  <2>1. CASE Advance
    BY <2>1, BoundsAssumption DEF Advance, TypeOK, SplitInv
  <2>2. ASSUME NEW r \in Slices, NEW batch \in Batches(r), Preview(r, batch) PROVE TypeOK' /\ SplitInv'
    <3> DEFINE all == got[r] \cup (batch \X {version})
    <3>1. all \in SUBSET Pairs
      BY BatchInSpan, SpanCdps DEF TypeOK, Pairs
    <3>2. version' \in 1..MaxVersion /\ faults' \in 0..MaxFaults
      BY <2>2 DEF Preview, TypeOK
    <3>3. CASE Known(all) # Span(r)
      BY <2>2, <3>1, <3>2, <3>3 DEF Preview, TypeOK, SplitInv
    <3>4. CASE Known(all) = Span(r) /\ Span(r) \cap Undecodable = {}
      <4>1. [Nothing EXCEPT !.data = all] \in FetchResult
        BY <3>1 DEF FetchResult, Nothing
      <4>2. /\ got' = [got EXCEPT ![r] = {}]
            /\ out' = [out EXCEPT ![r] = [Nothing EXCEPT !.data = all]]
            /\ stage' = [stage EXCEPT ![r] = "finished"]
            /\ fetched' = fetched + Cardinality(all)
        BY <2>2, <3>4 DEF Preview, CountFetched
      <4>3. Cardinality(all) \in Nat
        <5>1. IsFiniteSet(Cdps) /\ IsFiniteSet(1..MaxVersion)
          BY FS_Interval, CountAssumption, BoundsAssumption DEF Cdps
        <5>2. IsFiniteSet(Pairs)
          BY <5>1, FS_Product DEF Pairs
        <5>3. IsFiniteSet(all)
          BY <3>1, <5>2, FS_Subset
        <5>4. QED
          BY <5>3, FS_CardinalityType
      <4>4. QED
        BY <3>2, <4>1, <4>2, <4>3 DEF TypeOK, SplitInv
    <3>5. CASE Known(all) = Span(r) /\ Span(r) \cap Undecodable # {}
      <4>1. GiveUp(r) /\ got' = [got EXCEPT ![r] = {}] /\ fetched' = fetched
        BY <2>2, <3>5 DEF Preview
      <4>2. QED
        BY <3>2, <4>1, GiveUpEffect DEF TypeOK
    <3>6. QED
      BY <3>3, <3>4, <3>5
  <2>3. ASSUME NEW r \in Slices, NEW batch \in Batches(r), PreviewFailed(r, batch)
        PROVE  TypeOK' /\ SplitInv'
    <3>1. GiveUp(r) /\ got' = [got EXCEPT ![r] = {}]
      BY <2>3 DEF PreviewFailed
    <3>2. faults' \in 0..MaxFaults /\ version' = version /\ fetched' = fetched
      BY <2>3, BoundsAssumption DEF PreviewFailed, TypeOK
    <3>3. QED
      BY <3>1, <3>2, GiveUpEffect DEF TypeOK
  <2>4. ASSUME NEW r \in Slices, Join(r) PROVE TypeOK' /\ SplitInv'
    <3>1. Left(r) \in Slices /\ Right(r) \in Slices
      BY <2>4, Halves DEF Join, SplitInv
    <3>2. Merge(out[Left(r)], out[Right(r)]) \in FetchResult
      BY <3>1 DEF Merge, TypeOK, FetchResult
    <3>3. QED
      BY <2>4, <3>2 DEF Join, TypeOK, SplitInv
  <2>5. CASE UNCHANGED vars
    BY <2>5 DEF vars, TypeOK, SplitInv
  <2>6. QED
    BY <2>1, <2>2, <2>3, <2>4, <2>5 DEF Next, Step
<1>3. QED
  BY <1>1, <1>2, PTL DEF Spec

\* Every variable keeps its type, for any number of CDPs, size of a preview and faults.
THEOREM TypeCorrect == Spec => []TypeOK
BY TypeInv, PTL

-----------------------------------------------------------------------------
(* Accounting *)

\* What a range's previews have answered so far: CDPs of the range, each once, and
\* none whose preview cannot succeed.
GotInv ==
  \A r \in Slices :
    /\ Known(got[r]) \subseteq Span(r)
    /\ Known(got[r]) \cap Poison = {}
    /\ \A x, y \in got[r] : x[1] = y[1] => x = y

\* A CDP that cannot be read is never in the data of a lookup that has returned.
BadFails ==
  \A r \in Slices : stage[r] = "finished" => Bad \cap Span(r) \subseteq out[r].failedIds

AInv == GotInv /\ Accounted /\ BadFails

\* A result that accounts for a range, as Accounted and BadFails have it
Accounts(o, r) ==
  /\ Known(o.data) \cup o.failedIds = Span(r)
  /\ Known(o.data) \cap o.failedIds = {}
  /\ \A x, y \in o.data : x[1] = y[1] => x = y
  /\ Bad \cap Span(r) \subseteq o.failedIds

LEMMA AllFailed ==
  ASSUME NEW r \in Slices
  PROVE  Accounts([data |-> {}, failedIds |-> Span(r)], r)
BY DEF Accounts, Known

\* The results of the halves, merged, account for the whole: no CDP is in both.
LEMMA MergeAccounts ==
  ASSUME NEW r \in Slices, r[2] - r[1] # 1, NEW a \in FetchResult, NEW b \in FetchResult,
         Accounts(a, Left(r)), Accounts(b, Right(r))
  PROVE  Accounts(Merge(a, b), r)
<1>1. Known(a.data \cup b.data) = Known(a.data) \cup Known(b.data)
  BY DEF Known
<1>2. /\ Span(Left(r)) \cup Span(Right(r)) = Span(r)
      /\ Span(Left(r)) \cap Span(Right(r)) = {}
  BY Halves
<1>3. Merge(a, b).data = a.data \cup b.data /\ Merge(a, b).failedIds = a.failedIds \cup b.failedIds
  BY DEF Merge
<1>4. ASSUME NEW x \in a.data \cup b.data, NEW y \in a.data \cup b.data, x[1] = y[1]
      PROVE  x = y
  <2>1. \A z \in a.data : z[1] \in Span(Left(r))
    BY DEF Accounts, Known
  <2>2. \A z \in b.data : z[1] \in Span(Right(r))
    BY DEF Accounts, Known
  <2>3. QED
    BY <1>2, <1>4, <2>1, <2>2 DEF Accounts
<1>5. QED
  BY <1>1, <1>2, <1>3, <1>4 DEF Accounts

\* Each returned lookup accounts for its CDPs, and the bad ones are among the failed.
THEOREM AccountInv == Spec => []AInv
<1>1. Init => AInv
  BY DEF Init, AInv, GotInv, Accounted, BadFails, Known
<1>2. TypeOK /\ SplitInv /\ AInv /\ [Next]_vars => AInv'
  <2> SUFFICES ASSUME TypeOK, SplitInv, AInv, [Next]_vars PROVE AInv'
    OBVIOUS
  <2> DEFINE Done == \A r \in Slices : stage[r] = "finished" => Accounts(out[r], r)
  <2>a. Done
    BY DEF AInv, Accounted, BadFails, Accounts
  <2>b. GotInv' /\ Done' => AInv'
    BY DEF AInv, Accounted, BadFails, Accounts
  <2>1. CASE UNCHANGED <<stage, got, out>>
    BY <2>1 DEF AInv, GotInv, Accounted, BadFails
  <2>2. ASSUME NEW r \in Slices, GiveUp(r), got' = [got EXCEPT ![r] = {}] PROVE AInv'
    <3>1. GotInv'
      BY <2>2 DEF AInv, GotInv, TypeOK, Known
    <3>2. Done'
      BY <2>2, <2>a, GiveUpEffect, AllFailed
    <3>3. QED
      BY <2>b, <3>1, <3>2
  <2>3. ASSUME NEW r \in Slices, NEW batch \in Batches(r), Preview(r, batch) PROVE AInv'
    <3> DEFINE all == got[r] \cup (batch \X {version})
    <3>1. /\ Known(all) \subseteq Span(r)
          /\ Known(all) \cap Poison = {}
          /\ \A x, y \in all : x[1] = y[1] => x = y
      <4>1. Known(got[r]) \subseteq Span(r) /\ Known(got[r]) \cap Poison = {}
        BY DEF AInv, GotInv
      <4>2. batch \subseteq Span(r) /\ batch \cap Poison = {} /\ batch \cap Known(got[r]) = {}
        BY <2>3, BatchInSpan DEF Preview
      <4>3. Known(all) \subseteq Known(got[r]) \cup batch
        BY DEF Known
      <4>4. ASSUME NEW x \in all, NEW y \in all, x[1] = y[1] PROVE x = y
        <5>1. CASE x \in got[r] /\ y \in got[r]
          BY <4>4, <5>1 DEF AInv, GotInv
        <5>2. CASE x \in batch \X {version} /\ y \in batch \X {version}
          BY <4>4, <5>2
        <5>3. \A z \in got[r] : z[1] \notin batch
          BY <4>2 DEF Known
        <5>4. QED
          BY <4>4, <5>1, <5>2, <5>3
      <4>5. QED
        BY <4>1, <4>2, <4>3, <4>4
    <3>2. CASE Known(all) # Span(r)
      <4>1. got' = [got EXCEPT ![r] = all] /\ UNCHANGED <<stage, out>>
        BY <2>3, <3>2 DEF Preview
      <4> HIDE DEF all
      <4>2. GotInv'
        BY <3>1, <4>1 DEF AInv, GotInv, TypeOK
      <4>3. QED
        BY <2>a, <2>b, <4>1, <4>2
    <3>3. CASE Known(all) = Span(r) /\ Span(r) \cap Undecodable = {}
      <4>1. /\ got' = [got EXCEPT ![r] = {}]
            /\ out' = [out EXCEPT ![r] = [Nothing EXCEPT !.data = all]]
            /\ stage' = [stage EXCEPT ![r] = "finished"]
        BY <2>3, <3>3 DEF Preview
      <4>2. [Nothing EXCEPT !.data = all] = [data |-> all, failedIds |-> {}]
        BY DEF Nothing
      <4> HIDE DEF all
      <4>3. Accounts([data |-> all, failedIds |-> {}], r)
        BY <3>1, <3>3 DEF Accounts, Bad
      <4>4. Done'
        BY <2>a, <4>1, <4>2, <4>3 DEF TypeOK
      <4>5. GotInv'
        BY <4>1 DEF AInv, GotInv, TypeOK, Known
      <4>6. QED
        BY <2>b, <4>4, <4>5
    <3>4. CASE Known(all) = Span(r) /\ Span(r) \cap Undecodable # {}
      BY <2>2, <2>3, <3>4 DEF Preview
    <3>5. QED
      BY <3>2, <3>3, <3>4
  <2>4. ASSUME NEW r \in Slices, NEW batch \in Batches(r), PreviewFailed(r, batch) PROVE AInv'
    BY <2>2, <2>4 DEF PreviewFailed
  <2>5. ASSUME NEW r \in Slices, Join(r) PROVE AInv'
    <3>1. r[2] - r[1] # 1 /\ Left(r) \in Slices /\ Right(r) \in Slices
      BY <2>5, Halves DEF Join, SplitInv
    <3>2. Accounts(Merge(out[Left(r)], out[Right(r)]), r)
      BY <2>5, <2>a, <3>1, MergeAccounts DEF Join, TypeOK
    <3>3. /\ stage' = [stage EXCEPT ![r] = "finished"]
          /\ out' = [out EXCEPT ![r] = Merge(out[Left(r)], out[Right(r)])]
          /\ got' = got
      BY <2>5 DEF Join
    <3>4. Done'
      BY <2>a, <3>2, <3>3 DEF TypeOK
    <3>5. GotInv'
      BY <3>3 DEF AInv, GotInv
    <3>6. QED
      BY <2>b, <3>4, <3>5
  <2>6. QED
    BY <2>1, <2>3, <2>4, <2>5 DEF Next, Step, Advance, vars
<1>3. QED
  BY <1>1, <1>2, TypeInv, PTL DEF Spec

\* However previews fail and the ledger moves, a lookup that has returned accounts for
\* each of its CDPs exactly once.
THEOREM AccountedFor == Spec => []Accounted
<1>1. AInv => Accounted
  BY DEF AInv
<1>2. QED
  BY <1>1, AccountInv, PTL

-----------------------------------------------------------------------------
(* The tree of ranges *)

\* A range whose previews are under way shares no CDP with another one, or with one that
\* has returned.
Apart(q, r) == q[2] <= r[1] \/ r[2] <= q[1]

TreeInv ==
  \A q, r \in Slices :
    q # r /\ stage[q] = "fetching" /\ stage[r] \in {"fetching", "finished"} => Apart(q, r)

LEMMA SliceBounds ==
  ASSUME NEW r \in Slices
  PROVE  r[1] \in Nat /\ r[2] \in Nat /\ r[1] < r[2] /\ r[2] <= Count /\ r = <<r[1], r[2]>>
BY CountAssumption DEF Slices

LEMMA ApartSpans ==
  ASSUME NEW q \in Slices, NEW r \in Slices, Apart(q, r)
  PROVE  Span(q) \cap Span(r) = {} /\ q # r
BY SliceBounds DEF Apart, Span

\* The middle of a range of several CDPs is within it.
LEMMA MidWithin ==
  ASSUME NEW r \in Slices, r[2] - r[1] # 1
  PROVE  /\ Mid(r) \in Nat /\ r[1] < Mid(r) /\ Mid(r) < r[2]
         /\ Left(r)[1] = r[1] /\ Left(r)[2] = Mid(r)
         /\ Right(r)[1] = Mid(r) /\ Right(r)[2] = r[2]
BY SliceBounds DEF Mid, Left, Right

\* Finishing keeps the tree, and so does halving.
LEMMA FinishTree ==
  ASSUME TypeOK, TreeInv, NEW r \in Slices, stage[r] = "fetching",
         stage' = [stage EXCEPT ![r] = "finished"]
  PROVE  TreeInv'
<1>1. \A s \in Slices : s # r => stage'[s] = stage[s]
  BY DEF TypeOK
<1>2. stage'[r] = "finished"
  BY DEF TypeOK
<1>3. QED
  BY <1>1, <1>2 DEF TreeInv

LEMMA SplitTree ==
  ASSUME TypeOK, TreeInv, NEW r \in Slices, r[2] - r[1] # 1, stage[r] = "fetching",
         stage' = [stage EXCEPT ![r] = "split", ![Left(r)] = "fetching",
                                ![Right(r)] = "fetching"]
  PROVE  TreeInv'
<1>1. /\ Left(r) \in Slices /\ Right(r) \in Slices /\ Left(r) # r /\ Right(r) # r
  BY Halves
<1>2. stage'[r] = "split"
  BY <1>1 DEF TypeOK
<1>3. \A s \in Slices : s # r /\ s # Left(r) /\ s # Right(r) => stage'[s] = stage[s]
  BY <1>1 DEF TypeOK
<1>4. ASSUME NEW q \in Slices, NEW s \in Slices, q # s,
             stage'[q] = "fetching", stage'[s] \in {"fetching", "finished"}
      PROVE  Apart(q, s)
  <2>1. q # r /\ s # r
    BY <1>2, <1>4
  <2>2. CASE q \in {Left(r), Right(r)} /\ s \in {Left(r), Right(r)}
    BY <1>1, <1>4, <2>2, MidWithin, SliceBounds DEF Apart
  <2>3. CASE q \in {Left(r), Right(r)} /\ s \notin {Left(r), Right(r)}
    <3>1. Apart(r, s)
      BY <1>3, <1>4, <2>1, <2>3 DEF TreeInv
    <3>2. QED
      BY <1>1, <2>3, <3>1, MidWithin, SliceBounds DEF Apart
  <2>4. CASE q \notin {Left(r), Right(r)} /\ s \in {Left(r), Right(r)}
    <3>1. Apart(q, r)
      BY <1>3, <1>4, <2>1, <2>4 DEF TreeInv
    <3>2. QED
      BY <1>1, <2>4, <3>1, MidWithin, SliceBounds DEF Apart
  <2>5. CASE q \notin {Left(r), Right(r)} /\ s \notin {Left(r), Right(r)}
    BY <1>3, <1>4, <2>1, <2>5 DEF TreeInv
  <2>6. QED
    BY <2>2, <2>3, <2>4, <2>5
<1>5. QED
  BY <1>4 DEF TreeInv, Apart

LEMMA JoinTree ==
  ASSUME TypeOK, SplitInv, TreeInv, NEW r \in Slices, Join(r)
  PROVE  TreeInv'
<1>1. /\ r[2] - r[1] # 1 /\ Left(r) \in Slices /\ Right(r) \in Slices
      /\ stage[r] = "split" /\ stage[Left(r)] = "finished" /\ stage[Right(r)] = "finished"
  BY Halves DEF Join, SplitInv
<1>2. stage'[r] = "finished" /\ \A s \in Slices : s # r => stage'[s] = stage[s]
  BY DEF Join, TypeOK
<1>3. ASSUME NEW q \in Slices, NEW s \in Slices, q # s,
             stage'[q] = "fetching", stage'[s] \in {"fetching", "finished"}
      PROVE  Apart(q, s)
  <2>1. q # r /\ stage[q] = "fetching"
    BY <1>2, <1>3
  <2>2. CASE s = r
    <3>1. q # Left(r) /\ q # Right(r)
      BY <1>1, <2>1
    <3>2. Apart(q, Left(r)) /\ Apart(q, Right(r))
      BY <1>1, <2>1, <3>1 DEF TreeInv
    <3>3. QED
      BY <1>1, <2>2, <3>2, MidWithin, SliceBounds DEF Apart
  <2>3. CASE s # r
    BY <1>2, <1>3, <2>1, <2>3 DEF TreeInv
  <2>4. QED
    BY <2>2, <2>3
<1>4. QED
  BY <1>3 DEF TreeInv, Apart

-----------------------------------------------------------------------------
(* Blame and progress *)

\* The healthy CDPs that have failed, each as a range of its own
Single(c) == <<c - 1, c>>
Lost == {c \in Cdps \ Bad : stage[Single(c)] = "finished" /\ c \in out[Single(c)].failedIds}

\* The data of all ranges that have returned
Loaded == UNION {out[r].data : r \in {s \in Slices : stage[s] = "finished"}}

\* There are as many as previews failed of themselves, at most, and no others are blamed.
BlameInv ==
  /\ Cardinality(Lost) <= faults
  /\ \A r \in Slices : stage[r] = "finished" => out[r].failedIds \ Bad \subseteq Lost

\* What has been counted is that data, and a range that has returned has its part of it.
LoadedInv ==
  /\ fetched = Cardinality(Loaded)
  /\ \A r \in Slices : stage[r] = "finished" =>
       \A x \in Loaded : x[1] \in Span(r) => x \in out[r].data

BInv == TreeInv /\ BlameInv /\ LoadedInv

LEMMA SingleSlice ==
  /\ \A c \in Cdps : Single(c) \in Slices /\ Span(Single(c)) = {c}
  /\ \A r \in Slices : r[2] - r[1] = 1 => r[2] \in Cdps /\ r = Single(r[2]) /\ Span(r) = {r[2]}
<1>1. ASSUME NEW c \in Cdps
      PROVE  Single(c) \in Slices /\ Span(Single(c)) = {c}
  <2>1. c \in Nat /\ c - 1 \in 0..Count /\ c \in 0..Count /\ c - 1 < c /\ (c - 1) + 1 = c
    BY CountAssumption DEF Cdps
  <2>2. QED
    BY <2>1 DEF Single, Slices, Span
<1>2. ASSUME NEW r \in Slices, r[2] - r[1] = 1
      PROVE  r[2] \in Cdps /\ r = Single(r[2]) /\ Span(r) = {r[2]}
  <2>1. r[1] = r[2] - 1 /\ r[1] + 1 = r[2] /\ r[2] \in 1..Count
    BY <1>2, SliceBounds, CountAssumption
  <2>2. QED
    BY <2>1, SliceBounds DEF Cdps, Single, Span
<1>3. QED
  BY <1>1, <1>2

LEMMA FiniteCdps == IsFiniteSet(Cdps) /\ IsFiniteSet(Pairs)
<1>1. IsFiniteSet(Cdps) /\ IsFiniteSet(1..MaxVersion)
  BY FS_Interval, CountAssumption, BoundsAssumption DEF Cdps
<1>2. QED
  BY <1>1, FS_Product DEF Pairs

LEMMA LoadedPairs ==
  ASSUME TypeOK
  PROVE  Loaded \in SUBSET Pairs
BY DEF TypeOK, FetchResult, Loaded

\* A range that decodes its data brings what nobody had: it is counted once.
LEMMA DecodeKeeps ==
  ASSUME TypeOK, AInv, BInv, NEW r \in Slices, NEW all \in SUBSET Pairs,
         stage[r] = "fetching", Known(all) = Span(r),
         stage' = [stage EXCEPT ![r] = "finished"],
         out' = [out EXCEPT ![r] = [data |-> all, failedIds |-> {}]],
         fetched' = fetched + Cardinality(all), faults' = faults
  PROVE  BlameInv' /\ LoadedInv'
<1>1. /\ stage'[r] = "finished" /\ out'[r].data = all /\ out'[r].failedIds = {}
      /\ \A s \in Slices : s # r => stage'[s] = stage[s] /\ out'[s] = out[s]
  BY DEF TypeOK
<1>2. Lost' = Lost
  <2>1. ASSUME NEW c \in Cdps \ Bad
        PROVE  (stage'[Single(c)] = "finished" /\ c \in out'[Single(c)].failedIds)
                 <=> (stage[Single(c)] = "finished" /\ c \in out[Single(c)].failedIds)
    BY <1>1, SingleSlice
  <2>2. QED
    BY <2>1 DEF Lost
<1>3. BlameInv'
  BY <1>1, <1>2 DEF BInv, BlameInv
<1>4. Loaded' = Loaded \cup all
  <2>1. \A s \in Slices : stage'[s] = "finished" <=> s = r \/ stage[s] = "finished"
    BY <1>1
  <2>2. ASSUME NEW x
        PROVE  x \in Loaded' <=> x \in Loaded \cup all
    <3>1. x \in Loaded' <=> \E s \in Slices : stage'[s] = "finished" /\ x \in out'[s].data
      BY DEF Loaded
    <3>2. x \in Loaded <=> \E s \in Slices : stage[s] = "finished" /\ x \in out[s].data
      BY DEF Loaded
    <3>3. QED
      BY <1>1, <2>1, <3>1, <3>2
  <2>3. QED
    BY <2>2
<1>5. \A s \in Slices : stage[s] = "finished" =>
        Span(s) \cap Span(r) = {} /\ Known(out[s].data) \subseteq Span(s)
  BY ApartSpans DEF BInv, TreeInv, AInv, Accounted, Apart
<1>6. \A x \in all : x[1] \in Span(r)
  BY DEF Known
<1>7. \A x \in Loaded : x[1] \notin Span(r)
  BY <1>5 DEF Loaded, Known
<1>8. LoadedInv'
  <2>1. Loaded \cap all = {}
    BY <1>6, <1>7
  <2>2. IsFiniteSet(Loaded) /\ IsFiniteSet(all)
    BY LoadedPairs, FiniteCdps, FS_Subset
  <2>3. Cardinality(Loaded \cup all) = Cardinality(Loaded) + Cardinality(all)
    <3>1. Cardinality(Loaded \cup all)
            = Cardinality(Loaded) + Cardinality(all) - Cardinality(Loaded \cap all)
      BY <2>2, FS_Union
    <3>2. Cardinality(Loaded \cap all) = 0
      BY <2>1, FS_EmptySet
    <3>3. Cardinality(Loaded) \in Nat /\ Cardinality(all) \in Nat
      BY <2>2, FS_CardinalityType
    <3>4. QED
      BY <3>1, <3>2, <3>3
  <2>4. ASSUME NEW s \in Slices, stage'[s] = "finished", NEW x \in Loaded', x[1] \in Span(s)
        PROVE  x \in out'[s].data
    <3>1. CASE s = r
      BY <1>1, <1>4, <1>7, <2>4, <3>1
    <3>2. CASE s # r
      <4>1. stage[s] = "finished" /\ x \in Loaded
        BY <1>1, <1>4, <1>5, <1>6, <2>4, <3>2
      <4>2. QED
        BY <1>1, <2>4, <3>2, <4>1 DEF BInv, LoadedInv
    <3>3. QED
      BY <3>1, <3>2
  <2>5. QED
    BY <1>4, <2>3, <2>4 DEF BInv, LoadedInv
<1>9. QED
  BY <1>3, <1>8

\* Giving up a single CDP is due to it or to a preview that failed of itself.
LEMMA GiveUpKeeps ==
  ASSUME TypeOK, AInv, BInv, NEW r \in Slices, stage[r] = "fetching", GiveUp(r),
         fetched' = fetched,
         (faults' = faults /\ Bad \cap Span(r) # {}) \/ faults' = faults + 1
  PROVE  BInv'
<1>1. faults \in Nat /\ faults' \in Nat /\ faults <= faults'
  BY BoundsAssumption DEF TypeOK
<1>2. Cardinality(Lost) \in Nat /\ IsFiniteSet(Lost)
  BY FiniteCdps, FS_Subset, FS_CardinalityType DEF Lost
<1>3. CASE r[2] - r[1] = 1
  <2>1. /\ stage' = [stage EXCEPT ![r] = "finished"]
        /\ out' = [out EXCEPT ![r] = [data |-> {}, failedIds |-> Span(r)]]
    BY <1>3 DEF GiveUp, Nothing
  <2>2. /\ stage'[r] = "finished" /\ out'[r].data = {} /\ out'[r].failedIds = Span(r)
        /\ \A s \in Slices : s # r => stage'[s] = stage[s] /\ out'[s] = out[s]
    BY <2>1 DEF TypeOK
  <2> DEFINE c == r[2]
  <2>3. c \in Cdps /\ r = Single(c) /\ Span(r) = {c}
    BY <1>3, SingleSlice
  <2> HIDE DEF c
  <2>4. Lost' = IF c \in Bad THEN Lost ELSE Lost \cup {c}
    <3>1. ASSUME NEW d \in Cdps \ Bad, d # c
          PROVE  (stage'[Single(d)] = "finished" /\ d \in out'[Single(d)].failedIds)
                   <=> (stage[Single(d)] = "finished" /\ d \in out[Single(d)].failedIds)
      <4>1. Single(d) # r /\ Single(d) \in Slices
        BY <2>3, <3>1, SingleSlice
      <4>2. QED
        BY <2>2, <4>1
    <3>2. stage'[Single(c)] = "finished" /\ c \in out'[Single(c)].failedIds
      BY <2>2, <2>3
    <3>3. QED
      BY <2>3, <3>1, <3>2 DEF Lost
  <2>5. Cardinality(Lost') <= faults'
    <3>1. CASE c \in Bad
      BY <1>1, <1>2, <2>4, <3>1 DEF BInv, BlameInv
    <3>2. CASE c \notin Bad
      <4>1. faults' = faults + 1
        BY <2>3, <3>2
      <4>2. Cardinality(Lost \cup {c}) = Cardinality(Lost)
              \/ Cardinality(Lost \cup {c}) = Cardinality(Lost) + 1
        <5>1. Cardinality(Lost \cup {c})
                = IF c \in Lost THEN Cardinality(Lost) ELSE Cardinality(Lost) + 1
          BY <1>2, FS_AddElement
        <5>2. QED
          BY <5>1
      <4>3. Cardinality(Lost') = Cardinality(Lost \cup {c})
        BY <2>4, <3>2
      <4>4. Cardinality(Lost) <= faults
        BY DEF BInv, BlameInv
      <4>5. QED
        BY <1>1, <1>2, <4>1, <4>2, <4>3, <4>4
    <3>3. QED
      BY <3>1, <3>2
  <2>6. \A s \in Slices : stage'[s] = "finished" => out'[s].failedIds \ Bad \subseteq Lost'
    <3>1. Lost \subseteq Lost' /\ {c} \ Bad \subseteq Lost'
      BY <2>4
    <3>2. QED
      BY <2>2, <2>3, <3>1 DEF BInv, BlameInv
  <2>7. Loaded' = Loaded
    <3>1. ASSUME NEW x
          PROVE  x \in Loaded' <=> x \in Loaded
      <4>1. x \in Loaded' <=> \E s \in Slices : stage'[s] = "finished" /\ x \in out'[s].data
        BY DEF Loaded
      <4>2. x \in Loaded <=> \E s \in Slices : stage[s] = "finished" /\ x \in out[s].data
        BY DEF Loaded
      <4>3. QED
        BY <2>2, <4>1, <4>2
    <3>2. QED
      BY <3>1
  <2>8. \A x \in Loaded : x[1] \notin Span(r)
    <3>1. \A s \in Slices : stage[s] = "finished" =>
            Span(s) \cap Span(r) = {} /\ Known(out[s].data) \subseteq Span(s)
      BY ApartSpans DEF BInv, TreeInv, AInv, Accounted, Apart
    <3>2. QED
      BY <3>1 DEF Loaded, Known
  <2>9. LoadedInv'
    BY <2>2, <2>7, <2>8 DEF BInv, LoadedInv
  <2>10. TreeInv'
    BY <2>1, FinishTree DEF BInv
  <2>11. QED
    BY <2>5, <2>6, <2>9, <2>10 DEF BInv, BlameInv
<1>4. CASE r[2] - r[1] # 1
  <2>1. /\ stage' = [stage EXCEPT ![r] = "split", ![Left(r)] = "fetching",
                                   ![Right(r)] = "fetching"]
        /\ out' = out
    BY <1>4 DEF GiveUp
  <2>2. /\ Left(r) \in Slices /\ Right(r) \in Slices /\ Left(r) # r /\ Right(r) # r
    BY <1>4, Halves
  <2>3. stage[Left(r)] # "finished" /\ stage[Right(r)] # "finished"
    <3>1. ~Apart(r, Left(r)) /\ ~Apart(r, Right(r))
      BY <1>4, MidWithin, SliceBounds DEF Apart
    <3>2. QED
      BY <2>2, <3>1 DEF BInv, TreeInv
  <2>4. \A s \in Slices : stage'[s] = "finished" <=> stage[s] = "finished"
    BY <2>1, <2>2, <2>3 DEF TypeOK
  <2>5. Lost' = Lost
    BY <2>1, <2>4, SingleSlice DEF Lost
  <2>6. Loaded' = Loaded
    BY <2>1, <2>4 DEF Loaded
  <2>7. BlameInv'
    <3>1. Cardinality(Lost') = Cardinality(Lost) /\ Cardinality(Lost) <= faults
      BY <2>5 DEF BInv, BlameInv
    <3>2. Cardinality(Lost') <= faults'
      BY <1>1, <1>2, <3>1
    <3>3. QED
      BY <2>1, <2>4, <2>5, <3>2 DEF BInv, BlameInv
  <2>8. LoadedInv'
    BY <2>1, <2>4, <2>6 DEF BInv, LoadedInv
  <2>9. TreeInv'
    BY <1>4, <2>1, SplitTree DEF BInv
  <2>10. QED
    BY <2>7, <2>8, <2>9 DEF BInv
<1>5. QED
  BY <1>3, <1>4

\* The halves' results, merged, are what was there.
LEMMA JoinKeeps ==
  ASSUME TypeOK, SplitInv, AInv, BInv, NEW r \in Slices, Join(r)
  PROVE  BInv'
<1>1. /\ r[2] - r[1] # 1 /\ Left(r) \in Slices /\ Right(r) \in Slices
      /\ Left(r) # r /\ Right(r) # r
      /\ stage[r] = "split" /\ stage[Left(r)] = "finished" /\ stage[Right(r)] = "finished"
  BY Halves DEF Join, SplitInv
<1> DEFINE merged == Merge(out[Left(r)], out[Right(r)])
<1>2. /\ stage'[r] = "finished" /\ out'[r] = merged
      /\ \A s \in Slices : s # r => stage'[s] = stage[s] /\ out'[s] = out[s]
      /\ UNCHANGED <<fetched, faults>>
  BY DEF Join, TypeOK
<1>3. /\ merged.data = out[Left(r)].data \cup out[Right(r)].data
      /\ merged.failedIds = out[Left(r)].failedIds \cup out[Right(r)].failedIds
  BY DEF Merge
<1> HIDE DEF merged
<1>4. Lost' = Lost
  <2>1. \A c \in Cdps : Single(c) \in Slices /\ Single(c) # r
    <3>1. \A c \in Cdps : Single(c)[2] - Single(c)[1] = 1
      BY CountAssumption DEF Single, Cdps
    <3>2. QED
      BY <1>1, <3>1, SingleSlice
  <2>2. QED
    BY <1>2, <2>1 DEF Lost
<1>5. BlameInv'
  BY <1>1, <1>2, <1>3, <1>4 DEF BInv, BlameInv
<1>6. Loaded' = Loaded
  <2>1. ASSUME NEW x
        PROVE  x \in Loaded' <=> x \in Loaded
    <3>1. x \in Loaded' <=> \E s \in Slices : stage'[s] = "finished" /\ x \in out'[s].data
      BY DEF Loaded
    <3>2. x \in Loaded <=> \E s \in Slices : stage[s] = "finished" /\ x \in out[s].data
      BY DEF Loaded
    <3>3. QED
      BY <1>1, <1>2, <1>3, <3>1, <3>2
  <2>2. QED
    BY <2>1
<1>7. ASSUME NEW s \in Slices, stage'[s] = "finished", NEW x \in Loaded, x[1] \in Span(s)
      PROVE  x \in out'[s].data
  <2>1. CASE s = r
    <3>1. x[1] \in Span(Left(r)) \/ x[1] \in Span(Right(r))
      BY <1>1, <1>7, <2>1, Halves
    <3>2. x \in out[Left(r)].data \/ x \in out[Right(r)].data
      BY <1>1, <3>1 DEF BInv, LoadedInv
    <3>3. QED
      BY <1>2, <1>3, <2>1, <3>2
  <2>2. CASE s # r
    BY <1>2, <1>7, <2>2 DEF BInv, LoadedInv
  <2>3. QED
    BY <2>1, <2>2
<1>8. LoadedInv'
  BY <1>2, <1>6, <1>7 DEF BInv, LoadedInv
<1>9. TreeInv'
  BY JoinTree DEF BInv
<1>10. QED
  BY <1>5, <1>8, <1>9 DEF BInv

\* Ranges under way and returned are apart, each healthy CDP that failed has a fault of
\* its own, and what was counted is what the returned ranges have.
THEOREM BlameAndProgressInv == Spec => []BInv
<1>1. Init => BInv
  <2> SUFFICES ASSUME Init PROVE BInv
    OBVIOUS
  <2>1. \A r \in Slices : stage[r] # "finished" /\ (stage[r] = "fetching" => r = Root)
    BY DEF Init
  <2>2. TreeInv
    BY <2>1 DEF TreeInv
  <2>3. Lost = {} /\ Loaded = {}
    BY <2>1, SingleSlice DEF Lost, Loaded
  <2>4. Cardinality({}) = 0
    BY FS_EmptySet
  <2>5. fetched = 0 /\ faults = 0
    BY DEF Init
  <2>6. BlameInv /\ LoadedInv
    BY <2>1, <2>3, <2>4, <2>5 DEF BlameInv, LoadedInv
  <2>7. QED
    BY <2>2, <2>6 DEF BInv
<1>2. TypeOK /\ SplitInv /\ AInv /\ BInv /\ [Next]_vars => BInv'
  <2> SUFFICES ASSUME TypeOK, SplitInv, AInv, BInv, [Next]_vars PROVE BInv'
    OBVIOUS
  <2>1. ASSUME UNCHANGED <<stage, out, fetched, faults>> PROVE BInv'
    <3>1. Lost' = Lost /\ Loaded' = Loaded
      BY <2>1 DEF Lost, Loaded
    <3>2. TreeInv'
      BY <2>1 DEF BInv, TreeInv
    <3>3. BlameInv' /\ LoadedInv'
      BY <2>1, <3>1 DEF BInv, BlameInv, LoadedInv
    <3>4. QED
      BY <3>2, <3>3 DEF BInv
  <2>2. ASSUME NEW r \in Slices, NEW batch \in Batches(r), Preview(r, batch) PROVE BInv'
    <3> DEFINE all == got[r] \cup (batch \X {version})
    <3>1. all \in SUBSET Pairs
      BY BatchInSpan, SpanCdps DEF TypeOK, Pairs
    <3>2. CASE Known(all) # Span(r)
      BY <2>1, <2>2, <3>2 DEF Preview
    <3>3. CASE Known(all) = Span(r) /\ Span(r) \cap Undecodable = {}
      <4>1. /\ out' = [out EXCEPT ![r] = [Nothing EXCEPT !.data = all]]
            /\ stage' = [stage EXCEPT ![r] = "finished"]
            /\ fetched' = fetched + Cardinality(all) /\ faults' = faults
            /\ stage[r] = "fetching"
        BY <2>2, <3>3 DEF Preview, CountFetched
      <4>2. [Nothing EXCEPT !.data = all] = [data |-> all, failedIds |-> {}]
        BY DEF Nothing
      <4> HIDE DEF all
      <4>3. out' = [out EXCEPT ![r] = [data |-> all, failedIds |-> {}]]
        BY <4>1, <4>2
      <4>4. BlameInv' /\ LoadedInv'
        BY <3>1, <3>3, <4>1, <4>3, DecodeKeeps
      <4>5. TreeInv'
        BY <4>1, FinishTree DEF BInv
      <4>6. QED
        BY <4>4, <4>5 DEF BInv
    <3>4. CASE Known(all) = Span(r) /\ Span(r) \cap Undecodable # {}
      <4>1. GiveUp(r) /\ fetched' = fetched /\ faults' = faults /\ stage[r] = "fetching"
        BY <2>2, <3>4 DEF Preview
      <4>2. Bad \cap Span(r) # {}
        BY <3>4, SpanCdps DEF Bad
      <4>3. QED
        BY <4>1, <4>2, GiveUpKeeps
    <3>5. QED
      BY <3>2, <3>3, <3>4
  <2>3. ASSUME NEW r \in Slices, NEW batch \in Batches(r), PreviewFailed(r, batch)
        PROVE  BInv'
    <3>1. GiveUp(r) /\ fetched' = fetched /\ stage[r] = "fetching"
      BY <2>3 DEF PreviewFailed
    <3>2. (faults' = faults /\ Bad \cap Span(r) # {}) \/ faults' = faults + 1
      <4>1. CASE batch \cap Poison # {}
        BY <2>3, <4>1, BatchInSpan, SpanCdps DEF PreviewFailed, Bad
      <4>2. CASE batch \cap Poison = {}
        BY <2>3, <4>2 DEF PreviewFailed
      <4>3. QED
        BY <4>1, <4>2
    <3>3. QED
      BY <3>1, <3>2, GiveUpKeeps
  <2>4. ASSUME NEW r \in Slices, Join(r) PROVE BInv'
    BY <2>4, JoinKeeps
  <2>5. QED
    BY <2>1, <2>2, <2>3, <2>4 DEF Next, Step, Advance, vars
<1>3. QED
  BY <1>1, <1>2, TypeInv, AccountInv, PTL DEF Spec

\* Bisection takes the blame to the CDPs it belongs to: a healthy CDP is among the failed
\* ids only for a preview of its own that failed.
THEOREM BlamedAlone == Spec => []BlameIsolated
<1>1. TypeOK /\ AInv /\ BInv => BlameIsolated
  <2> SUFFICES ASSUME TypeOK, AInv, BInv, NEW r \in Slices, stage[r] = "finished"
      PROVE  /\ Bad \cap Span(r) \subseteq out[r].failedIds
             /\ Cardinality(out[r].failedIds \ Bad) <= faults
    BY DEF BlameIsolated
  <2>1. Bad \cap Span(r) \subseteq out[r].failedIds
    BY DEF AInv, BadFails
  <2>2. IsFiniteSet(Lost)
    BY FiniteCdps, FS_Subset DEF Lost
  <2>3. out[r].failedIds \ Bad \in SUBSET Lost
    BY DEF BInv, BlameInv
  <2>4. Cardinality(out[r].failedIds \ Bad) <= Cardinality(Lost)
    BY <2>2, <2>3, FS_Subset
  <2>5. Cardinality(Lost) <= faults
    BY DEF BInv, BlameInv
  <2>6. /\ Cardinality(Lost) \in Nat /\ Cardinality(out[r].failedIds \ Bad) \in Nat
        /\ faults \in Nat
    BY <2>2, <2>3, FS_Subset, FS_CardinalityType, BoundsAssumption DEF TypeOK
  <2>7. QED
    BY <2>1, <2>4, <2>5, <2>6
<1>2. QED
  BY <1>1, TypeCorrect, AccountInv, BlameAndProgressInv, PTL

\* What onProgress has counted when the lookup returns is the number of its CDPs' data,
\* although ranges were read, given up and read again.
THEOREM ProgressAddsUp == Spec => []ProgressCounts
<1>1. TypeOK /\ BInv => ProgressCounts
  <2> SUFFICES ASSUME TypeOK, BInv, stage[Root] = "finished"
      PROVE  fetched = Cardinality(out[Root].data)
    BY DEF ProgressCounts
  <2>1. Root \in Slices /\ Span(Root) = Cdps
    BY CountAssumption DEF Root, Slices, Span, Cdps
  <2>2. \A x \in Loaded : x[1] \in Cdps
    BY LoadedPairs DEF Pairs
  <2>3. Loaded = out[Root].data
    BY <2>1, <2>2 DEF BInv, LoadedInv, Loaded
  <2>4. QED
    BY <2>3 DEF BInv, LoadedInv
<1>2. QED
  BY <1>1, TypeCorrect, BlameAndProgressInv, PTL
=============================================================================
