---------------------------- MODULE ResourceInfos ----------------------------
(***************************************************************************)
(* packages/weft-ledger-state, getResourceInfos: the resources components  *)
(* hold, in classes (liquid stake units and claim NFTs of validators, and  *)
(* others), on top of fetchEntityState.  One task per component asks for   *)
(* the validators' metadata; the tasks share one growing set of            *)
(* validators.  Pages of the holdings nobody waits for come in meanwhile.  *)
(***************************************************************************)
EXTENDS EntityState

CONSTANTS
  ValidatorOf   \* [LSUs and claim NFTs -> their validator]

VARIABLES
  infos,    \* [component -> its classes, and the resources given validator metadata]
  asked,    \* [component -> the validators its task asks for]
  pending   \* components whose task awaits its answer

vars == <<fetchVars, infos, asked, pending>>

Nothing == [fungible |-> {}, lsu |-> {}, nft |-> {}, claim |-> {}, enriched |-> {}]

\* native_resource_details is there when fetchResourceState was asked for the resource.
OfValidator(r, described) == r \in described /\ r \in DOMAIN ValidatorOf

\* The classes of what a component holds: nothing of amount zero, and no NFT whose ids
\* are not known, which come at vault level only.
Classes(holding, described) ==
  LET fungible == {r \in DOMAIN holding["fungible"].values :
                     Amount(r, holding["fungible"].at) # 0}
      nft == {r \in DOMAIN holding["nonFungible"].values :
                holding["nonFungible"].values[r].level = "Vault"} IN
  [Nothing EXCEPT
     !.fungible = {r \in fungible : ~OfValidator(r, described)},
     !.lsu = {r \in fungible : OfValidator(r, described)},
     !.nft = {r \in nft : ~OfValidator(r, described)},
     !.claim = {r \in nft : OfValidator(r, described)}]

Validators(info) == {ValidatorOf[r] : r \in info.lsu \cup info.claim}

\* Mutant: the task's request is made before its own validators are added to the set
AskedLate(list, i, info) ==
  UNION {Validators(info[list[j]]) : j \in 1 .. i - 1}

\* allValidatorAddressesSet when the i-th task makes its request: the tasks before it
\* have run up to theirs.
AskedBy(list, i, info) == UNION {Validators(info[list[j]]) : j \in 1..i}

\* fetchEntityState returns, and all tasks run up to their request for validators.
StartTasks ==
  /\ infos' = [e \in ToSet(states') |-> Classes(holdings'[e], known')]
  /\ asked' = [e \in ToSet(states') |->
                 LET i == CHOOSE j \in DOMAIN states' : states'[j] = e IN
                 AskedBy(states', i, infos')]
  /\ pending' = ToSet(states')

FetchStep ==
  /\ FetchEntities \/ DescribeResources \/ PageStep
  /\ IF stage # "described" /\ stage' = "described" THEN StartTasks
     ELSE UNCHANGED <<infos, asked, pending>>

\* The metadata of the validators a task asked for: each goes to the resource of each
\* class that is that validator's.
Enrich(e) ==
  /\ stage = "described"
  /\ e \in pending
  /\ infos' = [infos EXCEPT ![e].enriched =
                 {r \in infos[e].lsu \cup infos[e].claim : ValidatorOf[r] \in asked[e]}]
  /\ pending' = pending \ {e}
  /\ UNCHANGED <<fetchVars, asked>>

\* A task throws, and with it the call (Promise.all).
EnrichFails ==
  /\ stage = "described" /\ pending # {}
  /\ faults < MaxFaults
  /\ faults' = faults + 1
  /\ stage' = "thrown"
  /\ UNCHANGED <<absent, version, selector, from, holdings, states, wanted, known,
                 infos, asked, pending>>

Others == (LedgerMoves \/ CallFails) /\ UNCHANGED <<infos, asked, pending>>

Init == FetchInit /\ infos = <<>> /\ asked = <<>> /\ pending = {}

Next == FetchStep \/ (\E e \in Entities : Enrich(e)) \/ EnrichFails \/ Others

Spec == Init /\ [][Next]_vars

\* Every request is answered or fails; nothing is assumed of the ledger.
FairSpec ==
  /\ Spec
  /\ WF_vars((FetchEntities \/ DescribeResources) /\ FetchStep)
  /\ \A e \in Entities :
       /\ WF_vars(Enrich(e))
       /\ \A k \in Kinds : WF_vars((LoadPage(e, k) \/ PageFails(e, k)) /\ FetchStep)

TypeOK ==
  /\ absent \subseteq Unsure
  /\ version \in 1..MaxVersion
  /\ selector \in 0..MaxVersion
  /\ stage \in {"entities", "pages", "details", "described", "thrown"}
  /\ from \in 0..Len(Addresses)
  /\ \A e \in Entities, k \in Kinds :
       /\ holdings[e][k].loading \in 0..Len(Pages[e][k])
       /\ holdings[e][k].awaited => holdings[e][k].loading = 2
  /\ ToSet(states) \subseteq Existing
  /\ wanted \cup known \subseteq Resources
  /\ faults \in 0..MaxFaults
  /\ pending \subseteq DOMAIN infos

-----------------------------------------------------------------------------

Returned == stage = "described" /\ pending = {}

HeldOn(e, k, pages) ==
  {r \in UNION {Pages[e][k][p] : p \in pages \cap DOMAIN Pages[e][k]} :
     Amount(r, holdings[e][k].at) # 0}

EmptyBatch ==
  \E i \in 0 .. Len(Addresses) - 1 :
    /\ i % BatchSize = 0
    /\ ToSet(Chunk(Addresses, i)) \cap Existing = {}

\* What getResourceInfos answers: every component of the ledger, or nothing when one
\* batch had none of it. Of each, all fungibles of the two pages that are waited for and
\* all NFTs of the first are there, in their classes although pages come in while the
\* details are fetched; and all liquid stake units and claims have the metadata of their
\* validator, although the tasks share the set of validators.
AnswerWhole ==
  Returned =>
    IF EmptyBatch THEN DOMAIN infos = {}
    ELSE /\ DOMAIN infos = Existing
         /\ \A e \in Existing :
              /\ \A r \in HeldOn(e, "fungible", 1..2) :
                   IF r \in DOMAIN ValidatorOf THEN r \in infos[e].lsu
                   ELSE r \in infos[e].fungible
              /\ \A r \in HeldOn(e, "nonFungible", {1}) :
                   IF r \in DOMAIN ValidatorOf THEN r \in infos[e].claim
                   ELSE r \in infos[e].nft
              /\ infos[e].lsu \cup infos[e].claim \subseteq infos[e].enriched
=============================================================================
