------------------------------- MODULE NftData -------------------------------
(***************************************************************************)
(* packages/state-fetcher, fetchNftData: the data and locations of a list  *)
(* of NFTs, from its end in batches, skipping ids an earlier batch found.  *)
(***************************************************************************)
EXTENDS Ledger, SequencesExt

CONSTANTS
  NftIds,       \* the list, repetitions included
  NftBatch      \* ids per request, 99 in the code

ASSUME NftAssumption == NftIds \in Seq(Keys) /\ NftBatch \in Nat \ {0}

VARIABLES nft

\* stage: the call awaited; at: ledgerStateSelector; left: nftIdCount; batch: idsToLoad;
\* page: returnedResult; found: fetchedNftData. Of an NFT the versions are kept at which
\* its data (at) and its location (owner) were read.
NftInit ==
  \E at \in {Live} \cup 1..Version :
    nft = [stage |-> "data", at |-> at, left |-> Len(NftIds), batch |-> {},
           page |-> {}, found |-> <<>>]

LoadedIds(found) == {found[i].id : i \in DOMAIN found}

\* Mutant: ids already loaded are asked for again
IdsToLoadAll(n, found) == ToSet(SubSeq(NftIds, Max({0, n - NftBatch}) + 1, n))

\* The ids of the batch that ends at n which are not loaded
IdsToLoad(n, found) ==
  ToSet(SubSeq(NftIds, Max({0, n - NftBatch}) + 1, n)) \ LoadedIds(found)

\* Data of a batch is answered, once for each NFT the ledger has; a batch with nothing to load
\* is passed over.
GotNfts ==
  /\ nft.stage = "data"
  /\ LET batch == IdsToLoad(nft.left, nft.found)
         v == AnsweredAt(nft.at) IN
     nft' = IF nft.left = 0 THEN [nft EXCEPT !.stage = "done"]
            ELSE IF batch = {} THEN [nft EXCEPT !.left = Max({0, @ - NftBatch})]
            ELSE [nft EXCEPT !.stage = "locations", !.batch = batch,
                             !.left = Max({0, @ - NftBatch}),
                             !.page = {[id |-> i, at |-> v] : i \in batch \cap Present(v)}]

\* Mutant: locations without the selector
OwnerVersionLatest == Version

OwnerVersion == AnsweredAt(nft.at)

\* Their locations are answered.
GotLocations ==
  /\ nft.stage = "locations"
  /\ nft' = [nft EXCEPT
               !.stage = "data", !.page = {}, !.batch = {},
               !.found = @ \o SetToSeq({[id |-> p.id, at |-> p.at, owner |-> OwnerVersion] :
                                          p \in nft.page})]

NftFails ==
  /\ nft.stage \in {"data", "locations"}
  /\ nft' = [nft EXCEPT !.stage = "thrown"]

NftStep == GotNfts \/ GotLocations \/ NftFails

-----------------------------------------------------------------------------

\* The list answered has each NFT once that the ledger had all along, however often and
\* in whichever batches it was named; with a ledger state selected, data and location
\* are both of that state, and otherwise the location is no older than the data.
NftsOnce ==
  nft.stage = "done" =>
    /\ \A i, j \in DOMAIN nft.found : nft.found[i].id = nft.found[j].id => i = j
    /\ ToSet(NftIds) \cap Present(IF nft.at = Live THEN Len(Initially) ELSE nft.at)
         \subseteq LoadedIds(nft.found)
    /\ \A i \in DOMAIN nft.found :
         IF nft.at = Live THEN nft.found[i].at <= nft.found[i].owner
         ELSE nft.found[i].at = nft.at /\ nft.found[i].owner = nft.at
=============================================================================
