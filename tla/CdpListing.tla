----------------------------- MODULE CdpListing -----------------------------
(***************************************************************************)
(* packages/weft-ledger-state, getCdpIds: lists the CDPs of the ledger.    *)
(* The ids come page by page, all pages at the version the first one was   *)
(* answered at; where the ids of a page are, and whether they are burned,  *)
(* is asked at the ledger as it is by then.  CDPs are minted and burned    *)
(* while this goes on.                                                     *)
(***************************************************************************)
EXTENDS Integers, Sequences, FiniteSets

CONSTANTS
  MaxCdps,        \* bound: CDPs ever minted; they are numbered in that order
  PageSize,       \* ids the gateway puts on a page
  MaxMoves        \* bound: mints and burns during one listing

ASSUME ListingAssumption ==
  MaxCdps \in Nat /\ PageSize \in Nat \ {0} /\ MaxMoves \in Nat

CdpIds == 1..MaxCdps

VARIABLES
  minted,   \* the ledger: how many CDPs have been minted
  burned,   \* the ledger: those that have been burned
  moves,    \* mints and burns since the listing began
  listing   \* the state of getCdpIds

listingVars == <<minted, burned, moves, listing>>

\* stage: the call awaited; pinned: at_ledger_state, as the number of CDPs minted by
\* then, or NotPinned; next: the ids of the pages read; page: the page whose locations
\* are asked; found: nonFungibleLocalIds; start: the ledger when the listing began.
NotPinned == -1

Ledger == [minted |-> minted, burned |-> burned]

Listing ==
  [stage : {"idle", "ids", "locations", "done"}, pinned : {NotPinned} \cup 0..MaxCdps,
   next : 0..MaxCdps, page : SUBSET CdpIds, found : Seq(CdpIds),
   start : [minted : 0..MaxCdps, burned : SUBSET CdpIds]]

ListingTypeOK ==
  /\ minted \in 0..MaxCdps
  /\ burned \subseteq 1..minted
  /\ moves \in 0..MaxMoves
  /\ listing \in Listing

Unlisted(stage) ==
  [stage |-> stage, pinned |-> NotPinned, next |-> 0, page |-> {}, found |-> <<>>,
   start |-> Ledger]

ListingInit ==
  /\ minted \in 0..MaxCdps
  /\ burned = {}
  /\ moves = 0
  /\ listing = Unlisted("idle")

Listed == listing.stage \in {"ids", "locations"}

StartListing ==
  /\ moves' = 0
  /\ listing' = Unlisted("ids")
  /\ UNCHANGED <<minted, burned>>

\* Someone mints or burns a CDP. Moves when nothing is being listed matter to nobody:
\* the listing reads the ledger as it finds it.
LedgerMoves ==
  /\ Listed
  /\ moves < MaxMoves
  /\ moves' = moves + 1
  /\ \/ minted < MaxCdps /\ minted' = minted + 1 /\ UNCHANGED burned
     \/ \E c \in (1..minted) \ burned : burned' = burned \cup {c} /\ UNCHANGED minted
  /\ UNCHANGED listing

PageEnd(from, last) == IF from + PageSize < last THEN from + PageSize ELSE last

\* A page of ids is answered: burned ids are on it as well.
ListPage ==
  /\ listing.stage = "ids"
  /\ LET version == IF listing.pinned = NotPinned THEN minted ELSE listing.pinned
         end == PageEnd(listing.next, version) IN
     listing' = [listing EXCEPT !.stage = "locations",
                                !.pinned = version,
                                !.page = listing.next + 1 .. end,
                                !.next = end]
  /\ UNCHANGED <<minted, burned, moves>>

\* Mutant: the flag returnBurntTokens the wrong way round
WantedBurned(c) == c \in burned

\* is_burned === returnBurntTokens, which the dispatcher sets to false
Wanted(c) == c \notin burned

\* Mutant: a last page that is full is taken for one with a successor's cursor, and the
\* page before it for the last
LoopsShort == listing.next + PageSize < listing.pinned

\* while (nextCursor)
Loops == listing.next < listing.pinned

\* The ids cs one after another, as the gateway orders them
InOrder(cs) ==
  {s \in [1..Cardinality(cs) -> cs] :
     /\ \A i, j \in DOMAIN s : i < j => s[i] < s[j]
     /\ \A c \in cs : \E i \in DOMAIN s : s[i] = c}

\* The locations of the page are answered: the loop goes on while there is a cursor.
LocatePage ==
  /\ listing.stage = "locations"
  /\ \E wanted \in InOrder({c \in listing.page : Wanted(c)}) :
       listing' = [listing EXCEPT !.found = @ \o wanted,
                                  !.page = {},
                                  !.stage = IF Loops THEN "ids" ELSE "done"]
  /\ UNCHANGED <<minted, burned, moves>>

-----------------------------------------------------------------------------

\* CDPs alive from the beginning of the listing on, and those gone when it began
AliveThroughout == (1..listing.start.minted) \ burned
GoneBefore == listing.start.burned
=============================================================================
