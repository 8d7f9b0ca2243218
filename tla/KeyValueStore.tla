---------------------------- MODULE KeyValueStore ----------------------------
(***************************************************************************)
(* packages/state-fetcher, KeyValueStore: the entries of a store, page by  *)
(* page.  A load asks for the next page's keys and then for their values;  *)
(* the cursor moves when the keys arrive.  Pages after the first are read  *)
(* at the version of the one before.  Several loads may be under way.      *)
(* Entries of the store are set by others, never removed.                  *)
(***************************************************************************)
EXTENDS Ledger, SequencesExt

CONSTANTS
  Calls,       \* the calls of a store's users that can be under way at once
  PageSize,    \* entries the gateway puts on a page
  MaxFaults    \* bound: requests that fail

ASSUME StoreAssumption == PageSize \in Nat \ {0} /\ MaxFaults \in Nat

VARIABLES
  values,      \* [key -> the write it was read from]
  cursor,      \* [cursor |-> last key of the page, or 0; stateVersion |-> its version]
  initialized,
  load,        \* [call -> where its loadValues is]
  selected,    \* the ledger state the last init() asked for
  lost,        \* a page's values could not be read after its keys were
  failures     \* requests failed so far

storeVars == <<values, cursor, initialized, load, selected, lost, failures>>

Idle == [stage |-> "idle", op |-> "init", at |-> Live, after |-> 0, keys |-> {}]
Quiet == \A c \in Calls : load[c].stage = "idle"

StoreInit ==
  /\ values = <<>>
  /\ cursor = [cursor |-> 0, stateVersion |-> 0]
  /\ initialized = FALSE
  /\ load = [c \in Calls |-> Idle]
  /\ selected = Live
  /\ lost = FALSE
  /\ failures = 0

HasMore == cursor.cursor # 0

\* init(): assumed of the application, as this repository does, that it does not
\* initialise a store it is loading
StartInit(c) ==
  /\ Quiet
  /\ \E at \in {Live} \cup 1..Version :
       /\ selected' = at
       /\ load' = [load EXCEPT ![c] = [Idle EXCEPT !.stage = "keys", !.at = at]]
  /\ values' = <<>>
  /\ cursor' = [cursor |-> 0, stateVersion |-> 0]
  /\ lost' = FALSE
  /\ UNCHANGED <<initialized, failures>>

\* Mutant: the version of the cursor is not used
PinnedLive == Live

\* at_ledger_state of a load without a selector: the cursor's version
Pinned == cursor.stateVersion

\* loadMore(): returns at once when there is no more
StartLoadMore(c) ==
  /\ load[c].stage = "idle"
  /\ HasMore
  /\ load' = [load EXCEPT ![c] = [Idle EXCEPT !.stage = "keys", !.op = "more",
                                              !.at = Pinned, !.after = cursor.cursor]]
  /\ UNCHANGED <<values, cursor, initialized, selected, lost, failures>>

PageAfter(after, v) ==
  LET rest == {k \in Present(v) : k > after} IN
  {k \in rest : Cardinality({j \in rest : j <= k}) <= PageSize}

NextCursor(page, v) ==
  IF page # {} /\ (\E k \in Present(v) : k > Max(page)) THEN Max(page) ELSE 0

Ended(c, l) == [l EXCEPT ![c] = Idle]

\* The keys of a page are answered: without any the load is done.
GotKeys(c) ==
  /\ load[c].stage = "keys"
  /\ LET v == AnsweredAt(load[c].at)
         page == PageAfter(load[c].after, v) IN
     /\ cursor' = [cursor |-> NextCursor(page, v), stateVersion |-> v]
     /\ load' = IF page = {} THEN Ended(c, load)
                ELSE [load EXCEPT ![c].stage = "data", ![c].keys = page]
     /\ initialized' = (initialized \/ (page = {} /\ load[c].op = "init"))
  /\ UNCHANGED <<values, selected, lost, failures>>

\* Mutant: the values are read at the latest version, whatever was selected
DataVersionLatest(c) == Version

\* The values are asked for with the at_ledger_state of the keys' request.
DataVersion(c) == AnsweredAt(load[c].at)

\* Mutant: the page replaces the values
MergeReplacing(page) == page

Merge(page) ==
  [k \in DOMAIN page \cup DOMAIN values |-> IF k \in DOMAIN page THEN page[k] ELSE values[k]]

GotData(c) ==
  /\ load[c].stage = "data"
  /\ values' = Merge([k \in load[c].keys |-> ValueAt(k, DataVersion(c))])
  /\ load' = Ended(c, load)
  /\ initialized' = (initialized \/ load[c].op = "init")
  /\ UNCHANGED <<cursor, selected, lost, failures>>

\* A request fails, and the call with it. When it is the one for the values, the cursor
\* has moved past them.
LoadFails(c) ==
  /\ load[c].stage # "idle"
  /\ failures < MaxFaults
  /\ failures' = failures + 1
  /\ lost' = (lost \/ load[c].stage = "data")
  /\ load' = Ended(c, load)
  /\ UNCHANGED <<values, cursor, initialized, selected>>

StoreStep ==
  \E c \in Calls :
    StartInit(c) \/ StartLoadMore(c) \/ GotKeys(c) \/ GotData(c) \/ LoadFails(c)

-----------------------------------------------------------------------------

\* What is in the store's values is of the version the loads were pinned to: exactly, when
\* init() was given a ledger state; otherwise the first page may be newer than its keys,
\* but nothing is older.
ValuesOfVersion ==
  \A k \in DOMAIN values :
    IF selected # Live THEN values[k] = ValueAt(k, selected)
    ELSE cursor.stateVersion # 0 => values[k] >= ValueAt(k, cursor.stateVersion)

\* A store that says it is initialised and has no more holds every entry of its version,
\* once its loads have ended, whatever the order of their answers - unless a page's
\* values were lost, after which nothing tells.
StoreWhole ==
  initialized /\ ~HasMore /\ Quiet /\ ~lost
    => Present(cursor.stateVersion) \subseteq DOMAIN values
=============================================================================
