----------------------------- MODULE LedgerReads -----------------------------
(***************************************************************************)
(* What the packages read of a ledger that moves on while they do: the     *)
(* entries of a key-value store, the data of NFTs, the lending market, and *)
(* prices, interest curves and the staking rate.  The readers share        *)
(* nothing but the ledger, so one is followed at a time.                   *)
(***************************************************************************)
EXTENDS KeyValueStore, NftData, MarketQuotes

VARIABLES reader

vars == <<writes, storeVars, nft, market, quote, reader>>

Init ==
  /\ LedgerInit
  /\ StoreInit
  /\ NftInit
  /\ MarketInit
  /\ QuoteInit
  /\ reader \in {"store", "nft", "market", "quotes"}
  /\ reader # "nft" => nft.at = Live

\* A call of the market has not begun, or may still see the ledger move on.
CallGoesOn(c) ==
  \/ c.stage = "idle"
  \/ c.stage \in {"reading", "staked"} /\ Version < c.start + MaxWindow

Next ==
  \/ /\ reader = "store" /\ StoreStep
     /\ UNCHANGED <<writes, nft, market, quote, reader>>
  \/ /\ reader = "nft" /\ NftStep
     /\ UNCHANGED <<writes, storeVars, market, quote, reader>>
  \/ /\ reader = "market" /\ MarketStep
     /\ UNCHANGED <<writes, storeVars, nft, quote, reader>>
  \/ /\ reader = "quotes" /\ QuoteStep
     /\ UNCHANGED <<writes, storeVars, nft, market, reader>>
  \/ /\ Write
     /\ reader = "market" => CallGoesOn(market)
     /\ reader = "quotes" => CallGoesOn(quote)
     /\ UNCHANGED <<storeVars, nft, market, quote, reader>>

Spec == Init /\ [][Next]_vars
=============================================================================
