------------------------------- MODULE Ledger -------------------------------
(***************************************************************************)
(* The Radix ledger as the gateway shows it: a sequence of writes.  Each   *)
(* write is a new version, and a request is answered at a version it names *)
(* or at the latest one.                                                   *)
(***************************************************************************)
EXTENDS Integers, Sequences, FiniteSetsExt

CONSTANTS
  Keys,        \* what can be written: entries of a store, NFTs; in the gateway's order
  Initially,   \* the writes made before
  MaxWrites    \* bound: writes in all

ASSUME LedgerAssumption ==
  /\ Keys \subseteq Nat \ {0}
  /\ Initially \in Seq(Keys)
  /\ MaxWrites \in Nat /\ Len(Initially) \in 1..MaxWrites

VARIABLES writes

Live == 0      \* no ledger state selected; versions start at 1
Version == Len(writes)

\* What key k holds at version v: the write it was last set by, or 0 before the first.
ValueAt(k, v) == Max({0} \cup {i \in 1..v : writes[i] = k})
Present(v) == {k \in Keys : ValueAt(k, v) # 0}

\* The version a request for ledger state `at' is answered at
AnsweredAt(at) == IF at = Live THEN Version ELSE at

LedgerInit == writes = Initially

Write ==
  /\ Version < MaxWrites
  /\ \E k \in Keys : writes' = Append(writes, k)
=============================================================================
