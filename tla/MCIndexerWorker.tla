--------------------------- MODULE MCIndexerWorker ---------------------------
(* Two workers; a chunk of two CDPs, a chunk with a poison CDP, and bodies that *)
(* hold no chunk. Each cfg takes the messages its question needs.               *)
EXTENDS IndexerWorker, TLC

CONSTANTS w1, w2, chunk, healthy, poisoned, junk, nul, c1, c2, c3, c4

MCKind == [m \in Messages |-> IF m = junk THEN "unreadable" ELSE IF m = nul THEN "null" ELSE "chunk"]
MCIdsOf == [m \in Messages |->
  CASE m = chunk -> {c1, c2} [] m = healthy -> {c3} [] m = poisoned -> {c3, c4} [] OTHER -> {}]
MCPoison == {c4}
MCCdpIds == {c1, c2, c3, c4}

\* Workers are alike when both may be stopped; so are the CDPs of the chunk.
Symmetry == Permutations(Workers) \cup Permutations({c1, c2})
=============================================================================
