---------------------------- MODULE MCDispatcher ----------------------------
(* Dispatcher on up to five CDPs listed in pages of three, two ids per message *)
(* and two entries per call: up to two batches a run, the last page, chunk and *)
(* batch partial, over two runs with two mints or burns in each listing.       *)
EXTENDS Dispatcher
=============================================================================
