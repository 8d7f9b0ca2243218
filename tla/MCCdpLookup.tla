---------------------------- MODULE MCCdpLookup ----------------------------
(* Seven CDPs in previews of two: four previews at the root, one of them short; *)
(* one CDP no preview can read and one that cannot be decoded, both in the left *)
(* half, so that the right one succeeds unless a preview fails by itself.       *)
EXTENDS CdpLookup
=============================================================================
