---------------------------- MODULE MCLiquidator ----------------------------
(* Three messages, one of which throws, in batches of two over two containers.    *)
EXTENDS Liquidator

MCBodyOf == [m \in Messages |-> IF m = 1 THEN "null" ELSE IF m = 2 THEN "cdp" ELSE "noCdpId"]
=============================================================================
