-------------------------- MODULE MCMetadataService --------------------------
(* Two requests over three resources, two of them of one validator, in batches    *)
(* of two; entries expire after one tick of a clock of three.                       *)
EXTENDS MetadataService, TLC

CONSTANTS a, b
Symmetric == Permutations({a, b})

MCValidatorOf == (1 :> "v") @@ (2 :> "v")
MCAsks == {{1}, {1, 2, 3}}
=============================================================================
