--------------------------- MODULE MCResourceInfos ---------------------------
(* Three components and an address that may not exist, one component named      *)
(* twice, in batches of two; holdings of up to three pages, over two versions.  *)
EXTENDS ResourceInfos

MCInput == <<"market", "pool", "market", "vault", "ghost">>
MCUnsure == {"vault", "ghost"}
MCPages ==
  [market |-> [fungible    |-> <<{"xrd"}, {"lsu1"}, {"lsu2"}>>,
               nonFungible |-> <<{"claim1"}, {"badge"}>>],
   pool   |-> [fungible    |-> <<{"xrd", "lsu2"}>>,
               nonFungible |-> <<>>],
   vault  |-> [fungible    |-> <<{"usd"}, {"xrd"}>>,
               nonFungible |-> <<{"claim3", "badge"}>>],
   ghost  |-> [fungible |-> <<>>, nonFungible |-> <<>>]]
MCEmptied == {"xrd", "badge"}
MCValidatorOf == [lsu1 |-> "v1", lsu2 |-> "v2", claim1 |-> "v1", claim3 |-> "v3"]
=============================================================================
