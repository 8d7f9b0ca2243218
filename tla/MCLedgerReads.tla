---------------------------- MODULE MCLedgerReads ----------------------------
(* Three entries or NFTs, five writes of which two are there at the start, two    *)
(* entries a page and two calls at once; a list of NFTs with repetitions, in       *)
(* batches of two; a market that is short of a config and of a pool, becomes       *)
(* whole, then gets a pool this release does not know and outgrows a page; prices  *)
(* asked for in batches of two.                                                    *)
EXTENDS LedgerReads

CONSTANTS a, b

MCInitially == <<1, 3>>
MCNftIds == <<1, 2, 1, 3, 2>>

Entry(loan, collateral, groups) == [loan |-> loan, collateral |-> collateral, groups |-> groups]

Short ==
  [component |-> 10,
   resources |-> (11 :> Entry(1, 0, {}) @@ 12 :> Entry(0, 1, {7})),
   loanConfigs |-> (1 :> "loan1"),
   collateralConfigs |-> (1 :> "collateral1"),
   groups |-> (7 :> 2),
   loanServices |-> (Global :> "on" @@ 11 :> "on"),
   collateralServices |-> (GlobalLSU :> "on" @@ GlobalNFT :> "off" @@ 12 :> "on"),
   poolServices |-> (Global :> "on" @@ 11 :> "off"),
   pools |-> (11 :> "pool1"),
   prices |-> (11 :> 2 @@ 13 :> 3),
   models |-> (1 :> <<[usage |-> 0, rate |-> 1, slop |-> 2]>>),
   staked |-> 0]

\* The collateral config the group names, and the missing pool, are there.
Whole ==
  [Short EXCEPT !.collateralConfigs = (1 :> "collateral1" @@ 2 :> "collateral2"),
                !.pools = (11 :> "pool1" @@ 13 :> "pool3"),
                !.staked = 4,
                !.models = @ @@ (2 :> <<[usage |-> 0, rate |-> 0, slop |-> 1],
                                        [usage |-> 4, rate |-> 4, slop |-> 3],
                                        [usage |-> 7, rate |-> 13, slop |-> 0]>>)]

\* Changes that belong together: a resource and its loan config
Extended ==
  [Whole EXCEPT !.component = 11,
                !.resources = @ @@ (13 :> Entry(2, 1, {7, 8})),
                !.loanConfigs = (1 :> "loan1'" @@ 2 :> "loan2"),
                !.groups = @ @@ (8 :> 1),
                !.pools = (11 :> "pool1'" @@ 13 :> "pool3'"),
                !.prices = (11 :> 4 @@ 13 :> 3 @@ 20 :> 5),
                !.staked = 0]

Grown ==
  [Extended EXCEPT !.pools = @ @@ (14 :> "pool4"),
                   !.models = @ @@ (3 :> <<>>),
                   !.staked = 6]

Overgrown ==
  [Grown EXCEPT !.collateralConfigs = (0 :> "c0" @@ 1 :> "c1" @@ 2 :> "c2" @@ 3 :> "c3"),
                !.groups = @ @@ (9 :> 3),
                !.pools = (11 :> "pool1''" @@ 13 :> "pool3'" @@ 14 :> "pool4"),
                !.prices = (11 :> 1 @@ 12 :> 6 @@ 13 :> 3 @@ 20 :> 5),
                !.resources = @ @@ (14 :> Entry(0, 3, {9}))]

\* Every pool the staking rate takes has deposits at the last version only.
MCPoolStats ==
  [s \in {"pool1", "pool1'", "pool1''", "pool3", "pool3'", "pool4"} |->
     IF s \in {"pool1", "pool1''", "pool3'"}
     THEN [totalDeposit |-> 3, totalLoan |-> 2, borrowingApr |-> 5]
     ELSE [totalDeposit |-> 0, totalLoan |-> 0, borrowingApr |-> 1]]

MCAsked == {<<11, 12, 20>>, <<13, 20, 11, 12>>}

MCMarketAt == <<Short, Whole, Extended, Grown, Overgrown>>
=============================================================================
