------------------------- MODULE MCCredFlowLending -------------------------
(* The price may fall to half or vanish; a time unit is a year, so that      *)
(* interest shows in whole units.  The constraint joins two instances: two   *)
(* borrowers and two loan slots over coarse data, and one borrower with one  *)
(* loan over many scores, rates, thresholds, amounts and prices.             *)
EXTENDS CredFlowLending, FiniteSetsExt, TLC

CONSTANTS w1, w2, l1

MCWallets          == {w1, w2}
MCLenders          == {l1}
MCDeposits         == {10}
MCFunding          == {27}
MCDefaultProbs     == {0, 10000}
MCBalancesCents    == {500000}
MCScores           == {749, 750}
MCBorrow           == {8, 10, 17}
MCCollateral       == {10, 20}
MCPrices           == {0, 1, 2}
MCThresholds       == {4000}
MCBaseRates        == {2000}
Symmetry           == Permutations(MCWallets)

\* Two borrowers: perfect scores, loans of 10, deployed parameters, no pause,
\* at most two loans or loan flags in all, and one beside a lender.
Pair ==
  /\ MapThenSumSet(LAMBDA w : profiles[w].totalLoans, Wallets) <= IF totalSupply = 0 THEN 2 ELSE 1
  /\ \A w \in Wallets : profiles[w].score \in {0, 850}
  /\ \A id \in 1 .. loanCounter : loans[id].borrowedAmount = 10
                                  /\ loans[id].collateralAmount \in {10, 20}
  /\ price > 0 /\ baseRate = 500 /\ liquidationThreshold = 8500 /\ ~paused

\* One borrower: the other wallet is never touched, the pool has no lenders
\* and is not connected, and at most one of price and parameters is out of the ordinary.
Solo ==
  /\ totalSupply = 0 /\ ~poolSet /\ loanCounter <= 1
  /\ \E w \in Wallets : ~profiles[w].exists /\ ~blacklisted[w]
  /\ \A w \in Wallets : profiles[w].totalLoans <= 1
  /\ loanCounter = 1 => loans[1].borrowedAmount # 10
  /\ Cardinality({x \in {<<"price", price = 0>>, <<"rate", baseRate # 500>>,
                         <<"threshold", liquidationThreshold # 8500>>, <<"pause", paused>>} : x[2]}) <= 1

PairOrSolo == Pair \/ Solo
=============================================================================
