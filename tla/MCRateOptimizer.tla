-------------------------- MODULE MCRateOptimizer ---------------------------
(* Two lenders, deposits of 1 or 2 units, loans of 1 or 2 units, the hourly *)
(* job and one thread of the API.                                           *)
EXTENDS RateOptimizer

CONSTANTS l1, l2, cron, api

MCLenders     == {l1, l2}
MCDeposits    == {1, 2}
MCLoanAmounts == {1, 2}
MCAdjusts     == {-50, 50}
MCRunners     == {cron, api}
=============================================================================
