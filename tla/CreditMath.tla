----------------------------- MODULE CreditMath -----------------------------
(***************************************************************************)
(* The pure arithmetic of CredFlow: the on-chain score formula             *)
(* (CredScoreEngine, with its Python twin ml/score_engine.py), the score   *)
(* tiers of the two lending contracts, interest and loan-to-value.         *)
(* Solidity integer division is \div, as every operand is a natural        *)
(* number.                                                                 *)
(***************************************************************************)
EXTENDS Integers

Lesser(a, b)  == IF a <= b THEN a ELSE b
Greater(a, b) == IF a >= b THEN a ELSE b

MinScore == 300
MaxScore == 850
Bps      == 10000          \* 100 % in basis points

-----------------------------------------------------------------------------
(* CredScoreEngine: default probability (bps) and balance (USD cents).     *)

balanceCapacityFactorBps(cents) ==
  LET usd == cents \div 100
  IN  CASE usd >= 5000 -> 9200
        [] usd \in 1000 .. 4999 -> 9600
        [] usd \in 100 .. 999 -> 9800
        [] OTHER -> 10000

AdjustedProbBps(probBps, cents) ==
  Lesser((probBps * balanceCapacityFactorBps(cents)) \div Bps, Bps)

computeCredScore(probBps, cents) ==
  LET s == MinScore + ((Bps - AdjustedProbBps(probBps, cents)) * 550) \div Bps
  IN  Greater(MinScore, Lesser(MaxScore, s))

-----------------------------------------------------------------------------
(* Score tiers of CredFlowLending and CredFlowSpokeLending.                *)

scoreTiers   == <<500, 580, 620, 680, 720, 750>>
ltvTiers     == <<4000, 5000, 6000, 6500, 7500, 8500>>
ratePremiums == <<700, 500, 400, 300, 200, 100>>
Tiers        == 1 .. 6

\* The loops run from the highest tier down and stop at the first one reached.
IsTopTier(i, score) ==
  /\ i \in Tiers
  /\ score >= scoreTiers[i]
  /\ \A j \in Tiers : j > i => score < scoreTiers[j]

getLTVForScore(score) ==
  IF score < scoreTiers[1] THEN 0
  ELSE ltvTiers[CHOOSE i \in Tiers : IsTopTier(i, score)]

getRateForScore(score, base) ==
  IF score < scoreTiers[1] THEN base + 1000
  ELSE base + ratePremiums[CHOOSE i \in Tiers : IsTopTier(i, score)]

-----------------------------------------------------------------------------
(* Loan arithmetic.  `year` is 365 days in the unit `elapsed` counts.      *)

\* Mutant: rounded up.
MaxBorrow_roundedUp(value, ltvBps) == (value * ltvBps + Bps - 1) \div Bps

MaxBorrow(value, ltvBps) == (value * ltvBps) \div Bps

calculateInterest(principal, rate, elapsed, year) ==
  (principal * rate * elapsed) \div (Bps * year)

\* getCurrentLTV reverts on a zero value, so callers guard value > 0.
LTV(owed, value) == (owed * Bps) \div value
=============================================================================
