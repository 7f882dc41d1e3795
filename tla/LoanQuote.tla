------------------------------ MODULE LoanQuote ------------------------------
(***************************************************************************)
(* How the web application computes the collateral for a loan              *)
(* (lib/loan-collateral.ts, lib/loan-server.ts): the inverse of the check  *)
(* of CredFlowLending.requestLoan, with integer divisions of its own.      *)
(***************************************************************************)
EXTENDS CreditMath

CONSTANT OneEth        \* wei in one ETH; prices are 6-decimal USD per ETH

ASSUME OneEthAssumption == OneEth \in Nat \ {0}

COLLATERAL_BUFFER_BPS == 10100

\* Mutant: the posted amount is rounded down and has no headroom.
collateralForBorrow_exact(borrow, ltvBps, price) ==
  (((borrow * Bps) \div ltvBps) * OneEth) \div price

\* collateralWeiForBorrow, for a positive amount, tier and price.
collateralForBorrow(borrow, ltvBps, price) ==
  LET usd == (borrow * Bps) \div ltvBps
      wei == (usd * OneEth + price - 1) \div price
  IN  Greater(1, (wei * COLLATERAL_BUFFER_BPS) \div Bps)

\* ChainlinkOracle.getValueUSD of an amount of WETH.
ValueOf(wei, price) == (wei * price) \div OneEth
=============================================================================
