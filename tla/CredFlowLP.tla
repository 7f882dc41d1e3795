----------------------------- MODULE CredFlowLP -----------------------------
(***************************************************************************)
(* The liquidity pool contract.  Lenders deposit the borrow token for LP   *)
(* shares and redeem shares for tokens; the lending contract reports       *)
(* borrows and repayments, which only move the utilization figure: no pool *)
(* token ever leaves for a loan.                                           *)
(***************************************************************************)
EXTENDS Integers, FiniteSets

CONSTANTS
  Lenders,     \* accounts that may hold LP shares
  Deposits,    \* the amounts a deposit may have
  MaxPool      \* bound: total deposits stay within it

ASSUME LPAssumption ==
  /\ IsFiniteSet(Lenders)
  /\ Deposits \subseteq Nat \ {0}
  /\ MaxPool \in Nat

VARIABLES
  shares,          \* balanceOf: LP shares of each lender
  totalSupply,     \* LP shares in existence
  totalDeposited,  \* the contract's own count of the tokens it owes lenders
  totalBorrowed,   \* principal the lending contract has reported as out
  poolBalance      \* borrowToken.balanceOf(pool)

lpVars == <<shares, totalSupply, totalDeposited, totalBorrowed, poolBalance>>

LPTypeOK ==
  /\ shares \in [Lenders -> Nat]
  /\ totalSupply \in Nat
  /\ totalDeposited \in Nat
  /\ totalBorrowed \in Nat
  /\ poolBalance \in Nat

LPInit ==
  /\ shares = [l \in Lenders |-> 0]
  /\ totalSupply = 0
  /\ totalDeposited = 0
  /\ totalBorrowed = 0
  /\ poolBalance = 0

-----------------------------------------------------------------------------
\* Mutant: minted after the deposit is counted.
LPToMint_afterDeposit(amount) ==
  IF totalSupply = 0 THEN amount ELSE (amount * totalSupply) \div (totalDeposited + amount)

LPToMint(amount) ==
  IF totalSupply = 0 THEN amount ELSE (amount * totalSupply) \div totalDeposited

deposit(l, amount) ==
  /\ totalDeposited + amount <= MaxPool                    \* bound
  /\ totalSupply # 0 => totalDeposited # 0                 \* else division by zero
  /\ shares' = [shares EXCEPT ![l] = @ + LPToMint(amount)]
  /\ totalSupply' = totalSupply + LPToMint(amount)
  /\ totalDeposited' = totalDeposited + amount
  /\ poolBalance' = poolBalance + amount
  /\ UNCHANGED totalBorrowed

\* Mutant: money lent out counted as the pool's.
TokenAmount_withLoans(lp) == (lp * (totalDeposited + totalBorrowed)) \div totalSupply

TokenAmount(lp) == (lp * totalDeposited) \div totalSupply

withdraw(l, lp) ==
  /\ lp <= shares[l]
  /\ totalSupply > 0                                       \* else division by zero
  /\ TokenAmount(lp) <= poolBalance                        \* availableLiquidity
  /\ TokenAmount(lp) <= totalDeposited                     \* checked subtraction
  /\ shares' = [shares EXCEPT ![l] = @ - lp]
  /\ totalSupply' = totalSupply - lp
  /\ totalDeposited' = totalDeposited - TokenAmount(lp)
  /\ poolBalance' = poolBalance - TokenAmount(lp)
  /\ UNCHANGED totalBorrowed

\* Called by the lending contract only; each is a conjunct of its actions.
recordBorrow(amount) == totalBorrowed' = totalBorrowed + amount

\* Mutants: no saturation; the wrong side of it.
recordRepayment_unclamped(amount) == totalBorrowed' = totalBorrowed - amount
recordRepayment_skipped(amount) ==
  totalBorrowed' = IF totalBorrowed > amount THEN totalBorrowed - amount ELSE totalBorrowed

recordRepayment(amount) ==
  totalBorrowed' = IF totalBorrowed > amount THEN totalBorrowed - amount ELSE 0

utilizationRate ==
  IF totalDeposited = 0 THEN 0 ELSE (totalBorrowed * 10000) \div totalDeposited

LenderStep ==
  \E l \in Lenders :
    \/ \E amount \in Deposits : deposit(l, amount)
    \/ \E lp \in 0 .. shares[l] : withdraw(l, lp)

-----------------------------------------------------------------------------
(* A share is always worth exactly one token, and the token is there: the  *)
(* rounding of deposit and withdraw never moves value between lenders.     *)
RedeemAtPar ==
  /\ totalDeposited = totalSupply
  /\ poolBalance = totalSupply
=============================================================================
