-------------------------- MODULE CredFlowLending ---------------------------
(***************************************************************************)
(* The hub chain: the lending market composed with the credit profiles it  *)
(* reads and writes, the score engine that fills them, the pool it reports *)
(* to and the collateral oracle.  Everyone with a role on the contracts is *)
(* free to act between any two transactions: borrowers, the agents (which  *)
(* set and clear profile flags for loans on other chains, see CrossChain), *)
(* the administrator, lenders, prices and the clock.                       *)
(***************************************************************************)
EXTENDS CredScoreSBT, CredFlowLP, CreditMath, Functions

CONSTANTS
  Nobody,         \* address(0)
  DefaultProbs,   \* default probabilities (bps) the scoring pipeline reports
  BalancesCents,  \* verified bank balances it reports
  Scores,         \* scores the underwriter writes directly
  BorrowAmounts, CollateralAmounts,
  Prices,         \* USD value of one collateral unit; 0 makes the oracle revert
  Thresholds,     \* liquidation thresholds (bps) the administrator may set
  BaseRates,      \* base rates (bps) that may be set
  Funding,        \* amounts the market may be funded with
  Year,           \* 365 days, in ticks
  MaxLoans, MaxTime, MaxLiquidity    \* bounds

ASSUME LendingAssumption ==
  /\ Nobody \notin Wallets
  /\ DefaultProbs \subseteq Nat
  /\ BalancesCents \subseteq Nat
  /\ Scores \subseteq Nat
  /\ BorrowAmounts \subseteq Nat
  /\ CollateralAmounts \subseteq Nat
  /\ Prices \subseteq Nat
  /\ Thresholds \subseteq Nat
  /\ BaseRates \subseteq Nat
  /\ Funding \subseteq Nat \ {0}
  /\ Year \in Nat \ {0}
  /\ MaxLoans \in Nat
  /\ MaxTime \in Nat
  /\ MaxLiquidity \in Nat

VARIABLES
  loans,         \* loans[id]; the zero record until used
  activeLoanId,  \* activeLoanId[w], 0 when w has no loan here
  loanCounter,
  baseRate, liquidationThreshold, paused,
  poolSet,       \* liquidityPool # address(0)
  liquidity,     \* borrowToken.balanceOf(lending)
  collateralHeld,\* collateralToken.balanceOf(lending)
  unreported,    \* history: loans closed while no pool was connected
  price, now

marketVars == <<loans, activeLoanId, loanCounter, liquidity, collateralHeld, unreported>>
adminVars  == <<baseRate, liquidationThreshold, paused, poolSet>>
envVars    == <<price, now>>
vars == <<sbtVars, lpVars, marketVars, adminVars, envVars>>

LoanIds == 1 .. MaxLoans

Loan == [borrower         : Wallets \cup {Nobody},
         collateralAmount : Nat,
         borrowedAmount   : Nat,
         interestRate     : Nat,
         startTime        : Nat,
         maxLTV           : Nat,
         active           : BOOLEAN]

ZeroLoan == [borrower |-> Nobody, collateralAmount |-> 0, borrowedAmount |-> 0,
             interestRate |-> 0, startTime |-> 0, maxLTV |-> 0, active |-> FALSE]

TypeOK ==
  /\ SBTTypeOK
  /\ LPTypeOK
  /\ loans \in [LoanIds -> Loan]
  /\ activeLoanId \in [Wallets -> 0 .. MaxLoans]
  /\ loanCounter \in 0 .. MaxLoans
  /\ baseRate \in Nat /\ liquidationThreshold \in Nat
  /\ paused \in BOOLEAN /\ poolSet \in BOOLEAN
  /\ liquidity \in Nat /\ collateralHeld \in Nat
  /\ unreported \subseteq LoanIds
  /\ price \in Nat /\ now \in 0 .. MaxTime

Init ==
  /\ SBTInit
  /\ LPInit
  /\ loans = [id \in LoanIds |-> ZeroLoan]
  /\ activeLoanId = [w \in Wallets |-> 0]
  /\ loanCounter = 0
  /\ baseRate = 500 /\ liquidationThreshold = 8500
  /\ paused = FALSE /\ poolSet = FALSE
  /\ liquidity = 0 /\ collateralHeld = 0 /\ unreported = {}
  /\ price \in Prices /\ now = 0

-----------------------------------------------------------------------------
(* Views.                                                                  *)

getValueUSD(amount) == amount * price     \* defined only while price > 0

Interest(loan) ==
  calculateInterest(loan.borrowedAmount, loan.interestRate, now - loan.startTime, Year)

Owed(loan) == loan.borrowedAmount + Interest(loan)

\* The oracle has a price and the collateral a value: getCurrentLTV returns.
Valued(loan) == price > 0 /\ getValueUSD(loan.collateralAmount) > 0

getCurrentLTV(loan) == LTV(Owed(loan), getValueUSD(loan.collateralAmount))

-----------------------------------------------------------------------------
(* CredFlowLending: the borrower's and the liquidator's transactions.      *)

requestLoan(w, amount, collateral) ==
  LET id     == loanCounter + 1
      maxLTV == getLTVForScore(profiles[w].score)
  IN
  /\ loanCounter < MaxLoans                                         \* bound
  /\ ~paused
  /\ profiles[w].exists /\ ~blacklisted[w]
  /\ activeLoanId[w] = 0
  /\ profiles[w].defaultCount = 0 /\ ~profiles[w].loanActive
  /\ maxLTV > 0
  /\ price > 0
  /\ amount <= MaxBorrow(getValueUSD(collateral), maxLTV)
  /\ amount <= liquidity
  /\ loanCounter' = id
  /\ loans' = [loans EXCEPT ![id] =
                 [borrower         |-> w,
                  collateralAmount |-> collateral,
                  borrowedAmount   |-> amount,
                  interestRate     |-> getRateForScore(profiles[w].score, baseRate),
                  startTime        |-> now,
                  maxLTV           |-> maxLTV,
                  active           |-> TRUE]]
  /\ activeLoanId' = [activeLoanId EXCEPT ![w] = id]
  /\ setLoanActive(w)
  /\ IF poolSet THEN recordBorrow(amount) ELSE UNCHANGED totalBorrowed
  /\ liquidity' = liquidity - amount
  /\ collateralHeld' = collateralHeld + collateral
  /\ UNCHANGED <<shares, totalSupply, totalDeposited, poolBalance, unreported, adminVars, envVars>>

\* The pool learns of a closed loan only while it is connected.
ReportClosed(id) ==
  IF poolSet
  THEN recordRepayment(loans[id].borrowedAmount) /\ UNCHANGED unreported
  ELSE unreported' = unreported \cup {id} /\ UNCHANGED totalBorrowed

\* Mutants: activeLoanId, or active, is not reset.
CloseLoan_keepsIndex(id) ==
  /\ loans' = [loans EXCEPT ![id].active = FALSE]
  /\ ReportClosed(id)
  /\ UNCHANGED <<activeLoanId, loanCounter, shares, totalSupply, totalDeposited, poolBalance,
                 adminVars, envVars>>
CloseLoan_staysActive(id) ==
  /\ activeLoanId' = [activeLoanId EXCEPT ![loans[id].borrower] = 0]
  /\ ReportClosed(id)
  /\ UNCHANGED <<loans, loanCounter, shares, totalSupply, totalDeposited, poolBalance,
                 adminVars, envVars>>

\* Closing a loan, common to repayment and liquidation.
CloseLoan(id) ==
  /\ loans' = [loans EXCEPT ![id].active = FALSE]
  /\ activeLoanId' = [activeLoanId EXCEPT ![loans[id].borrower] = 0]
  /\ ReportClosed(id)
  /\ UNCHANGED <<loanCounter, shares, totalSupply, totalDeposited, poolBalance,
                 adminVars, envVars>>

repayLoan(w, id) ==
  /\ loans[id].borrower = w
  /\ loans[id].active
  /\ loans[id].collateralAmount <= collateralHeld        \* else the transfer reverts
  /\ liquidity' = liquidity + Owed(loans[id])
  /\ collateralHeld' = collateralHeld - loans[id].collateralAmount
  /\ setLoanRepaid(w)
  /\ CloseLoan(id)

\* The collateral stays in the contract.
liquidate(id) ==
  /\ loans[id].active
  /\ Valued(loans[id])
  /\ getCurrentLTV(loans[id]) >= liquidationThreshold
  /\ recordDefault(loans[id].borrower)
  /\ CloseLoan(id)
  /\ UNCHANGED <<liquidity, collateralHeld>>

-----------------------------------------------------------------------------
(* CredScoreEngine and the agents' direct calls on the profile.            *)

mintScore(w, probBps, cents, rescore) ==
  LET score == computeCredScore(probBps, cents)
  IN  IF rescore THEN updateScore(w, score) ELSE mintSBT(w, score)

ProfileStep(w) ==
  /\ \/ \E p \in DefaultProbs, c \in BalancesCents, rescore \in BOOLEAN :
          mintScore(w, p, c, rescore)
     \/ \E s \in Scores : updateScore(w, s)
     \/ profiles[w].exists /\ setLoanActive(w)     \* sync_service, for a loan elsewhere
     \/ profiles[w].exists /\ setLoanRepaid(w)
     \/ \E ws \in SUBSET (Wallets \ {w}) : ws # {} /\ blacklistLinkedWallets(ws)
     \/ removeFromBlacklist(w)
     \/ whitelistWallet(w)
  /\ UNCHANGED <<lpVars, marketVars, adminVars, envVars>>

-----------------------------------------------------------------------------
(* Administrator, lenders, funding, oracle and clock.                      *)

\* liquidityPool becomes the pool's address, or zero, at any time.
setLiquidityPool(connected) ==
  /\ poolSet' = connected
  /\ UNCHANGED <<baseRate, liquidationThreshold, paused>>

setLiquidationParams(t) ==
  /\ liquidationThreshold' = t
  /\ UNCHANGED <<baseRate, paused, poolSet>>

setBaseRate(r) ==
  /\ baseRate' = r
  /\ UNCHANGED <<liquidationThreshold, paused, poolSet>>

pause   == ~paused /\ paused' = TRUE  /\ UNCHANGED <<baseRate, liquidationThreshold, poolSet>>
unpause == paused  /\ paused' = FALSE /\ UNCHANGED <<baseRate, liquidationThreshold, poolSet>>

AdminStep ==
  /\ \/ \E connected \in BOOLEAN : setLiquidityPool(connected)
     \/ \E t \in Thresholds : setLiquidationParams(t)
     \/ \E r \in BaseRates : setBaseRate(r)
     \/ pause
     \/ unpause
  /\ UNCHANGED <<sbtVars, lpVars, marketVars, envVars>>

PoolStep == LenderStep /\ UNCHANGED <<sbtVars, marketVars, adminVars, envVars>>

Fund(amount) ==
  /\ liquidity + amount <= MaxLiquidity                             \* bound
  /\ liquidity' = liquidity + amount
  /\ UNCHANGED <<sbtVars, lpVars, loans, activeLoanId, loanCounter, collateralHeld, unreported,
                 adminVars, envVars>>

Environment ==
  /\ \/ price' \in Prices /\ now' = now
     \/ now < MaxTime /\ now' = now + 1 /\ price' = price
  /\ UNCHANGED <<sbtVars, lpVars, marketVars, adminVars>>

Next ==
  \/ \E w \in Wallets :
       \/ \E a \in BorrowAmounts, c \in CollateralAmounts : requestLoan(w, a, c)
       \/ \E id \in LoanIds : repayLoan(w, id)
       \/ ProfileStep(w)
  \/ \E id \in LoanIds : liquidate(id)
  \/ AdminStep
  \/ PoolStep
  \/ \E a \in Funding : Fund(a)
  \/ Environment

Spec == Init /\ [][Next]_vars

-----------------------------------------------------------------------------
(* Properties.                                                             *)

ActiveLoans == {id \in LoanIds : loans[id].active}
Counted     == ActiveLoans \cup unreported

collaterals == [id \in LoanIds |-> loans[id].collateralAmount]
principals  == [id \in LoanIds |-> loans[id].borrowedAmount]

(* activeLoanId is an exact index of the open loans: a wallet has at most  *)
(* one, however repayments, liquidations and the agents' flag clearing are *)
(* interleaved, and a loan slot past the counter has never been used.      *)
LoanIndex ==
  /\ \A w \in Wallets : activeLoanId[w] # 0 =>
       /\ activeLoanId[w] \in ActiveLoans
       /\ loans[activeLoanId[w]].borrower = w
  /\ \A id \in ActiveLoans :
       /\ loans[id].borrower \in Wallets
       /\ activeLoanId[loans[id].borrower] = id
  /\ \A id \in LoanIds : id > loanCounter => loans[id] = ZeroLoan

(* Only a clean profile carries a hub loan, and a wallet defaults once     *)
(* before somebody whitelists it: recordDefault's uint8 counter cannot     *)
(* overflow, so it can never block a liquidation.                          *)
DefaultsCleanly ==
  \A w \in Wallets :
    /\ activeLoanId[w] # 0 => profiles[w].exists /\ profiles[w].defaultCount = 0
    /\ profiles[w].defaultCount <= 1
    /\ profiles[w].defaultCount > 0 => profiles[w].exists

(* No loan starts in the future, so interest is never negative.            *)
StartedInPast == \A id \in LoanIds : loans[id].startTime <= now

(* The contract holds the collateral of every open loan at once, so that   *)
(* no borrower's repayment reverts because another's collateral went out.  *)
CollateralBacked == SumFunctionOnSet(collaterals, ActiveLoans) <= collateralHeld

(* What the pool believes to be lent out never exceeds the principal of    *)
(* the open loans and of those closed while it was disconnected, however   *)
(* often the administrator connects and disconnects it between two loans:  *)
(* a loan it did not see opened is never counted, nor one counted twice.   *)
PoolDebtBacked == totalBorrowed <= SumFunctionOnSet(principals, Counted)

Opened(id) == ~loans[id].active /\ loans'[id].active

(* A loan opens within its tier's loan-to-value in spite of two roundings, *)
(* so it is not liquidatable at the deployed threshold in the block that   *)
(* opens it, unless its tier is the one that reaches that threshold.       *)
OpensHealthy ==
  [][\A id \in LoanIds : Opened(id) =>
       LET ltv == (loans'[id].borrowedAmount * Bps)
                    \div getValueUSD(loans'[id].collateralAmount)
           score == profiles[loans'[id].borrower].score
       IN  getValueUSD(loans'[id].collateralAmount) > 0 =>
             /\ ltv <= loans'[id].maxLTV
             /\ score < scoreTiers[6] => ltv < 8500]_vars

(* The market implements one credit line per wallet.                       *)
Line(w) ==
  IF activeLoanId[w] # 0 THEN "borrowed"
  ELSE IF ~profiles[w].exists THEN "none"
  ELSE IF profiles[w].defaultCount > 0 THEN "defaulted"
  ELSE "clear"

Debt(w) == IF activeLoanId[w] = 0 THEN 0 ELSE loans[activeLoanId[w]].borrowedAmount

lineMap == [w \in Wallets |-> Line(w)]
debtMap == [w \in Wallets |-> Debt(w)]

Credit == INSTANCE CreditLine WITH line <- lineMap, debt <- debtMap, cash <- liquidity

(* Whatever the agents do to profile flags and the administrator to the    *)
(* parameters, the hub market gives every wallet one line of credit, keeps *)
(* its principal accounted for, and shuts the line of a defaulter.         *)
ImplementsCreditLine == Credit!Spec
=============================================================================
