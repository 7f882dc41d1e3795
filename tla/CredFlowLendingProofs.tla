------------------------ MODULE CredFlowLendingProofs -----------------------
(***************************************************************************)
(* The hub market's invariant, for every set of wallets, amounts, scores,  *)
(* prices and parameters and any number of loans.                          *)
(***************************************************************************)
EXTENDS CredFlowLending, ContractProofs

(* The index of open loans cannot be shown alone: that a repayment or a    *)
(* liquidation leaves natural numbers behind needs the clock, and that     *)
(* recordDefault keeps counting needs the gate of requestLoan.             *)
Inv == TypeOK /\ RedeemAtPar /\ LoanIndex /\ DefaultsCleanly /\ StartedInPast

LEMMA InitInv == Init => Inv
  <1> SUFFICES ASSUME Init PROVE Inv
    OBVIOUS
  <1>1. SBTTypeOK
    BY SBTInitType DEF Init
  <1>2. LPInv
    BY LPInitInv DEF Init
  <1>3. ZeroLoan \in Loan
    BY DEF ZeroLoan, Loan
  <1>4. TypeOK
    <2>1. loans \in [LoanIds -> Loan]
      BY <1>3 DEF Init
    <2>2. /\ activeLoanId \in [Wallets -> 0 .. MaxLoans] /\ loanCounter \in 0 .. MaxLoans
          /\ now \in 0 .. MaxTime /\ price \in Nat
      BY LendingAssumption DEF Init
    <2>3. /\ baseRate \in Nat /\ liquidationThreshold \in Nat
          /\ liquidity \in Nat /\ collateralHeld \in Nat
      BY DEF Init
    <2>4. paused \in BOOLEAN /\ poolSet \in BOOLEAN
      BY Zenon DEF Init
    <2>5. unreported \subseteq LoanIds
      BY DEF Init
    <2> QED BY <1>1, <1>2, <2>1, <2>2, <2>3, <2>4, <2>5 DEF TypeOK, LPInv
  <1>5. LoanIndex
    BY DEF Init, LoanIndex, ActiveLoans, ZeroLoan
  <1>6. DefaultsCleanly
    <2>1. \A w \in Wallets : activeLoanId[w] = 0
      BY DEF Init
    <2>2. \A w \in Wallets : profiles[w].defaultCount = 0
      BY DEF Init, SBTInit, ZeroProfile
    <2> SUFFICES ASSUME NEW w \in Wallets
                 PROVE  /\ activeLoanId[w] # 0 =>
                             profiles[w].exists /\ profiles[w].defaultCount = 0
                        /\ profiles[w].defaultCount <= 1
                        /\ profiles[w].defaultCount > 0 => profiles[w].exists
      BY DEF DefaultsCleanly
    <2>3. profiles[w].defaultCount <= 1 /\ ~(profiles[w].defaultCount > 0)
      BY <2>2
    <2> QED BY <2>1, <2>3, Zenon
  <1>7. StartedInPast
    BY LendingAssumption DEF Init, StartedInPast, ZeroLoan
  <1> QED BY <1>2, <1>4, <1>5, <1>6, <1>7 DEF Inv, LPInv

-----------------------------------------------------------------------------
(* DefaultsCleanly, wallet by wallet: the facts the next state has to show. *)
CleanAt(v) ==
  /\ activeLoanId[v] # 0 => profiles[v].exists /\ profiles[v].defaultCount = 0
  /\ profiles[v].defaultCount <= 1
  /\ profiles[v].defaultCount > 0 => profiles[v].exists

LEMMA CleanAtEach == DefaultsCleanly <=> \A v \in Wallets : CleanAt(v)
  BY DEF DefaultsCleanly, CleanAt

(* A wallet whose default record and loan index stay stays clean.          *)
LEMMA SameRecordClean ==
  ASSUME NEW v \in Wallets, CleanAt(v), SameRecord(v),
         activeLoanId'[v] = activeLoanId[v] \/ activeLoanId'[v] = 0
  PROVE  CleanAt(v)'
  <1>1. profiles'[v].defaultCount = profiles[v].defaultCount
    BY DEF SameRecord
  <1>2. profiles'[v].exists <=> profiles[v].exists
    BY DEF SameRecord
  <1> QED BY <1>1, <1>2 DEF CleanAt

(* Nothing the agents, the engine or the scorers do to a profile disturbs  *)
(* the default record of a wallet with a loan.                             *)
LEMMA ProfileStepClean ==
  ASSUME Inv, NEW w \in Wallets, ProfileStep(w)
  PROVE  SBTTypeOK' /\ DefaultsCleanly'
  <1>1. UNCHANGED activeLoanId
    BY DEF ProfileStep, marketVars
  <1>2. SBTTypeOK /\ \A v \in Wallets : CleanAt(v)
    BY CleanAtEach DEF Inv, TypeOK
  <1>3. ASSUME SBTTypeOK', \A v \in Wallets : SameRecord(v)
        PROVE  SBTTypeOK' /\ DefaultsCleanly'
    <2>1. \A v \in Wallets : CleanAt(v)'
      BY <1>1, <1>2, <1>3, SameRecordClean
    <2> QED BY <1>3, <2>1 DEF DefaultsCleanly, CleanAt
  <1>4. ASSUME SBTTypeOK', CleanAt(w)', \A v \in Wallets \ {w} : SameRecord(v)
        PROVE  SBTTypeOK' /\ DefaultsCleanly'
    <2>1. \A v \in Wallets : CleanAt(v)'
      BY <1>1, <1>2, <1>4, SameRecordClean
    <2> QED BY <1>4, <2>1 DEF DefaultsCleanly, CleanAt
  <1>5. ASSUME profiles'[w].exists, profiles'[w].defaultCount = 0
        PROVE  CleanAt(w)'
    <2>1. profiles'[w].defaultCount <= 1
      BY <1>5
    <2> QED BY <1>5, <2>1, Zenon DEF CleanAt
  <1>6. CASE \E p \in DefaultProbs, c \in BalancesCents, rescore \in BOOLEAN :
               mintScore(w, p, c, rescore)
    <2>1. PICK p \in DefaultProbs, c \in BalancesCents, rescore \in BOOLEAN :
                 mintScore(w, p, c, rescore)
      BY <1>6
    <2>2. computeCredScore(p, c) \in Nat
      <3>1. p \in Nat /\ c \in Nat
        BY LendingAssumption
      <3>2. computeCredScore(p, c) \in MinScore .. MaxScore
        BY <3>1, ScoreInRange
      <3> QED BY <3>2 DEF MinScore, MaxScore
    <2>3. CASE rescore
      <3>1. updateScore(w, computeCredScore(p, c))
        BY <2>1, <2>3 DEF mintScore
      <3> QED BY <1>2, <1>3, <2>2, <3>1, UpdateScoreStep
    <2>4. CASE ~rescore
      <3>1. mintSBT(w, computeCredScore(p, c))
        BY <2>1, <2>4 DEF mintScore
      <3> QED BY <1>2, <1>4, <1>5, <2>2, <3>1, MintStep
    <2> QED BY <2>3, <2>4
  <1>7. CASE \E s \in Scores : updateScore(w, s)
    <2>1. PICK s \in Scores : updateScore(w, s)
      BY <1>7
    <2>2. s \in Nat
      BY LendingAssumption
    <2> QED BY <1>2, <1>3, <2>1, <2>2, UpdateScoreStep
  <1>8. CASE setLoanActive(w)
    BY <1>2, <1>3, <1>8, SetLoanActiveStep
  <1>9. CASE setLoanRepaid(w)
    BY <1>2, <1>3, <1>9, SetLoanRepaidStep
  <1>10. CASE \E ws \in SUBSET (Wallets \ {w}) : ws # {} /\ blacklistLinkedWallets(ws)
    BY <1>2, <1>3, <1>10, BlacklistStep
  <1>11. CASE removeFromBlacklist(w)
    BY <1>2, <1>3, <1>11, RemoveFromBlacklistStep
  <1>12. CASE whitelistWallet(w)
    BY <1>2, <1>4, <1>5, <1>12, WhitelistStep
  <1> QED BY <1>6, <1>7, <1>8, <1>9, <1>10, <1>11, <1>12 DEF ProfileStep

LEMMA ProfileStepInv ==
  ASSUME Inv, NEW w \in Wallets, ProfileStep(w)
  PROVE  Inv'
  <1>1. UNCHANGED <<lpVars, marketVars, adminVars, envVars>>
    BY DEF ProfileStep
  <1>2. SBTTypeOK' /\ DefaultsCleanly'
    BY ProfileStepClean
  <1> QED BY <1>1, <1>2 DEF Inv, TypeOK, LPTypeOK, RedeemAtPar, LoanIndex, ActiveLoans,
             StartedInPast, lpVars, marketVars, adminVars, envVars
-----------------------------------------------------------------------------
(* Interest is a natural number: a loan's clock starts in the past.        *)
LEMMA OwedNat ==
  ASSUME Inv, NEW id \in LoanIds
  PROVE  /\ Owed(loans[id]) \in Nat
         /\ Owed(loans[id]) >= loans[id].borrowedAmount
  <1> DEFINE l == loans[id]
  <1>1. l \in Loan
    BY DEF Inv, TypeOK
  <1>2. now - l.startTime \in Nat
    BY <1>1 DEF Inv, TypeOK, StartedInPast, Loan
  <1>3. /\ l.borrowedAmount \in Nat /\ l.interestRate \in Nat
        /\ Year \in Nat \ {0}
    BY <1>1, LendingAssumption DEF Loan
  <1>4. Interest(l) \in Nat
    BY <1>2, <1>3, InterestNat DEF Interest
  <1> HIDE DEF l
  <1>5. Owed(l) \in Nat /\ Owed(l) >= l.borrowedAmount
    BY <1>3, <1>4 DEF Owed
  <1> QED BY <1>5 DEF l

(* An open loan's id is in its borrower's index, and nobody else's.        *)
LEMMA OpenLoan ==
  ASSUME Inv, NEW id \in LoanIds, loans[id].active
  PROVE  /\ loans[id].borrower \in Wallets
         /\ activeLoanId[loans[id].borrower] = id
         /\ loans[id].borrowedAmount \in Nat
         /\ id # 0
  <1>1. loans[id].borrower \in Wallets /\ activeLoanId[loans[id].borrower] = id
    BY DEF Inv, LoanIndex, ActiveLoans
  <1>2. loans[id] \in Loan
    BY DEF Inv, TypeOK
  <1> QED BY <1>1, <1>2, LendingAssumption DEF Loan, LoanIds

(* The index after one loan is closed.                                     *)
LEMMA CloseLoanInv ==
  ASSUME Inv, NEW id \in LoanIds, loans[id].active, CloseLoan(id)
  PROVE  /\ loans' \in [LoanIds -> Loan]
         /\ activeLoanId' \in [Wallets -> 0 .. MaxLoans]
         /\ LPInv'
         /\ LoanIndex'
         /\ StartedInPast'
         /\ \A v \in Wallets : activeLoanId'[v] = activeLoanId[v] \/ activeLoanId'[v] = 0
         /\ activeLoanId'[loans[id].borrower] = 0
         /\ unreported' \subseteq LoanIds
  <1> DEFINE b == loans[id].borrower
  <1>1. b \in Wallets /\ activeLoanId[b] = id /\ loans[id].borrowedAmount \in Nat /\ id # 0
    BY OpenLoan
  <1>2. /\ loans \in [LoanIds -> Loan] /\ activeLoanId \in [Wallets -> 0 .. MaxLoans]
        /\ LoanIndex /\ StartedInPast /\ LPInv
        /\ UNCHANGED now
    BY DEF Inv, TypeOK, LPInv, CloseLoan, envVars
  <1>3. LPInv'
    <2>1. UNCHANGED <<shares, totalSupply, totalDeposited, poolBalance>>
      BY DEF CloseLoan
    <2>2. CASE poolSet
      BY <1>1, <1>2, <2>1, <2>2, RecordRepaymentInv DEF CloseLoan, ReportClosed
    <2>3. CASE ~poolSet
      <3>1. UNCHANGED totalBorrowed
        BY <2>3 DEF CloseLoan, ReportClosed
      <3> QED BY <1>2, <2>1, <3>1, LPStutterInv DEF lpVars
    <2> QED BY <2>2, <2>3
  <1>4. /\ loans' = [loans EXCEPT ![id].active = FALSE]
        /\ activeLoanId' = [activeLoanId EXCEPT ![b] = 0]
        /\ UNCHANGED loanCounter
    BY DEF CloseLoan
  <1>5. activeLoanId' \in [Wallets -> 0 .. MaxLoans]
    BY <1>1, <1>2, <1>4, LendingAssumption
  <1> HIDE DEF b
  <1>6. /\ loans' \in [LoanIds -> Loan]
        /\ ~loans'[id].active
        /\ \A i \in LoanIds : /\ loans'[i].borrower = loans[i].borrower
                              /\ loans'[i].startTime = loans[i].startTime
        /\ \A i \in LoanIds \ {id} : loans'[i] = loans[i]
    <2> DEFINE new == [loans[id] EXCEPT !.active = FALSE]
    <2>1. \A l \in Loan, a \in BOOLEAN :
             LET n == [l EXCEPT !.active = a] IN
             /\ n \in Loan /\ n.borrower = l.borrower /\ n.startTime = l.startTime
             /\ n.active <=> a
      BY DEF Loan
    <2>2. new \in Loan /\ new.borrower = loans[id].borrower
          /\ new.startTime = loans[id].startTime /\ ~new.active
      BY <1>2, <2>1
    <2>3. loans' = [loans EXCEPT ![id] = new]
      BY <1>4
    <2> HIDE DEF new
    <2> QED BY <1>2, <2>2, <2>3
  <1>7. LoanIndex'
    <2>1. ASSUME NEW w \in Wallets, activeLoanId'[w] # 0
          PROVE  activeLoanId'[w] \in ActiveLoans' /\ loans'[activeLoanId'[w]].borrower = w
      <3>1. w # b /\ activeLoanId'[w] = activeLoanId[w]
        BY <1>1, <1>2, <1>4, <2>1
      <3>2. activeLoanId[w] \in ActiveLoans /\ loans[activeLoanId[w]].borrower = w
        BY <1>2, <2>1, <3>1 DEF LoanIndex
      <3>3. activeLoanId[w] # id
        BY <3>1, <3>2 DEF b
      <3> QED BY <1>6, <3>1, <3>2, <3>3 DEF ActiveLoans
    <2>2. ASSUME NEW i \in ActiveLoans'
          PROVE  loans'[i].borrower \in Wallets /\ activeLoanId'[loans'[i].borrower] = i
      <3>1. i \in LoanIds /\ i # id /\ loans'[i] = loans[i] /\ i \in ActiveLoans
        BY <1>6, <2>2 DEF ActiveLoans
      <3>2. loans[i].borrower \in Wallets /\ activeLoanId[loans[i].borrower] = i
        BY <1>2, <3>1 DEF LoanIndex
      <3> QED BY <1>1, <1>2, <1>4, <3>1, <3>2
    <2>3. ASSUME NEW i \in LoanIds, i > loanCounter'
          PROVE  loans'[i] = ZeroLoan
      <3>1. loans[i] = ZeroLoan
        BY <1>2, <1>4, <2>3 DEF LoanIndex
      <3>2. i # id
        BY <3>1 DEF ZeroLoan
      <3> QED BY <1>6, <3>1, <3>2
    <2> QED BY <2>1, <2>2, <2>3 DEF LoanIndex
  <1>8. StartedInPast'
    BY <1>2, <1>6 DEF StartedInPast
  <1>9. \A v \in Wallets : activeLoanId'[v] = activeLoanId[v] \/ activeLoanId'[v] = 0
    BY <1>2, <1>4
  <1>10. activeLoanId'[b] = 0
    BY <1>1, <1>2, <1>4
  <1>11. unreported' \subseteq LoanIds
    BY DEF CloseLoan, ReportClosed, Inv, TypeOK
  <1> QED BY <1>3, <1>5, <1>6, <1>7, <1>8, <1>9, <1>10, <1>11 DEF b

LEMMA RepayInv ==
  ASSUME Inv, NEW w \in Wallets, NEW id \in LoanIds, repayLoan(w, id)
  PROVE  Inv'
  <1>1. loans[id].active /\ loans[id].borrower = w
    BY DEF repayLoan
  <1>2. /\ loans' \in [LoanIds -> Loan]
        /\ activeLoanId' \in [Wallets -> 0 .. MaxLoans]
        /\ LPInv' /\ LoanIndex' /\ StartedInPast'
        /\ \A v \in Wallets : activeLoanId'[v] = activeLoanId[v] \/ activeLoanId'[v] = 0
        /\ unreported' \subseteq LoanIds
    BY <1>1, CloseLoanInv DEF repayLoan
  <1>3. SBTTypeOK' /\ \A v \in Wallets : SameRecord(v)
    BY SetLoanRepaidStep DEF repayLoan, Inv, TypeOK
  <1>4. DefaultsCleanly'
    <2>1. \A v \in Wallets : CleanAt(v)'
      BY <1>2, <1>3, CleanAtEach, SameRecordClean DEF Inv
    <2> QED BY <2>1 DEF DefaultsCleanly, CleanAt
  <1>5. liquidity' \in Nat /\ collateralHeld' \in Nat
    <2>1. Owed(loans[id]) \in Nat /\ liquidity \in Nat /\ collateralHeld \in Nat
      BY OwedNat DEF Inv, TypeOK
    <2>2. loans[id].collateralAmount \in Nat
      BY DEF Inv, TypeOK, Loan
    <2> QED BY <2>1, <2>2 DEF repayLoan
  <1>6. UNCHANGED <<loanCounter, adminVars, envVars>>
    BY DEF repayLoan, CloseLoan
  <1>7. TypeOK'
    BY <1>2, <1>3, <1>5, <1>6 DEF Inv, TypeOK, LPInv, adminVars, envVars
  <1> QED BY <1>2, <1>4, <1>7 DEF Inv, LPInv

(* The default a liquidation records is the wallet's first one.            *)
LEMMA LiquidateInv ==
  ASSUME Inv, NEW id \in LoanIds, liquidate(id)
  PROVE  Inv'
  <1>0. PICK b \in Wallets : b = loans[id].borrower
    BY OpenLoan DEF liquidate
  <1>1. loans[id].active /\ CloseLoan(id) /\ recordDefault(b)
    BY <1>0 DEF liquidate
  <1>2. activeLoanId[b] = id /\ id # 0
    BY <1>0, <1>1, OpenLoan
  <1>3. /\ loans' \in [LoanIds -> Loan]
        /\ activeLoanId' \in [Wallets -> 0 .. MaxLoans]
        /\ LPInv' /\ LoanIndex' /\ StartedInPast'
        /\ \A v \in Wallets : activeLoanId'[v] = activeLoanId[v] \/ activeLoanId'[v] = 0
        /\ activeLoanId'[b] = 0
        /\ unreported' \subseteq LoanIds
    BY <1>0, <1>1, CloseLoanInv
  <1>4. /\ SBTTypeOK'
        /\ profiles'[b].defaultCount = profiles[b].defaultCount + 1
        /\ profiles'[b].exists <=> profiles[b].exists
        /\ \A v \in Wallets \ {b} : SameRecord(v)
    BY <1>1, RecordDefaultStep DEF Inv, TypeOK
  <1>5. DefaultsCleanly'
    <2>1. \A v \in Wallets : CleanAt(v)
      BY CleanAtEach DEF Inv
    <2>2. profiles[b].exists /\ profiles[b].defaultCount = 0
      BY <1>2, <2>1 DEF CleanAt
    <2>3. CleanAt(b)'
      <3>1. profiles'[b].defaultCount <= 1
        BY <1>4, <2>2
      <3> QED BY <1>3, <1>4, <2>2, <3>1, Zenon DEF CleanAt
    <2>4. \A v \in Wallets : CleanAt(v)'
      BY <1>3, <1>4, <2>1, <2>3, SameRecordClean
    <2> QED BY <2>4 DEF DefaultsCleanly, CleanAt
  <1>6. UNCHANGED <<loanCounter, liquidity, collateralHeld, adminVars, envVars>>
    BY DEF liquidate, CloseLoan
  <1>7. TypeOK'
    BY <1>3, <1>4, <1>6 DEF Inv, TypeOK, LPInv, adminVars, envVars
  <1> QED BY <1>3, <1>5, <1>7 DEF Inv, LPInv

(* A new loan takes an unused slot, and its borrower had none.             *)
LEMMA RequestInv ==
  ASSUME Inv, NEW w \in Wallets, NEW a \in BorrowAmounts, NEW c \in CollateralAmounts,
         requestLoan(w, a, c)
  PROVE  Inv'
  <1> DEFINE id  == loanCounter + 1
             new == loans'[id]
  <1>1. a \in Nat /\ c \in Nat
    BY LendingAssumption
  <1>2. id \in LoanIds /\ id # 0 /\ id \in 0 .. MaxLoans /\ id > loanCounter /\ loanCounter' = id
    BY LendingAssumption DEF Inv, TypeOK, LoanIds, requestLoan
  <1>3. profiles[w].exists /\ profiles[w].defaultCount = 0 /\ activeLoanId[w] = 0
    BY DEF requestLoan
  <1>4. /\ loans \in [LoanIds -> Loan] /\ activeLoanId \in [Wallets -> 0 .. MaxLoans]
        /\ LoanIndex /\ StartedInPast /\ now \in Nat /\ baseRate \in Nat
        /\ profiles[w].score \in Nat
    BY LendingAssumption DEF Inv, TypeOK, SBTTypeOK, Profile
  <1>5. activeLoanId' = [activeLoanId EXCEPT ![w] = id]
    BY DEF requestLoan
  <1>6. /\ new \in Loan /\ new.borrower = w /\ new.startTime = now /\ new.active
        /\ loans' = [loans EXCEPT ![id] = new]
    <2> DEFINE rate == getRateForScore(profiles[w].score, baseRate)
               tier == getLTVForScore(profiles[w].score)
               r    == [borrower |-> w, collateralAmount |-> c, borrowedAmount |-> a,
                        interestRate |-> rate, startTime |-> now, maxLTV |-> tier,
                        active |-> TRUE]
    <2>1. rate \in Nat
      <3>1. PICK sc \in Nat : sc = profiles[w].score
        BY <1>4
      <3>2. baseRate \in Nat /\ rate = getRateForScore(sc, baseRate)
        BY <1>4, <3>1
      <3>3. getRateForScore(sc, baseRate) \in (baseRate + 100) .. (baseRate + 1000)
        BY <3>2, RateOfScore
      <3> HIDE DEF rate
      <3> QED BY <3>2, <3>3
    <2>2. tier \in Nat
      <3>1. tier \in {0, 4000, 5000, 6000, 6500, 7500, 8500}
        BY <1>4, LTVOfScore
      <3> HIDE DEF tier
      <3> QED BY <3>1
    <2>3. loans' = [loans EXCEPT ![id] = r]
      BY DEF requestLoan
    <2> HIDE DEF rate, tier
    <2>4. r \in Loan /\ r.borrower = w /\ r.startTime = now /\ r.active
      BY <1>1, <1>4, <2>1, <2>2 DEF Loan
    <2> HIDE DEF r
    <2>5. new = r
      BY <1>2, <1>4, <2>3
    <2> QED BY <2>3, <2>4, <2>5
  <1> HIDE DEF id, new
  <1>7. LoanIndex'
    <2>1. ~loans[id].active
      BY <1>2, <1>4 DEF LoanIndex, ZeroLoan
    <2>2. ASSUME NEW v \in Wallets, activeLoanId'[v] # 0
          PROVE  activeLoanId'[v] \in ActiveLoans' /\ loans'[activeLoanId'[v]].borrower = v
      <3>1. CASE v = w
        BY <1>2, <1>4, <1>5, <1>6, <3>1 DEF ActiveLoans
      <3>2. CASE v # w
        <4>1. activeLoanId'[v] = activeLoanId[v]
          BY <1>4, <1>5, <3>2
        <4>2. activeLoanId[v] \in ActiveLoans /\ loans[activeLoanId[v]].borrower = v
          BY <1>4, <2>2, <4>1 DEF LoanIndex
        <4>3. activeLoanId[v] # id
          BY <2>1, <4>2 DEF ActiveLoans
        <4> QED BY <1>2, <1>4, <1>6, <4>1, <4>2, <4>3 DEF ActiveLoans
      <3> QED BY <3>1, <3>2
    <2>3. ASSUME NEW i \in ActiveLoans'
          PROVE  loans'[i].borrower \in Wallets /\ activeLoanId'[loans'[i].borrower] = i
      <3>1. CASE i = id
        BY <1>2, <1>4, <1>5, <1>6, <3>1
      <3>2. CASE i # id
        <4>1. i \in LoanIds /\ loans'[i] = loans[i] /\ i \in ActiveLoans
          BY <1>4, <1>6, <2>3, <3>2 DEF ActiveLoans
        <4>2. loans[i].borrower \in Wallets /\ activeLoanId[loans[i].borrower] = i /\ i # 0
          BY <1>4, <4>1, LendingAssumption DEF LoanIndex, LoanIds
        <4>3. loans[i].borrower # w
          BY <1>3, <4>2
        <4> QED BY <1>4, <1>5, <4>1, <4>2, <4>3
      <3> QED BY <3>1, <3>2
    <2>4. ASSUME NEW i \in LoanIds, i > loanCounter'
          PROVE  loans'[i] = ZeroLoan
      <3>1. i # id /\ i > loanCounter
        BY <1>2, <2>4, LendingAssumption DEF Inv, TypeOK, LoanIds
      <3> QED BY <1>4, <1>6, <3>1 DEF LoanIndex
    <2> QED BY <2>2, <2>3, <2>4 DEF LoanIndex
  <1>8. setLoanActive(w) /\ UNCHANGED <<shares, totalSupply, totalDeposited, poolBalance,
                                        unreported, adminVars, envVars>>
    BY DEF requestLoan
  <1>9. SBTTypeOK' /\ \A v \in Wallets : SameRecord(v)
    BY <1>8, SetLoanActiveStep DEF Inv, TypeOK
  <1>10. DefaultsCleanly'
    <2>1. \A v \in Wallets : CleanAt(v)
      BY CleanAtEach DEF Inv
    <2>2. profiles'[w].exists /\ profiles'[w].defaultCount = 0
      BY <1>3, <1>9 DEF SameRecord
    <2>3. CleanAt(w)'
      <3>1. profiles'[w].defaultCount <= 1
        BY <2>2
      <3> QED BY <2>2, <3>1, Zenon DEF CleanAt
    <2>4. \A v \in Wallets \ {w} : activeLoanId'[v] = activeLoanId[v]
      BY <1>4, <1>5
    <2>5. \A v \in Wallets : CleanAt(v)'
      BY <1>9, <2>1, <2>3, <2>4, SameRecordClean
    <2> QED BY <2>5 DEF DefaultsCleanly, CleanAt
  <1>11. LPInv'
    <2>1. LPInv
      BY DEF Inv, TypeOK, LPInv
    <2>2. CASE poolSet
      BY <1>1, <1>8, <2>1, <2>2, RecordBorrowInv DEF requestLoan
    <2>3. CASE ~poolSet
      <3>1. UNCHANGED totalBorrowed
        BY <2>3 DEF requestLoan
      <3> QED BY <1>8, <2>1, <3>1, LPStutterInv DEF lpVars
    <2> QED BY <2>2, <2>3
  <1>12. StartedInPast'
    <2>1. UNCHANGED now
      BY <1>8 DEF envVars
    <2> QED BY <1>4, <1>6, <2>1 DEF StartedInPast
  <1>13. loans' \in [LoanIds -> Loan] /\ activeLoanId' \in [Wallets -> 0 .. MaxLoans]
    BY <1>2, <1>4, <1>5, <1>6
  <1>14. liquidity' \in Nat /\ collateralHeld' \in Nat
    BY <1>1 DEF Inv, TypeOK, requestLoan
  <1>15. TypeOK'
    BY <1>2, <1>8, <1>9, <1>11, <1>13, <1>14 DEF Inv, TypeOK, LPInv, adminVars, envVars
  <1> QED BY <1>7, <1>10, <1>11, <1>12, <1>15 DEF Inv, LPInv
-----------------------------------------------------------------------------
LEMMA AdminInv == Inv /\ AdminStep => Inv'
  <1> SUFFICES ASSUME Inv, AdminStep PROVE Inv'
    OBVIOUS
  <1>1. UNCHANGED <<sbtVars, lpVars, marketVars, envVars>>
    BY DEF AdminStep
  <1>2. /\ baseRate' \in Nat /\ liquidationThreshold' \in Nat
        /\ paused' \in BOOLEAN /\ poolSet' \in BOOLEAN
    BY LendingAssumption DEF AdminStep, Inv, TypeOK, setLiquidityPool, setLiquidationParams,
                             setBaseRate, pause, unpause
  <1> QED BY <1>1, <1>2 DEF Inv, TypeOK, SBTTypeOK, LPTypeOK, RedeemAtPar, LoanIndex, ActiveLoans,
             DefaultsCleanly, StartedInPast, sbtVars, lpVars, marketVars, envVars

LEMMA PoolInv == Inv /\ PoolStep => Inv'
  <1> SUFFICES ASSUME Inv, PoolStep PROVE Inv'
    OBVIOUS
  <1>1. UNCHANGED <<sbtVars, marketVars, adminVars, envVars>>
    BY DEF PoolStep
  <1>2. LPInv'
    BY LenderStepInv DEF PoolStep, Inv, TypeOK, LPInv
  <1> QED BY <1>1, <1>2 DEF Inv, TypeOK, LPInv, SBTTypeOK, LoanIndex, ActiveLoans,
             DefaultsCleanly, StartedInPast, sbtVars, adminVars, marketVars, envVars

LEMMA FundInv ==
  ASSUME Inv, NEW a \in Funding, Fund(a)
  PROVE  Inv'
  <1>1. UNCHANGED <<sbtVars, lpVars, loans, activeLoanId, loanCounter, collateralHeld, unreported,
                    adminVars, envVars>>
    BY DEF Fund
  <1>2. liquidity' \in Nat
    BY LendingAssumption DEF Fund, Inv, TypeOK
  <1> QED BY <1>1, <1>2 DEF Inv, TypeOK, SBTTypeOK, LPTypeOK, RedeemAtPar, LoanIndex, ActiveLoans,
             DefaultsCleanly, StartedInPast, sbtVars, lpVars, adminVars, envVars

LEMMA EnvironmentInv == Inv /\ Environment => Inv'
  <1> SUFFICES ASSUME Inv, Environment PROVE Inv'
    OBVIOUS
  <1>1. UNCHANGED <<sbtVars, lpVars, marketVars, adminVars>>
    BY DEF Environment
  <1>2. price' \in Nat /\ now' \in 0 .. MaxTime /\ now' >= now
    <2>1. price \in Nat /\ now \in Nat /\ now <= MaxTime /\ MaxTime \in Nat /\ Prices \subseteq Nat
      BY LendingAssumption DEF Inv, TypeOK
    <2>2. CASE price' \in Prices /\ now' = now
      BY <2>1, <2>2
    <2>3. CASE now < MaxTime /\ now' = now + 1 /\ price' = price
      BY <2>1, <2>3
    <2> QED BY <2>2, <2>3 DEF Environment
  <1>3. StartedInPast'
    <2>1. \A id \in LoanIds : loans[id].startTime \in Nat
      BY DEF Inv, TypeOK, Loan
    <2> QED BY <1>1, <1>2, <2>1 DEF Inv, TypeOK, StartedInPast, marketVars
  <1> QED BY <1>1, <1>2, <1>3 DEF Inv, TypeOK, SBTTypeOK, LPTypeOK, RedeemAtPar, LoanIndex,
             ActiveLoans, DefaultsCleanly, sbtVars, lpVars, marketVars, adminVars

LEMMA StutterInv == Inv /\ UNCHANGED vars => Inv'
  BY DEF Inv, TypeOK, SBTTypeOK, LPTypeOK, RedeemAtPar, LoanIndex, ActiveLoans,
         DefaultsCleanly, StartedInPast, vars, sbtVars, lpVars, marketVars, adminVars, envVars

LEMMA NextInv == Inv /\ [Next]_vars => Inv'
  <1> SUFFICES ASSUME Inv, [Next]_vars PROVE Inv'
    OBVIOUS
  <1>1. ASSUME NEW w \in Wallets, NEW a \in BorrowAmounts, NEW c \in CollateralAmounts,
               requestLoan(w, a, c)
        PROVE  Inv'
    BY <1>1, RequestInv
  <1>2. ASSUME NEW w \in Wallets, NEW id \in LoanIds, repayLoan(w, id)
        PROVE  Inv'
    BY <1>2, RepayInv
  <1>3. ASSUME NEW w \in Wallets, ProfileStep(w)
        PROVE  Inv'
    BY <1>3, ProfileStepInv
  <1>4. ASSUME NEW id \in LoanIds, liquidate(id)
        PROVE  Inv'
    BY <1>4, LiquidateInv
  <1>5. CASE AdminStep
    BY <1>5, AdminInv
  <1>6. CASE PoolStep
    BY <1>6, PoolInv
  <1>7. ASSUME NEW a \in Funding, Fund(a)
        PROVE  Inv'
    BY <1>7, FundInv
  <1>8. CASE Environment
    BY <1>8, EnvironmentInv
  <1>9. CASE UNCHANGED vars
    BY <1>9, StutterInv
  <1> QED BY <1>1, <1>2, <1>3, <1>4, <1>5, <1>6, <1>7, <1>8, <1>9 DEF Next

LEMMA InvariantHolds == Spec => []Inv
  BY InitInv, NextInv, PTL DEF Spec

(* Type correctness of the hub: in particular no subtraction of the        *)
(* contracts goes below zero and no uint8 counter past its limit.          *)
THEOREM TypeCorrect == Spec => []TypeOK
  <1>1. Inv => TypeOK
    BY DEF Inv
  <1> QED BY InvariantHolds, <1>1, PTL

(* activeLoanId indexes exactly the open loans, one per wallet.            *)
THEOREM OneLoanPerWallet == Spec => []LoanIndex
  <1>1. Inv => LoanIndex
    BY DEF Inv
  <1> QED BY InvariantHolds, <1>1, PTL

(* A wallet with an open hub loan has a clean record, and nobody's default *)
(* is counted twice before it is forgiven.                                 *)
THEOREM DefaultCountedOnce == Spec => []DefaultsCleanly
  <1>1. Inv => DefaultsCleanly
    BY DEF Inv
  <1> QED BY InvariantHolds, <1>1, PTL

(* Every LP share of the hub's pool stays worth one token.                 *)
THEOREM HubSharesAtPar == Spec => []RedeemAtPar
  <1>1. Inv => RedeemAtPar
    BY DEF Inv
  <1> QED BY InvariantHolds, <1>1, PTL

(* A loan opens within its tier's loan-to-value, and below the deployed    *)
(* liquidation threshold for every tier but the highest.                   *)
LEMMA RequestHealthy ==
  ASSUME Inv, NEW w \in Wallets, NEW a \in BorrowAmounts, NEW c \in CollateralAmounts,
         requestLoan(w, a, c), NEW id \in LoanIds, Opened(id)
  PROVE  LET ltv   == (loans'[id].borrowedAmount * Bps)
                        \div getValueUSD(loans'[id].collateralAmount)
             score == profiles[loans'[id].borrower].score
         IN  getValueUSD(loans'[id].collateralAmount) > 0 =>
               /\ ltv <= loans'[id].maxLTV
               /\ score < scoreTiers[6] => ltv < 8500
  <1> DEFINE l == loans'[id]
             v == getValueUSD(c)
             t == getLTVForScore(profiles[w].score)
  <1>1. a \in Nat /\ c \in Nat /\ price \in Nat /\ v \in Nat
    BY LendingAssumption DEF Inv, TypeOK, getValueUSD
  <1>2. PICK sc \in Nat : sc = profiles[w].score
    BY DEF Inv, TypeOK, SBTTypeOK, Profile
  <1>3. t \in Nat /\ (sc < 750 => t <= 7500)
    <2>1. /\ getLTVForScore(sc) \in {0, 4000, 5000, 6000, 6500, 7500, 8500}
          /\ sc < 750 => getLTVForScore(sc) <= 7500
      BY LTVOfScore
    <2>2. t = getLTVForScore(sc)
      BY <1>2
    <2> HIDE DEF t
    <2> QED BY <2>1, <2>2
  <1>4. id = loanCounter + 1
    <2>1. loans \in [LoanIds -> Loan]
      BY DEF Inv, TypeOK
    <2> QED BY <2>1 DEF requestLoan, Opened
  <1>5. l.borrower = w /\ l.collateralAmount = c /\ l.borrowedAmount = a /\ l.maxLTV = t
    <2> HIDE DEF t
    <2>1. loans \in [LoanIds -> Loan]
      BY DEF Inv, TypeOK
    <2> QED BY <1>4, <2>1 DEF requestLoan, t
  <1>6. a <= MaxBorrow(v, t)
    BY DEF requestLoan
  <1> HIDE DEF l, v, t
  <1>7. v > 0 => LTV(a, v) <= t
    BY <1>1, <1>3, <1>6, OpeningWithinTier
  <1>8. v > 0 => LTV(a, v) \in Nat
    <2>1. a * Bps \in Nat
      BY <1>1 DEF Bps
    <2> QED BY <1>1, <2>1, DivNat DEF LTV
  <1>9. v > 0 => LTV(a, v) <= t /\ (sc < scoreTiers[6] => LTV(a, v) < 8500)
    BY <1>3, <1>7, <1>8, TierValues
  <1> QED BY <1>2, <1>5, <1>9 DEF LTV, v, l

THEOREM LoansOpenHealthy == Spec => OpensHealthy
  <1> DEFINE Healthy(id) ==
        LET ltv   == (loans'[id].borrowedAmount * Bps)
                       \div getValueUSD(loans'[id].collateralAmount)
            score == profiles[loans'[id].borrower].score
        IN  getValueUSD(loans'[id].collateralAmount) > 0 =>
              /\ ltv <= loans'[id].maxLTV
              /\ score < scoreTiers[6] => ltv < 8500
  <1>1. Inv /\ Next => \A id \in LoanIds : Opened(id) => Healthy(id)
    <2> SUFFICES ASSUME Inv, Next, NEW id \in LoanIds, Opened(id) PROVE Healthy(id)
      OBVIOUS
    <2> HIDE DEF Healthy
    <2>1. ASSUME NEW w \in Wallets, NEW a \in BorrowAmounts, NEW c \in CollateralAmounts,
                 requestLoan(w, a, c)
          PROVE  Healthy(id)
      BY <2>1, RequestHealthy DEF Healthy
    <2>2. ASSUME NEW i \in LoanIds, CloseLoan(i)
          PROVE  FALSE
      <3>1. loans \in [LoanIds -> Loan] /\ loans' = [loans EXCEPT ![i].active = FALSE]
        BY <2>2 DEF Inv, TypeOK, CloseLoan
      <3>2. CASE id = i
        BY <3>1, <3>2 DEF Opened, Loan
      <3>3. CASE id # i
        BY <3>1, <3>3 DEF Opened
      <3> QED BY <3>2, <3>3
    <2>3. ASSUME UNCHANGED loans
          PROVE  FALSE
      BY <2>3 DEF Opened
    <2> QED BY <2>1, <2>2, <2>3 DEF Next, repayLoan, liquidate, ProfileStep, AdminStep, PoolStep,
               Fund, Environment, marketVars
  <1>2. Inv /\ [Next]_vars => [\A id \in LoanIds : Opened(id) => Healthy(id)]_vars
    BY <1>1
  <1>3. OpensHealthy <=> [][\A id \in LoanIds : Opened(id) => Healthy(id)]_vars
    BY DEF OpensHealthy
  <1> HIDE DEF Healthy
  <1> QED BY InvariantHolds, <1>2, <1>3, PTL DEF Spec
-----------------------------------------------------------------------------
(* Sums over the open loans, and over those the pool may still count.      *)

(* A loan closed unreported is closed: it is neither open nor unused.      *)
UnreportedClosed ==
  /\ unreported \subseteq LoanIds
  /\ \A id \in unreported : id <= loanCounter /\ ~loans[id].active

LEMMA CountedFinite ==
  ASSUME UnreportedClosed
  PROVE  IsFiniteSet(Counted) /\ Counted \subseteq LoanIds
  <1>1. IsFiniteSet(LoanIds)
    BY FS_Interval, LendingAssumption DEF LoanIds
  <1>2. Counted \subseteq LoanIds
    BY DEF UnreportedClosed, Counted, ActiveLoans
  <1> QED BY <1>1, <1>2, FS_Subset

LEMMA OpenLoansFinite == IsFiniteSet(ActiveLoans) /\ ActiveLoans \subseteq LoanIds
  <1>1. IsFiniteSet(LoanIds)
    BY FS_Interval, LendingAssumption DEF LoanIds
  <1>2. ActiveLoans \subseteq LoanIds
    BY DEF ActiveLoans
  <1> QED BY <1>1, <1>2, FS_Subset

LEMMA AmountsNat ==
  ASSUME Inv
  PROVE  \A id \in LoanIds : /\ collaterals[id] = loans[id].collateralAmount
                             /\ principals[id] = loans[id].borrowedAmount
                             /\ collaterals[id] \in Nat /\ principals[id] \in Nat
  <1> SUFFICES ASSUME NEW id \in LoanIds
               PROVE  /\ collaterals[id] = loans[id].collateralAmount
                      /\ principals[id] = loans[id].borrowedAmount
                      /\ collaterals[id] \in Nat /\ principals[id] \in Nat
    OBVIOUS
  <1>1. loans[id] \in Loan
    BY DEF Inv, TypeOK
  <1>2. loans[id].collateralAmount \in Nat /\ loans[id].borrowedAmount \in Nat
    BY <1>1 DEF Loan
  <1> QED BY <1>2 DEF collaterals, principals

(* A request adds one term to both sums.                                   *)
LEMMA RequestSums ==
  ASSUME Inv, UnreportedClosed,
         NEW w \in Wallets, NEW a \in BorrowAmounts, NEW c \in CollateralAmounts,
         requestLoan(w, a, c)
  PROVE  /\ SumFunctionOnSet(collaterals, ActiveLoans)' =
              SumFunctionOnSet(collaterals, ActiveLoans) + c
         /\ SumFunctionOnSet(principals, Counted)' =
              SumFunctionOnSet(principals, Counted) + a
         /\ SumFunctionOnSet(collaterals, ActiveLoans) \in Nat
         /\ SumFunctionOnSet(principals, Counted) \in Nat
         /\ UnreportedClosed'
         /\ a \in Nat /\ c \in Nat
  <1>1. PICK id \in LoanIds : id = loanCounter + 1
    BY LendingAssumption DEF Inv, TypeOK, LoanIds, requestLoan
  <1>2. loans \in [LoanIds -> Loan] /\ loans[id] = ZeroLoan
    <2>1. id > loanCounter
      BY <1>1 DEF Inv, TypeOK
    <2> QED BY <2>1 DEF Inv, TypeOK, LoanIndex
  <1>3. /\ loans'[id].collateralAmount = c /\ loans'[id].borrowedAmount = a
        /\ loans'[id].active
        /\ \A i \in LoanIds \ {id} : loans'[i] = loans[i]
    BY <1>1, <1>2 DEF requestLoan
  <1>4. a \in Nat /\ c \in Nat
    BY LendingAssumption
  <1>5. PICK S, R, f, g, p, q : /\ S = ActiveLoans /\ R = Counted
                                /\ f = collaterals /\ g = collaterals'
                                /\ p = principals /\ q = principals'
    OBVIOUS
  <1>6. id \notin S /\ ActiveLoans' = S \cup {id} /\ S \subseteq LoanIds
    BY <1>2, <1>3, <1>5 DEF ActiveLoans, ZeroLoan
  <1>7. UNCHANGED unreported /\ id \notin unreported /\ loanCounter' = id
    BY <1>1 DEF requestLoan, UnreportedClosed, Inv, TypeOK
  <1>8. id \notin R /\ Counted' = R \cup {id}
    BY <1>5, <1>6, <1>7 DEF Counted
  <1>9. IsFiniteSet(S) /\ IsFiniteSet(R) /\ R \subseteq LoanIds
    BY <1>5, OpenLoansFinite, CountedFinite
  <1>10. /\ \A i \in S : f[i] \in Nat /\ g[i] = f[i]
         /\ \A i \in R : p[i] \in Nat /\ q[i] = p[i]
         /\ g[id] = c /\ q[id] = a
    <2>1. (\A i \in S : f[i] \in Nat) /\ (\A i \in R : p[i] \in Nat)
      BY <1>5, <1>6, <1>9, AmountsNat
    <2>2. \A i \in S \cup R : loans'[i] = loans[i]
      BY <1>3, <1>6, <1>8, <1>9
    <2> QED BY <1>3, <1>5, <1>6, <1>9, <2>1, <2>2 DEF collaterals, principals
  <1>11. /\ SumFunctionOnSet(f, S) \in Nat
         /\ SumFunctionOnSet(g, S \cup {id}) = SumFunctionOnSet(f, S) + c
    <2>0. IsFiniteSet(S) /\ g[id] \in Nat
      BY <1>4, <1>9, <1>10
    <2>1. id \notin S /\ (\A i \in S : f[i] \in Nat) /\ (\A i \in S : g[i] = f[i])
      BY <1>6, <1>10
    <2>2. SumFunctionOnSet(f, S) \in Nat
      BY <2>0, <2>1, SumNat
    <2>3. SumFunctionOnSet(g, S \cup {id}) = SumFunctionOnSet(f, S) + g[id]
      BY <2>0, <2>1, SumGains
    <2> QED BY <1>10, <2>2, <2>3
  <1>12. /\ SumFunctionOnSet(p, R) \in Nat
         /\ SumFunctionOnSet(q, R \cup {id}) = SumFunctionOnSet(p, R) + a
    <2>0. IsFiniteSet(R) /\ q[id] \in Nat
      BY <1>4, <1>9, <1>10
    <2>1. id \notin R /\ (\A i \in R : p[i] \in Nat) /\ (\A i \in R : q[i] = p[i])
      BY <1>8, <1>10
    <2>2. SumFunctionOnSet(p, R) \in Nat
      BY <2>0, <2>1, SumNat
    <2>3. SumFunctionOnSet(q, R \cup {id}) = SumFunctionOnSet(p, R) + q[id]
      BY <2>0, <2>1, SumGains
    <2> QED BY <1>10, <2>2, <2>3
  <1>13. UnreportedClosed'
    <2>1. loanCounter \in Nat /\ \A i \in unreported : i \in Nat /\ loans'[i] = loans[i]
      BY <1>3, <1>7 DEF UnreportedClosed, Inv, TypeOK, LoanIds
    <2> QED BY <1>1, <1>7, <2>1 DEF UnreportedClosed
  <1> QED BY <1>4, <1>5, <1>6, <1>8, <1>11, <1>12, <1>13

(* A loan that closes takes its term out of the first sum, and out of the  *)
(* second one if the pool is told.                                         *)
LEMMA CloseSums ==
  ASSUME Inv, UnreportedClosed, NEW id \in LoanIds, loans[id].active, CloseLoan(id)
  PROVE  /\ SumFunctionOnSet(collaterals, ActiveLoans) =
              loans[id].collateralAmount + SumFunctionOnSet(collaterals, ActiveLoans)'
         /\ poolSet => SumFunctionOnSet(principals, Counted) =
              loans[id].borrowedAmount + SumFunctionOnSet(principals, Counted)'
         /\ ~poolSet => SumFunctionOnSet(principals, Counted)' = SumFunctionOnSet(principals, Counted)
         /\ SumFunctionOnSet(collaterals, ActiveLoans)' \in Nat
         /\ SumFunctionOnSet(principals, Counted)' \in Nat
         /\ loans[id].borrowedAmount \in Nat /\ loans[id].collateralAmount \in Nat
         /\ UnreportedClosed'
  <1>1. loans \in [LoanIds -> Loan] /\ loans' = [loans EXCEPT ![id].active = FALSE]
    BY DEF Inv, TypeOK, CloseLoan
  <1>2. /\ \A i \in LoanIds : /\ loans'[i].collateralAmount = loans[i].collateralAmount
                              /\ loans'[i].borrowedAmount = loans[i].borrowedAmount
        /\ ~loans'[id].active
        /\ \A i \in LoanIds \ {id} : loans'[i] = loans[i]
    BY <1>1 DEF Loan
  <1>3. PICK S, R, f, h : S = ActiveLoans /\ R = Counted /\ f = collaterals /\ h = principals
    OBVIOUS
  <1>4. collaterals' = f /\ principals' = h
    BY <1>2, <1>3 DEF collaterals, principals
  <1>5. ActiveLoans' = S \ {id} /\ id \in S
    BY <1>2, <1>3 DEF ActiveLoans
  <1>6. id \in R /\ id \notin unreported
    BY <1>3, <1>5 DEF Counted, UnreportedClosed
  <1>7. Counted' = IF poolSet THEN R \ {id} ELSE R
    BY <1>3, <1>5, <1>6 DEF Counted, CloseLoan, ReportClosed
  <1>8. IsFiniteSet(S) /\ S \subseteq LoanIds /\ IsFiniteSet(R) /\ R \subseteq LoanIds
    BY <1>3, OpenLoansFinite, CountedFinite
  <1>9. (\A i \in S : f[i] \in Nat) /\ (\A i \in R : h[i] \in Nat)
    BY <1>3, <1>8, AmountsNat
  <1>10. /\ SumFunctionOnSet(f, S \ {id}) \in Nat
         /\ SumFunctionOnSet(f, S) = f[id] + SumFunctionOnSet(f, S \ {id})
    <2>1. \A i \in S : f[i] \in Nat
      BY <1>9
    <2> QED BY <1>5, <1>8, <2>1, SumTakeOut
  <1>11. /\ SumFunctionOnSet(h, R \ {id}) \in Nat
         /\ SumFunctionOnSet(h, R) = h[id] + SumFunctionOnSet(h, R \ {id})
         /\ SumFunctionOnSet(h, R) \in Nat
    <2>1. \A i \in R : h[i] \in Nat
      BY <1>9
    <2> QED BY <1>6, <1>8, <2>1, SumTakeOut, SumNat
  <1>12. /\ f[id] = loans[id].collateralAmount /\ h[id] = loans[id].borrowedAmount
         /\ f[id] \in Nat /\ h[id] \in Nat
    BY <1>3, AmountsNat
  <1>13. UnreportedClosed'
    <2>1. id <= loanCounter /\ UNCHANGED loanCounter
      <3>1. loans[id] # ZeroLoan /\ id \in Int /\ loanCounter \in Int
        BY DEF ZeroLoan, LoanIds, Inv, TypeOK
      <3> QED BY <3>1 DEF Inv, LoanIndex, CloseLoan
    <2>2. unreported' \subseteq unreported \cup {id}
      BY DEF CloseLoan, ReportClosed
    <2> QED BY <1>2, <2>1, <2>2 DEF UnreportedClosed
  <1> QED BY <1>3, <1>4, <1>5, <1>7, <1>10, <1>11, <1>12, <1>13

(* A loan the pool was not told of at its end keeps its principal in the   *)
(* pool's count: without it the bound on the count would not survive the   *)
(* pool's disconnection.                                                   *)
BooksInv == CollateralBacked /\ PoolDebtBacked /\ UnreportedClosed

LEMMA BooksInit == Init => BooksInv
  <1> SUFFICES ASSUME Init PROVE BooksInv
    OBVIOUS
  <1>1. ActiveLoans = {} /\ unreported = {} /\ Counted = {}
    BY DEF Init, ActiveLoans, ZeroLoan, Counted
  <1>2. /\ SumFunctionOnSet(collaterals, {}) = 0
        /\ SumFunctionOnSet(principals, {}) = 0
    <2>1. \A f : SumFunctionOnSet(f, {}) = 0
      BY SumEmpty
    <2> QED BY <2>1
  <1> QED BY <1>1, <1>2
      DEF Init, LPInit, BooksInv, CollateralBacked, PoolDebtBacked, UnreportedClosed

LEMMA BooksQuiet ==
  ASSUME BooksInv, UNCHANGED <<loans, loanCounter, collateralHeld, totalBorrowed, unreported>>
  PROVE  BooksInv'
  BY DEF BooksInv, CollateralBacked, PoolDebtBacked, UnreportedClosed, ActiveLoans, Counted,
         collaterals, principals

LEMMA RequestBooks ==
  ASSUME Inv, BooksInv, NEW w \in Wallets, NEW a \in BorrowAmounts, NEW c \in CollateralAmounts,
         requestLoan(w, a, c)
  PROVE  BooksInv'
  <1> DEFINE C == SumFunctionOnSet(collaterals, ActiveLoans)
             P == SumFunctionOnSet(principals, Counted)
  <1>1. /\ C' = C + c /\ P' = P + a /\ C \in Nat /\ P \in Nat /\ a \in Nat /\ c \in Nat
        /\ UnreportedClosed'
    BY RequestSums DEF BooksInv
  <1>2. C <= collateralHeld /\ totalBorrowed <= P
    BY DEF BooksInv, CollateralBacked, PoolDebtBacked
  <1>3. collateralHeld \in Nat /\ totalBorrowed \in Nat
    BY DEF Inv, TypeOK, LPTypeOK
  <1>4. /\ collateralHeld' = collateralHeld + c
        /\ totalBorrowed' = IF poolSet THEN totalBorrowed + a ELSE totalBorrowed
    BY DEF requestLoan, recordBorrow
  <1> HIDE DEF C, P
  <1>5. C' <= collateralHeld' /\ totalBorrowed' <= P'
    BY <1>1, <1>2, <1>3, <1>4
  <1> QED BY <1>1, <1>5 DEF BooksInv, CollateralBacked, PoolDebtBacked, C, P

LEMMA CloseBooks ==
  ASSUME Inv, BooksInv, NEW id \in LoanIds, loans[id].active, CloseLoan(id),
         \/ collateralHeld' = collateralHeld
         \/ collateralHeld' = collateralHeld - loans[id].collateralAmount
  PROVE  BooksInv'
  <1> DEFINE C == SumFunctionOnSet(collaterals, ActiveLoans)
             P == SumFunctionOnSet(principals, Counted)
  <1>1. PICK c \in Nat, a \in Nat :
          /\ c = loans[id].collateralAmount /\ a = loans[id].borrowedAmount
          /\ C = c + C' /\ C' \in Nat /\ P' \in Nat
          /\ poolSet => P = a + P'
          /\ ~poolSet => P' = P
    BY CloseSums DEF BooksInv
  <1>2. C <= collateralHeld /\ totalBorrowed <= P
    BY DEF BooksInv, CollateralBacked, PoolDebtBacked
  <1>3. collateralHeld \in Nat /\ totalBorrowed \in Nat
    BY DEF Inv, TypeOK, LPTypeOK
  <1>4. IF poolSet
        THEN totalBorrowed' = IF totalBorrowed > a THEN totalBorrowed - a ELSE 0
        ELSE totalBorrowed' = totalBorrowed
    BY <1>1 DEF CloseLoan, ReportClosed, recordRepayment
  <1> HIDE DEF C, P
  <1>5. C' <= collateralHeld'
    BY <1>1, <1>2, <1>3
  <1>6. totalBorrowed' <= P'
    BY <1>1, <1>2, <1>3, <1>4
  <1>7. UnreportedClosed'
    BY CloseSums DEF BooksInv
  <1> QED BY <1>5, <1>6, <1>7 DEF BooksInv, CollateralBacked, PoolDebtBacked, C, P

LEMMA NextBooks == Inv /\ BooksInv /\ [Next]_vars => BooksInv'
  <1> SUFFICES ASSUME Inv, BooksInv, [Next]_vars PROVE BooksInv'
    OBVIOUS
  <1>1. ASSUME NEW w \in Wallets, NEW a \in BorrowAmounts, NEW c \in CollateralAmounts,
               requestLoan(w, a, c)
        PROVE  BooksInv'
    BY <1>1, RequestBooks
  <1>2. ASSUME NEW w \in Wallets, NEW id \in LoanIds, repayLoan(w, id)
        PROVE  BooksInv'
    BY <1>2, CloseBooks DEF repayLoan
  <1>3. ASSUME NEW id \in LoanIds, liquidate(id)
        PROVE  BooksInv'
    BY <1>3, CloseBooks DEF liquidate
  <1>4. ASSUME NEW w \in Wallets, ProfileStep(w)
        PROVE  BooksInv'
    BY <1>4, BooksQuiet DEF ProfileStep, lpVars, marketVars
  <1>5. CASE AdminStep
    BY <1>5, BooksQuiet DEF AdminStep, lpVars, marketVars
  <1>6. CASE PoolStep
    <2>1. UNCHANGED totalBorrowed
      BY <1>6 DEF PoolStep, LenderStep, deposit, withdraw
    <2> QED BY <1>6, <2>1, BooksQuiet DEF PoolStep, marketVars
  <1>7. ASSUME NEW a \in Funding, Fund(a)
        PROVE  BooksInv'
    BY <1>7, BooksQuiet DEF Fund, lpVars
  <1>8. CASE Environment \/ UNCHANGED vars
    BY <1>8, BooksQuiet DEF Environment, vars, lpVars, marketVars
  <1> QED BY <1>1, <1>2, <1>3, <1>4, <1>5, <1>6, <1>7, <1>8 DEF Next

LEMMA BooksHold == Spec => []BooksInv
  BY InvariantHolds, BooksInit, NextBooks, PTL DEF Spec

(* The collateral of all open loans together is in the contract, for any   *)
(* number of loans, however repaid and liquidated (CredFlowLending).       *)
THEOREM CollateralIsThere == Spec => []CollateralBacked
  <1>1. BooksInv => CollateralBacked
    BY DEF BooksInv
  <1> QED BY BooksHold, <1>1, PTL

(* The pool's count of what is lent never exceeds the principal of the     *)
(* open loans and of those closed while it was disconnected, however often *)
(* it is connected and disconnected (CredFlowLP, CredFlowLending).         *)
THEOREM PoolDebtIsOwed == Spec => []PoolDebtBacked
  <1>1. BooksInv => PoolDebtBacked
    BY DEF BooksInv
  <1> QED BY BooksHold, <1>1, PTL
-----------------------------------------------------------------------------
(* Refinement: the hub market implements CreditLine.                       *)

(* A wallet whose record, index and principal stay keeps its line.         *)
SameLine(v) == Line(v)' = Line(v) /\ Debt(v)' = Debt(v)

LEMMA SameLineIf ==
  ASSUME NEW v \in Wallets, SameRecord(v), activeLoanId'[v] = activeLoanId[v],
         activeLoanId[v] # 0 =>
           loans'[activeLoanId[v]].borrowedAmount = loans[activeLoanId[v]].borrowedAmount
  PROVE  SameLine(v)
  <1>1. Debt(v)' = Debt(v)
    BY DEF Debt
  <1>2. profiles'[v].defaultCount = profiles[v].defaultCount
    BY DEF SameRecord
  <1>3. profiles'[v].exists <=> profiles[v].exists
    BY DEF SameRecord
  <1>4. Line(v)' = Line(v)
    BY <1>2, <1>3 DEF Line
  <1> QED BY <1>1, <1>4 DEF SameLine

LEMMA MapsStutter ==
  ASSUME \A v \in Wallets : SameLine(v)
  PROVE  lineMap' = lineMap /\ debtMap' = debtMap
  BY DEF SameLine, lineMap, debtMap

(* One wallet's line and debt change, the others' stay.                    *)
LEMMA MapsMove ==
  ASSUME NEW w \in Wallets, \A v \in Wallets \ {w} : SameLine(v)
  PROVE  /\ lineMap' = [lineMap EXCEPT ![w] = Line(w)']
         /\ debtMap' = [debtMap EXCEPT ![w] = Debt(w)']
         /\ lineMap[w] = Line(w) /\ debtMap[w] = Debt(w)
  BY DEF SameLine, lineMap, debtMap

LEMMA InitRefines == Init => Credit!Init
  <1> SUFFICES ASSUME Init PROVE Credit!Init
    OBVIOUS
  <1>1. \A w \in Wallets : activeLoanId[w] = 0 /\ ~profiles[w].exists
    BY DEF Init, SBTInit, ZeroProfile
  <1>2. \A w \in Wallets : Line(w) = "none" /\ Debt(w) = 0
    BY <1>1 DEF Line, Debt
  <1>3. liquidity \in Nat
    BY DEF Init
  <1> QED BY <1>2, <1>3 DEF Credit!Init, lineMap, debtMap

LEMMA ProfileStepRefines ==
  ASSUME Inv, NEW w \in Wallets, ProfileStep(w)
  PROVE  Credit!Next \/ UNCHANGED Credit!lineVars
  <1>1. UNCHANGED <<activeLoanId, loans, liquidity>>
    BY DEF ProfileStep, marketVars
  <1>2. SBTTypeOK /\ \A v \in Wallets : CleanAt(v)
    BY CleanAtEach DEF Inv, TypeOK
  <1>3. ASSUME \A v \in Wallets : SameRecord(v)
        PROVE  UNCHANGED Credit!lineVars
    <2>1. \A v \in Wallets : SameLine(v)
      BY <1>1, <1>3, SameLineIf
    <2> QED BY <1>1, <2>1, MapsStutter DEF Credit!lineVars
  <1>4. ASSUME \A v \in Wallets \ {w} : SameRecord(v)
        PROVE  /\ lineMap' = [lineMap EXCEPT ![w] = Line(w)']
               /\ debtMap' = debtMap
               /\ lineMap[w] = Line(w)
    <2>1. \A v \in Wallets \ {w} : SameLine(v)
      BY <1>1, <1>4, SameLineIf
    <2>2. \A v \in Wallets : Debt(v)' = Debt(v)
      BY <1>1 DEF Debt
    <2> QED BY <2>1, <2>2, MapsMove DEF debtMap
  <1>5. ASSUME NEW s \in Nat, mintSBT(w, s)
        PROVE  Credit!Next
    <2>1. /\ ~profiles[w].exists
          /\ profiles'[w].exists /\ profiles'[w].defaultCount = 0
          /\ \A v \in Wallets \ {w} : SameRecord(v)
      BY <1>2, <1>5, MintStep
    <2>2. activeLoanId[w] = 0
      BY <1>2, <2>1, Zenon DEF CleanAt
    <2>3. Line(w) = "none"
      BY <2>1, <2>2 DEF Line
    <2>4. Line(w)' = "clear"
      BY <1>1, <2>1, <2>2 DEF Line
    <2>5. Credit!Grant(w)
      BY <1>1, <1>4, <2>1, <2>3, <2>4 DEF Credit!Grant
    <2> QED BY <2>5 DEF Credit!Next
  <1>6. ASSUME whitelistWallet(w)
        PROVE  Credit!Next \/ UNCHANGED Credit!lineVars
    <2>1. /\ profiles[w].exists /\ profiles'[w].defaultCount = 0
          /\ profiles'[w].exists <=> profiles[w].exists
          /\ \A v \in Wallets \ {w} : SameRecord(v)
      BY <1>2, <1>6, WhitelistStep
    <2>2. CASE profiles[w].defaultCount = 0
      <3>1. SameRecord(w)
        BY <2>1, <2>2 DEF SameRecord
      <3> QED BY <1>3, <2>1, <3>1
    <2>3. CASE profiles[w].defaultCount # 0
      <3>1. activeLoanId[w] = 0
        BY <1>2, <2>3 DEF CleanAt
      <3>2. profiles[w].defaultCount > 0
        BY <1>2, <2>3, SBTAssumption DEF SBTTypeOK, Profile
      <3>3. Line(w) = "defaulted"
        BY <2>1, <3>1, <3>2 DEF Line
      <3>4. Line(w)' = "clear"
        BY <1>1, <2>1, <3>1 DEF Line
      <3>5. Credit!Pardon(w)
        BY <1>1, <1>4, <2>1, <3>3, <3>4 DEF Credit!Pardon
      <3> QED BY <3>5 DEF Credit!Next
    <2> QED BY <2>2, <2>3
  <1>7. CASE \E p \in DefaultProbs, c \in BalancesCents, rescore \in BOOLEAN :
               mintScore(w, p, c, rescore)
    <2>1. PICK p \in DefaultProbs, c \in BalancesCents, rescore \in BOOLEAN :
                 mintScore(w, p, c, rescore)
      BY <1>7
    <2>2. computeCredScore(p, c) \in Nat
      <3>1. p \in Nat /\ c \in Nat
        BY LendingAssumption
      <3>2. computeCredScore(p, c) \in MinScore .. MaxScore
        BY <3>1, ScoreInRange
      <3> QED BY <3>2 DEF MinScore, MaxScore
    <2>3. CASE rescore
      <3>1. updateScore(w, computeCredScore(p, c))
        BY <2>1, <2>3 DEF mintScore
      <3> QED BY <1>2, <1>3, <2>2, <3>1, UpdateScoreStep
    <2>4. CASE ~rescore
      <3>1. mintSBT(w, computeCredScore(p, c))
        BY <2>1, <2>4 DEF mintScore
      <3> QED BY <1>5, <2>2, <3>1
    <2> QED BY <2>3, <2>4
  <1>8. CASE \E s \in Scores : updateScore(w, s)
    <2>1. PICK s \in Scores : updateScore(w, s)
      BY <1>8
    <2>2. s \in Nat
      BY LendingAssumption
    <2> QED BY <1>2, <1>3, <2>1, <2>2, UpdateScoreStep
  <1>9. CASE setLoanActive(w)
    BY <1>2, <1>3, <1>9, SetLoanActiveStep
  <1>10. CASE setLoanRepaid(w)
    BY <1>2, <1>3, <1>10, SetLoanRepaidStep
  <1>11. CASE \E ws \in SUBSET (Wallets \ {w}) : ws # {} /\ blacklistLinkedWallets(ws)
    BY <1>2, <1>3, <1>11, BlacklistStep
  <1>12. CASE removeFromBlacklist(w)
    BY <1>2, <1>3, <1>12, RemoveFromBlacklistStep
  <1> QED BY <1>6, <1>7, <1>8, <1>9, <1>10, <1>11, <1>12 DEF ProfileStep

LEMMA RequestRefines ==
  ASSUME Inv, NEW w \in Wallets, NEW a \in BorrowAmounts, NEW c \in CollateralAmounts,
         requestLoan(w, a, c)
  PROVE  Credit!Next
  <1>1. PICK id \in LoanIds : id = loanCounter + 1
    BY LendingAssumption DEF Inv, TypeOK, LoanIds, requestLoan
  <1>2. /\ a \in Nat /\ a <= liquidity /\ liquidity' = liquidity - a /\ liquidity \in Nat
        /\ activeLoanId[w] = 0 /\ profiles[w].exists /\ profiles[w].defaultCount = 0
        /\ activeLoanId' = [activeLoanId EXCEPT ![w] = id]
        /\ setLoanActive(w)
    BY <1>1, LendingAssumption DEF Inv, TypeOK, requestLoan
  <1>3. /\ loans \in [LoanIds -> Loan] /\ activeLoanId \in [Wallets -> 0 .. MaxLoans]
        /\ LoanIndex /\ loans[id] = ZeroLoan
    BY <1>1 DEF Inv, TypeOK, LoanIndex
  <1>4. loans'[id].borrowedAmount = a /\ \A i \in LoanIds \ {id} : loans'[i] = loans[i]
    BY <1>1, <1>3 DEF requestLoan
  <1>5. \A v \in Wallets : SameRecord(v)
    BY <1>2, SetLoanActiveStep DEF Inv, TypeOK
  <1>6. ASSUME NEW v \in Wallets \ {w} PROVE SameLine(v)
    <2>1. activeLoanId'[v] = activeLoanId[v]
      BY <1>2, <1>3
    <2>2. activeLoanId[v] # 0 =>
            loans'[activeLoanId[v]].borrowedAmount = loans[activeLoanId[v]].borrowedAmount
      <3> SUFFICES ASSUME activeLoanId[v] # 0
                   PROVE  loans'[activeLoanId[v]] = loans[activeLoanId[v]]
        OBVIOUS
      <3>1. activeLoanId[v] \in LoanIds /\ loans[activeLoanId[v]].active
        BY <1>3 DEF LoanIndex, ActiveLoans
      <3>2. activeLoanId[v] # id
        BY <1>3, <3>1 DEF ZeroLoan
      <3> QED BY <1>4, <3>1, <3>2
    <2> QED BY <1>5, <2>1, <2>2, SameLineIf
  <1>7. id # 0 /\ activeLoanId'[w] = id
    BY <1>2, <1>3, LendingAssumption DEF LoanIds
  <1>8. Line(w) = "clear"
    <2>1. ~(profiles[w].defaultCount > 0)
      BY <1>2
    <2> QED BY <1>2, <2>1 DEF Line
  <1>9. Line(w)' = "borrowed" /\ Debt(w)' = a
    BY <1>4, <1>7 DEF Line, Debt
  <1>10. Credit!Borrow(w)
    <2>1. /\ lineMap' = [lineMap EXCEPT ![w] = "borrowed"]
          /\ debtMap' = [debtMap EXCEPT ![w] = a]
          /\ lineMap[w] = "clear"
      BY <1>6, <1>8, <1>9, MapsMove
    <2>2. a \in 0 .. liquidity
      BY <1>2
    <2> QED BY <1>2, <2>1, <2>2 DEF Credit!Borrow
  <1> QED BY <1>10 DEF Credit!Next

(* Closing the loan of wallet b moves b's line only.                       *)
LEMMA CloseMoves ==
  ASSUME Inv, NEW id \in LoanIds, loans[id].active, CloseLoan(id),
         NEW b \in Wallets, b = loans[id].borrower,
         \A v \in Wallets \ {b} : SameRecord(v)
  PROVE  /\ lineMap' = [lineMap EXCEPT ![b] = Line(b)']
         /\ debtMap' = [debtMap EXCEPT ![b] = 0]
         /\ lineMap[b] = "borrowed"
         /\ debtMap[b] = loans[id].borrowedAmount
         /\ activeLoanId'[b] = 0
         /\ profiles[b].exists
         /\ profiles[b].defaultCount = 0
  <1>1. activeLoanId[b] = id /\ id # 0
    BY OpenLoan
  <1>2. /\ loans \in [LoanIds -> Loan] /\ activeLoanId \in [Wallets -> 0 .. MaxLoans]
        /\ LoanIndex /\ CleanAt(b)
    BY CleanAtEach DEF Inv, TypeOK
  <1>3. /\ activeLoanId' = [activeLoanId EXCEPT ![b] = 0]
        /\ loans' = [loans EXCEPT ![id].active = FALSE]
    BY DEF CloseLoan
  <1>4. \A i \in LoanIds \ {id} : loans'[i] = loans[i]
    BY <1>2, <1>3
  <1>5. ASSUME NEW v \in Wallets \ {b} PROVE SameLine(v)
    <2>1. activeLoanId'[v] = activeLoanId[v]
      BY <1>2, <1>3
    <2>2. activeLoanId[v] # 0 =>
            loans'[activeLoanId[v]].borrowedAmount = loans[activeLoanId[v]].borrowedAmount
      <3> SUFFICES ASSUME activeLoanId[v] # 0
                   PROVE  loans'[activeLoanId[v]] = loans[activeLoanId[v]]
        OBVIOUS
      <3>1. activeLoanId[v] \in LoanIds /\ loans[activeLoanId[v]].borrower = v
        BY <1>2 DEF LoanIndex, ActiveLoans
      <3>2. activeLoanId[v] # id
        BY <3>1
      <3> QED BY <1>4, <3>1, <3>2
    <2> QED BY <2>1, <2>2, SameLineIf
  <1>6. activeLoanId'[b] = 0
    BY <1>2, <1>3
  <1>7. Debt(b)' = 0 /\ Line(b) = "borrowed" /\ Debt(b) = loans[id].borrowedAmount
    BY <1>1, <1>6 DEF Debt, Line
  <1>8. profiles[b].exists /\ profiles[b].defaultCount = 0
    BY <1>1, <1>2 DEF CleanAt
  <1> QED BY <1>5, <1>6, <1>7, <1>8, MapsMove

LEMMA RepayRefines ==
  ASSUME Inv, NEW w \in Wallets, NEW id \in LoanIds, repayLoan(w, id)
  PROVE  Credit!Next
  <1>1. loans[id].active /\ w = loans[id].borrower /\ CloseLoan(id) /\ setLoanRepaid(w)
    BY DEF repayLoan
  <1>2. \A v \in Wallets : SameRecord(v)
    BY <1>1, SetLoanRepaidStep DEF Inv, TypeOK
  <1>3. /\ lineMap' = [lineMap EXCEPT ![w] = Line(w)']
        /\ debtMap' = [debtMap EXCEPT ![w] = 0]
        /\ lineMap[w] = "borrowed" /\ debtMap[w] = loans[id].borrowedAmount
        /\ activeLoanId'[w] = 0
        /\ profiles[w].exists /\ profiles[w].defaultCount = 0
    BY <1>1, <1>2, CloseMoves
  <1>4. Line(w)' = "clear"
    <2>1. profiles'[w].exists /\ ~(profiles'[w].defaultCount > 0)
      BY <1>2, <1>3 DEF SameRecord
    <2> QED BY <1>3, <2>1, Zenon DEF Line
  <1>5. liquidity' \in Nat /\ liquidity' >= liquidity + debtMap[w]
    <2>1. /\ Owed(loans[id]) \in Nat /\ Owed(loans[id]) >= loans[id].borrowedAmount
          /\ liquidity \in Nat /\ loans[id].borrowedAmount \in Nat
      BY <1>1, OwedNat, OpenLoan DEF Inv, TypeOK
    <2>2. liquidity' = liquidity + Owed(loans[id])
      BY DEF repayLoan
    <2> QED BY <1>3, <2>1, <2>2
  <1>6. Credit!Settle(w)
    BY <1>3, <1>4, <1>5 DEF Credit!Settle
  <1> QED BY <1>6 DEF Credit!Next

LEMMA LiquidateRefines ==
  ASSUME Inv, NEW id \in LoanIds, liquidate(id)
  PROVE  Credit!Next
  <1>1. PICK b \in Wallets : b = loans[id].borrower
    BY OpenLoan DEF liquidate
  <1>2. loans[id].active /\ CloseLoan(id) /\ recordDefault(b) /\ UNCHANGED liquidity
    BY <1>1 DEF liquidate
  <1>3. /\ profiles'[b].defaultCount = profiles[b].defaultCount + 1
        /\ profiles'[b].exists <=> profiles[b].exists
        /\ \A v \in Wallets \ {b} : SameRecord(v)
    BY <1>2, RecordDefaultStep DEF Inv, TypeOK
  <1>4. /\ lineMap' = [lineMap EXCEPT ![b] = Line(b)']
        /\ debtMap' = [debtMap EXCEPT ![b] = 0]
        /\ lineMap[b] = "borrowed"
        /\ activeLoanId'[b] = 0
        /\ profiles[b].exists /\ profiles[b].defaultCount = 0
    BY <1>1, <1>2, <1>3, CloseMoves
  <1>5. Line(b)' = "defaulted"
    <2>1. profiles'[b].exists /\ profiles'[b].defaultCount > 0
      BY <1>3, <1>4
    <2> QED BY <1>4, <2>1, Zenon DEF Line
  <1>6. Credit!WriteOff(b)
    BY <1>2, <1>4, <1>5 DEF Credit!WriteOff
  <1> QED BY <1>6 DEF Credit!Next

LEMMA QuietRefines ==
  ASSUME UNCHANGED <<profiles, activeLoanId, loans>>
  PROVE  lineMap' = lineMap /\ debtMap' = debtMap
  BY DEF lineMap, debtMap, Line, Debt

LEMMA StepRefines == Inv /\ [Next]_vars => [Credit!Next]_(Credit!lineVars)
  <1> SUFFICES ASSUME Inv, [Next]_vars
               PROVE  Credit!Next \/ UNCHANGED Credit!lineVars
    OBVIOUS
  <1>1. ASSUME NEW w \in Wallets, NEW a \in BorrowAmounts, NEW c \in CollateralAmounts,
               requestLoan(w, a, c)
        PROVE  Credit!Next
    BY <1>1, RequestRefines
  <1>2. ASSUME NEW w \in Wallets, NEW id \in LoanIds, repayLoan(w, id)
        PROVE  Credit!Next
    BY <1>2, RepayRefines
  <1>3. ASSUME NEW w \in Wallets, ProfileStep(w)
        PROVE  Credit!Next \/ UNCHANGED Credit!lineVars
    BY <1>3, ProfileStepRefines
  <1>4. ASSUME NEW id \in LoanIds, liquidate(id)
        PROVE  Credit!Next
    BY <1>4, LiquidateRefines
  <1>5. ASSUME NEW a \in Funding, Fund(a)
        PROVE  Credit!Next
    <2>1. lineMap' = lineMap /\ debtMap' = debtMap
      BY <1>5, QuietRefines DEF Fund, sbtVars
    <2>2. liquidity' \in Nat /\ liquidity' > liquidity
      BY <1>5, LendingAssumption DEF Fund, Inv, TypeOK
    <2>3. Credit!Fund
      BY <2>1, <2>2 DEF Credit!Fund
    <2> QED BY <2>3 DEF Credit!Next
  <1>6. ASSUME UNCHANGED <<profiles, activeLoanId, loans, liquidity>>
        PROVE  UNCHANGED Credit!lineVars
    BY <1>6, QuietRefines DEF Credit!lineVars
  <1>7. CASE AdminStep \/ PoolStep \/ Environment \/ UNCHANGED vars
    BY <1>6, <1>7 DEF AdminStep, PoolStep, Environment, vars, sbtVars, marketVars
  <1> QED BY <1>1, <1>2, <1>3, <1>4, <1>5, <1>7 DEF Next

(* The hub market implements one credit line per wallet: whatever the      *)
(* agents, the administrator, the oracle and the clock do, every step of   *)
(* the contracts is a step of CreditLine or changes nothing it shows.      *)
THEOREM HubRefinesCreditLine == Spec => ImplementsCreditLine
  <1> QED BY InvariantHolds, InitRefines, StepRefines, PTL
          DEF Spec, ImplementsCreditLine, Credit!Spec
=============================================================================
