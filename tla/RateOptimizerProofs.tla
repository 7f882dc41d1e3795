------------------------ MODULE RateOptimizerProofs -------------------------
(***************************************************************************)
(* The rate optimizer's safety properties for every pool, every set of     *)
(* lenders and amounts, every number of overlapping runs, and every answer *)
(* of the language model.                                                  *)
(***************************************************************************)
EXTENDS RateOptimizer, ContractProofs

(* One proposal, from any rate inside the band: the new rate is inside the *)
(* band, at most 50 bps away, and by at least 10 bps, or the band's end,   *)
(* on the side the utilization rules dictate (rate_optimizer.run_once).    *)
THEOREM ProposalSound ==
  ASSUME NEW util \in Nat, NEW rate \in MIN_BASE_RATE .. MAX_BASE_RATE,
         NEW d \in Directions, NEW a \in -MaxAdjust .. MaxAdjust
  PROVE  LET new == ProposedRate(util, rate, d, a) IN
         /\ new \in MIN_BASE_RATE .. MAX_BASE_RATE
         /\ new - rate \in -MaxAdjust .. MaxAdjust
         /\ util > 8000 => new >= Lesser(rate + 10, MAX_BASE_RATE)
         /\ util < 5000 => new <= Greater(rate - 10, MIN_BASE_RATE)
  <1> DEFINE s == Suggested(rate, d, a)
             h == HardRule(util, rate, s)
  <1> USE RateAssumption DEF MaxAdjust
  <1>1. s \in Int /\ s - rate \in -50 .. 50
    <2>1. CASE d = "increase"
      <3>1. s = rate + a
        BY <2>1 DEF Suggested
      <3> QED BY <3>1
    <2>2. CASE d = "decrease"
      <3>1. s = rate - a
        BY <2>2 DEF Suggested
      <3> QED BY <3>1
    <2>3. CASE d = "hold"
      <3>1. s = rate
        BY <2>3 DEF Suggested
      <3> QED BY <3>1
    <2> QED BY <2>1, <2>2, <2>3 DEF Directions
  <1> HIDE DEF s
  <1>2. /\ h \in Int
        /\ h - rate \in -50 .. 50
        /\ util > 8000 => h >= rate + 10
        /\ util < 5000 => h <= rate - 10
    <2>1. CASE util > 8000
      <3>1. h = Greater(s, rate + 10)
        BY <2>1 DEF HardRule
      <3> QED BY <1>1, <2>1, <3>1 DEF Greater
    <2>2. CASE util < 5000
      <3>1. h = Lesser(s, rate - 10)
        BY <2>2 DEF HardRule
      <3> QED BY <1>1, <2>2, <3>1 DEF Lesser
    <2>3. CASE util \in 5000 .. 8000
      <3>1. ~(util > 8000) /\ ~(util < 5000)
        BY <2>3
      <3>2. h = s
        BY <3>1 DEF HardRule
      <3> QED BY <1>1, <3>1, <3>2
    <2> QED BY <2>1, <2>2, <2>3
  <1> DEFINE new == ProposedRate(util, rate, d, a)
  <1>3. new = Greater(MIN_BASE_RATE, Lesser(MAX_BASE_RATE, h))
    BY DEF ProposedRate, s
  <1> HIDE DEF h, new
  <1>4. /\ new \in MIN_BASE_RATE .. MAX_BASE_RATE
        /\ new - rate \in -50 .. 50
        /\ util > 8000 => new >= Lesser(rate + 10, MAX_BASE_RATE)
        /\ util < 5000 => new <= Greater(rate - 10, MIN_BASE_RATE)
    BY <1>2, <1>3 DEF Greater, Lesser
  <1> QED BY <1>4 DEF new, MaxAdjust

-----------------------------------------------------------------------------
RunTypes ==
  /\ run \in [Runners -> {Idle} \cup Started \cup Reading]
  /\ writes \in Nat
  /\ seen \subseteq {"scarce", "slack", "fair"}
  /\ calm \in MIN_BASE_RATE .. MAX_BASE_RATE
  /\ baseRate \in MIN_BASE_RATE .. MAX_BASE_RATE
  /\ \A t \in Runners : run[t].phase = "read" => run[t].rate \in MIN_BASE_RATE .. MAX_BASE_RATE

(* A rate the runs under way may have left or may have read.               *)
Reached(rate) ==
  /\ rate - calm \in -(MaxAdjust * writes) .. (MaxAdjust * writes)
  /\ seen = {"scarce"} =>
       /\ rate >= calm
       /\ rate = calm \/ rate >= Lesser(calm + 10, MAX_BASE_RATE)
  /\ seen = {"slack"} =>
       /\ rate <= calm
       /\ rate = calm \/ rate <= Greater(calm - 10, MIN_BASE_RATE)

(* What the next verdict may start from: not only the contract's rate but  *)
(* every rate a run under way has read must be within reach.               *)
RunsInv ==
  /\ Reached(baseRate)
  /\ \A t \in Runners : run[t] # Idle => Kind(run[t].util) \in seen
  /\ \A t \in Runners : run[t].phase = "read" => Reached(run[t].rate)
  /\ writes > 0 =>
       /\ seen = {"scarce"} => baseRate >= Lesser(calm + 10, MAX_BASE_RATE)
       /\ seen = {"slack"}  => baseRate <= Greater(calm - 10, MIN_BASE_RATE)

IInv == LPInv /\ RunTypes /\ RunsInv

LEMMA IdlePhase == Idle.phase = "idle"
  BY DEF Idle

LEMMA Phases ==
  ASSUME RunTypes, NEW t \in Runners
  PROVE  /\ run[t].phase = "util" => run[t] \in Started /\ run[t] # Idle
         /\ run[t].phase = "read" => run[t] \in Reading /\ run[t] # Idle
         /\ run[t] # Idle => run[t].util \in Nat
  BY DEF RunTypes, Idle, Started, Reading

LEMMA KindOf ==
  ASSUME NEW util \in Nat
  PROVE  /\ Kind(util) \in {"scarce", "slack", "fair"}
         /\ Kind(util) = "scarce" => util > 8000
         /\ Kind(util) = "slack" => util < 5000
  BY DEF Kind

LEMMA InitInv == Init => IInv
  <1> SUFFICES ASSUME Init PROVE IInv
    OBVIOUS
  <1>1. RunTypes
    BY IdlePhase, RateAssumption DEF Init, RunTypes
  <1>2. RunsInv
    BY IdlePhase, RateAssumption DEF Init, RunsInv, Reached, MaxAdjust
  <1> QED BY LPInitInv, <1>1, <1>2 DEF Init, IInv

(* A step that leaves the optimizer's own state alone.                     *)
LEMMA OptimizerStutters ==
  ASSUME RunTypes, RunsInv, UNCHANGED <<baseRate, run, history>>
  PROVE  RunTypes' /\ RunsInv'
  BY DEF RunTypes, RunsInv, Reached, history

LEMMA PoolStutters ==
  ASSUME LPInv, UNCHANGED pool
  PROVE  LPInv'
  BY LPStutterInv DEF pool, lpVars

LEMMA ReadPoolInv ==
  ASSUME IInv, NEW t \in Runners, ReadPool(t)
  PROVE  IInv'
  <1>1. LPInv'
    BY PoolStutters DEF IInv, ReadPool
  <1> DEFINE u == utilizationRate
  <1>2. u \in Nat /\ Kind(u) \in {"scarce", "slack", "fair"}
    BY UtilizationNat, KindOf DEF IInv
  <1> HIDE DEF u
  <1>3. run'[t] = [phase |-> "util", util |-> u] /\ \A o \in Runners \ {t} : run'[o] = run[o]
    BY DEF IInv, RunTypes, ReadPool, u
  <1>4. RunTypes'
    <2>1. run'[t] \in Started
      BY <1>2, <1>3 DEF Started
    <2>2. run' \in [Runners -> {Idle} \cup Started \cup Reading]
      BY <2>1, <1>3 DEF IInv, RunTypes, ReadPool
    <2>3. writes' \in Nat /\ seen' \subseteq {"scarce", "slack", "fair"}
          /\ calm' \in MIN_BASE_RATE .. MAX_BASE_RATE
      <3>1. \/ calm' = baseRate /\ writes' = 0 /\ seen' = {Kind(u)}
            \/ calm' = calm /\ writes' = writes /\ seen' = seen \cup {Kind(u)}
        BY DEF ReadPool, u
      <3>2. seen' \subseteq {"scarce", "slack", "fair"}
        BY Zenon, <1>2, <3>1 DEF IInv, RunTypes
      <3>3. writes' \in Nat /\ calm' \in MIN_BASE_RATE .. MAX_BASE_RATE
        BY <3>1 DEF IInv, RunTypes
      <3> QED BY <3>2, <3>3
    <2>4. \A o \in Runners : run'[o].phase = "read" => run'[o].rate \in MIN_BASE_RATE .. MAX_BASE_RATE
      BY <1>3 DEF IInv, RunTypes
    <2> QED BY <2>2, <2>3, <2>4 DEF IInv, RunTypes, ReadPool
  <1>5. CASE Alone
    <2>1. /\ calm' = baseRate /\ writes' = 0 /\ seen' = {Kind(u)} /\ baseRate' = baseRate
          /\ \A o \in Runners \ {t} : run'[o] = Idle
      BY <1>3, <1>5 DEF ReadPool, Alone, u
    <2>2. RunsInv'
      BY <1>3, <2>1, IdlePhase, RateAssumption DEF RunsInv, Reached, IInv, RunTypes, MaxAdjust
    <2> QED BY <1>1, <1>4, <2>2 DEF IInv
  <1>6. CASE ~Alone
    <2>1. /\ calm' = calm /\ writes' = writes /\ seen' = seen \cup {Kind(u)} /\ baseRate' = baseRate
      BY <1>6 DEF ReadPool, u
    <2>2. PICK o \in Runners : run[o] # Idle
      BY <1>6 DEF Alone
    <2>3. Kind(run[o].util) \in seen
      BY <2>2 DEF IInv, RunsInv
    <2>4. \A k \in {"scarce", "slack"} : seen' = {k} => seen = {k}
      BY <2>1, <2>3
    <2>6. Reached(baseRate)'
      BY <2>1, <2>4 DEF IInv, RunsInv, Reached
    <2>7. \A p \in Runners : run'[p] # Idle => Kind(run'[p].util) \in seen'
      BY <1>3, <2>1 DEF IInv, RunsInv
    <2>8. ASSUME NEW p \in Runners, run'[p].phase = "read" PROVE Reached(run[p].rate)'
      <3>1. p # t /\ run'[p] = run[p]
        BY <1>3, <2>8
      <3> QED BY <2>1, <2>4, <2>8, <3>1 DEF IInv, RunsInv, Reached
    <2>9. RunsInv'
      BY <2>1, <2>4, <2>6, <2>7, <2>8 DEF IInv, RunsInv
    <2> QED BY <1>1, <1>4, <2>9 DEF IInv
  <1> QED BY <1>5, <1>6

LEMMA ReadRateInv ==
  ASSUME IInv, NEW t \in Runners, ReadRate(t)
  PROVE  IInv'
  <1>1. LPInv'
    BY PoolStutters DEF IInv, ReadRate
  <1>2. run[t].phase = "util" /\ run[t] # Idle /\ run[t].util \in Nat
    BY Phases DEF IInv, ReadRate
  <1>3. /\ run'[t] = [phase |-> "read", util |-> run[t].util, rate |-> baseRate]
        /\ \A o \in Runners \ {t} : run'[o] = run[o]
        /\ UNCHANGED <<baseRate, calm, writes, seen>>
    BY DEF IInv, RunTypes, ReadRate, history
  <1>4. RunTypes'
    <2> baseRate \in Nat
      BY RateAssumption DEF IInv, RunTypes
    <2>1. run'[t] \in Reading
      BY <1>2, <1>3 DEF Reading
    <2>2. run' \in [Runners -> {Idle} \cup Started \cup Reading]
      BY <2>1, <1>3 DEF IInv, RunTypes, ReadRate
    <2>3. \A o \in Runners : run'[o].phase = "read" => run'[o].rate \in MIN_BASE_RATE .. MAX_BASE_RATE
      BY <1>3 DEF IInv, RunTypes
    <2> QED BY <1>3, <2>2, <2>3 DEF IInv, RunTypes
  <1>5. RunsInv'
    <2>1. \A p \in Runners : run'[p] # Idle => Kind(run'[p].util) \in seen'
      BY <1>2, <1>3 DEF IInv, RunsInv
    <2>2. ASSUME NEW p \in Runners, run'[p].phase = "read" PROVE Reached(run[p].rate)'
      <3>1. run'[p].rate = baseRate \/ (run'[p] = run[p] /\ run[p].phase = "read")
        BY <1>3, <2>2
      <3> QED BY <1>3, <3>1 DEF IInv, RunsInv, Reached
    <2> QED BY <1>3, <2>1, <2>2 DEF IInv, RunsInv, Reached
  <1> QED BY <1>1, <1>4, <1>5 DEF IInv

(* The rate a verdict leaves is within reach of the rate the runs under    *)
(* way began at, whichever rate the run itself had read.                   *)
LEMMA VerdictInv ==
  ASSUME IInv, NEW t \in Runners, NEW d \in Directions, NEW a \in Adjusts, ApplyVerdict(t, d, a)
  PROVE  IInv'
  <1> DEFINE rate == run[t].rate
             new  == ProposedRate(run[t].util, rate, d, a)
  <1>1. /\ run[t].phase = "read" /\ run[t].util \in Nat /\ run[t] # Idle
        /\ rate \in MIN_BASE_RATE .. MAX_BASE_RATE
        /\ Reached(rate)
        /\ Kind(run[t].util) \in seen
    BY Phases DEF IInv, RunTypes, RunsInv, ApplyVerdict
  <1>2. a \in -MaxAdjust .. MaxAdjust
    BY RateAssumption
  <1>3. /\ new \in MIN_BASE_RATE .. MAX_BASE_RATE
        /\ new - rate \in -MaxAdjust .. MaxAdjust
        /\ run[t].util > 8000 => new >= Lesser(rate + 10, MAX_BASE_RATE)
        /\ run[t].util < 5000 => new <= Greater(rate - 10, MIN_BASE_RATE)
    BY SMTT(60), <1>1, <1>2, ProposalSound
  <1>4. /\ baseRate' = IF new = rate THEN baseRate ELSE new
        /\ writes' = writes + 1 /\ calm' = calm /\ seen' = seen
        /\ run'[t] = Idle /\ \A o \in Runners \ {t} : run'[o] = run[o]
        /\ run' \in [Runners -> {Idle} \cup Started \cup Reading]
    BY DEF ApplyVerdict, IInv, RunTypes
  <1>5. /\ seen = {"scarce"} => run[t].util > 8000
        /\ seen = {"slack"} => run[t].util < 5000
    BY <1>1, KindOf
  <1> HIDE DEF new, rate
  <1>6. LPInv'
    BY PoolStutters DEF IInv, ApplyVerdict
  <1>7. RunTypes'
    BY <1>3, <1>4, IdlePhase DEF IInv, RunTypes
  <1> USE RateAssumption DEF MaxAdjust
  <1>8. /\ calm \in Int /\ writes \in Nat /\ baseRate \in MIN_BASE_RATE .. MAX_BASE_RATE
        /\ Reached(baseRate)
    BY DEF IInv, RunTypes, RunsInv
  <1>9. /\ baseRate' - calm \in -(50 * (writes + 1)) .. (50 * (writes + 1))
        /\ seen = {"scarce"} => baseRate' >= calm /\ baseRate' >= Lesser(calm + 10, MAX_BASE_RATE)
        /\ seen = {"slack"} => baseRate' <= calm /\ baseRate' <= Greater(calm - 10, MIN_BASE_RATE)
    <2>1. baseRate' - calm \in -(50 * (writes + 1)) .. (50 * (writes + 1))
      BY <1>1, <1>3, <1>4, <1>8 DEF Reached
    <2>2. ASSUME seen = {"scarce"}
          PROVE  baseRate' >= calm /\ baseRate' >= Lesser(calm + 10, MAX_BASE_RATE)
      <3>1. new >= Lesser(rate + 10, MAX_BASE_RATE) /\ rate >= calm /\ baseRate >= calm
        BY <1>1, <1>3, <1>5, <1>8, <2>2 DEF Reached
      <3>2. CASE new # rate
        BY <1>1, <1>3, <1>4, <1>8, <3>1, <3>2 DEF Lesser
      <3>3. CASE new = rate
        <4>1. rate = MAX_BASE_RATE
          BY <1>1, <3>1, <3>3 DEF Lesser
        <4>2. writes = 0 => calm = rate
          BY <1>1, <1>8 DEF Reached
        <4>3. writes > 0 => baseRate >= Lesser(calm + 10, MAX_BASE_RATE)
          BY <2>2 DEF IInv, RunsInv
        <4> QED BY <1>1, <1>4, <1>8, <3>1, <3>3, <4>1, <4>2, <4>3 DEF Lesser
      <3> QED BY <3>2, <3>3
    <2>3. ASSUME seen = {"slack"}
          PROVE  baseRate' <= calm /\ baseRate' <= Greater(calm - 10, MIN_BASE_RATE)
      <3>1. new <= Greater(rate - 10, MIN_BASE_RATE) /\ rate <= calm /\ baseRate <= calm
        BY <1>1, <1>3, <1>5, <1>8, <2>3 DEF Reached
      <3>2. CASE new # rate
        BY <1>1, <1>3, <1>4, <1>8, <3>1, <3>2 DEF Greater
      <3>3. CASE new = rate
        <4>1. rate = MIN_BASE_RATE
          BY <1>1, <3>1, <3>3 DEF Greater
        <4>2. writes = 0 => calm = rate
          BY <1>1, <1>8 DEF Reached
        <4>3. writes > 0 => baseRate <= Greater(calm - 10, MIN_BASE_RATE)
          BY <2>3 DEF IInv, RunsInv
        <4> QED BY <1>1, <1>4, <1>8, <3>1, <3>3, <4>1, <4>2, <4>3 DEF Greater
      <3> QED BY <3>2, <3>3
    <2> QED BY <2>1, <2>2, <2>3
  <1>10. Reached(baseRate)'
    BY <1>4, <1>9 DEF Reached
  <1>11. ASSUME NEW p \in Runners, run'[p].phase = "read" PROVE Reached(run[p].rate)'
    <2>1. p # t /\ run'[p] = run[p] /\ run[p].rate \in Int
      BY <1>4, <1>11, IdlePhase DEF IInv, RunTypes
    <2>2. Reached(run[p].rate)
      BY <1>11, <2>1 DEF IInv, RunsInv
    <2> QED BY <1>4, <1>8, <2>1, <2>2 DEF Reached
  <1>12. \A p \in Runners : run'[p] # Idle => Kind(run'[p].util) \in seen'
    BY <1>4 DEF IInv, RunsInv
  <1>13. RunsInv'
    BY <1>4, <1>9, <1>10, <1>11, <1>12 DEF RunsInv
  <1> QED BY <1>6, <1>7, <1>13 DEF IInv

LEMMA AbortInv ==
  ASSUME IInv, NEW t \in Runners, AbortRun(t)
  PROVE  IInv'
  <1>1. LPInv'
    BY PoolStutters DEF IInv, AbortRun
  <1>2. /\ run'[t] = Idle /\ \A o \in Runners \ {t} : run'[o] = run[o]
        /\ run' \in [Runners -> {Idle} \cup Started \cup Reading]
        /\ UNCHANGED <<baseRate, calm, writes, seen>>
    BY DEF IInv, RunTypes, AbortRun, history
  <1>3. RunTypes'
    BY <1>2, IdlePhase DEF IInv, RunTypes
  <1>4. RunsInv'
    BY <1>2, IdlePhase DEF IInv, RunsInv, Reached
  <1> QED BY <1>1, <1>3, <1>4 DEF IInv

LEMMA MarketInv ==
  ASSUME IInv, Market
  PROVE  IInv'
  <1> PICK a \in LoanAmounts : recordBorrow(a) \/ recordRepayment(a)
    BY DEF Market
  <1>1. a \in Nat
    BY RateAssumption
  <1>2. LPInv'
    BY <1>1, RecordBorrowInv, RecordRepaymentInv DEF IInv, Market
  <1> QED BY <1>2, OptimizerStutters DEF IInv, Market

LEMMA InvariantHolds == Spec => []IInv
  <1>1. IInv /\ [Next]_vars => IInv'
    <2> SUFFICES ASSUME IInv, [Next]_vars PROVE IInv'
      OBVIOUS
    <2>1. CASE \E t \in Runners : Run(t)
      BY <2>1, ReadPoolInv, ReadRateInv, VerdictInv, AbortInv DEF Run, Optimize
    <2>2. CASE Lender
      <3>1. LPInv'
        BY <2>2, LenderStepInv DEF IInv, Lender
      <3> QED BY <2>2, <3>1, OptimizerStutters DEF IInv, Lender
    <2>3. CASE Market
      BY <2>3, MarketInv
    <2>4. CASE UNCHANGED vars
      BY <2>4, PoolStutters, OptimizerStutters DEF IInv, vars, pool, history
    <2> QED BY <2>1, <2>2, <2>3, <2>4 DEF Next
  <1> QED BY InitInv, <1>1, PTL DEF Spec

(* Type correctness of the optimizer and the pool beside it.               *)
THEOREM TypeCorrect == Spec => []TypeOK
  <1>1. IInv => TypeOK
    BY RateAssumption DEF IInv, LPInv, RunTypes, TypeOK
  <1> QED BY InvariantHolds, <1>1, PTL

(* Every LP share is worth one token that the pool holds (CredFlowLP).     *)
THEOREM SharesAtPar == Spec => []RedeemAtPar
  <1>1. IInv => RedeemAtPar
    BY DEF IInv, LPInv
  <1> QED BY InvariantHolds, <1>1, PTL

(* The base rate never leaves its band, whatever the model answers and     *)
(* however many runs overlap.                                              *)
THEOREM RateStaysInBand == Spec => []RateInBand
  <1>1. IInv => RateInBand
    BY DEF IInv, RunTypes, RateInBand
  <1> QED BY InvariantHolds, <1>1, PTL

(* Any number of overlapping runs move the rate, from where it was when    *)
(* nobody ran, by at most 50 bps for each verdict applied.                 *)
THEOREM RateMovesSlowly == Spec => []RateStepBounded
  <1>1. IInv => RateStepBounded
    BY DEF IInv, RunsInv, Reached, RateStepBounded
  <1> QED BY InvariantHolds, <1>1, PTL

(* Overlapping runs that all saw scarcity leave the rate above where it    *)
(* was, or at the ceiling, whatever the model answered and in whichever    *)
(* order they wrote; likewise below it for slack.                          *)
THEOREM RulesBeatModel == Spec => []HardRulesWin
  <1>1. IInv => HardRulesWin
    BY DEF IInv, RunsInv, Reached, HardRulesWin
  <1> QED BY InvariantHolds, <1>1, PTL

(* The lenders' shares are the shares that exist and each of them can be   *)
(* redeemed, for any finite set of lenders and any amounts (CredFlowLP).   *)
THEOREM LendersAreWhole == Spec => []LendersWhole
  <1>1. Init => SharesAddUp
    BY SharesInit DEF Init
  <1>2. IInv /\ SharesAddUp /\ [Next]_vars => SharesAddUp'
    <2> SUFFICES ASSUME IInv, SharesAddUp, [Next]_vars PROVE SharesAddUp'
      OBVIOUS
    <2>1. CASE Lender
      BY <2>1, LenderStepShares DEF Lender, IInv
    <2>2. CASE ~Lender
      <3>1. UNCHANGED <<shares, totalSupply>>
        BY <2>2 DEF Next, Run, vars, pool, ReadPool, ReadRate, Optimize, ApplyVerdict, AbortRun, Market
      <3> QED BY <3>1 DEF SharesAddUp
    <2> QED BY <2>1, <2>2
  <1>3. IInv /\ SharesAddUp => LendersWhole
    BY SharesHeld DEF IInv, LendersWhole, SharesAddUp
  <1> QED BY InvariantHolds, <1>1, <1>2, <1>3, PTL DEF Spec
=============================================================================
