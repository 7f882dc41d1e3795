--------------------------- MODULE RateOptimizer ----------------------------
(***************************************************************************)
(* agents/rate_optimizer.py beside the pool it prices.  A run reads the    *)
(* pool's utilization, then the market's base rate, waits for the language *)
(* model, and then sends setBaseRate; lenders and borrowers act between    *)
(* the reads and the transaction.  Runs overlap: the scheduler starts one  *)
(* every hour, and POST /agents/optimize-rates starts the same run_once in *)
(* a thread of the API's pool whenever it is called.                       *)
(***************************************************************************)
EXTENDS CredFlowLP, CreditMath, Functions

CONSTANTS
  Runners,        \* the threads run_once may run in
  Scheduler,      \* the one of the hourly job
  MIN_BASE_RATE,  \* the declared band of the rate: 200 ..
  MAX_BASE_RATE,  \* .. 2000 in the code
  LoanAmounts,    \* principals the lending contract may report
  Adjusts,        \* adjust_bps values the verdict may carry
  MaxBorrowed,    \* bound on totalBorrowed
  MaxWrites       \* bound: no run joins others once they applied so many verdicts

MaxAdjust == 50   \* RateVerdict.adjust_bps is within -50 .. 50

ASSUME RateAssumption ==
  /\ Scheduler \in Runners
  /\ MIN_BASE_RATE \in Nat /\ MAX_BASE_RATE \in Nat
  /\ 500 \in MIN_BASE_RATE .. MAX_BASE_RATE
  /\ LoanAmounts \subseteq Nat
  /\ Adjusts \subseteq -MaxAdjust .. MaxAdjust
  /\ MaxBorrowed \in Nat
  /\ MaxWrites \in Nat

VARIABLES
  baseRate,   \* CredFlowLending.baseRate
  run,        \* what the run in progress of each thread has read, or Idle
  calm,       \* history: the rate when the runs now (or last) under way began
  writes,     \* history: verdicts applied since
  seen        \* history: the kinds of utilization read since

history == <<calm, writes, seen>>
pool    == <<shares, totalSupply, totalDeposited, totalBorrowed, poolBalance>>
vars    == <<shares, totalSupply, totalDeposited, totalBorrowed, poolBalance,
             baseRate, run, calm, writes, seen>>

Idle    == [phase |-> "idle"]
Started == [phase : {"util"}, util : Nat]
Reading == [phase : {"read"}, util : Nat, rate : Nat]

Kind(util) == IF util > 8000 THEN "scarce" ELSE IF util < 5000 THEN "slack" ELSE "fair"

TypeOK ==
  /\ LPTypeOK
  /\ baseRate \in Nat
  /\ run \in [Runners -> {Idle} \cup Started \cup Reading]
  /\ calm \in Nat
  /\ writes \in Nat
  /\ seen \subseteq {"scarce", "slack", "fair"}

Init ==
  /\ LPInit
  /\ baseRate = 500
  /\ run = [t \in Runners |-> Idle]
  /\ calm = 500
  /\ writes = 0
  /\ seen = {}

-----------------------------------------------------------------------------
(* run_once: the language model's verdict, then the hard utilization       *)
(* rules, then the clamp.                                                  *)

Directions == {"increase", "decrease", "hold"}

Suggested(rate, direction, adjust) ==
  CASE direction = "increase" -> rate + adjust
    [] direction = "decrease" -> rate - adjust
    [] OTHER -> rate

\* Mutants: the rule on top of the suggestion; no rule.
HardRule_added(util, rate, suggested) ==
  IF util > 8000 THEN suggested + 10 ELSE IF util < 5000 THEN suggested - 10 ELSE suggested
HardRule_absent(util, rate, suggested) == suggested

HardRule(util, rate, suggested) ==
  IF util > 8000 THEN Greater(suggested, rate + 10)
  ELSE IF util < 5000 THEN Lesser(suggested, rate - 10)
  ELSE suggested

\* Mutant: no clamp.
ProposedRate_unclamped(util, rate, direction, adjust) ==
  HardRule(util, rate, Suggested(rate, direction, adjust))

ProposedRate(util, rate, direction, adjust) ==
  Greater(MIN_BASE_RATE,
          Lesser(MAX_BASE_RATE, HardRule(util, rate, Suggested(rate, direction, adjust))))

-----------------------------------------------------------------------------
Alone == \A t \in Runners : run[t] = Idle

\* The first read.  A run that starts while nobody runs begins a new history.
ReadPool(t) ==
  /\ run[t] = Idle
  /\ Alone \/ writes < MaxWrites                           \* bound
  /\ run' = [run EXCEPT ![t] = [phase |-> "util", util |-> utilizationRate]]
  /\ IF Alone
     THEN calm' = baseRate /\ writes' = 0 /\ seen' = {Kind(utilizationRate)}
     ELSE seen' = seen \cup {Kind(utilizationRate)} /\ UNCHANGED <<calm, writes>>
  /\ UNCHANGED <<pool, baseRate>>

ReadRate(t) ==
  /\ run[t].phase = "util"
  /\ run' = [run EXCEPT ![t] = [phase |-> "read", util |-> run[t].util, rate |-> baseRate]]
  /\ UNCHANGED <<pool, baseRate, history>>

\* The verdict arrives.  setBaseRate is sent only when the proposal differs
\* from the rate read, which may no longer be the contract's.
ApplyVerdict(t, direction, adjust) ==
  /\ run[t].phase = "read"
  /\ baseRate' = LET new == ProposedRate(run[t].util, run[t].rate, direction, adjust)
                 IN  IF new = run[t].rate THEN baseRate ELSE new
  /\ run' = [run EXCEPT ![t] = Idle]
  /\ writes' = writes + 1
  /\ UNCHANGED <<pool, calm, seen>>

\* A call, the model or the transaction fails: the next run starts over.
AbortRun(t) ==
  /\ run[t] # Idle
  /\ run' = [run EXCEPT ![t] = Idle]
  /\ UNCHANGED <<pool, baseRate, history>>

Optimize(t) == \E d \in Directions, a \in Adjusts : ApplyVerdict(t, d, a)

Lender == LenderStep /\ UNCHANGED <<baseRate, run, history>>

Market ==
  /\ \E a \in LoanAmounts :
       \/ recordBorrow(a) /\ totalBorrowed + a <= MaxBorrowed
       \/ recordRepayment(a)
  /\ UNCHANGED <<shares, totalSupply, totalDeposited, poolBalance, baseRate, run, history>>

Run(t) == ReadPool(t) \/ ReadRate(t) \/ Optimize(t) \/ AbortRun(t)

Next == (\E t \in Runners : Run(t)) \/ Lender \/ Market

Spec == Init /\ [][Next]_vars

\* scheduler.py starts a run every hour, every run that began ends, and the
\* scheduler's runs are not all aborted.
Fairness ==
  /\ WF_vars(ReadPool(Scheduler))
  /\ SF_vars(ReadRate(Scheduler)) /\ SF_vars(Optimize(Scheduler))
  /\ \A t \in Runners : WF_vars(ReadRate(t) \/ Optimize(t) \/ AbortRun(t))
FairSpec == Spec /\ Fairness

-----------------------------------------------------------------------------
(* The shares in lenders' hands are the shares that exist, so that each    *)
(* lender can redeem all of them whatever has been lent (CredFlowLP never  *)
(* funds a loan).                                                          *)
LendersWhole ==
  /\ SumFunction(shares) = totalSupply
  /\ \A l \in Lenders : shares[l] <= poolBalance

(* The optimizer keeps the base rate inside the band it declares.          *)
RateInBand == baseRate \in MIN_BASE_RATE .. MAX_BASE_RATE

(* However many runs overlap, and however stale the rate each of them      *)
(* started from, the verdicts applied since nobody ran have together moved *)
(* the rate by at most 50 bps each (run_once without a lock around its     *)
(* read and its transaction).                                              *)
RateStepBounded == baseRate - calm \in -(MaxAdjust * writes) .. (MaxAdjust * writes)

(* When every run since nobody ran has read scarcity (over 80 %), the rate *)
(* has not fallen below where it was, whatever the model answered and in   *)
(* whichever order the runs wrote; once one of them has applied its        *)
(* verdict it is higher, or at the ceiling.  Likewise for slack.           *)
HardRulesWin ==
  /\ seen = {"scarce"} =>
       /\ baseRate >= calm
       /\ writes > 0 => baseRate >= Lesser(calm + 10, MAX_BASE_RATE)
  /\ seen = {"slack"} =>
       /\ baseRate <= calm
       /\ writes > 0 => baseRate <= Greater(calm - 10, MIN_BASE_RATE)

(* Lasting scarcity drives the rate to its ceiling, although a run of the  *)
(* API may write a rate computed from an older one.                        *)
ScarcityPricedIn ==
  <>[](utilizationRate > 8000) => <>(baseRate = MAX_BASE_RATE)
=============================================================================
