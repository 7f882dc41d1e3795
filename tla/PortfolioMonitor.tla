-------------------------- MODULE PortfolioMonitor --------------------------
(***************************************************************************)
(* The portfolio monitor and the liquidation it hands over to, for the     *)
(* loans of one or more chains.  Contracts liquidate on LTV only; that a   *)
(* loan is overdue, and for how long, is known to the agents alone, in a   *)
(* dictionary of each process's memory keyed by the loan's number.         *)
(*                                                                         *)
(* A time stamp is modelled by its age in ticks, counted up to the last    *)
(* age the code can tell apart, so that time has no end.  Interest is left *)
(* out of the LTV (prices move it as well), and every loan has the same    *)
(* collateral.  The agents' reads and transactions are steps of their own: *)
(* borrowers, prices and the other process may act between them.           *)
(***************************************************************************)
EXTENDS Integers, Sequences, SequencesExt

CONSTANTS
  Hub, MonitorChains,      \* the chains, in the order of AGENT_MONITOR_CHAINS
  Processes,               \* the scheduler and the ML API: each has its own memory
  Servers,                 \* those that serve the ML API, with its test routes
  Debts, Collateral, Prices, InitialPrice,
  Term, GracePeriod, Cooldown,            \* in ticks
  MaxLoans, MaxMishaps, MaxMoves  \* bounds: loans per chain, failing or restarting
                                  \* processes, price changes

Markets    == ToSet(MonitorChains)
Schedulers == Processes \ Servers

ASSUME MonitorAssumption ==
  /\ MonitorChains \in Seq(Markets) /\ IsInjective(MonitorChains) /\ Hub \in Markets
  /\ Debts \subseteq Nat \ {0} /\ Prices \subseteq Nat \ {0} /\ InitialPrice \in Prices
  /\ Collateral \in Nat \ {0} /\ Servers \subseteq Processes
  /\ {Term, GracePeriod, Cooldown, MaxLoans, MaxMishaps, MaxMoves} \subseteq Nat

HEALTH_LTV_BPS       == 7500
LIQUIDATION_LTV_BPS  == 8500
liquidationThreshold == 8500

VARIABLES
  loans,     \* loans[m]: the loans of chain m, in the order of their numbers
  price,     \* price[m]: what the chain's oracle says, in dollars
  grace,     \* grace[p]: the loan numbers in _grace, each with its age
  warnings,  \* warnings[p]: the loan numbers in _warnings, with age and LTV
  job,       \* job[p]: where the sweep of process p is
  mishaps, moves,
  warned     \* history: loans whose HealthWarning was emitted

agentVars == <<grace, warnings, job>>
vars == <<loans, price, grace, warnings, job, mishaps, moves, warned>>

LoanIds(m) == DOMAIN loans[m]

getCurrentLTV(debt, p) == (debt * 10000) \div (Collateral * p)
LTV(m, id) == getCurrentLTV(loans[m][id].debt, price[m])

Open(m, id)    == id \in LoanIds(m) /\ loans[m][id].active
\* Mutant: overdue on the due date.
Overdue_onDueDate(m, id) == loans[m][id].age >= Term
Overdue(m, id) == loans[m][id].age > Term

\* An age past its limit is as good as the limit.
LoanAge      == Term + GracePeriod + 1
Older(age, limit) == IF age < limit THEN age + 1 ELSE limit

IdleJob == [stage |-> "idle", chains |-> <<>>, ids |-> {}, ltv |-> 0,
            flag |-> FALSE, force |-> FALSE]

Empty == [id \in {} |-> 0]

Numbers == 1 .. MaxLoans

LoanRecord == [debt : Debts, age : 0 .. LoanAge, active : BOOLEAN]

\* A dictionary of a process, keyed by loan numbers.
IsMemory(f, Entry) == DOMAIN f \subseteq Numbers /\ f \in [DOMAIN f -> Entry]
Warning            == [age : 0 .. Cooldown, ltv : Nat]

Handling == {"judge", "execute", "crash", "seize"}   \* stages with a loan at hand
Stages   == {"idle", "scan", "look"} \cup Handling

\* chains: those left, the one being swept first; ids: the loans left on it.
Sweep == [stage : Stages, chains : Seq(Markets), ids : SUBSET Numbers, ltv : Nat,
          flag : BOOLEAN, force : BOOLEAN]

\* A sweep that goes on has a chain, and all the loans it has left are on that chain.
SweepOK(p) ==
  /\ job[p].stage # "idle" => /\ job[p].chains # <<>>
                             /\ job[p].ids \subseteq LoanIds(Head(job[p].chains))
  /\ job[p].stage \in Handling => job[p].ids # {}
  /\ job[p].force => job[p].stage \in Handling \ {"judge"}

TypeOK ==
  /\ loans \in [Markets -> Seq(LoanRecord)]
  /\ \A m \in Markets : Len(loans[m]) <= MaxLoans
  /\ price \in [Markets -> Nat \ {0}]
  /\ DOMAIN grace = Processes /\ DOMAIN warnings = Processes
  /\ \A p \in Processes : /\ IsMemory(grace[p], 0 .. GracePeriod)
                          /\ IsMemory(warnings[p], Warning)
  /\ job \in [Processes -> Sweep]
  /\ \A p \in Processes : SweepOK(p)
  /\ mishaps \in 0 .. MaxMishaps /\ moves \in 0 .. MaxMoves
  /\ warned \subseteq Markets \X Numbers

Init ==
  /\ loans = [m \in Markets |-> <<>>]
  /\ price = [m \in Markets |-> InitialPrice]
  /\ grace = [p \in Processes |-> Empty]
  /\ warnings = [p \in Processes |-> Empty]
  /\ job = [p \in Processes |-> IdleJob]
  /\ mishaps = 0 /\ moves = 0
  /\ warned = {}

-----------------------------------------------------------------------------
(* Borrowers, feeds and time.                                              *)

Borrow(m) ==
  /\ Len(loans[m]) < MaxLoans
  /\ \E debt \in Debts :
       /\ getCurrentLTV(debt, price[m]) <= 8000
       /\ loans' = [loans EXCEPT ![m] =
                      Append(@, [debt |-> debt, age |-> 0, active |-> TRUE])]
  /\ UNCHANGED <<price, agentVars, mishaps, moves, warned>>

Close(m, id) == loans' = [loans EXCEPT ![m][id].active = FALSE]

repayLoan(m, id) ==
  /\ loans[m][id].active
  /\ Close(m, id)
  /\ UNCHANGED <<price, agentVars, mishaps, moves, warned>>

PriceMoves(m) ==
  /\ moves < MaxMoves                                               \* bound
  /\ \E v \in Prices \ {price[m]} : price' = [price EXCEPT ![m] = v]
  /\ moves' = moves + 1
  /\ UNCHANGED <<loans, agentVars, mishaps, warned>>

Tick ==
  /\ loans' = [m \in Markets |-> [id \in LoanIds(m) |->
                  [loans[m][id] EXCEPT !.age = Older(@, LoanAge)]]]
  /\ grace' = [p \in Processes |-> [id \in DOMAIN grace[p] |->
                  Older(grace[p][id], GracePeriod)]]
  /\ warnings' = [p \in Processes |-> [id \in DOMAIN warnings[p] |->
                     [warnings[p][id] EXCEPT !.age = Older(@, Cooldown)]]]
  /\ UNCHANGED <<price, job, mishaps, moves, warned>>

-----------------------------------------------------------------------------
(* The memory of a process.                                                *)

Put(f, k, v) == [x \in DOMAIN f \cup {k} |-> IF x = k THEN v ELSE f[x]]
Drop(f, k)   == [x \in DOMAIN f \ {k} |-> f[x]]

\* Mutants: the test helper's back-dated clock; a clock that starts over.
start_grace_backdated(p, id) ==
  grace' = IF id \in DOMAIN grace[p] THEN grace
           ELSE [grace EXCEPT ![p] = Put(@, id, GracePeriod + 1)]
start_grace_restarts(p, id) == grace' = [grace EXCEPT ![p] = Put(@, id, 0)]

start_grace(p, id) ==
  grace' = IF id \in DOMAIN grace[p] THEN grace
           ELSE [grace EXCEPT ![p] = Put(@, id, 0)]

grace_expired(p, id) == id \in DOMAIN grace[p] /\ grace[p][id] >= GracePeriod

\* Mutant: clocks that every process shares.
expire_grace_for_test_shared(p, id) ==
  grace' = [q \in Processes |-> Put(grace[q], id, GracePeriod)]

expire_grace_for_test(p, id) == grace' = [grace EXCEPT ![p] = Put(@, id, GracePeriod)]

clear_grace(p, id) == grace' = [grace EXCEPT ![p] = Drop(@, id)]

\* Mutant: warns only where it has warned before.
should_emit_warning_again(p, id, ltv) ==
  id \in DOMAIN warnings[p] /\ warnings[p][id].age >= Cooldown

should_emit_warning(p, id, ltv) ==
  ~ /\ id \in DOMAIN warnings[p]
    /\ warnings[p][id].age < Cooldown
    /\ warnings[p][id].ltv = ltv

record_warning(p, id, ltv) ==
  warnings' = [warnings EXCEPT ![p] = Put(@, id, [age |-> 0, ltv |-> ltv])]

-----------------------------------------------------------------------------
(* A sweep: run_once for each chain, _monitor_loan for each active loan.   *)

Chain(p) == Head(job[p].chains)
\* The loans of a chain are taken in the order of their numbers.
Loan(p)  == CHOOSE id \in job[p].ids : \A other \in job[p].ids : id <= other

At(p, stage)  == job[p].stage = stage
GoTo(p, stage) == job' = [job EXCEPT ![p].stage = stage]

NextLoan(p) ==
  job' = [job EXCEPT ![p] = [IdleJob EXCEPT !.stage = "look", !.chains = job[p].chains,
                                            !.ids = job[p].ids \ {Loan(p)}]]

\* The scan of a chain is over, or raised: _job_monitor goes on with the next chain.
NextChain(p) ==
  job' = [job EXCEPT ![p] =
            IF Len(job[p].chains) = 1 THEN IdleJob
            ELSE [IdleJob EXCEPT !.stage = "scan", !.chains = Tail(job[p].chains)]]

Unmoved == UNCHANGED <<mishaps, moves>>

StartSweep(p) ==
  /\ At(p, "idle")
  /\ job' = [job EXCEPT ![p] = [IdleJob EXCEPT !.stage = "scan", !.chains = MonitorChains]]
  /\ Unmoved /\ UNCHANGED <<loans, price, grace, warnings, warned>>

_scan_active_loans(p) ==
  /\ At(p, "scan")
  /\ job' = [job EXCEPT ![p].stage = "look",
                         ![p].ids = {id \in LoanIds(Chain(p)) : loans[Chain(p)][id].active}]
  /\ Unmoved /\ UNCHANGED <<loans, price, grace, warnings, warned>>

\* Up to the language model's verdict, which may go either way.
Look(p) ==
  /\ At(p, "look") /\ job[p].ids # {}
  /\ IF Overdue(Chain(p), Loan(p)) THEN start_grace(p, Loan(p)) ELSE UNCHANGED grace
  /\ \E flag \in BOOLEAN :
       job' = [job EXCEPT ![p].stage = "judge", ![p].flag = flag,
                          ![p].ltv = LTV(Chain(p), Loan(p))]
  /\ Unmoved /\ UNCHANGED <<loans, price, warnings, warned>>

ScanDone(p) ==
  /\ At(p, "look") /\ job[p].ids = {}
  /\ NextChain(p)
  /\ Unmoved /\ UNCHANGED <<loans, price, grace, warnings, warned>>

\* The warning, and whether to hand the loan over.
Judge(p) ==
  /\ At(p, "judge")
  /\ LET id  == Loan(p)
         ltv == job[p].ltv
     IN  /\ IF ltv >= HEALTH_LTV_BPS /\ should_emit_warning(p, id, ltv)
            THEN record_warning(p, id, ltv) /\ warned' = warned \cup {<<Chain(p), id>>}
            ELSE UNCHANGED <<warnings, warned>>
         /\ IF grace_expired(p, id) \/ (ltv >= LIQUIDATION_LTV_BPS /\ job[p].flag)
            THEN job' = [job EXCEPT ![p].stage = "execute", ![p].force = grace_expired(p, id)]
            ELSE NextLoan(p)
  /\ Unmoved /\ UNCHANGED <<loans, price, grace>>

-----------------------------------------------------------------------------
(* execute_liquidation.                                                    *)

Execute(p) ==
  /\ At(p, "execute")
  /\ LET m == Chain(p)
         id == Loan(p)
     IN  \/ /\ ~loans[m][id].active \/ (LTV(m, id) < liquidationThreshold /\ ~job[p].force)
            /\ NextLoan(p)
         \/ /\ loans[m][id].active /\ LTV(m, id) < liquidationThreshold /\ job[p].force
            /\ GoTo(p, "crash")
         \/ /\ loans[m][id].active /\ LTV(m, id) >= liquidationThreshold
            /\ GoTo(p, "seize")
  /\ Unmoved /\ UNCHANGED <<loans, price, grace, warnings, warned>>

\* LTV is inverse to the price; five per cent further down, but not below a dollar.
crashTarget(id) ==
  LET target == (price[Hub] * LTV(Hub, id) * 100) \div (liquidationThreshold * 105)
  IN  IF target > 1 THEN target ELSE 1

\* Always the hub's loan of that number and the hub's oracle.
ensure_liquidatable(p) ==
  /\ At(p, "crash")
  /\ LET id == Loan(p)
         target == crashTarget(id)
     IN  \/ /\ id \notin LoanIds(Hub)                      \* the hub's oracle reverts
            /\ NextChain(p) /\ UNCHANGED price
         \/ /\ id \in LoanIds(Hub) /\ LTV(Hub, id) >= liquidationThreshold
            /\ GoTo(p, "seize") /\ UNCHANGED price
         \/ /\ id \in LoanIds(Hub) /\ LTV(Hub, id) < liquidationThreshold
            /\ price' = [price EXCEPT ![Hub] = target]
            /\ IF getCurrentLTV(loans[Hub][id].debt, target) < liquidationThreshold
               THEN NextChain(p) ELSE GoTo(p, "seize")
  /\ Unmoved /\ UNCHANGED <<loans, grace, warnings, warned>>

liquidatable(m, id) == loans[m][id].active /\ LTV(m, id) >= liquidationThreshold

Seized(p) ==
  /\ At(p, "seize") /\ liquidatable(Chain(p), Loan(p))
  /\ Close(Chain(p), Loan(p))
  /\ \/ clear_grace(p, Loan(p)) /\ NextLoan(p)                      \* "liquidated"
     \/ Chain(p) = Hub /\ UNCHANGED grace /\ NextLoan(p)            \* "liquidated_no_blacklist"
     \/ UNCHANGED grace /\ NextChain(p)                             \* what follows raised
  /\ Unmoved /\ UNCHANGED <<price, warnings, warned>>

Refused(p) ==
  /\ At(p, "seize") /\ ~liquidatable(Chain(p), Loan(p))
  /\ NextChain(p)
  /\ Unmoved /\ UNCHANGED <<loans, price, grace, warnings, warned>>

-----------------------------------------------------------------------------
(* The test routes of the ML API, which check nothing about the loan.      *)

\* POST /agents/grace-start
start_covenant_grace(p, id) ==
  /\ start_grace(p, id)
  /\ Unmoved /\ UNCHANGED <<loans, price, warnings, job, warned>>

\* POST /agents/grace-expire
force_expire_grace(p, id) ==
  /\ expire_grace_for_test(p, id)
  /\ Unmoved /\ UNCHANGED <<loans, price, warnings, job, warned>>

-----------------------------------------------------------------------------
(* Mishaps.                                                                *)

Mishap == mishaps < MaxMishaps /\ mishaps' = mishaps + 1            \* bound

\* A read or transaction fails: the rest of this chain's scan is skipped.
Raise(p) ==
  /\ Mishap
  /\ ~At(p, "idle")
  /\ NextChain(p)
  /\ UNCHANGED <<loans, price, grace, warnings, moves, warned>>

\* The memory of the process is gone.
Restart(p) ==
  /\ Mishap
  /\ job' = [job EXCEPT ![p] = IdleJob]
  /\ grace' = [grace EXCEPT ![p] = Empty]
  /\ warnings' = [warnings EXCEPT ![p] = Empty]
  /\ UNCHANGED <<loans, price, moves, warned>>

-----------------------------------------------------------------------------
Step(p) ==
  \/ StartSweep(p) \/ _scan_active_loans(p) \/ Look(p) \/ ScanDone(p) \/ Judge(p)
  \/ Execute(p) \/ ensure_liquidatable(p) \/ Seized(p) \/ Refused(p)

Environment ==
  \/ \E m \in Markets : Borrow(m) \/ PriceMoves(m) \/ \E id \in LoanIds(m) : repayLoan(m, id)
  \/ Tick

Requests ==
  \E p \in Servers, id \in Numbers : start_covenant_grace(p, id) \/ force_expire_grace(p, id)

Next ==
  \/ Environment \/ Requests
  \/ \E p \in Processes : Step(p) \/ Raise(p) \/ Restart(p)

Spec == Init /\ [][Next]_vars

\* Time passes and the schedulers run; a server sweeps only when it is asked to.
FairSpec == Spec /\ WF_vars(Tick) /\ \A p \in Schedulers : WF_vars(Step(p))

-----------------------------------------------------------------------------
(* Properties.                                                             *)

(* A scheduler hands over by force, that is, to be liquidated with the     *)
(* oracle's help, only a loan that has itself been overdue for the whole   *)
(* grace period, whatever was repaid, restarted or repriced since its      *)
(* clock was started, and whichever clocks the test routes start or expire *)
(* in the memory of a server.  (The server's own sweeps heed those.)       *)
ForcedAfterGrace ==
  \A p \in Schedulers : job[p].force =>
    loans[Chain(p)][Loan(p)].age > Term + GracePeriod

(* No scheduler hands over by force a loan that is not even due.           *)
ForcedOnlyOverdue ==
  \A p \in Schedulers : job[p].force => Overdue(Chain(p), Loan(p))

(* Nobody loses the collateral to a falling price without a health warning *)
(* for this loan first: the de-duplication never swallows the only one.    *)
WarnedFirst ==
  \A p \in Processes : At(p, "seize") /\ ~job[p].force =>
    <<Chain(p), Loan(p)>> \in warned

\* A loan of number id, on whichever chain, has been overdue for g ticks.
OverdueFor(id, g) ==
  \E m \in Markets : id \in LoanIds(m) /\ loans[m][id].age > Term + g

WarnedOf(id) == \E m \in Markets : <<m, id>> \in warned

(* The same for the chains together, whose loans share their numbers and   *)
(* thereby their clocks and warnings: a scheduler's force follows the      *)
(* whole grace of some loan of the number, and anybody's liquidation by    *)
(* price a warning to one.                                                 *)
NumbersForcedAfterGrace ==
  \A p \in Schedulers : job[p].force => OverdueFor(Loan(p), GracePeriod)

NumbersWarnedFirst ==
  \A p \in Processes : At(p, "seize") /\ ~job[p].force => WarnedOf(Loan(p))

(* No loan stays open for good: it is repaid, or its grace runs out and    *)
(* the hand-over succeeds in the end, even when a process forgets its      *)
(* clocks, a sweep fails or the price moves away under a liquidation.      *)
OverdueResolved ==
  \A m \in Markets, id \in 1 .. MaxLoans : []<>(~Open(m, id))
=============================================================================
