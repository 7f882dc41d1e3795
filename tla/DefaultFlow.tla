----------------------------- MODULE DefaultFlow -----------------------------
(***************************************************************************)
(* The Test-default tab: it crashes the price feed of the hub, warns,      *)
(* starts and expires the grace clock of the user's loan, liquidates it,   *)
(* and can whitelist the wallet again.  Every step is a request to an      *)
(* agent; between two of them, and inside the liquidation, the price, the  *)
(* loan and the connected wallet may change.                               *)
(***************************************************************************)
EXTENDS Integers, Sequences, FiniteSets, TLC

CONSTANTS
  Wallets, NoWallet,
  CrashPrice,    \* the price the tab asks for
  Prices,        \* prices others set
  LimitOf,       \* LimitOf[w]: highest price at which w's loan is liquidatable
  MaxLoans,      \* bound: hub loans
  MaxFlows,      \* bound: runs of the flow, whitelistings and reads of the status
  MaxOutside     \* bound: what others do

VARIABLES
  account,       \* the connected wallet
  status,        \* what the tab shows of the hub (of `status.wallet`)
  steps,         \* status of each step in the tab
  running, completed, whitelisting,
  requests,      \* pending calls
  feed,          \* the mock feed's price
  loans,         \* hub loans, by number
  barred,        \* blacklisted or with a default, on the hub
  grace,         \* loan numbers whose grace clock runs, or has expired
  finished,      \* history: loans whose flow got through its last step
  flows, outside \* counters of the bounds

flowVars == <<account, status, steps, running, completed, whitelisting, requests, feed,
              loans, barred, grace, finished, flows, outside>>

NoStatus == [wallet |-> NoWallet, loan |-> 0, barred |-> FALSE]

\* TEST_DEFAULT_FLOW with its API steps; both grace calls are one panel step.
Script == <<"crash_oracle", "health_warning", "grace_start", "grace_expire", "liquidate">>

PanelSteps == {"crash_oracle", "health_warning", "grace", "liquidate"}

Panel(step) == IF step \in {"grace_start", "grace_expire"} THEN "grace" ELSE step

initialStepStatuses == [s \in PanelSteps |-> "pending"]

\* load; `for` is the handler that awaits it.
StatusCall(w, for, here) ==
  [kind |-> "status", wallet |-> w, pc |-> "asked", got |-> NoStatus, for |-> for, here |-> here]

FlowInit ==
  /\ account = CHOOSE w \in Wallets : TRUE
  /\ status = NoStatus /\ steps = initialStepStatuses
  /\ running = FALSE /\ completed = FALSE /\ whitelisting = FALSE
  /\ requests = {StatusCall(account, "tab", TRUE)}
  /\ feed = CHOOSE p \in Prices : \A q \in Prices : p >= q
  /\ loans = << >> /\ barred = {} /\ grace = [started |-> {}, expired |-> {}]
  /\ finished = {} /\ flows = 0 /\ outside = 0

IsActive(l)    == l \in DOMAIN loans /\ loans[l].active
Borrower(l)    == loans[l].borrower
activeLoanId(w) == IF \E l \in DOMAIN loans : loans[l] = [borrower |-> w, active |-> TRUE]
                   THEN CHOOSE l \in DOMAIN loans : loans[l] = [borrower |-> w, active |-> TRUE]
                   ELSE 0
Liquidatable(l, price) == price <= LimitOf[Borrower(l)]

Close(l) == loans' = [loans EXCEPT ![l].active = FALSE]

UserStep == flows < MaxFlows /\ flows' = flows + 1
Outside  == outside < MaxOutside /\ outside' = outside + 1
Chain    == <<feed, loans, barred, grace>>

-----------------------------------------------------------------------------
(* The tab.                                                                *)

\* Without a wallet the flow's panel is gone: what it started goes on, and a
\* later panel knows nothing of it.
SwitchWallet(w) ==
  /\ UserStep /\ w # account /\ account' = w
  /\ IF w = NoWallet
     THEN /\ requests' = {[r EXCEPT !.here = FALSE] : r \in requests}
          /\ steps' = initialStepStatuses /\ running' = FALSE /\ whitelisting' = FALSE
     ELSE /\ requests' = requests \cup {StatusCall(w, "tab", TRUE)}
          /\ UNCHANGED <<steps, running, whitelisting>>
  /\ UNCHANGED <<status, completed, Chain, finished, outside>>

Refresh ==
  /\ UserStep /\ account # NoWallet
  /\ requests' = requests \cup {StatusCall(account, "tab", TRUE)}
  /\ UNCHANGED <<account, status, steps, running, completed, whitelisting, Chain, finished, outside>>

\* readDefaultTestStatus, in one step.
ReadStatus(r) ==
  /\ r.kind = "status" /\ r.pc = "asked"
  /\ requests' = (requests \ {r}) \cup
       {[r EXCEPT !.pc = "answered",
                  !.got = [wallet |-> r.wallet, loan |-> activeLoanId(r.wallet),
                           barred |-> r.wallet \in barred]]}
  /\ UNCHANGED <<account, status, steps, running, completed, whitelisting, Chain, finished, flows, outside>>

\* The answer is shown, whatever wallet is connected; a failure shows nothing.
\* Either way the handler that awaited it ends.
StatusAnswer(r) ==
  /\ r.kind = "status"
  /\ \/ r.pc = "answered" /\ status' = r.got
     \/ status' = status
  /\ requests' = requests \ {r}
  /\ completed' = (completed \/ r.for = "flow")
  /\ running' = (running /\ ~(r.for = "flow" /\ r.here))
  /\ whitelisting' = (whitelisting /\ ~(r.for = "pardon" /\ r.here))
  /\ UNCHANGED <<account, steps, Chain, finished, flows, outside>>

\* getDefaultScenarioEligibility.
Eligible == status # NoStatus /\ ~status.barred /\ status.loan # 0

\* The header of every request is the wallet of the click; the loan is the
\* one of the status shown, which may be another wallet's.
runFlow ==
  /\ UserStep /\ Eligible /\ ~running /\ account # NoWallet
  /\ running' = TRUE
  /\ steps' = [initialStepStatuses EXCEPT !["crash_oracle"] = "active"]
  /\ requests' = requests \cup
       {[kind |-> "flow", wallet |-> account, loan |-> status.loan, at |-> 1, pc |-> "call",
          here |-> TRUE]}
  /\ UNCHANGED <<account, status, completed, whitelisting, Chain, finished, outside>>

handleWhitelist ==
  /\ UserStep /\ account # NoWallet /\ ~whitelisting
  /\ status.barred \/ completed
  /\ whitelisting' = TRUE
  /\ requests' = requests \cup {[kind |-> "pardon", wallet |-> account, pc |-> "call", here |-> TRUE]}
  /\ UNCHANGED <<account, status, steps, running, completed, Chain, finished, outside>>

-----------------------------------------------------------------------------
(* The flow: one request per step; an error ends it.                       *)

Step(r) == Script[r.at]

Show(r, changes) == steps' = IF r.here THEN changes @@ steps ELSE steps

FlowFails(r) ==
  /\ requests' = requests \ {r}
  /\ Show(r, Panel(Step(r)) :> "error")
  /\ running' = (running /\ ~r.here)

\* The answer of a step: the next one begins, or the loads that end the flow.
StepAnswered(r) ==
  /\ IF r.at < Len(Script)
     THEN /\ requests' = (requests \ {r}) \cup {[r EXCEPT !.at = @ + 1, !.pc = "call"]}
          /\ Show(r, Panel(Script[r.at + 1]) :> "active" @@ Panel(Step(r)) :> "completed")
          /\ finished' = finished
     ELSE /\ requests' = (requests \ {r}) \cup {StatusCall(r.wallet, "flow", r.here)}
          /\ Show(r, "liquidate" :> "completed")
          /\ finished' = finished \cup {r.loan}
  /\ UNCHANGED <<running, completed>>

Calls(r, step) == r.kind = "flow" /\ r.pc = "call" /\ Step(r) = step

\* crash_eth_oracle: the price the tab asks for, even when it is higher.
CrashOracle(r) ==
  /\ Calls(r, "crash_oracle") /\ feed' = CrashPrice /\ StepAnswered(r)
  /\ UNCHANGED <<account, status, whitelisting, loans, barred, grace, flows, outside>>

\* emit_health_warning raises for a loan that is not active.
HealthWarning(r) ==
  /\ Calls(r, "health_warning") /\ IsActive(r.loan) /\ StepAnswered(r)
  /\ UNCHANGED <<account, status, whitelisting, Chain, flows, outside>>

\* start_grace keeps a clock that already runs; expire_grace_for_test sets it back.
GraceStart(r) ==
  /\ Calls(r, "grace_start") /\ StepAnswered(r)
  /\ grace' = [grace EXCEPT !.started = @ \cup ({r.loan} \ grace.expired)]
  /\ UNCHANGED <<account, status, whitelisting, feed, loans, barred, flows, outside>>

GraceExpire(r) ==
  /\ Calls(r, "grace_expire") /\ StepAnswered(r)
  /\ grace' = [started |-> grace.started \ {r.loan}, expired |-> grace.expired \cup {r.loan}]
  /\ UNCHANGED <<account, status, whitelisting, feed, loans, barred, flows, outside>>

\* Any request may be lost or refused by the agent.
StepFails(r) ==
  /\ r.kind = "flow" /\ FlowFails(r)
  /\ UNCHANGED <<account, status, completed, whitelisting, Chain, finished, flows, outside>>

Continue(r, pc) ==
  /\ requests' = (requests \ {r}) \cup {[r EXCEPT !.pc = pc]}
  /\ UNCHANGED <<steps, running, completed, finished>>

\* Mutant: the step does not ask for force_grace, and an unready loan is skipped.
LiquidateBegin_unforced(r) ==
  /\ Calls(r, "liquidate")
  /\ IF IsActive(r.loan) /\ Liquidatable(r.loan, feed)
     THEN Continue(r, "liquidate") ELSE StepAnswered(r)
  /\ UNCHANGED <<account, status, whitelisting, Chain, flows, outside>>

\* execute_liquidation with force_grace: a loan that is not active is skipped,
\* which the tab takes for a completed step.
LiquidateBegin(r) ==
  /\ Calls(r, "liquidate")
  /\ IF ~IsActive(r.loan) THEN StepAnswered(r)
     ELSE Continue(r, IF Liquidatable(r.loan, feed) THEN "liquidate" ELSE "lower")
  /\ UNCHANGED <<account, status, whitelisting, Chain, flows, outside>>

\* ensure_liquidatable sets the price that puts the loan just over the
\* threshold, but not below one dollar, and looks again.
EnsureLiquidatable(r) ==
  /\ r.kind = "flow" /\ r.pc = "lower"
  /\ feed' = IF LimitOf[Borrower(r.loan)] > 1 THEN LimitOf[Borrower(r.loan)] ELSE 1
  /\ Continue(r, "look")
  /\ UNCHANGED <<account, status, whitelisting, loans, barred, grace, flows, outside>>

LookAgain(r) ==
  /\ r.kind = "flow" /\ r.pc = "look"
  /\ IF Liquidatable(r.loan, feed) THEN Continue(r, "liquidate")
     ELSE FlowFails(r) /\ UNCHANGED <<completed, finished>>
  /\ UNCHANGED <<account, status, whitelisting, Chain, flows, outside>>

\* The contract refuses a loan that is closed or healthy by now; otherwise it
\* marks the default.  What follows (linked wallets, the review, broadcasts)
\* may fail after the loan is gone.
Liquidate(r) ==
  /\ r.kind = "flow" /\ r.pc = "liquidate"
  /\ IF IsActive(r.loan) /\ Liquidatable(r.loan, feed)
     THEN /\ Close(r.loan) /\ barred' = barred \cup {Borrower(r.loan)}
          /\ \/ StepAnswered(r)
             \/ FlowFails(r) /\ UNCHANGED <<completed, finished>>
     ELSE FlowFails(r) /\ UNCHANGED <<completed, finished, loans, barred>>
  /\ UNCHANGED <<account, status, whitelisting, feed, grace, flows, outside>>

\* unblacklist: whitelist_wallet of the hub, and the tab's answer to it; a
\* wallet without a profile is answered without one being made.
Whitelist(r) ==
  /\ r.kind = "pardon"
  /\ \/ /\ barred' = barred \ {r.wallet} /\ completed' \in {FALSE, completed}
        /\ requests' = (requests \ {r}) \cup {StatusCall(r.wallet, "pardon", r.here)}
        /\ whitelisting' = whitelisting
     \/ /\ barred' \in {barred, barred \ {r.wallet}} /\ completed' = completed
        /\ requests' = requests \ {r}
        /\ whitelisting' = (whitelisting /\ ~r.here)
  /\ UNCHANGED <<account, status, steps, running, feed, loans, grace, finished, flows, outside>>

-----------------------------------------------------------------------------
(* Outside: another browser's flow, the market, the user's Loans tab, the   *)
(* monitor's liquidation.                                                  *)

SetPrice(p) ==
  /\ Outside /\ p # feed /\ feed' = p
  /\ UNCHANGED <<account, status, steps, running, completed, whitelisting, requests, loans, barred, grace, finished, flows>>

Borrow(w) ==
  /\ activeLoanId(w) = 0 /\ w \notin barred /\ Len(loans) < MaxLoans
  /\ loans' = Append(loans, [borrower |-> w, active |-> TRUE])
  /\ UNCHANGED <<account, status, steps, running, completed, whitelisting, requests, feed, barred, grace, finished, flows, outside>>

Repay(l) ==
  /\ Outside /\ IsActive(l) /\ Close(l)
  /\ UNCHANGED <<account, status, steps, running, completed, whitelisting, requests, feed, barred, grace, finished, flows>>

MonitorLiquidates(l) ==
  /\ Outside /\ IsActive(l) /\ Liquidatable(l, feed) /\ Close(l)
  /\ barred' = barred \cup {Borrower(l)}
  /\ UNCHANGED <<account, status, steps, running, completed, whitelisting, requests, feed, grace, finished, flows>>

FlowNext ==
  \/ \E w \in Wallets \cup {NoWallet} : SwitchWallet(w)
  \/ Refresh \/ runFlow \/ handleWhitelist
  \/ \E r \in requests :
       \/ ReadStatus(r) \/ StatusAnswer(r) \/ CrashOracle(r) \/ HealthWarning(r)
       \/ GraceStart(r) \/ GraceExpire(r) \/ StepFails(r) \/ LiquidateBegin(r)
       \/ EnsureLiquidatable(r) \/ LookAgain(r) \/ Liquidate(r) \/ Whitelist(r)
  \/ \E p \in Prices : SetPrice(p)
  \/ \E w \in Wallets : Borrow(w)
  \/ \E l \in DOMAIN loans : Repay(l) \/ MonitorLiquidates(l)

-----------------------------------------------------------------------------

\* A flow the tab reports as complete has closed its loan, however the price,
\* the loan or the wallet changed under way: the tab itself looks only at
\* the HTTP status of the steps, so it rests on force_grace, on the second
\* look of ensure_liquidatable and on the revert of the contract
\* (TestDefaultFlow.runFlow, LiquidationAgent.execute_liquidation).
FlowClosesLoan == \A l \in finished : ~loans[l].active
=============================================================================
