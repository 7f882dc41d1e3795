-------------------------------- MODULE Clients --------------------------------
(***************************************************************************)
(* The web application: one page, of which one tab is mounted at a time.   *)
(* The tabs share no state of the browser but the connected wallet, so the *)
(* composition is a choice of the tab, made at the start: a behaviour is a *)
(* behaviour of one of the five tabs with the routes it calls, or of the   *)
(* shell that changes tabs and guards a score flow.                        *)
(***************************************************************************)
EXTENDS Integers, Sequences, FiniteSets, LoanQuote

CONSTANTS
  Tabs,                          \* the tabs to choose from
  Wallets, NoWallet,
  \* Loans
  Chains, Hub, NoChain, ScoreOf, Amounts, Prices, Drift,
  MaxLoans, MaxInputs, MaxWorld,
  \* Your account
  Results, Floor, MaxClicks, MaxRuns, MaxOutside,
  \* Prep wallet
  Steps, StartUsdc, MaxStarts, MaxTrouble, MaxRemounts,
  \* Test default
  CrashPrice, FlowPrices, LimitOf, MaxFlows, MaxOthers,
  \* Agents
  MaxChanges, MaxSwitches, MaxFailures, MaxReads, MaxWire,
  \* The shell around the tabs
  MaxNavs, MaxEntries

\* Every wallet has a score that may borrow; an ETH is worth less than 10^12
\* dollars; and an amount is so large that the head-room of a quote covers,
\* besides the drift, what two divisions round away (less than a cent).
ASSUME LoansAssumption ==
  /\ Wallets # {} /\ NoWallet \notin Wallets /\ NoChain \notin Chains
  /\ \A w \in Wallets : ScoreOf[w] \in scoreTiers[1] .. MaxScore
  /\ Prices \subseteq 1 .. OneEth /\ \E p \in Prices : \A q \in Prices : p >= q
  /\ Amounts \subseteq Nat /\ \E a \in Amounts : \A b \in Amounts : a <= b
  /\ Drift \in Nat
  /\ \A a \in Amounts :
       a * (COLLATERAL_BUFFER_BPS * (Bps - Drift) - Bps * Bps) >= 2 * Bps * Bps

\* The steps of the tab, in some order.
ASSUME StepsAssumption ==
  /\ Steps # <<>>
  /\ Steps \in Seq({"arbitrum-activity", "base-activity", "arbitrum-aave", "base-aave", "morpho"})

VARIABLES
  mounted,                       \* the tab
  account, page, calls, loans, price, verdict, events, rows, inputs, world,
  address, tab, tasks, chain, cached, latest, sessions, runs, clicks, outside, marks,
  net, purse, attempts, shown, prepping, starts, trouble, remounts, shared,
  subject, status, steps, running, completed, whitelisting, requests, feedPrice,
  hubLoans, barred, grace, finished, flows, others,
  viewer, panel, feed, reads, log, changes, switches, failures,
  place, saved, live, armed, scoringActive, pendingNav, pos, top, pushed, traversals, asked, navs

Loans   == INSTANCE LoansPage
Account == INSTANCE ScoreFlow
Prep    == INSTANCE PrepWallet
Default == INSTANCE DefaultFlow WITH account <- subject, feed <- feedPrice, loans <- hubLoans,
             outside <- others, Prices <- FlowPrices, MaxOutside <- MaxOthers
Agents  == INSTANCE AgentsFeed
Shell   == INSTANCE NavigationGuard

loansVars == <<account, page, calls, loans, price, verdict, events, rows, inputs, world>>
scoreVars == <<address, tab, tasks, chain, cached, latest, sessions, runs, clicks, outside, marks>>
prepVars  == <<net, purse, attempts, shown, prepping, starts, trouble, remounts, shared>>
flowVars  == <<subject, status, steps, running, completed, whitelisting, requests, feedPrice,
               hubLoans, barred, grace, finished, flows, others>>
feedVars  == <<viewer, panel, feed, reads, log, changes, switches, failures>>
navVars   == <<place, saved, live, armed, scoringActive, pendingNav, pos, top, pushed, traversals,
               asked, navs>>

clientVars == <<mounted, loansVars, scoreVars, prepVars, flowVars, feedVars, navVars>>

\* Of the first states of a tab those are left out that a click leads to, and
\* those of the tabs that are not mounted.
Init ==
  /\ mounted \in Tabs
  /\ Loans!LoansInit /\ Account!ScoreInit /\ Prep!PrepInit /\ Default!FlowInit /\ Agents!FeedInit
  /\ Shell!NavInit
  /\ page.picked = Hub /\ page.sub = "purchase"
  /\ mounted # "prep" => \A n \in DOMAIN purse : purse[n].usdc = 0 /\ net = "base"

InLoans   == mounted = "loans"   /\ UNCHANGED <<mounted, scoreVars, prepVars, flowVars, feedVars, navVars>>
InAccount == mounted = "account" /\ UNCHANGED <<mounted, loansVars, prepVars, flowVars, feedVars, navVars>>
InPrep    == mounted = "prep"    /\ UNCHANGED <<mounted, loansVars, scoreVars, flowVars, feedVars, navVars>>
InDefault == mounted = "default" /\ UNCHANGED <<mounted, loansVars, scoreVars, prepVars, feedVars, navVars>>
InAgents  == mounted = "agents"  /\ UNCHANGED <<mounted, loansVars, scoreVars, prepVars, flowVars, navVars>>
InShell   == mounted = "shell" /\ UNCHANGED <<mounted, loansVars, scoreVars, prepVars, flowVars, feedVars>>

Next ==
  \/ InLoans   /\ Loans!LoansNext
  \/ InAccount /\ Account!ScoreNext
  \/ InPrep    /\ Prep!PrepNext
  \/ InDefault /\ Default!FlowNext
  \/ InAgents  /\ Agents!FeedNext
  \/ InShell   /\ Shell!NavNext

\* Only the feed promises something in the end: its timers fire, its reads
\* make progress (an answer, or one of finitely many failures), and the
\* messages of its stream are handled.
Spec ==
  /\ Init /\ [][Next]_clientVars
  /\ WF_clientVars(InAgents /\ Agents!Tick)
  /\ WF_clientVars(InAgents /\ Agents!onmessage)
  /\ \A pc \in Agents!Stages : WF_clientVars(InAgents /\ Agents!Answer(pc))

-----------------------------------------------------------------------------
(* The properties of the tabs.                                             *)

\* What the Loans tab records of a wallet's own transactions is true.
EventsTrue == Loans!EventsTrue

\* A loan is refused for its collateral only when its quote was stale.
QuoteOpens == [][Loans!RefusedWhenStale]_clientVars

\* At most one score run at a time, as long as nothing was cancelled.
OneRunUncancelled == Account!OneRunUncancelled

\* At rest the cached score is the one on the chain.
HealedAtRest == Account!HealedAtRest

\* A step of the Prep tab that reaches its end leaves no debt behind.
DoneCleans == Prep!DoneCleans

\* A flow of the Test-default tab shown as complete has closed its loan.
FlowClosesLoan == Default!FlowClosesLoan

\* No score flow is left behind the user's back.
LeaveAsked ==
  [][armed /\ live => (place' = place \/ asked') /\ pos' > 1]_clientVars

\* The Agents tab ends up with the present rows of the connected wallet.
FeedHeals == mounted = "agents" => Agents!FeedHeals
=============================================================================
