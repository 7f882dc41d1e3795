# CredFlow in TLA+

A verification project for CredFlow: credit scores that live in a
hub-chain registry, under-collateralised lending on a hub and on spoke chains,
the agents that keep the chains in step, the web application in front of them,
and the operator's scripts behind them. The models are written in TLA+
from the sources, checked with TLC on small instances, and the most important
invariants are proved with TLAPS for every value of the constants.

Contents

1. [The system](#1-the-system): components, state, operations, interactions
2. [What is hard](#2-what-is-hard)
3. [Modules](#3-modules): which module models what, and how
4. [Runs](#4-runs): what each run checks, its bounds, what it shows
5. [Fairness](#5-fairness)
6. [Proofs](#6-proofs)
7. [Disagreements between documentation and code](#7-disagreements-between-documentation-and-code)
8. [Not modelled, and assumptions](#8-not-modelled-and-assumptions)
9. [Plan](#9-plan)

`PROJECT.json` holds the same facts in a form tools can read: the map from every
definition to the source lines it models, the runs, the mutants that show each
property can fail, the hazards and the theorems.

To check a run: `tlc -workers 2 -config MCRateOptimizer.cfg MCRateOptimizer`.
To check the proofs of a module: `tlapm RateOptimizerProofs.tla`.

## 1. The system

The **hub** chain carries the credit profiles, the main lending market, its
liquidity pool and the LayerZero application that sends. Each **spoke**
(Arbitrum, Base) carries a copy of the LayerZero application that receives, and a
lending market that consults it. No contract on one chain can read another: a
spoke believes what the last message told it, and the hub believes what the
agents write on it. The **agents** are Python functions which share one private
key and run in two processes: the scheduler, which runs three jobs one after the
other, and the ML API, whose thread pool serves the **web application**.
Borrowers and lenders sign their own transactions.

| Component | State | Operations | Correct when |
|---|---|---|---|
| `CredScoreSBT` (hub) | profile per wallet (score, loan and default counters, `exists`, `loanActive`), blacklist | mintSBT, updateScore, setLoanActive, setLoanRepaid, recordDefault, blacklistLinkedWallets, removeFromBlacklist, whitelistWallet | scores in 300..850; a wallet defaults once until it is whitelisted; only clean profiles carry loans |
| `CredScoreEngine` (hub) | none | computeCredScore, mintScore | the formula's result is a legal score |
| `CredFlowLending` (hub) | loans, activeLoanId, loanCounter, rate, threshold, pause, token balances | requestLoan, repayLoan, liquidate, admin setters | at most one loan per wallet, exactly indexed; a loan opens within its tier; collateral and pool debt are backed |
| `CredFlowLP` (hub, spokes) | shares, totalDeposited, totalBorrowed | deposit, withdraw, recordBorrow, recordRepayment | shares stay at par and are redeemable |
| `CredFlowSpokeLending` | loans, activeLoanId | requestLoan, repayLoan, liquidate | lends only to wallets the registry admits |
| `CredFlowOApp` | on a spoke: score, blacklist and loan mirror per wallet; messages in flight | broadcasts on the hub, `_lzReceive` and `clearDefaultBlacklist` on a spoke | the mirror comes to agree with the hub |
| `ChainlinkOracle` | the feed's price | getValueUSD | reverts rather than return 0 |
| `sync_service` | none | sync loan created, repaid | both sides of a loan get locked and unlocked |
| `crosschain_sync` | block cursor in process memory | score batch, loan batch | repairs what was lost |
| `scheduler` | time of the last runs | monitor, rates, sync | a failing job does not stop the others |
| `portfolio_monitor`, `state` | grace clocks and warnings in process memory | one sweep | no force before the whole grace; no overdue loan for ever |
| `liquidation_agent`, `test_default` | none | execute_liquidation, ensure_liquidatable, whitelist_wallet | a default is known everywhere; a pardon is complete |
| `rate_optimizer`, `groq_brain` | none | one run | band, step and hard rules hold whatever the language model says |
| `underwriter_agent` | none | underwrite_wallet | only approved wallets get a profile |
| `tx_sender` | nonce lock and tracked nonce per chain and process | send_contract_tx | no call is executed twice, no gap in the nonces |
| web routes | cool-downs; loan events, broadcasts, score runs and profiles in Supabase | borrow, repay, loans, quote, score stream, profile, reset, mint | every change on one chain is announced to the others; the rows tell the truth |
| Loans tab | form, quote, signed and posted transactions | quote, Borrow, Repay | what is signed is what was quoted |
| Your-account tab | phase, view, stream, poll loop; Reclaim sessions of the scoring service | score run, bank login, profile loads | one run at a time; the page comes to show the chain's score |
| shell of the page | tab (kept in localStorage), navigation guard, browser history | tabs, Back, the dialog | a score flow is not left unasked |
| Prep-wallet tab | progress of five steps | transfers, Aave and Morpho loans | no debt is left behind |
| Test-default tab | progress of the crash, warn, grace, liquidate flow | start, whitelist | "complete" means the loan is closed |
| Agents tab | feed of runs and log lines | event stream, polling | ends up with the present rows |
| deployment scripts | address records in `docs/*.json`, `.env`, the pages | deploy, wire, grant, copy | what is recorded is wired |
| pardon scripts | none | whitelist a ring, all wallets, one, the zero address | a pardon holds on every chain |
| scoring pipeline (machine learning), indexer, drawing | | | not part of the models |

How they interact:

- `requestLoan`, `repayLoan` and `liquidate` on the hub call the profile and, when
  one is connected, the pool, in the same transaction.
- After a borrow or repay transaction is mined, the borrower's browser calls a route
  of the web application, which calls the ML API, where a thread reads the loans
  of all chains, one read at a time, and then sends the transactions that follow
  from them.
- Every broadcast is one transaction per spoke. LayerZero delivers each message
  exactly once, after any delay and in any order.
- Every hour the scheduler broadcasts the scores written since its cursor, and the lock
  or unlock of every wallet with a hub loan event. Viewing the loans page
  repairs locks that are missing or left over, and copies a spoke's score to the
  hub when it is higher there.
- The monitor sweeps hub, Arbitrum and Base, starts clocks for overdue
  loans and hands loans over to the liquidation agent, which may lower the (mock)
  oracle until the contract agrees to liquidate.
- The page's handlers run one at a time, but every `await` lets the user click on,
  switch the wallet or leave the tab; the code that awaits is not cancelled.
- The operator's scripts use the agents' key, the deployed contracts' roles, and the address
  records that the agents and the pages are started with.

## 2. What is hard

- **Two views of one borrower.** Whether a wallet has a loan is recorded in `activeLoanId` of three
  markets, in the hub profile's `loanActive`, and in one mirror per spoke. Borrowers,
  web threads and the scheduler write them in separate transactions, and a decision
  is taken from reads that may be out of date when its transactions are mined.
- **Unordered messages without versions.** A late REPAID undoes a newer LOAN_ACTIVE, a
  late SCORE_UPDATE overwrites a newer score, a late DEFAULT follows a WHITELIST.
- **Partial failure.** A raised exception leaves the first spoke told and the second
  not; some failures are swallowed, others abandon the rest of a job.
- **State in process memory.** Grace clocks, warnings and the batch cursor are gone
  with the process, and keyed by loan number although three chains number their
  loans from one.
- **Stale inputs.** The rate optimizer and the monitor read the chain, wait for a language
  model, and then act; a second run of the optimizer, asked for through the API, may do so at the same time.
- **Answers nobody waits for any more.** Quotes, profile loads, score streams, polls and
  feeds are shown or acted upon when they come, whichever wallet, tab or form they were for.
- **Scripts that stop in the middle.** A deployment is a dozen transactions and file writes; nothing is undone, and later
  scripts resume from what was recorded.
- **One account, several senders.** Two processes, several threads and the scripts take nonces of one key.
- **Integer arithmetic.** Shares, interest, limits and LTV round down; counters of the profile are
  `uint8`.

The `hazards` of `PROJECT.json` list these one by one, each at its line and with the
properties that would catch it, or the reason why none does.

## 3. Modules

```
CreditMath          tiers, score, interest, LTV, rate proposals (pure)
CredFlowLP          the pool                    CredScoreSBT   the profiles
   |                                               |      |
RateOptimizer = CredFlowLP + CreditMath            |      |
CredFlowLending = CredScoreSBT + CredFlowLP + CreditMath  |    implements CreditLine
CredFlowOApp = CredScoreSBT + the messages and the spokes' registries
CrossChain = CredFlowOApp + CreditMath + markets, agents and web application
PortfolioMonitor    sweep, clocks and liquidation, on its own

Operator = a choice of Deployment (which it extends), Pardons = CredFlowOApp + scripts, TxSender
Clients  = a choice of LoansPage (with LoanQuote), ScoreFlow, PrepWallet, DefaultFlow,
           AgentsFeed and NavigationGuard
```

`*Proofs` modules hold the theorems about the module they are named after, ContractProofs those
about CreditMath, CredScoreSBT and CredFlowLP, `MC*`
modules the values TLC needs. An operator with a suffix under the comment "Mutant" is a
plausible mistake in the operator of the same name; nothing uses it except the mutants
`PROJECT.json` lists.

**CreditMath** has the constants and formulas of `CredScoreEngine`, of both lending contracts
and of the rate optimizer, with Solidity's integer division and Python's order of
adjustments.

**CredFlowLP** has the pool's state, and one action per function. The tokens it holds are `poolBalance`.
The pool never funds a loan: the market pays out of its own balance and merely reports loans to the pool.

**CredScoreSBT** keeps the fields of a profile that decide anything: existence, score,
`totalLoans`, `defaultCount`, `loanActive`, `loanStatus`; and the blacklist. `uint8`
counters are checked: an increment at `MaxUint8` reverts, as in Solidity 0.8.

**CreditLine** is the abstract promise of the hub market: one line of credit per wallet, which is
*none*, *clear*, *borrowed* or *defaulted*, the principal owed on it, and the market's
cash. A loan is either settled, with the principal back, or written off, and then the
wallet has to be pardoned before it borrows again.

**CredFlowLending** composes the market with profile, pool, engine, oracle and clock. One action
is one transaction. `requestLoan` has all of the contract's checks in its guard, and the
profile's and pool's changes in its effect. The agents may set and clear profile flags,
blacklist and whitelist, and the administrator may change every parameter, between any
two transactions. A loan record is the contract's without `collateralToken` (one token) and
`dueTime` (no function of the contract reads it). `price = 0` stands for an oracle that reverts. `setLiquidityPool` connects and disconnects
the pool at any time; `unreported` is the history of the loans that were closed while none was connected, of which the pool never heard.

**CredFlowOApp** is the registry of each spoke and the bag of messages in flight. A message
is delivered once, at any time after it was sent, in any order: `lzReceive` takes any
message out of the bag. The same message can be in flight at most `MaxCopies` times:
sending a copy of a message in flight waits until that one is delivered. A second copy
in flight would, when delivered, write again what a
delivery of the first may write at that time, with other messages in between.

**CrossChain** reduces a loan to `loan[m][w]`, that is, `activeLoanId(w) # 0` on chain `m`, and
models who may borrow (`HubAccepts`, `SpokeAccepts` are the contracts' checks) and what the
agents do about it. A function of the agents is the list `job[t].todo` of the chain reads and
transactions that thread `t` still has to do; a step performs the head of the list, and
the decisions (`DecideCreated`, `DecideRepaid`, `Enrich`, `DecideWhitelist`, `Verdict`, ...) replace it by
what the code does next and by what its caller still has to do (`Rest`): a score repair that follows a lock repair is not lost.
Everything else may happen between two steps. `Fail` lets a step raise; `Salvage` says what of the list survives, from the `try` blocks of the code:
nothing, the rest (a swallowed exception), or the unlock that the web application sends
when the sync after a repayment failed. `touched` are the wallets with hub loan events,
`unsynced` the scores past the batch's cursor. `GET /api/loans` reads the chains one after the other and
repairs what disagrees in those reads: a lock missing or left over, and a score that is higher on a spoke than on the hub, which it
has underwritten on the hub and sent to all spokes (`Enrich`). A refused underwriting drops the commit and what
depends on it (`Refused`). `ClearLzLock` is the button that clears a left-over lock, with its two looks at the chains. Liquidation and
whitelisting may begin at any time, also beside each other. `shunned` and `crossed` are history variables for properties only: the
wallets liquidated, or linked to one, and not reported whitelisted since; and those whose default was under way, or came up, during
their last whitelisting, or whose spoke list the whitelisting could not read. A crossed whitelisting does not end a shunning.

**PortfolioMonitor** follows one sweep per process, chain by chain and loan by loan: the
scan, the look at a loan up to the language model's verdict, the judgement, and the steps of
`execute_liquidation` with the oracle helper. The scan is the set `ids` of the loan numbers still to be handled, from which
the sweep takes the smallest, for the code goes through the numbers in their order. A time stamp is modelled by its age, up to
the last age the code can tell apart, so that time has no end and the state space is
finite. `warned` is a history variable. A process in `Servers` serves the ML API: its sweeps begin only when a client asks for one, and its
test routes `start_covenant_grace` and `force_expire_grace` start and expire clocks of any loan number in that process's own
memory, and nothing else.

**RateOptimizer** runs the optimizer beside a pool that lenders and borrowers move between its
reads and its transaction. A run belongs to one of the `Runners`, the scheduler's job and threads that serve
`POST /agents/optimize-rates`; each reads the utilization, then the rate, then waits for the verdict and writes, and nothing keeps them apart.
The histories `calm`, `writes` and `seen` say what the rate was when a run began while nobody else ran, how many verdicts were applied since, and
what kinds of utilization (scarce, fair, slack) the runs read since.

**LoanQuote** is the collateral the page computes for a loan, the inverse of the contract's check with
rounded divisions of its own.

**LoansPage** is the Loans tab with the quote, borrow and repay routes and the rows they insert. A *call* is a piece
of code at its `await`: a request, or a handler of a button. Transactions are signed by the account the
browser wallet has at that moment, mined later, and may be refused.

**ScoreFlow** is the Your-account tab with its stream, poll loop and profile loads (`tasks`), the four writes
that record a run, and the Reclaim sessions of the scoring service, which a reset, by route or by script, wipes table by table.

**PrepWallet** is the Prep-wallet tab: a step is a list of operations, each decided by a balance or an allowance read before it.

**DefaultFlow** is the Test-default tab and the test routes of the agents: price crash, warning, grace clock started and expired,
liquidation, whitelisting, with requests that outlive the panel.

**AgentsFeed** is the Agents tab: the server's timer and its reads, the stream, the client's loads and polls.

**NavigationGuard** is the shell: tabs, the place kept in localStorage, the guard with its dialog, and the
browser's history, in which `history.back()` is a request that is carried out later.

**Clients** composes the six. One tab is mounted at a time, and they share nothing in the browser but the wallet,
so a behaviour of the composition is one of the tab chosen at the start.

**Deployment** has the contracts that exist (`born`), the wiring facts that hold on chain (`facts`), the address records, `.env` and
the copies the pages use. A script is a sequence of transactions and file writes which may stop before any of them. `printed` has the
addresses that the script started last has printed. `finish-spoke-lending.js` is given its addresses by hand (`Existing`): any contracts of the
spoke, or, of a `Careful` operator, those just printed.

**Pardons** has the four scripts that clear blacklists, step by step, beside liquidations, rescoring and messages in
flight; it extends CredFlowOApp. **TxSender** has `send_contract_tx`: locks made on demand, the tracked nonce, the retries, answers that
are lost, and other senders of the same account. **Operator** composes the three as a choice made at
the start, for Deployment and Pardons share no state and treat any transaction as one that may fail.
Its assumption names the data the scripts meet: finitely many threads and wallets, score values a profile can have, rows that are wallets.
Deployment's assumption is that there are finitely many spokes, and none is called like the hub, a record's field or a role.

## 4. Runs

Deadlock checking is off wherever the model may stop because one of its bounds is
exhausted (no more loans, no more failures); `rates` checks for deadlock.

| Run | Configuration | Checks | Shows |
|---|---|---|---|
| `rates` | 2 lenders, deposits and loans of 1 or 2, verdicts of 50 bps up or down or none, a band of 470 to 530 bps, 2 overlapping runs | TypeOK, RedeemAtPar, LendersWhole, RateInBand, RateStepBounded, HardRulesWin, ScarcityPricedIn | the pool's shares are never diluted; overlapping runs stay in the band, move the rate by at most 50 bps per verdict from where it was when nobody ran, and, if all of them saw scarcity, leave it no lower; lasting scarcity takes the rate to its ceiling |
| `lending` | either 2 borrowers over few values, or 1 borrower over scores around the top tier, odd amounts, 2 thresholds and a dead oracle; symmetric | TypeOK, LoanIndex, DefaultsCleanly, CollateralBacked, PoolDebtBacked, OpensHealthy, ImplementsCreditLine | borrowers, liquidator, agents, lender and administrator, who connects and disconnects the pool as well, in any order leave index, collateral and pool debt right; rounding never opens a loan outside its tier; the market implements one credit line per wallet |
| `settled` | hub and 2 spokes, 1 patient wallet, 2 threads, two scores, views, clear-lock requests and rescoring | TypeOK, HubLoanLocksSpokes, SpokeLoanLocksHub, HubExclusive | when the agents are done and the messages are in, a hub loan closes both spokes and a spoke loan closes the hub |
| `recovery` | hub market, 1 spoke, 2 linked wallets of which one borrows, liquidation and whitelisting at any time, 1 failure | ShunnedForCause, ScoreRestored | the blacklist entries are gone from hub and spoke after a whitelisting that reported success, in whichever order its messages, earlier ones and the DEFAULTs of the other wallet arrive and whichever step failed, provided that no default of the same wallet crossed it and that it could read the spokes' lists; without a failure the score of 310 is gone too |
| `hubsync` | hub market, 1 spoke, 1 impatient wallet and operator, 1 failure | EventuallyLocked, EventuallyUnlocked | the hourly job brings the spoke's lock in line with the hub, whatever was reordered or failed before |
| `monitor` | 1 chain, a scheduler and an API process; 2 loans, 1 price move, 1 failure or restart while the API does nothing, and 1 loan with one of these once it has swept or started or expired a clock | TypeOK, ForcedAfterGrace, WarnedFirst, OverdueResolved | the scheduler forces only after the whole grace of this very loan; a warning before each liquidation by price, whoever hands it over; no loan open for ever |
| `operator` | 16 scripts of a careful operator, 1 hub and 1 spoke; a ring of 2 and the zero address, 2 pardon scripts; 3 threads in 2 processes, 3 sends, 1 lost transaction | RecordedHubWired, RecordedSpokeWired, VerifiedMeshDelivers, GrantReachesOApp, PardonHolds, NoncesSound | with a careful operator, recorded contracts are wired wherever scripts stopped; a mesh that verifies delivers; a pardon of a ring holds on every chain; retries and races execute no call twice |
| `web` | 2 wallets, 2 chains, one or two inputs of each kind per tab | EventsTrue, QuoteOpens, OneRunUncancelled, HealedAtRest, DoneCleans, FlowClosesLoan, LeaveAsked, FeedHeals | the rows, the views and the transactions of the page stay true to the chain although nothing it starts is cancelled |
| `double_borrow` | hub and 2 spokes, patient | NoDoubleBorrow **fails** | see section 7 |
| `defaulter` | hub and 1 spoke, patient, liquidation | DefaulterStaysOut **fails** | see section 7 |
| `stale_score` | 1 spoke, no loans, two scores, fair | ScoreArrives **fails** | see section 7 |
| `monitor_spoke` | hub and 1 spoke, 1 loan each | ForcedOnlyOverdue **fails** | see section 7 |

*Bounds, and why they are enough.* Each bound is a constant, or a constraint of the MC module.

- Loans and wallets: the hub's records of different wallets meet only in the balances
  (collateral, cash, pool debt) and in the loan counter, so two wallets and two loan slots
  already hold every pair of neighbours. `PairOrSolo` chooses between two borrowers over few values, with
  two loans or loan flags in all and no pause (a pause only disables `requestLoan`), and one
  borrower over the values near the roundings.
- Spokes: two are needed wherever a lock on one is wrong because of a loan on the
  other (`settled`, `double_borrow`); elsewhere each spoke is treated alike, and
  independently, so one is enough.
- Threads: one scheduler and one web thread interleave step by step in CrossChain. A second web
  thread would add overlaps of two requests of one browser; these are covered in `web`, as far as the page and its
  rows are concerned, and in `operator`, as far as nonces are.
- Patience: `Patient` borrowers start their next transaction, or a run that changes their score, when no agent works and no
  message is in flight, as the application asks them to. The properties of `settled` and `recovery` are about
  such borrowers: an impatient one may double-borrow while the first lock
  travels, which is the known limit of any lock by message. Page views, clear-lock requests, first score runs, liquidations and
  whitelistings are not bound by patience. A patient borrower's cached score is in date, so that the score after a repayment, whose floor it is, is no lower than the profile's. The hourly job begins at any time where `"overlap"` is among the `Happenings`, and otherwise when other work is
  done; what begins after it overlaps with it in any case. For patient borrowers a job that begins during a sync
  reads the same loans as the sync.
- Linked wallets: in `recovery` the second wallet never borrows (`OneBorrower`), and at most three messages, or two after the failure, are in
  flight. So it is listed, scored and pardoned because of the first, while either is being whitelisted.
- Overlapping runs: two `Runners`, and at most `MaxWrites` verdicts before a further run may join those under way; a third run would
  start from a rate that the second one may as well have read. The band is narrow so that both its ends are a verdict away.
- Failures and restarts: one, anywhere. It is the length of the recovery that
  matters, and that is bounded by nothing.
- Scores: two in `settled`, so that one can be lowered and repaired; the gates only ask whether a score is in a tier. The underwriter
  does not reject in `settled` at will: a wallet rejected after all borrows on a spoke
  and gets a fresh profile without `loanActive` later, so that SpokeLoanLocksHub would fail.
- `MaxUint8` is 1 to 3 so that the profile's counters reach their limit. SpokeLoanLocksHub makes the
  exception this shows: at the limit the agent's setLoanActive reverts, and so does requestLoan.
- Servers of `monitor` (`PairOrServed`): an API process meets the scheduler in the loans and prices only, for their memories are separate, so one loan
  is enough to show what its sweeps and clocks do to the scheduler's; the theorem has any number.
- Prices, debts and ages of `monitor`: a healthy debt and one over 7500 bps; a price at which
  the larger debt is liquidatable; ages up to the end of the grace. The floor of one dollar in
  `ensure_liquidatable` never binds there; for a debt so small that it does, forced liquidation fails
  in every sweep and hides the loans of higher numbers, see the hazard at
  `portfolio_monitor.py:124`.
- Amounts of `web` and an ETH of 10000: large enough that a quote's head-room covers the roundings, and so small that a quote without it is refused.
- Tabs: two wallets, because what goes wrong is an answer for one that meets the other; two requests of a kind, because a
  third meets the others as the second does; one change by the outside world while they are under way.
  The instance has two loan slots per market, two clicks, two score runs, two flows, two starts with one remount, and five navigations
  over five history entries, enough to go to the guarded flow, Back, answer the dialog and go Back again.
- Scripts: three runs, of which one builds a hub: enough to interrupt one, resume it with another, and wire or copy with a third.
  A `Careful` operator resumes an interrupted deployment of a lending contract with the very next script or not at all, with the addresses it
  printed, and wires Base only when a lending contract is recorded, leaving none of it to `BASE_LENDING_ADDRESS`. The scripts ask for neither;
  section 7 says what happens otherwise. Two pardon scripts follow each other, with two shocks
  (liquidation, rescoring) between.
- Sends: three, two retries, one dropped transaction; a thread of the scheduler and two of the API, because locks are per process and
  made on demand by threads.

## 5. Fairness

Only the liveness properties and `stale_score` use fairness.

- *LayerZero* (`WF(Deliver(m))`): a message in flight is delivered in the end.
- *Threads* (`WF(AgentStep(t))`): a thread that has begun a function takes its next step;
  nothing in the code waits for another thread. It may fail at that step, a bounded number of times.
- *Scheduler* (`WF(SyncBatch)`, `WF(ReadPool(Scheduler))`, `WF(Step(p))` for the schedulers): the loop of `scheduler.py` starts
  each job again when its interval is over, and `_run_logged` catches whatever a job raises. What a server is asked to do it need not be
  asked for, so its sweeps and rate runs may never start, and a sweep of its may stop for good.
- *Time* (`WF(Tick)`).
- *Rate runs* (`SF(ReadRate(Scheduler))`, `SF(Optimize(Scheduler))`): the scheduler's runs may be aborted, but not for ever; every hour gives a new one.
  Any run that has begun, also one of the API, ends: it goes on or is aborted (`WF` of the three together). Without the first
  the rate need not move, and the code promises nothing else: the language model's fall-back
  verdict makes the run independent of that service.
- *Agents tab* (`WF(Tick)`, `WF(onmessage)`, `WF(Answer(stage))`): the server's and the client's interval timers go on, a
  message that arrived is handled by the browser's loop, and a read, at either of its stages, gets an answer or fails, and it fails finitely often.
- Borrowers, lenders, administrators, prices, the verdicts of the language model, users and operators have no
  fairness at all.

## 6. Proofs

The proofs hold for any set of wallets or lenders, any amounts, prices, scores and bounds that satisfy the
`ASSUME` of the module. The assumptions say that amounts are natural numbers, `address(0)` is no wallet,
that there are finitely many lenders (to add up what they have) and wallets (to tell them one after the other),
and verdicts lie in the schema's -50..50; TLC evaluates them in every run. The web application has two of its own: every wallet has
a score that may borrow, for the borrow route refuses others before it asks for a signature; and an amount is so large
(`LoansAssumption`) that the head-room left of `COLLATERAL_BUFFER_BPS` after the drift exceeds the less than two units that the contract's
two truncating divisions lose. With USDC's six decimals and a drift of 80 bps that is an amount of about a thousandth of a
dollar. Prices are bounded by 10^12 dollars for an ETH, so that a wei too much or too little is never worth a unit.

**ContractProofs**, the arithmetic: a property of all natural numbers by induction (`AllNumbers`, from the library's theorem about
well-founded orders, stated for sets of numbers because the provers cannot apply one about a predicate); from it, what the
sum over a finite set does when one of its terms changes, appears or goes (`SumGains` and the lemmas before it); the engine's score is a legal one; which limits and rates a score can have; an amount within
the tier's rounded-down limit has a rounded-down LTV within the tier (the two divisions do not
add up to a basis point too much); a proposed rate is in the band, within 50 bps of the one it was
computed from *if that one was in the band*, and on the side of the hard rules. The contracts: every operation of the profile preserves its type; every operation of the pool preserves its type and
`RedeemAtPar`, where a share is worth one token (`totalSupply = totalDeposited`, and both are in the pool). Once this holds
the two integer divisions are exact, which is why it is inductive.

**RateOptimizerProofs**: TypeOK, RedeemAtPar, LendersWhole, RateInBand, RateStepBounded, HardRulesWin. The band alone is not
inductive, and neither is the step: a verdict is applied to the rate that was *read*, which another run may have changed since. The
strengthening (`RunTypes`, `RunsInv`) says that the contract's rate and every rate that a run under way has read are in the band and `Reached` from the
rate of when nobody ran: at most 50 bps away per verdict applied, and above it, or below it, by the hard rule when all runs have read
scarcity, or slack. A verdict computed from any such rate leads to another one, by `ProposalSound`. The theorems hold for any number of
runners and of verdicts. LendersWhole follows from
RedeemAtPar and `SharesAddUp`, that the lenders' shares add up to the total supply, which a deposit and a withdrawal preserve because
each changes one term of the sum.

**CredFlowLendingProofs**: TypeOK, LoanIndex, DefaultsCleanly, CollateralBacked, PoolDebtBacked, RedeemAtPar, OpensHealthy and
the refinement of CreditLine. The inductive invariant is the conjunction of

- `TypeOK`,
- `LoanIndex`: without "an active loan is indexed under its borrower", closing a loan could
  drop the entry of another one; without "slots past the counter are unused" a new loan could overwrite one;
- `DefaultsCleanly`: without "a wallet with a loan is clean", `recordDefault` could take `defaultCount` to two;
- `StartedInPast`, without which interest need not be a natural number;
- `RedeemAtPar` for the pool.

The two sums, `CollateralBacked` and `PoolDebtBacked`, rest on it: a new loan fills a slot that counted
nothing, and a closed one stops counting, unless no pool is connected, which then never hears of it: such a loan keeps counting in the pool's
sum (`UnreportedClosed`: these loans are closed and their slots used, so that none is counted twice). The three are `BooksInv`. A pool connected
in the middle of a loan believes less than is owed and, saturating at zero, stays below.

The refinement proof maps every action to CreditLine's: requestLoan to Borrow, repayLoan to Settle (interest is
natural, so the principal comes back), liquidate to WriteOff, the first minting to Grant,
whitelistWallet of a defaulter to Pardon, Fund to Fund, and everything else, the agents' flag writing above all, to a stutter.

**PortfolioMonitorProofs**: TypeOK, NumbersForcedAfterGrace, NumbersWarnedFirst, and, on a single chain, ForcedAfterGrace and
WarnedFirst; for any number of schedulers beside any number of servers. Clocks and warnings are kept by loan number, and so is the inductive invariant: a clock is
no older than the overdue time of *some* loan that had its number, what a sweep remembers was true when it looked, and
a loan it has handed over by price had been warned, through every stage of a sweep and across restarts. About clocks this is said of schedulers only, whose memory the test routes do not reach; a
server's clocks vouch for nothing, and its sweeps may force any loan. On one chain a number is one loan,
so that there the last two theorems follow, with the hypothesis `Markets = {Hub}` that the run `monitor` meets; on more chains they are
false (`monitor_spoke`), and the first two say what remains there: the grace, or the warning, of some loan of that number. No run
is spent on these two, which on one chain are the properties `monitor` checks.

**CrossChainProofs**: TypeOK, and the three lock properties HubExclusive, HubLoanLocksSpokes and SpokeLoanLocksHub.

`TypeOK` says that every todo list is a sequence of well-formed steps, that a thread without a list is idle in every
field, and that the batch, which works for no wallet, has nothing but its own steps. It holds without any hypothesis:
for impatient borrowers, liquidations, pardons and any number of failing steps, whatever `Salvage` keeps of a list.

The lock theorems have the hypothesis `Undisturbed`, a condition on the constants: borrowers are patient, no step fails, and there
are no liquidations, whitelistings or arbitrary refusals by the underwriter. This is what the run `settled` checks, with two additions, any number
of wallets, spokes and threads, and the hourly job at any time (`"overlap"`). Without patience or with failures the properties
are not true: see section 7 and the bounds of section 4. Under it no loan changes while a thread works or a message is in flight, and what is hard is
everything else: views, repairs, score runs, unlock requests and the hourly job start at any time, overlap each other, and
decide late on what they read early. The inductive invariant `LockInv` is the conjunction of

- `JobsSound`: what a thread has read so far is what the wallet owes; a decision still on its list comes once, after the
  reads of every chain it is about (`Ordered`); the steps after which a function returns are last; nothing on the list sends an unlock
  for a wallet with a hub loan, or clears the flag of a wallet with any loan;
- `MailSound`: the same for the messages in flight;
- `HubLocked`: for every hub loan and every spoke the lock is there, or its message is in flight, or some thread will send it or still
  has to decide (`Locking`);
- `SpokeFlagged`: for every spoke loan the profile is flagged, or its counter is used up, or some thread will see to it (`Flagging`);
- `NewcomersBlank`: a wallet without a profile has no score anywhere and owes nothing, so that its borrowing begins with a minting
  that resets nothing; `NobodyListed`; and `HubExclusive` itself, without which the repayment of a hub loan could leave a spoke loan
  with a cleared flag.

There is one lemma per action, and a few about lists: what a list may hold after its head is done (`RegularHead`), how an order
survives (`OrderedTail`, `OrderedAfterPlain`, `OrderedBefore`), and that a step which only changes its own list keeps the rest (`Advance`). When all is
settled no thread waits and nothing is in flight, so that `Locking` is the mirror and `Flagging` the flag.

**OperatorProofs**: NoncesSound, PardonHolds, RecordedHubWired, RecordedSpokeWired, VerifiedMeshDelivers and GrantReachesOApp, for any threads,
processes, wallets and spokes. The invariants of the deployment, and that the scripts keep them, are in **DeploymentProofs**.

NoncesSound: no transaction is executed or pending more often than it was asked for, and the tracked nonce is never ahead of the
account's. The first half is not inductive, for a call that is under way may still send. `TxInv` counts these calls too (`Owed`:
executed, pending and under way are together at most what was asked for), and knows which calls can no longer send. That the next
pending nonce exists at all is a pigeonhole argument over the finite pool (`FreeNonce`).

PardonHolds says what the ring script leaves behind when it was started while nothing was in flight. `PardonInv` follows the run
that is under way and the wallets already pardoned. As long as nothing disturbs the run, every message in flight is a WHITELIST that carries the
profile's score, the scores the script has read are the current ones, and the spokes it has passed are clean unless the direct reset was missed
(`RingInv`); of a pardoned wallet every spoke is clean, with the hub's score if the broadcast succeeded, or such a message is coming (`KeptInv`). It was checked by TLC on the configuration of
`operator` before it was proved.

RecordedHubWired: the contracts that the hub's record names are wired, wherever the scripts stopped. A record is written after the
transactions that wire it, but these are only a plan until they are sent, and each script makes another plan from what it finds. `DeployInv`
says what is true of every plan: no transaction follows the writing of the hub's record (`WritesLast`); each contract
of a record still to be written exists or is still to be made, and each fact it needs holds or is still to be set (`Complete` with the
facts to come, `Part`); and no setter on the list overwrites a fact that the recorded hub or a pending record needs (`SparedBy`), for it concerns
a new contract, a spoke, or something that cannot be overwritten. New contracts differ from all earlier ones, because their numbers count these
(`DeployTypeOK`). One lemma shows for each script that its plan is such a plan (`HubPlans`, `DeployPlan`, `MeshPlans`, `SpokeScripts`), another
that each step keeps it (`StepKeeps`). TLC checked `DeployInv` before it was proved, on 3 runs of scripts with 2 on the hub.

RecordedSpokeWired has the hypothesis `Careful`, two conditions on the operator. An interrupted deployment of a lending contract is resumed by the very next
script, with the addresses it printed, or not at all: `finish-spoke-lending.js` would record any contracts it is given beside an OApp that was
recorded since. And Base is wired only when a lending contract is recorded: `finish-base-spoke-wiring.js` records, where none is, whatever
`BASE_LENDING_ADDRESS` names, which may read another OApp or oracle than the record does. A spoke is harder than the hub because an interrupted deployment can be taken up again, by another script, with the addresses it had printed, and
because a completed record may name a pool that this script wires anew. `SpokeInv` says, of each spoke: its record is sound as far as it goes (`Sound`: its lending
contract was built with the recorded OApp and oracle, the oracle has a feed, and the lending contract has had no other pool; and, unless
the operator completed the record by hand, it is wired); what the last script printed would make a record that is sound but for the wires, and shares its pool with the record only together
with its lending contract (`PrintSound`, `Agrees`); and what is left of the script that runs is one of three things (`Stage`): steps that do not concern the
spoke (`Quiet`), steps that end in writing a record which is sound once they are done, the first of which may make one contract and the rest wire it (`Pends`),
or the steps of a deployment before it has made the pool (`Begins`). One lemma for each script shows where it starts (`StartsSpoke`, `StartsLending`, `StartsFinish`,
`StartsBaseLending`, `StartsWiring`, `StartsOracle`; `OtherAside`, `HubAside`, `MeshAside` for those that concern other chains), and one for each stage that a step
keeps it (`QuietGoesOn`, `PendsGoesOn`, `BeginsGoesOn`). TLC checked the invariant, with each stage spelt out script by script, on one spoke
and four scripts before it was proved.

VerifiedMeshDelivers rests on it, and has the same hypothesis. `MeshInv` says that every peer that lz:wire-spokes is to set is set or among the steps left, which set nothing else;
no two of them are set on the same contract for the same chain, so that none is overwritten (`MeshApart`). When the files agree, the OApp of `.env` is the recorded one, and
the recorded lending contract was built with it.

GrantReachesOApp: `grant-spoke-agent.js` takes the OApp of `.env` before the recorded one. `GrantInv` says that the grant on that OApp is
there or is the one step the script has left, and, once it has ended, that nothing is left on the list. A record completed by hand keeps its
OApp (`EditIs`).

**ClientsProofs**: EventsTrue, QuoteOpens, DoneCleans, FlowClosesLoan, LeaveAsked, HealedAtRest and OneRunUncancelled, for any wallets, amounts and prices and any number of
clicks, calls and changes outside the page. Each tab has an invariant of its own; the steps of the others leave its variables alone.

- QuoteOpens is arithmetic first. `QuoteSuffices`: five roundings, three of the page (dollars, wei rounded up, buffer rounded down) and two of
  `requestLoan`, leave a quote's collateral within the tier at any price that has not fallen by more than the drift. `LoansInv` then says that whatever quote
  the page shows, and every call carries from the click to the transaction, is one that was computed so for *some* chain, amount, score and price
  (`GoodQuote`), and that a refusal by the contract means one of these differs now.
- EventsTrue. `LoansInv` carries the loan that a mined transaction opened or closed along the call, through the receipt and the route's own reads, up
  to the insert. `Once` (a chain has at most one active loan of a wallet) makes the loan that a receipt is matched with the signer's own.
- DoneCleans. An attempt is at one operation of the list of its step; `Paid` says that from the operation after the one that clears a debt or a position
  to the end of the list it is zero. This is inductive only while a single attempt moves what is in the wallet, hence "at most one attempt, unless
  the wallet is shared".
- FlowClosesLoan. `FlowInv`: the loan of a finished flow is closed, and what the tab or a request under way took for its loan, however long ago, is one
  that exists; loans are only appended and closed (`LoansGrow`).
- LeaveAsked. `GuardInv`: while the guard is armed there is an entry above the page's first one, and the page believes in the flow unless the user has
  agreed to leave it.
- HealedAtRest. Nothing repairs the cached score but a load that read the chain afterwards, so `HealInv` says who will load. While nothing was lost and no
  two loads overlapped, each wallet has at most one load, what it has read is the score on the chain unless a run of that wallet is being recorded, and
  chain and cache differ only while such a run, which loads when it is done, or a load that will write the present score is under way.
- OneRunUncancelled. `RunInv`: unless the user left, the tab waits for at most one run or poll (`Waiting`), shows a view of it (`Busy`), and every session is
  the connected wallet's. A run carries the session and the bank flag that the tab has (`Fits`), and the session with which the tab would start one is
  verified (`Shows`), so a run started by rendering the view starts with a verified session.

*Model-checked only.* ShunnedForCause and ScoreRestored of CrossChain, whose pardons meet messages in flight and failing steps; liveness (ScarcityPricedIn, EventuallyLocked, EventuallyUnlocked, OverdueResolved, FeedHeals) is
beyond the prover.

## 7. Disagreements between documentation and code

Each is a run in which TLC finds the documented property violated by what the code does. None
needs a failing step.

1. **`double_borrow`**: *"one underwritten identity cannot double-borrow across markets"* (`README.md:9`).
   `run_loan_sync_once` looks at hub loans only. A wallet that once repaid a hub loan and then
   borrows on Arbitrum has its locks released by the next hourly job, and borrows on Base as well.
2. **`defaulter`**: *"one defaulted borrower cannot quietly open a fresh loan on another chain"*
   (`README.md:1370`). With the verdict `proceed = false` the liquidation of a hub loan returns before any broadcast.
3. **`stale_score`**: *"keeps every lending contract aligned with the same score ... no stale credit"*
   (`README.md:1895`). Messages carry no version; an older score delivered last stays, and the batch's
   cursor may have passed the newer one.
4. **`monitor_spoke`**: *"If overdue: `start_grace(loan_id)` — 48h in-memory countdown"* (`README.md:438`). The
   clock is keyed by loan number across three chains, so that one loan's expired clock forces another, which may not be due.

Met while modelling, and part of the models, without a run of their own. The first three bound what `rates`, `recovery` and `operator` claim:

- *"utilization > 80% always increases rate regardless of LLM suggestion"* (`README.md:622`) is false of runs that overlap. Two runs read 500 bps;
  one sets the ceiling, and the other, from the rate it read before, a lower rate. HardRulesWin therefore compares with the rate of when nobody ran.
- *"Full test recovery"* (`agents/test_default.py:197`; the page says "whitelisted on hub and spokes") does not wait for the DEFAULT of the liquidation. A spoke that it
  has not reached is not listed and so is not reset (`test_default.py:180`); if the WHITELIST is delivered first, the spoke lists for good a wallet the hub has
  pardoned. Such whitelistings are `crossed`.
- After an interrupted deployment of a lending contract and a new `deploy-spoke.js`, `finish-spoke-lending.js` (lines 14-38, 68) records the lending contract made for the
  OApp before. `lz:wire-spokes` connects the new one, `verify-address-sync.js` says OK, and broadcasts never reach the recorded lending. TLC finds it with
  `Careful = FALSE` and `Scripts` the ones named here (deploy_spoke, deploy_spoke_lending, finish_spoke_lending, wire_spokes, sync_addresses).
- The score of a finished run is broadcast although the underwriter rejected the wallet (`ScoreRun`).
- A score lowered on the hub is raised again by a page view that finds the old one on a spoke (`Enrich`).
- The API's batch route (`POST /agents/sync`, `ml/agent_handlers.py:263`) calls `run_sync_once`, which
  it does not import, and fails before it does anything; only the scheduler's batch is modelled.
- The ring script broadcasts a score of 830 for wallets without a hub profile, where the agent sends 0; `unblacklist-wallet.js` reverts
  without a profile; `whitelist-all-wallets.js` touches the hub only; and the score a WHITELIST carries was read before (`Pardons`).
- After Back and "Leave" the guard's popstate listener stays: each further Back pushes an entry and goes back again, so that the
  page cannot be left by Back, and the guard no longer asks although the flow goes on (`NavigationGuard`).
- A bank proof whose session has vanished is attached to any pending session, also another wallet's (`BankProof`).
- `_chain_lock` is made without a lock, so that two threads may hold two locks of one chain; TLC finds no harm to the nonces in it (`TxSender`).

## 8. Not modelled, and assumptions

- Machine learning, graph heuristics and their data: the models take a score, a verdict and a ring of linked wallets as
  inputs. The indexers fetch and aggregate and keep no state.
- Drawing: dashboards, score cards, graph layout, landing page (`score-run-display.ts`, `AccountDashboard.tsx`, `AgentCard.tsx`,
  `landing/` and the like) turn an answer into a picture. They keep nothing that another part reads.
- Status printers, smoke tests, wallet-activity generators and tunnels under `scripts/`, funding, and the unused `MyOApp.sol`.
- Roles: in CrossChain and CredFlowLending the agents' key has the roles the deployment gives it, and nobody else has; that the
  scripts do give them is Deployment's subject.
- Tokens move through the contracts' functions only; no direct transfers to pool or market except the funding of the market.
- Amounts on spokes: the spoke market repeats the hub's arithmetic.
- Block heights: the batch's window is taken to cover every loan event.
- Borrowers use the web application, with an approved last score run: the borrow route refuses others. A browser that
  never calls the route after its transaction is a failing first step of the sync (`Fail`), covered in `hubsync`.
- The borrow route's own call of `prepareSpokeBorrow`, which happens only when the route reads the spoke before the loan is mined;
  the same function is modelled where the clear-lock route calls it.
- The two repairs of a view are requests of their own; the model makes them one after the other, in either order.
- The liquidation penalty only enters an event. Health warnings to linked wallets change no state.
- In the monitor: two sweeps of one process at once (several `POST /agents/monitor`); a liquidation asked for by hand (`POST /agents/liquidate`), which closes a loan as a repayment
  does, and the oracle crash of the test routes, which moves the price as a feed does. A health warning asked for by hand is not the sweep's, and WarnedFirst does not count it.
- Gas: estimates, bumps and fees. A retry of a wallet's signature is one choice.
- Request authentication, run logging other than the rows the Agents tab reads.

## 9. Plan

Order of work, the most important behaviour first. Done so far: 1 to 14.

1. Arithmetic, pool and profiles (`CreditMath`, `CredFlowLP`, `CredScoreSBT`), with their lemmas.
2. The hub market (`CredFlowLending`), its abstract promise (`CreditLine`), refinement by TLC and by TLAPS.
3. The rate optimizer beside its pool, with overlapping runs and liveness; safety proved.
4. Messages and spoke registries (`CredFlowOApp`), the agents between chains (`CrossChain`); safety for patient borrowers, liveness of the hourly job.
5. The monitor (`PortfolioMonitor`), with restarts, and the test routes of the API.
6. The disagreements of section 7 as runs.
7. The web application (`LoansPage`, `ScoreFlow`, `PrepWallet`, `DefaultFlow`, `AgentsFeed`, `NavigationGuard`), composed in `Clients`.
8. The operator's scripts (`Deployment`, `Pardons`), composed in `Operator`.
9. `TxSender`: nonces of one key in two processes, pending transactions and retries.
10. CrossChain's score repair and clear-lock request.
11. Proofs about the monitor (a forced liquidation follows the whole grace), the sums of the hub and of the lenders.
12. Proofs about CrossChain: type correctness; the locks, for patient borrowers.
13. Proofs about Operator: NoncesSound, with the strengthening that the tracked nonce of a
    process was once the account's, PardonHolds, RecordedHubWired, where a record is only written after the facts it needs,
    GrantReachesOApp, RecordedSpokeWired for a careful operator, and VerifiedMeshDelivers.
14. Proofs about Clients: that a quote suffices for its amount and price (`LoanQuote` against `CreditMath`), on which QuoteOpens rests; EventsTrue, DoneCleans,
    FlowClosesLoan, LeaveAsked, HealedAtRest, OneRunUncancelled.
15. ShunnedForCause, with an invariant that follows a DEFAULT and a WHITELIST of one wallet through todo lists and messages.
16. Further behaviour of CrossChain: a second web thread; retries of a lost DEFAULT, that is, what the agents would have to do so that
    DefaulterStaysOut holds.
