------------------------------ MODULE LoansPage ------------------------------
(***************************************************************************)
(* The Loans tab of the web application and the routes behind it.  The     *)
(* browser runs one piece of code at a time, but every await lets the user *)
(* go on clicking, switch account in the wallet, or change the form; the   *)
(* answers of the routes arrive in any order; transactions are signed by   *)
(* the account the wallet has at that moment, and mined later.             *)
(*                                                                         *)
(* A call is a piece of code at its await: a request to a route, or the    *)
(* handler of the Borrow or the Repay button (two equal ones count once).  *)
(***************************************************************************)
EXTENDS Sequences, FiniteSets, LoanQuote

CONSTANTS
  Wallets, NoWallet, Chains, Hub, NoChain,
  ScoreOf,       \* the score of a wallet, equal on every chain here
  Amounts,       \* amounts typed into the form
  Prices,        \* of one ETH
  Drift,         \* basis points the price may fall while a quote is good
  MaxLoans,      \* bound: loans per chain
  MaxInputs,     \* bound: clicks, keystrokes and account switches
  MaxWorld       \* bound: events outside the page (price, other device, score run)

VARIABLES
  account,       \* useAccount().address
  page,          \* state of the tab's components
  calls,         \* pending calls
  loans,         \* loans[c]: the loans of chain c's lending contract, by number
  price,         \* the WETH feed (all chains follow the same market)
  verdict,       \* verdict[w]: what the last score run said, in Supabase
  events,        \* table loan_events
  rows,          \* table layerzero_broadcasts
  inputs, world  \* counters of the bounds

loansVars == <<account, page, calls, loans, price, verdict, events, rows, inputs, world>>

NoQuote == [wallet |-> NoWallet, chain |-> NoChain, amount |-> 0, collateral |-> 0, price |-> 0]

Unread == [wallet |-> NoWallet, loan |-> 0, eligible |-> FALSE]
NoView == [c \in Chains |-> Unread]

Loan(w) == [borrower |-> w, active |-> TRUE]

activeLoanId(c, w) ==
  IF \E i \in DOMAIN loans[c] : loans[c][i] = Loan(w)
  THEN CHOOSE i \in DOMAIN loans[c] : loans[c][i] = Loan(w) ELSE 0

LoadCall(w) == [kind |-> "loads", wallet |-> w, pc |-> "asked"]

StartAmount == CHOOSE a \in Amounts : \A b \in Amounts : a <= b

\* The tab is opened with a wallet connected, on the panel and the chain the
\* browser remembers, and loads its loans.
LoansInit ==
  /\ account = CHOOSE w \in Wallets : TRUE
  /\ calls = {LoadCall(account)} /\ events = {} /\ rows = {}
  /\ page \in [view : {NoView}, seen : {{}}, picked : Chains \cup {NoChain},
               sub : {"purchase", "active"}, loading : {TRUE}, amount : {StartAmount},
               quote : {NoQuote}]
  /\ loans = [c \in Chains |-> <<>>]
  /\ price = CHOOSE p \in Prices : \A q \in Prices : p >= q
  /\ verdict = [w \in Wallets |-> "unknown"]
  /\ inputs = 0 /\ world = 0

Input == /\ inputs < MaxInputs /\ inputs' = inputs + 1
World == /\ world < MaxWorld /\ world' = world + 1

-----------------------------------------------------------------------------
(* Supabase and the chains, as the routes read them.                       *)

\* No verdict is no refusal.
assertBorrowApproved(w) == verdict[w] # "rejected"

\* An unknown transaction counts as failed.
isLoanTxSuccessful(tx, hint) == tx.ok /\ hint \in {tx.chain, NoChain}

\* The source of a row names the chain of an opening; a repayment's is taken
\* to be the hub.
chainFromTriggerSource(source) == IF source[1] = "loan_created" THEN source[2] ELSE Hub

filterValidLzBroadcasts(w) ==
  {r \in rows : r.wallet = w /\ isLoanTxSuccessful(r.tx, chainFromTriggerSource(r.source))}

filterValidLoanEvents(w) ==
  {e \in events : e.wallet = w /\ (e.kind = "created" => isLoanTxSuccessful(e.tx, e.chain))}

\* readChainLoanSummary and enrichChainSummaries: a loan anywhere locks every
\* spoke; it locks the hub once the agent has set the profile's flag.
enrichChainSummaries(w, flagged) ==
  LET Anywhere == \E c \in Chains : activeLoanId(c, w) # 0
  IN  [c \in Chains |->
        [wallet |-> w, loan |-> activeLoanId(c, w),
         eligible |-> /\ activeLoanId(c, w) = 0
                      /\ IF c = Hub THEN ~(Anywhere /\ flagged) ELSE ~Anywhere]]

applyBorrowApprovalGate(view, w) ==
  [c \in Chains |-> [view[c] EXCEPT !.eligible = @ /\ assertBorrowApproved(w)]]

-----------------------------------------------------------------------------
(* The tab shows one panel at a time, and none while it is loading or no   *)
(* wallet is connected.  A panel that goes takes its form and its quote    *)
(* with it; the handler it started goes on, but disables no button any     *)
(* more.  loadQuote runs in an effect when the panel appears and whenever  *)
(* the amount or the selected summary changes; the old quote stays until   *)
(* the new one is there.                                                   *)

Panel(p, w) ==
  IF w = NoWallet \/ p.loading THEN "none"
  ELSE IF p.sub = "purchase" THEN "purchase"
  ELSE IF p.picked # NoChain /\ p.view[p.picked].loan # 0 THEN "card" ELSE "none"

Clicked(k) == k.kind \in {"borrow", "repay"}

busy == \E k \in calls : Clicked(k) /\ k.here

Left(others) ==
  {IF Clicked(k) THEN [k EXCEPT !.here = FALSE] ELSE k : k \in {o \in others : o.kind # "quote"}}

loadQuote(p, w, others) ==
  IF p.picked # NoChain /\ p.view[p.picked].eligible
  THEN /\ page' = p
       /\ calls' = others \cup {[kind |-> "quote", wallet |-> w, chain |-> p.picked,
                                 amount |-> p.amount, pc |-> "asked"]}
  ELSE page' = [p EXCEPT !.quote = NoQuote] /\ calls' = others

\* The state p is rendered for wallet w; anew when the panel is another one.
Render(p, w, others, changed) ==
  LET anew == Panel(p, w) # Panel(page, account)
      q    == IF anew THEN [p EXCEPT !.amount = StartAmount, !.quote = NoQuote] ELSE p
      kept == IF anew THEN Left(others) ELSE others
  IN  IF Panel(p, w) = "purchase" /\ (anew \/ changed) THEN loadQuote(q, w, kept)
      ELSE page' = q /\ calls' = kept

\* load, for wallet w, while wallet `now` is connected.
load(p, w, now, others) ==
  Render([p EXCEPT !.loading = TRUE], now, others \cup {LoadCall(w)}, FALSE)

\* The user connects, switches or disconnects the wallet.
SwitchAccount(w) ==
  /\ Input /\ w # account /\ account' = w
  /\ IF w = NoWallet
     THEN Render([page EXCEPT !.view = NoView, !.seen = {}, !.loading = FALSE],
                 w, calls, FALSE)
     ELSE load(page, w, w, calls)
  /\ UNCHANGED <<loans, price, verdict, events, rows, world>>

\* The Refresh button.
Refresh ==
  /\ Input /\ account # NoWallet
  /\ load(page, account, account, calls)
  /\ UNCHANGED <<account, loans, price, verdict, events, rows, world>>

\* The history panel has nothing to lose and is left out.
changeSubTab(sub) ==
  /\ Input /\ account # NoWallet /\ sub # page.sub
  /\ Render([page EXCEPT !.sub = sub], account, calls, FALSE)
  /\ UNCHANGED <<account, loans, price, verdict, events, rows, world>>

setSelectedChainKey(c) ==
  /\ Input /\ account # NoWallet /\ c # page.picked
  /\ page.view[c].wallet # NoWallet
  /\ Render([page EXCEPT !.picked = c], account, calls, TRUE)
  /\ UNCHANGED <<account, loans, price, verdict, events, rows, world>>

setBorrowAmount(a) ==
  /\ Input /\ a # page.amount
  /\ Panel(page, account) = "purchase" /\ page.picked # NoChain
  /\ page.view[page.picked].wallet # NoWallet
  /\ Render([page EXCEPT !.amount = a], account, calls, TRUE)
  /\ UNCHANGED <<account, loans, price, verdict, events, rows, world>>

\* GET /api/loans: the reads of one answer are one step.
GetLoans(k) ==
  /\ k.kind = "loads" /\ k.pc = "asked"
  /\ \E flagged \in BOOLEAN :
       calls' = (calls \ {k}) \cup
         {[kind |-> "loads", wallet |-> k.wallet, pc |-> "answered",
           view |-> applyBorrowApprovalGate(enrichChainSummaries(k.wallet, flagged), k.wallet),
           seen |-> filterValidLoanEvents(k.wallet)]}
  /\ UNCHANGED <<account, page, loans, price, verdict, events, rows, inputs, world>>

\* The answer is shown whatever has been asked since, the route's error as no
\* chains at all; a lost request leaves the view as it is.
LoansAnswer(k) ==
  /\ k.kind = "loads"
  /\ \/ /\ k.pc = "answered"
        /\ Render([page EXCEPT !.view = k.view, !.seen = k.seen, !.loading = FALSE],
                  account, calls \ {k}, TRUE)
     \/ /\ k.pc = "asked"
        /\ Render([page EXCEPT !.view = NoView, !.seen = {}, !.loading = FALSE],
                  account, calls \ {k}, TRUE)
     \/ Render([page EXCEPT !.loading = FALSE], account, calls \ {k}, FALSE)
  /\ UNCHANGED <<account, loans, price, verdict, events, rows, inputs, world>>

\* GET /api/loans/quote, and its answer in loadQuote.
GetQuote(k) ==
  /\ k.kind = "quote" /\ k.pc = "asked"
  /\ calls' = (calls \ {k}) \cup
       {[kind |-> "quote", wallet |-> k.wallet, pc |-> "answered",
         quote |-> IF assertBorrowApproved(k.wallet)
                   THEN [wallet |-> k.wallet, chain |-> k.chain, amount |-> k.amount,
                         collateral |-> collateralForBorrow(k.amount,
                                          getLTVForScore(ScoreOf[k.wallet]), price),
                         price |-> price]
                   ELSE NoQuote]}
  /\ UNCHANGED <<account, page, loans, price, verdict, events, rows, inputs, world>>

QuoteAnswer(k) ==
  /\ k.kind = "quote" /\ k.pc = "answered"
  /\ page' = [page EXCEPT !.quote = k.quote] /\ calls' = calls \ {k}
  /\ UNCHANGED <<account, loans, price, verdict, events, rows, inputs, world>>

-----------------------------------------------------------------------------
(* The Borrow and Repay buttons.  `wallet` is the account of the click,    *)
(* which the later request carries; `signer` the one that signed.          *)

canBorrow ==
  /\ Panel(page, account) = "purchase" /\ page.quote # NoQuote /\ ~busy
  /\ page.picked # NoChain /\ page.view[page.picked].eligible

handleBorrow ==
  /\ Input /\ canBorrow
  /\ calls' = calls \cup
       {[kind |-> "borrow", wallet |-> account, chain |-> page.picked, amount |-> page.amount,
         quote |-> page.quote, pc |-> "deposit", signer |-> NoWallet, loan |-> 0, why |-> "none",
         here |-> TRUE]}
  /\ UNCHANGED <<account, page, loans, price, verdict, events, rows, world>>

\* The card of the selected chain: the number comes from a read of
\* activeLoanId for the present account, which may be newer than the summary
\* shown, or from the summary.  The first approval, of zero, may fail and is
\* left out.
handleRepay ==
  /\ Input /\ Panel(page, account) = "card" /\ ~busy
  /\ \E id \in {activeLoanId(page.picked, account), page.view[page.picked].loan} \ {0} :
       calls' = calls \cup
         {[kind |-> "repay", wallet |-> account, chain |-> page.picked, loan |-> id,
           pc |-> "approve", signer |-> NoWallet, why |-> "none", here |-> TRUE]}
  /\ UNCHANGED <<account, page, loans, price, verdict, events, rows, world>>

Advance(k, new) == calls' = (calls \ {k}) \cup {new}

\* The handler ends; a success calls the `load` of the render that was
\* clicked, so for the wallet of the click.
End(k, success) ==
  IF success THEN load(page, k.wallet, account, calls \ {k})
  ELSE page' = page /\ calls' = calls \ {k}

\* writeContractWithGas: the wallet signs for the account it has now.
Sign(k, next) ==
  /\ account # NoWallet
  /\ Advance(k, [k EXCEPT !.pc = next, !.signer = IF next = "post" THEN account ELSE @,
                          !.why = IF next = "post" THEN "pending" ELSE @])
  /\ UNCHANGED <<account, page, loans, price, verdict, events, rows, inputs, world>>

clientBorrowLoan(k) ==
  /\ k.kind = "borrow"
  /\ \/ k.pc = "deposit" /\ Sign(k, "approve")
     \/ k.pc = "approve" /\ Sign(k, "send")
     \/ k.pc = "send"    /\ Sign(k, "post")

clientRepayLoan(k) ==
  /\ k.kind = "repay"
  /\ \/ k.pc = "approve" /\ Sign(k, "send")
     \/ k.pc = "send"    /\ Sign(k, "post")

\* The user declines (the change of network, too), or the node refuses: only
\* the deposit itself may fail.
SignFails(k) ==
  /\ k.pc \in {"deposit", "approve", "send"}
  /\ \/ k.pc = "deposit" /\ Advance(k, [k EXCEPT !.pc = "approve"]) /\ page' = page
     \/ End(k, FALSE)
  /\ UNCHANGED <<account, loans, price, verdict, events, rows, inputs, world>>

\* requestLoan and repayLoan of the lending contracts.
Mine(k) ==
  /\ k.kind \in {"borrow", "repay"} /\ k.why = "pending"
  /\ LET Enough == MaxBorrow(ValueOf(k.quote.collateral, price),
                             getLTVForScore(ScoreOf[k.signer])) >= k.amount
         Refused(why) == Advance(k, [k EXCEPT !.why = why]) /\ loans' = loans
     IN  \/ /\ k.kind = "borrow" /\ activeLoanId(k.chain, k.signer) = 0 /\ Enough
            /\ Len(loans[k.chain]) < MaxLoans
            /\ loans' = [loans EXCEPT ![k.chain] = Append(@, Loan(k.signer))]
            /\ Advance(k, [k EXCEPT !.why = "mined", !.loan = Len(loans[k.chain]) + 1])
         \/ k.kind = "borrow" /\ activeLoanId(k.chain, k.signer) = 0 /\ ~Enough /\ Refused("collateral")
         \/ /\ k.kind = "repay" /\ k.loan = activeLoanId(k.chain, k.signer)
            /\ loans' = [loans EXCEPT ![k.chain][k.loan].active = FALSE]
            /\ Advance(k, [k EXCEPT !.why = "mined"])
         \/ Refused("reverted")          \* a lock, the blacklist, no funds, another's loan
  /\ UNCHANGED <<account, page, price, verdict, events, rows, inputs, world>>

-----------------------------------------------------------------------------
(* POST /api/loans/borrow and /api/loans/repay, which the handler awaits.  *)

\* The gate of the borrow route, before the receipt is awaited.
BorrowGate(k) ==
  /\ k.kind = "borrow" /\ k.pc = "post"
  /\ IF assertBorrowApproved(k.wallet)
     THEN Advance(k, [k EXCEPT !.pc = "receipt"]) /\ page' = page
     ELSE End(k, FALSE)
  /\ UNCHANGED <<account, loans, price, verdict, events, rows, inputs, world>>

Tx(k) == [chain |-> k.chain, ok |-> TRUE, signer |-> k.signer, loan |-> k.loan]

Event(k, kind, id) ==
  [kind |-> kind, wallet |-> k.wallet, chain |-> k.chain, loan |-> id, tx |-> Tx(k)]

\* persistLoanEvent: an insert that fails is not noticed.
persistLoanEvent(k, kind, id) ==
  /\ events' \in {events, events \cup {Event(k, kind, id)}}
  /\ Advance(k, [k EXCEPT !.pc = "sync"])

\* Mutant: the event carries the latest loan number of the contract.
BorrowReceipt_guesses(k) ==
  /\ k.kind = "borrow" /\ k.pc = "receipt" /\ k.why = "mined"
  /\ persistLoanEvent(k, "created", Len(loans[k.chain])) /\ page' = page
  /\ UNCHANGED <<account, loans, price, verdict, rows, inputs, world>>

\* The receipt is there: the route reads the wallet's active loan, which need
\* not be the one the transaction opened.
BorrowReceipt(k) ==
  /\ k.kind = "borrow" /\ k.pc = "receipt" /\ k.why = "mined"
  /\ LET id == activeLoanId(k.chain, k.wallet)
     IN  IF id = 0 THEN End(k, FALSE) /\ events' = events
                   ELSE persistLoanEvent(k, "created", id) /\ page' = page
  /\ UNCHANGED <<account, loans, price, verdict, rows, inputs, world>>

RepayReceipt(k) ==
  /\ k.kind = "repay" /\ k.pc = "post" /\ k.why = "mined"
  /\ persistLoanEvent(k, "repaid", k.loan)
  /\ UNCHANGED <<account, page, loans, price, verdict, rows, inputs, world>>

\* triggerSyncLoanCreated and triggerSyncLoanRepaid: a row per agent run that
\* succeeded; the row is an insert that may fail like the event's.
TriggerSync(k) ==
  /\ k.pc = "sync"
  /\ LET source == IF k.kind = "borrow" THEN <<"loan_created", k.chain>> ELSE <<"loan_repaid">>
     IN  rows' \in {rows, rows \cup {[source |-> source, wallet |-> k.wallet, tx |-> Tx(k)]}}
  /\ Advance(k, [k EXCEPT !.pc = "reply"])
  /\ UNCHANGED <<account, page, loans, price, verdict, events, inputs, world>>

Reply(k) ==
  /\ k.pc = "reply" /\ End(k, TRUE)
  /\ UNCHANGED <<account, loans, price, verdict, events, rows, inputs, world>>

\* The request is lost or times out, a read of the route fails, or the
\* transaction reverted: the handler shows an error.
PostFails(k) ==
  /\ k.pc \in {"post", "receipt", "sync", "reply"} /\ k.why # "pending"
  /\ End(k, FALSE)
  /\ UNCHANGED <<account, loans, price, verdict, events, rows, inputs, world>>

-----------------------------------------------------------------------------
(* What happens outside the page.                                          *)

PriceMoves ==
  /\ World /\ price' \in Prices \ {price}
  /\ UNCHANGED <<account, page, calls, loans, verdict, events, rows, inputs>>

\* Another device of the user, or the liquidation agent.
OtherDevice(c, w) ==
  /\ World
  /\ LET id == activeLoanId(c, w)
     IN  IF id # 0 THEN loans' = [loans EXCEPT ![c][id].active = FALSE]
         ELSE /\ Len(loans[c]) < MaxLoans
              /\ loans' = [loans EXCEPT ![c] = Append(@, Loan(w))]
  /\ UNCHANGED <<account, page, calls, price, verdict, events, rows, inputs>>

ScoreRun(w) ==
  /\ World /\ verdict' \in {[verdict EXCEPT ![w] = v] : v \in {"approved", "rejected"}}
  /\ UNCHANGED <<account, page, calls, loans, price, events, rows, inputs>>

LoansNext ==
  \/ \E w \in Wallets \cup {NoWallet} : SwitchAccount(w)
  \/ Refresh \/ handleBorrow \/ handleRepay \/ PriceMoves
  \/ \E sub \in {"purchase", "active"} : changeSubTab(sub)
  \/ \E c \in Chains : setSelectedChainKey(c)
  \/ \E a \in Amounts : setBorrowAmount(a)
  \/ \E k \in calls : \/ GetLoans(k) \/ LoansAnswer(k) \/ GetQuote(k) \/ QuoteAnswer(k)
                       \/ clientBorrowLoan(k) \/ clientRepayLoan(k) \/ SignFails(k) \/ Mine(k) \/ BorrowGate(k)
                       \/ BorrowReceipt(k) \/ RepayReceipt(k) \/ TriggerSync(k)
                       \/ Reply(k) \/ PostFails(k)
  \/ \E c \in Chains, w \in Wallets : OtherDevice(c, w)
  \/ \E w \in Wallets : ScoreRun(w)

-----------------------------------------------------------------------------
(* Properties.                                                             *)

\* An event of a transaction the wallet signed itself tells the truth about
\* a loan of that wallet, whatever happened between the click, the receipt
\* and the insert: an opening names the loan it opened or a later one (the
\* route reads the number after the receipt), a repayment a closed loan.
\* And the broadcast of an opening or of a hub loan is never hidden
\* (api/loans/borrow, api/loans/repay, lib/lz-broadcast.ts).
EventsTrue ==
  /\ \A e \in events : e.tx.signer = e.wallet =>
       LET l == loans[e.chain][e.loan]
       IN  /\ l.borrower = e.wallet
           /\ e.kind = "repaid" => ~l.active
           /\ e.kind = "created" => e.loan >= e.tx.loan
  /\ \A r \in rows : r.source[1] = "loan_created" \/ r.tx.chain = Hub
       => r \in filterValidLzBroadcasts(r.wallet)

StaleQuote(k) ==
  \/ k.quote.chain # k.chain \/ k.quote.amount # k.amount
  \/ ScoreOf[k.quote.wallet] # ScoreOf[k.signer]
  \/ price * Bps < k.quote.price * (Bps - Drift)

\* A step in which requestLoan refuses a loan for its collateral finds a quote
\* that is stale: it was made for another chain, amount or score, or the price
\* has fallen by more than the head-room since ("Extra headroom so rounding /
\* oracle drift does not revert at max LTV", lib/loan-collateral.ts:5).
RefusedWhenStale ==
  \A k \in calls \ calls' :
    /\ k.kind = "borrow" /\ k.why = "pending"
    /\ [k EXCEPT !.why = "collateral"] \in calls' \ calls
    => StaleQuote(k)
=============================================================================
