------------------------------ MODULE PrepWallet ------------------------------
(***************************************************************************)
(* The Prep-wallet tab, which builds up on-chain activity with the user's  *)
(* wallet: transfers, an Aave loan and its repayment on two networks, and  *)
(* a Morpho loan on Base.  A step is a list of transactions, each decided  *)
(* by what was read just before it.                                        *)
(*                                                                         *)
(* Three things can go wrong under way: the user declines or the node      *)
(* refuses (the step fails), the transaction reverts (nobody looks at the  *)
(* receipt's status, and the step goes on), or it is mined but never seen  *)
(* (the step fails).  The client that waits for receipts is the one of the *)
(* network the wallet was on when the button was clicked.                  *)
(***************************************************************************)
EXTENDS Integers, Sequences, FiniteSets, Functions

CONSTANTS
  Steps,         \* the steps offered, in their order
  StartUsdc,     \* USDC the wallet may own on each network
  MaxStarts,     \* bound: clicks on "Run step" and "Run all"
  MaxTrouble,    \* bound: reverts, refusals and lost receipts
  MaxRemounts    \* bound: times the tab is left and opened again

Networks == {"arbitrum", "base"}

network(step) == IF step \in {"arbitrum-activity", "arbitrum-aave"} THEN "arbitrum" ELSE "base"

VARIABLES
  net,           \* the network the wallet is on
  purse,         \* purse[n]: what the account holds and owes on network n
  attempts,      \* runs of steps under way
  shown,         \* shown[s]: status of the step in the tab
  prepping,      \* the buttons are disabled
  starts, trouble, remounts,   \* counters of the bounds
  shared         \* history: two runs have been under way at once

prepVars == <<net, purse, attempts, shown, prepping, starts, trouble, remounts, shared>>

Purse(u) == [weth |-> 0, usdc |-> u, allowed |-> {}, supplied |-> 0, debt |-> 0,
             market |-> FALSE, liquidity |-> 0, collateral |-> 0, shares |-> 0]

PrepInit ==
  /\ net \in Networks
  /\ \E u \in StartUsdc : purse = [n \in Networks |-> Purse(u)]
  /\ attempts = {} /\ shown = [s \in Range(Steps) |-> "pending"] /\ prepping = FALSE
  /\ starts = 0 /\ trouble = 0 /\ remounts = 0 /\ shared = FALSE

-----------------------------------------------------------------------------
(* The contracts: units of half the supplied WETH, and of the loan in USDC. *)

SupplyWeth == 2
BorrowUsdc == 1
SeedUsdc   == 10

\* What a transaction needs to succeed, and what it then does.
Can(op, p, allowance) ==
  CASE op \in {"transfer", "dust", "wrap", "approve", "approveSeed"} -> TRUE
    [] op = "createMarket" -> ~p.market
    [] op \in {"supply", "supplyCollateral"} -> p.weth >= SupplyWeth /\ allowance \in p.allowed
    [] op = "borrowAave"   -> p.supplied > 0
    [] op = "repayAave"    -> p.debt > 0 /\ p.usdc >= p.debt /\ allowance \in p.allowed
    [] op = "seed"         -> p.usdc >= SeedUsdc /\ allowance \in p.allowed
    [] op = "borrowMorpho" -> p.collateral > 0 /\ p.liquidity >= BorrowUsdc
    [] op = "repayMorpho"  -> p.usdc >= p.shares /\ allowance \in p.allowed
    [] op = "withdraw"     -> p.shares = 0

-----------------------------------------------------------------------------
(* The steps.  An operation names what must hold for it to be sent at all. *)

WETH(spender) == <<"weth", spender>>
USDC(spender) == <<"usdc", spender>>

Op(name, allowance) == [name |-> name, allowance |-> allowance]

runActivity ==
  <<Op("transfer", <<>>), Op("transfer", <<>>), Op("transfer", <<>>), Op("dust", <<>>)>>

runAave ==
  <<Op("wrap", <<>>), Op("approve", WETH("aave")), Op("supply", WETH("aave")),
    Op("borrowAave", <<>>), Op("approve", USDC("aave")), Op("repayAave", USDC("aave"))>>

runMorpho ==
  <<Op("createMarket", <<>>), Op("wrap", <<>>), Op("approve", WETH("morpho")),
    Op("supplyCollateral", WETH("morpho")), Op("approveSeed", USDC("morpho")),
    Op("seed", USDC("morpho")), Op("borrowMorpho", <<>>), Op("approve", USDC("morpho")),
    Op("repayMorpho", USDC("morpho")), Op("withdraw", <<>>)>>

runPrepWalletStep(step) ==
  CASE step \in {"arbitrum-activity", "base-activity"} -> runActivity
    [] step \in {"arbitrum-aave", "base-aave"}         -> runAave
    [] step = "morpho"                                 -> runMorpho

\* The Morpho market cannot lend what the step borrows.
Dry(p) == p.liquidity < BorrowUsdc

\* Reads before a transaction can make it unnecessary; ensureAllowance reads
\* the allowance.  `covered` is what the Aave step found at its start.
Needed(op, p, covered) ==
  CASE op.name = "wrap"    -> ~covered /\ p.weth < SupplyWeth
    [] op.name = "approve" -> op.allowance \notin p.allowed
                              /\ (op.allowance = WETH("aave") => ~covered)
    [] op.name = "supply"  -> ~covered
    [] op.name = "createMarket" -> ~p.market
    [] op.name = "approveSeed"  -> Dry(p) /\ op.allowance \notin p.allowed
    [] op.name = "repayMorpho"  -> p.shares > 0
    [] op.name = "withdraw"     -> p.collateral > 0
    [] OTHER -> TRUE

\* Mutant: Aave is paid back what this step borrowed.
AaveRepayment_oneLoan(p) == BorrowUsdc

\* repay(maxUint256): the whole debt, earlier attempts' included.
AaveRepayment(p) == p.debt

After(op, p) ==
  CASE op.name = "transfer" -> p
    [] op.name = "dust"     -> [p EXCEPT !.weth = @ + 1]
    [] op.name = "wrap"     -> [p EXCEPT !.weth = SupplyWeth]
    [] op.name \in {"approve", "approveSeed"} -> [p EXCEPT !.allowed = @ \cup {op.allowance}]
    [] op.name = "supply"   -> [p EXCEPT !.weth = @ - SupplyWeth, !.supplied = @ + SupplyWeth]
    [] op.name = "borrowAave" -> [p EXCEPT !.debt = @ + BorrowUsdc, !.usdc = @ + BorrowUsdc]
    [] op.name = "repayAave"  -> [p EXCEPT !.usdc = @ - AaveRepayment(p), !.debt = @ - AaveRepayment(p)]
    [] op.name = "createMarket" -> [p EXCEPT !.market = TRUE]
    [] op.name = "supplyCollateral" ->
         [p EXCEPT !.weth = @ - SupplyWeth, !.collateral = @ + SupplyWeth]
    [] op.name = "seed" -> [p EXCEPT !.usdc = @ - SeedUsdc, !.liquidity = @ + SeedUsdc]
    [] op.name = "borrowMorpho" ->
         [p EXCEPT !.shares = @ + BorrowUsdc, !.usdc = @ + BorrowUsdc, !.liquidity = @ - BorrowUsdc]
    [] op.name = "repayMorpho" ->
         [p EXCEPT !.usdc = @ - p.shares, !.liquidity = @ + p.shares, !.shares = 0]
    [] op.name = "withdraw" -> [p EXCEPT !.weth = @ + p.collateral, !.collateral = 0]

-----------------------------------------------------------------------------
(* The tab.                                                                *)

Trouble == trouble < MaxTrouble /\ trouble' = trouble + 1

\* performSelected (a list of one) and runAll, which forgets earlier results.
Start(list, reset) ==
  /\ ~prepping /\ starts < MaxStarts /\ starts' = starts + 1
  /\ prepping' = TRUE
  /\ shown' = [s \in Range(Steps) |->
                 IF s = Head(list) THEN "running" ELSE IF reset THEN "pending" ELSE shown[s]]
  /\ attempts' = attempts \cup
       {[id |-> starts, list |-> list, client |-> net, at |-> 0, covered |-> FALSE,
         reverted |-> FALSE, here |-> TRUE]}
  /\ shared' = (shared \/ attempts # {})
  /\ UNCHANGED <<net, purse, trouble, remounts>>

\* The tab is left and opened again: its state is new, the run goes on.
Remount ==
  /\ attempts # {} /\ remounts < MaxRemounts /\ remounts' = remounts + 1
  /\ prepping' = FALSE /\ shown' = [s \in Range(Steps) |-> "pending"]
  /\ attempts' = {[a EXCEPT !.here = FALSE] : a \in attempts}
  /\ UNCHANGED <<net, purse, starts, trouble, shared>>

\* The user changes the network in the wallet.
ChangeNetwork ==
  /\ attempts = {} /\ net' \in Networks \ {net}
  /\ UNCHANGED <<purse, attempts, shown, prepping, starts, trouble, remounts, shared>>

Show(a, step, status) ==
  shown' = IF a.here THEN [shown EXCEPT ![step] = status] ELSE shown

Replace(a, new) == attempts' = (attempts \ {a}) \cup {new}

StepFails(a) ==
  /\ Show(a, Head(a.list), "error")
  /\ attempts' = attempts \ {a}
  /\ prepping' = IF a.here THEN FALSE ELSE prepping

\* ensureChain and the reads of the step's beginning; through the client of
\* another network the contracts of the step are not found.
BeginStep(a) ==
  LET step == Head(a.list)
  IN  /\ a.at = 0
      /\ \/ /\ net' = network(step)
            /\ IF a.client = network(step) \/ runPrepWalletStep(step) = runActivity
               THEN /\ Replace(a, [a EXCEPT !.at = 1, !.reverted = FALSE,
                         !.covered = runPrepWalletStep(step) = runAave
                                     /\ purse[network(step)].supplied > 0])
                    /\ UNCHANGED <<shown, prepping>>
               ELSE StepFails(a)
            /\ trouble' = trouble
         \/ Trouble /\ net' = net /\ StepFails(a)      \* the switch is declined
  /\ UNCHANGED <<purse, starts, remounts, shared>>

Current(a) == runPrepWalletStep(Head(a.list))[a.at]

AtOp(a) == a.at \in 1..Len(runPrepWalletStep(Head(a.list)))

CannotSeed(a) ==
  /\ AtOp(a) /\ Current(a).name = "approveSeed"
  /\ LET p == purse[network(Head(a.list))] IN Dry(p) /\ p.usdc < SeedUsdc

\* A market that can lend needs no seed at all.
SkipOp(a) ==
  /\ AtOp(a) /\ ~Needed(Current(a), purse[network(Head(a.list))], a.covered)
  /\ ~CannotSeed(a)
  /\ Replace(a, [a EXCEPT !.at = @ + (IF Current(a).name = "approveSeed"
                                         /\ ~Dry(purse[network(Head(a.list))]) THEN 2 ELSE 1)])
  /\ UNCHANGED <<net, purse, shown, prepping, starts, trouble, remounts, shared>>

\* writeAndWait and sendAndWait: sign, send, wait for the receipt.
SendOp(a) ==
  LET n  == network(Head(a.list))
      op == Current(a)
      Mined    == purse' = [purse EXCEPT ![n] = After(op, @)]
      Continue == Replace(a, [a EXCEPT !.at = @ + 1]) /\ UNCHANGED <<shown, prepping>>
      Works    == net = n /\ Can(op.name, purse[n], op.allowance)
  IN  /\ AtOp(a) /\ Needed(op, purse[n], a.covered) /\ ~CannotSeed(a)
      /\ \/ Works /\ Mined /\ a.client = n /\ Continue /\ trouble' = trouble
         \/ Works /\ Mined /\ a.client # n /\ StepFails(a) /\ trouble' = trouble
         \/ Works /\ Mined /\ Trouble /\ StepFails(a)                \* receipt not seen
         \/ /\ net = n /\ a.client = n /\ UNCHANGED <<purse, shown, prepping>>   \* reverted
            /\ IF Can(op.name, purse[n], op.allowance) THEN Trouble ELSE trouble' = trouble
            /\ Replace(a, [a EXCEPT !.at = @ + 1, !.reverted = TRUE])
         \/ net # n /\ purse' = purse /\ StepFails(a) /\ trouble' = trouble  \* other network
         \/ Trouble /\ purse' = purse /\ StepFails(a)                 \* declined
  /\ UNCHANGED <<net, starts, remounts, shared>>

\* "Not enough USDC to seed Morpho liquidity".
SeedFails(a) ==
  /\ CannotSeed(a) /\ StepFails(a)
  /\ UNCHANGED <<net, purse, starts, trouble, remounts, shared>>

AtEnd(a) == a.at > Len(runPrepWalletStep(Head(a.list)))

\* The step is shown as done; runAll goes on with the next one.
StepDone(a) ==
  /\ AtEnd(a)
  /\ Show(a, Head(a.list), "done")
  /\ IF Len(a.list) > 1
     THEN Replace(a, [a EXCEPT !.list = Tail(@), !.at = 0]) /\ prepping' = prepping
     ELSE attempts' = attempts \ {a} /\ prepping' = IF a.here THEN FALSE ELSE prepping
  /\ UNCHANGED <<net, purse, starts, trouble, remounts, shared>>

PrepNext ==
  \/ \E s \in Range(Steps) : Start(<<s>>, FALSE)
  \/ Start(Steps, TRUE) \/ Remount \/ ChangeNetwork
  \/ \E a \in attempts : BeginStep(a) \/ SkipOp(a) \/ SendOp(a) \/ SeedFails(a) \/ StepDone(a)

-----------------------------------------------------------------------------

\* A step that reaches its end without a reverted transaction, and that no
\* other run shared the wallet with, leaves no Aave debt on its network and
\* nothing lent or pledged at Morpho, whatever earlier failed attempts had
\* left there (runAave repays the whole debt, runMorpho all shares and all
\* collateral).
DoneCleans ==
  \A a \in attempts : AtEnd(a) /\ ~a.reverted /\ ~shared =>
    LET step == Head(a.list)
        p    == purse[network(step)]
    IN  /\ runPrepWalletStep(step) = runAave => p.debt = 0
        /\ step = "morpho" => p.shares = 0 /\ p.collateral = 0
=============================================================================
