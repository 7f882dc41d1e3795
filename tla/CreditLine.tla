----------------------------- MODULE CreditLine -----------------------------
(***************************************************************************)
(* What the hub market promises, one credit line per wallet, without       *)
(* scores, collateral or agents: a wallet has at most one loan; a loan is  *)
(* either settled, when the market has its principal back, or written off, *)
(* and then the wallet borrows nothing until it is pardoned.               *)
(***************************************************************************)
EXTENDS Integers

CONSTANTS Wallets

VARIABLES
  line,   \* "none" (no credit profile), "clear", "borrowed" or "defaulted"
  debt,   \* principal a wallet owes
  cash    \* what the market can pay out

lineVars == <<line, debt, cash>>

Init ==
  /\ line = [w \in Wallets |-> "none"]
  /\ debt = [w \in Wallets |-> 0]
  /\ cash \in Nat

Grant(w) ==
  /\ line[w] = "none"
  /\ line' = [line EXCEPT ![w] = "clear"]
  /\ UNCHANGED <<debt, cash>>

\* The market pays out exactly what it books, and only what it has.
Borrow(w) ==
  /\ line[w] = "clear"
  /\ line' = [line EXCEPT ![w] = "borrowed"]
  /\ \E p \in 0 .. cash :
       /\ debt' = [debt EXCEPT ![w] = p]
       /\ cash' = cash - p

\* Interest is whatever comes in above the principal.
Settle(w) ==
  /\ line[w] = "borrowed"
  /\ line' = [line EXCEPT ![w] = "clear"]
  /\ debt' = [debt EXCEPT ![w] = 0]
  /\ cash' \in Nat
  /\ cash' >= cash + debt[w]

WriteOff(w) ==
  /\ line[w] = "borrowed"
  /\ line' = [line EXCEPT ![w] = "defaulted"]
  /\ debt' = [debt EXCEPT ![w] = 0]
  /\ UNCHANGED cash

Pardon(w) ==
  /\ line[w] = "defaulted"
  /\ line' = [line EXCEPT ![w] = "clear"]
  /\ UNCHANGED <<debt, cash>>

Fund ==
  /\ cash' \in Nat
  /\ cash' > cash
  /\ UNCHANGED <<line, debt>>

Next ==
  \/ \E w \in Wallets : Grant(w) \/ Borrow(w) \/ Settle(w) \/ WriteOff(w) \/ Pardon(w)
  \/ Fund

Spec == Init /\ [][Next]_lineVars
=============================================================================
