------------------------------- MODULE Operator -------------------------------
(***************************************************************************)
(* The operator at the command line, who either deploys and wires          *)
(* contracts (Deployment) or takes wallets off the blacklists (Pardons),   *)
(* and the account whose key his scripts share with the agents (TxSender). *)
(* The first two share no state but the addresses of contracts that work,  *)
(* and take every transaction for one that may fail, for whatever reason   *)
(* the third knows; so the composition is a choice made at the start.      *)
(***************************************************************************)
EXTENDS Deployment

CONSTANTS
  Wallets, MaxUint8, ScoreData, MaxCopies, Zero, FullScore, Rows, Scored, Debtors, HubScores,
  MaxScripts, MaxShocks,
  Threads, Process, Payloads, max_retries, MaxSends, MaxDrops

ASSUME OperatorAssumption ==
  /\ IsFiniteSet(Threads) /\ IsFiniteSet(Wallets)
  /\ Rows \subseteq Wallets /\ Debtors \subseteq Wallets /\ Zero \in Wallets
  /\ MaxUint8 \in Nat
  /\ 0 \in ScoreData /\ 310 \in ScoreData /\ ScoreData \subseteq Nat
  /\ FullScore \in ScoreData \ {0} /\ HubScores \subseteq ScoreData \ {0}

VARIABLES
  task,                  \* what the operator is about
  profiles, blacklisted, spokeScores, defaultBlacklist, loanActiveMirror, inFlight,
  linked, pardon, pardoned, scripts, shocks,
  mined, pool, chainLock, nextNonce, sender, sent, drops

Pardon == INSTANCE Pardons
Tx     == INSTANCE TxSender

pardonVars == <<profiles, blacklisted, spokeScores, defaultBlacklist, loanActiveMirror, inFlight,
                linked, pardon, pardoned, scripts, shocks>>

txVars == <<mined, pool, chainLock, nextNonce, sender, sent, drops>>

OperatorVars == <<task, vars, pardonVars, txVars>>

OperatorInit ==
  /\ task \in {"deploy", "pardon", "send"}
  /\ Init /\ Pardon!PardonInit /\ Tx!TxInit
  /\ task # "pardon" => \A w \in Wallets : ~profiles[w].exists   \* they do not matter

Deploying == task = "deploy" /\ UNCHANGED <<task, pardonVars, txVars>>
Pardoning == task = "pardon" /\ UNCHANGED <<task, vars, txVars>>
Sending   == task = "send"   /\ UNCHANGED <<task, vars, pardonVars>>

OperatorNext ==
  \/ Deploying /\ Next
  \/ Pardoning /\ Pardon!PardonNext
  \/ Sending /\ Tx!TxNext

OperatorSpec == OperatorInit /\ [][OperatorNext]_OperatorVars

-----------------------------------------------------------------------------
\* A ring that was pardoned stays pardoned on every chain.
PardonHolds == task = "pardon" => Pardon!PardonHolds

\* The account's nonces stay sound, whoever races for them.
NoncesSound == Tx!NoncesSound
=============================================================================
