------------------------------- MODULE Pardons -------------------------------
(***************************************************************************)
(* The operator's scripts that take wallets off the blacklists: a          *)
(* defaulter with everybody shunned for his sake, all wallets, one wallet, *)
(* or the zero address (scripts/whitelist-*.js, unblacklist-wallet.js).    *)
(* They run beside the liquidation agent and the messages in flight; every *)
(* transaction of theirs may fail by itself.  The hub's own OApp receives  *)
(* no messages, so its blacklist is empty and clearing it does nothing.    *)
(***************************************************************************)
EXTENDS CredFlowOApp, Sequences, SequencesExt

CONSTANTS
  Zero,           \* the zero address, which a transaction graph may contain
  FullScore,      \* 830, the scripts' score for a wallet that has none
  Rows,           \* wallets with rows in Supabase
  Scored,         \* the sets of wallets that may have a score at first
  Debtors,        \* wallets that borrow
  HubScores,      \* scores the hub gives
  MaxScripts,     \* bound: scripts started
  MaxShocks       \* bound: liquidations and new scores

VARIABLES
  linked,         \* WalletBlacklisted events: <<wallet, linkedTo>>
  pardon,         \* the script that runs
  pardoned,       \* history: <<wallet, were the spokes told by a message?>> of the rings
                  \* pardoned, for wallets neither shunned nor rescored since
  scripts, shocks \* counters of the bounds

pardonVars == <<profiles, blacklisted, oappVars, linked, pardon, pardoned, scripts, shocks>>

Quiet == \A m \in Messages : inFlight[m] = 0

NoPardon == [script |-> "none", at |-> "idle", todo |-> <<>>, score |-> [w \in Wallets |-> 0],
             left |-> {}, missed |-> {}, sound |-> TRUE]

\* Wallets with the demonstration's score, which the spokes have, and others.
PardonInit ==
  /\ \E Minted \in Scored :
       /\ profiles = [w \in Wallets |-> IF w \in Minted THEN FreshProfile(FullScore) ELSE ZeroProfile]
       /\ spokeScores = [s \in Spokes |-> [w \in Wallets |-> profiles[w].score]]
  /\ blacklisted = [w \in Wallets |-> FALSE]
  /\ defaultBlacklist = [s \in Spokes |-> [w \in Wallets |-> FALSE]]
  /\ loanActiveMirror = defaultBlacklist
  /\ inFlight = [m \in Messages |-> 0]
  /\ linked = {} /\ pardon = NoPardon /\ pardoned = {} /\ scripts = 0 /\ shocks = 0

-----------------------------------------------------------------------------
(* What the scripts read.                                                  *)

\* Everybody ever shunned for the defaulter's sake, whoever came later.
findLinkedWallets(defaulter) == {w \in Wallets : <<w, defaulter>> \in linked}

\* Mutant: the entry alone counts, not the recorded default.
hubBlocked_entryOnly(w) == blacklisted[w]

hubBlocked(w) == blacklisted[w] \/ (profiles[w].exists /\ profiles[w].defaultCount > 0)

\* The score that is read before anything is cleared.
scanScore(w) ==
  IF profiles[w].exists /\ profiles[w].score # 0 THEN profiles[w].score ELSE FullScore

fetchOnChainWallets == {w \in Wallets : profiles[w].exists}

-----------------------------------------------------------------------------
(* Starting a script.                                                      *)

Start(job) ==
  /\ pardon.script = "none" /\ scripts < MaxScripts /\ scripts' = scripts + 1
  /\ pardon' = job
  /\ UNCHANGED <<profiles, blacklisted, oappVars, linked, pardoned, shocks>>

whitelistDefaulterRing(defaulter) ==
  /\ defaulter # Zero
  /\ Start([NoPardon EXCEPT !.script = "ring", !.at = "hub",
              !.todo = SetToSeq(({defaulter} \cup findLinkedWallets(defaulter)) \ {Zero}),
              !.score = [w \in Wallets |-> scanScore(w)],
              !.sound = Quiet])

whitelistAllWallets ==
  /\ Rows \cup fetchOnChainWallets # {}
  /\ Start([NoPardon EXCEPT !.script = "all", !.at = "hub",
              !.todo = SetToSeq(Rows \cup fetchOnChainWallets)])

unblacklistWallet(w) ==
  /\ blacklisted[w] \/ profiles[w].defaultCount > 0
  /\ Start([NoPardon EXCEPT !.script = "one", !.at = "hub", !.todo = <<w>>])

whitelistZeroAddress ==
  Start([NoPardon EXCEPT !.script = "zero", !.at = "hub", !.todo = <<Zero>>,
           !.score = [w \in Wallets |-> FullScore]])

-----------------------------------------------------------------------------
(* The steps for one wallet of the script.                                 *)

Wallet == Head(pardon.todo)

\* What the script goes on with when the wallet is done.
Following(job) ==
  IF Len(job.todo) > 1 THEN [job EXCEPT !.todo = Tail(@), !.at = "hub", !.missed = {}]
  ELSE NoPardon

Done(job, told) ==
  /\ pardon' = Following(job)
  /\ pardoned' = IF job.script = "ring" /\ job.sound THEN pardoned \cup {<<Wallet, told>>}
                 ELSE pardoned

ToSpokes == pardon' = [pardon EXCEPT !.at = "spokes", !.left = Spokes] /\ UNCHANGED pardoned

\* The transaction on the hub's profile contract.
Cleared(w) ==
  IF ~hubBlocked(w) THEN UNCHANGED <<profiles, blacklisted>>
  ELSE IF profiles[w].exists THEN whitelistWallet(w) ELSE removeFromBlacklist(w)

AtHub(script) == pardon.script = script /\ pardon.at = "hub"

\* An error is printed, and the script goes on to the spokes.
clearHubSbt ==
  /\ AtHub("ring")
  /\ \/ Cleared(Wallet) /\ ToSpokes
     \/ /\ pardon' = [pardon EXCEPT !.at = "spokes", !.left = Spokes, !.sound = FALSE]
        /\ UNCHANGED <<profiles, blacklisted, pardoned>>
  /\ UNCHANGED <<oappVars, linked, scripts, shocks>>

\* The same in whitelist-all-wallets.js, which knows no spokes.
whitelistWalletOf ==
  /\ AtHub("all")
  /\ Cleared(Wallet) \/ UNCHANGED <<profiles, blacklisted>>
  /\ Done(pardon, FALSE)
  /\ UNCHANGED <<oappVars, linked, scripts, shocks>>

\* unblacklist-wallet.js sends whitelistWallet to wallets without a profile,
\* too, which reverts and ends it.
whitelistOne ==
  /\ AtHub("one")
  /\ whitelistWallet(Wallet) \/ UNCHANGED <<profiles, blacklisted>>
  /\ Done(pardon, FALSE)
  /\ UNCHANGED <<oappVars, linked, scripts, shocks>>

\* An error ends whitelist-zero-address.js.
clearZeroOnHub ==
  /\ AtHub("zero")
  /\ \/ /\ IF blacklisted[Zero]
           THEN IF profiles[Zero].exists THEN whitelistWallet(Zero) ELSE removeFromBlacklist(Zero)
           ELSE UNCHANGED <<profiles, blacklisted>>
        /\ ToSpokes
     \/ pardon' = NoPardon /\ UNCHANGED <<profiles, blacklisted, pardoned>>
  /\ UNCHANGED <<oappVars, linked, scripts, shocks>>

\* A spoke that is not configured is passed over; an error is printed.
clearSpokeOapp(s) ==
  /\ pardon.script = "ring" /\ pardon.at = "spokes" /\ s \in pardon.left
  /\ LET job == [pardon EXCEPT !.left = @ \ {s},
                               !.at = IF pardon.left = {s} THEN "broadcast" ELSE @]
     IN  \/ /\ pardon' = job
            /\ IF defaultBlacklist[s][Wallet] THEN clearDefaultBlacklist(s, Wallet, pardon.score[Wallet])
               ELSE UNCHANGED oappVars
         \/ pardon' = [job EXCEPT !.missed = @ \cup {s}] /\ UNCHANGED oappVars
  /\ UNCHANGED <<profiles, blacklisted, linked, pardoned, scripts, shocks>>

\* One transaction for all spokes.
broadcastSpokeWhitelist ==
  /\ pardon.script = "ring" /\ pardon.at = "broadcast"
  /\ LET sent == {m \in Messages : /\ m.type = "WHITELIST" /\ m.wallet = Wallet
                                   /\ m.data = pardon.score[Wallet]}
     IN  \/ /\ \A m \in sent : inFlight[m] < MaxCopies
            /\ inFlight' = [m \in Messages |-> inFlight[m] + (IF m \in sent THEN 1 ELSE 0)]
            /\ Done(pardon, TRUE)
         \/ /\ inFlight' = inFlight
            /\ Done([pardon EXCEPT !.sound = @ /\ pardon.missed = {}], FALSE)
  /\ UNCHANGED <<profiles, blacklisted, spokeScores, defaultBlacklist, loanActiveMirror, linked,
                 scripts, shocks>>

\* The zero address on a spoke: one without an RPC is passed over, but an
\* error ends the script, as its last spoke does.
clearZeroOnSpoke(s) ==
  /\ pardon.script = "zero" /\ pardon.at = "spokes" /\ s \in pardon.left
  /\ \/ /\ IF defaultBlacklist[s][Zero] THEN clearDefaultBlacklist(s, Zero, pardon.score[Zero])
           ELSE UNCHANGED oappVars
        /\ pardon' = IF pardon.left = {s} THEN NoPardon ELSE [pardon EXCEPT !.left = @ \ {s}]
     \/ /\ pardon' = IF pardon.left = {s} THEN NoPardon ELSE [pardon EXCEPT !.left = @ \ {s}]
        /\ UNCHANGED oappVars
     \/ pardon' = NoPardon /\ UNCHANGED oappVars
  /\ UNCHANGED <<profiles, blacklisted, linked, pardoned, scripts, shocks>>

-----------------------------------------------------------------------------
(* The agents.  The transactions of a liquidation are one step here; they   *)
(* are separate in CrossChain.                                             *)

Shock == shocks < MaxShocks /\ shocks' = shocks + 1

\* What disturbs a pardon that runs.
Disturb(ws) ==
  /\ pardoned' = {p \in pardoned : p[1] \notin ws}
  /\ pardon' = IF pardon.script = "none" THEN pardon ELSE [pardon EXCEPT !.sound = FALSE]

Send(sent) ==
  /\ \A m \in sent : inFlight[m] < MaxCopies
  /\ inFlight' = [m \in Messages |-> inFlight[m] + (IF m \in sent THEN 1 ELSE 0)]
  /\ UNCHANGED <<spokeScores, defaultBlacklist, loanActiveMirror>>

\* execute_liquidation of a scored wallet's loan, with its linked wallets.
Liquidate(d, ws) ==
  /\ Shock /\ profiles[d].exists /\ d \notin ws
  /\ profiles[d].defaultCount < MaxUint8
  /\ profiles' = [profiles EXCEPT ![d].loanStatus = 3, ![d].defaultCount = @ + 1]
  /\ blacklisted' = [w \in Wallets |-> blacklisted[w] \/ w \in ws]
  /\ linked' = linked \cup (ws \X {d})
  /\ Send({m \in Messages : m.type = "DEFAULT" /\ m.wallet \in {d} \cup ws})
  /\ Disturb({d} \cup ws)
  /\ UNCHANGED scripts

Rescore(w, score) ==
  /\ Shock /\ profiles[w].exists /\ profiles[w].score # score
  /\ updateScore(w, score)
  /\ Send({m \in Messages : m.type = "SCORE_UPDATE" /\ m.wallet = w /\ m.data = score})
  /\ Disturb({w})
  /\ UNCHANGED <<linked, scripts>>

Receive(m) ==
  /\ lzReceive(m)
  /\ UNCHANGED <<profiles, blacklisted, linked, pardon, pardoned, scripts, shocks>>

PardonNext ==
  \/ \E w \in Wallets : whitelistDefaulterRing(w) \/ unblacklistWallet(w)
  \/ whitelistAllWallets \/ whitelistZeroAddress
  \/ clearHubSbt \/ whitelistWalletOf \/ whitelistOne \/ clearZeroOnHub
  \/ (\E s \in Spokes : clearSpokeOapp(s) \/ clearZeroOnSpoke(s)) \/ broadcastSpokeWhitelist
  \/ \E d \in Debtors, ws \in SUBSET Wallets : Liquidate(d, ws)
  \/ \E w \in Wallets, score \in HubScores : Rescore(w, score)
  \/ \E m \in Messages : Receive(m)

-----------------------------------------------------------------------------
(* Properties.                                                             *)

\* What list-defaulters.js prints of a wallet, for the hub and for a spoke.
StillDefaulter(w) == blacklisted[w] \/ (profiles[w].exists /\ profiles[w].defaultCount > 0)

StillBlacklisted(s, w) == defaultBlacklist[s][w]

\* A ring that was pardoned while no message was in flight stays pardoned on
\* every chain: although the direct reset of a spoke or the broadcast may fail
\* (not both), the messages come in any order and other scripts follow.  If
\* the broadcast did not fail, the spokes know the score of the hub again
\* instead of the default's (whitelist-defaulter-ring.js, list-defaulters.js).
PardonHolds ==
  Quiet => \A p \in pardoned :
    LET w == p[1] IN
    /\ ~StillDefaulter(w)
    /\ \A s \in Spokes :
         /\ ~StillBlacklisted(s, w)
         /\ p[2] /\ profiles[w].exists => spokeScores[s][w] = profiles[w].score
=============================================================================
