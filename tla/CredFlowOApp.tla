---------------------------- MODULE CredFlowOApp ----------------------------
(***************************************************************************)
(* The LayerZero application: the hub's copy broadcasts credit messages,   *)
(* each spoke's copy mirrors what it receives and is the credit registry   *)
(* the spoke's lending contract reads.  LayerZero executes every message   *)
(* exactly once, some time after it is sent, in no particular order (the   *)
(* contract does not ask for ordered nonces).                              *)
(***************************************************************************)
EXTENDS CredScoreSBT

CONSTANTS
  Spokes,        \* the chains the hub broadcasts to
  ScoreData,     \* values the uint16 payload of a message takes
  MaxCopies      \* bound: equal messages in flight at once

ASSUME OAppAssumption == 0 \in ScoreData /\ 310 \in ScoreData
                         /\ ScoreData \subseteq Nat /\ MaxCopies \in Nat \ {0}

VARIABLES
  spokeScores, defaultBlacklist, loanActiveMirror,   \* [spoke][wallet]
  inFlight       \* inFlight[m]: sent and not yet received copies of m

oappVars == <<spokeScores, defaultBlacklist, loanActiveMirror, inFlight>>

MessageTypes == {"SCORE_UPDATE", "LOAN_ACTIVE", "DEFAULT", "REPAID", "WHITELIST"}

\* Only SCORE_UPDATE and WHITELIST carry a score; a DEFAULT always carries 310.
Payload(type) == IF type \in {"SCORE_UPDATE", "WHITELIST"} THEN ScoreData
                 ELSE IF type = "DEFAULT" THEN {310} ELSE {0}

Messages ==
  UNION {[type : {t}, wallet : Wallets, data : Payload(t), dst : Spokes] : t \in MessageTypes}

OAppTypeOK ==
  /\ spokeScores \in [Spokes -> [Wallets -> ScoreData]]
  /\ defaultBlacklist \in [Spokes -> [Wallets -> BOOLEAN]]
  /\ loanActiveMirror \in [Spokes -> [Wallets -> BOOLEAN]]
  /\ inFlight \in [Messages -> 0 .. MaxCopies]

OAppInit ==
  /\ spokeScores = [s \in Spokes |-> [w \in Wallets |-> 0]]
  /\ defaultBlacklist = [s \in Spokes |-> [w \in Wallets |-> FALSE]]
  /\ loanActiveMirror = [s \in Spokes |-> [w \in Wallets |-> FALSE]]
  /\ inFlight = [m \in Messages |-> 0]

-----------------------------------------------------------------------------
\* One destination of broadcastScore, broadcastLoanActive, ...
lzSend(m) ==
  /\ inFlight[m] < MaxCopies                                        \* bound
  /\ inFlight' = [inFlight EXCEPT ![m] = @ + 1]
  /\ UNCHANGED <<spokeScores, defaultBlacklist, loanActiveMirror>>

setScore(s, w, score)    == spokeScores' = [spokeScores EXCEPT ![s][w] = score]
setBlacklist(s, w, flag) == defaultBlacklist' = [defaultBlacklist EXCEPT ![s][w] = flag]
setMirror(s, w, flag)    == loanActiveMirror' = [loanActiveMirror EXCEPT ![s][w] = flag]

lzReceive(m) ==
  /\ inFlight[m] > 0
  /\ inFlight' = [inFlight EXCEPT ![m] = @ - 1]
  /\ \/ /\ m.type = "SCORE_UPDATE"
        /\ setScore(m.dst, m.wallet, m.data)
        /\ UNCHANGED <<defaultBlacklist, loanActiveMirror>>
     \/ /\ m.type = "LOAN_ACTIVE"
        /\ setMirror(m.dst, m.wallet, TRUE)
        /\ UNCHANGED <<spokeScores, defaultBlacklist>>
     \/ /\ m.type = "DEFAULT"
        /\ setBlacklist(m.dst, m.wallet, TRUE)
        /\ setScore(m.dst, m.wallet, 310)
        /\ setMirror(m.dst, m.wallet, FALSE)
     \/ /\ m.type = "REPAID"
        /\ setMirror(m.dst, m.wallet, FALSE)
        /\ UNCHANGED <<spokeScores, defaultBlacklist>>
     \/ /\ m.type = "WHITELIST"
        /\ setBlacklist(m.dst, m.wallet, FALSE)
        /\ setScore(m.dst, m.wallet, IF m.data > 0 THEN m.data ELSE spokeScores[m.dst][m.wallet])
        /\ UNCHANGED loanActiveMirror

\* The agent's direct reset on one spoke.
clearDefaultBlacklist(s, w, score) ==
  /\ setBlacklist(s, w, FALSE)
  /\ setScore(s, w, IF score > 0 THEN score ELSE spokeScores[s][w])
  /\ UNCHANGED <<loanActiveMirror, inFlight>>
=============================================================================
