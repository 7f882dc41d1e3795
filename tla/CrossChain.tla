----------------------------- MODULE CrossChain -----------------------------
(***************************************************************************)
(* Lending on the hub and on the spokes, held together only by LayerZero   *)
(* messages and by the agents.  A loan is its activeLoanId (amounts are    *)
(* CredFlowLending's business); the subject is which chain believes what   *)
(* about a borrower, and when.                                             *)
(*                                                                         *)
(* The agents' functions run in threads: the scheduler's loop, and the ML  *)
(* API's pool, which serves the web application.  A function is the        *)
(* sequence of the chain reads and transactions it still has to do; one    *)
(* read or transaction is one step, and everything else may happen in      *)
(* between.  A step that raises abandons the rest, except where the code   *)
(* catches it.                                                             *)
(***************************************************************************)
EXTENDS CredFlowOApp, CreditMath, Sequences, SequencesExt

CONSTANTS
  Hub, Nobody,
  SpokeOrder,    \* the spokes, in the order of dst_chain_eids()
  Threads, Scheduler,
  Scores,        \* scores the scoring pipeline may produce
  OpenMarkets,   \* bound: the markets borrowers use
  Happenings,    \* bound: of "reject", "rescore", "liquidate", "whitelist", "view", "unlock",
                 \* "overlap" (the hourly job begins while other work goes on)
  Patient,       \* borrowers act when no agent works and no message is in flight
  MaxFailures    \* bound: failing reads and transactions

Markets == Spokes \cup {Hub}

ASSUME CrossChainAssumption ==
  /\ Hub \notin Spokes /\ Nobody \notin Wallets
  /\ IsFiniteSet(Wallets)
  /\ SpokeOrder \in Seq(Spokes) /\ ToSet(SpokeOrder) = Spokes
  /\ Scheduler \in Threads
  /\ Scores \subseteq 300 .. 850 /\ Scores \subseteq ScoreData
  /\ OpenMarkets \subseteq Markets
  /\ Patient \in BOOLEAN /\ MaxFailures \in Nat

VARIABLES
  loan,       \* loan[m][w]: activeLoanId(w) # 0 in the lending contract of m
  touched,    \* wallets with a LoanCreated or LoanRepaid event on the hub
  unsynced,   \* unsynced[w]: the last score event past the batch job's cursor, or 0
  job,        \* job[t]: what thread t is doing
  failures,   \* failed steps so far
  shunned,    \* history: wallets liquidated, or linked to one, and not reported
              \* whitelisted since, unless by a whitelisting that was crossed
  crossed     \* history: wallets whose default was under way, or came up, in the
              \* course of their last whitelisting, or a list could not be read in it

chainVars == <<sbtVars, loan, touched, unsynced, shunned, crossed>>
vars == <<chainVars, oappVars, job, failures>>

IdleJob == [wallet |-> Nobody, score |-> 0, ahead |-> 0, seen |-> {}, locked |-> {}, todo |-> <<>>]

Idle(t) == job[t].todo = <<>>

Delivered == \A m \in Messages : inFlight[m] = 0

Settled == Delivered /\ \A t \in Threads : Idle(t)

\* The steps a thread may have to do; the hourly batch has no wallet of its own.
BatchSteps ==
  [op : {"scan_scores", "save_sync_block", "scan_loans"}] \cup [op : {"send"}, msg : Messages]

Steps ==
  BatchSteps
    \cup [op : {"created", "repaid", "profile_score", "ensure", "clear", "set_active",
                "set_repaid", "enrich", "verdict", "whitelist", "unlist", "report"}]
    \cup [op : {"read", "view", "listed"}, at : Markets]
    \cup [op : {"lock_kind", "prepare", "spoke_listed", "clear_spoke"}, at : Spokes]
    \cup [op : {"vet", "commit"}, rescore : BOOLEAN, without : Nat]
    \cup [op : {"clear_lock"}, always : BOOLEAN]
    \cup [op : {"blacklist"}, wallets : SUBSET Wallets]
    \cup [op : {"whitelist_tx"}, fallback : BOOLEAN, dirty : BOOLEAN]

Work == [wallet : Wallets \cup {Nobody}, score : ScoreData, ahead : ScoreData,
         seen : SUBSET Markets, locked : SUBSET Spokes, todo : Seq(Steps)]

WorkOK(j) ==
  /\ j \in Work
  /\ j.wallet = Nobody => j.todo \in Seq(BatchSteps)
  /\ j.todo = <<>> => j = IdleJob

TypeOK ==
  /\ SBTTypeOK /\ OAppTypeOK
  /\ \A w \in Wallets : profiles[w].score \in ScoreData
  /\ loan \in [Markets -> [Wallets -> BOOLEAN]]
  /\ touched \subseteq Wallets
  /\ unsynced \in [Wallets -> ScoreData]
  /\ job \in [Threads -> Work] /\ \A t \in Threads : WorkOK(job[t])
  /\ failures \in 0 .. MaxFailures
  /\ shunned \subseteq Wallets /\ crossed \subseteq Wallets

Init ==
  /\ SBTInit /\ OAppInit
  /\ loan = [m \in Markets |-> [w \in Wallets |-> FALSE]]
  /\ touched = {}
  /\ unsynced = [w \in Wallets |-> 0]
  /\ job = [t \in Threads |-> IdleJob]
  /\ failures = 0
  /\ shunned = {} /\ crossed = {}

-----------------------------------------------------------------------------
(* What a thread still has to do.                                          *)

Op(name) == <<[op |-> name]>>
At(name, m) == [op |-> name, at |-> m]

\* One transaction per destination, in order.
broadcast(type, w, data) ==
  [i \in DOMAIN SpokeOrder |->
     [op  |-> "send",
      msg |-> [type |-> type, wallet |-> w, data |-> data, dst |-> SpokeOrder[i]]]]

broadcast_score(w, score)     == broadcast("SCORE_UPDATE", w, score)
broadcast_loan_active(w)      == broadcast("LOAN_ACTIVE", w, 0)
broadcast_repaid(w)           == broadcast("REPAID", w, 0)
broadcast_default(w)          == broadcast("DEFAULT", w, 310)
\* Mutant: the score is left to the direct reset.
broadcast_whitelist_bare(w, score) == broadcast("WHITELIST", w, 0)

broadcast_whitelist(w, score) == broadcast("WHITELIST", w, score)

OnEverySpoke(name) == [i \in DOMAIN SpokeOrder |-> At(name, SpokeOrder[i])]
OnEveryChain(name) == <<At(name, Hub)>> \o OnEverySpoke(name)

\* Mutants: the hub, or the spokes, are not asked.
sync_wallet_loan_active_spokesOnly == OnEverySpoke("read") \o Op("created")
sync_wallet_repaid_hubOnly         == <<At("read", Hub)>> \o Op("repaid")

sync_wallet_loan_active == OnEveryChain("read") \o Op("created")
sync_wallet_repaid      == OnEveryChain("read") \o Op("repaid")
\* rescore: the caller found a profile when it asked.  What is left out when
\* the vetting or the commit refuses: the commit, and what depends on it.
Underwriting(rescore, dependent) ==
  <<[op |-> "vet", rescore |-> rescore, without |-> 1 + dependent],
    [op |-> "commit", rescore |-> rescore, without |-> dependent]>>

underwrite_wallet(rescore) == Underwriting(rescore, 0)

\* The highest score of a spoke is underwritten on the hub, then sent to all.
repairChainScoreMismatch(w, target) ==
  Underwriting(TRUE, Len(SpokeOrder)) \o broadcast_score(w, target)

view_loans              == OnEveryChain("view") \o Op("enrich")
clear_lz_lock(s)        == OnEveryChain("view") \o <<At("lock_kind", s)>>
prepareSpokeBorrow(s)   == <<At("view", s), At("view", Hub), At("prepare", s)>>
whitelist_wallet        == OnEveryChain("listed") \o Op("whitelist")
run_sync                == Op("scan_scores")
clear_lock(always)      == <<[op |-> "clear_lock", always |-> always]>>

Call(t, w, score, steps) ==
  /\ Idle(t)
  /\ job' = [job EXCEPT ![t] = [IdleJob EXCEPT !.wallet = w, !.score = score, !.todo = steps]]

Become(t, j) == job' = [job EXCEPT ![t] = IF j.todo = <<>> THEN IdleJob ELSE j]

Continue(t, steps) == Become(t, [job[t] EXCEPT !.todo = steps])

\* The decision after the reads forgets them.
Proceed(t, steps) == Become(t, [job[t] EXCEPT !.ahead = 0, !.seen = {}, !.locked = {},
                                               !.todo = steps])

Doing(t, name) == ~Idle(t) /\ Head(job[t].todo).op = name
Rest(t)          == Tail(job[t].todo)
Refused(todo)    == SubSeq(todo, 2 + Head(todo).without, Len(todo))

-----------------------------------------------------------------------------
(* Borrowers and the web application's routes.                             *)

\* Mutant: loans elsewhere do not count.
HubAccepts_anyLoan(w) ==
  /\ profiles[w].exists /\ ~blacklisted[w] /\ profiles[w].defaultCount = 0
  /\ getLTVForScore(profiles[w].score) > 0

HubAccepts(w) ==
  /\ profiles[w].exists /\ ~blacklisted[w]
  /\ profiles[w].defaultCount = 0 /\ ~profiles[w].loanActive
  /\ getLTVForScore(profiles[w].score) > 0

requestLoanOnHub(w) ==
  /\ HubAccepts(w)
  /\ setLoanActive(w)
  /\ touched' = touched \cup {w}

SpokeAccepts(s, w) ==
  /\ spokeScores[s][w] > 0
  /\ ~defaultBlacklist[s][w] /\ ~loanActiveMirror[s][w]
  /\ getLTVForScore(spokeScores[s][w]) > 0

requestLoanOnSpoke(s, w) ==
  /\ SpokeAccepts(s, w)
  /\ UNCHANGED <<sbtVars, touched>>

\* POST /api/loans/borrow asks for the loan-active sync once the loan is mined.
Borrow(m, w, t) ==
  /\ Patient => Settled
  /\ ~loan[m][w]
  /\ IF m = Hub THEN requestLoanOnHub(w) ELSE requestLoanOnSpoke(m, w)
  /\ loan' = [loan EXCEPT ![m][w] = TRUE]
  /\ Call(t, w, 0, sync_wallet_loan_active)
  /\ UNCHANGED <<unsynced, shunned, crossed, oappVars, failures>>

\* POST /api/loans/repay: score again, commit, sync; then, always for the hub
\* and otherwise when the sync failed, clear the spokes' locks.
\* The cached score is the floor of the new one; a patient borrower's is in date.
runPostRepayPipeline(m, w, t) ==
  LET sync == sync_wallet_repaid \o clear_lock(m = Hub)
  IN  \/ Call(t, w, 0, Op("profile_score") \o sync)                 \* no new score
      \/ \E sc \in Scores :
           /\ "rescore" \in Happenings
           /\ Patient => sc >= profiles[w].score
           /\ Call(t, w, sc, (IF sc > 500 THEN underwrite_wallet(profiles[w].exists) ELSE <<>>)
                             \o sync)

Repay(m, w, t) ==
  /\ Patient => Settled
  /\ loan[m][w]
  /\ loan' = [loan EXCEPT ![m][w] = FALSE]
  /\ IF m = Hub THEN setLoanRepaid(w) /\ touched' = touched \cup {w}
                ELSE UNCHANGED <<sbtVars, touched>>
  /\ runPostRepayPipeline(m, w, t)
  /\ UNCHANGED <<unsynced, shunned, crossed, oappVars, failures>>

\* A finished score run: underwrite, and broadcast the score whatever came of
\* it.  Patient borrowers wait before a run that changes their score.
ScoreRun(w, sc, t) ==
  /\ sc > 500
  /\ profiles[w].exists => "rescore" \in Happenings /\ (Patient => Settled)
  /\ Call(t, w, sc, underwrite_wallet(profiles[w].exists) \o broadcast_score(w, sc))
  /\ UNCHANGED <<chainVars, oappVars, failures>>

\* GET /api/loans, which repairs the locks it finds missing or left over.
ViewLoans(w, t) ==
  /\ "view" \in Happenings
  /\ Call(t, w, 0, view_loans)
  /\ UNCHANGED <<chainVars, oappVars, failures>>

\* POST /api/loans/clear-lz-lock.
ClearLzLock(s, w, t) ==
  /\ "unlock" \in Happenings
  /\ Call(t, w, 0, clear_lz_lock(s))
  /\ UNCHANGED <<chainVars, oappVars, failures>>

\* A DEFAULT of the wallet is in flight, still to be sent, or still to be decided.
DefaultUnderWay(w) ==
  \/ \E m \in Messages : m.type = "DEFAULT" /\ m.wallet = w /\ inFlight[m] > 0
  \/ \E t \in Threads : \E i \in DOMAIN job[t].todo :
       LET step == job[t].todo[i]
       IN  \/ step.op = "send" /\ step.msg.type = "DEFAULT" /\ step.msg.wallet = w
           \/ step.op = "verdict" /\ job[t].wallet = w

BeingWhitelisted(w) ==
  \E t \in Threads : /\ ~Idle(t) /\ job[t].wallet = w
                     /\ Last(job[t].todo).op \in {"whitelist", "report"}

\* The page offers it straight after the liquidation.
Whitelist(w, t) ==
  /\ "whitelist" \in Happenings
  /\ Call(t, w, 0, whitelist_wallet)
  /\ crossed' = IF DefaultUnderWay(w) THEN crossed \cup {w}
                ELSE IF BeingWhitelisted(w) THEN crossed
                ELSE crossed \ {w}
  /\ UNCHANGED <<sbtVars, loan, touched, unsynced, shunned, oappVars, failures>>

(* The scheduler's jobs; the API offers the liquidation too.               *)

SyncBatch(t) ==
  /\ t = Scheduler
  /\ "overlap" \in Happenings \/ Settled                             \* bound
  /\ Call(t, Nobody, 0, run_sync)
  /\ UNCHANGED <<chainVars, oappVars, failures>>

Shun(ws) ==
  /\ shunned' = shunned \cup ws
  /\ crossed' = crossed \cup ws

\* The transaction of execute_liquidation; a loan's health is not modelled.
Liquidate(m, w, t) ==
  /\ "liquidate" \in Happenings
  /\ loan[m][w]
  /\ loan' = [loan EXCEPT ![m][w] = FALSE]
  /\ IF m = Hub THEN /\ recordDefault(w)
                     /\ Call(t, w, 0, Op("verdict"))
                ELSE /\ UNCHANGED sbtVars
                     /\ Call(t, w, 0, broadcast_default(w))
  /\ Shun({w})
  /\ UNCHANGED <<touched, unsynced, oappVars, failures>>

-----------------------------------------------------------------------------
(* The agents' steps: chain reads and decisions.                           *)

LocalStep == UNCHANGED <<chainVars, oappVars, failures>>

\* wallet_active_loan_sources, one chain at a time.
ReadLoan(t) ==
  /\ Doing(t, "read")
  /\ LET m == Head(job[t].todo).at
         found == IF loan[m][job[t].wallet] THEN {m} ELSE {}
     IN  Become(t, [job[t] EXCEPT !.seen = @ \cup found, !.todo = Rest(t)])
  /\ LocalStep

\* sync_wallet_loan_active, from the sources on.
DecideCreated(t) ==
  /\ Doing(t, "created")
  /\ LET w == job[t].wallet
     IN  IF job[t].seen = {} THEN Proceed(t, broadcast_repaid(w) \o Rest(t))
         ELSE Proceed(t, (IF Hub \in job[t].seen THEN <<>> ELSE Op("ensure"))
                         \o broadcast_score(w, profiles[w].score)
                         \o broadcast_loan_active(w) \o Rest(t))
  /\ LocalStep

\* sync_wallet_repaid_with_score, from the sources on.
DecideRepaid(t) ==
  /\ Doing(t, "repaid")
  /\ LET w == job[t].wallet
     IN  IF job[t].seen # {} THEN Proceed(t, Rest(t))
         ELSE Proceed(t, Op("clear") \o broadcast_score(w, job[t].score)
                         \o broadcast_repaid(w) \o Rest(t))
  /\ LocalStep

\* sync_wallet_repaid, called without a score, takes the profile's.
ProfileScore(t) ==
  /\ Doing(t, "profile_score")
  /\ Become(t, [job[t] EXCEPT !.score = profiles[job[t].wallet].score, !.todo = Rest(t)])
  /\ LocalStep

\* _ensure_hub_sbt_loan_active and _clear_hub_sbt_loan_active read the profile ...
ReadFlag(t) ==
  /\ LET p == profiles[job[t].wallet]
     IN  \/ /\ Doing(t, "ensure")
            /\ Continue(t, (IF p.exists /\ ~p.loanActive THEN Op("set_active") ELSE <<>>)
                           \o Rest(t))
         \/ /\ Doing(t, "clear")
            /\ Continue(t, (IF p.exists /\ p.loanActive THEN Op("set_repaid") ELSE <<>>)
                           \o Rest(t))
  /\ LocalStep

\* ... and then set the flag.
WriteFlag(t) ==
  /\ \/ Doing(t, "set_active") /\ setLoanActive(job[t].wallet)
     \/ Doing(t, "set_repaid") /\ setLoanRepaid(job[t].wallet)
  /\ Continue(t, Rest(t))
  /\ UNCHANGED <<loan, touched, unsynced, shunned, crossed, oappVars, failures>>

\* triggerClearSpokeLoanActive, unless its one-minute cool-down is on.
ClearLock(t) ==
  /\ Doing(t, "clear_lock")
  /\ \/ Head(job[t].todo).always /\ Continue(t, broadcast_repaid(job[t].wallet))
     \/ Continue(t, <<>>)
  /\ LocalStep

ViewChain(t) ==
  /\ Doing(t, "view")
  /\ LET m == Head(job[t].todo).at
         w == job[t].wallet
         higher(a, b) == IF a > b THEN a ELSE b
     IN  Become(t, [job[t] EXCEPT
           !.score  = IF m = Hub THEN profiles[w].score ELSE @,
           !.ahead  = IF m = Hub THEN @ ELSE higher(@, spokeScores[m][w]),
           !.seen   = IF loan[m][w] THEN @ \cup {m} ELSE @,
           !.locked = IF m \in Spokes /\ loanActiveMirror[m][w] THEN @ \cup {m} ELSE @,
           !.todo   = Rest(t)])
  /\ LocalStep

\* enrichChainSummaries and the repairs of the locks and of the score, requests
\* of their own, made here one after the other; the score's has a cool-down.
Enrich(t) ==
  /\ Doing(t, "enrich")
  /\ LET w      == job[t].wallet
         seen   == job[t].seen
         locked == job[t].locked
         ahead  == job[t].ahead
         locks  == IF seen # {} /\ Spokes \ (seen \cup locked) # {} THEN sync_wallet_loan_active
                   ELSE IF seen = {} /\ locked # {} THEN broadcast_repaid(w)
                   ELSE <<>>
         Repairs(steps) ==
           Become(t, [IdleJob EXCEPT !.wallet = w, !.score = ahead, !.todo = steps])
     IN  \/ Repairs(locks)
         \/ /\ ahead > job[t].score /\ job[t].score > 0
            /\ \/ Repairs(repairChainScoreMismatch(w, ahead) \o locks)
               \/ Repairs(locks \o repairChainScoreMismatch(w, ahead))
  /\ LocalStep

\* A lock with no loan anywhere is pending; it is cleared if another look at
\* the spoke, and one at the hub, still say so.
Unlock(t) ==
  LET s == Head(job[t].todo).at
      leftOver == job[t].seen = {} /\ s \in job[t].locked
  IN  /\ \/ /\ Doing(t, "lock_kind")
            /\ Proceed(t, IF leftOver THEN prepareSpokeBorrow(s) ELSE <<>>)
         \/ /\ Doing(t, "prepare")
            /\ Proceed(t, IF leftOver THEN clear_lock(TRUE) ELSE <<>>)
      /\ LocalStep

\* underwrite_wallet: refusals leave the profile alone, the caller goes on.
Vet(t) ==
  /\ Doing(t, "vet")
  /\ LET w     == job[t].wallet
         known == profiles[w].exists /\ ~Head(job[t].todo).rescore
     IN  \/ ~blacklisted[w] /\ ~known /\ Continue(t, Rest(t))
         \/ /\ blacklisted[w] \/ known \/ "reject" \in Happenings
            /\ Continue(t, Refused(job[t].todo))
  /\ LocalStep

\* Nothing happens to an unchanged score, or if another thread minted meanwhile.
Commit(t) ==
  /\ Doing(t, "commit")
  /\ LET w       == job[t].wallet
         sc      == job[t].score
         rescore == Head(job[t].todo).rescore
     IN  \/ /\ \/ ~rescore /\ mintSBT(w, sc)
               \/ rescore /\ profiles[w].score # sc /\ updateScore(w, sc)
            /\ unsynced' = [unsynced EXCEPT ![w] = sc]
         \/ /\ IF rescore THEN profiles[w].score = sc ELSE profiles[w].exists
            /\ UNCHANGED <<sbtVars, unsynced>>
  /\ Continue(t, Rest(t))
  /\ UNCHANGED <<loan, touched, shunned, crossed, oappVars, failures>>

SendMessage(t) ==
  /\ Doing(t, "send")
  /\ lzSend(Head(job[t].todo).msg)
  /\ Continue(t, Rest(t))
  /\ UNCHANGED <<chainVars, failures>>

(* run_sync_once and run_loan_sync_once.                                   *)

\* The lists of steps of several wallets, one after the other.
Concat(lists) ==
  LET order == SetToSeq(DOMAIN lists)
  IN  FlattenSeq([i \in DOMAIN order |-> lists[order[i]]])

\* Mutant: no scores to send ends the job.
ScanScores_returns(t) ==
  /\ Doing(t, "scan_scores")
  /\ LET fresh == {w \in Wallets : unsynced[w] # 0}
     IN  Continue(t, IF fresh = {} THEN <<>>
                     ELSE Concat([w \in fresh |-> broadcast_score(w, unsynced[w])])
                          \o Op("save_sync_block") \o Op("scan_loans"))
  /\ LocalStep

ScanScores(t) ==
  /\ Doing(t, "scan_scores")
  /\ LET fresh == {w \in Wallets : unsynced[w] # 0}
     IN  Continue(t, Concat([w \in fresh |-> broadcast_score(w, unsynced[w])])
                     \o (IF fresh = {} THEN <<>> ELSE Op("save_sync_block"))
                     \o Op("scan_loans"))
  /\ LocalStep

\* The cursor moves to the block of now, not to the block of the scan.
SaveSyncBlock(t) ==
  /\ Doing(t, "save_sync_block")
  /\ unsynced' = [w \in Wallets |-> 0]
  /\ Continue(t, Rest(t))
  /\ UNCHANGED <<sbtVars, loan, touched, shunned, crossed, oappVars, failures>>

ScanLoans(t) ==
  /\ Doing(t, "scan_loans")
  /\ LET active == {w \in touched : loan[Hub][w]}
     IN  Continue(t, Concat([w \in active |-> broadcast_loan_active(w)])
                     \o Concat([w \in touched \ active |-> broadcast_repaid(w)]))
  /\ LocalStep

(* The rest of execute_liquidation on the hub.                             *)

\* Whom else to blacklist, unless the review says not to go on at all.
Verdict(t) ==
  /\ Doing(t, "verdict")
  /\ LET w == job[t].wallet
     IN  \/ Continue(t, <<>>)
         \/ \E linked \in SUBSET (Wallets \ {w}) :
              Continue(t, (IF linked = {} THEN <<>>
                           ELSE <<[op |-> "blacklist", wallets |-> linked]>>)
                          \o broadcast_default(w) \o Concat([v \in linked |-> broadcast_default(v)]))
  /\ LocalStep

BlacklistLinked(t) ==
  /\ Doing(t, "blacklist")
  /\ blacklistLinkedWallets(Head(job[t].todo).wallets)
  /\ Shun(Head(job[t].todo).wallets)
  /\ Continue(t, Rest(t))
  /\ UNCHANGED <<loan, touched, unsynced, oappVars, failures>>

(* whitelist_wallet.                                                       *)

ReadListed(t) ==
  /\ Doing(t, "listed")
  /\ LET m == Head(job[t].todo).at
         w == job[t].wallet
         listed == IF m = Hub THEN blacklisted[w] ELSE defaultBlacklist[m][w]
     IN  Become(t, [job[t] EXCEPT !.seen = IF listed THEN @ \cup {m} ELSE @, !.todo = Rest(t)])
  /\ LocalStep

DecideWhitelist(t) ==
  /\ Doing(t, "whitelist")
  /\ LET w       == job[t].wallet
         p       == profiles[w]
         onHub   == Hub \in job[t].seen
         onSpoke == job[t].seen \ {Hub} # {}
         direct  == OnEverySpoke("spoke_listed")
         told    == broadcast_whitelist(w, p.score)
         hubTx   == <<[op |-> "whitelist_tx", fallback |-> onHub, dirty |-> p.defaultCount > 0]>>
         clear   ==
           IF ~p.exists
           THEN (IF onHub THEN Op("unlist") ELSE <<>>)
                \o (IF onHub \/ onSpoke THEN direct ELSE <<>>)
                \o (IF onSpoke THEN told ELSE <<>>)
           ELSE IF onHub \/ p.defaultCount > 0 THEN hubTx \o told \o direct
           ELSE IF onSpoke THEN told \o direct
           ELSE <<>>
     IN  Become(t, [job[t] EXCEPT !.score = p.score, !.seen = {},
                                  !.todo = clear \o Op("report")])
  /\ LocalStep

\* It returns a status, without an exception.
ReportWhitelisted(t) ==
  /\ Doing(t, "report")
  /\ shunned' = shunned \ ({job[t].wallet} \ crossed)
  /\ Continue(t, Rest(t))
  /\ UNCHANGED <<sbtVars, loan, touched, unsynced, crossed, oappVars, failures>>

HubWhitelistTx(t) ==
  /\ \/ Doing(t, "whitelist_tx") /\ whitelistWallet(job[t].wallet)
     \/ Doing(t, "unlist") /\ removeFromBlacklist(job[t].wallet)
  /\ Continue(t, Rest(t))
  /\ UNCHANGED <<loan, touched, unsynced, shunned, crossed, oappVars, failures>>

SpokeListed(t) ==
  /\ Doing(t, "spoke_listed")
  /\ LET s == Head(job[t].todo).at
     IN  Continue(t, (IF defaultBlacklist[s][job[t].wallet] THEN <<At("clear_spoke", s)>>
                      ELSE <<>>) \o Rest(t))
  /\ LocalStep

ClearSpoke(t) ==
  /\ Doing(t, "clear_spoke")
  /\ clearDefaultBlacklist(Head(job[t].todo).at, job[t].wallet, job[t].score)
  /\ Continue(t, Rest(t))
  /\ UNCHANGED <<chainVars, failures>>

-----------------------------------------------------------------------------
(* Failures.                                                               *)

IsSend(step, type) == step.op = "send" /\ step.msg.type = type

\* What is left to do when the next step raises.
Salvage(t) ==
  LET todo == job[t].todo
      step == Head(todo)
      rest == Tail(todo)
  IN  CASE \/ step.op \in {"set_active", "set_repaid", "spoke_listed", "clear_spoke"}
           \/ step.op \in {"read", "listed"} /\ step.at # Hub     -> rest
        [] IsSend(step, "WHITELIST") /\ profiles[job[t].wallet].exists ->
             SubSeq(rest, 1 + Cardinality({i \in DOMAIN rest : IsSend(rest[i], "WHITELIST")}), Len(rest))
        [] step.op \in {"vet", "commit"} -> Refused(todo)
        [] OTHER -> IF Last(todo).op = "clear_lock" THEN clear_lock(TRUE) ELSE <<>>

Fail(t) ==
  /\ failures < MaxFailures
  /\ ~Idle(t)
  /\ failures' = failures + 1
  /\ crossed' = IF Doing(t, "listed") THEN crossed \cup {job[t].wallet} ELSE crossed
  /\ Continue(t, Salvage(t))
  /\ UNCHANGED <<sbtVars, loan, touched, unsynced, shunned, oappVars>>

\* A transaction the contract refuses.
Revert(t) ==
  /\ \/ Doing(t, "set_active") /\ profiles[job[t].wallet].totalLoans = MaxUint8
     \/ Doing(t, "unlist") /\ ~blacklisted[job[t].wallet]
  /\ Continue(t, Salvage(t))
  /\ LocalStep

\* whitelistWallet failed: clear the explicit entry, and stop if that is not all.
WhitelistFallback(t) ==
  /\ failures < MaxFailures
  /\ Doing(t, "whitelist_tx") /\ Head(job[t].todo).fallback
  /\ removeFromBlacklist(job[t].wallet)
  /\ failures' = failures + 1
  /\ Continue(t, IF Head(job[t].todo).dirty THEN <<>> ELSE Rest(t))
  /\ UNCHANGED <<loan, touched, unsynced, shunned, crossed, oappVars>>

-----------------------------------------------------------------------------
WebRequest(t) ==
  \E w \in Wallets :
    \/ \E m \in OpenMarkets : Borrow(m, w, t) \/ Repay(m, w, t)
    \/ \E sc \in Scores : ScoreRun(w, sc, t)
    \/ ViewLoans(w, t)
    \/ \E s \in Spokes : ClearLzLock(s, w, t)
    \/ Whitelist(w, t)

AgentStep(t) ==
  \/ ReadLoan(t) \/ DecideCreated(t) \/ DecideRepaid(t) \/ ProfileScore(t)
  \/ ReadFlag(t) \/ WriteFlag(t) \/ ClearLock(t)
  \/ ViewChain(t) \/ Enrich(t) \/ Unlock(t)
  \/ Vet(t) \/ Commit(t)
  \/ SendMessage(t)
  \/ ScanScores(t) \/ SaveSyncBlock(t) \/ ScanLoans(t)
  \/ Verdict(t) \/ BlacklistLinked(t)
  \/ ReadListed(t) \/ DecideWhitelist(t) \/ HubWhitelistTx(t) \/ ReportWhitelisted(t)
  \/ SpokeListed(t) \/ ClearSpoke(t) \/ Revert(t)

Deliver(m) == lzReceive(m) /\ UNCHANGED <<chainVars, job, failures>>

Next ==
  \/ \E t \in Threads :
       \/ t # Scheduler /\ WebRequest(t)
       \/ SyncBatch(t)
       \/ \E m \in OpenMarkets, w \in Wallets : Liquidate(m, w, t)
       \/ AgentStep(t)
       \/ Fail(t) \/ WhitelistFallback(t)
  \/ \E m \in Messages : Deliver(m)

Spec == Init /\ [][Next]_vars

\* LayerZero delivers, threads run, and the scheduler comes round every hour.
Fairness ==
  /\ \A m \in Messages : WF_vars(Deliver(m))
  /\ \A t \in Threads : WF_vars(AgentStep(t))
  /\ WF_vars(SyncBatch(Scheduler))

FairSpec == Spec /\ Fairness

-----------------------------------------------------------------------------
(* Properties.                                                             *)

Holds(w) == {m \in Markets : loan[m][w]}

(* Once everything the agents started is done and delivered, and nothing   *)
(* failed, a hub loan closes every spoke to its borrower: a lock or a      *)
(* blacklist entry.                                                        *)
HubLoanLocksSpokes ==
  Settled /\ failures = 0 => \A w \in Wallets : loan[Hub][w] => \A s \in Spokes : ~SpokeAccepts(s, w)

(* The other way round: a spoke loan closes the hub to its borrower,       *)
(* whichever of the syncs, repairs and liquidations around it came last,   *)
(* if only because the profile's uint8 loan counter is used up.            *)
SpokeLoanLocksHub ==
  Settled => \A w \in Wallets : Holds(w) \cap Spokes # {} =>
               ~HubAccepts(w) \/ profiles[w].totalLoans = MaxUint8

(* A borrower who lets the messages arrive before the next loan is never   *)
(* in debt on the hub and on a spoke at once.                              *)
HubExclusive == \A w \in Wallets : loan[Hub][w] => Holds(w) = {Hub}

(* A chain blacklists nobody who was not liquidated or linked to someone   *)
(* who was, and a whitelisting that reports success is complete, although  *)
(* a step of it or of the liquidation failed, and although the DEFAULTs of *)
(* other wallets are under way: no message brings the entry back.  (Those  *)
(* of the wallet itself may, and make it shunned: see crossed.)            *)
ShunnedForCause ==
  \A w \in Wallets \ shunned : Settled =>
    ~blacklisted[w] /\ \A s \in Spokes : ~defaultBlacklist[s][w]

(* Unless a step failed, it also takes back the default's score of 310 on  *)
(* every spoke, from whoever has a profile to take a score from.           *)
ScoreRestored ==
  \A w \in Wallets \ shunned : Settled /\ failures = 0 /\ profiles[w].exists =>
    \A s \in Spokes : spokeScores[s][w] # 310

(* No wallet ever owes on two chains.                                      *)
NoDoubleBorrow == \A w \in Wallets : Cardinality(Holds(w)) <= 1

(* Nobody lends to a wallet that was liquidated and not whitelisted since. *)
DefaulterStaysOut ==
  [][\A w \in shunned : Holds(w)' \subseteq Holds(w)]_vars

(* The spokes come to lock, and to stay locked for, a hub loan that stays. *)
EventuallyLocked ==
  \A w \in Wallets, s \in Spokes :
    <>[](loan[Hub][w]) => <>[](loanActiveMirror[s][w])

(* A wallet that has borrowed on the hub and owes nothing any more gets    *)
(* back every spoke, whatever was lost, repeated or reordered before.      *)
EventuallyUnlocked ==
  \A w \in Wallets, s \in Spokes :
    <>[](w \in touched /\ Holds(w) = {}) => <>[](~loanActiveMirror[s][w])

(* A score that stays on the hub comes to every spoke.                     *)
ScoreArrives ==
  \A w \in Wallets, s \in Spokes, sc \in Scores :
    <>[](profiles[w].score = sc) => <>[](spokeScores[s][w] = sc)
=============================================================================
