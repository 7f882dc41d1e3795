------------------------------ MODULE ScoreFlow ------------------------------
(***************************************************************************)
(* The Your-account tab: the score run with its stream, the wait for the   *)
(* bank (Reclaim), the profile loads, and the routes behind them.          *)
(*                                                                         *)
(* Nothing the tab starts is ever aborted: a stream, a poll loop or a load *)
(* whose panel is gone goes on and calls its handlers when it ends.  A     *)
(* stream is also the server's part of the run: it scores, then records    *)
(* the result in four steps, each of which may fail by itself.             *)
(***************************************************************************)
EXTENDS Integers, Sequences, FiniteSets

CONSTANTS
  Wallets, NoWallet,
  Results,       \* scores a run can give
  Floor,         \* a score must be above it for the underwriter
  MaxClicks,     \* bound: clicks that start or leave something
  MaxRuns,       \* bound: score runs
  MaxOutside     \* bound: changes by agents, other routes and reloads

VARIABLES
  address,       \* the connected wallet
  tab,           \* state of YourAccountTab
  tasks,         \* streams, poll loops and profile loads
  chain,         \* chain[w]: score on the hub, 0 without a profile
  cached,        \* cached[w]: account_profiles.cred_score, 0 without a row
  latest,        \* latest[w]: score of the newest score_runs row, 0 for none
  sessions,      \* Reclaim sessions of the scoring service
  runs, clicks, outside,   \* counters of the bounds
  marks          \* history: what happened that the properties except

scoreVars == <<address, tab, tasks, chain, cached, latest, sessions, runs, clicks, outside, marks>>

FreshTab == [phase |-> "loading", view |-> "dashboard", known |-> FALSE,
             session |-> 0, bank |-> FALSE, aborted |-> FALSE]

Of(kind) == {k \in tasks : k.kind = kind}

\* What the tab still waits for, of a score run.
Live == {k \in tasks : k.kind = "poll" \/ (k.kind = "run" /\ k.here)}

\* fetchProfile, called when the tab opens or by handleStreamComplete.
Load(w, from) == [kind |-> "load", wallet |-> w, from |-> from, pc |-> "asked", read |-> 0, known |-> FALSE]

ScoreInit ==
  /\ address = CHOOSE w \in Wallets : TRUE
  /\ tab = FreshTab
  /\ tasks = {Load(address, "open")}
  /\ chain = [w \in Wallets |-> 0] /\ cached = [w \in Wallets |-> 0]
  /\ latest = [w \in Wallets |-> 0] /\ sessions = {}
  /\ runs = 0 /\ clicks = 0 /\ outside = 0 /\ marks = {}

Click   == clicks < MaxClicks /\ clicks' = clicks + 1
Outside == outside < MaxOutside /\ outside' = outside + 1

-----------------------------------------------------------------------------
(* Rendering.  ScoringLiveView starts one run each time it is mounted.     *)

Mounted(t, w) == w # NoWallet /\ t.phase \in {"empty", "complete"} /\ t.view = "calculating"

Run(t, w) == [kind |-> "run", wallet |-> w, bank |-> t.bank, session |-> t.session,
              pc |-> "scoring", score |-> 0, here |-> TRUE]

\* The new state t is rendered for wallet w; a new key remounts the view.
Render(t, w, others, newKey) ==
  /\ tab' = t
  /\ IF Mounted(t, w) /\ (newKey \/ ~Mounted(tab, address))
     THEN /\ runs < MaxRuns /\ runs' = runs + 1
          /\ tasks' = others \cup {Run(t, w)}
     ELSE runs' = runs /\ tasks' = others

Verified(id) == \E s \in sessions : s.id = id /\ s.verified

Store == <<chain, cached, latest, sessions>>

-----------------------------------------------------------------------------
(* The user.                                                               *)

\* The wallet is switched or disconnected: the effect loads the new profile.
SwitchWallet(w) ==
  /\ Click /\ w # address /\ address' = w
  /\ Render(IF w = NoWallet THEN [tab EXCEPT !.phase = "empty"] ELSE tab, w,
            IF w = NoWallet THEN tasks ELSE tasks \cup {Load(w, "open")}, FALSE)
  /\ marks' = marks \cup {"left"}
     \cup (IF \E k \in Of("load") : k.wallet = w THEN {"overlap"} ELSE {})
  /\ UNCHANGED <<Store, outside>>

\* The chooser, and "Add bank" of the dashboard.
beginCalculation(bank) ==
  /\ Click /\ address # NoWallet
  /\ \/ tab.phase \in {"empty", "complete"} /\ tab.view = "choose"
     \/ tab.phase = "complete" /\ tab.view = "dashboard" /\ bank
  /\ Render([tab EXCEPT !.aborted = FALSE, !.bank = bank, !.session = 0, !.view = "calculating"],
            address, tasks, TRUE)
  /\ UNCHANGED <<address, Store, outside, marks>>

cancelScoreFlow ==
  /\ Click /\ address # NoWallet
  /\ \/ tab.phase = "complete" /\ tab.view \in {"choose", "calculating"}
     \/ tab.phase \in {"empty", "complete"} /\ tab.view = "reclaim"
  /\ tab' = [tab EXCEPT !.aborted = TRUE, !.session = 0, !.bank = FALSE,
                        !.view = IF tab.phase = "empty" THEN "choose" ELSE "dashboard"]
  /\ marks' = marks \cup {"left"}
  /\ UNCHANGED <<address, tasks, Store, runs, outside>>

\* "Back to dashboard" and "Try again" of the error panel.
goToDashboard ==
  /\ Click /\ tab.phase = "error"
  /\ tab' = [tab EXCEPT !.aborted = TRUE, !.session = 0, !.bank = FALSE,
                        !.phase = IF tab.known THEN "complete" ELSE "empty",
                        !.view = IF tab.known THEN "dashboard" ELSE "choose"]
  /\ UNCHANGED <<address, tasks, Store, runs, outside, marks>>

retryAfterError ==
  /\ Click /\ tab.phase = "error"
  /\ tab' = [tab EXCEPT !.phase = IF tab.known THEN "complete" ELSE "empty", !.view = "choose"]
  /\ UNCHANGED <<address, tasks, Store, runs, outside, marks>>

\* "Continue" after a result, "Recalculate" of the dashboard.
Navigate ==
  /\ tab.phase = "complete"
  /\ \/ tab.view = "result"    /\ tab' = [tab EXCEPT !.view = "dashboard"]
     \/ tab.view = "dashboard" /\ tab' = [tab EXCEPT !.view = "choose"]
  /\ UNCHANGED <<address, tasks, Store, runs, clicks, outside, marks>>

\* The page is closed, whatever the guard asks, and opened again.  A stream
\* whose result was not yet forwarded fails at its next enqueue and records
\* nothing; a later one finishes its recording without a reader.
Reload ==
  /\ Outside /\ address # NoWallet
  /\ tab' = FreshTab
  /\ tasks' = {[k EXCEPT !.here = FALSE] :
                 k \in {r \in Of("run") : r.pc \in {"scored", "inserted", "upserted", "minted"}}}
              \cup {Load(address, "open")}
              \cup {k \in Of("load") : k.pc = "read"}
  /\ marks' = marks \cup {"lost"}
  /\ UNCHANGED <<address, Store, runs, clicks>>

-----------------------------------------------------------------------------
(* GET /api/profile and loadProfile.                                       *)

Advance(k, new) == tasks' = (tasks \ {k}) \cup {new}

\* The route reads the chain; when the node does not answer it goes on as if
\* there were no profile.
ReadChain(k) ==
  /\ k.kind = "load" /\ k.pc = "asked"
  /\ \/ Advance(k, [k EXCEPT !.pc = "read", !.read = chain[k.wallet]]) /\ marks' = marks
     \/ Advance(k, [k EXCEPT !.pc = "read"]) /\ marks' = marks \cup {"lost"}
  /\ UNCHANGED <<address, tab, Store, runs, clicks, outside>>

Known(w, read, row) == row # 0 \/ latest[w] # 0 \/ read # 0

\* The route writes the score it read over an existing row.
SyncRow(k) ==
  /\ k.kind = "load" /\ k.pc = "read"
  /\ cached' = [cached EXCEPT ![k.wallet] = IF @ # 0 /\ k.read # 0 THEN k.read ELSE @]
  /\ Advance(k, [k EXCEPT !.pc = "answered", !.known = Known(k.wallet, k.read, cached[k.wallet])])
  /\ UNCHANGED <<address, tab, chain, latest, sessions, runs, clicks, outside, marks>>

\* The answer is shown whatever wallet is connected by now.
loadProfile(k) ==
  /\ k.kind = "load" /\ k.pc = "answered"
  /\ Render([tab EXCEPT !.known = k.known, !.phase = IF k.known THEN "complete" ELSE "empty",
                        !.view = IF k.known THEN @ ELSE "choose"],
            address, tasks \ {k}, FALSE)
  /\ marks' = IF k.known \/ Live = {} THEN marks ELSE marks \cup {"left"}
  /\ UNCHANGED <<address, Store, clicks, outside>>

\* A failed load shows the error panel when it was the tab's own.
LoadFails(k) ==
  /\ k.kind = "load"
  /\ tasks' = tasks \ {k}
  /\ tab' = IF k.from = "open" THEN [tab EXCEPT !.phase = "error"] ELSE tab
  /\ marks' = marks \cup {"lost"} \cup (IF k.from = "open" /\ Live # {} THEN {"left"} ELSE {})
  /\ UNCHANGED <<address, Store, runs, clicks, outside>>

-----------------------------------------------------------------------------
(* POST /api/score/stream and finalizeCompleteScoreRun.                    *)

\* A bank run without a session opens one in place of the wallet's pending ones.
create_session(k) ==
  LET id == CHOOSE n \in 1..MaxRuns + 1 :
              n \notin {s.id : s \in sessions} \cup {tab.session} \cup {t.session : t \in Live}
  IN  /\ k.bank /\ k.session = 0
      /\ sessions' = {s \in sessions : s.wallet = k.wallet => s.verified}
                     \cup {[id |-> id, wallet |-> k.wallet, verified |-> FALSE]}
      /\ Advance(k, [k EXCEPT !.pc = "awaiting", !.session = id])

\* A session that is unknown or another wallet's is an error.
get_session(k) == {s \in sessions : s.id = k.session /\ s.wallet = k.wallet}

\* The scoring service answers with a score, asks for the bank, or fails; the
\* connection may break, which no handler hears of.
Scoring(k) ==
  /\ k.kind = "run" /\ k.pc = "scoring"
  /\ \/ create_session(k)
     \/ /\ k.bank /\ \E s \in get_session(k) : ~s.verified
        /\ Advance(k, [k EXCEPT !.pc = "awaiting"]) /\ sessions' = sessions
     \/ /\ k.bank => \E s \in get_session(k) : s.verified
        /\ \E s \in Results : Advance(k, [k EXCEPT !.pc = "scored", !.score = s])
        /\ sessions' = sessions
     \/ Advance(k, [k EXCEPT !.pc = "error"]) /\ sessions' = sessions
     \/ tasks' = tasks \ {k} /\ sessions' = sessions
  /\ UNCHANGED <<address, tab, chain, cached, latest, runs, clicks, outside, marks>>

InsertRun(k) ==
  /\ k.kind = "run" /\ k.pc = "scored"
  /\ \E s \in {latest[k.wallet], k.score} : latest' = [latest EXCEPT ![k.wallet] = s]
  /\ Advance(k, [k EXCEPT !.pc = "inserted"])
  /\ UNCHANGED <<address, tab, chain, cached, sessions, runs, clicks, outside, marks>>

UpsertProfile(k) ==
  /\ k.kind = "run" /\ k.pc = "inserted"
  /\ \E s \in {cached[k.wallet], k.score} : cached' = [cached EXCEPT ![k.wallet] = s]
  /\ Advance(k, [k EXCEPT !.pc = "upserted"])
  /\ UNCHANGED <<address, tab, chain, latest, sessions, runs, clicks, outside, marks>>

\* The underwriter agent: an existing score is never lowered.
autoUnderwriteAfterScore(k) ==
  /\ k.kind = "run" /\ k.pc = "upserted"
  /\ LET best == IF chain[k.wallet] > k.score THEN chain[k.wallet] ELSE k.score
     IN  \/ /\ k.score > Floor
            /\ chain' = [chain EXCEPT ![k.wallet] = best]
            /\ Advance(k, [k EXCEPT !.pc = "minted", !.score = best])
         \/ chain' = chain /\ Advance(k, [k EXCEPT !.pc = "closed"])
  /\ UNCHANGED <<address, tab, cached, latest, sessions, runs, clicks, outside, marks>>

\* The score the agent answered goes into the row, if there is one.
RecordMint(k) ==
  /\ k.kind = "run" /\ k.pc = "minted"
  /\ \E s \in {cached[k.wallet], k.score} :
       cached' = [cached EXCEPT ![k.wallet] = IF @ = 0 THEN 0 ELSE s]
  /\ Advance(k, [k EXCEPT !.pc = "closed"])
  /\ UNCHANGED <<address, tab, chain, latest, sessions, runs, clicks, outside, marks>>

-----------------------------------------------------------------------------
(* The handlers of the stream and the poll loop.                           *)

\* Mutant: the profile is not loaded again after a run.
handleStreamComplete_noLoad(k) ==
  /\ k.kind = "run" /\ k.pc = "closed" /\ k.here
  /\ Render([tab EXCEPT !.view = "result", !.phase = "complete", !.session = 0], address,
            tasks \ {k}, FALSE)
  /\ UNCHANGED <<address, Store, clicks, outside, marks>>

handleStreamComplete(k) ==
  /\ k.kind = "run" /\ k.pc = "closed" /\ k.here
  /\ Render([tab EXCEPT !.view = "result", !.phase = "complete", !.session = 0], address,
            (tasks \ {k}) \cup {Load(k.wallet, "complete")}, FALSE)
  /\ marks' = IF \E l \in Of("load") : l.wallet = k.wallet THEN marks \cup {"overlap"} ELSE marks
  /\ UNCHANGED <<address, Store, clicks, outside>>

\* Nobody is left to hear of a recording that outlived its page.
Unheard(k) ==
  /\ k.kind = "run" /\ k.pc = "closed" /\ ~k.here
  /\ tasks' = tasks \ {k}
  /\ UNCHANGED <<address, tab, Store, runs, clicks, outside, marks>>

handleAwaitingReclaim(k) ==
  /\ k.kind = "run" /\ k.pc = "awaiting"
  /\ tab' = [tab EXCEPT !.session = k.session, !.view = "reclaim"]
  /\ tasks' = (tasks \ {k}) \cup {[kind |-> "poll", session |-> k.session, pc |-> "head"]}
  /\ UNCHANGED <<address, Store, runs, clicks, outside, marks>>

handleStreamError(k) ==
  /\ k.kind = "run" /\ k.pc = "error"
  /\ tab' = [tab EXCEPT !.phase = "error"] /\ tasks' = tasks \ {k}
  /\ UNCHANGED <<address, Store, runs, clicks, outside, marks>>

\* The head of the loop: the deadline and the abort flag.
PollHead(k) ==
  /\ k.kind = "poll" /\ k.pc = "head"
  /\ \/ ~tab.aborted /\ Advance(k, [k EXCEPT !.pc = "fetch"]) /\ tab' = tab
     \/ tab.aborted  /\ tasks' = tasks \ {k} /\ tab' = tab
     \/ ~tab.aborted /\ tasks' = tasks \ {k} /\ tab' = [tab EXCEPT !.phase = "error"]
  /\ UNCHANGED <<address, Store, runs, clicks, outside, marks>>

\* Mutant: the loop does not stop when the session is verified.
PollAnswer_goesOn(k) ==
  /\ k.kind = "poll" /\ k.pc = "fetch" /\ Verified(k.session)
  /\ Render([tab EXCEPT !.view = "calculating"], address,
            (tasks \ {k}) \cup {[k EXCEPT !.pc = "head"]}, TRUE)
  /\ UNCHANGED <<address, Store, clicks, outside, marks>>

\* After the sleep and the fetch the abort flag is not looked at again: a
\* verified session starts a run with the state the tab has by now.
PollAnswer(k) ==
  /\ k.kind = "poll" /\ k.pc = "fetch"
  /\ \/ /\ Verified(k.session)
        /\ Render([tab EXCEPT !.view = "calculating"], address, tasks \ {k}, TRUE)
     \/ /\ ~Verified(k.session)
        /\ Advance(k, [k EXCEPT !.pc = "head"]) /\ tab' = tab /\ runs' = runs
     \/ tasks' = tasks \ {k} /\ tab' = [tab EXCEPT !.phase = "error"] /\ runs' = runs
     \/ tasks' = tasks \ {k} /\ tab' = tab /\ runs' = runs
  /\ UNCHANGED <<address, Store, clicks, outside, marks>>

-----------------------------------------------------------------------------
(* Outside the page.                                                       *)

\* The proof of a portal whose session is gone goes to any pending session.
BankProof(s) ==
  /\ ~s.verified
  /\ sessions' = (sessions \ {s}) \cup {[s EXCEPT !.verified = TRUE]}
  /\ UNCHANGED <<address, tab, tasks, chain, cached, latest, runs, clicks, outside, marks>>

\* The monitor grades, a loan is repaid or a default lowers the score.
ChainMoves(w) ==
  /\ Outside /\ chain[w] # 0
  /\ \E s \in Results \ {chain[w]} : chain' = [chain EXCEPT ![w] = s]
  /\ marks' = marks \cup {"lost"}
  /\ UNCHANGED <<address, tab, tasks, cached, latest, sessions, runs, clicks>>

\* POST /api/reset deletes the cache, not the credential.
ResetCache(w) ==
  /\ Outside
  /\ tasks' = tasks \cup {[kind |-> "reset", wallet |-> w, script |-> FALSE,
                           todo |-> <<"account_profiles", "score_runs">>, failed |-> FALSE]}
  /\ UNCHANGED <<address, tab, Store, runs, clicks, marks>>

\* wipe-wallet-supabase.js does so, too, table by table as it counted them.
WipeWallet(w) ==
  /\ Outside
  /\ LET Rows(table) == IF table = "score_runs" THEN latest[w] # 0 ELSE cached[w] # 0
     IN  tasks' = tasks \cup {[kind |-> "reset", wallet |-> w, script |-> TRUE, failed |-> FALSE,
                              todo |-> SelectSeq(<<"score_runs", "account_profiles">>, Rows)]}
  /\ UNCHANGED <<address, tab, Store, runs, clicks, marks>>

\* A failed deletion ends the script; the route tries the other table.
deleteRows(k) ==
  /\ k.kind = "reset" /\ k.todo # <<>>
  /\ \/ /\ IF Head(k.todo) = "score_runs"
           THEN latest' = [latest EXCEPT ![k.wallet] = 0] /\ cached' = cached
           ELSE cached' = [cached EXCEPT ![k.wallet] = 0] /\ latest' = latest
        /\ Advance(k, [k EXCEPT !.todo = Tail(@)])
     \/ /\ IF k.script THEN tasks' = tasks \ {k}
           ELSE Advance(k, [k EXCEPT !.todo = Tail(@), !.failed = TRUE])
        /\ UNCHANGED <<cached, latest>>
  /\ UNCHANGED <<address, tab, chain, sessions, runs, clicks, outside, marks>>

\* The scoring service, which may be down, forgets the wallet's sessions.
resetReclaim(k) ==
  /\ k.kind = "reset" /\ k.todo = <<>>
  /\ tasks' = tasks \ {k}
  /\ \/ ~k.failed /\ sessions' = {s \in sessions : s.wallet # k.wallet}
     \/ sessions' = sessions
  /\ marks' = marks \cup {"reset"}
  /\ UNCHANGED <<address, tab, chain, cached, latest, runs, clicks, outside>>

\* POST /api/mint underwrites the cached snapshot, without the page.
MintCached(w) ==
  /\ Outside /\ cached[w] # 0
  /\ tasks' = tasks \cup {[kind |-> "run", wallet |-> w, bank |-> FALSE, session |-> 0,
                           pc |-> "upserted", score |-> cached[w], here |-> FALSE]}
  /\ marks' = marks \cup {"lost"}
  /\ UNCHANGED <<address, tab, Store, runs, clicks>>

ScoreNext ==
  \/ \E w \in Wallets \cup {NoWallet} : SwitchWallet(w)
  \/ \E b \in BOOLEAN : beginCalculation(b)
  \/ cancelScoreFlow \/ goToDashboard \/ retryAfterError \/ Navigate \/ Reload
  \/ \E k \in tasks :
       \/ ReadChain(k) \/ SyncRow(k) \/ loadProfile(k) \/ LoadFails(k)
       \/ Scoring(k) \/ InsertRun(k) \/ UpsertProfile(k)
       \/ autoUnderwriteAfterScore(k) \/ RecordMint(k)
       \/ handleStreamComplete(k) \/ Unheard(k) \/ handleAwaitingReclaim(k)
       \/ handleStreamError(k) \/ PollHead(k) \/ PollAnswer(k)
  \/ \E s \in sessions : BankProof(s)
  \/ \E w \in Wallets : ChainMoves(w) \/ ResetCache(w) \/ WipeWallet(w) \/ MintCached(w)
  \/ \E k \in Of("reset") : deleteRows(k) \/ resetReclaim(k)

-----------------------------------------------------------------------------
(* Properties.                                                             *)

\* Nothing aborts a stream or a poll loop, yet the tab never has two of them
\* as long as the user has not cancelled or switched the wallet, and no load
\* has thrown the tab back to the start; and a run after a bank login carries
\* the session of its wallet that was verified, unless sessions were reset
\* (YourAccountTab, ScoringLiveView, scoring_api.py).
OneRunUncancelled ==
  "left" \notin marks =>
    /\ Cardinality(Live) <= 1
    /\ "reset" \notin marks =>
         \A k \in Of("run") :
           k.session # 0 /\ k.pc = "scoring" => k.bank /\ \E s \in get_session(k) : s.verified

\* At rest the cached score is the one on the chain, whichever of the four
\* recording steps of a run failed: the load that follows every run repairs
\* the row.  Excepted are histories in which nobody loads after the last
\* change: a lost load or page, a change by somebody else, two loads at once
\* (api/profile GET, finalizeCompleteScoreRun).
HealedAtRest ==
  tasks = {} /\ marks \cap {"lost", "overlap"} = {} =>
    \A w \in Wallets : chain[w] # 0 /\ cached[w] # 0 => cached[w] = chain[w]
=============================================================================
