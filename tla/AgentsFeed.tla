------------------------------ MODULE AgentsFeed ------------------------------
(***************************************************************************)
(* The Agents tab: the runs and log lines of the agents, pushed by the     *)
(* server over an event stream that reads Supabase on a timer, with a      *)
(* poll every two seconds once the stream has failed.  Neither timer waits *)
(* for the reads it started, and an answer is shown whatever wallet is     *)
(* connected and whatever was shown since.                                 *)
(***************************************************************************)
EXTENDS Integers, Sequences, FiniteSets

CONSTANTS
  Wallets, NoWallet,
  MaxChanges,    \* bound: changes of agent_runs and agent_log_lines
  MaxSwitches,   \* bound: switches of the wallet
  MaxFailures,   \* bound: failed reads, lost requests and broken streams
  MaxReads,      \* bound: reads under way when a timer starts another
  MaxWire        \* bound: messages of the stream on their way

VARIABLES
  viewer,        \* the connected wallet
  panel,         \* payload and badge shown
  feed,          \* the effect's stream or poll, with the server's end of it
  reads,         \* calls of loadAgentRuns under way
  log,           \* log[w]: version of the rows w sees; odd while a run is running
  changes, switches, failures   \* counters of the bounds

feedVars == <<viewer, panel, feed, reads, log, changes, switches, failures>>

\* Nothing read: an answer with an error in it is shown like this, too.
Blank == [wallet |-> NoWallet, runs |-> 0, lines |-> 0, at |-> 0]

Read(via, w) == [via |-> via, wallet |-> w, pc |-> "runs", payload |-> Blank]

\* The effect of the tab for wallet w: one load, and an event stream whose
\* server end reads at once.
Open(w, others) ==
  IF w = NoWallet
  THEN feed' = [mode |-> "none", wallet |-> w, last |-> Blank, wire |-> << >>] /\ reads' = others
  ELSE /\ feed' = [mode |-> "stream", wallet |-> w, last |-> Blank, wire |-> << >>]
       /\ reads' = others \cup {Read("load", w), Read("push", w)}

FeedInit ==
  /\ viewer = NoWallet /\ panel = [shown |-> Blank, badge |-> "connecting"]
  /\ feed = [mode |-> "none", wallet |-> NoWallet, last |-> Blank, wire |-> << >>]
  /\ reads = {} /\ log = [w \in Wallets |-> 0]
  /\ changes = 0 /\ switches = 0 /\ failures = 0

Failure == failures < MaxFailures /\ failures' = failures + 1

\* The wallet is switched: the clean-up closes the stream (its pushes end) and
\* the interval; loads under way are not cancelled.
SwitchViewer(w) ==
  /\ w # viewer /\ switches < MaxSwitches /\ switches' = switches + 1
  /\ viewer' = w
  /\ Open(w, {k \in reads : k.via = "load"})
  /\ panel' = IF w = NoWallet THEN panel ELSE [panel EXCEPT !.badge = "connecting"]
  /\ UNCHANGED <<log, changes, failures>>

\* Either interval: the server's push every 1.5 s, or the poll every 2 s.
Tick ==
  /\ feed.mode # "none" /\ Cardinality(reads) < MaxReads
  /\ reads' = reads \cup {Read(IF feed.mode = "stream" THEN "push" ELSE "load", feed.wallet)}
  /\ UNCHANGED <<viewer, panel, feed, log, changes, switches, failures>>

-----------------------------------------------------------------------------
(* loadAgentRuns reads the runs, then the lines of the latest of them.     *)

Advance(k, new) == reads' = (reads \ {k}) \cup {new}

loadAgentRuns(k) ==
  /\ \/ /\ k.pc = "runs"
        /\ Advance(k, [k EXCEPT !.pc = "lines", !.payload.wallet = k.wallet,
                                !.payload.runs = log[k.wallet]])
     \/ /\ k.pc = "lines"
        /\ Advance(k, [k EXCEPT !.pc = "answer", !.payload.lines = log[k.wallet]])
  /\ UNCHANGED <<viewer, panel, feed, log, changes, switches, failures>>

\* The badge after a load: an earlier failure becomes "poll", even beside a stream.
Recovered(badge) == IF badge = "error" THEN "poll" ELSE badge

\* loadOnce: whatever the route answers is shown, its error as an empty payload.
loadOnce(k) ==
  /\ k.via = "load"
  /\ \/ /\ k.pc = "answer" /\ failures' = failures
        /\ panel' = [shown |-> k.payload, badge |-> Recovered(panel.badge)]
     \/ Failure /\ panel' = [shown |-> Blank, badge |-> Recovered(panel.badge)]
     \/ Failure /\ panel' = [panel EXCEPT !.badge = "error"]
  /\ reads' = reads \ {k}
  /\ UNCHANGED <<viewer, feed, log, changes, switches>>

hasRunning(p) == p.runs % 2 = 1

\* Mutant: the payload is not stamped, and equal ones are sent once.
Stamped_never(p, last) == p

\* The time of the payload; two values do, as it is compared with the last only.
Stamped(p, last) == [p EXCEPT !.at = 1 - last.at]

\* push: the payload goes out unless it is the last one again.
push(k) ==
  /\ k.via = "push" /\ k.pc = "answer" /\ Len(feed.wire) < MaxWire
  /\ LET p == Stamped(k.payload, feed.last)
     IN  feed' = IF hasRunning(p) \/ p # feed.last
                 THEN [feed EXCEPT !.last = p, !.wire = Append(@, p)] ELSE feed
  /\ reads' = reads \ {k}
  /\ UNCHANGED <<viewer, panel, log, changes, switches, failures>>

\* es.onopen and es.onmessage.
onopen ==
  /\ feed.mode = "stream" /\ panel.badge # "live"
  /\ panel' = [panel EXCEPT !.badge = "live"]
  /\ UNCHANGED <<viewer, feed, reads, log, changes, switches, failures>>

onmessage ==
  /\ feed.mode = "stream" /\ feed.wire # << >>
  /\ panel' = [shown |-> [Head(feed.wire) EXCEPT !.at = 0], badge |-> "live"]
  /\ feed' = [feed EXCEPT !.wire = Tail(@)]
  /\ UNCHANGED <<viewer, reads, log, changes, switches, failures>>

\* The connection breaks, or the server reports a failed read as an event
\* named "error", which the browser hands to the same handler.
onerror ==
  /\ feed.mode = "stream" /\ Failure
  /\ feed' = [feed EXCEPT !.mode = "poll", !.wire = << >>]
  /\ reads' = {k \in reads : k.via = "load"}
  /\ panel' = [panel EXCEPT !.badge = "poll"]
  /\ UNCHANGED <<viewer, log, changes, switches>>

\* An agent starts a run, writes a line or finishes.
LogMoves(w) ==
  /\ changes < MaxChanges /\ changes' = changes + 1
  /\ log' = [log EXCEPT ![w] = @ + 1]
  /\ UNCHANGED <<viewer, panel, feed, reads, switches, failures>>

\* Progress of a read that stands at pc.
Answer(pc) == \E k \in reads : k.pc = pc /\ (loadAgentRuns(k) \/ loadOnce(k) \/ push(k))

Stages == {"runs", "lines", "answer"}

FeedNext ==
  \/ \E w \in Wallets \cup {NoWallet} : SwitchViewer(w)
  \/ Tick \/ (\E pc \in Stages : Answer(pc)) \/ onopen \/ onmessage \/ onerror
  \/ \E w \in Wallets : LogMoves(w)

Fresh ==
  viewer # NoWallet =>
    panel.shown = [wallet |-> viewer, runs |-> log[viewer], lines |-> log[viewer], at |-> 0]

\* When the rows, the wallet and the connection come to rest, the tab ends up
\* with the present rows of the connected wallet: the answers of an earlier
\* wallet, older answers that overtake newer ones, errors shown as an empty
\* feed and the fall from the stream to the poll are all made good by a later
\* timer (AgentsTab, api/agents/stream).
FeedHeals == <>[]Fresh
=============================================================================
