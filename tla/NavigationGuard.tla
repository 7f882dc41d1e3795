---------------------------- MODULE NavigationGuard ----------------------------
(***************************************************************************)
(* The shell of the page: the tabs, the place it remembers, and the guard  *)
(* that asks before a score flow is left (AppShell, ScoreFlowGuardContext, *)
(* useScoreFlowNavigationGuard) in the browser's history.                  *)
(*                                                                         *)
(* Entry 0 of the history is another document.  A flow is live from the    *)
(* render that shows it; the guard is armed by effects, which come later.  *)
(* history.back() only requests a traversal, which comes later still.      *)
(***************************************************************************)
EXTENDS Integers

CONSTANTS MaxNavs,      \* bound: what the user does
          MaxEntries    \* bound: entries of the history

VARIABLES
  place, saved,         \* the tab shown, and the one in localStorage
  live, armed,          \* a score flow in progress; the hook's effects for it
  scoringActive,        \* what the guard's context believes
  pendingNav,           \* what waits for the dialog's answer: "none", "back" or a tab
  pos, top, pushed,     \* the history, and historyPushedRef
  traversals,           \* calls of history.back() that are under way
  asked,                \* history: the user agreed to leave, since the effects
  navs                  \* counter of the bound

navVars == <<place, saved, live, armed, scoringActive, pendingNav, pos, top, pushed, traversals,
             asked, navs>>

APP_TABS == {"account", "loans", "agents", "prep-wallet", "test-default"}

NavInit ==
  /\ place = "account" /\ saved = "account"
  /\ live = FALSE /\ armed = FALSE /\ scoringActive = FALSE /\ pendingNav = "none"
  /\ pos = 1 /\ top = 1 /\ pushed = FALSE /\ traversals = 0 /\ asked = FALSE /\ navs = 0

User == navs < MaxNavs /\ navs' = navs + 1

\* localStorage may be full or denied.
writeStorage(next) == saved' \in {saved, next}

-----------------------------------------------------------------------------
(* The flow in the account tab, and the hook's effects.                    *)

FlowBegins ==
  /\ User /\ place = "account" /\ ~live /\ live' = TRUE
  /\ UNCHANGED <<place, saved, armed, scoringActive, pendingNav, pos, top, pushed, traversals, asked>>

FlowEnds ==
  /\ live /\ live' = FALSE
  /\ UNCHANGED <<place, saved, armed, scoringActive, pendingNav, pos, top, pushed, traversals,
                 asked, navs>>

\* A new entry takes the place of those ahead.
pushState == pos < MaxEntries /\ pos' = pos + 1 /\ top' = pos + 1

Arm ==
  /\ live /\ ~armed
  /\ armed' = TRUE /\ scoringActive' = TRUE /\ asked' = FALSE
  /\ IF pushed THEN UNCHANGED <<pos, top>> ELSE pushState
  /\ pushed' = TRUE
  /\ UNCHANGED <<place, saved, live, pendingNav, traversals, navs>>

Disarm ==
  /\ ~live /\ armed
  /\ armed' = FALSE /\ scoringActive' = FALSE /\ pushed' = FALSE
  /\ UNCHANGED <<place, saved, live, pendingNav, pos, top, traversals, asked, navs>>

-----------------------------------------------------------------------------
(* Navigation.                                                             *)

\* The tab of the shell; the account tab unmounts with its effects.
setTab(next) ==
  /\ place' = next /\ writeStorage(next)
  /\ IF place = "account" THEN live' = FALSE /\ armed' = FALSE /\ pushed' = FALSE
     ELSE UNCHANGED <<live, armed, pushed>>

\* What is done when it may be done; t traversals were under way.
Go(what, t) ==
  IF what = "back"
  THEN pushed' = FALSE /\ traversals' = t + 1 /\ UNCHANGED <<place, saved, live, armed>>
  ELSE setTab(what) /\ traversals' = t

Ask(what, t) ==
  pendingNav' = what /\ traversals' = t /\ UNCHANGED <<place, saved, live, armed, pushed>>

\* Mutant: the memoised callback knows the state of its first render only.
requestNavigation_stale(what, t) == Go(what, t) /\ pendingNav' = pendingNav

requestNavigation(what, t) ==
  IF scoringActive THEN Ask(what, t) ELSE Go(what, t) /\ pendingNav' = pendingNav

\* A button of the navigation bar.
changeTab(next) ==
  /\ User /\ next # place
  /\ requestNavigation(next, traversals)
  /\ scoringActive' = (scoringActive /\ place' = place)
  /\ UNCHANGED <<pos, top, asked>>

\* The page arrives at entry p of its own; the guard stays where it was.
onPopState(p, t) ==
  /\ IF armed
     THEN /\ p < MaxEntries /\ pos' = p + 1 /\ top' = p + 1
          /\ requestNavigation("back", t)
     ELSE /\ pos' = p /\ traversals' = t
          /\ UNCHANGED <<place, saved, live, armed, pendingNav, top, pushed>>
  /\ UNCHANGED <<scoringActive, asked>>

\* The browser's buttons.
Traverse(p) ==
  /\ User /\ p \in {pos - 1, pos + 1} \cap 1..top
  /\ onPopState(p, traversals)

\* A requested traversal takes place.
Back ==
  /\ traversals > 0 /\ pos > 1
  /\ onPopState(pos - 1, traversals - 1) /\ navs' = navs

\* The page is left, for the document before it or for a reload, and opened
\* again; an armed guard has the browser ask first.
Reload ==
  /\ \/ User
     \/ traversals > 0 /\ pos = 1 /\ navs' = navs
  /\ place' = saved /\ asked' = armed
  /\ live' = FALSE /\ armed' = FALSE /\ scoringActive' = FALSE /\ pushed' = FALSE
  /\ pendingNav' = "none" /\ traversals' = 0
  /\ UNCHANGED <<saved, pos, top>>

-----------------------------------------------------------------------------
(* The dialog.                                                             *)

Stay ==
  /\ pendingNav # "none" /\ pendingNav' = "none"
  /\ UNCHANGED <<place, saved, live, armed, scoringActive, pos, top, pushed, traversals, asked, navs>>

confirmLeave ==
  /\ pendingNav # "none" /\ pendingNav' = "none"
  /\ Go(pendingNav, traversals)
  /\ scoringActive' = FALSE /\ asked' = TRUE
  /\ UNCHANGED <<pos, top, navs>>

NavNext ==
  \/ FlowBegins \/ FlowEnds \/ Arm \/ Disarm
  \/ (\E next \in APP_TABS : changeTab(next)) \/ (\E p \in 1..MaxEntries : Traverse(p))
  \/ Back \/ Reload \/ Stay \/ confirmLeave

-----------------------------------------------------------------------------
(* Properties.                                                             *)

\* A score flow for which the guard is armed is not left unless the user has
\* agreed, in whatever order clicks, browser buttons and requested traversals
\* come; and there is always an entry of this page to go back to, so that the
\* next Back is caught, too (requestNavigation, onPopState).
LeaveAsked ==
  [][armed /\ live => /\ place' = place \/ asked'
                     /\ pos' > 1]_navVars
=============================================================================
