------------------------- MODULE MCPortfolioMonitor -------------------------
(* The hub alone, with scheduler and API, and the hub with a spoke.        *)
EXTENDS PortfolioMonitor

CONSTANTS hub, arbitrum, scheduler, api

HubOnly     == <<hub>>
HubAndSpoke == <<hub, arbitrum>>

\* Bound: a second loan, or a move of the price beside a failure, only while the
\* servers have done nothing.
PairOrServed ==
  \/ \A p \in Servers : job[p] = IdleJob /\ grace[p] = Empty /\ warnings[p] = Empty
  \/ /\ \A m \in Markets : Len(loans[m]) <= 1
     /\ \A p \in Servers : DOMAIN grace[p] \subseteq {1}
     /\ mishaps + moves <= 1
=============================================================================
