---------------------------- MODULE MCCrossChain ----------------------------
(* The hub with one or two spokes, in the order of dst_chain_eids().       *)
EXTENDS CrossChain

CONSTANTS w1, w2, hub, arbitrum, base, scheduler, api

OneSpoke  == <<arbitrum>>
TwoSpokes == <<arbitrum, base>>

\* The second wallet is there to be linked to the first, and never borrows.
\* Bound: three messages in flight, two once a step has failed.
OneBorrower ==
  /\ \A m \in Markets : ~loan[m][w2]
  /\ Cardinality({m \in Messages : inFlight[m] > 0}) <= 3 - failures
=============================================================================
