---------------------------- MODULE MCOperator -----------------------------
(* One hub and one spoke, with all deployment scripts; a defaulter, a      *)
(* linked wallet and the zero address; three threads in two processes.     *)
EXTENDS Operator

CONSTANTS scheduler, route1, route2, repaid, default

AllScripts ==
  {"deploy", "finish_hub_deploy", "deploy_oapp", "redeploy_oapp", "deploy_score_engine",
   "wire_oracle", "grant_agent_roles", "deploy_spoke", "deploy_spoke_lending",
   "finish_spoke_lending", "finish_base_lending", "finish_base_wiring", "grant_spoke_agent",
   "sync_spoke_oracle", "wire_spokes", "sync_addresses"}

\* The scheduler has one thread that sends, the API has two.
MCProcess == [t \in Threads |-> IF t = scheduler THEN "scheduler" ELSE "api"]

Symmetry == Permutations({route1, route2}) \cup Permutations({repaid, default})
=============================================================================
