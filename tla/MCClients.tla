------------------------------- MODULE MCClients -------------------------------
\* A small instance of the five tabs: two wallets in different score tiers.
EXTENDS Clients

MCScoreOf == [w \in Wallets |-> IF w = "a" THEN 600 ELSE 800]

\* a's loan is liquidatable at any price up to 1500, b's at none of them.
MCLimitOf == [w \in Wallets |-> IF w = "a" THEN 1500 ELSE 0]

MCSteps == <<"arbitrum-activity", "base-activity", "base-aave", "arbitrum-aave", "morpho">>
=============================================================================
