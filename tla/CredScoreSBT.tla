---------------------------- MODULE CredScoreSBT ----------------------------
(***************************************************************************)
(* The soulbound credit profile on the hub chain.  One profile per wallet, *)
(* plus the blacklist.  The actions are the contract's functions that the  *)
(* score engine (SCORER_ROLE), the lending contract and the agents         *)
(* (AGENT_ROLE) call; modules that compose them conjoin them.              *)
(* Sub-scores, timestamps, the IPFS hash and attestations are data nothing *)
(* on-chain reads back, and are left out.                                  *)
(***************************************************************************)
EXTENDS Integers

CONSTANTS
  Wallets,    \* borrower addresses
  MaxUint8    \* the largest value of the uint8 counters (255 in the code)

ASSUME SBTAssumption == MaxUint8 \in Nat \ {0}

VARIABLES
  profiles,      \* profiles[w], the zero record until minted
  blacklisted    \* blacklisted[w]

sbtVars == <<profiles, blacklisted>>

\* loanStatus: 0 never borrowed, 1 loan open, 2 repaid, 3 defaulted
Profile == [exists       : BOOLEAN,
            score        : Nat,
            loanStatus   : 0 .. 3,
            totalLoans   : 0 .. MaxUint8,
            defaultCount : 0 .. MaxUint8,
            loanActive   : BOOLEAN]

ZeroProfile == [exists |-> FALSE, score |-> 0, loanStatus |-> 0,
                totalLoans |-> 0, defaultCount |-> 0, loanActive |-> FALSE]

SBTTypeOK ==
  /\ profiles \in [Wallets -> Profile]
  /\ blacklisted \in [Wallets -> BOOLEAN]

SBTInit ==
  /\ profiles = [w \in Wallets |-> ZeroProfile]
  /\ blacklisted = [w \in Wallets |-> FALSE]

-----------------------------------------------------------------------------
FreshProfile(score) == [exists |-> TRUE, score |-> score, loanStatus |-> 0,
                        totalLoans |-> 0, defaultCount |-> 0, loanActive |-> FALSE]

\* Minting overwrites whatever the wallet's record held.
mintSBT(w, score) ==
  /\ ~profiles[w].exists
  /\ score \in 300 .. 850
  /\ profiles' = [profiles EXCEPT ![w] = FreshProfile(score)]
  /\ UNCHANGED blacklisted

\* The score's range is not checked here.
updateScore(w, score) ==
  /\ profiles[w].exists
  /\ profiles' = [profiles EXCEPT ![w].score = score]
  /\ UNCHANGED blacklisted

\* Mutant: the counter is not checked.
setLoanActive_unchecked(w) ==
  /\ profiles' = [profiles EXCEPT ![w].loanActive = TRUE,
                                  ![w].loanStatus = 1,
                                  ![w].totalLoans = @ + 1]
  /\ UNCHANGED blacklisted

\* No check that the wallet has a profile; totalLoans++ reverts at its limit.
setLoanActive(w) ==
  /\ profiles[w].totalLoans < MaxUint8
  /\ profiles' = [profiles EXCEPT ![w].loanActive = TRUE,
                                  ![w].loanStatus = 1,
                                  ![w].totalLoans = @ + 1]
  /\ UNCHANGED blacklisted

setLoanRepaid(w) ==
  /\ profiles' = [profiles EXCEPT ![w].loanActive = FALSE, ![w].loanStatus = 2]
  /\ UNCHANGED blacklisted

\* defaultCount++ reverts at its limit.
recordDefault(w) ==
  /\ profiles[w].defaultCount < MaxUint8
  /\ profiles' = [profiles EXCEPT ![w].loanActive = FALSE,
                                  ![w].loanStatus = 3,
                                  ![w].defaultCount = @ + 1]
  /\ UNCHANGED blacklisted

blacklistLinkedWallets(ws) ==
  /\ blacklisted' = [w \in Wallets |-> blacklisted[w] \/ w \in ws]
  /\ UNCHANGED profiles

removeFromBlacklist(w) ==
  /\ blacklisted[w]
  /\ blacklisted' = [blacklisted EXCEPT ![w] = FALSE]
  /\ UNCHANGED profiles

\* Mutant: the explicit entry stays.
whitelistWallet_defaultOnly(w) ==
  /\ profiles[w].exists
  /\ profiles' = [profiles EXCEPT ![w].defaultCount = 0]
  /\ UNCHANGED blacklisted

whitelistWallet(w) ==
  /\ profiles[w].exists
  /\ blacklisted' = [blacklisted EXCEPT ![w] = FALSE]
  /\ profiles' = [profiles EXCEPT
                    ![w].defaultCount = 0,
                    ![w].loanStatus = IF profiles[w].defaultCount > 0 /\ @ = 3 THEN 2 ELSE @]
=============================================================================
