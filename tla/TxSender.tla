------------------------------- MODULE TxSender -------------------------------
(***************************************************************************)
(* The agents' transaction sender (agents/tx_sender.py) on one chain.  The *)
(* processes and the operator's scripts share one account.  A process has  *)
(* a lock per chain, made on demand by whichever thread comes first, and a *)
(* dictionary of the next nonce; other processes know nothing of either.   *)
(***************************************************************************)
EXTENDS Naturals, Sequences, FiniteSets, SequencesExt

CONSTANTS
  Threads,      \* threads of the processes
  Process,      \* Process[t]: the process of thread t
  Payloads,     \* what they send
  max_retries,  \* 5 in the code
  MaxSends,     \* bound: calls of send_contract_tx and transactions of scripts
  MaxDrops      \* bound: transactions that nodes forget

VARIABLES
  mined,        \* what was executed, nonce after nonce
  pool,         \* pending transactions: [nonce, fn]
  chainLock,    \* chainLock[p]: the lock in the dictionary of p, 0 for none
  nextNonce,    \* nextNonce[p]: the tracked nonce, NoNonce for none
  sender,       \* sender[t]: the call of thread t
  sent,         \* history: sent[f] calls to send f
  drops         \* counter of the bound

txVars == <<mined, pool, chainLock, nextNonce, sender, sent, drops>>

Processes == {Process[t] : t \in Threads}
NoNonce == 0
NextOnChain == Len(mined) + 1      \* nonces count from 1 here, so that 0 is none

IdleSender == [pc |-> "idle", fn |-> "", lock |-> 0, attempt |-> 0, nonce |-> NoNonce]

TxInit ==
  /\ mined = <<>> /\ pool = {}
  /\ chainLock = [p \in Processes |-> 0] /\ nextNonce = [p \in Processes |-> NoNonce]
  /\ sender = [t \in Threads |-> IdleSender]
  /\ sent = [f \in Payloads |-> 0] /\ drops = 0

Calls == MapThenSumSet(LAMBDA f : sent[f], Payloads)

\* get_transaction_count(address, "pending"): the first nonce nobody uses.
PendingNonce ==
  CHOOSE n \in NextOnChain .. NextOnChain + Cardinality(pool) :
    /\ \A tx \in pool : tx.nonce # n
    /\ \A m \in NextOnChain .. n - 1 : \E tx \in pool : tx.nonce = m

-----------------------------------------------------------------------------
(* Entering and leaving send_contract_tx.                                  *)

At(t, pc) == sender[t].pc = pc
To(t, rec) == sender' = [sender EXCEPT ![t] = rec]

Call(t, f) ==
  /\ At(t, "idle") /\ Calls < MaxSends
  /\ sent' = [sent EXCEPT ![f] = @ + 1]
  /\ To(t, [IdleSender EXCEPT !.pc = "look", !.fn = f])
  /\ UNCHANGED <<mined, pool, chainLock, nextNonce, drops>>

\* _chain_lock: look, create, and read again.
LookUp(t) ==
  /\ At(t, "look")
  /\ To(t, [sender[t] EXCEPT !.pc = IF chainLock[Process[t]] = 0 THEN "create" ELSE "read"])
  /\ UNCHANGED <<mined, pool, chainLock, nextNonce, sent, drops>>

CreateLock(t) ==
  /\ At(t, "create")
  /\ chainLock' = [chainLock EXCEPT ![Process[t]] = @ + 1]
  /\ To(t, [sender[t] EXCEPT !.pc = "read"])
  /\ UNCHANGED <<mined, pool, nextNonce, sent, drops>>

ReadLock(t) ==
  /\ At(t, "read")
  /\ To(t, [sender[t] EXCEPT !.pc = "acquire", !.lock = chainLock[Process[t]]])
  /\ UNCHANGED <<mined, pool, chainLock, nextNonce, sent, drops>>

Acquire(t) ==
  /\ At(t, "acquire")
  /\ \A u \in Threads : Process[u] = Process[t] /\ sender[u].lock = sender[t].lock =>
       sender[u].pc \notin {"prepare", "send", "wait"}
  /\ To(t, [sender[t] EXCEPT !.pc = "prepare"])
  /\ UNCHANGED <<mined, pool, chainLock, nextNonce, sent, drops>>

Return(t) == To(t, IdleSender)

\* Any other exception ends the call; the transaction may be in the pool.
Raise(t) == Return(t) /\ UNCHANGED nextNonce

-----------------------------------------------------------------------------
(* One attempt.                                                            *)

Prepare(t) ==
  LET tracked == nextNonce[Process[t]]
      pending == PendingNonce
  IN  /\ At(t, "prepare")
      /\ \/ To(t, [sender[t] EXCEPT !.pc = "send",
                     !.nonce = IF tracked > pending THEN tracked ELSE pending])
         \/ Return(t)
      /\ UNCHANGED <<mined, pool, chainLock, nextNonce, sent, drops>>

\* A nonce error: the tracked nonce is forgotten, or becomes the one that the
\* error names, which is the account's; the last attempt raises.
Retry(t) ==
  /\ sender[t].attempt < max_retries - 1
  /\ To(t, [sender[t] EXCEPT !.pc = "prepare", !.attempt = @ + 1])
  /\ \E hint \in {NoNonce, NextOnChain} : nextNonce' = [nextNonce EXCEPT ![Process[t]] = hint]

NonceError(t) == Retry(t) \/ (sender[t].attempt = max_retries - 1 /\ Raise(t))

Taken(n) == n < NextOnChain \/ \E tx \in pool : tx.nonce = n

\* Mutant: an attempt without an answer is repeated, too.
Unanswered_repeated(t) == NonceError(t)

Unanswered(t) == Raise(t)

\* send_raw_transaction.  A taken nonce is refused ("too low", "already
\* known", "underpriced"), or the dearer transaction replaces the pending one;
\* the sequencer may refuse one that is ahead; the answer may be lost.
Send(t) ==
  LET n  == sender[t].nonce
      tx == [nonce |-> n, fn |-> sender[t].fn]
  IN  /\ At(t, "send")
      /\ \/ (Taken(n) \/ n > NextOnChain) /\ pool' = pool /\ NonceError(t)
         \/ /\ n >= NextOnChain
            /\ pool' = {other \in pool : other.nonce # n} \cup {tx}
            /\ \/ To(t, [sender[t] EXCEPT !.pc = "wait"]) /\ UNCHANGED nextNonce
               \/ Unanswered(t)
         \/ pool' = pool /\ Raise(t)
      /\ UNCHANGED <<mined, chainLock, sent, drops>>

\* The receipt: success, a revert, or none in time.
Receipt(t) ==
  LET n == sender[t].nonce IN
  /\ At(t, "wait")
  /\ \/ /\ n < NextOnChain /\ mined[n] = sender[t].fn
        /\ nextNonce' = [nextNonce EXCEPT ![Process[t]] = n + 1]
        /\ Return(t)
     \/ n < NextOnChain /\ mined[n] = sender[t].fn /\ Raise(t)
     \/ Unanswered(t)
  /\ UNCHANGED <<mined, pool, chainLock, sent, drops>>

-----------------------------------------------------------------------------
(* The chain, and a script of the operator's with the same key.            *)

Mine ==
  \E tx \in pool :
    /\ tx.nonce = NextOnChain
    /\ mined' = Append(mined, tx.fn) /\ pool' = pool \ {tx}
    /\ UNCHANGED <<chainLock, nextNonce, sender, sent, drops>>

Drop(tx) ==
  /\ drops < MaxDrops /\ drops' = drops + 1
  /\ pool' = pool \ {tx}
  /\ UNCHANGED <<mined, chainLock, nextNonce, sender, sent>>

ScriptSends(f) ==
  /\ Calls < MaxSends
  /\ sent' = [sent EXCEPT ![f] = @ + 1]
  /\ pool' = pool \cup {[nonce |-> PendingNonce, fn |-> f]}
  /\ UNCHANGED <<mined, chainLock, nextNonce, sender, drops>>

TxNext ==
  \/ \E t \in Threads :
       \/ LookUp(t) \/ CreateLock(t) \/ ReadLock(t) \/ Acquire(t)
       \/ Prepare(t) \/ Send(t) \/ Receipt(t)
       \/ \E f \in Payloads : Call(t, f)
  \/ Mine
  \/ \E tx \in pool : Drop(tx)
  \/ \E f \in Payloads : ScriptSends(f)

-----------------------------------------------------------------------------
(* Properties.                                                             *)

\* Whatever threads, processes and scripts race for nonces, and although two
\* threads may even hold two locks of one chain: no transaction is executed or
\* pending more often than it was asked for, and the tracked nonce is never
\* ahead of the account's, so that no gap stops the later ones
\* (send_contract_tx and its retries).
NoncesSound ==
  /\ \A f \in Payloads :
       Cardinality({n \in DOMAIN mined : mined[n] = f}) + Cardinality({tx \in pool : tx.fn = f})
         <= sent[f]
  /\ \A p \in Processes : nextNonce[p] <= NextOnChain
=============================================================================
