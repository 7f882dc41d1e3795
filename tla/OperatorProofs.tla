--------------------------- MODULE OperatorProofs ---------------------------
(***************************************************************************)
(* Proofs about the account that the agents and the operator's scripts     *)
(* share (TxSender) and about the scripts that clear blacklists (Pardons), *)
(* and the theorems that rest on DeploymentProofs, all as Operator         *)
(* composes them.                                                          *)
(***************************************************************************)
EXTENDS Operator, DeploymentProofs

-----------------------------------------------------------------------------
(* Counting.                                                               *)

\* A part of a finite set, and what one more or one less element does.
LEMMA CountPart ==
  ASSUME NEW S, IsFiniteSet(S), NEW T, T \subseteq S
  PROVE  /\ IsFiniteSet(T) /\ Cardinality(T) \in Nat /\ Cardinality(S) \in Nat
         /\ Cardinality(T) <= Cardinality(S)
  BY FS_Subset, FS_CardinalityType

LEMMA CountMore ==
  ASSUME NEW S, IsFiniteSet(S), NEW x, NEW T, T \subseteq S \cup {x}
  PROVE  /\ IsFiniteSet(T) /\ Cardinality(T) \in Nat /\ Cardinality(S) \in Nat
         /\ Cardinality(T) <= Cardinality(S) + 1
  <1>1. IsFiniteSet(S \cup {x}) /\ Cardinality(S \cup {x}) <= Cardinality(S) + 1
        /\ Cardinality(S) \in Nat
    BY SMTT(60), FS_AddElement, FS_CardinalityType
  <1>2. IsFiniteSet(T) /\ Cardinality(T) <= Cardinality(S \cup {x})
    BY <1>1, FS_Subset
  <1> QED BY <1>1, <1>2, FS_CardinalityType

LEMMA CountLess ==
  ASSUME NEW S, IsFiniteSet(S), NEW x \in S, NEW T, T \subseteq S \ {x}
  PROVE  /\ IsFiniteSet(T) /\ Cardinality(T) \in Nat /\ Cardinality(S) \in Nat
         /\ Cardinality(T) + 1 <= Cardinality(S)
  <1>1. IsFiniteSet(S \ {x}) /\ Cardinality(S \ {x}) = Cardinality(S) - 1
        /\ Cardinality(S) \in Nat
    BY FS_RemoveElement, FS_CardinalityType
  <1>2. IsFiniteSet(T) /\ Cardinality(T) <= Cardinality(S \ {x})
    BY <1>1, FS_Subset
  <1> QED BY <1>1, <1>2, FS_CardinalityType

\* The sender's module counts with the same operator.
LEMMA SameCardinality ==
  ASSUME NEW S
  PROVE  Tx!Cardinality(S) = Cardinality(S)
  BY Zenon DEF Tx!Cardinality, Cardinality

-----------------------------------------------------------------------------
(* The first nonce nobody uses.                                            *)

\* Among finitely many pending transactions there is a first free nonce, not
\* further than their number (get_transaction_count(address, "pending")).
LEMMA FreeNonce ==
  ASSUME NEW a \in Nat, NEW P, IsFiniteSet(P)
  PROVE  \E n \in a .. a + Cardinality(P) :
            /\ \A tx \in P : tx.nonce # n
            /\ \A m \in a .. n - 1 : \E tx \in P : tx.nonce = m
  <1> DEFINE Used == {tx.nonce : tx \in P}
             c == Cardinality(P)
             Full == {k \in Nat : \A m \in a .. a + k : m \in Used}
  <1>1. c \in Nat
    BY FS_CardinalityType
  <1>2. IsFiniteSet(Used) /\ Cardinality(Used) <= c
    <2> DEFINE g == [tx \in P |-> tx.nonce]
    <2>1. g \in Surjection(P, Used)
      BY DEF Surjection
    <2> HIDE DEF g, Used
    <2> QED BY <2>1, FS_Surjection
  <1>3. c \notin Full
    <2>1. SUFFICES ASSUME a .. a + c \subseteq Used PROVE FALSE
      OBVIOUS
    <2>2. Cardinality(a .. a + c) = c + 1
      BY <1>1, FS_Interval
    <2>3. Cardinality(a .. a + c) <= Cardinality(Used) /\ Cardinality(Used) \in Nat
      BY <1>2, <2>1, FS_Subset, FS_CardinalityType
    <2> QED BY <1>1, <1>2, <2>2, <2>3
  <1>4. CASE a \notin Used
    <2>1. a \in a .. a + c /\ a .. a - 1 = {}
      BY <1>1
    <2> QED BY <1>4, <2>1
  <1>5. CASE a \in Used
    <2>1. 0 \in Full
      BY <1>5
    <2>2. PICK k \in Full : k + 1 \notin Full
      <3>1. Full \in SUBSET Nat
        OBVIOUS
      <3> HIDE DEF Full
      <3>2. SUFFICES ASSUME \A k \in Full : k + 1 \in Full PROVE FALSE
        OBVIOUS
      <3>3. Full = Nat
        BY <2>1, <3>1, <3>2, AllNumbers
      <3> QED BY <1>1, <1>3, <3>3
    <2>3. k \in Nat /\ \A m \in a .. a + k : m \in Used
      OBVIOUS
    <2>4. a + (k + 1) \notin Used
      <3>1. PICK m \in a .. a + (k + 1) : m \notin Used
        BY <2>2, <2>3
      <3> HIDE DEF Used, Full
      <3> QED BY <2>3, <3>1
    <2>5. k < c
      <3>1. SUFFICES ASSUME k >= c PROVE FALSE
        BY <1>1, <2>3
      <3>2. \A m \in a .. a + c : m \in a .. a + k
        BY <1>1, <2>3, <3>1
      <3> QED BY <1>1, <1>3, <2>3, <3>2
    <2> DEFINE n == a + (k + 1)
    <2>6. n \in a .. a + c /\ n - 1 = a + k
      BY <1>1, <2>3, <2>5
    <2>7. \A tx \in P : tx.nonce # n
      BY <2>4
    <2>8. \A m \in a .. n - 1 : \E tx \in P : tx.nonce = m
      BY <2>3, <2>6
    <2> HIDE DEF n
    <2> QED BY <2>6, <2>7, <2>8
  <1> QED BY <1>4, <1>5

-----------------------------------------------------------------------------
(* The invariant.                                                          *)

Names == Payloads \cup {""}
Unsent == {"look", "create", "read", "acquire", "prepare", "send"}
Sender == [pc : Unsent \cup {"idle", "wait"}, fn : Names, lock : Nat, attempt : Nat, nonce : Nat]

\* What the account, the pool, the locks and the calls look like.
TxTypeOK ==
  /\ mined \in Seq(Names)
  /\ pool \subseteq [nonce : Nat, fn : Names] /\ IsFiniteSet(pool)
  /\ chainLock \in [Tx!Processes -> Nat] /\ nextNonce \in [Tx!Processes -> Nat]
  /\ sender \in [Threads -> Sender]
  /\ sent \in [Payloads -> Nat]

\* Where the calls to send f have got to.
Executed(f) == {n \in DOMAIN mined : mined[n] = f}
Pending(f)  == {tx \in pool : tx.fn = f}
Underway(f) == {t \in Threads : sender[t].fn = f /\ sender[t].pc \in Unsent}

\* A call that has not sent yet is owed one transaction, and no other is.
Owed ==
  \A f \in Payloads :
    Cardinality(Executed(f)) + Cardinality(Pending(f)) + Cardinality(Underway(f)) <= sent[f]

NeverAhead == \A p \in Tx!Processes : nextNonce[p] <= Tx!NextOnChain

TxInv == TxTypeOK /\ Owed /\ NeverAhead

LEMMA PendingNonceIsNat ==
  ASSUME TxTypeOK
  PROVE  Tx!PendingNonce \in Nat /\ Tx!NextOnChain \in Nat \ {0}
  <1>1. Tx!NextOnChain \in Nat \ {0}
    BY DEF TxTypeOK, Tx!NextOnChain
  <1>2. IsFiniteSet(pool) /\ Cardinality(pool) \in Nat
    BY FS_CardinalityType DEF TxTypeOK
  <1>3. PICK a, P : a = Tx!NextOnChain /\ P = pool
    OBVIOUS
  <1>4. \E n \in a .. a + Cardinality(P) :
            /\ \A tx \in P : tx.nonce # n
            /\ \A m \in a .. n - 1 : \E tx \in P : tx.nonce = m
    BY <1>1, <1>2, <1>3, FreeNonce
  <1>5. \E n \in Tx!NextOnChain .. Tx!NextOnChain + Cardinality(pool) :
            /\ \A tx \in pool : tx.nonce # n
            /\ \A m \in Tx!NextOnChain .. n - 1 : \E tx \in pool : tx.nonce = m
    BY <1>3, <1>4
  <1>6. Tx!PendingNonce \in Tx!NextOnChain .. Tx!NextOnChain + Cardinality(pool)
    BY <1>5, SameCardinality, Zenon DEF Tx!PendingNonce
  <1> QED BY <1>1, <1>2, <1>6

\* The numbers of the invariant are numbers.
LEMMA CountsFinite ==
  ASSUME TxTypeOK, NEW f
  PROVE  /\ IsFiniteSet(Executed(f)) /\ Cardinality(Executed(f)) \in Nat
         /\ IsFiniteSet(Pending(f)) /\ Cardinality(Pending(f)) \in Nat
         /\ IsFiniteSet(Underway(f)) /\ Cardinality(Underway(f)) \in Nat
  <1>1. IsFiniteSet(DOMAIN mined) /\ IsFiniteSet(pool) /\ IsFiniteSet(Threads)
    <2>1. DOMAIN mined = 1 .. Len(mined) /\ Len(mined) \in Nat
      BY DEF TxTypeOK
    <2>2. IsFiniteSet(1 .. Len(mined))
      BY <2>1, FS_Interval
    <2> QED BY <2>1, <2>2, OperatorAssumption DEF TxTypeOK
  <1>2. Executed(f) \subseteq DOMAIN mined /\ Pending(f) \subseteq pool /\ Underway(f) \subseteq Threads
    BY DEF Executed, Pending, Underway
  <1> QED BY <1>1, <1>2, CountPart

\* What a call that moves on changes among the calls underway.
LEMMA CallMoves ==
  ASSUME TxTypeOK, NEW t \in Threads, NEW rec \in Sender, Tx!To(t, rec)
  PROVE  /\ sender' \in [Threads -> Sender]
         /\ \A f : /\ Underway(f)' \subseteq Underway(f) \cup {t}
                   /\ rec.fn # f => Underway(f)' \subseteq Underway(f)
                   /\ rec.pc \notin Unsent => Underway(f)' \subseteq Underway(f) \ {t}
                   /\ rec.fn = sender[t].fn /\ sender[t].pc \in Unsent =>
                        Underway(f)' \subseteq Underway(f)
  <1>1. /\ sender \in [Threads -> Sender] /\ sender' = [sender EXCEPT ![t] = rec]
    BY DEF TxTypeOK, Tx!To
  <1>2. sender' \in [Threads -> Sender] /\ sender'[t] = rec
        /\ \A u \in Threads \ {t} : sender'[u] = sender[u]
    BY <1>1
  <1> QED BY <1>2 DEF Underway

\* A step in which the pool stays and no call is added keeps what is owed.
LEMMA OwedStays ==
  ASSUME TxInv, mined' = mined, pool' = pool, sent' = sent, TxTypeOK',
         \A f \in Payloads : Underway(f)' \subseteq Underway(f)
  PROVE  Owed'
  <1>1. SUFFICES ASSUME NEW f \in Payloads
                 PROVE  Cardinality(Executed(f))' + Cardinality(Pending(f))'
                          + Cardinality(Underway(f))' <= sent'[f]
    BY DEF Owed
  <1>2. Executed(f)' = Executed(f) /\ Pending(f)' = Pending(f)
    BY DEF Executed, Pending
  <1>3. Cardinality(Underway(f)') <= Cardinality(Underway(f)) /\ Cardinality(Underway(f)') \in Nat
    BY CountsFinite, CountPart DEF TxInv
  <1>4. Cardinality(Executed(f)) + Cardinality(Pending(f)) + Cardinality(Underway(f)) <= sent[f]
    BY DEF TxInv, Owed
  <1>5. PICK a, b, c, d : /\ a = Cardinality(Executed(f)) /\ b = Cardinality(Pending(f))
                          /\ c = Cardinality(Underway(f)) /\ d = Cardinality(Underway(f)')
    OBVIOUS
  <1>6. a \in Nat /\ b \in Nat /\ c \in Nat /\ sent[f] \in Nat
    BY <1>5, CountsFinite DEF TxInv, TxTypeOK
  <1>7. a + b + d <= sent[f]
    BY <1>3, <1>4, <1>5, <1>6
  <1> QED BY <1>2, <1>5, <1>7

-----------------------------------------------------------------------------
(* The steps of a call.                                                    *)

\* A step of a call that sends nothing and leaves the pool alone.
LEMMA QuietStep ==
  ASSUME TxInv, NEW t \in Threads, NEW rec \in Sender, Tx!To(t, rec),
         mined' = mined, pool' = pool, sent' = sent,
         chainLock' \in [Tx!Processes -> Nat], nextNonce' \in [Tx!Processes -> Nat],
         \A p \in Tx!Processes : nextNonce'[p] = nextNonce[p] \/ nextNonce'[p] <= Tx!NextOnChain,
         rec.pc \notin Unsent \/ (rec.fn = sender[t].fn /\ sender[t].pc \in Unsent)
  PROVE  TxInv'
  <1>1. TxTypeOK
    BY DEF TxInv
  <1>2. TxTypeOK'
    <2>1. sender' \in [Threads -> Sender]
      BY <1>1, CallMoves
    <2> QED BY <1>1, <2>1 DEF TxTypeOK
  <1>3. Owed'
    <2>1. \A f \in Payloads : Underway(f)' \subseteq Underway(f)
      BY <1>1, CallMoves
    <2> QED BY <1>2, <2>1, OwedStays
  <1>4. NeverAhead'
    BY DEF TxInv, NeverAhead, Tx!NextOnChain
  <1> QED BY <1>2, <1>3, <1>4 DEF TxInv

\* The record of a call, and its process.
LEMMA CallTyped ==
  ASSUME TxTypeOK, NEW t \in Threads
  PROVE  /\ sender[t] \in Sender /\ Process[t] \in Tx!Processes
         /\ chainLock[Process[t]] \in Nat /\ nextNonce[Process[t]] \in Nat
         /\ Tx!IdleSender \in Sender /\ Tx!IdleSender.pc = "idle"
  <1>1. Process[t] \in Tx!Processes
    BY DEF Tx!Processes
  <1> QED BY <1>1 DEF TxTypeOK, Tx!IdleSender, Tx!NoNonce, Sender, Names

LEMMA CallPreserves ==
  ASSUME TxInv, NEW t \in Threads, NEW f \in Payloads, Tx!Call(t, f)
  PROVE  TxInv'
  <1>1. TxTypeOK
    BY DEF TxInv
  <1> DEFINE rec == [Tx!IdleSender EXCEPT !.pc = "look", !.fn = f]
  <1>2. rec \in Sender /\ rec.fn = f
    BY DEF Tx!IdleSender, Tx!NoNonce, Sender, Names, Unsent
  <1>3. Tx!To(t, rec) /\ mined' = mined /\ pool' = pool /\ chainLock' = chainLock
        /\ nextNonce' = nextNonce /\ sent' = [sent EXCEPT ![f] = @ + 1]
    BY DEF Tx!Call
  <1> HIDE DEF rec
  <1>4. sender' \in [Threads -> Sender]
        /\ \A g : /\ Underway(g)' \subseteq Underway(g) \cup {t}
                  /\ g # f => Underway(g)' \subseteq Underway(g)
    BY <1>1, <1>2, <1>3, CallMoves
  <1>5. TxTypeOK'
    BY <1>1, <1>3, <1>4 DEF TxTypeOK
  <1>6. Owed'
    <2>1. SUFFICES ASSUME NEW g \in Payloads
                   PROVE  Cardinality(Executed(g))' + Cardinality(Pending(g))'
                            + Cardinality(Underway(g))' <= sent'[g]
      BY DEF Owed
    <2>2. Executed(g)' = Executed(g) /\ Pending(g)' = Pending(g)
      BY <1>3 DEF Executed, Pending
    <2>3. PICK a, b, c, d : /\ a = Cardinality(Executed(g)) /\ b = Cardinality(Pending(g))
                            /\ c = Cardinality(Underway(g)) /\ d = Cardinality(Underway(g)')
      OBVIOUS
    <2>4. a \in Nat /\ b \in Nat /\ c \in Nat /\ sent[g] \in Nat /\ a + b + c <= sent[g]
      BY <1>1, <2>3, CountsFinite DEF TxInv, TxTypeOK, Owed
    <2>5. CASE g = f
      <3>1. d \in Nat /\ d <= c + 1
        BY <1>1, <1>4, <2>3, CountsFinite, CountMore
      <3>2. sent'[g] = sent[g] + 1
        BY <1>1, <1>3, <2>5 DEF TxTypeOK
      <3>3. a + b + d <= sent'[g]
        BY <2>4, <3>1, <3>2
      <3> QED BY <2>2, <2>3, <3>3
    <2>6. CASE g # f
      <3>1. d \in Nat /\ d <= c
        BY <1>1, <1>4, <2>3, <2>6, CountsFinite, CountPart
      <3>2. sent'[g] = sent[g]
        BY <1>1, <1>3, <2>6 DEF TxTypeOK
      <3>3. a + b + d <= sent'[g]
        BY <2>4, <3>1, <3>2
      <3> QED BY <2>2, <2>3, <3>3
    <2> QED BY <2>5, <2>6
  <1>7. NeverAhead'
    BY <1>3 DEF TxInv, NeverAhead, Tx!NextOnChain
  <1> QED BY <1>5, <1>6, <1>7 DEF TxInv

LEMMA LockPreserves ==
  ASSUME TxInv, NEW t \in Threads,
         Tx!LookUp(t) \/ Tx!CreateLock(t) \/ Tx!ReadLock(t) \/ Tx!Acquire(t)
  PROVE  TxInv'
  <1>1. TxTypeOK
    BY DEF TxInv
  <1>2. PICK s : s = sender[t]
    OBVIOUS
  <1>3. s \in Sender /\ Process[t] \in Tx!Processes /\ chainLock[Process[t]] \in Nat
    BY <1>1, <1>2, CallTyped
  <1>4. mined' = mined /\ pool' = pool /\ sent' = sent /\ nextNonce' = nextNonce
    BY DEF Tx!LookUp, Tx!CreateLock, Tx!ReadLock, Tx!Acquire
  <1>5. chainLock' \in [Tx!Processes -> Nat]
    BY <1>1, <1>3 DEF TxTypeOK, Tx!LookUp, Tx!CreateLock, Tx!ReadLock, Tx!Acquire
  <1>6. s.pc \in Unsent
    BY <1>2 DEF Tx!LookUp, Tx!CreateLock, Tx!ReadLock, Tx!Acquire, Tx!At, Unsent
  <1>7. \E rec \in Sender : Tx!To(t, rec) /\ rec.fn = s.fn
    <2>1. \A pc \in Unsent : /\ [s EXCEPT !.pc = pc] \in Sender
                             /\ [s EXCEPT !.pc = pc].fn = s.fn
      BY <1>3 DEF Sender
    <2>2. \A l \in Nat : /\ [s EXCEPT !.pc = "acquire", !.lock = l] \in Sender
                         /\ [s EXCEPT !.pc = "acquire", !.lock = l].fn = s.fn
      BY <1>3 DEF Sender, Unsent
    <2>3. CASE Tx!LookUp(t)
      <3>1. \E pc \in Unsent : Tx!To(t, [s EXCEPT !.pc = pc])
        BY <1>2, <2>3 DEF Tx!LookUp, Unsent
      <3> QED BY <2>1, <3>1
    <2>4. CASE Tx!CreateLock(t) \/ Tx!Acquire(t)
      <3>1. \E pc \in Unsent : Tx!To(t, [s EXCEPT !.pc = pc])
        BY <1>2, <2>4 DEF Tx!CreateLock, Tx!Acquire, Unsent
      <3> QED BY <2>1, <3>1
    <2>5. CASE Tx!ReadLock(t)
      <3>1. Tx!To(t, [s EXCEPT !.pc = "acquire", !.lock = chainLock[Process[t]]])
        BY <1>2, <2>5 DEF Tx!ReadLock
      <3> QED BY <1>3, <2>2, <3>1
    <2> QED BY <2>3, <2>4, <2>5
  <1> QED BY <1>1, <1>2, <1>4, <1>5, <1>6, <1>7, QuietStep DEF TxTypeOK

LEMMA PreparePreserves ==
  ASSUME TxInv, NEW t \in Threads, Tx!Prepare(t)
  PROVE  TxInv'
  <1>1. TxTypeOK
    BY DEF TxInv
  <1>2. PICK s : s = sender[t]
    OBVIOUS
  <1>3. s \in Sender /\ nextNonce[Process[t]] \in Nat /\ Tx!PendingNonce \in Nat
    BY <1>1, <1>2, CallTyped, PendingNonceIsNat
  <1>4. /\ mined' = mined /\ pool' = pool /\ sent' = sent
        /\ chainLock' = chainLock /\ nextNonce' = nextNonce /\ s.pc = "prepare"
    BY <1>2 DEF Tx!Prepare, Tx!At
  <1>5. \E rec \in Sender : /\ Tx!To(t, rec)
                            /\ rec.pc \notin Unsent \/ rec.fn = s.fn
    <2>1. \A n \in Nat : /\ [s EXCEPT !.pc = "send", !.nonce = n] \in Sender
                         /\ [s EXCEPT !.pc = "send", !.nonce = n].fn = s.fn
      BY <1>3 DEF Sender, Unsent
    <2>2. \/ \E n \in Nat : Tx!To(t, [s EXCEPT !.pc = "send", !.nonce = n])
          \/ Tx!To(t, Tx!IdleSender)
      BY <1>2, <1>3 DEF Tx!Prepare, Tx!Return
    <2>3. Tx!IdleSender \in Sender /\ Tx!IdleSender.pc \notin Unsent
      BY <1>1, CallTyped DEF Unsent
    <2> QED BY <2>1, <2>2, <2>3
  <1>6. s.pc \in Unsent
    BY <1>4 DEF Unsent
  <1> QED BY <1>1, <1>2, <1>4, <1>5, <1>6, QuietStep DEF TxTypeOK

\* A transaction that joins the pool, or replaces one there, is the one its
\* call was owed: the call that sends it, or a script's new one.
LEMMA OneMorePending ==
  ASSUME TxInv, TxTypeOK', mined' = mined, NEW tx, pool' \subseteq pool \cup {tx},
         \A g \in Payloads : g # tx.fn => Underway(g)' \subseteq Underway(g) /\ sent'[g] = sent[g],
         \A g \in Payloads : g = tx.fn =>
           \/ /\ sent'[g] = sent[g]
              /\ \E t \in Underway(g) : Underway(g)' \subseteq Underway(g) \ {t}
           \/ sent'[g] = sent[g] + 1 /\ Underway(g)' \subseteq Underway(g)
  PROVE  Owed'
  <1>1. TxTypeOK
    BY DEF TxInv
  <1>2. SUFFICES ASSUME NEW g \in Payloads
                 PROVE  Cardinality(Executed(g))' + Cardinality(Pending(g))'
                          + Cardinality(Underway(g))' <= sent'[g]
    BY DEF Owed
  <1>3. Executed(g)' = Executed(g)
    BY DEF Executed
  <1>4. PICK a, b, c, d, e : /\ a = Cardinality(Executed(g)) /\ b = Cardinality(Pending(g))
                             /\ c = Cardinality(Underway(g)) /\ d = Cardinality(Underway(g)')
                             /\ e = Cardinality(Pending(g)')
    OBVIOUS
  <1>5. a \in Nat /\ b \in Nat /\ c \in Nat /\ sent[g] \in Nat /\ a + b + c <= sent[g]
    BY <1>1, <1>4, CountsFinite DEF TxInv, TxTypeOK, Owed
  <1>6. IsFiniteSet(Pending(g)) /\ IsFiniteSet(Underway(g))
    BY <1>1, CountsFinite
  <1>7. a + e + d <= sent'[g]
    <2>1. CASE g # tx.fn
      <3>1. Pending(g)' \subseteq Pending(g)
        BY <2>1 DEF Pending
      <3>2. e \in Nat /\ e <= b
        BY <1>4, <1>6, <3>1, CountPart
      <3>3. d \in Nat /\ d <= c /\ sent'[g] = sent[g]
        BY <1>4, <1>6, <2>1, CountPart
      <3> QED BY <1>5, <3>2, <3>3
    <2>2. CASE g = tx.fn
      <3>1. Pending(g)' \subseteq Pending(g) \cup {tx}
        BY DEF Pending
      <3>2. e \in Nat /\ e <= b + 1
        BY <1>4, <1>6, <3>1, CountMore
      <3>3. CASE sent'[g] = sent[g] + 1 /\ Underway(g)' \subseteq Underway(g)
        <4>1. d \in Nat /\ d <= c
          BY <1>4, <1>6, <3>3, CountPart
        <4> QED BY <1>5, <3>2, <3>3, <4>1
      <3>4. CASE /\ sent'[g] = sent[g]
                 /\ \E t \in Underway(g) : Underway(g)' \subseteq Underway(g) \ {t}
        <4>1. d \in Nat /\ d + 1 <= c
          BY <1>4, <1>6, <3>4, CountLess
        <4> QED BY <1>5, <3>2, <3>4, <4>1
      <3> QED BY <2>2, <3>3, <3>4
    <2> QED BY <2>1, <2>2
  <1> QED BY <1>3, <1>4, <1>7

LEMMA ScriptPreserves ==
  ASSUME TxInv, NEW f \in Payloads, Tx!ScriptSends(f)
  PROVE  TxInv'
  <1>1. TxTypeOK
    BY DEF TxInv
  <1>2. PICK tx : tx = [nonce |-> Tx!PendingNonce, fn |-> f]
    OBVIOUS
  <1>3. tx \in [nonce : Nat, fn : Names] /\ tx.fn = f
    BY <1>1, <1>2, PendingNonceIsNat DEF Names
  <1>4. /\ sent' = [sent EXCEPT ![f] = @ + 1] /\ pool' = pool \cup {tx}
        /\ mined' = mined /\ chainLock' = chainLock /\ nextNonce' = nextNonce /\ sender' = sender
    BY <1>2 DEF Tx!ScriptSends
  <1>5. TxTypeOK'
    <2>1. IsFiniteSet(pool')
      BY <1>1, <1>4, FS_AddElement DEF TxTypeOK
    <2> QED BY <1>1, <1>3, <1>4, <2>1 DEF TxTypeOK
  <1>6. Owed'
    <2>1. \A g \in Payloads : /\ Underway(g)' = Underway(g)
                              /\ g # f => sent'[g] = sent[g]
                              /\ g = f => sent'[g] = sent[g] + 1
      BY <1>1, <1>4 DEF Underway, TxTypeOK
    <2> QED BY <1>3, <1>4, <1>5, <2>1, OneMorePending
  <1>7. NeverAhead'
    BY <1>4 DEF TxInv, NeverAhead, Tx!NextOnChain
  <1> QED BY <1>5, <1>6, <1>7 DEF TxInv

\* A nonce that is refused: the call tries again or ends.
LEMMA NonceErrorPreserves ==
  ASSUME TxInv, NEW t \in Threads, Tx!At(t, "send"), Tx!NonceError(t),
         pool' = pool, UNCHANGED <<mined, chainLock, sent>>
  PROVE  TxInv'
  <1>1. TxTypeOK
    BY DEF TxInv
  <1>2. PICK s : s = sender[t]
    OBVIOUS
  <1>3. s \in Sender /\ Process[t] \in Tx!Processes /\ Tx!IdleSender \in Sender
        /\ Tx!IdleSender.pc = "idle" /\ Tx!NextOnChain \in Nat
    BY <1>1, <1>2, CallTyped, PendingNonceIsNat
  <1>4. s.pc \in Unsent /\ "idle" \notin Unsent
    BY <1>2 DEF Tx!At, Unsent
  <1>5. CASE Tx!Retry(t)
    <2> DEFINE rec == [s EXCEPT !.pc = "prepare", !.attempt = @ + 1]
    <2>1. rec \in Sender /\ rec.fn = s.fn
      <3>1. \A n \in Nat : /\ [s EXCEPT !.pc = "prepare", !.attempt = n] \in Sender
                           /\ [s EXCEPT !.pc = "prepare", !.attempt = n].fn = s.fn
        BY <1>3 DEF Sender, Unsent
      <3>2. s.attempt + 1 \in Nat
        BY <1>3 DEF Sender
      <3>3. rec = [s EXCEPT !.pc = "prepare", !.attempt = s.attempt + 1]
        BY <1>3 DEF Sender
      <3> QED BY <3>1, <3>2, <3>3
    <2>2. Tx!To(t, rec)
      BY <1>2, <1>5 DEF Tx!Retry
    <2>3. PICK hint \in {Tx!NoNonce, Tx!NextOnChain} :
             nextNonce' = [nextNonce EXCEPT ![Process[t]] = hint]
      BY <1>5 DEF Tx!Retry
    <2>4. hint \in Nat /\ hint <= Tx!NextOnChain
      BY <1>3, <2>3 DEF Tx!NoNonce
    <2>5. /\ nextNonce' \in [Tx!Processes -> Nat]
          /\ \A p \in Tx!Processes : nextNonce'[p] = nextNonce[p] \/ nextNonce'[p] <= Tx!NextOnChain
      BY <1>1, <1>3, <2>3, <2>4 DEF TxTypeOK
    <2> HIDE DEF rec
    <2> QED BY <1>1, <1>2, <1>4, <2>1, <2>2, <2>5, QuietStep DEF TxTypeOK
  <1>6. CASE Tx!Raise(t)
    <2>1. Tx!To(t, Tx!IdleSender) /\ nextNonce' = nextNonce
      BY <1>6 DEF Tx!Raise, Tx!Return
    <2> QED BY <1>1, <1>3, <1>4, <2>1, QuietStep DEF TxTypeOK
  <1> QED BY <1>5, <1>6 DEF Tx!NonceError

LEMMA SendPreserves ==
  ASSUME TxInv, NEW t \in Threads, Tx!Send(t)
  PROVE  TxInv'
  <1>1. TxTypeOK
    BY DEF TxInv
  <1>2. PICK s : s = sender[t]
    OBVIOUS
  <1>3. s \in Sender /\ Tx!IdleSender \in Sender /\ Tx!IdleSender.pc = "idle"
    BY <1>1, <1>2, CallTyped
  <1>4. PICK tx : tx = [nonce |-> s.nonce, fn |-> s.fn]
    OBVIOUS
  <1>5. tx \in [nonce : Nat, fn : Names] /\ tx.fn = s.fn
    BY <1>3, <1>4 DEF Sender
  <1>6. Tx!At(t, "send") /\ mined' = mined /\ chainLock' = chainLock /\ sent' = sent
    BY DEF Tx!Send
  <1>7. s.pc = "send" /\ "send" \in Unsent /\ "idle" \notin Unsent /\ "wait" \notin Unsent
    BY <1>2, <1>6 DEF Tx!At, Unsent
  <1>8. CASE pool' = pool /\ Tx!NonceError(t)
    BY <1>6, <1>8, NonceErrorPreserves
  <1>9. CASE pool' = pool /\ Tx!Raise(t)
    <2>1. Tx!To(t, Tx!IdleSender) /\ nextNonce' = nextNonce
      BY <1>9 DEF Tx!Raise, Tx!Return
    <2> QED BY <1>1, <1>3, <1>6, <1>7, <1>9, <2>1, QuietStep DEF TxTypeOK
  <1>10. CASE /\ pool' = {other \in pool : other.nonce # s.nonce} \cup {tx}
              /\ \/ Tx!To(t, [s EXCEPT !.pc = "wait"]) /\ nextNonce' = nextNonce
                 \/ Tx!Unanswered(t)
    <2>1. \E rec \in Sender : Tx!To(t, rec) /\ rec.pc \notin Unsent
      <3>1. [s EXCEPT !.pc = "wait"] \in Sender /\ [s EXCEPT !.pc = "wait"].pc = "wait"
        BY <1>3 DEF Sender
      <3> QED BY <1>3, <1>7, <1>10, <3>1 DEF Tx!Unanswered, Tx!Raise, Tx!Return
    <2>2. nextNonce' = nextNonce
      BY <1>10 DEF Tx!Unanswered, Tx!Raise
    <2>3. sender' \in [Threads -> Sender] /\ \A g : Underway(g)' \subseteq Underway(g) \ {t}
      BY <1>1, <2>1, CallMoves
    <2>4. TxTypeOK'
      <3>1. IsFiniteSet({other \in pool : other.nonce # s.nonce})
        BY <1>1, FS_Subset DEF TxTypeOK
      <3>2. IsFiniteSet(pool')
        BY <1>10, <3>1, FS_AddElement
      <3> QED BY <1>1, <1>5, <1>6, <1>10, <2>2, <2>3, <3>2 DEF TxTypeOK
    <2>5. Owed'
      <3>1. t \in Underway(s.fn)
        BY <1>2, <1>7 DEF Underway
      <3>2. pool' \subseteq pool \cup {tx}
        BY <1>10
      <3> QED BY <1>5, <1>6, <2>3, <2>4, <3>1, <3>2, OneMorePending
    <2>6. NeverAhead'
      BY <1>6, <2>2 DEF TxInv, NeverAhead, Tx!NextOnChain
    <2> QED BY <2>4, <2>5, <2>6 DEF TxInv
  <1> QED BY <1>2, <1>4, <1>8, <1>9, <1>10 DEF Tx!Send

LEMMA ReceiptPreserves ==
  ASSUME TxInv, NEW t \in Threads, Tx!Receipt(t)
  PROVE  TxInv'
  <1>1. TxTypeOK
    BY DEF TxInv
  <1>2. PICK n : n = sender[t].nonce
    OBVIOUS
  <1>3. /\ n \in Nat /\ Process[t] \in Tx!Processes /\ Tx!NextOnChain \in Nat
        /\ Tx!IdleSender \in Sender /\ Tx!IdleSender.pc \notin Unsent
    BY <1>1, <1>2, CallTyped, PendingNonceIsNat DEF Sender, Unsent
  <1>4. /\ mined' = mined /\ pool' = pool /\ chainLock' = chainLock /\ sent' = sent
        /\ Tx!To(t, Tx!IdleSender)
    BY DEF Tx!Receipt, Tx!Unanswered, Tx!Raise, Tx!Return
  <1>5. /\ nextNonce' \in [Tx!Processes -> Nat]
        /\ \A p \in Tx!Processes : nextNonce'[p] = nextNonce[p] \/ nextNonce'[p] <= Tx!NextOnChain
    <2>1. \/ nextNonce' = nextNonce
          \/ n < Tx!NextOnChain /\ nextNonce' = [nextNonce EXCEPT ![Process[t]] = n + 1]
      BY <1>2 DEF Tx!Receipt, Tx!Unanswered, Tx!Raise
    <2> QED BY SMTT(60), <1>1, <1>3, <2>1 DEF TxTypeOK
  <1> QED BY <1>1, <1>3, <1>4, <1>5, QuietStep DEF TxTypeOK

-----------------------------------------------------------------------------
(* The chain.                                                              *)

LEMMA MinePreserves ==
  ASSUME TxInv, Tx!Mine
  PROVE  TxInv'
  <1>1. TxTypeOK
    BY DEF TxInv
  <1>2. PICK tx \in pool : mined' = Append(mined, tx.fn) /\ pool' = pool \ {tx}
    BY DEF Tx!Mine
  <1>3. chainLock' = chainLock /\ nextNonce' = nextNonce /\ sender' = sender /\ sent' = sent
    BY DEF Tx!Mine
  <1>4. tx.fn \in Names /\ mined \in Seq(Names) /\ Len(mined) \in Nat
    BY <1>1 DEF TxTypeOK
  <1>5. /\ mined' \in Seq(Names) /\ Len(mined') = Len(mined) + 1
        /\ DOMAIN mined' = DOMAIN mined \cup {Len(mined) + 1}
        /\ mined'[Len(mined) + 1] = tx.fn /\ \A i \in DOMAIN mined : mined'[i] = mined[i]
    BY <1>2, <1>4
  <1>6. TxTypeOK'
    <2>1. IsFiniteSet(pool')
      BY <1>1, <1>2, FS_RemoveElement DEF TxTypeOK
    <2> QED BY <1>1, <1>2, <1>3, <1>5, <2>1 DEF TxTypeOK
  <1>7. Owed'
    <2>1. SUFFICES ASSUME NEW g \in Payloads
                   PROVE  Cardinality(Executed(g))' + Cardinality(Pending(g))'
                            + Cardinality(Underway(g))' <= sent'[g]
      BY DEF Owed
    <2>2. Underway(g)' = Underway(g) /\ sent'[g] = sent[g]
      BY <1>3 DEF Underway
    <2>3. PICK a, b, c, d, e : /\ a = Cardinality(Executed(g)) /\ b = Cardinality(Pending(g))
                               /\ c = Cardinality(Underway(g)) /\ d = Cardinality(Executed(g)')
                               /\ e = Cardinality(Pending(g)')
      OBVIOUS
    <2>4. a \in Nat /\ b \in Nat /\ c \in Nat /\ sent[g] \in Nat /\ a + b + c <= sent[g]
      BY <1>1, <2>3, CountsFinite DEF TxInv, TxTypeOK, Owed
    <2>5. IsFiniteSet(Executed(g)) /\ IsFiniteSet(Pending(g))
      BY <1>1, CountsFinite
    <2>6. CASE g = tx.fn
      <3>1. Executed(g)' \subseteq Executed(g) \cup {Len(mined) + 1}
        BY <1>5 DEF Executed
      <3>2. tx \in Pending(g) /\ Pending(g)' \subseteq Pending(g) \ {tx}
        BY <1>2, <2>6 DEF Pending
      <3>3. d \in Nat /\ d <= a + 1
        BY <2>3, <2>5, <3>1, CountMore
      <3>4. e \in Nat /\ e + 1 <= b
        BY <2>3, <2>5, <3>2, CountLess
      <3>5. d + e + c <= sent'[g]
        BY <2>2, <2>4, <3>3, <3>4
      <3> QED BY <2>2, <2>3, <3>5
    <2>7. CASE g # tx.fn
      <3>1. Executed(g)' \subseteq Executed(g)
        BY <1>5, <2>7 DEF Executed
      <3>2. Pending(g)' \subseteq Pending(g)
        BY <1>2 DEF Pending
      <3>3. d \in Nat /\ d <= a
        BY <2>3, <2>5, <3>1, CountPart
      <3>4. e \in Nat /\ e <= b
        BY <2>3, <2>5, <3>2, CountPart
      <3>5. d + e + c <= sent'[g]
        BY <2>2, <2>4, <3>3, <3>4
      <3> QED BY <2>2, <2>3, <3>5
    <2> QED BY <2>6, <2>7
  <1>8. NeverAhead'
    <2>1. Tx!NextOnChain' = Tx!NextOnChain + 1 /\ Tx!NextOnChain \in Nat
      BY <1>4, <1>5 DEF Tx!NextOnChain
    <2>2. \A p \in Tx!Processes : nextNonce[p] \in Nat /\ nextNonce[p] <= Tx!NextOnChain
      BY <1>1 DEF TxInv, TxTypeOK, NeverAhead
    <2> QED BY <1>3, <2>1, <2>2 DEF NeverAhead
  <1> QED BY <1>6, <1>7, <1>8 DEF TxInv

LEMMA DropPreserves ==
  ASSUME TxInv, NEW tx \in pool, Tx!Drop(tx)
  PROVE  TxInv'
  <1>1. TxTypeOK
    BY DEF TxInv
  <1>2. /\ pool' = pool \ {tx} /\ mined' = mined /\ chainLock' = chainLock
        /\ nextNonce' = nextNonce /\ sender' = sender /\ sent' = sent
    BY DEF Tx!Drop
  <1>3. TxTypeOK'
    <2>1. IsFiniteSet(pool')
      BY <1>1, <1>2, FS_RemoveElement DEF TxTypeOK
    <2> QED BY <1>1, <1>2, <2>1 DEF TxTypeOK
  <1>4. Owed'
    <2>1. SUFFICES ASSUME NEW g \in Payloads
                   PROVE  Cardinality(Executed(g))' + Cardinality(Pending(g))'
                            + Cardinality(Underway(g))' <= sent'[g]
      BY DEF Owed
    <2>2. Underway(g)' = Underway(g) /\ Executed(g)' = Executed(g) /\ sent'[g] = sent[g]
      BY <1>2 DEF Underway, Executed
    <2>3. PICK a, b, c, e : /\ a = Cardinality(Executed(g)) /\ b = Cardinality(Pending(g))
                            /\ c = Cardinality(Underway(g)) /\ e = Cardinality(Pending(g)')
      OBVIOUS
    <2>4. a \in Nat /\ b \in Nat /\ c \in Nat /\ sent[g] \in Nat /\ a + b + c <= sent[g]
      BY <1>1, <2>3, CountsFinite DEF TxInv, TxTypeOK, Owed
    <2>5. e \in Nat /\ e <= b
      <3>1. Pending(g)' \subseteq Pending(g)
        BY <1>2 DEF Pending
      <3> QED BY <1>1, <2>3, <3>1, CountsFinite, CountPart
    <2>6. a + e + c <= sent'[g]
      BY <2>2, <2>4, <2>5
    <2> QED BY <2>2, <2>3, <2>6
  <1>5. NeverAhead'
    BY <1>2 DEF TxInv, NeverAhead, Tx!NextOnChain
  <1> QED BY <1>3, <1>4, <1>5 DEF TxInv

-----------------------------------------------------------------------------
(* The theorem.                                                            *)

LEMMA TxInitOK ==
  ASSUME Tx!TxInit
  PROVE  TxInv
  <1>1. TxTypeOK
    <2>1. IsFiniteSet(pool)
      BY FS_EmptySet DEF Tx!TxInit
    <2>2. Tx!IdleSender \in Sender
      BY DEF Tx!IdleSender, Tx!NoNonce, Sender, Names
    <2> QED BY <2>1, <2>2 DEF TxTypeOK, Tx!TxInit, Tx!NoNonce
  <1>2. Owed
    <2>1. \A f : Executed(f) = {} /\ Pending(f) = {} /\ Underway(f) = {}
      <3>1. mined = <<>> /\ pool = {} /\ \A t \in Threads : sender[t].pc = "idle"
        BY DEF Tx!TxInit, Tx!IdleSender
      <3>2. DOMAIN mined = {} /\ "idle" \notin Unsent
        BY <3>1 DEF Unsent
      <3> QED BY <3>1, <3>2 DEF Executed, Pending, Underway
    <2>2. \A f \in Payloads : sent[f] = 0
      BY DEF Tx!TxInit
    <2> QED BY <2>1, <2>2, FS_EmptySet DEF Owed
  <1>3. NeverAhead
    BY DEF Tx!TxInit, NeverAhead, Tx!NoNonce, Tx!NextOnChain
  <1> QED BY <1>1, <1>2, <1>3 DEF TxInv

LEMMA TxNextOK ==
  ASSUME TxInv, Tx!TxNext
  PROVE  TxInv'
  <1>1. ASSUME NEW t \in Threads,
               Tx!LookUp(t) \/ Tx!CreateLock(t) \/ Tx!ReadLock(t) \/ Tx!Acquire(t)
        PROVE  TxInv'
    BY <1>1, LockPreserves
  <1>2. ASSUME NEW t \in Threads, Tx!Prepare(t) \/ Tx!Send(t) \/ Tx!Receipt(t)
        PROVE  TxInv'
    BY <1>2, PreparePreserves, SendPreserves, ReceiptPreserves
  <1>3. ASSUME NEW t \in Threads, NEW f \in Payloads, Tx!Call(t, f)
        PROVE  TxInv'
    BY <1>3, CallPreserves
  <1>4. ASSUME Tx!Mine PROVE TxInv'
    BY <1>4, MinePreserves
  <1>5. ASSUME NEW tx \in pool, Tx!Drop(tx) PROVE TxInv'
    BY <1>5, DropPreserves
  <1>6. ASSUME NEW f \in Payloads, Tx!ScriptSends(f) PROVE TxInv'
    BY <1>6, ScriptPreserves
  <1> QED BY <1>1, <1>2, <1>3, <1>4, <1>5, <1>6 DEF Tx!TxNext

LEMMA TxStutters ==
  ASSUME TxInv, UNCHANGED txVars
  PROVE  TxInv'
  BY DEF txVars, TxInv, TxTypeOK, Owed, NeverAhead, Executed, Pending, Underway, Tx!NextOnChain

\* The invariant counts the calls underway, too; without them it is stronger
\* than what was promised.
LEMMA SoundFollows ==
  ASSUME TxInv
  PROVE  NoncesSound
  <1>1. TxTypeOK
    BY DEF TxInv
  <1>2. ASSUME NEW f \in Payloads
        PROVE  Cardinality({n \in DOMAIN mined : mined[n] = f})
                 + Cardinality({tx \in pool : tx.fn = f}) <= sent[f]
    <2>1. PICK a, b, c : /\ a = Cardinality(Executed(f)) /\ b = Cardinality(Pending(f))
                         /\ c = Cardinality(Underway(f))
      OBVIOUS
    <2>2. a \in Nat /\ b \in Nat /\ c \in Nat /\ sent[f] \in Nat /\ a + b + c <= sent[f]
      BY <1>1, <2>1, CountsFinite DEF TxInv, TxTypeOK, Owed
    <2>3. a + b <= sent[f]
      BY <2>2
    <2> QED BY <2>1, <2>3 DEF Executed, Pending
  <1>3. \A f : Tx!Cardinality({n \in DOMAIN mined : mined[n] = f})
                 = Cardinality({n \in DOMAIN mined : mined[n] = f})
               /\ Tx!Cardinality({tx \in pool : tx.fn = f}) = Cardinality({tx \in pool : tx.fn = f})
    BY SameCardinality
  <1> QED BY <1>2, <1>3 DEF NoncesSound, Tx!NoncesSound, TxInv, NeverAhead

\* Whatever threads, processes and scripts race for nonces, and although two
\* threads may hold two locks of one chain: no transaction is executed or
\* pending more often than it was asked for, and no tracked nonce is ahead of
\* the account's (send_contract_tx and its retries), for any finite number of
\* threads in any processes, any number of retries, calls and forgotten
\* transactions.
THEOREM NoncesStaySound == OperatorSpec => []NoncesSound
  <1>1. OperatorInit => TxInv
    BY TxInitOK DEF OperatorInit
  <1>2. TxInv /\ [OperatorNext]_OperatorVars => TxInv'
    BY TxNextOK, TxStutters DEF OperatorNext, OperatorVars, Deploying, Pardoning, Sending
  <1>3. TxInv => NoncesSound
    BY SoundFollows
  <1> QED BY <1>1, <1>2, <1>3, PTL DEF OperatorSpec

-----------------------------------------------------------------------------
(* The pardons: the invariant.                                             *)

Job == [script : {"none", "ring", "all", "one", "zero"}, at : {"idle", "hub", "spokes", "broadcast"},
        todo : Seq(Wallets), score : [Wallets -> ScoreData], left : SUBSET Spokes,
        missed : SUBSET Spokes, sound : BOOLEAN]

PardonTypeOK ==
  /\ profiles \in [Wallets -> Pardon!Profile] /\ blacklisted \in [Wallets -> BOOLEAN]
  /\ \A w \in Wallets : profiles[w].exists => profiles[w].score \in ScoreData \ {0}
  /\ spokeScores \in [Spokes -> [Wallets -> ScoreData]]
  /\ defaultBlacklist \in [Spokes -> [Wallets -> BOOLEAN]]
  /\ inFlight \in [Pardon!Messages -> Nat]
  /\ pardon \in Job /\ pardoned \subseteq (Wallets \ {Zero}) \X BOOLEAN

RingTodo ==
  /\ pardon.script # "none" => pardon.todo # <<>>
  /\ pardon.script = "ring" => \A i \in DOMAIN pardon.todo : pardon.todo[i] # Zero

Harmless(m) ==
  m.type = "WHITELIST" /\ (profiles[m.wallet].exists => m.data = profiles[m.wallet].score)
Coming(s, w) ==
  \E m \in Pardon!Messages : inFlight[m] > 0 /\ m.type = "WHITELIST" /\ m.wallet = w /\ m.dst = s

RingInv ==
  pardon.script = "ring" /\ pardon.sound =>
    /\ \A m \in Pardon!Messages : inFlight[m] > 0 => Harmless(m)
    /\ \A w \in Wallets : profiles[w].exists => pardon.score[w] = profiles[w].score
    /\ pardon.at # "hub" =>
         /\ ~Pardon!StillDefaulter(Pardon!Wallet)
         /\ \A s \in Spokes \ (pardon.left \cup pardon.missed) : ~defaultBlacklist[s][Pardon!Wallet]
    /\ pardon.at = "broadcast" => pardon.left = {}

KeptInv ==
  \A p \in pardoned : LET w == p[1] IN
    /\ ~Pardon!StillDefaulter(w)
    /\ \A m \in Pardon!Messages : inFlight[m] > 0 /\ m.wallet = w => Harmless(m)
    /\ pardon.script = "ring" /\ profiles[w].exists => pardon.score[w] = profiles[w].score
    /\ \A s \in Spokes :
         \/ Coming(s, w)
         \/ /\ ~defaultBlacklist[s][w]
            /\ p[2] /\ profiles[w].exists => spokeScores[s][w] = profiles[w].score

PardonInv == PardonTypeOK /\ RingTodo /\ RingInv /\ KeptInv

\* A set of wallets as a sequence.
LEMMA WalletsInARow ==
  ASSUME NEW S, S \subseteq Wallets, S # {}
  PROVE  /\ Pardon!SetToSeq(S) \in Seq(Wallets) /\ Pardon!SetToSeq(S) # <<>>
         /\ \A i \in DOMAIN Pardon!SetToSeq(S) : Pardon!SetToSeq(S)[i] \in S
  <1>1. IsFiniteSet(S)
    BY OperatorAssumption, FS_Subset
  <1>2. PICK n : n = Cardinality(S)
    OBVIOUS
  <1>3. n \in Nat \ {0} /\ ExistsBijection(1 .. n, S)
    BY <1>1, <1>2, FS_CardinalityType, FS_EmptySet
  <1>4. \E f \in [1 .. n -> S] : Pardon!IsInjective(f)
    <2>1. PICK f \in Bijection(1 .. n, S) : TRUE
      BY <1>3 DEF ExistsBijection
    <2>2. f \in [1 .. n -> S] /\ \A a, b \in 1 .. n : f[a] = f[b] => a = b
      BY <2>1 DEF Bijection, Injection, IsInjective
    <2> QED BY <2>2 DEF Pardon!IsInjective
  <1>5. Pardon!SetToSeq(S) \in [1 .. n -> S]
    <2>1. Pardon!Cardinality(S) = n
      BY <1>2, Zenon DEF Pardon!Cardinality, Cardinality
    <2>2. \E f \in [1 .. Pardon!Cardinality(S) -> S] : Pardon!IsInjective(f)
      BY <1>4, <2>1
    <2>3. Pardon!SetToSeq(S) \in [1 .. Pardon!Cardinality(S) -> S]
      BY <2>2, Zenon DEF Pardon!SetToSeq
    <2> QED BY <2>1, <2>3
  <1>6. PICK q : q = Pardon!SetToSeq(S)
    OBVIOUS
  <1>7. q \in Seq(Wallets) /\ q # <<>> /\ DOMAIN q = 1 .. n /\ \A i \in 1 .. n : q[i] \in S
    <2>1. q \in [1 .. n -> S] /\ DOMAIN q = 1 .. n
      BY <1>5, <1>6
    <2>2. q \in Seq(S) /\ Len(q) = n
      BY <1>3, <2>1
    <2>3. q \in Seq(Wallets)
      BY <2>2
    <2> QED BY <1>3, <2>1, <2>2, <2>3
  <1> QED BY <1>6, <1>7

\* Nobody's profile is lost, rescored or worse than it was.
Milder ==
  /\ profiles' \in [Wallets -> Pardon!Profile] /\ blacklisted' \in [Wallets -> BOOLEAN]
  /\ \A w \in Wallets : /\ profiles'[w].exists = profiles[w].exists
                        /\ profiles'[w].score = profiles[w].score
                        /\ Pardon!StillDefaulter(w)' => Pardon!StillDefaulter(w)

\* The functions of the profile contract that a pardon calls.
LEMMA WhitelistIsMilder ==
  ASSUME PardonTypeOK, NEW w \in Wallets, Pardon!whitelistWallet(w)
  PROVE  Milder /\ ~Pardon!StillDefaulter(w)'
  <1>1. /\ profiles \in [Wallets -> Pardon!Profile] /\ blacklisted \in [Wallets -> BOOLEAN]
        /\ blacklisted' = [blacklisted EXCEPT ![w] = FALSE]
    BY DEF PardonTypeOK, Pardon!whitelistWallet
  <1>2. PICK p : p = profiles[w]
    OBVIOUS
  <1>3. PICK l \in {2, p.loanStatus} :
           profiles' = [profiles EXCEPT ![w] = [p EXCEPT !.defaultCount = 0, !.loanStatus = l]]
    BY <1>1, <1>2 DEF Pardon!whitelistWallet
  <1>4. PICK q : q = [p EXCEPT !.defaultCount = 0, !.loanStatus = l]
    OBVIOUS
  <1>5. q \in Pardon!Profile /\ q.exists = p.exists /\ q.score = p.score /\ q.defaultCount = 0
    <2>1. p \in Pardon!Profile
      BY <1>1, <1>2
    <2>2. l \in 0 .. 3 /\ 0 \in 0 .. MaxUint8
      BY <2>1, OperatorAssumption DEF Pardon!Profile
    <2> QED BY <1>4, <2>1, <2>2 DEF Pardon!Profile
  <1>6. /\ profiles' \in [Wallets -> Pardon!Profile] /\ blacklisted' \in [Wallets -> BOOLEAN]
        /\ profiles'[w] = q /\ ~blacklisted'[w]
        /\ \A x \in Wallets \ {w} : profiles'[x] = profiles[x] /\ blacklisted'[x] = blacklisted[x]
    BY <1>1, <1>3, <1>4, <1>5
  <1>7. ~Pardon!StillDefaulter(w)'
    BY <1>5, <1>6 DEF Pardon!StillDefaulter
  <1>8. \A x \in Wallets : /\ profiles'[x].exists = profiles[x].exists
                           /\ profiles'[x].score = profiles[x].score
    BY <1>2, <1>5, <1>6
  <1>9. \A x \in Wallets \ {w} : Pardon!StillDefaulter(x)' => Pardon!StillDefaulter(x)
    BY <1>6 DEF Pardon!StillDefaulter
  <1> QED BY <1>6, <1>7, <1>8, <1>9 DEF Milder

LEMMA UnchangedIsMilder ==
  ASSUME PardonTypeOK, UNCHANGED <<profiles, blacklisted>>
  PROVE  Milder /\ \A w : Pardon!StillDefaulter(w)' <=> Pardon!StillDefaulter(w)
  BY DEF PardonTypeOK, Milder, Pardon!StillDefaulter

LEMMA RemovalIsMilder ==
  ASSUME PardonTypeOK, NEW w \in Wallets, Pardon!removeFromBlacklist(w)
  PROVE  Milder /\ (~profiles[w].exists => ~Pardon!StillDefaulter(w)')
  <1>1. /\ profiles \in [Wallets -> Pardon!Profile] /\ blacklisted \in [Wallets -> BOOLEAN]
        /\ blacklisted' = [blacklisted EXCEPT ![w] = FALSE] /\ profiles' = profiles
    BY DEF PardonTypeOK, Pardon!removeFromBlacklist
  <1>2. /\ blacklisted' \in [Wallets -> BOOLEAN] /\ ~blacklisted'[w]
        /\ \A x \in Wallets \ {w} : blacklisted'[x] = blacklisted[x]
    BY <1>1
  <1>3. \A x \in Wallets : Pardon!StillDefaulter(x)' => Pardon!StillDefaulter(x)
    BY <1>1, <1>2 DEF Pardon!StillDefaulter
  <1> QED BY <1>1, <1>2, <1>3 DEF Milder, Pardon!StillDefaulter

LEMMA ClearedIsMilder ==
  ASSUME PardonTypeOK, NEW w \in Wallets, Pardon!Cleared(w)
  PROVE  Milder /\ ~Pardon!StillDefaulter(w)'
  <1>1. CASE ~Pardon!hubBlocked(w)
    <2>1. UNCHANGED <<profiles, blacklisted>>
      BY <1>1 DEF Pardon!Cleared
    <2>2. ~Pardon!StillDefaulter(w)
      BY <1>1 DEF Pardon!hubBlocked, Pardon!StillDefaulter
    <2> QED BY <2>1, <2>2, UnchangedIsMilder
  <1>2. CASE Pardon!hubBlocked(w) /\ profiles[w].exists
    BY <1>2, WhitelistIsMilder DEF Pardon!Cleared
  <1>3. CASE Pardon!hubBlocked(w) /\ ~profiles[w].exists
    BY <1>3, RemovalIsMilder DEF Pardon!Cleared
  <1> QED BY <1>1, <1>2, <1>3

\* What the script goes on with.
LEMMA WalletTyped ==
  ASSUME PardonInv, pardon.script # "none"
  PROVE  /\ Pardon!Wallet \in Wallets
         /\ pardon.script = "ring" => Pardon!Wallet # Zero
  <1>1. pardon.todo \in Seq(Wallets) /\ pardon.todo # <<>>
    BY DEF PardonInv, PardonTypeOK, RingTodo, Job
  <1>2. Head(pardon.todo) \in Wallets /\ 1 \in DOMAIN pardon.todo /\ Head(pardon.todo) = pardon.todo[1]
    BY <1>1
  <1> QED BY <1>2 DEF PardonInv, RingTodo, Pardon!Wallet

LEMMA NoPardonTyped ==
  /\ Pardon!NoPardon \in Job /\ Pardon!NoPardon.script = "none"
  /\ Pardon!NoPardon.score \in [Wallets -> ScoreData]
  <1>1. [w \in Wallets |-> 0] \in [Wallets -> ScoreData] /\ <<>> \in Seq(Wallets)
    BY OperatorAssumption
  <1> QED BY <1>1 DEF Pardon!NoPardon, Job

LEMMA FollowingTyped ==
  ASSUME PardonInv, pardon.script # "none", NEW job \in Job, job.todo = pardon.todo,
         job.script = pardon.script
  PROVE  LET next == Pardon!Following(job) IN
         /\ next \in Job
         /\ next.script # "none" => /\ next.script = job.script /\ next.at = "hub"
                                    /\ next.score = job.score /\ next.sound = job.sound
                                    /\ next.todo # <<>>
                                    /\ \A i \in DOMAIN next.todo :
                                         \E k \in DOMAIN pardon.todo : next.todo[i] = pardon.todo[k]
  <1>1. pardon.todo \in Seq(Wallets) /\ pardon.todo # <<>>
    BY DEF PardonInv, PardonTypeOK, RingTodo, Job
  <1>2. CASE Len(job.todo) > 1
    <2>1. PICK rest : rest = Tail(pardon.todo)
      OBVIOUS
    <2>2. rest \in Seq(Wallets) /\ Len(rest) = Len(pardon.todo) - 1
          /\ \A i \in DOMAIN rest : i + 1 \in DOMAIN pardon.todo /\ rest[i] = pardon.todo[i + 1]
      BY <1>1, <2>1
    <2>3. rest # <<>>
      BY <1>1, <1>2, <2>2
    <2>4. PICK next : next = [job EXCEPT !.todo = rest, !.at = "hub", !.missed = {}]
      OBVIOUS
    <2>5. Pardon!Following(job) = next
      BY <1>2, <2>1, <2>4 DEF Pardon!Following
    <2>6. /\ next \in Job /\ next.script = job.script /\ next.at = "hub" /\ next.todo = rest
          /\ next.score = job.score /\ next.sound = job.sound
      BY <2>2, <2>4 DEF Job
    <2> QED BY <2>2, <2>3, <2>5, <2>6
  <1>3. CASE ~(Len(job.todo) > 1)
    BY <1>3, NoPardonTyped DEF Pardon!Following
  <1> QED BY <1>2, <1>3

-----------------------------------------------------------------------------
(* The steps of a script.                                                  *)

\* The number of a wallet's messages, and so what is on its way, is the same.
LEMMA ComingSame ==
  ASSUME inFlight' = inFlight
  PROVE  \A s, w : Coming(s, w)' <=> Coming(s, w)
  BY DEF Coming

\* A step that touches no spoke and makes nobody's profile worse.
LEMMA HubStep ==
  ASSUME PardonInv, Milder, UNCHANGED Pardon!oappVars,
         pardon' \in Job, RingTodo', pardoned' = pardoned,
         pardon'.script = "ring" => pardon.script = "ring" /\ pardon'.score = pardon.score,
         pardon'.script = "ring" /\ pardon'.sound =>
           /\ pardon.sound /\ pardon'.at # "broadcast"
           /\ pardon'.at # "hub" =>
                ~Pardon!StillDefaulter(Pardon!Wallet)' /\ pardon'.left = Spokes
  PROVE  PardonInv'
  <1>1. /\ spokeScores' = spokeScores /\ defaultBlacklist' = defaultBlacklist
        /\ inFlight' = inFlight
    BY DEF Pardon!oappVars
  <1>2. \A m \in Pardon!Messages : m.wallet \in Wallets
    BY DEF Pardon!Messages
  <1>3. PardonTypeOK'
    BY <1>1 DEF PardonInv, PardonTypeOK, Milder
  <1>4. \A m \in Pardon!Messages : Harmless(m)' <=> Harmless(m)
    BY <1>2 DEF Harmless, Milder
  <1>5. RingInv'
    <2>1. SUFFICES ASSUME pardon'.script = "ring", pardon'.sound PROVE RingInv'
      BY DEF RingInv
    <2>2. pardon.script = "ring" /\ pardon.sound /\ pardon'.score = pardon.score
      BY <2>1
    <2>3. \A m \in Pardon!Messages : inFlight'[m] > 0 => Harmless(m)'
      BY <1>1, <1>4, <2>2 DEF PardonInv, RingInv
    <2>4. \A w \in Wallets : profiles'[w].exists => pardon'.score[w] = profiles'[w].score
      BY <2>2 DEF PardonInv, RingInv, Milder
    <2> QED BY <2>1, <2>3, <2>4 DEF RingInv
  <1>6. KeptInv'
    <2>1. SUFFICES ASSUME NEW p \in pardoned, NEW w, w = p[1]
                   PROVE  /\ ~Pardon!StillDefaulter(w)'
                          /\ \A m \in Pardon!Messages :
                               inFlight'[m] > 0 /\ m.wallet = w => Harmless(m)'
                          /\ pardon'.script = "ring" /\ profiles'[w].exists =>
                               pardon'.score[w] = profiles'[w].score
                          /\ \A s \in Spokes :
                               \/ Coming(s, w)'
                               \/ /\ ~defaultBlacklist'[s][w]
                                  /\ p[2] /\ profiles'[w].exists =>
                                       spokeScores'[s][w] = profiles'[w].score
      BY DEF KeptInv
    <2>2. w \in Wallets
      BY <2>1 DEF PardonInv, PardonTypeOK
    <2>3. /\ ~Pardon!StillDefaulter(w)
          /\ \A m \in Pardon!Messages : inFlight[m] > 0 /\ m.wallet = w => Harmless(m)
          /\ pardon.script = "ring" /\ profiles[w].exists => pardon.score[w] = profiles[w].score
          /\ \A s \in Spokes :
               \/ Coming(s, w)
               \/ /\ ~defaultBlacklist[s][w]
                  /\ p[2] /\ profiles[w].exists => spokeScores[s][w] = profiles[w].score
      BY <2>1 DEF PardonInv, KeptInv
    <2>4. /\ profiles'[w].exists = profiles[w].exists /\ profiles'[w].score = profiles[w].score
          /\ ~Pardon!StillDefaulter(w)'
      BY <2>2, <2>3 DEF Milder
    <2> QED BY <1>1, <1>4, <2>3, <2>4, ComingSame
  <1> QED BY <1>3, <1>5, <1>6 DEF PardonInv

\* A script that starts.
LEMMA StartStep ==
  ASSUME PardonInv, NEW job \in Job, Pardon!Start(job), job.todo # <<>>, job.at = "hub",
         job.script = "ring" =>
           /\ \A i \in DOMAIN job.todo : job.todo[i] # Zero
           /\ \A w \in Wallets : profiles[w].exists => job.score[w] = profiles[w].score
           /\ job.sound => Pardon!Quiet
  PROVE  PardonInv'
  <1>1. /\ pardon' = job /\ profiles' = profiles /\ blacklisted' = blacklisted
        /\ spokeScores' = spokeScores /\ defaultBlacklist' = defaultBlacklist
        /\ inFlight' = inFlight /\ pardoned' = pardoned
    BY DEF Pardon!Start, Pardon!oappVars
  <1>2. PardonTypeOK' /\ RingTodo'
    BY <1>1 DEF PardonInv, PardonTypeOK, RingTodo
  <1>3. \A m : Harmless(m)' <=> Harmless(m)
    BY <1>1 DEF Harmless
  <1>4. RingInv'
    <2>1. \A m \in Pardon!Messages : job.script = "ring" /\ job.sound => ~(inFlight[m] > 0)
      BY DEF Pardon!Quiet
    <2> QED BY <1>1, <2>1 DEF RingInv
  <1>5. KeptInv'
    <2>1. \A p \in pardoned : p[1] \in Wallets
      BY DEF PardonInv, PardonTypeOK
    <2>2. \A w : Pardon!StillDefaulter(w)' <=> Pardon!StillDefaulter(w)
      BY <1>1 DEF Pardon!StillDefaulter
    <2>3. KeptInv
      BY DEF PardonInv
    <2> QED BY <1>1, <1>3, <2>1, <2>2, <2>3, ComingSame DEF KeptInv
  <1> QED BY <1>2, <1>4, <1>5 DEF PardonInv

LEMMA StartsPreserve ==
  ASSUME PardonInv,
         \/ \E w \in Wallets : Pardon!whitelistDefaulterRing(w) \/ Pardon!unblacklistWallet(w)
         \/ Pardon!whitelistAllWallets \/ Pardon!whitelistZeroAddress
  PROVE  PardonInv'
  <1>1. PardonTypeOK
    BY DEF PardonInv
  <1>2. PICK none : none = Pardon!NoPardon /\ none \in Job
    BY NoPardonTyped
  <1>3. ASSUME NEW d \in Wallets, Pardon!whitelistDefaulterRing(d) PROVE PardonInv'
    <2> DEFINE ring == ({d} \cup Pardon!findLinkedWallets(d)) \ {Zero}
    <2>1. ring \subseteq Wallets /\ ring # {} /\ Zero \notin ring
      <3>1. d # Zero
        BY <1>3 DEF Pardon!whitelistDefaulterRing
      <3>2. d \in ring
        BY <3>1
      <3> QED BY <3>2 DEF Pardon!findLinkedWallets
    <2>2. PICK list : list = Pardon!SetToSeq(ring)
      OBVIOUS
    <2>3. Pardon!SetToSeq(ring) \in Seq(Wallets) /\ Pardon!SetToSeq(ring) # <<>>
          /\ \A i \in DOMAIN Pardon!SetToSeq(ring) : Pardon!SetToSeq(ring)[i] \in ring
      <3> HIDE DEF ring
      <3> QED BY <2>1, WalletsInARow
    <2>4. list \in Seq(Wallets) /\ list # <<>> /\ \A i \in DOMAIN list : list[i] # Zero
      BY <2>1, <2>2, <2>3
    <2>5. PICK score : score = [w \in Wallets |-> Pardon!scanScore(w)]
      OBVIOUS
    <2>6. score \in [Wallets -> ScoreData]
          /\ \A w \in Wallets : profiles[w].exists => score[w] = profiles[w].score
      <3>1. \A w \in Wallets : /\ Pardon!scanScore(w) \in ScoreData
                               /\ profiles[w].exists => Pardon!scanScore(w) = profiles[w].score
        BY <1>1, OperatorAssumption DEF PardonTypeOK, Pardon!scanScore
      <3> QED BY <2>5, <3>1
    <2>7. PICK sound \in BOOLEAN : sound = Pardon!Quiet
      BY DEF Pardon!Quiet
    <2>8. PICK job : job = [none EXCEPT !.script = "ring", !.at = "hub", !.todo = list,
                                        !.score = score, !.sound = sound]
      OBVIOUS
    <2>9. /\ job \in Job /\ job.script = "ring" /\ job.at = "hub" /\ job.todo = list
          /\ job.score = score /\ job.sound = sound
      BY <1>2, <2>4, <2>6, <2>8 DEF Job
    <2>10. Pardon!Start(job)
      BY <1>2, <1>3, <2>2, <2>5, <2>7, <2>8 DEF Pardon!whitelistDefaulterRing
    <2> HIDE DEF ring
    <2> QED BY <2>4, <2>6, <2>7, <2>9, <2>10, StartStep
  <1>4. ASSUME NEW w \in Wallets, Pardon!unblacklistWallet(w) PROVE PardonInv'
    <2>1. PICK job : job = [none EXCEPT !.script = "one", !.at = "hub", !.todo = <<w>>]
      OBVIOUS
    <2>2. job \in Job /\ job.script = "one" /\ job.at = "hub" /\ job.todo = <<w>>
      <3>1. <<w>> \in Seq(Wallets)
        OBVIOUS
      <3> QED BY <1>2, <2>1, <3>1 DEF Job
    <2>3. Pardon!Start(job)
      BY <1>2, <1>4, <2>1 DEF Pardon!unblacklistWallet
    <2>4. <<w>> # <<>>
      OBVIOUS
    <2> QED BY <2>2, <2>3, <2>4, StartStep
  <1>5. ASSUME Pardon!whitelistAllWallets PROVE PardonInv'
    <2>1. PICK S : S = Rows \cup Pardon!fetchOnChainWallets
      OBVIOUS
    <2>2. S \subseteq Wallets /\ S # {}
      BY <1>5, <2>1, OperatorAssumption DEF Pardon!fetchOnChainWallets, Pardon!whitelistAllWallets
    <2>3. PICK list : list = Pardon!SetToSeq(S)
      OBVIOUS
    <2>4. list \in Seq(Wallets) /\ list # <<>>
      BY <2>2, <2>3, WalletsInARow
    <2>5. PICK job : job = [none EXCEPT !.script = "all", !.at = "hub", !.todo = list]
      OBVIOUS
    <2>6. job \in Job /\ job.script = "all" /\ job.at = "hub" /\ job.todo = list
      BY <1>2, <2>4, <2>5 DEF Job
    <2>7. Pardon!Start(job)
      BY <1>2, <1>5, <2>1, <2>3, <2>5 DEF Pardon!whitelistAllWallets
    <2> QED BY <2>4, <2>6, <2>7, StartStep
  <1>6. ASSUME Pardon!whitelistZeroAddress PROVE PardonInv'
    <2>1. PICK score : score = [w \in Wallets |-> FullScore]
      OBVIOUS
    <2>2. score \in [Wallets -> ScoreData] /\ <<Zero>> \in Seq(Wallets) /\ <<Zero>> # <<>>
      BY <2>1, OperatorAssumption
    <2>3. PICK job : job = [none EXCEPT !.script = "zero", !.at = "hub", !.todo = <<Zero>>,
                                        !.score = score]
      OBVIOUS
    <2>4. job \in Job /\ job.script = "zero" /\ job.at = "hub" /\ job.todo = <<Zero>>
      BY <1>2, <2>2, <2>3 DEF Job
    <2>5. Pardon!Start(job)
      BY <1>2, <1>6, <2>1, <2>3 DEF Pardon!whitelistZeroAddress
    <2> QED BY <2>2, <2>4, <2>5, StartStep
  <1> QED BY <1>3, <1>4, <1>5, <1>6

\* Only a sound ring adds to the wallets that were pardoned.
LEMMA DoneTyped ==
  ASSUME PardonInv, pardon.script # "none", NEW job \in Job, job.todo = pardon.todo,
         job.script = pardon.script, job.score = pardon.score, NEW told, Pardon!Done(job, told)
  PROVE  /\ pardon' \in Job /\ RingTodo'
         /\ pardon'.script = "ring" => /\ pardon.script = "ring" /\ pardon'.score = pardon.score
                                       /\ pardon'.at = "hub" /\ pardon'.sound = job.sound
         /\ pardoned' = IF job.script = "ring" /\ job.sound
                        THEN pardoned \cup {<<Pardon!Wallet, told>>} ELSE pardoned
  <1>1. PICK next : next = Pardon!Following(job)
    OBVIOUS
  <1>2. /\ next \in Job
        /\ next.script # "none" => /\ next.script = job.script /\ next.at = "hub"
                                   /\ next.score = job.score /\ next.sound = job.sound
                                   /\ next.todo # <<>>
                                   /\ \A i \in DOMAIN next.todo :
                                        \E k \in DOMAIN pardon.todo : next.todo[i] = pardon.todo[k]
    BY <1>1, FollowingTyped
  <1>3. pardon' = next
    BY <1>1 DEF Pardon!Done
  <1>4. RingTodo'
    BY <1>2, <1>3 DEF PardonInv, RingTodo
  <1> QED BY <1>2, <1>3, <1>4 DEF Pardon!Done

\* The transaction on the hub of the scripts that know no spokes.
LEMMA HubScriptsPreserve ==
  ASSUME PardonInv, Pardon!whitelistWalletOf \/ Pardon!whitelistOne
  PROVE  PardonInv'
  <1>1. PardonTypeOK /\ pardon \in Job
    BY DEF PardonInv, PardonTypeOK
  <1>2. pardon.script \in {"all", "one"}
    BY DEF Pardon!whitelistWalletOf, Pardon!whitelistOne, Pardon!AtHub
  <1>3. Pardon!Wallet \in Wallets
    BY <1>2, WalletTyped
  <1>4. Milder
    BY <1>1, <1>3, ClearedIsMilder, WhitelistIsMilder, UnchangedIsMilder
       DEF Pardon!whitelistWalletOf, Pardon!whitelistOne
  <1>5. Pardon!Done(pardon, FALSE) /\ UNCHANGED Pardon!oappVars
    BY DEF Pardon!whitelistWalletOf, Pardon!whitelistOne
  <1>6. /\ pardon' \in Job /\ RingTodo' /\ pardon'.script # "ring" /\ pardoned' = pardoned
    BY <1>1, <1>2, <1>5, DoneTyped
  <1> QED BY <1>4, <1>5, <1>6, HubStep

\* The script goes over to the spokes.
LEMMA ToSpokesTyped ==
  ASSUME PardonInv, NEW b \in BOOLEAN,
         pardon' = [pardon EXCEPT !.at = "spokes", !.left = Spokes, !.sound = b]
  PROVE  /\ pardon' \in Job /\ pardon'.script = pardon.script /\ pardon'.score = pardon.score
         /\ pardon'.at = "spokes" /\ pardon'.left = Spokes /\ pardon'.sound = b
         /\ pardon'.todo = pardon.todo /\ RingTodo'
  <1>1. PICK j, k : j = pardon /\ k = pardon'
    OBVIOUS
  <1>2. j \in Job /\ k = [j EXCEPT !.at = "spokes", !.left = Spokes, !.sound = b]
    BY <1>1 DEF PardonInv, PardonTypeOK
  <1>3. /\ k \in Job /\ k.script = j.script /\ k.score = j.score /\ k.at = "spokes"
        /\ k.left = Spokes /\ k.sound = b /\ k.todo = j.todo
    BY <1>2 DEF Job
  <1> QED BY <1>1, <1>3 DEF RingTodo, PardonInv

LEMMA ToSpokesIs ==
  ASSUME PardonInv, Pardon!ToSpokes
  PROVE  /\ pardon.sound \in BOOLEAN /\ pardoned' = pardoned
         /\ pardon' = [pardon EXCEPT !.at = "spokes", !.left = Spokes, !.sound = pardon.sound]
  <1>1. PICK j, k : j = pardon /\ k = pardon'
    OBVIOUS
  <1>2. j \in Job /\ k = [j EXCEPT !.at = "spokes", !.left = Spokes]
    BY <1>1 DEF PardonInv, PardonTypeOK, Pardon!ToSpokes
  <1>3. j.sound \in BOOLEAN /\ k = [j EXCEPT !.at = "spokes", !.left = Spokes, !.sound = j.sound]
    BY <1>2 DEF Job
  <1> QED BY <1>1, <1>3 DEF Pardon!ToSpokes

LEMMA ClearHubPreserves ==
  ASSUME PardonInv, Pardon!clearHubSbt
  PROVE  PardonInv'
  <1>1. PardonTypeOK /\ pardon.script = "ring"
    BY DEF PardonInv, Pardon!clearHubSbt, Pardon!AtHub
  <1>2. Pardon!Wallet \in Wallets
    BY <1>1, WalletTyped
  <1>3. UNCHANGED Pardon!oappVars
    BY DEF Pardon!clearHubSbt
  <1>4. CASE Pardon!Cleared(Pardon!Wallet) /\ Pardon!ToSpokes
    <2>1. PICK w : w = Pardon!Wallet
      OBVIOUS
    <2>2. Milder /\ ~Pardon!StillDefaulter(w)'
      BY <1>1, <1>2, <1>4, <2>1, ClearedIsMilder
    <2>3. /\ pardon.sound \in BOOLEAN /\ pardoned' = pardoned
          /\ pardon' = [pardon EXCEPT !.at = "spokes", !.left = Spokes, !.sound = pardon.sound]
      BY <1>4, ToSpokesIs
    <2>4. /\ pardon' \in Job /\ pardon'.script = pardon.script /\ pardon'.score = pardon.score
          /\ pardon'.at = "spokes" /\ pardon'.left = Spokes /\ pardon'.sound = pardon.sound
          /\ pardon'.todo = pardon.todo /\ RingTodo'
      BY <2>3, ToSpokesTyped
    <2>5. ~Pardon!StillDefaulter(Pardon!Wallet)'
      BY <2>1, <2>2, <2>4 DEF Pardon!StillDefaulter, Pardon!Wallet
    <2> QED BY <1>1, <1>3, <2>2, <2>3, <2>4, <2>5, HubStep
  <1>5. CASE /\ pardon' = [pardon EXCEPT !.at = "spokes", !.left = Spokes, !.sound = FALSE]
             /\ UNCHANGED <<profiles, blacklisted, pardoned>>
    <2>1. Milder /\ pardoned' = pardoned
      BY <1>1, <1>5, UnchangedIsMilder
    <2>2. /\ pardon' \in Job /\ pardon'.script = pardon.script /\ pardon'.score = pardon.score
          /\ pardon'.sound = FALSE /\ RingTodo'
      BY <1>5, ToSpokesTyped
    <2> QED BY <1>1, <1>3, <2>1, <2>2, HubStep
  <1> QED BY <1>4, <1>5 DEF Pardon!clearHubSbt

LEMMA ClearZeroPreserves ==
  ASSUME PardonInv, Pardon!clearZeroOnHub
  PROVE  PardonInv'
  <1>1. PardonTypeOK /\ pardon.script = "zero" /\ Zero \in Wallets
    BY OperatorAssumption DEF PardonInv, Pardon!clearZeroOnHub, Pardon!AtHub
  <1>2. UNCHANGED Pardon!oappVars
    BY DEF Pardon!clearZeroOnHub
  <1>3. Milder
    BY <1>1, WhitelistIsMilder, RemovalIsMilder, UnchangedIsMilder DEF Pardon!clearZeroOnHub
  <1>4. pardon' \in Job /\ RingTodo' /\ pardon'.script # "ring" /\ pardoned' = pardoned
    <2>1. CASE Pardon!ToSpokes
      BY <1>1, <2>1, ToSpokesIs, ToSpokesTyped
    <2>2. CASE pardon' = Pardon!NoPardon /\ UNCHANGED <<profiles, blacklisted, pardoned>>
      BY <2>2, NoPardonTyped DEF RingTodo
    <2> QED BY <2>1, <2>2 DEF Pardon!clearZeroOnHub
  <1> QED BY <1>2, <1>3, <1>4, HubStep

\* The reset of one wallet on one spoke.
LEMMA SpokeReset ==
  ASSUME PardonTypeOK, NEW s \in Spokes, NEW w \in Wallets, NEW d \in ScoreData,
         Pardon!clearDefaultBlacklist(s, w, d)
  PROVE  /\ spokeScores' \in [Spokes -> [Wallets -> ScoreData]]
         /\ defaultBlacklist' \in [Spokes -> [Wallets -> BOOLEAN]]
         /\ ~defaultBlacklist'[s][w] /\ (d # 0 => spokeScores'[s][w] = d)
         /\ inFlight' = inFlight
         /\ \A z \in Spokes, x \in Wallets : z # s \/ x # w =>
              /\ defaultBlacklist'[z][x] = defaultBlacklist[z][x]
              /\ spokeScores'[z][x] = spokeScores[z][x]
  <1>1. PICK e : e = IF d > 0 THEN d ELSE spokeScores[s][w]
    OBVIOUS
  <1>2. /\ spokeScores \in [Spokes -> [Wallets -> ScoreData]]
        /\ defaultBlacklist \in [Spokes -> [Wallets -> BOOLEAN]]
        /\ e \in ScoreData /\ (d # 0 => e = d)
    BY <1>1, OperatorAssumption DEF PardonTypeOK
  <1>3. /\ spokeScores' = [spokeScores EXCEPT ![s][w] = e] /\ inFlight' = inFlight
        /\ defaultBlacklist' = [defaultBlacklist EXCEPT ![s][w] = FALSE]
    BY <1>1 DEF Pardon!clearDefaultBlacklist, Pardon!setBlacklist, Pardon!setScore
  <1>4. /\ spokeScores' \in [Spokes -> [Wallets -> ScoreData]] /\ spokeScores'[s][w] = e
        /\ \A z \in Spokes, x \in Wallets : z # s \/ x # w => spokeScores'[z][x] = spokeScores[z][x]
    BY <1>2, <1>3
  <1>5. /\ defaultBlacklist' \in [Spokes -> [Wallets -> BOOLEAN]] /\ ~defaultBlacklist'[s][w]
        /\ \A z \in Spokes, x \in Wallets : z # s \/ x # w =>
             defaultBlacklist'[z][x] = defaultBlacklist[z][x]
    BY <1>2, <1>3
  <1> QED BY <1>2, <1>3, <1>4, <1>5

\* A step on the spokes that spoils nothing for the wallets that were pardoned.
LEMMA SpokesStep ==
  ASSUME PardonInv, UNCHANGED <<profiles, blacklisted, inFlight, pardoned>>,
         spokeScores' \in [Spokes -> [Wallets -> ScoreData]],
         defaultBlacklist' \in [Spokes -> [Wallets -> BOOLEAN]],
         pardon' \in Job, RingTodo', RingInv',
         pardon'.script = "ring" => pardon.script = "ring" /\ pardon'.score = pardon.score,
         \A p \in pardoned, s \in Spokes :
           /\ defaultBlacklist'[s][p[1]] => defaultBlacklist[s][p[1]]
           /\ profiles[p[1]].exists => \/ spokeScores'[s][p[1]] = spokeScores[s][p[1]]
                                       \/ spokeScores'[s][p[1]] = profiles[p[1]].score
  PROVE  PardonInv'
  <1>1. PardonTypeOK'
    BY DEF PardonInv, PardonTypeOK
  <1>2. KeptInv'
    <2>1. SUFFICES ASSUME NEW p \in pardoned, NEW w, w = p[1]
                   PROVE  /\ ~Pardon!StillDefaulter(w)'
                          /\ \A m \in Pardon!Messages :
                               inFlight'[m] > 0 /\ m.wallet = w => Harmless(m)'
                          /\ pardon'.script = "ring" /\ profiles'[w].exists =>
                               pardon'.score[w] = profiles'[w].score
                          /\ \A s \in Spokes :
                               \/ Coming(s, w)'
                               \/ /\ ~defaultBlacklist'[s][w]
                                  /\ p[2] /\ profiles'[w].exists =>
                                       spokeScores'[s][w] = profiles'[w].score
      BY DEF KeptInv
    <2>2. /\ ~Pardon!StillDefaulter(w)
          /\ \A m \in Pardon!Messages : inFlight[m] > 0 /\ m.wallet = w => Harmless(m)
          /\ pardon.script = "ring" /\ profiles[w].exists => pardon.score[w] = profiles[w].score
          /\ \A s \in Spokes :
               \/ Coming(s, w)
               \/ /\ ~defaultBlacklist[s][w]
                  /\ p[2] /\ profiles[w].exists => spokeScores[s][w] = profiles[w].score
      BY <2>1 DEF PardonInv, KeptInv
    <2>3. ~Pardon!StillDefaulter(w)' /\ \A m : Harmless(m)' <=> Harmless(m)
      BY <2>2 DEF Pardon!StillDefaulter, Harmless
    <2>4. \A s : Coming(s, w)' <=> Coming(s, w)
      BY ComingSame
    <2>5. ASSUME NEW s \in Spokes, ~Coming(s, w)
          PROVE  /\ ~defaultBlacklist'[s][w]
                 /\ p[2] /\ profiles'[w].exists => spokeScores'[s][w] = profiles'[w].score
      BY <2>1, <2>2, <2>5
    <2> QED BY <2>2, <2>3, <2>4, <2>5
  <1> QED BY <1>1, <1>2 DEF PardonInv

LEMMA ZeroOnSpokePreserves ==
  ASSUME PardonInv, NEW s \in Spokes, Pardon!clearZeroOnSpoke(s)
  PROVE  PardonInv'
  <1>1. PardonTypeOK /\ pardon.script = "zero" /\ pardon \in Job /\ Zero \in Wallets
    BY OperatorAssumption DEF PardonInv, PardonTypeOK, Pardon!clearZeroOnSpoke
  <1>2. pardon.score[Zero] \in ScoreData
    BY <1>1 DEF Job
  <1>3. UNCHANGED <<profiles, blacklisted, pardoned>>
    BY DEF Pardon!clearZeroOnSpoke
  <1>4. pardon' \in Job /\ pardon'.script # "ring" /\ RingTodo'
    <2>1. pardon' = Pardon!NoPardon \/ pardon' = [pardon EXCEPT !.left = @ \ {s}]
      BY DEF Pardon!clearZeroOnSpoke
    <2>2. CASE pardon' = [pardon EXCEPT !.left = @ \ {s}]
      <3>1. pardon' \in Job /\ pardon'.script = "zero" /\ pardon'.todo = pardon.todo
        BY <1>1, <2>2 DEF Job
      <3> QED BY <1>1, <3>1 DEF PardonInv, RingTodo
    <2>3. CASE pardon' = Pardon!NoPardon
      BY <2>3, NoPardonTyped DEF RingTodo
    <2> QED BY <2>1, <2>2, <2>3
  <1>5. Pardon!clearDefaultBlacklist(s, Zero, pardon.score[Zero]) \/ UNCHANGED Pardon!oappVars
    BY DEF Pardon!clearZeroOnSpoke
  <1>6. /\ spokeScores' \in [Spokes -> [Wallets -> ScoreData]]
        /\ defaultBlacklist' \in [Spokes -> [Wallets -> BOOLEAN]] /\ inFlight' = inFlight
        /\ \A z \in Spokes, x \in Wallets \ {Zero} :
              /\ defaultBlacklist'[z][x] = defaultBlacklist[z][x]
              /\ spokeScores'[z][x] = spokeScores[z][x]
    <2>1. CASE UNCHANGED Pardon!oappVars
      BY <1>1, <2>1 DEF PardonTypeOK, Pardon!oappVars
    <2>2. CASE Pardon!clearDefaultBlacklist(s, Zero, pardon.score[Zero])
      BY <1>1, <1>2, <2>2, SpokeReset
    <2> QED BY <1>5, <2>1, <2>2
  <1>7. \A p \in pardoned : p[1] \in Wallets \ {Zero}
    BY <1>1 DEF PardonTypeOK
  <1>8. RingInv'
    BY <1>4 DEF RingInv
  <1> QED BY <1>3, <1>4, <1>6, <1>7, <1>8, SpokesStep

LEMMA ClearSpokePreserves ==
  ASSUME PardonInv, NEW s \in Spokes, Pardon!clearSpokeOapp(s)
  PROVE  PardonInv'
  <1>1. PardonTypeOK /\ pardon.script = "ring" /\ pardon.at = "spokes" /\ pardon \in Job
    BY DEF PardonInv, PardonTypeOK, Pardon!clearSpokeOapp
  <1>2. PICK w : w = Pardon!Wallet
    OBVIOUS
  <1>3. w \in Wallets /\ pardon.score[w] \in ScoreData
    BY <1>1, <1>2, WalletTyped DEF Job
  <1>4. UNCHANGED <<profiles, blacklisted, pardoned>>
    BY DEF Pardon!clearSpokeOapp
  <1>5. PICK j, k : j = pardon /\ k = pardon'
    OBVIOUS
  <1>6. /\ k \in Job /\ k.script = "ring" /\ k.score = j.score /\ k.sound = j.sound
        /\ k.todo = j.todo /\ k.left = j.left \ {s} /\ k.at \in {"spokes", "broadcast"}
        /\ k.at = "broadcast" => k.left = {}
        /\ j.missed \subseteq k.missed
        /\ s \in k.missed \/ k.missed = j.missed
    <2>1. PICK at, l, ms : /\ at = IF j.left = {s} THEN "broadcast" ELSE j.at
                           /\ l = j.left \ {s} /\ ms = j.missed \cup {s}
      OBVIOUS
    <2>2. j \in Job /\ l \subseteq Spokes /\ ms \subseteq Spokes
          /\ at \in {"spokes", "broadcast"} /\ (at = "broadcast" => l = {})
      BY <1>1, <1>5, <2>1 DEF Job
    <2>3. \/ k = [j EXCEPT !.left = l, !.at = at]
          \/ k = [j EXCEPT !.left = l, !.at = at, !.missed = ms]
      <3>1. /\ [j EXCEPT !.left = @ \ {s}, !.at = IF j.left = {s} THEN "broadcast" ELSE @]
                 = [j EXCEPT !.left = l, !.at = at]
            /\ [[j EXCEPT !.left = l, !.at = at] EXCEPT !.missed = @ \cup {s}]
                 = [j EXCEPT !.left = l, !.at = at, !.missed = ms]
        BY <2>1, <2>2 DEF Job
      <3> QED BY <1>5, <3>1 DEF Pardon!clearSpokeOapp
    <2>4. CASE k = [j EXCEPT !.left = l, !.at = at]
      <3>1. k \in Job
        BY <2>2, <2>4 DEF Job
      <3>2. /\ k.script = j.script /\ k.score = j.score /\ k.sound = j.sound /\ k.todo = j.todo
            /\ k.left = l /\ k.at = at /\ k.missed = j.missed
        BY <2>2, <2>4 DEF Job
      <3> QED BY <1>1, <1>5, <2>1, <2>2, <3>1, <3>2
    <2>5. CASE k = [j EXCEPT !.left = l, !.at = at, !.missed = ms]
      <3>1. k \in Job
        BY <2>2, <2>5 DEF Job
      <3>2. /\ k.script = j.script /\ k.score = j.score /\ k.sound = j.sound /\ k.todo = j.todo
            /\ k.left = l /\ k.at = at /\ k.missed = ms
        BY <2>2, <2>5 DEF Job
      <3> QED BY <1>1, <1>5, <2>1, <2>2, <3>1, <3>2
    <2> QED BY <2>3, <2>4, <2>5
  <1>7. RingTodo'
    BY <1>1, <1>5, <1>6 DEF PardonInv, RingTodo
  <1>8. \/ /\ Pardon!clearDefaultBlacklist(s, w, pardon.score[w]) \/ UNCHANGED Pardon!oappVars
           /\ ~defaultBlacklist'[s][w]
        \/ UNCHANGED Pardon!oappVars /\ s \in k.missed
    <2>1. CASE /\ IF defaultBlacklist[s][Pardon!Wallet]
                  THEN Pardon!clearDefaultBlacklist(s, Pardon!Wallet, pardon.score[Pardon!Wallet])
                  ELSE UNCHANGED Pardon!oappVars
      <3>1. CASE defaultBlacklist[s][w]
        BY <1>1, <1>2, <1>3, <2>1, <3>1, SpokeReset
      <3>2. CASE ~defaultBlacklist[s][w]
        BY <1>2, <2>1, <3>2 DEF Pardon!oappVars
      <3> QED BY <3>1, <3>2
    <2>2. CASE /\ UNCHANGED Pardon!oappVars
               /\ pardon' = [[pardon EXCEPT !.left = @ \ {s},
                                            !.at = IF pardon.left = {s} THEN "broadcast" ELSE @]
                                     EXCEPT !.missed = @ \cup {s}]
      <3>1. s \in pardon'.missed
        BY <1>1, <2>2 DEF Job
      <3> QED BY <1>5, <2>2, <3>1
    <2> QED BY <2>1, <2>2 DEF Pardon!clearSpokeOapp
  <1>9. /\ spokeScores' \in [Spokes -> [Wallets -> ScoreData]]
        /\ defaultBlacklist' \in [Spokes -> [Wallets -> BOOLEAN]] /\ inFlight' = inFlight
        /\ \A z \in Spokes, x \in Wallets : defaultBlacklist'[z][x] => defaultBlacklist[z][x]
        /\ \A z \in Spokes, x \in Wallets :
             \/ spokeScores'[z][x] = spokeScores[z][x]
             \/ x = w /\ (pardon.score[w] # 0 => spokeScores'[z][x] = pardon.score[w])
    <2>1. CASE UNCHANGED Pardon!oappVars
      BY <1>1, <2>1 DEF PardonTypeOK, Pardon!oappVars
    <2>2. CASE Pardon!clearDefaultBlacklist(s, w, pardon.score[w])
      BY <1>1, <1>3, <2>2, SpokeReset
    <2> QED BY <1>8, <2>1, <2>2
  <1>10. RingInv'
    <2>1. SUFFICES ASSUME k.sound PROVE RingInv'
      BY <1>5 DEF RingInv
    <2>2. /\ \A m \in Pardon!Messages : inFlight[m] > 0 => Harmless(m)
          /\ \A x \in Wallets : profiles[x].exists => j.score[x] = profiles[x].score
          /\ ~Pardon!StillDefaulter(w)
          /\ \A z \in Spokes \ (j.left \cup j.missed) : ~defaultBlacklist[z][w]
      BY <1>1, <1>2, <1>5, <1>6, <2>1 DEF PardonInv, RingInv
    <2>3. Pardon!Wallet' = w
      BY <1>2, <1>5, <1>6 DEF Pardon!Wallet
    <2>4. ~Pardon!StillDefaulter(w)' /\ \A m : Harmless(m)' <=> Harmless(m)
      BY <1>4, <2>2 DEF Pardon!StillDefaulter, Harmless
    <2>5. ASSUME NEW z \in Spokes \ (k.left \cup k.missed) PROVE ~defaultBlacklist'[z][w]
      <3>1. CASE z = s
        BY <1>8, <2>5, <3>1
      <3>2. CASE z # s
        <4>1. ~defaultBlacklist[z][w]
          BY <1>6, <2>2, <2>5, <3>2
        <4> QED BY <1>3, <1>9, <2>5, <4>1
      <3> QED BY <3>1, <3>2
    <2>6. ~Pardon!StillDefaulter(Pardon!Wallet)'
      BY <2>3, <2>4 DEF Pardon!StillDefaulter
    <2> QED BY <1>4, <1>5, <1>6, <1>9, <2>2, <2>3, <2>4, <2>5, <2>6 DEF RingInv
  <1>11. \A p \in pardoned, z \in Spokes :
           /\ defaultBlacklist'[z][p[1]] => defaultBlacklist[z][p[1]]
           /\ profiles[p[1]].exists => \/ spokeScores'[z][p[1]] = spokeScores[z][p[1]]
                                       \/ spokeScores'[z][p[1]] = profiles[p[1]].score
    <2>1. ASSUME NEW p \in pardoned, NEW z \in Spokes, NEW x, x = p[1]
          PROVE  /\ defaultBlacklist'[z][x] => defaultBlacklist[z][x]
                 /\ profiles[x].exists => \/ spokeScores'[z][x] = spokeScores[z][x]
                                          \/ spokeScores'[z][x] = profiles[x].score
      <3>1. x \in Wallets
        BY <1>1, <2>1 DEF PardonTypeOK
      <3>2. profiles[x].exists => pardon.score[x] = profiles[x].score /\ profiles[x].score # 0
        BY <1>1, <2>1, <3>1 DEF PardonInv, KeptInv, PardonTypeOK
      <3> QED BY <1>9, <3>1, <3>2
    <2> QED BY <2>1
  <1> QED BY <1>1, <1>4, <1>5, <1>6, <1>7, <1>9, <1>10, <1>11, SpokesStep

-----------------------------------------------------------------------------
(* The messages.                                                           *)

LEMMA MessageTyped ==
  /\ \A m \in Pardon!Messages :
       /\ m.wallet \in Wallets /\ m.dst \in Spokes
       /\ m.type \in {"SCORE_UPDATE", "WHITELIST"} => m.data \in ScoreData
  /\ \A w \in Wallets, d \in ScoreData, s \in Spokes :
       [type |-> "WHITELIST", wallet |-> w, data |-> d, dst |-> s] \in Pardon!Messages
  <1>1. \A m \in Pardon!Messages :
          \E t \in Pardon!MessageTypes :
            m \in [type : {t}, wallet : Wallets, data : Pardon!Payload(t), dst : Spokes]
    BY DEF Pardon!Messages
  <1>2. \A m \in Pardon!Messages :
          /\ m.wallet \in Wallets /\ m.dst \in Spokes
          /\ m.type \in {"SCORE_UPDATE", "WHITELIST"} => m.data \in ScoreData
    BY <1>1 DEF Pardon!Payload
  <1>3. "WHITELIST" \in Pardon!MessageTypes /\ Pardon!Payload("WHITELIST") = ScoreData
    BY DEF Pardon!MessageTypes, Pardon!Payload
  <1>4. \A w \in Wallets, d \in ScoreData, s \in Spokes :
          [type |-> "WHITELIST", wallet |-> w, data |-> d, dst |-> s] \in Pardon!Messages
    BY <1>3 DEF Pardon!Messages
  <1> QED BY <1>2, <1>4

\* Messages that are msgs join those on their way.
LEMMA MessagesSent ==
  ASSUME PardonTypeOK, NEW msgs,
         inFlight' = [m \in Pardon!Messages |-> inFlight[m] + (IF m \in msgs THEN 1 ELSE 0)]
  PROVE  /\ inFlight' \in [Pardon!Messages -> Nat]
         /\ \A m \in Pardon!Messages : inFlight'[m] > 0 <=> inFlight[m] > 0 \/ m \in msgs
         /\ \A s, w : Coming(s, w) => Coming(s, w)'
  <1>1. inFlight \in [Pardon!Messages -> Nat]
    BY DEF PardonTypeOK
  <1>2. \A m \in Pardon!Messages : /\ inFlight[m] \in Nat
                                   /\ inFlight'[m] = inFlight[m] + (IF m \in msgs THEN 1 ELSE 0)
    BY <1>1
  <1>3. \A m \in Pardon!Messages : /\ inFlight'[m] \in Nat
                                   /\ inFlight'[m] > 0 <=> inFlight[m] > 0 \/ m \in msgs
    BY <1>2
  <1>4. inFlight' \in [Pardon!Messages -> Nat]
    BY <1>3
  <1>5. \A s, w : Coming(s, w) => Coming(s, w)'
    BY <1>3 DEF Coming
  <1> QED BY <1>3, <1>4, <1>5

\* One broadcast for all spokes ends a ring's wallet.
LEMMA BroadcastPreserves ==
  ASSUME PardonInv, Pardon!broadcastSpokeWhitelist
  PROVE  PardonInv'
  <1>1. PardonTypeOK /\ pardon.script = "ring" /\ pardon.at = "broadcast" /\ pardon \in Job
    BY DEF PardonInv, PardonTypeOK, Pardon!broadcastSpokeWhitelist
  <1>2. PICK w : w = Pardon!Wallet
    OBVIOUS
  <1>3. w \in Wallets /\ w # Zero /\ pardon.score[w] \in ScoreData
    BY <1>1, <1>2, WalletTyped DEF Job
  <1>4. PICK msgs : msgs = {m \in Pardon!Messages : /\ m.type = "WHITELIST" /\ m.wallet = w
                                                    /\ m.data = pardon.score[w]}
    OBVIOUS
  <1>5. /\ profiles' = profiles /\ blacklisted' = blacklisted
        /\ spokeScores' = spokeScores /\ defaultBlacklist' = defaultBlacklist
    BY DEF Pardon!broadcastSpokeWhitelist
  <1>6. /\ \A m : Harmless(m)' <=> Harmless(m)
        /\ \A x : Pardon!StillDefaulter(x)' <=> Pardon!StillDefaulter(x)
    BY <1>5 DEF Harmless, Pardon!StillDefaulter
  <1>7. \E told \in BOOLEAN, ok \in BOOLEAN, new \in SUBSET msgs :
           /\ inFlight' = [m \in Pardon!Messages |-> inFlight[m] + (IF m \in new THEN 1 ELSE 0)]
           /\ Pardon!Done([pardon EXCEPT !.sound = ok], told)
           /\ ok => pardon.sound /\ (told \/ pardon.missed = {})
           /\ told => new = msgs
    <2>1. CASE /\ inFlight' = [m \in Pardon!Messages |-> inFlight[m] + (IF m \in msgs THEN 1 ELSE 0)]
               /\ Pardon!Done(pardon, TRUE)
      <3>1. PICK j : j = pardon
        OBVIOUS
      <3>2. j.sound \in BOOLEAN /\ j = [j EXCEPT !.sound = j.sound]
        BY <1>1, <3>1 DEF Job
      <3>3. Pardon!Done([pardon EXCEPT !.sound = j.sound], TRUE)
        BY <2>1, <3>1, <3>2
      <3> QED BY <2>1, <3>1, <3>2, <3>3
    <2>2. CASE /\ inFlight' = inFlight
               /\ Pardon!Done([pardon EXCEPT !.sound = @ /\ pardon.missed = {}], FALSE)
      <3>1. PICK j : j = pardon
        OBVIOUS
      <3>2. PICK ok \in BOOLEAN : ok = (j.sound /\ j.missed = {})
        BY <1>1, <3>1 DEF Job
      <3>3. [j EXCEPT !.sound = @ /\ j.missed = {}] = [j EXCEPT !.sound = ok]
        BY <1>1, <3>1, <3>2 DEF Job
      <3>4. Pardon!Done([pardon EXCEPT !.sound = ok], FALSE)
        BY <2>2, <3>1, <3>3
      <3>5. inFlight' = [m \in Pardon!Messages |-> inFlight[m] + (IF m \in {} THEN 1 ELSE 0)]
        BY <1>1, <2>2 DEF PardonTypeOK
      <3>6. ok => pardon.sound /\ (FALSE \/ pardon.missed = {})
        BY <3>1, <3>2
      <3> WITNESS FALSE \in BOOLEAN, ok \in BOOLEAN, {} \in SUBSET msgs
      <3> QED BY <3>4, <3>5, <3>6
    <2> QED BY <1>2, <1>4, <2>1, <2>2 DEF Pardon!broadcastSpokeWhitelist
  <1>8. PICK told \in BOOLEAN, ok \in BOOLEAN, new \in SUBSET msgs :
           /\ inFlight' = [m \in Pardon!Messages |-> inFlight[m] + (IF m \in new THEN 1 ELSE 0)]
           /\ Pardon!Done([pardon EXCEPT !.sound = ok], told)
           /\ ok => pardon.sound /\ (told \/ pardon.missed = {})
           /\ told => new = msgs
    BY <1>7
  <1>9. /\ pardon' \in Job /\ RingTodo'
        /\ pardon'.script = "ring" => /\ pardon'.score = pardon.score /\ pardon'.at = "hub"
                                      /\ pardon'.sound = ok
        /\ pardoned' = IF ok THEN pardoned \cup {<<w, told>>} ELSE pardoned
    <2>1. PICK job : job = [pardon EXCEPT !.sound = ok]
      OBVIOUS
    <2>2. /\ job \in Job /\ job.todo = pardon.todo /\ job.script = pardon.script
          /\ job.score = pardon.score /\ job.sound = ok
      <3>1. PICK j : j = pardon
        OBVIOUS
      <3>2. j \in Job /\ job = [j EXCEPT !.sound = ok]
        BY <1>1, <2>1, <3>1
      <3>3. /\ job \in Job /\ job.todo = j.todo /\ job.script = j.script
            /\ job.score = j.score /\ job.sound = ok
        BY <3>2 DEF Job
      <3> QED BY <3>1, <3>3
    <2>3. Pardon!Done(job, told)
      BY <1>8, <2>1
    <2> QED BY <1>1, <1>2, <2>2, <2>3, DoneTyped
  <1>10. /\ inFlight' \in [Pardon!Messages -> Nat]
         /\ \A m \in Pardon!Messages : inFlight'[m] > 0 <=> inFlight[m] > 0 \/ m \in new
         /\ \A s, x : Coming(s, x) => Coming(s, x)'
    BY <1>1, <1>8, MessagesSent
  <1>11. PardonTypeOK'
    <2>1. pardoned' \subseteq (Wallets \ {Zero}) \X BOOLEAN
      BY <1>1, <1>3, <1>8, <1>9 DEF PardonTypeOK
    <2> QED BY <1>1, <1>5, <1>9, <1>10, <2>1 DEF PardonTypeOK
  <1>12. \A m \in new : /\ m.type = "WHITELIST" /\ m.wallet = w
                        /\ m.data = pardon.score[w]
    BY <1>4, <1>8
  <1>13. ASSUME ok
         PROVE  /\ \A m \in Pardon!Messages : inFlight'[m] > 0 => Harmless(m)
                /\ \A x \in Wallets : profiles[x].exists => pardon.score[x] = profiles[x].score
                /\ ~Pardon!StillDefaulter(w)
                /\ told \/ \A s \in Spokes : ~defaultBlacklist[s][w]
    <2>1. pardon.sound /\ (told \/ pardon.missed = {})
      BY <1>8, <1>13
    <2>2. /\ \A m \in Pardon!Messages : inFlight[m] > 0 => Harmless(m)
          /\ \A x \in Wallets : profiles[x].exists => pardon.score[x] = profiles[x].score
          /\ ~Pardon!StillDefaulter(w)
          /\ \A s \in Spokes \ (pardon.left \cup pardon.missed) : ~defaultBlacklist[s][w]
          /\ pardon.left = {}
      BY <1>1, <1>2, <2>1 DEF PardonInv, RingInv
    <2>3. \A m \in new : Harmless(m)
      BY <1>3, <1>12, <2>2 DEF Harmless
    <2> QED BY <1>10, <2>1, <2>2, <2>3
  <1>14. RingInv'
    <2>1. SUFFICES ASSUME pardon'.script = "ring", pardon'.sound PROVE RingInv'
      BY DEF RingInv
    <2>2. ok /\ pardon'.score = pardon.score /\ pardon'.at = "hub"
      BY <1>9, <2>1
    <2> QED BY <1>5, <1>6, <1>13, <2>2 DEF RingInv
  <1>15. KeptInv'
    <2>1. SUFFICES ASSUME NEW p \in pardoned', NEW x, x = p[1]
                   PROVE  /\ ~Pardon!StillDefaulter(x)'
                          /\ \A m \in Pardon!Messages :
                               inFlight'[m] > 0 /\ m.wallet = x => Harmless(m)'
                          /\ pardon'.script = "ring" /\ profiles'[x].exists =>
                               pardon'.score[x] = profiles'[x].score
                          /\ \A s \in Spokes :
                               \/ Coming(s, x)'
                               \/ /\ ~defaultBlacklist'[s][x]
                                  /\ p[2] /\ profiles'[x].exists =>
                                       spokeScores'[s][x] = profiles'[x].score
      BY DEF KeptInv
    <2>2. CASE p \in pardoned
      <3>1. /\ ~Pardon!StillDefaulter(x)
            /\ \A m \in Pardon!Messages : inFlight[m] > 0 /\ m.wallet = x => Harmless(m)
            /\ profiles[x].exists => pardon.score[x] = profiles[x].score
            /\ \A s \in Spokes :
                 \/ Coming(s, x)
                 \/ /\ ~defaultBlacklist[s][x]
                    /\ p[2] /\ profiles[x].exists => spokeScores[s][x] = profiles[x].score
        BY <1>1, <2>1, <2>2 DEF PardonInv, KeptInv
      <3>2. \A m \in new : m.wallet = x => Harmless(m)
        BY <1>12, <3>1 DEF Harmless
      <3> QED BY <1>5, <1>6, <1>9, <1>10, <3>1, <3>2
    <2>3. CASE p \notin pardoned
      <3>1. ok /\ p = <<w, told>> /\ x = w /\ p[2] = told
        BY <1>9, <2>1, <2>3
      <3>2. ASSUME NEW s \in Spokes, told PROVE Coming(s, w)'
        <4>1. PICK m : m = [type |-> "WHITELIST", wallet |-> w, data |-> pardon.score[w], dst |-> s]
          OBVIOUS
        <4>2. m \in Pardon!Messages
          BY <1>3, <4>1, MessageTyped
        <4>3. m \in new
          BY <1>4, <1>8, <3>2, <4>1, <4>2
        <4> QED BY <1>10, <4>1, <4>2, <4>3 DEF Coming
      <3>3. \A s \in Spokes : Coming(s, w)' \/ (~defaultBlacklist'[s][w] /\ ~told)
        BY <1>5, <1>13, <3>1, <3>2
      <3> QED BY <1>3, <1>5, <1>6, <1>9, <1>13, <3>1, <3>3
    <2> QED BY <2>2, <2>3
  <1> QED BY <1>9, <1>11, <1>14, <1>15 DEF PardonInv

\* A liquidation or a new score: the wallets it concerns count no longer as
\* pardoned, and no ring that runs is sound any more.
LEMMA DisturbStep ==
  ASSUME PardonInv, NEW ws, Pardon!Disturb(ws), NEW msgs, Pardon!Send(msgs),
         \A m \in msgs : m.wallet \in ws,
         profiles' \in [Wallets -> Pardon!Profile], blacklisted' \in [Wallets -> BOOLEAN],
         \A x \in Wallets : profiles'[x].exists => profiles'[x].score \in ScoreData \ {0},
         \A x \in Wallets \ ws : /\ Pardon!StillDefaulter(x)' => Pardon!StillDefaulter(x)
                                 /\ profiles'[x].exists = profiles[x].exists
                                 /\ profiles'[x].score = profiles[x].score
  PROVE  PardonInv'
  <1>1. PardonTypeOK /\ pardon \in Job
    BY DEF PardonInv, PardonTypeOK
  <1>2. /\ inFlight' = [m \in Pardon!Messages |-> inFlight[m] + (IF m \in msgs THEN 1 ELSE 0)]
        /\ spokeScores' = spokeScores /\ defaultBlacklist' = defaultBlacklist
        /\ pardoned' = {p \in pardoned : p[1] \notin ws}
    BY DEF Pardon!Send, Pardon!Disturb
  <1>3. /\ inFlight' \in [Pardon!Messages -> Nat]
        /\ \A m \in Pardon!Messages : inFlight'[m] > 0 <=> inFlight[m] > 0 \/ m \in msgs
        /\ \A s, x : Coming(s, x) => Coming(s, x)'
    BY <1>1, <1>2, MessagesSent
  <1>4. /\ pardon' \in Job /\ pardon'.script = pardon.script /\ pardon'.score = pardon.score
        /\ pardon'.todo = pardon.todo
        /\ pardon.script # "none" => pardon'.sound = FALSE
    <2>1. PICK j, k : j = pardon /\ k = pardon'
      OBVIOUS
    <2>2. CASE j.script = "none" /\ k = j
      BY <1>1, <2>1, <2>2
    <2>3. CASE j.script # "none" /\ k = [j EXCEPT !.sound = FALSE]
      BY ZenonT(60), <1>1, <2>1, <2>3 DEF Job
    <2> QED BY <2>1, <2>2, <2>3 DEF Pardon!Disturb
  <1>5. PardonTypeOK'
    BY <1>1, <1>2, <1>3, <1>4 DEF PardonTypeOK
  <1>6. RingTodo' /\ RingInv'
    BY <1>4 DEF PardonInv, RingTodo, RingInv
  <1>7. KeptInv'
    <2>1. SUFFICES ASSUME NEW p \in pardoned', NEW x, x = p[1]
                   PROVE  /\ ~Pardon!StillDefaulter(x)'
                          /\ \A m \in Pardon!Messages :
                               inFlight'[m] > 0 /\ m.wallet = x => Harmless(m)'
                          /\ pardon'.script = "ring" /\ profiles'[x].exists =>
                               pardon'.score[x] = profiles'[x].score
                          /\ \A s \in Spokes :
                               \/ Coming(s, x)'
                               \/ /\ ~defaultBlacklist'[s][x]
                                  /\ p[2] /\ profiles'[x].exists =>
                                       spokeScores'[s][x] = profiles'[x].score
      BY DEF KeptInv
    <2>2. p \in pardoned /\ x \in Wallets \ ws
      BY <1>1, <1>2, <2>1 DEF PardonTypeOK
    <2>3. /\ ~Pardon!StillDefaulter(x)
          /\ \A m \in Pardon!Messages : inFlight[m] > 0 /\ m.wallet = x => Harmless(m)
          /\ pardon.script = "ring" /\ profiles[x].exists => pardon.score[x] = profiles[x].score
          /\ \A s \in Spokes :
               \/ Coming(s, x)
               \/ /\ ~defaultBlacklist[s][x]
                  /\ p[2] /\ profiles[x].exists => spokeScores[s][x] = profiles[x].score
      BY <2>1, <2>2 DEF PardonInv, KeptInv
    <2>4. /\ profiles'[x].exists = profiles[x].exists /\ profiles'[x].score = profiles[x].score
          /\ ~Pardon!StillDefaulter(x)'
      BY <2>2, <2>3
    <2>5. \A m \in Pardon!Messages : inFlight'[m] > 0 /\ m.wallet = x => Harmless(m)'
      <3>1. ASSUME NEW m \in Pardon!Messages, inFlight'[m] > 0, m.wallet = x PROVE Harmless(m)'
        <4>1. inFlight[m] > 0
          BY <1>3, <2>2, <3>1
        <4>2. Harmless(m)
          BY <2>3, <3>1, <4>1
        <4> QED BY <2>4, <3>1, <4>2 DEF Harmless
      <3> QED BY <3>1
    <2> QED BY <1>2, <1>3, <1>4, <2>3, <2>4, <2>5
  <1> QED BY <1>5, <1>6, <1>7 DEF PardonInv

LEMMA LiquidatePreserves ==
  ASSUME PardonInv, NEW d \in Debtors, NEW ws \in SUBSET Wallets, Pardon!Liquidate(d, ws)
  PROVE  PardonInv'
  <1>1. PardonTypeOK /\ d \in Wallets
    BY OperatorAssumption DEF PardonInv
  <1>2. PICK msgs : msgs = {m \in Pardon!Messages : m.type = "DEFAULT" /\ m.wallet \in {d} \cup ws}
    OBVIOUS
  <1>3. Pardon!Send(msgs) /\ Pardon!Disturb({d} \cup ws)
    BY <1>2 DEF Pardon!Liquidate
  <1>4. PICK p : p = profiles[d]
    OBVIOUS
  <1>5. PICK c : c = p.defaultCount + 1
    OBVIOUS
  <1>6. profiles' = [profiles EXCEPT ![d] = [p EXCEPT !.loanStatus = 3, !.defaultCount = c]]
        /\ p.defaultCount < MaxUint8
    BY <1>1, <1>4, <1>5 DEF Pardon!Liquidate, PardonTypeOK, Pardon!Profile
  <1>7. PICK q : q = [p EXCEPT !.loanStatus = 3, !.defaultCount = c]
    OBVIOUS
  <1>8. q \in Pardon!Profile /\ q.exists = p.exists /\ q.score = p.score
    <2>1. p \in Pardon!Profile
      BY <1>1, <1>4 DEF PardonTypeOK
    <2>2. c \in 0 .. MaxUint8 /\ 3 \in 0 .. 3
      BY <1>5, <1>6, <2>1, OperatorAssumption DEF Pardon!Profile
    <2> QED BY <1>7, <2>1, <2>2 DEF Pardon!Profile
  <1>9. /\ profiles' \in [Wallets -> Pardon!Profile] /\ profiles'[d] = q
        /\ \A x \in Wallets \ {d} : profiles'[x] = profiles[x]
    BY <1>1, <1>6, <1>7, <1>8 DEF PardonTypeOK
  <1>10. /\ blacklisted' \in [Wallets -> BOOLEAN]
         /\ \A x \in Wallets \ ws : blacklisted'[x] = blacklisted[x]
    <2>1. blacklisted' = [x \in Wallets |-> blacklisted[x] \/ x \in ws]
      BY DEF Pardon!Liquidate
    <2>2. blacklisted \in [Wallets -> BOOLEAN]
      BY <1>1 DEF PardonTypeOK
    <2>3. \A x \in Wallets : (blacklisted[x] \/ x \in ws) \in BOOLEAN
      BY <2>2
    <2> QED BY <2>1, <2>2, <2>3
  <1>11. \A x \in Wallets : /\ profiles'[x].exists = profiles[x].exists
                            /\ profiles'[x].score = profiles[x].score
    BY <1>4, <1>8, <1>9
  <1>12. \A x \in Wallets : profiles'[x].exists => profiles'[x].score \in ScoreData \ {0}
    BY <1>1, <1>11 DEF PardonTypeOK
  <1>13. \A x \in Wallets \ ({d} \cup ws) : Pardon!StillDefaulter(x)' => Pardon!StillDefaulter(x)
    BY <1>9, <1>10 DEF Pardon!StillDefaulter
  <1>14. \A m \in msgs : m.wallet \in {d} \cup ws
    BY <1>2
  <1>15. PICK all : all = {d} \cup ws
    OBVIOUS
  <1> QED BY <1>3, <1>9, <1>10, <1>11, <1>12, <1>13, <1>14, <1>15, DisturbStep

LEMMA RescorePreserves ==
  ASSUME PardonInv, NEW w \in Wallets, NEW score \in HubScores, Pardon!Rescore(w, score)
  PROVE  PardonInv'
  <1>1. PardonTypeOK /\ score \in ScoreData \ {0} /\ score \in Nat
    BY OperatorAssumption DEF PardonInv
  <1>2. PICK msgs : msgs = {m \in Pardon!Messages : /\ m.type = "SCORE_UPDATE" /\ m.wallet = w
                                                    /\ m.data = score}
    OBVIOUS
  <1>3. Pardon!Send(msgs) /\ Pardon!Disturb({w})
    BY <1>2 DEF Pardon!Rescore
  <1>4. /\ profiles' = [profiles EXCEPT ![w].score = score] /\ blacklisted' = blacklisted
    BY DEF Pardon!Rescore, Pardon!updateScore
  <1>5. PICK p, q : p = profiles[w] /\ q = [p EXCEPT !.score = score]
    OBVIOUS
  <1>6. q \in Pardon!Profile /\ q.score = score
    BY ZenonT(60), <1>1, <1>5 DEF PardonTypeOK, Pardon!Profile
  <1>7. /\ profiles' \in [Wallets -> Pardon!Profile] /\ profiles'[w] = q
        /\ \A x \in Wallets \ {w} : profiles'[x] = profiles[x]
    BY <1>1, <1>4, <1>5, <1>6 DEF PardonTypeOK
  <1>8. \A x \in Wallets : profiles'[x].exists => profiles'[x].score \in ScoreData \ {0}
    BY <1>1, <1>6, <1>7 DEF PardonTypeOK
  <1>9. \A x \in Wallets \ {w} : Pardon!StillDefaulter(x)' => Pardon!StillDefaulter(x)
    BY <1>4, <1>7 DEF Pardon!StillDefaulter
  <1>10. blacklisted' \in [Wallets -> BOOLEAN] /\ \A m \in msgs : m.wallet \in {w}
    BY <1>1, <1>2, <1>4 DEF PardonTypeOK
  <1> QED BY <1>3, <1>7, <1>8, <1>9, <1>10, DisturbStep

\* One entry of a table changes.
LEMMA EntrySet ==
  ASSUME NEW R, NEW C, NEW V, NEW f \in [R -> [C -> V]], NEW r \in R, NEW c \in C, NEW v \in V,
         NEW g, g = [f EXCEPT ![r][c] = v]
  PROVE  /\ g \in [R -> [C -> V]] /\ g[r][c] = v
         /\ \A i \in R, k \in C : i # r \/ k # c => g[i][k] = f[i][k]
  OBVIOUS

\* A message that a spoke receives.
LEMMA ReceiveEffect ==
  ASSUME PardonTypeOK, NEW m \in Pardon!Messages, Pardon!lzReceive(m)
  PROVE  /\ inFlight[m] > 0 /\ inFlight' \in [Pardon!Messages -> Nat]
         /\ \A n \in Pardon!Messages : n # m => inFlight'[n] = inFlight[n]
         /\ \A n \in Pardon!Messages : inFlight'[n] > 0 => inFlight[n] > 0
         /\ spokeScores' \in [Spokes -> [Wallets -> ScoreData]]
         /\ defaultBlacklist' \in [Spokes -> [Wallets -> BOOLEAN]]
         /\ \A z \in Spokes, x \in Wallets : z # m.dst \/ x # m.wallet =>
              /\ defaultBlacklist'[z][x] = defaultBlacklist[z][x]
              /\ spokeScores'[z][x] = spokeScores[z][x]
         /\ m.type = "WHITELIST" =>
              /\ ~defaultBlacklist'[m.dst][m.wallet]
              /\ m.data # 0 => spokeScores'[m.dst][m.wallet] = m.data
  <1>1. PICK s, w : s = m.dst /\ w = m.wallet /\ s \in Spokes /\ w \in Wallets
    BY MessageTyped
  <1>2. /\ spokeScores \in [Spokes -> [Wallets -> ScoreData]]
        /\ defaultBlacklist \in [Spokes -> [Wallets -> BOOLEAN]]
        /\ inFlight \in [Pardon!Messages -> Nat]
    BY DEF PardonTypeOK
  <1>3. inFlight[m] > 0 /\ inFlight' = [inFlight EXCEPT ![m] = @ - 1]
    BY DEF Pardon!lzReceive
  <1>4. /\ inFlight' \in [Pardon!Messages -> Nat]
        /\ \A n \in Pardon!Messages : n # m => inFlight'[n] = inFlight[n]
        /\ \A n \in Pardon!Messages : inFlight'[n] > 0 => inFlight[n] > 0
    <2>1. inFlight[m] - 1 \in Nat
      BY <1>2, <1>3
    <2> QED BY <1>2, <1>3, <2>1
  <1>5. \E d \in ScoreData :
          /\ spokeScores' = [spokeScores EXCEPT ![s][w] = d] \/ spokeScores' = spokeScores
          /\ m.type = "WHITELIST" =>
               /\ spokeScores' = [spokeScores EXCEPT ![s][w] = d]
               /\ m.data # 0 => d = m.data
    <2>1. CASE m.type = "SCORE_UPDATE" /\ Pardon!setScore(m.dst, m.wallet, m.data)
      <3>1. m.data \in ScoreData
        BY <2>1, MessageTyped
      <3> QED BY <1>1, <2>1, <3>1 DEF Pardon!setScore
    <2>2. CASE m.type # "WHITELIST" /\ spokeScores' = spokeScores
      BY <2>2, OperatorAssumption
    <2>3. CASE m.type = "DEFAULT" /\ Pardon!setScore(m.dst, m.wallet, 310)
      BY <1>1, <2>3, OperatorAssumption DEF Pardon!setScore
    <2>4. CASE /\ m.type = "WHITELIST"
               /\ Pardon!setScore(m.dst, m.wallet,
                                  IF m.data > 0 THEN m.data ELSE spokeScores[m.dst][m.wallet])
      <3>1. PICK d : d = IF m.data > 0 THEN m.data ELSE spokeScores[s][w]
        OBVIOUS
      <3>2. m.data \in ScoreData /\ m.data \in Nat
        BY <2>4, MessageTyped, OperatorAssumption
      <3>3. d \in ScoreData /\ (m.data # 0 => d = m.data)
        BY <1>1, <1>2, <3>1, <3>2
      <3>4. spokeScores' = [spokeScores EXCEPT ![s][w] = d]
        BY <1>1, <2>4, <3>1 DEF Pardon!setScore
      <3> QED BY <3>3, <3>4
    <2> QED BY <2>1, <2>2, <2>3, <2>4 DEF Pardon!lzReceive
  <1>6. \E b \in BOOLEAN :
          /\ \/ defaultBlacklist' = [defaultBlacklist EXCEPT ![s][w] = b]
             \/ defaultBlacklist' = defaultBlacklist
          /\ m.type = "WHITELIST" =>
               defaultBlacklist' = [defaultBlacklist EXCEPT ![s][w] = b] /\ b = FALSE
    BY <1>1 DEF Pardon!lzReceive, Pardon!setBlacklist
  <1>7. PICK d \in ScoreData :
          /\ spokeScores' = [spokeScores EXCEPT ![s][w] = d] \/ spokeScores' = spokeScores
          /\ m.type = "WHITELIST" =>
               /\ spokeScores' = [spokeScores EXCEPT ![s][w] = d]
               /\ m.data # 0 => d = m.data
    BY <1>5
  <1>8. PICK b \in BOOLEAN :
          /\ \/ defaultBlacklist' = [defaultBlacklist EXCEPT ![s][w] = b]
             \/ defaultBlacklist' = defaultBlacklist
          /\ m.type = "WHITELIST" =>
               defaultBlacklist' = [defaultBlacklist EXCEPT ![s][w] = b] /\ b = FALSE
    BY <1>6
  <1>9. /\ spokeScores' \in [Spokes -> [Wallets -> ScoreData]]
        /\ \A z \in Spokes, x \in Wallets : z # s \/ x # w => spokeScores'[z][x] = spokeScores[z][x]
        /\ m.type = "WHITELIST" => (m.data # 0 => spokeScores'[s][w] = m.data)
    <2>1. CASE spokeScores' = spokeScores /\ m.type # "WHITELIST"
      BY <1>2, <2>1
    <2>2. CASE spokeScores' = [spokeScores EXCEPT ![s][w] = d]
      <3>1. PICK f, g : f = spokeScores /\ g = spokeScores'
        OBVIOUS
      <3>2. /\ g \in [Spokes -> [Wallets -> ScoreData]] /\ g[s][w] = d
            /\ \A z \in Spokes, x \in Wallets : z # s \/ x # w => g[z][x] = f[z][x]
        BY <1>1, <1>2, <1>7, <2>2, <3>1, EntrySet
      <3> QED BY <1>7, <3>1, <3>2
    <2> QED BY <1>7, <2>1, <2>2
  <1>10. /\ defaultBlacklist' \in [Spokes -> [Wallets -> BOOLEAN]]
         /\ \A z \in Spokes, x \in Wallets : z # s \/ x # w =>
              defaultBlacklist'[z][x] = defaultBlacklist[z][x]
         /\ m.type = "WHITELIST" => ~defaultBlacklist'[s][w]
    <2>1. CASE defaultBlacklist' = defaultBlacklist /\ m.type # "WHITELIST"
      BY <1>2, <2>1
    <2>2. CASE defaultBlacklist' = [defaultBlacklist EXCEPT ![s][w] = b]
      <3>1. PICK f, g : f = defaultBlacklist /\ g = defaultBlacklist'
        OBVIOUS
      <3>2. /\ g \in [Spokes -> [Wallets -> BOOLEAN]] /\ g[s][w] = b
            /\ \A z \in Spokes, x \in Wallets : z # s \/ x # w => g[z][x] = f[z][x]
        BY <1>1, <1>2, <1>8, <2>2, <3>1, EntrySet
      <3>3. m.type = "WHITELIST" => ~b
        <4>1. ASSUME m.type = "WHITELIST" PROVE ~b
          <5>1. defaultBlacklist' = [defaultBlacklist EXCEPT ![s][w] = FALSE]
            BY <1>8, <4>1
          <5>2. g[s][w] = FALSE
            BY <1>1, <1>2, <3>1, <5>1, EntrySet
          <5> QED BY <3>2, <5>2
        <4> QED BY <4>1
      <3> QED BY <3>1, <3>2, <3>3
    <2> QED BY <1>8, <2>1, <2>2
  <1> QED BY <1>1, <1>3, <1>4, <1>9, <1>10

LEMMA ReceivePreserves ==
  ASSUME PardonInv, NEW m \in Pardon!Messages, Pardon!Receive(m)
  PROVE  PardonInv'
  <1>1. PardonTypeOK /\ Pardon!lzReceive(m)
    BY DEF PardonInv, Pardon!Receive
  <1>2. /\ profiles' = profiles /\ blacklisted' = blacklisted /\ pardon' = pardon
        /\ pardoned' = pardoned
    BY DEF Pardon!Receive
  <1>3. /\ inFlight[m] > 0 /\ inFlight' \in [Pardon!Messages -> Nat]
        /\ \A n \in Pardon!Messages : n # m => inFlight'[n] = inFlight[n]
        /\ \A n \in Pardon!Messages : inFlight'[n] > 0 => inFlight[n] > 0
        /\ spokeScores' \in [Spokes -> [Wallets -> ScoreData]]
        /\ defaultBlacklist' \in [Spokes -> [Wallets -> BOOLEAN]]
        /\ \A z \in Spokes, x \in Wallets : z # m.dst \/ x # m.wallet =>
             /\ defaultBlacklist'[z][x] = defaultBlacklist[z][x]
             /\ spokeScores'[z][x] = spokeScores[z][x]
        /\ m.type = "WHITELIST" =>
             /\ ~defaultBlacklist'[m.dst][m.wallet]
             /\ m.data # 0 => spokeScores'[m.dst][m.wallet] = m.data
    BY <1>1, ReceiveEffect
  <1>4. PardonTypeOK' /\ RingTodo'
    BY <1>1, <1>2, <1>3 DEF PardonInv, PardonTypeOK, RingTodo
  <1>5. /\ \A n : Harmless(n)' <=> Harmless(n)
        /\ \A x : Pardon!StillDefaulter(x)' <=> Pardon!StillDefaulter(x)
        /\ Pardon!Wallet' = Pardon!Wallet
    BY <1>2 DEF Harmless, Pardon!StillDefaulter, Pardon!Wallet
  <1>6. Harmless(m) => \A z \in Spokes, x \in Wallets :
                         defaultBlacklist'[z][x] => defaultBlacklist[z][x]
    BY <1>3 DEF Harmless
  <1>7. RingInv'
    <2>1. SUFFICES ASSUME pardon.script = "ring", pardon.sound PROVE RingInv'
      BY <1>2 DEF RingInv
    <2>2. /\ \A n \in Pardon!Messages : inFlight[n] > 0 => Harmless(n)
          /\ \A x \in Wallets : profiles[x].exists => pardon.score[x] = profiles[x].score
          /\ pardon.at # "hub" =>
               /\ ~Pardon!StillDefaulter(Pardon!Wallet)
               /\ \A s \in Spokes \ (pardon.left \cup pardon.missed) :
                     ~defaultBlacklist[s][Pardon!Wallet]
          /\ pardon.at = "broadcast" => pardon.left = {}
      BY <2>1 DEF PardonInv, RingInv
    <2>3. Pardon!Wallet \in Wallets
      BY <2>1, WalletTyped
    <2>4. pardon.at # "hub" => ~Pardon!StillDefaulter(Pardon!Wallet)'
      BY <1>5, <2>2 DEF Pardon!StillDefaulter
    <2>5. pardon.at # "hub" => \A s \in Spokes \ (pardon.left \cup pardon.missed) :
                                  ~defaultBlacklist'[s][Pardon!Wallet]
      BY <1>3, <1>6, <2>2, <2>3
    <2> QED BY <1>2, <1>3, <1>5, <2>2, <2>4, <2>5 DEF RingInv
  <1>8. KeptInv'
    <2>1. SUFFICES ASSUME NEW p \in pardoned, NEW x, x = p[1]
                   PROVE  /\ ~Pardon!StillDefaulter(x)'
                          /\ \A n \in Pardon!Messages :
                               inFlight'[n] > 0 /\ n.wallet = x => Harmless(n)'
                          /\ pardon'.script = "ring" /\ profiles'[x].exists =>
                               pardon'.score[x] = profiles'[x].score
                          /\ \A s \in Spokes :
                               \/ Coming(s, x)'
                               \/ /\ ~defaultBlacklist'[s][x]
                                  /\ p[2] /\ profiles'[x].exists =>
                                       spokeScores'[s][x] = profiles'[x].score
      BY <1>2 DEF KeptInv
    <2>2. x \in Wallets
      BY <1>1, <2>1 DEF PardonTypeOK
    <2>3. /\ ~Pardon!StillDefaulter(x)
          /\ \A n \in Pardon!Messages : inFlight[n] > 0 /\ n.wallet = x => Harmless(n)
          /\ pardon.script = "ring" /\ profiles[x].exists => pardon.score[x] = profiles[x].score
          /\ \A s \in Spokes :
               \/ Coming(s, x)
               \/ /\ ~defaultBlacklist[s][x]
                  /\ p[2] /\ profiles[x].exists => spokeScores[s][x] = profiles[x].score
      BY <2>1 DEF PardonInv, KeptInv
    <2>4. ASSUME NEW s \in Spokes
          PROVE  \/ Coming(s, x)'
                 \/ /\ ~defaultBlacklist'[s][x]
                    /\ p[2] /\ profiles[x].exists => spokeScores'[s][x] = profiles[x].score
      <3>1. CASE s = m.dst /\ x = m.wallet
        <4>1. Harmless(m)
          BY <1>3, <2>3, <3>1
        <4>2. profiles[x].exists => m.data = profiles[x].score /\ profiles[x].score # 0
          BY <1>1, <2>2, <3>1, <4>1 DEF Harmless, PardonTypeOK
        <4> QED BY <1>3, <3>1, <4>1, <4>2 DEF Harmless
      <3>2. CASE s # m.dst \/ x # m.wallet
        <4>1. Coming(s, x) => Coming(s, x)'
          BY <1>3, <3>2 DEF Coming
        <4> QED BY <1>3, <2>2, <2>3, <3>2, <4>1
      <3> QED BY <3>1, <3>2
    <2> QED BY <1>2, <1>3, <1>5, <2>3, <2>4
  <1> QED BY <1>4, <1>7, <1>8 DEF PardonInv

-----------------------------------------------------------------------------
(* The theorem about the pardons.                                          *)

LEMMA PardonInitOK ==
  ASSUME Pardon!PardonInit
  PROVE  PardonInv
  <1>1. PardonTypeOK
    <2>1. PICK Minted \in Scored :
            /\ profiles = [w \in Wallets |-> IF w \in Minted THEN Pardon!FreshProfile(FullScore)
                                             ELSE Pardon!ZeroProfile]
            /\ spokeScores = [s \in Spokes |-> [w \in Wallets |-> profiles[w].score]]
      BY DEF Pardon!PardonInit
    <2>2. /\ Pardon!FreshProfile(FullScore) \in Pardon!Profile
          /\ Pardon!FreshProfile(FullScore).score = FullScore
          /\ Pardon!ZeroProfile \in Pardon!Profile
          /\ Pardon!ZeroProfile.score = 0 /\ ~Pardon!ZeroProfile.exists
      BY OperatorAssumption DEF Pardon!FreshProfile, Pardon!ZeroProfile, Pardon!Profile
    <2>3. /\ profiles \in [Wallets -> Pardon!Profile]
          /\ \A w \in Wallets : profiles[w].exists => profiles[w].score \in ScoreData \ {0}
          /\ \A w \in Wallets : profiles[w].score \in ScoreData
      BY <2>1, <2>2, OperatorAssumption
    <2>4. spokeScores \in [Spokes -> [Wallets -> ScoreData]]
      BY <2>1, <2>3
    <2>5. /\ blacklisted \in [Wallets -> BOOLEAN]
          /\ defaultBlacklist \in [Spokes -> [Wallets -> BOOLEAN]]
          /\ inFlight \in [Pardon!Messages -> Nat]
          /\ pardon = Pardon!NoPardon /\ pardoned = {}
      BY DEF Pardon!PardonInit
    <2> QED BY <2>3, <2>4, <2>5, NoPardonTyped DEF PardonTypeOK
  <1>2. pardon.script = "none" /\ pardoned = {}
    BY NoPardonTyped DEF Pardon!PardonInit
  <1> QED BY <1>1, <1>2 DEF PardonInv, RingTodo, RingInv, KeptInv

LEMMA PardonNextOK ==
  ASSUME PardonInv, Pardon!PardonNext
  PROVE  PardonInv'
  <1>1. ASSUME \/ \E w \in Wallets : Pardon!whitelistDefaulterRing(w) \/ Pardon!unblacklistWallet(w)
               \/ Pardon!whitelistAllWallets \/ Pardon!whitelistZeroAddress
        PROVE  PardonInv'
    BY <1>1, StartsPreserve
  <1>2. ASSUME Pardon!clearHubSbt \/ Pardon!clearZeroOnHub PROVE PardonInv'
    BY <1>2, ClearHubPreserves, ClearZeroPreserves
  <1>3. ASSUME Pardon!whitelistWalletOf \/ Pardon!whitelistOne PROVE PardonInv'
    BY <1>3, HubScriptsPreserve
  <1>4. ASSUME NEW s \in Spokes, Pardon!clearSpokeOapp(s) \/ Pardon!clearZeroOnSpoke(s)
        PROVE  PardonInv'
    BY <1>4, ClearSpokePreserves, ZeroOnSpokePreserves
  <1>5. ASSUME Pardon!broadcastSpokeWhitelist PROVE PardonInv'
    BY <1>5, BroadcastPreserves
  <1>6. ASSUME NEW d \in Debtors, NEW ws \in SUBSET Wallets, Pardon!Liquidate(d, ws)
        PROVE  PardonInv'
    BY <1>6, LiquidatePreserves
  <1>7. ASSUME NEW w \in Wallets, NEW score \in HubScores, Pardon!Rescore(w, score)
        PROVE  PardonInv'
    BY <1>7, RescorePreserves
  <1>8. ASSUME NEW m \in Pardon!Messages, Pardon!Receive(m) PROVE PardonInv'
    BY <1>8, ReceivePreserves
  <1> QED BY <1>1, <1>2, <1>3, <1>4, <1>5, <1>6, <1>7, <1>8 DEF Pardon!PardonNext

LEMMA PardonStutters ==
  ASSUME PardonInv, UNCHANGED pardonVars
  PROVE  PardonInv'
  <1>1. /\ profiles' = profiles /\ blacklisted' = blacklisted /\ spokeScores' = spokeScores
        /\ defaultBlacklist' = defaultBlacklist /\ inFlight' = inFlight /\ pardon' = pardon
        /\ pardoned' = pardoned
    BY DEF pardonVars
  <1> QED BY <1>1 DEF PardonInv, PardonTypeOK, RingTodo, RingInv, KeptInv, Harmless, Coming,
                      Pardon!StillDefaulter, Pardon!Wallet

\* When no message is on its way, nothing is left to come.
LEMMA HoldsFollows ==
  ASSUME PardonInv
  PROVE  PardonHolds
  <1>1. SUFFICES ASSUME Pardon!Quiet PROVE Pardon!PardonHolds
    BY DEF PardonHolds, Pardon!PardonHolds
  <1>2. \A s, w : ~Coming(s, w)
    BY <1>1 DEF Pardon!Quiet, Coming
  <1> QED BY <1>2 DEF PardonInv, KeptInv, Pardon!PardonHolds, Pardon!StillBlacklisted

\* A ring that was pardoned while no message was in flight stays pardoned on
\* every chain, although the direct reset of a spoke or the broadcast may fail
\* and other scripts and liquidations follow (whitelist-defaulter-ring.js):
\* for any wallets, any spokes and any number of scripts, liquidations and
\* equal messages in flight.
THEOREM PardonsHold == OperatorSpec => []PardonHolds
  <1>1. OperatorInit => PardonInv
    BY PardonInitOK DEF OperatorInit
  <1>2. PardonInv /\ [OperatorNext]_OperatorVars => PardonInv'
    BY PardonNextOK, PardonStutters DEF OperatorNext, OperatorVars, Deploying, Pardoning, Sending
  <1>3. PardonInv => PardonHolds
    BY HoldsFollows
  <1> QED BY <1>1, <1>2, <1>3, PTL DEF OperatorSpec

-----------------------------------------------------------------------------
(* The deployment.                                                         *)

\* deploy.js, deploy-oapp.js, deploy-score-engine.js and wire-oracle.js record
\* a contract when it is complete: whatever scripts ran, with whatever
\* records, and wherever they stopped, the recorded hub contracts name each
\* other and hold the roles they and the agents need; for any spokes and any
\* number of scripts, careful operator or not.
THEOREM RecordedHubStaysWired == OperatorSpec => []RecordedHubWired
  <1>1. OperatorInit => DeployInv
    BY DeployInitOK DEF OperatorInit
  <1>2. DeployInv /\ [OperatorNext]_OperatorVars => DeployInv'
    <2>1. SUFFICES ASSUME DeployInv, [OperatorNext]_OperatorVars PROVE DeployInv'
      OBVIOUS
    <2>2. [Next]_vars
      BY <2>1 DEF OperatorNext, OperatorVars, Deploying, Pardoning, Sending
    <2> QED BY <2>1, <2>2, DeployNextOK
  <1>3. DeployInv => RecordedHubWired
    BY HubContracts DEF RecordedHubWired
  <1> QED BY <1>1, <1>2, <1>3, PTL DEF OperatorSpec

\* grant-spoke-agent.js repairs a deploy-spoke.js that stopped before its
\* grant: once it has ended and verify-address-sync.js says OK, the agents have
\* their role on the OApp that is recorded; for any spokes.
THEOREM GrantsReachOApp == OperatorSpec => []GrantReachesOApp
  <1>1. OperatorInit => DeployInv /\ GrantInv
    <2>1. SUFFICES ASSUME OperatorInit PROVE DeployInv /\ GrantInv
      OBVIOUS
    <2>4. DeployInv
      BY <2>1, DeployInitOK DEF OperatorInit
    <2>2. script = Nothing /\ last = Nothing
      BY <2>1 DEF OperatorInit, Init
    <2>3. \A s : <<"grant_spoke_agent", s>> # Nothing
      BY DEF Nothing
    <2> QED BY <2>2, <2>3, <2>4 DEF GrantInv
  <1>2. DeployInv /\ GrantInv /\ [OperatorNext]_OperatorVars => (DeployInv /\ GrantInv)'
    <2>1. SUFFICES ASSUME DeployInv, GrantInv, [OperatorNext]_OperatorVars
                   PROVE  (DeployInv /\ GrantInv)'
      OBVIOUS
    <2>2. Next \/ UNCHANGED vars
      BY <2>1 DEF OperatorNext, OperatorVars, Deploying, Pardoning, Sending
    <2>3. UNCHANGED vars => GrantInv'
      BY <2>1 DEF vars, chainVars, fileVars, GrantInv, GrantOf
    <2>4. GrantInv'
      BY <2>1, <2>2, <2>3, GrantKept
    <2> QED BY <2>1, <2>2, <2>4, DeployNextOK
  <1>3. DeployInv /\ GrantInv => GrantReachesOApp
    <2>1. SUFFICES ASSUME GrantInv, NEW s \in Spokes, last = <<"grant_spoke_agent", s>>, VerifyAddressSync
          PROVE  <<docs[s].oapp, "AGENT", Agent>> \in facts
      BY DEF GrantReachesOApp
    <2>2. <<s, "oapp">> \in EnvKeys /\ "oapp" \in Fields
      BY DEF EnvKeys, Fields
    <2>3. env[<<s, "oapp">>] # None /\ env[<<s, "oapp">>] = docs[s]["oapp"]
      BY <2>1, <2>2 DEF VerifyAddressSync
    <2>4. GrantOf(s) = <<docs[s].oapp, "AGENT", Agent>>
      BY <2>3 DEF GrantOf
    <2> QED BY <2>1, <2>4 DEF GrantInv
  <1> QED BY <1>1, <1>2, <1>3, PTL DEF OperatorSpec

\* deploy-spoke-lending.js and the scripts that finish an interrupted one
\* record a lending contract when it is wired: whatever scripts ran, for
\* whatever chain, and wherever they stopped, the recorded lending contract
\* of a spoke and its pool name each other, it reads the recorded OApp and an
\* oracle that has a feed, and the agents have their role on it; for any
\* spokes and any number of scripts, of an operator who takes an interrupted
\* deployment up again with the very next script, with the addresses it
\* printed, or not at all, and leaves the choice of Base's lending contract to
\* the record and not to BASE_LENDING_ADDRESS.  (finish-spoke-lending.js
\* itself would take any addresses; with others the property is false.)
THEOREM RecordedSpokesStayWired ==
  ASSUME Careful
  PROVE  OperatorSpec => []RecordedSpokeWired
  <1>1. OperatorInit => DeployInv /\ SpokeInv
    BY DeployInitOK, SpokeInitOK DEF OperatorInit
  <1>2. DeployInv /\ SpokeInv /\ [OperatorNext]_OperatorVars => (DeployInv /\ SpokeInv)'
    <2>1. SUFFICES ASSUME DeployInv, SpokeInv, [OperatorNext]_OperatorVars PROVE (DeployInv /\ SpokeInv)'
      OBVIOUS
    <2>2. [Next]_vars
      BY <2>1 DEF OperatorNext, OperatorVars, Deploying, Pardoning, Sending
    <2> QED BY <2>1, <2>2, DeployNextOK, SpokeNextOK
  <1>3. DeployInv /\ SpokeInv => RecordedSpokeWired
    BY SpokesWired
  <1> QED BY <1>1, <1>2, <1>3, PTL DEF OperatorSpec

\* After lz:wire-spokes, if verify-address-sync.js says OK: the OApp the
\* agents send through and the mirror that the recorded lending contract of a
\* spoke reads are each other's peers; for any spokes and any number of
\* scripts, of an operator as careful as above.
THEOREM VerifiedMeshesDeliver ==
  ASSUME Careful
  PROVE  OperatorSpec => []VerifiedMeshDelivers
  <1>1. OperatorInit => DeployInv /\ SpokeInv /\ MeshInv
    <2>1. SUFFICES ASSUME OperatorInit PROVE DeployInv /\ SpokeInv /\ MeshInv
      OBVIOUS
    <2>2. DeployInv /\ SpokeInv
      BY <2>1, DeployInitOK, SpokeInitOK DEF OperatorInit
    <2>3. script = Nothing /\ last = Nothing
      BY <2>1 DEF OperatorInit, Init
    <2> QED BY <2>2, <2>3 DEF MeshInv, Peering, Nothing
  <1>2. DeployInv /\ SpokeInv /\ MeshInv /\ [OperatorNext]_OperatorVars => (DeployInv /\ SpokeInv /\ MeshInv)'
    <2>1. SUFFICES ASSUME DeployInv, SpokeInv, MeshInv, [OperatorNext]_OperatorVars
                   PROVE  (DeployInv /\ SpokeInv /\ MeshInv)'
      OBVIOUS
    <2>2. Next \/ UNCHANGED vars
      BY <2>1 DEF OperatorNext, OperatorVars, Deploying, Pardoning, Sending
    <2>3. DeployInv' /\ SpokeInv'
      BY <2>1, <2>2, DeployNextOK, SpokeNextOK
    <2>4. CASE UNCHANGED vars
      <3>1. /\ todo' = todo /\ last' = last /\ script' = script
            /\ facts' = facts /\ docs' = docs /\ env' = env
        BY <2>4 DEF vars, chainVars, fileVars
      <3>2. MeshFacts' = MeshFacts
        BY <3>1, MeshSame
      <3> QED BY <2>1, <2>3, <3>1, <3>2 DEF MeshInv
    <2> QED BY <2>1, <2>2, <2>3, <2>4, MeshKept
  <1>3. DeployInv /\ SpokeInv /\ MeshInv => VerifiedMeshDelivers
    <2>1. SUFFICES ASSUME DeployInv, SpokeInv, MeshInv, last = Peering, VerifyAddressSync,
                          NEW s \in Spokes \ edited
          PROVE  \E mirror \in born :
                   /\ <<front[s].lending, "oapp", mirror>> \in facts
                   /\ <<EnvHubOApp, s, mirror>> \in facts
                   /\ <<mirror, "hub", EnvHubOApp>> \in facts
      BY DEF VerifiedMeshDelivers, Peering
    <2>2. PICK d : d = docs[s]
      OBVIOUS
    <2>3. <<s, "oapp">> \in EnvKeys /\ <<s, "lending">> \in EnvKeys /\ "oapp" \in Fields
      BY DEF EnvKeys, Fields
    <2>4. /\ env[<<s, "oapp">>] # None /\ env[<<s, "oapp">>] = d.oapp
          /\ d.lending # None /\ front[s] = d
      BY <2>1, <2>2, <2>3 DEF VerifyAddressSync
    <2>5. Sound(s)
      BY <2>1 DEF SpokeInv
    <2>6. d.oapp \in born /\ Built(d) \subseteq facts
      BY <2>1, <2>2, <2>3, <2>4, <2>5, SoundParts
    <2>7. MeshFacts \subseteq facts
      BY <2>1 DEF MeshInv
    <2>8. PeerFact(s) \in facts /\ BackFact(s) \in facts
      BY <2>4, <2>7 DEF MeshFacts
    <2> QED BY <2>2, <2>4, <2>6, <2>8 DEF PeerFact, BackFact, Built
  <1> QED BY <1>1, <1>2, <1>3, PTL DEF OperatorSpec
=============================================================================
