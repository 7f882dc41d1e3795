-------------------------- MODULE CrossChainProofs --------------------------
(***************************************************************************)
(* Theorems about the hub, the spokes and the agents' threads, for any     *)
(* number of wallets, spokes and threads: what the threads have to do is   *)
(* always well formed; and, while borrowers are patient and nothing fails, *)
(* the locks and flags that keep a wallet to one side of the market hold.  *)
(***************************************************************************)
EXTENDS CrossChain, ContractProofs, SequenceTheorems

(* Sequences.                                                              *)

LEMMA MapSeq ==
  ASSUME NEW S, NEW n \in Nat, NEW f \in [1 .. n -> S]
  PROVE  f \in Seq(S) /\ Len(f) = n /\ DOMAIN f = 1 .. n
  <1>1. f \in Seq(S)
    BY SeqDef
  <1>2. DOMAIN f = 1 .. n
    OBVIOUS
  <1>3. Len(f) \in Nat /\ DOMAIN f = 1 .. Len(f)
    BY <1>1, LenProperties
  <1>4. Len(f) = n
    BY <1>2, <1>3
  <1> QED BY <1>1, <1>2, <1>4

LEMMA OneStep ==
  ASSUME NEW S, NEW x \in S
  PROVE  /\ <<x>> \in Seq(S) /\ Len(<<x>>) = 1
         /\ <<x>>[1] = x
  OBVIOUS

LEMMA TwoSteps ==
  ASSUME NEW S, NEW x \in S, NEW y \in S
  PROVE  /\ <<x, y>> \in Seq(S) /\ Len(<<x, y>>) = 2
         /\ <<x, y>>[1] = x /\ <<x, y>>[2] = y
  OBVIOUS

LEMMA ThreeSteps ==
  ASSUME NEW S, NEW x \in S, NEW y \in S, NEW z \in S
  PROVE  /\ <<x, y, z>> \in Seq(S) /\ Len(<<x, y, z>>) = 3 /\ DOMAIN <<x, y, z>> = 1 .. 3
         /\ <<x, y, z>>[1] = x /\ <<x, y, z>>[2] = y /\ <<x, y, z>>[3] = z
  OBVIOUS

(* The recursion by which FlattenSeq puts sequences one after another.     *)
LEMMA FlattenType ==
  ASSUME NEW S, NEW ss \in Seq(Seq(S))
  PROVE  FlattenSeq(ss) \in Seq(S)
  <1> DEFINE n == Len(ss)
             Solves(f, k) == \A i \in 1 .. k : f[i] = IF i = 1 THEN ss[i] ELSE f[i - 1] \o ss[i]
             T == {k \in Nat : k <= n => \E f \in [1 .. n -> Seq(S)] : Solves(f, k)}
  <1>0. n \in Nat /\ \A i \in 1 .. n : ss[i] \in Seq(S)
    BY LenProperties, ElementOfSeq
  <1> HIDE DEF n
  <1>1. CASE n = 0
    <2>1. FlattenSeq(ss) = ss /\ ss = <<>>
      BY <1>1, EmptySeq DEF FlattenSeq, n
    <2> QED BY <2>1, EmptySeq
  <1>2. CASE n # 0
    <2>1. 0 \in T
      <3>1. <<>> \in Seq(S)
        BY EmptySeq
      <3>2. [i \in 1 .. n |-> <<>>] \in [1 .. n -> Seq(S)]
        BY <3>1
      <3>3. \A f : Solves(f, 0)
        OBVIOUS
      <3> QED BY <3>2, <3>3
    <2>2. ASSUME NEW k \in T PROVE k + 1 \in T
      <3>1. SUFFICES ASSUME k + 1 <= n PROVE \E f \in [1 .. n -> Seq(S)] : Solves(f, k + 1)
        OBVIOUS
      <3>2. PICK f \in [1 .. n -> Seq(S)] : Solves(f, k)
        BY <3>1, <1>0
      <3>3. k + 1 \in 1 .. n /\ (k # 0 => k \in 1 .. n)
        BY <3>1, <1>0
      <3> DEFINE new == IF k + 1 = 1 THEN ss[k + 1] ELSE f[k] \o ss[k + 1]
                 g == [f EXCEPT ![k + 1] = new]
      <3>4. new \in Seq(S)
        <4>1. CASE k = 0
          BY <4>1, <3>3, <1>0
        <4>2. CASE k # 0
          <5>1. f[k] \in Seq(S) /\ ss[k + 1] \in Seq(S)
            BY <4>2, <3>3, <1>0
          <5>2. f[k] \o ss[k + 1] \in Seq(S)
            BY <5>1, ConcatProperties
          <5> QED BY <5>2, <4>2
        <4> QED BY <4>1, <4>2
      <3> HIDE DEF new
      <3>5. g \in [1 .. n -> Seq(S)]
        BY <3>4
      <3>6. g[k + 1] = new /\ \A i \in 1 .. n : i # k + 1 => g[i] = f[i]
        BY <3>3
      <3> HIDE DEF g
      <3>7. ASSUME NEW i \in 1 .. k + 1
            PROVE  g[i] = IF i = 1 THEN ss[i] ELSE g[i - 1] \o ss[i]
        <4>1. CASE i = k + 1
          <5>1. k # 0 => g[k] = f[k]
            BY <3>3, <3>6
          <5> QED BY <4>1, <5>1, <3>6 DEF new
        <4>2. CASE i # k + 1
          <5>1. i \in 1 .. k /\ i \in 1 .. n /\ (i # 1 => i - 1 \in 1 .. n /\ i - 1 # k + 1)
            BY <4>2, <3>1, <1>0
          <5>2. g[i] = f[i] /\ (i # 1 => g[i - 1] = f[i - 1])
            BY <5>1, <3>6, <4>2
          <5> QED BY <5>1, <5>2, <3>2
        <4> QED BY <4>1, <4>2
      <3> QED BY <3>5, <3>7
    <2>3. n \in T
      <3>1. T \in SUBSET Nat
        OBVIOUS
      <3> HIDE DEF T
      <3> QED BY <3>1, <2>1, <2>2, <1>0, AllNumbers
    <2>4. \E f \in [1 .. n -> Seq(S)] : Solves(f, n)
      BY SMTT(60), <2>3, <1>0
    <2> DEFINE Flat(f) == f = [i \in 1 .. Len(ss) |->
                                 IF i = 1 THEN ss[i] ELSE f[i - 1] \o ss[i]]
               flat == CHOOSE f : Flat(f)
    <2>5. FlattenSeq(ss) = flat[Len(ss)]
      BY <1>2 DEF FlattenSeq, n
    <2>6. PICK f \in [1 .. n -> Seq(S)] : Solves(f, n)
      BY <2>4
    <2>7. \A i \in 1 .. n : f[i] = IF i = 1 THEN ss[i] ELSE f[i - 1] \o ss[i]
      BY <2>6
    <2>8. Flat(f)
      BY <2>6, <2>7 DEF n
    <2>9. Flat(flat)
      BY <2>8
    <2> HIDE DEF flat, Flat
    <2>10. ASSUME NEW h, Flat(h), NEW g, Flat(g) PROVE \A i \in 1 .. n : h[i] = g[i]
      <3> DEFINE U == {k \in Nat : \A i \in 1 .. n : i <= k => h[i] = g[i]}
      <3>1. 0 \in U
        OBVIOUS
      <3>2. \A i \in 1 .. n : /\ h[i] = IF i = 1 THEN ss[i] ELSE h[i - 1] \o ss[i]
                              /\ g[i] = IF i = 1 THEN ss[i] ELSE g[i - 1] \o ss[i]
        BY <2>10 DEF n, Flat
      <3>3. ASSUME NEW k \in U PROVE k + 1 \in U
        <4>1. SUFFICES ASSUME k + 1 \in 1 .. n PROVE h[k + 1] = g[k + 1]
          OBVIOUS
        <4>2. k # 0 => h[k] = g[k]
          <5>1. k \in Nat /\ (k # 0 => k \in 1 .. n)
            BY <4>1, <1>0
          <5>2. \A i \in 1 .. n : i <= k => h[i] = g[i]
            OBVIOUS
          <5> QED BY <5>1, <5>2
        <4>3. /\ h[k + 1] = IF k + 1 = 1 THEN ss[k + 1] ELSE h[k + 1 - 1] \o ss[k + 1]
              /\ g[k + 1] = IF k + 1 = 1 THEN ss[k + 1] ELSE g[k + 1 - 1] \o ss[k + 1]
          BY <3>2, <4>1
        <4>4. k + 1 - 1 = k /\ (k = 0 <=> k + 1 = 1)
          OBVIOUS
        <4> QED BY <4>2, <4>3, <4>4
      <3>4. n \in U
        <4>1. U \in SUBSET Nat
          OBVIOUS
        <4> HIDE DEF U
        <4> QED BY <4>1, <3>1, <3>3, <1>0, AllNumbers
      <3> QED BY <3>4, <1>0
    <2>11. flat[n] = f[n]
      <3>1. \A i \in 1 .. n : flat[i] = f[i]
        BY <2>9, <2>10, <2>8
      <3> QED BY <3>1, <1>2, <1>0
    <2> QED BY <2>5, <2>11, <2>6, <1>2, <1>0 DEF n
  <1> QED BY <1>1, <1>2

(* The order SetToSeq gives the elements of a finite set.                  *)
LEMMA SetToSeqType ==
  ASSUME NEW S, IsFiniteSet(S)
  PROVE  SetToSeq(S) \in Seq(S)
  <1> DEFINE n == Cardinality(S)
  <1>1. n \in Nat /\ ExistsBijection(1 .. n, S)
    BY FS_CardinalityType
  <1>2. PICK f \in Bijection(1 .. n, S) : TRUE
    BY <1>1 DEF ExistsBijection
  <1>3. f \in [1 .. n -> S] /\ IsInjective(f)
    BY <1>2 DEF Bijection, Injection, IsInjective
  <1>4. SetToSeq(S) \in [1 .. n -> S] /\ IsInjective(SetToSeq(S))
    BY <1>3 DEF SetToSeq
  <1> QED BY <1>1, <1>4, MapSeq

LEMMA ConcatType ==
  ASSUME NEW S, NEW lists, IsFiniteSet(DOMAIN lists), \A x \in DOMAIN lists : lists[x] \in Seq(S)
  PROVE  Concat(lists) \in Seq(S)
  <1> DEFINE order == SetToSeq(DOMAIN lists)
             ss    == [i \in DOMAIN order |-> lists[order[i]]]
  <1>1. order \in Seq(DOMAIN lists)
    BY SetToSeqType
  <1>2. Len(order) \in Nat /\ DOMAIN order = 1 .. Len(order)
        /\ \A i \in DOMAIN order : order[i] \in DOMAIN lists
    BY <1>1, LenProperties, ElementOfSeq
  <1>3. Concat(lists) = FlattenSeq(ss)
    BY DEF Concat
  <1> HIDE DEF order
  <1>4. ss \in [1 .. Len(order) -> Seq(S)]
    BY <1>2
  <1>5. ss \in Seq(Seq(S))
    BY <1>2, <1>4, MapSeq
  <1> QED BY <1>3, <1>5, FlattenType

-----------------------------------------------------------------------------
(* What the threads are given to do.                                       *)

Sends == [op : {"send"}, msg : Messages]

LEMMA SpokeOrderType ==
  /\ SpokeOrder \in Seq(Spokes)
  /\ Len(SpokeOrder) \in Nat /\ DOMAIN SpokeOrder = 1 .. Len(SpokeOrder)
  /\ \A i \in 1 .. Len(SpokeOrder) : SpokeOrder[i] \in Spokes
  /\ \A s \in Spokes : \E i \in 1 .. Len(SpokeOrder) : SpokeOrder[i] = s
  <1>1. SpokeOrder \in Seq(Spokes)
    BY CrossChainAssumption
  <1>2. /\ Len(SpokeOrder) \in Nat /\ DOMAIN SpokeOrder = 1 .. Len(SpokeOrder)
        /\ \A i \in 1 .. Len(SpokeOrder) : SpokeOrder[i] \in Spokes
    BY <1>1, LenProperties, ElementOfSeq
  <1> QED BY <1>1, <1>2, CrossChainAssumption DEF ToSet

LEMMA AMessage ==
  ASSUME NEW type \in MessageTypes, NEW w \in Wallets, NEW data \in Payload(type), NEW s \in Spokes
  PROVE  [type |-> type, wallet |-> w, data |-> data, dst |-> s] \in Messages
  BY DEF Messages

LEMMA MessageFields ==
  ASSUME NEW m \in Messages
  PROVE  /\ m.type \in MessageTypes /\ m.wallet \in Wallets /\ m.dst \in Spokes
         /\ m.data \in Payload(m.type) /\ m.data \in ScoreData
         /\ m = [type |-> m.type, wallet |-> m.wallet, data |-> m.data, dst |-> m.dst]
  <1>1. PICK t \in MessageTypes : m \in [type : {t}, wallet : Wallets, data : Payload(t), dst : Spokes]
    BY DEF Messages
  <1>2. Payload(t) \subseteq ScoreData
    BY OAppAssumption DEF Payload
  <1> QED BY <1>1, <1>2

LEMMA BroadcastShape ==
  ASSUME NEW type \in MessageTypes, NEW w \in Wallets, NEW data \in Payload(type)
  PROVE  /\ broadcast(type, w, data) \in Seq(Sends)
         /\ Len(broadcast(type, w, data)) = Len(SpokeOrder)
         /\ \A i \in 1 .. Len(SpokeOrder) :
              broadcast(type, w, data)[i] =
                [op |-> "send",
                 msg |-> [type |-> type, wallet |-> w, data |-> data, dst |-> SpokeOrder[i]]]
  <1> DEFINE B == broadcast(type, w, data)
             M(i) == [type |-> type, wallet |-> w, data |-> data, dst |-> SpokeOrder[i]]
  <1>1. \A i \in 1 .. Len(SpokeOrder) : M(i) \in Messages
    BY SpokeOrderType, AMessage
  <1>2. B = [i \in 1 .. Len(SpokeOrder) |-> [op |-> "send", msg |-> M(i)]]
    BY SpokeOrderType DEF broadcast
  <1>3. \A i \in 1 .. Len(SpokeOrder) : [op |-> "send", msg |-> M(i)] \in Sends
    BY <1>1 DEF Sends
  <1> HIDE DEF B
  <1>4. B \in [1 .. Len(SpokeOrder) -> Sends]
    BY <1>2, <1>3
  <1>5. B \in Seq(Sends) /\ Len(B) = Len(SpokeOrder)
    BY <1>4, SpokeOrderType, MapSeq
  <1> QED BY <1>2, <1>5 DEF B

LEMMA OnEverySpokeShape ==
  ASSUME NEW S, NEW name, \A s \in Spokes : At(name, s) \in S
  PROVE  /\ OnEverySpoke(name) \in Seq(S)
         /\ Len(OnEverySpoke(name)) = Len(SpokeOrder)
         /\ \A i \in 1 .. Len(SpokeOrder) : OnEverySpoke(name)[i] = At(name, SpokeOrder[i])
  <1> DEFINE B == OnEverySpoke(name)
  <1>1. B = [i \in 1 .. Len(SpokeOrder) |-> At(name, SpokeOrder[i])]
    BY SpokeOrderType DEF OnEverySpoke
  <1>2. B \in [1 .. Len(SpokeOrder) -> S]
    BY <1>1, SpokeOrderType
  <1>3. B \in Seq(S) /\ Len(B) = Len(SpokeOrder)
    BY <1>2, SpokeOrderType, MapSeq
  <1> QED BY <1>1, <1>3

LEMMA OnEveryChainShape ==
  ASSUME NEW S, NEW name, \A m \in Markets : At(name, m) \in S
  PROVE  /\ OnEveryChain(name) \in Seq(S)
         /\ Len(OnEveryChain(name)) = 1 + Len(SpokeOrder)
         /\ OnEveryChain(name)[1] = At(name, Hub)
         /\ \A i \in 1 .. Len(SpokeOrder) : OnEveryChain(name)[i + 1] = At(name, SpokeOrder[i])
  <1>1. /\ OnEverySpoke(name) \in Seq(S)
        /\ Len(OnEverySpoke(name)) = Len(SpokeOrder)
        /\ \A i \in 1 .. Len(SpokeOrder) : OnEverySpoke(name)[i] = At(name, SpokeOrder[i])
    BY OnEverySpokeShape DEF Markets
  <1>2. At(name, Hub) \in S
    BY DEF Markets
  <1>3. <<At(name, Hub)>> \in Seq(S) /\ Len(<<At(name, Hub)>>) = 1 /\ <<At(name, Hub)>>[1] = At(name, Hub)
    BY <1>2, OneStep
  <1> DEFINE A == <<At(name, Hub)>>
             B == OnEverySpoke(name)
  <1>4. OnEveryChain(name) = A \o B
    BY DEF OnEveryChain
  <1> HIDE DEF A, B
  <1>5. /\ A \o B \in Seq(S) /\ Len(A \o B) = Len(A) + Len(B)
        /\ \A i \in 1 .. Len(A) + Len(B) : (A \o B)[i] = IF i <= Len(A) THEN A[i] ELSE B[i - Len(A)]
    BY <1>1, <1>3, ConcatProperties DEF A, B
  <1>6. Len(A) = 1 /\ A[1] = At(name, Hub) /\ Len(B) = Len(SpokeOrder) /\ Len(SpokeOrder) \in Nat
    BY <1>1, <1>3, SpokeOrderType DEF A, B
  <1>7. ASSUME NEW i \in 1 .. Len(SpokeOrder) PROVE (A \o B)[i + 1] = At(name, SpokeOrder[i])
    <2>1. i + 1 \in 1 .. 1 + Len(SpokeOrder) /\ i + 1 > 1 /\ (i + 1) - 1 = i
      BY <1>6
    <2>2. (A \o B)[i + 1] = B[i]
      BY <1>5, <1>6, <2>1
    <2> QED BY <2>2, <1>1 DEF B
  <1>8. (A \o B)[1] = At(name, Hub)
    BY <1>5, <1>6
  <1> QED BY <1>4, <1>5, <1>6, <1>7, <1>8

-----------------------------------------------------------------------------
(* Types.                                                                  *)

JobsOK == job \in [Threads -> Work] /\ \A t \in Threads : WorkOK(job[t])

ChainsOK ==
  /\ SBTTypeOK /\ OAppTypeOK
  /\ \A w \in Wallets : profiles[w].score \in ScoreData
  /\ loan \in [Markets -> [Wallets -> BOOLEAN]]
  /\ touched \subseteq Wallets
  /\ unsynced \in [Wallets -> ScoreData]
  /\ failures \in 0 .. MaxFailures
  /\ shunned \subseteq Wallets /\ crossed \subseteq Wallets

LEMMA TypeParts == TypeOK <=> ChainsOK /\ JobsOK
  BY DEF TypeOK, ChainsOK, JobsOK

LEMMA SendsAreSteps == Sends \subseteq BatchSteps /\ BatchSteps \subseteq Steps /\ Sends \subseteq Steps
  BY DEF Sends, BatchSteps, Steps

LEMMA StepsSeq ==
  /\ Seq(Sends) \subseteq Seq(BatchSteps)
  /\ Seq(BatchSteps) \subseteq Seq(Steps)
  /\ Seq(Sends) \subseteq Seq(Steps)
  BY SendsAreSteps, SeqMonotonic

LEMMA StepFields ==
  ASSUME NEW step \in Steps
  PROVE  /\ step.op = "send" => step.msg \in Messages
         /\ step.op \in {"read", "view", "listed"} => step.at \in Markets
         /\ step.op \in {"lock_kind", "prepare", "spoke_listed", "clear_spoke"} => step.at \in Spokes
         /\ step.op \in {"vet", "commit"} => step.rescore \in BOOLEAN /\ step.without \in Nat
         /\ step.op = "blacklist" => step.wallets \subseteq Wallets
  <1>1. step.op = "send" => step.msg \in Messages
    BY DEF Steps, BatchSteps
  <1>2. step.op \in {"read", "view", "listed"} => step.at \in Markets
    BY DEF Steps, BatchSteps
  <1>3. step.op \in {"lock_kind", "prepare", "spoke_listed", "clear_spoke"} => step.at \in Spokes
    BY DEF Steps, BatchSteps
  <1>4. step.op \in {"vet", "commit"} => step.rescore \in BOOLEAN /\ step.without \in Nat
    BY DEF Steps, BatchSteps
  <1>5. step.op = "blacklist" => step.wallets \subseteq Wallets
    BY DEF Steps, BatchSteps
  <1> QED BY <1>1, <1>2, <1>3, <1>4, <1>5

LEMMA BatchFields ==
  ASSUME NEW step \in BatchSteps
  PROVE  step.op \in {"scan_scores", "save_sync_block", "scan_loans", "send"}
  BY DEF BatchSteps

PlainNames == {"created", "repaid", "profile_score", "ensure", "clear", "set_active",
               "set_repaid", "enrich", "verdict", "whitelist", "unlist", "report"}
BatchNames == {"scan_scores", "save_sync_block", "scan_loans"}

LEMMA OpShape ==
  /\ \A name \in PlainNames : Op(name) \in Seq(Steps)
  /\ \A name \in BatchNames : Op(name) \in Seq(BatchSteps) /\ Op(name) \in Seq(Steps)
  /\ \A name : Len(Op(name)) = 1 /\ Op(name)[1] = [op |-> name] /\ Op(name) # <<>>
  <1>1. ASSUME NEW name \in PlainNames PROVE [op |-> name] \in Steps
    BY DEF PlainNames, Steps
  <1>2. ASSUME NEW name \in BatchNames PROVE [op |-> name] \in BatchSteps
    BY DEF BatchNames, BatchSteps
  <1>3. \A name \in PlainNames : Op(name) \in Seq(Steps)
    BY <1>1, OneStep DEF Op
  <1>4. \A name \in BatchNames : Op(name) \in Seq(BatchSteps) /\ Op(name) \in Seq(Steps)
    BY <1>2, OneStep, StepsSeq DEF Op
  <1>5. \A name : Len(Op(name)) = 1 /\ Op(name)[1] = [op |-> name] /\ Op(name) # <<>>
    BY DEF Op
  <1> QED BY <1>3, <1>4, <1>5

LEMMA AtShape ==
  /\ \A name \in {"read", "view", "listed"}, m \in Markets : At(name, m) \in Steps
  /\ \A name \in {"lock_kind", "prepare", "spoke_listed", "clear_spoke"}, s \in Spokes :
       At(name, s) \in Steps
  BY DEF At, Steps

LEMMA Bound ==
  ASSUME NEW S, NEW a \in Seq(S), NEW b \in Seq(S)
  PROVE  a \o b \in Seq(S)
  BY ConcatProperties

LEMMA ClearLockShape ==
  ASSUME NEW always \in BOOLEAN
  PROVE  /\ clear_lock(always) \in Seq(Steps) /\ Len(clear_lock(always)) = 1
         /\ clear_lock(always)[1] = [op |-> "clear_lock", always |-> always]
  <1>1. [op |-> "clear_lock", always |-> always] \in Steps
    BY DEF Steps
  <1> QED BY <1>1, OneStep DEF clear_lock

LEMMA UnderwritingShape ==
  ASSUME NEW rescore \in BOOLEAN, NEW n \in Nat
  PROVE  /\ Underwriting(rescore, n) \in Seq(Steps) /\ Len(Underwriting(rescore, n)) = 2
         /\ Underwriting(rescore, n)[1] = [op |-> "vet", rescore |-> rescore, without |-> 1 + n]
         /\ Underwriting(rescore, n)[2] = [op |-> "commit", rescore |-> rescore, without |-> n]
  <1>1. /\ [op |-> "vet", rescore |-> rescore, without |-> 1 + n] \in Steps
        /\ [op |-> "commit", rescore |-> rescore, without |-> n] \in Steps
    BY DEF Steps
  <1> QED BY <1>1, TwoSteps DEF Underwriting

LEMMA ScoreBroadcast ==
  ASSUME NEW w \in Wallets, NEW sc \in ScoreData
  PROVE  /\ broadcast_score(w, sc) \in Seq(Sends)
         /\ broadcast_whitelist(w, sc) \in Seq(Sends)
  BY BroadcastShape DEF broadcast_score, broadcast_whitelist, MessageTypes, Payload

LEMMA FlagBroadcast ==
  ASSUME NEW w \in Wallets
  PROVE  /\ broadcast_loan_active(w) \in Seq(Sends)
         /\ broadcast_repaid(w) \in Seq(Sends)
         /\ broadcast_default(w) \in Seq(Sends)
  BY BroadcastShape DEF broadcast_loan_active, broadcast_repaid, broadcast_default, MessageTypes, Payload

-----------------------------------------------------------------------------
(* A thread's job changes in one of a few ways.                            *)

LEMMA IdleJobOK == IdleJob \in Work /\ WorkOK(IdleJob)
  <1>1. <<>> \in Seq(Steps) /\ <<>> \in Seq(BatchSteps)
    BY EmptySeq
  <1> QED BY <1>1, OAppAssumption DEF IdleJob, Work, WorkOK

LEMMA NextJobOK ==
  ASSUME JobsOK, NEW t \in Threads, NEW j \in Work,
         j.wallet = Nobody => j.todo \in Seq(BatchSteps),
         Become(t, j)
  PROVE  JobsOK'
  <1> DEFINE new == IF j.todo = <<>> THEN IdleJob ELSE j
  <1>1. new \in Work /\ WorkOK(new)
    <2>1. CASE j.todo = <<>>
      BY <2>1, IdleJobOK
    <2>2. CASE j.todo # <<>>
      BY <2>2 DEF WorkOK
    <2> QED BY <2>1, <2>2
  <1>2. job' = [job EXCEPT ![t] = new]
    BY DEF Become
  <1> HIDE DEF new
  <1>3. job' \in [Threads -> Work]
    BY <1>1, <1>2 DEF JobsOK
  <1>4. ASSUME NEW u \in Threads PROVE WorkOK(job'[u])
    <2>1. job'[u] = new \/ job'[u] = job[u]
      BY <1>2 DEF JobsOK
    <2> QED BY <2>1, <1>1, Zenon DEF JobsOK
  <1> QED BY <1>3, <1>4 DEF JobsOK, WorkOK

LEMMA ContinueOK ==
  ASSUME JobsOK, NEW t \in Threads, NEW steps \in Seq(Steps),
         job[t].wallet = Nobody => steps \in Seq(BatchSteps),
         Continue(t, steps)
  PROVE  JobsOK'
  <1>1. job[t] \in Work
    BY DEF JobsOK
  <1>2. /\ [job[t] EXCEPT !.todo = steps] \in Work
        /\ [job[t] EXCEPT !.todo = steps].wallet = job[t].wallet
        /\ [job[t] EXCEPT !.todo = steps].todo = steps
    BY <1>1 DEF Work
  <1>3. Become(t, [job[t] EXCEPT !.todo = steps])
    BY DEF Continue
  <1> QED BY <1>2, <1>3, NextJobOK

LEMMA ProceedOK ==
  ASSUME JobsOK, NEW t \in Threads, NEW steps \in Seq(Steps),
         job[t].wallet = Nobody => steps \in Seq(BatchSteps),
         Proceed(t, steps)
  PROVE  JobsOK'
  <1> DEFINE n == [job[t] EXCEPT !.ahead = 0, !.seen = {}, !.locked = {}, !.todo = steps]
  <1>1. job[t] \in Work
    BY DEF JobsOK
  <1>2. n \in Work /\ n.wallet = job[t].wallet /\ n.todo = steps
    BY ZenonT(60), <1>1, OAppAssumption DEF Work
  <1>3. Become(t, n)
    BY DEF Proceed
  <1> HIDE DEF n
  <1> QED BY <1>2, <1>3, NextJobOK

LEMMA CallOK ==
  ASSUME JobsOK, NEW t \in Threads, NEW w \in Wallets \cup {Nobody}, NEW sc \in ScoreData,
         NEW steps \in Seq(Steps), steps # <<>>, w = Nobody => steps \in Seq(BatchSteps),
         Call(t, w, sc, steps)
  PROVE  JobsOK'
  <1> DEFINE n == [IdleJob EXCEPT !.wallet = w, !.score = sc, !.todo = steps]
  <1>1. n \in Work /\ n.wallet = w /\ n.todo = steps
    BY IdleJobOK DEF Work
  <1>2. Become(t, n)
    BY <1>1 DEF Call, Become
  <1> HIDE DEF n
  <1> QED BY <1>1, <1>2, NextJobOK

LEMMA HeadFacts ==
  ASSUME JobsOK, NEW t \in Threads, ~Idle(t)
  PROVE  /\ job[t] \in Work
         /\ job[t].todo \in Seq(Steps)
         /\ Head(job[t].todo) \in Steps /\ Rest(t) \in Seq(Steps)
         /\ job[t].wallet = Nobody =>
              Head(job[t].todo) \in BatchSteps /\ Rest(t) \in Seq(BatchSteps)
         /\ Head(job[t].todo).op \notin {"scan_scores", "save_sync_block", "scan_loans", "send"}
              => job[t].wallet \in Wallets
  <1>1. job[t] \in Work /\ job[t].todo \in Seq(Steps) /\ job[t].todo # <<>>
    BY DEF JobsOK, Idle, Work
  <1>2. Head(job[t].todo) \in Steps /\ Rest(t) \in Seq(Steps)
    BY <1>1, HeadTailProperties DEF Rest
  <1>3. job[t].wallet = Nobody => Head(job[t].todo) \in BatchSteps /\ Rest(t) \in Seq(BatchSteps)
    BY <1>1, HeadTailProperties DEF Rest, JobsOK, WorkOK
  <1>4. job[t].wallet \in Wallets \cup {Nobody}
    BY <1>1 DEF Work
  <1> QED BY <1>1, <1>2, <1>3, <1>4, BatchFields

-----------------------------------------------------------------------------
(* Every action keeps the types.                                           *)

LEMMA SameChains ==
  ASSUME ChainsOK, UNCHANGED <<chainVars, oappVars, failures>>
  PROVE  ChainsOK'
  BY DEF ChainsOK, chainVars, oappVars, sbtVars, SBTTypeOK, OAppTypeOK

LEMMA LocalOK ==
  ASSUME TypeOK, LocalStep, JobsOK'
  PROVE  TypeOK'
  <1>1. ChainsOK'
    BY TypeParts, SameChains DEF LocalStep
  <1> QED BY <1>1, TypeParts DEF TypeOK, ChainsOK, JobsOK

LEMMA DoingFacts ==
  ASSUME JobsOK, NEW t \in Threads, NEW name, Doing(t, name)
  PROVE  /\ ~Idle(t)
         /\ Head(job[t].todo).op = name
         /\ name \notin {"scan_scores", "save_sync_block", "scan_loans", "send"}
              => job[t].wallet \in Wallets /\ job[t].wallet # Nobody
  BY HeadFacts, CrossChainAssumption DEF Doing

LEMMA ReadLoanOK == ASSUME TypeOK, NEW t \in Threads, ReadLoan(t) PROVE TypeOK'
  <1> DEFINE m == Head(job[t].todo).at
             found == IF loan[m][job[t].wallet] THEN {m} ELSE {}
             n == [job[t] EXCEPT !.seen = @ \cup found, !.todo = Rest(t)]
  <1>1. JobsOK /\ Doing(t, "read")
    BY TypeParts DEF ReadLoan
  <1>2. /\ ~Idle(t) /\ job[t].wallet # Nobody /\ m \in Markets
        /\ job[t] \in Work /\ Rest(t) \in Seq(Steps)
    BY <1>1, DoingFacts, HeadFacts, StepFields
  <1>3. found \subseteq Markets
    BY <1>2
  <1>4. Become(t, n)
    BY DEF ReadLoan
  <1> HIDE DEF found
  <1>5. n \in Work /\ n.wallet # Nobody
    BY <1>2, <1>3 DEF Work
  <1> HIDE DEF n
  <1>6. JobsOK'
    BY <1>1, <1>4, <1>5, NextJobOK
  <1> QED BY <1>6, LocalOK DEF ReadLoan

LEMMA LoanDecisionsOK ==
  ASSUME TypeOK, NEW t \in Threads, DecideCreated(t) \/ DecideRepaid(t)
  PROVE  TypeOK'
  <1> DEFINE w == job[t].wallet
  <1>1. JobsOK /\ LocalStep /\ (Doing(t, "created") \/ Doing(t, "repaid"))
    BY TypeParts DEF DecideCreated, DecideRepaid
  <1>2. /\ ~Idle(t) /\ w \in Wallets /\ w # Nobody
        /\ job[t] \in Work /\ Rest(t) \in Seq(Steps)
    BY <1>1, DoingFacts, HeadFacts
  <1>3. profiles[w].score \in ScoreData /\ job[t].score \in ScoreData
    BY <1>2 DEF TypeOK, Work
  <1>4. /\ broadcast_repaid(w) \in Seq(Steps) /\ broadcast_loan_active(w) \in Seq(Steps)
        /\ broadcast_score(w, profiles[w].score) \in Seq(Steps)
        /\ broadcast_score(w, job[t].score) \in Seq(Steps)
    BY <1>2, <1>3, FlagBroadcast, ScoreBroadcast, StepsSeq
  <1>5. Op("ensure") \in Seq(Steps) /\ Op("clear") \in Seq(Steps) /\ <<>> \in Seq(Steps)
    BY OpShape, EmptySeq DEF PlainNames
  <1>6. \E steps \in Seq(Steps) : Proceed(t, steps)
    <2>1. CASE DecideCreated(t)
      <3> DEFINE first == IF Hub \in job[t].seen THEN <<>> ELSE Op("ensure")
                 a == broadcast_score(w, profiles[w].score)
                 b == broadcast_loan_active(w)
      <3>1. first \in Seq(Steps)
        BY <1>5
      <3>2. Proceed(t, broadcast_repaid(w) \o Rest(t)) \/ Proceed(t, first \o a \o b \o Rest(t))
        BY <2>1 DEF DecideCreated
      <3> HIDE DEF first, a, b
      <3>3. broadcast_repaid(w) \o Rest(t) \in Seq(Steps) /\ first \o a \o b \o Rest(t) \in Seq(Steps)
        BY <3>1, <1>2, <1>4, Bound DEF a, b
      <3> QED BY <3>2, <3>3
    <2>2. CASE DecideRepaid(t)
      <3> DEFINE a == broadcast_score(w, job[t].score)
      <3>1. Proceed(t, Rest(t)) \/ Proceed(t, Op("clear") \o a \o broadcast_repaid(w) \o Rest(t))
        BY <2>2 DEF DecideRepaid
      <3> HIDE DEF a
      <3>2. Op("clear") \o a \o broadcast_repaid(w) \o Rest(t) \in Seq(Steps)
        BY <1>2, <1>4, <1>5, Bound DEF a
      <3> QED BY <3>1, <3>2, <1>2
    <2> QED BY <2>1, <2>2
  <1>7. JobsOK'
    BY <1>1, <1>2, <1>6, ProceedOK
  <1> QED BY <1>1, <1>7, LocalOK

LEMMA ProfileScoreOK == ASSUME TypeOK, NEW t \in Threads, ProfileScore(t) PROVE TypeOK'
  <1> DEFINE sc == profiles[job[t].wallet].score
             n == [job[t] EXCEPT !.score = sc, !.todo = Rest(t)]
  <1>1. JobsOK /\ Doing(t, "profile_score")
    BY TypeParts DEF ProfileScore
  <1>2. /\ job[t].wallet \in Wallets /\ job[t].wallet # Nobody
        /\ job[t] \in Work /\ Rest(t) \in Seq(Steps)
    BY <1>1, DoingFacts, HeadFacts
  <1>3. sc \in ScoreData
    BY <1>2 DEF TypeOK
  <1>4. Become(t, n)
    BY DEF ProfileScore
  <1> HIDE DEF sc
  <1>5. n \in Work /\ n.wallet # Nobody
    BY <1>2, <1>3 DEF Work
  <1> HIDE DEF n
  <1>6. JobsOK'
    BY <1>1, <1>4, <1>5, NextJobOK
  <1> QED BY <1>6, LocalOK DEF ProfileScore

(* Steps that leave the chains alone and only change what is left to do.   *)
LEMMA LocalContinueOK ==
  ASSUME TypeOK, NEW t \in Threads, LocalStep, NEW steps \in Seq(Steps),
         job[t].wallet = Nobody => steps \in Seq(BatchSteps),
         Continue(t, steps) \/ Proceed(t, steps)
  PROVE  TypeOK'
  <1>1. JobsOK'
    BY TypeParts, ContinueOK, ProceedOK
  <1> QED BY <1>1, LocalOK

LEMMA ReadFlagOK == ASSUME TypeOK, NEW t \in Threads, ReadFlag(t) PROVE TypeOK'
  <1>1. JobsOK /\ LocalStep /\ (Doing(t, "ensure") \/ Doing(t, "clear"))
    BY TypeParts DEF ReadFlag
  <1>2. job[t].wallet # Nobody /\ Rest(t) \in Seq(Steps)
    BY <1>1, DoingFacts, HeadFacts
  <1>3. /\ Op("set_active") \in Seq(Steps) /\ Op("set_repaid") \in Seq(Steps)
        /\ <<>> \in Seq(Steps)
    BY OpShape, EmptySeq DEF PlainNames
  <1>4. /\ Op("set_active") \o Rest(t) \in Seq(Steps) /\ Op("set_repaid") \o Rest(t) \in Seq(Steps)
        /\ <<>> \o Rest(t) \in Seq(Steps)
    BY <1>2, <1>3, Bound
  <1>5. \/ Continue(t, Op("set_active") \o Rest(t)) \/ Continue(t, Op("set_repaid") \o Rest(t))
        \/ Continue(t, <<>> \o Rest(t))
    BY DEF ReadFlag
  <1> QED BY <1>1, <1>2, <1>4, <1>5, LocalContinueOK

LEMMA ClearLockOK == ASSUME TypeOK, NEW t \in Threads, ClearLock(t) PROVE TypeOK'
  <1>1. JobsOK /\ LocalStep /\ Doing(t, "clear_lock")
    BY TypeParts DEF ClearLock
  <1>2. job[t].wallet \in Wallets /\ job[t].wallet # Nobody
    BY <1>1, DoingFacts
  <1>3. broadcast_repaid(job[t].wallet) \in Seq(Steps) /\ <<>> \in Seq(Steps)
    BY <1>2, FlagBroadcast, StepsSeq, EmptySeq
  <1>4. Continue(t, broadcast_repaid(job[t].wallet)) \/ Continue(t, <<>>)
    BY SMTT(60) DEF ClearLock
  <1> QED BY <1>1, <1>2, <1>3, <1>4, LocalContinueOK

LEMMA ViewChainOK == ASSUME TypeOK, NEW t \in Threads, ViewChain(t) PROVE TypeOK'
  <1> DEFINE m == Head(job[t].todo).at
             w == job[t].wallet
             sc == IF m = Hub THEN profiles[w].score ELSE job[t].score
             higher(a, b) == IF a > b THEN a ELSE b
             ahead == IF m = Hub THEN job[t].ahead ELSE higher(job[t].ahead, spokeScores[m][w])
             seen == IF loan[m][w] THEN job[t].seen \cup {m} ELSE job[t].seen
             locked == IF m \in Spokes /\ loanActiveMirror[m][w] THEN job[t].locked \cup {m}
                       ELSE job[t].locked
             n == [job[t] EXCEPT !.score = sc, !.ahead = ahead, !.seen = seen, !.locked = locked,
                                 !.todo = Rest(t)]
  <1>1. JobsOK /\ Doing(t, "view")
    BY TypeParts DEF ViewChain
  <1>2. /\ w \in Wallets /\ w # Nobody /\ m \in Markets
        /\ job[t] \in Work /\ Rest(t) \in Seq(Steps)
    BY <1>1, DoingFacts, HeadFacts, StepFields
  <1>3. /\ job[t].score \in ScoreData /\ job[t].ahead \in ScoreData
        /\ job[t].seen \in SUBSET Markets /\ job[t].locked \in SUBSET Spokes
    BY <1>2 DEF Work
  <1>4. profiles[w].score \in ScoreData /\ (m # Hub => spokeScores[m][w] \in ScoreData)
    BY SMTT(60), <1>2 DEF TypeOK, OAppTypeOK, Markets
  <1>5. /\ sc \in ScoreData /\ ahead \in ScoreData
        /\ seen \in SUBSET Markets /\ locked \in SUBSET Spokes
    BY SMTT(60), <1>2, <1>3, <1>4
  <1>6. Become(t, n)
    BY DEF ViewChain
  <1> HIDE DEF sc, ahead, seen, locked, w
  <1>7. n \in Work /\ n.wallet = job[t].wallet
    BY <1>2, <1>5 DEF Work
  <1> HIDE DEF n
  <1>8. JobsOK'
    BY <1>1, <1>2, <1>6, <1>7, NextJobOK DEF w
  <1> QED BY SMTT(60), <1>8, LocalOK DEF ViewChain

LEMMA ReadsShape ==
  /\ sync_wallet_loan_active \in Seq(Steps) /\ sync_wallet_repaid \in Seq(Steps)
  /\ view_loans \in Seq(Steps) /\ whitelist_wallet \in Seq(Steps)
  /\ \A s \in Spokes : clear_lz_lock(s) \in Seq(Steps) /\ prepareSpokeBorrow(s) \in Seq(Steps)
  <1>1. \A name \in {"read", "view", "listed"} : OnEveryChain(name) \in Seq(Steps)
    BY OnEveryChainShape, AtShape
  <1>2. /\ Op("created") \in Seq(Steps) /\ Op("repaid") \in Seq(Steps)
        /\ Op("enrich") \in Seq(Steps) /\ Op("whitelist") \in Seq(Steps)
    BY OpShape DEF PlainNames
  <1>3. ASSUME NEW s \in Spokes
        PROVE  clear_lz_lock(s) \in Seq(Steps) /\ prepareSpokeBorrow(s) \in Seq(Steps)
    <2>1. /\ At("lock_kind", s) \in Steps /\ At("view", s) \in Steps
          /\ At("view", Hub) \in Steps /\ At("prepare", s) \in Steps
      BY AtShape DEF Markets
    <2>2. <<At("lock_kind", s)>> \in Seq(Steps)
          /\ <<At("view", s), At("view", Hub), At("prepare", s)>> \in Seq(Steps)
      BY <2>1
    <2> QED BY <1>1, <2>2, Bound DEF clear_lz_lock, prepareSpokeBorrow
  <1>4. sync_wallet_loan_active \in Seq(Steps) /\ sync_wallet_repaid \in Seq(Steps)
    BY <1>1, <1>2, Bound DEF sync_wallet_loan_active, sync_wallet_repaid
  <1>5. view_loans \in Seq(Steps) /\ whitelist_wallet \in Seq(Steps)
    BY <1>1, <1>2, Bound DEF view_loans, whitelist_wallet
  <1> QED BY <1>3, <1>4, <1>5

LEMMA EnrichOK == ASSUME TypeOK, NEW t \in Threads, Enrich(t) PROVE TypeOK'
  <1> DEFINE w == job[t].wallet
             seen == job[t].seen
             locked == job[t].locked
             ahead == job[t].ahead
             locks == IF seen # {} /\ Spokes \ (seen \cup locked) # {} THEN sync_wallet_loan_active
                      ELSE IF seen = {} /\ locked # {} THEN broadcast_repaid(w)
                      ELSE <<>>
             repair == repairChainScoreMismatch(w, ahead)
             N(steps) == [IdleJob EXCEPT !.wallet = w, !.score = ahead, !.todo = steps]
  <1>1. JobsOK /\ LocalStep /\ Doing(t, "enrich")
    BY TypeParts DEF Enrich
  <1>2. w \in Wallets /\ w # Nobody /\ job[t] \in Work
    BY <1>1, DoingFacts, HeadFacts
  <1>3. ahead \in ScoreData
    BY <1>2 DEF Work
  <1>4. locks \in Seq(Steps)
    BY <1>2, ReadsShape, FlagBroadcast, StepsSeq, EmptySeq
  <1>5. repair \in Seq(Steps)
    <2>1. Underwriting(TRUE, Len(SpokeOrder)) \in Seq(Steps)
      BY UnderwritingShape, SpokeOrderType
    <2>2. broadcast_score(w, ahead) \in Seq(Steps)
      BY <1>2, <1>3, ScoreBroadcast, StepsSeq
    <2> QED BY <2>1, <2>2, Bound DEF repairChainScoreMismatch
  <1>6. Become(t, N(locks)) \/ Become(t, N(repair \o locks)) \/ Become(t, N(locks \o repair))
    BY DEF Enrich
  <1> HIDE DEF locks, repair, ahead, w
  <1>7. ASSUME NEW steps \in Seq(Steps) PROVE N(steps) \in Work /\ N(steps).wallet # Nobody
    BY <1>2, <1>3, IdleJobOK DEF Work
  <1>8. repair \o locks \in Seq(Steps) /\ locks \o repair \in Seq(Steps)
    BY <1>4, <1>5, Bound
  <1> HIDE DEF N
  <1>9. JobsOK'
    BY <1>1, <1>4, <1>6, <1>7, <1>8, NextJobOK
  <1> QED BY <1>1, <1>9, LocalOK

LEMMA UnlockOK == ASSUME TypeOK, NEW t \in Threads, Unlock(t) PROVE TypeOK'
  <1> DEFINE s == Head(job[t].todo).at
  <1>1. JobsOK /\ LocalStep /\ (Doing(t, "lock_kind") \/ Doing(t, "prepare"))
    BY TypeParts DEF Unlock
  <1>2. job[t].wallet # Nobody /\ s \in Spokes
    BY <1>1, DoingFacts, HeadFacts, StepFields
  <1>3. prepareSpokeBorrow(s) \in Seq(Steps) /\ clear_lock(TRUE) \in Seq(Steps) /\ <<>> \in Seq(Steps)
    BY <1>2, ReadsShape, ClearLockShape, EmptySeq
  <1>4. Proceed(t, prepareSpokeBorrow(s)) \/ Proceed(t, clear_lock(TRUE)) \/ Proceed(t, <<>>)
    BY DEF Unlock
  <1> QED BY <1>1, <1>2, <1>3, <1>4, LocalContinueOK

LEMMA RefusedType ==
  ASSUME JobsOK, NEW t \in Threads, ~Idle(t), Head(job[t].todo).op \in {"vet", "commit"}
  PROVE  Refused(job[t].todo) \in Seq(Steps)
  <1>1. job[t].todo \in Seq(Steps) /\ Head(job[t].todo).without \in Nat
    BY HeadFacts, StepFields
  <1>2. Len(job[t].todo) \in Nat /\ \A i \in 1 .. Len(job[t].todo) : job[t].todo[i] \in Steps
    BY <1>1, LenProperties, ElementOfSeq
  <1>3. \A i \in 2 + Head(job[t].todo).without .. Len(job[t].todo) : job[t].todo[i] \in Steps
    BY <1>1, <1>2
  <1>4. 2 + Head(job[t].todo).without \in Int /\ Len(job[t].todo) \in Int
    BY <1>1, <1>2
  <1> QED BY <1>3, <1>4, SubSeqProperties DEF Refused

LEMMA VetOK == ASSUME TypeOK, NEW t \in Threads, Vet(t) PROVE TypeOK'
  <1>1. JobsOK /\ LocalStep /\ Doing(t, "vet")
    BY TypeParts DEF Vet
  <1>2. /\ ~Idle(t) /\ job[t].wallet # Nobody /\ Rest(t) \in Seq(Steps)
        /\ Head(job[t].todo).op = "vet"
    BY <1>1, DoingFacts, HeadFacts
  <1>3. Refused(job[t].todo) \in Seq(Steps)
    BY <1>1, <1>2, RefusedType
  <1>4. Continue(t, Rest(t)) \/ Continue(t, Refused(job[t].todo))
    BY DEF Vet
  <1> QED BY <1>1, <1>2, <1>3, <1>4, LocalContinueOK

LEMMA ReportOK == ASSUME TypeOK, NEW t \in Threads, ReportWhitelisted(t) PROVE TypeOK'
  <1>1. JobsOK /\ Doing(t, "report") /\ Continue(t, Rest(t))
    BY TypeParts DEF ReportWhitelisted
  <1>2. job[t].wallet # Nobody /\ Rest(t) \in Seq(Steps)
    BY <1>1, DoingFacts, HeadFacts
  <1>3. JobsOK'
    BY <1>1, <1>2, ContinueOK
  <1>4. ChainsOK'
    BY TypeParts DEF ReportWhitelisted, ChainsOK, SBTTypeOK, OAppTypeOK, sbtVars, oappVars
  <1> QED BY <1>3, <1>4, TypeParts DEF TypeOK, ChainsOK, JobsOK

(* What the profile contract's functions do to the scores.                 *)
LEMMA ScoreSet ==
  ASSUME SBTTypeOK, NEW w \in Wallets, NEW sc \in Nat, mintSBT(w, sc) \/ updateScore(w, sc)
  PROVE  /\ SBTTypeOK' /\ profiles'[w].score = sc
         /\ \A v \in Wallets \ {w} : profiles'[v] = profiles[v]
  <1>1. ASSUME mintSBT(w, sc)
        PROVE  profiles'[w].score = sc /\ \A v \in Wallets \ {w} : profiles'[v] = profiles[v]
    BY <1>1 DEF mintSBT, SBTTypeOK, FreshProfile
  <1>2. ASSUME updateScore(w, sc)
        PROVE  profiles'[w].score = sc /\ \A v \in Wallets \ {w} : profiles'[v] = profiles[v]
    BY <1>2 DEF updateScore, SBTTypeOK, Profile
  <1>3. SBTTypeOK'
    BY MintStep, UpdateScoreStep
  <1> QED BY <1>1, <1>2, <1>3

LEMMA ScoresKept ==
  ASSUME SBTTypeOK, NEW w \in Wallets,
         \/ setLoanActive(w) \/ setLoanRepaid(w) \/ recordDefault(w)
         \/ whitelistWallet(w) \/ removeFromBlacklist(w)
  PROVE  SBTTypeOK' /\ \A v \in Wallets : profiles'[v].score = profiles[v].score
  <1>1. CASE setLoanActive(w)
    BY <1>1, SetLoanActiveStep DEF setLoanActive, SBTTypeOK, Profile
  <1>2. CASE setLoanRepaid(w)
    BY <1>2, SetLoanRepaidStep DEF setLoanRepaid, SBTTypeOK, Profile
  <1>3. CASE recordDefault(w)
    BY <1>3, RecordDefaultStep DEF recordDefault, SBTTypeOK, Profile
  <1>4. CASE whitelistWallet(w)
    BY <1>4, WhitelistStep DEF whitelistWallet, SBTTypeOK, Profile
  <1>5. CASE removeFromBlacklist(w)
    BY <1>5, RemoveFromBlacklistStep DEF removeFromBlacklist
  <1> QED BY <1>1, <1>2, <1>3, <1>4, <1>5

LEMMA CommitOK == ASSUME TypeOK, NEW t \in Threads, Commit(t) PROVE TypeOK'
  <1> DEFINE w == job[t].wallet
             sc == job[t].score
  <1>1. JobsOK /\ ChainsOK /\ Doing(t, "commit") /\ Continue(t, Rest(t))
        /\ UNCHANGED <<loan, touched, shunned, crossed, oappVars, failures>>
    BY TypeParts DEF Commit
  <1>2. w \in Wallets /\ w # Nobody /\ job[t] \in Work /\ Rest(t) \in Seq(Steps)
    BY <1>1, DoingFacts, HeadFacts
  <1>3. sc \in ScoreData /\ sc \in Nat
    BY <1>2, OAppAssumption DEF Work
  <1>4. JobsOK'
    BY <1>1, <1>2, ContinueOK
  <1>5. \/ /\ mintSBT(w, sc) \/ updateScore(w, sc)
           /\ unsynced' = [unsynced EXCEPT ![w] = sc]
        \/ UNCHANGED <<sbtVars, unsynced>>
    BY DEF Commit
  <1>6. SBTTypeOK' /\ \A v \in Wallets : profiles'[v].score \in ScoreData
    <2>1. CASE mintSBT(w, sc) \/ updateScore(w, sc)
      BY <2>1, <1>1, <1>2, <1>3, ScoreSet DEF ChainsOK
    <2>2. CASE UNCHANGED sbtVars
      BY <2>2, <1>1 DEF ChainsOK, SBTTypeOK, sbtVars
    <2> QED BY <2>1, <2>2, <1>5
  <1>7. unsynced' \in [Wallets -> ScoreData]
    BY <1>1, <1>3, <1>5 DEF ChainsOK
  <1>8. ChainsOK'
    BY <1>1, <1>6, <1>7 DEF ChainsOK, OAppTypeOK, oappVars
  <1> QED BY <1>4, <1>8, TypeParts DEF TypeOK, ChainsOK, JobsOK

LEMMA FlagWritesOK ==
  ASSUME TypeOK, NEW t \in Threads, WriteFlag(t) \/ HubWhitelistTx(t)
  PROVE  TypeOK'
  <1> DEFINE w == job[t].wallet
  <1>1. JobsOK /\ ChainsOK /\ Continue(t, Rest(t))
        /\ UNCHANGED <<loan, touched, unsynced, shunned, crossed, oappVars, failures>>
    BY TypeParts DEF WriteFlag, HubWhitelistTx
  <1>2. Doing(t, "set_active") \/ Doing(t, "set_repaid") \/ Doing(t, "whitelist_tx") \/ Doing(t, "unlist")
    BY DEF WriteFlag, HubWhitelistTx
  <1>3. w \in Wallets /\ w # Nobody /\ Rest(t) \in Seq(Steps)
    BY <1>1, <1>2, DoingFacts, HeadFacts
  <1>4. JobsOK'
    BY <1>1, <1>3, ContinueOK
  <1>5. setLoanActive(w) \/ setLoanRepaid(w) \/ whitelistWallet(w) \/ removeFromBlacklist(w)
    BY DEF WriteFlag, HubWhitelistTx
  <1>6. SBTTypeOK' /\ \A v \in Wallets : profiles'[v].score = profiles[v].score
    BY <1>1, <1>3, <1>5, ScoresKept DEF ChainsOK
  <1>7. ChainsOK'
    BY <1>1, <1>6 DEF ChainsOK, OAppTypeOK, oappVars
  <1> QED BY <1>4, <1>7, TypeParts DEF TypeOK, ChainsOK, JobsOK

(* A table of values by spoke or market, and wallet.                       *)
LEMMA TableSet ==
  ASSUME NEW S, NEW T, NEW V, NEW f \in [S -> [T -> V]], NEW s \in S, NEW t \in T, NEW v \in V
  PROVE  /\ [f EXCEPT ![s][t] = v] \in [S -> [T -> V]]
         /\ [f EXCEPT ![s][t] = v][s][t] = v
         /\ \A x \in S, y \in T : x # s \/ y # t => [f EXCEPT ![s][t] = v][x][y] = f[x][y]
  OBVIOUS

LEMMA SendOK ==
  ASSUME OAppTypeOK, NEW m \in Messages, lzSend(m)
  PROVE  OAppTypeOK'
  <1>1. inFlight[m] + 1 \in 0 .. MaxCopies
    BY OAppAssumption DEF lzSend, OAppTypeOK
  <1> QED BY <1>1 DEF lzSend, OAppTypeOK

LEMMA ReceiveOK ==
  ASSUME OAppTypeOK, NEW m \in Messages, lzReceive(m)
  PROVE  OAppTypeOK'
  <1>1. m.wallet \in Wallets /\ m.dst \in Spokes /\ m.data \in ScoreData /\ 310 \in ScoreData
    BY MessageFields, OAppAssumption
  <1>2. inFlight' \in [Messages -> 0 .. MaxCopies]
    <2>1. inFlight[m] - 1 \in 0 .. MaxCopies
      BY OAppAssumption DEF lzReceive, OAppTypeOK
    <2> QED BY <2>1 DEF lzReceive, OAppTypeOK
  <1>3. \E d \in ScoreData : spokeScores' \in {spokeScores, [spokeScores EXCEPT ![m.dst][m.wallet] = d]}
    <2>1. \/ spokeScores' = spokeScores
          \/ spokeScores' = [spokeScores EXCEPT ![m.dst][m.wallet] = m.data]
          \/ spokeScores' = [spokeScores EXCEPT ![m.dst][m.wallet] = 310]
          \/ spokeScores' = [spokeScores EXCEPT ![m.dst][m.wallet] =
                               IF m.data > 0 THEN m.data ELSE spokeScores[m.dst][m.wallet]]
      BY DEF lzReceive, setScore
    <2>2. (IF m.data > 0 THEN m.data ELSE spokeScores[m.dst][m.wallet]) \in ScoreData
      BY <1>1 DEF OAppTypeOK
    <2> QED BY <2>1, <2>2, <1>1, Zenon
  <1>4. \E b \in BOOLEAN :
          defaultBlacklist' \in {defaultBlacklist, [defaultBlacklist EXCEPT ![m.dst][m.wallet] = b]}
    BY Zenon DEF lzReceive, setBlacklist
  <1>5. \E b \in BOOLEAN :
          loanActiveMirror' \in {loanActiveMirror, [loanActiveMirror EXCEPT ![m.dst][m.wallet] = b]}
    BY Zenon DEF lzReceive, setMirror
  <1>6. spokeScores' \in [Spokes -> [Wallets -> ScoreData]]
    <2>1. PICK d \in ScoreData :
            spokeScores' \in {spokeScores, [spokeScores EXCEPT ![m.dst][m.wallet] = d]}
      BY <1>3
    <2>2. [spokeScores EXCEPT ![m.dst][m.wallet] = d] \in [Spokes -> [Wallets -> ScoreData]]
      BY <1>1, TableSet DEF OAppTypeOK
    <2> QED BY <2>1, <2>2 DEF OAppTypeOK
  <1>7. defaultBlacklist' \in [Spokes -> [Wallets -> BOOLEAN]]
    <2>1. PICK b \in BOOLEAN :
            defaultBlacklist' \in {defaultBlacklist, [defaultBlacklist EXCEPT ![m.dst][m.wallet] = b]}
      BY <1>4
    <2>2. [defaultBlacklist EXCEPT ![m.dst][m.wallet] = b] \in [Spokes -> [Wallets -> BOOLEAN]]
      BY <1>1, TableSet DEF OAppTypeOK
    <2> QED BY <2>1, <2>2 DEF OAppTypeOK
  <1>8. loanActiveMirror' \in [Spokes -> [Wallets -> BOOLEAN]]
    <2>1. PICK b \in BOOLEAN :
            loanActiveMirror' \in {loanActiveMirror, [loanActiveMirror EXCEPT ![m.dst][m.wallet] = b]}
      BY <1>5
    <2>2. [loanActiveMirror EXCEPT ![m.dst][m.wallet] = b] \in [Spokes -> [Wallets -> BOOLEAN]]
      BY <1>1, TableSet DEF OAppTypeOK
    <2> QED BY <2>1, <2>2 DEF OAppTypeOK
  <1> QED BY <1>2, <1>6, <1>7, <1>8 DEF OAppTypeOK

LEMMA SendMessageOK == ASSUME TypeOK, NEW t \in Threads, SendMessage(t) PROVE TypeOK'
  <1>1. JobsOK /\ ChainsOK /\ Doing(t, "send") /\ Continue(t, Rest(t))
        /\ lzSend(Head(job[t].todo).msg) /\ UNCHANGED <<chainVars, failures>>
    BY TypeParts DEF SendMessage
  <1>2. ~Idle(t) /\ Head(job[t].todo).op = "send"
    BY <1>1, DoingFacts
  <1>3. /\ Head(job[t].todo).msg \in Messages
        /\ Rest(t) \in Seq(Steps) /\ (job[t].wallet = Nobody => Rest(t) \in Seq(BatchSteps))
    BY <1>1, <1>2, HeadFacts, StepFields
  <1>4. JobsOK'
    BY <1>1, <1>3, ContinueOK
  <1>5. OAppTypeOK'
    BY <1>1, <1>3, SendOK DEF ChainsOK
  <1>6. ChainsOK'
    BY <1>1, <1>5 DEF ChainsOK, chainVars, sbtVars, SBTTypeOK
  <1> QED BY <1>4, <1>6, TypeParts DEF TypeOK, ChainsOK, JobsOK

LEMMA ClearSpokeOK == ASSUME TypeOK, NEW t \in Threads, ClearSpoke(t) PROVE TypeOK'
  <1> DEFINE s == Head(job[t].todo).at
             w == job[t].wallet
             sc == job[t].score
  <1>1. JobsOK /\ ChainsOK /\ Doing(t, "clear_spoke") /\ Continue(t, Rest(t))
        /\ clearDefaultBlacklist(s, w, sc) /\ UNCHANGED <<chainVars, failures>>
    BY TypeParts DEF ClearSpoke
  <1>2. ~Idle(t) /\ Head(job[t].todo).op = "clear_spoke" /\ w \in Wallets /\ w # Nobody
    BY <1>1, DoingFacts
  <1>3. s \in Spokes /\ job[t] \in Work /\ Rest(t) \in Seq(Steps)
    BY <1>1, <1>2, HeadFacts, StepFields
  <1>4. JobsOK'
    BY <1>1, <1>2, <1>3, ContinueOK
  <1>5. sc \in ScoreData
    BY SMTT(60), <1>3 DEF Work
  <1>6. OAppTypeOK'
    BY <1>1, <1>2, <1>3, <1>5 DEF ChainsOK, OAppTypeOK, clearDefaultBlacklist, setScore, setBlacklist
  <1>7. ChainsOK'
    BY <1>1, <1>6 DEF ChainsOK, chainVars, sbtVars, SBTTypeOK
  <1> QED BY <1>4, <1>7, TypeParts DEF TypeOK, ChainsOK, JobsOK

LEMMA ConcatBroadcast ==
  ASSUME NEW W \in SUBSET Wallets, NEW lists, DOMAIN lists = W,
         \A w \in W : lists[w] \in Seq(Sends)
  PROVE  /\ Concat(lists) \in Seq(Sends)
         /\ Concat(lists) \in Seq(BatchSteps) /\ Concat(lists) \in Seq(Steps)
  <1>1. IsFiniteSet(DOMAIN lists)
    BY CrossChainAssumption, FS_Subset
  <1>2. Concat(lists) \in Seq(Sends)
    BY <1>1, ConcatType
  <1> QED BY <1>2, StepsSeq

LEMMA ScansOK ==
  ASSUME TypeOK, NEW t \in Threads, ScanScores(t) \/ ScanLoans(t)
  PROVE  TypeOK'
  <1> DEFINE fresh == {w \in Wallets : unsynced[w] # 0}
             active == {w \in touched : loan[Hub][w]}
             scores == Concat([w \in fresh |-> broadcast_score(w, unsynced[w])])
             save == IF fresh = {} THEN <<>> ELSE Op("save_sync_block")
             locks == Concat([w \in active |-> broadcast_loan_active(w)])
             frees == Concat([w \in touched \ active |-> broadcast_repaid(w)])
  <1>1. JobsOK /\ LocalStep
    BY TypeParts DEF ScanScores, ScanLoans
  <1>2. scores \in Seq(BatchSteps)
    <2>1. \A w \in fresh : broadcast_score(w, unsynced[w]) \in Seq(Sends)
      BY ScoreBroadcast DEF TypeOK
    <2> QED BY <2>1, ConcatBroadcast
  <1>3. locks \in Seq(BatchSteps) /\ frees \in Seq(BatchSteps)
    <2>1. touched \subseteq Wallets
      BY DEF TypeOK
    <2>2. \A w \in touched : broadcast_loan_active(w) \in Seq(Sends) /\ broadcast_repaid(w) \in Seq(Sends)
      BY <2>1, FlagBroadcast
    <2>3. active \in SUBSET Wallets /\ touched \ active \in SUBSET Wallets
      BY <2>1
    <2>4. locks \in Seq(BatchSteps)
      BY <2>2, <2>3, ConcatBroadcast
    <2>5. frees \in Seq(BatchSteps)
      BY <2>2, <2>3, ConcatBroadcast
    <2> QED BY <2>4, <2>5
  <1>4. save \in Seq(BatchSteps) /\ Op("scan_loans") \in Seq(BatchSteps)
    BY OpShape, EmptySeq DEF BatchNames
  <1>5. Continue(t, scores \o save \o Op("scan_loans")) \/ Continue(t, locks \o frees)
    BY DEF ScanScores, ScanLoans
  <1> HIDE DEF scores, save, locks, frees
  <1>6. scores \o save \o Op("scan_loans") \in Seq(BatchSteps) /\ locks \o frees \in Seq(BatchSteps)
    BY <1>2, <1>3, <1>4, Bound
  <1> QED BY <1>1, <1>5, <1>6, StepsSeq, LocalContinueOK

LEMMA SaveSyncBlockOK == ASSUME TypeOK, NEW t \in Threads, SaveSyncBlock(t) PROVE TypeOK'
  <1>1. /\ JobsOK /\ ChainsOK /\ Doing(t, "save_sync_block") /\ Continue(t, Rest(t))
        /\ unsynced' = [w \in Wallets |-> 0]
        /\ UNCHANGED <<sbtVars, loan, touched, shunned, crossed, oappVars, failures>>
    BY TypeParts DEF SaveSyncBlock
  <1>2. JobsOK'
    BY <1>1, DoingFacts, HeadFacts, ContinueOK
  <1>3. ChainsOK'
    BY <1>1, OAppAssumption DEF ChainsOK, sbtVars, oappVars, SBTTypeOK, OAppTypeOK
  <1> QED BY <1>2, <1>3, TypeParts DEF TypeOK, ChainsOK, JobsOK

LEMMA VerdictOK == ASSUME TypeOK, NEW t \in Threads, Verdict(t) PROVE TypeOK'
  <1> DEFINE w == job[t].wallet
  <1>1. JobsOK /\ LocalStep /\ Doing(t, "verdict")
    BY TypeParts DEF Verdict
  <1>2. w \in Wallets /\ w # Nobody
    BY <1>1, DoingFacts
  <1>3. CASE Continue(t, <<>>)
    BY <1>1, <1>2, <1>3, EmptySeq, LocalContinueOK
  <1>4. CASE ~Continue(t, <<>>)
    <2>1. PICK linked \in SUBSET (Wallets \ {w}) :
            Continue(t, (IF linked = {} THEN <<>>
                         ELSE <<[op |-> "blacklist", wallets |-> linked]>>)
                        \o broadcast_default(w) \o Concat([v \in linked |-> broadcast_default(v)]))
      BY <1>4 DEF Verdict
    <2> DEFINE first == IF linked = {} THEN <<>> ELSE <<[op |-> "blacklist", wallets |-> linked]>>
               others == Concat([v \in linked |-> broadcast_default(v)])
    <2>2. first \in Seq(Steps)
      <3>1. [op |-> "blacklist", wallets |-> linked] \in Steps
        BY DEF Steps
      <3> QED BY <3>1, OneStep, EmptySeq
    <2>3. others \in Seq(Steps)
      <3>1. \A v \in linked : broadcast_default(v) \in Seq(Sends)
        BY FlagBroadcast
      <3>2. linked \in SUBSET Wallets
        OBVIOUS
      <3> QED BY <3>1, <3>2, ConcatBroadcast
    <2>4. broadcast_default(w) \in Seq(Steps)
      BY <1>2, FlagBroadcast, StepsSeq
    <2> HIDE DEF first, others
    <2>5. first \o broadcast_default(w) \o others \in Seq(Steps)
      BY <2>2, <2>3, <2>4, Bound
    <2>6. Continue(t, first \o broadcast_default(w) \o others)
      BY <2>1 DEF first, others
    <2> QED BY <1>1, <1>2, <2>5, <2>6, LocalContinueOK
  <1> QED BY <1>3, <1>4

LEMMA BlacklistLinkedOK == ASSUME TypeOK, NEW t \in Threads, BlacklistLinked(t) PROVE TypeOK'
  <1> DEFINE ws == Head(job[t].todo).wallets
  <1>1. /\ JobsOK /\ ChainsOK /\ Doing(t, "blacklist") /\ Continue(t, Rest(t))
        /\ blacklistLinkedWallets(ws)
        /\ shunned' = shunned \cup ws /\ crossed' = crossed \cup ws
        /\ UNCHANGED <<loan, touched, unsynced, oappVars, failures>>
    BY TypeParts DEF BlacklistLinked, Shun
  <1>2. ~Idle(t) /\ Head(job[t].todo).op = "blacklist" /\ job[t].wallet # Nobody
    BY <1>1, DoingFacts
  <1>3. ws \subseteq Wallets /\ Rest(t) \in Seq(Steps)
    BY <1>1, <1>2, HeadFacts, StepFields
  <1>4. JobsOK'
    BY <1>1, <1>2, <1>3, ContinueOK
  <1>5. SBTTypeOK' /\ UNCHANGED profiles
    BY <1>1, BlacklistStep DEF ChainsOK, blacklistLinkedWallets
  <1>6. ChainsOK'
    BY <1>1, <1>3, <1>5 DEF ChainsOK, oappVars, OAppTypeOK
  <1> QED BY <1>4, <1>6, TypeParts DEF TypeOK, ChainsOK, JobsOK

LEMMA ReadListedOK == ASSUME TypeOK, NEW t \in Threads, ReadListed(t) PROVE TypeOK'
  <1> DEFINE m == Head(job[t].todo).at
             w == job[t].wallet
             listed == IF m = Hub THEN blacklisted[w] ELSE defaultBlacklist[m][w]
             seen == IF listed THEN job[t].seen \cup {m} ELSE job[t].seen
             n == [job[t] EXCEPT !.seen = seen, !.todo = Rest(t)]
  <1>1. JobsOK /\ Doing(t, "listed") /\ LocalStep
    BY TypeParts DEF ReadListed
  <1>2. /\ ~Idle(t) /\ job[t].wallet # Nobody /\ m \in Markets
        /\ job[t] \in Work /\ Rest(t) \in Seq(Steps)
    BY SMTT(60), <1>1, DoingFacts, HeadFacts, StepFields
  <1>3. Become(t, n)
    BY DEF ReadListed
  <1>4. seen \in SUBSET Markets
    BY <1>2 DEF Work
  <1> HIDE DEF seen
  <1>5. n \in Work /\ n.wallet # Nobody
    BY <1>2, <1>4 DEF Work
  <1> HIDE DEF n
  <1>6. JobsOK'
    BY <1>1, <1>3, <1>5, NextJobOK
  <1> QED BY <1>1, <1>6, LocalOK

LEMMA DecideWhitelistOK == ASSUME TypeOK, NEW t \in Threads, DecideWhitelist(t) PROVE TypeOK'
  <1> DEFINE w       == job[t].wallet
             p       == profiles[w]
             onHub   == Hub \in job[t].seen
             onSpoke == job[t].seen \ {Hub} # {}
             direct  == OnEverySpoke("spoke_listed")
             told    == broadcast_whitelist(w, p.score)
             hubTx   == <<[op |-> "whitelist_tx", fallback |-> onHub, dirty |-> p.defaultCount > 0]>>
             clear   ==
               IF ~p.exists
               THEN (IF onHub THEN Op("unlist") ELSE <<>>)
                    \o (IF onHub \/ onSpoke THEN direct ELSE <<>>)
                    \o (IF onSpoke THEN told ELSE <<>>)
               ELSE IF onHub \/ p.defaultCount > 0 THEN hubTx \o told \o direct
               ELSE IF onSpoke THEN told \o direct
               ELSE <<>>
             n == [job[t] EXCEPT !.score = p.score, !.seen = {}, !.todo = clear \o Op("report")]
  <1>1. JobsOK /\ LocalStep /\ Doing(t, "whitelist")
    BY TypeParts DEF DecideWhitelist
  <1>2. w \in Wallets /\ w # Nobody /\ job[t] \in Work
    BY <1>1, DoingFacts, HeadFacts
  <1>3. p.score \in ScoreData
    BY <1>2 DEF TypeOK
  <1>4. direct \in Seq(Steps)
    BY OnEverySpokeShape, AtShape
  <1>5. told \in Seq(Steps)
    BY <1>2, <1>3, ScoreBroadcast, StepsSeq
  <1>6. hubTx \in Seq(Steps)
    <2>1. [op |-> "whitelist_tx", fallback |-> onHub, dirty |-> p.defaultCount > 0] \in Steps
      BY DEF Steps
    <2> QED BY <2>1, OneStep
  <1>7. Op("unlist") \in Seq(Steps) /\ Op("report") \in Seq(Steps) /\ <<>> \in Seq(Steps)
    BY OpShape, EmptySeq DEF PlainNames
  <1>8. Become(t, n)
    BY DEF DecideWhitelist
  <1> HIDE DEF direct, told, hubTx, p, w
  <1>9. /\ (IF onHub THEN Op("unlist") ELSE <<>>) \in Seq(Steps)
        /\ (IF onHub \/ onSpoke THEN direct ELSE <<>>) \in Seq(Steps)
        /\ (IF onSpoke THEN told ELSE <<>>) \in Seq(Steps)
    BY <1>4, <1>5, <1>7
  <1>10. clear \in Seq(Steps)
    <2>1. (IF onHub THEN Op("unlist") ELSE <<>>)
            \o (IF onHub \/ onSpoke THEN direct ELSE <<>>)
            \o (IF onSpoke THEN told ELSE <<>>) \in Seq(Steps)
      BY <1>9, Bound
    <2>2. hubTx \o told \o direct \in Seq(Steps) /\ told \o direct \in Seq(Steps)
      BY <1>4, <1>5, <1>6, Bound
    <2> QED BY <2>1, <2>2, <1>7
  <1> HIDE DEF clear
  <1>11. clear \o Op("report") \in Seq(Steps)
    BY <1>7, <1>10, Bound
  <1>12. n \in Work /\ n.wallet # Nobody
    BY <1>2, <1>3, <1>11 DEF Work, w
  <1> HIDE DEF n
  <1>13. JobsOK'
    BY <1>1, <1>8, <1>12, NextJobOK
  <1> QED BY <1>1, <1>13, LocalOK

LEMMA SpokeListedOK == ASSUME TypeOK, NEW t \in Threads, SpokeListed(t) PROVE TypeOK'
  <1> DEFINE s == Head(job[t].todo).at
             first == IF defaultBlacklist[s][job[t].wallet] THEN <<At("clear_spoke", s)>> ELSE <<>>
  <1>1. JobsOK /\ LocalStep /\ Doing(t, "spoke_listed")
    BY TypeParts DEF SpokeListed
  <1>2. job[t].wallet # Nobody /\ s \in Spokes /\ Rest(t) \in Seq(Steps)
    BY <1>1, DoingFacts, HeadFacts, StepFields
  <1>3. first \in Seq(Steps)
    <2>1. At("clear_spoke", s) \in Steps
      BY SMTT(60), <1>2, AtShape
    <2> QED BY <2>1, OneStep, EmptySeq
  <1>4. Continue(t, first \o Rest(t))
    BY DEF SpokeListed
  <1> HIDE DEF first
  <1>5. first \o Rest(t) \in Seq(Steps)
    BY <1>2, <1>3, Bound
  <1> QED BY <1>1, <1>2, <1>4, <1>5, LocalContinueOK

LEMMA SalvageType ==
  ASSUME JobsOK, NEW t \in Threads, ~Idle(t)
  PROVE  Salvage(t) \in Seq(Steps) /\ (job[t].wallet = Nobody => Salvage(t) \in Seq(BatchSteps))
  <1> DEFINE todo == job[t].todo
             rest == Tail(todo)
             told == {i \in DOMAIN rest : IsSend(rest[i], "WHITELIST")}
             from == 1 + Cardinality(told)
             later == SubSeq(rest, from, Len(rest))
  <1>1. /\ todo \in Seq(Steps) /\ rest \in Seq(Steps) /\ Head(todo) \in Steps
        /\ job[t].wallet = Nobody => rest \in Seq(BatchSteps) /\ Head(todo) \in BatchSteps
    BY HeadFacts DEF Rest
  <1>2. Len(rest) \in Nat /\ DOMAIN rest = 1 .. Len(rest)
    BY <1>1, LenProperties
  <1>3. from \in Int /\ from >= 1
    <2>1. IsFiniteSet(1 .. Len(rest))
      BY <1>2, FS_Interval
    <2>2. IsFiniteSet(told)
      BY <1>2, <2>1, FS_Subset
    <2>3. Cardinality(told) \in Nat
      BY <2>2, FS_CardinalityType
    <2> HIDE DEF told
    <2> QED BY <2>3
  <1> HIDE DEF from
  <1>4. later \in Seq(Steps)
    <2>1. \A i \in from .. Len(rest) : rest[i] \in Steps
      BY <1>1, <1>2, <1>3, ElementOfSeq
    <2> QED BY <2>1, <1>2, <1>3, SubSeqProperties
  <1>5. job[t].wallet = Nobody => later \in Seq(BatchSteps)
    <2>1. SUFFICES ASSUME job[t].wallet = Nobody PROVE later \in Seq(BatchSteps)
      OBVIOUS
    <2>2. \A i \in from .. Len(rest) : rest[i] \in BatchSteps
      BY <1>1, <1>2, <1>3, <2>1, ElementOfSeq
    <2> QED BY <2>2, <1>2, <1>3, SubSeqProperties
  <1>6. \/ Salvage(t) = rest \/ Salvage(t) = later
        \/ Salvage(t) = Refused(todo) /\ Head(todo).op \in {"vet", "commit"}
        \/ Salvage(t) = clear_lock(TRUE) /\ Last(todo).op = "clear_lock"
        \/ Salvage(t) = <<>>
    <2> DEFINE skips == \/ Head(todo).op \in {"set_active", "set_repaid", "spoke_listed", "clear_spoke"}
                        \/ Head(todo).op \in {"read", "listed"} /\ Head(todo).at # Hub
               untold == IsSend(Head(todo), "WHITELIST") /\ profiles[job[t].wallet].exists
               last == IF Last(todo).op = "clear_lock" THEN clear_lock(TRUE) ELSE <<>>
    <2>1. Salvage(t) = CASE skips -> rest
                         [] untold -> later
                         [] Head(todo).op \in {"vet", "commit"} -> Refused(todo)
                         [] OTHER -> last
      BY DEF Salvage, from
    <2> HIDE DEF skips, untold, last, later, rest
    <2>2. \/ Salvage(t) = rest \/ Salvage(t) = later
          \/ Salvage(t) = Refused(todo) /\ Head(todo).op \in {"vet", "commit"}
          \/ Salvage(t) = last
      BY <2>1
    <2> QED BY <2>2 DEF last
  <1>7. CASE Salvage(t) = rest
    BY <1>1, <1>7
  <1>8. CASE Salvage(t) = later
    BY <1>4, <1>5, <1>8
  <1>9. CASE Salvage(t) = Refused(todo) /\ Head(todo).op \in {"vet", "commit"}
    <2>1. job[t].wallet # Nobody
      BY <1>1, <1>9, BatchFields
    <2> QED BY <2>1, <1>9, RefusedType
  <1>10. CASE Salvage(t) = clear_lock(TRUE) /\ Last(todo).op = "clear_lock"
    <2>1. job[t].wallet # Nobody
      <3>1. SUFFICES ASSUME job[t].wallet = Nobody PROVE FALSE
        OBVIOUS
      <3>2. todo \in Seq(BatchSteps) /\ todo # <<>>
        BY <3>1 DEF JobsOK, WorkOK, Idle
      <3>3. Len(todo) \in 1 .. Len(todo)
        BY <3>2, EmptySeq
      <3>4. todo[Len(todo)] \in BatchSteps
        BY <3>2, <3>3, ElementOfSeq
      <3> QED BY <3>4, <1>10, BatchFields DEF Last
    <2> QED BY <2>1, <1>10, ClearLockShape
  <1>11. CASE Salvage(t) = <<>>
    BY <1>11, EmptySeq
  <1> QED BY <1>6, <1>7, <1>8, <1>9, <1>10, <1>11

LEMMA FailuresOK ==
  ASSUME TypeOK, NEW t \in Threads, Fail(t) \/ Revert(t)
  PROVE  TypeOK'
  <1>1. JobsOK /\ ChainsOK /\ ~Idle(t) /\ Continue(t, Salvage(t))
    BY TypeParts DEF Fail, Revert, Doing
  <1>2. JobsOK'
    BY <1>1, SalvageType, ContinueOK
  <1>3. ChainsOK'
    <2>1. CASE Fail(t)
      <3>1. /\ failures' \in 0 .. MaxFailures
            /\ UNCHANGED <<sbtVars, loan, touched, unsynced, shunned, oappVars>>
        BY <2>1, <1>1, CrossChainAssumption DEF Fail, ChainsOK
      <3>2. crossed' \subseteq Wallets
        <4>1. Doing(t, "listed") => job[t].wallet \in Wallets
          BY <1>1, DoingFacts, HeadFacts
        <4> QED BY <4>1, <2>1, <1>1 DEF Fail, ChainsOK
      <3> QED BY <3>1, <3>2, <1>1 DEF ChainsOK, oappVars, sbtVars, SBTTypeOK, OAppTypeOK
    <2>2. CASE Revert(t)
      BY <2>2, <1>1, SameChains DEF Revert, LocalStep
    <2> QED BY <2>1, <2>2
  <1> QED BY <1>2, <1>3, TypeParts DEF TypeOK, ChainsOK, JobsOK

LEMMA FallbackOK == ASSUME TypeOK, NEW t \in Threads, WhitelistFallback(t) PROVE TypeOK'
  <1>1. /\ JobsOK /\ ChainsOK /\ Doing(t, "whitelist_tx") /\ failures < MaxFailures
        /\ removeFromBlacklist(job[t].wallet) /\ failures' = failures + 1
        /\ Continue(t, <<>>) \/ Continue(t, Rest(t))
        /\ UNCHANGED <<loan, touched, unsynced, shunned, crossed, oappVars>>
    BY TypeParts DEF WhitelistFallback
  <1>2. job[t].wallet \in Wallets /\ job[t].wallet # Nobody /\ Rest(t) \in Seq(Steps)
        /\ <<>> \in Seq(Steps)
    BY <1>1, DoingFacts, HeadFacts, EmptySeq
  <1>3. JobsOK'
    BY <1>1, <1>2, ContinueOK
  <1>4. SBTTypeOK' /\ \A v \in Wallets : profiles'[v].score = profiles[v].score
    BY <1>1, <1>2, ScoresKept DEF ChainsOK
  <1>5. failures' \in 0 .. MaxFailures
    BY <1>1, CrossChainAssumption DEF ChainsOK
  <1>6. ChainsOK'
    BY <1>1, <1>4, <1>5 DEF ChainsOK, OAppTypeOK, oappVars
  <1> QED BY <1>3, <1>6, TypeParts DEF TypeOK, ChainsOK, JobsOK

LEMMA LongerThanNothing ==
  ASSUME NEW S, NEW a \in Seq(S), NEW b \in Seq(S), a # <<>> \/ b # <<>>
  PROVE  a \o b # <<>>
  BY ConcatEqualIffEmpty

LEMMA ReadsNotEmpty ==
  /\ sync_wallet_loan_active # <<>> /\ sync_wallet_repaid # <<>>
  /\ view_loans # <<>> /\ whitelist_wallet # <<>>
  /\ \A s \in Spokes : clear_lz_lock(s) # <<>>
  <1>1. \A name \in {"read", "view", "listed"} : OnEveryChain(name) \in Seq(Steps)
    BY OnEveryChainShape, AtShape
  <1>2. /\ Op("created") \in Seq(Steps) /\ Op("repaid") \in Seq(Steps)
        /\ Op("enrich") \in Seq(Steps) /\ Op("whitelist") \in Seq(Steps)
        /\ \A name : Op(name) # <<>>
    BY OpShape DEF PlainNames
  <1>3. ASSUME NEW s \in Spokes PROVE clear_lz_lock(s) # <<>>
    <2>1. <<At("lock_kind", s)>> \in Seq(Steps) /\ <<At("lock_kind", s)>> # <<>>
      BY AtShape, OneStep
    <2> QED BY <1>1, <2>1, LongerThanNothing DEF clear_lz_lock
  <1>4. sync_wallet_loan_active # <<>> /\ sync_wallet_repaid # <<>>
    BY <1>1, <1>2, LongerThanNothing DEF sync_wallet_loan_active, sync_wallet_repaid
  <1>5. view_loans # <<>> /\ whitelist_wallet # <<>>
    BY <1>1, <1>2, LongerThanNothing DEF view_loans, whitelist_wallet
  <1> QED BY <1>3, <1>4, <1>5

LEMMA BorrowOK ==
  ASSUME TypeOK, NEW m \in OpenMarkets, NEW w \in Wallets, NEW t \in Threads, Borrow(m, w, t)
  PROVE  TypeOK'
  <1>1. /\ JobsOK /\ ChainsOK /\ m \in Markets
        /\ IF m = Hub THEN requestLoanOnHub(w) ELSE requestLoanOnSpoke(m, w)
        /\ loan' = [loan EXCEPT ![m][w] = TRUE]
        /\ Call(t, w, 0, sync_wallet_loan_active)
        /\ UNCHANGED <<unsynced, shunned, crossed, oappVars, failures>>
    BY TypeParts, CrossChainAssumption DEF Borrow
  <1>2. JobsOK'
    BY <1>1, ReadsShape, ReadsNotEmpty, CrossChainAssumption, OAppAssumption, CallOK
  <1>3. /\ SBTTypeOK' /\ \A v \in Wallets : profiles'[v].score = profiles[v].score
        /\ touched' \subseteq Wallets
    <2>1. CASE m = Hub
      BY <2>1, <1>1, ScoresKept DEF requestLoanOnHub, ChainsOK
    <2>2. CASE m # Hub
      BY <2>2, <1>1 DEF requestLoanOnSpoke, ChainsOK, sbtVars, SBTTypeOK
    <2> QED BY <2>1, <2>2
  <1>4. loan' \in [Markets -> [Wallets -> BOOLEAN]]
    BY <1>1, TableSet DEF ChainsOK
  <1>5. ChainsOK'
    BY <1>1, <1>3, <1>4 DEF ChainsOK, OAppTypeOK, oappVars
  <1> QED BY <1>2, <1>5, TypeParts DEF TypeOK, ChainsOK, JobsOK

LEMMA ScoresNat == Scores \subseteq ScoreData /\ 0 \in ScoreData
  BY CrossChainAssumption, OAppAssumption

LEMMA RepayPipelineOK ==
  ASSUME TypeOK, NEW m \in Markets, NEW w \in Wallets, NEW t \in Threads,
         runPostRepayPipeline(m, w, t)
  PROVE  JobsOK'
  <1> DEFINE sync == sync_wallet_repaid \o clear_lock(m = Hub)
  <1>1. sync_wallet_repaid \in Seq(Steps) /\ sync_wallet_repaid # <<>> /\ clear_lock(m = Hub) \in Seq(Steps)
    BY ReadsShape, ReadsNotEmpty, ClearLockShape
  <1>2. sync \in Seq(Steps) /\ sync # <<>>
    BY <1>1, Bound, LongerThanNothing
  <1>3. JobsOK /\ w # Nobody /\ w \in Wallets \cup {Nobody}
    BY TypeParts, CrossChainAssumption
  <1>4. \/ Call(t, w, 0, Op("profile_score") \o sync)
        \/ \E sc \in Scores :
             Call(t, w, sc, (IF sc > 500 THEN underwrite_wallet(profiles[w].exists) ELSE <<>>) \o sync)
    BY DEF runPostRepayPipeline
  <1> HIDE DEF sync
  <1>5. CASE Call(t, w, 0, Op("profile_score") \o sync)
    <2>1. Op("profile_score") \in Seq(Steps)
      BY OpShape DEF PlainNames
    <2>2. Op("profile_score") \o sync \in Seq(Steps) /\ Op("profile_score") \o sync # <<>>
      BY <1>2, <2>1, Bound, LongerThanNothing
    <2> QED BY <1>3, <1>5, <2>2, ScoresNat, CallOK
  <1>6. ASSUME NEW sc \in Scores,
               Call(t, w, sc, (IF sc > 500 THEN underwrite_wallet(profiles[w].exists) ELSE <<>>) \o sync)
        PROVE  JobsOK'
    <2> DEFINE first == IF sc > 500 THEN underwrite_wallet(profiles[w].exists) ELSE <<>>
    <2>1. profiles[w].exists \in BOOLEAN
      BY DEF TypeOK, SBTTypeOK, Profile
    <2>2. first \in Seq(Steps)
      BY <2>1, UnderwritingShape, EmptySeq DEF underwrite_wallet
    <2> HIDE DEF first
    <2>3. first \o sync \in Seq(Steps) /\ first \o sync # <<>>
      BY <1>2, <2>2, Bound, LongerThanNothing
    <2>4. Call(t, w, sc, first \o sync)
      BY <1>6 DEF first
    <2> QED BY <1>3, <2>3, <2>4, ScoresNat, CallOK
  <1> QED BY <1>4, <1>5, <1>6

LEMMA RepayOK ==
  ASSUME TypeOK, NEW m \in OpenMarkets, NEW w \in Wallets, NEW t \in Threads, Repay(m, w, t)
  PROVE  TypeOK'
  <1>1. /\ ChainsOK /\ m \in Markets
        /\ loan' = [loan EXCEPT ![m][w] = FALSE]
        /\ IF m = Hub THEN setLoanRepaid(w) /\ touched' = touched \cup {w}
                      ELSE UNCHANGED <<sbtVars, touched>>
        /\ runPostRepayPipeline(m, w, t)
        /\ UNCHANGED <<unsynced, shunned, crossed, oappVars, failures>>
    BY TypeParts, CrossChainAssumption DEF Repay
  <1>2. JobsOK'
    BY <1>1, RepayPipelineOK
  <1>3. /\ SBTTypeOK' /\ \A v \in Wallets : profiles'[v].score = profiles[v].score
        /\ touched' \subseteq Wallets
    <2>1. CASE m = Hub
      BY <2>1, <1>1, ScoresKept DEF ChainsOK
    <2>2. CASE m # Hub
      BY <2>2, <1>1 DEF ChainsOK, sbtVars, SBTTypeOK
    <2> QED BY <2>1, <2>2
  <1>4. loan' \in [Markets -> [Wallets -> BOOLEAN]]
    BY <1>1, TableSet DEF ChainsOK
  <1>5. ChainsOK'
    BY <1>1, <1>3, <1>4 DEF ChainsOK, OAppTypeOK, oappVars
  <1> QED BY <1>2, <1>5, TypeParts DEF TypeOK, ChainsOK, JobsOK

(* Requests that only start a thread.                                      *)
LEMMA StartOK ==
  ASSUME TypeOK, NEW t \in Threads, NEW w \in Wallets, NEW sc \in ScoreData,
         NEW steps \in Seq(Steps), steps # <<>>, Call(t, w, sc, steps),
         UNCHANGED <<chainVars, oappVars, failures>>
  PROVE  TypeOK'
  <1>1. JobsOK'
    BY TypeParts, CrossChainAssumption, CallOK
  <1> QED BY <1>1, LocalOK DEF LocalStep

LEMMA RequestsOK ==
  ASSUME TypeOK, NEW t \in Threads, WebRequest(t)
  PROVE  TypeOK'
  <1>1. PICK w \in Wallets :
          \/ \E m \in OpenMarkets : Borrow(m, w, t) \/ Repay(m, w, t)
          \/ \E sc \in Scores : ScoreRun(w, sc, t)
          \/ ViewLoans(w, t)
          \/ \E s \in Spokes : ClearLzLock(s, w, t)
          \/ Whitelist(w, t)
    BY DEF WebRequest
  <1>2. CASE \E m \in OpenMarkets : Borrow(m, w, t) \/ Repay(m, w, t)
    BY <1>2, BorrowOK, RepayOK
  <1>3. ASSUME NEW sc \in Scores, ScoreRun(w, sc, t) PROVE TypeOK'
    <2> DEFINE steps == underwrite_wallet(profiles[w].exists) \o broadcast_score(w, sc)
    <2>1. profiles[w].exists \in BOOLEAN
      BY DEF TypeOK, SBTTypeOK, Profile
    <2>2. underwrite_wallet(profiles[w].exists) \in Seq(Steps)
          /\ underwrite_wallet(profiles[w].exists) # <<>>
      <3>1. ASSUME NEW b \in BOOLEAN
            PROVE  underwrite_wallet(b) \in Seq(Steps) /\ underwrite_wallet(b) # <<>>
        <4>1. underwrite_wallet(b) \in Seq(Steps) /\ Len(underwrite_wallet(b)) = 2
          BY UnderwritingShape DEF underwrite_wallet
        <4> QED BY <4>1, EmptySeq
      <3> QED BY <2>1, <3>1, Zenon
    <2>3. broadcast_score(w, sc) \in Seq(Steps)
      BY ScoresNat, ScoreBroadcast, StepsSeq
    <2>4. steps \in Seq(Steps) /\ steps # <<>>
      BY <2>2, <2>3, Bound, LongerThanNothing
    <2>5. Call(t, w, sc, steps) /\ UNCHANGED <<chainVars, oappVars, failures>>
      BY <1>3 DEF ScoreRun
    <2> QED BY <2>4, <2>5, ScoresNat, StartOK
  <1>4. CASE ViewLoans(w, t)
    BY <1>4, ReadsShape, ReadsNotEmpty, ScoresNat, StartOK DEF ViewLoans
  <1>5. ASSUME NEW s \in Spokes, ClearLzLock(s, w, t) PROVE TypeOK'
    BY <1>5, ReadsShape, ReadsNotEmpty, ScoresNat, StartOK DEF ClearLzLock
  <1>6. CASE Whitelist(w, t)
    <2>1. /\ JobsOK /\ ChainsOK /\ Call(t, w, 0, whitelist_wallet)
          /\ crossed' \in {crossed, crossed \cup {w}, crossed \ {w}}
          /\ UNCHANGED <<sbtVars, loan, touched, unsynced, shunned, oappVars, failures>>
      BY <1>6, TypeParts DEF Whitelist
    <2>2. JobsOK'
      BY <2>1, ReadsShape, ReadsNotEmpty, ScoresNat, CrossChainAssumption, CallOK
    <2>3. ChainsOK'
      BY <2>1 DEF ChainsOK, sbtVars, oappVars, SBTTypeOK, OAppTypeOK
    <2> QED BY <2>2, <2>3, TypeParts DEF TypeOK, ChainsOK, JobsOK
  <1> QED BY <1>1, <1>2, <1>3, <1>4, <1>5, <1>6

LEMMA SyncBatchOK == ASSUME TypeOK, NEW t \in Threads, SyncBatch(t) PROVE TypeOK'
  <1>1. run_sync \in Seq(BatchSteps) /\ run_sync \in Seq(Steps) /\ run_sync # <<>>
    BY OpShape DEF run_sync, BatchNames
  <1>2. Call(t, Nobody, 0, run_sync) /\ UNCHANGED <<chainVars, oappVars, failures>>
    BY DEF SyncBatch
  <1>3. JobsOK'
    BY <1>1, <1>2, TypeParts, ScoresNat, CallOK
  <1> QED BY <1>2, <1>3, LocalOK DEF LocalStep

LEMMA LiquidateOK ==
  ASSUME TypeOK, NEW m \in OpenMarkets, NEW w \in Wallets, NEW t \in Threads, Liquidate(m, w, t)
  PROVE  TypeOK'
  <1>1. /\ JobsOK /\ ChainsOK /\ m \in Markets /\ w # Nobody /\ w \in Wallets \cup {Nobody}
        /\ loan' = [loan EXCEPT ![m][w] = FALSE]
        /\ IF m = Hub THEN recordDefault(w) /\ Call(t, w, 0, Op("verdict"))
                      ELSE UNCHANGED sbtVars /\ Call(t, w, 0, broadcast_default(w))
        /\ shunned' = shunned \cup {w} /\ crossed' = crossed \cup {w}
        /\ UNCHANGED <<touched, unsynced, oappVars, failures>>
    BY TypeParts, CrossChainAssumption DEF Liquidate, Shun
  <1>2. Op("verdict") \in Seq(Steps) /\ Op("verdict") # <<>>
    BY OpShape DEF PlainNames
  <1>3. m # Hub => broadcast_default(w) \in Seq(Steps) /\ broadcast_default(w) # <<>>
    <2>1. broadcast_default(w) \in Seq(Steps) /\ Len(broadcast_default(w)) = Len(SpokeOrder)
      BY FlagBroadcast, StepsSeq, BroadcastShape DEF broadcast_default, MessageTypes, Payload
    <2>2. m # Hub => Len(SpokeOrder) # 0
      BY <1>1, SpokeOrderType DEF Markets
    <2> QED BY <2>1, <2>2, EmptySeq
  <1>4. JobsOK'
    <2>1. CASE m = Hub
      BY <2>1, <1>1, <1>2, ScoresNat, CallOK
    <2>2. CASE m # Hub
      BY <2>2, <1>1, <1>3, ScoresNat, CallOK
    <2> QED BY <2>1, <2>2
  <1>5. SBTTypeOK' /\ \A v \in Wallets : profiles'[v].score = profiles[v].score
    <2>1. CASE m = Hub
      BY <2>1, <1>1, ScoresKept DEF ChainsOK
    <2>2. CASE m # Hub
      BY <2>2, <1>1 DEF ChainsOK, sbtVars, SBTTypeOK
    <2> QED BY <2>1, <2>2
  <1>6. loan' \in [Markets -> [Wallets -> BOOLEAN]]
    BY <1>1, TableSet DEF ChainsOK
  <1>7. ChainsOK'
    BY <1>1, <1>5, <1>6 DEF ChainsOK, OAppTypeOK, oappVars
  <1> QED BY <1>4, <1>7, TypeParts DEF TypeOK, ChainsOK, JobsOK

LEMMA DeliverOK == ASSUME TypeOK, NEW m \in Messages, Deliver(m) PROVE TypeOK'
  <1>1. JobsOK /\ ChainsOK /\ lzReceive(m) /\ UNCHANGED <<chainVars, job, failures>>
    BY TypeParts DEF Deliver
  <1>2. OAppTypeOK'
    BY <1>1, ReceiveOK DEF ChainsOK
  <1>3. ChainsOK'
    BY <1>1, <1>2 DEF ChainsOK, chainVars, sbtVars, SBTTypeOK
  <1>4. JobsOK'
    BY <1>1 DEF JobsOK
  <1> QED BY <1>3, <1>4, TypeParts DEF TypeOK, ChainsOK, JobsOK

LEMMA AgentStepOK == ASSUME TypeOK, NEW t \in Threads, AgentStep(t) PROVE TypeOK'
  BY ReadLoanOK, LoanDecisionsOK, ProfileScoreOK, ReadFlagOK, FlagWritesOK, ClearLockOK,
     ViewChainOK, EnrichOK, UnlockOK, VetOK, CommitOK, SendMessageOK, ScansOK, SaveSyncBlockOK,
     VerdictOK, BlacklistLinkedOK, ReadListedOK, DecideWhitelistOK, ReportOK, SpokeListedOK,
     ClearSpokeOK, FailuresOK
  DEF AgentStep

LEMMA InitOK == Init => TypeOK
  <1> SUFFICES ASSUME Init PROVE TypeOK
    OBVIOUS
  <1>1. SBTTypeOK /\ \A w \in Wallets : profiles[w].score \in ScoreData
    BY SBTInitType, OAppAssumption DEF Init, SBTInit, ZeroProfile
  <1>2. OAppTypeOK
    BY OAppAssumption DEF Init, OAppInit, OAppTypeOK
  <1>3. /\ loan \in [Markets -> [Wallets -> BOOLEAN]] /\ touched \subseteq Wallets
        /\ unsynced \in [Wallets -> ScoreData] /\ failures \in 0 .. MaxFailures
        /\ shunned \subseteq Wallets /\ crossed \subseteq Wallets
    BY OAppAssumption, CrossChainAssumption DEF Init
  <1>4. JobsOK
    BY IdleJobOK DEF Init, JobsOK
  <1> QED BY <1>1, <1>2, <1>3, <1>4 DEF TypeOK, JobsOK

LEMMA NextOK == TypeOK /\ [Next]_vars => TypeOK'
  <1> SUFFICES ASSUME TypeOK, [Next]_vars PROVE TypeOK'
    OBVIOUS
  <1>1. ASSUME NEW t \in Threads,
               \/ t # Scheduler /\ WebRequest(t)
               \/ SyncBatch(t)
               \/ \E m \in OpenMarkets, w \in Wallets : Liquidate(m, w, t)
               \/ AgentStep(t)
               \/ Fail(t) \/ WhitelistFallback(t)
        PROVE  TypeOK'
    BY <1>1, RequestsOK, SyncBatchOK, LiquidateOK, AgentStepOK, FailuresOK, FallbackOK
  <1>2. ASSUME NEW m \in Messages, Deliver(m) PROVE TypeOK'
    BY <1>2, DeliverOK
  <1>3. CASE UNCHANGED vars
    BY <1>3 DEF vars, chainVars, oappVars, sbtVars, TypeOK, SBTTypeOK, OAppTypeOK
  <1> QED BY <1>1, <1>2, <1>3 DEF Next

(* Whatever the threads do, in any order and with any failures, their todo *)
(* lists stay well formed and the batch's hold nothing but its own scans   *)
(* and sends; scores stay in the range of the messages' uint16.            *)
THEOREM TypeCorrect == Spec => []TypeOK
  BY InitOK, NextOK, PTL DEF Spec

-----------------------------------------------------------------------------
(* Locks.  While nothing fails and nobody is liquidated, patient borrowers *)
(* change no loan while an agent works or a message is in flight, so what  *)
(* an agent has read stays true until it is done.  The invariant says what *)
(* may be on a thread's list and in flight, given the loans (ln) and the   *)
(* wallets with a profile (K), and that a lock, or the hub's loan flag, is *)
(* there or on its way.                                                    *)

Undisturbed ==
  Patient /\ MaxFailures = 0 /\ Happenings \subseteq {"view", "rescore", "unlock", "overlap"}

Looks     == {"read", "view"}
Decisions == {"created", "repaid", "enrich", "lock_kind", "prepare"}
Closing   == {"enrich", "lock_kind", "prepare", "clear_lock", "scan_scores", "scan_loans"}
Foreign   == {"verdict", "blacklist", "listed", "whitelist", "unlist", "whitelist_tx",
              "report", "spoke_listed", "clear_spoke"}

Minted == {w \in Wallets : profiles[w].exists}

Owes(ln, w) == {m \in Markets : ln[m][w]}

\* The markets a decision depends on.
Relevant(step) == IF step.op = "prepare" THEN {Hub} ELSE Markets

\* A decision is taken once, after a look at every market with a loan, and
\* the steps after which a function returns are the last ones.
Ordered(owed, seen, todo) ==
  /\ \A k \in DOMAIN todo : todo[k].op \in Decisions =>
       /\ \A m \in Relevant(todo[k]) \cap owed :
            m \in seen \/ \E i \in 1 .. k - 1 : todo[i].op \in Looks /\ todo[i].at = m
       /\ \A i \in DOMAIN todo : todo[i].op \in Decisions => i = k
  /\ \A k \in DOMAIN todo : todo[k].op \in Closing => k = Len(todo)

\* Nobody is told of a default, of a repayment while a hub loan is open, or
\* of the score of a wallet without a profile.
MessageOK(m, ln, K) ==
  /\ m.type \notin {"DEFAULT", "WHITELIST"}
  /\ m.type = "REPAID" => ~ln[Hub][m.wallet]
  /\ m.data # 0 => m.wallet \in K

RegularSteps(w, ln, K) ==
  {step \in Steps :
     /\ step.op \notin Foreign
     /\ step.op = "send" => MessageOK(step.msg, ln, K)
     /\ step.op = "clear_lock" => Hub \notin Owes(ln, w)
     /\ step.op \in {"clear", "set_repaid"} => Owes(ln, w) = {}
     /\ step.op \in {"vet", "commit"} => step.rescore /\ w \in K}

Regular(j, ln, K) ==
  /\ j.todo \in Seq(RegularSteps(j.wallet, ln, K))
  /\ Ordered(Owes(ln, j.wallet), j.seen, j.todo)
  /\ j.wallet \in K \/ (j.score = 0 /\ j.ahead = 0)

LaterSends(w, ln, K) == {step \in Sends : MessageOK(step.msg, ln, K \cup {w})}

\* The underwriting of a new wallet, and the sends that follow.
Committing(w, todo, ln, K) ==
  /\ todo # <<>>
  /\ Head(todo).op = "commit" /\ ~Head(todo).rescore
  /\ Tail(todo) \in Seq(LaterSends(w, ln, K))

Minting(j, ln, K) ==
  \/ Committing(j.wallet, j.todo, ln, K)
  \/ /\ j.todo # <<>>
     /\ Head(j.todo).op = "vet" /\ ~Head(j.todo).rescore /\ Head(j.todo).without = 1
     /\ Committing(j.wallet, Tail(j.todo), ln, K)

JobOK(j, ln, K) ==
  /\ j.seen \subseteq Owes(ln, j.wallet)
  /\ Regular(j, ln, K) \/ Minting(j, ln, K)

Ops(todo)  == {todo[i].op : i \in DOMAIN todo}
Mail(todo) == {todo[i].msg : i \in {k \in DOMAIN todo : todo[k].op = "send"}}

LockMessage(w, s) == [type |-> "LOAN_ACTIVE", wallet |-> w, data |-> 0, dst |-> s]

\* The job will send the lock, or look at the loans and decide to.
WaitsLock(j, w, s) ==
  LockMessage(w, s) \in Mail(j.todo) \/ (j.wallet = w /\ "created" \in Ops(j.todo))

WaitsFlag(j, w) == j.wallet = w /\ Ops(j.todo) \cap {"created", "ensure", "set_active"} # {}

Sent(w, s) == loanActiveMirror[s][w] \/ inFlight[LockMessage(w, s)] > 0

Locking(w, s) == Sent(w, s) \/ \E t \in Threads : WaitsLock(job[t], w, s)

Flagged(w) == profiles[w].loanActive \/ profiles[w].totalLoans = MaxUint8

Flagging(w) == Flagged(w) \/ \E t \in Threads : WaitsFlag(job[t], w)

\* What is known of a wallet without a profile.
NewcomersBlank ==
  \A w \in Wallets \ Minted :
    /\ unsynced[w] = 0 /\ profiles[w].score = 0
    /\ \A s \in Spokes : spokeScores[s][w] = 0
    /\ Owes(loan, w) = {}

NobodyListed == \A w \in Wallets : ~blacklisted[w]
MailSound    == \A m \in Messages : inFlight[m] > 0 => MessageOK(m, loan, Minted)
JobsSound    == \A t \in Threads : JobOK(job[t], loan, Minted)
HubLocked    == \A w \in Wallets : loan[Hub][w] => \A s \in Spokes : Locking(w, s)
SpokeFlagged == \A w \in Wallets : Owes(loan, w) \cap Spokes # {} => Flagging(w)

LockInv ==
  /\ NobodyListed /\ NewcomersBlank /\ MailSound /\ HubExclusive
  /\ JobsSound /\ HubLocked /\ SpokeFlagged

(* Lists of steps, taken apart and put together.                           *)

LEMMA TailParts ==
  ASSUME NEW S, NEW todo \in Seq(S), todo # <<>>
  PROVE  /\ Ops(todo) = {Head(todo).op} \cup Ops(Tail(todo))
         /\ Mail(todo) = Mail(Tail(todo)) \cup (IF Head(todo).op = "send" THEN {Head(todo).msg} ELSE {})
         /\ Head(todo) = todo[1]
  <1>1. /\ Tail(todo) \in Seq(S) /\ Len(Tail(todo)) = Len(todo) - 1
        /\ \A i \in 1 .. Len(Tail(todo)) : Tail(todo)[i] = todo[i + 1]
    BY HeadTailProperties
  <1>2. Len(todo) \in Nat \ {0} /\ DOMAIN todo = 1 .. Len(todo)
        /\ DOMAIN Tail(todo) = 1 .. Len(todo) - 1
    BY <1>1, EmptySeq, LenProperties
  <1>3. Head(todo) = todo[1]
    OBVIOUS
  <1> DEFINE rest == Tail(todo)
             n == Len(todo)
  <1>4. n \in Nat \ {0} /\ DOMAIN todo = 1 .. n /\ DOMAIN rest = 1 .. n - 1
        /\ \A i \in 1 .. n - 1 : rest[i] = todo[i + 1]
    BY <1>1, <1>2
  <1> HIDE DEF rest, n
  <1>5. ASSUME NEW i \in DOMAIN todo
        PROVE  todo[i] = todo[1] \/ \E k \in DOMAIN rest : rest[k] = todo[i]
    <2>1. CASE i = 1
      BY <2>1
    <2>2. CASE i # 1
      <3>1. i - 1 \in 1 .. n - 1 /\ (i - 1) + 1 = i
        BY <2>2, <1>4
      <3>2. rest[i - 1] = todo[i]
        BY <3>1, <1>4
      <3> QED BY <3>1, <3>2, <1>4
    <2> QED BY <2>1, <2>2
  <1>6. ASSUME NEW k \in DOMAIN rest PROVE \E i \in DOMAIN todo : todo[i] = rest[k]
    <2>1. k + 1 \in 1 .. n /\ rest[k] = todo[k + 1]
      BY <1>4
    <2> QED BY <2>1, <1>4
  <1>7. 1 \in DOMAIN todo
    BY <1>4
  <1>8. Ops(todo) = {todo[1].op} \cup Ops(rest)
    BY <1>5, <1>6, <1>7 DEF Ops
  <1>9. Mail(todo) = Mail(rest) \cup (IF todo[1].op = "send" THEN {todo[1].msg} ELSE {})
    <2>1. \A x : x \in Mail(todo) <=> \E i \in DOMAIN todo : todo[i].op = "send" /\ x = todo[i].msg
      BY DEF Mail
    <2>2. \A x : x \in Mail(rest) <=> \E i \in DOMAIN rest : rest[i].op = "send" /\ x = rest[i].msg
      BY DEF Mail
    <2>3. ASSUME NEW x \in Mail(todo)
          PROVE  x \in Mail(rest) \/ (todo[1].op = "send" /\ x = todo[1].msg)
      BY <2>1, <2>2, <1>5
    <2>4. ASSUME NEW x \in Mail(rest) PROVE x \in Mail(todo)
      <3>1. PICK k \in DOMAIN rest : rest[k].op = "send" /\ x = rest[k].msg
        BY <2>2, <2>4
      <3>2. PICK i \in DOMAIN todo : todo[i] = rest[k]
        BY <1>6
      <3> QED BY <3>1, <3>2, <2>1
    <2>5. todo[1].op = "send" => todo[1].msg \in Mail(todo)
      BY <2>1, <1>7
    <2> QED BY <2>3, <2>4, <2>5
  <1> QED BY <1>3, <1>8, <1>9 DEF rest

LEMMA JoinedParts ==
  ASSUME NEW S, NEW a \in Seq(S), NEW b \in Seq(S)
  PROVE  Ops(a \o b) = Ops(a) \cup Ops(b) /\ Mail(a \o b) = Mail(a) \cup Mail(b)
  <1> DEFINE c == a \o b
             n == Len(a)
             k == Len(b)
  <1>1. /\ n \in Nat /\ k \in Nat
        /\ DOMAIN a = 1 .. n /\ DOMAIN b = 1 .. k /\ DOMAIN c = 1 .. n + k
        /\ \A i \in 1 .. n + k : c[i] = IF i <= n THEN a[i] ELSE b[i - n]
    BY ConcatProperties, LenProperties
  <1> HIDE DEF c, n, k
  <1>2. ASSUME NEW i \in DOMAIN c
        PROVE  (\E l \in DOMAIN a : a[l] = c[i]) \/ (\E l \in DOMAIN b : b[l] = c[i])
    <2>1. CASE i <= n
      BY <2>1, <1>1
    <2>2. CASE i > n
      <3>1. i - n \in 1 .. k /\ c[i] = b[i - n]
        BY <2>2, <1>1
      <3> QED BY <3>1, <1>1
    <2> QED BY <2>1, <2>2, <1>1
  <1>3. ASSUME NEW l \in DOMAIN a PROVE \E i \in DOMAIN c : c[i] = a[l]
    <2>1. l \in 1 .. n + k /\ c[l] = a[l]
      BY <1>1
    <2> QED BY <2>1, <1>1
  <1>4. ASSUME NEW l \in DOMAIN b PROVE \E i \in DOMAIN c : c[i] = b[l]
    <2>1. l + n \in 1 .. n + k /\ c[l + n] = b[l]
      BY <1>1
    <2> QED BY <2>1, <1>1
  <1>5. Ops(c) = Ops(a) \cup Ops(b)
    BY <1>2, <1>3, <1>4 DEF Ops
  <1>6. \A d : \A x : x \in Mail(d) <=> \E i \in DOMAIN d : d[i].op = "send" /\ x = d[i].msg
    BY DEF Mail
  <1>7. ASSUME NEW x \in Mail(c) PROVE x \in Mail(a) \cup Mail(b)
    <2>1. PICK i \in DOMAIN c : c[i].op = "send" /\ x = c[i].msg
      BY <1>6, <1>7
    <2>2. CASE \E l \in DOMAIN a : a[l] = c[i]
      BY <2>1, <2>2, <1>6
    <2>3. CASE \E l \in DOMAIN b : b[l] = c[i]
      BY <2>1, <2>3, <1>6
    <2> QED BY <2>2, <2>3, <1>2
  <1>8. ASSUME NEW x \in Mail(a) PROVE x \in Mail(c)
    <2>1. PICK l \in DOMAIN a : a[l].op = "send" /\ x = a[l].msg
      BY <1>6, <1>8
    <2>2. PICK i \in DOMAIN c : c[i] = a[l]
      BY <1>3
    <2> QED BY <2>1, <2>2, <1>6
  <1>9. ASSUME NEW x \in Mail(b) PROVE x \in Mail(c)
    <2>1. PICK l \in DOMAIN b : b[l].op = "send" /\ x = b[l].msg
      BY <1>6, <1>9
    <2>2. PICK i \in DOMAIN c : c[i] = b[l]
      BY <1>4
    <2> QED BY <2>1, <2>2, <1>6
  <1> QED BY <1>5, <1>7, <1>8, <1>9 DEF c

(* How the order of a list survives its steps.                             *)

LEMMA OrderedTail ==
  ASSUME NEW S, NEW todo \in Seq(S), todo # <<>>, NEW owed, NEW seen, NEW new,
         Ordered(owed, seen, todo), seen \subseteq new,
         Head(todo).op \in Looks => {Head(todo).at} \cap owed \subseteq new
  PROVE  Ordered(owed, new, Tail(todo))
  <1> DEFINE rest == Tail(todo)
             n == Len(todo)
  <1>1. /\ n \in Nat \ {0} /\ DOMAIN todo = 1 .. n /\ DOMAIN rest = 1 .. n - 1 /\ Len(rest) = n - 1
        /\ \A i \in 1 .. n - 1 : rest[i] = todo[i + 1]
        /\ Head(todo) = todo[1]
    <2>1. /\ rest \in Seq(S) /\ Len(rest) = Len(todo) - 1
          /\ \A i \in 1 .. Len(rest) : rest[i] = todo[i + 1]
      BY HeadTailProperties
    <2>2. Head(todo) = todo[1]
      OBVIOUS
    <2> QED BY <2>1, <2>2, EmptySeq, LenProperties
  <1> HIDE DEF rest, n
  <1>2. ASSUME NEW k \in DOMAIN rest, rest[k].op \in Decisions, NEW m \in Relevant(rest[k]) \cap owed
        PROVE  m \in new \/ \E i \in 1 .. k - 1 : rest[i].op \in Looks /\ rest[i].at = m
    <2>1. k + 1 \in DOMAIN todo /\ rest[k] = todo[k + 1]
      BY <1>1
    <2>2. m \in seen \/ \E i \in 1 .. (k + 1) - 1 : todo[i].op \in Looks /\ todo[i].at = m
      BY <1>2, <2>1 DEF Ordered
    <2>3. ASSUME NEW i \in 1 .. (k + 1) - 1, todo[i].op \in Looks, todo[i].at = m
          PROVE  m \in new \/ \E l \in 1 .. k - 1 : rest[l].op \in Looks /\ rest[l].at = m
      <3>1. CASE i = 1
        BY <3>1, <2>3, <1>1, <1>2
      <3>2. CASE i # 1
        <4>1. i - 1 \in 1 .. k - 1 /\ i - 1 \in 1 .. n - 1 /\ (i - 1) + 1 = i
          BY <3>2, <1>1
        <4>2. rest[i - 1] = todo[i]
          BY <4>1, <1>1
        <4> QED BY <4>1, <4>2, <2>3
      <3> QED BY <3>1, <3>2
    <2> QED BY <2>2, <2>3
  <1>3. ASSUME NEW k \in DOMAIN rest, NEW i \in DOMAIN rest,
               rest[k].op \in Decisions, rest[i].op \in Decisions
        PROVE  i = k
    <2>1. /\ k + 1 \in DOMAIN todo /\ rest[k] = todo[k + 1]
          /\ i + 1 \in DOMAIN todo /\ rest[i] = todo[i + 1]
      BY <1>1
    <2>2. i + 1 = k + 1
      BY <1>3, <2>1 DEF Ordered
    <2> QED BY <2>2, <1>1
  <1>4. ASSUME NEW k \in DOMAIN rest, rest[k].op \in Closing PROVE k = Len(rest)
    <2>1. k + 1 \in DOMAIN todo /\ rest[k] = todo[k + 1]
      BY <1>1
    <2>2. k + 1 = n
      BY <1>4, <2>1 DEF Ordered, n
    <2> QED BY <2>2, <1>1
  <1> QED BY <1>2, <1>3, <1>4 DEF Ordered, rest

\* Steps that neither decide nor end a function, and that may follow or
\* precede any others.
PlainSteps == {step \in Steps : step.op \notin Decisions \cup Closing}

LEMMA OrderedAfterPlain ==
  ASSUME NEW a \in Seq(PlainSteps), NEW b \in Seq(Steps), NEW owed, NEW seen, Ordered(owed, seen, b)
  PROVE  Ordered(owed, seen, a \o b)
  <1> DEFINE c == a \o b
             n == Len(a)
             k == Len(b)
  <1>1. a \in Seq(Steps)
    BY SeqMonotonic DEF PlainSteps
  <1>2. /\ n \in Nat /\ k \in Nat
        /\ DOMAIN a = 1 .. n /\ DOMAIN b = 1 .. k /\ DOMAIN c = 1 .. n + k /\ Len(c) = n + k
        /\ \A i \in 1 .. n + k : c[i] = IF i <= n THEN a[i] ELSE b[i - n]
    BY <1>1, ConcatProperties, LenProperties
  <1>3. \A i \in 1 .. n : a[i].op \notin Decisions \cup Closing
    BY ElementOfSeq DEF PlainSteps
  <1> HIDE DEF c, n, k
  <1>4. ASSUME NEW i \in DOMAIN c, c[i].op \in Decisions \cup Closing
        PROVE  i - n \in DOMAIN b /\ c[i] = b[i - n] /\ i \in Nat
    <2>1. i > n
      BY <1>2, <1>3, <1>4
    <2> QED BY <2>1, <1>2
  <1>5. ASSUME NEW i \in DOMAIN c, c[i].op \in Decisions, NEW m \in Relevant(c[i]) \cap owed
        PROVE  m \in seen \/ \E l \in 1 .. i - 1 : c[l].op \in Looks /\ c[l].at = m
    <2>1. i - n \in DOMAIN b /\ c[i] = b[i - n] /\ i \in Nat
      BY <1>4, <1>5
    <2>2. m \in seen \/ \E l \in 1 .. (i - n) - 1 : b[l].op \in Looks /\ b[l].at = m
      BY <2>1, <1>5 DEF Ordered
    <2>3. ASSUME NEW l \in 1 .. (i - n) - 1 PROVE l + n \in 1 .. i - 1 /\ c[l + n] = b[l]
      BY <2>1, <1>2
    <2> QED BY <2>2, <2>3
  <1>6. ASSUME NEW i \in DOMAIN c, NEW l \in DOMAIN c, c[i].op \in Decisions, c[l].op \in Decisions
        PROVE  l = i
    <2>1. /\ i - n \in DOMAIN b /\ c[i] = b[i - n] /\ i \in Nat
          /\ l - n \in DOMAIN b /\ c[l] = b[l - n] /\ l \in Nat
      BY <1>4, <1>6
    <2>2. l - n = i - n
      BY <2>1, <1>6 DEF Ordered
    <2> QED BY <2>1, <2>2, <1>2
  <1>7. ASSUME NEW i \in DOMAIN c, c[i].op \in Closing PROVE i = Len(c)
    <2>1. i - n \in DOMAIN b /\ c[i] = b[i - n] /\ i \in Nat
      BY <1>4, <1>7
    <2>2. i - n = k
      BY <2>1, <1>7 DEF Ordered, k
    <2> QED BY <2>1, <2>2, <1>2
  <1> QED BY <1>5, <1>6, <1>7 DEF Ordered, c

LEMMA OrderedBefore ==
  ASSUME NEW a \in Seq(Steps), NEW b \in Seq(Steps), NEW owed, NEW seen, NEW other,
         Ordered(owed, seen, a), \A i \in DOMAIN a : a[i].op \notin Closing,
         Ordered(owed, other, b), \A i \in DOMAIN b : b[i].op \notin Decisions
  PROVE  Ordered(owed, seen, a \o b)
  <1> DEFINE c == a \o b
             n == Len(a)
             k == Len(b)
  <1>2. /\ n \in Nat /\ k \in Nat
        /\ DOMAIN a = 1 .. n /\ DOMAIN b = 1 .. k /\ DOMAIN c = 1 .. n + k /\ Len(c) = n + k
        /\ \A i \in 1 .. n + k : c[i] = IF i <= n THEN a[i] ELSE b[i - n]
    BY ConcatProperties, LenProperties
  <1> HIDE DEF c, n, k
  <1>4. ASSUME NEW i \in DOMAIN c, c[i].op \in Decisions
        PROVE  i \in DOMAIN a /\ c[i] = a[i]
    <2>1. i <= n
      <3>1. SUFFICES ASSUME i > n PROVE FALSE
        BY <1>2
      <3>2. i - n \in DOMAIN b /\ c[i] = b[i - n]
        BY <3>1, <1>2
      <3> QED BY <3>2, <1>4
    <2> QED BY <2>1, <1>2
  <1>5. ASSUME NEW i \in DOMAIN c, c[i].op \in Decisions, NEW m \in Relevant(c[i]) \cap owed
        PROVE  m \in seen \/ \E l \in 1 .. i - 1 : c[l].op \in Looks /\ c[l].at = m
    <2>1. i \in DOMAIN a /\ c[i] = a[i]
      BY <1>4, <1>5
    <2>2. m \in seen \/ \E l \in 1 .. i - 1 : a[l].op \in Looks /\ a[l].at = m
      BY <2>1, <1>5 DEF Ordered
    <2>3. ASSUME NEW l \in 1 .. i - 1 PROVE c[l] = a[l]
      BY <2>1, <1>2
    <2> QED BY <2>2, <2>3
  <1>6. ASSUME NEW i \in DOMAIN c, NEW l \in DOMAIN c, c[i].op \in Decisions, c[l].op \in Decisions
        PROVE  l = i
    <2>1. i \in DOMAIN a /\ c[i] = a[i] /\ l \in DOMAIN a /\ c[l] = a[l]
      BY <1>4, <1>6
    <2> QED BY <2>1, <1>6 DEF Ordered
  <1>7. ASSUME NEW i \in DOMAIN c, c[i].op \in Closing PROVE i = Len(c)
    <2>1. i > n
      <3>1. SUFFICES ASSUME i <= n PROVE FALSE
        BY <1>2
      <3>2. i \in DOMAIN a /\ c[i] = a[i]
        BY <3>1, <1>2
      <3> QED BY <3>2, <1>7
    <2>2. i - n \in DOMAIN b /\ c[i] = b[i - n] /\ i \in Nat
      BY <2>1, <1>2
    <2>3. i - n = k
      BY <2>2, <1>7 DEF Ordered, k
    <2>4. i = n + k
      <3>1. i \in Int /\ n \in Int /\ k \in Int
        BY <1>2, <2>2
      <3> QED BY <3>1, <2>3
    <2> QED BY <2>4, <1>2
  <1> QED BY <1>5, <1>6, <1>7 DEF Ordered, c

LEMMA PlainOrdered ==
  ASSUME NEW a \in Seq(PlainSteps), NEW owed, NEW seen
  PROVE  /\ Ordered(owed, seen, a) /\ a \in Seq(Steps)
         /\ \A i \in DOMAIN a : a[i].op \notin Decisions \cup Closing
  <1>1. \A i \in DOMAIN a : a[i].op \notin Decisions \cup Closing
    BY ElementOfSeq, LenProperties DEF PlainSteps
  <1>2. a \in Seq(Steps)
    BY SeqMonotonic DEF PlainSteps
  <1> QED BY <1>1, <1>2 DEF Ordered

\* Looks at every chain, and the decision they are for.
LEMMA LooksOrdered ==
  ASSUME NEW name \in Looks, NEW step \in Steps, step.op \in Decisions, NEW owed, NEW seen
  PROVE  /\ Ordered(owed, seen, OnEveryChain(name) \o <<step>>)
         /\ OnEveryChain(name) \o <<step>> \in Seq(Steps)
         /\ step.op \notin Closing =>
              \A i \in DOMAIN (OnEveryChain(name) \o <<step>>) :
                (OnEveryChain(name) \o <<step>>)[i].op \notin Closing
  <1> DEFINE a == OnEveryChain(name)
             c == a \o <<step>>
             n == Len(SpokeOrder)
  <1>1. /\ a \in Seq(Steps) /\ Len(a) = 1 + n /\ a[1] = At(name, Hub)
        /\ \A i \in 1 .. n : a[i + 1] = At(name, SpokeOrder[i])
    BY OnEveryChainShape, AtShape DEF Looks
  <1>2. <<step>> \in Seq(Steps) /\ Len(<<step>>) = 1 /\ <<step>>[1] = step
    BY OneStep
  <1>3. n \in Nat /\ \A s \in Spokes : \E i \in 1 .. n : SpokeOrder[i] = s
    BY SpokeOrderType
  <1>4. /\ c \in Seq(Steps) /\ Len(c) = n + 2 /\ DOMAIN c = 1 .. n + 2
        /\ \A i \in 1 .. n + 2 : c[i] = IF i <= n + 1 THEN a[i] ELSE <<step>>[i - (n + 1)]
    <2>1. /\ c \in Seq(Steps) /\ Len(c) = Len(a) + Len(<<step>>)
          /\ \A i \in 1 .. Len(a) + Len(<<step>>) : c[i] = IF i <= Len(a) THEN a[i] ELSE <<step>>[i - Len(a)]
      BY <1>1, <1>2, ConcatProperties
    <2> HIDE DEF c, a, n
    <2>2. Len(a) = n + 1 /\ Len(a) + Len(<<step>>) = n + 2
      BY <1>1, <1>2, <1>3
    <2>3. DOMAIN c = 1 .. Len(c)
      BY <2>1, LenProperties
    <2> QED BY <2>1, <2>2, <2>3
  <1> HIDE DEF a, c, n
  <1>5. c[n + 2] = step
    BY <1>2, <1>3, <1>4
  <1>6. \A i \in 1 .. n + 1 : c[i].op = name
    <2>1. ASSUME NEW i \in 1 .. n + 1 PROVE c[i].op = name
      <3>1. c[i] = a[i]
        BY <1>3, <1>4
      <3>2. CASE i = 1
        BY <3>1, <3>2, <1>1 DEF At
      <3>3. CASE i # 1
        <4>1. i - 1 \in 1 .. n /\ (i - 1) + 1 = i
          BY <3>3, <1>3
        <4>2. a[i] = At(name, SpokeOrder[i - 1])
          BY <4>1, <1>1
        <4> QED BY <3>1, <4>2 DEF At
      <3> QED BY <3>2, <3>3
    <2> QED BY <2>1
  <1>7. name \notin Decisions \cup Closing
    BY DEF Looks, Decisions, Closing
  <1>8. ASSUME NEW m \in Markets PROVE \E i \in 1 .. n + 1 : c[i].op \in Looks /\ c[i].at = m
    <2>1. CASE m = Hub
      <3>1. c[1] = At(name, Hub) /\ 1 \in 1 .. n + 1
        BY <1>1, <1>3, <1>4
      <3> QED BY <2>1, <3>1 DEF At
    <2>2. CASE m # Hub
      <3>1. PICK i \in 1 .. n : SpokeOrder[i] = m
        BY <2>2, <1>3 DEF Markets
      <3>2. i + 1 \in 1 .. n + 1 /\ c[i + 1] = At(name, m)
        BY <3>1, <1>1, <1>3, <1>4
      <3> QED BY <3>2 DEF At
    <2> QED BY <2>1, <2>2
  <1>9. \A k \in DOMAIN c : c[k].op \in Decisions \cup Closing => k = n + 2
    BY <1>3, <1>4, <1>6, <1>7
  <1>10. ASSUME NEW k \in DOMAIN c, c[k].op \in Decisions, NEW m \in Relevant(c[k]) \cap owed
         PROVE  \E i \in 1 .. k - 1 : c[i].op \in Looks /\ c[i].at = m
    <2>1. m \in Markets /\ k = n + 2
      BY <1>9, <1>10 DEF Relevant, Markets
    <2>2. 1 .. k - 1 = 1 .. n + 1
      BY <2>1, <1>3
    <2> QED BY <2>1, <2>2, <1>8
  <1>11. Ordered(owed, seen, c)
    BY <1>4, <1>9, <1>10 DEF Ordered
  <1>12. step.op \notin Closing => \A i \in DOMAIN c : c[i].op \notin Closing
    BY <1>5, <1>9
  <1> QED BY <1>4, <1>11, <1>12 DEF c, a

(* What the lists of an undisturbed job are put together from.             *)

LEMMA BroadcastSound ==
  ASSUME NEW type \in MessageTypes \ {"DEFAULT", "WHITELIST"}, NEW w \in Wallets,
         NEW data \in Payload(type), NEW ln, NEW K,
         type = "REPAID" => ~ln[Hub][w], data # 0 => w \in K, NEW v
  PROVE  /\ broadcast(type, w, data) \in Seq(RegularSteps(v, ln, K))
         /\ broadcast(type, w, data) \in Seq(PlainSteps)
         /\ broadcast(type, w, data) \in Seq({step \in Sends : MessageOK(step.msg, ln, K)})
  <1> DEFINE B == broadcast(type, w, data)
             n == Len(SpokeOrder)
             M(i) == [type |-> type, wallet |-> w, data |-> data, dst |-> SpokeOrder[i]]
  <1>1. /\ n \in Nat /\ B \in Seq(Sends) /\ Len(B) = n
        /\ \A i \in 1 .. n : B[i] = [op |-> "send", msg |-> M(i)]
    BY BroadcastShape, SpokeOrderType
  <1> HIDE DEF B, n
  <1>2. \A i \in 1 .. n : B[i] \in Sends /\ B[i].op = "send" /\ B[i].msg = M(i)
    BY <1>1, ElementOfSeq
  <1>3. \A i \in 1 .. n : MessageOK(M(i), ln, K)
    BY DEF MessageOK
  <1> HIDE DEF M
  <1>4. \A i \in 1 .. n : /\ B[i] \in RegularSteps(v, ln, K)
                          /\ B[i] \in PlainSteps
                          /\ B[i] \in {step \in Sends : MessageOK(step.msg, ln, K)}
    BY <1>2, <1>3, SendsAreSteps DEF RegularSteps, PlainSteps, Decisions, Closing, Foreign
  <1>5. B \in [1 .. n -> Sends]
    BY <1>1, LenProperties
  <1>6. ASSUME NEW S, \A i \in 1 .. n : B[i] \in S PROVE B \in Seq(S)
    <2>1. B \in [1 .. n -> S]
      BY <1>5, <1>6
    <2> QED BY <2>1, <1>1, MapSeq
  <1>7. B \in Seq(RegularSteps(v, ln, K))
    BY <1>4, <1>6
  <1>8. B \in Seq(PlainSteps)
    BY <1>4, <1>6
  <1>9. B \in Seq({step \in Sends : MessageOK(step.msg, ln, K)})
    <2>1. \A i \in 1 .. n : B[i] \in {step \in Sends : MessageOK(step.msg, ln, K)}
      BY <1>4
    <2> QED BY <2>1, <1>6, Zenon
  <1> QED BY <1>7, <1>8, <1>9 DEF B

LEMMA ScoreSound ==
  ASSUME NEW w \in Wallets, NEW sc \in ScoreData, NEW ln, NEW K, sc # 0 => w \in K, NEW v
  PROVE  /\ broadcast_score(w, sc) \in Seq(RegularSteps(v, ln, K))
         /\ broadcast_score(w, sc) \in Seq(PlainSteps)
         /\ broadcast_score(w, sc) \in Seq({step \in Sends : MessageOK(step.msg, ln, K)})
  <1>1. "SCORE_UPDATE" \in MessageTypes \ {"DEFAULT", "WHITELIST"} /\ sc \in Payload("SCORE_UPDATE")
    BY DEF MessageTypes, Payload
  <1> QED BY <1>1, BroadcastSound DEF broadcast_score

LEMMA LocksSound ==
  ASSUME NEW w \in Wallets, NEW ln, NEW K, NEW v
  PROVE  /\ broadcast_loan_active(w) \in Seq(RegularSteps(v, ln, K))
         /\ broadcast_loan_active(w) \in Seq(PlainSteps)
  <1>1. "LOAN_ACTIVE" \in MessageTypes \ {"DEFAULT", "WHITELIST"} /\ 0 \in Payload("LOAN_ACTIVE")
    BY DEF MessageTypes, Payload
  <1> QED BY <1>1, BroadcastSound DEF broadcast_loan_active

LEMMA FreesSound ==
  ASSUME NEW w \in Wallets, NEW ln, NEW K, ~ln[Hub][w], NEW v
  PROVE  /\ broadcast_repaid(w) \in Seq(RegularSteps(v, ln, K))
         /\ broadcast_repaid(w) \in Seq(PlainSteps)
  <1>1. "REPAID" \in MessageTypes \ {"DEFAULT", "WHITELIST"} /\ 0 \in Payload("REPAID")
    BY DEF MessageTypes, Payload
  <1> QED BY <1>1, BroadcastSound DEF broadcast_repaid

LEMMA RegularNames ==
  ASSUME NEW name \in {"created", "repaid", "profile_score", "ensure", "set_active", "enrich",
                       "scan_scores", "save_sync_block", "scan_loans"},
         NEW w, NEW ln, NEW K
  PROVE  /\ [op |-> name] \in RegularSteps(w, ln, K)
         /\ Op(name) \in Seq(RegularSteps(w, ln, K))
  <1>1. [op |-> name] \in Steps
    BY DEF Steps, BatchSteps
  <1>2. [op |-> name] \in RegularSteps(w, ln, K)
    BY <1>1 DEF RegularSteps, Foreign
  <1> QED BY <1>2, OneStep DEF Op

LEMMA ClearNames ==
  ASSUME NEW name \in {"clear", "set_repaid"}, NEW w, NEW ln, NEW K, Owes(ln, w) = {}
  PROVE  Op(name) \in Seq(RegularSteps(w, ln, K))
  <1>1. [op |-> name] \in Steps
    BY DEF Steps, BatchSteps
  <1>2. [op |-> name] \in RegularSteps(w, ln, K)
    BY <1>1 DEF RegularSteps, Foreign
  <1> QED BY <1>2, OneStep DEF Op

LEMMA PlainNamed ==
  ASSUME NEW name \in {"profile_score", "ensure", "set_active", "clear", "set_repaid",
                       "save_sync_block"}
  PROVE  Op(name) \in Seq(PlainSteps)
  <1>1. [op |-> name] \in Steps
    BY DEF Steps, BatchSteps
  <1>2. [op |-> name] \in PlainSteps
    BY <1>1 DEF PlainSteps, Decisions, Closing
  <1> QED BY <1>2, OneStep DEF Op

LEMMA RegularAt ==
  ASSUME NEW w, NEW ln, NEW K
  PROVE  /\ \A name \in Looks, m \in Markets : At(name, m) \in RegularSteps(w, ln, K)
         /\ \A s \in Spokes : /\ At("lock_kind", s) \in RegularSteps(w, ln, K)
                              /\ At("prepare", s) \in RegularSteps(w, ln, K)
  <1>1. ASSUME NEW name \in Looks, NEW m \in Markets PROVE At(name, m) \in RegularSteps(w, ln, K)
    <2>1. At(name, m) \in Steps /\ At(name, m).op = name
      BY AtShape DEF Looks, At
    <2> QED BY <2>1 DEF RegularSteps, Foreign, Looks
  <1>2. ASSUME NEW s \in Spokes, NEW name \in {"lock_kind", "prepare"}
        PROVE  At(name, s) \in RegularSteps(w, ln, K)
    <2>1. At(name, s) \in Steps /\ At(name, s).op = name
      BY AtShape DEF At
    <2> QED BY <2>1 DEF RegularSteps, Foreign
  <1> QED BY <1>1, <1>2

LEMMA RegularClearLock ==
  ASSUME NEW w, NEW ln, NEW K, Hub \notin Owes(ln, w), NEW always \in BOOLEAN
  PROVE  /\ clear_lock(always) \in Seq(RegularSteps(w, ln, K))
         /\ \A owed, seen : Ordered(owed, seen, clear_lock(always))
         /\ \A i \in DOMAIN clear_lock(always) : clear_lock(always)[i].op \notin Decisions
  <1> DEFINE step == [op |-> "clear_lock", always |-> always]
  <1>1. step \in Steps
    BY DEF Steps
  <1>2. step \in RegularSteps(w, ln, K)
    BY <1>1 DEF RegularSteps, Foreign
  <1>3. clear_lock(always) = <<step>>
    BY DEF clear_lock
  <1>4. step.op \notin Decisions
    BY DEF Decisions
  <1> HIDE DEF step
  <1>5. /\ <<step>> \in Seq(RegularSteps(w, ln, K)) /\ Len(<<step>>) = 1 /\ <<step>>[1] = step
        /\ DOMAIN <<step>> = {1}
    BY <1>2, OneStep
  <1> QED BY <1>3, <1>4, <1>5 DEF Ordered

LEMMA RegularUnderwriting ==
  ASSUME NEW w, NEW ln, NEW K, w \in K, NEW n \in Nat
  PROVE  /\ Underwriting(TRUE, n) \in Seq(RegularSteps(w, ln, K))
         /\ Underwriting(TRUE, n) \in Seq(PlainSteps)
  <1> DEFINE x == [op |-> "vet", rescore |-> TRUE, without |-> 1 + n]
             y == [op |-> "commit", rescore |-> TRUE, without |-> n]
  <1>1. x \in Steps /\ y \in Steps
    BY DEF Steps
  <1>2. x \in RegularSteps(w, ln, K) /\ y \in RegularSteps(w, ln, K)
    BY <1>1 DEF RegularSteps, Foreign
  <1>3. x \in PlainSteps /\ y \in PlainSteps
    BY <1>1 DEF PlainSteps, Decisions, Closing
  <1> QED BY <1>2, <1>3, TwoSteps DEF Underwriting

LEMMA RegularAreSteps ==
  ASSUME NEW w, NEW ln, NEW K
  PROVE  RegularSteps(w, ln, K) \subseteq Steps
         /\ Seq(RegularSteps(w, ln, K)) \subseteq Seq(Steps)
  <1>1. RegularSteps(w, ln, K) \subseteq Steps
    BY DEF RegularSteps
  <1> QED BY <1>1, SeqMonotonic

LEMMA RegularLooks ==
  ASSUME NEW name \in Looks, NEW w, NEW ln, NEW K
  PROVE  OnEveryChain(name) \in Seq(RegularSteps(w, ln, K))
  BY RegularAt, OnEveryChainShape

(* More profiles do no harm.                                               *)
LEMMA MoreProfiles ==
  ASSUME NEW ln, NEW K, NEW K2, K \subseteq K2
  PROVE  /\ \A m : MessageOK(m, ln, K) => MessageOK(m, ln, K2)
         /\ \A j : JobOK(j, ln, K) => JobOK(j, ln, K2)
  <1>1. \A m : MessageOK(m, ln, K) => MessageOK(m, ln, K2)
    BY DEF MessageOK
  <1>2. \A w : RegularSteps(w, ln, K) \subseteq RegularSteps(w, ln, K2)
    BY <1>1 DEF RegularSteps
  <1>3. ASSUME NEW w PROVE LaterSends(w, ln, K) \subseteq LaterSends(w, ln, K2)
    BY DEF LaterSends, MessageOK
  <1>4. ASSUME NEW w, NEW todo, Committing(w, todo, ln, K) PROVE Committing(w, todo, ln, K2)
    <2>1. Tail(todo) \in Seq(LaterSends(w, ln, K2))
      BY <1>3, <1>4, SeqMonotonic DEF Committing
    <2> QED BY <1>4, <2>1 DEF Committing
  <1>5. ASSUME NEW j, Regular(j, ln, K) PROVE Regular(j, ln, K2)
    <2>1. j.todo \in Seq(RegularSteps(j.wallet, ln, K2))
      BY <1>2, <1>5, SeqMonotonic DEF Regular
    <2> QED BY <1>5, <2>1 DEF Regular
  <1>6. \A j : Minting(j, ln, K) => Minting(j, ln, K2)
    BY <1>4 DEF Minting
  <1> QED BY <1>1, <1>5, <1>6 DEF JobOK

(* The parts of the invariant, as one thread goes on.                      *)

LEMMA RegularHead ==
  ASSUME NEW j, NEW ln, NEW K, JobOK(j, ln, K), j.todo \in Seq(Steps), j.todo # <<>>,
         Head(j.todo).op \notin {"vet", "commit"}
  PROVE  /\ Head(j.todo) \in RegularSteps(j.wallet, ln, K)
         /\ Tail(j.todo) \in Seq(RegularSteps(j.wallet, ln, K))
         /\ Head(j.todo).op \notin Looks => Ordered(Owes(ln, j.wallet), j.seen, Tail(j.todo))
         /\ Head(j.todo).op \in Looks =>
              Ordered(Owes(ln, j.wallet),
                      j.seen \cup ({Head(j.todo).at} \cap Owes(ln, j.wallet)), Tail(j.todo))
         /\ Head(j.todo).op \in Closing => Tail(j.todo) = <<>>
         /\ Head(j.todo).op \in Decisions =>
              /\ \A i \in DOMAIN Tail(j.todo) : Tail(j.todo)[i].op \notin Decisions
              /\ \A m \in Relevant(Head(j.todo)) \cap Owes(ln, j.wallet) : m \in j.seen
              /\ \A seen : Ordered(Owes(ln, j.wallet), seen, Tail(j.todo))
         /\ j.wallet \in K \/ (j.score = 0 /\ j.ahead = 0)
         /\ j.seen \subseteq Owes(ln, j.wallet)
  <1> DEFINE w == j.wallet
             R == RegularSteps(w, ln, K)
             owed == Owes(ln, w)
             todo == j.todo
             rest == Tail(todo)
             n == Len(todo)
  <1>1. Regular(j, ln, K) /\ j.seen \subseteq owed
    BY DEF JobOK, Minting, Committing
  <1>2. todo \in Seq(R) /\ todo # <<>>
    BY <1>1 DEF Regular
  <1>3. Ordered(owed, j.seen, todo) /\ (w \in K \/ (j.score = 0 /\ j.ahead = 0))
    BY <1>1 DEF Regular
  <1>4. /\ Head(todo) \in R /\ rest \in Seq(R) /\ Len(rest) = n - 1
        /\ \A i \in 1 .. Len(rest) : rest[i] = todo[i + 1]
    BY <1>2, HeadTailProperties
  <1>5. n \in Nat \ {0} /\ DOMAIN todo = 1 .. n /\ DOMAIN rest = 1 .. n - 1 /\ Head(todo) = todo[1]
    <2>1. Head(todo) = todo[1]
      OBVIOUS
    <2> QED BY <1>2, <1>4, <2>1, EmptySeq, LenProperties
  <1>6. Head(todo).op \notin Looks => Ordered(owed, j.seen, rest)
    BY <1>2, <1>3, OrderedTail
  <1>7. Head(todo).op \in Looks => Ordered(owed, j.seen \cup ({Head(todo).at} \cap owed), rest)
    <2> DEFINE new == j.seen \cup ({Head(todo).at} \cap owed)
    <2>1. j.seen \subseteq new /\ {Head(todo).at} \cap owed \subseteq new
      OBVIOUS
    <2> HIDE DEF new, rest, owed, todo
    <2>2. Ordered(owed, new, rest)
      BY <1>2, <1>3, <2>1, OrderedTail DEF rest
    <2> QED BY <2>2 DEF new
  <1>8. ASSUME Head(todo).op \in Closing PROVE rest = <<>>
    <2>1. 1 = n
      <3>1. \A k \in DOMAIN todo : todo[k].op \in Closing => k = n
        BY <1>3 DEF Ordered
      <3>2. 1 \in DOMAIN todo /\ todo[1].op \in Closing
        BY <1>5, <1>8
      <3> HIDE DEF todo, n
      <3> QED BY <3>1, <3>2
    <2>2. Len(rest) = 0
      BY <2>1, <1>4
    <2> QED BY <2>2, <1>4, EmptySeq
  <1>9. ASSUME Head(todo).op \in Decisions
        PROVE  /\ \A i \in DOMAIN rest : rest[i].op \notin Decisions
               /\ \A m \in Relevant(Head(todo)) \cap owed : m \in j.seen
               /\ \A seen : Ordered(owed, seen, rest)
    <2>1. 1 \in DOMAIN todo /\ todo[1].op \in Decisions
      BY <1>5, <1>9
    <2>2. \A i \in DOMAIN rest : rest[i].op \notin Decisions
      <3>1. SUFFICES ASSUME NEW i \in DOMAIN rest, rest[i].op \in Decisions PROVE FALSE
        OBVIOUS
      <3>2. i + 1 \in DOMAIN todo /\ todo[i + 1] = rest[i] /\ i + 1 # 1
        BY <1>4, <1>5
      <3> QED BY <2>1, <3>1, <3>2, <1>3 DEF Ordered
    <2>3. \A m \in Relevant(Head(todo)) \cap owed : m \in j.seen
      BY <2>1, <1>3, <1>5 DEF Ordered
    <2>4. \A k \in DOMAIN rest : rest[k].op \in Closing => k = Len(rest)
      <3>1. SUFFICES ASSUME NEW k \in DOMAIN rest, rest[k].op \in Closing PROVE k = Len(rest)
        OBVIOUS
      <3>2. k + 1 \in DOMAIN todo /\ todo[k + 1] = rest[k]
        BY <1>4, <1>5
      <3>3. k + 1 = n
        BY <3>1, <3>2, <1>3 DEF Ordered
      <3>4. Len(rest) = n - 1 /\ k \in Int /\ n \in Int
        BY <1>4, <1>5
      <3> HIDE DEF rest, n
      <3> QED BY <3>3, <3>4
    <2>5. \A seen : Ordered(owed, seen, rest)
      BY <2>2, <2>4 DEF Ordered
    <2> QED BY <2>2, <2>3, <2>5
  <1> QED BY <1>1, <1>3, <1>4, <1>6, <1>7, <1>8, <1>9

LEMMA RegularJob ==
  ASSUME NEW j, NEW ln, NEW K, j.todo \in Seq(RegularSteps(j.wallet, ln, K)),
         Ordered(Owes(ln, j.wallet), j.seen, j.todo),
         j.wallet \in K \/ (j.score = 0 /\ j.ahead = 0),
         j.seen \subseteq Owes(ln, j.wallet)
  PROVE  JobOK(j, ln, K)
  BY DEF JobOK, Regular

LEMMA NoSteps == Ops(<<>>) = {} /\ Mail(<<>>) = {}
  BY DEF Ops, Mail

LEMMA NamedOps == \A name : Ops(Op(name)) = {name}
  <1>1. \A name : DOMAIN Op(name) = {1} /\ Op(name)[1].op = name
    BY DEF Op
  <1> QED BY <1>1 DEF Ops

LEMMA IdleSound ==
  ASSUME NEW ln, NEW K
  PROVE  JobOK(IdleJob, ln, K)
  <1>1. <<>> \in Seq(RegularSteps(IdleJob.wallet, ln, K))
    BY EmptySeq
  <1>2. IdleJob.todo = <<>> /\ IdleJob.seen = {} /\ IdleJob.score = 0 /\ IdleJob.ahead = 0
    BY DEF IdleJob
  <1>3. Ordered(Owes(ln, IdleJob.wallet), {}, <<>>)
    BY DEF Ordered
  <1> QED BY <1>1, <1>2, <1>3, RegularJob

LEMMA JobsAdvance ==
  ASSUME JobsOK, JobsSound, NEW t \in Threads, NEW n, Become(t, n),
         loan' = loan, Minted \subseteq Minted', JobOK(n, loan', Minted')
  PROVE  JobsSound'
  <1>1. PICK new : new = (IF n.todo = <<>> THEN IdleJob ELSE n) /\ job' = [job EXCEPT ![t] = new]
    BY DEF Become
  <1>2. JobOK(new, loan', Minted')
    BY <1>1, IdleSound
  <1>3. ASSUME NEW u \in Threads PROVE JobOK(job'[u], loan', Minted')
    <2>1. CASE u = t
      BY <2>1, <1>1, <1>2 DEF JobsOK
    <2>2. CASE u # t
      <3>1. job'[u] = job[u]
        BY <2>2, <1>1 DEF JobsOK
      <3>2. JobOK(job[u], loan, Minted)
        BY DEF JobsSound
      <3>3. PICK K, K2, ln, j : K = Minted /\ K2 = Minted' /\ ln = loan /\ j = job[u]
        OBVIOUS
      <3>4. JobOK(j, ln, K2)
        BY <3>2, <3>3, MoreProfiles
      <3> QED BY <3>1, <3>3, <3>4
    <2> QED BY <2>1, <2>2
  <1> QED BY <1>3 DEF JobsSound

LEMMA LocksAdvance ==
  ASSUME JobsOK, HubLocked, NEW t \in Threads, NEW n, Become(t, n), loan' = loan,
         \A w \in Wallets, s \in Spokes : loan[Hub][w] =>
           /\ Sent(w, s) => Sent(w, s)'
           /\ WaitsLock(job[t], w, s) => WaitsLock(n, w, s) \/ Sent(w, s)'
  PROVE  HubLocked'
  <1> SUFFICES ASSUME NEW w \in Wallets, loan'[Hub][w], NEW s \in Spokes PROVE Locking(w, s)'
    BY DEF HubLocked
  <1>1. PICK new : new = (IF n.todo = <<>> THEN IdleJob ELSE n) /\ job' = [job EXCEPT ![t] = new]
    BY DEF Become
  <1>2. WaitsLock(n, w, s) => WaitsLock(new, w, s)
    BY <1>1, NoSteps DEF WaitsLock
  <1>3. Sent(w, s) \/ \E u \in Threads : WaitsLock(job[u], w, s)
    BY DEF HubLocked, Locking
  <1>4. CASE Sent(w, s)
    BY <1>4 DEF Locking
  <1>5. ASSUME NEW u \in Threads, WaitsLock(job[u], w, s) PROVE Locking(w, s)'
    <2>1. CASE u = t
      <3>1. WaitsLock(new, w, s) \/ Sent(w, s)'
        BY <2>1, <1>2, <1>5
      <3>2. job'[t] = new
        BY <1>1 DEF JobsOK
      <3> QED BY <3>1, <3>2 DEF Locking
    <2>2. CASE u # t
      <3>1. job'[u] = job[u]
        BY <2>2, <1>1 DEF JobsOK
      <3> QED BY <3>1, <1>5 DEF Locking
    <2> QED BY <2>1, <2>2
  <1> QED BY <1>3, <1>4, <1>5

LEMMA FlagsAdvance ==
  ASSUME JobsOK, SpokeFlagged, NEW t \in Threads, NEW n, Become(t, n), loan' = loan,
         \A w \in Wallets : Owes(loan, w) \cap Spokes # {} =>
           /\ Flagged(w) => Flagged(w)'
           /\ WaitsFlag(job[t], w) => WaitsFlag(n, w) \/ Flagged(w)'
  PROVE  SpokeFlagged'
  <1> SUFFICES ASSUME NEW w \in Wallets, Owes(loan', w) \cap Spokes # {} PROVE Flagging(w)'
    BY DEF SpokeFlagged
  <1>1. PICK new : new = (IF n.todo = <<>> THEN IdleJob ELSE n) /\ job' = [job EXCEPT ![t] = new]
    BY DEF Become
  <1>2. WaitsFlag(n, w) => WaitsFlag(new, w)
    BY <1>1, NoSteps DEF WaitsFlag
  <1>3. Flagged(w) \/ \E u \in Threads : WaitsFlag(job[u], w)
    BY DEF SpokeFlagged, Flagging
  <1>4. CASE Flagged(w)
    BY <1>4 DEF Flagging
  <1>5. ASSUME NEW u \in Threads, WaitsFlag(job[u], w) PROVE Flagging(w)'
    <2>1. CASE u = t
      <3>1. WaitsFlag(new, w) \/ Flagged(w)'
        BY <2>1, <1>2, <1>5
      <3>2. job'[t] = new
        BY <1>1 DEF JobsOK
      <3> QED BY <3>1, <3>2 DEF Flagging
    <2>2. CASE u # t
      <3>1. job'[u] = job[u]
        BY <2>2, <1>1 DEF JobsOK
      <3> QED BY <3>1, <1>5 DEF Flagging
    <2> QED BY <2>1, <2>2
  <1> QED BY <1>3, <1>4, <1>5

(* A step of thread t that only changes its own list.                      *)
LEMMA Advance ==
  ASSUME TypeOK, LockInv, NEW t \in Threads, LocalStep, NEW n, Become(t, n),
         JobOK(n, loan, Minted),
         \A w \in Wallets, s \in Spokes :
           loan[Hub][w] /\ WaitsLock(job[t], w, s) => WaitsLock(n, w, s),
         \A w \in Wallets :
           Owes(loan, w) \cap Spokes # {} /\ WaitsFlag(job[t], w) => WaitsFlag(n, w) \/ Flagged(w)
  PROVE  LockInv'
  <1>1. /\ UNCHANGED <<profiles, blacklisted, loan, touched, unsynced, shunned, crossed>>
        /\ UNCHANGED <<spokeScores, defaultBlacklist, loanActiveMirror, inFlight, failures>>
    BY DEF LocalStep, chainVars, sbtVars, oappVars
  <1>2. Minted' = Minted
    BY <1>1 DEF Minted
  <1>3. JobsOK
    BY TypeParts
  <1>4. JobsSound'
    BY <1>1, <1>2, <1>3, JobsAdvance DEF LockInv
  <1>5. HubLocked'
    <2>1. \A w \in Wallets, s \in Spokes : Sent(w, s)' = Sent(w, s)
      BY <1>1 DEF Sent
    <2> QED BY <2>1, <1>1, <1>3, LocksAdvance DEF LockInv
  <1>6. SpokeFlagged'
    <2>1. \A w \in Wallets : Flagged(w)' = Flagged(w)
      BY <1>1 DEF Flagged
    <2> QED BY <2>1, <1>1, <1>3, FlagsAdvance DEF LockInv
  <1>7. NobodyListed' /\ NewcomersBlank' /\ MailSound' /\ HubExclusive'
    BY <1>1, <1>2 DEF LockInv, NobodyListed, NewcomersBlank, MailSound, HubExclusive, Holds
  <1> QED BY <1>4, <1>5, <1>6, <1>7 DEF LockInv

(* What the thread still had to do, whose function ends here.              *)
LEMMA NothingLeft ==
  ASSUME TypeOK, LockInv, NEW t \in Threads, ~Idle(t), Head(job[t].todo).op \in Closing
  PROVE  /\ Rest(t) = <<>>
         /\ \A w, s : ~WaitsLock(job[t], w, s)
         /\ \A w : ~WaitsFlag(job[t], w)
  <1>1. JobsOK /\ JobOK(job[t], loan, Minted)
    BY TypeParts DEF LockInv, JobsSound
  <1>2. job[t].todo \in Seq(Steps) /\ job[t].todo # <<>>
    BY <1>1, HeadFacts DEF Idle
  <1>3. Head(job[t].todo).op \notin {"vet", "commit", "send", "created", "ensure", "set_active"}
    BY DEF Closing
  <1>4. Rest(t) = <<>>
    BY <1>1, <1>2, <1>3, RegularHead DEF Rest
  <1>5. Ops(job[t].todo) = {Head(job[t].todo).op} /\ Mail(job[t].todo) = {}
    BY <1>2, <1>3, <1>4, TailParts, NoSteps DEF Rest
  <1> QED BY <1>3, <1>4, <1>5 DEF WaitsLock, WaitsFlag

LEMMA Replace ==
  ASSUME TypeOK, LockInv, NEW t \in Threads, ~Idle(t), LocalStep,
         Head(job[t].todo).op \in Closing, NEW n, Become(t, n), JobOK(n, loan, Minted)
  PROVE  LockInv'
  BY NothingLeft, Advance

(* The thread goes on, with a few steps before the rest.                   *)
LEMMA Resume ==
  ASSUME TypeOK, LockInv, NEW t \in Threads, ~Idle(t), LocalStep,
         Head(job[t].todo).op \notin {"vet", "commit", "send"},
         NEW a \in Seq(PlainSteps), a \in Seq(RegularSteps(job[t].wallet, loan, Minted)),
         NEW n, Become(t, n), n.wallet = job[t].wallet, n.todo = a \o Rest(t),
         n.seen \subseteq Owes(loan, n.wallet), Ordered(Owes(loan, n.wallet), n.seen, Rest(t)),
         n.wallet \in Minted \/ (n.score = 0 /\ n.ahead = 0),
         Head(job[t].todo).op = "created" /\ loan[Hub][n.wallet] =>
           \A s \in Spokes : LockMessage(n.wallet, s) \in Mail(a),
         Head(job[t].todo).op \in {"created", "ensure", "set_active"}
             /\ Owes(loan, n.wallet) \cap Spokes # {} =>
           Flagged(n.wallet) \/ Ops(a) \cap {"created", "ensure", "set_active"} # {}
  PROVE  LockInv'
  <1> DEFINE w == job[t].wallet
             R == RegularSteps(w, loan, Minted)
  <1>1. JobsOK /\ JobOK(job[t], loan, Minted)
    BY TypeParts DEF LockInv, JobsSound
  <1>2. job[t].todo \in Seq(Steps) /\ job[t].todo # <<>>
    BY <1>1, HeadFacts DEF Idle
  <1>3. Rest(t) \in Seq(R)
    BY <1>1, <1>2, RegularHead DEF Rest
  <1>4. Rest(t) \in Seq(Steps) /\ a \in Seq(Steps)
    BY <1>3, RegularAreSteps, PlainOrdered
  <1>5. JobOK(n, loan, Minted)
    <2>1. n.todo \in Seq(RegularSteps(n.wallet, loan, Minted))
      BY <1>3, Bound
    <2>2. Ordered(Owes(loan, n.wallet), n.seen, n.todo)
      BY <1>4, OrderedAfterPlain
    <2> QED BY <2>1, <2>2, RegularJob
  <1>6. /\ Ops(job[t].todo) = {Head(job[t].todo).op} \cup Ops(Rest(t))
        /\ Mail(job[t].todo) = Mail(Rest(t))
    BY <1>2, TailParts DEF Rest
  <1>7. Ops(n.todo) = Ops(a) \cup Ops(Rest(t)) /\ Mail(n.todo) = Mail(a) \cup Mail(Rest(t))
    BY <1>4, JoinedParts
  <1>8. ASSUME NEW v \in Wallets, NEW s \in Spokes, loan[Hub][v], WaitsLock(job[t], v, s)
        PROVE  WaitsLock(n, v, s)
    BY <1>6, <1>7, <1>8 DEF WaitsLock
  <1>9. ASSUME NEW v \in Wallets, Owes(loan, v) \cap Spokes # {}, WaitsFlag(job[t], v)
        PROVE  WaitsFlag(n, v) \/ Flagged(v)
    BY <1>6, <1>7, <1>9 DEF WaitsFlag
  <1> QED BY <1>5, <1>8, <1>9, Advance

LEMMA Regularly ==
  ASSUME TypeOK, LockInv, NEW t \in Threads, NEW name, Doing(t, name), name \notin {"vet", "commit"}
  PROVE  /\ ~Idle(t) /\ Head(job[t].todo).op = name
         /\ Head(job[t].todo) \in RegularSteps(job[t].wallet, loan, Minted)
         /\ Rest(t) \in Seq(RegularSteps(job[t].wallet, loan, Minted))
         /\ name \notin Looks => Ordered(Owes(loan, job[t].wallet), job[t].seen, Rest(t))
         /\ name \in Looks =>
              Ordered(Owes(loan, job[t].wallet),
                      job[t].seen \cup ({Head(job[t].todo).at} \cap Owes(loan, job[t].wallet)), Rest(t))
         /\ name \in Decisions =>
              /\ \A m \in Relevant(Head(job[t].todo)) \cap Owes(loan, job[t].wallet) : m \in job[t].seen
              /\ \A seen : Ordered(Owes(loan, job[t].wallet), seen, Rest(t))
         /\ job[t].wallet \in Minted \/ (job[t].score = 0 /\ job[t].ahead = 0)
         /\ job[t].seen \subseteq Owes(loan, job[t].wallet)
  <1>1. JobsOK /\ JobOK(job[t], loan, Minted)
    BY TypeParts DEF LockInv, JobsSound
  <1>2. ~Idle(t) /\ Head(job[t].todo).op = name
    BY <1>1, DoingFacts
  <1>3. job[t].todo \in Seq(Steps) /\ job[t].todo # <<>>
    BY <1>1, <1>2, HeadFacts DEF Idle
  <1> QED BY <1>1, <1>2, <1>3, RegularHead DEF Rest

\* Nothing is added to the list.
LEMMA Onward ==
  ASSUME TypeOK, LockInv, NEW t \in Threads, ~Idle(t), LocalStep,
         Head(job[t].todo).op \notin {"vet", "commit", "send", "created"},
         NEW n, Become(t, n), n.wallet = job[t].wallet, n.todo = Rest(t),
         n.seen \subseteq Owes(loan, n.wallet), Ordered(Owes(loan, n.wallet), n.seen, Rest(t)),
         n.wallet \in Minted \/ (n.score = 0 /\ n.ahead = 0),
         Head(job[t].todo).op \in {"ensure", "set_active"} /\ Owes(loan, n.wallet) \cap Spokes # {} =>
           Flagged(n.wallet)
  PROVE  LockInv'
  <1>1. <<>> \in Seq(PlainSteps) /\ <<>> \in Seq(RegularSteps(job[t].wallet, loan, Minted))
    BY EmptySeq
  <1>2. Rest(t) \in Seq(Steps)
    BY TypeParts, HeadFacts
  <1>3. n.todo = <<>> \o Rest(t)
    BY <1>2, ConcatEmptySeq
  <1> QED BY <1>1, <1>3, Resume

(* Every action keeps the invariant: reads and decisions.                  *)

LEMMA ReadLoanLocks == ASSUME TypeOK, LockInv, NEW t \in Threads, ReadLoan(t) PROVE LockInv'
  <1> DEFINE m == Head(job[t].todo).at
             w == job[t].wallet
             found == IF loan[m][w] THEN {m} ELSE {}
             n == [job[t] EXCEPT !.seen = @ \cup found, !.todo = Rest(t)]
  <1>1. JobsOK /\ LocalStep /\ Doing(t, "read") /\ Become(t, n)
    BY TypeParts DEF ReadLoan
  <1>2. job[t] \in Work /\ m \in Markets
    BY SMTT(60), <1>1, DoingFacts, HeadFacts, StepFields
  <1>3. /\ ~Idle(t) /\ Head(job[t].todo).op = "read"
        /\ Ordered(Owes(loan, w), job[t].seen \cup ({m} \cap Owes(loan, w)), Rest(t))
        /\ w \in Minted \/ (job[t].score = 0 /\ job[t].ahead = 0)
        /\ job[t].seen \subseteq Owes(loan, w)
    BY <1>1, Regularly DEF Looks
  <1>4. found = {m} \cap Owes(loan, w)
    BY <1>2 DEF Owes
  <1> HIDE DEF found
  <1>5. /\ n.wallet = w /\ n.todo = Rest(t) /\ n.seen = job[t].seen \cup found
        /\ n.score = job[t].score /\ n.ahead = job[t].ahead
    BY <1>2 DEF Work
  <1> HIDE DEF n
  <1> QED BY <1>1, <1>3, <1>4, <1>5, Onward

LEMMA ProfileScoreLocks == ASSUME TypeOK, LockInv, NEW t \in Threads, ProfileScore(t) PROVE LockInv'
  <1> DEFINE w == job[t].wallet
             n == [job[t] EXCEPT !.score = profiles[w].score, !.todo = Rest(t)]
  <1>1. JobsOK /\ LocalStep /\ Doing(t, "profile_score") /\ Become(t, n)
    BY TypeParts DEF ProfileScore
  <1>2. job[t] \in Work /\ w \in Wallets
    BY <1>1, DoingFacts, HeadFacts
  <1>0. "profile_score" \notin Looks \cup {"vet", "commit"}
    BY DEF Looks
  <1>3. /\ ~Idle(t) /\ Head(job[t].todo).op = "profile_score"
        /\ Ordered(Owes(loan, w), job[t].seen, Rest(t))
        /\ w \in Minted \/ (job[t].score = 0 /\ job[t].ahead = 0)
        /\ job[t].seen \subseteq Owes(loan, w)
    BY <1>0, <1>1, Regularly
  <1>4. w \in Minted \/ profiles[w].score = 0
    BY <1>2 DEF LockInv, NewcomersBlank
  <1>5. /\ n.wallet = w /\ n.todo = Rest(t) /\ n.seen = job[t].seen
        /\ n.score = profiles[w].score /\ n.ahead = job[t].ahead
    BY <1>2 DEF Work
  <1> HIDE DEF n
  <1> QED BY <1>1, <1>3, <1>4, <1>5, Onward

LEMMA ViewChainLocks == ASSUME TypeOK, LockInv, NEW t \in Threads, ViewChain(t) PROVE LockInv'
  <1> DEFINE m == Head(job[t].todo).at
             w == job[t].wallet
             sc == IF m = Hub THEN profiles[w].score ELSE job[t].score
             higher(a, b) == IF a > b THEN a ELSE b
             ahead == IF m = Hub THEN job[t].ahead ELSE higher(job[t].ahead, spokeScores[m][w])
             seen == IF loan[m][w] THEN job[t].seen \cup {m} ELSE job[t].seen
             locked == IF m \in Spokes /\ loanActiveMirror[m][w] THEN job[t].locked \cup {m}
                       ELSE job[t].locked
             n == [job[t] EXCEPT !.score = sc, !.ahead = ahead, !.seen = seen, !.locked = locked,
                                 !.todo = Rest(t)]
  <1>1. JobsOK /\ LocalStep /\ Doing(t, "view") /\ Become(t, n)
    BY TypeParts DEF ViewChain
  <1>2. job[t] \in Work /\ w \in Wallets /\ m \in Markets
    <2>1. ~Idle(t) /\ Head(job[t].todo).op = "view" /\ w \in Wallets
      BY SMTT(60), <1>1, DoingFacts
    <2> QED BY ZenonT(60), <1>1, <2>1, HeadFacts, StepFields
  <1>3. /\ ~Idle(t) /\ Head(job[t].todo).op = "view"
        /\ Ordered(Owes(loan, w), job[t].seen \cup ({m} \cap Owes(loan, w)), Rest(t))
        /\ w \in Minted \/ (job[t].score = 0 /\ job[t].ahead = 0)
        /\ job[t].seen \subseteq Owes(loan, w)
    BY <1>1, Regularly DEF Looks
  <1>4. seen = job[t].seen \cup ({m} \cap Owes(loan, w))
    BY <1>2 DEF Owes
  <1>5. w \in Minted \/ (sc = 0 /\ ahead = 0)
    BY <1>2, <1>3 DEF LockInv, NewcomersBlank, Markets
  <1> HIDE DEF sc, ahead, seen, locked
  <1>6. /\ n.wallet = w /\ n.todo = Rest(t) /\ n.seen = seen /\ n.score = sc /\ n.ahead = ahead
    BY <1>2 DEF Work
  <1> HIDE DEF n
  <1> QED BY ZenonT(60), <1>1, <1>3, <1>4, <1>5, <1>6, Onward

LEMMA ClearLockLocks == ASSUME TypeOK, LockInv, NEW t \in Threads, ClearLock(t) PROVE LockInv'
  <1> DEFINE w == job[t].wallet
             N(steps) == [job[t] EXCEPT !.todo = steps]
  <1>1. JobsOK /\ LocalStep /\ Doing(t, "clear_lock")
    BY TypeParts DEF ClearLock
  <1>2. job[t] \in Work /\ w \in Wallets
    BY <1>1, DoingFacts, HeadFacts
  <1>3. /\ ~Idle(t) /\ Head(job[t].todo).op = "clear_lock"
        /\ w \in Minted \/ (job[t].score = 0 /\ job[t].ahead = 0)
        /\ job[t].seen \subseteq Owes(loan, w)
        /\ Head(job[t].todo) \in RegularSteps(w, loan, Minted)
    BY <1>1, Regularly
  <1>4. ~loan[Hub][w]
    BY <1>2, <1>3 DEF RegularSteps, Owes, Markets
  <1>5. broadcast_repaid(w) \in Seq(RegularSteps(w, loan, Minted)) /\ broadcast_repaid(w) \in Seq(PlainSteps)
        /\ <<>> \in Seq(RegularSteps(w, loan, Minted)) /\ <<>> \in Seq(PlainSteps)
    BY <1>2, <1>4, FreesSound, EmptySeq
  <1>6. ASSUME NEW steps, steps \in Seq(RegularSteps(w, loan, Minted)), steps \in Seq(PlainSteps)
        PROVE  JobOK(N(steps), loan, Minted)
    <2>1. /\ N(steps).wallet = w /\ N(steps).todo = steps /\ N(steps).seen = job[t].seen
          /\ N(steps).score = job[t].score /\ N(steps).ahead = job[t].ahead
      BY <1>2 DEF Work
    <2> HIDE DEF N
    <2> QED BY <1>3, <1>6, <2>1, PlainOrdered, RegularJob
  <1>7. Become(t, N(broadcast_repaid(w))) \/ Become(t, N(<<>>))
    BY DEF ClearLock, Continue
  <1> HIDE DEF N
  <1> QED BY <1>1, <1>3, <1>5, <1>6, <1>7, Replace DEF Closing

\* The thread's record stays, but for its list.
LEMMA ResumeList ==
  ASSUME TypeOK, LockInv, NEW t \in Threads, NEW name, Doing(t, name), LocalStep,
         name \notin Looks \cup {"vet", "commit", "send", "created"},
         NEW a \in Seq(PlainSteps), a \in Seq(RegularSteps(job[t].wallet, loan, Minted)),
         Continue(t, a \o Rest(t)),
         name \in {"ensure", "set_active"} /\ Owes(loan, job[t].wallet) \cap Spokes # {} =>
           Flagged(job[t].wallet) \/ Ops(a) \cap {"created", "ensure", "set_active"} # {}
  PROVE  LockInv'
  <1> DEFINE w == job[t].wallet
             n == [job[t] EXCEPT !.todo = a \o Rest(t)]
  <1>1. JobsOK /\ Become(t, n)
    BY TypeParts DEF Continue
  <1>2. /\ ~Idle(t) /\ Head(job[t].todo).op = name
        /\ Ordered(Owes(loan, w), job[t].seen, Rest(t))
        /\ w \in Minted \/ (job[t].score = 0 /\ job[t].ahead = 0)
        /\ job[t].seen \subseteq Owes(loan, w)
    BY <1>1, Regularly
  <1>3. job[t] \in Work
    BY <1>1, <1>2, HeadFacts
  <1>4. /\ n.wallet = w /\ n.todo = a \o Rest(t) /\ n.seen = job[t].seen
        /\ n.score = job[t].score /\ n.ahead = job[t].ahead
    BY <1>3 DEF Work
  <1> HIDE DEF n
  <1> QED BY <1>1, <1>2, <1>4, Resume

LEMMA ReadFlagLocks == ASSUME TypeOK, LockInv, NEW t \in Threads, ReadFlag(t) PROVE LockInv'
  <1> DEFINE w == job[t].wallet
             R == RegularSteps(w, loan, Minted)
  <1>1. JobsOK /\ LocalStep /\ (Doing(t, "ensure") \/ Doing(t, "clear"))
    BY TypeParts DEF ReadFlag
  <1>2. w \in Wallets
    BY <1>1, DoingFacts
  <1>3. <<>> \in Seq(PlainSteps) /\ <<>> \in Seq(R)
    BY EmptySeq
  <1>4. CASE Doing(t, "ensure")
    <2>1. "ensure" \notin Looks \cup {"vet", "commit", "send", "created"}
      BY DEF Looks
    <2>2. Op("set_active") \in Seq(PlainSteps) /\ Op("set_active") \in Seq(R)
      BY PlainNamed, RegularNames
    <2>3. Ops(Op("set_active")) \cap {"created", "ensure", "set_active"} # {}
      BY NamedOps
    <2>4. Head(job[t].todo).op = "ensure"
      BY <1>1, <1>4, DoingFacts
    <2>5. \/ Continue(t, Op("set_active") \o Rest(t))
          \/ Continue(t, <<>> \o Rest(t)) /\ (~profiles[w].exists \/ profiles[w].loanActive)
      BY <2>4 DEF ReadFlag, Doing
    <2>6. ~profiles[w].exists \/ profiles[w].loanActive =>
            Owes(loan, w) \cap Spokes = {} \/ Flagged(w)
      BY <1>2 DEF LockInv, NewcomersBlank, Minted, Flagged
    <2>7. CASE Continue(t, Op("set_active") \o Rest(t))
      BY <1>1, <1>4, <2>1, <2>2, <2>3, <2>7, ResumeList
    <2>8. CASE Continue(t, <<>> \o Rest(t)) /\ (~profiles[w].exists \/ profiles[w].loanActive)
      BY <1>1, <1>3, <1>4, <2>1, <2>6, <2>8, ResumeList
    <2> QED BY <2>5, <2>7, <2>8
  <1>5. CASE Doing(t, "clear")
    <2>1. "clear" \notin Looks \cup {"vet", "commit", "send", "created"}
          /\ "clear" \notin {"ensure", "set_active"}
      BY DEF Looks
    <2>2. Head(job[t].todo).op = "clear" /\ Head(job[t].todo) \in R
      BY <1>5, <2>1, Regularly
    <2>3. Owes(loan, w) = {}
      BY <2>2 DEF RegularSteps
    <2>4. Op("set_repaid") \in Seq(PlainSteps) /\ Op("set_repaid") \in Seq(R)
      BY <2>3, PlainNamed, ClearNames
    <2>5. Continue(t, Op("set_repaid") \o Rest(t)) \/ Continue(t, <<>> \o Rest(t))
      BY <2>2 DEF ReadFlag, Doing
    <2>6. ASSUME NEW a, a \in Seq(PlainSteps), a \in Seq(R), Continue(t, a \o Rest(t)) PROVE LockInv'
      BY <1>1, <1>5, <2>1, <2>6, ResumeList
    <2>7. CASE Continue(t, Op("set_repaid") \o Rest(t))
      BY <2>4, <2>6, <2>7
    <2>8. CASE Continue(t, <<>> \o Rest(t))
      BY <1>3, <2>6, <2>8
    <2> QED BY <2>5, <2>7, <2>8
  <1> QED BY <1>1, <1>4, <1>5

\* The transaction the contract refuses is the flag's, at the counter's limit.
LEMMA RevertLocks == ASSUME TypeOK, LockInv, NEW t \in Threads, Revert(t) PROVE LockInv'
  <1> DEFINE w == job[t].wallet
  <1>1. /\ JobsOK /\ LocalStep /\ Continue(t, Salvage(t))
        /\ \/ Doing(t, "set_active") /\ profiles[w].totalLoans = MaxUint8
           \/ Doing(t, "unlist")
    BY TypeParts DEF Revert
  <1>2. ASSUME Doing(t, "unlist") PROVE FALSE
    <2>1. Head(job[t].todo).op = "unlist" /\ Head(job[t].todo) \in RegularSteps(w, loan, Minted)
      BY <1>2, Regularly
    <2> QED BY <2>1 DEF RegularSteps, Foreign
  <1>3. Doing(t, "set_active") /\ Flagged(w)
    BY <1>1, <1>2 DEF Flagged
  <1>4. Head(job[t].todo).op = "set_active" /\ Rest(t) \in Seq(Steps)
    BY <1>1, <1>3, DoingFacts, HeadFacts
  <1>5. Salvage(t) = Rest(t)
    <2> DEFINE step == Head(job[t].todo)
               skips == \/ step.op \in {"set_active", "set_repaid", "spoke_listed", "clear_spoke"}
                        \/ step.op \in {"read", "listed"} /\ step.at # Hub
               untold == IsSend(step, "WHITELIST") /\ profiles[w].exists
               refusable == step.op \in {"vet", "commit"}
               later == SubSeq(Rest(t), 1 + Cardinality({i \in DOMAIN Rest(t) : IsSend(Rest(t)[i], "WHITELIST")}),
                               Len(Rest(t)))
               last == IF Last(job[t].todo).op = "clear_lock" THEN clear_lock(TRUE) ELSE <<>>
    <2>1. Salvage(t) = CASE skips -> Rest(t)
                         [] untold -> later
                         [] refusable -> Refused(job[t].todo)
                         [] OTHER -> last
      BY DEF Salvage, Rest
    <2>2. skips /\ ~untold /\ ~refusable
      BY <1>4 DEF IsSend
    <2> HIDE DEF skips, untold, refusable, last, later
    <2> QED BY <2>1, <2>2
  <1>6. <<>> \in Seq(PlainSteps) /\ <<>> \in Seq(RegularSteps(w, loan, Minted))
    BY EmptySeq
  <1>7. Continue(t, <<>> \o Rest(t))
    BY <1>1, <1>4, <1>5, ConcatEmptySeq
  <1>8. "set_active" \notin Looks \cup {"vet", "commit", "send", "created"}
    BY DEF Looks
  <1> QED BY <1>1, <1>3, <1>6, <1>7, <1>8, ResumeList

LEMMA LocksMailed ==
  ASSUME NEW w \in Wallets, NEW s \in Spokes
  PROVE  LockMessage(w, s) \in Mail(broadcast_loan_active(w))
  <1> DEFINE B == broadcast_loan_active(w)
  <1>1. PICK i \in 1 .. Len(SpokeOrder) : SpokeOrder[i] = s
    BY SpokeOrderType
  <1>2. /\ B \in Seq(Sends) /\ Len(B) = Len(SpokeOrder)
        /\ B[i] = [op |-> "send", msg |-> LockMessage(w, s)]
    BY <1>1, BroadcastShape DEF broadcast_loan_active, LockMessage, MessageTypes, Payload
  <1> HIDE DEF B
  <1>3. i \in DOMAIN B /\ B[i].op = "send" /\ B[i].msg = LockMessage(w, s)
    BY <1>1, <1>2, LenProperties
  <1> QED BY <1>3 DEF Mail, B

\* After the decision the reads are forgotten.
LEMMA ResumeDecided ==
  ASSUME TypeOK, LockInv, NEW t \in Threads, NEW name \in {"created", "repaid"}, Doing(t, name), LocalStep,
         NEW a \in Seq(PlainSteps), a \in Seq(RegularSteps(job[t].wallet, loan, Minted)),
         Proceed(t, a \o Rest(t)),
         name = "created" /\ loan[Hub][job[t].wallet] =>
           \A s \in Spokes : LockMessage(job[t].wallet, s) \in Mail(a),
         name = "created" /\ Owes(loan, job[t].wallet) \cap Spokes # {} =>
           Ops(a) \cap {"created", "ensure", "set_active"} # {}
  PROVE  LockInv'
  <1> DEFINE w == job[t].wallet
             n == [job[t] EXCEPT !.ahead = 0, !.seen = {}, !.locked = {}, !.todo = a \o Rest(t)]
  <1>1. JobsOK /\ Become(t, n)
    BY TypeParts DEF Proceed
  <1>2. name \in Decisions /\ name \notin {"vet", "commit", "send", "ensure", "set_active"}
    BY DEF Decisions
  <1>3. /\ ~Idle(t) /\ Head(job[t].todo).op = name
        /\ \A seen : Ordered(Owes(loan, w), seen, Rest(t))
        /\ w \in Minted \/ (job[t].score = 0 /\ job[t].ahead = 0)
    BY <1>1, <1>2, Regularly
  <1>4. job[t] \in Work
    BY <1>1, <1>3, HeadFacts
  <1>5. /\ n.wallet = w /\ n.todo = a \o Rest(t) /\ n.seen = {}
        /\ n.score = job[t].score /\ n.ahead = 0
    BY <1>4 DEF Work
  <1> HIDE DEF n
  <1> QED BY <1>1, <1>2, <1>3, <1>5, Resume

LEMMA DecideCreatedLocks == ASSUME TypeOK, LockInv, NEW t \in Threads, DecideCreated(t) PROVE LockInv'
  <1> DEFINE w == job[t].wallet
             R == RegularSteps(w, loan, Minted)
             first == IF Hub \in job[t].seen THEN <<>> ELSE Op("ensure")
             scores == broadcast_score(w, profiles[w].score)
             locks == broadcast_loan_active(w)
  <1>1. JobsOK /\ LocalStep /\ Doing(t, "created")
    BY TypeParts DEF DecideCreated
  <1>2. w \in Wallets /\ ~Idle(t) /\ Head(job[t].todo).op = "created"
    BY <1>1, DoingFacts
  <1>3. "created" \in Decisions /\ "created" \notin {"vet", "commit"}
    BY DEF Decisions
  <1>4. job[t].seen = Owes(loan, w)
    <2>1. /\ \A m \in Relevant(Head(job[t].todo)) \cap Owes(loan, w) : m \in job[t].seen
          /\ job[t].seen \subseteq Owes(loan, w)
      BY <1>1, <1>3, Regularly
    <2>2. Relevant(Head(job[t].todo)) = Markets /\ Owes(loan, w) \subseteq Markets
      BY <1>2 DEF Relevant, Owes
    <2> QED BY <2>1, <2>2
  <1>5. loan[Hub][w] <=> Hub \in Owes(loan, w)
    BY DEF Owes, Markets
  <1>6. CASE job[t].seen = {}
    <2>1. Proceed(t, broadcast_repaid(w) \o Rest(t))
      BY <1>6 DEF DecideCreated
    <2>2. broadcast_repaid(w) \in Seq(R) /\ broadcast_repaid(w) \in Seq(PlainSteps)
      BY <1>2, <1>4, <1>5, <1>6, FreesSound
    <2> QED BY <1>1, <1>4, <1>5, <1>6, <2>1, <2>2, ResumeDecided
  <1>7. CASE job[t].seen # {}
    <2>1. Proceed(t, first \o scores \o locks \o Rest(t))
      BY <1>7 DEF DecideCreated
    <2>2. scores \in Seq(R) /\ scores \in Seq(PlainSteps)
      <3>1. profiles[w].score # 0 => w \in Minted
        BY <1>2 DEF LockInv, NewcomersBlank
      <3>2. profiles[w].score \in ScoreData
        BY <1>2 DEF TypeOK
      <3> QED BY <1>2, <3>1, <3>2, ScoreSound
    <2>3. /\ locks \in Seq(R) /\ locks \in Seq(PlainSteps)
          /\ \A s \in Spokes : LockMessage(w, s) \in Mail(locks)
      BY <1>2, LocksSound, LocksMailed
    <2>4. first \in Seq(R) /\ first \in Seq(PlainSteps)
      BY RegularNames, PlainNamed, EmptySeq
    <2>5. Owes(loan, w) \cap Spokes # {} => "ensure" \in Ops(first)
      <3>1. SUFFICES ASSUME Owes(loan, w) \cap Spokes # {} PROVE "ensure" \in Ops(first)
        OBVIOUS
      <3>2. Hub \notin Owes(loan, w)
        BY <1>2, <1>5, <3>1, CrossChainAssumption DEF LockInv, HubExclusive, Holds, Owes
      <3> QED BY <1>4, <3>2, NamedOps
    <2> HIDE DEF first, scores, locks
    <2>6. first \o scores \o locks \in Seq(R) /\ first \o scores \o locks \in Seq(PlainSteps)
      BY <2>2, <2>3, <2>4, Bound
    <2>7. /\ Mail(locks) \subseteq Mail(first \o scores \o locks)
          /\ Ops(first) \subseteq Ops(first \o scores \o locks)
      <3>1. first \o scores \in Seq(R)
        BY <2>2, <2>4, Bound
      <3>2. Ops(first \o scores) = Ops(first) \cup Ops(scores)
        BY <2>2, <2>4, JoinedParts
      <3>3. /\ Mail(first \o scores \o locks) = Mail(first \o scores) \cup Mail(locks)
            /\ Ops(first \o scores \o locks) = Ops(first \o scores) \cup Ops(locks)
        <4> DEFINE before == first \o scores
        <4>1. locks \in Seq(R) /\ before \in Seq(R)
          BY <2>3, <3>1
        <4> HIDE DEF before, R
        <4>2. /\ Mail(before \o locks) = Mail(before) \cup Mail(locks)
              /\ Ops(before \o locks) = Ops(before) \cup Ops(locks)
          BY <4>1, JoinedParts
        <4> QED BY <4>2 DEF before
      <3> QED BY <3>2, <3>3
    <2> QED BY <1>1, <2>1, <2>3, <2>5, <2>6, <2>7, ResumeDecided
  <1> QED BY <1>6, <1>7

LEMMA DecideRepaidLocks == ASSUME TypeOK, LockInv, NEW t \in Threads, DecideRepaid(t) PROVE LockInv'
  <1> DEFINE w == job[t].wallet
             R == RegularSteps(w, loan, Minted)
             scores == broadcast_score(w, job[t].score)
  <1>1. JobsOK /\ LocalStep /\ Doing(t, "repaid")
    BY TypeParts DEF DecideRepaid
  <1>2. w \in Wallets /\ ~Idle(t) /\ Head(job[t].todo).op = "repaid" /\ job[t] \in Work
        /\ Rest(t) \in Seq(Steps)
    BY <1>1, DoingFacts, HeadFacts
  <1>3. "repaid" \in Decisions /\ "repaid" \notin {"vet", "commit"}
    BY DEF Decisions
  <1>4. job[t].seen = Owes(loan, w) /\ (w \in Minted \/ job[t].score = 0)
    <2>1. /\ \A m \in Relevant(Head(job[t].todo)) \cap Owes(loan, w) : m \in job[t].seen
          /\ job[t].seen \subseteq Owes(loan, w)
          /\ w \in Minted \/ job[t].score = 0
      BY <1>1, <1>3, Regularly
    <2>2. Relevant(Head(job[t].todo)) = Markets /\ Owes(loan, w) \subseteq Markets
      BY <1>2 DEF Relevant, Owes
    <2> QED BY <2>1, <2>2
  <1>5. CASE job[t].seen # {}
    <2>1. Proceed(t, <<>> \o Rest(t))
      BY <1>2, <1>5, ConcatEmptySeq DEF DecideRepaid
    <2>2. <<>> \in Seq(PlainSteps) /\ <<>> \in Seq(R)
      BY EmptySeq
    <2> QED BY <1>1, <2>1, <2>2, ResumeDecided
  <1>6. CASE job[t].seen = {}
    <2>1. Proceed(t, Op("clear") \o scores \o broadcast_repaid(w) \o Rest(t))
      BY <1>6 DEF DecideRepaid
    <2>2. scores \in Seq(R) /\ scores \in Seq(PlainSteps)
      <3>1. job[t].score \in ScoreData
        BY <1>2 DEF Work
      <3> QED BY <1>2, <1>4, <3>1, ScoreSound
    <2>3. Op("clear") \in Seq(R) /\ Op("clear") \in Seq(PlainSteps)
      BY <1>4, <1>6, ClearNames, PlainNamed
    <2>4. broadcast_repaid(w) \in Seq(R) /\ broadcast_repaid(w) \in Seq(PlainSteps)
      <3>1. ~loan[Hub][w]
        BY <1>4, <1>6 DEF Owes, Markets
      <3> QED BY <1>2, <3>1, FreesSound
    <2> HIDE DEF scores
    <2>5. Op("clear") \o scores \o broadcast_repaid(w) \in Seq(R)
          /\ Op("clear") \o scores \o broadcast_repaid(w) \in Seq(PlainSteps)
      BY <2>2, <2>3, <2>4, Bound
    <2> QED BY <1>1, <2>1, <2>5, ResumeDecided
  <1> QED BY <1>5, <1>6

(* The repairs.                                                            *)

LEMMA UnlockLocks == ASSUME TypeOK, LockInv, NEW t \in Threads, Unlock(t) PROVE LockInv'
  <1> DEFINE w == job[t].wallet
             s == Head(job[t].todo).at
             R == RegularSteps(w, loan, Minted)
             N(steps) == [job[t] EXCEPT !.ahead = 0, !.seen = {}, !.locked = {}, !.todo = steps]
  <1>1. /\ JobsOK /\ LocalStep
        /\ \/ Doing(t, "lock_kind") /\ (Proceed(t, prepareSpokeBorrow(s)) \/ Proceed(t, <<>>))
           \/ /\ Doing(t, "prepare")
              /\ Proceed(t, <<>>) \/ (job[t].seen = {} /\ Proceed(t, clear_lock(TRUE)))
    BY TypeParts DEF Unlock
  <1>2. {"lock_kind", "prepare"} \subseteq Decisions \cap Closing /\ "vet" \notin Closing /\ "commit" \notin Closing
    BY DEF Decisions, Closing
  <1>3. /\ ~Idle(t) /\ w \in Wallets /\ s \in Spokes /\ job[t] \in Work
        /\ Head(job[t].todo).op \in {"lock_kind", "prepare"}
        /\ w \in Minted \/ (job[t].score = 0 /\ job[t].ahead = 0)
    <2>1. ASSUME NEW name \in {"lock_kind", "prepare"}, Doing(t, name)
          PROVE  /\ ~Idle(t) /\ Head(job[t].todo).op = name /\ w \in Wallets
                 /\ w \in Minted \/ (job[t].score = 0 /\ job[t].ahead = 0)
      BY <1>1, <2>1, DoingFacts, Regularly
    <2> QED BY <1>1, <2>1, HeadFacts, StepFields
  <1>4. ASSUME NEW steps \in Seq(R), Ordered(Owes(loan, w), {}, steps), Proceed(t, steps)
        PROVE  LockInv'
    <2>1. /\ N(steps).wallet = w /\ N(steps).todo = steps /\ N(steps).seen = {}
          /\ N(steps).score = job[t].score /\ N(steps).ahead = 0
      BY <1>3 DEF Work
    <2>2. Become(t, N(steps))
      BY <1>4 DEF Proceed
    <2> HIDE DEF N
    <2>3. JobOK(N(steps), loan, Minted)
      BY <1>3, <1>4, <2>1, RegularJob
    <2> QED BY <1>1, <1>2, <1>3, <2>2, <2>3, Replace
  <1>5. CASE Proceed(t, <<>>)
    <2>1. <<>> \in Seq(R) /\ Ordered(Owes(loan, w), {}, <<>>)
      BY EmptySeq DEF Ordered
    <2> QED BY <1>4, <1>5, <2>1
  <1>6. CASE Doing(t, "lock_kind") /\ Proceed(t, prepareSpokeBorrow(s))
    <2> DEFINE c == prepareSpokeBorrow(s)
    <2>1. c = <<At("view", s), At("view", Hub), At("prepare", s)>>
      BY DEF prepareSpokeBorrow
    <2>2. At("view", s) \in R /\ At("view", Hub) \in R /\ At("prepare", s) \in R
      BY <1>3, RegularAt DEF Looks, Markets
    <2> HIDE DEF R
    <2>3. /\ c \in Seq(R) /\ DOMAIN c = 1 .. 3 /\ Len(c) = 3
          /\ c[1] = At("view", s) /\ c[2] = At("view", Hub) /\ c[3] = At("prepare", s)
      <3>1. PICK x \in R, y \in R, z \in R : x = At("view", s) /\ y = At("view", Hub) /\ z = At("prepare", s)
        BY <2>2
      <3>2. c = <<x, y, z>>
        BY <2>1, <3>1
      <3> HIDE DEF c
      <3> QED BY <3>1, <3>2, ThreeSteps
    <2> HIDE DEF c
    <2>4. c[1].op = "view" /\ c[2].op = "view" /\ c[2].at = Hub /\ c[3].op = "prepare"
      BY <2>3 DEF At
    <2>5. \A k \in DOMAIN c : c[k].op \in Decisions \cup Closing => k = 3
      BY <2>3, <2>4 DEF Decisions, Closing
    <2>6. Relevant(c[3]) = {Hub} /\ 2 \in 1 .. 3 - 1 /\ "view" \in Looks
      BY <2>4 DEF Relevant, Looks
    <2>7. Ordered(Owes(loan, w), {}, c)
      BY <2>3, <2>4, <2>5, <2>6 DEF Ordered
    <2> QED BY <1>4, <1>6, <2>3, <2>7 DEF c, R
  <1>7. CASE Doing(t, "prepare") /\ job[t].seen = {} /\ Proceed(t, clear_lock(TRUE))
    <2>1. Hub \notin Owes(loan, w)
      <3>1. \A m \in Relevant(Head(job[t].todo)) \cap Owes(loan, w) : m \in job[t].seen
        BY <1>2, <1>7, Regularly
      <3>2. Relevant(Head(job[t].todo)) = {Hub}
        BY <1>1, <1>7, DoingFacts DEF Relevant
      <3> QED BY <3>1, <3>2, <1>7
    <2> QED BY <1>4, <1>7, <2>1, RegularClearLock
  <1> QED BY <1>1, <1>5, <1>6, <1>7

LEMMA EnrichLocks == ASSUME TypeOK, LockInv, NEW t \in Threads, Enrich(t) PROVE LockInv'
  <1> DEFINE w == job[t].wallet
             seen == job[t].seen
             locked == job[t].locked
             ahead == job[t].ahead
             R == RegularSteps(w, loan, Minted)
             owed == Owes(loan, w)
             locks == IF seen # {} /\ Spokes \ (seen \cup locked) # {} THEN sync_wallet_loan_active
                      ELSE IF seen = {} /\ locked # {} THEN broadcast_repaid(w)
                      ELSE <<>>
             repair == repairChainScoreMismatch(w, ahead)
             N(steps) == [IdleJob EXCEPT !.wallet = w, !.score = ahead, !.todo = steps]
  <1>1. JobsOK /\ LocalStep /\ Doing(t, "enrich")
    BY TypeParts DEF Enrich
  <1>2. w \in Wallets /\ ~Idle(t) /\ Head(job[t].todo).op = "enrich" /\ job[t] \in Work
    BY <1>1, DoingFacts, HeadFacts
  <1>3. "enrich" \in Decisions /\ "enrich" \in Closing /\ "enrich" \notin {"vet", "commit"}
    BY DEF Decisions, Closing
  <1>4. seen = owed /\ (w \in Minted \/ ahead = 0)
    <2>1. /\ \A m \in Relevant(Head(job[t].todo)) \cap owed : m \in seen
          /\ seen \subseteq owed
          /\ w \in Minted \/ ahead = 0
      BY <1>1, <1>3, Regularly
    <2>2. Relevant(Head(job[t].todo)) = Markets /\ owed \subseteq Markets
      BY <1>2 DEF Relevant, Owes
    <2> QED BY <2>1, <2>2
  <1>5. ahead \in ScoreData
    BY <1>2 DEF Work
  <1>6. /\ locks \in Seq(R) /\ Ordered(owed, {}, locks) /\ locks \in Seq(Steps)
        /\ \A i \in DOMAIN locks : locks[i].op \notin Closing
    <2>1. /\ sync_wallet_loan_active \in Seq(R) /\ Ordered(owed, {}, sync_wallet_loan_active)
          /\ \A i \in DOMAIN sync_wallet_loan_active : sync_wallet_loan_active[i].op \notin Closing
      <3>1. "read" \in Looks /\ [op |-> "created"].op \in Decisions /\ [op |-> "created"].op \notin Closing
        BY DEF Looks, Decisions, Closing
      <3>2. [op |-> "created"] \in Steps
        BY DEF Steps
      <3>3. sync_wallet_loan_active = OnEveryChain("read") \o <<[op |-> "created"]>>
        BY DEF sync_wallet_loan_active, Op
      <3>4. OnEveryChain("read") \in Seq(R) /\ <<[op |-> "created"]>> \in Seq(R)
        BY <3>1, RegularLooks, RegularNames DEF Op
      <3>5. sync_wallet_loan_active \in Seq(R)
        BY <3>3, <3>4, Bound
      <3> QED BY <3>1, <3>2, <3>3, <3>5, LooksOrdered
    <2>2. seen = {} => /\ broadcast_repaid(w) \in Seq(R) /\ Ordered(owed, {}, broadcast_repaid(w))
                       /\ \A i \in DOMAIN broadcast_repaid(w) : broadcast_repaid(w)[i].op \notin Closing
      <3>1. SUFFICES ASSUME seen = {}
                     PROVE  broadcast_repaid(w) \in Seq(R) /\ broadcast_repaid(w) \in Seq(PlainSteps)
        BY PlainOrdered
      <3>2. ~loan[Hub][w]
        BY <1>4, <3>1 DEF Owes, Markets
      <3> QED BY <1>2, <3>2, FreesSound
    <2>3. <<>> \in Seq(R) /\ Ordered(owed, {}, <<>>) /\ \A i \in DOMAIN <<>> : <<>>[i].op \notin Closing
      BY EmptySeq DEF Ordered
    <2>4. Seq(R) \subseteq Seq(Steps)
      BY RegularAreSteps
    <2> HIDE DEF seen, locked, R, owed
    <2> QED BY <2>1, <2>2, <2>3, <2>4
  <1>7. ahead > 0 => repair \in Seq(R) /\ repair \in Seq(PlainSteps)
    <2>1. SUFFICES ASSUME w \in Minted PROVE repair \in Seq(R) /\ repair \in Seq(PlainSteps)
      BY <1>4
    <2>2. /\ Underwriting(TRUE, Len(SpokeOrder)) \in Seq(R)
          /\ Underwriting(TRUE, Len(SpokeOrder)) \in Seq(PlainSteps)
      BY <2>1, RegularUnderwriting, SpokeOrderType
    <2>3. broadcast_score(w, ahead) \in Seq(R) /\ broadcast_score(w, ahead) \in Seq(PlainSteps)
      BY <1>2, <1>5, <2>1, ScoreSound
    <2> QED BY <2>2, <2>3, Bound DEF repairChainScoreMismatch
  <1>8. \/ Become(t, N(locks))
        \/ ahead > 0 /\ (Become(t, N(repair \o locks)) \/ Become(t, N(locks \o repair)))
    <2>1. \/ Become(t, N(locks))
          \/ /\ ahead > job[t].score /\ job[t].score > 0
             /\ Become(t, N(repair \o locks)) \/ Become(t, N(locks \o repair))
      BY DEF Enrich
    <2>2. ahead \in Nat /\ job[t].score \in Nat
      BY <1>2, OAppAssumption DEF Work
    <2> HIDE DEF N, repair, locks
    <2> QED BY <2>1, <2>2
  <1> HIDE DEF locks, repair
  <1>9. ASSUME NEW steps \in Seq(R), Ordered(owed, {}, steps), Become(t, N(steps)) PROVE LockInv'
    <2>1. /\ N(steps).wallet = w /\ N(steps).todo = steps /\ N(steps).seen = {}
          /\ N(steps).score = ahead /\ N(steps).ahead = 0
      BY DEF IdleJob
    <2> HIDE DEF N
    <2>2. JobOK(N(steps), loan, Minted)
      BY <1>4, <1>9, <2>1, RegularJob
    <2> QED BY <1>1, <1>2, <1>3, <1>9, <2>2, Replace
  <1>10. ASSUME ahead > 0
         PROVE  /\ repair \o locks \in Seq(R) /\ Ordered(owed, {}, repair \o locks)
                /\ locks \o repair \in Seq(R) /\ Ordered(owed, {}, locks \o repair)
    <2>1. repair \in Seq(R) /\ repair \in Seq(PlainSteps)
      BY <1>7, <1>10
    <2>2. /\ Ordered(owed, {}, repair) /\ repair \in Seq(Steps)
          /\ \A i \in DOMAIN repair : repair[i].op \notin Decisions
      BY <2>1, PlainOrdered
    <2> HIDE DEF owed, R
    <2>3. Ordered(owed, {}, repair \o locks)
      BY <1>6, <2>1, OrderedAfterPlain
    <2>4. Ordered(owed, {}, locks \o repair)
      BY <1>6, <2>2, OrderedBefore
    <2> QED BY <1>6, <2>1, <2>3, <2>4, Bound
  <1> HIDE DEF N, R, owed
  <1> QED BY <1>6, <1>8, <1>9, <1>10

(* Underwriting.                                                           *)

LEMMA AfterTwo ==
  ASSUME NEW S, NEW todo \in Seq(S), todo # <<>>, Tail(todo) # <<>>
  PROVE  SubSeq(todo, 3, Len(todo)) = Tail(Tail(todo))
  <1>1. Tail(todo) \in Seq(S) /\ Len(Tail(todo)) = Len(todo) - 1 /\ Len(todo) \in Nat
    BY HeadTailProperties, LenProperties
  <1>2. Len(Tail(todo)) # 0
    BY <1>1, EmptySeq
  <1>3. 2 \in 1 .. Len(todo) /\ Len(todo) \in 2 .. Len(todo) /\ 2 + 1 = 3
    BY <1>1, <1>2
  <1>4. Tail(todo) = SubSeq(todo, 2, Len(todo))
    BY TailIsSubSeq
  <1>5. Tail(SubSeq(todo, 2, Len(todo))) = SubSeq(todo, 2 + 1, Len(todo))
    BY <1>3, HeadTailOfSubSeq
  <1> QED BY <1>3, <1>4, <1>5

\* A vetting or a commit is of a wallet with a profile, or of a new one.
LEMMA UnderwritingHead ==
  ASSUME NEW j, NEW ln, NEW K, JobOK(j, ln, K), j.todo \in Seq(Steps), j.todo # <<>>,
         Head(j.todo).op \in {"vet", "commit"}
  PROVE  /\ j.seen \subseteq Owes(ln, j.wallet)
         /\ \/ /\ Head(j.todo).rescore /\ j.wallet \in K
               /\ Tail(j.todo) \in Seq(RegularSteps(j.wallet, ln, K))
               /\ Ordered(Owes(ln, j.wallet), j.seen, Tail(j.todo))
            \/ /\ ~Head(j.todo).rescore /\ Head(j.todo).op = "commit"
               /\ Committing(j.wallet, j.todo, ln, K)
            \/ /\ ~Head(j.todo).rescore /\ Head(j.todo).op = "vet" /\ Head(j.todo).without = 1
               /\ Committing(j.wallet, Tail(j.todo), ln, K)
  <1>1. j.seen \subseteq Owes(ln, j.wallet) /\ (Regular(j, ln, K) \/ Minting(j, ln, K))
    BY DEF JobOK
  <1>2. ASSUME Regular(j, ln, K)
        PROVE  /\ Head(j.todo).rescore /\ j.wallet \in K
               /\ Tail(j.todo) \in Seq(RegularSteps(j.wallet, ln, K))
               /\ Ordered(Owes(ln, j.wallet), j.seen, Tail(j.todo))
    <2>1. j.todo \in Seq(RegularSteps(j.wallet, ln, K)) /\ Ordered(Owes(ln, j.wallet), j.seen, j.todo)
      BY <1>2 DEF Regular
    <2>2. /\ Head(j.todo) \in RegularSteps(j.wallet, ln, K)
          /\ Tail(j.todo) \in Seq(RegularSteps(j.wallet, ln, K))
      BY <2>1, HeadTailProperties
    <2>3. Head(j.todo).op \notin Looks
      BY DEF Looks
    <2>4. Ordered(Owes(ln, j.wallet), j.seen, Tail(j.todo))
      BY <2>1, <2>3, OrderedTail
    <2> QED BY <2>2, <2>4 DEF RegularSteps
  <1>3. ASSUME Minting(j, ln, K)
        PROVE  \/ /\ ~Head(j.todo).rescore /\ Head(j.todo).op = "commit"
                  /\ Committing(j.wallet, j.todo, ln, K)
               \/ /\ ~Head(j.todo).rescore /\ Head(j.todo).op = "vet" /\ Head(j.todo).without = 1
                  /\ Committing(j.wallet, Tail(j.todo), ln, K)
    BY <1>3, Zenon DEF Minting, Committing
  <1> QED BY <1>1, <1>2, <1>3

LEMMA LaterRegular ==
  ASSUME NEW w, NEW ln, NEW K, NEW K2, K2 = K \cup {w}, NEW todo \in Seq(LaterSends(w, ln, K))
  PROVE  /\ todo \in Seq(RegularSteps(w, ln, K2)) /\ todo \in Seq(PlainSteps)
         /\ todo \in Seq(Steps)
  <1>1. LaterSends(w, ln, K) \subseteq RegularSteps(w, ln, K2)
    BY SendsAreSteps DEF LaterSends, Sends, RegularSteps, Foreign
  <1>2. LaterSends(w, ln, K) \subseteq PlainSteps
    BY SendsAreSteps DEF LaterSends, Sends, PlainSteps, Decisions, Closing
  <1>3. todo \in Seq(PlainSteps)
    BY <1>2, SeqMonotonic
  <1> QED BY <1>1, <1>3, SeqMonotonic, PlainOrdered

LEMMA VetLocks ==
  ASSUME TypeOK, LockInv, Undisturbed, NEW t \in Threads, Vet(t)
  PROVE  LockInv'
  <1> DEFINE w == job[t].wallet
             todo == job[t].todo
             N(steps) == [job[t] EXCEPT !.todo = steps]
  <1>1. JobsOK /\ LocalStep /\ Doing(t, "vet") /\ JobOK(job[t], loan, Minted)
    BY TypeParts DEF Vet, LockInv, JobsSound
  <1>2. /\ w \in Wallets /\ ~Idle(t) /\ Head(todo).op = "vet" /\ job[t] \in Work
        /\ todo \in Seq(Steps) /\ todo # <<>> /\ Rest(t) \in Seq(Steps)
    BY <1>1, DoingFacts, HeadFacts DEF Idle
  <1>3. \/ Continue(t, Rest(t))
        \/ profiles[w].exists /\ ~Head(todo).rescore /\ Continue(t, Refused(todo))
    BY <1>2 DEF Vet, LockInv, NobodyListed, Undisturbed
  <1>4. ASSUME NEW steps PROVE /\ N(steps).wallet = w /\ N(steps).todo = steps /\ N(steps).seen = job[t].seen
                               /\ N(steps).score = job[t].score /\ N(steps).ahead = job[t].ahead
    BY <1>2 DEF Work
  <1>5. \A steps : Continue(t, steps) => Become(t, N(steps))
    BY DEF Continue
  <1> HIDE DEF N
  <1>6. ASSUME NEW steps, Continue(t, steps), JobOK(N(steps), loan, Minted),
               Mail(todo) = Mail(steps), Ops(todo) \subseteq Ops(steps) \cup {"vet", "commit"}
        PROVE  LockInv'
    <2>1. \A v, s : WaitsLock(job[t], v, s) => WaitsLock(N(steps), v, s)
      BY <1>4, <1>6 DEF WaitsLock
    <2>2. \A v : WaitsFlag(job[t], v) => WaitsFlag(N(steps), v)
      BY <1>4, <1>6 DEF WaitsFlag
    <2> QED BY <1>1, <1>5, <1>6, <2>1, <2>2, Advance
  <1>7. Ops(todo) = {"vet"} \cup Ops(Rest(t)) /\ Mail(todo) = Mail(Rest(t))
    BY ZenonT(60), <1>2, TailParts DEF Rest
  <1>8. CASE /\ Head(todo).rescore /\ w \in Minted
             /\ Tail(todo) \in Seq(RegularSteps(w, loan, Minted))
             /\ Ordered(Owes(loan, w), job[t].seen, Tail(todo))
    <2>1. job[t].seen \subseteq Owes(loan, w)
      BY <1>1 DEF JobOK
    <2>2. JobOK(N(Rest(t)), loan, Minted)
      BY <1>4, <1>8, <2>1, RegularJob DEF Rest
    <2> QED BY <1>3, <1>6, <1>7, <1>8, <2>2
  <1>9. CASE /\ ~Head(todo).rescore /\ Head(todo).without = 1
             /\ Committing(w, Tail(todo), loan, Minted)
    <2>1. job[t].seen \subseteq Owes(loan, w)
      BY <1>1 DEF JobOK
    <2>2. CASE Continue(t, Rest(t))
      <3>1. JobOK(N(Rest(t)), loan, Minted)
        BY <1>4, <1>9, <2>1 DEF JobOK, Minting, Rest
      <3> QED BY <1>6, <1>7, <2>2, <3>1
    <2>3. CASE profiles[w].exists /\ Continue(t, Refused(todo))
      <3> DEFINE rest == Tail(todo)
                 later == Tail(rest)
      <3>1. rest # <<>> /\ Head(rest).op = "commit" /\ later \in Seq(LaterSends(w, loan, Minted))
        BY <1>9 DEF Committing
      <3>2. Refused(todo) = later
        <4>1. Refused(todo) = SubSeq(todo, 3, Len(todo))
          BY SMTT(60), <1>9 DEF Refused
        <4>2. todo \in Seq(Steps) /\ todo # <<>> /\ Tail(todo) # <<>>
          BY <1>2, <3>1
        <4> HIDE DEF todo
        <4> QED BY <4>1, <4>2, AfterTwo
      <3>3. Minted = Minted \cup {w}
        BY <1>2, <2>3 DEF Minted
      <3>4. later \in Seq(RegularSteps(w, loan, Minted)) /\ later \in Seq(PlainSteps)
        BY <3>1, <3>3, LaterRegular
      <3>5. JobOK(N(later), loan, Minted)
        BY ZenonT(60), <1>4, <2>1, <3>3, <3>4, PlainOrdered, RegularJob
      <3>6. Ops(rest) = {"commit"} \cup Ops(later) /\ Mail(rest) = Mail(later)
        <4>1. rest \in Seq(Steps)
          BY <1>2 DEF Rest
        <4> HIDE DEF rest
        <4> QED BY <3>1, <4>1, TailParts
      <3> HIDE DEF later
      <3>7. Mail(todo) = Mail(later) /\ Ops(todo) \subseteq Ops(later) \cup {"vet", "commit"}
        BY <1>7, <3>6 DEF Rest
      <3> QED BY <1>6, <2>3, <3>2, <3>5, <3>7
    <2> QED BY <1>3, <2>2, <2>3
  <1> QED BY <1>1, <1>2, <1>8, <1>9, UnderwritingHead

LEMMA CommitLocks == ASSUME TypeOK, LockInv, NEW t \in Threads, Commit(t) PROVE LockInv'
  <1> DEFINE w == job[t].wallet
             sc == job[t].score
             todo == job[t].todo
             n == [job[t] EXCEPT !.todo = Rest(t)]
  <1>1. /\ JobsOK /\ Doing(t, "commit") /\ JobOK(job[t], loan, Minted)
        /\ UNCHANGED <<loan, touched, shunned, crossed, oappVars, failures>>
        /\ Become(t, n)
    BY TypeParts DEF Commit, Continue, LockInv, JobsSound
  <1>2. /\ w \in Wallets /\ ~Idle(t) /\ Head(todo).op = "commit" /\ job[t] \in Work
        /\ todo \in Seq(Steps) /\ todo # <<>> /\ Rest(t) \in Seq(Steps)
    BY <1>1, DoingFacts, HeadFacts DEF Idle
  <1>3. \/ /\ Head(todo).rescore /\ w \in Minted
           /\ Tail(todo) \in Seq(RegularSteps(w, loan, Minted))
           /\ Ordered(Owes(loan, w), job[t].seen, Tail(todo))
        \/ ~Head(todo).rescore /\ Tail(todo) \in Seq(LaterSends(w, loan, Minted))
    BY <1>1, <1>2, UnderwritingHead DEF Committing
  <1>4. \/ /\ ~Head(todo).rescore /\ mintSBT(w, sc)
           /\ unsynced' = [unsynced EXCEPT ![w] = sc]
        \/ /\ Head(todo).rescore /\ updateScore(w, sc)
           /\ unsynced' = [unsynced EXCEPT ![w] = sc]
        \/ /\ Head(todo).rescore \/ profiles[w].exists
           /\ UNCHANGED <<sbtVars, unsynced>>
    BY DEF Commit
  <1>5. n.wallet = w /\ n.todo = Rest(t) /\ n.seen = job[t].seen /\ n.score = sc /\ n.ahead = job[t].ahead
    BY SMTT(60), <1>2 DEF Work
  <1> HIDE DEF n
  <1>6. profiles \in [Wallets -> Profile] /\ blacklisted' = blacklisted
    BY SMTT(60), <1>4 DEF TypeOK, SBTTypeOK, mintSBT, updateScore, sbtVars
  <1>7. ASSUME NEW v \in Wallets, v # w
        PROVE  profiles'[v] = profiles[v] /\ unsynced'[v] = unsynced[v]
    BY <1>2, <1>4, <1>6, <1>7 DEF mintSBT, updateScore, sbtVars, TypeOK
  <1>8. Minted' = Minted \cup {w}
    <2>1. profiles'[w].exists
      <3>1. CASE mintSBT(w, sc)
        BY <1>2, <1>6, <3>1 DEF mintSBT, FreshProfile
      <3>2. CASE updateScore(w, sc)
        BY <1>2, <1>6, <3>2 DEF updateScore, Profile
      <3>3. CASE (Head(todo).rescore \/ profiles[w].exists) /\ UNCHANGED sbtVars
        BY <1>2, <1>3, <3>3 DEF sbtVars, Minted
      <3> QED BY <1>4, <3>1, <3>2, <3>3
    <2> QED BY <1>2, <1>7, <2>1 DEF Minted
  <1>9. ASSUME NEW v \in Wallets, Owes(loan, v) \cap Spokes # {}, Flagged(v)
        PROVE  Flagged(v)'
    <2>1. CASE v # w
      BY <1>7, <1>9, <2>1 DEF Flagged
    <2>2. CASE v = w
      <3>1. profiles[w].exists
        BY <1>2, <1>9, <2>2 DEF LockInv, NewcomersBlank, Minted
      <3>2. CASE updateScore(w, sc)
        BY <1>2, <1>6, <1>9, <2>2, <3>2 DEF updateScore, Flagged, Profile
      <3>3. CASE UNCHANGED sbtVars
        BY <1>9, <3>3 DEF sbtVars, Flagged
      <3> QED BY <1>4, <3>1, <3>2, <3>3 DEF mintSBT
    <2> QED BY <2>1, <2>2
  <1>10. PICK ln, K, K2 : ln = loan /\ K = Minted /\ K2 = Minted'
    OBVIOUS
  <1>11. loan' = ln /\ K2 = K \cup {w} /\ UNCHANGED oappVars
    BY <1>1, <1>8, <1>10
  <1>12. JobOK(n, ln, K2)
    <2>1. job[t].seen \subseteq Owes(ln, w)
      BY <1>1, <1>10 DEF JobOK
    <2>2. CASE /\ Tail(todo) \in Seq(RegularSteps(w, ln, K))
               /\ Ordered(Owes(ln, w), job[t].seen, Tail(todo))
      <3>1. RegularSteps(w, ln, K) \subseteq RegularSteps(w, ln, K2)
        BY <1>11 DEF RegularSteps, MessageOK
      <3>2. Tail(todo) \in Seq(RegularSteps(w, ln, K2))
        BY <2>2, <3>1, SeqMonotonic
      <3> QED BY <1>5, <1>11, <2>1, <2>2, <3>2, RegularJob DEF Rest
    <2>3. CASE Tail(todo) \in Seq(LaterSends(w, ln, K))
      <3>1. Tail(todo) \in Seq(RegularSteps(w, ln, K2)) /\ Tail(todo) \in Seq(PlainSteps)
        BY <1>11, <2>3, LaterRegular
      <3>2. Ordered(Owes(ln, w), job[t].seen, Tail(todo))
        BY <3>1, PlainOrdered
      <3> QED BY <1>5, <1>11, <2>1, <3>1, <3>2, RegularJob DEF Rest
    <2> QED BY <1>3, <1>10, <2>2, <2>3
  <1>13. JobsSound'
    <2>1. JobOK(n, loan', Minted') /\ Minted \subseteq Minted' /\ loan' = loan
      BY <1>10, <1>11, <1>12
    <2> QED BY <1>1, <2>1, JobsAdvance DEF LockInv
  <1>14. Ops(todo) = {"commit"} \cup Ops(Rest(t)) /\ Mail(todo) = Mail(Rest(t))
    BY ZenonT(60), <1>2, TailParts DEF Rest
  <1>15. HubLocked'
    <2>1. \A v, s : WaitsLock(job[t], v, s) => WaitsLock(n, v, s)
      BY <1>5, <1>14 DEF WaitsLock
    <2>2. \A v \in Wallets, s \in Spokes : Sent(v, s)' = Sent(v, s)
      BY <1>1 DEF Sent, oappVars
    <2> QED BY <1>1, <2>1, <2>2, LocksAdvance DEF LockInv
  <1>16. SpokeFlagged'
    <2>1. \A v : WaitsFlag(job[t], v) => WaitsFlag(n, v)
      BY <1>5, <1>14 DEF WaitsFlag
    <2> QED BY <1>1, <1>9, <2>1, FlagsAdvance DEF LockInv
  <1>17. NewcomersBlank'
    BY <1>1, <1>7, <1>8 DEF LockInv, NewcomersBlank, oappVars
  <1>18. MailSound'
    <2>1. \A m : MessageOK(m, ln, K) => MessageOK(m, ln, K2)
      BY <1>11, MoreProfiles
    <2>2. inFlight' = inFlight
      BY <1>1 DEF oappVars
    <2> QED BY <1>10, <1>11, <2>1, <2>2 DEF LockInv, MailSound
  <1>19. NobodyListed' /\ HubExclusive'
    BY <1>1, <1>6 DEF LockInv, NobodyListed, HubExclusive, Holds
  <1> QED BY <1>13, <1>15, <1>16, <1>17, <1>18, <1>19 DEF LockInv

(* The hourly batch.                                                       *)

LEMMA ScansLocks ==
  ASSUME TypeOK, LockInv, NEW t \in Threads, ScanScores(t) \/ ScanLoans(t)
  PROVE  LockInv'
  <1> DEFINE v == job[t].wallet
             R == RegularSteps(v, loan, Minted)
             owed == Owes(loan, v)
             N(steps) == [job[t] EXCEPT !.todo = steps]
             fresh == {w \in Wallets : unsynced[w] # 0}
             active == {w \in touched : loan[Hub][w]}
             scores == Concat([w \in fresh |-> broadcast_score(w, unsynced[w])])
             save == IF fresh = {} THEN <<>> ELSE Op("save_sync_block")
             locks == Concat([w \in active |-> broadcast_loan_active(w)])
             frees == Concat([w \in touched \ active |-> broadcast_repaid(w)])
  <1>1. /\ JobsOK /\ LocalStep
        /\ \/ Doing(t, "scan_scores") /\ Continue(t, scores \o save \o Op("scan_loans"))
           \/ Doing(t, "scan_loans") /\ Continue(t, locks \o frees)
    BY TypeParts DEF ScanScores, ScanLoans
  <1>2. /\ ~Idle(t) /\ Head(job[t].todo).op \in {"scan_scores", "scan_loans"} /\ job[t] \in Work
        /\ v \in Minted \/ (job[t].score = 0 /\ job[t].ahead = 0)
        /\ job[t].seen \subseteq owed
    <2>1. ASSUME NEW name \in {"scan_scores", "scan_loans"}, Doing(t, name)
          PROVE  /\ ~Idle(t) /\ Head(job[t].todo).op = name
                 /\ v \in Minted \/ (job[t].score = 0 /\ job[t].ahead = 0)
                 /\ job[t].seen \subseteq owed
      BY <2>1, Regularly
    <2> QED BY <1>1, <2>1, HeadFacts
  <1>3. touched \subseteq Wallets /\ IsFiniteSet(Wallets)
    BY CrossChainAssumption DEF TypeOK
  <1>4. ASSUME NEW W \in SUBSET Wallets, NEW lists, DOMAIN lists = W,
               \A w \in W : lists[w] \in Seq(R) /\ lists[w] \in Seq(PlainSteps)
        PROVE  Concat(lists) \in Seq(R) /\ Concat(lists) \in Seq(PlainSteps)
    <2>1. IsFiniteSet(DOMAIN lists)
      BY <1>3, <1>4, FS_Subset
    <2> QED BY <1>4, <2>1, ConcatType
  <1>5. scores \in Seq(R) /\ scores \in Seq(PlainSteps)
    <2>1. ASSUME NEW w \in fresh
          PROVE  broadcast_score(w, unsynced[w]) \in Seq(R) /\ broadcast_score(w, unsynced[w]) \in Seq(PlainSteps)
      <3>1. unsynced[w] \in ScoreData /\ w \in Minted
        BY DEF TypeOK, LockInv, NewcomersBlank
      <3> QED BY <3>1, ScoreSound
    <2> HIDE DEF R
    <2> QED BY <2>1, <1>4
  <1>6. locks \in Seq(R) /\ locks \in Seq(PlainSteps)
    <2>1. ASSUME NEW w \in active
          PROVE  broadcast_loan_active(w) \in Seq(R) /\ broadcast_loan_active(w) \in Seq(PlainSteps)
      BY <1>3, LocksSound
    <2>2. active \in SUBSET Wallets
      BY <1>3
    <2> HIDE DEF R, active
    <2> QED BY <2>1, <2>2, <1>4
  <1>7. frees \in Seq(R) /\ frees \in Seq(PlainSteps)
    <2>1. ASSUME NEW w \in touched \ active
          PROVE  broadcast_repaid(w) \in Seq(R) /\ broadcast_repaid(w) \in Seq(PlainSteps)
      <3>1. w \in Wallets /\ ~loan[Hub][w]
        BY <1>3
      <3> QED BY <3>1, FreesSound
    <2>2. touched \ active \in SUBSET Wallets
      BY <1>3
    <2> HIDE DEF R, active
    <2> QED BY <2>1, <2>2, <1>4
  <1>8. save \in Seq(R) /\ save \in Seq(PlainSteps)
    BY RegularNames, PlainNamed, EmptySeq
  <1>9. /\ Op("scan_loans") \in Seq(R) /\ Op("scan_loans") \in Seq(Steps)
        /\ Ordered(owed, job[t].seen, Op("scan_loans"))
    <2>1. Op("scan_loans") \in Seq(R)
      BY RegularNames
    <2>2. DOMAIN Op("scan_loans") = {1} /\ Op("scan_loans")[1].op = "scan_loans" /\ Len(Op("scan_loans")) = 1
      BY DEF Op
    <2>3. Ordered(owed, job[t].seen, Op("scan_loans"))
      BY <2>2 DEF Ordered, Decisions
    <2> QED BY <2>1, <2>3, RegularAreSteps
  <1> HIDE DEF scores, save, locks, frees, R, owed
  <1>10. ASSUME NEW steps \in Seq(R), Ordered(owed, job[t].seen, steps), Continue(t, steps)
         PROVE  LockInv'
    <2>1. /\ N(steps).wallet = v /\ N(steps).todo = steps /\ N(steps).seen = job[t].seen
          /\ N(steps).score = job[t].score /\ N(steps).ahead = job[t].ahead
      BY <1>2 DEF Work
    <2>2. Become(t, N(steps))
      BY <1>10 DEF Continue
    <2> HIDE DEF N
    <2>3. JobOK(N(steps), loan, Minted)
      BY <1>2, <1>10, <2>1, RegularJob DEF R, owed
    <2> QED BY <1>1, <1>2, <2>2, <2>3, Replace DEF Closing
  <1>11. CASE Continue(t, scores \o save \o Op("scan_loans"))
    <2> DEFINE plain == scores \o save
    <2>1. plain \in Seq(R) /\ plain \in Seq(PlainSteps)
      BY <1>5, <1>8, Bound
    <2> HIDE DEF plain
    <2>2. plain \o Op("scan_loans") \in Seq(R) /\ Ordered(owed, job[t].seen, plain \o Op("scan_loans"))
      BY <1>9, <2>1, Bound, OrderedAfterPlain
    <2> QED BY <1>10, <1>11, <2>2 DEF plain
  <1>12. CASE Continue(t, locks \o frees)
    <2>1. locks \o frees \in Seq(R) /\ locks \o frees \in Seq(PlainSteps)
      BY <1>6, <1>7, Bound
    <2>2. Ordered(owed, job[t].seen, locks \o frees)
      BY <2>1, PlainOrdered
    <2> QED BY <1>10, <1>12, <2>1, <2>2
  <1> QED BY <1>1, <1>11, <1>12

(* Transactions.                                                           *)

LEMMA NothingForeign ==
  ASSUME TypeOK, LockInv, NEW t \in Threads, NEW name \in Foreign
  PROVE  ~Doing(t, name)
  <1> SUFFICES ASSUME Doing(t, name) PROVE FALSE
    OBVIOUS
  <1>1. name \notin {"vet", "commit"}
    BY DEF Foreign
  <1>2. /\ Head(job[t].todo).op = name
        /\ Head(job[t].todo) \in RegularSteps(job[t].wallet, loan, Minted)
    BY <1>1, Regularly
  <1> QED BY <1>2 DEF RegularSteps

\* A transaction is done, and the list goes on.
LEMMA ListAdvance ==
  ASSUME TypeOK, LockInv, NEW t \in Threads, NEW name, Doing(t, name),
         name \notin Looks \cup {"vet", "commit", "created", "ensure"},
         Continue(t, Rest(t)), loan' = loan, Minted' = Minted,
         \A v \in Wallets, s \in Spokes : Sent(v, s) => Sent(v, s)',
         name = "send" => \A v \in Wallets, s \in Spokes :
           Head(job[t].todo).msg = LockMessage(v, s) => Sent(v, s)',
         \A v \in Wallets : Owes(loan, v) \cap Spokes # {} /\ Flagged(v) => Flagged(v)',
         name = "set_active" => \A v \in Wallets : job[t].wallet = v => Flagged(v)'
  PROVE  JobsSound' /\ HubLocked' /\ SpokeFlagged' /\ HubExclusive'
  <1> DEFINE w == job[t].wallet
             n == [job[t] EXCEPT !.todo = Rest(t)]
  <1>1. JobsOK /\ Become(t, n)
    BY TypeParts DEF Continue
  <1>2. /\ ~Idle(t) /\ Head(job[t].todo).op = name
        /\ Rest(t) \in Seq(RegularSteps(w, loan, Minted))
        /\ Ordered(Owes(loan, w), job[t].seen, Rest(t))
        /\ w \in Minted \/ (job[t].score = 0 /\ job[t].ahead = 0)
        /\ job[t].seen \subseteq Owes(loan, w)
    BY <1>1, Regularly
  <1>3. job[t] \in Work /\ job[t].todo \in Seq(Steps) /\ job[t].todo # <<>>
    BY <1>1, <1>2, HeadFacts DEF Idle
  <1>4. /\ n.wallet = w /\ n.todo = Rest(t) /\ n.seen = job[t].seen
        /\ n.score = job[t].score /\ n.ahead = job[t].ahead
    BY <1>3 DEF Work
  <1> HIDE DEF n
  <1>5. JobOK(n, loan, Minted)
    BY <1>2, <1>4, RegularJob
  <1>6. /\ Ops(job[t].todo) = {name} \cup Ops(Rest(t))
        /\ Mail(job[t].todo) = Mail(Rest(t)) \cup (IF name = "send" THEN {Head(job[t].todo).msg} ELSE {})
    BY <1>2, <1>3, TailParts DEF Rest
  <1>7. JobsSound'
    BY <1>1, <1>5, JobsAdvance DEF LockInv
  <1>8. HubLocked'
    <2>1. ASSUME NEW v \in Wallets, NEW s \in Spokes, WaitsLock(job[t], v, s)
          PROVE  WaitsLock(n, v, s) \/ Sent(v, s)'
      <3>1. CASE LockMessage(v, s) \in Mail(job[t].todo)
        BY <1>4, <1>6, <3>1 DEF WaitsLock
      <3>2. CASE w = v /\ "created" \in Ops(job[t].todo)
        BY <1>4, <1>6, <3>2 DEF WaitsLock
      <3> QED BY <2>1, <3>1, <3>2 DEF WaitsLock
    <2> QED BY <1>1, <2>1, LocksAdvance DEF LockInv
  <1>9. SpokeFlagged'
    <2>1. ASSUME NEW v \in Wallets, WaitsFlag(job[t], v) PROVE WaitsFlag(n, v) \/ Flagged(v)'
      BY <1>4, <1>6, <2>1 DEF WaitsFlag
    <2> QED BY <1>1, <2>1, FlagsAdvance DEF LockInv
  <1>10. HubExclusive'
    BY DEF LockInv, HubExclusive, Holds
  <1> QED BY <1>7, <1>8, <1>9, <1>10

LEMMA SaveSyncBlockLocks ==
  ASSUME TypeOK, LockInv, NEW t \in Threads, SaveSyncBlock(t)
  PROVE  LockInv'
  <1>1. /\ Doing(t, "save_sync_block") /\ unsynced' = [w \in Wallets |-> 0] /\ Continue(t, Rest(t))
        /\ UNCHANGED <<profiles, blacklisted, loan, spokeScores, loanActiveMirror, inFlight>>
    BY DEF SaveSyncBlock, sbtVars, oappVars
  <1>2. Minted' = Minted
    BY <1>1 DEF Minted
  <1>3. "save_sync_block" \notin Looks \cup {"vet", "commit", "created", "ensure", "send", "set_active"}
    BY DEF Looks
  <1>4. (\A v \in Wallets, s \in Spokes : Sent(v, s) => Sent(v, s)')
        /\ \A v \in Wallets : Flagged(v) => Flagged(v)'
    BY <1>1 DEF Sent, Flagged
  <1>5. JobsSound' /\ HubLocked' /\ SpokeFlagged' /\ HubExclusive'
    BY <1>1, <1>2, <1>3, <1>4, ListAdvance
  <1>6. NobodyListed' /\ MailSound' /\ NewcomersBlank'
    BY <1>1, <1>2 DEF LockInv, NobodyListed, MailSound, NewcomersBlank
  <1> QED BY <1>5, <1>6 DEF LockInv

LEMMA WriteFlagLocks ==
  ASSUME TypeOK, LockInv, NEW t \in Threads, WriteFlag(t)
  PROVE  LockInv'
  <1> DEFINE w == job[t].wallet
  <1>1. /\ JobsOK /\ Continue(t, Rest(t))
        /\ \/ Doing(t, "set_active") /\ setLoanActive(w)
           \/ Doing(t, "set_repaid") /\ setLoanRepaid(w)
        /\ UNCHANGED <<loan, unsynced, spokeScores, loanActiveMirror, inFlight>>
    BY TypeParts DEF WriteFlag, oappVars
  <1>2. w \in Wallets
    BY <1>1, DoingFacts
  <1>3. profiles \in [Wallets -> Profile] /\ blacklisted' = blacklisted
    BY <1>1 DEF TypeOK, SBTTypeOK, setLoanActive, setLoanRepaid
  <1>4. ASSUME NEW v \in Wallets
        PROVE  /\ profiles'[v].exists = profiles[v].exists /\ profiles'[v].score = profiles[v].score
               /\ v # w => profiles'[v] = profiles[v]
    <2>1. CASE setLoanActive(w)
      BY <1>2, <1>3, <2>1 DEF setLoanActive, Profile
    <2>2. CASE setLoanRepaid(w)
      BY <1>2, <1>3, <2>2 DEF setLoanRepaid, Profile
    <2> QED BY SMTT(60), <1>1, <2>1, <2>2
  <1>5. Minted' = Minted
    BY <1>4 DEF Minted
  <1>6. /\ setLoanActive(w) => profiles'[w].loanActive
        /\ Doing(t, "set_repaid") => Owes(loan, w) = {}
    <2>1. setLoanActive(w) => profiles'[w].loanActive
      BY <1>2, <1>3 DEF setLoanActive, Profile
    <2>2. ASSUME Doing(t, "set_repaid") PROVE Owes(loan, w) = {}
      <3>1. /\ Head(job[t].todo).op = "set_repaid"
            /\ Head(job[t].todo) \in RegularSteps(w, loan, Minted)
        BY <2>2, Regularly
      <3> QED BY <3>1 DEF RegularSteps
    <2> QED BY <2>1, <2>2
  <1>7. (\A v \in Wallets, s \in Spokes : Sent(v, s) => Sent(v, s)')
        /\ \A v \in Wallets : Owes(loan, v) \cap Spokes # {} /\ Flagged(v) => Flagged(v)'
    <2>1. \A v \in Wallets, s \in Spokes : Sent(v, s) => Sent(v, s)'
      BY <1>1 DEF Sent
    <2>2. ASSUME NEW v \in Wallets, Owes(loan, v) \cap Spokes # {}, Flagged(v) PROVE Flagged(v)'
      <3>1. CASE v # w
        BY <1>4, <2>2, <3>1 DEF Flagged
      <3>2. CASE v = w
        BY <1>1, <1>6, <2>2, <3>2 DEF Flagged
      <3> QED BY <3>1, <3>2
    <2> QED BY <2>1, <2>2
  <1>8. JobsSound' /\ HubLocked' /\ SpokeFlagged' /\ HubExclusive'
    <2>1. CASE Doing(t, "set_active") /\ setLoanActive(w)
      <3>1. "set_active" \notin Looks \cup {"vet", "commit", "created", "ensure", "send"}
        BY DEF Looks
      <3>2. \A v \in Wallets : w = v => Flagged(v)'
        BY <1>6, <2>1 DEF Flagged
      <3> QED BY <1>1, <1>5, <1>7, <2>1, <3>1, <3>2, ListAdvance
    <2>2. CASE Doing(t, "set_repaid")
      <3>1. "set_repaid" \notin Looks \cup {"vet", "commit", "created", "ensure", "send", "set_active"}
        BY DEF Looks
      <3> QED BY <1>1, <1>5, <1>7, <2>2, <3>1, ListAdvance
    <2> QED BY <1>1, <2>1, <2>2
  <1>9. NobodyListed' /\ MailSound' /\ NewcomersBlank'
    BY <1>1, <1>3, <1>4, <1>5 DEF LockInv, NobodyListed, MailSound, NewcomersBlank
  <1> QED BY <1>8, <1>9 DEF LockInv

LEMMA SendMessageLocks ==
  ASSUME TypeOK, LockInv, NEW t \in Threads, SendMessage(t)
  PROVE  LockInv'
  <1> DEFINE m == Head(job[t].todo).msg
  <1>1. /\ JobsOK /\ Doing(t, "send") /\ Continue(t, Rest(t)) /\ lzSend(m)
        /\ UNCHANGED <<profiles, blacklisted, loan, unsynced, spokeScores, loanActiveMirror>>
    BY TypeParts DEF SendMessage, chainVars, sbtVars, lzSend
  <1>2. "send" \notin Looks \cup {"vet", "commit", "created", "ensure", "set_active"}
    BY DEF Looks
  <1>3. /\ ~Idle(t) /\ Head(job[t].todo).op = "send"
        /\ Head(job[t].todo) \in RegularSteps(job[t].wallet, loan, Minted)
    BY <1>1, <1>2, Regularly
  <1>4. m \in Messages /\ MessageOK(m, loan, Minted)
    BY <1>3 DEF RegularSteps, Steps, BatchSteps
  <1>5. inFlight \in [Messages -> 0 .. MaxCopies] /\ inFlight' = [inFlight EXCEPT ![m] = @ + 1]
    BY <1>1 DEF TypeOK, OAppTypeOK, lzSend
  <1> HIDE DEF m
  <1>6. /\ inFlight'[m] > 0
        /\ \A x \in Messages : inFlight[x] > 0 => inFlight'[x] > 0
        /\ \A x \in Messages : x # m => inFlight'[x] = inFlight[x]
    BY <1>4, <1>5, OAppAssumption
  <1>7. Minted' = Minted
    BY <1>1 DEF Minted
  <1>8. ASSUME NEW v \in Wallets, NEW s \in Spokes
        PROVE  /\ Sent(v, s) => Sent(v, s)'
               /\ m = LockMessage(v, s) => Sent(v, s)'
    <2>1. LockMessage(v, s) \in Messages
      BY AMessage DEF LockMessage, MessageTypes, Payload
    <2>2. LockMessage(v, s)' = LockMessage(v, s)
      BY DEF LockMessage
    <2> QED BY <1>1, <1>6, <2>1, <2>2 DEF Sent
  <1>9. \A v \in Wallets : Flagged(v) => Flagged(v)'
    BY <1>1 DEF Flagged
  <1>10. JobsSound' /\ HubLocked' /\ SpokeFlagged' /\ HubExclusive'
    BY <1>1, <1>2, <1>7, <1>8, <1>9, ListAdvance DEF m
  <1>11. NobodyListed' /\ NewcomersBlank'
    BY <1>1, <1>7 DEF LockInv, NobodyListed, NewcomersBlank
  <1>12. MailSound'
    BY <1>1, <1>4, <1>6, <1>7 DEF LockInv, MailSound
  <1> QED BY <1>10, <1>11, <1>12 DEF LockInv

(* Requests that only start a thread.                                      *)

LEMMA TwoBefore ==
  ASSUME NEW S, NEW x \in S, NEW y \in S, NEW b \in Seq(S)
  PROVE  /\ <<x, y>> \o b \in Seq(S) /\ <<x, y>> \o b # <<>>
         /\ Head(<<x, y>> \o b) = x /\ Tail(<<x, y>> \o b) # <<>>
         /\ Head(Tail(<<x, y>> \o b)) = y /\ Tail(Tail(<<x, y>> \o b)) = b
  <1> DEFINE c == <<x, y>> \o b
  <1>1. <<x, y>> \in Seq(S) /\ Len(<<x, y>>) = 2 /\ <<x, y>>[1] = x /\ <<x, y>>[2] = y
    BY TwoSteps
  <1>2. Len(b) \in Nat
    BY LenProperties
  <1>3. /\ c \in Seq(S) /\ Len(c) = 2 + Len(b)
        /\ \A i \in 1 .. 2 + Len(b) : c[i] = IF i <= 2 THEN <<x, y>>[i] ELSE b[i - 2]
    BY <1>1, ConcatProperties
  <1>4. c[1] = x /\ c[2] = y /\ \A i \in 1 .. Len(b) : c[i + 2] = b[i]
    <2>1. c[1] = x /\ c[2] = y
      BY <1>1, <1>2, <1>3
    <2>2. ASSUME NEW i \in 1 .. Len(b) PROVE c[i + 2] = b[i]
      <3>1. i + 2 \in 1 .. 2 + Len(b) /\ ~(i + 2 <= 2) /\ (i + 2) - 2 = i
        BY <1>2
      <3> QED BY <1>3, <3>1
    <2> QED BY <2>1, <2>2
  <1> HIDE DEF c
  <1>5. c # <<>>
    BY SMTT(60), <1>2, <1>3, EmptySeq
  <1>6. /\ Tail(c) \in Seq(S) /\ Len(Tail(c)) = 1 + Len(b)
        /\ \A i \in 1 .. 1 + Len(b) : Tail(c)[i] = c[i + 1]
        /\ Head(c) = c[1]
    <2>1. /\ Tail(c) \in Seq(S) /\ Len(Tail(c)) = Len(c) - 1
          /\ \A i \in 1 .. Len(Tail(c)) : Tail(c)[i] = c[i + 1]
      BY <1>3, <1>5, HeadTailProperties
    <2>2. Len(Tail(c)) = 1 + Len(b)
      BY <1>2, <1>3, <2>1
    <2>3. Head(c) = c[1]
      BY <1>3, <1>5
    <2> QED BY <2>1, <2>2, <2>3
  <1>7. Tail(c) # <<>> /\ Head(Tail(c)) = y
    <2>1. Tail(c) # <<>>
      BY <1>2, <1>6, EmptySeq
    <2>2. Tail(c)[1] = y
      BY <1>2, <1>4, <1>6
    <2>3. Head(Tail(c)) = Tail(c)[1]
      <3> DEFINE d == Tail(c)
      <3>1. d \in Seq(S) /\ d # <<>>
        BY <1>6, <2>1
      <3> HIDE DEF d
      <3>2. Head(d) = d[1]
        BY <3>1
      <3> QED BY <3>2 DEF d
    <2> QED BY <2>1, <2>2, <2>3
  <1>8. Tail(Tail(c)) = b
    <2> DEFINE d == Tail(Tail(c))
    <2>1. /\ d \in Seq(S) /\ Len(d) = Len(Tail(c)) - 1
          /\ \A i \in 1 .. Len(d) : d[i] = Tail(c)[i + 1]
      BY <1>6, <1>7, HeadTailProperties
    <2> HIDE DEF d
    <2>2. Len(d) = Len(b)
      BY <1>2, <1>6, <2>1
    <2>3. ASSUME NEW i \in 1 .. Len(b) PROVE d[i] = b[i]
      <3>1. i + 1 \in 1 .. 1 + Len(b) /\ (i + 1) + 1 = i + 2
        BY <1>2
      <3>2. d[i] = Tail(c)[i + 1]
        BY <2>1, <2>2
      <3>3. Tail(c)[i + 1] = c[(i + 1) + 1]
        BY <1>6, <3>1
      <3> QED BY <1>4, <3>1, <3>2, <3>3
    <2>4. d = b
      BY <2>1, <2>2, <2>3, SeqEqual
    <2> QED BY <2>4 DEF d
  <1> QED BY <1>3, <1>4, <1>5, <1>6, <1>7, <1>8 DEF c

NewJob(w, sc, steps) == [IdleJob EXCEPT !.wallet = w, !.score = sc, !.todo = steps]

LEMMA NewJobFields ==
  ASSUME NEW w, NEW sc, NEW steps
  PROVE  /\ NewJob(w, sc, steps).wallet = w /\ NewJob(w, sc, steps).score = sc
         /\ NewJob(w, sc, steps).ahead = 0 /\ NewJob(w, sc, steps).seen = {}
         /\ NewJob(w, sc, steps).todo = steps
  BY DEF NewJob, IdleJob

LEMMA StartLocks ==
  ASSUME TypeOK, LockInv, NEW t \in Threads, NEW w, NEW sc, NEW steps, steps # <<>>,
         Call(t, w, sc, steps), UNCHANGED <<chainVars, oappVars, failures>>,
         JobOK(NewJob(w, sc, steps), loan, Minted)
  PROVE  LockInv'
  <1> DEFINE n == NewJob(w, sc, steps)
  <1>1. Become(t, n) /\ LocalStep /\ job[t].todo = <<>>
    BY NewJobFields DEF Call, Become, NewJob, LocalStep, Idle
  <1>2. /\ \A v, s : ~WaitsLock(job[t], v, s)
        /\ \A v : ~WaitsFlag(job[t], v)
    BY <1>1, NoSteps DEF WaitsLock, WaitsFlag
  <1> HIDE DEF n
  <1> QED BY <1>1, <1>2, Advance DEF n

LEMMA RegularStart ==
  ASSUME TypeOK, LockInv, NEW t \in Threads, NEW w, NEW sc, NEW steps, steps # <<>>,
         Call(t, w, sc, steps), UNCHANGED <<chainVars, oappVars, failures>>,
         steps \in Seq(RegularSteps(w, loan, Minted)), Ordered(Owes(loan, w), {}, steps),
         w \in Minted \/ sc = 0
  PROVE  LockInv'
  <1> DEFINE n == NewJob(w, sc, steps)
  <1>1. n.wallet = w /\ n.score = sc /\ n.ahead = 0 /\ n.seen = {} /\ n.todo = steps
    BY NewJobFields
  <1> HIDE DEF n
  <1>2. JobOK(n, loan, Minted)
    BY <1>1, RegularJob
  <1> QED BY <1>2, StartLocks DEF n

LEMMA ScoreRunLocks ==
  ASSUME TypeOK, LockInv, NEW t \in Threads, NEW w \in Wallets, NEW sc \in Scores, ScoreRun(w, sc, t)
  PROVE  LockInv'
  <1> DEFINE R == RegularSteps(w, loan, Minted)
             scores == broadcast_score(w, sc)
             b == profiles[w].exists
  <1>1. /\ Call(t, w, sc, underwrite_wallet(b) \o scores)
        /\ UNCHANGED <<chainVars, oappVars, failures>> /\ sc \in ScoreData /\ b \in BOOLEAN
    BY ScoresNat DEF ScoreRun, TypeOK, SBTTypeOK, Profile
  <1>2. CASE b = TRUE
    <2>1. w \in Minted
      BY <1>2 DEF Minted
    <2>2. Underwriting(TRUE, 0) \in Seq(R) /\ Underwriting(TRUE, 0) \in Seq(PlainSteps)
          /\ Underwriting(TRUE, 0) # <<>>
      BY <2>1, RegularUnderwriting DEF Underwriting
    <2>3. scores \in Seq(R) /\ scores \in Seq(PlainSteps)
      BY <1>1, <2>1, ScoreSound
    <2> HIDE DEF scores, R
    <2>4. /\ Underwriting(TRUE, 0) \o scores \in Seq(R)
          /\ Underwriting(TRUE, 0) \o scores \in Seq(PlainSteps)
          /\ Underwriting(TRUE, 0) \o scores # <<>>
      BY <2>2, <2>3, Bound, LongerThanNothing
    <2>5. Ordered(Owes(loan, w), {}, Underwriting(TRUE, 0) \o scores)
      BY <2>4, PlainOrdered
    <2>6. Call(t, w, sc, Underwriting(TRUE, 0) \o scores)
      BY <1>1, <1>2 DEF underwrite_wallet
    <2> QED BY <1>1, <2>1, <2>4, <2>5, <2>6, RegularStart DEF R
  <1>3. CASE b = FALSE
    <2> DEFINE x == [op |-> "vet", rescore |-> FALSE, without |-> 1 + 0]
               y == [op |-> "commit", rescore |-> FALSE, without |-> 0]
               todo == <<x, y>> \o scores
               n == NewJob(w, sc, todo)
    <2>1. Call(t, w, sc, todo)
      BY <1>1, <1>3 DEF underwrite_wallet, Underwriting
    <2>2. scores \in Seq(LaterSends(w, loan, Minted))
      <3>1. PICK K : K = Minted \cup {w}
        OBVIOUS
      <3>2. scores \in Seq({step \in Sends : MessageOK(step.msg, loan, K)})
        BY <1>1, <3>1, ScoreSound
      <3> QED BY <3>1, <3>2 DEF LaterSends
    <2>3. scores \in Seq(Steps) /\ x \in Steps /\ y \in Steps
      BY <1>1, ScoreBroadcast, StepsSeq DEF Steps
    <2> HIDE DEF scores
    <2>4. /\ todo # <<>> /\ Head(todo) = x /\ Tail(todo) # <<>>
          /\ Head(Tail(todo)) = y /\ Tail(Tail(todo)) = scores
      <3> HIDE DEF x, y
      <3> QED BY SMTT(60), <2>3, TwoBefore
    <2>5. /\ x.op = "vet" /\ ~x.rescore /\ x.without = 1
          /\ y.op = "commit" /\ ~y.rescore
      OBVIOUS
    <2> HIDE DEF todo, x, y
    <2>6. Committing(w, Tail(todo), loan, Minted)
      BY <2>2, <2>4, <2>5 DEF Committing
    <2>7. n.wallet = w /\ n.todo = todo /\ n.seen = {}
      BY NewJobFields
    <2> HIDE DEF n
    <2>8. JobOK(n, loan, Minted)
      BY <2>4, <2>5, <2>6, <2>7 DEF JobOK, Minting
    <2> QED BY <1>1, <2>1, <2>4, <2>8, StartLocks DEF n
  <1> QED BY <1>1, <1>2, <1>3

LEMMA LooksLocks ==
  ASSUME TypeOK, LockInv, NEW t \in Threads, NEW w \in Wallets,
         ViewLoans(w, t) \/ \E s \in Spokes : ClearLzLock(s, w, t)
  PROVE  LockInv'
  <1> DEFINE R == RegularSteps(w, loan, Minted)
  <1>1. OnEveryChain("view") \in Seq(R) /\ "view" \in Looks
    BY RegularLooks DEF Looks
  <1>2. CASE ViewLoans(w, t)
    <2> DEFINE step == [op |-> "enrich"]
    <2>1. step \in Steps /\ step.op \in Decisions
      BY DEF Steps, Decisions
    <2>2. <<step>> \in Seq(R)
      BY RegularNames DEF Op
    <2>3. view_loans = OnEveryChain("view") \o <<step>>
      BY DEF view_loans, Op
    <2> HIDE DEF step, R
    <2>4. view_loans \in Seq(R) /\ Ordered(Owes(loan, w), {}, view_loans)
      BY <1>1, <2>1, <2>2, <2>3, Bound, LooksOrdered
    <2> QED BY <1>2, <2>4, ReadsNotEmpty, RegularStart DEF ViewLoans, R
  <1>3. ASSUME NEW s \in Spokes, ClearLzLock(s, w, t) PROVE LockInv'
    <2> DEFINE step == At("lock_kind", s)
    <2>1. step \in Steps /\ step.op \in Decisions
      BY AtShape DEF At, Decisions
    <2>2. <<step>> \in Seq(R)
      BY RegularAt, OneStep
    <2>3. clear_lz_lock(s) = OnEveryChain("view") \o <<step>>
      BY DEF clear_lz_lock
    <2> HIDE DEF step, R
    <2>4. clear_lz_lock(s) \in Seq(R) /\ Ordered(Owes(loan, w), {}, clear_lz_lock(s))
      BY <1>1, <2>1, <2>2, <2>3, Bound, LooksOrdered
    <2> QED BY <1>3, <2>4, ReadsNotEmpty, RegularStart DEF ClearLzLock, R
  <1> QED BY <1>2, <1>3

LEMMA SyncBatchLocks == ASSUME TypeOK, LockInv, NEW t \in Threads, SyncBatch(t) PROVE LockInv'
  <1>1. Call(t, Nobody, 0, run_sync) /\ UNCHANGED <<chainVars, oappVars, failures>>
    BY DEF SyncBatch
  <1>2. run_sync \in Seq(RegularSteps(Nobody, loan, Minted)) /\ run_sync # <<>>
    BY RegularNames, OpShape DEF run_sync
  <1>3. DOMAIN run_sync = {1} /\ run_sync[1].op = "scan_scores" /\ Len(run_sync) = 1
    BY DEF run_sync, Op
  <1>4. Ordered(Owes(loan, Nobody), {}, run_sync)
    BY <1>3 DEF Ordered, Decisions
  <1> QED BY <1>1, <1>2, <1>4, RegularStart

(* Borrowers, who wait until every thread is idle and nothing in flight.   *)

LEMMA AtRest ==
  ASSUME TypeOK, LockInv, Settled
  PROVE  /\ \A t \in Threads : job[t] = IdleJob
         /\ \A w \in Wallets : loan[Hub][w] => \A s \in Spokes : loanActiveMirror[s][w]
         /\ \A w \in Wallets : Owes(loan, w) \cap Spokes # {} => Flagged(w)
  <1>1. \A t \in Threads : job[t] = IdleJob /\ job[t].todo = <<>>
    BY DEF Settled, Idle, TypeOK, WorkOK
  <1>2. \A t \in Threads : /\ \A w, s : ~WaitsLock(job[t], w, s)
                           /\ \A w : ~WaitsFlag(job[t], w)
    BY <1>1, NoSteps DEF WaitsLock, WaitsFlag
  <1>3. ASSUME NEW w \in Wallets, NEW s \in Spokes, Sent(w, s) PROVE loanActiveMirror[s][w]
    <2>1. LockMessage(w, s) \in Messages
      <3>1. "LOAN_ACTIVE" \in MessageTypes /\ 0 \in Payload("LOAN_ACTIVE")
        BY DEF MessageTypes, Payload
      <3> QED BY <3>1, AMessage DEF LockMessage
    <2>2. inFlight[LockMessage(w, s)] = 0
      BY <2>1 DEF Settled, Delivered
    <2> QED BY <2>2, <1>3 DEF Sent
  <1>4. \A w \in Wallets : loan[Hub][w] => \A s \in Spokes : loanActiveMirror[s][w]
    BY <1>2, <1>3 DEF LockInv, HubLocked, Locking
  <1>5. \A w \in Wallets : Owes(loan, w) \cap Spokes # {} => Flagged(w)
    BY <1>2 DEF LockInv, SpokeFlagged, Flagging
  <1> QED BY <1>1, <1>4, <1>5

LEMMA OneThread ==
  ASSUME TypeOK, LockInv, Settled, NEW t \in Threads, NEW w, NEW sc, NEW steps, steps # <<>>,
         Call(t, w, sc, steps), JobOK(NewJob(w, sc, steps), loan', Minted'), inFlight' = inFlight
  PROVE  JobsSound' /\ MailSound' /\ job'[t] = NewJob(w, sc, steps)
  <1> DEFINE n == NewJob(w, sc, steps)
  <1>1. job' = [job EXCEPT ![t] = n] /\ JobsOK
    BY TypeParts DEF Call, NewJob
  <1>2. job'[t] = n /\ \A u \in Threads : u # t => job'[u] = IdleJob
    BY <1>1, AtRest DEF JobsOK
  <1> HIDE DEF n
  <1>3. ASSUME NEW u \in Threads PROVE JobOK(job'[u], loan', Minted')
    <2>1. CASE u = t
      BY <2>1, <1>2 DEF n
    <2>2. CASE u # t
      BY <2>2, <1>2, IdleSound
    <2> QED BY <2>1, <2>2
  <1>4. \A m \in Messages : ~(inFlight'[m] > 0)
    BY DEF Settled, Delivered
  <1> QED BY <1>2, <1>3, <1>4 DEF JobsSound, MailSound, n

LEMMA CreatedSync ==
  ASSUME NEW w, NEW ln, NEW K
  PROVE  /\ sync_wallet_loan_active \in Seq(RegularSteps(w, ln, K))
         /\ Ordered(Owes(ln, w), {}, sync_wallet_loan_active)
         /\ "created" \in Ops(sync_wallet_loan_active)
  <1> DEFINE step == [op |-> "created"]
             R == RegularSteps(w, ln, K)
  <1>1. step \in Steps /\ step.op \in Decisions /\ "read" \in Looks
    BY DEF Steps, Decisions, Looks
  <1>2. <<step>> \in Seq(R) /\ OnEveryChain("read") \in Seq(R)
    BY <1>1, RegularNames, RegularLooks DEF Op
  <1>3. sync_wallet_loan_active = OnEveryChain("read") \o <<step>>
    BY DEF sync_wallet_loan_active, Op
  <1>4. "created" \in Ops(<<step>>)
    BY NamedOps DEF Op
  <1> HIDE DEF step, R
  <1>5. Ops(OnEveryChain("read") \o <<step>>) = Ops(OnEveryChain("read")) \cup Ops(<<step>>)
    <2> DEFINE a == OnEveryChain("read")
               b == <<step>>
    <2>1. a \in Seq(R) /\ b \in Seq(R)
      BY <1>2
    <2> HIDE DEF a, b
    <2>2. Ops(a \o b) = Ops(a) \cup Ops(b)
      BY <2>1, JoinedParts
    <2> QED BY <2>2 DEF a, b
  <1> QED BY <1>1, <1>2, <1>3, <1>4, <1>5, Bound, LooksOrdered DEF R

LEMMA RepaidSync ==
  ASSUME NEW w, NEW ln, NEW K, Hub \notin Owes(ln, w), NEW always \in BOOLEAN
  PROVE  /\ sync_wallet_repaid \o clear_lock(always) \in Seq(RegularSteps(w, ln, K))
         /\ sync_wallet_repaid \o clear_lock(always) \in Seq(Steps)
         /\ sync_wallet_repaid \o clear_lock(always) # <<>>
         /\ Ordered(Owes(ln, w), {}, sync_wallet_repaid \o clear_lock(always))
  <1> DEFINE step == [op |-> "repaid"]
             R == RegularSteps(w, ln, K)
             a == sync_wallet_repaid
             b == clear_lock(always)
  <1>1. step \in Steps /\ step.op \in Decisions /\ step.op \notin Closing /\ "read" \in Looks
    BY DEF Steps, Decisions, Closing, Looks
  <1>2. <<step>> \in Seq(R) /\ OnEveryChain("read") \in Seq(R)
    BY <1>1, RegularNames, RegularLooks DEF Op
  <1>3. a = OnEveryChain("read") \o <<step>> /\ a # <<>>
    BY ReadsNotEmpty DEF sync_wallet_repaid, Op
  <1>4. /\ b \in Seq(R) /\ \A owed, seen : Ordered(owed, seen, b)
        /\ \A i \in DOMAIN b : b[i].op \notin Decisions
    BY RegularClearLock
  <1> HIDE DEF step, R, a, b
  <1>5. /\ a \in Seq(R) /\ a \in Seq(Steps) /\ Ordered(Owes(ln, w), {}, a)
        /\ \A i \in DOMAIN a : a[i].op \notin Closing
    BY <1>1, <1>2, <1>3, Bound, LooksOrdered
  <1>6. b \in Seq(Steps)
    BY <1>4, RegularAreSteps DEF R
  <1>7. Ordered(Owes(ln, w), {}, a \o b)
    BY <1>4, <1>5, <1>6, OrderedBefore
  <1>8. a \o b \in Seq(R) /\ a \o b \in Seq(Steps) /\ a \o b # <<>>
    BY <1>3, <1>4, <1>5, <1>6, Bound, LongerThanNothing
  <1> QED BY <1>7, <1>8 DEF R, a, b

LEMMA NewLoan ==
  ASSUME TypeOK, NEW m \in Markets, NEW w \in Wallets, NEW b \in BOOLEAN,
         loan' = [loan EXCEPT ![m][w] = b]
  PROVE  /\ loan'[m][w] = b
         /\ \A v \in Wallets : v # w => \A k \in Markets : loan'[k][v] = loan[k][v]
         /\ \A k \in Markets : k # m => loan'[k][w] = loan[k][w]
         /\ \A v \in Wallets : v # w => Owes(loan', v) = Owes(loan, v)
         /\ ~b => \A v \in Wallets : Owes(loan', v) = Owes(loan, v) \ (IF v = w THEN {m} ELSE {})
  <1>1. loan \in [Markets -> [Wallets -> BOOLEAN]]
    BY DEF TypeOK
  <1>2. loan'[m][w] = b
    BY <1>1
  <1>3. \A k \in Markets, v \in Wallets : k # m \/ v # w => loan'[k][v] = loan[k][v]
    BY <1>1
  <1>4. \A v \in Wallets : v # w => Owes(loan', v) = Owes(loan, v)
    BY <1>3 DEF Owes
  <1>5. ASSUME ~b, NEW v \in Wallets
        PROVE  Owes(loan', v) = Owes(loan, v) \ (IF v = w THEN {m} ELSE {})
    BY <1>2, <1>3, <1>5 DEF Owes
  <1> QED BY <1>2, <1>3, <1>4, <1>5

LEMMA BorrowLocks ==
  ASSUME Undisturbed, TypeOK, LockInv, NEW m \in OpenMarkets, NEW w \in Wallets, NEW t \in Threads,
         Borrow(m, w, t)
  PROVE  LockInv'
  <1>1. /\ Settled /\ m \in Markets /\ ~loan[m][w]
        /\ IF m = Hub THEN requestLoanOnHub(w) ELSE requestLoanOnSpoke(m, w)
        /\ loan' = [loan EXCEPT ![m][w] = TRUE]
        /\ Call(t, w, 0, sync_wallet_loan_active)
        /\ UNCHANGED <<unsynced, shunned, crossed, oappVars, failures>>
    BY CrossChainAssumption DEF Borrow, Undisturbed
  <1>2. /\ loan'[m][w] = TRUE
        /\ \A v \in Wallets : v # w => \A k \in Markets : loan'[k][v] = loan[k][v]
        /\ \A k \in Markets : k # m => loan'[k][w] = loan[k][w]
        /\ \A v \in Wallets : v # w => Owes(loan', v) = Owes(loan, v)
    BY <1>1, NewLoan
  <1>3. UNCHANGED <<unsynced, spokeScores, defaultBlacklist, loanActiveMirror, inFlight, blacklisted>>
    BY <1>1 DEF oappVars, sbtVars, requestLoanOnHub, requestLoanOnSpoke, setLoanActive
  <1>4. /\ Minted' = Minted
        /\ \A v \in Wallets : v # w \/ m # Hub => profiles'[v] = profiles[v]
    <2>1. CASE m = Hub
      <3>1. /\ profiles' \in [Wallets -> Profile]
            /\ \A v \in Wallets : profiles'[v].exists = profiles[v].exists
            /\ \A v \in Wallets : v # w => profiles'[v] = profiles[v]
        BY SMTT(60), <1>1, <2>1 DEF requestLoanOnHub, setLoanActive, TypeOK, SBTTypeOK, Profile
      <3> QED BY <2>1, <3>1 DEF Minted
    <2>2. CASE m # Hub
      BY <1>1, <2>2 DEF requestLoanOnSpoke, sbtVars, Minted
    <2> QED BY <2>1, <2>2
  <1>5. w \in Minted
    <2>1. CASE m = Hub
      BY <1>1, <2>1 DEF requestLoanOnHub, HubAccepts, Minted
    <2>2. CASE m # Hub
      <3>1. m \in Spokes /\ spokeScores[m][w] > 0
        BY <1>1, <2>2 DEF requestLoanOnSpoke, SpokeAccepts, Markets
      <3>2. spokeScores[m][w] # 0
        BY <3>1, OAppAssumption DEF TypeOK, OAppTypeOK
      <3> QED BY <3>1, <3>2 DEF LockInv, NewcomersBlank
    <2> QED BY <2>1, <2>2
  <1>6. m = Hub => Owes(loan, w) \cap Spokes = {}
    <2>1. SUFFICES ASSUME m = Hub, Owes(loan, w) \cap Spokes # {} PROVE FALSE
      OBVIOUS
    <2>2. Flagged(w)
      BY <1>1, <2>1, AtRest
    <2>3. ~profiles[w].loanActive /\ profiles[w].totalLoans < MaxUint8
      BY <1>1, <2>1 DEF requestLoanOnHub, HubAccepts, setLoanActive
    <2>4. profiles[w].totalLoans # MaxUint8
      BY <2>3, SBTAssumption DEF TypeOK, SBTTypeOK, Profile
    <2> QED BY <2>2, <2>3, <2>4 DEF Flagged
  <1>7. m # Hub => ~loan[Hub][w]
    BY <1>1, AtRest DEF requestLoanOnSpoke, SpokeAccepts, Markets
  <1>8. HubExclusive'
    <2>1. SUFFICES ASSUME NEW v \in Wallets, loan'[Hub][v] PROVE Owes(loan', v) = {Hub}
      BY DEF HubExclusive, Holds, Owes
    <2>2. CASE v # w
      <3>1. loan[Hub][v]
        BY <1>2, <2>1, <2>2 DEF Markets
      <3>2. Owes(loan, v) = {Hub}
        BY <3>1 DEF LockInv, HubExclusive, Holds, Owes
      <3> QED BY <1>2, <2>2, <3>2
    <2>3. CASE v = w
      <3>1. m = Hub
        BY <1>2, <1>7, <2>1, <2>3 DEF Markets
      <3>2. \A s \in Spokes : ~loan'[s][w]
        BY <1>2, <1>6, <3>1, CrossChainAssumption DEF Owes, Markets
      <3> QED BY <1>2, <2>3, <3>1, <3>2 DEF Owes, Markets
    <2> QED BY <2>2, <2>3
  <1>9. JobsSound' /\ MailSound' /\ job'[t] = NewJob(w, 0, sync_wallet_loan_active)
    <2> DEFINE n == NewJob(w, 0, sync_wallet_loan_active)
    <2>1. /\ n.wallet = w /\ n.score = 0 /\ n.ahead = 0 /\ n.seen = {}
          /\ n.todo = sync_wallet_loan_active
      BY NewJobFields
    <2> HIDE DEF n
    <2>2. PICK ln, K : ln = loan' /\ K = Minted'
      OBVIOUS
    <2>3. JobOK(n, ln, K)
      <3>1. /\ sync_wallet_loan_active \in Seq(RegularSteps(n.wallet, ln, K))
            /\ Ordered(Owes(ln, n.wallet), n.seen, sync_wallet_loan_active)
        BY <2>1, CreatedSync
      <3> QED BY <2>1, <3>1, RegularJob
    <2>4. JobOK(n, loan', Minted')
      BY <2>2, <2>3
    <2> QED BY <1>1, <1>3, <2>4, ReadsNotEmpty, OneThread DEF n
  <1>10. /\ \A s : WaitsLock(job'[t], w, s)
         /\ WaitsFlag(job'[t], w)
    <2>1. job'[t].wallet = w /\ job'[t].todo = sync_wallet_loan_active
      BY <1>9, NewJobFields
    <2> QED BY <2>1, CreatedSync DEF WaitsLock, WaitsFlag
  <1>11. HubLocked'
    <2>1. SUFFICES ASSUME NEW v \in Wallets, loan'[Hub][v], NEW s \in Spokes PROVE Locking(v, s)'
      BY DEF HubLocked
    <2>2. CASE v = w
      BY <1>10, <2>2 DEF Locking
    <2>3. CASE v # w
      <3>1. loan[Hub][v]
        BY <1>2, <2>1, <2>3 DEF Markets
      <3>2. loanActiveMirror'[s][v]
        BY <1>1, <1>3, <3>1, AtRest
      <3> QED BY <3>2 DEF Locking, Sent
    <2> QED BY <2>2, <2>3
  <1>12. SpokeFlagged'
    <2>1. SUFFICES ASSUME NEW v \in Wallets, Owes(loan', v) \cap Spokes # {} PROVE Flagging(v)'
      BY DEF SpokeFlagged
    <2>2. CASE v = w
      BY <1>10, <2>2 DEF Flagging
    <2>3. CASE v # w
      <3>1. Flagged(v)
        BY <1>1, <1>2, <2>1, <2>3, AtRest
      <3>2. Flagged(v)'
        BY <1>4, <2>3, <3>1 DEF Flagged
      <3> QED BY <3>2 DEF Flagging
    <2> QED BY <2>2, <2>3
  <1>13. NobodyListed'
    BY <1>3 DEF LockInv, NobodyListed
  <1>14. NewcomersBlank'
    BY <1>2, <1>3, <1>4, <1>5 DEF LockInv, NewcomersBlank
  <1> QED BY <1>8, <1>9, <1>11, <1>12, <1>13, <1>14 DEF LockInv

LEMMA RepayStarts ==
  ASSUME TypeOK, LockInv, Settled, NEW m \in Markets, NEW w \in Wallets, NEW t \in Threads,
         runPostRepayPipeline(m, w, t), w \in Minted, Minted' = Minted, Hub \notin Owes(loan', w),
         inFlight' = inFlight
  PROVE  JobsSound' /\ MailSound'
  <1> PICK ln, K : ln = loan' /\ K = Minted'
    OBVIOUS
  <1> DEFINE R == RegularSteps(w, ln, K)
             sync == sync_wallet_repaid \o clear_lock(m = Hub)
  <1>1. /\ sync \in Seq(R) /\ sync \in Seq(Steps) /\ sync # <<>>
        /\ Ordered(Owes(ln, w), {}, sync)
    <2>1. ASSUME NEW b \in BOOLEAN
          PROVE  /\ sync_wallet_repaid \o clear_lock(b) \in Seq(R)
                 /\ sync_wallet_repaid \o clear_lock(b) \in Seq(Steps)
                 /\ sync_wallet_repaid \o clear_lock(b) # <<>>
                 /\ Ordered(Owes(ln, w), {}, sync_wallet_repaid \o clear_lock(b))
      BY RepaidSync
    <2>2. (m = Hub) \in BOOLEAN
      OBVIOUS
    <2> QED BY <2>1, <2>2, Zenon
  <1>2. \/ Call(t, w, 0, Op("profile_score") \o sync)
        \/ \E sc \in Scores :
             Call(t, w, sc, (IF sc > 500 THEN underwrite_wallet(profiles[w].exists) ELSE <<>>) \o sync)
    BY DEF runPostRepayPipeline
  <1> HIDE DEF R, sync
  <1>3. ASSUME NEW first \in Seq(PlainSteps), first \in Seq(R), NEW sc, Call(t, w, sc, first \o sync)
        PROVE  JobsSound' /\ MailSound'
    <2> DEFINE todo == first \o sync
               n == NewJob(w, sc, todo)
    <2>1. /\ todo \in Seq(R) /\ todo # <<>>
          /\ Ordered(Owes(ln, w), {}, todo) /\ Call(t, w, sc, todo)
      BY <1>1, <1>3, Bound, LongerThanNothing, PlainOrdered, OrderedAfterPlain
    <2> HIDE DEF todo
    <2>2. n.wallet = w /\ n.score = sc /\ n.ahead = 0 /\ n.seen = {} /\ n.todo = todo
      BY NewJobFields
    <2> HIDE DEF n
    <2>3. JobOK(n, ln, K)
      BY <2>1, <2>2, RegularJob DEF R
    <2>4. JobOK(n, loan', Minted')
      BY <2>3
    <2> QED BY <2>1, <2>4, OneThread DEF n
  <1>4. CASE Call(t, w, 0, Op("profile_score") \o sync)
    <2>1. Op("profile_score") \in Seq(PlainSteps) /\ Op("profile_score") \in Seq(R)
      BY PlainNamed, RegularNames DEF R
    <2> QED BY <1>3, <1>4, <2>1
  <1>5. ASSUME NEW sc \in Scores,
               Call(t, w, sc, (IF sc > 500 THEN underwrite_wallet(profiles[w].exists) ELSE <<>>) \o sync)
        PROVE  JobsSound' /\ MailSound'
    <2> DEFINE first == IF sc > 500 THEN underwrite_wallet(profiles[w].exists) ELSE <<>>
    <2>1. profiles[w].exists = TRUE
      BY DEF Minted, TypeOK, SBTTypeOK, Profile
    <2>2. Underwriting(TRUE, 0) \in Seq(PlainSteps) /\ Underwriting(TRUE, 0) \in Seq(R)
      BY RegularUnderwriting DEF R
    <2>3. first = IF sc > 500 THEN Underwriting(TRUE, 0) ELSE <<>>
      BY <2>1 DEF underwrite_wallet
    <2>4. Call(t, w, sc, first \o sync)
      BY <1>5
    <2> HIDE DEF first
    <2>5. first \in Seq(PlainSteps) /\ first \in Seq(R)
      BY <2>2, <2>3, EmptySeq
    <2> QED BY <1>3, <2>4, <2>5
  <1> QED BY <1>2, <1>4, <1>5

LEMMA RepayLocks ==
  ASSUME Undisturbed, TypeOK, LockInv, NEW m \in OpenMarkets, NEW w \in Wallets, NEW t \in Threads,
         Repay(m, w, t)
  PROVE  LockInv'
  <1>1. /\ Settled /\ m \in Markets /\ loan[m][w]
        /\ loan' = [loan EXCEPT ![m][w] = FALSE]
        /\ IF m = Hub THEN setLoanRepaid(w) /\ touched' = touched \cup {w}
                      ELSE UNCHANGED <<sbtVars, touched>>
        /\ runPostRepayPipeline(m, w, t)
        /\ UNCHANGED <<unsynced, shunned, crossed, oappVars, failures>>
    BY CrossChainAssumption DEF Repay, Undisturbed
  <1>2. /\ loan'[m][w] = FALSE
        /\ \A v \in Wallets : v # w => \A k \in Markets : loan'[k][v] = loan[k][v]
        /\ \A k \in Markets : k # m => loan'[k][w] = loan[k][w]
        /\ \A v \in Wallets : Owes(loan', v) = Owes(loan, v) \ (IF v = w THEN {m} ELSE {})
    BY <1>1, NewLoan
  <1>3. UNCHANGED <<unsynced, spokeScores, defaultBlacklist, loanActiveMirror, inFlight, blacklisted>>
    BY <1>1 DEF oappVars, sbtVars, setLoanRepaid
  <1>4. /\ Minted' = Minted
        /\ \A v \in Wallets : v # w \/ m # Hub => profiles'[v] = profiles[v]
    <2>1. CASE m = Hub
      <3>0. setLoanRepaid(w) /\ SBTTypeOK
        BY <1>1, <2>1 DEF TypeOK
      <3>1. \A v \in Wallets : profiles'[v].exists = profiles[v].exists
        BY <3>0, RepaidOnly
      <3>2. \A v \in Wallets : v # w => profiles'[v] = profiles[v]
        BY <3>0, RepaidOnly
      <3>3. Minted' = Minted
        BY <3>1 DEF Minted
      <3> QED BY <2>1, <3>2, <3>3
    <2>2. CASE m # Hub
      BY <1>1, <2>2 DEF sbtVars, Minted
    <2> QED BY <2>1, <2>2
  <1>5. w \in Minted /\ m \in Owes(loan, w)
    BY <1>1 DEF LockInv, NewcomersBlank, Owes
  <1>6. \A v \in Wallets : Hub \in Owes(loan, v) => Owes(loan, v) = {Hub}
    BY DEF LockInv, HubExclusive, Holds, Owes
  <1>7. Hub \notin Owes(loan', w) /\ (m = Hub => Owes(loan', w) = {})
    BY <1>2, <1>5, <1>6
  <1>8. HubExclusive'
    <2>1. SUFFICES ASSUME NEW v \in Wallets, Hub \in Owes(loan', v) PROVE Owes(loan', v) = {Hub}
      BY DEF HubExclusive, Holds, Owes, Markets
    <2> QED BY <1>2, <1>6, <1>7, <2>1
  <1>9. JobsSound' /\ MailSound'
    BY <1>1, <1>3, <1>4, <1>5, <1>7, RepayStarts
  <1>10. HubLocked'
    <2>1. SUFFICES ASSUME NEW v \in Wallets, loan'[Hub][v], NEW s \in Spokes PROVE Locking(v, s)'
      BY DEF HubLocked
    <2>2. Hub \in Owes(loan', v)
      BY <2>1 DEF Owes, Markets
    <2>3. loan[Hub][v]
      BY <1>2, <2>2 DEF Owes
    <2>4. loanActiveMirror'[s][v]
      BY <1>1, <1>3, <2>3, AtRest
    <2> QED BY <2>4 DEF Locking, Sent
  <1>11. SpokeFlagged'
    <2>1. SUFFICES ASSUME NEW v \in Wallets, Owes(loan', v) \cap Spokes # {} PROVE Flagging(v)'
      BY DEF SpokeFlagged
    <2>2. Owes(loan, v) \cap Spokes # {}
      BY <1>2, <2>1
    <2>3. Flagged(v)
      BY <1>1, <2>2, AtRest
    <2>4. v # w \/ m # Hub
      BY <1>7, <2>1
    <2>5. Flagged(v)'
      BY <1>4, <2>3, <2>4 DEF Flagged
    <2> QED BY <2>5 DEF Flagging
  <1>12. NobodyListed'
    BY <1>3 DEF LockInv, NobodyListed
  <1>13. NewcomersBlank'
    BY <1>2, <1>3, <1>4, <1>5 DEF LockInv, NewcomersBlank
  <1> QED BY <1>8, <1>9, <1>10, <1>11, <1>12, <1>13 DEF LockInv

(* The messages.                                                           *)
LEMMA DeliverLocks ==
  ASSUME TypeOK, LockInv, NEW m \in Messages, Deliver(m)
  PROVE  LockInv'
  <1>1. /\ inFlight[m] > 0 /\ inFlight' = [inFlight EXCEPT ![m] = @ - 1]
        /\ UNCHANGED <<profiles, blacklisted, loan, touched, unsynced, shunned, crossed, job, failures>>
        /\ lzReceive(m)
    BY DEF Deliver, lzReceive, chainVars, sbtVars
  <1>2. Minted' = Minted
    BY <1>1 DEF Minted
  <1>3. inFlight \in [Messages -> 0 .. MaxCopies] /\ MaxCopies \in Nat
    BY OAppAssumption DEF TypeOK, OAppTypeOK
  <1>4. \A k \in Messages : /\ k # m => inFlight'[k] = inFlight[k]
                            /\ inFlight'[k] > 0 => inFlight[k] > 0
    BY <1>1, <1>3
  <1>5. MessageOK(m, loan, Minted)
    BY <1>1 DEF LockInv, MailSound
  <1>6. m.wallet \in Wallets /\ m.dst \in Spokes /\ m.type \in MessageTypes /\ m.data \in ScoreData
    BY MessageFields
  <1>7. MailSound'
    BY <1>1, <1>2, <1>4 DEF LockInv, MailSound
  <1>8. JobsSound' /\ HubExclusive' /\ NobodyListed' /\ SpokeFlagged'
    BY <1>1, <1>2 DEF LockInv, JobsSound, HubExclusive, Holds, NobodyListed, SpokeFlagged,
                      Flagging, Flagged
  <1>9. NewcomersBlank'
    <2>1. \A s \in Spokes, v \in Wallets \ Minted : spokeScores'[s][v] = 0
      <3>1. CASE m.type = "SCORE_UPDATE"
        <4>1. spokeScores' = [spokeScores EXCEPT ![m.dst][m.wallet] = m.data]
          BY <1>1, <3>1 DEF lzReceive, setScore
        <4>2. m.wallet \notin Minted => m.data = 0
          BY <1>5 DEF MessageOK
        <4> QED BY <1>6, <4>1, <4>2 DEF LockInv, NewcomersBlank, TypeOK, OAppTypeOK
      <3>2. CASE m.type # "SCORE_UPDATE"
        <4>1. spokeScores' = spokeScores
          BY <1>1, <1>5, <3>2 DEF lzReceive, MessageOK
        <4> QED BY <4>1 DEF LockInv, NewcomersBlank
      <3> QED BY <3>1, <3>2
    <2> QED BY <1>1, <1>2, <2>1 DEF LockInv, NewcomersBlank
  <1>10. HubLocked'
    <2>1. SUFFICES ASSUME NEW v \in Wallets, loan[Hub][v], NEW s \in Spokes PROVE Locking(v, s)'
      BY <1>1 DEF HubLocked
    <2>2. Sent(v, s) \/ \E t \in Threads : WaitsLock(job[t], v, s)
      BY <2>1 DEF LockInv, HubLocked, Locking
    <2>3. loanActiveMirror[s][v] => loanActiveMirror'[s][v]
      <3>1. CASE m.type = "LOAN_ACTIVE"
        <4>1. loanActiveMirror' = [loanActiveMirror EXCEPT ![m.dst][m.wallet] = TRUE]
          BY <1>1, <3>1 DEF lzReceive, setMirror
        <4> QED BY <1>6, <4>1 DEF TypeOK, OAppTypeOK
      <3>2. CASE m.type = "REPAID"
        <4>1. loanActiveMirror' = [loanActiveMirror EXCEPT ![m.dst][m.wallet] = FALSE]
          BY <1>1, <3>2 DEF lzReceive, setMirror
        <4>2. m.wallet # v
          BY <1>5, <2>1, <3>2 DEF MessageOK
        <4> QED BY <1>6, <4>1, <4>2 DEF TypeOK, OAppTypeOK
      <3>3. CASE m.type \notin {"LOAN_ACTIVE", "REPAID"}
        <4>1. loanActiveMirror' = loanActiveMirror
          BY <1>1, <1>5, <3>3 DEF lzReceive, MessageOK
        <4> QED BY <4>1
      <3> QED BY <3>1, <3>2, <3>3
    <2>4. LockMessage(v, s) \in Messages
      <3>1. "LOAN_ACTIVE" \in MessageTypes /\ 0 \in Payload("LOAN_ACTIVE")
        BY DEF MessageTypes, Payload
      <3> QED BY <3>1, AMessage DEF LockMessage
    <2>5. inFlight[LockMessage(v, s)] > 0 => Sent(v, s)'
      <3>1. CASE m = LockMessage(v, s)
        <4>1. m.type = "LOAN_ACTIVE" /\ m.dst = s /\ m.wallet = v
          BY <3>1 DEF LockMessage
        <4>2. loanActiveMirror' = [loanActiveMirror EXCEPT ![s][v] = TRUE]
          BY <1>1, <4>1 DEF lzReceive, setMirror
        <4>3. loanActiveMirror'[s][v]
          BY <4>2 DEF TypeOK, OAppTypeOK
        <4> QED BY <4>3 DEF Sent
      <3>2. CASE m # LockMessage(v, s)
        BY <1>4, <2>4, <3>2 DEF Sent
      <3> QED BY <3>1, <3>2
    <2> QED BY <1>1, <2>2, <2>3, <2>5 DEF Locking, Sent
  <1> QED BY <1>7, <1>8, <1>9, <1>10 DEF LockInv

LEMMA AgentStepLocks ==
  ASSUME Undisturbed, TypeOK, LockInv, NEW t \in Threads, AgentStep(t)
  PROVE  LockInv'
  <1>1. ASSUME \/ Verdict(t) \/ BlacklistLinked(t) \/ ReadListed(t) \/ DecideWhitelist(t)
               \/ HubWhitelistTx(t) \/ ReportWhitelisted(t) \/ SpokeListed(t) \/ ClearSpoke(t)
        PROVE  FALSE
    <2>1. \E name \in Foreign : Doing(t, name)
      BY <1>1 DEF Verdict, BlacklistLinked, ReadListed, DecideWhitelist, HubWhitelistTx,
                  ReportWhitelisted, SpokeListed, ClearSpoke, Foreign
    <2> QED BY SMTT(60), <2>1, NothingForeign
  <1> QED BY <1>1, ReadLoanLocks, DecideCreatedLocks, DecideRepaidLocks, ProfileScoreLocks,
             ReadFlagLocks, WriteFlagLocks, ClearLockLocks, ViewChainLocks, EnrichLocks,
             UnlockLocks, VetLocks, CommitLocks, SendMessageLocks, ScansLocks, SaveSyncBlockLocks,
             RevertLocks
     DEF AgentStep

LEMMA LockInit == Init => LockInv
  <1> SUFFICES ASSUME Init PROVE LockInv
    OBVIOUS
  <1>1. /\ Minted = {} /\ \A w \in Wallets : Owes(loan, w) = {} /\ ~blacklisted[w]
        /\ \A w \in Wallets : profiles[w].score = 0 /\ unsynced[w] = 0
        /\ \A w \in Wallets, s \in Spokes : spokeScores[s][w] = 0
        /\ \A w \in Wallets : ~loan[Hub][w]
    BY DEF Init, SBTInit, OAppInit, ZeroProfile, Minted, Owes, Markets
  <1>2. \A m \in Messages : ~(inFlight[m] > 0)
    BY DEF Init, OAppInit
  <1>3. JobsSound
    BY IdleSound DEF Init, JobsSound
  <1> QED BY <1>1, <1>2, <1>3 DEF LockInv, NobodyListed, NewcomersBlank, MailSound, HubExclusive,
                                  HubLocked, SpokeFlagged

LEMMA LockStep ==
  ASSUME Undisturbed, TypeOK, LockInv, [Next]_vars
  PROVE  LockInv'
  <1>1. ASSUME NEW t \in Threads, WebRequest(t) PROVE LockInv'
    <2>1. PICK w \in Wallets :
            \/ \E m \in OpenMarkets : Borrow(m, w, t) \/ Repay(m, w, t)
            \/ \E sc \in Scores : ScoreRun(w, sc, t)
            \/ ViewLoans(w, t)
            \/ \E s \in Spokes : ClearLzLock(s, w, t)
            \/ Whitelist(w, t)
      BY <1>1 DEF WebRequest
    <2>2. ~Whitelist(w, t)
      BY DEF Whitelist, Undisturbed
    <2> QED BY <2>1, <2>2, BorrowLocks, RepayLocks, ScoreRunLocks, LooksLocks
  <1>2. ASSUME NEW t \in Threads
        PROVE  /\ ~Fail(t) /\ ~WhitelistFallback(t)
               /\ \A m \in OpenMarkets, w \in Wallets : ~Liquidate(m, w, t)
    <2>1. ~(failures < MaxFailures)
      BY DEF TypeOK, Undisturbed
    <2> QED BY <2>1 DEF Fail, WhitelistFallback, Liquidate, Undisturbed
  <1>3. CASE UNCHANGED vars
    <2>1. UNCHANGED <<profiles, blacklisted, loan, touched, unsynced, shunned, crossed, job, failures,
                      spokeScores, defaultBlacklist, loanActiveMirror, inFlight>>
      BY <1>3 DEF vars, chainVars, sbtVars, oappVars
    <2>2. Minted' = Minted
      BY <2>1 DEF Minted
    <2> QED BY <2>1, <2>2 DEF LockInv, NobodyListed, NewcomersBlank, MailSound, HubExclusive, Holds,
                    JobsSound, HubLocked, Locking, Sent, SpokeFlagged, Flagging, Flagged
  <1> QED BY <1>1, <1>2, <1>3, SyncBatchLocks, AgentStepLocks, DeliverLocks DEF Next

LEMMA LocksHold == Undisturbed => (Spec => [](TypeOK /\ LockInv))
  <1> SUFFICES ASSUME Undisturbed PROVE Spec => [](TypeOK /\ LockInv)
    OBVIOUS
  <1>1. Init => TypeOK /\ LockInv
    BY InitOK, LockInit
  <1>2. TypeOK /\ LockInv /\ [Next]_vars => (TypeOK /\ LockInv)'
    BY NextOK, LockStep
  <1> QED BY <1>1, <1>2, PTL DEF Spec

(* While nothing fails and nobody is liquidated, a borrower who waits for  *)
(* the agents and the messages before each loan never owes on the hub and  *)
(* on a spoke at once: whichever loan came first has closed the other side *)
(* by the time everything has arrived, for any number of wallets, spokes   *)
(* and threads, with any views, rescorings, unlockings and hourly batches  *)
(* in between.                                                             *)
THEOREM NeverBothSides == Undisturbed => (Spec => []HubExclusive)
  <1>1. LockInv => HubExclusive
    BY DEF LockInv
  <1> QED BY <1>1, LocksHold, PTL

(* Under the same conditions, once all is done and delivered, every spoke  *)
(* refuses the borrower of an open hub loan: sync_wallet_loan_active's     *)
(* LOAN_ACTIVE has come, and no later REPAID took the lock away.           *)
THEOREM HubLoanLocks == Undisturbed => (Spec => []HubLoanLocksSpokes)
  <1>1. TypeOK /\ LockInv => HubLoanLocksSpokes
    BY AtRest DEF HubLoanLocksSpokes, SpokeAccepts
  <1> QED BY <1>1, LocksHold, PTL

(* And the hub refuses the borrower of a spoke loan: the profile's         *)
(* loanActive was set by _ensure_hub_sbt_loan_active and not cleared by a  *)
(* repayment's sync that came late, or the loan counter is used up.        *)
THEOREM SpokeLoanLocks == Undisturbed => (Spec => []SpokeLoanLocksHub)
  <1>1. TypeOK /\ LockInv => SpokeLoanLocksHub
    <2>1. ASSUME TypeOK, LockInv, Settled, NEW w \in Wallets, Holds(w) \cap Spokes # {}
          PROVE  ~HubAccepts(w) \/ profiles[w].totalLoans = MaxUint8
      <3>1. Flagged(w)
        BY <2>1, AtRest DEF Holds, Owes
      <3> QED BY <3>1 DEF Flagged, HubAccepts
    <2> QED BY <2>1 DEF SpokeLoanLocksHub
  <1> QED BY <1>1, LocksHold, PTL
=============================================================================
