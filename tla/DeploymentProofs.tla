-------------------------- MODULE DeploymentProofs --------------------------
(***************************************************************************)
(* Proofs about the scripts that deploy and wire the contracts: the        *)
(* invariants of Deployment and that every step keeps them.                *)
(***************************************************************************)
EXTENDS Deployment, FiniteSetTheorems, SequenceTheorems, WellFoundedInduction, TLAPS

(* Induction on the natural numbers, for a set of numbers.                 *)
LEMMA AllNumbers ==
  ASSUME NEW T \in SUBSET Nat, 0 \in T, \A n \in T : n + 1 \in T
  PROVE  T = Nat
  <1> DEFINE R == OpToRel(<, Nat)
             Missing == Nat \ T
  <1>1. IsWellFoundedOn(R, Nat)
    BY NatLessThanWellFounded
  <1>2. \A x, y \in Nat : x < y => <<x, y>> \in R
    BY DEF OpToRel
  <1> HIDE DEF R
  <1>3. SUFFICES ASSUME Missing # {} PROVE FALSE
    OBVIOUS
  <1>4. \E x \in Missing : \A y \in Missing : <<y, x>> \notin R
    BY <1>1, <1>3, WFMin
  <1>5. PICK x \in Missing : \A y \in Missing : <<y, x>> \notin R
    BY <1>4
  <1>6. x \in Nat /\ x # 0
    OBVIOUS
  <1>8. x - 1 \in Nat /\ x - 1 < x
    BY <1>6
  <1>7. x - 1 \notin T
    <2>1. x - 1 \in T => (x - 1) + 1 \in T
      OBVIOUS
    <2>2. (x - 1) + 1 = x
      BY <1>6
    <2> QED BY <2>1, <2>2
  <1>9. <<x - 1, x>> \in R
    BY <1>2, <1>6, <1>8
  <1> QED BY <1>5, <1>7, <1>8, <1>9

-----------------------------------------------------------------------------
(* Lists of steps.                                                         *)

StepsOf(T) == {T[i] : i \in DOMAIN T}
IsList(T) == T \in Seq(StepsOf(T))

LEMMA NoSteps ==
  IsList(<<>>) /\ StepsOf(<<>>) = {} /\ \A S : <<>> \in Seq(S)
  BY DEF IsList, StepsOf

LEMMA OneStep ==
  ASSUME NEW e
  PROVE  IsList(<<e>>) /\ StepsOf(<<e>>) = {e}
  <1>1. StepsOf(<<e>>) = {e}
    BY DEF StepsOf
  <1> QED BY <1>1 DEF IsList

LEMMA MoreSteps ==
  ASSUME NEW s, NEW t, IsList(s), IsList(t)
  PROVE  IsList(s \o t) /\ StepsOf(s \o t) = StepsOf(s) \cup StepsOf(t)
  <1> DEFINE S == StepsOf(s) \cup StepsOf(t)
  <1>1. s \in Seq(S) /\ t \in Seq(S)
    BY DEF IsList
  <1>2. s \o t \in Seq(S) /\ Len(s \o t) = Len(s) + Len(t) /\ Len(s) \in Nat /\ Len(t) \in Nat
    BY <1>1, ConcatProperties, LenProperties
  <1>3. DOMAIN (s \o t) = 1 .. Len(s) + Len(t) /\ DOMAIN s = 1 .. Len(s) /\ DOMAIN t = 1 .. Len(t)
    BY <1>1, <1>2, LenProperties
  <1>4. \A i \in DOMAIN s : i \in DOMAIN (s \o t) /\ (s \o t)[i] = s[i]
    BY <1>1, <1>2, <1>3, ConcatProperties
  <1>5. \A i \in DOMAIN t : Len(s) + i \in DOMAIN (s \o t) /\ (s \o t)[Len(s) + i] = t[i]
    BY <1>1, <1>2, <1>3
  <1>6. \A i \in DOMAIN (s \o t) : i \in DOMAIN s \/ \E j \in DOMAIN t : i = Len(s) + j
    <2>1. PICK a, b : a = Len(s) /\ b = Len(t)
      OBVIOUS
    <2>2. a \in Nat /\ b \in Nat
      BY <1>2, <2>1
    <2>3. ASSUME NEW i \in 1 .. a + b, i \notin 1 .. a
          PROVE  \E j \in 1 .. b : i = a + j
      <3>1. i - a \in 1 .. b /\ i = a + (i - a)
        BY <2>2, <2>3
      <3> QED BY <3>1
    <2>4. DOMAIN (s \o t) = 1 .. a + b /\ DOMAIN s = 1 .. a /\ DOMAIN t = 1 .. b
      BY <1>3, <2>1
    <2> QED BY ZenonT(60), <2>1, <2>3, <2>4, Zenon
  <1>7. StepsOf(s \o t) = S
    <2>1. ASSUME NEW x \in StepsOf(s \o t) PROVE x \in S
      <3>1. PICK i \in DOMAIN (s \o t) : x = (s \o t)[i]
        BY <2>1 DEF StepsOf
      <3>2. CASE i \in DOMAIN s
        BY <3>1, <3>2, <1>4 DEF StepsOf
      <3>3. CASE \E j \in DOMAIN t : i = Len(s) + j
        <4>1. PICK j \in DOMAIN t : i = Len(s) + j
          BY <3>3
        <4> QED BY <3>1, <4>1, <1>5 DEF StepsOf
      <3> QED BY <3>2, <3>3, <1>6
    <2>2. ASSUME NEW x \in S PROVE x \in StepsOf(s \o t)
      <3>1. CASE x \in StepsOf(s)
        BY <3>1, <1>4 DEF StepsOf
      <3>2. CASE x \in StepsOf(t)
        <4>1. PICK i \in DOMAIN t : x = t[i]
          BY <3>2 DEF StepsOf
        <4> QED BY <4>1, <1>5 DEF StepsOf
      <3> QED BY <3>1, <3>2
    <2> QED BY <2>1, <2>2
  <1> QED BY <1>2, <1>7 DEF IsList

LEMMA StepsLeft ==
  ASSUME NEW T, IsList(T), T # <<>>
  PROVE  /\ IsList(Tail(T)) /\ Head(T) \in StepsOf(T) /\ StepsOf(T) = {Head(T)} \cup StepsOf(Tail(T))
         /\ DOMAIN Tail(T) = 1 .. Len(T) - 1 /\ Len(T) \in Nat \ {0} /\ DOMAIN T = 1 .. Len(T)
         /\ Head(T) = T[1] /\ \A i \in DOMAIN Tail(T) : Tail(T)[i] = T[i + 1]
  <1>1. T \in Seq(StepsOf(T))
    BY DEF IsList
  <1>2. Len(T) \in Nat \ {0} /\ DOMAIN T = 1 .. Len(T) /\ Head(T) = T[1]
    BY <1>1
  <1>3. Tail(T) \in Seq(StepsOf(T)) /\ Len(Tail(T)) = Len(T) - 1
    BY <1>1
  <1>4. DOMAIN Tail(T) = 1 .. Len(T) - 1
    BY <1>2, <1>3
  <1>5. \A i \in DOMAIN Tail(T) : Tail(T)[i] = T[i + 1]
    BY <1>1, <1>2, <1>4
  <1>6. StepsOf(T) = {Head(T)} \cup StepsOf(Tail(T))
    <2>1. \A i \in DOMAIN T : i = 1 \/ (i - 1 \in DOMAIN Tail(T) /\ Tail(T)[i - 1] = T[i])
      BY <1>2, <1>4, <1>5
    <2>2. \A i \in DOMAIN Tail(T) : i + 1 \in DOMAIN T
      BY <1>2, <1>4
    <2>3. 1 \in DOMAIN T
      BY <1>2
    <2> QED BY <1>2, <1>5, <2>1, <2>2, <2>3 DEF StepsOf
  <1>7. Tail(T) \in Seq(StepsOf(Tail(T)))
    <2>1. PICK q : q = Tail(T)
      OBVIOUS
    <2>2. q \in Seq(StepsOf(T)) /\ \A i \in DOMAIN q : q[i] \in StepsOf(q)
      BY <1>3, <2>1 DEF StepsOf
    <2> HIDE DEF StepsOf
    <2>3. q \in Seq(StepsOf(q))
      BY <2>2
    <2> QED BY <2>1, <2>3
  <1> QED BY <1>2, <1>4, <1>5, <1>6, <1>7 DEF IsList

(* What FlattenSeq computes, for lists of a set closed under concatenation. *)
Flattens(f, ss, n) ==
  /\ FlattenSeq(ss) = f[n]
  /\ \A i \in 1 .. n : f[i] = IF i = 1 THEN ss[i] ELSE f[i - 1] \o ss[i]

LEMMA Flattening ==
  ASSUME NEW C, \A a, b \in C : a \o b \in C,
         NEW n \in Nat \ {0}, NEW ss, Len(ss) = n, \A i \in 1 .. n : ss[i] \in C
  PROVE  \E f \in [1 .. n -> C] : Flattens(f, ss, n)
  <1> DEFINE Solves(f, k) == \A i \in 1 .. k : f[i] = IF i = 1 THEN ss[i] ELSE f[i - 1] \o ss[i]
             T == {k \in Nat : k <= n => \E f \in [1 .. n -> C] : Solves(f, k)}
  <1>1. 0 \in T
    <2>1. ss[1] \in C
      OBVIOUS
    <2>2. [i \in 1 .. n |-> ss[1]] \in [1 .. n -> C]
      BY <2>1
    <2>3. \A f : Solves(f, 0)
      OBVIOUS
    <2> QED BY <2>2, <2>3
  <1>2. ASSUME NEW k \in T PROVE k + 1 \in T
    <2>1. SUFFICES ASSUME k + 1 <= n PROVE \E f \in [1 .. n -> C] : Solves(f, k + 1)
      OBVIOUS
    <2>2. PICK f \in [1 .. n -> C] : Solves(f, k)
      BY <2>1
    <2>3. k + 1 \in 1 .. n /\ (k # 0 => k \in 1 .. n)
      BY <2>1
    <2> DEFINE new == IF k + 1 = 1 THEN ss[k + 1] ELSE f[k] \o ss[k + 1]
               g == [f EXCEPT ![k + 1] = new]
    <2>4. new \in C
      <3>1. CASE k = 0
        BY <3>1, <2>3
      <3>2. CASE k # 0
        <4>1. f[k] \in C /\ ss[k + 1] \in C
          BY <3>2, <2>3
        <4>2. f[k] \o ss[k + 1] \in C
          BY <4>1
        <4> QED BY <4>2, <3>2
      <3> QED BY <3>1, <3>2
    <2> HIDE DEF new
    <2>5. g \in [1 .. n -> C]
      BY <2>4
    <2>6. g[k + 1] = new /\ \A i \in 1 .. n : i # k + 1 => g[i] = f[i]
      BY <2>3
    <2> HIDE DEF g
    <2>7. ASSUME NEW i \in 1 .. k + 1
          PROVE  g[i] = IF i = 1 THEN ss[i] ELSE g[i - 1] \o ss[i]
      <3>1. CASE i = k + 1
        <4>1. k # 0 => g[k] = f[k]
          BY <2>3, <2>6
        <4> QED BY <3>1, <4>1, <2>6 DEF new
      <3>2. CASE i # k + 1
        <4>1. i \in 1 .. k /\ i \in 1 .. n /\ (i # 1 => i - 1 \in 1 .. n /\ i - 1 # k + 1)
          BY <3>2, <2>1
        <4>2. g[i] = f[i] /\ (i # 1 => g[i - 1] = f[i - 1])
          BY <4>1, <2>6, <3>2
        <4> QED BY <4>1, <4>2, <2>2
      <3> QED BY <3>1, <3>2
    <2> QED BY <2>5, <2>7
  <1>3. n \in T
    <2>1. T \in SUBSET Nat
      OBVIOUS
    <2> HIDE DEF T
    <2> QED BY <2>1, <1>1, <1>2, AllNumbers
  <1>4. PICK f \in [1 .. n -> C] : Solves(f, n)
    BY <1>3
  <1> DEFINE Flat(h) == h = [i \in 1 .. Len(ss) |-> IF i = 1 THEN ss[i] ELSE h[i - 1] \o ss[i]]
             flat == CHOOSE h : Flat(h)
  <1>5. FlattenSeq(ss) = flat[Len(ss)]
    BY DEF FlattenSeq
  <1>6. \A i \in 1 .. n : f[i] = IF i = 1 THEN ss[i] ELSE f[i - 1] \o ss[i]
    BY SMTT(60), <1>4
  <1>7. Flat(f) /\ Flat(flat)
    <2>1. Flat(f)
      BY <1>6
    <2> QED BY <2>1
  <1> HIDE DEF flat, Flat
  <1>8. ASSUME NEW h, Flat(h), NEW g, Flat(g) PROVE \A i \in 1 .. n : h[i] = g[i]
    <2> DEFINE U == {k \in Nat : \A i \in 1 .. n : i <= k => h[i] = g[i]}
    <2>1. 0 \in U
      OBVIOUS
    <2>2. \A i \in 1 .. n : /\ h[i] = IF i = 1 THEN ss[i] ELSE h[i - 1] \o ss[i]
                            /\ g[i] = IF i = 1 THEN ss[i] ELSE g[i - 1] \o ss[i]
      BY <1>8 DEF Flat
    <2>3. ASSUME NEW k \in U PROVE k + 1 \in U
      <3>1. SUFFICES ASSUME k + 1 \in 1 .. n PROVE h[k + 1] = g[k + 1]
        OBVIOUS
      <3>2. k # 0 => h[k] = g[k]
        BY <3>1
      <3>3. /\ h[k + 1] = IF k + 1 = 1 THEN ss[k + 1] ELSE h[k + 1 - 1] \o ss[k + 1]
            /\ g[k + 1] = IF k + 1 = 1 THEN ss[k + 1] ELSE g[k + 1 - 1] \o ss[k + 1]
        BY <2>2, <3>1
      <3>4. k + 1 - 1 = k /\ (k = 0 <=> k + 1 = 1)
        OBVIOUS
      <3> QED BY <3>2, <3>3, <3>4
    <2>4. n \in U
      <3>1. U \in SUBSET Nat
        OBVIOUS
      <3> HIDE DEF U
      <3> QED BY <3>1, <2>1, <2>3, AllNumbers
    <2> QED BY <2>4
  <1>9. flat[n] = f[n]
    <2>1. \A i \in 1 .. n : flat[i] = f[i]
      BY <1>7, <1>8
    <2> QED BY <2>1
  <1>10. Flattens(f, ss, n)
    BY <1>5, <1>6, <1>9 DEF Flattens
  <1> QED BY <1>10

(* The lists made for each element of a finite set, one after the other.   *)
LEMMA FlatRow ==
  ASSUME NEW A, NEW n \in Nat, NEW ss \in [1 .. n -> Seq(A)]
  PROVE  FlattenSeq(ss) \in Seq(A)
  <1>1. ss \in Seq(Seq(A)) /\ Len(ss) = n
    OBVIOUS
  <1>2. CASE n = 0
    <2>1. ss = <<>>
      BY <1>1, <1>2, EmptySeq
    <2> QED BY <1>1, <1>2, <2>1, EmptySeq DEF FlattenSeq
  <1>3. CASE n # 0
    <2>1. PICK C : C = Seq(A)
      OBVIOUS
    <2>2. \A a, b \in C : a \o b \in C
      BY <2>1, ConcatProperties
    <2>3. \A i \in 1 .. n : ss[i] \in C
      BY <2>1
    <2>4. Len(ss) = n /\ n \in Nat \ {0}
      BY <1>1, <1>3
    <2>5. PICK f \in [1 .. n -> C] : Flattens(f, ss, n)
      BY <2>2, <2>3, <2>4, Flattening, Zenon
    <2> QED BY <1>3, <2>1, <2>5 DEF Flattens
  <1> QED BY <1>2, <1>3

LEMMA InARow ==
  ASSUME NEW S, IsFiniteSet(S)
  PROVE  SetToSeq(S) \in [1 .. Cardinality(S) -> S] /\ Cardinality(S) \in Nat
  <1>1. PICK n : n = Cardinality(S)
    OBVIOUS
  <1>2. n \in Nat /\ ExistsBijection(1 .. n, S)
    BY <1>1, FS_CardinalityType
  <1>3. \E f \in [1 .. n -> S] : IsInjective(f)
    <2>1. PICK f \in Bijection(1 .. n, S) : TRUE
      BY <1>2 DEF ExistsBijection
    <2>2. f \in [1 .. n -> S] /\ \A a, b \in 1 .. n : f[a] = f[b] => a = b
      BY <2>1 DEF Bijection, Injection, IsInjective
    <2> QED BY <2>2 DEF IsInjective
  <1> QED BY <1>1, <1>2, <1>3 DEF SetToSeq

-----------------------------------------------------------------------------
(* The deployment: the invariant.                                          *)

\* All contracts, those of a chain, and the addresses a record of it may hold.
Contracts == Chains \X Fields \X Nat
At(c) == {c} \X Fields \X Nat
Entry(c) == At(c) \cup {None}
Kin(c, k) == {x \in born : x[1] = c /\ x[2] = k}

DeployTypeOK ==
  /\ docs \in [Chains -> [Fields -> Contracts \cup {None}]]
  /\ \A c \in Chains : docs[c] \in [Fields -> Entry(c)]
  /\ env \in [EnvKeys -> Contracts \cup {None}]
  /\ \A k \in EnvKeys : env[k] \in Entry(k[1])
  /\ born \subseteq Contracts /\ printed \subseteq Contracts
  /\ \A c \in Chains, k \in Fields :
       IsFiniteSet(Kin(c, k)) /\ \A x \in Kin(c, k) : x[3] <= Cardinality(Kin(c, k))

Wired == {"engine", "pool", "lending", "oapp"}

\* What a step adds, and that a setter overwrites nothing a hub record needs.
Given(S) == UNION ({e.with : e \in {x \in S : x.op = "create"}}
                   \cup {{e.fact} : e \in {x \in S : x.op = "set"}})
Made(S) == {e.new : e \in {x \in S : x.op = "create"}}
Spares(fact, r) ==
  fact[2] \in Roles \/ \A g \in HubWiring(r) : g[1] = fact[1] /\ g[2] = fact[2] => g = fact

HubWrite(e) == e.op = "write" /\ e.file = "hub"

\* A step that does what it may do at any time.
StepOK(e) ==
  \/ /\ e.op = "create" /\ e.new \in Contracts
     /\ e.new \in born \/ e.new = New(e.new[1], e.new[2])
  \/ e.op \in {"set", "copy"}
  \/ e.op = "write" /\ e.file \in Chains /\ e.rec \in [Fields -> Entry(e.file)]
  \/ e.op = "env" /\ \A k \in EnvKeys \cap DOMAIN e.values : e.values[k] \in Entry(k[1])

SparedBy(S, r) == \A e \in S : e.op = "set" => Spares(e.fact, r)

\* A record whose contracts exist and are wired once the steps are done.
Complete(r, S) ==
  /\ HubWiring(r) \subseteq facts \cup Given(S)
  /\ \A k \in Wired : r[k] \in At("hub") /\ r[k] \in born \cup Made(S)
  /\ SparedBy(S, r)

\* The hub's record is written when all its transactions are through.
WritesLast(T) ==
  \A i, j \in DOMAIN T : i < j /\ HubWrite(T[i]) => T[j].op \notin {"create", "set"}

PlanOK(T) ==
  /\ IsList(T) /\ WritesLast(T)
  /\ \A e \in StepsOf(T) : StepOK(e) /\ (HubWrite(e) => Complete(e.rec, StepsOf(T)))
  /\ SparedBy(StepsOf(T), docs["hub"])

DeployInv == DeployTypeOK /\ PlanOK(todo) /\ Complete(docs["hub"], {})

-----------------------------------------------------------------------------
(* The deployment: what the steps are made of.                             *)

LEMMA HubWiringIs ==
  ASSUME NEW r
  PROVE  HubWiring(r) =
           {<<r.sbt, "SCORER", r.engine>>, <<r.engine, "SCORER", Agent>>,
            <<r.sbt, "SCORER", Agent>>, <<r.sbt, "AGENT", Agent>>, <<r.sbt, "AGENT", r.lending>>,
            <<r.lending, "AGENT", Agent>>, <<r.oapp, "AGENT", Agent>>,
            <<r.pool, "lending", r.lending>>, <<r.lending, "pool", r.pool>>,
            <<r.engine, "sbt", r.sbt>>, <<r.lending, "sbt", r.sbt>>, <<r.oapp, "sbt", r.sbt>>}
  <1>1. PICK q : q = HubRoles(r)
    OBVIOUS
  <1>2. DOMAIN q = 1 .. 7
    BY <1>1 DEF HubRoles
  <1>3. /\ q[1] = <<r.sbt, "SCORER", r.engine>> /\ q[2] = <<r.engine, "SCORER", Agent>>
        /\ q[3] = <<r.sbt, "SCORER", Agent>> /\ q[4] = <<r.sbt, "AGENT", Agent>>
        /\ q[5] = <<r.sbt, "AGENT", r.lending>> /\ q[6] = <<r.lending, "AGENT", Agent>>
        /\ q[7] = <<r.oapp, "AGENT", Agent>>
    BY <1>1 DEF HubRoles
  <1>4. \A i \in 1 .. 7 : i \in {1, 2, 3, 4, 5, 6, 7}
    OBVIOUS
  <1>5. ToSet(q) = {q[1], q[2], q[3], q[4], q[5], q[6], q[7]}
    <2>1. ToSet(q) = {q[i] : i \in 1 .. 7}
      BY <1>2 DEF ToSet
    <2>2. 1 .. 7 = {1, 2, 3, 4, 5, 6, 7}
      OBVIOUS
    <2> QED BY <2>1, <2>2
  <1> QED BY ZenonT(60), <1>1, <1>3, <1>5 DEF HubWiring

LEMMA SparedOthers ==
  ASSUME NEW fact, NEW r,
         \/ fact[2] \notin {"lending", "pool", "sbt"}
         \/ fact[1] \notin {r.pool, r.lending, r.engine, r.oapp}
         \/ fact \in HubWiring(r)
  PROVE  Spares(fact, r)
  <1>1. SUFFICES ASSUME fact[2] \notin Roles,
                        NEW g \in HubWiring(r), g[1] = fact[1], g[2] = fact[2]
                 PROVE  g = fact
    BY DEF Spares
  <1>2. g \in {<<r.pool, "lending", r.lending>>, <<r.lending, "pool", r.pool>>,
               <<r.engine, "sbt", r.sbt>>, <<r.lending, "sbt", r.sbt>>, <<r.oapp, "sbt", r.sbt>>}
    BY <1>1, HubWiringIs DEF Roles
  <1>3. CASE fact \in HubWiring(r)
    <2>1. fact \in {<<r.pool, "lending", r.lending>>, <<r.lending, "pool", r.pool>>,
               <<r.engine, "sbt", r.sbt>>, <<r.lending, "sbt", r.sbt>>, <<r.oapp, "sbt", r.sbt>>}
      BY <1>1, <1>3, HubWiringIs DEF Roles
    <2> QED BY <1>1, <1>2, <2>1
  <1> QED BY <1>1, <1>2, <1>3

LEMMA WiredFields ==
  /\ "hub" \in Chains /\ "hub" \notin Spokes /\ "" \notin Chains /\ Spokes \subseteq Chains
  /\ Wired \subseteq Fields /\ None \notin Contracts
  /\ \A c \in Chains : At(c) \subseteq Contracts
  /\ \A x \in Contracts : /\ x = <<x[1], x[2], x[3]>> /\ x[1] \in Chains /\ x[2] \in Fields /\ x[3] \in Nat
                          /\ x \in At(x[1])
  /\ \A c, x : x \in At(c) => x[1] = c
  /\ \A s \in Spokes : s \notin Fields \cup Roles \cup {"hub", ""}
  <1>1. /\ "hub" \in Chains /\ "hub" \notin Spokes /\ "" \notin Chains /\ Spokes \subseteq Chains
        /\ \A s \in Spokes : s \notin Fields \cup Roles \cup {"hub", ""}
    BY DeploymentAssumption DEF Chains
  <1>2. Wired \subseteq Fields
    BY DEF Wired, Fields
  <1>3. None \notin Contracts
    BY <1>1 DEF None, Contracts
  <1>4. \A c \in Chains : At(c) \subseteq Contracts
    BY DEF At, Contracts
  <1>5. ASSUME NEW x \in Contracts
        PROVE  /\ x = <<x[1], x[2], x[3]>> /\ x[1] \in Chains /\ x[2] \in Fields /\ x[3] \in Nat
               /\ x \in At(x[1])
    BY DEF Contracts, At
  <1>6. \A c, x : x \in At(c) => x[1] = c
    BY DEF At
  <1> QED BY <1>1, <1>2, <1>3, <1>4, <1>5, <1>6

\* A contract that is new has not been there before.
LEMMA NewIsFresh ==
  ASSUME DeployTypeOK, NEW c \in Chains, NEW k \in Fields
  PROVE  /\ New(c, k) \in At(c) /\ New(c, k) \notin born /\ New(c, k)[1] = c /\ New(c, k)[2] = k
  <1>1. IsFiniteSet(Kin(c, k)) /\ \A x \in Kin(c, k) : x[3] <= Cardinality(Kin(c, k))
    BY DEF DeployTypeOK
  <1>2. PICK n : n = Cardinality(Kin(c, k))
    OBVIOUS
  <1>3. n \in Nat
    BY <1>1, <1>2, FS_CardinalityType
  <1>4. New(c, k) = <<c, k, 1 + n>>
    BY <1>2 DEF New, Kin
  <1>5. <<c, k, 1 + n>> \notin born
    <2>1. SUFFICES ASSUME <<c, k, 1 + n>> \in born PROVE FALSE
      OBVIOUS
    <2>2. <<c, k, 1 + n>> \in Kin(c, k)
      BY <2>1 DEF Kin
    <2>3. <<c, k, 1 + n>>[3] <= n
      BY <1>1, <1>2, <2>2
    <2> QED BY <2>3, <1>3
  <1>6. 1 + n \in Nat
    BY <1>3
  <1> QED BY <1>4, <1>5, <1>6 DEF At

-----------------------------------------------------------------------------
(* The deployment: plans, part by part.                                    *)

\* A part of a plan, which writes no record of the hub and spares the
\* record there is and the one to come.
Part(T, r) ==
  /\ IsList(T)
  /\ \A e \in StepsOf(T) : StepOK(e) /\ ~HubWrite(e)
  /\ SparedBy(StepsOf(T), docs["hub"]) /\ SparedBy(StepsOf(T), r)

LEMMA Together ==
  ASSUME NEW r, NEW s, NEW t, Part(s, r), Part(t, r)
  PROVE  Part(s \o t, r)
  <1>1. IsList(s \o t) /\ StepsOf(s \o t) = StepsOf(s) \cup StepsOf(t)
    BY MoreSteps DEF Part
  <1> QED BY <1>1 DEF Part, SparedBy

LEMMA GivenTogether ==
  ASSUME NEW s, NEW t, IsList(s), IsList(t)
  PROVE  Given(StepsOf(s \o t)) = Given(StepsOf(s)) \cup Given(StepsOf(t))
  <1>1. StepsOf(s \o t) = StepsOf(s) \cup StepsOf(t)
    BY MoreSteps
  <1>2. ASSUME NEW S, NEW T PROVE Given(S \cup T) = Given(S) \cup Given(T)
    BY DEF Given
  <1> QED BY <1>1, <1>2

LEMMA MadeTogether ==
  ASSUME NEW s, NEW t, IsList(s), IsList(t)
  PROVE  Made(StepsOf(s \o t)) = Made(StepsOf(s)) \cup Made(StepsOf(t))
  <1>1. StepsOf(s \o t) = StepsOf(s) \cup StepsOf(t)
    BY MoreSteps
  <1>2. ASSUME NEW S, NEW T PROVE Made(S \cup T) = Made(S) \cup Made(T)
    BY DEF Made
  <1> QED BY <1>1, <1>2

LEMMA NoPart ==
  ASSUME NEW r
  PROVE  Part(<<>>, r) /\ Given(StepsOf(<<>>)) = {} /\ Made(StepsOf(<<>>)) = {}
  BY NoSteps DEF Part, SparedBy, Given, Made

LEMMA PartUnless ==
  ASSUME NEW r, NEW done, NEW t, Part(t, r)
  PROVE  Part(Unless(done, t), r)
  BY NoPart DEF Unless

LEMMA CreatePart ==
  ASSUME NEW r, NEW x \in Contracts, x \in born \/ x = New(x[1], x[2]), NEW with
  PROVE  /\ Part(Create(x, with), r)
         /\ Given(StepsOf(Create(x, with))) = with /\ Made(StepsOf(Create(x, with))) = {x}
  <1>1. PICK e : e = [op |-> "create", new |-> x, with |-> with]
    OBVIOUS
  <1>2. Create(x, with) = <<e>> /\ e.op = "create" /\ e.new = x /\ e.with = with
    BY <1>1 DEF Create
  <1>3. IsList(<<e>>) /\ StepsOf(<<e>>) = {e}
    BY OneStep
  <1>4. StepOK(e) /\ ~HubWrite(e)
    BY <1>2 DEF StepOK, HubWrite
  <1>5. Given({e}) = with /\ Made({e}) = {x}
    BY <1>2 DEF Given, Made
  <1> QED BY <1>2, <1>3, <1>4, <1>5 DEF Part, SparedBy

LEMMA SetPart ==
  ASSUME NEW r, NEW x, NEW what, NEW value,
         Spares(<<x, what, value>>, docs["hub"]), Spares(<<x, what, value>>, r)
  PROVE  /\ Part(Set(x, what, value), r)
         /\ Given(StepsOf(Set(x, what, value))) = {<<x, what, value>>}
         /\ Made(StepsOf(Set(x, what, value))) = {}
  <1>1. PICK e : e = [op |-> "set", fact |-> <<x, what, value>>]
    OBVIOUS
  <1>2. Set(x, what, value) = <<e>> /\ e.op = "set" /\ e.fact = <<x, what, value>>
    BY <1>1 DEF Set
  <1>3. IsList(<<e>>) /\ StepsOf(<<e>>) = {e}
    BY OneStep
  <1>4. StepOK(e) /\ ~HubWrite(e)
    BY <1>2 DEF StepOK, HubWrite
  <1>5. Given({e}) = {<<x, what, value>>} /\ Made({e}) = {}
    BY <1>2 DEF Given, Made
  <1> QED BY <1>2, <1>3, <1>4, <1>5 DEF Part, SparedBy

LEMMA FilePart ==
  ASSUME NEW r, NEW c \in Chains, NEW rec \in [Fields -> Entry(c)]
  PROVE  Part(Copy(c), r) /\ (c # "hub" => Part(Write(c, rec), r))
  <1>1. PICK e : e = [op |-> "copy", file |-> c]
    OBVIOUS
  <1>2. Copy(c) = <<e>> /\ e.op = "copy"
    BY <1>1 DEF Copy
  <1>3. PICK f : f = [op |-> "write", file |-> c, rec |-> rec]
    OBVIOUS
  <1>4. Write(c, rec) = <<f>> /\ f.op = "write" /\ f.file = c /\ f.rec = rec
    BY <1>3 DEF Write
  <1>5. IsList(<<e>>) /\ StepsOf(<<e>>) = {e} /\ IsList(<<f>>) /\ StepsOf(<<f>>) = {f}
    BY OneStep
  <1>6. StepOK(e) /\ ~HubWrite(e) /\ StepOK(f)
    BY <1>2, <1>4 DEF StepOK, HubWrite
  <1>7. Part(<<e>>, r)
    BY <1>2, <1>5, <1>6 DEF Part, SparedBy
  <1>8. c # "hub" => Part(<<f>>, r)
    BY <1>4, <1>5, <1>6 DEF Part, SparedBy, HubWrite
  <1> QED BY <1>2, <1>4, <1>7, <1>8

LEMMA PlainPlan ==
  ASSUME NEW T, Part(T, docs["hub"])
  PROVE  PlanOK(T)
  <1>1. WritesLast(T)
    <2>1. \A i \in DOMAIN T : ~HubWrite(T[i])
      BY DEF Part, StepsOf
    <2> QED BY <2>1 DEF WritesLast
  <1> QED BY <1>1 DEF Part, PlanOK

\* A hub record written at the end of a part that completes it.
LEMMA RecordPlan ==
  ASSUME NEW r \in [Fields -> Entry("hub")], NEW s, Part(s, r),
         HubWiring(r) \subseteq facts \cup Given(StepsOf(s)),
         \A k \in Wired : r[k] \in At("hub") /\ r[k] \in born \cup Made(StepsOf(s))
  PROVE  PlanOK(s \o Write("hub", r)) /\ PlanOK(s \o Write("hub", r) \o Copy("hub"))
  <1>1. PICK e : e = [op |-> "write", file |-> "hub", rec |-> r]
    OBVIOUS
  <1>2. Write("hub", r) = <<e>> /\ e.op = "write" /\ e.file = "hub" /\ e.rec = r
    BY <1>1 DEF Write
  <1>3. PICK f : f = [op |-> "copy", file |-> "hub"]
    OBVIOUS
  <1>4. Copy("hub") = <<f>> /\ f.op = "copy"
    BY <1>3 DEF Copy
  <1>5. /\ IsList(<<e>>) /\ StepsOf(<<e>>) = {e} /\ IsList(<<f>>) /\ StepsOf(<<f>>) = {f}
        /\ IsList(s) /\ s \in Seq(StepsOf(s))
    BY OneStep DEF Part, IsList
  <1>6. StepOK(e) /\ StepOK(f) /\ ~HubWrite(f)
    BY <1>2, <1>4, WiredFields DEF StepOK, HubWrite
  <1>7. PICK p, q : p = s \o <<e>> /\ q = s \o <<e>> \o <<f>>
    OBVIOUS
  <1>8. IsList(p) /\ StepsOf(p) = StepsOf(s) \cup {e}
    BY <1>5, <1>7, MoreSteps
  <1>9. IsList(q) /\ StepsOf(q) = StepsOf(s) \cup {e, f}
    <2>1. q = p \o <<f>>
      BY <1>7
    <2>2. IsList(q) /\ StepsOf(q) = StepsOf(p) \cup {f}
      BY <2>1, <1>5, <1>8, MoreSteps
    <2> QED BY <2>2, <1>8
  <1>10. PICK n : n = Len(s) /\ n \in Nat
    BY <1>5
  <1>11. /\ DOMAIN p = 1 .. n + 1 /\ DOMAIN q = 1 .. n + 2
         /\ \A i \in 1 .. n : p[i] = s[i] /\ q[i] = s[i] /\ i \in DOMAIN s
         /\ p[n + 1] = e /\ q[n + 1] = e /\ q[n + 2] = f
    <2>1. PICK S : S = StepsOf(s) \cup {e, f}
      OBVIOUS
    <2>2. s \in Seq(S) /\ <<e>> \in Seq(S) /\ <<f>> \in Seq(S) /\ Len(<<e>>) = 1 /\ Len(<<f>>) = 1
      BY <1>5, <2>1
    <2>3. p \in Seq(S) /\ Len(p) = n + 1
      BY <1>7, <1>10, <2>2
    <2>4. \A i \in 1 .. n + 1 : p[i] = IF i <= n THEN s[i] ELSE <<e>>[i - n]
      BY <1>7, <1>10, <2>2
    <2>5. q = p \o <<f>> /\ q \in Seq(S) /\ Len(q) = n + 2
      BY <1>7, <1>10, <2>2, <2>3
    <2>6. \A i \in 1 .. n + 2 : q[i] = IF i <= n + 1 THEN p[i] ELSE <<f>>[i - (n + 1)]
      BY <2>2, <2>3, <2>5, <1>10
    <2>7. DOMAIN s = 1 .. n
      BY <1>5, <1>10
    <2> QED BY <2>3, <2>4, <2>5, <2>6, <2>7, <1>10
  <1>12. \A i \in DOMAIN s : ~HubWrite(s[i])
    BY DEF Part, StepsOf
  <1>13. WritesLast(p) /\ WritesLast(q)
    <2>1. ASSUME NEW i \in 1 .. n + 1, NEW j \in 1 .. n + 1, i < j PROVE ~HubWrite(p[i])
      <3>1. i \in 1 .. n
        BY <2>1, <1>10
      <3> QED BY <3>1, <1>11, <1>12
    <2>2. ASSUME NEW i \in 1 .. n + 2, NEW j \in 1 .. n + 2, i < j, HubWrite(q[i])
          PROVE  q[j].op = "copy"
      <3>1. i \notin 1 .. n
        BY <2>2, <1>11, <1>12
      <3>2. j = n + 2
        BY <2>2, <3>1, <1>10
      <3> QED BY <3>2, <1>11, <1>4
    <2>3. WritesLast(p)
      BY <2>1, <1>11 DEF WritesLast
    <2>4. WritesLast(q)
      BY <2>2, <1>11 DEF WritesLast
    <2> QED BY <2>3, <2>4
  <1>14. ASSUME NEW S, StepsOf(s) \subseteq S, S \subseteq StepsOf(s) \cup {e, f}
         PROVE  /\ \A x \in S : StepOK(x) /\ (HubWrite(x) => Complete(x.rec, S))
                /\ SparedBy(S, docs["hub"])
    <2>1. Given(StepsOf(s)) \subseteq Given(S) /\ Made(StepsOf(s)) \subseteq Made(S)
      BY <1>14 DEF Given, Made
    <2>2. SparedBy(S, r) /\ SparedBy(S, docs["hub"])
      BY <1>2, <1>4, <1>14 DEF SparedBy, Part
    <2>3. Complete(r, S)
      BY <2>1, <2>2 DEF Complete
    <2>4. \A x \in S : StepOK(x) /\ (HubWrite(x) => x = e)
      BY <1>6, <1>14 DEF Part
    <2> QED BY <1>2, <2>2, <2>3, <2>4
  <1>15. PlanOK(p)
    BY <1>8, <1>13, <1>14 DEF PlanOK
  <1>16. PlanOK(q)
    BY <1>9, <1>13, <1>14 DEF PlanOK
  <1> QED BY <1>2, <1>4, <1>7, <1>15, <1>16

-----------------------------------------------------------------------------
(* The deployment: a script does its next step.                            *)

\* A contract that comes to exist is the next of its kind, or exists.
LEMMA AnotherIsBorn ==
  ASSUME DeployTypeOK, NEW y \in Contracts, y \in born \/ y = New(y[1], y[2]),
         born' = born \cup {y}
  PROVE  /\ \A c \in Chains, k \in Fields :
              IsFiniteSet(Kin(c, k)') /\ \A x \in Kin(c, k)' : x[3] <= Cardinality(Kin(c, k)')
         /\ \A x \in Contracts : x \in born \/ x = New(x[1], x[2])
                                 => x \in born' \/ x = New(x[1], x[2])'
  <1>1. PICK d, h : d = y[1] /\ h = y[2]
    OBVIOUS
  <1>2. d \in Chains /\ h \in Fields
    BY <1>1, WiredFields
  <1>3. ASSUME NEW c, NEW k, c # d \/ k # h \/ y \in born
        PROVE  Kin(c, k)' = Kin(c, k) /\ New(c, k)' = New(c, k)
    <2>1. Kin(c, k)' = Kin(c, k)
      BY <1>1, <1>3 DEF Kin
    <2>2. New(c, k) = <<c, k, 1 + Cardinality(Kin(c, k))>>
      BY DEF New, Kin
    <2>3. New(c, k)' = <<c, k, 1 + Cardinality(Kin(c, k)')>>
      BY DEF New, Kin
    <2> QED BY <2>1, <2>2, <2>3
  <1>4. CASE y \in born
    BY <1>3, <1>4 DEF DeployTypeOK
  <1>5. CASE y \notin born
    <2>1. y = New(d, h)
      BY <1>1, <1>5
    <2>2. PICK n : n = Cardinality(Kin(d, h))
      OBVIOUS
    <2>3. IsFiniteSet(Kin(d, h)) /\ (\A x \in Kin(d, h) : x[3] <= n) /\ n \in Nat
      BY <1>2, <2>2, FS_CardinalityType DEF DeployTypeOK
    <2>4. y = <<d, h, 1 + n>> /\ y \notin Kin(d, h)
      BY <2>1, <2>2, <1>5 DEF New, Kin
    <2>5. Kin(d, h)' = Kin(d, h) \cup {y}
      BY <1>1 DEF Kin
    <2>6. IsFiniteSet(Kin(d, h)') /\ Cardinality(Kin(d, h)') = n + 1
      BY <2>2, <2>3, <2>4, <2>5, FS_AddElement
    <2>7. \A x \in Kin(d, h)' : x[3] <= Cardinality(Kin(d, h)')
      <3>1. ASSUME NEW x \in Kin(d, h) PROVE x[3] <= n + 1
        <4>1. x \in Contracts
          BY DEF Kin, DeployTypeOK
        <4>2. x[3] \in Nat /\ x[3] <= n
          BY <4>1, <2>3, WiredFields
        <4> QED BY <4>2, <2>3
      <3>2. y[3] = 1 + n
        BY <2>4
      <3> QED BY <3>1, <3>2, <2>3, <2>5, <2>6
    <2>8. ASSUME NEW c \in Chains, NEW k \in Fields
          PROVE  IsFiniteSet(Kin(c, k)') /\ \A x \in Kin(c, k)' : x[3] <= Cardinality(Kin(c, k)')
      <3>1. CASE c = d /\ k = h
        BY <3>1, <2>6, <2>7
      <3>2. CASE c # d \/ k # h
        BY <3>2, <1>3 DEF DeployTypeOK
      <3> QED BY <3>1, <3>2
    <2>9. ASSUME NEW x \in Contracts, x \in born \/ x = New(x[1], x[2])
          PROVE  x \in born' \/ x = New(x[1], x[2])'
      <3>1. CASE x[1] = d /\ x[2] = h
        BY <3>1, <2>1, <2>9
      <3>2. CASE x[1] # d \/ x[2] # h
        BY <3>2, <1>3, <2>9
      <3> QED BY <3>1, <3>2
    <2> QED BY <2>8, <2>9
  <1> QED BY <1>4, <1>5

\* A setter keeps what it spares.
LEMMA SetterKeeps ==
  ASSUME NEW fact, NEW r, Spares(fact, r), NEW G, HubWiring(r) \subseteq facts \cup {fact} \cup G
  PROVE  HubWiring(r) \subseteq Put(fact) \cup G
  <1>1. SUFFICES ASSUME NEW g \in HubWiring(r), g # fact, g \notin G PROVE g \in Put(fact)
    BY DEF Put
  <1>2. g \in facts
    BY <1>1
  <1>3. g[2] \in Roles \/ g[1] # fact[1] \/ g[2] # fact[2]
    BY <1>1 DEF Spares
  <1> QED BY <1>2, <1>3 DEF Put

\* What is left of a plan.
LEMMA RestOfPlan ==
  ASSUME NEW T, IsList(T), WritesLast(T), T # <<>>
  PROVE  /\ IsList(Tail(T)) /\ WritesLast(Tail(T))
         /\ Head(T) \in StepsOf(T) /\ StepsOf(T) = {Head(T)} \cup StepsOf(Tail(T))
         /\ HubWrite(Head(T)) => \A e \in StepsOf(Tail(T)) : e.op \notin {"create", "set"}
  <1>1. /\ IsList(Tail(T)) /\ Head(T) \in StepsOf(T) /\ StepsOf(T) = {Head(T)} \cup StepsOf(Tail(T))
        /\ DOMAIN Tail(T) = 1 .. Len(T) - 1 /\ Len(T) \in Nat \ {0} /\ DOMAIN T = 1 .. Len(T)
        /\ Head(T) = T[1] /\ \A i \in DOMAIN Tail(T) : Tail(T)[i] = T[i + 1]
    BY StepsLeft
  <1>2. \A i \in DOMAIN Tail(T) : i \in Nat /\ i + 1 \in DOMAIN T /\ 1 \in DOMAIN T /\ 1 < i + 1
    BY <1>1
  <1>3. \A i, j \in DOMAIN Tail(T) : i < j => i + 1 < j + 1
    BY <1>2
  <1>4. WritesLast(Tail(T))
    <2>1. SUFFICES ASSUME NEW i \in DOMAIN Tail(T), NEW j \in DOMAIN Tail(T), i < j,
                          HubWrite(Tail(T)[i])
                   PROVE  Tail(T)[j].op \notin {"create", "set"}
      BY DEF WritesLast
    <2>2. HubWrite(T[i + 1]) /\ i + 1 < j + 1 /\ i + 1 \in DOMAIN T /\ j + 1 \in DOMAIN T
      BY <2>1, <1>1, <1>2, <1>3
    <2>3. T[j + 1].op \notin {"create", "set"}
      BY <2>2 DEF WritesLast
    <2> QED BY <2>3, <1>1
  <1>5. HubWrite(Head(T)) => \A e \in StepsOf(Tail(T)) : e.op \notin {"create", "set"}
    <2>1. SUFFICES ASSUME HubWrite(T[1]), NEW e \in StepsOf(Tail(T))
                   PROVE  e.op \notin {"create", "set"}
      BY <1>1
    <2>2. PICK i \in DOMAIN Tail(T) : e = Tail(T)[i]
      BY DEF StepsOf
    <2>3. e = T[i + 1] /\ i + 1 \in DOMAIN T /\ 1 \in DOMAIN T /\ 1 < i + 1
      BY <1>1, <1>2, <2>2
    <2> QED BY <2>1, <2>3 DEF WritesLast
  <1> QED BY <1>1, <1>4, <1>5

LEMMA OneMore ==
  ASSUME NEW e, NEW S
  PROVE  /\ Given({e} \cup S) = Given({e}) \cup Given(S)
         /\ Made({e} \cup S) = Made({e}) \cup Made(S)
  BY DEF Given, Made

LEMMA OneGives ==
  ASSUME NEW e
  PROVE  /\ e.op = "create" => Given({e}) = e.with /\ Made({e}) = {e.new}
         /\ e.op = "set" => Given({e}) = {e.fact} /\ Made({e}) = {}
         /\ e.op \notin {"create", "set"} => Given({e}) = {} /\ Made({e}) = {}
  BY DEF Given, Made

LEMMA NothingGiven ==
  ASSUME NEW S, \A x \in S : x.op \notin {"create", "set"}
  PROVE  Given(S) = {} /\ Made(S) = {}
  BY DEF Given, Made

\* How the files and contracts look is kept by steps that touch none of them.
LEMMA SameType ==
  ASSUME DeployTypeOK, UNCHANGED <<docs, env, born, printed>>
  PROVE  DeployTypeOK' /\ \A x : StepOK(x) => StepOK(x)'
  <1>1. \A c, k : Kin(c, k)' = Kin(c, k) /\ New(c, k)' = New(c, k)
    BY DEF Kin, New
  <1>2. DeployTypeOK'
    BY <1>1 DEF DeployTypeOK
  <1> QED BY <1>1, <1>2 DEF StepOK

LEMMA StepKeeps ==
  ASSUME DeployInv, Step
  PROVE  DeployInv'
  <1>1. /\ DeployTypeOK /\ IsList(todo) /\ WritesLast(todo) /\ todo # <<>>
        /\ \A x \in StepsOf(todo) : StepOK(x) /\ (HubWrite(x) => Complete(x.rec, StepsOf(todo)))
        /\ SparedBy(StepsOf(todo), docs["hub"]) /\ Complete(docs["hub"], {})
    BY DEF DeployInv, PlanOK, Step
  <1>2. PICK e, R, S : e = Head(todo) /\ R = Tail(todo) /\ S = StepsOf(R)
    OBVIOUS
  <1>3. /\ todo' = R /\ IsList(R) /\ WritesLast(R) /\ StepsOf(todo) = {e} \cup S
        /\ HubWrite(e) => \A x \in S : x.op \notin {"create", "set"}
    BY <1>1, <1>2, RestOfPlan DEF Step
  <1>4. /\ StepOK(e) /\ (HubWrite(e) => Complete(e.rec, {e} \cup S))
        /\ \A x \in S : StepOK(x) /\ (HubWrite(x) => Complete(x.rec, {e} \cup S))
        /\ SparedBy({e} \cup S, docs["hub"]) /\ SparedBy(S, docs["hub"])
    BY <1>1, <1>3 DEF SparedBy
  <1>5. SUFFICES /\ DeployTypeOK'
                 /\ \A x \in S : StepOK(x)' /\ (HubWrite(x) => Complete(x.rec, S)')
                 /\ SparedBy(S, docs["hub"]') /\ Complete(docs["hub"], {})'
    <2>1. StepsOf(todo)' = S /\ IsList(todo)' /\ WritesLast(todo)'
      BY <1>2, <1>3 DEF IsList, WritesLast, StepsOf, HubWrite
    <2>2. PlanOK(todo)'
      BY <2>1 DEF PlanOK
    <2> QED BY <2>2 DEF DeployInv
  <1>6. CASE e.op = "create"
    <2>1. /\ born' = born \cup {e.new} /\ printed' = printed \cup {e.new}
          /\ facts' = facts \cup e.with /\ docs' = docs /\ env' = env
      BY <1>2, <1>6 DEF Step
    <2>2. e.new \in Contracts /\ (e.new \in born \/ e.new = New(e.new[1], e.new[2]))
      BY <1>4, <1>6 DEF StepOK
    <2>3. /\ \A c \in Chains, k \in Fields :
               IsFiniteSet(Kin(c, k)') /\ \A x \in Kin(c, k)' : x[3] <= Cardinality(Kin(c, k)')
          /\ \A x \in Contracts : x \in born \/ x = New(x[1], x[2])
                                  => x \in born' \/ x = New(x[1], x[2])'
      BY <1>1, <2>1, <2>2, AnotherIsBorn
    <2>4. DeployTypeOK'
      BY <1>1, <2>1, <2>2, <2>3 DEF DeployTypeOK
    <2>5. \A x \in S : StepOK(x)'
      BY <1>4, <2>3 DEF StepOK
    <2>6. Given({e} \cup S) = e.with \cup Given(S) /\ Made({e} \cup S) = {e.new} \cup Made(S)
      <3>1. Given({e}) = e.with /\ Made({e}) = {e.new}
        BY <1>6, OneGives
      <3>2. Given({e} \cup S) = Given({e}) \cup Given(S)
        BY OneMore
      <3>3. Made({e} \cup S) = Made({e}) \cup Made(S)
        BY OneMore
      <3> QED BY <3>1, <3>2, <3>3
    <2>7. ASSUME NEW r, Complete(r, {e} \cup S) PROVE Complete(r, S)'
      <3>1. HubWiring(r) \subseteq facts' \cup Given(S)
        BY <2>1, <2>6, <2>7 DEF Complete
      <3>2. \A k \in Wired : r[k] \in At("hub") /\ r[k] \in born' \cup Made(S)
        BY <2>1, <2>6, <2>7 DEF Complete
      <3>3. SparedBy(S, r)
        BY <2>7 DEF Complete, SparedBy
      <3> QED BY <3>1, <3>2, <3>3 DEF Complete
    <2>8. Complete(docs["hub"], {})'
      BY <1>1, <2>1 DEF Complete
    <2> QED BY <1>4, <2>1, <2>4, <2>5, <2>7, <2>8
  <1>7. CASE e.op = "set"
    <2>1. facts' = Put(e.fact) /\ UNCHANGED <<born, printed, docs, env>>
      BY <1>2, <1>7 DEF Step
    <2>2. DeployTypeOK' /\ \A x \in S : StepOK(x)'
      BY <1>1, <1>4, <2>1, SameType
    <2>3. Given({e} \cup S) = {e.fact} \cup Given(S) /\ Made({e} \cup S) = Made(S)
      <3>1. Given({e}) = {e.fact} /\ Made({e}) = {}
        BY <1>7, OneGives
      <3>2. Given({e} \cup S) = Given({e}) \cup Given(S)
        BY OneMore
      <3>3. Made({e} \cup S) = Made({e}) \cup Made(S)
        BY OneMore
      <3> QED BY <3>1, <3>2, <3>3
    <2>4. ASSUME NEW r, Complete(r, {e} \cup S) PROVE Complete(r, S)'
      <3>1. Spares(e.fact, r)
        BY <1>7, <2>4 DEF Complete, SparedBy
      <3>2. HubWiring(r) \subseteq facts \cup {e.fact} \cup Given(S)
        BY <2>3, <2>4 DEF Complete
      <3>3. HubWiring(r) \subseteq Put(e.fact) \cup Given(S)
        BY <3>1, <3>2, SetterKeeps
      <3>4. \A k \in Wired : r[k] \in At("hub") /\ r[k] \in born' \cup Made(S)
        BY <2>1, <2>3, <2>4 DEF Complete
      <3>5. SparedBy(S, r)
        BY <2>4 DEF Complete, SparedBy
      <3> QED BY <2>1, <3>3, <3>4, <3>5 DEF Complete
    <2>5. Complete(docs["hub"], {})'
      <3>1. Spares(e.fact, docs["hub"]) /\ HubWiring(docs["hub"]) \subseteq facts
        BY <1>1, <1>4, <1>7 DEF SparedBy, Complete, Given
      <3>2. HubWiring(docs["hub"]) \subseteq Put(e.fact) \cup {}
        BY <3>1, SetterKeeps
      <3> QED BY <1>1, <2>1, <3>2 DEF Complete, SparedBy
    <2> QED BY <1>4, <2>1, <2>2, <2>4, <2>5
  <1>8. CASE HubWrite(e)
    <2>1. /\ docs' = [docs EXCEPT !["hub"] = e.rec] /\ UNCHANGED <<born, printed, facts, env>>
          /\ e.op = "write" /\ e.file = "hub"
      BY <1>2, <1>8 DEF Step, HubWrite, chainVars
    <2>2. e.rec \in [Fields -> Entry("hub")]
      BY <1>4, <2>1 DEF StepOK
    <2>3. docs["hub"]' = e.rec /\ \A c \in Chains : c # "hub" => docs[c]' = docs[c]
      BY ZenonT(60), <1>1, <2>1, WiredFields DEF DeployTypeOK
    <2>4. Entry("hub") \subseteq Contracts \cup {None}
      BY WiredFields DEF Entry
    <2>5. DeployTypeOK'
      <3>1. \A c, k : Kin(c, k)' = Kin(c, k)
        BY <2>1 DEF Kin
      <3>2. docs' \in [Chains -> [Fields -> Contracts \cup {None}]]
        <4>1. e.rec \in [Fields -> Contracts \cup {None}]
          BY <2>2, <2>4
        <4> QED BY <1>1, <2>1, <4>1 DEF DeployTypeOK
      <3>3. \A c \in Chains : docs'[c] \in [Fields -> Entry(c)]
        BY <1>1, <2>2, <2>3 DEF DeployTypeOK
      <3> QED BY <1>1, <2>1, <3>1, <3>2, <3>3 DEF DeployTypeOK
    <2>6. \A x \in S : StepOK(x)'
      BY <1>4, <2>1 DEF StepOK, New
    <2>7. /\ \A x \in S : x.op \notin {"create", "set"}
          /\ Given({e} \cup S) = {} /\ Made({e} \cup S) = {} /\ Given(S) = {} /\ Made(S) = {}
      BY <1>3, <1>8, <2>1, OneMore, OneGives, NothingGiven
    <2>8. ASSUME NEW r, Complete(r, {e} \cup S) PROVE Complete(r, S)' /\ Complete(r, {})'
      BY <2>1, <2>7, <2>8 DEF Complete, SparedBy, Given, Made
    <2>9. SparedBy(S, docs["hub"]')
      BY <2>7 DEF SparedBy
    <2> QED BY <1>4, <1>8, <2>3, <2>5, <2>6, <2>8, <2>9
  <1>9. CASE e.op \notin {"create", "set"} /\ ~HubWrite(e)
    <2>0. Given({e} \cup S) = Given(S) /\ Made({e} \cup S) = Made(S)
      <3>1. Given({e}) = {} /\ Made({e}) = {}
        BY <1>9, OneGives
      <3>2. Given({e} \cup S) = Given({e}) \cup Given(S)
        BY OneMore
      <3>3. Made({e} \cup S) = Made({e}) \cup Made(S)
        BY OneMore
      <3> QED BY <3>1, <3>2, <3>3
    <2>1. UNCHANGED <<facts, born, printed>> /\ Given({e} \cup S) = Given(S) /\ Made({e} \cup S) = Made(S)
      BY <1>2, <1>9, <2>0 DEF Step, chainVars, HubWrite
    <2>2. docs["hub"]' = docs["hub"] /\ DeployTypeOK'
      <3>1. \A c, k : Kin(c, k)' = Kin(c, k)
        BY <2>1 DEF Kin
      <3>2. CASE e.op = "write"
        <4>1. docs' = [docs EXCEPT ![e.file] = e.rec] /\ env' = env
          BY <1>2, <3>2 DEF Step
        <4>2. e.file \in Chains /\ e.file # "hub" /\ e.rec \in [Fields -> Entry(e.file)]
          BY <1>4, <1>9, <3>2 DEF StepOK, HubWrite
        <4>3. \A c \in Chains : docs[c]' = IF c = e.file THEN e.rec ELSE docs[c]
          BY <1>1, <4>1 DEF DeployTypeOK
        <4>4. e.rec \in [Fields -> Contracts \cup {None}]
          BY <4>2, WiredFields DEF Entry
        <4>5. docs' \in [Chains -> [Fields -> Contracts \cup {None}]]
          BY <1>1, <4>1, <4>4 DEF DeployTypeOK
        <4>6. \A c \in Chains : docs'[c] \in [Fields -> Entry(c)]
          BY <1>1, <4>2, <4>3 DEF DeployTypeOK
        <4> QED BY <1>1, <2>1, <3>1, <4>1, <4>2, <4>3, <4>5, <4>6, WiredFields DEF DeployTypeOK
      <3>3. CASE e.op = "copy"
        <4>1. docs' = docs /\ env' = env
          BY <1>2, <3>3 DEF Step
        <4> QED BY <1>1, <2>1, <4>1, SameType
      <3>4. CASE e.op = "env"
        <4>1. docs' = docs /\ env' = [k \in EnvKeys |-> IF k \in DOMAIN e.values THEN e.values[k] ELSE env[k]]
          BY <1>2, <3>4 DEF Step
        <4>2. \A k \in EnvKeys : env'[k] \in Entry(k[1])
          BY <1>1, <1>4, <3>4, <4>1 DEF StepOK, DeployTypeOK
        <4>3. \A k \in EnvKeys : env'[k] \in Contracts \cup {None}
          <5>1. \A k \in EnvKeys : k[1] \in Chains
            <6>1. ASSUME NEW k \in EnvKeys PROVE k[1] \in {"hub"} \cup Spokes
              BY DEF EnvKeys
            <6> QED BY <6>1 DEF Chains
          <5> QED BY <5>1, <4>2, WiredFields DEF Entry
        <4>4. env' \in [EnvKeys -> Contracts \cup {None}]
          BY <4>1, <4>3
        <4> QED BY <1>1, <2>1, <3>1, <4>1, <4>2, <4>4 DEF DeployTypeOK
      <3> QED BY <1>4, <1>9, <3>2, <3>3, <3>4 DEF StepOK
    <2>3. \A x \in S : StepOK(x)'
      BY <1>4, <2>1 DEF StepOK, New
    <2>4. ASSUME NEW r, Complete(r, {e} \cup S) PROVE Complete(r, S)'
      BY <2>1, <2>4 DEF Complete, SparedBy
    <2>5. Complete(docs["hub"], {})'
      BY <1>1, <2>1, <2>2 DEF Complete
    <2> QED BY <1>4, <2>2, <2>3, <2>4, <2>5
  <1> QED BY <1>6, <1>7, <1>8, <1>9

-----------------------------------------------------------------------------
(* The deployment: the scripts of the spokes.                              *)

LEMMA HubContracts ==
  ASSUME DeployInv
  PROVE  /\ HubWiring(docs["hub"]) \subseteq facts
         /\ \A k \in Wired : docs["hub"][k] \in At("hub") /\ docs["hub"][k] \in born
         /\ docs["hub"] \in [Fields -> Entry("hub")]
  <1>1. Given({}) = {} /\ Made({}) = {}
    BY NothingGiven
  <1>2. docs["hub"] \in [Fields -> Entry("hub")]
    BY WiredFields DEF DeployInv, DeployTypeOK
  <1> QED BY <1>1, <1>2 DEF DeployInv, Complete

\* What is set on a new contract, or on one of a spoke, spares the hub's record.
LEMMA NewSpares ==
  ASSUME DeployInv, NEW x, x \notin born, NEW what, NEW value
  PROVE  Spares(<<x, what, value>>, docs["hub"])
  <1>1. x \notin {docs["hub"].pool, docs["hub"].lending, docs["hub"].engine, docs["hub"].oapp}
    BY HubContracts DEF Wired
  <1> QED BY <1>1, SparedOthers

LEMMA SpokeSpares ==
  ASSUME DeployInv, NEW s \in Spokes, NEW x \in Entry(s), NEW what, NEW value
  PROVE  Spares(<<x, what, value>>, docs["hub"])
  <1>1. x[1] # "hub"
    <2>1. CASE x = None
      BY <2>1 DEF None
    <2>2. CASE x \in At(s)
      BY <2>2, WiredFields
    <2> QED BY <2>1, <2>2 DEF Entry
  <1>2. \A k \in Wired : docs["hub"][k][1] = "hub"
    BY HubContracts, WiredFields
  <1>3. x \notin {docs["hub"].pool, docs["hub"].lending, docs["hub"].engine, docs["hub"].oapp}
    BY <1>1, <1>2 DEF Wired
  <1> QED BY <1>3, SparedOthers

SpokePart(T) == Part(T, docs["hub"])

LEMMA SpokeTogether ==
  ASSUME NEW T, NEW U, SpokePart(T), SpokePart(U)
  PROVE  SpokePart(T \o U)
  BY Together DEF SpokePart

\* The steps on a spoke.
LEMMA SpokeCreate ==
  ASSUME DeployInv, NEW s \in Spokes, NEW k \in Fields, NEW with
  PROVE  SpokePart(Create(New(s, k), with)) /\ New(s, k) \in Entry(s) /\ New(s, k) \in At(s)
  <1>1. s \in Chains /\ New(s, k) \in At(s) /\ New(s, k)[1] = s /\ New(s, k)[2] = k
    BY NewIsFresh, WiredFields DEF DeployInv
  <1>2. PICK x : x = New(s, k)
    OBVIOUS
  <1>3. x \in Contracts /\ x = New(x[1], x[2])
    BY <1>1, <1>2, WiredFields
  <1>4. Part(Create(x, with), docs["hub"])
    BY <1>3, CreatePart
  <1> QED BY <1>1, <1>2, <1>4 DEF SpokePart, Entry

LEMMA SpokeSet ==
  ASSUME DeployInv, NEW s \in Spokes, NEW x \in Entry(s), NEW what, NEW value
  PROVE  SpokePart(Set(x, what, value)) /\ SpokePart(SetIfMissing(x, what, value))
         /\ SpokePart(SetIfZero(x, what, value))
  <1>1. Part(Set(x, what, value), docs["hub"])
    BY SpokeSpares, SetPart
  <1>2. ASSUME NEW done PROVE Part(Unless(done, Set(x, what, value)), docs["hub"])
    BY <1>1, PartUnless
  <1> QED BY <1>1, <1>2 DEF SpokePart, SetIfMissing, SetIfZero

LEMMA SpokeFiles ==
  ASSUME NEW s \in Spokes, NEW rec \in [Fields -> Entry(s)]
  PROVE  SpokePart(Write(s, rec)) /\ SpokePart(Copy(s))
  BY FilePart, WiredFields DEF SpokePart

LEMMA SpokeRecord ==
  ASSUME DeployInv, NEW s \in Spokes
  PROVE  /\ docs[s] \in [Fields -> Entry(s)] /\ None \in Entry(s)
         /\ \A k \in Fields : docs[s][k] \in Entry(s) /\ Printed(s, k) \in Entry(s)
  <1>1. docs[s] \in [Fields -> Entry(s)] /\ None \in Entry(s)
    BY WiredFields DEF DeployInv, DeployTypeOK, Entry
  <1>2. ASSUME NEW k \in Fields PROVE Printed(s, k) \in Entry(s)
    <2>1. CASE \E x \in printed : x[1] = s /\ x[2] = k
      <3>1. PICK x : x = CHOOSE y \in printed : y[1] = s /\ y[2] = k
        OBVIOUS
      <3>2. x \in printed /\ x[1] = s
        BY <2>1, <3>1
      <3>3. x \in At(s)
        BY <3>2, WiredFields DEF DeployInv, DeployTypeOK
      <3> QED BY <2>1, <3>1, <3>3 DEF Printed, Entry
    <2>2. CASE ~\E x \in printed : x[1] = s /\ x[2] = k
      BY <2>2, <1>1 DEF Printed
    <2> QED BY <2>1, <2>2
  <1> QED BY <1>1, <1>2

\* The addresses that may be typed in are of the spoke.
LEMMA ExistingFit ==
  ASSUME DeployInv, NEW s \in Spokes, NEW old \in Existing(s)
  PROVE  /\ old.oracle \in Entry(s) /\ old.pool \in Entry(s)
         /\ old.feed \in Entry(s) /\ old.lending \in Entry(s)
  <1>1. {"oracle", "pool", "feed", "lending"} \subseteq Fields
    BY DEF Fields
  <1>2. \A k : Named(s, k) \subseteq Entry(s)
    BY WiredFields DEF Named, Entry, DeployInv, DeployTypeOK
  <1>3. CASE Careful
    BY <1>1, <1>3, SpokeRecord DEF Existing
  <1>4. CASE ~Careful
    BY <1>2, <1>4 DEF Existing
  <1> QED BY <1>3, <1>4

LEMMA SpokeSave ==
  ASSUME DeployInv, NEW s \in Spokes, NEW oracle \in Entry(s), NEW p \in Entry(s),
         NEW lending \in Entry(s), NEW feed \in Entry(s)
  PROVE  SpokePart(SaveSpoke(s, oracle, p, lending, feed))
  <1>1. PICK rec : rec = [docs[s] EXCEPT !.oracle = oracle, !.pool = p,
                                         !.lending = lending, !.feed = feed]
    OBVIOUS
  <1>2. rec \in [Fields -> Entry(s)]
    BY <1>1, SpokeRecord
  <1>3. SpokePart(Write(s, rec)) /\ SpokePart(Copy(s))
    BY <1>2, SpokeFiles
  <1>4. SpokePart(Write(s, rec) \o Copy(s))
    BY <1>3, SpokeTogether
  <1> QED BY <1>1, <1>4 DEF SaveSpoke

LEMMA SpokeWire ==
  ASSUME DeployInv, NEW s \in Spokes, NEW lending \in Entry(s), NEW p \in Entry(s)
  PROVE  SpokePart(WireSpoke(lending, p))
  <1>1. PICK A, B, D : /\ A = Set(p, "lending", lending) /\ B = Set(lending, "pool", p)
                       /\ D = Set(lending, "AGENT", Agent)
    OBVIOUS
  <1>2. SpokePart(A) /\ SpokePart(B) /\ SpokePart(D)
    BY <1>1, SpokeSet
  <1>3. SpokePart(A \o B)
    BY <1>2, SpokeTogether
  <1>4. SpokePart(A \o B \o D)
    BY <1>2, <1>3, SpokeTogether
  <1> QED BY <1>1, <1>4 DEF WireSpoke

LEMMA SpokeEnv ==
  ASSUME DeployInv, NEW s \in Spokes
  PROVE  env[<<s, "oapp">>] \in Entry(s) /\ env[<<s, "lending">>] \in Entry(s)
  <1>1. <<s, "oapp">> \in EnvKeys /\ <<s, "lending">> \in EnvKeys
    BY DEF EnvKeys
  <1>2. <<s, "oapp">>[1] = s /\ <<s, "lending">>[1] = s
    OBVIOUS
  <1> QED BY <1>1, <1>2 DEF DeployInv, DeployTypeOK

LEMMA SpokeScripts ==
  ASSUME DeployInv, NEW s \in Spokes
  PROVE  /\ SpokePart(DeploySpoke(s)) /\ SpokePart(DeploySpokeLending(s))
         /\ (\A old \in Existing(s) : SpokePart(FinishSpokeLending(s, old)))
         /\ SpokePart(FinishBaseLending(s)) /\ SpokePart(FinishBaseWiring(s))
         /\ SpokePart(GrantSpokeAgent(s))
         /\ \A fresh \in BOOLEAN : SpokePart(SyncSpokeOracle(s, fresh))
  <1>1. /\ docs[s] \in [Fields -> Entry(s)] /\ None \in Entry(s)
        /\ \A k \in Fields : docs[s][k] \in Entry(s) /\ Printed(s, k) \in Entry(s)
    BY SpokeRecord
  <1>2. \A k \in Fields : \A with : SpokePart(Create(New(s, k), with)) /\ New(s, k) \in Entry(s)
    BY SpokeCreate
  <1>3. {"oapp", "lending", "pool", "oracle", "feed"} \subseteq Fields
    BY DEF Fields
  <1>4. env[<<s, "oapp">>] \in Entry(s) /\ env[<<s, "lending">>] \in Entry(s)
    BY SpokeEnv
  <1>5. /\ docs[s].oapp \in Entry(s) /\ docs[s].lending \in Entry(s) /\ docs[s].pool \in Entry(s)
        /\ docs[s].oracle \in Entry(s) /\ docs[s].feed \in Entry(s)
    BY <1>1, <1>3
  <1>6. SpokePart(<<>>)
    BY NoPart DEF SpokePart
  <1>7. ASSUME NEW oracle PROVE SpokePart(SpokeLending(s, oracle))
    BY <1>2, <1>3 DEF SpokeLending
  <1>8. SpokePart(DeploySpoke(s))
    <2>1. PICK oapp, rec, A, B, D, E :
            /\ oapp = New(s, "oapp") /\ rec = [NoRecord EXCEPT !.oapp = oapp]
            /\ A = Create(oapp, {}) /\ B = Write(s, rec) /\ D = Copy(s)
            /\ E = Set(oapp, "AGENT", Agent)
      OBVIOUS
    <2>2. oapp \in Entry(s)
      BY <2>1, <1>2, <1>3
    <2>3. rec \in [Fields -> Entry(s)]
      BY <2>1, <2>2, <1>1 DEF NoRecord
    <2>4. SpokePart(A) /\ SpokePart(B) /\ SpokePart(D) /\ SpokePart(E)
      BY <2>1, <2>2, <2>3, <1>2, <1>3, SpokeSet, SpokeFiles
    <2>5. SpokePart(A \o B)
      BY <2>4, SpokeTogether
    <2>6. SpokePart(A \o B \o D)
      BY <2>4, <2>5, SpokeTogether
    <2>7. SpokePart(A \o B \o D \o E)
      BY <2>4, <2>6, SpokeTogether
    <2> QED BY <2>1, <2>7 DEF DeploySpoke
  <1>9. SpokePart(DeploySpokeLending(s))
    <2>1. PICK feed, oracle, p, lending :
            /\ feed = New(s, "feed") /\ oracle = New(s, "oracle")
            /\ p = New(s, "pool") /\ lending = New(s, "lending")
      OBVIOUS
    <2>2. /\ feed \in Entry(s) /\ oracle \in Entry(s) /\ p \in Entry(s) /\ lending \in Entry(s)
      BY <2>1, <1>2, <1>3
    <2>3. PICK A, B, D, E, F, G, H :
            /\ A = Create(feed, {}) /\ B = Create(oracle, {}) /\ D = Set(oracle, "feed", feed)
            /\ E = Create(p, {}) /\ F = SpokeLending(s, oracle) /\ G = WireSpoke(lending, p)
            /\ H = SaveSpoke(s, oracle, p, lending, feed)
      OBVIOUS
    <2>4. SpokePart(A) /\ SpokePart(B) /\ SpokePart(E)
      BY <2>1, <2>3, <1>2, <1>3
    <2>5. SpokePart(D) /\ SpokePart(F) /\ SpokePart(G) /\ SpokePart(H)
      BY <2>2, <2>3, <1>7, SpokeSet, SpokeWire, SpokeSave
    <2>6. SpokePart(A \o B \o D)
      BY <2>4, <2>5, SpokeTogether
    <2>7. SpokePart(A \o B \o D \o E \o F)
      BY <2>4, <2>5, <2>6, SpokeTogether
    <2>8. SpokePart(A \o B \o D \o E \o F \o G \o H)
      BY <2>5, <2>7, SpokeTogether
    <2> QED BY <2>1, <2>3, <2>8 DEF DeploySpokeLending
  <1>10. ASSUME NEW given \in Existing(s) PROVE SpokePart(FinishSpokeLending(s, given))
    <2>1. PICK old, lending, oracle, p, feed :
            /\ old = given.lending /\ lending = (IF old # None THEN old ELSE New(s, "lending"))
            /\ oracle = given.oracle /\ p = given.pool /\ feed = given.feed
      OBVIOUS
    <2>2. /\ old \in Entry(s) /\ lending \in Entry(s) /\ oracle \in Entry(s) /\ p \in Entry(s)
          /\ feed \in Entry(s)
      BY <2>1, <1>2, <1>3, ExistingFit
    <2>3. PICK A, B, D :
            /\ A = Unless(old # None, SpokeLending(s, oracle)) /\ B = WireSpoke(lending, p)
            /\ D = SaveSpoke(s, oracle, p, lending, feed)
      OBVIOUS
    <2>4. SpokePart(A) /\ SpokePart(B) /\ SpokePart(D)
      BY <2>2, <2>3, <1>6, <1>7, SpokeWire, SpokeSave DEF Unless
    <2>5. SpokePart(A \o B \o D)
      BY <2>4, SpokeTogether
    <2> QED BY <2>1, <2>3, <2>5 DEF FinishSpokeLending
  <1>11. SpokePart(FinishBaseLending(s))
    <2>1. PICK lending, A, B, D :
            /\ lending = New(s, "lending") /\ A = SpokeLending(s, docs[s].oracle)
            /\ B = WireSpoke(lending, docs[s].pool)
            /\ D = SaveSpoke(s, docs[s].oracle, docs[s].pool, lending, docs[s].feed)
      OBVIOUS
    <2>2. lending \in Entry(s)
      BY <2>1, <1>2, <1>3
    <2>3. SpokePart(A) /\ SpokePart(B) /\ SpokePart(D)
      BY <2>1, <2>2, <1>5, <1>7, SpokeWire, SpokeSave
    <2>4. SpokePart(A \o B \o D)
      BY <2>3, SpokeTogether
    <2> QED BY <2>1, <2>4 DEF FinishBaseLending
  <1>12. SpokePart(FinishBaseWiring(s))
    <2>1. PICK lending, p, A, B, D, E :
            /\ lending = RecordedLending(s) /\ p = docs[s].pool
            /\ A = SetIfMissing(p, "lending", lending) /\ B = SetIfZero(lending, "pool", p)
            /\ D = SetIfMissing(lending, "AGENT", Agent)
            /\ E = SaveSpoke(s, docs[s].oracle, p, lending, docs[s].feed)
      OBVIOUS
    <2>2. lending \in Entry(s) /\ p \in Entry(s)
      BY <2>1, <1>4, <1>5 DEF RecordedLending
    <2>3. SpokePart(A) /\ SpokePart(B) /\ SpokePart(D) /\ SpokePart(E)
      BY <2>1, <2>2, <1>5, SpokeSet, SpokeSave
    <2>4. SpokePart(A \o B \o D \o E)
      BY <2>3, SpokeTogether
    <2> QED BY <2>1, <2>4 DEF FinishBaseWiring
  <1>13. SpokePart(GrantSpokeAgent(s))
    <2>1. PICK oapp : oapp = IF env[<<s, "oapp">>] # None THEN env[<<s, "oapp">>] ELSE docs[s].oapp
      OBVIOUS
    <2>2. SpokePart(SetIfMissing(oapp, "AGENT", Agent))
      BY <2>1, <1>4, <1>5, SpokeSet
    <2> QED BY <2>1, <2>2 DEF GrantSpokeAgent
  <1>14. ASSUME NEW fresh \in BOOLEAN PROVE SpokePart(SyncSpokeOracle(s, fresh))
    <2>1. PICK feed, rec, A, B, D, E :
            /\ feed = (IF fresh THEN New(s, "feed") ELSE docs[s].feed)
            /\ rec = [docs[s] EXCEPT !.feed = feed]
            /\ A = Unless(~fresh, Create(feed, {}))
            /\ B = Unless(docs[s].oracle = None, SetIfMissing(docs[s].oracle, "feed", feed))
            /\ D = Write(s, rec) /\ E = Copy(s)
      OBVIOUS
    <2>2. feed \in Entry(s)
      BY <2>1, <1>2, <1>3, <1>5
    <2>3. rec \in [Fields -> Entry(s)]
      BY <2>1, <2>2, <1>1
    <2>4. SpokePart(A)
      BY <2>1, <1>2, <1>3, <1>6 DEF Unless
    <2>5. SpokePart(B)
      BY <2>1, <1>5, <1>6, SpokeSet DEF Unless
    <2>6. SpokePart(D) /\ SpokePart(E)
      BY <2>1, <2>3, SpokeFiles
    <2>7. SpokePart(A \o B \o D \o E)
      BY <2>4, <2>5, <2>6, SpokeTogether
    <2> QED BY <2>1, <2>7 DEF SyncSpokeOracle
  <1> QED BY <1>8, <1>9, <1>10, <1>11, <1>12, <1>13, <1>14

-----------------------------------------------------------------------------
(* The deployment: the scripts of the hub and of the mesh.                 *)

\* A role may be granted at any time.
LEMMA RoleSpares ==
  ASSUME NEW x, NEW role \in Roles, NEW who, NEW r
  PROVE  Spares(<<x, role, who>>, r)
  BY DEF Spares

LEMMA Unrolled ==
  ASSUME NEW f, NEW ss, \A i \in 1 .. 7 : f[i] = IF i = 1 THEN ss[i] ELSE f[i - 1] \o ss[i]
  PROVE  /\ f[2] = f[1] \o ss[2] /\ f[3] = f[2] \o ss[3] /\ f[4] = f[3] \o ss[4]
         /\ f[5] = f[4] \o ss[5] /\ f[6] = f[5] \o ss[6] /\ f[7] = f[6] \o ss[7]
  <1>2. f[2] = f[1] \o ss[2]
    <2>1. 2 \in 1 .. 7 /\ 2 # 1 /\ 2 - 1 = 1
      OBVIOUS
    <2>2. f[2] = f[2 - 1] \o ss[2]
      BY <2>1
    <2> QED BY <2>1, <2>2
  <1>3. f[3] = f[2] \o ss[3]
    <2>1. 3 \in 1 .. 7 /\ 3 # 1 /\ 3 - 1 = 2
      OBVIOUS
    <2>2. f[3] = f[3 - 1] \o ss[3]
      BY <2>1
    <2> QED BY <2>1, <2>2
  <1>4. f[4] = f[3] \o ss[4]
    <2>1. 4 \in 1 .. 7 /\ 4 # 1 /\ 4 - 1 = 3
      OBVIOUS
    <2>2. f[4] = f[4 - 1] \o ss[4]
      BY <2>1
    <2> QED BY <2>1, <2>2
  <1>5. f[5] = f[4] \o ss[5]
    <2>1. 5 \in 1 .. 7 /\ 5 # 1 /\ 5 - 1 = 4
      OBVIOUS
    <2>2. f[5] = f[5 - 1] \o ss[5]
      BY <2>1
    <2> QED BY <2>1, <2>2
  <1>6. f[6] = f[5] \o ss[6]
    <2>1. 6 \in 1 .. 7 /\ 6 # 1 /\ 6 - 1 = 5
      OBVIOUS
    <2>2. f[6] = f[6 - 1] \o ss[6]
      BY <2>1
    <2> QED BY <2>1, <2>2
  <1>7. f[7] = f[6] \o ss[7]
    <2>1. 7 \in 1 .. 7 /\ 7 # 1 /\ 7 - 1 = 6
      OBVIOUS
    <2>2. f[7] = f[7 - 1] \o ss[7]
      BY <2>1
    <2> QED BY <2>1, <2>2
  <1> QED BY <1>2, <1>3, <1>4, <1>5, <1>6, <1>7

LEMMA GrantsPart ==
  ASSUME NEW h, NEW done, NEW r
  PROVE  /\ Part(Grants(HubRoles(h), done), r)
         /\ ToSet(HubRoles(h)) \ done \subseteq Given(StepsOf(Grants(HubRoles(h), done)))
         /\ Made(StepsOf(Grants(HubRoles(h), done))) = {}
  <1>1. PICK q : q = HubRoles(h)
    OBVIOUS
  <1>2. DOMAIN q = 1 .. 7
    BY <1>1 DEF HubRoles
  <1>3. \A i \in 1 .. 7 : q[i] = <<q[i][1], q[i][2], q[i][3]>> /\ q[i][2] \in Roles
    <2>1. /\ q[1] = <<h.sbt, "SCORER", h.engine>> /\ q[2] = <<h.engine, "SCORER", Agent>>
          /\ q[3] = <<h.sbt, "SCORER", Agent>> /\ q[4] = <<h.sbt, "AGENT", Agent>>
          /\ q[5] = <<h.sbt, "AGENT", h.lending>> /\ q[6] = <<h.lending, "AGENT", Agent>>
          /\ q[7] = <<h.oapp, "AGENT", Agent>>
      BY <1>1 DEF HubRoles
    <2>2. 1 .. 7 = {1, 2, 3, 4, 5, 6, 7}
      OBVIOUS
    <2>3. "SCORER" \in Roles /\ "AGENT" \in Roles
      BY DEF Roles
    <2>4. ASSUME NEW a, NEW b, NEW c PROVE <<a, b, c>>[1] = a /\ <<a, b, c>>[2] = b /\ <<a, b, c>>[3] = c
      OBVIOUS
    <2>5. ASSUME NEW a, NEW b \in Roles, NEW c, NEW i, q[i] = <<a, b, c>>
          PROVE  q[i] = <<q[i][1], q[i][2], q[i][3]>> /\ q[i][2] \in Roles
      BY <2>5
    <2> QED BY <2>1, <2>2, <2>3, <2>5
  <1>4. PICK ss : ss = [i \in 1 .. 7 |-> Unless(q[i] \in done, Set(q[i][1], q[i][2], q[i][3]))]
    OBVIOUS
  <1>5. Grants(q, done) = FlattenSeq(ss)
    BY <1>2, <1>4 DEF Grants
  <1>6. ASSUME NEW i \in 1 .. 7
        PROVE  /\ Part(ss[i], r) /\ Made(StepsOf(ss[i])) = {}
               /\ q[i] \notin done => q[i] \in Given(StepsOf(ss[i]))
    <2>1. PICK T : T = Set(q[i][1], q[i][2], q[i][3])
      OBVIOUS
    <2>2. Part(T, r) /\ Given(StepsOf(T)) = {q[i]} /\ Made(StepsOf(T)) = {}
      <3>1. PICK a, b, c : a = q[i][1] /\ b = q[i][2] /\ c = q[i][3]
        OBVIOUS
      <3>2. b \in Roles /\ q[i] = <<a, b, c>> /\ T = Set(a, b, c)
        BY <1>3, <2>1, <3>1
      <3>3. Spares(<<a, b, c>>, docs["hub"]) /\ Spares(<<a, b, c>>, r)
        BY <3>2, RoleSpares
      <3> QED BY <3>2, <3>3, SetPart
    <2>3. Part(<<>>, r) /\ Made(StepsOf(<<>>)) = {}
      BY NoPart
    <2>4. ss[i] = IF q[i] \in done THEN <<>> ELSE T
      BY <1>4, <2>1 DEF Unless
    <2> QED BY <2>2, <2>3, <2>4
  <1>7. PICK A : A = UNION {StepsOf(ss[i]) : i \in 1 .. 7}
    OBVIOUS
  <1>8. \A i \in 1 .. 7 : ss[i] \in Seq(A)
    <2>1. ASSUME NEW i \in 1 .. 7 PROVE ss[i] \in Seq(A)
      <3>1. ss[i] \in Seq(StepsOf(ss[i])) /\ StepsOf(ss[i]) \subseteq A
        BY <1>6, <1>7 DEF Part, IsList
      <3> QED BY <3>1
    <2> QED BY <2>1
  <1>9. Len(ss) = 7
    BY <1>4, <1>8
  <1>10. PICK f \in [1 .. 7 -> Seq(A)] : Flattens(f, ss, 7)
    <2>1. PICK C : C = Seq(A)
      OBVIOUS
    <2>2. (\A a, b \in C : a \o b \in C) /\ \A i \in 1 .. 7 : ss[i] \in C
      BY <1>8, <2>1, ConcatProperties
    <2>3. PICK n : n = 7
      OBVIOUS
    <2>4. n \in Nat \ {0} /\ Len(ss) = n /\ \A i \in 1 .. n : ss[i] \in C
      BY <1>9, <2>2, <2>3
    <2>5. \E f \in [1 .. n -> C] : Flattens(f, ss, n)
      BY <2>2, <2>4, Flattening, Zenon
    <2> QED BY <2>1, <2>3, <2>5
  <1>11. FlattenSeq(ss) = f[7] /\ f[1] = ss[1]
         /\ f[2] = f[1] \o ss[2] /\ f[3] = f[2] \o ss[3] /\ f[4] = f[3] \o ss[4]
         /\ f[5] = f[4] \o ss[5] /\ f[6] = f[5] \o ss[6] /\ f[7] = f[6] \o ss[7]
    <2>1. /\ FlattenSeq(ss) = f[7]
          /\ \A i \in 1 .. 7 : f[i] = IF i = 1 THEN ss[i] ELSE f[i - 1] \o ss[i]
      BY <1>10 DEF Flattens
    <2>2. /\ f[2] = f[1] \o ss[2] /\ f[3] = f[2] \o ss[3] /\ f[4] = f[3] \o ss[4]
          /\ f[5] = f[4] \o ss[5] /\ f[6] = f[5] \o ss[6] /\ f[7] = f[6] \o ss[7]
      BY <2>1, Unrolled, Zenon
    <2>6. FlattenSeq(ss) = f[7] /\ f[1] = ss[1]
      BY <2>1
    <2> QED BY <2>2, <2>6
  <1> DEFINE Fits(T, n) == /\ Part(T, r) /\ Made(StepsOf(T)) = {}
                           /\ \A i \in 1 .. n : q[i] \notin done => q[i] \in Given(StepsOf(T))
  <1>12. ASSUME NEW T, NEW n \in 1 .. 6, Fits(T, n) PROVE Fits(T \o ss[n + 1], n + 1)
    <2>1. /\ Part(ss[n + 1], r) /\ Made(StepsOf(ss[n + 1])) = {}
          /\ q[n + 1] \notin done => q[n + 1] \in Given(StepsOf(ss[n + 1]))
      BY <1>6
    <2>2. /\ Part(T \o ss[n + 1], r)
          /\ Given(StepsOf(T \o ss[n + 1])) = Given(StepsOf(T)) \cup Given(StepsOf(ss[n + 1]))
          /\ Made(StepsOf(T \o ss[n + 1])) = Made(StepsOf(T)) \cup Made(StepsOf(ss[n + 1]))
      <3>1. PICK u : u = ss[n + 1]
        OBVIOUS
      <3>2. Part(u, r) /\ Part(T, r)
        BY <1>12, <2>1, <3>1
      <3>3. /\ Part(T \o u, r)
            /\ Given(StepsOf(T \o u)) = Given(StepsOf(T)) \cup Given(StepsOf(u))
            /\ Made(StepsOf(T \o u)) = Made(StepsOf(T)) \cup Made(StepsOf(u))
        <4>1. Part(T \o u, r)
          BY <3>2, Together
        <4>2. IsList(T) /\ IsList(u)
          BY <3>2 DEF Part
        <4>3. Given(StepsOf(T \o u)) = Given(StepsOf(T)) \cup Given(StepsOf(u))
          BY <4>2, GivenTogether
        <4>4. Made(StepsOf(T \o u)) = Made(StepsOf(T)) \cup Made(StepsOf(u))
          BY <4>2, MadeTogether
        <4> QED BY <4>1, <4>3, <4>4
      <3> QED BY <3>1, <3>3
    <2>3. \A i \in 1 .. n + 1 : i \in 1 .. n \/ i = n + 1
      BY SMTT(60)
    <2> QED BY <1>12, <2>1, <2>2, <2>3
  <1>13. Fits(f[1], 1)
    BY SMTT(60), <1>6, <1>11
  <1> HIDE DEF Fits
  <1>14. Fits(f[2], 2)
    BY SMTT(60), <1>11, <1>12, <1>13
  <1>15. Fits(f[3], 3)
    BY SMTT(60), <1>11, <1>12, <1>14
  <1>16. Fits(f[4], 4)
    BY SMTT(60), <1>11, <1>12, <1>15
  <1>17. Fits(f[5], 5)
    BY SMTT(60), <1>11, <1>12, <1>16
  <1>18. Fits(f[6], 6)
    BY SMTT(60), <1>11, <1>12, <1>17
  <1>19. Fits(f[7], 7)
    BY SMTT(60), <1>11, <1>12, <1>18
  <1>20. /\ Part(Grants(q, done), r) /\ Made(StepsOf(Grants(q, done))) = {}
         /\ \A i \in 1 .. 7 : q[i] \notin done => q[i] \in Given(StepsOf(Grants(q, done)))
    BY <1>5, <1>11, <1>19 DEF Fits
  <1>21. ToSet(q) \ done \subseteq Given(StepsOf(Grants(q, done)))
    BY <1>2, <1>20 DEF ToSet
  <1> QED BY <1>1, <1>20, <1>21

\* A part that gives certain facts and makes certain contracts.
Gains(T, r, G, M) == Part(T, r) /\ G \subseteq Given(StepsOf(T)) /\ M \subseteq Made(StepsOf(T))

LEMMA GainsTogether ==
  ASSUME NEW r, NEW s, NEW t, NEW G, NEW M, NEW H, NEW N, Gains(s, r, G, M), Gains(t, r, H, N)
  PROVE  Gains(s \o t, r, G \cup H, M \cup N)
  <1>1. Part(s, r) /\ Part(t, r) /\ IsList(s) /\ IsList(t)
    BY DEF Gains, Part
  <1>2. Part(s \o t, r)
    BY <1>1, Together
  <1>3. Given(StepsOf(s \o t)) = Given(StepsOf(s)) \cup Given(StepsOf(t))
    BY <1>1, GivenTogether
  <1>4. Made(StepsOf(s \o t)) = Made(StepsOf(s)) \cup Made(StepsOf(t))
    BY <1>1, MadeTogether
  <1> QED BY <1>2, <1>3, <1>4 DEF Gains

LEMMA HubCreate ==
  ASSUME DeployInv, NEW k \in Fields, NEW with, NEW r
  PROVE  /\ Gains(Create(New("hub", k), with), r, with, {New("hub", k)})
         /\ New("hub", k) \in At("hub") /\ New("hub", k) \in Entry("hub") /\ New("hub", k) \notin born
  <1>1. /\ New("hub", k) \in At("hub") /\ New("hub", k)[1] = "hub" /\ New("hub", k)[2] = k
        /\ New("hub", k) \notin born
    BY NewIsFresh, WiredFields DEF DeployInv
  <1>2. PICK x : x = New("hub", k)
    OBVIOUS
  <1>3. x \in Contracts /\ x = New(x[1], x[2])
    BY <1>1, <1>2, WiredFields
  <1>4. /\ Part(Create(x, with), r) /\ Given(StepsOf(Create(x, with))) = with
        /\ Made(StepsOf(Create(x, with))) = {x}
    BY <1>3, CreatePart
  <1> QED BY <1>1, <1>2, <1>4 DEF Gains, Entry

LEMMA HubSet ==
  ASSUME NEW r, NEW x, NEW what, NEW value,
         Spares(<<x, what, value>>, docs["hub"]), Spares(<<x, what, value>>, r)
  PROVE  /\ Gains(Set(x, what, value), r, {<<x, what, value>>}, {})
         /\ \A done : Gains(Unless(done, Set(x, what, value)), r, {}, {})
  <1>1. /\ Part(Set(x, what, value), r)
        /\ Given(StepsOf(Set(x, what, value))) = {<<x, what, value>>}
    BY SetPart
  <1>2. ASSUME NEW done PROVE Part(Unless(done, Set(x, what, value)), r)
    BY <1>1, PartUnless
  <1> QED BY <1>1, <1>2 DEF Gains

\* A new hub: its record is written when all is wired.
LEMMA DeployPlan ==
  ASSUME DeployInv, NEW feed \in {None, Feed}
  PROVE  PlanOK(Deploy(feed))
  <1>1. PICK r : r = [f \in Fields |-> IF f = "feed" THEN None ELSE New("hub", f)]
    OBVIOUS
  <1>2. PICK oracle, sbt, engine, p, lending, oapp :
          /\ oracle = New("hub", "oracle") /\ sbt = New("hub", "sbt") /\ engine = New("hub", "engine")
          /\ p = New("hub", "pool") /\ lending = New("hub", "lending") /\ oapp = New("hub", "oapp")
    OBVIOUS
  <1>3. /\ r.oracle = oracle /\ r.sbt = sbt /\ r.engine = engine /\ r.pool = p
        /\ r.lending = lending /\ r.oapp = oapp
    BY <1>1, <1>2 DEF Fields
  <1>5. /\ "oracle" \in Fields /\ "sbt" \in Fields /\ "engine" \in Fields /\ "pool" \in Fields
        /\ "lending" \in Fields /\ "oapp" \in Fields
    BY DEF Fields
  <1>6. /\ p \notin born /\ lending \notin born
        /\ p \in At("hub") /\ lending \in At("hub") /\ engine \in At("hub") /\ oapp \in At("hub")
    BY <1>2, <1>5, HubCreate
  <1>7. r \in [Fields -> Entry("hub")]
    <2>1. \A k \in Fields : New("hub", k) \in Entry("hub")
      BY HubCreate
    <2>2. None \in Entry("hub")
      BY DEF Entry
    <2> QED BY <1>1, <2>1, <2>2
  <1>8. PICK A1, A2, A3, A4, A5, A6, A7, A8, A9, A0 :
          /\ A1 = Create(oracle, {}) /\ A2 = Unless(feed = None, Set(oracle, "feed", feed))
          /\ A3 = Create(sbt, {}) /\ A4 = Create(engine, {<<engine, "sbt", sbt>>})
          /\ A5 = Create(p, {})
          /\ A6 = Create(lending, {<<lending, "sbt", sbt>>, <<lending, "oracle", oracle>>})
          /\ A7 = Create(oapp, {<<oapp, "sbt", sbt>>})
          /\ A8 = Set(p, "lending", lending) /\ A9 = Set(lending, "pool", p)
          /\ A0 = Grants(HubRoles(r), {})
    OBVIOUS
  <1>9. Gains(A1, r, {}, {}) /\ Gains(A3, r, {}, {}) /\ Gains(A5, r, {}, {p})
    <2>1. /\ Gains(A1, r, {}, {oracle}) /\ Gains(A3, r, {}, {sbt}) /\ Gains(A5, r, {}, {p})
      BY <1>2, <1>5, <1>8, HubCreate
    <2> QED BY <2>1 DEF Gains
  <1>10. /\ Gains(A4, r, {<<engine, "sbt", sbt>>}, {engine})
         /\ Gains(A6, r, {<<lending, "sbt", sbt>>}, {lending})
         /\ Gains(A7, r, {<<oapp, "sbt", sbt>>}, {oapp})
    <2>1. /\ Gains(A4, r, {<<engine, "sbt", sbt>>}, {engine})
          /\ Gains(A6, r, {<<lending, "sbt", sbt>>, <<lending, "oracle", oracle>>}, {lending})
          /\ Gains(A7, r, {<<oapp, "sbt", sbt>>}, {oapp})
      BY <1>2, <1>5, <1>8, HubCreate
    <2> QED BY <2>1 DEF Gains
  <1>11. Gains(A2, r, {}, {})
    <2>1. \A h : Spares(<<oracle, "feed", feed>>, h)
      BY SparedOthers
    <2> QED BY <1>8, <2>1, HubSet
  <1>12. Gains(A8, r, {<<p, "lending", lending>>}, {}) /\ Gains(A9, r, {<<lending, "pool", p>>}, {})
    <2>1. <<p, "lending", lending>> \in HubWiring(r) /\ <<lending, "pool", p>> \in HubWiring(r)
      BY <1>3, HubWiringIs
    <2>2. Spares(<<p, "lending", lending>>, r) /\ Spares(<<lending, "pool", p>>, r)
      BY <2>1, SparedOthers
    <2>3. Spares(<<p, "lending", lending>>, docs["hub"]) /\ Spares(<<lending, "pool", p>>, docs["hub"])
      BY <1>6, NewSpares
    <2> QED BY <1>8, <2>2, <2>3, HubSet
  <1>13. Gains(A0, r, ToSet(HubRoles(r)), {})
    <2>1. Part(A0, r) /\ ToSet(HubRoles(r)) \ {} \subseteq Given(StepsOf(A0))
      BY <1>8, GrantsPart
    <2> QED BY <2>1 DEF Gains
  <1>14. PICK B2, B3, B4, B5, B6, B7, B8, B9, B0 :
          /\ B2 = A1 \o A2 /\ B3 = B2 \o A3 /\ B4 = B3 \o A4 /\ B5 = B4 \o A5 /\ B6 = B5 \o A6
          /\ B7 = B6 \o A7 /\ B8 = B7 \o A8 /\ B9 = B8 \o A9 /\ B0 = B9 \o A0
    OBVIOUS
  <1>15. Gains(B2, r, {}, {})
    BY <1>9, <1>11, <1>14, GainsTogether DEF Gains
  <1>16. PICK G4, G6, G7, G8, G9, G0, M4, M5, M6, M7 :
           /\ G4 = {<<engine, "sbt", sbt>>} /\ G6 = G4 \cup {<<lending, "sbt", sbt>>}
           /\ G7 = G6 \cup {<<oapp, "sbt", sbt>>} /\ G8 = G7 \cup {<<p, "lending", lending>>}
           /\ G9 = G8 \cup {<<lending, "pool", p>>} /\ G0 = G9 \cup ToSet(HubRoles(r))
           /\ M4 = {engine} /\ M5 = M4 \cup {p} /\ M6 = M5 \cup {lending} /\ M7 = M6 \cup {oapp}
    OBVIOUS
  <1>17. Gains(B3, r, {} \cup {}, {} \cup {})
    BY <1>9, <1>14, <1>15, GainsTogether
  <1>18. Gains(B4, r, ({} \cup {}) \cup G4, ({} \cup {}) \cup M4)
    BY <1>10, <1>14, <1>16, <1>17, GainsTogether
  <1>19. Gains(B4, r, G4, M4)
    BY <1>18
  <1>20. Gains(B5, r, G4 \cup {}, M5)
    BY <1>9, <1>14, <1>16, <1>19, GainsTogether
  <1>21. Gains(B5, r, G4, M5)
    BY <1>20
  <1>22. Gains(B6, r, G6, M6)
    BY <1>10, <1>14, <1>16, <1>21, GainsTogether
  <1>23. Gains(B7, r, G7, M7)
    BY <1>10, <1>14, <1>16, <1>22, GainsTogether
  <1>24. Gains(B8, r, G8, M7 \cup {})
    BY <1>12, <1>14, <1>16, <1>23, GainsTogether
  <1>25. Gains(B8, r, G8, M7)
    BY <1>24
  <1>26. Gains(B9, r, G9, M7 \cup {})
    BY <1>12, <1>14, <1>16, <1>25, GainsTogether
  <1>27. Gains(B9, r, G9, M7)
    BY <1>26
  <1>28. Gains(B0, r, G0, M7 \cup {})
    BY <1>13, <1>14, <1>16, <1>27, GainsTogether
  <1>29. Part(B0, r) /\ G0 \subseteq Given(StepsOf(B0)) /\ M7 \subseteq Made(StepsOf(B0))
    BY <1>28 DEF Gains
  <1>30. HubWiring(r) \subseteq facts \cup Given(StepsOf(B0))
    <2>1. HubWiring(r) = G0
      BY <1>3, <1>16 DEF HubWiring
    <2> QED BY <1>29, <2>1
  <1>31. \A k \in Wired : r[k] \in At("hub") /\ r[k] \in born \cup Made(StepsOf(B0))
    BY <1>3, <1>6, <1>16, <1>29 DEF Wired
  <1>32. PlanOK(B0 \o Write("hub", r) \o Copy("hub"))
    BY <1>7, <1>29, <1>30, <1>31, RecordPlan
  <1>33. Deploy(feed) =
           Create(r.oracle, {})
             \o Unless(feed = None, Set(r.oracle, "feed", feed))
             \o Create(r.sbt, {}) \o Create(r.engine, {<<r.engine, "sbt", r.sbt>>})
             \o Create(r.pool, {})
             \o Create(r.lending, {<<r.lending, "sbt", r.sbt>>, <<r.lending, "oracle", r.oracle>>})
             \o Create(r.oapp, {<<r.oapp, "sbt", r.sbt>>})
             \o Set(r.pool, "lending", r.lending) \o Set(r.lending, "pool", r.pool)
             \o Grants(HubRoles(r), {})
             \o Write("hub", r) \o Copy("hub")
    BY <1>1, Zenon DEF Deploy
  <1>34. Deploy(feed) = A1 \o A2 \o A3 \o A4 \o A5 \o A6 \o A7 \o A8 \o A9 \o A0
                        \o Write("hub", r) \o Copy("hub")
    BY <1>3, <1>8, <1>33, Zenon
  <1>35. Deploy(feed) = B0 \o Write("hub", r) \o Copy("hub")
    BY <1>14, <1>34, Zenon
  <1> QED BY <1>32, <1>35

\* A finished record of the hub in which one contract is another.
LEMMA HubPlans ==
  ASSUME DeployInv
  PROVE  /\ PlanOK(FinishHubDeploy) /\ PlanOK(NewHubOApp) /\ PlanOK(DeployScoreEngine)
         /\ PlanOK(GrantAgentRoles) /\ \A feed \in {None, Feed} : PlanOK(WireOracle(feed))
  <1>1. PICK h : h = docs["hub"]
    OBVIOUS
  <1>2. /\ HubWiring(h) \subseteq facts /\ h \in [Fields -> Entry("hub")]
        /\ \A k \in Wired : h[k] \in At("hub") /\ h[k] \in born
    BY <1>1, HubContracts
  <1>3. \A T : Part(T, h) => PlanOK(T)
    BY <1>1, PlainPlan
  <1>4. PlanOK(FinishHubDeploy)
    <2>1. PICK A, B, D, E : /\ A = SetIfZero(h.pool, "lending", h.lending)
                            /\ B = SetIfZero(h.lending, "pool", h.pool)
                            /\ D = Grants(HubRoles(h), facts) /\ E = Copy("hub")
      OBVIOUS
    <2>2. <<h.pool, "lending", h.lending>> \in HubWiring(h) /\ <<h.lending, "pool", h.pool>> \in HubWiring(h)
      BY HubWiringIs
    <2>3. Spares(<<h.pool, "lending", h.lending>>, h) /\ Spares(<<h.lending, "pool", h.pool>>, h)
      BY <2>2, SparedOthers
    <2>4. Part(Set(h.pool, "lending", h.lending), h) /\ Part(Set(h.lending, "pool", h.pool), h)
      BY <1>1, <2>3, SetPart
    <2>5. Part(A, h) /\ Part(B, h)
      BY <2>1, <2>4, PartUnless DEF SetIfZero
    <2>6. Part(D, h)
      BY <2>1, GrantsPart
    <2>7. Part(E, h)
      BY <1>2, <2>1, FilePart, WiredFields
    <2>8. Part(A \o B \o D, h)
      BY <2>5, <2>6, Together
    <2>9. Part(A \o B \o D \o E, h)
      BY <2>7, <2>8, Together
    <2> QED BY <1>1, <1>3, <2>1, <2>9 DEF FinishHubDeploy
  <1>5. PlanOK(NewHubOApp)
    <2>1. PICK oapp, rec, A, B : /\ oapp = New("hub", "oapp") /\ rec = [h EXCEPT !.oapp = oapp]
                                 /\ A = Create(oapp, {<<oapp, "sbt", h.sbt>>})
                                 /\ B = Set(oapp, "AGENT", Agent)
      OBVIOUS
    <2>2. /\ Gains(A, rec, {<<oapp, "sbt", h.sbt>>}, {oapp})
          /\ oapp \in At("hub") /\ oapp \in Entry("hub")
      BY <2>1, HubCreate DEF Fields
    <2>3. \A r : Spares(<<oapp, "AGENT", Agent>>, r)
      BY RoleSpares DEF Roles
    <2>4. Gains(B, rec, {<<oapp, "AGENT", Agent>>}, {})
      BY <2>1, <2>3, HubSet
    <2>5. PICK G, M : /\ G = {<<oapp, "sbt", h.sbt>>} \cup {<<oapp, "AGENT", Agent>>}
                      /\ M = {oapp} \cup {}
      OBVIOUS
    <2>6. Gains(A \o B, rec, G, M)
      BY <2>2, <2>4, <2>5, GainsTogether
    <2>7. /\ rec \in [Fields -> Entry("hub")] /\ rec.oapp = oapp
          /\ rec.sbt = h.sbt /\ rec.engine = h.engine /\ rec.pool = h.pool /\ rec.lending = h.lending
      BY <1>2, <2>1, <2>2 DEF Fields
    <2>8. HubWiring(rec) \subseteq HubWiring(h) \cup G
      BY <2>5, <2>7, HubWiringIs
    <2>9. HubWiring(rec) \subseteq facts \cup Given(StepsOf(A \o B))
      BY <1>2, <2>6, <2>8 DEF Gains
    <2>10. \A k \in Wired : rec[k] \in At("hub") /\ rec[k] \in born \cup Made(StepsOf(A \o B))
      BY <1>2, <2>2, <2>5, <2>6, <2>7 DEF Gains, Wired
    <2>11. Part(A \o B, rec)
      BY <2>6 DEF Gains
    <2>12. PlanOK(A \o B \o Write("hub", rec) \o Copy("hub"))
      BY <2>7, <2>9, <2>10, <2>11, RecordPlan
    <2> QED BY <1>1, <2>1, <2>12 DEF NewHubOApp
  <1>6. PlanOK(DeployScoreEngine)
    <2>1. PICK engine, rec, A, B, D :
            /\ engine = New("hub", "engine") /\ rec = [h EXCEPT !.engine = engine]
            /\ A = Create(engine, {<<engine, "sbt", h.sbt>>})
            /\ B = Set(h.sbt, "SCORER", engine) /\ D = Set(engine, "SCORER", Agent)
      OBVIOUS
    <2>2. /\ Gains(A, rec, {<<engine, "sbt", h.sbt>>}, {engine})
          /\ engine \in At("hub") /\ engine \in Entry("hub")
      BY <2>1, HubCreate DEF Fields
    <2>3. \A r : Spares(<<h.sbt, "SCORER", engine>>, r) /\ Spares(<<engine, "SCORER", Agent>>, r)
      BY RoleSpares DEF Roles
    <2>4. /\ Gains(B, rec, {<<h.sbt, "SCORER", engine>>}, {})
          /\ Gains(D, rec, {<<engine, "SCORER", Agent>>}, {})
      BY <2>1, <2>3, HubSet
    <2>5. PICK F, G, M, N : /\ F = {<<engine, "sbt", h.sbt>>} \cup {<<h.sbt, "SCORER", engine>>}
                            /\ G = F \cup {<<engine, "SCORER", Agent>>}
                            /\ M = {engine} \cup {} /\ N = M \cup {}
      OBVIOUS
    <2>6. Gains(A \o B, rec, F, M)
      BY <2>2, <2>4, <2>5, GainsTogether
    <2>7. Gains(A \o B \o D, rec, G, N)
      BY <2>4, <2>5, <2>6, GainsTogether
    <2>8. /\ rec \in [Fields -> Entry("hub")] /\ rec.engine = engine
          /\ rec.sbt = h.sbt /\ rec.oapp = h.oapp /\ rec.pool = h.pool /\ rec.lending = h.lending
      BY <1>2, <2>1, <2>2 DEF Fields
    <2>9. HubWiring(rec) \subseteq HubWiring(h) \cup G
      BY <2>5, <2>8, HubWiringIs
    <2>10. HubWiring(rec) \subseteq facts \cup Given(StepsOf(A \o B \o D))
      BY <1>2, <2>7, <2>9 DEF Gains
    <2>11. \A k \in Wired : rec[k] \in At("hub") /\ rec[k] \in born \cup Made(StepsOf(A \o B \o D))
      BY <1>2, <2>2, <2>5, <2>7, <2>8 DEF Gains, Wired
    <2>12. Part(A \o B \o D, rec)
      BY <2>7 DEF Gains
    <2>13. PlanOK(A \o B \o D \o Write("hub", rec))
      BY <2>8, <2>10, <2>11, <2>12, RecordPlan
    <2> QED BY <1>1, <2>1, <2>13 DEF DeployScoreEngine
  <1>7. PlanOK(GrantAgentRoles)
    <2>1. Spares(<<h.lending, "ADMIN", Agent>>, h)
      BY RoleSpares DEF Roles
    <2>2. Part(SetIfMissing(h.lending, "ADMIN", Agent), h)
      BY <1>1, <2>1, SetPart, PartUnless DEF SetIfMissing
    <2> QED BY <1>1, <1>3, <2>2 DEF GrantAgentRoles
  <1>8. ASSUME NEW feed \in {None, Feed} PROVE PlanOK(WireOracle(feed))
    <2>1. PICK oracle, f, rec, A, B :
            /\ oracle = (IF env[<<"hub", "oracle">>] # None THEN env[<<"hub", "oracle">>] ELSE h.oracle)
            /\ f = (IF feed # None THEN feed ELSE New("hub", "feed"))
            /\ rec = [h EXCEPT !.oracle = oracle, !.feed = f]
            /\ A = Unless(feed # None, Create(f, {})) /\ B = SetIfMissing(oracle, "feed", f)
      OBVIOUS
    <2>2. oracle \in Entry("hub")
      <3>1. <<"hub", "oracle">> \in EnvKeys /\ <<"hub", "oracle">>[1] = "hub"
        BY DEF EnvKeys
      <3>2. env[<<"hub", "oracle">>] \in Entry("hub")
        BY <3>1 DEF DeployInv, DeployTypeOK
      <3> QED BY <1>2, <2>1, <3>2 DEF Fields
    <2>3. New("hub", "feed") \in Entry("hub") /\ Part(Create(New("hub", "feed"), {}), rec)
      BY HubCreate DEF Fields, Gains
    <2>4. f \in Entry("hub")
      BY <2>1, <2>3 DEF Feed, Entry, At, Fields
    <2>5. Part(A, rec)
      BY <2>1, <2>3, NoPart DEF Unless
    <2>6. Part(B, rec)
      <3>1. \A r : Spares(<<oracle, "feed", f>>, r)
        BY SparedOthers
      <3> QED BY <2>1, <3>1, SetPart, PartUnless DEF SetIfMissing
    <2>7. /\ rec \in [Fields -> Entry("hub")] /\ rec.engine = h.engine
          /\ rec.sbt = h.sbt /\ rec.oapp = h.oapp /\ rec.pool = h.pool /\ rec.lending = h.lending
      BY <1>2, <2>1, <2>2, <2>4 DEF Fields
    <2>8. HubWiring(rec) \subseteq facts
      BY <1>2, <2>7, HubWiringIs
    <2>9. \A k \in Wired : rec[k] \in At("hub") /\ rec[k] \in born
      BY <1>2, <2>7 DEF Wired
    <2>10. Part(A \o B, rec)
      BY <2>5, <2>6, Together
    <2>11. PlanOK(A \o B \o Write("hub", rec) \o Copy("hub"))
      BY <2>7, <2>8, <2>9, <2>10, RecordPlan
    <2> QED BY <1>1, <2>1, <2>11 DEF WireOracle
  <1> QED BY <1>4, <1>5, <1>6, <1>7, <1>8

-----------------------------------------------------------------------------
(* The mesh.                                                               *)

\* Lists of steps that do no harm.
LEMMA RowPart ==
  ASSUME NEW A, NEW T \in Seq(A), NEW r,
         \A e \in A : StepOK(e) /\ ~HubWrite(e)
                      /\ (e.op = "set" => Spares(e.fact, docs["hub"]) /\ Spares(e.fact, r))
  PROVE  Part(T, r)
  <1>1. StepsOf(T) \subseteq A
    BY DEF StepsOf
  <1>2. IsList(T)
    <2>1. \A i \in DOMAIN T : T[i] \in StepsOf(T)
      BY DEF StepsOf
    <2> HIDE DEF StepsOf
    <2> QED BY <2>1 DEF IsList
  <1> QED BY <1>1, <1>2 DEF Part, SparedBy

LEMMA MeshPlans ==
  ASSUME DeployInv
  PROVE  PlanOK(WireSpokes) /\ PlanOK(SyncAddresses)
  <1>1. PICK h : h = docs["hub"]
    OBVIOUS
  <1>2. PICK n : n = Cardinality(Spokes)
    OBVIOUS
  <1>3. n \in Nat /\ SetToSeq(Spokes) \in [1 .. n -> Spokes]
    BY <1>2, InARow, DeploymentAssumption
  <1>4. PICK q : q = SetToSeq(Spokes)
    OBVIOUS
  <1>5. \A i \in 1 .. n : q[i] \in Spokes
    BY <1>3, <1>4
  <1>6. PICK A : A = {e \in [op : {"set"}, fact : {<<EnvHubOApp, s, env[<<s, "oapp">>]>> : s \in Spokes}
                                                 \cup {<<docs[s].oapp, "hub", EnvHubOApp>> : s \in Spokes}] : TRUE}
    OBVIOUS
  <1>7. \A e \in A : StepOK(e) /\ ~HubWrite(e) /\ Spares(e.fact, h)
    <2>1. SUFFICES ASSUME NEW e \in A PROVE StepOK(e) /\ ~HubWrite(e) /\ Spares(e.fact, h)
      OBVIOUS
    <2>2. e.op = "set" /\ e.fact \in {<<EnvHubOApp, s, env[<<s, "oapp">>]>> : s \in Spokes}
                                     \cup {<<docs[s].oapp, "hub", EnvHubOApp>> : s \in Spokes}
      BY <1>6
    <2>3. e.fact[2] \in Spokes \cup {"hub"}
      <3>1. CASE \E s \in Spokes : e.fact = <<EnvHubOApp, s, env[<<s, "oapp">>]>>
        BY <3>1
      <3>2. CASE \E s \in Spokes : e.fact = <<docs[s].oapp, "hub", EnvHubOApp>>
        BY <3>2
      <3> QED BY <2>2, <3>1, <3>2
    <2>4. e.fact[2] \notin {"lending", "pool", "sbt"}
      BY <2>3, WiredFields DEF Fields
    <2> QED BY <2>2, <2>4, SparedOthers DEF StepOK, HubWrite
  <1>8. \A T \in Seq(A) : Part(T, h)
    BY <1>1, <1>7, RowPart
  <1>9. SetPeers \in Seq(A)
    <2>1. PICK ss : ss = [i \in 1 .. n |-> Unless(env[<<q[i], "oapp">>] = None,
                                                   Set(EnvHubOApp, q[i], env[<<q[i], "oapp">>]))]
      OBVIOUS
    <2>2. ASSUME NEW i \in 1 .. n PROVE ss[i] \in Seq(A)
      <3>1. PICK e : e = [op |-> "set", fact |-> <<EnvHubOApp, q[i], env[<<q[i], "oapp">>]>>]
        OBVIOUS
      <3>2. e \in A
        BY <1>5, <1>6, <3>1
      <3>3. <<e>> \in Seq(A) /\ <<>> \in Seq(A)
        BY <3>2
      <3>4. Set(EnvHubOApp, q[i], env[<<q[i], "oapp">>]) = <<e>>
        BY <3>1 DEF Set
      <3> QED BY <2>1, <3>3, <3>4 DEF Unless
    <2>3. ss \in [1 .. n -> Seq(A)]
      BY <2>1, <2>2
    <2>4. FlattenSeq(ss) \in Seq(A)
      BY <1>3, <2>3, FlatRow
    <2>5. SetPeers = FlattenSeq(ss)
      BY <1>2, <1>4, <2>1 DEF SetPeers
    <2> QED BY <2>4, <2>5
  <1>10. PICK T : T = FlattenSeq([i \in 1 .. n |-> SetPeerSpoke(q[i])])
    OBVIOUS
  <1>11. T \in Seq(A)
    <2>1. PICK ss : ss = [i \in 1 .. n |-> SetPeerSpoke(q[i])]
      OBVIOUS
    <2>2. ASSUME NEW i \in 1 .. n PROVE ss[i] \in Seq(A)
      <3>1. PICK e : e = [op |-> "set", fact |-> <<docs[q[i]].oapp, "hub", EnvHubOApp>>]
        OBVIOUS
      <3>2. e \in A
        BY <1>5, <1>6, <3>1
      <3>3. <<e>> \in Seq(A)
        BY <3>2
      <3>4. SetPeerSpoke(q[i]) = <<e>>
        BY <3>1 DEF SetPeerSpoke, Set
      <3> QED BY <2>1, <3>3, <3>4
    <2>3. ss \in [1 .. n -> Seq(A)]
      BY <2>1, <2>2
    <2> QED BY <1>3, <1>10, <2>1, <2>3, FlatRow
  <1>12. PlanOK(WireSpokes)
    <2>1. Part(SetPeers, h) /\ Part(T, h)
      BY <1>8, <1>9, <1>11
    <2>2. Part(SetPeers \o T, h)
      BY <2>1, Together
    <2>3. WireSpokes = SetPeers \o T
      BY <1>2, <1>4, <1>10 DEF WireSpokes
    <2> QED BY <1>1, <2>2, <2>3, PlainPlan
  <1>13. PlanOK(SyncAddresses)
    <2>1. IsFiniteSet(Chains)
      <3>1. IsFiniteSet(Spokes \cup {"hub"})
        BY DeploymentAssumption, FS_AddElement
      <3>2. Chains = Spokes \cup {"hub"}
        BY DEF Chains
      <3> QED BY <3>1, <3>2
    <2>2. PICK m : m = Cardinality(Chains)
      OBVIOUS
    <2>3. m \in Nat /\ SetToSeq(Chains) \in [1 .. m -> Chains]
      BY <2>1, <2>2, InARow
    <2>4. PICK p : p = SetToSeq(Chains)
      OBVIOUS
    <2>5. PICK B : B = [op : {"copy"}, file : Chains]
      OBVIOUS
    <2>6. \A e \in B : StepOK(e) /\ ~HubWrite(e) /\ e.op # "set"
      BY <2>5 DEF StepOK, HubWrite
    <2>7. \A U \in Seq(B) : Part(U, h)
      BY <2>6, RowPart
    <2>8. PICK ss : ss = [i \in 1 .. m |-> Copy(p[i])]
      OBVIOUS
    <2>9. ASSUME NEW i \in 1 .. m PROVE ss[i] \in Seq(B)
      <3>1. PICK e : e = [op |-> "copy", file |-> p[i]]
        OBVIOUS
      <3>2. e \in B
        BY <2>3, <2>4, <2>5, <3>1
      <3>3. <<e>> \in Seq(B)
        BY <3>2
      <3>4. Copy(p[i]) = <<e>>
        BY <3>1 DEF Copy
      <3> QED BY <2>8, <3>3, <3>4
    <2>10. ss \in [1 .. m -> Seq(B)]
      BY <2>8, <2>9
    <2>11. FlattenSeq(ss) \in Seq(B)
      BY <2>3, <2>10, FlatRow
    <2>12. Part(FlattenSeq(ss), h)
      BY <2>7, <2>11
    <2>13. PICK values : values = [k \in {k \in EnvKeys : docs[k[1]][k[2]] # None} |-> docs[k[1]][k[2]]]
      OBVIOUS
    <2>14. \A k \in EnvKeys \cap DOMAIN values : values[k] \in Entry(k[1])
      <3>1. ASSUME NEW k \in EnvKeys PROVE k[1] \in Chains /\ k[2] \in Fields
        <4>1. k[1] \in {"hub"} \cup Spokes /\ k[2] \in {"oapp", "lending", "oracle", "sbt", "engine"}
          BY DEF EnvKeys
        <4> QED BY <4>1 DEF Chains, Fields
      <3>2. ASSUME NEW k \in EnvKeys PROVE docs[k[1]][k[2]] \in Entry(k[1])
        BY <3>1 DEF DeployInv, DeployTypeOK
      <3> QED BY <2>13, <3>2
    <2>15. PICK e : e = [op |-> "env", values |-> values]
      OBVIOUS
    <2>16. PutEnv(values) = <<e>> /\ e.op = "env" /\ e.values = values
      BY <2>15 DEF PutEnv
    <2>17. StepOK(e) /\ ~HubWrite(e) /\ IsList(<<e>>) /\ StepsOf(<<e>>) = {e}
      BY <2>14, <2>16, OneStep DEF StepOK, HubWrite
    <2>18. Part(PutEnv(values), h)
      BY <2>16, <2>17 DEF Part, SparedBy
    <2>19. Part(FlattenSeq(ss) \o PutEnv(values), h)
      BY <2>12, <2>18, Together
    <2>20. SyncAddresses = FlattenSeq(ss) \o PutEnv(values)
      BY <2>2, <2>4, <2>8, <2>13 DEF SyncAddresses
    <2> QED BY <1>1, <2>19, <2>20, PlainPlan
  <1> QED BY <1>12, <1>13

-----------------------------------------------------------------------------
(* The deployment: every step of the operator.                             *)

LEMMA RunKeeps ==
  ASSUME DeployInv, NEW name, NEW chain, NEW T, Run(name, chain, T), PlanOK(T)
  PROVE  DeployInv'
  <1>1. /\ todo' = T /\ printed' = {} /\ born' = born /\ facts' = facts /\ docs' = docs /\ env' = env
    BY DEF Run, chainVars, fileVars
  <1>2. \A c, k : Kin(c, k)' = Kin(c, k) /\ New(c, k)' = New(c, k)
    BY <1>1 DEF Kin, New
  <1>3. DeployTypeOK'
    BY <1>1, <1>2 DEF DeployInv, DeployTypeOK
  <1>4. \A e : StepOK(e)' <=> StepOK(e)
    BY <1>1, <1>2 DEF StepOK
  <1>5. \A r, S : Complete(r, S)' <=> Complete(r, S)
    BY <1>1 DEF Complete
  <1>6. PlanOK(todo)'
    BY <1>1, <1>4, <1>5 DEF PlanOK, IsList, WritesLast, StepsOf, HubWrite, SparedBy
  <1>7. Complete(docs["hub"], {})'
    BY <1>1 DEF DeployInv, Complete
  <1> QED BY <1>3, <1>6, <1>7 DEF DeployInv

\* A record completed by hand keeps its OApp.
LEMMA EditIs ==
  ASSUME DeployInv, NEW s \in Spokes, EditRecord(s)
  PROVE  /\ \E rec \in [Fields -> Entry(s)] : docs' = [docs EXCEPT ![s] = rec] /\ rec.oapp = docs[s].oapp
         /\ \A c \in Chains : docs'[c].oapp = docs[c].oapp
  <1>8. PICK old \in Existing(s) :
          docs' = [docs EXCEPT ![s] =
             [docs[s] EXCEPT !.oracle = IF old.oracle # None THEN old.oracle ELSE docs[s].oracle,
                             !.pool = IF old.pool # None THEN old.pool ELSE docs[s].pool,
                             !.feed = IF old.feed # None THEN old.feed ELSE docs[s].feed,
                             !.lending = IF old.lending # None THEN old.lending ELSE docs[s].lending]]
    BY Zenon DEF EditRecord
  <1>9. PICK o, p, f, l :
          /\ o = (IF old.oracle # None THEN old.oracle ELSE docs[s].oracle)
          /\ p = (IF old.pool # None THEN old.pool ELSE docs[s].pool)
          /\ f = (IF old.feed # None THEN old.feed ELSE docs[s].feed)
          /\ l = (IF old.lending # None THEN old.lending ELSE docs[s].lending)
    OBVIOUS
  <1>10. PICK rec : rec = [docs[s] EXCEPT !.oracle = o, !.pool = p, !.feed = f, !.lending = l]
    OBVIOUS
  <1>1. /\ o \in {old.oracle, docs[s].oracle} /\ p \in {old.pool, docs[s].pool}
        /\ f \in {old.feed, docs[s].feed} /\ l \in {old.lending, docs[s].lending}
        /\ rec = [docs[s] EXCEPT !.oracle = o, !.pool = p, !.feed = f, !.lending = l]
        /\ docs' = [docs EXCEPT ![s] = rec]
    <2>1. docs' = [docs EXCEPT ![s] = [docs[s] EXCEPT !.oracle = o, !.pool = p, !.feed = f, !.lending = l]]
      BY <1>8, <1>9, Zenon
    <2>2. docs' = [docs EXCEPT ![s] = rec]
      BY <1>10, <2>1, Zenon
    <2> QED BY <1>9, <1>10, <2>2
  <1>2. {"oracle", "pool", "feed", "lending", "oapp"} \subseteq Fields
    BY DEF Fields
  <1>3. docs[s] \in [Fields -> Entry(s)] /\ \A k \in Fields : docs[s][k] \in Entry(s)
    BY SpokeRecord
  <1>4. o \in Entry(s) /\ p \in Entry(s) /\ f \in Entry(s) /\ l \in Entry(s)
    BY <1>1, <1>2, <1>3, ExistingFit
  <1>5. rec \in [Fields -> Entry(s)] /\ rec.oapp = docs[s].oapp
    BY <1>1, <1>2, <1>3, <1>4
  <1>6. s \in Chains /\ docs \in [Chains -> [Fields -> Contracts \cup {None}]]
    BY WiredFields DEF DeployInv, DeployTypeOK
  <1>7. \A c \in Chains : docs'[c] = IF c = s THEN rec ELSE docs[c]
    BY <1>1, <1>6
  <1> QED BY <1>1, <1>5, <1>7

LEMMA EditsKeep ==
  ASSUME DeployInv, (\E c \in Chains : EditEnv(c)) \/ (\E s \in Spokes : EditRecord(s))
  PROVE  DeployInv'
  <1>1. UNCHANGED <<todo, born, facts, printed>>
    BY DEF EditEnv, EditRecord, chainVars
  <1>2. \A c, k : Kin(c, k)' = Kin(c, k) /\ New(c, k)' = New(c, k)
    BY <1>1 DEF Kin, New
  <1>3. DeployTypeOK' /\ docs["hub"]' = docs["hub"]
    <2>1. CASE \E c \in Chains : EditEnv(c)
      <3>1. PICK c \in Chains : env' = [env EXCEPT ![<<c, "oapp">>] = docs[c].oapp] /\ docs' = docs
        BY <2>1 DEF EditEnv
      <3>2. docs[c].oapp \in Entry(c) /\ docs[c].oapp \in Contracts \cup {None}
        BY DEF DeployInv, DeployTypeOK, Fields
      <3>3. /\ env' \in [EnvKeys -> Contracts \cup {None}]
            /\ \A k \in EnvKeys : env'[k] = IF k = <<c, "oapp">> THEN docs[c].oapp ELSE env[k]
        BY <3>1, <3>2 DEF DeployInv, DeployTypeOK
      <3>4. \A k \in EnvKeys : env'[k] \in Entry(k[1])
        BY <3>2, <3>3 DEF DeployInv, DeployTypeOK
      <3> QED BY <1>1, <1>2, <3>1, <3>3, <3>4 DEF DeployInv, DeployTypeOK
    <2>2. CASE \E s \in Spokes : EditRecord(s)
      <3>1. PICK s \in Spokes : EditRecord(s)
        BY <2>2
      <3>2. PICK rec \in [Fields -> Entry(s)] : docs' = [docs EXCEPT ![s] = rec] /\ rec.oapp = docs[s].oapp
        BY <3>1, EditIs
      <3>3. s # "hub" /\ s \in Chains /\ env' = env
        BY <3>1, WiredFields DEF EditRecord
      <3>4. docs' = [docs EXCEPT ![s] = rec]
        BY <3>2
      <3>5. rec \in [Fields -> Contracts \cup {None}]
        BY <3>3, WiredFields DEF Entry
      <3>6. /\ docs' \in [Chains -> [Fields -> Contracts \cup {None}]]
            /\ \A c \in Chains : docs'[c] = IF c = s THEN rec ELSE docs[c]
        BY <3>4, <3>5 DEF DeployInv, DeployTypeOK
      <3>7. \A c \in Chains : docs'[c] \in [Fields -> Entry(c)]
        BY <3>3, <3>6 DEF DeployInv, DeployTypeOK
      <3>8. DeployTypeOK'
        BY <1>1, <1>2, <3>3, <3>6, <3>7 DEF DeployInv, DeployTypeOK
      <3> QED BY <3>3, <3>6, <3>8, WiredFields
    <2> QED BY <2>1, <2>2
  <1>4. \A e : StepOK(e)' <=> StepOK(e)
    BY <1>1, <1>2 DEF StepOK
  <1>5. \A r, S : Complete(r, S)' <=> Complete(r, S)
    BY <1>1 DEF Complete
  <1>6. PlanOK(todo)'
    BY <1>1, <1>3, <1>4, <1>5 DEF DeployInv, PlanOK, IsList, WritesLast, StepsOf, HubWrite, SparedBy
  <1>7. Complete(docs["hub"], {})'
    BY <1>1, <1>3 DEF DeployInv, Complete
  <1> QED BY <1>3, <1>6, <1>7 DEF DeployInv

\* A script that ends, or stops, has nothing left to do.
LEMMA EndsKeep ==
  ASSUME DeployInv, Finish \/ Interrupt \/ UNCHANGED vars
  PROVE  DeployInv'
  <1>1. /\ born' = born /\ facts' = facts /\ docs' = docs /\ env' = env /\ printed' = printed
        /\ todo' \in {todo, <<>>}
    BY DEF Finish, Interrupt, vars, chainVars, fileVars
  <1>2. \A c, k : Kin(c, k)' = Kin(c, k) /\ New(c, k)' = New(c, k)
    BY <1>1 DEF Kin, New
  <1>3. DeployTypeOK'
    BY <1>1, <1>2 DEF DeployInv, DeployTypeOK
  <1>4. \A e : StepOK(e)' <=> StepOK(e)
    BY <1>1, <1>2 DEF StepOK
  <1>5. \A r, S : Complete(r, S)' <=> Complete(r, S)
    BY <1>1 DEF Complete
  <1>6. PICK T : T = todo'
    OBVIOUS
  <1>7. PlanOK(T)
    <2>1. Part(<<>>, docs["hub"])
      BY NoPart
    <2>2. PlanOK(<<>>)
      BY <2>1, PlainPlan
    <2> QED BY <1>1, <1>6, <2>2 DEF DeployInv
  <1>8. PlanOK(todo)'
    BY <1>1, <1>4, <1>5, <1>6, <1>7 DEF PlanOK, IsList, WritesLast, StepsOf, HubWrite, SparedBy
  <1>9. Complete(docs["hub"], {})'
    BY <1>1 DEF DeployInv, Complete
  <1> QED BY <1>3, <1>8, <1>9 DEF DeployInv

LEMMA DeployNextOK ==
  ASSUME DeployInv, [Next]_vars
  PROVE  DeployInv'
  <1>1. CASE RunHubScript
    <2>1. ASSUME NEW name, NEW T, Run(name, "hub", T), PlanOK(T) PROVE DeployInv'
      BY <2>1, RunKeeps
    <2>2. /\ PlanOK(FinishHubDeploy) /\ PlanOK(NewHubOApp) /\ PlanOK(DeployScoreEngine)
          /\ PlanOK(GrantAgentRoles) /\ \A feed \in {None, Feed} : PlanOK(WireOracle(feed))
      BY HubPlans
    <2>3. \A feed \in {None, Feed} : PlanOK(Deploy(feed))
      BY DeployPlan
    <2> QED BY <1>1, <2>1, <2>2, <2>3 DEF RunHubScript, DeployOApp, RedeployOApp
  <1>2. CASE RunMeshScript
    <2>1. PlanOK(WireSpokes) /\ PlanOK(SyncAddresses)
      BY MeshPlans
    <2> QED BY <1>2, <2>1, RunKeeps DEF RunMeshScript
  <1>3. ASSUME NEW s \in Spokes, RunSpokeScript(s) PROVE DeployInv'
    <2>1. ASSUME NEW name, NEW T, Run(name, s, T), SpokePart(T) PROVE DeployInv'
      BY <2>1, PlainPlan, RunKeeps DEF SpokePart
    <2>2. /\ SpokePart(DeploySpoke(s)) /\ SpokePart(DeploySpokeLending(s))
          /\ (\A old \in Existing(s) : SpokePart(FinishSpokeLending(s, old)))
          /\ SpokePart(FinishBaseLending(s)) /\ SpokePart(FinishBaseWiring(s))
          /\ SpokePart(GrantSpokeAgent(s))
          /\ \A fresh \in BOOLEAN : SpokePart(SyncSpokeOracle(s, fresh))
      BY SpokeScripts
    <2> QED BY <1>3, <2>1, <2>2 DEF RunSpokeScript
  <1>4. CASE Step
    BY <1>4, StepKeeps
  <1> QED BY <1>1, <1>2, <1>3, <1>4, EditsKeep, EndsKeep DEF Next

\* At first every recorded contract exists.
LEMMA InitBorn ==
  ASSUME Init
  PROVE  \A c \in Chains, f \in Fields : docs[c][f] # None => docs[c][f] \in born
  <1>1. born = {docs[c][f] : c \in Chains, f \in Fields} \ {None}
    BY DEF Init
  <1> QED BY <1>1

\* The deployment the repository records is complete.
LEMMA DeployInitOK ==
  ASSUME Init
  PROVE  DeployInv
  <1>1. /\ docs = [c \in Chains |-> First(c)] /\ env = [k \in EnvKeys |-> docs[k[1]][k[2]]]
        /\ born = {docs[c][f] : c \in Chains, f \in Fields} \ {None}
        /\ todo = <<>> /\ printed = {} /\ HubWiring(First("hub")) \subseteq facts
    BY DEF Init
  <1>2. \A c \in Chains, f \in Fields :
          First(c)[f] = IF c # "hub" /\ f \in {"sbt", "engine"} THEN None ELSE <<c, f, 1>>
    BY DEF First
  <1>3. ASSUME NEW c \in Chains
        PROVE  First(c) \in [Fields -> Entry(c)] /\ First(c) \in [Fields -> Contracts \cup {None}]
    BY DEF First, Entry, At, Contracts
  <1>4. docs \in [Chains -> [Fields -> Contracts \cup {None}]] /\ \A c \in Chains : docs[c] \in [Fields -> Entry(c)]
    BY <1>1, <1>3
  <1>5. \A k \in EnvKeys : k[1] \in Chains /\ k[2] \in Fields
    <2>1. SUFFICES ASSUME NEW k \in EnvKeys PROVE k[1] \in Chains /\ k[2] \in Fields
      OBVIOUS
    <2>2. k[1] \in {"hub"} \cup Spokes /\ k[2] \in {"oapp", "lending", "oracle", "sbt", "engine"}
      BY DEF EnvKeys
    <2> QED BY <2>2 DEF Chains, Fields
  <1>6. env \in [EnvKeys -> Contracts \cup {None}] /\ \A k \in EnvKeys : env[k] \in Entry(k[1])
    BY <1>1, <1>4, <1>5
  <1>7. \A x \in born : x \in Contracts /\ x = <<x[1], x[2], 1>>
    <2>1. SUFFICES ASSUME NEW x \in born PROVE x \in Contracts /\ x = <<x[1], x[2], 1>>
      OBVIOUS
    <2>2. PICK c \in Chains, f \in Fields : x = First(c)[f] /\ x # None
      BY <1>1
    <2>3. x = <<c, f, 1>>
      BY <1>2, <2>2
    <2> QED BY <2>3 DEF Contracts
  <1>8. ASSUME NEW c \in Chains, NEW k \in Fields
        PROVE  IsFiniteSet(Kin(c, k)) /\ \A x \in Kin(c, k) : x[3] <= Cardinality(Kin(c, k))
    <2>1. Kin(c, k) \subseteq {<<c, k, 1>>}
      BY <1>7 DEF Kin
    <2>2. IsFiniteSet({<<c, k, 1>>}) /\ Cardinality({<<c, k, 1>>}) = 1
      BY FS_Singleton
    <2>3. IsFiniteSet(Kin(c, k))
      BY <2>1, <2>2, FS_Subset
    <2>4. ASSUME NEW x \in Kin(c, k) PROVE x[3] <= Cardinality(Kin(c, k))
      <3>1. Kin(c, k) = {<<c, k, 1>>} /\ x = <<c, k, 1>>
        BY <2>1
      <3> QED BY <2>2, <3>1
    <2> QED BY <2>3, <2>4
  <1>9. DeployTypeOK
    BY <1>1, <1>4, <1>6, <1>7, <1>8 DEF DeployTypeOK
  <1>10. docs["hub"] = First("hub") /\ "hub" \in Chains
    BY <1>1, WiredFields
  <1>11. \A k \in Wired : docs["hub"][k] \in At("hub") /\ docs["hub"][k] \in born
    <2>1. ASSUME NEW k \in Wired PROVE docs["hub"][k] \in At("hub") /\ docs["hub"][k] \in born
      <3>1. k \in Fields /\ docs["hub"][k] = <<"hub", k, 1>>
        BY <1>2, <1>10, WiredFields
      <3>2. <<"hub", k, 1>> # None
        BY DEF None
      <3>3. <<"hub", k, 1>> \in At("hub")
        BY <3>1 DEF At
      <3>4. docs["hub"][k] \in born
        BY <1>10, <3>1, <3>2, InitBorn
      <3> QED BY <3>1, <3>3, <3>4
    <2> QED BY <2>1
  <1>12. Complete(docs["hub"], {})
    <2>1. HubWiring(docs["hub"]) \subseteq facts
      BY <1>1, <1>10
    <2> QED BY <2>1, <1>11 DEF Complete, SparedBy
  <1>13. PlanOK(todo)
    <2>1. Part(<<>>, docs["hub"])
      BY NoPart
    <2> QED BY <1>1, <2>1, PlainPlan
  <1> QED BY <1>9, <1>12, <1>13 DEF DeployInv

-----------------------------------------------------------------------------
(* The deployment: grant-spoke-agent.js.                                   *)

\* The grant that the script makes unless it finds it.
GrantOf(s) ==
  <<IF env[<<s, "oapp">>] # None THEN env[<<s, "oapp">>] ELSE docs[s].oapp, "AGENT", Agent>>

\* While the script runs the grant is there or is the step it has left; when
\* it has ended last the grant is there, and nothing is left to do.
GrantInv ==
  \A s \in Spokes :
    /\ script = <<"grant_spoke_agent", s>> =>
         \/ todo = <<>> /\ GrantOf(s) \in facts
         \/ todo = <<[op |-> "set", fact |-> GrantOf(s)]>>
    /\ last = <<"grant_spoke_agent", s>> => todo = <<>> /\ GrantOf(s) \in facts

LEMMA GrantStarts ==
  ASSUME NEW s \in Spokes, NEW name, NEW chain, NEW T, Run(name, chain, T),
         <<name, chain>> = <<"grant_spoke_agent", s>> => T = GrantSpokeAgent(s)
  PROVE  /\ script' = <<"grant_spoke_agent", s>> =>
              \/ todo' = <<>> /\ GrantOf(s)' \in facts'
              \/ todo' = <<[op |-> "set", fact |-> GrantOf(s)']>>
         /\ last' # <<"grant_spoke_agent", s>>
  <1>1. /\ script' = <<name, chain>> /\ todo' = T /\ last' = Nothing
        /\ facts' = facts /\ env' = env /\ docs' = docs
    BY DEF Run, chainVars, fileVars
  <1>2. last' # <<"grant_spoke_agent", s>>
    BY <1>1 DEF Nothing
  <1>3. GrantOf(s)' = GrantOf(s)
    BY <1>1 DEF GrantOf
  <1>4. GrantSpokeAgent(s) = IF GrantOf(s) \in facts THEN <<>> ELSE <<[op |-> "set", fact |-> GrantOf(s)]>>
    BY DEF GrantSpokeAgent, GrantOf, SetIfMissing, Unless, Set
  <1> QED BY <1>1, <1>2, <1>3, <1>4

\* Nothing but the script itself touches what it reads and grants.
LEMMA GrantKept ==
  ASSUME DeployInv, GrantInv, Next
  PROVE  GrantInv'
  <1>1. SUFFICES ASSUME NEW s \in Spokes
        PROVE  /\ script' = <<"grant_spoke_agent", s>> =>
                    \/ todo' = <<>> /\ GrantOf(s)' \in facts'
                    \/ todo' = <<[op |-> "set", fact |-> GrantOf(s)']>>
               /\ last' = <<"grant_spoke_agent", s>> =>
                    todo' = <<>> /\ GrantOf(s)' \in facts'
    BY DEF GrantInv
  <1> DEFINE mine == <<"grant_spoke_agent", s>>
  <1>2. mine # Nothing
    BY DEF Nothing
  <1>3. ASSUME NEW name, NEW chain, NEW T, Run(name, chain, T), name # "grant_spoke_agent"
        PROVE  script' # mine /\ last' # mine
    BY <1>3 DEF Run, Nothing
  <1>4. CASE RunHubScript \/ RunMeshScript
    BY <1>3, <1>4 DEF RunHubScript, RunMeshScript
  <1>5. ASSUME NEW t \in Spokes, RunSpokeScript(t)
        PROVE  /\ script' = mine =>
                    \/ todo' = <<>> /\ GrantOf(s)' \in facts'
                    \/ todo' = <<[op |-> "set", fact |-> GrantOf(s)']>>
               /\ last' # mine
    <2>1. \/ \E name, T : name # "grant_spoke_agent" /\ Run(name, t, T)
          \/ Run("grant_spoke_agent", t, GrantSpokeAgent(t))
      <3>1. "deploy_spoke" # "grant_spoke_agent" /\ "deploy_spoke_lending" # "grant_spoke_agent"
            /\ "finish_spoke_lending" # "grant_spoke_agent" /\ "finish_base_lending" # "grant_spoke_agent"
            /\ "finish_base_wiring" # "grant_spoke_agent" /\ "sync_spoke_oracle" # "grant_spoke_agent"
        OBVIOUS
      <3> QED BY <1>5, <3>1 DEF RunSpokeScript
    <2>2. CASE \E name, T : name # "grant_spoke_agent" /\ Run(name, t, T)
      BY <1>3, <2>2
    <2>3. CASE Run("grant_spoke_agent", t, GrantSpokeAgent(t))
      <3>1. <<"grant_spoke_agent", t>> = <<"grant_spoke_agent", s>> => GrantSpokeAgent(t) = GrantSpokeAgent(s)
        OBVIOUS
      <3> QED BY <2>3, <3>1, GrantStarts
    <2> QED BY <2>1, <2>2, <2>3
  <1>6. CASE \E t \in Spokes : EditRecord(t)
    <2>1. PICK t \in Spokes : EditRecord(t)
      BY <1>6
    <2>2. /\ script' = script /\ last' = last /\ script = Nothing
          /\ todo' = todo /\ facts' = facts /\ env' = env
      BY <2>1 DEF EditRecord, Idle, chainVars
    <2>3. docs'[s].oapp = docs[s].oapp
      BY <2>1, EditIs, WiredFields
    <2>4. GrantOf(s)' = GrantOf(s)
      BY <2>2, <2>3 DEF GrantOf
    <2> QED BY <1>2, <2>2, <2>4 DEF GrantInv
  <1>7. CASE \E c \in Chains : EditEnv(c)
    <2>1. script' = Nothing /\ \E c : last' \in {<<"redeploy_oapp", c>>, <<"deploy_spoke", c>>}
      BY <1>7 DEF EditEnv, Idle
    <2> QED BY <1>2, <2>1
  <1>8. CASE Step
    <2>1. todo # <<>> /\ last' = last /\ script' = script
      BY <1>8 DEF Step
    <2>2. last # mine
      BY <2>1 DEF GrantInv
    <2>3. CASE script = mine
      <3>1. todo = <<[op |-> "set", fact |-> GrantOf(s)]>>
        BY <2>1, <2>3 DEF GrantInv
      <3>2. PICK e : e = Head(todo)
        OBVIOUS
      <3>3. e.op = "set" /\ e.fact = GrantOf(s) /\ Tail(todo) = <<>>
        BY <3>1, <3>2
      <3>4. todo' = <<>> /\ facts' = Put(GrantOf(s)) /\ docs' = docs /\ env' = env
        BY <1>8, <3>2, <3>3 DEF Step
      <3>5. GrantOf(s)' = GrantOf(s) /\ GrantOf(s) \in facts'
        BY <3>4 DEF GrantOf, Put
      <3> QED BY <2>1, <2>2, <3>1, <3>4, <3>5
    <2> QED BY <2>1, <2>2, <2>3
  <1>9. CASE Finish
    <2>1. /\ todo = <<>> /\ todo' = todo /\ last' = script /\ script' = Nothing
          /\ facts' = facts /\ docs' = docs /\ env' = env
      BY <1>9 DEF Finish, chainVars, fileVars
    <2>2. GrantOf(s)' = GrantOf(s)
      BY <2>1 DEF GrantOf
    <2>3. last' = mine => GrantOf(s) \in facts
      BY <2>1 DEF GrantInv
    <2> QED BY <1>2, <2>1, <2>2, <2>3
  <1>10. CASE Interrupt
    BY <1>2, <1>10 DEF Interrupt
  <1> QED BY <1>4, <1>5, <1>6, <1>7, <1>8, <1>9, <1>10 DEF Next

-----------------------------------------------------------------------------
(* The spokes: the invariant.                                              *)

\* What makes a recorded lending contract work: what its constructor is
\* given, and what is set afterwards.
Built(r) == {<<r.lending, "oapp", r.oapp>>, <<r.lending, "oracle", r.oracle>>}
Wires(r) == {<<r.pool, "lending", r.lending>>, <<r.lending, "pool", r.pool>>,
             <<r.lending, "AGENT", Agent>>}

HasFeed(o)    == \E feed \in born : <<o, "feed", feed>> \in facts
OnePool(l, p) == \A f \in facts : f[1] = l /\ f[2] = "pool" => f = <<l, "pool", p>>

\* A record that holds once the contracts in B exist and the facts in F hold;
\* a full one is wired.
RecordOK(s, r, full, B, F) ==
  /\ r \in [Fields -> Entry(s)] /\ \A k \in Fields : r[k] \in B \cup {None}
  /\ r.oracle # None => HasFeed(r.oracle)
  /\ r.lending # None =>
       /\ r.pool # None /\ r.oracle # None /\ OnePool(r.lending, r.pool)
       /\ Built(r) \subseteq F /\ (full => Wires(r) \subseteq F)

Sound(s) == RecordOK(s, docs[s], s \notin edited, born, facts)

\* A pool that has a lending contract is not wired to another.
Agrees(r, l, p) == r.lending # None => (r.pool = p <=> r.lending = l)

PoolsBorn(s) == \A f \in facts : f[1] \in At(s) /\ f[2] = "pool" => f[1] \in born

\* What the last script printed, and the record made of it.
Prints(s) == {x \in printed : x[1] = s}
Output(s) == [docs[s] EXCEPT !.oracle = Printed(s, "oracle"), !.pool = Printed(s, "pool"),
                             !.lending = Printed(s, "lending"), !.feed = Printed(s, "feed")]

PrintSound(s) ==
  /\ \A x, y \in Prints(s) : x[2] = y[2] => x = y
  /\ Printed(s, "pool") # None =>
       /\ Printed(s, "oracle") # None /\ Printed(s, "feed") # None
       /\ \A k \in {"oapp", "sbt", "engine"} : Printed(s, k) = None
       /\ RecordOK(s, Output(s), FALSE, born, facts)
       /\ Agrees(docs[s], Printed(s, "lending"), Printed(s, "pool"))

\* A step that does not concern a spoke.
Elsewhere(e, s) ==
  /\ e.op = "create" => e.new \notin At(s) /\ \A f \in e.with : f[1] = e.new
  /\ e.op = "set" => e.fact[1] \notin At(s) \/ e.fact[2] \in Chains \cup Roles
  /\ e.op = "write" => e.file # s

Quiet(s) == \A e \in StepsOf(todo) : Elsewhere(e, s)

\* The transactions before a record is written: one contract may be made, the
\* rest are wires of the record, or feeds.
Fresh(X) == IF X # <<>> /\ Head(X).op = "create" THEN {Head(X).new} ELSE {}

MayMake(e, s, r) ==
  /\ e.op = "create" /\ e.new \in At(s) \ born /\ e.new[2] \in {"oapp", "feed", "lending"}
  /\ IF e.new[2] = "lending" THEN e.new = r.lending /\ e.with = Built(r) ELSE e.with = {}
  /\ \A x \in Prints(s) : x[2] # e.new[2]
  /\ Printed(s, "pool") # None => e.new[2] = "lending"

MaySet(e, s, r) ==
  /\ e.op = "set" /\ e.fact[1] \in At(s)
  /\ \/ e.fact = <<e.fact[1], "feed", e.fact[3]>>
     \/ r.lending # None /\ e.fact \in Wires(r)

Pends(s, r, X, Z) ==
  /\ IsList(X) /\ IsList(Z) /\ todo = X \o (Write(s, r) \o Z)
  /\ \A e \in StepsOf(Z) : Elsewhere(e, s)
  /\ X # <<>> => /\ MayMake(Head(X), s, r) \/ MaySet(Head(X), s, r)
                 /\ \A e \in StepsOf(Tail(X)) : MaySet(e, s, r)
  /\ \A e \in StepsOf(X) : e.op = "set" /\ e.fact[2] = "feed" => e.fact[3] \in born \cup Fresh(X)
  /\ RecordOK(s, r, script[1] # "sync_spoke_oracle" \/ s \notin edited, born \cup Fresh(X),
              facts \cup Given(StepsOf(X)))
  /\ Agrees(docs[s], r.lending, r.pool)
  /\ Printed(s, "pool") # None =>
       /\ r.oapp = docs[s].oapp /\ r.pool = Printed(s, "pool") /\ r.oracle = Printed(s, "oracle")
       /\ Fresh(X) = {} => r.lending = Printed(s, "lending")

\* The transactions of a deployment, before it makes the pool and after.
MakeLending(r) == <<[op |-> "create", new |-> r.lending, with |-> Built(r)]>>
Later(s, r) == (MakeLending(r) \o WireSpoke(r.lending, r.pool)) \o (Write(s, r) \o Copy(s))
SetFeed(r) == Set(r.oracle, "feed", r.feed)

Begins(s, r) ==
  /\ r \in [Fields -> Entry(s)] /\ r.oapp = docs[s].oapp
  /\ \A k \in {"sbt", "engine"} : r[k] = docs[s][k]
  /\ \A k \in {"feed", "oracle", "pool", "lending"} : r[k] \in At(s) /\ r[k][2] = k
  /\ r.pool \notin born /\ r.lending \notin born
  /\ script[1] = "deploy_spoke_lending"
  /\ \/ /\ todo = Create(r.feed, {}) \o (Create(r.oracle, {}) \o (SetFeed(r) \o (Create(r.pool, {}) \o Later(s, r))))
        /\ r.feed \notin born /\ r.oracle \notin born /\ Prints(s) = {}
     \/ /\ todo = Create(r.oracle, {}) \o (SetFeed(r) \o (Create(r.pool, {}) \o Later(s, r)))
        /\ r.feed \in born /\ r.oracle \notin born /\ Prints(s) = {r.feed}
     \/ /\ todo = SetFeed(r) \o (Create(r.pool, {}) \o Later(s, r))
        /\ r.feed \in born /\ r.oracle \in born /\ Prints(s) = {r.feed, r.oracle}
     \/ /\ todo = Create(r.pool, {}) \o Later(s, r)
        /\ r.feed \in born /\ r.oracle \in born /\ Prints(s) = {r.feed, r.oracle}
        /\ <<r.oracle, "feed", r.feed>> \in facts

Stage(s) ==
  \/ Quiet(s)
  \/ \E r, X, Z : Pends(s, r, X, Z)
  \/ \E r : Begins(s, r)

SpokeInv ==
  /\ Idle => todo = <<>>
  /\ \A s \in Spokes : Sound(s) /\ PoolsBorn(s) /\ PrintSound(s) /\ Stage(s)

-----------------------------------------------------------------------------
(* The spokes: lists.                                                      *)

LEMMA Joined ==
  ASSUME NEW s, NEW t, NEW u, IsList(s), IsList(t), IsList(u)
  PROVE  (s \o t) \o u = s \o (t \o u)
  <1> DEFINE S == StepsOf(s) \cup StepsOf(t) \cup StepsOf(u)
  <1>1. s \in Seq(S) /\ t \in Seq(S) /\ u \in Seq(S)
    BY DEF IsList
  <1> HIDE DEF S
  <1> QED BY <1>1, ConcatAssociative

LEMMA FirstOf ==
  ASSUME NEW s, NEW t, IsList(s), IsList(t), s # <<>>
  PROVE  s \o t # <<>> /\ Head(s \o t) = Head(s) /\ Tail(s \o t) = Tail(s) \o t
  <1> DEFINE S == StepsOf(s) \cup StepsOf(t)
  <1>1. s \in Seq(S) /\ t \in Seq(S)
    BY DEF IsList
  <1> HIDE DEF S
  <1>2. Len(s) \in Nat \ {0} /\ s \o t \in Seq(S) /\ Len(s \o t) = Len(s) + Len(t) /\ Len(t) \in Nat
    BY <1>1
  <1>3. s \o t # <<>> /\ Head(s \o t) = Head(s)
    BY <1>1, <1>2
  <1>4. Tail(s \o t) = Tail(s) \o t
    BY <1>1, <1>2, ConcatSimplifications
  <1> QED BY <1>3, <1>4

LEMMA OneFirst ==
  ASSUME NEW e, NEW t, IsList(t)
  PROVE  <<e>> \o t # <<>> /\ Head(<<e>> \o t) = e /\ Tail(<<e>> \o t) = t
         /\ IsList(<<e>> \o t) /\ StepsOf(<<e>> \o t) = {e} \cup StepsOf(t)
  <1>1. PICK a : a = <<e>>
    OBVIOUS
  <1>2. a # <<>> /\ Head(a) = e /\ Tail(a) = <<>>
    BY <1>1
  <1>3. IsList(a) /\ StepsOf(a) = {e}
    BY <1>1, OneStep
  <1>4. a \o t # <<>> /\ Head(a \o t) = Head(a) /\ Tail(a \o t) = Tail(a) \o t
    BY <1>2, <1>3, FirstOf
  <1>5. <<>> \o t = t
    BY ConcatEmptySeq DEF IsList
  <1>6. IsList(a \o t) /\ StepsOf(a \o t) = StepsOf(a) \cup StepsOf(t)
    BY <1>3, MoreSteps
  <1> QED BY <1>1, <1>2, <1>3, <1>4, <1>5, <1>6

LEMMA NoneFirst ==
  ASSUME NEW t, IsList(t)
  PROVE  <<>> \o t = t /\ t \o <<>> = t
  BY ConcatEmptySeq DEF IsList

-----------------------------------------------------------------------------
(* The spokes: what a step does to the facts.                              *)

LEMMA OtherNames ==
  /\ \A k \in {"lending", "pool", "oapp", "oracle", "feed"} : k \notin Chains \cup Roles
  /\ "AGENT" \in Roles /\ Wired \subseteq Fields /\ {"oracle", "feed"} \subseteq Fields
  <1>1. {"lending", "pool", "oapp", "oracle", "feed"} \subseteq Fields
    BY DEF Fields
  <1>2. \A s \in Spokes : s \notin Fields
    BY WiredFields
  <1>3. "hub" \notin Fields
    BY DEF Fields
  <1>4. \A k \in {"lending", "pool", "oapp", "oracle", "feed"} : k \notin Chains
    BY <1>1, <1>2, <1>3 DEF Chains
  <1>5. \A k \in {"lending", "pool", "oapp", "oracle", "feed"} : k \notin Roles
    BY DEF Roles
  <1>6. "AGENT" \in Roles
    BY DEF Roles
  <1> QED BY <1>1, <1>4, <1>5, <1>6, WiredFields

LEMMA RecordParts ==
  ASSUME NEW s, NEW r, NEW full, NEW B, NEW F, RecordOK(s, r, full, B, F)
  PROVE  /\ r \in [Fields -> Entry(s)]
         /\ r.oapp \in Entry(s) /\ r.oracle \in Entry(s) /\ r.pool \in Entry(s)
         /\ r.lending \in Entry(s) /\ r.feed \in Entry(s)
         /\ r.oapp \in B \cup {None} /\ r.oracle \in B \cup {None} /\ r.pool \in B \cup {None}
         /\ r.lending \in B \cup {None} /\ r.feed \in B \cup {None}
         /\ r.lending # None => r.lending \in At(s) /\ r.pool \in At(s) /\ r.oracle \in At(s)
  <1>1. r \in [Fields -> Entry(s)] /\ \A k \in Fields : r[k] \in B \cup {None}
    BY DEF RecordOK
  <1>2. /\ r.oapp \in Entry(s) /\ r.oracle \in Entry(s) /\ r.pool \in Entry(s)
        /\ r.lending \in Entry(s) /\ r.feed \in Entry(s)
        /\ r.oapp \in B \cup {None} /\ r.oracle \in B \cup {None} /\ r.pool \in B \cup {None}
        /\ r.lending \in B \cup {None} /\ r.feed \in B \cup {None}
    BY <1>1 DEF Fields
  <1>3. r.lending # None => r.pool # None /\ r.oracle # None
    BY DEF RecordOK
  <1> QED BY <1>1, <1>2, <1>3 DEF Entry

\* A setter that leaves a record of a spoke as it is.
Suits(f, s, r) ==
  \/ f[1] \notin At(s)
  \/ f[2] \in Chains \cup Roles
  \/ f = <<f[1], "feed", f[3]>> /\ f[3] \in born
  \/ /\ f[2] \in {"lending", "pool"}
     /\ r.lending # None => \A g \in Wires(r) : g[1] = f[1] /\ g[2] = f[2] => g = f

LEMMA FeedKept ==
  ASSUME NEW s \in Spokes, NEW f, NEW r, facts' = Put(f), born' = born, Suits(f, s, r),
         NEW o \in At(s), HasFeed(o)
  PROVE  HasFeed(o)'
  <1>1. PICK feed \in born : <<o, "feed", feed>> \in facts
    BY DEF HasFeed
  <1>2. PICK g : g = <<o, "feed", feed>>
    OBVIOUS
  <1>3. g[1] = o /\ g[2] = "feed" /\ g \in facts
    BY <1>1, <1>2
  <1>4. CASE f[1] = o /\ f[2] = "feed"
    <2>1. f = <<o, "feed", f[3]>> /\ f[3] \in born
      BY <1>4, OtherNames DEF Suits
    <2> QED BY <2>1 DEF HasFeed, Put
  <1>5. CASE f[1] # o \/ f[2] # "feed"
    <2>1. g \in Put(f)
      BY <1>3, <1>5 DEF Put
    <2> QED BY <1>2, <2>1 DEF HasFeed
  <1> QED BY <1>4, <1>5

LEMMA BuiltKept ==
  ASSUME NEW s \in Spokes, NEW f, NEW r, Suits(f, s, r), r.lending \in At(s), NEW G,
         Built(r) \subseteq facts \cup {f} \cup G
  PROVE  Built(r) \subseteq Put(f) \cup G
  <1>1. SUFFICES ASSUME NEW g \in Built(r), g # f, g \notin G PROVE g \in Put(f)
    BY DEF Put
  <1>2. g \in facts /\ g[1] = r.lending /\ g[2] \in {"oapp", "oracle"}
    BY <1>1 DEF Built
  <1>3. f[1] # g[1] \/ f[2] # g[2]
    BY <1>2, OtherNames DEF Suits
  <1> QED BY <1>2, <1>3 DEF Put

LEMMA WiresKept ==
  ASSUME NEW s \in Spokes, NEW f, NEW r, Suits(f, s, r), r.lending \in At(s), r.pool \in At(s), NEW G,
         r.lending # None, Wires(r) \subseteq facts \cup {f} \cup G
  PROVE  Wires(r) \subseteq Put(f) \cup G
  <1>1. SUFFICES ASSUME NEW g \in Wires(r), g # f, g \notin G PROVE g \in Put(f)
    BY DEF Put
  <1>2. g \in facts /\ g[1] \in At(s) /\ (g[2] \in {"lending", "pool"} \/ g[2] = "AGENT")
    BY <1>1 DEF Wires
  <1>3. CASE g[2] = "AGENT"
    BY <1>2, <1>3, OtherNames DEF Put
  <1>4. CASE g[2] \in {"lending", "pool"}
    <2>1. f[1] # g[1] \/ f[2] # g[2]
      BY <1>1, <1>2, <1>4, OtherNames DEF Suits
    <2> QED BY <1>2, <2>1 DEF Put
  <1> QED BY <1>2, <1>3, <1>4

LEMMA PoolKept ==
  ASSUME NEW s \in Spokes, NEW f, NEW r, facts' = Put(f), Suits(f, s, r), r.lending \in At(s),
         r.lending # None, OnePool(r.lending, r.pool)
  PROVE  OnePool(r.lending, r.pool)'
  <1>1. SUFFICES ASSUME NEW g \in Put(f), g[1] = r.lending, g[2] = "pool"
                 PROVE  g = <<r.lending, "pool", r.pool>>
    BY DEF OnePool
  <1>2. CASE g \in facts
    BY <1>1, <1>2 DEF OnePool
  <1>3. CASE g = f
    BY <1>1, <1>3, OtherNames DEF Suits, Wires
  <1> QED BY <1>1, <1>2, <1>3 DEF Put

LEMMA SetKeepsRecord ==
  ASSUME NEW s \in Spokes, NEW f, NEW r, NEW full, NEW B, NEW G, facts' = Put(f), born' = born,
         Suits(f, s, r), RecordOK(s, r, full, B, facts \cup {f} \cup G),
         NEW F, F = Put(f) \cup G
  PROVE  RecordOK(s, r, full, B, F)'
  <1>1. /\ r \in [Fields -> Entry(s)] /\ \A k \in Fields : r[k] \in B \cup {None}
        /\ r.oracle \in Entry(s)
        /\ r.lending # None => r.lending \in At(s) /\ r.pool \in At(s)
    BY RecordParts DEF RecordOK
  <1>2. r.oracle # None => HasFeed(r.oracle)'
    <2>1. r.oracle # None => r.oracle \in At(s) /\ HasFeed(r.oracle)
      BY <1>1 DEF RecordOK, Entry
    <2> QED BY <2>1, FeedKept
  <1>3. ASSUME r.lending # None
        PROVE  /\ r.pool # None /\ r.oracle # None /\ OnePool(r.lending, r.pool)'
               /\ Built(r) \subseteq Put(f) \cup G /\ (full => Wires(r) \subseteq Put(f) \cup G)
    <2>1. /\ r.pool # None /\ r.oracle # None /\ OnePool(r.lending, r.pool)
          /\ Built(r) \subseteq facts \cup {f} \cup G /\ (full => Wires(r) \subseteq facts \cup {f} \cup G)
      BY <1>3 DEF RecordOK
    <2> QED BY <1>1, <1>3, <2>1, BuiltKept, WiresKept, PoolKept
  <1> QED BY <1>1, <1>2, <1>3 DEF RecordOK

\* A record stays as good when contracts and facts are added.
LEMMA MoreKeepsRecord ==
  ASSUME NEW s, NEW r, NEW full, NEW B, NEW F, NEW part, NEW C, NEW G, RecordOK(s, r, full, B, F),
         facts \subseteq facts', born \subseteq born',
         \A f \in facts' \ facts : f[1] \notin At(s) \/ f[2] # "pool",
         part => full, B \subseteq C, F \subseteq G
  PROVE  RecordOK(s, r, part, C, G)'
  <1>1. /\ r \in [Fields -> Entry(s)] /\ \A k \in Fields : r[k] \in C \cup {None}
        /\ r.lending # None => r.lending \in At(s)
    BY RecordParts DEF RecordOK
  <1>2. r.oracle # None => HasFeed(r.oracle)'
    BY DEF RecordOK, HasFeed
  <1>3. r.lending # None => OnePool(r.lending, r.pool)'
    <2>1. r.lending # None => OnePool(r.lending, r.pool)
      BY DEF RecordOK
    <2> QED BY <1>1, <2>1 DEF OnePool
  <1>4. r.lending # None => r.pool # None /\ r.oracle # None /\ Built(r) \subseteq G
                            /\ (part => Wires(r) \subseteq G)
    BY DEF RecordOK
  <1> QED BY <1>1, <1>2, <1>3, <1>4 DEF RecordOK

-----------------------------------------------------------------------------
(* The spokes: what is printed.                                            *)

LEMMA PrintedIs ==
  ASSUME printed \subseteq Contracts, NEW s, \A x, y \in Prints(s) : x[2] = y[2] => x = y, NEW k
  PROVE  /\ (\A x \in Prints(s) : x[2] # k) => Printed(s, k) = None
         /\ \A x \in Prints(s) : x[2] = k => Printed(s, k) = x /\ x # None
  <1>1. (\E x \in printed : x[1] = s /\ x[2] = k) <=> (\E x \in Prints(s) : x[2] = k)
    BY DEF Prints
  <1>2. ASSUME NEW x \in Prints(s), x[2] = k PROVE Printed(s, k) = x /\ x # None
    <2>1. PICK y : y = CHOOSE z \in printed : z[1] = s /\ z[2] = k
      OBVIOUS
    <2>2. x \in printed /\ x[1] = s
      BY DEF Prints
    <2>3. y \in printed /\ y[1] = s /\ y[2] = k
      BY <1>2, <2>1, <2>2
    <2>4. y = x
      BY <1>2, <2>3 DEF Prints
    <2> QED BY ZenonT(60), <1>1, <1>2, <2>1, <2>2, <2>4, WiredFields DEF Printed
  <1> QED BY <1>1, <1>2 DEF Printed

LEMMA PrintedThen ==
  ASSUME printed' \subseteq Contracts, NEW s, \A x, y \in Prints(s)' : x[2] = y[2] => x = y, NEW k
  PROVE  /\ (\A x \in Prints(s)' : x[2] # k) => Printed(s, k)' = None
         /\ \A x \in Prints(s)' : x[2] = k => Printed(s, k)' = x /\ x # None
  <1>1. (\E x \in printed' : x[1] = s /\ x[2] = k) <=> (\E x \in Prints(s)' : x[2] = k)
    BY DEF Prints
  <1>2. ASSUME NEW x \in Prints(s)', x[2] = k PROVE Printed(s, k)' = x /\ x # None
    <2>1. PICK y : y = CHOOSE z \in printed' : z[1] = s /\ z[2] = k
      OBVIOUS
    <2>2. x \in printed' /\ x[1] = s
      BY DEF Prints
    <2>3. y \in printed' /\ y[1] = s /\ y[2] = k
      BY <1>2, <2>1, <2>2
    <2>4. y = x
      BY <1>2, <2>3 DEF Prints
    <2> QED BY ZenonT(60), <1>1, <1>2, <2>1, <2>2, <2>4, WiredFields DEF Printed
  <1> QED BY <1>1, <1>2 DEF Printed

\* The same output, and output with one more contract of its kind.
LEMMA PrintsSame ==
  ASSUME printed \subseteq Contracts, printed' \subseteq Contracts, NEW s, Prints(s)' = Prints(s),
         \A x, y \in Prints(s) : x[2] = y[2] => x = y
  PROVE  \A k : Printed(s, k)' = Printed(s, k)
  <1> TAKE k
  <1>1. CASE \A x \in Prints(s) : x[2] # k
    BY <1>1, PrintedIs, PrintedThen
  <1>2. CASE \E x \in Prints(s) : x[2] = k
    BY <1>2, PrintedIs, PrintedThen
  <1> QED BY <1>1, <1>2

LEMMA PrintsMore ==
  ASSUME printed \subseteq Contracts, NEW s, NEW x \in Contracts, x[1] = s, printed' = printed \cup {x},
         \A y, z \in Prints(s) : y[2] = z[2] => y = z, \A y \in Prints(s) : y[2] # x[2]
  PROVE  /\ Prints(s)' = Prints(s) \cup {x}
         /\ \A y, z \in Prints(s)' : y[2] = z[2] => y = z
         /\ \A k : Printed(s, k)' = IF k = x[2] THEN x ELSE Printed(s, k)
  <1>1. Prints(s)' = Prints(s) \cup {x}
    BY DEF Prints
  <1>2. \A y, z \in Prints(s)' : y[2] = z[2] => y = z
    BY <1>1
  <1>3. printed' \subseteq Contracts
    OBVIOUS
  <1>4. ASSUME NEW k PROVE Printed(s, k)' = IF k = x[2] THEN x ELSE Printed(s, k)
    <2>1. CASE k = x[2]
      BY <1>1, <1>2, <1>3, <2>1, PrintedThen
    <2>2. CASE k # x[2] /\ \A y \in Prints(s) : y[2] # k
      BY <1>1, <1>2, <1>3, <2>2, PrintedIs, PrintedThen
    <2>3. CASE k # x[2] /\ \E y \in Prints(s) : y[2] = k
      BY <1>1, <1>2, <1>3, <2>3, PrintedIs, PrintedThen
    <2> QED BY <2>1, <2>2, <2>3
  <1> QED BY <1>1, <1>2, <1>4

-----------------------------------------------------------------------------
(* The spokes: steps that leave a record and the output alone.             *)

\* The facts of a step that makes no pool's lending contract another's.
OnlyMore(s) ==
  /\ facts \subseteq facts' /\ born \subseteq born'
  /\ \A f \in facts' \ facts : f[1] \notin At(s) \/ f[2] # "pool"

LEMMA SpokeTypes ==
  ASSUME DeployInv, NEW s \in Spokes
  PROVE  /\ docs[s] \in [Fields -> Entry(s)] /\ printed \subseteq Contracts /\ born \subseteq Contracts
         /\ docs[s] = [k \in Fields |-> docs[s][k]]
         /\ \A k \in Fields : Printed(s, k) \in Entry(s) /\ docs[s][k] \in Entry(s)
         /\ IsList(todo)
  <1>1. docs[s] \in [Fields -> Entry(s)] /\ \A k \in Fields : Printed(s, k) \in Entry(s) /\ docs[s][k] \in Entry(s)
    BY SpokeRecord
  <1> QED BY <1>1 DEF DeployInv, DeployTypeOK, PlanOK

LEMMA OutputIs ==
  ASSUME DeployInv, NEW s \in Spokes
  PROVE  /\ Output(s) \in [Fields -> Entry(s)]
         /\ Output(s).oracle = Printed(s, "oracle") /\ Output(s).pool = Printed(s, "pool")
         /\ Output(s).lending = Printed(s, "lending") /\ Output(s).feed = Printed(s, "feed")
         /\ Output(s).oapp = docs[s].oapp /\ Output(s).sbt = docs[s].sbt
         /\ Output(s).engine = docs[s].engine
  BY SpokeTypes DEF Output, Fields

LEMMA FrameKeeps ==
  ASSUME DeployInv, DeployInv', NEW s \in Spokes, Sound(s), PoolsBorn(s), PrintSound(s),
         docs[s]' = docs[s], s \in edited' <=> s \in edited, Prints(s)' = Prints(s),
         \/ OnlyMore(s)
         \/ \E f : /\ facts' = Put(f) /\ born' = born
                   /\ Suits(f, s, docs[s]) /\ (Printed(s, "pool") # None => Suits(f, s, Output(s)))
                   /\ f[1] \notin At(s) \/ f[2] # "pool" \/ f[1] \in born
  PROVE  Sound(s)' /\ PoolsBorn(s)' /\ PrintSound(s)'
  <1>1. PICK d, q, b, c, F, G, full :
          /\ d = docs[s] /\ q = Output(s) /\ b = born /\ c = born' /\ F = facts /\ G = facts'
          /\ full = (s \notin edited) /\ full \in BOOLEAN
    OBVIOUS
  <1>2. \A k : Printed(s, k)' = Printed(s, k)
    BY SpokeTypes, PrintsSame DEF PrintSound, DeployInv, DeployTypeOK
  <1>3. Output(s)' = q
    <2>1. /\ Printed(s, "oracle")' = Printed(s, "oracle") /\ Printed(s, "pool")' = Printed(s, "pool")
          /\ Printed(s, "lending")' = Printed(s, "lending") /\ Printed(s, "feed")' = Printed(s, "feed")
      BY <1>2
    <2> QED BY <1>1, <2>1, Zenon DEF Output
  <1>4. RecordOK(s, d, full, b, F)
    BY <1>1 DEF Sound
  <1>5. Printed(s, "pool") # None => RecordOK(s, q, FALSE, b, F)
    BY <1>1 DEF PrintSound
  <1>6. SUFFICES /\ RecordOK(s, d, full, c, G)'
                 /\ (Printed(s, "pool") # None => RecordOK(s, q, FALSE, c, G)')
                 /\ PoolsBorn(s)'
    <2>1. Sound(s)'
      BY <1>1, <1>6 DEF Sound, RecordOK
    <2>2. Printed(s, "pool") # None => RecordOK(s, Output(s), FALSE, born, facts)'
      BY <1>1, <1>3, <1>6 DEF RecordOK
    <2>3. PrintSound(s)'
      BY <1>2, <2>2 DEF PrintSound, Agrees
    <2> QED BY <2>1, <2>3, <1>6
  <1>7. CASE OnlyMore(s)
    <2>1. PoolsBorn(s)'
      BY <1>7 DEF OnlyMore, PoolsBorn
    <2> QED BY <1>1, <1>4, <1>5, <1>7, <2>1, MoreKeepsRecord DEF OnlyMore
  <1>8. ASSUME NEW f, facts' = Put(f), born' = born,
               Suits(f, s, docs[s]), Printed(s, "pool") # None => Suits(f, s, Output(s)),
               f[1] \notin At(s) \/ f[2] # "pool" \/ f[1] \in born
        PROVE  /\ RecordOK(s, d, full, c, G)'
               /\ (Printed(s, "pool") # None => RecordOK(s, q, FALSE, c, G)')
               /\ PoolsBorn(s)'
    <2>1. G = Put(f) \cup {} /\ b = c
      BY <1>1, <1>8
    <2>2. ASSUME NEW r, NEW part, RecordOK(s, r, part, b, F) PROVE RecordOK(s, r, part, b, facts \cup {f} \cup {})
      BY <1>1, <2>2 DEF RecordOK
    <2>3. ASSUME NEW r, NEW part, RecordOK(s, r, part, b, F), Suits(f, s, r) PROVE RecordOK(s, r, part, c, G)'
      <3>1. RecordOK(s, r, part, b, facts \cup {f} \cup {})
        BY <2>2, <2>3
      <3>2. RecordOK(s, r, part, b, G)'
        BY <1>8, <2>1, <2>3, <3>1, SetKeepsRecord
      <3> QED BY <2>1, <3>2
    <2>4. RecordOK(s, d, full, c, G)' /\ (Printed(s, "pool") # None => RecordOK(s, q, FALSE, c, G)')
      BY <1>1, <1>4, <1>5, <1>8, <2>3
    <2>5. PoolsBorn(s)'
      BY <1>8 DEF PoolsBorn, Put
    <2> QED BY <2>4, <2>5
  <1> QED BY <1>7, <1>8

\* A step, by its kind.
LEMMA StepDoes ==
  ASSUME Step, NEW e, e = Head(todo)
  PROVE  /\ todo # <<>> /\ todo' = Tail(todo) /\ script' = script
         /\ e.op = "create" => /\ born' = born \cup {e.new} /\ printed' = printed \cup {e.new}
                               /\ facts' = facts \cup e.with /\ docs' = docs /\ edited' = edited
         /\ e.op = "set" => /\ facts' = Put(e.fact) /\ born' = born /\ printed' = printed
                            /\ docs' = docs /\ edited' = edited
         /\ e.op = "write" => /\ docs' = [docs EXCEPT ![e.file] = e.rec]
                              /\ edited' = IF script[1] = "sync_spoke_oracle" THEN edited ELSE edited \ {e.file}
                              /\ facts' = facts /\ born' = born /\ printed' = printed
         /\ e.op \notin {"create", "set", "write"} =>
              facts' = facts /\ born' = born /\ printed' = printed /\ docs' = docs /\ edited' = edited
  <1>1. todo # <<>> /\ todo' = Tail(todo) /\ script' = script
    BY DEF Step
  <1>2. CASE e.op = "create"
    BY <1>1, <1>2 DEF Step
  <1>3. CASE e.op = "set"
    BY <1>1, <1>3 DEF Step
  <1>4. CASE e.op = "write"
    BY <1>1, <1>4 DEF Step, chainVars
  <1>5. CASE e.op \notin {"create", "set", "write"}
    BY <1>1, <1>5 DEF Step, chainVars
  <1> QED BY <1>2, <1>3, <1>4, <1>5

LEMMA ElsewhereKeeps ==
  ASSUME DeployInv, DeployInv', NEW s \in Spokes, Sound(s), PoolsBorn(s), PrintSound(s), Step,
         Elsewhere(Head(todo), s)
  PROVE  Sound(s)' /\ PoolsBorn(s)' /\ PrintSound(s)'
  <1>1. PICK e : e = Head(todo)
    OBVIOUS
  <1>2. e \in StepsOf(todo) /\ StepOK(e)
    BY <1>1, StepsLeft, StepDoes DEF DeployInv, PlanOK
  <1>3. Elsewhere(e, s) /\ docs \in [Chains -> [Fields -> Contracts \cup {None}]] /\ s \in Chains
    BY <1>1, WiredFields DEF DeployInv, DeployTypeOK
  <1>4. docs[s]' = docs[s] /\ (s \in edited' <=> s \in edited)
    <2>1. CASE e.op = "write"
      BY <1>1, <1>3, <2>1, StepDoes DEF Elsewhere
    <2>2. CASE e.op # "write"
      BY <1>1, <2>2, StepDoes
    <2> QED BY <2>1, <2>2
  <1>5. Prints(s)' = Prints(s)
    <2>1. CASE e.op = "create"
      <3>1. e.new \in Contracts /\ e.new \notin At(s) /\ printed' = printed \cup {e.new}
        BY <1>1, <1>2, <1>3, <2>1, StepDoes DEF Elsewhere, StepOK
      <3>2. e.new[1] # s
        BY <3>1, WiredFields
      <3> QED BY <3>1, <3>2 DEF Prints
    <2>2. CASE e.op # "create"
      BY <1>1, <2>2, StepDoes DEF Prints
    <2> QED BY <2>1, <2>2
  <1>6. CASE e.op # "set"
    <2>1. OnlyMore(s)
      BY <1>1, <1>3, <1>6, StepDoes DEF Elsewhere, OnlyMore
    <2> QED BY <1>4, <1>5, <2>1, FrameKeeps
  <1>7. CASE e.op = "set"
    <2>1. PICK f : f = e.fact
      OBVIOUS
    <2>2. facts' = Put(f) /\ born' = born /\ (f[1] \notin At(s) \/ f[2] \in Chains \cup Roles)
      BY <1>1, <1>3, <1>7, <2>1, StepDoes DEF Elsewhere
    <2>3. f[1] \notin At(s) \/ f[2] # "pool"
      BY <2>2, OtherNames
    <2>4. \A r : Suits(f, s, r)
      BY <2>2 DEF Suits
    <2> QED BY <1>4, <1>5, <2>2, <2>3, <2>4, FrameKeeps
  <1> QED BY <1>6, <1>7

\* A plan that does not concern a spoke goes on.
LEMMA QuietGoesOn ==
  ASSUME DeployInv, DeployInv', NEW s \in Spokes, Sound(s), PoolsBorn(s), PrintSound(s), Step, Quiet(s)
  PROVE  Sound(s)' /\ PoolsBorn(s)' /\ PrintSound(s)' /\ Quiet(s)'
  <1>1. todo # <<>> /\ IsList(todo) /\ todo' = Tail(todo)
    BY StepDoes, SpokeTypes
  <1>2. Head(todo) \in StepsOf(todo) /\ StepsOf(Tail(todo)) \subseteq StepsOf(todo)
    BY <1>1, StepsLeft
  <1>3. Elsewhere(Head(todo), s) /\ \A e \in StepsOf(Tail(todo)) : Elsewhere(e, s)
    BY <1>2 DEF Quiet
  <1>4. Quiet(s)'
    BY <1>1, <1>3 DEF Quiet, StepsOf, Elsewhere
  <1> QED BY <1>3, <1>4, ElsewhereKeeps

-----------------------------------------------------------------------------
(* The spokes: the steps before a record is written.                       *)

LEMMA HeadOfPlan ==
  ASSUME NEW s, NEW r, NEW X, NEW Z, Pends(s, r, X, Z), X # <<>>
  PROVE  /\ Head(todo) = Head(X) /\ Tail(todo) = Tail(X) \o (Write(s, r) \o Z) /\ IsList(Tail(X))
         /\ Head(X) \in StepsOf(X) /\ StepsOf(X) = {Head(X)} \cup StepsOf(Tail(X))
         /\ Tail(X) # <<>> => /\ Head(Tail(X)) \in StepsOf(Tail(X))
                              /\ StepsOf(Tail(Tail(X))) \subseteq StepsOf(Tail(X))
         /\ Fresh(Tail(X)) = {}
  <1>1. IsList(X) /\ IsList(Z) /\ todo = X \o (Write(s, r) \o Z) /\ \A e \in StepsOf(Tail(X)) : MaySet(e, s, r)
    BY DEF Pends
  <1>2. PICK W : W = Write(s, r)
    OBVIOUS
  <1>3. IsList(W)
    BY <1>2, OneStep DEF Write
  <1>4. IsList(W \o Z)
    BY <1>1, <1>3, MoreSteps
  <1>5. Head(todo) = Head(X) /\ Tail(todo) = Tail(X) \o (W \o Z)
    BY <1>1, <1>2, <1>4, FirstOf
  <1>6. IsList(Tail(X)) /\ Head(X) \in StepsOf(X) /\ StepsOf(X) = {Head(X)} \cup StepsOf(Tail(X))
    BY <1>1, StepsLeft
  <1>7. Tail(X) # <<>> => /\ Head(Tail(X)) \in StepsOf(Tail(X))
                          /\ StepsOf(Tail(Tail(X))) \subseteq StepsOf(Tail(X))
    BY <1>6, StepsLeft
  <1>8. Fresh(Tail(X)) = {}
    BY <1>1, <1>7 DEF Fresh, MaySet
  <1> QED BY <1>2, <1>5, <1>6, <1>7, <1>8

\* What is given at once and what is given later.
LEMMA GivenFirst ==
  ASSUME NEW X, NEW e, NEW S, StepsOf(X) = {e} \cup S
  PROVE  /\ e.op = "create" => Given(StepsOf(X)) = e.with \cup Given(S)
         /\ e.op = "set" => Given(StepsOf(X)) = {e.fact} \cup Given(S)
  <1>1. Given({e} \cup S) = Given({e}) \cup Given(S)
    BY DEF Given
  <1>2. e.op = "create" => Given({e}) = e.with
    BY DEF Given
  <1>3. e.op = "set" => Given({e}) = {e.fact}
    BY DEF Given
  <1> QED BY <1>1, <1>2, <1>3

LEMMA PendsMakes ==
  ASSUME DeployInv, DeployInv', NEW s \in Spokes, Sound(s), PoolsBorn(s), PrintSound(s), Step,
         NEW r, NEW X, NEW Z, Pends(s, r, X, Z), X # <<>>, MayMake(Head(X), s, r)
  PROVE  Sound(s)' /\ PoolsBorn(s)' /\ PrintSound(s)' /\ Pends(s, r, Tail(X), Z)'
  <1>1. PICK e, c, F, b, G, T, full :
          /\ e = Head(X) /\ c = born' /\ F = facts' /\ b = born /\ G = facts /\ T = Tail(X)
          /\ full = (script[1] # "sync_spoke_oracle" \/ s \notin edited)
    OBVIOUS
  <1>2. /\ Head(todo) = e /\ Tail(todo) = T \o (Write(s, r) \o Z) /\ IsList(T)
        /\ e \in StepsOf(X) /\ StepsOf(X) = {e} \cup StepsOf(T) /\ Fresh(T) = {}
        /\ T # <<>> => Head(T) \in StepsOf(T) /\ StepsOf(Tail(T)) \subseteq StepsOf(T)
    BY SMTT(60), <1>1, HeadOfPlan
  <1>3. /\ e.op = "create" /\ e.new \in At(s) \ born /\ e.new[2] \in {"oapp", "feed", "lending"}
        /\ IF e.new[2] = "lending" THEN e.new = r.lending /\ e.with = Built(r) ELSE e.with = {}
        /\ \A x \in Prints(s) : x[2] # e.new[2]
        /\ Printed(s, "pool") # None => e.new[2] = "lending"
    BY <1>1 DEF MayMake
  <1>4. /\ todo' = T \o (Write(s, r) \o Z) /\ script' = script
        /\ born' = born \cup {e.new} /\ printed' = printed \cup {e.new}
        /\ facts' = facts \cup e.with /\ docs' = docs /\ edited' = edited
    BY <1>2, <1>3, StepDoes
  <1>5. PICK x : x = e.new
    OBVIOUS
  <1>6. x \in Contracts /\ x[1] = s /\ x # None
    BY <1>3, <1>5, WiredFields
  <1>7. /\ Prints(s)' = Prints(s) \cup {x}
        /\ \A y, z \in Prints(s)' : y[2] = z[2] => y = z
        /\ \A k : Printed(s, k)' = IF k = x[2] THEN x ELSE Printed(s, k)
    <2>1. printed \subseteq Contracts /\ printed' = printed \cup {x} /\ \A y, z \in Prints(s) : y[2] = z[2] => y = z
      BY <1>4, <1>5 DEF DeployInv, DeployTypeOK, PrintSound
    <2>2. \A y \in Prints(s) : y[2] # x[2]
      BY <1>3, <1>5
    <2> QED BY <1>6, <2>1, <2>2, PrintsMore
  <1>8. OnlyMore(s)
    BY <1>3, <1>4 DEF OnlyMore, Built
  <1>9. /\ facts \subseteq facts' /\ born \subseteq born'
        /\ \A f \in facts' \ facts : f[1] \notin At(s) \/ f[2] # "pool"
    BY <1>8 DEF OnlyMore
  <1>10. PoolsBorn(s)'
    BY <1>9 DEF PoolsBorn
  <1>11. Sound(s)'
    <2>1. PICK d, part : d = docs[s] /\ part = (s \notin edited)
      OBVIOUS
    <2>2. RecordOK(s, d, part, b, G)
      BY <1>1, <2>1 DEF Sound
    <2>3. RecordOK(s, d, part, c, F)'
      BY <1>1, <1>9, <2>2, MoreKeepsRecord
    <2> QED BY <1>1, <1>4, <2>1, <2>3 DEF Sound, RecordOK
  <1>12. RecordOK(s, r, full, born \cup Fresh(X), facts \cup Given(StepsOf(X)))
    BY <1>1 DEF Pends
  <1>13. Fresh(X) = {x}
    <2>1. X # <<>> /\ Head(X).op = "create" /\ Head(X).new = x
      BY <1>1, <1>3, <1>5
    <2> QED BY <2>1 DEF Fresh
  <1>14. PICK H : H = facts' \cup Given(StepsOf(T))
    OBVIOUS
  <1>15. Given(StepsOf(X)) = e.with \cup Given(StepsOf(T))
    BY ZenonT(60), <1>2, <1>3, GivenFirst
  <1>16. RecordOK(s, r, full, c, H)'
    <2>1. born \cup Fresh(X) = c /\ facts \cup Given(StepsOf(X)) = H
      BY <1>1, <1>4, <1>5, <1>13, <1>14, <1>15
    <2>2. RecordOK(s, r, full, c, H)
      BY <1>12, <2>1
    <2> QED BY <1>9, <2>2, MoreKeepsRecord
  <1>17. Printed(s, "pool")' = Printed(s, "pool")
    BY <1>3, <1>5, <1>7
  <1>18. Agrees(docs[s], r.lending, r.pool)
    BY DEF Pends
  <1>19. ASSUME Printed(s, "pool") # None
         PROVE  /\ r.oapp = docs[s].oapp /\ r.pool = Printed(s, "pool") /\ r.oracle = Printed(s, "oracle")
                /\ x = r.lending /\ Printed(s, "lending")' = x /\ e.with = Built(r)
                /\ \A k : k # "lending" => Printed(s, k)' = Printed(s, k)
    <2>1. /\ r.oapp = docs[s].oapp /\ r.pool = Printed(s, "pool") /\ r.oracle = Printed(s, "oracle")
      BY <1>19 DEF Pends
    <2> QED BY <1>3, <1>5, <1>7, <1>19, <2>1
  <1>20. PrintSound(s)'
    <2>1. SUFFICES ASSUME Printed(s, "pool") # None
                   PROVE  /\ Printed(s, "oracle")' # None /\ Printed(s, "feed")' # None
                          /\ \A k \in {"oapp", "sbt", "engine"} : Printed(s, k)' = None
                          /\ RecordOK(s, Output(s), FALSE, born, facts)'
                          /\ Agrees(docs[s], Printed(s, "lending"), Printed(s, "pool"))'
      BY <1>7, <1>17 DEF PrintSound
    <2>2. /\ Printed(s, "oracle") # None /\ Printed(s, "feed") # None
          /\ \A k \in {"oapp", "sbt", "engine"} : Printed(s, k) = None
          /\ RecordOK(s, Output(s), FALSE, born, facts)
      BY <2>1 DEF PrintSound
    <2>3. /\ Printed(s, "oracle")' # None /\ Printed(s, "feed")' # None
          /\ \A k \in {"oapp", "sbt", "engine"} : Printed(s, k)' = None
      BY <1>19, <2>1, <2>2
    <2>4. Agrees(docs[s], Printed(s, "lending"), Printed(s, "pool"))'
      BY <1>4, <1>17, <1>18, <1>19, <2>1 DEF Agrees
    <2>5. PICK q, o : q = Output(s)' /\ o = Output(s)
      OBVIOUS
    <2>6. /\ q \in [Fields -> Entry(s)] /\ q = [o EXCEPT !.lending = r.lending]
          /\ q.lending = r.lending /\ q.pool = r.pool /\ q.oracle = r.oracle /\ q.oapp = r.oapp
          /\ o \in [Fields -> Entry(s)] /\ o.oracle = r.oracle
      <3>1. docs[s] \in [Fields -> Entry(s)] /\ docs[s]' = docs[s] /\ r.lending \in Entry(s)
            /\ {"oapp", "lending", "pool", "oracle", "feed"} \subseteq Fields
        BY <1>3, <1>4, <1>5, <1>19, <2>1, SpokeTypes DEF Entry, Fields
      <3>2. /\ Printed(s, "oracle")' = r.oracle /\ Printed(s, "pool")' = r.pool
            /\ Printed(s, "feed")' = Printed(s, "feed") /\ Printed(s, "lending")' = r.lending
            /\ Printed(s, "oracle") = r.oracle /\ Printed(s, "pool") = r.pool
            /\ \A k \in Fields : Printed(s, k) \in Entry(s)
        BY <1>19, <2>1, SpokeTypes
      <3>3. PICK d, p, l, g : d = docs[s] /\ p = Printed(s, "lending") /\ l = r.lending /\ g = Printed(s, "feed")
        OBVIOUS
      <3>4. /\ q = [d EXCEPT !.oracle = r.oracle, !.pool = r.pool, !.lending = l, !.feed = g]
            /\ o = [d EXCEPT !.oracle = r.oracle, !.pool = r.pool, !.lending = p, !.feed = g]
        BY <2>5, <3>1, <3>2, <3>3, Zenon DEF Output
      <3>5. d \in [Fields -> Entry(s)] /\ d.oapp = r.oapp
        BY <1>19, <2>1, <3>1, <3>3
      <3>6. r.oracle \in Entry(s) /\ r.pool \in Entry(s) /\ g \in Entry(s) /\ p \in Entry(s) /\ l \in Entry(s)
        BY <3>1, <3>2, <3>3
      <3> QED BY <3>1, <3>3, <3>4, <3>5, <3>6
    <2>7. \A k \in Fields : q[k] \in c \cup {None}
      <3>1. \A k \in Fields : o[k] \in born \cup {None}
        BY <2>2, <2>5 DEF RecordOK
      <3>2. \A k \in Fields : q[k] = IF k = "lending" THEN r.lending ELSE o[k]
        BY <2>6
      <3> QED BY <1>1, <1>4, <1>5, <1>19, <2>1, <3>1, <3>2
    <2>8. HasFeed(q.oracle)'
      <3>1. RecordOK(s, o, FALSE, b, G)
        BY <1>1, <2>2, <2>5
      <3>2. RecordOK(s, o, FALSE, c, F)'
        BY <1>1, <1>9, <3>1, MoreKeepsRecord
      <3>3. o.oracle # None
        BY <1>19, <2>1, <2>2, <2>6
      <3> QED BY <2>6, <3>2, <3>3 DEF RecordOK
    <2>9. /\ q.pool # None /\ q.oracle # None /\ OnePool(q.lending, q.pool)' /\ Built(q) \subseteq F
      <3>1. r.lending # None
        BY <1>6, <1>19, <2>1
      <3>2. r.pool # None /\ r.oracle # None /\ OnePool(r.lending, r.pool)'
        BY <1>16, <3>1 DEF RecordOK
      <3>3. Built(q) = Built(r)
        BY <2>6 DEF Built
      <3>4. Built(r) \subseteq F
        BY <1>1, <1>4, <1>19, <2>1
      <3> QED BY <2>6, <3>2, <3>3, <3>4
    <2>10. RecordOK(s, q, FALSE, c, F)'
      BY <2>6, <2>7, <2>8, <2>9 DEF RecordOK
    <2> QED BY <1>1, <2>3, <2>4, <2>5, <2>10 DEF RecordOK
  <1>21. Pends(s, r, T, Z)'
    <2>1. IsList(Z) /\ (\A k \in StepsOf(Z) : Elsewhere(k, s)) /\ (\A k \in StepsOf(T) : MaySet(k, s, r))
          /\ \A k \in StepsOf(X) : k.op = "set" /\ k.fact[2] = "feed" => k.fact[3] \in born \cup Fresh(X)
      BY <1>1 DEF Pends
    <2>2. T # <<>> => MaySet(Head(T), s, r) /\ \A k \in StepsOf(Tail(T)) : MaySet(k, s, r)
      BY <1>2, <2>1
    <2>3. \A k \in StepsOf(T) : k.op = "set" /\ k.fact[2] = "feed" => k.fact[3] \in born'
      BY <1>2, <1>4, <1>5, <1>13, <2>1
    <2>4. RecordOK(s, r, script[1] # "sync_spoke_oracle" \/ s \notin edited, born \cup Fresh(T), facts \cup Given(StepsOf(T)))'
      <3>1. /\ full = (script[1] # "sync_spoke_oracle" \/ s \notin edited)' /\ c = (born \cup Fresh(T))'
            /\ H = (facts \cup Given(StepsOf(T)))'
        BY <1>1, <1>2, <1>4, <1>14
      <3> QED BY <1>16, <3>1 DEF RecordOK
    <2>5. Agrees(docs[s], r.lending, r.pool)'
      BY <1>4, <1>18 DEF Agrees
    <2>6. Printed(s, "pool")' # None =>
            /\ r.oapp = docs[s].oapp' /\ r.pool = Printed(s, "pool")' /\ r.oracle = Printed(s, "oracle")'
            /\ r.lending = Printed(s, "lending")'
      BY <1>4, <1>17, <1>19
    <2> QED BY <1>2, <1>4, <2>1, <2>2, <2>3, <2>4, <2>5, <2>6 DEF Pends
  <1> QED BY <1>1, <1>10, <1>11, <1>20, <1>21

\* The wires of a record suit every record that agrees with it.
LEMMA WireSuits ==
  ASSUME NEW s, NEW r, NEW d, NEW f, MaySet([op |-> "set", fact |-> f], s, r),
         f[2] = "feed" => f[3] \in born, Agrees(d, r.lending, r.pool)
  PROVE  Suits(f, s, d)
  <1>1. PICK e : e = [op |-> "set", fact |-> f]
    OBVIOUS
  <1>2. e.fact = f
    BY <1>1
  <1>3. f = <<f[1], "feed", f[3]>> \/ (r.lending # None /\ f \in Wires(r))
    BY <1>1, <1>2 DEF MaySet
  <1>4. CASE f = <<f[1], "feed", f[3]>>
    <2>1. f[2] = "feed"
      BY <1>4
    <2> QED BY <1>4, <2>1 DEF Suits
  <1>5. CASE r.lending # None /\ f = <<r.lending, "AGENT", Agent>>
    BY <1>5, OtherNames DEF Suits
  <1>6. CASE r.lending # None /\ f = <<r.pool, "lending", r.lending>>
    <2>1. f[1] = r.pool /\ f[2] = "lending"
      BY <1>6
    <2>2. ASSUME d.lending # None, NEW g \in Wires(d), g[1] = f[1], g[2] = f[2] PROVE g = f
      <3>1. g = <<d.pool, "lending", d.lending>> /\ d.pool = r.pool
        BY <2>1, <2>2 DEF Wires
      <3>2. d.lending = r.lending
        BY <2>2, <3>1 DEF Agrees
      <3> QED BY <1>6, <3>1, <3>2
    <2> QED BY <2>1, <2>2 DEF Suits
  <1>7. CASE r.lending # None /\ f = <<r.lending, "pool", r.pool>>
    <2>1. f[1] = r.lending /\ f[2] = "pool"
      BY <1>7
    <2>2. ASSUME d.lending # None, NEW g \in Wires(d), g[1] = f[1], g[2] = f[2] PROVE g = f
      <3>1. g = <<d.lending, "pool", d.pool>> /\ d.lending = r.lending
        BY <2>1, <2>2 DEF Wires
      <3>2. d.pool = r.pool
        BY <2>2, <3>1 DEF Agrees
      <3> QED BY <1>7, <3>1, <3>2
    <2> QED BY <2>1, <2>2 DEF Suits
  <1> QED BY <1>3, <1>4, <1>5, <1>6, <1>7 DEF Wires

LEMMA PendsSets ==
  ASSUME DeployInv, DeployInv', NEW s \in Spokes, Sound(s), PoolsBorn(s), PrintSound(s), Step,
         NEW r, NEW X, NEW Z, Pends(s, r, X, Z), X # <<>>, MaySet(Head(X), s, r)
  PROVE  Sound(s)' /\ PoolsBorn(s)' /\ PrintSound(s)' /\ Pends(s, r, Tail(X), Z)'
  <1>1. PICK e, f, b, T, G, H, full :
          /\ e = Head(X) /\ f = e.fact /\ b = born /\ T = Tail(X)
          /\ G = Given(StepsOf(T)) /\ H = Put(f) \cup G
          /\ full = (script[1] # "sync_spoke_oracle" \/ s \notin edited)
    OBVIOUS
  <1>2. /\ Head(todo) = e /\ Tail(todo) = T \o (Write(s, r) \o Z) /\ IsList(T)
        /\ e \in StepsOf(X) /\ StepsOf(X) = {e} \cup StepsOf(T) /\ Fresh(T) = {}
        /\ T # <<>> => Head(T) \in StepsOf(T) /\ StepsOf(Tail(T)) \subseteq StepsOf(T)
    BY SMTT(60), <1>1, HeadOfPlan
  <1>3. /\ e.op = "set" /\ f[1] \in At(s)
        /\ f = <<f[1], "feed", f[3]>> \/ (r.lending # None /\ f \in Wires(r))
    BY <1>1 DEF MaySet
  <1>4. /\ todo' = T \o (Write(s, r) \o Z) /\ script' = script /\ born' = born /\ printed' = printed
        /\ facts' = Put(f) /\ docs' = docs /\ edited' = edited
    BY <1>1, <1>2, <1>3, StepDoes
  <1>5. Fresh(X) = {}
    BY <1>1, <1>3 DEF Fresh
  <1>6. /\ IsList(Z) /\ (\A k \in StepsOf(Z) : Elsewhere(k, s)) /\ (\A k \in StepsOf(T) : MaySet(k, s, r))
        /\ \A k \in StepsOf(X) : k.op = "set" /\ k.fact[2] = "feed" => k.fact[3] \in born \cup Fresh(X)
        /\ RecordOK(s, r, full, born \cup Fresh(X), facts \cup Given(StepsOf(X)))
        /\ Agrees(docs[s], r.lending, r.pool)
        /\ Printed(s, "pool") # None =>
             /\ r.oapp = docs[s].oapp /\ r.pool = Printed(s, "pool") /\ r.oracle = Printed(s, "oracle")
             /\ r.lending = Printed(s, "lending")
    BY <1>1, <1>5 DEF Pends
  <1>7. f[2] = "feed" => f[3] \in born
    BY <1>1, <1>2, <1>3, <1>5, <1>6
  <1>8. ASSUME NEW d, Agrees(d, r.lending, r.pool) PROVE Suits(f, s, d)
    <2>1. PICK k : k = [op |-> "set", fact |-> f]
      OBVIOUS
    <2>2. k.op = "set" /\ k.fact = f
      BY <2>1
    <2>3. MaySet(e, s, r)
      BY <1>1
    <2>4. MaySet(k, s, r)
      BY <1>1, <2>2, <2>3 DEF MaySet
    <2> QED BY <1>7, <1>8, <2>1, <2>4, WireSuits
  <1>9. Suits(f, s, docs[s]) /\ Suits(f, s, r)
    BY <1>6, <1>8 DEF Agrees
  <1>10. Printed(s, "pool") # None => Suits(f, s, Output(s))
    <2>1. ASSUME Printed(s, "pool") # None PROVE Agrees(Output(s), r.lending, r.pool)
      BY <1>6, <2>1, OutputIs DEF Agrees
    <2> QED BY <1>8, <2>1
  <1>11. f[1] \notin At(s) \/ f[2] # "pool" \/ f[1] \in born
    <2>1. SUFFICES ASSUME f[2] = "pool" PROVE f[1] \in born
      OBVIOUS
    <2>2. r.lending # None /\ f \in Wires(r)
      BY <1>3, <2>1
    <2>3. f[1] = r.lending
      BY <2>1, <2>2 DEF Wires
    <2>4. r.lending \in born \cup {None}
      BY <1>5, <1>6, RecordParts
    <2> QED BY <2>2, <2>3, <2>4
  <1>12. Prints(s)' = Prints(s) /\ \A k : Printed(s, k)' = Printed(s, k)
    <2>1. Prints(s)' = Prints(s)
      BY <1>4 DEF Prints
    <2> QED BY <1>4, <2>1 DEF Printed
  <1>13. Sound(s)' /\ PoolsBorn(s)' /\ PrintSound(s)'
    BY <1>4, <1>9, <1>10, <1>11, <1>12, FrameKeeps
  <1>14. RecordOK(s, r, full, b, H)'
    <2>1. Given(StepsOf(X)) = {f} \cup G
      BY ZenonT(60), <1>1, <1>2, <1>3, GivenFirst
    <2>2. facts \cup Given(StepsOf(X)) = facts \cup {f} \cup G /\ born \cup Fresh(X) = b
      BY <1>1, <1>5, <2>1
    <2>3. RecordOK(s, r, full, b, facts \cup {f} \cup G)
      BY <1>6, <2>2
    <2> QED BY <1>1, <1>4, <1>9, <2>3, SetKeepsRecord
  <1>15. Pends(s, r, T, Z)'
    <2>1. T # <<>> => MaySet(Head(T), s, r) /\ \A k \in StepsOf(Tail(T)) : MaySet(k, s, r)
      BY <1>2, <1>6
    <2>2. \A k \in StepsOf(T) : k.op = "set" /\ k.fact[2] = "feed" => k.fact[3] \in born'
      BY <1>2, <1>4, <1>5, <1>6
    <2>3. RecordOK(s, r, script[1] # "sync_spoke_oracle" \/ s \notin edited, born \cup Fresh(T), facts \cup Given(StepsOf(T)))'
      <3>1. /\ full = (script[1] # "sync_spoke_oracle" \/ s \notin edited)' /\ b = (born \cup Fresh(T))'
            /\ H = (facts \cup Given(StepsOf(T)))'
        BY <1>1, <1>2, <1>4
      <3> QED BY <1>14, <3>1 DEF RecordOK
    <2>4. Agrees(docs[s], r.lending, r.pool)'
      BY <1>4, <1>6 DEF Agrees
    <2> QED BY <1>2, <1>4, <1>6, <1>12, <2>1, <2>2, <2>3, <2>4 DEF Pends
  <1> QED BY <1>1, <1>13, <1>15

LEMMA PendsWrites ==
  ASSUME DeployInv, DeployInv', NEW s \in Spokes, Sound(s), PoolsBorn(s), PrintSound(s), Step,
         NEW r, NEW X, NEW Z, Pends(s, r, X, Z), X = <<>>
  PROVE  Sound(s)' /\ PoolsBorn(s)' /\ PrintSound(s)' /\ Quiet(s)'
  <1>1. /\ IsList(Z) /\ todo = X \o (Write(s, r) \o Z) /\ (\A k \in StepsOf(Z) : Elsewhere(k, s))
        /\ RecordOK(s, r, script[1] # "sync_spoke_oracle" \/ s \notin edited, born \cup Fresh(X),
                    facts \cup Given(StepsOf(X)))
        /\ Agrees(docs[s], r.lending, r.pool)
        /\ Printed(s, "pool") # None =>
             /\ r.oapp = docs[s].oapp /\ r.pool = Printed(s, "pool") /\ r.oracle = Printed(s, "oracle")
             /\ Fresh(X) = {} => r.lending = Printed(s, "lending")
    BY DEF Pends
  <1>2. Fresh(X) = {} /\ Given(StepsOf(X)) = {}
    BY NoPart DEF Fresh
  <1>3. PICK e : e = [op |-> "write", file |-> s, rec |-> r]
    OBVIOUS
  <1>4. Write(s, r) = <<e>> /\ e.op = "write" /\ e.file = s /\ e.rec = r
    BY <1>3 DEF Write
  <1>5. Head(todo) = e /\ Tail(todo) = Z
    <2>1. IsList(<<e>> \o Z) /\ Head(<<e>> \o Z) = e /\ Tail(<<e>> \o Z) = Z
      BY <1>1, OneFirst
    <2>2. todo = <<e>> \o Z
      BY <1>1, <1>4, <2>1, NoneFirst
    <2> QED BY <2>1, <2>2
  <1>6. /\ todo' = Z /\ script' = script /\ born' = born /\ printed' = printed /\ facts' = facts
        /\ docs' = [docs EXCEPT ![s] = r]
        /\ edited' = IF script[1] = "sync_spoke_oracle" THEN edited ELSE edited \ {s}
    BY <1>4, <1>5, StepDoes
  <1>7. docs[s]' = r
    BY <1>6, WiredFields DEF DeployInv, DeployTypeOK
  <1>8. PICK b, F, full : /\ b = born /\ F = facts
                          /\ full = (script[1] # "sync_spoke_oracle" \/ s \notin edited)
    OBVIOUS
  <1>9. RecordOK(s, r, full, b, F)
    BY <1>1, <1>2, <1>8
  <1>10. s \notin edited' => full
    BY <1>6, <1>8
  <1>11. ASSUME NEW q, NEW part, part => full, RecordOK(s, q, full, b, F) PROVE RecordOK(s, q, part, b, F)'
    BY <1>6, <1>11 DEF RecordOK, HasFeed, OnePool
  <1>12. Sound(s)'
    <2>1. PICK part : part = (s \notin edited')
      OBVIOUS
    <2>2. RecordOK(s, r, part, b, F)'
      BY <1>9, <1>10, <1>11, <2>1
    <2> QED BY <1>6, <1>7, <1>8, <2>1, <2>2 DEF Sound, RecordOK
  <1>13. PoolsBorn(s)'
    BY <1>6 DEF PoolsBorn
  <1>14. Prints(s)' = Prints(s) /\ \A k : Printed(s, k)' = Printed(s, k)
    BY <1>6 DEF Prints, Printed
  <1>15. PrintSound(s)'
    <2>1. SUFFICES ASSUME Printed(s, "pool") # None
                   PROVE  /\ RecordOK(s, Output(s), FALSE, born, facts)'
                          /\ Agrees(docs[s], Printed(s, "lending"), Printed(s, "pool"))'
      BY <1>14 DEF PrintSound
    <2>2. /\ r.oapp = docs[s].oapp /\ r.pool = Printed(s, "pool") /\ r.oracle = Printed(s, "oracle")
          /\ r.lending = Printed(s, "lending")
      BY <1>1, <1>2, <2>1
    <2>3. Agrees(docs[s], Printed(s, "lending"), Printed(s, "pool"))'
      BY <1>7, <1>14, <2>2 DEF Agrees
    <2>4. PICK q, g : q = Output(s)' /\ g = Printed(s, "feed")
      OBVIOUS
    <2>5. q = [r EXCEPT !.oracle = r.oracle, !.pool = r.pool, !.lending = r.lending, !.feed = g]
      BY <1>7, <1>14, <2>2, <2>4, Zenon DEF Output
    <2>6. r \in [Fields -> Entry(s)] /\ g \in Entry(s) /\ g \in born \cup {None}
      <3>1. r \in [Fields -> Entry(s)] /\ g \in Entry(s)
        BY <1>9, <2>4, SpokeTypes DEF RecordOK, Fields
      <3>2. RecordOK(s, Output(s), FALSE, born, facts) /\ Output(s).feed = g
        BY <2>1, <2>4, OutputIs DEF PrintSound
      <3>3. \A k \in Fields : Output(s)[k] \in born \cup {None}
        BY <3>2 DEF RecordOK
      <3> QED BY <3>1, <3>2, <3>3 DEF Fields
    <2>7. /\ q \in [Fields -> Entry(s)] /\ q.lending = r.lending /\ q.pool = r.pool
          /\ q.oracle = r.oracle /\ q.oapp = r.oapp
          /\ \A k \in Fields : q[k] = IF k = "feed" THEN g ELSE r[k]
      BY <2>5, <2>6 DEF Fields
    <2>8. RecordOK(s, r, FALSE, b, F)'
      BY <1>9, <1>11
    <2>9. RecordOK(s, q, FALSE, b, F)'
      <3>1. \A k \in Fields : q[k] \in b \cup {None}
        BY <1>8, <2>6, <2>7, <2>8 DEF RecordOK
      <3>2. q.oracle # None => HasFeed(q.oracle)'
        BY <2>7, <2>8 DEF RecordOK
      <3>3. q.lending # None => /\ q.pool # None /\ q.oracle # None /\ OnePool(q.lending, q.pool)'
                                /\ Built(q) \subseteq F
        BY <2>7, <2>8 DEF RecordOK, Built
      <3> QED BY <2>7, <3>1, <3>2, <3>3 DEF RecordOK
    <2> QED BY <1>6, <1>8, <2>3, <2>4, <2>9 DEF RecordOK
  <1>16. Quiet(s)'
    BY <1>1, <1>6 DEF Quiet, StepsOf, Elsewhere
  <1> QED BY <1>12, <1>13, <1>15, <1>16

LEMMA PendsGoesOn ==
  ASSUME DeployInv, DeployInv', NEW s \in Spokes, Sound(s), PoolsBorn(s), PrintSound(s), Step,
         NEW r, NEW X, NEW Z, Pends(s, r, X, Z)
  PROVE  Sound(s)' /\ PoolsBorn(s)' /\ PrintSound(s)' /\ Stage(s)'
  <1>1. CASE X = <<>>
    BY <1>1, PendsWrites DEF Stage
  <1>2. ASSUME X # <<>>, Pends(s, r, Tail(X), Z)' PROVE Stage(s)'
    <2>1. PICK T : T = Tail(X)
      OBVIOUS
    <2>2. Pends(s, r, T, Z)'
      BY <1>2, <2>1, Zenon
    <2> QED BY <2>2 DEF Stage
  <1>3. CASE X # <<>>
    <2>1. MayMake(Head(X), s, r) \/ MaySet(Head(X), s, r)
      BY <1>3 DEF Pends
    <2> QED BY <1>2, <1>3, <2>1, PendsMakes, PendsSets
  <1> QED BY <1>1, <1>3

-----------------------------------------------------------------------------
(* The spokes: a new lending contract and its wires.                       *)

LEMMA Singles ==
  /\ \A x, with : /\ IsList(Create(x, with))
                  /\ Create(x, with) = <<[op |-> "create", new |-> x, with |-> with]>>
                  /\ StepsOf(Create(x, with)) = {[op |-> "create", new |-> x, with |-> with]}
  /\ \A x, what, value : /\ IsList(Set(x, what, value))
                         /\ Set(x, what, value) = <<[op |-> "set", fact |-> <<x, what, value>>]>>
                         /\ StepsOf(Set(x, what, value)) = {[op |-> "set", fact |-> <<x, what, value>>]}
  /\ \A c, rec : /\ IsList(Write(c, rec))
                 /\ StepsOf(Write(c, rec)) = {[op |-> "write", file |-> c, rec |-> rec]}
  /\ \A c : IsList(Copy(c)) /\ StepsOf(Copy(c)) = {[op |-> "copy", file |-> c]}
  BY OneStep DEF Create, Set, Write, Copy

LEMMA WiresAre ==
  ASSUME NEW s, NEW r, r.lending \in At(s), r.pool \in At(s), r.lending # None,
         NEW W, W = WireSpoke(r.lending, r.pool)
  PROVE  /\ IsList(W) /\ W # <<>> /\ Fresh(W) = {}
         /\ MaySet(Head(W), s, r) /\ \A e \in StepsOf(Tail(W)) : MaySet(e, s, r)
         /\ \A e \in StepsOf(W) : MaySet(e, s, r) /\ e.op = "set" /\ e.fact[2] # "feed"
         /\ Given(StepsOf(W)) = Wires(r)
  <1>1. PICK f, g, h, d, e, k :
          /\ f = <<r.pool, "lending", r.lending>> /\ g = <<r.lending, "pool", r.pool>>
          /\ h = <<r.lending, "AGENT", Agent>>
          /\ d = [op |-> "set", fact |-> f] /\ e = [op |-> "set", fact |-> g] /\ k = [op |-> "set", fact |-> h]
    OBVIOUS
  <1>2. /\ d.op = "set" /\ e.op = "set" /\ k.op = "set" /\ d.fact = f /\ e.fact = g /\ k.fact = h
        /\ f[1] \in At(s) /\ g[1] \in At(s) /\ h[1] \in At(s)
        /\ f[2] # "feed" /\ g[2] # "feed" /\ h[2] # "feed" /\ Wires(r) = {f, g, h}
    BY <1>1 DEF Wires
  <1>3. PICK A, B, D : /\ A = Set(r.pool, "lending", r.lending) /\ B = Set(r.lending, "pool", r.pool)
                       /\ D = Set(r.lending, "AGENT", Agent)
    OBVIOUS
  <1>4. IsList(A) /\ IsList(B) /\ IsList(D) /\ StepsOf(A) = {d} /\ StepsOf(B) = {e} /\ StepsOf(D) = {k}
    BY <1>1, <1>3, Singles
  <1>5. W = (A \o B) \o D
    BY <1>3 DEF WireSpoke
  <1>6. IsList(A \o B) /\ StepsOf(A \o B) = {d, e}
    BY <1>4, MoreSteps
  <1>7. IsList(W) /\ StepsOf(W) = {d, e, k}
    BY <1>4, <1>5, <1>6, MoreSteps
  <1>8. W # <<>>
    BY <1>7, NoSteps
  <1>9. Head(W) \in StepsOf(W) /\ StepsOf(Tail(W)) \subseteq StepsOf(W)
    BY <1>7, <1>8, StepsLeft
  <1>10. \A x \in StepsOf(W) : MaySet(x, s, r) /\ x.op = "set" /\ x.fact[2] # "feed"
    BY <1>2, <1>7 DEF MaySet
  <1>11. Fresh(W) = {}
    BY <1>9, <1>10 DEF Fresh
  <1>12. Given(StepsOf(W)) = Wires(r)
    <2>1. PICK S : S = {d, e, k}
      OBVIOUS
    <2>2. {x \in S : x.op = "create"} = {} /\ {x \in S : x.op = "set"} = S
      BY <1>2, <2>1
    <2>3. {{x.fact} : x \in S} = {{f}, {g}, {h}}
      BY <1>2, <2>1
    <2>4. Given(S) = UNION ({} \cup {{f}, {g}, {h}})
      BY <2>2, <2>3 DEF Given
    <2>5. UNION ({} \cup {{f}, {g}, {h}}) = {f, g, h}
      OBVIOUS
    <2> QED BY <1>2, <1>7, <2>1, <2>4, <2>5
  <1> QED BY <1>7, <1>8, <1>9, <1>10, <1>11, <1>12

LEMMA MakingIs ==
  ASSUME NEW s, NEW r, r.lending \in At(s), r.pool \in At(s), r.lending # None,
         NEW X, X = MakeLending(r) \o WireSpoke(r.lending, r.pool)
  PROVE  /\ IsList(X) /\ X # <<>> /\ Fresh(X) = {r.lending}
         /\ Head(X) = [op |-> "create", new |-> r.lending, with |-> Built(r)]
         /\ \A e \in StepsOf(Tail(X)) : MaySet(e, s, r)
         /\ \A e \in StepsOf(X) : e.op = "set" => e.fact[2] # "feed"
         /\ Given(StepsOf(X)) = Built(r) \cup Wires(r)
  <1>1. PICK W, e : /\ W = WireSpoke(r.lending, r.pool)
                    /\ e = [op |-> "create", new |-> r.lending, with |-> Built(r)]
    OBVIOUS
  <1>2. /\ IsList(W) /\ (\A k \in StepsOf(W) : MaySet(k, s, r) /\ k.op = "set" /\ k.fact[2] # "feed")
        /\ Given(StepsOf(W)) = Wires(r)
    BY <1>1, WiresAre
  <1>3. X = <<e>> \o W
    BY <1>1 DEF MakeLending
  <1>4. X # <<>> /\ Head(X) = e /\ Tail(X) = W /\ IsList(X) /\ StepsOf(X) = {e} \cup StepsOf(W)
    BY <1>2, <1>3, OneFirst
  <1>5. e.op = "create" /\ e.new = r.lending /\ e.with = Built(r)
    BY <1>1
  <1>6. Fresh(X) = {r.lending}
    BY <1>4, <1>5 DEF Fresh
  <1>7. Given(StepsOf(X)) = Built(r) \cup Wires(r)
    <2>1. PICK S : S = StepsOf(W)
      OBVIOUS
    <2>2. StepsOf(X) = {e} \cup S
      BY <1>4, <2>1
    <2>3. Given(StepsOf(X)) = e.with \cup Given(S)
      BY ZenonT(60), <1>5, <2>2, GivenFirst
    <2> QED BY <1>2, <1>5, <2>1, <2>3
  <1> QED BY <1>1, <1>2, <1>4, <1>5, <1>6, <1>7

\* A record is sound once what it lacks is made and wired.
LEMMA RecordComes ==
  ASSUME NEW s, NEW r \in [Fields -> Entry(s)], NEW B, NEW G, NEW full,
         \A k \in Fields : r[k] \in B \cup {None},
         r.oracle # None, r.pool # None, HasFeed(r.oracle), OnePool(r.lending, r.pool),
         Built(r) \subseteq facts \cup G, Wires(r) \subseteq facts \cup G
  PROVE  RecordOK(s, r, full, B, facts \cup G)
  BY DEF RecordOK

\* What has no contract yet has no pool.
LEMMA NewHasNone ==
  ASSUME NEW s, PoolsBorn(s), NEW x \in At(s), x \notin born
  PROVE  \A p : OnePool(x, p)
  BY DEF PoolsBorn, OnePool

-----------------------------------------------------------------------------
(* The spokes: a deployment of a lending contract.                         *)

\* What goes on whatever step a deployment takes.
LEMMA BeginsParts ==
  ASSUME DeployInv, NEW s \in Spokes, NEW r, Begins(s, r)
  PROVE  /\ r \in [Fields -> Entry(s)] /\ r.oapp = docs[s].oapp
         /\ r.feed \in At(s) /\ r.oracle \in At(s) /\ r.pool \in At(s) /\ r.lending \in At(s)
         /\ r.feed[2] = "feed" /\ r.oracle[2] = "oracle" /\ r.pool[2] = "pool" /\ r.lending[2] = "lending"
         /\ r.feed # None /\ r.oracle # None /\ r.pool # None /\ r.lending # None
         /\ r.feed \in Contracts /\ r.oracle \in Contracts /\ r.pool \in Contracts /\ r.lending \in Contracts
         /\ r.feed[1] = s /\ r.oracle[1] = s /\ r.pool[1] = s /\ r.lending[1] = s
         /\ IsList(Later(s, r)) /\ IsList(Create(r.pool, {}) \o Later(s, r))
         /\ IsList(SetFeed(r) \o (Create(r.pool, {}) \o Later(s, r)))
         /\ IsList(Create(r.oracle, {}) \o (SetFeed(r) \o (Create(r.pool, {}) \o Later(s, r))))
  <1>1. /\ r \in [Fields -> Entry(s)] /\ r.oapp = docs[s].oapp
        /\ r.feed \in At(s) /\ r.oracle \in At(s) /\ r.pool \in At(s) /\ r.lending \in At(s)
        /\ r.feed[2] = "feed" /\ r.oracle[2] = "oracle" /\ r.pool[2] = "pool" /\ r.lending[2] = "lending"
    BY DEF Begins
  <1>2. \A x \in At(s) : x \in Contracts /\ x # None /\ x[1] = s
    BY WiredFields
  <1>3. IsList(Later(s, r))
    <2>1. PICK X : X = MakeLending(r) \o WireSpoke(r.lending, r.pool)
      OBVIOUS
    <2>2. IsList(X)
      BY <1>1, <1>2, <2>1, MakingIs
    <2>3. IsList(Write(s, r)) /\ IsList(Copy(s))
      BY Singles
    <2>4. IsList(Write(s, r) \o Copy(s))
      BY <2>3, MoreSteps
    <2> QED BY <2>1, <2>2, <2>4, MoreSteps DEF Later
  <1>4. IsList(Create(r.pool, {}) \o Later(s, r))
    BY <1>3, Singles, MoreSteps
  <1>5. IsList(SetFeed(r) \o (Create(r.pool, {}) \o Later(s, r)))
    BY <1>4, Singles, MoreSteps DEF SetFeed
  <1>6. IsList(Create(r.oracle, {}) \o (SetFeed(r) \o (Create(r.pool, {}) \o Later(s, r))))
    BY <1>5, Singles, MoreSteps
  <1> QED BY <1>1, <1>2, <1>3, <1>4, <1>5, <1>6

\* A contract is made that is not the first of its kind to be printed.
LEMMA MakesOne ==
  ASSUME DeployInv, NEW s \in Spokes, Sound(s), PoolsBorn(s), PrintSound(s), Step,
         NEW x \in At(s), NEW T, IsList(T), todo = Create(x, {}) \o T, \A y \in Prints(s) : y[2] # x[2]
  PROVE  /\ todo' = T /\ script' = script /\ docs' = docs /\ edited' = edited /\ facts' = facts
         /\ born' = born \cup {x} /\ Prints(s)' = Prints(s) \cup {x}
         /\ \A y, z \in Prints(s)' : y[2] = z[2] => y = z
         /\ \A k : Printed(s, k)' = IF k = x[2] THEN x ELSE Printed(s, k)
         /\ Sound(s)' /\ PoolsBorn(s)'
  <1>1. PICK e : e = [op |-> "create", new |-> x, with |-> {}]
    OBVIOUS
  <1>2. e.op = "create" /\ e.new = x /\ e.with = {} /\ Create(x, {}) = <<e>>
    BY <1>1 DEF Create
  <1>3. Head(todo) = e /\ Tail(todo) = T
    BY <1>2, OneFirst
  <1>4. /\ todo' = T /\ script' = script /\ docs' = docs /\ edited' = edited /\ facts' = facts
        /\ born' = born \cup {x} /\ printed' = printed \cup {x}
    BY <1>2, <1>3, StepDoes
  <1>5. /\ Prints(s)' = Prints(s) \cup {x} /\ (\A y, z \in Prints(s)' : y[2] = z[2] => y = z)
        /\ \A k : Printed(s, k)' = IF k = x[2] THEN x ELSE Printed(s, k)
    <2>1. printed \subseteq Contracts /\ x \in Contracts /\ x[1] = s
      BY WiredFields DEF DeployInv, DeployTypeOK
    <2>2. \A y, z \in Prints(s) : y[2] = z[2] => y = z
      BY DEF PrintSound
    <2> QED BY <1>4, <2>1, <2>2, PrintsMore
  <1>6. PoolsBorn(s)'
    BY <1>4 DEF PoolsBorn
  <1>7. Sound(s)'
    <2>1. PICK d, part, b, c, F : d = docs[s] /\ part = (s \notin edited) /\ b = born /\ c = born' /\ F = facts
      OBVIOUS
    <2>2. RecordOK(s, d, part, b, F)
      BY <2>1 DEF Sound
    <2>3. RecordOK(s, d, part, c, F)'
      BY <1>4, <2>1, <2>2, MoreKeepsRecord
    <2> QED BY <1>4, <2>1, <2>3 DEF Sound, RecordOK
  <1> QED BY <1>4, <1>5, <1>6, <1>7

LEMMA BeginsFeed ==
  ASSUME DeployInv, NEW s \in Spokes, Sound(s), PoolsBorn(s), PrintSound(s), Step,
         NEW r, Begins(s, r),
         todo = Create(r.feed, {}) \o (Create(r.oracle, {}) \o (SetFeed(r) \o (Create(r.pool, {}) \o Later(s, r)))),
         r.feed \notin born, r.oracle \notin born, Prints(s) = {}
  PROVE  Sound(s)' /\ PoolsBorn(s)' /\ PrintSound(s)' /\ Begins(s, r)'
  <1>1. PICK T : T = Create(r.oracle, {}) \o (SetFeed(r) \o (Create(r.pool, {}) \o Later(s, r)))
    OBVIOUS
  <1>2. PICK x : x = r.feed
    OBVIOUS
  <1>3. IsList(T) /\ x \in At(s) /\ x[2] = "feed" /\ x # r.oracle /\ x # r.pool /\ x # r.lending
    BY <1>1, <1>2, BeginsParts
  <1>4. /\ todo' = T /\ script' = script /\ docs' = docs /\ edited' = edited /\ facts' = facts
        /\ born' = born \cup {x} /\ Prints(s)' = Prints(s) \cup {x}
        /\ \A y, z \in Prints(s)' : y[2] = z[2] => y = z
        /\ \A k : Printed(s, k)' = IF k = x[2] THEN x ELSE Printed(s, k)
        /\ Sound(s)' /\ PoolsBorn(s)'
    <2>1. todo = Create(x, {}) \o T /\ \A y \in Prints(s) : y[2] # x[2]
      BY <1>1, <1>2
    <2> QED BY <1>3, <2>1, MakesOne
  <1>5. Printed(s, "pool")' = None
    <2>1. Printed(s, "pool") = None
      BY PrintedIs DEF DeployInv, DeployTypeOK
    <2> QED BY <1>3, <1>4, <2>1
  <1>6. PrintSound(s)'
    BY <1>4, <1>5 DEF PrintSound
  <1>7. /\ r \in [Fields -> Entry(s)] /\ r.oapp = docs[s].oapp /\ (\A k \in {"sbt", "engine"} : r[k] = docs[s][k])
        /\ (\A k \in {"feed", "oracle", "pool", "lending"} : r[k] \in At(s) /\ r[k][2] = k)
        /\ r.pool \notin born /\ r.lending \notin born /\ script[1] = "deploy_spoke_lending"
    BY DEF Begins
  <1>8. /\ todo' = Create(r.oracle, {}) \o (SetFeed(r) \o (Create(r.pool, {}) \o Later(s, r)))
        /\ r.feed \in born' /\ r.oracle \notin born' /\ Prints(s)' = {r.feed}
        /\ r.pool \notin born' /\ r.lending \notin born'
    BY SMTT(60), <1>1, <1>2, <1>3, <1>4, <1>7
  <1>9. Begins(s, r)'
    BY <1>4, <1>7, <1>8 DEF Begins, Create, SetFeed, Set, Later, MakeLending, WireSpoke, Write, Copy
  <1> QED BY <1>4, <1>6, <1>9

LEMMA BeginsOracle ==
  ASSUME DeployInv, NEW s \in Spokes, Sound(s), PoolsBorn(s), PrintSound(s), Step,
         NEW r, Begins(s, r),
         todo = Create(r.oracle, {}) \o (SetFeed(r) \o (Create(r.pool, {}) \o Later(s, r))),
         r.feed \in born, r.oracle \notin born, Prints(s) = {r.feed}
  PROVE  Sound(s)' /\ PoolsBorn(s)' /\ PrintSound(s)' /\ Begins(s, r)'
  <1>1. PICK T : T = SetFeed(r) \o (Create(r.pool, {}) \o Later(s, r))
    OBVIOUS
  <1>2. PICK x : x = r.oracle
    OBVIOUS
  <1>3. IsList(T) /\ x \in At(s) /\ x[2] = "oracle" /\ x # r.pool /\ x # r.lending /\ r.feed[2] = "feed"
    BY <1>1, <1>2, BeginsParts
  <1>4. /\ todo' = T /\ script' = script /\ docs' = docs /\ edited' = edited /\ facts' = facts
        /\ born' = born \cup {x} /\ Prints(s)' = Prints(s) \cup {x}
        /\ \A y, z \in Prints(s)' : y[2] = z[2] => y = z
        /\ \A k : Printed(s, k)' = IF k = x[2] THEN x ELSE Printed(s, k)
        /\ Sound(s)' /\ PoolsBorn(s)'
    <2>1. todo = Create(x, {}) \o T /\ \A y \in Prints(s) : y[2] # x[2]
      BY <1>1, <1>2, <1>3
    <2> QED BY <1>3, <2>1, MakesOne
  <1>5. Printed(s, "pool")' = None
    <2>1. Printed(s, "pool") = None
      BY <1>3, PrintedIs DEF DeployInv, DeployTypeOK
    <2> QED BY <1>3, <1>4, <2>1
  <1>6. PrintSound(s)'
    BY <1>4, <1>5 DEF PrintSound
  <1>7. /\ r \in [Fields -> Entry(s)] /\ r.oapp = docs[s].oapp /\ (\A k \in {"sbt", "engine"} : r[k] = docs[s][k])
        /\ (\A k \in {"feed", "oracle", "pool", "lending"} : r[k] \in At(s) /\ r[k][2] = k)
        /\ r.pool \notin born /\ r.lending \notin born /\ script[1] = "deploy_spoke_lending"
    BY DEF Begins
  <1>8. /\ todo' = SetFeed(r) \o (Create(r.pool, {}) \o Later(s, r))
        /\ r.feed \in born' /\ r.oracle \in born' /\ Prints(s)' = {r.feed, r.oracle}
        /\ r.pool \notin born' /\ r.lending \notin born'
    BY SMTT(60), <1>1, <1>2, <1>3, <1>4, <1>7
  <1>9. Begins(s, r)'
    BY <1>4, <1>7, <1>8 DEF Begins, Create, SetFeed, Set, Later, MakeLending, WireSpoke, Write, Copy
  <1> QED BY <1>4, <1>6, <1>9

LEMMA BeginsSets ==
  ASSUME DeployInv, DeployInv', NEW s \in Spokes, Sound(s), PoolsBorn(s), PrintSound(s), Step,
         NEW r, Begins(s, r),
         todo = SetFeed(r) \o (Create(r.pool, {}) \o Later(s, r)),
         r.feed \in born, r.oracle \in born, Prints(s) = {r.feed, r.oracle}
  PROVE  Sound(s)' /\ PoolsBorn(s)' /\ PrintSound(s)' /\ Begins(s, r)'
  <1>1. PICK T, f, e : /\ T = Create(r.pool, {}) \o Later(s, r)
                       /\ f = <<r.oracle, "feed", r.feed>> /\ e = [op |-> "set", fact |-> f]
    OBVIOUS
  <1>2. IsList(T) /\ r.oracle \in At(s)
    BY <1>1, BeginsParts
  <1>3. Head(todo) = e /\ Tail(todo) = T /\ e.op = "set" /\ e.fact = f
    <2>1. todo = <<e>> \o T
      BY <1>1 DEF SetFeed, Set
    <2> QED BY ZenonT(60), <1>1, <1>2, <2>1, OneFirst
  <1>4. /\ todo' = T /\ script' = script /\ docs' = docs /\ edited' = edited /\ facts' = Put(f)
        /\ born' = born /\ printed' = printed
    BY <1>3, StepDoes
  <1>5. f[2] = "feed" /\ f = <<f[1], "feed", f[3]>> /\ f[3] \in born
    BY <1>1
  <1>6. \A d : Suits(f, s, d)
    BY <1>5 DEF Suits
  <1>7. Prints(s)' = Prints(s)
    BY <1>4 DEF Prints
  <1>8. Sound(s)' /\ PoolsBorn(s)' /\ PrintSound(s)'
    BY <1>4, <1>5, <1>6, <1>7, FrameKeeps
  <1>9. /\ r \in [Fields -> Entry(s)] /\ r.oapp = docs[s].oapp /\ (\A k \in {"sbt", "engine"} : r[k] = docs[s][k])
        /\ (\A k \in {"feed", "oracle", "pool", "lending"} : r[k] \in At(s) /\ r[k][2] = k)
        /\ r.pool \notin born /\ r.lending \notin born /\ script[1] = "deploy_spoke_lending"
    BY DEF Begins
  <1>10. <<r.oracle, "feed", r.feed>> \in facts'
    BY SMTT(60), <1>1, <1>4 DEF Put
  <1>11. Begins(s, r)'
    BY <1>1, <1>4, <1>7, <1>9, <1>10 DEF Begins, Create, SetFeed, Set, Later, MakeLending, WireSpoke, Write, Copy
  <1> QED BY <1>8, <1>11

LEMMA BeginsPool ==
  ASSUME DeployInv, DeployInv', NEW s \in Spokes, Sound(s), PoolsBorn(s), PrintSound(s), Step,
         NEW r, Begins(s, r),
         todo = Create(r.pool, {}) \o Later(s, r),
         r.feed \in born, r.oracle \in born, Prints(s) = {r.feed, r.oracle},
         <<r.oracle, "feed", r.feed>> \in facts,
         NEW X, X = MakeLending(r) \o WireSpoke(r.lending, r.pool), NEW Z, Z = Copy(s)
  PROVE  Sound(s)' /\ PoolsBorn(s)' /\ PrintSound(s)' /\ Pends(s, r, X, Z)'
  <1>1. PICK T, x, d, c, F, G : /\ T = Later(s, r) /\ x = r.pool /\ d = docs[s] /\ c = born' /\ F = facts
                                /\ G = Built(r) \cup Wires(r)
    OBVIOUS
  <1>2. /\ IsList(T) /\ x \in At(s) /\ x[2] = "pool" /\ x # None /\ r.lending # None /\ r.lending \in At(s)
        /\ r.feed[2] = "feed" /\ r.oracle[2] = "oracle" /\ r.lending[2] = "lending" /\ x # r.lending
        /\ r.oracle # None /\ r.feed # None /\ r.oracle \in At(s) /\ r.feed \in At(s)
        /\ r \in [Fields -> Entry(s)] /\ r.oapp = d.oapp
    BY <1>1, BeginsParts
  <1>3. /\ todo' = T /\ script' = script /\ docs' = docs /\ edited' = edited /\ facts' = facts
        /\ born' = born \cup {x} /\ Prints(s)' = Prints(s) \cup {x}
        /\ \A y, z \in Prints(s)' : y[2] = z[2] => y = z
        /\ \A k : Printed(s, k)' = IF k = x[2] THEN x ELSE Printed(s, k)
        /\ Sound(s)' /\ PoolsBorn(s)'
    <2>1. todo = Create(x, {}) \o T /\ \A y \in Prints(s) : y[2] # x[2]
      BY <1>1, <1>2
    <2> QED BY <1>2, <2>1, MakesOne
  <1>4. /\ Printed(s, "pool")' = x /\ Printed(s, "oracle")' = r.oracle /\ Printed(s, "feed")' = r.feed
        /\ \A k \in {"oapp", "sbt", "engine", "lending"} : Printed(s, k)' = None
    <2>1. printed \subseteq Contracts /\ \A y, z \in Prints(s) : y[2] = z[2] => y = z
      BY DEF DeployInv, DeployTypeOK, PrintSound
    <2>4. \A k : /\ (\A y \in Prints(s) : y[2] # k) => Printed(s, k) = None
                 /\ \A y \in Prints(s) : y[2] = k => Printed(s, k) = y /\ y # None
      BY <2>1, PrintedIs
    <2>2. Printed(s, "oracle") = r.oracle /\ Printed(s, "feed") = r.feed
      BY <1>2, <2>4
    <2>3. \A k \in {"oapp", "sbt", "engine", "lending"} : Printed(s, k) = None
      BY SMTT(60), <1>2, <2>4
    <2> QED BY <1>2, <1>3, <2>2, <2>3
  <1>5. /\ (\A k \in {"sbt", "engine"} : r[k] = d[k]) /\ script[1] = "deploy_spoke_lending"
        /\ x \notin born /\ r.lending \notin born
    BY <1>1 DEF Begins
  <1>6. /\ d \in [Fields -> Entry(s)] /\ (\A k \in Fields : d[k] \in born \cup {None}) /\ d.oapp \in born \cup {None}
        /\ d.pool \in born \cup {None} /\ d.lending \in born \cup {None}
    <2>1. RecordOK(s, d, s \notin edited, born, F)
      BY <1>1 DEF Sound
    <2> QED BY <2>1, RecordParts DEF RecordOK
  <1>7. Agrees(d, None, x) /\ Agrees(d, r.lending, x)
    BY <1>2, <1>5, <1>6 DEF Agrees
  <1>8. HasFeed(r.oracle)'
    BY <1>3 DEF HasFeed
  <1>9. PrintSound(s)'
    <2>1. PICK q : q = Output(s)'
      OBVIOUS
    <2>2. q = [d EXCEPT !.oracle = r.oracle, !.pool = x, !.lending = None, !.feed = r.feed]
      BY <1>1, <1>3, <1>4, <2>1, Zenon DEF Output
    <2>3. /\ q \in [Fields -> Entry(s)] /\ q.lending = None /\ q.oracle = r.oracle
          /\ \A k \in Fields : q[k] \in c \cup {None}
      BY <1>1, <1>2, <1>3, <1>6, <2>2 DEF Entry, Fields
    <2>4. RecordOK(s, q, FALSE, c, F)'
      BY <1>8, <2>3 DEF RecordOK
    <2>5. RecordOK(s, Output(s), FALSE, born, facts)'
      BY <1>1, <1>3, <2>1, <2>4 DEF RecordOK
    <2>6. Agrees(docs[s], Printed(s, "lending"), Printed(s, "pool"))'
      BY <1>1, <1>3, <1>4, <1>7 DEF Agrees
    <2> QED BY <1>2, <1>3, <1>4, <2>5, <2>6 DEF PrintSound
  <1>10. /\ IsList(X) /\ X # <<>> /\ Fresh(X) = {r.lending}
         /\ Head(X) = [op |-> "create", new |-> r.lending, with |-> Built(r)]
         /\ (\A e \in StepsOf(Tail(X)) : MaySet(e, s, r))
         /\ (\A e \in StepsOf(X) : e.op = "set" => e.fact[2] # "feed")
         /\ Given(StepsOf(X)) = G
    BY <1>1, <1>2, MakingIs
  <1>11. MayMake(Head(X), s, r)'
    <2>1. PICK e : e = Head(X)
      OBVIOUS
    <2>2. e.op = "create" /\ e.new = r.lending /\ e.with = Built(r)
      BY <1>10, <2>1
    <2>3. r.lending \notin born' /\ \A y \in Prints(s)' : y[2] # "lending"
      BY <1>2, <1>3, <1>5
    <2>4. MayMake(e, s, r)'
      BY <1>2, <2>2, <2>3 DEF MayMake
    <2> QED BY <2>1, <2>4 DEF MayMake
  <1>12. RecordOK(s, r, script[1] # "sync_spoke_oracle" \/ s \notin edited, born \cup Fresh(X),
                  facts \cup Given(StepsOf(X)))'
    <2>1. PICK full, B, H : /\ full = (script[1] # "sync_spoke_oracle" \/ s \notin edited)'
                            /\ B = c \cup {r.lending} /\ H = F \cup G
      OBVIOUS
    <2>2. \A k \in Fields : r[k] \in B \cup {None}
      <3>1. \A k \in Fields : k \in {"feed", "oracle", "pool", "lending", "sbt", "engine", "oapp"}
        BY DEF Fields
      <3>2. r.sbt = d.sbt /\ r.engine = d.engine /\ d.sbt \in born \cup {None} /\ d.engine \in born \cup {None}
        BY <1>5, <1>6 DEF Fields
      <3> QED BY <1>1, <1>2, <1>3, <1>6, <2>1, <3>1, <3>2
    <2>3. OnePool(r.lending, r.pool)'
      BY <1>2, <1>3, <1>5 DEF OnePool, PoolsBorn
    <2>4. Built(r) \subseteq H /\ Wires(r) \subseteq H
      BY <1>1, <2>1
    <2>5. RecordOK(s, r, full, B, H)'
      BY <1>1, <1>2, <1>8, <2>2, <2>3, <2>4 DEF RecordOK
    <2>6. B = (born \cup Fresh(X))' /\ H = (facts \cup Given(StepsOf(X)))'
      BY <1>1, <1>3, <1>10, <2>1
    <2> QED BY <2>1, <2>5, <2>6 DEF RecordOK
  <1>13. todo' = X \o (Write(s, r) \o Z)
    BY <1>1, <1>3 DEF Later
  <1>14. IsList(Z) /\ \A e \in StepsOf(Z) : Elsewhere(e, s)
    <2>1. PICK k : k = [op |-> "copy", file |-> s]
      OBVIOUS
    <2>2. k.op = "copy" /\ StepsOf(Z) = {k} /\ IsList(Z)
      BY <2>1, Singles
    <2> QED BY <2>2 DEF Elsewhere
  <1>15. Pends(s, r, X, Z)'
    <2>1. \A e \in StepsOf(X) : e.op = "set" /\ e.fact[2] = "feed" => e.fact[3] \in born' \cup Fresh(X)
      BY <1>10
    <2>2. Agrees(docs[s], r.lending, r.pool)'
      BY <1>1, <1>3, <1>7 DEF Agrees
    <2>3. /\ r.oapp = docs[s].oapp' /\ r.pool = Printed(s, "pool")' /\ r.oracle = Printed(s, "oracle")'
          /\ Fresh(X) # {}
      BY <1>1, <1>2, <1>3, <1>4, <1>10
    <2> QED BY <1>10, <1>11, <1>12, <1>13, <1>14, <2>1, <2>2, <2>3 DEF Pends
  <1> QED BY <1>3, <1>9, <1>15

LEMMA BeginsGoesOn ==
  ASSUME DeployInv, DeployInv', NEW s \in Spokes, Sound(s), PoolsBorn(s), PrintSound(s), Step,
         NEW r, Begins(s, r)
  PROVE  Sound(s)' /\ PoolsBorn(s)' /\ PrintSound(s)' /\ Stage(s)'
  <1>1. PICK X, Z : X = MakeLending(r) \o WireSpoke(r.lending, r.pool) /\ Z = Copy(s)
    BY ZenonT(60)
  <1>2. Begins(s, r)' => Stage(s)'
    BY DEF Stage
  <1>3. Pends(s, r, X, Z)' => Stage(s)'
    BY DEF Stage
  <1>4. \/ /\ todo = Create(r.feed, {}) \o (Create(r.oracle, {}) \o (SetFeed(r) \o (Create(r.pool, {}) \o Later(s, r))))
           /\ r.feed \notin born /\ r.oracle \notin born /\ Prints(s) = {}
        \/ /\ todo = Create(r.oracle, {}) \o (SetFeed(r) \o (Create(r.pool, {}) \o Later(s, r)))
           /\ r.feed \in born /\ r.oracle \notin born /\ Prints(s) = {r.feed}
        \/ /\ todo = SetFeed(r) \o (Create(r.pool, {}) \o Later(s, r))
           /\ r.feed \in born /\ r.oracle \in born /\ Prints(s) = {r.feed, r.oracle}
        \/ /\ todo = Create(r.pool, {}) \o Later(s, r)
           /\ r.feed \in born /\ r.oracle \in born /\ Prints(s) = {r.feed, r.oracle}
           /\ <<r.oracle, "feed", r.feed>> \in facts
    BY DEF Begins
  <1>5. \/ Sound(s)' /\ PoolsBorn(s)' /\ PrintSound(s)' /\ Begins(s, r)'
        \/ Sound(s)' /\ PoolsBorn(s)' /\ PrintSound(s)' /\ Pends(s, r, X, Z)'
    BY <1>1, <1>4, BeginsFeed, BeginsOracle, BeginsSets, BeginsPool
  <1> QED BY <1>2, <1>3, <1>5

\* A step keeps what is said of every spoke.
LEMMA SpokeStep ==
  ASSUME DeployInv, DeployInv', NEW s \in Spokes, Sound(s), PoolsBorn(s), PrintSound(s), Stage(s), Step
  PROVE  Sound(s)' /\ PoolsBorn(s)' /\ PrintSound(s)' /\ Stage(s)'
  <1>1. CASE Quiet(s)
    BY <1>1, QuietGoesOn DEF Stage
  <1>2. CASE \E r, X, Z : Pends(s, r, X, Z)
    BY <1>2, PendsGoesOn
  <1>3. CASE \E r : Begins(s, r)
    BY <1>3, BeginsGoesOn
  <1> QED BY <1>1, <1>2, <1>3 DEF Stage

-----------------------------------------------------------------------------
(* The spokes: a script starts.                                            *)

LEMMA RunSame ==
  ASSUME NEW name, NEW chain, NEW T, Run(name, chain, T), NEW s \in Spokes, Sound(s), PoolsBorn(s)
  PROVE  /\ script' = <<name, chain>> /\ todo' = T /\ docs' = docs /\ facts' = facts /\ born' = born
         /\ edited' = edited /\ printed' = {} /\ Prints(s)' = {}
         /\ \A k : Printed(s, k)' = None
         /\ Sound(s)' /\ PoolsBorn(s)' /\ PrintSound(s)' /\ Idle
  <1>1. /\ script' = <<name, chain>> /\ todo' = T /\ docs' = docs /\ facts' = facts /\ born' = born
        /\ edited' = edited /\ printed' = {} /\ Idle
    BY DEF Run, chainVars, fileVars
  <1>2. Prints(s)' = {} /\ \A k : Printed(s, k)' = None
    BY <1>1 DEF Prints, Printed
  <1>3. Sound(s)' /\ PoolsBorn(s)'
    BY <1>1 DEF Sound, PoolsBorn, RecordOK, HasFeed, OnePool
  <1>4. PrintSound(s)'
    BY <1>2 DEF PrintSound
  <1> QED BY <1>1, <1>2, <1>3, <1>4

\* A list of steps that do not concern a spoke.
Aside(T, s) == IsList(T) /\ \A e \in StepsOf(T) : Elsewhere(e, s)

LEMMA AsideTogether ==
  ASSUME NEW s, NEW T, NEW U, Aside(T, s), Aside(U, s)
  PROVE  Aside(T \o U, s)
  BY MoreSteps DEF Aside

\* A contract is made elsewhere, with what its constructor is given.
LEMMA AsideCreate ==
  ASSUME NEW s, NEW x, x \notin At(s), NEW with, \A f \in with : f[1] = x
  PROVE  Aside(Create(x, with), s)
  <1>1. PICK e : e = [op |-> "create", new |-> x, with |-> with]
    OBVIOUS
  <1>2. e.op = "create" /\ e.new = x /\ e.with = with
    BY <1>1
  <1>3. Elsewhere(e, s)
    BY <1>2 DEF Elsewhere
  <1> QED BY <1>1, <1>3, Singles DEF Aside

LEMMA AsideSteps ==
  ASSUME NEW s
  PROVE  /\ Aside(<<>>, s)
         /\ \A done, T : Aside(T, s) => Aside(Unless(done, T), s)
         /\ \A x : x \notin At(s) => Aside(Create(x, {}), s)
         /\ \A x, what, value : x \notin At(s) \/ what \in Chains \cup Roles => Aside(Set(x, what, value), s)
         /\ \A c, rec : c # s => Aside(Write(c, rec), s)
         /\ \A c : Aside(Copy(c), s)
  <1>1. Aside(<<>>, s)
    BY NoSteps DEF Aside
  <1>2. ASSUME NEW done, NEW T, Aside(T, s) PROVE Aside(Unless(done, T), s)
    BY <1>1, <1>2 DEF Unless
  <1>3. ASSUME NEW x, x \notin At(s) PROVE Aside(Create(x, {}), s)
    BY <1>3, AsideCreate
  <1>4. ASSUME NEW x, NEW what, NEW value, x \notin At(s) \/ what \in Chains \cup Roles
        PROVE  Aside(Set(x, what, value), s)
    <2>1. PICK f : f = <<x, what, value>>
      OBVIOUS
    <2>2. PICK e : e = [op |-> "set", fact |-> f]
      OBVIOUS
    <2>3. e.op = "set" /\ e.fact = f /\ f[1] = x /\ f[2] = what
      BY <2>1, <2>2
    <2>4. Elsewhere(e, s)
      BY <1>4, <2>3 DEF Elsewhere
    <2> QED BY <2>1, <2>2, <2>4, Singles DEF Aside
  <1>5. ASSUME NEW c, NEW rec, c # s PROVE Aside(Write(c, rec), s)
    <2>1. PICK e : e = [op |-> "write", file |-> c, rec |-> rec]
      OBVIOUS
    <2>2. e.op = "write" /\ e.file = c
      BY <2>1
    <2>3. Elsewhere(e, s)
      BY <1>5, <2>2 DEF Elsewhere
    <2> QED BY <2>1, <2>3, Singles DEF Aside
  <1>6. ASSUME NEW c PROVE Aside(Copy(c), s)
    <2>1. PICK e : e = [op |-> "copy", file |-> c]
      OBVIOUS
    <2>2. e.op = "copy"
      BY <2>1
    <2>3. Elsewhere(e, s)
      BY <2>2 DEF Elsewhere
    <2> QED BY <2>1, <2>3, Singles DEF Aside
  <1> QED BY <1>1, <1>2, <1>3, <1>4, <1>5, <1>6

LEMMA AsideRow ==
  ASSUME NEW s, NEW A, NEW T \in Seq(A), \A e \in A : Elsewhere(e, s)
  PROVE  Aside(T, s)
  <1>1. StepsOf(T) \subseteq A
    BY DEF StepsOf
  <1>2. IsList(T)
    <2>1. \A i \in DOMAIN T : T[i] \in StepsOf(T)
      BY DEF StepsOf
    <2> HIDE DEF StepsOf
    <2> QED BY <2>1 DEF IsList
  <1> QED BY <1>1, <1>2 DEF Aside

LEMMA RunAside ==
  ASSUME NEW name, NEW chain, NEW T, Run(name, chain, T), NEW s \in Spokes, Sound(s), PoolsBorn(s),
         Aside(T, s)
  PROVE  Sound(s)' /\ PoolsBorn(s)' /\ PrintSound(s)' /\ Stage(s)'
  <1>1. todo' = T
    BY RunSame
  <1>2. Quiet(s)'
    BY <1>1 DEF Quiet, Aside, StepsOf, Elsewhere
  <1> QED BY <1>2, RunSame DEF Stage

LEMMA RunPends ==
  ASSUME NEW s \in Spokes, Sound(s), PoolsBorn(s), NEW name, NEW chain, NEW r, NEW X, NEW Z,
         Run(name, chain, X \o (Write(s, r) \o Z)), IsList(X), Aside(Z, s),
         X # <<>> =>
           /\ \/ MaySet(Head(X), s, r)
              \/ /\ Head(X).op = "create" /\ Head(X).new \in At(s) \ born
                 /\ Head(X).new[2] \in {"oapp", "feed", "lending"}
                 /\ IF Head(X).new[2] = "lending" THEN Head(X).new = r.lending /\ Head(X).with = Built(r)
                    ELSE Head(X).with = {}
           /\ \A e \in StepsOf(Tail(X)) : MaySet(e, s, r),
         \A e \in StepsOf(X) : e.op = "set" /\ e.fact[2] = "feed" => e.fact[3] \in born \cup Fresh(X),
         NEW full, full = (name # "sync_spoke_oracle" \/ s \notin edited),
         NEW B, B = born \cup Fresh(X), NEW F, F = facts \cup Given(StepsOf(X)),
         RecordOK(s, r, full, B, F), Agrees(docs[s], r.lending, r.pool)
  PROVE  Sound(s)' /\ PoolsBorn(s)' /\ PrintSound(s)' /\ Stage(s)'
  <1>1. /\ script' = <<name, chain>> /\ todo' = X \o (Write(s, r) \o Z) /\ docs' = docs /\ facts' = facts
        /\ born' = born /\ edited' = edited /\ Prints(s)' = {} /\ \A k : Printed(s, k)' = None
    BY RunSame
  <1>2. script'[1] = name
    BY <1>1
  <1>3. PICK e : e = Head(X)
    OBVIOUS
  <1>4. X # <<>> => MaySet(e, s, r) \/ MayMake(e, s, r)'
    BY <1>1, <1>3 DEF MayMake
  <1>5. X # <<>> => MaySet(Head(X), s, r) \/ MayMake(Head(X), s, r)'
    BY <1>3, <1>4 DEF MayMake
  <1>6. RecordOK(s, r, script[1] # "sync_spoke_oracle" \/ s \notin edited, born \cup Fresh(X),
                 facts \cup Given(StepsOf(X)))'
    <2>1. /\ full = (script[1] # "sync_spoke_oracle" \/ s \notin edited)'
          /\ B = (born \cup Fresh(X))' /\ F = (facts \cup Given(StepsOf(X)))'
      BY <1>1, <1>2
    <2>2. RecordOK(s, r, full, B, F)'
      BY <1>1 DEF RecordOK, HasFeed, OnePool
    <2> QED BY <2>1, <2>2 DEF RecordOK
  <1>7. Agrees(docs[s], r.lending, r.pool)'
    BY <1>1 DEF Agrees
  <1>8. IsList(Z) /\ \A k \in StepsOf(Z) : Elsewhere(k, s)
    BY DEF Aside
  <1>9. Pends(s, r, X, Z)'
    BY <1>1, <1>5, <1>6, <1>7, <1>8 DEF Pends
  <1> QED BY <1>9, RunSame DEF Stage

\* What is on another chain.
LEMMA Apart ==
  ASSUME DeployInv, NEW s \in Spokes, NEW c \in Chains, c # s
  PROVE  /\ \A x \in Entry(c) : x \notin At(s)
         /\ \A k \in Fields : docs[c][k] \notin At(s) /\ New(c, k) \notin At(s)
         /\ \A k \in EnvKeys : k[1] = c => env[k] \notin At(s)
         /\ \A k : c # "hub" => Printed(c, k) \notin At(s)
  <1>1. \A x \in Entry(c) : x \notin At(s)
    <2>1. SUFFICES ASSUME NEW x \in Entry(c), x \in At(s) PROVE FALSE
      OBVIOUS
    <2>2. x[1] = s /\ x \in Contracts
      BY <2>1, WiredFields
    <2>3. x \in At(c)
      BY <2>1, <2>2, WiredFields DEF Entry
    <2> QED BY <2>2, <2>3, WiredFields
  <1>2. \A k \in Fields : docs[c][k] \in Entry(c)
    BY DEF DeployInv, DeployTypeOK
  <1>3. \A k \in Fields : New(c, k) \in At(c)
    BY NewIsFresh DEF DeployInv
  <1>4. \A k \in EnvKeys : env[k] \in Entry(k[1])
    BY DEF DeployInv, DeployTypeOK
  <1>5. ASSUME NEW k PROVE Printed(c, k) \notin At(s)
    <2>1. CASE \E x \in printed : x[1] = c /\ x[2] = k
      <3>1. PICK x : x = CHOOSE y \in printed : y[1] = c /\ y[2] = k
        OBVIOUS
      <3>2. x[1] = c
        BY <2>1, <3>1
      <3> QED BY <2>1, <3>1, <3>2, WiredFields DEF Printed
    <2>2. CASE ~\E x \in printed : x[1] = c /\ x[2] = k
      <3>1. None \notin At(s)
        BY WiredFields
      <3> QED BY <2>2, <3>1 DEF Printed
    <2> QED BY <2>1, <2>2
  <1> QED BY <1>1, <1>2, <1>3, <1>4, <1>5 DEF Entry

\* The scripts of another spoke.
LEMMA OtherAside ==
  ASSUME DeployInv, NEW s \in Spokes, NEW t \in Spokes, t # s
  PROVE  /\ Aside(DeploySpoke(t), s) /\ Aside(DeploySpokeLending(t), s)
         /\ (\A old \in Existing(t) : Aside(FinishSpokeLending(t, old), s))
         /\ Aside(FinishBaseLending(t), s)
         /\ Aside(FinishBaseWiring(t), s) /\ Aside(GrantSpokeAgent(t), s)
         /\ \A fresh \in BOOLEAN : Aside(SyncSpokeOracle(t, fresh), s)
  <1>1. /\ {"oapp", "lending", "pool", "oracle", "feed"} \subseteq Fields /\ t \in Chains
        /\ <<t, "oapp">> \in EnvKeys /\ <<t, "lending">> \in EnvKeys /\ t # "hub"
        /\ <<t, "oapp">>[1] = t /\ <<t, "lending">>[1] = t
    BY WiredFields DEF Fields, EnvKeys
  <1>2. /\ \A k \in Fields : docs[t][k] \notin At(s) /\ New(t, k) \notin At(s)
        /\ env[<<t, "oapp">>] \notin At(s) /\ env[<<t, "lending">>] \notin At(s)
    BY <1>1, Apart
  <1>3. /\ docs[t].oapp \notin At(s) /\ docs[t].lending \notin At(s) /\ docs[t].pool \notin At(s)
        /\ docs[t].oracle \notin At(s) /\ docs[t].feed \notin At(s)
    BY <1>1, <1>2
  <1>4. \A k \in Fields : Aside(Create(New(t, k), {}), s)
    BY <1>2, AsideSteps
  <1>5. ASSUME NEW oracle PROVE Aside(SpokeLending(t, oracle), s)
    <2>1. PICK x, with : /\ x = New(t, "lending")
                         /\ with = {<<x, "oapp", docs[t].oapp>>, <<x, "oracle", oracle>>}
      OBVIOUS
    <2>2. x \notin At(s) /\ \A f \in with : f[1] = x
      BY <1>1, <1>2, <2>1
    <2>3. Aside(Create(x, with), s)
      BY <2>2, AsideCreate
    <2> QED BY <2>1, <2>3 DEF SpokeLending
  <1>6. \A x, what, value : x \notin At(s) => /\ Aside(Set(x, what, value), s)
                                              /\ Aside(SetIfMissing(x, what, value), s)
                                              /\ Aside(SetIfZero(x, what, value), s)
    BY AsideSteps DEF SetIfMissing, SetIfZero
  <1>7. ASSUME NEW l, NEW p, l \notin At(s), p \notin At(s) PROVE Aside(WireSpoke(l, p), s)
    <2>1. Aside(Set(p, "lending", l), s) /\ Aside(Set(l, "pool", p), s) /\ Aside(Set(l, "AGENT", Agent), s)
      BY <1>6, <1>7
    <2> QED BY <2>1, AsideTogether DEF WireSpoke
  <1>8. (\A rec : Aside(Write(t, rec), s)) /\ Aside(Copy(t), s) /\ Aside(<<>>, s)
    BY AsideSteps
  <1>9. \A oracle, p, l, feed : Aside(SaveSpoke(t, oracle, p, l, feed), s)
    BY <1>8, AsideTogether DEF SaveSpoke
  <1>10. Aside(DeploySpoke(t), s)
    <2>1. PICK A, B, D, E :
            /\ A = Create(New(t, "oapp"), {}) /\ B = Write(t, [NoRecord EXCEPT !.oapp = New(t, "oapp")])
            /\ D = Copy(t) /\ E = Set(New(t, "oapp"), "AGENT", Agent)
      OBVIOUS
    <2>2. Aside(A, s) /\ Aside(B, s) /\ Aside(D, s) /\ Aside(E, s)
      BY <1>1, <1>2, <1>4, <1>6, <1>8, <2>1
    <2>3. Aside(A \o B \o D \o E, s)
      BY <2>2, AsideTogether
    <2> QED BY <2>1, <2>3 DEF DeploySpoke
  <1>11. Aside(DeploySpokeLending(t), s)
    <2>1. PICK feed, oracle, p, l : /\ feed = New(t, "feed") /\ oracle = New(t, "oracle")
                                    /\ p = New(t, "pool") /\ l = New(t, "lending")
      OBVIOUS
    <2>2. PICK A, B, D, E, F, G, H :
            /\ A = Create(feed, {}) /\ B = Create(oracle, {}) /\ D = Set(oracle, "feed", feed)
            /\ E = Create(p, {}) /\ F = SpokeLending(t, oracle) /\ G = WireSpoke(l, p)
            /\ H = SaveSpoke(t, oracle, p, l, feed)
      OBVIOUS
    <2>3. /\ Aside(A, s) /\ Aside(B, s) /\ Aside(D, s) /\ Aside(E, s) /\ Aside(F, s) /\ Aside(G, s)
          /\ Aside(H, s)
      BY <1>1, <1>2, <1>4, <1>5, <1>6, <1>7, <1>9, <2>1, <2>2
    <2>4. Aside(A \o B \o D \o E \o F \o G \o H, s)
      BY <2>3, AsideTogether
    <2> QED BY <2>1, <2>2, <2>4 DEF DeploySpokeLending
  <1>12. ASSUME NEW given \in Existing(t) PROVE Aside(FinishSpokeLending(t, given), s)
    <2>1. PICK old, l, A, B, D :
            /\ old = given.lending /\ l = (IF old # None THEN old ELSE New(t, "lending"))
            /\ A = Unless(old # None, SpokeLending(t, given.oracle))
            /\ B = WireSpoke(l, given.pool)
            /\ D = SaveSpoke(t, given.oracle, given.pool, l, given.feed)
      OBVIOUS
    <2>4. given.lending \notin At(s) /\ given.pool \notin At(s)
      BY <1>1, ExistingFit, Apart
    <2>2. Aside(A, s) /\ Aside(B, s) /\ Aside(D, s)
      <3>1. l \notin At(s)
        BY <1>1, <1>2, <2>1, <2>4
      <3>2. Aside(A, s)
        BY <1>5, <2>1, AsideSteps
      <3> QED BY <1>7, <1>9, <2>1, <2>4, <3>1, <3>2
    <2>3. Aside(A \o B \o D, s)
      BY <2>2, AsideTogether
    <2> QED BY <2>1, <2>3 DEF FinishSpokeLending
  <1>13. Aside(FinishBaseLending(t), s)
    <2>1. PICK l, A, B, D :
            /\ l = New(t, "lending") /\ A = SpokeLending(t, docs[t].oracle)
            /\ B = WireSpoke(l, docs[t].pool)
            /\ D = SaveSpoke(t, docs[t].oracle, docs[t].pool, l, docs[t].feed)
      OBVIOUS
    <2>2. Aside(A, s) /\ Aside(B, s) /\ Aside(D, s)
      BY <1>1, <1>2, <1>3, <1>5, <1>7, <1>9, <2>1
    <2>3. Aside(A \o B \o D, s)
      BY <2>2, AsideTogether
    <2> QED BY <2>1, <2>3 DEF FinishBaseLending
  <1>14. Aside(FinishBaseWiring(t), s)
    <2>1. PICK l, p, A, B, D, E :
            /\ l = RecordedLending(t) /\ p = docs[t].pool
            /\ A = SetIfMissing(p, "lending", l) /\ B = SetIfZero(l, "pool", p)
            /\ D = SetIfMissing(l, "AGENT", Agent)
            /\ E = SaveSpoke(t, docs[t].oracle, p, l, docs[t].feed)
      OBVIOUS
    <2>2. l \notin At(s) /\ p \notin At(s)
      BY <1>2, <1>3, <2>1 DEF RecordedLending
    <2>3. Aside(A, s) /\ Aside(B, s) /\ Aside(D, s) /\ Aside(E, s)
      BY <1>6, <1>9, <2>1, <2>2
    <2>4. Aside(A \o B \o D \o E, s)
      BY <2>3, AsideTogether
    <2> QED BY <2>1, <2>4 DEF FinishBaseWiring
  <1>15. Aside(GrantSpokeAgent(t), s)
    <2>1. PICK oapp : oapp = IF env[<<t, "oapp">>] # None THEN env[<<t, "oapp">>] ELSE docs[t].oapp
      OBVIOUS
    <2> QED BY <1>2, <1>3, <1>6, <2>1 DEF GrantSpokeAgent
  <1>16. ASSUME NEW fresh \in BOOLEAN PROVE Aside(SyncSpokeOracle(t, fresh), s)
    <2>1. PICK feed, A, B, D, E :
            /\ feed = (IF fresh THEN New(t, "feed") ELSE docs[t].feed)
            /\ A = Unless(~fresh, Create(feed, {}))
            /\ B = Unless(docs[t].oracle = None, SetIfMissing(docs[t].oracle, "feed", feed))
            /\ D = Write(t, [docs[t] EXCEPT !.feed = feed]) /\ E = Copy(t)
      OBVIOUS
    <2>2. feed \notin At(s)
      BY <1>1, <1>2, <1>3, <2>1
    <2>3. Aside(A, s) /\ Aside(B, s)
      BY <1>3, <1>6, <2>1, <2>2, AsideSteps
    <2>4. Aside(A \o B \o D \o E, s)
      BY <1>8, <2>1, <2>3, AsideTogether
    <2> QED BY <2>1, <2>4 DEF SyncSpokeOracle
  <1> QED BY <1>10, <1>11, <1>12, <1>13, <1>14, <1>15, <1>16

\* The roles of a hub are granted one after the other.
LEMMA GrantsAside ==
  ASSUME NEW s, NEW h, NEW done
  PROVE  Aside(Grants(HubRoles(h), done), s)
  <1>1. PICK q : q = HubRoles(h)
    OBVIOUS
  <1>2. DOMAIN q = 1 .. 7
    BY <1>1 DEF HubRoles
  <1>3. \A i \in 1 .. 7 : q[i] = <<q[i][1], q[i][2], q[i][3]>> /\ q[i][2] \in Roles
    <2>1. /\ q[1] = <<h.sbt, "SCORER", h.engine>> /\ q[2] = <<h.engine, "SCORER", Agent>>
          /\ q[3] = <<h.sbt, "SCORER", Agent>> /\ q[4] = <<h.sbt, "AGENT", Agent>>
          /\ q[5] = <<h.sbt, "AGENT", h.lending>> /\ q[6] = <<h.lending, "AGENT", Agent>>
          /\ q[7] = <<h.oapp, "AGENT", Agent>>
      BY <1>1 DEF HubRoles
    <2>2. 1 .. 7 = {1, 2, 3, 4, 5, 6, 7}
      OBVIOUS
    <2>3. "SCORER" \in Roles /\ "AGENT" \in Roles
      BY DEF Roles
    <2> QED BY <2>1, <2>2, <2>3
  <1>4. PICK A : A = {[op |-> "set", fact |-> q[i]] : i \in 1 .. 7}
    OBVIOUS
  <1>5. PICK ss : ss = [i \in 1 .. 7 |-> Unless(q[i] \in done, Set(q[i][1], q[i][2], q[i][3]))]
    OBVIOUS
  <1>6. ASSUME NEW i \in 1 .. 7 PROVE ss[i] \in Seq(A)
    <2>1. PICK e : e = [op |-> "set", fact |-> q[i]]
      OBVIOUS
    <2>2. e \in A
      BY <1>4, <2>1
    <2>3. <<e>> \in Seq(A) /\ <<>> \in Seq(A)
      BY <2>2
    <2>4. Set(q[i][1], q[i][2], q[i][3]) = <<e>>
      BY <1>3, <2>1 DEF Set
    <2> QED BY <1>5, <2>3, <2>4 DEF Unless
  <1>7. ss \in [1 .. 7 -> Seq(A)]
    BY <1>5, <1>6
  <1>8. FlattenSeq(ss) \in Seq(A)
    BY <1>7, FlatRow
  <1>9. ASSUME NEW e \in A PROVE Elsewhere(e, s)
    <2>1. PICK i \in 1 .. 7 : e = [op |-> "set", fact |-> q[i]]
      BY <1>4
    <2>2. e.op = "set" /\ e.fact[2] \in Roles
      BY <1>3, <2>1
    <2> QED BY <2>2 DEF Elsewhere
  <1>10. Grants(q, done) = FlattenSeq(ss)
    BY <1>2, <1>5 DEF Grants
  <1> QED BY <1>1, <1>8, <1>9, <1>10, AsideRow

LEMMA HubAside ==
  ASSUME DeployInv, NEW s \in Spokes
  PROVE  /\ Aside(FinishHubDeploy, s) /\ Aside(NewHubOApp, s) /\ Aside(DeployScoreEngine, s)
         /\ Aside(GrantAgentRoles, s)
         /\ \A feed \in {None, Feed} : Aside(Deploy(feed), s) /\ Aside(WireOracle(feed), s)
  <1>1. /\ "hub" \in Chains /\ "hub" # s /\ <<"hub", "oracle">> \in EnvKeys /\ <<"hub", "oracle">>[1] = "hub"
        /\ {"sbt", "engine", "lending", "pool", "oapp", "oracle", "feed"} \subseteq Fields
    BY WiredFields DEF EnvKeys, Fields
  <1>2. /\ \A k \in Fields : docs["hub"][k] \notin At(s) /\ New("hub", k) \notin At(s)
        /\ env[<<"hub", "oracle">>] \notin At(s)
    BY <1>1, Apart
  <1>3. /\ docs["hub"].pool \notin At(s) /\ docs["hub"].lending \notin At(s) /\ docs["hub"].oracle \notin At(s)
        /\ docs["hub"].sbt \notin At(s)
    BY <1>1, <1>2
  <1>4. \A k \in Fields : \A with : (\A f \in with : f[1] = New("hub", k)) => Aside(Create(New("hub", k), with), s)
    BY <1>2, AsideCreate
  <1>5. \A x, what, value : x \notin At(s) \/ what \in Roles =>
          Aside(Set(x, what, value), s) /\ Aside(SetIfMissing(x, what, value), s) /\ Aside(SetIfZero(x, what, value), s)
    BY AsideSteps DEF SetIfMissing, SetIfZero
  <1>6. "AGENT" \in Roles /\ "SCORER" \in Roles /\ "ADMIN" \in Roles
    BY DEF Roles
  <1>7. (\A rec : Aside(Write("hub", rec), s)) /\ Aside(Copy("hub"), s) /\ Aside(<<>>, s)
    BY <1>1, AsideSteps
  <1>8. \A h, done : Aside(Grants(HubRoles(h), done), s)
    BY GrantsAside
  <1>9. Aside(FinishHubDeploy, s)
    <2>1. PICK h, A, B, D, E :
            /\ h = docs["hub"] /\ A = SetIfZero(h.pool, "lending", h.lending)
            /\ B = SetIfZero(h.lending, "pool", h.pool)
            /\ D = Grants(HubRoles(h), facts) /\ E = Copy("hub")
      OBVIOUS
    <2>2. Aside(A, s) /\ Aside(B, s) /\ Aside(D, s) /\ Aside(E, s)
      BY <1>3, <1>5, <1>7, <1>8, <2>1
    <2>3. Aside(A \o B \o D \o E, s)
      BY <2>2, AsideTogether
    <2> QED BY <2>1, <2>3 DEF FinishHubDeploy
  <1>10. Aside(NewHubOApp, s)
    <2>1. PICK oapp, with, A, B, D, E :
            /\ oapp = New("hub", "oapp") /\ with = {<<oapp, "sbt", docs["hub"].sbt>>}
            /\ A = Create(oapp, with) /\ B = Set(oapp, "AGENT", Agent)
            /\ D = Write("hub", [docs["hub"] EXCEPT !.oapp = oapp]) /\ E = Copy("hub")
      OBVIOUS
    <2>2. \A f \in with : f[1] = oapp
      BY <2>1
    <2>3. Aside(A, s) /\ Aside(B, s) /\ Aside(D, s) /\ Aside(E, s)
      BY <1>1, <1>4, <1>5, <1>6, <1>7, <2>1, <2>2
    <2>4. Aside(A \o B \o D \o E, s)
      BY <2>3, AsideTogether
    <2> QED BY <2>1, <2>4 DEF NewHubOApp
  <1>11. Aside(DeployScoreEngine, s)
    <2>1. PICK engine, with, A, B, D, E :
            /\ engine = New("hub", "engine") /\ with = {<<engine, "sbt", docs["hub"].sbt>>}
            /\ A = Create(engine, with) /\ B = Set(docs["hub"].sbt, "SCORER", engine)
            /\ D = Set(engine, "SCORER", Agent)
            /\ E = Write("hub", [docs["hub"] EXCEPT !.engine = engine])
      OBVIOUS
    <2>2. \A f \in with : f[1] = engine
      BY <2>1
    <2>3. Aside(A, s) /\ Aside(B, s) /\ Aside(D, s) /\ Aside(E, s)
      BY <1>1, <1>4, <1>5, <1>6, <1>7, <2>1, <2>2
    <2>4. Aside(A \o B \o D \o E, s)
      BY <2>3, AsideTogether
    <2> QED BY <2>1, <2>4 DEF DeployScoreEngine
  <1>12. Aside(GrantAgentRoles, s)
    BY <1>5, <1>6 DEF GrantAgentRoles
  <1>13. ASSUME NEW feed \in {None, Feed} PROVE Aside(WireOracle(feed), s)
    <2>1. PICK oracle, f, A, B, D, E :
            /\ oracle = (IF env[<<"hub", "oracle">>] # None THEN env[<<"hub", "oracle">>] ELSE docs["hub"].oracle)
            /\ f = (IF feed # None THEN feed ELSE New("hub", "feed"))
            /\ A = Unless(feed # None, Create(f, {})) /\ B = SetIfMissing(oracle, "feed", f)
            /\ D = Write("hub", [docs["hub"] EXCEPT !.oracle = oracle, !.feed = f]) /\ E = Copy("hub")
      OBVIOUS
    <2>2. Aside(A, s)
      BY <1>1, <1>4, <1>7, <2>1 DEF Unless
    <2>3. Aside(B, s) /\ Aside(D, s) /\ Aside(E, s)
      BY <1>2, <1>3, <1>5, <1>7, <2>1
    <2>4. Aside(A \o B \o D \o E, s)
      BY <2>2, <2>3, AsideTogether
    <2> QED BY <2>1, <2>4 DEF WireOracle
  <1>14. ASSUME NEW feed \in {None, Feed} PROVE Aside(Deploy(feed), s)
    <2>1. PICK r : r = [f \in Fields |-> IF f = "feed" THEN None ELSE New("hub", f)]
      OBVIOUS
    <2>2. /\ r.oracle = New("hub", "oracle") /\ r.sbt = New("hub", "sbt") /\ r.engine = New("hub", "engine")
          /\ r.pool = New("hub", "pool") /\ r.lending = New("hub", "lending") /\ r.oapp = New("hub", "oapp")
      BY <1>1, <2>1
    <2>3. PICK V, W, Y : /\ V = {<<r.engine, "sbt", r.sbt>>}
                         /\ W = {<<r.lending, "sbt", r.sbt>>, <<r.lending, "oracle", r.oracle>>}
                         /\ Y = {<<r.oapp, "sbt", r.sbt>>}
      OBVIOUS
    <2>4. PICK A1, A2, A3, A4, A5, A6, A7, A8, A9, A0 :
            /\ A1 = Create(r.oracle, {}) /\ A2 = Unless(feed = None, Set(r.oracle, "feed", feed))
            /\ A3 = Create(r.sbt, {}) /\ A4 = Create(r.engine, V)
            /\ A5 = Create(r.pool, {}) /\ A6 = Create(r.lending, W) /\ A7 = Create(r.oapp, Y)
            /\ A8 = Set(r.pool, "lending", r.lending) /\ A9 = Set(r.lending, "pool", r.pool)
            /\ A0 = Grants(HubRoles(r), {})
      OBVIOUS
    <2>5. /\ (\A f \in V : f[1] = r.engine) /\ (\A f \in W : f[1] = r.lending) /\ (\A f \in Y : f[1] = r.oapp)
      BY <2>3
    <2>6. Aside(A1, s) /\ Aside(A3, s) /\ Aside(A5, s)
      BY <1>1, <1>4, <2>2, <2>4
    <2>7. Aside(A4, s) /\ Aside(A6, s) /\ Aside(A7, s)
      BY <1>1, <1>4, <2>2, <2>4, <2>5
    <2>8. Aside(A2, s) /\ Aside(A8, s) /\ Aside(A9, s) /\ Aside(A0, s)
      BY <1>1, <1>2, <1>5, <1>8, <2>2, <2>4, AsideSteps
    <2>9. Aside(A1 \o A2 \o A3 \o A4 \o A5, s)
      BY <2>6, <2>7, <2>8, AsideTogether
    <2>10. Aside(A1 \o A2 \o A3 \o A4 \o A5 \o A6 \o A7 \o A8 \o A9 \o A0, s)
      BY <2>7, <2>8, <2>9, AsideTogether
    <2>11. Aside(A1 \o A2 \o A3 \o A4 \o A5 \o A6 \o A7 \o A8 \o A9 \o A0 \o Write("hub", r) \o Copy("hub"), s)
      BY <1>7, <2>10, AsideTogether
    <2> QED BY ZenonT(60), <2>1, <2>3, <2>4, <2>11 DEF Deploy
  <1> QED BY <1>9, <1>10, <1>11, <1>12, <1>13, <1>14

-----------------------------------------------------------------------------
(* The mesh: what lz:wire-spokes sets.                                     *)

\* Every step of a row of lists is a step of their concatenation.
LEMMA FlatHolds ==
  ASSUME NEW A, NEW n \in Nat, NEW ss \in [1 .. n -> Seq(A)], NEW j \in 1 .. n
  PROVE  StepsOf(ss[j]) \subseteq StepsOf(FlattenSeq(ss))
  <1>1. PICK C : C = Seq(A)
    OBVIOUS
  <1>2. /\ \A a, b \in C : a \o b \in C
        /\ \A i \in 1 .. n : ss[i] \in C
        /\ Len(ss) = n /\ n \in Nat \ {0}
    BY <1>1, ConcatProperties
  <1>3. PICK f \in [1 .. n -> C] : Flattens(f, ss, n)
    BY <1>2, Flattening, Zenon
  <1>4. \A i \in 1 .. n : f[i] = IF i = 1 THEN ss[i] ELSE f[i - 1] \o ss[i]
    BY <1>3 DEF Flattens
  <1>5. \A T \in C : IsList(T)
    <2>1. SUFFICES ASSUME NEW T \in Seq(A) PROVE IsList(T)
      BY <1>1
    <2>2. \A i \in DOMAIN T : T[i] \in StepsOf(T)
      BY DEF StepsOf
    <2> HIDE DEF StepsOf
    <2> QED BY <2>2 DEF IsList
  <1> DEFINE U == {k \in Nat : \A i \in 1 .. n : i <= k => \A m \in 1 .. i : StepsOf(ss[m]) \subseteq StepsOf(f[i])}
  <1>6. 0 \in U
    OBVIOUS
  <1>7. ASSUME NEW k \in U PROVE k + 1 \in U
    <2>1. SUFFICES ASSUME k + 1 \in 1 .. n, NEW m \in 1 .. k + 1
                   PROVE  StepsOf(ss[m]) \subseteq StepsOf(f[k + 1])
      <3>1. \A i \in 1 .. n : i <= k + 1 => i <= k \/ i = k + 1
        OBVIOUS
      <3>2. \A i \in 1 .. n : i <= k => \A m \in 1 .. i : StepsOf(ss[m]) \subseteq StepsOf(f[i])
        BY <1>7
      <3>3. k + 1 \in Nat
        OBVIOUS
      <3> HIDE DEF StepsOf
      <3> QED BY <2>1, <3>1, <3>2, <3>3
    <2>2. CASE k = 0
      <3>1. f[1] = ss[1] /\ m = 1
        BY <1>4, <2>1, <2>2
      <3> QED BY <2>2, <3>1
    <2>3. CASE k # 0
      <3>1. k \in 1 .. n /\ k + 1 # 1 /\ k + 1 - 1 = k
        BY <2>1, <2>3
      <3>2. f[k + 1] = f[k] \o ss[k + 1]
        BY SMTT(60), <1>4, <2>1, <3>1
      <3>3. IsList(f[k]) /\ IsList(ss[k + 1])
        BY <1>2, <1>5, <2>1, <3>1
      <3>4. StepsOf(f[k + 1]) = StepsOf(f[k]) \cup StepsOf(ss[k + 1])
        BY <3>2, <3>3, MoreSteps
      <3>5. m # k + 1 => StepsOf(ss[m]) \subseteq StepsOf(f[k])
        BY <2>1, <3>1
      <3> QED BY <3>4, <3>5
    <2> QED BY <2>2, <2>3
  <1>8. n \in U
    <2>1. U \in SUBSET Nat
      OBVIOUS
    <2> HIDE DEF U
    <2> QED BY <1>6, <1>7, <2>1, AllNumbers
  <1>9. StepsOf(ss[j]) \subseteq StepsOf(f[n])
    BY <1>8
  <1> QED BY <1>3, <1>9 DEF Flattens

\* Every member of a finite set has its place in the row.
LEMMA AllInARow ==
  ASSUME NEW S, IsFiniteSet(S), NEW x \in S
  PROVE  \E i \in 1 .. Cardinality(S) : SetToSeq(S)[i] = x
  <1>1. PICK n, q : n = Cardinality(S) /\ q = SetToSeq(S)
    OBVIOUS
  <1>2. n \in Nat /\ q \in [1 .. n -> S] /\ IsInjective(q)
    <2>1. n \in Nat /\ ExistsBijection(1 .. n, S)
      BY <1>1, FS_CardinalityType
    <2>2. PICK f \in Bijection(1 .. n, S) : TRUE
      BY <2>1 DEF ExistsBijection
    <2>3. f \in [1 .. n -> S] /\ \A a, b \in 1 .. n : f[a] = f[b] => a = b
      BY <2>2 DEF Bijection, Injection, IsInjective
    <2>4. \E g \in [1 .. n -> S] : IsInjective(g)
      BY <2>3 DEF IsInjective
    <2> QED BY <1>1, <2>1, <2>4 DEF SetToSeq
  <1>3. PICK R : R = {q[i] : i \in 1 .. n}
    OBVIOUS
  <1>4. R \in SUBSET S /\ q \in Bijection(1 .. n, R)
    <2>1. R \in SUBSET S /\ q \in [1 .. n -> R]
      BY <1>2, <1>3
    <2>2. \A a, b \in 1 .. n : q[a] = q[b] => a = b
      BY <1>2 DEF IsInjective
    <2>3. q \in Injection(1 .. n, R)
      BY <2>1, <2>2 DEF Injection, IsInjective
    <2>4. \A y \in R : \E a \in 1 .. n : q[a] = y
      BY <1>3
    <2> QED BY <2>1, <2>3, <2>4 DEF Bijection, Surjection
  <1>5. IsFiniteSet(R) /\ Cardinality(R) = n
    <2>1. ExistsBijection(1 .. n, R)
      BY <1>4 DEF ExistsBijection
    <2> QED BY <1>2, <2>1, FS_CountingElements, <1>4, FS_Subset
  <1>6. R = S
    BY <1>1, <1>4, <1>5, FS_Subset
  <1> QED BY <1>1, <1>3, <1>6

\* What the peers are set to.
PeerFact(s) == <<EnvHubOApp, s, env[<<s, "oapp">>]>>
BackFact(s) == <<docs[s].oapp, "hub", EnvHubOApp>>
MeshFacts == {PeerFact(s) : s \in {t \in Spokes : env[<<t, "oapp">>] # None}} \cup {BackFact(s) : s \in Spokes}

LEMMA MeshSteps ==
  /\ IsList(WireSpokes) /\ MeshFacts \subseteq Given(StepsOf(WireSpokes))
  /\ \A e \in StepsOf(WireSpokes) : e.op = "set" /\ e.fact \in MeshFacts
  <1>1. PICK n, q : n = Cardinality(Spokes) /\ q = SetToSeq(Spokes)
    OBVIOUS
  <1>2. n \in Nat /\ (\A i \in 1 .. n : q[i] \in Spokes) /\ \A s \in Spokes : \E i \in 1 .. n : q[i] = s
    BY <1>1, InARow, AllInARow, DeploymentAssumption
  <1>3. PICK M, A : M = MeshFacts /\ A = {[op |-> "set", fact |-> f] : f \in M}
    OBVIOUS
  <1>4. PICK ss, tt :
          /\ ss = [i \in 1 .. n |-> Unless(env[<<q[i], "oapp">>] = None, Set(EnvHubOApp, q[i], env[<<q[i], "oapp">>]))]
          /\ tt = [i \in 1 .. n |-> SetPeerSpoke(q[i])]
    OBVIOUS
  <1>5. \A f \in M : <<[op |-> "set", fact |-> f]>> \in Seq(A)
    BY <1>3
  <1>6. <<>> \in Seq(A)
    BY NoSteps
  <1>7. ASSUME NEW i \in 1 .. n PROVE ss[i] \in Seq(A) /\ tt[i] \in Seq(A)
    <2>1. BackFact(q[i]) \in M /\ (env[<<q[i], "oapp">>] # None => PeerFact(q[i]) \in M)
      BY <1>2, <1>3 DEF MeshFacts
    <2>2. tt[i] = <<[op |-> "set", fact |-> BackFact(q[i])]>>
      BY <1>4 DEF SetPeerSpoke, Set, BackFact
    <2>3. ss[i] = IF env[<<q[i], "oapp">>] = None THEN <<>> ELSE <<[op |-> "set", fact |-> PeerFact(q[i])]>>
      BY <1>4 DEF Unless, Set, PeerFact
    <2> QED BY <1>5, <1>6, <2>1, <2>2, <2>3
  <1>8. ss \in [1 .. n -> Seq(A)] /\ tt \in [1 .. n -> Seq(A)]
    BY <1>4, <1>7
  <1>9. PICK P, Q : P = FlattenSeq(ss) /\ Q = FlattenSeq(tt)
    OBVIOUS
  <1>10. WireSpokes = P \o Q
    BY <1>1, <1>4, <1>9 DEF WireSpokes, SetPeers
  <1>11. P \in Seq(A) /\ Q \in Seq(A)
    BY <1>2, <1>8, <1>9, FlatRow
  <1>12. \A T \in Seq(A) : IsList(T) /\ StepsOf(T) \subseteq A
    <2>1. SUFFICES ASSUME NEW T \in Seq(A) PROVE IsList(T) /\ StepsOf(T) \subseteq A
      OBVIOUS
    <2>2. (\A i \in DOMAIN T : T[i] \in StepsOf(T)) /\ StepsOf(T) \subseteq A
      BY DEF StepsOf
    <2> HIDE DEF StepsOf
    <2> QED BY <2>2 DEF IsList
  <1>13. IsList(WireSpokes) /\ StepsOf(WireSpokes) = StepsOf(P) \cup StepsOf(Q)
    BY <1>10, <1>11, <1>12, MoreSteps
  <1>14. \A e \in StepsOf(WireSpokes) : e.op = "set" /\ e.fact \in M
    <2>1. SUFFICES ASSUME NEW e \in StepsOf(WireSpokes) PROVE e.op = "set" /\ e.fact \in M
      OBVIOUS
    <2>2. e \in A
      BY <1>11, <1>12, <1>13
    <2>3. PICK f \in M : e = [op |-> "set", fact |-> f]
      BY <1>3, <2>2
    <2> QED BY <2>3
  <1>15. ASSUME NEW f \in M PROVE [op |-> "set", fact |-> f] \in StepsOf(WireSpokes)
    <2>1. PICK e : e = [op |-> "set", fact |-> f]
      OBVIOUS
    <2>2. StepsOf(<<e>>) = {e}
      BY OneStep
    <2>3. CASE \E s \in Spokes : f = BackFact(s)
      <3>1. PICK i \in 1 .. n : f = BackFact(q[i])
        BY <1>2, <2>3
      <3>2. tt[i] = <<e>>
        BY <1>4, <2>1, <3>1 DEF SetPeerSpoke, Set, BackFact
      <3>3. StepsOf(tt[i]) \subseteq StepsOf(Q)
        BY <1>2, <1>8, <1>9, FlatHolds
      <3> QED BY <1>13, <2>1, <2>2, <3>2, <3>3
    <2>4. CASE \E s \in Spokes : env[<<s, "oapp">>] # None /\ f = PeerFact(s)
      <3>1. PICK i \in 1 .. n : env[<<q[i], "oapp">>] # None /\ f = PeerFact(q[i])
        BY <1>2, <2>4
      <3>2. ss[i] = <<e>>
        BY <1>4, <2>1, <3>1 DEF Unless, Set, PeerFact
      <3>3. StepsOf(ss[i]) \subseteq StepsOf(P)
        BY <1>2, <1>8, <1>9, FlatHolds
      <3> QED BY <1>13, <2>1, <2>2, <3>2, <3>3
    <2> QED BY <1>3, <2>3, <2>4 DEF MeshFacts
  <1>16. M \subseteq Given(StepsOf(WireSpokes))
    <2>1. SUFFICES ASSUME NEW f \in M PROVE f \in Given(StepsOf(WireSpokes))
      OBVIOUS
    <2>2. PICK e : e = [op |-> "set", fact |-> f]
      OBVIOUS
    <2>3. e \in StepsOf(WireSpokes) /\ e.op = "set" /\ e.fact = f
      BY <1>15, <2>2
    <2> QED BY <2>3 DEF Given
  <1> QED BY <1>3, <1>13, <1>14, <1>16

LEMMA MeshAside ==
  ASSUME DeployInv, NEW s \in Spokes
  PROVE  Aside(WireSpokes, s) /\ Aside(SyncAddresses, s)
  <1>1. Aside(WireSpokes, s)
    <2>1. SUFFICES ASSUME NEW e \in StepsOf(WireSpokes) PROVE Elsewhere(e, s)
      BY MeshSteps DEF Aside
    <2>2. e.op = "set" /\ e.fact \in MeshFacts
      BY MeshSteps
    <2>3. e.fact[2] \in Chains
      <3>1. PICK t \in Spokes : e.fact = PeerFact(t) \/ e.fact = BackFact(t)
        BY <2>2 DEF MeshFacts
      <3>2. PeerFact(t)[2] = t /\ BackFact(t)[2] = "hub" /\ t \in Chains /\ "hub" \in Chains
        BY WiredFields DEF PeerFact, BackFact
      <3> QED BY <3>1, <3>2
    <2> QED BY <2>2, <2>3 DEF Elsewhere
  <1>2. Aside(SyncAddresses, s)
    <2>1. PICK m, p, B, ss : /\ m = Cardinality(Chains) /\ p = SetToSeq(Chains) /\ B = [op : {"copy"}, file : Chains]
                             /\ ss = [i \in 1 .. m |-> Copy(p[i])]
      OBVIOUS
    <2>2. m \in Nat /\ \A i \in 1 .. m : p[i] \in Chains
      <3>1. IsFiniteSet(Spokes \cup {"hub"})
        BY DeploymentAssumption, FS_AddElement
      <3>2. Chains = Spokes \cup {"hub"}
        BY DEF Chains
      <3> QED BY <2>1, <3>1, <3>2, InARow
    <2>3. ASSUME NEW i \in 1 .. m PROVE ss[i] \in Seq(B)
      <3>1. PICK e : e = [op |-> "copy", file |-> p[i]]
        OBVIOUS
      <3>2. e \in B
        BY <2>1, <2>2, <3>1
      <3>3. ss[i] = <<e>>
        BY <2>1, <3>1 DEF Copy
      <3> QED BY <3>2, <3>3
    <2>4. FlattenSeq(ss) \in Seq(B)
      <3>1. ss \in [1 .. m -> Seq(B)]
        BY <2>1, <2>3
      <3> QED BY <2>2, <3>1, FlatRow
    <2>5. Aside(FlattenSeq(ss), s)
      <3>1. \A e \in B : Elsewhere(e, s)
        BY <2>1 DEF Elsewhere
      <3> QED BY <2>4, <3>1, AsideRow
    <2>6. PICK v : v = [k \in {k \in EnvKeys : docs[k[1]][k[2]] # None} |-> docs[k[1]][k[2]]]
      OBVIOUS
    <2>7. Aside(PutEnv(v), s)
      <3>1. PICK e : e = [op |-> "env", values |-> v]
        OBVIOUS
      <3>2. e.op = "env" /\ PutEnv(v) = <<e>>
        BY <3>1 DEF PutEnv
      <3> QED BY <3>2, OneStep DEF Aside, Elsewhere
    <2>8. SyncAddresses = FlattenSeq(ss) \o PutEnv(v)
      BY <2>1, <2>6, Zenon DEF SyncAddresses
    <2> QED BY <2>5, <2>7, <2>8, AsideTogether
  <1> QED BY <1>1, <1>2

-----------------------------------------------------------------------------
(* The spokes: the scripts of a spoke start.                               *)

LEMMA SomeAt ==
  ASSUME NEW s \in Spokes
  PROVE  \A x \in At(s) : x # None /\ x \in Contracts
  BY WiredFields

LEMMA NewSpoke ==
  ASSUME DeployInv, NEW s \in Spokes, NEW k \in Fields
  PROVE  New(s, k) \in At(s) /\ New(s, k) \notin born /\ New(s, k)[2] = k /\ New(s, k) # None
  <1>1. New(s, k) \in At(s) /\ New(s, k) \notin born /\ New(s, k)[2] = k
    BY NewIsFresh, WiredFields DEF DeployInv
  <1> QED BY <1>1, WiredFields

\* A list that holds a record's transactions, its writing, and the rest.
Joins(p, s, t) == p = s \o t /\ IsList(s) /\ IsList(t)

LEMMA JoinedList ==
  ASSUME NEW p, NEW s, NEW t, Joins(p, s, t)
  PROVE  IsList(p) /\ IsList(s) /\ IsList(t)
  BY MoreSteps DEF Joins

LEMMA Shifted ==
  ASSUME NEW s, NEW t, NEW u, NEW a, NEW b, NEW c, Joins(a, s, t), Joins(b, t, u), Joins(c, a, u)
  PROVE  Joins(c, s, b)
  <1>1. IsList(s) /\ IsList(t) /\ IsList(u) /\ IsList(b)
    BY JoinedList
  <1>2. (s \o t) \o u = s \o (t \o u)
    BY <1>1, Joined
  <1>3. a = s \o t /\ b = t \o u /\ c = a \o u
    BY DEF Joins
  <1>4. c = s \o b
    BY <1>2, <1>3, Zenon
  <1> QED BY <1>1, <1>4 DEF Joins

LEMMA Regrouped ==
  ASSUME NEW X, NEW W, NEW C, NEW D, NEW p, NEW q, NEW v, NEW w, NEW z,
         Joins(p, X, W), Joins(q, p, C), Joins(v, C, D), Joins(w, W, v), Joins(z, q, D)
  PROVE  Joins(z, X, w)
  <1>1. Joins(z, p, v)
    BY Shifted
  <1> QED BY <1>1, Shifted

LEMMA OneMade ==
  ASSUME NEW x, NEW with, NEW X, X = Create(x, with)
  PROVE  /\ IsList(X) /\ Head(X).op = "create" /\ Head(X).new = x /\ Head(X).with = with
         /\ X # <<>> /\ StepsOf(Tail(X)) = {} /\ Fresh(X) = {x} /\ Given(StepsOf(X)) = with
         /\ \A e \in StepsOf(X) : e.op = "create"
  <1>1. PICK e : e = [op |-> "create", new |-> x, with |-> with]
    OBVIOUS
  <1>2. e.op = "create" /\ e.new = x /\ e.with = with
    BY <1>1
  <1>3. X = <<e>>
    BY <1>1 DEF Create
  <1>4. X # <<>> /\ Head(X) = e /\ Tail(X) = <<>>
    BY <1>3
  <1>5. IsList(X) /\ StepsOf(X) = {e}
    BY <1>3, OneStep
  <1>6. Given({e}) = with
    BY <1>2 DEF Given
  <1> QED BY <1>2, <1>4, <1>5, <1>6, NoSteps DEF Fresh

LEMMA StartsSpoke ==
  ASSUME DeployInv, NEW s \in Spokes, Sound(s), PoolsBorn(s), Run("deploy_spoke", s, DeploySpoke(s))
  PROVE  Sound(s)' /\ PoolsBorn(s)' /\ PrintSound(s)' /\ Stage(s)'
  <1>1. PICK x, r, X, Z, full, B, F :
          /\ x = New(s, "oapp") /\ r = [NoRecord EXCEPT !.oapp = x] /\ X = Create(x, {})
          /\ Z = Copy(s) \o Set(x, "AGENT", Agent)
          /\ full = ("deploy_spoke" # "sync_spoke_oracle" \/ s \notin edited)
          /\ B = born \cup Fresh(X) /\ F = facts \cup Given(StepsOf(X))
    OBVIOUS
  <1>2. "oapp" \in Fields /\ "lending" \in Fields /\ "pool" \in Fields /\ "oracle" \in Fields
    BY DEF Fields
  <1>3. x \in At(s) /\ x \notin born /\ x[2] = "oapp" /\ x # None
    BY <1>1, <1>2, NewSpoke
  <1>4. /\ IsList(X) /\ Head(X).op = "create" /\ Head(X).new = x /\ Head(X).with = {}
        /\ X # <<>> /\ StepsOf(Tail(X)) = {} /\ Fresh(X) = {x}
        /\ \A e \in StepsOf(X) : e.op = "create"
    BY <1>1, OneMade
  <1>5. Aside(Z, s)
    <2>1. "AGENT" \in Roles
      BY OtherNames
    <2> QED BY <1>1, <2>1, AsideSteps, AsideTogether
  <1>6. DeploySpoke(s) = X \o (Write(s, r) \o Z)
    <2>1. PICK W, C, D : W = Write(s, r) /\ C = Copy(s) /\ D = Set(x, "AGENT", Agent)
      OBVIOUS
    <2>2. IsList(W) /\ IsList(C) /\ IsList(D)
      BY <2>1, Singles
    <2>3. PICK p, q, v, w, z : p = X \o W /\ q = p \o C /\ v = C \o D /\ w = W \o v /\ z = q \o D
      OBVIOUS
    <2>4. DeploySpoke(s) = z
      BY <1>1, <2>1, <2>3, Zenon DEF DeploySpoke
    <2>5. Joins(z, X, w)
      <3>1. Joins(p, X, W) /\ Joins(v, C, D)
        BY <1>4, <2>2, <2>3 DEF Joins
      <3>2. Joins(q, p, C) /\ Joins(w, W, v)
        BY <2>2, <2>3, <3>1, JoinedList DEF Joins
      <3>3. Joins(z, q, D)
        BY <2>2, <2>3, <3>2, JoinedList DEF Joins
      <3> QED BY <3>1, <3>2, <3>3, Regrouped
    <2>6. z = X \o w
      BY <2>5 DEF Joins
    <2> QED BY <1>1, <2>1, <2>3, <2>4, <2>6, Zenon
  <1>7. /\ r.lending = None /\ r.pool = None /\ r.oracle = None
        /\ r \in [Fields -> Entry(s)] /\ \A k \in Fields : r[k] \in B \cup {None}
    <2>1. NoRecord \in [Fields -> Entry(s)] /\ \A k \in Fields : NoRecord[k] = None
      BY DEF NoRecord, Entry
    <2>2. \A k \in Fields : r[k] = IF k = "oapp" THEN x ELSE None
      BY <1>1, <2>1
    <2>3. r \in [Fields -> Entry(s)]
      BY <1>1, <1>3, <2>1 DEF Entry
    <2> QED BY <1>1, <1>2, <1>4, <2>2, <2>3
  <1>8. RecordOK(s, r, full, B, F)
    BY <1>7 DEF RecordOK
  <1>9. Agrees(docs[s], r.lending, r.pool)
    BY <1>7 DEF Sound, RecordOK, Agrees
  <1>10. Run("deploy_spoke", s, X \o (Write(s, r) \o Z))
    BY <1>6
  <1>11. /\ X # <<>> =>
             /\ \/ MaySet(Head(X), s, r)
                \/ /\ Head(X).op = "create" /\ Head(X).new \in At(s) \ born
                   /\ Head(X).new[2] \in {"oapp", "feed", "lending"}
                   /\ IF Head(X).new[2] = "lending" THEN Head(X).new = r.lending /\ Head(X).with = Built(r)
                      ELSE Head(X).with = {}
             /\ \A e \in StepsOf(Tail(X)) : MaySet(e, s, r)
         /\ \A e \in StepsOf(X) : e.op = "set" /\ e.fact[2] = "feed" => e.fact[3] \in born \cup Fresh(X)
    BY <1>3, <1>4
  <1> QED BY <1>1, <1>4, <1>5, <1>8, <1>9, <1>10, <1>11, RunPends

\* A script that only wires a record, and then writes it.
LEMMA RunSets ==
  ASSUME NEW s \in Spokes, Sound(s), PoolsBorn(s), NEW name, NEW chain, NEW r, NEW X, NEW Z, NEW T,
         Run(name, chain, T), T = X \o (Write(s, r) \o Z), IsList(X), Aside(Z, s),
         \A e \in StepsOf(X) : MaySet(e, s, r) /\ e.fact[2] # "feed",
         name # "sync_spoke_oracle", NEW F, F = facts \cup Given(StepsOf(X)),
         RecordOK(s, r, TRUE, born, F), Agrees(docs[s], r.lending, r.pool)
  PROVE  Sound(s)' /\ PoolsBorn(s)' /\ PrintSound(s)' /\ Stage(s)'
  <1>1. X # <<>> => Head(X) \in StepsOf(X) /\ StepsOf(Tail(X)) \subseteq StepsOf(X)
    BY StepsLeft
  <1>2. Fresh(X) = {}
    BY <1>1 DEF Fresh, MaySet
  <1>3. PICK full, B : full = (name # "sync_spoke_oracle" \/ s \notin edited) /\ B = born \cup Fresh(X)
    OBVIOUS
  <1>4. full = TRUE /\ B = born
    BY <1>2, <1>3
  <1>5. RecordOK(s, r, full, B, F)
    BY <1>4
  <1>6. Run(name, chain, X \o (Write(s, r) \o Z))
    OBVIOUS
  <1>7. /\ X # <<>> =>
             /\ \/ MaySet(Head(X), s, r)
                \/ /\ Head(X).op = "create" /\ Head(X).new \in At(s) \ born
                   /\ Head(X).new[2] \in {"oapp", "feed", "lending"}
                   /\ IF Head(X).new[2] = "lending" THEN Head(X).new = r.lending /\ Head(X).with = Built(r)
                      ELSE Head(X).with = {}
             /\ \A e \in StepsOf(Tail(X)) : MaySet(e, s, r)
        /\ \A e \in StepsOf(X) : e.op = "set" /\ e.fact[2] = "feed" => e.fact[3] \in born \cup Fresh(X)
    BY <1>1
  <1> QED BY <1>3, <1>5, <1>6, <1>7, RunPends

\* A script that makes the lending contract of a record, wires it, and then
\* writes the record.
LEMMA RunMakes ==
  ASSUME NEW s \in Spokes, Sound(s), PoolsBorn(s), NEW name, NEW chain, NEW r, NEW X, NEW Z, NEW T,
         Run(name, chain, T), T = X \o (Write(s, r) \o Z), Z = Copy(s),
         X = MakeLending(r) \o WireSpoke(r.lending, r.pool), name # "sync_spoke_oracle",
         r \in [Fields -> Entry(s)], r.lending \in At(s) \ born, r.lending[2] = "lending",
         r.pool \in At(s), r.oracle # None, HasFeed(r.oracle),
         \A k \in Fields : r[k] \in born \cup {r.lending} \cup {None},
         Agrees(docs[s], r.lending, r.pool)
  PROVE  Sound(s)' /\ PoolsBorn(s)' /\ PrintSound(s)' /\ Stage(s)'
  <1>1. r.lending # None /\ r.pool # None
    <2>1. \A x \in At(s) : x # None
      BY SomeAt
    <2> QED BY <2>1
  <1>2. /\ IsList(X) /\ X # <<>> /\ Fresh(X) = {r.lending}
        /\ Head(X) = [op |-> "create", new |-> r.lending, with |-> Built(r)]
        /\ \A e \in StepsOf(Tail(X)) : MaySet(e, s, r)
        /\ \A e \in StepsOf(X) : e.op = "set" => e.fact[2] # "feed"
        /\ Given(StepsOf(X)) = Built(r) \cup Wires(r)
    BY <1>1, MakingIs
  <1>3. PICK full, B, F, G : /\ full = (name # "sync_spoke_oracle" \/ s \notin edited)
                             /\ B = born \cup Fresh(X) /\ G = Given(StepsOf(X)) /\ F = facts \cup G
    OBVIOUS
  <1>4. OnePool(r.lending, r.pool)
    <2>1. PICK x : x = r.lending
      OBVIOUS
    <2>2. x \in At(s) /\ x \notin born
      BY <2>1
    <2> QED BY <2>1, <2>2, NewHasNone
  <1>5. RecordOK(s, r, full, B, F)
    <2>1. \A k \in Fields : r[k] \in B \cup {None}
      BY <1>2, <1>3
    <2>2. Built(r) \subseteq facts \cup G /\ Wires(r) \subseteq facts \cup G
      BY <1>2, <1>3
    <2>3. RecordOK(s, r, full, B, facts \cup G)
      BY <1>1, <1>4, <2>1, <2>2, RecordComes
    <2> QED BY <1>3, <2>3
  <1>6. Run(name, chain, X \o (Write(s, r) \o Z))
    OBVIOUS
  <1>7. Aside(Z, s)
    BY AsideSteps
  <1>8. Head(X).op = "create" /\ Head(X).new = r.lending /\ Head(X).with = Built(r)
    BY <1>2
  <1>9. /\ X # <<>> =>
             /\ \/ MaySet(Head(X), s, r)
                \/ /\ Head(X).op = "create" /\ Head(X).new \in At(s) \ born
                   /\ Head(X).new[2] \in {"oapp", "feed", "lending"}
                   /\ IF Head(X).new[2] = "lending" THEN Head(X).new = r.lending /\ Head(X).with = Built(r)
                      ELSE Head(X).with = {}
             /\ \A e \in StepsOf(Tail(X)) : MaySet(e, s, r)
        /\ \A e \in StepsOf(X) : e.op = "set" /\ e.fact[2] = "feed" => e.fact[3] \in born \cup Fresh(X)
    BY <1>2, <1>8
  <1> QED BY <1>2, <1>3, <1>5, <1>6, <1>7, <1>9, RunPends

\* deploy-spoke-lending.js makes four contracts before it records them.
LEMMA StartsLending ==
  ASSUME DeployInv, NEW s \in Spokes, Sound(s), PoolsBorn(s),
         Run("deploy_spoke_lending", s, DeploySpokeLending(s))
  PROVE  Sound(s)' /\ PoolsBorn(s)' /\ PrintSound(s)' /\ Stage(s)'
  <1>1. PICK d, feed, oracle, p, l, r :
          /\ d = docs[s] /\ feed = New(s, "feed") /\ oracle = New(s, "oracle") /\ p = New(s, "pool")
          /\ l = New(s, "lending")
          /\ r = [d EXCEPT !.oracle = oracle, !.pool = p, !.lending = l, !.feed = feed]
    OBVIOUS
  <1>2. {"oapp", "lending", "pool", "oracle", "feed", "sbt", "engine"} \subseteq Fields
    BY DEF Fields
  <1>3. /\ feed \in At(s) /\ oracle \in At(s) /\ p \in At(s) /\ l \in At(s)
        /\ feed \notin born /\ oracle \notin born /\ p \notin born /\ l \notin born
        /\ feed[2] = "feed" /\ oracle[2] = "oracle" /\ p[2] = "pool" /\ l[2] = "lending"
        /\ l # None
    BY <1>1, <1>2, NewSpoke
  <1>4. d \in [Fields -> Entry(s)]
    BY <1>1, SpokeTypes
  <1>5. /\ r \in [Fields -> Entry(s)] /\ r.oracle = oracle /\ r.pool = p /\ r.lending = l /\ r.feed = feed
        /\ r.oapp = d.oapp /\ r.sbt = d.sbt /\ r.engine = d.engine
    BY <1>1, <1>2, <1>3, <1>4 DEF Entry
  <1>6. PICK A, B, D, E, F, G, W, C, H :
          /\ A = Create(feed, {}) /\ B = Create(oracle, {}) /\ D = Set(oracle, "feed", feed)
          /\ E = Create(p, {}) /\ F = MakeLending(r) /\ G = WireSpoke(l, p)
          /\ W = Write(s, r) /\ C = Copy(s) /\ H = W \o C
    OBVIOUS
  <1>7. PICK p1, p2, p3, p4, p5, z :
          /\ p1 = A \o B /\ p2 = p1 \o D /\ p3 = p2 \o E /\ p4 = p3 \o F /\ p5 = p4 \o G /\ z = p5 \o H
    OBVIOUS
  <1>8. DeploySpokeLending(s) = z
    <2>1. SpokeLending(s, oracle) = F
      BY <1>1, <1>5, <1>6, Zenon DEF SpokeLending, MakeLending, Built, Create
    <2>2. SaveSpoke(s, oracle, p, l, feed) = H
      BY <1>1, <1>6, Zenon DEF SaveSpoke
    <2> QED BY <1>1, <1>6, <1>7, <2>1, <2>2, Zenon DEF DeploySpokeLending
  <1>9. PICK t5, t6, t7, t8, t9 : /\ t5 = F \o G /\ t6 = t5 \o H /\ t7 = E \o t6 /\ t8 = D \o t7
                                  /\ t9 = B \o t8
    OBVIOUS
  <1>10. /\ IsList(A) /\ IsList(B) /\ IsList(D) /\ IsList(E) /\ IsList(F) /\ IsList(G) /\ IsList(H)
    <2>1. IsList(A) /\ IsList(B) /\ IsList(D) /\ IsList(E) /\ IsList(W) /\ IsList(C)
      BY <1>6, Singles
    <2>2. IsList(F)
      BY <1>6, OneStep DEF MakeLending
    <2>3. IsList(G)
      BY <1>3, <1>5, <1>6, WiresAre
    <2> QED BY <1>6, <2>1, <2>2, <2>3, MoreSteps
  <1>11. /\ Joins(p1, A, B) /\ Joins(p2, p1, D) /\ Joins(p3, p2, E) /\ Joins(p4, p3, F)
         /\ Joins(p5, p4, G) /\ Joins(z, p5, H)
    <2>1. Joins(p1, A, B)
      BY <1>7, <1>10 DEF Joins
    <2>2. Joins(p2, p1, D)
      BY <1>7, <1>10, <2>1, JoinedList DEF Joins
    <2>3. Joins(p3, p2, E)
      BY <1>7, <1>10, <2>2, JoinedList DEF Joins
    <2>4. Joins(p4, p3, F)
      BY <1>7, <1>10, <2>3, JoinedList DEF Joins
    <2>5. Joins(p5, p4, G)
      BY <1>7, <1>10, <2>4, JoinedList DEF Joins
    <2>6. Joins(z, p5, H)
      BY <1>7, <1>10, <2>5, JoinedList DEF Joins
    <2> QED BY <2>1, <2>2, <2>3, <2>4, <2>5, <2>6
  <1>12. Joins(t5, F, G) /\ Joins(t6, t5, H) /\ Joins(t7, E, t6) /\ Joins(t8, D, t7) /\ Joins(t9, B, t8)
    <2>1. Joins(t5, F, G)
      BY <1>9, <1>10 DEF Joins
    <2>2. Joins(t6, t5, H)
      BY <1>9, <1>10, <2>1, JoinedList DEF Joins
    <2>3. Joins(t7, E, t6)
      BY <1>9, <1>10, <2>2, JoinedList DEF Joins
    <2>4. Joins(t8, D, t7)
      BY <1>9, <1>10, <2>3, JoinedList DEF Joins
    <2>5. Joins(t9, B, t8)
      BY <1>9, <1>10, <2>4, JoinedList DEF Joins
    <2> QED BY <2>1, <2>2, <2>3, <2>4, <2>5
  <1>13. z = A \o t9
    <2>1. Joins(p5, p3, t5)
      BY <1>11, <1>12, Shifted
    <2>2. Joins(z, p3, t6)
      BY <1>11, <1>12, <2>1, Shifted
    <2>3. Joins(z, p2, t7)
      BY <1>11, <1>12, <2>2, Shifted
    <2>4. Joins(z, p1, t8)
      BY <1>11, <1>12, <2>3, Shifted
    <2>5. Joins(z, A, t9)
      BY <1>11, <1>12, <2>4, Shifted
    <2> QED BY <2>5 DEF Joins
  <1>14. t6 = Later(s, r)
    BY <1>5, <1>6, <1>9, Zenon DEF Later
  <1>15. z = Create(r.feed, {}) \o (Create(r.oracle, {}) \o (SetFeed(r) \o (Create(r.pool, {}) \o Later(s, r))))
    BY <1>5, <1>6, <1>9, <1>13, <1>14, Zenon DEF SetFeed
  <1>16. /\ script' = <<"deploy_spoke_lending", s>> /\ todo' = z /\ docs' = docs /\ born' = born
         /\ Prints(s)' = {}
    BY <1>8, RunSame
  <1>17. Begins(s, r)'
    <2>1. todo' = Create(r.feed, {}) \o (Create(r.oracle, {}) \o (SetFeed(r) \o (Create(r.pool, {}) \o Later(s, r))))
      BY <1>15, <1>16, Zenon
    <2>2. script'[1] = "deploy_spoke_lending"
      BY <1>16
    <2>3. /\ r \in [Fields -> Entry(s)] /\ r.oapp = docs'[s].oapp
          /\ \A k \in {"sbt", "engine"} : r[k] = docs'[s][k]
          /\ \A k \in {"feed", "oracle", "pool", "lending"} : r[k] \in At(s) /\ r[k][2] = k
          /\ r.pool \notin born' /\ r.lending \notin born'
          /\ r.feed \notin born' /\ r.oracle \notin born'
      BY <1>1, <1>3, <1>5, <1>16
    <2> QED BY <1>16, <2>1, <2>2, <2>3, Zenon DEF Begins
  <1> QED BY <1>17, RunSame DEF Stage

\* What a sound record says of its contracts.
LEMMA SoundParts ==
  ASSUME DeployInv, NEW s \in Spokes, Sound(s), NEW d, d = docs[s]
  PROVE  /\ d \in [Fields -> Entry(s)] /\ \A k \in Fields : d[k] \in born \cup {None}
         /\ d.oracle # None => HasFeed(d.oracle) /\ d.oracle \in At(s)
         /\ d.pool # None => d.pool \in At(s)
         /\ d.lending # None =>
              /\ d.lending \in At(s) /\ d.pool # None /\ d.oracle # None /\ OnePool(d.lending, d.pool)
              /\ Built(d) \subseteq facts /\ (s \notin edited => Wires(d) \subseteq facts)
  <1>1. PICK full : full = (s \notin edited)
    OBVIOUS
  <1>2. RecordOK(s, d, full, born, facts)
    BY <1>1 DEF Sound
  <1>3. /\ d.oracle \in Entry(s) /\ d.pool \in Entry(s) /\ d.lending \in Entry(s)
    BY <1>2, RecordParts
  <1> QED BY <1>1, <1>2, <1>3 DEF RecordOK, Entry

\* finish-base-spoke-lending.js completes a record without lending contract.
LEMMA StartsBaseLending ==
  ASSUME DeployInv, NEW s \in Spokes, Sound(s), PoolsBorn(s),
         docs[s].oracle # None, docs[s].pool # None, docs[s].lending = None,
         Run("finish_base_lending", s, FinishBaseLending(s))
  PROVE  Sound(s)' /\ PoolsBorn(s)' /\ PrintSound(s)' /\ Stage(s)'
  <1>1. PICK d, l, r : /\ d = docs[s] /\ l = New(s, "lending")
                       /\ r = [d EXCEPT !.oracle = d.oracle, !.pool = d.pool, !.lending = l, !.feed = d.feed]
    OBVIOUS
  <1>2. {"oapp", "lending", "pool", "oracle", "feed", "sbt", "engine"} \subseteq Fields
    BY DEF Fields
  <1>3. l \in At(s) /\ l \notin born /\ l[2] = "lending" /\ l # None
    BY <1>1, <1>2, NewSpoke
  <1>4. /\ d \in [Fields -> Entry(s)] /\ \A k \in Fields : d[k] \in born \cup {None}
        /\ d.oracle # None /\ d.pool # None /\ HasFeed(d.oracle) /\ d.pool \in At(s)
    BY <1>1, SoundParts
  <1>5. /\ r \in [Fields -> Entry(s)] /\ r.oracle = d.oracle /\ r.pool = d.pool /\ r.lending = l
        /\ r.oapp = d.oapp /\ r.oracle # None /\ r.pool \in At(s) /\ r.lending \in At(s) \ born
        /\ r.lending[2] = "lending" /\ r.lending # None
        /\ \A k \in Fields : r[k] \in born \cup {r.lending} \cup {None}
    BY <1>1, <1>2, <1>3, <1>4 DEF Entry
  <1>6. PICK F, G, W, C, H, X, z, w : /\ F = MakeLending(r) /\ G = WireSpoke(l, d.pool) /\ W = Write(s, r)
                                   /\ C = Copy(s) /\ H = W \o C /\ X = F \o G /\ z = X \o H
    OBVIOUS
  <1>7. FinishBaseLending(s) = z
    <2>1. SpokeLending(s, d.oracle) = F
      BY <1>1, <1>5, <1>6, Zenon DEF SpokeLending, MakeLending, Built, Create
    <2>2. SaveSpoke(s, d.oracle, d.pool, l, d.feed) = H
      BY <1>1, <1>6, Zenon DEF SaveSpoke
    <2> QED BY <1>1, <1>6, <2>1, <2>2, Zenon DEF FinishBaseLending
  <1>8. Run("finish_base_lending", s, z)
    BY <1>7
  <1>9. X = MakeLending(r) \o WireSpoke(r.lending, r.pool) /\ z = X \o (Write(s, r) \o C)
    BY <1>5, <1>6, Zenon
  <1>10. Agrees(docs[s], r.lending, r.pool)
    BY DEF Agrees
  <1>11. HasFeed(r.oracle)
    BY <1>4, <1>5
  <1> QED BY <1>5, <1>6, <1>8, <1>9, <1>10, <1>11, RunMakes

\* What a careful operator types in.
LEMMA CarefulTypes ==
  ASSUME Careful, NEW s, NEW given \in Existing(s)
  PROVE  /\ given.oracle = Printed(s, "oracle") /\ given.pool = Printed(s, "pool")
         /\ given.feed = Printed(s, "feed") /\ given.lending = Printed(s, "lending")
  BY DEF Existing

\* finish-spoke-lending.js resumes with the addresses that were printed.
LEMMA StartsFinish ==
  ASSUME DeployInv, Careful, NEW s \in Spokes, Sound(s), PoolsBorn(s), PrintSound(s),
         NEW given \in Existing(s), given.pool # None,
         Run("finish_spoke_lending", s, FinishSpokeLending(s, given))
  PROVE  Sound(s)' /\ PoolsBorn(s)' /\ PrintSound(s)' /\ Stage(s)'
  <1>1. PICK d, o, p, f, old, l, r, q :
          /\ d = docs[s] /\ o = Printed(s, "oracle") /\ p = Printed(s, "pool") /\ f = Printed(s, "feed")
          /\ old = Printed(s, "lending") /\ l = (IF old # None THEN old ELSE New(s, "lending"))
          /\ r = [d EXCEPT !.oracle = o, !.pool = p, !.lending = l, !.feed = f] /\ q = Output(s)
    OBVIOUS
  <1>18. /\ given.oracle = o /\ given.pool = p /\ given.feed = f /\ given.lending = old
         /\ Printed(s, "pool") # None
    BY <1>1, CarefulTypes
  <1>2. {"oapp", "lending", "pool", "oracle", "feed", "sbt", "engine"} \subseteq Fields
    BY DEF Fields
  <1>3. /\ d \in [Fields -> Entry(s)] /\ o \in Entry(s) /\ p \in Entry(s) /\ f \in Entry(s) /\ old \in Entry(s)
    BY <1>1, <1>2, SpokeTypes
  <1>4. /\ RecordOK(s, q, FALSE, born, facts) /\ o # None /\ f # None /\ p # None
        /\ Agrees(d, old, p)
    BY <1>1, <1>18 DEF PrintSound
  <1>5. /\ q = [d EXCEPT !.oracle = o, !.pool = p, !.lending = old, !.feed = f]
        /\ q.oracle = o /\ q.pool = p /\ q.lending = old /\ q.feed = f
    BY <1>1, <1>2, <1>3 DEF Output
  <1>6. /\ r \in [Fields -> Entry(s)] /\ r.oracle = o /\ r.pool = p /\ r.lending = l /\ r.feed = f
        /\ r.oapp = d.oapp /\ r.pool \in At(s) /\ r.oracle # None /\ l \in At(s) /\ l # None
        /\ \A k \in Fields : r[k] = IF k = "lending" THEN l ELSE q[k]
    <2>1. l \in At(s) /\ l # None
      BY <1>1, <1>2, <1>3, NewSpoke DEF Entry
    <2>2. p \in At(s)
      BY <1>3, <1>4 DEF Entry
    <2> QED BY <1>1, <1>2, <1>3, <1>4, <1>5, <2>1, <2>2 DEF Entry
  <1>7. HasFeed(r.oracle) /\ \A k \in Fields : q[k] \in born \cup {None}
    BY <1>4, <1>5, <1>6 DEF RecordOK
  <1>8. PICK U, G, W, C, H, v, z :
          /\ U = Unless(old # None, SpokeLending(s, o)) /\ G = WireSpoke(l, p) /\ W = Write(s, r)
          /\ C = Copy(s) /\ H = W \o C /\ v = U \o G /\ z = v \o H
    OBVIOUS
  <1>9. FinishSpokeLending(s, given) = z
    <2>1. SaveSpoke(s, o, p, l, f) = H
      BY <1>1, <1>8, Zenon DEF SaveSpoke
    <2> QED BY <1>1, <1>8, <1>18, <2>1, Zenon DEF FinishSpokeLending
  <1>10. Run("finish_spoke_lending", s, z)
    BY <1>9
  <1>11. z = v \o (Write(s, r) \o C)
    BY <1>8, Zenon
  <1>12. CASE old # None
    <2>1. l = old /\ r = q
      BY <1>1, <1>5, <1>12
    <2>2. U = <<>>
      BY <1>8, <1>12 DEF Unless
    <2>3. G = WireSpoke(r.lending, r.pool) /\ r.lending \in At(s) /\ r.lending # None /\ r.pool \in At(s)
      BY <1>6, <1>8
    <2>4. /\ IsList(G) /\ Given(StepsOf(G)) = Wires(r)
          /\ \A e \in StepsOf(G) : MaySet(e, s, r) /\ e.op = "set" /\ e.fact[2] # "feed"
      BY <2>3, WiresAre
    <2>5. v = G
      BY <1>8, <2>2, <2>4, NoneFirst
    <2>6. PICK F : F = facts \cup Given(StepsOf(v))
      OBVIOUS
    <2>7. RecordOK(s, r, TRUE, born, F)
      <3>1. RecordOK(s, r, FALSE, born, facts) /\ F = facts \cup Wires(r)
        BY <1>4, <2>1, <2>4, <2>5, <2>6
      <3> QED BY <3>1 DEF RecordOK
    <2>8. Agrees(docs[s], r.lending, r.pool)
      BY <1>1, <1>4, <1>6, <2>1
    <2>9. IsList(v) /\ \A e \in StepsOf(v) : MaySet(e, s, r) /\ e.fact[2] # "feed"
      BY <2>4, <2>5
    <2>10. Aside(C, s)
      BY <1>8, AsideSteps
    <2> QED BY <1>10, <1>11, <2>6, <2>7, <2>8, <2>9, <2>10, RunSets
  <1>13. CASE old = None
    <2>1. l = New(s, "lending") /\ l \notin born /\ l[2] = "lending"
      BY <1>1, <1>2, <1>13, NewSpoke
    <2>2. U = SpokeLending(s, o)
      BY <1>8, <1>13 DEF Unless
    <2>3. U = MakeLending(r)
      BY <1>1, <1>6, <2>1, <2>2, Zenon DEF SpokeLending, MakeLending, Built, Create
    <2>4. v = MakeLending(r) \o WireSpoke(r.lending, r.pool)
      BY <1>6, <1>8, <2>3, Zenon
    <2>5. \A k \in Fields : r[k] \in born \cup {r.lending} \cup {None}
      BY <1>6, <1>7
    <2>6. Agrees(docs[s], r.lending, r.pool)
      <3>1. d.lending # None => d.lending \in born
        BY <1>1, <1>2, SoundParts
      <3>2. d.lending # None => d.pool # p
        BY <1>4, <1>13 DEF Agrees
      <3> QED BY <1>1, <1>6, <2>1, <3>1, <3>2 DEF Agrees
    <2>7. r.lending \in At(s) \ born /\ r.lending[2] = "lending"
      BY <1>6, <2>1
    <2>8. C = Copy(s) /\ "finish_spoke_lending" # "sync_spoke_oracle"
      BY <1>8
    <2>9. r \in [Fields -> Entry(s)] /\ r.pool \in At(s) /\ r.oracle # None /\ HasFeed(r.oracle)
      BY <1>6, <1>7
    <2> QED BY <1>10, <1>11, <2>4, <2>5, <2>6, <2>7, <2>8, <2>9, RunMakes
  <1> QED BY <1>12, <1>13

\* A setter that is called unless its value is found there.
LEMMA SetsOnce ==
  ASSUME NEW x, NEW what, NEW value, NEW f, f = <<x, what, value>>, NEW T,
         \/ T = SetIfMissing(x, what, value)
         \/ T = SetIfZero(x, what, value) /\ \A g \in facts : g[1] = x /\ g[2] = what => g = f
  PROVE  /\ IsList(T) /\ \A e \in StepsOf(T) : e.op = "set" /\ e.fact = f
         /\ f \in facts \cup Given(StepsOf(T))
  <1>1. (T = <<>> /\ f \in facts) \/ T = Set(x, what, value)
    BY DEF SetIfMissing, SetIfZero, Unless
  <1>2. CASE T = <<>> /\ f \in facts
    BY <1>2, NoSteps
  <1>3. CASE T = Set(x, what, value)
    <2>1. PICK e : e = [op |-> "set", fact |-> f]
      OBVIOUS
    <2>2. e.op = "set" /\ e.fact = f /\ T = <<e>>
      BY <1>3, <2>1 DEF Set
    <2>3. IsList(T) /\ StepsOf(T) = {e}
      BY <2>2, OneStep
    <2>4. f \in Given({e})
      BY <2>2 DEF Given
    <2> QED BY <2>2, <2>3, <2>4
  <1> QED BY <1>1, <1>2, <1>3

LEMMA GivenBoth ==
  ASSUME NEW S, NEW T
  PROVE  Given(S \cup T) = Given(S) \cup Given(T)
  BY DEF Given

\* finish-base-spoke-wiring.js sets what is missing of a recorded lending
\* contract's wiring.
LEMMA StartsWiring ==
  ASSUME DeployInv, NEW s \in Spokes, Sound(s), PoolsBorn(s), docs[s].lending # None,
         Run("finish_base_wiring", s, FinishBaseWiring(s))
  PROVE  Sound(s)' /\ PoolsBorn(s)' /\ PrintSound(s)' /\ Stage(s)'
  <1>1. PICK d, l, p, r : /\ d = docs[s] /\ l = d.lending /\ p = d.pool
                          /\ r = [d EXCEPT !.oracle = d.oracle, !.pool = p, !.lending = l, !.feed = d.feed]
    OBVIOUS
  <1>2. RecordedLending(s) = l
    BY <1>1 DEF RecordedLending
  <1>3. /\ d \in [Fields -> Entry(s)] /\ l \in At(s) /\ p # None /\ p \in At(s) /\ l # None
        /\ d.oracle # None /\ OnePool(l, p) /\ Built(d) \subseteq facts
    BY <1>1, SoundParts
  <1>4. r = d
    BY <1>1, <1>3 DEF Fields
  <1>5. PICK fA, fB, fD : fA = <<p, "lending", l>> /\ fB = <<l, "pool", p>> /\ fD = <<l, "AGENT", Agent>>
    OBVIOUS
  <1>6. PICK A, B, D, W, C, H, Y, X, z :
          /\ A = SetIfMissing(p, "lending", l) /\ B = SetIfZero(l, "pool", p)
          /\ D = SetIfMissing(l, "AGENT", Agent) /\ W = Write(s, r) /\ C = Copy(s) /\ H = W \o C
          /\ Y = A \o B /\ X = Y \o D /\ z = X \o H
    OBVIOUS
  <1>7. FinishBaseWiring(s) = z
    <2>1. SaveSpoke(s, d.oracle, p, l, d.feed) = H
      BY <1>1, <1>6, Zenon DEF SaveSpoke
    <2> QED BY <1>1, <1>2, <1>6, <2>1, Zenon DEF FinishBaseWiring
  <1>8. Run("finish_base_wiring", s, z)
    BY <1>7
  <1>9. z = X \o (Write(s, r) \o C)
    BY <1>6, Zenon
  <1>10. /\ IsList(A) /\ fA \in facts \cup Given(StepsOf(A))
         /\ \A e \in StepsOf(A) : e.op = "set" /\ e.fact = fA
    BY <1>5, <1>6, SetsOnce
  <1>11. /\ IsList(B) /\ fB \in facts \cup Given(StepsOf(B))
         /\ \A e \in StepsOf(B) : e.op = "set" /\ e.fact = fB
    <2>1. \A g \in facts : g[1] = l /\ g[2] = "pool" => g = fB
      BY <1>3, <1>5 DEF OnePool
    <2>2. fB = <<l, "pool", p>> /\ B = SetIfZero(l, "pool", p)
      BY <1>5, <1>6
    <2> QED BY <2>1, <2>2, SetsOnce
  <1>12. /\ IsList(D) /\ fD \in facts \cup Given(StepsOf(D))
         /\ \A e \in StepsOf(D) : e.op = "set" /\ e.fact = fD
    BY <1>5, <1>6, SetsOnce
  <1>13. IsList(X) /\ StepsOf(X) = (StepsOf(A) \cup StepsOf(B)) \cup StepsOf(D)
    <2>1. IsList(Y) /\ StepsOf(Y) = StepsOf(A) \cup StepsOf(B)
      BY <1>6, <1>10, <1>11, MoreSteps
    <2> QED BY <1>6, <1>12, <2>1, MoreSteps
  <1>14. Wires(r) = {fA, fB, fD}
    BY <1>1, <1>4, <1>5 DEF Wires
  <1>15. ASSUME NEW e \in StepsOf(X) PROVE MaySet(e, s, r) /\ e.fact[2] # "feed"
    <2>1. e.op = "set" /\ e.fact \in {fA, fB, fD}
      BY <1>10, <1>11, <1>12, <1>13
    <2>2. e.fact[1] \in At(s) /\ e.fact[2] # "feed"
      BY <1>3, <1>5, <2>1
    <2>3. r.lending # None
      BY <1>1, <1>3, <1>4
    <2> QED BY <1>14, <2>1, <2>2, <2>3 DEF MaySet
  <1>16. PICK F : F = facts \cup Given(StepsOf(X))
    OBVIOUS
  <1>17. Wires(r) \subseteq F
    <2>1. Given(StepsOf(X)) = (Given(StepsOf(A)) \cup Given(StepsOf(B))) \cup Given(StepsOf(D))
      <3>1. PICK a, b, c : a = StepsOf(A) /\ b = StepsOf(B) /\ c = StepsOf(D)
        OBVIOUS
      <3>2. Given((a \cup b) \cup c) = Given(a \cup b) \cup Given(c) /\ Given(a \cup b) = Given(a) \cup Given(b)
        BY GivenBoth
      <3> QED BY <1>13, <3>1, <3>2
    <2> QED BY <1>10, <1>11, <1>12, <1>14, <1>16, <2>1
  <1>18. RecordOK(s, r, TRUE, born, F)
    <2>1. PICK full : full = (s \notin edited)
      OBVIOUS
    <2>2. RecordOK(s, r, full, born, facts)
      BY <1>1, <1>4, <2>1 DEF Sound
    <2> QED BY <1>16, <1>17, <2>2 DEF RecordOK
  <1>19. Agrees(docs[s], r.lending, r.pool)
    BY <1>1, <1>4 DEF Agrees
  <1>20. Aside(C, s) /\ "finish_base_wiring" # "sync_spoke_oracle"
    BY <1>6, AsideSteps
  <1> QED BY <1>8, <1>9, <1>13, <1>15, <1>16, <1>18, <1>19, <1>20, RunSets

\* sync-spoke-oracle.js writes the record of a new mirror feed, or the old one.
LEMMA StartsOracle ==
  ASSUME DeployInv, NEW s \in Spokes, Sound(s), PoolsBorn(s), NEW fresh \in BOOLEAN,
         fresh \/ docs[s].feed # None, Run("sync_spoke_oracle", s, SyncSpokeOracle(s, fresh))
  PROVE  Sound(s)' /\ PoolsBorn(s)' /\ PrintSound(s)' /\ Stage(s)'
  <1>1. PICK d, f, r : /\ d = docs[s] /\ f = (IF fresh THEN New(s, "feed") ELSE d.feed)
                       /\ r = [d EXCEPT !.feed = f]
    OBVIOUS
  <1>2. {"oapp", "lending", "pool", "oracle", "feed", "sbt", "engine"} \subseteq Fields
    BY DEF Fields
  <1>3. /\ d \in [Fields -> Entry(s)] /\ \A k \in Fields : d[k] \in born \cup {None}
        /\ d.oracle # None => HasFeed(d.oracle) /\ d.oracle \in At(s)
        /\ d.lending # None =>
             /\ d.pool # None /\ d.oracle # None /\ OnePool(d.lending, d.pool)
             /\ Built(d) \subseteq facts /\ (s \notin edited => Wires(d) \subseteq facts)
    BY <1>1, SoundParts
  <1>4. /\ f \in Entry(s) /\ (fresh => f \in At(s) /\ f \notin born /\ f[2] = "feed")
        /\ ~fresh => f \in born
    BY <1>1, <1>2, <1>3, NewSpoke DEF Entry
  <1>5. /\ r \in [Fields -> Entry(s)] /\ \A k \in Fields : r[k] = IF k = "feed" THEN f ELSE d[k]
        /\ r.oracle = d.oracle /\ r.pool = d.pool /\ r.lending = d.lending /\ r.oapp = d.oapp
    BY <1>1, <1>2, <1>3, <1>4
  <1>6. Built(r) = Built(d) /\ Wires(r) = Wires(d)
    BY <1>5 DEF Built, Wires
  <1>7. PICK A, B, W, C, X, y, z, H :
          /\ A = Unless(~fresh, Create(f, {}))
          /\ B = Unless(d.oracle = None, SetIfMissing(d.oracle, "feed", f))
          /\ W = Write(s, r) /\ C = Copy(s) /\ X = A \o B /\ y = X \o W /\ z = y \o C /\ H = W \o C
    OBVIOUS
  <1>8. SyncSpokeOracle(s, fresh) = z
    BY <1>1, <1>7, Zenon DEF SyncSpokeOracle
  <1>9. IsList(A) /\ IsList(B) /\ IsList(W) /\ IsList(C)
    <2>1. IsList(A) /\ IsList(W) /\ IsList(C)
      BY <1>7, Singles, NoSteps DEF Unless
    <2>2. IsList(B)
      <3>1. IsList(SetIfMissing(d.oracle, "feed", f))
        <4>1. PICK g, T : g = <<d.oracle, "feed", f>> /\ T = SetIfMissing(d.oracle, "feed", f)
          OBVIOUS
        <4> QED BY <4>1, SetsOnce
      <3> QED BY <1>7, <3>1, NoSteps DEF Unless
    <2> QED BY <2>1, <2>2
  <1>10. ASSUME NEW e \in StepsOf(B) PROVE MaySet(e, s, r) /\ e.fact[3] = f
    <2>1. d.oracle # None /\ B = SetIfMissing(d.oracle, "feed", f)
      BY <1>7, NoSteps DEF Unless
    <2>2. PICK g : g = <<d.oracle, "feed", f>>
      OBVIOUS
    <2>3. e.op = "set" /\ e.fact = g
      BY <2>1, <2>2, SetsOnce
    <2>4. g[1] = d.oracle /\ g = <<g[1], "feed", g[3]>> /\ g[3] = f /\ d.oracle \in At(s)
      BY <1>3, <2>1, <2>2
    <2> QED BY <2>3, <2>4 DEF MaySet
  <1>11. z = X \o (Write(s, r) \o C) /\ IsList(X)
    <2>1. Joins(X, A, B)
      BY <1>7, <1>9 DEF Joins
    <2>2. IsList(X)
      BY <2>1, JoinedList
    <2>3. Joins(y, X, W) /\ Joins(H, W, C)
      BY <1>7, <1>9, <2>2 DEF Joins
    <2>4. Joins(z, y, C)
      BY <1>7, <1>9, <2>3, JoinedList DEF Joins
    <2>5. Joins(z, X, H)
      BY <2>3, <2>4, Shifted
    <2>6. z = X \o H
      BY <2>5 DEF Joins
    <2> QED BY <1>7, <2>2, <2>6, Zenon
  <1>12. PICK full, K, F : /\ full = ("sync_spoke_oracle" # "sync_spoke_oracle" \/ s \notin edited)
                           /\ K = born \cup Fresh(X) /\ F = facts \cup Given(StepsOf(X))
    OBVIOUS
  <1>13. full = (s \notin edited)
    BY <1>12
  <1>14. /\ X # <<>> =>
             /\ \/ MaySet(Head(X), s, r)
                \/ /\ Head(X).op = "create" /\ Head(X).new \in At(s) \ born
                   /\ Head(X).new[2] \in {"oapp", "feed", "lending"}
                   /\ IF Head(X).new[2] = "lending" THEN Head(X).new = r.lending /\ Head(X).with = Built(r)
                      ELSE Head(X).with = {}
             /\ \A e \in StepsOf(Tail(X)) : MaySet(e, s, r)
         /\ \A e \in StepsOf(X) : e.op = "set" /\ e.fact[2] = "feed" => e.fact[3] \in born \cup Fresh(X)
         /\ f \in K
    <2>1. CASE fresh
      <3>1. PICK e : e = [op |-> "create", new |-> f, with |-> {}]
        OBVIOUS
      <3>2. A = <<e>> /\ e.op = "create" /\ e.new = f /\ e.with = {}
        BY <1>7, <2>1, <3>1 DEF Unless, Create
      <3>3. X # <<>> /\ Head(X) = e /\ Tail(X) = B /\ StepsOf(X) = {e} \cup StepsOf(B)
        <4>1. /\ <<e>> \o B # <<>> /\ Head(<<e>> \o B) = e /\ Tail(<<e>> \o B) = B
              /\ StepsOf(<<e>> \o B) = {e} \cup StepsOf(B)
          BY <1>9, OneFirst
        <4>2. X = <<e>> \o B
          BY <1>7, <3>2, Zenon
        <4> QED BY <4>1, <4>2, Zenon
      <3>4. Fresh(X) = {f}
        BY <3>2, <3>3 DEF Fresh
      <3> QED BY <1>4, <1>10, <1>12, <2>1, <3>2, <3>3, <3>4
    <2>2. CASE ~fresh
      <3>1. A = <<>>
        BY <1>7, <2>2 DEF Unless
      <3>2. X = B
        BY ZenonT(60), <1>7, <1>9, <3>1, NoneFirst
      <3>3. X # <<>> => Head(X) \in StepsOf(X) /\ StepsOf(Tail(X)) \subseteq StepsOf(X)
        BY <1>11, StepsLeft
      <3>4. f \in born
        BY <1>4, <2>2
      <3> QED BY <1>10, <1>12, <3>2, <3>3, <3>4
    <2> QED BY <2>1, <2>2
  <1>15. RecordOK(s, r, full, K, F)
    <2>1. \A k \in Fields : r[k] \in K \cup {None}
      BY <1>3, <1>5, <1>12, <1>14
    <2>2. r.oracle # None => HasFeed(r.oracle)
      BY <1>3, <1>5
    <2>3. r.lending # None =>
            /\ r.pool # None /\ r.oracle # None /\ OnePool(r.lending, r.pool)
            /\ Built(r) \subseteq F /\ (full => Wires(r) \subseteq F)
      BY <1>3, <1>5, <1>6, <1>12, <1>13
    <2> QED BY <1>5, <2>1, <2>2, <2>3 DEF RecordOK
  <1>16. Agrees(docs[s], r.lending, r.pool)
    BY <1>1, <1>5 DEF Agrees
  <1>17. Aside(C, s) /\ Run("sync_spoke_oracle", s, X \o (Write(s, r) \o C))
    BY <1>7, <1>8, <1>11, AsideSteps
  <1> QED BY <1>11, <1>12, <1>14, <1>15, <1>16, <1>17, RunPends

\* A script starts, whatever chain it is for.
LEMMA SpokeRuns ==
  ASSUME DeployInv, Careful, NEW s \in Spokes, Sound(s), PoolsBorn(s), PrintSound(s),
         RunHubScript \/ RunMeshScript \/ \E t \in Spokes : RunSpokeScript(t)
  PROVE  Sound(s)' /\ PoolsBorn(s)' /\ PrintSound(s)' /\ Stage(s)' /\ ~Idle'
  <1> DEFINE Goal == Sound(s)' /\ PoolsBorn(s)' /\ PrintSound(s)' /\ Stage(s)'
  <1>1. ASSUME NEW name, NEW chain, NEW T, Run(name, chain, T), Aside(T, s) PROVE Goal
    BY <1>1, RunAside
  <1>2. ASSUME NEW name, NEW chain \in Chains, NEW T, Run(name, chain, T) PROVE ~Idle'
    <2>1. script' = <<name, chain>> /\ chain # ""
      BY <1>2, WiredFields DEF Run
    <2> QED BY <2>1 DEF Idle, Nothing
  <1>3. CASE RunHubScript
    <2>1. /\ Aside(FinishHubDeploy, s) /\ Aside(NewHubOApp, s) /\ Aside(DeployScoreEngine, s)
          /\ Aside(GrantAgentRoles, s)
          /\ \A feed \in {None, Feed} : Aside(Deploy(feed), s) /\ Aside(WireOracle(feed), s)
      BY HubAside
    <2>2. \E name, T : Run(name, "hub", T) /\ Aside(T, s)
      BY <1>3, <2>1 DEF RunHubScript, DeployOApp, RedeployOApp
    <2>3. Goal
      BY <1>1, <2>2
    <2> QED BY <1>2, <2>2, <2>3, WiredFields
  <1>4. CASE RunMeshScript
    <2>1. Aside(WireSpokes, s) /\ Aside(SyncAddresses, s)
      BY MeshAside
    <2>2. \E name, T : Run(name, "hub", T) /\ Aside(T, s)
      BY <1>4, <2>1 DEF RunMeshScript
    <2>3. Goal
      BY <1>1, <2>2
    <2> QED BY <1>2, <2>2, <2>3, WiredFields
  <1>5. ASSUME NEW t \in Spokes, t # s, RunSpokeScript(t) PROVE Goal
    <2>1. /\ Aside(DeploySpoke(t), s) /\ Aside(DeploySpokeLending(t), s)
          /\ (\A old \in Existing(t) : Aside(FinishSpokeLending(t, old), s))
          /\ Aside(FinishBaseLending(t), s)
          /\ Aside(FinishBaseWiring(t), s) /\ Aside(GrantSpokeAgent(t), s)
          /\ \A fresh \in BOOLEAN : Aside(SyncSpokeOracle(t, fresh), s)
      BY <1>5, OtherAside
    <2>2. \E name, T : Run(name, t, T) /\ Aside(T, s)
      BY <1>5, <2>1 DEF RunSpokeScript
    <2> QED BY <1>1, <2>2
  <1>6. ASSUME RunSpokeScript(s) PROVE Goal
    <2>1. CASE Run("deploy_spoke", s, DeploySpoke(s))
      BY <2>1, StartsSpoke
    <2>2. CASE Run("deploy_spoke_lending", s, DeploySpokeLending(s))
      BY <2>2, StartsLending
    <2>3. CASE \E old \in Existing(s) :
                 /\ None \notin {old.oracle, old.pool, old.feed}
                 /\ Run("finish_spoke_lending", s, FinishSpokeLending(s, old))
      BY <2>3, StartsFinish
    <2>4. CASE /\ None \notin {docs[s].oapp, docs[s].oracle, docs[s].pool} /\ docs[s].lending = None
               /\ Run("finish_base_lending", s, FinishBaseLending(s))
      BY <2>4, StartsBaseLending
    <2>5. CASE /\ Careful => docs[s].lending # None
               /\ Run("finish_base_wiring", s, FinishBaseWiring(s))
      BY <2>5, StartsWiring
    <2>6. CASE Run("grant_spoke_agent", s, GrantSpokeAgent(s))
      <3>1. PICK oapp : oapp = IF env[<<s, "oapp">>] # None THEN env[<<s, "oapp">>] ELSE docs[s].oapp
        OBVIOUS
      <3>2. "AGENT" \in Roles
        BY OtherNames
      <3>3. Aside(GrantSpokeAgent(s), s)
        BY <3>1, <3>2, AsideSteps DEF GrantSpokeAgent, SetIfMissing
      <3> QED BY <1>1, <2>6, <3>3
    <2>7. CASE \E fresh \in BOOLEAN : (fresh \/ docs[s].feed # None)
                 /\ Run("sync_spoke_oracle", s, SyncSpokeOracle(s, fresh))
      BY <2>7, StartsOracle
    <2> HIDE DEF Goal
    <2> QED BY <1>6, <2>1, <2>2, <2>3, <2>4, <2>5, <2>6, <2>7 DEF RunSpokeScript
  <1>7. CASE \E t \in Spokes : RunSpokeScript(t)
    <2>1. PICK t \in Spokes : RunSpokeScript(t)
      BY <1>7
    <2>2. Goal
      BY <1>5, <1>6, <2>1
    <2>3. \E name, T : Run(name, t, T)
      BY <2>1 DEF RunSpokeScript
    <2> QED BY <1>2, <2>2, <2>3, WiredFields
  <1> QED BY <1>3, <1>4, <1>7

\* The operator enters what a deployment printed, or an address into .env.
LEMMA SpokeEdits ==
  ASSUME Careful, DeployInv, DeployInv', SpokeInv, NEW s \in Spokes,
         (\E t \in Spokes : EditRecord(t)) \/ (\E c \in Chains : EditEnv(c))
  PROVE  Sound(s)' /\ PoolsBorn(s)' /\ PrintSound(s)' /\ Stage(s)' /\ todo' = <<>>
  <1>1. /\ facts' = facts /\ born' = born /\ printed' = printed /\ todo' = todo /\ Idle
    BY DEF EditRecord, EditEnv, chainVars
  <1>2. todo' = <<>> /\ Sound(s) /\ PoolsBorn(s) /\ PrintSound(s)
    BY <1>1 DEF SpokeInv
  <1>3. Stage(s)'
    <2>1. Quiet(s)'
      BY <1>2, NoSteps DEF Quiet, StepsOf
    <2> QED BY <2>1 DEF Stage
  <1>4. Prints(s)' = Prints(s) /\ OnlyMore(s) /\ \A k : Printed(s, k)' = Printed(s, k)
    BY <1>1 DEF Prints, OnlyMore, Printed
  <1>5. CASE docs[s]' = docs[s] /\ (s \in edited' <=> s \in edited)
    BY <1>2, <1>3, <1>4, <1>5, FrameKeeps
  <1>6. CASE EditRecord(s)
    <2>1. PICK d, q, o, p, l, f :
            /\ d = docs[s] /\ q = Output(s) /\ o = Printed(s, "oracle") /\ p = Printed(s, "pool")
            /\ l = Printed(s, "lending") /\ f = Printed(s, "feed")
      OBVIOUS
    <2>2. /\ p # None /\ d.lending = None /\ s \in edited'
          /\ docs' = [docs EXCEPT ![s] =
               [d EXCEPT !.oracle = IF o # None THEN o ELSE d.oracle,
                         !.pool = IF p # None THEN p ELSE d.pool,
                         !.feed = IF f # None THEN f ELSE d.feed,
                         !.lending = IF l # None THEN l ELSE d.lending]]
      <3>1. PICK old : old = [oracle |-> Printed(s, "oracle"), pool |-> Printed(s, "pool"),
                              feed |-> Printed(s, "feed"), lending |-> Printed(s, "lending")]
        OBVIOUS
      <3>2. Existing(s) = {old}
        BY <3>1 DEF Existing
      <3>3. old.oracle = o /\ old.pool = p /\ old.feed = f /\ old.lending = l
        BY <2>1, <3>1
      <3>5. /\ d.lending = None /\ s \in edited' /\ \E given \in Existing(s) : given.pool # None
        BY <1>6, <2>1 DEF EditRecord
      <3>6. PICK given \in Existing(s) :
              docs' = [docs EXCEPT ![s] =
                 [docs[s] EXCEPT !.oracle = IF given.oracle # None THEN given.oracle ELSE docs[s].oracle,
                                 !.pool = IF given.pool # None THEN given.pool ELSE docs[s].pool,
                                 !.feed = IF given.feed # None THEN given.feed ELSE docs[s].feed,
                                 !.lending = IF given.lending # None THEN given.lending ELSE docs[s].lending]]
        BY <1>6, Zenon DEF EditRecord
      <3>7. given = old
        BY <3>2
      <3>8. /\ given.oracle = o /\ given.pool = p /\ given.feed = f /\ given.lending = l /\ docs[s] = d
        BY <2>1, <3>3, <3>7
      <3>9. docs' = [docs EXCEPT ![s] =
               [d EXCEPT !.oracle = IF o # None THEN o ELSE d.oracle,
                         !.pool = IF p # None THEN p ELSE d.pool,
                         !.feed = IF f # None THEN f ELSE d.feed,
                         !.lending = IF l # None THEN l ELSE d.lending]]
        BY <3>6, <3>8, Zenon
      <3>10. p # None
        BY <3>2, <3>3, <3>5
      <3> QED BY <3>5, <3>9, <3>10
    <2>3. docs \in [Chains -> [Fields -> Contracts \cup {None}]] /\ s \in Chains /\ d \in [Fields -> Entry(s)]
      BY <2>1, SpokeTypes, WiredFields DEF DeployInv, DeployTypeOK
    <2>5. o # None /\ f # None /\ RecordOK(s, q, FALSE, born, facts)
      BY <1>2, <2>1, <2>2 DEF PrintSound
    <2>6. q = [d EXCEPT !.oracle = o, !.pool = p, !.lending = l, !.feed = f]
      BY <2>1, Zenon DEF Output
    <2>4. docs'[s] = [d EXCEPT !.oracle = o, !.pool = p, !.feed = f, !.lending = l]
      <3>1. (IF l # None THEN l ELSE d.lending) = l
        BY <2>2
      <3> QED BY <2>2, <2>3, <2>5, <3>1
    <2>7. docs'[s] = q
      BY <2>3, <2>4, <2>6 DEF Fields
    <2>8. Sound(s)'
      <3>1. RecordOK(s, q, FALSE, born, facts)'
        BY <1>1, <2>5 DEF RecordOK, HasFeed, OnePool
      <3> QED BY <2>2, <2>7, <3>1 DEF Sound, RecordOK
    <2>9. PoolsBorn(s)'
      BY <1>1, <1>2 DEF PoolsBorn
    <2>10. Output(s)' = q
      <3>1. Output(s)' = [q EXCEPT !.oracle = o, !.pool = p, !.lending = l, !.feed = f]
        <4>1. /\ Printed(s, "oracle")' = o /\ Printed(s, "pool")' = p /\ Printed(s, "lending")' = l
              /\ Printed(s, "feed")' = f
          BY <1>4, <2>1
        <4> QED BY <2>7, <4>1, Zenon DEF Output
      <3> QED BY <2>3, <2>6, <3>1
    <2>11. PrintSound(s)'
      <3>1. RecordOK(s, q, FALSE, born, facts)'
        BY <1>1, <2>5 DEF RecordOK, HasFeed, OnePool
      <3>2. RecordOK(s, Output(s), FALSE, born, facts)'
        BY <2>10, <3>1 DEF RecordOK
      <3>3. q.lending = l /\ q.pool = p
        BY <2>3, <2>6 DEF Fields
      <3>4. Agrees(docs[s], Printed(s, "lending"), Printed(s, "pool"))'
        BY <1>4, <2>1, <2>7, <3>3 DEF Agrees
      <3> QED BY <1>2, <1>4, <2>1, <2>2, <2>5, <3>2, <3>4 DEF PrintSound
    <2> QED BY <1>2, <1>3, <2>8, <2>9, <2>11
  <1>7. ASSUME NEW t \in Spokes, EditRecord(t), t # s PROVE docs[s]' = docs[s] /\ (s \in edited' <=> s \in edited)
    <2>1. docs \in [Chains -> [Fields -> Contracts \cup {None}]] /\ s \in Chains /\ t \in Chains
      BY WiredFields DEF DeployInv, DeployTypeOK
    <2> QED BY <1>7, <2>1 DEF EditRecord
  <1>8. ASSUME NEW c \in Chains, EditEnv(c) PROVE docs[s]' = docs[s] /\ (s \in edited' <=> s \in edited)
    BY <1>8 DEF EditEnv
  <1> QED BY <1>5, <1>6, <1>7, <1>8

\* Nothing happens.
LEMMA SpokeRests ==
  ASSUME NEW s \in Spokes, Stage(s), UNCHANGED vars
  PROVE  Stage(s)'
  <1>1. /\ docs' = docs /\ facts' = facts /\ born' = born /\ edited' = edited /\ printed' = printed
        /\ todo' = todo /\ script' = script
    BY DEF vars, chainVars, fileVars
  <1>2. CASE Quiet(s)
    <2>1. Quiet(s)'
      BY <1>1, <1>2 DEF Quiet
    <2> QED BY <2>1 DEF Stage
  <1>3. ASSUME NEW r, NEW X, NEW Z, Pends(s, r, X, Z) PROVE Stage(s)'
    <2>1. \A B, F, full : RecordOK(s, r, full, B, F) => RecordOK(s, r, full, B, F)'
      BY <1>1 DEF RecordOK, HasFeed, OnePool
    <2>2. /\ Agrees(docs[s], r.lending, r.pool)' <=> Agrees(docs[s], r.lending, r.pool)
          /\ \A k : Printed(s, k)' = Printed(s, k)
          /\ Prints(s)' = Prints(s)
      BY <1>1 DEF Agrees, Printed, Prints
    <2>3. \A e : MayMake(e, s, r)' <=> MayMake(e, s, r)
      BY <1>1, <2>2 DEF MayMake
    <2>4. PICK full, B, F : /\ full = (script[1] # "sync_spoke_oracle" \/ s \notin edited)
                            /\ B = born \cup Fresh(X) /\ F = facts \cup Given(StepsOf(X))
      OBVIOUS
    <2>5. RecordOK(s, r, full, B, F)'
      BY <1>3, <2>1, <2>4 DEF Pends
    <2>6. RecordOK(s, r, script[1] # "sync_spoke_oracle" \/ s \notin edited, born \cup Fresh(X),
                   facts \cup Given(StepsOf(X)))'
      BY <1>1, <2>4, <2>5 DEF RecordOK
    <2>7. X # <<>> => /\ MayMake(Head(X), s, r)' \/ MaySet(Head(X), s, r)
                      /\ \A e \in StepsOf(Tail(X)) : MaySet(e, s, r)
      <3>1. PICK e : e = Head(X)
        OBVIOUS
      <3>2. X # <<>> => MayMake(e, s, r) \/ MaySet(e, s, r)
        BY <1>3, <3>1 DEF Pends
      <3>3. MayMake(Head(X), s, r)' <=> MayMake(e, s, r)'
        BY <3>1 DEF MayMake
      <3> QED BY <1>3, <2>3, <3>1, <3>2, <3>3 DEF Pends
    <2>8. Pends(s, r, X, Z)'
      BY <1>1, <1>3, <2>2, <2>6, <2>7 DEF Pends
    <2> QED BY <2>8 DEF Stage
  <1>4. ASSUME NEW r, Begins(s, r) PROVE Stage(s)'
    <2>1. Prints(s)' = Prints(s)
      BY SMTT(60), <1>1 DEF Prints
    <2>2. Begins(s, r)'
      BY <1>1, <1>4, <2>1 DEF Begins
    <2> QED BY <2>2 DEF Stage
  <1> QED BY <1>2, <1>3, <1>4 DEF Stage

\* An operator who runs no script has no step left to take.
LEMMA RestsIdle ==
  ASSUME Idle => todo = <<>>, [Next]_vars
  PROVE  Idle' => todo' = <<>>
  <1>1. ASSUME NEW name, NEW chain \in Chains, NEW T, Run(name, chain, T) PROVE ~Idle'
    <2>1. script' = <<name, chain>> /\ chain # ""
      BY <1>1, WiredFields DEF Run
    <2> QED BY <2>1 DEF Idle, Nothing
  <1>2. CASE RunHubScript \/ RunMeshScript
    <2>1. \E name, T : Run(name, "hub", T)
      BY <1>2 DEF RunHubScript, RunMeshScript
    <2> QED BY <1>1, <2>1, WiredFields
  <1>3. CASE \E t \in Spokes : RunSpokeScript(t)
    <2>1. \E t \in Spokes : \E name, T : Run(name, t, T)
      BY <1>3 DEF RunSpokeScript
    <2> QED BY <1>1, <2>1, WiredFields
  <1>4. CASE (\E t \in Spokes : EditRecord(t)) \/ (\E c \in Chains : EditEnv(c))
    BY <1>4 DEF EditRecord, EditEnv, Idle
  <1>5. CASE Step
    BY <1>5 DEF Step, Idle
  <1>6. CASE Finish \/ Interrupt \/ UNCHANGED vars
    BY <1>6 DEF Finish, Interrupt, vars, Idle
  <1> QED BY <1>2, <1>3, <1>4, <1>5, <1>6 DEF Next

LEMMA SpokeNextOK ==
  ASSUME Careful, DeployInv, SpokeInv, [Next]_vars
  PROVE  SpokeInv'
  <1>1. DeployInv'
    BY DeployNextOK
  <1>2. SUFFICES ASSUME NEW s \in Spokes
                 PROVE  Sound(s)' /\ PoolsBorn(s)' /\ PrintSound(s)' /\ Stage(s)'
    BY RestsIdle DEF SpokeInv
  <1>3. Sound(s) /\ PoolsBorn(s) /\ PrintSound(s) /\ Stage(s) /\ (Idle => todo = <<>>)
    BY DEF SpokeInv
  <1>4. CASE RunHubScript \/ RunMeshScript \/ \E t \in Spokes : RunSpokeScript(t)
    BY <1>3, <1>4, SpokeRuns
  <1>5. CASE (\E t \in Spokes : EditRecord(t)) \/ (\E c \in Chains : EditEnv(c))
    BY <1>1, <1>5, SpokeEdits
  <1>6. CASE Step
    <2>1. Sound(s)' /\ PoolsBorn(s)' /\ PrintSound(s)' /\ Stage(s)'
      BY <1>1, <1>3, <1>6, SpokeStep
    <2> QED BY <2>1
  <1>7. CASE Finish \/ Interrupt \/ UNCHANGED vars
    <2>1. /\ docs' = docs /\ facts' = facts /\ born' = born /\ edited' = edited /\ printed' = printed
          /\ (todo' = <<>> \/ UNCHANGED vars)
      BY <1>7 DEF Finish, Interrupt, vars, chainVars, fileVars
    <2>2. Prints(s)' = Prints(s) /\ OnlyMore(s)
      BY <2>1 DEF Prints, OnlyMore
    <2>3. Sound(s)' /\ PoolsBorn(s)' /\ PrintSound(s)'
      BY <1>1, <1>3, <2>1, <2>2, FrameKeeps
    <2>4. Stage(s)'
      <3>1. CASE todo' = <<>>
        <4>1. Quiet(s)'
          BY <3>1, NoSteps DEF Quiet, StepsOf
        <4> QED BY <4>1 DEF Stage
      <3>2. CASE UNCHANGED vars
        BY <1>3, <3>2, SpokeRests
      <3> QED BY <2>1, <3>1, <3>2
    <2> QED BY <2>3, <2>4
  <1> QED BY <1>4, <1>5, <1>6, <1>7 DEF Next

\* What belongs to a union of seven sets.
LEMMA Union7 ==
  ASSUME NEW A, NEW B, NEW C, NEW D, NEW E, NEW F, NEW G, NEW f
  PROVE  f \in A \cup B \cup C \cup D \cup E \cup F \cup G
           <=> f \in A \/ f \in B \/ f \in C \/ f \in D \/ f \in E \/ f \in F \/ f \in G
  BY Zenon

\* The parts of the facts there are at first.
InitPart(f, h) ==
  \/ f \in HubWiring(h)
  \/ f \in {<<h.lending, "oracle", h.oracle>>, <<h.oracle, "feed", h.feed>>, <<h.lending, "ADMIN", Agent>>}
  \/ f \in UNION {SpokeWiring(First(s)) : s \in Spokes}
  \/ f \in {<<First(s).oracle, "feed", First(s).feed>> : s \in Spokes}
  \/ f \in {<<First(s).oapp, "AGENT", Agent>> : s \in Spokes}
  \/ f \in {<<h.oapp, s, First(s).oapp>> : s \in Spokes}
  \/ f \in {<<First(s).oapp, "hub", h.oapp>> : s \in Spokes}

\* A fact there is at first, and the part it is of.
LEMMA InitMember ==
  ASSUME Init, NEW h, h = First("hub"), NEW f
  PROVE  f \in facts <=> InitPart(f, h)
  <1>1. facts = HubWiring(h)
           \cup {<<h.lending, "oracle", h.oracle>>, <<h.oracle, "feed", h.feed>>, <<h.lending, "ADMIN", Agent>>}
           \cup (UNION {SpokeWiring(First(s)) : s \in Spokes})
           \cup {<<First(s).oracle, "feed", First(s).feed>> : s \in Spokes}
           \cup {<<First(s).oapp, "AGENT", Agent>> : s \in Spokes}
           \cup {<<h.oapp, s, First(s).oapp>> : s \in Spokes}
           \cup {<<First(s).oapp, "hub", h.oapp>> : s \in Spokes}
    BY Zenon DEF Init
  <1>2. f \in HubWiring(h)
           \cup {<<h.lending, "oracle", h.oracle>>, <<h.oracle, "feed", h.feed>>, <<h.lending, "ADMIN", Agent>>}
           \cup (UNION {SpokeWiring(First(s)) : s \in Spokes})
           \cup {<<First(s).oracle, "feed", First(s).feed>> : s \in Spokes}
           \cup {<<First(s).oapp, "AGENT", Agent>> : s \in Spokes}
           \cup {<<h.oapp, s, First(s).oapp>> : s \in Spokes}
           \cup {<<First(s).oapp, "hub", h.oapp>> : s \in Spokes}
         <=> \/ f \in HubWiring(h)
           \/ f \in {<<h.lending, "oracle", h.oracle>>, <<h.oracle, "feed", h.feed>>, <<h.lending, "ADMIN", Agent>>}
           \/ f \in UNION {SpokeWiring(First(s)) : s \in Spokes}
           \/ f \in {<<First(s).oracle, "feed", First(s).feed>> : s \in Spokes}
           \/ f \in {<<First(s).oapp, "AGENT", Agent>> : s \in Spokes}
           \/ f \in {<<h.oapp, s, First(s).oapp>> : s \in Spokes}
           \/ f \in {<<First(s).oapp, "hub", h.oapp>> : s \in Spokes}
    <2> HIDE DEF HubWiring, SpokeWiring, First
    <2> QED BY Union7, Zenon
  <1>3. InitPart(f, h) <=> f \in facts
    BY <1>1, <1>2, Zenon DEF InitPart
  <1> QED BY <1>3

\* The facts of the spokes' records among them.
LEMMA InitSpokes ==
  ASSUME Init, NEW s \in Spokes
  PROVE  SpokeWiring(First(s)) \subseteq facts /\ <<First(s).oracle, "feed", First(s).feed>> \in facts
  <1>1. PICK h : h = First("hub")
    OBVIOUS
  <1>2. \A f : f \in UNION {SpokeWiring(First(x)) : x \in Spokes} => f \in facts
    BY <1>1, InitMember, Zenon DEF InitPart
  <1>3. \A f : f \in {<<First(x).oracle, "feed", First(x).feed>> : x \in Spokes} => f \in facts
    BY <1>1, InitMember, Zenon DEF InitPart
  <1>4. \A f \in SpokeWiring(First(s)) : f \in UNION {SpokeWiring(First(x)) : x \in Spokes}
    OBVIOUS
  <1> QED BY <1>2, <1>3, <1>4

\* At first a pool is named by the lending contract of its own chain alone.
LEMMA InitPools ==
  ASSUME Init
  PROVE  \A f \in facts : f[2] = "pool" => \E c \in Chains : f = <<<<c, "lending", 1>>, "pool", <<c, "pool", 1>>>>
  <1>1. \A c \in Chains, k \in Fields :
          First(c)[k] = IF c # "hub" /\ k \in {"sbt", "engine"} THEN None ELSE <<c, k, 1>>
    BY DEF First
  <1>2. "lending" \in Fields /\ "pool" \in Fields /\ "hub" \in Chains /\ Spokes \subseteq Chains /\ "pool" \notin Spokes
    BY WiredFields DEF Fields
  <1>3. PICK h : h = First("hub")
    OBVIOUS
  <1>4. h.lending = <<"hub", "lending", 1>> /\ h.pool = <<"hub", "pool", 1>>
    BY <1>1, <1>2, <1>3
  <1>5. \A s \in Spokes : First(s).lending = <<s, "lending", 1>> /\ First(s).pool = <<s, "pool", 1>>
    BY <1>1, <1>2, WiredFields
  <1>6. SUFFICES ASSUME NEW f \in facts, f[2] = "pool"
                 PROVE  \E c \in Chains : f = <<<<c, "lending", 1>>, "pool", <<c, "pool", 1>>>>
    OBVIOUS
  <1>8. CASE f \in HubWiring(h)
    <2>1. f = <<h.lending, "pool", h.pool>>
      BY <1>6, <1>8, HubWiringIs
    <2> QED BY <1>2, <1>4, <2>1
  <1>9. ASSUME NEW s \in Spokes, f \in SpokeWiring(First(s))
        PROVE  \E c \in Chains : f = <<<<c, "lending", 1>>, "pool", <<c, "pool", 1>>>>
    <2>1. f = <<First(s).lending, "pool", First(s).pool>>
      BY <1>6, <1>9 DEF SpokeWiring
    <2> QED BY <1>2, <1>5, <2>1
  <1>10. ~\/ f \in {<<h.lending, "oracle", h.oracle>>, <<h.oracle, "feed", h.feed>>, <<h.lending, "ADMIN", Agent>>}
          \/ \E s \in Spokes : f \in {<<First(s).oracle, "feed", First(s).feed>>, <<First(s).oapp, "AGENT", Agent>>,
                                      <<h.oapp, s, First(s).oapp>>, <<First(s).oapp, "hub", h.oapp>>}
    BY <1>2, <1>6
  <1>11. \/ f \in HubWiring(h)
         \/ f \in {<<h.lending, "oracle", h.oracle>>, <<h.oracle, "feed", h.feed>>, <<h.lending, "ADMIN", Agent>>}
         \/ \E s \in Spokes : f \in SpokeWiring(First(s))
         \/ \E s \in Spokes : f \in {<<First(s).oracle, "feed", First(s).feed>>, <<First(s).oapp, "AGENT", Agent>>,
                                     <<h.oapp, s, First(s).oapp>>, <<First(s).oapp, "hub", h.oapp>>}
    <2>1. f \in facts /\ h = First("hub")
      BY <1>3, <1>6
    <2>2. InitPart(f, h)
      BY <2>1, InitMember, Zenon
    <2> QED
      <3>1. \A x \in UNION {SpokeWiring(First(s)) : s \in Spokes} : \E s \in Spokes : x \in SpokeWiring(First(s))
        OBVIOUS
      <3> QED BY <2>2, <3>1 DEF InitPart
  <1> QED BY <1>8, <1>9, <1>10, <1>11

LEMMA SpokeInitOK ==
  ASSUME Init
  PROVE  SpokeInv
  <1>1. DeployInv /\ todo = <<>> /\ printed = {} /\ edited = {} /\ docs = [c \in Chains |-> First(c)]
    BY DeployInitOK DEF Init
  <1>2. SUFFICES ASSUME NEW s \in Spokes PROVE Sound(s) /\ PoolsBorn(s) /\ PrintSound(s) /\ Stage(s)
    BY <1>1 DEF SpokeInv
  <1>3. PICK d : d = docs[s]
    OBVIOUS
  <1>4. d \in [Fields -> Entry(s)] /\ d = First(s) /\ s \in Chains /\ s # "hub"
    BY <1>1, <1>3, SpokeTypes, WiredFields
  <1>5. /\ \A k \in {"lending", "pool", "oapp", "oracle", "feed"} : k \in Fields /\ d[k] = <<s, k, 1>> /\ d[k] # None
        /\ \A k \in Fields : d[k] \in born \cup {None}
    <2>1. \A k \in {"lending", "pool", "oapp", "oracle", "feed"} : k \in Fields /\ d[k] = <<s, k, 1>>
      BY <1>4 DEF First, Fields
    <2>2. \A k : <<s, k, 1>> # None
      BY DEF None
    <2>3. \A k \in Fields : d[k] # None => d[k] \in born
      BY <1>3, <1>4, InitBorn
    <2> QED BY <2>1, <2>2, <2>3
  <1>6. /\ SpokeWiring(d) \subseteq facts /\ <<d.oracle, "feed", d.feed>> \in facts
    BY <1>4, InitSpokes
  <1>7. \A f \in facts : f[1] \in At(s) /\ f[2] = "pool" => f = <<d.lending, "pool", d.pool>>
    <2>1. SUFFICES ASSUME NEW f \in facts, f[1] \in At(s), f[2] = "pool" PROVE f = <<d.lending, "pool", d.pool>>
      OBVIOUS
    <2>2. PICK c \in Chains : f = <<<<c, "lending", 1>>, "pool", <<c, "pool", 1>>>>
      BY <2>1, InitPools
    <2>3. c = s
      BY <2>1, <2>2, WiredFields
    <2> QED BY <1>5, <2>2, <2>3
  <1>8. Sound(s)
    <2>1. HasFeed(d.oracle)
      BY <1>5, <1>6 DEF HasFeed
    <2>2. d.lending \in At(s)
      BY <1>4, <1>5 DEF Entry
    <2>3. OnePool(d.lending, d.pool)
      BY <1>7, <2>2 DEF OnePool
    <2>4. Built(d) \subseteq facts /\ Wires(d) \subseteq facts
      BY <1>6 DEF SpokeWiring, Built, Wires
    <2>5. \A full : RecordOK(s, d, full, born, facts)
      BY <1>4, <1>5, <2>1, <2>3, <2>4 DEF RecordOK
    <2> QED BY <1>3, <2>5 DEF Sound
  <1>9. PoolsBorn(s)
    <2>1. ASSUME NEW f \in facts, f[1] \in At(s), f[2] = "pool" PROVE f[1] \in born
      <3>1. f[1] = d.lending
        BY <1>7, <2>1
      <3> QED BY <1>5, <3>1
    <2> QED BY <2>1 DEF PoolsBorn
  <1>10. PrintSound(s)
    BY <1>1 DEF PrintSound, Prints, Printed
  <1>11. Stage(s)
    BY <1>1, NoSteps DEF Stage, Quiet
  <1> QED BY <1>8, <1>9, <1>10, <1>11

LEMMA SpokesWired ==
  ASSUME SpokeInv
  PROVE  RecordedSpokeWired
  <1>1. SUFFICES ASSUME NEW s \in Spokes \ edited, docs[s].lending # None
                 PROVE  /\ SpokeWiring(docs[s]) \subseteq facts
                        /\ \E feed \in born : <<docs[s].oracle, "feed", feed>> \in facts
    BY DEF RecordedSpokeWired
  <1>2. PICK d, full : d = docs[s] /\ full = (s \notin edited)
    OBVIOUS
  <1>3. RecordOK(s, d, full, born, facts)
    BY <1>1, <1>2 DEF SpokeInv, Sound
  <1>4. Built(d) \subseteq facts /\ Wires(d) \subseteq facts /\ HasFeed(d.oracle)
    BY <1>1, <1>2, <1>3 DEF RecordOK
  <1>5. SpokeWiring(d) \subseteq facts
    BY <1>4 DEF SpokeWiring, Built, Wires
  <1> QED BY <1>2, <1>4, <1>5 DEF HasFeed

-----------------------------------------------------------------------------
(* The deployment: lz:wire-spokes.                                         *)

Peering == <<"wire_spokes", "hub">>

\* The steps T set facts of M alone, and with them all of M holds in the end.
SetsUp(M, F, T) ==
  /\ IsList(T) /\ \A e \in StepsOf(T) : e.op = "set" /\ e.fact \in M
  /\ M \subseteq F \cup Given(StepsOf(T))

\* While the scripts run the peers are set or are among the steps left; when
\* they have ended last the peers are set, and nothing is left to do.
MeshInv ==
  /\ script = Peering => SetsUp(MeshFacts, facts, todo)
  /\ last = Peering => todo = <<>> /\ MeshFacts \subseteq facts

\* No two peers are set on the same contract for the same chain.
LEMMA MeshApart ==
  ASSUME NEW f \in MeshFacts, NEW g \in MeshFacts, f[1] = g[1], f[2] = g[2]
  PROVE  f = g
  <1>1. "hub" \notin Spokes
    BY WiredFields
  <1>2. \A x \in MeshFacts : \/ \E s \in Spokes : x = PeerFact(s)
                             \/ \E s \in Spokes : x = BackFact(s)
    BY DEF MeshFacts
  <1>3. CASE \E s, t \in Spokes : f = PeerFact(s) /\ g = PeerFact(t)
    BY <1>3 DEF PeerFact
  <1>4. CASE \E s, t \in Spokes : f = BackFact(s) /\ g = BackFact(t)
    BY <1>4 DEF BackFact
  <1>5. CASE \E s, t \in Spokes : (f = PeerFact(s) /\ g = BackFact(t)) \/ (f = BackFact(t) /\ g = PeerFact(s))
    BY <1>1, <1>5 DEF BackFact, PeerFact
  <1> QED BY <1>2, <1>3, <1>4, <1>5

LEMMA MeshSame ==
  ASSUME \A c \in Chains : docs'[c].oapp = docs[c].oapp, env' = env
  PROVE  MeshFacts' = MeshFacts
  <1>1. EnvHubOApp' = EnvHubOApp
    BY WiredFields DEF EnvHubOApp
  <1>2. \A s \in Spokes : s \in Chains
    BY WiredFields
  <1>3. \A s : PeerFact(s)' = PeerFact(s)
    BY <1>1 DEF PeerFact
  <1>4. \A s \in Spokes : BackFact(s)' = BackFact(s)
    BY <1>1, <1>2 DEF BackFact
  <1>5. {PeerFact(s)' : s \in {t \in Spokes : env'[<<t, "oapp">>] # None}}
        = {PeerFact(s) : s \in {t \in Spokes : env[<<t, "oapp">>] # None}}
    BY <1>3
  <1>6. {BackFact(s)' : s \in Spokes} = {BackFact(s) : s \in Spokes}
    BY <1>4
  <1> QED BY <1>5, <1>6 DEF MeshFacts

\* One more peer is set.
LEMMA SetsOn ==
  ASSUME NEW M, M = MeshFacts, SetsUp(M, facts, todo), Step
  PROVE  /\ SetsUp(M, facts', todo')
         /\ docs' = docs /\ env' = env
  <1>1. PICK e : e = Head(todo)
    OBVIOUS
  <1>2. /\ todo # <<>> /\ todo' = Tail(todo) /\ IsList(todo)
    BY DEF Step, SetsUp
  <1>3. e \in StepsOf(todo) /\ IsList(todo') /\ StepsOf(todo) = {e} \cup StepsOf(todo')
    BY <1>1, <1>2, StepsLeft
  <1>4. e.op = "set" /\ e.fact \in M
    BY <1>3 DEF SetsUp
  <1>5. facts' = Put(e.fact) /\ docs' = docs /\ env' = env
    BY <1>1, <1>4 DEF Step
  <1>6. Given(StepsOf(todo)) = {e.fact} \cup Given(StepsOf(todo'))
    <2>1. Given({e}) = {e.fact}
      BY <1>4, OneGives
    <2> QED BY ZenonT(60), <1>3, <2>1, OneMore
  <1>7. ASSUME NEW f \in M PROVE f \in facts' \cup Given(StepsOf(todo'))
    <2>1. f \in facts \/ f = e.fact \/ f \in Given(StepsOf(todo'))
      BY <1>6, <1>7 DEF SetsUp
    <2>2. f[1] = e.fact[1] /\ f[2] = e.fact[2] => f = e.fact
      BY <1>4, <1>7, MeshApart
    <2> QED BY <1>5, <2>1, <2>2 DEF Put
  <1>8. \A x \in StepsOf(todo') : x.op = "set" /\ x.fact \in M
    BY <1>3 DEF SetsUp
  <1> QED BY <1>3, <1>5, <1>7, <1>8 DEF SetsUp

\* Nothing but the scripts themselves touches what they read and set.
LEMMA MeshKept ==
  ASSUME DeployInv, MeshInv, Next
  PROVE  MeshInv'
  <1>1. Peering # Nothing
    BY DEF Peering, Nothing
  <1>2. ASSUME NEW name, NEW chain, NEW T, Run(name, chain, T), name # "wire_spokes"
        PROVE  MeshInv'
    <2>1. script' = <<name, chain>> /\ last' = Nothing
      BY <1>2 DEF Run
    <2> QED BY <1>1, <1>2, <2>1 DEF MeshInv, Peering
  <1>3. CASE RunHubScript
    <2>1. \E name, T : name # "wire_spokes" /\ Run(name, "hub", T)
      BY <1>3 DEF RunHubScript
    <2> QED BY <1>2, <2>1
  <1>4. ASSUME NEW t \in Spokes, RunSpokeScript(t)
        PROVE  MeshInv'
    <2>1. \E name, T : name # "wire_spokes" /\ Run(name, t, T)
      BY <1>4 DEF RunSpokeScript
    <2> QED BY <1>2, <2>1
  <1>5. CASE RunMeshScript
    <2>1. CASE Run("sync_addresses", "hub", SyncAddresses)
      BY <1>2, <2>1
    <2>2. CASE Run("wire_spokes", "hub", WireSpokes)
      <3>1. /\ todo' = WireSpokes /\ last' = Nothing
            /\ facts' = facts /\ env' = env /\ docs' = docs
        BY <2>2 DEF Run, chainVars, fileVars
      <3>2. MeshFacts' = MeshFacts
        BY <3>1, MeshSame
      <3>3. SetsUp(MeshFacts, facts, WireSpokes)
        BY MeshSteps DEF SetsUp
      <3> QED BY <1>1, <3>1, <3>2, <3>3 DEF MeshInv
    <2> QED BY <1>5, <2>1, <2>2 DEF RunMeshScript
  <1>6. CASE \E t \in Spokes : EditRecord(t)
    <2>1. PICK t \in Spokes : EditRecord(t)
      BY <1>6
    <2>2. /\ script' = script /\ last' = last /\ script = Nothing
          /\ todo' = todo /\ facts' = facts /\ env' = env
      BY <2>1 DEF EditRecord, Idle, chainVars
    <2>3. MeshFacts' = MeshFacts
      BY <2>1, <2>2, EditIs, MeshSame
    <2> QED BY <1>1, <2>2, <2>3 DEF MeshInv
  <1>7. CASE \E c \in Chains : EditEnv(c)
    <2>1. script' = Nothing /\ \E c : last' \in {<<"redeploy_oapp", c>>, <<"deploy_spoke", c>>}
      BY <1>7 DEF EditEnv, Idle
    <2> QED BY <1>1, <2>1 DEF MeshInv, Peering
  <1>8. CASE Step
    <2>1. todo # <<>> /\ last' = last /\ script' = script
      BY <1>8 DEF Step
    <2>2. last # Peering
      BY <2>1 DEF MeshInv
    <2>3. CASE script = Peering
      <3>1. PICK M : M = MeshFacts
        OBVIOUS
      <3>2. SetsUp(M, facts, todo)
        BY <2>3, <3>1 DEF MeshInv
      <3>3. SetsUp(M, facts', todo') /\ docs' = docs /\ env' = env
        BY <1>8, <3>1, <3>2, SetsOn
      <3>4. MeshFacts' = M
        BY <3>1, <3>3, MeshSame
      <3> QED BY <2>1, <2>2, <3>2, <3>3, <3>4 DEF MeshInv
    <2> QED BY <2>1, <2>2, <2>3 DEF MeshInv
  <1>9. CASE Finish
    <2>1. /\ todo = <<>> /\ todo' = todo /\ last' = script /\ script' = Nothing
          /\ facts' = facts /\ docs' = docs /\ env' = env
      BY <1>9 DEF Finish, chainVars, fileVars
    <2>2. MeshFacts' = MeshFacts
      BY <2>1, MeshSame
    <2>3. script = Peering => MeshFacts \subseteq facts
      <3>1. Given({}) = {} /\ StepsOf(<<>>) = {}
        BY NothingGiven, NoSteps
      <3> QED BY <2>1, <3>1 DEF MeshInv, SetsUp
    <2> QED BY <1>1, <2>1, <2>2, <2>3 DEF MeshInv
  <1>10. CASE Interrupt
    BY <1>1, <1>10 DEF Interrupt, MeshInv
  <1> QED BY <1>3, <1>4, <1>5, <1>6, <1>7, <1>8, <1>9, <1>10 DEF Next
=============================================================================
