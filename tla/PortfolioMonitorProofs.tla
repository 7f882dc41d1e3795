----------------------- MODULE PortfolioMonitorProofs -----------------------
(***************************************************************************)
(* The monitor's safety for any number of processes, loans, prices, mishaps*)
(* and restarts: its types; that a scheduler hands over by force only after*)
(* the whole grace of a loan of that number; that nobody is liquidated by  *)
(* a price without a warning to a loan of that number.  On a single chain  *)
(* a number is a loan, so that there both are about the loan itself.       *)
(***************************************************************************)
EXTENDS PortfolioMonitor, SequenceTheorems, WellFoundedInduction, TLAPS

(* A non-empty set of loan numbers has a smallest one.                     *)
LEMMA SmallestNumber ==
  ASSUME NEW T \in SUBSET Nat, T # {}
  PROVE  \E x \in T : \A y \in T : x <= y
  <1> DEFINE R == OpToRel(<, Nat)
  <1>1. IsWellFoundedOn(R, Nat)
    BY NatLessThanWellFounded
  <1>2. \A x, y \in Nat : x < y => <<x, y>> \in R
    BY DEF OpToRel
  <1> HIDE DEF R
  <1>3. \E x \in T : \A y \in T : <<y, x>> \notin R
    BY <1>1, WFMin
  <1>4. PICK x \in T : \A y \in T : <<y, x>> \notin R
    BY <1>3
  <1>5. ASSUME NEW y \in T PROVE x <= y
    <2>1. x \in Nat /\ y \in Nat
      OBVIOUS
    <2>2. ~(y < x)
      BY <1>2, <1>4, <2>1
    <2> QED BY <2>1, <2>2
  <1> QED BY <1>5

LEMMA BoundsNat ==
  /\ Term \in Nat /\ GracePeriod \in Nat /\ Cooldown \in Nat
  /\ MaxLoans \in Nat /\ MaxMishaps \in Nat /\ MaxMoves \in Nat
  /\ LoanAge \in Nat
  BY MonitorAssumption DEF LoanAge

(* A loan-to-value is a natural number.                                    *)
LEMMA QuotientNat ==
  ASSUME NEW a \in Nat, NEW b \in Nat \ {0}
  PROVE  a \div b \in Nat
  OBVIOUS

LEMMA LTVNat ==
  ASSUME NEW debt \in Nat, NEW q \in Nat \ {0}
  PROVE  getCurrentLTV(debt, q) \in Nat
  <1>1. Collateral * q \in Nat \ {0}
    BY MonitorAssumption
  <1>2. debt * 10000 \in Nat
    OBVIOUS
  <1> QED BY <1>1, <1>2, QuotientNat DEF getCurrentLTV

-----------------------------------------------------------------------------
(* What the types give an action.                                          *)

LEMMA LoanTyped ==
  ASSUME TypeOK, NEW m \in Markets
  PROVE  /\ LoanIds(m) = 1 .. Len(loans[m])
         /\ LoanIds(m) \subseteq Numbers
         /\ \A id \in LoanIds(m) : loans[m][id] \in LoanRecord
         /\ price[m] \in Nat \ {0}
  <1>1. loans[m] \in Seq(LoanRecord) /\ Len(loans[m]) <= MaxLoans
    BY DEF TypeOK
  <1>2. Len(loans[m]) \in Nat /\ DOMAIN loans[m] = 1 .. Len(loans[m])
    BY <1>1, LenProperties
  <1>3. \A id \in 1 .. Len(loans[m]) : loans[m][id] \in LoanRecord
    BY <1>1, ElementOfSeq
  <1> QED BY <1>1, <1>2, <1>3, BoundsNat DEF LoanIds, Numbers, TypeOK

LEMMA LoanLTV ==
  ASSUME TypeOK, NEW m \in Markets, NEW id \in LoanIds(m)
  PROVE  LTV(m, id) \in Nat
  <1>1. loans[m][id].debt \in Nat
    BY LoanTyped, MonitorAssumption DEF LoanRecord
  <1> QED BY <1>1, LoanTyped, LTVNat DEF LTV

(* The chain being swept, and the loan at hand, are there.                 *)
LEMMA ChainSwept ==
  ASSUME TypeOK, NEW p \in Processes, ~At(p, "idle")
  PROVE  /\ job[p].chains \in Seq(Markets) /\ job[p].chains # <<>>
         /\ Chain(p) \in Markets
         /\ Tail(job[p].chains) \in Seq(Markets)
         /\ Len(job[p].chains) # 1 => Tail(job[p].chains) # <<>>
  <1>1. job[p].chains \in Seq(Markets) /\ job[p].chains # <<>>
    BY DEF TypeOK, Sweep, SweepOK, At
  <1>2. Head(job[p].chains) \in Markets /\ Tail(job[p].chains) \in Seq(Markets)
        /\ Len(Tail(job[p].chains)) = Len(job[p].chains) - 1
    BY <1>1, HeadTailProperties
  <1>3. Len(job[p].chains) \in Nat /\ Len(<<>>) = 0
    BY <1>1, LenProperties, EmptySeq
  <1>4. Len(job[p].chains) # 1 => Tail(job[p].chains) # <<>>
    <2> DEFINE n == Len(job[p].chains)
               t == Tail(job[p].chains)
    <2>1. SUFFICES ASSUME t = <<>> PROVE n = 1
      OBVIOUS
    <2>2. Len(t) = 0
      BY <1>3, <2>1
    <2>3. n \in Nat /\ Len(t) = n - 1
      BY <1>2, <1>3
    <2> HIDE DEF n, t
    <2> QED BY <2>2, <2>3
  <1> QED BY <1>1, <1>2, <1>4 DEF Chain

LEMMA LoanAtHand ==
  ASSUME TypeOK, NEW p \in Processes, job[p].ids # {}, ~At(p, "idle")
  PROVE  /\ Loan(p) \in job[p].ids
         /\ Loan(p) \in LoanIds(Chain(p))
         /\ Loan(p) \in Numbers
  <1>1. job[p].ids \subseteq LoanIds(Chain(p)) /\ job[p].ids \subseteq Numbers
    BY DEF TypeOK, Sweep, SweepOK, At, Chain
  <1>2. job[p].ids \in SUBSET Nat
    BY <1>1, BoundsNat DEF Numbers
  <1>3. \E id \in job[p].ids : \A other \in job[p].ids : id <= other
    BY <1>2, SmallestNumber
  <1>4. Loan(p) \in job[p].ids
    BY <1>3 DEF Loan
  <1> QED BY <1>1, <1>4

-----------------------------------------------------------------------------
(* Types.                                                                  *)

LEMMA InitTyped == Init => TypeOK
  <1> SUFFICES ASSUME Init PROVE TypeOK
    OBVIOUS
  <1>1. loans \in [Markets -> Seq(LoanRecord)] /\ \A m \in Markets : Len(loans[m]) <= MaxLoans
    BY BoundsNat, EmptySeq DEF Init
  <1>2. price \in [Markets -> Nat \ {0}]
    BY MonitorAssumption DEF Init
  <1>3. IsMemory(Empty, 0 .. GracePeriod) /\ IsMemory(Empty, Warning)
    BY DEF IsMemory, Empty
  <1>4. IdleJob \in Sweep
    BY EmptySeq DEF IdleJob, Sweep, Stages, Handling
  <1>5. \A p \in Processes : SweepOK(p)
    BY DEF Init, IdleJob, SweepOK, Handling
  <1> QED BY <1>1, <1>2, <1>3, <1>4, <1>5, BoundsNat DEF Init, TypeOK

(* A step of one process that changes nothing but its sweep.               *)
LEMMA SweepTyped ==
  ASSUME TypeOK, NEW p \in Processes, NEW j \in Sweep, job' = [job EXCEPT ![p] = j],
         \A m \in Markets : LoanIds(m) \subseteq LoanIds(m)',
         j.stage # "idle" =>
           j.chains # <<>> /\ j.ids \subseteq LoanIds(Head(j.chains)),
         j.stage \in Handling => j.ids # {},
         j.force => j.stage \in Handling \ {"judge"}
  PROVE  /\ job' \in [Processes -> Sweep]
         /\ \A q \in Processes : SweepOK(q)'
  <1>1. job' \in [Processes -> Sweep]
    BY DEF TypeOK
  <1>2. ASSUME NEW q \in Processes, job'[q].stage # "idle"
        PROVE  /\ job'[q].chains # <<>> /\ Head(job'[q].chains) \in Markets
               /\ job'[q].ids \subseteq LoanIds(Head(job'[q].chains))
    <2>1. job'[q] = IF q = p THEN j ELSE job[q]
      BY DEF TypeOK
    <2>2. /\ job'[q].chains \in Seq(Markets) /\ job'[q].chains # <<>>
          /\ job'[q].ids \subseteq LoanIds(Head(job'[q].chains))
      BY <1>1, <1>2, <2>1 DEF TypeOK, SweepOK, Sweep
    <2> QED BY <2>2, HeadTailProperties
  <1>3. ASSUME NEW q \in Processes
        PROVE  /\ job'[q].stage \in Handling => job'[q].ids # {}
               /\ job'[q].force => job'[q].stage \in Handling \ {"judge"}
    <2>1. job'[q] = IF q = p THEN j ELSE job[q]
      BY DEF TypeOK
    <2> QED BY <2>1 DEF TypeOK, SweepOK
  <1>4. ASSUME NEW q \in Processes, job'[q].stage # "idle"
        PROVE  (job[q].ids \subseteq LoanIds(Head(job[q].chains)))'
    BY <1>2, <1>4 DEF LoanIds
  <1> QED BY <1>1, <1>2, <1>3, <1>4 DEF SweepOK

(* The moves of a sweep are sweeps.                                        *)
LEMMA IdleSweep == IdleJob \in Sweep
  BY EmptySeq DEF IdleJob, Sweep, Stages, Handling

LEMMA NextLoanTyped ==
  ASSUME TypeOK, NEW p \in Processes, ~At(p, "idle"), NextLoan(p),
         \A m \in Markets : LoanIds(m) \subseteq LoanIds(m)'
  PROVE  /\ job' \in [Processes -> Sweep]
         /\ \A q \in Processes : SweepOK(q)'
  <1> DEFINE j == [IdleJob EXCEPT !.stage = "look", !.chains = job[p].chains,
                                  !.ids = job[p].ids \ {Loan(p)}]
  <1>1. job[p].ids \subseteq Numbers /\ job[p].ids \subseteq LoanIds(Head(job[p].chains))
    BY DEF TypeOK, Sweep, SweepOK, At
  <1>2. j \in Sweep /\ j.chains = job[p].chains /\ j.ids \subseteq job[p].ids
        /\ j.stage = "look" /\ ~j.force
    BY <1>1, ChainSwept DEF IdleJob, Sweep, Stages, Handling
  <1>3. job' = [job EXCEPT ![p] = j]
    BY DEF NextLoan
  <1> HIDE DEF j
  <1>4. j.stage \notin Handling
    BY <1>2 DEF Handling
  <1> QED BY <1>1, <1>2, <1>3, <1>4, ChainSwept, SweepTyped

LEMMA NextChainTyped ==
  ASSUME TypeOK, NEW p \in Processes, ~At(p, "idle"), NextChain(p),
         \A m \in Markets : LoanIds(m) \subseteq LoanIds(m)'
  PROVE  /\ job' \in [Processes -> Sweep]
         /\ \A q \in Processes : SweepOK(q)'
  <1> DEFINE j == IF Len(job[p].chains) = 1 THEN IdleJob
                  ELSE [IdleJob EXCEPT !.stage = "scan", !.chains = Tail(job[p].chains)]
  <1>1. j \in Sweep
    BY IdleSweep, ChainSwept DEF IdleJob, Sweep, Stages, Handling
  <1>2. /\ j.ids = {} /\ ~j.force /\ j.stage \notin Handling
        /\ j.stage # "idle" => j.chains # <<>>
    BY ChainSwept DEF IdleJob, Handling
  <1>3. job' = [job EXCEPT ![p] = j]
    BY DEF NextChain
  <1> HIDE DEF j
  <1> QED BY <1>1, <1>2, <1>3, SweepTyped

LEMMA GoToTyped ==
  ASSUME TypeOK, NEW p \in Processes, ~At(p, "idle"), NEW s \in {"crash", "seize"},
         GoTo(p, s), job[p].ids # {},
         \A m \in Markets : LoanIds(m) \subseteq LoanIds(m)'
  PROVE  /\ job' \in [Processes -> Sweep]
         /\ \A q \in Processes : SweepOK(q)'
  <1> DEFINE j == [job[p] EXCEPT !.stage = s]
  <1>1. job[p] \in Sweep /\ job[p].chains # <<>>
        /\ job[p].ids \subseteq LoanIds(Head(job[p].chains))
    BY DEF TypeOK, SweepOK, At
  <1>2. j \in Sweep /\ j.chains = job[p].chains /\ j.ids = job[p].ids /\ j.stage = s
    BY <1>1 DEF Sweep, Stages, Handling
  <1>3. job' = [job EXCEPT ![p] = j]
    BY DEF GoTo, TypeOK
  <1> HIDE DEF j
  <1>4. j.stage \in Handling \ {"judge"}
    BY <1>2 DEF Handling
  <1> QED BY <1>1, <1>2, <1>3, <1>4, SweepTyped

-----------------------------------------------------------------------------
(* The loans: their numbers are never taken back, and they never grow      *)
(* younger, whoever acts.                                                  *)
LoansTyped ==
  /\ loans \in [Markets -> Seq(LoanRecord)]
  /\ \A m \in Markets : Len(loans[m]) <= MaxLoans

Grown ==
  \A m \in Markets :
    /\ LoanIds(m) \subseteq LoanIds(m)'
    /\ \A id \in LoanIds(m) :
         loans'[m][id].age \in Nat /\ loans'[m][id].age >= loans[m][id].age

LEMMA AgesNat ==
  ASSUME TypeOK, NEW m \in Markets, NEW id \in LoanIds(m)
  PROVE  loans[m][id].age \in 0 .. LoanAge /\ loans[m][id].age \in Nat
  BY LoanTyped, BoundsNat DEF LoanRecord

LEMMA SameLoans ==
  ASSUME TypeOK, UNCHANGED loans
  PROVE  LoansTyped' /\ Grown
  <1>1. LoansTyped'
    BY DEF TypeOK, LoansTyped
  <1>2. Grown
    BY AgesNat DEF Grown, LoanIds
  <1> QED BY <1>1, <1>2

LEMMA BorrowLoans ==
  ASSUME TypeOK, NEW m \in Markets, Borrow(m)
  PROVE  LoansTyped' /\ Grown
  <1>1. PICK debt \in Debts :
          /\ getCurrentLTV(debt, price[m]) <= 8000
          /\ loans' = [loans EXCEPT ![m] = Append(@, [debt |-> debt, age |-> 0, active |-> TRUE])]
    BY PTL DEF Borrow
  <1> DEFINE new == [debt |-> debt, age |-> 0, active |-> TRUE]
             old == loans[m]
  <1>2. new \in LoanRecord
    BY BoundsNat DEF LoanRecord
  <1>3. old \in Seq(LoanRecord) /\ Len(old) < MaxLoans
    BY DEF TypeOK, Borrow
  <1>4. loans' = [loans EXCEPT ![m] = Append(old, new)]
    BY <1>1
  <1> HIDE DEF new
  <1>5. /\ Append(old, new) \in Seq(LoanRecord)
        /\ Len(Append(old, new)) = Len(old) + 1
        /\ \A i \in 1 .. Len(old) : Append(old, new)[i] = old[i]
    BY <1>2, <1>3, AppendProperties
  <1>6. Len(old) \in Nat /\ DOMAIN old = 1 .. Len(old)
        /\ DOMAIN Append(old, new) = 1 .. Len(old) + 1
    BY <1>3, <1>5, LenProperties
  <1>7. LoansTyped'
    BY <1>3, <1>4, <1>5, <1>6, BoundsNat DEF TypeOK, LoansTyped
  <1>8. Grown
    <2> SUFFICES ASSUME NEW n \in Markets
                 PROVE  /\ LoanIds(n) \subseteq LoanIds(n)'
                        /\ \A id \in LoanIds(n) :
                             loans'[n][id].age \in Nat /\ loans'[n][id].age >= loans[n][id].age
      BY DEF Grown
    <2>1. CASE n = m
      <3>1. loans'[n] = Append(old, new) /\ loans[n] = old
        BY <1>4, <2>1 DEF TypeOK
      <3>2. \A i \in DOMAIN old : old[i].age \in Nat
        BY AgesNat DEF LoanIds
      <3> HIDE DEF old
      <3>3. \A i \in DOMAIN old : i \in DOMAIN Append(old, new) /\ Append(old, new)[i] = old[i]
        BY <1>5, <1>6
      <3> QED BY <3>1, <3>2, <3>3 DEF LoanIds
    <2>2. CASE n # m
      BY <1>4, <2>2, AgesNat DEF TypeOK, LoanIds
    <2> QED BY <2>1, <2>2
  <1> QED BY <1>7, <1>8

LEMMA CloseLoans ==
  ASSUME TypeOK, NEW m \in Markets, NEW id \in LoanIds(m), Close(m, id)
  PROVE  LoansTyped' /\ Grown
  <1> DEFINE old == loans[m]
             closed == [old[id] EXCEPT !.active = FALSE]
             new == [old EXCEPT ![id] = closed]
  <1>1. old \in Seq(LoanRecord) /\ Len(old) <= MaxLoans /\ id \in 1 .. Len(old)
    BY LoanTyped DEF TypeOK
  <1>2. closed \in LoanRecord /\ closed.age = old[id].age /\ old[id].age \in Nat
    BY LoanTyped, AgesNat DEF LoanRecord
  <1>3. loans' = [loans EXCEPT ![m] = new]
    BY DEF Close, TypeOK
  <1> HIDE DEF closed
  <1>4. /\ new \in Seq(LoanRecord) /\ Len(new) = Len(old)
        /\ \A i \in 1 .. Len(old) : new[i] = IF i = id THEN closed ELSE old[i]
    BY <1>1, <1>2, ExceptSeq
  <1>5. DOMAIN old = 1 .. Len(old) /\ DOMAIN new = 1 .. Len(old)
    BY <1>1, <1>4, LenProperties
  <1> HIDE DEF new
  <1>6. LoansTyped'
    BY <1>1, <1>3, <1>4 DEF TypeOK, LoansTyped
  <1>7. Grown
    <2> SUFFICES ASSUME NEW n \in Markets
                 PROVE  /\ LoanIds(n) \subseteq LoanIds(n)'
                        /\ \A i \in LoanIds(n) :
                             loans'[n][i].age \in Nat /\ loans'[n][i].age >= loans[n][i].age
      BY DEF Grown
    <2>1. CASE n = m
      <3>1. loans'[n] = new /\ loans[n] = old
        BY <1>3, <2>1 DEF TypeOK
      <3>2. \A i \in DOMAIN old : old[i].age \in Nat
        BY AgesNat DEF LoanIds
      <3> HIDE DEF old
      <3> QED BY <1>2, <1>4, <1>5, <3>1, <3>2 DEF LoanIds
    <2>2. CASE n # m
      BY SMTT(60), <1>3, <2>2, AgesNat DEF TypeOK, LoanIds
    <2> QED BY <2>1, <2>2
  <1> QED BY <1>6, <1>7

(* One tick, for an age that is capped.                                    *)
LEMMA OlderBounded ==
  ASSUME NEW limit \in Nat, NEW age \in 0 .. limit
  PROVE  /\ Older(age, limit) \in 0 .. limit
         /\ Older(age, limit) >= age
         /\ age < limit => Older(age, limit) = age + 1
         /\ Older(age, limit) <= age + 1
  BY DEF Older

LEMMA TickLoans ==
  ASSUME TypeOK, Tick
  PROVE  /\ LoansTyped' /\ Grown
         /\ \A m \in Markets : \A id \in LoanIds(m) :
              loans'[m][id].age = Older(loans[m][id].age, LoanAge)
  <1> DEFINE New(m) == [id \in LoanIds(m) |->
                          [loans[m][id] EXCEPT !.age = Older(loans[m][id].age, LoanAge)]]
  <1>1. loans' = [m \in Markets |-> New(m)]
    BY DEF Tick
  <1>2. ASSUME NEW m \in Markets
        PROVE  /\ New(m) \in Seq(LoanRecord)
               /\ Len(New(m)) = Len(loans[m])
               /\ DOMAIN New(m) = LoanIds(m)
               /\ \A id \in LoanIds(m) : New(m)[id].age = Older(loans[m][id].age, LoanAge)
    <2>1. LoanIds(m) = 1 .. Len(loans[m]) /\ Len(loans[m]) \in Nat
      BY LoanTyped, LenProperties DEF TypeOK
    <2>2. \A id \in LoanIds(m) :
            /\ New(m)[id] \in LoanRecord
            /\ New(m)[id].age = Older(loans[m][id].age, LoanAge)
      <3> SUFFICES ASSUME NEW id \in LoanIds(m)
                   PROVE  /\ New(m)[id] \in LoanRecord
                          /\ New(m)[id].age = Older(loans[m][id].age, LoanAge)
        OBVIOUS
      <3>1. loans[m][id] \in LoanRecord
        BY LoanTyped
      <3>2. Older(loans[m][id].age, LoanAge) \in 0 .. LoanAge
        BY AgesNat, OlderBounded, BoundsNat
      <3> QED BY <3>1, <3>2 DEF LoanRecord
    <2>3. DOMAIN New(m) = LoanIds(m)
      OBVIOUS
    <2>4. New(m) \in [1 .. Len(loans[m]) -> LoanRecord]
      BY <2>1, <2>2
    <2> HIDE DEF New
    <2>5. New(m) \in Seq(LoanRecord)
      BY <2>1, <2>4, SeqDef
    <2>6. Len(New(m)) = Len(loans[m])
      BY <2>1, <2>3, <2>5, LenProperties
    <2> QED BY <2>2, <2>3, <2>5, <2>6
  <1> HIDE DEF New
  <1>3. LoansTyped'
    BY <1>1, <1>2 DEF TypeOK, LoansTyped
  <1>4. \A m \in Markets : \A id \in LoanIds(m) :
          loans'[m][id].age = Older(loans[m][id].age, LoanAge)
    BY <1>1, <1>2
  <1>5. Grown
    <2> SUFFICES ASSUME NEW m \in Markets, NEW id \in LoanIds(m)
                 PROVE  /\ id \in LoanIds(m)'
                        /\ loans'[m][id].age \in Nat /\ loans'[m][id].age >= loans[m][id].age
      BY DEF Grown
    <2>1. id \in LoanIds(m)'
      BY <1>1, <1>2 DEF LoanIds
    <2> DEFINE a == loans[m][id].age
    <2>2. a \in 0 .. LoanAge
      BY AgesNat
    <2>3. loans'[m][id].age = Older(a, LoanAge)
      BY <1>4
    <2> HIDE DEF a
    <2>4. Older(a, LoanAge) \in Nat /\ Older(a, LoanAge) >= a
      BY <2>2, OlderBounded, BoundsNat
    <2> QED BY <2>1, <2>3, <2>4 DEF a
  <1> QED BY <1>3, <1>4, <1>5

-----------------------------------------------------------------------------
(* The memory of the processes.                                            *)
GraceTyped    == /\ DOMAIN grace = Processes
                 /\ \A p \in Processes : IsMemory(grace[p], 0 .. GracePeriod)
WarningsTyped == /\ DOMAIN warnings = Processes
                 /\ \A p \in Processes : IsMemory(warnings[p], Warning)

LEMMA PutMemory ==
  ASSUME NEW Entry, NEW f, IsMemory(f, Entry), NEW k \in Numbers, NEW v \in Entry
  PROVE  IsMemory(Put(f, k, v), Entry)
  BY DEF IsMemory, Put

LEMMA DropMemory ==
  ASSUME NEW Entry, NEW f, IsMemory(f, Entry), NEW k
  PROVE  IsMemory(Drop(f, k), Entry)
  BY DEF IsMemory, Drop

LEMMA StartGraceTyped ==
  ASSUME TypeOK, NEW p \in Processes, NEW id \in Numbers, start_grace(p, id)
  PROVE  GraceTyped'
  <1>1. IsMemory(Put(grace[p], id, 0), 0 .. GracePeriod)
    BY PutMemory, BoundsNat DEF TypeOK
  <1> QED BY <1>1 DEF TypeOK, GraceTyped, start_grace

LEMMA ExpireGraceTyped ==
  ASSUME TypeOK, NEW p \in Processes, NEW id \in Numbers, expire_grace_for_test(p, id)
  PROVE  GraceTyped'
  <1>1. IsMemory(Put(grace[p], id, GracePeriod), 0 .. GracePeriod)
    BY PutMemory, BoundsNat DEF TypeOK
  <1> QED BY <1>1 DEF TypeOK, GraceTyped, expire_grace_for_test

LEMMA ClearGraceTyped ==
  ASSUME TypeOK, NEW p \in Processes, NEW id, clear_grace(p, id)
  PROVE  GraceTyped'
  <1>1. IsMemory(Drop(grace[p], id), 0 .. GracePeriod)
    BY DropMemory DEF TypeOK
  <1> QED BY <1>1 DEF TypeOK, GraceTyped, clear_grace

LEMMA RecordWarningTyped ==
  ASSUME TypeOK, NEW p \in Processes, NEW id \in Numbers, NEW ltv \in Nat,
         record_warning(p, id, ltv)
  PROVE  WarningsTyped'
  <1>1. [age |-> 0, ltv |-> ltv] \in Warning
    BY BoundsNat DEF Warning
  <1>2. IsMemory(Put(warnings[p], id, [age |-> 0, ltv |-> ltv]), Warning)
    BY <1>1, PutMemory DEF TypeOK
  <1> QED BY <1>2 DEF TypeOK, WarningsTyped, record_warning

LEMMA TickMemory ==
  ASSUME TypeOK, Tick
  PROVE  GraceTyped' /\ WarningsTyped'
  <1>1. ASSUME NEW p \in Processes PROVE IsMemory(grace'[p], 0 .. GracePeriod)
    <2>1. grace'[p] = [id \in DOMAIN grace[p] |-> Older(grace[p][id], GracePeriod)]
      BY DEF Tick
    <2>2. IsMemory(grace[p], 0 .. GracePeriod)
      BY DEF TypeOK
    <2>3. \A id \in DOMAIN grace[p] : Older(grace[p][id], GracePeriod) \in 0 .. GracePeriod
      BY <2>2, OlderBounded, BoundsNat DEF IsMemory
    <2> QED BY <2>1, <2>2, <2>3 DEF IsMemory
  <1>2. ASSUME NEW p \in Processes PROVE IsMemory(warnings'[p], Warning)
    <2>1. warnings'[p] = [id \in DOMAIN warnings[p] |->
                            [warnings[p][id] EXCEPT !.age = Older(@, Cooldown)]]
      BY DEF Tick
    <2>2. DOMAIN warnings[p] \subseteq Numbers
          /\ \A id \in DOMAIN warnings[p] : warnings[p][id] \in Warning
      BY DEF TypeOK, IsMemory
    <2>3. ASSUME NEW id \in DOMAIN warnings[p]
          PROVE  [warnings[p][id] EXCEPT !.age = Older(warnings[p][id].age, Cooldown)] \in Warning
      <3>1. warnings[p][id] \in Warning
        BY <2>2
      <3>2. Older(warnings[p][id].age, Cooldown) \in 0 .. Cooldown
        BY <3>1, OlderBounded, BoundsNat DEF Warning
      <3> QED BY <3>1, <3>2 DEF Warning
    <2> QED BY <2>1, <2>2, <2>3 DEF IsMemory
  <1> QED BY <1>1, <1>2 DEF GraceTyped, WarningsTyped, Tick

-----------------------------------------------------------------------------
(* Each action keeps the types.                                            *)
SweepsTyped ==
  /\ job \in [Processes -> Sweep]
  /\ \A p \in Processes : SweepOK(p)

RestTyped ==
  /\ price \in [Markets -> Nat \ {0}]
  /\ mishaps \in 0 .. MaxMishaps /\ moves \in 0 .. MaxMoves
  /\ warned \subseteq Markets \X Numbers

LEMMA TypeParts ==
  ASSUME LoansTyped', GraceTyped', WarningsTyped', SweepsTyped', RestTyped'
  PROVE  TypeOK'
  BY DEF TypeOK, LoansTyped, GraceTyped, WarningsTyped, SweepsTyped, RestTyped

LEMMA SameGrace    == TypeOK /\ UNCHANGED grace => GraceTyped'
  BY DEF TypeOK, GraceTyped
LEMMA SameWarnings == TypeOK /\ UNCHANGED warnings => WarningsTyped'
  BY DEF TypeOK, WarningsTyped

LEMMA SameSweeps ==
  ASSUME TypeOK, UNCHANGED job, \A m \in Markets : LoanIds(m) \subseteq LoanIds(m)'
  PROVE  SweepsTyped'
  <1>1. ASSUME NEW p \in Processes, job[p].stage # "idle"
        PROVE  Head(job[p].chains) \in Markets
    <2>1. job[p].chains \in Seq(Markets) /\ job[p].chains # <<>>
      BY <1>1 DEF TypeOK, Sweep, SweepOK
    <2> QED BY <2>1, HeadTailProperties
  <1> QED BY <1>1 DEF TypeOK, SweepsTyped, SweepOK, LoanIds

LEMMA EnvironmentTyped ==
  ASSUME TypeOK, Environment
  PROVE  TypeOK' /\ Grown
  <1>1. CASE \E m \in Markets : Borrow(m)
    <2>1. LoansTyped' /\ Grown
      BY <1>1, BorrowLoans
    <2>2. UNCHANGED <<price, agentVars, mishaps, moves, warned>>
      BY <1>1 DEF Borrow
    <2> QED BY <2>1, <2>2, TypeParts, SameGrace, SameWarnings, SameSweeps
            DEF TypeOK, RestTyped, agentVars, Grown
  <1>2. CASE \E m \in Markets : \E id \in LoanIds(m) : repayLoan(m, id)
    <2>1. LoansTyped' /\ Grown
      BY <1>2, CloseLoans DEF repayLoan
    <2>2. UNCHANGED <<price, agentVars, mishaps, moves, warned>>
      BY <1>2 DEF repayLoan
    <2> QED BY <2>1, <2>2, TypeParts, SameGrace, SameWarnings, SameSweeps
            DEF TypeOK, RestTyped, agentVars, Grown
  <1>3. CASE \E m \in Markets : PriceMoves(m)
    <2>1. UNCHANGED <<loans, agentVars, mishaps, warned>>
      BY <1>3 DEF PriceMoves
    <2>2. LoansTyped' /\ Grown
      BY <2>1, SameLoans
    <2>3. price' \in [Markets -> Nat \ {0}] /\ moves' \in 0 .. MaxMoves
      <3>1. PICK m \in Markets : PriceMoves(m)
        BY <1>3
      <3>2. PICK v \in Prices : price' = [price EXCEPT ![m] = v]
        BY <3>1 DEF PriceMoves
      <3>3. v \in Nat \ {0}
        BY MonitorAssumption
      <3>4. moves < MaxMoves /\ moves' = moves + 1
        BY <3>1 DEF PriceMoves
      <3> QED BY <3>2, <3>3, <3>4, BoundsNat DEF TypeOK
    <2> QED BY <2>1, <2>2, <2>3, TypeParts, SameGrace, SameWarnings, SameSweeps
            DEF TypeOK, RestTyped, agentVars, Grown
  <1>4. CASE Tick
    <2>1. LoansTyped' /\ Grown /\ GraceTyped' /\ WarningsTyped'
      BY <1>4, TickLoans, TickMemory
    <2>2. UNCHANGED <<price, job, mishaps, moves, warned>>
      BY <1>4 DEF Tick
    <2> QED BY <2>1, <2>2, TypeParts, SameSweeps DEF TypeOK, RestTyped, Grown
  <1> QED BY <1>1, <1>2, <1>3, <1>4 DEF Environment

LEMMA MonitorStepTyped ==
  ASSUME TypeOK, NEW p \in Processes,
         \/ StartSweep(p) \/ _scan_active_loans(p) \/ Look(p) \/ ScanDone(p) \/ Judge(p)
  PROVE  TypeOK' /\ Grown
  <1>2. UNCHANGED <<loans, price, mishaps, moves>>
    BY DEF StartSweep, _scan_active_loans, Look, ScanDone, Judge, Unmoved
  <1>3. LoansTyped' /\ Grown /\ \A m \in Markets : LoanIds(m) \subseteq LoanIds(m)'
    BY <1>2, SameLoans DEF Grown
  <1>4. RestTyped' <=> warned' \subseteq Markets \X Numbers
    BY <1>2 DEF TypeOK, RestTyped
  <1>5. CASE StartSweep(p)
    <2> DEFINE j == [IdleJob EXCEPT !.stage = "scan", !.chains = MonitorChains]
    <2>1. MonitorChains \in Seq(Markets) /\ MonitorChains # <<>>
      BY MonitorAssumption, EmptySeq DEF Markets, ToSet
    <2>2. j \in Sweep /\ j.chains # <<>> /\ j.ids = {} /\ ~j.force /\ j.stage \notin Handling
      BY <2>1, IdleSweep DEF IdleJob, Sweep, Stages, Handling
    <2>3. job' = [job EXCEPT ![p] = j] /\ UNCHANGED <<grace, warnings, warned>>
      BY <1>5 DEF StartSweep
    <2> HIDE DEF j
    <2>4. SweepsTyped'
      BY <1>3, <2>2, <2>3, SweepTyped DEF SweepsTyped
    <2> QED BY <1>3, <1>4, <2>3, <2>4, TypeParts, SameGrace, SameWarnings DEF TypeOK
  <1>6. CASE _scan_active_loans(p)
    <2> DEFINE active == {id \in LoanIds(Chain(p)) : loans[Chain(p)][id].active}
               j == [job[p] EXCEPT !.stage = "look", !.ids = active]
    <2>1. ~At(p, "idle") /\ job[p] \in Sweep /\ ~job[p].force /\ job[p].stage = "scan"
      BY <1>6 DEF _scan_active_loans, At, TypeOK, SweepOK, Handling
    <2>2. Chain(p) \in Markets /\ job[p].chains # <<>>
      BY <2>1, ChainSwept
    <2>3. active \subseteq LoanIds(Chain(p)) /\ active \subseteq Numbers
      BY <2>2, LoanTyped
    <2>4. job' = [job EXCEPT ![p] = j] /\ UNCHANGED <<grace, warnings, warned>>
      BY <1>6 DEF _scan_active_loans, TypeOK
    <2> HIDE DEF active
    <2>5. /\ j \in Sweep /\ j.chains # <<>> /\ j.ids \subseteq LoanIds(Head(j.chains))
          /\ ~j.force /\ j.stage \notin Handling
      BY <2>1, <2>2, <2>3 DEF Sweep, Stages, Handling, Chain
    <2> HIDE DEF j
    <2>6. SweepsTyped'
      BY <1>3, <2>4, <2>5, SweepTyped DEF SweepsTyped
    <2> QED BY <1>3, <1>4, <2>4, <2>6, TypeParts, SameGrace, SameWarnings DEF TypeOK
  <1>7. CASE Look(p)
    <2>1. /\ ~At(p, "idle") /\ job[p] \in Sweep /\ ~job[p].force /\ job[p].stage = "look"
          /\ job[p].ids # {}
      BY <1>7 DEF Look, At, TypeOK, SweepOK, Handling
    <2>2. PICK flag \in BOOLEAN :
            job' = [job EXCEPT ![p].stage = "judge", ![p].flag = flag,
                               ![p].ltv = LTV(Chain(p), Loan(p))]
      BY <1>7 DEF Look
    <2> DEFINE ltv == LTV(Chain(p), Loan(p))
               j == [job[p] EXCEPT !.stage = "judge", !.flag = flag, !.ltv = ltv]
    <2>3. ltv \in Nat
      BY <2>1, ChainSwept, LoanAtHand, LoanLTV
    <2>4. job' = [job EXCEPT ![p] = j]
      BY <2>2 DEF TypeOK
    <2> HIDE DEF ltv
    <2>5. /\ j \in Sweep /\ j.chains = job[p].chains /\ j.ids = job[p].ids
          /\ ~j.force /\ j.stage = "judge"
      BY <2>1, <2>3 DEF Sweep, Stages, Handling
    <2>6. job[p].chains # <<>> /\ job[p].ids \subseteq LoanIds(Head(job[p].chains))
      BY <2>1 DEF TypeOK, SweepOK
    <2> HIDE DEF j
    <2>7. SweepsTyped'
      BY <1>3, <2>1, <2>4, <2>5, <2>6, SweepTyped DEF SweepsTyped
    <2>8. GraceTyped'
      BY <1>7, <2>1, LoanAtHand, StartGraceTyped, SameGrace DEF Look
    <2>9. UNCHANGED <<warnings, warned>>
      BY <1>7 DEF Look
    <2> QED BY <1>3, <1>4, <2>7, <2>8, <2>9, TypeParts, SameWarnings DEF TypeOK
  <1>8. CASE ScanDone(p)
    <2>1. ~At(p, "idle") /\ NextChain(p) /\ UNCHANGED <<grace, warnings, warned>>
      BY <1>8 DEF ScanDone, At
    <2>2. SweepsTyped'
      BY <1>3, <2>1, NextChainTyped DEF SweepsTyped
    <2> QED BY <1>3, <1>4, <2>1, <2>2, TypeParts, SameGrace, SameWarnings DEF TypeOK
  <1>9. CASE Judge(p)
    <2> DEFINE id == Loan(p)
               ltv == job[p].ltv
    <2>1. /\ ~At(p, "idle") /\ job[p] \in Sweep /\ job[p].stage = "judge"
          /\ job[p].ids # {}
      BY <1>9 DEF Judge, At, TypeOK, SweepOK, Handling
    <2>2. id \in Numbers /\ Chain(p) \in Markets /\ ltv \in Nat
      BY <2>1, LoanAtHand, ChainSwept DEF Sweep
    <2>3. WarningsTyped' /\ warned' \subseteq Markets \X Numbers
      <3>1. CASE UNCHANGED <<warnings, warned>>
        BY <3>1, SameWarnings DEF TypeOK
      <3>2. CASE record_warning(p, id, ltv) /\ warned' = warned \cup {<<Chain(p), id>>}
        <4>1. WarningsTyped'
          BY <2>2, <3>2, RecordWarningTyped
        <4> QED BY <2>2, <3>2, <4>1 DEF TypeOK
      <3> QED BY <1>9, <3>1, <3>2 DEF Judge
    <2>4. SweepsTyped'
      <3>1. CASE NextLoan(p)
        BY <1>3, <2>1, <3>1, NextLoanTyped DEF SweepsTyped
      <3>2. CASE job' = [job EXCEPT ![p].stage = "execute", ![p].force = grace_expired(p, id)]
        <4> DEFINE j == [job[p] EXCEPT !.stage = "execute", !.force = grace_expired(p, id)]
        <4>1. job' = [job EXCEPT ![p] = j]
          BY <3>2 DEF TypeOK
        <4>2. grace_expired(p, id) \in BOOLEAN
          BY DEF grace_expired
        <4>3. /\ j \in Sweep /\ j.chains = job[p].chains /\ j.ids = job[p].ids
              /\ j.stage = "execute"
          BY <2>1, <4>2 DEF Sweep, Stages, Handling
        <4>4. job[p].chains # <<>> /\ job[p].ids \subseteq LoanIds(Head(job[p].chains))
          BY <2>1 DEF TypeOK, SweepOK
        <4> HIDE DEF j
        <4>5. j.stage \in Handling \ {"judge"}
          BY <4>3 DEF Handling
        <4> QED BY <1>3, <2>1, <4>1, <4>3, <4>4, <4>5, SweepTyped DEF SweepsTyped
      <3> QED BY <1>9, <3>1, <3>2 DEF Judge
    <2>5. UNCHANGED grace
      BY <1>9 DEF Judge
    <2> QED BY <1>3, <1>4, <2>3, <2>4, <2>5, TypeParts, SameGrace
  <1> QED BY <1>5, <1>6, <1>7, <1>8, <1>9

(* The oracle helper sets a price of at least a dollar.                    *)
LEMMA CrashTargetPositive ==
  ASSUME TypeOK, NEW id \in LoanIds(Hub)
  PROVE  crashTarget(id) \in Nat \ {0}
  <1> DEFINE target == (price[Hub] * LTV(Hub, id) * 100) \div (liquidationThreshold * 105)
  <1>1. crashTarget(id) = IF target > 1 THEN target ELSE 1
    BY DEF crashTarget
  <1>2. price[Hub] \in Nat /\ LTV(Hub, id) \in Nat
    BY MonitorAssumption, LoanTyped, LoanLTV
  <1>3. price[Hub] * LTV(Hub, id) * 100 \in Nat
    BY <1>2
  <1>4. target \in Nat
    BY <1>3, QuotientNat DEF liquidationThreshold
  <1> HIDE DEF target
  <1> QED BY <1>1, <1>4

LEMMA LiquidationStepTyped ==
  ASSUME TypeOK, NEW p \in Processes,
         Execute(p) \/ ensure_liquidatable(p) \/ Seized(p) \/ Refused(p)
  PROVE  TypeOK' /\ Grown
  <1>1. /\ ~At(p, "idle") /\ job[p].ids # {}
        /\ Chain(p) \in Markets /\ Loan(p) \in LoanIds(Chain(p))
    <2>1. job[p].stage \in Handling
      BY DEF Execute, ensure_liquidatable, Seized, Refused, At, Handling
    <2>2. ~At(p, "idle") /\ job[p].ids # {}
      BY <2>1 DEF TypeOK, SweepOK, Handling, At
    <2> QED BY <2>2, ChainSwept, LoanAtHand
  <1>2. UNCHANGED <<mishaps, moves, warnings, warned>>
    BY DEF Execute, ensure_liquidatable, Seized, Refused, Unmoved
  <1>3. LoansTyped' /\ Grown
    <2>1. CASE UNCHANGED loans
      BY <2>1, SameLoans
    <2>2. CASE Close(Chain(p), Loan(p))
      BY <1>1, <2>2, CloseLoans
    <2> QED BY <2>1, <2>2 DEF Execute, ensure_liquidatable, Seized, Refused
  <1>4. \A m \in Markets : LoanIds(m) \subseteq LoanIds(m)'
    BY <1>3 DEF Grown
  <1>5. SweepsTyped'
    <2>1. \/ NextLoan(p) \/ NextChain(p) \/ GoTo(p, "crash") \/ GoTo(p, "seize")
      BY DEF Execute, ensure_liquidatable, Seized, Refused
    <2> QED BY <1>1, <1>4, <2>1, NextLoanTyped, NextChainTyped, GoToTyped DEF SweepsTyped
  <1>6. price' \in [Markets -> Nat \ {0}]
    <2>1. CASE UNCHANGED price
      BY <2>1 DEF TypeOK
    <2>2. CASE /\ Loan(p) \in LoanIds(Hub)
               /\ price' = [price EXCEPT ![Hub] = crashTarget(Loan(p))]
      <3>1. crashTarget(Loan(p)) \in Nat \ {0}
        BY <2>2, CrashTargetPositive
      <3> QED BY <2>2, <3>1 DEF TypeOK
    <2> QED BY <2>1, <2>2 DEF Execute, ensure_liquidatable, Seized, Refused
  <1>7. GraceTyped'
    <2>1. UNCHANGED grace \/ clear_grace(p, Loan(p))
      BY DEF Execute, ensure_liquidatable, Seized, Refused
    <2> QED BY <2>1, SameGrace, ClearGraceTyped
  <1> QED BY <1>2, <1>3, <1>5, <1>6, <1>7, TypeParts, SameWarnings DEF TypeOK, RestTyped

LEMMA MishapTyped ==
  ASSUME TypeOK, NEW p \in Processes, Raise(p) \/ Restart(p)
  PROVE  TypeOK' /\ Grown
  <1>1. UNCHANGED <<loans, price, moves, warned>> /\ mishaps' \in 0 .. MaxMishaps
    BY BoundsNat DEF Raise, Restart, Mishap, TypeOK
  <1>2. LoansTyped' /\ Grown /\ \A m \in Markets : LoanIds(m) \subseteq LoanIds(m)'
    BY <1>1, SameLoans DEF Grown
  <1>3. RestTyped'
    BY <1>1 DEF TypeOK, RestTyped
  <1>4. CASE Raise(p)
    <2>1. ~At(p, "idle") /\ NextChain(p) /\ UNCHANGED <<grace, warnings>>
      BY <1>4 DEF Raise
    <2>2. SweepsTyped'
      BY <1>2, <2>1, NextChainTyped DEF SweepsTyped
    <2> QED BY <1>2, <1>3, <2>1, <2>2, TypeParts, SameGrace, SameWarnings
  <1>5. CASE Restart(p)
    <2>1. IsMemory(Empty, 0 .. GracePeriod) /\ IsMemory(Empty, Warning)
      BY DEF IsMemory, Empty
    <2>2. GraceTyped' /\ WarningsTyped'
      BY <1>5, <2>1 DEF Restart, GraceTyped, WarningsTyped, TypeOK
    <2>3. job' = [job EXCEPT ![p] = IdleJob] /\ IdleJob.stage = "idle" /\ ~IdleJob.force
          /\ IdleJob.stage \notin Handling
      BY <1>5 DEF Restart, IdleJob, Handling
    <2>4. SweepsTyped'
      BY <1>2, <2>3, IdleSweep, SweepTyped DEF SweepsTyped
    <2> QED BY <1>2, <1>3, <2>2, <2>4, TypeParts
  <1> QED BY <1>4, <1>5

LEMMA RequestTyped ==
  ASSUME TypeOK, Requests
  PROVE  TypeOK' /\ Grown
  <1>1. PICK p \in Servers, id \in Numbers : start_covenant_grace(p, id) \/ force_expire_grace(p, id)
    BY DEF Requests
  <1>2. p \in Processes
    BY MonitorAssumption
  <1>3. GraceTyped'
    BY <1>1, <1>2, StartGraceTyped, ExpireGraceTyped DEF start_covenant_grace, force_expire_grace
  <1>4. UNCHANGED <<loans, price, mishaps, moves, warnings, job, warned>>
    BY <1>1 DEF start_covenant_grace, force_expire_grace, Unmoved
  <1>5. LoansTyped' /\ Grown
    BY <1>4, SameLoans
  <1> QED BY <1>3, <1>4, <1>5, TypeParts, SameWarnings, SameSweeps DEF TypeOK, RestTyped, Grown

LEMMA NextTyped == TypeOK /\ [Next]_vars => TypeOK' /\ Grown
  <1> SUFFICES ASSUME TypeOK, [Next]_vars PROVE TypeOK' /\ Grown
    OBVIOUS
  <1>1. CASE Environment
    BY <1>1, EnvironmentTyped
  <1>2. CASE \E p \in Processes : Step(p) \/ Raise(p) \/ Restart(p)
    BY <1>2, MonitorStepTyped, LiquidationStepTyped, MishapTyped DEF Step
  <1>3. CASE UNCHANGED vars
    <2>1. UNCHANGED <<loans, price, agentVars, mishaps, moves, warned>>
      BY <1>3 DEF vars, agentVars
    <2>2. LoansTyped' /\ Grown
      BY <2>1, SameLoans
    <2> QED BY <2>1, <2>2, TypeParts, SameGrace, SameWarnings, SameSweeps
            DEF TypeOK, RestTyped, agentVars, Grown
  <1>4. CASE Requests
    BY <1>4, RequestTyped
  <1> QED BY <1>1, <1>2, <1>3, <1>4 DEF Next

(* Every state is well-typed: a sweep that goes on has a chain, the loans  *)
(* it has left exist on that chain, and a clock or a warning is within its *)
(* limit, whatever failed or was restarted in the middle of a sweep        *)
(* (portfolio_monitor.run_once, state.py).                                 *)
THEOREM TypeCorrect == Spec => []TypeOK
  <1>1. TypeOK /\ [Next]_vars => TypeOK'
    BY NextTyped
  <1> QED BY InitTyped, <1>1, PTL DEF Spec

-----------------------------------------------------------------------------
(* Clocks and warnings.  A clock is keyed by a number; in a scheduler's    *)
(* memory it vouches for some loan of that number, on some chain.  In a    *)
(* server's, where the test routes write too, it vouches for nothing.      *)

HandedOver == {"execute", "crash", "seize"}

Clocked ==
  \A p \in Schedulers : \A id \in DOMAIN grace[p] : OverdueFor(id, grace[p][id])

WarningsEmitted ==
  \A p \in Processes : \A id \in DOMAIN warnings[p] : WarnedOf(id)

HandedOverWarned ==
  \A p \in Processes : job[p].stage \in HandedOver /\ ~job[p].force => WarnedOf(Loan(p))

ClockInv == Clocked /\ NumbersForcedAfterGrace /\ WarningsEmitted /\ HandedOverWarned

(* What one step can do to the clocks: it ticks, starts one for an overdue *)
(* loan, forgets some, or writes in a server's memory.                     *)
LEMMA GraceMoves ==
  ASSUME [Next]_vars
  PROVE  \/ UNCHANGED grace
         \/ Tick
         \/ \E p \in Processes : /\ At(p, "look") /\ job[p].ids # {} /\ UNCHANGED loans
                                 /\ Overdue(Chain(p), Loan(p)) /\ start_grace(p, Loan(p))
         \/ \E p \in Processes : clear_grace(p, Loan(p)) \/ grace' = [grace EXCEPT ![p] = Empty]
         \/ \E p \in Servers : \E f : grace' = [grace EXCEPT ![p] = f]
  <1>1. CASE Environment \/ UNCHANGED vars
    BY <1>1 DEF Environment, Borrow, repayLoan, PriceMoves, agentVars, vars
  <1>2. ASSUME NEW p \in Processes, Step(p)
        PROVE  \/ UNCHANGED grace
               \/ /\ At(p, "look") /\ job[p].ids # {} /\ UNCHANGED loans
                  /\ Overdue(Chain(p), Loan(p)) /\ start_grace(p, Loan(p))
               \/ clear_grace(p, Loan(p))
    BY <1>2 DEF Step, StartSweep, _scan_active_loans, Look, ScanDone, Judge, Execute,
                ensure_liquidatable, Seized, Refused
  <1>3. ASSUME NEW p \in Processes, Raise(p) \/ Restart(p)
        PROVE  UNCHANGED grace \/ grace' = [grace EXCEPT ![p] = Empty]
    BY <1>3 DEF Raise, Restart
  <1>4. ASSUME Requests
        PROVE  UNCHANGED grace \/ \E p \in Servers : \E f : grace' = [grace EXCEPT ![p] = f]
    BY <1>4 DEF Requests, start_covenant_grace, force_expire_grace, start_grace,
                expire_grace_for_test
  <1> QED BY <1>1, <1>2, <1>3, <1>4 DEF Next

LEMMA StillOverdue ==
  ASSUME TypeOK, Grown, NEW id, NEW g \in Nat, OverdueFor(id, g)
  PROVE  OverdueFor(id, g)'
  <1>1. PICK m \in Markets : id \in LoanIds(m) /\ loans[m][id].age > Term + g
    BY DEF OverdueFor
  <1>2. id \in LoanIds(m)' /\ loans'[m][id].age \in Nat /\ loans'[m][id].age >= loans[m][id].age
    BY <1>1 DEF Grown
  <1>3. loans[m][id].age \in Nat
    BY <1>1, AgesNat
  <1>4. loans'[m][id].age > Term + g
    BY <1>1, <1>2, <1>3, BoundsNat
  <1> QED BY <1>2, <1>4 DEF OverdueFor

LEMMA ClockedKept == TypeOK /\ TypeOK' /\ Clocked /\ Grown /\ [Next]_vars => Clocked'
  <1> SUFFICES ASSUME TypeOK, TypeOK', Clocked, Grown, [Next]_vars,
                      NEW q \in Schedulers, NEW id \in DOMAIN grace'[q]
               PROVE  OverdueFor(id, grace[q][id])'
    BY DEF Clocked
  <1>8. q \in Processes /\ q \notin Servers
    BY DEF Schedulers
  <1>1. grace'[q][id] \in Nat
    BY <1>8, BoundsNat DEF TypeOK, IsMemory
  <1>2. ASSUME id \in DOMAIN grace[q], grace'[q][id] = grace[q][id]
        PROVE  OverdueFor(id, grace[q][id])'
    <2>1. OverdueFor(id, grace[q][id]) /\ grace[q][id] \in Nat
      BY <1>1, <1>2 DEF Clocked
    <2>2. OverdueFor(id, grace[q][id])' <=> \E m \in Markets :
            id \in LoanIds(m)' /\ loans'[m][id].age > Term + grace[q][id]
      BY <1>2 DEF OverdueFor
    <2> QED BY <2>1, <2>2, StillOverdue DEF OverdueFor
  <1>3. CASE UNCHANGED grace
    BY <1>2, <1>3
  <1>4. CASE Tick
    <2>1. grace'[q] = [i \in DOMAIN grace[q] |-> Older(grace[q][i], GracePeriod)]
      BY <1>4, <1>8 DEF Tick
    <2>2. id \in DOMAIN grace[q] /\ grace'[q][id] = Older(grace[q][id], GracePeriod)
      BY <2>1
    <2> DEFINE g == grace[q][id]
    <2>3. g \in 0 .. GracePeriod
      BY <1>8, <2>2 DEF TypeOK, IsMemory
    <2>4. PICK m \in Markets : id \in LoanIds(m) /\ loans[m][id].age > Term + g
      BY <2>2 DEF Clocked, OverdueFor
    <2> DEFINE a == loans[m][id].age
    <2>5. a \in 0 .. LoanAge /\ loans'[m][id].age = Older(a, LoanAge) /\ id \in LoanIds(m)'
      BY <1>4, <2>4, AgesNat, TickLoans DEF Grown
    <2>6. Older(a, LoanAge) > Term + Older(g, GracePeriod)
      <3> HIDE DEF a, g
      <3> QED BY <2>3, <2>4, <2>5, BoundsNat DEF Older, LoanAge, a, g
    <2> QED BY <2>2, <2>5, <2>6 DEF OverdueFor
  <1>5. ASSUME NEW p \in Processes, At(p, "look"), job[p].ids # {}, UNCHANGED loans,
               Overdue(Chain(p), Loan(p)), start_grace(p, Loan(p))
        PROVE  OverdueFor(id, grace[q][id])'
    <2>1. CASE id \in DOMAIN grace[q] /\ grace'[q][id] = grace[q][id]
      BY <1>2, <2>1
    <2>2. CASE id = Loan(p) /\ grace'[q][id] = 0
      <3>1. ~At(p, "idle")
        BY <1>5 DEF At
      <3>2. Chain(p) \in Markets /\ id \in LoanIds(Chain(p))
        BY <1>5, <2>2, <3>1, ChainSwept, LoanAtHand
      <3>3. loans[Chain(p)][id].age > Term + 0
        BY <1>5, <2>2, BoundsNat DEF Overdue
      <3>4. loans' = loans /\ \A m \in Markets : LoanIds(m)' = LoanIds(m)
        BY <1>5 DEF LoanIds
      <3>5. PICK m \in Markets : m = Chain(p)
        BY <3>2
      <3>6. id \in LoanIds(m)' /\ loans'[m][id].age > Term + grace'[q][id]
        BY <2>2, <3>2, <3>3, <3>4, <3>5
      <3> QED BY <3>6 DEF OverdueFor
    <2>3. \/ id \in DOMAIN grace[q] /\ grace'[q][id] = grace[q][id]
          \/ id = Loan(p) /\ grace'[q][id] = 0
      BY <1>5, <1>8 DEF start_grace, Put, TypeOK
    <2> QED BY <2>1, <2>2, <2>3
  <1>6. ASSUME NEW p \in Processes,
               clear_grace(p, Loan(p)) \/ grace' = [grace EXCEPT ![p] = Empty]
        PROVE  OverdueFor(id, grace[q][id])'
    <2>1. id \in DOMAIN grace[q] /\ grace'[q][id] = grace[q][id]
      BY <1>6, <1>8 DEF clear_grace, Drop, Empty, TypeOK
    <2> QED BY <1>2, <2>1
  <1>7. ASSUME NEW p \in Servers, NEW f, grace' = [grace EXCEPT ![p] = f]
        PROVE  OverdueFor(id, grace[q][id])'
    <2>1. grace'[q] = grace[q]
      BY <1>7, <1>8 DEF TypeOK
    <2> QED BY <1>2, <2>1
  <1> QED BY <1>3, <1>4, <1>5, <1>6, <1>7, GraceMoves

(* Who is handed over after a step was handed over before it, or has just  *)
(* been judged; the loan at hand, and whether force may be used, stay.     *)
LEMMA HandedOverBefore ==
  ASSUME TypeOK, [Next]_vars, NEW q \in Processes, job'[q].stage \in HandedOver
  PROVE  /\ Loan(q)' = Loan(q)
         /\ \/ job[q].stage \in HandedOver /\ job'[q].force = job[q].force
            \/ Judge(q) /\ job'[q].force = grace_expired(q, Loan(q))
               /\ (grace_expired(q, Loan(q))
                   \/ (job[q].ltv >= LIQUIDATION_LTV_BPS /\ job[q].flag))
  <1> DEFINE Kept == job'[q].ids = job[q].ids
             Claim == /\ Kept
                      /\ \/ job[q].stage \in HandedOver /\ job'[q].force = job[q].force
                         \/ Judge(q) /\ job'[q].force = grace_expired(q, Loan(q))
                            /\ (grace_expired(q, Loan(q))
                                \/ (job[q].ltv >= LIQUIDATION_LTV_BPS /\ job[q].flag))
  <1>1. ASSUME job'[q] = job[q] PROVE Claim
    BY <1>1
  <1>2. ASSUME Environment \/ Requests \/ UNCHANGED vars PROVE Claim
    <2>1. UNCHANGED job
      BY <1>2 DEF Environment, Borrow, repayLoan, PriceMoves, Tick, Requests, start_covenant_grace,
                  force_expire_grace, agentVars, vars
    <2> QED BY <1>1, <2>1
  <1>3. ASSUME NEW p \in Processes, Step(p) \/ Raise(p) \/ Restart(p) PROVE Claim
    <2>1. CASE p # q
      <3>1. job'[q] = job[q]
        BY <1>3, <2>1 DEF Step, StartSweep, _scan_active_loans, Look, ScanDone, Judge, Execute,
          ensure_liquidatable, Seized, Refused, Raise, Restart, NextLoan, NextChain, GoTo, TypeOK
      <3> QED BY <1>1, <3>1
    <2>2. CASE p = q
      <3>0. ASSUME NextLoan(q) PROVE FALSE
        <4>1. job'[q].stage = "look"
          BY <3>0 DEF NextLoan, IdleJob, TypeOK
        <4> QED BY <4>1 DEF HandedOver
      <3>5. ASSUME NextChain(q) PROVE FALSE
        <4>1. job'[q].stage \in {"idle", "scan"}
          BY <3>5 DEF NextChain, IdleJob, TypeOK
        <4> QED BY <4>1 DEF HandedOver
      <3>1. ~NextLoan(q) /\ ~NextChain(q)
        BY <3>0, <3>5
      <3>2. CASE Judge(q)
        <4>1. /\ grace_expired(q, Loan(q)) \/ (job[q].ltv >= LIQUIDATION_LTV_BPS /\ job[q].flag)
              /\ job' = [job EXCEPT ![q].stage = "execute",
                                    ![q].force = grace_expired(q, Loan(q))]
          BY <3>1, <3>2 DEF Judge
        <4> QED BY <3>2, <4>1 DEF TypeOK, Sweep
      <3>3. CASE Execute(q) \/ ensure_liquidatable(q) \/ Seized(q) \/ Refused(q)
        <4>1. job[q].stage \in HandedOver /\ (GoTo(q, "crash") \/ GoTo(q, "seize"))
          BY <3>1, <3>3 DEF Execute, ensure_liquidatable, Seized, Refused, At, HandedOver
        <4> QED BY <4>1 DEF GoTo, TypeOK, Sweep
      <3>4. ~StartSweep(q) /\ ~_scan_active_loans(q) /\ ~Look(q) /\ ~ScanDone(q)
            /\ ~Raise(q) /\ ~Restart(q)
        <4>1. StartSweep(q) => job'[q].stage = "scan"
          BY DEF StartSweep, IdleJob, TypeOK
        <4>3. _scan_active_loans(q) => job'[q].stage = "look"
          BY DEF _scan_active_loans, TypeOK, Sweep
        <4>4. Look(q) => job'[q].stage = "judge"
          BY DEF Look, TypeOK, Sweep
        <4>5. Restart(q) => job'[q].stage = "idle"
          BY DEF Restart, IdleJob, TypeOK
        <4>2. ~StartSweep(q) /\ ~_scan_active_loans(q) /\ ~Look(q) /\ ~Restart(q)
          BY <4>1, <4>3, <4>4, <4>5 DEF HandedOver
        <4> QED BY <3>1, <4>2 DEF ScanDone, Raise
      <3> QED BY <1>3, <2>2, <3>2, <3>3, <3>4 DEF Step
    <2> QED BY <2>1, <2>2
  <1>4. Claim
    BY <1>2, <1>3 DEF Next
  <1>5. Loan(q)' = Loan(q)
    BY <1>4 DEF Loan
  <1> QED BY <1>4, <1>5

LEMMA ForcedKept ==
  TypeOK /\ TypeOK' /\ ClockInv /\ Grown /\ [Next]_vars => NumbersForcedAfterGrace'
  <1> SUFFICES ASSUME TypeOK, TypeOK', ClockInv, Grown, [Next]_vars,
                      NEW q \in Schedulers, job'[q].force
               PROVE  OverdueFor(Loan(q), GracePeriod)'
    BY DEF NumbersForcedAfterGrace
  <1>6. q \in Processes
    BY DEF Schedulers
  <1>1. job'[q].stage \in HandedOver
    BY <1>6 DEF TypeOK, SweepOK, Handling, HandedOver
  <1>2. OverdueFor(Loan(q), GracePeriod)
    <2>1. CASE job[q].stage \in HandedOver /\ job'[q].force = job[q].force
      BY <2>1 DEF ClockInv, NumbersForcedAfterGrace
    <2>2. CASE job'[q].force = grace_expired(q, Loan(q))
      <3>1. Loan(q) \in DOMAIN grace[q] /\ grace[q][Loan(q)] >= GracePeriod
        BY <2>2 DEF grace_expired
      <3>2. grace[q][Loan(q)] = GracePeriod
        BY <1>6, <3>1, BoundsNat DEF TypeOK, IsMemory
      <3> QED BY <3>1, <3>2 DEF ClockInv, Clocked
    <2> QED BY <1>1, <1>6, <2>1, <2>2, HandedOverBefore
  <1>3. PICK id : id = Loan(q)
    OBVIOUS
  <1>4. OverdueFor(id, GracePeriod)'
    BY <1>2, <1>3, StillOverdue, BoundsNat
  <1>5. Loan(q)' = id
    BY SMTT(60), <1>1, <1>3, <1>6, HandedOverBefore
  <1> QED BY <1>4, <1>5 DEF OverdueFor

LEMMA WarnedGrows == [Next]_vars => warned \subseteq warned'
  BY DEF Next, Requests, start_covenant_grace, force_expire_grace, Environment, Borrow, repayLoan, PriceMoves, Tick, Step, StartSweep,
         _scan_active_loans, Look, ScanDone, Judge, Execute, ensure_liquidatable, Seized, Refused,
         Raise, Restart, vars

LEMMA WarningsKept ==
  TypeOK /\ ClockInv /\ [Next]_vars => WarningsEmitted'
  <1> SUFFICES ASSUME TypeOK, ClockInv, [Next]_vars,
                      NEW q \in Processes, NEW id \in DOMAIN warnings'[q]
               PROVE  WarnedOf(id)'
    BY DEF WarningsEmitted
  <1>1. CASE id \in DOMAIN warnings[q]
    BY <1>1, WarnedGrows DEF ClockInv, WarningsEmitted, WarnedOf
  <1>2. CASE \E p \in Processes : Judge(p)
    <2>1. PICK p \in Processes : Judge(p)
      BY <1>2
    <2>2. job[p].stage = "judge" /\ ~At(p, "idle")
      BY <2>1 DEF Judge, At
    <2>3. Chain(p) \in Markets
      BY <2>2, ChainSwept
    <2>4. \/ UNCHANGED warnings
          \/ /\ record_warning(p, Loan(p), job[p].ltv)
             /\ warned' = warned \cup {<<Chain(p), Loan(p)>>}
      BY <2>1 DEF Judge
    <2>5. id \notin DOMAIN warnings[q] =>
            id = Loan(p) /\ <<Chain(p), Loan(p)>> \in warned'
      <3>1. CASE UNCHANGED warnings
        BY <3>1
      <3>2. CASE /\ record_warning(p, Loan(p), job[p].ltv)
                 /\ warned' = warned \cup {<<Chain(p), Loan(p)>>}
        <4>1. DOMAIN warnings'[q] \subseteq DOMAIN warnings[q] \cup {Loan(p)}
          BY <3>2 DEF record_warning, Put, TypeOK
        <4> QED BY <3>2, <4>1
      <3> QED BY <2>4, <3>1, <3>2
    <2> QED BY <1>1, <2>3, <2>5 DEF WarnedOf
  <1>3. CASE ~(\E p \in Processes : Judge(p))
    <2>1. \/ UNCHANGED warnings
          \/ Tick
          \/ \E p \in Processes : warnings' = [warnings EXCEPT ![p] = Empty]
      <3>1. CASE Environment \/ UNCHANGED vars
        BY <3>1 DEF Environment, Borrow, repayLoan, PriceMoves, agentVars, vars
      <3>2. ASSUME NEW p \in Processes, Step(p) PROVE UNCHANGED warnings
        BY <1>3, <3>2 DEF Step, StartSweep, _scan_active_loans, Look, ScanDone, Execute,
                          ensure_liquidatable, Seized, Refused
      <3>3. ASSUME NEW p \in Processes, Raise(p) \/ Restart(p)
            PROVE  UNCHANGED warnings \/ warnings' = [warnings EXCEPT ![p] = Empty]
        BY <3>3 DEF Raise, Restart
      <3>4. ASSUME Requests PROVE UNCHANGED warnings
        BY <3>4 DEF Requests, start_covenant_grace, force_expire_grace
      <3> QED BY <3>1, <3>2, <3>3, <3>4 DEF Next
    <2>2. id \in DOMAIN warnings[q]
      BY <2>1 DEF Tick, Empty, TypeOK
    <2> QED BY <1>1, <2>2
  <1> QED BY <1>2, <1>3

LEMMA WarnedKept ==
  TypeOK /\ ClockInv /\ [Next]_vars => HandedOverWarned'
  <1> SUFFICES ASSUME TypeOK, ClockInv, [Next]_vars, NEW q \in Processes,
                      job'[q].stage \in HandedOver, ~job'[q].force
               PROVE  WarnedOf(Loan(q))'
    BY DEF HandedOverWarned
  <1>1. \E m \in Markets : <<m, Loan(q)>> \in warned'
    <2>1. CASE job[q].stage \in HandedOver /\ job'[q].force = job[q].force
      BY <2>1, WarnedGrows DEF ClockInv, HandedOverWarned, WarnedOf
    <2>2. CASE /\ Judge(q) /\ job'[q].force = grace_expired(q, Loan(q))
               /\ (grace_expired(q, Loan(q))
                   \/ (job[q].ltv >= LIQUIDATION_LTV_BPS /\ job[q].flag))
      <3>1. job[q].ltv >= HEALTH_LTV_BPS /\ job[q].stage = "judge"
        BY <2>2 DEF LIQUIDATION_LTV_BPS, HEALTH_LTV_BPS, TypeOK, Sweep, Judge, At
      <3>2. CASE should_emit_warning(q, Loan(q), job[q].ltv)
        <4>1. <<Chain(q), Loan(q)>> \in warned'
          BY <2>2, <3>1, <3>2 DEF Judge
        <4> QED BY <3>1, <4>1, ChainSwept DEF At
      <3>3. CASE ~should_emit_warning(q, Loan(q), job[q].ltv)
        <4>1. Loan(q) \in DOMAIN warnings[q]
          BY <3>3 DEF should_emit_warning
        <4> QED BY <4>1, WarnedGrows DEF ClockInv, WarningsEmitted, WarnedOf
      <3> QED BY <3>2, <3>3
    <2> QED BY <2>1, <2>2, HandedOverBefore
  <1>2. Loan(q)' = Loan(q)
    BY HandedOverBefore
  <1> QED BY <1>1, <1>2 DEF WarnedOf

LEMMA ClockInvInit == Init => ClockInv
  BY DEF Init, Schedulers, ClockInv, Clocked, NumbersForcedAfterGrace, WarningsEmitted, HandedOverWarned, Empty, IdleJob,
         HandedOver

LEMMA ClockInvKept == TypeOK /\ ClockInv /\ [Next]_vars => ClockInv'
  BY NextTyped, ClockedKept, ForcedKept, WarningsKept, WarnedKept DEF ClockInv

LEMMA ClocksSound == Spec => []ClockInv
  <1>1. TypeOK /\ ClockInv /\ [Next]_vars => ClockInv'
    BY ClockInvKept
  <1> QED BY TypeCorrect, ClockInvInit, <1>1, PTL DEF Spec

(* A scheduler hands a loan over by force only when a loan of its number,  *)
(* on one of the chains monitored, has been overdue for the whole grace    *)
(* period, in whatever order sweeps, restarts and repayments came, and     *)
(* whichever clocks the test routes wrote in the memory of the ML API:     *)
(* what the clocks of state.py, which know no chains, do guarantee.        *)
THEOREM ForceFollowsGrace == Spec => []NumbersForcedAfterGrace
  <1>1. ClockInv => NumbersForcedAfterGrace
    BY DEF ClockInv
  <1> QED BY ClocksSound, <1>1, PTL

(* A loan is liquidated for its price only after a health warning to a     *)
(* loan of its number: the de-duplication of state.py never swallows the   *)
(* only one, and a restart forgets no warning that a liquidation rests on. *)
THEOREM PriceFollowsWarning == Spec => []NumbersWarnedFirst
  <1>1. ClockInv => NumbersWarnedFirst
    BY DEF ClockInv, HandedOverWarned, NumbersWarnedFirst, HandedOver, At
  <1> QED BY ClocksSound, <1>1, PTL

(* Where one chain is monitored, the loan that a scheduler hands over by   *)
(* force has itself been overdue for the whole grace period.               *)
THEOREM SingleChainForcedAfterGrace ==
  Markets = {Hub} => (Spec => []ForcedAfterGrace)
  <1> SUFFICES ASSUME Markets = {Hub} PROVE Spec => []ForcedAfterGrace
    OBVIOUS
  <1>1. TypeOK /\ ClockInv => ForcedAfterGrace
    <2> SUFFICES ASSUME TypeOK, ClockInv, NEW p \in Schedulers, job[p].force
                 PROVE  loans[Chain(p)][Loan(p)].age > Term + GracePeriod
      BY DEF ForcedAfterGrace
    <2>3. p \in Processes
      BY DEF Schedulers
    <2>1. ~At(p, "idle")
      BY <2>3 DEF TypeOK, SweepOK, Handling, At
    <2>2. Chain(p) = Hub
      BY <2>1, <2>3, ChainSwept
    <2> QED BY <2>2 DEF ClockInv, NumbersForcedAfterGrace, OverdueFor
  <1> QED BY TypeCorrect, ClocksSound, <1>1, PTL

(* ... and no loan is liquidated for its price without its own warning.    *)
THEOREM SingleChainWarnedFirst ==
  Markets = {Hub} => (Spec => []WarnedFirst)
  <1> SUFFICES ASSUME Markets = {Hub} PROVE Spec => []WarnedFirst
    OBVIOUS
  <1>1. TypeOK /\ ClockInv => WarnedFirst
    <2> SUFFICES ASSUME TypeOK, ClockInv, NEW p \in Processes, At(p, "seize"), ~job[p].force
                 PROVE  <<Chain(p), Loan(p)>> \in warned
      BY DEF WarnedFirst
    <2>1. ~At(p, "idle") /\ job[p].stage \in HandedOver
      BY DEF At, HandedOver
    <2>2. Chain(p) = Hub
      BY <2>1, ChainSwept
    <2> QED BY <2>1, <2>2 DEF ClockInv, HandedOverWarned, WarnedOf
  <1> QED BY TypeCorrect, ClocksSound, <1>1, PTL
=============================================================================
