--------------------------- MODULE ContractProofs ---------------------------
(***************************************************************************)
(* Facts about the arithmetic of CreditMath, for every input, and about    *)
(* the sums the properties of the pool and of the market are stated with;  *)
(* what each function of the profile contract and of the pool does to its  *)
(* types and to the properties of its records.  The modules that compose   *)
(* the contracts cite these lemmas.                                        *)
(***************************************************************************)
EXTENDS CredScoreSBT, CredFlowLP, CreditMath, FiniteSetTheorems, WellFoundedInduction, TLAPS

(* Integer division stays within the natural numbers and rounds down.      *)
LEMMA DivNat ==
  ASSUME NEW n \in Nat, NEW d \in Nat \ {0}
  PROVE  /\ n \div d \in Nat
         /\ (n \div d) * d <= n
  OBVIOUS

(* A quotient is at most any bound whose product reaches the dividend.     *)
LEMMA DivAtMost ==
  ASSUME NEW n \in Nat, NEW d \in Nat \ {0}, NEW t \in Nat, n <= d * t
  PROVE  n \div d <= t
  <1> DEFINE q == n \div d
  <1>1. q \in Nat /\ q * d <= n
    BY DivNat
  <1>2. SUFFICES ASSUME q >= t + 1 PROVE FALSE
    BY <1>1
  <1>3. q * d >= (t + 1) * d
    BY <1>1, <1>2
  <1>4. (t + 1) * d = d * t + d
    OBVIOUS
  <1> QED BY <1>1, <1>3, <1>4

(* Dividing a multiple is exact.                                           *)
LEMMA DivExact ==
  ASSUME NEW a \in Nat, NEW d \in Nat \ {0}
  PROVE  (a * d) \div d = a
  <1> DEFINE q == (a * d) \div d
  <1>1. a * d \in Nat
    OBVIOUS
  <1>2. q \in Nat /\ (a * d) < (q + 1) * d
    BY <1>1
  <1>3. q <= a
    BY <1>1, DivAtMost
  <1>4. ~(q + 1 <= a)
    BY <1>1, <1>2
  <1> QED BY <1>2, <1>3, <1>4

(* The score formula stays in the range mintSBT accepts, for every         *)
(* probability and balance (CredScoreEngine.computeCredScore).             *)
THEOREM ScoreInRange ==
  ASSUME NEW p \in Nat, NEW c \in Nat
  PROVE  computeCredScore(p, c) \in MinScore .. MaxScore
  <1>1. balanceCapacityFactorBps(c) \in Nat
    BY DEF balanceCapacityFactorBps
  <1> DEFINE x == (p * balanceCapacityFactorBps(c)) \div 10000
             y == AdjustedProbBps(p, c)
             z == ((10000 - y) * 550) \div 10000
  <1>2. x \in Nat
    <2>1. p * balanceCapacityFactorBps(c) \in Nat
      BY <1>1
    <2> QED BY <2>1, DivNat, 10000 \in Nat \ {0}
  <1>3. y = Lesser(x, 10000)
    BY DEF AdjustedProbBps, Bps
  <1> HIDE DEF x, y
  <1>4. y \in 0 .. 10000
    BY <1>2, <1>3 DEF Lesser
  <1>5. z \in Nat
    <2>1. (10000 - y) * 550 \in Nat
      BY <1>4
    <2> QED BY <2>1, DivNat, 10000 \in Nat \ {0}
  <1>6. computeCredScore(p, c) = Greater(300, Lesser(850, 300 + z))
    BY DEF computeCredScore, MinScore, MaxScore, Bps, y
  <1> HIDE DEF z
  <1> QED BY <1>5, <1>6 DEF Greater, Lesser, MinScore, MaxScore

-----------------------------------------------------------------------------
(* The score tiers as numbers.                                             *)
LEMMA TierValues ==
  /\ scoreTiers[1] = 500 /\ scoreTiers[2] = 580 /\ scoreTiers[3] = 620
  /\ scoreTiers[4] = 680 /\ scoreTiers[5] = 720 /\ scoreTiers[6] = 750
  /\ ltvTiers[1] = 4000 /\ ltvTiers[2] = 5000 /\ ltvTiers[3] = 6000
  /\ ltvTiers[4] = 6500 /\ ltvTiers[5] = 7500 /\ ltvTiers[6] = 8500
  /\ ratePremiums[1] = 700 /\ ratePremiums[2] = 500 /\ ratePremiums[3] = 400
  /\ ratePremiums[4] = 300 /\ ratePremiums[5] = 200 /\ ratePremiums[6] = 100
  BY DEF scoreTiers, ltvTiers, ratePremiums

(* From the lowest tier on, the loops' search for a tier succeeds.         *)
LEMMA TopTierExists ==
  ASSUME NEW score \in Nat, score >= 500
  PROVE  \E i \in Tiers : IsTopTier(i, score)
  <1> USE TierValues DEF Tiers
  <1>1. CASE score >= 750
    <2> WITNESS 6 \in Tiers
    <2> QED BY <1>1 DEF IsTopTier
  <1>2. CASE score \in 720 .. 749
    <2> WITNESS 5 \in Tiers
    <2> QED BY <1>2 DEF IsTopTier
  <1>3. CASE score \in 680 .. 719
    <2> WITNESS 4 \in Tiers
    <2> QED BY <1>3 DEF IsTopTier
  <1>4. CASE score \in 620 .. 679
    <2> WITNESS 3 \in Tiers
    <2> QED BY <1>4 DEF IsTopTier
  <1>5. CASE score \in 580 .. 619
    <2> WITNESS 2 \in Tiers
    <2> QED BY <1>5 DEF IsTopTier
  <1>6. CASE score \in 500 .. 579
    <2> WITNESS 1 \in Tiers
    <2> QED BY <1>6 DEF IsTopTier
  <1> QED BY <1>1, <1>2, <1>3, <1>4, <1>5, <1>6

(* A score is admitted exactly from 500 on, and then gets one of the six   *)
(* loan-to-value limits (getLTVForScore of both lending contracts).        *)
THEOREM LTVOfScore ==
  ASSUME NEW score \in Nat
  PROVE  /\ getLTVForScore(score) \in {0, 4000, 5000, 6000, 6500, 7500, 8500}
         /\ getLTVForScore(score) > 0 <=> score >= 500
         /\ score < 750 => getLTVForScore(score) <= 7500
  <1>1. CASE score < 500
    BY <1>1, TierValues DEF getLTVForScore
  <1>2. CASE score >= 500
    <2> DEFINE i == CHOOSE j \in Tiers : IsTopTier(j, score)
    <2>1. i \in Tiers /\ IsTopTier(i, score)
      BY <1>2, TopTierExists
    <2>3. getLTVForScore(score) = ltvTiers[i]
      BY <1>2, TierValues DEF getLTVForScore
    <2> HIDE DEF i
    <2>2. score < 750 => i # 6
      <3>1. score >= scoreTiers[i]
        BY <2>1 DEF IsTopTier
      <3> QED BY <3>1, TierValues
    <2>4. i \in {1, 2, 3, 4, 5, 6}
      BY <2>1 DEF Tiers
    <2> QED BY <1>2, <2>2, <2>3, <2>4, TierValues
  <1> QED BY <1>1, <1>2

(* The rate of a loan is the base rate plus a premium of 1 to 10 %.        *)
THEOREM RateOfScore ==
  ASSUME NEW score \in Nat, NEW base \in Nat
  PROVE  getRateForScore(score, base) \in (base + 100) .. (base + 1000)
  <1>1. CASE score < 500
    BY <1>1, TierValues DEF getRateForScore
  <1>2. CASE score >= 500
    <2> DEFINE i == CHOOSE j \in Tiers : IsTopTier(j, score)
    <2>1. i \in Tiers /\ IsTopTier(i, score)
      BY <1>2, TopTierExists
    <2>2. getRateForScore(score, base) = base + ratePremiums[i]
      BY <1>2, TierValues DEF getRateForScore
    <2> HIDE DEF i
    <2>3. i \in {1, 2, 3, 4, 5, 6}
      BY <2>1 DEF Tiers
    <2> QED BY <2>2, <2>3, TierValues
  <1> QED BY <1>1, <1>2

-----------------------------------------------------------------------------
(* Interest is a natural number.                                           *)
LEMMA InterestNat ==
  ASSUME NEW principal \in Nat, NEW rate \in Nat, NEW elapsed \in Nat, NEW year \in Nat \ {0}
  PROVE  calculateInterest(principal, rate, elapsed, year) \in Nat
  <1>1. principal * rate \in Nat
    OBVIOUS
  <1>2. (principal * rate) * elapsed \in Nat
    BY <1>1
  <1>3. 10000 * year \in Nat \ {0}
    OBVIOUS
  <1> QED BY <1>2, <1>3, DivNat DEF calculateInterest, Bps

(* What requestLoan admits is within the tier's loan-to-value when the     *)
(* loan is measured again by getCurrentLTV: both roundings err to the safe *)
(* side.                                                                   *)
THEOREM OpeningWithinTier ==
  ASSUME NEW amount \in Nat, NEW value \in Nat \ {0}, NEW tier \in Nat,
         amount <= MaxBorrow(value, tier)
  PROVE  LTV(amount, value) <= tier
  <1>1. value * tier \in Nat
    OBVIOUS
  <1>2. ((value * tier) \div 10000) * 10000 <= value * tier /\ (value * tier) \div 10000 \in Nat
    BY <1>1, DivNat, 10000 \in Nat \ {0}
  <1>3. amount * 10000 <= value * tier
    BY <1>1, <1>2 DEF MaxBorrow, Bps
  <1>4. amount * 10000 \in Nat
    OBVIOUS
  <1> QED BY <1>3, <1>4, DivAtMost DEF LTV, Bps

-----------------------------------------------------------------------------
(* Sums.  A sum is a fold, a recursive function on the subsets of a set:   *)
(* that the function exists, and that two solutions of its equation agree, *)
(* is shown by induction on the number of elements, and the induction by   *)
(* taking the least number that fails.                                     *)

(* Induction on the natural numbers, for a set of numbers.                 *)
LEMMA AllNumbers ==
  ASSUME NEW T \in SUBSET Nat, 0 \in T, \A n \in T : n + 1 \in T
  PROVE  T = Nat
  <1> DEFINE R == OpToRel(<, Nat)
             Missing == Nat \ T
  <1>1. IsWellFoundedOn(R, Nat)
    BY NatLessThanWellFounded
  <1>2. \A x, y \in Nat : x < y => <<x, y>> \in R
    BY DEF OpToRel
  <1> HIDE DEF R
  <1>3. SUFFICES ASSUME Missing # {} PROVE FALSE
    OBVIOUS
  <1>4. \E x \in Missing : \A y \in Missing : <<y, x>> \notin R
    BY <1>1, <1>3, WFMin
  <1>5. PICK x \in Missing : \A y \in Missing : <<y, x>> \notin R
    BY <1>4
  <1>6. x \in Nat /\ x # 0
    OBVIOUS
  <1>8. x - 1 \in Nat /\ x - 1 < x
    BY <1>6
  <1>7. x - 1 \notin T
    <2>1. x - 1 \in T => (x - 1) + 1 \in T
      OBVIOUS
    <2>2. (x - 1) + 1 = x
      BY <1>6
    <2> QED BY <2>1, <2>2
  <1>9. <<x - 1, x>> \in R
    BY <1>2, <1>6, <1>8
  <1> QED BY <1>5, <1>7, <1>8, <1>9

(* The recursion of a fold over the subsets of S.                          *)
Summed(f, g, s) ==
  IF s = {} THEN 0
  ELSE LET x == CHOOSE y \in s : TRUE IN f[x] + g[s \ {x}]

Chosen(s) == CHOOSE y \in s : TRUE

LEMMA ChosenLess ==
  ASSUME NEW S, IsFiniteSet(S), S # {}
  PROVE  /\ Chosen(S) \in S
         /\ S \ {Chosen(S)} \in SUBSET S
         /\ IsFiniteSet(S \ {Chosen(S)})
         /\ Cardinality(S) \in Nat
         /\ Cardinality(S \ {Chosen(S)}) = Cardinality(S) - 1
         /\ Cardinality(S) >= 1
  <1>1. Chosen(S) \in S
    BY DEF Chosen
  <1>2. /\ IsFiniteSet(S \ {Chosen(S)})
        /\ Cardinality(S \ {Chosen(S)}) = Cardinality(S) - 1
    BY <1>1, FS_RemoveElement
  <1>3. Cardinality(S) \in Nat /\ Cardinality(S \ {Chosen(S)}) \in Nat
    BY <1>2, FS_CardinalityType
  <1> QED BY <1>1, <1>2, <1>3

LEMMA SummedStep ==
  ASSUME NEW f, NEW g, NEW s
  PROVE  /\ s = {} => Summed(f, g, s) = 0
         /\ s # {} => Summed(f, g, s) = f[Chosen(s)] + g[s \ {Chosen(s)}]
  BY DEF Summed, Chosen

LEMMA SumsExist ==
  ASSUME NEW f, NEW S, IsFiniteSet(S)
  PROVE  \E g : g = [s \in SUBSET S |-> Summed(f, g, s)]
  <1> DEFINE Upto(n) == \E g : /\ g = [s \in SUBSET S |-> g[s]]
                               /\ \A s \in SUBSET S : Cardinality(s) <= n => g[s] = Summed(f, g, s)
             T == {n \in Nat : Upto(n)}
  <1>1. \A s \in SUBSET S : IsFiniteSet(s) /\ Cardinality(s) \in Nat
    BY FS_Subset, FS_CardinalityType
  <1>2. 0 \in T
    <2> DEFINE g == [s \in SUBSET S |-> 0]
    <2>1. \A s \in SUBSET S : Cardinality(s) <= 0 => s = {}
      BY <1>1, FS_EmptySet
    <2>2. \A s \in SUBSET S : Cardinality(s) <= 0 => g[s] = Summed(f, g, s)
      BY <2>1, SummedStep
    <2>3. g = [s \in SUBSET S |-> g[s]]
      OBVIOUS
    <2> HIDE DEF g
    <2> QED BY <2>2, <2>3
  <1>3. ASSUME NEW n \in T PROVE n + 1 \in T
    <2>1. PICK g : /\ g = [s \in SUBSET S |-> g[s]]
                   /\ \A s \in SUBSET S : Cardinality(s) <= n => g[s] = Summed(f, g, s)
      BY <1>3
    <2> DEFINE h == [s \in SUBSET S |-> Summed(f, g, s)]
    <2>2. \A s \in SUBSET S : h[s] = Summed(f, g, s)
      OBVIOUS
    <2>3. h = [s \in SUBSET S |-> h[s]]
      OBVIOUS
    <2> HIDE DEF h
    <2>4. \A s \in SUBSET S : Cardinality(s) <= n => h[s] = g[s]
      BY <2>1, <2>2
    <2>5. ASSUME NEW s \in SUBSET S, Cardinality(s) <= n + 1
          PROVE  h[s] = Summed(f, h, s)
      <3>1. CASE s = {}
        <4>1. Summed(f, g, s) = 0 /\ Summed(f, h, s) = 0
          BY <3>1, SummedStep, Zenon
        <4> QED BY <2>2, <4>1
      <3>2. CASE s # {}
        <4> DEFINE r == s \ {Chosen(s)}
        <4>1. r \in SUBSET S /\ Cardinality(r) <= n
          BY <1>1, <2>5, <3>2, ChosenLess
        <4>2. h[r] = g[r]
          BY <2>4, <4>1
        <4>3. /\ Summed(f, g, s) = f[Chosen(s)] + g[r]
              /\ Summed(f, h, s) = f[Chosen(s)] + h[r]
          BY <3>2 DEF Summed, Chosen
        <4> QED BY <2>2, <4>2, <4>3
      <3> QED BY <3>1, <3>2
    <2>6. Upto(n + 1)
      BY <2>3, <2>5
    <2>7. n + 1 \in Nat
      OBVIOUS
    <2> QED BY <2>6, <2>7
  <1> HIDE DEF Upto
  <1>4. T = Nat
    BY <1>2, <1>3, AllNumbers
  <1>5. Upto(Cardinality(S))
    BY <1>1, <1>4
  <1>6. PICK g : /\ g = [s \in SUBSET S |-> g[s]]
                 /\ \A s \in SUBSET S : Cardinality(s) <= Cardinality(S) => g[s] = Summed(f, g, s)
    BY <1>5 DEF Upto
  <1>7. \A s \in SUBSET S : Cardinality(s) <= Cardinality(S)
    BY FS_Subset
  <1>8. g = [s \in SUBSET S |-> Summed(f, g, s)]
    BY <1>6, <1>7
  <1> QED BY <1>8

(* Two solutions of the recursion agree where both are defined.            *)
LEMMA SumsAgree ==
  ASSUME NEW f, NEW S, IsFiniteSet(S), NEW g, NEW h,
         \A s \in SUBSET S : g[s] = Summed(f, g, s) /\ h[s] = Summed(f, h, s)
  PROVE  g[S] = h[S]
  <1> DEFINE Agree(n) == \A s \in SUBSET S : Cardinality(s) <= n => g[s] = h[s]
             T == {n \in Nat : Agree(n)}
  <1>1. \A s \in SUBSET S : IsFiniteSet(s) /\ Cardinality(s) \in Nat
    BY FS_Subset, FS_CardinalityType
  <1>2. 0 \in T
    <2>1. \A s \in SUBSET S : Cardinality(s) <= 0 => s = {}
      BY <1>1, FS_EmptySet
    <2>2. Summed(f, g, {}) = 0 /\ Summed(f, h, {}) = 0
      BY SummedStep, Zenon
    <2>3. Agree(0)
      BY <2>1, <2>2
    <2> QED BY <2>3
  <1>3. ASSUME NEW n \in T PROVE n + 1 \in T
    <2>1. ASSUME NEW s \in SUBSET S, Cardinality(s) <= n + 1
          PROVE  g[s] = h[s]
      <3>1. CASE s = {}
        <4>1. Summed(f, g, s) = 0 /\ Summed(f, h, s) = 0
          BY <3>1, SummedStep, Zenon
        <4> QED BY <4>1
      <3>2. CASE s # {}
        <4> DEFINE r == s \ {Chosen(s)}
        <4>1. r \in SUBSET S /\ Cardinality(r) <= n
          BY <1>1, <2>1, <3>2, ChosenLess
        <4>2. g[r] = h[r]
          BY <1>3, <4>1
        <4>3. /\ Summed(f, g, s) = f[Chosen(s)] + g[r]
              /\ Summed(f, h, s) = f[Chosen(s)] + h[r]
          BY <3>2 DEF Summed, Chosen
        <4> QED BY <4>2, <4>3
      <3> QED BY <3>1, <3>2
    <2>2. n + 1 \in Nat
      OBVIOUS
    <2> QED BY <2>1, <2>2
  <1>4. T = Nat
    BY <1>2, <1>3, AllNumbers
  <1>5. Agree(Cardinality(S))
    BY <1>1, <1>4
  <1> QED BY <1>1, <1>5

LEMMA SumRecursion ==
  ASSUME NEW f, NEW S, IsFiniteSet(S)
  PROVE  LET g == CHOOSE g : g = [s \in SUBSET S |-> Summed(f, g, s)] IN
         /\ SumFunctionOnSet(f, S) = g[S]
         /\ \A s \in SUBSET S : g[s] = Summed(f, g, s)
  <1> DEFINE g == CHOOSE g : g = [s \in SUBSET S |-> Summed(f, g, s)]
  <1>1. g = [s \in SUBSET S |-> Summed(f, g, s)]
    BY SumsExist
  <1>2. SumFunctionOnSet(f, S) = g[S]
    BY DEF SumFunctionOnSet, FoldFunctionOnSet, MapThenFoldSet, Summed
  <1> HIDE DEF g
  <1>3. \A s \in SUBSET S : g[s] = Summed(f, g, s)
    BY <1>1
  <1> QED BY <1>2, <1>3 DEF g

(* The two defining equations of a sum.                                    *)
LEMMA SumOfChosen ==
  ASSUME NEW f, NEW S, IsFiniteSet(S)
  PROVE  /\ S = {} => SumFunctionOnSet(f, S) = 0
         /\ S # {} => SumFunctionOnSet(f, S) =
              f[Chosen(S)] + SumFunctionOnSet(f, S \ {Chosen(S)})
  <1> DEFINE G(U) == CHOOSE g : g = [s \in SUBSET U |-> Summed(f, g, s)]
  <1>1. \A U : IsFiniteSet(U) => /\ SumFunctionOnSet(f, U) = G(U)[U]
                                 /\ \A s \in SUBSET U : G(U)[s] = Summed(f, G(U), s)
    BY SumRecursion
  <1> HIDE DEF G
  <1>2. SumFunctionOnSet(f, S) = Summed(f, G(S), S)
    BY <1>1
  <1>3. ASSUME S # {}
        PROVE  SumFunctionOnSet(f, S \ {Chosen(S)}) = G(S)[S \ {Chosen(S)}]
    <2> DEFINE r == S \ {Chosen(S)}
    <2>1. IsFiniteSet(r) /\ SUBSET r \subseteq SUBSET S
      BY <1>3, ChosenLess
    <2>2. G(r)[r] = G(S)[r]
      <3> HIDE DEF r
      <3>1. \A s \in SUBSET r : /\ G(r)[s] = Summed(f, G(r), s)
                                /\ G(S)[s] = Summed(f, G(S), s)
        BY <1>1, <2>1
      <3> QED BY <2>1, <3>1, SumsAgree
    <2> QED BY <1>1, <2>1, <2>2
  <1> QED BY <1>2, <1>3, SummedStep

(* A sum does not depend on the order: any term can be taken out.          *)
LEMMA SumTakeOut ==
  ASSUME NEW D, IsFiniteSet(D), NEW f, \A x \in D : f[x] \in Nat,
         NEW S \in SUBSET D, NEW x \in S
  PROVE  /\ SumFunctionOnSet(f, S \ {x}) \in Nat
         /\ SumFunctionOnSet(f, S) = f[x] + SumFunctionOnSet(f, S \ {x})
  <1> DEFINE Sum(U) == SumFunctionOnSet(f, U)
             Good(U) == /\ Sum(U) \in Nat
                        /\ \A y \in U : Sum(U) = f[y] + Sum(U \ {y})
             T == {n \in Nat : \A U \in SUBSET D : Cardinality(U) <= n => Good(U)}
  <1>1. \A U \in SUBSET D : IsFiniteSet(U) /\ Cardinality(U) \in Nat
    BY FS_Subset, FS_CardinalityType
  <1>2. Sum({}) = 0
    BY SumOfChosen, FS_EmptySet
  <1>3. \A U \in SUBSET D : U # {} => Sum(U) = f[Chosen(U)] + Sum(U \ {Chosen(U)})
    BY <1>1, SumOfChosen
  <1> HIDE DEF Sum
  <1>4. 0 \in T
    <2>1. \A U \in SUBSET D : Cardinality(U) <= 0 => U = {}
      BY <1>1, FS_EmptySet
    <2>2. Good({})
      BY <1>2
    <2> QED BY <2>1, <2>2
  <1>5. ASSUME NEW n \in T PROVE n + 1 \in T
    <2>1. \A U \in SUBSET D : Cardinality(U) <= n => Good(U)
      BY <1>5
    <2>2. ASSUME NEW U \in SUBSET D, Cardinality(U) <= n + 1, U # {}
          PROVE  Good(U)
      <3> DEFINE c == Chosen(U)
      <3>1. /\ c \in U /\ c \in D /\ f[c] \in Nat
            /\ IsFiniteSet(U) /\ Cardinality(U) \in Nat
        BY <1>1, <2>2, ChosenLess
      <3>2. \A y \in U : U \ {y} \in SUBSET D /\ Cardinality(U \ {y}) <= n
        BY <1>1, <2>2, FS_RemoveElement
      <3>3. \A y \in U : Good(U \ {y})
        BY <2>1, <3>2
      <3>4. Sum(U) = f[c] + Sum(U \ {c})
        BY <1>3, <2>2
      <3> HIDE DEF c
      <3>5. Sum(U) \in Nat
        BY <3>1, <3>3, <3>4
      <3>6. ASSUME NEW y \in U, y # c
            PROVE  Sum(U) = f[y] + Sum(U \ {y})
        <4>1. (U \ {c}) \ {y} = (U \ {y}) \ {c}
          OBVIOUS
        <4>2. Sum(U \ {c}) = f[y] + Sum((U \ {c}) \ {y})
          BY <3>1, <3>3, <3>6
        <4>3. Sum(U \ {y}) = f[c] + Sum((U \ {y}) \ {c})
          BY <3>1, <3>3, <3>6
        <4>4. f[y] \in Nat /\ f[c] \in Nat /\ Sum((U \ {y}) \ {c}) \in Nat
          <5>1. (U \ {y}) \ {c} \in SUBSET D /\ Cardinality((U \ {y}) \ {c}) <= n
            <6>1. IsFiniteSet(U \ {y}) /\ Cardinality(U \ {y}) \in Nat
              BY <1>1, <3>2
            <6>2. c \in U \ {y} /\ Cardinality((U \ {y}) \ {c}) = Cardinality(U \ {y}) - 1
              BY <3>1, <3>6, <6>1, FS_RemoveElement
            <6> QED BY <3>2, <6>1, <6>2
          <5> QED BY <2>1, <3>1, <5>1
        <4> QED BY <3>4, <4>1, <4>2, <4>3, <4>4
      <3> QED BY <3>4, <3>5, <3>6
    <2>3. \A U \in SUBSET D : Cardinality(U) <= n + 1 => Good(U)
      BY <1>2, <2>2
    <2>4. n + 1 \in Nat
      OBVIOUS
    <2> QED BY <2>3, <2>4
  <1>6. T = Nat
    BY <1>4, <1>5, AllNumbers
  <1>7. Good(S)
    BY <1>1, <1>6
  <1>8. Good(S \ {x})
    BY <1>1, <1>6
  <1> QED BY <1>7, <1>8 DEF Sum

LEMMA SumEmpty ==
  ASSUME NEW f
  PROVE  SumFunctionOnSet(f, {}) = 0
  BY SumOfChosen, FS_EmptySet

LEMMA SumNat ==
  ASSUME NEW D, IsFiniteSet(D), NEW f, \A x \in D : f[x] \in Nat, NEW S \in SUBSET D
  PROVE  /\ SumFunctionOnSet(f, S) \in Nat
         /\ \A x \in S : f[x] <= SumFunctionOnSet(f, S)
  <1>1. CASE S = {}
    BY <1>1, SumEmpty
  <1>2. CASE S # {}
    <2>1. ASSUME NEW y \in S
          PROVE  SumFunctionOnSet(f, S) \in Nat /\ f[y] <= SumFunctionOnSet(f, S)
      <3>1. /\ SumFunctionOnSet(f, S \ {y}) \in Nat
            /\ SumFunctionOnSet(f, S) = f[y] + SumFunctionOnSet(f, S \ {y})
        BY SumTakeOut
      <3>2. f[y] \in Nat
        OBVIOUS
      <3> QED BY <3>1, <3>2
    <2> QED BY <1>2, <2>1
  <1> QED BY <1>1, <1>2

(* Only the terms that are summed count.                                   *)
LEMMA SumSame ==
  ASSUME NEW S, IsFiniteSet(S), NEW f, NEW g, \A x \in S : f[x] = g[x]
  PROVE  SumFunctionOnSet(f, S) = SumFunctionOnSet(g, S)
  <1> DEFINE SumF(U) == SumFunctionOnSet(f, U)
             SumG(U) == SumFunctionOnSet(g, U)
             T == {n \in Nat : \A U \in SUBSET S : Cardinality(U) <= n => SumF(U) = SumG(U)}
  <1>1. \A U \in SUBSET S : IsFiniteSet(U) /\ Cardinality(U) \in Nat
    BY FS_Subset, FS_CardinalityType
  <1>2. SumF({}) = 0 /\ SumG({}) = 0
    BY SumEmpty
  <1>3. \A U \in SUBSET S : U # {} =>
          /\ SumF(U) = f[Chosen(U)] + SumF(U \ {Chosen(U)})
          /\ SumG(U) = g[Chosen(U)] + SumG(U \ {Chosen(U)})
    BY <1>1, SumOfChosen
  <1> HIDE DEF SumF, SumG
  <1>4. 0 \in T
    <2>1. \A U \in SUBSET S : Cardinality(U) <= 0 => U = {}
      BY <1>1, FS_EmptySet
    <2> QED BY <1>2, <2>1
  <1>5. ASSUME NEW n \in T PROVE n + 1 \in T
    <2>1. ASSUME NEW U \in SUBSET S, Cardinality(U) <= n + 1, U # {}
          PROVE  SumF(U) = SumG(U)
      <3> DEFINE c == Chosen(U)
      <3>1. c \in S /\ U \ {c} \in SUBSET S /\ Cardinality(U \ {c}) <= n
        BY <1>1, <2>1, ChosenLess
      <3>2. SumF(U \ {c}) = SumG(U \ {c}) /\ f[c] = g[c]
        BY <1>5, <3>1
      <3> QED BY <1>3, <2>1, <3>2
    <2>2. \A U \in SUBSET S : Cardinality(U) <= n + 1 => SumF(U) = SumG(U)
      BY <1>2, <2>1
    <2>3. n + 1 \in Nat
      OBVIOUS
    <2> QED BY <2>2, <2>3
  <1>6. T = Nat
    BY <1>4, <1>5, AllNumbers
  <1> QED BY <1>1, <1>6 DEF SumF, SumG

(* One term of a sum changes.                                              *)
LEMMA SumMoves ==
  ASSUME NEW S, IsFiniteSet(S), NEW f, NEW g, NEW x \in S,
         \A y \in S : f[y] \in Nat, \A y \in S \ {x} : g[y] = f[y], g[x] \in Nat
  PROVE  SumFunctionOnSet(g, S) = SumFunctionOnSet(f, S) - f[x] + g[x]
  <1>1. \A y \in S : g[y] \in Nat
    OBVIOUS
  <1>2. /\ SumFunctionOnSet(f, S \ {x}) \in Nat
        /\ SumFunctionOnSet(f, S) = f[x] + SumFunctionOnSet(f, S \ {x})
        /\ SumFunctionOnSet(g, S) = g[x] + SumFunctionOnSet(g, S \ {x})
    BY <1>1, SumTakeOut
  <1>3. IsFiniteSet(S \ {x})
    BY FS_RemoveElement
  <1>4. SumFunctionOnSet(g, S \ {x}) = SumFunctionOnSet(f, S \ {x})
    BY <1>3, SumSame
  <1> QED BY <1>2, <1>4

(* A sum of zeros.                                                         *)
LEMMA SumZero ==
  ASSUME NEW S, IsFiniteSet(S), NEW f, \A x \in S : f[x] = 0
  PROVE  SumFunctionOnSet(f, S) = 0
  <1> DEFINE T == {n \in Nat : \A U \in SUBSET S : Cardinality(U) <= n => SumFunctionOnSet(f, U) = 0}
  <1>1. \A U \in SUBSET S : IsFiniteSet(U) /\ Cardinality(U) \in Nat
    BY FS_Subset, FS_CardinalityType
  <1>2. 0 \in T
    <2>1. \A U \in SUBSET S : Cardinality(U) <= 0 => U = {}
      BY <1>1, FS_EmptySet
    <2> QED BY <2>1, SumEmpty
  <1>3. ASSUME NEW n \in T PROVE n + 1 \in T
    <2>1. ASSUME NEW U \in SUBSET S, Cardinality(U) <= n + 1, U # {}
          PROVE  SumFunctionOnSet(f, U) = 0
      <3>1. PICK x \in U : TRUE
        BY <2>1
      <3>2. U \ {x} \in SUBSET S /\ Cardinality(U \ {x}) <= n
        BY <1>1, <2>1, FS_RemoveElement
      <3>3. SumFunctionOnSet(f, U) = f[x] + SumFunctionOnSet(f, U \ {x})
        BY SumTakeOut
      <3>4. SumFunctionOnSet(f, U \ {x}) = 0
        BY <1>3, <3>2
      <3> QED BY <3>3, <3>4
    <2>2. n + 1 \in Nat
      OBVIOUS
    <2> QED BY <2>1, <2>2, SumEmpty
  <1>4. T = Nat
    BY <1>2, <1>3, AllNumbers
  <1> QED BY <1>1, <1>4

(* A term joins a sum.                                                     *)
LEMMA SumGains ==
  ASSUME NEW S, IsFiniteSet(S), NEW f, NEW g, NEW x, x \notin S,
         \A y \in S : f[y] \in Nat, \A y \in S : g[y] = f[y], g[x] \in Nat
  PROVE  /\ SumFunctionOnSet(f, S) \in Nat
         /\ SumFunctionOnSet(g, S \cup {x}) = SumFunctionOnSet(f, S) + g[x]
  <1> DEFINE U == S \cup {x}
  <1>1. IsFiniteSet(U) /\ x \in U /\ U \ {x} = S
    BY FS_AddElement
  <1>2. \A y \in U : g[y] \in Nat
    OBVIOUS
  <1>3. SumFunctionOnSet(f, S) \in Nat
    BY SumNat
  <1>4. SumFunctionOnSet(g, S) = SumFunctionOnSet(f, S)
    BY SumSame
  <1>5. SumFunctionOnSet(g, U) = g[x] + SumFunctionOnSet(g, S)
    <2> HIDE DEF U
    <2>1. SumFunctionOnSet(g, U) = g[x] + SumFunctionOnSet(g, U \ {x})
      BY <1>1, <1>2, SumTakeOut
    <2> QED BY <1>1, <2>1
  <1> QED BY <1>3, <1>4, <1>5

-----------------------------------------------------------------------------
(* The profile contract (CredScoreSBT).                                    *)

LEMMA SBTInitType == SBTInit => SBTTypeOK
  BY SBTAssumption DEF SBTInit, SBTTypeOK, Profile, ZeroProfile

(* Updates of one profile record.                                          *)
LEMMA FreshRecord ==
  ASSUME NEW s \in Nat
  PROVE  /\ FreshProfile(s) \in Profile
         /\ FreshProfile(s).defaultCount = 0
         /\ FreshProfile(s).exists
  BY SBTAssumption DEF Profile, FreshProfile

LEMMA FlagRecord ==
  ASSUME NEW p \in Profile, NEW b \in BOOLEAN, NEW st \in 0 .. 3
  PROVE  LET n == [p EXCEPT !.loanActive = b, !.loanStatus = st] IN
         /\ n \in Profile
         /\ n.defaultCount = p.defaultCount
         /\ n.exists <=> p.exists
  BY DEF Profile

LEMMA LoanRecord ==
  ASSUME NEW p \in Profile, NEW b \in BOOLEAN, NEW st \in 0 .. 3, NEW t \in 0 .. MaxUint8
  PROVE  LET n == [p EXCEPT !.loanActive = b, !.loanStatus = st, !.totalLoans = t] IN
         /\ n \in Profile
         /\ n.defaultCount = p.defaultCount
         /\ n.exists <=> p.exists
  BY DEF Profile

LEMMA DefaultRecord ==
  ASSUME NEW p \in Profile, NEW b \in BOOLEAN, NEW st \in 0 .. 3, NEW d \in 0 .. MaxUint8
  PROVE  [p EXCEPT !.loanActive = b, !.loanStatus = st, !.defaultCount = d] \in Profile
  BY DEF Profile

LEMMA PardonRecord ==
  ASSUME NEW p \in Profile, NEW d \in 0 .. MaxUint8, NEW st \in 0 .. 3
  PROVE  LET n == [p EXCEPT !.defaultCount = d, !.loanStatus = st] IN
         /\ n \in Profile
         /\ n.defaultCount = d
         /\ n.exists <=> p.exists
  BY DEF Profile

LEMMA StatusRange == 1 \in 0 .. 3 /\ 2 \in 0 .. 3 /\ 3 \in 0 .. 3 /\ 0 \in 0 .. MaxUint8
  BY SBTAssumption

\* A repayment mints nothing and leaves the other profiles alone.
LEMMA RepaidOnly ==
  ASSUME SBTTypeOK, NEW w \in Wallets, setLoanRepaid(w)
  PROVE  /\ \A v \in Wallets : profiles'[v].exists = profiles[v].exists
         /\ \A v \in Wallets : v # w => profiles'[v] = profiles[v]
  <1>1. PICK p : p = [profiles[w] EXCEPT !.loanActive = FALSE, !.loanStatus = 2]
    OBVIOUS
  <1>2. profiles' = [profiles EXCEPT ![w] = p]
    BY <1>1 DEF setLoanRepaid
  <1>3. profiles[w] \in Profile /\ DOMAIN profiles = Wallets
    BY DEF SBTTypeOK
  <1>4. p.exists = profiles[w].exists
    BY <1>1, <1>3 DEF Profile
  <1> QED BY <1>2, <1>3, <1>4

-----------------------------------------------------------------------------
(* The default record of wallet v is the same after the step.              *)
SameRecord(v) ==
  /\ profiles'[v].defaultCount = profiles[v].defaultCount
  /\ profiles'[v].exists <=> profiles[v].exists

LEMMA MintStep ==
  ASSUME SBTTypeOK, NEW w \in Wallets, NEW s \in Nat, mintSBT(w, s)
  PROVE  /\ SBTTypeOK'
         /\ ~profiles[w].exists
         /\ profiles'[w].exists /\ profiles'[w].defaultCount = 0
         /\ \A v \in Wallets \ {w} : SameRecord(v)
  <1> DEFINE new == FreshProfile(s)
  <1>1. profiles' = [profiles EXCEPT ![w] = new] /\ UNCHANGED blacklisted
    BY DEF mintSBT
  <1>2. new \in Profile /\ new.defaultCount = 0 /\ new.exists
    BY FreshRecord
  <1>3. ~profiles[w].exists
    BY DEF mintSBT
  <1> HIDE DEF new
  <1> QED BY <1>1, <1>2, <1>3 DEF SBTTypeOK, SameRecord

LEMMA UpdateScoreStep ==
  ASSUME SBTTypeOK, NEW w \in Wallets, NEW s \in Nat, updateScore(w, s)
  PROVE  SBTTypeOK' /\ \A v \in Wallets : SameRecord(v)
  <1> DEFINE new == [profiles[w] EXCEPT !.score = s]
  <1>1. profiles' = [profiles EXCEPT ![w] = new] /\ UNCHANGED blacklisted
    BY DEF updateScore
  <1>2. /\ new \in Profile
        /\ new.defaultCount = profiles[w].defaultCount
        /\ new.exists <=> profiles[w].exists
    BY DEF SBTTypeOK, Profile
  <1> HIDE DEF new
  <1> QED BY <1>1, <1>2 DEF SBTTypeOK, SameRecord

LEMMA SetLoanActiveStep ==
  ASSUME SBTTypeOK, NEW w \in Wallets, setLoanActive(w)
  PROVE  SBTTypeOK' /\ \A v \in Wallets : SameRecord(v)
  <1> DEFINE t   == profiles[w].totalLoans + 1
             new == [profiles[w] EXCEPT !.loanActive = TRUE, !.loanStatus = 1, !.totalLoans = t]
  <1>1. profiles' = [profiles EXCEPT ![w] = new] /\ UNCHANGED blacklisted
    BY DEF setLoanActive
  <1>2. profiles[w] \in Profile /\ t \in 0 .. MaxUint8
    BY SBTAssumption DEF SBTTypeOK, Profile, setLoanActive
  <1> HIDE DEF t
  <1>3. /\ new \in Profile
        /\ new.defaultCount = profiles[w].defaultCount
        /\ new.exists <=> profiles[w].exists
    BY <1>2, LoanRecord, StatusRange
  <1> HIDE DEF new
  <1> QED BY <1>1, <1>3 DEF SBTTypeOK, SameRecord

LEMMA SetLoanRepaidStep ==
  ASSUME SBTTypeOK, NEW w \in Wallets, setLoanRepaid(w)
  PROVE  SBTTypeOK' /\ \A v \in Wallets : SameRecord(v)
  <1> DEFINE new == [profiles[w] EXCEPT !.loanActive = FALSE, !.loanStatus = 2]
  <1>1. profiles' = [profiles EXCEPT ![w] = new] /\ UNCHANGED blacklisted
    BY DEF setLoanRepaid
  <1>2. profiles[w] \in Profile
    BY DEF SBTTypeOK
  <1>3. /\ new \in Profile
        /\ new.defaultCount = profiles[w].defaultCount
        /\ new.exists <=> profiles[w].exists
    BY <1>2, FlagRecord, StatusRange
  <1> HIDE DEF new
  <1> QED BY <1>1, <1>3 DEF SBTTypeOK, SameRecord

LEMMA RecordDefaultStep ==
  ASSUME SBTTypeOK, NEW w \in Wallets, recordDefault(w)
  PROVE  /\ SBTTypeOK'
         /\ profiles'[w].defaultCount = profiles[w].defaultCount + 1
         /\ profiles'[w].exists <=> profiles[w].exists
         /\ \A v \in Wallets \ {w} : SameRecord(v)
  <1> DEFINE d   == profiles[w].defaultCount + 1
             new == [profiles[w] EXCEPT !.loanActive = FALSE, !.loanStatus = 3, !.defaultCount = d]
  <1>1. profiles' = [profiles EXCEPT ![w] = new] /\ UNCHANGED blacklisted
    BY DEF recordDefault
  <1>2. profiles[w] \in Profile /\ d \in 0 .. MaxUint8
    BY SBTAssumption DEF SBTTypeOK, Profile, recordDefault
  <1> HIDE DEF d
  <1>3. new \in Profile /\ new.defaultCount = d /\ (new.exists <=> profiles[w].exists)
    <2>1. new.defaultCount = d /\ (new.exists <=> profiles[w].exists)
      BY <1>2 DEF Profile
    <2>2. new \in Profile
      BY <1>2, DefaultRecord, StatusRange
    <2> QED BY <2>1, <2>2
  <1> HIDE DEF new
  <1>4. SBTTypeOK'
    BY <1>1, <1>3 DEF SBTTypeOK
  <1>5. profiles'[w] = new /\ \A v \in Wallets \ {w} : profiles'[v] = profiles[v]
    BY <1>1 DEF SBTTypeOK
  <1>6. profiles'[w].defaultCount = d
    BY <1>3, <1>5
  <1> QED BY <1>3, <1>4, <1>5, <1>6 DEF SameRecord, d

LEMMA BlacklistStep ==
  ASSUME SBTTypeOK, NEW ws, blacklistLinkedWallets(ws)
  PROVE  SBTTypeOK' /\ \A v \in Wallets : SameRecord(v)
  <1>1. blacklisted' \in [Wallets -> BOOLEAN] /\ UNCHANGED profiles
    BY Zenon DEF blacklistLinkedWallets
  <1> QED BY <1>1 DEF SBTTypeOK, SameRecord

LEMMA RemoveFromBlacklistStep ==
  ASSUME SBTTypeOK, NEW w \in Wallets, removeFromBlacklist(w)
  PROVE  SBTTypeOK' /\ \A v \in Wallets : SameRecord(v)
  BY DEF SBTTypeOK, SameRecord, removeFromBlacklist

LEMMA WhitelistStep ==
  ASSUME SBTTypeOK, NEW w \in Wallets, whitelistWallet(w)
  PROVE  /\ SBTTypeOK'
         /\ profiles[w].exists
         /\ profiles'[w].defaultCount = 0
         /\ profiles'[w].exists <=> profiles[w].exists
         /\ \A v \in Wallets \ {w} : SameRecord(v)
  <1> DEFINE old == profiles[w].loanStatus
             st  == IF profiles[w].defaultCount > 0 /\ old = 3 THEN 2 ELSE old
             new == [profiles[w] EXCEPT !.defaultCount = 0, !.loanStatus = st]
  <1>1. profiles' = [profiles EXCEPT ![w] = new] /\ blacklisted' = [blacklisted EXCEPT ![w] = FALSE]
    BY DEF whitelistWallet
  <1>2. profiles[w] \in Profile /\ old \in 0 .. 3
    BY DEF SBTTypeOK, Profile
  <1>3. st \in 0 .. 3
    BY <1>2, StatusRange
  <1> HIDE DEF st
  <1>4. new \in Profile /\ new.defaultCount = 0 /\ (new.exists <=> profiles[w].exists)
    BY ZenonT(60), <1>2, <1>3, PardonRecord, StatusRange
  <1> HIDE DEF new
  <1>5. profiles[w].exists
    BY DEF whitelistWallet
  <1>6. SBTTypeOK'
    BY <1>1, <1>4 DEF SBTTypeOK
  <1>7. profiles'[w] = new /\ \A v \in Wallets \ {w} : profiles'[v] = profiles[v]
    BY <1>1 DEF SBTTypeOK
  <1> QED BY <1>4, <1>5, <1>6, <1>7 DEF SameRecord

-----------------------------------------------------------------------------
(* The pool (CredFlowLP).                                                  *)

(* Shares and deposits have the right types and stay at par.  With par the *)
(* availability check of withdraw also keeps it from burning more shares   *)
(* than exist, so no bound on each lender's holding is needed.             *)
LPInv == LPTypeOK /\ RedeemAtPar

LEMMA LPInitInv == LPInit => LPInv
  BY DEF LPInit, LPInv, LPTypeOK, RedeemAtPar

(* A deposit mints one share for each token.                               *)
LEMMA MintsAtPar ==
  ASSUME LPInv, NEW amount \in Nat
  PROVE  LPToMint(amount) = amount
  <1>1. CASE totalSupply = 0
    BY <1>1 DEF LPToMint
  <1>2. CASE totalSupply # 0
    <2>1. totalSupply \in Nat \ {0} /\ totalDeposited = totalSupply
      BY <1>2 DEF LPInv, LPTypeOK, RedeemAtPar
    <2>2. (amount * totalSupply) \div totalSupply = amount
      BY <2>1, DivExact
    <2> QED BY <1>2, <2>1, <2>2 DEF LPToMint
  <1> QED BY <1>1, <1>2

(* A withdrawal redeems one token for each share.                          *)
LEMMA RedeemsAtPar ==
  ASSUME LPInv, NEW lp \in Nat, totalSupply > 0
  PROVE  TokenAmount(lp) = lp
  <1>1. totalSupply \in Nat \ {0} /\ totalDeposited = totalSupply
    BY DEF LPInv, LPTypeOK, RedeemAtPar
  <1>2. (lp * totalSupply) \div totalSupply = lp
    BY <1>1, DivExact
  <1> QED BY <1>1, <1>2 DEF TokenAmount

LEMMA DepositInv ==
  ASSUME LPInv, NEW l \in Lenders, NEW amount \in Deposits, deposit(l, amount)
  PROVE  LPInv'
  <1>1. amount \in Nat
    BY LPAssumption
  <1>2. LPToMint(amount) = amount
    BY <1>1, MintsAtPar
  <1> QED BY <1>1, <1>2 DEF LPInv, LPTypeOK, RedeemAtPar, deposit

LEMMA WithdrawInv ==
  ASSUME LPInv, NEW l \in Lenders, NEW lp \in 0 .. shares[l], withdraw(l, lp)
  PROVE  LPInv'
  <1>1. shares[l] \in Nat /\ lp \in Nat /\ lp <= shares[l]
    BY DEF LPInv, LPTypeOK
  <1>2. TokenAmount(lp) = lp
    BY <1>1, RedeemsAtPar DEF withdraw
  <1>3. lp <= totalSupply
    BY <1>2 DEF LPInv, RedeemAtPar, withdraw
  <1> QED BY <1>1, <1>2, <1>3 DEF LPInv, LPTypeOK, RedeemAtPar, withdraw

LEMMA LenderStepInv == LPInv /\ LenderStep => LPInv'
  BY DepositInv, WithdrawInv DEF LenderStep

LEMMA RecordBorrowInv ==
  ASSUME LPInv, NEW amount \in Nat, recordBorrow(amount),
         UNCHANGED <<shares, totalSupply, totalDeposited, poolBalance>>
  PROVE  LPInv'
  BY DEF LPInv, LPTypeOK, RedeemAtPar, recordBorrow

LEMMA RecordRepaymentInv ==
  ASSUME LPInv, NEW amount \in Nat, recordRepayment(amount),
         UNCHANGED <<shares, totalSupply, totalDeposited, poolBalance>>
  PROVE  LPInv'
  BY DEF LPInv, LPTypeOK, RedeemAtPar, recordRepayment

LEMMA LPStutterInv == LPInv /\ UNCHANGED lpVars => LPInv'
  BY DEF LPInv, LPTypeOK, RedeemAtPar, lpVars

(* The utilization the optimizer reads is a natural number.                *)
LEMMA UtilizationNat == LPInv => utilizationRate \in Nat
  <1> SUFFICES ASSUME LPInv, totalDeposited # 0
               PROVE  (totalBorrowed * 10000) \div totalDeposited \in Nat
    BY DEF utilizationRate
  <1>1. totalBorrowed * 10000 \in Nat /\ totalDeposited \in Nat \ {0}
    BY DEF LPInv, LPTypeOK
  <1> QED BY <1>1, DivNat

(* The lenders' shares add up to the shares that exist.                    *)
SharesAddUp == SumFunction(shares) = totalSupply

LEMMA SharesInit == LPInit => SharesAddUp
  <1> SUFFICES ASSUME LPInit PROVE SharesAddUp
    OBVIOUS
  <1>1. DOMAIN shares = Lenders /\ \A l \in Lenders : shares[l] = 0
    BY DEF LPInit
  <1>2. SumFunctionOnSet(shares, Lenders) = 0
    BY <1>1, SumZero, LPAssumption
  <1> QED BY <1>1, <1>2 DEF SharesAddUp, SumFunction, LPInit

(* A lender's shares change by what is minted or burned.                   *)
LEMMA SharesMove ==
  ASSUME LPInv, SharesAddUp, NEW l \in Lenders, NEW n \in Nat,
         shares' = [shares EXCEPT ![l] = n],
         totalSupply' = totalSupply - shares[l] + n
  PROVE  SharesAddUp'
  <1>1. shares \in [Lenders -> Nat] /\ IsFiniteSet(Lenders)
    BY LPAssumption DEF LPInv, LPTypeOK
  <1>2. /\ DOMAIN shares = Lenders /\ DOMAIN shares' = Lenders
        /\ \A m \in Lenders : shares[m] \in Nat
        /\ \A m \in Lenders \ {l} : shares'[m] = shares[m]
        /\ shares'[l] = n /\ shares'[l] \in Nat
    BY <1>1
  <1>3. SumFunctionOnSet(shares', Lenders) =
          SumFunctionOnSet(shares, Lenders) - shares[l] + shares'[l]
    <2>1. PICK f, g : f = shares /\ g = shares'
      OBVIOUS
    <2>2. /\ \A m \in Lenders : f[m] \in Nat
          /\ \A m \in Lenders \ {l} : g[m] = f[m]
          /\ g[l] \in Nat
      BY <1>2, <2>1
    <2>3. SumFunctionOnSet(g, Lenders) = SumFunctionOnSet(f, Lenders) - f[l] + g[l]
      BY SMTT(60), <1>1, <2>2, SumMoves
    <2> QED BY <2>1, <2>3
  <1>4. SumFunctionOnSet(shares, Lenders) = totalSupply
    BY <1>2 DEF SharesAddUp, SumFunction
  <1>5. SumFunctionOnSet(shares', Lenders) = totalSupply'
    BY <1>2, <1>3, <1>4
  <1> QED BY <1>2, <1>5 DEF SharesAddUp, SumFunction

LEMMA LenderStepShares ==
  ASSUME LPInv, SharesAddUp, LenderStep
  PROVE  SharesAddUp'
  <1>1. \A l \in Lenders : shares[l] \in Nat
    BY DEF LPInv, LPTypeOK
  <1>2. totalSupply \in Nat
    BY DEF LPInv, LPTypeOK
  <1>3. ASSUME NEW l \in Lenders, NEW amount \in Deposits, deposit(l, amount)
        PROVE  SharesAddUp'
    <2>1. amount \in Nat
      BY LPAssumption
    <2>2. LPToMint(amount) = amount
      BY <2>1, MintsAtPar
    <2> DEFINE n == shares[l] + amount
    <2>3. /\ shares' = [shares EXCEPT ![l] = n] /\ n \in Nat
          /\ totalSupply' = totalSupply - shares[l] + n
      BY <1>1, <1>2, <1>3, <2>1, <2>2 DEF deposit
    <2> HIDE DEF n
    <2> QED BY <2>3, SharesMove
  <1>4. ASSUME NEW l \in Lenders, NEW lp \in 0 .. shares[l], withdraw(l, lp)
        PROVE  SharesAddUp'
    <2> DEFINE n == shares[l] - lp
    <2>1. /\ shares' = [shares EXCEPT ![l] = n] /\ n \in Nat
          /\ totalSupply' = totalSupply - shares[l] + n
      BY <1>1, <1>2, <1>4 DEF withdraw
    <2> HIDE DEF n
    <2> QED BY <2>1, SharesMove
  <1> QED BY <1>3, <1>4 DEF LenderStep

(* Each lender's shares are among those that exist, and the pool holds a   *)
(* token for every one of them.                                            *)
LEMMA SharesHeld ==
  ASSUME LPInv, SharesAddUp, NEW l \in Lenders
  PROVE  shares[l] <= poolBalance
  <1>1. DOMAIN shares = Lenders /\ \A m \in Lenders : shares[m] \in Nat
    BY DEF LPInv, LPTypeOK
  <1>2. shares[l] <= SumFunctionOnSet(shares, Lenders)
    BY <1>1, SumNat, LPAssumption
  <1> QED BY <1>1, <1>2 DEF SharesAddUp, SumFunction, LPInv, RedeemAtPar
=============================================================================
