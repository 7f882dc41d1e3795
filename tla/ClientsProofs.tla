---------------------------- MODULE ClientsProofs ---------------------------
(***************************************************************************)
(* Theorems about the tabs of the web application, for any wallets,        *)
(* chains, amounts and prices and any number of clicks, calls and events   *)
(* outside the page.  Each tab has an invariant of its own, which the      *)
(* steps of the other tabs leave alone.                                    *)
(***************************************************************************)
EXTENDS Clients, FiniteSetTheorems, SequenceTheorems, WellFoundedInduction, TLAPS

-----------------------------------------------------------------------------
(* The collateral of a quote.                                              *)

\* The score tiers as numbers, and the tier of a score.
LEMMA TierValues ==
  /\ scoreTiers[1] = 500 /\ scoreTiers[2] = 580 /\ scoreTiers[3] = 620
  /\ scoreTiers[4] = 680 /\ scoreTiers[5] = 720 /\ scoreTiers[6] = 750
  /\ ltvTiers[1] = 4000 /\ ltvTiers[2] = 5000 /\ ltvTiers[3] = 6000
  /\ ltvTiers[4] = 6500 /\ ltvTiers[5] = 7500 /\ ltvTiers[6] = 8500
  BY DEF scoreTiers, ltvTiers

LEMMA LTVOfScore ==
  ASSUME NEW score \in Nat, score >= 500
  PROVE  getLTVForScore(score) \in {4000, 5000, 6000, 6500, 7500, 8500}
  <1> DEFINE i == CHOOSE j \in Tiers : IsTopTier(j, score)
  <1>1. \E j \in Tiers : IsTopTier(j, score)
    <2>1. \/ score >= 750 /\ IsTopTier(6, score)
          \/ score \in 720 .. 749 /\ IsTopTier(5, score)
          \/ score \in 680 .. 719 /\ IsTopTier(4, score)
          \/ score \in 620 .. 679 /\ IsTopTier(3, score)
          \/ score \in 580 .. 619 /\ IsTopTier(2, score)
          \/ score \in 500 .. 579 /\ IsTopTier(1, score)
      BY TierValues DEF IsTopTier, Tiers
    <2> QED BY <2>1 DEF Tiers
  <1>2. i \in {1, 2, 3, 4, 5, 6}
    BY <1>1 DEF Tiers
  <1>3. getLTVForScore(score) = ltvTiers[i]
    BY TierValues DEF getLTVForScore
  <1> HIDE DEF i
  <1> QED BY <1>2, <1>3, TierValues

LEMMA Times ==
  ASSUME NEW a \in Int, NEW b \in Int, a <= b, NEW c \in Nat
  PROVE  a * c <= b * c
  OBVIOUS

LEMMA DivAbove ==
  ASSUME NEW n \in Nat, NEW d \in Nat \ {0}
  PROVE  n \div d \in Nat /\ n < (n \div d + 1) * d
  OBVIOUS

\* A quotient is at least any bound whose product the dividend reaches.
LEMMA DivAtLeast ==
  ASSUME NEW n \in Nat, NEW d \in Nat \ {0}, NEW t \in Nat, t * d <= n
  PROVE  n \div d >= t
  <1> DEFINE q == n \div d
  <1>1. q \in Nat /\ n < (q + 1) * d
    OBVIOUS
  <1>2. SUFFICES ASSUME q + 1 <= t PROVE FALSE
    BY <1>1
  <1>3. (q + 1) * d <= t * d
    BY <1>1, <1>2, Times
  <1> QED BY <1>1, <1>3

\* A quote of `wei` for `usd` at price q, to be covered at price p.
Quote(usd, one, q, p, wei, bare, drift) ==
  /\ usd \in Nat /\ one \in Nat \ {0} /\ q \in 1 .. one /\ p \in 1 .. one
  /\ wei \in Nat /\ bare \in Nat /\ drift \in Nat /\ drift <= 10000
  /\ bare * q >= usd * one
  /\ wei * 10000 >= bare * 10100 - 10000
  /\ p * 10000 >= q * (10000 - drift)
  /\ usd * (10100 * (10000 - drift) - 100000000) >= 200000000

LEMMA Buffered ==
  ASSUME NEW sum, NEW unit, NEW then, NEW now, NEW posted, NEW least, NEW fallen,
         Quote(sum, unit, then, now, posted, least, fallen)
  PROVE  (sum + 1) * unit <= posted * now
  <1>0. SUFFICES
          ASSUME NEW usd \in Nat, NEW one \in Nat \ {0}, NEW q \in 1 .. one, NEW p \in 1 .. one,
                 NEW wei \in Nat, NEW bare \in Nat, NEW drift \in Nat,
                 bare * q >= usd * one,
                 wei * 10000 >= bare * 10100 - 10000,
                 p * 10000 >= q * (10000 - drift), drift <= 10000,
                 usd * (10100 * (10000 - drift) - 100000000) >= 200000000
          PROVE  (usd + 1) * one <= wei * p
    BY DEF Quote
  <1> USE <1>0
  <1> DEFINE left == 10000 - drift
             fall == q * left
             head == 10100 * left - 100000000
  <1>1. left \in Nat /\ left <= 10000 /\ fall \in Nat /\ head \in Int
    OBVIOUS
  <1>2. fall * (wei * 10000) <= (p * 10000) * (wei * 10000)
    <2>1. fall <= p * 10000 /\ wei * 10000 \in Nat /\ p * 10000 \in Int /\ fall \in Int
      BY <1>1
    <2>2. PICK r \in Int : r = p * 10000
      BY <2>1
    <2>3. PICK w \in Nat : w = wei * 10000
      BY <2>1
    <2>4. fall * w <= r * w
      BY <2>1, <2>2, <2>3, Times
    <2> QED BY <2>2, <2>3, <2>4
  <1>3. (bare * 10100 - 10000) * fall <= (wei * 10000) * fall
    <2>1. PICK w \in Int : w = wei * 10000
      OBVIOUS
    <2>2. PICK y \in Int : y = bare * 10100 - 10000
      OBVIOUS
    <2>3. y * fall <= w * fall
      BY <1>1, <2>1, <2>2, Times
    <2> QED BY <2>1, <2>2, <2>3
  <1>4. (bare * 10100 - 10000) * fall = left * (10100 * (bare * q)) - left * (10000 * q)
    BY <1>1
  <1>5. left * (10100 * (usd * one)) <= left * (10100 * (bare * q))
    <2>1. PICK y \in Int : y = 10100 * (usd * one)
      OBVIOUS
    <2>2. PICK z \in Int : z = 10100 * (bare * q)
      OBVIOUS
    <2>3. y <= z
      <3>1. PICK u \in Int : u = usd * one
        OBVIOUS
      <3>2. PICK v \in Int : v = bare * q
        OBVIOUS
      <3> QED BY <3>1, <3>2, <2>1, <2>2
    <2>4. y * left <= z * left
      BY <1>1, <2>1, <2>2, <2>3, Times
    <2> QED BY <1>1, <2>1, <2>2, <2>4
  <1>6. left * (10000 * q) <= 100000000 * one
    <2>1. left * q <= 10000 * q
      BY <1>1, Times
    <2> QED BY <1>1, <2>1
  <1>7. left * (10100 * (usd * one)) = (usd * one) * head + 100000000 * (usd * one)
    BY <1>1
  <1>8. 200000000 * one <= (usd * one) * head
    <2>1. PICK y \in Int : y = usd * head
      BY <1>1
    <2>2. 200000000 <= y
      BY <2>1
    <2>3. 200000000 * one <= y * one
      BY <2>1, <2>2, Times
    <2> QED BY <1>1, <2>1, <2>3
  <1>9. (usd + 1) * one = usd * one + one
    OBVIOUS
  <1>10. (p * 10000) * (wei * 10000) = 100000000 * (wei * p)
    OBVIOUS
  <1>11. (wei * 10000) * fall = fall * (wei * 10000)
    BY <1>1
  <1> HIDE DEF left, fall, head
  <1>12. PICK a \in Int : a = usd * one
    OBVIOUS
  <1>13. PICK b \in Int : b = wei * p
    OBVIOUS
  <1>14. PICK c \in Int : c = left * (10000 * q)
    BY <1>1
  <1>15. PICK d \in Int : d = (usd * one) * head
    BY <1>1
  <1>16. PICK e \in Int : e = left * (10100 * (bare * q))
    BY <1>1
  <1>17. PICK f \in Int : f = fall * (wei * 10000)
    BY <1>1
  <1>18. /\ e - c <= f /\ f <= 100000000 * b
    BY <1>2, <1>3, <1>4, <1>10, <1>11, <1>13, <1>14, <1>16, <1>17
  <1>19. /\ d + 100000000 * a <= e /\ c <= 100000000 * one /\ 200000000 * one <= d
    BY <1>5, <1>6, <1>7, <1>8, <1>12, <1>14, <1>15, <1>16
  <1>20. a + one <= b
    BY <1>18, <1>19
  <1> QED BY <1>9, <1>12, <1>13, <1>20

\* The steps of collateralForBorrow.
UsdWorth(borrow, ltv) == (borrow * 10000) \div ltv
BareWei(usd, one, rate) == (usd * one + rate - 1) \div rate
PostedWei(bare) == Greater(1, (bare * 10100) \div 10000)

LEMMA UsdWorthOK ==
  ASSUME NEW borrow \in Nat, NEW ltv \in Nat \ {0}, ltv <= 10000
  PROVE  /\ UsdWorth(borrow, ltv) \in Nat
         /\ borrow * 10000 < (UsdWorth(borrow, ltv) + 1) * ltv
         /\ UsdWorth(borrow, ltv) >= borrow
  <1> DEFINE usd == UsdWorth(borrow, ltv)
  <1>1. borrow * 10000 \in Nat
    OBVIOUS
  <1>2. usd \in Nat /\ borrow * 10000 < (usd + 1) * ltv
    BY <1>1 DEF UsdWorth
  <1>3. PICK u \in Nat : u = usd + 1
    BY <1>2
  <1>4. ltv * u <= 10000 * u
    BY <1>3, Times
  <1>5. borrow * 10000 < u * 10000
    BY <1>2, <1>3, <1>4
  <1> QED BY <1>2, <1>3, <1>5

LEMMA BareWeiOK ==
  ASSUME NEW usd \in Nat, NEW one \in Nat \ {0}, NEW rate \in Nat \ {0}
  PROVE  /\ BareWei(usd, one, rate) \in Nat
         /\ BareWei(usd, one, rate) * rate >= usd * one
  <1> DEFINE bare == BareWei(usd, one, rate)
  <1>1. PICK n \in Nat : n = usd * one
    OBVIOUS
  <1>2. n + rate - 1 \in Nat
    BY <1>1
  <1>3. bare \in Nat /\ n + rate - 1 < (bare + 1) * rate
    BY <1>1, <1>2 DEF BareWei
  <1>4. (bare + 1) * rate = bare * rate + rate
    BY <1>3
  <1> QED BY <1>1, <1>2, <1>3, <1>4

LEMMA PostedWeiOK ==
  ASSUME NEW bare \in Nat
  PROVE  PostedWei(bare) \in Nat /\ PostedWei(bare) * 10000 >= bare * 10100 - 10000
  <1>1. PICK n \in Nat : n = (bare * 10100) \div 10000 /\ bare * 10100 < (n + 1) * 10000
    OBVIOUS
  <1> QED BY <1>1 DEF Greater, PostedWei

HeadRoom(borrow, one, quoted, now, drift) ==
  /\ borrow \in Nat /\ one \in Nat \ {0} /\ quoted \in 1 .. one /\ now \in 1 .. one
  /\ drift \in Nat
  /\ borrow * (10100 * (10000 - drift) - 100000000) >= 200000000
  /\ now * 10000 >= quoted * (10000 - drift)

LEMMA Sufficient ==
  ASSUME NEW borrow, NEW one, NEW quoted, NEW now, NEW drift,
         HeadRoom(borrow, one, quoted, now, drift),
         NEW ltv \in Nat \ {0}, ltv <= 10000
  PROVE  LET wei   == PostedWei(BareWei(UsdWorth(borrow, ltv), one, quoted))
             value == (wei * now) \div one
         IN  (value * ltv) \div 10000 >= borrow
  <1>0. /\ borrow \in Nat /\ one \in Nat \ {0} /\ quoted \in 1 .. one /\ now \in 1 .. one
        /\ quoted \in Nat \ {0} /\ now \in Nat /\ drift \in Nat
        /\ borrow * (10100 * (10000 - drift) - 100000000) >= 200000000
        /\ now * 10000 >= quoted * (10000 - drift)
    BY DEF HeadRoom
  <1>1. 10100 * (10000 - drift) - 100000000 > 0 /\ drift <= 10000
    <2>1. PICK h \in Int : h = 10100 * (10000 - drift) - 100000000
      BY <1>0
    <2>2. borrow * h >= 200000000
      BY <1>0, <2>1
    <2>3. ~(h <= 0)
      BY <1>0, <2>2
    <2> QED BY <1>0, <2>1, <2>3
  <1>2. PICK usd : usd = UsdWorth(borrow, ltv)
    OBVIOUS
  <1>3. usd \in Nat /\ borrow * 10000 < (usd + 1) * ltv /\ usd >= borrow
    BY <1>0, <1>2, UsdWorthOK
  <1>4. PICK bare : bare = BareWei(usd, one, quoted)
    OBVIOUS
  <1>5. bare \in Nat /\ bare * quoted >= usd * one
    BY <1>0, <1>3, <1>4, BareWeiOK
  <1>6. PICK wei : wei = PostedWei(bare)
    OBVIOUS
  <1>7. wei \in Nat /\ wei * 10000 >= bare * 10100 - 10000
    BY <1>5, <1>6, PostedWeiOK
  <1>8. usd * (10100 * (10000 - drift) - 100000000) >= 200000000
    <2>1. PICK h \in Nat : h = 10100 * (10000 - drift) - 100000000
      BY <1>0, <1>1
    <2>2. borrow \in Int /\ usd \in Int /\ borrow <= usd
      BY <1>0, <1>3
    <2>3. borrow * h <= usd * h
      BY <2>2, Times
    <2> QED BY <1>0, <1>3, <2>1, <2>3
  <1>9. (usd + 1) * one <= wei * now
    <2>1. Quote(usd, one, quoted, now, wei, bare, drift)
      BY <1>0, <1>1, <1>3, <1>5, <1>7, <1>8 DEF Quote
    <2> QED BY <2>1, Buffered
  <1>10. PICK u \in Nat : u = usd + 1
    BY <1>3
  <1>11. PICK n \in Nat : n = wei * now
    BY <1>0, <1>7
  <1>12. PICK value : value = n \div one
    OBVIOUS
  <1>13. value \in Nat /\ value >= u
    <2>1. u * one <= n
      BY <1>9, <1>10, <1>11
    <2>2. n \div one \in Nat
      BY <1>0
    <2>3. n \div one >= u
      BY SMTT(60), <1>0, <2>1, DivAtLeast
    <2> QED BY <1>12, <2>2, <2>3
  <1>14. PICK m \in Nat : m = value * ltv
    BY <1>13
  <1>15. borrow * 10000 <= m
    <2>1. u \in Int /\ value \in Int
      BY <1>13
    <2>2. u * ltv <= value * ltv
      BY <1>13, <2>1, Times
    <2> QED BY <1>0, <1>3, <1>10, <1>14, <2>2
  <1>16. m \div 10000 >= borrow
    BY <1>0, <1>15, DivAtLeast
  <1> QED BY <1>2, <1>4, <1>6, <1>11, <1>12, <1>14, <1>16

\* The collateral the page asks for is enough for the contract, at any price
\* that has not fallen by more than the drift the head-room is for
\* (collateralWeiForBorrow against requestLoan).
THEOREM QuoteSuffices ==
  ASSUME NEW borrow \in Amounts, NEW score \in scoreTiers[1] .. MaxScore,
         NEW quoted \in Prices, NEW now \in Prices, ~(now * Bps < quoted * (Bps - Drift))
  PROVE  LET ltv == getLTVForScore(score)
         IN  MaxBorrow(ValueOf(collateralForBorrow(borrow, ltv, quoted), now), ltv) >= borrow
  <1>1. PICK ltv \in Nat \ {0} : ltv = getLTVForScore(score) /\ ltv <= 10000
    <2>1. score \in Nat /\ score >= 500
      BY TierValues DEF MaxScore
    <2> QED BY <2>1, LTVOfScore
  <1>2. HeadRoom(borrow, OneEth, quoted, now, Drift)
    <2>1. /\ borrow \in Nat /\ quoted \in 1 .. OneEth /\ now \in 1 .. OneEth
          /\ OneEth \in Nat \ {0} /\ Drift \in Nat
          /\ borrow * (COLLATERAL_BUFFER_BPS * (Bps - Drift) - Bps * Bps) >= 2 * Bps * Bps
      BY LoansAssumption, OneEthAssumption
    <2> QED BY <2>1 DEF HeadRoom, COLLATERAL_BUFFER_BPS, Bps
  <1>3. PICK wei : wei = PostedWei(BareWei(UsdWorth(borrow, ltv), OneEth, quoted))
    OBVIOUS
  <1>4. (((wei * now) \div OneEth) * ltv) \div 10000 >= borrow
    BY <1>1, <1>2, <1>3, Sufficient
  <1>5. wei = collateralForBorrow(borrow, ltv, quoted)
    BY <1>3 DEF collateralForBorrow, COLLATERAL_BUFFER_BPS, Bps, PostedWei, BareWei, UsdWorth
  <1> QED BY <1>1, <1>4, <1>5 DEF ValueOf, MaxBorrow, Bps

-----------------------------------------------------------------------------
(* The Loans tab.                                                          *)

Shape(r, fields) == r = [f \in fields |-> r[f]]

BorrowFields == {"kind", "wallet", "chain", "amount", "quote", "pc", "signer", "loan", "why", "here"}
RepayFields  == {"kind", "wallet", "chain", "loan", "pc", "signer", "why", "here"}
PageFields   == {"view", "seen", "picked", "sub", "loading", "amount", "quote"}

\* The loans of a contract: a wallet has no second one while one is active.
Once ==
  /\ loans \in [Chains -> Seq([borrower : Wallets, active : BOOLEAN])]
  /\ \A c \in Chains : \A m, n \in DOMAIN loans[c] :
       m < n /\ loans[c][m].borrower = loans[c][n].borrower => ~loans[c][m].active

\* Loans are added and closed, and nothing else happens to them.
LoansKept ==
  /\ Once'
  /\ \A c \in Chains : \A n \in DOMAIN loans[c] :
       /\ n \in DOMAIN loans'[c]
       /\ loans'[c][n].borrower = loans[c][n].borrower
       /\ ~loans[c][n].active => ~loans'[c][n].active

GoodQuote(q) ==
  /\ q.wallet \in Wallets /\ q.amount \in Amounts /\ q.price \in Prices
  /\ q.collateral = Loans!collateralForBorrow(q.amount, Loans!getLTVForScore(ScoreOf[q.wallet]), q.price)

QuoteOK(q) == q = Loans!NoQuote \/ GoodQuote(q)

PageOK(p) ==
  /\ Shape(p, PageFields)
  /\ p.picked \in Chains \cup {NoChain} /\ p.amount \in Amounts /\ QuoteOK(p.quote)

\* The stage of a handler, and the loan its transaction opened or closed.
StageOK(k) ==
  /\ k.chain \in Chains
  /\ k.why # "none" => k.pc \in {"post", "receipt", "sync", "reply"}
  /\ k.pc \in {"sync", "reply"} => k.why = "mined"
  /\ k.why = "pending" => k.signer \in Wallets
  /\ k.why = "mined" =>
       /\ k.loan \in DOMAIN loans[k.chain]
       /\ loans[k.chain][k.loan].borrower = k.signer
       /\ k.kind = "repay" => ~loans[k.chain][k.loan].active

CallOK(k) ==
  /\ k.kind \in {"loads", "quote", "borrow", "repay"}
  /\ k.kind \in {"loads", "quote"} => k.pc \in {"asked", "answered"}
  /\ k.kind = "quote" /\ k.pc = "asked" => k.wallet \in Wallets /\ k.amount \in Amounts
  /\ k.kind = "quote" /\ k.pc = "answered" => QuoteOK(k.quote)
  /\ k.kind = "borrow" => Shape(k, BorrowFields) /\ GoodQuote(k.quote) /\ StageOK(k)
  /\ k.kind = "repay" => Shape(k, RepayFields) /\ k.loan # 0 /\ StageOK(k)

EventOK(e) ==
  e.tx.signer = e.wallet =>
    /\ e.chain \in Chains /\ e.loan \in DOMAIN loans[e.chain]
    /\ loans[e.chain][e.loan].borrower = e.wallet
    /\ e.kind = "repaid" => ~loans[e.chain][e.loan].active
    /\ e.kind = "created" => e.loan >= e.tx.loan

RowOK(r) ==
  r.source[1] = "loan_created" \/ r.tx.chain = Hub =>
    Loans!isLoanTxSuccessful(r.tx, Loans!chainFromTriggerSource(r.source))

PageInv ==
  /\ account \in Wallets \cup {NoWallet} /\ price \in Prices
  /\ PageOK(page)
  /\ \A k \in calls : CallOK(k)

RecordsInv == (\A e \in events : EventOK(e)) /\ (\A r \in rows : RowOK(r))

LoansInv == Once /\ PageInv /\ RecordsInv

-----------------------------------------------------------------------------
(* The contracts.                                                          *)

LEMMA ActiveLoan ==
  ASSUME Once, NEW c \in Chains, NEW w
  PROVE  /\ 0 \notin DOMAIN loans[c]
         /\ Loans!activeLoanId(c, w) = 0 => \A n \in DOMAIN loans[c] : loans[c][n] # Loans!Loan(w)
         /\ Loans!activeLoanId(c, w) # 0 =>
              /\ Loans!activeLoanId(c, w) \in DOMAIN loans[c]
              /\ loans[c][Loans!activeLoanId(c, w)] = Loans!Loan(w)
         /\ Loans!activeLoanId(c, w) \in Nat
  <1>1. DOMAIN loans[c] = 1 .. Len(loans[c]) /\ Len(loans[c]) \in Nat
    BY LenProperties DEF Once
  <1>2. CASE \E n \in DOMAIN loans[c] : loans[c][n] = Loans!Loan(w)
    <2>1. Loans!activeLoanId(c, w) = CHOOSE n \in DOMAIN loans[c] : loans[c][n] = Loans!Loan(w)
      BY <1>2 DEF Loans!activeLoanId
    <2>2. Loans!activeLoanId(c, w) \in DOMAIN loans[c]
          /\ loans[c][Loans!activeLoanId(c, w)] = Loans!Loan(w)
      BY <1>2, <2>1
    <2> QED BY <1>1, <2>2
  <1>3. CASE ~\E n \in DOMAIN loans[c] : loans[c][n] = Loans!Loan(w)
    <2>1. Loans!activeLoanId(c, w) = 0
      BY <1>3 DEF Loans!activeLoanId
    <2> QED BY <1>1, <1>3, <2>1
  <1> QED BY <1>2, <1>3

LEMMA OneChain ==
  ASSUME Once, NEW c \in Chains,
         NEW new \in Seq([borrower : Wallets, active : BOOLEAN]),
         loans' = [loans EXCEPT ![c] = new],
         \A m, n \in DOMAIN new : m < n /\ new[m].borrower = new[n].borrower => ~new[m].active,
         \A n \in DOMAIN loans[c] : /\ n \in DOMAIN new
                                    /\ new[n].borrower = loans[c][n].borrower
                                    /\ ~loans[c][n].active => ~new[n].active
  PROVE  LoansKept
  <1>1. /\ loans' \in [Chains -> Seq([borrower : Wallets, active : BOOLEAN])]
        /\ loans'[c] = new /\ \A d \in Chains : d # c => loans'[d] = loans[d]
    BY DEF Once
  <1> QED BY <1>1 DEF Once, LoansKept

LEMMA Elements ==
  ASSUME NEW S, NEW s \in Seq(S)
  PROVE  \A n \in DOMAIN s : s[n] \in S
  BY LenProperties

LEMMA Opens ==
  ASSUME Once, NEW c \in Chains, NEW w \in Wallets, Loans!activeLoanId(c, w) = 0,
         loans' = [loans EXCEPT ![c] = Append(@, Loans!Loan(w))]
  PROVE  /\ LoansKept
         /\ Len(loans[c]) + 1 \in DOMAIN loans'[c]
         /\ loans'[c][Len(loans[c]) + 1].borrower = w
  <1>1. PICK old \in Seq([borrower : Wallets, active : BOOLEAN]) : old = loans[c]
    BY DEF Once
  <1>2. Loans!Loan(w) \in [borrower : Wallets, active : BOOLEAN]
    BY DEF Loans!Loan
  <1>3. PICK new : new = Append(old, Loans!Loan(w))
    OBVIOUS
  <1>4. /\ new \in Seq([borrower : Wallets, active : BOOLEAN])
        /\ Len(old) \in Nat /\ DOMAIN old = 1 .. Len(old) /\ DOMAIN new = 1 .. Len(old) + 1
        /\ \A n \in 1 .. Len(old) : new[n] = old[n]
        /\ new[Len(old) + 1] = Loans!Loan(w)
    BY <1>2, <1>3, AppendProperties, LenProperties
  <1>5. /\ \A n \in DOMAIN old : old[n] # Loans!Loan(w)
        /\ \A n \in DOMAIN old : old[n] \in [borrower : Wallets, active : BOOLEAN]
    <2>1. \A n \in DOMAIN old : old[n] # Loans!Loan(w)
      BY <1>1, ActiveLoan
    <2>2. \A n \in DOMAIN old : old[n] \in [borrower : Wallets, active : BOOLEAN]
      BY <1>1, Elements
    <2> QED BY <2>1, <2>2
  <1>6. ASSUME NEW n \in DOMAIN old, old[n].borrower = w PROVE ~old[n].active
    <2>1. old[n] \in [borrower : Wallets, active : BOOLEAN]
      BY <1>5
    <2>2. PICK b \in BOOLEAN : old[n] = [borrower |-> w, active |-> b]
      BY <1>6, <2>1
    <2> QED BY <1>5, <2>2 DEF Loans!Loan
  <1>7. ASSUME NEW m \in DOMAIN new, NEW n \in DOMAIN new, m < n, new[m].borrower = new[n].borrower
        PROVE  ~new[m].active
    <2>1. m \in DOMAIN old /\ new[m] = old[m]
      BY <1>4, <1>7
    <2>2. CASE n \in DOMAIN old
      BY ZenonT(60), <1>1, <1>4, <1>7, <2>1, <2>2 DEF Once
    <2>3. CASE n = Len(old) + 1
      <3>1. old[m].borrower = w
        BY <1>4, <1>7, <2>1, <2>3 DEF Loans!Loan
      <3> QED BY <1>6, <2>1, <3>1
    <2> QED BY <1>4, <2>2, <2>3
  <1>8. loans' = [loans EXCEPT ![c] = new]
    BY <1>1, <1>3
  <1>9. LoansKept
    <2>1. \A m, n \in DOMAIN new : m < n /\ new[m].borrower = new[n].borrower => ~new[m].active
      BY <1>7
    <2>2. \A n \in DOMAIN loans[c] : /\ n \in DOMAIN new
                                     /\ new[n].borrower = loans[c][n].borrower
                                     /\ ~loans[c][n].active => ~new[n].active
      BY <1>1, <1>4
    <2>3. new \in Seq([borrower : Wallets, active : BOOLEAN])
      BY <1>4
    <2> QED BY <1>8, <2>1, <2>2, <2>3, OneChain
  <1>10. loans'[c] = new
    BY <1>8 DEF Once
  <1> QED BY <1>1, <1>4, <1>9, <1>10 DEF Loans!Loan

LEMMA Closes ==
  ASSUME Once, NEW c \in Chains, NEW l \in DOMAIN loans[c],
         loans' = [loans EXCEPT ![c][l].active = FALSE]
  PROVE  LoansKept /\ ~loans'[c][l].active
  <1>1. PICK old \in Seq([borrower : Wallets, active : BOOLEAN]) : old = loans[c]
    BY DEF Once
  <1>2. DOMAIN old = 1 .. Len(old) /\ Len(old) \in Nat
        /\ \A n \in DOMAIN old : old[n] \in [borrower : Wallets, active : BOOLEAN]
    BY ZenonT(60), <1>1, LenProperties
  <1>3. PICK e : e = [old[l] EXCEPT !.active = FALSE]
    OBVIOUS
  <1>4. e \in [borrower : Wallets, active : BOOLEAN] /\ ~e.active /\ e.borrower = old[l].borrower
    BY <1>1, <1>2, <1>3
  <1>5. PICK new : new = [old EXCEPT ![l] = e]
    OBVIOUS
  <1>6. new \in Seq([borrower : Wallets, active : BOOLEAN]) /\ DOMAIN new = DOMAIN old
    BY <1>1, <1>2, <1>4, <1>5, ExceptSeq
  <1>7. new[l] = e /\ \A n \in DOMAIN old : n # l => new[n] = old[n]
    BY <1>1, <1>5
  <1>8. loans' = [loans EXCEPT ![c] = new]
    BY <1>1, <1>3, <1>5
  <1>9. /\ \A n \in DOMAIN old : new[n].borrower = old[n].borrower
        /\ \A n \in DOMAIN old : ~old[n].active => ~new[n].active
    BY <1>4, <1>7
  <1>10. \A m, n \in DOMAIN new : m < n /\ new[m].borrower = new[n].borrower => ~new[m].active
    BY <1>1, <1>6, <1>9 DEF Once
  <1>11. LoansKept
    <2>1. \A n \in DOMAIN loans[c] : /\ n \in DOMAIN new
                                     /\ new[n].borrower = loans[c][n].borrower
                                     /\ ~loans[c][n].active => ~new[n].active
      BY <1>1, <1>6, <1>9
    <2> QED BY <1>6, <1>8, <1>10, <2>1, OneChain
  <1>12. loans'[c] = new
    BY <1>8 DEF Once
  <1> QED BY <1>4, <1>7, <1>11, <1>12

LEMMA LoansSame ==
  ASSUME Once, UNCHANGED loans
  PROVE  LoansKept
  BY DEF Once, LoansKept

-----------------------------------------------------------------------------
(* The calls.                                                              *)

LEMMA CallStays ==
  ASSUME LoansKept, NEW k, CallOK(k)
  PROVE  CallOK(k)'
  <1>1. StageOK(k) => StageOK(k)'
    BY DEF StageOK, LoansKept
  <1> QED BY <1>1 DEF CallOK, QuoteOK, GoodQuote

LEMMA EventStays ==
  ASSUME LoansKept, NEW e, EventOK(e)
  PROVE  EventOK(e)'
  BY DEF EventOK, LoansKept

LEMMA LeftOK ==
  ASSUME NEW k, CallOK(k), Loans!Clicked(k)
  PROVE  CallOK([k EXCEPT !.here = FALSE])
  <1>1. PICK n : n = [k EXCEPT !.here = FALSE]
    OBVIOUS
  <1>2. CASE k.kind = "borrow"
    <2>1. /\ Shape(n, BorrowFields) /\ n.kind = k.kind /\ n.chain = k.chain /\ n.pc = k.pc
          /\ n.why = k.why /\ n.signer = k.signer /\ n.loan = k.loan /\ n.quote = k.quote
      BY <1>1, <1>2 DEF CallOK, Shape, BorrowFields
    <2>2. StageOK(n)
      BY <1>2, <2>1 DEF CallOK, StageOK
    <2> QED BY <1>1, <1>2, <2>1, <2>2 DEF CallOK
  <1>3. CASE k.kind = "repay"
    <2>1. /\ Shape(n, RepayFields) /\ n.kind = k.kind /\ n.chain = k.chain /\ n.pc = k.pc
          /\ n.why = k.why /\ n.signer = k.signer /\ n.loan = k.loan
      BY <1>1, <1>3 DEF CallOK, Shape, RepayFields
    <2>2. StageOK(n)
      BY <1>3, <2>1 DEF CallOK, StageOK
    <2> QED BY <1>1, <1>3, <2>1, <2>2 DEF CallOK
  <1> QED BY <1>2, <1>3 DEF Loans!Clicked

LEMMA StartAmountOK == Loans!StartAmount \in Amounts
  BY LoansAssumption DEF Loans!StartAmount

\* The page that a change renders, its calls, and what became of the others:
\* no call is lost but quotes, and those that lost their panel say so.
LEMMA Rendered ==
  ASSUME NEW rest, \A k \in rest : CallOK(k), NEW p, PageOK(p),
         NEW w \in Wallets \cup {NoWallet}, NEW changed, Loans!Render(p, w, rest, changed)
  PROVE  /\ PageOK(page')
         /\ \A k \in calls' : CallOK(k)
         /\ \A k \in calls' : \/ k \in rest \/ k.kind = "quote"
                              \/ Loans!Clicked(k) /\ k.here = FALSE
         /\ \A k \in rest : Loans!Clicked(k) /\ k.here = FALSE => k \in calls'
  <1> DEFINE anew == Loans!Panel(p, w) # Loans!Panel(page, account)
  <1>1. PICK q : q = IF anew THEN [p EXCEPT !.amount = Loans!StartAmount, !.quote = Loans!NoQuote] ELSE p
    OBVIOUS
  <1>2. PICK kept : kept = IF anew THEN Loans!Left(rest) ELSE rest
    OBVIOUS
  <1>3. IF Loans!Panel(p, w) = "purchase" /\ (anew \/ changed)
        THEN Loans!loadQuote(q, w, kept) ELSE page' = q /\ calls' = kept
    BY <1>1, <1>2 DEF Loans!Render
  <1>4. PageOK(q)
    BY <1>1, StartAmountOK DEF PageOK, Shape, PageFields, QuoteOK
  <1>5. ASSUME NEW k \in kept
        PROVE  CallOK(k) /\ (k \in rest \/ (Loans!Clicked(k) /\ k.here = FALSE))
    <2>1. CASE k \in rest
      BY <2>1
    <2>2. CASE anew /\ k \notin rest
      <3>1. PICK o \in rest : k = IF Loans!Clicked(o) THEN [o EXCEPT !.here = FALSE] ELSE o
        BY <1>2, <2>2 DEF Loans!Left
      <3>2. Loans!Clicked(o) /\ k = [o EXCEPT !.here = FALSE]
        BY <2>2, <3>1
      <3>3. CallOK(k)
        BY <3>2, LeftOK
      <3>4. k.kind = o.kind /\ k.here = FALSE
        BY <3>2 DEF CallOK, Shape, BorrowFields, RepayFields, Loans!Clicked
      <3> QED BY <3>2, <3>3, <3>4 DEF Loans!Clicked
    <2> QED BY <1>2, <2>1, <2>2
  <1>6. ASSUME NEW k \in rest, Loans!Clicked(k), k.here = FALSE PROVE k \in kept
    <2>1. [k EXCEPT !.here = FALSE] = k
      BY <1>6 DEF CallOK, Shape, BorrowFields, RepayFields, Loans!Clicked
    <2>2. k \in Loans!Left(rest)
      BY <1>6, <2>1 DEF Loans!Left, Loans!Clicked
    <2> QED BY <1>2, <2>2
  <1>7. CASE page' = q /\ calls' = kept
    BY <1>4, <1>5, <1>6, <1>7
  <1>8. CASE Loans!Panel(p, w) = "purchase" /\ Loans!loadQuote(q, w, kept)
    <2>1. CASE page' = [q EXCEPT !.quote = Loans!NoQuote] /\ calls' = kept
      <3>1. PageOK(page')
        BY <1>4, <2>1 DEF PageOK, Shape, PageFields, QuoteOK
      <3> QED BY <1>5, <1>6, <2>1, <3>1
    <2>2. CASE page' = q /\ calls' = kept \cup {[kind |-> "quote", wallet |-> w, chain |-> q.picked,
                                                 amount |-> q.amount, pc |-> "asked"]}
      <3>1. PICK ask : ask = [kind |-> "quote", wallet |-> w, chain |-> q.picked,
                              amount |-> q.amount, pc |-> "asked"]
        OBVIOUS
      <3>2. w \in Wallets
        BY <1>8 DEF Loans!Panel
      <3>3. CallOK(ask) /\ ask.kind = "quote"
        BY <1>4, <3>1, <3>2 DEF CallOK, PageOK
      <3> QED BY <1>4, <1>5, <1>6, <2>2, <3>1, <3>3
    <2> QED BY <1>8, <2>1, <2>2 DEF Loans!loadQuote
  <1> QED BY <1>3, <1>7, <1>8

\* A change of the page that takes no pending call away refuses no loan.
LEMMA RenderQuiet ==
  ASSUME \A k \in calls : CallOK(k), NEW rest, \A k \in rest : CallOK(k),
         \A k \in rest \ calls : k.kind = "loads",
         \A k \in calls \ rest : k.kind = "borrow" => k.why # "pending",
         NEW p, PageOK(p), NEW w \in Wallets \cup {NoWallet}, NEW changed,
         Loans!Render(p, w, rest, changed)
  PROVE  Loans!RefusedWhenStale
  <1> SUFFICES ASSUME NEW k \in calls \ calls', k.kind = "borrow", k.why = "pending",
                      [k EXCEPT !.why = "collateral"] \in calls' \ calls
               PROVE  FALSE
    BY DEF Loans!RefusedWhenStale
  <1>1. PICK n : n = [k EXCEPT !.why = "collateral"]
    OBVIOUS
  <1>2. n.kind = "borrow" /\ n.here = k.here
    BY <1>1 DEF CallOK, Shape, BorrowFields
  <1>3. n \notin rest
    BY <1>1, <1>2
  <1>4. n.here = FALSE
    BY <1>1, <1>2, <1>3, Rendered
  <1>5. k \in rest /\ Loans!Clicked(k) /\ k.here = FALSE
    BY <1>2, <1>4 DEF Loans!Clicked
  <1> QED BY <1>5, Rendered

\* A call is replaced by its next state.
LEMMA Advanced ==
  ASSUME \A k \in calls : CallOK(k), LoansKept, NEW k \in calls, NEW new, Loans!Advance(k, new),
         CallOK(new)',
         k.kind = "borrow" /\ k.why = "pending" /\ new.why = "collateral" => Loans!StaleQuote(k)
  PROVE  (\A o \in calls : CallOK(o))' /\ Loans!RefusedWhenStale
  <1>1. calls' = (calls \ {k}) \cup {new}
    BY DEF Loans!Advance
  <1>2. \A o \in calls' : CallOK(o)'
    BY <1>1, CallStays
  <1>3. ASSUME NEW o \in calls \ calls', o.kind = "borrow", o.why = "pending",
               [o EXCEPT !.why = "collateral"] \in calls' \ calls
        PROVE  Loans!StaleQuote(o)
    <2>1. o = k /\ new = [k EXCEPT !.why = "collateral"]
      BY <1>1, <1>3
    <2>2. new.why = "collateral"
      BY <1>3, <2>1 DEF CallOK, Shape, BorrowFields
    <2> QED BY <1>3, <2>1, <2>2
  <1> QED BY <1>2, <1>3 DEF Loans!RefusedWhenStale

\* Calls are only taken away.
LEMMA Dropped ==
  ASSUME \A k \in calls : CallOK(k), LoansKept, calls' \subseteq calls
  PROVE  (\A o \in calls : CallOK(o))' /\ Loans!RefusedWhenStale
  <1>1. \A o \in calls' : CallOK(o)'
    BY CallStays
  <1> QED BY <1>1 DEF Loans!RefusedWhenStale

\* A handler goes on: its kind and its chain stay.
SameCall(n, k) ==
  /\ n.kind = k.kind /\ n.chain = k.chain
  /\ k.kind = "borrow" => Shape(n, BorrowFields) /\ n.quote = k.quote
  /\ k.kind = "repay" => Shape(n, RepayFields)

LEMMA NextPc ==
  ASSUME NEW k, CallOK(k), Loans!Clicked(k), NEW v, NEW n, n = [k EXCEPT !.pc = v]
  PROVE  SameCall(n, k) /\ n.pc = v /\ n.why = k.why /\ n.signer = k.signer /\ n.loan = k.loan
  BY DEF CallOK, Loans!Clicked, Shape, BorrowFields, RepayFields, SameCall

LEMMA NextWhy ==
  ASSUME NEW k, CallOK(k), Loans!Clicked(k), NEW v, NEW n, n = [k EXCEPT !.why = v]
  PROVE  SameCall(n, k) /\ n.pc = k.pc /\ n.why = v /\ n.signer = k.signer /\ n.loan = k.loan
  BY DEF CallOK, Loans!Clicked, Shape, BorrowFields, RepayFields, SameCall

LEMMA NextLoan ==
  ASSUME NEW k, CallOK(k), Loans!Clicked(k), NEW v, NEW l, NEW n,
         n = [k EXCEPT !.why = v, !.loan = l]
  PROVE  SameCall(n, k) /\ n.pc = k.pc /\ n.why = v /\ n.signer = k.signer /\ n.loan = l
  BY DEF CallOK, Loans!Clicked, Shape, BorrowFields, RepayFields, SameCall

LEMMA HandlerOK ==
  ASSUME NEW k, CallOK(k), Loans!Clicked(k), NEW n, SameCall(n, k), StageOK(n)',
         k.kind = "repay" => n.loan # 0
  PROVE  CallOK(n)'
  BY DEF CallOK, Loans!Clicked, SameCall, GoodQuote

-----------------------------------------------------------------------------
(* The actions.                                                            *)

\* What every step must show.
LoansStep == LoansInv' /\ Loans!RefusedWhenStale

LEMMA RecordsStay ==
  ASSUME LoansInv, LoansKept, UNCHANGED <<events, rows>>
  PROVE  RecordsInv'
  <1>1. \A e \in events' : EventOK(e)'
    BY EventStays DEF LoansInv, RecordsInv
  <1>2. \A r \in rows' : RowOK(r)'
    BY DEF LoansInv, RecordsInv, RowOK
  <1> QED BY <1>1, <1>2 DEF RecordsInv

LEMMA Redrawn ==
  ASSUME LoansInv, UNCHANGED <<loans, price, events, rows>>, account' \in Wallets \cup {NoWallet},
         NEW rest, \A k \in rest \ calls : k.kind = "loads" /\ k.pc = "asked",
         \A k \in calls \ rest : k.kind = "borrow" => k.why # "pending",
         NEW p, PageOK(p), NEW w \in Wallets \cup {NoWallet}, NEW changed,
         Loans!Render(p, w, rest, changed)
  PROVE  LoansStep
  <1>1. (\A k \in calls : CallOK(k)) /\ LoansKept
    BY LoansSame DEF LoansInv, PageInv
  <1>2. \A k \in rest : CallOK(k)
    BY <1>1 DEF CallOK
  <1>3. PageOK(page') /\ \A k \in calls' : CallOK(k)
    BY <1>2, Rendered
  <1>4. Loans!RefusedWhenStale
    BY <1>1, <1>2, RenderQuiet
  <1>5. \A k \in calls' : CallOK(k)'
    BY <1>1, <1>3, CallStays
  <1>6. PageInv'
    BY <1>3, <1>5 DEF LoansInv, PageInv, PageOK, QuoteOK, GoodQuote
  <1>7. RecordsInv' /\ Once'
    BY <1>1, RecordsStay DEF LoansKept
  <1> QED BY <1>4, <1>6, <1>7 DEF LoansStep, LoansInv

LEMMA Loaded ==
  ASSUME LoansInv, UNCHANGED <<loans, price, events, rows>>, account' \in Wallets \cup {NoWallet},
         NEW rest, rest \subseteq calls,
         \A k \in calls \ rest : k.kind = "borrow" => k.why # "pending",
         NEW w, NEW now \in Wallets \cup {NoWallet}, Loans!load(page, w, now, rest)
  PROVE  LoansStep
  <1>1. PICK p : p = [page EXCEPT !.loading = TRUE]
    OBVIOUS
  <1>2. PageOK(p)
    BY <1>1 DEF LoansInv, PageInv, PageOK, Shape, PageFields
  <1>3. PICK more : more = rest \cup {Loans!LoadCall(w)}
    OBVIOUS
  <1>4. Loans!Render(p, now, more, FALSE)
    BY <1>1, <1>3 DEF Loans!load
  <1>5. /\ \A k \in more \ calls : k.kind = "loads" /\ k.pc = "asked"
        /\ \A k \in calls \ more : k.kind = "borrow" => k.why # "pending"
    BY <1>3 DEF Loans!LoadCall
  <1> QED BY <1>2, <1>4, <1>5, Redrawn

LEMMA Stepped ==
  ASSUME LoansInv, LoansKept, UNCHANGED <<account, price>>, PageOK(page'),
         (\A k \in calls : CallOK(k))', RecordsInv', Loans!RefusedWhenStale
  PROVE  LoansStep
  BY DEF LoansStep, LoansInv, LoansKept, PageInv, PageOK, QuoteOK, GoodQuote

LEMMA Ended ==
  ASSUME LoansInv, UNCHANGED <<loans, price, events, rows, account>>, NEW k \in calls,
         NEW success, Loans!End(k, success), success /\ k.kind = "borrow" => k.why # "pending"
  PROVE  LoansStep
  <1>1. CASE success
    <2>1. Loans!load(page, k.wallet, account, calls \ {k})
      BY <1>1 DEF Loans!End
    <2> QED BY <1>1, <2>1, Loaded DEF LoansInv, PageInv
  <1>2. CASE ~success
    <2>1. page' = page /\ calls' \subseteq calls /\ LoansKept /\ RecordsInv'
          /\ (\A o \in calls : CallOK(o)) /\ PageOK(page)
      BY <1>2, LoansSame, RecordsStay DEF Loans!End, LoansInv, PageInv
    <2>2. (\A o \in calls : CallOK(o))' /\ Loans!RefusedWhenStale
      BY <2>1, Dropped
    <2> QED BY <2>1, <2>2, Stepped
  <1> QED BY <1>1, <1>2

LEMMA PageKeeps ==
  ASSUME LoansInv
  PROVE  /\ (\E w \in Wallets \cup {NoWallet} : Loans!SwitchAccount(w)) => LoansStep
         /\ Loans!Refresh => LoansStep
         /\ (\E sub \in {"purchase", "active"} : Loans!changeSubTab(sub)) => LoansStep
         /\ (\E c \in Chains : Loans!setSelectedChainKey(c)) => LoansStep
         /\ (\E a \in Amounts : Loans!setBorrowAmount(a)) => LoansStep
  <1>0. PageOK(page) /\ account \in Wallets \cup {NoWallet}
    BY DEF LoansInv, PageInv
  <1>1. ASSUME NEW w \in Wallets \cup {NoWallet}, Loans!SwitchAccount(w) PROVE LoansStep
    <2>1. UNCHANGED <<loans, price, events, rows>> /\ account' = w
      BY <1>1 DEF Loans!SwitchAccount
    <2>2. CASE w = NoWallet
      <3>1. PICK p : p = [page EXCEPT !.view = Loans!NoView, !.seen = {}, !.loading = FALSE]
        OBVIOUS
      <3>2. PageOK(p)
        BY <1>0, <3>1 DEF PageOK, Shape, PageFields
      <3>3. Loans!Render(p, w, calls, FALSE)
        BY <1>1, <2>2, <3>1 DEF Loans!SwitchAccount
      <3> QED BY <2>1, <3>2, <3>3, Redrawn
    <2>3. CASE w # NoWallet
      <3>1. Loans!load(page, w, w, calls)
        BY <1>1, <2>3 DEF Loans!SwitchAccount
      <3> QED BY <2>1, <3>1, Loaded
    <2> QED BY <2>2, <2>3
  <1>2. ASSUME Loans!Refresh PROVE LoansStep
    <2>1. UNCHANGED <<account, loans, price, events, rows>> /\ Loans!load(page, account, account, calls)
      BY <1>2 DEF Loans!Refresh
    <2> QED BY <1>0, <2>1, Loaded
  <1>3. ASSUME NEW sub \in {"purchase", "active"}, Loans!changeSubTab(sub) PROVE LoansStep
    <2>1. PICK p : p = [page EXCEPT !.sub = sub]
      OBVIOUS
    <2>2. PageOK(p)
      BY <1>0, <2>1 DEF PageOK, Shape, PageFields
    <2>3. UNCHANGED <<account, loans, price, events, rows>> /\ Loans!Render(p, account, calls, FALSE)
      BY <1>3, <2>1 DEF Loans!changeSubTab
    <2> QED BY <1>0, <2>2, <2>3, Redrawn
  <1>4. ASSUME NEW c \in Chains, Loans!setSelectedChainKey(c) PROVE LoansStep
    <2>1. PICK p : p = [page EXCEPT !.picked = c]
      OBVIOUS
    <2>2. PageOK(p)
      BY <1>0, <2>1 DEF PageOK, Shape, PageFields
    <2>3. UNCHANGED <<account, loans, price, events, rows>> /\ Loans!Render(p, account, calls, TRUE)
      BY <1>4, <2>1 DEF Loans!setSelectedChainKey
    <2> QED BY <1>0, <2>2, <2>3, Redrawn
  <1>5. ASSUME NEW a \in Amounts, Loans!setBorrowAmount(a) PROVE LoansStep
    <2>1. PICK p : p = [page EXCEPT !.amount = a]
      OBVIOUS
    <2>2. PageOK(p)
      BY <1>0, <2>1 DEF PageOK, Shape, PageFields
    <2>3. UNCHANGED <<account, loans, price, events, rows>> /\ Loans!Render(p, account, calls, TRUE)
      BY <1>5, <2>1 DEF Loans!setBorrowAmount
    <2> QED BY <1>0, <2>2, <2>3, Redrawn
  <1> QED BY <1>1, <1>2, <1>3, <1>4, <1>5

LEMMA Added ==
  ASSUME LoansInv, UNCHANGED <<account, page, loans, price, events, rows>>,
         NEW new, CallOK(new), calls' = calls \cup {new}
  PROVE  LoansStep
  <1>1. LoansKept /\ RecordsInv' /\ PageOK(page') /\ \A k \in calls' : CallOK(k)
    BY LoansSame, RecordsStay DEF LoansInv, PageInv
  <1>2. (\A k \in calls : CallOK(k))'
    BY <1>1, CallStays
  <1>3. Loans!RefusedWhenStale
    BY DEF Loans!RefusedWhenStale
  <1> QED BY <1>1, <1>2, <1>3, Stepped

LEMMA ClickKeeps ==
  ASSUME LoansInv
  PROVE  /\ Loans!handleBorrow => LoansStep
         /\ Loans!handleRepay => LoansStep
  <1>1. ASSUME Loans!handleBorrow PROVE LoansStep
    <2>1. PICK new :
            new = [kind |-> "borrow", wallet |-> account, chain |-> page.picked, amount |-> page.amount,
                   quote |-> page.quote, pc |-> "deposit", signer |-> NoWallet, loan |-> 0,
                   why |-> "none", here |-> TRUE]
      OBVIOUS
    <2>2. /\ UNCHANGED <<account, page, loans, price, events, rows>> /\ calls' = calls \cup {new}
          /\ page.picked # NoChain /\ page.quote # Loans!NoQuote
      BY <1>1, <2>1 DEF Loans!handleBorrow, Loans!canBorrow
    <2>3. page.picked \in Chains /\ GoodQuote(page.quote)
      BY <2>2 DEF LoansInv, PageInv, PageOK, QuoteOK
    <2>4. Shape(new, BorrowFields)
      BY <2>1 DEF Shape, BorrowFields
    <2>5. CallOK(new)
      BY <2>1, <2>3, <2>4 DEF CallOK, StageOK
    <2> QED BY <2>2, <2>5, Added
  <1>2. ASSUME Loans!handleRepay PROVE LoansStep
    <2>1. PICK id \in {Loans!activeLoanId(page.picked, account), page.view[page.picked].loan} \ {0} :
            calls' = calls \cup
              {[kind |-> "repay", wallet |-> account, chain |-> page.picked, loan |-> id,
                pc |-> "approve", signer |-> NoWallet, why |-> "none", here |-> TRUE]}
      BY <1>2 DEF Loans!handleRepay
    <2>2. PICK new :
            new = [kind |-> "repay", wallet |-> account, chain |-> page.picked, loan |-> id,
                   pc |-> "approve", signer |-> NoWallet, why |-> "none", here |-> TRUE]
      OBVIOUS
    <2>3. UNCHANGED <<account, page, loans, price, events, rows>> /\ calls' = calls \cup {new}
      BY <1>2, <2>1, <2>2 DEF Loans!handleRepay
    <2>4. page.picked \in Chains
      BY <1>2 DEF Loans!handleRepay, Loans!Panel, LoansInv, PageInv, PageOK
    <2>5. Shape(new, RepayFields)
      BY <2>2 DEF Shape, RepayFields
    <2>6. CallOK(new)
      BY <2>1, <2>2, <2>4, <2>5 DEF CallOK, StageOK
    <2> QED BY <2>3, <2>6, Added
  <1> QED BY <1>1, <1>2

\* A call is replaced while the page and the contracts stay.
LEMMA Replies ==
  ASSUME LoansInv, LoansKept, UNCHANGED <<account, page, price>>, RecordsInv',
         NEW k \in calls, NEW new, Loans!Advance(k, new), CallOK(new)',
         k.kind = "borrow" /\ k.why = "pending" /\ new.why = "collateral" => Loans!StaleQuote(k)
  PROVE  LoansStep
  <1>1. PageOK(page') /\ \A o \in calls : CallOK(o)
    BY DEF LoansInv, PageInv
  <1>2. (\A o \in calls : CallOK(o))' /\ Loans!RefusedWhenStale
    BY <1>1, Advanced
  <1> QED BY <1>1, <1>2, Stepped

LEMMA RoutesKeep ==
  ASSUME LoansInv, NEW k \in calls
  PROVE  /\ Loans!GetLoans(k) => LoansStep
         /\ Loans!LoansAnswer(k) => LoansStep
         /\ Loans!GetQuote(k) => LoansStep
         /\ Loans!QuoteAnswer(k) => LoansStep
  <1>0. PageOK(page) /\ account \in Wallets \cup {NoWallet} /\ price \in Prices /\ CallOK(k)
    BY DEF LoansInv, PageInv
  <1>1. ASSUME Loans!GetLoans(k) PROVE LoansStep
    <2>1. UNCHANGED <<account, page, loans, price, events, rows>>
      BY <1>1 DEF Loans!GetLoans
    <2>2. PICK flagged \in BOOLEAN :
            calls' = (calls \ {k}) \cup
              {[kind |-> "loads", wallet |-> k.wallet, pc |-> "answered",
                view |-> Loans!applyBorrowApprovalGate(
                           Loans!enrichChainSummaries(k.wallet, flagged), k.wallet),
                seen |-> Loans!filterValidLoanEvents(k.wallet)]}
      BY <1>1 DEF Loans!GetLoans
    <2>3. PICK view : view = Loans!applyBorrowApprovalGate(
                               Loans!enrichChainSummaries(k.wallet, flagged), k.wallet)
      OBVIOUS
    <2>4. PICK new : new = [kind |-> "loads", wallet |-> k.wallet, pc |-> "answered", view |-> view,
                            seen |-> Loans!filterValidLoanEvents(k.wallet)]
      OBVIOUS
    <2>5. Loans!Advance(k, new)
      BY <2>2, <2>3, <2>4 DEF Loans!Advance
    <2>6. CallOK(new)' /\ k.kind = "loads"
      BY <1>1, <2>4 DEF CallOK, Loans!GetLoans
    <2>7. LoansKept /\ RecordsInv'
      BY <2>1, LoansSame, RecordsStay DEF LoansInv
    <2> QED BY <2>1, <2>5, <2>6, <2>7, Replies
  <1>2. ASSUME Loans!LoansAnswer(k) PROVE LoansStep
    <2>1. UNCHANGED <<account, loans, price, events, rows>> /\ k.kind = "loads"
      BY <1>2 DEF Loans!LoansAnswer
    <2>2. ASSUME NEW view, NEW seen, NEW p, p = [page EXCEPT !.view = view, !.seen = seen, !.loading = FALSE],
                 Loans!Render(p, account, calls \ {k}, TRUE)
          PROVE  LoansStep
      <3>1. PageOK(p)
        BY <1>0, <2>2 DEF PageOK, Shape, PageFields
      <3>2. PICK rest : rest = calls \ {k}
        OBVIOUS
      <3> QED BY <1>0, <2>1, <2>2, <3>1, <3>2, Redrawn
    <2>3. ASSUME Loans!Render([page EXCEPT !.loading = FALSE], account, calls \ {k}, FALSE)
          PROVE  LoansStep
      <3>1. PICK p : p = [page EXCEPT !.loading = FALSE]
        OBVIOUS
      <3>2. PageOK(p)
        BY <1>0, <3>1 DEF PageOK, Shape, PageFields
      <3>3. PICK rest : rest = calls \ {k}
        OBVIOUS
      <3> QED BY <1>0, <2>1, <2>3, <3>1, <3>2, <3>3, Redrawn
    <2> QED BY <1>2, <2>2, <2>3 DEF Loans!LoansAnswer
  <1>3. ASSUME Loans!GetQuote(k) PROVE LoansStep
    <2>1. PICK quote :
            quote = IF Loans!assertBorrowApproved(k.wallet)
                    THEN [wallet |-> k.wallet, chain |-> k.chain, amount |-> k.amount,
                          collateral |-> Loans!collateralForBorrow(k.amount,
                                           Loans!getLTVForScore(ScoreOf[k.wallet]), price),
                          price |-> price]
                    ELSE Loans!NoQuote
      OBVIOUS
    <2>2. PICK new : new = [kind |-> "quote", wallet |-> k.wallet, pc |-> "answered", quote |-> quote]
      OBVIOUS
    <2>3. UNCHANGED <<account, page, loans, price, events, rows>> /\ Loans!Advance(k, new)
          /\ k.kind = "quote" /\ k.pc = "asked"
      <3>1. UNCHANGED <<account, page, loans, price, events, rows>> /\ k.kind = "quote" /\ k.pc = "asked"
        BY <1>3 DEF Loans!GetQuote
      <3>2. calls' = (calls \ {k}) \cup {[kind |-> "quote", wallet |-> k.wallet, pc |-> "answered",
                                          quote |-> quote]}
        BY <1>3, <2>1, Zenon DEF Loans!GetQuote
      <3> QED BY <2>2, <3>1, <3>2 DEF Loans!Advance
    <2>4. QuoteOK(quote)
      BY <1>0, <2>1, <2>3 DEF CallOK, QuoteOK, GoodQuote
    <2>5. CallOK(new)'
      BY <2>2, <2>4 DEF CallOK, QuoteOK, GoodQuote
    <2>6. LoansKept /\ RecordsInv'
      BY <2>3, LoansSame, RecordsStay DEF LoansInv
    <2> QED BY <2>3, <2>5, <2>6, Replies
  <1>4. ASSUME Loans!QuoteAnswer(k) PROVE LoansStep
    <2>1. /\ UNCHANGED <<account, loans, price, events, rows>> /\ k.kind = "quote" /\ k.pc = "answered"
          /\ page' = [page EXCEPT !.quote = k.quote] /\ calls' \subseteq calls
      BY <1>4 DEF Loans!QuoteAnswer
    <2>2. QuoteOK(k.quote)
      BY <1>0, <2>1 DEF CallOK
    <2>3. PageOK(page')
      BY <1>0, <2>1, <2>2 DEF PageOK, Shape, PageFields
    <2>4. LoansKept /\ RecordsInv' /\ \A o \in calls : CallOK(o)
      BY <2>1, LoansSame, RecordsStay DEF LoansInv, PageInv
    <2>5. (\A o \in calls : CallOK(o))' /\ Loans!RefusedWhenStale
      BY <2>1, <2>4, Dropped
    <2> QED BY <2>1, <2>3, <2>4, <2>5, Stepped
  <1> QED BY <1>1, <1>2, <1>3, <1>4

\* A handler that waits for the wallet, the block or the route.
LEMMA Handled ==
  ASSUME LoansInv, UNCHANGED <<account, page, price, events, rows>>, LoansKept,
         NEW k \in calls, Loans!Clicked(k), NEW new, Loans!Advance(k, new), SameCall(new, k),
         StageOK(new)', k.kind = "repay" => new.loan # 0,
         k.kind = "borrow" /\ k.why = "pending" /\ new.why = "collateral" => Loans!StaleQuote(k)
  PROVE  LoansStep
  <1>1. CallOK(k)
    BY DEF LoansInv, PageInv
  <1>2. CallOK(new)'
    BY <1>1, HandlerOK
  <1>3. RecordsInv'
    BY RecordsStay
  <1> QED BY <1>2, <1>3, Replies

LEMMA NextPcKeeps ==
  ASSUME LoansInv, UNCHANGED <<account, page, loans, price, events, rows>>,
         NEW k \in calls, Loans!Clicked(k), NEW v, Loans!Advance(k, [k EXCEPT !.pc = v]),
         k.why # "none" => v \in {"post", "receipt", "sync", "reply"},
         v \in {"sync", "reply"} => k.why = "mined"
  PROVE  LoansStep
  <1>1. PICK new : new = [k EXCEPT !.pc = v]
    OBVIOUS
  <1>2. CallOK(k) /\ LoansKept
    BY LoansSame DEF LoansInv, PageInv
  <1>3. SameCall(new, k) /\ new.pc = v /\ new.why = k.why /\ new.signer = k.signer /\ new.loan = k.loan
    BY <1>1, <1>2, NextPc
  <1>4. StageOK(k) /\ (k.kind = "repay" => k.loan # 0)
    BY <1>2 DEF CallOK, Loans!Clicked
  <1>5. StageOK(new)'
    BY <1>3, <1>4 DEF StageOK, SameCall
  <1>6. Loans!Advance(k, new)
    BY <1>1
  <1>7. ~(k.why = "pending" /\ new.why = "collateral")
    BY <1>3
  <1> QED BY <1>2, <1>3, <1>4, <1>5, <1>6, <1>7, Handled

LEMMA SignKeeps ==
  ASSUME LoansInv, NEW k \in calls, Loans!Clicked(k), NEW v \in {"approve", "send", "post"},
         k.pc \in {"deposit", "approve", "send"}, Loans!Sign(k, v)
  PROVE  LoansStep
  <1>1. /\ UNCHANGED <<account, page, loans, price, events, rows>> /\ account \in Wallets
        /\ CallOK(k) /\ LoansKept
    BY LoansSame DEF Loans!Sign, LoansInv, PageInv
  <1>2. PICK s : s = IF v = "post" THEN account ELSE k.signer
    OBVIOUS
  <1>3. PICK y : y = IF v = "post" THEN "pending" ELSE k.why
    OBVIOUS
  <1>4. PICK new : new = [k EXCEPT !.pc = v, !.signer = s, !.why = y]
    OBVIOUS
  <1>5. Loans!Advance(k, new)
    BY <1>2, <1>3, <1>4 DEF Loans!Sign
  <1>6. SameCall(new, k) /\ new.pc = v /\ new.why = y /\ new.signer = s /\ new.loan = k.loan
    BY <1>1, <1>4 DEF CallOK, Loans!Clicked, Shape, BorrowFields, RepayFields, SameCall
  <1>7. StageOK(k) /\ (k.kind = "repay" => k.loan # 0)
    BY <1>1 DEF CallOK, Loans!Clicked
  <1>8. k.why = "none"
    BY <1>7 DEF StageOK
  <1>9. StageOK(new)' /\ new.why # "collateral"
    BY <1>1, <1>2, <1>3, <1>6, <1>7, <1>8 DEF StageOK, SameCall
  <1> QED BY <1>1, <1>5, <1>6, <1>7, <1>9, Handled

LEMMA SigningKeeps ==
  ASSUME LoansInv, NEW k \in calls
  PROVE  /\ Loans!clientBorrowLoan(k) => LoansStep
         /\ Loans!clientRepayLoan(k) => LoansStep
         /\ Loans!SignFails(k) => LoansStep
  <1>0. CallOK(k)
    BY DEF LoansInv, PageInv
  <1>1. ASSUME Loans!clientBorrowLoan(k) PROVE LoansStep
    <2>1. Loans!Clicked(k) /\ k.pc \in {"deposit", "approve", "send"}
      BY <1>1 DEF Loans!clientBorrowLoan, Loans!Clicked
    <2>2. \E v \in {"approve", "send", "post"} : Loans!Sign(k, v)
      BY <1>1 DEF Loans!clientBorrowLoan
    <2> QED BY <2>1, <2>2, SignKeeps
  <1>2. ASSUME Loans!clientRepayLoan(k) PROVE LoansStep
    <2>1. Loans!Clicked(k) /\ k.pc \in {"deposit", "approve", "send"}
      BY <1>2 DEF Loans!clientRepayLoan, Loans!Clicked
    <2>2. \E v \in {"approve", "send", "post"} : Loans!Sign(k, v)
      BY <1>2 DEF Loans!clientRepayLoan
    <2> QED BY <2>1, <2>2, SignKeeps
  <1>3. ASSUME Loans!SignFails(k) PROVE LoansStep
    <2>1. Loans!Clicked(k) /\ k.pc \in {"deposit", "approve", "send"} /\ StageOK(k)
      BY <1>0, <1>3 DEF CallOK, Loans!SignFails, Loans!Clicked
    <2>2. UNCHANGED <<account, loans, price, events, rows>> /\ k.why = "none"
      BY <1>3, <2>1 DEF Loans!SignFails, StageOK
    <2>3. CASE Loans!Advance(k, [k EXCEPT !.pc = "approve"]) /\ page' = page
      BY <2>1, <2>2, <2>3, NextPcKeeps
    <2>4. CASE Loans!End(k, FALSE)
      BY <2>2, <2>4, Ended
    <2> QED BY <1>3, <2>3, <2>4 DEF Loans!SignFails
  <1> QED BY <1>1, <1>2, <1>3

LEMMA RouteKeeps ==
  ASSUME LoansInv, NEW k \in calls
  PROVE  /\ Loans!BorrowGate(k) => LoansStep
         /\ Loans!Reply(k) => LoansStep
         /\ Loans!PostFails(k) => LoansStep
         /\ Loans!TriggerSync(k) => LoansStep
  <1>0. CallOK(k)
    BY DEF LoansInv, PageInv
  <1>1. ASSUME Loans!BorrowGate(k) PROVE LoansStep
    <2>1. UNCHANGED <<account, loans, price, events, rows>> /\ Loans!Clicked(k) /\ k.pc = "post"
      BY <1>1 DEF Loans!BorrowGate, Loans!Clicked
    <2>2. CASE Loans!Advance(k, [k EXCEPT !.pc = "receipt"]) /\ page' = page
      BY <2>1, <2>2, NextPcKeeps
    <2>3. CASE Loans!End(k, FALSE)
      BY <2>1, <2>3, Ended
    <2> QED BY <1>1, <2>2, <2>3 DEF Loans!BorrowGate
  <1>2. ASSUME Loans!Reply(k) PROVE LoansStep
    <2>1. UNCHANGED <<account, loans, price, events, rows>> /\ k.pc = "reply" /\ Loans!End(k, TRUE)
      BY <1>2 DEF Loans!Reply
    <2>2. k.kind = "borrow" => k.why # "pending"
      BY <1>0, <2>1 DEF CallOK, StageOK
    <2> QED BY <2>1, <2>2, Ended
  <1>3. ASSUME Loans!PostFails(k) PROVE LoansStep
    BY <1>3, Ended DEF Loans!PostFails
  <1>4. ASSUME Loans!TriggerSync(k) PROVE LoansStep
    <2>1. /\ UNCHANGED <<account, page, loans, price, events>> /\ k.pc = "sync"
          /\ Loans!Advance(k, [k EXCEPT !.pc = "reply"])
      BY <1>4 DEF Loans!TriggerSync
    <2>2. PICK source : source = IF k.kind = "borrow" THEN <<"loan_created", k.chain>> ELSE <<"loan_repaid">>
      OBVIOUS
    <2>3. PICK row : row = [source |-> source, wallet |-> k.wallet, tx |-> Loans!Tx(k)]
      OBVIOUS
    <2>4. rows' \subseteq rows \cup {row}
      BY <1>4, <2>2, <2>3 DEF Loans!TriggerSync
    <2>5. RowOK(row)
      <3>1. row.source = source /\ row.tx.ok /\ row.tx.chain = k.chain
        BY <2>3 DEF Loans!Tx
      <3>2. CASE k.kind = "borrow"
        <4>1. source[1] = "loan_created" /\ source[2] = k.chain
          BY <2>2, <3>2
        <4> QED BY <3>1, <4>1 DEF RowOK, Loans!isLoanTxSuccessful, Loans!chainFromTriggerSource
      <3>3. CASE k.kind # "borrow"
        <4>1. source[1] = "loan_repaid"
          BY <2>2, <3>3
        <4> QED BY <3>1, <4>1 DEF RowOK, Loans!isLoanTxSuccessful, Loans!chainFromTriggerSource
      <3> QED BY <3>2, <3>3
    <2>6. LoansKept
      BY <2>1, LoansSame DEF LoansInv
    <2>7. RecordsInv'
      <3>1. \A e \in events' : EventOK(e)'
        BY <2>1, <2>6, EventStays DEF LoansInv, RecordsInv
      <3>2. \A r \in rows' : RowOK(r)'
        BY <2>4, <2>5 DEF LoansInv, RecordsInv, RowOK
      <3> QED BY <3>1, <3>2 DEF RecordsInv
    <2>8. Loans!Clicked(k) /\ StageOK(k) /\ k.why = "mined" /\ (k.kind = "repay" => k.loan # 0)
      BY <1>0, <2>1 DEF CallOK, Loans!Clicked, StageOK
    <2>9. PICK new : new = [k EXCEPT !.pc = "reply"]
      OBVIOUS
    <2>10. SameCall(new, k) /\ new.pc = "reply" /\ new.why = k.why /\ new.signer = k.signer
           /\ new.loan = k.loan
      BY <1>0, <2>8, <2>9, NextPc
    <2>11. StageOK(new)'
      BY <2>1, <2>8, <2>10 DEF StageOK, SameCall
    <2>12. CallOK(new)'
      BY <1>0, <2>8, <2>10, <2>11, HandlerOK
    <2>13. Loans!Advance(k, new)
      BY <2>1, <2>9
    <2> QED BY <2>1, <2>6, <2>7, <2>8, <2>12, <2>13, Replies
  <1> QED BY <1>1, <1>2, <1>3, <1>4

LEMMA SameArithmetic ==
  ASSUME NEW borrow, NEW score, NEW quoted, NEW now
  PROVE  /\ Loans!MaxBorrow(Loans!ValueOf(
               Loans!collateralForBorrow(borrow, Loans!getLTVForScore(score), quoted), now),
               Loans!getLTVForScore(score))
            = MaxBorrow(ValueOf(collateralForBorrow(borrow, getLTVForScore(score), quoted), now),
                        getLTVForScore(score))
         /\ Loans!Bps = Bps
  BY DEF Loans!MaxBorrow, MaxBorrow, Loans!ValueOf, ValueOf, Loans!collateralForBorrow,
         collateralForBorrow, Loans!getLTVForScore, getLTVForScore, Loans!IsTopTier, IsTopTier,
         Loans!Tiers, Tiers, Loans!scoreTiers, scoreTiers, Loans!ltvTiers, ltvTiers, Loans!Bps, Bps,
         Loans!Greater, Greater, Loans!COLLATERAL_BUFFER_BPS, COLLATERAL_BUFFER_BPS

\* A quote that is not stale is enough.
LEMMA NotStale ==
  ASSUME LoansInv, NEW k \in calls, k.kind = "borrow", k.why = "pending", ~Loans!StaleQuote(k)
  PROVE  Loans!MaxBorrow(Loans!ValueOf(k.quote.collateral, price),
                         Loans!getLTVForScore(ScoreOf[k.signer])) >= k.amount
  <1>1. /\ k.quote.amount = k.amount /\ ScoreOf[k.quote.wallet] = ScoreOf[k.signer]
        /\ ~(price * Loans!Bps < k.quote.price * (Loans!Bps - Drift))
    BY DEF Loans!StaleQuote
  <1>2. GoodQuote(k.quote) /\ price \in Prices
    BY DEF LoansInv, PageInv, CallOK
  <1>3. PICK score : score = ScoreOf[k.quote.wallet]
    OBVIOUS
  <1>4. score \in scoreTiers[1] .. MaxScore
    BY <1>2, <1>3, LoansAssumption DEF GoodQuote
  <1>5. PICK quoted \in Prices : quoted = k.quote.price
    BY <1>2 DEF GoodQuote
  <1>6. PICK borrow \in Amounts : borrow = k.quote.amount
    BY <1>2 DEF GoodQuote
  <1>7. k.quote.collateral = Loans!collateralForBorrow(borrow, Loans!getLTVForScore(score), quoted)
    BY <1>2, <1>3, <1>5, <1>6 DEF GoodQuote
  <1>8. ~(price * Bps < quoted * (Bps - Drift))
    BY <1>1, <1>5, SameArithmetic
  <1>9. MaxBorrow(ValueOf(collateralForBorrow(borrow, getLTVForScore(score), quoted), price),
                  getLTVForScore(score)) >= borrow
    BY <1>2, <1>4, <1>8, QuoteSuffices
  <1>10. Loans!MaxBorrow(Loans!ValueOf(
           Loans!collateralForBorrow(borrow, Loans!getLTVForScore(score), quoted), price),
           Loans!getLTVForScore(score)) >= borrow
    BY <1>9, SameArithmetic
  <1> QED BY <1>1, <1>3, <1>6, <1>7, <1>10

LEMMA MineKeeps ==
  ASSUME LoansInv, NEW k \in calls, Loans!Mine(k)
  PROVE  LoansStep
  <1>1. /\ UNCHANGED <<account, page, price, events, rows>> /\ Loans!Clicked(k) /\ k.why = "pending"
        /\ Once /\ CallOK(k)
    BY DEF Loans!Mine, Loans!Clicked, LoansInv, PageInv
  <1>2. StageOK(k) /\ k.signer \in Wallets /\ k.chain \in Chains /\ (k.kind = "repay" => k.loan # 0)
        /\ k.pc \in {"post", "receipt"}
    BY <1>1 DEF CallOK, Loans!Clicked, StageOK
  <1>3. ASSUME NEW v, v \in {"collateral", "reverted"}, Loans!Advance(k, [k EXCEPT !.why = v]),
               UNCHANGED loans, k.kind = "borrow" /\ v = "collateral" => Loans!StaleQuote(k)
        PROVE  LoansStep
    <2>1. PICK new : new = [k EXCEPT !.why = v]
      OBVIOUS
    <2>2. SameCall(new, k) /\ new.pc = k.pc /\ new.why = v /\ new.signer = k.signer
          /\ new.loan = k.loan
      BY <1>1, <2>1, NextWhy
    <2>3. StageOK(new)' /\ LoansKept
      BY <1>1, <1>2, <1>3, <2>2, LoansSame DEF StageOK, SameCall
    <2>4. Loans!Advance(k, new)
      BY <1>3, <2>1
    <2> QED BY <1>1, <1>2, <1>3, <2>2, <2>3, <2>4, Handled
  <1>4. CASE /\ k.kind = "borrow" /\ Loans!activeLoanId(k.chain, k.signer) = 0
             /\ loans' = [loans EXCEPT ![k.chain] = Append(@, Loans!Loan(k.signer))]
             /\ Loans!Advance(k, [k EXCEPT !.why = "mined", !.loan = Len(loans[k.chain]) + 1])
    <2>1. PICK l : l = Len(loans[k.chain]) + 1
      OBVIOUS
    <2>2. PICK new : new = [k EXCEPT !.why = "mined", !.loan = l]
      OBVIOUS
    <2>3. SameCall(new, k) /\ new.pc = k.pc /\ new.why = "mined" /\ new.signer = k.signer
          /\ new.loan = l
      BY <1>1, <2>2 DEF CallOK, Loans!Clicked, Shape, BorrowFields, RepayFields, SameCall
    <2>4. LoansKept /\ l \in DOMAIN loans'[k.chain] /\ loans'[k.chain][l].borrower = k.signer
      BY <1>1, <1>2, <1>4, <2>1, Opens
    <2>5. StageOK(new)'
      BY <1>2, <1>4, <2>3, <2>4 DEF StageOK, SameCall
    <2>6. Loans!Advance(k, new)
      BY <1>4, <2>1, <2>2
    <2>7. new.why # "collateral"
      BY <2>3
    <2> QED BY <1>1, <1>4, <2>3, <2>4, <2>5, <2>6, <2>7, Handled
  <1>5. CASE /\ k.kind = "repay" /\ k.loan = Loans!activeLoanId(k.chain, k.signer)
             /\ loans' = [loans EXCEPT ![k.chain][k.loan].active = FALSE]
             /\ Loans!Advance(k, [k EXCEPT !.why = "mined"])
    <2>1. PICK new : new = [k EXCEPT !.why = "mined"]
      OBVIOUS
    <2>2. SameCall(new, k) /\ new.pc = k.pc /\ new.why = "mined" /\ new.signer = k.signer
          /\ new.loan = k.loan
      BY <1>1, <2>1, NextWhy
    <2>3. k.loan \in DOMAIN loans[k.chain] /\ loans[k.chain][k.loan].borrower = k.signer
      <3>1. PICK c \in Chains : c = k.chain
        BY <1>2
      <3>2. PICK id : id = Loans!activeLoanId(c, k.signer)
        OBVIOUS
      <3>3. id # 0 /\ id = k.loan
        BY <1>2, <1>5, <3>1, <3>2
      <3>4. id \in DOMAIN loans[c] /\ loans[c][id] = Loans!Loan(k.signer)
        BY <1>1, <3>2, <3>3, ActiveLoan
      <3> QED BY <3>1, <3>3, <3>4 DEF Loans!Loan
    <2>4. LoansKept /\ ~loans'[k.chain][k.loan].active
      BY <1>1, <1>2, <1>5, <2>3, Closes
    <2>5. k.loan \in DOMAIN loans'[k.chain] /\ loans'[k.chain][k.loan].borrower = k.signer
      BY <1>2, <2>3, <2>4 DEF LoansKept
    <2>6. StageOK(new)'
      BY <1>2, <2>2, <2>4, <2>5 DEF StageOK, SameCall
    <2>7. Loans!Advance(k, new)
      BY <1>5, <2>1
    <2> QED BY <1>1, <1>2, <1>5, <2>2, <2>4, <2>6, <2>7, Handled
  <1>6. CASE /\ k.kind = "borrow"
             /\ ~(Loans!MaxBorrow(Loans!ValueOf(k.quote.collateral, price),
                                  Loans!getLTVForScore(ScoreOf[k.signer])) >= k.amount)
             /\ Loans!Advance(k, [k EXCEPT !.why = "collateral"]) /\ loans' = loans
    <2>1. Loans!StaleQuote(k)
      BY <1>1, <1>6, NotStale
    <2> QED BY <1>3, <1>6, <2>1
  <1>7. CASE Loans!Advance(k, [k EXCEPT !.why = "reverted"]) /\ loans' = loans
    BY <1>3, <1>7
  <1> QED BY <1>4, <1>5, <1>6, <1>7 DEF Loans!Mine

LEMMA Persisted ==
  ASSUME LoansInv, UNCHANGED <<account, page, loans, price, rows>>,
         NEW k \in calls, Loans!Clicked(k), k.why = "mined",
         NEW kind, NEW id, Loans!persistLoanEvent(k, kind, id), EventOK(Loans!Event(k, kind, id))
  PROVE  LoansStep
  <1>1. CallOK(k) /\ LoansKept
    BY LoansSame DEF LoansInv, PageInv
  <1>2. PICK event : event = Loans!Event(k, kind, id)
    OBVIOUS
  <1>3. events' \subseteq events \cup {event} /\ EventOK(event)
    BY <1>2 DEF Loans!persistLoanEvent
  <1>4. RecordsInv'
    <2>1. \A e \in events' : EventOK(e)'
      BY <1>1, <1>3, EventStays DEF LoansInv, RecordsInv
    <2>2. \A r \in rows' : RowOK(r)'
      BY DEF LoansInv, RecordsInv, RowOK
    <2> QED BY <2>1, <2>2 DEF RecordsInv
  <1>5. PICK new : new = [k EXCEPT !.pc = "sync"]
    OBVIOUS
  <1>6. /\ SameCall(new, k) /\ new.pc = "sync" /\ new.why = k.why /\ new.signer = k.signer
        /\ new.loan = k.loan
    BY <1>1, <1>5, NextPc
  <1>7. StageOK(k) /\ (k.kind = "repay" => k.loan # 0)
    BY <1>1 DEF CallOK, Loans!Clicked
  <1>8. StageOK(new)'
    BY <1>6, <1>7 DEF StageOK, SameCall
  <1>9. CallOK(new)'
    BY <1>1, <1>6, <1>7, <1>8, HandlerOK
  <1>10. Loans!Advance(k, new) /\ new.why # "collateral"
    BY <1>5, <1>6 DEF Loans!persistLoanEvent
  <1> QED BY <1>1, <1>4, <1>9, <1>10, Replies

\* A transaction of the wallet's own opened a loan; the one that is active
\* when the receipt is read is this one or a later one.
LEMMA OpeningTrue ==
  ASSUME LoansInv, NEW k \in calls, k.kind = "borrow", k.why = "mined",
         NEW id, id = Loans!activeLoanId(k.chain, k.wallet), id # 0
  PROVE  EventOK(Loans!Event(k, "created", id))
  <1>1. CallOK(k) /\ Once /\ StageOK(k)
    BY DEF LoansInv, PageInv, CallOK
  <1>2. PICK e : e = Loans!Event(k, "created", id)
    OBVIOUS
  <1>3. /\ e.kind = "created" /\ e.wallet = k.wallet /\ e.chain = k.chain /\ e.loan = id
        /\ e.tx.signer = k.signer /\ e.tx.loan = k.loan
    BY <1>2 DEF Loans!Event, Loans!Tx
  <1>4. PICK c \in Chains : c = k.chain
    BY <1>1 DEF StageOK
  <1>5. id \in DOMAIN loans[c] /\ loans[c][id] = Loans!Loan(k.wallet)
    BY <1>1, <1>4, ActiveLoan
  <1>6. loans[c][id].borrower = k.wallet /\ loans[c][id].active
    BY <1>5 DEF Loans!Loan
  <1>7. k.loan \in DOMAIN loans[c] /\ loans[c][k.loan].borrower = k.signer
    BY <1>1, <1>4 DEF StageOK
  <1>8. DOMAIN loans[c] = 1 .. Len(loans[c])
    <2>1. loans[c] \in Seq([borrower : Wallets, active : BOOLEAN])
      BY <1>1 DEF Once
    <2> QED BY <2>1, LenProperties
  <1>9. ASSUME k.signer = k.wallet PROVE id >= k.loan
    <2>1. ~(id < k.loan)
      BY <1>1, <1>5, <1>6, <1>7, <1>9 DEF Once
    <2> QED BY <1>1, <1>5, <1>7, <1>8, <2>1
  <1>10. EventOK(e)
    BY <1>3, <1>4, <1>5, <1>6, <1>9 DEF EventOK
  <1> QED BY <1>2, <1>10

LEMMA ReceiptKeeps ==
  ASSUME LoansInv, NEW k \in calls
  PROVE  /\ Loans!BorrowReceipt(k) => LoansStep
         /\ Loans!RepayReceipt(k) => LoansStep
  <1>0. CallOK(k)
    BY DEF LoansInv, PageInv
  <1>1. ASSUME Loans!BorrowReceipt(k) PROVE LoansStep
    <2>1. PICK id : id = Loans!activeLoanId(k.chain, k.wallet)
      OBVIOUS
    <2>2. /\ UNCHANGED <<account, loans, price, rows>> /\ Loans!Clicked(k) /\ k.why = "mined"
          /\ k.kind = "borrow"
          /\ IF id = 0 THEN Loans!End(k, FALSE) /\ events' = events
                       ELSE Loans!persistLoanEvent(k, "created", id) /\ page' = page
      BY <1>1, <2>1 DEF Loans!BorrowReceipt, Loans!Clicked
    <2>3. CASE id = 0
      BY <2>2, <2>3, Ended
    <2>4. CASE id # 0
      <3>1. EventOK(Loans!Event(k, "created", id))
        BY <2>1, <2>2, <2>4, OpeningTrue
      <3>2. Loans!persistLoanEvent(k, "created", id) /\ UNCHANGED page
        BY <2>2, <2>4
      <3> QED BY <2>2, <3>1, <3>2, Persisted
    <2> QED BY <2>3, <2>4
  <1>2. ASSUME Loans!RepayReceipt(k) PROVE LoansStep
    <2>1. /\ UNCHANGED <<account, page, loans, price, rows>> /\ Loans!Clicked(k) /\ k.why = "mined"
          /\ k.kind = "repay" /\ Loans!persistLoanEvent(k, "repaid", k.loan)
      BY <1>2 DEF Loans!RepayReceipt, Loans!Clicked
    <2>2. StageOK(k)
      BY <1>0, <2>1 DEF CallOK
    <2>3. PICK e : e = Loans!Event(k, "repaid", k.loan)
      OBVIOUS
    <2>4. /\ e.kind = "repaid" /\ e.wallet = k.wallet /\ e.chain = k.chain /\ e.loan = k.loan
          /\ e.tx.signer = k.signer
      BY <2>3 DEF Loans!Event, Loans!Tx
    <2>5. EventOK(e)
      BY <2>1, <2>2, <2>4 DEF EventOK, StageOK
    <2> QED BY <2>1, <2>3, <2>5, Persisted
  <1> QED BY <1>1, <1>2

LEMMA OutsideKeeps ==
  ASSUME LoansInv
  PROVE  /\ Loans!PriceMoves => LoansStep
         /\ (\E c \in Chains, w \in Wallets : Loans!OtherDevice(c, w)) => LoansStep
         /\ (\E w \in Wallets : Loans!ScoreRun(w)) => LoansStep
  <1>1. ASSUME LoansKept, UNCHANGED <<account, page, calls, events, rows>>, price' \in Prices
        PROVE  LoansStep
    <2>1. \A k \in calls' : CallOK(k)'
      BY <1>1, CallStays DEF LoansInv, PageInv
    <2>2. PageInv'
      BY <1>1, <2>1 DEF LoansInv, PageInv, PageOK, QuoteOK, GoodQuote
    <2>3. RecordsInv'
      BY <1>1, RecordsStay
    <2>4. Loans!RefusedWhenStale
      BY <1>1 DEF Loans!RefusedWhenStale
    <2> QED BY <1>1, <2>2, <2>3, <2>4 DEF LoansStep, LoansInv, LoansKept
  <1>2. ASSUME Loans!PriceMoves PROVE LoansStep
    BY <1>1, <1>2, LoansSame DEF Loans!PriceMoves, LoansInv
  <1>3. ASSUME NEW c \in Chains, NEW w \in Wallets, Loans!OtherDevice(c, w) PROVE LoansStep
    <2>1. PICK id : id = Loans!activeLoanId(c, w)
      OBVIOUS
    <2>2. /\ UNCHANGED <<account, page, calls, price, events, rows>>
          /\ IF id # 0 THEN loans' = [loans EXCEPT ![c][id].active = FALSE]
             ELSE loans' = [loans EXCEPT ![c] = Append(@, Loans!Loan(w))]
      BY <1>3, <2>1 DEF Loans!OtherDevice
    <2>3. CASE id = 0
      <3>1. LoansKept
        BY <2>1, <2>2, <2>3, Opens DEF LoansInv
      <3> QED BY <1>1, <2>2, <3>1 DEF LoansInv, PageInv
    <2>4. CASE id # 0
      <3>1. id \in DOMAIN loans[c]
        BY <2>1, <2>4, ActiveLoan DEF LoansInv
      <3>2. LoansKept
        BY <2>2, <2>4, <3>1, Closes DEF LoansInv
      <3> QED BY <1>1, <2>2, <3>2 DEF LoansInv, PageInv
    <2> QED BY <2>3, <2>4
  <1>4. ASSUME NEW w \in Wallets, Loans!ScoreRun(w) PROVE LoansStep
    <2>1. UNCHANGED <<account, page, calls, loans, price, events, rows>>
      BY <1>4 DEF Loans!ScoreRun
    <2> QED BY <1>1, <2>1, LoansSame DEF LoansInv, PageInv
  <1> QED BY <1>2, <1>3, <1>4

LEMMA LoansActions ==
  ASSUME LoansInv, Loans!LoansNext
  PROVE  LoansStep
  <1>1. ASSUME NEW k \in calls,
               \/ Loans!GetLoans(k) \/ Loans!LoansAnswer(k) \/ Loans!GetQuote(k) \/ Loans!QuoteAnswer(k)
               \/ Loans!clientBorrowLoan(k) \/ Loans!clientRepayLoan(k) \/ Loans!SignFails(k)
               \/ Loans!Mine(k) \/ Loans!BorrowGate(k) \/ Loans!BorrowReceipt(k)
               \/ Loans!RepayReceipt(k) \/ Loans!TriggerSync(k) \/ Loans!Reply(k)
               \/ Loans!PostFails(k)
        PROVE  LoansStep
    BY <1>1, RoutesKeep, SigningKeeps, MineKeeps, RouteKeeps, ReceiptKeeps
  <1> QED BY <1>1, PageKeeps, ClickKeeps, OutsideKeeps DEF Loans!LoansNext

-----------------------------------------------------------------------------
LEMMA LoansBegin == Init => LoansInv
  <1> SUFFICES ASSUME Init PROVE LoansInv
    OBVIOUS
  <1>1. Loans!LoansInit
    BY DEF Init
  <1>2. account \in Wallets /\ price \in Prices
    BY <1>1, LoansAssumption DEF Loans!LoansInit
  <1>3. PageOK(page)
    BY <1>1, StartAmountOK DEF Loans!LoansInit, PageOK, Shape, PageFields, QuoteOK
  <1>4. \A k \in calls : CallOK(k)
    BY <1>1 DEF Loans!LoansInit, Loans!LoadCall, CallOK
  <1>5. Once
    <2>1. \A c \in Chains : loans[c] = <<>>
      BY <1>1 DEF Loans!LoansInit
    <2>2. loans \in [Chains -> Seq([borrower : Wallets, active : BOOLEAN])]
      BY <1>1 DEF Loans!LoansInit
    <2> QED BY <2>1, <2>2 DEF Once
  <1>6. events = {} /\ rows = {}
    BY <1>1 DEF Loans!LoansInit
  <1> QED BY <1>2, <1>3, <1>4, <1>5, <1>6 DEF LoansInv, PageInv, RecordsInv

\* LoansInv is an invariant of the page, and no step of it refuses a loan
\* whose quote was good.
LEMMA LoansKeepInv ==
  LoansInv /\ [Next]_clientVars => LoansInv' /\ [Loans!RefusedWhenStale]_clientVars
  <1> SUFFICES ASSUME LoansInv, [Next]_clientVars
               PROVE  LoansInv' /\ (Loans!RefusedWhenStale \/ UNCHANGED clientVars)
    OBVIOUS
  <1>1. CASE InLoans /\ Loans!LoansNext
    BY <1>1, LoansActions DEF LoansStep
  <1>2. CASE UNCHANGED loansVars
    <2>1. UNCHANGED <<account, page, calls, loans, price, events, rows>>
      BY <1>2 DEF loansVars
    <2>2. Loans!RefusedWhenStale
      BY <2>1 DEF Loans!RefusedWhenStale
    <2>3. LoansKept
      BY <2>1, LoansSame DEF LoansInv
    <2>4. PageInv'
      <3>1. \A k \in calls' : CallOK(k)'
        BY <2>1, <2>3, CallStays DEF LoansInv, PageInv
      <3> QED BY <2>1, <3>1 DEF LoansInv, PageInv, PageOK, QuoteOK, GoodQuote
    <2>5. RecordsInv'
      BY <2>1, <2>3, RecordsStay
    <2> QED BY <2>2, <2>3, <2>4, <2>5 DEF LoansInv, LoansKept
  <1>3. (InLoans /\ Loans!LoansNext) \/ UNCHANGED loansVars
    BY DEF Next, InAccount, InPrep, InDefault, InAgents, InShell, clientVars
  <1> QED BY <1>1, <1>2, <1>3

\* What the Loans tab records of a wallet's own transactions is true,
\* whatever the user does between the click, the receipt and the insert
\* (api/loans/borrow and api/loans/repay).
THEOREM RecordsTrue == Spec => []EventsTrue
  <1>1. LoansInv => EventsTrue
    <2> SUFFICES ASSUME LoansInv PROVE Loans!EventsTrue
      BY DEF EventsTrue
    <2>1. \A e \in events : EventOK(e)
      BY DEF LoansInv, RecordsInv
    <2>2. ASSUME NEW r \in rows, r.source[1] = "loan_created" \/ r.tx.chain = Hub
          PROVE  r \in Loans!filterValidLzBroadcasts(r.wallet)
      BY <2>2 DEF LoansInv, RecordsInv, RowOK, Loans!filterValidLzBroadcasts
    <2> QED BY <2>1, <2>2 DEF EventOK, Loans!EventsTrue
  <1> QED BY <1>1, LoansBegin, LoansKeepInv, PTL DEF Spec

\* A loan is refused for its collateral only when the quote it was taken with
\* had become stale (collateralWeiForBorrow against requestLoan).
THEOREM RefusalsStale == Spec => QuoteOpens
  BY LoansBegin, LoansKeepInv, PTL DEF Spec, QuoteOpens

-----------------------------------------------------------------------------
(* The Prep-wallet tab.                                                    *)

StepNames == {"arbitrum-activity", "base-activity", "arbitrum-aave", "base-aave", "morpho"}

OpNames == {"transfer", "dust", "wrap", "approve", "approveSeed", "supply", "borrowAave",
            "repayAave", "createMarket", "supplyCollateral", "seed", "borrowMorpho",
            "repayMorpho", "withdraw"}

PurseFields == {"weth", "usdc", "allowed", "supplied", "debt", "market", "liquidity",
                "collateral", "shares"}

PurseOK(p) == DOMAIN p = PurseFields /\ p.debt \in Nat /\ p.collateral \in Nat /\ p.shares \in Nat

\* What the end of a step owes, as soon as the run is past the transaction
\* that pays it.
Paid(a) ==
  LET p == purse[Prep!network(Head(a.list))]
  IN  /\ Head(a.list) \in {"arbitrum-aave", "base-aave"} /\ a.at > 6 => p.debt = 0
      /\ Head(a.list) = "morpho" /\ a.at > 9 => p.shares = 0
      /\ Head(a.list) = "morpho" /\ a.at > 10 => p.collateral = 0

AttemptFields == {"id", "list", "client", "at", "covered", "reverted", "here"}

AttemptOK(a) ==
  /\ DOMAIN a = AttemptFields
  /\ a.at \in Nat
  /\ a.list \in Seq(StepNames) /\ a.list # <<>>
  /\ ~shared /\ ~a.reverted => Paid(a)

\* A wallet that was never shared has one run at most, which alone moves what
\* is in it.
PrepInv ==
  /\ DOMAIN purse = Prep!Networks /\ \A n \in Prep!Networks : PurseOK(purse[n])
  /\ \A a \in attempts : AttemptOK(a)
  /\ ~shared => \A a, b \in attempts : a = b

LEMMA NetworkOK ==
  ASSUME NEW step PROVE Prep!network(step) \in Prep!Networks
  BY DEF Prep!network, Prep!Networks

LEMMA HeadOK ==
  ASSUME NEW list \in Seq(StepNames), list # <<>>
  PROVE  Head(list) \in StepNames
  BY HeadTailProperties

\* The lists of transactions, as far as it matters.
LEMMA OpsOK ==
  ASSUME NEW step \in StepNames, NEW n \in 1 .. Len(Prep!runPrepWalletStep(step))
  PROVE  LET op == Prep!runPrepWalletStep(step)[n]
         IN  /\ op.name \in OpNames
             /\ op.name = "approveSeed" => step = "morpho" /\ n = 5
             /\ step \in {"arbitrum-aave", "base-aave"} /\ n = 6 => op.name = "repayAave"
             /\ step = "morpho" /\ n = 9 => op.name = "repayMorpho"
             /\ step = "morpho" /\ n = 10 => op.name = "withdraw"
  <1>1. CASE step \in {"arbitrum-activity", "base-activity"}
    BY <1>1 DEF Prep!runPrepWalletStep, Prep!runActivity, Prep!Op, OpNames
  <1>2. CASE step \in {"arbitrum-aave", "base-aave"}
    BY <1>2 DEF Prep!runPrepWalletStep, Prep!runAave, Prep!Op, OpNames
  <1>3. CASE step = "morpho"
    BY <1>3 DEF Prep!runPrepWalletStep, Prep!runMorpho, Prep!Op, OpNames
  <1> QED BY <1>1, <1>2, <1>3 DEF StepNames

LEMMA Lengths ==
  ASSUME NEW step \in StepNames
  PROVE  /\ Len(Prep!runPrepWalletStep(step)) \in Nat
         /\ step \in {"arbitrum-aave", "base-aave"} =>
              Len(Prep!runPrepWalletStep(step)) = 6
         /\ step = "morpho" => Len(Prep!runPrepWalletStep(step)) = 10
         /\ Prep!runPrepWalletStep(step) = Prep!runAave => step \in {"arbitrum-aave", "base-aave"}
  <1>1. Len(Prep!runActivity) = 4 /\ Len(Prep!runAave) = 6 /\ Len(Prep!runMorpho) = 10
    BY DEF Prep!runActivity, Prep!runAave, Prep!runMorpho
  <1>5. Prep!runActivity # Prep!runAave /\ Prep!runMorpho # Prep!runAave
    <2>1. 4 # 6 /\ 10 # 6
      OBVIOUS
    <2> QED BY <1>1, <2>1, Zenon
  <1>2. CASE step \in {"arbitrum-activity", "base-activity"}
    <2>1. Prep!runPrepWalletStep(step) = Prep!runActivity
      BY <1>2 DEF Prep!runPrepWalletStep
    <2> QED BY <1>1, <1>2, <1>5, <2>1
  <1>3. CASE step \in {"arbitrum-aave", "base-aave"}
    <2>1. Prep!runPrepWalletStep(step) = Prep!runAave
      BY <1>3 DEF Prep!runPrepWalletStep
    <2> QED BY <1>1, <1>3, <2>1
  <1>4. CASE step = "morpho"
    <2>1. Prep!runPrepWalletStep(step) = Prep!runMorpho
      BY <1>4 DEF Prep!runPrepWalletStep
    <2> QED BY <1>1, <1>4, <1>5, <2>1
  <1> QED BY <1>2, <1>3, <1>4 DEF StepNames

\* What a transaction does to the loans.
LEMMA AfterOK ==
  ASSUME NEW op, op.name \in OpNames, NEW p, PurseOK(p)
  PROVE  /\ PurseOK(Prep!After(op, p))
         /\ op.name = "repayAave" => Prep!After(op, p).debt = 0
         /\ op.name = "repayMorpho" => Prep!After(op, p).shares = 0
         /\ op.name = "withdraw" => Prep!After(op, p).collateral = 0
                                    /\ Prep!After(op, p).shares = p.shares
  <1>1. CASE op.name \in {"transfer", "dust", "wrap", "approve", "approveSeed", "supply", "createMarket"}
    BY <1>1 DEF PurseOK, PurseFields, Prep!After
  <1>2. CASE op.name = "borrowAave"
    <2>1. PICK owed \in Nat : owed = p.debt + Prep!BorrowUsdc
      BY DEF PurseOK, Prep!BorrowUsdc
    <2>2. PICK usdc : usdc = p.usdc + Prep!BorrowUsdc
      OBVIOUS
    <2>3. Prep!After(op, p) = [p EXCEPT !.debt = owed, !.usdc = usdc]
      BY <1>2, <2>1, <2>2 DEF Prep!After
    <2> QED BY <1>2, <2>1, <2>3 DEF PurseOK, PurseFields
  <1>3. CASE op.name = "repayAave"
    <2>1. PICK usdc : usdc = p.usdc - p.debt
      OBVIOUS
    <2>2. p.debt - p.debt = 0
      BY DEF PurseOK
    <2>3. Prep!After(op, p) = [p EXCEPT !.usdc = usdc, !.debt = 0]
      BY <1>3, <2>1, <2>2 DEF Prep!After, Prep!AaveRepayment
    <2> QED BY <1>3, <2>3 DEF PurseOK, PurseFields
  <1>4. CASE op.name = "supplyCollateral"
    <2>1. PICK pledged \in Nat : pledged = p.collateral + Prep!SupplyWeth
      BY DEF PurseOK, Prep!SupplyWeth
    <2>2. PICK weth : weth = p.weth - Prep!SupplyWeth
      OBVIOUS
    <2>3. Prep!After(op, p) = [p EXCEPT !.weth = weth, !.collateral = pledged]
      BY <1>4, <2>1, <2>2 DEF Prep!After
    <2> QED BY <1>4, <2>1, <2>3 DEF PurseOK, PurseFields
  <1>5. CASE op.name = "seed"
    BY <1>5 DEF PurseOK, PurseFields, Prep!After
  <1>6. CASE op.name = "borrowMorpho"
    <2>1. PICK owed \in Nat : owed = p.shares + Prep!BorrowUsdc
      BY DEF PurseOK, Prep!BorrowUsdc
    <2>2. PICK usdc : usdc = p.usdc + Prep!BorrowUsdc
      OBVIOUS
    <2>3. PICK left : left = p.liquidity - Prep!BorrowUsdc
      OBVIOUS
    <2>4. Prep!After(op, p) = [p EXCEPT !.shares = owed, !.usdc = usdc, !.liquidity = left]
      BY <1>6, <2>1, <2>2, <2>3 DEF Prep!After
    <2> QED BY <1>6, <2>1, <2>4 DEF PurseOK, PurseFields
  <1>7. CASE op.name = "repayMorpho"
    BY <1>7 DEF PurseOK, PurseFields, Prep!After
  <1>8. CASE op.name = "withdraw"
    BY <1>8 DEF PurseOK, PurseFields, Prep!After
  <1> QED BY <1>1, <1>2, <1>3, <1>4, <1>5, <1>6, <1>7, <1>8 DEF OpNames

\* A run is replaced by its next state, and the purse is as it was or as the
\* transaction leaves it.
LEMMA Replaced ==
  ASSUME PrepInv, NEW a \in attempts, NEW new, Prep!Replace(a, new), UNCHANGED shared,
         DOMAIN purse' = Prep!Networks, \A n \in Prep!Networks : PurseOK(purse'[n]),
         AttemptOK(new)'
  PROVE  PrepInv'
  <1>1. CASE shared
    BY <1>1 DEF PrepInv, Prep!Replace, AttemptOK
  <1>2. CASE ~shared
    BY <1>2 DEF PrepInv, Prep!Replace
  <1> QED BY <1>1, <1>2

LEMMA Removed ==
  ASSUME PrepInv, NEW a \in attempts, attempts' = attempts \ {a}, UNCHANGED shared,
         DOMAIN purse' = Prep!Networks, \A n \in Prep!Networks : PurseOK(purse'[n])
  PROVE  PrepInv'
  <1>1. CASE shared
    BY <1>1 DEF PrepInv, AttemptOK
  <1>2. CASE ~shared
    BY <1>2 DEF PrepInv
  <1> QED BY <1>1, <1>2


\* What a run at a transaction is about.
LEMMA AtOpOK ==
  ASSUME PrepInv, NEW a \in attempts, Prep!AtOp(a)
  PROVE  /\ AttemptOK(a)
         /\ Head(a.list) \in StepNames
         /\ Prep!network(Head(a.list)) \in Prep!Networks
         /\ PurseOK(purse[Prep!network(Head(a.list))])
         /\ a.at \in 1 .. Len(Prep!runPrepWalletStep(Head(a.list)))
         /\ Prep!Current(a) = Prep!runPrepWalletStep(Head(a.list))[a.at]
         /\ Prep!Current(a).name \in OpNames
  <1>1. AttemptOK(a) /\ Head(a.list) \in StepNames /\ Prep!network(Head(a.list)) \in Prep!Networks
    BY HeadOK, NetworkOK DEF PrepInv, AttemptOK
  <1>2. /\ a.at \in 1 .. Len(Prep!runPrepWalletStep(Head(a.list)))
        /\ Prep!Current(a) = Prep!runPrepWalletStep(Head(a.list))[a.at]
    BY DEF Prep!AtOp, Prep!Current
  <1> QED BY <1>1, <1>2, OpsOK DEF PrepInv

\* A transaction that is not needed, or a whole pair of them.
LEMMA SkipKeeps ==
  ASSUME PrepInv, NEW a \in attempts, Prep!SkipOp(a)
  PROVE  PrepInv'
  <1> DEFINE step == Head(a.list)
             p    == purse[Prep!network(step)]
             op   == Prep!Current(a)
  <1>1. Prep!AtOp(a) /\ ~Prep!Needed(op, p, a.covered) /\ UNCHANGED <<purse, shared>>
    BY DEF Prep!SkipOp
  <1>2. PICK at : at = a.at + (IF op.name = "approveSeed" /\ ~Prep!Dry(p) THEN 2 ELSE 1)
    OBVIOUS
  <1>3. PICK new : new = [a EXCEPT !.at = at]
    OBVIOUS
  <1>4. Prep!Replace(a, new)
    BY <1>2, <1>3 DEF Prep!SkipOp
  <1>5. /\ AttemptOK(a) /\ step \in StepNames /\ PurseOK(p) /\ op.name \in OpNames
        /\ a.at \in 1 .. Len(Prep!runPrepWalletStep(step))
        /\ op = Prep!runPrepWalletStep(step)[a.at]
    BY <1>1, AtOpOK
  <1>6. /\ op.name = "approveSeed" => step = "morpho" /\ a.at = 5
        /\ step \in {"arbitrum-aave", "base-aave"} /\ a.at = 6 => op.name = "repayAave"
        /\ step = "morpho" /\ a.at = 9 => op.name = "repayMorpho"
        /\ step = "morpho" /\ a.at = 10 => op.name = "withdraw"
    BY <1>5, OpsOK
  <1>7. /\ op.name # "repayAave"
        /\ op.name = "repayMorpho" => p.shares = 0
        /\ op.name = "withdraw" => p.collateral = 0
    BY <1>1, <1>5 DEF Prep!Needed, PurseOK
  <1>8. /\ DOMAIN new = AttemptFields /\ new.at = at /\ new.list = a.list
        /\ new.reverted = a.reverted
    BY <1>3, <1>5 DEF AttemptOK, AttemptFields
  <1>9. /\ a.at \in Nat /\ at \in Nat /\ at \in {a.at + 1, a.at + 2}
        /\ at = a.at + 2 => step = "morpho" /\ a.at = 5
    BY <1>2, <1>5, <1>6 DEF AttemptOK
  <1>10. /\ step \in {"arbitrum-aave", "base-aave"} => a.at \in 1 .. 6
         /\ step = "morpho" => a.at \in 1 .. 10
    BY <1>5, Lengths
  <1>11. Paid(a) => (Paid(new) /\ Paid(new)')
    BY <1>1, <1>6, <1>7, <1>8, <1>9, <1>10 DEF Paid
  <1>12. AttemptOK(new)'
    BY <1>1, <1>5, <1>8, <1>9, <1>11 DEF AttemptOK
  <1> QED BY <1>1, <1>4, <1>12, Replaced DEF PrepInv

LEMMA FailKeeps ==
  ASSUME PrepInv, NEW a \in attempts, Prep!StepFails(a), UNCHANGED shared,
         DOMAIN purse' = Prep!Networks, \A n \in Prep!Networks : PurseOK(purse'[n])
  PROVE  PrepInv'
  BY Removed DEF Prep!StepFails

LEMMA BeginKeeps ==
  ASSUME PrepInv, NEW a \in attempts, Prep!BeginStep(a)
  PROVE  PrepInv'
  <1>1. UNCHANGED <<purse, shared>>
    BY DEF Prep!BeginStep
  <1>2. CASE Prep!StepFails(a)
    BY <1>1, <1>2, FailKeeps DEF PrepInv
  <1>3. ASSUME NEW covered, Prep!Replace(a, [a EXCEPT !.at = 1, !.reverted = FALSE, !.covered = covered])
        PROVE  PrepInv'
    <2>1. PICK new : new = [a EXCEPT !.at = 1, !.reverted = FALSE, !.covered = covered]
      OBVIOUS
    <2>2. DOMAIN new = AttemptFields /\ new.at = 1 /\ new.list = a.list
      BY <2>1 DEF PrepInv, AttemptOK, AttemptFields
    <2>3. AttemptOK(new)'
      BY <1>1, <2>2 DEF PrepInv, AttemptOK, Paid
    <2> QED BY <1>1, <1>3, <2>1, <2>3, Replaced DEF PrepInv
  <1> QED BY <1>2, <1>3 DEF Prep!BeginStep

LEMMA DoneKeeps ==
  ASSUME PrepInv, NEW a \in attempts, Prep!StepDone(a)
  PROVE  PrepInv'
  <1>1. UNCHANGED <<purse, shared>>
    BY DEF Prep!StepDone
  <1>2. CASE Len(a.list) > 1
    <2>1. PICK new : new = [a EXCEPT !.list = Tail(@), !.at = 0]
      OBVIOUS
    <2>2. DOMAIN new = AttemptFields /\ new.at = 0 /\ new.list = Tail(a.list)
      BY <2>1 DEF PrepInv, AttemptOK, AttemptFields
    <2>3. Tail(a.list) \in Seq(StepNames) /\ Tail(a.list) # <<>>
      <3>1. a.list \in Seq(StepNames) /\ a.list # <<>>
        BY DEF PrepInv, AttemptOK
      <3>2. PICK rest : rest = Tail(a.list)
        OBVIOUS
      <3>3. rest \in Seq(StepNames) /\ Len(rest) = Len(a.list) - 1
        BY <3>1, <3>2, HeadTailProperties
      <3>4. Len(a.list) \in Nat
        BY <3>1, LenProperties
      <3>5. rest # <<>>
        BY <1>2, <3>3, <3>4, EmptySeq
      <3> QED BY <3>2, <3>3, <3>5
    <2>4. AttemptOK(new)'
      BY <1>1, <2>2, <2>3 DEF PrepInv, AttemptOK, Paid
    <2> QED BY <1>1, <1>2, <2>1, <2>4, Replaced DEF PrepInv, Prep!StepDone
  <1>3. CASE ~(Len(a.list) > 1)
    BY <1>1, <1>3, Removed DEF PrepInv, Prep!StepDone
  <1> QED BY <1>2, <1>3

LEMMA StartKeeps ==
  ASSUME PrepInv, NEW list \in Seq(StepNames), list # <<>>, NEW reset, Prep!Start(list, reset)
  PROVE  PrepInv'
  <1>1. PICK new : new = [id |-> starts, list |-> list, client |-> net, at |-> 0,
                          covered |-> FALSE, reverted |-> FALSE, here |-> TRUE]
    OBVIOUS
  <1>2. attempts' = attempts \cup {new} /\ shared' = (shared \/ attempts # {}) /\ purse' = purse
    BY <1>1 DEF Prep!Start
  <1>3. AttemptOK(new)'
    BY <1>1, <1>2 DEF AttemptOK, AttemptFields, Paid
  <1>4. CASE shared'
    BY <1>2, <1>3, <1>4 DEF PrepInv, AttemptOK
  <1>5. CASE ~shared'
    BY <1>2, <1>3, <1>5 DEF PrepInv
  <1> QED BY <1>4, <1>5

LEMMA RemountKeeps ==
  ASSUME PrepInv, Prep!Remount
  PROVE  PrepInv'
  <1>1. attempts' = {[a EXCEPT !.here = FALSE] : a \in attempts} /\ UNCHANGED <<purse, shared>>
    BY DEF Prep!Remount
  <1>2. ASSUME NEW new \in attempts' PROVE AttemptOK(new)'
    <2>1. PICK a \in attempts : new = [a EXCEPT !.here = FALSE]
      BY <1>1
    <2>2. DOMAIN new = AttemptFields /\ new.at = a.at /\ new.list = a.list
          /\ new.reverted = a.reverted
      BY <2>1 DEF PrepInv, AttemptOK, AttemptFields
    <2> QED BY <1>1, <2>2 DEF PrepInv, AttemptOK, Paid
  <1>3. ~shared => \A a, b \in attempts' : a = b
    BY <1>1 DEF PrepInv
  <1> QED BY <1>1, <1>2, <1>3 DEF PrepInv

LEMMA SendKeeps ==
  ASSUME PrepInv, NEW a \in attempts, Prep!SendOp(a)
  PROVE  PrepInv'
  <1> DEFINE step == Head(a.list)
             n    == Prep!network(step)
             op   == Prep!Current(a)
  <1>1. Prep!AtOp(a) /\ shared' = shared
    BY DEF Prep!SendOp
  <1>2. /\ AttemptOK(a) /\ step \in StepNames /\ n \in Prep!Networks /\ PurseOK(purse[n])
        /\ op.name \in OpNames
        /\ a.at \in 1 .. Len(Prep!runPrepWalletStep(step))
        /\ op = Prep!runPrepWalletStep(step)[a.at]
    BY <1>1, AtOpOK
  <1>3. /\ step \in {"arbitrum-aave", "base-aave"} /\ a.at = 6 => op.name = "repayAave"
        /\ step = "morpho" /\ a.at = 9 => op.name = "repayMorpho"
        /\ step = "morpho" /\ a.at = 10 => op.name = "withdraw"
    BY <1>2, OpsOK
  <1>4. /\ a.at \in Nat
        /\ step \in {"arbitrum-aave", "base-aave"} => a.at \in 1 .. 6
        /\ step = "morpho" => a.at \in 1 .. 10
    BY <1>2, Lengths DEF AttemptOK
  <1>5. PICK after : after = Prep!After(op, purse[n])
    OBVIOUS
  <1>6. /\ PurseOK(after)
        /\ op.name = "repayAave" => after.debt = 0
        /\ op.name = "repayMorpho" => after.shares = 0
        /\ op.name = "withdraw" => after.collateral = 0 /\ after.shares = purse[n].shares
    BY <1>2, <1>5, AfterOK
  <1> DEFINE Mined == purse' = [purse EXCEPT ![n] = after]
  <1>7. ASSUME Mined \/ purse' = purse
        PROVE  DOMAIN purse' = Prep!Networks /\ \A m \in Prep!Networks : PurseOK(purse'[m])
    BY <1>6, <1>7 DEF PrepInv
  <1>8. CASE Prep!StepFails(a) /\ (Mined \/ purse' = purse)
    BY <1>1, <1>7, <1>8, FailKeeps
  <1>9. CASE Mined /\ Prep!Replace(a, [a EXCEPT !.at = @ + 1])
    <2>1. PICK new : new = [a EXCEPT !.at = @ + 1]
      OBVIOUS
    <2>2. DOMAIN new = AttemptFields /\ new.at = a.at + 1 /\ new.list = a.list
          /\ new.reverted = a.reverted
      BY <1>2, <2>1 DEF AttemptOK, AttemptFields
    <2>3. purse'[n] = after
      BY <1>2, <1>9 DEF PrepInv
    <2>4. Paid(a) => Paid(new)'
      BY <1>3, <1>4, <1>6, <2>2, <2>3 DEF Paid
    <2>5. AttemptOK(new)'
      BY <1>1, <1>2, <1>4, <2>2, <2>4 DEF AttemptOK
    <2> QED BY <1>1, <1>7, <1>9, <2>1, <2>5, Replaced
  <1>10. CASE purse' = purse /\ Prep!Replace(a, [a EXCEPT !.at = @ + 1, !.reverted = TRUE])
    <2>1. PICK new : new = [a EXCEPT !.at = @ + 1, !.reverted = TRUE]
      OBVIOUS
    <2>2. DOMAIN new = AttemptFields /\ new.at = a.at + 1 /\ new.list = a.list /\ new.reverted
      BY <1>2, <2>1 DEF AttemptOK, AttemptFields
    <2>3. AttemptOK(new)'
      BY <1>1, <1>2, <1>4, <2>2 DEF AttemptOK
    <2> QED BY <1>1, <1>7, <1>10, <2>1, <2>3, Replaced
  <1> QED BY <1>5, <1>8, <1>9, <1>10 DEF Prep!SendOp

\* Every step of the tab.
LEMMA PrepKept ==
  ASSUME PrepInv, Prep!PrepNext
  PROVE  PrepInv'
  <1>1. ASSUME NEW s \in Prep!Range(Steps), Prep!Start(<<s>>, FALSE) PROVE PrepInv'
    <2>1. s \in StepNames
      BY StepsAssumption DEF Prep!Range, StepNames
    <2>2. <<s>> \in Seq(StepNames) /\ <<s>> # <<>>
      BY <2>1
    <2> QED BY <1>1, <2>2, StartKeeps
  <1>2. CASE Prep!Start(Steps, TRUE)
    BY <1>2, StepsAssumption, StartKeeps DEF StepNames
  <1>3. CASE Prep!ChangeNetwork
    BY <1>3 DEF Prep!ChangeNetwork, PrepInv, AttemptOK, Paid
  <1>4. ASSUME NEW a \in attempts, Prep!SeedFails(a) PROVE PrepInv'
    <2>1. Prep!StepFails(a) /\ UNCHANGED <<purse, shared>>
      BY <1>4 DEF Prep!SeedFails
    <2> QED BY <2>1, FailKeeps DEF PrepInv
  <1>5. ASSUME NEW a \in attempts, \/ Prep!BeginStep(a) \/ Prep!SkipOp(a) \/ Prep!SendOp(a)
                                   \/ Prep!StepDone(a)
        PROVE  PrepInv'
    BY <1>5, BeginKeeps, SkipKeeps, SendKeeps, DoneKeeps
  <1>6. CASE Prep!Remount
    BY <1>6, RemountKeeps
  <1> QED BY <1>1, <1>2, <1>3, <1>4, <1>5, <1>6 DEF Prep!PrepNext

LEMMA PrepStarts ==
  ASSUME Init PROVE PrepInv
  <1>1. attempts = {} /\ \E u \in StartUsdc : purse = [n \in Prep!Networks |-> Prep!Purse(u)]
    BY DEF Init, Prep!PrepInit
  <1>2. \A u : PurseOK(Prep!Purse(u))
    BY DEF PurseOK, PurseFields, Prep!Purse
  <1> QED BY <1>1, <1>2 DEF PrepInv

\* A step of the Prep tab that reaches its end without a reverted transaction,
\* in a wallet of its own, leaves no debt and no collateral behind.
THEOREM StepsClean == Spec => []DoneCleans
  <1>1. Init => PrepInv
    BY PrepStarts
  <1>2. PrepInv /\ [Next]_clientVars => PrepInv'
    <2>1. SUFFICES ASSUME PrepInv, [Next]_clientVars PROVE PrepInv'
      OBVIOUS
    <2>2. CASE UNCHANGED prepVars
      BY <2>1, <2>2 DEF prepVars, PrepInv, AttemptOK, Paid
    <2>3. (InPrep /\ Prep!PrepNext) \/ UNCHANGED prepVars
      BY <2>1 DEF Next, InLoans, InAccount, InShell, InDefault, InAgents, clientVars
    <2> QED BY <2>1, <2>2, <2>3, PrepKept
  <1>3. PrepInv => DoneCleans
    <2>1. SUFFICES ASSUME PrepInv, NEW a \in attempts, Prep!AtEnd(a), ~a.reverted, ~shared
                   PROVE  LET step == Head(a.list)
                              p    == purse[Prep!network(step)]
                          IN  /\ Prep!runPrepWalletStep(step) = Prep!runAave => p.debt = 0
                              /\ step = "morpho" => p.shares = 0 /\ p.collateral = 0
      BY DEF DoneCleans, Prep!DoneCleans
    <2>2. Paid(a) /\ Head(a.list) \in StepNames /\ a.at \in Nat
          /\ a.at > Len(Prep!runPrepWalletStep(Head(a.list)))
      BY <2>1, HeadOK DEF PrepInv, AttemptOK, Prep!AtEnd
    <2>3. PICK step \in StepNames : step = Head(a.list)
      BY <2>2
    <2>4. /\ Prep!runPrepWalletStep(step) = Prep!runAave =>
               step \in {"arbitrum-aave", "base-aave"} /\ a.at > 6
          /\ step = "morpho" => a.at > 10 /\ a.at > 9
      <3>1. PICK len \in Nat : len = Len(Prep!runPrepWalletStep(step))
        BY Lengths
      <3>2. /\ step \in {"arbitrum-aave", "base-aave"} => len = 6
            /\ step = "morpho" => len = 10
            /\ Prep!runPrepWalletStep(step) = Prep!runAave => step \in {"arbitrum-aave", "base-aave"}
        BY <3>1, Lengths
      <3>3. a.at \in Nat /\ a.at > len
        BY <2>2, <2>3, <3>1
      <3> QED BY <3>1, <3>2, <3>3
    <2> QED BY <2>2, <2>3, <2>4 DEF Paid
  <1> QED BY <1>1, <1>2, <1>3, PTL DEF Spec

-----------------------------------------------------------------------------
(* The Test-default tab.                                                   *)

\* A loan number that has been given away.
Lent(l) == l \in DOMAIN hubLoans

RequestOK(r) ==
  /\ r.kind = "status" => r.got.loan = 0 \/ Lent(r.got.loan)
  /\ r.kind = "flow" => r.at \in 1 .. 5 /\ Lent(r.loan) /\ (r.pc # "call" => r.at = 5)

\* The flows that got through speak of closed loans, and the others of loans
\* that exist, also where the tab has them from a status read long ago.
FlowInv ==
  /\ hubLoans \in Seq([borrower : Wallets, active : BOOLEAN])
  /\ status.loan = 0 \/ Lent(status.loan)
  /\ \A r \in requests : RequestOK(r)
  /\ \A l \in finished : Lent(l) /\ ~hubLoans[l].active

\* Loans are added and closed, and nothing else happens to them.
LoansGrow ==
  /\ hubLoans' \in Seq([borrower : Wallets, active : BOOLEAN])
  /\ \A l : Lent(l) => Lent(l)' /\ (~hubLoans[l].active => ~hubLoans'[l].active)

LEMMA LoansStay ==
  ASSUME FlowInv, UNCHANGED hubLoans
  PROVE  LoansGrow
  BY DEF FlowInv, LoansGrow, Lent

LEMMA LoanCloses ==
  ASSUME FlowInv, NEW l, Lent(l), Default!Close(l)
  PROVE  LoansGrow /\ ~hubLoans'[l].active
  <1>1. hubLoans' = [hubLoans EXCEPT ![l].active = FALSE] /\ l \in DOMAIN hubLoans
    BY DEF Default!Close, Lent
  <1>2. DOMAIN hubLoans = 1 .. Len(hubLoans) /\ Len(hubLoans) \in Nat
        /\ hubLoans \in [1 .. Len(hubLoans) -> [borrower : Wallets, active : BOOLEAN]]
    BY LenProperties DEF FlowInv
  <1>3. [hubLoans[l] EXCEPT !.active = FALSE] \in [borrower : Wallets, active : BOOLEAN]
        /\ ~[hubLoans[l] EXCEPT !.active = FALSE].active
    BY <1>1, <1>2
  <1>4. hubLoans' \in [1 .. Len(hubLoans) -> [borrower : Wallets, active : BOOLEAN]]
        /\ ~hubLoans'[l].active
    BY <1>1, <1>2, <1>3
  <1>5. \A n \in DOMAIN hubLoans : n # l => hubLoans'[n] = hubLoans[n]
    BY <1>1
  <1>6. hubLoans' \in Seq([borrower : Wallets, active : BOOLEAN]) /\ DOMAIN hubLoans' = DOMAIN hubLoans
    <2>1. PICK e : e = [hubLoans[l] EXCEPT !.active = FALSE]
      OBVIOUS
    <2>2. hubLoans' = [hubLoans EXCEPT ![l] = e] /\ e \in [borrower : Wallets, active : BOOLEAN]
          /\ l \in 1 .. Len(hubLoans)
      BY <1>1, <1>2, <1>3, <2>1
    <2> QED BY <1>2, <2>2, ExceptSeq DEF FlowInv
  <1> QED BY <1>4, <1>5, <1>6 DEF LoansGrow, Lent

LEMMA LoanOpens ==
  ASSUME FlowInv, NEW w \in Wallets,
         hubLoans' = Append(hubLoans, [borrower |-> w, active |-> TRUE])
  PROVE  LoansGrow
  <1>1. [borrower |-> w, active |-> TRUE] \in [borrower : Wallets, active : BOOLEAN]
    OBVIOUS
  <1>2. /\ hubLoans' \in Seq([borrower : Wallets, active : BOOLEAN])
        /\ DOMAIN hubLoans = 1 .. Len(hubLoans) /\ Len(hubLoans) \in Nat
        /\ DOMAIN hubLoans' = 1 .. Len(hubLoans) + 1
        /\ \A n \in 1 .. Len(hubLoans) : hubLoans'[n] = hubLoans[n]
    BY <1>1, AppendProperties, LenProperties DEF FlowInv
  <1>3. \A l : Lent(l) => l \in 1 .. Len(hubLoans) + 1
    BY <1>2 DEF Lent
  <1> QED BY <1>2, <1>3 DEF LoansGrow, Lent

\* A step of the flow is answered: its loan is closed by the time of the last.
LEMMA AnswerKeeps ==
  ASSUME FlowInv, LoansGrow, NEW r \in requests, r.kind = "flow", Default!StepAnswered(r),
         UNCHANGED status, r.at = 5 => ~hubLoans'[r.loan].active
  PROVE  FlowInv'
  <1>1. r.at \in 1 .. 5 /\ Lent(r.loan)'
    BY DEF FlowInv, RequestOK, LoansGrow
  <1>2. ASSUME NEW q \in requests PROVE RequestOK(q)'
    BY DEF FlowInv, RequestOK, LoansGrow
  <1>3. Len(Default!Script) = 5
    BY DEF Default!Script
  <1>4. CASE r.at < 5
    <2>1. PICK n : n = [r EXCEPT !.at = @ + 1, !.pc = "call"]
      OBVIOUS
    <2>2. requests' = (requests \ {r}) \cup {n} /\ finished' = finished
      BY <1>3, <1>4, <2>1 DEF Default!StepAnswered
    <2>3. RequestOK(n)'
      BY <1>1, <1>4, <2>1 DEF RequestOK
    <2> QED BY <1>2, <2>2, <2>3 DEF FlowInv, LoansGrow
  <1>5. CASE r.at = 5
    <2>1. PICK n : n = Default!StatusCall(r.wallet, "flow", r.here)
      OBVIOUS
    <2>2. requests' = (requests \ {r}) \cup {n} /\ finished' = finished \cup {r.loan}
      BY <1>3, <1>5, <2>1 DEF Default!StepAnswered
    <2>3. RequestOK(n)'
      BY <2>1 DEF RequestOK, Default!StatusCall, Default!NoStatus
    <2> QED BY <1>1, <1>2, <1>5, <2>2, <2>3 DEF FlowInv, LoansGrow
  <1> QED BY <1>1, <1>4, <1>5

LEMMA FlowEnds ==
  ASSUME FlowInv, LoansGrow, NEW r \in requests, requests' = requests \ {r},
         UNCHANGED <<status, finished>>
  PROVE  FlowInv'
  BY DEF FlowInv, LoansGrow, RequestOK

LEMMA FlowGoesOn ==
  ASSUME FlowInv, LoansGrow, NEW r \in requests, r.kind = "flow", r.at = 5, NEW pc,
         Default!Continue(r, pc), UNCHANGED status
  PROVE  FlowInv'
  <1>1. PICK n : n = [r EXCEPT !.pc = pc]
    OBVIOUS
  <1>2. requests' = (requests \ {r}) \cup {n} /\ finished' = finished
    BY <1>1 DEF Default!Continue
  <1>3. RequestOK(n)'
    BY <1>1 DEF RequestOK, FlowInv, LoansGrow
  <1> QED BY <1>2, <1>3 DEF FlowInv, LoansGrow, RequestOK

\* What the tab asks for, and what it is answered.
LEMMA Asked ==
  ASSUME FlowInv, LoansGrow, NEW n, requests' = requests \cup {n}, RequestOK(n),
         UNCHANGED <<status, finished>>
  PROVE  FlowInv'
  BY DEF FlowInv, LoansGrow, RequestOK

LEMMA ActiveLent ==
  ASSUME NEW w
  PROVE  Default!activeLoanId(w) = 0 \/ Lent(Default!activeLoanId(w))
  BY DEF Default!activeLoanId, Lent

LEMMA TabKeepsFlow ==
  ASSUME FlowInv,
         \/ \E w \in Wallets \cup {NoWallet} : Default!SwitchWallet(w)
         \/ Default!Refresh \/ Default!runFlow \/ Default!handleWhitelist
  PROVE  FlowInv'
  <1>1. LoansGrow /\ UNCHANGED <<status, finished>>
    BY LoansStay DEF Default!SwitchWallet, Default!Refresh, Default!runFlow, Default!handleWhitelist,
                     Default!Chain
  <1>2. ASSUME NEW w, requests' = requests \cup {Default!StatusCall(w, "tab", TRUE)} PROVE FlowInv'
    <2>1. RequestOK(Default!StatusCall(w, "tab", TRUE))
      BY DEF RequestOK, Default!StatusCall, Default!NoStatus
    <2> QED BY <1>1, <1>2, <2>1, Asked
  <1>3. ASSUME NEW w \in Wallets \cup {NoWallet}, Default!SwitchWallet(w) PROVE FlowInv'
    <2>1. CASE w = NoWallet
      <3>1. requests' = {[r EXCEPT !.here = FALSE] : r \in requests}
        BY <1>3, <2>1 DEF Default!SwitchWallet
      <3>2. ASSUME NEW r \in requests PROVE RequestOK([r EXCEPT !.here = FALSE])'
        <4>1. RequestOK(r)'
          BY <1>1 DEF FlowInv, LoansGrow, RequestOK
        <4> QED BY <4>1 DEF RequestOK
      <3> QED BY <1>1, <3>1, <3>2 DEF FlowInv, LoansGrow
    <2>2. CASE w # NoWallet
      BY <1>2, <1>3, <2>2 DEF Default!SwitchWallet
    <2> QED BY <2>1, <2>2
  <1>4. CASE Default!Refresh
    BY <1>2, <1>4 DEF Default!Refresh
  <1>5. CASE Default!runFlow
    <2>1. PICK n : n = [kind |-> "flow", wallet |-> subject, loan |-> status.loan, at |-> 1,
                        pc |-> "call", here |-> TRUE]
      OBVIOUS
    <2>2. requests' = requests \cup {n} /\ status.loan # 0
      BY <1>5, <2>1 DEF Default!runFlow, Default!Eligible
    <2>3. RequestOK(n)
      BY <2>1, <2>2 DEF RequestOK, FlowInv
    <2> QED BY <1>1, <2>2, <2>3, Asked
  <1>6. CASE Default!handleWhitelist
    <2>1. PICK n : n = [kind |-> "pardon", wallet |-> subject, pc |-> "call", here |-> TRUE]
      OBVIOUS
    <2>2. requests' = requests \cup {n}
      BY <1>6, <2>1 DEF Default!handleWhitelist
    <2> QED BY <1>1, <2>1, <2>2, Asked DEF RequestOK
  <1> QED BY <1>3, <1>4, <1>5, <1>6

LEMMA RequestKeepsFlow ==
  ASSUME FlowInv, NEW r \in requests,
         \/ Default!ReadStatus(r) \/ Default!StatusAnswer(r) \/ Default!CrashOracle(r)
         \/ Default!HealthWarning(r) \/ Default!GraceStart(r) \/ Default!GraceExpire(r)
         \/ Default!StepFails(r) \/ Default!LiquidateBegin(r) \/ Default!EnsureLiquidatable(r)
         \/ Default!LookAgain(r) \/ Default!Liquidate(r) \/ Default!Whitelist(r)
  PROVE  FlowInv'
  <1>0. RequestOK(r) /\ (UNCHANGED hubLoans => LoansGrow)
    BY LoansStay DEF FlowInv
  <1>1. \A i \in 1 .. 5 : Default!Script[i] = IF i = 1 THEN "crash_oracle" ELSE IF i = 2 THEN "health_warning"
           ELSE IF i = 3 THEN "grace_start" ELSE IF i = 4 THEN "grace_expire" ELSE "liquidate"
    BY DEF Default!Script
  <1>2. ASSUME Default!FlowFails(r), UNCHANGED <<status, finished>>, LoansGrow PROVE FlowInv'
    BY <1>2, FlowEnds DEF Default!FlowFails
  <1>3. CASE Default!ReadStatus(r)
    <2>1. PICK n : n = [r EXCEPT !.pc = "answered",
                  !.got = [wallet |-> r.wallet, loan |-> Default!activeLoanId(r.wallet),
                           barred |-> r.wallet \in barred]]
      OBVIOUS
    <2>2. requests' = (requests \ {r}) \cup {n} /\ UNCHANGED <<status, finished, hubLoans>> /\ r.kind = "status"
      BY <1>3, <2>1 DEF Default!ReadStatus, Default!Chain
    <2>3. RequestOK(n)'
      <3>1. n.kind = r.kind /\ (n.got.loan = r.got.loan \/ n.got.loan = Default!activeLoanId(r.wallet))
        BY <2>1
      <3> QED BY <1>0, <2>2, <3>1, ActiveLent DEF RequestOK, Lent
    <2> QED BY <1>0, <2>2, <2>3 DEF FlowInv, LoansGrow, RequestOK
  <1>4. CASE Default!StatusAnswer(r)
    <2>1. /\ requests' = requests \ {r} /\ UNCHANGED <<finished, hubLoans>>
          /\ status' = status \/ (status' = r.got /\ r.kind = "status")
      BY <1>4 DEF Default!StatusAnswer, Default!Chain
    <2>2. status'.loan = 0 \/ Lent(status'.loan)
      BY <1>0, <2>1 DEF FlowInv, RequestOK
    <2> QED BY <2>1, <2>2 DEF FlowInv, RequestOK, Lent
  <1>5. CASE Default!CrashOracle(r) \/ Default!HealthWarning(r) \/ Default!GraceStart(r) \/ Default!GraceExpire(r)
    <2>1. /\ Default!StepAnswered(r) /\ UNCHANGED <<status, hubLoans>> /\ r.kind = "flow"
          /\ Default!Script[r.at] # "liquidate"
      BY <1>5 DEF Default!CrashOracle, Default!HealthWarning, Default!GraceStart, Default!GraceExpire,
                  Default!Calls, Default!Chain, Default!Step
    <2>2. r.at # 5
      BY <1>1, <2>1
    <2> QED BY <1>0, <2>1, <2>2, AnswerKeeps
  <1>6. CASE Default!StepFails(r)
    BY <1>0, <1>2, <1>6 DEF Default!StepFails, Default!Chain
  <1>7. CASE Default!LiquidateBegin(r)
    <2>1. /\ UNCHANGED <<status, hubLoans>> /\ r.kind = "flow" /\ Default!Script[r.at] = "liquidate"
          /\ \/ ~Default!IsActive(r.loan) /\ Default!StepAnswered(r)
             \/ \E pc : Default!Continue(r, pc)
      BY <1>7 DEF Default!LiquidateBegin, Default!Calls, Default!Chain, Default!Step
    <2>2. r.at = 5 /\ Lent(r.loan)
      BY <1>0, <1>1, <2>1 DEF RequestOK
    <2>3. CASE ~Default!IsActive(r.loan) /\ Default!StepAnswered(r)
      <3>1. ~hubLoans'[r.loan].active
        BY <2>1, <2>2, <2>3 DEF Default!IsActive, Lent
      <3> QED BY <1>0, <2>1, <2>3, <3>1, AnswerKeeps
    <2>4. CASE \E pc : Default!Continue(r, pc)
      BY <1>0, <2>1, <2>2, <2>4, FlowGoesOn
    <2> QED BY <2>1, <2>3, <2>4
  <1>8. CASE Default!EnsureLiquidatable(r)
    <2>1. UNCHANGED <<status, hubLoans>> /\ r.kind = "flow" /\ r.pc = "lower" /\ Default!Continue(r, "look")
      BY <1>8 DEF Default!EnsureLiquidatable
    <2> QED BY <1>0, <2>1, FlowGoesOn DEF RequestOK
  <1>9. CASE Default!LookAgain(r)
    <2>1. /\ UNCHANGED <<status, hubLoans>> /\ r.kind = "flow" /\ r.pc = "look"
          /\ Default!Continue(r, "liquidate") \/ (Default!FlowFails(r) /\ UNCHANGED finished)
      BY <1>9 DEF Default!LookAgain, Default!Chain
    <2> QED BY <1>0, <1>2, <2>1, FlowGoesOn DEF RequestOK
  <1>10. CASE Default!Liquidate(r)
    <2>1. /\ UNCHANGED status /\ r.kind = "flow" /\ r.pc = "liquidate" /\ r.at = 5 /\ Lent(r.loan)
      BY <1>0, <1>10 DEF Default!Liquidate, RequestOK
    <2>2. \/ Default!Close(r.loan) /\ (Default!StepAnswered(r) \/ (Default!FlowFails(r) /\ UNCHANGED finished))
          \/ Default!FlowFails(r) /\ UNCHANGED <<finished, hubLoans>>
      BY <1>10 DEF Default!Liquidate
    <2>3. CASE Default!Close(r.loan)
      <3>1. LoansGrow /\ ~hubLoans'[r.loan].active
        BY <2>1, <2>3, LoanCloses
      <3> QED BY <1>2, <2>1, <2>2, <3>1, AnswerKeeps, <1>0
    <2> QED BY <1>0, <1>2, <2>1, <2>2, <2>3
  <1>11. CASE Default!Whitelist(r)
    <2>1. UNCHANGED <<status, finished, hubLoans>>
      BY <1>11 DEF Default!Whitelist
    <2>2. CASE requests' = requests \ {r}
      BY <1>0, <2>1, <2>2, FlowEnds
    <2>3. CASE requests' = (requests \ {r}) \cup {Default!StatusCall(r.wallet, "pardon", r.here)}
      <3>1. RequestOK(Default!StatusCall(r.wallet, "pardon", r.here))
        BY DEF RequestOK, Default!StatusCall, Default!NoStatus
      <3> QED BY <2>1, <2>3, <3>1 DEF FlowInv, RequestOK, Lent
    <2> QED BY <1>11, <2>2, <2>3 DEF Default!Whitelist
  <1> QED BY <1>3, <1>4, <1>5, <1>6, <1>7, <1>8, <1>9, <1>10, <1>11

LEMMA OthersKeepFlow ==
  ASSUME FlowInv,
         \/ \E p \in FlowPrices : Default!SetPrice(p)
         \/ \E w \in Wallets : Default!Borrow(w)
         \/ \E l \in DOMAIN hubLoans : Default!Repay(l) \/ Default!MonitorLiquidates(l)
  PROVE  FlowInv'
  <1>1. UNCHANGED <<status, requests, finished>>
    BY DEF Default!SetPrice, Default!Borrow, Default!Repay, Default!MonitorLiquidates
  <1>2. LoansGrow
    <2>1. CASE \E p \in FlowPrices : Default!SetPrice(p)
      BY <2>1, LoansStay DEF Default!SetPrice
    <2>2. CASE \E w \in Wallets : Default!Borrow(w)
      BY <2>2, LoanOpens DEF Default!Borrow
    <2>3. CASE \E l \in DOMAIN hubLoans : Default!Repay(l) \/ Default!MonitorLiquidates(l)
      BY <2>3, LoanCloses DEF Default!Repay, Default!MonitorLiquidates, Lent
    <2> QED BY <2>1, <2>2, <2>3
  <1> QED BY <1>1, <1>2 DEF FlowInv, LoansGrow, RequestOK

\* A flow that the Test-default tab reports as complete has closed its loan,
\* however the price, the loan or the wallet changed while its requests were
\* under way (runFlow, LiquidationAgent.execute_liquidation).
THEOREM FlowsCloseLoans == Spec => []FlowClosesLoan
  <1>1. Init => FlowInv
    <2>1. SUFFICES ASSUME Init PROVE FlowInv
      OBVIOUS
    <2>2. /\ status = Default!NoStatus /\ requests = {Default!StatusCall(subject, "tab", TRUE)}
          /\ hubLoans = <<>> /\ finished = {}
      BY <2>1 DEF Init, Default!FlowInit
    <2>3. hubLoans \in Seq([borrower : Wallets, active : BOOLEAN])
      BY <2>2, EmptySeq
    <2> QED BY <2>2, <2>3 DEF FlowInv, RequestOK, Default!StatusCall, Default!NoStatus
  <1>2. FlowInv /\ [Next]_clientVars => FlowInv'
    <2>1. SUFFICES ASSUME FlowInv, [Next]_clientVars PROVE FlowInv'
      OBVIOUS
    <2>2. CASE Default!FlowNext
      BY <2>1, <2>2, TabKeepsFlow, RequestKeepsFlow, OthersKeepFlow DEF Default!FlowNext
    <2>3. CASE UNCHANGED flowVars
      BY <2>1, <2>3 DEF flowVars, FlowInv, RequestOK, Lent
    <2> QED BY <2>1, <2>2, <2>3 DEF Next, InLoans, InAccount, InPrep, InDefault, InAgents, InShell, clientVars
  <1>3. FlowInv => FlowClosesLoan
    BY DEF FlowInv, FlowClosesLoan, Default!FlowClosesLoan
  <1> QED BY <1>1, <1>2, <1>3, PTL DEF Spec

-----------------------------------------------------------------------------
(* The shell.                                                              *)

\* The entry a live flow has pushed lies above the page's first one; the guard
\* believes in the flow until the user has agreed to leave it.
GuardInv ==
  /\ pos \in Nat \ {0}
  /\ pushed => armed
  /\ armed => pos > 1
  /\ armed => scoringActive \/ asked

GuardStep == armed /\ live => (place' = place \/ asked') /\ pos' > 1

LEMMA GuardKept ==
  ASSUME GuardInv, Shell!NavNext
  PROVE  GuardInv' /\ GuardStep
  <1>1. CASE Shell!FlowBegins \/ Shell!FlowEnds \/ Shell!Stay
    BY <1>1 DEF GuardInv, GuardStep, Shell!FlowBegins, Shell!FlowEnds, Shell!Stay, Shell!User
  <1>2. CASE Shell!Arm
    BY <1>2 DEF GuardInv, GuardStep, Shell!Arm, Shell!pushState
  <1>3. CASE Shell!Disarm
    BY <1>3 DEF GuardInv, GuardStep, Shell!Disarm
  <1>4. ASSUME NEW next \in Shell!APP_TABS, Shell!changeTab(next) PROVE GuardInv' /\ GuardStep
    BY <1>4 DEF GuardInv, GuardStep, Shell!changeTab, Shell!requestNavigation, Shell!Ask, Shell!Go,
                Shell!setTab, Shell!User, Shell!APP_TABS
  <1>5. ASSUME NEW p \in Nat \ {0}, NEW t, Shell!onPopState(p, t) PROVE GuardInv' /\ GuardStep
    BY <1>5 DEF GuardInv, GuardStep, Shell!onPopState, Shell!requestNavigation, Shell!Ask, Shell!Go
  <1>6. CASE \E p \in 1 .. MaxEntries : Shell!Traverse(p)
    <2>1. PICK p \in 1 .. MaxEntries : Shell!Traverse(p)
      BY <1>6
    <2>2. p \in Nat \ {0} /\ Shell!onPopState(p, traversals)
      BY <2>1 DEF Shell!Traverse, GuardInv
    <2> QED BY <1>5, <2>2
  <1>7. CASE Shell!Back
    <2>1. pos - 1 \in Nat \ {0} /\ Shell!onPopState(pos - 1, traversals - 1)
      BY <1>7 DEF Shell!Back, GuardInv
    <2> QED BY <1>5, <2>1
  <1>8. CASE Shell!Reload
    BY <1>8 DEF GuardInv, GuardStep, Shell!Reload
  <1>9. CASE Shell!confirmLeave
    BY <1>9 DEF GuardInv, GuardStep, Shell!confirmLeave, Shell!Go, Shell!setTab
  <1> QED BY <1>1, <1>2, <1>3, <1>4, <1>6, <1>7, <1>8, <1>9 DEF Shell!NavNext

\* A score flow for which the guard is armed is left only with the user's
\* consent, and a further Back is caught as well, in whatever order links,
\* browser buttons and requested traversals come (requestNavigation, onPopState).
THEOREM FlowsLeftAsked == Spec => LeaveAsked
  <1>1. Init => GuardInv
    BY DEF Init, Shell!NavInit, GuardInv
  <1>2. GuardInv /\ [Next]_clientVars =>
          GuardInv' /\ [armed /\ live => (place' = place \/ asked') /\ pos' > 1]_clientVars
    <2>1. SUFFICES ASSUME GuardInv, [Next]_clientVars PROVE GuardInv' /\ (GuardStep \/ UNCHANGED clientVars)
      BY DEF GuardStep
    <2>2. CASE InShell /\ Shell!NavNext
      BY <2>1, <2>2, GuardKept
    <2>3. CASE UNCHANGED navVars
      <3>1. UNCHANGED <<armed, live, scoringActive, asked, pos, pushed, place>>
        BY <2>3 DEF navVars
      <3> QED BY <2>1, <3>1 DEF GuardInv, GuardStep
    <2>4. (InShell /\ Shell!NavNext) \/ UNCHANGED navVars
      BY <2>1 DEF Next, InLoans, InAccount, InPrep, InDefault, InAgents, clientVars
    <2> QED BY <2>2, <2>3, <2>4
  <1> QED BY <1>1, <1>2, PTL DEF Spec, LeaveAsked

-----------------------------------------------------------------------------
(* The Your-account tab.                                                   *)

LoadFields  == {"kind", "wallet", "from", "pc", "read", "known"}
RunFields   == {"kind", "wallet", "bank", "session", "pc", "score", "here"}
PollFields  == {"kind", "session", "pc"}
ResetFields == {"kind", "wallet", "script", "todo", "failed"}

\* The stages of a run whose result is being recorded.
Recording == {"scored", "inserted", "upserted", "minted", "closed"}

TaskOK(k) ==
  /\ k.kind \in {"load", "run", "poll", "reset"}
  /\ k.kind = "load"  => DOMAIN k = LoadFields /\ k.wallet \in Wallets
                         /\ k.pc \in {"asked", "read", "answered"}
  /\ k.kind = "run"   => DOMAIN k = RunFields /\ k.wallet \in Wallets
                         /\ k.pc \in Recording \cup {"scoring", "awaiting", "error"}
  /\ k.kind = "poll"  => DOMAIN k = PollFields /\ k.pc \in {"head", "fetch"}
  /\ k.kind = "reset" => DOMAIN k = ResetFields /\ k.wallet \in Wallets

TasksInv ==
  /\ address \in Wallets \cup {NoWallet}
  /\ DOMAIN chain = Wallets /\ DOMAIN cached = Wallets
  /\ \A k \in tasks : TaskOK(k)

Recorded(w) == \E k \in tasks : k.kind = "run" /\ k.wallet = w /\ k.pc \in Recording

\* A load that will write the score the chain has now.
Healing(w) ==
  \E l \in tasks : /\ l.kind = "load" /\ l.wallet = w
                   /\ l.pc = "asked" \/ (l.pc = "read" /\ l.read = chain[w])

InStep(w) == chain[w] = 0 \/ cached[w] = 0 \/ cached[w] = chain[w]

\* A run in progress will load when it is done; without one, what a load has
\* read is the score on the chain.
Heal ==
  /\ \A k \in tasks : k.kind = "run" => k.here
  /\ \A k, l \in tasks : k.kind = "load" /\ l.kind = "load" /\ k.wallet = l.wallet => k = l
  /\ \A l \in tasks : l.kind = "load" /\ l.pc = "read" =>
       l.read = chain[l.wallet] \/ Recorded(l.wallet)
  /\ \A w \in Wallets : Recorded(w) \/ Healing(w) \/ InStep(w)

Heard == marks \cap {"lost", "overlap"} = {}

HealInv == TasksInv /\ (Heard => Heal)

\* A verified session of the connected wallet.
ProvedHere(id) == \E s \in sessions : s.id = id /\ s.wallet = address /\ s.verified

\* What is said of a single task, given the state t of the tab.
Fits(k, t) ==
  /\ k.kind = "poll" => t.session = k.session /\ t.bank
  /\ k.kind = "run" =>
       /\ k.pc \notin Recording => k.here
       /\ k.here => k.wallet = address /\ k.bank = t.bank
       /\ k.pc = "awaiting" => k.bank
       /\ k.pc = "scoring" => k.session = t.session /\ t.view = "calculating"

\* What is said of the tab: the session it would start a run with is verified,
Shows(t) ==
  "reset" \notin marks /\ t.view = "calculating" /\ t.session # 0 => t.bank /\ ProvedHere(t.session)

\* and it has a view of the one thing it waits for.
Waiting(k) == k.kind = "poll" \/ (k.kind = "run" /\ k.here)
Busy(t)    == t.phase \in {"empty", "complete"} /\ t.view \in {"calculating", "reclaim"}

TabFields == {"phase", "view", "known", "session", "bank", "aborted"}

SessionOK(s) == DOMAIN s = {"id", "wallet", "verified"} /\ s.wallet = address

Alone ==
  /\ address \in Wallets /\ DOMAIN tab = TabFields
  /\ \A a, b \in tasks : Waiting(a) /\ Waiting(b) => a = b
  /\ \A a \in tasks : Waiting(a) => Busy(tab)
  /\ \A s \in sessions : SessionOK(s)
  /\ \A k \in tasks : Fits(k, tab)
  /\ Shows(tab)

RunInv == TasksInv /\ ("left" \notin marks => Alone)

LEMMA RunOK ==
  ASSUME NEW t, NEW w \in Wallets
  PROVE  /\ TaskOK(Account!Run(t, w)) /\ Account!Run(t, w).kind = "run"
         /\ Account!Run(t, w).wallet = w /\ Account!Run(t, w).pc = "scoring"
         /\ Account!Run(t, w).here /\ Account!Run(t, w).bank = t.bank
         /\ Account!Run(t, w).session = t.session
  BY DEF TaskOK, Account!Run, RunFields

LEMMA LoadOK ==
  ASSUME NEW w \in Wallets, NEW from
  PROVE  /\ TaskOK(Account!Load(w, from)) /\ Account!Load(w, from).kind = "load"
         /\ Account!Load(w, from).wallet = w /\ Account!Load(w, from).pc = "asked"
  BY DEF TaskOK, Account!Load, LoadFields

\* A view that is mounted starts a run, and nothing else comes of rendering.
LEMMA ViewRendered ==
  ASSUME NEW t, NEW w \in Wallets \cup {NoWallet}, NEW left, NEW newKey,
         Account!Render(t, w, left, newKey)
  PROVE  /\ tab' = t
         /\ \/ tasks' = left
            \/ /\ w \in Wallets /\ Account!Mounted(t, w) /\ (newKey \/ ~Account!Mounted(tab, address))
               /\ tasks' = left \cup {Account!Run(t, w)}
  BY DEF Account!Render, Account!Mounted

\* The kinds of tasks, taken one by one.
LEMMA TasksTyped ==
  ASSUME TasksInv, NEW k \in tasks
  PROVE  TaskOK(k)
  BY DEF TasksInv

\* A load that has read the chain.
HasRead(new, k) ==
  TaskOK(new) /\ new.kind = "load" /\ new.wallet = k.wallet /\ new.pc = "read"

LEMMA LoadSteps ==
  ASSUME NEW k, TaskOK(k), k.kind = "load"
  PROVE  /\ HasRead([k EXCEPT !.pc = "read"], k)
         /\ \A r : /\ HasRead([k EXCEPT !.pc = "read", !.read = r], k)
                   /\ [k EXCEPT !.pc = "read", !.read = r].read = r
  BY DEF HasRead, TaskOK, LoadFields

\* A run at its next stage.
Later(new, k, p) ==
  /\ TaskOK(new) /\ new.kind = "run" /\ new.wallet = k.wallet /\ new.pc = p
  /\ new.here = k.here /\ new.bank = k.bank

LEMMA RunSteps ==
  ASSUME NEW k, TaskOK(k), k.kind = "run", NEW p \in Recording \cup {"awaiting", "error"}
  PROVE  /\ Later([k EXCEPT !.pc = p], k, p)
         /\ \A s : Later([k EXCEPT !.pc = p, !.score = s], k, p)
         /\ \A s : Later([k EXCEPT !.pc = p, !.session = s], k, p)
  BY DEF Later, TaskOK, RunFields, Recording

\* What the steps of tasks, and the others, may change.
LEMMA TasksKept ==
  ASSUME TasksInv, Account!ScoreNext
  PROVE  TasksInv'
  <1> DEFINE Good(set) == \A k \in set : TaskOK(k)
             Rest == address' \in Wallets \cup {NoWallet} /\ DOMAIN chain' = Wallets /\ DOMAIN cached' = Wallets
  <1>0. Good(tasks) /\ address \in Wallets \cup {NoWallet} /\ DOMAIN chain = Wallets /\ DOMAIN cached = Wallets
    BY DEF TasksInv
  <1>1. SUFFICES Good(tasks') /\ Rest
    BY DEF TasksInv, TaskOK
  <1>2. ASSUME NEW t, NEW w \in Wallets \cup {NoWallet}, NEW left, NEW newKey,
               Account!Render(t, w, left, newKey), Good(left)
        PROVE  Good(tasks')
    BY SMTT(60), <1>2, ViewRendered, RunOK
  <1>3. ASSUME NEW k \in tasks, NEW new, Account!Advance(k, new), TaskOK(new) PROVE Good(tasks')
    BY <1>0, <1>3 DEF Account!Advance
  <1>4. ASSUME NEW k \in tasks PROVE Good(tasks \ {k})
    BY <1>0
  <1>5. ASSUME NEW w \in Wallets \cup {NoWallet}, Account!SwitchWallet(w) PROVE Good(tasks') /\ Rest
    <2>1. w \in Wallets => Good(tasks \cup {Account!Load(w, "open")})
      BY <1>0, LoadOK
    <2>2. Good(IF w = NoWallet THEN tasks ELSE tasks \cup {Account!Load(w, "open")})
      BY <1>0, <2>1
    <2> QED BY <1>0, <1>2, <1>5, <2>2 DEF Account!SwitchWallet, Account!Store
  <1>6. ASSUME NEW b \in BOOLEAN, Account!beginCalculation(b) PROVE Good(tasks') /\ Rest
    BY <1>0, <1>2, <1>6 DEF Account!beginCalculation, Account!Store
  <1>7. CASE Account!cancelScoreFlow \/ Account!goToDashboard \/ Account!retryAfterError \/ Account!Navigate
    BY <1>0, <1>7 DEF Account!cancelScoreFlow, Account!goToDashboard, Account!retryAfterError,
                      Account!Navigate, Account!Store
  <1>8. CASE Account!Reload
    <2>1. address \in Wallets
      BY <1>0, <1>8 DEF Account!Reload
    <2>2. ASSUME NEW k \in tasks, k.kind = "run" PROVE TaskOK([k EXCEPT !.here = FALSE])
      <3>1. TaskOK(k)
        BY <1>0
      <3> QED BY <2>2, <3>1 DEF TaskOK, RunFields
    <2>3. \A k \in tasks' : \/ \E r \in tasks : r.kind = "run" /\ k = [r EXCEPT !.here = FALSE]
                            \/ k = Account!Load(address, "open") \/ k \in tasks
      BY <1>8 DEF Account!Reload, Account!Of
    <2>4. Good(tasks')
      BY <1>0, <2>1, <2>2, <2>3, LoadOK
    <2> QED BY <1>0, <1>8, <2>4 DEF Account!Reload, Account!Store
  <1>9. ASSUME NEW k \in tasks, Account!ReadChain(k) PROVE Good(tasks') /\ Rest
    <2>1. \E new : Account!Advance(k, new) /\ TaskOK(new)
      BY <1>0, <1>9, LoadSteps DEF Account!ReadChain, HasRead
    <2> QED BY <1>0, <1>3, <1>9, <2>1 DEF Account!ReadChain, Account!Store
  <1>10. ASSUME NEW k \in tasks, Account!SyncRow(k) PROVE Good(tasks') /\ Rest
    <2>1. PICK known : Account!Advance(k, [k EXCEPT !.pc = "answered", !.known = known])
      BY <1>10 DEF Account!SyncRow
    <2>2. TaskOK([k EXCEPT !.pc = "answered", !.known = known])
      BY <1>0, <1>10 DEF Account!SyncRow, TaskOK, LoadFields
    <2> QED BY <1>0, <1>3, <1>10, <2>1, <2>2 DEF Account!SyncRow
  <1>11. ASSUME NEW k \in tasks, Account!loadProfile(k) \/ Account!LoadFails(k) PROVE Good(tasks') /\ Rest
    BY <1>0, <1>2, <1>4, <1>11 DEF Account!loadProfile, Account!LoadFails, Account!Store
  <1>12. ASSUME NEW k \in tasks, Account!Scoring(k) PROVE Good(tasks') /\ Rest
    <2>1. k.kind = "run" /\ TaskOK(k) /\ Rest
      BY <1>0, <1>12 DEF Account!Scoring
    <2>2. \/ tasks' = tasks \ {k}
          \/ \E new : Account!Advance(k, new) /\ \E p \in {"awaiting", "scored", "error"} : Later(new, k, p)
      BY <2>1, <1>12, RunSteps DEF Account!Scoring, Account!create_session, Recording
    <2> QED BY <1>3, <1>4, <2>1, <2>2 DEF Later
  <1>13. ASSUME NEW k \in tasks,
                Account!InsertRun(k) \/ Account!UpsertProfile(k) \/ Account!RecordMint(k)
         PROVE  Good(tasks') /\ Rest
    <2>1. k.kind = "run" /\ TaskOK(k) /\ Rest
      BY SMTT(60), <1>0, <1>13 DEF Account!InsertRun, Account!UpsertProfile, Account!RecordMint
    <2>2. \E new : Account!Advance(k, new) /\ \E p \in Recording : Later(new, k, p)
      BY <1>13, <2>1, RunSteps
      DEF Account!InsertRun, Account!UpsertProfile, Account!RecordMint, Recording
    <2> QED BY <1>3, <2>1, <2>2 DEF Later
  <1>14. ASSUME NEW k \in tasks, Account!autoUnderwriteAfterScore(k) PROVE Good(tasks') /\ Rest
    <2>1. k.kind = "run" /\ TaskOK(k) /\ Rest
      BY SMTT(60), <1>0, <1>14 DEF Account!autoUnderwriteAfterScore
    <2>2. \E new : Account!Advance(k, new) /\ \E p \in Recording : Later(new, k, p)
      BY ZenonT(60), <1>14, <2>1, RunSteps DEF Account!autoUnderwriteAfterScore, Recording
    <2> QED BY <1>3, <2>1, <2>2 DEF Later
  <1>15. ASSUME NEW k \in tasks, Account!handleStreamComplete(k) PROVE Good(tasks') /\ Rest
    <2>1. k.wallet \in Wallets
      BY <1>0, <1>15 DEF Account!handleStreamComplete, TaskOK
    <2>2. Good((tasks \ {k}) \cup {Account!Load(k.wallet, "complete")})
      BY <1>0, <2>1, LoadOK
    <2> QED BY <1>0, <1>2, <1>15, <2>2 DEF Account!handleStreamComplete, Account!Store
  <1>16. ASSUME NEW k \in tasks, Account!Unheard(k) \/ Account!handleStreamError(k) PROVE Good(tasks') /\ Rest
    BY <1>0, <1>4, <1>16 DEF Account!Unheard, Account!handleStreamError, Account!Store
  <1>17. ASSUME NEW k \in tasks, Account!handleAwaitingReclaim(k) PROVE Good(tasks') /\ Rest
    <2>1. TaskOK([kind |-> "poll", session |-> k.session, pc |-> "head"])
      BY DEF TaskOK, PollFields
    <2> QED BY <1>0, <1>17, <2>1 DEF Account!handleAwaitingReclaim, Account!Store
  <1>18. ASSUME NEW k \in tasks, Account!PollHead(k) \/ Account!PollAnswer(k) PROVE Good(tasks') /\ Rest
    <2>1. k.kind = "poll" /\ TaskOK(k) /\ Rest
      BY <1>0, <1>18 DEF Account!PollHead, Account!PollAnswer, Account!Store
    <2>2. \A p \in {"head", "fetch"} : TaskOK([k EXCEPT !.pc = p])
      BY <2>1 DEF TaskOK, PollFields
    <2>3. \/ tasks' = tasks \ {k} \/ \E p \in {"head", "fetch"} : Account!Advance(k, [k EXCEPT !.pc = p])
          \/ \E t : Account!Render(t, address, tasks \ {k}, TRUE)
      BY <1>18 DEF Account!PollHead, Account!PollAnswer
    <2> QED BY <1>0, <1>2, <1>3, <1>4, <2>1, <2>2, <2>3
  <1>19. ASSUME NEW s \in sessions, Account!BankProof(s) PROVE Good(tasks') /\ Rest
    BY <1>0, <1>19 DEF Account!BankProof
  <1>20. ASSUME NEW w \in Wallets,
                \/ Account!ChainMoves(w) \/ Account!ResetCache(w) \/ Account!WipeWallet(w)
                \/ Account!MintCached(w)
         PROVE  Good(tasks') /\ Rest
    <2>1. Rest
      BY <1>0, <1>20 DEF Account!ChainMoves, Account!ResetCache, Account!WipeWallet, Account!MintCached,
                         Account!Store
    <2>2. \A k \in tasks' \ tasks :
            \/ \E c, d, e : k = [kind |-> "reset", wallet |-> w, script |-> c, todo |-> d, failed |-> e]
            \/ \E c : k = [kind |-> "run", wallet |-> w, bank |-> FALSE, session |-> 0,
                           pc |-> "upserted", score |-> c, here |-> FALSE]
      <3>1. Account!ChainMoves(w) => tasks' = tasks
        BY DEF Account!ChainMoves
      <3>2. Account!ResetCache(w) => \E c, d, e : tasks' = tasks \cup
              {[kind |-> "reset", wallet |-> w, script |-> c, todo |-> d, failed |-> e]}
        BY DEF Account!ResetCache
      <3>3. Account!WipeWallet(w) => \E c, d, e : tasks' = tasks \cup
              {[kind |-> "reset", wallet |-> w, script |-> c, todo |-> d, failed |-> e]}
        <4>1. SUFFICES ASSUME Account!WipeWallet(w)
                       PROVE  \E d : tasks' = tasks \cup
                         {[kind |-> "reset", wallet |-> w, script |-> TRUE, failed |-> FALSE, todo |-> d]}
          OBVIOUS
        <4> QED BY <4>1 DEF Account!WipeWallet
      <3>4. Account!MintCached(w) => \E c : tasks' = tasks \cup
              {[kind |-> "run", wallet |-> w, bank |-> FALSE, session |-> 0,
                pc |-> "upserted", score |-> c, here |-> FALSE]}
        BY DEF Account!MintCached
      <3> QED BY <1>20, <3>1, <3>2, <3>3, <3>4
    <2>3. \A k \in tasks' \ tasks : TaskOK(k)
      BY <2>2 DEF TaskOK, ResetFields, RunFields, Recording
    <2> QED BY <1>0, <2>1, <2>3
  <1>21. ASSUME NEW k \in tasks, Account!deleteRows(k) \/ Account!resetReclaim(k) PROVE Good(tasks') /\ Rest
    <2>1. k.kind = "reset" /\ TaskOK(k) /\ Rest
      BY <1>0, <1>21 DEF Account!deleteRows, Account!resetReclaim
    <2>2. \/ tasks' = tasks \ {k}
          \/ \E d, e : Account!Advance(k, [k EXCEPT !.todo = d, !.failed = e])
          \/ \E d : Account!Advance(k, [k EXCEPT !.todo = d])
      BY <1>21 DEF Account!deleteRows, Account!resetReclaim
    <2>3. \A d, e : TaskOK([k EXCEPT !.todo = d, !.failed = e]) /\ TaskOK([k EXCEPT !.todo = d])
      BY <2>1 DEF TaskOK, ResetFields
    <2> QED BY <1>3, <1>4, <2>1, <2>2, <2>3
  <1> QED BY <1>5, <1>6, <1>7, <1>8, <1>9, <1>10, <1>11, <1>12, <1>13, <1>14, <1>15, <1>16, <1>17,
             <1>18, <1>19, <1>20, <1>21 DEF Account!ScoreNext, Account!Of

LEMMA HealStays ==
  ASSUME TasksInv, Heal, chain' = chain, cached' = cached,
         \A k \in tasks' : k.kind = "run" => k.here,
         \A l : l.kind = "load" => (l \in tasks' <=> l \in tasks),
         \A w \in Wallets : Recorded(w) => Recorded(w)'
  PROVE  Heal'
  <1>1. \A l \in tasks' : l.kind = "load" => l \in tasks /\ l.wallet \in Wallets
    BY DEF TasksInv, TaskOK
  <1>2. \A w \in Wallets : Healing(w) => Healing(w)'
    BY DEF Healing
  <1>3. \A w \in Wallets : InStep(w) => InStep(w)'
    BY DEF InStep
  <1> QED BY <1>1, <1>2, <1>3 DEF Heal

\* A run that goes on, whatever it writes for its own wallet meanwhile.
LEMMA RunHeals ==
  ASSUME TasksInv, Heal, NEW k \in tasks, k.kind = "run",
         NEW p \in Recording \cup {"awaiting", "error"}, NEW new, Later(new, k, p),
         Account!Advance(k, new), k.pc \in Recording => p \in Recording,
         p \in Recording \/ (chain' = chain /\ cached' = cached),
         \A w \in Wallets \ {k.wallet} : chain'[w] = chain[w] /\ cached'[w] = cached[w]
  PROVE  Heal'
  <1>1. tasks' = (tasks \ {k}) \cup {new} /\ new.kind = "run" /\ new.here /\ new.wallet = k.wallet
        /\ new.pc = p
    BY DEF Account!Advance, Later, Heal
  <1>2. \A w \in Wallets : Recorded(w) => Recorded(w)'
    BY <1>1 DEF Recorded
  <1>3. \A l : l.kind = "load" => (l \in tasks' <=> l \in tasks)
    BY <1>1
  <1>4. \A j \in tasks' : j.kind = "run" => j.here
    BY <1>1 DEF Heal
  <1>5. CASE chain' = chain /\ cached' = cached
    BY <1>2, <1>3, <1>4, <1>5, HealStays
  <1>6. CASE p \in Recording
    <2>1. Recorded(k.wallet)'
      BY <1>1, <1>6 DEF Recorded
    <2>2. \A w \in Wallets \ {k.wallet} : Healing(w) => Healing(w)'
      BY <1>3 DEF Healing
    <2>3. \A w \in Wallets \ {k.wallet} : InStep(w) => InStep(w)'
      BY DEF InStep
    <2>4. \A l \in tasks' : l.kind = "load" => l \in tasks /\ l.wallet \in Wallets
      BY <1>3 DEF TasksInv, TaskOK
    <2> QED BY <1>2, <1>4, <2>1, <2>2, <2>3, <2>4 DEF Heal
  <1> QED BY <1>5, <1>6

\* How a run takes its steps.
LEMMA RunAdvances ==
  ASSUME TasksInv, NEW k \in tasks,
         \/ Account!Scoring(k) \/ Account!InsertRun(k) \/ Account!UpsertProfile(k)
         \/ Account!autoUnderwriteAfterScore(k) \/ Account!RecordMint(k)
  PROVE  /\ k.kind = "run"
         /\ \/ /\ k.pc = "scoring" /\ tasks' = tasks \ {k}
            \/ \E new, p : /\ p \in Recording \cup {"awaiting", "error"}
                           /\ Account!Advance(k, new) /\ Later(new, k, p)
                           /\ k.pc \in Recording => p \in Recording
                           /\ p \in Recording \/ Account!Scoring(k)
                           /\ p = "awaiting" => k.bank
  <1>1. k.kind = "run" /\ TaskOK(k)
    BY DEF Account!Scoring, Account!InsertRun, Account!UpsertProfile, Account!RecordMint,
           Account!autoUnderwriteAfterScore, TasksInv
  <1>2. CASE Account!Scoring(k)
    <2>1. k.pc = "scoring"
      BY <1>2 DEF Account!Scoring
    <2>2. \/ tasks' = tasks \ {k}
          \/ Account!Advance(k, [k EXCEPT !.pc = "error"])
          \/ \E s : Account!Advance(k, [k EXCEPT !.pc = "scored", !.score = s])
          \/ k.bank /\ Account!Advance(k, [k EXCEPT !.pc = "awaiting"])
          \/ k.bank /\ \E s : Account!Advance(k, [k EXCEPT !.pc = "awaiting", !.session = s])
      BY ZenonT(60), <1>2 DEF Account!Scoring, Account!create_session
    <2>3. /\ Later([k EXCEPT !.pc = "error"], k, "error")
          /\ \A s : Later([k EXCEPT !.pc = "scored", !.score = s], k, "scored")
          /\ Later([k EXCEPT !.pc = "awaiting"], k, "awaiting")
          /\ \A s : Later([k EXCEPT !.pc = "awaiting", !.session = s], k, "awaiting")
      BY <1>1, RunSteps DEF Recording
    <2>4. ASSUME NEW new, NEW p \in {"error", "scored", "awaiting"}, Account!Advance(k, new),
                 Later(new, k, p), p = "awaiting" => k.bank
          PROVE  \E n, q : /\ q \in Recording \cup {"awaiting", "error"}
                           /\ Account!Advance(k, n) /\ Later(n, k, q)
                           /\ k.pc \in Recording => q \in Recording
                           /\ q \in Recording \/ Account!Scoring(k)
                           /\ q = "awaiting" => k.bank
      <3>1. p \in Recording \cup {"awaiting", "error"} /\ k.pc \notin Recording
        BY <2>1 DEF Recording
      <3> QED BY <1>2, <2>4, <3>1
    <2> QED BY <1>1, <2>1, <2>2, <2>3, <2>4
  <1>3. ASSUME NEW new, NEW p \in Recording, Account!Advance(k, new), Later(new, k, p)
        PROVE  \E n, q : /\ q \in Recording \cup {"awaiting", "error"}
                         /\ Account!Advance(k, n) /\ Later(n, k, q)
                         /\ k.pc \in Recording => q \in Recording
                         /\ q \in Recording \/ Account!Scoring(k)
                         /\ q = "awaiting" => k.bank
    <2>1. p # "awaiting"
      BY DEF Recording
    <2> QED BY <1>3, <2>1
  <1>4. ASSUME NEW p \in Recording
        PROVE  /\ Later([k EXCEPT !.pc = p], k, p)
               /\ \A s : Later([k EXCEPT !.pc = p, !.score = s], k, p)
    BY <1>1, <1>4, RunSteps
  <1>5. CASE \/ Account!autoUnderwriteAfterScore(k) \/ Account!InsertRun(k) \/ Account!UpsertProfile(k)
             \/ Account!RecordMint(k)
    <2>1. \E p \in Recording : \/ Account!Advance(k, [k EXCEPT !.pc = p])
                              \/ \E s : Account!Advance(k, [k EXCEPT !.pc = p, !.score = s])
      <3>1. CASE Account!autoUnderwriteAfterScore(k)
        BY <3>1 DEF Account!autoUnderwriteAfterScore, Recording
      <3>2. CASE Account!InsertRun(k)
        BY <3>2 DEF Account!InsertRun, Recording
      <3>3. CASE Account!UpsertProfile(k)
        BY <3>3 DEF Account!UpsertProfile, Recording
      <3>4. CASE Account!RecordMint(k)
        BY <3>4 DEF Account!RecordMint, Recording
      <3> QED BY <1>5, <3>1, <3>2, <3>3, <3>4
    <2>2. \E new, p : p \in Recording /\ Account!Advance(k, new) /\ Later(new, k, p)
      BY <1>4, <2>1
    <2> QED BY SMTT(60), <1>1, <1>3, <2>2
  <1> QED BY <1>1, <1>2, <1>5

\* What has been read from the chain is written over the row.
LEMMA ReadHeals ==
  ASSUME TasksInv, Heal, Heard', NEW k \in tasks, Account!ReadChain(k)
  PROVE  Heal'
  <1> DEFINE new == [k EXCEPT !.pc = "read", !.read = chain[k.wallet]]
  <1>1. TaskOK(k) /\ k.kind = "load"
    BY DEF TasksInv, Account!ReadChain
  <1>2. tasks' = (tasks \ {k}) \cup {new} /\ chain' = chain /\ cached' = cached
    BY DEF Heard, Account!ReadChain, Account!Advance, Account!Store
  <1>3. HasRead(new, k) /\ new.read = chain[k.wallet]
    BY <1>1, LoadSteps
  <1>4. PICK n : n = new /\ n.kind = "load" /\ n.wallet = k.wallet /\ n.pc = "read"
                 /\ n.read = chain[k.wallet] /\ TaskOK(n)
    BY <1>3 DEF HasRead
  <1> HIDE DEF new
  <1>5. \A w \in Wallets : Recorded(w) => Recorded(w)'
    BY <1>1, <1>2 DEF Recorded
  <1>6. \A w \in Wallets : Healing(w) => Healing(w)'
    BY <1>1, <1>2, <1>3, <1>4 DEF Healing
  <1>7. \A w \in Wallets : InStep(w) => InStep(w)'
    BY <1>2 DEF InStep
  <1>8. \A l \in tasks' : l.kind = "load" => l.wallet \in Wallets
    BY <1>1, <1>2, <1>3, <1>4 DEF TasksInv, TaskOK
  <1>9. \A j \in tasks' : j.kind = "run" => j.here
    BY <1>2, <1>3, <1>4 DEF Heal
  <1>10. \A j, l \in tasks' : j.kind = "load" /\ l.kind = "load" /\ j.wallet = l.wallet => j = l
    <2>1. \A j \in tasks : j.kind = "load" /\ j.wallet = k.wallet => j = k
      BY <1>1 DEF Heal
    <2>2. \A j \in tasks' : j = n \/ (j \in tasks /\ j # k)
      BY <1>2, <1>4
    <2>3. \A j \in tasks' : j.kind = "load" /\ j.wallet = k.wallet => j = n
      BY <2>1, <2>2
    <2> QED BY <1>4, <2>2, <2>3 DEF Heal
  <1>11. \A l \in tasks' : l.kind = "load" /\ l.pc = "read" =>
           l.read = chain'[l.wallet] \/ Recorded(l.wallet)'
    <2>1. SUFFICES ASSUME NEW l \in tasks', l.kind = "load", l.pc = "read", l # n
                   PROVE  l.read = chain'[l.wallet] \/ Recorded(l.wallet)'
      BY <1>2, <1>3, <1>4
    <2>2. l \in tasks
      BY <1>2, <1>4, <2>1
    <2>3. l.read = chain[l.wallet] \/ Recorded(l.wallet)
      BY <2>1, <2>2 DEF Heal
    <2> QED BY <1>2, <1>5, <1>8, <2>1, <2>3
  <1> QED BY <1>5, <1>6, <1>7, <1>9, <1>10, <1>11 DEF Heal

LEMMA SyncHeals ==
  ASSUME TasksInv, Heal, NEW k \in tasks, Account!SyncRow(k)
  PROVE  Heal'
  <1>1. TaskOK(k) /\ k.kind = "load" /\ k.pc = "read" /\ k.wallet \in Wallets
    BY DEF TasksInv, Account!SyncRow, TaskOK
  <1>2. PICK known, new : /\ tasks' = (tasks \ {k}) \cup {new}
                          /\ new = [k EXCEPT !.pc = "answered", !.known = known]
    BY DEF Account!SyncRow, Account!Advance
  <1>3. new.kind = "load" /\ new.wallet = k.wallet /\ new.pc = "answered"
    BY <1>1, <1>2 DEF TaskOK, LoadFields
  <1>4. /\ chain' = chain
        /\ cached' = [cached EXCEPT ![k.wallet] = IF @ # 0 /\ k.read # 0 THEN k.read ELSE @]
    BY DEF Account!SyncRow
  <1>5. \A w \in Wallets : Recorded(w) => Recorded(w)'
    BY <1>1, <1>2 DEF Recorded
  <1>6. Recorded(k.wallet) \/ InStep(k.wallet)'
    <2>1. k.read = chain[k.wallet] \/ Recorded(k.wallet)
      BY <1>1 DEF Heal
    <2> QED BY <1>1, <1>4, <2>1 DEF InStep, TasksInv
  <1>7. \A w \in Wallets \ {k.wallet} : Healing(w) => Healing(w)'
    BY <1>1, <1>2, <1>4 DEF Healing
  <1>8. \A w \in Wallets \ {k.wallet} : InStep(w) => InStep(w)'
    BY <1>4 DEF InStep, TasksInv
  <1>9. \A l \in tasks' : l.kind = "load" => l.wallet \in Wallets
    BY <1>1, <1>2, <1>3 DEF TasksInv, TaskOK
  <1>10. \A j \in tasks' : j.kind = "run" => j.here
    BY <1>2, <1>3 DEF Heal
  <1>11. \A j, l \in tasks' : j.kind = "load" /\ l.kind = "load" /\ j.wallet = l.wallet => j = l
    <2>1. \A j \in tasks : j.kind = "load" /\ j.wallet = k.wallet => j = k
      BY <1>1 DEF Heal
    <2>2. \A j \in tasks' : j = new \/ (j \in tasks /\ j # k)
      BY <1>2
    <2>3. \A j \in tasks' : j.kind = "load" /\ j.wallet = k.wallet => j = new
      BY <2>1, <2>2
    <2> QED BY <1>3, <2>2, <2>3 DEF Heal
  <1>12. \A l \in tasks' : l.kind = "load" /\ l.pc = "read" =>
           l.read = chain'[l.wallet] \/ Recorded(l.wallet)'
    <2>1. SUFFICES ASSUME NEW l \in tasks', l.kind = "load", l.pc = "read"
                   PROVE  l.read = chain'[l.wallet] \/ Recorded(l.wallet)'
      OBVIOUS
    <2>2. l \in tasks
      BY <1>2, <1>3, <2>1
    <2>3. l.read = chain[l.wallet] \/ Recorded(l.wallet)
      BY <2>1, <2>2 DEF Heal
    <2> QED BY <1>4, <1>5, <1>9, <2>1, <2>3
  <1>13. \A w \in Wallets : Recorded(w)' \/ Healing(w)' \/ InStep(w)'
    BY <1>5, <1>6, <1>7, <1>8 DEF Heal
  <1> QED BY <1>10, <1>11, <1>12, <1>13 DEF Heal

\* A load that is shown has written what it read.
LEMMA ShownHeals ==
  ASSUME TasksInv, Heal, NEW k \in tasks, Account!loadProfile(k)
  PROVE  Heal'
  <1>1. k.kind = "load" /\ k.pc = "answered" /\ chain' = chain /\ cached' = cached
    BY DEF Account!loadProfile, Account!Store
  <1>2. \/ tasks' = tasks \ {k}
        \/ address \in Wallets /\ \E t : tasks' = (tasks \ {k}) \cup {Account!Run(t, address)}
    BY ZenonT(60), ViewRendered DEF Account!loadProfile, TasksInv
  <1>3. \A j \in tasks' : \/ j \in tasks /\ j # k
                          \/ j.kind = "run" /\ j.here
    BY <1>2, RunOK
  <1>4. tasks \ {k} \subseteq tasks'
    BY <1>2
  <1>5. \A w \in Wallets : Recorded(w) => Recorded(w)'
    BY <1>1, <1>4 DEF Recorded
  <1>6. \A w \in Wallets : Healing(w) => Healing(w)'
    BY <1>1, <1>4 DEF Healing
  <1>7. \A w \in Wallets : InStep(w) => InStep(w)'
    BY <1>1 DEF InStep
  <1>8. \A l \in tasks' : l.kind = "load" => l.wallet \in Wallets /\ l \in tasks
    BY <1>3 DEF TasksInv, TaskOK
  <1> QED BY <1>1, <1>3, <1>5, <1>6, <1>7, <1>8 DEF Heal

\* A new load, with no other of its wallet under way.
LEMMA LoadHeals ==
  ASSUME TasksInv, Heal, chain' = chain, cached' = cached, NEW w \in Wallets, NEW from,
         NEW gone, \A k \in gone : k.kind = "run" /\ k.wallet = w,
         \A l \in tasks : l.kind = "load" => l.wallet # w,
         \A k \in tasks \ gone : k \in tasks',
         \A k \in tasks' : \/ k \in tasks \ gone \/ k = Account!Load(w, from)
                           \/ k.kind = "run" /\ k.here,
         Account!Load(w, from) \in tasks'
  PROVE  Heal'
  <1>1. PICK n : n = Account!Load(w, from) /\ n.kind = "load" /\ n.wallet = w /\ n.pc = "asked"
    BY LoadOK
  <1>2. Healing(w)'
    BY <1>1 DEF Healing
  <1>3. \A u \in Wallets \ {w} : Recorded(u) => Recorded(u)'
    BY DEF Recorded
  <1>4. \A u \in Wallets \ {w} : Healing(u) => Healing(u)'
    BY DEF Healing
  <1>5. \A u \in Wallets : InStep(u) => InStep(u)'
    BY DEF InStep
  <1>6. \A l \in tasks' : l.kind = "load" => l.wallet \in Wallets /\ (l = n \/ (l \in tasks /\ l.wallet # w))
    BY <1>1 DEF TasksInv, TaskOK
  <1> QED BY <1>1, <1>2, <1>3, <1>4, <1>5, <1>6 DEF Heal

LEMMA DoneHeals ==
  ASSUME TasksInv, Heal, Heard', NEW k \in tasks, Account!handleStreamComplete(k)
  PROVE  Heal'
  <1>1. k.kind = "run" /\ k.wallet \in Wallets /\ chain' = chain /\ cached' = cached
    BY DEF TasksInv, TaskOK, Account!handleStreamComplete, Account!Store
  <1>2. \A l \in tasks : l.kind = "load" => l.wallet # k.wallet
    BY DEF Heard, Account!handleStreamComplete, Account!Of
  <1>3. PICK left : left = (tasks \ {k}) \cup {Account!Load(k.wallet, "complete")}
    OBVIOUS
  <1>4. tasks' = left \/ (address \in Wallets /\ \E t : tasks' = left \cup {Account!Run(t, address)})
    BY <1>3, ViewRendered DEF Account!handleStreamComplete, TasksInv
  <1>5. \A j \in tasks' : j \in left \/ (j.kind = "run" /\ j.here)
    BY <1>4, RunOK
  <1>6. left \subseteq tasks'
    BY <1>4
  <1> QED BY <1>1, <1>2, <1>3, <1>5, <1>6, LoadHeals

LEMMA SwitchHeals ==
  ASSUME TasksInv, Heal, Heard', NEW w \in Wallets \cup {NoWallet}, Account!SwitchWallet(w)
  PROVE  Heal'
  <1>1. chain' = chain /\ cached' = cached
    BY DEF Account!SwitchWallet, Account!Store
  <1>2. \A l \in tasks : l.kind = "load" => l.wallet # w
    BY DEF Heard, Account!SwitchWallet, Account!Of
  <1>3. PICK left : left = IF w = NoWallet THEN tasks ELSE tasks \cup {Account!Load(w, "open")}
    OBVIOUS
  <1>4. tasks' = left \/ (w \in Wallets /\ \E t : tasks' = left \cup {Account!Run(t, w)})
    BY <1>3, ViewRendered DEF Account!SwitchWallet
  <1>5. (\A j \in tasks' : j \in left \/ (j.kind = "run" /\ j.here)) /\ left \subseteq tasks'
    BY <1>4, RunOK
  <1>6. CASE w = NoWallet
    <2>1. tasks' = tasks
      BY <1>3, <1>4, <1>6, LoansAssumption
    <2> QED BY <1>1, <2>1, HealStays DEF Heal, Recorded
  <1>7. CASE w # NoWallet
    <2>1. \A k \in {} : k.kind = "run" /\ k.wallet = w
      OBVIOUS
    <2> QED BY <1>1, <1>2, <1>3, <1>5, <1>7, <2>1, LoadHeals
  <1> QED BY <1>6, <1>7

LEMMA ResetHeals ==
  ASSUME TasksInv, Heal, NEW k \in tasks, Account!deleteRows(k)
  PROVE  Heal'
  <1>1. k.kind = "reset" /\ chain' = chain /\ TaskOK(k)
    BY DEF Account!deleteRows, TasksInv
  <1>2. cached' = cached \/ cached' = [cached EXCEPT ![k.wallet] = 0]
    BY DEF Account!deleteRows
  <1>3. tasks \ {k} \subseteq tasks' /\ \A j \in tasks' : j \in tasks \/ j.kind = "reset"
    <2>1. \/ tasks' = tasks \ {k}
          \/ \E d, e : tasks' = (tasks \ {k}) \cup {[k EXCEPT !.todo = d, !.failed = e]}
          \/ \E d : tasks' = (tasks \ {k}) \cup {[k EXCEPT !.todo = d]}
      BY DEF Account!deleteRows, Account!Advance
    <2>2. \A d, e : [k EXCEPT !.todo = d, !.failed = e].kind = "reset" /\ [k EXCEPT !.todo = d].kind = "reset"
      BY <1>1 DEF TaskOK, ResetFields
    <2> QED BY <2>1, <2>2
  <1>4. \A w \in Wallets : Recorded(w) => Recorded(w)'
    BY <1>1, <1>3 DEF Recorded
  <1>5. \A w \in Wallets : Healing(w) => Healing(w)'
    BY <1>1, <1>3 DEF Healing
  <1>6. \A w \in Wallets : InStep(w) => InStep(w)'
    BY <1>1, <1>2 DEF InStep, TasksInv
  <1>7. \A l \in tasks' : l.kind = "load" => l.wallet \in Wallets /\ l \in tasks
    BY <1>3 DEF TasksInv, TaskOK
  <1>8. \A j \in tasks' : j.kind = "run" => j.here
    BY <1>3 DEF Heal
  <1> QED BY <1>1, <1>4, <1>5, <1>6, <1>7, <1>8 DEF Heal

\* The steps that touch neither a load nor a score.
LEMMA OthersHeal ==
  ASSUME TasksInv, Heal, Heard', NEW k \in tasks,
         \/ Account!Unheard(k) \/ Account!handleAwaitingReclaim(k) \/ Account!handleStreamError(k)
         \/ Account!PollHead(k) \/ Account!PollAnswer(k) \/ Account!resetReclaim(k)
  PROVE  Heal'
  <1>1. chain' = chain /\ cached' = cached
    BY DEF Account!Unheard, Account!handleAwaitingReclaim, Account!handleStreamError,
           Account!PollHead, Account!PollAnswer, Account!resetReclaim, Account!Store
  <1>2. /\ k.kind \in {"run", "poll", "reset"}
        /\ k.kind = "run" => k.pc \notin Recording
    BY DEF Account!Unheard, Account!handleAwaitingReclaim, Account!handleStreamError,
           Account!PollHead, Account!PollAnswer, Account!resetReclaim, Heal, Recording
  <1>3. /\ tasks \ {k} \subseteq tasks'
        /\ \A j \in tasks' : \/ j \in tasks
                             \/ j.kind \in {"poll", "reset"}
                             \/ j.kind = "run" /\ j.here
    <2>1. CASE Account!PollAnswer(k)
      <3>1. k.kind = "poll" /\ TaskOK(k)
        BY <2>1 DEF Account!PollAnswer, TasksInv
      <3>2. [k EXCEPT !.pc = "head"].kind = "poll"
        BY <3>1 DEF TaskOK, PollFields
      <3>3. PICK n : n = [k EXCEPT !.pc = "head"] /\ n.kind = "poll"
        BY <3>2
      <3>4. \/ tasks' = tasks \ {k} \/ tasks' = (tasks \ {k}) \cup {n}
            \/ \E t : Account!Render(t, address, tasks \ {k}, TRUE)
        BY <2>1, <3>3 DEF Account!PollAnswer, Account!Advance
      <3>5. ASSUME NEW t, Account!Render(t, address, tasks \ {k}, TRUE)
            PROVE  \/ tasks' = tasks \ {k}
                   \/ address \in Wallets /\ tasks' = (tasks \ {k}) \cup {Account!Run(t, address)}
        BY <3>5, ViewRendered DEF TasksInv
      <3>6. ASSUME NEW t, tasks' = (tasks \ {k}) \cup {Account!Run(t, address)}, address \in Wallets
            PROVE  \A j \in tasks' : j \in tasks \/ (j.kind = "run" /\ j.here)
        BY <3>6, RunOK
      <3> QED BY <3>3, <3>4, <3>5, <3>6
    <2>2. CASE Account!PollHead(k)
      <3>1. [k EXCEPT !.pc = "fetch"].kind = "poll"
        BY <2>2 DEF Account!PollHead, TasksInv, TaskOK, PollFields
      <3> QED BY <2>2, <3>1 DEF Account!PollHead, Account!Advance
    <2>3. CASE Account!handleAwaitingReclaim(k)
      BY <2>3 DEF Account!handleAwaitingReclaim
    <2>4. CASE Account!Unheard(k) \/ Account!handleStreamError(k) \/ Account!resetReclaim(k)
      BY <2>4 DEF Account!Unheard, Account!handleStreamError, Account!resetReclaim
    <2> QED BY <2>1, <2>2, <2>3, <2>4
  <1>4. \A w \in Wallets : Recorded(w) => Recorded(w)'
    BY <1>2, <1>3 DEF Recorded
  <1>5. \A l : l.kind = "load" => (l \in tasks' <=> l \in tasks)
    BY <1>2, <1>3
  <1>6. \A j \in tasks' : j.kind = "run" => j.here
    BY <1>3 DEF Heal
  <1> QED BY <1>1, <1>4, <1>5, <1>6, HealStays

\* The clicks, and what happens outside the page.
LEMMA ClicksHeal ==
  ASSUME TasksInv, Heal, Heard',
         \/ \E b \in BOOLEAN : Account!beginCalculation(b)
         \/ Account!cancelScoreFlow \/ Account!goToDashboard \/ Account!retryAfterError
         \/ Account!Navigate \/ Account!Reload
         \/ \E s \in sessions : Account!BankProof(s)
         \/ \E w \in Wallets : \/ Account!ChainMoves(w) \/ Account!ResetCache(w)
                               \/ Account!WipeWallet(w) \/ Account!MintCached(w)
  PROVE  Heal'
  <1>1. /\ ~Account!Reload
        /\ \A w \in Wallets : ~Account!ChainMoves(w) /\ ~Account!MintCached(w)
    BY DEF Heard, Account!Reload, Account!ChainMoves, Account!MintCached
  <1>2. chain' = chain /\ cached' = cached
    BY <1>1 DEF Account!beginCalculation, Account!cancelScoreFlow, Account!goToDashboard,
                Account!retryAfterError, Account!Navigate, Account!BankProof, Account!ResetCache,
                Account!WipeWallet, Account!Store
  <1>3. /\ tasks \subseteq tasks'
        /\ \A j \in tasks' : j \in tasks \/ j.kind = "reset" \/ (j.kind = "run" /\ j.here)
    <2>1. ASSUME NEW b \in BOOLEAN, Account!beginCalculation(b)
          PROVE  tasks' = tasks \/ (address \in Wallets /\ \E t : tasks' = tasks \cup {Account!Run(t, address)})
      BY <2>1, ViewRendered DEF Account!beginCalculation, TasksInv
    <2>2. ASSUME NEW w \in Wallets, Account!ResetCache(w) \/ Account!WipeWallet(w)
          PROVE  tasks \subseteq tasks' /\ \A j \in tasks' : j \in tasks \/ j.kind = "reset"
      <3>1. ASSUME Account!ResetCache(w)
            PROVE  \E c, d, e : tasks' = tasks \cup
                     {[kind |-> "reset", wallet |-> w, script |-> c, todo |-> d, failed |-> e]}
        BY <3>1 DEF Account!ResetCache
      <3>2. ASSUME Account!WipeWallet(w)
            PROVE  \E d : tasks' = tasks \cup
                     {[kind |-> "reset", wallet |-> w, script |-> TRUE, failed |-> FALSE, todo |-> d]}
        BY <3>2 DEF Account!WipeWallet
      <3>3. ASSUME NEW c, NEW d, NEW e
            PROVE  [kind |-> "reset", wallet |-> w, script |-> c, todo |-> d, failed |-> e].kind = "reset"
        OBVIOUS
      <3>4. ASSUME NEW d
            PROVE  [kind |-> "reset", wallet |-> w, script |-> TRUE, failed |-> FALSE, todo |-> d].kind = "reset"
        OBVIOUS
      <3>5. CASE Account!ResetCache(w)
        BY <3>1, <3>3, <3>5
      <3>6. CASE Account!WipeWallet(w)
        BY <3>2, <3>4, <3>6
      <3> QED BY <2>2, <3>5, <3>6
    <2>3. ASSUME \/ Account!cancelScoreFlow \/ Account!goToDashboard \/ Account!retryAfterError
                 \/ Account!Navigate \/ \E s \in sessions : Account!BankProof(s)
          PROVE  tasks' = tasks
      BY <2>3 DEF Account!cancelScoreFlow, Account!goToDashboard, Account!retryAfterError,
                  Account!Navigate, Account!BankProof
    <2> QED BY <1>1, <2>1, <2>2, <2>3, RunOK
  <1>4. \A w \in Wallets : Recorded(w) => Recorded(w)'
    BY <1>3 DEF Recorded
  <1>5. \A l : l.kind = "load" => (l \in tasks' <=> l \in tasks)
    BY <1>3
  <1>6. \A j \in tasks' : j.kind = "run" => j.here
    BY SMTT(60), <1>3 DEF Heal
  <1> QED BY <1>2, <1>4, <1>5, <1>6, HealStays

LEMMA MarksStay ==
  ASSUME Account!ScoreNext PROVE marks \subseteq marks'
  BY DEF Account!ScoreNext, Account!SwitchWallet, Account!beginCalculation, Account!cancelScoreFlow,
         Account!goToDashboard, Account!retryAfterError, Account!Navigate, Account!Reload,
         Account!ReadChain, Account!SyncRow, Account!loadProfile, Account!LoadFails,
         Account!Scoring, Account!InsertRun, Account!UpsertProfile,
         Account!autoUnderwriteAfterScore, Account!RecordMint, Account!handleStreamComplete,
         Account!Unheard, Account!handleAwaitingReclaim, Account!handleStreamError,
         Account!PollHead, Account!PollAnswer, Account!BankProof, Account!ChainMoves,
         Account!ResetCache, Account!WipeWallet, Account!MintCached, Account!deleteRows,
         Account!resetReclaim

LEMMA HealKept ==
  ASSUME HealInv, Account!ScoreNext
  PROVE  HealInv'
  <1>1. TasksInv /\ TasksInv'
    BY TasksKept DEF HealInv
  <1>2. SUFFICES ASSUME Heard' PROVE Heal'
    BY <1>1 DEF HealInv
  <1>3. marks \subseteq marks'
    BY MarksStay
  <1>4. Heal
    BY <1>2, <1>3 DEF HealInv, Heard
  <1>5. ASSUME NEW k \in tasks,
               \/ Account!Scoring(k) \/ Account!InsertRun(k) \/ Account!UpsertProfile(k)
               \/ Account!autoUnderwriteAfterScore(k) \/ Account!RecordMint(k)
        PROVE  Heal'
    <2>1. \A w \in Wallets \ {k.wallet} : chain'[w] = chain[w] /\ cached'[w] = cached[w]
      BY <1>1, <1>5 DEF Account!Scoring, Account!InsertRun, Account!UpsertProfile,
             Account!autoUnderwriteAfterScore, Account!RecordMint, TasksInv
    <2>2. Account!Scoring(k) => chain' = chain /\ cached' = cached
      BY DEF Account!Scoring
    <2>3. CASE k.kind = "run" /\ k.pc = "scoring" /\ tasks' = tasks \ {k}
      <3>1. chain' = chain /\ cached' = cached
        BY <1>5, <2>2, <2>3 DEF Account!InsertRun, Account!UpsertProfile, Account!autoUnderwriteAfterScore,
                                Account!RecordMint
      <3>2. \A w \in Wallets : Recorded(w) => Recorded(w)'
        BY <2>3 DEF Recorded, Recording
      <3>3. \A l : l.kind = "load" => (l \in tasks' <=> l \in tasks)
        BY <2>3
      <3> QED BY <1>1, <1>4, <2>3, <3>1, <3>2, <3>3, HealStays DEF Heal
    <2>4. ASSUME NEW new, NEW p \in Recording \cup {"awaiting", "error"}, k.kind = "run",
                 Account!Advance(k, new), Later(new, k, p), k.pc \in Recording => p \in Recording,
                 p \in Recording \/ Account!Scoring(k)
          PROVE  Heal'
      BY <1>1, <1>4, <2>1, <2>2, <2>4, RunHeals
    <2> QED BY <1>1, <1>5, <2>3, <2>4, RunAdvances
  <1>6. ASSUME NEW k \in tasks, Account!LoadFails(k) PROVE FALSE
    BY <1>2, <1>6 DEF Heard, Account!LoadFails
  <1> QED BY <1>1, <1>2, <1>4, <1>5, <1>6, ReadHeals, SyncHeals, ShownHeals, DoneHeals, SwitchHeals,
             ResetHeals, OthersHeal, ClicksHeal DEF Account!ScoreNext, Account!Of

LEMMA HealBegins == Init => HealInv
  <1>1. SUFFICES ASSUME Init PROVE HealInv
    OBVIOUS
  <1>2. Wallets # {} /\ address = (CHOOSE w \in Wallets : TRUE)
    BY <1>1, LoansAssumption DEF Init, Account!ScoreInit
  <1>3. address \in Wallets
    BY <1>2
  <1>4. /\ tasks = {Account!Load(address, "open")}
        /\ chain = [w \in Wallets |-> 0] /\ cached = [w \in Wallets |-> 0]
    BY <1>1 DEF Init, Account!ScoreInit
  <1>5. TasksInv
    BY <1>3, <1>4, LoadOK DEF TasksInv
  <1>6. Heal
    BY <1>3, <1>4, LoadOK DEF Heal, InStep
  <1> QED BY <1>5, <1>6 DEF HealInv

\* At rest the cached score is the one on the chain, whichever of the four
\* recording steps of a run failed, unless a load was lost or met another one
\* (finalizeCompleteScoreRun, GET of api/profile).
THEOREM CacheHealed == Spec => []HealedAtRest
  <1>1. HealInv /\ [Next]_clientVars => HealInv'
    <2>1. SUFFICES ASSUME HealInv, [Next]_clientVars PROVE HealInv'
      OBVIOUS
    <2>2. CASE UNCHANGED scoreVars
      BY <2>1, <2>2 DEF scoreVars, HealInv, TasksInv, TaskOK, Heard, Heal, Recorded, Healing, InStep
    <2>3. (InAccount /\ Account!ScoreNext) \/ UNCHANGED scoreVars
      BY <2>1 DEF Next, InLoans, InPrep, InShell, InDefault, InAgents, clientVars
    <2> QED BY <2>1, <2>2, <2>3, HealKept
  <1>2. HealInv => HealedAtRest
    <2>1. SUFFICES ASSUME HealInv, tasks = {}, Heard, NEW w \in Wallets PROVE InStep(w)
      BY DEF HealedAtRest, Account!HealedAtRest, InStep, Heard
    <2> QED BY <2>1 DEF HealInv, Heal, Recorded, Healing
  <1> QED BY <1>1, <1>2, HealBegins, PTL DEF Spec

\* The sessions after a step: a verified one is never given up.
SessionsKept ==
  /\ \A s \in sessions' : SessionOK(s)
  /\ "reset" \notin marks' => \A id : ProvedHere(id) => ProvedHere(id)'

\* A task is replaced by another, or given up, and the tab goes on.
LEMMA AloneGoesOn ==
  ASSUME Alone, address' = address, marks \subseteq marks', SessionsKept,
         NEW k, NEW new, tasks' \subseteq (tasks \ {k}) \cup {new},
         Waiting(new) => k \in tasks /\ Waiting(k), Fits(new, tab),
         DOMAIN tab' = TabFields, tab'.session = tab.session, tab'.bank = tab.bank,
         tab'.view = tab.view, Busy(tab) => Busy(tab')
  PROVE  Alone'
  <1>1. \A j \in tasks' : (j \in tasks /\ j # k) \/ j = new
    OBVIOUS
  <1>2. \A j \in tasks' : Fits(j, tab)'
    BY <1>1 DEF Alone, Fits
  <1>3. \A a, b \in tasks' : Waiting(a) /\ Waiting(b) => a = b
    BY <1>1 DEF Alone
  <1>4. \A a \in tasks' : Waiting(a) => Busy(tab')
    BY <1>1 DEF Alone
  <1>5. Shows(tab)'
    BY DEF Alone, Shows, SessionsKept
  <1> QED BY <1>2, <1>3, <1>4, <1>5 DEF Alone, SessionsKept, SessionOK, Fits, Shows, Busy, Waiting

\* The tab waits for nothing after the step.
LEMMA AloneRests ==
  ASSUME address \in Wallets, address' = address, \A s \in sessions : SessionOK(s), sessions' = sessions,
         \A k \in tasks' : ~Waiting(k) /\ (k.kind = "run" => k.pc \in Recording),
         DOMAIN tab' = TabFields, Shows(tab)'
  PROVE  Alone'
  <1>1. \A k \in tasks' : Fits(k, tab)'
    BY DEF Fits, Waiting, Recording
  <1> QED BY <1>1 DEF Alone, SessionOK, Fits, Shows, Busy, Waiting

\* A run is begun where the tab waits for nothing.
LEMMA AloneBegins ==
  ASSUME address \in Wallets, address' = address, \A s \in sessions : SessionOK(s), sessions' = sessions,
         NEW left, \A k \in left : ~Waiting(k) /\ (k.kind = "run" => k.pc \in Recording),
         tasks' = left \cup {Account!Run(tab', address)}, Account!Mounted(tab', address),
         DOMAIN tab' = TabFields, Shows(tab)'
  PROVE  Alone'
  <1>1. PICK n : n = Account!Run(tab', address)
    OBVIOUS
  <1>2. /\ n.kind = "run" /\ n.wallet = address /\ n.pc = "scoring" /\ n.here
        /\ n.bank = tab'.bank /\ n.session = tab'.session
    BY <1>1, RunOK
  <1>3. tab'.phase \in {"empty", "complete"} /\ tab'.view = "calculating"
    BY DEF Account!Mounted
  <1>4. \A k \in tasks' : Fits(k, tab)'
    BY <1>1, <1>2, <1>3 DEF Fits, Waiting, Recording
  <1>5. \A k \in tasks' : Waiting(k) => k = n
    BY <1>1
  <1> QED BY <1>3, <1>4, <1>5 DEF Alone, SessionOK, Fits, Shows, Busy, Waiting

\* A run at its next stage waits as before.
LEMMA RunFits ==
  ASSUME Alone, NEW k \in tasks, k.kind = "run", NEW p \in Recording \cup {"awaiting", "error"},
         NEW new, Later(new, k, p), p \in Recording \/ k.pc \notin Recording, p = "awaiting" => k.bank
  PROVE  Fits(new, tab) /\ (Waiting(new) => Waiting(k))
  <1>1. Fits(k, tab)
    BY DEF Alone
  <1> QED BY <1>1 DEF Fits, Waiting, Later, Recording

\* What a step that leaves the sessions alone keeps of them.
LEMMA SameSessions ==
  ASSUME Alone, address' = address, sessions' = sessions
  PROVE  SessionsKept /\ \A id : ProvedHere(id) => ProvedHere(id)'
  BY DEF Alone, SessionsKept, SessionOK, ProvedHere

LEMMA ScoringAlone ==
  ASSUME TasksInv, Alone, NEW k \in tasks, Account!Scoring(k)
  PROVE  Alone'
  <1>1. k.kind = "run" /\ k.pc = "scoring" /\ TaskOK(k) /\ address' = address /\ tab' = tab /\ marks' = marks
    BY DEF Account!Scoring, TasksInv
  <1>2. k.here /\ k.wallet = address
    BY <1>1 DEF Alone, Fits, Recording
  <1>3. SessionsKept
    <2>1. CASE sessions' = sessions
      BY <1>1, <2>1, SameSessions
    <2>2. CASE Account!create_session(k)
      <3>1. PICK id : sessions' = {s \in sessions : s.wallet = k.wallet => s.verified}
                                  \cup {[id |-> id, wallet |-> k.wallet, verified |-> FALSE]}
        BY <2>2 DEF Account!create_session
      <3>2. \A s \in sessions' : SessionOK(s)'
        BY <1>1, <1>2, <3>1 DEF Alone, SessionOK
      <3>3. \A id2 : ProvedHere(id2) => ProvedHere(id2)'
        BY <1>1, <3>1 DEF ProvedHere
      <3> QED BY <1>1, <3>2, <3>3 DEF SessionsKept, SessionOK
    <2> QED BY <2>1, <2>2 DEF Account!Scoring
  <1>4. CASE tasks' = tasks \ {k}
    <2>1. tasks' \subseteq (tasks \ {k}) \cup {k}
      BY <1>4
    <2> QED BY <1>1, <1>3, <2>1, AloneGoesOn DEF Alone
  <1>5. ASSUME NEW new, NEW p \in Recording \cup {"awaiting", "error"}, Account!Advance(k, new),
               Later(new, k, p), p = "awaiting" => k.bank
        PROVE  Alone'
    <2>1. k.pc \notin Recording
      BY <1>1 DEF Recording
    <2>2. Fits(new, tab) /\ (Waiting(new) => Waiting(k))
      BY <1>1, <1>5, <2>1, RunFits
    <2>3. tasks' \subseteq (tasks \ {k}) \cup {new}
      BY <1>5 DEF Account!Advance
    <2> QED BY <1>1, <1>3, <2>2, <2>3, AloneGoesOn DEF Alone
  <1>6. \/ tasks' = tasks \ {k}
        \/ \E new, p : /\ p \in Recording \cup {"awaiting", "error"} /\ Account!Advance(k, new)
                       /\ Later(new, k, p) /\ (p = "awaiting" => k.bank)
    BY RunAdvances
  <1> QED BY <1>4, <1>5, <1>6

LEMMA RecordingAlone ==
  ASSUME TasksInv, Alone, NEW k \in tasks,
         \/ Account!InsertRun(k) \/ Account!UpsertProfile(k)
         \/ Account!autoUnderwriteAfterScore(k) \/ Account!RecordMint(k)
  PROVE  Alone'
  <1>1. address' = address /\ tab' = tab /\ marks' = marks /\ sessions' = sessions
    BY DEF Account!InsertRun, Account!UpsertProfile, Account!autoUnderwriteAfterScore, Account!RecordMint
  <1>2. k.kind = "run" /\ k.pc \in Recording /\ TaskOK(k)
    BY DEF Account!InsertRun, Account!UpsertProfile, Account!autoUnderwriteAfterScore,
           Account!RecordMint, Recording, TasksInv
  <1>4. PICK new, p : p \in Recording /\ Account!Advance(k, new) /\ Later(new, k, p)
    <2>1. k.pc # "scoring"
      BY <1>2 DEF Recording
    <2> QED BY <1>2, <2>1, RunAdvances
  <1>5. Fits(new, tab) /\ (Waiting(new) => Waiting(k))
    BY <1>2, <1>4, RunFits DEF Recording
  <1>6. tasks' \subseteq (tasks \ {k}) \cup {new}
    BY <1>4 DEF Account!Advance
  <1> QED BY <1>1, <1>5, <1>6, SameSessions, AloneGoesOn DEF Alone

\* The loads.
LEMMA ReadAlone ==
  ASSUME TasksInv, Alone, NEW k \in tasks, Account!ReadChain(k) \/ Account!SyncRow(k)
  PROVE  Alone'
  <1>1. address' = address /\ tab' = tab /\ marks \subseteq marks' /\ sessions' = sessions /\ TaskOK(k)
        /\ k.kind = "load"
    BY DEF Account!ReadChain, Account!SyncRow, Account!Store, TasksInv
  <1>2. PICK new : tasks' = (tasks \ {k}) \cup {new} /\ new.kind = "load"
    <2>1. CASE Account!ReadChain(k)
      <3>1. \/ \E r : tasks' = (tasks \ {k}) \cup {[k EXCEPT !.pc = "read", !.read = r]}
            \/ tasks' = (tasks \ {k}) \cup {[k EXCEPT !.pc = "read"]}
        BY <2>1 DEF Account!ReadChain, Account!Advance
      <3>2. /\ [k EXCEPT !.pc = "read"].kind = "load"
            /\ \A r : [k EXCEPT !.pc = "read", !.read = r].kind = "load"
        BY <1>1 DEF TaskOK, LoadFields
      <3> QED BY <3>1, <3>2
    <2>2. CASE Account!SyncRow(k)
      <3>1. PICK known : tasks' = (tasks \ {k}) \cup {[k EXCEPT !.pc = "answered", !.known = known]}
        BY <2>2 DEF Account!SyncRow, Account!Advance
      <3>2. [k EXCEPT !.pc = "answered", !.known = known].kind = "load"
        BY <1>1 DEF TaskOK, LoadFields
      <3> QED BY <3>1, <3>2
    <2> QED BY <2>1, <2>2
  <1>3. Fits(new, tab) /\ ~Waiting(new)
    BY <1>2 DEF Fits, Waiting
  <1> QED BY <1>1, <1>2, <1>3, SameSessions, AloneGoesOn DEF Alone

\* What is left of the tasks where the tab waits for nothing.
LEMMA Idle ==
  ASSUME Alone, NEW left, left \subseteq tasks, \A k \in left : ~Waiting(k)
  PROVE  \A k \in left : ~Waiting(k) /\ (k.kind = "run" => k.pc \in Recording)
  BY DEF Alone, Fits, Waiting

LEMMA ShownAlone ==
  ASSUME TasksInv, Alone, NEW k \in tasks, Account!loadProfile(k), "left" \notin marks'
  PROVE  Alone'
  <1> DEFINE t == [tab EXCEPT !.known = k.known, !.phase = IF k.known THEN "complete" ELSE "empty",
                              !.view = IF k.known THEN @ ELSE "choose"]
  <1>1. /\ k.kind = "load" /\ Account!Render(t, address, tasks \ {k}, FALSE)
        /\ marks' = IF k.known \/ Account!Live = {} THEN marks ELSE marks \cup {"left"}
        /\ address' = address /\ sessions' = sessions /\ address \in Wallets
    BY DEF Account!loadProfile, Account!Store, Alone
  <1>2. marks' = marks /\ (k.known \/ \A j \in tasks : ~Waiting(j))
    BY <1>1 DEF Account!Live, Waiting
  <1>3. /\ DOMAIN t = TabFields /\ t.session = tab.session /\ t.bank = tab.bank
        /\ t.phase \in {"empty", "complete"}
        /\ t.view = tab.view \/ (t.view = "choose" /\ ~k.known)
    BY DEF Alone, TabFields
  <1>4. PICK u : u = t
    OBVIOUS
  <1>5. /\ tab' = u
        /\ \/ tasks' = tasks \ {k}
           \/ /\ Account!Mounted(u, address) /\ ~Account!Mounted(tab, address)
              /\ tasks' = (tasks \ {k}) \cup {Account!Run(u, address)}
    BY <1>1, <1>4, ViewRendered
  <1> HIDE DEF t
  <1>6. Shows(tab)'
    BY <1>1, <1>2, <1>3, <1>4, <1>5 DEF Alone, Shows, ProvedHere
  <1>7. CASE u.view = tab.view /\ tasks' = tasks \ {k}
    <2>1. Busy(tab) => Busy(tab')
      BY <1>3, <1>4, <1>5, <1>7 DEF Busy
    <2>2. tasks' \subseteq (tasks \ {k}) \cup {k} /\ Fits(k, tab) /\ (Waiting(k) => Waiting(k))
      BY <1>7 DEF Alone
    <2> QED BY <1>1, <1>2, <1>3, <1>4, <1>5, <1>7, <2>1, <2>2, SameSessions, AloneGoesOn
  <1>8. CASE Account!Mounted(u, address) /\ ~Account!Mounted(tab, address)
             /\ tasks' = (tasks \ {k}) \cup {Account!Run(u, address)}
    <2>1. u.view = "calculating" /\ u.view = tab.view
      BY <1>3, <1>4, <1>8 DEF Account!Mounted
    <2>2. ~Busy(tab)
      BY <1>1, <1>8, <2>1, LoansAssumption DEF Account!Mounted, Busy
    <2>3. \A j \in tasks \ {k} : ~Waiting(j) /\ (j.kind = "run" => j.pc \in Recording)
      BY <2>2, Idle DEF Alone
    <2> QED BY <1>1, <1>3, <1>4, <1>5, <1>6, <1>8, <2>3, AloneBegins DEF Alone
  <1>9. CASE ~k.known /\ tasks' = tasks \ {k}
    <2>1. \A j \in tasks' : ~Waiting(j) /\ (j.kind = "run" => j.pc \in Recording)
      BY <1>2, <1>9, Idle
    <2> QED BY <1>1, <1>3, <1>4, <1>5, <1>6, <2>1, AloneRests DEF Alone
  <1> QED BY <1>3, <1>4, <1>5, <1>7, <1>8, <1>9

LEMMA FailsAlone ==
  ASSUME TasksInv, Alone, NEW k \in tasks, Account!LoadFails(k), "left" \notin marks'
  PROVE  Alone'
  <1>1. /\ k.kind = "load" /\ tasks' = tasks \ {k} /\ address' = address /\ sessions' = sessions
        /\ tab' = IF k.from = "open" THEN [tab EXCEPT !.phase = "error"] ELSE tab
        /\ marks' = marks \cup {"lost"} \cup (IF k.from = "open" /\ Account!Live # {} THEN {"left"} ELSE {})
    BY DEF Account!LoadFails, Account!Store
  <1>2. CASE k.from = "open"
    <2>1. /\ DOMAIN tab' = TabFields /\ tab'.session = tab.session /\ tab'.bank = tab.bank
          /\ tab'.view = tab.view
      BY <1>1, <1>2 DEF Alone, TabFields
    <2>2. \A j \in tasks : ~Waiting(j)
      BY <1>1, <1>2 DEF Account!Live, Waiting
    <2>3. ~Waiting(k) /\ Fits(k, tab)
      BY <2>2 DEF Alone
    <2>4. \A j \in tasks' : ~Waiting(j) /\ (j.kind = "run" => j.pc \in Recording)
      BY <1>1, <2>2, Idle
    <2>5. Shows(tab)'
      BY <1>1, <2>1 DEF Alone, Shows, ProvedHere
    <2> QED BY <1>1, <2>1, <2>4, <2>5, AloneRests DEF Alone
  <1>3. CASE k.from # "open"
    <2>1. tab' = tab /\ marks \subseteq marks' /\ tasks' \subseteq (tasks \ {k}) \cup {k} /\ Fits(k, tab)
      BY <1>1, <1>3 DEF Alone
    <2> QED BY <1>1, <2>1, SameSessions, AloneGoesOn DEF Alone
  <1> QED BY <1>2, <1>3

LEMMA CompleteAlone ==
  ASSUME TasksInv, Alone, NEW k \in tasks, Account!handleStreamComplete(k)
  PROVE  Alone'
  <1> DEFINE t == [tab EXCEPT !.view = "result", !.phase = "complete", !.session = 0]
             left == (tasks \ {k}) \cup {Account!Load(k.wallet, "complete")}
  <1>1. /\ k.kind = "run" /\ k.here /\ Account!Render(t, address, left, FALSE)
        /\ address' = address /\ sessions' = sessions /\ address \in Wallets
    BY DEF Account!handleStreamComplete, Account!Store, Alone
  <1>2. PICK u : u = t
    OBVIOUS
  <1>3. u.view = "result" /\ DOMAIN u = TabFields
    BY <1>2 DEF Alone, TabFields
  <1>4. tab' = u /\ tasks' = left
    <2>1. ~Account!Mounted(u, address)
      BY <1>3 DEF Account!Mounted
    <2> QED BY <1>1, <1>2, <2>1, ViewRendered
  <1> HIDE DEF t
  <1>5. \A j \in tasks \ {k} : ~Waiting(j)
    BY <1>1 DEF Alone, Waiting
  <1>6. \A j \in tasks \ {k} : ~Waiting(j) /\ (j.kind = "run" => j.pc \in Recording)
    BY <1>5, Idle
  <1>7. \A j \in tasks' : ~Waiting(j) /\ (j.kind = "run" => j.pc \in Recording)
    <2>1. Account!Load(k.wallet, "complete").kind = "load"
      BY DEF Account!Load
    <2>2. PICK n : n = Account!Load(k.wallet, "complete") /\ n.kind = "load"
      BY <2>1
    <2>3. ~Waiting(n)
      BY <2>2 DEF Waiting
    <2> QED BY <1>4, <1>6, <2>2, <2>3
  <1>8. Shows(tab)'
    BY <1>3, <1>4 DEF Shows
  <1> QED BY <1>1, <1>3, <1>4, <1>7, <1>8, AloneRests DEF Alone

\* A run that failed, or that nobody hears of.
LEMMA ErrorAlone ==
  ASSUME TasksInv, Alone, NEW k \in tasks, Account!handleStreamError(k) \/ Account!Unheard(k)
  PROVE  Alone'
  <1>1. CASE Account!Unheard(k)
    <2>1. /\ tasks' \subseteq (tasks \ {k}) \cup {k} /\ Fits(k, tab) /\ tab' = tab /\ address' = address
          /\ marks' = marks /\ sessions' = sessions
      BY <1>1 DEF Account!Unheard, Account!Store, Alone
    <2> QED BY <2>1, SameSessions, AloneGoesOn DEF Alone
  <1>2. CASE Account!handleStreamError(k)
    <2>1. /\ k.kind = "run" /\ k.pc = "error" /\ tasks' = tasks \ {k} /\ address' = address
          /\ tab' = [tab EXCEPT !.phase = "error"] /\ sessions' = sessions /\ marks' = marks
      BY <1>2 DEF Account!handleStreamError, Account!Store
    <2>2. /\ DOMAIN tab' = TabFields /\ tab'.session = tab.session /\ tab'.bank = tab.bank
          /\ tab'.view = tab.view
      BY <2>1 DEF Alone, TabFields
    <2>3. Waiting(k)
      BY <2>1 DEF Alone, Fits, Waiting, Recording
    <2>4. \A j \in tasks' : ~Waiting(j)
      BY <2>1, <2>3 DEF Alone
    <2>5. \A j \in tasks' : ~Waiting(j) /\ (j.kind = "run" => j.pc \in Recording)
      BY <2>1, <2>4, Idle
    <2>6. Shows(tab)'
      BY <2>1, <2>2 DEF Alone, Shows, ProvedHere
    <2> QED BY <2>1, <2>2, <2>5, <2>6, AloneRests DEF Alone
  <1> QED BY <1>1, <1>2

LEMMA AwaitingAlone ==
  ASSUME TasksInv, Alone, NEW k \in tasks, Account!handleAwaitingReclaim(k)
  PROVE  Alone'
  <1>1. PICK n : n = [kind |-> "poll", session |-> k.session, pc |-> "head"]
    OBVIOUS
  <1>2. /\ k.kind = "run" /\ k.pc = "awaiting" /\ tasks' = (tasks \ {k}) \cup {n}
        /\ tab' = [tab EXCEPT !.session = k.session, !.view = "reclaim"]
        /\ address' = address /\ sessions' = sessions /\ marks' = marks
    BY <1>1 DEF Account!handleAwaitingReclaim, Account!Store
  <1>3. /\ DOMAIN tab' = TabFields /\ tab'.session = k.session /\ tab'.bank = tab.bank
        /\ tab'.view = "reclaim" /\ tab'.phase = tab.phase
    BY <1>2 DEF Alone, TabFields
  <1>4. Waiting(k) /\ k.bank /\ tab.bank /\ Busy(tab)
    BY <1>2 DEF Alone, Fits, Waiting, Recording
  <1>5. \A j \in tasks \ {k} : ~Waiting(j)
    BY <1>4 DEF Alone
  <1>6. \A j \in tasks \ {k} : ~Waiting(j) /\ (j.kind = "run" => j.pc \in Recording)
    BY <1>5, Idle
  <1>7. n.kind = "poll" /\ n.session = k.session
    BY <1>1
  <1>8. \A j \in tasks' : Fits(j, tab)'
    BY <1>2, <1>3, <1>4, <1>6, <1>7 DEF Fits, Waiting, Recording
  <1>9. \A a, b \in tasks' : Waiting(a) /\ Waiting(b) => a = b
    BY <1>2, <1>5
  <1>10. Busy(tab')
    BY <1>3, <1>4 DEF Busy
  <1>11. Shows(tab)'
    BY <1>3 DEF Shows
  <1> QED BY <1>2, <1>3, <1>8, <1>9, <1>10, <1>11 DEF Alone, SessionOK, Waiting, Busy

\* A loop that gives up, in a tab that shows an error or goes on as it was.
LEMMA PollEnds ==
  ASSUME TasksInv, Alone, NEW k \in tasks, k.kind = "poll", tasks' = tasks \ {k},
         tab' = tab \/ tab' = [tab EXCEPT !.phase = "error"],
         address' = address, sessions' = sessions, marks' = marks
  PROVE  Alone'
  <1>1. /\ DOMAIN tab' = TabFields /\ tab'.session = tab.session /\ tab'.bank = tab.bank
        /\ tab'.view = tab.view
    BY DEF Alone, TabFields
  <1>2. \A j \in tasks' : ~Waiting(j)
    BY DEF Alone, Waiting
  <1>3. \A j \in tasks' : ~Waiting(j) /\ (j.kind = "run" => j.pc \in Recording)
    BY <1>2, Idle
  <1>4. Shows(tab)'
    BY <1>1 DEF Alone, Shows, ProvedHere
  <1> QED BY <1>1, <1>3, <1>4, AloneRests DEF Alone

LEMMA PollTurns ==
  ASSUME TasksInv, Alone, NEW k \in tasks, k.kind = "poll", NEW p,
         Account!Advance(k, [k EXCEPT !.pc = p]), tab' = tab,
         address' = address, sessions' = sessions, marks' = marks
  PROVE  Alone'
  <1>1. PICK n : n = [k EXCEPT !.pc = p]
    OBVIOUS
  <1>2. n.kind = "poll" /\ n.session = k.session
    BY <1>1 DEF TasksInv, TaskOK, PollFields
  <1>3. tasks' \subseteq (tasks \ {k}) \cup {n}
    BY <1>1 DEF Account!Advance
  <1>4. Fits(n, tab) /\ Waiting(k)
    BY <1>2 DEF Alone, Fits, Waiting
  <1> QED BY <1>3, <1>4, SameSessions, AloneGoesOn DEF Alone

LEMMA PollAlone ==
  ASSUME TasksInv, Alone, NEW k \in tasks, Account!PollHead(k) \/ Account!PollAnswer(k)
  PROVE  Alone'
  <1>1. k.kind = "poll" /\ address' = address /\ sessions' = sessions /\ marks' = marks
    BY DEF Account!PollHead, Account!PollAnswer, Account!Store
  <1>2. CASE Account!PollHead(k)
    BY <1>1, <1>2, PollEnds, PollTurns DEF Account!PollHead
  <1>3. CASE Account!PollAnswer(k) /\ ~Account!Verified(k.session)
    BY <1>1, <1>3, PollEnds, PollTurns DEF Account!PollAnswer
  <1>4. CASE Account!PollAnswer(k) /\ Account!Verified(k.session)
    <2>1. PICK u : u = [tab EXCEPT !.view = "calculating"]
      OBVIOUS
    <2>2. CASE Account!Render(u, address, tasks \ {k}, TRUE)
      <3>1. /\ DOMAIN u = TabFields /\ u.view = "calculating" /\ u.session = tab.session
            /\ u.bank = tab.bank /\ u.phase = tab.phase
        BY <2>1 DEF Alone, TabFields
      <3>2. Busy(tab) /\ tab.session = k.session /\ tab.bank /\ address \in Wallets
        BY <1>1 DEF Alone, Fits, Waiting
      <3>3. Account!Mounted(u, address)
        BY <3>1, <3>2, LoansAssumption DEF Busy, Account!Mounted
      <3>4. tab' = u /\ tasks' = (tasks \ {k}) \cup {Account!Run(u, address)}
        BY <2>2, <3>3 DEF Account!Render
      <3>5. \A j \in tasks \ {k} : ~Waiting(j)
        BY <1>1 DEF Alone, Waiting
      <3>6. \A j \in tasks \ {k} : ~Waiting(j) /\ (j.kind = "run" => j.pc \in Recording)
        BY <3>5, Idle
      <3>7. ProvedHere(k.session)
        BY <1>4 DEF Account!Verified, ProvedHere, Alone, SessionOK
      <3>8. Shows(tab)'
        BY <1>1, <3>1, <3>2, <3>4, <3>7 DEF Shows, ProvedHere
      <3> QED BY <1>1, <3>1, <3>2, <3>3, <3>4, <3>6, <3>8, AloneBegins DEF Alone
    <2> QED BY <1>1, <1>4, <2>1, <2>2, PollEnds DEF Account!PollAnswer
  <1> QED BY <1>2, <1>3, <1>4

LEMMA BeginAlone ==
  ASSUME TasksInv, Alone, NEW b \in BOOLEAN, Account!beginCalculation(b)
  PROVE  Alone'
  <1>1. PICK u : u = [tab EXCEPT !.aborted = FALSE, !.bank = b, !.session = 0, !.view = "calculating"]
    OBVIOUS
  <1>2. /\ ~Busy(tab) /\ Account!Render(u, address, tasks, TRUE)
        /\ address' = address /\ sessions' = sessions /\ address \in Wallets
    BY <1>1 DEF Account!beginCalculation, Account!Store, Alone, Busy
  <1>3. DOMAIN u = TabFields /\ u.session = 0
    BY <1>1 DEF Alone, TabFields
  <1>4. \A j \in tasks : ~Waiting(j) /\ (j.kind = "run" => j.pc \in Recording)
    BY <1>2, Idle DEF Alone
  <1>5. /\ tab' = u
        /\ \/ tasks' = tasks
           \/ Account!Mounted(u, address) /\ tasks' = tasks \cup {Account!Run(u, address)}
    BY <1>2, ViewRendered
  <1>6. Shows(tab)'
    BY <1>3, <1>5 DEF Shows
  <1>7. CASE tasks' = tasks
    BY <1>2, <1>3, <1>4, <1>5, <1>6, <1>7, AloneRests DEF Alone
  <1>8. CASE Account!Mounted(u, address) /\ tasks' = tasks \cup {Account!Run(u, address)}
    BY <1>2, <1>3, <1>4, <1>5, <1>6, <1>8, AloneBegins DEF Alone
  <1> QED BY <1>5, <1>7, <1>8

\* The clicks that leave an error, a result or the dashboard, and a reload.
LEMMA LeaveAlone ==
  ASSUME TasksInv, Alone,
         Account!goToDashboard \/ Account!retryAfterError \/ Account!Navigate \/ Account!Reload
  PROVE  Alone'
  <1>1. address' = address /\ sessions' = sessions
    BY DEF Account!goToDashboard, Account!retryAfterError, Account!Navigate, Account!Reload, Account!Store
  <1>2. DOMAIN tab' = TabFields /\ tab'.view # "calculating"
    <2>1. DOMAIN tab = TabFields
      BY DEF Alone
    <2>2. CASE Account!goToDashboard
      BY <2>1, <2>2 DEF Account!goToDashboard, TabFields
    <2>3. CASE Account!retryAfterError
      BY <2>1, <2>3 DEF Account!retryAfterError, TabFields
    <2>4. CASE Account!Navigate
      BY <2>1, <2>4 DEF Account!Navigate, TabFields
    <2>5. CASE Account!Reload
      BY <2>5 DEF Account!Reload, Account!FreshTab, TabFields
    <2> QED BY <2>2, <2>3, <2>4, <2>5
  <1>3. Shows(tab)'
    BY <1>2 DEF Shows
  <1>4. \A j \in tasks' : ~Waiting(j) /\ (j.kind = "run" => j.pc \in Recording)
    <2>1. CASE Account!Reload
      <3>1. ASSUME NEW j \in tasks', j.kind \in {"run", "poll"}
            PROVE  \E r \in tasks : /\ r.kind = "run" /\ r.pc \in {"scored", "inserted", "upserted", "minted"}
                                    /\ j = [r EXCEPT !.here = FALSE]
        BY <2>1, <3>1 DEF Account!Reload, Account!Of, Account!Load
      <3>2. ASSUME NEW r \in tasks, r.kind = "run"
            PROVE  /\ [r EXCEPT !.here = FALSE].kind = "run" /\ [r EXCEPT !.here = FALSE].here = FALSE
                   /\ [r EXCEPT !.here = FALSE].pc = r.pc
        <4>1. TaskOK(r)
          BY DEF TasksInv
        <4> QED BY <3>2, <4>1 DEF TaskOK, RunFields
      <3>3. ASSUME NEW j \in tasks', j.kind \in {"run", "poll"}
            PROVE  j.kind = "run" /\ j.here = FALSE /\ j.pc \in Recording
        <4>1. PICK r \in tasks : /\ r.kind = "run" /\ r.pc \in {"scored", "inserted", "upserted", "minted"}
                                 /\ j = [r EXCEPT !.here = FALSE]
          BY <3>1, <3>3
        <4> QED BY <3>2, <4>1 DEF Recording
      <3> QED BY <3>3 DEF Waiting
    <2>2. CASE Account!goToDashboard \/ Account!retryAfterError \/ Account!Navigate
      <3>1. tasks' = tasks /\ ~Busy(tab)
        BY <2>2 DEF Account!goToDashboard, Account!retryAfterError, Account!Navigate, Busy
      <3> QED BY <3>1, Idle DEF Alone
    <2> QED BY <2>1, <2>2
  <1> QED BY <1>1, <1>2, <1>3, <1>4, AloneRests DEF Alone

LEMMA ProofAlone ==
  ASSUME Alone, NEW s \in sessions, Account!BankProof(s)
  PROVE  Alone'
  <1>1. PICK n : n = [s EXCEPT !.verified = TRUE]
    OBVIOUS
  <1>2. /\ ~s.verified /\ sessions' = (sessions \ {s}) \cup {n}
        /\ address' = address /\ tab' = tab /\ tasks' = tasks /\ marks' = marks
    BY <1>1 DEF Account!BankProof
  <1>3. DOMAIN n = {"id", "wallet", "verified"} /\ n.wallet = address
    BY <1>1 DEF Alone, SessionOK
  <1>4. SessionsKept
    BY <1>2, <1>3 DEF SessionsKept, Alone, SessionOK, ProvedHere
  <1>5. PICK new : new = [kind |-> "none"]
    OBVIOUS
  <1>6. ~Waiting(new) /\ Fits(new, tab) /\ tasks' \subseteq (tasks \ {new}) \cup {new}
    BY <1>2, <1>5 DEF Waiting, Fits
  <1> QED BY <1>2, <1>4, <1>6, AloneGoesOn DEF Alone

\* What is added, goes on or ends without the tab.
LEMMA OthersAlone ==
  ASSUME TasksInv, Alone,
         \/ \E w \in Wallets : \/ Account!ChainMoves(w) \/ Account!ResetCache(w)
                               \/ Account!WipeWallet(w) \/ Account!MintCached(w)
         \/ \E k \in Account!Of("reset") : Account!deleteRows(k) \/ Account!resetReclaim(k)
  PROVE  Alone'
  <1>1. address' = address /\ tab' = tab /\ marks \subseteq marks'
    BY DEF Account!ChainMoves, Account!ResetCache, Account!WipeWallet, Account!MintCached,
           Account!deleteRows, Account!resetReclaim, Account!Store
  <1>2. SessionsKept
    <2>1. sessions' = sessions \/ (sessions' \subseteq sessions /\ "reset" \in marks')
      BY DEF Account!ChainMoves, Account!ResetCache, Account!WipeWallet, Account!MintCached,
             Account!deleteRows, Account!resetReclaim, Account!Store
    <2> QED BY SMTT(60), <1>1, <2>1 DEF SessionsKept, Alone, SessionOK, ProvedHere
  <1>3. ASSUME NEW k, NEW new, tasks' \subseteq (tasks \ {k}) \cup {new}, ~Waiting(new), Fits(new, tab)
        PROVE  Alone'
    BY <1>1, <1>2, <1>3, AloneGoesOn DEF Alone
  <1>4. ASSUME NEW new, tasks' \subseteq tasks \cup {new}, ~Waiting(new), Fits(new, tab)
        PROVE  Alone'
    <2>1. tasks' \subseteq (tasks \ {new}) \cup {new}
      BY <1>4
    <2> QED BY <1>3, <1>4, <2>1
  <1>5. ASSUME NEW new, new.kind = "reset" PROVE ~Waiting(new) /\ Fits(new, tab)
    BY <1>5 DEF Waiting, Fits
  <1>6. ASSUME NEW w \in Wallets, Account!ChainMoves(w) PROVE Alone'
    <2>1. PICK new : new = [kind |-> "reset"]
      OBVIOUS
    <2>2. new.kind = "reset" /\ tasks' \subseteq tasks \cup {new}
      BY <1>6, <2>1 DEF Account!ChainMoves
    <2> QED BY <1>4, <1>5, <2>2
  <1>7. ASSUME NEW w \in Wallets, Account!ResetCache(w) PROVE Alone'
    <2>1. PICK new : new = [kind |-> "reset", wallet |-> w, script |-> FALSE,
                            todo |-> <<"account_profiles", "score_runs">>, failed |-> FALSE]
      OBVIOUS
    <2>2. new.kind = "reset" /\ tasks' \subseteq tasks \cup {new}
      BY <1>7, <2>1 DEF Account!ResetCache
    <2> QED BY <1>4, <1>5, <2>2
  <1>8. ASSUME NEW w \in Wallets, Account!WipeWallet(w) PROVE Alone'
    <2>1. PICK d : tasks' = tasks \cup
            {[kind |-> "reset", wallet |-> w, script |-> TRUE, failed |-> FALSE, todo |-> d]}
      BY <1>8 DEF Account!WipeWallet
    <2>2. PICK new : new = [kind |-> "reset", wallet |-> w, script |-> TRUE, failed |-> FALSE, todo |-> d]
      OBVIOUS
    <2>3. new.kind = "reset" /\ tasks' \subseteq tasks \cup {new}
      BY <2>1, <2>2
    <2> QED BY <1>4, <1>5, <2>3
  <1>9. ASSUME NEW w \in Wallets, Account!MintCached(w) PROVE Alone'
    <2>1. PICK new : new = [kind |-> "run", wallet |-> w, bank |-> FALSE, session |-> 0,
                            pc |-> "upserted", score |-> cached[w], here |-> FALSE]
      OBVIOUS
    <2>2. new.kind = "run" /\ new.here = FALSE /\ new.pc = "upserted" /\ tasks' \subseteq tasks \cup {new}
      BY <1>9, <2>1 DEF Account!MintCached
    <2>3. ~Waiting(new) /\ Fits(new, tab)
      BY <2>2 DEF Waiting, Fits, Recording
    <2> QED BY <1>4, <2>2, <2>3
  <1>10. ASSUME NEW k \in tasks, k.kind = "reset", Account!deleteRows(k) \/ Account!resetReclaim(k)
         PROVE  Alone'
    <2>1. \/ tasks' = tasks \ {k}
          \/ \E d, e : tasks' = (tasks \ {k}) \cup {[k EXCEPT !.todo = d, !.failed = e]}
          \/ \E d : tasks' = (tasks \ {k}) \cup {[k EXCEPT !.todo = d]}
      BY <1>10 DEF Account!deleteRows, Account!resetReclaim, Account!Advance
    <2>2. \A d, e : [k EXCEPT !.todo = d, !.failed = e].kind = "reset" /\ [k EXCEPT !.todo = d].kind = "reset"
      BY <1>10 DEF TasksInv, TaskOK, ResetFields
    <2>3. \E new : new.kind = "reset" /\ tasks' \subseteq (tasks \ {k}) \cup {new}
      BY <1>10, <2>1, <2>2
    <2> QED BY <1>3, <1>5, <2>3
  <1> QED BY <1>6, <1>7, <1>8, <1>9, <1>10 DEF Account!Of

LEMMA RunKept ==
  ASSUME RunInv, Account!ScoreNext
  PROVE  RunInv'
  <1>1. TasksInv /\ TasksInv'
    BY TasksKept DEF RunInv
  <1>2. SUFFICES ASSUME "left" \notin marks' PROVE Alone'
    BY <1>1 DEF RunInv
  <1>3. Alone
    BY <1>2, MarksStay DEF RunInv
  <1>4. /\ \A w \in Wallets \cup {NoWallet} : ~Account!SwitchWallet(w)
        /\ ~Account!cancelScoreFlow
    BY <1>2 DEF Account!SwitchWallet, Account!cancelScoreFlow
  <1> QED BY <1>1, <1>2, <1>3, <1>4, BeginAlone, LeaveAlone, ReadAlone, ShownAlone, FailsAlone,
             ScoringAlone, RecordingAlone, CompleteAlone, ErrorAlone, AwaitingAlone, PollAlone,
             ProofAlone, OthersAlone DEF Account!ScoreNext

LEMMA SameCardinality == \A S : Account!Cardinality(S) = Cardinality(S)
  BY Zenon DEF Account!Cardinality, Cardinality

\* Every run after a bank login scores with a verified session.
RunsProved ==
  \A k \in Account!Of("run") :
    k.session # 0 /\ k.pc = "scoring" => k.bank /\ \E s \in Account!get_session(k) : s.verified

LEMMA RunBegins == Init => RunInv
  <1>1. SUFFICES ASSUME Init PROVE RunInv
    OBVIOUS
  <1>2. Wallets # {} /\ address = (CHOOSE w \in Wallets : TRUE)
    BY <1>1, LoansAssumption DEF Init, Account!ScoreInit
  <1>3. address \in Wallets
    BY <1>2
  <1>4. PICK l : l = Account!Load(address, "open") /\ l.kind = "load"
    BY <1>3, LoadOK
  <1>5. tasks = {l} /\ sessions = {} /\ tab = Account!FreshTab
    BY <1>1, <1>4 DEF Init, Account!ScoreInit
  <1>6. DOMAIN tab = TabFields /\ tab.view = "dashboard"
    BY <1>5 DEF Account!FreshTab, TabFields
  <1>7. Alone
    BY <1>3, <1>4, <1>5, <1>6 DEF Alone, Fits, Shows, Waiting
  <1> QED BY <1>1, <1>7, HealBegins DEF RunInv, HealInv

\* The tab never waits for two runs or polls at once, and a run after a bank
\* login carries a verified session of its wallet, unless the user left, a
\* load interrupted the flow, or sessions were reset (YourAccountTab,
\* ScoringLiveView, scoring_api.py).
THEOREM RunsStayAlone == Spec => []OneRunUncancelled
  <1>1. RunInv /\ [Next]_clientVars => RunInv'
    <2>1. SUFFICES ASSUME RunInv, [Next]_clientVars PROVE RunInv'
      OBVIOUS
    <2>2. CASE UNCHANGED scoreVars
      BY <2>1, <2>2 DEF scoreVars, RunInv, TasksInv, TaskOK, Alone, Fits, Shows, Busy, Waiting,
             ProvedHere, SessionOK
    <2>3. (InAccount /\ Account!ScoreNext) \/ UNCHANGED scoreVars
      BY <2>1 DEF Next, InLoans, InPrep, InShell, InDefault, InAgents, clientVars
    <2> QED BY <2>1, <2>2, <2>3, RunKept
  <1>2. RunInv => OneRunUncancelled
    <2>1. SUFFICES ASSUME RunInv, "left" \notin marks
                   PROVE  /\ Cardinality(Account!Live) <= 1
                          /\ "reset" \notin marks => RunsProved
      <3>1. ("left" \notin marks =>
              /\ Cardinality(Account!Live) <= 1
              /\ "reset" \notin marks => RunsProved) => Account!OneRunUncancelled
        BY SameCardinality, Zenon DEF Account!OneRunUncancelled, RunsProved
      <3> QED BY <3>1, Zenon DEF OneRunUncancelled
    <2>2. Alone
      BY <2>1 DEF RunInv
    <2>3. Cardinality(Account!Live) <= 1
      <3>1. \A a, b \in Account!Live : a = b
        BY <2>2 DEF Account!Live, Alone, Waiting
      <3>2. CASE Account!Live = {}
        BY <3>2, FS_EmptySet
      <3>3. CASE Account!Live # {}
        <4>1. PICK a : Account!Live = {a}
          BY <3>1, <3>3
        <4>2. Cardinality({a}) = 1
          BY FS_Singleton
        <4> QED BY <4>1, <4>2
      <3> QED BY <3>2, <3>3
    <2>4. ASSUME "reset" \notin marks, NEW k \in Account!Of("run"), k.session # 0, k.pc = "scoring"
          PROVE  k.bank /\ \E s \in Account!get_session(k) : s.verified
      <3>1. k \in tasks /\ k.kind = "run"
        BY DEF Account!Of
      <3>2. /\ k.here /\ k.wallet = address /\ k.bank = tab.bank
            /\ k.session = tab.session /\ tab.view = "calculating"
        BY <2>2, <2>4, <3>1 DEF Alone, Fits, Recording
      <3> QED BY <2>2, <2>4, <3>2 DEF Alone, Shows, ProvedHere, Account!get_session
    <2> QED BY <2>3, <2>4 DEF RunsProved
  <1> QED BY <1>1, <1>2, RunBegins, PTL DEF Spec
=============================================================================
