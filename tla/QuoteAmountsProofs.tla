------------------------- MODULE QuoteAmountsProofs -------------------------
(* What QuoteAmounts promises, for every quote, rate and denominator.       *)
EXTENDS QuoteAmounts, ArithmeticLemmas

\* A number below the word size survives the wrap.
LEMMA NoWrap ==
  ASSUME NEW a \in Nat, a < WordSize
  PROVE  a % WordSize = a
  <1>1. WordSize \in Nat /\ WordSize > 0
    BY AmountsAssumption
  <1> QED
    BY <1>1, Z3

\* What a quote that fits a factor leaves room for.
LEMMA Room ==
  ASSUME NEW q \in Quotes, NEW factor \in Nat, Fits(q, factor),
         NEW a \in Nat, a <= q.sell + q.buy + q.fee + 1,
         NEW b \in Nat, b <= factor
  PROVE  a * b \in Nat /\ a * b < WordSize
  <1> DEFINE total == q.sell + q.buy + q.fee + 1
  <1>1. total \in Nat
    BY DEF Quotes
  <1>2. total * factor < WordSize
    BY DEF Fits
  <1>3. a <= total
    OBVIOUS
  <1> HIDE DEF total
  <1>4. a * b \in Nat /\ total * b \in Nat /\ a * b <= total * b
    BY <1>1, <1>3, ProductMonotone
  <1>5. b * total \in Nat /\ factor * total \in Nat /\ b * total <= factor * total
    BY <1>1, ProductMonotone
  <1>6. b * total = total * b /\ factor * total = total * factor
    BY <1>1, Z3
  <1>7. WordSize \in Nat
    BY AmountsAssumption
  <1> QED
    BY <1>2, <1>4, <1>5, <1>6, <1>7

\* Undoing a fee that was deducted: fee f on X at rate P / (D - P) is the fee at
\* rate P / D on X + f.
LEMMA DeductedFee ==
  ASSUME NEW X \in Nat, NEW D \in Nat, NEW P \in Nat, P < D,
         NEW f \in Nat, f = (X * P) \div (D - P)
  PROVE  ((X + f) * P) \div D = f
  <1>1. X * P \in Nat /\ f * P \in Nat /\ D - P \in Nat \ {0} /\ D \in Nat \ {0}
    <2>1. X * P \in Nat
      BY Z3
    <2>2. f * P \in Nat
      BY Z3
    <2> QED
      BY <2>1, <2>2
  <1>2. f * (D - P) <= X * P /\ X * P < f * (D - P) + (D - P)
    BY <1>1, Division
  <1>3. f * (D - P) = f * D - f * P
    BY Z3
  <1>4. (X + f) * P = X * P + f * P
    BY Z3
  <1>5. f * D \in Nat
    BY Z3
  <1>6. f * D <= (X + f) * P /\ (X + f) * P < f * D + D
    BY <1>1, <1>2, <1>3, <1>4, <1>5
  <1>7. (X + f) * P \in Nat
    BY <1>1, <1>4
  <1> QED
    BY <1>1, <1>6, <1>7, QuotientUnique

\* Undoing a fee that was added: here rounding can cost one atom.
LEMMA AddedFee ==
  ASSUME NEW T \in Nat, NEW D \in Nat, NEW P \in Nat, P < D,
         NEW f \in Nat, f = (T * P) \div (D + P)
  PROVE  /\ f <= T
         /\ ((T - f) * P) \div D \in {f, f + 1}
  <1>1. T * P \in Nat /\ D + P \in Nat \ {0} /\ D \in Nat \ {0}
    <2>1. T * P \in Nat
      BY Z3
    <2> QED
      BY <2>1
  <1>2. f * (D + P) <= T * P /\ T * P < f * (D + P) + (D + P)
    BY <1>1, Division
  <1>3. f * (D + P) = f * D + f * P /\ T * (D + P) = T * D + T * P
    BY Z3
  <1>4. f * D \in Nat /\ f * P \in Nat /\ T * D \in Nat
    BY Z3
  <1>5. f <= T
    <2> SUFFICES ASSUME T + 1 <= f PROVE FALSE
      OBVIOUS
    <2>1. (T + 1) * (D + P) <= f * (D + P)
      BY <1>1, ProductMonotone
    <2>2. (T + 1) * (D + P) = T * (D + P) + (D + P)
      BY Z3
    <2> QED
      BY <1>1, <1>2, <1>3, <1>4, <2>1, <2>2
  <1>6. (T - f) * P = T * P - f * P
    BY Z3
  <1>7. (T - f) * P \in Nat
    BY <1>5, Z3
  <1>8. f * D <= (T - f) * P /\ (T - f) * P < f * D + D + D
    BY <1>1, <1>2, <1>3, <1>4, <1>6
  <1>9. (f + 1) * D = f * D + D
    BY Z3
  <1>10. CASE (T - f) * P < f * D + D
    <2>1. ((T - f) * P) \div D = f
      BY <1>1, <1>7, <1>8, <1>10, QuotientUnique
    <2> QED
      BY <1>5, <2>1
  <1>11. CASE f * D + D <= (T - f) * P
    <2>1. (f + 1) * D <= (T - f) * P /\ (T - f) * P < (f + 1) * D + D
      BY <1>4, <1>7, <1>8, <1>9, <1>11
    <2> DEFINE up == f + 1
    <2>2. up \in Nat /\ up * D <= (T - f) * P /\ (T - f) * P < up * D + D
      BY <2>1
    <2> HIDE DEF up
    <2>3. ((T - f) * P) \div D = up
      BY <1>1, <1>7, <2>2, QuotientUnique
    <2> QED
      BY <1>5, <2>3 DEF up
  <1> QED
    BY <1>4, <1>7, <1>10, <1>11

\* get_protocol_fee_amount finds the fee that the server charged: for every quote,
\* protocol fee rate below 100 % and denominators, as long as the amounts fit.
THEOREM ProtocolFeeIsFound ==
  ASSUME NEW q \in Quotes, NEW rate \in Nat, rate < FullRate,
         Fits(q, FullRate + rate)
  PROVE  FeeRecovered(q, rate)
<1> DEFINE D == FullRate
           X == IF q.isSell THEN q.buy ELSE q.sell + q.fee
           f == ProtocolFee(q, rate)
           spot == IF q.isSell THEN q.buy + f ELSE q.sell + q.fee - f
<1>1. D \in Nat /\ D > 0 /\ D = OneHundredBps * Scale /\ rate < D
  BY AmountsAssumption, Z3 DEF FullRate
<1>2. q.sell \in Nat /\ q.buy \in Nat /\ q.fee \in Nat /\ q.isSell \in BOOLEAN
  BY DEF Quotes
<1>3. /\ X \in Nat /\ X <= q.sell + q.buy + q.fee + 1
      /\ 1 <= q.sell + q.buy + q.fee + 1
  BY <1>2
<1>4. Fits(q, D + rate)
  OBVIOUS
<1>5. SUFFICES (spot * rate) \div D = f \/ (~ q.isSell /\ (spot * rate) \div D = f + 1)
  BY DEF FeeRecovered
<1>6. WordSize \in Nat
  BY AmountsAssumption
<1> HIDE DEF D, X
<1>7. D + rate \in Nat /\ rate <= D + rate /\ 1 <= D + rate /\ D - rate \in Nat \ {0}
  BY <1>1
<1>8. X * rate \in Nat /\ X * rate < WordSize
  BY <1>3, <1>4, <1>7, Room
<1>9. D + rate < WordSize
  <2>1. 1 * (D + rate) < WordSize
    BY <1>3, <1>4, <1>7, Room
  <2> QED
    BY <1>7, <2>1
<1>10. X < WordSize
  <2>1. X * 1 < WordSize
    BY <1>3, <1>4, <1>7, Room
  <2> QED
    BY <1>3, <2>1
<1>11. Times(OneHundredBps, Scale) = D
  <2>1. D < WordSize
    BY <1>1, <1>6, <1>9
  <2> QED
    BY <1>1, <2>1, NoWrap DEF Times
<1>12. Times(X, rate) = X * rate
  BY <1>8, NoWrap DEF Times
<1>13. CASE rate = 0
  <2>1. f = 0
    BY <1>13 DEF ProtocolFee
  <2>2. spot \in Int
    BY <1>2, <2>1
  <2> HIDE DEF spot, f
  <2>3. spot * rate = 0
    BY <1>13, <2>2
  <2> QED
    BY <1>1, <2>1, <2>3
<1>14. CASE rate # 0 /\ q.isSell
  <2>1. D - rate < WordSize
    BY <1>1, <1>6, <1>9
  <2>2. ProtocolFeeDenominator(q.isSell, rate) = D - rate
    BY <1>7, <1>11, <1>14, <2>1, NoWrap DEF ProtocolFeeDenominator, Minus
  <2>3. X = q.buy /\ spot = X + f
    BY <1>14 DEF X
  <2>4. f = (X * rate) \div (D - rate)
    BY <1>12, <1>14, <2>2, <2>3 DEF ProtocolFee
  <2> HIDE DEF f, spot
  <2>5. f \in Nat
    BY <1>7, <1>8, <2>4, Division
  <2>6. ((X + f) * rate) \div D = f
    <3>1. X \in Nat /\ D \in Nat /\ rate < D
      BY <1>1, <1>3
    <3> QED
      BY <2>4, <2>5, <3>1, DeductedFee, SMTT(30)
  <2> QED
    BY <2>3, <2>6
<1>15. CASE rate # 0 /\ ~ q.isSell
  <2>1. X = q.sell + q.fee
    BY <1>15 DEF X
  <2>2. Plus(q.sell, q.fee) = X
    BY <1>3, <1>10, <2>1, NoWrap DEF Plus
  <2>3. ProtocolFeeDenominator(q.isSell, rate) = D + rate
    BY <1>7, <1>9, <1>11, <1>15, NoWrap DEF ProtocolFeeDenominator, Plus
  <2>4. f = (X * rate) \div (D + rate)
    BY <1>12, <1>15, <2>2, <2>3 DEF ProtocolFee
  <2> HIDE DEF f, spot
  <2>5. f \in Nat
    <3>1. D + rate \in Nat \ {0}
      BY <1>7
    <3> QED
      BY <1>8, <2>4, <3>1, Division
  <2>6. ((X - f) * rate) \div D \in {f, f + 1}
    BY <1>1, <1>3, <2>4, <2>5, AddedFee
  <2>7. spot = q.sell + q.fee - f
    BY <1>15 DEF spot
  <2>8. q.sell + q.fee - f = X - f
    BY <1>2, <2>1, <2>5
  <2> QED
    BY <1>15, <2>6, <2>7, <2>8
<1> QED
  BY <1>2, <1>13, <1>14, <1>15
-----------------------------------------------------------------------------
\* The wrapping operators make natural numbers.
LEMMA WrapNat ==
  ASSUME NEW a \in Int
  PROVE  a % WordSize \in Nat
  BY AmountsAssumption, Z3

\* The network cost in the other currency is a natural number, whatever wraps.
LEMMA NetworkCostNat ==
  ASSUME NEW q \in Quotes
  PROVE  NetworkCostInBuy(q) \in Nat
<1>1. q.buy * q.fee \in Nat /\ q.sell \in Nat
  BY Commutes DEF Quotes
<1>2. Times(q.buy, q.fee) \in Nat
  BY <1>1, WrapNat DEF Times
<1>3. CASE q.sell # 0
  <2>1. Times(q.buy, q.fee) \div q.sell \in Nat
    BY <1>1, <1>2, <1>3, Division
  <2> QED
    BY <1>3, <2>1 DEF NetworkCostInBuy
<1> QED
  BY <1>3 DEF NetworkCostInBuy

\* A share in basis points is a natural number whatever wraps, no more than the amount
\* up to 100 %, and exact when nothing wraps.
LEMMA BpsOfBound ==
  ASSUME NEW x \in Nat, NEW s \in Nat
  PROVE  /\ BpsOf(x, s) \in Nat
         /\ s <= OneHundredBps => BpsOf(x, s) <= x
         /\ x * s < WordSize => BpsOf(x, s) = (x * s) \div OneHundredBps
         /\ BpsOf(x, 0) = 0
<1>1. OneHundredBps \in Nat \ {0} /\ WordSize \in Nat \ {0}
  BY AmountsAssumption
<1>2. x * s \in Nat
  BY Commutes
<1> DEFINE p == x * s
           w == p % WordSize
<1>3. w \in Nat /\ w <= p
  BY <1>1, <1>2, Z3
<1>4. p < WordSize => w = p
  BY <1>1, <1>2, NoWrap
<1>5. BpsOf(x, s) = w \div OneHundredBps
  BY DEF BpsOf, Times
<1> HIDE DEF w
<1>6. w \div OneHundredBps \in Nat
  BY <1>1, <1>3, Division
<1>7. s <= OneHundredBps => w \div OneHundredBps <= x
  <2> SUFFICES ASSUME s <= OneHundredBps PROVE w \div OneHundredBps <= x
    OBVIOUS
  <2>1. p \div OneHundredBps \in Nat /\ p \div OneHundredBps <= x
    BY <1>1, ShareBound
  <2>2. w \div OneHundredBps <= p \div OneHundredBps
    BY <1>1, <1>2, <1>3, QuotientMonotone
  <2> QED
    BY <1>6, <2>1, <2>2
<1>8. BpsOf(x, 0) = 0
  <2>1. x * 0 = 0 /\ 0 % WordSize = 0 /\ 0 \div OneHundredBps = 0
    BY <1>1, Z3
  <2> QED
    BY <2>1 DEF BpsOf, Times
<1> QED
  BY <1>4, <1>5, <1>6, <1>7, <1>8

\* The swap path and the full computation sign the same trade when there is nothing but
\* network cost and slippage, but for an atom of a sell order's limit and the slippage on
\* the network cost of a buy order (compute_quote_amounts_and_costs against
\* get_quote_amounts_and_costs), for every quote that fits the word.
THEOREM PathsAlwaysAgree ==
  ASSUME NEW q \in Quotes, NEW slippage \in 0..OneHundredBps,
         Fits(q, OneHundredBps + slippage + 1)
  PROVE  PathsAgree(q, slippage)
<1> DEFINE D == OneHundredBps
           s == slippage
           total == q.sell + q.fee
<1>1. /\ D \in Nat \ {0} /\ s \in Nat /\ s <= D /\ WordSize \in Nat
      /\ D + s + 1 \in Nat /\ D - s \in Nat /\ D - s <= D + s + 1 /\ D + s <= D + s + 1
      /\ s <= D + s + 1 /\ s + 1 <= D + s + 1 /\ 1 <= D + s + 1
      /\ D + s \in Nat /\ s + 1 \in Nat
  BY AmountsAssumption
<1>2. /\ q.sell \in Nat /\ q.buy \in Nat /\ q.fee \in Nat /\ q.isSell \in BOOLEAN
      /\ total \in Nat
      /\ q.buy <= q.sell + q.buy + q.fee + 1 /\ q.sell <= q.sell + q.buy + q.fee + 1
      /\ q.fee <= q.sell + q.buy + q.fee + 1 /\ total <= q.sell + q.buy + q.fee + 1
  BY DEF Quotes
<1>3. Fits(q, D + s + 1)
  OBVIOUS
<1>4. \A x \in Nat : x <= q.sell + q.buy + q.fee + 1 =>
        /\ x < WordSize /\ x * s < WordSize /\ x * (D + s) < WordSize /\ x * (D - s) < WordSize
        /\ x + BpsOf(x, s) < WordSize
  <2> SUFFICES ASSUME NEW x \in Nat, x <= q.sell + q.buy + q.fee + 1
               PROVE  /\ x < WordSize /\ x * s < WordSize /\ x * (D + s) < WordSize
                      /\ x * (D - s) < WordSize /\ x + BpsOf(x, s) < WordSize
    OBVIOUS
  <2> HIDE DEF D, s
  <2>1. x * 1 < WordSize /\ x * s < WordSize /\ x * (D + s) < WordSize /\ x * (D - s) < WordSize
    BY <1>1, <1>3, Room
  <2>2. x * (s + 1) < WordSize
    BY <1>1, <1>3, Room
  <2>3. x * (s + 1) = x * s + x
    BY <1>1, Z3
  <2>4. BpsOf(x, s) = (x * s) \div D /\ BpsOf(x, s) \in Nat /\ x * s \in Nat
    BY <1>1, <2>1, BpsOfBound, Commutes DEF D
  <2>5. (x * s) \div D <= x * s
    BY <1>1, <2>4, ShareBelow
  <2> QED
    BY <1>1, <2>1, <2>2, <2>3, <2>4, <2>5
<1>5. /\ Plus(q.sell, q.fee) = total /\ Minus(q.buy, 0) = q.buy /\ Plus(total, 0) = total
      /\ Minus(q.sell, 0) = q.sell
  BY <1>2, <1>4, NoWrap DEF Plus, Minus
<1>6. ProtocolFee(q, 0) = 0
  BY DEF ProtocolFee
<1>7. CASE q.isSell
  <2>1. PartnerFee(q, 0, 0) = 0
    <3>1. BeforeAllFees(q, 0).buy \in Nat
      <4>1. NetworkCostInBuy(q) \in Nat
        BY NetworkCostNat
      <4> QED
        BY <1>2, <1>6, <1>7, <4>1, WrapNat DEF BeforeAllFees, Amounts, Plus
    <3> QED
      BY <1>7, <3>1, BpsOfBound DEF PartnerFee
  <2>2. AfterPartnerFees(q, 0, 0) = Amounts(q.sell, q.buy)
    BY <1>5, <1>7, <2>1 DEF AfterPartnerFees, AfterNetworkCosts, Amounts
  <2>3. SignedByStages(q, 0, 0, s) = Amounts(total, Minus(q.buy, BpsOf(q.buy, s)))
    BY <1>5, <1>7, <2>2 DEF SignedByStages, AfterSlippage, BeforeAllFees, Amounts
  <2>4. SignedBySwap(q, s) = Amounts(q.sell, SlippageSell(q.buy, s))
    BY <1>7 DEF SignedBySwap
  <2>5. BpsOf(q.buy, s) = (q.buy * s) \div D /\ BpsOf(q.buy, s) \in Nat /\ BpsOf(q.buy, s) <= q.buy
    BY <1>1, <1>2, <1>4, BpsOfBound
  <2>6. Minus(q.buy, BpsOf(q.buy, s)) = q.buy - BpsOf(q.buy, s)
    <3> DEFINE d == q.buy - BpsOf(q.buy, s)
    <3>1. d \in Nat /\ d < WordSize
      BY <1>1, <1>2, <1>4, <2>5
    <3> QED
      BY <3>1, NoWrap DEF Minus
  <2>7. SlippageSell(q.buy, s) = (q.buy * (D - s)) \div D
    <3>1. q.buy * (D - s) \in Nat /\ q.buy * (D - s) < WordSize
      BY <1>1, <1>2, <1>4, Commutes
    <3> QED
      BY <3>1, NoWrap DEF SlippageSell, Times
  <2>8. q.buy - (q.buy * s) \div D - (q.buy * (D - s)) \div D \in {0, 1}
    BY <1>1, <1>2, ShareAndRest
  <2> QED
    BY <1>7, <2>3, <2>4, <2>5, <2>6, <2>7, <2>8 DEF PathsAgree, Amounts
<1>8. CASE ~ q.isSell
  <2>1. BeforeAllFees(q, 0) = Amounts(q.sell, q.buy)
    BY <1>5, <1>6, <1>8 DEF BeforeAllFees
  <2>2. PartnerFee(q, 0, 0) = 0
    <3>1. BpsOf(q.sell, 0) = 0
      BY <1>2, BpsOfBound
    <3> QED
      BY <1>8, <2>1, <3>1 DEF PartnerFee, Amounts
  <2>3. AfterPartnerFees(q, 0, 0) = Amounts(total, q.buy)
    BY <1>5, <1>8, <2>2 DEF AfterPartnerFees, AfterNetworkCosts, Amounts
  <2>4. SignedByStages(q, 0, 0, s) = Amounts(Plus(total, BpsOf(total, s)), q.buy)
    BY <1>8, <2>1, <2>3 DEF SignedByStages, AfterSlippage, Amounts
  <2>5. /\ BpsOf(total, s) = (total * s) \div D /\ BpsOf(total, s) \in Nat
        /\ BpsOf(q.fee, s) = (q.fee * s) \div D /\ BpsOf(q.fee, s) \in Nat
        /\ total + BpsOf(total, s) < WordSize
    BY <1>1, <1>2, <1>4, BpsOfBound
  <2>6. Plus(total, BpsOf(total, s)) = total + BpsOf(total, s)
    BY <1>2, <2>5, NoWrap DEF Plus
  <2>7. SignedBySwap(q, s) = Amounts(q.sell + (q.sell * s) \div D, q.buy)
    <3>1. q.sell * (D + s) \in Nat /\ q.sell * (D + s) < WordSize
      BY <1>1, <1>2, <1>4, Commutes
    <3>2. SlippageBuy(q.sell, s) = (q.sell * (D + s)) \div D
      BY <3>1, NoWrap DEF SlippageBuy, Times
    <3> QED
      BY <1>1, <1>2, <1>8, <3>2, RaisedByShare DEF SignedBySwap
  <2>8. (total * s) \div D - (q.sell * s) \div D - (q.fee * s) \div D \in {0, 1}
    BY <1>1, <1>2, ShareOfSum
  <2>9. (q.sell * s) \div D \in Nat
    BY <1>1, <1>2, ShareBound
  <2> QED
    BY <1>2, <1>8, <2>4, <2>5, <2>6, <2>7, <2>8, <2>9 DEF PathsAgree, Amounts
<1> QED
  BY <1>2, <1>7, <1>8

\* A share in basis points is below the product, whatever wraps.
LEMMA BpsOfBelow ==
  ASSUME NEW x \in Nat, NEW s \in Nat
  PROVE  BpsOf(x, s) \in Nat /\ BpsOf(x, s) <= x * s
<1> DEFINE w == (x * s) % WordSize
<1>1. x * s \in Nat
  BY Commutes
<1>2. w \in Nat /\ w <= x * s
  BY <1>1, AmountsAssumption, Z3
<1>3. BpsOf(x, s) = w \div OneHundredBps
  BY DEF BpsOf, Times
<1> HIDE DEF w
<1>4. OneHundredBps \in Nat \ {0}
  BY AmountsAssumption
<1>5. w \div OneHundredBps \in Nat /\ w \div OneHundredBps <= w
  BY <1>2, <1>4, ShareBelow, Division
<1> QED
  BY <1>1, <1>2, <1>3, <1>5

\* However the products wrap, the slipped amount of the swap path is no more than
\* what the stages leave.
LEMMA SlippedBelow ==
  ASSUME NEW x \in Nat, NEW s \in 0..OneHundredBps
  PROVE  /\ SlippageSell(x, s) \in Nat
         /\ SlippageSell(x, s) <= x - BpsOf(x, s)
<1> DEFINE D == OneHundredBps
           a == x * s
           b == x * (D - s)
           v == a % WordSize
           w == b % WordSize
<1>1. D \in Nat \ {0} /\ s \in Nat /\ s <= D /\ D - s \in Nat /\ WordSize \in Nat \ {0}
  BY AmountsAssumption
<1>2. a \in Nat /\ b \in Nat
  BY <1>1, Commutes
<1>3. x - a \div D - b \div D \in {0, 1}
  BY <1>1, ShareAndRest
<1>4. SlippageSell(x, s) = w \div D /\ BpsOf(x, s) = v \div D
  BY DEF SlippageSell, BpsOf, Times
<1> HIDE DEF a, b, D
<1>5. v \in Nat /\ v <= a /\ w \in Nat /\ w <= b
  BY <1>1, <1>2, Z3
<1> HIDE DEF v, w
<1>6. /\ v \div D <= a \div D /\ w \div D <= b \div D
      /\ v \div D \in Nat /\ w \div D \in Nat /\ a \div D \in Nat /\ b \div D \in Nat
  BY <1>1, <1>2, <1>5, QuotientMonotone, Division
<1> QED
  BY <1>3, <1>4, <1>6

\* The protocol fee is a number unless its denominator wraps to zero.
LEMMA ProtocolFeeNat ==
  ASSUME NEW q \in Quotes, NEW rate \in Nat,
         rate # 0 => ProtocolFeeDenominator(q.isSell, rate) # 0
  PROVE  ProtocolFee(q, rate) \in Nat
<1> DEFINE charged == IF q.isSell THEN q.buy ELSE Plus(q.sell, q.fee)
           below == ProtocolFeeDenominator(q.isSell, rate)
<1>1. q.sell \in Nat /\ q.buy \in Nat /\ q.fee \in Nat
  BY DEF Quotes
<1>2. Times(OneHundredBps, Scale) \in Nat
  <2>1. OneHundredBps * Scale \in Nat
    BY AmountsAssumption, Commutes
  <2> QED
    BY <2>1, WrapNat DEF Times
<1>3. below \in Nat
  BY <1>2, WrapNat DEF ProtocolFeeDenominator, Plus, Minus
<1>4. charged \in Nat
  BY <1>1, WrapNat DEF Plus
<1> HIDE DEF below, charged
<1>5. Times(charged, rate) \in Nat
  BY <1>4, WrapNat, Commutes DEF Times
<1>6. below # 0 => Times(charged, rate) \div below \in Nat
  BY <1>3, <1>5, Division
<1> QED
  BY <1>6 DEF ProtocolFee, below, charged

\* The amounts of the stages are numbers.
LEMMA StagesTypes ==
  ASSUME NEW q \in Quotes, NEW rate \in Nat, NEW partner \in Nat, NEW slippage \in 0..OneHundredBps,
         rate # 0 => ProtocolFeeDenominator(q.isSell, rate) # 0
  PROVE  /\ SignedByStages(q, rate, partner, slippage).buy \in Nat
         /\ SignedByStages(q, rate, partner, slippage).sell \in Nat
         /\ PartnerFee(q, rate, partner) \in Nat
<1>1. ProtocolFee(q, rate) \in Nat /\ NetworkCostInBuy(q) \in Nat
  BY ProtocolFeeNat, NetworkCostNat
<1>2. q.sell \in Nat /\ q.buy \in Nat /\ q.fee \in Nat /\ q.isSell \in BOOLEAN
  BY DEF Quotes
<1> DEFINE spot == BeforeAllFees(q, rate)
<1>3. spot.sell \in Nat /\ spot.buy \in Nat
  BY <1>1, <1>2, WrapNat DEF BeforeAllFees, Plus, Minus, Amounts
<1> HIDE DEF spot
<1>4. PartnerFee(q, rate, partner) \in Nat
  BY <1>2, <1>3, BpsOfBound DEF PartnerFee, spot
<1> DEFINE a == AfterPartnerFees(q, rate, partner)
<1>5. a.sell \in Nat /\ a.buy \in Nat
  BY <1>2, <1>4, WrapNat DEF AfterPartnerFees, AfterNetworkCosts, Plus, Minus, Amounts
<1> HIDE DEF a
<1> DEFINE last == AfterSlippage(q.isSell, a, slippage)
<1>6. BpsOf(a.buy, slippage) \in Nat /\ BpsOf(a.sell, slippage) \in Nat
  <2>1. slippage \in Nat
    BY AmountsAssumption
  <2> QED
    BY <1>5, <2>1, BpsOfBound
<1>7. last.sell \in Nat /\ last.buy \in Nat
  BY <1>5, <1>6, WrapNat DEF AfterSlippage, Plus, Minus, Amounts
<1> HIDE DEF last
<1> QED
  BY <1>3, <1>4, <1>7 DEF SignedByStages, Amounts, last, a, spot

\* A share rounded down is short of the share by less than the denominator.
LEMMA RoundedDown ==
  ASSUME NEW v \in Nat, NEW n \in Nat, v * n < WordSize
  PROVE  /\ Times(v, n) \div OneHundredBps \in Nat
         /\ v * n - (Times(v, n) \div OneHundredBps) * OneHundredBps \in 0..(OneHundredBps - 1)
<1> DEFINE x == v * n
           k == x \div OneHundredBps
<1>1. x \in Nat /\ OneHundredBps \in Nat \ {0} /\ WordSize \in Nat
  BY AmountsAssumption, Commutes
<1>2. Times(v, n) = x
  BY <1>1, NoWrap DEF Times
<1>3. k \in Nat /\ k * OneHundredBps <= x /\ x < k * OneHundredBps + OneHundredBps
  BY <1>1, Division
<1>4. k * OneHundredBps \in Nat
  BY <1>1, <1>3, Commutes
<1> HIDE DEF k, x
<1>5. x - k * OneHundredBps \in 0..(OneHundredBps - 1)
  BY <1>1, <1>3, <1>4
<1> QED
  BY <1>2, <1>3, <1>5 DEF k, x

\* An amount less its share, and an amount with its share on top, as products.
LEMMA ShareTaken ==
  ASSUME NEW x \in Nat, NEW s \in 0..OneHundredBps, x * s < WordSize
  PROVE  /\ BpsOf(x, s) \in Nat
         /\ (x - BpsOf(x, s)) * OneHundredBps - x * (OneHundredBps - s) \in 0..(OneHundredBps - 1)
         /\ x * (OneHundredBps + s) - (x + BpsOf(x, s)) * OneHundredBps \in 0..(OneHundredBps - 1)
<1> DEFINE D == OneHundredBps
           k == BpsOf(x, s)
<1>1. D \in Nat /\ s \in Nat
  BY AmountsAssumption
<1>2. k \in Nat /\ x * s - k * D \in 0..(D - 1)
  BY <1>1, RoundedDown DEF BpsOf
<1> HIDE DEF k, D
<1>3. (x - k) * D = x * D - k * D /\ (x + k) * D = x * D + k * D
  BY <1>1, <1>2, Z3
<1>4. x * (D - s) = x * D - x * s /\ x * (D + s) = x * D + x * s
  BY <1>1, Z3
<1>5. x * D \in Nat /\ x * s \in Nat /\ k * D \in Nat
  BY <1>1, <1>2, Commutes
<1>6. (x - k) * D - x * (D - s) = x * s - k * D /\ x * (D + s) - (x + k) * D = x * s - k * D
  BY <1>3, <1>4, <1>5
<1> QED
  BY <1>2, <1>6 DEF k, D

\* The limit is the quote with every fee and the slippage on it, to the rounding of an
\* atom, for every quote, rate and denominator, as long as the amounts fit.
THEOREM LimitsAlwaysOrdered ==
  ASSUME NEW q \in Quotes, NEW rate \in Nat, NEW partner \in Nat, NEW slippage \in 0..OneHundredBps,
         ProtocolFeeDenominator(q.isSell, rate) # 0,
         Fits(q, 2 * (partner + 1) * OneHundredBps)
  PROVE  LimitsOrdered(q, rate, partner, slippage)
<1> DEFINE D == OneHundredBps
           s == slippage
           n == partner + 1
           total == q.sell + q.fee
           fee == PartnerFee(q, rate, partner)
<1>1. D \in Nat \ {0} /\ s \in 0..D /\ s \in Nat /\ s <= D /\ n \in Nat /\ 2 * n \in Nat /\ 1 <= 2 * n /\ n * 1 = n
  BY AmountsAssumption
<1>2. /\ q.sell \in Nat /\ q.buy \in Nat /\ q.fee \in Nat /\ q.isSell \in BOOLEAN
      /\ total \in Nat /\ WordSize \in Nat
      /\ q.buy <= q.sell + q.buy + q.fee + 1 /\ total <= q.sell + q.buy + q.fee + 1
  BY AmountsAssumption DEF Quotes
<1>3. 2 * n * D \in Nat /\ n * D \in Nat /\ 1 * D <= n * D /\ 2 * n * D = n * D + n * D /\ n * 1 <= n * D
  <2>1. n * D \in Nat /\ 2 * n * D = n * D + n * D
    BY <1>1, Z3
  <2>2. 1 * D <= n * D
    <3>1. 1 \in Nat /\ 1 <= n
      BY <1>1
    <3> QED
      BY <1>1, <3>1, ProductMonotone
  <2>3. n * 1 <= n * D
    <3>1. 1 \in Nat /\ 1 <= D /\ D \in Nat
      BY <1>1
    <3>2. 1 * n <= D * n
      BY <1>1, <3>1, ProductMonotone
    <3>3. 1 * n = n * 1 /\ D * n = n * D
      BY <1>1, <3>1, Commutes
    <3> QED
      BY <3>2, <3>3
  <2> HIDE DEF n
  <2> QED
    BY <2>1, <2>2, <2>3
<1>4. /\ total < WordSize /\ q.buy < WordSize /\ q.buy * D < WordSize
      /\ total * (n * D) < WordSize /\ total * (n + n) < WordSize
  <2>0. Fits(q, 2 * n * D)
    OBVIOUS
  <2> HIDE DEF n, total
  <2>1. n + n <= 2 * n * D /\ n * D <= 2 * n * D /\ D <= 2 * n * D /\ 1 <= 2 * n * D /\ n + n \in Nat
    BY <1>1, <1>3
  <2>2. total * (n * D) < WordSize /\ total * (n + n) < WordSize /\ q.buy * D < WordSize
    BY <1>1, <1>2, <1>3, <2>0, <2>1, Room
  <2>3. total * 1 < WordSize /\ q.buy * 1 < WordSize
    BY <1>1, <1>2, <1>3, <2>0, <2>1, Room
  <2> QED
    BY <1>2, <2>2, <2>3
<1>5. Plus(q.sell, q.fee) = total
  BY <1>2, <1>4, NoWrap DEF Plus
<1>6. CASE q.isSell
  <2> DEFINE signed == SignedByStages(q, rate, partner, s)
  <2>1. fee \in Nat
    <3>1. BeforeAllFees(q, rate).buy \in Nat
      <4>1. Plus(q.buy, NetworkCostInBuy(q)) \in Nat /\ ProtocolFee(q, rate) \in Nat
        BY <1>2, NetworkCostNat, ProtocolFeeNat, WrapNat DEF Plus
      <4>2. Plus(Plus(q.buy, NetworkCostInBuy(q)), ProtocolFee(q, rate)) \in Nat
        BY <4>1, WrapNat DEF Plus
      <4> QED
        BY <1>6, <4>2 DEF BeforeAllFees, Amounts
    <3> QED
      BY <1>6, <3>1, BpsOfBound DEF PartnerFee
  <2>2. signed.sell = total
    BY <1>5, <1>6 DEF SignedByStages, BeforeAllFees, Amounts
  <2>3. ASSUME fee <= q.buy
        PROVE  signed.buy * D - (q.buy - fee) * (D - s) \in 0..(D - 1)
    <3> DEFINE left == q.buy - fee
    <3>1. left \in Nat /\ left < WordSize /\ left <= q.buy
      BY <1>2, <1>4, <2>1, <2>3
    <3>2. AfterPartnerFees(q, rate, partner) = Amounts(q.sell, left)
      BY <1>6, <3>1, NoWrap DEF AfterPartnerFees, AfterNetworkCosts, Amounts, Minus
    <3>3. signed.buy = Minus(left, BpsOf(left, s))
      BY <1>6, <3>2 DEF SignedByStages, AfterSlippage, Amounts
    <3> HIDE DEF left, signed
    <3>4. left * s < WordSize
      <4>1. left * s <= left * D /\ left * s \in Nat /\ left * D \in Nat
        <5>1. s * left <= D * left
          BY <1>1, <3>1, ProductMonotone
        <5> QED
          BY <1>1, <3>1, <5>1, Commutes
      <4>2. left * D <= q.buy * D /\ q.buy * D \in Nat
        BY <1>1, <1>2, <3>1, ProductMonotone
      <4> QED
        BY <1>2, <1>4, <4>1, <4>2
    <3>5. BpsOf(left, s) \in Nat /\ BpsOf(left, s) <= left
      BY <1>1, <3>1, BpsOfBound
    <3>6. Minus(left, BpsOf(left, s)) = left - BpsOf(left, s)
      <4> DEFINE d == left - BpsOf(left, s)
      <4>1. d \in Nat /\ d < WordSize
        BY <1>2, <3>1, <3>5
      <4> QED
        BY <4>1, NoWrap DEF Minus
    <3>7. signed.buy * D - left * (D - s) \in 0..(D - 1)
      BY <3>1, <3>3, <3>4, <3>6, ShareTaken
    <3> QED
      BY <3>7 DEF left
  <2> QED
    BY <1>6, <2>2, <2>3 DEF LimitsOrdered
<1>7. CASE ~ q.isSell
  <2> DEFINE signed == SignedByStages(q, rate, partner, s)
             protocol == ProtocolFee(q, rate)
  <2>1. signed.buy = q.buy
    BY <1>7 DEF SignedByStages, BeforeAllFees, Amounts
  <2>2. ASSUME protocol <= q.sell
        PROVE  (total + fee) * (D + s) - signed.sell * D \in 0..(D - 1)
    <3> DEFINE spot == q.sell - protocol
               paid == total + fee
    <3>1. protocol \in Nat
      BY <1>7, ProtocolFeeNat
    <3>2. spot \in Nat /\ spot <= total /\ spot < WordSize
      BY <1>2, <1>4, <2>2, <3>1
    <3>3. BeforeAllFees(q, rate) = Amounts(spot, q.buy)
      BY <1>7, <3>2, NoWrap DEF BeforeAllFees, Amounts, Minus
    <3>4. fee = BpsOf(spot, partner)
      BY <1>7, <3>3 DEF PartnerFee, Amounts
    <3> HIDE DEF fee
    <3>5. fee \in Nat /\ fee <= total * partner /\ total * partner \in Nat
      <4>1. fee \in Nat /\ fee <= spot * partner /\ spot * partner \in Nat
        BY <3>2, <3>4, BpsOfBelow, Commutes
      <4>2. spot * partner <= total * partner /\ total * partner \in Nat
        BY <1>2, <3>2, ProductMonotone
      <4> QED
        BY <4>1, <4>2
    <3>6. total * (n + n) = total * n + total * n /\ total * n = total * partner + total /\ total * n \in Nat
      BY <1>2, Z3
    <3>7. paid \in Nat /\ paid <= total * n /\ paid + paid < WordSize
      BY <1>2, <1>4, <3>5, <3>6
    <3>8. AfterPartnerFees(q, rate, partner) = Amounts(paid, q.buy)
      <4>1. Plus(total, PartnerFee(q, rate, partner)) = paid
        BY <1>2, <3>7, NoWrap DEF Plus, fee
      <4> QED
        BY <1>5, <1>7, <4>1 DEF AfterPartnerFees, AfterNetworkCosts, Amounts
    <3>9. signed.sell = Plus(paid, BpsOf(paid, s))
      BY <1>7, <3>8 DEF SignedByStages, AfterSlippage, Amounts
    <3> HIDE DEF paid, signed, n, total
    <3>10. BpsOf(paid, s) \in Nat /\ BpsOf(paid, s) <= paid
      BY <1>1, <3>7, BpsOfBound
    <3>11. Plus(paid, BpsOf(paid, s)) = paid + BpsOf(paid, s)
      BY <1>2, <3>7, <3>10, NoWrap DEF Plus
    <3>12. paid * s < WordSize
      <4>1. paid * s <= paid * D /\ paid * s \in Nat /\ paid * D \in Nat
        <5>1. s * paid <= D * paid
          BY <1>1, <3>7, ProductMonotone
        <5> QED
          BY <1>1, <3>7, <5>1, Commutes
      <4>2. paid * D <= (total * n) * D /\ (total * n) * D \in Nat
        BY <1>1, <3>6, <3>7, ProductMonotone
      <4>3. (total * n) * D = total * (n * D)
        BY <1>1, <1>2, Z3
      <4> QED
        BY <1>2, <1>4, <4>1, <4>2, <4>3
    <3>13. paid * (D + s) - signed.sell * D \in 0..(D - 1)
      BY <3>7, <3>9, <3>11, <3>12, ShareTaken
    <3> QED
      BY <3>13 DEF paid
  <2> QED
    BY <1>7, <2>1, <2>2 DEF LimitsOrdered
<1> QED
  BY <1>2, <1>6, <1>7
=============================================================================
