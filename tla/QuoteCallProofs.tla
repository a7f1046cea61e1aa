-------------------------- MODULE QuoteCallProofs --------------------------
(***************************************************************************)
(* What the runs check of QuoteCall on one box, for boxes of any size: each*)
(* input leaves the operators the room that the theorems of                *)
(* QuoteAmountsProofs ask for.                                             *)
(***************************************************************************)
EXTENDS QuoteCall, QuoteAmountsProofs

LEMMA InputsKept == CallSpec => [](quote \in CallInputs)
<1>1. CallInit => quote \in CallInputs
  BY DEF CallInit
<1>2. quote \in CallInputs /\ [Compute]_callVars => (quote \in CallInputs)'
  BY DEF Compute, callVars
<1> QED
  BY <1>1, <1>2, PTL DEF CallSpec

\* A factor that the largest quote leaves room for, every quote does.
LEMMA InputFits ==
  ASSUME NEW q \in SmallQuotes, NEW factor \in Nat, Largest * factor < WordSize
  PROVE  q \in Quotes /\ Fits(q, factor)
<1>1. q.isSell \in BOOLEAN /\ q.sell \in Nat /\ q.buy \in Nat /\ q.fee \in Nat /\ q \in Quotes
  BY CallAssumption DEF SmallQuotes, Quotes
<1> DEFINE sum == q.sell + q.buy + q.fee + 1
<1>2. sum \in Nat /\ Largest \in Nat /\ sum <= Largest
  BY <1>1, CallAssumption DEF SmallQuotes, Largest
<1>3. WordSize \in Nat
  BY AmountsAssumption
<1> HIDE DEF sum
<1>4. sum * factor \in Nat /\ Largest * factor \in Nat /\ sum * factor <= Largest * factor
  BY <1>2, ProductMonotone
<1>5. sum * factor < WordSize
  BY <1>3, <1>4
<1> QED
  BY <1>1, <1>5 DEF Fits, sum

LEMMA Factors ==
  ASSUME NEW rate \in ProtocolRates, NEW partner \in PartnerRates, NEW slippage \in Slippages
  PROVE  /\ rate \in Nat /\ rate < FullRate /\ FullRate \in Nat
         /\ FullRate + rate \in Nat /\ Largest * (FullRate + rate) < WordSize
         /\ partner \in Nat /\ 2 * (partner + 1) * OneHundredBps \in Nat
         /\ Largest * (2 * (partner + 1) * OneHundredBps) < WordSize
         /\ slippage \in 0..OneHundredBps /\ OneHundredBps + slippage + 1 \in Nat
         /\ Largest * (OneHundredBps + slippage + 1) < WordSize
<1>1. FullRate \in Nat
  BY AmountsAssumption, Commutes DEF FullRate
<1> QED
  BY <1>1, AmountsAssumption, CallAssumption

\* The protocol fee in any quote of the box is found (get_protocol_fee_amount).
THEOREM FeeAlwaysRecovered == CallSpec => []ProtocolFeeRecovered
<1>1. quote \in CallInputs => ProtocolFeeRecovered
  <2> SUFFICES ASSUME quote \in CallInputs PROVE FeeRecovered(quote.q, quote.rate)
    BY DEF ProtocolFeeRecovered
  <2>1. /\ quote.q \in SmallQuotes /\ quote.rate \in ProtocolRates
        /\ quote.partner \in PartnerRates /\ quote.slippage \in Slippages
    BY DEF CallInputs
  <2> QED
    BY <2>1, Factors, InputFits, ProtocolFeeIsFound
<1> QED
  BY <1>1, InputsKept, PTL

\* Both paths of the code sign the same trade for any quote of the box, to what PathsAgree
\* allows (compute_quote_amounts_and_costs against get_quote_amounts_and_costs).
THEOREM CallPathsAgree == CallSpec => []TwoPathsAgree
<1>1. quote \in CallInputs => TwoPathsAgree
  <2> SUFFICES ASSUME quote \in CallInputs PROVE PathsAgree(quote.q, quote.slippage)
    BY DEF TwoPathsAgree
  <2>1. /\ quote.q \in SmallQuotes /\ quote.rate \in ProtocolRates
        /\ quote.partner \in PartnerRates /\ quote.slippage \in Slippages
    BY DEF CallInputs
  <2> QED
    BY <2>1, Factors, InputFits, PathsAlwaysAgree
<1> QED
  BY <1>1, InputsKept, PTL

\* The limits that are signed have every fee and the slippage on them, and no more, for any
\* quote and rates of the box
\* (get_quote_amounts_and_costs).
THEOREM SignedAlwaysWithinQuote == CallSpec => []SignedWithinQuote
<1>1. quote \in CallInputs => SignedWithinQuote
  <2> SUFFICES ASSUME quote \in CallInputs
               PROVE  LimitsOrdered(quote.q, quote.rate, quote.partner, quote.slippage)
    BY DEF SignedWithinQuote
  <2> DEFINE q == quote.q
             rate == quote.rate
  <2>1. /\ q \in SmallQuotes /\ rate \in ProtocolRates
        /\ quote.partner \in PartnerRates /\ quote.slippage \in Slippages
    BY DEF CallInputs
  <2> HIDE DEF q, rate
  <2>2. rate \in Nat /\ rate < FullRate /\ FullRate \in Nat /\ FullRate + rate < WordSize
    <3>1. /\ rate \in Nat /\ rate < FullRate /\ FullRate \in Nat /\ FullRate + rate \in Nat
          /\ Largest * (FullRate + rate) < WordSize
      BY <2>1, Factors
    <3>2. Largest \in Nat /\ 1 <= Largest /\ WordSize \in Nat
      BY CallAssumption, AmountsAssumption DEF Largest
    <3>3. 1 * (FullRate + rate) <= Largest * (FullRate + rate) /\ Largest * (FullRate + rate) \in Nat
      BY <3>1, <3>2, ProductMonotone
    <3> QED
      BY <3>1, <3>2, <3>3
  <2>3. ProtocolFeeDenominator(q.isSell, rate) # 0
    <3>1. WordSize \in Nat \ {0}
      BY AmountsAssumption
    <3>2. Times(OneHundredBps, Scale) = FullRate
      BY <2>2, <3>1, NoWrap DEF Times, FullRate
    <3>3. Minus(FullRate, rate) = FullRate - rate /\ Plus(FullRate, rate) = FullRate + rate
      BY <2>2, <3>1, NoWrap DEF Minus, Plus
    <3> QED
      BY <2>2, <3>2, <3>3 DEF ProtocolFeeDenominator
  <2>4. q \in Quotes /\ Fits(q, 2 * (quote.partner + 1) * OneHundredBps)
    BY <2>1, Factors, InputFits
  <2>5. quote.partner \in Nat /\ quote.slippage \in 0..OneHundredBps
    BY <2>1, Factors
  <2> QED
    BY <2>2, <2>3, <2>4, <2>5, LimitsAlwaysOrdered DEF q, rate
<1> QED
  BY <1>1, InputsKept, PTL
=============================================================================
