----------------------------- MODULE QuoteCall -----------------------------
(***************************************************************************)
(* One call of get_quote_amounts_and_costs                                 *)
(* (crates/orderbook/src/quote_amounts.rs) and of its counterpart in the   *)
(* swap path (crates/trading/src/costs.rs), on every input in a box whose  *)
(* amounts leave the wrapping operators room for the factors.              *)
(***************************************************************************)
EXTENDS QuoteAmounts

CONSTANTS MaxSell, MaxBuy, MaxFee, ProtocolRates, PartnerRates, Slippages

\* The greatest sum of a quote's amounts, and one.
Largest == MaxSell + MaxBuy + MaxFee + 1

ASSUME CallAssumption ==
  /\ MaxSell \in Nat /\ MaxBuy \in Nat /\ MaxFee \in Nat
  /\ ProtocolRates \subseteq 0..(FullRate - 1) /\ PartnerRates \subseteq Nat
  /\ Slippages \subseteq 0..OneHundredBps
  /\ \A rate \in ProtocolRates : Largest * (FullRate + rate) < WordSize
  /\ \A partner \in PartnerRates : Largest * (2 * (partner + 1) * OneHundredBps) < WordSize
  /\ \A slippage \in Slippages : Largest * (OneHundredBps + slippage + 1) < WordSize

VARIABLES
  quote,   \* the quote and the rates the call is made with
  signed   \* what each path of the code signs, once computed

callVars == <<quote, signed>>

SmallQuotes == [isSell : BOOLEAN, sell : 0..MaxSell, buy : 0..MaxBuy, fee : 0..MaxFee]

CallInputs ==
  [q : SmallQuotes, rate : ProtocolRates, partner : PartnerRates, slippage : Slippages]

NotComputed == <<>>

CallInit == quote \in CallInputs /\ signed = NotComputed

Compute ==
  /\ signed = NotComputed
  /\ signed' = [stages |-> SignedByStages(quote.q, quote.rate, quote.partner, quote.slippage),
                swap   |-> SignedBySwap(quote.q, quote.slippage)]
  /\ UNCHANGED quote

CallSpec == CallInit /\ [][Compute]_callVars
-----------------------------------------------------------------------------
\* The protocol fee that the quote contains is found: get_protocol_fee_amount
\* undoes the charge.
ProtocolFeeRecovered == FeeRecovered(quote.q, quote.rate)

\* The swap path and the full computation sign the same trade when there is
\* nothing but network cost and slippage.
TwoPathsAgree == PathsAgree(quote.q, quote.slippage)

\* No fee stage takes more than its share, on its side of the order.
SignedWithinQuote == LimitsOrdered(quote.q, quote.rate, quote.partner, quote.slippage)
=============================================================================
