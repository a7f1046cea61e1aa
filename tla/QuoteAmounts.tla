---------------------------- MODULE QuoteAmounts ----------------------------
(***************************************************************************)
(* The amounts of a trade, from the quote the server returns to the limit  *)
(* the trader signs.  The code computes them in two places:                *)
(*   crates/orderbook/src/quote_amounts.rs  every stage, with protocol fee,*)
(*     partner fee and slippage (SignedByStages; the limit and eth-flow    *)
(*     paths of the trading crate sign these);                             *)
(*   crates/trading/src/costs.rs  network cost and slippage only           *)
(*     (SignedBySwap; the swap path signs these).                          *)
(*                                                                         *)
(* All amounts are U256 whose operators wrap, here modulo WordSize.  A fee *)
(* rate is an integer out of OneHundredBps; the protocol fee, which may be *)
(* a fraction of a basis point, comes scaled by Scale and rounded.         *)
(***************************************************************************)
EXTENDS Integers

CONSTANTS
  OneHundredBps,  \* ONE_HUNDRED_BPS: the denominator of every rate
  Scale,          \* HUNDRED_THOUSANDS: the scale of the protocol fee rate
  WordSize        \* 2^256

ASSUME AmountsAssumption ==
  /\ OneHundredBps \in Nat \ {0}
  /\ Scale \in Nat \ {0}
  /\ WordSize \in Nat \ {0}

Plus(a, b)  == (a + b) % WordSize
Minus(a, b) == (a - b) % WordSize
Times(a, b) == (a * b) % WordSize

Amounts(s, b) == [sell |-> s, buy |-> b]

\* Mutant: the sell side uses the denominator of the buy side.
ProtocolFeeDenominatorSwapped(isSell, rate) == Plus(Times(OneHundredBps, Scale), rate)

\* A fee deducted from what is bought, or added to what is sold, is undone with
\* another denominator than it was charged with.
ProtocolFeeDenominator(isSell, rate) ==
  IF isSell THEN Minus(Times(OneHundredBps, Scale), rate)
            ELSE Plus(Times(OneHundredBps, Scale), rate)

\* get_protocol_fee_amount: the protocol fee already in the quote.
ProtocolFee(q, rate) ==
  IF rate = 0 THEN 0
  ELSE LET charged == IF q.isSell THEN q.buy ELSE Plus(q.sell, q.fee)
       IN  Times(charged, rate) \div ProtocolFeeDenominator(q.isSell, rate)

\* A share of an amount, rounded down.
BpsOf(amount, rate) == Times(amount, rate) \div OneHundredBps

\* The network cost in the currency that is bought, at the quote's price.
NetworkCostInBuy(q) == IF q.sell = 0 THEN 0 ELSE Times(q.buy, q.fee) \div q.sell

\* Stage 0, the spot price: every fee the quote contains is taken out again.
BeforeAllFees(q, rate) ==
  IF q.isSell
  THEN Amounts(Plus(q.sell, q.fee), Plus(Plus(q.buy, NetworkCostInBuy(q)), ProtocolFee(q, rate)))
  ELSE Amounts(Minus(q.sell, ProtocolFee(q, rate)), q.buy)

\* Stage 1: the protocol fee is charged.
AfterProtocolFees(q, rate) ==
  LET spot == BeforeAllFees(q, rate)
  IN  IF q.isSell THEN Amounts(spot.sell, Minus(spot.buy, ProtocolFee(q, rate)))
                  ELSE Amounts(q.sell, spot.buy)

\* Stage 2: the network cost is charged; for a sell order that is the quote.
AfterNetworkCosts(q) ==
  IF q.isSell THEN Amounts(q.sell, q.buy) ELSE Amounts(Plus(q.sell, q.fee), q.buy)

\* get_quote_amounts_after_partner_fee: a share of the spot amount.
PartnerFee(q, rate, partner) ==
  LET spot == BeforeAllFees(q, rate)
  IN  BpsOf(IF q.isSell THEN spot.buy ELSE spot.sell, partner)

AfterPartnerFees(q, rate, partner) ==
  LET a == AfterNetworkCosts(q)
  IN  IF q.isSell THEN Amounts(a.sell, Minus(a.buy, PartnerFee(q, rate, partner)))
                  ELSE Amounts(Plus(a.sell, PartnerFee(q, rate, partner)), a.buy)

\* Mutant: slippage is added to either side.
AfterSlippageAdded(isSell, a, slippage) ==
  IF isSell THEN Amounts(a.sell, Plus(a.buy, BpsOf(a.buy, slippage)))
            ELSE Amounts(Plus(a.sell, BpsOf(a.sell, slippage)), a.buy)

\* get_quote_amounts_after_slippage: the side that is not fixed gives way.
AfterSlippage(isSell, a, slippage) ==
  IF isSell THEN Amounts(a.sell, Minus(a.buy, BpsOf(a.buy, slippage)))
            ELSE Amounts(Plus(a.sell, BpsOf(a.sell, slippage)), a.buy)

\* amounts_to_sign of get_quote_amounts_and_costs.  The signed order charges no
\* fee of its own: the network cost is part of its sell amount.
SignedByStages(q, rate, partner, slippage) ==
  LET spot == BeforeAllFees(q, rate)
      last == AfterSlippage(q.isSell, AfterPartnerFees(q, rate, partner), slippage)
  IN  IF q.isSell THEN Amounts(spot.sell, last.buy) ELSE Amounts(last.sell, spot.buy)

\* Mutant: the slippage of a sell order is added.
SlippageSellAdded(buy, slippage) ==
  Times(buy, OneHundredBps + slippage) \div OneHundredBps

\* apply_slippage_sell; 10_000 - slippage is taken in u32 and panics (or wraps
\* to a factor near 2^32) for a slippage above 100 %, which is left out here.
SlippageSell(buy, slippage) ==
  Times(buy, OneHundredBps - slippage) \div OneHundredBps

\* apply_slippage_buy.
SlippageBuy(sell, slippage) ==
  Times(sell, OneHundredBps + slippage) \div OneHundredBps

\* after_slippage of compute_quote_amounts_and_costs, which is what the swap
\* path signs, with the network cost as the order's fee.
SignedBySwap(q, slippage) ==
  IF q.isSell THEN Amounts(q.sell, SlippageSell(q.buy, slippage))
              ELSE Amounts(SlippageBuy(q.sell, slippage), q.buy)
-----------------------------------------------------------------------------
(* What the amounts promise.  Rate = OneHundredBps * Scale is 100 %.       *)

FullRate == OneHundredBps * Scale

Quotes == [isSell : BOOLEAN, sell : Nat, buy : Nat, fee : Nat]

\* The amounts of the quote leave room for a factor: multiplying by it does not
\* reach the word size, so that the wrapping operators are exact.
Fits(q, factor) == (q.sell + q.buy + q.fee + 1) * factor < WordSize

\* Charging the protocol fee on the reconstructed price gives back the fee that
\* was found in the quote: exactly for a sell order, and at most one atom more
\* for a buy order.
FeeRecovered(q, rate) ==
  LET fee   == ProtocolFee(q, rate)
      spot  == IF q.isSell THEN q.buy + fee ELSE q.sell + q.fee - fee
      again == (spot * rate) \div FullRate
  IN  again = fee \/ (~ q.isSell /\ again = fee + 1)

\* The two computations of the code agree when there is no fee but the network
\* cost.  A sell order gives away the same and asks at most one atom less on
\* the swap path; a buy order pays no more on the swap path, which spares it
\* the slippage on the network cost, and at most that (and one atom) less.
PathsAgree(q, slippage) ==
  LET stages == SignedByStages(q, 0, 0, slippage)
      swap   == SignedBySwap(q, slippage)
      saved  == stages.sell - (swap.sell + q.fee)
  IN  IF q.isSell
      THEN /\ stages.sell = swap.sell + q.fee
           /\ stages.buy - swap.buy \in {0, 1}
      ELSE /\ stages.buy = swap.buy
           /\ 0 <= saved
           /\ saved <= BpsOf(q.fee, slippage) + 1

\* The limit is the quote with every fee and the slippage on it, and no more.  The
\* fixed side is the trader's; a sale asks for the quoted amount less the partner
\* fee and the slippage, a purchase pays the cost quoted with the network cost, the
\* partner fee and the slippage on top, both rounded by less than an atom, to the
\* trader's side.  It holds while the partner fee (or, for a buy order, the protocol
\* fee) does not exceed the amount it is cut from; beyond that the amounts wrap.
LimitsOrdered(q, rate, partner, slippage) ==
  LET signed == SignedByStages(q, rate, partner, slippage)
      fee    == PartnerFee(q, rate, partner)
  IN  IF q.isSell
      THEN /\ signed.sell = q.sell + q.fee
           /\ fee <= q.buy =>
                signed.buy * OneHundredBps - (q.buy - fee) * (OneHundredBps - slippage)
                  \in 0..(OneHundredBps - 1)
      ELSE /\ signed.buy = q.buy
           /\ ProtocolFee(q, rate) <= q.sell =>
                (q.sell + q.fee + fee) * (OneHundredBps + slippage) - signed.sell * OneHundredBps
                  \in 0..(OneHundredBps - 1)
=============================================================================
