---------------------------- MODULE MCTradingSdk ----------------------------
(* Models of TradingSdk for TLC.                                            *)
EXTENDS TradingSdk, TLC

Trade(isSell, amount, slippage, validFor, validTo) ==
  [isSell |-> isSell, amount |-> amount, slippage |-> slippage, receiver |-> {},
   validFor |-> validFor, validTo |-> validTo, partnerFee |-> {}]

Settings(slippage, appData) == [slippage |-> slippage, partnerFee |-> {}, appData |-> appData]

Limit(isSell, validFor, validTo, partnerFee, appData) ==
  [isSell |-> isSell, sell |-> 10, buy |-> 20, receiver |-> {}, validFor |-> validFor,
   validTo |-> validTo, appData |-> appData, partnerFee |-> partnerFee]

Extra(apply, networkCosts, protocolFee, scheme) ==
  [apply |-> apply, networkCosts |-> networkCosts, protocolFee |-> protocolFee, scheme |-> scheme]

\* The swap runs: both kinds, slippage given in each place, the three deadlines.
SwapTrades == {Trade(TRUE, 10, {}, {}, {}), Trade(TRUE, 10, {3}, {1}, {}),
               Trade(FALSE, 20, {3}, {}, {4})}
SwapSettings == {Settings({}, {}), Settings({5}, {})}
\* The limit runs: a time to live (with app-data of its own that is no hash), and an
\* absolute deadline that comes before a time to live.
LimitAndTrade == {Limit(TRUE, {4}, {}, {}, {[malformed |-> "0x"]}), Limit(FALSE, {15}, {3}, {1}, {})}
TradeExtras == {Extra(TRUE, 1, 1, {}), Extra(FALSE, 1, 0, {"ethSign"})}
SellMarkets == {[other |-> 7, fee |-> 0], [other |-> 20, fee |-> 1]}

OneMarket == {[other |-> 20, fee |-> 1]}

ConfigDefault == [slippage |-> 1, partnerFee |-> {2}]

CONSTANT Again

\* Of three calls the last only posts, a second time, a quote that another call
\* holds and a third has posted; its posting first is the same up to names.
AgainPostsQuote ==
  step[Again] = "idle" /\ step'[Again] # "idle" =>
    /\ \E a \in ask'[Again] : a.flow = "swap"
    /\ \E c \in Calls : \E g \in signed[c], h \in signed'[Again] :
         g.flow = "swap" /\ g.origin # c /\ g.origin = h.origin

CallSymmetry == Permutations(Calls \ {Again})
=============================================================================
