------------------------- MODULE SettlementEncoder -------------------------
(***************************************************************************)
(* A solver fills a settlement (crates/settlement/src/encoder.rs): tokens  *)
(* are numbered as they appear, prices are set by number, trades refer to  *)
(* their tokens by number and keep the rest of their order in one byte of  *)
(* flags (crates/types/src/trade.rs, flags.rs), and encode_settlement      *)
(* hands it all to the contract, which reads the orders back and verifies  *)
(* their signatures.                                                       *)
(*                                                                         *)
(* Indices count from 0 as in the code, so tokens[i + 1] is token i.  A    *)
(* digest is the order it is made from.  The fields of an order that pass  *)
(* through untouched (amounts, receiver, deadline, app-data) are one       *)
(* field, "rest".  An Option or Result is a set with at most one element.  *)
(***************************************************************************)
EXTENDS Integers, Sequences

CONSTANTS
  Token,          \* addresses
  Rest,           \* the fields of an order that are copied
  Orders,         \* the orders a solver may settle
  Price,          \* the prices a solver sets
  Call,           \* interactions: target, value and calldata
  MaxTrades,      \* bound of the trades
  MaxCalls,       \* bound of the interactions of all stages
  MaxIndex        \* bound of the indices prices are set at

Stages   == {"Pre", "Intra", "Post"}
Kinds    == {"Sell", "Buy"}
Balances == {"Erc20", "External", "Internal"}
Schemes  == {"Eip712", "EthSign", "Eip1271", "PreSign"}

\* UnsignedOrder.
Order == [sellToken : Token, buyToken : Token, kind : Kinds, partiallyFillable : BOOLEAN,
          sellBalance : Balances, buyBalance : Balances, rest : Rest]

SignatureData == [scheme : Schemes, digest : Order]

EncodedTrade ==
  [sellTokenIndex : Nat, buyTokenIndex : Nat, rest : Rest, flags : Nat, digest : Order]

ASSUME EncoderAssumption ==
  /\ Orders \subseteq Order
  /\ Price \subseteq Nat \ {0}
  /\ MaxTrades \in Nat
  /\ MaxCalls \in Nat
  /\ MaxIndex \in Nat

VARIABLES
  tokens,          \* SettlementTokenRegistry: the addresses in order of registration
  tokenMap,        \* and the index of each
  clearingPrices,
  trades,          \* EncodedTrade
  interactions,    \* by stage
  given,           \* history: the orders and signatures the trades were made from
  wanted           \* history: the price last asked for, by index

vars == <<tokens, tokenMap, clearingPrices, trades, interactions, given, wanted>>
-----------------------------------------------------------------------------
(* The flags of a trade: bit 0 is the kind, 1 partially fillable, 2 and 3    *)
(* the sell balance, 4 the buy balance, 5 and 6 the scheme.  The fields are  *)
(* disjoint, so the code's | is a sum.                                       *)

SchemeList   == <<"Eip712", "EthSign", "Eip1271", "PreSign">>
KindIndex    == [k \in Kinds |-> IF k = "Sell" THEN 0 ELSE 1]
SellIndex    == [b \in Balances |-> IF b = "Erc20" THEN 0 ELSE IF b = "External" THEN 2 ELSE 3]
BuyIndex     == [b \in Balances |-> IF b = "Internal" THEN 1 ELSE 0]
SchemeIndex  == [s \in Schemes |-> IF s = "Eip712" THEN 0 ELSE IF s = "EthSign" THEN 1 ELSE IF s = "Eip1271" THEN 2 ELSE 3]

\* normalize_buy_token_balance; and normalize_order.
NormalizeBuyBalance(b) == IF b = "Internal" THEN "Internal" ELSE "Erc20"

Normalize(o) == [o EXCEPT !.buyBalance = NormalizeBuyBalance(o.buyBalance)]

\* Mutant: the sell balance gets one bit, so that internal runs into the buy balance.
EncodeFlagsOverlapping(o, scheme) ==
  KindIndex[o.kind] + (IF o.partiallyFillable THEN 2 ELSE 0) + 2 * SellIndex[o.sellBalance]
    + 8 * BuyIndex[NormalizeBuyBalance(o.buyBalance)] + 32 * SchemeIndex[scheme]

\* encode_trade_flags of what encode_trade collects.
EncodeFlags(o, scheme) ==
  KindIndex[o.kind] + (IF o.partiallyFillable THEN 2 ELSE 0) + 4 * SellIndex[o.sellBalance]
    + 16 * BuyIndex[NormalizeBuyBalance(o.buyBalance)] + 32 * SchemeIndex[scheme]

\* decode_order_flags: sell index 1 is an error.
DecodeFlags(bits) ==
  LET sell == (bits \div 4) % 4
  IN  IF sell = 1 THEN {}
      ELSE {[kind              |-> IF bits % 2 = 0 THEN "Sell" ELSE "Buy",
             partiallyFillable |-> (bits \div 2) % 2 # 0,
             sellBalance       |-> IF sell = 0 THEN "Erc20" ELSE IF sell = 2 THEN "External" ELSE "Internal",
             buyBalance        |-> IF (bits \div 16) % 2 = 0 THEN "Erc20" ELSE "Internal"]}

\* decode_signing_scheme.
DecodeScheme(bits) == SchemeList[((bits \div 32) % 4) + 1]

\* decode_order: an index out of bounds or bad flags are an error.
DecodeOrder(trade, toks) ==
  IF trade.sellTokenIndex >= Len(toks) \/ trade.buyTokenIndex >= Len(toks) THEN {}
  ELSE {[sellToken |-> toks[trade.sellTokenIndex + 1], buyToken |-> toks[trade.buyTokenIndex + 1],
         kind |-> f.kind, partiallyFillable |-> f.partiallyFillable,
         sellBalance |-> f.sellBalance, buyBalance |-> f.buyBalance,
         rest |-> trade.rest] : f \in DecodeFlags(trade.flags)}
-----------------------------------------------------------------------------
(* The encoder.                                                              *)

Init ==
  /\ tokens = <<>>
  /\ tokenMap = [t \in {} |-> 0]
  /\ clearingPrices = <<>>
  /\ trades = <<>>
  /\ interactions = [s \in Stages |-> <<>>]
  /\ given = <<>>
  /\ wanted = [i \in 0..MaxIndex |-> 0]

\* Mutant: a new token goes to the front.
RegisteredInFront(reg, t) ==
  IF t \in DOMAIN reg.map THEN reg
  ELSE [list |-> <<t>> \o reg.list,
        map  |-> [u \in DOMAIN reg.map \cup {t} |-> IF u = t THEN 0 ELSE reg.map[u] + 1]]

\* index: the registry after looking up t, and adding it if it is new.
Registered(reg, t) ==
  IF t \in DOMAIN reg.map THEN reg
  ELSE [list |-> Append(reg.list, t),
        map  |-> [u \in DOMAIN reg.map \cup {t} |-> IF u = t THEN Len(reg.list) ELSE reg.map[u]]]

Registry == [list |-> tokens, map |-> tokenMap]

\* resize: zeros up to n, if it is shorter.
Resized(prices, n) ==
  IF Len(prices) >= n THEN prices
  ELSE [i \in 1..n |-> IF i <= Len(prices) THEN prices[i] ELSE 0]

SetRegistry(reg) == tokens' = reg.list /\ tokenMap' = reg.map

AddToken(t) ==
  LET reg == Registered(Registry, t)
  IN  /\ SetRegistry(reg)
      /\ clearingPrices' = Resized(clearingPrices, reg.map[t] + 1)
      /\ UNCHANGED <<trades, interactions, given, wanted>>

\* Any index may be given, and the prices are extended up to it.
SetClearingPrice(i, price) ==
  /\ clearingPrices' = [Resized(clearingPrices, i + 1) EXCEPT ![i + 1] = price]
  /\ wanted' = [wanted EXCEPT ![i] = price]
  /\ UNCHANGED <<tokens, tokenMap, trades, interactions, given>>

\* Mutant: the indices are swapped.
EncodeTradeSwapped(reg, o, sig) ==
  [sellTokenIndex |-> reg.map[o.buyToken], buyTokenIndex |-> reg.map[o.sellToken],
   rest |-> o.rest, flags |-> EncodeFlags(o, sig.scheme), digest |-> sig.digest]

\* encode_trade: the sell token is looked up first.
EncodeTrade(reg, o, sig) ==
  [sellTokenIndex |-> reg.map[o.sellToken], buyTokenIndex |-> reg.map[o.buyToken],
   rest |-> o.rest, flags |-> EncodeFlags(o, sig.scheme), digest |-> sig.digest]

\* Mutant: only the token sold has its price ensured.
AddTradePriceOfOne(o, sig) ==
  LET reg == Registered(Registered(Registry, o.sellToken), o.buyToken)
  IN  /\ Len(trades) < MaxTrades
      /\ SetRegistry(reg)
      /\ clearingPrices' = Resized(clearingPrices, reg.map[o.sellToken] + 1)
      /\ trades' = Append(trades, EncodeTrade(reg, o, sig))
      /\ given' = Append(given, [order |-> o, signature |-> sig])
      /\ UNCHANGED <<interactions, wanted>>

AddTrade(o, sig) ==
  LET reg == Registered(Registered(Registry, o.sellToken), o.buyToken)
  IN  /\ Len(trades) < MaxTrades
      /\ SetRegistry(reg)
      /\ clearingPrices' = Resized(clearingPrices, Len(reg.list))
      /\ trades' = Append(trades, EncodeTrade(reg, o, sig))
      /\ given' = Append(given, [order |-> o, signature |-> sig])
      /\ UNCHANGED <<interactions, wanted>>

AddInteraction(stage, call) ==
  /\ Len(interactions["Pre"]) + Len(interactions["Intra"]) + Len(interactions["Post"]) < MaxCalls
  /\ interactions' = [interactions EXCEPT ![stage] = Append(@, call)]
  /\ UNCHANGED <<tokens, tokenMap, clearingPrices, trades, given, wanted>>

\* Mutant: the prices of the settlement before are kept.
ClearKeepsPrices ==
  /\ SetRegistry([list |-> <<>>, map |-> [t \in {} |-> 0]])
  /\ trades' = <<>> /\ given' = <<>>
  /\ interactions' = [s \in Stages |-> <<>>]
  /\ wanted' = [i \in 0..MaxIndex |-> 0]
  /\ UNCHANGED clearingPrices

Clear ==
  /\ SetRegistry([list |-> <<>>, map |-> [t \in {} |-> 0]])
  /\ clearingPrices' = <<>>
  /\ trades' = <<>> /\ given' = <<>>
  /\ interactions' = [s \in Stages |-> <<>>]
  /\ wanted' = [i \in 0..MaxIndex |-> 0]

\* The digest a signer signs: the normalized order (signing crate), or the order as
\* it stands where normalize_order was not called.
SignaturesOf(o) == [scheme : Schemes, digest : {o, Normalize(o)}]

Next ==
  \/ \E t \in Token : AddToken(t)
  \/ \E i \in 0..MaxIndex, p \in Price : SetClearingPrice(i, p)
  \/ \E o \in Orders : \E sig \in SignaturesOf(o) : AddTrade(o, sig)
  \/ \E s \in Stages, c \in Call : AddInteraction(s, c)
  \/ Clear

Spec == Init /\ [][Next]_vars
-----------------------------------------------------------------------------
(* What the contract makes of the calldata of encode_settlement.             *)

\* encode_settlement: the four arrays, without their layout.
EncodeSettlement ==
  [tokens |-> tokens, clearingPrices |-> clearingPrices, trades |-> trades, interactions |-> interactions]

\* What a trade needs of the calldata to be settled, whatever else the contract may ask
\* of it: read back, it is the order its signature is about, and both its tokens have a
\* price at their number, which a price of zero is not.
Settleable(call) ==
  \A k \in DOMAIN call.trades :
    /\ \E o \in DecodeOrder(call.trades[k], call.tokens) : call.trades[k].digest = o
    /\ \A i \in {call.trades[k].sellTokenIndex, call.trades[k].buyTokenIndex} :
         i < Len(call.clearingPrices) /\ call.clearingPrices[i + 1] # 0

\* A price was asked for at the number of the token, before or after it came.
Priced(t) == tokenMap[t] \in 0..MaxIndex /\ wanted[tokenMap[t]] # 0

\* List and map of the registry number the same tokens, each once.
RegistryOK(reg) ==
  /\ reg.list \in Seq(Token)
  /\ DOMAIN reg.map = {reg.list[i] : i \in DOMAIN reg.list}
  /\ \A i \in DOMAIN reg.list : reg.map[reg.list[i]] = i - 1

\* The two halves of the registry agree, there is a price for each token, and each
\* variable has its type.
EncoderTypeOK ==
  /\ RegistryOK(Registry)
  /\ clearingPrices \in Seq(Nat)
  /\ Len(clearingPrices) >= Len(tokens)
  /\ wanted \in [0..MaxIndex -> Price \cup {0}]
  /\ interactions \in [Stages -> Seq(Call)]
  /\ given \in Seq([order : Orders, signature : SignatureData])
  /\ trades \in Seq(EncodedTrade)
  /\ Len(trades) = Len(given)

\* However many tokens and trades came in between, in whatever order, each trade reads
\* back as the order it was made from, normalized, with the scheme it was signed under
\* (add_trade, encode_trade, decode_order, the flags).
TradesReadBack ==
  \A k \in DOMAIN trades :
    /\ DecodeOrder(trades[k], tokens) = {Normalize(given[k].order)}
    /\ DecodeScheme(trades[k].flags) = given[k].signature.scheme

\* Every price is the one last asked for at its index, or zero: filling up the array for
\* new tokens never overwrites one, and a cleared encoder hands none on to the tokens of
\* the next settlement (set_clearing_price, add_token, add_trade, clear).
PricesAsWanted ==
  /\ \A i \in DOMAIN clearingPrices :
       clearingPrices[i] = IF i - 1 \in 0..MaxIndex THEN wanted[i - 1] ELSE 0
  /\ \A i \in 0..MaxIndex : wanted[i] # 0 => i < Len(clearingPrices)

\* Every trade can be settled exactly when its signer signed the normalized order and both
\* its tokens were priced: registering a token prices it at zero only, a price set before
\* the token came counts, and nothing a later call does takes one away
\* (encode_settlement, normalize_order, add_token, set_clearing_price, add_trade, clear).
SettleableIfReady ==
  Settleable(EncodeSettlement) <=>
    \A k \in DOMAIN given :
      /\ given[k].signature.digest = Normalize(given[k].order)
      /\ Priced(given[k].order.sellToken) /\ Priced(given[k].order.buyToken)

\* A token keeps its number until the settlement is cleared: trades already encoded
\* refer to it (index).
NumbersStay ==
  [][\/ \A i \in DOMAIN tokens : i \in DOMAIN tokens' /\ tokens'[i] = tokens[i]
     \/ tokens' = <<>> /\ trades' = <<>>]_vars
=============================================================================
