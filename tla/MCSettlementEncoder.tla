------------------------ MODULE MCSettlementEncoder ------------------------
(* A model of SettlementEncoder for TLC.                                    *)
EXTENDS SettlementEncoder

CONSTANTS a, b, c, r

\* Orders that differ in every field of the flags, and share tokens both ways.
MCToken == {a, b, c}
O(s, t, k, pf, sb, bb) ==
  [sellToken |-> s, buyToken |-> t, kind |-> k, partiallyFillable |-> pf,
   sellBalance |-> sb, buyBalance |-> bb, rest |-> r]
MCOrders ==
  {O(a, b, "Sell", FALSE, "Erc20", "Erc20"), O(b, a, "Buy", TRUE, "Internal", "Internal"),
   O(c, a, "Buy", FALSE, "External", "External"), O(b, c, "Sell", TRUE, "Internal", "Erc20")}
=============================================================================
