--------------------------- MODULE MCNativeOrders ---------------------------
(* Models of NativeOrders for TLC.                                          *)
EXTENDS NativeOrders, TLC

Native(isSell, buy, receiver, validFor, validTo, partnerFee) ==
  [isSell |-> isSell, sellToken |-> "native", sell |-> 50, buy |-> buy, receiver |-> receiver,
   validFor |-> validFor, validTo |-> validTo, partnerFee |-> partnerFee]

\* Both kinds, the three deadlines, with and without a receiver and a fee.
NativeChoices == {Native(TRUE, 80, {}, {}, {}, {}), Native(TRUE, 80, {"trader"}, {}, {1}, {1}),
                  Native(TRUE, 80, {"trader"}, {15}, {}, {1}), Native(FALSE, 80, {"other"}, {}, {4}, {})}

\* Data filled in by the caller, without a fee and with one.
Filled(fee) == [sell |-> 47, buy |-> 60, fee |-> fee, receiver |-> "trader", validTo |-> 1]
SdkChoices == {Filled(0), Filled(1)}

CallSymmetry == Permutations(Calls)
=============================================================================
