-------------------------- MODULE MCBridgeSessions --------------------------
(* A model of BridgeSessions for TLC.                                       *)
EXTENDS BridgeSessions

Base == [on |-> "receiver", isSell |-> TRUE, shape |-> "small", bridgeRecipient |-> {},
         receiver |-> {}, evm |-> {"ann", "bob"}, account |-> "ann", amount |-> 7,
         sellUnit |-> 1, buyUnit |-> 1, signs |-> FALSE, chainKnown |-> TRUE]
Hooked == [Base EXCEPT !.on = "hook"]

\* On the receiver-account bridge: the same trade for two recipients, another
\* trade, and nobody to pay.  On the hook bridge: with and without a signer, other
\* decimals, a recipient of another kind of chain.  And what is refused at once.
SessionRequests ==
  {[Base EXCEPT !.bridgeRecipient = {"sol"}, !.receiver = {"bob"}],
   [Base EXCEPT !.receiver = {"bob"}],
   [Base EXCEPT !.shape = "large", !.receiver = {"bob"}],
   Base,
   Hooked,
   [Hooked EXCEPT !.signs = TRUE, !.receiver = {"sol"}, !.sellUnit = 2, !.buyUnit = 6],
   [Hooked EXCEPT !.signs = TRUE, !.chainKnown = FALSE],
   [Base EXCEPT !.isSell = FALSE],
   [Base EXCEPT !.on = "neither"]}

\* Fees of none, a part, more than everything, and no number.
RelayFees == {{0}, {3}, {9}, {}}
=============================================================================
