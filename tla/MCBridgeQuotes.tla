--------------------------- MODULE MCBridgeQuotes ---------------------------
(* Models of BridgeQuotes for TLC.                                          *)
EXTENDS BridgeQuotes
=============================================================================
