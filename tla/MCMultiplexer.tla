---------------------------- MODULE MCMultiplexer ----------------------------
(* A model of Multiplexer for TLC.                                          *)
EXTENDS Multiplexer, TLC

ParamsSymmetry == Permutations(OrderParams)
=============================================================================
