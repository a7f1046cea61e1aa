--------------------------- MODULE MCOrderBookApi ---------------------------
(* A model of OrderBookApi for TLC: two tasks.  They are interchangeable,   *)
(* so of two assignments of calls that differ by the tasks' names one is    *)
(* enough (symmetry by hand, as liveness is checked).                       *)
EXTENDS OrderBookApi

CONSTANTS t1, t2

CallOrder == <<"sendOrder", "cancelOrders", "getOrderMultiEnv", "uploadAppData">>

MCApiInit ==
  ApiInit /\ \E i, j \in 1..4 : i <= j /\ op[t1] = CallOrder[i] /\ op[t2] = CallOrder[j]

MCApiSpec == MCApiInit /\ [][ApiNext]_apiVars /\ ApiFairness
=============================================================================
