---------------------------- MODULE RequestBudget ----------------------------
(***************************************************************************)
(* What the rate limiter of crates/http promises its callers, stated       *)
(* without buckets, refill instants or sleeps: a budget of outbound calls  *)
(* that grows by Rate with every tick of the clock up to Capacity, and a   *)
(* caller that is admitted only when a whole token (Unit) is there, which  *)
(* it then spends.  RateLimiter is shown to implement this module.         *)
(***************************************************************************)
EXTENDS Integers

CONSTANTS
  Tasks,     \* the concurrent callers sharing one limiter
  Rate,      \* budget gained per tick
  Capacity,  \* largest budget (burst allowance)
  Unit       \* budget one call costs: "one token"

VARIABLES
  budget,    \* what may be spent right now
  waiting    \* callers inside acquire()

absVars == <<budget, waiting>>

Smaller(a, b) == IF a <= b THEN a ELSE b

AInit == budget = Capacity /\ waiting = {}

\* A caller enters acquire().
ACall(t) == t \notin waiting /\ waiting' = waiting \cup {t} /\ UNCHANGED budget

\* acquire() returns to a caller: one token is spent.
AGrant(t) ==
  /\ t \in waiting
  /\ budget >= Unit
  /\ budget' = budget - Unit
  /\ waiting' = waiting \ {t}

\* A caller gives up: its future is dropped, nothing is spent.
ACancel(t) == t \in waiting /\ waiting' = waiting \ {t} /\ UNCHANGED budget

\* Time passes.
ATick == budget' = Smaller(Capacity, budget + Rate) /\ UNCHANGED waiting

ANext == ATick \/ \E t \in Tasks : ACall(t) \/ AGrant(t) \/ ACancel(t)

ASpec == AInit /\ [][ANext]_absVars
=============================================================================
