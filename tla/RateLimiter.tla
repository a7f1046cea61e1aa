----------------------------- MODULE RateLimiter -----------------------------
(***************************************************************************)
(* The token bucket of crates/http/src/rate_limit.rs, shared by the        *)
(* concurrent tasks that use clones of one OrderBookApi.  Time is counted  *)
(* in ticks and tokens in whole units, Unit of them to a token, so that    *)
(* the fractional tokens of the code (f64) stay integers here.             *)
(*                                                                         *)
(* acquire() refills and tests the bucket in one critical section with no  *)
(* await in it, so Attempt is one step; the sleep that follows a failed    *)
(* attempt reserves nothing, and any other task may take the token the     *)
(* sleeper was waiting for.                                                *)
(***************************************************************************)
EXTENDS Integers

CONSTANTS
  Tasks,     \* tasks holding a clone of the limiter
  Rate,      \* units refilled per tick
  Capacity,  \* units the bucket holds
  Unit       \* units in one token

\* RateLimiter::new panics on a rate or capacity that is not positive; it does
\* not ask that the capacity hold a whole token.
ASSUME LimiterAssumption ==
  /\ Rate \in Nat \ {0}
  /\ Capacity \in Nat \ {0}
  /\ Unit \in Nat \ {0}

VARIABLES
  tokens,       \* BucketState.tokens, in units
  sinceRefill,  \* ticks since BucketState.last_refill, saturated at FullAfter
  waiter,       \* where each task is in acquire()
  timer         \* ticks a sleeping task still has to sleep

vars == <<tokens, sinceRefill, waiter, timer>>

LesserOf(a, b) == IF a <= b THEN a ELSE b

CeilDiv(a, b) == (a + b - 1) \div b

\* Ticks after which any bucket is full: waiting longer changes nothing, so
\* the clock difference is not counted beyond it.
FullAfter == CeilDiv(Capacity, Rate)

\* Mutant: the cut at the capacity is forgotten.
RefilledUncapped == tokens + Rate * sinceRefill

\* The refill of acquire(): elapsed * rate + tokens, cut at the capacity.
Refilled == LesserOf(Capacity, tokens + Rate * sinceRefill)

\* The sleep of acquire(): the time in which the missing part of a token
\* flows in, rounded up as the timer does.
WaitFor(level) == CeilDiv(Unit - level, Rate)

Init ==
  /\ tokens = Capacity
  /\ sinceRefill = 0
  /\ waiter = [t \in Tasks |-> "idle"]
  /\ timer = [t \in Tasks |-> 0]

\* A task calls acquire().
Call(t) ==
  /\ waiter[t] = "idle"
  /\ waiter' = [waiter EXCEPT ![t] = "contending"]
  /\ UNCHANGED <<tokens, sinceRefill, timer>>

\* Mutant: last_refill is not moved when a token is handed out, so the same
\* time is credited again at the next attempt.
GrantCreditsTwice(t) ==
  /\ waiter[t] = "contending"
  /\ Refilled >= Unit
  /\ tokens' = Refilled - Unit
  /\ waiter' = [waiter EXCEPT ![t] = "idle"]
  /\ UNCHANGED <<sinceRefill, timer>>

\* The critical section when a whole token is there: refill and spend it.
Grant(t) ==
  /\ waiter[t] = "contending"
  /\ Refilled >= Unit
  /\ tokens' = Refilled - Unit
  /\ sinceRefill' = 0
  /\ waiter' = [waiter EXCEPT ![t] = "idle"]
  /\ UNCHANGED timer

\* Mutant: a failed attempt moves last_refill and does not store the refill, so
\* every failed attempt throws away what had flowed in.
SleepLosesRefill(t) ==
  /\ waiter[t] = "contending"
  /\ Refilled < Unit
  /\ sinceRefill' = 0
  /\ waiter' = [waiter EXCEPT ![t] = "sleeping"]
  /\ timer' = [timer EXCEPT ![t] = WaitFor(Refilled)]
  /\ UNCHANGED tokens

\* The critical section when it is not: the refill is stored, the task sleeps.
Sleep(t) ==
  /\ waiter[t] = "contending"
  /\ Refilled < Unit
  /\ tokens' = Refilled
  /\ sinceRefill' = 0
  /\ waiter' = [waiter EXCEPT ![t] = "sleeping"]
  /\ timer' = [timer EXCEPT ![t] = WaitFor(Refilled)]

\* The sleep is over and the loop starts again.
Wake(t) ==
  /\ waiter[t] = "sleeping"
  /\ timer[t] = 0
  /\ waiter' = [waiter EXCEPT ![t] = "contending"]
  /\ UNCHANGED <<tokens, sinceRefill, timer>>

\* The caller drops the future of acquire(), possible only at its await.
Cancel(t) ==
  /\ waiter[t] = "sleeping"
  /\ waiter' = [waiter EXCEPT ![t] = "idle"]
  /\ timer' = [timer EXCEPT ![t] = 0]
  /\ UNCHANGED <<tokens, sinceRefill>>

\* The clock advances by one tick for everybody.
Tick ==
  /\ sinceRefill' = LesserOf(sinceRefill + 1, FullAfter)
  /\ timer' = [t \in Tasks |-> IF timer[t] > 0 THEN timer[t] - 1 ELSE 0]
  /\ UNCHANGED <<tokens, waiter>>

Next ==
  \/ Tick
  \/ \E t \in Tasks : Call(t) \/ Grant(t) \/ Sleep(t) \/ Wake(t) \/ Cancel(t)

Spec == Init /\ [][Next]_vars

\* The clock runs and the runtime polls every task that can make a step; no
\* task is ever obliged to call or to give up.
Fairness ==
  /\ WF_vars(Tick)
  /\ \A t \in Tasks : WF_vars(Grant(t) \/ Sleep(t) \/ Wake(t))

FairSpec == Spec /\ Fairness
-----------------------------------------------------------------------------
\* The variables stay in their ranges; a sleeper never sleeps longer than an
\* empty bucket needs for one token, and only sleepers have a timer running.
TypeOK ==
  /\ tokens \in 0..Capacity
  /\ sinceRefill \in 0..FullAfter
  /\ waiter \in [Tasks -> {"idle", "contending", "sleeping"}]
  /\ timer \in [Tasks -> 0..CeilDiv(Unit, Rate)]
  /\ \A t \in Tasks : waiter[t] # "sleeping" => timer[t] = 0

\* The limiter implements the request budget: lazily refilling the bucket at
\* the next attempt is the same, to every caller, as refilling it each tick.
Budget == INSTANCE RequestBudget WITH
  budget  <- Refilled,
  waiting <- {t \in Tasks : waiter[t] # "idle"}

ImplementsBudget == Budget!ASpec

\* No lost wake-up: unless everybody is out of acquire() again and again,
\* tokens are handed out again and again.  Needs a bucket that holds a token.
Progress ==
  \/ []<>(\A t \in Tasks : waiter[t] = "idle")
  \/ []<><<\E t \in Tasks : Grant(t)>>_vars

\* Nobody is overtaken for ever once the callers stop coming: when calls cease,
\* each task inside acquire() gets out of it.
DrainsWhenQuiet ==
  (<>[][~ \E t \in Tasks : Call(t)]_vars) =>
     \A t \in Tasks : []<>(waiter[t] = "idle")
=============================================================================
