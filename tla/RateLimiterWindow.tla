-------------------------- MODULE RateLimiterWindow --------------------------
(***************************************************************************)
(* RateLimiter with two history variables that measure one window of time: *)
(* how long it has been open and how many calls were admitted in it.  A    *)
(* new window may be opened at any moment, so what holds of this window    *)
(* holds of every interval of every execution.                             *)
(***************************************************************************)
EXTENDS RateLimiter

CONSTANT MaxWindow  \* ticks after which the window is closed and a new one opened

ASSUME WindowAssumption == MaxWindow \in Nat

VARIABLES
  elapsed,   \* ticks since the window was opened
  admitted   \* units spent by the calls admitted in it

windowVars == <<tokens, sinceRefill, waiter, timer, elapsed, admitted>>

WInit == Init /\ elapsed = 0 /\ admitted = 0

\* The history variables watch the limiter's steps and never restrain them.
WGrant(t) == Grant(t) /\ admitted' = admitted + Unit /\ UNCHANGED elapsed

WOther(t) ==
  /\ Call(t) \/ Sleep(t) \/ Wake(t) \/ Cancel(t)
  /\ UNCHANGED <<elapsed, admitted>>

WTick ==
  /\ Tick
  /\ IF elapsed < MaxWindow
     THEN elapsed' = elapsed + 1 /\ UNCHANGED admitted
     ELSE elapsed' = 0 /\ admitted' = 0

OpenWindow == elapsed' = 0 /\ admitted' = 0 /\ UNCHANGED vars

WNext == WTick \/ OpenWindow \/ \E t \in Tasks : WGrant(t) \/ WOther(t)

WSpec == WInit /\ [][WNext]_windowVars

\* With the limiter's fairness; nothing is asked of the window.
WFairSpec == WSpec /\ Fairness
-----------------------------------------------------------------------------
WTypeOK == TypeOK /\ elapsed \in 0..MaxWindow /\ admitted \in Nat

\* The throttle itself: in any interval the calls admitted by all tasks
\* together cost at most one full bucket plus what flowed in meanwhile,
\* however the tasks interleave, sleep, wake or give up.
WindowBound == admitted <= Capacity + Rate * elapsed

\* Why: what was admitted and what is still to be had never exceed that sum.
WindowInv == admitted + Refilled <= Capacity + Rate * elapsed
=============================================================================
