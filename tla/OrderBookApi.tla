---------------------------- MODULE OrderBookApi ----------------------------
(***************************************************************************)
(* The HTTP client of crates/orderbook/src/api.rs: concurrent calls that   *)
(* share one RateLimiter, each running send_with_policy (acquire, send,    *)
(* judge the answer, back off, again), against a server that may accept a  *)
(* request and lose the answer, answer late, or be busy.                   *)
(*                                                                         *)
(* A task makes one call.  All calls are about one order; book says what   *)
(* each environment's server knows of it.  A request on the wire that is   *)
(* never served is a lost one; one served after the client gave up on it   *)
(* is a late one, whose effect stays and whose answer nobody reads.        *)
(***************************************************************************)
EXTENDS RateLimiter, FiniteSets

CONSTANTS
  Ops,           \* the kinds of call the tasks make
  MaxAttempts,   \* RetryPolicy.max_attempts
  InitialDelay,  \* RetryPolicy.initial_delay, in ticks
  MaxDelay,      \* RetryPolicy.max_delay, in ticks
  FactorLimit    \* what 2u64.saturating_pow saturates at

AllOps == {"getOrder", "getOrderMultiEnv", "sendOrder", "cancelOrders", "uploadAppData"}

ASSUME PolicyAssumption ==
  /\ Ops \subseteq AllOps
  /\ MaxAttempts \in Nat
  /\ InitialDelay \in Nat /\ MaxDelay \in Nat
  /\ FactorLimit \in Nat \ {0}

VARIABLES
  phase,     \* where each call is
  op,        \* what it calls
  env,       \* which environment's URL it is talking to
  attempt,   \* attempt of send_with_policy, from 0
  delay,     \* ticks of backoff left
  inbox,     \* the answer to the attempt in flight, once the server gave it
  result,    \* what the call returned
  wire,      \* requests sent and not yet served
  book,      \* what each server knows of the order
  sends,     \* history: requests the call sent to each environment (saturated)
  quiet,     \* history: ticks since the call last sent, saturated at MaxDelay
  missing    \* history: environments that answered 404 to the call

clientVars == <<phase, op, env, attempt, delay, inbox, result, wire, book, sends, quiet, missing>>
apiVars == <<vars, clientVars>>

Envs == {"configured", "other"}

\* The classes of HTTP answer the client tells apart: success, success with a
\* body that does not decode, an error it does not retry, not found, and a
\* status of DEFAULT_RETRY_STATUS_CODES.
Statuses == {"success", "garbled", "rejected", "notFound", "retryable"}
Results == {"success", "rejected", "notFound", "retryable", "transportError"}

Request(t) == [task |-> t, env |-> env[t], attempt |-> attempt[t], op |-> op[t]]

AttemptLimit == IF MaxAttempts >= 1 THEN MaxAttempts ELSE 1

\* 2u64.saturating_pow(k).
Factor(k) ==
  LET f[i \in 0..k] == IF i = 0 THEN 1 ELSE LesserOf(2 * f[i - 1], FactorLimit) IN f[k]

\* The backoff before retry k + 1: doubling, saturating, capped.
DelayForAttempt(k) == LesserOf(MaxDelay, InitialDelay * Factor(k))

ApiInit ==
  /\ Init
  /\ phase = [t \in Tasks |-> "new"]
  /\ op \in [Tasks -> Ops]
  /\ env = [t \in Tasks |-> "configured"]
  /\ attempt = [t \in Tasks |-> 0]
  /\ delay = [t \in Tasks |-> 0]
  /\ inbox = [t \in Tasks |-> "none"]
  /\ result = [t \in Tasks |-> "none"]
  /\ wire = {}
  /\ book \in [Envs -> {"absent", "open"}]
  /\ sends = [t \in Tasks |-> [e \in Envs |-> 0]]
  /\ quiet = [t \in Tasks |-> MaxDelay]
  /\ missing = [t \in Tasks |-> {}]
-----------------------------------------------------------------------------
(* The client. *)

\* The request leaves the client.
PutOnWire(t) ==
  /\ wire' = wire \cup {Request(t)}
  /\ sends' = [sends EXCEPT ![t][env[t]] = LesserOf(@ + 1, AttemptLimit + 1)]
  /\ quiet' = [quiet EXCEPT ![t] = 0]
  /\ phase' = [phase EXCEPT ![t] = "awaiting"]

\* A call routed through send_with_policy starts by asking the limiter.
Begin(t) ==
  /\ phase[t] = "new"
  /\ op[t] # "uploadAppData"
  /\ Call(t)
  /\ phase' = [phase EXCEPT ![t] = "acquiring"]
  /\ UNCHANGED <<op, env, attempt, delay, inbox, result, wire, book, sends, quiet, missing>>

\* upload_app_data and upload_app_data_auto send at once: they use the inner
\* client directly, with neither the limiter nor the retry policy.
BeginUpload(t) ==
  /\ phase[t] = "new"
  /\ op[t] = "uploadAppData"
  /\ PutOnWire(t)
  /\ UNCHANGED <<vars, op, env, attempt, delay, inbox, result, book, missing>>

\* acquire() returned: the request is built afresh and sent, no await between.
Send(t) ==
  /\ phase[t] = "acquiring"
  /\ Grant(t)
  /\ PutOnWire(t)
  /\ UNCHANGED <<op, env, attempt, delay, inbox, result, book, missing>>

\* The limiter's own steps while the call is inside acquire().
WaitForToken(t) ==
  /\ phase[t] = "acquiring"
  /\ Sleep(t) \/ Wake(t)
  /\ UNCHANGED clientVars

\* Mutant: the test of the last attempt is off by one.
IsLastAttemptLate(t) == op[t] = "uploadAppData" \/ attempt[t] >= AttemptLimit

\* last_attempt of send_with_policy; an upload has one attempt only.
IsLastAttempt(t) == op[t] = "uploadAppData" \/ attempt[t] + 1 >= AttemptLimit

Return(t, r) ==
  /\ phase' = [phase EXCEPT ![t] = "returned"]
  /\ result' = [result EXCEPT ![t] = r]

\* Mutant: only half of the delay is waited for.
StartBackoffHalved(t) ==
  /\ phase' = [phase EXCEPT ![t] = "backoff"]
  /\ delay' = [delay EXCEPT ![t] = DelayForAttempt(attempt[t]) \div 2]

\* delay_for_attempt, then the wait.
StartBackoff(t) ==
  /\ phase' = [phase EXCEPT ![t] = "backoff"]
  /\ delay' = [delay EXCEPT ![t] = DelayForAttempt(attempt[t])]

\* A transient failure, a status to retry or no answer: back off unless this
\* was the last attempt, which hands the failure to the caller.
FailTransiently(t, r) ==
  /\ inbox' = [inbox EXCEPT ![t] = "none"]
  /\ IF IsLastAttempt(t)
     THEN Return(t, r) /\ UNCHANGED delay
     ELSE StartBackoff(t) /\ UNCHANGED result
  /\ UNCHANGED <<vars, op, env, attempt, wire, book, sends, quiet, missing>>

\* An answer whose status is retried.
ReceiveRetryable(t) ==
  /\ phase[t] = "awaiting"
  /\ inbox[t] = "retryable"
  /\ FailTransiently(t, "retryable")

\* No answer: the 30 s client timeout or any other transport error.  It may
\* win the race against an answer that is already there.
TransportError(t) ==
  /\ phase[t] = "awaiting"
  /\ FailTransiently(t, "transportError")

\* Mutant: the status is not looked at.
ResultUnchecked(t) == "success"

\* get, post and cancel_orders turn the response into the call's result: the
\* body of a success is decoded (cancel_orders reads none), any other status
\* is an error.
ResultOf(t) ==
  IF inbox[t] # "garbled" THEN inbox[t]
  ELSE IF op[t] = "cancelOrders" THEN "success" ELSE "transportError"

\* Mutant: the other environment is tried whatever the error was.
TriesOtherEnvOnAnyError(t) ==
  op[t] = "getOrderMultiEnv" /\ env[t] = "configured" /\ inbox[t] \in {"notFound", "rejected", "retryable"}

\* get_order_multi_env goes on after a 404 of the configured environment, and
\* after nothing else.
TriesOtherEnv(t) ==
  op[t] = "getOrderMultiEnv" /\ env[t] = "configured" /\ inbox[t] = "notFound"

NoteMissing(t) ==
  missing' = [missing EXCEPT ![t] = IF inbox[t] = "notFound" THEN @ \cup {env[t]} ELSE @]

\* A status that is not retried ends send_with_policy, and the call with it.
ReceiveFinal(t) ==
  /\ phase[t] = "awaiting"
  /\ inbox[t] \in {"success", "garbled", "rejected", "notFound"}
  /\ ~ TriesOtherEnv(t)
  /\ Return(t, ResultOf(t))
  /\ inbox' = [inbox EXCEPT ![t] = "none"]
  /\ NoteMissing(t)
  /\ UNCHANGED <<vars, op, env, attempt, delay, wire, book, sends, quiet>>

\* The second call of get_order_multi_env, through a client that shares the
\* limiter and counts its own attempts.
TryOtherEnv(t) ==
  /\ phase[t] = "awaiting"
  /\ TriesOtherEnv(t)
  /\ Call(t)
  /\ phase' = [phase EXCEPT ![t] = "acquiring"]
  /\ env' = [env EXCEPT ![t] = "other"]
  /\ attempt' = [attempt EXCEPT ![t] = 0]
  /\ inbox' = [inbox EXCEPT ![t] = "none"]
  /\ NoteMissing(t)
  /\ UNCHANGED <<op, delay, result, wire, book, sends, quiet>>

\* Mutant: the attempts are not counted.
RetryUncounted(t) ==
  /\ phase[t] = "backoff"
  /\ delay[t] = 0
  /\ Call(t)
  /\ phase' = [phase EXCEPT ![t] = "acquiring"]
  /\ UNCHANGED <<op, env, attempt, delay, inbox, result, wire, book, sends, quiet, missing>>

\* The backoff is over: the next attempt asks the limiter again.
Retry(t) ==
  /\ phase[t] = "backoff"
  /\ delay[t] = 0
  /\ Call(t)
  /\ phase' = [phase EXCEPT ![t] = "acquiring"]
  /\ attempt' = [attempt EXCEPT ![t] = @ + 1]
  /\ UNCHANGED <<op, env, delay, inbox, result, wire, book, sends, quiet, missing>>

\* The caller drops the call's future at an await (a select or a timeout of
\* its own): nothing more is sent, and what was sent is not called back.
Drop(t) ==
  /\ \/ phase[t] \in {"awaiting", "backoff"} /\ UNCHANGED vars
     \/ phase[t] = "acquiring" /\ Cancel(t)
  /\ phase' = [phase EXCEPT ![t] = "dropped"]
  /\ delay' = [delay EXCEPT ![t] = 0]
  /\ inbox' = [inbox EXCEPT ![t] = "none"]
  /\ UNCHANGED <<op, env, attempt, result, wire, book, sends, quiet, missing>>

\* Time passes for the limiter, the backoffs and the history.
ApiTick ==
  /\ Tick
  /\ delay' = [t \in Tasks |-> IF delay[t] > 0 THEN delay[t] - 1 ELSE 0]
  /\ quiet' = [t \in Tasks |-> LesserOf(quiet[t] + 1, MaxDelay)]
  /\ UNCHANGED <<phase, op, env, attempt, inbox, result, wire, book, sends, missing>>
-----------------------------------------------------------------------------
(* The server, modelled from how the client uses it. *)

\* POST /orders accepts an order once and rejects a duplicate; DELETE /orders
\* cancels an open order; GET finds it or not; PUT /app_data is idempotent.
Answer(o, known) ==
  CASE o = "sendOrder"     -> IF known = "absent" THEN "success" ELSE "rejected"
    [] o = "cancelOrders"  -> IF known = "open" THEN "success" ELSE "rejected"
    [] o \in {"getOrder", "getOrderMultiEnv"} ->
                              IF known = "absent" THEN "notFound" ELSE "success"
    [] o = "uploadAppData" -> "success"

Effect(o, known) ==
  CASE o = "sendOrder" /\ known = "absent"  -> "open"
    [] o = "cancelOrders" /\ known = "open" -> "cancelled"
    [] OTHER                                -> known

\* The client still waits for the answer to this very request.
Awaited(m) ==
  /\ phase[m.task] = "awaiting"
  /\ env[m.task] = m.env /\ attempt[m.task] = m.attempt

\* The server's reply reaches the client if it still waits for it.
Reply(m, s) == inbox' = IF Awaited(m) THEN [inbox EXCEPT ![m.task] = s] ELSE inbox

\* The server handles a request; on the way back the answer may turn into a
\* gateway error or its body may be cut.
Serve(m) ==
  /\ wire' = wire \ {m}
  /\ book' = [book EXCEPT ![m.env] = Effect(m.op, @)]
  /\ LET s == Answer(m.op, book[m.env]) IN
       \E r \in {s, "retryable"} \cup (IF s = "success" THEN {"garbled"} ELSE {}) : Reply(m, r)
  /\ UNCHANGED <<vars, phase, op, env, attempt, delay, result, sends, quiet, missing>>

\* The server, or a gateway before it, refuses a request without handling it.
Refuse(m) ==
  /\ wire' = wire \ {m}
  /\ Reply(m, "retryable")
  /\ UNCHANGED <<vars, phase, op, env, attempt, delay, result, book, sends, quiet, missing>>
-----------------------------------------------------------------------------
ClientStep(t) ==
  \/ Begin(t) \/ BeginUpload(t) \/ Send(t) \/ WaitForToken(t)
  \/ ReceiveRetryable(t) \/ TransportError(t) \/ ReceiveFinal(t)
  \/ TryOtherEnv(t) \/ Retry(t)

ApiNext ==
  \/ ApiTick
  \/ \E t \in Tasks : ClientStep(t) \/ Drop(t)
  \/ \E m \in wire : Serve(m) \/ Refuse(m)

ApiSpec == ApiInit /\ [][ApiNext]_apiVars

\* The clock runs and the runtime polls every call.  The client timeout makes
\* TransportError certain when no answer comes, so nothing is asked of the
\* server or the network.
ApiFairness == WF_apiVars(ApiTick) /\ \A t \in Tasks : WF_apiVars(ClientStep(t))

ApiFairSpec == ApiSpec /\ ApiFairness
-----------------------------------------------------------------------------
\* Types; and a task is in the limiter exactly when its call is in acquire().
ApiTypeOK ==
  /\ TypeOK
  /\ phase \in [Tasks -> {"new", "acquiring", "awaiting", "backoff", "returned", "dropped"}]
  /\ op \in [Tasks -> Ops]
  /\ env \in [Tasks -> Envs]
  /\ attempt \in [Tasks -> 0..(AttemptLimit - 1)]
  /\ delay \in [Tasks -> 0..MaxDelay]
  /\ inbox \in [Tasks -> Statuses \cup {"none"}]
  /\ result \in [Tasks -> Results \cup {"none"}]
  /\ wire \subseteq [task : Tasks, env : Envs, attempt : 0..(AttemptLimit - 1), op : Ops]
  /\ book \in [Envs -> {"absent", "open", "cancelled"}]
  /\ sends \in [Tasks -> [Envs -> 0..(AttemptLimit + 1)]]
  /\ quiet \in [Tasks -> 0..MaxDelay]
  /\ missing \in [Tasks -> SUBSET Envs]
  /\ \A t \in Tasks : waiter[t] # "idle" <=> phase[t] = "acquiring"

\* What a call reports as done is done, whatever was lost, retried or raced:
\* a successful send_order means the server holds the order, a successful
\* cancel_orders that it is cancelled, a successful read that it is there.
SuccessIsReal ==
  \A t \in Tasks : result[t] = "success" =>
    CASE op[t] = "cancelOrders"  -> book["configured"] = "cancelled"
      [] op[t] = "uploadAppData" -> TRUE
      [] OTHER                   -> book[env[t]] # "absent"

\* A call never sends more than max_attempts requests to one environment
\* (max_attempts = 0 counts as 1), an upload no more than one.
AttemptsBounded ==
  \A t \in Tasks, e \in Envs :
    sends[t][e] <= IF op[t] = "uploadAppData" THEN 1 ELSE AttemptLimit

\* The second environment is asked only after the first said 404, and "not
\* found" is returned by get_order_multi_env only when both have said so.
MultiEnvSound ==
  \A t \in Tasks :
    /\ sends[t]["other"] > 0 => "configured" \in missing[t]
    /\ op[t] = "getOrderMultiEnv" /\ result[t] = "notFound" => missing[t] = Envs

\* Between two requests of one call to one environment at least the policy's
\* delay goes by, the wait for a token coming on top of it.
BackoffRespected ==
  [][\A t \in Tasks :
       Send(t) /\ attempt[t] > 0 => quiet[t] >= DelayForAttempt(attempt[t] - 1)]_apiVars

\* Every call that starts returns (or is dropped): the attempts are bounded,
\* the waiting in backoff and limiter ends, the client timeout ends the rest.
EveryCallReturns ==
  \A t \in Tasks : []<>(phase[t] \in {"returned", "dropped"})
=============================================================================
