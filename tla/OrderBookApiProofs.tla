------------------------- MODULE OrderBookApiProofs -------------------------
(***************************************************************************)
(* Proofs about the rate limiter (RateLimiter, RateLimiterWindow) and about*)
(* the client whose calls share it (OrderBookApi), for every number of     *)
(* tasks, every rate, capacity and policy, and every way the server and    *)
(* the network behave.                                                     *)
(***************************************************************************)
EXTENDS OrderBookApi, RateLimiterWindow, ArithmeticLemmas


(***************************************************************************)
(* Arithmetic.  The solver knows little of \div, so the two facts the      *)
(* proofs need of the rounded-up quotient are stated once.                 *)
(***************************************************************************)

\* Division rounds down: the quotient times the divisor is within one divisor
\* of the dividend.
LEMMA DivFact ==
  ASSUME NEW a \in Nat, NEW b \in Nat \ {0}
  PROVE  /\ a \div b \in Nat
         /\ b * (a \div b) <= a
         /\ a < b * (a \div b) + b
  OBVIOUS

\* Products of naturals are naturals (cited where a factor is primed).
LEMMA ProductNat == \A a, b \in Nat : a * b \in Nat
  OBVIOUS

\* The rounded-up quotient covers the dividend: sleeping that long lets the
\* whole missing amount flow in.
LEMMA CeilDivCovers ==
  ASSUME NEW a \in Nat, NEW b \in Nat \ {0}
  PROVE  CeilDiv(a, b) \in Nat /\ a <= b * CeilDiv(a, b)
  <1>1. a + b - 1 \in Nat
    OBVIOUS
  <1>. QED
    BY <1>1, DivFact DEF CeilDiv

\* The rounded-up quotient grows with the dividend: nobody sleeps longer than
\* a task that finds the bucket empty.
LEMMA CeilDivMonotone ==
  ASSUME NEW a \in Nat, NEW c \in Nat, NEW b \in Nat \ {0}, a <= c
  PROVE  CeilDiv(a, b) <= CeilDiv(c, b)
  <1>. DEFINE p == (a + b - 1) \div b
              q == (c + b - 1) \div b
  <1>1. /\ p \in Nat /\ q \in Nat
        /\ b * p <= a + b - 1
        /\ c + b - 1 < b * q + b
    <2>1. a + b - 1 \in Nat /\ c + b - 1 \in Nat
      OBVIOUS
    <2>. QED
      BY <2>1, DivFact
  <1>. HIDE DEF p, q
  <1>2. b * p < b * (q + 1)
    <2>1. b * (q + 1) = b * q + b
      BY <1>1
    <2>2. b * p \in Nat /\ b * q \in Nat
      BY <1>1
    <2>. QED
      BY <1>1, <2>1, <2>2
  <1>3. p < q + 1
    BY <1>1, <1>2
  <1>. QED
    BY <1>1, <1>3 DEF CeilDiv, p, q
-----------------------------------------------------------------------------
(***************************************************************************)
(* The bucket.                                                             *)
(***************************************************************************)

\* After FullAfter ticks any bucket is full, so saturating the clock there
\* loses nothing.
LEMMA FullAfterFills == FullAfter \in Nat /\ Capacity <= Rate * FullAfter
  BY LimiterAssumption, CeilDivCovers DEF FullAfter

\* The level an attempt finds is within the bucket.
LEMMA RefilledRange ==
  ASSUME TypeOK
  PROVE  Refilled \in 0..Capacity /\ tokens <= Refilled
  <1>1. Rate * sinceRefill \in Nat
    BY LimiterAssumption, FullAfterFills DEF TypeOK
  <1>. QED
    BY <1>1, LimiterAssumption DEF TypeOK, Refilled, LesserOf

\* The same of the next state.
LEMMA RefilledPrimed == TypeOK' => Refilled' \in 0..Capacity
  <1>. SUFFICES ASSUME TypeOK' PROVE Refilled' \in 0..Capacity
    OBVIOUS
  <1>1. sinceRefill' \in 0..FullAfter /\ tokens' \in 0..Capacity
    BY DEF TypeOK
  <1>2. Rate * sinceRefill' \in Nat
    <2>1. sinceRefill' \in Nat
      BY <1>1, FullAfterFills
    <2>. QED
      BY <2>1, LimiterAssumption, ProductNat
  <1>3. tokens' + Rate * sinceRefill' \in Nat
    BY <1>1, <1>2
  <1>. QED
    BY <1>3, LimiterAssumption DEF Refilled, LesserOf

\* A failed attempt sleeps for at least a tick and at most as long as an empty
\* bucket takes to gain a token; and what flows in while it sleeps completes
\* the token.
LEMMA WaitForRange ==
  ASSUME NEW level \in Nat, level < Unit
  PROVE  /\ WaitFor(level) \in 0..CeilDiv(Unit, Rate)
         /\ Unit <= level + Rate * WaitFor(level)
  <1>1. Unit - level \in Nat /\ Unit - level <= Unit
    BY LimiterAssumption
  <1>2. /\ WaitFor(level) \in Nat
        /\ Unit - level <= Rate * WaitFor(level)
    BY <1>1, CeilDivCovers, LimiterAssumption DEF WaitFor
  <1>3. CeilDiv(Unit, Rate) \in Nat
    BY CeilDivCovers, LimiterAssumption
  <1>4. WaitFor(level) <= CeilDiv(Unit, Rate)
    BY <1>1, CeilDivMonotone, LimiterAssumption DEF WaitFor
  <1>5. Rate * WaitFor(level) \in Nat
    BY <1>2, LimiterAssumption
  <1>. QED
    BY <1>2, <1>3, <1>4, <1>5, LimiterAssumption

\* One tick adds Rate to the level, up to the capacity: the lazy refill of
\* acquire() cannot be told from an eager one.
LEMMA TickRefills ==
  ASSUME TypeOK, Tick
  PROVE  Refilled' = LesserOf(Capacity, Refilled + Rate)
  <1>1. /\ sinceRefill \in Nat /\ tokens \in Nat /\ tokens <= Capacity
        /\ sinceRefill <= FullAfter /\ FullAfter \in Nat
        /\ Rate \in Nat /\ Capacity \in Nat
    BY LimiterAssumption, FullAfterFills DEF TypeOK
  <1>2. tokens' = tokens /\ sinceRefill' = LesserOf(sinceRefill + 1, FullAfter)
    BY DEF Tick
  <1>3. CASE sinceRefill < FullAfter
    <2>1. sinceRefill' = sinceRefill + 1
      BY <1>1, <1>2, <1>3 DEF LesserOf
    <2>2. Rate * (sinceRefill + 1) = Rate * sinceRefill + Rate
      BY <1>1
    <2>3. Rate * sinceRefill \in Nat
      BY <1>1
    <2>. QED
      BY <1>1, <1>2, <2>1, <2>2, <2>3 DEF Refilled, LesserOf
  <1>4. CASE sinceRefill = FullAfter
    <2>1. sinceRefill' = FullAfter
      BY <1>1, <1>2, <1>4 DEF LesserOf
    <2>2. Rate * FullAfter \in Nat /\ Capacity <= Rate * FullAfter
      BY <1>1, FullAfterFills
    <2>. QED
      BY <1>1, <1>2, <1>4, <2>1, <2>2 DEF Refilled, LesserOf
  <1>. QED
    BY <1>1, <1>3, <1>4

\* The critical section leaves as level exactly what it stored in tokens.
LEMMA StoredLevel ==
  ASSUME TypeOK, NEW level \in 0..Capacity,
         tokens' = level, sinceRefill' = 0
  PROVE  Refilled' = level
  <1>1. Rate * sinceRefill' = 0
    BY LimiterAssumption
  <1>. QED
    BY <1>1, LimiterAssumption DEF Refilled, LesserOf
-----------------------------------------------------------------------------
\* A new limiter has a full bucket and nobody in acquire().
LEMMA TypeInit == Init => TypeOK
  <1>1. CeilDiv(Unit, Rate) \in Nat
    BY CeilDivCovers, LimiterAssumption
  <1>. QED
    BY <1>1, FullAfterFills, LimiterAssumption DEF Init, TypeOK

\* Every step of the limiter keeps the types.
LEMMA TypeStep == TypeOK /\ [Next]_vars => TypeOK'
  <1> SUFFICES ASSUME TypeOK, [Next]_vars
               PROVE  TypeOK'
    OBVIOUS
  <1>0. /\ CeilDiv(Unit, Rate) \in Nat
        /\ FullAfter \in Nat
        /\ Refilled \in 0..Capacity
    BY CeilDivCovers, FullAfterFills, RefilledRange, LimiterAssumption
  <1>1. CASE Tick
    <2>1. sinceRefill' \in 0..FullAfter
      BY <1>0, <1>1 DEF Tick, TypeOK, LesserOf
    <2>2. timer' \in [Tasks -> 0..CeilDiv(Unit, Rate)]
      BY <1>0, <1>1 DEF Tick, TypeOK
    <2>. QED
      BY <1>1, <2>1, <2>2 DEF Tick, TypeOK
  <1>2. ASSUME NEW t \in Tasks, Call(t)
        PROVE  TypeOK'
    BY <1>2 DEF Call, TypeOK
  <1>3. ASSUME NEW t \in Tasks, Grant(t)
        PROVE  TypeOK'
    <2>1. tokens' \in 0..Capacity
      BY <1>0, <1>3, LimiterAssumption DEF Grant
    <2>. QED
      BY <1>0, <1>3, <2>1 DEF Grant, TypeOK
  <1>4. ASSUME NEW t \in Tasks, Sleep(t)
        PROVE  TypeOK'
    <2>1. WaitFor(Refilled) \in 0..CeilDiv(Unit, Rate)
      BY <1>0, <1>4, WaitForRange, LimiterAssumption DEF Sleep
    <2>. QED
      BY <1>0, <1>4, <2>1 DEF Sleep, TypeOK
  <1>5. ASSUME NEW t \in Tasks, Wake(t)
        PROVE  TypeOK'
    BY <1>5 DEF Wake, TypeOK
  <1>6. ASSUME NEW t \in Tasks, Cancel(t)
        PROVE  TypeOK'
    BY <1>0, <1>6 DEF Cancel, TypeOK
  <1>7. CASE UNCHANGED vars
    BY <1>7 DEF vars, TypeOK
  <1>. QED
    BY <1>1, <1>2, <1>3, <1>4, <1>5, <1>6, <1>7 DEF Next

\* Types: the bucket never holds more than its capacity nor less than nothing,
\* and no sleep exceeds the time an empty bucket needs for a token.
THEOREM TypeCorrect == Spec => []TypeOK
  BY TypeInit, TypeStep, PTL DEF Spec
-----------------------------------------------------------------------------
\* The implementation step by step: an attempt that finds a token spends it, one
\* that does not leaves the budget alone, and a tick refills it.
LEMMA BudgetStep ==
  ASSUME TypeOK, [Next]_vars
  PROVE  [Budget!ANext]_(Budget!absVars)
  <1>. USE DEF Budget!ANext, Budget!absVars
  <1>0. Refilled \in 0..Capacity
    BY RefilledRange
  <1>1. CASE Tick
    <2>1. Refilled' = LesserOf(Capacity, Refilled + Rate)
      BY <1>1, TickRefills
    <2>. QED
      BY <1>1, <2>1 DEF Tick, Budget!ATick, Budget!Smaller, LesserOf
  <1>2. ASSUME NEW t \in Tasks, Call(t)
        PROVE  Budget!ACall(t)
    <2>1. Refilled' = Refilled
      BY <1>2 DEF Call, Refilled
    <2>. QED
      BY <1>2, <2>1 DEF Call, Budget!ACall, TypeOK
  <1>3. ASSUME NEW t \in Tasks, Grant(t)
        PROVE  Budget!AGrant(t)
    <2>1. Refilled - Unit \in 0..Capacity
      BY <1>0, <1>3, LimiterAssumption DEF Grant
    <2>2. Refilled' = Refilled - Unit
      BY <1>3, <2>1, StoredLevel DEF Grant
    <2>. QED
      BY <1>3, <2>2 DEF Grant, Budget!AGrant, TypeOK
  <1>4. ASSUME NEW t \in Tasks, Sleep(t)
        PROVE  UNCHANGED Budget!absVars
    <2>1. Refilled' = Refilled
      BY <1>0, <1>4, StoredLevel DEF Sleep
    <2>. QED
      BY <1>4, <2>1 DEF Sleep, TypeOK
  <1>5. ASSUME NEW t \in Tasks, Wake(t)
        PROVE  UNCHANGED Budget!absVars
    <2>1. Refilled' = Refilled
      BY <1>5 DEF Wake, Refilled
    <2>. QED
      BY <1>5, <2>1 DEF Wake, TypeOK
  <1>6. ASSUME NEW t \in Tasks, Cancel(t)
        PROVE  Budget!ACancel(t)
    <2>1. Refilled' = Refilled
      BY <1>6 DEF Cancel, Refilled
    <2>. QED
      BY <1>6, <2>1 DEF Cancel, Budget!ACancel, TypeOK
  <1>7. CASE UNCHANGED vars
    BY <1>7 DEF vars, Refilled
  <1>. QED
    BY <1>1, <1>2, <1>3, <1>4, <1>5, <1>6, <1>7 DEF Next

\* The limiter implements the request budget.
THEOREM LimiterImplementsBudget == Spec => ImplementsBudget
  <1>1. Init => Budget!AInit
    <2>. SUFFICES ASSUME Init PROVE Budget!AInit
      OBVIOUS
    <2>1. Rate * sinceRefill = 0
      BY LimiterAssumption DEF Init
    <2>2. Refilled = Capacity
      BY <2>1, LimiterAssumption DEF Init, Refilled, LesserOf
    <2>. QED
      BY <2>2 DEF Init, Budget!AInit
  <1>2. TypeOK /\ [Next]_vars => [Budget!ANext]_(Budget!absVars)
    BY BudgetStep
  <1>. QED
    BY <1>1, <1>2, TypeCorrect, PTL DEF Spec, ImplementsBudget, Budget!ASpec
-----------------------------------------------------------------------------
\* The history variables do not change what the limiter does.
LEMMA WindowWatches == WNext => [Next]_vars
  BY DEF WNext, WTick, OpenWindow, WGrant, WOther, Next

\* Types of the limiter and of its history variables.
THEOREM WindowTypeCorrect == WSpec => []WTypeOK
  <1>1. WInit => WTypeOK
    <2>1. Init => TypeOK
      BY TypeInit
    <2>. QED
      BY <2>1, WindowAssumption DEF WInit, WTypeOK
  <1>2. WTypeOK /\ [WNext]_windowVars => WTypeOK'
    <2> SUFFICES ASSUME WTypeOK, [WNext]_windowVars
                 PROVE  WTypeOK'
      OBVIOUS
    <2>1. TypeOK'
      <3>1. [Next]_vars
        BY WindowWatches DEF windowVars, vars
      <3>. QED
        BY <3>1, TypeStep DEF WTypeOK
    <2>2. elapsed' \in 0..MaxWindow /\ admitted' \in Nat
      BY LimiterAssumption, WindowAssumption
      DEF WTypeOK, WNext, WTick, OpenWindow, WGrant, WOther, windowVars
    <2>. QED
      BY <2>1, <2>2 DEF WTypeOK
  <1>. QED
    BY <1>1, <1>2, PTL DEF WSpec

\* The throttle: no interval of any execution admits more than a full bucket
\* and what flowed in.  WindowBound alone is not inductive, since it says
\* nothing of what is left in the bucket; WindowInv adds it.
THEOREM Throttled == WSpec => [](WindowInv /\ WindowBound)
  <1>1. WInit => WindowInv
    <2>. SUFFICES ASSUME WInit PROVE WindowInv
      OBVIOUS
    <2>1. TypeOK
      BY TypeInit DEF WInit
    <2>2. Refilled \in 0..Capacity /\ Rate * elapsed = 0
      BY <2>1, RefilledRange, LimiterAssumption DEF WInit
    <2>. QED
      BY <2>2, LimiterAssumption DEF WInit, WindowInv
  <1>2. WTypeOK /\ WindowInv /\ [WNext]_windowVars => WindowInv'
    <2> SUFFICES ASSUME WTypeOK, WindowInv, [WNext]_windowVars
                 PROVE  WindowInv'
      OBVIOUS
    <2>0. /\ TypeOK
          /\ Refilled \in 0..Capacity
          /\ elapsed \in Nat /\ admitted \in Nat
          /\ Rate * elapsed \in Nat
      BY RefilledRange, LimiterAssumption DEF WTypeOK
    <2>t. TypeOK'
      <3>1. [Next]_vars
        BY WindowWatches DEF windowVars, vars
      <3>. QED
        BY <2>0, <3>1, TypeStep
    <2>r. Refilled' \in 0..Capacity
      BY <2>t, RefilledPrimed
    <2>1. CASE WTick
      <3>1. CASE elapsed < MaxWindow
        <4>1. Refilled' <= Refilled + Rate
          BY <2>0, <2>1, TickRefills, LimiterAssumption DEF WTick, LesserOf
        <4>2. Rate * elapsed' = Rate * elapsed + Rate
          <5>1. Rate * (elapsed + 1) = Rate * elapsed + Rate
            BY <2>0, LimiterAssumption
          <5>. QED
            BY <2>1, <3>1, <5>1 DEF WTick
        <4>3. admitted' = admitted
          BY <2>1, <3>1 DEF WTick
        <4>. QED
          BY <2>0, <2>r, <4>1, <4>2, <4>3, LimiterAssumption DEF WindowInv
      <3>2. CASE ~ (elapsed < MaxWindow)
        <4>1. admitted' = 0 /\ Rate * elapsed' = 0
          BY <2>1, <3>2, LimiterAssumption DEF WTick
        <4>. QED
          BY <2>r, <4>1, LimiterAssumption DEF WindowInv
      <3>. QED
        BY <3>1, <3>2
    <2>2. CASE OpenWindow
      <3>1. admitted' = 0 /\ Rate * elapsed' = 0
        BY <2>2, LimiterAssumption DEF OpenWindow
      <3>. QED
        BY <2>r, <3>1, LimiterAssumption DEF WindowInv
    <2>3. ASSUME NEW t \in Tasks, WGrant(t)
          PROVE  WindowInv'
      <3>1. Refilled' = Refilled - Unit
        BY <2>0, <2>3, StoredLevel, LimiterAssumption DEF WGrant, Grant
      <3>. QED
        BY <2>0, <2>3, <3>1, LimiterAssumption DEF WGrant, WindowInv
    <2>4. ASSUME NEW t \in Tasks, WOther(t)
          PROVE  WindowInv'
      <3>1. Refilled' = Refilled
        <4>1. CASE Sleep(t)
          BY <2>0, <4>1, StoredLevel DEF Sleep
        <4>2. CASE Call(t) \/ Wake(t) \/ Cancel(t)
          BY <4>2 DEF Call, Wake, Cancel, Refilled
        <4>. QED
          BY <2>4, <4>1, <4>2 DEF WOther
      <3>. QED
        BY <2>4, <3>1 DEF WOther, WindowInv
    <2>5. CASE UNCHANGED windowVars
      BY <2>5 DEF windowVars, WindowInv, Refilled
    <2>. QED
      BY <2>1, <2>2, <2>3, <2>4, <2>5 DEF WNext
  <1>3. WTypeOK /\ WindowInv => WindowBound
    <2>. SUFFICES ASSUME WTypeOK, WindowInv PROVE WindowBound
      OBVIOUS
    <2>1. Refilled \in Nat /\ admitted \in Nat /\ Rate * elapsed \in Nat
      BY RefilledRange, LimiterAssumption DEF WTypeOK
    <2>. QED
      BY <2>1, LimiterAssumption DEF WindowInv, WindowBound
  <1>. QED
    BY <1>1, <1>2, <1>3, WindowTypeCorrect, PTL DEF WSpec
-----------------------------------------------------------------------------
(***************************************************************************)
(* The client.                                                             *)
(***************************************************************************)


Phases == {"new", "acquiring", "awaiting", "backoff", "returned", "dropped"}

\* The types of the client's variables and of the server's.
ClientTypes ==
  /\ phase \in [Tasks -> Phases]
  /\ op \in [Tasks -> AllOps]
  /\ env \in [Tasks -> Envs]
  /\ attempt \in [Tasks -> Nat]
  /\ inbox \in [Tasks -> Statuses \cup {"none"}]
  /\ result \in [Tasks -> Results \cup {"none"}]
  /\ wire \in SUBSET [task : Tasks, env : Envs, attempt : Nat, op : AllOps]
  /\ book \in [Envs -> {"absent", "open", "cancelled"}]
  /\ sends \in [Tasks -> [Envs -> Nat]]
  /\ missing \in [Tasks -> SUBSET Envs]

\* The server has done what the call asked of the environment it talks to.
Done(t) ==
  /\ op[t] = "cancelOrders" => book[env[t]] = "cancelled"
  /\ op[t] \in {"getOrder", "getOrderMultiEnv", "sendOrder"} => book[env[t]] # "absent"

\* A request knows what its call asks; and the answer that reaches the client, or
\* is returned, is a success only if it is done.
Truthful ==
  /\ \A m \in wire : m.op = op[m.task]
  /\ \A t \in Tasks :
       /\ env[t] = "other" => op[t] = "getOrderMultiEnv"
       /\ inbox[t] \in {"success", "garbled"} => Done(t)
       /\ result[t] = "success" => phase[t] = "returned" /\ Done(t)

\* Whoever has turned to the other environment knows the first to lack the order.
Asked ==
  \A t \in Tasks :
    /\ env[t] = "configured" => sends[t]["other"] = 0
    /\ env[t] = "other" => "configured" \in missing[t]
    /\ op[t] = "getOrderMultiEnv" /\ result[t] = "notFound" => missing[t] = Envs

\* What was sent is counted by the attempt.
Counted ==
  \A t \in Tasks :
    /\ attempt[t] < AttemptLimit
    /\ op[t] = "uploadAppData" =>
         /\ phase[t] \notin {"acquiring", "backoff"}
         /\ env[t] = "configured" /\ sends[t]["configured"] <= 1
    /\ phase[t] = "new" => attempt[t] = 0 /\ env[t] = "configured" /\ sends[t]["configured"] = 0
    /\ phase[t] = "acquiring" => sends[t][env[t]] <= attempt[t]
    /\ phase[t] \in {"awaiting", "backoff"} => sends[t][env[t]] <= attempt[t] + 1
    /\ phase[t] = "backoff" => attempt[t] + 1 < AttemptLimit
    /\ \A e \in Envs : sends[t][e] <= AttemptLimit
-----------------------------------------------------------------------------
LEMMA Limit == AttemptLimit \in Nat \ {0}
  BY PolicyAssumption DEF AttemptLimit

\* The steps, with the task that takes them.
LEMMA Steps ==
  ASSUME ApiNext,
         NEW P,
         ApiTick => P,
         \A t \in Tasks : Begin(t) \/ BeginUpload(t) \/ Send(t) \/ WaitForToken(t) => P,
         \A t \in Tasks : ReceiveRetryable(t) \/ TransportError(t) => P,
         \A t \in Tasks : ReceiveFinal(t) \/ TryOtherEnv(t) => P,
         \A t \in Tasks : Retry(t) \/ Drop(t) => P,
         \A m \in wire : Serve(m) \/ Refuse(m) => P
  PROVE  P
  BY DEF ApiNext, ClientStep

LEMMA TypesInit == ApiInit => ClientTypes
<1> SUFFICES ASSUME ApiInit PROVE ClientTypes
  OBVIOUS
<1>1. op \in [Tasks -> AllOps]
  BY PolicyAssumption DEF ApiInit
<1>2. book \in [Envs -> {"absent", "open", "cancelled"}]
  BY DEF ApiInit
<1>3. /\ phase \in [Tasks -> Phases] /\ env \in [Tasks -> Envs]
      /\ inbox \in [Tasks -> Statuses \cup {"none"}] /\ result \in [Tasks -> Results \cup {"none"}]
  BY DEF ApiInit, Phases, Envs
<1>4. /\ attempt \in [Tasks -> Nat] /\ sends \in [Tasks -> [Envs -> Nat]]
      /\ wire = {} /\ missing \in [Tasks -> SUBSET Envs]
  BY DEF ApiInit
<1> QED
  BY <1>1, <1>2, <1>3, <1>4 DEF ClientTypes

LEMMA AnswerType ==
  ASSUME NEW o \in AllOps, NEW known \in {"absent", "open", "cancelled"}
  PROVE  /\ Answer(o, known) \in {"success", "rejected", "notFound"}
         /\ Effect(o, known) \in {"absent", "open", "cancelled"}
         /\ known # "absent" => Effect(o, known) # "absent"
         /\ known = "cancelled" => Effect(o, known) = "cancelled"
         /\ Answer(o, known) = "success" =>
              /\ o = "cancelOrders" => Effect(o, known) = "cancelled"
              /\ o \in {"getOrder", "getOrderMultiEnv", "sendOrder"} => Effect(o, known) # "absent"
  BY DEF Answer, Effect, AllOps

LEMMA TypesStep == ClientTypes /\ [ApiNext]_apiVars => ClientTypes'
<1> SUFFICES ASSUME ClientTypes, ApiNext PROVE ClientTypes'
  BY DEF ClientTypes, apiVars, clientVars
<1>1. ApiTick => ClientTypes'
  BY DEF ApiTick, ClientTypes
<1>2. ASSUME NEW t \in Tasks, Begin(t) \/ BeginUpload(t) \/ Send(t) \/ WaitForToken(t)
      PROVE  ClientTypes'
  <2>1. Request(t) \in [task : Tasks, env : Envs, attempt : Nat, op : AllOps]
    BY DEF Request, ClientTypes
  <2>2. ASSUME PutOnWire(t) PROVE phase' \in [Tasks -> Phases] /\ sends' \in [Tasks -> [Envs -> Nat]] /\ wire' \in SUBSET [task : Tasks, env : Envs, attempt : Nat, op : AllOps]
    BY <2>1, <2>2, Limit DEF PutOnWire, ClientTypes, Phases, LesserOf
  <2> QED
    BY <1>2, <2>2 DEF Begin, BeginUpload, Send, WaitForToken, ClientTypes, Phases, clientVars
<1>3. ASSUME NEW t \in Tasks, ReceiveRetryable(t) \/ TransportError(t) PROVE ClientTypes'
  BY <1>3 DEF ReceiveRetryable, TransportError, FailTransiently, Return, StartBackoff, ClientTypes, Phases,
     Statuses, Results
<1>4. ASSUME NEW t \in Tasks, ReceiveFinal(t) \/ TryOtherEnv(t) PROVE ClientTypes'
  <2>1. NoteMissing(t) => missing' \in [Tasks -> SUBSET Envs]
    BY DEF NoteMissing, ClientTypes
  <2>2. CASE ReceiveFinal(t)
    <3>1. ResultOf(t) \in Results
      BY <2>2 DEF ReceiveFinal, ResultOf, Results
    <3> QED
      BY <2>1, <2>2, <3>1 DEF ReceiveFinal, Return, ClientTypes, Phases
  <2>3. CASE TryOtherEnv(t)
    BY <2>1, <2>3 DEF TryOtherEnv, ClientTypes, Phases, Envs
  <2> QED
    BY <1>4, <2>2, <2>3
<1>5. ASSUME NEW t \in Tasks, Retry(t) \/ Drop(t) PROVE ClientTypes'
  <2>1. CASE Retry(t)
    BY <2>1 DEF Retry, ClientTypes, Phases
  <2>2. CASE Drop(t)
    BY <2>2 DEF Drop, ClientTypes, Phases
  <2> QED
    BY <1>5, <2>1, <2>2
<1>6. ASSUME NEW m \in wire, Serve(m) \/ Refuse(m) PROVE ClientTypes'
  <2>1. m.task \in Tasks /\ m.env \in Envs /\ m.op \in AllOps
    BY DEF ClientTypes
  <2>2. Answer(m.op, book[m.env]) \in Statuses /\ Effect(m.op, book[m.env]) \in {"absent", "open", "cancelled"}
    BY <2>1, AnswerType DEF ClientTypes, Statuses
  <2>3. \A s \in Statuses : Reply(m, s) => inbox' \in [Tasks -> Statuses \cup {"none"}]
    BY <2>1 DEF Reply, ClientTypes
  <2>4. inbox' \in [Tasks -> Statuses \cup {"none"}]
    BY <1>6, <2>2, <2>3 DEF Serve, Refuse, Statuses
  <2> QED
    BY <1>6, <2>1, <2>2, <2>4 DEF Serve, Refuse, ClientTypes
<1> QED
  BY <1>1, <1>2, <1>3, <1>4, <1>5, <1>6, Steps
-----------------------------------------------------------------------------
LEMMA TruthfulInit == ApiInit => Truthful
  BY DEF ApiInit, Truthful

\* Only Serve and Refuse touch the servers' books, and never undo what is done.
LEMMA TruthfulStep == ClientTypes /\ Truthful /\ [ApiNext]_apiVars => Truthful'
<1> SUFFICES ASSUME ClientTypes, Truthful, ApiNext PROVE Truthful'
  BY DEF Truthful, Done, apiVars, clientVars
<1>1. ApiTick => Truthful'
  BY DEF ApiTick, Truthful, Done
<1>2. ASSUME NEW t \in Tasks, Begin(t) \/ BeginUpload(t) \/ Send(t) \/ WaitForToken(t)
      PROVE  Truthful'
  <2>1. UNCHANGED <<op, env, inbox, result, book>>
    BY <1>2 DEF Begin, BeginUpload, Send, WaitForToken, clientVars
  <2>2. wire' = wire \/ wire' = wire \cup {Request(t)}
    BY <1>2 DEF Begin, BeginUpload, Send, WaitForToken, PutOnWire, clientVars
  <2>3. \A u \in Tasks : phase[u] = "returned" => phase'[u] = "returned"
    BY <1>2 DEF Begin, BeginUpload, Send, WaitForToken, PutOnWire, clientVars, ClientTypes
  <2> QED
    BY <2>1, <2>2, <2>3 DEF Truthful, Done, Request
<1>3. ASSUME NEW t \in Tasks, ReceiveRetryable(t) \/ TransportError(t) PROVE Truthful'
  BY <1>3 DEF ReceiveRetryable, TransportError, FailTransiently, Return, StartBackoff, ClientTypes, Truthful, Done
<1>4. ASSUME NEW t \in Tasks, ReceiveFinal(t) \/ TryOtherEnv(t) PROVE Truthful'
  <2>1. CASE ReceiveFinal(t)
    <3>1. ResultOf(t) = "success" => Done(t)
      BY <2>1 DEF ReceiveFinal, ResultOf, Truthful
    <3> QED
      BY <2>1, <3>1 DEF ReceiveFinal, Return, ClientTypes, Truthful, Done
  <2>2. CASE TryOtherEnv(t)
    <3>1. op[t] = "getOrderMultiEnv"
      BY <2>2 DEF TryOtherEnv, TriesOtherEnv
    <3> QED
      BY <2>2, <3>1 DEF TryOtherEnv, ClientTypes, Truthful, Done
  <2> QED
    BY <1>4, <2>1, <2>2
<1>5. ASSUME NEW t \in Tasks, Retry(t) \/ Drop(t) PROVE Truthful'
  BY <1>5 DEF Retry, Drop, ClientTypes, Truthful, Done
<1>6. ASSUME NEW m \in wire, Serve(m) \/ Refuse(m) PROVE Truthful'
  <2>1. m.task \in Tasks /\ m.env \in Envs /\ m.op \in AllOps /\ m.op = op[m.task]
    BY DEF ClientTypes, Truthful
  <2>2. UNCHANGED <<op, env, phase, result>> /\ wire' = wire \ {m}
    BY <1>6 DEF Serve, Refuse
  <2>3. /\ book[m.env] \in {"absent", "open", "cancelled"}
        /\ book' = book \/ book' = [book EXCEPT ![m.env] = Effect(m.op, @)]
    BY <1>6, <2>1 DEF Serve, Refuse, ClientTypes
  <2>4. \A t \in Tasks : Done(t) => Done(t)'
    BY <2>1, <2>2, <2>3, AnswerType DEF Done, ClientTypes
  <2>5. \A t \in Tasks : inbox'[t] \in {"success", "garbled"} => inbox'[t] = inbox[t] \/ Done(t)'
    <3>1. CASE Refuse(m)
      BY <2>1, <3>1 DEF Refuse, Reply, ClientTypes
    <3>2. CASE Serve(m)
      <4> DEFINE s == Answer(m.op, book[m.env])
      <4>1. PICK r \in {s, "retryable"} \cup (IF s = "success" THEN {"garbled"} ELSE {}) : Reply(m, r)
        BY <3>2 DEF Serve
      <4>2. s \in {"success", "rejected", "notFound"}
        BY <2>1, <2>3, AnswerType
      <4>3. s = "success" /\ Awaited(m) => Done(m.task)'
        BY <2>1, <2>2, <2>3, <3>2, AnswerType DEF Serve, Done, Awaited, ClientTypes
      <4> HIDE DEF s
      <4>4. r \in {"success", "garbled"} => s = "success"
        BY <4>1, <4>2
      <4> QED
        BY <2>1, <4>1, <4>3, <4>4 DEF Reply, ClientTypes
    <3> QED
      BY <1>6, <3>1, <3>2
  <2> QED
    BY <2>2, <2>4, <2>5 DEF Truthful
<1> QED
  BY <1>1, <1>2, <1>3, <1>4, <1>5, <1>6, Steps
-----------------------------------------------------------------------------
\* No call has sent, asked or returned anything at the start.
LEMMA NothingYet ==
  ASSUME ApiInit, NEW t \in Tasks
  PROVE  /\ phase[t] = "new" /\ env[t] = "configured" /\ attempt[t] = 0 /\ result[t] = "none"
         /\ \A e \in Envs : sends[t][e] = 0
  BY DEF ApiInit

LEMMA AskedInit == ApiInit => Asked
  BY NothingYet DEF Asked, Envs

LEMMA AskedStep == ClientTypes /\ Truthful /\ Asked /\ [ApiNext]_apiVars => Asked'
<1> SUFFICES ASSUME ClientTypes, Truthful, Asked, ApiNext PROVE Asked'
  BY DEF Asked, apiVars, clientVars
<1>1. ApiTick => Asked'
  BY DEF ApiTick, Asked
<1>2. ASSUME NEW t \in Tasks, Begin(t) \/ BeginUpload(t) \/ Send(t) \/ WaitForToken(t)
      PROVE  Asked'
  <2>1. UNCHANGED <<op, env, result, missing>>
    BY <1>2 DEF Begin, BeginUpload, Send, WaitForToken, clientVars
  <2>2. \A u \in Tasks : env[u] = "configured" => sends'[u]["other"] = sends[u]["other"]
    BY <1>2 DEF Begin, BeginUpload, Send, WaitForToken, PutOnWire, clientVars, ClientTypes, Envs
  <2> QED
    BY <2>1, <2>2 DEF Asked
<1>3. ASSUME NEW t \in Tasks, ReceiveRetryable(t) \/ TransportError(t) PROVE Asked'
  BY <1>3 DEF ReceiveRetryable, TransportError, FailTransiently, Return, StartBackoff, ClientTypes, Asked
<1>4. ASSUME NEW t \in Tasks, ReceiveFinal(t) PROVE Asked'
  <2>1. missing' = [missing EXCEPT ![t] = IF inbox[t] = "notFound" THEN @ \cup {env[t]} ELSE @]
    BY <1>4 DEF ReceiveFinal, NoteMissing
  <2>2. \A u \in Tasks : missing[u] \subseteq missing'[u] /\ missing'[u] \subseteq Envs
    BY <2>1 DEF ClientTypes
  <2>3. ResultOf(t) = "notFound" => inbox[t] = "notFound"
    BY <1>4 DEF ReceiveFinal, ResultOf
  <2>4. op[t] = "getOrderMultiEnv" /\ inbox[t] = "notFound" => env[t] = "other"
    BY <1>4 DEF ReceiveFinal, TriesOtherEnv, ClientTypes, Envs
  <2>5. op[t] = "getOrderMultiEnv" /\ inbox[t] = "notFound" => missing'[t] = Envs
    BY <2>1, <2>2, <2>4 DEF Asked, ClientTypes, Envs
  <2>6. UNCHANGED <<op, env, sends>> /\ result' = [result EXCEPT ![t] = ResultOf(t)]
    BY <1>4 DEF ReceiveFinal, Return
  <2>7. \A u \in Tasks : missing[u] = Envs => missing'[u] = Envs
    BY <2>2
  <2> QED
    BY <2>2, <2>3, <2>5, <2>6, <2>7 DEF Asked, ClientTypes
<1>5. ASSUME NEW t \in Tasks, TryOtherEnv(t) PROVE Asked'
  <2>1. env[t] = "configured" /\ inbox[t] = "notFound"
    BY <1>5 DEF TryOtherEnv, TriesOtherEnv
  <2>2. missing' = [missing EXCEPT ![t] = @ \cup {"configured"}]
    BY <1>5, <2>1 DEF TryOtherEnv, NoteMissing
  <2>3. \A u \in Tasks : missing[u] \subseteq missing'[u] /\ missing'[u] \subseteq Envs
    BY <2>2 DEF ClientTypes, Envs
  <2>4. \A u \in Tasks : missing[u] = Envs => missing'[u] = Envs
    BY <2>3
  <2>5. UNCHANGED <<op, sends, result>> /\ env' = [env EXCEPT ![t] = "other"]
    BY <1>5 DEF TryOtherEnv
  <2>6. "configured" \in missing'[t]
    BY <2>2 DEF ClientTypes
  <2> QED
    BY <2>3, <2>4, <2>5, <2>6 DEF Asked, ClientTypes
<1>6. ASSUME NEW t \in Tasks, Retry(t) \/ Drop(t) PROVE Asked'
  BY <1>6 DEF Retry, Drop, Asked
<1>7. ASSUME NEW m \in wire, Serve(m) \/ Refuse(m) PROVE Asked'
  BY <1>7 DEF Serve, Refuse, Asked
<1> QED
  BY <1>1, <1>2, <1>3, <1>4, <1>5, <1>6, <1>7, Steps
-----------------------------------------------------------------------------
LEMMA CountedInit == ApiInit => Counted
<1> SUFFICES ASSUME ApiInit, NEW t \in Tasks
             PROVE  /\ phase[t] = "new" /\ env[t] = "configured" /\ attempt[t] = 0
                    /\ sends[t]["configured"] = 0
                    /\ sends[t]["configured"] <= 1
                    /\ attempt[t] < AttemptLimit
                    /\ \A e \in Envs : sends[t][e] <= AttemptLimit
  BY DEF Counted
<1>1. phase[t] = "new" /\ env[t] = "configured" /\ attempt[t] = 0 /\ \A e \in Envs : sends[t][e] = 0
  BY NothingYet
<1> QED
  BY <1>1, Limit DEF Envs

LEMMA CountedStep == ClientTypes /\ Truthful /\ Asked /\ Counted /\ [ApiNext]_apiVars => Counted'
<1> SUFFICES ASSUME ClientTypes, Truthful, Asked, Counted, ApiNext PROVE Counted'
  BY DEF Counted, apiVars, clientVars
<1>1. ApiTick => Counted'
  BY DEF ApiTick, Counted
<1>2. ASSUME NEW t \in Tasks, Begin(t) \/ WaitForToken(t) PROVE Counted'
  BY <1>2 DEF Begin, WaitForToken, clientVars, ClientTypes, Counted
<1>3. ASSUME NEW t \in Tasks, BeginUpload(t) \/ Send(t) PROVE Counted'
  <2>1. PutOnWire(t) /\ UNCHANGED <<op, env, attempt>> /\ phase[t] \in {"new", "acquiring"}
    BY <1>3 DEF BeginUpload, Send
  <2>2. /\ sends[t][env[t]] \in Nat /\ attempt[t] \in Nat
        /\ sends[t][env[t]] <= attempt[t]
        /\ op[t] = "uploadAppData" => sends[t][env[t]] = 0 /\ env[t] = "configured"
    BY <1>3 DEF BeginUpload, Send, ClientTypes, Counted
  <2>3. /\ phase' = [phase EXCEPT ![t] = "awaiting"]
        /\ sends' = [sends EXCEPT ![t][env[t]] = @ + 1]
    <3>1. LesserOf(sends[t][env[t]] + 1, AttemptLimit + 1) = sends[t][env[t]] + 1
      BY <2>2, Limit DEF LesserOf, Counted
    <3> QED
      BY <2>1, <3>1 DEF PutOnWire
  <2>4. /\ sends'[t][env[t]] = sends[t][env[t]] + 1
        /\ \A e \in Envs : e # env[t] => sends'[t][e] = sends[t][e]
        /\ \A u \in Tasks : u # t => sends'[u] = sends[u] /\ phase'[u] = phase[u]
        /\ phase'[t] = "awaiting"
    BY <2>3 DEF ClientTypes
  <2>5. sends'[t][env[t]] <= AttemptLimit
    BY <2>2, <2>4, Limit DEF Counted
  <2>6. \A e \in Envs : sends'[t][e] <= AttemptLimit
    BY <2>4, <2>5 DEF Counted
  <2>7. sends'[t][env[t]] <= attempt[t] + 1
    BY <2>2, <2>4
  <2>8. op[t] = "uploadAppData" => env[t] = "configured" /\ sends'[t]["configured"] <= 1
    BY <2>2, <2>4
  <2> QED
    BY <2>1, <2>4, <2>6, <2>7, <2>8 DEF Counted
<1>4. ASSUME NEW t \in Tasks, ReceiveRetryable(t) \/ TransportError(t) PROVE Counted'
  <2>1. UNCHANGED <<op, env, attempt, sends>> /\ phase[t] = "awaiting"
    BY <1>4 DEF ReceiveRetryable, TransportError, FailTransiently
  <2>2. \/ phase' = [phase EXCEPT ![t] = "returned"]
        \/ phase' = [phase EXCEPT ![t] = "backoff"] /\ ~ IsLastAttempt(t)
    BY <1>4 DEF ReceiveRetryable, TransportError, FailTransiently, Return, StartBackoff
  <2>3. ~ IsLastAttempt(t) => attempt[t] + 1 < AttemptLimit /\ op[t] # "uploadAppData"
    BY Limit DEF IsLastAttempt, ClientTypes
  <2> QED
    BY <2>1, <2>2, <2>3 DEF Counted, ClientTypes
<1>5. ASSUME NEW t \in Tasks, ReceiveFinal(t) PROVE Counted'
  BY <1>5 DEF ReceiveFinal, Return, Counted, ClientTypes
<1>6. ASSUME NEW t \in Tasks, TryOtherEnv(t) PROVE Counted'
  <2>1. /\ phase' = [phase EXCEPT ![t] = "acquiring"] /\ env' = [env EXCEPT ![t] = "other"]
        /\ attempt' = [attempt EXCEPT ![t] = 0] /\ UNCHANGED <<op, sends>>
    BY <1>6 DEF TryOtherEnv
  <2>2. op[t] = "getOrderMultiEnv" /\ sends[t]["other"] = 0
    BY <1>6 DEF TryOtherEnv, TriesOtherEnv, Asked
  <2> QED
    BY <2>1, <2>2, Limit DEF Counted, ClientTypes
<1>7. ASSUME NEW t \in Tasks, Retry(t) \/ Drop(t) PROVE Counted'
  <2>1. CASE Retry(t)
    <3>1. /\ phase[t] = "backoff" /\ phase' = [phase EXCEPT ![t] = "acquiring"]
          /\ attempt' = [attempt EXCEPT ![t] = @ + 1] /\ UNCHANGED <<op, env, sends>>
      BY <2>1 DEF Retry
    <3> QED
      BY <3>1 DEF Counted, ClientTypes
  <2>2. CASE Drop(t)
    BY <2>2 DEF Drop, Counted, ClientTypes
  <2> QED
    BY <1>7, <2>1, <2>2
<1>8. ASSUME NEW m \in wire, Serve(m) \/ Refuse(m) PROVE Counted'
  BY <1>8 DEF Serve, Refuse, Counted
<1> QED
  BY <1>1, <1>2, <1>3, <1>4, <1>5, <1>6, <1>7, <1>8, Steps
-----------------------------------------------------------------------------
\* The client's types and the three strengthenings hold at every step.
THEOREM ClientInvariant == ApiSpec => [](ClientTypes /\ Truthful /\ Asked /\ Counted)
<1> DEFINE Inv == ClientTypes /\ Truthful /\ Asked /\ Counted
<1>1. ApiInit => Inv
  BY TypesInit, TruthfulInit, AskedInit, CountedInit
<1>2. Inv /\ [ApiNext]_apiVars => Inv'
  BY TypesStep, TruthfulStep, AskedStep, CountedStep
<1> HIDE DEF Inv
<1>3. ApiSpec => []Inv
  BY <1>1, <1>2, PTL DEF ApiSpec
<1> QED
  BY <1>3 DEF Inv

\* What a call reports as done is done: for any number of calls, any policy, and
\* whatever the network loses, cuts or delays and the client retries.
THEOREM SuccessesAreReal == ApiSpec => []SuccessIsReal
<1>1. ClientTypes /\ Truthful => SuccessIsReal
  <2> SUFFICES ASSUME ClientTypes, Truthful, NEW t \in Tasks, result[t] = "success"
               PROVE  CASE op[t] = "cancelOrders"  -> book["configured"] = "cancelled"
                        [] op[t] = "uploadAppData" -> TRUE
                        [] OTHER                   -> book[env[t]] # "absent"
    BY DEF SuccessIsReal
  <2>1. Done(t) /\ op[t] \in AllOps /\ env[t] \in Envs
    BY DEF Truthful, ClientTypes
  <2>2. op[t] = "cancelOrders" => env[t] = "configured"
    BY <2>1 DEF Truthful, Envs
  <2> QED
    BY <2>1, <2>2 DEF Done, AllOps
<1> QED
  BY <1>1, ClientInvariant, PTL

\* get_order_multi_env asks the second environment only after a 404 of the first,
\* and says "not found" only after both have said so.
THEOREM BothEnvironmentsAsked == ApiSpec => []MultiEnvSound
<1>1. ClientTypes /\ Asked => MultiEnvSound
  <2> SUFFICES ASSUME ClientTypes, Asked, NEW t \in Tasks
               PROVE  /\ sends[t]["other"] > 0 => "configured" \in missing[t]
                      /\ op[t] = "getOrderMultiEnv" /\ result[t] = "notFound" => missing[t] = Envs
    BY DEF MultiEnvSound
  <2>1. env[t] \in {"configured", "other"}
    BY DEF ClientTypes, Envs
  <2> QED
    BY <2>1 DEF Asked
<1> QED
  BY <1>1, ClientInvariant, PTL

\* A call sends at most max_attempts requests to one environment, an upload one.
THEOREM AttemptsAreBounded == ApiSpec => []AttemptsBounded
<1>1. ClientTypes /\ Asked /\ Counted => AttemptsBounded
  BY DEF ClientTypes, Asked, Counted, AttemptsBounded, Envs
<1> QED
  BY <1>1, ClientInvariant, PTL
-----------------------------------------------------------------------------
(* The limiter under the calls.                                            *)

\* To the limiter a step of the client or the server is one of its own, or none.
LEMMA ApiMovesLimiter == [ApiNext]_apiVars => [Next]_vars
<1> SUFFICES ASSUME ApiNext PROVE [Next]_vars
  BY DEF apiVars
<1>1. ApiTick => [Next]_vars
  BY DEF ApiTick, Next
<1>2. ASSUME NEW t \in Tasks, Begin(t) \/ BeginUpload(t) \/ Send(t) \/ WaitForToken(t)
      PROVE  [Next]_vars
  <2>1. Call(t) \/ Grant(t) \/ Sleep(t) \/ Wake(t) \/ UNCHANGED vars
    BY <1>2 DEF Begin, BeginUpload, Send, WaitForToken
  <2> QED
    BY <2>1, Zenon DEF Next
<1>3. ASSUME NEW t \in Tasks, ReceiveRetryable(t) \/ TransportError(t) PROVE [Next]_vars
  BY <1>3 DEF ReceiveRetryable, TransportError, FailTransiently
<1>4. ASSUME NEW t \in Tasks, ReceiveFinal(t) \/ TryOtherEnv(t) PROVE [Next]_vars
  <2>1. Call(t) \/ UNCHANGED vars
    BY <1>4 DEF ReceiveFinal, TryOtherEnv
  <2> QED
    BY <2>1, Zenon DEF Next
<1>5. ASSUME NEW t \in Tasks, Retry(t) \/ Drop(t) PROVE [Next]_vars
  <2>1. Call(t) \/ Cancel(t) \/ UNCHANGED vars
    BY <1>5 DEF Retry, Drop
  <2> QED
    BY <2>1, Zenon DEF Next
<1>6. ASSUME NEW m \in wire, Serve(m) \/ Refuse(m) PROVE [Next]_vars
  BY <1>6 DEF Serve, Refuse
<1> QED
  BY <1>1, <1>2, <1>3, <1>4, <1>5, <1>6, Steps

\* The client uses the limiter as the limiter's model supposes (OrderBookApi's calls
\* of RateLimiter::acquire): what is proved of the one holds inside the other.
THEOREM ApiImplementsLimiter == ApiSpec => Spec
<1>1. ApiInit => Init
  BY DEF ApiInit
<1> QED
  BY <1>1, ApiMovesLimiter, PTL DEF ApiSpec, Spec

\* So the calls of the client, retries and dropped ones included, share one budget.
THEOREM ApiImplementsBudget == ApiSpec => ImplementsBudget
  BY ApiImplementsLimiter, LimiterImplementsBudget, PTL
-----------------------------------------------------------------------------
(* The backoff, and the rest of the types.                                 *)

\* What the recursive definition of the factor says.
FactorsOf(n, f) == f = [i \in 0..n |-> IF i = 0 THEN 1 ELSE LesserOf(2 * f[i - 1], FactorLimit)]

LEMMA FactorsExist == ASSUME NEW n \in Nat PROVE \E f : FactorsOf(n, f)
<1> DEFINE T == {m \in Nat : \E f : FactorsOf(m, f)}
<1>1. 0 \in T
  <2>1. FactorsOf(0, [i \in 0..0 |-> 1])
    BY DEF FactorsOf
  <2> QED
    BY <2>1
<1>2. ASSUME NEW m \in Nat, m \in T PROVE m + 1 \in T
  <2>1. PICK f : FactorsOf(m, f)
    BY <1>2
  <2> DEFINE g == [i \in 0..(m + 1) |-> IF i = 0 THEN 1 ELSE LesserOf(2 * f[i - 1], FactorLimit)]
  <2>2. ASSUME NEW i \in 0..m PROVE f[i] = g[i]
    BY <2>1 DEF FactorsOf
  <2>3. ASSUME NEW i \in 0..(m + 1)
        PROVE  g[i] = IF i = 0 THEN 1 ELSE LesserOf(2 * g[i - 1], FactorLimit)
    <3>1. CASE i = 0
      BY <3>1
    <3>2. CASE i # 0
      <4>1. i - 1 \in 0..m
        BY <3>2
      <4> QED
        BY <3>2, <4>1, <2>2
    <3> QED
      BY <3>1, <3>2
  <2>4. FactorsOf(m + 1, g)
    BY <2>3 DEF FactorsOf
  <2> QED
    BY <2>4
<1> HIDE DEF T
<1>3. n \in T
  BY <1>1, <1>2, Induction
<1> QED
  BY <1>3 DEF T

\* The factor is a number, by induction on the attempt.
LEMMA FactorType == ASSUME NEW k \in Nat PROVE Factor(k) \in Nat
<1>1. PICK f : FactorsOf(k, f) /\ Factor(k) = f[k]
  BY FactorsExist DEF Factor, FactorsOf
<1> DEFINE T == {i \in Nat : i <= k => f[i] \in Nat}
<1>2. \A i \in 0..k : f[i] = IF i = 0 THEN 1 ELSE LesserOf(2 * f[i - 1], FactorLimit)
  BY <1>1 DEF FactorsOf
<1>3. 0 \in T
  BY <1>2
<1>4. ASSUME NEW i \in Nat, i \in T PROVE i + 1 \in T
  BY <1>2, <1>4, PolicyAssumption DEF LesserOf
<1> HIDE DEF T
<1>5. k \in T
  BY <1>3, <1>4, Induction
<1> QED
  BY <1>1, <1>5 DEF T

LEMMA DelayRange == ASSUME NEW k \in Nat PROVE DelayForAttempt(k) \in 0..MaxDelay
<1> DEFINE d == InitialDelay * Factor(k)
<1>1. d \in Nat
  BY FactorType, PolicyAssumption, ProductNat
<1> HIDE DEF d
<1>2. LesserOf(MaxDelay, d) \in 0..MaxDelay
  BY <1>1, PolicyAssumption DEF LesserOf
<1> QED
  BY <1>2 DEF DelayForAttempt, d

\* A call in backoff has been quiet for, or still waits out, the delay of its attempt;
\* once it asks the limiter again it has been quiet that long.
Waited ==
  /\ delay \in [Tasks -> 0..MaxDelay] /\ quiet \in [Tasks -> 0..MaxDelay]
  /\ \A t \in Tasks :
       /\ phase[t] = "backoff" => quiet[t] + delay[t] >= DelayForAttempt(attempt[t])
       /\ phase[t] = "acquiring" /\ attempt[t] > 0 => quiet[t] >= DelayForAttempt(attempt[t] - 1)

LEMMA WaitedInit == ApiInit => Waited
<1> SUFFICES ASSUME ApiInit PROVE Waited
  OBVIOUS
<1>1. \A t \in Tasks : phase[t] = "new"
  BY NothingYet
<1> QED
  BY <1>1, PolicyAssumption DEF ApiInit, Waited

LEMMA WaitedStep == ClientTypes /\ Counted /\ Waited /\ [ApiNext]_apiVars => Waited'
<1> SUFFICES ASSUME ClientTypes, Counted, Waited, ApiNext PROVE Waited'
  BY DEF Waited, apiVars, clientVars
<1>0. \A k \in Nat : DelayForAttempt(k) \in 0..MaxDelay
  BY DelayRange
<1>1. ApiTick => Waited'
  <2> SUFFICES ASSUME ApiTick PROVE Waited'
    OBVIOUS
  <2>1. /\ delay' = [t \in Tasks |-> IF delay[t] > 0 THEN delay[t] - 1 ELSE 0]
        /\ quiet' = [t \in Tasks |-> LesserOf(quiet[t] + 1, MaxDelay)]
        /\ UNCHANGED <<phase, attempt>>
    BY DEF ApiTick
  <2>2. delay' \in [Tasks -> 0..MaxDelay] /\ quiet' \in [Tasks -> 0..MaxDelay]
    BY <2>1, PolicyAssumption DEF Waited, LesserOf
  <2>3. ASSUME NEW t \in Tasks
        PROVE  /\ quiet'[t] >= quiet[t]
               /\ \A n \in 0..MaxDelay : quiet[t] + delay[t] >= n => quiet'[t] + delay'[t] >= n
    BY <2>1, PolicyAssumption DEF Waited, LesserOf
  <2>4. ASSUME NEW t \in Tasks, phase[t] = "backoff"
        PROVE  quiet'[t] + delay'[t] >= DelayForAttempt(attempt[t])
    BY <1>0, <2>3, <2>4 DEF Waited, ClientTypes
  <2>5. ASSUME NEW t \in Tasks, phase[t] = "acquiring", attempt[t] > 0
        PROVE  quiet'[t] >= DelayForAttempt(attempt[t] - 1)
    <3>1. attempt[t] - 1 \in Nat
      BY <2>5 DEF ClientTypes
    <3>2. quiet'[t] \in Nat /\ quiet[t] \in Nat /\ DelayForAttempt(attempt[t] - 1) \in Nat
      BY <1>0, <2>2, <3>1, PolicyAssumption DEF Waited
    <3> QED
      BY <2>3, <2>5, <3>2 DEF Waited
  <2> QED
    BY <2>1, <2>2, <2>4, <2>5 DEF Waited
<1>2. ASSUME NEW t \in Tasks, Begin(t) \/ BeginUpload(t) \/ Send(t) \/ WaitForToken(t)
      PROVE  Waited'
  <2>1. CASE Begin(t)
    <3>1. phase' = [phase EXCEPT ![t] = "acquiring"] /\ UNCHANGED <<delay, quiet, attempt>> /\ phase[t] = "new"
      BY <2>1 DEF Begin
    <3>2. attempt[t] = 0
      BY <3>1 DEF Counted
    <3>3. \A u \in Tasks \ {t} : phase'[u] = phase[u]
      BY <3>1 DEF ClientTypes
    <3>4. phase'[t] = "acquiring"
      BY <3>1 DEF ClientTypes
    <3> QED
      BY <3>1, <3>2, <3>3, <3>4 DEF Waited
  <2>2. CASE BeginUpload(t) \/ Send(t)
    <3>1. /\ phase' = [phase EXCEPT ![t] = "awaiting"] /\ quiet' = [quiet EXCEPT ![t] = 0]
          /\ UNCHANGED <<delay, attempt>>
      BY <2>2 DEF BeginUpload, Send, PutOnWire
    <3>2. \A u \in Tasks \ {t} : phase'[u] = phase[u] /\ quiet'[u] = quiet[u]
      BY <3>1 DEF ClientTypes, Waited
    <3>3. phase'[t] = "awaiting" /\ quiet' \in [Tasks -> 0..MaxDelay]
      BY <3>1, PolicyAssumption DEF ClientTypes, Waited
    <3> QED
      BY <3>1, <3>2, <3>3 DEF Waited
  <2>3. CASE WaitForToken(t)
    BY <2>3 DEF WaitForToken, clientVars, Waited
  <2> QED
    BY <1>2, <2>1, <2>2, <2>3
<1>3. ASSUME NEW t \in Tasks, ReceiveRetryable(t) \/ TransportError(t) PROVE Waited'
  <2>1. attempt[t] \in Nat /\ DelayForAttempt(attempt[t]) \in 0..MaxDelay
    BY <1>0 DEF ClientTypes
  <2>2. UNCHANGED <<quiet, attempt>>
    BY <1>3 DEF ReceiveRetryable, TransportError, FailTransiently
  <2>3. \/ phase' = [phase EXCEPT ![t] = "returned"] /\ UNCHANGED delay
        \/ /\ phase' = [phase EXCEPT ![t] = "backoff"]
           /\ delay' = [delay EXCEPT ![t] = DelayForAttempt(attempt[t])]
    BY <1>3 DEF ReceiveRetryable, TransportError, FailTransiently, Return, StartBackoff
  <2>4. \A u \in Tasks \ {t} : phase'[u] = phase[u] /\ delay'[u] = delay[u]
    BY <2>3 DEF ClientTypes, Waited
  <2>5. /\ delay' \in [Tasks -> 0..MaxDelay]
        /\ \/ phase'[t] = "returned"
           \/ phase'[t] = "backoff" /\ delay'[t] = DelayForAttempt(attempt[t])
    BY <2>1, <2>3 DEF ClientTypes, Waited
  <2>6. phase'[t] = "backoff" => quiet[t] + delay'[t] >= DelayForAttempt(attempt[t])
    <3>1. quiet[t] \in Nat
      BY PolicyAssumption DEF Waited
    <3> QED
      BY <2>1, <2>5, <3>1, PolicyAssumption
  <2>7. phase'[t] # "acquiring"
    BY <2>5
  <2> QED
    BY <2>2, <2>4, <2>5, <2>6, <2>7 DEF Waited
<1>4. ASSUME NEW t \in Tasks, ReceiveFinal(t) \/ TryOtherEnv(t) PROVE Waited'
  <2>1. CASE ReceiveFinal(t)
    BY <2>1 DEF ReceiveFinal, Return, Waited, ClientTypes
  <2>2. CASE TryOtherEnv(t)
    <3>1. /\ phase' = [phase EXCEPT ![t] = "acquiring"] /\ attempt' = [attempt EXCEPT ![t] = 0]
          /\ UNCHANGED <<delay, quiet>>
      BY <2>2 DEF TryOtherEnv
    <3>2. \A u \in Tasks \ {t} : phase'[u] = phase[u] /\ attempt'[u] = attempt[u]
      BY <3>1 DEF ClientTypes
    <3>3. phase'[t] = "acquiring" /\ ~ attempt'[t] > 0
      BY <3>1 DEF ClientTypes
    <3> QED
      BY <3>1, <3>2, <3>3 DEF Waited
  <2> QED
    BY <1>4, <2>1, <2>2
<1>5. ASSUME NEW t \in Tasks, Retry(t) \/ Drop(t) PROVE Waited'
  <2>1. CASE Retry(t)
    <3>1. /\ phase[t] = "backoff" /\ delay[t] = 0 /\ phase' = [phase EXCEPT ![t] = "acquiring"]
          /\ attempt' = [attempt EXCEPT ![t] = @ + 1] /\ UNCHANGED <<delay, quiet>>
      BY <2>1 DEF Retry
    <3>2. quiet[t] >= DelayForAttempt(attempt[t]) /\ attempt'[t] - 1 = attempt[t]
      <4>1. quiet[t] \in Nat /\ quiet[t] + 0 = quiet[t]
        BY PolicyAssumption DEF Waited
      <4> QED
        BY <3>1, <4>1 DEF Waited, ClientTypes
    <3>3. \A u \in Tasks \ {t} : phase'[u] = phase[u] /\ attempt'[u] = attempt[u]
      BY <3>1 DEF ClientTypes
    <3>4. phase'[t] = "acquiring"
      BY <3>1 DEF ClientTypes
    <3> QED
      BY <3>1, <3>2, <3>3, <3>4 DEF Waited
  <2>2. CASE Drop(t)
    BY <2>2, PolicyAssumption DEF Drop, Waited, ClientTypes
  <2> QED
    BY <1>5, <2>1, <2>2
<1>6. ASSUME NEW m \in wire, Serve(m) \/ Refuse(m) PROVE Waited'
  BY <1>6 DEF Serve, Refuse, Waited
<1> QED
  BY <1>1, <1>2, <1>3, <1>4, <1>5, <1>6, Steps

\* Between two requests of one call to one environment at least the policy's delay goes
\* by (RetryPolicy::delay_for_attempt and the sleep of send_with_policy).
THEOREM BackoffIsRespected == ApiSpec => BackoffRespected
<1> DEFINE A == \A t \in Tasks :
                  Send(t) /\ attempt[t] > 0 => quiet[t] >= DelayForAttempt(attempt[t] - 1)
           Inv == ClientTypes /\ Truthful /\ Asked /\ Counted /\ Waited
<1>1. ApiInit => Inv
  BY TypesInit, TruthfulInit, AskedInit, CountedInit, WaitedInit
<1>2. Inv /\ [ApiNext]_apiVars => Inv'
  BY TypesStep, TruthfulStep, AskedStep, CountedStep, WaitedStep
<1>3. Inv => [A]_apiVars
  BY DEF Send, Waited
<1> HIDE DEF Inv, A
<1>4. ApiSpec => [][A]_apiVars
  BY <1>1, <1>2, <1>3, PTL DEF ApiSpec
<1> QED
  BY <1>4 DEF BackoffRespected, A
-----------------------------------------------------------------------------
(* The types in full.                                                        *)

\* The limiter knows a task just while its call asks for a token; what the calls are is
\* settled, and no request in flight counts more attempts than there are.
InStep ==
  /\ op \in [Tasks -> Ops]
  /\ \A m \in wire : m.op \in Ops /\ m.attempt < AttemptLimit
  /\ \A t \in Tasks : waiter[t] # "idle" <=> phase[t] = "acquiring"

LEMMA InStepInit == ApiInit => InStep
  BY DEF ApiInit, Init, InStep

\* Steps of the limiter, seen from one task.
LEMMA WaiterSteps ==
  ASSUME TypeOK, NEW t \in Tasks, NEW u \in Tasks
  PROVE  /\ Call(t) \/ Grant(t) \/ Sleep(t) \/ Wake(t) \/ Cancel(t) =>
              (u # t => waiter'[u] = waiter[u])
         /\ Call(t) => waiter'[t] # "idle"
         /\ Grant(t) \/ Cancel(t) => waiter'[t] = "idle"
         /\ Sleep(t) \/ Wake(t) => waiter'[t] # "idle"
  BY DEF TypeOK, Call, Grant, Sleep, Wake, Cancel

LEMMA InStepStep == TypeOK /\ ClientTypes /\ Counted /\ InStep /\ [ApiNext]_apiVars => InStep'
<1> SUFFICES ASSUME TypeOK, ClientTypes, Counted, InStep, ApiNext PROVE InStep'
  BY DEF InStep, apiVars, clientVars, vars
<1>0. \A t \in Tasks : attempt[t] < AttemptLimit
  BY DEF Counted
<1>1. ApiTick => InStep'
  BY DEF ApiTick, Tick, InStep
<1>2. ASSUME NEW t \in Tasks, Begin(t) \/ BeginUpload(t) \/ Send(t) \/ WaitForToken(t)
      PROVE  InStep'
  <2>1. CASE Begin(t)
    <3>1. UNCHANGED <<op, wire>> /\ Call(t) /\ phase' = [phase EXCEPT ![t] = "acquiring"]
      BY <2>1 DEF Begin
    <3>2. \A u \in Tasks : waiter'[u] # "idle" <=> phase'[u] = "acquiring"
      BY <3>1, WaiterSteps DEF InStep, ClientTypes
    <3> QED
      BY <3>1, <3>2 DEF InStep
  <2>2. ASSUME PutOnWire(t)
        PROVE  /\ \A m \in wire' : m.op \in Ops /\ m.attempt < AttemptLimit
               /\ phase' = [phase EXCEPT ![t] = "awaiting"]
    <3>1. Request(t).op = op[t] /\ Request(t).attempt = attempt[t]
      BY DEF Request
    <3> QED
      BY <1>0, <2>2, <3>1 DEF PutOnWire, InStep
  <2>3. CASE BeginUpload(t)
    <3>1. phase[t] = "new" /\ UNCHANGED <<waiter, op>> /\ PutOnWire(t)
      BY <2>3 DEF BeginUpload, vars
    <3> QED
      BY <2>2, <3>1 DEF InStep, ClientTypes
  <2>4. CASE Send(t)
    <3>1. UNCHANGED op /\ Grant(t) /\ PutOnWire(t)
      BY <2>4 DEF Send
    <3>2. \A u \in Tasks : waiter'[u] # "idle" <=> phase'[u] = "acquiring"
      BY <2>2, <3>1, WaiterSteps DEF InStep, ClientTypes
    <3> QED
      BY <2>2, <3>1, <3>2 DEF InStep
  <2>5. CASE WaitForToken(t)
    <3>1. phase[t] = "acquiring" /\ (Sleep(t) \/ Wake(t)) /\ UNCHANGED <<op, wire, phase>>
      BY <2>5 DEF WaitForToken, clientVars
    <3>2. \A u \in Tasks : waiter'[u] # "idle" <=> phase'[u] = "acquiring"
      BY <3>1, WaiterSteps DEF InStep
    <3> QED
      BY <3>1, <3>2 DEF InStep
  <2> QED
    BY <1>2, <2>1, <2>3, <2>4, <2>5
<1>3. ASSUME NEW t \in Tasks, ReceiveRetryable(t) \/ TransportError(t) PROVE InStep'
  <2>1. /\ phase[t] = "awaiting" /\ UNCHANGED <<waiter, op, wire>>
        /\ \/ phase' = [phase EXCEPT ![t] = "returned"]
           \/ phase' = [phase EXCEPT ![t] = "backoff"]
    BY <1>3 DEF ReceiveRetryable, TransportError, FailTransiently, Return, StartBackoff, vars
  <2> QED
    BY <2>1 DEF InStep, ClientTypes
<1>4. ASSUME NEW t \in Tasks, ReceiveFinal(t) \/ TryOtherEnv(t) PROVE InStep'
  <2>1. CASE ReceiveFinal(t)
    <3>1. /\ phase[t] = "awaiting" /\ UNCHANGED <<waiter, op, wire>>
          /\ phase' = [phase EXCEPT ![t] = "returned"]
      BY <2>1 DEF ReceiveFinal, Return, vars
    <3> QED
      BY <3>1 DEF InStep, ClientTypes
  <2>2. CASE TryOtherEnv(t)
    <3>1. UNCHANGED <<op, wire>> /\ Call(t) /\ phase' = [phase EXCEPT ![t] = "acquiring"]
      BY <2>2 DEF TryOtherEnv
    <3>2. \A u \in Tasks : waiter'[u] # "idle" <=> phase'[u] = "acquiring"
      BY <3>1, WaiterSteps DEF InStep, ClientTypes
    <3> QED
      BY <3>1, <3>2 DEF InStep
  <2> QED
    BY <1>4, <2>1, <2>2
<1>5. ASSUME NEW t \in Tasks, Retry(t) \/ Drop(t) PROVE InStep'
  <2>1. CASE Retry(t)
    <3>1. UNCHANGED <<op, wire>> /\ Call(t) /\ phase' = [phase EXCEPT ![t] = "acquiring"]
      BY <2>1 DEF Retry
    <3>2. \A u \in Tasks : waiter'[u] # "idle" <=> phase'[u] = "acquiring"
      BY <3>1, WaiterSteps DEF InStep, ClientTypes
    <3> QED
      BY <3>1, <3>2 DEF InStep
  <2>2. CASE Drop(t)
    <3>1. /\ UNCHANGED <<op, wire>> /\ phase' = [phase EXCEPT ![t] = "dropped"]
          /\ (phase[t] # "acquiring" /\ UNCHANGED waiter) \/ Cancel(t)
      BY <2>2 DEF Drop, vars
    <3>2. \A u \in Tasks : waiter'[u] # "idle" <=> phase'[u] = "acquiring"
      BY <3>1, WaiterSteps DEF InStep, ClientTypes
    <3> QED
      BY <3>1, <3>2 DEF InStep
  <2> QED
    BY <1>5, <2>1, <2>2
<1>6. ASSUME NEW m \in wire, Serve(m) \/ Refuse(m) PROVE InStep'
  <2>1. UNCHANGED <<waiter, phase, op>> /\ wire' = wire \ {m}
    BY <1>6 DEF Serve, Refuse, vars
  <2> QED
    BY <2>1 DEF InStep
<1> QED
  BY <1>1, <1>2, <1>3, <1>4, <1>5, <1>6, Steps

\* Every variable of the client, the limiter and the server keeps its type, and a task
\* waits for the limiter exactly while its call is inside acquire.
THEOREM ApiTypeCorrect == ApiSpec => []ApiTypeOK
<1> DEFINE Inv == ClientTypes /\ Truthful /\ Asked /\ Counted /\ Waited /\ InStep
<1>1. ApiInit => Inv
  BY TypesInit, TruthfulInit, AskedInit, CountedInit, WaitedInit, InStepInit
<1>2. TypeOK /\ Inv /\ [ApiNext]_apiVars => Inv'
  BY TypesStep, TruthfulStep, AskedStep, CountedStep, WaitedStep, InStepStep
<1>3. TypeOK /\ Inv => ApiTypeOK
  <2> SUFFICES ASSUME TypeOK, Inv PROVE ApiTypeOK
    OBVIOUS
  <2>1. AttemptLimit \in Nat \ {0}
    BY Limit
  <2>2. attempt \in [Tasks -> 0..(AttemptLimit - 1)]
    BY <2>1 DEF ClientTypes, Counted
  <2>3. sends \in [Tasks -> [Envs -> 0..(AttemptLimit + 1)]]
    <3>1. \A t \in Tasks, e \in Envs : sends[t][e] \in 0..(AttemptLimit + 1)
      BY <2>1 DEF ClientTypes, Counted
    <3>2. \A t \in Tasks : sends[t] \in [Envs -> 0..(AttemptLimit + 1)]
      BY <3>1 DEF ClientTypes
    <3> QED
      BY <3>2 DEF ClientTypes
  <2>4. wire \subseteq [task : Tasks, env : Envs, attempt : 0..(AttemptLimit - 1), op : Ops]
    <3> SUFFICES ASSUME NEW m \in wire
                 PROVE  m \in [task : Tasks, env : Envs, attempt : 0..(AttemptLimit - 1), op : Ops]
      OBVIOUS
    <3>1. m \in [task : Tasks, env : Envs, attempt : Nat, op : AllOps]
      BY DEF ClientTypes
    <3>2. m.op \in Ops /\ m.attempt \in 0..(AttemptLimit - 1)
      BY <2>1, <3>1 DEF InStep
    <3> QED
      BY <3>1, <3>2
  <2> QED
    BY <2>2, <2>3, <2>4 DEF ApiTypeOK, ClientTypes, Phases, Waited, InStep
<1> HIDE DEF Inv
<1>4. ApiSpec => []TypeOK
  BY ApiImplementsLimiter, TypeCorrect, PTL
<1> QED
  BY <1>1, <1>2, <1>3, <1>4, PTL DEF ApiSpec
=============================================================================
