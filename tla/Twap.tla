-------------------------------- MODULE Twap --------------------------------
(***************************************************************************)
(* A TWAP order (crates/composable/src/twap.rs) sells a total in equal     *)
(* parts, one per interval.  The trader describes it by its totals; the    *)
(* chain holds the parts (TwapStruct) as the static input of conditional   *)
(* order parameters.  A watch tower rebuilds the order from the parameters *)
(* (factory.rs), polls it (poll_validate) and posts the part that is open. *)
(* Good-after-time and stop-loss orders (gat.rs, stop_loss.rs) go through  *)
(* the same factory; what is in them beyond their layout is opaque here.   *)
(*                                                                         *)
(* Time is in seconds, one block per second.  The watch tower and the      *)
(* handler contract are not in the repository: they are modelled from what *)
(* PollResult and TwapStruct (types.rs) say of them.  Amounts have W       *)
(* values, for U256.  An Option or Result is a set with at most one        *)
(* element; a hash is what it is made from.                                *)
(***************************************************************************)
EXTENDS Integers, FiniteSets

CONSTANTS
  Token, ZeroToken,   \* addresses, and the zero address
  Rest,               \* receiver and app-data
  Totals,             \* the orders a trader may describe (TwapData)
  Foreign,            \* parameters that others have registered
  Salt,               \* the salts of others
  Body,               \* what is in good-after-time and stop-loss orders
  W,                  \* the amounts are 0..W-1
  MaxFrequency,       \* the longest interval
  MaxTime             \* bound of the clock

IsOption(s) == \A x, y \in s : x = y

\* TwapData.  start is {} at mining time; limit is {} for Auto.
TwapData ==
  [sellToken : Token, buyToken : Token, rest : Rest, sellAmount : 0..W-1, buyAmount : 0..W-1,
   start : SUBSET Nat, numParts : Nat, partDuration : Nat, limit : SUBSET Nat]

\* TwapStruct.
TwapStruct ==
  [sellToken : Token, buyToken : Token, rest : Rest, partSell : 0..W-1, minPart : 0..W-1,
   t0 : Nat, n : Nat, t : Nat, span : Nat]

\* Static input: its length in words, what is in it, and whether there are bits in it
\* that decoding drops (above an address or a u32, or a bool other than 1).
Input(body) == [words : Nat, dirty : BOOLEAN, body : body]

ASSUME TwapAssumption ==
  /\ W \in Nat \ {0}
  /\ MaxTime \in Nat
  /\ \A d \in Totals : d \in TwapData /\ IsOption(d.start) /\ IsOption(d.limit) /\ d.numParts < W
  /\ \A p \in Foreign :
       /\ p \in [handler : {"Twap", "StopLoss", "Other"}, salt : Salt,
                 input : Input(TwapStruct) \cup Input(Body)]
       /\ p.handler = "Twap" /\ p.input.words # 14 => p.input.body \in TwapStruct /\ p.input.body.n < W

None  == 0 - 1
Never == MaxTime + 2

VARIABLES
  now,        \* the block timestamp
  made,       \* Option: the totals of the order, if the trader is ours
  params,     \* Option: the parameters registered on chain
  minedAt,    \* when they were
  held,       \* Option: the order the watch tower has (ConditionalOrderKind)
  watchedAt,  \* since when
  nextPoll,   \* when the tower polls it next; Never
  posted      \* the parts posted

vars == <<now, made, params, minedAt, held, watchedAt, nextPoll, posted>>
-----------------------------------------------------------------------------
(* Totals and parts.                                                         *)

\* is_valid.  The amount to buy need not divide.
IsValid(d) ==
  /\ d.sellToken # d.buyToken /\ d.sellToken # ZeroToken /\ d.buyToken # ZeroToken
  /\ d.sellAmount # 0 /\ d.buyAmount # 0
  /\ d.numParts >= 2
  /\ d.partDuration \in 1..MaxFrequency
  /\ d.sellAmount % d.numParts = 0
  /\ \A duration \in d.limit : duration <= d.partDuration

\* Mutant: the parts are rounded up.
DataToStructUp(d) ==
  IF d.numParts = 0 THEN {}
  ELSE {[sellToken |-> d.sellToken, buyToken |-> d.buyToken, rest |-> d.rest,
         partSell |-> (d.sellAmount + d.numParts - 1) \div d.numParts,
         minPart |-> (d.buyAmount + d.numParts - 1) \div d.numParts,
         t0 |-> IF d.start = {} THEN 0 ELSE CHOOSE ts \in d.start : TRUE,
         n |-> d.numParts, t |-> d.partDuration,
         span |-> IF d.limit = {} THEN 0 ELSE CHOOSE x \in d.limit : TRUE]}

\* data_to_struct: no parts is an error; the kind and partially_fillable are dropped.
DataToStruct(d) ==
  IF d.numParts = 0 THEN {}
  ELSE {[sellToken |-> d.sellToken, buyToken |-> d.buyToken, rest |-> d.rest,
         partSell |-> d.sellAmount \div d.numParts, minPart |-> d.buyAmount \div d.numParts,
         t0 |-> IF d.start = {} THEN 0 ELSE CHOOSE ts \in d.start : TRUE,
         n |-> d.numParts, t |-> d.partDuration,
         span |-> IF d.limit = {} THEN 0 ELSE CHOOSE x \in d.limit : TRUE]}

\* struct_to_data.  The products wrap around.
StructToData(s) ==
  [sellToken |-> s.sellToken, buyToken |-> s.buyToken, rest |-> s.rest,
   sellAmount |-> (s.partSell * s.n) % W, buyAmount |-> (s.minPart * s.n) % W,
   start |-> IF s.t0 = 0 THEN {} ELSE {s.t0},
   numParts |-> s.n, partDuration |-> s.t,
   limit |-> IF s.span = 0 THEN {} ELSE {s.span}]

\* The salt new() gives: not all of the order.
TwapSalt(d) == <<d.sellToken, d.buyToken, d.sellAmount, d.numParts>>
-----------------------------------------------------------------------------
(* Orders and parameters.                                                    *)

Order(kind, data, salt) == [kind |-> kind, data |-> data, salt |-> salt]

Params(handler, salt, words, body) ==
  [handler |-> handler, salt |-> salt, input |-> [words |-> words, dirty |-> FALSE, body |-> body]]

\* to_params of each kind of order.
ToParams(order) ==
  IF order.kind = "Twap" THEN {Params("Twap", order.salt, 10, s) : s \in DataToStruct(order.data)}
  ELSE IF order.kind = "GoodAfterTime" THEN {Params("Twap", order.salt, 14, order.data)}
  ELSE IF order.kind = "StopLoss" THEN {Params("StopLoss", order.salt, 13, order.data)}
  ELSE {order.data}

\* Mutant: the tower's order gets a new salt.
FromParamsResalted(p) ==
  IF p.handler = "Twap" /\ p.input.words = 14 THEN {Order("GoodAfterTime", p.input.body, p.salt)}
  ELSE IF p.handler = "Twap" /\ p.input.words < 10 THEN {}
  ELSE IF p.handler = "Twap" THEN {Order("Twap", StructToData(p.input.body), TwapSalt(StructToData(p.input.body)))}
  ELSE IF p.handler = "StopLoss" /\ p.input.words < 13 THEN {}
  ELSE IF p.handler = "StopLoss" THEN {Order("StopLoss", p.input.body, p.salt)}
  ELSE {Order("Unknown", p, p.salt)}

\* from_params: two handlers share an address and are told apart by the length.
FromParams(p) ==
  IF p.handler = "Twap" /\ p.input.words = 14 THEN {Order("GoodAfterTime", p.input.body, p.salt)}
  ELSE IF p.handler = "Twap" /\ p.input.words < 10 THEN {}
  ELSE IF p.handler = "Twap" THEN {Order("Twap", StructToData(p.input.body), p.salt)}
  ELSE IF p.handler = "StopLoss" /\ p.input.words < 13 THEN {}
  ELSE IF p.handler = "StopLoss" THEN {Order("StopLoss", p.input.body, p.salt)}
  ELSE {Order("Unknown", p, p.salt)}

\* Mutant: the order ends when its last part starts.
PollValidateEarly(d, time) ==
  IF d.start = {} THEN [result |-> "Success"]
  ELSE LET start == CHOOSE ts \in d.start : TRUE
       IN  IF time < start THEN [result |-> "TryAtEpoch", epoch |-> start]
           ELSE IF time >= start + (d.numParts - 1) * d.partDuration THEN [result |-> "DontTryAgain"]
           ELSE [result |-> "Success"]

\* Mutant: an order that is over is polled on.
PollValidateOn(d, time) ==
  IF d.start = {} THEN [result |-> "Success"]
  ELSE LET start == CHOOSE ts \in d.start : TRUE
       IN  IF time < start THEN [result |-> "TryAtEpoch", epoch |-> start]
           ELSE [result |-> "Success"]

\* poll_validate.
PollValidate(d, time) ==
  IF d.start = {} THEN [result |-> "Success"]
  ELSE LET start == CHOOSE ts \in d.start : TRUE
       IN  IF time < start THEN [result |-> "TryAtEpoch", epoch |-> start]
           ELSE IF time >= start + d.numParts * d.partDuration THEN [result |-> "DontTryAgain"]
           ELSE [result |-> "Success"]
-----------------------------------------------------------------------------
(* The handler contract.                                                     *)

\* Zero means the block the order was created in.
StartOf(s) == IF s.t0 = 0 THEN minedAt ELSE s.t0

Opens(s, k)  == StartOf(s) + k * s.t
Closes(s, k) == Opens(s, k) + (IF s.span = 0 THEN s.t ELSE s.span)

\* The parts tradable at a time.
OpenParts(s, time) == {k \in 0..(s.n - 1) : Opens(s, k) <= time /\ time < Closes(s, k)}

\* The struct of the registered order, if it is a TWAP.
Parts == {p.input.body : p \in {q \in params : q.handler = "Twap" /\ q.input.words >= 10 /\ q.input.words # 14}}
-----------------------------------------------------------------------------
Init ==
  /\ now = 0
  /\ made = {} /\ params = {} /\ held = {}
  /\ minedAt = None /\ watchedAt = None /\ nextPoll = Never
  /\ posted = {}

\* TwapOrder::new and to_params; the transaction is mined later.
Make(d) ==
  /\ made = {} /\ params = {} /\ DataToStruct(d) # {}
  /\ made' = {d}
  /\ UNCHANGED <<now, params, minedAt, held, watchedAt, nextPoll, posted>>

Mine ==
  /\ params = {}
  /\ \E d \in made : params' = ToParams(Order("Twap", d, TwapSalt(d)))
  /\ minedAt' = now
  /\ UNCHANGED <<now, made, held, watchedAt, nextPoll, posted>>

MineForeign(p) ==
  /\ made = {} /\ params = {}
  /\ params' = {p} /\ minedAt' = now
  /\ UNCHANGED <<now, made, held, watchedAt, nextPoll, posted>>

\* The tower starts to watch, with the order rebuilt from the chain.
Watch ==
  /\ held = {}
  /\ \E p \in params : FromParams(p) # {} /\ held' = FromParams(p)
  /\ watchedAt' = now /\ nextPoll' = now
  /\ UNCHANGED <<now, made, params, minedAt, posted>>

\* The poll that is due.  Orders of the other kinds have no poll and are dropped.
Poll ==
  /\ nextPoll <= now
  /\ \E order \in held :
       LET poll == IF order.kind = "Twap" THEN PollValidate(order.data, now) ELSE [result |-> "DontTryAgain"]
       IN  \/ poll.result = "TryAtEpoch" /\ nextPoll' = poll.epoch /\ UNCHANGED posted
           \/ poll.result = "DontTryAgain" /\ nextPoll' = Never /\ UNCHANGED posted
           \/ /\ poll.result = "Success"
              /\ posted' = posted \cup UNION {OpenParts(s, now) : s \in Parts}
              /\ nextPoll' = now + 1
  /\ UNCHANGED <<now, made, params, minedAt, held, watchedAt>>

\* The next block.  The tower is not late: what is due is polled first.
Tick ==
  /\ now < MaxTime
  /\ now < nextPoll
  /\ now' = now + 1
  /\ UNCHANGED <<made, params, minedAt, held, watchedAt, nextPoll, posted>>

Next ==
  \/ \E d \in Totals : Make(d)
  \/ Mine
  \/ \E p \in Foreign : MineForeign(p)
  \/ Watch
  \/ Poll
  \/ Tick

\* Blocks keep coming and the tower keeps polling.
Spec == Init /\ [][Next]_vars /\ WF_vars(Tick) /\ WF_vars(Poll)
-----------------------------------------------------------------------------
\* Each variable has its type, and what depends on registration comes after it.
TwapTypeOK ==
  /\ now \in 0..MaxTime
  /\ made \subseteq Totals /\ IsOption(made)
  /\ IsOption(params)
  /\ minedAt \in 0..now \cup {None} /\ (minedAt = None <=> params = {})
  /\ IsOption(held)
  /\ watchedAt \in minedAt..now \cup {None} /\ (watchedAt = None <=> held = {})
  /\ nextPoll \in Nat
  /\ posted \in SUBSET Nat

\* What the decoder of the handler takes without loss.
Canonical(p) ==
  \/ p.handler = "Other"
  \/ ~p.input.dirty /\ p.handler = "Twap" /\ p.input.words = 14
  \/ ~p.input.dirty /\ p.handler = "StopLoss" /\ p.input.words = 13
  \/ /\ ~p.input.dirty /\ p.handler = "Twap" /\ p.input.words = 10
     /\ p.input.body.n > 0
     /\ p.input.body.partSell * p.input.body.n < W
     /\ p.input.body.minPart * p.input.body.n < W

\* The tower's order, turned back into parameters, is the order on the chain, of the same
\* id and merkle leaf, exactly when its static input is canonical; every order of ours is,
\* whatever its totals and however they were rounded (from_params, to_params,
\* data_to_struct, struct_to_data).
RebuiltIsSame ==
  /\ \A p \in params, order \in held : ToParams(order) = {p} <=> Canonical(p)
  /\ made # {} => \A p \in params : Canonical(p)

\* The parts posted never sell more than the total, all of them sell exactly the total of
\* an order that is_valid, and what rounding takes off the limits is less than an atom
\* per part (data_to_struct, is_valid).
SoldAsAsked ==
  \A d \in made, s \in Parts :
    /\ Cardinality(posted) * s.partSell <= d.sellAmount
    /\ IsValid(d) /\ posted = 0..(s.n - 1) => Cardinality(posted) * s.partSell = d.sellAmount
    /\ d.buyAmount < s.n * (s.minPart + 1)

\* Every part that was open for some block since the tower began to watch has been posted:
\* the tower is neither told to wait too long nor to stop too soon (poll_validate of an
\* order rebuilt from the chain).  Parts that close after the next one opens are left out,
\* is_valid refuses them.
NothingMissed ==
  \A s \in Parts : watchedAt # None /\ s.span <= s.t =>
    \A time \in watchedAt..(now - 1) : OpenParts(s, time) \subseteq posted

\* The tower stops polling an order with a fixed start in the end (poll_validate,
\* DontTryAgain).
TowerRests ==
  \A d \in Totals :
    d.start \notin {{}, {0}} => ((made = {d} /\ held # {}) ~> (nextPoll = Never))

\* The minimum total is what the parts promise (stated of buy_amount in types.rs).
MinimumKept ==
  \A d \in made, s \in Parts : posted = 0..(s.n - 1) => Cardinality(posted) * s.minPart >= d.buyAmount
=============================================================================
