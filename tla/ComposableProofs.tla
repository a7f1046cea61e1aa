-------------------------- MODULE ComposableProofs --------------------------
(***************************************************************************)
(* Theorems about Twap and Multiplexer.                                    *)
(*                                                                         *)
(* Twap, for any totals, foreign parameters, word size and clock: the      *)
(* inductive invariant remembers where the registered and the held order   *)
(* come from, and that every part open before the next poll has been       *)
(* posted.                                                                 *)
(*                                                                         *)
(* Multiplexer, for lists of any length over any orders: by induction over *)
(* the layers of the tree, a node is a leaf or the hash of two nodes, so   *)
(* whatever folds to the root was folded from a leaf; and on the way up    *)
(* from a leaf, its proof so far folds to the node that has been reached.  *)
(***************************************************************************)
EXTENDS Twap, Multiplexer, ArithmeticLemmas, FiniteSetTheorems, SequenceTheorems

\* What registered parameters are, ours or those of others.
ParamsOK(p) ==
  /\ p = [handler |-> p.handler, salt |-> p.salt,
          input |-> [words |-> p.input.words, dirty |-> p.input.dirty, body |-> p.input.body]]
  /\ p.handler \in {"Twap", "StopLoss", "Other"}
  /\ p.input.words \in Nat /\ p.input.dirty \in BOOLEAN
  /\ p.handler = "Twap" /\ p.input.words # 14 => p.input.body \in TwapStruct /\ p.input.body.n < W

OursOf(d) == ToParams(Order("Twap", d, TwapSalt(d)))

Origins ==
  /\ \A d \in made : DataToStruct(d) # {} /\ (params = {} \/ params = OursOf(d))
  /\ made = {} => params \subseteq Foreign
  /\ held # {} => \E p \in params : held = FromParams(p)
  /\ held = {} => posted = {}

\* Whatever was open before the next poll is posted.
Seen ==
  \A s \in Parts : watchedAt # None /\ s.span <= s.t =>
    \A time \in watchedAt..(nextPoll - 1) : OpenParts(s, time) \subseteq posted

PostedParts == \A s \in Parts : posted \subseteq 0..(s.n - 1)

NotLate == held # {} => now <= nextPoll

Inv == TwapTypeOK /\ Origins /\ PostedParts /\ Seen /\ NotLate
-----------------------------------------------------------------------------
(* Dividing the totals: the parts have the types the chain gives them, and   *)
(* multiplied they fall short of the totals by less than an atom per part.   *)
LEMMA PartsOfTotals ==
  ASSUME NEW d \in Totals, NEW s \in DataToStruct(d)
  PROVE  /\ s \in TwapStruct /\ s.n > 0 /\ s.n < W /\ s.n = d.numParts
         /\ s.partSell * s.n <= d.sellAmount /\ d.sellAmount < s.partSell * s.n + s.n
         /\ s.minPart * s.n <= d.buyAmount /\ d.buyAmount < s.minPart * s.n + s.n
         /\ s.partSell = d.sellAmount \div d.numParts
<1> DEFINE n == d.numParts
           sell == d.sellAmount \div n
           buy == d.buyAmount \div n
           t0 == IF d.start = {} THEN 0 ELSE CHOOSE ts \in d.start : TRUE
           span == IF d.limit = {} THEN 0 ELSE CHOOSE x \in d.limit : TRUE
<1>1. /\ d \in TwapData /\ n \in Nat \ {0} /\ n < W /\ W \in Nat
      /\ d.sellAmount \in 0..W-1 /\ d.buyAmount \in 0..W-1
  BY TwapAssumption DEF DataToStruct, TwapData
<1>2. s = [sellToken |-> d.sellToken, buyToken |-> d.buyToken, rest |-> d.rest,
           partSell |-> sell, minPart |-> buy, t0 |-> t0, n |-> n, t |-> d.partDuration, span |-> span]
  BY <1>1 DEF DataToStruct
<1>3. t0 \in Nat /\ span \in Nat
  BY <1>1 DEF TwapData
<1>4. /\ sell \in Nat /\ sell * n <= d.sellAmount /\ d.sellAmount < sell * n + n
      /\ buy \in Nat /\ buy * n <= d.buyAmount /\ d.buyAmount < buy * n + n
  <2>1. n \in Nat \ {0} /\ d.sellAmount \in Nat /\ d.buyAmount \in Nat
    BY <1>1
  <2> HIDE DEF n
  <2>2. sell \in Nat /\ sell * n <= d.sellAmount /\ d.sellAmount < sell * n + n
    BY <2>1, Division
  <2>3. buy \in Nat /\ buy * n <= d.buyAmount /\ d.buyAmount < buy * n + n
    BY <2>1, Division
  <2> QED
    BY <2>2, <2>3
<1>5. sell \in 0..W-1 /\ buy \in 0..W-1
  <2> HIDE DEF sell, buy, n
  <2>1. 1 * sell <= n * sell /\ 1 * buy <= n * buy
    BY <1>1, <1>4, ProductMonotone
  <2>2. n * sell = sell * n /\ n * buy = buy * n
    BY <1>1, <1>4, Z3
  <2> QED
    BY <1>1, <1>4, <2>1, <2>2
<1> HIDE DEF sell, buy, t0, span, n
<1>6. s \in TwapStruct
  BY <1>1, <1>2, <1>3, <1>5 DEF TwapStruct, TwapData, n
<1> QED
  BY <1>1, <1>2, <1>4, <1>6 DEF n, sell

(* Parts to totals and back: the same parts, unless a product wrapped around *)
(* or there are none (struct_to_data, data_to_struct).                       *)
LEMMA PartsAgain ==
  ASSUME NEW s \in TwapStruct, s.n < W, W \in Nat
  PROVE  IF s.n = 0 THEN DataToStruct(StructToData(s)) = {}
         ELSE \E u : /\ DataToStruct(StructToData(s)) = {u}
                     /\ u = s <=> s.partSell * s.n < W /\ s.minPart * s.n < W
<1>1. CASE s.n = 0
  BY <1>1 DEF DataToStruct, StructToData
<1>2. CASE s.n # 0
  <2> DEFINE sell == ((s.partSell * s.n) % W) \div s.n
             buy == ((s.minPart * s.n) % W) \div s.n
             u == [sellToken |-> s.sellToken, buyToken |-> s.buyToken, rest |-> s.rest,
                   partSell |-> sell, minPart |-> buy, t0 |-> s.t0, n |-> s.n, t |-> s.t, span |-> s.span]
             data == StructToData(s)
  <2>1. /\ s.n \in Nat \ {0} /\ s.partSell \in Nat /\ s.minPart \in Nat
        /\ s.t0 \in Nat /\ s.span \in Nat
    BY <1>2 DEF TwapStruct
  <2>2. /\ (IF data.start = {} THEN 0 ELSE CHOOSE ts \in data.start : TRUE) = s.t0
        /\ (IF data.limit = {} THEN 0 ELSE CHOOSE x \in data.limit : TRUE) = s.span
    BY DEF StructToData
  <2>3. /\ data.sellToken = s.sellToken /\ data.buyToken = s.buyToken /\ data.rest = s.rest
        /\ data.sellAmount = (s.partSell * s.n) % W /\ data.buyAmount = (s.minPart * s.n) % W
        /\ data.numParts = s.n /\ data.partDuration = s.t
    BY DEF StructToData
  <2>4. DataToStruct(data) = {u}
    <3> HIDE DEF data
    <3> QED
      BY <2>2, <2>3, <1>2 DEF DataToStruct
  <2>5. \A p \in Nat : ((p * s.n) % W) \div s.n = p <=> p * s.n < W
    <3> SUFFICES ASSUME NEW p \in Nat PROVE ((p * s.n) % W) \div s.n = p <=> p * s.n < W
      OBVIOUS
    <3>1. CASE p * s.n < W
      <4>1. p * s.n \in Nat /\ (p * s.n) \div s.n = p
        BY <2>1, QuotientOfProduct
      <4>2. (p * s.n) % W = p * s.n
        <5> DEFINE x == p * s.n
        <5>1. x \in Nat /\ x < W
          BY <3>1, <4>1
        <5> HIDE DEF x
        <5>2. x % W = x
          BY <5>1, Z3
        <5> QED
          BY <5>2 DEF x
      <4> QED
        BY <3>1, <4>1, <4>2
    <3>2. CASE ~ p * s.n < W
      BY <2>1, <3>2, WrappedQuotient
    <3> QED
      BY <3>1, <3>2
  <2>6. sell = s.partSell <=> s.partSell * s.n < W
    BY <2>1, <2>5
  <2>7. buy = s.minPart <=> s.minPart * s.n < W
    BY <2>1, <2>5
  <2> HIDE DEF sell, buy, data
  <2>8. u = s <=> sell = s.partSell /\ buy = s.minPart
    BY DEF TwapStruct
  <2>9. u = s <=> s.partSell * s.n < W /\ s.minPart * s.n < W
    BY <2>6, <2>7, <2>8
  <2> QED
    BY <1>2, <2>4, <2>9 DEF data
<1> QED
  BY <1>1, <1>2

(* The tower's order is the registered one exactly when the input is canonical. *)
LEMMA Rebuilt ==
  ASSUME NEW p, ParamsOK(p), NEW order \in FromParams(p), W \in Nat
  PROVE  ToParams(order) = {p} <=> Canonical(p)
<1> DEFINE body == p.input.body
<1>1. /\ p = [handler |-> p.handler, salt |-> p.salt,
              input |-> [words |-> p.input.words, dirty |-> p.input.dirty, body |-> body]]
      /\ p.handler \in {"Twap", "StopLoss", "Other"}
      /\ p.input.words \in Nat /\ p.input.dirty \in BOOLEAN
  BY DEF ParamsOK
<1>2. ASSUME NEW handler, NEW words, NEW b
      PROVE  Params(handler, p.salt, words, b) = p
               <=> handler = p.handler /\ words = p.input.words /\ ~p.input.dirty /\ b = body
  <2> DEFINE q == [words |-> words, dirty |-> FALSE, body |-> b]
             i == p.input
  <2>1. /\ q.words = words /\ q.dirty = FALSE /\ q.body = b
        /\ Params(handler, p.salt, words, b) = [handler |-> handler, salt |-> p.salt, input |-> q]
    BY DEF Params
  <2>2. q = i <=> words = i.words /\ i.dirty = FALSE /\ b = i.body
    <3>1. i = [words |-> i.words, dirty |-> i.dirty, body |-> i.body]
      <4>1. p.input = [words |-> p.input.words, dirty |-> p.input.dirty, body |-> p.input.body]
        BY <1>1
      <4> QED
        BY <4>1
    <3> HIDE DEF i
    <3> QED
      BY <3>1
  <2>3. [handler |-> handler, salt |-> p.salt, input |-> q] = p <=> handler = p.handler /\ q = p.input
    <3> HIDE DEF q
    <3>1. p = [handler |-> p.handler, salt |-> p.salt, input |-> p.input]
      BY <1>1
    <3> QED
      BY <3>1
  <2> QED
    BY <1>1, <2>1, <2>2, <2>3
<1>3. CASE p.handler = "Other"
  <2>1. order = Order("Unknown", p, p.salt)
    BY <1>3 DEF FromParams
  <2>2. ToParams(order) = {p}
    BY <2>1 DEF ToParams, Order
  <2> QED
    BY <1>3, <2>2 DEF Canonical
<1>4. CASE p.handler = "Twap" /\ p.input.words = 14
  <2>1. order = Order("GoodAfterTime", body, p.salt)
    BY <1>4 DEF FromParams
  <2>2. ToParams(order) = {Params("Twap", p.salt, 14, body)}
    BY <2>1 DEF ToParams, Order
  <2>3. ToParams(order) = {p} <=> ~p.input.dirty
    BY <1>2, <1>4, <2>2
  <2> QED
    BY <1>4, <2>3 DEF Canonical
<1>5. CASE p.handler = "StopLoss"
  <2>1. order = Order("StopLoss", body, p.salt)
    BY <1>5 DEF FromParams
  <2>2. ToParams(order) = {Params("StopLoss", p.salt, 13, body)}
    BY <2>1 DEF ToParams, Order
  <2>3. ToParams(order) = {p} <=> p.input.words = 13 /\ ~p.input.dirty
    BY <1>2, <1>5, <2>2
  <2> QED
    BY <1>5, <2>3 DEF Canonical
<1>6. CASE p.handler = "Twap" /\ p.input.words # 14
  <2>1. order = Order("Twap", StructToData(body), p.salt)
    BY <1>6 DEF FromParams
  <2>2. ToParams(order) = {Params("Twap", p.salt, 10, u) : u \in DataToStruct(StructToData(body))}
    BY <2>1 DEF ToParams, Order
  <2>3. body \in TwapStruct /\ body.n < W
    BY <1>6 DEF ParamsOK
  <2>4. body.n \in Nat
    BY <2>3 DEF TwapStruct
  <2> HIDE DEF body
  <2>5. CASE body.n = 0
    <3>1. DataToStruct(StructToData(body)) = {}
      BY <2>3, <2>5, PartsAgain
    <3>2. ToParams(order) = {}
      BY <2>2, <3>1
    <3> QED
      BY <1>6, <2>5, <3>2 DEF Canonical, body
  <2>6. CASE body.n # 0
    <3>1. PICK u : /\ DataToStruct(StructToData(body)) = {u}
                   /\ u = body <=> body.partSell * body.n < W /\ body.minPart * body.n < W
      BY <2>3, <2>6, PartsAgain
    <3>2. ToParams(order) = {Params("Twap", p.salt, 10, u)}
      BY <2>2, <3>1
    <3>3. ToParams(order) = {p} <=> p.input.words = 10 /\ ~p.input.dirty /\ u = body
      BY <1>2, <1>6, <3>2
    <3>4. Canonical(p) <=> /\ ~p.input.dirty /\ p.input.words = 10
                           /\ body.partSell * body.n < W /\ body.minPart * body.n < W
      BY <1>6, <2>4, <2>6 DEF Canonical, body
    <3> QED
      BY <3>1, <3>3, <3>4
  <2> QED
    BY <2>5, <2>6
<1> QED
  BY <1>1, <1>3, <1>4, <1>5, <1>6

(* Whoever registered them.                                                  *)
LEMMA Registered ==
  ASSUME TwapTypeOK, Origins, NEW p \in params
  PROVE  /\ ParamsOK(p) /\ params = {p}
         /\ \A d \in made : /\ p.handler = "Twap" /\ p.input.words = 10 /\ ~p.input.dirty
                            /\ p.input.body \in DataToStruct(d)
<1>1. params = {p}
  BY DEF TwapTypeOK, IsOption
<1>2. CASE made = {}
  <2>1. p \in Foreign
    BY <1>2 DEF Origins
  <2>2. /\ p \in [handler : {"Twap", "StopLoss", "Other"}, salt : Salt,
                  input : Input(TwapStruct) \cup Input(Body)]
        /\ p.handler = "Twap" /\ p.input.words # 14 => p.input.body \in TwapStruct /\ p.input.body.n < W
    BY <2>1, TwapAssumption
  <2>3. /\ p = [handler |-> p.handler, salt |-> p.salt, input |-> p.input]
        /\ p.handler \in {"Twap", "StopLoss", "Other"}
        /\ p.input \in Input(TwapStruct) \cup Input(Body)
    BY <2>2
  <2>4. /\ p.input = [words |-> p.input.words, dirty |-> p.input.dirty, body |-> p.input.body]
        /\ p.input.words \in Nat /\ p.input.dirty \in BOOLEAN
    BY <2>3 DEF Input
  <2> QED
    BY <1>1, <1>2, <2>2, <2>3, <2>4 DEF ParamsOK
<1>3. ASSUME NEW d \in made
      PROVE  /\ ParamsOK(p)
             /\ p.handler = "Twap" /\ p.input.words = 10 /\ ~p.input.dirty
             /\ p.input.body \in DataToStruct(d)
  <2>1. d \in Totals /\ p \in OursOf(d)
    BY DEF Origins, TwapTypeOK
  <2>2. PICK s \in DataToStruct(d) : p = Params("Twap", TwapSalt(d), 10, s)
    BY <2>1 DEF OursOf, ToParams, Order
  <2>3. s \in TwapStruct /\ s.n < W
    BY <2>1, <2>2, PartsOfTotals
  <2> QED
    BY <2>2, <2>3 DEF ParamsOK, Params
<1> QED
  BY <1>1, <1>2, <1>3

(* The parts of the registered order.                                        *)
LEMMA PartsTyped ==
  ASSUME TwapTypeOK, Origins, NEW s \in Parts
  PROVE  /\ s \in TwapStruct /\ s.n < W
         /\ \E p \in params : p.handler = "Twap" /\ p.input.words >= 10 /\ p.input.words # 14
                              /\ p.input.body = s
         /\ \A d \in made : s \in DataToStruct(d)
<1>1. PICK p \in params : p.handler = "Twap" /\ p.input.words >= 10 /\ p.input.words # 14
                          /\ p.input.body = s
  BY DEF Parts
<1> QED
  BY <1>1, Registered DEF ParamsOK
-----------------------------------------------------------------------------
(* What a poll of the rebuilt order answers, in terms of the parts.          *)

LEMMA HeldTwap ==
  ASSUME TwapTypeOK, Origins, NEW order \in held, NEW s \in Parts
  PROVE  order.kind = "Twap" /\ order.data = StructToData(s)
<1>1. PICK p \in params : p.handler = "Twap" /\ p.input.words >= 10 /\ p.input.words # 14
                          /\ p.input.body = s
  BY DEF Parts
<1>2. params = {p} /\ p.input.words \in Nat
  BY Registered DEF ParamsOK
<1>3. held = FromParams(p)
  BY <1>2 DEF Origins
<1>4. order = Order("Twap", StructToData(s), p.salt)
  BY <1>1, <1>2, <1>3 DEF FromParams
<1> QED
  BY <1>4 DEF Order

\* No part is open before a start, or at or after the last interval.
LEMMA ClosedOutside ==
  ASSUME NEW s \in TwapStruct, s.t0 # 0, s.span <= s.t, NEW time \in Int,
         time < s.t0 \/ time >= s.t0 + s.n * s.t
  PROVE  OpenParts(s, time) = {}
<1>1. s.t0 \in Nat /\ s.n \in Nat /\ s.t \in Nat /\ s.span \in Nat /\ StartOf(s) = s.t0
  BY DEF TwapStruct, StartOf
<1> SUFFICES ASSUME NEW k \in 0..(s.n - 1), Opens(s, k) <= time, time < Closes(s, k) PROVE FALSE
  BY DEF OpenParts
<1>2. k \in Nat /\ k + 1 \in Nat /\ k + 1 <= s.n
  BY <1>1
<1>3. k * s.t \in Nat /\ (k + 1) * s.t <= s.n * s.t /\ (k + 1) * s.t = k * s.t + s.t
  <2>1. (k + 1) * s.t = k * s.t + s.t
    BY <1>1, <1>2, OneMore
  <2>2. k * s.t \in Nat
    BY <1>1, <1>2, ProductMonotone
  <2> QED
    BY <1>1, <1>2, <2>1, <2>2, ProductMonotone
<1>4. s.n * s.t \in Nat
  BY <1>1, ProductMonotone
<1>5. Opens(s, k) = s.t0 + k * s.t /\ Closes(s, k) <= s.t0 + k * s.t + s.t
  <2> DEFINE x == k * s.t
  <2>1. x \in Nat
    BY <1>3
  <2>2. Opens(s, k) = s.t0 + x
    BY <1>1 DEF Opens
  <2>3. Closes(s, k) = Opens(s, k) + (IF s.span = 0 THEN s.t ELSE s.span)
    BY DEF Closes
  <2> HIDE DEF x
  <2>4. Closes(s, k) <= s.t0 + x + s.t
    BY <1>1, <2>1, <2>2, <2>3
  <2> QED
    BY <2>2, <2>4 DEF x
<1> DEFINE x == k * s.t
           y == s.n * s.t
<1>6. x \in Nat /\ y \in Nat /\ x + s.t <= y /\ s.t0 + x <= time /\ time < s.t0 + x + s.t
  <2>1. Closes(s, k) \in Int
    BY <1>1, <1>3, <1>5 DEF Closes
  <2> QED
    BY <1>1, <1>3, <1>4, <1>5, <2>1
<1>7. time < s.t0 \/ time >= s.t0 + y
  OBVIOUS
<1> HIDE DEF x, y
<1> QED
  BY <1>1, <1>6, <1>7

\* The next poll comes no later than the next part that opens, and not never before the
\* last has closed.
LEMMA PollSound ==
  ASSUME NEW s \in TwapStruct, NEW time \in Nat, time <= MaxTime
  PROVE  LET poll == PollValidate(StructToData(s), time)
         IN  /\ poll.result \in {"Success", "TryAtEpoch", "DontTryAgain"}
             /\ poll.result = "TryAtEpoch" =>
                  /\ poll.epoch \in Nat /\ poll.epoch > time
                  /\ s.span <= s.t => \A later \in time..(poll.epoch - 1) : OpenParts(s, later) = {}
             /\ poll.result = "DontTryAgain" =>
                  (s.span <= s.t => \A later \in time..(MaxTime + 1) : OpenParts(s, later) = {})
<1> DEFINE data == StructToData(s)
           poll == PollValidate(data, time)
           end == s.t0 + s.n * s.t
<1>1. /\ data.numParts = s.n /\ data.partDuration = s.t
      /\ data.start = IF s.t0 = 0 THEN {} ELSE {s.t0}
  BY DEF StructToData
<1>2. s.t0 \in Nat /\ s.n \in Nat /\ s.t \in Nat /\ MaxTime \in Nat
  BY TwapAssumption DEF TwapStruct
<1>3. end \in Nat
  BY <1>2, ProductMonotone
<1>4. CASE s.t0 = 0
  <2>1. poll.result = "Success"
    <3> HIDE DEF data
    <3> QED
      BY <1>1, <1>4 DEF PollValidate
  <2> QED
    BY <2>1
<1>5. CASE s.t0 # 0
  <2>1. poll = IF time < s.t0 THEN [result |-> "TryAtEpoch", epoch |-> s.t0]
               ELSE IF time >= end THEN [result |-> "DontTryAgain"] ELSE [result |-> "Success"]
    <3>1. data.start # {} /\ (CHOOSE ts \in data.start : TRUE) = s.t0
      BY <1>1, <1>5
    <3> HIDE DEF data
    <3> QED
      BY <1>1, <3>1 DEF PollValidate
  <2> HIDE DEF poll, data
  <2>2. CASE time < s.t0
    <3>1. poll.result = "TryAtEpoch" /\ poll.epoch = s.t0
      BY <2>1, <2>2
    <3>2. ASSUME s.span <= s.t, NEW later \in time..(s.t0 - 1) PROVE OpenParts(s, later) = {}
      BY <1>2, <1>5, <3>2, ClosedOutside
    <3> QED
      BY <1>2, <2>2, <3>1, <3>2 DEF poll, data
  <2>3. CASE time >= end /\ ~ time < s.t0
    <3>1. poll.result = "DontTryAgain"
      BY <2>1, <2>3
    <3>2. ASSUME s.span <= s.t, NEW later \in time..(MaxTime + 1) PROVE OpenParts(s, later) = {}
      <4>1. later \in Int /\ later >= end
        BY <1>2, <1>3, <2>3, <3>2
      <4> QED
        BY <1>5, <3>2, <4>1, ClosedOutside
    <3> QED
      BY <3>1, <3>2 DEF poll, data
  <2>4. CASE ~ time >= end /\ ~ time < s.t0
    BY <2>1, <2>4 DEF poll, data
  <2> QED
    BY <2>2, <2>3, <2>4
<1> QED
  BY <1>4, <1>5
-----------------------------------------------------------------------------
(* The invariant.                                                            *)

LEMMA InitInv == Init => Inv
<1> SUFFICES ASSUME Init PROVE Inv
  OBVIOUS
<1>1. MaxTime \in Nat
  BY TwapAssumption
<1>2. Parts = {}
  BY DEF Init, Parts
<1> QED
  BY <1>1, <1>2 DEF Init, Inv, TwapTypeOK, IsOption, None, Never, Origins, PostedParts, Seen, NotLate

\* Before an order is registered there is nothing to watch.
LEMMA Unregistered ==
  ASSUME Inv, params = {}
  PROVE  held = {} /\ watchedAt = None /\ posted = {} /\ minedAt = None
<1>1. held = {}
  BY DEF Inv, Origins
<1> QED
  BY <1>1 DEF Inv, Origins, TwapTypeOK

LEMMA MakeInv ==
  ASSUME Inv, NEW d \in Totals, Make(d)
  PROVE  Inv'
<1> USE DEF Make
<1>1. /\ made' = {d} /\ params' = {} /\ params = {} /\ DataToStruct(d) # {}
      /\ UNCHANGED <<now, minedAt, held, watchedAt, nextPoll, posted>>
  OBVIOUS
<1>2. Parts' = {}
  BY <1>1 DEF Parts
<1>3. TwapTypeOK'
  BY <1>1 DEF Inv, TwapTypeOK, IsOption
<1>4. Origins'
  <2>1. held' = {} /\ posted' = {}
    BY <1>1, Unregistered
  <2> QED
    BY <1>1, <2>1 DEF Origins
<1> QED
  BY <1>1, <1>2, <1>3, <1>4 DEF Inv, PostedParts, Seen, NotLate

\* Registering is the same for all.
LEMMA RegisterInv ==
  ASSUME Inv, NEW p, params = {}, params' = {p}, minedAt' = now,
         UNCHANGED <<now, made, held, watchedAt, nextPoll, posted>>,
         made = {} => p \in Foreign,
         \A d \in made : OursOf(d) = {p}
  PROVE  Inv'
<1>1. held = {} /\ watchedAt = None /\ posted = {}
  BY Unregistered
<1>2. TwapTypeOK'
  <2>1. now \in Nat /\ now # None /\ MaxTime \in Nat
    BY TwapAssumption DEF Inv, TwapTypeOK, None
  <2>2. IsOption({p})
    BY DEF IsOption
  <2> QED
    BY <1>1, <2>1, <2>2 DEF Inv, TwapTypeOK
<1>3. Origins'
  BY <1>1 DEF Inv, Origins, OursOf, ToParams, Order, Params, DataToStruct, TwapSalt
<1> QED
  BY <1>1, <1>2, <1>3 DEF Inv, PostedParts, Seen, NotLate

LEMMA MineInv ==
  ASSUME Inv, Mine
  PROVE  Inv'
<1>1. PICK d \in made : params' = OursOf(d)
  BY DEF Mine, OursOf
<1>2. d \in Totals /\ made = {d} /\ DataToStruct(d) # {}
  BY DEF Inv, TwapTypeOK, IsOption, Origins
<1>3. PICK s : DataToStruct(d) = {s}
  BY <1>2 DEF DataToStruct
<1>4. OursOf(d) = {Params("Twap", TwapSalt(d), 10, s)}
  BY <1>3 DEF OursOf, ToParams, Order
<1> QED
  BY <1>1, <1>2, <1>4, RegisterInv DEF Mine

LEMMA MineForeignInv ==
  ASSUME Inv, NEW p \in Foreign, MineForeign(p)
  PROVE  Inv'
BY RegisterInv DEF MineForeign

LEMMA WatchInv ==
  ASSUME Inv, Watch
  PROVE  Inv'
<1>1. PICK p \in params : FromParams(p) # {} /\ held' = FromParams(p)
  BY DEF Watch
<1>2. /\ held = {} /\ watchedAt' = now /\ nextPoll' = now
      /\ UNCHANGED <<now, made, params, minedAt, posted>>
  BY DEF Watch
<1>3. /\ now \in Nat /\ now # None /\ MaxTime \in Nat /\ minedAt \in Nat /\ minedAt <= now
  BY <1>1, TwapAssumption DEF Inv, TwapTypeOK, None
<1>4. IsOption(held')
  BY <1>1 DEF FromParams, IsOption
<1>5. TwapTypeOK'
  BY <1>1, <1>2, <1>3, <1>4 DEF Inv, TwapTypeOK
<1>6. posted' = {} /\ Parts' = Parts
  BY <1>2 DEF Inv, Origins, Parts
<1>7. Origins'
  <2>1. \A d \in made' : DataToStruct(d) # {} /\ (params' = {} \/ params' = OursOf(d))
    BY <1>2 DEF Inv, Origins
  <2> QED
    BY <1>1, <1>2, <1>6, <2>1 DEF Inv, Origins
<1>8. PostedParts'
  BY <1>6 DEF PostedParts
<1>9. Seen'
  <2>1. now..(now - 1) = {}
    BY <1>3
  <2> QED
    BY <1>2, <2>1 DEF Seen
<1>10. NotLate'
  BY <1>2, <1>3 DEF NotLate
<1> QED
  BY <1>5, <1>7, <1>8, <1>9, <1>10 DEF Inv

LEMMA TickInv ==
  ASSUME Inv, Tick
  PROVE  Inv'
<1>1. /\ now < MaxTime /\ now < nextPoll /\ now' = now + 1
      /\ UNCHANGED <<made, params, minedAt, held, watchedAt, nextPoll, posted>>
  BY DEF Tick
<1>2. now \in Nat /\ MaxTime \in Nat /\ nextPoll \in Nat
  BY TwapAssumption DEF Inv, TwapTypeOK
<1>3. TwapTypeOK'
  <2>1. minedAt \in 0..now' \cup {None} /\ watchedAt \in minedAt..now' \cup {None}
    BY <1>1, <1>2 DEF Inv, TwapTypeOK, None
  <2> QED
    BY <1>1, <1>2, <2>1 DEF Inv, TwapTypeOK
<1>4. Origins'
  BY <1>1 DEF Inv, Origins
<1>5. Parts' = Parts /\ \A s, time : OpenParts(s, time)' = OpenParts(s, time)
  BY <1>1 DEF Parts, OpenParts, Opens, Closes, StartOf
<1>6. PostedParts' /\ Seen'
  BY <1>1, <1>5 DEF Inv, PostedParts, Seen
<1>7. NotLate'
  BY <1>1, <1>2 DEF Inv, NotLate
<1> QED
  BY <1>3, <1>4, <1>6, <1>7 DEF Inv

\* The tower polls an order of its own parts, and parts are of such an order.
LEMMA HeldParts ==
  ASSUME TwapTypeOK, Origins, NEW order \in held
  PROVE  /\ held = {order}
         /\ order.kind = "Twap" => \E s \in Parts : order.data = StructToData(s)
         /\ \A s \in Parts : order.kind = "Twap" /\ order.data = StructToData(s)
<1>1. held = {order}
  BY DEF TwapTypeOK, IsOption
<1>2. PICK p \in params : held = FromParams(p)
  BY DEF Origins
<1>3. p.input.words \in Nat
  BY Registered DEF ParamsOK
<1>4. ASSUME order.kind = "Twap" PROVE p.input.body \in Parts /\ order.data = StructToData(p.input.body)
  <2>1. /\ p.handler = "Twap" /\ p.input.words # 14 /\ ~ p.input.words < 10
        /\ order = Order("Twap", StructToData(p.input.body), p.salt)
    BY <1>2, <1>4 DEF FromParams, Order
  <2> QED
    BY <1>3, <2>1 DEF Parts, Order
<1> QED
  BY <1>1, <1>4, HeldTwap

LEMMA PollInv ==
  ASSUME Inv, Poll
  PROVE  Inv'
<1> DEFINE open == UNION {OpenParts(s, now) : s \in Parts}
           AnswerTo(order) ==
             IF order.kind = "Twap" THEN PollValidate(order.data, now) ELSE [result |-> "DontTryAgain"]
<1>1. /\ nextPoll <= now
      /\ UNCHANGED <<now, made, params, minedAt, held, watchedAt>>
  BY DEF Poll
<1>2. PICK order \in held :
        \/ AnswerTo(order).result = "TryAtEpoch" /\ nextPoll' = AnswerTo(order).epoch /\ posted' = posted
        \/ AnswerTo(order).result = "DontTryAgain" /\ nextPoll' = Never /\ posted' = posted
        \/ AnswerTo(order).result = "Success" /\ nextPoll' = now + 1 /\ posted' = posted \cup open
  BY DEF Poll
<1> DEFINE poll == AnswerTo(order)
<1>3. TwapTypeOK /\ Origins /\ PostedParts /\ Seen /\ now \in Nat /\ now <= MaxTime /\ MaxTime \in Nat
  BY TwapAssumption DEF Inv, TwapTypeOK
<1>4. /\ held = {order}
      /\ order.kind = "Twap" => \E s \in Parts : order.data = StructToData(s)
      /\ \A s \in Parts : order.kind = "Twap" /\ order.data = StructToData(s)
  BY <1>3, HeldParts
<1>5. \A s \in Parts : s \in TwapStruct
  BY <1>3, PartsTyped
<1>6. poll.result = "TryAtEpoch" => poll.epoch \in Nat /\ poll.epoch > now
  <2> SUFFICES ASSUME poll.result = "TryAtEpoch" PROVE poll.epoch \in Nat /\ poll.epoch > now
    OBVIOUS
  <2>1. order.kind = "Twap"
    OBVIOUS
  <2>2. PICK s \in Parts : order.data = StructToData(s)
    BY <1>4, <2>1
  <2>3. poll = PollValidate(StructToData(s), now)
    BY <2>1, <2>2
  <2> HIDE DEF poll
  <2> QED
    BY <1>3, <1>5, <2>3, PollSound
<1>7. ASSUME NEW s \in Parts, s.span <= s.t
      PROVE  /\ poll.result = "TryAtEpoch" => \A later \in now..(poll.epoch - 1) : OpenParts(s, later) = {}
             /\ poll.result = "DontTryAgain" => \A later \in now..(MaxTime + 1) : OpenParts(s, later) = {}
  <2>1. poll = PollValidate(StructToData(s), now)
    BY <1>4
  <2> HIDE DEF poll
  <2> QED
    BY <1>3, <1>5, <1>7, <2>1, PollSound
<1>8. open \subseteq Nat /\ \A s \in Parts : open = OpenParts(s, now)
  <2>1. \A s, u \in Parts : s = u
    BY <1>3 DEF TwapTypeOK, IsOption, Parts
  <2>2. \A s \in Parts : OpenParts(s, now) \subseteq Nat
    BY DEF OpenParts
  <2> QED
    BY <2>1, <2>2
<1>9. /\ nextPoll' \in Nat /\ now < nextPoll' /\ posted \subseteq posted'
      /\ posted' \subseteq posted \cup open
  <2> HIDE DEF poll, open
  <2> QED
    BY <1>2, <1>3, <1>6 DEF Never, poll
<1>10. Parts' = Parts /\ \A s, time : OpenParts(s, time)' = OpenParts(s, time)
  BY <1>1 DEF Parts, OpenParts, Opens, Closes, StartOf
<1>11. TwapTypeOK'
  <2>1. posted' \in SUBSET Nat
    BY <1>3, <1>8, <1>9 DEF TwapTypeOK
  <2> QED
    BY <1>1, <1>3, <1>9, <2>1 DEF TwapTypeOK
<1>12. Origins'
  <2>1. \A d \in made' : DataToStruct(d) # {} /\ (params' = {} \/ params' = OursOf(d))
    BY <1>1, <1>3 DEF Origins
  <2> QED
    BY <1>1, <1>3, <1>4, <2>1 DEF Origins
<1>13. PostedParts'
  <2> SUFFICES ASSUME NEW s \in Parts PROVE posted' \subseteq 0..(s.n - 1)
    BY <1>10 DEF PostedParts
  <2>1. open \subseteq 0..(s.n - 1)
    BY <1>8 DEF OpenParts
  <2> QED
    BY <1>3, <1>9, <2>1 DEF PostedParts
<1>14. Seen'
  <2> SUFFICES ASSUME NEW s \in Parts, watchedAt # None, s.span <= s.t,
                      NEW time \in watchedAt..(nextPoll' - 1)
               PROVE  OpenParts(s, time) \subseteq posted'
    BY <1>1, <1>10 DEF Seen
  <2>1. nextPoll \in Nat /\ time \in Int /\ watchedAt \in Int
    BY <1>3 DEF TwapTypeOK, None
  <2>2. CASE time < nextPoll
    <3>1. time \in watchedAt..(nextPoll - 1)
      BY <1>9, <2>1, <2>2
    <3> QED
      BY <1>3, <1>9, <3>1 DEF Seen
  <2>3. CASE nextPoll <= time /\ time < now
    \* The tower is not late: it polls when it is due.
    <3>1. now = nextPoll
      BY <1>1, <1>3, <2>1 DEF Inv, NotLate
    <3> QED
      BY <1>3, <2>1, <2>3, <3>1
  <2>4. CASE now <= time
    <3>1. CASE poll.result = "TryAtEpoch" /\ nextPoll' = poll.epoch
      <4> HIDE DEF poll
      <4>1. time \in now..(poll.epoch - 1)
        BY <1>3, <1>9, <2>1, <2>4, <3>1
      <4>2. OpenParts(s, time) = {}
        BY <1>7, <3>1, <4>1
      <4> QED
        BY <4>2
    <3>2. CASE poll.result = "DontTryAgain" /\ nextPoll' = Never
      <4> HIDE DEF poll
      <4>1. time \in now..(MaxTime + 1)
        BY <1>3, <2>1, <2>4, <3>2 DEF Never
      <4>2. OpenParts(s, time) = {}
        BY <1>7, <3>2, <4>1
      <4> QED
        BY <4>2
    <3>3. CASE nextPoll' = now + 1 /\ posted' = posted \cup open
      <4>1. time = now
        BY <1>3, <2>1, <2>4, <3>3
      <4> QED
        BY <1>8, <3>3, <4>1
    <3> HIDE DEF poll
    <3> QED
      BY <1>2, <3>1, <3>2, <3>3 DEF poll
  <2> QED
    BY <1>3, <2>1, <2>2, <2>3, <2>4
<1>15. NotLate'
  BY <1>1, <1>3, <1>9 DEF NotLate
<1> QED
  BY <1>11, <1>12, <1>13, <1>14, <1>15 DEF Inv

LEMMA Invariance == Spec => []Inv
<1>1. ASSUME Inv, [Next]_vars PROVE Inv'
  <2>1. CASE UNCHANGED vars
    <3>1. Parts' = Parts /\ \A s, time : OpenParts(s, time)' = OpenParts(s, time)
      BY <2>1 DEF vars, Parts, OpenParts, Opens, Closes, StartOf
    <3>2. TwapTypeOK' /\ Origins'
      BY <1>1, <2>1 DEF Inv, TwapTypeOK, Origins, vars
    <3>3. PostedParts' /\ Seen' /\ NotLate'
      BY <1>1, <2>1, <3>1 DEF Inv, PostedParts, Seen, NotLate, vars
    <3> QED
      BY <3>2, <3>3 DEF Inv
  <2> QED
    BY <1>1, <2>1, MakeInv, MineInv, MineForeignInv, WatchInv, PollInv, TickInv DEF Next
<1> QED
  BY <1>1, InitInv, PTL DEF Spec
-----------------------------------------------------------------------------
(* The theorems.                                                             *)

\* The clock, the order, its parameters and the tower always have their types, and
\* come about in this order.
THEOREM TwapTypeCorrect == Spec => []TwapTypeOK
<1>1. Inv => TwapTypeOK
  BY DEF Inv
<1> QED
  BY <1>1, Invariance, PTL

\* For every order anyone can register, rebuilding it from the chain and encoding it again
\* gives the same parameters just when they are canonical, and ours always are: the
\* roundings of data_to_struct and struct_to_data cancel out.
THEOREM RebuiltAlwaysSame == Spec => []RebuiltIsSame
<1>1. Inv => RebuiltIsSame
  <2> SUFFICES ASSUME Inv PROVE RebuiltIsSame
    OBVIOUS
  <2>1. ASSUME NEW p \in params, NEW order \in held PROVE ToParams(order) = {p} <=> Canonical(p)
    <3>1. ParamsOK(p) /\ params = {p}
      BY Registered DEF Inv
    <3>2. order \in FromParams(p)
      BY <3>1 DEF Inv, Origins
    <3> QED
      BY <3>1, <3>2, Rebuilt, TwapAssumption
  <2>2. ASSUME NEW d \in made, NEW p \in params PROVE Canonical(p)
    <3>1. /\ p.handler = "Twap" /\ p.input.words = 10 /\ ~p.input.dirty
          /\ p.input.body \in DataToStruct(d)
      BY Registered DEF Inv
    <3>2. d \in Totals
      BY DEF Inv, TwapTypeOK
    <3> DEFINE s == p.input.body
    <3>3. /\ s \in TwapStruct /\ s.n > 0 /\ s.partSell * s.n <= d.sellAmount
          /\ s.minPart * s.n <= d.buyAmount
      BY <3>1, <3>2, PartsOfTotals
    <3>4. d.sellAmount \in 0..W-1 /\ d.buyAmount \in 0..W-1 /\ W \in Nat
      BY <3>2, TwapAssumption DEF TwapData
    <3> HIDE DEF s
    <3>5. s.partSell * s.n < W /\ s.minPart * s.n < W
      <4>1. s.partSell \in Nat /\ s.minPart \in Nat /\ s.n \in Nat
        BY <3>3 DEF TwapStruct
      <4>2. s.partSell * s.n \in Nat /\ s.minPart * s.n \in Nat
        BY <4>1, ProductMonotone
      <4> QED
        BY <3>3, <3>4, <4>2
    <3> QED
      BY <3>1, <3>3, <3>5 DEF Canonical, s
  <2> QED
    BY <2>1, <2>2 DEF RebuiltIsSame
<1> QED
  BY <1>1, Invariance, PTL

\* However many parts were posted, they sell no more than the total, all of them sell it
\* exactly if the order is_valid, and rounding costs less than an atom per part.
THEOREM AlwaysSoldAsAsked == Spec => []SoldAsAsked
<1>1. Inv => SoldAsAsked
  <2> SUFFICES ASSUME Inv, NEW d \in made, NEW s \in Parts
               PROVE  /\ Cardinality(posted) * s.partSell <= d.sellAmount
                      /\ IsValid(d) /\ posted = 0..(s.n - 1) =>
                           Cardinality(posted) * s.partSell = d.sellAmount
                      /\ d.buyAmount < s.n * (s.minPart + 1)
    BY DEF SoldAsAsked
  <2>1. s \in DataToStruct(d) /\ d \in Totals
    BY PartsTyped DEF Inv, TwapTypeOK
  <2>2. /\ s \in TwapStruct /\ s.n > 0 /\ s.n < W /\ s.n = d.numParts
        /\ s.partSell * s.n <= d.sellAmount /\ d.sellAmount < s.partSell * s.n + s.n
        /\ s.minPart * s.n <= d.buyAmount /\ d.buyAmount < s.minPart * s.n + s.n
        /\ s.partSell = d.sellAmount \div d.numParts
    BY <2>1, PartsOfTotals
  <2>3. s.n \in Nat \ {0} /\ s.partSell \in Nat /\ s.minPart \in Nat /\ d.sellAmount \in Nat
    BY <2>1, <2>2, TwapAssumption DEF TwapStruct, TwapData
  <2>4. IsFiniteSet(posted) /\ Cardinality(posted) \in Nat /\ Cardinality(posted) <= s.n
    <3>1. posted \subseteq 0..(s.n - 1)
      BY DEF Inv, PostedParts
    <3>2. IsFiniteSet(0..(s.n - 1)) /\ Cardinality(0..(s.n - 1)) = s.n
      <4>1. 0 \in Int /\ s.n - 1 \in Int /\ ~ 0 > s.n - 1 /\ (s.n - 1) - 0 + 1 = s.n
        BY <2>3
      <4> QED
        BY <4>1, FS_Interval
    <3>3. IsFiniteSet(posted) /\ Cardinality(posted) <= Cardinality(0..(s.n - 1))
      BY <3>1, <3>2, FS_Subset
    <3>4. Cardinality(posted) \in Nat
      BY <3>3, FS_CardinalityType
    <3> QED
      BY <3>2, <3>3, <3>4
  <2>5. s.n * s.partSell = s.partSell * s.n /\ s.n * s.partSell \in Nat
    BY <2>3, Commutes
  <2>6. Cardinality(posted) * s.partSell <= d.sellAmount
    <3>1. Cardinality(posted) * s.partSell <= s.n * s.partSell
          /\ Cardinality(posted) * s.partSell \in Nat
      BY <2>3, <2>4, ProductMonotone
    <3> DEFINE x == Cardinality(posted) * s.partSell
               y == s.n * s.partSell
    <3>2. x \in Nat /\ y \in Nat /\ x <= y /\ y <= d.sellAmount
      BY <2>2, <2>5, <3>1
    <3> HIDE DEF x, y
    <3>3. x <= d.sellAmount
      BY <2>3, <3>2
    <3> QED
      BY <3>3 DEF x
  <2>7. ASSUME IsValid(d), posted = 0..(s.n - 1)
        PROVE  Cardinality(posted) * s.partSell = d.sellAmount
    <3>1. Cardinality(posted) = s.n
      <4>1. 0 \in Int /\ s.n - 1 \in Int /\ ~ 0 > s.n - 1 /\ (s.n - 1) - 0 + 1 = s.n
        BY <2>3
      <4> QED
        BY <2>7, <4>1, FS_Interval
    <3>2. d.sellAmount % d.numParts = 0
      BY <2>7 DEF IsValid
    <3>3. (d.sellAmount \div d.numParts) * d.numParts = d.sellAmount
      BY <2>2, <2>3, <3>2, ExactDivision
    <3> QED
      BY <2>2, <2>5, <3>1, <3>3
  <2>8. d.buyAmount < s.n * (s.minPart + 1)
    <3>1. (s.minPart + 1) * s.n = s.minPart * s.n + s.n
      BY <2>3, OneMore
    <3>2. s.n * (s.minPart + 1) = (s.minPart + 1) * s.n
      BY <2>3, Commutes
    <3> QED
      BY <2>2, <3>1, <3>2
  <2> QED
    BY <2>6, <2>7, <2>8
<1> QED
  BY <1>1, Invariance, PTL

\* Whenever the tower began to watch and however long the intervals and their gaps are,
\* no part that was open since goes unposted.
THEOREM NothingEverMissed == Spec => []NothingMissed
<1>1. Inv => NothingMissed
  <2> SUFFICES ASSUME Inv, NEW s \in Parts, watchedAt # None, s.span <= s.t,
                      NEW time \in watchedAt..(now - 1)
               PROVE  OpenParts(s, time) \subseteq posted
    BY DEF NothingMissed
  <2>1. held # {} /\ now \in Nat /\ nextPoll \in Nat /\ now <= nextPoll /\ watchedAt \in Int
    BY TwapAssumption DEF Inv, TwapTypeOK, NotLate, None
  <2>2. time \in watchedAt..(nextPoll - 1)
    BY <2>1
  <2> QED
    BY <2>2 DEF Inv, Seen
<1> QED
  BY <1>1, Invariance, PTL

-----------------------------------------------------------------------------
(* The Merkle tree.  What the recursive definitions say, once there is a     *)
(* function that does what each asks for.                                    *)

LayersOf(list, n, f) ==
  f = [k \in 0..n |-> IF k = 0 THEN [i \in DOMAIN list |-> LeafHash(list[i])] ELSE NextLayer(f[k - 1])]

LEMMA LayersExist == ASSUME NEW list, NEW n \in Nat PROVE \E f : LayersOf(list, n, f)
<1> DEFINE T == {m \in Nat : \E f : LayersOf(list, m, f)}
           leaves == [i \in DOMAIN list |-> LeafHash(list[i])]
<1>1. 0 \in T
  <2>1. LayersOf(list, 0, [k \in 0..0 |-> leaves])
    BY DEF LayersOf
  <2> QED
    BY <2>1
<1>2. ASSUME NEW m \in Nat, m \in T PROVE m + 1 \in T
  <2>1. PICK f : LayersOf(list, m, f)
    BY <1>2
  <2> DEFINE g == [k \in 0..(m + 1) |-> IF k = 0 THEN leaves ELSE NextLayer(f[k - 1])]
  <2>2. \A k \in 0..m : f[k] = g[k]
    BY <2>1 DEF LayersOf
  <2>3. ASSUME NEW k \in 0..(m + 1), k # 0 PROVE g[k] = NextLayer(g[k - 1])
    <3>1. k - 1 \in 0..m /\ g[k] = NextLayer(f[k - 1])
      BY <2>3
    <3> QED
      BY <2>2, <3>1
  <2>4. g = [k \in 0..(m + 1) |-> IF k = 0 THEN leaves ELSE NextLayer(g[k - 1])]
    <3>1. \A k \in 0..(m + 1) : g[k] = IF k = 0 THEN leaves ELSE NextLayer(g[k - 1])
      BY <2>3
    <3> QED
      BY <3>1
  <2> HIDE DEF g
  <2>5. LayersOf(list, m + 1, g)
    BY <2>4 DEF LayersOf
  <2> QED
    BY <2>5
<1> HIDE DEF T
<1>3. n \in T
  BY <1>1, <1>2, Induction
<1> QED
  BY <1>3 DEF T

LEMMA LayersAre ==
  ASSUME NEW list, Len(list) \in Nat
  PROVE  /\ Layers(list)[0] = [i \in DOMAIN list |-> LeafHash(list[i])]
         /\ \A k \in 0..Len(list) : k # 0 => Layers(list)[k] = NextLayer(Layers(list)[k - 1])
<1>1. LayersOf(list, Len(list), Layers(list))
  <2>1. Layers(list) = CHOOSE f : LayersOf(list, Len(list), f)
    BY Zenon DEF Layers, LayersOf
  <2>2. \E f : LayersOf(list, Len(list), f)
    BY LayersExist
  <2> QED
    BY <2>1, <2>2, Zenon
<1> QED
  BY <1>1 DEF LayersOf

HashesOf(leaf, proof, n, f) ==
  f = [k \in 0..n |-> IF k = 0 THEN leaf ELSE HashPair(f[k - 1], proof[k])]

LEMMA HashesExist == ASSUME NEW leaf, NEW proof, NEW n \in Nat PROVE \E f : HashesOf(leaf, proof, n, f)
<1> DEFINE T == {m \in Nat : \E f : HashesOf(leaf, proof, m, f)}
<1>1. 0 \in T
  <2>1. HashesOf(leaf, proof, 0, [k \in 0..0 |-> leaf])
    BY DEF HashesOf
  <2> QED
    BY <2>1
<1>2. ASSUME NEW m \in Nat, m \in T PROVE m + 1 \in T
  <2>1. PICK f : HashesOf(leaf, proof, m, f)
    BY <1>2
  <2> DEFINE g == [k \in 0..(m + 1) |-> IF k = 0 THEN leaf ELSE HashPair(f[k - 1], proof[k])]
  <2>2. \A k \in 0..m : f[k] = g[k]
    BY <2>1 DEF HashesOf
  <2>3. ASSUME NEW k \in 0..(m + 1), k # 0 PROVE g[k] = HashPair(g[k - 1], proof[k])
    <3>1. k - 1 \in 0..m /\ g[k] = HashPair(f[k - 1], proof[k])
      BY <2>3
    <3> QED
      BY <2>2, <3>1
  <2>4. g = [k \in 0..(m + 1) |-> IF k = 0 THEN leaf ELSE HashPair(g[k - 1], proof[k])]
    <3>1. \A k \in 0..(m + 1) : g[k] = IF k = 0 THEN leaf ELSE HashPair(g[k - 1], proof[k])
      BY <2>3
    <3> QED
      BY <3>1
  <2> HIDE DEF g
  <2>5. HashesOf(leaf, proof, m + 1, g)
    BY <2>4 DEF HashesOf
  <2> QED
    BY <2>5
<1> HIDE DEF T
<1>3. n \in T
  BY <1>1, <1>2, Induction
<1> QED
  BY <1>3 DEF T

\* Folding a proof goes through the hashes of its prefixes.
LEMMA HashesAre ==
  ASSUME NEW leaf, NEW proof, Len(proof) \in Nat
  PROVE  \E f : HashesOf(leaf, proof, Len(proof), f) /\ ProcessProof(leaf, proof) = f[Len(proof)]
<1> DEFINE hash == CHOOSE f : HashesOf(leaf, proof, Len(proof), f)
<1>1. \E f : HashesOf(leaf, proof, Len(proof), f)
  BY HashesExist
<1>2. HashesOf(leaf, proof, Len(proof), hash)
  BY <1>1, Zenon
<1>3. ProcessProof(leaf, proof) = hash[Len(proof)]
  BY Zenon DEF ProcessProof, HashesOf
<1> QED
  BY <1>2, <1>3, Zenon
-----------------------------------------------------------------------------
\* The layers get shorter, down to one node.
LEMMA LayerShape ==
  ASSUME NEW list \in Seq(OrderParams), list # <<>>, NEW k \in 0..Len(list)
  PROVE  LET l == Layers(list)[k]
         IN  /\ Len(l) \in Nat \ {0} /\ l = [i \in 1..Len(l) |-> l[i]]
             /\ Len(l) = 1 \/ Len(l) + k <= Len(list)
<1> DEFINE L == Layers(list)
           T == {j \in Nat : j <= Len(list) =>
                   /\ Len(L[j]) \in Nat \ {0} /\ L[j] = [i \in 1..Len(L[j]) |-> L[j][i]]
                   /\ Len(L[j]) = 1 \/ Len(L[j]) + j <= Len(list)}
<1>0. Len(list) \in Nat \ {0} /\ DOMAIN list = 1..Len(list)
  BY EmptySeq, LenProperties
<1>1. /\ L[0] = [i \in DOMAIN list |-> LeafHash(list[i])]
      /\ \A j \in 0..Len(list) : j # 0 => L[j] = NextLayer(L[j - 1])
  BY <1>0, LayersAre
<1> HIDE DEF L
<1>2. ASSUME NEW n \in Nat, NEW s, s = [i \in 1..n |-> s[i]] PROVE Len(s) = n
  <2> DEFINE S == {s[i] : i \in 1..n}
  <2>1. s \in [1..n -> S]
    BY <1>2
  <2> QED
    BY <2>1, FunctionIsSeq
<1>3. 0 \in T
  <2>1. L[0] = [i \in 1..Len(list) |-> L[0][i]]
    BY <1>0, <1>1
  <2>2. Len(L[0]) = Len(list)
    BY <1>0, <1>2, <2>1
  <2> QED
    BY <1>0, <2>1, <2>2
<1>4. ASSUME NEW j \in Nat, j \in T, j + 1 <= Len(list) PROVE j + 1 \in T
  <2>1. /\ Len(L[j]) \in Nat \ {0} /\ L[j] = [i \in 1..Len(L[j]) |-> L[j][i]]
        /\ Len(L[j]) = 1 \/ Len(L[j]) + j <= Len(list)
    BY <1>0, <1>4
  <2> DEFINE n == (Len(L[j]) + 1) \div 2
  <2>2. n \in Nat \ {0} /\ (Len(L[j]) = 1 => n = 1) /\ (Len(L[j]) # 1 => n + 1 <= Len(L[j]))
    <3>1. \A x \in Nat \ {0} : LET y == (x + 1) \div 2
                              IN  y \in Nat \ {0} /\ (x = 1 => y = 1) /\ (x # 1 => y + 1 <= x)
      BY Z3
    <3> QED
      BY <2>1, <3>1
  <2>3. L[j + 1] = NextLayer(L[j])
    BY <1>0, <1>1, <1>4
  <2>4. L[j + 1] = [i \in 1..n |-> L[j + 1][i]]
    BY <2>3 DEF NextLayer
  <2> HIDE DEF n
  <2>5. Len(L[j + 1]) = n
    BY <1>2, <2>2, <2>4
  <2> QED
    BY <1>0, <1>4, <2>1, <2>2, <2>4, <2>5
<1> HIDE DEF T
<1>5. \A j \in Nat : j \in T => j + 1 \in T
  <2> SUFFICES ASSUME NEW j \in Nat, j \in T, j + 1 > Len(list) PROVE j + 1 \in T
    BY <1>0, <1>4
  <2> QED
    BY <1>0 DEF T
<1>6. k \in T
  <2>1. k \in Nat
    BY <1>0
  <2> QED
    BY <1>3, <1>5, <2>1, Induction
<1> QED
  BY <1>0, <1>6 DEF T, L

\* The last layer has one node, the root.
LEMMA OneRoot ==
  ASSUME NEW list \in Seq(OrderParams), list # <<>>
  PROVE  Len(Layers(list)[Len(list)]) = 1
<1>1. Len(list) \in Nat \ {0} /\ Len(list) \in 0..Len(list)
  BY EmptySeq
<1>2. LET l == Layers(list)[Len(list)]
      IN  Len(l) \in Nat \ {0} /\ (Len(l) = 1 \/ Len(l) + Len(list) <= Len(list))
  BY <1>1, LayerShape
<1> QED
  BY <1>1, <1>2

NodesOf(list) == UNION {{Layers(list)[k][i] : i \in 1..Len(Layers(list)[k])} : k \in 0..Len(list)}

\* Each layer above the leaves, from the one below.
LEMMA NextLayerIs ==
  ASSUME NEW list \in Seq(OrderParams), list # <<>>, NEW k \in 0..(Len(list) - 1)
  PROVE  LET l == Layers(list)[k]
             m == Layers(list)[k + 1]
         IN  /\ Len(m) = (Len(l) + 1) \div 2
             /\ \A i \in 1..Len(m) :
                  /\ 2 * i - 1 \in 1..Len(l)
                  /\ IF 2 * i <= Len(l) THEN m[i] = HashPair(l[2 * i - 1], l[2 * i])
                                        ELSE m[i] = l[2 * i - 1]
<1> DEFINE l == Layers(list)[k]
           m == Layers(list)[k + 1]
<1>1. Len(list) \in Nat \ {0} /\ k \in 0..Len(list) /\ k + 1 \in 0..Len(list) /\ k + 1 # 0
  BY EmptySeq
<1>2. m = NextLayer(l)
  <2>1. (k + 1) - 1 = k
    BY <1>1
  <2> QED
    BY <1>1, <2>1, LayersAre
<1>3. Len(l) \in Nat \ {0} /\ Len(m) \in Nat \ {0} /\ m = [i \in 1..Len(m) |-> m[i]]
  BY <1>1, LayerShape
<1> HIDE DEF l, m
<1> DEFINE n == (Len(l) + 1) \div 2
<1>4. m = [i \in 1..n |-> m[i]] /\ DOMAIN m = 1..n
  BY <1>2 DEF NextLayer
<1>5. n \in Nat /\ \A i \in 1..n : 2 * i - 1 \in 1..Len(l)
  <2>1. \A x \in Nat : LET y == (x + 1) \div 2 IN y \in Nat /\ \A i \in 1..y : 2 * i - 1 \in 1..x
    BY Z3
  <2> QED
    BY <1>3, <2>1
<1>6. \A i \in 1..n : IF 2 * i <= Len(l) THEN m[i] = HashPair(l[2 * i - 1], l[2 * i])
                                        ELSE m[i] = l[2 * i - 1]
  BY <1>2 DEF NextLayer
<1> HIDE DEF n
<1>7. Len(m) = n
  <2> DEFINE S == {m[i] : i \in 1..n}
  <2>1. m \in [1..n -> S]
    BY <1>4
  <2> QED
    BY <1>5, <2>1, FunctionIsSeq
<1> QED
  BY <1>5, <1>6, <1>7 DEF n, l, m

\* A node is a leaf, or the hash of two nodes.
LEMMA NodesClosed ==
  ASSUME NEW list \in Seq(OrderParams), list # <<>>, NEW x \in NodesOf(list)
  PROVE  \/ \E i \in 1..Len(list) : x = LeafHash(list[i])
         \/ \E a, b \in NodesOf(list) : x = HashPair(a, b)
<1> DEFINE Made(y) == \/ \E i \in 1..Len(list) : y = LeafHash(list[i])
                      \/ \E a, b \in NodesOf(list) : y = HashPair(a, b)
           L == Layers(list)
           T == {k \in Nat : k <= Len(list) => \A i \in 1..Len(L[k]) : Made(L[k][i])}
<1>1. Len(list) \in Nat \ {0} /\ DOMAIN list = 1..Len(list)
  BY EmptySeq, LenProperties
<1>2. \A k \in 0..Len(list) : \A i \in 1..Len(L[k]) : L[k][i] \in NodesOf(list)
  BY DEF NodesOf
<1>3. L[0] = [i \in DOMAIN list |-> LeafHash(list[i])]
  BY <1>1, LayersAre
<1>4. L[0] = [i \in 1..Len(L[0]) |-> L[0][i]]
  BY <1>1, LayerShape
<1>5. \A k \in 0..(Len(list) - 1) : \A i \in 1..Len(L[k + 1]) :
        /\ 2 * i - 1 \in 1..Len(L[k])
        /\ IF 2 * i <= Len(L[k]) THEN L[k + 1][i] = HashPair(L[k][2 * i - 1], L[k][2 * i])
                                 ELSE L[k + 1][i] = L[k][2 * i - 1]
  BY NextLayerIs
<1>6. \A k \in 0..Len(list) : Len(L[k]) \in Nat
  BY LayerShape
<1> HIDE DEF L, Made
<1>7. 0 \in T
  <2> SUFFICES ASSUME NEW i \in 1..Len(L[0]) PROVE Made(L[0][i])
    OBVIOUS
  <2>1. i \in DOMAIN list
    BY <1>3, <1>4
  <2> QED
    BY <1>1, <1>3, <2>1 DEF Made
<1>8. ASSUME NEW k \in Nat, k \in T PROVE k + 1 \in T
  <2> SUFFICES ASSUME k + 1 <= Len(list), NEW i \in 1..Len(L[k + 1]) PROVE Made(L[k + 1][i])
    OBVIOUS
  <2>1. k \in 0..(Len(list) - 1) /\ k \in 0..Len(list) /\ k + 1 \in 0..Len(list)
    BY <1>1
  <2>2. 2 * i - 1 \in 1..Len(L[k]) /\ Len(L[k]) \in Nat /\ i \in Nat
    BY <1>5, <1>6, <2>1
  <2>3. CASE 2 * i <= Len(L[k])
    <3>1. 2 * i \in 1..Len(L[k])
      BY <2>2, <2>3
    <3>2. L[k][2 * i - 1] \in NodesOf(list) /\ L[k][2 * i] \in NodesOf(list)
      BY <1>2, <2>1, <2>2, <3>1
    <3>3. L[k + 1][i] = HashPair(L[k][2 * i - 1], L[k][2 * i])
      BY <1>5, <2>1, <2>3
    <3> QED
      BY <3>2, <3>3, Zenon DEF Made
  <2>4. CASE ~ 2 * i <= Len(L[k])
    <3>1. L[k + 1][i] = L[k][2 * i - 1]
      BY <1>5, <2>1, <2>4
    <3>2. Made(L[k][2 * i - 1])
      BY <1>8, <2>1, <2>2
    <3> QED
      BY <3>1, <3>2
  <2> QED
    BY <2>3, <2>4
<1> HIDE DEF T
<1>9. \A k \in Nat : k \in T
  BY <1>7, <1>8, Induction
<1>10. PICK k \in 0..Len(list) : \E i \in 1..Len(L[k]) : x = L[k][i]
  BY DEF NodesOf, L
<1>11. Made(x)
  BY <1>1, <1>9, <1>10 DEF T
<1> QED
  BY <1>11, Zenon DEF Made

\* What a proof folds to the root, whatever the proof, is the hash of an order of the list.
LEMMA OnlyLeavesVerify ==
  ASSUME NEW list \in Seq(OrderParams), NEW p, NEW proof, Len(proof) \in Nat,
         ProcessProof(LeafHash(p), proof) \in RootOf(list)
  PROVE  p \in ToSet(list)
<1>0. list # <<>> /\ ProcessProof(LeafHash(p), proof) = Layers(list)[Len(list)][1]
  BY DEF RootOf
<1>1. Len(list) \in Nat \ {0} /\ DOMAIN list = 1..Len(list)
  BY <1>0, EmptySeq, LenProperties
<1>2. PICK f : HashesOf(LeafHash(p), proof, Len(proof), f)
               /\ ProcessProof(LeafHash(p), proof) = f[Len(proof)]
  BY HashesAre
<1> DEFINE n == Len(proof)
           T == {j \in Nat : j <= n => f[n - j] \in NodesOf(list)}
<1>3. /\ f[0] = LeafHash(p) /\ n \in Nat
      /\ \A k \in 0..n : k # 0 => f[k] = HashPair(f[k - 1], proof[k])
  BY <1>2 DEF HashesOf
<1>4. \A a, b, c, d : HashPair(a, b) = HashPair(c, d) => a \in {c, d}
  BY DEF HashPair
<1>5. \A q, a, b : LeafHash(q) # HashPair(a, b)
  BY DEF LeafHash, HashPair
<1>6. \A q, r : LeafHash(q) = LeafHash(r) => q = r
  BY DEF LeafHash
<1>7. f[n] \in NodesOf(list)
  <2>1. Len(Layers(list)[Len(list)]) = 1 /\ Len(list) \in 0..Len(list)
    BY <1>0, <1>1, OneRoot
  <2>2. 1 \in 1..Len(Layers(list)[Len(list)])
    BY <2>1
  <2>3. Layers(list)[Len(list)][1] \in NodesOf(list)
    BY <2>1, <2>2 DEF NodesOf
  <2>4. f[n] = Layers(list)[Len(list)][1]
    BY <1>0, <1>2, Zenon
  <2> QED
    BY <2>3, <2>4, Zenon
<1> HIDE DEF n
<1>8. 0 \in T
  BY <1>3, <1>7
<1>9. ASSUME NEW j \in Nat, j \in T PROVE j + 1 \in T
  <2> SUFFICES ASSUME j + 1 <= n PROVE f[n - (j + 1)] \in NodesOf(list)
    OBVIOUS
  <2> DEFINE k == n - j
  <2>1. k \in 0..n /\ k # 0 /\ k - 1 = n - (j + 1) /\ f[k] \in NodesOf(list)
    BY <1>3, <1>9
  <2> HIDE DEF k
  <2>2. f[k] = HashPair(f[k - 1], proof[k])
    BY <1>3, <2>1
  <2>3. PICK a, b \in NodesOf(list) : f[k] = HashPair(a, b)
    <3>1. \A i \in 1..Len(list) : f[k] # LeafHash(list[i])
      BY <1>5, <2>2
    <3> QED
      BY <1>0, <2>1, <3>1, NodesClosed
  <2>4. f[k - 1] \in {a, b}
    <3>1. HashPair(f[k - 1], proof[k]) = HashPair(a, b)
      BY <2>2, <2>3
    <3> QED
      BY <1>4, <3>1
  <2> QED
    BY <2>1, <2>3, <2>4
<1> HIDE DEF T
<1>10. n \in T
  BY <1>3, <1>8, <1>9, Induction
<1>11. f[0] \in NodesOf(list)
  BY <1>3, <1>10 DEF T
<1>12. PICK i \in 1..Len(list) : f[0] = LeafHash(list[i])
  BY <1>0, <1>3, <1>5, <1>11, NodesClosed
<1>13. p = list[i]
  BY <1>3, <1>6, <1>12
<1> QED
  BY <1>1, <1>12, <1>13 DEF ToSet
-----------------------------------------------------------------------------
(* Proofs of the orders that are there.                                      *)

LEMMA ProcessNothing == ASSUME NEW leaf PROVE ProcessProof(leaf, <<>>) = leaf
<1>1. PICK f : HashesOf(leaf, <<>>, 0, f) /\ ProcessProof(leaf, <<>>) = f[0]
  <2>1. Len(<<>>) = 0
    BY EmptySeq
  <2> QED
    BY <2>1, HashesAre
<1> QED
  BY <1>1 DEF HashesOf

\* One more sibling is one more hash.
LEMMA ProcessMore ==
  ASSUME NEW leaf, NEW S, NEW s \in Seq(S), NEW y \in S
  PROVE  ProcessProof(leaf, s \o <<y>>) = HashPair(ProcessProof(leaf, s), y)
<1> DEFINE t == s \o <<y>>
           n == Len(s)
<1>1. /\ n \in Nat /\ Len(t) = n + 1 /\ t[n + 1] = y
      /\ \A i \in 1..n : t[i] = s[i]
  <2>1. <<y>> \in Seq(S) /\ Len(<<y>>) = 1 /\ <<y>>[1] = y
    OBVIOUS
  <2>2. n \in Nat
    BY LenProperties
  <2>3. Len(t) = n + 1 /\ \A i \in 1..n + 1 : t[i] = IF i <= n THEN s[i] ELSE <<y>>[i - n]
    BY <2>1, ConcatProperties
  <2>4. t[n + 1] = <<y>>[1]
    <3>1. n + 1 \in 1..n + 1 /\ ~ n + 1 <= n /\ (n + 1) - n = 1
      BY <2>2
    <3> QED
      BY <2>3, <3>1
  <2> QED
    BY <2>1, <2>2, <2>3, <2>4
<1>2. PICK f : HashesOf(leaf, s, n, f) /\ ProcessProof(leaf, s) = f[n]
  BY <1>1, HashesAre
<1> HIDE DEF t, n
<1>3. PICK g : HashesOf(leaf, t, n + 1, g) /\ ProcessProof(leaf, t) = g[n + 1]
  BY <1>1, HashesAre
<1>4. /\ f[0] = leaf /\ \A k \in 0..n : k # 0 => f[k] = HashPair(f[k - 1], s[k])
      /\ g[0] = leaf /\ \A k \in 0..(n + 1) : k # 0 => g[k] = HashPair(g[k - 1], t[k])
  BY <1>1, <1>2, <1>3 DEF HashesOf
<1> DEFINE T == {k \in Nat : k <= n => f[k] = g[k]}
<1>5. 0 \in T
  BY <1>4
<1>6. ASSUME NEW k \in Nat, k \in T PROVE k + 1 \in T
  <2> SUFFICES ASSUME k + 1 <= n PROVE f[k + 1] = g[k + 1]
    OBVIOUS
  <2>1. /\ k + 1 \in 0..n /\ k + 1 \in 0..(n + 1) /\ k + 1 # 0 /\ (k + 1) - 1 = k /\ k + 1 \in 1..n
        /\ f[k] = g[k]
    BY <1>1, <1>6
  <2>2. f[k + 1] = HashPair(f[k], s[k + 1]) /\ g[k + 1] = HashPair(g[k], t[k + 1])
    BY <1>4, <2>1
  <2> QED
    BY <1>1, <2>1, <2>2
<1> HIDE DEF T
<1>7. n \in T
  BY <1>1, <1>5, <1>6, Induction
<1>8. f[n] = g[n]
  BY <1>1, <1>7 DEF T
<1>9. g[n + 1] = HashPair(g[n], t[n + 1])
  <2>1. n + 1 \in 0..(n + 1) /\ n + 1 # 0 /\ (n + 1) - 1 = n
    BY <1>1
  <2> QED
    BY <1>4, <2>1
<1> QED
  BY <1>1, <1>2, <1>3, <1>8, <1>9 DEF t, n

PlacesOf(i, n, f) == f = [k \in 0..n |-> IF k = 0 THEN i ELSE (f[k - 1] + 1) \div 2]

LEMMA PlacesExist == ASSUME NEW i, NEW n \in Nat PROVE \E f : PlacesOf(i, n, f)
<1> DEFINE T == {m \in Nat : \E f : PlacesOf(i, m, f)}
<1>1. 0 \in T
  <2>1. PlacesOf(i, 0, [k \in 0..0 |-> i])
    BY DEF PlacesOf
  <2> QED
    BY <2>1
<1>2. ASSUME NEW m \in Nat, m \in T PROVE m + 1 \in T
  <2>1. PICK f : PlacesOf(i, m, f)
    BY <1>2
  <2> DEFINE g == [k \in 0..(m + 1) |-> IF k = 0 THEN i ELSE (f[k - 1] + 1) \div 2]
  <2>2. \A k \in 0..m : f[k] = g[k]
    BY <2>1 DEF PlacesOf
  <2>3. ASSUME NEW k \in 0..(m + 1), k # 0 PROVE g[k] = (g[k - 1] + 1) \div 2
    <3>1. k - 1 \in 0..m /\ g[k] = (f[k - 1] + 1) \div 2
      BY <2>3
    <3> QED
      BY <2>2, <3>1
  <2>4. g = [k \in 0..(m + 1) |-> IF k = 0 THEN i ELSE (g[k - 1] + 1) \div 2]
    <3>1. \A k \in 0..(m + 1) : g[k] = IF k = 0 THEN i ELSE (g[k - 1] + 1) \div 2
      BY <2>3
    <3> QED
      BY <3>1
  <2> HIDE DEF g
  <2>5. PlacesOf(i, m + 1, g)
    BY <2>4 DEF PlacesOf
  <2> QED
    BY <2>5
<1> HIDE DEF T
<1>3. n \in T
  BY <1>1, <1>2, Induction
<1> QED
  BY <1>3 DEF T

\* The proof one layer up.
Longer(list, at, proof, k) == proof \o Sibling(Layers(list)[k - 1], at[k - 1])

PathsOf(list, at, n, f) ==
  f = [k \in 0..n |-> IF k = 0 THEN <<>> ELSE Longer(list, at, f[k - 1], k)]

LEMMA PathsExist == ASSUME NEW list, NEW at, NEW n \in Nat PROVE \E f : PathsOf(list, at, n, f)
<1> DEFINE T == {m \in Nat : \E f : PathsOf(list, at, m, f)}
<1>1. 0 \in T
  <2>1. PathsOf(list, at, 0, [k \in 0..0 |-> <<>>])
    BY DEF PathsOf
  <2> QED
    BY <2>1
<1>2. ASSUME NEW m \in Nat, m \in T PROVE m + 1 \in T
  <2>1. PICK f : PathsOf(list, at, m, f)
    BY <1>2
  <2> DEFINE g == [k \in 0..(m + 1) |-> IF k = 0 THEN <<>> ELSE Longer(list, at, f[k - 1], k)]
  <2>2. \A k \in 0..m : f[k] = g[k]
    BY <2>1 DEF PathsOf
  <2>3. ASSUME NEW k \in 0..(m + 1), k # 0 PROVE g[k] = Longer(list, at, g[k - 1], k)
    <3>1. k - 1 \in 0..m /\ g[k] = Longer(list, at, f[k - 1], k)
      BY <2>3
    <3> QED
      BY <2>2, <3>1
  <2>4. g = [k \in 0..(m + 1) |-> IF k = 0 THEN <<>> ELSE Longer(list, at, g[k - 1], k)]
    <3>1. \A k \in 0..(m + 1) : g[k] = IF k = 0 THEN <<>> ELSE Longer(list, at, g[k - 1], k)
      BY <2>3
    <3> QED
      BY <3>1
  <2> HIDE DEF g
  <2>5. PathsOf(list, at, m + 1, g)
    BY <2>4 DEF PathsOf
  <2> QED
    BY <2>5
<1> HIDE DEF T
<1>3. n \in T
  BY <1>1, <1>2, Induction
<1> QED
  BY <1>3 DEF T

LEMMA PathsAre ==
  ASSUME NEW list, Len(list) \in Nat, NEW i
  PROVE  \E at, path : /\ PlacesOf(i, Len(list), at) /\ PathsOf(list, at, Len(list), path)
                       /\ ProofOf(list, i) = path[Len(list)]
<1> DEFINE at == CHOOSE f : PlacesOf(i, Len(list), f)
           path == CHOOSE f : PathsOf(list, at, Len(list), f)
<1>1. PlacesOf(i, Len(list), at)
  BY PlacesExist, Zenon
<1>2. PathsOf(list, at, Len(list), path)
  BY PathsExist, Zenon
<1>3. ProofOf(list, i) = path[Len(list)]
  BY Zenon DEF ProofOf, PlacesOf, PathsOf, Longer
<1> QED
  BY <1>1, <1>2, <1>3, Zenon

\* On the way up, the proof so far folds to the node that has been reached.
LEMMA Climbs ==
  ASSUME NEW list \in Seq(OrderParams), NEW i \in 1..Len(list)
  PROVE  /\ ProofOf(list, i) \in Seq(NodesOf(list)) /\ Len(ProofOf(list, i)) < Len(list)
         /\ ProcessProof(LeafHash(list[i]), ProofOf(list, i)) \in RootOf(list)
<1> DEFINE n == Len(list)
           L == Layers(list)
           leaf == LeafHash(list[i])
           S == NodesOf(list)
<1>1. n \in Nat \ {0} /\ DOMAIN list = 1..n /\ list # <<>> /\ i \in 1..n
  BY LenProperties, EmptySeq
<1>2. PICK at, path : /\ PlacesOf(i, n, at) /\ PathsOf(list, at, n, path)
                      /\ ProofOf(list, i) = path[n]
  BY <1>1, PathsAre
<1> DEFINE Here(k) ==
             /\ at[k] \in 1..Len(L[k]) /\ path[k] \in Seq(S) /\ Len(path[k]) + Len(L[k]) <= n
             /\ ProcessProof(leaf, path[k]) = L[k][at[k]]
           T == {k \in Nat : k <= n => Here(k)}
<1>3. /\ at[0] = i /\ \A k \in 0..n : k # 0 => at[k] = (at[k - 1] + 1) \div 2
      /\ path[0] = <<>>
      /\ \A k \in 0..n : k # 0 => path[k] = path[k - 1] \o Sibling(L[k - 1], at[k - 1])
  <2>1. \A m \in Nat : \A f : PlacesOf(i, m, f) =>
          f[0] = i /\ \A k \in 0..m : k # 0 => f[k] = (f[k - 1] + 1) \div 2
    <3> SUFFICES ASSUME NEW m \in Nat, NEW f, PlacesOf(i, m, f)
                 PROVE  f[0] = i /\ \A k \in 0..m : k # 0 => f[k] = (f[k - 1] + 1) \div 2
      OBVIOUS
    <3>1. 0 \in 0..m
      OBVIOUS
    <3>2. \A k \in 0..m : f[k] = IF k = 0 THEN i ELSE (f[k - 1] + 1) \div 2
      BY Zenon DEF PlacesOf
    <3> QED
      BY <3>1, <3>2
  <2>2. \A m \in Nat : \A f : PathsOf(list, at, m, f) =>
          f[0] = <<>> /\ \A k \in 0..m : k # 0 => f[k] = Longer(list, at, f[k - 1], k)
    <3> SUFFICES ASSUME NEW m \in Nat, NEW f, PathsOf(list, at, m, f)
                 PROVE  f[0] = <<>> /\ \A k \in 0..m : k # 0 => f[k] = Longer(list, at, f[k - 1], k)
      OBVIOUS
    <3>1. 0 \in 0..m
      OBVIOUS
    <3>2. \A k \in 0..m : f[k] = IF k = 0 THEN <<>> ELSE Longer(list, at, f[k - 1], k)
      BY Zenon DEF PathsOf
    <3> QED
      BY <3>1, <3>2
  <2> QED
    BY <1>1, <1>2, <2>1, <2>2 DEF Longer
<1>4. /\ L[0] = [j \in 1..n |-> LeafHash(list[j])]
      /\ L[0] = [j \in 1..Len(L[0]) |-> L[0][j]]
  BY <1>1, LayersAre, LayerShape
<1>5. \A k \in 0..(n - 1) :
        /\ Len(L[k + 1]) = (Len(L[k]) + 1) \div 2
        /\ \A j \in 1..Len(L[k + 1]) :
             IF 2 * j <= Len(L[k]) THEN L[k + 1][j] = HashPair(L[k][2 * j - 1], L[k][2 * j])
                                   ELSE L[k + 1][j] = L[k][2 * j - 1]
  BY <1>1, NextLayerIs
<1>6. \A k \in 0..n : Len(L[k]) \in Nat \ {0} /\ \A j \in 1..Len(L[k]) : L[k][j] \in S
  <2>1. \A k \in 0..n : Len(L[k]) \in Nat \ {0}
    BY <1>1, LayerShape
  <2>2. \A k \in 0..n : \A j \in 1..Len(L[k]) : L[k][j] \in NodesOf(list)
    BY DEF NodesOf
  <2> QED
    BY <2>1, <2>2
<1>7. Len(L[n]) = 1
  BY <1>1, OneRoot
<1>8. RootOf(list) = {L[n][1]}
  BY <1>1 DEF RootOf
<1> HIDE DEF n, L, S, leaf
<1>9. 0 \in T
  <2>1. Len(L[0]) = n
    <3>1. L[0] \in [1..n -> {L[0][j] : j \in 1..n}]
      BY <1>4
    <3> QED
      BY <1>1, <3>1, FunctionIsSeq
  <2>2. path[0] \in Seq(S) /\ Len(path[0]) = 0
    BY <1>3, EmptySeq
  <2>3. ProcessProof(leaf, path[0]) = leaf
    BY <1>3, ProcessNothing
  <2>4. L[0][i] = leaf
    BY <1>1, <1>4 DEF leaf
  <2>5. Here(0)
    BY <1>1, <1>3, <2>1, <2>2, <2>3, <2>4
  <2> QED
    BY <2>5
<1>10. ASSUME NEW k \in Nat, Here(k), k + 1 <= n PROVE Here(k + 1)
  <2> DEFINE a == at[k]
             m == Len(L[k])
             j == at[k + 1]
             s == path[k]
  <2>1. Here(k) /\ k \in 0..(n - 1) /\ k \in 0..n /\ k + 1 \in 0..n /\ k + 1 # 0 /\ (k + 1) - 1 = k
    <3> HIDE DEF Here
    <3> QED
      BY <1>1, <1>10
  <2>2. j = (a + 1) \div 2 /\ path[k + 1] = s \o Sibling(L[k], a)
    BY <1>3, <2>1
  <2>3. /\ a \in 1..m /\ m \in Nat \ {0} /\ Len(L[k + 1]) = (m + 1) \div 2
        /\ s \in Seq(S) /\ Len(s) + m <= n /\ ProcessProof(leaf, s) = L[k][a]
        /\ Len(s) \in Nat
    BY <1>5, <1>6, <2>1, LenProperties
  <2>4. j \in 1..Len(L[k + 1])
    <3>1. \A x \in Nat : \A y \in 1..x : (y + 1) \div 2 \in 1..((x + 1) \div 2)
      BY Z3
    <3> QED
      BY <2>2, <2>3, <3>1
  <2>5. IF 2 * j <= m THEN L[k + 1][j] = HashPair(L[k][2 * j - 1], L[k][2 * j])
                      ELSE L[k + 1][j] = L[k][2 * j - 1]
    BY <1>5, <2>1, <2>4
  <2>6. m = 1 => Len(L[k + 1]) = 1
    BY <2>3
  <2>7. m # 1 => Len(L[k + 1]) + 1 <= m
    <3>1. \A x \in Nat \ {0, 1} : (x + 1) \div 2 + 1 <= x
      BY Z3
    <3> QED
      BY <2>3, <3>1
  <2>8. \A x, y : HashPair(x, y) = HashPair(y, x)
    BY DEF HashPair
  <2>9. \A x \in 1..m : L[k][x] \in S
    BY <1>6, <2>1
  <2> HIDE DEF a, m, j, s
  <2>14. \A x \in Nat : IF x % 2 = 0 THEN 2 * ((x + 1) \div 2) = x ELSE 2 * ((x + 1) \div 2) = x + 1
    BY Z3
  <2>15. IF a % 2 = 0 THEN 2 * j = a ELSE 2 * j = a + 1
    BY <2>2, <2>3, <2>14
  <2>16. a \in Nat /\ (a % 2 = 0 => a # 1)
    BY <2>3
  <2>10. ASSUME NEW y \in S, Sibling(L[k], a) = <<y>>, L[k + 1][j] = HashPair(L[k][a], y), m # 1
         PROVE  Here(k + 1)
    <3>1. <<y>> \in Seq(S) /\ Len(<<y>>) = 1
      BY <2>10
    <3>2. path[k + 1] = s \o <<y>>
      BY <2>2, <2>10
    <3>3. path[k + 1] \in Seq(S) /\ Len(path[k + 1]) = Len(s) + 1
      BY <2>3, <3>1, <3>2, ConcatProperties
    <3>4. ProcessProof(leaf, path[k + 1]) = HashPair(L[k][a], y)
      BY <2>3, <3>2, ProcessMore
    <3>5. Len(L[k + 1]) \in Nat
      BY <1>6, <2>1
    <3>6. Len(path[k + 1]) + Len(L[k + 1]) <= n
      BY <1>1, <2>3, <2>7, <2>10, <3>3, <3>5
    <3> QED
      BY <2>4, <2>10, <3>3, <3>4, <3>6 DEF j
  <2>11. CASE a % 2 = 0
    <3>1. 2 * j = a /\ a - 1 \in 1..m /\ 2 * j <= m /\ 2 * j - 1 = a - 1 /\ m # 1
      BY <2>3, <2>11, <2>15, <2>16
    <3>2. Sibling(L[k], a) = <<L[k][a - 1]>>
      BY <2>11 DEF Sibling
    <3>3. L[k + 1][j] = HashPair(L[k][a], L[k][a - 1])
      BY <2>5, <2>8, <3>1
    <3> QED
      BY <2>9, <2>10, <3>1, <3>2, <3>3
  <2>12. CASE a % 2 # 0 /\ a < m
    <3>1. 2 * j = a + 1 /\ a + 1 \in 1..m /\ 2 * j <= m /\ 2 * j - 1 = a /\ m # 1
      BY <2>3, <2>12, <2>15, <2>16
    <3>2. Sibling(L[k], a) = <<L[k][a + 1]>>
      BY <2>12 DEF Sibling, m
    <3>3. L[k + 1][j] = HashPair(L[k][a], L[k][a + 1])
      BY <2>5, <3>1
    <3> QED
      BY <2>9, <2>10, <3>1, <3>2, <3>3
  <2>13. CASE a % 2 # 0 /\ ~ a < m
    <3>1. ~ 2 * j <= m /\ 2 * j - 1 = a
      BY <2>3, <2>13, <2>15, <2>16
    <3>2. Sibling(L[k], a) = <<>>
      BY <2>13 DEF Sibling, m
    <3>3. path[k + 1] = s
      BY <2>2, <2>3, <3>2, ConcatEmptySeq
    <3>4. Len(L[k + 1]) <= m /\ Len(L[k + 1]) \in Nat
      BY <1>6, <2>1, <2>3, <2>6, <2>7
    <3>5. Len(s) + Len(L[k + 1]) <= n
      BY <1>1, <2>3, <3>4
    <3>6. L[k + 1][j] = L[k][a]
      BY <2>5, <3>1
    <3> QED
      BY <2>3, <2>4, <3>3, <3>5, <3>6 DEF j
  <2> QED
    BY <2>11, <2>12, <2>13
<1>11. \A k \in Nat : k \in T => k + 1 \in T
  <2> HIDE DEF Here
  <2> SUFFICES ASSUME NEW k \in Nat, k \in T, k + 1 <= n PROVE Here(k + 1)
    OBVIOUS
  <2>1. Here(k)
    BY <1>1
  <2> QED
    BY <1>10, <2>1
<1> HIDE DEF T
<1>12. n \in T
  BY <1>1, <1>9, <1>11, Induction
<1>13. Here(n)
  <2> HIDE DEF Here
  <2> QED
    BY <1>1, <1>12 DEF T
<1>14. at[n] = 1 /\ Len(path[n]) \in Nat
  BY <1>7, <1>13, LenProperties
<1> QED
  BY <1>1, <1>2, <1>7, <1>8, <1>13, <1>14 DEF n, leaf, S
-----------------------------------------------------------------------------
(* Taking orders out.                                                        *)
Keep(l, id, kept, k) == IF l[k] = id THEN kept ELSE Append(kept, l[k])

KeptOf(l, id, n, f) ==
  f = [k \in 0..n |-> IF k = 0 THEN <<>> ELSE Keep(l, id, f[k - 1], k)]

LEMMA KeptExist == ASSUME NEW l, NEW id, NEW n \in Nat PROVE \E f : KeptOf(l, id, n, f)
<1> DEFINE T == {m \in Nat : \E f : KeptOf(l, id, m, f)}
<1>1. 0 \in T
  <2>1. KeptOf(l, id, 0, [k \in 0..0 |-> <<>>])
    BY DEF KeptOf
  <2> QED
    BY <2>1
<1>2. ASSUME NEW m \in Nat, m \in T PROVE m + 1 \in T
  <2>1. PICK f : KeptOf(l, id, m, f)
    BY <1>2
  <2> DEFINE g == [k \in 0..(m + 1) |-> IF k = 0 THEN <<>> ELSE Keep(l, id, f[k - 1], k)]
  <2>2. \A k \in 0..m : f[k] = g[k]
    BY <2>1 DEF KeptOf
  <2>3. ASSUME NEW k \in 0..(m + 1), k # 0 PROVE g[k] = Keep(l, id, g[k - 1], k)
    <3>1. k - 1 \in 0..m /\ g[k] = Keep(l, id, f[k - 1], k)
      BY <2>3
    <3> QED
      BY <2>2, <3>1
  <2>4. g = [k \in 0..(m + 1) |-> IF k = 0 THEN <<>> ELSE Keep(l, id, g[k - 1], k)]
    <3>1. \A k \in 0..(m + 1) : g[k] = IF k = 0 THEN <<>> ELSE Keep(l, id, g[k - 1], k)
      BY <2>3
    <3> QED
      BY <3>1
  <2> HIDE DEF g
  <2>5. KeptOf(l, id, m + 1, g)
    BY <2>4 DEF KeptOf
  <2> QED
    BY <2>5
<1> HIDE DEF T
<1>3. n \in T
  BY <1>1, <1>2, Induction
<1> QED
  BY <1>3 DEF T


\* Without the orders with an id, no order with that id is left.
LEMMA NoneLeft ==
  ASSUME NEW S, NEW l \in Seq(S), NEW id
  PROVE  /\ Without(l, id) \in Seq(S) /\ Len(Without(l, id)) <= Len(l)
         /\ id \notin ToSet(Without(l, id))
<1> DEFINE n == Len(l)
           kept == CHOOSE f : KeptOf(l, id, n, f)
           T == {k \in Nat : k <= n => /\ kept[k] \in Seq(S) /\ Len(kept[k]) <= k
                                       /\ \A i \in 1..Len(kept[k]) : kept[k][i] # id}
<1>1. n \in Nat /\ \A k \in 1..n : l[k] \in S
  BY LenProperties, ElementOfSeq
<1>2. Without(l, id) = kept[n]
  BY Zenon DEF Without, KeptOf, Keep
<1>3. KeptOf(l, id, n, kept)
  <2>1. \E f : KeptOf(l, id, n, f)
    BY <1>1, KeptExist
  <2> QED
    BY <2>1, Zenon
<1> HIDE DEF n, kept
<1>4. kept[0] = <<>> /\ \A k \in 0..n : k # 0 => kept[k] = Keep(l, id, kept[k - 1], k)
  <2>1. 0 \in 0..n
    BY <1>1
  <2>2. \A k \in 0..n : kept[k] = IF k = 0 THEN <<>> ELSE Keep(l, id, kept[k - 1], k)
    BY <1>3, Zenon DEF KeptOf
  <2> QED
    BY <2>1, <2>2
<1>5. 0 \in T
  <2>1. kept[0] \in Seq(S) /\ Len(kept[0]) = 0
    BY <1>4, EmptySeq
  <2> QED
    BY <2>1
<1>6. ASSUME NEW k \in Nat, k \in T, k + 1 <= n PROVE k + 1 \in T
  <2>1. k + 1 \in 0..n /\ k + 1 \in 1..n /\ k + 1 # 0 /\ (k + 1) - 1 = k
    BY <1>1, <1>6
  <2>2. kept[k + 1] = IF l[k + 1] = id THEN kept[k] ELSE Append(kept[k], l[k + 1])
    BY <1>4, <2>1 DEF Keep
  <2>3. /\ kept[k] \in Seq(S) /\ Len(kept[k]) \in Nat /\ Len(kept[k]) <= k
        /\ \A i \in 1..Len(kept[k]) : kept[k][i] # id
    BY <1>1, <1>6, LenProperties
  <2>4. CASE l[k + 1] = id
    BY <2>2, <2>3, <2>4
  <2>5. CASE l[k + 1] # id
    <3> DEFINE e == l[k + 1]
               s == kept[k]
    <3>1. e \in S /\ kept[k + 1] = Append(s, e)
      BY <1>1, <2>1, <2>2, <2>5
    <3>2. s \in Seq(S)
      BY <2>3
    <3> HIDE DEF e, s
    <3>3. /\ Append(s, e) \in Seq(S) /\ Len(Append(s, e)) = Len(s) + 1
          /\ \A i \in 1..Len(s) : Append(s, e)[i] = s[i]
          /\ Append(s, e)[Len(s) + 1] = e
      BY <3>1, <3>2, AppendProperties
    <3>4. \A i \in 1..Len(s) + 1 : Append(s, e)[i] # id
      BY <2>3, <2>5, <3>3 DEF e, s
    <3>5. Len(s) + 1 <= k + 1
      BY <2>3 DEF s
    <3>6. /\ kept[k + 1] \in Seq(S) /\ Len(kept[k + 1]) <= k + 1
          /\ \A i \in 1..Len(kept[k + 1]) : kept[k + 1][i] # id
      BY <3>1, <3>3, <3>4, <3>5, Zenon
    <3> QED
      BY <3>6
  <2> QED
    BY <2>4, <2>5
<1>7. \A k \in Nat : k \in T => k + 1 \in T
  <2> SUFFICES ASSUME NEW k \in Nat, k \in T, k + 1 > n PROVE k + 1 \in T
    BY <1>1, <1>6
  <2> QED
    BY <1>1
<1> HIDE DEF T
<1>8. n \in T
  BY <1>1, <1>5, <1>7, Induction
<1>9. /\ kept[n] \in Seq(S) /\ Len(kept[n]) <= n
      /\ \A i \in 1..Len(kept[n]) : kept[n][i] # id
  BY <1>1, <1>8 DEF T
<1>10. DOMAIN kept[n] = 1..Len(kept[n])
  BY <1>9, LenProperties
<1> QED
  BY <1>2, <1>9, <1>10 DEF ToSet, n
-----------------------------------------------------------------------------
(* The owner, the contract and the watchtower.                               *)
IsList(l) == l \in Seq(OrderParams) /\ Len(l) <= MaxOrders

\* Lists of orders, no longer than they may be, and the root of the one registered.
MuxInv ==
  /\ IsList(orders) /\ IsList(registered) /\ (file = {} \/ \E l : file = {l} /\ IsList(l))
  /\ root = RootOf(registered)
  /\ \A e \in published : e.params \in OrderParams /\ Len(e.proof) \in Nat /\ Len(e.proof) < MaxOrders

LEMMA MuxInvInit == MuxInit => MuxInv
<1> SUFFICES ASSUME MuxInit PROVE MuxInv
  OBVIOUS
<1>1. <<>> \in Seq(OrderParams) /\ Len(<<>>) = 0 /\ MaxOrders \in Nat
  BY EmptySeq, MuxAssumption
<1> QED
  BY <1>1 DEF MuxInit, MuxInv, IsList, RootOf

\* Putting a list in the place of the old one.
LEMMA EditKeeps ==
  ASSUME MuxInv, NEW l, IsList(l), Edit(l)
  PROVE  MuxInv'
  BY DEF Edit, MuxInv, IsList

LEMMA MuxInvStep == MuxInv /\ [MuxNext]_muxVars => MuxInv'
<1> SUFFICES ASSUME MuxInv, [MuxNext]_muxVars PROVE MuxInv'
  OBVIOUS
<1>0. /\ orders \in Seq(OrderParams) /\ Len(orders) \in Nat /\ Len(orders) <= MaxOrders
      /\ MaxOrders \in Nat
      /\ DOMAIN orders = 1..Len(orders) /\ ToSet(orders) \subseteq OrderParams
  BY LenProperties, ElementOfSeq, MuxAssumption DEF MuxInv, IsList, ToSet
<1>1. ASSUME NEW p \in OrderParams, Add(p) PROVE MuxInv'
  <2>1. IsList(Append(orders, p))
    BY <1>0, <1>1, AppendProperties DEF Add, IsList
  <2> QED
    BY <1>1, <2>1, EditKeeps DEF Add
<1>2. ASSUME NEW p \in OrderParams, RemoveOrder(p) PROVE MuxInv'
  <2>1. /\ Without(orders, p) \in Seq(OrderParams) /\ Len(Without(orders, p)) <= Len(orders)
    BY <1>0, NoneLeft
  <2>2. Len(Without(orders, p)) \in Nat
    BY <2>1, LenProperties
  <2>3. IsList(Without(orders, p))
    BY <1>0, <2>1, <2>2 DEF IsList
  <2> QED
    BY <1>2, <2>3, EditKeeps DEF RemoveOrder
<1>3. ASSUME NEW p \in OrderParams, NEW i \in DOMAIN orders, Update(i, p) PROVE MuxInv'
  <2>1. IsList([orders EXCEPT ![i] = p])
    BY <1>0, ExceptSeq DEF IsList
  <2> QED
    BY <1>3, <2>1, EditKeeps DEF Update
<1>4. CASE Clear
  <2>1. IsList(<<>>)
    BY <1>0, EmptySeq DEF IsList
  <2> QED
    BY <1>0, <1>4, <2>1, EditKeeps DEF Clear
<1>5. CASE Save
  BY <1>5 DEF Save, MuxInv, IsList
<1>6. CASE Restart
  <2>1. PICK l \in file : Edit(l)
    BY <1>6 DEF Restart
  <2>2. IsList(l)
    BY <2>1 DEF MuxInv
  <2> QED
    BY <2>1, <2>2, EditKeeps
<1>7. CASE SetRoot
  BY <1>7 DEF SetRoot, MuxInv, IsList
<1>8. CASE Publish
  <2>1. ASSUME NEW e \in published'
        PROVE  e.params \in OrderParams /\ Len(e.proof) \in Nat /\ Len(e.proof) < MaxOrders
    <3>1. PICK i \in 1..Len(orders) : e = [params |-> orders[i], proof |-> ProofOf(orders, i)]
      BY <1>0, <1>8 DEF Publish, DumpOf
    <3>2. ProofOf(orders, i) \in Seq(NodesOf(orders)) /\ Len(ProofOf(orders, i)) < Len(orders)
      BY <1>0, Climbs
    <3>3. Len(ProofOf(orders, i)) \in Nat /\ orders[i] \in OrderParams
      BY <1>0, <3>2, LenProperties, ElementOfSeq
    <3>4. e.params = orders[i] /\ e.proof = ProofOf(orders, i)
      BY <3>1
    <3> QED
      BY <1>0, <3>2, <3>3, <3>4
  <2> QED
    BY <1>8, <2>1 DEF Publish, MuxInv, IsList
<1>9. CASE UNCHANGED muxVars
  BY <1>9 DEF muxVars, MuxInv, IsList
<1> QED
  BY <1>1, <1>2, <1>3, <1>4, <1>5, <1>6, <1>7, <1>8, <1>9 DEF MuxNext

\* The root on chain is that of the list registered, through every edit, save and restart.
THEOREM MuxInvariant == MuxSpec => []MuxInv
  BY MuxInvInit, MuxInvStep, PTL DEF MuxSpec

\* No proof passes for an order that is not in the registered list, whether it was handed
\* out of an older list or a newer one, for lists of any length.
THEOREM NothingElseVerifies == MuxSpec => []OnlyRegisteredVerify
<1>1. MuxInv => OnlyRegisteredVerify
  <2> SUFFICES ASSUME MuxInv, NEW e \in published, Verifies(e) PROVE e.params \in ToSet(registered)
    BY DEF OnlyRegisteredVerify
  <2>1. registered \in Seq(OrderParams) /\ Len(e.proof) \in Nat /\ root = RootOf(registered)
    BY DEF MuxInv, IsList
  <2> QED
    BY <2>1, OnlyLeavesVerify DEF Verifies
<1> QED
  BY <1>1, MuxInvariant, PTL

\* Every order of the registered list can be proved, whatever its place and the shape of
\* the tree.
THEOREM AllRegisteredVerify == MuxSpec => []RegisteredProvable
<1>1. MuxInv => RegisteredProvable
  <2> SUFFICES ASSUME MuxInv, NEW i \in DOMAIN registered
               PROVE  Verifies([params |-> registered[i], proof |-> ProofOf(registered, i)])
    BY DEF RegisteredProvable
  <2>1. registered \in Seq(OrderParams) /\ root = RootOf(registered)
    BY DEF MuxInv, IsList
  <2>2. i \in 1..Len(registered)
    BY <2>1, LenProperties
  <2>3. ProcessProof(LeafHash(registered[i]), ProofOf(registered, i)) \in RootOf(registered)
    BY <2>1, <2>2, Climbs
  <2> QED
    BY <2>1, <2>3 DEF Verifies
<1> QED
  BY <1>1, MuxInvariant, PTL

\* The shapes of the state; no proof has as many siblings as there may be orders.
THEOREM MuxTyped == MuxSpec => []MuxTypeOK
<1>1. MuxInv => MuxTypeOK
  <2> SUFFICES ASSUME MuxInv PROVE MuxTypeOK
    OBVIOUS
  <2>1. Cardinality(file) <= 1
    <3>1. CASE file = {}
      BY <3>1, FS_EmptySet
    <3>2. CASE \E l : file = {l}
      BY <3>2, FS_Singleton
    <3> QED
      BY <3>1, <3>2 DEF MuxInv
  <2> QED
    BY <2>1 DEF MuxInv, IsList, MuxTypeOK
<1> QED
  BY <1>1, MuxInvariant, PTL
=============================================================================
