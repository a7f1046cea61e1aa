---------------------------- MODULE OrderProofs ----------------------------
(***************************************************************************)
(* Orders that a contract reads back: native orders (NativeOrders) and the *)
(* trades of a settlement (SettlementEncoder).                             *)
(*                                                                         *)
(* NativeOrders, for any number of calls with any parameters: the uid      *)
(* predicted off chain is the one the order gets, the order comes back as  *)
(* it was returned, and whatever is sent in time is live.  The invariant   *)
(* says where everything on chain came from: the order from the            *)
(* transaction, the transaction from the order built at some time from the *)
(* parameters.                                                             *)
(*                                                                         *)
(* SettlementEncoder, for any tokens, orders and prices and a settlement of*)
(* any length.  The inductive invariant adds to the types what a trade     *)
(* keeps of its order: its two numbers still name the order's tokens, and  *)
(* its flags are those of the order.                                       *)
(***************************************************************************)
EXTENDS NativeOrders, SettlementEncoder, QuoteAmountsProofs, FiniteSetTheorems

-----------------------------------------------------------------------------
(* Native orders.                                                            *)

\* The order as OrderToSign builds it at a time.
OrderAt(p, env, at) ==
  LET a == SignedByStages([isSell |-> p.isSell, sell |-> p.sell, buy |-> p.buy, fee |-> 0],
                          0, ValueOr(p.partnerFee, 0), EthFlowSlippage)
  IN  [isSell |-> p.isSell, sellToken |-> p.sellToken, sell |-> a.sell, buy |-> a.buy, fee |-> 0,
       receiver |-> ValueOr(p.receiver, EthFlowForEnv(env)),
       validTo |-> ValueOr(p.validTo, ToU32(at + ValueOr(p.validFor, DefaultValidity)))]

Single(S) == \A x, y \in S : x = y

\* The order of data the caller filled in herself.
OrderOf(d) ==
  [isSell |-> TRUE, sellToken |-> "native", sell |-> d.sell, buy |-> d.buy, fee |-> d.fee,
   receiver |-> d.receiver, validTo |-> d.validTo]

\* What a call returned, from what it was made with and when.
BuiltFor(m) ==
  /\ m.env \in Envs /\ m.at \in 0..MaxNow
  /\ \/ \E p \in Natives : m.asked = {p} /\ m.order = OrderAt(p, m.env, m.at)
     \/ m.asked = {} /\ m.uid = {} /\ \E d \in SdkOrders : m.order = OrderOf(d)
  /\ m.tx.data = CreateOrder(m.order) /\ m.tx.value = m.order.sell
  /\ \A uid \in m.uid : uid = UniqueOrderId(m.order, m.env) /\ m.tx.to = EthFlowForEnv(m.env)

\* An order on chain, and the transaction that placed it.
PlacedFrom(o, m) ==
  o = [uid |-> PlacedUid(m.tx), user |-> "trader", by |-> o.by, data |-> m.tx.data, value |-> m.tx.value]

NativeSteps == {"idle", "uploading", "returned", "placed", "underpaid", "expired", "known"}

\* A transaction reverted for its value had a fee to pay, and one that was not, or that came
\* second, has an order on chain under the uid that is its own.
SentFrom(c, m) ==
  /\ step[c] = "underpaid" => m.tx.data.fee # 0
  /\ step[c] \in {"placed", "known"} => \E o \in chain : o.uid = PlacedUid(m.tx)

NativeInv ==
  /\ now \in 0..MaxNow
  /\ step \in [Calls -> NativeSteps]
  /\ DOMAIN made = Calls /\ docs \subseteq Calls
  /\ \A c \in Calls :
       /\ Single(made[c]) /\ (made[c] = {} <=> step[c] = "idle")
       /\ \A m \in made[c] : BuiltFor(m) /\ SentFrom(c, m)
  /\ \A o \in chain :
       o.by \in Calls /\ step[o.by] = "placed" /\ \E m \in made[o.by] : PlacedFrom(o, m)
-----------------------------------------------------------------------------
LEMMA OptionValue ==
  ASSUME NEW T, NEW o \in Option(T), NEW d
  PROVE  /\ o = {} => ValueOr(o, d) = d
         /\ o # {} => ValueOr(o, d) \in o /\ ValueOr(o, d) \in T
  BY DEF Option, ValueOr

\* The order's fields: the amounts are numbers, and the deadline fits.
LEMMA OrderType ==
  ASSUME NEW p \in Natives, NEW env, NEW at \in Nat
  PROVE  /\ OrderAt(p, env, at).sell \in Nat /\ OrderAt(p, env, at).buy \in Nat
         /\ OrderAt(p, env, at).isSell \in BOOLEAN
         /\ p.receiver # {} => OrderAt(p, env, at).receiver \in p.receiver
         /\ OrderAt(p, env, at).validTo \in 0..MaxValidTo
         /\ p.validTo # {} => OrderAt(p, env, at).validTo \in p.validTo
         /\ p.validTo = {} =>
              LET end == at + ValueOr(p.validFor, DefaultValidity)
              IN  end < U32Size => OrderAt(p, env, at).validTo = end
<1>1. LimitTradeParameters(p) /\ U32Size \in Nat \ {0} /\ DefaultValidity \in Nat
  BY NativeAssumption
<1> DEFINE q == [isSell |-> p.isSell, sell |-> p.sell, buy |-> p.buy, fee |-> 0]
           partner == ValueOr(p.partnerFee, 0)
           signed == SignedByStages(q, 0, partner, EthFlowSlippage)
<1>2. q \in Quotes /\ partner \in Nat /\ EthFlowSlippage \in 0..OneHundredBps
  <2>1. p.sell \in Nat /\ p.buy \in Nat /\ p.isSell \in BOOLEAN
    BY <1>1, AmountsAssumption DEF LimitTradeParameters
  <2>2. partner \in Nat
    BY <1>1, OptionValue DEF LimitTradeParameters
  <2> QED
    BY <2>1, <2>2, NativeAssumption DEF Quotes
<1> HIDE DEF q, partner
<1>3. signed.sell \in Nat /\ signed.buy \in Nat
  BY <1>2, StagesTypes
<1> DEFINE ttl == ValueOr(p.validFor, DefaultValidity)
           cut == ToU32(at + ttl)
<1>4. ttl \in Nat
  BY <1>1, OptionValue DEF LimitTradeParameters, MaxValidTo
<1> HIDE DEF ttl, signed
<1>5. cut \in 0..MaxValidTo /\ (at + ttl < U32Size => cut = at + ttl)
  BY <1>1, <1>4 DEF ToU32, MaxValidTo
<1> HIDE DEF cut
<1>6. /\ OrderAt(p, env, at).sell = signed.sell /\ OrderAt(p, env, at).buy = signed.buy
      /\ OrderAt(p, env, at).isSell = p.isSell
      /\ OrderAt(p, env, at).receiver = ValueOr(p.receiver, EthFlowForEnv(env))
      /\ OrderAt(p, env, at).validTo = ValueOr(p.validTo, cut)
  BY DEF OrderAt, signed, q, partner, cut, ttl
<1>7. /\ ValueOr(p.validTo, cut) \in 0..MaxValidTo
      /\ p.validTo # {} => ValueOr(p.validTo, cut) \in p.validTo
      /\ p.validTo = {} => ValueOr(p.validTo, cut) = cut
  BY <1>1, <1>5, OptionValue DEF LimitTradeParameters
<1>8. p.receiver # {} => ValueOr(p.receiver, EthFlowForEnv(env)) \in p.receiver
  BY DEF ValueOr
<1> QED
  BY <1>1, <1>3, <1>5, <1>6, <1>7, <1>8 DEF LimitTradeParameters, ttl

\* An order that was built, field by field.
LEMMA BuiltOrder ==
  ASSUME NEW m, BuiltFor(m)
  PROVE  /\ m.order.isSell \in BOOLEAN /\ m.order.sell \in Nat
         /\ m.order.validTo \in 0..MaxValidTo
         /\ \E t, sell, buy, fee, receiver, v :
              m.order = [isSell |-> m.order.isSell, sellToken |-> t, sell |-> sell, buy |-> buy,
                         fee |-> fee, receiver |-> receiver, validTo |-> v]
<1>1. CASE \E p \in Natives : m.order = OrderAt(p, m.env, m.at)
  <2>1. PICK p \in Natives : m.order = OrderAt(p, m.env, m.at)
    BY <1>1
  <2>2. m.at \in Nat
    BY NativeAssumption DEF BuiltFor
  <2>3. m.order.isSell \in BOOLEAN /\ m.order.sell \in Nat /\ m.order.validTo \in 0..MaxValidTo
    BY <2>1, <2>2, OrderType
  <2>4. PICK t, sell, buy, fee, receiver, v :
          m.order = [isSell |-> p.isSell, sellToken |-> t, sell |-> sell, buy |-> buy, fee |-> fee,
                     receiver |-> receiver, validTo |-> v]
    BY <2>1, Zenon DEF OrderAt
  <2>5. m.order.isSell = p.isSell
    BY <2>1 DEF OrderAt
  <2> QED
    BY <2>3, <2>4, <2>5, Zenon
<1>2. CASE \E d \in SdkOrders : m.order = OrderOf(d)
  <2>1. PICK d \in SdkOrders : m.order = OrderOf(d)
    BY <1>2
  <2>2. EthFlowOrderData(d)
    BY NativeAssumption
  <2>3. m.order.isSell = TRUE /\ m.order.sell = d.sell /\ m.order.validTo = d.validTo
    BY <2>1 DEF OrderOf
  <2>4. m.order.isSell \in BOOLEAN /\ m.order.sell \in Nat /\ m.order.validTo \in 0..MaxValidTo
    <3>1. d.sell \in Nat /\ d.validTo \in 0..MaxValidTo
      BY <2>2, AmountsAssumption DEF EthFlowOrderData
    <3>2. m.order.isSell \in BOOLEAN
      BY <2>3, Zenon
    <3>3. m.order.sell = d.sell /\ m.order.validTo = d.validTo
      BY <2>3, Zenon
    <3> QED
      BY <3>1, <3>2, <3>3, Zenon
  <2>5. \E t, sell, buy, fee, receiver, v :
          m.order = [isSell |-> TRUE, sellToken |-> t, sell |-> sell, buy |-> buy, fee |-> fee,
                     receiver |-> receiver, validTo |-> v]
    BY <2>1, Zenon DEF OrderOf
  <2> QED
    BY <2>3, <2>4, <2>5, Zenon
<1> QED
  BY <1>1, <1>2 DEF BuiltFor

\* A transaction that was built is reverted for its value only if its data names a fee.
LEMMA PaidInFull ==
  ASSUME NEW m, BuiltFor(m), m.tx.data.fee = 0
  PROVE  ~ Underpaid(m.tx)
<1>1. m.order.sell \in Nat
  BY BuiltOrder
<1>2. m.tx.data.sell = m.order.sell /\ m.tx.value = m.order.sell
  BY DEF BuiltFor, CreateOrder
<1> QED
  BY <1>1, <1>2 DEF Underpaid
-----------------------------------------------------------------------------
LEMMA NativeInvInit == NativeInit => NativeInv
  BY NativeAssumption DEF NativeInit, NativeInv, Single, NativeSteps

LEMMA NativeInvStep == NativeInv /\ [NativeNext]_nativeVars => NativeInv'
<1> SUFFICES ASSUME NativeInv, [NativeNext]_nativeVars PROVE NativeInv'
  OBVIOUS
<1> USE DEF NativeInv, NativeSteps, SentFrom
<1>1. CASE Tick
  <2>1. now' \in 0..MaxNow
    BY <1>1, NativeAssumption DEF Tick
  <2> QED
    BY <1>1, <2>1 DEF Tick
<1>2. ASSUME NEW c \in Calls, NEW env \in Envs,
             \/ \E p \in Natives : BuildNative(c, p, env)
             \/ \E d \in SdkOrders : BuildSdkTransaction(c, d, env)
      PROVE  NativeInv'
  <2>1. PICK m : BuiltFor(m) /\ made' = [made EXCEPT ![c] = {m}]
    <3>1. ASSUME NEW p \in Natives, BuildNative(c, p, env)
          PROVE  \E m : BuiltFor(m) /\ made' = [made EXCEPT ![c] = {m}]
      <4>1. OrderToSign(p, env) = OrderAt(p, env, now)
        BY DEF OrderToSign, OrderAt
      <4> DEFINE order == OrderToSign(p, env)
                 n == [asked |-> {p}, env |-> env, at |-> now, order |-> order,
                       uid |-> {UniqueOrderId(order, env)},
                       tx |-> [to |-> EthFlowForEnv(env), data |-> CreateOrder(order),
                               value |-> ValueAttached({p}, order)]]
      <4>2. /\ n.asked = {p} /\ n.env = env /\ n.at = now /\ n.order = order
            /\ n.uid = {UniqueOrderId(order, env)}
            /\ n.tx.to = EthFlowForEnv(env) /\ n.tx.data = CreateOrder(order)
            /\ n.tx.value = order.sell
        BY DEF ValueAttached
      <4>3. made' = [made EXCEPT ![c] = {n}]
        BY <3>1 DEF BuildNative
      <4> HIDE DEF n, order
      <4>4. BuiltFor(n)
        BY <4>1, <4>2 DEF BuiltFor, order
      <4> QED
        BY <4>3, <4>4
    <3>2. ASSUME NEW d \in SdkOrders, BuildSdkTransaction(c, d, env)
          PROVE  \E m : BuiltFor(m) /\ made' = [made EXCEPT ![c] = {m}]
      <4> DEFINE n == [asked |-> {}, env |-> env, at |-> now, order |-> OrderOf(d), uid |-> {},
                       tx |-> [to |-> SdkEthFlow(env), data |-> CreateOrder(OrderOf(d)),
                               value |-> ValueAttached({}, OrderOf(d))]]
      <4>1. /\ n.asked = {} /\ n.env = env /\ n.at = now /\ n.order = OrderOf(d) /\ n.uid = {}
            /\ n.tx.data = CreateOrder(OrderOf(d)) /\ n.tx.value = OrderOf(d).sell
        BY DEF ValueAttached
      <4>2. made' = [made EXCEPT ![c] = {n}]
        BY <3>2 DEF BuildSdkTransaction, OrderOf
      <4> HIDE DEF n
      <4>3. BuiltFor(n)
        BY <4>1 DEF BuiltFor
      <4> QED
        BY <4>2, <4>3
    <3> QED
      BY <1>2, <3>1, <3>2
  <2>2. step[c] = "idle" /\ UNCHANGED <<now, chain, docs>>
    BY <1>2 DEF BuildNative, BuildSdkTransaction
  <2>3. step' \in [Calls -> NativeSteps] /\ step'[c] \in {"uploading", "returned"}
        /\ \A e \in Calls \ {c} : step'[e] = step[e]
    BY <1>2 DEF BuildNative, BuildSdkTransaction
  <2>4. made'[c] = {m} /\ DOMAIN made' = Calls /\ \A e \in Calls \ {c} : made'[e] = made[e]
    BY <2>1
  <2> QED
    BY <2>1, <2>2, <2>3, <2>4 DEF Single
<1>3. ASSUME NEW c \in Calls, NEW stored \in BOOLEAN, UploadNative(c, stored) PROVE NativeInv'
  <2>1. /\ step[c] = "uploading" /\ step' = [step EXCEPT ![c] = "returned"]
        /\ UNCHANGED <<now, made, chain>> /\ docs' \subseteq docs \cup {c}
    BY <1>3 DEF UploadNative
  <2>2. step' \in [Calls -> NativeSteps] /\ step'[c] = "returned"
        /\ \A e \in Calls \ {c} : step'[e] = step[e]
    BY <2>1
  <2> QED
    BY <2>1, <2>2
<1>4. ASSUME NEW c \in Calls, SendTransaction(c) PROVE NativeInv'
  <2>1. step[c] = "returned" /\ UNCHANGED <<now, made, docs>>
    BY <1>4 DEF SendTransaction
  <2>2. PICK m \in made[c] :
          LET why == IF Underpaid(m.tx) THEN "underpaid" ELSE IF Expired(m.tx) THEN "expired"
                     ELSE IF Known(m.tx) THEN "known" ELSE "placed"
          IN  /\ step' = [step EXCEPT ![c] = why]
              /\ chain' = IF why = "placed"
                          THEN chain \cup {[uid |-> PlacedUid(m.tx), user |-> "trader", by |-> c,
                                            data |-> m.tx.data, value |-> m.tx.value]}
                          ELSE chain
    BY <1>4 DEF SendTransaction
  <2>3. Underpaid(m.tx) => m.tx.data.fee # 0
    BY PaidInFull
  <2>4. PICK o : o = [uid |-> PlacedUid(m.tx), user |-> "trader", by |-> c,
                      data |-> m.tx.data, value |-> m.tx.value]
    OBVIOUS
  <2>5. o.by = c /\ o.uid = PlacedUid(m.tx) /\ PlacedFrom(o, m)
    BY <2>4 DEF PlacedFrom
  <2>6. \/ step' = [step EXCEPT ![c] = "placed"] /\ chain' = chain \cup {o}
        \/ step' = [step EXCEPT ![c] = "underpaid"] /\ chain' = chain /\ m.tx.data.fee # 0
        \/ step' = [step EXCEPT ![c] = "expired"] /\ chain' = chain
        \/ step' = [step EXCEPT ![c] = "known"] /\ chain' = chain /\ Known(m.tx)
    BY <2>2, <2>3, <2>4
  <2>7. /\ step' \in [Calls -> NativeSteps] /\ step'[c] # "idle"
        /\ \A e \in Calls \ {c} : step'[e] = step[e]
        /\ chain' = chain \/ (chain' = chain \cup {o} /\ step'[c] = "placed")
        /\ step'[c] = "underpaid" => m.tx.data.fee # 0
        /\ step'[c] \in {"placed", "known"} => \E x \in chain' : x.uid = PlacedUid(m.tx)
    BY <2>5, <2>6 DEF Known
  <2>8. \A x \in chain' : x \in chain \/ (x = o /\ step'[c] = "placed")
    BY <2>7
  <2>9. \A x \in chain' :
          x.by \in Calls /\ step'[x.by] = "placed" /\ \E n \in made'[x.by] : PlacedFrom(x, n)
    BY <2>1, <2>5, <2>7, <2>8
  <2>10. \A e \in Calls : \A n \in made'[e] : BuiltFor(n) /\ SentFrom(e, n)'
    <3>1. made' = made /\ chain \subseteq chain'
      BY <2>1, <2>7
    <3>2. \A n \in made[c] : n = m
      BY DEF Single
    <3> QED
      BY <2>7, <3>1, <3>2
  <2> QED
    BY <2>1, <2>7, <2>9, <2>10
<1>5. CASE UNCHANGED nativeVars
  BY <1>5 DEF nativeVars
<1> QED
  BY <1>1, <1>2, <1>3, <1>4, <1>5 DEF NativeNext

\* Everything on chain comes from a transaction the code built, and that from what the
\* trader asked for.
THEOREM NativeInvariant == NativeSpec => []NativeInv
  BY NativeInvInit, NativeInvStep, PTL DEF NativeSpec
-----------------------------------------------------------------------------
\* What is on chain, from what the call returned.
LEMMA OnChain ==
  ASSUME NativeInv, NEW o \in chain, NEW m \in made[o.by]
  PROVE  BuiltFor(m) /\ PlacedFrom(o, m)
  BY DEF NativeInv, Single

\* The uid that is computed off chain is the one the contract will compute, for a sell order.
LEMMA UidIs ==
  ASSUME NEW m, BuiltFor(m), m.order.isSell, NEW uid \in m.uid
  PROVE  uid = PlacedUid(m.tx)
<1>1. PICK order, side, t, sell, buy, fee, receiver, v :
        /\ order = m.order /\ side = TRUE
        /\ order = [isSell |-> side, sellToken |-> t, sell |-> sell, buy |-> buy, fee |-> fee,
                    receiver |-> receiver, validTo |-> v]
  <2>1. PICK t, sell, buy, fee, receiver, v :
          m.order = [isSell |-> m.order.isSell, sellToken |-> t, sell |-> sell, buy |-> buy,
                     fee |-> fee, receiver |-> receiver, validTo |-> v]
    BY BuiltOrder
  <2>2. m.order.isSell = TRUE
    BY BuiltOrder
  <2> QED
    BY <2>1, <2>2, Zenon
<1>2. PICK last : last = MaxValidTo
  OBVIOUS
<1>3. [order EXCEPT !.sellToken = "wrapped"]
        = [isSell |-> side, sellToken |-> "wrapped", sell |-> sell, buy |-> buy, fee |-> fee,
           receiver |-> receiver, validTo |-> v]
  <2>1. order = [isSell |-> side, sellToken |-> t, sell |-> sell, buy |-> buy, fee |-> fee,
                 receiver |-> receiver, validTo |-> v]
    BY <1>1, Zenon
  <2> QED
    BY <2>1
<1>4. [[isSell |-> side, sellToken |-> "wrapped", sell |-> sell, buy |-> buy, fee |-> fee,
        receiver |-> receiver, validTo |-> v] EXCEPT !.validTo = last]
        = [isSell |-> side, sellToken |-> "wrapped", sell |-> sell, buy |-> buy, fee |-> fee,
           receiver |-> receiver, validTo |-> last]
  OBVIOUS
<1>5. [order EXCEPT !.sellToken = "wrapped", !.validTo = last]
        = [[order EXCEPT !.sellToken = "wrapped"] EXCEPT !.validTo = last]
  OBVIOUS
<1>6. [order EXCEPT !.sellToken = "wrapped", !.validTo = MaxValidTo]
        = [isSell |-> side, sellToken |-> "wrapped", sell |-> sell, buy |-> buy, fee |-> fee,
           receiver |-> receiver, validTo |-> MaxValidTo]
  BY <1>2, <1>3, <1>4, <1>5, Zenon
<1>7. /\ m.tx.data.sell = sell /\ m.tx.data.buy = buy /\ m.tx.data.fee = fee
      /\ m.tx.data.receiver = receiver
  BY <1>1 DEF BuiltFor, CreateOrder
<1>8. uid = UniqueOrderId(order, m.env) /\ m.tx.to = EthFlowForEnv(m.env)
  BY <1>1 DEF BuiltFor
<1>9. PlacedUid(m.tx) = [digest |-> [isSell |-> side, sellToken |-> "wrapped", sell |-> sell,
                                     buy |-> buy, fee |-> fee, receiver |-> receiver,
                                     validTo |-> MaxValidTo],
                         owner |-> EthFlowForEnv(m.env), validTo |-> MaxValidTo]
  BY <1>1, <1>7, <1>8, Zenon DEF PlacedUid
<1> QED
  BY <1>6, <1>8, <1>9, Zenon DEF UniqueOrderId

\* The uid computed off chain, before the transaction and from other data, is the one the
\* order gets (calculate_unique_order_id), for a sell order, the only kind there is.
THEOREM UidsArePredicted == NativeSpec => []PredictedUid
<1>1. NativeInv => PredictedUid
  <2> SUFFICES ASSUME NativeInv, NEW o \in chain, NEW m \in made[o.by], m.order.isSell,
                      NEW uid \in m.uid
               PROVE  uid = o.uid
    BY DEF PredictedUid
  <2>1. BuiltFor(m) /\ PlacedFrom(o, m)
    BY OnChain
  <2>2. o.uid = PlacedUid(m.tx)
    BY <2>1 DEF PlacedFrom
  <2> QED
    BY <2>1, <2>2, UidIs
<1> QED
  BY <1>1, NativeInvariant, PTL

\* The order comes back as it was ordered, through the contract's encoding, the server's
\* order and transform_order.
THEOREM OrdersComeBack == NativeSpec => []RoundTrip
<1>1. NativeInv => RoundTrip
  <2> SUFFICES ASSUME NativeInv, NEW o \in chain, NEW m \in made[o.by]
               PROVE  LET seen == TransformOrder(ServerOrder(o))
                      IN  /\ seen.owner = "trader" /\ seen.sellToken = "native"
                          /\ seen.sell = m.order.sell /\ seen.buy = m.order.buy
                          /\ seen.receiver = m.order.receiver
                          /\ m.asked = {} => seen.validTo = m.order.validTo
                          /\ \A p \in m.asked :
                               /\ p.receiver # {} => seen.receiver \in p.receiver
                               /\ p.validTo # {} => seen.validTo \in p.validTo
                               /\ p.validTo = {} =>
                                    LET end == m.at + ValueOr(p.validFor, DefaultValidity)
                                    IN  end < U32Size => seen.validTo = end
    BY DEF RoundTrip
  <2>1. BuiltFor(m) /\ PlacedFrom(o, m)
    BY OnChain
  <2>2. o.user = "trader" /\ o.data = CreateOrder(m.order)
    BY <2>1 DEF BuiltFor, PlacedFrom
  <2>3. /\ o.data.sell = m.order.sell /\ o.data.buy = m.order.buy
        /\ o.data.receiver = m.order.receiver /\ o.data.validTo = m.order.validTo
    BY <2>2 DEF CreateOrder
  <2>4. PICK seen : seen = TransformOrder(ServerOrder(o))
    OBVIOUS
  <2>5. \A v, d : ValueOr({v}, d) = v
    BY DEF ValueOr
  <2>6. PICK s : s = ServerOrder(o)
    OBVIOUS
  <2>7. /\ s.ethflowData = {m.order.validTo} /\ s.onchainUser = {"trader"}
        /\ s.sell = m.order.sell /\ s.buy = m.order.buy /\ s.receiver = m.order.receiver
        /\ s = [uid |-> s.uid, owner |-> s.owner, sellToken |-> s.sellToken, validTo |-> s.validTo,
                sell |-> s.sell, buy |-> s.buy, receiver |-> s.receiver,
                ethflowData |-> s.ethflowData, onchainUser |-> s.onchainUser]
    BY <2>2, <2>3, <2>6 DEF ServerOrder
  <2>8. seen = [s EXCEPT !.validTo = m.order.validTo, !.owner = "trader", !.sellToken = "native"]
    <3>1. /\ ValueOr(s.ethflowData, 0) = m.order.validTo
          /\ ValueOr(s.onchainUser, s.owner) = "trader"
      BY <2>5, <2>7
    <3>2. s.ethflowData # {}
      BY <2>7
    <3>3. TransformOrder(s) = [s EXCEPT !.validTo = ValueOr(s.ethflowData, 0),
                                        !.owner = ValueOr(s.onchainUser, s.owner), !.sellToken = "native"]
      BY <3>2, Zenon DEF TransformOrder
    <3> QED
      BY <2>4, <2>6, <3>1, <3>3, Zenon
  <2>9. /\ seen.owner = "trader" /\ seen.sellToken = "native" /\ seen.validTo = m.order.validTo
        /\ seen.sell = m.order.sell /\ seen.buy = m.order.buy /\ seen.receiver = m.order.receiver
    BY <2>7, <2>8
  <2>10. ASSUME NEW p \in m.asked
         PROVE  /\ p.receiver # {} => m.order.receiver \in p.receiver
                /\ p.validTo # {} => m.order.validTo \in p.validTo
                /\ p.validTo = {} => LET end == m.at + ValueOr(p.validFor, DefaultValidity)
                                    IN  end < U32Size => m.order.validTo = end
    <3>1. p \in Natives /\ m.order = OrderAt(p, m.env, m.at) /\ m.at \in Nat
      BY <2>1, <2>10, NativeAssumption DEF BuiltFor
    <3> QED
      BY <3>1, OrderType
  <2> QED
    BY <2>4, <2>9, <2>10
<1> QED
  BY <1>1, NativeInvariant, PTL

\* A transaction sent in time, and not for data with a fee, has an order on chain under its
\* uid, placed by itself or by another call.
THEOREM SentOrdersStayLive == NativeSpec => []SentOrdersAreLive
<1>1. NativeInv => SentOrdersAreLive
  <2> SUFFICES ASSUME NativeInv, NEW c \in Calls, NEW m \in made[c], m.tx.data.fee = 0,
                      step[c] \in {"placed", "known", "underpaid"}
               PROVE  \E o \in chain : /\ o.data.sell = m.order.sell /\ o.data.buy = m.order.buy
                                       /\ o.data.receiver = m.order.receiver
                                       /\ o.uid.owner = m.tx.to
                                       /\ m.order.isSell => m.uid \subseteq {o.uid}
    BY DEF SentOrdersAreLive
  <2>1. BuiltFor(m) /\ SentFrom(c, m)
    BY DEF NativeInv
  <2>2. PICK o \in chain : o.uid = PlacedUid(m.tx)
    BY <2>1 DEF SentFrom
  <2>3. PICK n : o.uid = PlacedUid(n.tx) /\ o.data = n.tx.data
    BY DEF NativeInv, PlacedFrom
  <2>4. /\ n.tx.data.sell = m.tx.data.sell /\ n.tx.data.buy = m.tx.data.buy
        /\ n.tx.data.receiver = m.tx.data.receiver /\ o.uid.owner = m.tx.to
    <3>1. \A tx : /\ PlacedUid(tx).digest.sell = tx.data.sell /\ PlacedUid(tx).digest.buy = tx.data.buy
                  /\ PlacedUid(tx).digest.receiver = tx.data.receiver /\ PlacedUid(tx).owner = tx.to
      BY DEF PlacedUid
    <3> QED
      BY <2>2, <2>3, <3>1
  <2>5. /\ m.tx.data.sell = m.order.sell /\ m.tx.data.buy = m.order.buy
        /\ m.tx.data.receiver = m.order.receiver
    BY <2>1 DEF BuiltFor, CreateOrder
  <2>6. m.order.isSell => m.uid \subseteq {o.uid}
    BY <2>1, <2>2, UidIs
  <2> QED
    BY <2>3, <2>4, <2>5, <2>6
<1> QED
  BY <1>1, NativeInvariant, PTL

\* The shapes of the state; every deadline has 32 bits.
THEOREM NativeTyped == NativeSpec => []NativeTypeOK
<1>1. NativeInv => NativeTypeOK
  <2> SUFFICES ASSUME NativeInv PROVE NativeTypeOK
    OBVIOUS
  <2>1. ASSUME NEW c \in Calls PROVE Cardinality(made[c]) = (IF step[c] = "idle" THEN 0 ELSE 1)
    <3>1. CASE step[c] = "idle"
      BY <3>1, FS_EmptySet DEF NativeInv
    <3>2. CASE step[c] # "idle"
      <4>1. PICK m \in made[c] : made[c] = {m}
        BY <3>2 DEF NativeInv, Single
      <4> QED
        BY <3>2, <4>1, FS_Singleton
    <3> QED
      BY <3>1, <3>2
  <2>2. ASSUME NEW c \in Calls, NEW m \in made[c] PROVE m.order.validTo \in 0..MaxValidTo
    BY BuiltOrder DEF NativeInv
  <2> QED
    BY <2>1, <2>2 DEF NativeInv, NativeSteps, NativeTypeOK
<1> QED
  BY <1>1, NativeInvariant, PTL
-----------------------------------------------------------------------------
(* The settlement encoder.                                                   *)

(* The byte of flags keeps its five fields apart.                            *)
LEMMA BitFields ==
  \A k, p, b \in 0..1 : \A s, c \in 0..3 : \A bits \in Int :
    bits = k + 2 * p + 4 * s + 16 * b + 32 * c =>
      /\ bits % 2 = k
      /\ (bits \div 2) % 2 = p
      /\ (bits \div 4) % 4 = s
      /\ (bits \div 16) % 2 = b
      /\ (bits \div 32) % 4 = c
<1> SUFFICES ASSUME NEW k \in 0..1, NEW p \in 0..1, NEW b \in 0..1, NEW s \in 0..3, NEW c \in 0..3,
                    NEW bits \in Int, bits = k + 2 * p + 4 * s + 16 * b + 32 * c
             PROVE  /\ bits % 2 = k
                    /\ (bits \div 2) % 2 = p
                    /\ (bits \div 4) % 4 = s
                    /\ (bits \div 16) % 2 = b
                    /\ (bits \div 32) % 4 = c
  OBVIOUS
<1>1. bits % 2 = k /\ bits \div 2 = p + 2 * s + 8 * b + 16 * c
  OBVIOUS
<1>2. bits \div 4 = s + 4 * b + 8 * c
  OBVIOUS
<1>3. bits \div 16 = b + 2 * c
  OBVIOUS
<1>4. bits \div 32 = c
  OBVIOUS
<1> QED
  BY <1>1, <1>2, <1>3, <1>4

\* The flags as decode_order_flags returns them.
FlagsOf(o) ==
  [kind |-> o.kind, partiallyFillable |-> o.partiallyFillable,
   sellBalance |-> o.sellBalance, buyBalance |-> NormalizeBuyBalance(o.buyBalance)]

(* Decoding the flags gives back what encode_trade put there, for each of the  *)
(* 288 combinations (encode_trade_flags, decode_trade_flags).                  *)
LEMMA FlagsReadBack ==
  ASSUME NEW o \in Order, NEW scheme \in Schemes
  PROVE  /\ DecodeFlags(EncodeFlags(o, scheme)) = {FlagsOf(o)}
         /\ DecodeScheme(EncodeFlags(o, scheme)) = scheme
<1> DEFINE k == KindIndex[o.kind]
           p == IF o.partiallyFillable THEN 1 ELSE 0
           s == SellIndex[o.sellBalance]
           b == BuyIndex[NormalizeBuyBalance(o.buyBalance)]
           c == SchemeIndex[scheme]
           bits == EncodeFlags(o, scheme)
<1>1. k \in 0..1 /\ o.kind = (IF k = 0 THEN "Sell" ELSE "Buy")
  BY DEF Order, KindIndex, Kinds
<1>2. p \in 0..1 /\ o.partiallyFillable = (p # 0)
  BY DEF Order
<1>3. /\ s \in 0..3 /\ s # 1
      /\ o.sellBalance = (IF s = 0 THEN "Erc20" ELSE IF s = 2 THEN "External" ELSE "Internal")
  BY DEF Order, SellIndex, Balances
<1>4. b \in 0..1 /\ NormalizeBuyBalance(o.buyBalance) = (IF b = 0 THEN "Erc20" ELSE "Internal")
  BY DEF Order, BuyIndex, Balances, NormalizeBuyBalance
<1>5. c \in 0..3 /\ scheme = SchemeList[c + 1]
  BY DEF SchemeIndex, SchemeList, Schemes
<1>6. bits = k + 2 * p + 4 * s + 16 * b + 32 * c
  BY DEF EncodeFlags
<1>10. bits \in Int
  BY <1>1, <1>2, <1>3, <1>4, <1>5, <1>6
<1> HIDE DEF k, p, s, b, c, bits
<1>7. /\ bits % 2 = k
      /\ (bits \div 2) % 2 = p
      /\ (bits \div 4) % 4 = s
      /\ (bits \div 16) % 2 = b
      /\ (bits \div 32) % 4 = c
  BY <1>1, <1>2, <1>3, <1>4, <1>5, <1>6, <1>10, BitFields
<1>8. DecodeScheme(bits) = scheme
  BY <1>5, <1>7 DEF DecodeScheme
<1>9. DecodeFlags(bits) = {FlagsOf(o)}
  BY <1>1, <1>2, <1>3, <1>4, <1>7, Zenon DEF DecodeFlags, FlagsOf
<1> QED
  BY <1>8, <1>9 DEF bits
-----------------------------------------------------------------------------
(* The registry and the array of prices.                                     *)

(* Looking a token up gives its number, and moves no other (index).          *)
LEMMA Registering ==
  ASSUME NEW reg, reg = [list |-> reg.list, map |-> reg.map], RegistryOK(reg), NEW t \in Token
  PROVE  LET new == Registered(reg, t)
         IN  /\ new = [list |-> new.list, map |-> new.map]
             /\ RegistryOK(new)
             /\ Len(new.list) >= Len(reg.list)
             /\ \A i \in DOMAIN reg.list : i \in DOMAIN new.list /\ new.list[i] = reg.list[i]
             /\ t \in DOMAIN new.map
             /\ new.map[t] \in Nat /\ new.map[t] < Len(new.list) /\ new.list[new.map[t] + 1] = t
             /\ \A u \in DOMAIN reg.map : u \in DOMAIN new.map /\ new.map[u] = reg.map[u]
<1> DEFINE new == Registered(reg, t)
           n == Len(reg.list)
<1>1. reg.list \in Seq(Token) /\ n \in Nat /\ DOMAIN reg.list = 1..n
  BY DEF RegistryOK
<1>2. CASE t \in DOMAIN reg.map
  <2>1. new = reg
    BY <1>2 DEF Registered
  <2>2. PICK i \in 1..n : reg.list[i] = t
    BY <1>1, <1>2 DEF RegistryOK
  <2>3. reg.map[t] = i - 1
    BY <1>1, <2>2 DEF RegistryOK
  <2> QED
    BY <1>1, <1>2, <2>1, <2>2, <2>3
<1>3. CASE t \notin DOMAIN reg.map
  <2>1. /\ new.list = Append(reg.list, t)
        /\ new.map = [u \in DOMAIN reg.map \cup {t} |-> IF u = t THEN n ELSE reg.map[u]]
        /\ new = [list |-> new.list, map |-> new.map]
    BY <1>3 DEF Registered
  <2> HIDE DEF new
  <2>2. /\ new.list \in Seq(Token) /\ Len(new.list) = n + 1 /\ DOMAIN new.list = 1..(n + 1)
        /\ new.list[n + 1] = t
        /\ \A i \in 1..n : new.list[i] = reg.list[i]
    BY <1>1, <2>1
  <2>3. \A i \in 1..n : reg.list[i] \in DOMAIN reg.map /\ reg.map[reg.list[i]] = i - 1
    BY <1>1 DEF RegistryOK
  <2>4. RegistryOK(new)
    <3>1. DOMAIN new.map = {new.list[i] : i \in DOMAIN new.list}
      <4>1. DOMAIN reg.map = {reg.list[i] : i \in 1..n}
        BY <1>1 DEF RegistryOK
      <4>2. {new.list[i] : i \in 1..(n + 1)} = {new.list[i] : i \in 1..n} \cup {new.list[n + 1]}
        BY <1>1
      <4> QED
        BY <2>1, <2>2, <4>1, <4>2
    <3>2. \A i \in 1..(n + 1) : new.map[new.list[i]] = i - 1
      BY <1>1, <1>3, <2>1, <2>2, <2>3
    <3> QED
      BY <2>2, <3>1, <3>2 DEF RegistryOK
  <2>5. t \in DOMAIN new.map /\ new.map[t] = n
    BY <2>1
  <2>6. \A u \in DOMAIN reg.map : u \in DOMAIN new.map /\ new.map[u] = reg.map[u]
    BY <1>3, <2>1
  <2> QED
    BY <1>1, <2>1, <2>2, <2>4, <2>5, <2>6 DEF new
<1> QED
  BY <1>2, <1>3

(* Extending the prices adds zeros at the end (Vec::resize under its guard).   *)
LEMMA Resizing ==
  ASSUME NEW prices \in Seq(Nat), NEW n \in Nat
  PROVE  /\ Resized(prices, n) \in Seq(Nat)
         /\ Len(Resized(prices, n)) = IF Len(prices) >= n THEN Len(prices) ELSE n
         /\ \A i \in 1..Len(Resized(prices, n)) :
              Resized(prices, n)[i] = IF i <= Len(prices) THEN prices[i] ELSE 0
<1>1. Len(prices) \in Nat /\ \A i \in 1..Len(prices) : prices[i] \in Nat
  OBVIOUS
<1>2. CASE Len(prices) >= n
  BY <1>1, <1>2 DEF Resized
<1>3. CASE ~(Len(prices) >= n)
  <2> DEFINE new == [i \in 1..n |-> IF i <= Len(prices) THEN prices[i] ELSE 0]
  <2>1. Resized(prices, n) = new
    BY <1>3 DEF Resized
  <2>2. \A i \in 1..n : new[i] \in Nat
    BY <1>1
  <2>3. new \in Seq(Nat) /\ Len(new) = n
    BY <2>2
  <2> QED
    BY <1>3, <2>1, <2>3
<1> QED
  BY <1>2, <1>3
-----------------------------------------------------------------------------
(* The inductive invariant.                                                  *)

\* The k-th trade still stands for the k-th order.
KeepsOrder(k) ==
  /\ trades[k].sellTokenIndex < Len(tokens)
  /\ trades[k].buyTokenIndex < Len(tokens)
  /\ tokens[trades[k].sellTokenIndex + 1] = given[k].order.sellToken
  /\ tokens[trades[k].buyTokenIndex + 1] = given[k].order.buyToken
  /\ trades[k].rest = given[k].order.rest
  /\ trades[k].flags = EncodeFlags(given[k].order, given[k].signature.scheme)
  /\ trades[k].digest = given[k].signature.digest

IInv ==
  /\ EncoderTypeOK
  /\ \A k \in DOMAIN trades : KeepsOrder(k)
  /\ PricesAsWanted

LEMMA InitEstablishes == Init => IInv
<1> SUFFICES ASSUME Init PROVE IInv
  OBVIOUS
<1>1. RegistryOK(Registry)
  BY DEF Init, Registry, RegistryOK
<1>2. EncoderTypeOK
  BY <1>1, EncoderAssumption DEF Init, EncoderTypeOK
<1>3. DOMAIN trades = {} /\ DOMAIN clearingPrices = {} /\ \A i \in 0..MaxIndex : wanted[i] = 0
  BY DEF Init
<1>4. PricesAsWanted
  BY <1>3 DEF PricesAsWanted
<1> QED
  BY <1>2, <1>3, <1>4 DEF IInv

(* Trades made before keep standing for their orders while the list of tokens *)
(* only grows at its end.                                                     *)
LEMMA TradesKept ==
  ASSUME IInv, trades' = trades, given' = given,
         Len(tokens') \in Nat, Len(tokens') >= Len(tokens),
         \A i \in DOMAIN tokens : i \in DOMAIN tokens' /\ tokens'[i] = tokens[i]
  PROVE  \A k \in DOMAIN trades : KeepsOrder(k)'
<1> SUFFICES ASSUME NEW k \in DOMAIN trades PROVE KeepsOrder(k)'
  OBVIOUS
<1>1. KeepsOrder(k) /\ trades \in Seq(EncodedTrade) /\ tokens \in Seq(Token)
  BY DEF IInv, EncoderTypeOK, RegistryOK, Registry
<1>2. trades[k].sellTokenIndex \in Nat /\ trades[k].buyTokenIndex \in Nat
  <2>1. trades[k] \in EncodedTrade
    BY <1>1
  <2> QED
    BY <2>1 DEF EncodedTrade
<1>3. trades[k].sellTokenIndex + 1 \in DOMAIN tokens /\ trades[k].buyTokenIndex + 1 \in DOMAIN tokens
  BY <1>1, <1>2 DEF KeepsOrder
<1> QED
  BY <1>1, <1>2, <1>3 DEF KeepsOrder

(* Filling the array up for n tokens keeps every price as it was asked for.   *)
LEMMA PricesKept ==
  ASSUME IInv, NEW n \in Nat, n <= Len(tokens'), Len(tokens') \in Nat, Len(tokens') >= Len(tokens),
         clearingPrices' = Resized(clearingPrices, n), wanted' = wanted
  PROVE  PricesAsWanted'
<1>1. /\ clearingPrices \in Seq(Nat) /\ Len(clearingPrices) \in Nat
      /\ tokens \in Seq(Token) /\ Len(tokens) \in Nat
      /\ wanted \in [0..MaxIndex -> Price \cup {0}]
  BY DEF IInv, EncoderTypeOK, RegistryOK, Registry
<1>2. /\ clearingPrices' \in Seq(Nat)
      /\ Len(clearingPrices') = IF Len(clearingPrices) >= n THEN Len(clearingPrices) ELSE n
      /\ \A i \in 1..Len(clearingPrices') :
           clearingPrices'[i] = IF i <= Len(clearingPrices) THEN clearingPrices[i] ELSE 0
  BY <1>1, Resizing
<1>3. PricesAsWanted
  BY DEF IInv
<1>4. ASSUME NEW i \in DOMAIN clearingPrices'
      PROVE  clearingPrices'[i] = IF i - 1 \in 0..MaxIndex THEN wanted[i - 1] ELSE 0
  <2>1. i \in 1..Len(clearingPrices')
    BY <1>2
  <2>2. CASE i <= Len(clearingPrices)
    BY <1>1, <1>2, <1>3, <2>1, <2>2 DEF PricesAsWanted
  <2>3. CASE ~(i <= Len(clearingPrices))
    <3>1. clearingPrices'[i] = 0
      BY <1>2, <2>1, <2>3
    <3>2. i - 1 \in 0..MaxIndex => wanted[i - 1] = 0
      <4>1. ~(i - 1 < Len(clearingPrices))
        BY <1>1, <2>1, <2>3
      <4> QED
        BY <1>3, <4>1 DEF PricesAsWanted
    <3> QED
      BY <3>1, <3>2
  <2> QED
    BY <2>2, <2>3
<1>5. \A i \in 0..MaxIndex : wanted[i] # 0 => i < Len(clearingPrices')
  BY <1>1, <1>2, <1>3, EncoderAssumption DEF PricesAsWanted
<1>6. PricesAsWanted'
  BY <1>4, <1>5 DEF PricesAsWanted
<1> QED
  BY <1>6

LEMMA AddTokenPreserves ==
  ASSUME IInv, NEW t \in Token, AddToken(t)
  PROVE  IInv'
<1> DEFINE reg == Registered(Registry, t)
<1>1. Registry = [list |-> Registry.list, map |-> Registry.map] /\ RegistryOK(Registry)
  BY DEF IInv, EncoderTypeOK, Registry
<1>2. /\ reg = [list |-> reg.list, map |-> reg.map]
      /\ RegistryOK(reg)
      /\ Len(reg.list) >= Len(tokens)
      /\ \A i \in DOMAIN tokens : i \in DOMAIN reg.list /\ reg.list[i] = tokens[i]
      /\ reg.map[t] \in Nat /\ reg.map[t] < Len(reg.list)
  BY <1>1, Registering DEF Registry
<1>3. /\ tokens' = reg.list /\ tokenMap' = reg.map
      /\ clearingPrices' = Resized(clearingPrices, reg.map[t] + 1)
      /\ UNCHANGED <<trades, interactions, given, wanted>>
  BY DEF AddToken, SetRegistry
<1> HIDE DEF reg
<1>4. Registry' = reg
  BY <1>2, <1>3 DEF Registry
<1>5. Len(tokens') \in Nat /\ reg.map[t] + 1 \in Nat /\ reg.map[t] + 1 <= Len(tokens')
  BY <1>2, <1>3 DEF RegistryOK
<1>6. PricesAsWanted'
  BY <1>2, <1>3, <1>5, PricesKept
<1>7. \A k \in DOMAIN trades : KeepsOrder(k)'
  BY <1>2, <1>3, <1>5, TradesKept
<1>8. clearingPrices' \in Seq(Nat) /\ Len(clearingPrices') >= Len(tokens')
  <2>1. /\ clearingPrices \in Seq(Nat) /\ Len(clearingPrices) \in Nat /\ Len(clearingPrices) >= Len(tokens)
        /\ Len(tokens) \in Nat
    BY DEF IInv, EncoderTypeOK, RegistryOK, Registry
  <2>2. /\ clearingPrices' \in Seq(Nat)
        /\ Len(clearingPrices') =
             IF Len(clearingPrices) >= reg.map[t] + 1 THEN Len(clearingPrices) ELSE reg.map[t] + 1
    BY <1>3, <1>5, <2>1, Resizing
  <2>3. Len(tokens') = Len(tokens) \/ Len(tokens') = reg.map[t] + 1
    <3>1. CASE t \in DOMAIN tokenMap
      BY <1>3, <3>1 DEF Registered, Registry, reg
    <3>2. CASE t \notin DOMAIN tokenMap
      <4>1. reg.list = Append(tokens, t) /\ reg.map[t] = Len(tokens)
        BY <3>2 DEF Registered, Registry, reg
      <4>2. tokens \in Seq(Token)
        BY <1>1 DEF RegistryOK, Registry
      <4> QED
        BY <1>3, <4>1, <4>2
    <3> QED
      BY <3>1, <3>2
  <2> QED
    BY <1>2, <1>5, <2>1, <2>2, <2>3
<1>9. EncoderTypeOK'
  BY <1>2, <1>3, <1>4, <1>8 DEF IInv, EncoderTypeOK
<1> QED
  BY <1>3, <1>6, <1>7, <1>9 DEF IInv

LEMMA SetClearingPricePreserves ==
  ASSUME IInv, NEW i \in 0..MaxIndex, NEW price \in Price, SetClearingPrice(i, price)
  PROVE  IInv'
<1> DEFINE filled == Resized(clearingPrices, i + 1)
<1>1. /\ clearingPrices \in Seq(Nat) /\ Len(clearingPrices) \in Nat
      /\ tokens \in Seq(Token) /\ Len(tokens) \in Nat /\ Len(clearingPrices) >= Len(tokens)
      /\ wanted \in [0..MaxIndex -> Price \cup {0}]
      /\ i \in Nat /\ price \in Nat /\ price # 0
  BY EncoderAssumption DEF IInv, EncoderTypeOK, RegistryOK, Registry
<1>2. /\ filled \in Seq(Nat)
      /\ Len(filled) = IF Len(clearingPrices) >= i + 1 THEN Len(clearingPrices) ELSE i + 1
      /\ \A j \in 1..Len(filled) : filled[j] = IF j <= Len(clearingPrices) THEN clearingPrices[j] ELSE 0
  BY <1>1, Resizing
<1>3. /\ clearingPrices' = [filled EXCEPT ![i + 1] = price]
      /\ wanted' = [wanted EXCEPT ![i] = price]
      /\ UNCHANGED <<tokens, tokenMap, trades, interactions, given>>
  BY DEF SetClearingPrice
<1> HIDE DEF filled
<1>4. /\ clearingPrices' \in Seq(Nat) /\ Len(clearingPrices') = Len(filled)
      /\ i + 1 \in 1..Len(filled)
      /\ \A j \in 1..Len(filled) : clearingPrices'[j] = IF j = i + 1 THEN price ELSE filled[j]
  BY <1>1, <1>2, <1>3
<1>5. \A j \in 0..MaxIndex : wanted'[j] = IF j = i THEN price ELSE wanted[j]
  BY <1>1, <1>3
<1>6. PricesAsWanted
  BY DEF IInv
<1>7. ASSUME NEW j \in DOMAIN clearingPrices'
      PROVE  clearingPrices'[j] = IF j - 1 \in 0..MaxIndex THEN wanted'[j - 1] ELSE 0
  <2>1. j \in 1..Len(filled)
    BY <1>4
  <2>2. CASE j = i + 1
    BY <1>1, <1>4, <1>5, <2>1, <2>2
  <2>3. CASE j # i + 1
    <3>1. clearingPrices'[j] = IF j <= Len(clearingPrices) THEN clearingPrices[j] ELSE 0
      BY <1>2, <1>4, <2>1, <2>3
    <3>2. j - 1 \in 0..MaxIndex => wanted'[j - 1] = wanted[j - 1]
      BY <1>1, <1>5, <2>1, <2>3
    <3>3. CASE j <= Len(clearingPrices)
      <4>1. j \in DOMAIN clearingPrices
        BY <1>1, <2>1, <3>3
      <4> QED
        BY <1>6, <3>1, <3>2, <3>3, <4>1 DEF PricesAsWanted
    <3>4. CASE ~(j <= Len(clearingPrices))
      <4>1. j - 1 \in 0..MaxIndex => wanted[j - 1] = 0
        <5>1. ~(j - 1 < Len(clearingPrices))
          BY <1>1, <2>1, <3>4
        <5> QED
          BY <1>6, <5>1 DEF PricesAsWanted
      <4> QED
        BY <3>1, <3>2, <3>4, <4>1
    <3> QED
      BY <3>3, <3>4
  <2> QED
    BY <2>2, <2>3
<1>8. \A j \in 0..MaxIndex : wanted'[j] # 0 => j < Len(clearingPrices')
  BY <1>1, <1>2, <1>4, <1>5, <1>6 DEF PricesAsWanted
<1>10. EncoderTypeOK'
  <2>1. wanted' \in [0..MaxIndex -> Price \cup {0}]
    BY <1>1, <1>3
  <2>2. Registry' = Registry
    BY <1>3 DEF Registry
  <2>3. Len(clearingPrices') >= Len(tokens')
    BY <1>1, <1>2, <1>3, <1>4
  <2> QED
    BY <1>3, <1>4, <2>1, <2>2, <2>3 DEF IInv, EncoderTypeOK
<1>11. \A k \in DOMAIN trades : KeepsOrder(k)'
  BY <1>1, <1>3, TradesKept
<1> QED
  BY <1>3, <1>7, <1>8, <1>10, <1>11 DEF IInv, PricesAsWanted

LEMMA AddTradePreserves ==
  ASSUME IInv, NEW o \in Orders, NEW sig \in SignaturesOf(o), AddTrade(o, sig)
  PROVE  IInv'
<1> DEFINE mid == Registered(Registry, o.sellToken)
           reg == Registered(mid, o.buyToken)
           trade == EncodeTrade(reg, o, sig)
           item == [order |-> o, signature |-> sig]
<1>1. o \in Order /\ o.sellToken \in Token /\ o.buyToken \in Token /\ o.rest \in Rest
  BY EncoderAssumption DEF Order
<1>2. /\ mid = [list |-> mid.list, map |-> mid.map]
      /\ RegistryOK(mid)
      /\ Len(mid.list) >= Len(tokens)
      /\ \A i \in DOMAIN tokens : i \in DOMAIN mid.list /\ mid.list[i] = tokens[i]
      /\ o.sellToken \in DOMAIN mid.map
      /\ mid.map[o.sellToken] \in Nat /\ mid.map[o.sellToken] < Len(mid.list)
      /\ mid.list[mid.map[o.sellToken] + 1] = o.sellToken
  <2>1. Registry = [list |-> Registry.list, map |-> Registry.map] /\ RegistryOK(Registry)
    BY DEF IInv, EncoderTypeOK, Registry
  <2> QED
    BY <1>1, <2>1, Registering DEF Registry
<1> HIDE DEF mid
<1>3. /\ reg = [list |-> reg.list, map |-> reg.map]
      /\ RegistryOK(reg)
      /\ Len(reg.list) >= Len(mid.list)
      /\ \A i \in DOMAIN mid.list : i \in DOMAIN reg.list /\ reg.list[i] = mid.list[i]
      /\ reg.map[o.buyToken] \in Nat /\ reg.map[o.buyToken] < Len(reg.list)
      /\ reg.list[reg.map[o.buyToken] + 1] = o.buyToken
      /\ reg.map[o.sellToken] = mid.map[o.sellToken]
  BY <1>1, <1>2, Registering
<1> HIDE DEF reg
<1>4. /\ tokens' = reg.list /\ tokenMap' = reg.map
      /\ clearingPrices' = Resized(clearingPrices, Len(reg.list))
      /\ trades' = Append(trades, trade)
      /\ given' = Append(given, item)
      /\ UNCHANGED <<interactions, wanted>>
  BY DEF AddTrade, SetRegistry, mid, reg
<1>5. /\ tokens \in Seq(Token) /\ Len(tokens) \in Nat
      /\ clearingPrices \in Seq(Nat) /\ Len(clearingPrices) \in Nat /\ Len(clearingPrices) >= Len(tokens)
      /\ trades \in Seq(EncodedTrade) /\ given \in Seq([order : Orders, signature : SignatureData])
      /\ Len(trades) = Len(given) /\ Len(given) \in Nat
  BY DEF IInv, EncoderTypeOK, RegistryOK, Registry
<1>6. /\ reg.list \in Seq(Token) /\ Len(reg.list) \in Nat /\ Len(reg.list) >= Len(tokens)
      /\ mid.list \in Seq(Token) /\ Len(mid.list) \in Nat
      /\ \A i \in DOMAIN tokens : i \in DOMAIN reg.list /\ reg.list[i] = tokens[i]
  <2>1. reg.list \in Seq(Token) /\ mid.list \in Seq(Token)
    BY <1>2, <1>3 DEF RegistryOK
  <2>2. Len(reg.list) \in Nat /\ Len(mid.list) \in Nat
    BY <2>1
  <2>3. Len(reg.list) >= Len(tokens)
    BY <1>2, <1>3, <1>5, <2>2
  <2>4. ASSUME NEW i \in DOMAIN tokens PROVE i \in DOMAIN reg.list /\ reg.list[i] = tokens[i]
    BY <1>2, <1>3
  <2> QED
    BY <2>1, <2>2, <2>3, <2>4
<1>7. /\ reg.map[o.sellToken] \in Nat /\ reg.map[o.sellToken] < Len(reg.list)
      /\ reg.list[reg.map[o.sellToken] + 1] = o.sellToken
  <2>1. mid.map[o.sellToken] + 1 \in DOMAIN mid.list
    BY <1>2, <1>6
  <2> QED
    BY <1>2, <1>3, <1>6, <2>1
<1>8. sig.scheme \in Schemes /\ sig.digest \in Order /\ sig \in SignatureData
  <2>1. Normalize(o) \in Order
    BY <1>1 DEF Normalize, NormalizeBuyBalance, Order, Balances
  <2> QED
    BY <1>1, <2>1 DEF SignaturesOf, SignatureData
<1>9. EncodeFlags(o, sig.scheme) \in Nat
  <2>1. /\ KindIndex[o.kind] \in Nat /\ SellIndex[o.sellBalance] \in Nat
        /\ BuyIndex[NormalizeBuyBalance(o.buyBalance)] \in Nat /\ SchemeIndex[sig.scheme] \in Nat
    BY <1>1, <1>8 DEF Order, KindIndex, SellIndex, BuyIndex, SchemeIndex, NormalizeBuyBalance,
                      Kinds, Balances, Schemes
  <2> QED
    BY <2>1 DEF EncodeFlags
<1>10. trade \in EncodedTrade
  BY <1>1, <1>3, <1>7, <1>8, <1>9 DEF EncodeTrade, EncodedTrade
<1>11. /\ trade.sellTokenIndex = reg.map[o.sellToken] /\ trade.buyTokenIndex = reg.map[o.buyToken]
       /\ trade.rest = o.rest /\ trade.flags = EncodeFlags(o, sig.scheme) /\ trade.digest = sig.digest
  BY DEF EncodeTrade
<1>12. item \in [order : Orders, signature : SignatureData] /\ item.order = o /\ item.signature = sig
  BY <1>8
<1> HIDE DEF trade, item
<1>13. /\ trades' \in Seq(EncodedTrade) /\ Len(trades') = Len(trades) + 1
       /\ trades'[Len(trades) + 1] = trade
       /\ \A k \in DOMAIN trades : trades'[k] = trades[k]
       /\ given' \in Seq([order : Orders, signature : SignatureData]) /\ Len(given') = Len(given) + 1
       /\ given'[Len(given) + 1] = item
       /\ \A k \in DOMAIN given : given'[k] = given[k]
       /\ DOMAIN trades' = DOMAIN trades \cup {Len(trades) + 1}
       /\ DOMAIN trades = DOMAIN given
  BY <1>4, <1>5, <1>10, <1>12
<1>14. ASSUME NEW k \in DOMAIN trades' PROVE KeepsOrder(k)'
  <2>1. CASE k \in DOMAIN trades
    <3>1. KeepsOrder(k) /\ trades[k] \in EncodedTrade
      BY <1>5, <2>1 DEF IInv
    <3>2. trades[k].sellTokenIndex \in Nat /\ trades[k].buyTokenIndex \in Nat
      BY <3>1 DEF EncodedTrade
    <3>3. trades[k].sellTokenIndex + 1 \in DOMAIN tokens /\ trades[k].buyTokenIndex + 1 \in DOMAIN tokens
      BY <1>5, <3>1, <3>2 DEF KeepsOrder
    <3>4. trades'[k] = trades[k] /\ given'[k] = given[k]
      BY <1>13, <2>1
    <3>5. /\ tokens'[trades[k].sellTokenIndex + 1] = tokens[trades[k].sellTokenIndex + 1]
          /\ tokens'[trades[k].buyTokenIndex + 1] = tokens[trades[k].buyTokenIndex + 1]
          /\ Len(tokens') \in Nat /\ Len(tokens') >= Len(tokens)
      BY <1>4, <1>6, <3>3
    <3> QED
      BY <1>5, <3>1, <3>2, <3>4, <3>5 DEF KeepsOrder
  <2>2. CASE k = Len(trades) + 1
    <3>1. trades'[k] = trade /\ given'[k] = item
      BY <1>5, <1>13, <2>2
    <3> QED
      BY <1>3, <1>4, <1>7, <1>11, <1>12, <3>1 DEF KeepsOrder
  <2> QED
    BY <1>13, <2>1, <2>2
<1>15. PricesAsWanted'
  BY <1>4, <1>6, PricesKept
<1>16. clearingPrices' \in Seq(Nat) /\ Len(clearingPrices') >= Len(tokens')
  BY <1>4, <1>5, <1>6, Resizing
<1>17. EncoderTypeOK'
  <2>1. Registry' = reg
    BY <1>3, <1>4 DEF Registry
  <2> QED
    BY <1>3, <1>4, <1>5, <1>13, <1>16, <2>1 DEF IInv, EncoderTypeOK
<1> QED
  BY <1>14, <1>15, <1>17 DEF IInv

LEMMA AddInteractionPreserves ==
  ASSUME IInv, NEW s \in Stages, NEW c \in Call, AddInteraction(s, c)
  PROVE  IInv'
<1>1. /\ interactions' = [interactions EXCEPT ![s] = Append(@, c)]
      /\ UNCHANGED <<tokens, tokenMap, clearingPrices, trades, given, wanted>>
  BY DEF AddInteraction
<1>2. interactions' \in [Stages -> Seq(Call)]
  <2>1. interactions \in [Stages -> Seq(Call)]
    BY DEF IInv, EncoderTypeOK
  <2>2. Append(interactions[s], c) \in Seq(Call)
    BY <2>1
  <2> QED
    BY <1>1, <2>1, <2>2
<1>3. Registry' = Registry /\ \A k : KeepsOrder(k)' = KeepsOrder(k)
  BY <1>1 DEF Registry, KeepsOrder
<1>4. PricesAsWanted' = PricesAsWanted
  BY <1>1 DEF PricesAsWanted
<1> QED
  BY <1>1, <1>2, <1>3, <1>4 DEF IInv, EncoderTypeOK

LEMMA ClearPreserves ==
  ASSUME IInv, Clear
  PROVE  IInv'
<1>1. /\ tokens' = <<>> /\ tokenMap' = [t \in {} |-> 0] /\ clearingPrices' = <<>> /\ trades' = <<>>
      /\ given' = <<>> /\ interactions' = [s \in Stages |-> <<>>]
      /\ wanted' = [i \in 0..MaxIndex |-> 0]
  BY DEF Clear, SetRegistry
<1>2. RegistryOK(Registry)'
  BY <1>1 DEF Registry, RegistryOK
<1>3. EncoderTypeOK'
  BY <1>1, <1>2, EncoderAssumption DEF EncoderTypeOK
<1>4. DOMAIN trades' = {} /\ DOMAIN clearingPrices' = {} /\ \A i \in 0..MaxIndex : wanted'[i] = 0
  BY <1>1
<1>5. PricesAsWanted'
  BY <1>1, <1>4 DEF PricesAsWanted
<1> QED
  BY <1>3, <1>4, <1>5 DEF IInv

(* The invariant holds in every reachable state.                             *)
LEMMA Invariance == Spec => []IInv
<1>1. IInv /\ [Next]_vars => IInv'
  <2> SUFFICES ASSUME IInv, [Next]_vars PROVE IInv'
    OBVIOUS
  <2>1. ASSUME NEW t \in Token, AddToken(t) PROVE IInv'
    BY <2>1, AddTokenPreserves
  <2>2. ASSUME NEW i \in 0..MaxIndex, NEW p \in Price, SetClearingPrice(i, p) PROVE IInv'
    BY <2>2, SetClearingPricePreserves
  <2>3. ASSUME NEW o \in Orders, NEW sig \in SignaturesOf(o), AddTrade(o, sig) PROVE IInv'
    BY <2>3, AddTradePreserves
  <2>4. ASSUME NEW s \in Stages, NEW c \in Call, AddInteraction(s, c) PROVE IInv'
    BY <2>4, AddInteractionPreserves
  <2>5. CASE Clear
    BY <2>5, ClearPreserves
  <2>6. CASE UNCHANGED vars
    <3>1. Registry' = Registry /\ \A k : KeepsOrder(k)' = KeepsOrder(k)
      BY <2>6 DEF vars, Registry, KeepsOrder
    <3>2. PricesAsWanted' = PricesAsWanted
      BY <2>6 DEF vars, PricesAsWanted
    <3> QED
      BY <2>6, <3>1, <3>2 DEF vars, IInv, EncoderTypeOK
  <2> QED
    BY <2>1, <2>2, <2>3, <2>4, <2>5, <2>6 DEF Next
<1> QED
  BY <1>1, InitEstablishes, PTL DEF Spec
-----------------------------------------------------------------------------
(* The theorems.                                                             *)

\* The registry numbers every token once, there is a price for each of them and the
\* trades match the orders given, whatever was added in whatever order (encoder.rs).
THEOREM EncoderTypeCorrect == Spec => []EncoderTypeOK
<1>1. IInv => EncoderTypeOK
  BY DEF IInv
<1> QED
  BY <1>1, Invariance, PTL

\* A trade stands for its order for as long as it is in the settlement: what is decoded is
\* the order, normalized, and its scheme (encode_trade, decode_order, flags.rs).
LEMMA ReadsBack ==
  ASSUME IInv, NEW k \in DOMAIN trades
  PROVE  /\ DecodeOrder(trades[k], tokens) = {Normalize(given[k].order)}
         /\ DecodeScheme(trades[k].flags) = given[k].signature.scheme
<1> DEFINE o == given[k].order
           scheme == given[k].signature.scheme
<1>1. o \in Order /\ scheme \in Schemes
  <2> DEFINE Items == [order : Orders, signature : SignatureData]
  <2>1. given \in Seq(Items) /\ k \in DOMAIN given
    BY DEF IInv, EncoderTypeOK
  <2> HIDE DEF Items
  <2>2. given[k] \in Items
    BY <2>1
  <2> QED
    BY <2>2, EncoderAssumption DEF Items, SignatureData
<1>2. KeepsOrder(k) /\ trades[k].sellTokenIndex \in Nat /\ trades[k].buyTokenIndex \in Nat /\ Len(tokens) \in Nat
  <2>1. trades \in Seq(EncodedTrade) /\ tokens \in Seq(Token)
    BY DEF IInv, EncoderTypeOK, RegistryOK, Registry
  <2>2. trades[k] \in EncodedTrade
    BY <2>1
  <2> QED
    BY <2>1, <2>2 DEF IInv, EncodedTrade
<1>3. /\ DecodeFlags(trades[k].flags) = {FlagsOf(o)}
      /\ DecodeScheme(trades[k].flags) = scheme
  BY <1>1, <1>2, FlagsReadBack DEF KeepsOrder
<1>4. DecodeOrder(trades[k], tokens) =
        {[sellToken |-> o.sellToken, buyToken |-> o.buyToken, kind |-> f.kind,
          partiallyFillable |-> f.partiallyFillable, sellBalance |-> f.sellBalance,
          buyBalance |-> f.buyBalance, rest |-> o.rest] : f \in {FlagsOf(o)}}
  BY <1>2, <1>3 DEF DecodeOrder, KeepsOrder
<1>5. Normalize(o) =
        [sellToken |-> o.sellToken, buyToken |-> o.buyToken, kind |-> o.kind,
         partiallyFillable |-> o.partiallyFillable, sellBalance |-> o.sellBalance,
         buyBalance |-> NormalizeBuyBalance(o.buyBalance), rest |-> o.rest]
  BY <1>1 DEF Normalize, Order
<1> QED
  BY <1>3, <1>4, <1>5 DEF FlagsOf

THEOREM TradesAlwaysReadBack == Spec => []TradesReadBack
<1>1. IInv => TradesReadBack
  BY ReadsBack DEF TradesReadBack
<1> QED
  BY <1>1, Invariance, PTL

\* No price is overwritten by filling up, or inherited from a cleared settlement.
THEOREM PricesFollow == Spec => []PricesAsWanted
<1>1. IInv => PricesAsWanted
  BY DEF IInv
<1> QED
  BY <1>1, Invariance, PTL

\* Every trade can be settled just when its order was signed normalized and its tokens were
\* priced (encode_settlement, normalize_order, set_clearing_price).
THEOREM SettleableJustIfReady == Spec => []SettleableIfReady
<1>1. ASSUME IInv PROVE SettleableIfReady
  <2>1. /\ clearingPrices \in Seq(Nat) /\ Len(clearingPrices) \in Nat
        /\ tokens \in Seq(Token) /\ Len(tokens) \in Nat /\ Len(clearingPrices) >= Len(tokens)
        /\ PricesAsWanted /\ RegistryOK(Registry)
    BY <1>1 DEF IInv, EncoderTypeOK, RegistryOK, Registry
  <2>2. ASSUME NEW k \in DOMAIN trades
        PROVE  /\ trades[k].digest = given[k].signature.digest
               /\ DecodeOrder(trades[k], tokens) = {Normalize(given[k].order)}
    BY <1>1, ReadsBack DEF IInv, KeepsOrder
  <2>3. ASSUME NEW i \in Nat, i < Len(tokens)
        PROVE  /\ i < Len(clearingPrices)
               /\ clearingPrices[i + 1] # 0 <=> Priced(tokens[i + 1])
    <3>1. i + 1 \in DOMAIN tokens /\ i + 1 \in DOMAIN clearingPrices /\ i < Len(clearingPrices)
      BY <2>1, <2>3
    <3>2. tokenMap[tokens[i + 1]] = i
      BY <2>1, <3>1 DEF RegistryOK, Registry
    <3>3. clearingPrices[i + 1] = IF i \in 0..MaxIndex THEN wanted[i] ELSE 0
      BY <2>1, <3>1 DEF PricesAsWanted
    <3> QED
      BY <3>1, <3>2, <3>3 DEF Priced
  <2>4. ASSUME NEW k \in DOMAIN trades
        PROVE  /\ trades[k].sellTokenIndex \in Nat /\ trades[k].sellTokenIndex < Len(tokens)
               /\ trades[k].buyTokenIndex \in Nat /\ trades[k].buyTokenIndex < Len(tokens)
               /\ tokens[trades[k].sellTokenIndex + 1] = given[k].order.sellToken
               /\ tokens[trades[k].buyTokenIndex + 1] = given[k].order.buyToken
    <3>1. trades[k] \in EncodedTrade
      BY <1>1 DEF IInv, EncoderTypeOK
    <3>2. trades[k].sellTokenIndex \in Nat /\ trades[k].buyTokenIndex \in Nat
      BY <3>1 DEF EncodedTrade
    <3>3. KeepsOrder(k)
      BY <1>1 DEF IInv
    <3> QED
      BY <3>2, <3>3 DEF KeepsOrder
  <2>5. DOMAIN trades = DOMAIN given
    BY <1>1 DEF IInv, EncoderTypeOK
  <2>6. ASSUME NEW k \in DOMAIN trades
        PROVE  /\ (\E o \in DecodeOrder(trades[k], tokens) : trades[k].digest = o)
                    <=> given[k].signature.digest = Normalize(given[k].order)
               /\ (\A i \in {trades[k].sellTokenIndex, trades[k].buyTokenIndex} :
                     i < Len(clearingPrices) /\ clearingPrices[i + 1] # 0)
                    <=> Priced(given[k].order.sellToken) /\ Priced(given[k].order.buyToken)
    <3>1. (\E o \in DecodeOrder(trades[k], tokens) : trades[k].digest = o)
             <=> given[k].signature.digest = Normalize(given[k].order)
      BY <2>2
    <3>2. LET i == trades[k].sellTokenIndex
          IN  i < Len(clearingPrices) /\ (clearingPrices[i + 1] # 0 <=> Priced(given[k].order.sellToken))
      BY <2>3, <2>4
    <3>3. LET i == trades[k].buyTokenIndex
          IN  i < Len(clearingPrices) /\ (clearingPrices[i + 1] # 0 <=> Priced(given[k].order.buyToken))
      BY <2>3, <2>4
    <3> QED
      BY <3>1, <3>2, <3>3
  <2>7. Settleable(EncodeSettlement) <=>
          \A k \in DOMAIN trades :
            /\ \E o \in DecodeOrder(trades[k], tokens) : trades[k].digest = o
            /\ \A i \in {trades[k].sellTokenIndex, trades[k].buyTokenIndex} :
                 i < Len(clearingPrices) /\ clearingPrices[i + 1] # 0
    BY DEF Settleable, EncodeSettlement
  <2> QED
    BY <2>5, <2>6, <2>7 DEF SettleableIfReady
<1> QED
  BY <1>1, Invariance, PTL

\* A token keeps its number for the life of the settlement (index).
THEOREM NumbersAlwaysStay == Spec => NumbersStay
<1> DEFINE Step == \/ \A i \in DOMAIN tokens : i \in DOMAIN tokens' /\ tokens'[i] = tokens[i]
                   \/ tokens' = <<>> /\ trades' = <<>>
<1>1. ASSUME IInv, [Next]_vars PROVE Step
  <2>1. Registry = [list |-> Registry.list, map |-> Registry.map] /\ RegistryOK(Registry)
    BY <1>1 DEF IInv, EncoderTypeOK, Registry
  <2>2. ASSUME NEW t \in Token, AddToken(t) PROVE Step
    BY <2>1, <2>2, Registering DEF AddToken, SetRegistry, Registry
  <2>3. ASSUME NEW i \in 0..MaxIndex, NEW p \in Price, SetClearingPrice(i, p) PROVE Step
    BY <2>3 DEF SetClearingPrice
  <2>4. ASSUME NEW o \in Orders, NEW sig \in SignaturesOf(o), AddTrade(o, sig) PROVE Step
    <3> DEFINE mid == Registered(Registry, o.sellToken)
               reg == Registered(mid, o.buyToken)
    <3>1. o.sellToken \in Token /\ o.buyToken \in Token
      BY EncoderAssumption DEF Order
    <3>2. /\ mid = [list |-> mid.list, map |-> mid.map] /\ RegistryOK(mid)
          /\ \A i \in DOMAIN tokens : i \in DOMAIN mid.list /\ mid.list[i] = tokens[i]
      BY <2>1, <3>1, Registering DEF Registry
    <3> HIDE DEF mid
    <3>3. \A i \in DOMAIN mid.list : i \in DOMAIN reg.list /\ reg.list[i] = mid.list[i]
      BY <3>1, <3>2, Registering
    <3> HIDE DEF reg
    <3>4. tokens' = reg.list
      BY <2>4 DEF AddTrade, SetRegistry, mid, reg
    <3> QED
      BY <3>2, <3>3, <3>4
  <2>5. ASSUME NEW s \in Stages, NEW c \in Call, AddInteraction(s, c) PROVE Step
    BY <2>5 DEF AddInteraction
  <2>6. CASE Clear
    BY <2>6 DEF Clear, SetRegistry
  <2>7. CASE UNCHANGED vars
    BY <2>7 DEF vars
  <2> QED
    BY <1>1, <2>2, <2>3, <2>4, <2>5, <2>6, <2>7 DEF Next
<1>2. Spec => [][Step]_vars
  BY <1>1, Invariance, PTL DEF Spec
<1> QED
  BY <1>2 DEF NumbersStay
=============================================================================
