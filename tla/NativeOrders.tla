---------------------------- MODULE NativeOrders ----------------------------
(***************************************************************************)
(* Orders that sell the native currency.  post_sell_native_currency_order  *)
(* (crates/trading/src/sdk.rs) does not post anything: it predicts the uid *)
(* of an order that the EthFlow contract will place for the trader, and    *)
(* returns it with the transaction that makes the contract do so (calldata *)
(* of crates/ethflow).  The trader sends the transaction; the server finds *)
(* the order on chain, and transform_order (crates/orderbook) turns the    *)
(* server's order, owned by the contract, back into the trader's.          *)
(*                                                                         *)
(* The contract and the server are external.  A digest is the order itself.*)
(***************************************************************************)
EXTENDS QuoteAmounts, FiniteSets

CONSTANTS
  Calls,            \* the trader's calls
  Natives,          \* the LimitTradeParameters she may call with
  SdkOrders,        \* the EthFlowOrderData she may fill in herself
  Envs,             \* the environments, prod and staging
  EthFlowSlippage,  \* ETH_FLOW_DEFAULT_SLIPPAGE_BPS
  DefaultValidity,  \* DEFAULT_QUOTE_VALIDITY, in ticks
  U32Size,          \* 2^32
  MaxNow            \* bound of the clock

\* MAX_VALID_TO_EPOCH
MaxValidTo == U32Size - 1

Option(T) == {o \in SUBSET T : \A v, w \in o : v = w}

\* What the types of the parameters say.
LimitTradeParameters(p) ==
  /\ p.isSell \in BOOLEAN /\ p.sell \in 0..(WordSize - 1) /\ p.buy \in 0..(WordSize - 1)
  /\ p.validFor \in Option(0..MaxValidTo) /\ p.validTo \in Option(0..MaxValidTo)
  /\ p.partnerFee \in Option(Nat)

EthFlowOrderData(d) ==
  /\ d.sell \in 0..(WordSize - 1) /\ d.buy \in 0..(WordSize - 1) /\ d.fee \in 0..(WordSize - 1)
  /\ d.validTo \in 0..MaxValidTo

ASSUME NativeAssumption ==
  /\ Envs \subseteq {"prod", "staging"}
  /\ EthFlowSlippage \in 0..OneHundredBps /\ DefaultValidity \in Nat
  /\ U32Size \in Nat \ {0} /\ MaxNow \in Nat
  /\ \A p \in Natives : LimitTradeParameters(p)
  /\ \A d \in SdkOrders : EthFlowOrderData(d)

VARIABLES
  now,    \* the clock, in ticks
  step,   \* where each call is
  made,   \* what a call was made with, and what it returned
  chain,  \* the orders on chain: who placed them, where, with what data
  docs    \* the calls whose app-data document the server has

nativeVars == <<now, step, made, chain, docs>>

ValueOr(o, d) == IF o = {} THEN d ELSE CHOOSE v \in o : TRUE

\* Mutant: the seconds are not cut.
ToU64(n) == n

\* The cast of a deadline.
ToU32(n) == n % U32Size

\* eth_flow_for_env, which get_eth_flow_contract returns.
EthFlowForEnv(env) == IF env = "prod" THEN "ETH_FLOW_PROD" ELSE "BARN_ETH_FLOW"

\* The contract that get_eth_flow_transaction of the TradingSdk calls.
SdkEthFlow(env) == IF env = "prod" THEN "ETH_FLOW_PROD" ELSE "ETH_FLOW_STAGING"

\* get_order_to_sign for an eth-flow order: no network cost, the contract in
\* the place of the owner, amounts with every fee and slippage.
OrderToSign(p, env) ==
  LET a == SignedByStages([isSell |-> p.isSell, sell |-> p.sell, buy |-> p.buy, fee |-> 0],
                          0, ValueOr(p.partnerFee, 0), EthFlowSlippage)
  IN  [isSell |-> p.isSell, sellToken |-> p.sellToken, sell |-> a.sell, buy |-> a.buy, fee |-> 0,
       receiver |-> ValueOr(p.receiver, EthFlowForEnv(env)),
       validTo |-> ValueOr(p.validTo, ToU32(now + ValueOr(p.validFor, DefaultValidity)))]

\* Mutant: the uid is that of the order as the trader sees it.
UniqueOrderIdOfUser(order, env) ==
  [digest |-> [order EXCEPT !.sellToken = "wrapped"],
   owner |-> EthFlowForEnv(env), validTo |-> order.validTo]

\* calculate_unique_order_id: the wrapped token, the latest deadline there is,
\* and the contract as the owner.  Nothing is looked up and nothing recomputed.
UniqueOrderId(order, env) ==
  [digest |-> [order EXCEPT !.sellToken = "wrapped", !.validTo = MaxValidTo],
   owner |-> EthFlowForEnv(env), validTo |-> MaxValidTo]

\* encode_eth_flow_create_order: the fields the contract is given.
CreateOrder(order) ==
  [receiver |-> order.receiver, sell |-> order.sell, buy |-> order.buy,
   fee |-> order.fee, validTo |-> order.validTo]

\* Mutant: what is attached is what the trader asked to sell.
ValueAttachedAsked(asked, order) == IF asked = {} THEN order.sell ELSE ValueOr(asked, order).sell

\* The value of the transaction is the order's sell amount, and no fee.
ValueAttached(asked, order) == order.sell
-----------------------------------------------------------------------------
NativeInit ==
  /\ now = 0
  /\ step = [c \in Calls |-> "idle"]
  /\ made = [c \in Calls |-> {}]
  /\ chain = {}
  /\ docs = {}

\* post_sell_native_currency_order up to the upload of the app-data document.
BuildNative(c, p, env) ==
  /\ step[c] = "idle"
  /\ LET order == OrderToSign(p, env)
     IN  made' = [made EXCEPT ![c] =
           {[asked |-> {p}, env |-> env, at |-> now, order |-> order,
             uid |-> {UniqueOrderId(order, env)},
             tx |-> [to |-> EthFlowForEnv(env), data |-> CreateOrder(order),
                     value |-> ValueAttached({p}, order)]]}]
  /\ step' = [step EXCEPT ![c] = "uploading"]
  /\ UNCHANGED <<now, chain, docs>>

\* The upload; its failure is ignored.
UploadNative(c, stored) ==
  /\ step[c] = "uploading"
  /\ step' = [step EXCEPT ![c] = "returned"]
  /\ docs' = IF stored THEN docs \cup {c} ELSE docs
  /\ UNCHANGED <<now, made, chain>>

\* get_eth_flow_transaction of the TradingSdk: the transaction alone, for data
\* the caller has filled in herself, a fee included; a native sell order.
BuildSdkTransaction(c, d, env) ==
  /\ step[c] = "idle"
  /\ LET order == [isSell |-> TRUE, sellToken |-> "native", sell |-> d.sell, buy |-> d.buy,
                   fee |-> d.fee, receiver |-> d.receiver, validTo |-> d.validTo]
     IN  made' = [made EXCEPT ![c] =
           {[asked |-> {}, env |-> env, at |-> now, order |-> order, uid |-> {},
             tx |-> [to |-> SdkEthFlow(env), data |-> CreateOrder(order),
                     value |-> ValueAttached({}, order)]]}]
  /\ step' = [step EXCEPT ![c] = "returned"]
  /\ UNCHANGED <<now, chain, docs>>
-----------------------------------------------------------------------------
(* The contract and the server, modelled from how the code uses them.      *)

\* The order the contract places: it always sells the wrapped token.
PlacedUid(tx) ==
  [digest |-> [isSell |-> TRUE, sellToken |-> "wrapped", sell |-> tx.data.sell, buy |-> tx.data.buy,
               fee |-> tx.data.fee, receiver |-> tx.data.receiver, validTo |-> MaxValidTo],
   owner |-> tx.to, validTo |-> MaxValidTo]

\* createOrder wants the value of the order and its fee, a deadline to come,
\* and an order it has never seen; otherwise the transaction is reverted.
Underpaid(tx) == tx.value # tx.data.sell + tx.data.fee
Expired(tx)   == tx.data.validTo < now
Known(tx)     == \E o \in chain : o.uid = PlacedUid(tx)

\* The trader sends the transaction of a call.
SendTransaction(c) ==
  /\ step[c] = "returned"
  /\ \E m \in made[c] :
       LET why == IF Underpaid(m.tx) THEN "underpaid" ELSE IF Expired(m.tx) THEN "expired"
                  ELSE IF Known(m.tx) THEN "known" ELSE "placed"
       IN  /\ step' = [step EXCEPT ![c] = why]
           /\ chain' = IF why = "placed"
                       THEN chain \cup {[uid |-> PlacedUid(m.tx), user |-> "trader", by |-> c,
                                         data |-> m.tx.data, value |-> m.tx.value]}
                       ELSE chain
  /\ UNCHANGED <<now, made, docs>>

Tick ==
  /\ now < MaxNow
  /\ now' = now + 1
  /\ UNCHANGED <<step, made, chain, docs>>

NativeNext ==
  \/ Tick
  \/ \E c \in Calls :
       \/ \E p \in Natives, env \in Envs : BuildNative(c, p, env)
       \/ \E d \in SdkOrders, env \in Envs : BuildSdkTransaction(c, d, env)
       \/ \E stored \in BOOLEAN : UploadNative(c, stored)
       \/ SendTransaction(c)

NativeSpec == NativeInit /\ [][NativeNext]_nativeVars

\* The server's view of an order on chain.
ServerOrder(o) ==
  [uid |-> o.uid, owner |-> o.uid.owner, sellToken |-> "wrapped", validTo |-> MaxValidTo,
   sell |-> o.data.sell, buy |-> o.data.buy, receiver |-> o.data.receiver,
   ethflowData |-> {o.data.validTo}, onchainUser |-> {o.user}]

\* Mutant: the deadline is left as the server has it (Order::transform_eth_flow).
TransformOrderKeepsDeadline(order) ==
  [order EXCEPT !.owner = ValueOr(order.onchainUser, order.owner), !.sellToken = "native"]

\* transform_order.
TransformOrder(order) ==
  IF order.ethflowData = {} THEN order
  ELSE [order EXCEPT !.validTo = ValueOr(order.ethflowData, 0),
                     !.owner = ValueOr(order.onchainUser, order.owner), !.sellToken = "native"]
-----------------------------------------------------------------------------
NativeTypeOK ==
  /\ now \in 0..MaxNow
  /\ step \in [Calls -> {"idle", "uploading", "returned", "placed", "underpaid", "expired", "known"}]
  /\ \A c \in Calls : Cardinality(made[c]) = (IF step[c] = "idle" THEN 0 ELSE 1)
  /\ \A o \in chain : step[o.by] = "placed"
  /\ docs \subseteq Calls
  /\ \A c \in Calls : \A m \in made[c] : m.order.validTo \in 0..MaxValidTo

\* The uid the call returns is the one the order gets on chain, although it is
\* computed off chain, before the transaction and from other data (for a sell
\* order, the only kind the contract places).
PredictedUid ==
  \A o \in chain : \A m \in made[o.by] : m.order.isSell => \A uid \in m.uid : uid = o.uid

\* What the trader gets back for her order is what she ordered: through the
\* contract's encoding, the server's order and transform_order, she is the owner,
\* it sells the native currency in the amounts and to the receiver that were
\* returned to her (the receiver she named, if she named one), and the deadline
\* is the one she asked for: absolute, or counted from the call while 32 bits
\* hold it, or that of the data she filled in.
RoundTrip ==
  \A o \in chain : \A m \in made[o.by] :
    LET seen == TransformOrder(ServerOrder(o))
    IN  /\ seen.owner = "trader" /\ seen.sellToken = "native"
        /\ seen.sell = m.order.sell /\ seen.buy = m.order.buy
        /\ seen.receiver = m.order.receiver
        /\ m.asked = {} => seen.validTo = m.order.validTo
        /\ \A p \in m.asked :
             /\ p.receiver # {} => seen.receiver \in p.receiver
             /\ p.validTo # {} => seen.validTo \in p.validTo
             /\ p.validTo = {} => LET end == m.at + ValueOr(p.validFor, DefaultValidity)
                                 IN  end < U32Size => seen.validTo = end

\* A transaction that is sent before its deadline has an order on chain, with the
\* amounts and the receiver that were returned with it and under its uid, even
\* if it is reverted because another call has placed an order of the same uid:
\* then only the deadline may be that other call's.  It does not hold of data
\* with a fee, which the transaction does not pay (SdkTransactionsArePaid).
SentOrdersAreLive ==
  \A c \in Calls : \A m \in made[c] :
    step[c] \in {"placed", "known", "underpaid"} /\ m.tx.data.fee = 0 =>
      \E o \in chain : /\ o.data.sell = m.order.sell /\ o.data.buy = m.order.buy
                       /\ o.data.receiver = m.order.receiver /\ o.uid.owner = m.tx.to
                       /\ m.order.isSell => m.uid \subseteq {o.uid}
-----------------------------------------------------------------------------
(* What the documentation says and the code does not do.                   *)

\* crates/trading/src/types.rs: the receiver defaults to the signer's address.
ReceiverDefaultsToTrader ==
  \A c \in Calls : \A m \in made[c] : \A p \in m.asked :
    p.receiver = {} => m.order.receiver = "trader"

\* get_eth_flow_transaction: the transaction is ready to be sent on-chain.  The
\* value is the sell amount, whatever fee_amount says, and the contract wants both.
SdkTransactionsArePaid == \A c \in Calls : step[c] # "underpaid"

\* crates/trading/src/sdk.rs, at calculate_unique_order_id: an amount is
\* decremented and the uid computed again, so that no two orders collide.
UidsNeverCollide == \A c \in Calls : step[c] # "known"
=============================================================================
