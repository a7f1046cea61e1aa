----------------------------- MODULE TradingSdk -----------------------------
(***************************************************************************)
(* The order flows of crates/trading/src/sdk.rs: one trader whose          *)
(* concurrent calls get quotes, keep them, sign orders from them and post  *)
(* them, against a server with a market, a clock and answers that get lost.*)
(*                                                                         *)
(*   swap    get_quote, post_swap_order and their _with_settings variants; *)
(*           a QuoteResults may be kept and posted by any number of calls  *)
(*   limit   post_limit_order, with given parameters or with those derived *)
(*           from a quote by get_limit_trade_parameters_from_quote         *)
(*   trade   post_cow_protocol_trade, which uploads the app-data document  *)
(*                                                                         *)
(* A document's hash is the document under a tag: hashing is injective. An *)
(* Option of the code is a set with at most one element.                   *)
(***************************************************************************)
EXTENDS QuoteAmounts, FiniteSets

CONSTANTS
  Calls,            \* the calls of one trader on one TradingSdk
  Trades,           \* the TradeParameters the trader may call with
  SettingsChoices,  \* the SwapAdvancedSettings (absent is all fields empty)
  Limits,           \* the LimitTradeParameters
  Extras,           \* the PostTradeAdditionalParams
  Config,           \* TradingSdkConfig: slippage, partnerFee
  Markets,          \* what a quote may say of an amount: [other, fee]
  ServerTtl,        \* ticks a quote of the server is valid for by default
  DefaultValidity,  \* DEFAULT_QUOTE_VALIDITY, in ticks
  DefaultSlippage,  \* DEFAULT_SLIPPAGE_BPS
  U32Size,          \* 2^32
  MaxNow            \* bound of the clock

Words == 0..(WordSize - 1)
Rates == 0..OneHundredBps
U32   == 0..(U32Size - 1)
Option(T) == {o \in SUBSET T : \A v, w \in o : v = w}

\* What the types of the parameters say; a slippage is at most 100 %, above
\* which the subtraction in apply_slippage_sell has no value.
IsDeadline(p) == p.validFor \in Option(U32) /\ p.validTo \in Option(U32)
TradeParameters(t) ==
  t.isSell \in BOOLEAN /\ t.amount \in Words /\ t.slippage \in Option(Rates) /\ IsDeadline(t)
SwapAdvancedSettings(s) == s.slippage \in Option(Rates)
LimitTradeParameters(l) ==
  l.isSell \in BOOLEAN /\ l.sell \in Words /\ l.buy \in Words /\ IsDeadline(l)

\* A quote carries words, and an expiry of 32 bits.
ASSUME SdkAssumption ==
  /\ DefaultValidity \in Nat /\ DefaultSlippage \in Rates /\ Config.slippage \in Rates
  /\ MaxNow \in Nat /\ ServerTtl \in Nat /\ U32Size \in Nat \ {0} /\ MaxNow + ServerTtl \in U32
  /\ \A t \in Trades : TradeParameters(t)
  /\ \A s \in SettingsChoices : SwapAdvancedSettings(s)
  /\ \A l \in Limits : LimitTradeParameters(l)
  /\ \A x \in Extras : x.apply \in BOOLEAN
  /\ \A m \in Markets : m.other \in Words /\ m.fee \in Words

VARIABLES
  now,      \* the clock, in ticks
  step,     \* where each call is
  ask,      \* what a call was made with, and when
  reply,    \* the server's answer to a quote request, not yet looked at
  results,  \* the QuoteResults a call returned or goes on with
  signed,   \* the order a call signed and the body it sends
  book,     \* the orders the server has accepted, with where they came from
  docs      \* the app-data documents the server knows

vars == <<now, step, ask, reply, results, signed, book, docs>>

OrElse(o, p)  == IF o = {} THEN p ELSE o
ValueOr(o, d) == IF o = {} THEN d ELSE CHOOSE v \in o : TRUE
LaterOf(a, b) == IF a >= b THEN a ELSE b

\* Mutant: the seconds are not cut.
ToU64(n) == n

\* The cast of a deadline.
ToU32(n) == n % U32Size

Hash(doc) == [hashOf |-> doc]
-----------------------------------------------------------------------------
(* Building an order.                                                      *)

\* Mutant: the caller's slippage is looked at before the settings'.
EffectiveSlippageReversed(p, s) == ValueOr(OrElse(p.slippage, s.slippage), Config.slippage)

\* Override priority: settings, then params, then config.
EffectiveSlippage(p, s) == ValueOr(OrElse(s.slippage, p.slippage), Config.slippage)
EffectivePartnerFee(p, s) == OrElse(OrElse(s.partnerFee, p.partnerFee), Config.partnerFee)

\* The documents that get_quote_impl and post_limit_order_impl generate.  The
\* app_data of the settings is not looked at.
MarketDoc(p, s) ==
  [class |-> "market", slippage |-> {EffectiveSlippage(p, s)},
   partnerFee |-> EffectivePartnerFee(p, s), custom |-> {}]
LimitDoc(l) ==
  [class |-> "limit", slippage |-> {},
   partnerFee |-> OrElse(l.partnerFee, Config.partnerFee), custom |-> {}]

\* Mutant: a time to live comes before an absolute deadline.
DeadlineRelativeFirst(p) ==
  IF p.validFor # {} THEN ToU32(now + ValueOr(p.validFor, DefaultValidity))
                     ELSE ValueOr(p.validTo, ToU32(now + DefaultValidity))

\* compute_order_valid_to and get_order_deadline_from_now: an absolute deadline
\* as it is, a relative one from the present moment, cut to 32 bits.
Deadline(p) == ValueOr(p.validTo, ToU32(now + ValueOr(p.validFor, DefaultValidity)))

\* The later of the quote's expiry and the requested deadline.
SwapValidTo(r, p) == LaterOf(r.validTo, Deadline(p))

\* build_unsigned_order.
OrderFromQuote(p, s, r) ==
  LET a == SignedBySwap(r.q, EffectiveSlippage(p, s))
  IN  [isSell |-> r.q.isSell, sell |-> a.sell, buy |-> a.buy, fee |-> r.q.fee,
       validTo |-> SwapValidTo(r, p), receiver |-> ValueOr(p.receiver, "owner"),
       appData |-> Hash(MarketDoc(p, s))]

\* parse_app_data_hex: a hash as it is; what is no hex is read as zeros, too few
\* bytes are padded with zeros, and too many cut.
ParseAppDataHex(raw) ==
  CASE "malformed" \in DOMAIN raw -> [zeros |-> 32]
    [] "tooShort" \in DOMAIN raw  -> [padded |-> raw.tooShort]
    [] "tooLong" \in DOMAIN raw   -> raw.tooLong
    [] OTHER                      -> raw

\* post_limit_order_impl: the amounts as given, no fee, and the app-data hash the
\* caller gives, if she does, in whatever form; it is posted as she gave it.
LimitAppData(l) == ValueOr(l.appData, Hash(LimitDoc(l)))
LimitOrder(l) ==
  [isSell |-> l.isSell, sell |-> l.sell, buy |-> l.buy, fee |-> 0,
   validTo |-> Deadline(l), receiver |-> ValueOr(l.receiver, "owner"),
   appData |-> ParseAppDataHex(LimitAppData(l))]

\* Mutant: the amounts are those the swap would sign.
LimitFromSlipped(r, order) ==
  [isSell |-> order.isSell, sell |-> order.sell, buy |-> order.buy,
   receiver |-> {order.receiver}, validFor |-> {}, validTo |-> {},
   appData |-> {}, partnerFee |-> {}]

\* get_limit_trade_parameters_from_quote: the quote's amounts after network
\* costs, without slippage, and a fresh validity.
LimitFromQuote(r, order) ==
  [isSell |-> order.isSell, sell |-> r.q.sell, buy |-> r.q.buy,
   receiver |-> {order.receiver}, validFor |-> {}, validTo |-> {},
   appData |-> {}, partnerFee |-> {}]

\* get_order_to_sign as post_cow_protocol_trade calls it.
TradeAmounts(l, x) ==
  IF x.apply
  THEN SignedByStages([isSell |-> l.isSell, sell |-> l.sell, buy |-> l.buy, fee |-> x.networkCosts],
                      x.protocolFee, ValueOr(l.partnerFee, 0), DefaultSlippage)
  ELSE Amounts(l.sell, l.buy)
TradeDoc(l) ==
  [class |-> "limit", slippage |-> {DefaultSlippage}, partnerFee |-> l.partnerFee, custom |-> {}]
TradeOrder(l, x) ==
  [isSell |-> l.isSell, sell |-> TradeAmounts(l, x).sell, buy |-> TradeAmounts(l, x).buy,
   fee |-> 0, validTo |-> Deadline(l), receiver |-> ValueOr(l.receiver, "owner"),
   appData |-> Hash(TradeDoc(l))]

\* The signing scheme of a trade: pre-sign and EIP-1271 become EIP-712.
TradeScheme(x) == IF x.scheme = {"ethSign"} THEN "ethSign" ELSE "eip712"

\* What is posted with an order: the swap and limit paths send the hash, the
\* trade path the document itself.
HashBody(order, hex) == [order |-> order, appData |-> hex, full |-> {}, scheme |-> "eip712"]

\* Mutant: the hash is sent where the document should be.
DocBodyHashed(order, doc, scheme) ==
  [order |-> order, appData |-> order.appData, full |-> {}, scheme |-> scheme]

DocBody(order, doc, scheme) ==
  [order |-> order, appData |-> Hash(doc), full |-> {doc}, scheme |-> scheme]
-----------------------------------------------------------------------------
(* The calls.                                                              *)

SdkInit ==
  /\ now = 0
  /\ step = [c \in Calls |-> "idle"]
  /\ ask = [c \in Calls |-> {}]
  /\ reply = [c \in Calls |-> {}]
  /\ results = [c \in Calls |-> {}]
  /\ signed = [c \in Calls |-> {}]
  /\ book = {}
  /\ docs = {}

\* get_quote_impl up to its request; onward says whether the call goes on to
\* post the order (post_swap_order) or returns the quote (get_quote).
RequestQuote(c, p, s, onward) ==
  /\ step[c] = "idle"
  /\ step' = [step EXCEPT ![c] = "quoting"]
  /\ ask' = [ask EXCEPT ![c] = {[flow |-> "swap", p |-> p, s |-> s, onward |-> onward, at |-> now]}]
  /\ UNCHANGED <<now, reply, results, signed, book, docs>>

\* get_quote_impl from the answer on: the deadline is computed only now.
FinishQuote(c) ==
  /\ step[c] = "quoting"
  /\ \E a \in ask[c], r \in reply[c] :
       /\ results' = [results EXCEPT ![c] =
            {[order |-> OrderFromQuote(a.p, a.s, r), r |-> r, at |-> now]}]
       /\ step' = [step EXCEPT ![c] = IF a.onward THEN "ready" ELSE "returned"]
  /\ UNCHANGED <<now, ask, reply, signed, book, docs>>

\* The quote request fails: nothing was done.
QuoteFails(c) ==
  /\ step[c] = "quoting"
  /\ step' = [step EXCEPT ![c] = "failed"]
  /\ UNCHANGED <<now, ask, reply, results, signed, book, docs>>

\* The trader holds the quote that call d returned.
IsHeld(d) == step[d] = "returned" /\ \E a \in ask[d] : a.flow = "swap" /\ ~ a.onward

Sign(c, body, flow, origin) ==
  /\ signed' = [signed EXCEPT ![c] = {[body |-> body, flow |-> flow, origin |-> origin]}]
  /\ UNCHANGED <<now, reply, results, book, docs>>

\* Mutant: the deadline is moved on when the quote is posted.
OrderToPostRefreshed(res) == [res.order EXCEPT !.validTo = LaterOf(@, ToU32(now + DefaultValidity))]

\* post_order_impl signs and posts the order of the quote as it stands.
OrderToPost(res) == res.order

\* post_swap_order goes on with its own quote, post_swap_order_from_quote posts
\* one that get_quote returned, however old and however often posted before.
PostFromQuote(c, d) ==
  /\ \/ c = d /\ step[c] = "ready" /\ UNCHANGED ask
     \/ /\ step[c] = "idle" /\ IsHeld(d)
        /\ ask' = [ask EXCEPT ![c] = ask[d]]
  /\ \E res \in results[d] : 
       LET order == OrderToPost(res) IN Sign(c, HashBody(order, order.appData), "swap", d)
  /\ step' = [step EXCEPT ![c] = "posting"]

\* post_limit_order.
PostLimit(c, l, origin) ==
  /\ step[c] = "idle"
  /\ ask' = [ask EXCEPT ![c] = {[flow |-> "limit", p |-> l, at |-> now]}]
  /\ Sign(c, HashBody(LimitOrder(l), LimitAppData(l)), "limit", origin)
  /\ step' = [step EXCEPT ![c] = "posting"]

PostLimitFromQuote(c, d) ==
  /\ IsHeld(d)
  /\ \E res \in results[d] : PostLimit(c, LimitFromQuote(res.r, res.order), d)

\* post_cow_protocol_trade: the order is built, then the document uploaded.
StartTrade(c, l, x) ==
  /\ step[c] = "idle"
  /\ ask' = [ask EXCEPT ![c] = {[flow |-> "trade", p |-> l, x |-> x, at |-> now]}]
  /\ Sign(c, DocBody(TradeOrder(l, x), TradeDoc(l), TradeScheme(x)), "trade", c)
  /\ step' = [step EXCEPT ![c] = "uploading"]

\* The upload's result is ignored: stored or lost, the order is posted next.
Upload(c, stored) ==
  /\ step[c] = "uploading"
  /\ step' = [step EXCEPT ![c] = "posting"]
  /\ docs' = IF stored THEN docs \cup UNION {g.body.full : g \in signed[c]} ELSE docs
  /\ UNCHANGED <<now, ask, reply, results, signed, book>>
-----------------------------------------------------------------------------
(* The server and the world, modelled from how the SDK uses them.          *)

\* The quote of a market for a request; a sell order's network cost is taken
\* from the amount, and the expiry is the requested one or the server's.
Quoted(p, m) ==
  IF p.isSell THEN [isSell |-> TRUE, sell |-> p.amount - m.fee, buy |-> m.other, fee |-> m.fee]
              ELSE [isSell |-> FALSE, sell |-> m.other, buy |-> p.amount, fee |-> m.fee]

AnswerQuote(c, m) ==
  /\ step[c] = "quoting" /\ reply[c] = {}
  /\ \E a \in ask[c] :
       /\ m.fee < a.p.amount
       /\ reply' = [reply EXCEPT ![c] =
            {[q |-> Quoted(a.p, m), validTo |-> ValueOr(a.p.validTo, now + ServerTtl)]}]
  /\ UNCHANGED <<now, step, ask, results, signed, book, docs>>

\* The order the server reads from a body, and checks the signature against.
OrderOfBody(body) == [body.order EXCEPT !.appData = body.appData]

\* The server takes an order that is signed, alive and new; the answer may get
\* lost, in which case the call fails although its order is in the book.
AcceptOrder(c, answered) ==
  /\ step[c] = "posting"
  /\ \E g \in signed[c] :
       /\ OrderOfBody(g.body) = g.body.order
       /\ g.body.order.validTo > now
       /\ \A o \in book : o.order # g.body.order
       /\ book' = book \cup {[order |-> g.body.order, flow |-> g.flow, origin |-> g.origin, by |-> c]}
       /\ docs' = docs \cup g.body.full
  /\ step' = [step EXCEPT ![c] = IF answered THEN "returned" ELSE "failed"]
  /\ UNCHANGED <<now, ask, reply, results, signed>>

\* It is refused (a duplicate, expired, badly signed) or never arrives.
PostFails(c) ==
  /\ step[c] = "posting"
  /\ step' = [step EXCEPT ![c] = "failed"]
  /\ UNCHANGED <<now, ask, reply, results, signed, book, docs>>

Tick ==
  /\ now < MaxNow
  /\ now' = now + 1
  /\ UNCHANGED <<step, ask, reply, results, signed, book, docs>>

SdkNext ==
  \/ Tick
  \/ \E c \in Calls :
       \/ \E p \in Trades, s \in SettingsChoices, onward \in BOOLEAN : RequestQuote(c, p, s, onward)
       \/ FinishQuote(c) \/ QuoteFails(c) \/ PostFails(c)
       \/ \E l \in Limits : PostLimit(c, l, c)
       \/ \E l \in Limits, x \in Extras : StartTrade(c, l, x)
       \/ \E d \in Calls : PostFromQuote(c, d) \/ PostLimitFromQuote(c, d)
       \/ \E m \in Markets : AnswerQuote(c, m)
       \/ \E b \in BOOLEAN : Upload(c, b) \/ AcceptOrder(c, b)

SdkSpec == SdkInit /\ [][SdkNext]_vars
-----------------------------------------------------------------------------
Steps == {"idle", "quoting", "ready", "uploading", "posting", "returned", "failed"}

\* The variables' shapes, and what each step of a call has at hand: an order to
\* post is signed, and a quote is only finished once the server answered.
SdkTypeOK ==
  /\ now \in 0..MaxNow
  /\ step \in [Calls -> Steps]
  /\ \A c \in Calls :
       /\ Cardinality(ask[c]) = (IF step[c] = "idle" THEN 0 ELSE 1)
       /\ step[c] \in {"uploading", "posting"} => Cardinality(signed[c]) = 1
       /\ step[c] = "ready" => Cardinality(results[c]) = 1
       /\ results[c] # {} => reply[c] # {}
  /\ \A o \in book : o.order.sell \in Words /\ o.order.buy \in Words /\ o.order.validTo \in U32

\* Posting again is safe where the SDK makes it so.  However often a quote is
\* posted, by whichever calls, and whatever answers get lost on the way, it makes
\* one order at most; so do limit and trade calls repeated with the same
\* parameters, if those say when the order expires (a relative deadline makes
\* another order each second).
PostingIsIdempotent ==
  \A o1, o2 \in book :
    o1.flow = o2.flow =>
      \/ o1 = o2
      \/ o1.flow = "swap" /\ o1.origin # o2.origin
      \/ o1.flow # "swap" /\ (\E a1 \in ask[o1.by], a2 \in ask[o2.by] :
                                [a1 EXCEPT !.at = 0] # [a2 EXCEPT !.at = 0] \/ a1.p.validTo = {})

\* The slippage the trader tolerates: the most specific one she gave.
Tolerated(p, s) ==
  CHOOSE n \in 0..OneHundredBps :
    \/ s.slippage = {n}
    \/ s.slippage = {} /\ p.slippage = {n}
    \/ s.slippage = {} /\ p.slippage = {} /\ Config.slippage = n

\* The trade the trader asked for is the trade in the book.  A sell order takes
\* exactly the amount asked, network cost included, and gives back the quoted
\* amount less the slippage tolerated; a buy order delivers exactly the amount
\* asked and costs at most the quoted amount and the slippage tolerated.
TraderProtected ==
  \A o \in book : o.flow = "swap" =>
    \A a \in ask[o.by], res \in results[o.origin] :
      LET n == Tolerated(a.p, a.s)
          q == res.r.q
          u == o.order
      IN  IF u.isSell
          THEN /\ u.sell + u.fee = a.p.amount
               /\ q.buy * (OneHundredBps - n) - u.buy * OneHundredBps \in 0..(OneHundredBps - 1)
          ELSE /\ u.buy = a.p.amount
               /\ q.sell * (OneHundredBps + n) - u.sell * OneHundredBps \in 0..(OneHundredBps - 1)

\* On the trade path the fixed side is the trader's to the atom (with the network
\* cost she gave on top of a sale), and the other side gives way by the partner fee
\* and the default slippage, to the rounding of an atom and no further; a limit order
\* made from a kept quote has the quote's price to the atom.
TradeProtected ==
  /\ \A o \in book : o.flow = "trade" =>
       \A a \in ask[o.by] :
         LET u     == o.order
             given == [isSell |-> a.p.isSell, sell |-> a.p.sell, buy |-> a.p.buy,
                       fee |-> a.x.networkCosts]
             fee   == PartnerFee(given, a.x.protocolFee, ValueOr(a.p.partnerFee, 0))
             cost  == a.p.sell + a.x.networkCosts
         IN  IF ~ a.x.apply THEN u.sell = a.p.sell /\ u.buy = a.p.buy
             ELSE IF u.isSell
             THEN /\ u.sell = cost
                  /\ u.buy * OneHundredBps - (a.p.buy - fee) * (OneHundredBps - DefaultSlippage)
                       \in 0..(OneHundredBps - 1)
             ELSE /\ u.buy = a.p.buy
                  /\ (cost + fee) * (OneHundredBps + DefaultSlippage) - u.sell * OneHundredBps
                       \in 0..(OneHundredBps - 1)
  /\ \A o \in book : o.flow = "limit" /\ o.origin # o.by =>
       \A res \in results[o.origin] :
         o.order.sell = res.r.q.sell /\ o.order.buy = res.r.q.buy

\* An order expires when the trader said.  An absolute deadline is the order's, on
\* every path, whatever else she gave; a time to live is counted from the call on the
\* limit and trade paths, and on the swap path from some moment between the call and
\* the end of its quote, unless the quote itself is valid for longer (the order then
\* outlives what she asked for, see TtlHonoured).  Posting a quote late changes none
\* of this.  A sum of seconds that 32 bits do not hold is left out.
ExpiryHonoured ==
  \A o \in book : \A a \in ask[o.by] :
    LET ttl == ValueOr(a.p.validFor, DefaultValidity)
        end == o.order.validTo
    IN  /\ a.p.validTo # {} => end \in a.p.validTo
        /\ a.p.validTo = {} /\ o.flow # "swap" /\ a.at + ttl < U32Size => end = a.at + ttl
        /\ a.p.validTo = {} /\ o.flow = "swap" =>
             \A res \in results[o.origin] :
               res.at + ttl < U32Size => /\ end >= a.at + ttl
                                         /\ res.r.validTo <= res.at + ttl => end <= res.at + ttl

\* An order of the trade path never refers to a document the server has not got, even
\* if the upload before it was lost; and every body names the app-data that was signed,
\* on every path, unless the trader gave app-data of her own.
DocumentTravels ==
  /\ \A o \in book : o.flow = "trade" => o.order.appData.hashOf \in docs
  /\ \A c \in Calls : \A g \in signed[c], a \in ask[c] :
       OrderOfBody(g.body) = g.body.order \/ (g.flow = "limit" /\ a.p.appData # {})
-----------------------------------------------------------------------------
(* What the documentation says and the code does not do.                   *)

\* crates/trading/src/types.rs: valid_for is the order's time to live in seconds.
\* A swap's order lives as long as its quote if that is longer (build_unsigned_order).
TtlHonoured ==
  \A o \in book : \A a \in ask[o.by] :
    o.flow = "swap" /\ a.p.validTo = {} =>
      \A res \in results[o.origin], ttl \in a.p.validFor : o.order.validTo <= res.at + ttl
=============================================================================
