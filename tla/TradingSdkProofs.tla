-------------------------- MODULE TradingSdkProofs --------------------------
(***************************************************************************)
(* Proofs about TradingSdk and CrossChainPost, for any number of calls, of *)
(* any parameters, against any market: what is in the book is what the     *)
(* trader asked for, and what the callbacks of a cross-chain call tell is  *)
(* so.                                                                     *)
(*                                                                         *)
(* The order flows' invariant says of each call what it holds at each step *)
(* and where that came from: the answer from the ask, the quote from the   *)
(* answer, the signature from the quote or the ask, the order in the book  *)
(* from the signature.  It is shown for SdkMove, a step of the SDK with    *)
(* any well-formed request, so that it holds of the SDK alone and of the   *)
(* SDK under the cross-chain call.                                         *)
(***************************************************************************)
EXTENDS CrossChainPost, QuoteAmountsProofs, FiniteSetTheorems, SequenceTheorems

\* The deadline of an order, as Deadline computes it at a time.
DeadlineAt(p, at) == ValueOr(p.validTo, ToU32(at + ValueOr(p.validFor, DefaultValidity)))

\* The orders of the three flows, built at a time.
SwapOrderAt(a, r, at) ==
  LET s == SignedBySwap(r.q, EffectiveSlippage(a.p, a.s))
  IN  [isSell |-> r.q.isSell, sell |-> s.sell, buy |-> s.buy, fee |-> r.q.fee,
       validTo |-> LaterOf(r.validTo, DeadlineAt(a.p, at)), receiver |-> ValueOr(a.p.receiver, "owner"),
       appData |-> Hash(MarketDoc(a.p, a.s))]
LimitOrderOf(a) ==
  [isSell |-> a.p.isSell, sell |-> a.p.sell, buy |-> a.p.buy, fee |-> 0,
   validTo |-> DeadlineAt(a.p, a.at), receiver |-> ValueOr(a.p.receiver, "owner"),
   appData |-> ParseAppDataHex(LimitAppData(a.p))]
TradeOrderOf(a) ==
  [isSell |-> a.p.isSell, sell |-> TradeAmounts(a.p, a.x).sell, buy |-> TradeAmounts(a.p, a.x).buy,
   fee |-> 0, validTo |-> DeadlineAt(a.p, a.at), receiver |-> ValueOr(a.p.receiver, "owner"),
   appData |-> Hash(TradeDoc(a.p))]

Single(S) == \A x, y \in S : x = y

\* What a call may have been made with.
SwapAsk(a) ==
  /\ a.flow = "swap"
  /\ a = [flow |-> "swap", p |-> a.p, s |-> a.s, onward |-> a.onward, at |-> a.at]
  /\ TradeParameters(a.p) /\ SwapAdvancedSettings(a.s) /\ a.onward \in BOOLEAN
LimitAsk(a) ==
  /\ a.flow = "limit"
  /\ a = [flow |-> "limit", p |-> a.p, at |-> a.at]
  /\ LimitTradeParameters(a.p)
TradeAsk(a) ==
  /\ a.flow = "trade"
  /\ a = [flow |-> "trade", p |-> a.p, x |-> a.x, at |-> a.at]
  /\ LimitTradeParameters(a.p) /\ a.p \in Limits /\ a.x \in Extras

AskInv ==
  \A c \in Calls :
    /\ Single(ask[c])
    /\ step[c] = "idle" <=> ask[c] = {}
    /\ step[c] \in {"quoting", "ready"} => \A a \in ask[c] : a.flow = "swap"
    /\ step[c] = "uploading" => \A a \in ask[c] : a.flow = "trade"
    /\ \A a \in ask[c] : a.at \in 0..now /\ (SwapAsk(a) \/ LimitAsk(a) \/ TradeAsk(a))

\* The server's answer answers what was asked.
Answers(r, a) ==
  /\ a.flow = "swap"
  /\ \E m \in Markets : m.fee < a.p.amount /\ r.q = Quoted(a.p, m)
  /\ r.validTo \in U32 /\ (a.p.validTo # {} => r.validTo \in a.p.validTo)

\* Quotes are finished from the answer, at some time after the call.
ResultFrom(res, r, a) ==
  /\ res.r = r
  /\ res.at \in 0..MaxNow /\ a.at <= res.at /\ res.order = SwapOrderAt(a, r, res.at)

QuoteInv ==
  \A c \in Calls :
    /\ Single(reply[c]) /\ Single(results[c])
    /\ step[c] = "idle" => reply[c] = {}
    /\ step[c] \in {"idle", "quoting"} => results[c] = {}
    /\ step[c] = "ready" => results[c] # {}
    /\ \A r \in reply[c], a \in ask[c] : Answers(r, a)
    /\ \A res \in results[c] : \E r \in reply[c] : \A a \in ask[c] : ResultFrom(res, r, a)

\* What a call signed, given what it was made with.
SwapSigned(c, g, a) ==
  /\ g.origin \in Calls /\ ask[g.origin] = ask[c]
  /\ g.body.full = {}
  /\ \E res \in results[g.origin] : g.body.order = res.order
LimitSigned(c, g, a) ==
  /\ g.body.order = LimitOrderOf(a) /\ g.body.full = {}
  /\ g.origin # c => /\ g.origin \in Calls
                     /\ \E res \in results[g.origin] : a.p.sell = res.r.q.sell /\ a.p.buy = res.r.q.buy
TradeSigned(c, g, a) ==
  /\ g.body.order = TradeOrderOf(a) /\ g.body.full = {TradeDoc(a.p)}
SignedFrom(c, g, a) ==
  /\ g.flow = a.flow
  /\ OrderOfBody(g.body) = g.body.order \/ (g.flow = "limit" /\ a.p.appData # {})
  /\ g.flow = "swap" => SwapSigned(c, g, a)
  /\ g.flow = "limit" => LimitSigned(c, g, a)
  /\ g.flow = "trade" => TradeSigned(c, g, a)

SignedInv ==
  \A c \in Calls :
    /\ Single(signed[c])
    /\ step[c] \in {"idle", "quoting", "ready"} => signed[c] = {}
    /\ step[c] \in {"uploading", "posting"} => signed[c] # {}
    /\ \A g \in signed[c], a \in ask[c] : SignedFrom(c, g, a)

BookInv ==
  /\ \A o \in book :
       /\ o.by \in Calls /\ step[o.by] \in {"returned", "failed"}
       /\ \E g \in signed[o.by] :
            /\ o = [order |-> g.body.order, flow |-> g.flow, origin |-> g.origin, by |-> o.by]
            /\ g.body.full \subseteq docs
  /\ \A o1, o2 \in book : o1.order = o2.order => o1 = o2

SdkTypes ==
  /\ now \in 0..MaxNow
  /\ step \in [Calls -> Steps]
  /\ DOMAIN ask = Calls /\ DOMAIN reply = Calls /\ DOMAIN results = Calls /\ DOMAIN signed = Calls

SdkInv == SdkTypes /\ AskInv /\ QuoteInv /\ SignedInv /\ BookInv
-----------------------------------------------------------------------------
(* A step of the SDK with any well-formed request.                         *)

Requested(c) ==
  \E p, s, onward :
    /\ TradeParameters(p) /\ SwapAdvancedSettings(s) /\ onward \in BOOLEAN
    /\ RequestQuote(c, p, s, onward)

SdkMove ==
  \/ Tick
  \/ \E c \in Calls :
       \/ Requested(c)
       \/ FinishQuote(c)
       \/ QuoteFails(c)
       \/ PostFails(c)
       \/ \E l \in Limits : PostLimit(c, l, c)
       \/ \E l \in Limits, x \in Extras : StartTrade(c, l, x)
       \/ \E d \in Calls : PostFromQuote(c, d)
       \/ \E d \in Calls : PostLimitFromQuote(c, d)
       \/ \E m \in Markets : AnswerQuote(c, m)
       \/ \E b \in BOOLEAN : Upload(c, b)
       \/ \E b \in BOOLEAN : AcceptOrder(c, b)

LEMMA NextMoves == [SdkNext]_vars => [SdkMove]_vars
<1> SUFFICES ASSUME SdkNext PROVE SdkMove
  OBVIOUS
<1>1. \A t \in Trades : TradeParameters(t)
  BY SdkAssumption
<1>2. \A s \in SettingsChoices : SwapAdvancedSettings(s)
  BY SdkAssumption
<1>3. ASSUME NEW c \in Calls, NEW p \in Trades, NEW s \in SettingsChoices, NEW onward \in BOOLEAN,
             RequestQuote(c, p, s, onward)
      PROVE  Requested(c)
  BY <1>1, <1>2, <1>3, Zenon DEF Requested
<1> QED
  BY <1>3, Zenon DEF SdkNext, SdkMove

\* An Option's value.
LEMMA OptionValue ==
  ASSUME NEW T, NEW o \in Option(T), NEW d
  PROVE  /\ o = {} => ValueOr(o, d) = d
         /\ o # {} => o = {ValueOr(o, d)} /\ ValueOr(o, d) \in T
  BY DEF Option, ValueOr

LEMMA SingleValue ==
  ASSUME NEW v, NEW d
  PROVE  ValueOr({v}, d) = v
  BY DEF ValueOr

\* Deadlines have 32 bits.
LEMMA DeadlineType ==
  ASSUME NEW p, IsDeadline(p), NEW at \in Nat
  PROVE  /\ DeadlineAt(p, at) \in U32
         /\ p.validTo # {} => DeadlineAt(p, at) \in p.validTo
         /\ p.validTo = {} => DeadlineAt(p, at) = ToU32(at + ValueOr(p.validFor, DefaultValidity))
         /\ ValueOr(p.validFor, DefaultValidity) \in Nat
<1> DEFINE ttl == ValueOr(p.validFor, DefaultValidity)
<1>1. U32Size \in Nat \ {0} /\ DefaultValidity \in Nat
  BY SdkAssumption
<1>2. ttl \in Nat
  BY <1>1, OptionValue DEF IsDeadline, U32
<1>3. ToU32(at + ttl) \in U32
  BY <1>1, <1>2 DEF ToU32, U32
<1> QED
  BY <1>2, <1>3, OptionValue DEF IsDeadline, DeadlineAt
-----------------------------------------------------------------------------
(* Types, and what a step leaves alone.                                    *)

LEMMA TypesStep == SdkTypes /\ [SdkMove]_vars => SdkTypes'
<1> SUFFICES ASSUME SdkTypes, [SdkMove]_vars PROVE SdkTypes'
  OBVIOUS
<1> USE DEF SdkTypes, Steps
<1>1. CASE Tick
  BY <1>1, SdkAssumption DEF Tick
<1>2. ASSUME NEW c \in Calls, Requested(c) PROVE SdkTypes'
  BY <1>2 DEF Requested, RequestQuote
<1>3. ASSUME NEW c \in Calls, FinishQuote(c) PROVE SdkTypes'
  BY <1>3 DEF FinishQuote
<1>4. ASSUME NEW c \in Calls, QuoteFails(c) PROVE SdkTypes'
  BY <1>4 DEF QuoteFails
<1>5. ASSUME NEW c \in Calls, PostFails(c) PROVE SdkTypes'
  BY <1>5 DEF PostFails
<1>6. ASSUME NEW c \in Calls, NEW l, NEW d, PostLimit(c, l, d) PROVE SdkTypes'
  BY <1>6 DEF PostLimit, Sign
<1>7. ASSUME NEW c \in Calls, NEW l, NEW x, StartTrade(c, l, x) PROVE SdkTypes'
  BY <1>7 DEF StartTrade, Sign
<1>8. ASSUME NEW c \in Calls, NEW d \in Calls, PostFromQuote(c, d) PROVE SdkTypes'
  BY <1>8 DEF PostFromQuote, Sign
<1>9. ASSUME NEW c \in Calls, NEW m, AnswerQuote(c, m) PROVE SdkTypes'
  BY <1>9 DEF AnswerQuote
<1>10. ASSUME NEW c \in Calls, NEW b, Upload(c, b) PROVE SdkTypes'
  BY <1>10 DEF Upload
<1>11. ASSUME NEW c \in Calls, NEW b, AcceptOrder(c, b) PROVE SdkTypes'
  BY <1>11 DEF AcceptOrder
<1>12. CASE UNCHANGED vars
  BY <1>12 DEF vars
<1> QED
  BY <1>1, <1>2, <1>3, <1>4, <1>5, <1>6, <1>7, <1>8, <1>9, <1>10, <1>11, <1>12, Zenon
     DEF SdkMove, PostLimitFromQuote

\* What a call once has it keeps, and what is known or accepted stays.
Kept ==
  /\ now <= now' /\ docs \subseteq docs' /\ book \subseteq book'
  /\ \A c \in Calls :
       /\ ask[c] # {} => ask'[c] = ask[c]
       /\ reply[c] # {} => reply'[c] = reply[c]
       /\ results[c] # {} => results'[c] = results[c]
       /\ signed[c] # {} => signed'[c] = signed[c]

LEMMA KeptStep == SdkInv /\ [SdkMove]_vars => Kept
<1> SUFFICES ASSUME SdkInv, [SdkMove]_vars PROVE Kept
  OBVIOUS
<1>a. now \in Nat
  BY DEF SdkInv, SdkTypes
<1> USE <1>a DEF SdkInv, SdkTypes
<1>1. CASE Tick
  BY <1>1 DEF Tick, Kept
<1>2. ASSUME NEW c \in Calls, Requested(c) PROVE Kept
  BY <1>2 DEF Requested, RequestQuote, Kept, AskInv
<1>3. ASSUME NEW c \in Calls, FinishQuote(c) PROVE Kept
  BY <1>3 DEF FinishQuote, Kept, QuoteInv
<1>4. ASSUME NEW c \in Calls, QuoteFails(c) PROVE Kept
  BY <1>4 DEF QuoteFails, Kept
<1>5. ASSUME NEW c \in Calls, PostFails(c) PROVE Kept
  BY <1>5 DEF PostFails, Kept
<1>6. ASSUME NEW c \in Calls, NEW l, NEW d, PostLimit(c, l, d) PROVE Kept
  BY <1>6 DEF PostLimit, Sign, Kept, AskInv, SignedInv
<1>7. ASSUME NEW c \in Calls, NEW l, NEW x, StartTrade(c, l, x) PROVE Kept
  BY <1>7 DEF StartTrade, Sign, Kept, AskInv, SignedInv
<1>8. ASSUME NEW c \in Calls, NEW d \in Calls, PostFromQuote(c, d) PROVE Kept
  <2>1. ask'[c] = ask[c] \/ ask[c] = {}
    BY <1>8 DEF PostFromQuote, AskInv
  <2>2. signed[c] = {}
    BY <1>8 DEF PostFromQuote, SignedInv
  <2>3. \A e \in Calls \ {c} : ask'[e] = ask[e] /\ signed'[e] = signed[e]
    BY <1>8 DEF PostFromQuote, Sign
  <2> QED
    BY <1>8, <2>1, <2>2, <2>3 DEF PostFromQuote, Sign, Kept
<1>9. ASSUME NEW c \in Calls, NEW m, AnswerQuote(c, m) PROVE Kept
  BY <1>9 DEF AnswerQuote, Kept
<1>10. ASSUME NEW c \in Calls, NEW b, Upload(c, b) PROVE Kept
  BY <1>10 DEF Upload, Kept
<1>11. ASSUME NEW c \in Calls, NEW b, AcceptOrder(c, b) PROVE Kept
  BY <1>11 DEF AcceptOrder, Kept
<1>12. CASE UNCHANGED vars
  BY <1>12 DEF vars, Kept
<1> QED
  BY <1>1, <1>2, <1>3, <1>4, <1>5, <1>6, <1>7, <1>8, <1>9, <1>10, <1>11, <1>12, Zenon
     DEF SdkMove, PostLimitFromQuote
\* What the server says of a request: words, and of the right kind.
LEMMA QuotedType ==
  ASSUME NEW p, TradeParameters(p), NEW m \in Markets, m.fee < p.amount
  PROVE  /\ Quoted(p, m) \in Quotes
         /\ Quoted(p, m).isSell = p.isSell
         /\ Quoted(p, m).sell \in Words /\ Quoted(p, m).buy \in Words
         /\ p.isSell => /\ Quoted(p, m).sell + Quoted(p, m).fee = p.amount
                        /\ Quoted(p, m).buy = m.other
         /\ ~ p.isSell => Quoted(p, m).sell = m.other /\ Quoted(p, m).buy = p.amount
<1>1. m.other \in Words /\ m.fee \in Words /\ WordSize \in Nat \ {0}
  BY SdkAssumption, AmountsAssumption
<1>2. p.amount \in Words /\ p.isSell \in BOOLEAN
  BY DEF TradeParameters
<1>3. p.amount - m.fee \in Words
  BY <1>1, <1>2 DEF Words
<1>4. CASE p.isSell
  <2>1. Quoted(p, m) = [isSell |-> TRUE, sell |-> p.amount - m.fee, buy |-> m.other, fee |-> m.fee]
    BY <1>4 DEF Quoted
  <2>2. p.isSell = TRUE
    BY <1>2, <1>4
  <2>3. p.amount \in Nat /\ m.fee \in Nat /\ m.other \in Nat /\ p.amount - m.fee \in Nat
    BY <1>1, <1>2, <1>3 DEF Words
  <2>4. p.amount - m.fee + m.fee = p.amount
    BY <2>3
  <2>5. Quoted(p, m) \in Quotes
    BY <2>1, <2>3 DEF Quotes
  <2>6. Quoted(p, m).isSell = p.isSell
    <3>1. Quoted(p, m).isSell = TRUE
      BY <2>1
    <3> QED
      BY <2>2, <3>1, Zenon
  <2>7. /\ Quoted(p, m).sell \in Words /\ Quoted(p, m).buy \in Words
        /\ Quoted(p, m).sell + Quoted(p, m).fee = p.amount /\ Quoted(p, m).buy = m.other
    BY <1>1, <1>3, <2>1, <2>4
  <2> QED
    BY <1>4, <2>5, <2>6, <2>7
<1>5. CASE ~ p.isSell
  <2>1. Quoted(p, m) = [isSell |-> FALSE, sell |-> m.other, buy |-> p.amount, fee |-> m.fee]
    BY <1>5 DEF Quoted
  <2>2. p.isSell = FALSE
    BY <1>2, <1>5
  <2>3. p.amount \in Nat /\ m.fee \in Nat /\ m.other \in Nat
    BY <1>1, <1>2 DEF Words
  <2>5. Quoted(p, m) \in Quotes
    BY <2>1, <2>3 DEF Quotes
  <2>6. Quoted(p, m).isSell = p.isSell
    <3>1. Quoted(p, m).isSell = FALSE
      BY <2>1
    <3> QED
      BY <2>2, <3>1, Zenon
  <2>7. Quoted(p, m).sell = m.other /\ Quoted(p, m).buy = p.amount
    BY <2>1
  <2> QED
    BY <1>1, <1>2, <1>5, <2>5, <2>6, <2>7
<1> QED
  BY <1>4, <1>5

\* The limit made from a held quote has well-formed parameters.
LEMMA LimitsFromQuotes ==
  ASSUME SdkInv, NEW c \in Calls, NEW res \in results[c]
  PROVE  LimitTradeParameters(LimitFromQuote(res.r, res.order))
<1>1. PICK r \in reply[c] : \A a \in ask[c] : ResultFrom(res, r, a)
  BY DEF SdkInv, QuoteInv
<1>2. PICK a \in ask[c] : TRUE
  BY <1>1 DEF SdkInv, QuoteInv, AskInv
<1>3. Answers(r, a)
  BY DEF SdkInv, QuoteInv
<1>4. PICK at \in 0..MaxNow : res.r = r /\ res.order = SwapOrderAt(a, r, at)
  BY <1>1, <1>2 DEF ResultFrom
<1>5. PICK m \in Markets : m.fee < a.p.amount /\ r.q = Quoted(a.p, m)
  BY <1>3 DEF Answers
<1>6. TradeParameters(a.p)
  BY <1>2, <1>3 DEF SdkInv, AskInv, Answers, SwapAsk, LimitAsk, TradeAsk
<1>7. r.q.isSell \in BOOLEAN /\ r.q.sell \in Words /\ r.q.buy \in Words
  BY <1>5, <1>6, QuotedType DEF TradeParameters
<1>8. res.order.isSell = r.q.isSell
  BY <1>4 DEF SwapOrderAt
<1>9. {} \in Option(U32)
  BY DEF Option
<1> QED
  BY <1>4, <1>7, <1>8, <1>9 DEF LimitTradeParameters, LimitFromQuote, IsDeadline
-----------------------------------------------------------------------------
(* Calls are made once, and with well-formed parameters.                   *)

LEMMA AskStep == SdkInv /\ [SdkMove]_vars => AskInv'
<1> SUFFICES ASSUME SdkInv, [SdkMove]_vars PROVE AskInv'
  OBVIOUS
<1>a. now \in Nat /\ now \in 0..now
  BY DEF SdkInv, SdkTypes
<1> USE <1>a DEF SdkInv, SdkTypes, AskInv, Single
<1>1. CASE Tick
  <2>1. \A n \in 0..now : n \in 0..now'
    BY <1>1 DEF Tick
  <2> QED
    BY <1>1, <2>1 DEF Tick
<1>2. ASSUME NEW c \in Calls, Requested(c) PROVE AskInv'
  <2>1. PICK p, s, onward :
          /\ TradeParameters(p) /\ SwapAdvancedSettings(s) /\ onward \in BOOLEAN
          /\ RequestQuote(c, p, s, onward)
    BY <1>2 DEF Requested
  <2> DEFINE a == [flow |-> "swap", p |-> p, s |-> s, onward |-> onward, at |-> now]
  <2>2. SwapAsk(a)
    BY <2>1 DEF SwapAsk
  <2>3. ask' = [ask EXCEPT ![c] = {a}]
    BY <2>1 DEF RequestQuote
  <2> QED
    BY <2>1, <2>2, <2>3 DEF RequestQuote
<1>3. ASSUME NEW c \in Calls, FinishQuote(c) PROVE AskInv'
  BY <1>3 DEF FinishQuote
<1>4. ASSUME NEW c \in Calls, QuoteFails(c) PROVE AskInv'
  BY <1>4 DEF QuoteFails
<1>5. ASSUME NEW c \in Calls, PostFails(c) PROVE AskInv'
  BY <1>5 DEF PostFails
<1>6. ASSUME NEW c \in Calls, NEW l, LimitTradeParameters(l), NEW d, PostLimit(c, l, d) PROVE AskInv'
  <2> DEFINE a == [flow |-> "limit", p |-> l, at |-> now]
  <2>2. LimitAsk(a)
    BY <1>6 DEF LimitAsk
  <2>3. ask' = [ask EXCEPT ![c] = {a}]
    BY <1>6 DEF PostLimit
  <2> QED
    BY <1>6, <2>2, <2>3 DEF PostLimit, Sign
<1>7. ASSUME NEW c \in Calls, NEW l \in Limits, NEW x \in Extras, StartTrade(c, l, x) PROVE AskInv'
  <2> DEFINE a == [flow |-> "trade", p |-> l, x |-> x, at |-> now]
  <2>2. TradeAsk(a)
    BY SdkAssumption DEF TradeAsk
  <2>3. ask' = [ask EXCEPT ![c] = {a}]
    BY <1>7 DEF StartTrade
  <2> QED
    BY <1>7, <2>2, <2>3 DEF StartTrade, Sign
<1>8. ASSUME NEW c \in Calls, NEW d \in Calls, PostFromQuote(c, d) PROVE AskInv'
  <2>1. CASE step[c] = "ready" /\ UNCHANGED ask
    BY <1>8, <2>1 DEF PostFromQuote, Sign
  <2>2. CASE step[c] = "idle" /\ IsHeld(d) /\ ask' = [ask EXCEPT ![c] = ask[d]]
    BY <1>8, <2>2 DEF PostFromQuote, Sign, IsHeld
  <2> QED
    BY <1>8, <2>1, <2>2 DEF PostFromQuote
<1>9. ASSUME NEW c \in Calls, NEW m, AnswerQuote(c, m) PROVE AskInv'
  BY <1>9 DEF AnswerQuote
<1>10. ASSUME NEW c \in Calls, NEW b, Upload(c, b) PROVE AskInv'
  BY <1>10 DEF Upload
<1>11. ASSUME NEW c \in Calls, NEW b, AcceptOrder(c, b) PROVE AskInv'
  BY <1>11 DEF AcceptOrder
<1>12. CASE UNCHANGED vars
  BY <1>12 DEF vars
<1>13. \A l \in Limits : LimitTradeParameters(l)
  BY SdkAssumption
<1>14. ASSUME NEW c \in Calls, NEW d \in Calls, PostLimitFromQuote(c, d) PROVE AskInv'
  BY <1>6, <1>14, LimitsFromQuotes DEF PostLimitFromQuote
<1> QED
  BY <1>1, <1>2, <1>3, <1>4, <1>5, <1>6, <1>7, <1>8, <1>9, <1>10, <1>11, <1>12, <1>13, <1>14, Zenon
     DEF SdkMove
-----------------------------------------------------------------------------
(* Quotes come from the server's answer to the call's own question.        *)

\* A step that neither answers nor finishes a quote.
LEMMA QuoteStays ==
  ASSUME SdkInv, Kept, reply' = reply, results' = results,
         \A c \in Calls : \/ step'[c] = step[c]
                          \/ step'[c] \notin {"idle", "ready"} /\ (step'[c] = "quoting" => step[c] = "idle")
  PROVE  QuoteInv'
<1> SUFFICES ASSUME NEW c \in Calls
    PROVE  /\ Single(reply[c])' /\ Single(results[c])'
           /\ step'[c] = "idle" => reply'[c] = {}
           /\ step'[c] \in {"idle", "quoting"} => results'[c] = {}
           /\ step'[c] = "ready" => results'[c] # {}
           /\ \A r \in reply'[c], a \in ask'[c] : Answers(r, a)
           /\ \A res \in results'[c] : \E r \in reply'[c] : \A a \in ask'[c] : ResultFrom(res, r, a)
  BY DEF QuoteInv, Single, Answers, ResultFrom
<1> USE DEF SdkInv, QuoteInv
<1>1. ask'[c] = ask[c] \/ (reply[c] = {} /\ results[c] = {})
  BY DEF Kept, AskInv
<1> QED
  BY <1>1 DEF Single

LEMMA QuoteStep == SdkInv /\ [SdkMove]_vars => QuoteInv'
<1> SUFFICES ASSUME SdkInv, [SdkMove]_vars PROVE QuoteInv'
  OBVIOUS
<1> USE DEF SdkInv, SdkTypes
<1>0. Kept
  BY KeptStep
<1>1. CASE Tick
  BY <1>0, <1>1, QuoteStays DEF Tick
<1>2. ASSUME NEW c \in Calls, Requested(c) PROVE QuoteInv'
  BY <1>0, <1>2, QuoteStays DEF Requested, RequestQuote
<1>3. ASSUME NEW c \in Calls, FinishQuote(c) PROVE QuoteInv'
  <2>1. PICK a \in ask[c], r \in reply[c] :
          /\ results' = [results EXCEPT ![c] = {[order |-> OrderFromQuote(a.p, a.s, r), r |-> r, at |-> now]}]
          /\ step' = [step EXCEPT ![c] = IF a.onward THEN "ready" ELSE "returned"]
    BY <1>3 DEF FinishQuote
  <2> DEFINE res == [order |-> OrderFromQuote(a.p, a.s, r), r |-> r, at |-> now]
  <2>2. UNCHANGED <<now, ask, reply>>
    BY <1>3 DEF FinishQuote
  <2>3. OrderFromQuote(a.p, a.s, r) = SwapOrderAt(a, r, now)
    BY DEF OrderFromQuote, SwapOrderAt, SwapValidTo, Deadline, DeadlineAt
  <2>4. a.at <= now /\ now \in 0..MaxNow
    BY DEF AskInv
  <2>5. ResultFrom(res, r, a)
    BY <2>3, <2>4 DEF ResultFrom
  <2>6. \A b \in ask[c] : b = a
    BY DEF AskInv, Single
  <2>7. ASSUME NEW e \in Calls, e # c
        PROVE  step'[e] = step[e] /\ results'[e] = results[e]
    BY <2>1, <2>7
  <2>8. results'[c] = {res} /\ step'[c] \in {"ready", "returned"}
    BY <2>1
  <2>9. ASSUME NEW e \in Calls
        PROVE  /\ Single(reply[e])' /\ Single(results[e])'
               /\ step'[e] = "idle" => reply'[e] = {}
               /\ step'[e] \in {"idle", "quoting"} => results'[e] = {}
               /\ step'[e] = "ready" => results'[e] # {}
               /\ \A t \in reply'[e], b \in ask'[e] : Answers(t, b)
               /\ \A s \in results'[e] : \E t \in reply'[e] : \A b \in ask'[e] : ResultFrom(s, t, b)
    <3>1. CASE e # c
      BY <2>2, <2>7, <3>1 DEF QuoteInv, Single
    <3>2. CASE e = c
      BY <2>2, <2>5, <2>6, <2>8, <3>2 DEF QuoteInv, Single
    <3> QED
      BY <3>1, <3>2
  <2> QED
    BY <2>9 DEF QuoteInv, Single, Answers, ResultFrom
<1>4. ASSUME NEW c \in Calls, QuoteFails(c) PROVE QuoteInv'
  BY <1>0, <1>4, QuoteStays DEF QuoteFails
<1>5. ASSUME NEW c \in Calls, PostFails(c) PROVE QuoteInv'
  BY <1>0, <1>5, QuoteStays DEF PostFails
<1>6. ASSUME NEW c \in Calls, NEW l, NEW d, PostLimit(c, l, d) PROVE QuoteInv'
  BY <1>0, <1>6, QuoteStays DEF PostLimit, Sign
<1>7. ASSUME NEW c \in Calls, NEW l, NEW x, StartTrade(c, l, x) PROVE QuoteInv'
  BY <1>0, <1>7, QuoteStays DEF StartTrade, Sign
<1>8. ASSUME NEW c \in Calls, NEW d \in Calls, PostFromQuote(c, d) PROVE QuoteInv'
  BY <1>0, <1>8, QuoteStays DEF PostFromQuote, Sign
<1>9. ASSUME NEW c \in Calls, NEW m \in Markets, AnswerQuote(c, m) PROVE QuoteInv'
  <2>1. PICK a \in ask[c] :
          /\ m.fee < a.p.amount
          /\ reply' = [reply EXCEPT ![c] =
               {[q |-> Quoted(a.p, m), validTo |-> ValueOr(a.p.validTo, now + ServerTtl)]}]
    BY <1>9 DEF AnswerQuote
  <2> DEFINE r == [q |-> Quoted(a.p, m), validTo |-> ValueOr(a.p.validTo, now + ServerTtl)]
  <2>2. UNCHANGED <<now, step, ask, results>> /\ step[c] = "quoting"
    BY <1>9 DEF AnswerQuote
  <2>3. a.flow = "swap" /\ TradeParameters(a.p)
    BY <2>2 DEF AskInv, SwapAsk, LimitAsk, TradeAsk
  <2>4. now + ServerTtl \in U32
    BY SdkAssumption DEF U32
  <2>5. r.validTo \in U32 /\ (a.p.validTo # {} => r.validTo \in a.p.validTo)
    BY <2>3, <2>4, OptionValue DEF TradeParameters, IsDeadline
  <2>6. Answers(r, a)
    BY <2>1, <2>3, <2>5 DEF Answers
  <2>7. \A b \in ask[c] : b = a
    BY DEF AskInv, Single
  <2>8. results[c] = {}
    BY <2>2 DEF QuoteInv
  <2>9. ASSUME NEW e \in Calls
        PROVE  /\ Single(reply[e])' /\ Single(results[e])'
               /\ step'[e] = "idle" => reply'[e] = {}
               /\ step'[e] \in {"idle", "quoting"} => results'[e] = {}
               /\ step'[e] = "ready" => results'[e] # {}
               /\ \A t \in reply'[e], b \in ask'[e] : Answers(t, b)
               /\ \A s \in results'[e] : \E t \in reply'[e] : \A b \in ask'[e] : ResultFrom(s, t, b)
    <3>1. CASE e # c
      <4>1. reply'[e] = reply[e]
        BY <2>1, <3>1
      <4> QED
        BY <2>2, <4>1 DEF QuoteInv, Single
    <3>2. CASE e = c
      <4>1. reply'[c] = {r}
        BY <2>1
      <4> HIDE DEF r
      <4> QED
        BY <2>2, <2>6, <2>7, <2>8, <3>2, <4>1 DEF QuoteInv, Single
    <3> QED
      BY <3>1, <3>2
  <2> QED
    BY <2>9 DEF QuoteInv, Single, Answers, ResultFrom
<1>10. ASSUME NEW c \in Calls, NEW b, Upload(c, b) PROVE QuoteInv'
  BY <1>0, <1>10, QuoteStays DEF Upload
<1>11. ASSUME NEW c \in Calls, NEW b, AcceptOrder(c, b) PROVE QuoteInv'
  BY <1>0, <1>11, QuoteStays DEF AcceptOrder
<1>12. CASE UNCHANGED vars
  BY <1>0, <1>12, QuoteStays DEF vars
<1> QED
  BY <1>1, <1>2, <1>3, <1>4, <1>5, <1>6, <1>7, <1>8, <1>9, <1>10, <1>11, <1>12, Zenon
     DEF SdkMove, PostLimitFromQuote
-----------------------------------------------------------------------------
(* What is signed comes from the quote or from the call's parameters.      *)

\* Where a signature came from does not change any more.
LEMMA SignedKept ==
  ASSUME SdkInv, Kept, NEW c \in Calls, NEW g \in signed[c], NEW a \in ask'[c]
  PROVE  SignedFrom(c, g, a)'
<1> USE DEF SdkInv
<1>1. step[c] # "idle"
  BY DEF SignedInv
<1>2. ask[c] # {} /\ ask'[c] = ask[c]
  BY <1>1 DEF AskInv, Kept
<1>3. SignedFrom(c, g, a)
  BY <1>2 DEF SignedInv
<1>4. ASSUME SwapSigned(c, g, a) PROVE SwapSigned(c, g, a)'
  BY <1>2, <1>4 DEF SwapSigned, Kept
<1>5. ASSUME LimitSigned(c, g, a) PROVE LimitSigned(c, g, a)'
  BY <1>5 DEF LimitSigned, Kept
<1> QED
  BY <1>3, <1>4, <1>5 DEF SignedFrom, TradeSigned

\* A step that signs nothing.
LEMMA SignedStays ==
  ASSUME SdkInv, Kept, signed' = signed,
         \A c \in Calls : \/ step'[c] = step[c]
                          \/ step[c] = "idle" /\ step'[c] = "quoting"
                          \/ step[c] = "quoting" /\ step'[c] = "ready"
                          \/ step[c] = "uploading" /\ step'[c] = "posting"
                          \/ step'[c] \in {"returned", "failed"}
  PROVE  SignedInv'
<1> SUFFICES ASSUME NEW c \in Calls
    PROVE  /\ Single(signed[c])
           /\ step'[c] \in {"idle", "quoting", "ready"} => signed[c] = {}
           /\ step'[c] \in {"uploading", "posting"} => signed[c] # {}
           /\ \A g \in signed[c], a \in ask'[c] : SignedFrom(c, g, a)'
  BY Zenon DEF SignedInv, Single
<1>1. \A g \in signed[c], a \in ask'[c] : SignedFrom(c, g, a)'
  BY SignedKept
<1> QED
  BY <1>1 DEF SdkInv, SignedInv

\* A step that signs, at one call.
LEMMA SignedNow ==
  ASSUME SdkInv, Kept, NEW c \in Calls, NEW g,
         signed' = [signed EXCEPT ![c] = {g}],
         step'[c] \in {"uploading", "posting"},
         \A e \in Calls \ {c} : step'[e] = step[e],
         \A a \in ask'[c] : SignedFrom(c, g, a)'
  PROVE  SignedInv'
<1> SUFFICES ASSUME NEW e \in Calls
    PROVE  /\ Single(signed'[e])
           /\ step'[e] \in {"idle", "quoting", "ready"} => signed'[e] = {}
           /\ step'[e] \in {"uploading", "posting"} => signed'[e] # {}
           /\ \A h \in signed'[e], a \in ask'[e] : SignedFrom(e, h, a)'
  BY Zenon DEF SignedInv, Single
<1>1. CASE e = c
  <2>1. signed'[e] = {g}
    BY <1>1 DEF SdkInv, SdkTypes
  <2> QED
    BY <1>1, <2>1 DEF Single
<1>2. CASE e # c
  <2>1. signed'[e] = signed[e] /\ step'[e] = step[e]
    BY <1>2 DEF SdkInv, SdkTypes
  <2>2. \A h \in signed[e], a \in ask'[e] : SignedFrom(e, h, a)'
    BY SignedKept
  <2> QED
    BY <2>1, <2>2 DEF SdkInv, SignedInv
<1> QED
  BY <1>1, <1>2

LEMMA SignedStep == SdkInv /\ [SdkMove]_vars => SignedInv'
<1> SUFFICES ASSUME SdkInv, [SdkMove]_vars PROVE SignedInv'
  OBVIOUS
<1> USE DEF SdkInv, SdkTypes
<1>0. Kept
  BY KeptStep
<1>1. CASE Tick
  BY <1>0, <1>1, SignedStays DEF Tick
<1>2. ASSUME NEW c \in Calls, Requested(c) PROVE SignedInv'
  BY <1>0, <1>2, SignedStays DEF Requested, RequestQuote
<1>3. ASSUME NEW c \in Calls, FinishQuote(c) PROVE SignedInv'
  BY <1>0, <1>3, SignedStays DEF FinishQuote
<1>4. ASSUME NEW c \in Calls, QuoteFails(c) PROVE SignedInv'
  BY <1>0, <1>4, SignedStays DEF QuoteFails
<1>5. ASSUME NEW c \in Calls, PostFails(c) PROVE SignedInv'
  BY <1>0, <1>5, SignedStays DEF PostFails
<1>6. ASSUME NEW c \in Calls, NEW l, NEW d, PostLimit(c, l, d),
             d # c => d \in Calls /\ \E res \in results[d] : l.sell = res.r.q.sell /\ l.buy = res.r.q.buy
      PROVE  SignedInv'
  <2>a. PICK a : a = [flow |-> "limit", p |-> l, at |-> now]
    OBVIOUS
  <2>g. PICK g : g = [body |-> HashBody(LimitOrder(l), LimitAppData(l)), flow |-> "limit", origin |-> d]
    OBVIOUS
  <2>1. /\ ask' = [ask EXCEPT ![c] = {a}] /\ signed' = [signed EXCEPT ![c] = {g}]
        /\ step' = [step EXCEPT ![c] = "posting"] /\ results' = results
    BY <1>6, <2>a, <2>g DEF PostLimit, Sign
  <2>2. LimitOrder(l) = LimitOrderOf(a)
    BY <2>a DEF LimitOrder, LimitOrderOf, Deadline, DeadlineAt
  <2>3. /\ g.body.order = LimitOrderOf(a) /\ g.body.full = {}
        /\ OrderOfBody(g.body) = g.body.order \/ (g.flow = "limit" /\ a.p.appData # {})
    <3>1. g.body.order = LimitOrderOf(a) /\ g.body.full = {} /\ g.flow = "limit"
      BY <2>2, <2>g DEF HashBody
    <3>2. ASSUME a.p.appData = {} PROVE OrderOfBody(g.body) = g.body.order
      <4>1. LimitAppData(l) = Hash(LimitDoc(l)) /\ a.p = l
        BY <2>a, <3>2 DEF LimitAppData, ValueOr
      <4>2. ParseAppDataHex(LimitAppData(l)) = LimitAppData(l)
        BY <4>1 DEF ParseAppDataHex, Hash
      <4>3. g.body.order.appData = g.body.appData
        BY <2>g, <4>2 DEF HashBody, LimitOrder
      <4> QED
        BY <3>1, <4>3 DEF OrderOfBody, LimitOrderOf
    <3> QED
      BY <3>1, <3>2
  <2>4. SignedFrom(c, g, a)'
    BY <1>6, <2>a, <2>g, <2>1, <2>3 DEF SignedFrom, LimitSigned
  <2>5. ask'[c] = {a}
    BY <2>1
  <2>6. step'[c] = "posting" /\ \A e \in Calls \ {c} : step'[e] = step[e]
    BY <2>1
  <2> QED
    BY <1>0, <2>1, <2>4, <2>5, <2>6, SignedNow
<1>7. ASSUME NEW c \in Calls, NEW l, NEW x, StartTrade(c, l, x) PROVE SignedInv'
  <2>a. PICK a : a = [flow |-> "trade", p |-> l, x |-> x, at |-> now]
    OBVIOUS
  <2>g. PICK g : g = [body |-> DocBody(TradeOrder(l, x), TradeDoc(l), TradeScheme(x)),
                      flow |-> "trade", origin |-> c]
    OBVIOUS
  <2>1. /\ ask' = [ask EXCEPT ![c] = {a}] /\ signed' = [signed EXCEPT ![c] = {g}]
        /\ step' = [step EXCEPT ![c] = "uploading"]
    BY <1>7, <2>a, <2>g DEF StartTrade, Sign
  <2>2. TradeOrder(l, x) = TradeOrderOf(a)
    BY <2>a DEF TradeOrder, TradeOrderOf, Deadline, DeadlineAt
  <2>3. OrderOfBody(g.body) = g.body.order /\ g.body.order = TradeOrderOf(a) /\ g.body.full = {TradeDoc(l)}
    BY <2>a, <2>2, <2>g DEF OrderOfBody, DocBody, TradeOrderOf
  <2>4. SignedFrom(c, g, a)'
    BY <2>a, <2>g, <2>3 DEF SignedFrom, TradeSigned
  <2>5. ask'[c] = {a}
    BY <2>1
  <2>6. step'[c] = "uploading" /\ \A e \in Calls \ {c} : step'[e] = step[e]
    BY <2>1
  <2> QED
    BY <1>0, <2>1, <2>4, <2>5, <2>6, SignedNow
<1>8. ASSUME NEW c \in Calls, NEW d \in Calls, PostFromQuote(c, d) PROVE SignedInv'
  <2>1. PICK res \in results[d] : Sign(c, HashBody(OrderToPost(res), OrderToPost(res).appData), "swap", d)
    BY <1>8 DEF PostFromQuote
  <2> DEFINE g == [body |-> HashBody(OrderToPost(res), OrderToPost(res).appData),
                   flow |-> "swap", origin |-> d]
  <2>2. signed' = [signed EXCEPT ![c] = {g}] /\ results' = results
    BY <2>1 DEF Sign
  <2>3. step' = [step EXCEPT ![c] = "posting"] /\ step[d] # "quoting"
    BY <1>8 DEF PostFromQuote, IsHeld
  <2>4. step'[c] = "posting" /\ \A e \in Calls \ {c} : step'[e] = step[e]
    BY <2>3
  <2>5. ask'[c] = ask[d] /\ ask'[d] = ask[d] /\ \A a \in ask[d] : a.flow = "swap"
    <3>1. CASE c = d /\ step[c] = "ready" /\ UNCHANGED ask
      BY <3>1 DEF AskInv
    <3>2. CASE step[c] = "idle" /\ IsHeld(d) /\ ask' = [ask EXCEPT ![c] = ask[d]]
      BY <3>2 DEF IsHeld, AskInv, Single
    <3> QED
      BY <1>8, <3>1, <3>2 DEF PostFromQuote
  <2>6. OrderOfBody(g.body) = g.body.order /\ g.body.order = res.order /\ g.body.full = {}
    <3>1. PICK r \in reply[d] : \A a \in ask[d] : ResultFrom(res, r, a)
      BY DEF QuoteInv
    <3>2. ask[d] # {}
      BY <3>1 DEF QuoteInv, AskInv
    <3>3. PICK a : res.order = SwapOrderAt(a, r, res.at)
      BY <3>1, <3>2 DEF ResultFrom
    <3> QED
      BY <3>3 DEF OrderOfBody, HashBody, OrderToPost, SwapOrderAt
  <2>7. ASSUME NEW a \in ask'[c] PROVE SignedFrom(c, g, a)'
    <3>1. a.flow = "swap"
      BY <2>5
    <3>2. SwapSigned(c, g, a)'
      BY <2>2, <2>5, <2>6 DEF SwapSigned
    <3> QED
      BY <2>6, <3>1, <3>2 DEF SignedFrom
  <2> HIDE DEF g
  <2> QED
    BY <1>0, <2>2, <2>4, <2>7, SignedNow
<1>9. ASSUME NEW c \in Calls, NEW m \in Markets, AnswerQuote(c, m) PROVE SignedInv'
  BY <1>0, <1>9, SignedStays DEF AnswerQuote
<1>10. ASSUME NEW c \in Calls, NEW b, Upload(c, b) PROVE SignedInv'
  BY <1>0, <1>10, SignedStays DEF Upload
<1>11. ASSUME NEW c \in Calls, NEW b, AcceptOrder(c, b) PROVE SignedInv'
  BY <1>0, <1>11, SignedStays DEF AcceptOrder
<1>12. CASE UNCHANGED vars
  BY <1>0, <1>12, SignedStays DEF vars
<1>13. ASSUME NEW c \in Calls, NEW l \in Limits, PostLimit(c, l, c) PROVE SignedInv'
  BY <1>6, <1>13
<1>14. ASSUME NEW c \in Calls, NEW d \in Calls, PostLimitFromQuote(c, d) PROVE SignedInv'
  <2>1. PICK res \in results[d] : PostLimit(c, LimitFromQuote(res.r, res.order), d)
    BY <1>14 DEF PostLimitFromQuote
  <2>2. /\ LimitFromQuote(res.r, res.order).sell = res.r.q.sell
        /\ LimitFromQuote(res.r, res.order).buy = res.r.q.buy
    BY DEF LimitFromQuote
  <2> QED
    BY <1>6, <2>1, <2>2
<1> QED
  BY <1>1, <1>2, <1>3, <1>4, <1>5, <1>7, <1>8, <1>9, <1>10, <1>11, <1>12, <1>13, <1>14, Zenon
     DEF SdkMove
-----------------------------------------------------------------------------
(* The book has what was signed, once.                                     *)

\* A step in which the server accepts nothing.
LEMMA BookStays ==
  ASSUME SdkInv, Kept, book' = book,
         \A c \in Calls : step'[c] = step[c] \/ step[c] \notin {"returned", "failed"}
  PROVE  BookInv'
<1>1. ASSUME NEW o \in book
      PROVE  /\ o.by \in Calls /\ step'[o.by] \in {"returned", "failed"}
             /\ \E g \in signed'[o.by] :
                  /\ o = [order |-> g.body.order, flow |-> g.flow, origin |-> g.origin, by |-> o.by]
                  /\ g.body.full \subseteq docs'
  <2>1. /\ o.by \in Calls /\ step[o.by] \in {"returned", "failed"}
        /\ \E g \in signed[o.by] :
             /\ o = [order |-> g.body.order, flow |-> g.flow, origin |-> g.origin, by |-> o.by]
             /\ g.body.full \subseteq docs
    BY DEF SdkInv, BookInv
  <2>2. signed'[o.by] = signed[o.by] /\ docs \subseteq docs'
    BY <2>1 DEF Kept
  <2> QED
    BY <2>1, <2>2
<1> QED
  BY <1>1 DEF SdkInv, BookInv

LEMMA BookStep == SdkInv /\ [SdkMove]_vars => BookInv'
<1> SUFFICES ASSUME SdkInv, [SdkMove]_vars PROVE BookInv'
  OBVIOUS
<1> USE DEF SdkInv, SdkTypes
<1>0. Kept
  BY KeptStep
<1>1. CASE Tick
  BY <1>0, <1>1, BookStays DEF Tick
<1>2. ASSUME NEW c \in Calls, Requested(c) PROVE BookInv'
  BY <1>0, <1>2, BookStays DEF Requested, RequestQuote
<1>3. ASSUME NEW c \in Calls, FinishQuote(c) PROVE BookInv'
  BY <1>0, <1>3, BookStays DEF FinishQuote
<1>4. ASSUME NEW c \in Calls, QuoteFails(c) PROVE BookInv'
  BY <1>0, <1>4, BookStays DEF QuoteFails
<1>5. ASSUME NEW c \in Calls, PostFails(c) PROVE BookInv'
  BY <1>0, <1>5, BookStays DEF PostFails
<1>6. ASSUME NEW c \in Calls, NEW l, NEW d, PostLimit(c, l, d) PROVE BookInv'
  BY <1>0, <1>6, BookStays DEF PostLimit, Sign
<1>7. ASSUME NEW c \in Calls, NEW l, NEW x, StartTrade(c, l, x) PROVE BookInv'
  BY <1>0, <1>7, BookStays DEF StartTrade, Sign
<1>8. ASSUME NEW c \in Calls, NEW d \in Calls, PostFromQuote(c, d) PROVE BookInv'
  BY <1>0, <1>8, BookStays DEF PostFromQuote, Sign
<1>9. ASSUME NEW c \in Calls, NEW m, AnswerQuote(c, m) PROVE BookInv'
  BY <1>0, <1>9, BookStays DEF AnswerQuote
<1>10. ASSUME NEW c \in Calls, NEW b, Upload(c, b) PROVE BookInv'
  BY <1>0, <1>10, BookStays DEF Upload
<1>11. ASSUME NEW c \in Calls, NEW b, AcceptOrder(c, b) PROVE BookInv'
  <2>1. PICK g \in signed[c] :
          /\ \A o \in book : o.order # g.body.order
          /\ book' = book \cup {[order |-> g.body.order, flow |-> g.flow, origin |-> g.origin, by |-> c]}
          /\ docs' = docs \cup g.body.full
    BY <1>11 DEF AcceptOrder
  <2>2. /\ step[c] = "posting" /\ signed' = signed
        /\ step' = [step EXCEPT ![c] = IF b THEN "returned" ELSE "failed"]
    BY <1>11 DEF AcceptOrder
  <2>3. PICK n : n = [order |-> g.body.order, flow |-> g.flow, origin |-> g.origin, by |-> c]
    OBVIOUS
  <2>4. step'[c] \in {"returned", "failed"} /\ \A e \in Calls \ {c} : step'[e] = step[e]
    BY <2>2
  <2>5. ASSUME NEW o \in book
        PROVE  /\ o.by \in Calls /\ step'[o.by] \in {"returned", "failed"}
               /\ \E h \in signed'[o.by] :
                    /\ o = [order |-> h.body.order, flow |-> h.flow, origin |-> h.origin, by |-> o.by]
                    /\ h.body.full \subseteq docs'
    BY <2>1, <2>2, <2>4 DEF BookInv
  <2>6. /\ n.by \in Calls /\ step'[n.by] \in {"returned", "failed"}
        /\ \E h \in signed'[n.by] :
             /\ n = [order |-> h.body.order, flow |-> h.flow, origin |-> h.origin, by |-> n.by]
             /\ h.body.full \subseteq docs'
    <3>1. n.by = c
      BY <2>3
    <3>2. g \in signed'[n.by] /\ g.body.full \subseteq docs'
      BY <2>1, <2>2, <3>1
    <3> QED
      BY <2>3, <2>4, <3>1, <3>2
  <2>7. book' = book \cup {n} /\ n.order = g.body.order
    BY <2>1, <2>3
  <2>8. \A o1, o2 \in book' : o1.order = o2.order => o1 = o2
    BY <2>1, <2>7 DEF BookInv
  <2> QED
    BY <2>5, <2>6, <2>7, <2>8 DEF BookInv
<1>12. CASE UNCHANGED vars
  BY <1>0, <1>12, BookStays DEF vars
<1> QED
  BY <1>1, <1>2, <1>3, <1>4, <1>5, <1>6, <1>7, <1>8, <1>9, <1>10, <1>11, <1>12, Zenon
     DEF SdkMove, PostLimitFromQuote

LEMMA SdkInvInit == SdkInit => SdkInv
  BY SdkAssumption DEF SdkInit, SdkInv, SdkTypes, AskInv, QuoteInv, SignedInv, BookInv, Single, Steps

LEMMA SdkInvStep == SdkInv /\ [SdkMove]_vars => SdkInv'
  BY TypesStep, AskStep, QuoteStep, SignedStep, BookStep, Zenon DEF SdkInv

\* Of every call: what it holds at each step, and where it got it from.
THEOREM SdkInvariant == SdkSpec => []SdkInv
<1>1. SdkInv /\ [SdkNext]_vars => SdkInv'
  BY NextMoves, SdkInvStep, Zenon
<1> QED
  BY SdkInvInit, <1>1, PTL DEF SdkSpec
-----------------------------------------------------------------------------
(* What the invariant says of an order in the book.                        *)

\* The call of an order, and what it was made with.
LEMMA OrderFrom ==
  ASSUME SdkInv, NEW o \in book
  PROVE  /\ o.by \in Calls /\ ask[o.by] # {} /\ Single(ask[o.by])
         /\ \A a \in ask[o.by] :
              /\ a.at \in Nat /\ a.at <= now /\ now <= MaxNow
              /\ o.flow = a.flow /\ (SwapAsk(a) \/ LimitAsk(a) \/ TradeAsk(a))
              /\ o.flow = "swap" => /\ o.origin \in Calls /\ ask[o.origin] = ask[o.by]
                                    /\ Single(results[o.origin])
                                    /\ \E res \in results[o.origin] : o.order = res.order
              /\ o.flow = "limit" =>
                   /\ o.order = LimitOrderOf(a)
                   /\ o.origin # o.by =>
                        /\ Single(results[o.origin])
                        /\ \E res \in results[o.origin] : a.p.sell = res.r.q.sell /\ a.p.buy = res.r.q.buy
              /\ o.flow = "trade" => o.order = TradeOrderOf(a) /\ TradeDoc(a.p) \in docs
<1> USE DEF SdkInv
<1>1. PICK g \in signed[o.by] :
        /\ o = [order |-> g.body.order, flow |-> g.flow, origin |-> g.origin, by |-> o.by]
        /\ g.body.full \subseteq docs
  BY DEF BookInv
<1>2. o.by \in Calls /\ step[o.by] \in {"returned", "failed"}
  BY DEF BookInv
<1>3. ask[o.by] # {} /\ Single(ask[o.by])
  BY <1>2 DEF AskInv
<1>4. o.order = g.body.order /\ o.flow = g.flow /\ o.origin = g.origin
  BY <1>1
<1>5. ASSUME NEW a \in ask[o.by]
      PROVE  /\ a.at \in Nat /\ a.at <= now /\ now <= MaxNow
             /\ o.flow = a.flow /\ (SwapAsk(a) \/ LimitAsk(a) \/ TradeAsk(a))
             /\ o.flow = "swap" => /\ o.origin \in Calls /\ ask[o.origin] = ask[o.by]
                                   /\ Single(results[o.origin])
                                   /\ \E res \in results[o.origin] : o.order = res.order
             /\ o.flow = "limit" =>
                  /\ o.order = LimitOrderOf(a)
                  /\ o.origin # o.by =>
                       /\ Single(results[o.origin])
                       /\ \E res \in results[o.origin] : a.p.sell = res.r.q.sell /\ a.p.buy = res.r.q.buy
             /\ o.flow = "trade" => o.order = TradeOrderOf(a) /\ TradeDoc(a.p) \in docs
  <2>1. SignedFrom(o.by, g, a)
    BY <1>2 DEF SignedInv
  <2>2. a.at \in Nat /\ a.at <= now /\ now <= MaxNow /\ (SwapAsk(a) \/ LimitAsk(a) \/ TradeAsk(a))
    BY <1>2, SdkAssumption DEF AskInv, SdkTypes
  <2>3. CASE o.flow = "swap"
    BY <1>4, <2>1, <2>2, <2>3 DEF SignedFrom, SwapSigned, QuoteInv
  <2>4. CASE o.flow = "limit"
    BY <1>4, <2>1, <2>2, <2>4 DEF SignedFrom, LimitSigned, QuoteInv
  <2>5. CASE o.flow = "trade"
    BY <1>1, <1>4, <2>1, <2>2, <2>5 DEF SignedFrom, TradeSigned
  <2>6. o.flow \in {"swap", "limit", "trade"} /\ o.flow = a.flow
    BY <1>4, <2>1, <2>2 DEF SignedFrom, SwapAsk, LimitAsk, TradeAsk
  <2> QED
    BY <2>2, <2>3, <2>4, <2>5, <2>6
<1> QED
  BY <1>2, <1>3, <1>5

\* The quote of a swap order, and the market it is from.
LEMMA SwapFrom ==
  ASSUME SdkInv, NEW o \in book, o.flow = "swap",
         NEW a \in ask[o.by], NEW res \in results[o.origin]
  PROVE  /\ SwapAsk(a) /\ res.r.validTo \in U32
         /\ a.p.validTo # {} => res.r.validTo \in a.p.validTo
         /\ \E m \in Markets : m.fee < a.p.amount /\ res.r.q = Quoted(a.p, m)
         /\ res.at \in 0..MaxNow /\ a.at <= res.at /\ o.order = SwapOrderAt(a, res.r, res.at)
<1>1. /\ SwapAsk(a) /\ o.origin \in Calls /\ a \in ask[o.origin] /\ o.order = res.order
  BY OrderFrom DEF Single, SwapAsk, LimitAsk, TradeAsk
<1>2. PICK r \in reply[o.origin] : ResultFrom(res, r, a)
  BY <1>1 DEF SdkInv, QuoteInv
<1>3. Answers(r, a)
  BY <1>1 DEF SdkInv, QuoteInv
<1> QED
  BY <1>1, <1>2, <1>3 DEF ResultFrom, Answers
-----------------------------------------------------------------------------
(* The properties of the order flows.                                      *)

\* However often a kept quote is posted it makes one order at most, and so do limit
\* and trade calls repeated with an absolute deadline (post_swap_order_from_quote,
\* post_limit_order, post_cow_protocol_trade).
THEOREM PostingAgainIsSafe == SdkSpec => []PostingIsIdempotent
<1>1. SdkInv => PostingIsIdempotent
  <2> SUFFICES ASSUME SdkInv, NEW o1 \in book, NEW o2 \in book, o1.flow = o2.flow, o1 # o2
               PROVE  \/ o1.flow = "swap" /\ o1.origin # o2.origin
                      \/ o1.flow # "swap" /\ (\E a1 \in ask[o1.by], a2 \in ask[o2.by] :
                           [a1 EXCEPT !.at = 0] # [a2 EXCEPT !.at = 0] \/ a1.p.validTo = {})
    BY DEF PostingIsIdempotent
  <2>1. o1.order # o2.order
    BY DEF SdkInv, BookInv
  <2>2. PICK a1 \in ask[o1.by], a2 \in ask[o2.by] : TRUE
    BY OrderFrom
  <2>3. o1.flow = a1.flow /\ o2.flow = a2.flow /\ a1.flow = a2.flow
    BY OrderFrom
  <2>4. CASE o1.flow = "swap"
    <3>1. PICK r1 \in results[o1.origin] : o1.order = r1.order
      BY <2>4, OrderFrom
    <3>2. PICK r2 \in results[o2.origin] : o2.order = r2.order
      BY <2>4, OrderFrom
    <3>3. Single(results[o1.origin])
      BY <2>4, OrderFrom
    <3> QED
      BY <2>1, <2>4, <3>1, <3>2, <3>3 DEF Single
  <2>5. CASE o1.flow # "swap" /\ a1.p.validTo # {} /\ [a1 EXCEPT !.at = 0] = [a2 EXCEPT !.at = 0]
    <3> DEFINE b1 == [a1 EXCEPT !.at = 0]
               b2 == [a2 EXCEPT !.at = 0]
    <3>0. a1.at \in Nat /\ a2.at \in Nat
      BY OrderFrom
    <3>1. CASE o1.flow = "limit"
      <4>1. LimitAsk(a1) /\ LimitAsk(a2) /\ o1.order = LimitOrderOf(a1) /\ o2.order = LimitOrderOf(a2)
        BY <2>3, <3>1, OrderFrom DEF SwapAsk, LimitAsk, TradeAsk
      <4>2. b1.p = a1.p /\ b2.p = a2.p
        BY <4>1 DEF LimitAsk
      <4>3. a1.p = a2.p
        BY <2>5, <4>2
      <4>4. DeadlineAt(a1.p, a1.at) = DeadlineAt(a2.p, a2.at)
        BY <2>5, <4>3 DEF DeadlineAt, ValueOr
      <4> QED
        BY <2>1, <4>1, <4>3, <4>4 DEF LimitOrderOf
    <3>2. CASE o1.flow = "trade"
      <4>1. TradeAsk(a1) /\ TradeAsk(a2) /\ o1.order = TradeOrderOf(a1) /\ o2.order = TradeOrderOf(a2)
        BY <2>3, <3>2, OrderFrom DEF SwapAsk, LimitAsk, TradeAsk
      <4>2. b1.p = a1.p /\ b2.p = a2.p /\ b1.x = a1.x /\ b2.x = a2.x
        BY <4>1 DEF TradeAsk
      <4>3. a1.p = a2.p /\ a1.x = a2.x
        BY <2>5, <4>2
      <4>4. DeadlineAt(a1.p, a1.at) = DeadlineAt(a2.p, a2.at)
        BY <2>5, <4>3 DEF DeadlineAt, ValueOr
      <4> QED
        BY <2>1, <4>1, <4>3, <4>4 DEF TradeOrderOf
    <3> QED
      BY <2>3, <2>5, <3>1, <3>2, OrderFrom DEF SwapAsk, LimitAsk, TradeAsk
  <2> QED
    BY <2>2, <2>4, <2>5
<1> QED
  BY SdkInvariant, <1>1, PTL

\* No order of the trade path refers to a document the server lacks, whether or
\* not the upload arrived, and every body names the app-data that was signed, unless the
\* trader gave a limit order's herself.
THEOREM DocumentsTravel == SdkSpec => []DocumentTravels
<1>1. SdkInv => DocumentTravels
  <2> SUFFICES ASSUME SdkInv PROVE DocumentTravels
    OBVIOUS
  <2>1. ASSUME NEW o \in book, o.flow = "trade" PROVE o.order.appData.hashOf \in docs
    <3>1. PICK a \in ask[o.by] : o.order = TradeOrderOf(a) /\ TradeDoc(a.p) \in docs
      BY <2>1, OrderFrom
    <3> QED
      BY <3>1 DEF TradeOrderOf, Hash
  <2>2. ASSUME NEW c \in Calls, NEW g \in signed[c], NEW a \in ask[c]
        PROVE  OrderOfBody(g.body) = g.body.order \/ (g.flow = "limit" /\ a.p.appData # {})
    BY DEF SdkInv, SignedInv, SignedFrom
  <2> QED
    BY <2>1, <2>2 DEF DocumentTravels
<1> QED
  BY SdkInvariant, <1>1, PTL

\* An order expires when the trader said: at her absolute deadline, on every path; and
\* with a time to live, that long after the call, on a swap up to the end of its quote
\* (build_unsigned_order, compute_order_valid_to).
THEOREM DeadlinesAreHonoured == SdkSpec => []ExpiryHonoured
<1>1. SdkInv => ExpiryHonoured
  <2> SUFFICES ASSUME SdkInv, NEW o \in book, NEW a \in ask[o.by]
               PROVE  LET ttl == ValueOr(a.p.validFor, DefaultValidity)
                          end == o.order.validTo
                      IN  /\ a.p.validTo # {} => end \in a.p.validTo
                          /\ a.p.validTo = {} /\ o.flow # "swap" /\ a.at + ttl < U32Size => end = a.at + ttl
                          /\ a.p.validTo = {} /\ o.flow = "swap" =>
                               \A res \in results[o.origin] :
                                 res.at + ttl < U32Size =>
                                   /\ end >= a.at + ttl
                                   /\ res.r.validTo <= res.at + ttl => end <= res.at + ttl
    BY DEF ExpiryHonoured
  <2> DEFINE ttl == ValueOr(a.p.validFor, DefaultValidity)
             end == o.order.validTo
  <2>0. U32Size \in Nat \ {0} /\ MaxNow \in Nat
    BY SdkAssumption
  <2>1. a.at \in Nat /\ o.flow = a.flow /\ IsDeadline(a.p)
    BY OrderFrom DEF SwapAsk, LimitAsk, TradeAsk, TradeParameters, LimitTradeParameters
  <2>2. ttl \in Nat
    BY <2>1, DeadlineType
  <2>3. ASSUME NEW at \in Nat
        PROVE  /\ DeadlineAt(a.p, at) \in Nat /\ (a.p.validTo # {} => DeadlineAt(a.p, at) \in a.p.validTo)
               /\ a.p.validTo = {} /\ at + ttl < U32Size => DeadlineAt(a.p, at) = at + ttl
    <3>1. /\ DeadlineAt(a.p, at) \in U32 /\ (a.p.validTo # {} => DeadlineAt(a.p, at) \in a.p.validTo)
          /\ a.p.validTo = {} => DeadlineAt(a.p, at) = ToU32(at + ttl)
      BY <2>1, DeadlineType
    <3>2. at + ttl < U32Size => ToU32(at + ttl) = at + ttl
      <4>1. at + ttl < U32Size => at + ttl \in 0..(U32Size - 1)
        BY <2>0, <2>2
      <4> HIDE DEF ttl
      <4> QED
        BY <2>0, <4>1 DEF ToU32
    <3> QED
      BY <2>0, <3>1, <3>2 DEF U32
  <2>4. CASE o.flow \in {"limit", "trade"}
    <3>1. end = DeadlineAt(a.p, a.at)
      <4>1. o.order = LimitOrderOf(a) \/ o.order = TradeOrderOf(a)
        BY <2>4, OrderFrom
      <4> QED
        BY <4>1 DEF LimitOrderOf, TradeOrderOf
    <3> QED
      BY <2>1, <2>3, <2>4, <3>1
  <2>5. CASE o.flow = "swap"
    <3>1. ASSUME NEW res \in results[o.origin]
          PROVE  /\ a.p.validTo # {} => end \in a.p.validTo
                 /\ a.p.validTo = {} /\ res.at + ttl < U32Size =>
                      /\ end >= a.at + ttl
                      /\ res.r.validTo <= res.at + ttl => end <= res.at + ttl
      <4>1. res.at \in Nat /\ a.at <= res.at /\ o.order = SwapOrderAt(a, res.r, res.at)
        BY <2>0, <2>5, SwapFrom
      <4> DEFINE d == DeadlineAt(a.p, res.at)
      <4>2. end = LaterOf(res.r.validTo, d)
        BY <4>1 DEF SwapOrderAt
      <4>3. res.r.validTo \in Nat /\ (a.p.validTo # {} => res.r.validTo \in a.p.validTo)
        BY <2>0, <2>5, SwapFrom DEF U32
      <4>4. /\ d \in Nat /\ (a.p.validTo # {} => d \in a.p.validTo)
            /\ a.p.validTo = {} /\ res.at + ttl < U32Size => d = res.at + ttl
        BY <2>3, <4>1
      <4> HIDE DEF ttl, d
      <4> QED
        BY <2>1, <2>2, <4>1, <4>2, <4>3, <4>4 DEF LaterOf
    <3>2. results[o.origin] # {}
      BY <2>5, OrderFrom
    <3> HIDE DEF ttl, end
    <3>3. a.p.validTo # {} => end \in a.p.validTo
      BY <3>1, <3>2
    <3> QED
      BY <2>5, <3>1, <3>3 DEF ttl, end
  <2>6. o.flow \in {"swap", "limit", "trade"}
    BY OrderFrom DEF SwapAsk, LimitAsk, TradeAsk
  <2> QED
    BY <2>4, <2>5, <2>6
<1> QED
  BY SdkInvariant, <1>1, PTL
-----------------------------------------------------------------------------
(* Amounts.                                                                *)

\* The code's choice of a slippage is the trader's.
LEMMA ToleratedIsEffective ==
  ASSUME NEW p, NEW s, TradeParameters(p), SwapAdvancedSettings(s)
  PROVE  Tolerated(p, s) = EffectiveSlippage(p, s) /\ EffectiveSlippage(p, s) \in Rates
<1> DEFINE n == EffectiveSlippage(p, s)
<1>1. /\ s.slippage = {} \/ \E v \in Rates : s.slippage = {v}
      /\ p.slippage = {} \/ \E v \in Rates : p.slippage = {v}
  BY DEF TradeParameters, SwapAdvancedSettings, Option
<1>2. Config.slippage \in Rates
  BY SdkAssumption
<1>3. /\ n \in Rates
      /\ \A k \in Rates : k = n <=> \/ s.slippage = {k}
                                    \/ s.slippage = {} /\ p.slippage = {k}
                                    \/ s.slippage = {} /\ p.slippage = {} /\ Config.slippage = k
  BY <1>1, <1>2, SingleValue DEF EffectiveSlippage, OrElse, ValueOr
<1> QED
  BY <1>3 DEF Tolerated, Rates

\* What the market says leaves room for the slippage's factor.
MarketsFit == \A m \in Markets : m.other * (2 * OneHundredBps) < WordSize

LEMMA FitsBelow ==
  ASSUME MarketsFit, NEW m \in Markets, NEW n \in Nat, n <= 2 * OneHundredBps
  PROVE  m.other \in Nat /\ m.other * n < WordSize
<1>1. m.other \in Nat /\ OneHundredBps \in Nat /\ WordSize \in Nat /\ 2 * OneHundredBps \in Nat
  BY SdkAssumption, AmountsAssumption DEF Words
<1>2. n * m.other <= (2 * OneHundredBps) * m.other
  BY <1>1, ProductMonotone
<1>3. n * m.other = m.other * n /\ (2 * OneHundredBps) * m.other = m.other * (2 * OneHundredBps)
  BY <1>1, Commutes
<1>4. m.other * n \in Nat /\ m.other * (2 * OneHundredBps) \in Nat
  BY <1>1, Commutes
<1>5. m.other * (2 * OneHundredBps) < WordSize
  BY DEF MarketsFit
<1> QED
  BY <1>1, <1>2, <1>3, <1>4, <1>5

\* The swap path signs what the trader asked for: her side to the atom, the other
\* side at the quote less exactly the slippage she tolerates, rounded to the atom.
THEOREM SwapsProtectTheTrader == ASSUME MarketsFit PROVE SdkSpec => []TraderProtected
<1>1. SdkInv => TraderProtected
  <2> SUFFICES ASSUME SdkInv, NEW o \in book, o.flow = "swap",
                      NEW a \in ask[o.by], NEW res \in results[o.origin]
               PROVE  LET n == Tolerated(a.p, a.s)
                          q == res.r.q
                          u == o.order
                      IN  IF u.isSell
                          THEN /\ u.sell + u.fee = a.p.amount
                               /\ q.buy * (OneHundredBps - n) - u.buy * OneHundredBps \in 0..(OneHundredBps - 1)
                          ELSE /\ u.buy = a.p.amount
                               /\ q.sell * (OneHundredBps + n) - u.sell * OneHundredBps \in 0..(OneHundredBps - 1)
    BY DEF TraderProtected
  <2> DEFINE n == EffectiveSlippage(a.p, a.s)
             q == res.r.q
             u == o.order
  <2>1. TradeParameters(a.p) /\ SwapAdvancedSettings(a.s)
    BY SwapFrom DEF SwapAsk
  <2>2. PICK m \in Markets : m.fee < a.p.amount /\ q = Quoted(a.p, m)
    BY SwapFrom
  <2>3. u = SwapOrderAt(a, res.r, res.at)
    BY SwapFrom
  <2>4. /\ u.isSell = q.isSell /\ u.fee = q.fee
        /\ u.sell = SignedBySwap(q, n).sell /\ u.buy = SignedBySwap(q, n).buy
    BY <2>3 DEF SwapOrderAt
  <2>5. Tolerated(a.p, a.s) = n /\ n \in Nat /\ OneHundredBps - n \in Nat
        /\ OneHundredBps + n \in Nat
        /\ OneHundredBps - n <= 2 * OneHundredBps /\ OneHundredBps + n <= 2 * OneHundredBps
    BY <2>1, ToleratedIsEffective, AmountsAssumption DEF Rates
  <2>6. q.isSell = a.p.isSell /\ a.p.isSell \in BOOLEAN
    BY <2>1, <2>2, QuotedType DEF TradeParameters
  <2>7. CASE q.isSell
    <3>1. q.sell + q.fee = a.p.amount /\ q.buy = m.other
      BY <2>1, <2>2, <2>6, <2>7, QuotedType
    <3>2. u.sell = q.sell /\ u.buy = Times(q.buy, OneHundredBps - n) \div OneHundredBps
      BY <2>4, <2>7 DEF SignedBySwap, SlippageSell, Amounts
    <3>3. q.buy \in Nat /\ q.buy * (OneHundredBps - n) < WordSize
      BY <2>5, <3>1, FitsBelow
    <3>4. q.buy * (OneHundredBps - n) - u.buy * OneHundredBps \in 0..(OneHundredBps - 1)
      BY <2>5, <3>2, <3>3, RoundedDown
    <3> HIDE DEF q, u, n
    <3> QED
      BY <2>4, <2>5, <2>7, <3>1, <3>2, <3>4 DEF q, u
  <2>8. CASE ~ q.isSell
    <3>1. q.buy = a.p.amount /\ q.sell = m.other
      BY <2>1, <2>2, <2>6, <2>8, QuotedType
    <3>2. u.buy = q.buy /\ u.sell = Times(q.sell, OneHundredBps + n) \div OneHundredBps
      BY <2>4, <2>8 DEF SignedBySwap, SlippageBuy, Amounts
    <3>3. q.sell \in Nat /\ q.sell * (OneHundredBps + n) < WordSize
      BY <2>5, <3>1, FitsBelow
    <3>4. q.sell * (OneHundredBps + n) - u.sell * OneHundredBps \in 0..(OneHundredBps - 1)
      BY <2>5, <3>2, <3>3, RoundedDown
    <3> HIDE DEF q, u, n
    <3> QED
      BY <2>4, <2>5, <2>8, <3>1, <3>2, <3>4 DEF q, u
  <2> QED
    BY <2>7, <2>8
<1> QED
  BY SdkInvariant, <1>1, PTL

\* The amounts of a trade with its fees leave room, and no fee exceeds the amount
\* it is taken from.
TradesFit ==
  \A l \in Limits, x \in Extras : x.apply =>
    LET q       == [isSell |-> l.isSell, sell |-> l.sell, buy |-> l.buy, fee |-> x.networkCosts]
        partner == ValueOr(l.partnerFee, 0)
    IN  /\ x.networkCosts \in Nat /\ x.protocolFee \in Nat /\ partner \in Nat
        /\ Fits(q, 2 * (partner + 1) * OneHundredBps)
        /\ ProtocolFeeDenominator(l.isSell, x.protocolFee) # 0
        /\ IF l.isSell THEN PartnerFee(q, x.protocolFee, partner) <= l.buy
                       ELSE ProtocolFee(q, x.protocolFee) <= l.sell

\* The trade path sells and buys what the trader said, less the partner fee and the
\* default slippage to the rounding of an atom and nothing else; a limit order of a kept
\* quote has its price.
THEOREM TradesProtectTheTrader == ASSUME TradesFit PROVE SdkSpec => []TradeProtected
<1>1. SdkInv => TradeProtected
  <2> SUFFICES ASSUME SdkInv PROVE TradeProtected
    OBVIOUS
  <2>1. ASSUME NEW o \in book, o.flow = "trade", NEW a \in ask[o.by]
        PROVE  LET u     == o.order
                   given == [isSell |-> a.p.isSell, sell |-> a.p.sell, buy |-> a.p.buy,
                             fee |-> a.x.networkCosts]
                   fee   == PartnerFee(given, a.x.protocolFee, ValueOr(a.p.partnerFee, 0))
                   cost  == a.p.sell + a.x.networkCosts
               IN  IF ~ a.x.apply THEN u.sell = a.p.sell /\ u.buy = a.p.buy
                   ELSE IF u.isSell
                   THEN /\ u.sell = cost
                        /\ u.buy * OneHundredBps - (a.p.buy - fee) * (OneHundredBps - DefaultSlippage)
                             \in 0..(OneHundredBps - 1)
                   ELSE /\ u.buy = a.p.buy
                        /\ (cost + fee) * (OneHundredBps + DefaultSlippage) - u.sell * OneHundredBps
                             \in 0..(OneHundredBps - 1)
    <3> DEFINE u == o.order
               q == [isSell |-> a.p.isSell, sell |-> a.p.sell, buy |-> a.p.buy, fee |-> a.x.networkCosts]
               partner == ValueOr(a.p.partnerFee, 0)
               fee == PartnerFee(q, a.x.protocolFee, partner)
               z == SignedByStages(q, a.x.protocolFee, partner, DefaultSlippage)
    <3>1. TradeAsk(a) /\ u = TradeOrderOf(a)
      BY <2>1, OrderFrom DEF SwapAsk, LimitAsk, TradeAsk
    <3>2. u.sell = TradeAmounts(a.p, a.x).sell /\ u.buy = TradeAmounts(a.p, a.x).buy /\ u.isSell = a.p.isSell
      BY <3>1 DEF TradeOrderOf
    <3>3. CASE ~ a.x.apply
      BY <3>2, <3>3 DEF TradeAmounts, Amounts
    <3>4. CASE a.x.apply
      <4>1. a.p \in Limits /\ a.x \in Extras /\ LimitTradeParameters(a.p)
        BY <3>1 DEF TradeAsk
      <4>2. /\ a.x.networkCosts \in Nat /\ a.x.protocolFee \in Nat /\ partner \in Nat
            /\ Fits(q, 2 * (partner + 1) * OneHundredBps)
            /\ ProtocolFeeDenominator(a.p.isSell, a.x.protocolFee) # 0
            /\ IF a.p.isSell THEN fee <= a.p.buy
                             ELSE ProtocolFee(q, a.x.protocolFee) <= a.p.sell
        BY <3>4, <4>1 DEF TradesFit
      <4>3. q \in Quotes /\ q.isSell = a.p.isSell /\ q.sell = a.p.sell /\ q.buy = a.p.buy
            /\ q.fee = a.x.networkCosts
        BY <4>1, <4>2, AmountsAssumption DEF Quotes, LimitTradeParameters, Words
      <4>4. DefaultSlippage \in 0..OneHundredBps
        BY SdkAssumption DEF Rates
      <4>5. TradeAmounts(a.p, a.x) = z
        BY <3>4 DEF TradeAmounts
      <4>6. ProtocolFeeDenominator(q.isSell, a.x.protocolFee) # 0
        BY <4>2, <4>3
      <4> HIDE DEF q, partner
      <4>7. LimitsOrdered(q, a.x.protocolFee, partner, DefaultSlippage)
        BY <4>2, <4>3, <4>4, <4>6, LimitsAlwaysOrdered
      <4>8. u.sell = z.sell /\ u.buy = z.buy
        BY <3>2, <4>5
      <4>9. CASE a.p.isSell
        <5>1. /\ z.sell = q.sell + q.fee
              /\ z.buy * OneHundredBps - (q.buy - fee) * (OneHundredBps - DefaultSlippage)
                   \in 0..(OneHundredBps - 1)
          BY <4>2, <4>3, <4>7, <4>9 DEF LimitsOrdered
        <5> HIDE DEF fee, z, u
        <5>2. /\ u.sell = a.p.sell + a.x.networkCosts
              /\ u.buy * OneHundredBps - (a.p.buy - fee) * (OneHundredBps - DefaultSlippage)
                   \in 0..(OneHundredBps - 1)
          BY <4>3, <4>8, <5>1
        <5> QED
          BY <3>2, <3>4, <4>9, <5>2 DEF fee, q, partner, u
      <4>10. CASE ~ a.p.isSell
        <5>1. /\ z.buy = q.buy
              /\ (q.sell + q.fee + fee) * (OneHundredBps + DefaultSlippage) - z.sell * OneHundredBps
                   \in 0..(OneHundredBps - 1)
          BY <4>2, <4>3, <4>7, <4>10 DEF LimitsOrdered
        <5> HIDE DEF fee, z, u
        <5>2. /\ u.buy = a.p.buy
              /\ (a.p.sell + a.x.networkCosts + fee) * (OneHundredBps + DefaultSlippage)
                   - u.sell * OneHundredBps \in 0..(OneHundredBps - 1)
          BY <4>3, <4>8, <5>1
        <5> QED
          BY <3>2, <3>4, <4>10, <5>2 DEF fee, q, partner, u
      <4> QED
        BY <4>9, <4>10
    <3> QED
      BY <3>3, <3>4
  <2>2. ASSUME NEW o \in book, o.flow = "limit", o.origin # o.by, NEW res \in results[o.origin]
        PROVE  o.order.sell = res.r.q.sell /\ o.order.buy = res.r.q.buy
    <3>1. PICK a \in ask[o.by] : TRUE
      BY OrderFrom
    <3>2. /\ o.order = LimitOrderOf(a) /\ Single(results[o.origin])
          /\ \E s \in results[o.origin] : a.p.sell = s.r.q.sell /\ a.p.buy = s.r.q.buy
      BY <2>2, <3>1, OrderFrom
    <3>3. o.order.sell = a.p.sell /\ o.order.buy = a.p.buy
      BY <3>2 DEF LimitOrderOf
    <3> QED
      BY <3>2, <3>3 DEF Single
  <2> QED
    BY <2>1, <2>2 DEF TradeProtected
<1> QED
  BY SdkInvariant, <1>1, PTL
-----------------------------------------------------------------------------
(* Types of the order flows.                                               *)

LEMMA WrapWord ==
  ASSUME NEW a \in Int
  PROVE  a % WordSize \in Words
  BY AmountsAssumption, Z3 DEF Words

LEMMA QuotientWord ==
  ASSUME NEW a \in Words
  PROVE  a \div OneHundredBps \in Words
<1>1. a \in Nat /\ a < WordSize /\ WordSize \in Nat /\ OneHundredBps \in Nat \ {0}
  BY AmountsAssumption DEF Words
<1> DEFINE k == a \div OneHundredBps
<1>2. k \in Nat /\ k * OneHundredBps <= a
  BY <1>1, Division
<1> HIDE DEF k
<1>3. k * 1 <= k * OneHundredBps
  BY <1>1, <1>2, ProductMonotone, Commutes
<1> QED
  BY <1>1, <1>2, <1>3, Commutes DEF Words, k

\* The swap path signs words.
LEMMA SwapWords ==
  ASSUME NEW q \in Quotes, q.sell \in Words, q.buy \in Words, NEW n \in Rates
  PROVE  SignedBySwap(q, n).sell \in Words /\ SignedBySwap(q, n).buy \in Words
<1>1. n \in Nat /\ OneHundredBps - n \in Nat /\ OneHundredBps + n \in Nat /\ q.sell \in Nat /\ q.buy \in Nat
  BY AmountsAssumption DEF Rates, Quotes
<1>2. q.buy * (OneHundredBps - n) \in Int /\ q.sell * (OneHundredBps + n) \in Int
  BY <1>1, Commutes
<1>3. SlippageSell(q.buy, n) \in Words /\ SlippageBuy(q.sell, n) \in Words
  BY <1>2, WrapWord, QuotientWord DEF SlippageSell, SlippageBuy, Times
<1> QED
  BY <1>3 DEF SignedBySwap, Amounts

\* The stages sign words.
LEMMA StagesWords ==
  ASSUME NEW q \in Quotes, q.sell \in Words, q.buy \in Words,
         NEW rate \in Nat, NEW partner \in Nat, NEW slippage \in 0..OneHundredBps,
         ProtocolFeeDenominator(q.isSell, rate) # 0
  PROVE  /\ SignedByStages(q, rate, partner, slippage).sell \in Words
         /\ SignedByStages(q, rate, partner, slippage).buy \in Words
<1>1. PartnerFee(q, rate, partner) \in Nat
  BY StagesTypes
<1>2. q.sell \in Nat /\ q.buy \in Nat /\ q.fee \in Nat
  BY DEF Quotes
<1> DEFINE a == AfterPartnerFees(q, rate, partner)
<1>3. a.sell \in Nat /\ a.buy \in Nat
  BY <1>1, <1>2, WrapNat DEF AfterPartnerFees, AfterNetworkCosts, Plus, Minus, Amounts
<1> HIDE DEF a
<1>4. slippage \in Nat
  BY AmountsAssumption
<1>5. BpsOf(a.buy, slippage) \in Nat /\ BpsOf(a.sell, slippage) \in Nat
  BY <1>3, <1>4, BpsOfBound
<1>6. CASE q.isSell
  <2>1. Plus(q.sell, q.fee) \in Words /\ Minus(a.buy, BpsOf(a.buy, slippage)) \in Words
    BY <1>2, <1>3, <1>5, WrapWord DEF Plus, Minus
  <2> QED
    BY <1>6, <2>1 DEF SignedByStages, BeforeAllFees, AfterSlippage, Amounts, a
<1>7. CASE ~ q.isSell
  <2>1. Plus(a.sell, BpsOf(a.sell, slippage)) \in Words
    BY <1>3, <1>5, WrapWord DEF Plus
  <2> QED
    BY <1>7, <2>1 DEF SignedByStages, BeforeAllFees, AfterSlippage, Amounts, a
<1> QED
  BY <1>6, <1>7

\* Every call has at hand what its step needs, and what gets into the book fits
\* the fields of an order.
THEOREM FlowsTyped == ASSUME TradesFit PROVE SdkSpec => []SdkTypeOK
<1>1. SdkInv => SdkTypeOK
  <2> SUFFICES ASSUME SdkInv PROVE SdkTypeOK
    OBVIOUS
  <2>1. now \in 0..MaxNow /\ step \in [Calls -> Steps]
    BY DEF SdkInv, SdkTypes
  <2>2. ASSUME NEW S, Single(S), S # {} PROVE Cardinality(S) = 1
    <3>1. PICK x : S = {x}
      BY <2>2 DEF Single
    <3> QED
      BY <3>1, FS_Singleton
  <2>3. Cardinality({}) = 0
    BY FS_EmptySet
  <2>4. ASSUME NEW c \in Calls
        PROVE  /\ Cardinality(ask[c]) = (IF step[c] = "idle" THEN 0 ELSE 1)
               /\ step[c] \in {"uploading", "posting"} => Cardinality(signed[c]) = 1
               /\ step[c] = "ready" => Cardinality(results[c]) = 1
               /\ results[c] # {} => reply[c] # {}
    BY <2>2, <2>3 DEF SdkInv, AskInv, SignedInv, QuoteInv
  <2>5. ASSUME NEW o \in book
        PROVE  o.order.sell \in Words /\ o.order.buy \in Words /\ o.order.validTo \in U32
    <3>1. PICK a \in ask[o.by] : TRUE
      BY OrderFrom
    <3>2. /\ a.at \in Nat /\ (SwapAsk(a) \/ LimitAsk(a) \/ TradeAsk(a))
          /\ o.flow = a.flow
      BY <3>1, OrderFrom
    <3>3. CASE o.flow = "swap"
      <4>1. PICK res \in results[o.origin] : TRUE
        BY <3>1, <3>3, OrderFrom
      <4>2. /\ SwapAsk(a) /\ res.r.validTo \in U32
            /\ \E m \in Markets : m.fee < a.p.amount /\ res.r.q = Quoted(a.p, m)
        BY <3>1, <3>3, <4>1, SwapFrom
      <4>3. PICK at \in 0..MaxNow : o.order = SwapOrderAt(a, res.r, at)
        BY <3>1, <3>3, <4>1, SwapFrom
      <4>4. at \in Nat
        BY SdkAssumption
      <4>5. DeadlineAt(a.p, at) \in U32
        BY <4>2, <4>4, DeadlineType DEF SwapAsk, TradeParameters
      <4>6. LaterOf(res.r.validTo, DeadlineAt(a.p, at)) \in U32
        BY <4>2, <4>5 DEF LaterOf
      <4>7. res.r.q \in Quotes /\ res.r.q.sell \in Words /\ res.r.q.buy \in Words
        BY <4>2, QuotedType DEF SwapAsk
      <4>8. EffectiveSlippage(a.p, a.s) \in Rates
        BY <4>2, ToleratedIsEffective DEF SwapAsk
      <4> QED
        BY <4>3, <4>6, <4>7, <4>8, SwapWords DEF SwapOrderAt
    <3>4. CASE o.flow = "limit"
      <4>1. LimitAsk(a) /\ o.order = LimitOrderOf(a)
        BY <3>1, <3>2, <3>4, OrderFrom DEF SwapAsk, LimitAsk, TradeAsk
      <4>2. DeadlineAt(a.p, a.at) \in U32
        BY <3>2, <4>1, DeadlineType DEF LimitAsk, LimitTradeParameters
      <4> QED
        BY <4>1, <4>2 DEF LimitAsk, LimitTradeParameters, LimitOrderOf
    <3>5. CASE o.flow = "trade"
      <4>1. TradeAsk(a) /\ o.order = TradeOrderOf(a)
        BY <3>1, <3>2, <3>5, OrderFrom DEF SwapAsk, LimitAsk, TradeAsk
      <4>2. DeadlineAt(a.p, a.at) \in U32
        BY <3>2, <4>1, DeadlineType DEF TradeAsk, LimitTradeParameters
      <4>3. TradeAmounts(a.p, a.x).sell \in Words /\ TradeAmounts(a.p, a.x).buy \in Words
        <5>1. CASE ~ a.x.apply
          BY <4>1, <5>1 DEF TradeAmounts, Amounts, TradeAsk, LimitTradeParameters
        <5>2. CASE a.x.apply
          <6> DEFINE q == [isSell |-> a.p.isSell, sell |-> a.p.sell, buy |-> a.p.buy,
                           fee |-> a.x.networkCosts]
                     partner == ValueOr(a.p.partnerFee, 0)
          <6>1. a.p \in Limits /\ a.x \in Extras /\ LimitTradeParameters(a.p)
            BY <4>1 DEF TradeAsk
          <6>2. /\ a.x.networkCosts \in Nat /\ a.x.protocolFee \in Nat /\ partner \in Nat
                /\ ProtocolFeeDenominator(q.isSell, a.x.protocolFee) # 0
            BY <5>2, <6>1 DEF TradesFit
          <6>3. q \in Quotes /\ q.sell \in Words /\ q.buy \in Words
            BY <6>1, <6>2, AmountsAssumption DEF Quotes, LimitTradeParameters, Words
          <6>4. DefaultSlippage \in 0..OneHundredBps
            BY SdkAssumption DEF Rates
          <6>5. TradeAmounts(a.p, a.x) = SignedByStages(q, a.x.protocolFee, partner, DefaultSlippage)
            BY <5>2 DEF TradeAmounts
          <6> HIDE DEF q, partner
          <6> QED
            BY <6>2, <6>3, <6>4, <6>5, StagesWords
        <5> QED
          BY <5>1, <5>2
      <4> QED
        BY <4>1, <4>2, <4>3 DEF TradeOrderOf
    <3> QED
      BY <3>2, <3>3, <3>4, <3>5 DEF SwapAsk, LimitAsk, TradeAsk
  <2> QED
    BY <2>1, <2>4, <2>5 DEF SdkTypeOK
<1> QED
  BY SdkInvariant, <1>1, PTL
-----------------------------------------------------------------------------
(* The cross-chain call: where it is in the SDK at each of its steps, what *)
(* it holds, and which callbacks it has called.                            *)

Fired1 == <<"before_bridging_sign">>
Fired2 == <<"before_bridging_sign", "after_bridging_sign">>
Fired3 == <<"before_bridging_sign", "after_bridging_sign", "before_order_sign">>
Fired4 == <<"before_bridging_sign", "after_bridging_sign", "before_order_sign", "after_order_sign">>
FiredHookError  == <<"before_bridging_sign", "on_bridging_sign_error">>
FiredOrderError == <<"before_bridging_sign", "after_bridging_sign", "before_order_sign",
                     "on_order_sign_error">>

Unsigned == {"idle", "beforeBridging", "noChain", "signing"}
Unasked  == Unsigned \cup {"afterBridging", "resolving"}

\* Where the call is in the SDK, and the callbacks called so far.
StepOf(c) ==
  /\ xstep[c] \in Unasked => step[c] = "idle"
  /\ xstep[c] = "quoting" => step[c] = "quoting"
  /\ xstep[c] = "beforeOrder" => step[c] = "ready"
  /\ xstep[c] = "posting" => step[c] = "posting"
  /\ xstep[c] \in {"afterOrder", "done"} => step[c] = "returned"
  /\ xstep[c] = "aborted" => (step[c] = "returned" <=> fired[c] = Fired4) /\ step[c] # "failed"
FiredOf(c) ==
  /\ xstep[c] = "idle" => fired[c] = <<>>
  /\ xstep[c] \in Unsigned \ {"idle"} => fired[c] = Fired1
  /\ xstep[c] \in {"afterBridging", "resolving", "quoting"} => fired[c] = Fired2
  /\ xstep[c] \in {"beforeOrder", "posting"} => fired[c] = Fired3
  /\ xstep[c] \in {"afterOrder", "done"} => fired[c] = Fired4
  /\ xstep[c] = "failed" => \/ fired[c] = FiredHookError /\ hook[c] = {}
                            \/ fired[c] \in {Fired2, FiredOrderError} /\ hook[c] # {}
  /\ xstep[c] = "aborted" => \/ fired[c] = Fired1
                             \/ fired[c] \in {Fired2, Fired3, Fired4} /\ hook[c] # {}

\* The request, the hook signed for it, and the swap asked for both.
HeldBy(c) ==
  /\ Single(request[c]) /\ request[c] \subseteq Requests /\ (request[c] = {} <=> xstep[c] = "idle")
  /\ Single(hook[c]) /\ \A h \in hook[c] : \E r \in request[c], recipient \in Recipients : h = SignedHook(r, recipient)
  /\ xstep[c] \in Unsigned => hook[c] = {}
  /\ xstep[c] \in XSteps \ (Unsigned \cup {"failed", "aborted"}) => hook[c] # {}
  /\ \A a \in ask[c] :
       a.flow = "swap" /\ a.onward = TRUE /\ \E r \in request[c], h \in hook[c] : a.p = SwapParams(r, h)
  /\ chosen[c] # {} => hook[c] # {}
  /\ step[c] # "idle" => chosen[c] # {}

PostedOf(c) ==
  /\ c \in refused => xstep[c] = "aborted"
  /\ fired[c] = Fired4 => \E o \in book : o.by = c

CrossTypes ==
  /\ xstep \in [Calls -> XSteps] /\ refused \subseteq Calls
  /\ DOMAIN request = Calls /\ DOMAIN hook = Calls /\ DOMAIN chosen = Calls /\ DOMAIN fired = Calls

CallInv == \A c \in Calls : StepOf(c) /\ FiredOf(c) /\ HeldBy(c) /\ PostedOf(c)

CrossInv == SdkInv /\ CrossTypes /\ CallInv

LEMMA DeadlineCut ==
  ASSUME NEW r \in Requests
  PROVE  /\ HookDeadline(r) \in Nat /\ OrderDeadline(r) \in U32
         /\ OrderDeadline(r) <= HookDeadline(r)
         /\ OrderDeadline(r) = HookDeadline(r) \/ OrderDeadline(r) = U32Max
<1>1. U32Max \in Nat /\ U32Size \in Nat
  BY SdkAssumption DEF U32Max
<1>2. r.deadline \in Option(Nat)
  BY RequestAssumption
<1>3. HookDeadline(r) \in Nat
  BY <1>1, <1>2, OptionValue DEF HookDeadline
<1> QED
  BY <1>1, <1>3 DEF OrderDeadline, U32, U32Max

\* The swap's parameters are well formed.
LEMMA SwapParamsTyped ==
  ASSUME NEW r \in Requests, NEW h
  PROVE  TradeParameters(SwapParams(r, h)) /\ SwapAdvancedSettings(SwapSettings(r, h))
<1>1. r.amount \in Words /\ r.slippage \in Rates /\ r.slippageOverride \in Option(Rates)
      /\ r.partnerFee \in Option(Rates)
  BY RequestAssumption
<1>2. OrderDeadline(r) \in U32
  BY DeadlineCut
<1>3. {r.slippage} \in Option(Rates) /\ {OrderDeadline(r)} \in Option(U32) /\ {} \in Option(U32)
      /\ ParseReceiver(h.recipient) \in Option({h.recipient})
  BY <1>1, <1>2 DEF Option, ParseReceiver
<1> QED
  BY <1>1, <1>3 DEF TradeParameters, SwapAdvancedSettings, SwapParams, SwapSettings, IsDeadline

\* To the SDK a step of the cross-chain call is one of its own, or none.
LEMMA CrossMoves ==
  ASSUME CrossInv, [CrossNext]_<<vars, crossVars>>
  PROVE  [SdkMove]_vars
<1>1. CASE World
  <2>1. Tick \/ \E c \in Calls, m \in Markets : AnswerQuote(c, m)
    BY <1>1 DEF World
  <2> QED
    BY <2>1, Zenon DEF SdkMove
<1>2. ASSUME NEW c \in Calls, NEW tokens, Resolve(c, tokens) PROVE Requested(c)
  <2>1. PICK r \in request[c], h \in hook[c] :
          RequestQuote(c, SwapParams(r, h), SwapSettings(r, h), TRUE)
    BY <1>2 DEF Resolve
  <2>2. r \in Requests
    BY DEF CrossInv, CallInv, HeldBy
  <2> QED
    BY <2>1, <2>2, SwapParamsTyped DEF Requested
<1>3. ASSUME NEW c \in Calls, Quoting(c) PROVE FinishQuote(c) \/ QuoteFails(c)
  BY <1>3 DEF Quoting
<1>4. ASSUME NEW c \in Calls, NEW ok, BeforeOrderDone(c, ok) PROVE PostFromQuote(c, c) \/ UNCHANGED vars
  BY <1>4 DEF BeforeOrderDone
<1>5. ASSUME NEW c \in Calls, NEW ok, Posting(c, ok) PROVE AcceptOrder(c, ok) \/ PostFails(c)
  BY <1>5 DEF Posting
<1>6. ASSUME NEW c \in Calls, NEW r, BeginPost(c, r) PROVE UNCHANGED vars
  BY <1>6 DEF BeginPost
<1>7. ASSUME NEW c \in Calls, HookSigned(c) \/ HookFails(c) \/ ResolveFails(c) PROVE UNCHANGED vars
  BY <1>7 DEF HookSigned, HookFails, ResolveFails
<1>8. ASSUME NEW c \in Calls, NEW ok,
             BeforeBridgingDone(c, ok) \/ AfterBridgingDone(c, ok) \/ AfterOrderDone(c, ok)
      PROVE  UNCHANGED vars
  BY <1>8 DEF BeforeBridgingDone, AfterBridgingDone, AfterOrderDone
<1>9. CASE UNCHANGED <<vars, crossVars>>
  BY <1>9
<1>10. CASE CrossNext /\ ~ World
  <2>1. PICK c \in Calls :
          \/ \E r \in Requests : BeginPost(c, r)
          \/ HookSigned(c) \/ HookFails(c) \/ ResolveFails(c) \/ Quoting(c)
          \/ \E tokens \in Candidates : Resolve(c, tokens)
          \/ \E ok \in BOOLEAN :
               BeforeBridgingDone(c, ok) \/ AfterBridgingDone(c, ok) \/ BeforeOrderDone(c, ok)
               \/ Posting(c, ok) \/ AfterOrderDone(c, ok)
    BY <1>10, Zenon DEF CrossNext
  <2>2. \/ UNCHANGED vars \/ Requested(c) \/ FinishQuote(c) \/ QuoteFails(c) \/ PostFails(c)
        \/ PostFromQuote(c, c) \/ \E ok \in BOOLEAN : AcceptOrder(c, ok)
    BY <2>1, <1>2, <1>3, <1>4, <1>5, <1>6, <1>7, <1>8, Zenon
  <2> QED
    BY <2>2, Zenon DEF SdkMove
<1> QED
  BY <1>1, <1>9, <1>10, Zenon

\* What a step of another call leaves as it is.
Untouched(e) ==
  /\ xstep'[e] = xstep[e] /\ request'[e] = request[e] /\ hook'[e] = hook[e]
  /\ chosen'[e] = chosen[e] /\ fired'[e] = fired[e] /\ step'[e] = step[e] /\ ask'[e] = ask[e]
  /\ (e \in refused' => e \in refused)

CallOK(c) == StepOf(c) /\ FiredOf(c) /\ HeldBy(c) /\ PostedOf(c)

LEMMA UntouchedOK ==
  ASSUME CrossInv, book \subseteq book', NEW e \in Calls, Untouched(e)
  PROVE  CallOK(e)'
<1> USE DEF CrossInv, CallInv, Untouched
<1>1. StepOf(e)'
  BY DEF StepOf
<1>2. FiredOf(e)'
  BY DEF FiredOf
<1>3. HeldBy(e)'
  BY DEF HeldBy, Single
<1>4. PostedOf(e)'
  BY DEF PostedOf
<1> QED
  BY <1>1, <1>2, <1>3, <1>4 DEF CallOK

LEMMA CallAt ==
  ASSUME CrossInv, book \subseteq book', NEW c \in Calls,
         \A e \in Calls \ {c} : Untouched(e), CallOK(c)'
  PROVE  CallInv'
<1>1. \A e \in Calls : CallOK(e)'
  BY UntouchedOK
<1> QED
  BY <1>1 DEF CallInv, CallOK

LEMMA CrossTypesStep == CrossInv /\ [CrossNext]_<<vars, crossVars>> => CrossTypes'
<1> SUFFICES ASSUME CrossInv, [CrossNext]_<<vars, crossVars>> PROVE CrossTypes'
  OBVIOUS
<1> USE DEF CrossInv, CrossTypes, XSteps, Goto, Fire, Hold, Verdict
<1>1. CASE World
  BY <1>1 DEF World, crossVars
<1>2. ASSUME NEW c \in Calls, NEW r \in Requests, BeginPost(c, r) PROVE CrossTypes'
  BY <1>2 DEF BeginPost
<1>3. ASSUME NEW c \in Calls, HookSigned(c) PROVE CrossTypes'
  BY <1>3 DEF HookSigned
<1>4. ASSUME NEW c \in Calls, HookFails(c) PROVE CrossTypes'
  BY <1>4 DEF HookFails
<1>5. ASSUME NEW c \in Calls, ResolveFails(c) PROVE CrossTypes'
  BY <1>5 DEF ResolveFails
<1>6. ASSUME NEW c \in Calls, Quoting(c) PROVE CrossTypes'
  BY <1>6 DEF Quoting
<1>7. ASSUME NEW c \in Calls, NEW tokens \in Candidates, Resolve(c, tokens) PROVE CrossTypes'
  BY <1>7 DEF Resolve
<1>8. ASSUME NEW c \in Calls, NEW ok \in BOOLEAN, BeforeBridgingDone(c, ok) PROVE CrossTypes'
  BY <1>8 DEF BeforeBridgingDone
<1>9. ASSUME NEW c \in Calls, NEW ok \in BOOLEAN, AfterBridgingDone(c, ok) PROVE CrossTypes'
  BY <1>9 DEF AfterBridgingDone
<1>10. ASSUME NEW c \in Calls, NEW ok \in BOOLEAN, BeforeOrderDone(c, ok) PROVE CrossTypes'
  BY <1>10 DEF BeforeOrderDone
<1>11. ASSUME NEW c \in Calls, NEW ok \in BOOLEAN, Posting(c, ok) PROVE CrossTypes'
  BY <1>11 DEF Posting
<1>12. ASSUME NEW c \in Calls, NEW ok \in BOOLEAN, AfterOrderDone(c, ok) PROVE CrossTypes'
  BY <1>12 DEF AfterOrderDone
<1>13. CASE UNCHANGED <<vars, crossVars>>
  BY <1>13 DEF crossVars
<1> QED
  BY <1>1, <1>2, <1>3, <1>4, <1>5, <1>6, <1>7, <1>8, <1>9, <1>10, <1>11, <1>12, <1>13, Zenon
     DEF CrossNext

\* What Append yields, element by element.
LEMMA AppendIs ==
  ASSUME NEW S, NEW s \in Seq(S), NEW t \in Seq(S), NEW e \in S, Len(t) = Len(s) + 1,
         \A i \in 1..Len(s) : t[i] = s[i], t[Len(t)] = e
  PROVE  Append(s, e) = t
<1>1. Append(s, e) \in Seq(S) /\ Len(Append(s, e)) = Len(s) + 1
  BY AppendProperties
<1>2. \A i \in 1..Len(s) + 1 : Append(s, e)[i] = t[i]
  BY AppendProperties
<1> QED
  BY <1>1, <1>2, SeqEqual

CallbackNames == {"before_bridging_sign", "after_bridging_sign", "on_bridging_sign_error",
                  "before_order_sign", "after_order_sign", "on_order_sign_error"}

LEMMA FiredGrows ==
  /\ Append(<<>>, "before_bridging_sign") = Fired1
  /\ Append(Fired1, "after_bridging_sign") = Fired2
  /\ Append(Fired1, "on_bridging_sign_error") = FiredHookError
  /\ Append(Fired2, "before_order_sign") = Fired3
  /\ Append(Fired3, "after_order_sign") = Fired4
  /\ Append(Fired3, "on_order_sign_error") = FiredOrderError
<1>1. /\ Fired1 \in Seq(CallbackNames) /\ Fired2 \in Seq(CallbackNames)
      /\ Fired3 \in Seq(CallbackNames) /\ Fired4 \in Seq(CallbackNames)
      /\ FiredHookError \in Seq(CallbackNames) /\ FiredOrderError \in Seq(CallbackNames)
  BY DEF Fired1, Fired2, Fired3, Fired4, FiredHookError, FiredOrderError, CallbackNames
<1>2. /\ Len(Fired1) = 1 /\ Len(Fired2) = 2 /\ Len(Fired3) = 3 /\ Len(Fired4) = 4
      /\ Len(FiredHookError) = 2 /\ Len(FiredOrderError) = 4
  BY DEF Fired1, Fired2, Fired3, Fired4, FiredHookError, FiredOrderError
<1>3. /\ \A i \in 1..1 : Fired2[i] = Fired1[i] /\ FiredHookError[i] = Fired1[i]
      /\ \A i \in 1..2 : Fired3[i] = Fired2[i]
      /\ \A i \in 1..3 : Fired4[i] = Fired3[i] /\ FiredOrderError[i] = Fired3[i]
  <2>1. \A i \in 1..1 : Fired2[i] = Fired1[i] /\ FiredHookError[i] = Fired1[i]
    BY DEF Fired1, Fired2, FiredHookError
  <2>2. Fired3[1] = Fired2[1] /\ Fired3[2] = Fired2[2]
    BY DEF Fired2, Fired3
  <2>3. /\ Fired4[1] = Fired3[1] /\ Fired4[2] = Fired3[2] /\ Fired4[3] = Fired3[3]
        /\ FiredOrderError[1] = Fired3[1] /\ FiredOrderError[2] = Fired3[2]
        /\ FiredOrderError[3] = Fired3[3]
    BY DEF Fired3, Fired4, FiredOrderError
  <2> QED
    BY <2>1, <2>2, <2>3
<1>4. /\ Fired2[2] = "after_bridging_sign" /\ FiredHookError[2] = "on_bridging_sign_error"
      /\ Fired3[3] = "before_order_sign" /\ Fired4[4] = "after_order_sign"
      /\ FiredOrderError[4] = "on_order_sign_error"
  BY DEF Fired2, Fired3, Fired4, FiredHookError, FiredOrderError
<1>5. /\ "after_bridging_sign" \in CallbackNames /\ "on_bridging_sign_error" \in CallbackNames
      /\ "before_order_sign" \in CallbackNames /\ "after_order_sign" \in CallbackNames
      /\ "on_order_sign_error" \in CallbackNames
  BY DEF CallbackNames
<1>6. \A n \in Nat, s, t \in Seq(CallbackNames), e \in CallbackNames :
         Len(s) = n /\ Len(t) = n + 1 /\ (\A i \in 1..n : t[i] = s[i]) /\ t[n + 1] = e => Append(s, e) = t
  BY AppendIs
<1>7. Append(<<>>, "before_bridging_sign") = Fired1
  BY DEF Fired1
<1>8. Append(Fired1, "after_bridging_sign") = Fired2
  <2>1. Len(Fired2) = Len(Fired1) + 1 /\ Fired2[Len(Fired2)] = "after_bridging_sign"
    BY <1>2, <1>4
  <2>2. \A i \in 1..Len(Fired1) : Fired2[i] = Fired1[i]
    BY <1>2, <1>3
  <2> QED
    BY <1>1, <1>5, <2>1, <2>2, AppendIs
<1>9. Append(Fired1, "on_bridging_sign_error") = FiredHookError
  <2>1. Len(FiredHookError) = Len(Fired1) + 1 /\ FiredHookError[Len(FiredHookError)] = "on_bridging_sign_error"
    BY <1>2, <1>4
  <2>2. \A i \in 1..Len(Fired1) : FiredHookError[i] = Fired1[i]
    BY <1>2, <1>3
  <2> QED
    BY <1>1, <1>5, <2>1, <2>2, AppendIs
<1>10. Append(Fired2, "before_order_sign") = Fired3
  <2>1. Len(Fired2) = 2 /\ Len(Fired3) = 2 + 1 /\ Fired3[2 + 1] = "before_order_sign"
    BY <1>2, <1>4
  <2>2. \A i \in 1..2 : Fired3[i] = Fired2[i]
    BY <1>3
  <2> QED
    BY <1>1, <1>5, <1>6, <2>1, <2>2
<1>11. Append(Fired3, "after_order_sign") = Fired4
  <2>1. Len(Fired3) = 3 /\ Len(Fired4) = 3 + 1 /\ Fired4[3 + 1] = "after_order_sign"
    BY <1>2, <1>4
  <2>2. \A i \in 1..3 : Fired4[i] = Fired3[i]
    BY <1>3
  <2> QED
    BY <1>1, <1>5, <1>6, <2>1, <2>2
<1>12. Append(Fired3, "on_order_sign_error") = FiredOrderError
  <2>1. Len(Fired3) = 3 /\ Len(FiredOrderError) = 3 + 1 /\ FiredOrderError[3 + 1] = "on_order_sign_error"
    BY <1>2, <1>4
  <2>2. \A i \in 1..3 : FiredOrderError[i] = Fired3[i]
    BY <1>3
  <2> QED
    BY <1>1, <1>5, <1>6, <2>1, <2>2
<1> QED
  BY <1>7, <1>8, <1>9, <1>10, <1>11, <1>12

LEMMA FiredApart ==
  /\ Fired4 # <<>> /\ Fired4 # Fired1 /\ Fired4 # Fired2 /\ Fired4 # Fired3
  /\ Fired4 # FiredHookError /\ Fired4 # FiredOrderError
<1>1. Fired4[4] = "after_order_sign" /\ FiredOrderError[4] = "on_order_sign_error"
  BY DEF Fired4, FiredOrderError
<1>2. /\ Len(Fired4) = 4 /\ Len(<<>>) = 0 /\ Len(Fired1) = 1 /\ Len(Fired2) = 2 /\ Len(Fired3) = 3
      /\ Len(FiredHookError) = 2
  BY DEF Fired1, Fired2, Fired3, Fired4, FiredHookError
<1>3. Fired4 # FiredOrderError
  BY <1>1
<1>4. Fired4 # Fired1 /\ Fired4 # Fired2 /\ Fired4 # Fired3 /\ Fired4 # FiredHookError
  <2>1. PICK n1, n2, n3, n4, n5 : /\ n1 = Len(Fired1) /\ n2 = Len(Fired2) /\ n3 = Len(Fired3)
                                  /\ n4 = Len(Fired4) /\ n5 = Len(FiredHookError)
    OBVIOUS
  <2>2. n4 # n1 /\ n4 # n2 /\ n4 # n3 /\ n4 # n5
    BY <1>2, <2>1
  <2> QED
    BY <2>1, <2>2, Zenon
<1>5. Fired4 # <<>>
  <2>1. PICK n0, n4 : n0 = Len(<<>>) /\ n4 = Len(Fired4)
    OBVIOUS
  <2>2. n4 # n0
    BY <1>2, <2>1
  <2> QED
    BY <2>1, <2>2, Zenon
<1> QED
  BY <1>3, <1>4, <1>5

LEMMA CallStep == CrossInv /\ [CrossNext]_<<vars, crossVars>> => CallInv'
<1> SUFFICES ASSUME CrossInv, [CrossNext]_<<vars, crossVars>> PROVE CallInv'
  OBVIOUS
<1>0. Kept /\ book \subseteq book'
  BY CrossMoves, KeptStep DEF CrossInv, Kept
<1> USE DEF CrossInv, CrossTypes, XSteps, SdkInv, SdkTypes, Goto, Fire, Hold, Verdict
<1>1. CASE World
  <2>1. UNCHANGED <<step, ask>> /\ UNCHANGED crossVars
    BY <1>1 DEF World, Tick, AnswerQuote
  <2>2. \A e \in Calls : Untouched(e)
    BY <2>1 DEF Untouched, crossVars
  <2> QED
    BY <1>0, <2>2, UntouchedOK DEF CallInv, CallOK
<1>2. ASSUME NEW c \in Calls, NEW r \in Requests, BeginPost(c, r) PROVE CallInv'
  <2>1. \A e \in Calls \ {c} : Untouched(e)
    BY <1>2 DEF BeginPost, Untouched, vars
  <2>2. /\ xstep'[c] = "beforeBridging" /\ xstep[c] = "idle" /\ request'[c] = {r}
        /\ fired'[c] = Append(fired[c], "before_bridging_sign")
        /\ UNCHANGED <<step, ask, hook, chosen, refused, book>>
    BY <1>2 DEF BeginPost, vars
  <2>3. StepOf(c) /\ FiredOf(c) /\ HeldBy(c) /\ PostedOf(c)
    BY DEF CallInv
  <2>4. fired'[c] = Fired1
    BY <2>2, <2>3, FiredGrows DEF FiredOf
  <2>5. ask[c] = {}
    BY <2>2, <2>3 DEF StepOf, AskInv, Unasked, Unsigned
  <2>6. StepOf(c)' /\ FiredOf(c)'
    BY <2>2, <2>3, <2>4 DEF StepOf, FiredOf, Unasked, Unsigned
  <2>7. HeldBy(c)'
    BY <2>2, <2>3, <2>5 DEF HeldBy, StepOf, Single, Unasked, Unsigned
  <2>8. PostedOf(c)'
    BY <2>2, <2>3, <2>4, FiredApart DEF PostedOf
  <2> QED
    BY <1>0, <2>1, <2>6, <2>7, <2>8, CallAt DEF CallOK
<1>3. ASSUME NEW c \in Calls, HookSigned(c) PROVE CallInv'
  <2>1. \A e \in Calls \ {c} : Untouched(e)
    BY <1>3 DEF HookSigned, Untouched, vars
  <2>2. PICK r \in request[c], recipient \in Recipients :
               hook' = [hook EXCEPT ![c] = {SignedHook(r, recipient)}]
    BY <1>3 DEF HookSigned
  <2>3. /\ xstep'[c] = "afterBridging" /\ xstep[c] = "signing" /\ hook'[c] = {SignedHook(r, recipient)}
        /\ fired'[c] = Append(fired[c], "after_bridging_sign")
        /\ UNCHANGED <<step, ask, request, chosen, refused, book>>
    BY <1>3, <2>2 DEF HookSigned, vars
  <2>4. StepOf(c) /\ FiredOf(c) /\ HeldBy(c) /\ PostedOf(c)
    BY DEF CallInv
  <2>5. fired'[c] = Fired2
    BY <2>3, <2>4, FiredGrows DEF FiredOf, Unsigned
  <2>6. ask[c] = {}
    BY <2>3, <2>4 DEF StepOf, AskInv, Unasked, Unsigned
  <2>7. StepOf(c)' /\ FiredOf(c)'
    BY <2>3, <2>4, <2>5 DEF StepOf, FiredOf, Unasked, Unsigned
  <2>8. HeldBy(c)'
    BY <2>3, <2>4, <2>6 DEF HeldBy, StepOf, Single, Unasked, Unsigned
  <2>9. PostedOf(c)'
    BY <2>3, <2>4, <2>5, FiredApart DEF PostedOf
  <2> QED
    BY <1>0, <2>1, <2>7, <2>8, <2>9, CallAt DEF CallOK
<1>4. ASSUME NEW c \in Calls, HookFails(c) PROVE CallInv'
  <2>1. \A e \in Calls \ {c} : Untouched(e)
    BY <1>4 DEF HookFails, Untouched, vars
  <2>2. /\ xstep'[c] = "failed" /\ xstep[c] = "signing"
        /\ fired'[c] = Append(fired[c], "on_bridging_sign_error")
        /\ UNCHANGED <<step, ask, request, hook, chosen, refused, book>>
    BY <1>4 DEF HookFails, vars
  <2>3. StepOf(c) /\ FiredOf(c) /\ HeldBy(c) /\ PostedOf(c)
    BY DEF CallInv
  <2>4. fired'[c] = FiredHookError
    BY <2>2, <2>3, FiredGrows DEF FiredOf, Unsigned
  <2>5. StepOf(c)' /\ FiredOf(c)' /\ HeldBy(c)'
    BY <2>2, <2>3, <2>4 DEF StepOf, FiredOf, HeldBy, Single, Unasked, Unsigned
  <2>6. PostedOf(c)'
    BY <2>2, <2>3, <2>4, FiredApart DEF PostedOf
  <2> QED
    BY <1>0, <2>1, <2>5, <2>6, CallAt DEF CallOK
<1>5. ASSUME NEW c \in Calls, ResolveFails(c) PROVE CallInv'
  <2>1. \A e \in Calls \ {c} : Untouched(e)
    BY <1>5 DEF ResolveFails, Untouched, vars
  <2>2. /\ xstep'[c] = "failed" /\ xstep[c] = "resolving"
        /\ UNCHANGED <<step, ask, request, hook, chosen, fired, refused, book>>
    BY <1>5 DEF ResolveFails, vars
  <2>3. StepOf(c) /\ FiredOf(c) /\ HeldBy(c) /\ PostedOf(c)
    BY DEF CallInv
  <2>4. StepOf(c)' /\ FiredOf(c)' /\ HeldBy(c)'
    BY <2>2, <2>3 DEF StepOf, FiredOf, HeldBy, Single, Unasked, Unsigned
  <2>5. PostedOf(c)'
    BY <2>2, <2>3 DEF PostedOf
  <2> QED
    BY <1>0, <2>1, <2>4, <2>5, CallAt DEF CallOK
<1>6. ASSUME NEW c \in Calls, Quoting(c) PROVE CallInv'
  <2>1. \A e \in Calls \ {c} : Untouched(e)
    BY <1>6 DEF Quoting, FinishQuote, QuoteFails, Untouched
  <2>2. xstep[c] = "quoting" /\ UNCHANGED <<ask, request, hook, chosen, refused, book>>
    BY <1>6 DEF Quoting, FinishQuote, QuoteFails
  <2>3. StepOf(c) /\ FiredOf(c) /\ HeldBy(c) /\ PostedOf(c)
    BY DEF CallInv
  <2>4. CASE FinishQuote(c) /\ Goto(c, "beforeOrder") /\ Fire(c, "before_order_sign")
    <3>1. xstep'[c] = "beforeOrder" /\ fired'[c] = Append(fired[c], "before_order_sign")
      BY <2>4
    <3>2. step'[c] = "ready"
      BY <2>3, <2>4 DEF FinishQuote, HeldBy
    <3>3. fired'[c] = Fired3
      BY <2>2, <2>3, <3>1, FiredGrows DEF FiredOf
    <3>4. StepOf(c)' /\ FiredOf(c)' /\ HeldBy(c)'
      BY <2>2, <2>3, <3>1, <3>2, <3>3 DEF StepOf, FiredOf, HeldBy, Single, Unasked, Unsigned
    <3>5. PostedOf(c)'
      BY <2>2, <2>3, <3>1, <3>3, FiredApart DEF PostedOf
    <3> QED
      BY <1>0, <2>1, <3>4, <3>5, CallAt DEF CallOK
  <2>5. CASE QuoteFails(c) /\ Goto(c, "failed") /\ UNCHANGED fired
    <3>1. xstep'[c] = "failed" /\ fired'[c] = fired[c] /\ step'[c] = "failed" /\ step[c] = "quoting"
      BY <2>5 DEF QuoteFails
    <3>2. fired[c] = Fired2
      BY <2>2, <2>3 DEF FiredOf
    <3>3. StepOf(c)' /\ FiredOf(c)' /\ HeldBy(c)'
      BY <2>2, <2>3, <3>1, <3>2 DEF StepOf, FiredOf, HeldBy, Single, Unasked, Unsigned
    <3>4. PostedOf(c)'
      BY <2>2, <2>3, <3>1, <3>2, FiredApart DEF PostedOf
    <3> QED
      BY <1>0, <2>1, <3>3, <3>4, CallAt DEF CallOK
  <2> QED
    BY <1>6, <2>4, <2>5 DEF Quoting
<1>7. ASSUME NEW c \in Calls, NEW tokens, Resolve(c, tokens) PROVE CallInv'
  <2>1. PICK r \in request[c], h \in hook[c] : \E t :
          /\ chosen' = [chosen EXCEPT ![c] = {t}]
          /\ RequestQuote(c, SwapParams(r, h), SwapSettings(r, h), TRUE)
    BY <1>7 DEF Resolve
  <2>2. \A e \in Calls \ {c} : Untouched(e)
    BY <1>7, <2>1 DEF Resolve, RequestQuote, Untouched
  <2>3. /\ xstep'[c] = "quoting" /\ xstep[c] = "resolving" /\ step'[c] = "quoting"
        /\ chosen'[c] # {} /\ UNCHANGED <<request, hook, fired, refused, book>>
    BY <1>7, <2>1 DEF Resolve, RequestQuote
  <2>4. StepOf(c) /\ FiredOf(c) /\ HeldBy(c) /\ PostedOf(c)
    BY DEF CallInv
  <2>5. /\ ask'[c] = {[flow |-> "swap", p |-> SwapParams(r, h), s |-> SwapSettings(r, h),
                       onward |-> TRUE, at |-> now]}
    BY <2>1 DEF RequestQuote
  <2>6. \A a \in ask'[c] : a.flow = "swap" /\ a.onward = TRUE /\ a.p = SwapParams(r, h)
    BY <2>5
  <2>7. StepOf(c)' /\ FiredOf(c)'
    BY <2>3, <2>4 DEF StepOf, FiredOf, Unasked, Unsigned
  <2>8. HeldBy(c)'
    BY <2>1, <2>3, <2>4, <2>6 DEF HeldBy, Single, Unasked, Unsigned
  <2>9. PostedOf(c)'
    BY <2>3, <2>4 DEF PostedOf
  <2> QED
    BY <1>0, <2>2, <2>7, <2>8, <2>9, CallAt DEF CallOK
<1>8. ASSUME NEW c \in Calls, NEW ok \in BOOLEAN, BeforeBridgingDone(c, ok) PROVE CallInv'
  <2>1. \A e \in Calls \ {c} : Untouched(e)
    BY <1>8 DEF BeforeBridgingDone, Untouched, vars
  <2>2. /\ xstep[c] = "beforeBridging" /\ UNCHANGED <<step, ask, request, hook, chosen, fired, book>>
    BY <1>8 DEF BeforeBridgingDone, vars
  <2>3. /\ xstep'[c] \in {"signing", "noChain", "aborted"}
        /\ c \in refused' => xstep'[c] = "aborted" \/ c \in refused
    BY <1>8 DEF BeforeBridgingDone
  <2>4. StepOf(c) /\ FiredOf(c) /\ HeldBy(c) /\ PostedOf(c)
    BY DEF CallInv
  <2>5. fired[c] = Fired1 /\ fired[c] # Fired4
    BY <2>2, <2>4, FiredApart DEF FiredOf, Unsigned
  <2>6. StepOf(c)' /\ FiredOf(c)' /\ HeldBy(c)'
    BY <2>2, <2>3, <2>4, <2>5 DEF StepOf, FiredOf, HeldBy, Single, Unasked, Unsigned
  <2>7. PostedOf(c)'
    BY <2>2, <2>3, <2>4, <2>5 DEF PostedOf
  <2> QED
    BY <1>0, <2>1, <2>6, <2>7, CallAt DEF CallOK
<1>9. ASSUME NEW c \in Calls, NEW ok \in BOOLEAN, AfterBridgingDone(c, ok) PROVE CallInv'
  <2>1. \A e \in Calls \ {c} : Untouched(e)
    BY <1>9 DEF AfterBridgingDone, Untouched, vars
  <2>2. /\ xstep[c] = "afterBridging" /\ UNCHANGED <<step, ask, request, hook, chosen, fired, book>>
    BY <1>9 DEF AfterBridgingDone, vars
  <2>3. /\ xstep'[c] \in {"resolving", "aborted"}
        /\ c \in refused' => xstep'[c] = "aborted" \/ c \in refused
    BY <1>9 DEF AfterBridgingDone
  <2>4. StepOf(c) /\ FiredOf(c) /\ HeldBy(c) /\ PostedOf(c)
    BY DEF CallInv
  <2>5. fired[c] = Fired2 /\ fired[c] # Fired4
    BY <2>2, <2>4, FiredApart DEF FiredOf
  <2>6. StepOf(c)' /\ FiredOf(c)' /\ HeldBy(c)'
    BY <2>2, <2>3, <2>4, <2>5 DEF StepOf, FiredOf, HeldBy, Single, Unasked, Unsigned
  <2>7. PostedOf(c)'
    BY <2>2, <2>3, <2>4, <2>5 DEF PostedOf
  <2> QED
    BY <1>0, <2>1, <2>6, <2>7, CallAt DEF CallOK
<1>10. ASSUME NEW c \in Calls, NEW ok \in BOOLEAN, BeforeOrderDone(c, ok) PROVE CallInv'
  <2>1. xstep[c] = "beforeOrder" /\ UNCHANGED <<request, hook, chosen, fired>>
    BY <1>10 DEF BeforeOrderDone
  <2>2. StepOf(c) /\ FiredOf(c) /\ HeldBy(c) /\ PostedOf(c)
    BY DEF CallInv
  <2>3. fired[c] = Fired3 /\ fired[c] # Fired4 /\ step[c] = "ready"
    BY <2>1, <2>2, FiredApart DEF FiredOf, StepOf
  <2>4. CASE ok /\ Goto(c, "posting") /\ PostFromQuote(c, c)
    <3>1. step' = [step EXCEPT ![c] = "posting"] /\ UNCHANGED <<ask, book>>
      BY <2>3, <2>4 DEF PostFromQuote, Sign
    <3>2. \A e \in Calls \ {c} : Untouched(e)
      BY <1>10, <2>1, <2>4, <3>1 DEF BeforeOrderDone, Untouched
    <3>3. xstep'[c] = "posting" /\ step'[c] = "posting" /\ refused' = refused
      BY <1>10, <2>4, <3>1 DEF BeforeOrderDone
    <3>4. StepOf(c)' /\ FiredOf(c)' /\ HeldBy(c)'
      BY <2>1, <2>2, <2>3, <3>1, <3>3 DEF StepOf, FiredOf, HeldBy, Single, Unasked, Unsigned
    <3>5. PostedOf(c)'
      BY <2>1, <2>2, <2>3, <3>3 DEF PostedOf
    <3> QED
      BY <1>0, <3>2, <3>4, <3>5, CallAt DEF CallOK
  <2>5. CASE ~ ok /\ Goto(c, "aborted") /\ UNCHANGED vars
    <3>1. \A e \in Calls \ {c} : Untouched(e)
      BY <1>10, <2>1, <2>5 DEF BeforeOrderDone, Untouched, vars
    <3>2. xstep'[c] = "aborted" /\ UNCHANGED <<step, ask, book>>
      BY <2>5 DEF vars
    <3>3. StepOf(c)' /\ FiredOf(c)' /\ HeldBy(c)'
      BY <2>1, <2>2, <2>3, <3>2 DEF StepOf, FiredOf, HeldBy, Single, Unasked, Unsigned
    <3>4. PostedOf(c)'
      BY <2>1, <2>2, <2>3, <3>2 DEF PostedOf
    <3> QED
      BY <1>0, <3>1, <3>3, <3>4, CallAt DEF CallOK
  <2> QED
    BY <1>10, <2>4, <2>5 DEF BeforeOrderDone
<1>11. ASSUME NEW c \in Calls, NEW ok \in BOOLEAN, Posting(c, ok) PROVE CallInv'
  <2>1. /\ xstep[c] = "posting" /\ UNCHANGED <<request, hook, chosen, refused, ask>>
        /\ \A e \in Calls \ {c} : Untouched(e)
    BY <1>11 DEF Posting, AcceptOrder, PostFails, Untouched
  <2>2. StepOf(c) /\ FiredOf(c) /\ HeldBy(c) /\ PostedOf(c)
    BY DEF CallInv
  <2>3. fired[c] = Fired3 /\ fired[c] # Fired4 /\ step[c] = "posting"
    BY <2>1, <2>2, FiredApart DEF FiredOf, StepOf
  <2>4. CASE ok
    <3>1. xstep'[c] = "afterOrder" /\ fired'[c] = Append(fired[c], "after_order_sign") /\ AcceptOrder(c, ok)
      BY <1>11, <2>4 DEF Posting
    <3>2. step'[c] = "returned" /\ \E o \in book' : o.by = c
      <4>1. PICK g : book' = book \cup {[order |-> g.body.order, flow |-> g.flow, origin |-> g.origin, by |-> c]}
        BY <3>1 DEF AcceptOrder
      <4>2. [order |-> g.body.order, flow |-> g.flow, origin |-> g.origin, by |-> c].by = c
        OBVIOUS
      <4>3. step' = [step EXCEPT ![c] = "returned"]
        BY <2>4, <3>1 DEF AcceptOrder
      <4> QED
        BY <4>1, <4>2, <4>3
    <3>3. fired'[c] = Fired4
      BY <2>3, <3>1, FiredGrows
    <3>4. StepOf(c)' /\ FiredOf(c)' /\ HeldBy(c)'
      BY <2>1, <2>2, <2>3, <3>1, <3>2, <3>3 DEF StepOf, FiredOf, HeldBy, Single, Unasked, Unsigned
    <3>5. PostedOf(c)'
      BY <2>1, <2>2, <3>1, <3>2 DEF PostedOf
    <3> QED
      BY <1>0, <2>1, <3>4, <3>5, CallAt DEF CallOK
  <2>5. CASE ~ ok
    <3>1. xstep'[c] = "failed" /\ fired'[c] = Append(fired[c], "on_order_sign_error")
      BY <1>11, <2>5 DEF Posting
    <3>2. step'[c] = "failed"
      BY <1>11, <2>5 DEF Posting, AcceptOrder, PostFails
    <3>3. fired'[c] = FiredOrderError
      BY <2>3, <3>1, FiredGrows
    <3>4. StepOf(c)' /\ FiredOf(c)' /\ HeldBy(c)'
      BY <2>1, <2>2, <2>3, <3>1, <3>2, <3>3 DEF StepOf, FiredOf, HeldBy, Single, Unasked, Unsigned
    <3>5. PostedOf(c)'
      BY <2>1, <2>2, <3>1, <3>3, FiredApart DEF PostedOf
    <3> QED
      BY <1>0, <2>1, <3>4, <3>5, CallAt DEF CallOK
  <2> QED
    BY <2>4, <2>5
<1>12. ASSUME NEW c \in Calls, NEW ok \in BOOLEAN, AfterOrderDone(c, ok) PROVE CallInv'
  <2>1. \A e \in Calls \ {c} : Untouched(e)
    BY <1>12 DEF AfterOrderDone, Untouched, vars
  <2>2. /\ xstep[c] = "afterOrder" /\ UNCHANGED <<step, ask, request, hook, chosen, fired, book>>
    BY <1>12 DEF AfterOrderDone, vars
  <2>3. /\ xstep'[c] \in {"done", "aborted"}
        /\ c \in refused' => xstep'[c] = "aborted" \/ c \in refused
    BY <1>12 DEF AfterOrderDone
  <2>4. StepOf(c) /\ FiredOf(c) /\ HeldBy(c) /\ PostedOf(c)
    BY DEF CallInv
  <2>5. fired[c] = Fired4 /\ step[c] = "returned"
    BY <2>2, <2>4 DEF FiredOf, StepOf
  <2>6. StepOf(c)' /\ FiredOf(c)' /\ HeldBy(c)'
    BY <2>2, <2>3, <2>4, <2>5 DEF StepOf, FiredOf, HeldBy, Single, Unasked, Unsigned
  <2>7. PostedOf(c)'
    BY <2>2, <2>3, <2>4, <2>5 DEF PostedOf
  <2> QED
    BY <1>0, <2>1, <2>6, <2>7, CallAt DEF CallOK
<1>13. CASE UNCHANGED <<vars, crossVars>>
  <2>1. \A e \in Calls : Untouched(e)
    BY <1>13 DEF Untouched, crossVars, vars
  <2> QED
    BY <1>0, <2>1, UntouchedOK DEF CallInv, CallOK
<1> QED
  BY <1>1, <1>2, <1>3, <1>4, <1>5, <1>6, <1>7, <1>8, <1>9, <1>10, <1>11, <1>12, <1>13, Zenon
     DEF CrossNext
-----------------------------------------------------------------------------
(* The properties of the cross-chain call.                                 *)

LEMMA CrossInvInit == CrossInit => CrossInv
<1> SUFFICES ASSUME CrossInit PROVE CrossInv
  OBVIOUS
<1>1. SdkInv
  BY SdkInvInit DEF CrossInit
<1>2. CrossTypes
  BY DEF CrossInit, CrossTypes, XSteps
<1>3. ASSUME NEW c \in Calls
      PROVE  /\ xstep[c] = "idle" /\ request[c] = {} /\ hook[c] = {} /\ chosen[c] = {} /\ fired[c] = <<>>
             /\ step[c] = "idle" /\ ask[c] = {} /\ refused = {}
  BY DEF CrossInit, SdkInit
<1>4. CallInv
  BY <1>3, FiredApart DEF CallInv, StepOf, FiredOf, HeldBy, PostedOf, Single, Unsigned, Unasked
<1> QED
  BY <1>1, <1>2, <1>4 DEF CrossInv

\* Of every cross-chain call: where the SDK is at each of its steps, what it holds
\* and which callbacks it has called (post_cross_chain_order).
THEOREM CrossInvariant == CrossSpec => []CrossInv
<1>1. CrossInv /\ [CrossNext]_<<vars, crossVars>> => CrossInv'
  <2> SUFFICES ASSUME CrossInv, [CrossNext]_<<vars, crossVars>> PROVE CrossInv'
    OBVIOUS
  <2>1. SdkInv'
    BY CrossMoves, SdkInvStep, Zenon DEF CrossInv
  <2> QED
    BY <2>1, CrossTypesStep, CallStep, Zenon DEF CrossInv
<1> QED
  BY CrossInvInit, <1>1, PTL DEF CrossSpec

\* Which callbacks the lists of callbacks hold.
LEMMA CalledIn ==
  ASSUME CrossInv, NEW c \in Calls
  PROVE  LET called == {fired[c][i] : i \in DOMAIN fired[c]}
         IN  /\ "after_order_sign" \in called <=> fired[c] = Fired4
             /\ "after_bridging_sign" \in called =>
                  fired[c] \in {Fired2, Fired3, Fired4, FiredOrderError}
             /\ "on_bridging_sign_error" \in called => fired[c] = FiredHookError
<1> DEFINE In(f, s) == f \in {s[i] : i \in DOMAIN s}
<1>1. fired[c] \in {<<>>, Fired1, Fired2, Fired3, Fired4, FiredHookError, FiredOrderError}
  <2>1. xstep[c] \in XSteps /\ FiredOf(c)
    BY DEF CrossInv, CrossTypes, CallInv
  <2> QED
    BY <2>1 DEF FiredOf, XSteps, Unsigned
<1>2. /\ ~ In("after_order_sign", <<>>) /\ ~ In("after_bridging_sign", <<>>)
      /\ ~ In("on_bridging_sign_error", <<>>)
  OBVIOUS
<1>3. /\ ~ In("after_order_sign", Fired1) /\ ~ In("after_bridging_sign", Fired1)
      /\ ~ In("on_bridging_sign_error", Fired1)
  BY DEF Fired1
<1>4. ~ In("after_order_sign", Fired2) /\ ~ In("on_bridging_sign_error", Fired2)
  BY DEF Fired2
<1>5. ~ In("after_order_sign", FiredHookError) /\ ~ In("after_bridging_sign", FiredHookError)
  BY DEF FiredHookError
<1>6. ~ In("after_order_sign", Fired3) /\ ~ In("on_bridging_sign_error", Fired3)
  BY DEF Fired3
<1>7. ~ In("after_order_sign", FiredOrderError) /\ ~ In("on_bridging_sign_error", FiredOrderError)
  BY DEF FiredOrderError
<1>8. In("after_order_sign", Fired4) /\ ~ In("on_bridging_sign_error", Fired4)
  <2>1. DOMAIN Fired4 = 1..4 /\ Fired4[4] = "after_order_sign"
    BY DEF Fired4
  <2>2. ~ In("on_bridging_sign_error", Fired4)
    BY DEF Fired4
  <2> QED
    BY <2>1, <2>2
<1> HIDE DEF In
<1>9. /\ In("after_order_sign", fired[c]) <=> fired[c] = Fired4
      /\ In("after_bridging_sign", fired[c]) => fired[c] \in {Fired2, Fired3, Fired4, FiredOrderError}
      /\ In("on_bridging_sign_error", fired[c]) => fired[c] = FiredHookError
  BY <1>1, <1>2, <1>3, <1>4, <1>5, <1>6, <1>7, <1>8
<1> QED
  BY <1>9 DEF In

\* The lists of callbacks that tell how a call ended.
LEMMA ListsApart ==
  /\ FiredHookError \notin {<<>>, Fired1, Fired2, Fired3, Fired4, FiredOrderError}
  /\ Fired1 \notin {Fired2, Fired3, Fired4, FiredOrderError}
  /\ <<>> \notin {Fired2, Fired3, Fired4, FiredOrderError}
<1>1. /\ Len(Fired4) = 4 /\ Len(<<>>) = 0 /\ Len(Fired1) = 1 /\ Len(Fired2) = 2 /\ Len(Fired3) = 3
      /\ Len(FiredHookError) = 2 /\ Len(FiredOrderError) = 4
  BY DEF Fired1, Fired2, Fired3, Fired4, FiredHookError, FiredOrderError
<1>2. Fired2[2] = "after_bridging_sign" /\ FiredHookError[2] = "on_bridging_sign_error"
  BY DEF Fired2, FiredHookError
<1>3. FiredHookError # Fired2
  BY <1>2
<1>4. /\ FiredHookError # <<>> /\ FiredHookError # Fired1 /\ FiredHookError # Fired3
      /\ FiredHookError # Fired4 /\ FiredHookError # FiredOrderError
  BY <1>1
<1>5. /\ Fired1 # Fired2 /\ Fired1 # Fired3 /\ Fired1 # Fired4 /\ Fired1 # FiredOrderError
      /\ <<>> # Fired2 /\ <<>> # Fired3 /\ <<>> # Fired4 /\ <<>> # FiredOrderError
  BY <1>1
<1> QED
  BY <1>3, <1>4, <1>5

\* A call has one order in the book at most.
LEMMA OneOrder ==
  ASSUME SdkInv, NEW o1 \in book, NEW o2 \in book, o1.by = o2.by
  PROVE  o1 = o2
  BY DEF SdkInv, BookInv, SignedInv, Single

\* A call a callback refused before its order was posted leaves no order behind, one
\* refused after it exactly one, and so does one that succeeded.
THEOREM AbortsLeaveNothing == CrossSpec => []AbortLeavesNothing
<1>1. CrossInv => AbortLeavesNothing
  <2> SUFFICES ASSUME CrossInv, NEW c \in Calls
               PROVE  LET mine   == {o \in book : o.by = c}
                          posted == "after_order_sign" \in {fired[c][i] : i \in DOMAIN fired[c]}
                      IN  /\ c \in refused /\ ~ posted => mine = {}
                          /\ posted => Cardinality(mine) = 1
    BY DEF AbortLeavesNothing
  <2> DEFINE mine == {o \in book : o.by = c}
  <2>1. "after_order_sign" \in {fired[c][i] : i \in DOMAIN fired[c]} <=> fired[c] = Fired4
    BY CalledIn
  <2>2. StepOf(c) /\ PostedOf(c)
    BY DEF CrossInv, CallInv
  <2>3. ASSUME c \in refused, fired[c] # Fired4 PROVE mine = {}
    <3>1. step[c] \notin {"returned", "failed"}
      BY <2>2, <2>3 DEF StepOf, PostedOf
    <3> QED
      BY <3>1 DEF CrossInv, SdkInv, BookInv
  <2>4. ASSUME fired[c] = Fired4 PROVE Cardinality(mine) = 1
    <3>1. PICK o \in book : o.by = c
      BY <2>2, <2>4 DEF PostedOf
    <3>2. mine = {o}
      BY <3>1, OneOrder DEF CrossInv
    <3> QED
      BY <3>2, FS_Singleton
  <2> QED
    BY <2>1, <2>3, <2>4
<1> QED
  BY <1>1, CrossInvariant, PTL

\* An order's proceeds go to its hook's recipient, or stay the owner's where that is no
\* address, and the two expire together, but for the cut to 32 bits.
THEOREM HooksCoverOrders == CrossSpec => []HookCoversOrder
<1>1. CrossInv => HookCoversOrder
  <2> SUFFICES ASSUME CrossInv, NEW o \in book, NEW h \in hook[o.by]
               PROVE  /\ o.order.receiver = IF h.recipient \in Addresses THEN h.recipient ELSE "owner"
                      /\ o.order.validTo <= h.deadline
                      /\ o.order.validTo = h.deadline \/ o.order.validTo = U32Max
    BY DEF HookCoversOrder
  <2>1. o.by \in Calls /\ ask[o.by] # {}
    BY OrderFrom DEF CrossInv
  <2>2. PICK a \in ask[o.by] : TRUE
    BY <2>1
  <2>3. HeldBy(o.by)
    BY <2>1 DEF CrossInv, CallInv
  <2>4. PICK r \in Requests : a.flow = "swap" /\ a.p = SwapParams(r, h) /\ \E recipient \in Recipients : h = SignedHook(r, recipient)
    BY <2>3 DEF HeldBy, Single
  <2>5. o.flow = "swap"
    BY <2>2, <2>4, OrderFrom DEF CrossInv
  <2>6. PICK res \in results[o.origin] : TRUE
    BY <2>2, <2>5, OrderFrom DEF CrossInv
  <2>7. res.r.validTo \in a.p.validTo \/ a.p.validTo = {}
    BY <2>5, SwapFrom DEF CrossInv
  <2>8. PICK at \in 0..MaxNow : o.order = SwapOrderAt(a, res.r, at)
    BY <2>5, SwapFrom DEF CrossInv
  <2>9. a.p.validTo = {OrderDeadline(r)} /\ a.p.receiver = ParseReceiver(h.recipient)
    BY <2>4 DEF SwapParams
  <2>10. res.r.validTo = OrderDeadline(r) /\ DeadlineAt(a.p, at) = OrderDeadline(r)
    BY <2>7, <2>9, SingleValue DEF DeadlineAt
  <2>11. o.order.validTo = OrderDeadline(r) /\ o.order.receiver = IF h.recipient \in Addresses THEN h.recipient ELSE "owner"
    <3>1. /\ o.order.validTo = LaterOf(res.r.validTo, DeadlineAt(a.p, at))
          /\ o.order.receiver = ValueOr(a.p.receiver, "owner")
      BY <2>8 DEF SwapOrderAt
    <3>2. LaterOf(res.r.validTo, DeadlineAt(a.p, at)) = OrderDeadline(r)
      BY <2>10 DEF LaterOf
    <3>3. CASE h.recipient \in Addresses
      <4>1. a.p.receiver = {h.recipient}
        BY <2>9, <3>3 DEF ParseReceiver
      <4> QED
        BY <3>1, <3>2, <3>3, <4>1, SingleValue
    <3>4. CASE h.recipient \notin Addresses
      <4>1. a.p.receiver = {}
        BY <2>9, <3>4 DEF ParseReceiver
      <4> QED
        BY <3>1, <3>2, <3>4, <4>1 DEF ValueOr
    <3> QED
      BY <3>3, <3>4
  <2>12. h.deadline = HookDeadline(r)
    BY <2>4 DEF SignedHook
  <2> QED
    BY <2>11, <2>12, DeadlineCut
<1> QED
  BY <1>1, CrossInvariant, PTL

\* The hook is signed once after_bridging_sign is called and never if its error is, and an
\* order is in the book once after_order_sign is.
THEOREM CallbacksTellTheTruth == CrossSpec => []CallbacksTruthful
<1>1. CrossInv => CallbacksTruthful
  <2> SUFFICES ASSUME CrossInv, NEW c \in Calls
               PROVE  LET called == {fired[c][i] : i \in DOMAIN fired[c]}
                      IN  /\ "after_bridging_sign" \in called => hook[c] # {}
                          /\ "on_bridging_sign_error" \in called => hook[c] = {} /\ xstep[c] = "failed"
                          /\ "after_order_sign" \in called => \E o \in book : o.by = c
                          /\ xstep[c] = "done" => fired[c] = Fired4
    BY DEF CallbacksTruthful, Fired4
  <2> DEFINE called == {fired[c][i] : i \in DOMAIN fired[c]}
  <2>1. /\ "after_order_sign" \in called <=> fired[c] = Fired4
        /\ "after_bridging_sign" \in called => fired[c] \in {Fired2, Fired3, Fired4, FiredOrderError}
        /\ "on_bridging_sign_error" \in called => fired[c] = FiredHookError
    BY CalledIn
  <2>2. FiredOf(c) /\ HeldBy(c) /\ PostedOf(c) /\ xstep[c] \in XSteps
    BY DEF CrossInv, CallInv, CrossTypes
  <2>3. fired[c] \in {Fired2, Fired3, Fired4, FiredOrderError} => hook[c] # {}
    BY <2>2, ListsApart DEF FiredOf, HeldBy, XSteps, Unsigned
  <2>4. fired[c] = FiredHookError => hook[c] = {} /\ xstep[c] = "failed"
    BY <2>2, ListsApart DEF FiredOf, XSteps, Unsigned
  <2>5. (fired[c] = Fired4 => \E o \in book : o.by = c) /\ (xstep[c] = "done" => fired[c] = Fired4)
    BY <2>2 DEF PostedOf, FiredOf
  <2> HIDE DEF called
  <2>6. /\ "after_bridging_sign" \in called => hook[c] # {}
        /\ "on_bridging_sign_error" \in called => hook[c] = {} /\ xstep[c] = "failed"
        /\ "after_order_sign" \in called => \E o \in book : o.by = c
        /\ xstep[c] = "done" => fired[c] = Fired4
    BY <2>1, <2>3, <2>4, <2>5
  <2> QED
    BY <2>6 DEF called
<1> QED
  BY <1>1, CrossInvariant, PTL

\* The shapes of the cross-chain call's state; the expiry of a swap it asks for has 32 bits.
THEOREM CrossTyped == CrossSpec => []CrossTypeOK
<1>1. CrossInv => CrossTypeOK
  <2> SUFFICES ASSUME CrossInv, NEW c \in Calls
               PROVE  /\ Cardinality(request[c]) = (IF xstep[c] = "idle" THEN 0 ELSE 1)
                      /\ chosen[c] # {} => hook[c] # {}
                      /\ step[c] # "idle" => chosen[c] # {}
                      /\ \A a \in ask[c] : \A t \in a.p.validTo : t \in U32
    BY DEF CrossTypeOK, CrossInv, CrossTypes
  <2>1. HeldBy(c)
    BY DEF CrossInv, CallInv
  <2>2. ASSUME NEW a \in ask[c], NEW t \in a.p.validTo PROVE t \in U32
    <3>1. PICK r \in Requests, h \in hook[c] : a.p = SwapParams(r, h)
      BY <2>1 DEF HeldBy
    <3> QED
      BY <3>1, DeadlineCut DEF SwapParams
  <2>3. Cardinality(request[c]) = (IF xstep[c] = "idle" THEN 0 ELSE 1)
    <3>1. CASE xstep[c] = "idle"
      BY <2>1, <3>1, FS_EmptySet DEF HeldBy
    <3>2. CASE xstep[c] # "idle"
      <4>1. PICK r \in request[c] : request[c] = {r}
        BY <2>1, <3>2 DEF HeldBy, Single
      <4> QED
        BY <4>1, <3>2, FS_Singleton
    <3> QED
      BY <3>1, <3>2
  <2> QED
    BY <2>1, <2>2, <2>3 DEF HeldBy
<1> QED
  BY <1>1, CrossInvariant, PTL
=============================================================================
