---------------------------- MODULE BridgeProofs ----------------------------
(***************************************************************************)
(* The bridge flows, for any number of sessions, calls and providers.      *)
(*                                                                         *)
(* BridgeSessions: the deposit address a session is handed is one the      *)
(* attestor signed for less than cache_ttl before, and pays the session's  *)
(* own recipient unless another session asks for the same trade to another.*)
(* Neither follows from the code of one session: the cache is written by   *)
(* all.  The invariant says of every cache entry, whoever left it, that its*)
(* deposit was asked for under the entry's key and attested once; that     *)
(* needs, of the sessions still waiting for an attestation, that each      *)
(* waits for a deposit of its own that nobody has attested.  The call a    *)
(* hook bridge makes is traced to the fees the bridge suggested.           *)
(*                                                                         *)
(* BridgeQuotes: the best quote is the best, and a multi-quote lists every *)
(* provider once, in order: its sort by counting is one to one, and the    *)
(* answers a call returned are still the ones it was given.                *)
(***************************************************************************)
EXTENDS BridgeSessions, BridgeQuotes, ArithmeticLemmas, FiniteSetTheorems

-----------------------------------------------------------------------------
(* Deposit addresses.                                                        *)

Payees == UNION {RecipientOf(r) : r \in Requests}

Deposits == [shape : Shapes, pays : Payees, deadline : Int, vouched : BOOLEAN, since : SUBSET Nat]
Entries  == [address : Nat, expires : Int]

Typed ==
  /\ now \in Nat
  /\ deposits \in Seq(Deposits)
  /\ cache \in [Shapes -> SUBSET Entries]
  /\ step = [s \in Sessions |-> step[s]]
  /\ asked \in [Sessions -> SUBSET Requests]
  /\ quote = [s \in Sessions |-> quote[s]]
  /\ given = [s \in Sessions |-> given[s]]

\* A session has one request, from when it asks.
Alone ==
  \A s \in Sessions :
    /\ \A r, o \in asked[s] : r = o
    /\ step[s] = "idle" => asked[s] = {} /\ given[s] = {}

\* The steps of each kind of bridge.
Kinds ==
  \A s \in Sessions : \A r \in asked[s] :
    /\ step[s] \in {"pricing", "calling", "signing", "gas"} => r.on = "hook"
    /\ step[s] \in {"quoting", "attesting", "override"} => r.on = "receiver"
    /\ step[s] = "swap" => r.on # "neither"

Deadlines == \A s \in Sessions : step[s] = "quoting" => \A q \in quote[s] : q.deadline \in Int

\* A deposit pays the recipient of a session that asked for its key.
Owned(d) ==
  \E o \in Sessions : \E r \in asked[o] :
    r.on = "receiver" /\ r.shape = d.shape /\ d.pays \in RecipientOf(r)

AllOwned == \A n \in 1..Len(deposits) : Owned(deposits[n])

\* Attested under key k, once, at t.
AttestedAt(n, k, t) ==
  /\ n \in 1..Len(deposits)
  /\ deposits[n].shape = k /\ deposits[n].vouched /\ deposits[n].since = {t}

\* What a session waits for is its own, and not attested yet.
Awaited ==
  \A s \in Sessions : step[s] = "attesting" =>
    \A q \in quote[s] :
      /\ q.deposit \in 1..Len(deposits)
      /\ deposits[q.deposit].since = {}
      /\ \A r \in asked[s] : deposits[q.deposit].shape = r.shape

Apart ==
  \A s, o \in Sessions : step[s] = "attesting" /\ step[o] = "attesting" /\ s # o =>
    \A q \in quote[s], p \in quote[o] : q.deposit # p.deposit

CacheOK ==
  \A k \in Shapes : \A e \in cache[k] :
    \E t \in Nat : AttestedAt(e.address, k, t) /\ e.expires = t + CacheTtl /\ t <= now

GivenOK ==
  \A s \in Sessions : \A r \in ReceiverRequest(s), g \in given[s] :
    \E t \in Nat : AttestedAt(g.address, r.shape, t) /\ t <= g.at /\ g.at < t + CacheTtl

Inv ==
  Typed /\ Alone /\ Kinds /\ Deadlines /\ AllOwned /\ Awaited /\ Apart /\ CacheOK /\ GivenOK

\* Steps that leave the deposits alone, and those that add one or attest one, keep
\* what has been attested.
LEMMA AttestedStays ==
  ASSUME NEW n, NEW k, NEW t, AttestedAt(n, k, t), deposits \in Seq(Deposits),
         \/ deposits' = deposits
         \/ \E d \in Deposits : deposits' = Append(deposits, d)
         \/ \E m \in 1..Len(deposits) :
              deposits[m].since = {} /\ deposits' = [deposits EXCEPT ![m].since = {now}]
  PROVE  AttestedAt(n, k, t)'
<1>1. CASE deposits' = deposits
  BY <1>1 DEF AttestedAt
<1>2. CASE \E d \in Deposits : deposits' = Append(deposits, d)
  BY <1>2 DEF AttestedAt
<1>3. CASE \E m \in 1..Len(deposits) :
             deposits[m].since = {} /\ deposits' = [deposits EXCEPT ![m].since = {now}]
  <2>1. PICK m \in 1..Len(deposits) :
          deposits[m].since = {} /\ deposits' = [deposits EXCEPT ![m].since = {now}]
    BY <1>3
  <2>2. n # m /\ n \in 1..Len(deposits)
    BY <2>1 DEF AttestedAt
  <2>3. deposits'[n] = deposits[n] /\ Len(deposits') = Len(deposits)
    BY <2>1, <2>2
  <2>. QED BY <2>2, <2>3 DEF AttestedAt
<1>. QED BY <1>1, <1>2, <1>3

\* What is handed out stays good, for the sessions whose request and answer a step
\* leaves alone.
LEMMA GivenStays ==
  ASSUME Inv, NEW s \in Sessions, asked'[s] = asked[s], given'[s] = given[s],
         \/ deposits' = deposits
         \/ \E d \in Deposits : deposits' = Append(deposits, d)
         \/ \E m \in 1..Len(deposits) :
              deposits[m].since = {} /\ deposits' = [deposits EXCEPT ![m].since = {now}]
  PROVE  \A r \in ReceiverRequest(s)', g \in given'[s] :
           \E t \in Nat : AttestedAt(g.address, r.shape, t)' /\ t <= g.at /\ g.at < t + CacheTtl
<1>. SUFFICES ASSUME NEW r \in ReceiverRequest(s)', NEW g \in given'[s]
     PROVE  \E t \in Nat : AttestedAt(g.address, r.shape, t)' /\ t <= g.at /\ g.at < t + CacheTtl
  OBVIOUS
<1>1. r \in ReceiverRequest(s)
  BY DEF ReceiverRequest
<1>2. PICK t \in Nat : AttestedAt(g.address, r.shape, t) /\ t <= g.at /\ g.at < t + CacheTtl
  BY <1>1 DEF Inv, GivenOK
<1>3. AttestedAt(g.address, r.shape, t)'
  BY <1>2, AttestedStays DEF Inv, Typed
<1>. QED BY <1>2, <1>3

\* The same of an entry of the cache.
LEMMA EntryStays ==
  ASSUME Inv, NEW k \in Shapes, NEW e \in cache[k], now' \in Nat, now' >= now,
         \/ deposits' = deposits
         \/ \E d \in Deposits : deposits' = Append(deposits, d)
         \/ \E m \in 1..Len(deposits) :
              deposits[m].since = {} /\ deposits' = [deposits EXCEPT ![m].since = {now}]
  PROVE  \E t \in Nat : AttestedAt(e.address, k, t)' /\ e.expires = t + CacheTtl /\ t <= now'
<1>1. PICK t \in Nat : AttestedAt(e.address, k, t) /\ e.expires = t + CacheTtl /\ t <= now
  BY DEF Inv, CacheOK
<1>2. AttestedAt(e.address, k, t)'
  BY <1>1, AttestedStays DEF Inv, Typed
<1>. QED BY <1>1, <1>2 DEF Inv, Typed

LEMMA Initially == Init => Inv
<1>. SUFFICES ASSUME Init PROVE Inv
  OBVIOUS
<1>1. Typed
  <2>1. now \in Nat /\ deposits \in Seq(Deposits)
    BY DEF Init
  <2>2. cache \in [Shapes -> SUBSET Entries]
    BY DEF Init
  <2>6. step = [s \in Sessions |-> step[s]]
    <3>1. step = [s \in Sessions |-> "idle"]
      BY DEF Init
    <3>2. \A s \in Sessions : step[s] = "idle"
      BY <3>1
    <3>. QED BY <3>1, <3>2
  <2>3. asked \in [Sessions -> SUBSET Requests]
    BY DEF Init
  <2>4. quote = [s \in Sessions |-> quote[s]]
    <3>1. quote = [s \in Sessions |-> {}]
      BY DEF Init
    <3>2. \A s \in Sessions : quote[s] = {}
      BY <3>1
    <3>. QED BY <3>1, <3>2
  <2>5. given = [s \in Sessions |-> given[s]]
    <3>1. given = [s \in Sessions |-> {}]
      BY DEF Init
    <3>2. \A s \in Sessions : given[s] = {}
      BY <3>1
    <3>. QED BY <3>1, <3>2
  <2>. QED BY <2>1, <2>2, <2>3, <2>4, <2>5, <2>6 DEF Typed
<1>2. Alone /\ Kinds /\ Deadlines /\ Awaited /\ Apart
  BY DEF Init, Alone, Kinds, Deadlines, Awaited, Apart
<1>3. AllOwned /\ CacheOK /\ GivenOK
  BY DEF Init, AllOwned, CacheOK, GivenOK
<1>. QED BY <1>1, <1>2, <1>3 DEF Inv

\* A step of one session that touches neither cache nor deposits and waits for no
\* attestation afterwards: it only has to keep the session's own parts.
LEMMA OneSession ==
  ASSUME Inv, NEW s \in Sessions, UNCHANGED shared,
         step' = [step EXCEPT ![s] = step'[s]],
         step'[s] \notin {"attesting", "override", "idle"},
         quote' = [quote EXCEPT ![s] = quote'[s]],
         given' = [given EXCEPT ![s] = given'[s]],
         asked' = [asked EXCEPT ![s] = asked'[s]], asked'[s] \subseteq Requests,
         asked[s] \subseteq asked'[s],
         \A r, o \in asked'[s] : r = o,
         step'[s] = "quoting" => \A q \in quote'[s] : q.deadline \in Int,
         \A r \in asked'[s] :
           /\ step'[s] \in {"pricing", "calling", "signing", "gas"} => r.on = "hook"
           /\ step'[s] = "quoting" => r.on = "receiver"
           /\ step'[s] = "swap" => r.on # "neither",
         \/ given'[s] = {}
         \/ given'[s] = given[s] /\ asked'[s] = asked[s]
         \/ \A r \in asked'[s] : r.on = "hook"
  PROVE  Inv'
<1>. USE DEF Inv, shared
<1>1. Typed'
  BY DEF Typed
<1>2. Alone'
  BY DEF Alone, Typed
<1>3. Kinds'
  BY DEF Kinds, Typed
<1>4. Deadlines'
  BY DEF Deadlines, Typed
<1>5. AllOwned'
  <2>. SUFFICES ASSUME NEW n \in 1..Len(deposits) PROVE Owned(deposits[n])'
    BY DEF AllOwned
  <2>1. PICK o \in Sessions : \E r \in asked[o] :
          r.on = "receiver" /\ r.shape = deposits[n].shape /\ deposits[n].pays \in RecipientOf(r)
    BY DEF AllOwned, Owned
  <2>2. asked[o] \subseteq asked'[o]
    BY DEF Typed
  <2>. QED BY <2>1, <2>2 DEF Owned
<1>6. \A o \in Sessions : step'[o] = "attesting" =>
        step[o] = "attesting" /\ quote'[o] = quote[o] /\ asked'[o] = asked[o]
  BY DEF Typed
<1>7. Awaited' /\ Apart'
  <2>1. deposits' = deposits /\ Awaited /\ Apart
    OBVIOUS
  <2>. QED BY <1>6, <2>1 DEF Awaited, Apart
<1>8. CacheOK'
  BY DEF CacheOK, AttestedAt
<1>9. GivenOK'
  <2>. SUFFICES ASSUME NEW o \in Sessions, NEW r \in ReceiverRequest(o)', NEW g \in given'[o]
       PROVE  \E t \in Nat : AttestedAt(g.address, r.shape, t)' /\ t <= g.at /\ g.at < t + CacheTtl
    BY DEF GivenOK
  <2>1. CASE given'[o] = given[o] /\ asked'[o] = asked[o]
    BY <2>1, GivenStays
  <2>2. CASE ~ (given'[o] = given[o] /\ asked'[o] = asked[o])
    <3>1. o = s
      BY <2>2 DEF Typed
    <3>. QED BY <2>2, <3>1 DEF ReceiverRequest
  <2>. QED BY <2>1, <2>2
<1>. QED BY <1>1, <1>2, <1>3, <1>4, <1>5, <1>6, <1>7, <1>8, <1>9

\* The steps that keep to one session.
LEMMA Simple ==
  ASSUME Inv, NEW s \in Sessions,
         \/ \E r \in Requests : Ask(s, r)
         \/ EstimateGas(s) \/ Swap(s) \/ Price(s) \/ Call(s) \/ Sign(s) \/ Fail(s)
  PROVE  Inv'
<1>. USE DEF Go
<1>0. /\ step = [o \in Sessions |-> step[o]] /\ quote = [o \in Sessions |-> quote[o]]
      /\ given = [o \in Sessions |-> given[o]]
      /\ asked \in [Sessions -> SUBSET Requests]
      /\ \A r, o \in asked[s] : r = o
      /\ now \in Nat
  BY DEF Inv, Typed, Alone
<1>1. ASSUME NEW r \in Requests, Ask(s, r) PROVE Inv'
  <2>1. asked[s] = {} /\ given[s] = {} /\ asked'[s] = {r}
    BY <1>0, <1>1 DEF Ask, Inv, Alone
  <2>2. step'[s] \in {"failed", "gas", "swap"}
        /\ (step'[s] = "gas" => r.on = "hook") /\ (step'[s] = "swap" => r.on # "neither")
    BY <1>0, <1>1 DEF Ask
  <2>3. /\ step' = [step EXCEPT ![s] = step'[s]] /\ quote' = [quote EXCEPT ![s] = quote'[s]]
        /\ given' = [given EXCEPT ![s] = given'[s]] /\ asked' = [asked EXCEPT ![s] = asked'[s]]
        /\ given'[s] = {} /\ UNCHANGED shared
    BY <1>0, <1>1, <2>1 DEF Ask
  <2>4. asked'[s] \subseteq Requests /\ asked[s] \subseteq asked'[s] /\ \A o, q \in asked'[s] : o = q
    BY <2>1
  <2>5. step'[s] \notin {"attesting", "override", "idle"} /\ step'[s] # "quoting"
    BY <2>2
  <2>6. \A o \in asked'[s] :
          /\ step'[s] \in {"pricing", "calling", "signing", "gas"} => o.on = "hook"
          /\ step'[s] = "quoting" => o.on = "receiver"
          /\ step'[s] = "swap" => o.on # "neither"
    BY <2>1, <2>2
  <2>. QED BY <2>3, <2>4, <2>5, <2>6, OneSession
<1>2. CASE EstimateGas(s)
  <2>1. /\ step' = [step EXCEPT ![s] = step'[s]] /\ quote' = [quote EXCEPT ![s] = quote'[s]]
        /\ given' = [given EXCEPT ![s] = given'[s]] /\ asked' = [asked EXCEPT ![s] = asked'[s]]
        /\ given'[s] = given[s] /\ asked'[s] = asked[s] /\ UNCHANGED shared
        /\ step'[s] = "swap" /\ step[s] = "gas"
    BY <1>0, <1>2 DEF EstimateGas
  <2>2. \A r \in asked[s] : r.on = "hook"
    BY <2>1 DEF Inv, Kinds
  <2>. QED BY <1>0, <2>1, <2>2, OneSession
<1>3. CASE Swap(s)
  <2>1. /\ step' = [step EXCEPT ![s] = step'[s]] /\ quote' = [quote EXCEPT ![s] = quote'[s]]
        /\ given' = [given EXCEPT ![s] = given'[s]] /\ asked' = [asked EXCEPT ![s] = asked'[s]]
        /\ given'[s] = given[s] /\ asked'[s] = asked[s] /\ UNCHANGED shared
        /\ step[s] = "swap"
    BY <1>0, <1>3 DEF Swap
  <2>2. PICK r \in asked[s] :
          IF r.on = "hook"
          THEN Go(s, IF r.signs /\ ~ r.chainKnown THEN "failed" ELSE "pricing") /\ UNCHANGED quote
          ELSE IF RecipientOf(r) = {} THEN Go(s, "failed") /\ UNCHANGED quote
          ELSE Go(s, "quoting") /\ quote' = [quote EXCEPT ![s] = {[deadline |-> now + Validity]}]
    BY <1>3 DEF Swap
  <2>3. r \in Requests /\ r.on # "neither" /\ \A o \in asked[s] : o = r
    BY <1>0, <2>1 DEF Inv, Kinds
  <2>4. /\ step'[s] \in {"failed", "pricing", "quoting"}
        /\ step'[s] = "pricing" => r.on = "hook"
        /\ step'[s] = "quoting" => r.on # "hook" /\ quote'[s] = {[deadline |-> now + Validity]}
    BY <1>0, <2>2
  <2>5. step'[s] = "quoting" => r.on = "receiver" /\ \A q \in quote'[s] : q.deadline \in Int
    BY <1>0, <2>3, <2>4, SessionsAssumption
  <2>. QED BY <1>0, <2>1, <2>3, <2>4, <2>5, OneSession
<1>4. CASE Price(s)
  <2>1. /\ step' = [step EXCEPT ![s] = step'[s]] /\ quote' = [quote EXCEPT ![s] = quote'[s]]
        /\ given' = [given EXCEPT ![s] = given'[s]] /\ asked' = [asked EXCEPT ![s] = asked'[s]]
        /\ given'[s] = given[s] /\ asked'[s] = asked[s] /\ UNCHANGED shared
        /\ step'[s] \in {"calling", "failed"} /\ step[s] = "pricing"
    <3>1. step' = [step EXCEPT ![s] = "calling"] \/ step' = [step EXCEPT ![s] = "failed"]
      BY <1>4 DEF Price
    <3>2. quote' = [quote EXCEPT ![s] = quote'[s]]
      <4>1. UNCHANGED quote \/ \E v : quote' = [quote EXCEPT ![s] = v]
        BY <1>4 DEF Price
      <4>. QED BY <1>0, <4>1
    <3>. QED BY <1>0, <1>4, <3>1, <3>2 DEF Price
  <2>2. \A r \in asked[s] : r.on = "hook"
    BY <2>1 DEF Inv, Kinds
  <2>. QED BY <1>0, <2>1, <2>2, OneSession
<1>5. CASE Call(s)
  <2>1. /\ step' = [step EXCEPT ![s] = step'[s]] /\ quote' = [quote EXCEPT ![s] = quote'[s]]
        /\ asked' = [asked EXCEPT ![s] = asked'[s]]
        /\ asked'[s] = asked[s] /\ UNCHANGED shared
        /\ step'[s] \in {"signing", "done"} /\ step[s] = "calling"
    <3>1. step' = [step EXCEPT ![s] = "signing"] \/ step' = [step EXCEPT ![s] = "done"]
      BY <1>5 DEF Call
    <3>. QED BY <1>0, <1>5, <3>1 DEF Call
  <2>2. given' = [given EXCEPT ![s] = given'[s]]
    <3>1. \E v : given' = [given EXCEPT ![s] = v]
      BY <1>5 DEF Call
    <3>. QED BY <1>0, <3>1
  <2>3. \A r \in asked[s] : r.on = "hook"
    BY <2>1 DEF Inv, Kinds
  <2>. QED BY <1>0, <2>1, <2>2, <2>3, OneSession
<1>6. CASE Sign(s)
  <2>1. /\ step' = [step EXCEPT ![s] = step'[s]] /\ quote' = [quote EXCEPT ![s] = quote'[s]]
        /\ asked' = [asked EXCEPT ![s] = asked'[s]]
        /\ asked'[s] = asked[s] /\ UNCHANGED shared
        /\ step'[s] = "done" /\ step[s] = "signing"
    BY <1>0, <1>6 DEF Sign
  <2>2. given' = [given EXCEPT ![s] = given'[s]]
    <3>1. \E v : given' = [given EXCEPT ![s] = v]
      BY <1>6 DEF Sign
    <3>. QED BY <1>0, <3>1
  <2>3. \A r \in asked[s] : r.on = "hook"
    BY <2>1 DEF Inv, Kinds
  <2>. QED BY <1>0, <2>1, <2>2, <2>3, OneSession
<1>7. CASE Fail(s)
  <2>1. /\ step' = [step EXCEPT ![s] = step'[s]] /\ quote' = [quote EXCEPT ![s] = quote'[s]]
        /\ given' = [given EXCEPT ![s] = given'[s]] /\ asked' = [asked EXCEPT ![s] = asked'[s]]
        /\ given'[s] = {} /\ asked'[s] = asked[s] /\ UNCHANGED shared
        /\ step'[s] = "failed"
    BY <1>0, <1>7 DEF Fail
  <2>. QED BY <1>0, <2>1, OneSession
<1>. QED BY <1>1, <1>2, <1>3, <1>4, <1>5, <1>6, <1>7

\* Time, another fee, and a sweep: what is kept of the cache was there before.
LEMMA Outside ==
  ASSUME Inv, UNCHANGED <<deposits, step, asked, quote, given>>, now' \in Nat, now' >= now,
         cache' = cache \/ cache' = Unexpired(cache)
  PROVE  Inv'
<1>1. cache' \in [Shapes -> SUBSET Entries] /\ \A k \in Shapes : cache'[k] \subseteq cache[k]
  BY DEF Inv, Typed, Unexpired
<1>2. Typed'
  BY <1>1 DEF Inv, Typed
<1>3. Alone' /\ Kinds' /\ Deadlines'
  BY DEF Inv, Alone, Kinds, Deadlines
<1>4. AllOwned'
  BY DEF Inv, AllOwned, Owned
<1>5. Awaited' /\ Apart'
  BY DEF Inv, Awaited, Apart
<1>6. CacheOK'
  <2>. SUFFICES ASSUME NEW k \in Shapes, NEW e \in cache'[k]
       PROVE  \E t \in Nat : AttestedAt(e.address, k, t)' /\ e.expires = t + CacheTtl /\ t <= now'
    BY DEF CacheOK
  <2>1. e \in cache[k]
    BY <1>1
  <2>. QED BY <2>1, EntryStays
<1>7. GivenOK'
  BY DEF Inv, GivenOK, ReceiverRequest, AttestedAt
<1>. QED BY <1>2, <1>3, <1>4, <1>5, <1>6, <1>7 DEF Inv

LEMMA Allocated == ASSUME Inv, NEW s \in Sessions, NEW v \in BOOLEAN, Allocate(s, v) PROVE Inv'
<1>0. /\ step = [o \in Sessions |-> step[o]] /\ quote = [o \in Sessions |-> quote[o]]
      /\ deposits \in Seq(Deposits) /\ asked \in [Sessions -> SUBSET Requests] /\ now \in Nat
  BY DEF Inv, Typed
<1>a. PICK r \in asked[s], q \in quote[s] : \E p \in RecipientOf(r) :
        deposits' = Append(deposits, Deposit(r.shape, p, q.deadline, v))
  BY DEF Allocate
<1>1. PICK p \in RecipientOf(r) :
        deposits' = Append(deposits, Deposit(r.shape, p, q.deadline, v))
  BY <1>a
<1> DEFINE d == Deposit(r.shape, p, q.deadline, v)
           n == Len(deposits) + 1
<1>2. r \in Requests /\ r.on = "receiver" /\ q.deadline \in Int /\ \A o \in asked[s] : o = r
  BY <1>0 DEF Allocate, Inv, Kinds, Deadlines, Alone
<1>3. d \in Deposits /\ d.shape = r.shape /\ d.pays = p /\ d.since = {}
  BY <1>1, <1>2, SessionsAssumption DEF Deposit, Deposits, Payees
<1>4. /\ deposits' = Append(deposits, d) /\ n \in Nat
      /\ deposits' \in Seq(Deposits) /\ Len(deposits') = n /\ deposits'[n] = d
      /\ \A m \in 1..Len(deposits) : m \in 1..Len(deposits') /\ deposits'[m] = deposits[m]
      /\ \A m \in 1..Len(deposits') : m = n \/ m \in 1..Len(deposits)
  <2>. HIDE DEF d
  <2>1. deposits' = Append(deposits, d)
    BY <1>1 DEF d
  <2>. QED BY <1>0, <1>3, <2>1
<1>. HIDE DEF d
<1>5. /\ step' = [step EXCEPT ![s] = "attesting"] /\ quote' = [quote EXCEPT ![s] = {[deposit |-> n]}]
      /\ UNCHANGED <<now, relay, cache, asked, given>>
  BY DEF Allocate, Go
<1>. HIDE DEF n
<1>6. /\ step'[s] = "attesting" /\ quote'[s] = {[deposit |-> n]}
      /\ \A o \in Sessions \ {s} : step'[o] = step[o] /\ quote'[o] = quote[o]
  BY <1>0, <1>5
<1>7. Typed'
  BY <1>4, <1>5 DEF Inv, Typed
<1>8. Alone' /\ Kinds' /\ Deadlines'
  BY <1>2, <1>5, <1>6 DEF Inv, Alone, Kinds, Deadlines
<1>9. AllOwned'
  <2>. SUFFICES ASSUME NEW m \in 1..Len(deposits') PROVE Owned(deposits[m])'
    BY DEF AllOwned
  <2>1. CASE m = n
    BY <1>1, <1>2, <1>3, <1>4, <1>5, <2>1 DEF Owned
  <2>2. CASE m \in 1..Len(deposits)
    BY <1>4, <1>5, <2>2 DEF Inv, AllOwned, Owned
  <2>. QED BY <1>4, <2>1, <2>2
<1>10. Awaited'
  <2>. SUFFICES ASSUME NEW o \in Sessions, step'[o] = "attesting", NEW w \in quote'[o]
       PROVE  /\ w.deposit \in 1..Len(deposits') /\ deposits'[w.deposit].since = {}
              /\ \A x \in asked'[o] : deposits'[w.deposit].shape = x.shape
    BY DEF Awaited
  <2>1. CASE o = s
    BY <1>0, <1>2, <1>3, <1>4, <1>5, <1>6, <2>1
  <2>2. CASE o # s
    <3>1. step[o] = "attesting" /\ w \in quote[o]
      BY <1>6, <2>2
    <3>2. w.deposit \in 1..Len(deposits)
      BY <3>1 DEF Inv, Awaited
    <3>. QED BY <1>4, <1>5, <3>1, <3>2 DEF Inv, Awaited
  <2>. QED BY <2>1, <2>2
<1>11. Apart'
  <2>1. \A o \in Sessions : o # s /\ step'[o] = "attesting" => \A w \in quote'[o] : w.deposit \in 1..Len(deposits)
    BY <1>6 DEF Inv, Awaited
  <2>2. n \notin 1..Len(deposits)
    BY <1>0 DEF n
  <2>3. \A o \in Sessions : o # s /\ step'[o] = "attesting" => \A w \in quote'[o] : w.deposit # n
    BY <2>1, <2>2
  <2>4. Apart
    BY DEF Inv
  <2>. QED BY <1>6, <2>3, <2>4 DEF Apart
<1>12. CacheOK'
  <2>. SUFFICES ASSUME NEW k \in Shapes, NEW e \in cache'[k]
       PROVE  \E t \in Nat : AttestedAt(e.address, k, t)' /\ e.expires = t + CacheTtl /\ t <= now'
    BY DEF CacheOK
  <2>1. e \in cache[k] /\ now' \in Nat /\ now' >= now
    BY <1>0, <1>5
  <2>. QED BY <1>3, <1>4, <2>1, EntryStays
<1>13. GivenOK'
  <2>. SUFFICES ASSUME NEW o \in Sessions
       PROVE  \A x \in ReceiverRequest(o)', g \in given'[o] :
                \E t \in Nat : AttestedAt(g.address, x.shape, t)' /\ t <= g.at /\ g.at < t + CacheTtl
    BY DEF GivenOK
  <2>1. asked'[o] = asked[o] /\ given'[o] = given[o]
    BY <1>5
  <2>. QED BY <1>3, <1>4, <2>1, GivenStays
<1>. QED BY <1>7, <1>8, <1>9, <1>10, <1>11, <1>12, <1>13 DEF Inv

\* An attested deposit goes into the cache with the time, and its session on.
LEMMA AttestedOne ==
  ASSUME Inv, NEW s \in Sessions, step[s] = "attesting", NEW r \in asked[s], NEW q \in quote[s],
         deposits[q.deposit].vouched, Cached(r.shape, q.deposit),
         deposits' = [deposits EXCEPT ![q.deposit].since = {now}], Go(s, "override"),
         UNCHANGED <<now, relay, asked, quote, given>>
  PROVE  Inv'
<1> DEFINE n == q.deposit
<1>1. /\ step = [o \in Sessions |-> step[o]] /\ deposits \in Seq(Deposits)
      /\ asked \in [Sessions -> SUBSET Requests] /\ now \in Nat
      /\ cache \in [Shapes -> SUBSET Entries]
  BY DEF Inv, Typed
<1>2. /\ n \in 1..Len(deposits) /\ deposits[n].since = {} /\ deposits[n].shape = r.shape
      /\ deposits[n].vouched /\ deposits[n] \in Deposits
  BY <1>1 DEF Inv, Awaited
<1>3. r.on = "receiver" /\ r.shape \in Shapes
  BY <1>1, SessionsAssumption DEF Inv, Kinds
<1>4. cache' = [cache EXCEPT ![r.shape] = {[address |-> n, expires |-> now + CacheTtl]}]
  BY DEF Cached
<1> DEFINE d == [deposits[n] EXCEPT !.since = {now}]
<1>a. deposits' = [deposits EXCEPT ![n].since = {now}] /\ deposits' = [deposits EXCEPT ![n] = d]
  OBVIOUS
<1>. HIDE DEF n
<1>b. /\ d \in Deposits /\ d.shape = r.shape /\ d.vouched /\ d.since = {now}
      /\ d.pays = deposits[n].pays
  BY <1>1, <1>2 DEF Deposits
<1>. HIDE DEF d
<1>6. /\ Len(deposits') = Len(deposits) /\ deposits' \in Seq(Deposits) /\ deposits'[n] = d
      /\ \A m \in 1..Len(deposits) : m # n => deposits'[m] = deposits[m]
  <2>1. deposits \in [1..Len(deposits) -> Deposits] /\ Len(deposits) \in Nat
    BY <1>1
  <2>2. /\ deposits' \in [1..Len(deposits) -> Deposits] /\ deposits'[n] = d
        /\ \A m \in 1..Len(deposits) : m # n => deposits'[m] = deposits[m]
    BY <1>2, <1>a, <1>b, <2>1
  <2>3. deposits' \in Seq(Deposits) /\ Len(deposits') = Len(deposits)
    BY <2>1, <2>2
  <2>. QED BY <2>2, <2>3
<1>5. \E m \in 1..Len(deposits) : deposits[m].since = {} /\ deposits' = [deposits EXCEPT ![m].since = {now}]
  BY <1>2, <1>a
<1>7. AttestedAt(n, r.shape, now)' /\ deposits'[n].shape = deposits[n].shape
      /\ deposits'[n].pays = deposits[n].pays
  BY <1>2, <1>6, <1>b DEF AttestedAt
<1>8. /\ step'[s] = "override"
      /\ \A o \in Sessions \ {s} : step'[o] = step[o]
      /\ step' = [o \in Sessions |-> step'[o]]
  BY <1>1 DEF Go
<1>9. Typed'
  <2>2. [address |-> n, expires |-> now + CacheTtl] \in Entries
    BY <1>1, <1>2, SessionsAssumption DEF Entries
  <2>3. cache' \in [Shapes -> SUBSET Entries]
    BY <1>1, <1>4, <2>2
  <2>. QED BY <1>6, <1>8, <2>3 DEF Inv, Typed
<1>10. Alone' /\ Kinds' /\ Deadlines'
  BY <1>3, <1>8 DEF Inv, Alone, Kinds, Deadlines
<1>11. AllOwned'
  <2>. SUFFICES ASSUME NEW m \in 1..Len(deposits) PROVE Owned(deposits[m])'
    BY <1>6 DEF AllOwned
  <2>1. deposits'[m].shape = deposits[m].shape /\ deposits'[m].pays = deposits[m].pays
    BY <1>6, <1>7
  <2>. QED BY <2>1 DEF Inv, AllOwned, Owned
<1>12. Awaited' /\ Apart'
  <2>1. \A o \in Sessions : step'[o] = "attesting" => o # s /\ step[o] = "attesting"
    BY <1>8
  <2>2. \A o \in Sessions : step'[o] = "attesting" => \A w \in quote[o] : w.deposit # n
    BY <2>1 DEF Inv, Apart, n
  <2>3. Awaited'
    <3>. SUFFICES ASSUME NEW o \in Sessions, step'[o] = "attesting", NEW w \in quote[o]
         PROVE  /\ w.deposit \in 1..Len(deposits') /\ deposits'[w.deposit].since = {}
                /\ \A x \in asked[o] : deposits'[w.deposit].shape = x.shape
      BY DEF Awaited
    <3>1. /\ w.deposit \in 1..Len(deposits) /\ deposits[w.deposit].since = {}
          /\ \A x \in asked[o] : deposits[w.deposit].shape = x.shape
      BY <2>1 DEF Inv, Awaited
    <3>. QED BY <1>6, <2>2, <3>1
  <2>4. Apart'
    BY <2>1 DEF Inv, Apart
  <2>. QED BY <2>3, <2>4
<1>13. CacheOK'
  <2>. SUFFICES ASSUME NEW k \in Shapes, NEW e \in cache'[k]
       PROVE  \E t \in Nat : AttestedAt(e.address, k, t)' /\ e.expires = t + CacheTtl /\ t <= now'
    BY DEF CacheOK
  <2>1. CASE k = r.shape
    <3>1. e = [address |-> n, expires |-> now + CacheTtl]
      BY <1>1, <1>4, <2>1
    <3>. QED BY <1>1, <1>7, <2>1, <3>1
  <2>2. CASE k # r.shape
    <3>1. e \in cache[k] /\ now' \in Nat /\ now' >= now
      BY <1>1, <1>4, <2>2
    <3>. QED BY <1>5, <3>1, EntryStays
  <2>. QED BY <2>1, <2>2
<1>14. GivenOK'
  <2>. SUFFICES ASSUME NEW o \in Sessions
       PROVE  \A x \in ReceiverRequest(o)', g \in given'[o] :
                \E t \in Nat : AttestedAt(g.address, x.shape, t)' /\ t <= g.at /\ g.at < t + CacheTtl
    BY DEF GivenOK
  <2>. QED BY <1>5, GivenStays
<1>. QED BY <1>9, <1>10, <1>11, <1>12, <1>13, <1>14 DEF Inv

LEMMA AttestKeeps == ASSUME Inv, NEW s \in Sessions, Attest(s) PROVE Inv'
<1>1. PICK r \in asked[s], q \in quote[s] :
        IF ~ deposits[q.deposit].vouched THEN Go(s, "failed") /\ UNCHANGED <<cache, deposits>>
        ELSE /\ Cached(r.shape, q.deposit)
             /\ deposits' = [deposits EXCEPT ![q.deposit].since = {now}]
             /\ Go(s, "override")
  BY DEF Attest
<1>2. step[s] = "attesting" /\ UNCHANGED <<now, relay, asked, quote, given>>
  BY DEF Attest
<1>3. CASE deposits[q.deposit].vouched
  BY <1>1, <1>2, <1>3, AttestedOne
<1>4. CASE ~ deposits[q.deposit].vouched
  <2>1. /\ step = [o \in Sessions |-> step[o]] /\ quote = [o \in Sessions |-> quote[o]]
        /\ given = [o \in Sessions |-> given[o]]
        /\ asked \in [Sessions -> SUBSET Requests] /\ \A x, o \in asked[s] : x = o
    BY DEF Inv, Typed, Alone
  <2>2. step' = [step EXCEPT ![s] = "failed"] /\ UNCHANGED shared
    BY <1>1, <1>2, <1>4 DEF Go, shared
  <2>3. step' = [step EXCEPT ![s] = step'[s]] /\ step'[s] = "failed"
    BY <2>1, <2>2
  <2>4. /\ quote' = [quote EXCEPT ![s] = quote'[s]] /\ given' = [given EXCEPT ![s] = given'[s]]
        /\ asked' = [asked EXCEPT ![s] = asked'[s]]
        /\ asked'[s] = asked[s] /\ given'[s] = given[s]
    BY <1>2, <2>1
  <2>. QED BY <2>1, <2>2, <2>3, <2>4, OneSession
<1>. QED BY <1>3, <1>4

LEMMA OverrideKeeps == ASSUME Inv, NEW s \in Sessions, Override(s) PROVE Inv'
<1>1. /\ step = [o \in Sessions |-> step[o]] /\ given = [o \in Sessions |-> given[o]]
      /\ asked \in [Sessions -> SUBSET Requests] /\ \A x, o \in asked[s] : x = o
      /\ cache \in [Shapes -> SUBSET Entries] /\ now \in Nat
  BY DEF Inv, Typed, Alone
<1>2. PICK r \in asked[s] :
        /\ given' = [given EXCEPT ![s] = {[address |-> e.address, at |-> now] : e \in cache'[r.shape]}]
        /\ Go(s, IF cache'[r.shape] = {} THEN "failed" ELSE "done")
  BY DEF Override
<1>3. /\ r \in Requests /\ r.on = "receiver" /\ r.shape \in Shapes /\ step[s] = "override"
      /\ \A o \in asked[s] : o = r
  BY <1>1, SessionsAssumption DEF Override, Inv, Kinds
<1>4. /\ cache' \in [Shapes -> SUBSET Entries]
      /\ \A k \in Shapes : \A e \in cache'[k] : e \in cache[k] /\ e.expires > now
      /\ UNCHANGED <<now, relay, deposits, asked, quote>>
  BY <1>1 DEF Override, Unexpired
<1>5. /\ step'[s] \in {"failed", "done"} /\ step' = [o \in Sessions |-> step'[o]]
      /\ \A o \in Sessions \ {s} : step'[o] = step[o]
  BY <1>1, <1>2 DEF Go
<1>6. /\ given'[s] = {[address |-> e.address, at |-> now] : e \in cache'[r.shape]}
      /\ given' = [o \in Sessions |-> given'[o]]
      /\ \A o \in Sessions \ {s} : given'[o] = given[o]
  BY <1>1, <1>2
<1>7. Typed'
  BY <1>4, <1>5, <1>6 DEF Inv, Typed
<1>8. Alone' /\ Kinds' /\ Deadlines'
  BY <1>3, <1>4, <1>5, <1>6 DEF Inv, Alone, Kinds, Deadlines
<1>9. AllOwned'
  BY <1>4 DEF Inv, AllOwned, Owned
<1>10. Awaited' /\ Apart'
  <2>1. \A o \in Sessions : step'[o] = "attesting" => step[o] = "attesting"
    BY <1>5
  <2>. QED BY <1>4, <2>1 DEF Inv, Awaited, Apart
<1>11. CacheOK'
  <2>. SUFFICES ASSUME NEW k \in Shapes, NEW e \in cache'[k]
       PROVE  \E t \in Nat : AttestedAt(e.address, k, t)' /\ e.expires = t + CacheTtl /\ t <= now'
    BY DEF CacheOK
  <2>1. e \in cache[k] /\ now' \in Nat /\ now' >= now
    BY <1>1, <1>4
  <2>. QED BY <1>4, <2>1, EntryStays
<1>12. GivenOK'
  <2>. SUFFICES ASSUME NEW o \in Sessions, NEW x \in ReceiverRequest(o)', NEW g \in given'[o]
       PROVE  \E t \in Nat : AttestedAt(g.address, x.shape, t)' /\ t <= g.at /\ g.at < t + CacheTtl
    BY DEF GivenOK
  <2>1. CASE o # s
    <3>1. given'[o] = given[o] /\ asked'[o] = asked[o]
      BY <1>4, <1>6, <2>1
    <3>. QED BY <1>4, <3>1, GivenStays
  <2>2. CASE o = s
    <3>1. PICK e \in cache'[r.shape] : g = [address |-> e.address, at |-> now]
      BY <1>6, <2>2
    <3>2. x.shape = r.shape /\ e \in cache[r.shape] /\ e.expires > now
      BY <1>3, <1>4, <2>2, <3>1 DEF ReceiverRequest
    <3>3. PICK t \in Nat : AttestedAt(e.address, r.shape, t) /\ e.expires = t + CacheTtl /\ t <= now
      BY <1>3, <3>2 DEF Inv, CacheOK
    <3>4. AttestedAt(g.address, x.shape, t)'
      BY <1>4, <3>1, <3>2, <3>3 DEF AttestedAt
    <3>. QED BY <1>1, <3>1, <3>2, <3>3, <3>4
  <2>. QED BY <2>1, <2>2
<1>. QED BY <1>7, <1>8, <1>9, <1>10, <1>11, <1>12 DEF Inv

LEMMA Invariance == Spec => []Inv
<1>1. Inv /\ [Next]_vars => Inv'
  <2>. SUFFICES ASSUME Inv, [Next]_vars PROVE Inv'
    OBVIOUS
  <2>0. now \in Nat
    BY DEF Inv, Typed
  <2>1. CASE Tick
    BY <2>0, <2>1, Outside DEF Tick
  <2>2. CASE Reprice
    BY <2>0, <2>2, Outside DEF Reprice
  <2>3. CASE Cleanup
    BY <2>0, <2>3, Outside DEF Cleanup
  <2>4. CASE UNCHANGED vars
    BY <2>0, <2>4, Outside DEF vars
  <2>5. ASSUME NEW s \in Sessions, NEW v \in BOOLEAN, Allocate(s, v) PROVE Inv'
    BY <2>5, Allocated
  <2>6. ASSUME NEW s \in Sessions, Attest(s) PROVE Inv'
    BY <2>6, AttestKeeps
  <2>7. ASSUME NEW s \in Sessions, Override(s) PROVE Inv'
    BY <2>7, OverrideKeeps
  <2>8. ASSUME NEW s \in Sessions,
               \/ \E r \in Requests : Ask(s, r)
               \/ EstimateGas(s) \/ Swap(s) \/ Price(s) \/ Call(s) \/ Sign(s) \/ Fail(s)
        PROVE  Inv'
    BY <2>8, Simple
  <2>. QED BY <2>1, <2>2, <2>3, <2>4, <2>5, <2>6, <2>7, <2>8 DEF Next
<1>. QED BY Initially, <1>1, PTL DEF Spec

\* However many sessions share the cache, an address that is handed out has a
\* signature of the attestor's accepted less than cache_ttl before.
THEOREM AlwaysFreshlyVouched == Spec => []FreshlyVouched
<1>1. Inv => FreshlyVouched
  <2>. SUFFICES ASSUME Inv, NEW s \in Sessions, NEW r \in ReceiverRequest(s), NEW g \in given[s]
       PROVE  LET d == deposits[g.address]
              IN  d.vouched /\ d.since # {} /\ \A t \in d.since : t <= g.at /\ g.at < t + CacheTtl
    BY DEF FreshlyVouched
  <2>1. PICK t \in Nat : AttestedAt(g.address, r.shape, t) /\ t <= g.at /\ g.at < t + CacheTtl
    BY DEF Inv, GivenOK
  <2>. QED BY <2>1 DEF AttestedAt
<1>. QED BY <1>1, Invariance, PTL

\* The address pays the session's own recipient, unless another session asks for
\* the same trade with another recipient.
THEOREM OwnDepositUnlessShared == Spec => []OwnDeposit
<1>1. Inv => OwnDeposit
  <2>. SUFFICES ASSUME Inv, NEW s \in Sessions, NEW r \in ReceiverRequest(s), NEW g \in given[s],
                       \A o \in Sessions : \A other \in ReceiverRequest(o) :
                         other.shape = r.shape => RecipientOf(other) = RecipientOf(r)
       PROVE  {deposits[g.address].pays} = RecipientOf(r) /\ deposits[g.address].shape = r.shape
    BY DEF OwnDeposit
  <2>1. PICK t \in Nat : AttestedAt(g.address, r.shape, t)
    BY DEF Inv, GivenOK
  <2>2. Owned(deposits[g.address]) /\ deposits[g.address].shape = r.shape
    BY <2>1 DEF Inv, AllOwned, AttestedAt
  <2>3. deposits[g.address].pays \in RecipientOf(r)
    BY <2>2 DEF Owned, ReceiverRequest
  <2>4. r \in Requests
    BY DEF Inv, Typed, ReceiverRequest
  <2>5. \A x, y \in RecipientOf(r) : x = y
    BY <2>4, SessionsAssumption DEF RecipientOf
  <2>. QED BY <2>2, <2>3, <2>5
<1>. QED BY <1>1, Invariance, PTL

-----------------------------------------------------------------------------
(* Hook bridges: what the quote promised and what the call asks for.         *)

\* The call a hook bridge makes at fee f.
CallAt(r, f, p, h) == [pays |-> p, output |-> Output(r, f), fee |-> f, hook |-> h]

\* What a session on a hook bridge holds was computed from a fee the bridge has
\* suggested: the quote from one that is a number, the call from any.
Computed(s) ==
  /\ asked[s] = {} => quote[s] = {}
  /\ \A r \in asked[s] : r.on = "hook" =>
       /\ \A q \in quote[s] :
            q.fee \in Relayed /\ \E pct \in q.fee : pct <= Full /\ q.buy = QuotedBuy(r, pct)
       /\ \A g \in given[s] : \E f \in Relayed : \E p, h : g = CallAt(r, f, p, h)

HookInv == relay \in Relayed /\ \A s \in Sessions : Computed(s)

\* A step of one session.
LEMMA HookOneSession ==
  ASSUME Inv, HookInv, NEW s \in Sessions, UNCHANGED relay, Computed(s)',
         asked' = [asked EXCEPT ![s] = asked'[s]],
         quote' = [quote EXCEPT ![s] = quote'[s]],
         given' = [given EXCEPT ![s] = given'[s]]
  PROVE  HookInv'
<1>1. ASSUME NEW o \in Sessions PROVE Computed(o)'
  <2>1. CASE o = s
    BY <2>1
  <2>2. CASE o # s
    <3>1. asked'[o] = asked[o] /\ quote'[o] = quote[o] /\ given'[o] = given[o]
      BY <2>2 DEF Inv, Typed
    <3>. QED BY <3>1 DEF HookInv, Computed
  <2>. QED BY <2>1, <2>2
<1>. QED BY <1>1 DEF HookInv

\* A step that leaves what the sessions hold alone.
LEMMA HookUntouched ==
  ASSUME HookInv, relay' \in Relayed, UNCHANGED <<asked, quote, given>>
  PROVE  HookInv'
<1>1. ASSUME NEW o \in Sessions PROVE Computed(o)'
  BY DEF HookInv, Computed
<1>. QED BY <1>1 DEF HookInv

\* Requests of the receiver-account bridge are none of the hook bridge.
LEMMA HookElsewhere ==
  ASSUME Inv, HookInv, NEW s \in Sessions, step[s] \in {"quoting", "attesting", "override"},
         UNCHANGED <<relay, asked>>,
         step[s] = "override" => UNCHANGED quote,
         quote' = [quote EXCEPT ![s] = quote'[s]],
         given' = [given EXCEPT ![s] = given'[s]],
         \E r \in asked[s] : TRUE
  PROVE  HookInv'
<1>1. \A r \in asked'[s] : r.on = "receiver"
  BY DEF Inv, Kinds
<1>2. Computed(s)'
  BY <1>1 DEF Computed
<1>3. asked' = [asked EXCEPT ![s] = asked'[s]]
  BY DEF Inv, Typed
<1>. QED BY <1>2, <1>3, HookOneSession

LEMMA HookNext == ASSUME Inv, HookInv, [Next]_vars PROVE HookInv'
<1>. USE DEF shared
<1>0. /\ quote = [o \in Sessions |-> quote[o]]
      /\ given = [o \in Sessions |-> given[o]]
      /\ asked = [o \in Sessions |-> asked[o]]
      /\ relay \in Relayed /\ \A s \in Sessions : Computed(s)
  BY DEF Inv, Typed, HookInv
<1>1. CASE Tick \/ Reprice \/ Cleanup \/ UNCHANGED vars
  <2>1. relay' \in Relayed /\ UNCHANGED <<asked, quote, given>>
    BY <1>0, <1>1 DEF Tick, Reprice, Cleanup, vars
  <2>. QED BY <2>1, HookUntouched
<1>2. ASSUME NEW s \in Sessions, NEW r \in Requests, Ask(s, r) PROVE HookInv'
  <2>1. asked[s] = {} /\ given[s] = {} /\ quote[s] = {}
    BY <1>0, <1>2 DEF Ask, Inv, Alone, Computed
  <2>2. UNCHANGED <<relay, quote, given>> /\ asked' = [asked EXCEPT ![s] = asked'[s]]
        /\ asked'[s] = {r}
    BY <1>0, <1>2 DEF Ask
  <2>3. Computed(s)'
    BY <2>1, <2>2 DEF Computed
  <2>4. quote' = [quote EXCEPT ![s] = quote'[s]] /\ given' = [given EXCEPT ![s] = given'[s]]
    BY <1>0, <2>2
  <2>. QED BY <2>2, <2>3, <2>4, HookOneSession
<1>3. ASSUME NEW s \in Sessions, EstimateGas(s) PROVE HookInv'
  <2>1. relay' \in Relayed /\ UNCHANGED <<asked, quote, given>>
    BY <1>0, <1>3 DEF EstimateGas
  <2>. QED BY <2>1, HookUntouched
<1>4. ASSUME NEW s \in Sessions, Swap(s) PROVE HookInv'
  <2>1. UNCHANGED <<relay, asked, given>>
    BY <1>4 DEF Swap
  <2>2. PICK r \in asked[s] :
          \/ UNCHANGED quote
          \/ r.on # "hook" /\ quote' = [quote EXCEPT ![s] = {[deadline |-> now + Validity]}]
    BY <1>4 DEF Swap
  <2>3. CASE UNCHANGED quote
    BY <1>0, <2>1, <2>3, HookUntouched
  <2>4. CASE r.on # "hook" /\ quote' = [quote EXCEPT ![s] = {[deadline |-> now + Validity]}]
    <3>1. \A o \in asked'[s] : o.on # "hook"
      BY <2>1, <2>2, <2>4 DEF Inv, Alone
    <3>2. asked'[s] # {}
      BY <2>1, <2>2
    <3>3. Computed(s)'
      BY <3>1, <3>2 DEF Computed
    <3>4. /\ quote' = [quote EXCEPT ![s] = quote'[s]] /\ given' = [given EXCEPT ![s] = given'[s]]
          /\ asked' = [asked EXCEPT ![s] = asked'[s]]
      BY <1>0, <2>1, <2>4
    <3>. QED BY <2>1, <3>3, <3>4, HookOneSession
  <2>. QED BY <2>2, <2>3, <2>4
<1>5. ASSUME NEW s \in Sessions, NEW v \in BOOLEAN, Allocate(s, v) PROVE HookInv'
  <2>1. step[s] = "quoting" /\ UNCHANGED <<relay, asked, given>> /\ \E r \in asked[s] : TRUE
    BY <1>5 DEF Allocate
  <2>2. quote' = [quote EXCEPT ![s] = {[deposit |-> Len(deposits) + 1]}]
    BY <1>5 DEF Allocate
  <2>3. quote' = [quote EXCEPT ![s] = quote'[s]] /\ given' = [given EXCEPT ![s] = given'[s]]
    BY <1>0, <2>1, <2>2
  <2>. QED BY <2>1, <2>3, HookElsewhere
<1>6. ASSUME NEW s \in Sessions, Attest(s) PROVE HookInv'
  <2>1. UNCHANGED <<relay, asked, quote, given>>
    BY <1>6 DEF Attest
  <2>. QED BY <1>0, <2>1, HookUntouched
<1>7. ASSUME NEW s \in Sessions, Override(s) PROVE HookInv'
  <2>1. step[s] = "override" /\ UNCHANGED <<relay, asked, quote>> /\ \E r \in asked[s] : TRUE
    BY <1>7 DEF Override
  <2>2. \E x : given' = [given EXCEPT ![s] = x]
    BY <1>7 DEF Override
  <2>3. quote' = [quote EXCEPT ![s] = quote'[s]] /\ given' = [given EXCEPT ![s] = given'[s]]
    BY <1>0, <2>1, <2>2
  <2>. QED BY <2>1, <2>3, HookElsewhere
<1>8. ASSUME NEW s \in Sessions, Price(s) PROVE HookInv'
  <2>1. UNCHANGED <<relay, asked, given>>
    BY <1>8 DEF Price
  <2>2. PICK r \in asked[s] :
          \/ UNCHANGED quote
          \/ /\ \E pct \in relay : pct <= Full
             /\ quote' = [quote EXCEPT ![s] = {[fee |-> relay, buy |-> QuotedBuy(r, pct)] : pct \in relay}]
    BY <1>8 DEF Price
  <2>3. CASE UNCHANGED quote
    BY <1>0, <2>1, <2>3, HookUntouched
  <2>4. CASE /\ \E pct \in relay : pct <= Full
             /\ quote' = [quote EXCEPT ![s] = {[fee |-> relay, buy |-> QuotedBuy(r, pct)] : pct \in relay}]
    <3>1. PICK pct \in relay : pct <= Full
      BY <2>4
    <3>2. \A x \in relay : x = pct
      BY <1>0, <3>1, SessionsAssumption
    <3>3. quote'[s] = {[fee |-> relay, buy |-> QuotedBuy(r, x)] : x \in relay}
      BY <1>0, <2>4
    <3>4. \A q \in quote'[s] : q.fee = relay /\ q.buy = QuotedBuy(r, pct)
      BY <3>2, <3>3
    <3>5. \A o \in asked'[s] : o = r
      BY <2>1, <2>2 DEF Inv, Alone
    <3>6. \A q \in quote'[s] :
            q.fee \in Relayed /\ \E x \in q.fee : x <= Full /\ q.buy = QuotedBuy(r, x)
      BY <1>0, <3>1, <3>4
    <3>7. Computed(s) /\ asked'[s] = asked[s] /\ given'[s] = given[s] /\ r \in asked[s]
      BY <1>0, <2>1, <2>2
    <3>8. Computed(s)'
      BY <3>5, <3>6, <3>7 DEF Computed
    <3>9. /\ quote' = [quote EXCEPT ![s] = quote'[s]] /\ given' = [given EXCEPT ![s] = given'[s]]
          /\ asked' = [asked EXCEPT ![s] = asked'[s]]
      BY <1>0, <2>1, <2>4, <3>3
    <3>. QED BY <2>1, <3>8, <3>9, HookOneSession
  <2>. QED BY <2>2, <2>3, <2>4
<1>9. ASSUME NEW s \in Sessions, Call(s) PROVE HookInv'
  <2>1. UNCHANGED <<relay, asked, quote>>
    BY <1>9 DEF Call
  <2>2. PICK r \in asked[s] : \E p : given' = [given EXCEPT ![s] = {CallAt(r, relay, p, "mock")}]
    BY <1>9 DEF Call, CallAt
  <2>3. PICK p : given' = [given EXCEPT ![s] = {CallAt(r, relay, p, "mock")}]
    BY <2>2
  <2>4. given'[s] = {CallAt(r, relay, p, "mock")}
    BY <1>0, <2>3
  <2>5. \A o \in asked'[s] : o = r
    BY <2>1, <2>2 DEF Inv, Alone
  <2>6. Computed(s) /\ asked'[s] = asked[s] /\ quote'[s] = quote[s]
    BY <1>0, <2>1
  <2>7. \A g \in given'[s] : \E f \in Relayed : \E x, h : g = CallAt(r, f, x, h)
    BY <1>0, <2>4
  <2>8. Computed(s)'
    BY <2>5, <2>6, <2>7 DEF Computed
  <2>9. /\ quote' = [quote EXCEPT ![s] = quote'[s]] /\ given' = [given EXCEPT ![s] = given'[s]]
        /\ asked' = [asked EXCEPT ![s] = asked'[s]]
    BY <1>0, <2>1, <2>3, <2>4
  <2>. QED BY <2>1, <2>8, <2>9, HookOneSession
<1>10. ASSUME NEW s \in Sessions, Sign(s) PROVE HookInv'
  <2>1. UNCHANGED <<relay, asked, quote>> /\ step[s] = "signing"
    BY <1>10 DEF Sign
  <2>2. given'[s] = {[g EXCEPT !.hook = "signed"] : g \in given[s]}
        /\ given' = [given EXCEPT ![s] = given'[s]]
    BY <1>0, <1>10 DEF Sign
  <2>3. Computed(s) /\ asked'[s] = asked[s] /\ quote'[s] = quote[s]
    BY <1>0, <2>1
  <2>4. ASSUME NEW r \in asked[s], r.on = "hook", NEW g \in given'[s]
        PROVE  \E f \in Relayed : \E p, h : g = CallAt(r, f, p, h)
    <3>1. PICK x \in given[s] : g = [x EXCEPT !.hook = "signed"]
      BY <2>2
    <3>2. \E f \in Relayed : \E p, h : x = CallAt(r, f, p, h)
      BY <2>3, <2>4 DEF Computed
    <3>3. PICK f, p, h : f \in Relayed /\ x = CallAt(r, f, p, h)
      BY <3>2
    <3>4. g = CallAt(r, f, p, "signed")
      BY <3>1, <3>3 DEF CallAt
    <3>. QED BY <3>3, <3>4
  <2>5. Computed(s)'
    BY <2>3, <2>4 DEF Computed
  <2>6. quote' = [quote EXCEPT ![s] = quote'[s]] /\ asked' = [asked EXCEPT ![s] = asked'[s]]
    BY <1>0, <2>1
  <2>. QED BY <2>1, <2>2, <2>5, <2>6, HookOneSession
<1>11. ASSUME NEW s \in Sessions, Fail(s) PROVE HookInv'
  <2>1. UNCHANGED <<relay, asked, quote>> /\ given' = [given EXCEPT ![s] = {}]
    BY <1>11 DEF Fail
  <2>2. given'[s] = {} /\ Computed(s) /\ asked'[s] = asked[s] /\ quote'[s] = quote[s]
    BY <1>0, <2>1
  <2>3. Computed(s)'
    BY <2>2 DEF Computed
  <2>4. /\ quote' = [quote EXCEPT ![s] = quote'[s]] /\ given' = [given EXCEPT ![s] = given'[s]]
        /\ asked' = [asked EXCEPT ![s] = asked'[s]]
    BY <1>0, <2>1, <2>2
  <2>. QED BY <2>1, <2>3, <2>4, HookOneSession
<1>. QED
  BY <1>1, <1>2, <1>3, <1>4, <1>5, <1>6, <1>7, <1>8, <1>9, <1>10, <1>11 DEF Next

\* What is left of an amount after a share of at most all of it.
LEMMA LessAfter ==
  ASSUME NEW x \in Nat
  PROVE  /\ \A pct \in Nat : pct <= Full => ApplyPctFee(x, pct) \in Nat
         /\ ApplyBps(x, Slippage) \in Nat /\ ApplyBps(x, Slippage) <= x
<1>1. ASSUME NEW pct \in Nat, pct <= Full PROVE ApplyPctFee(x, pct) \in Nat
  <2>1. Full \in Nat \ {0} /\ Full - pct \in Nat /\ Full - pct <= Full
    BY <1>1, SessionsAssumption
  <2>. QED BY <2>1, ShareBound DEF ApplyPctFee
<1>2. OneHundredBps \in Nat \ {0} /\ OneHundredBps - Slippage \in Nat
      /\ OneHundredBps - Slippage <= OneHundredBps
  BY SessionsAssumption
<1>3. ApplyBps(x, Slippage) \in Nat /\ ApplyBps(x, Slippage) <= x
  BY <1>2, ShareBound DEF ApplyBps
<1>. QED BY <1>1, <1>3

\* For any fees, slippage, amounts and order of events, the call a hook bridge
\* makes asks for no less than the quote promised, if the two requests for a fee
\* were answered alike and the tokens have the same decimals.
THEOREM HookCallKeepsQuote == Spec => []CallKeepsQuote
<1>1. Init => HookInv
  <2>. SUFFICES ASSUME Init PROVE HookInv
    OBVIOUS
  <2>1. \A s \in Sessions : asked[s] = {} /\ quote[s] = {} /\ given[s] = {}
    BY DEF Init
  <2>. QED BY <2>1 DEF HookInv, Computed, Init
<1>2. Inv /\ HookInv /\ [Next]_vars => HookInv'
  BY HookNext
<1>3. Inv /\ HookInv => CallKeepsQuote
  <2>. SUFFICES ASSUME Inv, HookInv, NEW s \in Sessions, NEW r \in asked[s], r.on = "hook",
                       NEW g \in given[s], NEW q \in quote[s], g.fee = q.fee, r.sellUnit = r.buyUnit
       PROVE  g.output >= q.buy
    BY DEF CallKeepsQuote
  <2>1. r \in Requests
    BY DEF Inv, Typed
  <2>2. \E f \in Relayed : \E p, h : g = CallAt(r, f, p, h)
    BY DEF HookInv, Computed
  <2>3. PICK f, p, h : f \in Relayed /\ g = CallAt(r, f, p, h)
    BY <2>2
  <2>4. g.output = Output(r, f) /\ g.fee = f
    BY <2>3 DEF CallAt
  <2>5. PICK pct \in q.fee : pct <= Full /\ q.buy = QuotedBuy(r, pct)
    BY DEF HookInv, Computed
  <2>6. pct \in f /\ pct \in Nat /\ \A x \in f : x = pct
    BY <2>3, <2>4, <2>5, SessionsAssumption
  <2>7. (CHOOSE x \in f : TRUE) = pct
    BY <2>6
  <2>8. Output(r, f) = ApplyPctFee(r.amount, pct)
    BY <2>5, <2>6, <2>7 DEF Output
  <2>9. r.amount \in Nat /\ r.buyUnit \in Nat \ {0}
    BY <2>1, SessionsAssumption
  <2>10. (r.amount * r.buyUnit) \div r.sellUnit = r.amount
    BY <2>9, QuotientOfProduct
  <2>11. q.buy = ApplyBps(ApplyPctFee(r.amount, pct), Slippage)
    BY <2>5, <2>10 DEF QuotedBuy
  <2>. QED BY <2>4, <2>5, <2>6, <2>8, <2>9, <2>11, LessAfter
<1>. QED BY <1>1, <1>2, <1>3, Invariance, PTL DEF Spec

-----------------------------------------------------------------------------
(* The types of BridgeSessions.                                              *)

\* No set the sessions keep holds two things, and a session has something to give just
\* when it is done or about to have it signed.
Unique(S) == \A x, y \in S : x = y

Single(s) ==
  /\ step[s] \in Waiting \cup {"idle", "override", "done", "failed"}
  /\ Unique(quote[s]) /\ Unique(given[s])
  /\ given[s] # {} <=> step[s] \in {"signing", "done"}

SingleInv ==
  /\ now <= MaxNow
  /\ \A k \in Shapes : Unique(cache[k])
  /\ \A s \in Sessions : Single(s)

\* A step that moves session s to st, with quote q and answer g.
LEMMA SingleOneSession ==
  ASSUME Inv, SingleInv, now' <= MaxNow, \A k \in Shapes : Unique(cache'[k]),
         NEW s \in Sessions, NEW st, NEW q, NEW g,
         step' = [step EXCEPT ![s] = st],
         quote' = [quote EXCEPT ![s] = q],
         given' = [given EXCEPT ![s] = g],
         st \in Waiting \cup {"idle", "override", "done", "failed"},
         Unique(q), Unique(g), g # {} <=> st \in {"signing", "done"}
  PROVE  SingleInv'
<1>1. ASSUME NEW o \in Sessions PROVE Single(o)'
  <2>1. CASE o = s
    <3>1. step'[o] = st /\ quote'[o] = q /\ given'[o] = g
      BY <2>1 DEF Inv, Typed
    <3>. QED BY <3>1 DEF Single
  <2>2. CASE o # s
    <3>1. step'[o] = step[o] /\ quote'[o] = quote[o] /\ given'[o] = given[o]
      BY <2>2 DEF Inv, Typed
    <3>2. Single(o)
      BY DEF SingleInv
    <3>. QED BY <3>1, <3>2 DEF Single
  <2>. QED BY <2>1, <2>2
<1>. QED BY <1>1 DEF SingleInv

\* A step that leaves the sessions alone.
LEMMA SingleUntouched ==
  ASSUME SingleInv, now' <= MaxNow, \A k \in Shapes : Unique(cache'[k]),
         UNCHANGED <<step, quote, given>>
  PROVE  SingleInv'
<1>1. ASSUME NEW o \in Sessions PROVE Single(o)'
  <2>1. Single(o)
    BY DEF SingleInv
  <2>. QED BY <2>1 DEF Single
<1>. QED BY <1>1 DEF SingleInv

LEMMA SingleNext == ASSUME Inv, HookInv, SingleInv, [Next]_vars PROVE SingleInv'
<1>. USE DEF shared, Go
<1>0. /\ quote = [o \in Sessions |-> quote[o]] /\ given = [o \in Sessions |-> given[o]]
      /\ cache \in [Shapes -> SUBSET Entries]
      /\ asked \in [Sessions -> SUBSET Requests] /\ \A s \in Sessions : Unique(asked[s])
      /\ now \in Nat /\ now <= MaxNow /\ MaxNow \in Nat
      /\ relay \in Relayed /\ Unique(relay)
      /\ \A k \in Shapes : Unique(cache[k])
      /\ \A s \in Sessions : Single(s)
  BY SessionsAssumption DEF Inv, Typed, Alone, HookInv, SingleInv, Unique
<1>1. CASE Tick \/ Reprice \/ UNCHANGED vars
  <2>1. now' <= MaxNow /\ UNCHANGED <<cache, step, quote, given>>
    BY <1>0, <1>1 DEF Tick, Reprice, vars
  <2>. QED BY <1>0, <2>1, SingleUntouched
<1>2. \A k \in Shapes : Unique(Unexpired(cache)[k])
  BY <1>0 DEF Unexpired, Unique
<1>3. CASE Cleanup
  BY <1>0, <1>2, <1>3, SingleUntouched DEF Cleanup
<1>4. ASSUME NEW s \in Sessions, step[s] \notin {"signing", "done"}, UNCHANGED <<now, given>>,
             \A k \in Shapes : Unique(cache'[k]),
             NEW st \in (Waiting \cup {"failed", "override"}) \ {"signing"}, step' = [step EXCEPT ![s] = st],
             NEW q, quote' = [quote EXCEPT ![s] = q], Unique(q)
      PROVE  SingleInv'
  <2>1. given[s] = {}
    BY <1>0, <1>4 DEF Single
  <2>2. given' = [given EXCEPT ![s] = {}]
    BY <1>0, <1>4, <2>1
  <2>3. st \notin {"signing", "done"} /\ st \in Waiting \cup {"idle", "override", "done", "failed"}
    BY <1>4 DEF Waiting
  <2>4. Unique({})
    BY DEF Unique
  <2>. QED BY <1>0, <1>4, <2>2, <2>3, <2>4, SingleOneSession
<1>5. \A s \in Sessions : quote = [quote EXCEPT ![s] = quote[s]] /\ Unique(quote[s])
  BY <1>0 DEF Single
<1>6. ASSUME NEW s \in Sessions, NEW r \in Requests, Ask(s, r) PROVE SingleInv'
  <2>1. PICK st \in {"failed", "gas", "swap"} : step' = [step EXCEPT ![s] = st]
    BY <1>6 DEF Ask
  <2>2. step[s] = "idle" /\ UNCHANGED <<now, cache, quote, given>>
    BY <1>6 DEF Ask
  <2>3. st \in (Waiting \cup {"failed", "override"}) \ {"signing"}
    BY <2>1 DEF Waiting
  <2>. QED BY <1>0, <1>4, <1>5, <2>1, <2>2, <2>3
<1>7. ASSUME NEW s \in Sessions, EstimateGas(s) PROVE SingleInv'
  <2>1. step[s] = "gas" /\ step' = [step EXCEPT ![s] = "swap"] /\ UNCHANGED <<now, cache, quote, given>>
    BY <1>7 DEF EstimateGas
  <2>2. "swap" \in (Waiting \cup {"failed", "override"}) \ {"signing"}
    BY DEF Waiting
  <2>. QED BY <1>0, <1>4, <1>5, <2>1, <2>2
<1>8. ASSUME NEW s \in Sessions, Swap(s) PROVE SingleInv'
  <2>1. \E st \in {"failed", "pricing", "quoting"} :
          /\ step' = [step EXCEPT ![s] = st]
          /\ UNCHANGED quote \/ quote' = [quote EXCEPT ![s] = {[deadline |-> now + Validity]}]
    BY <1>8 DEF Swap
  <2>2. PICK st \in {"failed", "pricing", "quoting"} :
          /\ step' = [step EXCEPT ![s] = st]
          /\ UNCHANGED quote \/ quote' = [quote EXCEPT ![s] = {[deadline |-> now + Validity]}]
    BY <2>1
  <2>3. step[s] = "swap" /\ UNCHANGED <<now, cache, given>>
    BY <1>8 DEF Swap
  <2>4. st \in (Waiting \cup {"failed", "override"}) \ {"signing"}
    BY <2>2 DEF Waiting
  <2>5. Unique({[deadline |-> now + Validity]})
    BY DEF Unique
  <2>. QED BY <1>0, <1>4, <1>5, <2>2, <2>3, <2>4, <2>5
<1>9. ASSUME NEW s \in Sessions, NEW v \in BOOLEAN, Allocate(s, v) PROVE SingleInv'
  <2>1. /\ step[s] = "quoting" /\ step' = [step EXCEPT ![s] = "attesting"]
        /\ quote' = [quote EXCEPT ![s] = {[deposit |-> Len(deposits) + 1]}]
        /\ UNCHANGED <<now, cache, given>>
    BY <1>9 DEF Allocate
  <2>2. Unique({[deposit |-> Len(deposits) + 1]})
    BY DEF Unique
  <2>3. "attesting" \in (Waiting \cup {"failed", "override"}) \ {"signing"}
    BY DEF Waiting
  <2>. QED BY <1>0, <1>4, <2>1, <2>2, <2>3
<1>10. ASSUME NEW s \in Sessions, Attest(s) PROVE SingleInv'
  <2>1. step[s] = "attesting" /\ UNCHANGED <<now, quote, given>>
    BY <1>10 DEF Attest
  <2>2. \E st \in {"failed", "override"} : step' = [step EXCEPT ![s] = st]
    BY <1>10 DEF Attest
  <2>3. PICK st \in {"failed", "override"} : step' = [step EXCEPT ![s] = st]
    BY <2>2
  <2>4. UNCHANGED cache \/ \E k, e : cache' = [cache EXCEPT ![k] = {e}]
    BY <1>10 DEF Attest, Cached
  <2>5. \A k \in Shapes : Unique(cache'[k])
    BY <1>0, <2>4 DEF Unique
  <2>6. st \in (Waiting \cup {"failed", "override"}) \ {"signing"}
    BY <2>3
  <2>. QED BY <1>4, <1>5, <2>1, <2>3, <2>5, <2>6
<1>11. ASSUME NEW s \in Sessions, Override(s) PROVE SingleInv'
  <2>1. cache' = Unexpired(cache) /\ UNCHANGED <<now, quote, asked>>
    BY <1>11 DEF Override
  <2>2. PICK r \in asked[s] :
          /\ given' = [given EXCEPT ![s] = {[address |-> e.address, at |-> now] : e \in cache'[r.shape]}]
          /\ Go(s, IF cache'[r.shape] = {} THEN "failed" ELSE "done")
    BY <1>11 DEF Override
  <2>3. r.shape \in Shapes
    BY <1>0, SessionsAssumption
  <2>4. Unique(cache'[r.shape])
    BY <1>2, <2>1, <2>3
  <2> DEFINE g == {[address |-> e.address, at |-> now] : e \in cache'[r.shape]}
             st == IF cache'[r.shape] = {} THEN "failed" ELSE "done"
  <2>5. Unique(g) /\ (g # {} <=> st \in {"signing", "done"})
        /\ st \in Waiting \cup {"idle", "override", "done", "failed"}
    BY <2>4 DEF Unique
  <2>6. given' = [given EXCEPT ![s] = g] /\ step' = [step EXCEPT ![s] = st]
        /\ quote' = [quote EXCEPT ![s] = quote[s]]
    BY <1>5, <2>1, <2>2
  <2> HIDE DEF g, st
  <2>. QED BY <1>0, <1>2, <1>5, <2>1, <2>5, <2>6, SingleOneSession
<1>12. ASSUME NEW s \in Sessions, Price(s) PROVE SingleInv'
  <2>1. step[s] = "pricing" /\ UNCHANGED <<now, cache, given>>
    BY <1>12 DEF Price
  <2>2. \E st \in {"failed", "calling"} : \E r \in asked[s] :
          /\ step' = [step EXCEPT ![s] = st]
          /\ \/ UNCHANGED quote
             \/ quote' = [quote EXCEPT ![s] = {[fee |-> relay, buy |-> QuotedBuy(r, pct)] : pct \in relay}]
    BY <1>12 DEF Price
  <2>3. PICK st \in {"failed", "calling"}, r \in asked[s] :
          /\ step' = [step EXCEPT ![s] = st]
          /\ \/ UNCHANGED quote
             \/ quote' = [quote EXCEPT ![s] = {[fee |-> relay, buy |-> QuotedBuy(r, pct)] : pct \in relay}]
    BY <2>2
  <2>4. Unique({[fee |-> relay, buy |-> QuotedBuy(r, pct)] : pct \in relay})
    BY <1>0 DEF Unique
  <2>5. st \in (Waiting \cup {"failed", "override"}) \ {"signing"}
    BY <2>3 DEF Waiting
  <2>. QED BY <1>0, <1>4, <1>5, <2>1, <2>3, <2>4, <2>5
<1>13. ASSUME NEW s \in Sessions, Call(s) PROVE SingleInv'
  <2>1. UNCHANGED <<now, cache, quote>>
    BY <1>13 DEF Call
  <2>2. \E st \in {"signing", "done"} : \E x :
          step' = [step EXCEPT ![s] = st] /\ given' = [given EXCEPT ![s] = {x}]
    BY <1>13 DEF Call
  <2>3. PICK st, x : st \in {"signing", "done"} /\ step' = [step EXCEPT ![s] = st]
                     /\ given' = [given EXCEPT ![s] = {x}]
    BY <2>2
  <2>4. Unique({x}) /\ {x} # {} /\ st \in Waiting \cup {"idle", "override", "done", "failed"}
    BY <2>3 DEF Unique, Waiting
  <2>. QED BY <1>0, <1>5, <2>1, <2>3, <2>4, SingleOneSession
<1>14. ASSUME NEW s \in Sessions, Sign(s) PROVE SingleInv'
  <2>1. step[s] = "signing" /\ UNCHANGED <<now, cache, quote>> /\ step' = [step EXCEPT ![s] = "done"]
    BY <1>14 DEF Sign
  <2> DEFINE g == {[x EXCEPT !.hook = "signed"] : x \in given[s]}
  <2>2. given' = [given EXCEPT ![s] = g]
    BY <1>14 DEF Sign
  <2>3. Unique(given[s]) /\ given[s] # {}
    BY <1>0, <2>1 DEF Single
  <2>4. Unique(g) /\ g # {}
    BY <2>3 DEF Unique
  <2> HIDE DEF g
  <2>. QED BY <1>0, <1>5, <2>1, <2>2, <2>4, SingleOneSession
<1>15. ASSUME NEW s \in Sessions, Fail(s) PROVE SingleInv'
  <2>1. /\ UNCHANGED <<now, cache, quote>> /\ step' = [step EXCEPT ![s] = "failed"]
        /\ given' = [given EXCEPT ![s] = {}]
    BY <1>15 DEF Fail
  <2>2. Unique({})
    BY DEF Unique
  <2>. QED BY <1>0, <1>5, <2>1, <2>2, SingleOneSession
<1>. QED
  BY <1>1, <1>3, <1>6, <1>7, <1>8, <1>9, <1>10, <1>11, <1>12, <1>13, <1>14, <1>15 DEF Next

LEMMA UniqueCounts ==
  ASSUME NEW S, Unique(S)
  PROVE  Cardinality(S) <= 1 /\ (S # {} => Cardinality(S) = 1)
<1>1. CASE S = {}
  BY <1>1, FS_EmptySet
<1>2. CASE S # {}
  <2>1. PICK x : S = {x}
    BY <1>2 DEF Unique
  <2>2. Cardinality({x}) = 1
    BY FS_Singleton, Zenon
  <2>3. Cardinality(S) = 1
    BY <2>1, <2>2
  <2>. QED BY <2>3
<1>. QED BY <1>1, <1>2

\* The clock, the cache and what each session keeps have their types: one entry under a
\* key, for a deposit there is, one quote, and one answer once a session is done.
THEOREM SessionsTypeCorrect == Spec => []SessionsTypeOK
<1>1. Init => HookInv /\ SingleInv
  <2>. SUFFICES ASSUME Init PROVE HookInv /\ SingleInv
    OBVIOUS
  <2>1. \A s \in Sessions : /\ asked[s] = {} /\ quote[s] = {} /\ given[s] = {} /\ step[s] = "idle"
    BY DEF Init
  <2>2. now = 0 /\ (\A k \in Shapes : cache[k] = {}) /\ relay \in Relayed
    BY DEF Init
  <2>. QED BY <2>1, <2>2, SessionsAssumption DEF HookInv, Computed, SingleInv, Single, Unique
<1>2. Inv /\ HookInv /\ SingleInv /\ [Next]_vars => HookInv' /\ SingleInv'
  BY HookNext, SingleNext
<1>3. Inv /\ HookInv /\ SingleInv => SessionsTypeOK
  <2>. SUFFICES ASSUME Inv, HookInv, SingleInv PROVE SessionsTypeOK
    OBVIOUS
  <2>1. now \in 0..MaxNow /\ relay \in Relayed
    BY SessionsAssumption DEF Inv, Typed, HookInv, SingleInv
  <2>2. \A k \in Shapes : Cardinality(cache[k]) <= 1
    BY UniqueCounts DEF SingleInv
  <2>3. \A k \in Shapes : \A e \in cache[k] : e.address \in DOMAIN deposits
    BY DEF Inv, Typed, CacheOK, AttestedAt
  <2>4. step \in [Sessions -> Waiting \cup {"idle", "override", "done", "failed"}]
    BY DEF Inv, Typed, SingleInv, Single
  <2>5. asked \in [Sessions -> {{}} \cup {{r} : r \in Requests}]
    <3>1. ASSUME NEW s \in Sessions PROVE asked[s] \in {{}} \cup {{r} : r \in Requests}
      <4>1. CASE asked[s] = {}
        BY <4>1
      <4>2. CASE asked[s] # {}
        <5>1. PICK r \in asked[s] : TRUE
          BY <4>2
        <5>2. asked[s] = {r} /\ r \in Requests
          BY <5>1 DEF Inv, Typed, Alone
        <5>. QED BY <5>2
      <4>. QED BY <4>1, <4>2
    <3>. QED BY <3>1 DEF Inv, Typed
  <2>6. ASSUME NEW s \in Sessions
        PROVE  /\ Cardinality(quote[s]) <= 1
               /\ given[s] # {} => step[s] \in {"signing", "done"}
               /\ step[s] = "done" => Cardinality(given[s]) = 1
    <3>1. Single(s)
      BY DEF SingleInv
    <3>2. Cardinality(quote[s]) <= 1 /\ (given[s] # {} => Cardinality(given[s]) = 1)
      BY <3>1, UniqueCounts DEF Single
    <3>. QED BY <3>1, <3>2 DEF Single
  <2>. QED BY <2>1, <2>2, <2>3, <2>4, <2>5, <2>6 DEF SessionsTypeOK
<1>. QED BY <1>1, <1>2, <1>3, Invariance, PTL DEF Spec
-----------------------------------------------------------------------------
(* Quotes of several providers.                                              *)

\* The answers a call may have.
AnswersTyped == answers \in [Calls -> [1..Providers -> Replies \cup {Pending}]]

LEMMA ReplyKinds ==
  ASSUME NEW r \in Replies \cup {Pending}
  PROVE  /\ r.is \in {"pending", "error", "quote"}
         /\ r.is = "pending" <=> r = Pending
         /\ r.is = "error" <=> r = Failed
         /\ r.is = "quote" => r.buy \in Nat /\ r.fee \in Nat /\ NetBuyAmount(r) \in Nat
<1>1. CASE r = Pending
  BY <1>1 DEF Pending, Failed
<1>2. CASE r = Failed
  BY <1>2 DEF Pending, Failed
<1>3. CASE \E b \in Buys, f \in Fees : r = Quote(b, f)
  <2>1. PICK b \in Buys, f \in Fees : r = Quote(b, f)
    BY <1>3
  <2>2. b \in Nat /\ f \in Nat /\ r.is = "quote" /\ r.buy = b /\ r.fee = f
    BY <2>1, BridgeAssumption DEF Quote
  <2> QED
    BY <2>2 DEF NetBuyAmount, Pending, Failed
<1> QED
  BY <1>1, <1>2, <1>3 DEF Replies

\* Of the quotes there are, one is the last of the greatest.
LEMMA BestExists ==
  ASSUME AnswersTyped, NEW c \in Calls, QuotesOf(c) # {}
  PROVE  /\ BestOf(c) \in QuotesOf(c)
         /\ \A o \in QuotesOf(c) : NetBuyAmount(answers[c][o]) <= NetBuyAmount(answers[c][BestOf(c)])
<1> DEFINE Q == QuotesOf(c)
           net(p) == NetBuyAmount(answers[c][p])
           Best(S, p) == p \in S /\ \A o \in S : net(o) <= net(p) /\ (net(o) = net(p) => o <= p)
           T == {k \in Nat : Q \cap 1..k # {} => \E p : Best(Q \cap 1..k, p)}
<1>1. Q \subseteq 1..Providers /\ Providers \in Nat
  BY BridgeAssumption DEF QuotesOf, Answered, Asked
<1>2. \A p \in Q : net(p) \in Nat
  <2> SUFFICES ASSUME NEW p \in Q PROVE net(p) \in Nat
    OBVIOUS
  <2>1. answers[c][p] \in Replies \cup {Pending} /\ answers[c][p].is = "quote"
    BY <1>1 DEF AnswersTyped, QuotesOf
  <2> QED
    BY <2>1, ReplyKinds
<1> HIDE DEF Q, net
<1>3. 0 \in T
  BY <1>1
<1>4. ASSUME NEW k \in Nat, k \in T PROVE k + 1 \in T
  <2> SUFFICES ASSUME Q \cap 1..(k + 1) # {} PROVE \E p : Best(Q \cap 1..(k + 1), p)
    OBVIOUS
  <2>1. CASE k + 1 \notin Q
    <3>1. Q \cap 1..(k + 1) = Q \cap 1..k
      BY <1>1, <2>1
    <3> QED
      BY <1>4, <3>1
  <2>2. CASE k + 1 \in Q /\ Q \cap 1..k = {}
    <3>1. Q \cap 1..(k + 1) = {k + 1}
      BY <1>1, <2>2
    <3>2. Best({k + 1}, k + 1)
      BY <1>2, <2>2
    <3> QED
      BY <3>1, <3>2
  <2>3. CASE k + 1 \in Q /\ Q \cap 1..k # {}
    <3>1. PICK p : Best(Q \cap 1..k, p)
      BY <1>4, <2>3
    <3>2. Q \cap 1..(k + 1) = (Q \cap 1..k) \cup {k + 1}
      BY <1>1, <2>3
    <3>3. net(p) \in Nat /\ net(k + 1) \in Nat /\ p \in Nat /\ p < k + 1
      BY <1>1, <1>2, <2>3, <3>1
    <3>4. CASE net(p) <= net(k + 1)
      <4>1. Best(Q \cap 1..(k + 1), k + 1)
        <5> SUFFICES ASSUME NEW o \in Q \cap 1..(k + 1)
                     PROVE  net(o) <= net(k + 1) /\ (net(o) = net(k + 1) => o <= k + 1)
          BY <2>3, <3>2
        <5>1. net(o) \in Nat /\ o \in Nat /\ o <= k + 1
          BY <1>1, <1>2
        <5>2. o # k + 1 => net(o) <= net(p)
          BY <3>1, <3>2
        <5> QED
          BY <3>3, <3>4, <5>1, <5>2
      <4> QED
        BY <4>1
    <3>5. CASE net(k + 1) < net(p)
      <4>1. Best(Q \cap 1..(k + 1), p)
        <5> SUFFICES ASSUME NEW o \in Q \cap 1..(k + 1)
                     PROVE  net(o) <= net(p) /\ (net(o) = net(p) => o <= p)
          BY <3>1, <3>2
        <5>1. o # k + 1 => net(o) <= net(p) /\ (net(o) = net(p) => o <= p)
          BY <3>1, <3>2
        <5> QED
          BY <3>3, <3>5, <5>1
      <4> QED
        BY <4>1
    <3> QED
      BY <3>3, <3>4, <3>5
  <2> QED
    BY <2>1, <2>2, <2>3
<1> HIDE DEF T
<1>5. Providers \in T
  BY <1>1, <1>3, <1>4, Induction
<1>6. \E p : Best(Q, p)
  <2>1. Q \cap 1..Providers = Q
    BY <1>1
  <2> QED
    BY <1>5, <2>1 DEF T, Q
<1>7. \E p \in Q : \A o \in Q : net(o) <= net(p) /\ (net(o) = net(p) => o <= p)
  BY <1>6
<1>8. BestOf(c) = CHOOSE p \in Q : \A o \in Q : net(o) <= net(p) /\ (net(o) = net(p) => o <= p)
  BY Zenon DEF BestOf, Q, net
<1>9. /\ BestOf(c) \in Q
      /\ \A o \in Q : net(o) <= net(BestOf(c)) /\ (net(o) = net(BestOf(c)) => o <= BestOf(c))
  BY <1>7, <1>8, Zenon
<1> QED
  BY <1>9 DEF Q, net
-----------------------------------------------------------------------------
(* The places of a multi-quote's entries.                                    *)

\* The entries of every provider, each with an answer.
Filled(e) == \A p \in 1..Providers : e[p].provider = p /\ Amount(e[p]) \in Nat

PlaceOf(e, p) == Cardinality({o \in 1..Providers : Before(e, o, p)}) + 1

\* An entry that goes before another has a smaller place.
LEMMA PlacesGrow ==
  ASSUME NEW e, Filled(e), NEW p \in 1..Providers, NEW o \in 1..Providers, Before(e, o, p)
  PROVE  PlaceOf(e, o) < PlaceOf(e, p)
<1> DEFINE P == {x \in 1..Providers : Before(e, x, p)}
           O == {x \in 1..Providers : Before(e, x, o)}
<1>1. IsFiniteSet(P) /\ IsFiniteSet(O) /\ Cardinality(P) \in Nat /\ Cardinality(O) \in Nat
  <2>1. IsFiniteSet(1..Providers)
    BY BridgeAssumption, FS_Interval
  <2>2. P \in SUBSET (1..Providers) /\ O \in SUBSET (1..Providers)
    OBVIOUS
  <2>3. IsFiniteSet(P) /\ IsFiniteSet(O)
    BY <2>1, <2>2, FS_Subset
  <2> QED
    BY <2>3, FS_CardinalityType
<1>2. \A x \in 1..Providers : Before(e, x, o) => Before(e, x, p)
  BY BridgeAssumption DEF Before, Filled
<1>3. ~ Before(e, o, o)
  BY BridgeAssumption DEF Before, Filled
<1>4. O \in SUBSET P /\ o \in P /\ o \notin O
  BY <1>2, <1>3
<1> HIDE DEF P, O
<1>5. Cardinality(O) <= Cardinality(P) /\ (Cardinality(P) = Cardinality(O) => P = O)
  BY <1>1, <1>4, FS_Subset
<1>6. Cardinality(O) < Cardinality(P)
  BY <1>1, <1>4, <1>5
<1> QED
  BY <1>1, <1>6 DEF PlaceOf, P, O

\* Every place is taken by exactly one provider.
LEMMA PlacesTaken ==
  ASSUME NEW e, Filled(e)
  PROVE  /\ \A p, o \in 1..Providers : p # o => PlaceOf(e, p) # PlaceOf(e, o)
         /\ \A p \in 1..Providers : PlaceOf(e, p) \in 1..Providers
         /\ \A i \in 1..Providers : \E p \in 1..Providers : PlaceOf(e, p) = i
<1>0. Providers \in Nat /\ IsFiniteSet(1..Providers) /\ Cardinality(1..Providers) = Providers
  BY BridgeAssumption, FS_Interval
<1>1. ASSUME NEW p \in 1..Providers PROVE PlaceOf(e, p) \in 1..Providers
  <2> DEFINE P == {x \in 1..Providers : Before(e, x, p)}
             R == (1..Providers) \ {p}
  <2>1. IsFiniteSet(R) /\ Cardinality(R) = Providers - 1
    BY <1>0, FS_RemoveElement
  <2>2. P \in SUBSET R
    BY <1>0 DEF Before, Filled
  <2> HIDE DEF P, R
  <2>3. IsFiniteSet(P) /\ Cardinality(P) <= Providers - 1
    BY <2>1, <2>2, FS_Subset
  <2>4. Cardinality(P) \in Nat
    BY <2>3, FS_CardinalityType
  <2>5. Cardinality(P) + 1 \in 1..Providers
    BY <1>0, <2>3, <2>4
  <2> QED
    BY <2>5 DEF PlaceOf, P
<1>2. ASSUME NEW p \in 1..Providers, NEW o \in 1..Providers, p # o
      PROVE  PlaceOf(e, p) # PlaceOf(e, o)
  <2>1. Before(e, p, o) \/ Before(e, o, p)
    BY <1>0, <1>2 DEF Before, Filled
  <2>2. PlaceOf(e, p) \in Int /\ PlaceOf(e, o) \in Int
    BY <1>1
  <2>3. PlaceOf(e, p) < PlaceOf(e, o) \/ PlaceOf(e, o) < PlaceOf(e, p)
    BY <2>1, PlacesGrow
  <2> QED
    BY <2>2, <2>3
<1>3. ASSUME NEW i \in 1..Providers PROVE \E p \in 1..Providers : PlaceOf(e, p) = i
  <2> DEFINE place == [p \in 1..Providers |-> PlaceOf(e, p)]
  <2>1. place \in Injection(1..Providers, 1..Providers)
    BY <1>1, <1>2 DEF Injection, IsInjective
  <2> HIDE DEF place
  <2>2. place \in Surjection(1..Providers, 1..Providers)
    BY <1>0, <2>1, FS_Injection
  <2>3. \E p \in 1..Providers : place[p] = i
    BY <2>2 DEF Surjection
  <2> QED
    BY <2>3 DEF place
<1> QED
  BY <1>1, <1>2, <1>3

\* What a multi-quote returns.
Ordered(r) ==
  /\ Len(r) = Providers /\ DOMAIN r = 1..Providers
  /\ {r[i].provider : i \in DOMAIN r} = 1..Providers
  /\ \A i, j \in DOMAIN r : i < j =>
       \/ Amount(r[i]) > Amount(r[j])
       \/ Amount(r[i]) = Amount(r[j]) /\ r[i].provider < r[j].provider

\* Its entries are those that were sorted.
Drawn(r, e) ==
  \A i \in DOMAIN r : r[i].provider \in 1..Providers /\ r[i] = e[r[i].provider]

LEMMA SortedIsOrdered ==
  ASSUME NEW e, Filled(e)
  PROVE  Ordered(Sorted(e)) /\ Drawn(Sorted(e), e)
<1> DEFINE place == [p \in 1..Providers |-> PlaceOf(e, p)]
           at == [i \in 1..Providers |-> CHOOSE p \in 1..Providers : place[p] = i]
           r == Sorted(e)
<1>0. Providers \in Nat
  BY BridgeAssumption
<1>1. r = [i \in 1..Providers |-> e[CHOOSE p \in 1..Providers : place[p] = i]]
  BY Zenon DEF Sorted, PlaceOf
<1>2. \A p \in 1..Providers : place[p] = PlaceOf(e, p)
  OBVIOUS
<1> HIDE DEF place
<1>3. \A i \in 1..Providers : at[i] \in 1..Providers /\ place[at[i]] = i
  <2> SUFFICES ASSUME NEW i \in 1..Providers PROVE at[i] \in 1..Providers /\ place[at[i]] = i
    OBVIOUS
  <2>1. \E p \in 1..Providers : place[p] = i
    BY <1>2, PlacesTaken
  <2>2. at[i] = CHOOSE p \in 1..Providers : place[p] = i
    OBVIOUS
  <2> HIDE DEF at
  <2> QED
    BY <2>1, <2>2, Zenon
<1>4. \A i \in 1..Providers : r[i] = e[at[i]]
  BY <1>1
<1>5. DOMAIN r = 1..Providers /\ Len(r) = Providers
  <2> DEFINE S == {r[i] : i \in 1..Providers}
  <2>1. r \in [1..Providers -> S]
    BY <1>1
  <2> QED
    BY <1>0, <2>1, FunctionIsSeq
<1> HIDE DEF at, r
<1>6. {r[i].provider : i \in DOMAIN r} = 1..Providers
  <2>1. \A i \in 1..Providers : r[i].provider = at[i]
    BY <1>3, <1>4 DEF Filled
  <2>2. ASSUME NEW p \in 1..Providers PROVE \E i \in 1..Providers : p = at[i]
    <3>1. place[p] \in 1..Providers /\ at[place[p]] \in 1..Providers
          /\ place[at[place[p]]] = place[p]
      BY <1>2, <1>3, PlacesTaken
    <3>2. p = at[place[p]]
      BY <1>2, <3>1, PlacesTaken
    <3> QED
      BY <3>1, <3>2
  <2>3. \A i \in 1..Providers : r[i].provider \in 1..Providers
    BY <1>3, <2>1
  <2>4. \A p \in 1..Providers : \E i \in 1..Providers : p = r[i].provider
    BY <2>1, <2>2
  <2>5. {r[i].provider : i \in 1..Providers} = 1..Providers
    BY <2>3, <2>4, Zenon
  <2> QED
    BY <1>5, <2>5
<1>7. ASSUME NEW i \in 1..Providers, NEW j \in 1..Providers, i < j
      PROVE  \/ Amount(r[i]) > Amount(r[j])
             \/ Amount(r[i]) = Amount(r[j]) /\ r[i].provider < r[j].provider
  <2> DEFINE p == at[i]
             o == at[j]
  <2>1. /\ p \in 1..Providers /\ o \in 1..Providers /\ PlaceOf(e, p) = i /\ PlaceOf(e, o) = j
        /\ r[i] = e[p] /\ r[j] = e[o]
    BY <1>2, <1>3, <1>4
  <2> HIDE DEF p, o
  <2>2. ~ Before(e, o, p)
    BY <1>0, <1>7, <2>1, PlacesGrow
  <2>3. p # o
    BY <1>0, <1>7, <2>1
  <2>4. Before(e, p, o)
    BY <1>0, <2>1, <2>2, <2>3 DEF Before, Filled
  <2> QED
    BY <2>1, <2>4 DEF Before, Filled
<1>8. \A i \in 1..Providers : r[i].provider \in 1..Providers /\ r[i] = e[r[i].provider]
  BY <1>3, <1>4 DEF Filled
<1> QED
  BY <1>5, <1>6, <1>7, <1>8 DEF Ordered, Drawn, r

\* What is sorted has an answer from every provider, timed out or not.
LEMMA TimeoutsFilled ==
  ASSUME NEW f, \A p \in 1..Providers : f[p] \in Replies \cup {Pending}
  PROVE  Filled(FillTimeouts([p \in 1..Providers |-> Entry(p, f[p])]))
<1> DEFINE entries == [p \in 1..Providers |-> Entry(p, f[p])]
           e == FillTimeouts(entries)
<1>1. \A p \in 1..Providers : entries[p] = Entry(p, f[p])
  OBVIOUS
<1> HIDE DEF entries
<1>2. \A p \in 1..Providers : e[p] = Entry(p, Failed) \/ e[p] = Entry(p, f[p])
  BY <1>1 DEF FillTimeouts
<1>3. ASSUME NEW p \in 1..Providers PROVE e[p].provider = p /\ Amount(e[p]) \in Nat
  <2>1. PICK a \in Replies \cup {Pending} : e[p] = Entry(p, a)
    BY <1>2 DEF Replies
  <2>2. e[p].provider = p /\ e[p].answer = a
    BY <2>1 DEF Entry
  <2> QED
    BY <2>2, ReplyKinds DEF Amount
<1> QED
  BY <1>3 DEF Filled, entries
\* Of answers that are all there, none is replaced.
LEMMA AnswersKept ==
  ASSUME NEW f, \A p \in 1..Providers : f[p] \in Replies
  PROVE  \A p \in 1..Providers :
           FillTimeouts([o \in 1..Providers |-> Entry(o, f[o])])[p] = Entry(p, f[p])
<1> DEFINE entries == [o \in 1..Providers |-> Entry(o, f[o])]
<1>1. Len(entries) = Providers
  <2> DEFINE S == {Entry(o, f[o]) : o \in 1..Providers}
  <2>1. entries \in [1..Providers -> S]
    OBVIOUS
  <2> HIDE DEF S, entries
  <2> QED
    BY <2>1, FunctionIsSeq, BridgeAssumption
<1>2. ASSUME NEW p \in 1..Providers
      PROVE  ~ (p > Len(entries)) /\ entries[p] = Entry(p, f[p]) /\ entries[p].answer # Pending
  <2>1. f[p] # Pending
    <3>1. f[p].is # "pending"
      BY DEF Replies, Failed, Quote
    <3> QED
      BY <3>1 DEF Pending
  <2> QED
    BY <1>1, <2>1, BridgeAssumption DEF Entry
<1> HIDE DEF entries
<1>3. \A p \in 1..Providers : FillTimeouts(entries)[p] = Entry(p, f[p])
  BY <1>2 DEF FillTimeouts
<1> QED
  BY <1>3 DEF entries
-----------------------------------------------------------------------------
(* The calls.                                                                *)

\* A multi-quote that was answered in full lists the answers.
Listed(c) ==
  /\ \A p \in 1..Providers : answers[c][p] \in Replies
  /\ \A i \in DOMAIN result[c] :
       /\ result[c][i].provider \in 1..Providers
       /\ result[c][i] = Entry(result[c][i].provider, answers[c][result[c][i].provider])

CallDone(c) ==
  /\ phase[c] = "idle" => mode[c] = "best"
  /\ phase[c] \in {"noProviders", "noQuote"} => mode[c] = "best"
  /\ mode[c] = "best" /\ phase[c] = "ok" =>
       \E p \in Routed :
         /\ answers[c][p].is = "quote" /\ result[c] = <<Entry(p, answers[c][p])>>
         /\ \A o \in Routed : answers[c][o].is = "quote" =>
              NetBuyAmount(answers[c][o]) <= NetBuyAmount(answers[c][p])
  /\ phase[c] = "noQuote" => \A p \in Routed : answers[c][p] = Failed
  /\ mode[c] = "multi" /\ phase[c] \in Done => Ordered(result[c])
  /\ mode[c] = "multi" /\ phase[c] = "ok" => Listed(c)

QuoteInv ==
  /\ AnswersTyped
  /\ phase \in [Calls -> {"idle", "asking"} \cup Done]
  /\ mode \in [Calls -> {"best", "all", "multi"}]
  /\ DOMAIN result = Calls
  /\ \A c \in Calls : CallDone(c)

LEMMA QuoteInvInit == BridgeInit => QuoteInv
  BY DEF BridgeInit, QuoteInv, AnswersTyped, CallDone, Done

\* A step of one call leaves the others as they are.
LEMMA OneCall ==
  ASSUME QuoteInv, NEW c \in Calls,
         AnswersTyped', phase' \in [Calls -> {"idle", "asking"} \cup Done],
         mode' \in [Calls -> {"best", "all", "multi"}], DOMAIN result' = Calls,
         \A d \in Calls \ {c} : /\ phase'[d] = phase[d] /\ mode'[d] = mode[d]
                                /\ answers'[d] = answers[d] /\ result'[d] = result[d],
         CallDone(c)'
  PROVE  QuoteInv'
<1>1. ASSUME NEW d \in Calls \ {c} PROVE CallDone(d)'
  BY <1>1 DEF QuoteInv, CallDone, Listed, Ordered, Amount, Entry, NetBuyAmount
<1> QED
  BY <1>1 DEF QuoteInv

\* A call that returns s and r.
LEMMA Returned ==
  ASSUME QuoteInv, NEW c \in Calls, NEW s \in Done, NEW r, Return(c, s, r)
  PROVE  /\ UNCHANGED <<mode, answers>> /\ phase'[c] = s /\ result'[c] = r
         /\ (CallDone(c)' => QuoteInv')
<1>1. /\ phase' = [phase EXCEPT ![c] = s] /\ result' = [result EXCEPT ![c] = r]
      /\ UNCHANGED <<mode, answers>>
  BY DEF Return
<1>2. phase'[c] = s /\ result'[c] = r /\ DOMAIN result' = Calls
      /\ phase' \in [Calls -> {"idle", "asking"} \cup Done]
  BY <1>1 DEF QuoteInv
<1>3. \A d \in Calls \ {c} : phase'[d] = phase[d] /\ result'[d] = result[d]
  BY <1>1 DEF QuoteInv
<1>4. AnswersTyped' /\ mode' \in [Calls -> {"best", "all", "multi"}]
  BY <1>1 DEF QuoteInv, AnswersTyped
<1> QED
  BY <1>1, <1>2, <1>3, <1>4, OneCall

LEMMA QuoteInvStep == QuoteInv /\ [BridgeNext]_quoteVars => QuoteInv'
<1> SUFFICES ASSUME QuoteInv, [BridgeNext]_quoteVars PROVE QuoteInv'
  OBVIOUS
<1>0. AnswersTyped
  BY DEF QuoteInv
<1>1. ASSUME NEW c \in Calls, NEW m \in {"best", "all", "multi"}, Poll(c, m) PROVE QuoteInv'
  <2>1. /\ phase[c] = "idle" /\ mode' = [mode EXCEPT ![c] = m] /\ UNCHANGED <<answers, result>>
        /\ \/ phase' = [phase EXCEPT ![c] = "noProviders"] /\ m = "best"
           \/ phase' = [phase EXCEPT ![c] = "asking"]
    BY <1>1 DEF Poll
  <2>2. /\ phase' \in [Calls -> {"idle", "asking"} \cup Done] /\ mode'[c] = m
        /\ (phase'[c] = "noProviders" /\ m = "best") \/ phase'[c] = "asking"
        /\ mode' \in [Calls -> {"best", "all", "multi"}]
    BY <2>1 DEF QuoteInv, Done
  <2>3. \A d \in Calls \ {c} : phase'[d] = phase[d] /\ mode'[d] = mode[d]
    BY <2>1 DEF QuoteInv
  <2>4. CallDone(c)'
    BY <2>2 DEF CallDone, Done
  <2>5. AnswersTyped' /\ DOMAIN result' = Calls
    BY <2>1 DEF QuoteInv, AnswersTyped
  <2> QED
    BY <2>1, <2>2, <2>3, <2>4, <2>5, OneCall
<1>2. ASSUME NEW c \in Calls, NEW p \in 1..Providers, NEW r \in Replies, Answer(c, p, r)
      PROVE  QuoteInv'
  <2>1. /\ phase[c] = "asking" /\ answers' = [answers EXCEPT ![c][p] = r]
        /\ UNCHANGED <<phase, mode, result>>
    BY <1>2 DEF Answer
  <2>2. AnswersTyped' /\ \A d \in Calls \ {c} : answers'[d] = answers[d]
    BY <1>0, <2>1 DEF AnswersTyped
  <2>3. CallDone(c)'
    BY <2>1 DEF CallDone, Done
  <2> QED
    BY <2>1, <2>2, <2>3, OneCall DEF QuoteInv
<1>3. ASSUME NEW c \in Calls, ReturnBest(c) PROVE QuoteInv'
  <2>1. phase[c] = "asking" /\ mode[c] = "best" /\ Answered(c) = Routed
    BY <1>3 DEF ReturnBest, AllAnswered, Asked
  <2>2. \A p \in Routed : answers[c][p] \in Replies
    <3>1. \A p \in Routed : answers[c][p] \in Replies \cup {Pending}
      BY <1>0, BridgeAssumption DEF AnswersTyped
    <3>2. \A p \in Routed : answers[c][p] # Pending
      BY <2>1 DEF Answered
    <3> QED
      BY <3>1, <3>2
  <2>3. CASE QuotesOf(c) = {}
    <3>1. Return(c, "noQuote", <<>>)
      BY <1>3, <2>3 DEF ReturnBest
    <3>2. \A p \in Routed : answers[c][p] = Failed
      <4> SUFFICES ASSUME NEW p \in Routed PROVE answers[c][p] = Failed
        OBVIOUS
      <4>1. answers[c][p].is # "quote" /\ answers[c][p] \in Replies /\ answers[c][p] # Pending
        BY <2>1, <2>2, <2>3 DEF QuotesOf, Answered
      <4> QED
        BY <4>1, ReplyKinds
    <3>3. phase'[c] = "noQuote" /\ UNCHANGED <<mode, answers>>
      BY <3>1, Returned DEF Done
    <3>4. CallDone(c)'
      BY <2>1, <3>2, <3>3 DEF CallDone
    <3> QED
      BY <3>1, <3>4, Returned DEF Done
  <2>4. CASE QuotesOf(c) # {}
    <3> DEFINE p == BestOf(c)
    <3>1. Return(c, "ok", <<Entry(p, answers[c][p])>>)
      BY <1>3, <2>4 DEF ReturnBest
    <3>2. p \in QuotesOf(c) /\ \A o \in QuotesOf(c) : NetBuyAmount(answers[c][o]) <= NetBuyAmount(answers[c][p])
      BY <1>0, <2>4, BestExists
    <3> HIDE DEF p
    <3>3. p \in Routed /\ answers[c][p].is = "quote"
      BY <2>1, <3>2 DEF QuotesOf
    <3>4. \A o \in Routed : answers[c][o].is = "quote" => o \in QuotesOf(c)
      BY <2>1 DEF QuotesOf
    <3>5. phase'[c] = "ok" /\ result'[c] = <<Entry(p, answers[c][p])>> /\ UNCHANGED <<mode, answers>>
      BY <3>1, Returned DEF Done
    <3>6. CallDone(c)'
      BY <2>1, <3>2, <3>3, <3>4, <3>5 DEF CallDone
    <3> QED
      BY <3>1, <3>6, Returned DEF Done
  <2> QED
    BY <2>3, <2>4
<1>4. ASSUME NEW c \in Calls, ReturnAll(c) PROVE QuoteInv'
  <2>1. mode[c] = "all" /\ \E r : Return(c, "ok", r)
    BY <1>4 DEF ReturnAll
  <2>2. PICK r : Return(c, "ok", r)
    BY <2>1
  <2>3. phase'[c] = "ok" /\ UNCHANGED <<mode, answers>>
    BY <2>2, Returned DEF Done
  <2>4. CallDone(c)'
    BY <2>1, <2>3 DEF CallDone
  <2> QED
    BY <2>2, <2>4, Returned DEF Done
<1>5. ASSUME NEW c \in Calls, ReturnMulti(c) \/ Timeout(c) PROVE QuoteInv'
  <2>1. mode[c] = "multi"
    BY <1>5 DEF ReturnMulti, Timeout
  <2>2. \E s \in {"ok", "timeout"} : \E r :
          /\ Return(c, s, r) /\ Ordered(r)
          /\ s = "ok" => Drawn(r, FillTimeouts([p \in 1..Providers |-> Entry(p, answers[c][p])]))
                         /\ \A p \in 1..Providers : answers[c][p] \in Replies
    <3>1. CASE ReturnMulti(c)
      <4> DEFINE e == FillTimeouts([p \in 1..Providers |-> Entry(p, answers[c][p])])
      <4>1. Return(c, "ok", Sorted(e)) /\ Answered(c) = 1..Providers
        BY <3>1 DEF ReturnMulti, AllAnswered, Asked
      <4>2. Filled(e)
        BY <1>0, TimeoutsFilled DEF AnswersTyped
      <4>3. \A p \in 1..Providers : answers[c][p] \in Replies
        BY <1>0, <4>1 DEF AnswersTyped, Answered
      <4> HIDE DEF e
      <4>4. Ordered(Sorted(e)) /\ Drawn(Sorted(e), e)
        BY <4>2, SortedIsOrdered
      <4> QED
        BY <4>1, <4>3, <4>4 DEF e
    <3>2. CASE Timeout(c)
      <4> DEFINE none == [p \in 1..Providers |-> Failed]
                 e == FillTimeouts([p \in 1..Providers |-> Entry(p, none[p])])
      <4>1. Return(c, "timeout", Sorted(e))
        <5>1. [p \in 1..Providers |-> Entry(p, none[p])] = [p \in 1..Providers |-> Entry(p, Failed)]
          OBVIOUS
        <5> QED
          BY <3>2, <5>1 DEF Timeout
      <4>2. Filled(e)
        <5>1. \A p \in 1..Providers : none[p] \in Replies \cup {Pending}
          BY DEF Replies
        <5> QED
          BY <5>1, TimeoutsFilled
      <4> HIDE DEF e
      <4> QED
        BY <4>1, <4>2, SortedIsOrdered
    <3> QED
      BY <1>5, <3>1, <3>2
  <2>3. PICK s, r :
          /\ s \in {"ok", "timeout"} /\ Return(c, s, r) /\ Ordered(r)
          /\ s = "ok" => Drawn(r, FillTimeouts([p \in 1..Providers |-> Entry(p, answers[c][p])]))
                         /\ \A p \in 1..Providers : answers[c][p] \in Replies
    BY <2>2
  <2>4. phase'[c] = s /\ result'[c] = r /\ UNCHANGED <<mode, answers>>
    BY <2>3, Returned DEF Done
  <2>5. Ordered(result[c])'
    BY <2>3, <2>4 DEF Ordered, Amount, NetBuyAmount
  <2>6. s = "ok" => Listed(c)'
    <3> SUFFICES ASSUME s = "ok" PROVE Listed(c)'
      OBVIOUS
    <3> DEFINE e == FillTimeouts([p \in 1..Providers |-> Entry(p, answers[c][p])])
    <3>1. Drawn(r, e) /\ \A p \in 1..Providers : answers[c][p] \in Replies
      BY <2>3
    <3>2. \A p \in 1..Providers : e[p] = Entry(p, answers[c][p])
      BY <3>1, AnswersKept
    <3> HIDE DEF e
    <3>3. \A i \in DOMAIN r : /\ r[i].provider \in 1..Providers
                              /\ r[i] = Entry(r[i].provider, answers[c][r[i].provider])
      BY <3>1, <3>2 DEF Drawn
    <3> QED
      BY <2>4, <3>1, <3>3 DEF Listed, Entry
  <2>7. CallDone(c)'
    BY <2>1, <2>3, <2>4, <2>5, <2>6 DEF CallDone
  <2> QED
    BY <2>3, <2>7, Returned DEF Done
<1>6. CASE UNCHANGED quoteVars
  BY <1>6 DEF quoteVars, QuoteInv, AnswersTyped, CallDone, Listed, Ordered, Amount, Entry, NetBuyAmount
<1> QED
  BY <1>1, <1>2, <1>3, <1>4, <1>5, <1>6 DEF BridgeNext

\* What a call returns keeps matching the answers it was made from.
LEMMA QuoteInvariance == BridgeSpec => []QuoteInv
  BY QuoteInvInit, QuoteInvStep, PTL DEF BridgeSpec

\* Of any number of providers, the best quote is the answer of one that no other on the
\* route brings more than, and there is none only if every one of them failed.
THEOREM NoBetterQuote == BridgeSpec => []BestIsBest
<1>1. QuoteInv => BestIsBest
  <2> SUFFICES ASSUME QuoteInv, NEW c \in Calls, mode[c] = "best"
               PROVE  /\ phase[c] = "ok" =>
                           /\ \E p \in Routed :
                                result[c] = <<[provider |-> p, answer |-> answers[c][p]]>>
                           /\ \A p \in Routed : answers[c][p].is = "quote" =>
                             answers[c][p].buy - answers[c][p].fee
                               <= LET q == result[c][1].answer
                                  IN  IF q.fee > q.buy THEN 0 ELSE q.buy - q.fee
                      /\ phase[c] = "noQuote" => \A p \in Routed : answers[c][p] = Failed
    BY DEF BestIsBest
  <2>1. \A p \in Routed : answers[c][p] \in Replies \cup {Pending}
    BY BridgeAssumption DEF QuoteInv, AnswersTyped
  <2>2. ASSUME phase[c] = "ok", NEW p \in Routed, answers[c][p].is = "quote"
        PROVE  answers[c][p].buy - answers[c][p].fee
                 <= LET q == result[c][1].answer IN IF q.fee > q.buy THEN 0 ELSE q.buy - q.fee
    <3>1. PICK b \in Routed :
            /\ answers[c][b].is = "quote" /\ result[c] = <<Entry(b, answers[c][b])>>
            /\ \A o \in Routed : answers[c][o].is = "quote" =>
                 NetBuyAmount(answers[c][o]) <= NetBuyAmount(answers[c][b])
      BY <2>2 DEF QuoteInv, CallDone
    <3>2. PICK q : q = answers[c][b]
      OBVIOUS
    <3>3. result[c][1].answer = q
      BY <3>1, <3>2 DEF Entry
    <3>4. PICK a : a = answers[c][p]
      OBVIOUS
    <3>5. /\ a.buy \in Nat /\ a.fee \in Nat /\ q.buy \in Nat /\ q.fee \in Nat
          /\ NetBuyAmount(a) <= NetBuyAmount(q)
      BY <2>1, <2>2, <3>1, <3>2, <3>4, ReplyKinds
    <3>6. a.buy - a.fee <= IF q.fee > q.buy THEN 0 ELSE q.buy - q.fee
      BY <3>5 DEF NetBuyAmount
    <3> QED
      BY <3>3, <3>4, <3>6
  <2>3. phase[c] = "noQuote" => \A p \in Routed : answers[c][p] = Failed
    BY DEF QuoteInv, CallDone
  <2>4. phase[c] = "ok" =>
          \E p \in Routed : result[c] = <<[provider |-> p, answer |-> answers[c][p]]>>
    BY DEF QuoteInv, CallDone, Entry
  <2> QED
    BY <2>2, <2>3, <2>4
<1> QED
  BY <1>1, QuoteInvariance, PTL

\* For any number of providers and answers, a multi-quote lists each provider once and in
\* order, whether the deadline has passed or not, and beside its own answer if all are there.
THEOREM EveryProviderListed == BridgeSpec => []MultiComplete
<1>1. QuoteInv => MultiComplete
  <2> SUFFICES ASSUME QuoteInv, NEW c \in Calls, mode[c] = "multi", phase[c] \in Done
               PROVE  /\ Ordered(result[c])
                      /\ phase[c] = "ok" => \A i \in DOMAIN result[c] :
                           result[c][i].answer = answers[c][result[c][i].provider]
    BY DEF MultiComplete, Ordered
  <2>1. Ordered(result[c])
    BY DEF QuoteInv, CallDone
  <2>2. ASSUME phase[c] = "ok", NEW i \in DOMAIN result[c]
        PROVE  result[c][i].answer = answers[c][result[c][i].provider]
    <3>1. result[c][i] = Entry(result[c][i].provider, answers[c][result[c][i].provider])
      BY <2>2 DEF QuoteInv, CallDone, Listed
    <3> DEFINE p == result[c][i].provider
    <3>2. Entry(p, answers[c][p]).answer = answers[c][p]
      BY DEF Entry
    <3> HIDE DEF p
    <3> QED
      BY <3>1, <3>2 DEF p
  <2> QED
    BY <2>1, <2>2
<1> QED
  BY <1>1, QuoteInvariance, PTL

\* For any number of providers, two functions of the code that compare by different code
\* agree: given the same answers, the first of a multi-quote brings what the best quote
\* brings.
THEOREM MultiQuoteAgrees == BridgeSpec => []MultiAgreesWithBest
<1>1. QuoteInv => MultiAgreesWithBest
  <2> SUFFICES ASSUME QuoteInv, NEW c \in Calls, NEW d \in Calls,
                      mode[c] = "best", mode[d] = "multi", phase[c] = "ok", phase[d] = "ok",
                      Routed = 1..Providers, answers[c] = answers[d]
               PROVE  Amount(result[c][1]) = Amount(result[d][1])
    BY DEF MultiAgreesWithBest
  <2> DEFINE a == answers[c]
             r == result[d]
  <2>1. PICK p \in 1..Providers :
          /\ a[p].is = "quote" /\ result[c] = <<Entry(p, a[p])>>
          /\ \A o \in 1..Providers : a[o].is = "quote" => NetBuyAmount(a[o]) <= NetBuyAmount(a[p])
    BY DEF QuoteInv, CallDone
  <2>2. Ordered(r) /\ Listed(d)
    BY DEF QuoteInv, CallDone, Done
  <2>3. /\ {r[i].provider : i \in DOMAIN r} = 1..Providers
        /\ \A i \in DOMAIN r : r[i].provider \in 1..Providers
                              /\ r[i] = Entry(r[i].provider, a[r[i].provider])
    BY <2>2 DEF Ordered, Listed
  <2>4. \A o \in 1..Providers : a[o] \in Replies
    BY <2>2 DEF Listed
  <2> HIDE DEF a
  <2>5. \A o \in 1..Providers :
          /\ Amount(Entry(o, a[o])) \in Nat
          /\ Amount(Entry(o, a[o])) <= Amount(Entry(p, a[p]))
    <3> SUFFICES ASSUME NEW o \in 1..Providers
                 PROVE  /\ Amount(Entry(o, a[o])) \in Nat
                        /\ Amount(Entry(o, a[o])) <= Amount(Entry(p, a[p]))
      OBVIOUS
    <3>1. Entry(o, a[o]).answer = a[o] /\ Entry(p, a[p]).answer = a[p]
      BY DEF Entry
    <3>2. NetBuyAmount(a[p]) \in Nat /\ (a[o].is = "quote" => NetBuyAmount(a[o]) \in Nat)
      BY <2>1, <2>4, ReplyKinds
    <3> QED
      BY <2>1, <3>1, <3>2 DEF Amount
  <2>6. PICK k \in DOMAIN r : r[k].provider = p
    BY <2>3
  <2>7. Len(r) = Providers /\ DOMAIN r = 1..Providers
    BY <2>2 DEF Ordered
  <2>8. 1 \in DOMAIN r /\ k \in Nat /\ 1 <= k
    BY <2>6, <2>7, BridgeAssumption
  <2>9. Amount(r[1]) \in Nat /\ Amount(r[k]) = Amount(Entry(p, a[p])) /\ Amount(r[1]) <= Amount(r[k])
    BY <2>3, <2>5, <2>6, <2>8
  <2>10. Amount(r[k]) <= Amount(r[1])
    <3>1. CASE k = 1
      BY <2>9, <3>1
    <3>2. CASE 1 < k
      <4>1. Amount(r[1]) > Amount(r[k]) \/ Amount(r[1]) = Amount(r[k])
        BY <2>2, <2>6, <2>8, <3>2 DEF Ordered
      <4>2. Amount(r[k]) \in Nat
        BY <2>5, <2>9
      <4> QED
        BY <2>9, <4>1, <4>2
    <3> QED
      BY <2>8, <3>1, <3>2
  <2>11. Amount(result[c][1]) = Amount(r[k])
    BY <2>1, <2>9 DEF a
  <2> QED
    BY <2>5, <2>9, <2>10, <2>11
<1> QED
  BY <1>1, QuoteInvariance, PTL
=============================================================================
