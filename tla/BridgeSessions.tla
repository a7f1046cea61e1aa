--------------------------- MODULE BridgeSessions ---------------------------
(***************************************************************************)
(* get_quote_with_bridge of crates/bridging/src/sdk.rs, several calls at a *)
(* time on the same providers.  A receiver-account bridge has the order    *)
(* pay a deposit address (near_intents/provider.rs keeps the addresses in  *)
(* a cache all calls share); a hook bridge has it carry a call (across.rs).*)
(*                                                                         *)
(* External: the bridges' servers, the attestor and the swap quoter.  Every*)
(* await ends an action, and so does a lock that is let go.                *)
(***************************************************************************)
EXTENDS Integers, Sequences, FiniteSets

CONSTANTS
  Sessions,     \* the calls of get_quote_with_bridge under way
  Requests,     \* what one may be made with
  Shapes,       \* what a cache key holds: chains, tokens, account and amount
  Validity,     \* validity_secs of a receiver-account quote, in ticks
  CacheTtl,     \* cache_ttl
  MaxNow,       \* bound: the last tick
  Relayed,      \* the relay fees the hook bridge may suggest
  Slippage,     \* slippage_bps of the hook bridge's options
  Full,         \* 100 % of a relay fee (PCT_100_PERCENT)
  OneHundredBps \* 100 % of a slippage (10_000)

ASSUME SessionsAssumption ==
  /\ Validity \in Nat /\ CacheTtl \in Nat /\ MaxNow \in Nat
  /\ Full \in Nat \ {0} /\ OneHundredBps \in Nat \ {0} /\ Slippage \in 0..OneHundredBps
  /\ \A f \in Relayed : f \subseteq Nat /\ \A x, y \in f : x = y
  /\ \A r \in Requests :
       /\ r.on \in {"receiver", "hook", "neither"} /\ r.shape \in Shapes
       /\ r.amount \in Nat /\ r.sellUnit \in Nat \ {0} /\ r.buyUnit \in Nat \ {0}
       /\ \A o \in {r.bridgeRecipient, r.receiver} : \A x, y \in o : x = y

VARIABLES
  now,      \* the clock
  relay,    \* the relay fee the hook bridge suggests: a percentage, or no number
  deposits, \* the deposit addresses the receiver-account bridge has allocated
  cache,    \* the address under each key, with its expiry
  step,     \* where each session is
  asked,    \* the QuoteBridgeRequest, its provider and its signer
  quote,    \* the bridge's answer
  given     \* what the session returned: an address, or a call and its hook

vars == <<now, relay, deposits, cache, step, asked, quote, given>>
shared == <<now, relay, deposits, cache>>

\* NearQuoteRequest.recipient.
RecipientOf(r) == IF r.bridgeRecipient # {} THEN r.bridgeRecipient ELSE r.receiver

\* A deposit address: the key it was asked for, whom the bridge pays what arrives
\* there, until when, and whether the attestor signs for it; `since` is history,
\* when the attestation was accepted.
Deposit(sh, p, d, v) == [shape |-> sh, pays |-> p, deadline |-> d, vouched |-> v, since |-> {}]

\* Mutant: an entry has no end.
UnexpiredAll(c) == c

\* What retain leaves of the cache.
Unexpired(c) == [k \in DOMAIN c |-> {e \in c[k] : e.expires > now}]

\* apply_pct_fee and apply_bps: what is left of an amount.
ApplyPctFee(amount, pct) == (amount * (Full - pct)) \div Full
ApplyBps(amount, bps)    == (amount * (OneHundredBps - bps)) \div OneHundredBps

\* to_amounts_and_costs: the amount in the buy token's decimals, less the relay
\* fee, less the slippage.
QuotedBuy(r, pct) == ApplyBps(ApplyPctFee((r.amount * r.buyUnit) \div r.sellUnit, pct), Slippage)

\* Mutant: the fee is charged twice over.
OutputTwice(r, fee) ==
  IF \E pct \in fee : pct <= Full
  THEN ApplyPctFee(ApplyPctFee(r.amount, CHOOSE pct \in fee : TRUE), CHOOSE pct \in fee : TRUE)
  ELSE r.amount

\* The outputAmount of create_across_deposit_call: no number is no fee, and a fee
\* above 100 % is none either.
Output(r, fee) ==
  IF \E pct \in fee : pct <= Full THEN ApplyPctFee(r.amount, CHOOSE pct \in fee : TRUE)
  ELSE r.amount
-----------------------------------------------------------------------------
Init ==
  /\ now = 0
  /\ relay \in Relayed
  /\ deposits = <<>>
  /\ cache = [k \in Shapes |-> {}]
  /\ step = [s \in Sessions |-> "idle"]
  /\ asked = [s \in Sessions |-> {}]
  /\ quote = [s \in Sessions |-> {}]
  /\ given = [s \in Sessions |-> {}]

Go(s, st) == step' = [step EXCEPT ![s] = st]

\* get_quote_with_bridge: sell orders only, on a bridge of one of the two kinds.
Ask(s, r) ==
  /\ step[s] = "idle"
  /\ asked' = [asked EXCEPT ![s] = {r}]
  /\ Go(s, IF ~ r.isSell \/ r.on = "neither" THEN "failed"
           ELSE IF r.on = "hook" THEN "gas" ELSE "swap")
  /\ UNCHANGED <<shared, quote, given>>

\* get_gas_limit_estimation_for_hook.
EstimateGas(s) ==
  /\ step[s] = "gas" /\ Go(s, "swap")
  /\ UNCHANGED <<shared, asked, quote, given>>

\* get_intermediate_swap_result found a token, and the quoter a price.  The chain
\* of a hook that is to be signed is looked at; get_quote of the receiver-account
\* bridge wants somebody to pay, and sets the quote's deadline.
Swap(s) ==
  /\ step[s] = "swap"
  /\ \E r \in asked[s] :
       IF r.on = "hook"
       THEN Go(s, IF r.signs /\ ~ r.chainKnown THEN "failed" ELSE "pricing") /\ UNCHANGED quote
       ELSE IF RecipientOf(r) = {} THEN Go(s, "failed") /\ UNCHANGED quote
       ELSE Go(s, "quoting") /\ quote' = [quote EXCEPT ![s] = {[deadline |-> now + Validity]}]
  /\ UNCHANGED <<shared, asked, given>>

\* External: the receiver-account bridge allocates an address.
Allocate(s, vouched) ==
  /\ step[s] = "quoting"
  /\ \E r \in asked[s], q \in quote[s] : \E p \in RecipientOf(r) :
       deposits' = Append(deposits, Deposit(r.shape, p, q.deadline, vouched))
  /\ quote' = [quote EXCEPT ![s] = {[deposit |-> Len(deposits) + 1]}]
  /\ Go(s, "attesting")
  /\ UNCHANGED <<now, relay, cache, asked, given>>

\* Mutant: the key leaves out what tells the requests apart.
CachedForAll(key, n) == cache' = [k \in Shapes |-> {[address |-> n, expires |-> now + CacheTtl]}]

\* In place of what was under the key.
Cached(key, n) == cache' = [cache EXCEPT ![key] = {[address |-> n, expires |-> now + CacheTtl]}]

\* The attestation is here: an address the attestor signed is cached for cache_ttl
\* from now, and the lock is let go.
Attest(s) ==
  /\ step[s] = "attesting"
  /\ \E r \in asked[s], q \in quote[s] :
       IF ~ deposits[q.deposit].vouched THEN Go(s, "failed") /\ UNCHANGED <<cache, deposits>>
       ELSE /\ Cached(r.shape, q.deposit)
            /\ deposits' = [deposits EXCEPT ![q.deposit].since = {now}]
            /\ Go(s, "override")
  /\ UNCHANGED <<now, relay, asked, quote, given>>

\* Mutant: a session whose address is gone waits for another.
OverrideWaits(s) ==
  /\ step[s] = "override"
  /\ cache' = Unexpired(cache)
  /\ \E r \in asked[s] : \E e \in cache'[r.shape] :
       given' = [given EXCEPT ![s] = {[address |-> e.address, at |-> now]}]
  /\ Go(s, "done")
  /\ UNCHANGED <<now, relay, deposits, asked, quote>>

\* get_bridge_receiver_override: what is under the key now, if anything.
Override(s) ==
  /\ step[s] = "override"
  /\ cache' = Unexpired(cache)
  /\ \E r \in asked[s] :
       /\ given' = [given EXCEPT ![s] = {[address |-> e.address, at |-> now] : e \in cache'[r.shape]}]
       /\ Go(s, IF cache'[r.shape] = {} THEN "failed" ELSE "done")
  /\ UNCHANGED <<now, relay, deposits, asked, quote>>

\* cleanup_expired_cache_entries, whenever the caller likes.
Cleanup ==
  /\ cache' = Unexpired(cache)
  /\ UNCHANGED <<now, relay, deposits, step, asked, quote, given>>

\* quote_inner: a fee that is no number, or above 100 %, is an error.
Price(s) ==
  /\ step[s] = "pricing"
  /\ \E r \in asked[s] :
       IF \E pct \in relay : pct <= Full
       THEN /\ quote' = [quote EXCEPT ![s] = {[fee |-> relay, buy |-> QuotedBuy(r, pct)] : pct \in relay}]
            /\ Go(s, "calling")
       ELSE Go(s, "failed") /\ UNCHANGED quote
  /\ UNCHANGED <<shared, asked, given>>

\* get_unsigned_bridge_call asks for the fee again.  The call pays the receiver,
\* if that is an address of this kind of chain, or else the account; without a
\* signer its hook is a stand-in.
Call(s) ==
  /\ step[s] = "calling"
  /\ \E r \in asked[s] :
       /\ given' = [given EXCEPT ![s] =
            {[pays   |-> IF r.receiver \subseteq r.evm /\ r.receiver # {} THEN r.receiver ELSE {r.account},
              output |-> Output(r, relay), fee |-> relay, hook |-> "mock"]}]
       /\ Go(s, IF r.signs THEN "signing" ELSE "done")
  /\ UNCHANGED <<shared, asked, quote>>

\* get_signed_hook.
Sign(s) ==
  /\ step[s] = "signing"
  /\ given' = [given EXCEPT ![s] = {[g EXCEPT !.hook = "signed"] : g \in given[s]}]
  /\ Go(s, "done")
  /\ UNCHANGED <<shared, asked, quote>>

\* An await fails: no candidates, no price, an HTTP error, a bad signature.  What
\* was made so far is dropped.
Waiting == {"gas", "swap", "quoting", "attesting", "pricing", "calling", "signing"}

Fail(s) ==
  /\ step[s] \in Waiting /\ Go(s, "failed")
  /\ given' = [given EXCEPT ![s] = {}]
  /\ UNCHANGED <<shared, asked, quote>>

\* External: time passes; the hook bridge suggests another fee.
Tick    == now < MaxNow /\ now' = now + 1 /\ UNCHANGED <<relay, deposits, cache, step, asked, quote, given>>
Reprice == relay' \in Relayed /\ UNCHANGED <<now, deposits, cache, step, asked, quote, given>>

\* What the receiver-account bridge's sessions do: their awaits have timeouts.
Receive(s) ==
  \/ (\E r \in asked[s] : r.on = "receiver") /\ (Swap(s) \/ Fail(s))
  \/ (\E v \in BOOLEAN : Allocate(s, v)) \/ Attest(s) \/ Override(s)

Next ==
  \/ Tick \/ Reprice \/ Cleanup
  \/ \E s \in Sessions :
       \/ \E r \in Requests : Ask(s, r)
       \/ EstimateGas(s) \/ Swap(s) \/ Attest(s) \/ Override(s)
       \/ \E v \in BOOLEAN : Allocate(s, v)
       \/ Price(s) \/ Call(s) \/ Sign(s) \/ Fail(s)

Spec == Init /\ [][Next]_vars /\ \A s \in Sessions : WF_vars(Receive(s))
-----------------------------------------------------------------------------
\* The variables' types: the clock, the cache and what each session keeps.
SessionsTypeOK ==
  /\ now \in 0..MaxNow /\ relay \in Relayed
  /\ \A k \in Shapes : \A e \in cache[k] : e.address \in DOMAIN deposits
  /\ \A k \in Shapes : Cardinality(cache[k]) <= 1
  /\ step \in [Sessions -> Waiting \cup {"idle", "override", "done", "failed"}]
  /\ asked \in [Sessions -> {{}} \cup {{r} : r \in Requests}]
  /\ \A s \in Sessions :
       /\ Cardinality(quote[s]) <= 1
       /\ given[s] # {} => step[s] \in {"signing", "done"}
       /\ step[s] = "done" => Cardinality(given[s]) = 1

ReceiverRequest(s) == {r \in asked[s] : r.on = "receiver"}

\* A session's funds go to whom it asked to have paid, as long as nobody else asks
\* for the same tokens, chains, account and amount with another recipient: the
\* cache key leaves the recipient out, so of two such sessions one is handed the
\* other's deposit address (near_intents/provider.rs, NearDepositCacheKey).
OwnDeposit ==
  \A s \in Sessions : \A r \in ReceiverRequest(s), g \in given[s] :
    (\A o \in Sessions : \A other \in ReceiverRequest(o) :
        other.shape = r.shape => RecipientOf(other) = RecipientOf(r))
    => {deposits[g.address].pays} = RecipientOf(r) /\ deposits[g.address].shape = r.shape

\* The address a session is handed has the attestor's signature, accepted less
\* than cache_ttl before, whichever session asked for it and however the cache was
\* overwritten or swept in between.  (The deadline of the quote itself is older by
\* the time the bridge took to answer.)
FreshlyVouched ==
  \A s \in Sessions : ReceiverRequest(s) # {} =>
    \A g \in given[s] :
      LET d == deposits[g.address]
      IN  d.vouched /\ d.since # {} /\ \A t \in d.since : t <= g.at /\ g.at < t + CacheTtl

\* The call of a hook bridge asks for no less than the quote promised as the
\* minimum, if the fee is the same at both requests and the two tokens have the
\* same decimals.  (The call is not converted between decimals, and is made from a
\* second answer, which may name another fee.)
CallKeepsQuote ==
  \A s \in Sessions : \A r \in asked[s] : r.on = "hook" =>
    \A g \in given[s], q \in quote[s] :
      g.fee = q.fee /\ r.sellUnit = r.buyUnit => g.output >= q.buy

\* Every session on the receiver-account bridge ends: no answer is waited for
\* without a timeout, and no session waits for another's cache entry.
EverySessionEnds ==
  \A s \in Sessions : ReceiverRequest(s) # {} ~> step[s] \in {"done", "failed"}
=============================================================================
