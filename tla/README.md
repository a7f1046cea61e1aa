# A TLA+ model of cow-rs

cow-rs is a Rust SDK for CoW Protocol: it gets quotes from an order book server, builds, signs and posts
orders, cancels them, posts orders that sell the native currency through a contract, swaps and bridges across
chains, and manages conditional orders. This directory holds TLA+ modules of the parts of it in which order,
failure, time or arithmetic can go wrong, the TLC configurations that check them, and proofs checked by TLAPS.
`PROJECT.json` lists components, runs, hazards and theorems, and maps every definition to the lines it models.

Paths below are relative to `src/crates/`.

## 1. Inventory of the system

| Component | State it keeps | Operations | Talks to |
|---|---|---|---|
| `http` rate limiter, retry policy | a bucket of fractional tokens and the instant of its last refill, behind one mutex | `acquire` (async); `delay_for_attempt`, `should_retry_*` (pure) | every clone of an `OrderBookApi` shares one limiter |
| `orderbook` HTTP client (`api.rs`) | none of its own besides limiter and policy; per call the attempt number | about twenty calls over `send_with_policy`, two lookups over both environments, two uploads outside the policy | limiter, server |
| `orderbook` amounts (`quote_amounts.rs`), `trading/costs.rs` | none | the fee stages of a quote, twice | trading, ethflow |
| `trading` SDK (`sdk.rs`) | configuration; a `QuoteResults` is kept by the caller | quote, swap, limit, trade, native order, pre-sign, EIP-1271, cancel, allowance | order book client, signer, amounts, app-data |
| `ethflow` | none | calldata and transaction of a native order | trading; the EthFlow contract |
| `cow-rs/cross_chain_post.rs` | progress through seven steps of one call | post a swap with a bridge hook, four kinds of callback | trading SDK, bridging SDK, provider |
| `bridging` SDK | list of providers; per session what it has learnt so far | best, all and multi quote, quote with a bridge (intermediate swap, hook or receiver flow), hook signing, status | providers (third-party services), swap quoter |
| `bridging` NEAR Intents provider | a cache of deposit addresses with expiry, behind one mutex, shared by all sessions | quote with attestation, receiver override, sweep | the bridge's server, the attestor |
| `bridging` Across provider | none | quote, unsigned call, signed hook, reading a deposit from logs | the bridge's server |
| `composable` multiplexer | list of orders, proof location | add, remove, update, clear, root, proofs, JSON | ComposableCow contract, watchtowers |
| `composable` orders | the totals of a TWAP and its salt; the data of good-after-time and stop-loss orders | validity, totals to parts and back, to and from on-chain parameters, polling | handler contracts, watch tower |
| `settlement` encoder, `types` trades and flags | token registry (list and index map), clearing prices, trades, interactions of three stages | add token, set price, add trade, add interaction, encode, clear; flags both ways | settlement contract |
| `signing`, `app-data`, `permit`, `erc20`, `cow-shed`, `weiroll`, `flash-loans` | a planner's slots (weiroll); otherwise none | hashes, typed data, calldata | all of the above |
| `browser-wallet` | session (accounts, chain) | connect, switch, sign, events | wallet provider |
| `subgraph`, `onchain` | none | one request per query | services |
| `chains`, `types`, `primitives`, `errors`, facade and stubs | none | tables, types | |

How they interact: the trading SDK computes amounts, builds the app-data document, hashes it, signs the order
and calls the order book client; the client takes a token from the shared limiter for each attempt and judges
the answer. The bridging SDK asks its providers concurrently and joins their futures. The cross-chain post
drives a provider, a signer, callbacks of the caller and the trading SDK in sequence. Nothing is persisted by
the library itself (the multiplexer can be written to JSON and read back); concurrency is that of async tasks
sharing clones, so an interleaving can only happen at an `await` or where a lock is let go.

What makes each part correct:

- limiter: over any interval no more calls are admitted than a bucket and what flowed in; nobody sleeps for
  ever; giving up loses nothing for the others;
- client: what is reported as done is done; attempts, backoff and total time are bounded;
- amounts: what is signed is what was quoted, less what was agreed to be lost, on every path;
- trading: the order in the book is the trade asked for, once, with the deadline and the document it was
  signed with;
- native orders: the uid told to the trader is that of the order on chain, and she gets her own order back;
- cross-chain: an abort leaves nothing behind, hook and order fit together, callbacks tell the truth;
- bridging: the best quote is the best, answers are matched to providers, a call with a deadline returns; a
  session is handed its own deposit address, freshly attested; the bridge call keeps what the quote promised;
- multiplexer: only registered orders can be executed, and each of them can;
- conditional orders: the order a watch tower rebuilds is the one on chain, its parts sell what was asked, and
  polling misses none of them;
- settlement: every trade reads back as its order, every price stays with its token, and a trade can be settled
  exactly if its signer signed what is encoded and its tokens were priced.

The hard behaviours, each at its line, are the `hazards` of `PROJECT.json`.

## 2. Modules

| Module | Models | Composes |
|---|---|---|
| `RequestBudget` | abstract: a budget of calls that grows with time | |
| `RateLimiter` | `http/src/rate_limit.rs`, concurrent `acquire` | implements `RequestBudget` |
| `RateLimiterWindow` | the limiter with a window of time measured beside it | `RateLimiter` |
| `OrderBookApi` | `orderbook/src/api.rs`: all kinds of call over `send_with_policy` | `RateLimiter`'s actions, taken in the client's steps |
| `OrderBookApiProofs` | theorems about limiter, window and client, and of the client over the limiter | `OrderBookApi`, `RateLimiterWindow` |
| `QuoteAmounts` | `orderbook/src/quote_amounts.rs`, `trading/src/costs.rs` | |
| `QuoteAmountsProofs` | theorems about the protocol fee, the two paths and the signed limits | `QuoteAmounts`, `ArithmeticLemmas` |
| `QuoteCall` | one call of each path, on every input of a box | `QuoteAmounts` |
| `QuoteCallProofs` | the same three theorems, of the call | `QuoteCall`, `QuoteAmountsProofs` |
| `TradingSdk` | the swap, limit and trade flows of `trading/src/sdk.rs` | `QuoteAmounts` |
| `CrossChainPost` | `cow-rs/src/cross_chain_post.rs` | `TradingSdk`'s actions |
| `TradingSdkProofs` | theorems about the trading flows and the cross-chain post | `CrossChainPost`, `QuoteAmountsProofs` |
| `NativeOrders` | native orders: trading, ethflow, the transformation in orderbook | `QuoteAmounts` |
| `SettlementEncoder` | `settlement/src/encoder.rs`, `types/src/flags.rs`, `types/src/trade.rs` | |
| `OrderProofs` | theorems about native orders and the encoder: what is built off chain against what the contract makes of it | `NativeOrders`, `SettlementEncoder` |
| `BridgeQuotes` | aggregation of quotes in `bridging/src/sdk.rs` | |
| `BridgeSessions` | `get_quote_with_bridge` of `bridging/src/sdk.rs` over `near_intents/provider.rs` and `across.rs` | |
| `BridgeProofs` | theorems about the sessions, their cache and the aggregation | `BridgeSessions`, `BridgeQuotes` |
| `Multiplexer` | `composable/src/multiplexer.rs` | |
| `Twap` | `composable/src/twap.rs`, `factory.rs`, and what `gat.rs` and `stop_loss.rs` have to do with it | |
| `ComposableProofs` | theorems about conversion, rounding, polling, and the Merkle tree | `Twap`, `Multiplexer` |
| `ArithmeticLemmas` | products and quotients, for the proofs | |

`MC*` modules give the constants of a run their values, where the configuration alone cannot; `MCOrderBookApi` also
orders the calls (symmetry). A definition called a mutant in its
comment is a wrong variant of the one below it, used to check that a property notices the difference; no
specification refers to it.

### Conventions

- An `Option` is a set with at most one element. `ValueOr` is `unwrap_or`.
- Hashing is injective: a digest is the value under a tag (`[hashOf |-> doc]`, `[leaf |-> params]`).
- Every `await` ends an action. What the code does between two awaits is one action, the early returns are its
  disjuncts or actions of their own.
- Time is a clock of ticks; a tick is always possible, no action happens "at once" unless the code does it
  without an await.
- U256 and `as u32` wrap: `% WordSize`, `% U32Size`. Basis points are out of `OneHundredBps` (10 in the runs, so
  that every rounding case occurs with small amounts).

### How state and actions correspond to the code

**RateLimiter.** `tokens` and `sinceRefill` are `BucketState`; the f64 tokens are integers in units, `Unit` of
them to a token. `acquire` is a loop around one critical section without an await: `Grant` (refill, spend,
return) and `Sleep` (refill, store, sleep) are its two outcomes, `Wake` is the timer, `Cancel` the dropped
future. A sleeper reserves nothing, so `Grant` of another task may precede its `Wake`. `sinceRefill` saturates
once the bucket is full anyway.

**OrderBookApi.** A task makes one call. `Begin` … `Retry` follow `send_with_policy`: take a token, send,
classify the answer (`Statuses`), return, or back off and start over. `BeginUpload` is the uploads' way past
limiter and policy. `TryOtherEnv` is the second request of the two-environment lookups. `Drop` is a caller that
stops polling, at any await. The server is external: it accepts an order once, may answer late, refuse, or cut
a body; `wire` holds requests that may still be served after the client has given up on them.

A call that was dropped or has returned may still have a request on the wire; `Awaited` decides whether anybody
reads the answer.

**QuoteAmounts, QuoteCall.** One operator per function of the two files; `SignedByStages` and `SignedBySwap` are what
the two paths sign. `QuoteCall` is one call of both, with any input of a box that leaves the word room.

**TradingSdk.** `RequestQuote`/`FinishQuote` are `get_quote_impl` before and after its await; the slippage, fee
and document of the call are decided by `EffectiveSlippage`, `EffectivePartnerFee` and `MarketDoc`; the
deadline is computed after the answer, as in the code. `PostFromQuote`, `PostLimit`, `PostLimitFromQuote` and
`StartTrade`/`Upload` sign and lead to a post, which the server accepts (`AcceptOrder`, the answer possibly
lost) or not (`PostFails`). `ParseAppDataHex` is what becomes of a hash the caller of a limit order gives: text that
is no hex is signed as zeros, and posted as it came. `book` keeps for every accepted order which call made it and from which quote.

**NativeOrders.** `BuildNative`/`UploadNative` are `post_sell_native_currency_order` around its upload,
`BuildSdkTransaction` is `get_eth_flow_transaction`, which takes order data its caller has filled in, with a fee or
without; `SendTransaction` is the trader and the contract (external), which reverts what is not paid in full, too late
or known already; `TransformOrder` is what the client makes of the server's view.

**CrossChainPost.** One action per stretch between two awaits of `post_cross_chain_order`; a callback that is
asynchronous is one action to call it and one to learn its verdict. The hook's recipient is a text of the provider's
choice (`Recipients`: the trader's proxy, the target of the call as Across has it, one that is no address), which
`ParseReceiver` reads or drops. Its quote and its post are taken jointly with
`TradingSdk`'s actions, so everything stated of the SDK can be stated of the composition (`TraderProtected` is).

**BridgeQuotes.** Each call asks its providers; `Answer` is a provider (external) in any order or never. Best and
all wait for every answer; a multi-quote has a deadline (`Timeout`).

**Multiplexer.** `orders` is the list; `Add`, `RemoveOrder`, `Update`, `Clear` edit it, `Save`/`Restart` are
`to_json`/`from_json`, `Publish` is `dump_proofs_and_params`. `SetRoot` and `Verifies` are the contract. The tree
is built layer by layer as in `merkle_root` and `generate_proof`.

**BridgeSessions.** `asked` is the request with the kind of bridge it goes to; `step` names the await a session is
at. `Swap` is `get_intermediate_swap_result` with what follows up to the next await; on the receiver-account bridge
`Allocate` (external), `Attest` (which fills the cache under its lock) and `Override` (which sweeps it and looks
the key up) follow, on the hook bridge `Price`, `Call` (which asks for the fees anew) and `Sign`. `cache` maps a key
to at most one entry, as inserting replaces. `deposits` is what the bridge has allocated; its `since` is history.
`Cleanup` is `cleanup_expired_cache_entries`, `Reprice` the bridge changing its fees. `Fail` is any error of an await.

**Twap.** `made` is what the trader described (`TwapData`), `params` what is registered on chain, by `Mine` from her
order or by `MineForeign` from somebody else's, `held` the order a watch tower has rebuilt (`FromParams`). `IsValid`,
`DataToStruct`, `StructToData`, `ToParams`, `FromParams`, `PollValidate` are the functions of those names; amounts
wrap at `W`. The static input is its length in words and its content, since the length is what
`from_params` tells two kinds apart by. The tower and the handler contract are external: the tower polls when the
last `PollResult` says, the handler says which parts are open (`OpenParts`).

**SettlementEncoder.** The variables are the encoder's fields (the registry's list and map apart), the actions its
mutators. `EncodeFlags` and `DecodeFlags` are arithmetic on the byte; the code's shifts and ors are sums here, the
fields being disjoint (which `TradesReadBack` would notice if they were not). A solver may hand in a signature over
the order as it stands or normalized. `given` and `wanted` are history; `Settleable` is what a trade needs of
the calldata to be settled, whatever else the contract may ask of it (external).

## 3. The runs

All counts are distinct states.

| Run | Question | Bounds | Size |
|---|---|---|---|
| `limiter` | throttle over any window, refinement of `RequestBudget`, progress | 3 tasks, bucket of 2 1/3 tokens, 2/3 token per tick, window of 3 ticks | 6 thousand |
| `order_api` | success is real, attempts and backoff, two-environment lookup, every call returns | 2 tasks, four kinds of call, 2 attempts, backoff of 2 ticks, bucket of 1 1/2 tokens | 685 thousand |
| `quote_amounts` | protocol fee found, two paths agree, limits in order | sell and buy 0..9, fee 0..5, four protocol rates, three partner rates, four slippages | 115 thousand |
| `sdk_flows` | the order in the book is the trade asked for; posting again makes no second order | 2 calls of all flows and a third that posts a kept quote again, slippage given in each place, all three deadlines, two markets | 687 thousand |
| `native_orders` | uid, round trip, nothing sent in time is lost | 2 calls, both environments, four parameter sets, data with and without a fee | 19 thousand |
| `cross_chain` | aborts, hook, callbacks | 2 calls, four requests, three candidate lists, three recipients | 831 thousand |
| `bridge_quotes` | best is best, accounting, return | 2 calls, 2 providers, amounts with ties after fees | 38 thousand |
| `bridge_sessions` | whose address, how fresh, what the call asks for, every session ends | 2 sessions, nine requests, clock to 2, entries live 1 tick | 233 thousand |
| `multiplexer` | only and all registered orders verify | lists of up to 4 of 2 orders (so with duplicates) | 277 thousand |
| `twap` | rebuilding, rounding, polling, and its end | 8 totals, 13 foreign parameters, amounts modulo 16, 16 blocks | 27 thousand |
| `settlement` | trades read back, prices stay, what can be settled, numbers stay | 3 tokens, 4 orders, 2 prices at 3 indices, 2 trades, 1 interaction | 309 thousand |
| `hook_not_embedded` | a violated statement of the documentation | 1 call | stops at once |

What they show, and why the bounds suffice:

- **limiter.** Capacity (7 units) is no multiple of the unit (3) or of the rate (2): refills, waits and the cut
  at the capacity are all rounded at some point. Three tasks is the least with which a sleeper can be
  overtaken by one task while another sleeps. The window's length only matters through `Rate * elapsed`; the
  proof covers every length. `Progress` and `DrainsWhenQuiet` are about the system without newcomers for ever
  overtaking: the code's limiter is not fair to individual sleepers, and no property says so.
- **order_api.** Two calls suffice to race on one order (post and cancel, two posts, a lookup during a post),
  two attempts to have a first, a retried and a last one. `SuccessIsReal` is the property that a lost answer,
  a duplicate rejection and a garbled body must not break.
- **quote_amounts.** All roundings of a denominator of 10 or 20 occur in 0..9 with rates up to 95 %. The word
  is large there; inputs that wrap are outside the conditions of
  `LimitsOrdered` and of the theorem's `Fits`: nothing is claimed of them (section 5).
- **sdk_flows.** Two calls can interleave one quote each; a third is needed for one quote posted by two others.
  Letting it do everything would only repeat the two, so an action constraint (`AgainPostsQuote`) has it post a quote
  that another call holds and the second one has posted. Time moves two ticks, enough for a quote to be answered
  later than asked and posted when expired. The 32-bit limit (16) is within reach of `now + 15`, so the cast is
  exercised.
- **native_orders.** Two calls with equal parameters collide on chain, and the model lets them: the second
  transaction is reverted, and the trader watches the first's order, which is as good as hers up to the deadline
  (`SentOrdersAreLive`). Data with a fee is among the inputs and its transactions are reverted; the property is about the rest.
- **sdk_flows, the bounds of what is promised.** `TraderProtected` and `TradeProtected` bound the fixed side from both
  ends and the other side to an atom. `ExpiryHonoured` is exact for an absolute deadline on all paths and for a time to
  live on the limit and trade paths; on the swap path a time to live binds from below, and from above only if the quote
  expires first, since the code takes the later of the two (section 5).
- **cross_chain.** Deadlines: none, short, beyond 32 bits; candidate lists with one, several and tied tokens, and
  with the sell token among them; a request whose chain is unknown; each callback may refuse; recipients that are and
  are not addresses.
- **bridge_quotes.** Amounts 2 and 5 with fees 0 and 4 give ties (5 − 4 < 2), fees above the amount and
  saturated subtraction. Each quote says whose it is, and must be that provider's own answer. Only positions matter for
  more providers.
- **multiplexer.** Trees of 1 to 4 leaves include an odd layer, a promoted node, and equal siblings. `file`
  and `published` may be of any earlier list. A node promoted through two layers needs five leaves; that is
  outside the bound.

- **bridge_sessions.** Two sessions are the least that share a key. The requests hold two recipients for one key,
  another key, nobody to pay, both kinds of bridge with and without a signer, other decimals, and what is refused;
  the fees are none, some, above 100 % and no number. An entry may expire between being cached and being read.
- **twap.** The totals divide and do not; starts are fixed, past, zero and unknown; intervals have gaps; the foreign
  parameters just fit and just wrap, have no parts, and static input that is short, long, of another kind or
  dirty. The clock goes past the end of every schedule.
- **settlement.** The four orders differ in every field of the flags and share tokens in both roles; prices can be
  set before, at and after their token's number, and survive a `clear` only if the code forgets them.

Deadlock is checked in `limiter` and `order_api` (time goes on for ever). The other systems stop when all calls
have ended or the clock's bound is reached, so their configurations say `CHECK_DEADLOCK FALSE`.
Symmetry is used only in runs without liveness, over calls or orders that are interchangeable (in `sdk_flows` over the two calls, not the third);
`MCOrderBookApi`, which checks liveness, starts instead with one of two assignments of calls that differ only by the
tasks' names.

**Fairness.** `RateLimiter`: the clock ticks, and tokio polls a task that is ready (weak fairness of each task's
`Grant`, `Sleep` and `Wake`). `OrderBookApi`: the same for each call's steps; the client timeout of
`build_client` makes `TransportError` possible whenever no answer comes, so nothing is asked of server or
network. `BridgeQuotes`: a ready join is polled and the timer of a multi-quote fires; no provider has to answer.
`BridgeSessions`: weak fairness of the steps of a receiver-account session (`Receive`), whose HTTP calls all carry a
client timeout (`bridging/src/near_intents/api.rs` 116-174), so each await ends in an answer or in `Fail`; nothing is
assumed of the hook bridge, whose client sets none. `Twap`: blocks keep coming (up to `MaxTime`) and the tower polls
what is due. The other modules are checked for safety only.

**Bounds by name.** `MaxNow` (clock of `TradingSdk`, `NativeOrders`, `BridgeSessions`), `MaxTime` (clock of `Twap`),
`MaxTrades`, `MaxCalls`, `MaxIndex` (of `SettlementEncoder`), `MaxWindow` (window), `MaxOrders` (list),
`MaxAttempts` (the code's parameter), the box of `QuoteCall` (`MaxSell`, `MaxBuy`, `MaxFee`); `sends` and `quiet` of `OrderBookApi` are
history counters that saturate, one above and at what their properties ask about.

**Stated, but in no run.** Each module has one type invariant; only the limiter's is in a run, since the others are
proved (all but `BridgeTypeOK`, which was checked while the module was developed). `WindowInv`,
`DrainsWhenQuiet`, `AttemptsBounded` and `MultiAgreesWithBest` (the last two proved) hold too and are kept beside the properties they
strengthen or repeat; `ReceiverDefaultsToTrader`, `TtlHonoured`, `SdkTransactionsArePaid`, `UidsNeverCollide`,
`RecipientIsPaid`, `LateKeepsAnswers`, `RemovesFirstOnly` and `MinimumKept` are statements of the documentation that do
not hold (section 5).

## 4. Proofs

The `*Proofs` modules are checked by TLAPS. Each theorem holds for every value of the constants that satisfies the
named assumption of its module (`LimiterAssumption`, `WindowAssumption`, `PolicyAssumption`, `AmountsAssumption`,
`CallAssumption`, `SdkAssumption`, `RequestAssumption`, `NativeAssumption`, `EncoderAssumption`, `BridgeAssumption`,
`SessionsAssumption`, `MuxAssumption`, `TwapAssumption`), which TLC evaluates in the runs. They bind parameters to
their types and ranges, a percentage to 100 % where the code panics or wraps above it, and nothing else. Where a
theorem needs amounts to leave the 256-bit word room for the factors they are multiplied by, it says so: in its
`ASSUME` (`Fits`, `MarketsFit`, `TradesFit`), or in `CallAssumption`; the greatest factor has some 30 of the 256 bits.

Every safety invariant and action property that a run checks is stated by a theorem. Each theorem of a property
`P` of a specification rests on an invariant that is inductive, of the form `Spec => []Inv` and `Inv => P`; the runs
check `P`, and TLC was also run on the invariants, with the bounds of section 3 (all but `HookInv`, whose quantifiers are
unbounded), as it was on `MarketsFit` and `TradesFit`, which the runs' constants satisfy.

**Limiter** (`OrderBookApiProofs`).

- `TypeCorrect`: `Spec => []TypeOK`. The clock saturates at `FullAfter`, and a sleeper's timer is
  bounded by the longest possible wait, which needs the two facts about rounded-up division at the start.
- `LimiterImplementsBudget`: the limiter implements `RequestBudget` under the mapping *budget = what the bucket
  would hold if it were refilled now*. The refill happens lazily in the code, at the next attempt; the lemmas
  `TickRefills` and `StoredLevel` say that a tick raises the mapped budget exactly as the abstract one and that
  storing a refill does not change it.
- `WindowTypeCorrect` and `Throttled`: in every window, calls cost at most `Capacity + Rate * elapsed`. The bound
  alone is not inductive: a step may spend only what is there, and it has to be known that what is there came
  out of the same sum. `WindowInv` says so (admitted plus available never exceeds it), is inductive given the
  types, and implies the bound. A tick adds at most `Rate`, a grant moves one unit from available to admitted,
  opening a window starts with at most a full bucket.

**Client** (`OrderBookApiProofs`). `ClientInvariant` has four parts. `ClientTypes` are the types of the client's
variables. `Truthful`: a request on the wire knows what its call asks, and a success that is in a task's inbox,
or has been returned, is done on the server; it is inductive because no step undoes what a success reports (a
cancelled order stays cancelled, an order once there is never absent again). `Asked`: whoever has turned to the
other environment has heard a 404 from the first. `Counted`: the attempt number bounds what has been sent. From
them follow `SuccessesAreReal`, `BothEnvironmentsAsked` and `AttemptsAreBounded`, for any number of calls, any
policy and any limiter.

- `ApiImplementsLimiter`: `ApiSpec => Spec`. Each step of the client, the server and the network is, to the limiter's
  variables, a step of the limiter or a stutter. So what is proved of the limiter holds under the client, and
  `ApiImplementsBudget` follows: all calls together, with their retries and the dropped ones, share one budget.
- `BackoffIsRespected`: `Waited` strengthens the invariant with what the time since the last request of a call says
  about the sleep that it is in, or has left. That the delay doubles up to a limit is the recursive function of
  `DelayForAttempt`.
- `ApiTypeCorrect`: `InStep` adds that the limiter has a task waiting just while its call is inside `acquire`.

**Amounts** (`QuoteAmountsProofs`, and `QuoteCallProofs` for the properties of `QuoteCall`).

- `ProtocolFeeIsFound`, `FeeAlwaysRecovered`: for every quote that fits the word and every rate below 100 %, charging
  the price that `get_protocol_fee_amount` reconstructs gives back the fee it found (one atom more at most on a buy
  order). The argument is about two nested integer divisions; `DeductedFee` and `AddedFee` are its two sides.
- `PathsAlwaysAgree`, `CallPathsAgree`: for every quote that fits and every slippage up to 100 %, without partner and
  protocol fee, the swap path and the full computation sign the same amount on the fixed side. On the other side
  they differ as far as their roundings and order of steps do and no further: a sell order asks at most one atom less
  on the swap path; a buy order pays no more on the swap path, and less by at most the slippage on the network cost
  and one atom. That one takes a share of a sum and the other adds the share to the rest is bridged by
  `ShareAndRest` and `ShareOfSum`.
- `LimitsAlwaysOrdered`, `SignedAlwaysWithinQuote`: the fixed side is what was quoted, and the other side is the
  quoted amount with partner fee and slippage, from both sides to less than an atom. It needs a slippage up to 100 %
  and a protocol fee whose price has a denominator other than 0, and it is conditional: where the partner fee exceeds
  the buy amount, or the protocol fee a buy order's sell amount, the code's arithmetic wraps and nothing is said.

**Trading** (`TradingSdkProofs`). `SdkInvariant` traces an order backwards: an order in the book was signed by its
call (`BookInv`), what is signed was built from the call's arguments or from a quote held by the call it names as
origin (`SignedInv`), and a quote was computed from an answer of the server and the arguments of that call
(`QuoteInv`, `AskInv`). Arguments and quotes never change, so this is inductive. From it, without further hypotheses: `PostingAgainIsSafe`;
`DocumentsTravel` (documents of the trade flow, and bodies of every flow); `DeadlinesAreHonoured`, with the one-sided
case of a swap's time to live. `SwapsProtectTheTrader` needs `MarketsFit`
(every answer's amounts leave the word room) and `TradesProtectTheTrader` and `FlowsTyped` need `TradesFit` (also that
the fees are not more than what they are taken from, where the code saturates or wraps).

**Cross-chain post** (`TradingSdkProofs`). `CrossInvariant` joins `SdkInv` (the composition's steps are steps of the
trading flows or leave them alone: `CrossMoves`) with what each step of the call has fixed by then: the hook is
signed, the order is asked for with the recipient as parsed and the deadline, the callbacks fired are those of the steps behind
(`CallInv`). From it `AbortsLeaveNothing`, `HooksCoverOrders`, `CallbacksTellTheTruth` and `CrossTyped`.

**Native orders** (`OrderProofs`). `NativeInvariant`: a record returned was built from one deadline and one
environment by both functions involved (`BuiltFor`), and an order on chain was placed from the record of its call
(`PlacedFrom`). From it `UidsArePredicted`, `OrdersComeBack`, `SentOrdersStayLive` and `NativeTyped`: three encodings of one
order (the uid off chain, the contract's, the server's) agree in all fields but the kind, as the contract only sells.
A transaction without a fee is never underpaid, and one that is known has the order of that uid on chain, which has the
same fields but for the deadline.

**Settlement** (`OrderProofs`). The invariant `IInv` is the types (among them: list and map of the registry
are inverse to each other, and there is a price for each token), `KeepsOrder` (the k-th trade's
indices still name the tokens of the k-th order, and its flags are still that order's) and `PricesAsWanted`. Its step
is a lemma about registering a token, applied twice for a trade. `EncoderTypeCorrect`, `TradesAlwaysReadBack`,
`PricesFollow`, `SettleableJustIfReady` and `NumbersAlwaysStay` follow, for any tokens, orders and prices. That flags
decode to what was encoded is arithmetic over all the combinations of fields.

**Quote aggregation** (`BridgeProofs`). `QuoteInv` says what a call has made of its answers once it is done: the best
quote is an answer that no other exceeds after fees, and without one every provider on the route has failed; a
multi-quote is sorted, lists each provider once, and each with its own answer (`SortedIsOrdered`). `NoBetterQuote`, `EveryProviderListed` and
`MultiQuoteAgrees` follow, for any number of providers.

**Bridge sessions** (`BridgeProofs`). The invariant says that an entry of the cache stands for a deposit
attested once, under its key, at the time from which its expiry counts (`CacheOK`); that a session between allocation
and attestation waits for a deposit of its own that nobody else attests (`Awaited`, `Apart`); and that every
deposit pays the recipient of a session that asked for its key (`AllOwned`). `AlwaysFreshlyVouched` and
`OwnDepositUnlessShared` follow for any number of sessions. `HookInv` adds that what a session of the hook bridge holds
was computed, by the code's formula, from fees the bridge has asked at some time; `HookCallKeepsQuote` follows since
the formula is monotone in them. `SingleInv` adds that each step has set what the next one reads, which gives
`SessionsTypeCorrect`.

**TWAP** (`ComposableProofs`). The invariant `Inv` is the types with `Origins` (where the registered parameters and the
tower's order come from), `PostedParts`, `Seen` (every part that was open between the start of watching and the next
poll is posted) and `NotLate` (the clock has not passed the next poll). `ParamsOK` is what anybody can register.
`RebuiltAlwaysSame`: conversion to parts, to the chain and back loses nothing exactly for canonical parameters;
`AlwaysSoldAsAsked`: rounding loses less than an atom per part; `NothingEverMissed`: the polls the code asks for are
often enough, for every schedule.

**Multiplexer** (`ComposableProofs`). `MuxInvariant` is small (the root on chain is that of the registered list); the
weight is in two lemmas about trees of any size.
`OnlyLeavesVerify`: whatever the proof, if it leads from the hash of an order to the root of a list then the order is
in the list. A node is a leaf or the hash of two nodes (`NodesClosed`), hashing is injective and a leaf is no pair, so
a climb that ends in the tree never left it. `Climbs`: the siblings `generate_proof` collects lead from the leaf to the
root, layer by layer, promoted nodes included. From them `NothingElseVerifies` (soundness, also for proofs of other
lists), `AllRegisteredVerify` (completeness) and `MuxTyped`.

**Induction over data.** Trees, doubled delays and filtered lists are recursive functions. The induction theorems of
the library cannot be used, since they take an operator as parameter; `ArithmeticLemmas` states induction for a set of
numbers instead (`Induction`, from `LeastNumber`), which is applied to the set of those that have the property. It is
used for the facts about a recursive function's values, and before that to show that a function with the recursive
equations exists at all (`LayersExist`, `PathsExist`, `KeptExist`, and so on). The same module has what all proofs share
about products and integer division, which the SMT backend does not find by itself. The prover cannot expand the
standard `SelectSeq`, so `Multiplexer` states its filter itself.

**Only model-checked.** Liveness: `Progress`, `EveryCallReturns`, `MultiReturns`, `TowerRests`, `EverySessionEnds`, since
the prover reasons neither about fairness nor about ENABLED. The type invariant `BridgeTypeOK`, for
`ReturnAll`: the order of its list is a `CHOOSE` over permutations there, whose unfolding no backend gets through.

## 5. Where code and documentation disagree

One disagreement is shown by a run that is expected to be violated:

- `hook_not_embedded`: the signed bridge hook is handed over as `settings.app_data`, which `get_quote_impl` never
  reads, so no posted order carries it (`cow-rs/src/cross_chain_post.rs:154` against line 19).

Eight more are stated as definitions that do not hold, in no run (TLC refutes each with the constants of its module's
run):

- `ReceiverDefaultsToTrader`: a native order without a receiver names the EthFlow contract as receiver, not the
  trader (`trading/src/sdk.rs:1701` against `trading/src/types.rs:1654`);
- `TtlHonoured`: a `valid_for` shorter than the quote's own validity is not honoured on the swap path, which takes the
  later of the two (`trading/src/sdk.rs:2760` against `trading/src/types.rs:1019-1022` and `sdk.rs:2727-2730`);
- `SdkTransactionsArePaid`: `get_eth_flow_transaction` promises a transaction "ready to be sent", for any order data;
  the value is the sell amount alone, so one with a `fee_amount` is reverted (`ethflow/src/lib.rs:225` against
  `trading/src/sdk.rs:1633`);
- `UidsNeverCollide`: the documented decrement of the buy amount on a uid collision of native orders does not exist
  (`trading/src/sdk.rs:2313` against lines 2282-2284);
- `RecipientIsPaid`: a hook recipient that is no address is dropped instead of being an error, and the order pays the
  owner (`cow-rs/src/cross_chain_post.rs:178` against `parse_receiver`, lines 275-279, and `bridging/src/types.rs:422`). One of the providers
  names the target of the bridge call there, not whom the bridged funds are for (`bridging/src/across.rs:1408`);
- `RemovesFirstOnly`: `Multiplexer::remove` is said to remove the first match and removes all
  (`composable/src/multiplexer.rs:221` against line 213);
- `LateKeepsAnswers`: when a multi-quote times out, answers that were there are replaced by errors
  (`bridging/src/sdk.rs:952` against lines 885-887);
- `MinimumKept`: the total called "minimum total amount to buy" is divided by the number of parts and rounded
  down, so all parts together may buy less (`composable/src/twap.rs:517` against `composable/src/types.rs:367`).

Others were met while modelling; the modules follow the code, and no run is spent on them.

Order book and trading:

- uploads of app-data bypass the limiter "used for every outbound request" (`orderbook/src/api.rs:773`, 230);
- a large `valid_for` wraps the 32-bit deadline (`trading/src/sdk.rs:2724`, 2739, 2806), which no doc mentions;
- a partner fee above the amount it is cut from, or a protocol fee above a buy order's sell amount, wraps in 256 bits
  (`orderbook/src/quote_amounts.rs:326`), undocumented too;
- app-data given to a limit order that is no 32-byte hex is signed as zeros, padded or cut, and posted as given, so
  that body and signature differ (`trading/src/sdk.rs:2778`, 2849);
- custom app-data of the swap settings is ignored (`trading/src/sdk.rs:2616`, `types.rs:597`);
- failed uploads are ignored where an error is documented (`trading/src/sdk.rs:2481`, 2595);
- a pre-sign or EIP-1271 scheme given to `post_cow_protocol_trade` becomes EIP-712 (`trading/src/sdk.rs:2445`);
- an injected order book client is stored and never called (`trading/src/sdk.rs:553`, 376);
- a buy order of the native currency becomes a sale on chain, as the contract's data has no kind
  (`ethflow/src/lib.rs:53`), and its uid is not the predicted one;
- two different addresses are called the staging EthFlow contract (`chains/src/contracts.rs:51`, 85).

Cross-chain and bridging:

- a failure before the hook is signed (an unknown chain) fires no error callback (`cow-rs/src/cross_chain_post.rs:97`);
- the intermediate token is chosen anew instead of being "the one the quote phase picked" (line 218);
- the NEAR cache is said to be safe since equal quotes have equal addresses, but its key leaves the recipient out
  (`bridging/src/near_intents/provider.rs:74-77`); hence the condition of `OwnDeposit`;
- an entry of that cache is said to expire "at the same time as the backing quote" (lines 163-164), but its time
  counts from caching, after the attestation, so it outlives the quote by as long as that took;
- the bridge is quoted for the request as made, not for what the swap would hand over (`bridging/src/sdk.rs:1156`,
  1222);
- the Across call asks for the fees again, so that it may differ from the quote (`bridging/src/across.rs:1346`); a
  fee that does not parse, or exceeds 100 %, counts as none (962-964); trades and deposits of one transaction are
  paired by position (851-882).

Composable and settlement:

- `from_params` is said to give TWAP decoding priority for the handler shared with good-after-time orders; it tests
  the length of a good-after-time input first (`composable/src/factory.rs:159-161`, 175);
- a TWAP that is to start at block time 0 is rebuilt as one that starts at mining time (`composable/src/twap.rs:573`);
- `set_clearing_price` takes any index and pads up to it, though it is said to set the price of a token
  (`settlement/src/encoder.rs:146`).

## 6. Not modelled, and why

Left out because there is nothing for these methods to find:

- byte layouts (ABI, EIP-712, CIDs): wording of data, without control; a hash is the value it hashes;
- HTTP paths, bodies and the decoding of each type: abstracted to the classes of answer the client tells apart;
- the wasm build, which does not throttle; slippage above 100 % (a panic in debug builds);
- pre-sign, EIP-1271 and cancellation: each is one request (modelled as a call of the client) or calldata that is
  handed out, and keeps nothing; their races with the server are those of `OrderBookApi`;
- slippage suggestion: a sum of two percentages of one quote, without state;
- weiroll: lists that are only appended to; browser wallet: fields that are set and read, the wallet being elsewhere;
- refunds, simulator, vault, permit, erc20, flash-loans, cow-shed: calldata from arguments;
- subgraph, on-chain reader: one request per operation, no state;
- Bungee: the same interface as the two modelled bridges, without a cache or a second request;
- tables of chains and tokens, stub crates, examples, fuzz targets, scripts.

Left out although it could be added: reading cross-chain orders back from logs; Merkle trees of five leaves or more.

The map names the code that does something. Much of the repository does not: data types with their builders and
accessors (`orderbook/src/types.rs`, `app-data/src/types.rs`, `trading/src/types.rs`, `composable/src/types.rs` alone
are twelve thousand lines, most of them documentation), tables, display implementations, and the tests that sit in the
same files. No definition here stands for those lines, so the share of the source that is mapped is
small, and would not be larger for modelling them truthfully.

## 7. Plan

Done: limiter, client, amounts, trading flows, native orders, cross-chain post, quote aggregation, bridge sessions,
multiplexer, TWAP, settlement; the theorems of section 4.

What could follow:

1. Reading cross-chain orders from logs (`bridging/src/across.rs`, 851-882), with logs of several trades in a transaction.
2. The lifecycle of an order on both sides of a cancellation: off-chain cancel against on-chain invalidation.
3. A tower over the multiplexer: `Twap` as the leaves of `Multiplexer`'s tree.

Theorems left: `BridgeTypeOK`; that a cross-chain post implements the trading flows (`CrossSpec` implies `SdkSpec`,
which holds step by step but is used here only through the invariant); an abstract specification of an order's
way into the book that the trading flows and the native orders both implement.
