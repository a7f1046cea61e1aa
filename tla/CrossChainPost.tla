--------------------------- MODULE CrossChainPost ---------------------------
(***************************************************************************)
(* post_cross_chain_order of crates/cow-rs/src/cross_chain_post.rs: signs  *)
(* the hook that starts the bridge once the swap is settled, quotes the    *)
(* swap into the bridge's intermediate token again, and posts it, with the *)
(* callbacks of crates/bridging/src/signing_step_manager.rs between the    *)
(* steps.  It runs on a TradingSdk: its quote and its post are that        *)
(* module's actions, taken in the same step.                               *)
(*                                                                         *)
(* Provider, signer and callbacks are external: a provider names as the    *)
(* recipient of its hook whatever text it likes, an address or not (that of*)
(* crates/bridging/src/across.rs names the contract its hook calls).       *)
(***************************************************************************)
EXTENDS TradingSdk, Sequences

CONSTANTS
  Requests,    \* what a call may be made with (QuoteBridgeRequest, hook_deadline)
  Candidates,  \* the lists of intermediate tokens the provider may answer with
  Priority(_), \* TokenPriority of a token
  Supported,   \* the chains SupportedChainId::try_from knows
  Recipients,  \* the texts a provider may name as a hook's recipient
  Addresses    \* the texts that read as an address

ASSUME RequestAssumption ==
  \A r \in Requests : /\ r.amount \in Words /\ r.slippage \in Rates
                      /\ r.slippageOverride \in Option(Rates) /\ r.deadline \in Option(Nat)
                      /\ r.partnerFee \in Option(Rates)

VARIABLES
  xstep,   \* where each cross-chain call is
  request, \* what it was made with
  hook,    \* the signed bridge hook
  chosen,  \* the intermediate token it swaps into
  fired,   \* the callbacks that have been called, in order
  refused  \* the calls a callback of which returned an error

crossVars == <<xstep, request, hook, chosen, fired, refused>>

U32Max == U32Size - 1

\* The hook's deadline, a u64.
HookDeadline(r)  == ValueOr(r.deadline, U32Max)

\* Mutants: it is cut like a cast does, or not at all.
OrderDeadlineWraps(r) == HookDeadline(r) % U32Size
OrderDeadlineUncut(r) == HookDeadline(r)

\* The order's expiry, a u32.
OrderDeadline(r) == IF HookDeadline(r) > U32Max THEN U32Max ELSE HookDeadline(r)

\* determine_intermediate_token: a single candidate is taken as it is; from
\* more, the sell token is left out and one of the highest priority is taken.
Intermediates(sellToken, tokens) ==
  IF Cardinality(tokens) <= 1 THEN tokens
  ELSE {t \in tokens \ {sellToken} : \A u \in tokens \ {sellToken} : Priority(u) <= Priority(t)}

\* parse_receiver(..).ok(): a text that is no address is as good as none.
ParseReceiver(text) == {text} \cap Addresses

\* The TradeParameters of the swap, and its settings.
SwapParams(r, h) ==
  [isSell |-> TRUE, amount |-> r.amount, slippage |-> {r.slippage}, receiver |-> ParseReceiver(h.recipient),
   validFor |-> {}, validTo |-> {OrderDeadline(r)}, partnerFee |-> {}]
SwapSettings(r, h) ==
  [slippage |-> r.slippageOverride, partnerFee |-> r.partnerFee,
   appData |-> {[hook |-> h, metadata |-> r.metadata]}]

\* get_bridge_signed_hook: the recipient is the provider's word, the nonce ties the hook to the bridge call and to
\* the deadline (derive_hook_nonce; hashing is injective).
SignedHook(r, recipient) ==
  [recipient |-> recipient, deadline |-> HookDeadline(r),
   nonce |-> [call |-> r, deadline |-> HookDeadline(r)]]
-----------------------------------------------------------------------------
CrossInit ==
  /\ SdkInit
  /\ xstep = [c \in Calls |-> "idle"]
  /\ request = [c \in Calls |-> {}]
  /\ hook = [c \in Calls |-> {}]
  /\ chosen = [c \in Calls |-> {}]
  /\ fired = [c \in Calls |-> <<>>]
  /\ refused = {}

Goto(c, s) == xstep' = [xstep EXCEPT ![c] = s]
Fire(c, f) == fired' = [fired EXCEPT ![c] = Append(@, f)]
Hold       == UNCHANGED <<request, hook, chosen, refused>>
Verdict(c, ok) ==
  /\ refused' = IF ok THEN refused ELSE refused \cup {c}
  /\ UNCHANGED <<request, hook, chosen>>

\* The call begins, and with it before_bridging_sign; an error of the callback
\* ends the call.
BeginPost(c, r) ==
  /\ xstep[c] = "idle"
  /\ Goto(c, "beforeBridging") /\ Fire(c, "before_bridging_sign")
  /\ request' = [request EXCEPT ![c] = {r}]
  /\ UNCHANGED <<vars, hook, chosen, refused>>

\* The callback is done; then the chain of the request is looked up.
BeforeBridgingDone(c, ok) ==
  /\ xstep[c] = "beforeBridging"
  /\ \E r \in request[c] : Goto(c, IF ok /\ r.chain \in Supported THEN "signing" ELSE
                                   IF ok THEN "noChain" ELSE "aborted")
  /\ UNCHANGED <<vars, fired>> /\ Verdict(c, ok)

\* get_bridge_signed_hook: the provider quotes, builds the call and signs, or
\* one of these fails.
HookSigned(c) ==
  /\ xstep[c] = "signing"
  /\ \E r \in request[c], recipient \in Recipients :
       hook' = [hook EXCEPT ![c] = {SignedHook(r, recipient)}]
  /\ Goto(c, "afterBridging") /\ Fire(c, "after_bridging_sign")
  /\ UNCHANGED <<vars, request, chosen, refused>>
HookFails(c) ==
  /\ xstep[c] = "signing"
  /\ Goto(c, "failed") /\ Fire(c, "on_bridging_sign_error")
  /\ UNCHANGED vars /\ Hold

AfterBridgingDone(c, ok) ==
  /\ xstep[c] = "afterBridging"
  /\ Goto(c, IF ok THEN "resolving" ELSE "aborted")
  /\ UNCHANGED <<vars, fired>> /\ Verdict(c, ok)

\* resolve_intermediate_token asks the provider once more; then the swap is
\* quoted (get_quote_only_with_settings).
Resolve(c, tokens) ==
  /\ xstep[c] = "resolving"
  /\ \E r \in request[c], h \in hook[c] :
       \E t \in Intermediates(r.sellToken, tokens) :
         /\ chosen' = [chosen EXCEPT ![c] = {t}]
         /\ RequestQuote(c, SwapParams(r, h), SwapSettings(r, h), TRUE)
  /\ Goto(c, "quoting")
  /\ UNCHANGED <<request, hook, fired, refused>>

\* It has no token to offer, or none but the sell token, or fails.
ResolveFails(c) ==
  /\ xstep[c] = "resolving"
  /\ Goto(c, "failed")
  /\ UNCHANGED <<vars, fired>> /\ Hold

\* The quote is there, and before_order_sign is called; or it failed.
Quoting(c) ==
  /\ xstep[c] = "quoting"
  /\ \/ FinishQuote(c) /\ Goto(c, "beforeOrder") /\ Fire(c, "before_order_sign")
     \/ QuoteFails(c) /\ Goto(c, "failed") /\ UNCHANGED fired
  /\ Hold

\* Mutant: an error of the callback is not propagated.
BeforeOrderDoneAnyway(c, ok) ==
  /\ xstep[c] = "beforeOrder"
  /\ Goto(c, "posting") /\ PostFromQuote(c, c)
  /\ UNCHANGED fired /\ Verdict(c, ok)

\* The callback is done, and the order is signed and posted
\* (post_swap_order_from_quote).
BeforeOrderDone(c, ok) ==
  /\ xstep[c] = "beforeOrder"
  /\ \/ ok /\ Goto(c, "posting") /\ PostFromQuote(c, c)
     \/ ~ ok /\ Goto(c, "aborted") /\ UNCHANGED vars
  /\ UNCHANGED fired /\ Verdict(c, ok)

\* Mutant: the last callback is called whatever the answer was.
PostingAlwaysFires(c, answered) ==
  /\ xstep[c] = "posting"
  /\ \/ AcceptOrder(c, answered)
     \/ ~ answered /\ PostFails(c)
  /\ Goto(c, IF answered THEN "afterOrder" ELSE "failed") /\ Fire(c, "after_order_sign")
  /\ Hold

\* The order's answer: accepted, or an error (refused, or accepted and lost).
Posting(c, answered) ==
  /\ xstep[c] = "posting"
  /\ \/ AcceptOrder(c, answered)
     \/ ~ answered /\ PostFails(c)
  /\ IF answered THEN Goto(c, "afterOrder") /\ Fire(c, "after_order_sign")
                 ELSE Goto(c, "failed") /\ Fire(c, "on_order_sign_error")
  /\ Hold

\* The last callback; its error is returned although the order is posted.
AfterOrderDone(c, ok) ==
  /\ xstep[c] = "afterOrder"
  /\ Goto(c, IF ok THEN "done" ELSE "aborted")
  /\ UNCHANGED <<vars, fired>> /\ Verdict(c, ok)

World == (Tick \/ \E c \in Calls, m \in Markets : AnswerQuote(c, m)) /\ UNCHANGED crossVars

CrossNext ==
  \/ World
  \/ \E c \in Calls :
       \/ \E r \in Requests : BeginPost(c, r)
       \/ HookSigned(c) \/ HookFails(c) \/ ResolveFails(c) \/ Quoting(c)
       \/ \E tokens \in Candidates : Resolve(c, tokens)
       \/ \E ok \in BOOLEAN :
            BeforeBridgingDone(c, ok) \/ AfterBridgingDone(c, ok) \/ BeforeOrderDone(c, ok)
            \/ Posting(c, ok) \/ AfterOrderDone(c, ok)

CrossSpec == CrossInit /\ [][CrossNext]_<<vars, crossVars>>
-----------------------------------------------------------------------------
XSteps == {"idle", "beforeBridging", "noChain", "signing", "afterBridging", "resolving", "quoting",
           "beforeOrder", "posting", "afterOrder", "done", "failed", "aborted"}

CrossTypeOK ==
  /\ xstep \in [Calls -> XSteps]
  /\ refused \subseteq Calls
  /\ \A c \in Calls :
       /\ Cardinality(request[c]) = (IF xstep[c] = "idle" THEN 0 ELSE 1)
       /\ chosen[c] # {} => hook[c] # {}
       /\ step[c] # "idle" => chosen[c] # {}
       /\ \A a \in ask[c] : \A t \in a.p.validTo : t \in U32

\* A call that a callback refused before the order was signed leaves no order
\* behind, one refused after it was posted leaves exactly one, and so does one
\* that succeeded; only an error of the post leaves the caller in doubt.
AbortLeavesNothing ==
  \A c \in Calls :
    LET mine   == {o \in book : o.by = c}
        posted == "after_order_sign" \in {fired[c][i] : i \in DOMAIN fired[c]}
    IN  /\ c \in refused /\ ~ posted => mine = {}
        /\ posted => Cardinality(mine) = 1

\* The proceeds of an order go to the recipient of the hook its own call signed,
\* or, where that is no address, stay the owner's, and never go to anyone else;
\* and the two expire together: settled after its hook has, an order's proceeds
\* would stay where they are (an order cannot say more than 32 bits of deadline).
HookCoversOrder ==
  \A o \in book : \A h \in hook[o.by] :
    /\ o.order.receiver = IF h.recipient \in Addresses THEN h.recipient ELSE "owner"
    /\ o.order.validTo <= h.deadline
    /\ o.order.validTo = h.deadline \/ o.order.validTo = U32Max

\* What the callbacks tell is so: the hook is signed once after_bridging_sign is
\* called, and never if on_bridging_sign_error is; an order is in the book once
\* after_order_sign is called.  The reverse does not hold of an order's error.
CallbacksTruthful ==
  \A c \in Calls :
    LET called == {fired[c][i] : i \in DOMAIN fired[c]}
    IN  /\ "after_bridging_sign" \in called => hook[c] # {}
        /\ "on_bridging_sign_error" \in called => hook[c] = {} /\ xstep[c] = "failed"
        /\ "after_order_sign" \in called => \E o \in book : o.by = c
        /\ xstep[c] = "done" =>
             fired[c] = <<"before_bridging_sign", "after_bridging_sign",
                          "before_order_sign", "after_order_sign">>
-----------------------------------------------------------------------------
(* What the documentation says and the code does not do.                   *)

\* crates/cow-rs/src/cross_chain_post.rs: the swap is quoted again with the
\* signed hook embedded in the app-data.
HookInAppData ==
  \A o \in book : \A h \in hook[o.by] : \E d \in o.order.appData.hashOf.custom : d.hook = h

\* parse_receiver says that an unreadable recipient is an error, and
\* BridgeHook.recipient (crates/bridging/src/types.rs) that it is the address of
\* the bridged funds; the caller drops the error, and the order pays the owner.
RecipientIsPaid == \A o \in book : \A h \in hook[o.by] : o.order.receiver = h.recipient
=============================================================================
