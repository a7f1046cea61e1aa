---------------------------- MODULE BridgeQuotes ----------------------------
(***************************************************************************)
(* How the BridgingSdk asks several bridge providers at once               *)
(* (crates/bridging/src/sdk.rs):                                           *)
(*   best   get_best_quote: the best quote of the providers on the route   *)
(*   all    get_all_quotes: what each provider on the route said           *)
(*   multi  fetch_multi_quote: every provider, under one deadline, sorted  *)
(* Providers answer in any order, late, or never; no provider has a        *)
(* deadline of its own (DEFAULT_PROVIDER_TIMEOUT_MS is not used).          *)
(***************************************************************************)
EXTENDS Integers, Sequences, FiniteSets, SequencesExt

CONSTANTS
  Calls,      \* the requests under way
  Providers,  \* the number of registered providers, in their order
  Routed,     \* those that support the route
  Buys, Fees  \* what a quote may say: buy_amount and fee_amount

ASSUME BridgeAssumption ==
  Providers \in Nat /\ Routed \subseteq 1..Providers /\ Buys \subseteq Nat /\ Fees \subseteq Nat

VARIABLES
  phase,    \* where each call is
  mode,     \* which of the three functions it is
  answers,  \* what each provider has answered to it so far
  result    \* what it returned

quoteVars == <<phase, mode, answers, result>>

Pending == [is |-> "pending"]
Failed  == [is |-> "error"]
Quote(b, f) == [is |-> "quote", buy |-> b, fee |-> f]
Replies == {Failed} \cup {Quote(b, f) : b \in Buys, f \in Fees}

\* net_buy_amount, and the amount after slippage of a multi-quote: the
\* subtraction saturates.
NetBuyAmount(q) == IF q.fee > q.buy THEN 0 ELSE q.buy - q.fee

\* The providers a function asks: the multi-quote does not look at the route.
Asked(m) == IF m = "multi" THEN 1..Providers ELSE Routed

Answered(c) == {p \in Asked(mode[c]) : answers[c][p] # Pending}
-----------------------------------------------------------------------------
BridgeInit ==
  /\ phase = [c \in Calls |-> "idle"]
  /\ mode = [c \in Calls |-> "best"]
  /\ answers = [c \in Calls |-> [p \in 1..Providers |-> Pending]]
  /\ result = [c \in Calls |-> <<>>]

\* A call polls all its providers; a best quote wants at least one on the route.
Poll(c, m) ==
  /\ phase[c] = "idle"
  /\ mode' = [mode EXCEPT ![c] = m]
  /\ phase' = [phase EXCEPT ![c] = IF m = "best" /\ Routed = {} THEN "noProviders" ELSE "asking"]
  /\ UNCHANGED <<answers, result>>

\* External: a provider answers, with a quote or an error.
Answer(c, p, r) ==
  /\ phase[c] = "asking" /\ p \in Asked(mode[c]) /\ answers[c][p] = Pending
  /\ answers' = [answers EXCEPT ![c][p] = r]
  /\ UNCHANGED <<phase, mode, result>>

QuotesOf(c) == {p \in Answered(c) : answers[c][p].is = "quote"}

\* Mutant: the fee is left out of the comparison.
BestOfGross(c) ==
  CHOOSE p \in QuotesOf(c) : \A o \in QuotesOf(c) : answers[c][o].buy <= answers[c][p].buy

\* What max_by_key returns: the last of the greatest.
BestOf(c) ==
  CHOOSE p \in QuotesOf(c) :
    \A o \in QuotesOf(c) : /\ NetBuyAmount(answers[c][o]) <= NetBuyAmount(answers[c][p])
                           /\ NetBuyAmount(answers[c][o]) = NetBuyAmount(answers[c][p]) => o <= p

\* An entry of a multi-quote: the provider and its answer.
Entry(p, r) == [provider |-> p, answer |-> r]
Amount(e)   == IF e.answer.is = "quote" THEN NetBuyAmount(e.answer) ELSE 0

\* fill_timeout_results: an entry with neither quote nor error gets an error, and
\* so does every provider past the end.
FillTimeouts(entries) ==
  [p \in 1..Providers |->
     IF p > Len(entries) \/ entries[p].answer = Pending THEN Entry(p, Failed) ELSE entries[p]]

\* The order of a stable sort, the greatest amount first.
Before(entries, p, o) ==
  Amount(entries[p]) > Amount(entries[o]) \/ (Amount(entries[p]) = Amount(entries[o]) /\ p < o)

Sorted(entries) ==
  LET place == [p \in 1..Providers |-> Cardinality({o \in 1..Providers : Before(entries, o, p)}) + 1]
  IN  [i \in 1..Providers |-> entries[CHOOSE p \in 1..Providers : place[p] = i]]

Return(c, s, r) ==
  /\ phase' = [phase EXCEPT ![c] = s]
  /\ result' = [result EXCEPT ![c] = r]
  /\ UNCHANGED <<mode, answers>>

\* Every provider has answered: join_all is ready.
AllAnswered(c) == phase[c] = "asking" /\ Answered(c) = Asked(mode[c])

ReturnBest(c) ==
  /\ AllAnswered(c) /\ mode[c] = "best"
  /\ IF QuotesOf(c) = {} THEN Return(c, "noQuote", <<>>)
     ELSE Return(c, "ok", <<Entry(BestOf(c), answers[c][BestOf(c)])>>)

\* In the order of registration.
ReturnAll(c) ==
  /\ AllAnswered(c) /\ mode[c] = "all"
  /\ LET order == SetToSortSeq(Routed, <)
     IN  Return(c, "ok", [i \in DOMAIN order |-> Entry(order[i], answers[c][order[i]])])

ReturnMulti(c) ==
  /\ AllAnswered(c) /\ mode[c] = "multi"
  /\ Return(c, "ok", Sorted(FillTimeouts([p \in 1..Providers |-> Entry(p, answers[c][p])])))

\* Mutant: what has not been answered is left out.
TimeoutDrops(c) ==
  /\ phase[c] = "asking" /\ mode[c] = "multi"
  /\ LET there == SetToSortSeq(Answered(c), <)
     IN  Return(c, "timeout", [i \in DOMAIN there |-> Entry(there[i], answers[c][there[i]])])

\* Mutants: the answers are kept and the rest not filled in; the deadline counts
\* from the first answer on.
TimeoutUnfilled(c) ==
  /\ phase[c] = "asking" /\ mode[c] = "multi" /\ ~ AllAnswered(c)
  /\ Return(c, "timeout", Sorted([p \in 1..Providers |-> Entry(p, answers[c][p])]))
TimeoutAfterFirst(c) ==
  /\ phase[c] = "asking" /\ mode[c] = "multi" /\ ~ AllAnswered(c) /\ Answered(c) # {}
  /\ Return(c, "timeout", Sorted(FillTimeouts([p \in 1..Providers |-> Entry(p, Failed)])))

\* The one deadline of a multi-quote passes before the last answer is there:
\* every answer is replaced by an error.
Timeout(c) ==
  /\ phase[c] = "asking" /\ mode[c] = "multi" /\ ~ AllAnswered(c)
  /\ Return(c, "timeout", Sorted(FillTimeouts([p \in 1..Providers |-> Entry(p, Failed)])))

BridgeNext ==
  \E c \in Calls :
    \/ \E m \in {"best", "all", "multi"} : Poll(c, m)
    \/ \E p \in 1..Providers, r \in Replies : Answer(c, p, r)
    \/ ReturnBest(c) \/ ReturnAll(c) \/ ReturnMulti(c) \/ Timeout(c)

\* A ready future is polled, and a deadline passes; no provider has to answer.
BridgeSpec ==
  /\ BridgeInit /\ [][BridgeNext]_quoteVars
  /\ \A c \in Calls : /\ WF_quoteVars(ReturnBest(c)) /\ WF_quoteVars(ReturnAll(c))
                      /\ WF_quoteVars(ReturnMulti(c)) /\ WF_quoteVars(Timeout(c))
-----------------------------------------------------------------------------
Done == {"ok", "noProviders", "noQuote", "timeout"}

BridgeTypeOK ==
  /\ phase \in [Calls -> {"idle", "asking"} \cup Done]
  /\ mode \in [Calls -> {"best", "all", "multi"}]
  /\ answers \in [Calls -> [1..Providers -> Replies \cup {Pending}]]
  /\ \A c \in Calls : \A i \in DOMAIN result[c] :
       result[c][i].provider \in 1..Providers /\ result[c][i].answer \in Replies

\* A best quote leaves the trader no better one: it is what one provider on the
\* route answered, with the amount and the fee of that answer; of all that the
\* others answered none brings more after its fee; and it fails only if not one
\* of them quoted.
BestIsBest ==
  \A c \in Calls : mode[c] = "best" =>
    /\ phase[c] = "ok" =>
         /\ \E p \in Routed : result[c] = <<[provider |-> p, answer |-> answers[c][p]]>>
         /\ \A p \in Routed : answers[c][p].is = "quote" =>
           answers[c][p].buy - answers[c][p].fee
             <= LET q == result[c][1].answer IN IF q.fee > q.buy THEN 0 ELSE q.buy - q.fee
    /\ phase[c] = "noQuote" => \A p \in Routed : answers[c][p] = Failed

\* Two functions of the code, which compare by different code, agree: given the
\* same answers of the same providers, the first of a multi-quote brings what the
\* best quote brings.
MultiAgreesWithBest ==
  \A c, d \in Calls :
    /\ mode[c] = "best" /\ mode[d] = "multi" /\ phase[c] = "ok" /\ phase[d] = "ok"
    /\ Routed = 1..Providers /\ answers[c] = answers[d]
    => Amount(result[c][1]) = Amount(result[d][1])

\* A multi-quote accounts for every provider exactly once, timed out or not, with
\* the amounts in order and ties in the order of registration; and when all have
\* answered, each stands beside its own answer, whatever order they came in.
MultiComplete ==
  \A c \in Calls : mode[c] = "multi" /\ phase[c] \in Done =>
    /\ Len(result[c]) = Providers
    /\ {result[c][i].provider : i \in DOMAIN result[c]} = 1..Providers
    /\ \A i, j \in DOMAIN result[c] : i < j =>
         \/ Amount(result[c][i]) > Amount(result[c][j])
         \/ /\ Amount(result[c][i]) = Amount(result[c][j])
            /\ result[c][i].provider < result[c][j].provider
    /\ phase[c] = "ok" => \A i \in DOMAIN result[c] :
         result[c][i].answer = answers[c][result[c][i].provider]

\* A multi-quote returns, although no provider has to answer.
MultiReturns ==
  \A c \in Calls : (phase[c] = "asking" /\ mode[c] = "multi") ~> phase[c] \in Done

\* crates/bridging/src/sdk.rs: at the deadline the results that completed are
\* returned; only the providers that did not answer in time get an error.
LateKeepsAnswers ==
  \A c \in Calls : phase[c] = "timeout" =>
    \A i \in DOMAIN result[c] : LET p == result[c][i].provider IN
      answers[c][p] # Pending => result[c][i].answer = answers[c][p]
=============================================================================
