------------------------------- MODULE MCTwap -------------------------------
(* A model of Twap for TLC.                                                 *)
EXTENDS Twap

CONSTANTS a, b, zero, r, body, salt

MCToken == {a, b, zero}

D(sell, buy, start, n, t, limit) ==
  [sellToken |-> a, buyToken |-> b, rest |-> r, sellAmount |-> sell, buyAmount |-> buy,
   start |-> start, numParts |-> n, partDuration |-> t, limit |-> limit]

\* Totals that divide and that do not, starts known, past and unknown, parts that close
\* before the next opens, and totals that are not valid.
MCTotals ==
  {D(6, 7, {3}, 3, 2, {}), D(6, 2, {}, 3, 2, {1}), D(7, 8, {5}, 2, 2, {1}),
   D(15, 15, {2}, 3, 1, {0}), D(8, 4, {0}, 2, 3, {}), D(5, 5, {1}, 0, 2, {}),
   D(4, 5, {4}, 1, 3, {2}), D(2, 5, {8}, 4, 1, {})}

S(part, min, t0, n, t, span) ==
  [sellToken |-> a, buyToken |-> b, rest |-> r, partSell |-> part, minPart |-> min,
   t0 |-> t0, n |-> n, t |-> t, span |-> span]

P(handler, words, dirty, in) ==
  [handler |-> handler, salt |-> salt, input |-> [words |-> words, dirty |-> dirty, body |-> in]]

\* Products that just fit and that wrap, no parts, input too long, too short and dirty.
MCForeign ==
  {P("Twap", 10, FALSE, S(5, 1, 2, 3, 2, 0)), P("Twap", 10, FALSE, S(8, 1, 2, 2, 2, 1)),
   P("Twap", 10, FALSE, S(1, 6, 0, 3, 2, 0)), P("Twap", 10, FALSE, S(1, 1, 2, 0, 2, 0)),
   P("Twap", 11, FALSE, S(1, 1, 3, 2, 2, 0)), P("Twap", 9, FALSE, S(1, 1, 3, 2, 2, 0)),
   P("Twap", 10, TRUE, S(2, 1, 4, 2, 2, 3)),
   P("Twap", 14, FALSE, body), P("Twap", 14, TRUE, body),
   P("StopLoss", 13, FALSE, body), P("StopLoss", 12, FALSE, body), P("StopLoss", 14, FALSE, body),
   P("Other", 0, FALSE, body)}
=============================================================================
