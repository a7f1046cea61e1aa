-------------------------- MODULE MCCrossChainPost --------------------------
(* Models of CrossChainPost for TLC.                                        *)
EXTENDS CrossChainPost, TLC

Request(amount, override, fee, deadline, chain) ==
  [amount |-> amount, slippage |-> 3, slippageOverride |-> override, partnerFee |-> fee,
   deadline |-> deadline, chain |-> chain, sellToken |-> "weth", account |-> "owner",
   metadata |-> "m"]

\* No deadline, one past 32 bits with the slippage and the partner fee
\* overridden, a short one, and a chain that is not known.
CrossRequests == {Request(10, {}, {}, {}, "mainnet"), Request(10, {5}, {1}, {17}, "mainnet"),
                  Request(10, {}, {}, {2}, "mainnet"), Request(10, {}, {}, {}, "moon")}
OneRequest == {Request(10, {}, {}, {}, "mainnet")}

\* The hook pays the contract it calls, as the provider in the tree has it, the
\* account that bridges, or what is no address at all.
Named == {"spokePool", "proxy", "nowhere"}

\* A list with a stablecoin and the sell token, one with ties, the sell token
\* alone.
TokenLists == {{"usdc", "weth", "dai"}, {"dai", "eure"}, {"weth"}}

PriorityOf(t) == IF t = "usdc" THEN 4 ELSE 1

ConfigDefault == [slippage |-> 1, partnerFee |-> {2}]
OneMarket == {[other |-> 20, fee |-> 1]}

CallSymmetry == Permutations(Calls)
=============================================================================
