---------------------------- MODULE Multiplexer ----------------------------
(***************************************************************************)
(* Many conditional orders under one Merkle root                           *)
(* (crates/composable/src/multiplexer.rs): the owner edits a list of       *)
(* orders, keeps it in a file, registers its root on chain and hands its   *)
(* proofs to watchtowers, in any order.  A watchtower may hold proofs of   *)
(* an older list than the root on chain, or of a newer one.                *)
(*                                                                         *)
(* keccak256 is injective: a hash is the value it is made from, and the    *)
(* hash of a sorted pair is that of the set of the two.  An Option is a    *)
(* set with at most one element.  The contract is external.                *)
(***************************************************************************)
EXTENDS Integers, FiniteSets, SequencesExt

CONSTANTS
  OrderParams,  \* ConditionalOrderParams; order_id is injective on them
  MaxOrders     \* bound of the list

ASSUME MuxAssumption == MaxOrders \in Nat

VARIABLES
  orders,      \* the multiplexer's list
  file,        \* what to_json was last saved as
  root,        \* the root on chain
  published,   \* the proofs and params the watchtower holds
  registered   \* history: the list whose root is on chain

muxVars == <<orders, file, root, published, registered>>
-----------------------------------------------------------------------------
(* The Merkle tree.  Positions count from 1 here and from 0 in the code.   *)

\* Mutant: the salt and the static input are left out, so orders share an id.
LeafHashOfHandler(p) == [leaf |-> "handler"]

\* The hash of the id.
LeafHash(p) == [leaf |-> p]

HashPair(a, b) == [pair |-> {a, b}]

\* Mutant: the last node of an odd layer is paired with itself.
NextLayerDoubled(l) ==
  [i \in 1..((Len(l) + 1) \div 2) |->
     IF 2 * i <= Len(l) THEN HashPair(l[2 * i - 1], l[2 * i]) ELSE HashPair(l[2 * i - 1], l[2 * i - 1])]

\* The last node of an odd layer is promoted.
NextLayer(l) ==
  [i \in 1..((Len(l) + 1) \div 2) |->
     IF 2 * i <= Len(l) THEN HashPair(l[2 * i - 1], l[2 * i]) ELSE l[2 * i - 1]]

\* The layers of a tree, up from its leaves.  The code stops at a layer of one node, the
\* root; such a layer is its own next, so there is no need for more layers than orders.
Layers(list) ==
  LET layer[k \in 0..Len(list)] ==
        IF k = 0 THEN [i \in DOMAIN list |-> LeafHash(list[i])] ELSE NextLayer(layer[k - 1])
  IN  layer

\* root: nothing for the empty list.
RootOf(list) == IF list = <<>> THEN {} ELSE {Layers(list)[Len(list)][1]}

\* The sibling of a node, if it has one.
Sibling(layer, i) ==
  IF i % 2 = 0 THEN <<layer[i - 1]>> ELSE IF i < Len(layer) THEN <<layer[i + 1]>> ELSE <<>>

\* generate_proof: the siblings on the way up from a leaf.
ProofOf(list, i) ==
  LET layer == Layers(list)
      at[k \in 0..Len(list)] == IF k = 0 THEN i ELSE (at[k - 1] + 1) \div 2
      path[k \in 0..Len(list)] ==
        IF k = 0 THEN <<>> ELSE path[k - 1] \o Sibling(layer[k - 1], at[k - 1])
  IN  path[Len(list)]

\* dump_proofs_and_params.
DumpOf(list) == {[params |-> list[i], proof |-> ProofOf(list, i)] : i \in DOMAIN list}

\* OpenZeppelin's MerkleProof.processProof: the root a leaf has with a proof.
ProcessProof(leaf, proof) ==
  LET hash[k \in 0..Len(proof)] == IF k = 0 THEN leaf ELSE HashPair(hash[k - 1], proof[k])
  IN  hash[Len(proof)]

\* ComposableCow verifies a proof against the root it has.
Verifies(entry) == ProcessProof(LeafHash(entry.params), entry.proof) \in root
-----------------------------------------------------------------------------
MuxInit ==
  /\ orders = <<>> /\ file = {} /\ root = {} /\ published = {}
  /\ registered = <<>>

\* The list is now l.
Edit(l) == orders' = l /\ UNCHANGED <<file, root, published, registered>>

Add(p) == Len(orders) < MaxOrders /\ Edit(Append(orders, p))

\* retain: every order with the id goes.
Without(l, id) ==
  LET kept[i \in 0..Len(l)] ==
        IF i = 0 THEN <<>> ELSE IF l[i] = id THEN kept[i - 1] ELSE Append(kept[i - 1], l[i])
  IN  kept[Len(l)]

RemoveOrder(id) == Edit(Without(orders, id))

Update(i, p) == Edit([orders EXCEPT ![i] = p])

Clear == Edit(<<>>)

\* to_json; and from_json in a new process.
Save ==
  /\ file' = {orders}
  /\ UNCHANGED <<orders, root, published, registered>>

Restart == \E l \in file : Edit(l)

\* The owner registers the root (ComposableCow.setRoot): an empty list has none.
SetRoot ==
  /\ RootOf(orders) # {}
  /\ root' = RootOf(orders)
  /\ registered' = orders
  /\ UNCHANGED <<orders, file, published>>

\* The watchtower takes over the proofs of the list as it stands.
Publish ==
  /\ published' = DumpOf(orders)
  /\ UNCHANGED <<orders, file, root, registered>>

MuxNext ==
  \/ \E p \in OrderParams : Add(p) \/ RemoveOrder(p) \/ \E i \in DOMAIN orders : Update(i, p)
  \/ Clear \/ Save \/ Restart \/ SetRoot \/ Publish

MuxSpec == MuxInit /\ [][MuxNext]_muxVars
-----------------------------------------------------------------------------
\* Types; and the root on chain is that of the list registered.
MuxTypeOK ==
  /\ \A l \in {orders, registered} \cup file : l \in Seq(OrderParams) /\ Len(l) <= MaxOrders
  /\ Cardinality(file) <= 1
  /\ root = RootOf(registered)
  /\ \A e \in published : e.params \in OrderParams /\ Len(e.proof) < MaxOrders

\* No proof the owner ever handed out, of an older list or a newer one, passes
\* for an order that is not in the list she registered.
OnlyRegisteredVerify ==
  \A e \in published : Verifies(e) => e.params \in ToSet(registered)

\* Every order registered can be proved, wherever it stands in the list, how
\* often, and however ragged the tree is: proofs handed out of the registered
\* list pass on chain.
RegisteredProvable ==
  \A i \in DOMAIN registered :
    Verifies([params |-> registered[i], proof |-> ProofOf(registered, i)])

-----------------------------------------------------------------------------
(* What the documentation says and the code does not do.                   *)

\* Multiplexer::remove: the first order whose order_id matches goes.  The code
\* retains none of them, so a list with copies loses them all.
RemovesFirstOnly ==
  \A id \in ToSet(orders) : Without(orders, id) = RemoveFirst(orders, id)
=============================================================================
