---------------------------- MODULE ResContainer ----------------------------
(***************************************************************************)
(* The resource trie node, ResContainerNode of auth_kernel_dto (not under  *)
(* src/; modelled from spec section 4.2).  A trie is a record:             *)
(*   nodes - the set of nodes, each named by its label path from the root  *)
(*           (the root is <<>>); a parent owns the children whose path     *)
(*           extends its own by one label                                  *)
(*   info  - the leaf info of the nodes that are leaves: the child of a    *)
(*           "$" node keyed by an action holds the policy of that action   *)
(* Labels "*" and "**" are ordinary labels here; only the matcher gives    *)
(* them a meaning.                                                         *)
(***************************************************************************)
EXTENDS Sequences, SequencesExt, FiniteSets, Functions

\* ResContainerNode::new(): a root with no children.
NewResContainer == [nodes |-> {<<>>}, info |-> [n \in {} |-> n]]

IsChildOf(m, n) == Len(m) = Len(n) + 1 /\ IsPrefix(n, m)

HasChild(t, n, label) == Append(n, label) \in t.nodes

ChildLen(t, n) == Cardinality({m \in t.nodes : IsChildOf(m, n)})

InsertChild(t, n, label) == [t EXCEPT !.nodes = @ \cup {Append(n, label)}]

\* insert_leaf: the child keyed by the action, holding the leaf info; an
\* existing leaf of that action is overwritten in place.
InsertLeaf(t, n, action, leaf) ==
    [nodes |-> t.nodes \cup {Append(n, action)},
     info  |-> (Append(n, action) :> leaf) @@ t.info]

\* remove_child: the child and its whole subtree go; absent is a no-op.
RemoveChild(t, n, label) ==
    LET gone(m) == IsPrefix(Append(n, label), m)
    IN  [nodes |-> {m \in t.nodes : ~gone(m)},
         info  |-> Restrict(t.info, {m \in DOMAIN t.info : ~gone(m)})]

=============================================================================
