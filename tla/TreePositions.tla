--------------------------- MODULE TreePositions ---------------------------
(***************************************************************************)
(* Binary trees of unique_ptr nodes, as the tree programs build them.      *)
(* A node is known by its position, the sequence of left and right turns   *)
(* that leads to it from the root; a tree is a function from its positions *)
(* to what its nodes hold.  Ownership is unique, so a position is one node *)
(* and a subtree is the positions below one.                               *)
(***************************************************************************)
EXTENDS Integers, Sequences, SequencesExt, FiniteSets

Left  == 0
Right == 1

Root == <<>>

EmptyTree == [p \in {} |-> {}]

\* std::make_unique at a position that held no node.
AddNode(t, p, node) == [q \in DOMAIN t \cup {p} |-> IF q = p THEN node ELSE t[q]]

Child(t, q, side) == IF Append(q, side) \in DOMAIN t THEN <<Append(q, side)>> ELSE <<>>

\* Mutation of ChildrenOf: right before left.
ChildrenRightFirst(t, q) == Child(t, q, Right) \o Child(t, q, Left)

\* The children that q has, left before right.
ChildrenOf(t, q) == Child(t, q, Left) \o Child(t, q, Right)

\* The nodes of the subtree at p.
SubtreeAt(t, p) == { q \in DOMAIN t : IsPrefix(p, q) }

\* The nodes from the root to p, both included.
PathTo(p) == [k \in 1..(Len(p) + 1) |-> SubSeq(p, 1, k - 1)]

----------------------------------------------------------------------------
\* Reference: the orders of a traversal, defined on positions.

\* The turn at which p and q part is left for p.
ForksBefore(p, q) ==
    \E k \in DOMAIN p \cap DOMAIN q :
        /\ SubSeq(p, 1, k - 1) = SubSeq(q, 1, k - 1)
        /\ p[k] = Left /\ q[k] = Right

\* p is printed before q by an inorder traversal.
InorderBefore(p, q) ==
    \/ ForksBefore(p, q)
    \/ \E k \in DOMAIN p : SubSeq(p, 1, k - 1) = q /\ p[k] = Left
    \/ \E k \in DOMAIN q : SubSeq(q, 1, k - 1) = p /\ q[k] = Right

\* p is visited before q level by level.
LevelBefore(p, q) == Len(p) < Len(q) \/ (Len(p) = Len(q) /\ ForksBefore(p, q))
============================================================================
