----------------------------- MODULE BstInsert -----------------------------
(***************************************************************************)
(* The first half of tree_top_view.cc and of tree_level_order.cc, which    *)
(* share it word for word: main reads values and bst_insert descends from  *)
(* the root to a free place for each, equal values to the left.  The view  *)
(* that is printed afterwards is modelled by the modules that extend this. *)
(***************************************************************************)
EXTENDS TreePositions

CONSTANT
    Inputs  \* sequences of values to insert

InputsOK == \A s \in Inputs : s \in Seq(Nat)

VARIABLES
    input,  \* the values the program is given
    taken,  \* how many have been read
    at,     \* the node bst_insert has been called on
    tree,   \* positions to values
    pc

insertVars == <<input, taken, at, tree, pc>>

Value == input[taken]

\* Mutation of Side: equal values to the right.
SideOfGreaterOrEqual == IF Value < tree[at] THEN Left ELSE Right

Side == IF Value <= tree[at] THEN Left ELSE Right

InsertInit ==
    /\ input \in Inputs
    /\ taken = 0
    /\ at = Root
    /\ tree = EmptyTree
    /\ pc = "read"

\* main: the first value makes the root, so that bst_insert never meets the
\* null root for which it would throw.
MakeRoot ==
    /\ pc = "read"
    /\ taken = 0 /\ taken < Len(input)
    /\ taken' = 1
    /\ tree' = AddNode(tree, Root, input[1])
    /\ UNCHANGED <<input, at, pc>>

CallInsert ==
    /\ pc = "read"
    /\ taken > 0 /\ taken < Len(input)
    /\ taken' = taken + 1
    /\ at' = Root
    /\ pc' = "insert"
    /\ UNCHANGED <<input, tree>>

Descend ==
    /\ pc = "insert"
    /\ Append(at, Side) \in DOMAIN tree
    /\ at' = Append(at, Side)
    /\ UNCHANGED <<input, taken, tree, pc>>

Attach ==
    /\ pc = "insert"
    /\ Append(at, Side) \notin DOMAIN tree
    /\ tree' = AddNode(tree, Append(at, Side), Value)
    /\ pc' = "read"
    /\ UNCHANGED <<input, taken, at>>

Insert == MakeRoot \/ CallInsert \/ Descend \/ Attach

\* The view is written to fout once all values have been read.
StartView ==
    /\ pc = "read"
    /\ taken = Len(input)
    /\ pc' = "view"
    /\ UNCHANGED <<input, taken, at, tree>>

----------------------------------------------------------------------------
\* Reading the tree in inorder gives the values read so far in ascending
\* order: every node is at least all of its left subtree and less than all of
\* its right one, equal values included, and no value is lost or doubled.
SearchOrder ==
    /\ \A p, r \in DOMAIN tree : InorderBefore(p, r) => tree[p] <= tree[r]
    /\ \A p, r \in DOMAIN tree : IsPrefix(Append(p, Right), r) => tree[p] < tree[r]
    /\ ToBag(tree) = ToBag(SubSeq(input, 1, IF pc = "insert" THEN taken - 1 ELSE taken))
============================================================================
