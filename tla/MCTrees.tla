------------------------------ MODULE MCTrees ------------------------------
(* What the programs that build trees are given.                            *)
(*   subtrees_and_paths, by default (Graph) and with USE_TREE_NODE (Node):  *)
(*   every labelled tree of at most four nodes and queries that add twice   *)
(*   and then ask.  The graph build meets the edges with either end first;  *)
(*   the other meets them in every order, so that it rejects some.  Further *)
(*   inputs have an unknown query, or ask for a node that does not exist.   *)
(*   tree_level_order (Levels) and tree_top_view (TopView): every sequence  *)
(*   of at most five values out of four, repetitions included.              *)
(*   swap_tree_nodes (Swap): every binary tree of at most four nodes whose  *)
(*   root is 1, the other IDs placed in any order, also after their         *)
(*   children, with no swap or with two.                                    *)
EXTENDS TreePrograms, AdjacencyList, FiniteSetsExt

MCMinValue == -100

MCPairs(k) == { e \in (1..k) \X (1..k) : e[1] < e[2] }

MCTrees(k) == { E \in kSubset(k - 1, MCPairs(k)) : Component(1..k, E, 1) = 1..k }

\* The edges of a tree in some order, given with either end first.
MCEitherEnd(E) == { SetToSeq(E), [m \in 1..Cardinality(E) |-> Reverse(SetToSeq(E)[m])] }

Asked(kind, a, b) == [kind |-> kind, a |-> a, b |-> b]

MCQueries(k) ==
    { <<Asked("add", x, 2), Asked("add", y, -3), Asked("max", x, z)>> : x, y, z \in 1..k }

MCQueried(k, lists) == { [n |-> k, pairs |-> l, queries |-> s] : l \in lists, s \in MCQueries(k) }

MCUnknownQuery ==
    [n |-> 2, pairs |-> <<<<2, 1>>>>,
     queries |-> <<Asked("add", 1, 2), Asked("other", 1, 1), Asked("max", 1, 1)>>]

MCGraphInputs ==
    UNION { MCQueried(k, UNION { MCEitherEnd(E) : E \in MCTrees(k) }) : k \in 2..4 }
    \cup { MCUnknownQuery,
           [n |-> 1, pairs |-> <<>>, queries |-> <<Asked("add", 1, 2), Asked("max", 1, 1)>>] }

MCNodeInputs ==
    UNION { MCQueried(k, UNION { SetToSeqs(E) : E \in MCTrees(k) }) : k \in 1..4 }
    \cup { MCUnknownQuery,
           [n |-> 2, pairs |-> <<<<1, 2>>>>,
            queries |-> <<Asked("max", 3, 2), Asked("add", 3, 2), Asked("max", 1, 2)>>] }

----------------------------------------------------------------------------
\* tree_level_order, tree_top_view, swap_tree_nodes

MCValues == UNION { [1..k -> 1..4] : k \in 0..5 }

\* A seat is an ID and a side; each ID but 1 takes a seat of its own.
MCSeatings(k) ==
    { f \in [2..k -> (1..k) \X {0, 1}] : \A a, b \in 2..k : f[a] = f[b] => a = b }

\* 1 is reached from id, following parents at most three times.
MCReachesRoot(f, k, id) ==
    \E path \in [1..4 -> 1..k] :
        /\ path[1] = id /\ path[4] = 1
        /\ \A s \in 1..3 : path[s + 1] = IF path[s] = 1 THEN 1 ELSE f[path[s]][1]

MCSeated(k) == { f \in MCSeatings(k) : \A id \in 1..k : MCReachesRoot(f, k, id) }

MCChildren(f, k) ==
    [id \in 1..k |->
        [side \in 1..2 |->
            IF \E c \in 2..k : f[c] = <<id, side - 1>>
              THEN CHOOSE c \in 2..k : f[c] = <<id, side - 1>> ELSE -1]]

MCDepths(k) == { <<>> } \cup { <<a, b>> : a, b \in 1..k }

MCSwaps ==
    { [n |-> 0, children |-> <<>>, depths |-> <<>>] }
    \cup UNION { { [n |-> k, children |-> MCChildren(f, k), depths |-> d] :
                     f \in MCSeated(k), d \in MCDepths(k) } : k \in 1..4 }
=============================================================================
