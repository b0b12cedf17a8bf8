---------------------------- MODULE TreePrograms ----------------------------
(***************************************************************************)
(* The programs that build trees, one of them being run:                   *)
(* subtrees_and_paths by default (Graph) and with USE_TREE_NODE (Node),    *)
(* tree_level_order (Levels), tree_top_view (TopView), swap_tree_nodes     *)
(* (Swap).                                                                 *)
(***************************************************************************)
EXTENDS Integers, Sequences

CONSTANTS
    GraphInputs, NodeInputs,  \* the Inputs of the builds of subtrees_and_paths
    MinValue,                 \* of both
    Values,                   \* the Inputs of Levels and TopView
    Swaps, Word               \* the Inputs and the Word of Swap

VARIABLES
    program,
    taken, pc,                                       \* of every program
    tree,                                            \* of all but Graph
    n, queue,                                        \* of some
    pairs, queries, q, answers, status,              \* of the first two
    nodes, edges, stack, unvisited,                  \* of Graph
    head, path_a, path_b,                            \* of Node
    input, at, out, range, left_nodes, right_nodes,  \* of Levels and TopView
    children, depths, i, j, printed                  \* of Swap

queriesOnly == <<pairs, queries, q, answers, status>>
graphOnly == <<nodes, edges, stack, unvisited>>
nodeOnly == <<head, path_a, path_b>>
viewOnly == <<input, at, out>>
topOnly == <<range, left_nodes, right_nodes>>
swapOnly == <<children, depths, i, j, printed>>
vars == <<program, taken, pc, tree, n, queue, queriesOnly, graphOnly, nodeOnly, viewOnly, topOnly, swapOnly>>

Graph == INSTANCE SubtreesAndPaths WITH Inputs <- GraphInputs
Node == INSTANCE SubtreesTreeNode WITH Inputs <- NodeInputs
Levels == INSTANCE TreeLevelOrder WITH Inputs <- Values
TopView == INSTANCE TreeTopView WITH Inputs <- Values
Swap == INSTANCE SwapTreeNodes WITH Inputs <- Swaps

ASSUME InputsAssumption == Graph!InputsOK /\ Node!InputsOK /\ Levels!InputsOK /\ Swap!InputsOK

\* What the programs that are not run would use stays at 0.
QueriesIdle == pairs = 0 /\ queries = 0 /\ q = 0 /\ answers = 0 /\ status = 0
GraphIdle == nodes = 0 /\ edges = 0 /\ stack = 0 /\ unvisited = 0
NodeIdle == head = 0 /\ path_a = 0 /\ path_b = 0
ViewIdle == input = 0 /\ at = 0 /\ out = 0
TopIdle == range = 0 /\ left_nodes = 0 /\ right_nodes = 0
SwapIdle == children = 0 /\ depths = 0 /\ i = 0 /\ j = 0 /\ printed = 0

Init ==
    \/ /\ program = "graph" /\ Graph!Init
       /\ tree = 0 /\ NodeIdle /\ ViewIdle /\ TopIdle /\ SwapIdle
    \/ /\ program = "node" /\ Node!Init
       /\ queue = 0 /\ GraphIdle /\ ViewIdle /\ TopIdle /\ SwapIdle
    \/ /\ program = "levels" /\ Levels!Init
       /\ n = 0 /\ QueriesIdle /\ GraphIdle /\ NodeIdle /\ TopIdle /\ SwapIdle
    \/ /\ program = "top_view" /\ TopView!Init
       /\ n = 0 /\ QueriesIdle /\ GraphIdle /\ NodeIdle /\ SwapIdle
    \/ /\ program = "swap" /\ Swap!Init
       /\ queue = 0 /\ QueriesIdle /\ GraphIdle /\ NodeIdle /\ ViewIdle /\ TopIdle

Next ==
    \/ /\ program = "graph" /\ Graph!Next
       /\ UNCHANGED <<program, tree, nodeOnly, viewOnly, topOnly, swapOnly>>
    \/ /\ program = "node" /\ Node!Next
       /\ UNCHANGED <<program, queue, graphOnly, viewOnly, topOnly, swapOnly>>
    \/ /\ program = "levels" /\ Levels!Next
       /\ UNCHANGED <<program, n, queriesOnly, graphOnly, nodeOnly, topOnly, swapOnly>>
    \/ /\ program = "top_view" /\ TopView!Next
       /\ UNCHANGED <<program, n, queriesOnly, graphOnly, nodeOnly, swapOnly>>
    \/ /\ program = "swap" /\ Swap!Next
       /\ UNCHANGED <<program, queue, queriesOnly, graphOnly, nodeOnly, viewOnly, topOnly>>

Spec == Init /\ [][Next]_vars /\ WF_vars(Next)

----------------------------------------------------------------------------
\* subtrees_and_paths.cc: compute_path never gives up on a target it can
\* still reach, and the pruning of max_value never loses the common ancestor.
SearchKeepsPath ==
    /\ program = "graph" => Graph!SearchStillReaches
    /\ program = "node" => Node!PruneKeepsPath

\* Either build of subtrees_and_paths.cc implements SubtreeQueries: an add
\* takes effect as a whole, every max is the maximum over the nodes that cannot
\* be avoided on the way from one end to the other, at the values of that
\* moment, and the queries are answered to the last if the program does not fail.
PromisedKnown == CASE program = "graph" -> Graph!Named [] program = "node" -> Node!Known [] OTHER -> {}
PromisedJoined == IF program \in {"graph", "node"} THEN Graph!Joined ELSE {}
PromisedQueries == IF program \in {"graph", "node"} THEN queries ELSE <<>>
PromisedAnswered == CASE program = "graph" -> Graph!Answered [] program = "node" -> Node!Answered [] OTHER -> 0
PromisedGaveUp == program \in {"graph", "node"} /\ status = "EXIT_FAILURE"
PromisedValues ==
    CASE program = "graph" -> Graph!PromisedValues [] program = "node" -> Node!PromisedValues [] OTHER -> <<>>
PromisedAnswers == IF program \in {"graph", "node"} THEN answers ELSE <<>>

Promise == INSTANCE SubtreeQueries WITH
    known <- PromisedKnown, joined <- PromisedJoined, queries <- PromisedQueries,
    q <- PromisedAnswered, gave_up <- PromisedGaveUp,
    values <- PromisedValues, answers <- PromisedAnswers

ImplementsQueries == Promise!Spec

\* bst_insert, in both programs that share it: the tree stays in search order
\* and holds each value read once for each time it was read.
SearchOrder == program \in {"levels", "top_view"} => Levels!SearchOrder

\* tree_level_order.cc: every value once per insertion, level by level.
OutputIsLevels == program = "levels" => Levels!OutputIsLevels

\* tree_top_view.cc: the topmost node of each column, from left to right.
OutputIsTopView == program = "top_view" => TopView!OutputIsTopView

\* swap_tree_nodes.cc: overlapping swaps amount to the parity at each depth.
SwapsAreParity == program = "swap" => Swap!SwapsAreParity

\* Each line of swap_tree_nodes.cc lists the nodes in order, as the swaps up to
\* its depth have left the input tree.
LinesAreInorder == program = "swap" => Swap!LinesAreInorder

\* Every search and every walk comes to its end: the queue of blanket_add, the
\* stack of compute_path, the descent of bst_insert, the multiples of a depth.
Termination == <>(pc \in {"done", "undefined"})

\* subtrees_and_paths.cc 547: "add value to all nodes rooted at subtree".
AddsFollowRoot == program = "graph" => Graph!AddsFollowRoot
=============================================================================
