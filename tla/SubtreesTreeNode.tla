-------------------------- MODULE SubtreesTreeNode --------------------------
(***************************************************************************)
(* subtrees_and_paths.cc compiled with USE_TREE_NODE: the edges build a    *)
(* binary tree of tree_node under node 1, and the program gives up when an *)
(* edge names a parent that is not there yet or has two children already.  *)
(* "add" raises the subtree that get_node finds; "max" takes the search    *)
(* paths from the root to both nodes, prunes what they share down to the   *)
(* nearest common ancestor, and reports the largest value that is left.    *)
(***************************************************************************)
EXTENDS TreePositions, AdjacencyList, FiniteSetsExt

CONSTANTS
    Inputs,   \* records of n, the list of edges and the list of queries
    MinValue  \* std::numeric_limits<int>::min()

\* n - 1 edges that close no cycle are a tree.
InputsOK ==
    /\ MinValue \in Int
    /\ \A in \in Inputs :
          /\ in.n \in Nat \ {0}
          /\ in.pairs \in Seq((1..in.n) \X (1..in.n)) /\ Len(in.pairs) = in.n - 1
          /\ IsForest(1..in.n, in.pairs)
          /\ in.queries \in Seq([kind: {"add", "max", "other"}, a: Nat, b: Int])

VARIABLES
    n, pairs, queries,  \* what the program is given
    tree,               \* positions to [id, value]
    taken,              \* edges read
    q,                  \* queries read
    head,               \* max_value: the nearest shared ancestor so far
    path_a, path_b,     \* max_value: what is left of the search paths
    answers,            \* the values printed
    pc,
    status

args == <<n, pairs, queries>>
paths == <<head, path_a, path_b>>
vars == <<args, tree, taken, q, paths, answers, pc, status>>

Query == queries[q]

\* get_node: where the node with this ID is.  The edges close no cycle, so there
\* is one at most and the order of the search does not matter.
Places(id) == { p \in DOMAIN tree : tree[p].id = id }

Place(id) == CHOOSE p \in Places(id) : TRUE

\* The search path that get_node leaves: the IDs and values from the root.
SearchPath(id) == [k \in DOMAIN PathTo(Place(id)) |-> tree[PathTo(Place(id))[k]]]

ValuesOf(path) == { path[k].value : k \in DOMAIN path }

Init ==
    /\ \E in \in Inputs : n = in.n /\ pairs = in.pairs /\ queries = in.queries
    /\ tree = AddNode(EmptyTree, Root, [id |-> 1, value |-> 0])
    /\ taken = 0 /\ q = 0
    /\ head = [id |-> 1, value |-> 0] /\ path_a = <<>> /\ path_b = <<>>
    /\ answers = <<>>
    /\ pc = "edges"
    /\ status = "running"

Lower == Min(ToSet(pairs[taken + 1]))

Higher == Max(ToSet(pairs[taken + 1]))

\* The first free child of the parent, left before right.
FreeSide == IF Append(Place(Lower), Left) \in DOMAIN tree THEN Right ELSE Left

Full(p) == Append(p, Left) \in DOMAIN tree /\ Append(p, Right) \in DOMAIN tree

\* Mutation of Accepts: a third child replaces the second.
AcceptsFull == Places(Lower) # {}

Accepts == Places(Lower) # {} /\ ~Full(Place(Lower))

ReadEdge == pc = "edges" /\ taken < n - 1

InsertEdge ==
    /\ ReadEdge
    /\ Accepts
    /\ tree' = AddNode(tree, Append(Place(Lower), FreeSide), [id |-> Higher, value |-> 0])
    /\ taken' = taken + 1
    /\ UNCHANGED <<args, q, paths, answers, pc, status>>

\* "Failed to find node with ID", "Both children of node ... are filled".
RejectEdge ==
    /\ ReadEdge
    /\ ~Accepts
    /\ pc' = "done" /\ status' = "EXIT_FAILURE"
    /\ UNCHANGED <<args, tree, taken, q, paths, answers>>

StartQueries ==
    /\ pc = "edges"
    /\ taken = n - 1
    /\ pc' = "queries"
    /\ UNCHANGED <<args, tree, taken, q, paths, answers, status>>

ReadQuery(kind) ==
    /\ pc = "queries"
    /\ q < Len(queries)
    /\ queries[q + 1].kind = kind
    /\ q' = q + 1
    /\ UNCHANGED <<args, taken>>

\* blanket_add on the subtree; on no subtree when the node is not found.
Add ==
    /\ ReadQuery("add")
    /\ LET raised == IF Places(Query'.a) = {} THEN {} ELSE SubtreeAt(tree, Place(Query'.a))
       IN  tree' = [p \in DOMAIN tree |->
                       IF p \in raised THEN [tree[p] EXCEPT !.value = @ + Query'.b] ELSE tree[p]]
    /\ UNCHANGED <<paths, answers, pc, status>>

StartMax ==
    /\ ReadQuery("max")
    /\ IF Places(Query'.a) = {} \/ Places(Query'.b) = {}
         THEN answers' = Append(answers, MinValue) /\ UNCHANGED <<paths, pc>>
         ELSE /\ head' = tree[Root]
              /\ path_a' = SearchPath(Query'.a) /\ path_b' = SearchPath(Query'.b)
              /\ pc' = "prune"
              /\ UNCHANGED answers
    /\ UNCHANGED <<tree, status>>

Shared == path_a # <<>> /\ path_b # <<>> /\ path_a[1].id = path_b[1].id

Prune ==
    /\ pc = "prune"
    /\ Shared
    /\ head' = path_a[1]
    /\ path_a' = Tail(path_a) /\ path_b' = Tail(path_b)
    /\ UNCHANGED <<args, tree, taken, q, answers, pc, status>>

Report ==
    /\ pc = "prune"
    /\ ~Shared
    /\ answers' = Append(answers,
                         Max({head.value} \cup ValuesOf(path_a) \cup ValuesOf(path_b)))
    /\ pc' = "queries"
    /\ UNCHANGED <<args, tree, taken, q, paths, status>>

UnknownQuery ==
    /\ ReadQuery("other")
    /\ pc' = "done" /\ status' = "EXIT_FAILURE"
    /\ UNCHANGED <<tree, paths, answers>>

Exit ==
    /\ pc = "queries"
    /\ q = Len(queries)
    /\ pc' = "done" /\ status' = "EXIT_SUCCESS"
    /\ UNCHANGED <<args, tree, taken, q, paths, answers>>

Finished == pc = "done" /\ UNCHANGED vars

Next ==
    \/ InsertEdge \/ RejectEdge \/ StartQueries
    \/ Add \/ StartMax \/ Prune \/ Report
    \/ UnknownQuery \/ Exit
    \/ Finished

Spec == Init /\ [][Next]_vars /\ WF_vars(Next)

----------------------------------------------------------------------------
\* While shared ancestors are pruned, the nearest one and the rests of the two
\* paths hold the whole way from one node to the other, and the ancestors
\* pruned before it are not on that way.
PruneKeepsPath ==
    pc = "prune" =>
        LET a == Place(Query.a)
            b == Place(Query.b)
            common == Len(LongestCommonPrefix({a, b}))
            pruned == Len(a) + 1 - Len(path_a)
        IN  /\ pruned = Len(b) + 1 - Len(path_b)
            /\ pruned <= common + 1
            /\ head = IF pruned = 0 THEN tree[Root] ELSE tree[SubSeq(a, 1, pruned - 1)]

\* What SubtreeQueries is to see: the queries answered, the nodes (node 1
\* always exists here, even when no edge names it) and their values.
Answered == IF pc = "prune" \/ (pc = "done" /\ status = "EXIT_FAILURE" /\ q > 0)
              THEN q - 1 ELSE q

Known == IF n = 1 THEN {1} ELSE UNION { ToSet(pairs[k]) : k \in DOMAIN pairs }

PromisedValues ==
    [x \in Known |-> IF Places(x) = {} THEN 0 ELSE tree[Place(x)].value]
============================================================================
