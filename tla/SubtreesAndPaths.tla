------------------------- MODULE SubtreesAndPaths -------------------------
(***************************************************************************)
(* subtrees_and_paths.cc as it is compiled by default: the edges are read  *)
(* into a directed simple_graph, "add" walks it breadth first from a node, *)
(* and "max" searches a path depth first, using the edges in either        *)
(* direction.  The order in which an unordered_set or unordered_map is     *)
(* walked is left open.                                                    *)
(***************************************************************************)
EXTENDS AdjacencyList, FiniteSetsExt

CONSTANTS
    Inputs,   \* records of n, the list of edges and the list of queries
    MinValue  \* std::numeric_limits<int>::min()

\* n - 1 edges that close no cycle are a tree.
InputsOK ==
    /\ MinValue \in Int
    /\ \A in \in Inputs :
          /\ in.n \in Nat \ {0}
          /\ in.pairs \in Seq((1..in.n) \X (1..in.n)) /\ Len(in.pairs) = in.n - 1
          /\ IsForest(1..in.n, in.pairs)
          /\ in.queries \in Seq([kind: {"add", "max", "other"}, a: 1..in.n, b: Int])

VARIABLES
    n, pairs, queries,  \* what the program is given
    nodes, edges,       \* simple_graph: node_map_type and edge_map_type
    taken,              \* edges read
    q,                  \* queries read
    queue,              \* blanket_add: nodes to raise
    stack, unvisited,   \* compute_path
    answers,            \* the values printed
    pc,
    status

args == <<n, pairs, queries>>
graph == <<nodes, edges>>
vars == <<args, graph, taken, q, queue, stack, unvisited, answers, pc, status>>

HasNode(x) == x \in DOMAIN nodes

\* insert_node, for both ends of an edge: a node that is there keeps its value.
WithNodes(ids) == [x \in DOMAIN nodes \cup ids |-> IF HasNode(x) THEN nodes[x] ELSE 0]

HasEdge(x, y) == ContainsEdge(edges, x, y)

Neighbors(x) == NeighborsOf(edges, x)

Query == queries[q]

Init ==
    /\ \E in \in Inputs : n = in.n /\ pairs = in.pairs /\ queries = in.queries
    /\ nodes = NoEdges /\ edges = NoEdges
    /\ taken = 0 /\ q = 0
    /\ queue = <<>> /\ stack = <<>> /\ unvisited = {}
    /\ answers = <<>>
    /\ pc = "edges"
    /\ status = "running"

\* The end with the lower ID is taken for the parent.
InsertEdge ==
    /\ pc = "edges"
    /\ taken < n - 1
    /\ taken' = taken + 1
    /\ LET ends == ToSet(pairs[taken'])
       IN  /\ nodes' = WithNodes(ends)
           /\ edges' = Insert(edges, Min(ends), Max(ends))
    /\ UNCHANGED <<args, q, queue, stack, unvisited, answers, pc, status>>

StartQueries ==
    /\ pc = "edges"
    /\ taken = n - 1
    /\ pc' = "queries"
    /\ UNCHANGED <<args, graph, taken, q, queue, stack, unvisited, answers, status>>

ReadQuery(kind) ==
    /\ pc = "queries"
    /\ q < Len(queries)
    /\ queries[q + 1].kind = kind
    /\ q' = q + 1
    /\ UNCHANGED <<args, graph, taken>>

\* blanket_add does nothing for a node that is not in the graph.
StartAdd ==
    /\ ReadQuery("add")
    /\ IF HasNode(Query'.a)
         THEN queue' = <<Query'.a>> /\ pc' = "add"
         ELSE UNCHANGED <<queue, pc>>
    /\ UNCHANGED <<stack, unvisited, answers, status>>

AddStep ==
    /\ pc = "add"
    /\ LET cur == Head(queue)
       IN  /\ nodes' = [nodes EXCEPT ![cur] = @ + Query.b]
           /\ \E w \in Walks(Neighbors(cur)) : queue' = Tail(queue) \o w
    /\ pc' = IF queue' = <<>> THEN "queries" ELSE "add"
    /\ UNCHANGED <<args, edges, taken, q, stack, unvisited, answers, status>>

StartMax ==
    /\ ReadQuery("max")
    /\ stack' = IF HasNode(Query'.a) THEN <<Query'.a>> ELSE <<>>
    /\ unvisited' = DOMAIN nodes
    /\ pc' = "path"
    /\ UNCHANGED <<queue, answers, status>>

MarkVisited == unvisited' = unvisited \ {Last(stack)}

Children == Neighbors(Last(stack)) \cap unvisited'

\* Mutation of Parents: the graph is searched in the direction of its edges.
NoParents == {}

Parents == { x \in unvisited' : HasEdge(x, Last(stack)) }

\* Mutation of Backtrack: the dead end stays on the stack.
KeepDeadEnd == UNCHANGED stack

Backtrack == stack' = Front(stack)

\* One pass of compute_path over a node that is not the target: on to an
\* unvisited child, or else to an unvisited parent, or else back.
PathStep ==
    /\ pc = "path"
    /\ stack # <<>> /\ Last(stack) # Query.b
    /\ MarkVisited
    /\ \/ \E x \in Children : stack' = Append(stack, x)
       \/ Children = {} /\ \E x \in Parents : stack' = Append(stack, x)
       \/ Children = {} /\ Parents = {} /\ Backtrack
    /\ UNCHANGED <<args, graph, taken, q, queue, answers, pc, status>>

\* max_value: the largest value on the stack, if the search left any.
Report ==
    /\ pc = "path"
    /\ stack # <<>> => Last(stack) = Query.b
    /\ answers' = Append(answers,
                         IF stack = <<>> THEN MinValue
                                         ELSE Max({ nodes[x] : x \in ToSet(stack) }))
    /\ stack' = <<>> /\ unvisited' = {}
    /\ pc' = "queries"
    /\ UNCHANGED <<args, graph, taken, q, queue, status>>

UnknownQuery ==
    /\ ReadQuery("other")
    /\ pc' = "done" /\ status' = "EXIT_FAILURE"
    /\ UNCHANGED <<queue, stack, unvisited, answers>>

Exit ==
    /\ pc = "queries"
    /\ q = Len(queries)
    /\ pc' = "done" /\ status' = "EXIT_SUCCESS"
    /\ UNCHANGED <<args, graph, taken, q, queue, stack, unvisited, answers>>

Finished == pc = "done" /\ UNCHANGED vars

Next ==
    \/ InsertEdge \/ StartQueries
    \/ StartAdd \/ AddStep
    \/ StartMax \/ PathStep \/ Report
    \/ UnknownQuery \/ Exit
    \/ Finished

Spec == Init /\ [][Next]_vars /\ WF_vars(Next)

----------------------------------------------------------------------------
\* The edges as they are oriented, and the nodes that they name.
Joined == { <<Min(ToSet(pairs[k])), Max(ToSet(pairs[k]))>> : k \in DOMAIN pairs }

Named == UNION { ToSet(pairs[k]) : k \in DOMAIN pairs }

\* Queries whose effect is complete, and the values without a half-done "add".
Answered == IF pc \in {"add", "path"} \/ status = "EXIT_FAILURE" THEN q - 1 ELSE q

\* Reference: x and the nodes that hang from it, over any number of edges.
Hanging(x) ==
    { y \in Named :
        \A S \in SUBSET Named :
            (x \in S /\ \A e \in Joined : e[1] \in S => e[2] \in S) => y \in S }

\* The search never gives up on a target it can still reach: the target is
\* on the stack, or connected to the stack through unvisited nodes.  Hence
\* the stack is not empty while both ends are nodes of the tree.
SearchStillReaches ==
    (pc = "path" /\ {Query.a, Query.b} \subseteq Named) =>
        \E k \in DOMAIN stack :
            LET through == unvisited \cup {stack[k]}
            IN  Query.b \in
                  Component(through, { e \in Joined : {e[1], e[2]} \subseteq through }, stack[k])

\* A comment at 547 says of an add that it goes "to all nodes rooted at subtree",
\* and the recorded answers (2.out, 3.out) are those of the tree rooted at node
\* 1: a node hangs from those that cannot be avoided on its way to node 1.
AddsFollowRoot ==
    pc = "queries" =>
        \A x \in DOMAIN nodes :
            LET avoidable(a) == 1 \in Component(Named \ {a}, { e \in Joined : a \notin {e[1], e[2]} }, x)
            IN  nodes[x] = MapThenSumSet(LAMBDA j : queries[j].b,
                    { j \in 1..q : /\ queries[j].kind = "add"
                                   /\ queries[j].a = x \/ ~avoidable(queries[j].a) })

\* The values as SubtreeQueries has them: an add takes effect as a whole when
\* its walk ends, and until then the nodes it has raised count with the value
\* that they had before.
RaisedAlready(x) ==
    /\ pc = "add"
    /\ x \in Hanging(Query.a)
    /\ \A k \in DOMAIN queue : x \notin Hanging(queue[k])

PromisedValues ==
    [x \in Named |-> IF ~HasNode(x) THEN 0
                     ELSE IF RaisedAlready(x) THEN nodes[x] - Query.b ELSE nodes[x]]
============================================================================
