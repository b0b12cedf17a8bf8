------------------------- MODULE RoadsAndLibraries -------------------------
(***************************************************************************)
(* roads_and_libraries of roads_and_libraries.cc: the least cost of giving *)
(* every city a library, or a road to a city that has access to one.       *)
(*                                                                         *)
(* A single loop searches all components.  It takes its next root from     *)
(* the queue, or from the unvisited cities when the queue is empty; a root *)
(* that is not in connected starts a component and gets a library, and     *)
(* each city that enters connected through the queue gets a road.  The     *)
(* order in which unordered sets are walked is left open.                  *)
(***************************************************************************)
EXTENDS AdjacencyList

CONSTANTS
    Inputs,  \* records with the number n of cities and the roads, pairs from 1..n
    Costs    \* pairs of the cost of a library and the cost of a road

InputsOK ==
    /\ \A in \in Inputs : in.n \in Nat /\ in.cities \in Seq((1..in.n) \X (1..in.n))
    /\ Costs \subseteq Nat \X Nat

VARIABLES
    n, c_lib, c_road, cities,  \* the arguments
    edges,
    filled,                    \* roads of cities entered into edges
    unvisited,
    total,
    connected,                 \* the component under search
    queue,
    pc,
    result

args == <<n, c_lib, c_road, cities>>
vars == <<args, edges, filled, unvisited, total, connected, queue, pc, result>>

Nodes == 0..(n - 1)

Init ==
    /\ \E in \in Inputs : n = in.n /\ cities = in.cities
    /\ \E c \in Costs : c_lib = c[1] /\ c_road = c[2]
    /\ edges = NoEdges
    /\ filled = 0
    /\ unvisited = Nodes
    /\ total = 0
    /\ connected = {}
    /\ queue = <<0>>
    /\ pc = "fill"
    /\ result = 0

\* Cities are numbered from 1, nodes from 0.
FillEdge ==
    /\ pc = "fill"
    /\ filled < Len(cities)
    /\ filled' = filled + 1
    /\ edges' = InsertBoth(edges, cities[filled'][1] - 1, cities[filled'][2] - 1)
    /\ UNCHANGED <<args, unvisited, total, connected, queue, pc, result>>

StartSearch ==
    /\ pc = "fill"
    /\ filled = Len(cities)
    /\ pc' = "search"
    /\ UNCHANGED <<args, edges, filled, unvisited, total, connected, queue, result>>

\* Mutation of Discovered: a neighbour that waits in the queue is found again.
DiscoveredAgain(root, component) ==
    { node \in NeighborsOf(edges, root) : node \in unvisited' }

\* The neighbours of root that the pass appends to the queue, given the
\* component as it stands once root belongs to it.
Discovered(root, component) ==
    { node \in NeighborsOf(edges, root) :
        /\ node \in unvisited'
        /\ node \notin component
        /\ ContainsEdge(edges, root, node) \/ ContainsEdge(edges, node, root) }

\* One pass of the while loop over root; rest is the queue without it.
Visit(root, rest) ==
    /\ unvisited' = unvisited \ {root}
    /\ LET library   == root \notin connected
           component == IF library THEN {root} ELSE connected
           found     == Discovered(root, component)
       IN  /\ connected' = component \cup found
           /\ total' = total + (IF library THEN c_lib ELSE 0) + c_road * Cardinality(found)
           /\ \E w \in Walks(found) : queue' = rest \o w
    /\ UNCHANGED <<args, edges, filled, pc, result>>

VisitQueued ==
    /\ pc = "search"
    /\ queue # <<>>
    /\ Visit(Head(queue), Tail(queue))

VisitUnvisited ==
    /\ pc = "search"
    /\ queue = <<>>
    /\ \E root \in unvisited : Visit(root, <<>>)

Return ==
    /\ pc = "search"
    /\ queue = <<>> /\ unvisited = {}
    /\ result' = IF total < c_lib * n THEN total ELSE c_lib * n
    /\ pc' = "done"
    /\ UNCHANGED <<args, edges, filled, unvisited, total, connected, queue>>

Finished == pc = "done" /\ UNCHANGED vars

Next ==
    \/ FillEdge \/ StartSearch \/ VisitQueued \/ VisitUnvisited
    \/ Return \/ Finished

Spec == Init /\ [][Next]_vars /\ WF_vars(Next)
----------------------------------------------------------------------------
\* The roads of the argument, between nodes.
Roads == { {cities[k][1] - 1, cities[k][2] - 1} : k \in DOMAIN cities }

PairsOf(roads) == { e \in Nodes \X Nodes : {e[1], e[2]} \in roads }

\* Reference: some of the roads are built and every group of cities that they
\* join needs a library.
CostOf(roads) ==
    c_lib * Cardinality(Components(Nodes, PairsOf(roads))) + c_road * Cardinality(roads)

\* The answer is the least cost over all choices of roads to build, not only
\* over "a spanning forest" and "no road" between which the code decides.
ResultIsCheapest ==
    pc = "done" =>
        /\ \E R \in SUBSET Roads : result = CostOf(R)
        /\ \A R \in SUBSET Roads : result <= CostOf(R)
============================================================================
