--------------------------- MODULE AdjacencyList ---------------------------
(***************************************************************************)
(* class adjacency_list of roads_and_libraries.cc, copied by               *)
(* journey_to_moon.cc: an unordered_map from a node to the unordered_set   *)
(* of its neighbours.  A node is a key only once an edge leaves it.        *)
(***************************************************************************)
EXTENDS Integers, SequencesExt, FiniteSets

NoEdges == [x \in {} |-> {}]

\* neighbors(start): the empty set when start is not a key.
NeighborsOf(edges, start) ==
    IF start \in DOMAIN edges THEN edges[start] ELSE {}

\* insert(start, end)
Insert(edges, start, end) ==
    [x \in DOMAIN edges \cup {start} |->
        IF x = start THEN NeighborsOf(edges, start) \cup {end} ELSE edges[x]]

\* contains(start, end)
ContainsEdge(edges, start, end) == end \in NeighborsOf(edges, start)

\* Both directions of an undirected edge.
InsertBoth(edges, x, y) == Insert(Insert(edges, x, y), y, x)

\* The orders in which an unordered_set may be walked.
Walks(S) == SetToSeqs(S)

----------------------------------------------------------------------------
\* Reference: what connectivity means, independently of any search.

\* S is closed under a symmetric relation E, a set of pairs.
ClosedUnder(S, E) == \A e \in E : e[1] \in S <=> e[2] \in S

\* The nodes of V that x is connected to: those no closed set separates from x.
Component(V, E, x) ==
    { y \in V : \A S \in SUBSET V : (ClosedUnder(S, E) /\ x \in S) => y \in S }

Components(V, E) == { Component(V, E, x) : x \in V }

\* No edge of a list joins what the edges before it have joined already.
IsForest(V, list) ==
    \A m \in DOMAIN list :
        list[m][2] \notin Component(V, { list[k] : k \in 1..(m - 1) }, list[m][1])
============================================================================
