-------------------------- MODULE MCGraphSearches --------------------------
(* What the two programs that search an adjacency_list are given:           *)
(* roads_and_libraries every road map of at most four cities,               *)
(* journey_to_moon every set of pairs over at most four astronauts.         *)
(* Further inputs give an edge twice, in both directions or from a node to  *)
(* itself, queue a node again and again, and make the largest product that  *)
(* six astronauts can.                                                      *)
EXTENDS GraphSearches, SequencesExt

Edges(V) == { e \in V \X V : e[1] < e[2] }

MCRoadMaps ==
    UNION { { [n |-> k, cities |-> SetToSeq(R)] : R \in SUBSET Edges(1..k) } : k \in 0..4 }
    \cup { [n |-> 3, cities |-> m] :
             m \in { <<<<1, 2>>, <<1, 2>>>>, <<<<2, 1>>, <<1, 2>>, <<3, 2>>>>, <<<<1, 1>>, <<3, 1>>>> } }

\* A library dearer, and cheaper, than a road.
MCCosts == { <<3, 2>>, <<2, 3>> }

MCLayers == <<<<0, 1>>, <<0, 2>>, <<1, 3>>, <<2, 3>>, <<3, 4>>>>

MCTriangles == <<<<0, 1>>, <<0, 2>>, <<1, 2>>, <<3, 4>>, <<4, 5>>, <<5, 3>>>>

MCPairs ==
    UNION { { [n |-> k, pairs |-> SetToSeq(P)] : P \in SUBSET Edges(0..(k - 1)) } : k \in 0..4 }
    \cup { [n |-> 3, pairs |-> p] :
             p \in { <<<<0, 1>>, <<0, 1>>>>, <<<<1, 0>>, <<0, 1>>, <<2, 1>>>>, <<<<2, 2>>, <<0, 2>>>> } }
    \cup { [n |-> 6, pairs |-> p] : p \in {MCLayers, MCTriangles} }

============================================================================
