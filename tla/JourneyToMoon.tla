--------------------------- MODULE JourneyToMoon ---------------------------
(***************************************************************************)
(* journey_to_moon of journey_to_moon.cc: in how many ways two astronauts  *)
(* of different countries can be chosen, given pairs of compatriots.       *)
(*                                                                         *)
(* A breadth-first search from every node of the adjacency list counts the *)
(* astronauts of each country.  An astronaut is marked when it leaves the  *)
(* queue, so it may be queued several times.  Astronauts no pair mentions  *)
(* are not in the adjacency list and are added afterwards as countries of  *)
(* one.  A product of two sizes is an unsigned int and wraps at Word; the  *)
(* sum is an unsigned long long.                                           *)
(***************************************************************************)
EXTENDS AdjacencyList, Functions

CONSTANTS
    Inputs,  \* records with the number n of astronauts and the pairs, from 0..n-1
    Word,    \* 2^32, the values of an unsigned int
    SizeWord \* 2^64, the values of a std::size_t

\* Two countries share n astronauts, so no product exceeds (n/2)^2.  With no
\* astronaut at all there is no pair either.
InputsOK ==
    /\ \A in \in Inputs :
          in.n \in Nat /\ in.pairs \in Seq((0..(in.n - 1)) \X (0..(in.n - 1)))
    /\ Word \in Nat \ {0}
    /\ SizeWord \in Nat
    /\ \A in \in Inputs : in.n * in.n < 4 * Word /\ in.n < SizeWord

VARIABLES
    n, a_pairs,  \* the arguments
    ndebug,      \* whether the program was compiled with NDEBUG, as Release is
    edges,
    filled,      \* pairs entered into edges
    unwalked,    \* keys of edges the outer loop has not reached
    visited,
    countries,
    queue,
    n_pairs,
    i,           \* countries the outer loop of the sum has passed
    pc

args == <<n, a_pairs, ndebug>>
vars == <<args, edges, filled, unwalked, visited, countries, queue, n_pairs, i, pc>>

Nodes == 0..(n - 1)

Init ==
    /\ \E in \in Inputs : n = in.n /\ a_pairs = in.pairs
    /\ ndebug \in BOOLEAN
    /\ edges = NoEdges
    /\ filled = 0
    /\ unwalked = {}
    /\ visited = {}
    /\ countries = <<>>
    /\ queue = <<>>
    /\ n_pairs = 0
    /\ i = 0
    /\ pc = "fill"

FillEdge ==
    /\ pc = "fill"
    /\ filled < Len(a_pairs)
    /\ filled' = filled + 1
    /\ edges' = InsertBoth(edges, a_pairs[filled'][1], a_pairs[filled'][2])
    /\ UNCHANGED <<args, unwalked, visited, countries, queue, n_pairs, i, pc>>

StartWalk ==
    /\ pc = "fill"
    /\ filled = Len(a_pairs)
    /\ unwalked' = DOMAIN edges
    /\ pc' = "walk"
    /\ UNCHANGED <<args, edges, filled, visited, countries, queue, n_pairs, i>>

\* Mutation of SkipVisited: the iterator does not move on.
SkipVisitedAgain ==
    /\ pc = "walk" /\ queue = <<>>
    /\ \E node \in unwalked : node \in visited
    /\ UNCHANGED vars

\* The outer loop reaches a key, in the order of the unordered_map.
SkipVisited ==
    /\ pc = "walk" /\ queue = <<>>
    /\ \E node \in unwalked :
          /\ node \in visited
          /\ unwalked' = unwalked \ {node}
    /\ UNCHANGED <<args, edges, filled, visited, countries, queue, n_pairs, i, pc>>

NewCountry ==
    /\ pc = "walk" /\ queue = <<>>
    /\ \E node \in unwalked :
          /\ node \notin visited
          /\ unwalked' = unwalked \ {node}
          /\ queue' = <<node>>
    /\ countries' = Append(countries, 0)
    /\ UNCHANGED <<args, edges, filled, visited, n_pairs, i, pc>>

\* Mutation of Search: neighbours are queued whether they have been visited or not.
SearchQueuesAll ==
    /\ pc = "walk" /\ queue # <<>>
    /\ visited' = visited \cup {Head(queue)}
    /\ countries' = IF Head(queue) \in visited THEN countries
                    ELSE [countries EXCEPT ![Len(countries)] = @ + 1]
    /\ \E w \in Walks(NeighborsOf(edges, Head(queue))) : queue' = Tail(queue) \o w
    /\ UNCHANGED <<args, edges, filled, unwalked, n_pairs, i, pc>>

\* Mutation of Search: an astronaut is counted each time it leaves the queue.
SearchCountsAgain ==
    /\ pc = "walk" /\ queue # <<>>
    /\ visited' = visited \cup {Head(queue)}
    /\ countries' = [countries EXCEPT ![Len(countries)] = @ + 1]
    /\ \E w \in Walks(NeighborsOf(edges, Head(queue)) \ visited') : queue' = Tail(queue) \o w
    /\ UNCHANGED <<args, edges, filled, unwalked, n_pairs, i, pc>>

\* One pass of the search: the head is counted unless it was before, and its
\* neighbours are queued unless they have been visited.
Search ==
    /\ pc = "walk" /\ queue # <<>>
    /\ LET cur  == Head(queue)
           last == Len(countries)
       IN  /\ visited' = visited \cup {cur}
           /\ countries' = IF cur \in visited THEN countries
                                              ELSE [countries EXCEPT ![last] = @ + 1]
           /\ \E w \in Walks(NeighborsOf(edges, cur) \ visited') : queue' = Tail(queue) \o w
    /\ UNCHANGED <<args, edges, filled, unwalked, n_pairs, i, pc>>

\* The sum of countries, and a country of one for every astronaut missing.
AddSingles ==
    /\ pc = "walk" /\ queue = <<>> /\ unwalked = {}
    /\ LET n_countries == SumFunction(countries)
       IN  countries' = countries \o [k \in 1..(n - n_countries) |-> 1]
    /\ pc' = "sum"
    /\ UNCHANGED <<args, edges, filled, unwalked, visited, queue, n_pairs, i>>

Product(j, k) == (countries[j] * countries[k]) % Word

\* The outer loop of the sum runs below countries.size() - 1, a std::size_t
\* that wraps when there is no country.
LastOuter == (Len(countries) - 1) % SizeWord

\* One pass of the outer loop of the sum.  Both builds add the same products,
\* but only the one without NDEBUG reads countries[i] before the inner loop.
SumProducts ==
    /\ pc = "sum"
    /\ i < LastOuter
    /\ ndebug \/ i < Len(countries)
    /\ i' = i + 1
    /\ n_pairs' = n_pairs
         + SumFunction([j \in (i' + 1)..Len(countries) |-> Product(i', j)])
    /\ UNCHANGED <<args, edges, filled, unwalked, visited, countries, queue, pc>>

\* c_data[i] past the end of the vector: undefined.
ReadOutside ==
    /\ pc = "sum"
    /\ i < LastOuter
    /\ ~ndebug /\ i >= Len(countries)
    /\ pc' = "undefined"
    /\ UNCHANGED <<args, edges, filled, unwalked, visited, countries, queue, n_pairs, i>>

Return ==
    /\ pc = "sum"
    /\ i = LastOuter
    /\ pc' = "done"
    /\ UNCHANGED <<args, edges, filled, unwalked, visited, countries, queue, n_pairs, i>>

Finished == pc \in {"done", "undefined"} /\ UNCHANGED vars

Next ==
    \/ FillEdge \/ StartWalk \/ SkipVisited \/ NewCountry \/ Search
    \/ AddSingles \/ SumProducts \/ ReadOutside \/ Return \/ Finished

Spec == Init /\ [][Next]_vars /\ WF_vars(Next)
----------------------------------------------------------------------------
\* Reference: compatriots are the astronauts the pairs connect.
Compatriots ==
    { e \in Nodes \X Nodes : \E k \in DOMAIN a_pairs : {a_pairs[k][1], a_pairs[k][2]} = {e[1], e[2]} }

CountryOf(x) == Component(Nodes, Compatriots, x)

\* The answer is the number of pairs of astronauts that are not compatriots,
\* and no read leaves the vector of countries but in the build without NDEBUG
\* when there is no astronaut.
ResultIsPairCount ==
    /\ pc = "done" =>
          n_pairs = Cardinality({ p \in Nodes \X Nodes :
                                    p[1] < p[2] /\ p[2] \notin CountryOf(p[1]) })
    /\ pc = "undefined" => n = 0 /\ ~ndebug

\* A country is not split and two are not merged, whatever the order of the
\* map and of the neighbour sets: between searches the visited astronauts are
\* whole countries, one entry for each.
CountriesAreWhole ==
    (pc = "walk" /\ queue = <<>>) =>
        LET found == { CountryOf(x) : x \in visited }
        IN  /\ UNION found = visited
            /\ Len(countries) = Cardinality(found)
            /\ \A m \in 1..n : Cardinality({ k \in DOMAIN countries : countries[k] = m })
                                  = Cardinality({ C \in found : Cardinality(C) = m })

\* Reference: the number of paths from s to x that meet no astronaut twice.
SimplePaths(s, x) ==
    LET paths[rest \in SUBSET Nodes] ==
            [y \in Nodes |->
                IF y = s THEN 1
                ELSE SumFunction([z \in NeighborsOf(edges, y) \cap rest |-> paths[rest \ {z}][z]])]
    IN  paths[Nodes \ {x}][x]

\* An astronaut is marked only when it leaves the queue, so the queue outgrows
\* the country; but every entry has come along a path of its own from the
\* start of the search, and no path goes back to an astronaut it has passed.
\* The start is the one key of this country that the outer loop has reached: had
\* it reached another one before, the whole country would have been visited.
QueueBounded ==
    (pc = "walk" /\ queue # <<>>) =>
        \E s \in DOMAIN edges \ unwalked : \A x \in ToSet(queue) :
            Cardinality({ k \in DOMAIN queue : queue[k] = x }) <= SimplePaths(s, x)
============================================================================
