--------------------------- MODULE GraphSearches ---------------------------
(***************************************************************************)
(* The two programs that search an adjacency_list, one or the other being  *)
(* run: roads_and_libraries (Roads) and journey_to_moon (Moon).            *)
(***************************************************************************)
EXTENDS Integers

CONSTANTS
    RoadMaps, Costs,   \* the Inputs and Costs of RoadsAndLibraries
    Pairs,             \* the Inputs of JourneyToMoon
    Word, SizeWord     \* of JourneyToMoon

VARIABLES
    program,
    n, edges, filled, queue, pc,                        \* of both programs
    c_lib, c_road, cities, unvisited, total, connected, result,
    a_pairs, ndebug, unwalked, visited, countries, n_pairs, i

roadsOnly == <<c_lib, c_road, cities, unvisited, total, connected, result>>
moonOnly == <<a_pairs, ndebug, unwalked, visited, countries, n_pairs, i>>
vars == <<program, n, edges, filled, queue, pc, roadsOnly, moonOnly>>

Roads == INSTANCE RoadsAndLibraries WITH Inputs <- RoadMaps

Moon == INSTANCE JourneyToMoon WITH Inputs <- Pairs

ASSUME InputsAssumption == Roads!InputsOK /\ Moon!InputsOK

\* What the program that is not run would use stays at 0.
RoadsIdle ==
    /\ c_lib = 0 /\ c_road = 0 /\ cities = 0 /\ unvisited = 0
    /\ total = 0 /\ connected = 0 /\ result = 0

MoonIdle ==
    /\ a_pairs = 0 /\ ndebug = 0 /\ unwalked = 0 /\ visited = 0
    /\ countries = 0 /\ n_pairs = 0 /\ i = 0

Init ==
    \/ program = "roads" /\ Roads!Init /\ MoonIdle
    \/ program = "moon" /\ Moon!Init /\ RoadsIdle

Next ==
    \/ program = "roads" /\ Roads!Next /\ UNCHANGED <<program, moonOnly>>
    \/ program = "moon" /\ Moon!Next /\ UNCHANGED <<program, roadsOnly>>

Spec == Init /\ [][Next]_vars /\ WF_vars(Next)

\* roads_and_libraries.cc: the cost is the least over all choices of roads.
ResultIsCheapest == program = "roads" => Roads!ResultIsCheapest

\* journey_to_moon.cc: the answer is the number of pairs of two countries, and
\* nothing is read outside but when a debug build has no astronaut.
ResultIsPairCount == program = "moon" => Moon!ResultIsPairCount

\* journey_to_moon.cc: no country is split and no two are merged.
CountriesAreWhole == program = "moon" => Moon!CountriesAreWhole

\* journey_to_moon.cc: the queue holds no more than a copy for each simple path.
QueueBounded == program = "moon" => Moon!QueueBounded

\* Both functions come to an end on every input.
Termination == <>(pc \in {"done", "undefined"})
============================================================================
