\* All graphs of at most four nodes; two costs.  The words are the smallest that
\* hold the products, and the number, of six astronauts.
CONSTANTS
    RoadMaps <- MCRoadMaps
    Costs <- MCCosts
    Pairs <- MCPairs
    Word = 10
    SizeWord = 7
SPECIFICATION Spec
INVARIANTS ResultIsCheapest ResultIsPairCount CountriesAreWhole QueueBounded
PROPERTY Termination
