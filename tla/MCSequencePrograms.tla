------------------------- MODULE MCSequencePrograms -------------------------
(* The programs that work on sequences, in three parts of which one is run: *)
(* the five of SequencePrograms, the two of StackGames, and MixingCount.    *)
(* What each program is given:                                              *)
(*   array_manipulation (Array), in either build: every list of at most     *)
(*   three operations on an array of four elements: apart, touching,        *)
(*   overlapping, nested, equal, with a shared end.                         *)
(*   merge_sorted_linked_lists (Merge): every pair of ascending lists of at *)
(*   most three values out of three, in particular empty and equal ones,    *)
(*   and two cases one after the other.                                     *)
(*   node_from_tail (Tail): lists of at most four values, every place in    *)
(*   them and one past the head, and two cases one after the other.         *)
(*   running_median (Median): every sequence of at most five values out of  *)
(*   four; two threes and -4 with itself exceed what an int holds.          *)
(*   max_stack_element (Stack): every sequence of at most six queries that  *)
(*   push one or two, pop or ask, and short ones with a query of another    *)
(*   code.                                                                  *)
(*   equal_stacks (Equal): every triple of stacks of at most two blocks of  *)
(*   height 0 to 3 or three blocks of height 1 or 2.                        *)
(*   two_stack_game (Game): every pair of stacks of at most three values,   *)
(*   zeros included, with limits from "nothing but zeros" to "everything".  *)
(*   mixing_count: up to four values and targets on both sides of what a    *)
(*   word of 32 can hold.                                                   *)
EXTENDS SequencePrograms, StackGames, MixingCount, Folds, Functions

VARIABLE part

UpTo(k, S) == UNION { [1..m -> S] : m \in 0..k }

MCLists(k) == { s \in UpTo(k, 1..3) : \A x, y \in DOMAIN s : x < y => s[x] <= s[y] }

MCPairs(k) == { [a |-> x, b |-> y] : x, y \in MCLists(k) }

MCMerges == { <<>> } \cup [1..1 -> MCPairs(3)] \cup [1..2 -> MCPairs(1)]

MCPlaces(k) == { [list |-> s, tail_pos |-> t] : s \in UpTo(k, 1..2), t \in 0..k }

MCTails == { <<>> } \cup [1..1 -> MCPlaces(4)] \cup [1..2 -> MCPlaces(2)]

MCMedians == UpTo(5, {-4, 0, 2, 3})

MCQuery(code, arg) == [code |-> code, arg |-> arg]

MCQueries == { MCQuery(1, 1), MCQuery(1, 2), MCQuery(2, 0), MCQuery(3, 0) }

MCQueryLists == UpTo(6, MCQueries) \cup [1..3 -> MCQueries \cup {MCQuery(0, 0)}]

MCOps(summands) ==
    { op \in [left: 1..4, right: 1..4, value: summands] : op.left <= op.right }

MCArrays ==
    { [n |-> 4, ops |-> s] : s \in UpTo(2, MCOps({1, 2})) \cup [1..3 -> MCOps({1})] }

MCBlockStacks == UNION { [1..m -> 0..3] : m \in 0..2 } \cup [1..3 -> 1..2]

MCSuffixSum ==
    [s \in MCBlockStacks |->
        [p \in 0..Len(s) |-> FoldFunctionOnSet(+, 0, s, (p + 1)..Len(s))]]

MCMaxSums == {0, 1, 3, 4, 6, 18}

\* While one part moves, the others rest at a beginning of theirs.
ListsRest == program = "tail" /\ cases = <<>> /\ Init
GamesRest == game = "equal_stacks" /\ stacks = <<<<>>, <<>>, <<>>>> /\ GamesInit
MixRest == cookies = <<>> /\ target = 0 /\ MixInit

MCInit ==
    \/ part = "lists" /\ Init /\ GamesRest /\ MixRest
    \/ part = "games" /\ GamesInit /\ ListsRest /\ MixRest
    \/ part = "mix" /\ MixInit /\ ListsRest /\ GamesRest

MCVars == <<part, vars, gamesVars, mixVars>>

MCNext ==
    \/ part = "lists" /\ Next /\ UNCHANGED <<part, gamesVars, mixVars>>
    \/ part = "games" /\ GamesNext /\ UNCHANGED <<part, vars, mixVars>>
    \/ part = "mix" /\ MixNext /\ UNCHANGED <<part, vars, gamesVars>>

MCSpec == MCInit /\ [][MCNext]_MCVars /\ WF_MCVars(MCNext)

\* Whichever program is run comes to an end.
EveryProgramEnds ==
    /\ part = "lists" => Termination
    /\ part = "games" => <>(game_pc = "done")
    /\ part = "mix" => <>(mix_pc = "done")
=============================================================================
