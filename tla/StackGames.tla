----------------------------- MODULE StackGames -----------------------------
(***************************************************************************)
(* The two programs that take elements from the tops of stacks, one or the *)
(* other being run: equal_stacks (Equal) and two_stack_game (Game).        *)
(***************************************************************************)
EXTENDS Integers

CONSTANTS
    BlockStacks, SuffixSum,        \* the Stacks and the SuffixSum of EqualStacks
    GameValues, MaxSize, MaxSums,  \* of TwoStackGame
    EqualWord, GameWord            \* the Word of the one and of the other

VARIABLES
    game,
    game_pc, game_result,  \* of both programs
    stacks, total, top,    \* of equal_stacks, then those of two_stack_game
    stack_a, stack_b, max_sum, a_sum, b_sum, rem_a, rem_b, max_rem, max_rem_a, put_backs

equalOnly == <<stacks, total, top>>
gameOnly == <<stack_a, stack_b, max_sum, a_sum, b_sum, rem_a, rem_b, max_rem, max_rem_a, put_backs>>
gamesVars == <<game, game_pc, game_result, equalOnly, gameOnly>>

Equal == INSTANCE EqualStacks WITH
    Stacks <- BlockStacks, Word <- EqualWord, stack <- stacks, pc <- game_pc, result <- game_result

Game == INSTANCE TwoStackGame WITH
    Values <- GameValues, Word <- GameWord, i <- put_backs, pc <- game_pc, result <- game_result

ASSUME GamesAssumption ==
    /\ Equal!StacksOK /\ Equal!SuffixSumOK /\ Equal!ProblemLimits
    /\ Game!TypesOK /\ Game!ProblemLimits

\* What the program that is not run would use stays at 0.
EqualIdle == stacks = 0 /\ total = 0 /\ top = 0

GameIdle ==
    /\ stack_a = 0 /\ stack_b = 0 /\ max_sum = 0 /\ a_sum = 0 /\ b_sum = 0
    /\ rem_a = 0 /\ rem_b = 0 /\ max_rem = 0 /\ max_rem_a = 0 /\ put_backs = 0

GamesInit ==
    \/ game = "equal_stacks" /\ Equal!Init /\ GameIdle
    \/ game = "two_stack_game" /\ Game!Init /\ EqualIdle

GamesNext ==
    \/ game = "equal_stacks" /\ Equal!Next /\ UNCHANGED <<game, gameOnly>>
    \/ game = "two_stack_game" /\ Game!Next /\ UNCHANGED <<game, equalOnly>>

GamesSpec == GamesInit /\ [][GamesNext]_gamesVars /\ WF_gamesVars(GamesNext)

GamesTypeOK ==
    /\ game \in {"equal_stacks", "two_stack_game"}
    /\ game = "equal_stacks" => Equal!TypeOK
    /\ game = "two_stack_game" => Game!TypeOK

\* equal_stacks.cc: the greatest height all three stacks can be cut down to.
HeightIsBest == game = "equal_stacks" => Equal!ResultIsBest

\* equal_stacks.cc: no pass cuts a stack below a height that all can reach.
NeverOvershoots == game = "equal_stacks" => Equal!NeverOvershoots

\* equal_stacks.cc: every pass over unequal totals removes a block.
EachPassTrims == game = "equal_stacks" => Equal!EachPassTrims

\* equal_stacks.cc: the sum of the three totals does not wrap.
SumFits == game = "equal_stacks" => Equal!SumFits

\* two_stack_game.cc: no way to take from both stacks gives more values.
ScoreIsBest == game = "two_stack_game" => Game!ResultIsBest

\* two_stack_game.cc: the sums remain those of the values counted as taken.
SumsFollowCounts == game = "two_stack_game" => Game!SumsFollowCounts
============================================================================
