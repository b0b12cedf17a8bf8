\* Lists of up to four values, five medians, three operations on four
\* elements, six queries, stacks of three, four cookies.
\* Lengths wrap at 5, just above the longest list; the words of the games are
\* just above what three totals, and the greatest limit and one value, need.
CONSTANTS
    Merges <- MCMerges
    Tails <- MCTails
    Medians <- MCMedians
    Arrays <- MCArrays
    QueryLists <- MCQueryLists
    Word = 5
    MaxInt = 5
    BlockStacks <- MCBlockStacks
    SuffixSum <- MCSuffixSum
    EqualWord = 19
    GameValues = {0, 1, 3}
    MaxSize = 3
    MaxSums <- MCMaxSums
    GameWord = 22
    Slots = {1, 2, 3, 4}
    CookieValues = {0, 1, 2, 4, 7, 13}
    Targets = {0, 1, 3, 5, 7, 20}
    CookieWord = 32
SPECIFICATION MCSpec
INVARIANTS PrintedIsMerge ListsStayApart PrintedFromTail MediansSplit MergedApart PrintedIsMaxAlive
INVARIANTS HeightIsBest NeverOvershoots EachPassTrims SumFits ScoreIsBest SumsFollowCounts
INVARIANTS ResultJustified ResultExact
PROPERTIES ImplementsUpdates EveryProgramEnds MixesDoNotWrap
