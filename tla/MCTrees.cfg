\* Trees of up to four nodes and three queries, in either build; up to five
\* insertions of four values; swaps in trees of up to four nodes.
CONSTANTS
    GraphInputs <- MCGraphInputs
    NodeInputs <- MCNodeInputs
    MinValue <- MCMinValue
    Values <- MCValues
    Swaps <- MCSwaps
    Word = 16
SPECIFICATION Spec
INVARIANTS SearchKeepsPath SearchOrder OutputIsLevels OutputIsTopView SwapsAreParity LinesAreInorder
PROPERTIES ImplementsQueries Termination
