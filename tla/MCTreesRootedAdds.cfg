\* The graph build against the tree rooted at node 1.
CONSTANTS
    GraphInputs <- MCGraphInputs
    NodeInputs <- MCNodeInputs
    MinValue <- MCMinValue
    Values <- MCValues
    Swaps <- MCSwaps
    Word = 16
SPECIFICATION Spec
INVARIANT AddsFollowRoot
