\* A blank row, as merge_sorted_linked_lists prints for an empty list.
CONSTANTS
    Tokens = {10}
    MaxValue = 2
    VectorInputs <- MCBlankInputs
    ScalarInputs = {}
    Indeterminate = {0, 1}
    MaxRow = 4
    Exact = exact
    INF = inf
    NEG_INF = neg_inf
    NAN = nan
    FloatTypes <- MCFloatTypes
    Vectors <- MCVectors
    Wide = 32
    Narrow = 8
    Numerals <- MCNumerals
SPECIFICATION HarnessSpec
INVARIANT SameTextPasses
