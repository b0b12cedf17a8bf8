\* Vectors of infinities.
CONSTANTS
    Tokens = {10, 15}
    MaxValue = 2
    VectorInputs = {}
    ScalarInputs <- MCMedianInputs
    Indeterminate = {0}
    MaxRow = 4
    Exact = exact
    INF = inf
    NEG_INF = neg_inf
    NAN = nan
    FloatTypes <- MCFloatTypes
    Vectors <- MCVectors
    Wide = 32
    Narrow = 8
    Numerals <- MCNumerals
SPECIFICATION HarnessSpec
INVARIANT InfinitiesMatchThemselves
