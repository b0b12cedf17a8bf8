\* Clean, blank, padded and oversized lines in either text, for rows and
\* for scalars; vectors of scalars; numerals.
CONSTANTS
    Tokens = {10, 15, 20, 30}
    MaxValue = 2
    VectorInputs <- MCVectorInputs
    ScalarInputs <- MCScalarInputs
    Indeterminate = {0, 1}
    MaxRow = 4
    Exact = exact
    INF = inf
    NEG_INF = neg_inf
    NAN = nan
    FloatTypes <- MCFloatTypes
    Vectors <- MCVectors
    Wide = 32
    Narrow = 8
    Numerals <- MCNumerals
SPECIFICATION HarnessSpec
INVARIANTS VerdictExact VerdictOnRows KilledByFatalLine MatchIsWithinTolerance NumbersAreKept
PROPERTY Terminates
