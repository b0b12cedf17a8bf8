------------------------------ MODULE Harness ------------------------------
(***************************************************************************)
(* The three parts of compare.hh, one or another being run: exit_compare   *)
(* on texts (the rows of ExitCompare), compare on scalars of each type     *)
(* (Scalars) and to_number on each numeral (Number).                       *)
(***************************************************************************)
EXTENDS ExitCompare

CONSTANTS
    Exact, FloatTypes, Vectors, INF, NEG_INF, NAN,  \* of ToleranceCompare
    Wide, Narrow, Numerals                          \* of ToNumber

VARIABLES
    part,                                 \* what is run
    type, at,                             \* of the two other parts
    expected, actual, compared, matches,  \* of Scalars
    str, val                              \* of Number

scalarsOnly == <<expected, actual, compared, matches>>
numberOnly == <<str, val>>
harnessVars == <<vars, part, type, at, scalarsOnly, numberOnly>>

Scalars == INSTANCE ToleranceCompare WITH i <- compared, test_success <- matches, pc <- at

Number == INSTANCE ToNumber WITH pc <- at

ASSUME InputsAssumption == Scalars!InputsOK /\ Number!InputsOK

\* What the parts that are not run would use stays at 0.
RowsIdle ==
    /\ pc = "idle" /\ is_vector = 0 /\ lines = 0 /\ nline = 0 /\ reading = 0 /\ ss = 0
    /\ value = 0 /\ rows = 0 /\ i = 0 /\ test_success = 0 /\ status = 0
ScalarsIdle == expected = 0 /\ actual = 0 /\ compared = 0 /\ matches = 0
NumberIdle == str = 0 /\ val = 0

HarnessInit ==
    \/ part = "rows" /\ Init /\ type = 0 /\ at = "idle" /\ ScalarsIdle /\ NumberIdle
    \/ part = "scalars" /\ Scalars!Init /\ RowsIdle /\ NumberIdle
    \/ part = "number" /\ Number!Init /\ RowsIdle /\ ScalarsIdle

HarnessNext ==
    \/ part = "rows" /\ Next /\ UNCHANGED <<part, type, at, scalarsOnly, numberOnly>>
    \/ part = "scalars" /\ Scalars!Next /\ UNCHANGED <<part, vars, numberOnly>>
    \/ part = "number" /\ Number!Next /\ UNCHANGED <<part, vars, scalarsOnly>>

HarnessSpec == HarnessInit /\ [][HarnessNext]_harnessVars /\ WF_harnessVars(HarnessNext)

----------------------------------------------------------------------------
\* compare, of scalars: what matches is equal or within the tolerance.
MatchIsWithinTolerance == part = "scalars" => Scalars!MatchIsWithinTolerance

\* to_number: a number comes back as it was written, or not at all.
NumbersAreKept == part = "number" => Number!NumbersAreKept

\* compare, of scalars: infinities match those that are equal.
InfinitiesMatchThemselves == part = "scalars" => Scalars!InfinitiesMatchThemselves

\* Everything ends: to exit_compare the pushes bring the end of the memory even
\* where they do not bring the end of the line.
Terminates == <>(pc = "done" \/ at \in {"done", "invalid_argument", "out_of_range", "overflow_error"})
============================================================================
