--------------------------- MODULE MCExitCompare ---------------------------
(* Small texts for the rows: every sequence of at most two lines (three for *)
(* scalars) drawn from a hand-picked set, so that equal, different, longer  *)
(* and shorter texts meet in every combination.                             *)
(* Scalars of three types, and numerals that words of 8 and of 32 values    *)
(* hold or do not.                                                          *)
EXTENDS Harness

MCLine(tokens, trailing) == [tokens |-> tokens, trailing |-> trailing]

\* Clean rows of one and two values, a blank line, trailing blanks, a number
\* that does not fit (MaxValue is 2), last and not last on its line.
MCVectorLines ==
    { MCLine(<<10>>, FALSE), MCLine(<<20>>, FALSE), MCLine(<<20, 10>>, FALSE),
      MCLine(<<>>, FALSE), MCLine(<<>>, TRUE), MCLine(<<10>>, TRUE),
      MCLine(<<10, 10>>, FALSE), MCLine(<<30>>, FALSE), MCLine(<<30, 10>>, FALSE) }

MCVectorInputs == UNION { [1..n -> MCVectorLines] : n \in 0..2 }

\* Integers, a fraction, a number that does not fit, a blank line.
MCScalarLines ==
    { MCLine(<<10>>, FALSE), MCLine(<<20>>, FALSE), MCLine(<<15>>, FALSE),
      MCLine(<<30>>, FALSE), MCLine(<<>>, FALSE), MCLine(<<10, 20>>, TRUE) }

MCScalarInputs == UNION { [1..n -> MCScalarLines] : n \in 0..3 }

\* Texts in which every line but a blank one is clean, for the claim that a
\* text matches itself.
MCBlankInputs ==
    UNION { [1..n -> { MCLine(<<10>>, FALSE), MCLine(<<>>, FALSE) }] : n \in 0..2 }

\* Texts of medians: one digit after the point.
MCMedianInputs ==
    UNION { [1..n -> { MCLine(<<10>>, FALSE), MCLine(<<15>>, FALSE) }] : n \in 0..2 }

\* A tolerance below the precision, as of float, and one above, as of double.
MCFloat == [bits |-> 3, exps |-> 5, tol |-> 1, over |-> 16]
MCDouble == [bits |-> 4, exps |-> 4, tol |-> 3, over |-> 16]
MCFloatTypes == {MCFloat, MCDouble}

MCUpTo(k, S) == UNION { [1..n -> S] : n \in 0..k }

\* All that two types hold, one value at a time, and a few of them two at a
\* time: zeros, neighbours, ends of the range, what is rounded.
MCFinite(T) ==
    { s * m * 2^e : s \in {-1, 1}, m \in 0..(2^T.bits - 1), e \in 0..T.exps }

MCSpecial == {INF, NEG_INF, NAN}

MCVectors ==
    (Exact :> MCUpTo(2, -1..2))
    @@ (MCFloat :> MCUpTo(1, MCFinite(MCFloat) \cup {INF}) \cup MCUpTo(2, {0, 1, 7, 8, -224, INF}))
    @@ (MCDouble :> MCUpTo(1, MCFinite(MCDouble) \cup MCSpecial)
                    \cup MCUpTo(2, {0, 13, 15, 16, 20, -240, INF, NEG_INF, NAN}))

\* Up to two digits behind a sign and a prefix, a letter or nothing.  What
\* begins with 0 has a prefix; words are of 8 and of 32 values.
MCNumerals ==
    [neg: BOOLEAN, prefix: {"none"}, digits: {<<>>, <<12>>} \cup [1..1 -> 1..9] \cup ((1..3) \X (0..9))]
    \cup [neg: BOOLEAN, prefix: {"0", "0x"}, digits: {<<>>, <<8>>, <<1, 5>>, <<1, 15>>}]
============================================================================
