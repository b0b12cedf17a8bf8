-------------------------- MODULE ToleranceCompare --------------------------
(***************************************************************************)
(* compare(out, expected, actual, tol) of compare.hh on vectors of         *)
(* scalars: exact for any type but a floating one, Knuth's "essential      *)
(* equality" for float and double.  No program of the repository           *)
(* instantiates the floating case.                                         *)
(*                                                                         *)
(* A finite floating value is held in units of the smallest positive one   *)
(* of its type: a significand of so many bits times a power of two.  Every *)
(* operation is rounded to the type, as SSE and AVX registers do; fabs and *)
(* min are exact.                                                          *)
(***************************************************************************)
EXTENDS Integers, SequencesExt, FiniteSetsExt

CONSTANTS
    Exact,               \* the types that are compared exactly
    FloatTypes,          \* the floating types
    Vectors,             \* function from types to sets of sequences of values
    INF, NEG_INF, NAN    \* what is no finite value

Infinities == {INF, NEG_INF}

Special == Infinities \cup {NAN}

\* The powers of two.
Power[e \in Nat] == IF e = 0 THEN 1 ELSE 2 * Power[e - 1]

\* A type has a significand of so many bits, exponents from 0 to exps and the
\* tolerance tol / over, as the type represents it: float has 24 bits and
\* 1e-8f, double 53 bits and 1e-12.
TypesOK ==
    /\ FloatTypes \subseteq [bits: Nat \ {0}, exps: Nat, tol: Nat \ {0}, over: Nat \ {0}]
    /\ \A T \in FloatTypes : T.tol <= T.over

\* The finite values of a floating type.
IsFinite(T, v) ==
    \E m \in 0..(Power[T.bits] - 1), e \in 0..T.exps : v \in {m * Power[e], -(m * Power[e])}

InputsOK ==
    /\ TypesOK
    /\ \A T \in {Exact} \cup FloatTypes : Vectors[T] \subseteq Seq(Int \cup Special)
    /\ \A T \in FloatTypes : \A v \in Vectors[T] : \A k \in DOMAIN v :
          v[k] \in Special \/ IsFinite(T, v[k])

VARIABLES type, expected, actual, i, test_success, pc

vars == <<type, expected, actual, i, test_success, pc>>

Init ==
    /\ type \in {Exact} \cup FloatTypes
    /\ expected \in Vectors[type] /\ actual \in Vectors[type]
    /\ i = 0
    /\ test_success = TRUE
    /\ pc = "compare"

fabs(v) == IF v < 0 THEN -v ELSE v

\* Mutation of Scale: approximate instead of essential equality.
ScaleOfLarger(ev, av) == Max({fabs(ev), fabs(av)})

Scale(ev, av) == Min({fabs(ev), fabs(av)})

\* p / q to the nearest integer, to the even one of two.
Rounded(p, q) ==
    LET twice == 2 * (p % q)
        down == p \div q
    IN  IF twice > q \/ (twice = q /\ down % 2 = 1) THEN down + 1 ELSE down

\* How far the values of a type may be apart, those just above the largest one
\* included.
Spacings(T) == { Power[e] : e \in 0..(T.exps + 1) }

\* How far they are apart around p / q.
Spacing(T, p, q) == Min({ u \in Spacings(T) : p < q * (Power[T.bits] * u) })

\* p / q in the type.
RoundedTo(T, p, q) == Rounded(p, q * Spacing(T, p, q)) * Spacing(T, p, q)

\* std::fabs(ev - av) <= std::min(std::fabs(ev), std::fabs(av)) * tol.
\* Whatever involves a NaN is false, the difference of equal infinities being
\* one; opposite infinities give inf <= inf * tol.  An infinity differs by
\* infinity from a finite value, whose product with the tolerance is finite; so
\* does a difference that overflows, which RoundedTo leaves above all products.
Matches(ev, av) ==
    \/ type = Exact /\ ev = av
    \/ type # Exact /\ {ev, av} = Infinities
    \/ /\ type # Exact /\ {ev, av} \cap Special = {}
       /\ RoundedTo(type, fabs(ev - av), 1) <= RoundedTo(type, type.tol * Scale(ev, av), type.over)

LowerSize == Min({Len(expected), Len(actual)})

UpperSize == Max({Len(expected), Len(actual)})

MissingValue ==
    /\ pc = "compare"
    /\ LowerSize <= i /\ i < UpperSize
    /\ i' = i + 1
    /\ test_success' = FALSE
    /\ UNCHANGED <<type, expected, actual, pc>>

CompareValues ==
    /\ pc = "compare"
    /\ i < LowerSize
    /\ i' = i + 1
    /\ test_success' = (test_success /\ Matches(expected[i'], actual[i']))
    /\ UNCHANGED <<type, expected, actual, pc>>

Return ==
    /\ pc = "compare"
    /\ i = UpperSize
    /\ pc' = "done"
    /\ UNCHANGED <<type, expected, actual, i, test_success>>

Finished == pc = "done" /\ UNCHANGED vars

Next == MissingValue \/ CompareValues \/ Return \/ Finished

----------------------------------------------------------------------------
\* The difference of two finite values is within the tolerance of either.
Within(ev, av) == \A v \in {ev, av} : type.over * fabs(ev - av) <= type.tol * fabs(v)

\* It is so but for what the two roundings add: half a unit, or a part in
\* 2^bits of either side.
NearlyWithin(ev, av) ==
    \A v \in {ev, av} :
        2 * (type.over * ((Power[type.bits] - 1) * fabs(ev - av)))
            <= 2 * ((type.tol * fabs(v)) * (Power[type.bits] + 1)) + type.over * Power[type.bits]

\* The tolerance is less than half of the spacing around any value.
BelowPrecision == 2 * (type.tol * Power[type.bits]) <= type.over

\* compare.hh 131: "`true` if results match".  Vectors of different sizes do
\* not.  Exact types match when they are equal.  Finite floating values match
\* when they are within the tolerance of both, and no others do but by
\* rounding; none but zero matches zero, and no two different values match when
\* the tolerance is below the precision, as that of float is.  A NaN, or an
\* infinity beside a finite value, does not match.  Of two infinities nothing
\* is said here: see InfinitiesMatchThemselves.
MatchIsWithinTolerance ==
    pc = "done" =>
        LET pairs == { <<expected[k], actual[k]>> : k \in 1..LowerSize }
            finite == \A p \in pairs : {p[1], p[2]} \cap Special = {}
        IN  IF type = Exact THEN test_success <=> expected = actual
            ELSE /\ test_success =>
                        /\ Len(expected) = Len(actual)
                        /\ \A p \in pairs :
                              \/ {p[1], p[2]} \subseteq Infinities
                              \/ /\ {p[1], p[2]} \cap Special = {}
                                 /\ NearlyWithin(p[1], p[2])
                                 /\ 0 \in {p[1], p[2]} \/ BelowPrecision => p[1] = p[2]
                 /\ Len(expected) = Len(actual) /\ finite /\ (\A p \in pairs : Within(p[1], p[2]))
                        => test_success

\* compare.hh 131: "`true` if results match, `false` otherwise", of results
\* that are infinite.  The run infinities shows that equal ones do not match.
InfinitiesMatchThemselves ==
    (pc = "done" /\ ToSet(expected) \cup ToSet(actual) \subseteq Infinities) =>
        (test_success <=> expected = actual)
=============================================================================
