---------------------------- MODULE ExitCompare ----------------------------
(***************************************************************************)
(* The harness every solver links when it is built as a test:              *)
(* pdhkr::exit_compare<T>(fans, fout) of include/pdhkr/compare.hh.  It     *)
(* reads the expected answer and the program's output line by line, turns  *)
(* each line into a row of values and reports through the exit status      *)
(* whether the two lists of rows are the same.                             *)
(*                                                                         *)
(* is_vector is is_std_vector_v<T> of the instantiation that a program     *)
(* links: vector_compare reads every token of a line through a             *)
(* stringstream, scalar_compare gives the whole line to std::stoi and its  *)
(* relatives.  A scalar is held here as a row of one value.                *)
(*                                                                         *)
(* A token is a decimal numeral with one fractional digit, held as its     *)
(* number of tenths (15 is "1.5", 20 is "2" or "2.0").  T is an integral   *)
(* type whose largest value is MaxValue; signs and radix prefixes are left *)
(* out.                                                                    *)
(***************************************************************************)
EXTENDS Integers, Sequences, SequencesExt, FiniteSetsExt

CONSTANTS
    Tokens,         \* the numerals a line may hold, in tenths
    MaxValue,       \* std::numeric_limits<T>::max()
    VectorInputs,   \* the texts vector_compare may meet: sequences of lines
    ScalarInputs,   \* the texts scalar_compare may meet
    Indeterminate,  \* what an uninitialized T may turn out to hold
    MaxRow          \* values a row may grow to before memory is exhausted

Streams == {"expected", "actual"}

Lines == [tokens: Seq(Tokens), trailing: BOOLEAN]

Values == 0..MaxValue

ASSUME TypesAssumption ==
    /\ Tokens \subseteq Nat
    /\ MaxValue \in Nat
    /\ VectorInputs \subseteq Seq(Lines) /\ ScalarInputs \subseteq Seq(Lines)
    /\ Indeterminate \subseteq Values /\ Indeterminate # {}
    /\ MaxRow \in Nat \ {0}

\* The solvers that print rows print integers only, and a machine on which
\* they ran can hold the rows they printed.
ASSUME VectorAssumption ==
    \A text \in VectorInputs : \A n \in DOMAIN text :
        /\ Len(text[n].tokens) < MaxRow
        /\ \A k \in DOMAIN text[n].tokens : text[n].tokens[k] % 10 = 0

VARIABLES
    is_vector,     \* is T an std::vector?
    lines,         \* the text of each stream
    nline,         \* the number of lines std::getline has taken from each
    reading,       \* the stream being read
    ss,            \* the stringstream over the current line
    value,         \* T value
    rows,          \* the values read from each stream
    pc,            \* the point the code has reached
    i,             \* rows compared so far
    test_success,  \* no mismatch so far
    status         \* the value main returns, or how the process died

vars == <<is_vector, lines, nline, reading, ss, value, rows, pc, i, test_success, status>>

Inputs == IF is_vector THEN VectorInputs ELSE ScalarInputs

Other(s) == CHOOSE t \in Streams : t # s

Line == lines[reading][nline[reading]]

\* What std::stoi and operator>> make of a numeral that fits T.
Whole(t) == t \div 10

\* What to_number accepts; on anything else it throws.
Convertible(line) == line.tokens # <<>> /\ Whole(line.tokens[1]) <= MaxValue

Fresh == [next |-> 0, eof |-> FALSE, fail |-> FALSE]

LowerSize == Min({Len(rows[s]) : s \in Streams})

\* Mutation of UpperSize: only the common prefix is compared.
CommonSize == LowerSize

UpperSize == Max({Len(rows[s]) : s \in Streams})

Push(v) ==
    LET last == Len(rows[reading])
    IN  rows' = [rows EXCEPT ![reading][last] = Append(@, v)]

----------------------------------------------------------------------------
\* scalar_compare reads ein first; the two read_values calls of
\* vector_compare are arguments of one call, so their order is unspecified.
Init ==
    /\ is_vector \in BOOLEAN
    /\ lines \in [Streams -> Inputs]
    /\ nline = [s \in Streams |-> 0]
    /\ reading \in IF is_vector THEN Streams ELSE {"expected"}
    /\ ss = Fresh
    /\ value = 0
    /\ rows = [s \in Streams |-> <<>>]
    /\ pc = "getline"
    /\ i = 0
    /\ test_success = TRUE
    /\ status = "running"

NextLine ==
    /\ pc = "getline"
    /\ nline[reading] < Len(lines[reading])
    /\ nline' = [nline EXCEPT ![reading] = @ + 1]

\* Mutation of GetLineVector: one stringstream for all lines of a text, given
\* each line by str() and never cleared, so that eofbit and failbit stay.
GetLineNotCleared ==
    /\ is_vector
    /\ NextLine
    /\ ss' = IF nline'[reading] = 1 THEN Fresh ELSE [ss EXCEPT !.next = 0]
    /\ rows' = [rows EXCEPT ![reading] = Append(@, <<>>)]
    /\ value' \in Indeterminate
    /\ pc' = IF ss'.eof THEN "getline" ELSE "extract"
    /\ UNCHANGED <<is_vector, lines, reading, i, test_success, status>>

\* vector_compare: a new stringstream over the line, a new empty row, and a
\* variable that has no value yet.
GetLineVector ==
    /\ is_vector
    /\ NextLine
    /\ ss' = Fresh
    /\ rows' = [rows EXCEPT ![reading] = Append(@, <<>>)]
    /\ value' \in Indeterminate
    /\ pc' = "extract"
    /\ UNCHANGED <<is_vector, lines, reading, i, test_success, status>>

\* scalar_compare: the numeral the line starts with; what follows is ignored.
\* to_number throws on a blank line and on a value T cannot hold, and nothing
\* in a solver catches it.
GetLineScalar ==
    /\ ~is_vector
    /\ NextLine
    /\ LET line == lines[reading][nline'[reading]]
       IN  \/ /\ Convertible(line)
              /\ rows' = [rows EXCEPT ![reading] = Append(@, <<Whole(line.tokens[1])>>)]
              /\ UNCHANGED <<pc, status>>
           \/ /\ ~Convertible(line)
              /\ pc' = "done" /\ status' = "abort"
              /\ UNCHANGED rows
    /\ UNCHANGED <<is_vector, lines, reading, ss, value, i, test_success>>

\* ss >> value when a token is left: a number too large for T is replaced by
\* the largest T and sets failbit; the end of the line sets eofbit only when
\* the token touches it.
ReadToken ==
    /\ ~ss.fail /\ ss.next < Len(Line.tokens)
    /\ LET n == Whole(Line.tokens[ss.next + 1])
       IN  /\ value' = Min({n, MaxValue})
           /\ ss' = [next |-> ss.next + 1,
                     eof  |-> ss.next + 1 = Len(Line.tokens) /\ ~Line.trailing,
                     fail |-> n > MaxValue]

\* ss >> value with nothing but blanks left: value keeps what it held.
ReadPastEnd ==
    /\ ~ss.fail /\ ss.next = Len(Line.tokens)
    /\ ss' = [ss EXCEPT !.eof = TRUE, !.fail = TRUE]
    /\ UNCHANGED value

\* ss >> value once failbit is set does nothing, so eofbit never comes.
ReadAfterFailure == ss.fail /\ UNCHANGED <<ss, value>>

\* Mutation of Extract: only what was extracted is pushed.
ExtractPushesRead ==
    /\ pc = "extract"
    /\ Len(Last(rows[reading])) < MaxRow
    /\ ReadToken \/ ReadPastEnd \/ ReadAfterFailure
    /\ IF ss'.fail THEN UNCHANGED rows ELSE Push(value')
    /\ pc' = IF ss'.eof THEN "getline" ELSE "extract"
    /\ UNCHANGED <<is_vector, lines, nline, reading, i, test_success, status>>

\* One iteration of while (!ss.eof()).  The value is pushed whether or not
\* the extraction produced one.
Extract ==
    /\ pc = "extract"
    /\ Len(Last(rows[reading])) < MaxRow
    /\ ReadToken \/ ReadPastEnd \/ ReadAfterFailure
    /\ Push(value')
    /\ pc' = IF ss'.eof THEN "getline" ELSE "extract"
    /\ UNCHANGED <<is_vector, lines, nline, reading, i, test_success, status>>

\* push_back throws std::bad_alloc, which nothing catches.
OutOfMemory ==
    /\ pc = "extract"
    /\ Len(Last(rows[reading])) = MaxRow
    /\ pc' = "done" /\ status' = "abort"
    /\ UNCHANGED <<is_vector, lines, nline, reading, ss, value, rows, i, test_success>>

\* std::getline fails: go on to the other stream, or to the comparison when
\* that one has been read.
EndOfStream ==
    /\ pc = "getline"
    /\ nline[reading] = Len(lines[reading])
    /\ IF nline[Other(reading)] < Len(lines[Other(reading)])
         THEN reading' = Other(reading) /\ UNCHANGED pc
         ELSE pc' = "compare" /\ UNCHANGED reading
    /\ UNCHANGED <<is_vector, lines, nline, ss, value, rows, i, test_success, status>>

\* One iteration of the loop of compare(out, expected, actual).
CompareRow ==
    /\ pc = "compare"
    /\ i < UpperSize
    /\ i' = i + 1
    /\ test_success' = /\ test_success
                       /\ i < LowerSize
                       /\ rows["expected"][i + 1] = rows["actual"][i + 1]
    /\ UNCHANGED <<is_vector, lines, nline, reading, ss, value, rows, pc, status>>

Exit ==
    /\ pc = "compare"
    /\ i = UpperSize
    /\ pc' = "done"
    /\ status' = IF test_success THEN "EXIT_SUCCESS" ELSE "EXIT_FAILURE"
    /\ UNCHANGED <<is_vector, lines, nline, reading, ss, value, rows, i, test_success>>

Finished == pc = "done" /\ UNCHANGED vars

Next ==
    \/ GetLineVector \/ GetLineScalar \/ Extract \/ OutOfMemory
    \/ EndOfStream \/ CompareRow \/ Exit
    \/ Finished

Spec == Init /\ [][Next]_vars /\ WF_vars(Next)

----------------------------------------------------------------------------
\* A line as the solvers print it: values separated by single spaces.
CleanLine(line) ==
    /\ line.tokens # <<>>
    /\ ~line.trailing
    /\ \A n \in DOMAIN line.tokens :
          line.tokens[n] % 10 = 0 /\ Whole(line.tokens[n]) <= MaxValue
    /\ ~is_vector => Len(line.tokens) = 1

Clean == \A s \in Streams : \A n \in DOMAIN lines[s] : CleanLine(lines[s][n])

\* The numbers written on a line and in a text.
Numbers(line) == [n \in DOMAIN line.tokens |-> Whole(line.tokens[n])]

Meaning(text) == [n \in DOMAIN text |-> Numbers(text[n])]

\* The state stays within these types: a row never outgrows memory, and the
\* counters stay within the texts.
TypeOK ==
    /\ is_vector \in BOOLEAN
    /\ lines \in [Streams -> Inputs]
    /\ nline \in [Streams -> Nat]
    /\ \A s \in Streams : nline[s] <= Len(lines[s])
    /\ reading \in Streams
    /\ ss \in [next: Nat, eof: BOOLEAN, fail: BOOLEAN]
    /\ value \in Values
    /\ rows \in [Streams -> Seq(Seq(Values))]
    /\ pc \in {"getline", "extract", "compare", "done"}
    /\ i \in Nat
    /\ test_success \in BOOLEAN
    /\ status \in {"running", "EXIT_SUCCESS", "EXIT_FAILURE", "abort"}

\* When both streams hold what the solvers print, the process is not killed and
\* ends with EXIT_SUCCESS exactly when the two texts say the same numbers
\* (compare.hh 131, 226, 451, 537): no prefix, extra row or short row passes.
VerdictExact ==
    (pc = "done" /\ Clean) =>
        /\ status # "abort"
        /\ status = "EXIT_SUCCESS"
              <=> Meaning(lines["expected"]) = Meaning(lines["actual"])

\* Whatever the streams held, a process that did not die reports success
\* exactly when the rows it read are the same rows.
VerdictOnRows ==
    (pc = "done" /\ status # "abort") =>
        (status = "EXIT_SUCCESS" <=> rows["expected"] = rows["actual"])

\* A line that kills the process.  For scalar_compare, one that does not begin
\* with a number that T holds; for vector_compare, one with a number too large
\* that does not end the line: extraction stops short of the end, which the loop
\* waits for while the row grows.
Fatal(line) ==
    IF is_vector
      THEN \E k \in DOMAIN line.tokens :
              Whole(line.tokens[k]) > MaxValue /\ (k < Len(line.tokens) \/ line.trailing)
      ELSE ~Convertible(line)

\* The process is killed on such a line, in whichever of the two texts and
\* after whatever lines, and on no other (compare.hh 428, 432, 466): no verdict
\* is given then, and a blank line or a number too large at the end of a line
\* does not keep vector_compare from giving one.
KilledByFatalLine ==
    pc = "done" =>
        (status = "abort" <=> \E s \in Streams : \E n \in DOMAIN lines[s] : Fatal(lines[s][n]))

\* exit_compare returns, or the process dies, on every pair of texts.
Termination == <>(pc = "done")

----------------------------------------------------------------------------
\* compare.hh 451: "@returns `true` if results match".  It holds for Clean
\* texts only; the run harness_same_text shows what a blank line makes of it.
SameTextPasses ==
    (pc = "done" /\ lines["expected"] = lines["actual"]) => status = "EXIT_SUCCESS"

\* compare.hh 537: "`EXIT_SUCCESS` if results match, `EXIT_FAILURE` otherwise".
\* Texts of single values with one digit after the point, as running_median
\* prints them, that differ in a number do not match; the run medians_truncated
\* shows what comparing them as int, as running_median does, makes of them.
OtherNumbersFail ==
    (pc = "done" /\ ~is_vector /\ lines["expected"] # lines["actual"]) => status # "EXIT_SUCCESS"
============================================================================
