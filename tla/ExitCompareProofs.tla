------------------------- MODULE ExitCompareProofs -------------------------
(***************************************************************************)
(* The verdict of exit_compare, for every value type, every text and every *)
(* memory size: success means that the rows read are the same, and for     *)
(* texts as the solvers print them that the texts say the same.            *)
(*                                                                         *)
(* The reading half of the invariant (Reading) follows the stringstream    *)
(* over a clean line token by token; the comparing half (Comparing) says   *)
(* what test_success has seen.                                             *)
(*                                                                         *)
(* FatalInv says of the lines read which of them kill the process.         *)
(*                                                                         *)
(* Then the two parts of compare.hh that it rests on: compare of scalars   *)
(* accepts nothing beyond the tolerance of its type but for the rounding,  *)
(* for floating types of any precision, range and tolerance (ScalarsInv),  *)
(* and to_number keeps numbers for words of any size (NumberInv).          *)
(***************************************************************************)
EXTENDS Harness, FiniteSetTheorems, NaturalsInduction, WellFoundedInduction, TLAPS

\* The texts are those of either instantiation.
USE DEF Inputs

LEMMA TwoStreams ==
    ASSUME NEW s \in Streams
    PROVE  /\ Other(s) \in Streams /\ Other(s) # s
           /\ \A t \in Streams : t = s \/ t = Other(s)
<1>1. \E t \in Streams : t # s
  BY DEF Streams
<1>2. Other(s) \in Streams /\ Other(s) # s
  BY <1>1 DEF Other
<1> QED
  BY <1>2 DEF Streams

LEMMA MinOfTwo ==
    ASSUME NEW a \in Nat, NEW b \in Nat
    PROVE  /\ Min({a, b}) \in {a, b} /\ Min({a, b}) <= a /\ Min({a, b}) <= b
           /\ Max({a, b}) \in {a, b} /\ Max({a, b}) >= a /\ Max({a, b}) >= b
<1>1. \E x \in {a, b} : \A y \in {a, b} : x <= y
  <2>1. CASE a <= b
    BY <2>1
  <2>2. CASE b <= a
    BY <2>2
  <2> QED
    BY <2>1, <2>2
<1>2. \E x \in {a, b} : \A y \in {a, b} : x >= y
  <2>1. CASE a <= b
    BY <2>1
  <2>2. CASE b <= a
    BY <2>2
  <2> QED
    BY <2>1, <2>2
<1>3. Min({a, b}) \in {a, b} /\ \A y \in {a, b} : Min({a, b}) <= y
  BY <1>1 DEF Min
<1>4. Max({a, b}) \in {a, b} /\ \A y \in {a, b} : Max({a, b}) >= y
  BY <1>2 DEF Max
<1> QED
  BY <1>3, <1>4

LEMMA MinBelow ==
    ASSUME NEW a \in Nat, NEW b \in Nat, a <= b
    PROVE  Min({a, b}) = a
BY MinOfTwo

LEMMA Appended ==
    ASSUME NEW S, NEW q \in Seq(S), NEW v \in S, NEW x \in Nat, Len(q) = x
    PROVE  /\ Append(q, v) \in Seq(S) /\ Len(Append(q, v)) = x + 1
           /\ \A j \in 1..x : Append(q, v)[j] = q[j]
           /\ Append(q, v)[x + 1] = v
OBVIOUS

\* The sizes the comparison loops over.
LEMMA Sizes ==
    ASSUME rows \in [Streams -> Seq(Seq(Values))]
    PROVE  LET e == Len(rows["expected"])
               a == Len(rows["actual"])
           IN  /\ e \in Nat /\ a \in Nat
               /\ LowerSize \in {e, a} /\ LowerSize <= e /\ LowerSize <= a
               /\ UpperSize \in {e, a} /\ UpperSize >= e /\ UpperSize >= a
<1> DEFINE e == Len(rows["expected"])
           a == Len(rows["actual"])
<1>1. e \in Nat /\ a \in Nat
  BY DEF Streams
<1>2. {Len(rows[s]) : s \in Streams} = {e, a}
  BY DEF Streams
<1> HIDE DEF e, a
<1>3. LowerSize = Min({e, a}) /\ UpperSize = Max({e, a})
  BY <1>2 DEF LowerSize, UpperSize
<1>4. /\ LowerSize \in {e, a} /\ LowerSize <= e /\ LowerSize <= a
      /\ UpperSize \in {e, a} /\ UpperSize >= e /\ UpperSize >= a
  BY <1>1, <1>3, MinOfTwo
<1> QED
  BY <1>1, <1>4 DEF e, a

\* A line of a text and the numbers on it.
LEMMA LineTypes ==
    ASSUME lines \in [Streams -> Inputs], NEW s \in Streams, NEW k \in 1..Len(lines[s])
    PROVE  /\ lines[s] \in Seq(Lines) /\ Len(lines[s]) \in Nat /\ DOMAIN lines[s] = 1..Len(lines[s])
           /\ lines[s][k] \in Lines
           /\ lines[s][k].tokens \in Seq(Tokens) /\ Len(lines[s][k].tokens) \in Nat
           /\ lines[s][k].trailing \in BOOLEAN
           /\ \A j \in 1..Len(lines[s][k].tokens) :
                 lines[s][k].tokens[j] \in Nat /\ Whole(lines[s][k].tokens[j]) \in Nat
           /\ is_vector => Len(lines[s][k].tokens) < MaxRow
<1>1. lines[s] \in Inputs /\ lines[s] \in Seq(Lines)
  BY TypesAssumption
<1>2. lines[s][k] \in Lines /\ k \in DOMAIN lines[s]
  BY <1>1
<1>3. lines[s][k].tokens \in Seq(Tokens) /\ lines[s][k].trailing \in BOOLEAN
  BY <1>2 DEF Lines
<1>4. \A j \in 1..Len(lines[s][k].tokens) : lines[s][k].tokens[j] \in Tokens
  BY <1>3
<1>5. \A j \in 1..Len(lines[s][k].tokens) : lines[s][k].tokens[j] \in Nat
  BY <1>4, TypesAssumption
<1>6. \A j \in 1..Len(lines[s][k].tokens) : Whole(lines[s][k].tokens[j]) \in Nat
  BY <1>5 DEF Whole
<1>7. is_vector => Len(lines[s][k].tokens) < MaxRow
  BY <1>1, <1>2, VectorAssumption
<1> QED
  BY <1>1, <1>2, <1>3, <1>5, <1>6, <1>7

----------------------------------------------------------------------------
\* What holds while the two streams are read.  Only the last line of the
\* stream being read may have a row that is not finished, and only at
\* pc = "extract".
Unfinished(s, k) == pc = "extract" /\ s = reading /\ k = nline[s]

\* The row of a clean line holds the numbers taken from it so far.
CleanPrefix ==
    LET row == rows[reading][nline[reading]]
    IN  /\ ~ss.fail
        /\ ss.next < Len(Line.tokens)
        /\ Len(row) = ss.next
        /\ \A j \in 1..ss.next : row[j] = Whole(Line.tokens[j])

Reading ==
    /\ pc \in {"getline", "extract", "compare"} => status = "running"
    /\ pc = "done" => status # "running"
    /\ status # "abort" => \A s \in Streams : Len(rows[s]) = nline[s]
    /\ pc = "extract" => is_vector /\ nline[reading] >= 1
    /\ pc = "compare" \/ (pc = "done" /\ status # "abort")
          => \A s \in Streams : nline[s] = Len(lines[s])
    /\ Clean => /\ status # "abort"
                /\ pc = "extract" => CleanPrefix
                /\ \A s \in Streams : \A k \in 1..nline[s] :
                      ~Unfinished(s, k) => rows[s][k] = Numbers(lines[s][k])

\* What test_success has seen.
SameUpTo(m) ==
    \A k \in 1..m : k <= LowerSize /\ rows["expected"][k] = rows["actual"][k]

Comparing ==
    /\ pc \in {"getline", "extract"} => i = 0 /\ test_success
    /\ pc = "compare" => i <= UpperSize /\ (test_success <=> SameUpTo(i))
    /\ pc = "done" /\ status # "abort" =>
          (status = "EXIT_SUCCESS" <=> SameUpTo(UpperSize))

IInv == TypeOK /\ Reading /\ Comparing

LEMMA InductiveInit == Init => IInv
<1> SUFFICES ASSUME Init PROVE IInv
  OBVIOUS
<1> USE DEF Init
<1>1. \A s \in Streams : Len(lines[s]) \in Nat
  BY TypesAssumption
<1>2. TypeOK
  <2>1. reading \in Streams /\ value \in Values
    BY TypesAssumption DEF Streams, Values
  <2>2. ss \in [next: Nat, eof: BOOLEAN, fail: BOOLEAN]
    BY DEF Fresh
  <2>3. nline \in [Streams -> Nat] /\ \A s \in Streams : nline[s] <= Len(lines[s])
    BY <1>1
  <2>4. rows \in [Streams -> Seq(Seq(Values))]
    OBVIOUS
  <2> QED
    BY <2>1, <2>2, <2>3, <2>4 DEF TypeOK
<1>3. Reading
  BY DEF Reading
<1>4. Comparing
  BY DEF Comparing
<1> QED
  BY <1>2, <1>3, <1>4 DEF IInv

\* While nothing is compared, the comparing half only needs i and test_success.
LEMMA ReadingKeepsComparing ==
    ASSUME Comparing, pc \in {"getline", "extract"}, UNCHANGED <<i, test_success>>,
           \/ pc' \in {"getline", "extract"}
           \/ pc' = "done" /\ status' = "abort"
    PROVE  Comparing'
BY DEF Comparing

\* The facts about the types that the steps below share.
LEMMA Types ==
    ASSUME TypeOK, NEW s \in Streams
    PROVE  /\ nline[s] \in Nat /\ Len(lines[s]) \in Nat /\ nline[s] <= Len(lines[s])
           /\ rows[s] \in Seq(Seq(Values)) /\ Len(rows[s]) \in Nat
BY TypesAssumption DEF TypeOK

\* vector_compare takes a line.
LEMMA GetLineVectorStep == IInv /\ GetLineVector => IInv'
<1> SUFFICES ASSUME IInv, GetLineVector PROVE IInv'
  OBVIOUS
<1> DEFINE s == reading
           k == nline[s] + 1
<1>1. /\ TypeOK /\ Reading /\ Comparing /\ s \in Streams /\ is_vector
      /\ pc = "getline" /\ status = "running"
  BY DEF IInv, TypeOK, GetLineVector, NextLine, Reading
<1>2. /\ nline[s] \in Nat /\ Len(lines[s]) \in Nat /\ k \in 1..Len(lines[s])
      /\ Len(rows[s]) = nline[s] /\ rows[s] \in Seq(Seq(Values))
  BY <1>1, Types DEF GetLineVector, NextLine, Reading
<1>3. /\ nline' = [nline EXCEPT ![s] = k] /\ ss' = Fresh /\ pc' = "extract"
      /\ rows' = [rows EXCEPT ![s] = Append(rows[s], <<>>)]
      /\ value' \in Values
      /\ UNCHANGED <<is_vector, lines, reading, i, test_success, status>>
  BY TypesAssumption DEF GetLineVector, NextLine
<1> HIDE DEF k
<1>4. /\ nline'[s] = k /\ rows'[s] = Append(rows[s], <<>>)
      /\ \A t \in Streams : t # s => nline'[t] = nline[t] /\ rows'[t] = rows[t]
  BY <1>1, <1>3 DEF TypeOK
<1>5. /\ Len(rows'[s]) = k /\ rows'[s][k] = <<>>
      /\ \A j \in 1..nline[s] : rows'[s][j] = rows[s][j]
      /\ rows'[s] \in Seq(Seq(Values))
  BY <1>2, <1>4 DEF k
<1>6. TypeOK'
  <2>1. rows' \in [Streams -> Seq(Seq(Values))]
    BY <1>1, <1>3, <1>4, <1>5 DEF TypeOK
  <2>2. nline' \in [Streams -> Nat] /\ \A t \in Streams : nline'[t] <= Len(lines[t])
    BY <1>1, <1>2, <1>3, <1>4 DEF TypeOK
  <2>3. ss' \in [next: Nat, eof: BOOLEAN, fail: BOOLEAN]
    BY <1>3 DEF Fresh
  <2> QED
    BY <1>1, <1>3, <2>1, <2>2, <2>3 DEF TypeOK
<1>7. Reading'
  <2>1. \A t \in Streams : Len(rows'[t]) = nline'[t]
    BY <1>1, <1>4, <1>5 DEF Reading
  <2>2. nline'[reading'] >= 1
    BY <1>2, <1>3, <1>4
  <2>3. Clean' <=> Clean
    BY <1>3 DEF Clean, CleanLine
  <2>4. ASSUME Clean PROVE CleanPrefix'
    <3>1. CleanLine(lines[s][k])
      BY <1>1, <1>2, <2>4, LineTypes DEF Clean, TypeOK
    <3>2. /\ lines[s][k].tokens # <<>> /\ lines[s][k].tokens \in Seq(Tokens)
          /\ Len(lines[s][k].tokens) \in Nat
      BY <1>1, <1>2, <3>1, LineTypes DEF CleanLine, TypeOK
    <3>3. 0 < Len(lines[s][k].tokens)
      BY <3>2
    <3>4. Line' = lines[s][k] /\ rows'[reading'][nline'[reading']] = <<>>
      BY <1>3, <1>4, <1>5 DEF Line
    <3>5. ss'.next = 0 /\ ~ss'.fail /\ Len(<<>>) = 0 /\ 1..0 = {}
      BY <1>3 DEF Fresh
    <3> QED
      BY <3>3, <3>4, <3>5 DEF CleanPrefix
  <2>5. ASSUME Clean, NEW t \in Streams, NEW j \in 1..nline'[t], ~Unfinished(t, j)'
        PROVE  rows'[t][j] = Numbers(lines[t][j])
    <3>1. ~ (t = s /\ j = k)
      BY <1>3, <1>4, <2>5 DEF Unfinished
    <3>2. j \in 1..nline[t] /\ rows'[t][j] = rows[t][j]
      <4>1. CASE t = s
        <5>1. j \in 1..k /\ j # k
          BY <1>4, <2>5, <3>1, <4>1
        <5>2. j \in 1..nline[s]
          BY <1>2, <5>1 DEF k
        <5> QED
          BY <1>5, <4>1, <5>2
      <4>2. CASE t # s
        BY <1>4, <2>5, <4>2
      <4> QED
        BY <4>1, <4>2
    <3>3. ~Unfinished(t, j)
      BY <1>1 DEF Unfinished
    <3> QED
      BY <1>1, <2>5, <3>2, <3>3 DEF Reading
  <2> QED
    BY <1>1, <1>3, <2>1, <2>2, <2>3, <2>4, <2>5 DEF Reading
<1>8. Comparing'
  BY <1>1, <1>3, ReadingKeepsComparing
<1> QED
  BY <1>6, <1>7, <1>8 DEF IInv

\* scalar_compare takes a line.
LEMMA GetLineScalarStep == IInv /\ GetLineScalar => IInv'
<1> SUFFICES ASSUME IInv, GetLineScalar PROVE IInv'
  OBVIOUS
<1> DEFINE s == reading
           k == nline[s] + 1
           line == lines[s][k]
<1>1. /\ TypeOK /\ Reading /\ Comparing /\ s \in Streams /\ ~is_vector
      /\ pc = "getline" /\ status = "running"
  BY DEF IInv, TypeOK, GetLineScalar, NextLine, Reading
<1>2. /\ nline[s] \in Nat /\ Len(lines[s]) \in Nat /\ k \in 1..Len(lines[s])
      /\ Len(rows[s]) = nline[s] /\ rows[s] \in Seq(Seq(Values))
  BY <1>1, Types DEF GetLineScalar, NextLine, Reading
<1>3. /\ nline' = [nline EXCEPT ![s] = k]
      /\ UNCHANGED <<is_vector, lines, reading, ss, value, i, test_success>>
  BY DEF GetLineScalar, NextLine
<1>4. /\ nline'[s] = k /\ nline'[reading] = k
      /\ \A t \in Streams : t # s => nline'[t] = nline[t]
  BY <1>1, <1>3 DEF TypeOK
<1>5. \/ /\ Convertible(line)
         /\ rows' = [rows EXCEPT ![s] = Append(rows[s], <<Whole(line.tokens[1])>>)]
         /\ UNCHANGED <<pc, status>>
      \/ /\ ~Convertible(line)
         /\ pc' = "done" /\ status' = "abort" /\ UNCHANGED rows
  BY <1>4 DEF GetLineScalar
<1> HIDE DEF k
<1>6. nline' \in [Streams -> Nat] /\ \A t \in Streams : nline'[t] <= Len(lines[t])
  BY <1>1, <1>2, <1>3, <1>4 DEF TypeOK
<1>7. /\ line.tokens \in Seq(Tokens) /\ Len(line.tokens) \in Nat
      /\ \A j \in 1..Len(line.tokens) : Whole(line.tokens[j]) \in Nat
  BY <1>1, <1>2, LineTypes DEF TypeOK
<1>8. Clean' <=> Clean
  BY <1>3 DEF Clean, CleanLine
<1>9. ASSUME Clean PROVE Len(line.tokens) = 1 /\ Whole(line.tokens[1]) <= MaxValue
  <2>1. CleanLine(line)
    BY <1>1, <1>2, <1>9, LineTypes DEF Clean, TypeOK
  <2> QED
    BY <1>1, <1>7, <2>1 DEF CleanLine
<1>10. CASE Convertible(line)
  <2> DEFINE v == Whole(line.tokens[1])
  <2>1. /\ rows' = [rows EXCEPT ![s] = Append(rows[s], <<v>>)] /\ UNCHANGED <<pc, status>>
    BY <1>5, <1>10
  <2>2. v \in Values
    <3>1. 1 \in 1..Len(line.tokens) /\ v <= MaxValue
      BY <1>7, <1>10 DEF Convertible
    <3> QED
      BY <1>7, <3>1, TypesAssumption DEF Values
  <2> HIDE DEF v
  <2>3. /\ rows'[s] = Append(rows[s], <<v>>)
        /\ \A t \in Streams : t # s => rows'[t] = rows[t]
    BY <1>1, <2>1 DEF TypeOK
  <2>4. /\ Len(rows'[s]) = k /\ rows'[s][k] = <<v>>
        /\ \A j \in 1..nline[s] : rows'[s][j] = rows[s][j]
        /\ rows'[s] \in Seq(Seq(Values))
    BY <1>2, <2>2, <2>3 DEF k
  <2>5. TypeOK'
    <3>1. rows' \in [Streams -> Seq(Seq(Values))]
      BY <1>1, <2>1, <2>3, <2>4 DEF TypeOK
    <3> QED
      BY <1>1, <1>3, <1>6, <2>1, <3>1 DEF TypeOK
  <2>6. Reading'
    <3>1. \A t \in Streams : Len(rows'[t]) = nline'[t]
      BY <1>1, <1>4, <2>3, <2>4 DEF Reading
    <3>2. ASSUME Clean, NEW t \in Streams, NEW j \in 1..nline'[t]
          PROVE  rows'[t][j] = Numbers(lines[t][j])
      <4>1. CASE t = s /\ j = k
        <5>1. DOMAIN line.tokens = 1..1 /\ Numbers(line) = [m \in 1..1 |-> Whole(line.tokens[m])]
          BY <1>7, <1>9, <3>2 DEF Numbers
        <5>2. Numbers(line) = <<v>>
          BY <5>1 DEF v
        <5> QED
          BY <2>4, <4>1, <5>2
      <4>2. CASE t = s /\ j # k
        <5>1. j \in 1..nline[s]
          BY <1>2, <1>4, <3>2, <4>2 DEF k
        <5> QED
          BY <1>1, <2>4, <3>2, <4>2, <5>1 DEF Reading, Unfinished
      <4>3. CASE t # s
        BY <1>1, <1>4, <2>3, <3>2, <4>3 DEF Reading, Unfinished
      <4> QED
        BY <4>1, <4>2, <4>3
    <3> QED
      BY <1>1, <1>3, <1>8, <2>1, <3>1, <3>2 DEF Reading
  <2>7. Comparing'
    BY <1>1, <1>3, <2>1, ReadingKeepsComparing
  <2> QED
    BY <2>5, <2>6, <2>7 DEF IInv
<1>11. CASE ~Convertible(line)
  <2>1. pc' = "done" /\ status' = "abort" /\ UNCHANGED rows
    BY <1>5, <1>11
  <2>2. TypeOK'
    BY <1>1, <1>3, <1>6, <2>1 DEF TypeOK
  <2>3. ~Clean
    BY <1>7, <1>9, <1>11 DEF Convertible
  <2>4. Reading'
    BY <1>8, <2>1, <2>3 DEF Reading
  <2>5. Comparing'
    BY <1>1, <1>3, <2>1, ReadingKeepsComparing
  <2> QED
    BY <2>2, <2>4, <2>5 DEF IInv
<1> QED
  BY <1>10, <1>11

\* A row as long as a clean line, number by number the same, is its numbers.
LEMMA RowIsNumbers ==
    ASSUME NEW line \in Lines, NEW row \in Seq(Values), Len(row) = Len(line.tokens),
           \A j \in 1..Len(row) : row[j] = Whole(line.tokens[j])
    PROVE  row = Numbers(line)
<1>1. line.tokens \in Seq(Tokens)
  BY DEF Lines
<1>2. DOMAIN line.tokens = 1..Len(row) /\ row = [j \in 1..Len(row) |-> row[j]]
  BY <1>1
<1>3. Numbers(line) = [j \in 1..Len(row) |-> Whole(line.tokens[j])]
  BY <1>2 DEF Numbers
<1> QED
  BY <1>2, <1>3

\* One extraction: where it leaves the stringstream, and what it pushes.
LEMMA ExtractTypes ==
    ASSUME TypeOK, ReadToken \/ ReadPastEnd \/ ReadAfterFailure,
           nline[reading] \in 1..Len(lines[reading])
    PROVE  value' \in Values /\ ss' \in [next: Nat, eof: BOOLEAN, fail: BOOLEAN]
<1>1. reading \in Streams /\ value \in Values /\ ss \in [next: Nat, eof: BOOLEAN, fail: BOOLEAN]
  BY DEF TypeOK
<1>2. CASE ReadToken
  <2> DEFINE n == Whole(Line.tokens[ss.next + 1])
  <2>1. /\ Len(Line.tokens) \in Nat /\ Line.trailing \in BOOLEAN
        /\ \A j \in 1..Len(Line.tokens) : Whole(Line.tokens[j]) \in Nat
    BY <1>1, LineTypes DEF TypeOK, Line
  <2>2. ss.next + 1 \in 1..Len(Line.tokens)
    BY <1>1, <1>2, <2>1 DEF ReadToken
  <2>3. n \in Nat /\ MaxValue \in Nat
    BY <2>1, <2>2, TypesAssumption
  <2>4. /\ value' = Min({n, MaxValue})
        /\ ss' = [next |-> ss.next + 1,
                  eof  |-> ss.next + 1 = Len(Line.tokens) /\ ~Line.trailing,
                  fail |-> n > MaxValue]
    BY <1>2 DEF ReadToken
  <2> HIDE DEF n
  <2>5. value' \in Values
    BY <2>3, <2>4, MinOfTwo DEF Values
  <2>6. ss' \in [next: Nat, eof: BOOLEAN, fail: BOOLEAN]
    BY <1>1, <2>4
  <2> QED
    BY <2>5, <2>6
<1>3. CASE ReadPastEnd
  BY <1>1, <1>3 DEF ReadPastEnd
<1>4. CASE ReadAfterFailure
  BY <1>1, <1>4 DEF ReadAfterFailure
<1> QED
  BY <1>2, <1>3, <1>4

\* One pass of the loop over the stringstream.
LEMMA ExtractStep == IInv /\ Extract => IInv'
<1> SUFFICES ASSUME IInv, Extract PROVE IInv'
  OBVIOUS
<1> DEFINE s == reading
           k == nline[s]
           row == rows[s][k]
<1>1. /\ TypeOK /\ Reading /\ Comparing /\ s \in Streams /\ is_vector
      /\ pc = "extract" /\ status = "running"
      /\ ReadToken \/ ReadPastEnd \/ ReadAfterFailure
  BY DEF IInv, TypeOK, Extract, Reading
<1>2. /\ k \in Nat /\ k >= 1 /\ Len(lines[s]) \in Nat /\ k \in 1..Len(lines[s])
      /\ Len(rows[s]) = k /\ rows[s] \in Seq(Seq(Values))
  BY <1>1, Types DEF Reading
<1>3. value' \in Values /\ ss' \in [next: Nat, eof: BOOLEAN, fail: BOOLEAN]
  BY <1>1, <1>2, ExtractTypes
<1>4. row \in Seq(Values) /\ Len(row) \in Nat /\ Line = lines[s][k]
  BY <1>2 DEF Line
<1>5. /\ rows' = [rows EXCEPT ![s] = [rows[s] EXCEPT ![k] = Append(row, value')]]
      /\ pc' = IF ss'.eof THEN "getline" ELSE "extract"
      /\ UNCHANGED <<is_vector, lines, nline, reading, i, test_success, status>>
  BY <1>2 DEF Extract, Push
<1> HIDE DEF k, row
<1>6. /\ rows'[s] = [rows[s] EXCEPT ![k] = Append(row, value')]
      /\ \A t \in Streams : t # s => rows'[t] = rows[t]
  BY <1>1, <1>5 DEF TypeOK
<1>7. /\ rows'[s] \in Seq(Seq(Values)) /\ Len(rows'[s]) = k
      /\ rows'[s][k] = Append(row, value')
      /\ \A j \in 1..k : j # k => rows'[s][j] = rows[s][j]
  BY <1>2, <1>3, <1>4, <1>6
<1>8. TypeOK'
  <2>1. rows' \in [Streams -> Seq(Seq(Values))]
    BY <1>1, <1>5, <1>6, <1>7 DEF TypeOK
  <2> QED
    BY <1>1, <1>3, <1>5, <2>1 DEF TypeOK
<1>9. Reading'
  <2>1. \A t \in Streams : Len(rows'[t]) = nline'[t]
    BY <1>1, <1>5, <1>6, <1>7 DEF Reading, k
  <2>2. nline'[reading'] >= 1
    BY <1>2, <1>5 DEF k
  <2>3. Clean' <=> Clean
    BY <1>5 DEF Clean, CleanLine
  <2>4. ASSUME Clean
        PROVE  /\ pc' = "extract" => CleanPrefix'
               /\ pc' = "getline" => rows'[s][k] = Numbers(lines[s][k])
    <3> DEFINE line == lines[s][k]
               new == Append(row, value')
    <3>1. /\ line \in Lines /\ Len(line.tokens) \in Nat
          /\ \A j \in 1..Len(line.tokens) : Whole(line.tokens[j]) \in Nat
      BY <1>1, <1>2, LineTypes DEF TypeOK
    <3>2. CleanLine(line)
      BY <1>1, <1>2, <2>4, LineTypes DEF Clean, TypeOK
    <3>3. /\ ~ss.fail /\ ss.next < Len(line.tokens) /\ Len(row) = ss.next /\ ss.next \in Nat
          /\ \A j \in 1..ss.next : row[j] = Whole(line.tokens[j])
      BY <1>1, <1>4, <2>4 DEF Reading, CleanPrefix, k, row, TypeOK
    <3>4. ReadToken
      BY <1>1, <1>4, <3>1, <3>3 DEF ReadPastEnd, ReadAfterFailure
    <3> DEFINE n == Whole(line.tokens[ss.next + 1])
    <3>5. /\ ss.next + 1 \in 1..Len(line.tokens) /\ ss.next + 1 \in DOMAIN line.tokens
          /\ n \in Nat /\ n <= MaxValue
      BY <3>1, <3>2, <3>3 DEF CleanLine, Lines
    <3>6. /\ value' = Min({n, MaxValue})
          /\ ss'.next = ss.next + 1 /\ ss'.eof = (ss.next + 1 = Len(line.tokens) /\ ~line.trailing)
          /\ ss'.fail = (n > MaxValue)
      BY <1>4, <3>4 DEF ReadToken
    <3> HIDE DEF line, n, new
    <3>7. value' = n
      BY <3>5, <3>6, MinBelow, TypesAssumption
    <3>8. /\ new \in Seq(Values) /\ Len(new) = ss'.next
          /\ \A j \in 1..Len(new) : new[j] = Whole(line.tokens[j])
      <4>1. /\ new \in Seq(Values) /\ Len(new) = ss.next + 1
            /\ \A j \in 1..ss.next : new[j] = row[j]
            /\ new[ss.next + 1] = n
        BY <1>3, <1>4, <3>3, <3>7, Appended DEF new
      <4>2. ASSUME NEW j \in 1..(ss.next + 1)
            PROVE  new[j] = Whole(line.tokens[j])
        <5>1. CASE j \in 1..ss.next
          BY <3>3, <4>1, <5>1
        <5>2. CASE j = ss.next + 1
          BY <4>1, <5>2 DEF n
        <5> QED
          BY <3>3, <5>1, <5>2
      <4> QED
        BY <3>6, <4>1, <4>2
    <3>9. rows'[s][k] = new /\ ~ss'.fail
      <4>1. ~ (n > MaxValue)
        BY <3>5, TypesAssumption
      <4> QED
        BY <1>7, <3>6, <4>1 DEF new
    <3>10. CASE ss'.eof
      <4>1. new = Numbers(line)
        BY <3>1, <3>6, <3>8, <3>10, RowIsNumbers
      <4> QED
        BY <1>5, <3>9, <3>10, <4>1 DEF line
    <3>11. CASE ~ss'.eof
      <4>1. ss'.next < Len(line.tokens)
        <5>1. ss.next + 1 # Len(line.tokens)
          BY <3>2, <3>6, <3>11 DEF CleanLine
        <5> QED
          BY <3>1, <3>3, <3>6, <5>1
      <4>2. Line' = line /\ rows'[reading'][nline'[reading']] = new
        BY <1>5, <3>9 DEF Line, line, k
      <4>3. CleanPrefix'
        BY <3>8, <3>9, <4>1, <4>2 DEF CleanPrefix
      <4> QED
        BY <1>5, <3>11, <4>3
    <3> QED
      BY <3>10, <3>11
  <2>5. ASSUME Clean, NEW t \in Streams, NEW j \in 1..nline'[t], ~Unfinished(t, j)'
        PROVE  rows'[t][j] = Numbers(lines[t][j])
    <3>1. CASE t = s /\ j = k
      BY <1>5, <2>4, <2>5, <3>1 DEF Unfinished, k
    <3>2. CASE t = s /\ j # k
      BY <1>1, <1>5, <1>7, <2>5, <3>2 DEF Reading, Unfinished, k
    <3>3. CASE t # s
      BY <1>1, <1>5, <1>6, <2>5, <3>3 DEF Reading, Unfinished
    <3> QED
      BY <3>1, <3>2, <3>3
  <2> QED
    BY <1>1, <1>5, <2>1, <2>2, <2>3, <2>4, <2>5 DEF Reading
<1>10. Comparing'
  BY <1>1, <1>5, ReadingKeepsComparing
<1> QED
  BY <1>8, <1>9, <1>10 DEF IInv

\* Memory never runs out on a clean line: the row is shorter than the line.
LEMMA OutOfMemoryStep == IInv /\ OutOfMemory => IInv'
<1> SUFFICES ASSUME IInv, OutOfMemory PROVE IInv'
  OBVIOUS
<1>1. /\ TypeOK /\ Reading /\ Comparing /\ reading \in Streams /\ is_vector /\ pc = "extract"
      /\ pc' = "done" /\ status' = "abort" /\ status # "abort"
      /\ UNCHANGED <<is_vector, lines, nline, reading, ss, value, rows, i, test_success>>
  BY DEF IInv, TypeOK, Reading, OutOfMemory
<1>2. TypeOK'
  BY <1>1 DEF TypeOK
<1>3. ~Clean
  <2> SUFFICES ASSUME Clean PROVE FALSE
    OBVIOUS
  <2>1. /\ nline[reading] \in 1..Len(lines[reading])
        /\ Len(rows[reading]) = nline[reading]
    BY <1>1, Types DEF Reading
  <2>2. Len(rows[reading][nline[reading]]) < Len(Line.tokens)
    BY <1>1 DEF Reading, CleanPrefix
  <2>3. Len(Line.tokens) < MaxRow /\ Len(Line.tokens) \in Nat
    BY <1>1, <2>1, LineTypes DEF Line, TypeOK
  <2>4. Len(rows[reading][nline[reading]]) = MaxRow
    BY <2>1 DEF OutOfMemory, Last
  <2> QED
    BY <2>2, <2>3, <2>4, TypesAssumption
<1>4. Reading'
  BY <1>1, <1>3 DEF Reading, Clean, CleanLine
<1>5. Comparing'
  BY <1>1, ReadingKeepsComparing
<1> QED
  BY <1>2, <1>4, <1>5 DEF IInv

LEMMA EndOfStreamStep == IInv /\ EndOfStream => IInv'
<1> SUFFICES ASSUME IInv, EndOfStream PROVE IInv'
  OBVIOUS
<1>1. /\ TypeOK /\ Reading /\ Comparing /\ reading \in Streams /\ pc = "getline"
      /\ Other(reading) \in Streams /\ nline[reading] = Len(lines[reading])
      /\ UNCHANGED <<is_vector, lines, nline, ss, value, rows, i, test_success, status>>
  BY TwoStreams DEF IInv, TypeOK, EndOfStream
<1>2. \/ pc' = "getline" /\ reading' = Other(reading)
      \/ /\ pc' = "compare" /\ UNCHANGED reading
         /\ ~ (nline[Other(reading)] < Len(lines[Other(reading)]))
  BY <1>1 DEF EndOfStream
<1>3. TypeOK'
  BY <1>1, <1>2 DEF TypeOK
<1>4. pc' = "compare" => \A t \in Streams : nline[t] = Len(lines[t])
  <2> SUFFICES ASSUME pc' = "compare", NEW t \in Streams PROVE nline[t] = Len(lines[t])
    OBVIOUS
  <2>1. ~ (nline[Other(reading)] < Len(lines[Other(reading)]))
    BY <1>2
  <2>2. nline[Other(reading)] = Len(lines[Other(reading)])
    BY <1>1, <2>1, Types
  <2> QED
    BY <1>1, <2>2, TwoStreams
<1>5. Clean' <=> Clean
  BY <1>1 DEF Clean, CleanLine
<1>6. Reading'
  BY <1>1, <1>2, <1>4, <1>5 DEF Reading, Unfinished
<1>7. Comparing'
  <2>1. UpperSize' = UpperSize /\ UpperSize \in Nat
    BY <1>1, Sizes DEF UpperSize, TypeOK
  <2>2. i = 0 /\ test_success /\ 1..0 = {}
    BY <1>1 DEF Comparing
  <2> QED
    BY <1>1, <1>2, <2>1, <2>2 DEF Comparing, SameUpTo
<1> QED
  BY <1>3, <1>6, <1>7 DEF IInv

\* One pass of the comparison.
LEMMA CompareRowStep == IInv /\ CompareRow => IInv'
<1> SUFFICES ASSUME IInv, CompareRow PROVE IInv'
  OBVIOUS
<1>1. /\ TypeOK /\ Reading /\ Comparing /\ pc = "compare" /\ i \in Nat
      /\ test_success \in BOOLEAN /\ i < UpperSize /\ i' = i + 1
      /\ UNCHANGED <<is_vector, lines, nline, reading, ss, value, rows, pc, status>>
  BY DEF IInv, TypeOK, CompareRow
<1>2. LowerSize \in Nat /\ UpperSize \in Nat
  BY <1>1, Sizes DEF TypeOK
<1>3. test_success' <=> /\ test_success /\ i < LowerSize
                        /\ rows["expected"][i + 1] = rows["actual"][i + 1]
  BY DEF CompareRow
<1>4. LowerSize' = LowerSize /\ UpperSize' = UpperSize
  BY <1>1 DEF LowerSize, UpperSize
<1>5. TypeOK'
  BY <1>1 DEF TypeOK, CompareRow
<1>6. Reading'
  <2>1. Clean' <=> Clean
    BY <1>1 DEF Clean, CleanLine
  <2> QED
    BY <1>1, <2>1 DEF Reading, Unfinished
<1>7. SameUpTo(i + 1) <=> /\ SameUpTo(i) /\ i < LowerSize
                          /\ rows["expected"][i + 1] = rows["actual"][i + 1]
  <2>1. \A k : k \in 1..(i + 1) <=> k \in 1..i \/ k = i + 1
    BY <1>1
  <2>2. i + 1 <= LowerSize <=> i < LowerSize
    BY <1>1, <1>2
  <2> QED
    BY <2>1, <2>2 DEF SameUpTo
<1>8. Comparing'
  <2>1. i + 1 <= UpperSize
    BY <1>1, <1>2
  <2>3. test_success <=> SameUpTo(i)
    BY <1>1 DEF Comparing
  <2>4. test_success' <=> SameUpTo(i + 1)
    BY <1>3, <1>7, <2>3
  <2>5. SameUpTo(i)' <=> SameUpTo(i + 1)
    BY <1>1, <1>4 DEF SameUpTo
  <2> QED
    BY <1>1, <1>4, <2>1, <2>4, <2>5 DEF Comparing
<1> QED
  BY <1>5, <1>6, <1>8 DEF IInv

LEMMA ExitStep == IInv /\ Exit => IInv'
<1> SUFFICES ASSUME IInv, Exit PROVE IInv'
  OBVIOUS
<1>1. /\ TypeOK /\ Reading /\ Comparing /\ pc = "compare" /\ i = UpperSize /\ pc' = "done"
      /\ status' = IF test_success THEN "EXIT_SUCCESS" ELSE "EXIT_FAILURE"
      /\ UNCHANGED <<is_vector, lines, nline, reading, ss, value, rows, i, test_success>>
  BY DEF IInv, Exit
<1>2. status' # "abort" /\ status # "abort"
  BY <1>1 DEF Reading
<1>3. TypeOK'
  BY <1>1 DEF TypeOK
<1>4. Reading'
  <2>1. Clean' <=> Clean
    BY <1>1 DEF Clean, CleanLine
  <2> QED
    BY <1>1, <1>2, <2>1 DEF Reading, Unfinished
<1>5. Comparing'
  <2>1. SameUpTo(UpperSize)' <=> SameUpTo(UpperSize)
    BY <1>1 DEF SameUpTo, LowerSize, UpperSize
  <2>2. test_success <=> SameUpTo(UpperSize)
    BY <1>1 DEF Comparing
  <2> QED
    BY <1>1, <2>1, <2>2 DEF Comparing
<1> QED
  BY <1>3, <1>4, <1>5 DEF IInv

LEMMA InductiveNext == IInv /\ [Next]_vars => IInv'
<1> SUFFICES ASSUME IInv, [Next]_vars PROVE IInv'
  OBVIOUS
<1>1. CASE Finished \/ UNCHANGED vars
  <2>1. UNCHANGED <<is_vector, lines, nline, reading, ss, value, rows, pc, i, test_success, status>>
    BY <1>1 DEF Finished, vars
  <2>2. TypeOK'
    BY <2>1 DEF IInv, TypeOK
  <2>3. Clean' <=> Clean
    BY <2>1 DEF Clean, CleanLine
  <2>4. CleanPrefix' <=> CleanPrefix
    BY <2>1 DEF CleanPrefix, Line
  <2>5. Reading'
    BY <2>1, <2>3, <2>4 DEF IInv, Reading, Unfinished
  <2>6. Comparing'
    BY <2>1 DEF IInv, Comparing, SameUpTo, LowerSize, UpperSize
  <2> QED
    BY <2>2, <2>5, <2>6 DEF IInv
<1> QED
  BY <1>1, GetLineVectorStep, GetLineScalarStep, ExtractStep, OutOfMemoryStep,
     EndOfStreamStep, CompareRowStep, ExitStep DEF Next

----------------------------------------------------------------------------
\* Rows that agree up to the longer size, none missing, are the same.
LEMMA SameMeansEqual ==
    ASSUME rows \in [Streams -> Seq(Seq(Values))]
    PROVE  SameUpTo(UpperSize) <=> rows["expected"] = rows["actual"]
<1> DEFINE E == rows["expected"]
           A == rows["actual"]
<1>1. E \in Seq(Seq(Values)) /\ A \in Seq(Seq(Values)) /\ Len(E) \in Nat /\ Len(A) \in Nat
  BY DEF Streams
<1>2. /\ LowerSize \in {Len(E), Len(A)} /\ LowerSize <= Len(E) /\ LowerSize <= Len(A)
      /\ UpperSize \in {Len(E), Len(A)} /\ UpperSize >= Len(E) /\ UpperSize >= Len(A)
  BY Sizes
<1> HIDE DEF E, A
<1>3. ASSUME SameUpTo(UpperSize) PROVE E = A
  <2>1. UpperSize <= LowerSize
    <3>1. CASE UpperSize = 0
      BY <1>1, <1>2, <3>1
    <3>2. CASE UpperSize # 0
      <4>1. UpperSize \in 1..UpperSize
        BY <1>1, <1>2, <3>2
      <4> QED
        BY <1>3, <4>1 DEF SameUpTo
    <3> QED
      BY <3>1, <3>2
  <2>2. Len(E) = Len(A) /\ Len(E) = UpperSize
    BY <1>1, <1>2, <2>1
  <2>3. \A k \in 1..Len(E) : E[k] = A[k]
    BY <1>3, <2>2 DEF SameUpTo, E, A
  <2>4. E = [k \in 1..Len(E) |-> E[k]]
    BY <1>1
  <2>5. A = [k \in 1..Len(A) |-> A[k]]
    BY <1>1
  <2> QED
    BY <2>2, <2>3, <2>4, <2>5
<1>4. ASSUME E = A PROVE SameUpTo(UpperSize)
  <2>1. UpperSize = LowerSize
    BY <1>1, <1>2, <1>4
  <2>2. \A k \in 1..UpperSize : k <= LowerSize
    BY <1>1, <1>2, <2>1
  <2> QED
    BY <1>4, <2>2 DEF SameUpTo, E, A
<1> QED
  BY <1>3, <1>4 DEF E, A

\* When clean texts have been read, the rows are what they say.
LEMMA RowsAreMeaning ==
    ASSUME IInv, pc = "done", Clean, NEW s \in Streams
    PROVE  rows[s] = Meaning(lines[s])
<1>1. /\ rows[s] \in Seq(Seq(Values)) /\ Len(rows[s]) = Len(lines[s])
      /\ DOMAIN lines[s] = 1..Len(lines[s])
      /\ \A k \in 1..Len(lines[s]) : rows[s][k] = Numbers(lines[s][k])
  <2>1. TypeOK /\ Reading
    BY DEF IInv
  <2>2. status # "abort" /\ nline[s] = Len(lines[s]) /\ Len(rows[s]) = nline[s]
    BY <2>1 DEF Reading
  <2>3. lines[s] \in Seq(Lines) /\ rows[s] \in Seq(Seq(Values))
    BY <2>1, TypesAssumption DEF TypeOK
  <2>4. \A k \in 1..nline[s] : rows[s][k] = Numbers(lines[s][k])
    BY <2>1 DEF Reading, Unfinished
  <2> QED
    BY <2>2, <2>3, <2>4
<1>2. rows[s] = [k \in 1..Len(lines[s]) |-> rows[s][k]]
  BY <1>1
<1>3. Meaning(lines[s]) = [k \in 1..Len(lines[s]) |-> Numbers(lines[s][k])]
  BY <1>1 DEF Meaning
<1> QED
  BY <1>1, <1>2, <1>3

\* The types (compare.hh 418-475 and 133-191).
THEOREM TypeCorrect == Spec => []TypeOK
<1>1. IInv => TypeOK
  BY DEF IInv
<1> QED
  BY <1>1, InductiveInit, InductiveNext, PTL DEF Spec

\* Whatever the streams hold, success means that the rows read are the same
\* rows (compare.hh 133-191, 228-296).
THEOREM VerdictOnRowsHolds == Spec => []VerdictOnRows
<1>1. IInv => VerdictOnRows
  BY SameMeansEqual DEF IInv, TypeOK, Comparing, VerdictOnRows
<1> QED
  BY <1>1, InductiveInit, InductiveNext, PTL DEF Spec

\* For texts as the solvers print them the process returns, and success means
\* that the texts say the same (compare.hh 131, 451, 490, 537).
THEOREM VerdictExactHolds == Spec => []VerdictExact
<1>1. ASSUME IInv PROVE VerdictExact
  <2> SUFFICES ASSUME pc = "done", Clean
               PROVE  /\ status # "abort"
                      /\ status = "EXIT_SUCCESS"
                            <=> Meaning(lines["expected"]) = Meaning(lines["actual"])
    BY DEF VerdictExact
  <2>1. status # "abort"
    BY <1>1 DEF IInv, Reading
  <2>2. "expected" \in Streams /\ "actual" \in Streams
    BY DEF Streams
  <2>3. /\ rows["expected"] = Meaning(lines["expected"])
        /\ rows["actual"] = Meaning(lines["actual"])
    BY <1>1, <2>2, RowsAreMeaning
  <2>4. status = "EXIT_SUCCESS" <=> SameUpTo(UpperSize)
    BY <1>1, <2>1 DEF IInv, Comparing
  <2>5. SameUpTo(UpperSize) <=> rows["expected"] = rows["actual"]
    BY <1>1, SameMeansEqual DEF IInv, TypeOK
  <2> QED
    BY <2>1, <2>3, <2>4, <2>5
<1> QED
  BY <1>1, InductiveInit, InductiveNext, PTL DEF Spec

----------------------------------------------------------------------------
\* The stringstream over a line that has not been read to its end: either all
\* tokens so far are numbers that T holds and the row has one value for each,
\* or the line is a fatal one and no end of it will be seen.
Extracting ==
    \/ /\ ~ss.fail /\ ss.next <= Len(Line.tokens)
       /\ Len(rows[reading][nline[reading]]) = ss.next
       /\ \A j \in 1..ss.next : Whole(Line.tokens[j]) <= MaxValue
    \/ ss.fail /\ ~ss.eof /\ Fatal(Line)

\* No line that has been read was fatal, unless it killed the process.
FatalInv ==
    /\ pc = "extract" => Extracting
    /\ status # "abort" =>
          \A s \in Streams : \A k \in 1..nline[s] : ~Unfinished(s, k) => ~Fatal(lines[s][k])
    /\ pc = "done" /\ status = "abort" =>
          \E s \in Streams : \E k \in 1..Len(lines[s]) : Fatal(lines[s][k])

LEMMA FatalStart == Init => FatalInv
BY DEF Init, FatalInv

\* The step that takes a line, when the process goes on.
LEMMA FatalLineTaken ==
    ASSUME IInv, FatalInv, pc = "getline", NEW k, k = nline[reading] + 1,
           nline' = [nline EXCEPT ![reading] = k], UNCHANGED <<is_vector, lines, reading, status>>,
           \/ pc' = "extract"
           \/ pc' = "getline" /\ ~Fatal(lines[reading][k])
    PROVE  \A t \in Streams : \A j \in 1..nline'[t] : ~Unfinished(t, j)' => ~Fatal(lines[t][j])'
<1>1. TypeOK /\ status = "running" /\ reading \in Streams
  BY DEF IInv, TypeOK, Reading
<1>2. SUFFICES ASSUME NEW t \in Streams, NEW j \in 1..nline'[t], ~Unfinished(t, j)'
               PROVE  ~Fatal(lines[t][j])'
  OBVIOUS
<1>3. Fatal(lines[t][j])' <=> Fatal(lines[t][j])
  BY DEF Fatal, Convertible
<1>4. nline[t] \in Nat /\ nline[reading] \in Nat
  BY <1>1, Types
<1>5. nline'[t] = IF t = reading THEN k ELSE nline[t]
  BY <1>1 DEF TypeOK
<1>6. CASE t = reading /\ j = k
  BY <1>2, <1>3, <1>5, <1>6 DEF Unfinished
<1>7. CASE ~(t = reading /\ j = k)
  <2>1. j \in 1..nline[t]
    BY <1>2, <1>4, <1>5, <1>7
  <2>2. ~Unfinished(t, j)
    BY DEF Unfinished
  <2> QED
    BY <1>1, <1>3, <2>1, <2>2 DEF FatalInv
<1> QED
  BY <1>6, <1>7

LEMMA FatalExtract == IInv /\ FatalInv /\ Extract => FatalInv'
<1> SUFFICES ASSUME IInv, FatalInv, Extract PROVE FatalInv'
  OBVIOUS
<1> DEFINE s == reading
           k == nline[s]
           row == rows[s][k]
           tokens == Line.tokens
<1>1. /\ TypeOK /\ Reading /\ s \in Streams /\ is_vector
      /\ pc = "extract" /\ status = "running" /\ Extracting
      /\ ReadToken \/ ReadPastEnd \/ ReadAfterFailure
  BY DEF IInv, TypeOK, Extract, Reading, FatalInv
<1>2. /\ k \in Nat /\ k >= 1 /\ k \in 1..Len(lines[s])
      /\ Len(rows[s]) = k /\ rows[s] \in Seq(Seq(Values))
  BY <1>1, Types DEF Reading
<1>3. /\ value' \in Values /\ ss \in [next: Nat, eof: BOOLEAN, fail: BOOLEAN]
      /\ row \in Seq(Values) /\ Len(row) \in Nat
  BY <1>1, <1>2, ExtractTypes DEF TypeOK
<1>4. /\ rows' = [rows EXCEPT ![s] = [rows[s] EXCEPT ![k] = Append(row, value')]]
      /\ pc' = IF ss'.eof THEN "getline" ELSE "extract"
      /\ UNCHANGED <<is_vector, lines, nline, reading, status>>
  BY <1>2 DEF Extract, Push
<1>5. /\ tokens \in Seq(Tokens) /\ Len(tokens) \in Nat /\ DOMAIN tokens = 1..Len(tokens)
      /\ Line.trailing \in BOOLEAN /\ MaxValue \in Nat
      /\ \A j \in 1..Len(tokens) : Whole(tokens[j]) \in Nat
  <2>1. /\ tokens \in Seq(Tokens) /\ Line.trailing \in BOOLEAN
        /\ \A j \in 1..Len(tokens) : Whole(tokens[j]) \in Nat
    BY <1>1, <1>2, LineTypes DEF TypeOK, Line
  <2> HIDE DEF tokens
  <2> QED
    BY <2>1, TypesAssumption
<1>6. Fatal(Line) <=> \E j \in 1..Len(tokens) :
                         Whole(tokens[j]) > MaxValue /\ (j < Len(tokens) \/ Line.trailing)
  BY <1>1, <1>5 DEF Fatal
<1>7. Line' = Line /\ (Fatal(Line)' <=> Fatal(Line))
  BY <1>4 DEF Line, Fatal, Convertible
<1>8. Len(rows'[reading'][nline'[reading']]) = Len(row) + 1
  <2>1. rows'[s][k] = Append(row, value')
    BY <1>1, <1>2, <1>4 DEF TypeOK
  <2> HIDE DEF row, k
  <2>2. Len(Append(row, value')) = Len(row) + 1
    BY <1>3
  <2> QED
    BY <1>4, <2>1, <2>2 DEF k
<1> HIDE DEF row, tokens, k
\* Where the extraction leaves the line.
<1>9. /\ ss'.eof => ~Fatal(Line)
      /\ ~ss'.eof => Extracting'
  <2>1. ASSUME ss.fail
        PROVE  ~ss'.eof /\ ss' = ss /\ Fatal(Line)
    BY <1>1, <2>1 DEF Extracting, ReadToken, ReadPastEnd, ReadAfterFailure
  <2>2. ASSUME ~ss.fail
        PROVE  /\ ss.next <= Len(tokens) /\ Len(row) = ss.next /\ ss.next \in Nat
               /\ \A j \in 1..ss.next : Whole(tokens[j]) <= MaxValue
               /\ ReadToken \/ ReadPastEnd
    BY <1>1, <1>3, <2>2 DEF Extracting, ReadAfterFailure, tokens, row, k
  <2>3. CASE ss.fail
    BY <1>3, <1>7, <2>1, <2>3 DEF Extracting
  <2>4. CASE ~ss.fail /\ ReadPastEnd
    <3>1. ss.next = Len(tokens) /\ ss'.eof
      BY <1>3, <2>4 DEF ReadPastEnd, tokens
    <3> QED
      BY <1>5, <1>6, <2>2, <2>4, <3>1
  <2>5. CASE ~ss.fail /\ ReadToken
    <3> DEFINE n == Whole(tokens[ss.next + 1])
    <3>1. /\ ss.next < Len(tokens)
          /\ ss'.next = ss.next + 1
          /\ ss'.eof <=> ss.next + 1 = Len(tokens) /\ ~Line.trailing
          /\ ss'.fail <=> n > MaxValue
      BY <2>5 DEF ReadToken, tokens
    <3>2. ss.next \in Nat /\ ss.next + 1 \in 1..Len(tokens) /\ n \in Nat
      BY <1>5, <2>2, <2>5, <3>1
    <3>3. \A j \in 1..(ss.next + 1) : j \in 1..ss.next \/ j = ss.next + 1
      BY <3>2
    <3>4. CASE n > MaxValue
      <4>1. ss'.eof => ~Fatal(Line)
        <5> SUFFICES ASSUME ss'.eof, NEW j \in 1..Len(tokens),
                            Whole(tokens[j]) > MaxValue, j < Len(tokens) \/ Line.trailing
                     PROVE  FALSE
          BY <1>6
        <5>1. j \in 1..ss.next
          BY <1>5, <3>1, <3>2
        <5> QED
          BY <1>5, <2>2, <2>5, <5>1
      <4>2. ~ss'.eof => Fatal(Line)
        BY <1>5, <1>6, <3>1, <3>2, <3>4
      <4> QED
        BY <1>7, <3>1, <3>4, <4>1, <4>2 DEF Extracting
    <3>5. CASE ~(n > MaxValue)
      <4>1. \A j \in 1..(ss.next + 1) : Whole(tokens[j]) <= MaxValue
        BY <1>5, <2>2, <2>5, <3>2, <3>3, <3>5
      <4>2. ss'.eof => ~Fatal(Line)
        BY <1>5, <1>6, <3>1, <4>1
      <4>3. ss.next + 1 <= Len(tokens) /\ Len(row) = ss.next
        BY <1>5, <2>2, <2>5, <3>1
      <4>4. Extracting'
        BY <1>7, <1>8, <3>1, <3>5, <4>1, <4>3 DEF Extracting, tokens
      <4> QED
        BY <4>2, <4>4
    <3> QED
      BY <3>4, <3>5
  <2> QED
    BY <2>2, <2>3, <2>4, <2>5
<1>10. pc' = "extract" => Extracting'
  BY <1>4, <1>9
<1>11. ASSUME NEW t \in Streams, NEW j \in 1..nline'[t], ~Unfinished(t, j)'
       PROVE  ~Fatal(lines[t][j])'
  <2>1. Fatal(lines[t][j])' <=> Fatal(lines[t][j])
    BY <1>4 DEF Fatal, Convertible
  <2>2. CASE t = s /\ j = k
    <3>1. ss'.eof /\ lines[t][j] = Line
      BY <1>4, <1>11, <2>2 DEF Unfinished, Line, k
    <3> QED
      BY <1>9, <2>1, <3>1
  <2>3. CASE ~(t = s /\ j = k)
    <3>1. ~Unfinished(t, j) /\ j \in 1..nline[t]
      BY <1>4, <1>11, <2>3 DEF Unfinished, k
    <3> QED
      BY <1>1, <2>1, <3>1 DEF FatalInv
  <2> QED
    BY <2>2, <2>3
<1> QED
  BY <1>1, <1>4, <1>10, <1>11 DEF FatalInv

LEMMA FatalNext == IInv /\ FatalInv /\ [Next]_vars => FatalInv'
<1> SUFFICES ASSUME IInv, FatalInv, [Next]_vars PROVE FatalInv'
  OBVIOUS
<1>1. TypeOK /\ Reading /\ reading \in Streams
  BY DEF IInv, TypeOK
<1>2. UNCHANGED <<is_vector, lines>> /\ \A line : Fatal(line)' <=> Fatal(line)
  <2>1. UNCHANGED <<is_vector, lines>>
    BY DEF Next, GetLineVector, GetLineScalar, Extract, OutOfMemory, EndOfStream, CompareRow, Exit,
           Finished, vars
  <2> QED
    BY <2>1 DEF Fatal, Convertible
<1>3. CASE GetLineVector
  <2> DEFINE k == nline[reading] + 1
  <2>1. /\ is_vector /\ pc = "getline" /\ nline[reading] < Len(lines[reading])
        /\ nline' = [nline EXCEPT ![reading] = k] /\ ss' = Fresh /\ pc' = "extract"
        /\ rows' = [rows EXCEPT ![reading] = Append(rows[reading], <<>>)]
        /\ UNCHANGED <<is_vector, lines, reading, status>>
    BY <1>3 DEF GetLineVector, NextLine
  <2>2. /\ nline[reading] \in Nat /\ rows[reading] \in Seq(Seq(Values))
        /\ Len(rows[reading]) = nline[reading] /\ status = "running" /\ k \in 1..Len(lines[reading])
    BY <1>1, <2>1, Types DEF Reading
  <2>3. nline'[reading'] = k /\ rows'[reading'][k] = <<>>
    BY <1>1, <2>1, <2>2 DEF TypeOK
  <2>4. Len(Line'.tokens) \in Nat
    <3>1. Line' = lines[reading][k]
      BY <2>1, <2>3 DEF Line
    <3> HIDE DEF k
    <3> QED
      BY <1>1, <2>2, <3>1, LineTypes DEF TypeOK
  <2>5. Extracting'
    <3>1. ss'.next = 0 /\ ~ss'.fail /\ Len(<<>>) = 0 /\ 1..0 = {}
      BY <2>1 DEF Fresh
    <3> QED
      BY <2>3, <2>4, <3>1 DEF Extracting
  <2> HIDE DEF k
  <2>6. \A t \in Streams : \A j \in 1..nline'[t] : ~Unfinished(t, j)' => ~Fatal(lines[t][j])'
    BY <2>1, FatalLineTaken DEF k
  <2> QED
    BY <2>1, <2>2, <2>5, <2>6 DEF FatalInv
<1>4. CASE GetLineScalar
  <2> DEFINE k == nline[reading] + 1
             line == lines[reading][k]
  <2>1. /\ ~is_vector /\ pc = "getline" /\ nline[reading] < Len(lines[reading])
        /\ nline' = [nline EXCEPT ![reading] = k]
        /\ UNCHANGED <<is_vector, lines, reading>>
    BY <1>4 DEF GetLineScalar, NextLine
  <2>2. nline[reading] \in Nat /\ status = "running" /\ k \in 1..Len(lines[reading]) /\ nline'[reading] = k
    BY <1>1, <2>1, Types DEF Reading, TypeOK
  <2>3. \/ Convertible(line) /\ UNCHANGED <<pc, status>>
        \/ ~Convertible(line) /\ pc' = "done" /\ status' = "abort"
    BY <1>4, <2>2 DEF GetLineScalar
  <2>4. Fatal(line) <=> ~Convertible(line)
    BY <2>1 DEF Fatal
  <2> HIDE DEF k
  <2>5. CASE Convertible(line) /\ UNCHANGED <<pc, status>>
    <3>1. \A t \in Streams : \A j \in 1..nline'[t] : ~Unfinished(t, j)' => ~Fatal(lines[t][j])'
      BY <2>1, <2>4, <2>5, FatalLineTaken DEF k
    <3> QED
      BY <2>1, <2>2, <2>5, <3>1 DEF FatalInv
  <2>6. CASE ~Convertible(line) /\ pc' = "done" /\ status' = "abort"
    BY <1>1, <1>2, <2>1, <2>2, <2>4, <2>6 DEF FatalInv
  <2> QED
    BY <2>3, <2>5, <2>6
<1>5. CASE OutOfMemory
  <2>1. /\ pc = "extract" /\ pc' = "done" /\ status' = "abort" /\ is_vector /\ Extracting
        /\ nline[reading] \in 1..Len(lines[reading]) /\ Len(rows[reading]) = nline[reading]
    BY <1>1, <1>5, Types DEF OutOfMemory, Reading, FatalInv
  <2>2. Len(rows[reading][nline[reading]]) = MaxRow
    BY <1>5, <2>1 DEF OutOfMemory, Last
  <2>3. Len(Line.tokens) < MaxRow /\ Len(Line.tokens) \in Nat
    BY <1>1, <2>1, LineTypes DEF Line, TypeOK
  <2>4. Fatal(Line)
    <3>1. ss.next \in Nat /\ MaxRow \in Nat
      BY <1>1, TypesAssumption DEF TypeOK
    <3>2. ss.next <= Len(Line.tokens) => ss.next # MaxRow
      BY <2>3, <3>1
    <3> QED
      BY <2>1, <2>2, <3>2 DEF Extracting
  <2> QED
    BY <1>1, <1>2, <2>1, <2>4 DEF FatalInv, Line
<1>6. CASE EndOfStream \/ CompareRow \/ Exit
  <2>1. /\ pc \in {"getline", "compare"} /\ pc' # "extract" /\ status = "running" /\ status' # "abort"
        /\ UNCHANGED <<is_vector, lines, nline>>
    BY <1>1, <1>6 DEF EndOfStream, CompareRow, Exit, Reading
  <2> QED
    BY <1>2, <2>1 DEF FatalInv, Unfinished
<1>7. CASE Finished \/ UNCHANGED vars
  <2>1. UNCHANGED <<is_vector, lines, nline, reading, ss, rows, pc, status>>
    BY <1>7 DEF Finished, vars
  <2>2. Line' = Line /\ (Extracting' <=> Extracting)
    BY <1>2, <2>1 DEF Extracting, Line
  <2> QED
    BY <1>2, <2>1, <2>2 DEF FatalInv, Unfinished
<1> QED
  BY <1>3, <1>4, <1>5, <1>6, <1>7, FatalExtract DEF Next

\* The process is killed on a fatal line of either text and on no other line
\* (compare.hh 427-440 and 459-471, and the throws of 325-363): an invariant of
\* the line being extracted and of all lines before it.
THEOREM KilledByFatalLineHolds == Spec => []KilledByFatalLine
<1>1. ASSUME IInv, FatalInv PROVE KilledByFatalLine
  <2> SUFFICES ASSUME pc = "done"
               PROVE  status = "abort" <=> \E s \in Streams : \E n \in DOMAIN lines[s] : Fatal(lines[s][n])
    BY DEF KilledByFatalLine
  <2>1. \A s \in Streams : DOMAIN lines[s] = 1..Len(lines[s])
    BY <1>1, TypesAssumption DEF IInv, TypeOK
  <2>2. ASSUME status # "abort", NEW s \in Streams, NEW n \in 1..Len(lines[s]) PROVE ~Fatal(lines[s][n])
    <3>1. nline[s] = Len(lines[s]) /\ ~Unfinished(s, n)
      BY <1>1, <2>2 DEF IInv, Reading, Unfinished
    <3> QED
      BY <1>1, <2>2, <3>1 DEF FatalInv
  <2> QED
    BY <1>1, <2>1, <2>2 DEF FatalInv
<1> QED
  BY <1>1, InductiveInit, InductiveNext, FatalStart, FatalNext, PTL DEF Spec

----------------------------------------------------------------------------
\* Natural numbers: the least of a set, and induction from it.
LEMMA Smaller ==
    ASSUME NEW x \in Nat, NEW y \in Nat, x < y PROVE <<x, y>> \in OpToRel(<, Nat)
BY DEF OpToRel

LEMMA Least ==
    ASSUME NEW T, T \subseteq Nat, T # {} PROVE \E x \in T : \A y \in T : x <= y
<1>1. PICK x \in T : \A y \in T : ~ (<<y, x>> \in OpToRel(<, Nat))
  BY NatLessThanWellFounded, WFMin
<1>2. ASSUME NEW y \in T PROVE x <= y
  <2>1. ~(y < x)
    BY <1>1, Smaller
  <2> QED
    BY <2>1
<1> QED
  BY <1>1, <1>2

LEMMA Induction ==
    ASSUME NEW T, 0 \in T, \A m \in Nat : m \in T => m + 1 \in T PROVE Nat \subseteq T
<1> SUFFICES ASSUME Nat \ T # {} PROVE FALSE
  OBVIOUS
<1>1. PICK x \in Nat \ T : \A y \in Nat \ T : x <= y
  BY Least
<1>2. x # 0 /\ x - 1 \in Nat /\ x - 1 \in T
  BY <1>1
<1> QED
  BY <1>1, <1>2

----------------------------------------------------------------------------
\* ToleranceCompare.  What follows of the powers of two is all that is needed:
\* each is a natural number, and the greater a multiple of the lesser one.
\* What a comparison rests on is that rounding to the type keeps the order
\* (RoundedToMonotone), that it is off by half a spacing at most (RoundedToIs)
\* and that both values are multiples of the spacing of the lesser (SidesFit).

\* A function that says what the powers up to n are.
PowersTo(n, h) ==
    /\ h \in [0..n -> Nat \ {0}] /\ h[0] = 1
    /\ \A e \in 1..n : h[e] = 2 * h[e - 1]

\* There is such a function for every n.
LEMMA PowersExist == \A n \in Nat : \E h : PowersTo(n, h)
<1> DEFINE T == { n \in Nat : \E h : PowersTo(n, h) }
<1>1. 0 \in T
  <2> DEFINE h == [e \in 0..0 |-> 1]
  <2>1. PowersTo(0, h)
    BY DEF PowersTo
  <2> QED
    BY <2>1
<1>2. ASSUME NEW n \in Nat, n \in T PROVE n + 1 \in T
  <2>1. PICK h : PowersTo(n, h)
    BY <1>2
  <2> DEFINE g == [e \in 0..(n + 1) |-> IF e = n + 1 THEN 2 * h[n] ELSE h[e]]
  <2>2. \A e \in 0..(n + 1) : e = n + 1 \/ (e \in 0..n /\ e # n + 1)
    OBVIOUS
  <2>3. n \in 0..n /\ h[n] \in Nat \ {0} /\ 2 * h[n] \in Nat \ {0}
    BY <2>1 DEF PowersTo
  <2>4. g \in [0..(n + 1) -> Nat \ {0}]
    BY <2>1, <2>2, <2>3 DEF PowersTo
  <2>5. g[0] = 1
    BY <2>1 DEF PowersTo
  <2>6. ASSUME NEW e \in 1..(n + 1) PROVE g[e] = 2 * g[e - 1]
    <3>1. e - 1 \in 0..n /\ e \in 0..(n + 1) /\ e - 1 \in 0..(n + 1) /\ e - 1 # n + 1
      OBVIOUS
    <3>2. g[e - 1] = h[e - 1]
      BY <3>1
    <3>3. CASE e = n + 1
      BY <3>1, <3>2, <3>3
    <3>4. CASE e # n + 1
      <4>1. e \in 1..n /\ g[e] = h[e]
        BY <3>1, <3>4
      <4> QED
        BY <2>1, <3>2, <4>1 DEF PowersTo
    <3> QED
      BY <3>3, <3>4
  <2> HIDE DEF g
  <2>7. PowersTo(n + 1, g)
    BY <2>4, <2>5, <2>6 DEF PowersTo
  <2> QED
    BY <2>7
<1> HIDE DEF T
<1>3. Nat \subseteq T
  BY <1>1, <1>2, Induction
<1> QED
  BY <1>3 DEF T

\* Two of them agree where both are defined.
LEMMA PowersAgree ==
    ASSUME NEW m \in Nat, NEW n \in Nat, m <= n, NEW g, NEW h, PowersTo(m, g), PowersTo(n, h)
    PROVE  \A e \in 0..m : g[e] = h[e]
<1> DEFINE T == { e \in Nat : e <= m => g[e] = h[e] }
<1>1. 0 \in T
  BY DEF PowersTo
<1>2. ASSUME NEW e \in Nat, e \in T PROVE e + 1 \in T
  <2> SUFFICES ASSUME e + 1 <= m PROVE g[e + 1] = h[e + 1]
    OBVIOUS
  <2>1. g[e] = h[e] /\ e + 1 \in 1..m /\ e + 1 \in 1..n /\ (e + 1) - 1 = e
    BY <1>2
  <2> QED
    BY <2>1 DEF PowersTo
<1> HIDE DEF T
<1>3. Nat \subseteq T
  BY <1>1, <1>2, Induction
<1> QED
  BY <1>3 DEF T

\* So the recursive definition of Power has a value everywhere.
LEMMA PowerIs ==
    /\ \A e \in Nat : Scalars!Power[e] \in Nat \ {0}
    /\ Scalars!Power[0] = 1
    /\ \A e \in Nat : Scalars!Power[e + 1] = 2 * Scalars!Power[e]
<1> DEFINE p(e) == CHOOSE h : PowersTo(e, h)
<1> DEFINE f == [e \in Nat |-> p(e)[e]]
<1>1. \A e \in Nat : PowersTo(e, p(e))
  BY PowersExist
<1> HIDE DEF p
<1>2. ASSUME NEW e \in Nat PROVE f[e] \in Nat \ {0} /\ f[0] = 1 /\ f[e + 1] = 2 * f[e]
  <2>1. f[e] = p(e)[e] /\ f[0] = p(0)[0] /\ f[e + 1] = p(e + 1)[e + 1]
    OBVIOUS
  <2>2. PowersTo(e, p(e)) /\ PowersTo(0, p(0)) /\ PowersTo(e + 1, p(e + 1))
    BY <1>1
  <2>3. p(e)[e] = p(e + 1)[e]
    <3>1. e <= e + 1 /\ e + 1 \in Nat /\ e \in 0..e
      OBVIOUS
    <3> QED
      BY <2>2, <3>1, PowersAgree
  <2>4. p(e)[e] \in Nat \ {0} /\ p(0)[0] = 1
    BY <2>2 DEF PowersTo
  <2>5. p(e + 1)[e + 1] = 2 * p(e + 1)[e]
    <3>1. e + 1 \in 1..(e + 1) /\ (e + 1) - 1 = e
      OBVIOUS
    <3> QED
      BY <2>2, <3>1 DEF PowersTo
  <2> QED
    BY <2>1, <2>3, <2>4, <2>5
<1> DEFINE next(g, e) == IF e = 0 THEN 1 ELSE 2 * g[e - 1]
<1> DEFINE Is(g) == g = [e \in Nat |-> next(g, e)]
<1>3. Scalars!Power = CHOOSE g : Is(g)
  BY DEF Scalars!Power
<1>4. Is(f)
  <2>1. ASSUME NEW e \in Nat PROVE f[e] = next(f, e)
    <3>1. CASE e = 0
      BY <1>2, <3>1
    <3>2. CASE e # 0
      <4>1. e - 1 \in Nat /\ (e - 1) + 1 = e
        BY <3>2
      <4> HIDE DEF f
      <4>2. f[(e - 1) + 1] = 2 * f[e - 1]
        BY <1>2, <4>1
      <4> QED
        BY <3>2, <4>1, <4>2
    <3> QED
      BY <3>1, <3>2
  <2>2. f = [e \in Nat |-> f[e]]
    OBVIOUS
  <2> HIDE DEF f, next
  <2> QED
    BY <2>1, <2>2
<1> HIDE DEF f, Is
<1>5. Is(Scalars!Power)
  BY <1>3, <1>4
<1>6. \A e \in Nat : Scalars!Power[e] = next(Scalars!Power, e)
  <2> DEFINE g == Scalars!Power
  <2> DEFINE v(e) == next(g, e)
  <2> HIDE DEF g
  <2>1. g = [e \in Nat |-> v(e)]
    BY <1>5 DEF Is, g
  <2> HIDE DEF v
  <2>2. \A e \in Nat : g[e] = v(e)
    BY <2>1
  <2> QED
    BY <2>2 DEF g, v
<1>7. Scalars!Power[0] = 1
  BY <1>6
<1>8. \A e \in Nat : Scalars!Power[e + 1] = 2 * Scalars!Power[e]
  <2> SUFFICES ASSUME NEW e \in Nat PROVE Scalars!Power[e + 1] = 2 * Scalars!Power[e]
    OBVIOUS
  <2>1. e + 1 \in Nat /\ e + 1 # 0 /\ (e + 1) - 1 = e
    OBVIOUS
  <2> QED
    BY <1>6, <2>1
<1> DEFINE T == { e \in Nat : Scalars!Power[e] \in Nat \ {0} }
<1>9. 0 \in T
  BY <1>7
<1>10. \A e \in Nat : e \in T => e + 1 \in T
  BY <1>8
<1> HIDE DEF T
<1>11. Nat \subseteq T
  BY <1>9, <1>10, Induction
<1> QED
  BY <1>7, <1>8, <1>11 DEF T

Multiples(p) == { q * p : q \in Nat }

\* A greater power is a multiple of a lesser one.
LEMMA PowerMultiple ==
    ASSUME NEW d \in Nat, NEW e \in Nat
    PROVE  \E q \in Nat : Scalars!Power[d + e] = q * Scalars!Power[d]
<1> DEFINE p == Scalars!Power[d]
<1> DEFINE T == { k \in Nat : \E q \in Nat : Scalars!Power[d + k] = q * p }
<1>1. p \in Nat
  BY PowerIs
<1>2. 0 \in T
  <2>1. d + 0 = d /\ p = 1 * p
    BY <1>1
  <2> QED
    BY <2>1
<1>3. ASSUME NEW k \in Nat, k \in T PROVE k + 1 \in T
  <2>1. PICK q \in Nat : Scalars!Power[d + k] = q * p
    BY <1>3
  <2>2. Scalars!Power[(d + k) + 1] = 2 * Scalars!Power[d + k]
    BY PowerIs
  <2>3. d + (k + 1) = (d + k) + 1 /\ 2 * q \in Nat
    OBVIOUS
  <2>4. 2 * (q * p) = (2 * q) * p
    BY <1>1
  <2>5. Scalars!Power[d + (k + 1)] = (2 * q) * p
    BY <2>1, <2>2, <2>3, <2>4
  <2> QED
    BY <2>3, <2>5
<1> HIDE DEF T
<1>4. Nat \subseteq T
  BY <1>2, <1>3, Induction
<1> QED
  BY <1>4 DEF T

LEMMA Products ==
    /\ \A x, y, z \in Nat : y <= z => x * y <= x * z
    /\ \A x, y \in Nat : x * y \in Nat
    /\ \A x, y, z \in Int : x * (y + z) = x * y + x * z
    /\ \A x, y, z \in Int : (y - z) * x = y * x - z * x
<1>1. \A x, y, z \in Nat : y <= z => x * y <= x * z
  <2> SUFFICES ASSUME NEW x \in Nat, NEW y \in Nat, NEW z \in Nat, y <= z PROVE x * y <= x * z
    OBVIOUS
  <2>1. z - y \in Nat /\ x * (z - y) \in Nat /\ x * (z - y) = x * z - x * y
    OBVIOUS
  <2>2. x * z \in Nat /\ x * y \in Nat
    OBVIOUS
  <2> QED
    BY <2>1, <2>2
<1>2. \A x, y \in Nat : x * y \in Nat
  OBVIOUS
<1>3. \A x, y, z \in Int : x * (y + z) = x * y + x * z
  OBVIOUS
<1>4. \A x, y, z \in Int : (y - z) * x = y * x - z * x
  OBVIOUS
<1> QED
  BY <1>1, <1>2, <1>3, <1>4

LEMMA Regrouped ==
    /\ \A x, y \in Int : x * y = y * x /\ x * y \in Int
    /\ \A x, y, z \in Int : x * (y * z) = (x * y) * z /\ x * (y * z) = y * (x * z)
<1>1. \A x, y \in Int : x * y = y * x /\ x * y \in Int
  OBVIOUS
<1>2. \A x, y, z \in Int : x * (y * z) = (x * y) * z /\ x * (y * z) = y * (x * z)
  OBVIOUS
<1> QED
  BY <1>1, <1>2

\* A common factor may be left out.
LEMMA Cancelled ==
    ASSUME NEW x \in Nat \ {0}, NEW y \in Int, NEW z \in Int
    PROVE  /\ x * y <= x * z => y <= z
           /\ x * y < x * z => y < z
           /\ x * y = x * z => y = z
<1>1. ASSUME NEW a \in Int, NEW b \in Int, a < b PROVE x * a < x * b
  <2>1. b - a \in Nat \ {0} /\ x * (b - a) = x * b - x * a
    BY <1>1
  <2>2. \A c \in Nat \ {0} : x * c >= 1
    OBVIOUS
  <2>3. x * a \in Int /\ x * b \in Int /\ x * (b - a) >= 1
    BY <2>1, <2>2
  <2> QED
    BY <2>1, <2>3
<1>2. x * y \in Int /\ x * z \in Int
  OBVIOUS
<1>3. y < z => x * y < x * z
  BY <1>1
<1>4. z < y => x * z < x * y
  BY <1>1
<1> QED
  BY <1>2, <1>3, <1>4

LEMMA Divided ==
    ASSUME NEW p \in Nat, NEW q \in Nat \ {0}
    PROVE  p \div q \in Nat /\ p % q \in 0..(q - 1) /\ p = q * (p \div q) + (p % q)
OBVIOUS

\* Rounding is off by half of a unit at most.
LEMMA RoundedNear ==
    ASSUME NEW p \in Nat, NEW q \in Nat \ {0}
    PROVE  /\ Scalars!Rounded(p, q) \in Nat
           /\ 2 * (q * Scalars!Rounded(p, q)) <= 2 * p + q
           /\ 2 * p <= 2 * (q * Scalars!Rounded(p, q)) + q
<1> DEFINE d == p \div q
<1> DEFINE m == p % q
<1>1. d \in Nat /\ m \in 0..(q - 1) /\ p = q * d + m
  BY Divided
<1>2. q * (d + 1) = q * d + q /\ q * d \in Nat
  BY <1>1
<1>3. /\ Scalars!Rounded(p, q) \in {d, d + 1}
      /\ Scalars!Rounded(p, q) = d => 2 * m <= q
      /\ Scalars!Rounded(p, q) = d + 1 => 2 * m >= q
  <2>1. d # d + 1
    BY <1>1
  <2>2. Scalars!Rounded(p, q) = IF 2 * m > q \/ (2 * m = q /\ d % 2 = 1) THEN d + 1 ELSE d
    BY DEF Scalars!Rounded
  <2> HIDE DEF d, m
  <2> QED
    BY <1>1, <2>1, <2>2
<1> HIDE DEF d, m
<1>4. CASE Scalars!Rounded(p, q) = d
  BY <1>1, <1>2, <1>3, <1>4
<1>5. CASE Scalars!Rounded(p, q) = d + 1
  BY <1>1, <1>2, <1>3, <1>5
<1> QED
  BY <1>3, <1>4, <1>5

\* Halfway between n and n + 1 the even one of them is taken.
LEMMA RoundedHalfway ==
    ASSUME NEW p \in Nat, NEW q \in Nat \ {0}, NEW n \in Nat, 2 * p = q * (2 * n + 1)
    PROVE  Scalars!Rounded(p, q) = IF n % 2 = 1 THEN n + 1 ELSE n
<1> DEFINE d == p \div q
<1> DEFINE m == p % q
<1>1. d \in Nat /\ m \in 0..(q - 1) /\ p = q * d + m
  BY Divided
<1>2. Scalars!Rounded(p, q) = IF 2 * m > q \/ (2 * m = q /\ d % 2 = 1) THEN d + 1 ELSE d
  BY DEF Scalars!Rounded
<1> HIDE DEF d, m
<1>3. q * (2 * n + 1) = 2 * (q * n) + q /\ q * n \in Nat /\ q * d \in Nat
  BY <1>1
<1>4. 2 * (q * d) + 2 * m = 2 * (q * n) + q
  BY <1>1, <1>3
<1>5. ~(d < n)
  <2> SUFFICES ASSUME d < n PROVE FALSE
    OBVIOUS
  <2>1. q * (d + 1) <= q * n /\ q * (d + 1) = q * d + q
    BY <1>1, Products
  <2> QED
    BY <1>1, <1>3, <1>4, <2>1
<1>6. ~(n < d)
  <2> SUFFICES ASSUME n < d PROVE FALSE
    OBVIOUS
  <2>1. q * (n + 1) <= q * d /\ q * (n + 1) = q * n + q
    BY <1>1, Products
  <2> QED
    BY <1>1, <1>3, <1>4, <2>1
<1>7. d = n
  BY <1>1, <1>5, <1>6
<1>8. 2 * m = q
  BY <1>1, <1>3, <1>4, <1>7
<1> QED
  BY <1>1, <1>2, <1>7, <1>8

\* A greater fraction is not rounded to a lesser integer.
LEMMA RoundedMonotone ==
    ASSUME NEW p1 \in Nat, NEW q1 \in Nat \ {0}, NEW p2 \in Nat, NEW q2 \in Nat \ {0}, p1 * q2 <= p2 * q1
    PROVE  Scalars!Rounded(p1, q1) <= Scalars!Rounded(p2, q2)
<1> DEFINE r1 == Scalars!Rounded(p1, q1)
<1> DEFINE r2 == Scalars!Rounded(p2, q2)
<1>1. r1 \in Nat /\ 2 * (q1 * r1) <= 2 * p1 + q1
  BY RoundedNear
<1>2. r2 \in Nat /\ 2 * p2 <= 2 * (q2 * r2) + q2
  BY RoundedNear
<1>3. \A n \in Nat : /\ 2 * p1 = q1 * (2 * n + 1) => r1 = IF n % 2 = 1 THEN n + 1 ELSE n
                     /\ 2 * p2 = q2 * (2 * n + 1) => r2 = IF n % 2 = 1 THEN n + 1 ELSE n
  BY RoundedHalfway
<1> HIDE DEF r1, r2
<1> SUFFICES ASSUME r2 + 1 <= r1 PROVE FALSE
  BY <1>1, <1>2 DEF r1, r2
<1> DEFINE a == 2 * r2 + 1
<1>4. a \in Nat
  BY <1>2
<1>5. q1 * a <= 2 * p1 /\ q1 * a \in Nat
  <2>1. q1 * (r2 + 1) <= q1 * r1
    BY <1>1, <1>2, Products
  <2>2. q1 * (r2 + 1) = q1 * r2 + q1 /\ q1 * a = 2 * (q1 * r2) + q1 /\ q1 * r2 \in Nat /\ q1 * r1 \in Nat
    BY <1>1, <1>2
  <2> QED
    BY <1>1, <2>1, <2>2
<1>6. 2 * p2 <= q2 * a /\ q2 * a \in Nat
  <2>1. q2 * a = 2 * (q2 * r2) + q2 /\ q2 * r2 \in Nat
    BY <1>2
  <2> QED
    BY <1>2, <2>1
<1> HIDE DEF a
<1>7. q2 * (q1 * a) <= q2 * (2 * p1) /\ q1 * (2 * p2) <= q1 * (q2 * a)
  BY <1>5, <1>6, Products
<1>8. /\ q2 * (2 * p1) = 2 * (p1 * q2) /\ q1 * (2 * p2) = 2 * (p2 * q1)
      /\ p1 * q2 \in Nat /\ p2 * q1 \in Nat
  OBVIOUS
<1>9. q1 * (q2 * a) = q2 * (q1 * a) /\ q2 * (q1 * a) \in Nat
  BY <1>4, <1>5, Regrouped, Products
<1>10. q2 * (q1 * a) = q2 * (2 * p1) /\ q1 * (q2 * a) = q1 * (2 * p2)
  BY <1>7, <1>8, <1>9
<1>11. q1 * a = 2 * p1
  BY <1>5, <1>10, Cancelled
<1>12. q2 * a = 2 * p2
  BY <1>6, <1>10, Cancelled
<1>13. r1 = IF r2 % 2 = 1 THEN r2 + 1 ELSE r2
  BY <1>2, <1>3, <1>11 DEF a
<1>14. r2 = IF r2 % 2 = 1 THEN r2 + 1 ELSE r2
  BY <1>2, <1>3, <1>12 DEF a
<1> QED
  BY <1>1, <1>2, <1>13, <1>14

\* What is at most, or at least, an integer is rounded to such a one.
LEMMA RoundedBounds ==
    ASSUME NEW p \in Nat, NEW q \in Nat \ {0}, NEW n \in Nat
    PROVE  /\ p <= n * q => Scalars!Rounded(p, q) <= n
           /\ n * q <= p => n <= Scalars!Rounded(p, q)
<1> DEFINE r == Scalars!Rounded(p, q)
<1>1. r \in Nat /\ 2 * (q * r) <= 2 * p + q /\ 2 * p <= 2 * (q * r) + q
  BY RoundedNear
<1> HIDE DEF r
<1>2. q * r \in Nat /\ n * q = q * n /\ q * n \in Nat
  BY <1>1
<1>3. ASSUME p <= n * q, n + 1 <= r PROVE FALSE
  <2>1. q * (n + 1) <= q * r /\ q * (n + 1) = q * n + q
    BY <1>1, <1>3, Products
  <2> QED
    BY <1>1, <1>2, <1>3, <2>1
<1>4. ASSUME n * q <= p, r + 1 <= n PROVE FALSE
  <2>1. q * (r + 1) <= q * n /\ q * (r + 1) = q * r + q
    BY <1>1, <1>4, Products
  <2> QED
    BY <1>1, <1>2, <1>4, <2>1
<1> QED
  BY <1>1, <1>3, <1>4 DEF r


\* The floating types and the number of their significands.
LEMMA FloatTypeIs ==
    ASSUME NEW T \in FloatTypes
    PROVE  /\ T.bits \in Nat \ {0} /\ T.exps \in Nat /\ T.tol \in Nat /\ T.over \in Nat \ {0}
           /\ T.tol <= T.over
           /\ \E h \in Nat \ {0} : Scalars!Power[T.bits] = 2 * h
<1>1. /\ T.bits \in Nat \ {0} /\ T.exps \in Nat /\ T.tol \in Nat /\ T.over \in Nat \ {0}
      /\ T.tol <= T.over
  BY InputsAssumption DEF Scalars!InputsOK, Scalars!TypesOK
<1>2. T.bits - 1 \in Nat /\ (T.bits - 1) + 1 = T.bits
  BY <1>1
<1> QED
  BY <1>1, <1>2, PowerIs

\* A power against a greater one.
LEMMA PowersOrdered ==
    ASSUME NEW d \in Nat, NEW e \in Nat
    PROVE  /\ d <= e => \E k \in Nat \ {0} : Scalars!Power[e] = k * Scalars!Power[d]
           /\ d <= e => Scalars!Power[d] <= Scalars!Power[e]
           /\ d < e => 2 * Scalars!Power[d] <= Scalars!Power[e]
<1>1. ASSUME NEW a \in Nat, NEW b \in Nat, a <= b
      PROVE  \E k \in Nat \ {0} : Scalars!Power[b] = k * Scalars!Power[a] /\ Scalars!Power[a] <= Scalars!Power[b]
  <2>1. b - a \in Nat /\ a + (b - a) = b
    BY <1>1
  <2>2. PICK k \in Nat : Scalars!Power[b] = k * Scalars!Power[a]
    BY <2>1, PowerMultiple
  <2>3. Scalars!Power[b] \in Nat \ {0} /\ Scalars!Power[a] \in Nat \ {0}
    BY PowerIs
  <2>4. k # 0
    BY <2>2, <2>3
  <2>5. Scalars!Power[a] * 1 <= Scalars!Power[a] * k
    BY <2>3, <2>4, Products
  <2> QED
    BY <2>2, <2>3, <2>4, <2>5
<1>2. ASSUME d < e PROVE 2 * Scalars!Power[d] <= Scalars!Power[e]
  <2>1. d + 1 <= e /\ Scalars!Power[d + 1] = 2 * Scalars!Power[d]
    BY <1>2, PowerIs
  <2> QED
    BY <1>1, <2>1
<1> QED
  BY <1>1, <1>2

LEMMA SpacingsAre ==
    ASSUME NEW T \in FloatTypes
    PROVE  /\ Scalars!Spacings(T) \subseteq Nat \ {0}
           /\ \A u \in Scalars!Spacings(T) : u = 1 \/ \E w \in Scalars!Spacings(T) : u = 2 * w
           /\ \A u, w \in Scalars!Spacings(T) :
                 /\ u <= w => \E k \in Nat : w = k * u
                 /\ u < w => 2 * u <= w
           /\ \A e \in 0..(T.exps + 1) : Scalars!Power[e] \in Scalars!Spacings(T)
<1>1. \A u : u \in Scalars!Spacings(T) <=> \E e \in 0..(T.exps + 1) : u = Scalars!Power[e]
  BY DEF Scalars!Spacings
<1>2. \A e \in 0..(T.exps + 1) : e \in Nat /\ Scalars!Power[e] \in Nat \ {0}
  BY FloatTypeIs, PowerIs
<1>3. ASSUME NEW u \in Scalars!Spacings(T), u # 1
      PROVE  \E w \in Scalars!Spacings(T) : u = 2 * w
  <2>1. PICK e \in 0..(T.exps + 1) : u = Scalars!Power[e]
    BY <1>1
  <2>2. e # 0 /\ e - 1 \in 0..(T.exps + 1) /\ (e - 1) + 1 = e /\ e - 1 \in Nat
    BY <1>2, <1>3, <2>1, PowerIs, FloatTypeIs
  <2>3. Scalars!Power[e] = 2 * Scalars!Power[e - 1]
    BY <2>2, PowerIs
  <2> QED
    BY <1>1, <2>1, <2>2, <2>3
<1>4. ASSUME NEW u \in Scalars!Spacings(T), NEW w \in Scalars!Spacings(T)
      PROVE  /\ u <= w => \E k \in Nat : w = k * u
             /\ u < w => 2 * u <= w
  <2>1. PICK d \in 0..(T.exps + 1), e \in 0..(T.exps + 1) : u = Scalars!Power[d] /\ w = Scalars!Power[e]
    BY <1>1
  <2>2. d \in Nat /\ e \in Nat /\ u \in Nat \ {0} /\ w \in Nat \ {0}
    BY <1>2, <2>1
  <2>3. e <= d => w <= u
    BY <2>1, <2>2, PowersOrdered
  <2>4. e < d => 2 * w <= u
    BY <2>1, <2>2, PowersOrdered
  <2>5. d <= e => \E k \in Nat : w = k * u
    BY <2>1, <2>2, PowersOrdered
  <2>6. d < e => 2 * u <= w
    BY <2>1, <2>2, PowersOrdered
  <2>7. u <= w => d <= e
    BY <2>2, <2>4
  <2>8. u < w => d < e
    BY <2>2, <2>3
  <2> QED
    BY <2>5, <2>6, <2>7, <2>8
<1> QED
  BY <1>1, <1>2, <1>3, <1>4

\* The number p / q is small enough for the type.
Fits(T, p, q) == \E u \in Scalars!Spacings(T) : p < q * (Scalars!Power[T.bits] * u)

LEMMA SpacingIs ==
    ASSUME NEW T \in FloatTypes, NEW p \in Nat, NEW q \in Nat \ {0}, Fits(T, p, q)
    PROVE  LET s == Scalars!Spacing(T, p, q)
           IN  /\ s \in Scalars!Spacings(T) /\ s \in Nat \ {0}
               /\ p < q * (Scalars!Power[T.bits] * s)
               /\ \A u \in Scalars!Spacings(T) : p < q * (Scalars!Power[T.bits] * u) => s <= u
               /\ s = 1 \/ q * (Scalars!Power[T.bits] * s) <= 2 * p
<1> DEFINE P == Scalars!Power[T.bits]
<1> DEFINE S == { u \in Scalars!Spacings(T) : p < q * (P * u) }
<1> DEFINE s == Scalars!Spacing(T, p, q)
<1>1. P \in Nat \ {0}
  BY FloatTypeIs, PowerIs
<1>2. S \subseteq Nat /\ S # {} /\ S \subseteq Scalars!Spacings(T)
  BY SpacingsAre DEF Fits
<1>3. s = CHOOSE x \in S : \A y \in S : x <= y
  BY DEF Scalars!Spacing, Scalars!Min
<1>4. \A u \in Scalars!Spacings(T) : u \in S <=> p < q * (P * u)
  OBVIOUS
<1> HIDE DEF P, S, s
<1>5. s \in S /\ \A y \in S : s <= y
  BY <1>2, <1>3, Least
<1>6. s \in Scalars!Spacings(T) /\ s \in Nat \ {0}
  BY <1>2, <1>5, SpacingsAre
<1>7. ASSUME s # 1 PROVE q * (P * s) <= 2 * p
  <2>1. PICK w \in Scalars!Spacings(T) : s = 2 * w
    BY <1>6, <1>7, SpacingsAre
  <2>2. w \in Nat \ {0} /\ w < s
    BY <1>6, <2>1, SpacingsAre
  <2>3. ~(p < q * (P * w))
    BY <1>4, <1>5, <1>6, <2>2
  <2>4. P * w \in Nat /\ P * s = 2 * (P * w)
    BY <1>1, <2>1, <2>2
  <2>5. q * (P * w) \in Nat /\ q * (P * s) = 2 * (q * (P * w))
    <3>1. \A x \in Nat : q * x \in Nat /\ q * (2 * x) = 2 * (q * x)
      OBVIOUS
    <3> QED
      BY <2>4, <3>1
  <2> QED
    BY <2>3, <2>5
<1> QED
  BY <1>4, <1>5, <1>6, <1>7 DEF P, s

\* RoundedTo in the words of Rounded: so many spacings.
LEMMA RoundedToIs ==
    ASSUME NEW T \in FloatTypes, NEW p \in Nat, NEW q \in Nat \ {0}, Fits(T, p, q)
    PROVE  LET s == Scalars!Spacing(T, p, q)
               n == Scalars!Rounded(p, q * s)
           IN  /\ q * s \in Nat \ {0} /\ n \in Nat
               /\ Scalars!RoundedTo(T, p, q) = n * s /\ n * s \in Nat
               /\ 2 * (q * (n * s)) <= 2 * p + q * s
               /\ 2 * p <= 2 * (q * (n * s)) + q * s
<1> DEFINE s == Scalars!Spacing(T, p, q)
<1> DEFINE n == Scalars!Rounded(p, q * s)
<1>1. s \in Nat \ {0}
  BY SpacingIs
<1>2. Scalars!RoundedTo(T, p, q) = n * s
  BY DEF Scalars!RoundedTo
<1>3. q * s \in Nat \ {0}
  <2> HIDE DEF s, n
  <2> QED
    BY <1>1
<1>4. n \in Nat /\ 2 * ((q * s) * n) <= 2 * p + q * s /\ 2 * p <= 2 * ((q * s) * n) + q * s
  BY <1>3, RoundedNear
<1> HIDE DEF s, n
<1>5. (q * s) * n = q * (n * s) /\ n * s \in Nat
  BY <1>1, <1>4
<1> QED
  BY <1>2, <1>3, <1>4, <1>5 DEF s, n

\* Greater numbers are rounded to greater ones, or to the same.
LEMMA RoundedToMonotone ==
    ASSUME NEW T \in FloatTypes, NEW p1 \in Nat, NEW q1 \in Nat \ {0}, NEW p2 \in Nat, NEW q2 \in Nat \ {0},
           Fits(T, p1, q1), Fits(T, p2, q2), p1 * q2 <= p2 * q1
    PROVE  Scalars!RoundedTo(T, p1, q1) <= Scalars!RoundedTo(T, p2, q2)
<1> DEFINE P == Scalars!Power[T.bits]
<1> DEFINE s1 == Scalars!Spacing(T, p1, q1)
<1> DEFINE s2 == Scalars!Spacing(T, p2, q2)
<1> DEFINE n1 == Scalars!Rounded(p1, q1 * s1)
<1> DEFINE n2 == Scalars!Rounded(p2, q2 * s2)
<1>1. PICK h \in Nat \ {0} : P = 2 * h
  BY FloatTypeIs
<1>2. /\ s1 \in Scalars!Spacings(T) /\ s1 \in Nat \ {0} /\ p1 < q1 * (P * s1)
      /\ \A u \in Scalars!Spacings(T) : p1 < q1 * (P * u) => s1 <= u
  BY SpacingIs
<1>3. /\ s2 \in Scalars!Spacings(T) /\ s2 \in Nat \ {0} /\ p2 < q2 * (P * s2)
      /\ s2 = 1 \/ q2 * (P * s2) <= 2 * p2
  BY SpacingIs
<1>4. /\ q1 * s1 \in Nat \ {0} /\ n1 \in Nat /\ Scalars!RoundedTo(T, p1, q1) = n1 * s1
      /\ q2 * s2 \in Nat \ {0} /\ n2 \in Nat /\ Scalars!RoundedTo(T, p2, q2) = n2 * s2
  BY RoundedToIs
<1>5. \A n \in Nat : /\ p1 <= n * (q1 * s1) => n1 <= n
                     /\ n * (q2 * s2) <= p2 => n <= n2
  BY <1>4, RoundedBounds
<1>6. p1 * (q2 * s2) <= p2 * (q1 * s1) => n1 <= n2
  BY <1>4, RoundedMonotone
<1>7. s1 < s2 => 2 * s1 <= s2
  BY <1>2, <1>3, SpacingsAre
<1> HIDE DEF P, s1, s2, n1, n2
<1>8. s1 <= s2
  <2> DEFINE x == P * s2
  <2>1. x \in Nat
    BY <1>1, <1>3
  <2> HIDE DEF x
  <2>2. p2 < q2 * x
    BY <1>3 DEF x
  <2>3. q1 * p2 < q1 * (q2 * x)
    BY <2>1, <2>2, Cancelled
  <2>4. q2 * p1 < q2 * (q1 * x)
    <3>1. q1 * (q2 * x) = q2 * (q1 * x) /\ q1 * x \in Nat /\ q2 * (q1 * x) \in Nat
      BY <2>1, Regrouped
    <3>2. p1 * q2 = q2 * p1 /\ p2 * q1 = q1 * p2 /\ q2 * p1 \in Nat /\ q1 * p2 \in Nat
      OBVIOUS
    <3> QED
      BY <2>3, <3>1, <3>2
  <2>5. p1 < q1 * x
    BY <2>1, <2>4, Cancelled
  <2> QED
    BY <1>2, <1>3, <2>5 DEF x
<1>9. CASE s1 = s2
  <2>1. p1 * (q2 * s2) = s1 * (p1 * q2) /\ p2 * (q1 * s1) = s1 * (p2 * q1)
    <3>1. \A x, y, z \in Nat : x * (y * z) = z * (x * y)
      OBVIOUS
    <3> QED
      BY <1>2, <1>9, <3>1
  <2>2. s1 * (p1 * q2) <= s1 * (p2 * q1)
    BY <1>2, Products
  <2>3. n1 <= n2
    BY <1>6, <2>1, <2>2
  <2>4. s1 * n1 <= s1 * n2
    BY <1>2, <1>4, <2>3, Products
  <2> QED
    BY <1>2, <1>4, <1>9, <2>4
<1>10. CASE s1 < s2
  <2>1. 2 * s1 <= s2 /\ s2 # 1
    BY <1>2, <1>3, <1>7, <1>10
  <2>2. n1 <= P
    <3>1. q1 * (P * s1) = P * (q1 * s1) /\ P \in Nat /\ P * (q1 * s1) \in Nat
      BY <1>1, <1>2, Regrouped
    <3>2. p1 <= P * (q1 * s1)
      BY <1>2, <3>1
    <3> QED
      BY <1>5, <3>1, <3>2
  <2>3. h <= n2
    <3>1. q2 * (P * s2) = 2 * (h * (q2 * s2)) /\ h * (q2 * s2) \in Nat
      <4>1. \A x, y, z \in Nat : x * ((2 * y) * z) = 2 * (y * (x * z)) /\ y * (x * z) \in Nat
        OBVIOUS
      <4> QED
        BY <1>1, <1>3, <4>1
    <3>2. h * (q2 * s2) <= p2
      BY <1>3, <2>1, <3>1
    <3> QED
      BY <1>5, <3>2
  <2>4. s1 * n1 <= s1 * P
    BY <1>1, <1>2, <1>4, <2>2, Products
  <2>5. h * (2 * s1) <= h * s2 /\ s2 * h <= s2 * n2
    BY <1>1, <1>2, <1>3, <1>4, <2>1, <2>3, Products
  <2>6. /\ s1 * P = h * (2 * s1) /\ h * s2 = s2 * h /\ s1 * n1 = n1 * s1 /\ s2 * n2 = n2 * s2
        /\ s1 * n1 \in Nat /\ s1 * P \in Nat /\ s2 * h \in Nat /\ s2 * n2 \in Nat
    BY <1>1, <1>2, <1>3, <1>4
  <2> QED
    BY <1>4, <2>4, <2>5, <2>6
<1> QED
  BY <1>2, <1>3, <1>8, <1>9, <1>10

\* What is at least a spacing is rounded to such a number.
LEMMA RoundedToSpacing ==
    ASSUME NEW T \in FloatTypes, NEW d \in Nat, NEW u \in Scalars!Spacings(T), Fits(T, d, 1), u <= d
    PROVE  u <= Scalars!RoundedTo(T, d, 1)
<1> DEFINE P == Scalars!Power[T.bits]
<1> DEFINE s == Scalars!Spacing(T, d, 1)
<1> DEFINE n == Scalars!Rounded(d, 1 * s)
<1>1. PICK h \in Nat \ {0} : P = 2 * h
  BY FloatTypeIs
<1>2. /\ s \in Scalars!Spacings(T) /\ s \in Nat \ {0}
      /\ s = 1 \/ 1 * (P * s) <= 2 * d
  BY SpacingIs
<1>3. 1 * s \in Nat \ {0} /\ n \in Nat /\ Scalars!RoundedTo(T, d, 1) = n * s /\ n * s \in Nat
  BY RoundedToIs
<1>4. \A m \in Nat : m * (1 * s) <= d => m <= n
  BY <1>3, RoundedBounds
<1>5. u \in Nat \ {0}
  BY SpacingsAre
<1>6. s <= u => \E k \in Nat : u = k * s
  BY <1>2, SpacingsAre
<1> HIDE DEF P, s, n
<1>7. CASE s <= u
  <2>1. PICK k \in Nat : u = k * s
    BY <1>6, <1>7
  <2>2. k <= n
    BY <1>2, <1>4, <2>1
  <2>3. s * k <= s * n
    BY <1>2, <1>3, <2>2, Products
  <2> QED
    BY <1>2, <1>3, <2>1, <2>3
<1>8. CASE u < s
  <2>1. s # 1 /\ 1 * (P * s) <= 2 * d
    BY <1>2, <1>5, <1>8
  <2>2. P * s = 2 * (h * s) /\ h * s \in Nat
    BY <1>1, <1>2
  <2>3. h * (1 * s) <= d
    BY <1>2, <2>1, <2>2
  <2>4. h <= n
    BY <1>4, <2>3
  <2>5. s * 1 <= s * n
    BY <1>1, <1>2, <1>3, <2>4, Products
  <2> QED
    BY <1>2, <1>3, <1>5, <1>8, <2>5
<1> QED
  BY <1>2, <1>5, <1>7, <1>8

\* No multiple of p is between 0 and p.
LEMMA NoMultiple ==
    ASSUME NEW p \in Nat \ {0}, NEW k \in Int, NEW d \in Int, d = k * p, d < p, -d < p
    PROVE  d = 0
<1>1. CASE k >= 1
  <2>1. k * p >= p
    BY <1>1
  <2> QED
    BY <2>1
<1>2. CASE k <= -1
  <2>1. (-k) * p >= p
    BY <1>2
  <2>2. (-k) * p = -(k * p)
    OBVIOUS
  <2> QED
    BY <2>1, <2>2
<1>3. CASE k = 0
  BY <1>3
<1> QED
  BY <1>1, <1>2, <1>3

LEMMA Absolute ==
    ASSUME NEW v \in Int
    PROVE  Scalars!fabs(v) \in Nat /\ v <= Scalars!fabs(v) /\ -v <= Scalars!fabs(v) /\ Scalars!fabs(v) \in {v, -v}
BY DEF Scalars!fabs

LEMMA ScaleIs ==
    ASSUME NEW x \in Int, NEW y \in Int
    PROVE  /\ Scalars!Scale(x, y) \in {Scalars!fabs(x), Scalars!fabs(y)} /\ Scalars!Scale(x, y) \in Nat
           /\ Scalars!Scale(x, y) <= Scalars!fabs(x) /\ Scalars!Scale(x, y) <= Scalars!fabs(y)
<1> DEFINE a == Scalars!fabs(x)
<1> DEFINE b == Scalars!fabs(y)
<1>1. a \in Nat /\ b \in Nat
  BY Absolute
<1>2. Scalars!Scale(x, y) = Min({a, b})
  BY DEF Scalars!Scale, Scalars!Min, Min
<1> HIDE DEF a, b
<1>3. Scalars!Scale(x, y) \in {a, b} /\ Scalars!Scale(x, y) <= a /\ Scalars!Scale(x, y) <= b
  BY <1>1, <1>2, MinOfTwo
<1>4. Scalars!Scale(x, y) \in Nat
  BY <1>1, <1>3
<1> QED
  BY <1>3, <1>4 DEF a, b

\* A finite value: a number of significands, none of them as much as a power.
LEMMA FloatIs ==
    ASSUME NEW T \in FloatTypes, NEW v, Scalars!IsFinite(T, v)
    PROVE  /\ v \in Int
           /\ Scalars!fabs(v) < Scalars!Power[T.bits] * Scalars!Power[T.exps]
           /\ \E u \in Scalars!Spacings(T), k \in Int :
                 v = k * u /\ Scalars!fabs(v) < Scalars!Power[T.bits] * u
<1>1. PICK m \in 0..(Scalars!Power[T.bits] - 1), e \in 0..T.exps :
        v \in {m * Scalars!Power[e], -(m * Scalars!Power[e])}
  BY DEF Scalars!IsFinite
<1> DEFINE P == Scalars!Power[T.bits]
<1> DEFINE u == Scalars!Power[e]
<1> DEFINE w == Scalars!Power[T.exps]
<1>2. e \in Nat /\ T.exps \in Nat /\ T.bits \in Nat /\ e <= T.exps /\ e \in 0..(T.exps + 1)
  BY FloatTypeIs
<1>3. u \in Nat \ {0} /\ w \in Nat \ {0} /\ P \in Nat \ {0} /\ u <= w /\ u \in Scalars!Spacings(T)
  BY <1>2, PowerIs, PowersOrdered, SpacingsAre
<1>4. m \in Nat /\ m < P /\ v \in {m * u, -(m * u)}
  BY <1>1, <1>3
<1> HIDE DEF P, u, w
<1>5. m * u \in Nat /\ (-m) * u = -(m * u) /\ -m \in Int
  BY <1>3, <1>4
<1>6. v \in Int /\ Scalars!fabs(v) = m * u
  BY <1>4, <1>5 DEF Scalars!fabs
<1>7. m * u < P * u
  <2>1. u * m < u * P
    BY <1>3, <1>4, Cancelled
  <2> QED
    BY <1>3, <1>4, <2>1
<1>8. P * u <= P * w /\ P * u \in Nat /\ P * w \in Nat
  BY <1>3, Products
<1>9. \E k \in Int : v = k * u
  BY <1>4, <1>5
<1> QED
  BY <1>3, <1>5, <1>6, <1>7, <1>8, <1>9 DEF P, u, w

\* The two sides of the comparison, before they are rounded: they fit, each
\* value is a multiple of the spacing of the lesser one, and so are they.
LEMMA SidesFit ==
    ASSUME NEW T \in FloatTypes, NEW x, NEW y, Scalars!IsFinite(T, x), Scalars!IsFinite(T, y)
    PROVE  LET d == Scalars!fabs(x - y)
               l == Scalars!Scale(x, y)
               s == Scalars!Spacing(T, l, 1)
           IN  /\ x \in Int /\ y \in Int /\ d \in Nat /\ l \in Nat /\ T.tol * l \in Nat
               /\ Fits(T, d, 1) /\ Fits(T, l, 1) /\ Fits(T, T.tol * l, T.over)
               /\ s \in Scalars!Spacings(T) /\ \E k \in Int : x - y = k * s
<1> DEFINE d == Scalars!fabs(x - y)
<1> DEFINE l == Scalars!Scale(x, y)
<1> DEFINE a == Scalars!fabs(x)
<1> DEFINE b == Scalars!fabs(y)
<1> DEFINE P == Scalars!Power[T.bits]
<1> DEFINE w == Scalars!Power[T.exps]
<1>1. x \in Int /\ y \in Int /\ x - y \in Int /\ a < P * w /\ b < P * w
  BY FloatIs
<1>2. /\ a \in Nat /\ x <= a /\ -x <= a
      /\ b \in Nat /\ y <= b /\ -y <= b
      /\ d \in Nat /\ d \in {x - y, -(x - y)}
      /\ l \in Nat /\ l <= a /\ l <= b
  BY <1>1, Absolute, ScaleIs
<1>3. P \in Nat \ {0} /\ w \in Nat \ {0} /\ Scalars!Power[T.exps + 1] = 2 * w /\ 2 * w \in Scalars!Spacings(T)
  <2>1. T.exps + 1 \in 0..(T.exps + 1)
    BY FloatTypeIs
  <2> QED
    BY <2>1, FloatTypeIs, PowerIs, SpacingsAre
<1>4. T.tol \in Nat /\ T.over \in Nat \ {0} /\ T.tol <= T.over
  BY FloatTypeIs
<1>5. \A u \in Scalars!Spacings(T), p \in Nat, q \in Nat \ {0} : p < q * (P * u) => Fits(T, p, q)
  BY DEF Fits
<1> HIDE DEF d, l, a, b, P, w
<1>6. P * (2 * w) = 2 * (P * w) /\ P * w \in Nat
  BY <1>3
<1>7. d < 1 * (P * (2 * w)) /\ l < 1 * (P * (2 * w))
  BY <1>1, <1>2, <1>6
<1>8. T.tol * l \in Nat /\ T.tol * l < T.over * (P * (2 * w))
  <2>1. l * T.tol <= l * T.over /\ l * T.tol = T.tol * l /\ l * T.over = T.over * l /\ T.tol * l \in Nat
    BY <1>2, <1>4, Products
  <2>2. T.over * l < T.over * (P * (2 * w)) /\ T.over * l \in Nat
    BY <1>2, <1>3, <1>4, <1>6, <1>7, Cancelled, Products
  <2>3. T.over * (P * (2 * w)) \in Nat
    BY <1>4, <1>6, Products
  <2> QED
    BY <2>1, <2>2, <2>3
<1>9. Fits(T, d, 1) /\ Fits(T, l, 1) /\ Fits(T, T.tol * l, T.over)
  BY <1>2, <1>3, <1>4, <1>5, <1>7, <1>8
<1> DEFINE s == Scalars!Spacing(T, l, 1)
<1>10. /\ s \in Scalars!Spacings(T) /\ s \in Nat \ {0}
       /\ \A u \in Scalars!Spacings(T) : l < 1 * (P * u) => s <= u
  BY <1>2, <1>9, SpacingIs DEF P
<1>11. \A u \in Scalars!Spacings(T) : s <= u => \E k \in Nat : u = k * s
  BY <1>10, SpacingsAre
<1>12. \A u \in Scalars!Spacings(T) : u \in Nat
  BY SpacingsAre
<1>13. /\ \E u \in Scalars!Spacings(T), k \in Int : x = k * u /\ a < P * u
       /\ \E u \in Scalars!Spacings(T), k \in Int : y = k * u /\ b < P * u
  BY FloatIs DEF a, b, P
<1> HIDE DEF s
<1>14. ASSUME NEW v \in Int, NEW f \in Nat, l <= f,
              \E u \in Scalars!Spacings(T), k \in Int : v = k * u /\ f < P * u
       PROVE  \E k \in Int : v = k * s
  <2>1. PICK u \in Scalars!Spacings(T), k \in Int : v = k * u /\ f < P * u
    BY <1>14
  <2>2. u \in Nat /\ P * u \in Nat
    BY <1>3, <1>12
  <2>3. s <= u
    BY <1>2, <1>10, <1>14, <2>1, <2>2
  <2>4. PICK j \in Nat : u = j * s
    BY <1>11, <2>3
  <2>5. k * (j * s) = (k * j) * s /\ k * j \in Int
    BY <1>10, Regrouped
  <2> QED
    BY <2>1, <2>4, <2>5
<1>15. PICK j \in Int, k \in Int : x = j * s /\ y = k * s
  BY <1>1, <1>2, <1>13, <1>14
<1>16. x - y = (j - k) * s /\ j - k \in Int
  BY <1>10, <1>15
<1> QED
  BY <1>1, <1>2, <1>8, <1>9, <1>10, <1>16 DEF d, l, s

\* A match of two finite values is one of their difference, in the words of
\* the property.
LEMMA DifferenceFits ==
    ASSUME NEW T \in FloatTypes, NEW x, NEW y, Scalars!IsFinite(T, x), Scalars!IsFinite(T, y)
    PROVE  LET d == Scalars!fabs(x - y)
               l == Scalars!Scale(x, y)
               P == Scalars!Power[T.bits]
               fits == Scalars!RoundedTo(T, d, 1) <= Scalars!RoundedTo(T, T.tol * l, T.over)
           IN  /\ fits => /\ 2 * (T.over * ((P - 1) * d)) <= 2 * ((T.tol * l) * (P + 1)) + T.over * P
                          /\ l = 0 => d = 0
                          /\ 2 * (T.tol * P) <= T.over => d = 0
               /\ T.over * d <= T.tol * l => fits
<1> DEFINE d == Scalars!fabs(x - y)
<1> DEFINE l == Scalars!Scale(x, y)
<1> DEFINE P == Scalars!Power[T.bits]
<1> DEFINE p == T.tol * l
<1> DEFINE q == T.over
<1> DEFINE s == Scalars!Spacing(T, l, 1)
<1> DEFINE s1 == Scalars!Spacing(T, d, 1)
<1> DEFINE s2 == Scalars!Spacing(T, p, q)
<1> DEFINE n1 == Scalars!Rounded(d, 1 * s1)
<1> DEFINE n2 == Scalars!Rounded(p, q * s2)
<1> DEFINE r1 == Scalars!RoundedTo(T, d, 1)
<1> DEFINE r2 == Scalars!RoundedTo(T, p, q)
<1>1. /\ x \in Int /\ y \in Int /\ d \in Nat /\ l \in Nat /\ p \in Nat
      /\ Fits(T, d, 1) /\ Fits(T, l, 1) /\ Fits(T, p, q)
      /\ s \in Scalars!Spacings(T) /\ \E k \in Int : x - y = k * s
  BY SidesFit
<1>2. q \in Nat \ {0} /\ T.tol \in Nat /\ \E h \in Nat \ {0} : P = 2 * h
  BY FloatTypeIs
<1>3. P \in Nat /\ P >= 2
  BY <1>2
<1>4. /\ s \in Nat \ {0} /\ l < 1 * (P * s)
      /\ s1 \in Nat \ {0} /\ (s1 = 1 \/ 1 * (P * s1) <= 2 * d)
      /\ s2 \in Nat \ {0} /\ (s2 = 1 \/ q * (P * s2) <= 2 * p)
  BY <1>1, <1>2, SpacingIs
<1>5. /\ r1 \in Nat /\ r1 = n1 * s1 /\ 2 * d <= 2 * (1 * (n1 * s1)) + 1 * s1
      /\ r2 \in Nat /\ r2 = n2 * s2 /\ 2 * (q * (n2 * s2)) <= 2 * p + q * s2
      /\ n1 \in Nat /\ n2 \in Nat
  BY <1>1, <1>2, RoundedToIs
<1>6. \A n \in Nat : /\ n * (1 * s1) <= d => n <= n1
                     /\ p <= n * (q * s2) => n2 <= n
  <2>1. 1 * s1 \in Nat \ {0} /\ q * s2 \in Nat \ {0}
    BY <1>1, <1>2, RoundedToIs
  <2> QED
    BY <1>1, <2>1, RoundedBounds
<1>7. s <= d => s <= r1
  BY <1>1, RoundedToSpacing
<1>8. d * q <= p * 1 => r1 <= r2
  BY <1>1, <1>2, RoundedToMonotone
<1>9. d \in {x - y, -(x - y)}
  BY <1>1, Absolute
<1> HIDE DEF d, l, P, p, q, s, s1, s2, n1, n2, r1, r2
\* The rounding of the difference.
<1>10. 2 * ((P - 1) * d) <= 2 * (P * r1)
  <2>1. (P - 1) * d = P * d - d /\ P * d \in Nat /\ P * r1 \in Nat
    BY <1>1, <1>3, <1>5
  <2>2. CASE s1 = 1
    <3>1. d <= r1
      BY <1>1, <1>5, <1>6, <2>2
    <3>2. P * d <= P * r1
      BY <1>1, <1>3, <1>5, <3>1, Products
    <3> QED
      BY <1>1, <2>1, <3>2
  <2>3. CASE s1 # 1
    <3>1. P * s1 <= 2 * d /\ P * s1 \in Nat
      BY <1>1, <1>3, <1>4, <2>3
    <3>2. 2 * d <= 2 * r1 + s1
      BY <1>4, <1>5
    <3>3. P * (2 * d) <= P * (2 * r1 + s1)
      BY <1>1, <1>3, <1>4, <1>5, <3>2, Products
    <3>4. P * (2 * d) = 2 * (P * d) /\ P * (2 * r1 + s1) = 2 * (P * r1) + P * s1
      BY <1>1, <1>3, <1>4, <1>5
    <3> QED
      BY <1>1, <2>1, <3>1, <3>3, <3>4
  <2> QED
    BY <2>2, <2>3
\* The rounding of the product.
<1>11. /\ q * r2 \in Nat /\ q * s2 \in Nat /\ 2 * (q * r2) <= 2 * p + q * s2
       /\ P * (q * s2) <= 2 * p + q * P /\ q * P \in Nat
  <2>1. q * r2 \in Nat /\ q * s2 \in Nat /\ q * P \in Nat
    BY <1>2, <1>3, <1>4, <1>5, Products
  <2>2. P * (q * s2) = q * (P * s2) /\ s2 = 1 => q * (P * s2) = q * P
    BY <1>2, <1>3, <1>4, Regrouped
  <2>3. P * (q * s2) = q * (P * s2)
    BY <1>2, <1>3, <1>4, Regrouped
  <2> QED
    BY <1>1, <1>2, <1>3, <1>4, <1>5, <2>1, <2>2, <2>3
<1>12. ASSUME r1 <= r2 PROVE 2 * (q * ((P - 1) * d)) <= 2 * (p * (P + 1)) + q * P
  <2> DEFINE a == (P - 1) * d
  <2> DEFINE b == P * r1
  <2>1. a \in Nat /\ b \in Nat
    BY <1>1, <1>3, <1>5
  <2>2. a <= b
    BY <1>10, <2>1
  <2> HIDE DEF a, b
  <2>3. q * a <= q * b /\ q * a \in Nat /\ q * b \in Nat
    BY <1>2, <2>1, <2>2, Products
  <2>4. q * b <= P * (q * r2)
    <3>1. P * r1 <= P * r2 /\ P * r2 \in Nat
      BY <1>3, <1>5, <1>12, Products
    <3>2. q * (P * r1) <= q * (P * r2)
      BY <1>2, <2>1, <3>1, Products DEF b
    <3>3. q * (P * r2) = P * (q * r2)
      BY <1>2, <1>3, <1>5, Regrouped
    <3> QED
      BY <3>2, <3>3 DEF b
  <2>5. P * (2 * (q * r2)) <= P * (2 * p + q * s2)
    BY <1>1, <1>3, <1>11, Products
  <2>6. P * (2 * (q * r2)) = 2 * (P * (q * r2)) /\ P * (q * r2) \in Nat
    BY <1>3, <1>11
  <2>7. P * (2 * p + q * s2) = 2 * (p * P) + P * (q * s2) /\ p * P \in Nat /\ P * (q * s2) \in Nat
    BY <1>1, <1>3, <1>11
  <2>8. p * (P + 1) = p * P + p
    BY <1>1, <1>3
  <2> QED
    BY <1>1, <1>11, <2>3, <2>4, <2>5, <2>6, <2>7, <2>8 DEF a
<1>13. ASSUME r1 <= r2, l = 0 PROVE d = 0
  <2>1. p = 0
    BY <1>2, <1>13 DEF p
  <2>2. p <= 0 * (q * s2)
    BY <1>2, <1>4, <2>1
  <2>3. n2 = 0
    BY <1>5, <1>6, <2>2
  <2>4. r1 = 0
    BY <1>4, <1>5, <1>13, <2>3
  <2>5. s1 = 1 => d = 0
    <3>1. s1 = 1 => d * (1 * s1) <= d
      BY <1>1
    <3> QED
      BY <1>1, <1>4, <1>5, <1>6, <2>4, <3>1
  <2>6. d <= 0
    <3> DEFINE a == (P - 1) * d
    <3>1. P - 1 \in Nat /\ d * 1 <= d * (P - 1)
      BY <1>1, <1>3, Products
    <3>2. d * (P - 1) = a /\ a \in Nat /\ P * r1 = 0 /\ d * 1 = d
      BY <1>1, <1>3, <2>4, <3>1
    <3>3. 2 * a <= 2 * (P * r1)
      BY <1>10
    <3> HIDE DEF a
    <3> QED
      BY <1>1, <3>1, <3>2, <3>3
  <2> QED
    BY <1>1, <2>6
<1>14. ASSUME r1 <= r2, 2 * (T.tol * P) <= q PROVE d = 0
  <2>1. 2 * p < q * s
    <3>1. T.tol * P \in Nat /\ s * (2 * (T.tol * P)) <= s * q
      BY <1>2, <1>3, <1>4, <1>14, Products
    <3>2. s * q = q * s /\ q * s \in Nat /\ q * s > 0
      BY <1>2, <1>4
    <3>3. CASE T.tol = 0
      BY <1>1, <3>2, <3>3 DEF p
    <3>4. CASE T.tol # 0
      <4>1. P * s \in Nat /\ l < P * s
        BY <1>1, <1>3, <1>4
      <4>2. T.tol * l < T.tol * (P * s)
        BY <1>1, <1>2, <3>4, <4>1, Cancelled
      <4>3. s * (2 * (T.tol * P)) = 2 * (T.tol * (P * s)) /\ T.tol * (P * s) \in Nat
        <5>1. \A i1, i2, i3 \in Nat : i3 * (2 * (i1 * i2)) = 2 * (i1 * (i2 * i3)) /\ i1 * (i2 * i3) \in Nat
          OBVIOUS
        <5> QED
          BY <1>2, <1>3, <1>4, <5>1
      <4> QED
        BY <1>1, <3>1, <3>2, <4>2, <4>3 DEF p
    <3> QED
      BY <3>3, <3>4
  <2>2. s2 <= s
    <3>1. CASE s2 = 1
      BY <1>4, <3>1
    <3>2. CASE s2 # 1
      <4>1. q * (P * s2) < q * s
        BY <1>1, <1>2, <1>3, <1>4, <2>1, <3>2, Products
      <4>2. P * s2 < s /\ P * s2 \in Nat
        <5>1. P * s2 \in Nat
          BY <1>3, <1>4
        <5> QED
          BY <1>2, <1>4, <4>1, <5>1, Cancelled
      <4>3. s2 * 1 <= s2 * P /\ s2 * P = P * s2
        BY <1>3, <1>4, Products
      <4> QED
        BY <1>4, <4>2, <4>3
    <3> QED
      BY <3>1, <3>2
  <2>3. r2 < s
    <3>1. q * s2 <= q * s /\ q * s \in Nat
      BY <1>2, <1>4, <2>2, Products
    <3>2. q * r2 < q * s
      BY <1>1, <1>11, <2>1, <3>1
    <3> QED
      BY <1>2, <1>4, <1>5, <3>2, Cancelled
  <2>4. d < s
    BY <1>1, <1>4, <1>5, <1>7, <1>14, <2>3
  <2>5. PICK k \in Int : x - y = k * s
    BY <1>1
  <2>6. x - y < s /\ -(x - y) < s
    BY <1>1, <1>4, <1>9, <2>4
  <2>7. x - y = 0
    BY <1>1, <1>4, <2>5, <2>6, NoMultiple
  <2> QED
    BY <1>1, <1>9, <2>7
<1>15. ASSUME q * d <= p PROVE r1 <= r2
  BY <1>1, <1>2, <1>8, <1>15
<1> QED
  BY <1>12, <1>13, <1>14, <1>15 DEF d, l, P, p, q, r1, r2

\* What has been compared when so many rows have: matches says whether all of
\* them match.
ScalarsInv ==
    /\ type \in {Exact} \cup FloatTypes
    /\ expected \in Vectors[type] /\ actual \in Vectors[type]
    /\ at \in {"compare", "done"}
    /\ compared \in Nat /\ compared <= Scalars!UpperSize
    /\ at = "done" => compared = Scalars!UpperSize
    /\ matches \in BOOLEAN
    /\ matches <=> \A m \in 1..compared : m <= Scalars!LowerSize /\ Scalars!Matches(expected[m], actual[m])

\* lower_size and upper_size bound the sizes of both vectors.
LEMMA SizesAre ==
    ASSUME type \in {Exact} \cup FloatTypes, expected \in Vectors[type], actual \in Vectors[type]
    PROVE  /\ expected \in Seq(Int \cup Scalars!Special) /\ actual \in Seq(Int \cup Scalars!Special)
           /\ Scalars!LowerSize \in {Len(expected), Len(actual)}
           /\ Scalars!UpperSize \in {Len(expected), Len(actual)}
           /\ Scalars!LowerSize \in Nat /\ Scalars!UpperSize \in Nat
           /\ Scalars!LowerSize <= Len(expected) /\ Scalars!LowerSize <= Len(actual)
           /\ Scalars!UpperSize >= Len(expected) /\ Scalars!UpperSize >= Len(actual)
<1>1. expected \in Seq(Int \cup Scalars!Special) /\ actual \in Seq(Int \cup Scalars!Special)
  BY InputsAssumption DEF Scalars!InputsOK
<1>2. Len(expected) \in Nat /\ Len(actual) \in Nat
  BY <1>1
<1>3. /\ Scalars!LowerSize = Min({Len(expected), Len(actual)})
      /\ Scalars!UpperSize = Max({Len(expected), Len(actual)})
  BY DEF Scalars!LowerSize, Scalars!UpperSize, Scalars!Min, Scalars!Max, Min, Max
<1>4. /\ Scalars!LowerSize \in {Len(expected), Len(actual)}
      /\ Scalars!LowerSize <= Len(expected) /\ Scalars!LowerSize <= Len(actual)
      /\ Scalars!UpperSize \in {Len(expected), Len(actual)}
      /\ Scalars!UpperSize >= Len(expected) /\ Scalars!UpperSize >= Len(actual)
  BY <1>2, <1>3, MinOfTwo
<1> QED
  BY <1>1, <1>2, <1>4

LEMMA ScalarsStart == Scalars!Init => ScalarsInv
<1> SUFFICES ASSUME Scalars!Init PROVE ScalarsInv
  OBVIOUS
<1>1. /\ type \in {Exact} \cup FloatTypes /\ expected \in Vectors[type] /\ actual \in Vectors[type]
      /\ compared = 0 /\ matches = TRUE /\ at = "compare"
  BY DEF Scalars!Init
<1>2. Scalars!UpperSize \in Nat
  BY <1>1, SizesAre
<1>3. \A m \in 1..compared : FALSE
  BY <1>1
<1> QED
  BY <1>1, <1>2, <1>3 DEF ScalarsInv

LEMMA ScalarsStep ==
    ASSUME ScalarsInv, Scalars!Next \/ UNCHANGED Scalars!vars
    PROVE  ScalarsInv'
<1>1. /\ type \in {Exact} \cup FloatTypes /\ expected \in Vectors[type] /\ actual \in Vectors[type]
      /\ at \in {"compare", "done"} /\ compared \in Nat /\ compared <= Scalars!UpperSize /\ matches \in BOOLEAN
      /\ at = "done" => compared = Scalars!UpperSize
  BY DEF ScalarsInv
<1>2. matches <=> \A m \in 1..compared : m <= Scalars!LowerSize /\ Scalars!Matches(expected[m], actual[m])
  BY DEF ScalarsInv
<1>3. Scalars!LowerSize \in Nat /\ Scalars!UpperSize \in Nat /\ Scalars!LowerSize <= Scalars!UpperSize
  BY <1>1, SizesAre
<1>4. UNCHANGED <<type, expected, actual>>
  BY DEF Scalars!Next, Scalars!MissingValue, Scalars!CompareValues, Scalars!Return, Scalars!Finished, Scalars!vars
<1>5. /\ Scalars!LowerSize' = Scalars!LowerSize /\ Scalars!UpperSize' = Scalars!UpperSize
      /\ \A x, y : Scalars!Matches(x, y)' <=> Scalars!Matches(x, y)
  BY <1>4 DEF Scalars!LowerSize, Scalars!UpperSize, Scalars!Matches
<1>6. ASSUME NEW ok \in BOOLEAN, compared < Scalars!UpperSize, compared' = compared + 1, at' = at, at = "compare",
             ok <=> compared < Scalars!LowerSize /\ Scalars!Matches(expected[compared + 1], actual[compared + 1]),
             matches' = (matches /\ ok)
      PROVE  ScalarsInv'
  <2>1. matches' \in BOOLEAN /\ (matches' <=> matches /\ ok)
    BY <1>1, <1>6
  <2>2. \A m : m \in 1..(compared + 1) <=> m \in 1..compared \/ m = compared + 1
    BY <1>1
  <2>3. compared + 1 <= Scalars!LowerSize <=> compared < Scalars!LowerSize
    BY <1>1, <1>3
  <2>4. matches' <=> \A m \in 1..(compared + 1) : m <= Scalars!LowerSize /\ Scalars!Matches(expected[m], actual[m])
    BY <1>2, <1>6, <2>1, <2>2, <2>3
  <2>5. compared' \in Nat /\ compared' <= Scalars!UpperSize
    BY <1>1, <1>3, <1>6
  <2> QED
    BY <1>1, <1>4, <1>5, <1>6, <2>1, <2>4, <2>5 DEF ScalarsInv
<1>7. CASE Scalars!MissingValue
  <2>1. /\ compared < Scalars!UpperSize /\ compared' = compared + 1 /\ at' = at /\ at = "compare"
        /\ Scalars!LowerSize <= compared /\ matches' = FALSE
    BY <1>7 DEF Scalars!MissingValue
  <2>2. ~(compared < Scalars!LowerSize)
    BY <1>1, <1>3, <2>1
  <2> QED
    BY <1>6, <2>1, <2>2
<1>8. CASE Scalars!CompareValues
  <2> DEFINE ok == Scalars!Matches(expected[compared + 1], actual[compared + 1])
  <2>1. /\ compared < Scalars!LowerSize /\ compared' = compared + 1 /\ at' = at /\ at = "compare"
        /\ matches' = (matches /\ Scalars!Matches(expected[compared'], actual[compared']))
    BY <1>8 DEF Scalars!CompareValues
  <2>2. compared < Scalars!UpperSize
    BY <1>1, <1>3, <2>1
  <2>3. ok \in BOOLEAN
    BY DEF Scalars!Matches
  <2>4. matches' = (matches /\ ok)
    BY <2>1
  <2> HIDE DEF ok
  <2>5. ok <=> compared < Scalars!LowerSize /\ Scalars!Matches(expected[compared + 1], actual[compared + 1])
    BY <2>1 DEF ok
  <2> QED
    BY <1>6, <2>1, <2>2, <2>3, <2>4, <2>5
<1>9. CASE Scalars!Return
  <2>1. at' = "done" /\ compared = Scalars!UpperSize /\ UNCHANGED <<compared, matches>>
    BY <1>9 DEF Scalars!Return
  <2> QED
    BY <1>1, <1>2, <1>4, <1>5, <2>1 DEF ScalarsInv
<1>10. CASE Scalars!Finished \/ UNCHANGED Scalars!vars
  <2>1. UNCHANGED <<at, compared, matches>>
    BY <1>10 DEF Scalars!Finished, Scalars!vars
  <2> QED
    BY <1>1, <1>2, <1>4, <1>5, <2>1 DEF ScalarsInv
<1> QED
  BY <1>7, <1>8, <1>9, <1>10 DEF Scalars!Next

LEMMA PairFits ==
    ASSUME type \in FloatTypes, type # Exact, NEW x, NEW y,
           x \in Scalars!Special \/ Scalars!IsFinite(type, x),
           y \in Scalars!Special \/ Scalars!IsFinite(type, y)
    PROVE  /\ Scalars!Matches(x, y) =>
                 \/ {x, y} \subseteq Scalars!Infinities
                 \/ /\ {x, y} \cap Scalars!Special = {}
                    /\ Scalars!NearlyWithin(x, y)
                    /\ 0 \in {x, y} \/ Scalars!BelowPrecision => x = y
           /\ {x, y} \cap Scalars!Special = {} /\ Scalars!Within(x, y) => Scalars!Matches(x, y)
<1> DEFINE finite == {x, y} \cap Scalars!Special = {}
<1> DEFINE d == Scalars!fabs(x - y)
<1> DEFINE l == Scalars!Scale(x, y)
<1> DEFINE P == Scalars!Power[type.bits]
<1> DEFINE fits == Scalars!RoundedTo(type, d, 1) <= Scalars!RoundedTo(type, type.tol * l, type.over)
<1>1. /\ Scalars!Matches(x, y) => {x, y} = Scalars!Infinities \/ (finite /\ fits)
      /\ finite /\ fits => Scalars!Matches(x, y)
  BY DEF Scalars!Matches
<1>2. ASSUME finite
      PROVE  /\ fits => Scalars!NearlyWithin(x, y) /\ (0 \in {x, y} \/ Scalars!BelowPrecision => x = y)
             /\ Scalars!Within(x, y) => fits
  <2> DEFINE a == Scalars!fabs(x)
  <2> DEFINE b == Scalars!fabs(y)
  <2>1. Scalars!IsFinite(type, x) /\ Scalars!IsFinite(type, y)
    BY <1>2
  <2>2. /\ fits => /\ 2 * (type.over * ((P - 1) * d)) <= 2 * ((type.tol * l) * (P + 1)) + type.over * P
                   /\ l = 0 => d = 0
                   /\ 2 * (type.tol * P) <= type.over => d = 0
        /\ type.over * d <= type.tol * l => fits
    BY <2>1, DifferenceFits
  <2>3. x \in Int /\ y \in Int /\ x - y \in Int
    <3>1. x \in Int /\ y \in Int
      BY <2>1, FloatIs
    <3> QED
      BY <3>1
  <2>4. /\ a \in Nat /\ b \in Nat /\ d \in Nat /\ d \in {x - y, -(x - y)}
        /\ l \in {a, b} /\ l \in Nat /\ l <= a /\ l <= b
    BY <2>3, Absolute, ScaleIs
  <2>5. x = 0 => a = 0
    BY DEF Scalars!fabs
  <2>6. y = 0 => b = 0
    BY DEF Scalars!fabs
  <2>7. type.tol \in Nat /\ type.over \in Nat \ {0} /\ P \in Nat /\ P >= 2
    BY FloatTypeIs
  <2>8. /\ Scalars!NearlyWithin(x, y) <=>
             /\ 2 * (type.over * ((P - 1) * d)) <= 2 * ((type.tol * a) * (P + 1)) + type.over * P
             /\ 2 * (type.over * ((P - 1) * d)) <= 2 * ((type.tol * b) * (P + 1)) + type.over * P
        /\ Scalars!Within(x, y) <=>
             type.over * d <= type.tol * a /\ type.over * d <= type.tol * b
        /\ Scalars!BelowPrecision <=> 2 * (type.tol * P) <= type.over
    BY DEF Scalars!NearlyWithin, Scalars!Within, Scalars!BelowPrecision
  <2> HIDE DEF d, l, P, fits, a, b
  <2>9. ASSUME NEW c \in Nat, l <= c
        PROVE  (type.tol * l) * (P + 1) <= (type.tol * c) * (P + 1)
    <3>1. type.tol * l <= type.tol * c /\ type.tol * l \in Nat /\ type.tol * c \in Nat
      BY <2>4, <2>7, <2>9, Products
    <3>2. (P + 1) * (type.tol * l) <= (P + 1) * (type.tol * c)
      BY <2>7, <3>1, Products
    <3> QED
      BY <2>7, <3>1, <3>2, Regrouped
  <2>10. /\ 2 * (type.over * ((P - 1) * d)) \in Int /\ type.over * P \in Int
         /\ \A c \in Nat : (type.tol * c) * (P + 1) \in Int
    BY <2>4, <2>7
  <2>11. fits => Scalars!NearlyWithin(x, y)
    BY <2>2, <2>4, <2>8, <2>9, <2>10
  <2>12. d = 0 => x = y
    BY <2>3, <2>4
  <2>13. 0 \in {x, y} => l = 0
    BY <2>4, <2>5, <2>6
  <2>14. Scalars!Within(x, y) => fits
    BY <2>2, <2>4, <2>8
  <2> QED
    BY <2>2, <2>8, <2>11, <2>12, <2>13, <2>14
<1>3. {x, y} = Scalars!Infinities => {x, y} \subseteq Scalars!Infinities
  OBVIOUS
<1> HIDE DEF finite, fits
<1>4. Scalars!Matches(x, y) =>
          \/ {x, y} \subseteq Scalars!Infinities
          \/ finite /\ Scalars!NearlyWithin(x, y) /\ (0 \in {x, y} \/ Scalars!BelowPrecision => x = y)
  BY <1>1, <1>2, <1>3
<1>5. finite /\ Scalars!Within(x, y) => Scalars!Matches(x, y)
  BY <1>1, <1>2
<1> QED
  BY <1>4, <1>5 DEF finite

\* Once everything is compared, the invariant is what the property says.
LEMMA ScalarsRight == ASSUME ScalarsInv PROVE Scalars!MatchIsWithinTolerance
<1> SUFFICES ASSUME at = "done" PROVE Scalars!MatchIsWithinTolerance
  BY DEF Scalars!MatchIsWithinTolerance
<1> DEFINE low == Scalars!LowerSize
<1>1. /\ type \in {Exact} \cup FloatTypes /\ expected \in Vectors[type] /\ actual \in Vectors[type]
      /\ compared = Scalars!UpperSize /\ matches \in BOOLEAN
      /\ matches <=> \A m \in 1..Scalars!UpperSize : m <= low /\ Scalars!Matches(expected[m], actual[m])
  BY DEF ScalarsInv
<1>2. /\ expected \in Seq(Int \cup Scalars!Special) /\ actual \in Seq(Int \cup Scalars!Special)
      /\ low \in {Len(expected), Len(actual)} /\ Scalars!UpperSize \in {Len(expected), Len(actual)}
      /\ low \in Nat /\ Scalars!UpperSize \in Nat
      /\ low <= Len(expected) /\ low <= Len(actual)
      /\ Scalars!UpperSize >= Len(expected) /\ Scalars!UpperSize >= Len(actual)
  BY <1>1, SizesAre
<1>3. Len(expected) \in Nat /\ Len(actual) \in Nat
  BY <1>2
<1> HIDE DEF low
<1>4. matches <=> Len(expected) = Len(actual) /\ \A m \in 1..low : Scalars!Matches(expected[m], actual[m])
  <2>1. CASE Len(expected) = Len(actual)
    <3>1. Scalars!UpperSize = low /\ \A m \in 1..low : m <= low
      BY <1>2, <1>3, <2>1
    <3> QED
      BY <1>1, <2>1, <3>1
  <2>2. CASE Len(expected) # Len(actual)
    <3>1. low < Scalars!UpperSize
      BY <1>2, <1>3, <2>2
    <3>2. Scalars!UpperSize \in 1..Scalars!UpperSize /\ ~(Scalars!UpperSize <= low)
      BY <1>2, <3>1
    <3> QED
      BY <1>1, <2>2, <3>2
  <2> QED
    BY <2>1, <2>2
<1>5. CASE type = Exact
  <2>1. \A x, y : Scalars!Matches(x, y) <=> x = y
    BY <1>5 DEF Scalars!Matches
  <2>2. matches <=> expected = actual
    <3>1. ASSUME expected = actual PROVE matches
      BY <1>4, <2>1, <3>1
    <3>2. ASSUME matches PROVE expected = actual
      <4>1. Len(expected) = Len(actual) /\ \A m \in 1..Len(expected) : expected[m] = actual[m]
        BY <1>2, <1>4, <2>1, <3>2
      <4> QED
        BY <1>2, <4>1
    <3> QED
      BY <3>1, <3>2
  <2> QED
    BY <1>1, <1>5, <2>2 DEF Scalars!MatchIsWithinTolerance
<1>6. CASE type # Exact
  <2>1. type \in FloatTypes
    BY <1>1, <1>6
  <2>2. ASSUME NEW m \in 1..low
        PROVE  /\ expected[m] \in Scalars!Special \/ Scalars!IsFinite(type, expected[m])
               /\ actual[m] \in Scalars!Special \/ Scalars!IsFinite(type, actual[m])
    <3>1. m \in DOMAIN expected /\ m \in DOMAIN actual
      BY <1>2, <1>3
    <3>2. \A v \in Vectors[type] : \A j \in DOMAIN v :
            v[j] \in Scalars!Special \/ Scalars!IsFinite(type, v[j])
      BY <2>1, InputsAssumption DEF Scalars!InputsOK
    <3> QED
      BY <1>1, <3>1, <3>2
  <2> DEFINE pairs == { <<expected[m], actual[m]>> : m \in 1..Scalars!LowerSize }
  <2> DEFINE good(p) ==
        \/ {p[1], p[2]} \subseteq Scalars!Infinities
        \/ /\ {p[1], p[2]} \cap Scalars!Special = {}
           /\ Scalars!NearlyWithin(p[1], p[2])
           /\ 0 \in {p[1], p[2]} \/ Scalars!BelowPrecision => p[1] = p[2]
  <2> DEFINE finite(p) == {p[1], p[2]} \cap Scalars!Special = {}
  <2> DEFINE near(p) == finite(p) /\ Scalars!Within(p[1], p[2])
  <2>3. \A m \in 1..low : Scalars!Matches(expected[m], actual[m]) => good(<<expected[m], actual[m]>>)
    BY <1>6, <2>1, <2>2, PairFits
  <2>4. \A m \in 1..low : near(<<expected[m], actual[m]>>) => Scalars!Matches(expected[m], actual[m])
    BY <1>6, <2>1, <2>2, PairFits
  <2>5. (matches =>
            Len(expected) = Len(actual) /\ \A p \in pairs : good(p))
        /\ (Len(expected) = Len(actual) /\ (\A p \in pairs : near(p)) => matches)
    <3> HIDE DEF good, near
    <3>1. ASSUME matches PROVE Len(expected) = Len(actual) /\ \A p \in pairs : good(p)
      BY <1>4, <2>3, <3>1 DEF low
    <3>2. ASSUME Len(expected) = Len(actual), \A p \in pairs : near(p) PROVE matches
      <4>1. \A m \in 1..low : <<expected[m], actual[m]>> \in pairs
        BY DEF low
      <4> HIDE DEF pairs
      <4> QED
        BY <1>4, <2>4, <3>2, <4>1
    <3> QED
      BY <3>1, <3>2
  <2> QED
    BY <1>6, <2>5 DEF Scalars!MatchIsWithinTolerance
<1> QED
  BY <1>5, <1>6

----------------------------------------------------------------------------
\* ToNumber.  What the fold of the digits computes is a number; which one does
\* not matter, the reader's fold being the same.

LEMMA GreatestIs ==
    ASSUME NEW n \in Nat, NEW s \in SUBSET (1..n), s # {}
    PROVE  Number!Max(s) \in s /\ \A y \in s : Number!Max(s) >= y
<1> DEFINE T == { m \in Nat : \A u \in SUBSET (1..m) : u # {} => \E x \in u : \A y \in u : x >= y }
<1>1. 0 \in T
  <2>1. \A u \in SUBSET (1..0) : u = {}
    OBVIOUS
  <2> QED
    BY <2>1
<1>2. ASSUME NEW m \in Nat, m \in T PROVE m + 1 \in T
  <2> SUFFICES ASSUME NEW u \in SUBSET (1..(m + 1)), u # {} PROVE \E x \in u : \A y \in u : x >= y
    OBVIOUS
  <2>1. CASE m + 1 \in u
    <3>1. \A y \in u : m + 1 >= y
      OBVIOUS
    <3> QED
      BY <2>1, <3>1
  <2>2. CASE m + 1 \notin u
    <3>1. u \in SUBSET (1..m)
      BY <2>2
    <3> QED
      BY <1>2, <3>1
  <2> QED
    BY <2>1, <2>2
<1> HIDE DEF T
<1>3. Nat \subseteq T
  BY <1>1, <1>2, Induction
<1>4. \E x \in s : \A y \in s : x >= y
  BY <1>3 DEF T
<1> QED
  BY <1>4 DEF Number!Max

\* The fold over the first places: some function does what it says.
Folded(b, q, n, g) ==
    /\ g \in [SUBSET (1..n) -> Nat]
    /\ \A s \in SUBSET (1..n) :
          g[s] = IF s = {} THEN 0 ELSE b * g[s \ {Number!Max(s)}] + q[Number!Max(s)]

LEMMA FoldsExist ==
    ASSUME NEW b \in Nat, NEW q \in Seq(Nat)
    PROVE  \A n \in 0..Len(q) : \E g : Folded(b, q, n, g)
<1> DEFINE T == { n \in Nat : n <= Len(q) => \E g : Folded(b, q, n, g) }
<1>1. 0 \in T
  <2> DEFINE g == [s \in SUBSET (1..0) |-> 0]
  <2>1. \A s \in SUBSET (1..0) : s = {}
    OBVIOUS
  <2>2. Folded(b, q, 0, g)
    BY <2>1 DEF Folded
  <2> QED
    BY <2>2
<1>2. ASSUME NEW n \in Nat, n \in T PROVE n + 1 \in T
  <2> SUFFICES ASSUME n + 1 <= Len(q) PROVE \E g : Folded(b, q, n + 1, g)
    OBVIOUS
  <2>1. PICK h : Folded(b, q, n, h)
    BY <1>2
  <2> DEFINE top == n + 1
  <2> DEFINE g == [s \in SUBSET (1..top) |-> IF top \in s THEN b * h[s \ {top}] + q[top] ELSE h[s]]
  <2>2. q[top] \in Nat /\ top \in Nat
    OBVIOUS
  <2>3. \A s \in SUBSET (1..top) : /\ s \ {top} \in SUBSET (1..n)
                                   /\ top \notin s => s \in SUBSET (1..n) /\ s \ {top} = s
    OBVIOUS
  <2>4. \A s \in SUBSET (1..n) : h[s] \in Nat
    BY <2>1 DEF Folded
  <2>5. ASSUME NEW s \in SUBSET (1..top) PROVE g[s] \in Nat
    <3>1. b * h[s \ {top}] + q[top] \in Nat
      <4>1. h[s \ {top}] \in Nat
        BY <2>3, <2>4
      <4>2. \A x, y \in Nat : b * x + y \in Nat
        OBVIOUS
      <4> HIDE DEF top
      <4> QED
        BY <2>2, <4>1, <4>2
    <3>2. top \notin s => h[s] \in Nat
      BY <2>3, <2>4
    <3> QED
      BY <3>1, <3>2
  <2>6. ASSUME NEW s \in SUBSET (1..top), s # {}
        PROVE  g[s] = b * g[s \ {Number!Max(s)}] + q[Number!Max(s)]
    <3> DEFINE m == Number!Max(s)
    <3>1. m \in s /\ \A y \in s : m >= y
      BY <2>2, <2>6, GreatestIs
    <3> HIDE DEF m
    <3>2. CASE top \in s
      <4>1. m = top
        BY <3>1, <3>2
      <4>2. s \ {top} \in SUBSET (1..top) /\ top \notin s \ {top}
        OBVIOUS
      <4>3. g[s \ {top}] = h[s \ {top}] /\ g[s] = b * h[s \ {top}] + q[top]
        BY <3>2, <4>2
      <4> QED
        BY <4>1, <4>3 DEF m
    <3>3. CASE top \notin s
      <4>1. s \ {m} \in SUBSET (1..top) /\ top \notin s \ {m} /\ s \in SUBSET (1..n)
        BY <2>3, <3>3
      <4>2. g[s \ {m}] = h[s \ {m}] /\ g[s] = h[s]
        BY <3>3, <4>1
      <4>3. h[s] = b * h[s \ {m}] + q[m]
        BY <2>1, <2>6, <4>1 DEF Folded, m
      <4> QED
        BY <4>2, <4>3 DEF m
    <3> QED
      BY <3>2, <3>3
  <2>7. g[{}] = 0
    <3>1. {} \in SUBSET (1..top) /\ {} \in SUBSET (1..n) /\ top \notin {}
      OBVIOUS
    <3>2. h[{}] = 0
      BY <2>1, <3>1 DEF Folded
    <3> QED
      BY <3>1, <3>2
  <2>8. g \in [SUBSET (1..top) -> Nat]
    <3>1. g = [s \in SUBSET (1..top) |-> g[s]]
      OBVIOUS
    <3> HIDE DEF g
    <3> QED
      BY <2>5, <3>1
  <2> HIDE DEF g
  <2>9. Folded(b, q, top, g)
    BY <2>6, <2>7, <2>8 DEF Folded
  <2> QED
    BY <2>9
<1> HIDE DEF T
<1>3. Nat \subseteq T
  BY <1>1, <1>2, Induction
<1> QED
  BY <1>3 DEF T

LEMMA NumberIsNat ==
    ASSUME NEW b \in Nat, NEW q \in Seq(Nat) PROVE Number!NumberOf(b, q) \in Nat
<1> DEFINE n == Len(q)
<1> DEFINE next(g, s) == IF s = {} THEN 0 ELSE b * g[s \ {Number!Max(s)}] + q[Number!Max(s)]
<1> DEFINE Is(g) == g = [s \in SUBSET (1..n) |-> next(g, s)]
<1> DEFINE iter == CHOOSE g : Is(g)
<1>1. n \in Nat /\ DOMAIN q = 1..n
  OBVIOUS
<1>2. Number!NumberOf(b, q) = iter[1..n]
  BY <1>1 DEF Number!NumberOf, Number!FoldLeft, Number!MapThenFoldSet
<1>3. \E g : Is(g)
  <2>1. PICK g : Folded(b, q, n, g)
    <3>1. n \in 0..Len(q)
      BY <1>1
    <3> QED
      BY <3>1, FoldsExist
  <2>2. \A s \in SUBSET (1..n) : g[s] = next(g, s)
    BY <2>1 DEF Folded
  <2>3. g = [s \in SUBSET (1..n) |-> g[s]]
    BY <2>1 DEF Folded
  <2> HIDE DEF next
  <2>4. Is(g)
    BY <2>2, <2>3
  <2> QED
    BY <2>4
<1>4. Is(iter)
  <2> HIDE DEF Is
  <2> QED
    BY <1>3
<1> HIDE DEF iter
<1>5. \A s \in SUBSET (1..n) : iter[s] = next(iter, s)
  <2> DEFINE v(s) == next(iter, s)
  <2>1. iter = [s \in SUBSET (1..n) |-> v(s)]
    BY <1>4
  <2> HIDE DEF v
  <2>2. \A s \in SUBSET (1..n) : iter[s] = v(s)
    BY <2>1
  <2> QED
    BY <2>2 DEF v
<1> DEFINE T == { m \in Nat : m <= n => \A s \in SUBSET (1..m) : iter[s] \in Nat }
<1> HIDE DEF Is
<1>6. 0 \in T
  <2>1. {} \in SUBSET (1..n) /\ \A s \in SUBSET (1..0) : s = {}
    OBVIOUS
  <2>2. iter[{}] = 0
    BY <1>5, <2>1
  <2> HIDE DEF next
  <2>3. \A s : s = {} => iter[s] \in Nat
    BY <2>2
  <2>4. \A s \in SUBSET (1..0) : iter[s] \in Nat
    BY <2>1, <2>3
  <2> QED
    BY <2>4
<1>7. ASSUME NEW m \in Nat, m \in T PROVE m + 1 \in T
  <2> HIDE DEF next
  <2>0. ASSUME m + 1 <= n, NEW s \in SUBSET (1..(m + 1)) PROVE iter[s] \in Nat
    <3>1. s \in SUBSET (1..n) /\ \A u \in SUBSET (1..m) : iter[u] \in Nat
      BY <1>1, <1>7, <2>0
    <3>2. CASE s = {}
      BY <1>5, <3>1, <3>2 DEF next
    <3>3. CASE s # {}
      <4> DEFINE x == Number!Max(s)
      <4>1. x \in s /\ \A y \in s : x >= y
        BY <1>1, <3>1, <3>3, GreatestIs
      <4>2. iter[s] = b * iter[s \ {x}] + q[x]
        BY <1>5, <3>1, <3>3 DEF next
      <4> HIDE DEF x
      <4>3. s \ {x} \in SUBSET (1..m)
        <5> SUFFICES ASSUME NEW y \in s, y # x PROVE y \in 1..m
          OBVIOUS
        <5>1. x \in 1..(m + 1) /\ y \in 1..(m + 1) /\ x >= y
          BY <4>1
        <5> QED
          BY <5>1
      <4>4. q[x] \in Nat
        <5>1. x \in DOMAIN q
          BY <1>1, <3>1, <4>1
        <5> QED
          BY <5>1
      <4>5. \A u, v \in Nat : b * u + v \in Nat
        OBVIOUS
      <4>6. iter[s \ {x}] \in Nat
        BY <3>1, <4>3
      <4> QED
        BY <4>2, <4>4, <4>5, <4>6
    <3> QED
      BY <3>2, <3>3
  <2> QED
    BY <2>0
<1> HIDE DEF T, next
<1>8. Nat \subseteq T
  BY <1>6, <1>7, Induction
<1>9. iter[1..n] \in Nat
  <2>1. n \in T /\ 1..n \in SUBSET (1..n)
    BY <1>1, <1>8
  <2> QED
    BY <1>1, <2>1 DEF T
<1> QED
  BY <1>2, <1>9

\* Words have an even number of values, narrow ones at most half as many.
LEMMA WordsAre ==
    /\ Wide \in Nat /\ Narrow \in Nat
    /\ \E a \in Nat \ {0}, b \in Nat : Narrow = 2 * a /\ Wide = 2 * b /\ Narrow <= b
<1>1. Wide \in Nat /\ Narrow \in { 2 * k : k \in 1..Wide } /\ Wide \in { 2 * k : k \in Narrow..Wide }
  BY InputsAssumption DEF Number!InputsOK
<1>2. PICK a \in 1..Wide : Narrow = 2 * a
  BY <1>1
<1>3. PICK b \in Narrow..Wide : Wide = 2 * b
  BY <1>1
<1>4. a \in Nat \ {0} /\ Narrow \in Nat /\ b \in Nat /\ Narrow <= b
  BY <1>1, <1>2, <1>3
<1> QED
  BY <1>1, <1>2, <1>3, <1>4

\* A decimal numeral, as the solvers print numbers.
Plain == str.prefix = "none" /\ Number!ToSet(str.digits) \subseteq 0..9

\* strtoll and strtoull read all the digits of a decimal numeral.
LEMMA PlainIsRead ==
    ASSUME str \in Numerals, Plain
    PROVE  /\ Number!NoConversion <=> str.digits = <<>>
           /\ Number!Magnitude = Number!NumberOf(10, str.digits)
           /\ Number!Magnitude \in Nat
           /\ Number!Written = IF str.neg THEN -Number!Magnitude ELSE Number!Magnitude
           /\ str.neg \in BOOLEAN
<1>1. str.digits \in Seq(0..15) /\ str.neg \in BOOLEAN
  BY InputsAssumption DEF Number!InputsOK
<1>2. \A k \in DOMAIN str.digits : str.digits[k] \in 0..9
  BY DEF Plain, Number!ToSet
<1>3. Number!Base = 10
  BY Zenon DEF Plain, Number!Base
<1>4. { k \in DOMAIN str.digits : str.digits[k] >= 10 } = {}
  BY <1>2
<1>5. Number!DigitsRead = str.digits
  BY <1>3, <1>4 DEF Number!DigitsRead
<1>6. Number!Magnitude = Number!NumberOf(10, str.digits)
  BY <1>3, <1>5 DEF Number!Magnitude
<1>7. Number!Magnitude \in Nat
  <2>1. str.digits \in Seq(Nat)
    BY <1>1
  <2> QED
    BY <1>6, <2>1, NumberIsNat
<1>8. Number!NoConversion <=> str.digits = <<>>
  BY <1>5 DEF Number!NoConversion, Plain
<1>9. Number!Written = IF str.neg THEN -Number!Magnitude ELSE Number!Magnitude
  BY <1>6 DEF Number!Written
<1> QED
  BY <1>1, <1>6, <1>7, <1>8, <1>9

\* The limits of a signed type of so many values.
LowestSigned(size) == -(size \div 2)

HighestSigned(size) == size \div 2 - 1

\* What has been read of a decimal numeral before the limits of a narrow type
\* are looked at.
Read ==
    /\ str.digits # <<>>
    /\ type.signed =>
          /\ val = Number!Written
          /\ LET size == IF type.native THEN Narrow ELSE Wide
             IN  val \in LowestSigned(size)..HighestSigned(size)
    /\ ~type.signed => Number!Magnitude < Wide /\ val = Number!Written % Wide

NumberInv ==
    /\ type \in Number!Types /\ str \in Numerals
    /\ at \in {"convert", "converted", "done"} \cup Number!Thrown
    /\ Plain /\ at = "converted" => Read
    /\ Number!NumbersAreKept

\* The values that a type has.
LEMMA ValuesAre ==
    ASSUME type \in Number!Types
    PROVE  \A v \in Int : v \in Number!ValuesOf(type) <=>
             IF type.signed
               THEN LowestSigned(Narrow) <= v /\ v <= HighestSigned(Narrow)
               ELSE 0 <= v /\ v < (IF type.native THEN Wide ELSE Narrow)
<1>1. type.signed \in BOOLEAN /\ type.native \in BOOLEAN
  BY DEF Number!Types
<1>2. Wide \in Nat /\ Narrow \in Nat /\ \E a \in Nat : Narrow = 2 * a
  BY WordsAre
<1>3. CASE type.signed
  <2>1. Number!TypeSize(type) = Narrow
    BY <1>3 DEF Number!TypeSize
  <2>2. LowestSigned(Narrow) \in Int /\ HighestSigned(Narrow) \in Int
    BY <1>2 DEF LowestSigned, HighestSigned
  <2>3. Number!ValuesOf(type) = LowestSigned(Narrow)..HighestSigned(Narrow)
    BY <1>1, <1>3, <2>1 DEF Number!ValuesOf, Number!Lowest, Number!Highest, LowestSigned, HighestSigned
  <2> QED
    BY <1>3, <2>2, <2>3
<1>4. CASE ~type.signed
  <2> DEFINE w == IF type.native THEN Wide ELSE Narrow
  <2>1. Number!TypeSize(type) = w /\ w \in Nat
    BY <1>1, <1>2, <1>4 DEF Number!TypeSize
  <2> HIDE DEF w
  <2>2. Number!ValuesOf(type) = 0..(w - 1)
    BY <1>4, <2>1 DEF Number!ValuesOf, Number!Lowest, Number!Highest
  <2>3. \A v \in Int : v \in 0..(w - 1) <=> 0 <= v /\ v < w
    BY <2>1
  <2> QED
    BY <1>4, <2>2, <2>3 DEF w
<1> QED
  BY <1>3, <1>4

\* Negation within an unsigned word.
LEMMA NegativeWraps ==
    ASSUME NEW m \in Nat, NEW w \in Nat, m < w
    PROVE  m % w = m /\ (-m) % w = IF m = 0 THEN 0 ELSE w - m
<1>1. m % w = m
  OBVIOUS
<1>2. PICK x \in Int : x = -m
  OBVIOUS
<1>3. x = 0 - m
  BY <1>2
<1>4. m = 0 => x % w = 0
  BY <1>3
<1>5. m # 0 => x % w = w - m
  BY <1>3
<1>6. (-m) % w = x % w
  BY <1>2
<1> QED
  BY <1>1, <1>4, <1>5, <1>6

\* What to_number may answer for a decimal numeral.
Answers(s, v) ==
    \/ s = "done" /\ v = Number!Written /\ str.digits # <<>>
    \/ s \in Number!Thrown /\ (str.digits = <<>> \/ Number!Written \notin Number!ValuesOf(type))
    \/ /\ s = "done" /\ str.neg /\ ~type.signed /\ v = Number!Written + Wide
       /\ type.native \/ Number!Written < Narrow - Wide

LEMMA KeptIsAnswers ==
    Number!NumbersAreKept <=> (at \in {"done"} \cup Number!Thrown /\ Plain => Answers(at, val))
BY DEF Number!NumbersAreKept, Plain, Answers

\* The number of a decimal numeral against its magnitude.
LEMMA WrittenIs ==
    ASSUME str \in Numerals, Plain
    PROVE  /\ Number!Magnitude \in Nat /\ Number!Written \in Int
           /\ ~str.neg => Number!Written = Number!Magnitude
           /\ str.neg => Number!Written + Number!Magnitude = 0
           /\ Number!Magnitude < Wide =>
                 Number!Written % Wide = IF Number!Written >= 0 THEN Number!Written ELSE Number!Written + Wide
<1> DEFINE m == Number!Magnitude
           v == Number!Written
<1>1. m \in Nat /\ v = (IF str.neg THEN -m ELSE m) /\ str.neg \in BOOLEAN
  BY PlainIsRead
<1> HIDE DEF m, v
<1>2. v \in Int /\ (~str.neg => v = m) /\ (str.neg => v + m = 0)
  <2>1. PICK x \in Int : x = -m /\ x + m = 0
    BY <1>1
  <2> QED
    BY <1>1, <2>1
<1>3. ASSUME m < Wide PROVE v % Wide = IF v >= 0 THEN v ELSE v + Wide
  <2>1. Wide \in Nat
    BY WordsAre
  <2>2. m % Wide = m /\ (-m) % Wide = IF m = 0 THEN 0 ELSE Wide - m
    BY <1>1, <1>3, <2>1, NegativeWraps
  <2>3. CASE ~str.neg
    BY <1>1, <1>2, <2>2, <2>3
  <2>4. CASE str.neg
    <3>1. v % Wide = IF m = 0 THEN 0 ELSE Wide - m
      BY <1>1, <2>2, <2>4
    <3> QED
      BY <1>1, <1>2, <2>1, <2>4, <3>1
  <2> QED
    BY <2>3, <2>4
<1> QED
  BY <1>1, <1>2, <1>3 DEF m, v

LEMMA NumberStart == Number!Init => NumberInv
BY DEF Number!Init, NumberInv, Number!NumbersAreKept, Number!Thrown

LEMMA NumberStep ==
    ASSUME NumberInv, Number!Next \/ UNCHANGED Number!vars
    PROVE  NumberInv'
<1>1. /\ type \in Number!Types /\ str \in Numerals
      /\ at \in {"convert", "converted", "done"} \cup Number!Thrown
      /\ Plain /\ at = "converted" => Read
      /\ at \in {"done"} \cup Number!Thrown /\ Plain => Answers(at, val)
  BY KeptIsAnswers DEF NumberInv
<1>2. UNCHANGED <<type, str>>
  BY DEF Number!Next, Number!ConvertSigned, Number!ConvertUnsigned, Number!CheckLimits,
         Number!ReturnNative, Number!Finished, Number!vars
<1>3. /\ Plain' <=> Plain
      /\ UNCHANGED <<Number!Magnitude, Number!Written>>
      /\ \A s, v : Answers(s, v)' <=> Answers(s, v)
  <2>1. Plain' <=> Plain
    BY <1>2 DEF Plain
  <2>2. UNCHANGED Number!Base
    BY Zenon, <1>2 DEF Number!Base
  <2>3. UNCHANGED Number!DigitsRead
    BY <1>2, <2>2 DEF Number!DigitsRead
  <2>4. UNCHANGED Number!Magnitude
    BY <2>2, <2>3 DEF Number!Magnitude
  <2>5. UNCHANGED Number!Written
    BY <1>2 DEF Number!Written
  <2>6. \A s, v : Answers(s, v)' <=> Answers(s, v)
    BY <1>2, <2>5 DEF Answers
  <2> QED
    BY <2>1, <2>4, <2>5, <2>6
<1>4. (NumberInv' <=> /\ at' \in {"convert", "converted", "done"} \cup Number!Thrown
                      /\ Plain /\ at' = "converted" => Read'
                      /\ at' \in {"done"} \cup Number!Thrown /\ Plain => Answers(at', val'))
  <2>1. Number!NumbersAreKept' <=>
           (at' \in {"done"} \cup Number!Thrown /\ Plain => Answers(at', val'))
    BY <1>2, <1>3 DEF Number!NumbersAreKept, Plain, Answers
  <2> QED
    BY <1>1, <1>2, <1>3, <2>1 DEF NumberInv
<1>5. /\ Wide \in Nat /\ Narrow \in Nat /\ 0 < Narrow /\ Narrow <= Wide
      /\ LowestSigned(Wide) \in Int /\ HighestSigned(Wide) \in Int
      /\ LowestSigned(Narrow) \in Int /\ HighestSigned(Narrow) \in Int
      /\ LowestSigned(Wide) <= LowestSigned(Narrow)
      /\ HighestSigned(Narrow) <= HighestSigned(Wide)
  <2>1. PICK a \in Nat \ {0}, b \in Nat : Narrow = 2 * a /\ Wide = 2 * b /\ Narrow <= b
    BY WordsAre
  <2>2. Narrow \div 2 = a /\ Wide \div 2 = b /\ a <= b
    BY <2>1
  <2>3. \A x, y \in Nat : x <= y => -y <= -x
    OBVIOUS
  <2> QED
    BY WordsAre, <2>1, <2>2, <2>3 DEF LowestSigned, HighestSigned
<1>6. \A v \in Int : v \in Number!ValuesOf(type) <=>
             IF type.signed
               THEN LowestSigned(Narrow) <= v /\ v <= HighestSigned(Narrow)
               ELSE 0 <= v /\ v < (IF type.native THEN Wide ELSE Narrow)
  BY <1>1, ValuesAre
<1>7. type.signed \in BOOLEAN /\ type.native \in BOOLEAN
  BY <1>1 DEF Number!Types
<1>8. CASE Number!ConvertSigned
  <2> DEFINE size == IF type.native THEN Narrow ELSE Wide
             number == IF str.neg THEN -Number!Magnitude ELSE Number!Magnitude
             lowest == LowestSigned(size)
             highest == HighestSigned(size)
  <2>1. /\ type.signed
        /\ IF Number!NoConversion THEN Number!Throw("invalid_argument")
           ELSE IF number \notin lowest..highest THEN Number!Throw("out_of_range")
           ELSE val' = number /\ at' = "converted"
    BY <1>8 DEF Number!ConvertSigned, Number!Lowest, Number!Highest, LowestSigned, HighestSigned
  <2>2. /\ lowest \in Int /\ highest \in Int
        /\ lowest <= LowestSigned(Narrow) /\ HighestSigned(Narrow) <= highest
    BY <1>5, <1>7
  <2>3. Plain => number = Number!Written /\ Number!Written \in Int /\ (Number!NoConversion <=> str.digits = <<>>)
    BY <1>1, PlainIsRead, WrittenIs
  <2> HIDE DEF number, lowest, highest
  <2>4. CASE Number!NoConversion
    BY <1>4, <2>1, <2>3, <2>4 DEF Number!Throw, Number!Thrown, Answers
  <2>5. CASE ~Number!NoConversion /\ number \notin lowest..highest
    <3>1. at' = "out_of_range"
      BY <2>1, <2>5 DEF Number!Throw
    <3>2. Plain => Number!Written \notin Number!ValuesOf(type)
      BY <1>5, <1>6, <2>1, <2>2, <2>3, <2>5
    <3> QED
      BY <1>4, <3>1, <3>2 DEF Number!Thrown, Answers
  <2>6. CASE ~Number!NoConversion /\ number \in lowest..highest
    <3>1. at' = "converted" /\ val' = number
      BY <2>1, <2>6
    <3>2. Plain => Read'
      BY <1>2, <1>3, <2>1, <2>3, <2>6, <3>1 DEF Read, lowest, highest
    <3> QED
      BY <1>4, <3>1, <3>2 DEF Number!Thrown
  <2> QED
    BY <2>4, <2>5, <2>6
<1>9. CASE Number!ConvertUnsigned
  <2> DEFINE number == IF str.neg THEN -Number!Magnitude ELSE Number!Magnitude
  <2>1. /\ ~type.signed
        /\ IF Number!NoConversion THEN Number!Throw("invalid_argument")
           ELSE IF Number!Magnitude > Wide - 1 THEN Number!Throw("out_of_range")
           ELSE val' = number % Wide /\ at' = "converted"
    BY <1>9 DEF Number!ConvertUnsigned, Number!Highest
  <2>2. Plain => /\ number = Number!Written
                 /\ (Number!NoConversion <=> str.digits = <<>>)
                 /\ str.neg \in BOOLEAN
    BY <1>1, PlainIsRead
  <2> HIDE DEF number
  <2>3. CASE Number!NoConversion
    BY <1>4, <2>1, <2>2, <2>3 DEF Number!Throw, Number!Thrown, Answers
  <2>4. CASE ~Number!NoConversion /\ Number!Magnitude > Wide - 1
    <3>1. at' = "out_of_range"
      BY <2>1, <2>4 DEF Number!Throw
    <3>2. Plain => Number!Written \notin Number!ValuesOf(type)
      <4> SUFFICES ASSUME Plain PROVE Number!Written \notin Number!ValuesOf(type)
        OBVIOUS
      <4>1. Number!Magnitude >= Wide /\ Number!Magnitude \in Nat /\ Number!Written \in Int
        BY <1>1, <1>5, <2>4, WrittenIs
      <4>2. Number!Written >= Wide \/ Number!Written < 0
        BY <1>1, <1>5, <2>2, <4>1, WrittenIs
      <4> QED
        BY <1>5, <1>6, <2>1, <4>1, <4>2
    <3> QED
      BY <1>4, <3>1, <3>2 DEF Number!Thrown, Answers
  <2>5. CASE ~Number!NoConversion /\ ~(Number!Magnitude > Wide - 1)
    <3>1. at' = "converted" /\ val' = number % Wide
      BY <2>1, <2>5
    <3>2. Plain => Read'
      <4> SUFFICES ASSUME Plain PROVE Read'
        OBVIOUS
      <4>1. Number!Magnitude < Wide
        BY <1>1, <1>5, <2>5, WrittenIs
      <4> QED
        BY <1>2, <1>3, <2>1, <2>2, <2>5, <3>1, <4>1 DEF Read
    <3> QED
      BY <1>4, <3>1, <3>2 DEF Number!Thrown
  <2> QED
    BY <2>3, <2>4, <2>5
<1>10. ASSUME at = "converted", ~type.signed, Plain
       PROVE  /\ Number!Written \in Int /\ str.digits # <<>> /\ str.neg \in BOOLEAN
              /\ 0 <= val /\ val < Wide
              /\ val = IF Number!Written >= 0 THEN Number!Written ELSE Number!Written + Wide
              /\ Number!Written < 0 => str.neg
  <2>1. Number!Magnitude < Wide /\ val = Number!Written % Wide /\ str.digits # <<>>
    BY <1>1, <1>10 DEF Read
  <2>2. str.neg \in BOOLEAN
    BY <1>1, <1>10, PlainIsRead
  <2>3. /\ Number!Magnitude \in Nat /\ Number!Written \in Int
        /\ ~str.neg => Number!Written = Number!Magnitude
        /\ str.neg => Number!Written + Number!Magnitude = 0
        /\ val = IF Number!Written >= 0 THEN Number!Written ELSE Number!Written + Wide
    BY <1>1, <1>10, <2>1, WrittenIs
  <2> QED
    BY <1>5, <2>1, <2>2, <2>3
<1>11. ASSUME at = "converted", type.signed, Plain
       PROVE  Number!Written \in Int /\ str.digits # <<>> /\ val = Number!Written
  BY <1>1, <1>11, WrittenIs DEF Read
<1>12. CASE Number!CheckLimits
  <2> DEFINE lowest == IF type.signed THEN LowestSigned(Narrow) ELSE 0
             highest == IF type.signed THEN HighestSigned(Narrow) ELSE Narrow - 1
  <2>1. /\ at = "converted" /\ ~type.native /\ val' = val
        /\ at' = IF val < lowest \/ val > highest THEN "overflow_error" ELSE "done"
    BY <1>12 DEF Number!CheckLimits, Number!TooLarge, Number!TypeSize,
                 Number!Lowest, Number!Highest, LowestSigned, HighestSigned
  <2>2. CASE type.signed
    <3>1. lowest = LowestSigned(Narrow) /\ highest = HighestSigned(Narrow)
      BY <2>2
    <3> HIDE DEF lowest, highest
    <3>2. Plain => Answers(at', val')
      <4> SUFFICES ASSUME Plain PROVE Answers(at', val')
        OBVIOUS
      <4>1. Number!Written \in Int /\ str.digits # <<>> /\ val = Number!Written
        BY <1>11, <2>1, <2>2
      <4>2. val < lowest \/ val > highest => Number!Written \notin Number!ValuesOf(type)
        BY <1>5, <1>6, <2>2, <3>1, <4>1
      <4> QED
        BY <2>1, <4>1, <4>2 DEF Answers, Number!Thrown
    <3> QED
      BY <1>4, <2>1, <3>2 DEF Number!Thrown
  <2>3. CASE ~type.signed
    <3>1. lowest = 0 /\ highest = Narrow - 1
      BY <1>5, <1>7, <2>3
    <3> HIDE DEF lowest, highest
    <3>2. Plain => Answers(at', val')
      <4> SUFFICES ASSUME Plain PROVE Answers(at', val')
        OBVIOUS
      <4>1. /\ Number!Written \in Int /\ str.digits # <<>> /\ str.neg \in BOOLEAN
            /\ 0 <= val /\ val < Wide
            /\ val = IF Number!Written >= 0 THEN Number!Written ELSE Number!Written + Wide
            /\ Number!Written < 0 => str.neg
        BY <1>10, <2>1, <2>3
      <4>2. CASE val > Narrow - 1
        <5>1. at' = "overflow_error"
          BY <2>1, <3>1, <4>2
        <5>2. Number!Written \notin Number!ValuesOf(type)
          BY <1>5, <1>6, <2>1, <2>3, <4>1, <4>2
        <5> QED
          BY <5>1, <5>2 DEF Answers, Number!Thrown
      <4>3. CASE ~(val > Narrow - 1)
        <5>1. at' = "done" /\ val' = val
          BY <1>5, <2>1, <3>1, <4>1, <4>3
        <5>2. Number!Written >= 0 \/ (str.neg /\ val = Number!Written + Wide /\ Number!Written < Narrow - Wide)
          BY <1>5, <4>1, <4>3
        <5> QED
          BY <2>3, <4>1, <5>1, <5>2 DEF Answers
      <4> QED
        BY <4>2, <4>3
    <3> QED
      BY <1>4, <2>1, <3>2 DEF Number!Thrown
  <2> QED
    BY <2>2, <2>3
<1>13. CASE Number!ReturnNative
  <2>1. at = "converted" /\ type.native /\ at' = "done" /\ val' = val
    BY <1>13 DEF Number!ReturnNative
  <2>2. Plain => Answers("done", val)
    BY <1>7, <1>10, <1>11, <2>1 DEF Answers
  <2> QED
    BY <1>4, <2>1, <2>2
<1>14. CASE Number!Finished \/ UNCHANGED Number!vars
  <2>1. UNCHANGED <<at, val>>
    BY <1>14 DEF Number!Finished, Number!vars
  <2>2. Read' <=> Read
    BY <1>2, <1>3, <2>1 DEF Read
  <2> QED
    BY <1>1, <1>4, <2>1, <2>2
<1> QED
  BY <1>8, <1>9, <1>12, <1>13, <1>14 DEF Number!Next

HarnessInv ==
    /\ part = "scalars" => ScalarsInv
    /\ part = "number" => NumberInv

LEMMA HarnessInvHolds == HarnessSpec => []HarnessInv
<1>1. HarnessInit => HarnessInv
  BY ScalarsStart, NumberStart DEF HarnessInit, HarnessInv
<1>2. HarnessInv /\ [HarnessNext]_harnessVars => HarnessInv'
  <2> SUFFICES ASSUME HarnessInv, [HarnessNext]_harnessVars PROVE HarnessInv'
    OBVIOUS
  <2>1. UNCHANGED part
    BY DEF HarnessNext, harnessVars
  <2>2. ASSUME part = "scalars" PROVE ScalarsInv'
    <3>1. Scalars!Next \/ UNCHANGED Scalars!vars
      BY <2>2 DEF HarnessNext, harnessVars, scalarsOnly, Scalars!vars
    <3> QED
      BY <2>2, <3>1, ScalarsStep DEF HarnessInv
  <2>3. ASSUME part = "number" PROVE NumberInv'
    <3>1. Number!Next \/ UNCHANGED Number!vars
      BY <2>3 DEF HarnessNext, harnessVars, numberOnly, Number!vars
    <3> QED
      BY <2>3, <3>1, NumberStep DEF HarnessInv
  <2> QED
    BY <2>1, <2>2, <2>3 DEF HarnessInv
<1> QED
  BY <1>1, <1>2, PTL DEF HarnessSpec

\* compare of scalars says that two rows match, lines 76-118 and 133-191 of
\* compare.hh, only when every value is the one expected or as near to it as
\* the tolerance of its type allows, the difference and the product with the
\* tolerance each being rounded to the significand of the type; and it does so
\* whenever all differences are within the tolerance.
THEOREM ScalarsWithinTolerance == HarnessSpec => []MatchIsWithinTolerance
<1>1. HarnessInv => MatchIsWithinTolerance
  BY ScalarsRight DEF HarnessInv, MatchIsWithinTolerance
<1> QED
  BY <1>1, HarnessInvHolds, PTL

\* to_number, lines 325-363 of compare.hh, gives a number as it was written or
\* throws, for words of any size; only a negative number of an unsigned type
\* comes back as another one.
THEOREM NumbersKept == HarnessSpec => []NumbersAreKept
<1>1. HarnessInv => NumbersAreKept
  BY DEF HarnessInv, NumbersAreKept, NumberInv
<1> QED
  BY <1>1, HarnessInvHolds, PTL
============================================================================
