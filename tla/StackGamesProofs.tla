-------------------------- MODULE StackGamesProofs --------------------------
(***************************************************************************)
(* max_equal_height returns the greatest common height, for stacks of any  *)
(* length and any natural heights within the limits of the problem, and    *)
(* max_game_score the greatest number of values that can be taken, for     *)
(* stacks of any length and any limit.                                     *)
(***************************************************************************)
EXTENDS StackGames, Sequences, WellFoundedInduction, TLAPS

\* One program runs, and the other does not take a step.
LEMMA OneRuns ==
    ASSUME [GamesNext]_gamesVars
    PROVE  /\ game' = game
           /\ game = "equal_stacks" => [Equal!Next]_(Equal!vars)
           /\ game = "two_stack_game" => [Game!Next]_(Game!vars)
<1>1. CASE UNCHANGED gamesVars
  BY <1>1 DEF gamesVars, equalOnly, gameOnly, Equal!vars, Game!vars, Game!args
<1>2. CASE GamesNext
  BY <1>2 DEF GamesNext
<1> QED
  BY <1>1, <1>2

\* What InputsAssumption says of the constants of equal_stacks.
LEMMA BlocksAssumed == BlockStacks \subseteq Seq(Nat) /\ EqualWord \in Nat \ {0}
BY GamesAssumption DEF Equal!StacksOK

LEMMA SuffixSumsAssumed ==
    \A s \in BlockStacks :
        /\ SuffixSum[s] \in [0..Len(s) -> Nat]
        /\ SuffixSum[s][Len(s)] = 0
        /\ \A p \in 0..(Len(s) - 1) : SuffixSum[s][p] = s[p + 1] + SuffixSum[s][p + 1]
        /\ \A p, q \in 0..Len(s) : p <= q => SuffixSum[s][q] <= SuffixSum[s][p]
BY GamesAssumption DEF Equal!SuffixSumOK

LEMMA HeightLimits == \A s \in BlockStacks : 3 * SuffixSum[s][0] < EqualWord
BY GamesAssumption DEF Equal!ProblemLimits

\* And of those of two_stack_game.
LEMMA ValuesAssumed ==
    /\ GameValues \subseteq Nat
    /\ MaxSize \in Nat
    /\ GameWord \in Nat \ {0}
    /\ MaxSums \subseteq 0..(GameWord - 1)
BY GamesAssumption DEF Game!TypesOK

LEMMA ScoreLimits == \A m \in MaxSums : \A v \in GameValues : m + v < GameWord
BY GamesAssumption DEF Game!ProblemLimits

----------------------------------------------------------------------------
\* equal_stacks.  The inductive invariant says that each total is what the
\* suffix sums say of its iterator, and that no common height exceeds a total.
\* The second part survives an iteration because a common height is at most
\* the average of the totals, hence at most EstMax, and only totals above
\* EstMax are cut.
\* A stack is empty or has a first element, and its elements are naturals.
LEMMA StackElements ==
    ASSUME NEW s \in BlockStacks
    PROVE  /\ s \in Seq(Nat) /\ Len(s) \in Nat
           /\ \A p \in 0..(Len(s) - 1) : p + 1 \in 1..Len(s) /\ s[p + 1] \in Nat
           /\ s = <<>> <=> Len(s) = 0
BY BlocksAssumed

\* What SuffixSumAssumption says of one stack.
LEMMA SuffixSums ==
    ASSUME NEW s \in BlockStacks
    PROVE  /\ \A p \in 0..Len(s) : SuffixSum[s][p] \in Nat /\ SuffixSum[s][p] <= SuffixSum[s][0]
           /\ SuffixSum[s][Len(s)] = 0
           /\ \A p \in 0..(Len(s) - 1) : SuffixSum[s][p] = s[p + 1] + SuffixSum[s][p + 1]
           /\ \A p, q \in 0..Len(s) : p <= q => SuffixSum[s][q] <= SuffixSum[s][p]
<1>1. Len(s) \in Nat
  BY StackElements
<1>2. \A p \in 0..Len(s) : SuffixSum[s][p] \in Nat
  BY SuffixSumsAssumed
<1>3. \A p \in 0..Len(s) : SuffixSum[s][p] <= SuffixSum[s][0]
  BY <1>1, SuffixSumsAssumed
<1> QED
  BY <1>1, <1>2, <1>3, SuffixSumsAssumed

\* A number below the word is its own remainder.
LEMMA ModBelow ==
    ASSUME NEW m \in Nat, NEW w \in Nat \ {0}, m < w
    PROVE  m % w = m
OBVIOUS

\* The types are preserved; the totals need no more than that the word is not 0.
LEMMA EqualTypesStart == Equal!Init => Equal!TypeOK
<1> SUFFICES ASSUME Equal!Init PROVE Equal!TypeOK
  OBVIOUS
<1>1. \A k \in Equal!Three : stacks[k] \in BlockStacks
  BY DEF Equal!Init
<1>2. \A k \in Equal!Three : top[k] <= Len(stacks[k])
  BY <1>1, StackElements DEF Equal!Init
<1> QED
  BY <1>2 DEF Equal!Init, Equal!TypeOK

LEMMA EqualTypesNext == Equal!TypeOK /\ [Equal!Next]_(Equal!vars) => Equal!TypeOK'
<1> SUFFICES ASSUME Equal!TypeOK, [Equal!Next]_(Equal!vars) PROVE Equal!TypeOK'
  OBVIOUS
<1> USE DEF Equal!TypeOK
<1>0. /\ EqualWord \in Nat \ {0}
      /\ \A k \in Equal!Three : stacks[k] \in BlockStacks /\ Len(stacks[k]) \in Nat
  BY BlocksAssumed, StackElements
<1>1. CASE Equal!ReturnZeroIfEmpty
  BY <1>1 DEF Equal!ReturnZeroIfEmpty
<1>2. CASE Equal!Accumulate
  <2>1. \A k \in Equal!Three : SuffixSum[stacks[k]][0] \in Nat
    BY <1>0, SuffixSums
  <2>2. \A k \in Equal!Three : SuffixSum[stacks[k]][0] % EqualWord \in Nat
    BY <1>0, <2>1
  <2> QED
    BY <1>2, <2>2 DEF Equal!Accumulate
<1>3. CASE Equal!ReturnZeroIfRanOut
  BY <1>3 DEF Equal!ReturnZeroIfRanOut
<1>4. CASE Equal!Trim
  <2>1. \A k \in Equal!Three : top[k] \in Nat /\ top[k] < Len(stacks[k]) /\ total[k] \in Nat
    BY <1>4, <1>0 DEF Equal!Trim, Equal!RanOut
  <2>2. \A k \in Equal!Three : stacks[k][top[k] + 1] \in Nat
    BY <1>0, <2>1, StackElements
  <2>3. \A k \in Equal!Three : (total[k] - stacks[k][top[k] + 1]) % EqualWord \in Nat
    BY <1>0, <2>1, <2>2
  <2>4. \A k \in Equal!Three : total'[k] \in Nat /\ top'[k] \in Nat /\ top'[k] <= Len(stacks[k])
    BY <1>4, <1>0, <2>1, <2>3 DEF Equal!Trim
  <2>5. total' = [k \in Equal!Three |-> total'[k]] /\ top' = [k \in Equal!Three |-> top'[k]]
    BY <1>4 DEF Equal!Trim
  <2> QED
    BY <1>4, <2>4, <2>5 DEF Equal!Trim
<1>5. CASE Equal!ReturnHeight
  BY <1>5 DEF Equal!ReturnHeight, Equal!Three
<1>6. CASE Equal!Finished
  BY <1>6 DEF Equal!Finished, Equal!vars
<1>7. CASE UNCHANGED Equal!vars
  BY <1>7 DEF Equal!vars
<1> QED
  BY <1>1, <1>2, <1>3, <1>4, <1>5, <1>6, <1>7 DEF Equal!Next

----------------------------------------------------------------------------
\* Before the loop the iterators have not moved and there is no answer; the
\* answer is what ResultIsBest says; the rest is what the loop keeps.
EqualInv ==
    /\ Equal!TypeOK
    /\ game_pc = "start" => top = [k \in Equal!Three |-> 0]
    /\ Equal!TotalsFollowTops
    /\ Equal!NeverOvershoots
    /\ Equal!ResultIsBest

\* A common height is one of the suffix sums of each of the stacks.
LEMMA CommonIsSuffixSum ==
    ASSUME NEW h, Equal!Common(h), NEW k \in Equal!Three
    PROVE  \E p \in 0..Len(stacks[k]) : h = SuffixSum[stacks[k]][p]
BY DEF Equal!Common, Equal!Heights

\* The least common height is that of no stack at all.
LEMMA ZeroIsCommon == Equal!TypeOK => Equal!Common(0)
<1> SUFFICES ASSUME Equal!TypeOK, NEW k \in Equal!Three
             PROVE  \E p \in 0..Len(stacks[k]) : 0 = SuffixSum[stacks[k]][p]
  BY DEF Equal!Common, Equal!Heights
<1>1. stacks[k] \in BlockStacks
  BY DEF Equal!TypeOK
<1>2. Len(stacks[k]) \in 0..Len(stacks[k]) /\ SuffixSum[stacks[k]][Len(stacks[k])] = 0
  BY <1>1, StackElements, SuffixSums
<1> QED
  BY <1>2

\* A stack that has run out leaves 0 as the only common height.
LEMMA RunOutMeansZero ==
    ASSUME Equal!TypeOK, NEW k \in Equal!Three, top[k] = Len(stacks[k]),
           total[k] = SuffixSum[stacks[k]][top[k]], NEW h, Equal!Common(h), h <= total[k]
    PROVE  h = 0
<1>1. stacks[k] \in BlockStacks
  BY DEF Equal!TypeOK
<1>2. total[k] = 0
  BY <1>1, SuffixSums
<1>3. h \in Nat
  BY <1>1, CommonIsSuffixSum, SuffixSums
<1> QED
  BY <1>2, <1>3

\* Three numbers below a third of the word add up to less than it.
LEMMA ThirdsAddUp ==
    ASSUME NEW a \in Nat, NEW b \in Nat, NEW c \in Nat, NEW w \in Nat,
           3 * a < w, 3 * b < w, 3 * c < w
    PROVE  a + b + c \in Nat /\ a + b + c < w
OBVIOUS

\* The three totals fit the word, so EstMax is the floor of their average.
LEMMA EstMaxIsFloor ==
    ASSUME Equal!TypeOK, game_pc = "loop", Equal!TotalsFollowTops
    PROVE  /\ \A k \in Equal!Three : total[k] \in Nat /\ 3 * total[k] < EqualWord
           /\ Equal!EstMax = (total[1] + total[2] + total[3]) \div 3
<1>1. \A k \in Equal!Three : total[k] \in Nat /\ 3 * total[k] < EqualWord
  <2> SUFFICES ASSUME NEW k \in Equal!Three PROVE total[k] \in Nat /\ 3 * total[k] < EqualWord
    OBVIOUS
  <2>1. stacks[k] \in BlockStacks /\ top[k] \in 0..Len(stacks[k]) /\ total[k] \in Nat
    BY StackElements DEF Equal!TypeOK
  <2>2. /\ total[k] = SuffixSum[stacks[k]][top[k]]
        /\ SuffixSum[stacks[k]][top[k]] <= SuffixSum[stacks[k]][0]
        /\ SuffixSum[stacks[k]][0] \in Nat
    BY <2>1, SuffixSums, StackElements DEF Equal!TotalsFollowTops
  <2>3. 3 * SuffixSum[stacks[k]][0] < EqualWord
    BY <2>1, HeightLimits
  <2> QED
    BY <2>1, <2>2, <2>3, BlocksAssumed
<1>2. /\ total[1] \in Nat /\ 3 * total[1] < EqualWord
      /\ total[2] \in Nat /\ 3 * total[2] < EqualWord
      /\ total[3] \in Nat /\ 3 * total[3] < EqualWord
  BY <1>1 DEF Equal!Three
<1>3. total[1] + total[2] + total[3] \in Nat /\ total[1] + total[2] + total[3] < EqualWord
  BY <1>2, ThirdsAddUp, BlocksAssumed
<1>4. (total[1] + total[2] + total[3]) % EqualWord = total[1] + total[2] + total[3]
  BY <1>3, BlocksAssumed, ModBelow
<1> QED
  BY <1>1, <1>4 DEF Equal!EstMax

\* An iteration leaves each total at least as great as every common height,
\* and equal to what the suffix sums say of the moved iterator.
LEMMA TrimKeepsCommon ==
    ASSUME EqualInv, Equal!Trim, NEW k \in Equal!Three
    PROVE  /\ total'[k] = SuffixSum[stacks[k]][top'[k]]
           /\ \A h \in Equal!Heights(1) : Equal!Common(h) => h <= total'[k]
<1>1. /\ Equal!TypeOK /\ Equal!TotalsFollowTops /\ Equal!NeverOvershoots /\ game_pc = "loop"
      /\ stacks[k] \in BlockStacks /\ top[k] < Len(stacks[k])
      /\ top[k] \in 0..(Len(stacks[k]) - 1) /\ top[k] + 1 \in 0..Len(stacks[k])
  BY StackElements DEF EqualInv, Equal!TypeOK, Equal!Trim, Equal!RanOut
<1> DEFINE Sum(p) == SuffixSum[stacks[k]][p]
<1>2. /\ total[k] = Sum(top[k])
      /\ Sum(top[k]) = stacks[k][top[k] + 1] + Sum(top[k] + 1)
      /\ Sum(top[k]) \in Nat /\ Sum(top[k] + 1) \in Nat
      /\ stacks[k][top[k] + 1] \in Nat
  <2>1. total[k] = Sum(top[k])
    BY <1>1 DEF Equal!TotalsFollowTops
  <2>2. stacks[k][top[k] + 1] \in Nat /\ top[k] \in 0..Len(stacks[k])
    BY <1>1, StackElements
  <2>3. Sum(top[k]) = stacks[k][top[k] + 1] + Sum(top[k] + 1)
    BY <1>1, SuffixSums
  <2>4. Sum(top[k]) \in Nat /\ Sum(top[k] + 1) \in Nat
    BY <1>1, <2>2, SuffixSums
  <2> QED
    BY <2>1, <2>2, <2>3, <2>4
<1>3. CASE Equal!Above(k)
  <2>1. total'[k] = (total[k] - stacks[k][top[k] + 1]) % EqualWord /\ top'[k] = top[k] + 1
    BY <1>3 DEF Equal!Trim
  <2>2. total[k] - stacks[k][top[k] + 1] = Sum(top[k] + 1) /\ Sum(top[k] + 1) <= total[k]
    BY <1>2
  <2>3. total[k] < EqualWord
    BY <1>1, EstMaxIsFloor, BlocksAssumed
  <2>4. total'[k] = Sum(top'[k])
    BY <1>2, <2>1, <2>2, <2>3, ModBelow, BlocksAssumed
  <2>5. ASSUME NEW h \in Equal!Heights(1), Equal!Common(h)
        PROVE  h <= total'[k]
    <3>1. h \in Nat
      BY <1>1, <2>5, CommonIsSuffixSum, SuffixSums, SMTT(30)
    <3>2. h <= total[1] /\ h <= total[2] /\ h <= total[3]
      BY <1>1, <2>5 DEF Equal!NeverOvershoots, Equal!Three
    <3>3. total[1] \in Nat /\ total[2] \in Nat /\ total[3] \in Nat /\ total[k] \in Nat
      <4>1. Equal!TypeOK
        BY <1>1, Zenon
      <4>2. \A j \in Equal!Three : total[j] \in Nat
        BY <4>1 DEF Equal!TypeOK
      <4>3. 1 \in Equal!Three /\ 2 \in Equal!Three /\ 3 \in Equal!Three
        BY DEF Equal!Three
      <4> QED
        BY <4>2, <4>3
    <3>4. h <= Equal!EstMax
      BY <1>1, <3>1, <3>2, <3>3, EstMaxIsFloor, SMTT(30)
    <3>5. h < total[k]
      BY <1>3, <1>1, <3>1, <3>3, <3>4, EstMaxIsFloor, SMTT(30) DEF Equal!Above
    <3>6. PICK p \in 0..Len(stacks[k]) : h = Sum(p)
      BY <2>5, CommonIsSuffixSum
    <3>7. Sum(p) \in Nat
      BY <3>1, <3>6
    <3>8. ~ (p <= top[k])
      <4> SUFFICES ASSUME p <= top[k] PROVE FALSE
        OBVIOUS
      <4>1. Sum(top[k]) <= Sum(p)
        BY <1>1, SuffixSums, StackElements
      <4> QED
        BY <4>1, <1>2, <3>5, <3>6, <3>7
    <3>9. top[k] + 1 <= p
      BY <3>8, <1>1, StackElements
    <3>10. Sum(p) <= Sum(top[k] + 1)
      BY <1>1, <3>9, SuffixSums
    <3> QED
      BY <2>1, <2>4, <3>6, <3>10
  <2> QED
    BY <2>4, <2>5
<1>4. CASE ~Equal!Above(k)
  <2>1. total'[k] = total[k] /\ top'[k] = top[k]
    BY <1>4 DEF Equal!Trim
  <2> QED
    BY <2>1, <1>1, <1>2 DEF Equal!NeverOvershoots
<1> QED
  BY <1>3, <1>4
\* The answer is the greatest common height on all inputs: the four returns,
\* one by one, and the iterations between them.
LEMMA EqualStarts == Equal!Init => EqualInv
<1> SUFFICES ASSUME Equal!Init PROVE EqualInv
  OBVIOUS
<1>1. \A k \in Equal!Three : stacks[k] \in BlockStacks
  BY DEF Equal!Init
<1>2. \A k \in Equal!Three : top[k] <= Len(stacks[k])
  BY <1>1, StackElements DEF Equal!Init
<1>3. Equal!TypeOK
  BY <1>2 DEF Equal!Init, Equal!TypeOK
<1> QED
  BY <1>3 DEF Equal!Init, EqualInv, Equal!TotalsFollowTops, Equal!NeverOvershoots,
     Equal!ResultIsBest

LEMMA EqualSteps == EqualInv /\ Equal!TypeOK' /\ [Equal!Next]_(Equal!vars) => EqualInv'
<1> SUFFICES ASSUME EqualInv, Equal!TypeOK', [Equal!Next]_(Equal!vars) PROVE EqualInv'
  OBVIOUS
<1>0. /\ Equal!TypeOK /\ EqualWord \in Nat \ {0}
      /\ \A k \in Equal!Three : stacks[k] \in BlockStacks /\ Len(stacks[k]) \in Nat
  BY BlocksAssumed, StackElements DEF EqualInv, Equal!TypeOK
<1>1. CASE Equal!ReturnZeroIfEmpty
  <2>1. PICK k \in Equal!Three : stacks[k] = <<>>
    BY <1>1 DEF Equal!ReturnZeroIfEmpty, Equal!AnyEmpty
  <2>2. Equal!Common(0)
    BY <1>0, ZeroIsCommon
  <2>3. ASSUME NEW h, Equal!Common(h) PROVE h <= 0
    <3>1. Len(stacks[k]) = 0
      BY <1>0, <2>1, StackElements
    <3>2. h = SuffixSum[stacks[k]][0]
      BY <2>3, <3>1, CommonIsSuffixSum
    <3> QED
      BY <1>0, <3>1, <3>2, SuffixSums, SMTT(30)
  <2>4. Equal!ResultIsBest'
    BY <1>1, <2>2, <2>3 DEF Equal!ReturnZeroIfEmpty, Equal!ResultIsBest, Equal!Common,
       Equal!Heights
  <2> QED
    BY <1>1, <2>4 DEF Equal!ReturnZeroIfEmpty, EqualInv, Equal!TotalsFollowTops,
       Equal!NeverOvershoots
<1>2. CASE Equal!Accumulate
  <2>1. ASSUME NEW k \in Equal!Three
        PROVE  /\ total'[k] = SuffixSum[stacks[k]][top[k]]
               /\ \A h : Equal!Common(h) => h <= total'[k]
    <3>1. /\ SuffixSum[stacks[k]][0] \in Nat /\ 3 * SuffixSum[stacks[k]][0] < EqualWord
          /\ top[k] = 0
      BY <1>0, <1>2, SuffixSums, HeightLimits, SMTT(30) DEF Equal!Accumulate, EqualInv
    <3>2. total'[k] = SuffixSum[stacks[k]][0]
      BY <1>0, <1>2, <3>1, ModBelow DEF Equal!Accumulate
    <3>3. ASSUME NEW h, Equal!Common(h) PROVE h <= total'[k]
      BY <1>0, <3>2, <3>3, CommonIsSuffixSum, SuffixSums, SMTT(30)
    <3> QED
      BY <3>1, <3>2, <3>3
  <2>2. Equal!TotalsFollowTops' /\ Equal!NeverOvershoots'
    BY <1>2, <2>1, SMTT(30) DEF Equal!Accumulate, Equal!TotalsFollowTops, Equal!NeverOvershoots,
       Equal!Common, Equal!Heights
  <2> QED
    BY <1>2, <2>2 DEF Equal!Accumulate, EqualInv, Equal!ResultIsBest
<1>3. CASE Equal!ReturnZeroIfRanOut
  <2>1. PICK k \in Equal!Three : top[k] = Len(stacks[k])
    BY <1>3 DEF Equal!ReturnZeroIfRanOut, Equal!RanOut
  <2>2. Equal!Common(0)
    BY <1>0, ZeroIsCommon
  <2>3. /\ total[k] = SuffixSum[stacks[k]][top[k]]
        /\ \A h \in Equal!Heights(1) : Equal!Common(h) => h <= total[k]
    BY <1>3 DEF Equal!ReturnZeroIfRanOut, EqualInv, Equal!TotalsFollowTops,
       Equal!NeverOvershoots
  <2>4. \A h \in Equal!Heights(1) : Equal!Common(h) => h = 0
    BY <1>0, <2>1, <2>3, RunOutMeansZero
  <2>5. Equal!ResultIsBest'
    <3>1. Equal!Heights(1)' = Equal!Heights(1) /\ \A h : Equal!Common(h)' <=> Equal!Common(h)
      BY <1>3 DEF Equal!ReturnZeroIfRanOut, Equal!Common, Equal!Heights
    <3>2. \A h \in Equal!Heights(1) : Equal!Common(h) => h <= 0
      BY <2>4
    <3>3. game_result' = 0
      BY <1>3 DEF Equal!ReturnZeroIfRanOut
    <3> QED
      BY <2>2, <3>1, <3>2, <3>3 DEF Equal!ResultIsBest
  <2> QED
    BY <1>3, <2>5 DEF Equal!ReturnZeroIfRanOut, EqualInv, Equal!TotalsFollowTops,
       Equal!NeverOvershoots
<1>4. CASE Equal!Trim
  <2>1. UNCHANGED stacks /\ game_pc = "loop" /\ game_pc' = "loop"
    BY <1>4 DEF Equal!Trim
  <2>2. Equal!TotalsFollowTops' /\ Equal!NeverOvershoots'
    <3>1. \A h : Equal!Common(h)' <=> Equal!Common(h)
      BY <2>1 DEF Equal!Common, Equal!Heights
    <3>2. Equal!Heights(1)' = Equal!Heights(1)
      BY <2>1 DEF Equal!Heights
    <3>3. \A k \in Equal!Three : total'[k] = SuffixSum[stacks[k]][top'[k]]
      BY <1>4, TrimKeepsCommon
    <3>4. \A k \in Equal!Three : \A h \in Equal!Heights(1) : Equal!Common(h) => h <= total'[k]
      BY <1>4, TrimKeepsCommon
    <3> QED
      BY <2>1, <3>1, <3>2, <3>3, <3>4 DEF Equal!TotalsFollowTops, Equal!NeverOvershoots
  <2> QED
    BY <2>1, <2>2 DEF EqualInv, Equal!ResultIsBest
<1>5. CASE Equal!ReturnHeight
  <2>1. total[2] = total[1] /\ total[3] = total[1] /\ game_pc = "loop"
    BY <1>5 DEF Equal!ReturnHeight, Equal!Unequal
  <2>2. ASSUME NEW k \in Equal!Three
        PROVE  total[1] \in Equal!Heights(k)
    <3>1. top[k] \in 0..Len(stacks[k]) /\ total[k] = SuffixSum[stacks[k]][top[k]]
      BY <1>0, <2>1 DEF Equal!TypeOK, EqualInv, Equal!TotalsFollowTops
    <3>2. total[k] = total[1]
      BY <2>1 DEF Equal!Three
    <3> QED
      BY <3>1, <3>2 DEF Equal!Heights
  <2>3. \A h \in Equal!Heights(1) : Equal!Common(h) => h <= total[1]
    BY <2>1 DEF EqualInv, Equal!NeverOvershoots, Equal!Three
  <2>4. Equal!ResultIsBest'
    BY <1>5, <2>2, <2>3 DEF Equal!ReturnHeight, Equal!ResultIsBest, Equal!Common, Equal!Heights
  <2> QED
    BY <1>5, <2>4 DEF Equal!ReturnHeight, EqualInv, Equal!TotalsFollowTops,
       Equal!NeverOvershoots
<1>6. CASE Equal!Finished \/ UNCHANGED Equal!vars
  <2>1. UNCHANGED <<stacks, total, top, game_pc, game_result>>
    BY <1>6 DEF Equal!Finished, Equal!vars
  <2>2. Equal!TotalsFollowTops' /\ (game_pc = "start" => top = [k \in Equal!Three |-> 0])'
    BY <2>1 DEF EqualInv, Equal!TotalsFollowTops
  <2>3. Equal!Heights(1)' = Equal!Heights(1) /\ \A h : Equal!Common(h)' <=> Equal!Common(h)
    BY <2>1 DEF Equal!Common, Equal!Heights
  <2>4. Equal!NeverOvershoots' /\ Equal!ResultIsBest'
    <3>1. Equal!NeverOvershoots /\ Equal!ResultIsBest
      BY DEF EqualInv
    <3> QED
      BY <2>1, <2>3, <3>1 DEF Equal!NeverOvershoots, Equal!ResultIsBest
  <2> QED
    BY <2>2, <2>4 DEF EqualInv
<1> QED
  BY <1>1, <1>2, <1>3, <1>4, <1>5, <1>6 DEF Equal!Next
\* equal_stacks keeps EqualInv whenever it is the program that runs.
LEMMA EqualKept == GamesSpec => [](game = "equal_stacks" => EqualInv)
<1> DEFINE Inv == game = "equal_stacks" => EqualInv
<1>1. GamesInit => Inv
  BY EqualStarts DEF GamesInit
<1>2. Inv /\ [GamesNext]_gamesVars => Inv'
  <2>1. ASSUME Inv, [GamesNext]_gamesVars, game' = "equal_stacks" PROVE EqualInv'
    <3>1. EqualInv /\ [Equal!Next]_(Equal!vars)
      BY <2>1, OneRuns
    <3>2. Equal!TypeOK'
      BY <3>1, EqualTypesNext DEF EqualInv
    <3> QED
      BY <3>1, <3>2, EqualSteps
  <2> QED
    BY <2>1
<1> QED
  BY <1>1, <1>2, PTL DEF GamesSpec

\* max_equal_height returns the greatest height that all three stacks can be
\* cut down to (equal_stacks.cc 38-76), for stacks of every length.
THEOREM BestHeight == GamesSpec => []HeightIsBest
<1>1. (game = "equal_stacks" => EqualInv) => HeightIsBest
  BY DEF EqualInv, HeightIsBest
<1> QED
  BY <1>1, EqualKept, PTL

\* Cutting the stacks above the average never cuts below a common height, and
\* the wrapped totals are the real ones (equal_stacks.cc 63-72).
THEOREM NoOvershoot ==
    GamesSpec => [](NeverOvershoots /\ (game = "equal_stacks" => Equal!TotalsFollowTops))
<1>1. (game = "equal_stacks" => EqualInv) =>
        NeverOvershoots /\ (game = "equal_stacks" => Equal!TotalsFollowTops)
  BY DEF EqualInv, NeverOvershoots
<1> QED
  BY <1>1, EqualKept, PTL

\* The sum that EstMax divides never wraps (equal_stacks.cc 64-65).
THEOREM SumNeverWraps == GamesSpec => []SumFits
<1>1. EqualInv => Equal!SumFits
  <2> SUFFICES ASSUME EqualInv, game_pc = "loop"
               PROVE  total[1] + total[2] + total[3] < EqualWord
    BY DEF Equal!SumFits
  <2>1. \A k \in Equal!Three : total[k] \in Nat /\ 3 * total[k] < EqualWord
    BY EstMaxIsFloor DEF EqualInv
  <2>2. /\ total[1] \in Nat /\ 3 * total[1] < EqualWord
        /\ total[2] \in Nat /\ 3 * total[2] < EqualWord
        /\ total[3] \in Nat /\ 3 * total[3] < EqualWord
    BY <2>1 DEF Equal!Three
  <2> QED
    BY <2>2, ThirdsAddUp, BlocksAssumed
<1>2. (game = "equal_stacks" => EqualInv) => SumFits
  BY <1>1 DEF SumFits
<1> QED
  BY <1>2, EqualKept, PTL

\* A pass over unequal totals cuts at least one stack, and one that has blocks
\* left: not all totals can be at most the floor of their average unless they
\* are equal (equal_stacks.cc 55-73).
THEOREM PassTrims == GamesSpec => []EachPassTrims
<1>1. EqualInv => Equal!EachPassTrims
  <2> SUFFICES ASSUME EqualInv, game_pc = "loop", Equal!Unequal
               PROVE  \E k \in Equal!Three : Equal!Above(k) /\ total[k] > 0
    BY DEF Equal!EachPassTrims
  <2>1. Equal!TypeOK /\ Equal!TotalsFollowTops
    BY DEF EqualInv
  <2>2. total[1] \in Nat /\ total[2] \in Nat /\ total[3] \in Nat
    BY <2>1, EstMaxIsFloor DEF Equal!Three
  <2>3. Equal!EstMax = (total[1] + total[2] + total[3]) \div 3
    BY <2>1, EstMaxIsFloor
  <2>4. \E k \in Equal!Three : total[k] > Equal!EstMax
    <3>1. SUFFICES ASSUME ~ (total[1] > Equal!EstMax), ~ (total[2] > Equal!EstMax), ~ (total[3] > Equal!EstMax)
                   PROVE  FALSE
      BY DEF Equal!Three
    <3>2. total[1] = total[2] /\ total[2] = total[3]
      BY <2>2, <2>3, <3>1
    <3> QED
      BY <3>2 DEF Equal!Unequal
  <2>5. Equal!EstMax >= 0
    BY <2>2, <2>3
  <2>6. \A k \in Equal!Three : total[k] > Equal!EstMax => total[k] > 0
    BY <2>2, <2>3, <2>5 DEF Equal!Three
  <2> QED
    BY <2>4, <2>6 DEF Equal!Above
<1>2. (game = "equal_stacks" => EqualInv) => EachPassTrims
  BY <1>1 DEF EachPassTrims
<1> QED
  BY <1>2, EqualKept, PTL

----------------------------------------------------------------------------
\* two_stack_game.  A loop that takes values leaves a sum which, but for its
\* last value, respects max_sum (LastStepOnly).  Hence no sum wraps, one
\* retreat is enough, and a pass ends with the most B can give
\* (PassIsMaximal).  What a pass puts back was therefore best used with that
\* much of B (PutBackLosesNothing).
\* A set that holds 0 and with each number below m the next one reaches m.
LEMMA Reaches ==
    ASSUME NEW m \in Nat, NEW T, 0 \in T, \A r \in 0..(m - 1) : r \in T => r + 1 \in T
    PROVE  0..m \subseteq T
<1> SUFFICES ASSUME NEW u \in 0..m, u \notin T PROVE FALSE
  OBVIOUS
<1> DEFINE M == { r \in 0..m : r \notin T }
<1>1. M \subseteq Nat /\ M # {}
  OBVIOUS
<1>2. PICK x \in M : \A y \in M : ~(<<y, x>> \in OpToRel(<, Nat))
  BY <1>1, NatLessThanWellFounded, WFMin
<1>3. x \in Nat /\ x <= m /\ x \notin T /\ x # 0
  <2>1. x \in 0..m /\ x \notin T
    BY <1>2
  <2> QED
    BY <2>1
<1>4. x - 1 \in 0..(m - 1) /\ x - 1 \in 0..m /\ (x - 1) + 1 = x /\ x - 1 \in Nat /\ x - 1 < x
  BY <1>3
<1>5. <<x - 1, x>> \in OpToRel(<, Nat)
  BY <1>3, <1>4 DEF OpToRel
<1>6. x - 1 \in T
  <2>1. x - 1 \notin M
    BY <1>2, <1>5
  <2> QED
    BY <1>4, <2>1
<1> QED
  BY <1>3, <1>4, <1>6

\* h holds the sums of the first values of s, as far as m.
SumsTo(s, m, h) ==
    /\ h \in [0..m -> Nat]
    /\ h[0] = 0
    /\ \A r \in 0..(m - 1) : h[r + 1] = h[r] + s[r + 1]

LEMMA StackIs ==
    ASSUME NEW s \in Game!Stacks
    PROVE  Len(s) \in Nat /\ s \in [1..Len(s) -> GameValues] /\ s \in Seq(Nat)
<1>1. PICK k \in 0..MaxSize : s \in [1..k -> GameValues]
  BY DEF Game!Stacks
<1>2. k \in Nat /\ s \in Seq(GameValues)
  BY <1>1, ValuesAssumed
<1>3. Len(s) = k
  BY <1>1, <1>2
<1>4. \A r \in 1..k : s[r] \in Nat
  BY <1>1, ValuesAssumed
<1>5. s \in Seq(Nat)
  BY <1>1, <1>2, <1>4
<1> QED
  BY <1>1, <1>2, <1>3, <1>5

LEMMA SumsExist ==
    ASSUME NEW s \in Game!Stacks
    PROVE  \E h : SumsTo(s, Len(s), h)
<1> DEFINE T == { m \in 0..Len(s) : \E h : SumsTo(s, m, h) }
<1>1. Len(s) \in Nat /\ \A r \in 0..(Len(s) - 1) : s[r + 1] \in Nat
  BY StackIs
<1>2. 0 \in T
  <2>1. SumsTo(s, 0, [r \in 0..0 |-> 0])
    BY DEF SumsTo
  <2> QED
    BY <1>1, <2>1
<1>3. ASSUME NEW m \in 0..(Len(s) - 1), m \in T PROVE m + 1 \in T
  <2>1. PICK h : SumsTo(s, m, h)
    BY <1>3
  <2> DEFINE g == [r \in 0..(m + 1) |-> IF r = m + 1 THEN h[m] + s[m + 1] ELSE h[r]]
  <2>2. h \in [0..m -> Nat] /\ m \in 0..m /\ h[m] \in Nat /\ s[m + 1] \in Nat /\ m \in Nat
    BY <1>1, <2>1 DEF SumsTo
  <2>3. g \in [0..(m + 1) -> Nat]
    BY <2>2
  <2>4. g[0] = 0
    BY <2>1, <2>2 DEF SumsTo
  <2>5. ASSUME NEW r \in 0..((m + 1) - 1) PROVE g[r + 1] = g[r] + s[r + 1]
    <3>1. r \in 0..m /\ g[r] = h[r] /\ r + 1 \in 0..(m + 1)
      BY <2>2
    <3>2. CASE r = m
      BY <3>1, <3>2
    <3>3. CASE r # m
      <4>1. r \in 0..(m - 1) /\ g[r + 1] = h[r + 1]
        BY <2>2, <3>1, <3>3
      <4> QED
        BY <2>1, <3>1, <4>1 DEF SumsTo
    <3> QED
      BY <3>2, <3>3
  <2> HIDE DEF g
  <2>6. SumsTo(s, m + 1, g)
    BY <2>3, <2>4, <2>5 DEF SumsTo
  <2> QED
    BY <1>1, <2>6
<1> HIDE DEF T
<1>4. 0..Len(s) \subseteq T
  BY <1>1, <1>2, <1>3, Reaches
<1> QED
  BY <1>1, <1>4 DEF T

\* So the recursive definition of PrefixSum has a value.
LEMMA PrefixSumIs ==
    ASSUME NEW s \in Game!Stacks
    PROVE  SumsTo(s, Len(s), Game!PrefixSum[s])
<1> DEFINE next(g, r) == IF r = 0 THEN 0 ELSE g[r - 1] + s[r]
<1> DEFINE Is(g) == g = [r \in 0..Len(s) |-> next(g, r)]
<1>1. Len(s) \in Nat
  BY StackIs
<1>2. Game!PrefixSum[s] = CHOOSE g : Is(g)
  BY DEF Game!PrefixSum
<1>3. PICK h : SumsTo(s, Len(s), h)
  BY SumsExist
<1>4. Is(h)
  <2>1. ASSUME NEW r \in 0..Len(s) PROVE h[r] = next(h, r)
    <3>1. CASE r = 0
      BY <1>3, <3>1 DEF SumsTo
    <3>2. CASE r # 0
      <4>1. r - 1 \in 0..(Len(s) - 1) /\ (r - 1) + 1 = r
        BY <1>1, <3>2
      <4>2. h[(r - 1) + 1] = h[r - 1] + s[(r - 1) + 1]
        BY <1>3, <4>1 DEF SumsTo
      <4> QED
        BY <3>2, <4>1, <4>2
    <3> QED
      BY <3>1, <3>2
  <2>2. h = [r \in 0..Len(s) |-> h[r]]
    BY <1>3 DEF SumsTo
  <2> HIDE DEF next
  <2> QED
    BY <2>1, <2>2
<1> HIDE DEF Is
<1> DEFINE f == Game!PrefixSum[s]
<1>5. Is(f)
  BY <1>2, <1>4
<1> HIDE DEF f
<1>6. DOMAIN f = 0..Len(s) /\ \A r \in 0..Len(s) : f[r] = next(f, r)
  <2> DEFINE v(r) == next(f, r)
  <2>1. f = [r \in 0..Len(s) |-> v(r)]
    BY <1>5 DEF Is
  <2> HIDE DEF v
  <2>2. DOMAIN f = 0..Len(s) /\ \A r \in 0..Len(s) : f[r] = v(r)
    BY <2>1
  <2> QED
    BY <2>2 DEF v
<1>7. f[0] = 0
  BY <1>1, <1>6
<1>8. ASSUME NEW r \in 0..(Len(s) - 1) PROVE f[r + 1] = f[r] + s[r + 1]
  <2>1. r + 1 \in 0..Len(s) /\ r + 1 # 0 /\ (r + 1) - 1 = r
    BY <1>1
  <2> QED
    BY <1>6, <2>1
<1> DEFINE T == { r \in 0..Len(s) : f[r] = h[r] }
<1>9. 0 \in T
  BY <1>1, <1>3, <1>7 DEF SumsTo
<1>10. \A r \in 0..(Len(s) - 1) : r \in T => r + 1 \in T
  BY <1>1, <1>3, <1>8 DEF SumsTo
<1> HIDE DEF T
<1>11. 0..Len(s) \subseteq T
  BY <1>1, <1>9, <1>10, Reaches
<1>12. \A r \in 0..Len(s) : f[r] = h[r]
  BY <1>11 DEF T
<1>13. f = h
  <2>1. f = [r \in 0..Len(s) |-> f[r]]
    <3> DEFINE v(r) == next(f, r)
    <3>1. f = [r \in 0..Len(s) |-> v(r)]
      BY <1>5 DEF Is
    <3> HIDE DEF v
    <3> QED
      BY <3>1
  <2>2. h = [r \in 0..Len(s) |-> h[r]]
    BY <1>3 DEF SumsTo
  <2> QED
    BY <1>12, <2>1, <2>2
<1> QED
  BY <1>3, <1>13 DEF f

\* Sums of naturals only grow.
LEMMA SumsGrow ==
    ASSUME NEW s \in Game!Stacks, NEW q \in 0..Len(s), NEW r \in 0..Len(s), q <= r
    PROVE  Game!PrefixSum[s][q] <= Game!PrefixSum[s][r]
<1> DEFINE T == { k \in 0..(Len(s) - q) : Game!PrefixSum[s][q] <= Game!PrefixSum[s][q + k] }
<1>1. /\ Len(s) \in Nat /\ Len(s) - q \in Nat
      /\ \A k \in 0..(Len(s) - 1) : s[k + 1] \in Nat
  BY StackIs
<1>2. /\ \A k \in 0..Len(s) : Game!PrefixSum[s][k] \in Nat
      /\ \A k \in 0..(Len(s) - 1) : Game!PrefixSum[s][k + 1] = Game!PrefixSum[s][k] + s[k + 1]
  BY PrefixSumIs DEF SumsTo
<1>3. 0 \in T
  BY <1>1, <1>2
<1>4. ASSUME NEW k \in 0..((Len(s) - q) - 1), k \in T PROVE k + 1 \in T
  <2>1. q + k \in 0..(Len(s) - 1) /\ q + (k + 1) = (q + k) + 1 /\ q + k \in 0..Len(s)
    BY <1>1
  <2>2. s[(q + k) + 1] \in Nat /\ Game!PrefixSum[s][(q + k) + 1] = Game!PrefixSum[s][q + k] + s[(q + k) + 1]
    BY <1>1, <1>2, <2>1
  <2> QED
    BY <1>1, <1>2, <1>4, <2>1, <2>2
<1> HIDE DEF T
<1>5. 0..(Len(s) - q) \subseteq T
  BY <1>1, <1>3, <1>4, Reaches
<1>6. r - q \in 0..(Len(s) - q) /\ q + (r - q) = r
  BY <1>1
<1> QED
  BY <1>5, <1>6 DEF T

\* What PrefixSum and ProblemLimits say of one stack.
LEMMA PrefixSums ==
    ASSUME NEW s \in Game!Stacks
    PROVE  /\ Len(s) \in Nat
           /\ \A r \in 0..Len(s) : Game!PrefixSum[s][r] \in Nat
           /\ Game!PrefixSum[s][0] = 0
           /\ \A r \in 0..(Len(s) - 1) :
                 /\ s[r + 1] \in Nat
                 /\ Game!PrefixSum[s][r + 1] = Game!PrefixSum[s][r] + s[r + 1]
                 /\ \A m \in MaxSums : m + s[r + 1] < GameWord
           /\ \A q, r \in 0..Len(s) : q <= r => Game!PrefixSum[s][q] <= Game!PrefixSum[s][r]
<1>1. Len(s) \in Nat /\ \A r \in 0..(Len(s) - 1) : s[r + 1] \in GameValues /\ s[r + 1] \in Nat
  BY StackIs, ValuesAssumed
<1>2. /\ Game!PrefixSum[s] \in [0..Len(s) -> Nat]
      /\ Game!PrefixSum[s][0] = 0
      /\ \A r \in 0..(Len(s) - 1) : Game!PrefixSum[s][r + 1] = Game!PrefixSum[s][r] + s[r + 1]
  BY PrefixSumIs DEF SumsTo
<1>3. \A q, r \in 0..Len(s) : q <= r => Game!PrefixSum[s][q] <= Game!PrefixSum[s][r]
  BY SumsGrow
<1> QED
  BY <1>1, <1>2, <1>3, ScoreLimits

\* A sum that respects a limit m stays within the word when v is added.
LEMMA StepBelow ==
    ASSUME NEW a \in Nat, NEW b \in Nat, NEW c \in Nat, NEW v \in Nat, NEW m \in Nat,
           NEW w \in Nat, a + b <= m, c = b + v, m + v < w
    PROVE  a + c < w
OBVIOUS

\* One of two addends, and a sum with one addend taken away.
LEMMA Below ==
    ASSUME NEW a \in Nat, NEW b \in Nat, NEW c, NEW v \in Nat, NEW m \in Nat,
           NEW w \in Nat, a + b <= m, c = b + v, m < w
    PROVE  c - v = b /\ b < w
OBVIOUS

\* Two addends that shrink.
LEMMA SumShrinks ==
    ASSUME NEW a \in Nat, NEW b \in Nat, NEW c \in Nat, NEW d \in Nat, NEW m \in Nat,
           a <= b, c <= d, b + d <= m
    PROVE  a + c <= m
OBVIOUS

\* An index that has a next one.
LEMMA NextIndex ==
    ASSUME NEW n \in Nat, NEW r \in 0..(n - 1)
    PROVE  r \in 0..n /\ r + 1 \in 0..n /\ (r + 1) - 1 = r
OBVIOUS

\* An index that has one before it.
LEMMA PreviousIndex ==
    ASSUME NEW n \in Nat, NEW r \in 0..n, r # 0
    PROVE  r - 1 \in 0..(n - 1) /\ r - 1 \in 0..n /\ r - 1 \in 0..r /\ (r - 1) + 1 = r
OBVIOUS

----------------------------------------------------------------------------
\* All but the last value taken respect the limit, from A alone or from both.
LastStepOnly ==
    /\ game_pc = "advance_a" => rem_a = 0 \/ Game!PrefixSum[stack_a][rem_a - 1] <= max_sum
    /\ game_pc = "advance_b" => rem_b = 0 \/ Game!Feasible(rem_a, rem_b - 1)

\* What the phases know of the counters.
Phases ==
    /\ game_pc = "advance_a" => rem_b = 0 /\ put_backs = 0 /\ max_rem_a = 0
    /\ game_pc \in {"advance_b", "record"} => /\ put_backs + rem_a = max_rem_a
                                         /\ Game!PrefixSum[stack_a][rem_a] <= max_sum

\* The best so far was really had.
BestWasHad ==
    game_pc \in {"advance_b", "record"} =>
        \E x \in 0..Len(stack_a), y \in 0..Len(stack_b) : Game!Feasible(x, y) /\ max_rem = x + y

GameInv ==
    /\ Game!TypeOK
    /\ Game!SumsFollowCounts
    /\ LastStepOnly
    /\ Phases
    /\ Game!PutBackLosesNothing
    /\ Game!PassIsMaximal
    /\ BestWasHad
    /\ Game!ResultIsBest

\* Sum does not wrap while B advances, nor after it.
LEMMA SumIsExact ==
    ASSUME GameInv, game_pc = "advance_b"
    PROVE  /\ Game!Sum = Game!PrefixSum[stack_a][rem_a] + Game!PrefixSum[stack_b][rem_b]
           /\ a_sum + b_sum \in Nat /\ a_sum + b_sum < GameWord
<1> DEFINE A == Game!PrefixSum[stack_a][rem_a]
           B(r) == Game!PrefixSum[stack_b][r]
<1>1. /\ stack_a \in Game!Stacks /\ stack_b \in Game!Stacks /\ max_sum \in MaxSums
      /\ rem_a \in 0..Len(stack_a) /\ rem_b \in 0..Len(stack_b)
      /\ a_sum = A /\ b_sum = B(rem_b) /\ A <= max_sum
      /\ A \in Nat /\ B(rem_b) \in Nat
  BY PrefixSums DEF GameInv, Game!TypeOK, Game!SumsFollowCounts, Phases
<1>2. max_sum \in Nat /\ max_sum < GameWord /\ GameWord \in Nat \ {0}
  BY <1>1, ValuesAssumed
<1>3. A + B(rem_b) < GameWord
  <2>1. CASE rem_b = 0
    BY <2>1, <1>1, <1>2, PrefixSums
  <2>2. CASE rem_b # 0
    <3>1. rem_b - 1 \in 0..(Len(stack_b) - 1) /\ (rem_b - 1) + 1 = rem_b
      BY <2>2, <1>1, PrefixSums
    <3>2. A + B(rem_b - 1) <= max_sum
      BY <2>2 DEF GameInv, LastStepOnly, Game!Feasible
    <3>3. /\ B(rem_b) = B(rem_b - 1) + stack_b[rem_b]
          /\ max_sum + stack_b[rem_b] < GameWord
          /\ stack_b[rem_b] \in Nat
      BY <1>1, <3>1, PrefixSums
    <3>4. B(rem_b - 1) \in Nat
      BY <1>1, <3>1, PrefixSums
    <3> HIDE DEF A, B
    <3> QED
      BY <1>1, <1>2, <3>2, <3>3, <3>4, StepBelow
  <2> QED
    BY <2>1, <2>2
<1>4. Game!Sum = A + B(rem_b)
  <2>1. A \in Nat /\ B(rem_b) \in Nat /\ GameWord \in Nat \ {0}
    BY <1>1, <1>2, PrefixSums, ValuesAssumed
  <2>2. Game!Sum = (A + B(rem_b)) % GameWord
    BY <1>1 DEF Game!Sum
  <2> HIDE DEF A, B
  <2>3. (A + B(rem_b)) % GameWord = A + B(rem_b)
    BY <1>3, <2>1, ModBelow
  <2> QED
    BY <2>2, <2>3
<1> QED
  BY <1>1, <1>3, <1>4

\* Taking more from one stack never makes an infeasible choice feasible.
LEMMA Monotone ==
    ASSUME stack_a \in Game!Stacks, stack_b \in Game!Stacks, max_sum \in Nat,
           NEW x \in 0..Len(stack_a), NEW y \in 0..Len(stack_b), Game!Feasible(x, y),
           NEW u \in 0..x, NEW v \in 0..y
    PROVE  Game!Feasible(u, v)
<1>1. u \in 0..Len(stack_a) /\ v \in 0..Len(stack_b)
  BY PrefixSums
<1>2. Game!PrefixSum[stack_a][u] <= Game!PrefixSum[stack_a][x]
  BY <1>1, PrefixSums
<1>3. Game!PrefixSum[stack_b][v] <= Game!PrefixSum[stack_b][y]
  BY <1>1, PrefixSums
<1>4. /\ Game!PrefixSum[stack_a][u] \in Nat /\ Game!PrefixSum[stack_a][x] \in Nat
      /\ Game!PrefixSum[stack_b][v] \in Nat /\ Game!PrefixSum[stack_b][y] \in Nat
  BY <1>1, PrefixSums
<1>5. Game!PrefixSum[stack_a][x] + Game!PrefixSum[stack_b][y] <= max_sum
  BY DEF Game!Feasible
<1>6. Game!PrefixSum[stack_a][u] + Game!PrefixSum[stack_b][v] <= max_sum
  BY <1>2, <1>3, <1>4, <1>5, SumShrinks
<1> QED
  BY <1>6 DEF Game!Feasible

\* At the end of a pass nothing that holds rem_a values of A or more beats the
\* better of max_rem and what is held now.
LEMMA PassCovers ==
    ASSUME GameInv, game_pc = "record",
           NEW x \in rem_a..Len(stack_a), NEW y \in 0..Len(stack_b), Game!Feasible(x, y)
    PROVE  x + y <= Game!Best(max_rem, rem_a + rem_b)
<1>1. /\ stack_a \in Game!Stacks /\ stack_b \in Game!Stacks /\ max_sum \in Nat
      /\ rem_a \in 0..Len(stack_a) /\ rem_b \in 0..Len(stack_b) /\ max_rem \in Nat
      /\ Len(stack_a) \in Nat /\ Len(stack_b) \in Nat
  <2>1. /\ stack_a \in Game!Stacks /\ stack_b \in Game!Stacks /\ max_sum \in MaxSums
        /\ rem_a \in 0..Len(stack_a) /\ rem_b \in 0..Len(stack_b) /\ max_rem \in Nat
    BY DEF GameInv, Game!TypeOK
  <2>2. max_sum \in Nat
    BY <2>1, ValuesAssumed
  <2> QED
    BY <2>1, <2>2, PrefixSums
<1>2. CASE x = rem_a
  <2>1. y <= rem_b
    <3> SUFFICES ASSUME rem_b + 1 <= y PROVE FALSE
      BY <1>1
    <3>1. rem_b < Len(stack_b) /\ rem_b + 1 \in 0..y /\ x \in 0..Len(stack_a) /\ x \in 0..x
      BY <1>1, <1>2
    <3>2. Game!Feasible(rem_a, rem_b + 1)
      BY <1>1, <1>2, <3>1, Monotone
    <3> QED
      BY <3>1, <3>2 DEF GameInv, Game!PassIsMaximal
  <2> QED
    BY <1>1, <1>2, <2>1 DEF Game!Best
<1>3. CASE x # rem_a
  <2>1. x \in (rem_a + 1)..Len(stack_a)
    BY <1>1, <1>3
  <2>2. x + y <= max_rem
    BY <2>1 DEF GameInv, Game!PutBackLosesNothing
  <2> QED
    BY <1>1, <2>1, <2>2 DEF Game!Best
<1> QED
  BY <1>2, <1>3
----------------------------------------------------------------------------
\* The inductive invariant holds at the start.
LEMMA GameStarts == Game!Init => GameInv
<1> SUFFICES ASSUME Game!Init PROVE GameInv
  OBVIOUS
<1>1. stack_a \in Game!Stacks /\ stack_b \in Game!Stacks /\ max_sum \in MaxSums
  BY DEF Game!Init
<1>2. 0 \in 0..Len(stack_a) /\ 0 \in 0..Len(stack_b)
  BY <1>1, PrefixSums
<1>3. Game!TypeOK
  BY <1>1, <1>2 DEF Game!Init, Game!TypeOK
<1>4. Game!SumsFollowCounts
  BY <1>1, PrefixSums DEF Game!Init, Game!SumsFollowCounts
<1> QED
  BY <1>3, <1>4 DEF Game!Init, GameInv, LastStepOnly, Phases, Game!PutBackLosesNothing,
     Game!PassIsMaximal,
                    BestWasHad, Game!ResultIsBest

\* Taking a value from A.
LEMMA AdvanceAStep == GameInv /\ Game!AdvanceA => GameInv'
<1> SUFFICES ASSUME GameInv, Game!AdvanceA PROVE GameInv'
  OBVIOUS
<1>1. /\ stack_a \in Game!Stacks /\ max_sum \in MaxSums /\ max_sum \in Nat
      /\ GameWord \in Nat \ {0} /\ rem_a \in 0..(Len(stack_a) - 1)
      /\ a_sum = Game!PrefixSum[stack_a][rem_a] /\ a_sum <= max_sum
  <2>1. /\ stack_a \in Game!Stacks /\ max_sum \in MaxSums /\ rem_a \in 0..Len(stack_a)
        /\ a_sum = Game!PrefixSum[stack_a][rem_a] /\ a_sum <= max_sum
        /\ rem_a < Len(stack_a)
    BY DEF GameInv, Game!TypeOK, Game!AdvanceA, Game!SumsFollowCounts
  <2>2. max_sum \in Nat /\ GameWord \in Nat \ {0}
    BY <2>1, ValuesAssumed
  <2>3. Len(stack_a) \in Nat
    BY <2>1, PrefixSums
  <2>4. rem_a \in 0..(Len(stack_a) - 1)
    BY <2>1, <2>3
  <2> QED
    BY <2>1, <2>2, <2>4
<1>2. /\ Game!PrefixSum[stack_a][rem_a + 1] = a_sum + stack_a[rem_a + 1]
      /\ stack_a[rem_a + 1] \in Nat /\ max_sum + stack_a[rem_a + 1] < GameWord
      /\ a_sum \in Nat
  BY <1>1, PrefixSums DEF GameInv, Game!TypeOK
<1>3. a_sum + stack_a[rem_a + 1] < GameWord
  BY <1>1, <1>2, ValuesAssumed
<1>4. /\ a_sum' = Game!PrefixSum[stack_a][rem_a + 1] /\ a_sum' \in Nat
      /\ rem_a' = rem_a + 1 /\ rem_a' \in 0..Len(stack_a)
  <2>1. a_sum' = (a_sum + stack_a[rem_a + 1]) % GameWord /\ rem_a' = rem_a + 1
    BY DEF Game!AdvanceA
  <2>2. a_sum + stack_a[rem_a + 1] \in Nat
    BY <1>2
  <2>3. (a_sum + stack_a[rem_a + 1]) % GameWord = a_sum + stack_a[rem_a + 1]
    BY <1>1, <1>3, <2>2, ModBelow
  <2>4. Len(stack_a) \in Nat
    BY <1>1, PrefixSums
  <2>5. rem_a + 1 \in 0..Len(stack_a)
    BY <1>1, <2>4, NextIndex
  <2>6. a_sum' = Game!PrefixSum[stack_a][rem_a + 1]
    BY <1>2, <2>1, <2>3, Zenon
  <2>7. a_sum' \in Nat
    BY <2>1, <2>2, <2>3, Zenon
  <2> QED
    BY <2>1, <2>5, <2>6, <2>7, Zenon
<1>5. Game!TypeOK'
  BY <1>4 DEF Game!AdvanceA, GameInv, Game!TypeOK, Game!args
<1>6. Game!SumsFollowCounts'
  BY <1>4 DEF Game!AdvanceA, GameInv, Game!SumsFollowCounts, Game!args
<1>7. LastStepOnly'
  BY <1>1, <1>4 DEF Game!AdvanceA, LastStepOnly, Game!args
<1>8. Phases'
  BY DEF Game!AdvanceA, GameInv, Phases, Game!args
<1> QED
  BY <1>5, <1>6, <1>7, <1>8 DEF Game!AdvanceA, GameInv, Game!PutBackLosesNothing,
     Game!PassIsMaximal,
                                BestWasHad, Game!ResultIsBest

\* Taking a value from B.
LEMMA AdvanceBStep == GameInv /\ Game!AdvanceB => GameInv'
<1> SUFFICES ASSUME GameInv, Game!AdvanceB PROVE GameInv'
  OBVIOUS
<1>1. /\ stack_a \in Game!Stacks /\ stack_b \in Game!Stacks /\ max_sum \in MaxSums
      /\ max_sum \in Nat /\ GameWord \in Nat \ {0}
      /\ rem_a \in 0..Len(stack_a) /\ rem_b \in 0..(Len(stack_b) - 1)
      /\ b_sum = Game!PrefixSum[stack_b][rem_b]
  <2>1. /\ stack_a \in Game!Stacks /\ stack_b \in Game!Stacks /\ max_sum \in MaxSums
        /\ rem_a \in 0..Len(stack_a) /\ rem_b \in 0..Len(stack_b)
        /\ b_sum = Game!PrefixSum[stack_b][rem_b] /\ rem_b < Len(stack_b)
    BY DEF GameInv, Game!TypeOK, Game!AdvanceB, Game!SumsFollowCounts
  <2>2. max_sum \in Nat /\ GameWord \in Nat \ {0}
    BY <2>1, ValuesAssumed
  <2>3. Len(stack_b) \in Nat
    BY <2>1, PrefixSums
  <2>4. rem_b \in 0..(Len(stack_b) - 1)
    BY <2>1, <2>3
  <2> QED
    BY <2>1, <2>2, <2>4
<1>2. Game!Feasible(rem_a, rem_b)
  BY SumIsExact DEF Game!AdvanceB, Game!Feasible
<1>3. /\ Game!PrefixSum[stack_b][rem_b + 1] = b_sum + stack_b[rem_b + 1]
      /\ stack_b[rem_b + 1] \in Nat /\ max_sum + stack_b[rem_b + 1] < GameWord
      /\ b_sum \in Nat /\ Game!PrefixSum[stack_a][rem_a] \in Nat
  <2>1. Game!PrefixSum[stack_a][rem_a] \in Nat
    BY <1>1, PrefixSums
  <2>2. Len(stack_b) \in Nat /\ rem_b \in 0..Len(stack_b)
    BY <1>1, PrefixSums, NextIndex
  <2>3. b_sum \in Nat
    BY <1>1, <2>2, PrefixSums
  <2> QED
    BY <1>1, <2>1, <2>3, PrefixSums
<1>4. b_sum + stack_b[rem_b + 1] < GameWord
  <2>1. Game!PrefixSum[stack_a][rem_a] + b_sum <= max_sum
    BY <1>1, <1>2 DEF Game!Feasible
  <2>2. b_sum <= max_sum
    BY <1>1, <1>3, <2>1, SMTT(30)
  <2> QED
    BY <2>2, <1>1, <1>3
<1>5. /\ b_sum' = Game!PrefixSum[stack_b][rem_b + 1] /\ b_sum' \in Nat
      /\ rem_b' = rem_b + 1 /\ rem_b' \in 0..Len(stack_b) /\ rem_b' - 1 = rem_b
  <2>1. b_sum' = (b_sum + stack_b[rem_b + 1]) % GameWord /\ rem_b' = rem_b + 1
    BY DEF Game!AdvanceB
  <2>2. b_sum + stack_b[rem_b + 1] \in Nat
    BY <1>3
  <2>3. (b_sum + stack_b[rem_b + 1]) % GameWord = b_sum + stack_b[rem_b + 1]
    BY <1>1, <1>4, <2>2, ModBelow
  <2>4. Len(stack_b) \in Nat
    BY <1>1, PrefixSums
  <2>5. rem_b + 1 \in 0..Len(stack_b) /\ (rem_b + 1) - 1 = rem_b
    BY <1>1, <2>4, NextIndex
  <2>6. b_sum' = Game!PrefixSum[stack_b][rem_b + 1]
    BY <1>3, <2>1, <2>3, Zenon
  <2>7. b_sum' \in Nat
    BY <2>1, <2>2, <2>3, Zenon
  <2> QED
    BY <2>1, <2>5, <2>6, <2>7, Zenon
<1>6. Game!TypeOK'
  BY <1>5 DEF Game!AdvanceB, GameInv, Game!TypeOK, Game!args
<1>7. Game!SumsFollowCounts'
  BY <1>5 DEF Game!AdvanceB, GameInv, Game!SumsFollowCounts, Game!args
<1>8. LastStepOnly'
  BY <1>2, <1>5 DEF Game!AdvanceB, LastStepOnly, Game!Feasible, Game!args
<1>9. Phases' /\ Game!PutBackLosesNothing' /\ BestWasHad'
  BY DEF Game!AdvanceB, GameInv, Phases, Game!PutBackLosesNothing, BestWasHad,
     Game!Feasible, Game!args
<1> QED
  BY <1>6, <1>7, <1>8, <1>9 DEF Game!AdvanceB, GameInv, Game!PassIsMaximal, Game!ResultIsBest
\* The end of the loop over A: what was exceeded by one value is given back,
\* so more of A is out of reach.
LEMMA RetreatAStep == GameInv /\ Game!RetreatA => GameInv'
<1> SUFFICES ASSUME GameInv, Game!RetreatA PROVE GameInv'
  OBVIOUS
<1> DEFINE A(r) == Game!PrefixSum[stack_a][r]
<1>1. /\ stack_a \in Game!Stacks /\ stack_b \in Game!Stacks /\ max_sum \in MaxSums
      /\ rem_a \in 0..Len(stack_a) /\ a_sum = A(rem_a)
      /\ rem_b = 0 /\ b_sum = Game!PrefixSum[stack_b][rem_b] /\ game_pc = "advance_a"
  BY DEF GameInv, Game!TypeOK, Game!RetreatA, Game!SumsFollowCounts, Phases
<1>2. /\ max_sum \in Nat /\ max_sum < GameWord /\ GameWord \in Nat \ {0}
      /\ Len(stack_a) \in Nat /\ Len(stack_b) \in Nat /\ Game!PrefixSum[stack_b][0] = 0
      /\ \A r \in 0..Len(stack_a) : A(r) \in Nat
  BY <1>1, PrefixSums, ValuesAssumed
<1>3. /\ rem_a' \in 0..Len(stack_a) /\ a_sum' = A(rem_a') /\ A(rem_a') <= max_sum
      /\ rem_a' = Len(stack_a) \/ (rem_a' < Len(stack_a) /\ ~ (A(rem_a' + 1) <= max_sum))
  <2>1. CASE a_sum > max_sum
    <3>1. rem_a # 0
      BY <2>1, <1>1, <1>2, PrefixSums
    <3>2. /\ rem_a - 1 \in 0..(Len(stack_a) - 1) /\ (rem_a - 1) + 1 = rem_a
          /\ A(rem_a - 1) <= max_sum
      BY <3>1, <1>1, <1>2 DEF GameInv, LastStepOnly
    <3>3. /\ A(rem_a) = A(rem_a - 1) + stack_a[rem_a] /\ stack_a[rem_a] \in Nat
          /\ A(rem_a - 1) \in Nat
      BY <1>1, <1>2, <3>2, PrefixSums
    <3>4. a_sum - stack_a[rem_a] = A(rem_a - 1) /\ A(rem_a - 1) < GameWord
      BY <1>1, <1>2, <3>2, <3>3, SMTT(30)
    <3>5. a_sum' = A(rem_a - 1) /\ rem_a' = rem_a - 1
      <4>1. a_sum' = (a_sum - stack_a[rem_a]) % GameWord /\ rem_a' = rem_a - 1
        BY <2>1, <1>1, <1>2 DEF Game!RetreatA
      <4> HIDE DEF A
      <4>2. A(rem_a - 1) % GameWord = A(rem_a - 1)
        BY <1>2, <3>3, <3>4, ModBelow
      <4> QED
        BY <3>4, <4>1, <4>2
    <3>6. ~ (A(rem_a) <= max_sum)
      BY <2>1, <1>1, <1>2
    <3> QED
      BY <1>1, <1>2, <3>2, <3>5, <3>6
  <2>2. CASE ~ (a_sum > max_sum)
    <3>1. a_sum <= max_sum
      BY <2>2, <1>1, <1>2
    <3>2. a_sum' = a_sum /\ rem_a' = rem_a
      BY <2>2 DEF Game!RetreatA
    <3>3. rem_a = Len(stack_a)
      BY <3>1, <1>1, <1>2 DEF Game!RetreatA
    <3> QED
      BY <1>1, <3>1, <3>2, <3>3
  <2> QED
    BY <2>1, <2>2
<1>4. /\ UNCHANGED <<stack_a, stack_b, max_sum, b_sum, rem_b, put_backs, game_result>>
      /\ max_rem' = rem_a' /\ max_rem_a' = rem_a' /\ game_pc' = "advance_b"
  BY DEF Game!RetreatA, Game!args
<1> DEFINE r == rem_a'
<1>4a. r \in Nat /\ r <= Len(stack_a) /\ r + 0 = r /\ 0 + r = r
  <2> HIDE DEF r, A
  <2>1. r \in 0..Len(stack_a)
    BY <1>3 DEF r
  <2> QED
    BY <2>1, <1>2
<1>5. Game!TypeOK'
  BY <1>1, <1>2, <1>3, <1>4, <1>4a DEF GameInv, Game!TypeOK, Phases
<1>6. Game!SumsFollowCounts' /\ LastStepOnly' /\ Phases'
  <2>1. put_backs' = 0 /\ rem_b' = 0 /\ b_sum' = Game!PrefixSum[stack_b'][rem_b']
    BY <1>1, <1>4 DEF GameInv, Phases
  <2>2. put_backs' + rem_a' = max_rem_a'
    BY <2>1, <1>4, <1>4a
  <2> QED
    BY <1>3, <1>4, <2>1, <2>2 DEF Game!SumsFollowCounts, LastStepOnly, Phases
<1>7. Game!PutBackLosesNothing'
  <2> SUFFICES ASSUME NEW x \in (rem_a' + 1)..Len(stack_a), NEW y \in 0..Len(stack_b),
                      Game!Feasible(x, y)
               PROVE  FALSE
    BY <1>4 DEF Game!PutBackLosesNothing, Game!Feasible
  <2>1. rem_a' < Len(stack_a) /\ rem_a' + 1 \in 0..x /\ x \in 0..Len(stack_a) /\ 0 \in 0..y
    <3>1. x \in (r + 1)..Len(stack_a)
      OBVIOUS
    <3>2. \A u \in (r + 1)..Len(stack_a) :
             r < Len(stack_a) /\ r + 1 \in 0..u /\ u \in 0..Len(stack_a)
      <4> HIDE DEF r, A
      <4> QED
        BY <1>2, <1>4a
    <3>3. 0 \in 0..y
      BY <1>2
    <3> QED
      BY <3>1, <3>2, <3>3
  <2>2. Game!Feasible(rem_a' + 1, 0)
    BY <1>1, <1>2, <2>1, Monotone
  <2>3. A(rem_a' + 1) <= max_sum
    BY <1>2, <2>1, <2>2 DEF Game!Feasible
  <2> QED
    BY <1>2, <1>3, <2>1, <2>3
<1>8. BestWasHad'
  <2>1. 0 \in 0..Len(stack_b) /\ rem_a' = rem_a' + 0
    <3>1. 0 \in 0..Len(stack_b)
      BY <1>2
    <3> QED
      BY <3>1, <1>4a
  <2>2. A(rem_a') + Game!PrefixSum[stack_b][0] <= max_sum
    <3>1. A(rem_a') \in Nat
      BY <1>2, <1>3
    <3> QED
      BY <1>2, <1>3, <3>1
  <2> QED
    BY <1>3, <1>4, <2>1, <2>2 DEF BestWasHad, Game!Feasible
<1> QED
  BY <1>4, <1>5, <1>6, <1>7, <1>8 DEF GameInv, Game!PassIsMaximal, Game!ResultIsBest

\* The end of the loop over B.
LEMMA RetreatBStep == GameInv /\ Game!RetreatB => GameInv'
<1> SUFFICES ASSUME GameInv, Game!RetreatB PROVE GameInv'
  OBVIOUS
<1> DEFINE A == Game!PrefixSum[stack_a][rem_a]
           B(r) == Game!PrefixSum[stack_b][r]
<1>1. /\ stack_a \in Game!Stacks /\ stack_b \in Game!Stacks /\ max_sum \in MaxSums
      /\ rem_a \in 0..Len(stack_a) /\ rem_b \in 0..Len(stack_b) /\ game_pc = "advance_b"
      /\ a_sum = A /\ b_sum = B(rem_b) /\ A <= max_sum /\ Game!Sum = A + B(rem_b)
  BY SumIsExact DEF GameInv, Game!TypeOK, Game!RetreatB, Game!SumsFollowCounts, Phases
<1>2. /\ max_sum \in Nat /\ max_sum < GameWord /\ GameWord \in Nat \ {0}
      /\ Len(stack_a) \in Nat /\ Len(stack_b) \in Nat /\ B(0) = 0 /\ A \in Nat
      /\ \A r \in 0..Len(stack_b) : B(r) \in Nat
  BY <1>1, PrefixSums, ValuesAssumed
<1>3. /\ rem_b' \in 0..Len(stack_b) /\ b_sum' = B(rem_b') /\ A + B(rem_b') <= max_sum
      /\ rem_b' < Len(stack_b) => ~ (A + B(rem_b' + 1) <= max_sum)
  <2>1. CASE Game!Sum > max_sum
    <3>1. rem_b # 0
      <4> HIDE DEF A, B
      <4> QED
        BY <2>1, <1>1, <1>2
    <3>2. /\ rem_b - 1 \in 0..(Len(stack_b) - 1) /\ (rem_b - 1) + 1 = rem_b
          /\ A + B(rem_b - 1) <= max_sum
      <4>1. rem_b - 1 \in 0..(Len(stack_b) - 1) /\ (rem_b - 1) + 1 = rem_b
        BY <3>1, <1>1, <1>2, PreviousIndex
      <4>2. A + B(rem_b - 1) <= max_sum
        BY <3>1, <1>1 DEF GameInv, LastStepOnly, Game!Feasible
      <4> QED
        BY <4>1, <4>2
    <3>3. /\ B(rem_b) = B(rem_b - 1) + stack_b[rem_b] /\ stack_b[rem_b] \in Nat
          /\ B(rem_b - 1) \in Nat
      BY <1>1, <1>2, <3>2, PrefixSums
    <3>4. b_sum - stack_b[rem_b] = B(rem_b - 1) /\ B(rem_b - 1) < GameWord
      <4>1. /\ b_sum = B(rem_b) /\ A \in Nat /\ max_sum \in Nat /\ max_sum < GameWord
            /\ GameWord \in Nat
        BY <1>1, <1>2
      <4> HIDE DEF A, B
      <4> QED
        BY <4>1, <3>2, <3>3, Below, SMTT(30)
    <3>5. b_sum' = B(rem_b - 1) /\ rem_b' = rem_b - 1
      <4>1. b_sum' = (b_sum - stack_b[rem_b]) % GameWord /\ rem_b' = rem_b - 1
        BY <2>1, <1>1, <1>2 DEF Game!RetreatB
      <4> HIDE DEF B
      <4>2. B(rem_b - 1) % GameWord = B(rem_b - 1)
        BY <1>2, <3>3, <3>4, ModBelow
      <4> QED
        BY <3>4, <4>1, <4>2
    <3>6. ~ (A + B(rem_b) <= max_sum)
      <4> HIDE DEF A, B
      <4> QED
        BY <2>1, <1>1, <1>2
    <3>7. rem_b' \in 0..Len(stack_b) /\ rem_b' + 1 = rem_b
      BY <3>1, <3>2, <3>5, <1>1, <1>2, PreviousIndex
    <3>8. b_sum' = B(rem_b') /\ A + B(rem_b') <= max_sum
      BY <3>2, <3>5
    <3>9. ~ (A + B(rem_b' + 1) <= max_sum)
      BY <3>6, <3>7
    <3> QED
      BY <3>7, <3>8, <3>9
  <2>2. CASE ~ (Game!Sum > max_sum)
    <3>1. A + B(rem_b) <= max_sum
      BY <2>2, <1>1, <1>2
    <3>2. b_sum' = b_sum /\ rem_b' = rem_b
      BY <2>2 DEF Game!RetreatB
    <3>3. rem_b = Len(stack_b)
      <4>1. ~ (rem_b < Len(stack_b))
        BY <3>1, <1>1 DEF Game!RetreatB
      <4> QED
        BY <4>1, <1>1, <1>2
    <3>4. ~ (rem_b' < Len(stack_b))
      BY <3>2, <3>3, <1>2
    <3> QED
      BY <1>1, <3>1, <3>2, <3>4
  <2> QED
    BY <2>1, <2>2
<1>4. /\ UNCHANGED <<stack_a, stack_b, max_sum, a_sum, rem_a, max_rem, max_rem_a, put_backs, game_result>>
      /\ game_pc' = "record"
  BY DEF Game!RetreatB, Game!args
<1>5. Game!TypeOK'
  BY <1>2, <1>3, <1>4 DEF GameInv, Game!TypeOK
<1>6. Game!SumsFollowCounts' /\ LastStepOnly' /\ Phases'
  BY <1>1, <1>3, <1>4 DEF GameInv, Game!SumsFollowCounts, LastStepOnly, Phases
<1>7. Game!PutBackLosesNothing' /\ BestWasHad'
  BY <1>1, <1>4 DEF GameInv, Game!PutBackLosesNothing, BestWasHad, Game!Feasible
<1>8. Game!PassIsMaximal'
  BY <1>3, <1>4 DEF Game!PassIsMaximal, Game!Feasible
<1> QED
  BY <1>4, <1>5, <1>6, <1>7, <1>8 DEF GameInv, Game!ResultIsBest

\* Putting a value of A back.
LEMMA PutBackStep == GameInv /\ Game!PutBackA => GameInv'
<1> SUFFICES ASSUME GameInv, Game!PutBackA PROVE GameInv'
  OBVIOUS
<1> DEFINE A(r) == Game!PrefixSum[stack_a][r]
<1>1. /\ stack_a \in Game!Stacks /\ stack_b \in Game!Stacks /\ max_sum \in MaxSums
      /\ rem_a \in 0..Len(stack_a) /\ rem_b \in 0..Len(stack_b) /\ game_pc = "record"
      /\ a_sum = A(rem_a) /\ b_sum = Game!PrefixSum[stack_b][rem_b] /\ A(rem_a) <= max_sum
      /\ put_backs + rem_a = max_rem_a /\ put_backs < max_rem_a /\ put_backs \in Nat /\ max_rem_a \in Nat
      /\ max_rem \in Nat /\ Game!Feasible(rem_a, rem_b)
  BY DEF GameInv, Game!TypeOK, Game!PutBackA, Game!SumsFollowCounts, Phases, Game!PassIsMaximal
<1>2. /\ max_sum \in Nat /\ max_sum < GameWord /\ GameWord \in Nat \ {0}
      /\ Len(stack_a) \in Nat /\ Len(stack_b) \in Nat /\ A(rem_a) \in Nat
  <2>1. max_sum \in Nat /\ max_sum < GameWord /\ GameWord \in Nat \ {0}
    BY <1>1, ValuesAssumed
  <2>2. Len(stack_a) \in Nat /\ A(rem_a) \in Nat
    BY <1>1, PrefixSums
  <2>3. Len(stack_b) \in Nat
    BY <1>1, PrefixSums
  <2> QED
    BY <2>1, <2>2, <2>3
<1>3. rem_a - 1 \in 0..(Len(stack_a) - 1) /\ (rem_a - 1) + 1 = rem_a /\ rem_a - 1 \in 0..rem_a
  <2>1. rem_a # 0
    <3> HIDE DEF A
    <3> QED
      BY <1>1
  <2> QED
    BY <2>1, <1>1, <1>2, PreviousIndex
<1>4. /\ A(rem_a) = A(rem_a - 1) + stack_a[rem_a] /\ stack_a[rem_a] \in Nat
      /\ A(rem_a - 1) \in Nat
  BY <1>1, <1>2, <1>3, PrefixSums
<1>5. /\ a_sum' = A(rem_a - 1) /\ a_sum' \in Nat /\ a_sum' <= max_sum
  <2>1. a_sum - stack_a[rem_a] = A(rem_a - 1) /\ A(rem_a - 1) < GameWord /\ A(rem_a - 1) <= max_sum
    <3> HIDE DEF A
    <3> QED
      BY <1>1, <1>2, <1>4
  <2>2. a_sum' = (a_sum - stack_a[rem_a]) % GameWord
    BY DEF Game!PutBackA
  <2> HIDE DEF A
  <2>3. A(rem_a - 1) % GameWord = A(rem_a - 1)
    BY <2>1, <1>2, <1>4, ModBelow
  <2> QED
    BY <2>1, <2>2, <2>3, <1>4
<1>6. /\ UNCHANGED <<stack_a, stack_b, max_sum, b_sum, rem_b, max_rem_a, game_result>>
      /\ rem_a' = rem_a - 1 /\ put_backs' = put_backs + 1 /\ game_pc' = "advance_b"
      /\ max_rem' = Game!Best(max_rem, rem_a + rem_b)
  BY DEF Game!PutBackA, Game!args
<1>7. max_rem' \in Nat
  BY <1>1, <1>2, <1>6 DEF Game!Best
<1>8. Game!TypeOK'
  BY <1>1, <1>2, <1>3, <1>5, <1>6, <1>7 DEF GameInv, Game!TypeOK
<1>9. Game!SumsFollowCounts' /\ Phases'
  BY <1>1, <1>3, <1>5, <1>6 DEF Game!SumsFollowCounts, Phases
<1>10. LastStepOnly'
  <2> SUFFICES ASSUME rem_b # 0 PROVE Game!Feasible(rem_a - 1, rem_b - 1)
    BY <1>6 DEF LastStepOnly, Game!Feasible
  <2>1. rem_b - 1 \in 0..rem_b
    BY <1>1, <1>2
  <2> QED
    BY <1>1, <1>2, <1>3, <2>1, Monotone
<1>11. Game!PutBackLosesNothing'
  <2> SUFFICES ASSUME NEW x \in ((rem_a - 1) + 1)..Len(stack_a), NEW y \in 0..Len(stack_b),
                      Game!Feasible(x, y)
               PROVE  x + y <= max_rem'
    BY <1>6 DEF Game!PutBackLosesNothing, Game!Feasible
  <2>1. x \in rem_a..Len(stack_a)
    BY <1>3
  <2> QED
    BY <1>1, <1>6, <2>1, PassCovers
<1>12. BestWasHad'
  <2>1. \E x \in 0..Len(stack_a), y \in 0..Len(stack_b) : Game!Feasible(x, y) /\ max_rem' = x + y
    BY <1>1, <1>6 DEF GameInv, BestWasHad, Game!Best
  <2> QED
    BY <1>6, <2>1 DEF BestWasHad, Game!Feasible
<1> QED
  BY <1>6, <1>8, <1>9, <1>10, <1>11, <1>12 DEF GameInv, Game!PassIsMaximal, Game!ResultIsBest

\* The answer.
LEMMA ReturnStep == GameInv /\ Game!Return => GameInv'
<1> SUFFICES ASSUME GameInv, Game!Return PROVE GameInv'
  OBVIOUS
<1>1. /\ stack_a \in Game!Stacks /\ stack_b \in Game!Stacks /\ rem_a \in 0..Len(stack_a)
      /\ rem_b \in 0..Len(stack_b) /\ game_pc = "record" /\ max_rem \in Nat
      /\ rem_a = 0 /\ Game!Feasible(rem_a, rem_b)
      /\ Len(stack_a) \in Nat /\ Len(stack_b) \in Nat
  BY PrefixSums DEF GameInv, Game!TypeOK, Game!Return, Phases, Game!PassIsMaximal
<1>2. /\ UNCHANGED <<stack_a, stack_b, max_sum, a_sum, b_sum, rem_a, rem_b, max_rem, max_rem_a, put_backs>>
      /\ game_pc' = "done" /\ game_result' = Game!Best(max_rem, rem_a + rem_b)
  BY DEF Game!Return, Game!args
<1>3. Game!TypeOK'
  BY <1>1, <1>2 DEF GameInv, Game!TypeOK, Game!Best
<1>4. \A x \in 0..Len(stack_a), y \in 0..Len(stack_b) : Game!Feasible(x, y) => x + y <= game_result'
  BY <1>1, <1>2, PassCovers
<1>5. \E x \in 0..Len(stack_a), y \in 0..Len(stack_b) : Game!Feasible(x, y) /\ game_result' = x + y
  BY <1>1, <1>2 DEF GameInv, BestWasHad, Game!Best
<1>6. Game!ResultIsBest'
  BY <1>2, <1>4, <1>5 DEF Game!ResultIsBest, Game!Feasible
<1>7. Game!SumsFollowCounts'
  BY <1>2 DEF GameInv, Game!SumsFollowCounts
<1> QED
  BY <1>2, <1>3, <1>6, <1>7 DEF GameInv, LastStepOnly, Phases, Game!PutBackLosesNothing,
                                Game!PassIsMaximal, BestWasHad

LEMMA GameSteps == GameInv /\ [Game!Next]_(Game!vars) => GameInv'
<1> SUFFICES ASSUME GameInv, [Game!Next]_(Game!vars) PROVE GameInv'
  OBVIOUS
<1>1. CASE Game!Finished \/ UNCHANGED Game!vars
  BY <1>1 DEF Game!Finished, Game!vars, Game!args, GameInv, Game!TypeOK,
     Game!SumsFollowCounts, LastStepOnly, Phases,
              Game!PutBackLosesNothing, Game!PassIsMaximal, BestWasHad, Game!ResultIsBest, Game!Feasible
<1> QED
  BY <1>1, AdvanceAStep, RetreatAStep, AdvanceBStep, RetreatBStep, PutBackStep, ReturnStep
     DEF Game!Next

\* two_stack_game keeps GameInv whenever it is the program that runs.
LEMMA GameKept == GamesSpec => [](game = "two_stack_game" => GameInv)
<1> DEFINE Inv == game = "two_stack_game" => GameInv
<1>1. GamesInit => Inv
  BY GameStarts DEF GamesInit
<1>2. Inv /\ [GamesNext]_gamesVars => Inv'
  <2>1. ASSUME Inv, [GamesNext]_gamesVars, game' = "two_stack_game" PROVE GameInv'
    <3>1. GameInv /\ [Game!Next]_(Game!vars)
      BY <2>1, OneRuns
    <3> QED
      BY <3>1, GameSteps
  <2> QED
    BY <2>1
<1> QED
  BY <1>1, <1>2, PTL DEF GamesSpec

\* max_game_score returns the greatest number of values that can be taken
\* within the limit (two_stack_game.cc 37-76).
THEOREM BestScore == GamesSpec => []ScoreIsBest
<1>1. (game = "two_stack_game" => GameInv) => ScoreIsBest
  BY DEF GameInv, ScoreIsBest
<1> QED
  BY <1>1, GameKept, PTL

\* The agreement of sums with counts, and the two facts that make one pass per
\* value of A enough (two_stack_game.cc 49-68).
THEOREM ScoreInvariants ==
    GamesSpec => []( /\ SumsFollowCounts
                /\ game = "two_stack_game" =>
                      Game!PutBackLosesNothing /\ Game!PassIsMaximal )
<1> DEFINE Facts == /\ SumsFollowCounts
                    /\ game = "two_stack_game" =>
                          Game!PutBackLosesNothing /\ Game!PassIsMaximal
<1>1. (game = "two_stack_game" => GameInv) => Facts
  BY DEF GameInv, SumsFollowCounts
<1> QED
  BY <1>1, GameKept, PTL

\* The types of both functions, for stacks of any size.
THEOREM TypeCorrect == GamesSpec => []GamesTypeOK
<1> DEFINE Inv == game \in {"equal_stacks", "two_stack_game"}
<1>1. GamesInit => Inv
  BY DEF GamesInit
<1>2. Inv /\ [GamesNext]_gamesVars => Inv'
  BY OneRuns
<1>3. Inv /\ (game = "equal_stacks" => EqualInv) /\ (game = "two_stack_game" => GameInv)
         => GamesTypeOK
  BY DEF EqualInv, GameInv, GamesTypeOK
<1> QED
  BY <1>1, <1>2, <1>3, EqualKept, GameKept, PTL DEF GamesSpec
============================================================================
