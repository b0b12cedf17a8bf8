---------------------------- MODULE TwoStackGame ----------------------------
(***************************************************************************)
(* max_game_score of two_stack_game.cc: how many values can be taken from  *)
(* the tops of two stacks without their sum exceeding max_sum.             *)
(*                                                                         *)
(* As many as possible are taken from A; then the values of A are put back *)
(* one at a time and as many as possible taken from B instead.  Each loop  *)
(* that takes values runs until the sum is too large and then retreats by  *)
(* one.  Sums are unsigned int and wrap at Word.                           *)
(***************************************************************************)
EXTENDS Integers, Sequences

CONSTANTS
    Values,   \* the values a stack may hold
    MaxSize,  \* how many at most
    MaxSums,  \* what max_sum may be
    Word      \* 2^32 on the build's platform

\* What is assumed of the constants, here and in ProblemLimits.
TypesOK ==
    /\ Values \subseteq Nat
    /\ MaxSize \in Nat
    /\ Word \in Nat \ {0}
    /\ MaxSums \subseteq 0..(Word - 1)

\* The vectors a stack may be.
Stacks == UNION { [1..k -> Values] : k \in 0..MaxSize }

\* PrefixSum[s][r]: the sum of the first r values of s.
PrefixSum ==
    [s \in Stacks |->
        LET sum[r \in 0..Len(s)] == IF r = 0 THEN 0 ELSE sum[r - 1] + s[r]
        IN  sum]

\* The sum overshoots max_sum by one value at most, which leaves it within the
\* word for the limits of the problem (a sum of 10^9, values of 10^6).
ProblemLimits == \A m \in MaxSums : \A v \in Values : m + v < Word

VARIABLES
    stack_a, stack_b, max_sum,  \* the arguments
    a_sum, b_sum,               \* what was taken from each stack: its sum
    rem_a, rem_b,               \* and the number of values
    max_rem,                    \* the best so far
    max_rem_a,                  \* passes of the for loop
    i,                          \* passes made
    pc,
    result

args == <<stack_a, stack_b, max_sum>>
vars == <<args, a_sum, b_sum, rem_a, rem_b, max_rem, max_rem_a, i, pc, result>>

Init ==
    /\ stack_a \in Stacks /\ stack_b \in Stacks /\ max_sum \in MaxSums
    /\ a_sum = 0 /\ b_sum = 0
    /\ rem_a = 0 /\ rem_b = 0
    /\ max_rem = 0 /\ max_rem_a = 0
    /\ i = 0
    /\ pc = "advance_a"
    /\ result = 0

Sum == (a_sum + b_sum) % Word

\* Mutation of Best: the last total instead of the greatest.
Latest(m, n) == n

Best(m, n) == IF m < n THEN n ELSE m

\* while (a_sum <= max_sum && rem_a < stack_a.size())
AdvanceA ==
    /\ pc = "advance_a"
    /\ a_sum <= max_sum /\ rem_a < Len(stack_a)
    /\ a_sum' = (a_sum + stack_a[rem_a + 1]) % Word
    /\ rem_a' = rem_a + 1
    /\ UNCHANGED <<args, b_sum, rem_b, max_rem, max_rem_a, i, pc, result>>

\* The end of that loop, the retreat, and the bounds of the for loop.
RetreatA ==
    /\ pc = "advance_a"
    /\ ~(a_sum <= max_sum /\ rem_a < Len(stack_a))
    /\ \/ /\ a_sum > max_sum
          /\ a_sum' = (a_sum - stack_a[rem_a]) % Word
          /\ rem_a' = rem_a - 1
       \/ /\ a_sum <= max_sum
          /\ UNCHANGED <<a_sum, rem_a>>
    /\ max_rem' = rem_a' /\ max_rem_a' = rem_a'
    /\ pc' = "advance_b"
    /\ UNCHANGED <<args, b_sum, rem_b, i, result>>

\* while (a_sum + b_sum <= max_sum && rem_b < stack_b.size()), the same loop
\* in every pass of the for loop and after it.
AdvanceB ==
    /\ pc = "advance_b"
    /\ Sum <= max_sum /\ rem_b < Len(stack_b)
    /\ b_sum' = (b_sum + stack_b[rem_b + 1]) % Word
    /\ rem_b' = rem_b + 1
    /\ UNCHANGED <<args, a_sum, rem_a, max_rem, max_rem_a, i, pc, result>>

\* Mutation of RetreatB: the value is given back and its sum is kept.
RetreatBCountOnly ==
    /\ pc = "advance_b"
    /\ ~(Sum <= max_sum /\ rem_b < Len(stack_b))
    /\ rem_b' = IF Sum > max_sum THEN rem_b - 1 ELSE rem_b
    /\ pc' = "record"
    /\ UNCHANGED <<args, a_sum, b_sum, rem_a, max_rem, max_rem_a, i, result>>

\* The end of that loop and its retreat.
RetreatB ==
    /\ pc = "advance_b"
    /\ ~(Sum <= max_sum /\ rem_b < Len(stack_b))
    /\ \/ /\ Sum > max_sum
          /\ b_sum' = (b_sum - stack_b[rem_b]) % Word
          /\ rem_b' = rem_b - 1
       \/ /\ Sum <= max_sum
          /\ UNCHANGED <<b_sum, rem_b>>
    /\ pc' = "record"
    /\ UNCHANGED <<args, a_sum, rem_a, max_rem, max_rem_a, i, result>>

\* The end of a pass: note the total and put one value of A back.
PutBackA ==
    /\ pc = "record"
    /\ i < max_rem_a
    /\ max_rem' = Best(max_rem, rem_a + rem_b)
    /\ a_sum' = (a_sum - stack_a[rem_a]) % Word
    /\ rem_a' = rem_a - 1
    /\ i' = i + 1
    /\ pc' = "advance_b"
    /\ UNCHANGED <<args, b_sum, rem_b, max_rem_a, result>>

Return ==
    /\ pc = "record"
    /\ i = max_rem_a
    /\ result' = Best(max_rem, rem_a + rem_b)
    /\ pc' = "done"
    /\ UNCHANGED <<args, a_sum, b_sum, rem_a, rem_b, max_rem, max_rem_a, i>>

Finished == pc = "done" /\ UNCHANGED vars

Next ==
    \/ AdvanceA \/ RetreatA \/ AdvanceB \/ RetreatB
    \/ PutBackA \/ Return \/ Finished

Spec == Init /\ [][Next]_vars /\ WF_vars(Next)

----------------------------------------------------------------------------
\* Taking x values from A and y from B respects the limit.
Feasible(x, y) == PrefixSum[stack_a][x] + PrefixSum[stack_b][y] <= max_sum

TypeOK ==
    /\ stack_a \in Stacks /\ stack_b \in Stacks /\ max_sum \in MaxSums
    /\ a_sum \in Nat /\ b_sum \in Nat
    /\ rem_a \in 0..Len(stack_a) /\ rem_b \in 0..Len(stack_b)
    /\ max_rem \in Nat /\ max_rem_a \in Nat /\ i \in Nat /\ i <= max_rem_a
    /\ pc \in {"advance_a", "advance_b", "record", "done"}
    /\ result \in Nat

\* The answer is the best over all ways to take from both stacks, although
\* the code tries at most one total of B for each total of A.
ResultIsBest ==
    pc = "done" =>
        /\ \E x \in 0..Len(stack_a), y \in 0..Len(stack_b) :
              Feasible(x, y) /\ result = x + y
        /\ \A x \in 0..Len(stack_a), y \in 0..Len(stack_b) :
              Feasible(x, y) => x + y <= result

\* The running sums are those of the values counted as taken: advancing,
\* retreating and putting back never let them drift apart, and never wrap.
SumsFollowCounts ==
    /\ a_sum = PrefixSum[stack_a][rem_a]
    /\ b_sum = PrefixSum[stack_b][rem_b]

\* Every way to take more from A than is still held was accounted for when
\* those values were put back.
PutBackLosesNothing ==
    pc \in {"advance_b", "record"} =>
        \A x \in (rem_a + 1)..Len(stack_a), y \in 0..Len(stack_b) :
            Feasible(x, y) => x + y <= max_rem

\* At the end of a pass the limit is respected and B cannot give one more.
PassIsMaximal ==
    pc = "record" =>
        /\ Feasible(rem_a, rem_b)
        /\ rem_b < Len(stack_b) => ~Feasible(rem_a, rem_b + 1)
============================================================================
