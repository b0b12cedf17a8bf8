---------------------------- MODULE EqualStacks ----------------------------
(***************************************************************************)
(* max_equal_height of equal_stacks.cc: the greatest height three stacks   *)
(* can all be cut down to by removing elements from their tops.            *)
(*                                                                         *)
(* Nothing is removed: an iterator per stack says how many elements are    *)
(* gone and a total says what is left.  All sums are unsigned int, so they *)
(* wrap at Word.                                                           *)
(***************************************************************************)
EXTENDS Integers, Sequences

CONSTANTS
    Stacks,     \* the vectors a stack may be
    SuffixSum,  \* SuffixSum[s][p]: the sum of what is left of s without its first p
    Word        \* 2^32 on the build's platform

Three == 1..3

\* What is assumed of the constants, here and in the next two definitions.
StacksOK ==
    /\ Stacks \subseteq Seq(Nat)
    /\ Word \in Nat \ {0}

\* What SuffixSum means, and that sums of naturals only shrink as elements go.
SuffixSumOK ==
    \A s \in Stacks :
        /\ SuffixSum[s] \in [0..Len(s) -> Nat]
        /\ SuffixSum[s][Len(s)] = 0
        /\ \A p \in 0..(Len(s) - 1) : SuffixSum[s][p] = s[p + 1] + SuffixSum[s][p + 1]
        /\ \A p, q \in 0..Len(s) : p <= q => SuffixSum[s][q] <= SuffixSum[s][p]

\* "no need to worry about addition overflow given the problem limits"
ProblemLimits == \A s \in Stacks : 3 * SuffixSum[s][0] < Word

VARIABLES
    stack,   \* the three arguments
    total,   \* total_1, total_2, total_3
    top,     \* elements top_it_1, top_it_2, top_it_3 have passed
    pc,
    result

vars == <<stack, total, top, pc, result>>

Init ==
    /\ stack \in [Three -> Stacks]
    /\ total = [k \in Three |-> 0]
    /\ top = [k \in Three |-> 0]
    /\ pc = "start"
    /\ result = 0

AnyEmpty == \E k \in Three : stack[k] = <<>>

ReturnZeroIfEmpty ==
    /\ pc = "start"
    /\ AnyEmpty
    /\ pc' = "done" /\ result' = 0
    /\ UNCHANGED <<stack, total, top>>

\* Mutation of Accumulate: each sum starts from the total before it.
AccumulateOn ==
    /\ pc = "start" /\ ~AnyEmpty
    /\ LET all(k) == SuffixSum[stack[k]][0]
       IN  total' = [k \in Three |-> (CASE k = 1 -> all(1)
                                        [] k = 2 -> all(1) + all(2)
                                        [] k = 3 -> all(1) + all(2) + all(3)) % Word]
    /\ pc' = "loop"
    /\ UNCHANGED <<stack, top, result>>

Accumulate ==
    /\ pc = "start"
    /\ ~AnyEmpty
    /\ total' = [k \in Three |-> SuffixSum[stack[k]][0] % Word]
    /\ pc' = "loop"
    /\ UNCHANGED <<stack, top, result>>

Unequal == total[1] # total[2] \/ total[2] # total[3]

RanOut == \E k \in Three : top[k] = Len(stack[k])

ReturnZeroIfRanOut ==
    /\ pc = "loop" /\ Unequal
    /\ RanOut
    /\ pc' = "done" /\ result' = 0
    /\ UNCHANGED <<stack, total, top>>

\* Mutation of EstMax: the average is rounded up.
EstMaxRoundedUp == ((total[1] + total[2] + total[3] + 2) % Word) \div 3

EstMax == ((total[1] + total[2] + total[3]) % Word) \div 3

\* Mutation of Above: a stack at the estimate is cut too.
AtOrAbove(k) == total[k] >= EstMax

Above(k) == total[k] > EstMax

\* One iteration: the three ifs share the estimate made before them.
Trim ==
    /\ pc = "loop" /\ Unequal
    /\ ~RanOut
    /\ total' = [k \in Three |->
                   IF Above(k) THEN (total[k] - stack[k][top[k] + 1]) % Word ELSE total[k]]
    /\ top' = [k \in Three |-> IF Above(k) THEN top[k] + 1 ELSE top[k]]
    /\ UNCHANGED <<stack, pc, result>>

ReturnHeight ==
    /\ pc = "loop"
    /\ ~Unequal
    /\ pc' = "done" /\ result' = total[1]
    /\ UNCHANGED <<stack, total, top>>

Finished == pc = "done" /\ UNCHANGED vars

Next ==
    \/ ReturnZeroIfEmpty \/ Accumulate \/ ReturnZeroIfRanOut
    \/ Trim \/ ReturnHeight \/ Finished

Spec == Init /\ [][Next]_vars /\ WF_vars(Next)

----------------------------------------------------------------------------
\* A height all three stacks can be cut down to, each to some position.
Heights(k) == { SuffixSum[stack[k]][p] : p \in 0..Len(stack[k]) }

Common(h) == \A k \in Three : h \in Heights(k)

TypeOK ==
    /\ stack \in [Three -> Stacks]
    /\ total \in [Three -> Nat]
    /\ top \in [Three -> Nat]
    /\ \A k \in Three : top[k] <= Len(stack[k])
    /\ pc \in {"start", "loop", "done"}
    /\ result \in Nat

\* The answer is a common height and no common height is greater, whichever
\* of the four returns gave it.
ResultIsBest ==
    pc = "done" => /\ Common(result)
                   /\ \A h \in Heights(1) : Common(h) => h <= result

\* Cutting every stack above the average at once never cuts one below a
\* height that all three can reach.
NeverOvershoots ==
    pc = "loop" => \A h \in Heights(1) : Common(h) => \A k \in Three : h <= total[k]

\* "no need to worry about addition overflow given the problem limits": in
\* every pass the three totals add up to less than a word.
SumFits == pc = "loop" => total[1] + total[2] + total[3] < Word

\* A total and its iterator agree, although they are updated separately and
\* the sums may wrap.
TotalsFollowTops ==
    pc = "loop" => \A k \in Three : total[k] = SuffixSum[stack[k]][top[k]]

\* A pass that finds the totals unequal removes something: the wrapped floor
\* of the average is below the greatest total, so the loop cannot spin.
EachPassTrims ==
    (pc = "loop" /\ Unequal) => \E k \in Three : Above(k) /\ total[k] > 0
============================================================================
