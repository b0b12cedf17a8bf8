--------------------------- MODULE RunningMedian ---------------------------
(***************************************************************************)
(* running_medians of running_median.cc: every value is inserted into a    *)
(* sorted vector at its upper bound, and the median of the values so far   *)
(* is taken from the middle.  A median is held as its double, which is     *)
(* whole; main prints it with one decimal, which is exact.                 *)
(***************************************************************************)
EXTENDS Integers, SequencesExt, FiniteSetsExt

CONSTANTS
    Inputs,  \* sequences of values
    MaxInt   \* INT_MAX: the sum of the middle values is an int

\* What an int can be.
Ints == (-MaxInt - 1)..MaxInt

InputsOK ==
    /\ MaxInt \in Nat
    /\ \A s \in Inputs : s \in Seq(Ints)

VARIABLES
    values,         \* the argument
    taken,          \* values handled
    sorted_values,
    medians,        \* doubled
    pc

vars == <<values, taken, sorted_values, medians, pc>>

Init ==
    /\ values \in Inputs
    /\ taken = 0
    /\ sorted_values = <<>>
    /\ medians = <<>>
    /\ pc = "insert"

\* std::upper_bound: the first place, from 1, whose value is greater.
UpperBound(s, v) == Min({ k \in DOMAIN s : s[k] > v } \cup {Len(s) + 1})

InsertValue ==
    /\ pc = "insert"
    /\ taken < Len(values)
    /\ taken' = taken + 1
    /\ sorted_values' = InsertAt(sorted_values, UpperBound(sorted_values, values[taken']),
                                 values[taken'])
    /\ pc' = "median"
    /\ UNCHANGED <<values, medians>>

\* mid counts from 1 here, from 0 in the code.
OddMedian ==
    /\ pc = "median"
    /\ Len(sorted_values) % 2 = 1
    /\ medians' = Append(medians, 2 * sorted_values[Len(sorted_values) \div 2 + 1])
    /\ pc' = "insert"
    /\ UNCHANGED <<values, taken, sorted_values>>

\* Mutation of EvenMedian: the mean of the upper middle value and itself.
EvenMedianUpper ==
    /\ pc = "median"
    /\ Len(sorted_values) % 2 = 0
    /\ LET mid == Len(sorted_values) \div 2
           sum == 2 * sorted_values[mid + 1]
       IN  IF sum \notin Ints
             THEN pc' = "undefined" /\ UNCHANGED medians
             ELSE medians' = Append(medians, sum) /\ pc' = "insert"
    /\ UNCHANGED <<values, taken, sorted_values>>

\* The sum overflows, which is undefined, when it is no int.
EvenMedian ==
    /\ pc = "median"
    /\ Len(sorted_values) % 2 = 0
    /\ LET mid == Len(sorted_values) \div 2
           sum == sorted_values[mid] + sorted_values[mid + 1]
       IN  IF sum \notin Ints
             THEN pc' = "undefined" /\ UNCHANGED medians
             ELSE medians' = Append(medians, sum) /\ pc' = "insert"
    /\ UNCHANGED <<values, taken, sorted_values>>

Return ==
    /\ pc = "insert"
    /\ taken = Len(values)
    /\ pc' = "done"
    /\ UNCHANGED <<values, taken, sorted_values, medians>>

Finished == pc \in {"done", "undefined"} /\ UNCHANGED vars

Next == InsertValue \/ OddMedian \/ EvenMedian \/ Return \/ Finished

Spec == Init /\ [][Next]_vars /\ WF_vars(Next)

----------------------------------------------------------------------------
\* Reference: the k-th smallest of the first m values, by counting.
Smallest(k, m) ==
    CHOOSE v \in ToSet(SubSeq(values, 1, m)) :
        /\ Cardinality({ j \in 1..m : values[j] < v }) < k
        /\ Cardinality({ j \in 1..m : values[j] <= v }) >= k

Middles(m) == Smallest((m + 1) \div 2, m) + Smallest(m \div 2 + 1, m)

\* Each median splits the values that it is the median of: it is the mean of
\* the two middle ones, which are the same one when their number is odd.  Only
\* a sum of two middle values that is not an int stops the program short.
MediansSplit ==
    /\ \A m \in DOMAIN medians : medians[m] = Middles(m)
    /\ pc = "done" => Len(medians) = Len(values)
    /\ pc = "undefined" => Middles(taken) \notin Ints
============================================================================
