------------------------- MODULE ArrayManipulation -------------------------
(***************************************************************************)
(* array_manipulation.cc.  As it is compiled by default, the operations    *)
(* are taken for intervals of uniform value, sorted by their left ends and *)
(* merged into disjoint multivalued_intervals, one pass from left to       *)
(* right; the answer is the largest value of any merged interval.  With    *)
(* USE_ARRAY_UPDATE each operation is applied to the array as it is read.  *)
(***************************************************************************)
EXTENDS Integers, Sequences, SequencesExt, FiniteSetsExt

CONSTANT
    Inputs  \* records of the array size n and the operations

Intervals(n) == { iv \in [left: 1..n, right: 1..n, value: Nat] : iv.left <= iv.right }

InputsOK ==
    \A in \in Inputs : in.n \in Nat \ {0} /\ in.ops \in Seq(Intervals(in.n))

VARIABLES
    use_array_update,  \* is USE_ARRAY_UPDATE defined?
    n, ops,            \* what the program is given
    values,            \* the array, with USE_ARRAY_UPDATE
    order,             \* std::sort: the operations from left to right
    i,                 \* operations merged, or applied
    merged_intervals,  \* records of left, right and the values between
    result,            \* the values printed: none, then one
    pc

args == <<use_array_update, n, ops>>
vars == <<args, values, order, i, merged_intervals, result, pc>>

\* multivalued_interval(interval)
Multivalued(iv) ==
    [left |-> iv.left, right |-> iv.right,
     values |-> [k \in 1..(iv.right - iv.left + 1) |-> iv.value]]

\* right_merge throws unless the left end of iv lies within m.
Mergeable(m, iv) == iv.left \in m.left..m.right

\* Mutation of RightMerge: the merged interval ends where iv ends, even when iv
\* lies within m.
RightMergeToEnd(m, iv) ==
    LET n_modify == Min({m.right, iv.right}) - iv.left + 1
        modified == [k \in DOMAIN m.values |->
                        IF k \in (iv.left - m.left + 1)..(iv.left - m.left + n_modify)
                          THEN m.values[k] + iv.value ELSE m.values[k]]
        appended == [k \in 1..(iv.right - iv.left - n_modify + 1) |-> iv.value]
    IN  [left |-> m.left, right |-> iv.right, values |-> modified \o appended]

\* right_merge: add to the overlap, append the rest, move the right end.
RightMerge(m, iv) ==
    LET n_modify == Min({m.right, iv.right}) - iv.left + 1
        modified == [k \in DOMAIN m.values |->
                        IF k \in (iv.left - m.left + 1)..(iv.left - m.left + n_modify)
                          THEN m.values[k] + iv.value ELSE m.values[k]]
        appended == [k \in 1..(iv.right - iv.left - n_modify + 1) |-> iv.value]
    IN  [left |-> m.left, right |-> Max({m.right, iv.right}), values |-> modified \o appended]

Init ==
    /\ \E in \in Inputs : n = in.n /\ ops = in.ops
    /\ use_array_update \in BOOLEAN
    /\ values = [x \in 1..(IF use_array_update THEN n ELSE 0) |-> 0]
    /\ order = <<>>
    /\ i = 0
    /\ merged_intervals = <<>>
    /\ result = {}
    /\ pc = IF use_array_update THEN "update" ELSE "sort"

\* Mutation of Transform: the last element of the stretch is left out.
TransformShort ==
    /\ pc = "update"
    /\ i < Len(ops)
    /\ i' = i + 1
    /\ values' = [x \in DOMAIN values |->
                    IF x - 1 \in (ops[i'].left - 1)..(ops[i'].right - 2)
                      THEN values[x] + ops[i'].value ELSE values[x]]
    /\ UNCHANGED <<args, order, merged_intervals, result, pc>>

\* std::transform over values[l_index - 1 .. r_index), counted from 0.
Transform ==
    /\ pc = "update"
    /\ i < Len(ops)
    /\ i' = i + 1
    /\ values' = [x \in DOMAIN values |->
                    IF x - 1 \in (ops[i'].left - 1)..(ops[i'].right - 1)
                      THEN values[x] + ops[i'].value ELSE values[x]]
    /\ UNCHANGED <<args, order, merged_intervals, result, pc>>

PrintValue ==
    /\ pc = "update"
    /\ i = Len(ops)
    /\ result' = { Max(ToSet(values)) }
    /\ pc' = "done"
    /\ UNCHANGED <<args, values, order, i, merged_intervals>>

\* Operations with the same left end may come out in either order.
SortIntervals ==
    /\ pc = "sort"
    /\ ops # <<>>
    /\ \E w \in SetToSeqs(DOMAIN ops) :
          /\ \A j, k \in DOMAIN w : j < k => ops[w[j]].left <= ops[w[k]].left
          /\ order' = w
    /\ pc' = "merge"
    /\ UNCHANGED <<args, values, i, merged_intervals, result>>

\* No operation: main dereferences the end of an empty vector.
NoIntervals ==
    /\ pc = "sort"
    /\ ops = <<>>
    /\ pc' = "undefined"
    /\ UNCHANGED <<args, values, order, i, merged_intervals, result>>

FirstInterval ==
    /\ pc = "merge"
    /\ i = 0
    /\ merged_intervals' = <<Multivalued(ops[order[1]])>>
    /\ i' = 1
    /\ UNCHANGED <<args, values, order, result, pc>>

MergeInterval ==
    /\ pc = "merge"
    /\ i > 0 /\ i < Len(ops)
    /\ i' = i + 1
    /\ LET interval == ops[order[i']]
           last     == Last(merged_intervals)
       IN  \/ /\ last.right >= interval.left
              /\ IF Mergeable(last, interval)
                   THEN /\ merged_intervals' = Append(Front(merged_intervals),
                                                      RightMerge(last, interval))
                        /\ UNCHANGED pc
                   ELSE pc' = "abort" /\ UNCHANGED merged_intervals
           \/ /\ last.right < interval.left
              /\ merged_intervals' = Append(merged_intervals, Multivalued(interval))
              /\ UNCHANGED pc
    /\ UNCHANGED <<args, values, order, result>>

PrintMax ==
    /\ pc = "merge"
    /\ i = Len(ops)
    /\ result' = { Max(UNION { ToSet(merged_intervals[k].values) : k \in DOMAIN merged_intervals }) }
    /\ pc' = "done"
    /\ UNCHANGED <<args, values, order, i, merged_intervals>>

Finished == pc \in {"done", "undefined", "abort"} /\ UNCHANGED vars

Next ==
    \/ Transform \/ PrintValue
    \/ SortIntervals \/ NoIntervals
    \/ FirstInterval \/ MergeInterval \/ PrintMax
    \/ Finished

Spec == Init /\ [][Next]_vars /\ WF_vars(Next)

----------------------------------------------------------------------------
\* The interval that covers an index, and the value it holds there.
Covering(x) ==
    { k \in DOMAIN merged_intervals :
        x \in merged_intervals[k].left..merged_intervals[k].right }

ValueAt(x) ==
    IF Covering(x) = {} THEN 0
    ELSE LET m == merged_intervals[CHOOSE k \in Covering(x) : TRUE]
         IN  m.values[x - m.left + 1]

\* The merged intervals stay apart, from left to right, each holds exactly
\* one value for each index it spans, and together they span what the
\* operations taken so far span.  The runtime_error of right_merge (166-167)
\* is never thrown: the sort puts the left end of the last merged interval at
\* or before that of the next.
MergedApart ==
    /\ pc # "abort"
    /\ pc = "merge" =>
          /\ \A k \in DOMAIN merged_intervals :
                LET m == merged_intervals[k]
                IN  /\ Len(m.values) = m.right - m.left + 1
                    /\ k < Len(merged_intervals) => m.right < merged_intervals[k + 1].left
          /\ \A x \in 1..n :
                Covering(x) # {} <=> \E k \in 1..i : x \in ops[order[k]].left..ops[order[k]].right

\* The array as ArrayUpdates has it: values, or what the merged intervals
\* cover, and the operations that are not in it yet.
Array == IF use_array_update THEN values ELSE [x \in 1..n |-> ValueAt(x)]

Pending ==
    IF use_array_update THEN (i + 1)..Len(ops) ELSE DOMAIN ops \ { order[k] : k \in 1..i }
============================================================================
