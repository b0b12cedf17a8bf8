-------------------------- MODULE SequencePrograms --------------------------
(***************************************************************************)
(* Five programs that keep a list, a vector or a deque, one of them being  *)
(* run: merge_sorted_linked_lists (Merge), node_from_tail (Tail),          *)
(* running_median (Median), array_manipulation in either build (Array) and *)
(* max_stack_element (Stack).                                              *)
(***************************************************************************)
EXTENDS Integers, Sequences

CONSTANTS
    Merges, Tails, Medians, Arrays, QueryLists,  \* the Inputs of each program
    Word,                                    \* of NodeFromTail
    MaxInt                                   \* of RunningMedian

VARIABLES
    program,
    pc,                                                 \* of every program
    cases, c, taken, heap, head, cur, printed, i,       \* of two or three
    head_a, head_b, cur_a, cur_b,                       \* of Merge
    tail, list_len, pos,                                \* of Tail
    values,                                             \* of Median and Array
    sorted_values, medians,                             \* of Median
    use_array_update, n, ops,                           \* of Array
    order, merged_intervals, result,                    \* of Array
    queries, stack                                      \* of Stack

mergeOnly == <<head_a, head_b, cur_a, cur_b>>
tailOnly == <<tail, list_len, pos>>
medianOnly == <<sorted_values, medians>>
arrayOnly == <<use_array_update, n, ops, order, merged_intervals, result>>
stackOnly == <<queries, stack>>
listsOnly == <<cases, c, heap, head, cur>>
vars ==
    <<program, pc, listsOnly, taken, printed, i, values, mergeOnly, tailOnly, medianOnly, arrayOnly,
      stackOnly>>

Merge == INSTANCE MergeLists WITH Inputs <- Merges
FromTail == INSTANCE NodeFromTail WITH Inputs <- Tails
Median == INSTANCE RunningMedian WITH Inputs <- Medians
Stack == INSTANCE MaxStackElement WITH Inputs <- QueryLists
Array == INSTANCE ArrayManipulation WITH Inputs <- Arrays

ASSUME InputsAssumption ==
    /\ Merge!InputsOK /\ FromTail!InputsOK /\ Median!InputsOK /\ Stack!InputsOK /\ Array!InputsOK

\* What the programs that are not run would use stays at 0.
ListsIdle == cases = 0 /\ c = 0 /\ heap = 0 /\ head = 0 /\ cur = 0
MergeIdle == head_a = 0 /\ head_b = 0 /\ cur_a = 0 /\ cur_b = 0
TailIdle == tail = 0 /\ list_len = 0 /\ pos = 0
MedianIdle == sorted_values = 0 /\ medians = 0
ArrayIdle ==
    /\ use_array_update = 0 /\ n = 0 /\ ops = 0
    /\ order = 0 /\ merged_intervals = 0 /\ result = 0
StackIdle == queries = 0 /\ stack = 0

Init ==
    \/ /\ program = "merge" /\ Merge!Init
       /\ i = 0 /\ values = 0 /\ TailIdle /\ MedianIdle /\ ArrayIdle /\ StackIdle
    \/ /\ program = "tail" /\ FromTail!Init
       /\ values = 0 /\ MergeIdle /\ MedianIdle /\ ArrayIdle /\ StackIdle
    \/ /\ program = "median" /\ Median!Init
       /\ ListsIdle /\ printed = 0 /\ i = 0 /\ MergeIdle /\ TailIdle /\ ArrayIdle /\ StackIdle
    \/ /\ program = "array" /\ Array!Init
       /\ ListsIdle /\ taken = 0 /\ printed = 0
       /\ MergeIdle /\ TailIdle /\ MedianIdle /\ StackIdle
    \/ /\ program = "stack" /\ Stack!Init
       /\ ListsIdle /\ taken = 0 /\ values = 0 /\ MergeIdle /\ TailIdle /\ MedianIdle /\ ArrayIdle

Next ==
    \/ /\ program = "merge" /\ Merge!Next
       /\ UNCHANGED <<program, i, values, tailOnly, medianOnly, arrayOnly, stackOnly>>
    \/ /\ program = "tail" /\ FromTail!Next
       /\ UNCHANGED <<program, values, mergeOnly, medianOnly, arrayOnly, stackOnly>>
    \/ /\ program = "median" /\ Median!Next
       /\ UNCHANGED <<program, listsOnly, printed, i, mergeOnly, tailOnly, arrayOnly, stackOnly>>
    \/ /\ program = "array" /\ Array!Next
       /\ UNCHANGED <<program, listsOnly, taken, printed, mergeOnly, tailOnly, medianOnly, stackOnly>>
    \/ /\ program = "stack" /\ Stack!Next
       /\ UNCHANGED <<program, listsOnly, taken, values, mergeOnly, tailOnly, medianOnly, arrayOnly>>

Spec == Init /\ [][Next]_vars /\ WF_vars(Next)

\* merge_sorted_linked_lists.cc: each line printed is the two lists merged.
PrintedIsMerge == program = "merge" => Merge!PrintedIsMerge

\* merge_sorted_linked_lists.cc: the merged list shares no node with the old
\* ones, which keep what they hold.
ListsStayApart == program = "merge" => Merge!ListsStayApart

\* node_from_tail.cc: the value printed is at its distance from the tail.
PrintedFromTail == program = "tail" => FromTail!PrintedFromTail

\* running_median.cc: each median splits the values read up to it.
MediansSplit == program = "median" => Median!MediansSplit

\* array_manipulation.cc: the merged intervals stay apart and cover what the
\* operations taken so far span; right_merge never throws.
MergedApart == program = "array" => Array!MergedApart

\* Either build of array_manipulation.cc implements ArrayUpdates: the merged
\* intervals hold at each index what the operations taken so far sum up to
\* there, and the answer is the largest element once all of them are applied,
\* those in no interval included; it is always given when there is an operation.
Promise == INSTANCE ArrayUpdates WITH
    ops     <- IF program = "array" THEN ops ELSE <<>>,
    pending <- IF program = "array" THEN Array!Pending ELSE {},
    values  <- IF program = "array" THEN Array!Array ELSE <<0>>,
    result  <- IF program = "array" THEN result ELSE {}

ImplementsUpdates == Promise!Spec

\* max_stack_element.cc: the maximum is that of the values still on the stack.
PrintedIsMaxAlive == program = "stack" => Stack!PrintedIsMaxAlive

\* Every program ends; in merge_lists each pass of the outer loop moves a
\* cursor, since one of the inner loops takes a value when the two under the
\* cursors are equal.
Termination == <>(pc \in {"done", "abort", "undefined"})
=============================================================================
