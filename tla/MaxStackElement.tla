-------------------------- MODULE MaxStackElement --------------------------
(***************************************************************************)
(* main of max_stack_element.cc: queries push a value, pop one, or print   *)
(* the largest; other queries are ignored.  Popping or asking when the     *)
(* deque is empty is undefined behaviour.                                  *)
(***************************************************************************)
EXTENDS Integers, SequencesExt, FiniteSetsExt

CONSTANT
    Inputs  \* sequences of queries, records of a code and an argument; the
            \* code 0 stands for all that are none of 1, 2 and 3

InputsOK == \A in \in Inputs : in \in Seq([code: 0..3, arg: Nat])

VARIABLES
    queries,  \* what the program is given
    i,        \* queries handled
    stack,
    printed,  \* the values written, with the query that asked for each
    pc

vars == <<queries, i, stack, printed, pc>>

Init ==
    /\ queries \in Inputs
    /\ i = 0
    /\ stack = <<>>
    /\ printed = <<>>
    /\ pc = "read"

ReadQuery(codes) ==
    /\ pc = "read"
    /\ i < Len(queries)
    /\ queries[i + 1].code \in codes
    /\ i' = i + 1
    /\ UNCHANGED queries

PushValue ==
    /\ ReadQuery({1})
    /\ stack' = Append(stack, queries[i'].arg)
    /\ UNCHANGED <<printed, pc>>

\* Mutation of PopValue: the other end of the deque.
PopFront ==
    /\ ReadQuery({2})
    /\ IF stack = <<>> THEN pc' = "undefined" /\ UNCHANGED stack
                       ELSE stack' = Tail(stack) /\ UNCHANGED pc
    /\ UNCHANGED printed

PopValue ==
    /\ ReadQuery({2})
    /\ IF stack = <<>> THEN pc' = "undefined" /\ UNCHANGED stack
                       ELSE stack' = Front(stack) /\ UNCHANGED pc
    /\ UNCHANGED printed

PrintMax ==
    /\ ReadQuery({3})
    /\ IF stack = <<>> THEN pc' = "undefined" /\ UNCHANGED printed
                       ELSE /\ printed' = Append(printed, <<i', Max(ToSet(stack))>>)
                            /\ UNCHANGED pc
    /\ UNCHANGED stack

OtherQuery == ReadQuery({0}) /\ UNCHANGED <<stack, printed, pc>>

Exit ==
    /\ pc = "read"
    /\ i = Len(queries)
    /\ pc' = "done"
    /\ UNCHANGED <<queries, i, stack, printed>>

Finished == pc \in {"done", "undefined"} /\ UNCHANGED vars

Next == PushValue \/ PopValue \/ PrintMax \/ OtherQuery \/ Exit \/ Finished

Spec == Init /\ [][Next]_vars /\ WF_vars(Next)

----------------------------------------------------------------------------
\* Reference: how many pushes exceed pops from query j to query k, and the
\* values pushed that no pop up to k has removed, from the queries alone.
Surplus(j, k) ==
    Cardinality({ m \in j..k : queries[m].code = 1 })
        - Cardinality({ m \in j..k : queries[m].code = 2 })

Alive(k) ==
    { queries[j].arg : j \in { j \in 1..k :
        queries[j].code = 1 /\ \A m \in j..k : Surplus(j, m) > 0 } }

\* Every value that is printed is the largest of those pushed and not popped
\* when it was asked for, also after the largest has been popped; behaviour
\* becomes undefined only at the first query that needs an element of an empty
\* stack.
PrintedIsMaxAlive ==
    /\ \A k \in DOMAIN printed : printed[k][2] = Max(Alive(printed[k][1]))
    /\ pc # "undefined" =>
          Len(printed) = Cardinality({ m \in 1..i : queries[m].code = 3 })
    /\ pc = "undefined" <=>
          i > 0 /\ queries[i].code \in {2, 3} /\ Surplus(1, i - 1) = 0
============================================================================
