-------------------------- MODULE SubtreeQueries --------------------------
(***************************************************************************)
(* What subtrees_and_paths.cc promises for its list of queries, whichever  *)
(* of its two implementations is compiled in: an "add" raises a node and   *)
(* all nodes that hang from it, a "max" reports the largest value on the   *)
(* path between two nodes, and a node that was never named has no value.   *)
(* The parent of an edge is its end with the lower ID, as in both          *)
(* implementations.                                                        *)
(***************************************************************************)
EXTENDS AdjacencyList, FiniteSetsExt

CONSTANT
    MinValue  \* std::numeric_limits<int>::min()

VARIABLES
    known,    \* the nodes that exist once the edges are read
    joined,   \* the edges, pairs <<parent, child>>
    queries,
    q,        \* queries answered
    gave_up,  \* the program has stopped with EXIT_FAILURE
    values,
    answers

vars == <<known, joined, queries, q, gave_up, values, answers>>

\* x and the nodes that hang from it, over any number of edges.
Below(x) ==
    { y \in known :
        \A S \in SUBSET known :
            (x \in S /\ \A e \in joined : e[1] \in S => e[2] \in S) => y \in S }

\* The nodes that cannot be avoided on the way from a to b.
Between(a, b) ==
    { x \in known :
        x \in {a, b} \/ b \notin Component(known \ {x}, { e \in joined : x \notin {e[1], e[2]} }, a) }

Init ==
    /\ q = 0
    /\ gave_up = FALSE
    /\ values = [x \in known |-> 0]
    /\ answers = <<>>

Query(kind) ==
    /\ ~gave_up
    /\ q < Len(queries)
    /\ queries[q + 1].kind = kind
    /\ q' = q + 1
    /\ UNCHANGED <<known, joined, queries, gave_up>>

AddBelow ==
    /\ Query("add")
    /\ values' = [x \in known |->
                    IF queries[q + 1].a \in known /\ x \in Below(queries[q + 1].a)
                      THEN values[x] + queries[q + 1].b
                      ELSE values[x]]
    /\ UNCHANGED answers

ReportMax ==
    /\ Query("max")
    /\ LET a == queries[q + 1].a
           b == queries[q + 1].b
       IN  answers' = Append(answers,
               IF {a, b} \subseteq known
                 THEN Max({ values[x] : x \in Between(a, b) })
                 ELSE MinValue)
    /\ UNCHANGED values

\* An edge that cannot be read, or a query that is neither.
GiveUp ==
    /\ ~gave_up
    /\ \/ q = 0
       \/ q < Len(queries) /\ queries[q + 1].kind \notin {"add", "max"}
    /\ gave_up' = TRUE
    /\ UNCHANGED <<known, joined, queries, q, values, answers>>

Next == AddBelow \/ ReportMax \/ GiveUp

Liveness == <>(gave_up \/ q = Len(queries))

Spec == Init /\ [][Next]_vars /\ Liveness
============================================================================
