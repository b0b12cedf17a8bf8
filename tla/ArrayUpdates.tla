---------------------------- MODULE ArrayUpdates ----------------------------
(***************************************************************************)
(* What both implementations of array_manipulation.cc promise: an array of *)
(* zeros is updated by operations that each add a summand to a stretch of  *)
(* it, in whatever order, and the largest element is reported once every   *)
(* operation has been applied.                                             *)
(***************************************************************************)
EXTENDS Integers, Sequences, FiniteSetsExt

VARIABLES
    ops,      \* the operations, records of left, right and value
    pending,  \* the operations still to be applied
    values,   \* the array
    result    \* the reported elements: none, then one

vars == <<ops, pending, values, result>>

Init ==
    /\ pending = DOMAIN ops
    /\ \A x \in DOMAIN values : values[x] = 0
    /\ result = {}

Apply ==
    \E k \in pending :
        /\ pending' = pending \ {k}
        /\ values' = [x \in DOMAIN values |->
                        IF x \in ops[k].left..ops[k].right THEN values[x] + ops[k].value
                                                           ELSE values[x]]
        /\ UNCHANGED <<ops, result>>

Report ==
    /\ pending = {} /\ result = {}
    /\ result' = { Max({ values[x] : x \in DOMAIN values }) }
    /\ UNCHANGED <<ops, pending, values>>

Next == Apply \/ Report

\* With no operation there is nothing the implementations agree on.
Liveness == <>(ops = <<>> \/ result # {})

Spec == Init /\ [][Next]_vars /\ Liveness
============================================================================
