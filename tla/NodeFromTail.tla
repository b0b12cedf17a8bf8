---------------------------- MODULE NodeFromTail ----------------------------
(***************************************************************************)
(* node_from_tail.cc: for each case, create_list reads a list and          *)
(* position_from_tail counts its nodes, then walks from the head to the    *)
(* value that is tail_pos places before the tail.                          *)
(***************************************************************************)
EXTENDS LinkedList

CONSTANTS
    Inputs,  \* sequences of cases, records of the list and tail_pos
    Word     \* 2^32: list_len and pos are unsigned

\* create_list reads the number of values into an unsigned, too.
InputsOK ==
    /\ Word \in Nat \ {0}
    /\ \A in \in Inputs :
          /\ in \in Seq([list: Seq(Nat), tail_pos: Nat])
          /\ \A k \in DOMAIN in : Len(in[k].list) < Word

VARIABLES
    cases,     \* what the program is given
    c,         \* the case in hand
    taken,     \* values read of its list
    heap,
    head, tail,
    cur,       \* the cursor of position_from_tail
    list_len,
    pos, i,    \* how far to walk, and how far it has walked
    printed,   \* the values written
    pc

walk == <<cur, list_len, pos, i>>
vars == <<cases, c, taken, heap, head, tail, walk, printed, pc>>

Case == cases[c]

Init ==
    /\ cases \in Inputs
    /\ c = 1 /\ taken = 0
    /\ heap = <<>> /\ head = Null /\ tail = Null
    /\ cur = Null /\ list_len = 0 /\ pos = 0 /\ i = 0
    /\ printed = <<>>
    /\ pc = IF cases = <<>> THEN "done" ELSE "create"

CreateNode ==
    /\ pc = "create"
    /\ taken < Len(Case.list)
    /\ taken' = taken + 1
    /\ heap' = Grown(heap, tail, Case.list[taken'])
    /\ head' = HeadAfter(heap, head)
    /\ tail' = Len(heap')
    /\ UNCHANGED <<cases, c, walk, printed, pc>>

\* main passes *head: an empty list is undefined behaviour.
CallPosition ==
    /\ pc = "create"
    /\ taken = Len(Case.list)
    /\ cur' = head /\ list_len' = 0 /\ i' = 0
    /\ pc' = IF head = Null THEN "undefined" ELSE "count"
    /\ UNCHANGED <<cases, c, taken, heap, head, tail, pos, printed>>

CountNode ==
    /\ pc = "count"
    /\ cur # Null
    /\ list_len' = (list_len + 1) % Word
    /\ cur' = Following(heap, cur)
    /\ UNCHANGED <<cases, c, taken, heap, head, tail, pos, i, printed, pc>>

\* Mutation of Counted: the position is taken to count from the head.
CountedFromHead ==
    /\ pc = "count"
    /\ cur = Null
    /\ IF Case.tail_pos >= list_len
         THEN pc' = "abort" /\ UNCHANGED <<pos, cur>>
         ELSE pos' = Case.tail_pos /\ cur' = head /\ pc' = "walk"
    /\ UNCHANGED <<cases, c, taken, heap, head, tail, list_len, i, printed>>

\* The exception is not caught: the process dies.
Counted ==
    /\ pc = "count"
    /\ cur = Null
    /\ IF Case.tail_pos >= list_len
         THEN pc' = "abort" /\ UNCHANGED <<pos, cur>>
         ELSE /\ pos' = (list_len - Case.tail_pos - 1) % Word
              /\ cur' = head
              /\ pc' = "walk"
    /\ UNCHANGED <<cases, c, taken, heap, head, tail, list_len, i, printed>>

WalkNode ==
    /\ pc = "walk"
    /\ i < pos
    /\ i' = i + 1
    /\ cur' = Following(heap, cur)
    /\ UNCHANGED <<cases, c, taken, heap, head, tail, list_len, pos, printed, pc>>

\* main writes the value; the list is freed at the end of its scope.
PrintValue ==
    /\ pc = "walk"
    /\ i = pos
    /\ printed' = Append(printed, Value(heap, cur))
    /\ c' = c + 1 /\ taken' = 0
    /\ heap' = <<>> /\ head' = Null /\ tail' = Null /\ cur' = Null
    /\ pc' = IF c = Len(cases) THEN "done" ELSE "create"
    /\ UNCHANGED <<cases, list_len, pos, i>>

Finished == pc \in {"done", "abort", "undefined"} /\ UNCHANGED vars

Next ==
    \/ CreateNode \/ CallPosition
    \/ CountNode \/ Counted \/ WalkNode \/ PrintValue
    \/ Finished

Spec == Init /\ [][Next]_vars /\ WF_vars(Next)

----------------------------------------------------------------------------
\* Each value written is the one tail_pos places before the end of its list,
\* and the program fails exactly at the first case that has no such place.
PrintedFromTail ==
    /\ \A k \in DOMAIN printed :
          LET list == cases[k].list
          IN  printed[k] = Reverse(list)[cases[k].tail_pos + 1]
    /\ pc \in {"abort", "undefined"} => Case.tail_pos >= Len(Case.list)
    /\ pc = "done" => Len(printed) = Len(cases)
============================================================================
