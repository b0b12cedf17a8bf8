----------------------------- MODULE MergeLists -----------------------------
(***************************************************************************)
(* merge_sorted_linked_lists.cc: for each case, create_list reads two      *)
(* sorted lists, merge_lists makes a third one out of new nodes, and main  *)
(* prints it.  The lists of a case are freed before the next one.          *)
(***************************************************************************)
EXTENDS LinkedList

CONSTANT
    Inputs  \* sequences of cases, pairs of the lists a and b

Ascending(s) == \A j, k \in DOMAIN s : j < k => s[j] <= s[k]

InputsOK ==
    \A in \in Inputs :
        /\ in \in Seq([a: Seq(Nat), b: Seq(Nat)])
        /\ \A k \in DOMAIN in : Ascending(in[k].a) /\ Ascending(in[k].b)

VARIABLES
    cases,           \* what the program is given
    c,               \* the case in hand
    taken,           \* values read of the list in hand
    heap,
    head_a, head_b,  \* the lists that were read
    head,            \* the list that is made: head_a, head_b or the merged one
    cur,             \* its last node: tail in create_list, cur in merge_lists
    cur_a, cur_b,    \* the cursors of merge_lists
    printed,         \* the lines written
    pc

cursors == <<cur_a, cur_b>>
lists == <<heap, head_a, head_b, head, cur, cursors>>
vars == <<cases, c, taken, lists, printed, pc>>

Case == cases[c]

Init ==
    /\ cases \in Inputs
    /\ c = 1 /\ taken = 0
    /\ heap = <<>>
    /\ head_a = Null /\ head_b = Null /\ head = Null
    /\ cur = Null /\ cur_a = Null /\ cur_b = Null
    /\ printed = <<>>
    /\ pc = IF cases = <<>> THEN "done" ELSE "create_a"

\* A new node at the end of the list that is made.
InsertNewNode(v) ==
    /\ heap' = Grown(heap, cur, v)
    /\ head' = HeadAfter(heap, head)
    /\ cur' = Len(heap')

\* create_list, first for a, then for b.
CreateNode(creating, list) ==
    /\ pc = creating
    /\ taken < Len(list)
    /\ taken' = taken + 1
    /\ InsertNewNode(list[taken'])
    /\ UNCHANGED <<cases, c, head_a, head_b, cursors, printed, pc>>

\* Mutation of CreatedA: the second list is begun at the tail of the first.
CreatedAKeepsTail ==
    /\ pc = "create_a"
    /\ taken = Len(Case.a)
    /\ head_a' = head
    /\ taken' = 0 /\ head' = Null
    /\ pc' = "create_b"
    /\ UNCHANGED <<cases, c, heap, head_b, cur, cursors, printed>>

CreatedA ==
    /\ pc = "create_a"
    /\ taken = Len(Case.a)
    /\ head_a' = head
    /\ taken' = 0 /\ head' = Null /\ cur' = Null
    /\ pc' = "create_b"
    /\ UNCHANGED <<cases, c, heap, head_b, cursors, printed>>

CreatedB ==
    /\ pc = "create_b"
    /\ taken = Len(Case.b)
    /\ head_b' = head
    /\ cur_a' = head_a /\ cur_b' = head
    /\ taken' = 0 /\ head' = Null /\ cur' = Null
    /\ pc' = "both"
    /\ UNCHANGED <<cases, c, heap, head_a, printed>>

\* Insert the value under one cursor and move that cursor on.
TakeA ==
    /\ InsertNewNode(Value(heap, cur_a))
    /\ cur_a' = Following(heap, cur_a)
    /\ UNCHANGED <<cases, c, taken, head_a, head_b, cur_b, printed, pc>>

TakeB ==
    /\ InsertNewNode(Value(heap, cur_b))
    /\ cur_b' = Following(heap, cur_b)
    /\ UNCHANGED <<cases, c, taken, head_a, head_b, cur_a, printed, pc>>

GoTo(label) == pc' = label /\ UNCHANGED <<cases, c, taken, lists, printed>>

BothLeft == cur_a # Null /\ cur_b # Null

\* Mutation of AFits: the greater value first.
AFitsDescending == BothLeft /\ Value(heap, cur_a) >= Value(heap, cur_b)

\* The two inner loops take from a, then from b, while the other is not less.
AFits == BothLeft /\ Value(heap, cur_a) <= Value(heap, cur_b)

\* Mutation of BFits: the operands are swapped.
BFitsSwapped == BothLeft /\ Value(heap, cur_a) < Value(heap, cur_b)

BFits == BothLeft /\ Value(heap, cur_b) <= Value(heap, cur_a)

OuterLoop == pc = "both" /\ GoTo(IF BothLeft THEN "while_a" ELSE "finish_a")

WhileA == pc = "while_a" /\ (IF AFits THEN TakeA ELSE GoTo("while_b"))

WhileB == pc = "while_b" /\ (IF BFits THEN TakeB ELSE GoTo("both"))

FinishA == pc = "finish_a" /\ (IF cur_a # Null THEN TakeA ELSE GoTo("finish_b"))

FinishB == pc = "finish_b" /\ (IF cur_b # Null THEN TakeB ELSE GoTo("print"))

\* operator<<, then the end of the scope that owns the three lists.
PrintList ==
    /\ pc = "print"
    /\ printed' = Append(printed, ValuesFrom(heap, head))
    /\ c' = c + 1
    /\ heap' = <<>>
    /\ head_a' = Null /\ head_b' = Null /\ head' = Null
    /\ cur' = Null /\ cur_a' = Null /\ cur_b' = Null
    /\ pc' = IF c = Len(cases) THEN "done" ELSE "create_a"
    /\ UNCHANGED <<cases, taken>>

Finished == pc = "done" /\ UNCHANGED vars

Next ==
    \/ CreateNode("create_a", Case.a) \/ CreatedA
    \/ CreateNode("create_b", Case.b) \/ CreatedB
    \/ OuterLoop \/ WhileA \/ WhileB \/ FinishA \/ FinishB
    \/ PrintList
    \/ Finished

Spec == Init /\ [][Next]_vars /\ WF_vars(Next)

----------------------------------------------------------------------------
Merging == pc \in {"both", "while_a", "while_b", "finish_a", "finish_b", "print"}

\* merge_sorted_linked_lists.cc 119: "Merge two sorted linked lists into a new
\* one".  The new list shares no node with the old ones, which still hold what
\* was read; every node of the heap has one owner.
ListsStayApart ==
    Merging =>
        /\ ValuesFrom(heap, head_a) = Case.a /\ ValuesFrom(heap, head_b) = Case.b
        /\ LET chains == <<ChainFrom(heap, head_a), ChainFrom(heap, head_b), ChainFrom(heap, head)>>
           IN  /\ \A j, k \in 1..3 : j # k => ToSet(chains[j]) \cap ToSet(chains[k]) = {}
               /\ UNION { ToSet(chains[j]) : j \in 1..3 } = DOMAIN heap

\* One line is printed for each case, its values in ascending order.
PrintedIsMerge ==
    /\ Len(printed) = c - 1
    /\ \A k \in DOMAIN printed :
          Ascending(printed[k]) /\ ToBag(printed[k]) = ToBag(cases[k].a \o cases[k].b)
============================================================================
