--------------------------- MODULE TreeLevelOrder ---------------------------
(***************************************************************************)
(* tree_level_order.cc: the values are inserted into a search tree, and    *)
(* operator<< of binary_tree_bfs_view prints it level by level with a      *)
(* queue of node pointers.                                                 *)
(***************************************************************************)
EXTENDS BstInsert

VARIABLES
    queue,  \* nodes to print
    out     \* the values printed

vars == <<insertVars, queue, out>>

Init == InsertInit /\ queue = <<>> /\ out = <<>>

StartBfs ==
    /\ StartView
    /\ queue' = IF tree = EmptyTree THEN <<>> ELSE <<Root>>
    /\ UNCHANGED out

PrintNode ==
    /\ pc = "view"
    /\ queue # <<>>
    /\ out' = Append(out, tree[Head(queue)])
    /\ queue' = Tail(queue) \o ChildrenOf(tree, Head(queue))
    /\ UNCHANGED insertVars

Exit ==
    /\ pc = "view"
    /\ queue = <<>>
    /\ pc' = "done"
    /\ UNCHANGED <<input, taken, at, tree, queue, out>>

Finished == pc = "done" /\ UNCHANGED vars

Next ==
    \/ Insert /\ UNCHANGED <<queue, out>>
    \/ StartBfs \/ PrintNode \/ Exit
    \/ Finished

Spec == Init /\ [][Next]_vars /\ WF_vars(Next)

----------------------------------------------------------------------------
\* The k-th node by levels has k - 1 nodes before it.
Nth(k) ==
    CHOOSE p \in DOMAIN tree : Cardinality({ r \in DOMAIN tree : LevelBefore(r, p) }) = k - 1

\* The line that is printed holds every value once per insertion, by levels.
OutputIsLevels == pc = "done" => out = [k \in 1..Cardinality(DOMAIN tree) |-> tree[Nth(k)]]
============================================================================
