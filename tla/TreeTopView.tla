---------------------------- MODULE TreeTopView ----------------------------
(***************************************************************************)
(* tree_top_view.cc: the values are inserted into a search tree, and       *)
(* operator<< of binary_tree_top_view prints the nodes that are seen from  *)
(* above.  It searches breadth first with the column of each node, and     *)
(* keeps a node when its column is outside the range covered so far.       *)
(***************************************************************************)
EXTENDS BstInsert, FiniteSetsExt

VARIABLES
    queue,                    \* pairs of a node and its column
    range,                    \* leftmost and rightmost column covered
    left_nodes, right_nodes,  \* values left and right of the root
    out                       \* the line printed

viewVars == <<queue, range, left_nodes, right_nodes, out>>
vars == <<insertVars, viewVars>>

Init ==
    /\ InsertInit
    /\ queue = <<>>
    /\ range = [first |-> 0, second |-> 0]
    /\ left_nodes = <<>> /\ right_nodes = <<>>
    /\ out = <<>>

StartBfs ==
    /\ StartView
    /\ queue' = IF tree = EmptyTree THEN <<>> ELSE <<<<Root, 0>>>>
    /\ UNCHANGED <<range, left_nodes, right_nodes, out>>

\* Mutation of ChildColumns: every child one column further out.
ColumnsOutward(p, pos) ==
    [k \in DOMAIN ChildrenOf(tree, p) |-> <<ChildrenOf(tree, p)[k], IF pos < 0 THEN pos - 1 ELSE pos + 1>>]

ChildColumns(p, pos) ==
    [k \in DOMAIN ChildrenOf(tree, p) |->
        LET child == ChildrenOf(tree, p)[k]
        IN  <<child, IF Last(child) = Left THEN pos - 1 ELSE pos + 1>>]

VisitNode ==
    /\ pc = "view"
    /\ queue # <<>>
    /\ LET cur     == Head(queue)[1]
           cur_pos == Head(queue)[2]
       IN  /\ \/ /\ cur_pos < range.first
                 /\ range' = [range EXCEPT !.first = cur_pos]
                 /\ left_nodes' = <<tree[cur]>> \o left_nodes
                 /\ UNCHANGED right_nodes
              \/ /\ cur_pos > range.second
                 /\ range' = [range EXCEPT !.second = cur_pos]
                 /\ right_nodes' = Append(right_nodes, tree[cur])
                 /\ UNCHANGED left_nodes
              \/ /\ cur_pos \in range.first..range.second
                 /\ UNCHANGED <<range, left_nodes, right_nodes>>
           /\ queue' = Tail(queue) \o ChildColumns(cur, cur_pos)
    /\ UNCHANGED <<insertVars, out>>

WriteView ==
    /\ pc = "view"
    /\ queue = <<>>
    /\ out' = IF tree = EmptyTree THEN <<>> ELSE left_nodes \o <<tree[Root]>> \o right_nodes
    /\ pc' = "done"
    /\ UNCHANGED <<input, taken, at, tree, queue, range, left_nodes, right_nodes>>

Finished == pc = "done" /\ UNCHANGED vars

Next ==
    \/ Insert /\ UNCHANGED viewVars
    \/ StartBfs \/ VisitNode \/ WriteView
    \/ Finished

Spec == Init /\ [][Next]_vars /\ WF_vars(Next)

----------------------------------------------------------------------------
\* How far a node is to the right of the root.
Column(p) ==
    Cardinality({ k \in DOMAIN p : p[k] = Right }) - Cardinality({ k \in DOMAIN p : p[k] = Left })

Columns == { Column(p) : p \in DOMAIN tree }

\* What is seen of a column from above: its first node by levels.
Top(c) ==
    LET here == { p \in DOMAIN tree : Column(p) = c }
    IN  CHOOSE p \in here : \A r \in here \ {p} : LevelBefore(p, r)

\* The output is, from left to right, the topmost node of each column; of two
\* nodes of a column at the same depth it is the left one.
OutputIsTopView ==
    (pc = "done" /\ tree # EmptyTree) =>
        out = [k \in 1..Cardinality(Columns) |-> tree[Top(Min(Columns) + k - 1)]]
============================================================================
