--------------------------- MODULE SwapTreeNodes ---------------------------
(***************************************************************************)
(* swap_tree_nodes.cc: reads a tree as the pair of children of each ID in  *)
(* turn, then, for each swap depth k, swaps the subtrees of all nodes whose *)
(* depth is a multiple of k and prints the inorder traversal.              *)
(***************************************************************************)
EXTENDS TreePositions, FiniteSetsExt

CONSTANTS
    Inputs,  \* records of n, the pair of child IDs of each ID, the swap depths
    Word     \* 2^32: unsigned depths are computed modulo Word

\* The lines are a binary tree: 1 is nobody's child and every other ID is one
\* child of one node.  swap_depth 0 would repeat the inner loop for ever; the
\* input format starts depths at 1.  A tree is never as deep as a word is large.
InputsOK ==
    /\ Word \in Nat
    /\ \A in \in Inputs :
          /\ in.n \in Nat /\ 2 * in.n < Word
          /\ in.children \in [1..in.n -> (-1..in.n) \X (-1..in.n)]
          /\ \A id \in 1..in.n, c \in {1, 2} : in.children[id][c] # 1
          /\ \A child \in 2..in.n :
                \E id \in 1..in.n, c \in {1, 2} :
                    \A other \in 1..in.n, d \in {1, 2} :
                        in.children[other][d] = child <=> (other = id /\ d = c)
          /\ in.depths \in Seq(1..in.n)

VARIABLES
    n, children, depths,  \* what the program is given
    tree,                 \* positions to IDs
    taken,                \* IDs whose children have been read
    i, j,                 \* main's counters over swap depths and multiples
    printed,              \* the lines written
    pc

args == <<n, children, depths>>
vars == <<args, tree, taken, i, j, printed, pc>>

\* find_node: the node with this ID, IDs being unique.
Places(id) == { p \in DOMAIN tree : tree[p] = id }

Place(id) == CHOOSE p \in Places(id) : TRUE

\* Mutation of InorderIds: the node is added before its left subtree.
PreorderIds(t) ==
    LET ids[p \in {Root} \cup { Append(r, side) : r \in DOMAIN t, side \in {Left, Right} }] ==
            IF p \in DOMAIN t
              THEN <<t[p]>> \o ids[Append(p, Left)] \o ids[Append(p, Right)]
              ELSE <<>>
    IN  ids[Root]

\* inorder_tree_ids, called for the root, for each node and where one ends.
InorderIds(t) ==
    LET ids[p \in {Root} \cup { Append(r, side) : r \in DOMAIN t, side \in {Left, Right} }] ==
            IF p \in DOMAIN t
              THEN ids[Append(p, Left)] \o <<t[p]>> \o ids[Append(p, Right)]
              ELSE <<>>
    IN  ids[Root]

\* Mutation of SwapsAt: depth is decremented before it is tested.
SwapsAbove(depth, p) == (depth - Len(p) - 1) % Word = 0

\* swap_subtrees at the root: depth is decremented on the way down, below zero
\* too, and a node whose children are swapped is where it has become zero.
SwapsAt(depth, p) == (depth - Len(p)) % Word = 0

Flip(side) == 1 - side

\* Where swap_subtrees(root, depth) moves the node at p.
Moved(depth, p) ==
    [k \in DOMAIN p |-> IF SwapsAt(depth, SubSeq(p, 1, k - 1)) THEN Flip(p[k]) ELSE p[k]]

SwapSubtrees(t, depth) ==
    [p \in { Moved(depth, r) : r \in DOMAIN t } |-> t[Moved(depth, p)]]

Init ==
    /\ \E in \in Inputs : n = in.n /\ children = in.children /\ depths = in.depths
    /\ tree = IF n > 0 THEN AddNode(EmptyTree, Root, 1) ELSE EmptyTree
    /\ taken = 0
    /\ i = 0 /\ j = 1
    /\ printed = <<>>
    /\ pc = "read"

HasChild(id, side) == children[id][side + 1] > 0

ReadChildren ==
    /\ pc = "read"
    /\ taken < n
    /\ Places(taken + 1) # {}
    /\ taken' = taken + 1
    /\ LET p  == Place(taken + 1)
           at == { Append(p, side) : side \in { s \in {Left, Right} : HasChild(taken + 1, s) } }
       IN  tree' = [r \in DOMAIN tree \cup at |->
                        IF r \in at THEN children[taken + 1][Last(r) + 1] ELSE tree[r]]
    /\ UNCHANGED <<args, i, j, printed, pc>>

\* find_node returned its empty pointer: main dereferences it as soon as there
\* is a child to attach, and goes on when there is none.
MissNode ==
    /\ pc = "read"
    /\ taken < n
    /\ Places(taken + 1) = {}
    /\ taken' = taken + 1
    /\ pc' = IF \E side \in {Left, Right} : HasChild(taken + 1, side) THEN "undefined" ELSE pc
    /\ UNCHANGED <<args, tree, i, j, printed>>

StartSwaps ==
    /\ pc = "read"
    /\ taken = n
    /\ pc' = "swap"
    /\ UNCHANGED <<args, tree, taken, i, j, printed>>

Swapping == pc = "swap" /\ i < Len(depths)

Multiple == (j * depths[i + 1]) % Word

SwapDepth ==
    /\ Swapping
    /\ Multiple <= n
    /\ tree' = SwapSubtrees(tree, (Multiple - 1) % Word)
    /\ j' = j + 1
    /\ UNCHANGED <<args, taken, i, printed, pc>>

PrintIds ==
    /\ Swapping
    /\ Multiple > n
    /\ printed' = Append(printed, InorderIds(tree))
    /\ i' = i + 1 /\ j' = 1
    /\ UNCHANGED <<args, tree, taken, pc>>

Exit ==
    /\ pc = "swap"
    /\ i = Len(depths)
    /\ pc' = "done"
    /\ UNCHANGED <<args, tree, taken, i, j, printed>>

Finished == pc \in {"done", "undefined"} /\ UNCHANGED vars

Next ==
    \/ ReadChildren \/ MissNode \/ StartSwaps
    \/ SwapDepth \/ PrintIds \/ Exit
    \/ Finished

Spec == Init /\ [][Next]_vars /\ WF_vars(Next)

----------------------------------------------------------------------------
\* Every child comes after its parent in the input.
ParentsFirst == \A id \in 1..n : \A c \in 1..2 : children[id][c] > 0 => children[id][c] > id

\* Reference: the tree of the input before any swap.  An ID and its position
\* go together when every turn of the position leads to the next ID.
At(id, p) ==
    \E ids \in [1..(Len(p) + 1) -> 1..n] :
        /\ ids[1] = 1 /\ ids[Len(p) + 1] = id
        /\ \A k \in DOMAIN p : children[ids[k]][p[k] + 1] = ids[k + 1]

\* The number of swaps done so far to the children of nodes at this depth.
TimesSwapped(depth) ==
    Cardinality({ k \in 1..i : (depth + 1) % depths[k] = 0 })
        + IF i < Len(depths) /\ (depth + 1) % depths[i + 1] = 0 /\ (depth + 1) < j * depths[i + 1]
            THEN 1 ELSE 0

Unswapped(p) ==
    [k \in DOMAIN p |-> IF TimesSwapped(k - 1) % 2 = 1 THEN Flip(p[k]) ELSE p[k]]

\* However many swaps of whatever depths overlap, each node stands where the
\* input put it, with the turn at each ancestor flipped when the ancestor's
\* depth has been swapped an odd number of times.  In particular the depth
\* that wraps below zero swaps nothing further down.  No node is lost, nor is
\* an empty pointer dereferenced, when each child comes after its parent.
SwapsAreParity ==
    /\ pc = "swap" => \A p \in DOMAIN tree : At(tree[p], Unswapped(p))
    /\ ParentsFirst => /\ pc # "undefined"
                       /\ taken = n => Cardinality(DOMAIN tree) = n

\* A position of the input tree after all swaps of the first k depths.
SwappedBy(k, p) ==
    [d \in DOMAIN p |-> IF Cardinality({ m \in 1..k : d % depths[m] = 0 }) % 2 = 1
                          THEN Flip(p[d]) ELSE p[d]]

\* There is a line for every swap depth, and the line lists the nodes from left
\* to right as the swaps up to that depth have left them, going by the
\* positions of the input.
LinesAreInorder ==
    pc = "done" =>
        /\ Len(printed) = Len(depths)
        /\ \A k \in DOMAIN printed :
              /\ ParentsFirst => Len(printed[k]) = n
              /\ \A a, b \in DOMAIN printed[k] :
                    a < b => \E p, q \in { Unswapped(r) : r \in DOMAIN tree } :
                                 /\ At(printed[k][a], p) /\ At(printed[k][b], q)
                                 /\ InorderBefore(SwappedBy(k, p), SwappedBy(k, q))
============================================================================
