-------------------------- MODULE SubtreesProofs --------------------------
(***************************************************************************)
(* Both builds of subtrees_and_paths.cc follow SubtreeQueries, for every   *)
(* tree and every list of queries.                                         *)
(*                                                                         *)
(* The build with USE_TREE_NODE keeps the tree as positions: an edge is    *)
(* attached below its end with the lower ID (NodeTree), the branches of    *)
(* two nodes are pruned up to where they part (Pruned), and what is left   *)
(* is the path between them.  The default build keeps a directed graph: an *)
(* add queues nodes whose subtrees do not overlap (QueuedOnce), and the    *)
(* search for a max keeps on its stack a path from which the target is in  *)
(* reach through what is not visited yet (Searching); that a tree has no   *)
(* second way makes the path the answer.                                   *)
(***************************************************************************)
EXTENDS TreeProgramsProofs

----------------------------------------------------------------------------
\* Connectivity, as AdjacencyList has it.

\* A component holds its node and is closed under the edges.
LEMMA ComponentIsClosed ==
    ASSUME NEW V, NEW E, E \subseteq V \X V, NEW x \in V
    PROVE  x \in Component(V, E, x) /\ Component(V, E, x) \subseteq V /\ ClosedUnder(Component(V, E, x), E)
<1>1. x \in Component(V, E, x) /\ Component(V, E, x) \subseteq V
  BY DEF Component
<1>2. ASSUME NEW e \in E PROVE e[1] \in Component(V, E, x) <=> e[2] \in Component(V, E, x)
  <2>1. e[1] \in V /\ e[2] \in V
    OBVIOUS
  <2>2. \A S \in SUBSET V : ClosedUnder(S, E) => (e[1] \in S <=> e[2] \in S)
    BY DEF ClosedUnder
  <2> QED
    BY <2>1, <2>2 DEF Component
<1> QED
  BY <1>1, <1>2 DEF ClosedUnder

\* It is within every closed set that holds the node.
LEMMA ComponentIsLeast ==
    ASSUME NEW V, NEW E, NEW S \in SUBSET V, ClosedUnder(S, E), NEW x \in S
    PROVE  Component(V, E, x) \subseteq S
BY DEF Component

\* What is not in a component is apart from it.
LEMMA Separated ==
    ASSUME NEW V, NEW E, NEW x \in V, NEW y \in V, y \notin Component(V, E, x)
    PROVE  \E S \in SUBSET V : ClosedUnder(S, E) /\ x \in S /\ y \notin S
BY DEF Component

\* What a closed set leaves out is closed.
LEMMA RestIsClosed ==
    ASSUME NEW V, NEW E, E \subseteq V \X V, NEW S, ClosedUnder(S, E)
    PROVE  ClosedUnder(V \ S, E)
<1>1. \A e \in E : e[1] \in V /\ e[2] \in V
  OBVIOUS
<1> QED
  BY <1>1 DEF ClosedUnder

\* Two nodes of one component have the same component.
LEMMA ComponentIsShared ==
    ASSUME NEW V, NEW E, E \subseteq V \X V, NEW x \in V, NEW y \in Component(V, E, x)
    PROVE  x \in Component(V, E, y) /\ Component(V, E, y) = Component(V, E, x)
<1>1. y \in V
  BY DEF Component
<1>2. Component(V, E, y) \subseteq Component(V, E, x)
  BY ComponentIsClosed, ComponentIsLeast
<1>3. x \in Component(V, E, y)
  <2> SUFFICES ASSUME x \notin Component(V, E, y) PROVE FALSE
    OBVIOUS
  <2>1. ClosedUnder(Component(V, E, y), E) /\ y \in Component(V, E, y)
    BY <1>1, ComponentIsClosed
  <2>2. ClosedUnder(V \ Component(V, E, y), E) /\ x \in V \ Component(V, E, y)
    BY <2>1, RestIsClosed
  <2>3. y \in V \ Component(V, E, y)
    BY <2>2 DEF Component
  <2> QED
    BY <2>1, <2>3
<1>4. Component(V, E, x) \subseteq Component(V, E, y)
  BY <1>1, <1>3, ComponentIsClosed, ComponentIsLeast
<1> QED
  BY <1>2, <1>3, <1>4

\* The ends of an edge, the lower ID first.
Low(e) == IF e[1] <= e[2] THEN e[1] ELSE e[2]

High(e) == IF e[1] <= e[2] THEN e[2] ELSE e[1]

\* The ends of an edge, by the names that the two builds have for them.
LEMMA EndsAre ==
    ASSUME NEW N \in Nat, NEW e \in (1..N) \X (1..N)
    PROVE  /\ Low(e) \in 1..N /\ High(e) \in 1..N
           /\ {Low(e), High(e)} = {e[1], e[2]}
           /\ Node!ToSet(e) = {e[1], e[2]} /\ Node!Min(Node!ToSet(e)) = Low(e) /\ Node!Max(Node!ToSet(e)) = High(e)
           /\ Graph!ToSet(e) = {e[1], e[2]} /\ Graph!Min(Graph!ToSet(e)) = Low(e) /\ Graph!Max(Graph!ToSet(e)) = High(e)
<1>1. PICK x \in 1..N, y \in 1..N : e = <<x, y>>
  OBVIOUS
<1>2. e[1] = x /\ e[2] = y /\ DOMAIN e = {1, 2}
  BY <1>1
<1>3. Node!ToSet(e) = {x, y} /\ Graph!ToSet(e) = {x, y}
  BY <1>2 DEF Node!ToSet, Graph!ToSet
<1>4. ASSUME NEW z, z \in {x, y}, \A w \in {x, y} : z <= w PROVE z = Low(e)
  BY <1>2, <1>4 DEF Low
<1>5. ASSUME NEW z, z \in {x, y}, \A w \in {x, y} : z >= w PROVE z = High(e)
  BY <1>2, <1>5 DEF High
<1>6. Low(e) \in {x, y} /\ \A w \in {x, y} : Low(e) <= w
  BY <1>2 DEF Low
<1>7. High(e) \in {x, y} /\ \A w \in {x, y} : High(e) >= w
  BY <1>2 DEF High
<1>8. Node!Min({x, y}) = Low(e) /\ Graph!Min({x, y}) = Low(e)
  BY <1>4, <1>6 DEF Node!Min, Graph!Min
<1>9. Node!Max({x, y}) = High(e) /\ Graph!Max({x, y}) = High(e)
  BY <1>5, <1>7 DEF Node!Max, Graph!Max
<1>10. {Low(e), High(e)} = {x, y} /\ Low(e) \in 1..N /\ High(e) \in 1..N
  BY <1>2 DEF Low, High
<1> QED
  BY <1>2, <1>3, <1>8, <1>9, <1>10

\* What holds of the root, and of a child with its parent, holds of every node.
LEMMA Descends ==
    ASSUME NEW t, IsTree(t), NEW T, Root \in DOMAIN t => Root \in T,
           \A p \in DOMAIN t, side \in {Left, Right} :
               (p \in T /\ Append(p, side) \in DOMAIN t) => Append(p, side) \in T
    PROVE  DOMAIN t \subseteq T
<1> DEFINE K == { k \in Nat : \A p \in DOMAIN t : Len(p) = k => p \in T }
<1>1. \A p \in DOMAIN t : p \in Positions /\ Len(p) \in Nat
  BY TurnIs DEF IsTree
<1>2. 0 \in K
  <2>1. \A p \in DOMAIN t : Len(p) = 0 => p = Root
    BY <1>1, RootIs, SamePosition DEF Agree
  <2> QED
    BY <2>1
<1>3. ASSUME NEW k \in Nat, k \in K PROVE k + 1 \in K
  <2> SUFFICES ASSUME NEW p \in DOMAIN t, Len(p) = k + 1 PROVE p \in T
    OBVIOUS
  <2>1. p \in Positions /\ p # Root
    BY <1>1, RootIs
  <2> DEFINE f == SubSeq(p, 1, Len(p) - 1)
  <2> DEFINE s == p[Len(p)]
  <2>2. s \in {Left, Right} /\ p = Append(f, s) /\ f \in Positions
    BY <2>1, IsChild
  <2>3. Len(p) - 1 \in 0..Len(p) /\ Len(p) - 1 = k
    OBVIOUS
  <2>4. f \in DOMAIN t /\ Len(f) = k
    BY <2>1, <2>3, SubSeqIs DEF IsTree
  <2> HIDE DEF f, s
  <2>5. f \in T
    BY <1>3, <2>4
  <2> QED
    BY <2>2, <2>4, <2>5
<1> HIDE DEF K
<1>4. Nat \subseteq K
  BY <1>2, <1>3, Induction
<1>5. \A p \in DOMAIN t : Len(p) \in K
  BY <1>1, <1>4
<1> QED
  BY <1>5 DEF K

----------------------------------------------------------------------------
\* subtrees_and_paths with USE_TREE_NODE: the tree that the edges build.

\* The edges as they are given: those of a tree, each joining what the ones
\* before it leave apart.
TreeGiven ==
    /\ n \in Nat \ {0}
    /\ pairs \in Seq((1..n) \X (1..n)) /\ Len(pairs) = n - 1
    /\ IsForest(1..n, pairs)
    /\ taken \in 0..(n - 1)

\* What the build with USE_TREE_NODE is given.
NodeGiven ==
    /\ TreeGiven
    /\ queries \in Seq([kind: {"add", "max", "other"}, a: Nat, b: Int]) /\ q \in 0..Len(queries)
    /\ pc \in {"edges", "queries", "prune", "done"}

\* What a tree_node holds.
Holder(m) == [id: 1..m, value: Int]

\* The edges read so far are those of the tree, and no ID is at two places.
NodeTree ==
    /\ IsTree(tree) /\ tree \in [DOMAIN tree -> Holder(n)]
    /\ Root \in DOMAIN tree /\ tree[Root].id = 1
    /\ \A p, r \in DOMAIN tree : tree[p].id = tree[r].id => p = r
    /\ \A k \in 1..taken : \E p \in DOMAIN tree, side \in {Left, Right} :
           /\ Append(p, side) \in DOMAIN tree
           /\ tree[p].id = Low(pairs[k]) /\ tree[Append(p, side)].id = High(pairs[k])
    /\ \A p \in DOMAIN tree, side \in {Left, Right} :
           Append(p, side) \in DOMAIN tree =>
               \E k \in 1..taken : tree[p].id = Low(pairs[k]) /\ tree[Append(p, side)].id = High(pairs[k])

\* The first k edges.
EdgesTaken(k) == { pairs[m] : m \in 1..k }

\* What TreeGiven says of each edge.
LEMMA PairsAre ==
    ASSUME TreeGiven
    PROVE  /\ n \in Nat /\ n > 0 /\ Len(pairs) \in Nat /\ DOMAIN pairs = 1..(n - 1) /\ taken \in Nat /\ taken <= n - 1
           /\ \A k \in 1..(n - 1) : /\ pairs[k] \in (1..n) \X (1..n)
                                    /\ pairs[k][1] \in 1..n /\ pairs[k][2] \in 1..n
                                    /\ Low(pairs[k]) \in 1..n /\ High(pairs[k]) \in 1..n
                                    /\ {Low(pairs[k]), High(pairs[k])} = {pairs[k][1], pairs[k][2]}
                                    /\ pairs[k][2] \notin Component(1..n, EdgesTaken(k - 1), pairs[k][1])
           /\ \A k \in 0..(n - 1) : EdgesTaken(k) \subseteq (1..n) \X (1..n)
<1>1. n \in Nat /\ n > 0 /\ Len(pairs) = n - 1 /\ pairs \in Seq((1..n) \X (1..n)) /\ taken \in 0..(n - 1)
  BY DEF TreeGiven
<1>2. DOMAIN pairs = 1..(n - 1) /\ \A k \in 1..(n - 1) : pairs[k] \in (1..n) \X (1..n)
  BY <1>1
<1>3. \A k \in 0..(n - 1) : EdgesTaken(k) \subseteq (1..n) \X (1..n)
  BY <1>1, <1>2 DEF EdgesTaken
<1>4. ASSUME NEW k \in 1..(n - 1)
      PROVE  pairs[k][2] \notin Component(1..n, EdgesTaken(k - 1), pairs[k][1])
  BY <1>2, <1>4 DEF TreeGiven, IsForest, EdgesTaken
<1>5. ASSUME NEW k \in 1..(n - 1)
      PROVE  /\ pairs[k][1] \in 1..n /\ pairs[k][2] \in 1..n
             /\ Low(pairs[k]) \in 1..n /\ High(pairs[k]) \in 1..n
             /\ {Low(pairs[k]), High(pairs[k])} = {pairs[k][1], pairs[k][2]}
  <2>1. pairs[k] \in (1..n) \X (1..n)
    BY <1>2
  <2> QED
    BY <1>1, <2>1, EndsAre
<1>6. Len(pairs) \in Nat /\ taken \in Nat /\ taken <= n - 1
  BY <1>1
<1> QED
  BY <1>1, <1>2, <1>3, <1>4, <1>5, <1>6

\* A set that no edge read leads out of has all IDs of the tree or none.
LEMMA AllOrNone ==
    ASSUME NodeGiven, NodeTree, NEW S, ClosedUnder(S, EdgesTaken(taken)), NEW p \in DOMAIN tree, tree[p].id \in S,
           NEW r \in DOMAIN tree
    PROVE  tree[r].id \in S
<1> DEFINE T == { f \in DOMAIN tree : tree[f].id \in S <=> tree[Root].id \in S }
<1>1. Root \in T
  BY DEF NodeTree
<1>2. ASSUME NEW f \in DOMAIN tree, NEW side \in {Left, Right}, f \in T, Append(f, side) \in DOMAIN tree
      PROVE  Append(f, side) \in T
  <2>1. PICK k \in 1..taken : tree[f].id = Low(pairs[k]) /\ tree[Append(f, side)].id = High(pairs[k])
    BY <1>2 DEF NodeTree
  <2>2. k \in 1..(n - 1) /\ pairs[k] \in EdgesTaken(taken)
    BY PairsAre DEF NodeGiven, EdgesTaken
  <2>3. pairs[k][1] \in S <=> pairs[k][2] \in S
    BY <2>2 DEF ClosedUnder
  <2>4. {Low(pairs[k]), High(pairs[k])} = {pairs[k][1], pairs[k][2]}
    BY <2>2, PairsAre DEF NodeGiven
  <2>5. Low(pairs[k]) \in S <=> High(pairs[k]) \in S
    BY <2>3, <2>4
  <2> QED
    BY <1>2, <2>1, <2>5
<1>3. IsTree(tree)
  BY DEF NodeTree
<1> HIDE DEF T
<1>4. DOMAIN tree \subseteq T
  BY <1>1, <1>2, <1>3, Descends
<1> QED
  BY <1>4 DEF T

\* An ID has one place in the tree.
LEMMA PlacedOnce ==
    ASSUME NodeTree, NEW p \in DOMAIN tree
    PROVE  Node!Places(tree[p].id) # {} /\ Node!Place(tree[p].id) = p
<1>1. p \in Node!Places(tree[p].id)
  BY DEF Node!Places
<1>2. Node!Place(tree[p].id) \in DOMAIN tree /\ tree[Node!Place(tree[p].id)].id = tree[p].id
  BY <1>1 DEF Node!Place, Node!Places
<1> QED
  BY <1>1, <1>2 DEF NodeTree

\* And a node that is found is at the place that is found.
LEMMA PlaceIs ==
    ASSUME NEW x, Node!Places(x) # {} PROVE Node!Place(x) \in DOMAIN tree /\ tree[Node!Place(x)].id = x
BY DEF Node!Place, Node!Places

\* The operators that both builds share are those of TreePositions.
LEMMA NodeNames ==
    /\ Node!Left = Left /\ Node!Right = Right /\ Node!Root = Root
    /\ \A t, p, x : Node!AddNode(t, p, x) = AddNode(t, p, x)
    /\ Node!EmptyTree = EmptyTree
    /\ \A V, list : Node!IsForest(V, list) <=> IsForest(V, list)
    /\ \A V, list : Graph!IsForest(V, list) <=> IsForest(V, list)
    /\ \A p, r : Node!IsPrefix(p, r) <=> IsPrefix(p, r)
<1>1. \A p, r : Node!IsPrefix(p, r) <=> IsPrefix(p, r)
  BY DEF Node!IsPrefix, IsPrefix
<1>2. \A V, E, x : Node!Component(V, E, x) = Component(V, E, x) /\ Graph!Component(V, E, x) = Component(V, E, x)
  BY DEF Node!Component, Graph!Component, Component, Node!ClosedUnder, Graph!ClosedUnder, ClosedUnder
<1>3. \A V, list : /\ Node!IsForest(V, list) <=> IsForest(V, list)
                   /\ Graph!IsForest(V, list) <=> IsForest(V, list)
  BY <1>2 DEF Node!IsForest, Graph!IsForest, IsForest
<1> QED
  BY <1>1, <1>3 DEF Node!Left, Left, Node!Right, Right, Node!Root, Root, Node!AddNode, AddNode, Node!EmptyTree, EmptyTree

\* The tree of node 1 alone.
LEMMA NodeStarts == Node!Init => NodeGiven /\ NodeTree /\ pc = "edges" /\ taken = 0 /\ q = 0 /\ (\A p \in DOMAIN tree : tree[p].value = 0)
<1> SUFFICES ASSUME Node!Init
             PROVE  NodeGiven /\ NodeTree /\ pc = "edges" /\ taken = 0 /\ q = 0 /\ (\A p \in DOMAIN tree : tree[p].value = 0)
  OBVIOUS
<1>1. PICK in \in NodeInputs : n = in.n /\ pairs = in.pairs /\ queries = in.queries
  BY DEF Node!Init
<1>2. /\ tree = AddNode(EmptyTree, Root, [id |-> 1, value |-> 0])
      /\ taken = 0 /\ q = 0 /\ pc = "edges"
  BY NodeNames DEF Node!Init
<1>3. /\ in.n \in Nat \ {0}
      /\ in.pairs \in Seq((1..in.n) \X (1..in.n)) /\ Len(in.pairs) = in.n - 1
      /\ IsForest(1..in.n, in.pairs)
      /\ in.queries \in Seq([kind: {"add", "max", "other"}, a: Nat, b: Int])
  BY <1>1, InputsAssumption, NodeNames DEF Node!InputsOK
<1>4. NodeGiven
  <2>1. Len(queries) \in Nat
    BY <1>1, <1>3
  <2> QED
    BY <1>1, <1>2, <1>3, <2>1 DEF NodeGiven, TreeGiven
<1>5. DOMAIN tree = {Root} /\ tree[Root] = [id |-> 1, value |-> 0]
  BY <1>2 DEF AddNode, EmptyTree
<1>6. IsTree(tree)
  BY <1>5, RootIsTree
<1>7. \A side \in {Left, Right} : Append(Root, side) # Root
  BY RootIs, AppendIs
<1>8. tree[Root] \in [id: 1..n, value: Int] /\ tree[Root].id = 1 /\ tree[Root].value = 0
  BY <1>4, <1>5 DEF NodeGiven, TreeGiven
<1>9. tree \in [DOMAIN tree -> Holder(n)]
  BY <1>2, <1>5, <1>8 DEF AddNode, Holder
<1>10. NodeTree
  <2>1. 1..taken = {}
    BY <1>2
  <2>2. \A p \in DOMAIN tree : p = Root
    BY <1>5
  <2> QED
    BY <1>5, <1>6, <1>7, <1>8, <1>9, <2>1, <2>2 DEF NodeTree
<1> QED
  BY <1>2, <1>4, <1>5, <1>8, <1>10

\* max_value has taken the first m nodes off the search paths to a and b.
Pruned(a, b, m) ==
    /\ m <= Len(a) + 1 /\ m <= Len(b) + 1
    /\ path_a \in Seq(Holder(n)) /\ Len(path_a) = Len(a) + 1 - m
    /\ path_b \in Seq(Holder(n)) /\ Len(path_b) = Len(b) + 1 - m
    /\ \A k \in 1..Len(path_a) : path_a[k] = tree[SubSeq(a, 1, k + m - 1)]
    /\ \A k \in 1..Len(path_b) : path_b[k] = tree[SubSeq(b, 1, k + m - 1)]
    /\ m > 0 => SubSeq(a, 1, m - 1) = SubSeq(b, 1, m - 1)
    /\ head = IF m = 0 THEN tree[Root] ELSE tree[SubSeq(a, 1, m - 1)]

\* The two paths that are being pruned are those to the ends of the query.
Pruning ==
    \E a, b \in DOMAIN tree, m \in Nat :
        tree[a].id = queries[q].a /\ tree[b].id = queries[q].b /\ Pruned(a, b, m)

\* The inductive invariant of the build with USE_TREE_NODE.
NodeInv ==
    /\ NodeGiven /\ NodeTree
    /\ pc = "edges" => q = 0 /\ \A p \in DOMAIN tree : tree[p].value = 0
    /\ pc \in {"queries", "prune"} => taken = n - 1
    /\ pc # "done" => status = "running"
    /\ pc = "prune" => q > 0 /\ queries[q].kind = "max" /\ Pruning

\* search_path returns the nodes from the root to the one searched for.
LEMMA PathStarts ==
    ASSUME NodeGiven, NodeTree, NEW p \in DOMAIN tree
    PROVE  /\ Node!SearchPath(tree[p].id) \in Seq(Holder(n))
           /\ Len(Node!SearchPath(tree[p].id)) = Len(p) + 1
           /\ \A k \in 1..(Len(p) + 1) : Node!SearchPath(tree[p].id)[k] = tree[SubSeq(p, 1, k - 1)]
<1>1. Node!Place(tree[p].id) = p
  BY PlacedOnce
<1>2. p \in Positions /\ Len(p) \in Nat
  BY TurnIs DEF NodeTree, IsTree
<1> DEFINE s == [k \in 1..(Len(p) + 1) |-> tree[SubSeq(p, 1, k - 1)]]
<1>3. Node!SearchPath(tree[p].id) = s
  BY <1>1, <1>2 DEF Node!SearchPath, Node!PathTo
<1>4. ASSUME NEW k \in 1..(Len(p) + 1) PROVE tree[SubSeq(p, 1, k - 1)] \in Holder(n)
  <2>1. k - 1 \in 0..Len(p)
    BY <1>2
  <2>2. SubSeq(p, 1, k - 1) \in DOMAIN tree
    BY <2>1 DEF NodeTree, IsTree
  <2> QED
    BY <2>2 DEF NodeTree
<1>5. s \in [1..(Len(p) + 1) -> Holder(n)] /\ Len(p) + 1 \in Nat
  BY <1>2, <1>4
<1>6. s \in Seq(Holder(n)) /\ Len(s) = Len(p) + 1
  BY <1>5
<1> QED
  BY <1>3, <1>6

\* Dropping a front that both paths share prunes them by one more.
LEMMA PrunedOnce ==
    ASSUME NodeGiven, NodeTree, NEW a \in DOMAIN tree, NEW b \in DOMAIN tree, NEW m \in Nat, Pruned(a, b, m),
           path_a # << >>, path_b # << >>, path_a[1].id = path_b[1].id,
           head' = path_a[1], path_a' = Tail(path_a), path_b' = Tail(path_b), tree' = tree, n' = n
    PROVE  Pruned(a, b, m + 1)'
<1>1. a \in Positions /\ b \in Positions /\ Len(a) \in Nat /\ Len(b) \in Nat
  BY TurnIs DEF NodeTree, IsTree
<1>2. /\ path_a \in Seq(Holder(n)) /\ Len(path_a) = Len(a) + 1 - m
      /\ path_b \in Seq(Holder(n)) /\ Len(path_b) = Len(b) + 1 - m
      /\ \A k \in 1..Len(path_a) : path_a[k] = tree[SubSeq(a, 1, k + m - 1)]
      /\ \A k \in 1..Len(path_b) : path_b[k] = tree[SubSeq(b, 1, k + m - 1)]
  BY DEF Pruned
<1>3. Len(path_a) > 0 /\ Len(path_b) > 0
  BY <1>2, EmptySeq
<1>4. m <= Len(a) /\ m <= Len(b) /\ m \in 0..Len(a) /\ m \in 0..Len(b) /\ m + 1 > 0 /\ m + 1 # 0 /\ m + 1 - 1 = m
  BY <1>1, <1>2, <1>3
<1>5. path_a[1] = tree[SubSeq(a, 1, m)] /\ path_b[1] = tree[SubSeq(b, 1, m)]
  <2>1. 1 \in 1..Len(path_a) /\ 1 \in 1..Len(path_b) /\ 1 + m - 1 = m
    BY <1>1, <1>2, <1>3
  <2> QED
    BY <1>2, <2>1
<1>6. SubSeq(a, 1, m) = SubSeq(b, 1, m)
  <2>1. SubSeq(a, 1, m) \in DOMAIN tree /\ SubSeq(b, 1, m) \in DOMAIN tree
    BY <1>4 DEF NodeTree, IsTree
  <2>2. tree[SubSeq(a, 1, m)].id = tree[SubSeq(b, 1, m)].id
    BY <1>5
  <2>3. \A p, r \in DOMAIN tree : tree[p].id = tree[r].id => p = r
    BY DEF NodeTree
  <2> QED
    BY <2>1, <2>2, <2>3
<1>7. /\ path_a' \in Seq(Holder(n)) /\ Len(path_a') = Len(a) + 1 - (m + 1)
      /\ \A k \in 1..Len(path_a') : path_a'[k] = tree[SubSeq(a, 1, k + (m + 1) - 1)]
  <2>1. /\ path_a' \in Seq(Holder(n)) /\ Len(path_a') = Len(path_a) - 1
        /\ \A k \in 1..Len(path_a') : path_a'[k] = path_a[k + 1]
    BY <1>2, <1>3, HeadTailProperties
  <2>2. ASSUME NEW k \in 1..Len(path_a') PROVE path_a'[k] = tree[SubSeq(a, 1, k + (m + 1) - 1)]
    <3>1. k + 1 \in 1..Len(path_a) /\ (k + 1) + m - 1 = k + (m + 1) - 1
      BY <1>1, <1>2, <2>1
    <3> QED
      BY <1>2, <2>1, <3>1
  <2>3. Len(path_a') = Len(a) + 1 - (m + 1)
    BY <1>1, <1>2, <2>1
  <2> QED
    BY <2>1, <2>2, <2>3
<1>8. /\ path_b' \in Seq(Holder(n)) /\ Len(path_b') = Len(b) + 1 - (m + 1)
      /\ \A k \in 1..Len(path_b') : path_b'[k] = tree[SubSeq(b, 1, k + (m + 1) - 1)]
  <2>1. /\ path_b' \in Seq(Holder(n)) /\ Len(path_b') = Len(path_b) - 1
        /\ \A k \in 1..Len(path_b') : path_b'[k] = path_b[k + 1]
    BY <1>2, <1>3, HeadTailProperties
  <2>2. ASSUME NEW k \in 1..Len(path_b') PROVE path_b'[k] = tree[SubSeq(b, 1, k + (m + 1) - 1)]
    <3>1. k + 1 \in 1..Len(path_b) /\ (k + 1) + m - 1 = k + (m + 1) - 1
      BY <1>1, <1>2, <2>1
    <3> QED
      BY <1>2, <2>1, <3>1
  <2>3. Len(path_b') = Len(b) + 1 - (m + 1)
    BY <1>1, <1>2, <2>1
  <2> QED
    BY <2>1, <2>2, <2>3
<1>9. m + 1 <= Len(a) + 1 /\ m + 1 <= Len(b) + 1
  BY <1>1, <1>4
<1> QED
  BY <1>4, <1>5, <1>6, <1>7, <1>8, <1>9 DEF Pruned

\* A beginning that two positions share is within their longest common one.
LEMMA CommonPrefixIs ==
    ASSUME NEW a \in Positions, NEW b \in Positions
    PROVE  /\ Len(Node!LongestCommonPrefix({a, b})) \in Nat
           /\ \A k \in 0..Len(a) : (k <= Len(b) /\ SubSeq(a, 1, k) = SubSeq(b, 1, k)) =>
                                       k <= Len(Node!LongestCommonPrefix({a, b}))
<1> DEFINE C == Node!CommonPrefixes({a, b})
<1>1. Len(a) \in Nat /\ Len(b) \in Nat
  BY TurnIs
<1>2. ASSUME NEW x \in C PROVE Len(x) \in 0..Len(a)
  <2>1. x \in UNION { Node!Prefixes(r) : r \in {a, b} } /\ Node!IsPrefix(x, a)
    BY DEF Node!CommonPrefixes
  <2>2. PICK r \in {a, b} : x \in Node!Prefixes(r)
    BY <2>1
  <2>3. PICK k \in 0..Len(r) : x = SubSeq(r, 1, k)
    BY <2>2 DEF Node!Prefixes
  <2>4. x \in Positions /\ Len(x) = k
    BY <2>2, <2>3, SubSeqIs
  <2>5. Len(x) <= Len(a)
    BY <2>1 DEF Node!IsPrefix
  <2> QED
    BY <1>1, <2>2, <2>4, <2>5, TurnIs
<1>3. ASSUME NEW k \in 0..Len(a), k <= Len(b), SubSeq(a, 1, k) = SubSeq(b, 1, k)
      PROVE  SubSeq(a, 1, k) \in C /\ Len(SubSeq(a, 1, k)) = k
  <2> DEFINE x == SubSeq(a, 1, k)
  <2>1. x \in Positions /\ Len(x) = k /\ Agree(x, a, k)
    BY SubSeqIs
  <2>2. x \in Node!Prefixes(a)
    BY DEF Node!Prefixes
  <2>3. k \in 0..Len(b)
    BY <1>1, <1>3
  <2>4. Agree(a, b, k)
    BY <1>3, SubSeqAgree
  <2> HIDE DEF x
  <2>5. IsPrefix(x, a) /\ IsPrefix(x, b)
    <3>1. Agree(a, x, Len(x)) /\ Agree(b, x, Len(x)) /\ Len(x) <= Len(a) /\ Len(x) <= Len(b)
      BY <1>1, <1>3, <2>1, <2>4 DEF Agree
    <3> QED
      BY <2>1, <3>1, PrefixIs
  <2>6. Node!IsPrefix(x, a) /\ Node!IsPrefix(x, b)
    BY <2>5, NodeNames
  <2>7. x \in C
    BY <2>2, <2>6 DEF Node!CommonPrefixes
  <2> QED
    BY <2>1, <2>7 DEF x
<1>4. C # {}
  <2>1. 0 \in 0..Len(a) /\ 0 <= Len(b)
    BY <1>1
  <2>2. SubSeq(a, 1, 0) = SubSeq(b, 1, 0)
    BY <2>1, SubSeqAgree DEF Agree
  <2> QED
    BY <1>3, <2>1, <2>2
<1> HIDE DEF C
<1> DEFINE T == { Len(a) - Len(x) : x \in C }
<1>5. PICK y \in T : \A z \in T : y <= z
  <2>1. T \subseteq Nat
    BY <1>1, <1>2
  <2>2. T # {}
    BY <1>4
  <2> HIDE DEF T
  <2> QED
    BY <2>1, <2>2, Least
<1>6. PICK longest \in C : y = Len(a) - Len(longest)
  BY <1>5
<1>7. \A x \in C : Len(x) <= Len(longest)
  <2> SUFFICES ASSUME NEW x \in C PROVE Len(x) <= Len(longest)
    OBVIOUS
  <2>1. Len(a) - Len(longest) <= Len(a) - Len(x)
    BY <1>5, <1>6
  <2> QED
    BY <1>1, <1>2, <2>1
<1> DEFINE w == Node!LongestCommonPrefix({a, b})
<1>8. w \in C /\ \A x \in C : Len(x) <= Len(w)
  BY <1>6, <1>7 DEF Node!LongestCommonPrefix, C
<1> HIDE DEF w
<1>9. Len(w) \in Nat
  BY <1>1, <1>2, <1>8
<1>10. ASSUME NEW k \in 0..Len(a), k <= Len(b), SubSeq(a, 1, k) = SubSeq(b, 1, k) PROVE k <= Len(w)
  BY <1>3, <1>8, <1>10
<1> QED
  BY <1>9, <1>10 DEF w

\* So pruning never goes past the last node that both paths share.
LEMMA NodePruneKeeps == NodeInv => Node!PruneKeepsPath
<1> SUFFICES ASSUME NodeInv, pc = "prune" PROVE Node!PruneKeepsPath
  BY DEF Node!PruneKeepsPath
<1>1. PICK a \in DOMAIN tree, b \in DOMAIN tree, m \in Nat :
          tree[a].id = queries[q].a /\ tree[b].id = queries[q].b /\ Pruned(a, b, m)
  BY DEF NodeInv, Pruning
<1>2. Node!Place(queries[q].a) = a /\ Node!Place(queries[q].b) = b
  BY <1>1, PlacedOnce DEF NodeInv
<1>3. a \in Positions /\ b \in Positions /\ Len(a) \in Nat /\ Len(b) \in Nat
  BY TurnIs DEF NodeInv, NodeTree, IsTree
<1> DEFINE common == Len(Node!LongestCommonPrefix({a, b}))
<1>4. common \in Nat
  BY <1>3, CommonPrefixIs
<1>5. m <= common + 1
  <2>1. CASE m = 0
    BY <1>4, <2>1
  <2>2. CASE m > 0
    <3>1. m - 1 \in 0..Len(a) /\ m - 1 <= Len(b) /\ SubSeq(a, 1, m - 1) = SubSeq(b, 1, m - 1)
      BY <1>1, <1>3, <2>2 DEF Pruned
    <3>2. m - 1 <= common
      BY <1>3, <3>1, CommonPrefixIs
    <3> QED
      BY <1>4, <3>2
  <2> QED
    BY <2>1, <2>2
<1>6. Len(a) + 1 - Len(path_a) = m /\ Len(b) + 1 - Len(path_b) = m
  BY <1>1, <1>3 DEF Pruned
<1>7. head = IF m = 0 THEN tree[Root] ELSE tree[SubSeq(a, 1, m - 1)]
  BY <1>1 DEF Pruned
<1> HIDE DEF common
<1> QED
  BY <1>2, <1>5, <1>6, <1>7, NodeNames DEF Node!PruneKeepsPath, Node!Query, common

\* An edge whose end with the lower ID is in the tree hangs the other below it;
\* the two were in different components before, so no ID comes twice.
LEMMA EdgeEnters ==
    ASSUME NodeInv, Node!InsertEdge PROVE NodeInv'
<1> DEFINE e == pairs[taken + 1]
<1> DEFINE p == Node!Place(Low(e))
<1> DEFINE side == Node!FreeSide
<1> DEFINE c == Append(p, side)
<1> DEFINE x == [id |-> High(e), value |-> 0]
<1>1. /\ pc = "edges" /\ taken < n - 1 /\ taken' = taken + 1
      /\ UNCHANGED <<n, pairs, queries, q, head, path_a, path_b, answers, pc, status>>
  BY DEF Node!InsertEdge, Node!ReadEdge, Node!args, Node!paths
<1>2. NodeGiven /\ NodeTree /\ q = 0 /\ status = "running" /\ \A r \in DOMAIN tree : tree[r].value = 0
  BY <1>1 DEF NodeInv
<1>3. taken \in Nat /\ n \in Nat /\ taken + 1 \in 1..(n - 1) /\ taken + 1 - 1 = taken /\ taken \in 0..(n - 1) /\ taken + 1 \in 0..(n - 1)
  BY <1>1, <1>2, PairsAre DEF NodeGiven
<1>4. /\ e \in (1..n) \X (1..n) /\ e[1] \in 1..n /\ e[2] \in 1..n /\ Low(e) \in 1..n /\ High(e) \in 1..n
      /\ {Low(e), High(e)} = {e[1], e[2]} /\ e[2] \notin Component(1..n, EdgesTaken(taken), e[1])
      /\ EdgesTaken(taken) \subseteq (1..n) \X (1..n)
  <2> DEFINE k == taken + 1
  <2>1. k \in 1..(n - 1) /\ k - 1 = taken
    BY <1>3
  <2> HIDE DEF k
  <2>2. /\ pairs[k] \in (1..n) \X (1..n) /\ pairs[k][1] \in 1..n /\ pairs[k][2] \in 1..n
        /\ Low(pairs[k]) \in 1..n /\ High(pairs[k]) \in 1..n
        /\ {Low(pairs[k]), High(pairs[k])} = {pairs[k][1], pairs[k][2]}
        /\ pairs[k][2] \notin Component(1..n, EdgesTaken(k - 1), pairs[k][1])
    BY <1>2, <2>1, PairsAre DEF NodeGiven
  <2>3. EdgesTaken(taken) \subseteq (1..n) \X (1..n)
    BY <1>2, <1>3, PairsAre DEF NodeGiven
  <2> QED
    BY <2>1, <2>2, <2>3 DEF k
<1>5. Node!Lower = Low(e) /\ Node!Higher = High(e)
  BY <1>3, <1>4, EndsAre DEF Node!Lower, Node!Higher
<1>6. /\ Node!Places(Low(e)) # {}
      /\ ~(Append(p, Left) \in DOMAIN tree /\ Append(p, Right) \in DOMAIN tree)
      /\ side = IF Append(p, Left) \in DOMAIN tree THEN Right ELSE Left
      /\ tree' = AddNode(tree, c, x)
  BY <1>5, NodeNames DEF Node!InsertEdge, Node!Accepts, Node!Full, Node!FreeSide
<1>7. p \in DOMAIN tree /\ tree[p].id = Low(e) /\ side \in {Left, Right} /\ c \notin DOMAIN tree
  BY <1>6, PlaceIs
<1>8. p \in Positions /\ IsTree(tree) /\ Len(p) \in Nat
  BY <1>2, <1>7, TurnIs DEF NodeTree, IsTree
<1> HIDE DEF e, p, side, x
<1>9. /\ DOMAIN tree' = DOMAIN tree \cup {c} /\ tree'[c] = x
      /\ \A r \in DOMAIN tree : tree'[r] = tree[r]
  BY <1>6, <1>7 DEF AddNode
<1>10. x \in Holder(n) /\ x.id = High(e) /\ x.value = 0
  BY <1>4 DEF x, Holder
<1>11. c \in Positions /\ Len(c) = Len(p) + 1 /\ Agree(c, p, Len(p)) /\ c # Root
  BY <1>7, <1>8, AppendIs, RootIs
<1>12. ASSUME NEW r \in DOMAIN tree PROVE tree[r].id # High(e)
  <2> SUFFICES ASSUME tree[r].id = High(e) PROVE FALSE
    OBVIOUS
  <2> DEFINE C == Component(1..n, EdgesTaken(taken), Low(e))
  <2>1. Low(e) \in C /\ ClosedUnder(C, EdgesTaken(taken))
    BY <1>4, ComponentIsClosed
  <2>2. High(e) \in C
    BY <1>2, <1>7, <2>1, AllOrNone
  <2>3. CASE Low(e) = e[1]
    BY <1>4, <2>1, <2>2, <2>3
  <2>4. CASE Low(e) # e[1]
    <3>1. Low(e) = e[2] /\ e[1] \in C
      BY <1>4, <2>1, <2>2, <2>4
    <3> QED
      BY <1>4, <3>1, ComponentIsShared
  <2> QED
    BY <2>3, <2>4
<1>13. IsTree(tree')
  <2> DEFINE new == {c}
  <2>1. \A r \in new : \E s \in {Left, Right} : r = Append(p, s)
    BY <1>7
  <2>2. DOMAIN tree' = DOMAIN tree \cup new
    BY <1>9
  <2> HIDE DEF new, c
  <2> QED
    BY <1>7, <1>8, <2>1, <2>2, AddedIsTree
<1> HIDE DEF c
<1>14. tree' \in [DOMAIN tree' -> Holder(n)]
  <2>1. \A r \in DOMAIN tree' : tree'[r] \in Holder(n)
    BY <1>2, <1>9, <1>10 DEF NodeTree
  <2> QED
    BY <1>6, <2>1 DEF AddNode
<1>15. ASSUME NEW r \in DOMAIN tree', NEW f \in DOMAIN tree', tree'[r].id = tree'[f].id PROVE r = f
  <2>1. \A z \in DOMAIN tree : tree'[z].id = tree[z].id /\ tree'[z].id # High(e)
    BY <1>9, <1>12
  <2>2. tree'[c].id = High(e)
    BY <1>9, <1>10
  <2>3. \A y, z \in DOMAIN tree : tree[y].id = tree[z].id => y = z
    BY <1>2 DEF NodeTree
  <2> QED
    BY <1>9, <1>15, <2>1, <2>2, <2>3
<1>16. ASSUME NEW k \in 1..(taken + 1)
       PROVE  \E f \in DOMAIN tree', s \in {Left, Right} :
                  /\ Append(f, s) \in DOMAIN tree'
                  /\ tree'[f].id = Low(pairs[k]) /\ tree'[Append(f, s)].id = High(pairs[k])
  <2>1. CASE k = taken + 1
    <3>1. c = Append(p, side) /\ pairs[k] = e
      BY <2>1 DEF c, e
    <3> QED
      BY <1>7, <1>9, <1>10, <3>1
  <2>2. CASE k # taken + 1
    <3>1. k \in 1..taken
      BY <1>3, <2>2
    <3>2. PICK f \in DOMAIN tree, s \in {Left, Right} :
              /\ Append(f, s) \in DOMAIN tree
              /\ tree[f].id = Low(pairs[k]) /\ tree[Append(f, s)].id = High(pairs[k])
      BY <1>2, <3>1 DEF NodeTree
    <3> QED
      BY <1>9, <3>2
  <2> QED
    BY <2>1, <2>2
<1>17. ASSUME NEW f \in DOMAIN tree', NEW s \in {Left, Right}, Append(f, s) \in DOMAIN tree'
       PROVE  \E k \in 1..(taken + 1) : tree'[f].id = Low(pairs[k]) /\ tree'[Append(f, s)].id = High(pairs[k])
  <2>1. CASE Append(f, s) \in DOMAIN tree
    <3>1. f \in DOMAIN tree
      <4>0. f \in Positions
        BY <1>13 DEF IsTree
      <4>1. Len(Append(f, s)) = Len(f) + 1 /\ Agree(Append(f, s), f, Len(f)) /\ Len(f) \in Nat
        BY <4>0, AppendIs, TurnIs
      <4>2. Len(f) <= Len(Append(f, s))
        BY <4>1
      <4> QED
        BY <1>8, <2>1, <4>0, <4>1, <4>2, AboveIsNode
    <3>2. PICK k \in 1..taken : tree[f].id = Low(pairs[k]) /\ tree[Append(f, s)].id = High(pairs[k])
      BY <1>2, <2>1, <3>1 DEF NodeTree
    <3>3. k \in 1..(taken + 1)
      BY <1>3
    <3> QED
      BY <1>9, <2>1, <3>1, <3>2, <3>3
  <2>2. CASE Append(f, s) = c
    <3>1. f \in Positions /\ c = Append(p, side)
      BY <1>13 DEF IsTree, c
    <3>2. f = p
      BY <1>7, <1>8, <2>2, <3>1, AppendedOnce
    <3>3. taken + 1 \in 1..(taken + 1) /\ pairs[taken + 1] = e
      BY <1>3 DEF e
    <3>4. tree'[f].id = Low(pairs[taken + 1]) /\ tree'[Append(f, s)].id = High(pairs[taken + 1])
      BY <1>7, <1>9, <1>10, <2>2, <3>2, <3>3
    <3> QED
      BY <3>3, <3>4
  <2> QED
    BY <1>9, <1>17, <2>1, <2>2
<1>18. NodeTree'
  <2>1. Root \in DOMAIN tree' /\ tree'[Root].id = 1
    BY <1>2, <1>9 DEF NodeTree
  <2> QED
    BY <1>1, <1>13, <1>14, <1>15, <1>16, <1>17, <2>1 DEF NodeTree
<1>19. NodeGiven'
  BY <1>1, <1>2, <1>3 DEF NodeGiven, TreeGiven
<1>20. \A r \in DOMAIN tree' : tree'[r].value = 0
  BY <1>2, <1>9, <1>10
<1> QED
  BY <1>1, <1>2, <1>18, <1>19, <1>20 DEF NodeInv

----------------------------------------------------------------------------
\* What SubtreeQueries asks about, on the tree.

\* The IDs in the tree.
Ids == { tree[p].id : p \in DOMAIN tree }

\* Below and Between of SubtreeQueries, for any nodes K and edges J.
Hangs(K, J, x) ==
    { y \in K : \A S \in SUBSET K : (x \in S /\ \A e \in J : e[1] \in S => e[2] \in S) => y \in S }

Way(K, J, a, b) ==
    { x \in K : x \in {a, b} \/ b \notin Component(K \ {x}, { e \in J : x \notin {e[1], e[2]} }, a) }

\* p is on the branch of r.
Above(p, r) == Len(p) <= Len(r) /\ Agree(r, p, Len(p))

\* What is above a position is above its children, and the converse but for
\* the child itself.
LEMMA AboveTurns ==
    ASSUME NEW p \in Positions, NEW r \in Positions, NEW side \in {Left, Right}
    PROVE  /\ Above(p, p)
           /\ Above(p, r) => Above(p, Append(r, side))
           /\ Above(p, Append(r, side)) /\ p # Append(r, side) => Above(p, r)
<1> DEFINE c == Append(r, side)
<1>1. c \in Positions /\ Len(c) = Len(r) + 1 /\ Agree(c, r, Len(r)) /\ Len(r) \in Nat /\ Len(p) \in Nat
  BY AppendIs, TurnIs
<1> HIDE DEF c
<1>2. Above(p, p)
  BY <1>1 DEF Above, Agree
<1>3. Above(p, r) => Above(p, c)
  BY <1>1 DEF Above, Agree
<1>4. ASSUME Above(p, c), p # c PROVE Above(p, r)
  <2>1. Len(p) # Len(c)
    <3> SUFFICES ASSUME Len(p) = Len(c) PROVE FALSE
      OBVIOUS
    <3>1. Agree(c, p, Len(c))
      BY <1>4 DEF Above
    <3> QED
      BY <1>1, <1>4, <3>1, SamePosition
  <2>2. Len(p) <= Len(r)
    BY <1>1, <1>4, <2>1 DEF Above
  <2> QED
    BY <1>1, <1>4, <2>2 DEF Above, Agree
<1> QED
  BY <1>2, <1>3, <1>4 DEF c

\* The edges of SubtreeQueries go from the lower ID to the higher one.
LEMMA JoinedIs ==
    ASSUME TreeGiven
    PROVE  /\ \A e \in Graph!Joined : \E k \in 1..(n - 1) : e = <<Low(pairs[k]), High(pairs[k])>>
           /\ \A k \in 1..(n - 1) : <<Low(pairs[k]), High(pairs[k])>> \in Graph!Joined
<1>1. DOMAIN pairs = 1..(n - 1) /\ n \in Nat
  BY PairsAre
<1>2. \A k \in 1..(n - 1) : Graph!Min(Graph!ToSet(pairs[k])) = Low(pairs[k]) /\ Graph!Max(Graph!ToSet(pairs[k])) = High(pairs[k])
  BY <1>1, PairsAre, EndsAre
<1> QED
  BY <1>1, <1>2 DEF Graph!Joined

\* They are those from a position to its children.
LEMMA JoinedInTree ==
    ASSUME NodeGiven, NodeTree, taken = n - 1
    PROVE  /\ \A e \in Graph!Joined : \E p \in DOMAIN tree, side \in {Left, Right} :
                  Append(p, side) \in DOMAIN tree /\ e = <<tree[p].id, tree[Append(p, side)].id>>
           /\ \A p \in DOMAIN tree, side \in {Left, Right} :
                  Append(p, side) \in DOMAIN tree => <<tree[p].id, tree[Append(p, side)].id>> \in Graph!Joined
           /\ Graph!Joined \subseteq Ids \X Ids
<1>1. ASSUME NEW e \in Graph!Joined
      PROVE  \E p \in DOMAIN tree, side \in {Left, Right} :
                 Append(p, side) \in DOMAIN tree /\ e = <<tree[p].id, tree[Append(p, side)].id>>
  <2>1. PICK k \in 1..(n - 1) : e = <<Low(pairs[k]), High(pairs[k])>>
    BY JoinedIs DEF NodeGiven
  <2>2. k \in 1..taken
    OBVIOUS
  <2> QED
    BY <2>1, <2>2 DEF NodeTree
<1>2. ASSUME NEW p \in DOMAIN tree, NEW side \in {Left, Right}, Append(p, side) \in DOMAIN tree
      PROVE  <<tree[p].id, tree[Append(p, side)].id>> \in Graph!Joined
  <2>1. PICK k \in 1..taken : tree[p].id = Low(pairs[k]) /\ tree[Append(p, side)].id = High(pairs[k])
    BY <1>2 DEF NodeTree
  <2>2. k \in 1..(n - 1)
    OBVIOUS
  <2> QED
    BY <2>1, <2>2, JoinedIs DEF NodeGiven
<1>3. ASSUME NEW e \in Graph!Joined PROVE e \in Ids \X Ids
  BY <1>1 DEF Ids
<1> QED
  BY <1>1, <1>2, <1>3

\* What hangs from a node is what is below its position.
LEMMA HangsBelow ==
    ASSUME NodeGiven, NodeTree, taken = n - 1, NEW a \in DOMAIN tree, NEW r \in DOMAIN tree
    PROVE  tree[r].id \in Hangs(Ids, Graph!Joined, tree[a].id) <=> Above(a, r)
<1>1. IsTree(tree) /\ \A p \in DOMAIN tree : p \in Positions
  BY DEF NodeTree, IsTree
<1>2. \A p, f \in DOMAIN tree : tree[p].id = tree[f].id => p = f
  BY DEF NodeTree
<1>3. ASSUME Above(a, r) PROVE tree[r].id \in Hangs(Ids, Graph!Joined, tree[a].id)
  <2> SUFFICES ASSUME NEW S \in SUBSET Ids, tree[a].id \in S, \A e \in Graph!Joined : e[1] \in S => e[2] \in S
               PROVE  tree[r].id \in S
    BY DEF Hangs, Ids
  <2> DEFINE T == { p \in DOMAIN tree : Above(a, p) => tree[p].id \in S }
  <2>1. Root \in DOMAIN tree => Root \in T
    <3> SUFFICES ASSUME Root \in DOMAIN tree, Above(a, Root) PROVE tree[Root].id \in S
      OBVIOUS
    <3>1. a \in Positions /\ Len(a) = 0
      BY <1>1, RootIs, TurnIs DEF Above
    <3>2. a = Root
      BY <3>1, RootIs, SamePosition DEF Agree
    <3> QED
      BY <3>2
  <2>2. ASSUME NEW p \in DOMAIN tree, NEW side \in {Left, Right}, p \in T, Append(p, side) \in DOMAIN tree
        PROVE  Append(p, side) \in T
    <3> DEFINE c == Append(p, side)
    <3> SUFFICES ASSUME Above(a, c) PROVE tree[c].id \in S
      BY <2>2
    <3>1. CASE a = c
      BY <3>1
    <3>2. CASE a # c
      <4>1. Above(a, p)
        BY <1>1, <3>2, AboveTurns
      <4>2. <<tree[p].id, tree[c].id>> \in Graph!Joined
        BY <2>2, JoinedInTree
      <4>3. tree[p].id \in S
        BY <2>2, <4>1
      <4> HIDE DEF c
      <4> QED
        BY <4>2, <4>3
    <3> QED
      BY <3>1, <3>2
  <2> HIDE DEF T
  <2>3. DOMAIN tree \subseteq T
    BY <1>1, <2>1, <2>2, Descends
  <2> QED
    BY <1>3, <2>3 DEF T
<1>4. ASSUME tree[r].id \in Hangs(Ids, Graph!Joined, tree[a].id) PROVE Above(a, r)
  <2> DEFINE S == { tree[p].id : p \in { f \in DOMAIN tree : Above(a, f) } }
  <2>1. S \in SUBSET Ids
    BY DEF Ids
  <2>2. tree[a].id \in S
    BY <1>1, AboveTurns
  <2>3. ASSUME NEW e \in Graph!Joined, e[1] \in S PROVE e[2] \in S
    <3>1. PICK p \in DOMAIN tree, side \in {Left, Right} :
              Append(p, side) \in DOMAIN tree /\ e = <<tree[p].id, tree[Append(p, side)].id>>
      BY JoinedInTree
    <3>2. Above(a, p)
      BY <1>2, <2>3, <3>1
    <3>3. Above(a, Append(p, side))
      BY <1>1, <3>2, AboveTurns
    <3> QED
      BY <3>1, <3>3
  <2> HIDE DEF S
  <2>4. tree[r].id \in S
    BY <1>4, <2>1, <2>2, <2>3 DEF Hangs
  <2> QED
    BY <1>2, <2>4 DEF S
<1> QED
  BY <1>3, <1>4

\* The nodes of the branch of a from depth c on.
Branch(a, c) == { SubSeq(a, 1, k) : k \in c..Len(a) }

\* The branches of a and b are the same down to depth c, and no further.
Parts(a, b, c) ==
    /\ c \in Nat /\ c <= Len(a) /\ c <= Len(b)
    /\ SubSeq(a, 1, c) = SubSeq(b, 1, c)
    /\ c = Len(a) \/ c = Len(b) \/ a[c + 1] # b[c + 1]

\* The edges that do not touch x.
Without(x) == { e \in Graph!Joined : x \notin {e[1], e[2]} }

\* A position is the whole of itself.
LEMMA WholeIs ==
    ASSUME NEW p \in Positions PROVE Len(p) \in Nat /\ Len(p) \in 0..Len(p) /\ SubSeq(p, 1, Len(p)) = p
<1> DEFINE r == SubSeq(p, 1, Len(p))
<1>1. Len(p) \in Nat /\ Len(p) \in 0..Len(p)
  BY TurnIs
<1>2. r \in Positions /\ Len(r) = Len(p) /\ Agree(r, p, Len(p))
  BY <1>1, SubSeqIs
<1> HIDE DEF r
<1>3. r = p
  BY <1>2, SamePosition
<1> QED
  BY <1>1, <1>3 DEF r

\* Where two positions part does not depend on which is named first.
LEMMA PartsAlike ==
    ASSUME NEW a \in Positions, NEW b \in Positions, NEW c, Parts(a, b, c) PROVE Parts(b, a, c)
BY DEF Parts

\* Edges that do not touch x join other nodes.
LEMMA WithoutIsIn ==
    ASSUME NodeGiven, NodeTree, taken = n - 1, NEW x
    PROVE  Without(x) \subseteq (Ids \ {x}) \X (Ids \ {x})
<1>1. ASSUME NEW e \in Without(x) PROVE e \in (Ids \ {x}) \X (Ids \ {x})
  <2>1. e \in Ids \X Ids /\ x # e[1] /\ x # e[2]
    BY JoinedInTree DEF Without
  <2> QED
    BY <2>1
<1> QED
  BY <1>1

\* A node of the branch of a, below the fork, cannot be avoided.
LEMMA Unavoidable ==
    ASSUME NodeGiven, NodeTree, taken = n - 1, NEW a \in DOMAIN tree, NEW b \in DOMAIN tree, NEW c, Parts(a, b, c),
           NEW k \in c..Len(a), NEW r \in DOMAIN tree, r = SubSeq(a, 1, k), r # a, r # b
    PROVE  tree[b].id \notin Component(Ids \ {tree[r].id}, Without(tree[r].id), tree[a].id)
<1>1. \A p \in DOMAIN tree : p \in Positions
  BY DEF NodeTree, IsTree
<1>2. \A p, f \in DOMAIN tree : tree[p].id = tree[f].id => p = f
  BY DEF NodeTree
<1>3. c \in Nat /\ Len(a) \in Nat /\ Len(b) \in Nat /\ k \in 0..Len(a) /\ k \in Nat
  BY <1>1, TurnIs DEF Parts
<1>4. Len(r) = k /\ Agree(r, a, k)
  BY <1>1, <1>3, SubSeqIs
<1>5. k # Len(a)
  BY <1>1, <1>4, SamePosition
<1>6. k + 1 \in 0..Len(a) /\ c <= k
  BY <1>3, <1>5
<1> DEFINE y == SubSeq(a, 1, k + 1)
<1>7. y \in DOMAIN tree /\ y \in Positions /\ Len(y) = k + 1 /\ Agree(y, a, k + 1)
  BY <1>1, <1>6, SubSeqIs DEF NodeTree, IsTree
<1> HIDE DEF y
<1> DEFINE S == { tree[p].id : p \in { f \in DOMAIN tree : Above(y, f) } }
<1>8. S \in SUBSET (Ids \ {tree[r].id})
  <2>1. ~Above(y, r)
    BY <1>3, <1>4, <1>7 DEF Above
  <2> QED
    BY <1>2, <2>1 DEF Ids
<1>9. tree[a].id \in S
  <2>1. Above(y, a)
    BY <1>3, <1>6, <1>7 DEF Above, Agree
  <2> QED
    BY <2>1
<1>10. tree[b].id \notin S
  <2> SUFFICES ASSUME Above(y, b) PROVE FALSE
    BY <1>2
  <2>1. c # Len(a) /\ c < Len(b) /\ c + 1 \in 1..(k + 1) /\ k + 1 <= Len(b)
    BY <1>3, <1>5, <1>6, <1>7 DEF Above
  <2>2. b[c + 1] = y[c + 1] /\ y[c + 1] = a[c + 1]
    BY <1>7, <2>1 DEF Above, Agree
  <2> QED
    BY <1>3, <2>1, <2>2 DEF Parts
<1>11. ClosedUnder(S, Without(tree[r].id))
  <2> SUFFICES ASSUME NEW e \in Without(tree[r].id) PROVE e[1] \in S <=> e[2] \in S
    BY DEF ClosedUnder
  <2>1. PICK p \in DOMAIN tree, side \in {Left, Right} :
            Append(p, side) \in DOMAIN tree /\ e = <<tree[p].id, tree[Append(p, side)].id>>
    BY JoinedInTree DEF Without
  <2> DEFINE f == Append(p, side)
  <2>2. p # r /\ f \in Positions /\ Len(f) = Len(p) + 1 /\ Agree(f, p, Len(p)) /\ Len(p) \in Nat
    BY <1>1, <2>1, AppendIs, TurnIs DEF Without
  <2>3. y # f
    <3> SUFFICES ASSUME y = f PROVE FALSE
      OBVIOUS
    <3>1. Len(p) = k
      BY <1>3, <1>7, <2>2
    <3>2. Agree(p, r, k)
      <4>1. Agree(y, p, k) /\ Agree(y, a, k + 1) /\ Agree(r, a, k)
        BY <1>4, <1>7, <2>2, <3>1
      <4>2. \A l \in 1..k : y[l] = p[l] /\ y[l] = a[l] /\ r[l] = a[l]
        <5>1. \A l \in 1..k : l \in 1..(k + 1)
          BY <1>3
        <5> HIDE DEF f
        <5> QED
          BY <4>1, <5>1 DEF Agree
      <4> QED
        BY <4>2 DEF Agree
    <3> QED
      BY <1>1, <1>4, <2>2, <3>1, <3>2, SamePosition
  <2>4. Above(y, p) <=> Above(y, f)
    BY <1>1, <1>7, <2>3, AboveTurns
  <2> HIDE DEF f
  <2>5. f \in DOMAIN tree /\ e[1] = tree[p].id /\ e[2] = tree[f].id
    BY <2>1 DEF f
  <2> QED
    BY <1>2, <2>4, <2>5
<1> HIDE DEF S
<1> QED
  BY <1>8, <1>9, <1>10, <1>11, ComponentIsLeast

\* Along a branch, what no edge leads out of has all from depth c on or none.
LEMMA AlongBranch ==
    ASSUME NodeGiven, NodeTree, taken = n - 1, NEW a \in DOMAIN tree, NEW c \in 0..Len(a), NEW x, NEW S,
           ClosedUnder(S, Without(x)), \A k \in c..Len(a) : tree[SubSeq(a, 1, k)].id # x
    PROVE  tree[SubSeq(a, 1, c)].id \in S <=> tree[a].id \in S
<1>1. a \in Positions /\ Len(a) \in Nat /\ c \in Nat
  BY TurnIs DEF NodeTree, IsTree
<1> DEFINE K == { k \in Nat : c + k <= Len(a) =>
                      (tree[SubSeq(a, 1, c)].id \in S <=> tree[SubSeq(a, 1, c + k)].id \in S) }
<1>2. 0 \in K
  BY <1>1
<1>3. ASSUME NEW k \in Nat, k \in K PROVE k + 1 \in K
  <2> SUFFICES ASSUME c + (k + 1) <= Len(a)
               PROVE  tree[SubSeq(a, 1, c)].id \in S <=> tree[SubSeq(a, 1, c + (k + 1))].id \in S
    OBVIOUS
  <2> DEFINE m == c + k
  <2>1. m \in 0..Len(a) /\ m + 1 \in 0..Len(a) /\ m \in c..Len(a) /\ m + 1 \in c..Len(a) /\ c + (k + 1) = m + 1 /\ m + 1 \in 1..Len(a) /\ c + k <= Len(a)
    BY <1>1
  <2> HIDE DEF m
  <2> DEFINE p == SubSeq(a, 1, m)
  <2> DEFINE f == SubSeq(a, 1, m + 1)
  <2>2. /\ p \in DOMAIN tree /\ p \in Positions /\ Len(p) = m /\ Agree(p, a, m)
        /\ f \in DOMAIN tree /\ f \in Positions /\ Len(f) = m + 1 /\ Agree(f, a, m + 1)
    BY <1>1, <2>1, SubSeqIs DEF NodeTree, IsTree
  <2>3. a[m + 1] \in {Left, Right}
    BY <1>1, <2>1, TurnIs
  <2>4. f = Append(p, a[m + 1])
    <3> DEFINE g == Append(p, a[m + 1])
    <3>1. g \in Positions /\ Len(g) = m + 1 /\ g[m + 1] = a[m + 1] /\ Agree(g, p, m)
      <4>1. g \in Positions /\ Len(g) = Len(p) + 1 /\ g[Len(p) + 1] = a[m + 1] /\ Agree(g, p, Len(p))
        BY <2>2, <2>3, AppendIs
      <4> HIDE DEF g
      <4> QED
        BY <2>2, <4>1
    <3> HIDE DEF g
    <3>2. Agree(g, f, m + 1)
      BY <2>1, <2>2, <3>1 DEF Agree
    <3>3. g = f
      BY <2>1, <2>2, <3>1, <3>2, SamePosition
    <3> QED
      BY <3>3 DEF g
  <2>5. <<tree[p].id, tree[f].id>> \in Graph!Joined
    BY <2>2, <2>3, <2>4, JoinedInTree
  <2>6. tree[p].id # x /\ tree[f].id # x
    BY <2>1
  <2> HIDE DEF p, f
  <2>7. <<tree[p].id, tree[f].id>> \in Without(x)
    BY <2>5, <2>6 DEF Without
  <2>8. tree[p].id \in S <=> tree[f].id \in S
    BY <2>7 DEF ClosedUnder
  <2>9. tree[SubSeq(a, 1, c)].id \in S <=> tree[SubSeq(a, 1, c + k)].id \in S
    BY <1>3, <2>1
  <2> QED
    BY <2>1, <2>8, <2>9 DEF p, f, m
<1> HIDE DEF K
<1>4. Nat \subseteq K
  BY <1>2, <1>3, Induction
<1>5. Len(a) - c \in K /\ c + (Len(a) - c) = Len(a)
  <2>1. Len(a) - c \in Nat /\ c + (Len(a) - c) = Len(a)
    BY <1>1
  <2> QED
    BY <1>4, <2>1
<1>6. SubSeq(a, 1, Len(a)) = a
  BY <1>1, WholeIs
<1> QED
  <2>1. c + (Len(a) - c) <= Len(a)
    BY <1>1
  <2> QED
    BY <1>5, <1>6, <2>1 DEF K

\* What cannot be avoided between two nodes are the branches that lead to them
\* from where these part.
LEMMA WayIs ==
    ASSUME NodeGiven, NodeTree, taken = n - 1, NEW a \in DOMAIN tree, NEW b \in DOMAIN tree, NEW c, Parts(a, b, c),
           NEW r \in DOMAIN tree
    PROVE  tree[r].id \in Way(Ids, Graph!Joined, tree[a].id, tree[b].id) <=> r \in Branch(a, c) \cup Branch(b, c)
<1> DEFINE x == tree[r].id
<1>1. \A p \in DOMAIN tree : p \in Positions /\ Len(p) \in Nat
  BY TurnIs DEF NodeTree, IsTree
<1>2. \A p, f \in DOMAIN tree : tree[p].id = tree[f].id => p = f
  BY DEF NodeTree
<1>3. a \in Branch(a, c) /\ b \in Branch(b, c)
  <2>1. ASSUME NEW p \in DOMAIN tree, c <= Len(p) PROVE p \in Branch(p, c)
    <3>1. Len(p) \in c..Len(p) /\ Len(p) \in 0..Len(p)
      BY <1>1, <2>1 DEF Parts
    <3>2. SubSeq(p, 1, Len(p)) = p
      BY <1>1, WholeIs
    <3> QED
      BY <3>1, <3>2 DEF Branch
  <2> QED
    BY <2>1 DEF Parts
<1>4. x \in Ids
  BY DEF Ids
<1>5. x \in Way(Ids, Graph!Joined, tree[a].id, tree[b].id) <=>
          r = a \/ r = b \/ tree[b].id \notin Component(Ids \ {x}, Without(x), tree[a].id)
  BY <1>2, <1>4 DEF Way, Without
<1>6. ASSUME r \in Branch(a, c) \cup Branch(b, c), r # a, r # b
      PROVE  tree[b].id \notin Component(Ids \ {x}, Without(x), tree[a].id)
  <2>1. CASE r \in Branch(a, c)
    <3>1. PICK k \in c..Len(a) : r = SubSeq(a, 1, k)
      BY <2>1 DEF Branch
    <3> QED
      BY <1>6, <3>1, Unavoidable
  <2>2. CASE r \in Branch(b, c)
    <3>1. PICK k \in c..Len(b) : r = SubSeq(b, 1, k)
      BY <2>2 DEF Branch
    <3>2. Parts(b, a, c)
      BY <1>1, PartsAlike
    <3>3. tree[a].id \notin Component(Ids \ {x}, Without(x), tree[b].id)
      BY <1>6, <3>1, <3>2, Unavoidable
    <3>4. tree[a].id \in Ids \ {x}
      BY <1>2, <1>6 DEF Ids
    <3>5. Without(x) \subseteq (Ids \ {x}) \X (Ids \ {x})
      BY WithoutIsIn
    <3> HIDE DEF x
    <3> QED
      BY <3>3, <3>4, <3>5, ComponentIsShared
  <2> QED
    BY <1>6, <2>1, <2>2
<1>7. ASSUME r \notin Branch(a, c) \cup Branch(b, c)
      PROVE  tree[b].id \in Component(Ids \ {x}, Without(x), tree[a].id)
  <2>1. \A k \in c..Len(a) : tree[SubSeq(a, 1, k)].id # x
    <3> SUFFICES ASSUME NEW k \in c..Len(a), tree[SubSeq(a, 1, k)].id = x PROVE FALSE
      OBVIOUS
    <3>1. k \in 0..Len(a) /\ SubSeq(a, 1, k) \in Branch(a, c)
      BY <1>1 DEF Parts, Branch
    <3>2. SubSeq(a, 1, k) \in DOMAIN tree
      BY <3>1 DEF NodeTree, IsTree
    <3> QED
      BY <1>2, <1>7, <3>1, <3>2
  <2>2. \A k \in c..Len(b) : tree[SubSeq(b, 1, k)].id # x
    <3> SUFFICES ASSUME NEW k \in c..Len(b), tree[SubSeq(b, 1, k)].id = x PROVE FALSE
      OBVIOUS
    <3>1. k \in 0..Len(b) /\ SubSeq(b, 1, k) \in Branch(b, c)
      BY <1>1 DEF Parts, Branch
    <3>2. SubSeq(b, 1, k) \in DOMAIN tree
      BY <3>1 DEF NodeTree, IsTree
    <3> QED
      BY <1>2, <1>7, <3>1, <3>2
  <2>3. tree[b].id \in Ids \ {x}
    BY <1>2, <1>3, <1>7 DEF Ids
  <2> HIDE DEF x
  <2>4. ASSUME NEW S \in SUBSET (Ids \ {x}), ClosedUnder(S, Without(x)), tree[a].id \in S
        PROVE  tree[b].id \in S
    <3>1. c \in 0..Len(a) /\ c \in 0..Len(b) /\ SubSeq(a, 1, c) = SubSeq(b, 1, c)
      BY <1>1 DEF Parts
    <3>2. tree[SubSeq(a, 1, c)].id \in S
      BY <2>1, <2>4, <3>1, AlongBranch
    <3>3. tree[SubSeq(b, 1, c)].id \in S
      BY <3>1, <3>2
    <3> QED
      BY <2>2, <2>4, <3>1, <3>3, AlongBranch
  <2> QED
    BY <2>3, <2>4 DEF Component
<1> QED
  BY <1>3, <1>5, <1>6, <1>7

----------------------------------------------------------------------------
\* The steps of the tree_node build keep NodeInv.

\* What is kept as long as the inputs are.
LEMMA NodeGivenKept ==
    ASSUME NodeGiven, UNCHANGED <<n, pairs, queries, taken>>, q' \in 0..Len(queries),
           pc' \in {"edges", "queries", "prune", "done"}
    PROVE  NodeGiven'
<1>1. IsForest(1..n, pairs)' <=> IsForest(1..n, pairs)
  BY DEF IsForest, Component, ClosedUnder
<1> QED
  BY <1>1 DEF NodeGiven, TreeGiven

\* And as long as nodes only change their values.
LEMMA NodeTreeKept ==
    ASSUME NodeTree, UNCHANGED <<n, pairs, taken>>, tree' \in [DOMAIN tree -> Holder(n)],
           \A p \in DOMAIN tree : tree'[p].id = tree[p].id
    PROVE  NodeTree'
<1>1. DOMAIN tree' = DOMAIN tree
  OBVIOUS
<1>2. IsTree(tree')
  BY <1>1 DEF NodeTree, IsTree
<1>3. Root \in DOMAIN tree' /\ tree'[Root].id = 1
  BY <1>1 DEF NodeTree
<1>4. \A p, r \in DOMAIN tree' : tree'[p].id = tree'[r].id => p = r
  BY <1>1 DEF NodeTree
<1>5. \A k \in 1..taken : \E p \in DOMAIN tree', side \in {Left, Right} :
           /\ Append(p, side) \in DOMAIN tree'
           /\ tree'[p].id = Low(pairs[k]) /\ tree'[Append(p, side)].id = High(pairs[k])
  <2> SUFFICES ASSUME NEW k \in 1..taken
               PROVE  \E p \in DOMAIN tree', side \in {Left, Right} :
                          /\ Append(p, side) \in DOMAIN tree'
                          /\ tree'[p].id = Low(pairs[k]) /\ tree'[Append(p, side)].id = High(pairs[k])
    OBVIOUS
  <2>1. PICK p \in DOMAIN tree, side \in {Left, Right} :
            /\ Append(p, side) \in DOMAIN tree
            /\ tree[p].id = Low(pairs[k]) /\ tree[Append(p, side)].id = High(pairs[k])
    BY DEF NodeTree
  <2> QED
    BY <1>1, <2>1
<1>6. \A p \in DOMAIN tree', side \in {Left, Right} :
           Append(p, side) \in DOMAIN tree' =>
               \E k \in 1..taken : tree'[p].id = Low(pairs[k]) /\ tree'[Append(p, side)].id = High(pairs[k])
  <2> SUFFICES ASSUME NEW p \in DOMAIN tree', NEW side \in {Left, Right}, Append(p, side) \in DOMAIN tree'
               PROVE  \E k \in 1..taken : tree'[p].id = Low(pairs[k]) /\ tree'[Append(p, side)].id = High(pairs[k])
    OBVIOUS
  <2>1. PICK k \in 1..taken : tree[p].id = Low(pairs[k]) /\ tree[Append(p, side)].id = High(pairs[k])
    BY <1>1 DEF NodeTree
  <2> QED
    BY <1>1, <2>1
<1> QED
  BY <1>1, <1>2, <1>3, <1>4, <1>5, <1>6 DEF NodeTree

\* What an add does to each node.
LEMMA AddRaises ==
    ASSUME NodeGiven, NodeTree, Node!Add, q < Len(queries)
    PROVE  /\ tree' \in [DOMAIN tree -> Holder(n)]
           /\ \A p \in DOMAIN tree : /\ tree'[p].id = tree[p].id
                                     /\ (\E a \in DOMAIN tree : tree[a].id = queries[q + 1].a /\ IsPrefix(a, p)) =>
                                            tree'[p].value = tree[p].value + queries[q + 1].b
                                     /\ ~(\E a \in DOMAIN tree : tree[a].id = queries[q + 1].a /\ IsPrefix(a, p)) =>
                                            tree'[p].value = tree[p].value
<1> DEFINE x == queries[q + 1].a
<1> DEFINE y == queries[q + 1].b
<1> DEFINE raised == IF Node!Places(x) = {} THEN {} ELSE Node!SubtreeAt(tree, Node!Place(x))
<1>1. q' = q + 1 /\ queries' = queries /\ y \in Int
  <2>1. q + 1 \in 1..Len(queries) /\ queries \in Seq([kind: {"add", "max", "other"}, a: Nat, b: Int])
    BY DEF NodeGiven
  <2>2. queries[q + 1] \in [kind: {"add", "max", "other"}, a: Nat, b: Int]
    BY <2>1, ElementOfSeq
  <2> QED
    BY <2>2 DEF Node!Add, Node!ReadQuery, Node!args
<1>2. tree' = [p \in DOMAIN tree |-> IF p \in raised THEN [tree[p] EXCEPT !.value = @ + y] ELSE tree[p]]
  BY <1>1 DEF Node!Add, Node!Query
<1>3. ASSUME NEW p \in DOMAIN tree
      PROVE  p \in raised <=> \E a \in DOMAIN tree : tree[a].id = x /\ IsPrefix(a, p)
  <2>1. CASE Node!Places(x) = {}
    BY <2>1 DEF Node!Places
  <2>2. CASE Node!Places(x) # {}
    <3>1. Node!Place(x) \in DOMAIN tree /\ tree[Node!Place(x)].id = x
      BY <2>2, PlaceIs
    <3>2. p \in raised <=> IsPrefix(Node!Place(x), p)
      BY <2>2, NodeNames DEF Node!SubtreeAt
    <3>3. \A a \in DOMAIN tree : tree[a].id = x => a = Node!Place(x)
      BY <3>1 DEF NodeTree
    <3> QED
      BY <3>1, <3>2, <3>3
  <2> QED
    BY <2>1, <2>2
<1> HIDE DEF raised, x, y
<1>4. ASSUME NEW p \in DOMAIN tree
      PROVE  /\ tree'[p] \in Holder(n) /\ tree'[p].id = tree[p].id
             /\ tree'[p].value = IF p \in raised THEN tree[p].value + y ELSE tree[p].value
  <2>1. tree[p] \in [id: 1..n, value: Int]
    BY DEF NodeTree, Holder
  <2>2. PICK i_1 \in 1..n, v \in Int : tree[p] = [id |-> i_1, value |-> v]
    BY <2>1
  <2>3. CASE p \in raised
    <3>1. tree'[p] = [id |-> i_1, value |-> v + y]
      BY <1>2, <2>2, <2>3
    <3>2. v + y \in Int
      BY <1>1 DEF y
    <3> QED
      BY <2>2, <2>3, <3>1, <3>2 DEF Holder
  <2>4. CASE p \notin raised
    BY <1>2, <2>1, <2>4 DEF Holder
  <2> QED
    BY <2>3, <2>4
<1>5. tree' \in [DOMAIN tree -> Holder(n)]
  BY <1>2, <1>4
<1> QED
  BY <1>3, <1>4, <1>5 DEF x, y

\* What every query that is read has in common.
LEMMA NodeQueryRead ==
    ASSUME NodeInv, NEW kind, Node!ReadQuery(kind)
    PROVE  /\ NodeGiven /\ NodeTree /\ pc = "queries" /\ status = "running" /\ taken = n - 1
           /\ q < Len(queries) /\ q \in Nat /\ q' = q + 1 /\ q' \in 0..Len(queries) /\ q' > 0
           /\ queries[q + 1].kind = kind /\ queries[q + 1] \in [kind: {"add", "max", "other"}, a: Nat, b: Int]
           /\ UNCHANGED <<n, pairs, queries, taken>>
<1>1. /\ pc = "queries" /\ q < Len(queries) /\ q' = q + 1 /\ queries[q + 1].kind = kind
      /\ UNCHANGED <<n, pairs, queries, taken>>
  BY DEF Node!ReadQuery, Node!args
<1>2. NodeGiven /\ NodeTree /\ status = "running" /\ taken = n - 1
  BY <1>1 DEF NodeInv
<1>3. Len(queries) \in Nat /\ q \in 0..Len(queries) /\ queries \in Seq([kind: {"add", "max", "other"}, a: Nat, b: Int])
  BY <1>2 DEF NodeGiven
<1>4. q + 1 \in 1..Len(queries) /\ q \in Nat /\ q + 1 \in 0..Len(queries) /\ q + 1 > 0
  BY <1>1, <1>3
<1>5. queries[q + 1] \in [kind: {"add", "max", "other"}, a: Nat, b: Int]
  BY <1>3, <1>4, ElementOfSeq
<1> QED
  BY <1>1, <1>2, <1>4, <1>5

\* The steps of the build with USE_TREE_NODE keep its invariant, one by one.
LEMMA NodeAdd == ASSUME NodeInv, Node!Add PROVE NodeInv'
<1>1. /\ NodeGiven /\ NodeTree /\ pc = "queries" /\ status = "running" /\ taken = n - 1
      /\ q < Len(queries) /\ q' \in 0..Len(queries) /\ UNCHANGED <<n, pairs, queries, taken>>
  BY NodeQueryRead DEF Node!Add
<1>2. pc' = pc /\ status' = status
  BY DEF Node!Add
<1>3. tree' \in [DOMAIN tree -> Holder(n)] /\ \A p \in DOMAIN tree : tree'[p].id = tree[p].id
  BY <1>1, AddRaises
<1>4. NodeGiven'
  BY <1>1, <1>2, NodeGivenKept
<1>5. NodeTree'
  BY <1>1, <1>3, NodeTreeKept
<1> QED
  BY <1>1, <1>2, <1>4, <1>5 DEF NodeInv

LEMMA NodeStartsMax == ASSUME NodeInv, Node!StartMax PROVE NodeInv'
<1> DEFINE x == queries[q + 1].a
<1> DEFINE y == queries[q + 1].b
<1>1. /\ NodeGiven /\ NodeTree /\ pc = "queries" /\ status = "running" /\ taken = n - 1
      /\ q' = q + 1 /\ q' > 0 /\ q < Len(queries) /\ q' \in 0..Len(queries) /\ UNCHANGED <<n, pairs, queries, taken>>
      /\ queries[q + 1].kind = "max"
  BY NodeQueryRead DEF Node!StartMax
<1>2. tree' = tree /\ status' = status
  BY DEF Node!StartMax
<1>3. tree' \in [DOMAIN tree -> Holder(n)]
  BY <1>1, <1>2 DEF NodeTree
<1>4. NodeTree'
  BY <1>1, <1>2, <1>3, NodeTreeKept
<1>5. CASE Node!Places(x) = {} \/ Node!Places(y) = {}
  <2>1. pc' = pc
    BY <1>1, <1>5 DEF Node!StartMax, Node!Query
  <2>2. NodeGiven'
    BY <1>1, <2>1, NodeGivenKept
  <2> QED
    BY <1>1, <1>2, <1>4, <2>1, <2>2 DEF NodeInv
<1>6. CASE ~(Node!Places(x) = {} \/ Node!Places(y) = {})
  <2>1. pc' = "prune" /\ head' = tree[Root] /\ path_a' = Node!SearchPath(x) /\ path_b' = Node!SearchPath(y)
    BY <1>1, <1>6, NodeNames DEF Node!StartMax, Node!Query
  <2>2. NodeGiven'
    BY <1>1, <2>1, NodeGivenKept
  <2>3. PICK a \in DOMAIN tree, b \in DOMAIN tree : tree[a].id = x /\ tree[b].id = y
    BY <1>6, PlaceIs
  <2> HIDE DEF x, y
  <2>4. /\ path_a' \in Seq(Holder(n)) /\ Len(path_a') = Len(a) + 1
        /\ \A k \in 1..(Len(a) + 1) : path_a'[k] = tree[SubSeq(a, 1, k - 1)]
        /\ path_b' \in Seq(Holder(n)) /\ Len(path_b') = Len(b) + 1
        /\ \A k \in 1..(Len(b) + 1) : path_b'[k] = tree[SubSeq(b, 1, k - 1)]
    BY <1>1, <2>1, <2>3, PathStarts
  <2>5. Len(a) \in Nat /\ Len(b) \in Nat
    BY <1>1, <2>3, TurnIs DEF NodeTree, IsTree
  <2>6. Pruned(a, b, 0)'
    <3>1. \A k \in 1..Len(path_a') : path_a'[k] = tree'[SubSeq(a, 1, k + 0 - 1)]
      BY <1>2, <2>4, <2>5
    <3>2. \A k \in 1..Len(path_b') : path_b'[k] = tree'[SubSeq(b, 1, k + 0 - 1)]
      BY <1>2, <2>4, <2>5
    <3>3. /\ 0 <= Len(a) + 1 /\ 0 <= Len(b) + 1 /\ Len(path_a') = Len(a) + 1 - 0 /\ Len(path_b') = Len(b) + 1 - 0
          /\ head' = tree'[Root]
      BY <1>2, <2>1, <2>4, <2>5
    <3> QED
      BY <1>1, <2>4, <3>1, <3>2, <3>3 DEF Pruned, Holder
  <2>7. Pruning'
    <3>1. a \in DOMAIN tree' /\ b \in DOMAIN tree' /\ tree'[a].id = queries'[q'].a /\ tree'[b].id = queries'[q'].b
      BY <1>1, <1>2, <2>3 DEF x, y
    <3> QED
      BY <2>6, <3>1 DEF Pruning
  <2> QED
    BY <1>1, <1>2, <1>4, <2>1, <2>2, <2>7 DEF NodeInv
<1> QED
  BY <1>5, <1>6

LEMMA NodePrunes == ASSUME NodeInv, Node!Prune PROVE NodeInv'
<1>1. /\ pc = "prune" /\ path_a # << >> /\ path_b # << >> /\ path_a[1].id = path_b[1].id
      /\ head' = path_a[1] /\ path_a' = Tail(path_a) /\ path_b' = Tail(path_b)
      /\ UNCHANGED <<n, pairs, queries, tree, taken, q, answers, pc, status>>
  BY DEF Node!Prune, Node!Shared, Node!args
<1>2. NodeGiven /\ NodeTree /\ taken = n - 1 /\ status = "running" /\ q > 0 /\ queries[q].kind = "max" /\ Pruning
  BY <1>1 DEF NodeInv
<1>3. PICK a \in DOMAIN tree, b \in DOMAIN tree, m \in Nat :
          tree[a].id = queries[q].a /\ tree[b].id = queries[q].b /\ Pruned(a, b, m)
  BY <1>2 DEF Pruning
<1>4. Pruned(a, b, m + 1)'
  BY <1>1, <1>2, <1>3, PrunedOnce
<1>5. Pruning'
  <2>1. a \in DOMAIN tree' /\ b \in DOMAIN tree' /\ tree'[a].id = queries'[q'].a /\ tree'[b].id = queries'[q'].b /\ m + 1 \in Nat
    BY <1>1, <1>3
  <2> QED
    BY <1>4, <2>1 DEF Pruning
<1>6. NodeGiven'
  BY <1>1, <1>2, NodeGivenKept DEF NodeGiven, TreeGiven
<1>7. NodeTree'
  BY <1>1, <1>2, NodeTreeKept DEF NodeTree
<1> QED
  BY <1>1, <1>2, <1>5, <1>6, <1>7 DEF NodeInv

LEMMA NodeOthers ==
    ASSUME NodeInv,
           \/ Node!RejectEdge \/ Node!StartQueries \/ Node!Report \/ Node!UnknownQuery
           \/ Node!Exit \/ Node!Finished \/ UNCHANGED Node!vars
    PROVE  NodeInv'
<1>0. NodeGiven /\ NodeTree
  BY DEF NodeInv
<1>1. /\ UNCHANGED <<n, pairs, queries, tree, taken>> /\ q' \in 0..Len(queries)
      /\ pc' \in {"edges", "queries", "prune", "done"}
  <2>1. CASE Node!UnknownQuery
    BY <2>1, NodeQueryRead DEF Node!UnknownQuery
  <2> QED
    BY <1>0, <2>1 DEF Node!RejectEdge, Node!StartQueries, Node!Report, Node!Exit, Node!Finished, Node!vars, Node!args, NodeGiven
<1>2. NodeGiven'
  BY <1>0, <1>1, NodeGivenKept
<1>3. NodeTree'
  BY <1>0, <1>1, NodeTreeKept DEF NodeTree
<1>4. CASE Node!RejectEdge \/ Node!UnknownQuery \/ Node!Exit
  <2>1. pc' = "done"
    BY <1>4 DEF Node!RejectEdge, Node!UnknownQuery, Node!Exit
  <2> QED
    BY <1>2, <1>3, <2>1 DEF NodeInv
<1>5. CASE Node!StartQueries \/ Node!Report
  <2>1. pc' = "queries" /\ status' = status /\ pc # "done" /\ (pc = "prune" \/ taken = n - 1)
    BY <1>5 DEF Node!StartQueries, Node!Report
  <2> QED
    BY <1>1, <1>2, <1>3, <2>1 DEF NodeInv
<1>6. CASE Node!Finished \/ UNCHANGED Node!vars
  <2>1. UNCHANGED <<n, pairs, queries, tree, taken, q, head, path_a, path_b, answers, pc, status>>
    BY <1>6 DEF Node!Finished, Node!vars, Node!args, Node!paths
  <2>2. Pruning => Pruning'
    BY <2>1, ZenonT(40) DEF Pruning, Pruned, Holder
  <2> QED
    BY <1>2, <1>3, <2>1, <2>2 DEF NodeInv
<1> QED
  BY <1>4, <1>5, <1>6

\* All of them.
LEMMA NodeStep == ASSUME NodeInv, [Node!Next]_(Node!vars) PROVE NodeInv'
<1>1. CASE Node!InsertEdge
  BY <1>1, EdgeEnters
<1>2. CASE Node!Add
  BY <1>2, NodeAdd
<1>3. CASE Node!StartMax
  BY <1>3, NodeStartsMax
<1>4. CASE Node!Prune
  BY <1>4, NodePrunes
<1> QED
  BY <1>1, <1>2, <1>3, <1>4, NodeOthers DEF Node!Next

\* And it holds at the start.
LEMMA NodeBegins == Node!Init => NodeInv
<1> SUFFICES ASSUME Node!Init PROVE NodeInv
  OBVIOUS
<1>1. NodeGiven /\ NodeTree /\ pc = "edges" /\ q = 0 /\ \A p \in DOMAIN tree : tree[p].value = 0
  BY NodeStarts
<1>2. status = "running"
  BY DEF Node!Init
<1> QED
  BY <1>1, <1>2 DEF NodeInv

----------------------------------------------------------------------------
\* The tree_node build follows SubtreeQueries.

\* The operators of SubtreeQueries as this module names them.
LEMMA PromiseNames ==
    /\ \A x : Promise!Below(x) = Hangs(PromisedKnown, PromisedJoined, x)
    /\ \A a, b : Promise!Between(a, b) = Way(PromisedKnown, PromisedJoined, a, b)
    /\ \A S : Promise!Max(S) = Max(S) /\ Node!Max(S) = Max(S) /\ Graph!Max(S) = Max(S)
<1>1. \A V, E, x : Promise!Component(V, E, x) = Component(V, E, x)
  BY DEF Promise!Component, Component, Promise!ClosedUnder, ClosedUnder
<1>2. \A a, b : Promise!Between(a, b) = Way(PromisedKnown, PromisedJoined, a, b)
  BY <1>1 DEF Promise!Between, Way
<1>3. \A x : Promise!Below(x) = Hangs(PromisedKnown, PromisedJoined, x)
  BY DEF Promise!Below, Hangs
<1>4. \A S : Promise!Max(S) = Max(S) /\ Node!Max(S) = Max(S) /\ Graph!Max(S) = Max(S)
  BY DEF Promise!Max, Node!Max, Graph!Max, Max
<1> QED
  BY <1>2, <1>3, <1>4

\* With all edges taken, the tree has the nodes that SubtreeQueries knows.
LEMMA KnownIs ==
    ASSUME NodeGiven, NodeTree, taken = n - 1 PROVE Node!Known = Ids
<1>1. /\ n \in Nat /\ n > 0 /\ DOMAIN pairs = 1..(n - 1) /\ IsTree(tree) /\ Root \in DOMAIN tree /\ tree[Root].id = 1
      /\ \A k \in 1..(n - 1) : Node!ToSet(pairs[k]) = {Low(pairs[k]), High(pairs[k])}
  <2>1. n \in Nat /\ n > 0 /\ DOMAIN pairs = 1..(n - 1) /\ \A k \in 1..(n - 1) : pairs[k] \in (1..n) \X (1..n)
    BY PairsAre DEF NodeGiven
  <2>2. ASSUME NEW k \in 1..(n - 1) PROVE Node!ToSet(pairs[k]) = {Low(pairs[k]), High(pairs[k])}
    BY <2>1, EndsAre
  <2> QED
    BY <2>1, <2>2 DEF NodeTree
<1>2. ASSUME NEW p \in DOMAIN tree, NEW side \in {Left, Right}, Append(p, side) \in DOMAIN tree
      PROVE  \E k \in 1..(n - 1) : tree[p].id \in Node!ToSet(pairs[k]) /\ tree[Append(p, side)].id \in Node!ToSet(pairs[k])
  <2>1. PICK k \in 1..taken : tree[p].id = Low(pairs[k]) /\ tree[Append(p, side)].id = High(pairs[k])
    BY <1>2 DEF NodeTree
  <2> QED
    BY <1>1, <2>1
<1>3. ASSUME NEW p \in DOMAIN tree, p # Root
      PROVE  \E f \in DOMAIN tree, side \in {Left, Right} : p = Append(f, side)
  <2> DEFINE T == { r \in DOMAIN tree : r = Root \/ \E f \in DOMAIN tree, side \in {Left, Right} : r = Append(f, side) }
  <2>1. DOMAIN tree \subseteq T
    BY <1>1, Descends
  <2> QED
    BY <1>3, <2>1
<1>4. ASSUME NEW p \in DOMAIN tree, NEW side \in {Left, Right} PROVE Append(p, side) # Root
  <2>1. p \in Positions /\ Len(p) \in Nat
    BY <1>1, TurnIs DEF IsTree
  <2>2. Len(Append(p, side)) = Len(p) + 1 /\ Len(Root) = 0
    BY <2>1, AppendIs, RootIs
  <2> HIDE DEF Root
  <2> QED
    BY <2>1, <2>2
<1>5. CASE n = 1
  <2>1. \A p \in DOMAIN tree, side \in {Left, Right} : Append(p, side) \notin DOMAIN tree
    BY <1>2, <1>5
  <2>2. \A p \in DOMAIN tree : p = Root
    BY <1>3, <2>1, ZenonT(40)
  <2>3. Ids = {1}
    BY <1>1, <2>2 DEF Ids
  <2> QED
    BY <1>5, <2>3 DEF Node!Known
<1>6. CASE n # 1
  <2>1. Node!Known = UNION { Node!ToSet(pairs[k]) : k \in 1..(n - 1) }
    BY <1>1, <1>6 DEF Node!Known
  <2>2. ASSUME NEW x \in Node!Known PROVE x \in Ids
    <3>1. PICK k \in 1..(n - 1) : x \in {Low(pairs[k]), High(pairs[k])}
      BY <1>1, <2>1
    <3>2. PICK p \in DOMAIN tree, side \in {Left, Right} :
              /\ Append(p, side) \in DOMAIN tree
              /\ tree[p].id = Low(pairs[k]) /\ tree[Append(p, side)].id = High(pairs[k])
      BY DEF NodeTree
    <3> QED
      BY <3>1, <3>2 DEF Ids
  <2>3. ASSUME NEW p \in DOMAIN tree, p # Root PROVE tree[p].id \in Node!Known
    <3>1. PICK f \in DOMAIN tree, side \in {Left, Right} : p = Append(f, side)
      BY <1>3, <2>3
    <3>2. PICK k \in 1..(n - 1) : tree[p].id \in Node!ToSet(pairs[k])
      BY <1>2, <3>1
    <3> QED
      BY <2>1, <3>2
  <2>4. tree[Root].id \in Node!Known
    <3>1. \E side \in {Left, Right} : Append(Root, side) \in DOMAIN tree
      <4> SUFFICES ASSUME \A side \in {Left, Right} : Append(Root, side) \notin DOMAIN tree PROVE FALSE
        OBVIOUS
      <4> DEFINE T == {Root}
      <4>1. DOMAIN tree \subseteq T
        BY <1>1, Descends
      <4>2. 1 \in 1..taken
        BY <1>1, <1>6
      <4>3. PICK p \in DOMAIN tree, side \in {Left, Right} : Append(p, side) \in DOMAIN tree
        BY <4>2 DEF NodeTree
      <4> QED
        BY <1>4, <4>1, <4>3
    <3>2. PICK side \in {Left, Right} : Append(Root, side) \in DOMAIN tree
      BY <3>1
    <3>3. PICK k \in 1..(n - 1) : tree[Root].id \in Node!ToSet(pairs[k])
      BY <1>1, <1>2, <3>2
    <3> QED
      BY <2>1, <3>3
  <2> QED
    BY <2>2, <2>3, <2>4 DEF Ids
<1> QED
  BY <1>5, <1>6

\* Every node is promised the value it holds.
LEMMA NodeValuesAre ==
    ASSUME NodeGiven, NodeTree, taken = n - 1
    PROVE  /\ DOMAIN Node!PromisedValues = Ids
           /\ Node!PromisedValues = [x \in Ids |-> Node!PromisedValues[x]]
           /\ \A p \in DOMAIN tree : Node!PromisedValues[tree[p].id] = tree[p].value
<1>1. Node!Known = Ids
  BY KnownIs
<1>2. Node!PromisedValues = [x \in Ids |-> IF Node!Places(x) = {} THEN 0 ELSE tree[Node!Place(x)].value]
  BY <1>1 DEF Node!PromisedValues
<1>3. ASSUME NEW p \in DOMAIN tree PROVE Node!PromisedValues[tree[p].id] = tree[p].value
  BY <1>2, PlacedOnce DEF Ids
<1> QED
  BY <1>2, <1>3

\* While edges are read every value is 0.
LEMMA NoValuesYet ==
    ASSUME \A p \in DOMAIN tree : tree[p].value = 0
    PROVE  Node!PromisedValues = [x \in Node!Known |-> 0]
<1>1. \A x : IF Node!Places(x) = {} THEN TRUE ELSE tree[Node!Place(x)].value = 0
  BY PlaceIs
<1> QED
  BY <1>1 DEF Node!PromisedValues

\* The variables of SubtreeQueries while the build with USE_TREE_NODE runs.
LEMMA NodeMapped ==
    ASSUME program = "node", program' = "node"
    PROVE  /\ PromisedKnown = Node!Known /\ PromisedJoined = Graph!Joined /\ PromisedQueries = queries
           /\ PromisedAnswered = Node!Answered /\ PromisedGaveUp = (status = "EXIT_FAILURE")
           /\ PromisedValues = Node!PromisedValues /\ PromisedAnswers = answers
           /\ PromisedKnown' = Node!Known' /\ PromisedJoined' = Graph!Joined' /\ PromisedQueries' = queries'
           /\ PromisedAnswered' = Node!Answered' /\ PromisedGaveUp' = (status' = "EXIT_FAILURE")
           /\ PromisedValues' = Node!PromisedValues' /\ PromisedAnswers' = answers'
BY DEF PromisedKnown, PromisedJoined, PromisedQueries, PromisedAnswered, PromisedGaveUp, PromisedValues, PromisedAnswers

\* What a max reports when what the two paths share has been pruned.
LEMMA NodeMaxIs ==
    ASSUME NodeGiven, NodeTree, taken = n - 1, NEW a \in DOMAIN tree, NEW b \in DOMAIN tree, NEW m \in Nat,
           Pruned(a, b, m), ~Node!Shared
    PROVE  {head.value} \cup Node!ValuesOf(path_a) \cup Node!ValuesOf(path_b) =
               { Node!PromisedValues[x] : x \in Way(Ids, Graph!Joined, tree[a].id, tree[b].id) }
<1>1. a \in Positions /\ b \in Positions /\ Len(a) \in Nat /\ Len(b) \in Nat
  BY TurnIs DEF NodeTree, IsTree
<1>2. /\ m <= Len(a) + 1 /\ m <= Len(b) + 1
      /\ Len(path_a) = Len(a) + 1 - m /\ Len(path_b) = Len(b) + 1 - m /\ path_a \in Seq(Holder(n)) /\ path_b \in Seq(Holder(n))
      /\ \A k \in 1..Len(path_a) : path_a[k] = tree[SubSeq(a, 1, k + m - 1)]
      /\ \A k \in 1..Len(path_b) : path_b[k] = tree[SubSeq(b, 1, k + m - 1)]
      /\ m > 0 => SubSeq(a, 1, m - 1) = SubSeq(b, 1, m - 1)
      /\ head = IF m = 0 THEN tree[Root] ELSE tree[SubSeq(a, 1, m - 1)]
  BY DEF Pruned
<1>3. ASSUME m <= Len(a), m <= Len(b) PROVE SubSeq(a, 1, m) # SubSeq(b, 1, m)
  <2>1. 1 \in 1..Len(path_a) /\ 1 \in 1..Len(path_b) /\ 1 + m - 1 = m
    BY <1>1, <1>2, <1>3
  <2>2. path_a[1] = tree[SubSeq(a, 1, m)] /\ path_b[1] = tree[SubSeq(b, 1, m)] /\ path_a # << >> /\ path_b # << >>
    <3>1. path_a[1] = tree[SubSeq(a, 1, 1 + m - 1)] /\ path_b[1] = tree[SubSeq(b, 1, 1 + m - 1)]
      BY <1>2, <2>1
    <3> QED
      BY <2>1, <3>1
  <2> QED
    BY <2>2 DEF Node!Shared
<1>4. m # 0
  <2> SUFFICES ASSUME m = 0 PROVE FALSE
    OBVIOUS
  <2>1. 0 \in 0..Len(a) /\ 0 \in 0..Len(b)
    BY <1>1
  <2>2. SubSeq(a, 1, 0) = SubSeq(b, 1, 0)
    <3>1. /\ SubSeq(a, 1, 0) \in Positions /\ Len(SubSeq(a, 1, 0)) = 0
          /\ SubSeq(b, 1, 0) \in Positions /\ Len(SubSeq(b, 1, 0)) = 0
      BY <1>1, <2>1, SubSeqIs
    <3> QED
      BY <3>1, SamePosition DEF Agree
  <2> QED
    BY <1>1, <1>3, <2>2
<1> DEFINE c == m - 1
<1>5. c \in Nat /\ c <= Len(a) /\ c <= Len(b) /\ m = c + 1 /\ c \in 0..Len(a) /\ c \in 0..Len(b)
  BY <1>1, <1>2, <1>4
<1>6. SubSeq(a, 1, c) = SubSeq(b, 1, c) /\ head = tree[SubSeq(a, 1, c)]
  BY <1>2, <1>4
<1> HIDE DEF c
<1>7. Parts(a, b, c)
  <2> SUFFICES ASSUME c # Len(a), c # Len(b), a[c + 1] = b[c + 1] PROVE FALSE
    BY <1>5, <1>6 DEF Parts
  <2>1. m <= Len(a) /\ m <= Len(b) /\ m \in 0..Len(a) /\ m \in 0..Len(b)
    BY <1>1, <1>2, <1>5
  <2> DEFINE x == SubSeq(a, 1, m)
  <2> DEFINE y == SubSeq(b, 1, m)
  <2>2. x \in Positions /\ Len(x) = m /\ Agree(x, a, m) /\ y \in Positions /\ Len(y) = m /\ Agree(y, b, m)
    BY <1>1, <2>1, SubSeqIs
  <2>3. Agree(a, b, c)
    <3> DEFINE z == SubSeq(a, 1, c)
    <3>1. Agree(z, a, c) /\ Agree(z, b, c)
      BY <1>1, <1>5, <1>6, SubSeqIs
    <3> QED
      BY <3>1 DEF Agree
  <2> HIDE DEF x, y
  <2>4. \A k \in 1..m : k \in 1..c \/ k = c + 1
    BY <1>5
  <2>5. Agree(x, y, m)
    BY <2>2, <2>3, <2>4 DEF Agree
  <2>6. x = y
    BY <2>2, <2>5, SamePosition
  <2> QED
    BY <1>3, <2>1, <2>6 DEF x, y
<1>8. ASSUME NEW p \in DOMAIN tree, NEW s, Len(p) \in Nat, Len(s) = Len(p) + 1 - m, m <= Len(p) + 1, c <= Len(p), s \in Seq(Holder(n)),
             \A k \in 1..Len(s) : s[k] = tree[SubSeq(p, 1, k + m - 1)]
      PROVE  {tree[SubSeq(p, 1, c)].value} \cup Node!ValuesOf(s) = { tree[r].value : r \in Branch(p, c) }
  <2>1. DOMAIN s = 1..Len(s)
    BY <1>8
  <2>2. ASSUME NEW k \in DOMAIN s PROVE \E r \in Branch(p, c) : s[k].value = tree[r].value
    <3>1. k + m - 1 \in c..Len(p)
      BY <1>5, <1>8, <2>1
    <3> QED
      BY <1>8, <2>1, <3>1 DEF Branch
  <2>3. SubSeq(p, 1, c) \in Branch(p, c)
    BY <1>5, <1>8 DEF Branch
  <2>4. ASSUME NEW r \in Branch(p, c), r # SubSeq(p, 1, c) PROVE \E k \in DOMAIN s : s[k].value = tree[r].value
    <3>1. PICK j_1 \in c..Len(p) : r = SubSeq(p, 1, j_1)
      BY DEF Branch
    <3>2. j_1 # c
      BY <2>4, <3>1
    <3>3. j_1 - c \in 1..Len(s) /\ (j_1 - c) + m - 1 = j_1
      BY <1>5, <1>8, <3>2
    <3>4. s[j_1 - c] = tree[SubSeq(p, 1, (j_1 - c) + m - 1)]
      BY <1>8, <3>3
    <3> QED
      BY <2>1, <3>1, <3>3, <3>4
  <2> DEFINE o == SubSeq(p, 1, c)
  <2> HIDE DEF o
  <2>5. Node!ValuesOf(s) = { s[k].value : k \in DOMAIN s }
    BY DEF Node!ValuesOf
  <2>6. o \in Branch(p, c) /\ \A r \in Branch(p, c) : r # o => \E k \in DOMAIN s : s[k].value = tree[r].value
    BY <2>3, <2>4 DEF o
  <2>7. {tree[o].value} \cup { s[k].value : k \in DOMAIN s } = { tree[r].value : r \in Branch(p, c) }
    BY <2>2, <2>6
  <2> QED
    BY <2>5, <2>7 DEF o
<1>9. {head.value} \cup Node!ValuesOf(path_a) = { tree[r].value : r \in Branch(a, c) }
  BY <1>1, <1>2, <1>5, <1>6, <1>8
<1>10. {head.value} \cup Node!ValuesOf(path_b) = { tree[r].value : r \in Branch(b, c) }
  BY <1>1, <1>2, <1>5, <1>6, <1>8
<1>11. Branch(a, c) \subseteq DOMAIN tree /\ Branch(b, c) \subseteq DOMAIN tree
  <2>1. ASSUME NEW p \in DOMAIN tree, Len(p) \in Nat, NEW k \in c..Len(p) PROVE SubSeq(p, 1, k) \in DOMAIN tree
    <3>1. k \in 0..Len(p)
      BY <1>5, <2>1
    <3> QED
      BY <3>1 DEF NodeTree, IsTree
  <2> QED
    BY <1>1, <2>1 DEF Branch
<1> DEFINE W == Way(Ids, Graph!Joined, tree[a].id, tree[b].id)
<1>12. \A r \in DOMAIN tree : tree[r].id \in W <=> r \in Branch(a, c) \cup Branch(b, c)
  BY <1>7, WayIs
<1>13. \A x \in W : \E r \in DOMAIN tree : x = tree[r].id
  BY DEF Way, Ids
<1> HIDE DEF W
<1>14. \A r \in DOMAIN tree : Node!PromisedValues[tree[r].id] = tree[r].value
  BY NodeValuesAre
<1>15. { tree[r].value : r \in Branch(a, c) \cup Branch(b, c) } = { Node!PromisedValues[x] : x \in W }
  <2>1. \A r \in Branch(a, c) \cup Branch(b, c) : tree[r].id \in W /\ tree[r].value = Node!PromisedValues[tree[r].id]
    BY <1>11, <1>12, <1>14
  <2>2. \A x \in W : \E r \in Branch(a, c) \cup Branch(b, c) : Node!PromisedValues[x] = tree[r].value
    BY <1>12, <1>13, <1>14
  <2> QED
    BY <2>1, <2>2
<1>16. {head.value} \cup Node!ValuesOf(path_a) \cup Node!ValuesOf(path_b) = { tree[r].value : r \in Branch(a, c) \cup Branch(b, c) }
  BY <1>9, <1>10
<1> QED
  BY <1>15, <1>16 DEF W

\* The initial states of that build are initial states of SubtreeQueries.
LEMMA NodePromised ==
    ASSUME Node!Init, program = "node" PROVE Promise!Init
<1>1. q = 0 /\ pc = "edges" /\ status = "running" /\ answers = << >> /\ \A p \in DOMAIN tree : tree[p].value = 0
  BY NodeStarts DEF Node!Init
<1>2. /\ PromisedAnswered = Node!Answered /\ PromisedKnown = Node!Known /\ PromisedValues = Node!PromisedValues
      /\ PromisedAnswers = answers /\ PromisedGaveUp = (status = "EXIT_FAILURE")
  BY DEF PromisedAnswered, PromisedKnown, PromisedValues, PromisedAnswers, PromisedGaveUp
<1>3. Node!Answered = 0
  BY <1>1 DEF Node!Answered
<1>4. PromisedValues = [x \in PromisedKnown |-> 0]
  BY <1>1, <1>2, NoValuesYet
<1>5. PromisedGaveUp = FALSE
  BY <1>1, <1>2
<1> QED
  BY <1>1, <1>2, <1>3, <1>4, <1>5 DEF Promise!Init

\* What is promised does not change while these do not.
LEMMA NodeNoChange ==
    ASSUME program = "node", program' = "node", UNCHANGED <<n, pairs, queries, answers>>,
           Node!Answered' = Node!Answered, status' = status \/ (status # "EXIT_FAILURE" /\ status' # "EXIT_FAILURE"),
           Node!PromisedValues' = Node!PromisedValues
    PROVE  UNCHANGED Promise!vars
<1>1. /\ PromisedKnown = Node!Known /\ PromisedJoined = Graph!Joined /\ PromisedQueries = queries
      /\ PromisedAnswered = Node!Answered /\ PromisedGaveUp = (status = "EXIT_FAILURE")
      /\ PromisedValues = Node!PromisedValues /\ PromisedAnswers = answers
      /\ PromisedKnown' = Node!Known' /\ PromisedJoined' = Graph!Joined' /\ PromisedQueries' = queries'
      /\ PromisedAnswered' = Node!Answered' /\ PromisedGaveUp' = (status' = "EXIT_FAILURE")
      /\ PromisedValues' = Node!PromisedValues' /\ PromisedAnswers' = answers'
  BY NodeMapped
<1>2. Node!Known' = Node!Known /\ Graph!Joined' = Graph!Joined
  BY DEF Node!Known, Graph!Joined, Node!ToSet, Graph!ToSet, Graph!Min, Graph!Max
<1>3. PromisedGaveUp' = PromisedGaveUp
  BY <1>1
<1> QED
  BY <1>1, <1>2, <1>3 DEF Promise!vars

\* The ways in which that build gives up.
LEMMA NodeGivesUp ==
    ASSUME program = "node", program' = "node", UNCHANGED <<n, pairs, queries, tree, answers>>,
           Node!Answered' = Node!Answered, status # "EXIT_FAILURE", status' = "EXIT_FAILURE",
           \/ Node!Answered = 0
           \/ Node!Answered < Len(queries) /\ queries[Node!Answered + 1].kind \notin {"add", "max"}
    PROVE  Promise!GiveUp
<1>1. /\ PromisedKnown = Node!Known /\ PromisedJoined = Graph!Joined /\ PromisedQueries = queries
      /\ PromisedAnswered = Node!Answered /\ PromisedGaveUp = (status = "EXIT_FAILURE")
      /\ PromisedValues = Node!PromisedValues /\ PromisedAnswers = answers
      /\ PromisedKnown' = Node!Known' /\ PromisedJoined' = Graph!Joined' /\ PromisedQueries' = queries'
      /\ PromisedAnswered' = Node!Answered' /\ PromisedGaveUp' = (status' = "EXIT_FAILURE")
      /\ PromisedValues' = Node!PromisedValues' /\ PromisedAnswers' = answers'
  BY NodeMapped
<1>2. Node!Known' = Node!Known /\ Graph!Joined' = Graph!Joined
  BY DEF Node!Known, Graph!Joined, Node!ToSet, Graph!ToSet, Graph!Min, Graph!Max
<1>3. Node!PromisedValues' = Node!PromisedValues
  BY <1>2 DEF Node!PromisedValues, Node!Places, Node!Place
<1>4. ~PromisedGaveUp /\ PromisedGaveUp' = TRUE
  BY <1>1
<1>5. PromisedAnswered = 0 \/ (PromisedAnswered < Len(PromisedQueries) /\ PromisedQueries[PromisedAnswered + 1].kind \notin {"add", "max"})
  BY <1>1
<1>6. UNCHANGED <<PromisedKnown, PromisedJoined, PromisedQueries, PromisedAnswered, PromisedValues, PromisedAnswers>>
  BY <1>1, <1>2, <1>3
<1> QED
  BY <1>4, <1>5, <1>6 DEF Promise!GiveUp

\* A query that is answered.
LEMMA NodeAnswers ==
    ASSUME program = "node", program' = "node", UNCHANGED <<n, pairs, queries>>, status # "EXIT_FAILURE", status' = status,
           NEW kind, Node!Answered < Len(queries), queries[Node!Answered + 1].kind = kind, Node!Answered' = Node!Answered + 1
    PROVE  Promise!Query(kind)
<1>1. /\ PromisedKnown = Node!Known /\ PromisedJoined = Graph!Joined /\ PromisedQueries = queries
      /\ PromisedAnswered = Node!Answered /\ PromisedGaveUp = (status = "EXIT_FAILURE")
      /\ PromisedKnown' = Node!Known' /\ PromisedJoined' = Graph!Joined' /\ PromisedQueries' = queries'
      /\ PromisedAnswered' = Node!Answered' /\ PromisedGaveUp' = (status' = "EXIT_FAILURE")
  BY NodeMapped
<1>2. Node!Known' = Node!Known /\ Graph!Joined' = Graph!Joined
  BY DEF Node!Known, Graph!Joined, Node!ToSet, Graph!ToSet, Graph!Min, Graph!Max
<1>3. ~PromisedGaveUp /\ PromisedGaveUp' = PromisedGaveUp
  BY <1>1
<1> QED
  BY <1>1, <1>2, <1>3 DEF Promise!Query

\* An add that is applied at once is an add of SubtreeQueries.
LEMMA NodeAddFollows ==
    ASSUME NodeInv, Node!Add, program = "node", program' = "node" PROVE Promise!AddBelow
<1> DEFINE x == queries[q + 1].a
<1> DEFINE y == queries[q + 1].b
<1>1. /\ NodeGiven /\ NodeTree /\ pc = "queries" /\ status = "running" /\ taken = n - 1 /\ q \in Nat
      /\ q < Len(queries) /\ q' = q + 1 /\ q' > 0 /\ queries[q + 1].kind = "add" /\ UNCHANGED <<n, pairs, queries, taken>>
      /\ UNCHANGED <<answers, pc, status>>
  BY NodeQueryRead DEF Node!Add
<1>2. Node!Answered = q /\ Node!Answered' = q + 1
  BY <1>1 DEF Node!Answered
<1>3. Promise!Query("add")
  BY <1>1, <1>2, NodeAnswers
<1>4. /\ tree' \in [DOMAIN tree -> Holder(n)]
      /\ \A p \in DOMAIN tree : /\ tree'[p].id = tree[p].id
                                /\ (\E a \in DOMAIN tree : tree[a].id = x /\ IsPrefix(a, p)) => tree'[p].value = tree[p].value + y
                                /\ ~(\E a \in DOMAIN tree : tree[a].id = x /\ IsPrefix(a, p)) => tree'[p].value = tree[p].value
  BY <1>1, AddRaises
<1>5. NodeInv'
  BY NodeAdd
<1>6. NodeGiven' /\ NodeTree' /\ taken' = n' - 1
  BY <1>1, <1>5 DEF NodeInv
<1>7. /\ PromisedKnown = Node!Known /\ PromisedJoined = Graph!Joined /\ PromisedQueries = queries
      /\ PromisedAnswered = Node!Answered
      /\ PromisedValues = Node!PromisedValues /\ PromisedAnswers = answers
      /\ PromisedValues' = Node!PromisedValues' /\ PromisedAnswers' = answers'
  BY NodeMapped
<1>8. PromisedKnown = Ids /\ PromisedKnown' = PromisedKnown
  BY <1>1, <1>3, <1>7, KnownIs DEF Promise!Query
<1>9. \A a, p \in DOMAIN tree : IsPrefix(a, p) <=> tree[p].id \in Hangs(Ids, Graph!Joined, tree[a].id)
  <2> SUFFICES ASSUME NEW a \in DOMAIN tree, NEW p \in DOMAIN tree
               PROVE  IsPrefix(a, p) <=> tree[p].id \in Hangs(Ids, Graph!Joined, tree[a].id)
    OBVIOUS
  <2>1. a \in Positions /\ p \in Positions
    BY <1>1 DEF NodeTree, IsTree
  <2>2. IsPrefix(a, p) <=> Above(a, p)
    BY <2>1, PrefixIs DEF Above
  <2> QED
    BY <1>1, <2>2, HangsBelow
<1>10. ASSUME NEW p \in DOMAIN tree
       PROVE  (\E a \in DOMAIN tree : tree[a].id = x /\ IsPrefix(a, p)) <=>
                  (x \in Ids /\ tree[p].id \in Hangs(Ids, Graph!Joined, x))
  BY <1>9 DEF Ids
<1>11. DOMAIN Node!PromisedValues = Ids /\ \A p \in DOMAIN tree : Node!PromisedValues[tree[p].id] = tree[p].value
  BY <1>1, NodeValuesAre
<1>12. /\ Node!PromisedValues' = [z \in Ids |-> Node!PromisedValues'[z]]
       /\ \A p \in DOMAIN tree : Node!PromisedValues'[tree[p].id] = tree'[p].value
  <2>1. Node!Known' = Ids
    BY <1>1, <1>8, <1>7, KnownIs DEF Node!Known
  <2>2. Node!PromisedValues' = [z \in Ids |-> IF Node!Places(z)' = {} THEN 0 ELSE tree'[Node!Place(z)'].value]
    BY <2>1 DEF Node!PromisedValues
  <2>3. ASSUME NEW p \in DOMAIN tree, NEW z, z = tree[p].id PROVE Node!Places(z)' # {} /\ Node!Place(z)' = p
    <3>1. Node!Places(z)' = { r \in DOMAIN tree : tree[r].id = z }
      BY <1>4 DEF Node!Places
    <3>2. Node!Places(z) = { r \in DOMAIN tree : tree[r].id = z }
      BY DEF Node!Places
    <3>3. Node!Place(z)' = Node!Place(z)
      BY <1>4, <3>1, <3>2 DEF Node!Place, Node!Places
    <3> QED
      BY <1>1, <2>3, <3>1, <3>2, <3>3, PlacedOnce
  <2>5. ASSUME NEW p \in DOMAIN tree, NEW z, z = tree[p].id PROVE Node!PromisedValues'[z] = tree'[p].value
    <3>1. z \in Ids
      BY <2>5 DEF Ids
    <3>2. Node!PromisedValues'[z] = IF Node!Places(z)' = {} THEN 0 ELSE tree'[Node!Place(z)'].value
      BY <2>2, <3>1
    <3> QED
      BY <2>3, <2>5, <3>2
  <2>6. Node!PromisedValues' = [z \in Ids |-> Node!PromisedValues'[z]]
    BY <2>2
  <2> QED
    BY <2>5, <2>6
<1> DEFINE v == [z \in PromisedKnown |->
                    IF PromisedQueries[PromisedAnswered + 1].a \in PromisedKnown
                       /\ z \in Promise!Below(PromisedQueries[PromisedAnswered + 1].a)
                      THEN PromisedValues[z] + PromisedQueries[PromisedAnswered + 1].b
                      ELSE PromisedValues[z]]
<1>13. v = [z \in Ids |-> IF x \in Ids /\ z \in Hangs(Ids, Graph!Joined, x)
                            THEN Node!PromisedValues[z] + y ELSE Node!PromisedValues[z]]
  BY <1>2, <1>7, <1>8, PromiseNames
<1>14. ASSUME NEW z \in Ids
       PROVE  Node!PromisedValues'[z] = IF x \in Ids /\ z \in Hangs(Ids, Graph!Joined, x)
                                          THEN Node!PromisedValues[z] + y ELSE Node!PromisedValues[z]
  <2>1. PICK p \in DOMAIN tree : z = tree[p].id
    BY DEF Ids
  <2>2. Node!PromisedValues[z] = tree[p].value /\ Node!PromisedValues'[z] = tree'[p].value
    BY <1>11, <1>12, <2>1
  <2> HIDE DEF x, y
  <2> QED
    BY <1>4, <1>10, <2>1, <2>2
<1>15. PromisedValues' = v
  BY <1>7, <1>12, <1>13, <1>14
<1>16. UNCHANGED PromisedAnswers
  BY <1>1, <1>7
<1> QED
  BY <1>3, <1>15, <1>16 DEF Promise!AddBelow

\* A max for an unknown node is answered at once, others begin to prune.
LEMMA NodeMaxFollows ==
    ASSUME NodeInv, Node!StartMax, program = "node", program' = "node"
    PROVE  Promise!ReportMax \/ UNCHANGED Promise!vars
<1> DEFINE x == queries[q + 1].a
<1> DEFINE y == queries[q + 1].b
<1>1. /\ NodeGiven /\ NodeTree /\ pc = "queries" /\ status = "running" /\ taken = n - 1 /\ q \in Nat
      /\ q < Len(queries) /\ q' = q + 1 /\ q' > 0 /\ queries[q + 1].kind = "max" /\ UNCHANGED <<n, pairs, queries, taken>>
      /\ UNCHANGED <<tree, status>>
  BY NodeQueryRead DEF Node!StartMax
<1>2. Node!Answered = q
  BY <1>1 DEF Node!Answered
<1>3. Node!Known' = Node!Known
  BY <1>1 DEF Node!Known, Node!ToSet
<1>4. Node!PromisedValues' = Node!PromisedValues
  BY <1>1, <1>3 DEF Node!PromisedValues, Node!Places, Node!Place
<1>5. CASE Node!Places(x) = {} \/ Node!Places(y) = {}
  <2>1. pc' = pc /\ answers' = Append(answers, MinValue)
    BY <1>1, <1>5 DEF Node!StartMax, Node!Query
  <2>2. Node!Answered' = q + 1
    BY <1>1, <2>1 DEF Node!Answered
  <2>3. Promise!Query("max")
    BY <1>1, <1>2, <2>2, NodeAnswers
  <2>4. /\ PromisedKnown = Node!Known /\ PromisedQueries = queries /\ PromisedAnswered = Node!Answered
        /\ PromisedValues = Node!PromisedValues /\ PromisedAnswers = answers
        /\ PromisedValues' = Node!PromisedValues' /\ PromisedAnswers' = answers'
    BY NodeMapped
  <2>5. ~({x, y} \subseteq PromisedKnown)
    <3>1. PromisedKnown = Ids
      BY <1>1, <2>4, KnownIs
    <3>2. \A z \in Ids : Node!Places(z) # {}
      BY DEF Ids, Node!Places
    <3> QED
      BY <1>5, <3>1, <3>2
  <2>6. UNCHANGED PromisedValues
    BY <1>4, <2>4
  <2> HIDE DEF x, y
  <2>7. PromisedAnswers' = Append(PromisedAnswers, IF {x, y} \subseteq PromisedKnown
                                                     THEN Promise!Max({ PromisedValues[z] : z \in Promise!Between(x, y) })
                                                     ELSE MinValue)
    BY <2>1, <2>4, <2>5
  <2>8. x = PromisedQueries[PromisedAnswered + 1].a /\ y = PromisedQueries[PromisedAnswered + 1].b
    BY <1>2, <2>4 DEF x, y
  <2> QED
    BY <2>3, <2>6, <2>7, <2>8 DEF Promise!ReportMax
<1>6. CASE ~(Node!Places(x) = {} \/ Node!Places(y) = {})
  <2>1. pc' = "prune" /\ answers' = answers
    BY <1>1, <1>6 DEF Node!StartMax, Node!Query
  <2>2. Node!Answered' = Node!Answered
    BY <1>1, <1>2, <2>1 DEF Node!Answered
  <2> QED
    BY <1>1, <1>4, <2>1, <2>2, NodeNoChange
<1> QED
  BY <1>5, <1>6

\* A max is answered when pruning is over: what is left of the paths, with the
\* last node pruned, is all that cannot be avoided.
LEMMA NodeReportFollows ==
    ASSUME NodeInv, Node!Report, program = "node", program' = "node"
    PROVE  Promise!ReportMax
<1> DEFINE x == queries[q].a
<1> DEFINE y == queries[q].b
<1>1. /\ pc = "prune" /\ ~Node!Shared /\ pc' = "queries"
      /\ answers' = Append(answers, Node!Max({head.value} \cup Node!ValuesOf(path_a) \cup Node!ValuesOf(path_b)))
      /\ UNCHANGED <<n, pairs, queries, tree, taken, q, status>>
  BY DEF Node!Report, Node!args
<1>2. /\ NodeGiven /\ NodeTree /\ taken = n - 1 /\ status = "running" /\ q > 0 /\ queries[q].kind = "max" /\ Pruning
      /\ q \in 0..Len(queries) /\ Len(queries) \in Nat
  BY <1>1 DEF NodeInv, NodeGiven
<1>3. Node!Answered = q - 1 /\ Node!Answered' = q /\ q - 1 < Len(queries) /\ q - 1 + 1 = q
  BY <1>1, <1>2 DEF Node!Answered
<1>4. Promise!Query("max")
  BY <1>1, <1>2, <1>3, NodeAnswers
<1>5. /\ PromisedKnown = Node!Known /\ PromisedJoined = Graph!Joined /\ PromisedQueries = queries
      /\ PromisedAnswered = Node!Answered
      /\ PromisedValues = Node!PromisedValues /\ PromisedAnswers = answers
      /\ PromisedValues' = Node!PromisedValues' /\ PromisedAnswers' = answers'
  BY NodeMapped
<1>6. PromisedKnown = Ids
  BY <1>2, <1>5, KnownIs
<1>7. PICK a \in DOMAIN tree, b \in DOMAIN tree, m \in Nat : tree[a].id = x /\ tree[b].id = y /\ Pruned(a, b, m)
  BY <1>2 DEF Pruning
<1>8. {head.value} \cup Node!ValuesOf(path_a) \cup Node!ValuesOf(path_b) =
          { Node!PromisedValues[z] : z \in Way(Ids, Graph!Joined, x, y) }
  BY <1>1, <1>2, <1>7, NodeMaxIs
<1>9. {x, y} \subseteq Ids
  BY <1>7 DEF Ids
<1>10. Node!PromisedValues' = Node!PromisedValues
  <2>1. Node!Known' = Node!Known
    BY <1>1 DEF Node!Known, Node!ToSet
  <2> QED
    BY <1>1, <2>1 DEF Node!PromisedValues, Node!Places, Node!Place
<1> HIDE DEF x, y
<1>11. Promise!Max({ PromisedValues[z] : z \in Promise!Between(x, y) }) =
           Node!Max({head.value} \cup Node!ValuesOf(path_a) \cup Node!ValuesOf(path_b))
  BY <1>5, <1>6, <1>8, PromiseNames
<1>12. PromisedAnswers' = Append(PromisedAnswers, IF {x, y} \subseteq PromisedKnown
                                                   THEN Promise!Max({ PromisedValues[z] : z \in Promise!Between(x, y) })
                                                   ELSE MinValue)
  BY <1>1, <1>5, <1>6, <1>9, <1>11
<1>13. UNCHANGED PromisedValues
  BY <1>5, <1>10
<1>14. x = PromisedQueries[PromisedAnswered + 1].a /\ y = PromisedQueries[PromisedAnswered + 1].b
  BY <1>3, <1>5 DEF x, y
<1> QED
  BY <1>4, <1>12, <1>13, <1>14 DEF Promise!ReportMax

\* Every step of the build with USE_TREE_NODE.
LEMMA NodeFollows ==
    ASSUME NodeInv, [Node!Next]_(Node!vars), program = "node", program' = "node"
    PROVE  [Promise!Next]_(Promise!vars)
<1>0. NodeGiven /\ NodeTree
  BY DEF NodeInv
<1>1. CASE Node!InsertEdge
  <2>1. /\ pc = "edges" /\ UNCHANGED <<n, pairs, queries, q, answers, pc, status>>
    BY <1>1 DEF Node!InsertEdge, Node!ReadEdge, Node!args
  <2>2. NodeInv'
    BY <1>1, EdgeEnters
  <2>3. (\A p \in DOMAIN tree : tree[p].value = 0) /\ (\A p \in DOMAIN tree' : tree'[p].value = 0)
    BY <2>1, <2>2 DEF NodeInv
  <2>4. Node!Known' = Node!Known
    BY <2>1 DEF Node!Known, Node!ToSet
  <2>5. Node!PromisedValues = [x \in Node!Known |-> 0]
    BY <2>3, NoValuesYet
  <2>6. Node!PromisedValues' = [x \in Node!Known |-> 0]
    <3>1. ASSUME NEW x PROVE IF Node!Places(x)' = {} THEN TRUE ELSE tree'[Node!Place(x)'].value = 0
      BY <2>3 DEF Node!Places, Node!Place
    <3> QED
      BY <2>4, <3>1 DEF Node!PromisedValues
  <2>7. Node!Answered' = Node!Answered
    BY <2>1 DEF Node!Answered
  <2> QED
    BY <2>1, <2>5, <2>6, <2>7, NodeNoChange
<1>2. CASE Node!RejectEdge
  <2>1. /\ pc = "edges" /\ pc' = "done" /\ status' = "EXIT_FAILURE" /\ UNCHANGED <<n, pairs, queries, tree, q, answers>>
    BY <1>2 DEF Node!RejectEdge, Node!ReadEdge, Node!args
  <2>2. q = 0 /\ status = "running"
    BY <2>1 DEF NodeInv
  <2>3. Node!Answered = 0 /\ Node!Answered' = 0
    BY <2>1, <2>2 DEF Node!Answered
  <2> QED
    BY <2>1, <2>2, <2>3, NodeGivesUp DEF Promise!Next
<1>3. CASE Node!UnknownQuery
  <2>1. /\ pc = "queries" /\ status = "running" /\ q \in Nat /\ q < Len(queries) /\ q' = q + 1 /\ q' > 0
        /\ queries[q + 1].kind = "other" /\ UNCHANGED <<n, pairs, queries, taken>>
    BY <1>3, NodeQueryRead DEF Node!UnknownQuery
  <2>2. pc' = "done" /\ status' = "EXIT_FAILURE" /\ UNCHANGED <<tree, answers>>
    BY <1>3 DEF Node!UnknownQuery
  <2>3. Node!Answered = q /\ Node!Answered' = q
    BY <2>1, <2>2 DEF Node!Answered
  <2> QED
    BY <2>1, <2>2, <2>3, NodeGivesUp DEF Promise!Next
<1>4. CASE Node!Add
  BY <1>4, NodeAddFollows DEF Promise!Next
<1>5. CASE Node!StartMax
  BY <1>5, NodeMaxFollows DEF Promise!Next
<1>6. CASE Node!Report
  BY <1>6, NodeReportFollows DEF Promise!Next
<1>7. CASE Node!StartQueries \/ Node!Prune \/ Node!Exit \/ Node!Finished \/ UNCHANGED Node!vars
  <2>1. UNCHANGED <<n, pairs, queries, tree, q, answers>>
    BY <1>7 DEF Node!StartQueries, Node!Prune, Node!Exit, Node!Finished, Node!vars, Node!args
  <2>2. Node!Known' = Node!Known
    BY <2>1 DEF Node!Known, Node!ToSet
  <2>3. Node!PromisedValues' = Node!PromisedValues
    BY <2>1, <2>2 DEF Node!PromisedValues, Node!Places, Node!Place
  <2>4. CASE Node!Exit
    <3>1. pc = "queries" /\ pc' = "done" /\ status' = "EXIT_SUCCESS"
      BY <2>4 DEF Node!Exit
    <3>2. status = "running"
      BY <3>1 DEF NodeInv
    <3>3. Node!Answered' = Node!Answered
      BY <2>1, <3>1 DEF Node!Answered
    <3> QED
      BY <2>1, <2>3, <3>1, <3>2, <3>3, NodeNoChange
  <2>5. CASE Node!StartQueries
    <3>1. pc = "edges" /\ pc' = "queries" /\ status' = status
      BY <2>5 DEF Node!StartQueries
    <3>2. Node!Answered' = Node!Answered
      BY <2>1, <3>1 DEF Node!Answered
    <3> QED
      BY <2>1, <2>3, <3>1, <3>2, NodeNoChange
  <2>6. CASE Node!Prune \/ Node!Finished \/ UNCHANGED Node!vars
    <3>1. pc' = pc /\ status' = status
      BY <2>6 DEF Node!Prune, Node!Finished, Node!vars
    <3>2. Node!Answered' = Node!Answered
      BY <2>1, <3>1 DEF Node!Answered
    <3> QED
      BY <2>1, <2>3, <3>1, <3>2, NodeNoChange
  <2> QED
    BY <1>7, <2>4, <2>5, <2>6
<1> QED
  BY <1>1, <1>2, <1>3, <1>4, <1>5, <1>6, <1>7 DEF Node!Next

----------------------------------------------------------------------------
\* The edges are those of a tree: taking one away cuts it in two, and with all
\* of them it is in one piece.

\* S does not part the ends of e.
EdgeKeeps(S, e) == e[1] \in S <=> e[2] \in S

\* In a tree each edge is a bridge: some set parts the ends of that edge only.
LEMMA BridgeByIndex ==
    ASSUME TreeGiven, NEW m \in 1..(n - 1)
    PROVE  \E S \in SUBSET (1..n) :
               ~EdgeKeeps(S, pairs[m]) /\ \A k \in 1..(n - 1) : k # m => EdgeKeeps(S, pairs[k])
<1>1. n \in Nat /\ m \in Nat /\ m <= n - 1 /\ m > 0
  BY PairsAre
<1>2. ASSUME NEW k \in 1..(n - 1)
      PROVE  \E T \in SUBSET (1..n) : /\ pairs[k][1] \in T /\ pairs[k][2] \notin T
                                      /\ \A l \in 1..(k - 1) : EdgeKeeps(T, pairs[l])
  <2>1. /\ pairs[k][1] \in 1..n /\ pairs[k][2] \in 1..n
        /\ pairs[k][2] \notin Component(1..n, EdgesTaken(k - 1), pairs[k][1])
    BY PairsAre
  <2> DEFINE x == pairs[k][1]
  <2> DEFINE y == pairs[k][2]
  <2> DEFINE E == EdgesTaken(k - 1)
  <2> HIDE DEF x, y, E
  <2>2. PICK T \in SUBSET (1..n) : ClosedUnder(T, E) /\ x \in T /\ y \notin T
    <3>1. x \in 1..n /\ y \in 1..n /\ y \notin Component(1..n, E, x)
      BY <2>1 DEF x, y, E
    <3> QED
      BY <3>1, Separated
  <2>3. \A l \in 1..(k - 1) : EdgeKeeps(T, pairs[l])
    BY <2>2 DEF ClosedUnder, EdgesTaken, EdgeKeeps, E
  <2> QED
    BY <2>2, <2>3 DEF x, y
<1> DEFINE Cuts(S, j_1) == ~EdgeKeeps(S, pairs[m]) /\ \A k \in 1..j_1 : k # m => EdgeKeeps(S, pairs[k])
<1> DEFINE K == { i_1 \in Nat : m + i_1 <= n - 1 => \E S \in SUBSET (1..n) : Cuts(S, m + i_1) }
<1>3. 0 \in K
  <2>1. PICK T \in SUBSET (1..n) : /\ pairs[m][1] \in T /\ pairs[m][2] \notin T
                                   /\ \A l \in 1..(m - 1) : EdgeKeeps(T, pairs[l])
    BY <1>2
  <2>2. \A k \in 1..(m + 0) : k # m => k \in 1..(m - 1)
    BY <1>1
  <2>3. Cuts(T, m + 0)
    BY <2>1, <2>2 DEF EdgeKeeps
  <2> HIDE DEF Cuts
  <2> QED
    BY <2>3
<1>4. ASSUME NEW i_1 \in Nat, i_1 \in K PROVE i_1 + 1 \in K
  <2> DEFINE j_1 == m + i_1 + 1
  <2> SUFFICES ASSUME j_1 <= n - 1 PROVE \E S \in SUBSET (1..n) : Cuts(S, j_1)
    BY <1>1
  <2>1. j_1 \in 1..(n - 1) /\ m \in 1..(j_1 - 1) /\ j_1 - 1 = m + i_1 /\ m + i_1 <= n - 1
    BY <1>1
  <2>2. PICK S \in SUBSET (1..n) : Cuts(S, m + i_1)
    BY <1>4, <2>1
  <2>3. PICK T \in SUBSET (1..n) : /\ pairs[j_1][1] \in T /\ pairs[j_1][2] \notin T
                                   /\ \A l \in 1..(j_1 - 1) : EdgeKeeps(T, pairs[l])
    BY <1>2, <2>1
  <2>4. \A k \in 1..j_1 : k = j_1 \/ k \in 1..(j_1 - 1)
    BY <2>1
  <2>5. ~EdgeKeeps(S, pairs[m]) /\ \A k \in 1..(j_1 - 1) : k # m => EdgeKeeps(S, pairs[k])
    BY <2>1, <2>2
  <2> HIDE DEF j_1
  <2>6. CASE EdgeKeeps(S, pairs[j_1])
    BY <2>4, <2>5, <2>6
  <2>7. CASE ~EdgeKeeps(S, pairs[j_1])
    <3> DEFINE D == { x \in 1..n : x \in S <=> x \notin T }
    <3>1. ASSUME NEW k \in 1..(n - 1)
          PROVE  /\ EdgeKeeps(T, pairs[k]) => (EdgeKeeps(D, pairs[k]) <=> EdgeKeeps(S, pairs[k]))
                 /\ ~EdgeKeeps(T, pairs[k]) => (EdgeKeeps(D, pairs[k]) <=> ~EdgeKeeps(S, pairs[k]))
      <4>1. pairs[k][1] \in 1..n /\ pairs[k][2] \in 1..n
        BY PairsAre
      <4> QED
        BY <4>1 DEF EdgeKeeps
    <3>2. \A k \in 1..(j_1 - 1) : k \in 1..(n - 1)
      BY <1>1, <2>1
    <3>3. ~EdgeKeeps(T, pairs[j_1])
      BY <2>3 DEF EdgeKeeps
    <3>4. D \in SUBSET (1..n)
      OBVIOUS
    <3> HIDE DEF D
    <3>5. Cuts(D, j_1)
      BY <2>1, <2>3, <2>4, <2>5, <2>7, <3>1, <3>2, <3>3
    <3> QED
      BY <3>4, <3>5
  <2> QED
    BY <2>6, <2>7
<1> HIDE DEF K
<1>5. Nat \subseteq K
  BY <1>3, <1>4, Induction
<1>6. n - 1 - m \in Nat /\ m + (n - 1 - m) = n - 1 /\ m + (n - 1 - m) <= n - 1
  BY <1>1
<1>7. n - 1 - m \in K
  BY <1>5, <1>6
<1> HIDE DEF Cuts
<1>8. \E S \in SUBSET (1..n) : Cuts(S, n - 1)
  BY <1>6, <1>7 DEF K
<1> QED
  BY <1>8 DEF Cuts

\* Fewer sets are closed under more edges.
LEMMA MoreEdges ==
    ASSUME NEW V, NEW D, NEW E, D \subseteq E, NEW x PROVE Component(V, D, x) \subseteq Component(V, E, x)
<1>1. \A S : ClosedUnder(S, E) => ClosedUnder(S, D)
  BY DEF ClosedUnder
<1> QED
  BY <1>1 DEF Component

\* With k of the edges there are n - k pieces.
LEMMA PiecesLeft ==
    ASSUME TreeGiven, NEW k \in 0..(n - 1)
    PROVE  \E R \in SUBSET (1..n) : /\ IsFiniteSet(R) /\ Cardinality(R) = n - k
                                    /\ \A x \in 1..n : \E r \in R : r \in Component(1..n, EdgesTaken(k), x)
<1>1. n \in Nat /\ n > 0
  BY PairsAre
<1> DEFINE C(j_1, x) == Component(1..n, EdgesTaken(j_1), x)
<1> DEFINE Stands(R, j_1) == /\ IsFiniteSet(R) /\ Cardinality(R) = n - j_1
                           /\ \A x \in 1..n : \E r \in R : r \in C(j_1, x)
<1> DEFINE K == { j_1 \in Nat : j_1 <= n - 1 => \E R \in SUBSET (1..n) : Stands(R, j_1) }
<1>2. 0 \in K
  <2>1. IsFiniteSet(1..n) /\ Cardinality(1..n) = n
    BY <1>1, FS_Interval
  <2>2. \A x \in 1..n : x \in C(0, x)
    BY DEF Component
  <2> HIDE DEF C
  <2>3. Stands(1..n, 0)
    BY <1>1, <2>1, <2>2
  <2> HIDE DEF Stands
  <2> QED
    BY <2>3
<1>3. ASSUME NEW i_1 \in Nat, i_1 \in K PROVE i_1 + 1 \in K
  <2> DEFINE j_1 == i_1 + 1
  <2> SUFFICES ASSUME j_1 <= n - 1 PROVE \E R \in SUBSET (1..n) : Stands(R, j_1)
    OBVIOUS
  <2>1. j_1 \in 1..(n - 1) /\ i_1 <= n - 1 /\ j_1 - 1 = i_1 /\ i_1 \in 0..(n - 1) /\ j_1 \in 0..(n - 1)
    BY <1>1
  <2>2. PICK R \in SUBSET (1..n) : Stands(R, i_1)
    BY <1>3, <2>1
  <2> DEFINE u == pairs[j_1][1]
  <2> DEFINE v == pairs[j_1][2]
  <2>3. u \in 1..n /\ v \in 1..n /\ v \notin C(i_1, u)
    BY <2>1, PairsAre
  <2>4. EdgesTaken(i_1) \subseteq (1..n) \X (1..n) /\ EdgesTaken(j_1) \subseteq (1..n) \X (1..n)
    BY <2>1, PairsAre
  <2>5. EdgesTaken(i_1) \subseteq EdgesTaken(j_1) /\ pairs[j_1] \in EdgesTaken(j_1)
    BY <2>1 DEF EdgesTaken
  <2>6. \A x \in 1..n : C(i_1, x) \subseteq C(j_1, x)
    BY <2>5, MoreEdges
  <2>7. ASSUME NEW l \in {i_1, j_1}, NEW x \in 1..n, NEW y \in C(l, x) PROVE y \in 1..n /\ x \in C(l, y) /\ C(l, y) = C(l, x)
    <3>1. EdgesTaken(l) \subseteq (1..n) \X (1..n)
      BY <2>4
    <3>2. y \in 1..n
      BY DEF Component
    <3> DEFINE E == EdgesTaken(l)
    <3> DEFINE V == 1..n
    <3>3. x \in V /\ E \subseteq V \X V /\ y \in Component(V, E, x)
      BY <2>7, <3>1
    <3> HIDE DEF V, E
    <3>4. x \in Component(V, E, y) /\ Component(V, E, y) = Component(V, E, x)
      BY <3>3, ComponentIsShared
    <3> QED
      BY <3>2, <3>4 DEF V, E
  <2>8. u \in C(j_1, v)
    <3>1. v \in C(j_1, v) /\ ClosedUnder(C(j_1, v), EdgesTaken(j_1))
      BY <2>3, <2>4, ComponentIsClosed
    <3> QED
      BY <2>5, <3>1 DEF ClosedUnder
  <2> HIDE DEF C, u, v
  <2>9. PICK ru \in R : ru \in C(i_1, u)
    BY <2>2, <2>3
  <2>10. PICK rv \in R : rv \in C(i_1, v)
    BY <2>2, <2>3
  <2>11. ru # rv
    <3> SUFFICES ASSUME ru = rv PROVE FALSE
      OBVIOUS
    <3>1. C(i_1, ru) = C(i_1, u) /\ v \in C(i_1, rv)
      BY <2>3, <2>7, <2>9, <2>10
    <3> QED
      BY <2>3, <3>1
  <2> DEFINE Q == R \ {rv}
  <2>12. IsFiniteSet(Q) /\ Cardinality(Q) = n - j_1 /\ Q \in SUBSET (1..n)
    <3>1. IsFiniteSet(Q) /\ Cardinality(Q) = Cardinality(R) - 1
      BY <2>2, FS_RemoveElement
    <3>2. Cardinality(R) = n - i_1
      BY <2>2
    <3> QED
      BY <1>1, <3>1, <3>2
  <2>13. ASSUME NEW x \in 1..n PROVE \E r \in Q : r \in C(j_1, x)
    <3>1. PICK r \in R : r \in C(i_1, x)
      BY <2>2
    <3>2. r \in C(j_1, x)
      BY <2>6, <3>1
    <3>3. CASE r # rv
      BY <3>2, <3>3
    <3>4. CASE r = rv
      <4>1. C(j_1, rv) = C(j_1, x)
        BY <2>7, <3>2, <3>4
      <4>2. C(j_1, rv) = C(j_1, v)
        BY <2>3, <2>6, <2>7, <2>10
      <4>3. C(j_1, u) = C(j_1, v)
        BY <2>3, <2>7, <2>8
      <4>4. ru \in C(j_1, u)
        BY <2>3, <2>6, <2>9
      <4> QED
        BY <2>11, <4>1, <4>2, <4>3, <4>4
    <3> QED
      BY <3>3, <3>4
  <2> HIDE DEF Q
  <2>14. Stands(Q, j_1)
    BY <2>12, <2>13
  <2> HIDE DEF Stands
  <2> QED
    BY <2>12, <2>14
<1> HIDE DEF K
<1>4. Nat \subseteq K
  BY <1>2, <1>3, Induction
<1>5. k \in K /\ k <= n - 1
  BY <1>1, <1>4
<1> HIDE DEF Stands
<1>6. \E R \in SUBSET (1..n) : Stands(R, k)
  BY <1>5 DEF K
<1> QED
  BY <1>6 DEF Stands

\* In a tree no set of nodes is closed but none and all.
LEMMA InOnePiece ==
    ASSUME TreeGiven, NEW S \in SUBSET (1..n), S # {}, \A k \in 1..(n - 1) : EdgeKeeps(S, pairs[k])
    PROVE  S = 1..n
<1>1. n \in Nat /\ n > 0 /\ n - 1 \in 0..(n - 1) /\ n - (n - 1) = 1
  BY PairsAre
<1>2. PICK R \in SUBSET (1..n) : /\ IsFiniteSet(R) /\ Cardinality(R) = n - (n - 1)
                                 /\ \A x \in 1..n : \E r \in R : r \in Component(1..n, EdgesTaken(n - 1), x)
  BY <1>1, PiecesLeft
<1>3. ClosedUnder(S, EdgesTaken(n - 1)) /\ EdgesTaken(n - 1) \subseteq (1..n) \X (1..n)
  <2>1. EdgesTaken(n - 1) \subseteq (1..n) \X (1..n)
    BY <1>1, PairsAre
  <2> QED
    BY <2>1 DEF ClosedUnder, EdgesTaken, EdgeKeeps
<1>4. PICK r : R = {r}
  BY <1>1, <1>2, FS_Singleton
<1>5. \A x \in 1..n : r \in Component(1..n, EdgesTaken(n - 1), x)
  BY <1>2, <1>4
<1>6. r \in S
  BY <1>3, <1>5, ComponentIsLeast
<1>7. ASSUME NEW x \in 1..n PROVE x \in S
  <2>1. x \in Component(1..n, EdgesTaken(n - 1), r)
    BY <1>3, <1>5, ComponentIsShared
  <2> QED
    BY <1>3, <1>6, <2>1, ComponentIsLeast
<1> QED
  BY <1>7

----------------------------------------------------------------------------
\* The edges of the tree, from the lower ID to the higher.

\* The nodes named by edges, and the edges from lower to higher IDs.
LEMMA JoinedUp ==
    ASSUME TreeGiven
    PROVE  /\ Graph!Named \subseteq 1..n
           /\ \A x : x \in Graph!Named <=> \E k \in 1..(n - 1) : x \in {Low(pairs[k]), High(pairs[k])}
           /\ \A e \in Graph!Joined : /\ e = <<e[1], e[2]>> /\ e[1] \in Graph!Named /\ e[2] \in Graph!Named
                                      /\ e[1] \in 1..n /\ e[2] \in 1..n /\ e[1] < e[2]
<1>1. DOMAIN pairs = 1..(n - 1) /\ n \in Nat
  BY PairsAre
<1>2. ASSUME NEW k \in 1..(n - 1)
      PROVE  /\ Graph!ToSet(pairs[k]) = {Low(pairs[k]), High(pairs[k])}
             /\ Low(pairs[k]) \in 1..n /\ High(pairs[k]) \in 1..n /\ Low(pairs[k]) < High(pairs[k])
  <2>1. /\ pairs[k] \in (1..n) \X (1..n) /\ pairs[k][1] \in 1..n /\ pairs[k][2] \in 1..n
        /\ Low(pairs[k]) \in 1..n /\ High(pairs[k]) \in 1..n
        /\ {Low(pairs[k]), High(pairs[k])} = {pairs[k][1], pairs[k][2]}
        /\ pairs[k][2] \notin Component(1..n, EdgesTaken(k - 1), pairs[k][1])
    BY PairsAre
  <2>2. pairs[k][1] # pairs[k][2]
    BY <2>1 DEF Component
  <2>3. Low(pairs[k]) < High(pairs[k])
    BY <1>1, <2>1, <2>2 DEF Low, High
  <2>4. Graph!ToSet(pairs[k]) = {Low(pairs[k]), High(pairs[k])}
    BY <1>1, <2>1, EndsAre
  <2> QED
    BY <2>1, <2>3, <2>4
<1>3. \A x : x \in Graph!Named <=> \E k \in 1..(n - 1) : x \in {Low(pairs[k]), High(pairs[k])}
  BY <1>1, <1>2 DEF Graph!Named
<1>4. Graph!Named \subseteq 1..n
  BY <1>2, <1>3
<1>5. ASSUME NEW e \in Graph!Joined
      PROVE  /\ e = <<e[1], e[2]>> /\ e[1] \in Graph!Named /\ e[2] \in Graph!Named
             /\ e[1] \in 1..n /\ e[2] \in 1..n /\ e[1] < e[2]
  <2>1. PICK k \in 1..(n - 1) : e = <<Low(pairs[k]), High(pairs[k])>>
    BY JoinedIs
  <2>2. e[1] = Low(pairs[k]) /\ e[2] = High(pairs[k])
    BY <2>1
  <2> QED
    BY <1>2, <1>3, <2>1, <2>2
<1> QED
  BY <1>3, <1>4, <1>5

\* An edge between two nodes, in either direction.
Adjacent(x, y) == <<x, y>> \in Graph!Joined \/ <<y, x>> \in Graph!Joined

\* Cutting one edge leaves x on one side and y on the other.
LEMMA Bridge ==
    ASSUME TreeGiven, NEW x, NEW y, Adjacent(x, y)
    PROVE  \E S \in SUBSET (1..n) :
               /\ x \in S /\ y \notin S
               /\ \A e \in Graph!Joined : e \notin {<<x, y>>, <<y, x>>} => EdgeKeeps(S, e)
<1>1. PICK k \in 1..(n - 1) : <<Low(pairs[k]), High(pairs[k])>> \in {<<x, y>>, <<y, x>>}
  BY JoinedIs DEF Adjacent
<1>2. PICK S \in SUBSET (1..n) :
          ~EdgeKeeps(S, pairs[k]) /\ \A l \in 1..(n - 1) : l # k => EdgeKeeps(S, pairs[l])
  BY BridgeByIndex
<1>3. \A l \in 1..(n - 1) : {Low(pairs[l]), High(pairs[l])} = {pairs[l][1], pairs[l][2]}
  BY PairsAre
<1>4. x \in 1..n /\ y \in 1..n
  <2>1. \A e \in Graph!Joined : e[1] \in 1..n /\ e[2] \in 1..n
    BY JoinedUp
  <2>2. CASE <<x, y>> \in Graph!Joined
    BY <2>1, <2>2
  <2>3. CASE <<y, x>> \in Graph!Joined
    BY <2>1, <2>3
  <2> QED
    BY <2>2, <2>3 DEF Adjacent
<1>5. {pairs[k][1], pairs[k][2]} = {x, y}
  <2>1. (Low(pairs[k]) = x /\ High(pairs[k]) = y) \/ (Low(pairs[k]) = y /\ High(pairs[k]) = x)
    BY <1>1
  <2> QED
    BY <1>3, <2>1
<1>6. x \in S <=> y \notin S
  <2>1. pairs[k][1] \in S <=> pairs[k][2] \notin S
    BY <1>2 DEF EdgeKeeps
  <2> QED
    BY <1>5, <2>1
<1>7. ASSUME NEW e \in Graph!Joined, e \notin {<<x, y>>, <<y, x>>} PROVE EdgeKeeps(S, e)
  <2>1. PICK l \in 1..(n - 1) : e = <<Low(pairs[l]), High(pairs[l])>>
    BY JoinedIs
  <2>2. l # k
    BY <1>1, <1>7, <2>1
  <2>3. pairs[l][1] \in S <=> pairs[l][2] \in S
    BY <1>2, <2>2 DEF EdgeKeeps
  <2>4. e[1] = Low(pairs[l]) /\ e[2] = High(pairs[l])
    BY <2>1
  <2>5. e[1] \in S <=> e[2] \in S
    BY <1>3, <2>3, <2>4
  <2> QED
    BY <2>5 DEF EdgeKeeps
<1>8. CASE x \in S
  BY <1>6, <1>7, <1>8
<1>9. CASE x \notin S
  <2> DEFINE T == (1..n) \ S
  <2>1. x \in T /\ y \notin T /\ T \in SUBSET (1..n)
    BY <1>4, <1>6, <1>9
  <2>2. ASSUME NEW e \in Graph!Joined, e \notin {<<x, y>>, <<y, x>>} PROVE EdgeKeeps(T, e)
    <3>1. e[1] \in 1..n /\ e[2] \in 1..n
      BY JoinedUp
    <3> QED
      BY <1>7, <2>2, <3>1 DEF EdgeKeeps
  <2> HIDE DEF T
  <2> QED
    BY <2>1, <2>2
<1> QED
  BY <1>8, <1>9

----------------------------------------------------------------------------
\* The nodes that hang from a node.

\* What hangs from x.
HangingFrom(x) == Hangs(Graph!Named, Graph!Joined, x)

\* The model of the default build says the same.
LEMMA HangingIs == \A x : Graph!Hanging(x) = HangingFrom(x)
BY DEF Graph!Hanging, HangingFrom, Hangs

\* A set that every edge leads into or away from holds what hangs from its nodes.
LEMMA HangsWithin ==
    ASSUME NEW S, NEW x \in S, x \in Graph!Named, \A e \in Graph!Joined : e[1] \in S => e[2] \in S, TreeGiven
    PROVE  HangingFrom(x) \subseteq S
<1> DEFINE T == S \cap Graph!Named
<1>1. \A e \in Graph!Joined : e[2] \in Graph!Named
  BY JoinedUp
<1>2. T \in SUBSET Graph!Named /\ x \in T /\ \A e \in Graph!Joined : e[1] \in T => e[2] \in T
  BY <1>1
<1> HIDE DEF T
<1>3. HangingFrom(x) \subseteq T
  BY <1>2 DEF HangingFrom, Hangs
<1> QED
  BY <1>3 DEF T

\* A node hangs from itself,
LEMMA HangsItself ==
    ASSUME NEW x \in Graph!Named
    PROVE  x \in HangingFrom(x) /\ HangingFrom(x) \subseteq Graph!Named
BY DEF HangingFrom, Hangs

\* its neighbors hang where it does,
LEMMA HangsOn ==
    ASSUME NEW x, NEW e \in Graph!Joined, e[1] \in HangingFrom(x), TreeGiven
    PROVE  e[2] \in HangingFrom(x)
<1>1. e[2] \in Graph!Named
  BY JoinedUp
<1>2. ASSUME NEW S \in SUBSET Graph!Named, x \in S, \A f \in Graph!Joined : f[1] \in S => f[2] \in S
      PROVE  e[2] \in S
  <2>1. e[1] \in S
    BY <1>2 DEF HangingFrom, Hangs
  <2> QED
    BY <1>2, <2>1
<1> QED
  BY <1>1, <1>2 DEF HangingFrom, Hangs

\* with all that hangs from them,
LEMMA HangsBelowToo ==
    ASSUME NEW x, NEW y \in HangingFrom(x), TreeGiven PROVE HangingFrom(y) \subseteq HangingFrom(x)
<1>1. y \in Graph!Named
  BY DEF HangingFrom, Hangs
<1>2. \A e \in Graph!Joined : e[1] \in HangingFrom(x) => e[2] \in HangingFrom(x)
  BY HangsOn
<1> DEFINE S == HangingFrom(x)
<1>3. y \in S /\ \A e \in Graph!Joined : e[1] \in S => e[2] \in S
  BY <1>2
<1> HIDE DEF S
<1>4. HangingFrom(y) \subseteq S
  BY <1>1, <1>3, HangsWithin
<1> QED
  BY <1>4 DEF S

\* and nothing that hangs from a node has a lower ID.
LEMMA HangsHigher ==
    ASSUME NEW x \in Graph!Named, NEW y \in HangingFrom(x), TreeGiven PROVE y >= x
<1> DEFINE S == { z \in 1..n : z >= x }
<1>1. x \in 1..n
  BY JoinedUp
<1>2. x \in S
  BY <1>1
<1>3. ASSUME NEW e \in Graph!Joined, e[1] \in S PROVE e[2] \in S
  <2>1. e[1] \in 1..n /\ e[2] \in 1..n /\ e[1] < e[2]
    BY JoinedUp
  <2> QED
    BY <1>1, <1>3, <2>1
<1> HIDE DEF S
<1>4. HangingFrom(x) \subseteq S
  BY <1>2, <1>3, HangsWithin
<1> QED
  BY <1>4 DEF S

\* What hangs from a node is itself and what hangs from its children.
LEMMA HangsByChildren ==
    ASSUME NEW x \in Graph!Named, TreeGiven
    PROVE  \A y : y \in HangingFrom(x) <=> y = x \/ \E c \in Graph!Named : <<x, c>> \in Graph!Joined /\ y \in HangingFrom(c)
<1> DEFINE S == { y \in Graph!Named : y = x \/ \E c \in Graph!Named : <<x, c>> \in Graph!Joined /\ y \in HangingFrom(c) }
<1>1. x \in S
  OBVIOUS
<1>2. ASSUME NEW e \in Graph!Joined, e[1] \in S PROVE e[2] \in S
  <2>1. e = <<e[1], e[2]>> /\ e[2] \in Graph!Named
    BY JoinedUp
  <2>2. CASE e[1] = x
    BY <2>1, <2>2, HangsItself
  <2>3. CASE e[1] # x
    <3>1. PICK c \in Graph!Named : <<x, c>> \in Graph!Joined /\ e[1] \in HangingFrom(c)
      BY <1>2, <2>3
    <3>2. e[2] \in HangingFrom(c)
      BY <3>1, HangsOn
    <3> QED
      BY <2>1, <3>1, <3>2
  <2> QED
    BY <2>2, <2>3
<1> HIDE DEF S
<1>3. HangingFrom(x) \subseteq S
  BY <1>1, <1>2, HangsWithin
<1>4. x \in HangingFrom(x)
  BY HangsItself
<1>5. ASSUME NEW c \in Graph!Named, <<x, c>> \in Graph!Joined PROVE HangingFrom(c) \subseteq HangingFrom(x)
  <2> DEFINE e == <<x, c>>
  <2>1. e \in Graph!Joined /\ e[1] = x /\ e[2] = c
    BY <1>5
  <2> HIDE DEF e
  <2>2. c \in HangingFrom(x)
    BY <1>4, <2>1, HangsOn
  <2> QED
    BY <2>2, HangsBelowToo
<1> QED
  BY <1>3, <1>4, <1>5 DEF S

\* Two children of a node share nothing.
LEMMA ChildrenApart ==
    ASSUME NEW x \in Graph!Named, NEW c, NEW d, <<x, c>> \in Graph!Joined, <<x, d>> \in Graph!Joined, c # d, TreeGiven
    PROVE  HangingFrom(c) \cap HangingFrom(d) = {}
<1>1. x \in 1..n /\ c \in 1..n /\ d \in 1..n /\ x < c /\ x < d /\ c \in Graph!Named /\ d \in Graph!Named
  <2> DEFINE e == <<x, c>>
  <2> DEFINE f == <<x, d>>
  <2>1. e[1] = x /\ e[2] = c /\ f[1] = x /\ f[2] = d
    OBVIOUS
  <2>2. e \in Graph!Joined /\ f \in Graph!Joined
    OBVIOUS
  <2> HIDE DEF e, f
  <2> QED
    BY <2>1, <2>2, JoinedUp
<1>2. PICK S \in SUBSET (1..n) :
          /\ c \in S /\ x \notin S
          /\ \A e \in Graph!Joined : e \notin {<<c, x>>, <<x, c>>} => EdgeKeeps(S, e)
  <2>1. Adjacent(c, x)
    BY DEF Adjacent
  <2> QED
    BY <2>1, Bridge
<1>3. \A e \in Graph!Joined : e # <<x, c>> => EdgeKeeps(S, e)
  <2>1. <<c, x>> \notin Graph!Joined
    <3> SUFFICES ASSUME <<c, x>> \in Graph!Joined PROVE FALSE
      OBVIOUS
    <3> DEFINE e == <<c, x>>
    <3>1. e[1] = c /\ e[2] = x /\ e \in Graph!Joined
      OBVIOUS
    <3> HIDE DEF e
    <3>2. c < x
      BY <3>1, JoinedUp
    <3> QED
      BY <1>1, <3>2
  <2> QED
    BY <1>2, <2>1
<1>4. HangingFrom(c) \subseteq S
  <2>1. ASSUME NEW e \in Graph!Joined, e[1] \in S PROVE e[2] \in S
    <3>1. e # <<x, c>>
      BY <1>2, <2>1
    <3> QED
      BY <1>3, <2>1, <3>1 DEF EdgeKeeps
  <2> QED
    BY <1>1, <1>2, <2>1, HangsWithin
<1> DEFINE T == { y \in 1..n : y \notin S /\ y >= d }
<1>5. d \in T
  <2>1. EdgeKeeps(S, <<x, d>>)
    BY <1>3
  <2>2. d \notin S
    BY <1>2, <2>1 DEF EdgeKeeps
  <2> QED
    BY <1>1, <2>2
<1>6. ASSUME NEW e \in Graph!Joined, e[1] \in T PROVE e[2] \in T
  <2>1. e[1] \in 1..n /\ e[2] \in 1..n /\ e[1] < e[2] /\ e = <<e[1], e[2]>>
    BY JoinedUp
  <2>2. e[1] >= d /\ e[1] \notin S
    BY <1>6
  <2>3. e[1] # x
    BY <1>1, <2>1, <2>2
  <2>4. e # <<x, c>>
    BY <2>1, <2>3
  <2>5. e[2] \notin S
    BY <1>3, <2>2, <2>4 DEF EdgeKeeps
  <2>6. e[2] >= d
    BY <1>1, <2>1, <2>2
  <2> QED
    BY <2>1, <2>5, <2>6
<1> HIDE DEF T
<1>7. HangingFrom(d) \subseteq T
  BY <1>1, <1>5, <1>6, HangsWithin
<1> QED
  BY <1>4, <1>7 DEF T

----------------------------------------------------------------------------
\* A path that visits no node twice holds the nodes that cannot be avoided.

\* A path along edges, either way, that comes to no node twice.
SimplePath(s) ==
    /\ s \in Seq(Graph!Named)
    /\ \A k, l \in 1..Len(s) : s[k] = s[l] => k = l
    /\ \A k \in 1..(Len(s) - 1) : Adjacent(s[k], s[k + 1])

\* What each edge of a stretch keeps the whole stretch keeps.
LEMMA PathKeeps ==
    ASSUME NEW s, NEW S, NEW lo \in Nat, NEW hi \in Nat, lo <= hi,
           \A k \in lo..(hi - 1) : s[k] \in S <=> s[k + 1] \in S
    PROVE  s[lo] \in S <=> s[hi] \in S
<1> DEFINE K == { k \in Nat : lo + k <= hi => (s[lo] \in S <=> s[lo + k] \in S) }
<1>1. 0 \in K
  OBVIOUS
<1>2. ASSUME NEW k \in Nat, k \in K PROVE k + 1 \in K
  <2> SUFFICES ASSUME lo + (k + 1) <= hi PROVE s[lo] \in S <=> s[lo + (k + 1)] \in S
    OBVIOUS
  <2>1. lo + k \in lo..(hi - 1) /\ lo + k <= hi /\ lo + k + 1 = lo + (k + 1)
    OBVIOUS
  <2>2. s[lo] \in S <=> s[lo + k] \in S
    BY <1>2, <2>1
  <2>3. s[lo + k] \in S <=> s[lo + k + 1] \in S
    BY <2>1
  <2> QED
    BY <2>1, <2>2, <2>3
<1> HIDE DEF K
<1>3. Nat \subseteq K
  BY <1>1, <1>2, Induction
<1>4. hi - lo \in Nat /\ lo + (hi - lo) = hi /\ lo + (hi - lo) <= hi
  OBVIOUS
<1>5. hi - lo \in K
  BY <1>3, <1>4
<1> QED
  BY <1>4, <1>5 DEF K

\* In a tree a simple path holds exactly what cannot be avoided between its ends:
\* each of its edges is a bridge.
LEMMA PathIsWay ==
    ASSUME TreeGiven, NEW s, SimplePath(s), Len(s) > 0, NEW x
    PROVE  x \in Way(Graph!Named, Graph!Joined, s[1], s[Len(s)]) <=> \E k \in 1..Len(s) : x = s[k]
<1> DEFINE m == Len(s)
<1>1. /\ s \in Seq(Graph!Named) /\ m \in Nat /\ m > 0 /\ 1 \in 1..m /\ m \in 1..m
      /\ \A k \in 1..m : s[k] \in Graph!Named
      /\ \A k, l \in 1..m : s[k] = s[l] => k = l
      /\ \A k \in 1..(m - 1) : Adjacent(s[k], s[k + 1])
  <2>1. s \in Seq(Graph!Named) /\ m \in Nat /\ m > 0
    BY DEF SimplePath
  <2>2. \A k \in 1..m : s[k] \in Graph!Named
    BY <2>1, ElementOfSeq
  <2> QED
    BY <2>1, <2>2 DEF SimplePath
<1> HIDE DEF m
<1> DEFINE a == s[1]
<1> DEFINE b == s[m]
<1>2. x \in Way(Graph!Named, Graph!Joined, a, b) <=>
          x \in Graph!Named /\ (x = a \/ x = b \/ b \notin Component(Graph!Named \ {x}, Without(x), a))
  BY DEF Way, Without
<1>3. ASSUME NEW k \in 1..m, x = s[k], x # a, x # b
      PROVE  b \notin Component(Graph!Named \ {x}, Without(x), a)
  <2>1. k \in 1..(m - 1) /\ k > 1 /\ k + 1 \in 1..m /\ k \in Nat /\ k + 1 \in Nat /\ k + 1 <= m /\ 1 <= k
    BY <1>1, <1>3
  <2> DEFINE y == s[k + 1]
  <2>2. Adjacent(x, y)
    BY <1>1, <1>3, <2>1
  <2>3. PICK S \in SUBSET (1..n) :
            x \in S /\ y \notin S /\ \A e \in Graph!Joined : e \notin {<<x, y>>, <<y, x>>} => EdgeKeeps(S, e)
    BY <2>2, Bridge
  <2>4. ASSUME NEW l \in 1..(m - 1), l # k PROVE s[l] \in S <=> s[l + 1] \in S
    <3>1. l \in 1..m /\ l + 1 \in 1..m /\ l + 1 # k + 1
      BY <1>1, <2>1, <2>4
    <3> DEFINE u == s[l]
    <3> DEFINE v == s[l + 1]
    <3>2. u # x
      BY <1>1, <1>3, <2>4, <3>1
    <3>3. v # y
      BY <1>1, <2>1, <3>1
    <3>4. ~(u = y /\ v = x)
      <4> SUFFICES ASSUME u = y, v = x PROVE FALSE
        OBVIOUS
      <4>1. l = k + 1 /\ l + 1 = k
        BY <1>1, <1>3, <2>1, <3>1
      <4> QED
        BY <2>1, <4>1
    <3>5. Adjacent(u, v)
      BY <1>1
    <3> HIDE DEF u, v, y
    <3>6. PICK e \in Graph!Joined : e \in {<<u, v>>, <<v, u>>}
      BY <3>5 DEF Adjacent
    <3>7. e \notin {<<x, y>>, <<y, x>>}
      BY <3>2, <3>3, <3>4, <3>6
    <3>8. e[1] \in S <=> e[2] \in S
      BY <2>3, <3>7 DEF EdgeKeeps
    <3> QED
      BY <3>6, <3>8 DEF u, v
  <2>5. a \in S
    <3>1. \A l \in 1..(k - 1) : s[l] \in S <=> s[l + 1] \in S
      <4>1. \A l \in 1..(k - 1) : l \in 1..(m - 1) /\ l # k
        BY <1>1, <2>1
      <4> QED
        BY <2>4, <4>1
    <3>2. s[1] \in S <=> s[k] \in S
      BY <2>1, <3>1, PathKeeps
    <3> QED
      BY <1>3, <2>3, <3>2
  <2>6. b \notin S
    <3>1. \A l \in (k + 1)..(m - 1) : s[l] \in S <=> s[l + 1] \in S
      <4>1. \A l \in (k + 1)..(m - 1) : l \in 1..(m - 1) /\ l # k
        BY <1>1, <2>1
      <4> QED
        BY <2>4, <4>1
    <3>2. s[k + 1] \in S <=> s[m] \in S
      BY <1>1, <2>1, <3>1, PathKeeps
    <3> QED
      BY <2>3, <3>2
  <2> DEFINE T == (S \cap Graph!Named) \ {x}
  <2>7. T \in SUBSET (Graph!Named \ {x}) /\ a \in T /\ b \notin T
    BY <1>1, <1>3, <2>5, <2>6
  <2>8. ASSUME NEW e \in Without(x) PROVE e[1] \in T <=> e[2] \in T
    <3>1. e \in Graph!Joined /\ e[1] # x /\ e[2] # x
      BY DEF Without
    <3>2. e[1] \in Graph!Named /\ e[2] \in Graph!Named
      BY <3>1, JoinedUp
    <3>3. e \notin {<<x, y>>, <<y, x>>}
      BY <3>1
    <3>4. e[1] \in S <=> e[2] \in S
      BY <2>3, <3>1, <3>3 DEF EdgeKeeps
    <3> QED
      BY <3>1, <3>2, <3>4
  <2> HIDE DEF T
  <2>9. ClosedUnder(T, Without(x))
    BY <2>8 DEF ClosedUnder
  <2>10. Component(Graph!Named \ {x}, Without(x), a) \subseteq T
    BY <2>7, <2>9, ComponentIsLeast
  <2> QED
    BY <2>7, <2>10
<1>4. ASSUME \A k \in 1..m : x # s[k] PROVE b \in Component(Graph!Named \ {x}, Without(x), a)
  <2>1. ASSUME NEW S, ClosedUnder(S, Without(x)), a \in S PROVE b \in S
    <3>1. ASSUME NEW k \in 1..(m - 1) PROVE s[k] \in S <=> s[k + 1] \in S
      <4>1. k \in 1..m /\ k + 1 \in 1..m
        BY <1>1
      <4> DEFINE u == s[k]
      <4> DEFINE v == s[k + 1]
      <4>2. Adjacent(u, v) /\ u # x /\ v # x
        BY <1>1, <1>4, <4>1
      <4> HIDE DEF u, v
      <4>3. PICK e \in Graph!Joined : e \in {<<u, v>>, <<v, u>>}
        BY <4>2 DEF Adjacent
      <4>4. e \in Without(x)
        BY <4>2, <4>3 DEF Without
      <4>5. e[1] \in S <=> e[2] \in S
        BY <2>1, <4>4 DEF ClosedUnder
      <4> QED
        BY <4>3, <4>5 DEF u, v
    <3>2. s[1] \in S <=> s[m] \in S
      <4>1. 1 \in Nat /\ 1 <= m
        BY <1>1
      <4> QED
        BY <1>1, <3>1, <4>1, PathKeeps
    <3> QED
      BY <2>1, <3>2
  <2>2. b \in Graph!Named \ {x}
    BY <1>1, <1>4
  <2> QED
    BY <2>1, <2>2 DEF Component
<1>5. (x = a \/ x = b) => x \in Graph!Named /\ \E k \in 1..m : x = s[k]
  BY <1>1
<1>6. \A k \in 1..m : x = s[k] => x \in Graph!Named
  BY <1>1
<1> HIDE DEF a, b
<1>7. x \in Way(Graph!Named, Graph!Joined, a, b) <=> \E k \in 1..m : x = s[k]
  BY <1>2, <1>3, <1>4, <1>5, <1>6
<1> QED
  BY <1>7 DEF a, b, m

----------------------------------------------------------------------------
\* What compute_path can still reach.

\* The edges within U, and what they reach from x with x added to U.
Inside(U) == { e \in Graph!Joined : {e[1], e[2]} \subseteq U }

Reach(U, x) == Component(U \cup {x}, Inside(U \cup {x}), x)

\* Edges within U join nodes of U.
LEMMA InsideIsIn ==
    ASSUME TreeGiven, NEW U PROVE Inside(U) \subseteq U \X U
<1>1. ASSUME NEW e \in Inside(U) PROVE e \in U \X U
  <2>1. e = <<e[1], e[2]>> /\ e[1] \in U /\ e[2] \in U
    BY JoinedUp DEF Inside
  <2> QED
    BY <2>1
<1> QED
  BY <1>1

\* What is reached is a component.
LEMMA ReachIs ==
    ASSUME TreeGiven, NEW U, NEW x
    PROVE  x \in Reach(U, x) /\ Reach(U, x) \subseteq U \cup {x} /\ ClosedUnder(Reach(U, x), Inside(U \cup {x}))
<1> DEFINE V == U \cup {x}
<1>1. x \in V /\ Inside(V) \subseteq V \X V
  BY InsideIsIn
<1> HIDE DEF V
<1>2. x \in Component(V, Inside(V), x) /\ Component(V, Inside(V), x) \subseteq V /\ ClosedUnder(Component(V, Inside(V), x), Inside(V))
  BY <1>1, ComponentIsClosed
<1> QED
  BY <1>2 DEF Reach, V

\* Without c, what s could reach is in reach of s or of c.
LEMMA ReachSplits ==
    ASSUME TreeGiven, NEW U, NEW s, NEW c \in U, NEW b, b \in Reach(U, s)
    PROVE  b \in Reach(U \ {c}, s) \/ b \in Reach(U \ {c}, c)
<1> DEFINE W == U \ {c}
<1> DEFINE S == Reach(W, s)
<1> DEFINE T == Reach(W, c)
<1>1. s \in S /\ S \subseteq W \cup {s} /\ ClosedUnder(S, Inside(W \cup {s}))
  BY ReachIs
<1>2. c \in T /\ T \subseteq W \cup {c} /\ ClosedUnder(T, Inside(W \cup {c}))
  BY ReachIs
<1> DEFINE A == S \cup T
<1>3. A \in SUBSET (U \cup {s}) /\ s \in A
  BY <1>1, <1>2
<1>4. ASSUME NEW x, NEW y, x \in A, y \in U \cup {s}, <<x, y>> \in Graph!Joined \/ <<y, x>> \in Graph!Joined
      PROVE  y \in A
  <2>1. PICK e \in Graph!Joined : (e[1] = x /\ e[2] = y) \/ (e[1] = y /\ e[2] = x)
    BY <1>4
  <2>2. CASE y = s \/ y = c
    BY <1>1, <1>2, <2>2
  <2>3. CASE y # s /\ y # c
    <3>1. y \in W
      BY <1>4, <2>3
    <3>2. CASE x \in S
      <4>1. e \in Inside(W \cup {s})
        BY <1>1, <2>1, <3>1, <3>2 DEF Inside
      <4> QED
        BY <1>1, <2>1, <3>2, <4>1 DEF ClosedUnder
    <3>3. CASE x \in T
      <4>1. e \in Inside(W \cup {c})
        BY <1>2, <2>1, <3>1, <3>3 DEF Inside
      <4> QED
        BY <1>2, <2>1, <3>3, <4>1 DEF ClosedUnder
    <3> QED
      BY <1>4, <3>2, <3>3
  <2> QED
    BY <2>2, <2>3
<1> HIDE DEF A
<1>5. ClosedUnder(A, Inside(U \cup {s}))
  <2> SUFFICES ASSUME NEW e \in Inside(U \cup {s}) PROVE e[1] \in A <=> e[2] \in A
    BY DEF ClosedUnder
  <2>1. e = <<e[1], e[2]>> /\ e \in Graph!Joined /\ e[1] \in U \cup {s} /\ e[2] \in U \cup {s}
    BY JoinedUp DEF Inside
  <2>2. <<e[1], e[2]>> \in Graph!Joined
    BY <2>1
  <2> QED
    BY <1>4, <2>1, <2>2
<1>6. Reach(U, s) \subseteq A
  BY <1>3, <1>5, ComponentIsLeast DEF Reach
<1> QED
  BY <1>6 DEF A

\* A dead end reaches nothing else.
LEMMA DeadEnd ==
    ASSUME NEW U, NEW c, \A x \in U : ~Adjacent(c, x), TreeGiven PROVE Reach(U, c) \subseteq {c}
<1>1. ClosedUnder({c}, Inside(U \cup {c}))
  <2> SUFFICES ASSUME NEW e \in Inside(U \cup {c}) PROVE e[1] \in {c} <=> e[2] \in {c}
    BY DEF ClosedUnder
  <2>1. e = <<e[1], e[2]>> /\ e \in Graph!Joined /\ e[1] \in U \cup {c} /\ e[2] \in U \cup {c}
    BY JoinedUp DEF Inside
  <2>2. <<e[1], e[2]>> \in Graph!Joined
    BY <2>1
  <2>3. Adjacent(e[1], e[2]) /\ Adjacent(e[2], e[1])
    BY <2>2 DEF Adjacent
  <2> QED
    BY <2>1, <2>3
<1>2. {c} \in SUBSET (U \cup {c}) /\ c \in {c}
  OBVIOUS
<1> DEFINE S == {c}
<1> HIDE DEF S
<1>3. S \in SUBSET (U \cup {c}) /\ c \in S /\ ClosedUnder(S, Inside(U \cup {c}))
  BY <1>1, <1>2 DEF S
<1>4. Reach(U, c) \subseteq S
  BY <1>3, ComponentIsLeast DEF Reach
<1> QED
  BY <1>4 DEF S

\* At the start of a search everything is in reach.
LEMMA AllInReach ==
    ASSUME TreeGiven, NEW a \in Graph!Named, NEW b \in Graph!Named PROVE b \in Reach(Graph!Named, a)
<1> SUFFICES ASSUME NEW S \in SUBSET (Graph!Named \cup {a}), ClosedUnder(S, Inside(Graph!Named \cup {a})), a \in S
             PROVE  b \in S
  BY DEF Reach, Component
<1>1. S \in SUBSET (1..n) /\ S # {} /\ b \in 1..n
  BY JoinedUp
<1>2. ASSUME NEW k \in 1..(n - 1) PROVE EdgeKeeps(S, pairs[k])
  <2> DEFINE e == <<Low(pairs[k]), High(pairs[k])>>
  <2>1. e \in Graph!Joined /\ e[1] = Low(pairs[k]) /\ e[2] = High(pairs[k])
    BY JoinedIs
  <2> HIDE DEF e
  <2>2. e \in Inside(Graph!Named \cup {a})
    BY <2>1, JoinedUp DEF Inside
  <2>3. e[1] \in S <=> e[2] \in S
    BY <2>2 DEF ClosedUnder
  <2>4. {Low(pairs[k]), High(pairs[k])} = {pairs[k][1], pairs[k][2]}
    BY PairsAre
  <2>5. pairs[k][1] \in S <=> pairs[k][2] \in S
    BY <2>1, <2>3, <2>4
  <2> QED
    BY <2>5 DEF EdgeKeeps
<1>3. S = 1..n
  BY <1>1, <1>2, InOnePiece
<1> QED
  BY <1>1, <1>3

----------------------------------------------------------------------------
\* subtrees_and_paths as it is compiled by default: the directed graph that the
\* edges build, the walk of an add and the search of a max.

\* What the default build is given.
GraphGiven ==
    /\ TreeGiven
    /\ queries \in Seq([kind: {"add", "max", "other"}, a: 1..n, b: Int]) /\ q \in 0..Len(queries)
    /\ pc \in {"edges", "queries", "add", "path", "done"}

\* The nodes of the edges taken, and the graph they make.
EndsTaken == { x \in 1..n : \E k \in 1..taken : x \in {Low(pairs[k]), High(pairs[k])} }

GraphBuilt ==
    /\ nodes \in [EndsTaken -> Int]
    /\ \A x, y : y \in Graph!Neighbors(x) <=> \E k \in 1..taken : x = Low(pairs[k]) /\ y = High(pairs[k])

\* Nothing is queued twice: what hangs from the nodes queued does not overlap.
QueuedOnce(s, a) ==
    /\ s \in Seq(Graph!Named)
    /\ \A k \in 1..Len(s) : s[k] \in HangingFrom(a)
    /\ \A k, l \in 1..Len(s) : k # l => HangingFrom(s[k]) \cap HangingFrom(s[l]) = {}

\* While an add walks the subtree.
Adding ==
    /\ q > 0 /\ queries[q].kind = "add" /\ queries[q].a \in Graph!Named
    /\ queue # << >> /\ QueuedOnce(queue, queries[q].a)

\* The stack is a path, its nodes but the last are visited, and one of them has
\* the target in reach.
Searching ==
    /\ q > 0 /\ queries[q].kind = "max"
    /\ unvisited \subseteq Graph!Named
    /\ SimplePath(stack)
    /\ stack # << >> => stack[1] = queries[q].a
    /\ \A k \in 1..(Len(stack) - 1) : stack[k] \notin unvisited
    /\ {queries[q].a, queries[q].b} \subseteq Graph!Named =>
           \E k \in 1..Len(stack) : queries[q].b \in Reach(unvisited, stack[k])

\* The inductive invariant of the default build.
GraphInv ==
    /\ GraphGiven /\ GraphBuilt
    /\ pc = "edges" => q = 0 /\ \A x \in DOMAIN nodes : nodes[x] = 0
    /\ pc \in {"queries", "add", "path"} => taken = n - 1
    /\ pc # "done" => status = "running"
    /\ pc = "add" => Adding
    /\ pc = "path" => Searching

\* It holds at the start.
LEMMA GraphBegins == Graph!Init => GraphInv
<1> SUFFICES ASSUME Graph!Init PROVE GraphInv
  OBVIOUS
<1>1. PICK in \in GraphInputs : n = in.n /\ pairs = in.pairs /\ queries = in.queries
  BY DEF Graph!Init
<1>2. taken = 0 /\ q = 0 /\ pc = "edges" /\ status = "running" /\ nodes = Graph!NoEdges /\ edges = Graph!NoEdges
  BY DEF Graph!Init
<1>3. /\ in.n \in Nat \ {0}
      /\ in.pairs \in Seq((1..in.n) \X (1..in.n)) /\ Len(in.pairs) = in.n - 1
      /\ IsForest(1..in.n, in.pairs)
      /\ in.queries \in Seq([kind: {"add", "max", "other"}, a: 1..in.n, b: Int])
  BY <1>1, InputsAssumption, NodeNames DEF Graph!InputsOK
<1>4. GraphGiven
  <2>1. Len(queries) \in Nat
    BY <1>1, <1>3
  <2> QED
    BY <1>1, <1>2, <1>3, <2>1 DEF GraphGiven, TreeGiven
<1>5. DOMAIN nodes = {} /\ DOMAIN edges = {} /\ nodes = [x \in {} |-> {}]
  BY <1>2 DEF Graph!NoEdges
<1>6. EndsTaken = {} /\ 1..taken = {}
  BY <1>2 DEF EndsTaken
<1>7. nodes \in [EndsTaken -> Int]
  BY <1>5, <1>6
<1>8. GraphBuilt
  BY <1>5, <1>6, <1>7 DEF GraphBuilt, Graph!Neighbors, Graph!NeighborsOf
<1> QED
  BY <1>2, <1>4, <1>5, <1>8 DEF GraphInv

\* What is kept as long as the inputs are,
LEMMA TreeGivenKept ==
    ASSUME TreeGiven, UNCHANGED <<n, pairs, taken>> PROVE TreeGiven'
<1>1. IsForest(1..n, pairs)' <=> IsForest(1..n, pairs)
  BY DEF IsForest, Component, ClosedUnder
<1> QED
  BY <1>1 DEF TreeGiven

\* and what is said of the tree with them.
LEMMA JoinedKept ==
    ASSUME UNCHANGED pairs
    PROVE  /\ Graph!Named' = Graph!Named /\ Graph!Joined' = Graph!Joined
           /\ \A x, y : Adjacent(x, y)' <=> Adjacent(x, y)
           /\ \A U, x : Reach(U, x)' = Reach(U, x)
           /\ \A x : HangingFrom(x)' = HangingFrom(x)
           /\ \A s : SimplePath(s)' <=> SimplePath(s)
           /\ \A s, a : QueuedOnce(s, a)' <=> QueuedOnce(s, a)
<1>1. Graph!Named' = Graph!Named /\ Graph!Joined' = Graph!Joined
  BY DEF Graph!Named, Graph!Joined, Graph!ToSet, Graph!Min, Graph!Max
<1>2. \A x, y : Adjacent(x, y)' <=> Adjacent(x, y)
  BY <1>1 DEF Adjacent
<1>3. \A U, x : Reach(U, x)' = Reach(U, x)
  BY <1>1 DEF Reach, Inside, Component, ClosedUnder
<1>4. \A x : HangingFrom(x)' = HangingFrom(x)
  BY <1>1 DEF HangingFrom, Hangs
<1>5. \A s : SimplePath(s)' <=> SimplePath(s)
  BY <1>1, <1>2 DEF SimplePath
<1>6. \A s, a : QueuedOnce(s, a)' <=> QueuedOnce(s, a)
  BY <1>1, <1>4 DEF QueuedOnce
<1> QED
  BY <1>1, <1>2, <1>3, <1>4, <1>5, <1>6

\* A step after the edges, but for what it queues or stacks.
LEMMA GraphStays ==
    ASSUME GraphInv, UNCHANGED <<n, pairs, queries, taken, edges>>, q' \in 0..Len(queries),
           pc' \in {"edges", "queries", "add", "path", "done"},
           DOMAIN nodes' = DOMAIN nodes, nodes' \in [DOMAIN nodes -> Int]
    PROVE  GraphGiven' /\ GraphBuilt'
<1>1. GraphGiven /\ GraphBuilt
  BY DEF GraphInv
<1>2. TreeGiven'
  BY <1>1, TreeGivenKept DEF GraphGiven
<1>3. GraphGiven'
  BY <1>1, <1>2 DEF GraphGiven
<1>4. EndsTaken' = EndsTaken
  BY DEF EndsTaken
<1>5. nodes' \in [EndsTaken' -> Int]
  BY <1>1, <1>4 DEF GraphBuilt
<1>6. \A x : Graph!Neighbors(x)' = Graph!Neighbors(x)
  BY DEF Graph!Neighbors, Graph!NeighborsOf
<1> QED
  BY <1>1, <1>3, <1>5, <1>6 DEF GraphBuilt

\* An edge enters the graph from its lower end to its higher one.
LEMMA GraphEdgeEnters ==
    ASSUME GraphInv, Graph!InsertEdge PROVE GraphInv'
<1> DEFINE k == taken + 1
<1> DEFINE x == Low(pairs[k])
<1> DEFINE y == High(pairs[k])
<1>1. /\ pc = "edges" /\ taken < n - 1 /\ taken' = k
      /\ UNCHANGED <<n, pairs, queries, q, queue, stack, unvisited, answers, pc, status>>
  BY DEF Graph!InsertEdge, Graph!args
<1>2. GraphGiven /\ GraphBuilt /\ TreeGiven /\ q = 0 /\ status = "running" /\ \A z \in DOMAIN nodes : nodes[z] = 0
  BY <1>1 DEF GraphInv, GraphGiven
<1>3. n \in Nat /\ taken \in Nat /\ taken \in 0..(n - 1) /\ k \in 1..(n - 1) /\ k \in 0..(n - 1)
  BY <1>1, <1>2, PairsAre
<1>4. pairs[k] \in (1..n) \X (1..n) /\ x \in 1..n /\ y \in 1..n
  BY <1>2, <1>3, PairsAre
<1>5. /\ Graph!ToSet(pairs[k]) = {x, y} /\ Graph!Min(Graph!ToSet(pairs[k])) = x /\ Graph!Max(Graph!ToSet(pairs[k])) = y
  <2>1. /\ {x, y} = {pairs[k][1], pairs[k][2]} /\ Graph!ToSet(pairs[k]) = {pairs[k][1], pairs[k][2]}
        /\ Graph!Min(Graph!ToSet(pairs[k])) = x /\ Graph!Max(Graph!ToSet(pairs[k])) = y
    BY <1>3, <1>4, EndsAre
  <2> QED
    BY <2>1
<1>6. nodes' = Graph!WithNodes({x, y}) /\ edges' = Graph!Insert(edges, x, y)
  <2>1. /\ nodes' = Graph!WithNodes(Graph!ToSet(pairs[taken']))
        /\ edges' = Graph!Insert(edges, Graph!Min(Graph!ToSet(pairs[taken'])), Graph!Max(Graph!ToSet(pairs[taken'])))
    BY DEF Graph!InsertEdge
  <2> QED
    BY <1>1, <1>5, <2>1
<1> HIDE DEF x, y
<1>7. EndsTaken' = EndsTaken \cup {x, y}
  <2>1. 1..k = 1..taken \cup {k}
    BY <1>3
  <2>2. EndsTaken' = { z \in 1..n : \E l \in 1..k : z \in {Low(pairs[l]), High(pairs[l])} }
    BY <1>1 DEF EndsTaken
  <2> HIDE DEF k
  <2>3. \A z \in 1..n : (\E l \in 1..k : z \in {Low(pairs[l]), High(pairs[l])}) <=>
                            (\E l \in 1..taken : z \in {Low(pairs[l]), High(pairs[l])}) \/ z \in {x, y}
    BY <2>1 DEF x, y
  <2> QED
    BY <1>4, <2>2, <2>3 DEF EndsTaken
<1>8. /\ DOMAIN nodes' = EndsTaken' /\ nodes' = [z \in DOMAIN nodes' |-> nodes'[z]]
      /\ \A z \in DOMAIN nodes' : nodes'[z] = 0
  <2>1. DOMAIN nodes = EndsTaken
    BY <1>2 DEF GraphBuilt
  <2>2. nodes' = [z \in DOMAIN nodes \cup {x, y} |-> IF z \in DOMAIN nodes THEN nodes[z] ELSE 0]
    BY <1>6 DEF Graph!WithNodes, Graph!HasNode
  <2> QED
    BY <1>2, <1>7, <2>1, <2>2
<1>9. nodes' \in [EndsTaken' -> Int]
  BY <1>8
<1>10. \A u, v : v \in Graph!Neighbors(u)' <=> v \in Graph!Neighbors(u) \/ (u = x /\ v = y)
  <2>1. edges' = [z \in DOMAIN edges \cup {x} |-> IF z = x THEN Graph!NeighborsOf(edges, x) \cup {y} ELSE edges[z]]
    BY <1>6 DEF Graph!Insert
  <2>2. \A u : Graph!Neighbors(u)' = IF u \in DOMAIN edges' THEN edges'[u] ELSE {}
    BY DEF Graph!Neighbors, Graph!NeighborsOf
  <2>3. \A u : Graph!Neighbors(u) = IF u \in DOMAIN edges THEN edges[u] ELSE {}
    BY DEF Graph!Neighbors, Graph!NeighborsOf
  <2>4. Graph!NeighborsOf(edges, x) = Graph!Neighbors(x)
    BY DEF Graph!Neighbors
  <2>5. ASSUME NEW u PROVE Graph!Neighbors(u)' = IF u = x THEN Graph!Neighbors(x) \cup {y} ELSE Graph!Neighbors(u)
    BY <2>1, <2>2, <2>3, <2>4
  <2> QED
    BY <2>5
<1>11. ASSUME NEW u, NEW v
       PROVE  v \in Graph!Neighbors(u)' <=> \E l \in 1..k : u = Low(pairs[l]) /\ v = High(pairs[l])
  <2>1. 1..k = 1..taken \cup {k}
    BY <1>3
  <2>2. v \in Graph!Neighbors(u) <=> \E l \in 1..taken : u = Low(pairs[l]) /\ v = High(pairs[l])
    BY <1>2 DEF GraphBuilt
  <2> HIDE DEF k
  <2> QED
    BY <1>10, <2>1, <2>2 DEF x, y
<1>12. GraphBuilt'
  <2>1. UNCHANGED pairs /\ taken' = k
    BY <1>1
  <2> HIDE DEF k
  <2> QED
    BY <1>9, <1>11, <2>1 DEF GraphBuilt
<1>13. GraphGiven'
  <2>1. IsForest(1..n, pairs)' <=> IsForest(1..n, pairs)
    BY <1>1 DEF IsForest, Component, ClosedUnder
  <2>2. TreeGiven'
    BY <1>1, <1>2, <1>3, <2>1 DEF TreeGiven
  <2> QED
    BY <1>1, <1>2, <2>2 DEF GraphGiven
<1> QED
  BY <1>1, <1>2, <1>8, <1>12, <1>13 DEF GraphInv

----------------------------------------------------------------------------
\* The walk of an add.

\* With all edges taken the graph is the tree.
LEMMA BuiltFully ==
    ASSUME GraphGiven, GraphBuilt, taken = n - 1
    PROVE  /\ DOMAIN nodes = Graph!Named /\ nodes \in [Graph!Named -> Int]
           /\ \A x : Graph!HasNode(x) <=> x \in Graph!Named
           /\ \A x, y : y \in Graph!Neighbors(x) <=> <<x, y>> \in Graph!Joined
           /\ \A x, y : Graph!HasEdge(x, y) <=> <<x, y>> \in Graph!Joined
<1>1. TreeGiven
  BY DEF GraphGiven
<1>2. \A x : x \in Graph!Named <=> x \in EndsTaken
  BY <1>1, JoinedUp DEF EndsTaken
<1>3. EndsTaken = Graph!Named
  BY <1>2
<1>4. \A x, y : y \in Graph!Neighbors(x) <=> <<x, y>> \in Graph!Joined
  <2>1. ASSUME NEW x, NEW y, <<x, y>> \in Graph!Joined PROVE \E k \in 1..(n - 1) : x = Low(pairs[k]) /\ y = High(pairs[k])
    <3>1. PICK k \in 1..(n - 1) : <<x, y>> = <<Low(pairs[k]), High(pairs[k])>>
      BY <1>1, <2>1, JoinedIs
    <3> QED
      BY <3>1
  <2>2. ASSUME NEW k \in 1..(n - 1) PROVE <<Low(pairs[k]), High(pairs[k])>> \in Graph!Joined
    BY <1>1, JoinedIs
  <2>3. \A x, y : y \in Graph!Neighbors(x) <=> \E k \in 1..(n - 1) : x = Low(pairs[k]) /\ y = High(pairs[k])
    BY DEF GraphBuilt
  <2>4. ASSUME NEW x, NEW y, y \in Graph!Neighbors(x) PROVE <<x, y>> \in Graph!Joined
    <3>1. PICK k \in 1..(n - 1) : x = Low(pairs[k]) /\ y = High(pairs[k])
      BY <2>3, <2>4
    <3> QED
      BY <2>2, <3>1
  <2> QED
    BY <2>1, <2>3, <2>4
<1>5. \A x, y : Graph!HasEdge(x, y) <=> y \in Graph!Neighbors(x)
  BY DEF Graph!HasEdge, Graph!ContainsEdge, Graph!Neighbors
<1> QED
  BY <1>3, <1>4, <1>5 DEF GraphBuilt, Graph!HasNode

\* What every query that is read has in common.
LEMMA GraphQueryRead ==
    ASSUME GraphInv, NEW kind, Graph!ReadQuery(kind)
    PROVE  /\ GraphGiven /\ GraphBuilt /\ TreeGiven /\ pc = "queries" /\ status = "running" /\ taken = n - 1
           /\ q < Len(queries) /\ q \in Nat /\ q' = q + 1 /\ q' \in 0..Len(queries) /\ q' > 0
           /\ queries[q + 1].kind = kind /\ queries[q + 1].a \in 1..n /\ queries[q + 1].b \in Int
           /\ queries[q + 1].kind \in {"add", "max", "other"}
           /\ UNCHANGED <<n, pairs, queries, taken, nodes, edges>>
<1>1. /\ pc = "queries" /\ q < Len(queries) /\ q' = q + 1 /\ queries[q + 1].kind = kind
      /\ UNCHANGED <<n, pairs, queries, taken, nodes, edges>>
  BY DEF Graph!ReadQuery, Graph!args, Graph!graph
<1>2. GraphGiven /\ GraphBuilt /\ status = "running" /\ taken = n - 1 /\ TreeGiven
  BY <1>1 DEF GraphInv, GraphGiven
<1>3. Len(queries) \in Nat /\ q \in 0..Len(queries) /\ queries \in Seq([kind: {"add", "max", "other"}, a: 1..n, b: Int])
  BY <1>2 DEF GraphGiven
<1>4. q + 1 \in 1..Len(queries) /\ q \in Nat /\ q + 1 \in 0..Len(queries) /\ q + 1 > 0
  BY <1>1, <1>3
<1>5. queries[q + 1] \in [kind: {"add", "max", "other"}, a: 1..n, b: Int]
  BY <1>3, <1>4, ElementOfSeq
<1>6. queries[q + 1].a \in 1..n /\ queries[q + 1].b \in Int /\ queries[q + 1].kind \in {"add", "max", "other"}
  BY <1>5
<1> QED
  BY <1>1, <1>2, <1>4, <1>6

\* A walk of a finite set lists each member once.
LEMMA ListsOnce ==
    ASSUME NEW S, IsFiniteSet(S), NEW w \in Graph!Walks(S)
    PROVE  /\ w \in Seq(S)
           /\ \A x \in S : \E k \in 1..Len(w) : w[k] = x
           /\ \A k, l \in 1..Len(w) : w[k] = w[l] => k = l
<1> DEFINE d == Cardinality(S)
<1>1. d \in Nat /\ IsFiniteSet(1..d) /\ Cardinality(1..d) = d
  BY FS_CardinalityType, FS_Interval
<1>2. w \in [1..d -> S] /\ \A k, l \in 1..d : k # l => w[k] # w[l]
  <2>1. Graph!Cardinality(S) = Cardinality(S)
    BY DEF Graph!Cardinality, Cardinality
  <2> QED
    BY <2>1 DEF Graph!Walks, Graph!SetToSeqs
<1> HIDE DEF d
<1>3. w \in Seq(S) /\ Len(w) = d
  BY <1>1, <1>2
<1> DEFINE T == { w[k] : k \in 1..d }
<1>4. T \in SUBSET S
  BY <1>2
<1>5. w \in Injection(1..d, T)
  BY <1>2 DEF Injection, IsInjective
<1>6. IsFiniteSet(T) /\ Cardinality(T) <= d
  BY <1>4, FS_Subset DEF d
<1>7. Cardinality(1..d) <= Cardinality(T)
  BY <1>5, <1>6, FS_Injection
<1>8. Cardinality(T) = Cardinality(S)
  BY <1>1, <1>6, <1>7, FS_CardinalityType DEF d
<1> HIDE DEF T
<1>9. T = S
  BY <1>4, <1>8, FS_Subset
<1> QED
  BY <1>2, <1>3, <1>9 DEF T

\* x hangs from a node that is queued.
InWait(s, x) == \E k \in 1..Len(s) : x \in HangingFrom(s[k])

\* One list behind another.
LEMMA TwoLists ==
    ASSUME NEW S, NEW t \in Seq(S), NEW w \in Seq(S), NEW r, r = t \o w
    PROVE  /\ r \in Seq(S) /\ Len(r) = Len(t) + Len(w) /\ Len(w) \in Nat
           /\ \A k \in 1..(Len(t) + Len(w)) : r[k] = IF k <= Len(t) THEN t[k] ELSE w[k - Len(t)]
BY ConcatProperties

\* The first of the queue gives way to its children.
LEMMA Requeued ==
    ASSUME TreeGiven, NEW a, NEW s, s # << >>, QueuedOnce(s, a),
           NEW w \in Seq(Graph!Named),
           \A x : <<s[1], x>> \in Graph!Joined <=> \E k \in 1..Len(w) : w[k] = x,
           \A k, l \in 1..Len(w) : w[k] = w[l] => k = l
    PROVE  /\ QueuedOnce(Tail(s) \o w, a)
           /\ \A x : InWait(Tail(s) \o w, x) <=> InWait(s, x) /\ x # s[1]
<1> DEFINE t == Tail(s)
<1> DEFINE r == t \o w
<1> DEFINE H(x) == HangingFrom(x)
<1>1. /\ s \in Seq(Graph!Named) /\ Len(s) \in Nat /\ Len(s) > 0
      /\ \A k \in 1..Len(s) : s[k] \in Graph!Named /\ s[k] \in H(a)
      /\ \A k, l \in 1..Len(s) : k # l => H(s[k]) \cap H(s[l]) = {}
  <2>1. s \in Seq(Graph!Named)
    BY DEF QueuedOnce
  <2>2. Len(s) \in Nat /\ Len(s) > 0
    BY <2>1, EmptySeq
  <2>3. \A k \in 1..Len(s) : s[k] \in Graph!Named
    BY <2>1, ElementOfSeq
  <2> QED
    BY <2>1, <2>2, <2>3 DEF QueuedOnce
<1>2. /\ t \in Seq(Graph!Named) /\ Len(t) = Len(s) - 1 /\ Len(t) \in Nat
      /\ \A k \in 1..Len(t) : t[k] = s[k + 1] /\ k + 1 \in 1..Len(s) /\ k + 1 # 1
  <2>1. t \in Seq(Graph!Named) /\ Len(t) = Len(s) - 1 /\ \A k \in 1..Len(t) : t[k] = s[k + 1]
    BY <1>1, HeadTailProperties
  <2> QED
    BY <1>1, <2>1
<1> HIDE DEF t
<1>3. /\ r \in Seq(Graph!Named) /\ Len(r) = Len(t) + Len(w) /\ Len(w) \in Nat
      /\ \A k \in 1..(Len(t) + Len(w)) : r[k] = IF k <= Len(t) THEN t[k] ELSE w[k - Len(t)]
  <2>1. t \in Seq(Graph!Named) /\ w \in Seq(Graph!Named) /\ r = t \o w
    BY <1>2
  <2> HIDE DEF r
  <2> QED
    BY <2>1, TwoLists
<1> HIDE DEF r
<1>4. ASSUME NEW k \in 1..Len(r)
      PROVE  \/ k \in 1..Len(t) /\ r[k] = s[k + 1] /\ k + 1 \in 1..Len(s) /\ k + 1 # 1
             \/ k \notin 1..Len(t) /\ k - Len(t) \in 1..Len(w) /\ r[k] = w[k - Len(t)] /\ <<s[1], r[k]>> \in Graph!Joined
  <2>1. CASE k <= Len(t)
    BY <1>2, <1>3, <2>1, SMTT(30)
  <2>2. CASE ~(k <= Len(t))
    <3>1. k - Len(t) \in 1..Len(w) /\ r[k] = w[k - Len(t)] /\ k \notin 1..Len(t)
      BY <1>2, <1>3, <2>2
    <3> QED
      BY <3>1
  <2> QED
    BY <2>1, <2>2
<1>5. 1 \in 1..Len(s) /\ s[1] \in Graph!Named /\ s[1] \in H(a)
  BY <1>1
<1> DEFINE c == s[1]
<1>6. \A x : <<c, x>> \in Graph!Joined => x \in Graph!Named /\ H(x) \subseteq H(c) /\ c \notin H(x) /\ x \in H(a)
  <2> SUFFICES ASSUME NEW x, <<c, x>> \in Graph!Joined
               PROVE  x \in Graph!Named /\ H(x) \subseteq H(c) /\ c \notin H(x) /\ x \in H(a)
    OBVIOUS
  <2> DEFINE e == <<c, x>>
  <2>1. e \in Graph!Joined /\ e[1] = c /\ e[2] = x
    OBVIOUS
  <2> HIDE DEF e
  <2>2. x \in Graph!Named /\ x \in 1..n /\ c \in 1..n /\ c < x
    BY <2>1, JoinedUp
  <2>3. c \in H(c)
    BY <1>5, HangsItself
  <2>4. x \in H(c) /\ x \in H(a)
    BY <1>5, <2>1, <2>3, HangsOn
  <2>5. H(x) \subseteq H(c)
    BY <2>4, HangsBelowToo
  <2>6. c \notin H(x)
    <3> SUFFICES ASSUME c \in H(x) PROVE FALSE
      OBVIOUS
    <3>1. c >= x
      BY <2>2, HangsHigher
    <3>2. n \in Nat
      BY PairsAre
    <3> QED
      BY <2>2, <3>1, <3>2
  <2> QED
    BY <2>2, <2>4, <2>5, <2>6
<1>7. \A x : x \in H(c) <=> x = c \/ \E y \in Graph!Named : <<c, y>> \in Graph!Joined /\ x \in H(y)
  BY <1>5, HangsByChildren
<1>8. \A x, y : <<c, x>> \in Graph!Joined /\ <<c, y>> \in Graph!Joined /\ x # y => H(x) \cap H(y) = {}
  BY <1>5, ChildrenApart
<1>9. ASSUME NEW k \in 1..Len(r), NEW l \in 1..Len(r), k # l PROVE H(r[k]) \cap H(r[l]) = {}
  <2>1. CASE k \in 1..Len(t) /\ l \in 1..Len(t)
    <3>1. r[k] = s[k + 1] /\ r[l] = s[l + 1] /\ k + 1 \in 1..Len(s) /\ l + 1 \in 1..Len(s)
      BY <1>4, <2>1
    <3>2. k + 1 # l + 1
      BY <1>9
    <3> QED
      BY <1>1, <3>1, <3>2
  <2>2. CASE k \in 1..Len(t) /\ l \notin 1..Len(t)
    <3>1. r[k] = s[k + 1] /\ k + 1 \in 1..Len(s) /\ k + 1 # 1 /\ <<c, r[l]>> \in Graph!Joined
      BY <1>4, <2>2
    <3>2. H(s[k + 1]) \cap H(c) = {}
      BY <1>1, <1>5, <3>1
    <3> QED
      BY <1>6, <3>1, <3>2
  <2>3. CASE k \notin 1..Len(t) /\ l \in 1..Len(t)
    <3>1. r[l] = s[l + 1] /\ l + 1 \in 1..Len(s) /\ l + 1 # 1 /\ <<c, r[k]>> \in Graph!Joined
      BY <1>4, <2>3
    <3>2. H(s[l + 1]) \cap H(c) = {}
      BY <1>1, <1>5, <3>1
    <3> QED
      BY <1>6, <3>1, <3>2
  <2>4. CASE k \notin 1..Len(t) /\ l \notin 1..Len(t)
    <3>1. /\ k - Len(t) \in 1..Len(w) /\ r[k] = w[k - Len(t)] /\ <<c, r[k]>> \in Graph!Joined
          /\ l - Len(t) \in 1..Len(w) /\ r[l] = w[l - Len(t)] /\ <<c, r[l]>> \in Graph!Joined
      BY <1>4, <2>4
    <3>2. k - Len(t) # l - Len(t)
      BY <1>2, <1>9
    <3>3. r[k] # r[l]
      BY <3>1, <3>2
    <3> QED
      BY <1>8, <3>1, <3>3
  <2> QED
    BY <2>1, <2>2, <2>3, <2>4
<1>10. \A k \in 1..Len(r) : r[k] \in H(a)
  BY <1>1, <1>4, <1>6
<1>11. ASSUME NEW x PROVE InWait(r, x) <=> InWait(s, x) /\ x # c
  <2>1. ASSUME NEW k \in 1..Len(r), x \in H(r[k]) PROVE InWait(s, x) /\ x # c
    <3>1. CASE k \in 1..Len(t)
      <4>1. r[k] = s[k + 1] /\ k + 1 \in 1..Len(s) /\ k + 1 # 1
        BY <1>4, <3>1
      <4>2. H(s[k + 1]) \cap H(c) = {} /\ c \in H(c)
        BY <1>1, <1>5, <4>1, HangsItself
      <4> QED
        BY <2>1, <4>1, <4>2 DEF InWait
    <3>2. CASE k \notin 1..Len(t)
      <4>1. <<c, r[k]>> \in Graph!Joined
        BY <1>4, <3>2
      <4>2. x \in H(c) /\ x # c
        BY <1>6, <2>1, <4>1
      <4> QED
        BY <1>5, <4>2 DEF InWait
    <3> QED
      BY <3>1, <3>2
  <2>2. ASSUME NEW k \in 1..Len(s), x \in H(s[k]), x # c PROVE InWait(r, x)
    <3>1. CASE k = 1
      <4>1. PICK y \in Graph!Named : <<c, y>> \in Graph!Joined /\ x \in H(y)
        BY <1>7, <2>2, <3>1
      <4>2. PICK l \in 1..Len(w) : w[l] = y
        BY <4>1
      <4>3. Len(t) + l \in 1..(Len(t) + Len(w)) /\ ~(Len(t) + l <= Len(t)) /\ Len(t) + l - Len(t) = l
        BY <1>2, <1>3
      <4> DEFINE j_1 == Len(t) + l
      <4>4. r[j_1] = y
        <5>1. r[j_1] = w[j_1 - Len(t)]
          BY <1>3, <4>3
        <5> QED
          BY <4>2, <4>3, <5>1
      <4>5. j_1 \in 1..Len(r)
        BY <1>3, <4>3
      <4> HIDE DEF j_1
      <4> QED
        BY <4>1, <4>4, <4>5 DEF InWait
    <3>2. CASE k # 1
      <4> DEFINE l == k - 1
      <4>1. l \in 1..Len(t) /\ l \in 1..(Len(t) + Len(w)) /\ l <= Len(t) /\ l + 1 = k
        BY <1>1, <1>2, <1>3, <3>2
      <4> HIDE DEF l
      <4>2. r[l] = s[k] /\ l \in 1..Len(r)
        BY <1>2, <1>3, <4>1
      <4> QED
        BY <2>2, <4>2 DEF InWait
    <3> QED
      BY <3>1, <3>2
  <2> QED
    BY <2>1, <2>2 DEF InWait
<1>12. QueuedOnce(r, a)
  BY <1>3, <1>9, <1>10 DEF QueuedOnce
<1> QED
  BY <1>11, <1>12 DEF r, t

\* A step of an add raises the front of the queue and queues its neighbors, so
\* that what still hangs in wait is what hung in wait before, but for the front.
LEMMA AddStepIs ==
    ASSUME GraphInv, Graph!AddStep
    PROVE  /\ GraphGiven /\ GraphBuilt /\ TreeGiven /\ Adding /\ pc = "add" /\ taken = n - 1 /\ status = "running"
           /\ UNCHANGED <<n, pairs, queries, taken, q, edges, stack, unvisited, answers, status>>
           /\ queries[q].b \in Int /\ queue[1] \in Graph!Named
           /\ queue[1] \in HangingFrom(queries[q].a) /\ InWait(queue, queue[1])
           /\ nodes' = [nodes EXCEPT ![queue[1]] = @ + queries[q].b]
           /\ QueuedOnce(queue', queries[q].a)
           /\ \A x : InWait(queue', x) <=> InWait(queue, x) /\ x # queue[1]
           /\ pc' = IF queue' = << >> THEN "queries" ELSE "add"
<1>1. /\ pc = "add" /\ UNCHANGED <<n, pairs, queries, taken, q, edges, stack, unvisited, answers, status>>
      /\ pc' = IF queue' = << >> THEN "queries" ELSE "add"
  BY DEF Graph!AddStep, Graph!args
<1>2. GraphGiven /\ GraphBuilt /\ TreeGiven /\ Adding /\ taken = n - 1 /\ status = "running"
  BY <1>1 DEF GraphInv, GraphGiven
<1>3. queue # << >> /\ QueuedOnce(queue, queries[q].a) /\ queue \in Seq(Graph!Named) /\ q > 0
  BY <1>2 DEF Adding, QueuedOnce
<1>4. Len(queue) > 0 /\ Len(queue) \in Nat /\ 1 \in 1..Len(queue) /\ Head(queue) = queue[1]
  BY <1>3, EmptySeq
<1>5. queue[1] \in Graph!Named /\ queue[1] \in HangingFrom(queries[q].a)
  BY <1>3, <1>4, ElementOfSeq DEF QueuedOnce
<1>6. InWait(queue, queue[1])
  BY <1>4, <1>5, HangsItself DEF InWait
<1>7. queries[q].b \in Int
  <2>1. q \in 1..Len(queries) /\ queries \in Seq([kind: {"add", "max", "other"}, a: 1..n, b: Int])
    <3>1. q \in 0..Len(queries) /\ queries \in Seq([kind: {"add", "max", "other"}, a: 1..n, b: Int])
      BY <1>2 DEF GraphGiven
    <3> QED
      BY <1>3, <3>1
  <2>2. queries[q] \in [kind: {"add", "max", "other"}, a: 1..n, b: Int]
    BY <2>1, ElementOfSeq
  <2> QED
    BY <2>2
<1>8. nodes' = [nodes EXCEPT ![queue[1]] = @ + queries[q].b]
  BY <1>4 DEF Graph!AddStep, Graph!Query
<1> DEFINE N == Graph!Neighbors(queue[1])
<1>9. PICK w \in Graph!Walks(N) : queue' = Tail(queue) \o w
  BY <1>4 DEF Graph!AddStep
<1>10. \A x : x \in N <=> <<queue[1], x>> \in Graph!Joined
  BY <1>2, BuiltFully
<1> HIDE DEF N
<1>11. N \subseteq Graph!Named /\ N \subseteq 1..n
  <2> SUFFICES ASSUME NEW x \in N PROVE x \in Graph!Named /\ x \in 1..n
    OBVIOUS
  <2> DEFINE e == <<queue[1], x>>
  <2>1. e \in Graph!Joined /\ e[2] = x
    BY <1>10
  <2> HIDE DEF e
  <2> QED
    BY <1>2, <2>1, JoinedUp
<1>12. IsFiniteSet(N)
  <2>1. n \in Nat
    BY <1>2, PairsAre
  <2>2. IsFiniteSet(1..n)
    BY <2>1, FS_Interval
  <2> QED
    BY <1>11, <2>2, FS_Subset
<1>13. /\ w \in Seq(N) /\ \A x \in N : \E k \in 1..Len(w) : w[k] = x
       /\ \A k, l \in 1..Len(w) : w[k] = w[l] => k = l
  BY <1>12, ListsOnce
<1>14. w \in Seq(Graph!Named) /\ \A k \in 1..Len(w) : w[k] \in N
  <2>1. \A k \in 1..Len(w) : w[k] \in N
    BY <1>13, ElementOfSeq
  <2>2. \A k \in 1..Len(w) : w[k] \in Graph!Named
    BY <1>11, <2>1
  <2>3. Len(w) \in Nat /\ DOMAIN w = 1..Len(w) /\ w = [k \in 1..Len(w) |-> w[k]]
    BY <1>13
  <2>4. w \in [1..Len(w) -> Graph!Named]
    BY <2>2, <2>3
  <2>5. w \in Seq(Graph!Named)
    BY <2>3, <2>4
  <2> QED
    BY <2>1, <2>5
<1>15. \A x : <<queue[1], x>> \in Graph!Joined <=> \E k \in 1..Len(w) : w[k] = x
  BY <1>10, <1>13, <1>14
<1>16. QueuedOnce(Tail(queue) \o w, queries[q].a) /\ \A x : InWait(Tail(queue) \o w, x) <=> InWait(queue, x) /\ x # queue[1]
  BY <1>2, <1>3, <1>13, <1>14, <1>15, Requeued, SMTT(30)
<1> QED
  BY <1>1, <1>2, <1>5, <1>6, <1>7, <1>8, <1>9, <1>16

\* The steps of an add keep the invariant.
LEMMA GraphAddStep == ASSUME GraphInv, Graph!AddStep PROVE GraphInv'
<1>1. /\ GraphGiven /\ GraphBuilt /\ Adding /\ taken = n - 1 /\ status = "running"
      /\ UNCHANGED <<n, pairs, queries, taken, q, edges, stack, unvisited, answers, status>>
      /\ queries[q].b \in Int /\ queue[1] \in Graph!Named
      /\ nodes' = [nodes EXCEPT ![queue[1]] = @ + queries[q].b]
      /\ QueuedOnce(queue', queries[q].a)
      /\ pc' = IF queue' = << >> THEN "queries" ELSE "add"
  BY AddStepIs
<1>2. DOMAIN nodes' = DOMAIN nodes /\ nodes' \in [DOMAIN nodes -> Int]
  <2>1. nodes \in [Graph!Named -> Int] /\ DOMAIN nodes = Graph!Named
    BY <1>1, BuiltFully
  <2> QED
    BY <1>1, <2>1
<1>3. GraphGiven' /\ GraphBuilt'
  <2>1. q' \in 0..Len(queries) /\ pc' \in {"edges", "queries", "add", "path", "done"}
    BY <1>1 DEF GraphGiven
  <2> QED
    BY <1>1, <1>2, <2>1, GraphStays
<1>4. pc' = "add" => Adding'
  <2> SUFFICES ASSUME pc' = "add" PROVE Adding'
    OBVIOUS
  <2>1. queue' # << >>
    BY <1>1
  <2>2. Graph!Named' = Graph!Named /\ \A x : HangingFrom(x)' = HangingFrom(x)
    BY <1>1, JoinedKept
  <2>3. QueuedOnce(queue, queries[q].a)'
    BY <1>1, <2>2 DEF QueuedOnce
  <2> QED
    BY <1>1, <2>1, <2>2, <2>3 DEF Adding
<1>5. pc' \in {"queries", "add"}
  BY <1>1
<1> QED
  BY <1>1, <1>3, <1>4, <1>5 DEF GraphInv

\* And so does its start.
LEMMA GraphStartsAdd == ASSUME GraphInv, Graph!StartAdd PROVE GraphInv'
<1> DEFINE x == queries[q + 1].a
<1>1. /\ GraphGiven /\ GraphBuilt /\ TreeGiven /\ pc = "queries" /\ status = "running" /\ taken = n - 1
      /\ q' = q + 1 /\ q' \in 0..Len(queries) /\ q' > 0 /\ queries[q + 1].kind = "add"
      /\ UNCHANGED <<n, pairs, queries, taken, nodes, edges>>
  BY GraphQueryRead DEF Graph!StartAdd
<1>2. UNCHANGED <<stack, unvisited, answers, status>>
  BY DEF Graph!StartAdd
<1>3. nodes' \in [DOMAIN nodes -> Int]
  BY <1>1, BuiltFully
<1>4. CASE ~Graph!HasNode(x)
  <2>1. pc' = pc
    BY <1>1, <1>4 DEF Graph!StartAdd, Graph!Query
  <2>2. GraphGiven' /\ GraphBuilt'
    BY <1>1, <1>3, <2>1, GraphStays
  <2> QED
    BY <1>1, <1>2, <2>1, <2>2 DEF GraphInv
<1>5. CASE Graph!HasNode(x)
  <2>1. pc' = "add" /\ queue' = <<x>>
    BY <1>1, <1>5 DEF Graph!StartAdd, Graph!Query
  <2>2. GraphGiven' /\ GraphBuilt'
    BY <1>1, <1>3, <2>1, GraphStays
  <2>3. x \in Graph!Named
    BY <1>1, <1>5, BuiltFully
  <2> HIDE DEF x
  <2>4. queue' \in Seq(Graph!Named) /\ Len(queue') = 1 /\ queue'[1] = x /\ queue' # << >>
    BY <2>1, <2>3
  <2>5. x \in HangingFrom(x)
    BY <2>3, HangsItself
  <2>6. \A k \in 1..Len(queue') : k = 1
    BY <2>4
  <2>7. Graph!Named' = Graph!Named /\ \A z : HangingFrom(z)' = HangingFrom(z)
    BY <1>1, JoinedKept
  <2> DEFINE s == <<x>>
  <2>8. QueuedOnce(s, x)
    BY <2>1, <2>4, <2>5, <2>6 DEF QueuedOnce
  <2>9. Adding'
    <3>1. queries'[q'].a = x /\ queries'[q'].kind = "add" /\ Graph!Named' = Graph!Named
      BY <1>1, JoinedKept DEF x
    <3>2. QueuedOnce(queue, queries[q].a)'
      BY <2>1, <2>7, <2>8, <3>1 DEF QueuedOnce
    <3> QED
      BY <1>1, <2>1, <2>3, <2>4, <3>1, <3>2 DEF Adding
  <2> QED
    BY <1>1, <1>2, <2>1, <2>2, <2>9 DEF GraphInv
<1> QED
  BY <1>4, <1>5

----------------------------------------------------------------------------
\* The search of a max.

\* A path is continued by a neighbor that is not on it,
LEMMA PathOn ==
    ASSUME NEW s, SimplePath(s), Len(s) > 0, NEW x \in Graph!Named, Adjacent(s[Len(s)], x),
           \A k \in 1..Len(s) : s[k] # x
    PROVE  /\ SimplePath(Append(s, x)) /\ Append(s, x) # << >> /\ Len(Append(s, x)) = Len(s) + 1
           /\ \A k \in 1..Len(s) : Append(s, x)[k] = s[k]
<1> DEFINE t == Append(s, x)
<1>1. s \in Seq(Graph!Named) /\ Len(s) \in Nat
  BY DEF SimplePath
<1>2. /\ t \in Seq(Graph!Named) /\ t # << >> /\ Len(t) = Len(s) + 1
      /\ \A k \in 1..Len(s) : t[k] = s[k]
      /\ t[Len(s) + 1] = x
  BY <1>1, AppendProperties
<1> HIDE DEF t
<1>3. \A k \in 1..Len(t) : k \in 1..Len(s) \/ k = Len(s) + 1
  BY <1>1, <1>2
<1>4. ASSUME NEW k \in 1..Len(t), NEW l \in 1..Len(t), t[k] = t[l] PROVE k = l
  <2>1. \A k_1, l_1 \in 1..Len(s) : s[k_1] = s[l_1] => k_1 = l_1
    BY DEF SimplePath
  <2> QED
    BY <1>2, <1>3, <1>4, <2>1
<1>5. ASSUME NEW k \in 1..(Len(t) - 1) PROVE Adjacent(t[k], t[k + 1])
  <2>1. CASE k = Len(s)
    <3>1. k \in 1..Len(s)
      BY <1>1, <2>1
    <3> QED
      BY <1>2, <2>1, <3>1
  <2>2. CASE k # Len(s)
    <3>1. k \in 1..(Len(s) - 1) /\ k \in 1..Len(s) /\ k + 1 \in 1..Len(s)
      BY <1>1, <1>2, <2>2
    <3>2. Adjacent(s[k], s[k + 1])
      BY <3>1 DEF SimplePath
    <3> QED
      BY <1>2, <3>1, <3>2
  <2> QED
    BY <2>1, <2>2
<1>6. SimplePath(t)
  BY <1>2, <1>4, <1>5 DEF SimplePath
<1> QED
  BY <1>2, <1>6 DEF t

\* cut off anywhere it keeps its elements,
LEMMA FrontIs ==
    ASSUME NEW S, NEW s, NEW l \in Nat, \A k \in 1..l : s[k] \in S
    PROVE  SubSeq(s, 1, l) \in Seq(S) /\ Len(SubSeq(s, 1, l)) = l /\ \A k \in 1..l : SubSeq(s, 1, l)[k] = s[k]
<1>1. 1 \in Int /\ l \in Int
  OBVIOUS
<1>2. /\ SubSeq(s, 1, l) \in Seq(S)
      /\ Len(SubSeq(s, 1, l)) = IF 1 <= l THEN l - 1 + 1 ELSE 0
      /\ \A k \in 1 .. l - 1 + 1 : SubSeq(s, 1, l)[k] = s[1 + k - 1]
  BY <1>1, SubSeqProperties
<1> QED
  BY <1>2

\* and without its end it is a path.
LEMMA PathBack ==
    ASSUME NEW s, SimplePath(s), Len(s) > 0, NEW t, t = SubSeq(s, 1, Len(s) - 1)
    PROVE  SimplePath(t) /\ Len(t) = Len(s) - 1 /\ \A k \in 1..Len(t) : t[k] = s[k] /\ k \in 1..(Len(s) - 1)
<1>1. s \in Seq(Graph!Named) /\ Len(s) \in Nat
  BY DEF SimplePath
<1>2. Len(s) - 1 \in Nat /\ \A k \in 1..(Len(s) - 1) : k \in 1..Len(s)
  BY <1>1
<1>3. /\ t \in Seq(Graph!Named) /\ Len(t) = Len(s) - 1
      /\ \A k \in 1..Len(t) : t[k] = s[k] /\ k \in 1..(Len(s) - 1) /\ k \in 1..Len(s)
  <2>1. \A k \in 1..(Len(s) - 1) : s[k] \in Graph!Named
    BY <1>1, <1>2, ElementOfSeq
  <2>2. t \in Seq(Graph!Named) /\ Len(t) = Len(s) - 1 /\ \A k \in 1..(Len(s) - 1) : t[k] = s[k]
    <3> DEFINE l == Len(s) - 1
    <3> DEFINE N == Graph!Named
    <3>1. l \in Nat /\ (\A k \in 1..l : s[k] \in N) /\ t = SubSeq(s, 1, l)
      BY <1>1, <1>2, <2>1
    <3> HIDE DEF l, N
    <3>2. SubSeq(s, 1, l) \in Seq(N) /\ Len(SubSeq(s, 1, l)) = l /\ \A k \in 1..l : SubSeq(s, 1, l)[k] = s[k]
      BY <3>1, FrontIs
    <3> QED
      BY <3>1, <3>2 DEF l, N
  <2> QED
    BY <1>2, <2>2
<1>4. \A k, l \in 1..Len(t) : t[k] = t[l] => k = l
  BY <1>3 DEF SimplePath
<1>5. ASSUME NEW k \in 1..(Len(t) - 1) PROVE Adjacent(t[k], t[k + 1])
  <2>1. k \in 1..Len(t) /\ k + 1 \in 1..Len(t) /\ k \in 1..(Len(s) - 1)
    BY <1>1, <1>3
  <2>2. Adjacent(s[k], s[k + 1])
    BY <2>1 DEF SimplePath
  <2> QED
    BY <1>3, <2>1, <2>2
<1> QED
  BY <1>3, <1>4, <1>5 DEF SimplePath

\* A step of the search moves on to an unvisited neighbor or goes back.
LEMMA PathStepIs ==
    ASSUME GraphInv, Graph!PathStep, NEW cur, cur = stack[Len(stack)]
    PROVE  /\ GraphGiven /\ GraphBuilt /\ TreeGiven /\ Searching /\ pc = "path" /\ taken = n - 1 /\ status = "running"
           /\ UNCHANGED <<n, pairs, queries, nodes, edges, taken, q, queue, answers, pc, status>>
           /\ Len(stack) \in Nat /\ Len(stack) > 0 /\ cur \in Graph!Named /\ cur # queries[q].b
           /\ unvisited' = unvisited \ {cur}
           /\ \/ \E x \in unvisited' : Adjacent(cur, x) /\ stack' = Append(stack, x)
              \/ (\A x \in unvisited' : ~Adjacent(cur, x)) /\ stack' = SubSeq(stack, 1, Len(stack) - 1)
<1>1. /\ pc = "path" /\ stack # << >> /\ Graph!Last(stack) # queries[q].b /\ unvisited' = unvisited \ {Graph!Last(stack)}
      /\ UNCHANGED <<n, pairs, queries, nodes, edges, taken, q, queue, answers, pc, status>>
  BY DEF Graph!PathStep, Graph!MarkVisited, Graph!args, Graph!graph, Graph!Query
<1>2. GraphGiven /\ GraphBuilt /\ TreeGiven /\ Searching /\ taken = n - 1 /\ status = "running"
  BY <1>1 DEF GraphInv, GraphGiven
<1>3. stack \in Seq(Graph!Named)
  BY <1>2 DEF Searching, SimplePath
<1>4. Len(stack) \in Nat /\ Len(stack) > 0 /\ Len(stack) \in 1..Len(stack)
  BY <1>1, <1>3, EmptySeq
<1>5. Graph!Last(stack) = cur
  BY DEF Graph!Last
<1>6. cur \in Graph!Named
  BY <1>3, <1>4, ElementOfSeq
<1>7. \A x : (x \in Graph!Children <=> x \in unvisited' /\ <<cur, x>> \in Graph!Joined)
             /\ (x \in Graph!Parents <=> x \in unvisited' /\ <<x, cur>> \in Graph!Joined)
  <2>1. \A x : x \in Graph!Neighbors(cur) <=> <<cur, x>> \in Graph!Joined
    BY <1>2, BuiltFully
  <2>2. \A x : Graph!HasEdge(x, cur) <=> <<x, cur>> \in Graph!Joined
    BY <1>2, BuiltFully
  <2>3. Graph!Children = Graph!Neighbors(cur) \cap unvisited' /\ Graph!Parents = { x \in unvisited' : Graph!HasEdge(x, cur) }
    BY <1>5 DEF Graph!Children, Graph!Parents
  <2> QED
    BY <2>1, <2>2, <2>3
<1>8. \/ \E x \in Graph!Children : stack' = Append(stack, x)
      \/ \E x \in Graph!Parents : stack' = Append(stack, x)
      \/ Graph!Children = {} /\ Graph!Parents = {} /\ stack' = SubSeq(stack, 1, Len(stack) - 1)
  BY DEF Graph!PathStep, Graph!Backtrack, Graph!Front
<1>9. \/ \E x \in unvisited' : Adjacent(cur, x) /\ stack' = Append(stack, x)
      \/ (\A x \in unvisited' : ~Adjacent(cur, x)) /\ stack' = SubSeq(stack, 1, Len(stack) - 1)
  <2>1. CASE \E x \in Graph!Children : stack' = Append(stack, x)
    BY <1>7, <2>1 DEF Adjacent
  <2>2. CASE \E x \in Graph!Parents : stack' = Append(stack, x)
    BY <1>7, <2>2 DEF Adjacent
  <2>3. CASE Graph!Children = {} /\ Graph!Parents = {} /\ stack' = SubSeq(stack, 1, Len(stack) - 1)
    BY <1>7, <2>3 DEF Adjacent
  <2> QED
    BY <1>8, <2>1, <2>2, <2>3
<1> QED
  BY <1>1, <1>2, <1>4, <1>5, <1>6, <1>9

\* Once the last node of the stack is visited, the target is in reach of a
\* node before it or of the last node itself.
LEMMA ReachAfter ==
    ASSUME TreeGiven, Searching, Len(stack) > 0, NEW cur, cur = stack[Len(stack)],
           {queries[q].a, queries[q].b} \subseteq Graph!Named
    PROVE  \E k \in 1..Len(stack) : queries[q].b \in Reach(unvisited \ {cur}, stack[k])
<1> DEFINE b == queries[q].b
<1>1. PICK k \in 1..Len(stack) : b \in Reach(unvisited, stack[k])
  BY DEF Searching
<1>2. Len(stack) \in 1..Len(stack)
  <2>1. Len(stack) \in Nat
    BY DEF Searching, SimplePath
  <2> QED
    BY <2>1
<1>3. CASE cur \in unvisited
  <2>1. b \in Reach(unvisited \ {cur}, stack[k]) \/ b \in Reach(unvisited \ {cur}, cur)
    BY <1>1, <1>3, ReachSplits
  <2> QED
    BY <1>2, <2>1
<1>4. CASE cur \notin unvisited
  <2>1. unvisited \ {cur} = unvisited
    BY <1>4
  <2> QED
    BY <1>1, <2>1
<1> QED
  BY <1>3, <1>4

\* Either way the target remains in reach.
LEMMA GraphPathStep == ASSUME GraphInv, Graph!PathStep PROVE GraphInv'
<1> DEFINE cur == stack[Len(stack)]
<1>1. /\ GraphGiven /\ GraphBuilt /\ TreeGiven /\ Searching /\ pc = "path" /\ taken = n - 1 /\ status = "running"
      /\ UNCHANGED <<n, pairs, queries, nodes, edges, taken, q, queue, answers, pc, status>>
      /\ Len(stack) \in Nat /\ Len(stack) > 0 /\ cur \in Graph!Named /\ cur # queries[q].b
      /\ unvisited' = unvisited \ {cur}
      /\ \/ \E x \in unvisited' : Adjacent(cur, x) /\ stack' = Append(stack, x)
         \/ (\A x \in unvisited' : ~Adjacent(cur, x)) /\ stack' = SubSeq(stack, 1, Len(stack) - 1)
  BY PathStepIs
<1>2. /\ q > 0 /\ queries[q].kind = "max" /\ unvisited \subseteq Graph!Named /\ SimplePath(stack)
      /\ stack # << >> => stack[1] = queries[q].a
      /\ \A k \in 1..(Len(stack) - 1) : stack[k] \notin unvisited
  BY <1>1 DEF Searching
<1>3. stack[1] = queries[q].a /\ 1 \in 1..Len(stack) /\ Len(stack) \in 1..Len(stack)
  <2>1. stack # << >>
    BY <1>1
  <2> QED
    BY <1>1, <1>2, <2>1
<1>4. {queries[q].a, queries[q].b} \subseteq Graph!Named =>
          \E k \in 1..Len(stack) : queries[q].b \in Reach(unvisited \ {cur}, stack[k])
  BY <1>1, ReachAfter
<1>5. \A k \in 1..Len(stack) : stack[k] \notin unvisited \ {cur}
  <2>1. \A k \in 1..Len(stack) : k = Len(stack) \/ k \in 1..(Len(stack) - 1)
    BY <1>1
  <2> QED
    BY <1>2, <2>1
<1> HIDE DEF cur
<1>6. /\ SimplePath(stack')
      /\ stack' # << >> => stack'[1] = queries[q].a
      /\ \A k \in 1..(Len(stack') - 1) : stack'[k] \notin unvisited'
      /\ {queries[q].a, queries[q].b} \subseteq Graph!Named =>
             \E k \in 1..Len(stack') : queries[q].b \in Reach(unvisited \ {cur}, stack'[k])
  <2>1. ASSUME NEW x \in unvisited', Adjacent(cur, x), stack' = Append(stack, x)
        PROVE  <1>6!1 /\ <1>6!2 /\ <1>6!3 /\ <1>6!4
    <3>1. x \in Graph!Named /\ \A k \in 1..Len(stack) : stack[k] # x
      BY <1>1, <1>2, <1>5, <2>1
    <3>2. /\ SimplePath(stack') /\ Len(stack') = Len(stack) + 1
          /\ \A k \in 1..Len(stack) : stack'[k] = stack[k]
      BY <1>1, <1>2, <2>1, <3>1, PathOn DEF cur
    <3>3. \A k \in 1..(Len(stack') - 1) : k \in 1..Len(stack)
      BY <1>1, <3>2
    <3>4. \A k \in 1..Len(stack) : k \in 1..Len(stack')
      BY <1>1, <3>2
    <3> QED
      BY <1>1, <1>3, <1>4, <1>5, <3>2, <3>3, <3>4
  <2>2. ASSUME \A x \in unvisited' : ~Adjacent(cur, x), stack' = SubSeq(stack, 1, Len(stack) - 1)
        PROVE  <1>6!1 /\ <1>6!2 /\ <1>6!3 /\ <1>6!4
    <3>1. SimplePath(stack') /\ Len(stack') = Len(stack) - 1 /\ \A k \in 1..Len(stack') : stack'[k] = stack[k] /\ k \in 1..(Len(stack) - 1)
      BY <1>1, <1>2, <2>2, PathBack
    <3>2. ASSUME stack' # << >> PROVE stack'[1] = queries[q].a
      <4>1. stack' \in Seq(Graph!Named)
        BY <3>1 DEF SimplePath
      <4>2. 1 \in 1..Len(stack')
        BY <3>2, <4>1, EmptySeq
      <4> QED
        BY <1>3, <3>1, <4>2
    <3>3. \A k \in 1..(Len(stack') - 1) : stack'[k] \notin unvisited'
      <4>1. \A k \in 1..(Len(stack') - 1) : k \in 1..Len(stack') /\ k \in 1..Len(stack)
        BY <1>1, <3>1
      <4> QED
        BY <1>1, <1>5, <3>1, <4>1
    <3>4. ASSUME {queries[q].a, queries[q].b} \subseteq Graph!Named
          PROVE  \E k \in 1..Len(stack') : queries[q].b \in Reach(unvisited \ {cur}, stack'[k])
      <4>1. PICK k \in 1..Len(stack) : queries[q].b \in Reach(unvisited \ {cur}, stack[k])
        BY <1>4, <3>4
      <4>2. Reach(unvisited \ {cur}, cur) \subseteq {cur}
        BY <1>1, <2>2, DeadEnd
      <4>3. k # Len(stack)
        BY <1>1, <4>1, <4>2 DEF cur
      <4>4. k \in 1..Len(stack')
        BY <1>1, <3>1, <4>3
      <4> QED
        BY <3>1, <4>1, <4>4
    <3> QED
      BY <3>1, <3>2, <3>3, <3>4
  <2> QED
    BY <1>1, <2>1, <2>2
<1>7. UNCHANGED pairs
  BY <1>1
<1>8. Graph!Named' = Graph!Named
  BY <1>7, JoinedKept
<1>9. \A U, x : Reach(U, x)' = Reach(U, x)
  BY <1>7, JoinedKept
<1>10. \A s : SimplePath(s)' <=> SimplePath(s)
  BY <1>7, JoinedKept
<1>11. Searching'
  <2>1. q' > 0 /\ queries'[q'].kind = "max" /\ unvisited' \subseteq Graph!Named'
    BY <1>1, <1>2, <1>8
  <2>2. SimplePath(stack)'
    BY <1>6, <1>10
  <2>3. /\ stack' # << >> => stack'[1] = queries'[q'].a
        /\ \A k \in 1..(Len(stack') - 1) : stack'[k] \notin unvisited'
    BY <1>1, <1>6
  <2>4. ({queries[q].a, queries[q].b} \subseteq Graph!Named =>
            \E k \in 1..Len(stack) : queries[q].b \in Reach(unvisited, stack[k]))'
    BY <1>1, <1>6, <1>8, <1>9
  <2> QED
    BY <2>1, <2>2, <2>3, <2>4 DEF Searching
<1>12. GraphGiven' /\ GraphBuilt'
  <2>1. nodes' \in [DOMAIN nodes -> Int] /\ DOMAIN nodes' = DOMAIN nodes
    BY <1>1, BuiltFully
  <2>2. q' \in 0..Len(queries) /\ pc' \in {"edges", "queries", "add", "path", "done"}
    BY <1>1 DEF GraphGiven
  <2> QED
    BY <1>1, <2>1, <2>2, GraphStays
<1> QED
  BY <1>1, <1>11, <1>12 DEF GraphInv

----------------------------------------------------------------------------
\* The path of a search that begins.
NewPath(s, x) ==
    /\ SimplePath(s) /\ Len(s) \in {0, 1}
    /\ x \in Graph!Named => Len(s) = 1 /\ s[1] = x
    /\ s # << >> => s[1] = x

\* It is the first node alone, if there is such a node.
LEMMA NewPathIs ==
    ASSUME NEW x, NEW s,
           IF x \in Graph!Named THEN s = <<x>> ELSE s = << >>
    PROVE  NewPath(s, x)
<1>1. CASE x \notin Graph!Named
  <2>1. s = << >> /\ s \in Seq(Graph!Named) /\ Len(s) = 0
    BY <1>1
  <2>2. 1..Len(s) = {} /\ 1..(Len(s) - 1) = {}
    BY <2>1
  <2> QED
    BY <1>1, <2>1, <2>2 DEF SimplePath, NewPath
<1>2. CASE x \in Graph!Named
  <2>1. s \in Seq(Graph!Named) /\ Len(s) = 1 /\ s[1] = x
    <3> DEFINE N == Graph!Named
    <3>1. x \in N /\ s = <<x>>
      BY <1>2
    <3> HIDE DEF N
    <3>2. s \in Seq(N) /\ Len(s) = 1 /\ s[1] = x
      BY <3>1
    <3> QED
      BY <3>2 DEF N
  <2>2. 1..(Len(s) - 1) = {} /\ \A k \in 1..Len(s) : k = 1
    BY <2>1
  <2>3. SimplePath(s)
    BY <2>1, <2>2 DEF SimplePath
  <2> QED
    BY <2>1, <2>3 DEF NewPath
<1> QED
  BY <1>1, <1>2

\* A search begins with everything in reach.
LEMMA GraphStartsMax == ASSUME GraphInv, Graph!StartMax PROVE GraphInv'
<1> DEFINE x == queries[q + 1].a
<1> DEFINE y == queries[q + 1].b
<1>1. /\ GraphGiven /\ GraphBuilt /\ TreeGiven /\ pc = "queries" /\ status = "running" /\ taken = n - 1
      /\ q' = q + 1 /\ q' \in 0..Len(queries) /\ q' > 0 /\ queries[q + 1].kind = "max"
      /\ UNCHANGED <<n, pairs, queries, taken, nodes, edges>>
  BY GraphQueryRead DEF Graph!StartMax
<1>2. /\ UNCHANGED <<queue, answers, status>> /\ pc' = "path" /\ unvisited' = DOMAIN nodes
      /\ stack' = IF Graph!HasNode(x) THEN <<x>> ELSE << >>
  BY <1>1 DEF Graph!StartMax, Graph!Query
<1>3. /\ nodes' \in [DOMAIN nodes -> Int] /\ DOMAIN nodes = Graph!Named
      /\ (Graph!HasNode(x) <=> x \in Graph!Named)
  BY <1>1, BuiltFully
<1>4. GraphGiven' /\ GraphBuilt'
  BY <1>1, <1>2, <1>3, GraphStays
<1>5. queries'[q'].a = x /\ queries'[q'].b = y /\ queries'[q'].kind = "max"
  BY <1>1
<1> HIDE DEF x, y
<1>6. /\ SimplePath(stack') /\ Len(stack') \in {0, 1}
      /\ x \in Graph!Named => Len(stack') = 1 /\ stack'[1] = x
      /\ stack' # << >> => stack'[1] = x
  <2> DEFINE t == stack'
  <2>1. IF x \in Graph!Named THEN t = <<x>> ELSE t = << >>
    BY <1>2, <1>3
  <2> HIDE DEF t
  <2>2. NewPath(t, x)
    BY <2>1, NewPathIs
  <2> QED
    BY <2>2 DEF t, NewPath
<1>7. UNCHANGED pairs
  BY <1>1
<1>8. Graph!Named' = Graph!Named
  BY <1>7, JoinedKept
<1>9. \A U, z : Reach(U, z)' = Reach(U, z)
  BY <1>7, JoinedKept
<1>10. \A s : SimplePath(s)' <=> SimplePath(s)
  BY <1>7, JoinedKept
<1>11. Searching'
  <2>1. q' > 0 /\ queries'[q'].kind = "max" /\ unvisited' \subseteq Graph!Named'
    BY <1>1, <1>2, <1>3, <1>5, <1>8
  <2>2. SimplePath(stack)'
    BY <1>6, <1>10
  <2>3. stack' # << >> => stack'[1] = queries'[q'].a
    BY <1>5, <1>6
  <2>4. \A k \in 1..(Len(stack') - 1) : stack'[k] \notin unvisited'
    <3> DEFINE l == Len(stack')
    <3>1. l \in {0, 1}
      BY <1>6
    <3> HIDE DEF l
    <3>2. 1..(l - 1) = {}
      BY <3>1
    <3> QED
      BY <3>2 DEF l
  <2>5. ASSUME x \in Graph!Named, y \in Graph!Named PROVE \E k \in 1..Len(stack') : y \in Reach(unvisited', stack'[k])
    <3>1. y \in Reach(Graph!Named, x)
      BY <1>1, <2>5, AllInReach
    <3>2. 1 \in 1..Len(stack') /\ stack'[1] = x /\ unvisited' = Graph!Named
      BY <1>2, <1>3, <1>6, <2>5
    <3> QED
      BY <3>1, <3>2
  <2>6. ({queries[q].a, queries[q].b} \subseteq Graph!Named =>
            \E k \in 1..Len(stack) : queries[q].b \in Reach(unvisited, stack[k]))'
    BY <1>5, <1>8, <1>9, <2>5
  <2> QED
    BY <2>1, <2>2, <2>3, <2>4, <2>6 DEF Searching
<1> QED
  BY <1>1, <1>2, <1>4, <1>11 DEF GraphInv

\* The other steps of the program, which touch neither the graph nor a walk.
LEMMA GraphElse ==
    ASSUME GraphInv,
           \/ Graph!StartQueries \/ Graph!Report \/ Graph!UnknownQuery \/ Graph!Exit
    PROVE  GraphInv'
<1>1. GraphGiven /\ GraphBuilt /\ Len(queries) \in Nat
  BY DEF GraphInv, GraphGiven
<1>2. /\ UNCHANGED <<n, pairs, queries, taken, nodes, edges>>
      /\ q' \in 0..Len(queries) /\ pc' \in {"queries", "done"}
      /\ pc' = "queries" => taken = n - 1 /\ status' = "running"
  <2>1. CASE Graph!StartQueries
    <3>1. /\ pc = "edges" /\ taken = n - 1 /\ pc' = "queries" /\ UNCHANGED <<n, pairs, queries, taken, nodes, edges, q, status>>
      BY <2>1 DEF Graph!StartQueries, Graph!args, Graph!graph
    <3> QED
      BY <1>1, <3>1 DEF GraphInv, GraphGiven
  <2>2. CASE Graph!Report
    <3>1. /\ pc = "path" /\ pc' = "queries" /\ UNCHANGED <<n, pairs, queries, taken, nodes, edges, q, status>>
      BY <2>2 DEF Graph!Report, Graph!args, Graph!graph
    <3> QED
      BY <1>1, <3>1 DEF GraphInv, GraphGiven
  <2>3. CASE Graph!UnknownQuery
    <3>1. Graph!ReadQuery("other") /\ pc' = "done"
      BY <2>3 DEF Graph!UnknownQuery
    <3> QED
      BY <3>1, GraphQueryRead
  <2>4. CASE Graph!Exit
    <3>1. /\ pc' = "done" /\ UNCHANGED <<n, pairs, queries, taken, nodes, edges, q>>
      BY <2>4 DEF Graph!Exit, Graph!args, Graph!graph
    <3> QED
      BY <1>1, <3>1 DEF GraphGiven
  <2> QED
    BY <2>1, <2>2, <2>3, <2>4
<1>3. nodes' \in [DOMAIN nodes -> Int] /\ DOMAIN nodes' = DOMAIN nodes
  BY <1>1, <1>2 DEF GraphBuilt
<1>4. GraphGiven' /\ GraphBuilt'
  BY <1>2, <1>3, GraphStays
<1> QED
  BY <1>2, <1>4 DEF GraphInv

\* Nothing changes when the other programs run.
LEMMA GraphSame == ASSUME GraphInv, UNCHANGED Graph!vars PROVE GraphInv'
<1>1. UNCHANGED <<n, pairs, queries, taken, nodes, edges, q, queue, stack, unvisited, pc, status>>
  BY DEF Graph!vars, Graph!args, Graph!graph
<1>2. GraphGiven /\ GraphBuilt
  BY DEF GraphInv
<1>3. nodes' \in [DOMAIN nodes -> Int] /\ DOMAIN nodes' = DOMAIN nodes
  BY <1>1, <1>2 DEF GraphBuilt
<1>4. GraphGiven' /\ GraphBuilt'
  BY <1>1, <1>2, <1>3, GraphStays DEF GraphGiven
<1>5. UNCHANGED pairs
  BY <1>1
<1>6. Graph!Named' = Graph!Named
  BY <1>5, JoinedKept
<1>7. \A U, z : Reach(U, z)' = Reach(U, z)
  BY <1>5, JoinedKept
<1>8. \A s : SimplePath(s)' <=> SimplePath(s)
  BY <1>5, JoinedKept
<1>9. \A x : HangingFrom(x)' = HangingFrom(x)
  BY <1>5, JoinedKept
<1>10. Searching => Searching'
  <2> SUFFICES ASSUME Searching PROVE Searching'
    OBVIOUS
  <2>1. SimplePath(stack)'
    BY <1>1, <1>8 DEF Searching
  <2>2. ({queries[q].a, queries[q].b} \subseteq Graph!Named =>
            \E k \in 1..Len(stack) : queries[q].b \in Reach(unvisited, stack[k]))'
    BY <1>1, <1>6, <1>7 DEF Searching
  <2> QED
    BY <1>1, <1>6, <2>1, <2>2 DEF Searching
<1>11. Adding => Adding'
  <2> SUFFICES ASSUME Adding PROVE Adding'
    OBVIOUS
  <2>1. QueuedOnce(queue, queries[q].a)'
    BY <1>1, <1>6, <1>9 DEF Adding, QueuedOnce
  <2> QED
    BY <1>1, <1>6, <2>1 DEF Adding
<1> QED
  BY <1>1, <1>4, <1>10, <1>11 DEF GraphInv

\* All steps of the default build keep its invariant.
LEMMA GraphStep == ASSUME GraphInv, Graph!Next \/ UNCHANGED Graph!vars PROVE GraphInv'
BY GraphEdgeEnters, GraphStartsAdd, GraphAddStep, GraphStartsMax, GraphPathStep, GraphElse, GraphSame
   DEF Graph!Next, Graph!Finished

\* Hence its search never gives up on a target in reach.
LEMMA GraphSearchKeeps == ASSUME GraphInv PROVE Graph!SearchStillReaches
<1> SUFFICES ASSUME pc = "path", {queries[q].a, queries[q].b} \subseteq Graph!Named
             PROVE  \E k \in DOMAIN stack :
                        LET through == unvisited \cup {stack[k]}
                        IN  queries[q].b \in
                              Graph!Component(through, { e \in Graph!Joined : {e[1], e[2]} \subseteq through }, stack[k])
  BY DEF Graph!SearchStillReaches, Graph!Query
<1>1. Searching
  BY DEF GraphInv
<1>2. DOMAIN stack = 1..Len(stack)
  BY <1>1 DEF Searching, SimplePath
<1>3. PICK k \in 1..Len(stack) : queries[q].b \in Reach(unvisited, stack[k])
  BY <1>1 DEF Searching
<1>4. \A V, E, x : Graph!Component(V, E, x) = Component(V, E, x)
  BY DEF Graph!Component, Component, Graph!ClosedUnder, ClosedUnder
<1>5. k \in DOMAIN stack
  BY <1>2
<1> QED
  BY <1>3, <1>4, <1>5 DEF Reach, Inside

----------------------------------------------------------------------------
\* subtrees_and_paths by default follows SubtreeQueries.

\* The variables of SubtreeQueries while the default build runs.
LEMMA GraphMapped ==
    ASSUME program = "graph", program' = "graph"
    PROVE  /\ PromisedKnown = Graph!Named /\ PromisedJoined = Graph!Joined /\ PromisedQueries = queries
           /\ PromisedAnswered = Graph!Answered /\ PromisedGaveUp = (status = "EXIT_FAILURE")
           /\ PromisedValues = Graph!PromisedValues /\ PromisedAnswers = answers
           /\ PromisedKnown' = Graph!Named' /\ PromisedJoined' = Graph!Joined' /\ PromisedQueries' = queries'
           /\ PromisedAnswered' = Graph!Answered' /\ PromisedGaveUp' = (status' = "EXIT_FAILURE")
           /\ PromisedValues' = Graph!PromisedValues' /\ PromisedAnswers' = answers'
BY DEF PromisedKnown, PromisedJoined, PromisedQueries, PromisedAnswered, PromisedGaveUp, PromisedValues, PromisedAnswers

\* The values, of a graph that is built, between one query and the next.
LEMMA GraphValuesAre ==
    GraphGiven /\ GraphBuilt /\ taken = n - 1 /\ pc # "add" =>
        Graph!PromisedValues = [z \in Graph!Named |-> nodes[z]]
<1> SUFFICES ASSUME GraphGiven, GraphBuilt, taken = n - 1, pc # "add"
             PROVE  Graph!PromisedValues = [z \in Graph!Named |-> nodes[z]]
  OBVIOUS
<1>1. \A x \in Graph!Named : Graph!HasNode(x)
  BY BuiltFully
<1>2. \A x : ~Graph!RaisedAlready(x)
  BY DEF Graph!RaisedAlready
<1> QED
  BY <1>1, <1>2 DEF Graph!PromisedValues

\* The values in the middle of an add.
LEMMA GraphValuesInAdd ==
    GraphGiven /\ GraphBuilt /\ taken = n - 1 /\ pc = "add" /\ queue \in Seq(Graph!Named) =>
        Graph!PromisedValues =
            [x \in Graph!Named |->
               IF x \in HangingFrom(queries[q].a) /\ ~InWait(queue, x) THEN nodes[x] - queries[q].b ELSE nodes[x]]
<1> SUFFICES ASSUME GraphGiven, GraphBuilt, taken = n - 1, pc = "add", queue \in Seq(Graph!Named)
             PROVE  Graph!PromisedValues =
                        [x \in Graph!Named |->
                           IF x \in HangingFrom(queries[q].a) /\ ~InWait(queue, x)
                             THEN nodes[x] - queries[q].b ELSE nodes[x]]
  OBVIOUS
<1>1. \A x \in Graph!Named : Graph!HasNode(x)
  BY BuiltFully
<1>2. ASSUME NEW x PROVE Graph!RaisedAlready(x) <=> x \in HangingFrom(queries[q].a) /\ ~InWait(queue, x)
  <2>1. DOMAIN queue = 1..Len(queue)
    OBVIOUS
  <2>2. \A y : Graph!Hanging(y) = HangingFrom(y)
    BY HangingIs
  <2> QED
    BY <2>1, <2>2 DEF Graph!RaisedAlready, InWait, Graph!Query
<1> QED
  BY <1>1, <1>2 DEF Graph!PromisedValues, Graph!Query

\* Values are 0 until the first query.
LEMMA NoGraphValuesYet ==
    pc = "edges" /\ (\A x \in DOMAIN nodes : nodes[x] = 0) => Graph!PromisedValues = [x \in Graph!Named |-> 0]
<1> SUFFICES ASSUME pc = "edges", \A x \in DOMAIN nodes : nodes[x] = 0
             PROVE  Graph!PromisedValues = [x \in Graph!Named |-> 0]
  OBVIOUS
<1>1. \A x : ~Graph!RaisedAlready(x)
  BY DEF Graph!RaisedAlready
<1> QED
  BY <1>1 DEF Graph!PromisedValues, Graph!HasNode

\* The initial states of that build are initial states of SubtreeQueries.
LEMMA GraphPromised ==
    ASSUME Graph!Init, program = "graph" PROVE Promise!Init
<1>1. q = 0 /\ pc = "edges" /\ status = "running" /\ answers = << >> /\ \A x \in DOMAIN nodes : nodes[x] = 0
  <2>1. GraphInv
    BY GraphBegins
  <2> QED
    BY <2>1 DEF Graph!Init, GraphInv
<1>2. /\ PromisedAnswered = Graph!Answered /\ PromisedKnown = Graph!Named /\ PromisedValues = Graph!PromisedValues
      /\ PromisedAnswers = answers /\ PromisedGaveUp = (status = "EXIT_FAILURE")
  BY DEF PromisedAnswered, PromisedKnown, PromisedValues, PromisedAnswers, PromisedGaveUp
<1>3. Graph!Answered = 0
  BY <1>1 DEF Graph!Answered
<1>4. PromisedValues = [x \in PromisedKnown |-> 0]
  BY <1>1, <1>2, NoGraphValuesYet
<1>5. PromisedGaveUp = FALSE
  BY <1>1, <1>2
<1> QED
  BY <1>1, <1>2, <1>3, <1>4, <1>5 DEF Promise!Init

\* When SubtreeQueries sees no change.
LEMMA GraphNoChange ==
    ASSUME program = "graph", program' = "graph", UNCHANGED <<pairs, queries, answers>>,
           Graph!Answered' = Graph!Answered, status' = status \/ (status # "EXIT_FAILURE" /\ status' # "EXIT_FAILURE"),
           Graph!PromisedValues' = Graph!PromisedValues
    PROVE  UNCHANGED Promise!vars
<1>1. /\ PromisedKnown = Graph!Named /\ PromisedJoined = Graph!Joined /\ PromisedQueries = queries
      /\ PromisedAnswered = Graph!Answered /\ PromisedGaveUp = (status = "EXIT_FAILURE")
      /\ PromisedValues = Graph!PromisedValues /\ PromisedAnswers = answers
      /\ PromisedKnown' = Graph!Named' /\ PromisedJoined' = Graph!Joined' /\ PromisedQueries' = queries'
      /\ PromisedAnswered' = Graph!Answered' /\ PromisedGaveUp' = (status' = "EXIT_FAILURE")
      /\ PromisedValues' = Graph!PromisedValues' /\ PromisedAnswers' = answers'
  BY GraphMapped
<1>2. Graph!Named' = Graph!Named /\ Graph!Joined' = Graph!Joined
  BY JoinedKept
<1>3. PromisedGaveUp' = PromisedGaveUp
  BY <1>1
<1> QED
  BY <1>1, <1>2, <1>3 DEF Promise!vars

\* When it sees the next query answered.
LEMMA GraphAnswers ==
    ASSUME program = "graph", program' = "graph", UNCHANGED <<pairs, queries>>, status # "EXIT_FAILURE", status' = status,
           NEW kind, Graph!Answered < Len(queries), queries[Graph!Answered + 1].kind = kind, Graph!Answered' = Graph!Answered + 1
    PROVE  Promise!Query(kind)
<1>1. /\ PromisedKnown = Graph!Named /\ PromisedJoined = Graph!Joined /\ PromisedQueries = queries
      /\ PromisedAnswered = Graph!Answered /\ PromisedGaveUp = (status = "EXIT_FAILURE")
      /\ PromisedKnown' = Graph!Named' /\ PromisedJoined' = Graph!Joined' /\ PromisedQueries' = queries'
      /\ PromisedAnswered' = Graph!Answered' /\ PromisedGaveUp' = (status' = "EXIT_FAILURE")
  BY GraphMapped
<1>2. Graph!Named' = Graph!Named /\ Graph!Joined' = Graph!Joined
  BY JoinedKept
<1>3. ~PromisedGaveUp /\ PromisedGaveUp' = PromisedGaveUp
  BY <1>1
<1> QED
  BY <1>1, <1>2, <1>3 DEF Promise!Query

\* A query that is neither makes the program give up.
LEMMA GraphUnknownFollows ==
    ASSUME GraphInv, Graph!UnknownQuery, program = "graph", program' = "graph" PROVE Promise!GiveUp
<1>1. /\ pc = "queries" /\ status = "running" /\ q \in Nat /\ q < Len(queries) /\ q' = q + 1 /\ GraphGiven /\ GraphBuilt
      /\ taken = n - 1 /\ queries[q + 1].kind = "other" /\ UNCHANGED <<n, pairs, queries, taken, nodes>>
  BY GraphQueryRead DEF Graph!UnknownQuery
<1>2. pc' = "done" /\ status' = "EXIT_FAILURE" /\ UNCHANGED answers
  BY DEF Graph!UnknownQuery
<1>3. Graph!Answered = q /\ Graph!Answered' = q
  BY <1>1, <1>2 DEF Graph!Answered
<1>4. Graph!Named' = Graph!Named /\ Graph!Joined' = Graph!Joined
  <2>1. UNCHANGED pairs
    BY <1>1
  <2> QED
    BY <2>1, JoinedKept
<1>5. Graph!PromisedValues' = Graph!PromisedValues
  <2>1. \A x : Graph!HasNode(x)' <=> Graph!HasNode(x)
    BY <1>1 DEF Graph!HasNode
  <2>2. \A x : ~Graph!RaisedAlready(x) /\ ~Graph!RaisedAlready(x)'
    BY <1>1, <1>2 DEF Graph!RaisedAlready
  <2> QED
    BY <1>1, <1>4, <2>1, <2>2 DEF Graph!PromisedValues
<1>6. /\ PromisedKnown = Graph!Named /\ PromisedJoined = Graph!Joined /\ PromisedQueries = queries
      /\ PromisedAnswered = Graph!Answered /\ PromisedGaveUp = (status = "EXIT_FAILURE")
      /\ PromisedValues = Graph!PromisedValues /\ PromisedAnswers = answers
      /\ PromisedKnown' = Graph!Named' /\ PromisedJoined' = Graph!Joined' /\ PromisedQueries' = queries'
      /\ PromisedAnswered' = Graph!Answered' /\ PromisedGaveUp' = (status' = "EXIT_FAILURE")
      /\ PromisedValues' = Graph!PromisedValues' /\ PromisedAnswers' = answers'
  BY GraphMapped
<1>7. ~PromisedGaveUp /\ PromisedGaveUp' = TRUE
  BY <1>1, <1>2, <1>6
<1>8. PromisedAnswered < Len(PromisedQueries) /\ PromisedQueries[PromisedAnswered + 1].kind \notin {"add", "max"}
  BY <1>1, <1>3, <1>6
<1>9. UNCHANGED <<PromisedKnown, PromisedJoined, PromisedQueries, PromisedAnswered, PromisedValues, PromisedAnswers>>
  BY <1>1, <1>2, <1>3, <1>4, <1>5, <1>6
<1> QED
  BY <1>7, <1>8, <1>9 DEF Promise!GiveUp

\* An add to an unknown node has no effect and is over; another begins, unseen.
LEMMA GraphStartAddFollows ==
    ASSUME GraphInv, Graph!StartAdd, program = "graph", program' = "graph"
    PROVE  Promise!AddBelow \/ UNCHANGED Promise!vars
<1> DEFINE x == queries[q + 1].a
<1> DEFINE y == queries[q + 1].b
<1>1. /\ pc = "queries" /\ status = "running" /\ q \in Nat /\ q < Len(queries) /\ q' = q + 1 /\ GraphGiven /\ GraphBuilt
      /\ taken = n - 1 /\ queries[q + 1].kind = "add" /\ UNCHANGED <<n, pairs, queries, taken, nodes>>
  BY GraphQueryRead DEF Graph!StartAdd
<1>2. UNCHANGED <<answers, status>>
  BY DEF Graph!StartAdd
<1>3. Graph!Answered = q /\ Graph!PromisedValues = [z \in Graph!Named |-> nodes[z]] /\ (Graph!HasNode(x) <=> x \in Graph!Named)
  BY <1>1, GraphValuesAre, BuiltFully DEF Graph!Answered
<1>4. GraphInv'
  BY GraphStartsAdd
<1>5. GraphGiven' /\ GraphBuilt' /\ taken' = n' - 1 /\ Graph!Named' = Graph!Named
  <2>1. UNCHANGED pairs
    BY <1>1
  <2>2. Graph!Named' = Graph!Named
    BY <2>1, JoinedKept
  <2> QED
    BY <1>1, <1>4, <2>2 DEF GraphInv
<1>6. CASE ~Graph!HasNode(x)
  <2>1. pc' = pc
    BY <1>1, <1>6 DEF Graph!StartAdd, Graph!Query
  <2>2. Graph!Answered' = q + 1
    BY <1>1, <1>2, <2>1 DEF Graph!Answered
  <2>3. Promise!Query("add")
    BY <1>1, <1>2, <1>3, <2>2, GraphAnswers
  <2>4. Graph!PromisedValues' = Graph!PromisedValues
    <3>1. (GraphGiven /\ GraphBuilt /\ taken = n - 1 /\ pc # "add" =>
             Graph!PromisedValues = [z \in Graph!Named |-> nodes[z]])'
      BY GraphValuesAre, PTL
    <3>2. Graph!PromisedValues' = [z \in Graph!Named' |-> nodes'[z]]
      BY <1>1, <1>5, <2>1, <3>1
    <3> QED
      BY <1>1, <1>3, <1>5, <3>2
  <2>5. /\ PromisedKnown = Graph!Named /\ PromisedQueries = queries
        /\ PromisedAnswered = Graph!Answered
        /\ PromisedValues = Graph!PromisedValues /\ PromisedAnswers = answers
        /\ PromisedValues' = Graph!PromisedValues' /\ PromisedAnswers' = answers'
    BY GraphMapped
  <2>6. PromisedQueries[PromisedAnswered + 1].a \notin PromisedKnown
    BY <1>3, <1>6, <2>5
  <2>7. PromisedValues' = [z \in PromisedKnown |-> PromisedValues[z]]
    BY <1>3, <2>4, <2>5
  <2> QED
    BY <1>2, <2>3, <2>5, <2>6, <2>7 DEF Promise!AddBelow
<1>7. CASE Graph!HasNode(x)
  <2>1. pc' = "add" /\ queue' = <<x>>
    BY <1>1, <1>7 DEF Graph!StartAdd, Graph!Query
  <2>2. Graph!Answered' = Graph!Answered
    BY <1>1, <1>2, <1>3, <2>1 DEF Graph!Answered
  <2>3. \A z : ~Graph!RaisedAlready(z)'
    <3>1. queries'[q'].a = x /\ 1 \in DOMAIN queue' /\ queue'[1] = x
      BY <1>1, <2>1
    <3> HIDE DEF x
    <3> QED
      BY <3>1 DEF Graph!RaisedAlready, Graph!Query
  <2>4. Graph!PromisedValues' = Graph!PromisedValues
    <3>1. \A z : Graph!RaisedAlready(z) = FALSE /\ Graph!RaisedAlready(z)' = FALSE
      BY <1>1, <2>3 DEF Graph!RaisedAlready
    <3>2. \A z : Graph!HasNode(z)' <=> Graph!HasNode(z)
      BY <1>1 DEF Graph!HasNode
    <3> QED
      BY <1>1, <1>5, <3>1, <3>2 DEF Graph!PromisedValues
  <2> QED
    BY <1>1, <1>2, <2>2, <2>4, GraphNoChange
<1> QED
  BY <1>6, <1>7

\* The step that empties the queue completes the add: by then each node that
\* hangs from the one named has been raised, and none twice.
LEMMA GraphAddFollows ==
    ASSUME GraphInv, Graph!AddStep, program = "graph", program' = "graph"
    PROVE  Promise!AddBelow \/ UNCHANGED Promise!vars
<1> DEFINE a == queries[q].a
<1> DEFINE b == queries[q].b
<1> DEFINE c == queue[1]
<1>1. /\ GraphGiven /\ GraphBuilt /\ Adding /\ pc = "add" /\ taken = n - 1 /\ status = "running"
      /\ UNCHANGED <<n, pairs, queries, taken, q, answers, status>>
      /\ b \in Int /\ c \in Graph!Named /\ c \in HangingFrom(a) /\ InWait(queue, c)
      /\ nodes' = [nodes EXCEPT ![c] = @ + b]
      /\ QueuedOnce(queue', a)
      /\ \A x : InWait(queue', x) <=> InWait(queue, x) /\ x # c
      /\ pc' = IF queue' = << >> THEN "queries" ELSE "add"
  BY AddStepIs
<1>2. q \in Nat /\ q > 0 /\ queries[q].kind = "add" /\ a \in Graph!Named /\ q - 1 < Len(queries) /\ q - 1 + 1 = q
  <2>1. q \in 0..Len(queries) /\ Len(queries) \in Nat
    BY <1>1 DEF GraphGiven
  <2> QED
    BY <1>1, <2>1 DEF Adding
<1>3. nodes \in [Graph!Named -> Int]
  BY <1>1, BuiltFully
<1>4. queue \in Seq(Graph!Named) /\ queue' \in Seq(Graph!Named)
  BY <1>1 DEF Adding, QueuedOnce
<1>5. Graph!PromisedValues =
          [x \in Graph!Named |-> IF x \in HangingFrom(a) /\ ~InWait(queue, x) THEN nodes[x] - b ELSE nodes[x]]
  BY <1>1, <1>4, GraphValuesInAdd
<1>6. UNCHANGED pairs
  BY <1>1
<1>7. Graph!Named' = Graph!Named
  BY <1>6, JoinedKept
<1>8. \A x : HangingFrom(x)' = HangingFrom(x)
  BY <1>6, JoinedKept
<1>9. GraphGiven' /\ GraphBuilt' /\ taken' = n' - 1
  <2>1. GraphInv'
    BY GraphAddStep
  <2> QED
    BY <1>1, <2>1 DEF GraphInv
<1>10. a' = a /\ b' = b
  BY <1>1
<1>11. Graph!Answered = q - 1
  BY <1>1 DEF Graph!Answered
<1> HIDE DEF a, b, c
<1>12. \A x \in Graph!Named : nodes'[x] = (IF x = c THEN nodes[x] + b ELSE nodes[x]) /\ nodes[x] \in Int
  BY <1>1, <1>3
<1>13. CASE queue' # << >>
  <2>1. pc' = "add"
    BY <1>1, <1>13
  <2>2. Graph!Answered' = Graph!Answered
    BY <1>1, <1>11, <2>1 DEF Graph!Answered
  <2>3. (Graph!PromisedValues =
          [x \in Graph!Named |-> IF x \in HangingFrom(queries[q].a) /\ ~InWait(queue, x)
                                   THEN nodes[x] - queries[q].b ELSE nodes[x]])'
    <3>1. (queue \in Seq(Graph!Named))'
      BY <1>4, <1>7
    <3>2. (GraphGiven /\ GraphBuilt /\ taken = n - 1 /\ pc = "add" /\ queue \in Seq(Graph!Named) =>
             Graph!PromisedValues =
                 [x \in Graph!Named |->
                    IF x \in HangingFrom(queries[q].a) /\ ~InWait(queue, x) THEN nodes[x] - queries[q].b ELSE nodes[x]])'
      BY GraphValuesInAdd, PTL
    <3> QED
      BY <1>9, <2>1, <3>1, <3>2
  <2>4. \A x : InWait(queue, x)' <=> InWait(queue, x) /\ x # c
    BY <1>1, <1>8 DEF InWait
  <2>5. Graph!PromisedValues' =
          [x \in Graph!Named |-> IF x \in HangingFrom(a) /\ ~(InWait(queue, x) /\ x # c)
                                   THEN nodes'[x] - b ELSE nodes'[x]]
    BY <1>7, <1>8, <1>10, <2>3, <2>4 DEF a, b
  <2>6. ASSUME NEW x \in Graph!Named
        PROVE  (IF x \in HangingFrom(a) /\ ~(InWait(queue, x) /\ x # c) THEN nodes'[x] - b ELSE nodes'[x]) =
                   (IF x \in HangingFrom(a) /\ ~InWait(queue, x) THEN nodes[x] - b ELSE nodes[x])
    <3>1. CASE x = c
      BY <1>1, <1>12, <3>1
    <3>2. CASE x # c
      BY <1>12, <3>2
    <3> QED
      BY <3>1, <3>2
  <2>7. Graph!PromisedValues' = Graph!PromisedValues
    BY <1>5, <2>5, <2>6
  <2> QED
    BY <1>1, <2>2, <2>7, GraphNoChange
<1>14. CASE queue' = << >>
  <2>1. pc' = "queries"
    BY <1>1, <1>14
  <2>2. Graph!Answered' = q
    BY <1>1, <2>1 DEF Graph!Answered
  <2>3. Promise!Query("add")
    BY <1>1, <1>2, <1>11, <2>2, GraphAnswers
  <2>4. /\ PromisedKnown = Graph!Named /\ PromisedJoined = Graph!Joined /\ PromisedQueries = queries
        /\ PromisedAnswered = Graph!Answered
        /\ PromisedValues = Graph!PromisedValues /\ PromisedAnswers = answers
        /\ PromisedValues' = Graph!PromisedValues' /\ PromisedAnswers' = answers'
    BY GraphMapped
  <2>5. Graph!PromisedValues' = [x \in Graph!Named |-> nodes'[x]]
    <3>1. (GraphGiven /\ GraphBuilt /\ taken = n - 1 /\ pc # "add" =>
             Graph!PromisedValues = [z \in Graph!Named |-> nodes[z]])'
      BY GraphValuesAre, PTL
    <3> QED
      BY <1>7, <1>9, <2>1, <3>1
  <2>6. \A x : InWait(queue, x) => x = c
    <3>1. \A x : ~InWait(queue', x)
      BY <1>14 DEF InWait
    <3> QED
      BY <1>1, <3>1
  <2>7. Promise!Below(a) = HangingFrom(a)
    BY <2>4, PromiseNames DEF HangingFrom
  <2>8. ASSUME NEW x \in Graph!Named
        PROVE  nodes'[x] = IF x \in HangingFrom(a) THEN Graph!PromisedValues[x] + b ELSE Graph!PromisedValues[x]
    <3>1. Graph!PromisedValues[x] = IF x \in HangingFrom(a) /\ ~InWait(queue, x) THEN nodes[x] - b ELSE nodes[x]
      BY <1>5
    <3>2. CASE x = c
      BY <1>1, <1>12, <3>1, <3>2
    <3>3. CASE x # c
      <4>1. ~InWait(queue, x) /\ nodes'[x] = nodes[x] /\ nodes[x] \in Int /\ b \in Int
        BY <1>1, <1>12, <2>6, <3>3
      <4> QED
        BY <3>1, <4>1
    <3> QED
      BY <3>2, <3>3
  <2>9. PromisedQueries[PromisedAnswered + 1].a = a /\ PromisedQueries[PromisedAnswered + 1].b = b /\ a \in PromisedKnown
    BY <1>2, <1>11, <2>4 DEF a, b
  <2>10. PromisedValues' = [x \in PromisedKnown |->
                              IF a \in PromisedKnown /\ x \in Promise!Below(a) THEN PromisedValues[x] + b ELSE PromisedValues[x]]
    BY <2>4, <2>5, <2>7, <2>8, <2>9
  <2>11. UNCHANGED PromisedAnswers
    BY <1>1, <2>4
  <2> QED
    BY <2>3, <2>9, <2>10, <2>11 DEF Promise!AddBelow
<1> QED
  BY <1>13, <1>14

\* The nodes on the stack of a search that is over.
LEMMA GraphMaxIs ==
    ASSUME TreeGiven, Searching, stack # << >>, stack[Len(stack)] = queries[q].b
    PROVE  /\ {queries[q].a, queries[q].b} \subseteq Graph!Named
           /\ Graph!ToSet(stack) = Way(Graph!Named, Graph!Joined, queries[q].a, queries[q].b)
           /\ Graph!ToSet(stack) \subseteq Graph!Named
<1>1. SimplePath(stack) /\ stack \in Seq(Graph!Named) /\ stack[1] = queries[q].a
  BY DEF Searching, SimplePath
<1>2. Len(stack) \in Nat /\ Len(stack) > 0 /\ 1 \in 1..Len(stack) /\ Len(stack) \in 1..Len(stack)
  BY <1>1, EmptySeq
<1>3. \A k \in 1..Len(stack) : stack[k] \in Graph!Named
  BY <1>1, ElementOfSeq
<1>4. \A x : x \in Way(Graph!Named, Graph!Joined, stack[1], stack[Len(stack)]) <=> \E k \in 1..Len(stack) : x = stack[k]
  BY <1>1, <1>2, PathIsWay
<1>5. Graph!ToSet(stack) = { stack[k] : k \in 1..Len(stack) }
  BY <1>1 DEF Graph!ToSet
<1> QED
  BY <1>1, <1>2, <1>3, <1>4, <1>5

\* The stack of a search that is over is what cannot be avoided.
LEMMA GraphReportFollows ==
    ASSUME GraphInv, Graph!Report, program = "graph", program' = "graph" PROVE Promise!ReportMax
<1> DEFINE x == queries[q].a
<1> DEFINE y == queries[q].b
<1>1. /\ pc = "path" /\ pc' = "queries" /\ UNCHANGED <<n, pairs, queries, nodes, taken, q, status>>
      /\ stack # << >> => stack[Len(stack)] = y
      /\ answers' = Append(answers, IF stack = << >> THEN MinValue
                                                     ELSE Graph!Max({ nodes[z] : z \in Graph!ToSet(stack) }))
  BY DEF Graph!Report, Graph!args, Graph!graph, Graph!Last, Graph!Query
<1>2. GraphGiven /\ GraphBuilt /\ TreeGiven /\ Searching /\ taken = n - 1 /\ status = "running"
  BY <1>1 DEF GraphInv, GraphGiven
<1>3. q \in Nat /\ q > 0 /\ queries[q].kind = "max" /\ q - 1 < Len(queries) /\ q - 1 + 1 = q
  <2>1. q \in 0..Len(queries) /\ Len(queries) \in Nat
    BY <1>2 DEF GraphGiven
  <2> QED
    BY <1>2, <2>1 DEF Searching
<1>4. Graph!Answered = q - 1 /\ Graph!Answered' = q
  BY <1>1, <1>2 DEF Graph!Answered
<1>5. Promise!Query("max")
  BY <1>1, <1>2, <1>3, <1>4, GraphAnswers
<1>6. /\ PromisedKnown = Graph!Named /\ PromisedJoined = Graph!Joined /\ PromisedQueries = queries
      /\ PromisedAnswered = Graph!Answered
      /\ PromisedValues = Graph!PromisedValues /\ PromisedAnswers = answers
      /\ PromisedValues' = Graph!PromisedValues' /\ PromisedAnswers' = answers'
  BY GraphMapped
<1>7. Graph!PromisedValues = [z \in Graph!Named |-> nodes[z]]
  BY <1>1, <1>2, GraphValuesAre
<1>8. Graph!PromisedValues' = Graph!PromisedValues
  <2>1. UNCHANGED pairs
    BY <1>1
  <2>2. Graph!Named' = Graph!Named
    BY <2>1, JoinedKept
  <2>3. \A z : Graph!HasNode(z)' <=> Graph!HasNode(z)
    BY <1>1 DEF Graph!HasNode
  <2>4. \A z : ~Graph!RaisedAlready(z) /\ ~Graph!RaisedAlready(z)'
    BY <1>1 DEF Graph!RaisedAlready
  <2> QED
    BY <1>1, <2>2, <2>3, <2>4 DEF Graph!PromisedValues
<1>9. PromisedQueries[PromisedAnswered + 1].a = x /\ PromisedQueries[PromisedAnswered + 1].b = y
  BY <1>3, <1>4, <1>6
<1>10. stack = << >> => ~({x, y} \subseteq Graph!Named)
  <2> SUFFICES ASSUME stack = << >>, {x, y} \subseteq Graph!Named PROVE FALSE
    OBVIOUS
  <2>1. PICK k \in 1..Len(stack) : y \in Reach(unvisited, stack[k])
    BY <1>2 DEF Searching
  <2>2. 1..Len(stack) = {}
    OBVIOUS
  <2> QED
    BY <2>1, <2>2
<1>11. stack # << >> => /\ {x, y} \subseteq Graph!Named
                        /\ Graph!ToSet(stack) = Way(Graph!Named, Graph!Joined, x, y) /\ Graph!ToSet(stack) \subseteq Graph!Named
  BY <1>1, <1>2, GraphMaxIs
<1> HIDE DEF x, y
<1>12. stack # << >> => { nodes[z] : z \in Graph!ToSet(stack) } = { PromisedValues[z] : z \in Promise!Between(x, y) }
  <2> SUFFICES ASSUME stack # << >>
               PROVE  { nodes[z] : z \in Graph!ToSet(stack) } = { PromisedValues[z] : z \in Promise!Between(x, y) }
    OBVIOUS
  <2> DEFINE W == Graph!ToSet(stack)
  <2>1. Promise!Between(x, y) = W
    BY <1>6, <1>11, PromiseNames
  <2>2. W \subseteq Graph!Named
    BY <1>11
  <2> HIDE DEF W
  <2>3. \A z \in W : PromisedValues[z] = nodes[z]
    BY <1>6, <1>7, <2>2
  <2>4. { nodes[z] : z \in W } = { PromisedValues[z] : z \in W }
    BY <2>3
  <2> QED
    BY <2>1, <2>4 DEF W
<1>13. PromisedAnswers' = Append(PromisedAnswers, IF {x, y} \subseteq PromisedKnown
                                                    THEN Promise!Max({ PromisedValues[z] : z \in Promise!Between(x, y) })
                                                    ELSE MinValue)
  <2>1. \A S : Promise!Max(S) = Graph!Max(S)
    BY PromiseNames
  <2> QED
    BY <1>1, <1>6, <1>10, <1>11, <1>12, <2>1
<1>14. UNCHANGED PromisedValues
  BY <1>6, <1>8
<1> QED
  BY <1>5, <1>9, <1>13, <1>14 DEF Promise!ReportMax

\* Steps that answer nothing and raise nothing.
LEMMA GraphQuiet ==
    ASSUME GraphInv, program = "graph", program' = "graph",
           \/ Graph!InsertEdge \/ Graph!StartQueries \/ Graph!StartMax \/ Graph!PathStep
           \/ Graph!Exit \/ UNCHANGED Graph!vars
    PROVE  UNCHANGED Promise!vars
<1>1. CASE Graph!InsertEdge
  <2>1. /\ pc = "edges" /\ UNCHANGED <<n, pairs, queries, q, answers, pc, status>>
    BY <1>1 DEF Graph!InsertEdge, Graph!args
  <2>2. GraphInv'
    BY <1>1, GraphEdgeEnters
  <2>3. (\A x \in DOMAIN nodes : nodes[x] = 0) /\ (\A x \in DOMAIN nodes' : nodes'[x] = 0)
    BY <2>1, <2>2 DEF GraphInv
  <2>4. UNCHANGED pairs
    BY <2>1
  <2>5. Graph!Named' = Graph!Named
    BY <2>4, JoinedKept
  <2>6. Graph!PromisedValues = [x \in Graph!Named |-> 0]
    BY <2>1, <2>3, NoGraphValuesYet
  <2>7. (Graph!PromisedValues = [x \in Graph!Named |-> 0])'
    <3>1. (pc = "edges" /\ \A x \in DOMAIN nodes : nodes[x] = 0)'
      BY <2>1, <2>3
    <3>2. (pc = "edges" /\ (\A x \in DOMAIN nodes : nodes[x] = 0) => Graph!PromisedValues = [x \in Graph!Named |-> 0])'
      BY NoGraphValuesYet, PTL
    <3> QED
      BY <3>1, <3>2
  <2>8. Graph!PromisedValues' = Graph!PromisedValues
    BY <2>5, <2>6, <2>7
  <2>9. Graph!Answered' = Graph!Answered
    BY <2>1 DEF Graph!Answered
  <2> QED
    BY <2>1, <2>8, <2>9, GraphNoChange
<1>2. CASE UNCHANGED Graph!vars
  <2>1. UNCHANGED <<n, pairs, queries, nodes, q, queue, answers, pc, status>>
    BY <1>2 DEF Graph!vars, Graph!args, Graph!graph
  <2>2. Graph!Answered' = Graph!Answered
    BY <2>1 DEF Graph!Answered
  <2>3. UNCHANGED pairs
    BY <2>1
  <2>4. Graph!Named' = Graph!Named
    BY <2>3, JoinedKept
  <2>5. \A x : HangingFrom(x)' = HangingFrom(x)
    BY <2>3, JoinedKept
  <2>6. \A x : Graph!RaisedAlready(x)' <=> Graph!RaisedAlready(x)
    <3>1. \A x : Graph!Hanging(x)' = Graph!Hanging(x)
      <4>1. (\A x : Graph!Hanging(x) = HangingFrom(x))'
        BY HangingIs, PTL
      <4> QED
        BY <2>5, <4>1, HangingIs
    <3> QED
      BY <2>1, <3>1 DEF Graph!RaisedAlready, Graph!Query
  <2>7. Graph!PromisedValues' = Graph!PromisedValues
    BY <2>1, <2>4, <2>6 DEF Graph!PromisedValues, Graph!HasNode, Graph!Query
  <2> QED
    BY <2>1, <2>2, <2>7, GraphNoChange
<1>3. CASE Graph!StartQueries \/ Graph!StartMax \/ Graph!PathStep \/ Graph!Exit
  <2>1. /\ UNCHANGED <<pairs, queries, nodes, answers>> /\ pc # "add" /\ pc' # "add"
        /\ status' = status \/ (status # "EXIT_FAILURE" /\ status' # "EXIT_FAILURE")
        /\ Graph!Answered' = Graph!Answered
    <3>1. CASE Graph!StartQueries
      <4>1. pc = "edges" /\ pc' = "queries" /\ UNCHANGED <<pairs, queries, nodes, answers, q, status>>
        BY <3>1 DEF Graph!StartQueries, Graph!args, Graph!graph
      <4> QED
        BY <4>1 DEF Graph!Answered
    <3>2. CASE Graph!StartMax
      <4>1. /\ pc = "queries" /\ status = "running" /\ q \in Nat /\ q' = q + 1 /\ UNCHANGED <<n, pairs, queries, nodes>>
        BY <3>2, GraphQueryRead DEF Graph!StartMax
      <4>2. pc' = "path" /\ UNCHANGED <<answers, status>>
        BY <3>2 DEF Graph!StartMax
      <4> QED
        BY <4>1, <4>2 DEF Graph!Answered
    <3>3. CASE Graph!PathStep
      <4>1. pc = "path" /\ pc' = "path" /\ UNCHANGED <<pairs, queries, nodes, answers, q, status>>
        BY <3>3 DEF Graph!PathStep, Graph!args, Graph!graph
      <4> QED
        BY <4>1 DEF Graph!Answered
    <3>4. CASE Graph!Exit
      <4>1. pc = "queries" /\ pc' = "done" /\ status' = "EXIT_SUCCESS" /\ UNCHANGED <<pairs, queries, nodes, answers, q>>
        BY <3>4 DEF Graph!Exit, Graph!args, Graph!graph
      <4>2. status = "running"
        BY <4>1 DEF GraphInv
      <4> QED
        BY <4>1, <4>2 DEF Graph!Answered
    <3> QED
      BY <1>3, <3>1, <3>2, <3>3, <3>4
  <2>2. UNCHANGED pairs
    BY <2>1
  <2>3. Graph!Named' = Graph!Named
    BY <2>2, JoinedKept
  <2>4. \A x : ~Graph!RaisedAlready(x) /\ ~Graph!RaisedAlready(x)'
    BY <2>1 DEF Graph!RaisedAlready
  <2>5. Graph!PromisedValues' = Graph!PromisedValues
    BY <2>1, <2>3, <2>4 DEF Graph!PromisedValues, Graph!HasNode
  <2> QED
    BY <2>1, <2>5, GraphNoChange
<1> QED
  BY <1>1, <1>2, <1>3

\* Every step of the default build.
LEMMA GraphFollows ==
    ASSUME GraphInv, Graph!Next \/ UNCHANGED Graph!vars, program = "graph", program' = "graph"
    PROVE  [Promise!Next]_(Promise!vars)
BY GraphStartAddFollows, GraphAddFollows, GraphReportFollows, GraphUnknownFollows, GraphQuiet
   DEF Graph!Next, Graph!Finished, Promise!Next

----------------------------------------------------------------------------
\* Both builds.

\* The invariant of whichever build runs.
SubtreesInv ==
    /\ program = "graph" => GraphInv
    /\ program = "node" => NodeInv

\* It holds at the start, which is one of SubtreeQueries,
LEMMA SubtreesStart == Init => SubtreesInv /\ Promise!Init
<1> SUFFICES ASSUME Init PROVE SubtreesInv /\ Promise!Init
  OBVIOUS
<1>1. (program = "graph" => Graph!Init) /\ (program = "node" => Node!Init)
  BY OneStarts
<1>2. SubtreesInv
  BY <1>1, GraphBegins, NodeBegins DEF SubtreesInv
<1>3. CASE program = "graph"
  BY <1>1, <1>2, <1>3, GraphPromised
<1>4. CASE program = "node"
  BY <1>1, <1>2, <1>4, NodePromised
<1>5. CASE program \notin {"graph", "node"}
  <2>1. PromisedAnswered = 0 /\ PromisedGaveUp = FALSE /\ PromisedAnswers = << >> /\ PromisedValues = << >> /\ PromisedKnown = {}
    BY <1>5 DEF PromisedAnswered, PromisedGaveUp, PromisedAnswers, PromisedValues, PromisedKnown
  <2>2. PromisedValues = [x \in PromisedKnown |-> 0]
    BY <2>1
  <2>3. Promise!Init
    BY <2>1, <2>2 DEF Promise!Init
  <2> QED
    BY <1>2, <2>3
<1> QED
  BY <1>3, <1>4, <1>5

\* and every step keeps it and is one of SubtreeQueries or is not seen by it.
LEMMA SubtreesStep == SubtreesInv /\ [Next]_vars => SubtreesInv' /\ [Promise!Next]_(Promise!vars)
<1> SUFFICES ASSUME SubtreesInv, [Next]_vars PROVE SubtreesInv' /\ [Promise!Next]_(Promise!vars)
  OBVIOUS
<1>1. /\ program' = program
      /\ program = "graph" => Graph!Next \/ UNCHANGED Graph!vars
      /\ program = "node" => Node!Next \/ UNCHANGED Node!vars
  BY OneRuns
<1>2. CASE program = "graph"
  <2>1. GraphInv /\ (Graph!Next \/ UNCHANGED Graph!vars)
    BY <1>1, <1>2 DEF SubtreesInv
  <2>2. GraphInv' /\ [Promise!Next]_(Promise!vars)
    BY <1>1, <1>2, <2>1, GraphStep, GraphFollows
  <2> QED
    BY <1>1, <1>2, <2>2 DEF SubtreesInv
<1>3. CASE program = "node"
  <2>1. NodeInv /\ [Node!Next]_(Node!vars)
    BY <1>1, <1>3 DEF SubtreesInv
  <2>2. NodeInv' /\ [Promise!Next]_(Promise!vars)
    BY <1>1, <1>3, <2>1, NodeStep, NodeFollows
  <2> QED
    BY <1>1, <1>3, <2>2 DEF SubtreesInv
<1>4. CASE program \notin {"graph", "node"}
  <2>1. program' \notin {"graph", "node"}
    BY <1>1, <1>4
  <2>2. UNCHANGED <<PromisedKnown, PromisedJoined, PromisedQueries, PromisedAnswered>>
    BY <1>4, <2>1 DEF PromisedKnown, PromisedJoined, PromisedQueries, PromisedAnswered
  <2>3. UNCHANGED <<PromisedGaveUp, PromisedValues, PromisedAnswers>>
    BY <1>4, <2>1 DEF PromisedGaveUp, PromisedValues, PromisedAnswers
  <2>4. SubtreesInv'
    BY <2>1 DEF SubtreesInv
  <2> QED
    BY <2>2, <2>3, <2>4 DEF Promise!vars
<1> QED
  BY <1>2, <1>3, <1>4

\* compute_path of subtrees_and_paths.cc never gives up on a target that it can
\* still reach, whatever tree is given and whichever neighbor it tries first; and
\* the pruning of max_value, built with USE_TREE_NODE, never drops the last node
\* that the two branches have in common.
THEOREM TreesSearchKeepsPath == Spec => []SearchKeepsPath
<1>1. Init => SubtreesInv
  BY SubtreesStart
<1>2. SubtreesInv /\ [Next]_vars => SubtreesInv'
  BY SubtreesStep
<1>3. SubtreesInv => SearchKeepsPath
  BY GraphSearchKeeps, NodePruneKeeps DEF SubtreesInv, SearchKeepsPath
<1> QED
  BY <1>1, <1>2, <1>3, PTL DEF Spec

\* Either build of subtrees_and_paths.cc follows SubtreeQueries, for every tree
\* and every list of queries: each step raises a node and all that hang from it
\* as one add, answers one max with the largest value on the path between its
\* ends, gives up on a query it does not know, or changes nothing that
\* SubtreeQueries tells of.
THEOREM TreesFollowQueries == Spec => Promise!Init /\ [][Promise!Next]_(Promise!vars)
<1>1. Init => SubtreesInv /\ Promise!Init
  BY SubtreesStart
<1>2. SubtreesInv /\ [Next]_vars => SubtreesInv' /\ [Promise!Next]_(Promise!vars)
  BY SubtreesStep
<1> QED
  BY <1>1, <1>2, PTL DEF Spec
=============================================================================
