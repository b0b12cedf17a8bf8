------------------------- MODULE TreeProgramsProofs -------------------------
(***************************************************************************)
(* Proofs about the programs that build trees: bst_insert of               *)
(* tree_level_order and tree_top_view, their traversals, and the reading   *)
(* and swapping of swap_tree_nodes.                                        *)
(***************************************************************************)
EXTENDS TreePrograms, TreePositions, AdjacencyList, FiniteSetsExt,
        FiniteSetTheorems, SequenceTheorems, WellFoundedInduction, TLAPS

\* One program runs, and none of the others takes a step.
LEMMA OneRuns ==
    ASSUME [Next]_vars
    PROVE  /\ program' = program
           /\ program = "graph" => Graph!Next \/ UNCHANGED Graph!vars
           /\ program = "node" => Node!Next \/ UNCHANGED Node!vars
           /\ program = "levels" => Levels!Next \/ UNCHANGED Levels!vars
           /\ program = "top_view" => TopView!Next \/ UNCHANGED TopView!vars
           /\ program = "swap" => Swap!Next \/ UNCHANGED Swap!vars
<1>1. CASE UNCHANGED vars
  BY <1>1 DEF vars, queriesOnly, graphOnly, nodeOnly, viewOnly, topOnly, swapOnly, Graph!vars, Graph!args,
              Graph!graph, Node!vars, Node!args, Node!paths, Levels!vars, Levels!insertVars, TopView!vars,
              TopView!insertVars, TopView!viewVars, Swap!vars, Swap!args
<1>2. CASE Next
  BY <1>2 DEF Next
<1> QED
  BY <1>1, <1>2

LEMMA OneStarts ==
    ASSUME Init
    PROVE  /\ program = "graph" => Graph!Init
           /\ program = "node" => Node!Init
           /\ program = "levels" => Levels!Init
           /\ program = "top_view" => TopView!Init
           /\ program = "swap" => Swap!Init
BY DEF Init

LEMMA Pairs ==
    ASSUME NEW x \in Nat, NEW y \in Nat, x < y PROVE <<x, y>> \in OpToRel(<, Nat)
BY DEF OpToRel

\* A set of naturals that is not empty has a least member.
LEMMA Least ==
    ASSUME NEW T, T \subseteq Nat, T # {} PROVE \E x \in T : \A y \in T : x <= y
<1>1. PICK x \in T : \A y \in T : ~ (<<y, x>> \in OpToRel(<, Nat))
  BY NatLessThanWellFounded, WFMin
<1>2. ASSUME NEW y \in T PROVE x <= y
  <2>1. ~(y < x)
    BY <1>1, Pairs
  <2> QED
    BY <2>1
<1> QED
  BY <1>1, <1>2

LEMMA Induction ==
    ASSUME NEW T, 0 \in T, \A m \in Nat : m \in T => m + 1 \in T PROVE Nat \subseteq T
<1> SUFFICES ASSUME Nat \ T # {} PROVE FALSE
  OBVIOUS
<1>1. PICK x \in Nat \ T : \A y \in Nat \ T : x <= y
  BY Least
<1>2. x # 0 /\ x - 1 \in Nat /\ x - 1 \in T
  BY <1>1
<1> QED
  BY <1>1, <1>2

----------------------------------------------------------------------------
\* Positions, turn by turn.

Positions == Seq({Left, Right})

\* p and r take the same first k turns.
Agree(p, r, k) == \A m \in 1..k : p[m] = r[m]

LEMMA TurnIs ==
    ASSUME NEW p \in Positions
    PROVE  /\ Len(p) \in Nat /\ DOMAIN p = 1..Len(p)
           /\ \A k \in 1..Len(p) : p[k] \in {Left, Right}
BY DEF Positions

LEMMA SamePosition ==
    ASSUME NEW p \in Positions, NEW r \in Positions, Len(p) = Len(r), Agree(p, r, Len(p))
    PROVE  p = r
BY SeqEqual DEF Positions, Agree

LEMMA SubSeqIs ==
    ASSUME NEW p \in Positions, NEW k \in 0..Len(p)
    PROVE  /\ SubSeq(p, 1, k) \in Positions /\ Len(SubSeq(p, 1, k)) = k
           /\ Agree(SubSeq(p, 1, k), p, k)
<1>1. p \in Seq({Left, Right}) /\ 1 \in 1..(Len(p) + 1) /\ k \in (1 - 1)..Len(p)
  BY DEF Positions
<1>2. \A m \in 1..Len(p) : p[m] \in {Left, Right}
  BY TurnIs
<1> QED
  BY <1>1, <1>2, SubSeqProperties DEF Positions, Agree

LEMMA SubSeqAgree ==
    ASSUME NEW p \in Positions, NEW r \in Positions, NEW k \in 0..Len(p), k <= Len(r)
    PROVE  SubSeq(p, 1, k) = SubSeq(r, 1, k) <=> Agree(p, r, k)
<1>1. k \in 0..Len(r)
  BY TurnIs
<1>2. /\ SubSeq(p, 1, k) \in Positions /\ Len(SubSeq(p, 1, k)) = k /\ Agree(SubSeq(p, 1, k), p, k)
      /\ SubSeq(r, 1, k) \in Positions /\ Len(SubSeq(r, 1, k)) = k /\ Agree(SubSeq(r, 1, k), r, k)
  BY <1>1, SubSeqIs
<1>3. ASSUME SubSeq(p, 1, k) = SubSeq(r, 1, k) PROVE Agree(p, r, k)
  BY <1>2, <1>3 DEF Agree
<1>4. ASSUME Agree(p, r, k) PROVE Agree(SubSeq(p, 1, k), SubSeq(r, 1, k), k)
  BY <1>2, <1>4 DEF Agree
<1> QED
  BY <1>2, <1>3, <1>4, SamePosition

LEMMA SubSeqIsPosition ==
    ASSUME NEW p \in Positions, NEW r \in Positions, Len(r) <= Len(p)
    PROVE  SubSeq(p, 1, Len(r)) = r <=> Agree(p, r, Len(r))
<1>1. Len(r) \in 0..Len(p)
  BY TurnIs
<1>2. /\ SubSeq(p, 1, Len(r)) \in Positions /\ Len(SubSeq(p, 1, Len(r))) = Len(r)
      /\ Agree(SubSeq(p, 1, Len(r)), p, Len(r))
  BY <1>1, SubSeqIs
<1>3. ASSUME SubSeq(p, 1, Len(r)) = r PROVE Agree(p, r, Len(r))
  BY <1>2, <1>3 DEF Agree
<1>4. ASSUME Agree(p, r, Len(r)) PROVE Agree(SubSeq(p, 1, Len(r)), r, Len(r))
  BY <1>2, <1>4 DEF Agree
<1> QED
  BY <1>2, <1>3, <1>4, SamePosition

LEMMA AppendIs ==
    ASSUME NEW p \in Positions, NEW side \in {Left, Right}
    PROVE  /\ Append(p, side) \in Positions /\ Len(Append(p, side)) = Len(p) + 1
           /\ Append(p, side)[Len(p) + 1] = side
           /\ Agree(Append(p, side), p, Len(p))
<1>1. p \in Seq({Left, Right})
  BY DEF Positions
<1> QED
  BY <1>1, AppendProperties DEF Positions, Agree

\* r is on the given side of p, or further down on that side.
Under(p, side, r) == Len(p) < Len(r) /\ r[Len(p) + 1] = side /\ Agree(r, p, Len(p))

LEMMA PrefixIs ==
    ASSUME NEW p \in Positions, NEW r \in Positions
    PROVE  IsPrefix(p, r) <=> Len(p) <= Len(r) /\ Agree(r, p, Len(p))
<1>1. CASE Len(p) <= Len(r)
  <2>1. SubSeq(p, 1, Len(p)) = p
    <3>1. Len(p) \in 0..Len(p)
      BY TurnIs
    <3>2. /\ SubSeq(p, 1, Len(p)) \in Positions /\ Len(SubSeq(p, 1, Len(p))) = Len(p)
          /\ Agree(SubSeq(p, 1, Len(p)), p, Len(p))
      BY <3>1, SubSeqIs
    <3> QED
      BY <3>2, SamePosition
  <2>2. SubSeq(r, 1, Len(p)) = p <=> Agree(r, p, Len(p))
    BY <1>1, SubSeqIsPosition
  <2> QED
    BY <1>1, <2>1, <2>2 DEF IsPrefix
<1>2. CASE ~(Len(p) <= Len(r))
  BY <1>2 DEF IsPrefix
<1> QED
  BY <1>1, <1>2

LEMMA UnderIs ==
    ASSUME NEW p \in Positions, NEW r \in Positions, NEW side \in {Left, Right}
    PROVE  IsPrefix(Append(p, side), r) <=> Under(p, side, r)
<1> DEFINE c == Append(p, side)
<1>1. c \in Positions /\ Len(c) = Len(p) + 1 /\ c[Len(p) + 1] = side /\ Agree(c, p, Len(p))
  BY AppendIs
<1>2. Len(p) \in Nat /\ Len(r) \in Nat
  BY TurnIs
<1> HIDE DEF c
<1>3. IsPrefix(c, r) <=> Len(c) <= Len(r) /\ Agree(r, c, Len(c))
  BY <1>1, PrefixIs
<1>4. Agree(r, c, Len(c)) <=> r[Len(p) + 1] = side /\ Agree(r, p, Len(p))
  BY <1>1, <1>2 DEF Agree
<1> QED
  BY <1>1, <1>2, <1>3, <1>4 DEF Under, c

\* Every position is the root or a child.
LEMMA IsChild ==
    ASSUME NEW p \in Positions, p # Root
    PROVE  /\ Len(p) > 0 /\ p[Len(p)] \in {Left, Right}
           /\ SubSeq(p, 1, Len(p) - 1) \in Positions
           /\ p = Append(SubSeq(p, 1, Len(p) - 1), p[Len(p)])
<1>1. p \in Seq({Left, Right}) /\ p # << >> /\ Len(p) \in Nat
  BY TurnIs DEF Root, Positions
<1>2. Len(p) > 0
  BY <1>1, EmptySeq
<1>3. p[Len(p)] \in {Left, Right} /\ Len(p) - 1 \in 0..Len(p)
  BY <1>1, <1>2, TurnIs
<1> DEFINE f == SubSeq(p, 1, Len(p) - 1)
<1> DEFINE s == p[Len(p)]
<1>4. f \in Positions /\ Len(f) = Len(p) - 1 /\ Agree(f, p, Len(p) - 1)
  BY <1>3, SubSeqIs
<1> HIDE DEF f
<1>5. /\ Append(f, s) \in Positions /\ Len(Append(f, s)) = Len(f) + 1
      /\ Append(f, s)[Len(f) + 1] = s /\ Agree(Append(f, s), f, Len(f))
  BY <1>3, <1>4, AppendIs
<1>6. Len(Append(f, s)) = Len(p) /\ Agree(Append(f, s), p, Len(p))
  BY <1>1, <1>2, <1>4, <1>5 DEF Agree
<1>7. Append(f, s) = p
  BY <1>5, <1>6, SamePosition
<1> QED
  BY <1>2, <1>3, <1>4, <1>7 DEF f

LEMMA RootIs == Root \in Positions /\ Len(Root) = 0
BY EmptySeq DEF Root, Positions

----------------------------------------------------------------------------
\* Trees.

\* The nodes from the root to a node are nodes.
IsTree(t) ==
    /\ DOMAIN t \subseteq Positions
    /\ \A p \in DOMAIN t : \A k \in 0..Len(p) : SubSeq(p, 1, k) \in DOMAIN t

LEMMA AboveIsNode ==
    ASSUME NEW t, IsTree(t), NEW p \in Positions, NEW r \in DOMAIN t,
           Len(p) <= Len(r), Agree(r, p, Len(p))
    PROVE  p \in DOMAIN t
<1>1. r \in Positions /\ Len(p) \in 0..Len(r)
  BY TurnIs DEF IsTree
<1>2. SubSeq(r, 1, Len(p)) = p
  BY <1>1, SubSeqIsPosition
<1> QED
  BY <1>1, <1>2 DEF IsTree

LEMMA RootIsTree ==
    ASSUME NEW t, DOMAIN t = {Root} PROVE IsTree(t)
<1>1. ASSUME NEW k \in 0..Len(Root) PROVE SubSeq(Root, 1, k) = Root
  <2>1. k = 0 /\ k \in 0..Len(Root) /\ Len(Root) = 0 /\ Root \in Positions
    BY RootIs
  <2>2. SubSeq(Root, 1, 0) \in Positions /\ Len(SubSeq(Root, 1, 0)) = 0
    BY <2>1, SubSeqIs
  <2> QED
    BY <2>1, <2>2, SamePosition DEF Agree
<1> QED
  BY <1>1, RootIs DEF IsTree

LEMMA AddedIsTree ==
    ASSUME NEW t, IsTree(t), NEW p \in DOMAIN t, NEW new, \A c \in new : \E side \in {Left, Right} : c = Append(p, side),
           NEW u, DOMAIN u = DOMAIN t \cup new
    PROVE  IsTree(u)
<1>1. p \in Positions /\ Len(p) \in Nat
  BY TurnIs DEF IsTree
<1>2. ASSUME NEW c \in new
      PROVE  c \in Positions /\ Len(c) = Len(p) + 1 /\ Agree(c, p, Len(p))
  BY <1>1, AppendIs
<1>3. ASSUME NEW c \in new, NEW k \in 0..Len(c) PROVE SubSeq(c, 1, k) \in DOMAIN u
  <2>1. c \in Positions /\ Len(c) = Len(p) + 1 /\ Agree(c, p, Len(p))
    BY <1>2
  <2>2. CASE k = Len(c)
    <3>1. SubSeq(c, 1, k) \in Positions /\ Len(SubSeq(c, 1, k)) = Len(c) /\ Agree(SubSeq(c, 1, k), c, Len(c))
      BY <2>1, <2>2, SubSeqIs
    <3>2. SubSeq(c, 1, k) = c
      BY <2>1, <3>1, SamePosition
    <3> QED
      BY <3>2
  <2>3. CASE k # Len(c)
    <3>1. k \in 0..Len(p) /\ k <= Len(p) /\ Agree(c, p, k)
      BY <1>1, <2>1, <2>3 DEF Agree
    <3>2. SubSeq(c, 1, k) = SubSeq(p, 1, k)
      BY <1>1, <2>1, <3>1, SubSeqAgree
    <3> QED
      BY <3>1, <3>2 DEF IsTree
  <2> QED
    BY <2>2, <2>3
<1>4. ASSUME NEW r \in DOMAIN u PROVE r \in Positions /\ \A k \in 0..Len(r) : SubSeq(r, 1, k) \in DOMAIN u
  <2>1. CASE r \in new
    BY <1>2, <1>3, <2>1
  <2>2. CASE r \in DOMAIN t
    BY <2>2 DEF IsTree
  <2> QED
    BY <2>1, <2>2
<1> QED
  BY <1>4 DEF IsTree

----------------------------------------------------------------------------
\* bst_insert, of tree_level_order.cc and tree_top_view.cc.

\* Equal values to the left.
IsSearchTree(t) ==
    \A p, r \in DOMAIN t :
        /\ Under(p, Left, r) => t[r] <= t[p]
        /\ Under(p, Right, r) => t[p] < t[r]

\* v may be put at p, or below it.
Fits(t, v, p) ==
    \A r \in DOMAIN t :
        /\ Under(r, Left, p) => v <= t[r]
        /\ Under(r, Right, p) => t[r] < v

\* The nodes are the first m values of s, each at a place of its own.
Holds(t, s, m) ==
    \E f \in [1..m -> DOMAIN t] :
        /\ \A k, l \in 1..m : f[k] = f[l] => k = l
        /\ \A p \in DOMAIN t : \E k \in 1..m : f[k] = p
        /\ \A k \in 1..m : t[f[k]] = s[k]

LEMMA UnderChild ==
    ASSUME NEW a \in Positions, NEW p \in Positions, NEW s \in {Left, Right}, NEW side \in {Left, Right},
           Under(a, s, Append(p, side))
    PROVE  (a = p /\ s = side) \/ Under(a, s, p)
<1> DEFINE c == Append(p, side)
<1>1. Len(p) \in Nat /\ Len(a) \in Nat
  BY TurnIs
<1>2. Len(c) = Len(p) + 1 /\ c[Len(p) + 1] = side /\ Agree(c, p, Len(p))
  BY AppendIs
<1>3. Len(a) < Len(c) /\ c[Len(a) + 1] = s /\ Agree(c, a, Len(a))
  BY DEF Under
<1> HIDE DEF c
<1>4. CASE Len(a) = Len(p)
  <2>1. s = side /\ Agree(a, p, Len(p))
    BY <1>2, <1>3, <1>4 DEF Agree
  <2> QED
    BY <1>4, <2>1, SamePosition
<1>5. CASE Len(a) # Len(p)
  <2>1. Len(a) < Len(p) /\ p[Len(a) + 1] = s /\ Agree(p, a, Len(a))
    BY <1>1, <1>2, <1>3, <1>5 DEF Agree
  <2> QED
    BY <2>1 DEF Under
<1> QED
  BY <1>4, <1>5

LEMMA AttachedFits ==
    ASSUME NEW t, IsTree(t), t \in [DOMAIN t -> Nat], IsSearchTree(t), NEW p \in DOMAIN t, NEW v \in Nat,
           Fits(t, v, p), NEW side \in {Left, Right}, Append(p, side) \notin DOMAIN t,
           side = Left => v <= t[p], side = Right => t[p] < v
    PROVE  IsSearchTree(AddNode(t, Append(p, side), v))
<1> DEFINE c == Append(p, side)
<1> DEFINE u == AddNode(t, c, v)
<1>1. p \in Positions /\ Len(p) \in Nat /\ Left # Right
  BY TurnIs DEF IsTree, Left, Right
<1>2. c \in Positions /\ Len(c) = Len(p) + 1 /\ c[Len(p) + 1] = side /\ Agree(c, p, Len(p))
  BY <1>1, AppendIs
<1>3. c \notin DOMAIN t /\ DOMAIN u = DOMAIN t \cup {c} /\ u[c] = v /\ \A r \in DOMAIN t : u[r] = t[r]
  BY DEF AddNode
<1> HIDE DEF c, u
<1>4. ASSUME NEW a \in DOMAIN t, NEW s \in {Left, Right}, Under(a, s, c)
      PROVE  (s = Left => v <= t[a]) /\ (s = Right => t[a] < v)
  <2>1. a \in Positions
    BY DEF IsTree
  <2>2. (a = p /\ s = side) \/ Under(a, s, p)
    BY <1>1, <1>4, <2>1, UnderChild DEF c
  <2> QED
    BY <2>2 DEF Fits
<1>5. ASSUME NEW s \in {Left, Right}, NEW r \in DOMAIN t, Under(c, s, r) PROVE FALSE
  <2>1. r \in Positions /\ Len(c) < Len(r) /\ Agree(r, c, Len(c))
    BY <1>5 DEF Under, IsTree
  <2>2. Len(c) \in Nat /\ Len(r) \in Nat
    BY <1>2, <2>1, TurnIs
  <2>3. Len(c) <= Len(r)
    BY <2>1, <2>2
  <2>4. c \in DOMAIN t
    BY <1>2, <2>1, <2>3, AboveIsNode
  <2> QED
    BY <1>3, <2>4
<1>6. ASSUME NEW s \in {Left, Right}, Under(c, s, c) PROVE FALSE
  BY <1>1, <1>2, <1>6 DEF Under
<1>7. ASSUME NEW a \in DOMAIN u, NEW r \in DOMAIN u
      PROVE  (Under(a, Left, r) => u[r] <= u[a]) /\ (Under(a, Right, r) => u[a] < u[r])
  <2>1. CASE a = c
    BY <1>3, <1>5, <1>6, <2>1
  <2>2. CASE a # c /\ r = c
    BY <1>3, <1>4, <2>2
  <2>3. CASE a # c /\ r # c
    BY <1>3, <2>3 DEF IsSearchTree
  <2> QED
    BY <2>1, <2>2, <2>3
<1> QED
  BY <1>7 DEF IsSearchTree, u, c

LEMMA HoldsOneMore ==
    ASSUME NEW t, NEW s, NEW m \in Nat, Holds(t, s, m), NEW p, p \notin DOMAIN t
    PROVE  Holds(AddNode(t, p, s[m + 1]), s, m + 1)
<1> DEFINE u == AddNode(t, p, s[m + 1])
<1>1. PICK f \in [1..m -> DOMAIN t] :
          /\ \A k, l \in 1..m : f[k] = f[l] => k = l
          /\ \A r \in DOMAIN t : \E k \in 1..m : f[k] = r
          /\ \A k \in 1..m : t[f[k]] = s[k]
  BY DEF Holds
<1>2. DOMAIN u = DOMAIN t \cup {p} /\ u[p] = s[m + 1] /\ \A r \in DOMAIN t : u[r] = t[r]
  BY DEF AddNode
<1> HIDE DEF u
<1> DEFINE g == [k \in 1..(m + 1) |-> IF k = m + 1 THEN p ELSE f[k]]
<1>3. \A k \in 1..(m + 1) : k = m + 1 \/ k \in 1..m
  OBVIOUS
<1>4. \A k \in 1..m : k \in 1..(m + 1) /\ k # m + 1 /\ g[k] = f[k] /\ f[k] \in DOMAIN t
  BY <1>1
<1>5. m + 1 \in 1..(m + 1) /\ g[m + 1] = p
  OBVIOUS
<1>6. g \in [1..(m + 1) -> DOMAIN u]
  BY <1>1, <1>2, <1>3
<1> HIDE DEF g
<1>7. \A k, l \in 1..(m + 1) : g[k] = g[l] => k = l
  BY <1>1, <1>3, <1>4, <1>5
<1>8. \A r \in DOMAIN u : \E k \in 1..(m + 1) : g[k] = r
  BY <1>1, <1>2, <1>4, <1>5
<1>9. \A k \in 1..(m + 1) : u[g[k]] = s[k]
  BY <1>1, <1>2, <1>3, <1>4, <1>5
<1> QED
  BY <1>6, <1>7, <1>8, <1>9 DEF Holds, u

\* What the tree holds, as a bag.
LEMMA HoldsBag ==
    ASSUME NEW t, NEW s, NEW m \in Nat, s \in Seq(Nat), m <= Len(s), Holds(t, s, m)
    PROVE  IsFiniteSet(DOMAIN t) /\ ToBag(t) = ToBag(SubSeq(s, 1, m))
<1> DEFINE w == SubSeq(s, 1, m)
<1>1. PICK f \in [1..m -> DOMAIN t] :
          /\ \A k, l \in 1..m : f[k] = f[l] => k = l
          /\ \A r \in DOMAIN t : \E k \in 1..m : f[k] = r
          /\ \A k \in 1..m : t[f[k]] = s[k]
  BY DEF Holds
<1>2. DOMAIN w = 1..m /\ \A k \in 1..m : w[k] = s[k]
  OBVIOUS
<1> HIDE DEF w
<1>3. IsFiniteSet(DOMAIN t)
  <2>1. IsFiniteSet(1..m)
    BY FS_Interval
  <2>2. f \in Surjection(1..m, DOMAIN t)
    BY <1>1 DEF Surjection
  <2> QED
    BY <2>1, <2>2, FS_Surjection
<1>4. \A x : x \in Range(t) <=> x \in Range(w)
  <2>1. ASSUME NEW x \in Range(t) PROVE x \in Range(w)
    <3>1. PICK r \in DOMAIN t : x = t[r]
      BY <2>1 DEF Range
    <3>2. PICK k \in 1..m : f[k] = r
      BY <1>1
    <3> QED
      BY <1>1, <1>2, <3>1, <3>2 DEF Range
  <2>2. ASSUME NEW x \in Range(w) PROVE x \in Range(t)
    <3>1. PICK k \in 1..m : x = w[k]
      BY <1>2, <2>2 DEF Range
    <3>2. f[k] \in DOMAIN t /\ x = t[f[k]]
      BY <1>1, <1>2, <3>1
    <3> QED
      BY <3>2 DEF Range
  <2> QED
    BY <2>1, <2>2
<1>5. ASSUME NEW x PROVE Cardinality({ i_1 \in DOMAIN t : t[i_1] = x }) = Cardinality({ i_1 \in DOMAIN w : w[i_1] = x })
  <2> DEFINE S == { k \in 1..m : w[k] = x }
  <2> DEFINE T == { r \in DOMAIN t : t[r] = x }
  <2> DEFINE g == [k \in S |-> f[k]]
  <2>1. IsFiniteSet(S) /\ IsFiniteSet(T)
    <3>1. IsFiniteSet(1..m) /\ S \in SUBSET (1..m) /\ T \in SUBSET DOMAIN t
      BY FS_Interval
    <3> QED
      BY <1>3, <3>1, FS_Subset
  <2>2. g \in [S -> T]
    BY <1>1, <1>2
  <2>3. \A a, b \in S : g[a] = g[b] => a = b
    BY <1>1
  <2>4. \A y \in T : \E a \in S : g[a] = y
    <3> SUFFICES ASSUME NEW y \in DOMAIN t, t[y] = x PROVE \E a \in S : g[a] = y
      OBVIOUS
    <3>1. PICK a \in 1..m : f[a] = y
      BY <1>1
    <3>2. w[a] = x
      BY <1>1, <1>2, <3>1
    <3> QED
      BY <3>1, <3>2
  <2> HIDE DEF g, S, T
  <2>5. g \in Injection(S, T) /\ g \in Surjection(S, T)
    <3>1. DOMAIN g = S
      BY <2>2
    <3> QED
      BY <2>2, <2>3, <2>4, <3>1 DEF Injection, IsInjective, Surjection
  <2>6. Cardinality(S) = Cardinality(T)
    BY <2>1, <2>5, FS_Surjection
  <2> QED
    BY <1>2, <2>6 DEF S, T
<1>6. ToBag(t) = ToBag(w)
  <2> DEFINE B(x) == Cardinality({ i_1 \in DOMAIN t : t[i_1] = x })
  <2> DEFINE C(x) == Cardinality({ i_1 \in DOMAIN w : w[i_1] = x })
  <2>1. ToBag(t) = [x \in Range(t) |-> B(x)] /\ ToBag(w) = [x \in Range(w) |-> C(x)]
    BY DEF ToBag
  <2>2. Range(t) = Range(w) /\ \A x : B(x) = C(x)
    BY <1>4, <1>5
  <2> HIDE DEF B, C
  <2> QED
    BY <2>1, <2>2
<1> QED
  BY <1>3, <1>6 DEF w

----------------------------------------------------------------------------
\* The programs that insert.

Inserts == program \in {"levels", "top_view"}

\* How many of the values read are in the tree.
Held == IF pc = "insert" THEN taken - 1 ELSE taken

\* The inductive invariant of the reading: a search tree of the values inserted,
\* and a descent that is on the one way to where its value belongs.
InsertInv ==
    /\ input \in Seq(Nat)
    /\ taken \in 0..Len(input)
    /\ pc \in {"read", "insert", "view", "done"}
    /\ IsTree(tree) /\ tree \in [DOMAIN tree -> Nat]
    /\ IsSearchTree(tree)
    /\ DOMAIN tree = {} <=> taken = 0
    /\ taken > 0 => Root \in DOMAIN tree
    /\ pc = "insert" => taken > 0 /\ at \in DOMAIN tree /\ Fits(tree, input[taken], at)
    /\ Holds(tree, input, Held)

LEMMA SameInsert ==
    /\ TopView!Insert => Levels!Insert
    /\ TopView!StartView => Levels!StartView
    /\ TopView!InsertInit => Levels!InsertInit
    /\ UNCHANGED TopView!insertVars => UNCHANGED Levels!insertVars
BY DEF TopView!Insert, Levels!Insert, TopView!StartView, Levels!StartView, TopView!InsertInit, Levels!InsertInit,
       TopView!insertVars, Levels!insertVars, TopView!MakeRoot, Levels!MakeRoot, TopView!CallInsert,
       Levels!CallInsert, TopView!Descend, Levels!Descend, TopView!Attach, Levels!Attach, TopView!Side,
       Levels!Side, TopView!Value, Levels!Value, TopView!Left, Levels!Left, TopView!Right, Levels!Right,
       TopView!Root, Levels!Root, TopView!EmptyTree, Levels!EmptyTree, TopView!AddNode, Levels!AddNode

LEMMA InsertsStart == Levels!InsertInit => InsertInv
<1> SUFFICES ASSUME Levels!InsertInit PROVE InsertInv
  OBVIOUS
<1>1. input \in Seq(Nat) /\ taken = 0 /\ pc = "read" /\ Len(input) \in Nat
  BY InputsAssumption DEF Levels!InsertInit, Levels!InputsOK
<1>2. tree = [p \in {} |-> {}] /\ DOMAIN tree = {}
  BY DEF Levels!InsertInit, Levels!EmptyTree
<1>3. Holds(tree, input, 0)
  <2>1. [k \in 1..0 |-> Root] \in [1..0 -> DOMAIN tree]
    OBVIOUS
  <2> QED
    BY <1>2, <2>1 DEF Holds
<1>4. IsTree(tree) /\ tree \in [DOMAIN tree -> Nat] /\ IsSearchTree(tree)
  BY <1>2 DEF IsTree, IsSearchTree
<1> QED
  BY <1>1, <1>2, <1>3, <1>4 DEF InsertInv, Held

LEMMA InsertStep == InsertInv /\ Levels!Insert => InsertInv'
<1> SUFFICES ASSUME InsertInv, Levels!Insert PROVE InsertInv'
  OBVIOUS
<1> USE DEF InsertInv
<1>0. Len(input) \in Nat /\ Root \in Positions
  BY RootIs
<1>1. CASE Levels!MakeRoot
  <2>1. /\ pc = "read" /\ taken = 0 /\ taken < Len(input) /\ taken' = 1
        /\ tree' = AddNode(tree, Root, input[1]) /\ UNCHANGED <<input, at, pc>>
    BY <1>1 DEF Levels!MakeRoot, Levels!AddNode, AddNode, Levels!Root, Root
  <2>2. DOMAIN tree = {} /\ input[1] \in Nat
    BY <1>0, <2>1
  <2>3. DOMAIN tree' = {Root} /\ tree'[Root] = input[1] /\ tree' \in [DOMAIN tree' -> Nat]
    BY <2>1, <2>2 DEF AddNode
  <2>4. IsTree(tree')
    BY <2>3, RootIsTree
  <2>5. IsSearchTree(tree')
    BY <1>0, <2>3, TurnIs DEF IsSearchTree, Under
  <2>6. Holds(tree', input, 1)
    <3>1. Holds(tree, input, 0)
      BY <2>1 DEF Held
    <3>2. Holds(AddNode(tree, Root, input[0 + 1]), input, 0 + 1)
      BY <2>2, <3>1, HoldsOneMore
    <3> QED
      BY <2>1, <3>2
  <2> QED
    BY <2>1, <2>3, <2>4, <2>5, <2>6 DEF Held
<1>2. CASE Levels!CallInsert
  <2>1. /\ pc = "read" /\ taken > 0 /\ taken < Len(input) /\ taken' = taken + 1
        /\ at' = Root /\ pc' = "insert" /\ UNCHANGED <<input, tree>>
    BY <1>2 DEF Levels!CallInsert, Levels!Root, Root
  <2>2. Root \in DOMAIN tree /\ Fits(tree, input[taken'], Root)
    BY <2>1, RootIs, TurnIs DEF Fits, Under, IsTree
  <2> QED
    BY <1>0, <2>1, <2>2 DEF Held
<1>3. CASE Levels!Descend
  <2>1. /\ pc = "insert" /\ Append(at, Levels!Side) \in DOMAIN tree
        /\ at' = Append(at, Levels!Side) /\ UNCHANGED <<input, taken, tree, pc>>
    BY <1>3 DEF Levels!Descend
  <2>2. /\ at \in DOMAIN tree /\ at \in Positions /\ input[taken] \in Nat /\ tree[at] \in Nat
    BY <1>0, <2>1 DEF IsTree
  <2>3. /\ Levels!Side \in {Left, Right}
        /\ Levels!Side = Left => input[taken] <= tree[at]
        /\ Levels!Side = Right => tree[at] < input[taken]
    BY <2>2 DEF Levels!Side, Levels!Value, Levels!Left, Levels!Right, Left, Right
  <2>4. Fits(tree, input[taken], at')
    <3>1. ASSUME NEW r \in DOMAIN tree, NEW s \in {Left, Right}, Under(r, s, at')
          PROVE  (s = Left => input[taken] <= tree[r]) /\ (s = Right => tree[r] < input[taken])
      <4>1. r \in Positions
        BY DEF IsTree
      <4>2. (r = at /\ s = Levels!Side) \/ Under(r, s, at)
        BY <2>1, <2>2, <2>3, <3>1, <4>1, UnderChild
      <4> QED
        BY <2>1, <2>3, <4>2 DEF Fits
    <3> QED
      BY <3>1 DEF Fits
  <2> QED
    BY <2>1, <2>4 DEF Held
<1>4. CASE Levels!Attach
  <2> DEFINE c == Append(at, Levels!Side)
  <2>1. /\ pc = "insert" /\ c \notin DOMAIN tree
        /\ tree' = AddNode(tree, c, input[taken]) /\ pc' = "read" /\ UNCHANGED <<input, taken, at>>
    BY <1>4 DEF Levels!Attach, Levels!AddNode, AddNode, Levels!Value
  <2>2. /\ at \in DOMAIN tree /\ at \in Positions /\ input[taken] \in Nat /\ tree[at] \in Nat /\ taken > 0
        /\ Fits(tree, input[taken], at)
    BY <1>0, <2>1 DEF IsTree
  <2>3. /\ Levels!Side \in {Left, Right}
        /\ Levels!Side = Left => input[taken] <= tree[at]
        /\ Levels!Side = Right => tree[at] < input[taken]
    BY <2>2 DEF Levels!Side, Levels!Value, Levels!Left, Levels!Right, Left, Right
  <2>4. DOMAIN tree' = DOMAIN tree \cup {c} /\ tree' \in [DOMAIN tree' -> Nat]
    BY <2>1, <2>2 DEF AddNode
  <2>5. IsTree(tree')
    <3>1. \A r \in {c} : \E side \in {Left, Right} : r = Append(at, side)
      BY <2>3
    <3> HIDE DEF c
    <3> QED
      BY <2>2, <2>4, <3>1, AddedIsTree
  <2>6. IsSearchTree(tree')
    BY <2>1, <2>2, <2>3, AttachedFits
  <2>7. Holds(tree', input, taken)
    <3>1. Holds(tree, input, taken - 1) /\ taken - 1 \in Nat /\ taken - 1 + 1 = taken
      BY <2>1, <2>2 DEF Held
    <3>2. Holds(AddNode(tree, c, input[taken - 1 + 1]), input, taken - 1 + 1)
      BY <2>1, <3>1, HoldsOneMore
    <3> QED
      BY <2>1, <3>1, <3>2
  <2>8. Root \in DOMAIN tree'
    BY <2>2, <2>4
  <2> HIDE DEF c
  <2> QED
    BY <2>1, <2>2, <2>4, <2>5, <2>6, <2>7, <2>8 DEF Held
<1> QED
  BY <1>1, <1>2, <1>3, <1>4 DEF Levels!Insert

LEMMA InsertStays ==
    ASSUME InsertInv, UNCHANGED <<input, taken, tree>>, pc # "insert", pc' \in {"view", "done"} \/ pc' = pc
    PROVE  InsertInv'
BY DEF InsertInv, Held

LEMMA InsertUnchanged == InsertInv /\ UNCHANGED <<input, taken, at, tree, pc>> => InsertInv'
BY DEF InsertInv, Held

LEMMA InsertSafe == Spec => [](Inserts => InsertInv)
<1>1. ASSUME Init, Inserts PROVE InsertInv
  <2>1. Levels!InsertInit
    BY <1>1, OneStarts, SameInsert DEF Inserts, Levels!Init, TopView!Init
  <2> QED
    BY <2>1, InsertsStart
<1>2. ASSUME Inserts => InsertInv, [Next]_vars, Inserts' PROVE InsertInv'
  <2>1. Inserts /\ InsertInv
    BY <1>2, OneRuns DEF Inserts
  <2>2. CASE Levels!Insert
    BY <2>1, <2>2, InsertStep
  <2>3. CASE UNCHANGED <<input, taken, at, tree, pc>>
    BY <2>1, <2>3, InsertUnchanged
  <2>4. CASE UNCHANGED <<input, taken, tree>> /\ pc \in {"read", "view"} /\ pc' \in {"view", "done"}
    BY <2>1, <2>4, InsertStays
  <2>5. CASE program = "levels"
    <3>1. Levels!Next \/ UNCHANGED Levels!vars
      BY <1>2, <2>5, OneRuns
    <3> QED
      BY <2>2, <2>3, <2>4, <3>1
      DEF Levels!Next, Levels!vars, Levels!insertVars, Levels!StartBfs, Levels!StartView, Levels!PrintNode,
          Levels!Exit, Levels!Finished
  <2>6. CASE program = "top_view"
    <3>1. TopView!Next \/ UNCHANGED TopView!vars
      BY <1>2, <2>6, OneRuns
    <3>2. TopView!VisitNode => UNCHANGED TopView!insertVars
      BY DEF TopView!VisitNode
    <3>3. TopView!insertVars = <<input, taken, at, tree, pc>>
      BY DEF TopView!insertVars
    <3> QED
      BY <2>2, <2>3, <2>4, <3>1, <3>2, SameInsert
      DEF TopView!Next, TopView!vars, TopView!insertVars, TopView!StartBfs, TopView!StartView,
          TopView!WriteView, TopView!Finished
  <2> QED
    BY <2>1, <2>5, <2>6 DEF Inserts
<1>3. Init => (Inserts => InsertInv)
  BY <1>1
<1>4. (Inserts => InsertInv) /\ [Next]_vars => (Inserts => InsertInv)'
  BY <1>2
<1> QED
  BY <1>3, <1>4, PTL DEF Spec

----------------------------------------------------------------------------
\* Which of two nodes of a search tree holds the smaller value.
LEMMA InorderAscends ==
    ASSUME NEW t, IsTree(t), t \in [DOMAIN t -> Nat], IsSearchTree(t), NEW p \in DOMAIN t, NEW r \in DOMAIN t,
           InorderBefore(p, r)
    PROVE  t[p] <= t[r]
<1>1. p \in Positions /\ r \in Positions /\ Len(p) \in Nat /\ Len(r) \in Nat
  BY TurnIs DEF IsTree
<1>2. DOMAIN p = 1..Len(p) /\ DOMAIN r = 1..Len(r)
  BY <1>1, TurnIs
<1>3. CASE ForksBefore(p, r)
  <2>1. PICK k \in DOMAIN p \cap DOMAIN r :
            SubSeq(p, 1, k - 1) = SubSeq(r, 1, k - 1) /\ p[k] = Left /\ r[k] = Right
    BY <1>3 DEF ForksBefore
  <2>2. k \in Nat /\ k - 1 \in 0..Len(p) /\ k - 1 \in 0..Len(r) /\ k - 1 <= Len(r)
    BY <1>1, <1>2
  <2> DEFINE f == SubSeq(p, 1, k - 1)
  <2>3. f \in DOMAIN t
    BY <2>2 DEF IsTree
  <2>4. Agree(f, p, k - 1) /\ Agree(f, r, k - 1) /\ Len(f) = k - 1
    BY <1>1, <2>1, <2>2, SubSeqIs
  <2> HIDE DEF f
  <2>5. Under(f, Left, p) /\ Under(f, Right, r)
    BY <1>1, <1>2, <2>1, <2>2, <2>4 DEF Under, Agree
  <2>6. t[p] <= t[f] /\ t[f] < t[r]
    BY <2>3, <2>5 DEF IsSearchTree
  <2>7. t[p] \in Nat /\ t[f] \in Nat /\ t[r] \in Nat
    BY <2>3
  <2> QED
    BY <2>6, <2>7
<1>4. CASE \E k \in DOMAIN p : SubSeq(p, 1, k - 1) = r /\ p[k] = Left
  <2>1. PICK k \in DOMAIN p : SubSeq(p, 1, k - 1) = r /\ p[k] = Left
    BY <1>4
  <2>2. k - 1 \in 0..Len(p) /\ k \in 1..Len(p)
    BY <1>1, <1>2
  <2>3. Len(r) = k - 1 /\ Agree(r, p, k - 1)
    BY <1>1, <2>1, <2>2, SubSeqIs
  <2>4. Under(r, Left, p)
    BY <1>1, <2>1, <2>2, <2>3 DEF Under, Agree
  <2> QED
    BY <2>4 DEF IsSearchTree
<1>5. CASE \E k \in DOMAIN r : SubSeq(r, 1, k - 1) = p /\ r[k] = Right
  <2>1. PICK k \in DOMAIN r : SubSeq(r, 1, k - 1) = p /\ r[k] = Right
    BY <1>5
  <2>2. k - 1 \in 0..Len(r) /\ k \in 1..Len(r)
    BY <1>1, <1>2
  <2>3. Len(p) = k - 1 /\ Agree(p, r, k - 1)
    BY <1>1, <2>1, <2>2, SubSeqIs
  <2>4. Under(p, Right, r)
    BY <1>1, <2>1, <2>2, <2>3 DEF Under, Agree
  <2>5. t[p] < t[r] /\ t[p] \in Nat /\ t[r] \in Nat
    BY <2>4 DEF IsSearchTree
  <2> QED
    BY <2>5
<1> QED
  BY <1>3, <1>4, <1>5 DEF InorderBefore

LEMMA SameOrders ==
    /\ \A p, r : Levels!ForksBefore(p, r) <=> ForksBefore(p, r)
    /\ \A p, r : Levels!InorderBefore(p, r) <=> InorderBefore(p, r)
    /\ \A p, r : Levels!IsPrefix(p, r) <=> IsPrefix(p, r)
    /\ \A s : Levels!ToBag(s) = ToBag(s)
<1>1. \A p, r : Levels!ForksBefore(p, r) <=> ForksBefore(p, r)
  BY DEF Levels!ForksBefore, ForksBefore, Levels!Left, Left, Levels!Right, Right
<1>2. \A p, r : Levels!InorderBefore(p, r) <=> InorderBefore(p, r)
  BY <1>1 DEF Levels!InorderBefore, InorderBefore, Levels!Left, Left, Levels!Right, Right
<1>3. \A p, r : Levels!IsPrefix(p, r) <=> IsPrefix(p, r)
  BY DEF Levels!IsPrefix, IsPrefix
<1>4. \A S : Levels!Cardinality(S) = Cardinality(S)
  BY DEF Levels!Cardinality, Cardinality
<1>5. \A s : Levels!Range(s) = Range(s)
  BY DEF Levels!Range, Range
<1>6. \A s : Levels!ToBag(s) = ToBag(s)
  BY <1>4, <1>5 DEF Levels!ToBag, ToBag
<1> QED
  BY <1>1, <1>2, <1>3, <1>6

\* bst_insert, in tree_level_order.cc and in tree_top_view.cc: whatever the
\* values, the tree is in search order and holds each value as often as it was read.
THEOREM TreesSearchOrder == Spec => []SearchOrder
<1>1. ASSUME Inserts, InsertInv PROVE Levels!SearchOrder
  <2>0. IsTree(tree) /\ tree \in [DOMAIN tree -> Nat] /\ IsSearchTree(tree)
    BY <1>1 DEF InsertInv
  <2>1. \A p, r \in DOMAIN tree : Levels!InorderBefore(p, r) => tree[p] <= tree[r]
    BY <2>0, InorderAscends, SameOrders
  <2>2. ASSUME NEW p \in DOMAIN tree, NEW r \in DOMAIN tree, Levels!IsPrefix(Append(p, Levels!Right), r)
        PROVE  tree[p] < tree[r]
    <3>1. IsPrefix(Append(p, Right), r) /\ p \in Positions /\ r \in Positions
      BY <2>0, <2>2, SameOrders DEF IsTree, Levels!Right, Right
    <3>2. Under(p, Right, r)
      BY <3>1, UnderIs
    <3> QED
      BY <2>0, <3>2 DEF IsSearchTree
  <2>3. Held \in Nat /\ Held <= Len(input) /\ input \in Seq(Nat) /\ Holds(tree, input, Held)
    BY <1>1 DEF InsertInv, Held
  <2>4. Levels!ToBag(tree) = Levels!ToBag(SubSeq(input, 1, Held))
    BY <2>3, HoldsBag, SameOrders
  <2> QED
    BY <2>1, <2>2, <2>4 DEF Levels!SearchOrder, Held
<1>2. (Inserts => InsertInv) => SearchOrder
  BY <1>1 DEF SearchOrder, Inserts
<1> QED
  BY <1>2, InsertSafe, PTL

----------------------------------------------------------------------------
\* The order of a walk by levels.

LEMMA ForkIs ==
    ASSUME NEW p \in Positions, NEW r \in Positions
    PROVE  ForksBefore(p, r) <=>
               \E k \in 1..Len(p) : k <= Len(r) /\ Agree(p, r, k - 1) /\ p[k] = Left /\ r[k] = Right
<1>1. Len(p) \in Nat /\ Len(r) \in Nat /\ DOMAIN p = 1..Len(p) /\ DOMAIN r = 1..Len(r)
  BY TurnIs
<1>2. ASSUME NEW k \in 1..Len(p), k <= Len(r)
      PROVE  SubSeq(p, 1, k - 1) = SubSeq(r, 1, k - 1) <=> Agree(p, r, k - 1)
  <2>1. k - 1 \in 0..Len(p) /\ k - 1 <= Len(r)
    BY <1>1, <1>2
  <2> QED
    BY <2>1, SubSeqAgree
<1>3. \A k : k \in DOMAIN p \cap DOMAIN r <=> k \in 1..Len(p) /\ k <= Len(r)
  BY <1>1
<1> QED
  BY <1>2, <1>3 DEF ForksBefore

LEMMA LevelAsymmetric ==
    ASSUME NEW p \in Positions, NEW r \in Positions, LevelBefore(p, r) PROVE ~LevelBefore(r, p) /\ p # r
<1>1. Len(p) \in Nat /\ Len(r) \in Nat /\ Left # Right
  BY TurnIs DEF Left, Right
<1>2. ASSUME ForksBefore(p, r), ForksBefore(r, p) PROVE FALSE
  <2>1. PICK k \in 1..Len(p) : k <= Len(r) /\ Agree(p, r, k - 1) /\ p[k] = Left /\ r[k] = Right
    BY <1>2, ForkIs
  <2>2. PICK l \in 1..Len(r) : l <= Len(p) /\ Agree(r, p, l - 1) /\ r[l] = Left /\ p[l] = Right
    BY <1>2, ForkIs
  <2>3. k < l \/ l < k \/ k = l
    BY <1>1, <2>1, <2>2
  <2> QED
    BY <1>1, <2>1, <2>2, <2>3 DEF Agree
<1>3. ASSUME ForksBefore(p, r) PROVE p # r
  BY <1>1, <1>3, ForkIs
<1> QED
  BY <1>1, <1>2, <1>3 DEF LevelBefore

LEMMA LevelOfChildren ==
    ASSUME NEW p \in Positions, NEW r \in Positions, LevelBefore(p, r),
           NEW s \in {Left, Right}, NEW side \in {Left, Right}
    PROVE  LevelBefore(Append(p, s), Append(r, side))
<1> DEFINE c == Append(p, s)
<1> DEFINE d == Append(r, side)
<1>1. Len(p) \in Nat /\ Len(r) \in Nat
  BY TurnIs
<1>2. /\ c \in Positions /\ Len(c) = Len(p) + 1 /\ Agree(c, p, Len(p))
      /\ d \in Positions /\ Len(d) = Len(r) + 1 /\ Agree(d, r, Len(r))
  BY AppendIs
<1> HIDE DEF c, d
<1>3. ASSUME Len(p) = Len(r), ForksBefore(p, r) PROVE ForksBefore(c, d)
  <2>1. PICK k \in 1..Len(p) : k <= Len(r) /\ Agree(p, r, k - 1) /\ p[k] = Left /\ r[k] = Right
    BY <1>3, ForkIs
  <2>2. k \in 1..Len(c) /\ k <= Len(d) /\ c[k] = Left /\ d[k] = Right
    BY <1>1, <1>2, <2>1 DEF Agree
  <2>3. Agree(c, d, k - 1)
    BY <1>1, <1>2, <2>1 DEF Agree
  <2> QED
    BY <1>2, <2>2, <2>3, ForkIs
<1> QED
  BY <1>1, <1>2, <1>3 DEF LevelBefore, c, d

LEMMA LevelOfSiblings ==
    ASSUME NEW p \in Positions PROVE LevelBefore(Append(p, Left), Append(p, Right))
<1> DEFINE c == Append(p, Left)
<1> DEFINE d == Append(p, Right)
<1>1. Len(p) \in Nat
  BY TurnIs
<1>2. /\ c \in Positions /\ Len(c) = Len(p) + 1 /\ Agree(c, p, Len(p)) /\ c[Len(p) + 1] = Left
      /\ d \in Positions /\ Len(d) = Len(p) + 1 /\ Agree(d, p, Len(p)) /\ d[Len(p) + 1] = Right
  BY AppendIs
<1> HIDE DEF c, d
<1>3. Len(p) + 1 \in 1..Len(c) /\ Agree(c, d, Len(p) + 1 - 1)
  BY <1>1, <1>2 DEF Agree
<1>4. ForksBefore(c, d)
  BY <1>1, <1>2, <1>3, ForkIs
<1> QED
  BY <1>2, <1>4 DEF LevelBefore, c, d

\* c is a, b, one of them or neither: those that are in S.
TwoOf(c, S, a, b) ==
    /\ c \in Seq(S) /\ Len(c) \in 0..2
    /\ \A k \in 1..Len(c) : c[k] = a \/ c[k] = b
    /\ Len(c) = 2 => c[1] = a /\ c[2] = b
    /\ a \in S => \E k \in 1..Len(c) : c[k] = a
    /\ b \in S => \E k \in 1..Len(c) : c[k] = b

LEMMA TwoAtMost ==
    ASSUME NEW S, NEW a, NEW b, NEW c,
           c = (IF a \in S THEN <<a>> ELSE << >>) \o (IF b \in S THEN <<b>> ELSE << >>)
    PROVE  TwoOf(c, S, a, b)
<1>1. CASE a \in S /\ b \in S
  <2>1. c = <<a>> \o <<b>>
    BY <1>1
  <2>2. <<a>> \in Seq(S) /\ Len(<<a>>) = 1 /\ <<b>> \in Seq(S) /\ Len(<<b>>) = 1 /\ <<a>>[1] = a /\ <<b>>[1] = b
    BY <1>1
  <2> DEFINE d == <<a>>
  <2> DEFINE e == <<b>>
  <2> HIDE DEF d, e
  <2>3. c \in Seq(S) /\ Len(c) = 2 /\ c[1] = a /\ c[2] = b
    <3>1. c = d \o e /\ d \in Seq(S) /\ Len(d) = 1 /\ e \in Seq(S) /\ Len(e) = 1 /\ d[1] = a /\ e[1] = b
      BY <2>1, <2>2 DEF d, e
    <3> QED
      BY <3>1, ConcatProperties
  <2>4. \A k \in 1..2 : k = 1 \/ k = 2
    OBVIOUS
  <2>5. 1 \in 1..2 /\ 2 \in 1..2 /\ 2 \in 0..2
    OBVIOUS
  <2> QED
    BY <2>3, <2>4, <2>5 DEF TwoOf
<1>2. CASE a \in S /\ b \notin S
  <2>1. c = <<a>>
    BY <1>2
  <2> QED
    BY <1>2, <2>1 DEF TwoOf
<1>3. CASE a \notin S /\ b \in S
  <2>1. c = <<b>>
    BY <1>3
  <2> QED
    BY <1>3, <2>1 DEF TwoOf
<1>4. CASE a \notin S /\ b \notin S
  <2>1. c = << >>
    BY <1>4
  <2> QED
    BY <1>4, <2>1 DEF TwoOf
<1> QED
  BY <1>1, <1>2, <1>3, <1>4

LEMMA TwoPlaces ==
    ASSUME NEW d \in Nat, NEW c \in 0..2, NEW k \in 1..c, NEW l \in 1..c, d + k < d + l
    PROVE  k = 1 /\ l = 2 /\ c = 2
OBVIOUS

LEMMA ChildrenAre ==
    ASSUME NEW t, NEW p
    PROVE  LET c == ChildrenOf(t, p)
           IN  /\ c \in Seq(DOMAIN t) /\ Len(c) \in 0..2
               /\ \A k \in 1..Len(c) : \E side \in {Left, Right} : c[k] = Append(p, side)
               /\ Len(c) = 2 => c[1] = Append(p, Left) /\ c[2] = Append(p, Right)
               /\ \A side \in {Left, Right} : Append(p, side) \in DOMAIN t =>
                      \E k \in 1..Len(c) : c[k] = Append(p, side)
<1> DEFINE a == Append(p, Left)
<1> DEFINE b == Append(p, Right)
<1> DEFINE c == ChildrenOf(t, p)
<1>1. c = (IF a \in DOMAIN t THEN <<a>> ELSE << >>) \o (IF b \in DOMAIN t THEN <<b>> ELSE << >>)
  BY DEF ChildrenOf, Child
<1>2. \A side \in {Left, Right} : (side = Left /\ Append(p, side) = a) \/ (side = Right /\ Append(p, side) = b)
  OBVIOUS
<1>3. \E side \in {Left, Right} : a = Append(p, side)
  OBVIOUS
<1>4. \E side \in {Left, Right} : b = Append(p, side)
  OBVIOUS
<1> HIDE DEF a, b, c
<1>9. TwoOf(c, DOMAIN t, a, b)
  BY <1>1, TwoAtMost
<1> QED
  BY <1>2, <1>3, <1>4, <1>9 DEF TwoOf, a, b, c

\* The first m nodes of a have been visited, the rest are in the queue.
Walk(t, a, m) ==
    /\ a \in Seq(DOMAIN t) /\ m \in 0..Len(a)
    /\ DOMAIN t # {} => Len(a) > 0 /\ a[1] = Root
    /\ \A k, l \in 1..Len(a) : k < l => LevelBefore(a[k], a[l])
    /\ \A k \in 1..Len(a) : a[k] = Root \/ \E j_1 \in 1..m, side \in {Left, Right} : a[k] = Append(a[j_1], side)
    /\ \A j_1 \in 1..m, side \in {Left, Right} :
           Append(a[j_1], side) \in DOMAIN t => \E k \in 1..Len(a) : a[k] = Append(a[j_1], side)

LEMMA WalkStarts ==
    ASSUME NEW t, Root \in DOMAIN t PROVE Walk(t, <<Root>>, 0)
<1> DEFINE a == <<Root>>
<1>1. a \in Seq(DOMAIN t) /\ Len(a) = 1 /\ a[1] = Root
  OBVIOUS
<1> HIDE DEF a
<1>2. \A k, l \in 1..1 : ~(k < l)
  OBVIOUS
<1>3. \A k \in 1..1 : k = 1
  OBVIOUS
<1> QED
  BY <1>1, <1>2, <1>3 DEF Walk, a

LEMMA WalkOfNone ==
    ASSUME NEW t, DOMAIN t = {} PROVE Walk(t, << >>, 0)
BY DEF Walk

LEMMA WalkStep ==
    ASSUME NEW t, IsTree(t), NEW a, NEW m, Walk(t, a, m), m < Len(a)
    PROVE  Walk(t, a \o ChildrenOf(t, a[m + 1]), m + 1)
<1> DEFINE h == a[m + 1]
<1> DEFINE c == ChildrenOf(t, h)
<1> DEFINE b == a \o c
<1>1. /\ a \in Seq(DOMAIN t) /\ m \in 0..Len(a) /\ Len(a) \in Nat /\ m \in Nat
      /\ m + 1 \in 1..Len(a) /\ h \in DOMAIN t /\ h \in Positions
  BY DEF Walk, IsTree
<1>2. /\ c \in Seq(DOMAIN t) /\ Len(c) \in 0..2
      /\ \A k \in 1..Len(c) : \E side \in {Left, Right} : c[k] = Append(h, side)
      /\ Len(c) = 2 => c[1] = Append(h, Left) /\ c[2] = Append(h, Right)
      /\ \A side \in {Left, Right} : Append(h, side) \in DOMAIN t =>
             \E k \in 1..Len(c) : c[k] = Append(h, side)
  BY SMTT(20), ChildrenAre
<1> HIDE DEF c
<1>3. /\ b \in Seq(DOMAIN t) /\ Len(b) = Len(a) + Len(c)
      /\ \A k \in 1..Len(a) : b[k] = a[k]
      /\ \A k \in 1..Len(c) : b[Len(a) + k] = c[k]
  BY <1>1, <1>2
<1> HIDE DEF b
<1>4. \A k \in 1..Len(b) : k \in 1..Len(a) \/ \E j_1 \in 1..Len(c) : k = Len(a) + j_1
  <2> SUFFICES ASSUME NEW k \in 1..Len(b), k \notin 1..Len(a) PROVE \E j_1 \in 1..Len(c) : k = Len(a) + j_1
    OBVIOUS
  <2>1. k - Len(a) \in 1..Len(c) /\ k = Len(a) + (k - Len(a))
    BY <1>1, <1>2, <1>3
  <2> QED
    BY <2>1
<1>5. \A k \in 1..Len(a) : k \in 1..Len(b)
  BY <1>1, <1>2, <1>3
<1>6. \A k \in 1..Len(c) : Len(a) + k \in 1..Len(b)
  BY <1>1, <1>2, <1>3
<1>7. ASSUME NEW k \in 1..Len(a), NEW l \in 1..Len(c) PROVE LevelBefore(a[k], c[l])
  <2>1. PICK side \in {Left, Right} : c[l] = Append(h, side)
    BY <1>2
  <2>2. CASE a[k] = Root
    <3>1. Len(c[l]) = Len(h) + 1 /\ Len(h) \in Nat /\ Len(Root) = 0
      BY SMTT(20), <1>1, <2>1, AppendIs, TurnIs, RootIs
    <3> QED
      BY <2>2, <3>1 DEF LevelBefore
  <2>3. CASE \E j_1 \in 1..m, s \in {Left, Right} : a[k] = Append(a[j_1], s)
    <3>1. PICK j_1 \in 1..m, s \in {Left, Right} : a[k] = Append(a[j_1], s)
      BY <2>3
    <3>2. j_1 \in 1..Len(a) /\ j_1 < m + 1
      BY <1>1
    <3>3. LevelBefore(a[j_1], h) /\ a[j_1] \in Positions
      BY <1>1, <3>2 DEF Walk, IsTree
    <3> QED
      BY <1>1, <2>1, <3>1, <3>3, LevelOfChildren
  <2> QED
    BY <2>2, <2>3 DEF Walk
<1>8. ASSUME NEW k \in 1..Len(b), NEW l \in 1..Len(b), k < l PROVE LevelBefore(b[k], b[l])
  <2>1. CASE k \in 1..Len(a) /\ l \in 1..Len(a)
    BY <1>3, <1>8, <2>1 DEF Walk
  <2>2. CASE k \in 1..Len(a) /\ l \notin 1..Len(a)
    BY <1>3, <1>4, <1>7, <2>2
  <2>3. CASE k \notin 1..Len(a)
    <3>1. PICK k_1 \in 1..Len(c) : k = Len(a) + k_1
      BY <1>4, <2>3
    <3>2. l \notin 1..Len(a)
      BY <1>1, <1>8, <3>1
    <3>3. PICK l_1 \in 1..Len(c) : l = Len(a) + l_1
      BY <1>4, <3>2
    <3>4. k_1 = 1 /\ l_1 = 2 /\ Len(c) = 2
      <4>1. Len(a) \in Nat /\ Len(c) \in 0..2 /\ Len(a) + k_1 < Len(a) + l_1
        BY <1>1, <1>2, <1>8, <3>1, <3>3
      <4> QED
        BY <4>1, TwoPlaces
    <3> QED
      <4>1. b[k] = c[1] /\ b[l] = c[2]
        BY <1>3, <3>1, <3>3, <3>4
      <4>2. b[k] = Append(h, Left) /\ b[l] = Append(h, Right)
        BY <1>2, <3>4, <4>1
      <4> QED
        BY <1>1, <4>2, LevelOfSiblings
  <2> QED
    BY <2>1, <2>2, <2>3
<1>9. ASSUME NEW k \in 1..Len(b)
      PROVE  b[k] = Root \/ \E j_1 \in 1..(m + 1), side \in {Left, Right} : b[k] = Append(b[j_1], side)
  <2>0. /\ m + 1 \in 1..(m + 1) /\ b[m + 1] = h
        /\ \A j_1 \in 1..m : j_1 \in 1..(m + 1) /\ b[j_1] = a[j_1]
    BY <1>1, <1>3
  <2>1. CASE k \in 1..Len(a)
    <3>1. a[k] = Root \/ \E j_1 \in 1..m, side \in {Left, Right} : a[k] = Append(a[j_1], side)
      BY <2>1 DEF Walk
    <3> QED
      BY <1>3, <2>0, <2>1, <3>1
  <2>2. CASE k \notin 1..Len(a)
    <3>1. PICK k_1 \in 1..Len(c) : k = Len(a) + k_1
      BY <1>4, <2>2
    <3>2. PICK side \in {Left, Right} : c[k_1] = Append(h, side)
      BY <1>2
    <3>3. b[k] = Append(b[m + 1], side)
      BY <1>3, <2>0, <3>1, <3>2
    <3> QED
      BY <2>0, <3>3
  <2> QED
    BY <2>1, <2>2
<1>10. ASSUME NEW j_1 \in 1..(m + 1), NEW side \in {Left, Right}, Append(b[j_1], side) \in DOMAIN t
       PROVE  \E k \in 1..Len(b) : b[k] = Append(b[j_1], side)
  <2>1. CASE j_1 \in 1..m
    <3>1. b[j_1] = a[j_1]
      BY <1>1, <1>3, <2>1
    <3>2. \E k \in 1..Len(a) : a[k] = Append(a[j_1], side)
      BY <1>10, <2>1, <3>1 DEF Walk
    <3> QED
      BY <1>3, <1>5, <3>1, <3>2
  <2>2. CASE j_1 \notin 1..m
    <3>1. j_1 = m + 1 /\ b[j_1] = h
      BY <1>1, <1>3, <2>2
    <3>2. PICK k_1 \in 1..Len(c) : c[k_1] = Append(h, side)
      BY <1>2, <1>10, <3>1
    <3>3. b[Len(a) + k_1] = Append(h, side)
      BY <1>3, <3>2
    <3> QED
      BY <1>6, <3>1, <3>3
  <2> QED
    BY <2>1, <2>2
<1>11. m + 1 \in 0..Len(b) /\ (DOMAIN t # {} => Len(b) > 0 /\ b[1] = Root)
  <2>1. DOMAIN t # {} => Len(a) > 0 /\ a[1] = Root
    BY DEF Walk
  <2> QED
    BY <1>1, <1>2, <1>3, <2>1
<1> QED
  BY <1>3, <1>8, <1>9, <1>10, <1>11 DEF Walk, b, c

\* A walk that has come to its end has been everywhere.
LEMMA WalkEnds ==
    ASSUME NEW t, IsTree(t), NEW a, Walk(t, a, Len(a))
    PROVE  \A p \in DOMAIN t : \E k \in 1..Len(a) : a[k] = p
<1> DEFINE T == { d \in Nat : \A p \in DOMAIN t : Len(p) = d => \E k \in 1..Len(a) : a[k] = p }
<1>1. 0 \in T
  <2>1. ASSUME NEW p \in DOMAIN t, Len(p) = 0 PROVE \E k \in 1..Len(a) : a[k] = p
    <3>1. p = Root
      BY <2>1, RootIs, SamePosition DEF IsTree, Agree
    <3>2. Len(a) \in Nat /\ Len(a) > 0 /\ a[1] = Root
      BY <2>1 DEF Walk
    <3>3. 1 \in 1..Len(a)
      BY <3>2
    <3> QED
      BY <3>1, <3>2, <3>3
  <2> QED
    BY <2>1
<1>2. ASSUME NEW d \in Nat, d \in T PROVE d + 1 \in T
  <2>1. ASSUME NEW p \in DOMAIN t, Len(p) = d + 1 PROVE \E k \in 1..Len(a) : a[k] = p
    <3> DEFINE f == SubSeq(p, 1, Len(p) - 1)
    <3>1. p \in Positions /\ p # Root
      BY <2>1, RootIs DEF IsTree
    <3>2. p[Len(p)] \in {Left, Right} /\ p = Append(f, p[Len(p)]) /\ Len(p) - 1 \in 0..Len(p)
      BY <2>1, <3>1, IsChild
    <3>3. f \in DOMAIN t /\ Len(f) = d
      BY <2>1, <3>1, <3>2, SubSeqIs DEF IsTree
    <3> HIDE DEF f
    <3>4. PICK k \in 1..Len(a) : a[k] = f
      BY <1>2, <3>3
    <3> QED
      BY <3>2, <3>4 DEF Walk
  <2> QED
    BY <2>1
<1> HIDE DEF T
<1>3. Nat \subseteq T
  BY <1>1, <1>2, Induction
<1>4. ASSUME NEW p \in DOMAIN t PROVE Len(p) \in T
  BY <1>3, TurnIs DEF IsTree
<1> QED
  BY <1>4 DEF T

----------------------------------------------------------------------------
\* tree_level_order.

\* f counts S off.
LEMMA Counted ==
    ASSUME NEW m \in Nat, NEW f, NEW S, \A k \in 1..m : f[k] \in S, \A k, l \in 1..m : f[k] = f[l] => k = l,
           \A x \in S : \E k \in 1..m : f[k] = x
    PROVE  IsFiniteSet(S) /\ Cardinality(S) = m
<1> DEFINE g == [k \in 1..m |-> f[k]]
<1>1. IsFiniteSet(1..m) /\ Cardinality(1..m) = m
  BY FS_Interval
<1>2. g \in [1..m -> S] /\ DOMAIN g = 1..m /\ \A k \in 1..m : g[k] = f[k]
  OBVIOUS
<1> HIDE DEF g
<1>3. g \in Surjection(1..m, S) /\ g \in Injection(1..m, S)
  BY <1>2 DEF Surjection, Injection, IsInjective
<1>4. IsFiniteSet(S)
  BY <1>1, <1>3, FS_Surjection
<1>5. Cardinality(S) = Cardinality(1..m)
  BY <1>1, <1>3, <1>4, FS_Surjection
<1> QED
  BY <1>1, <1>4, <1>5

LEMMA NthVisited ==
    ASSUME NEW t, IsTree(t), NEW a, Walk(t, a, Len(a)), NEW k \in 1..Len(a), NEW p \in DOMAIN t
    PROVE  Cardinality({ r \in DOMAIN t : LevelBefore(r, p) }) = k - 1 <=> p = a[k]
<1>1. Len(a) \in Nat /\ \A l \in 1..Len(a) : a[l] \in DOMAIN t /\ a[l] \in Positions
  BY DEF Walk, IsTree
<1>2. ASSUME NEW l \in 1..Len(a) PROVE Cardinality({ r \in DOMAIN t : LevelBefore(r, a[l]) }) = l - 1
  <2> DEFINE S == { r \in DOMAIN t : LevelBefore(r, a[l]) }
  <2>1. l - 1 \in Nat /\ l \in Nat /\ \A x \in 1..(l - 1) : x \in 1..Len(a) /\ x < l
    BY <1>1
  <2>2. \A x \in 1..(l - 1) : a[x] \in S
    BY <1>1, <2>1 DEF Walk
  <2>3. ASSUME NEW x \in 1..Len(a), NEW y \in 1..Len(a), a[x] = a[y] PROVE x = y
    <3>1. ~(x < y) /\ ~(y < x)
      BY <1>1, <2>3, LevelAsymmetric DEF Walk
    <3> QED
      BY <3>1
  <2>4. ASSUME NEW r \in S PROVE \E x \in 1..(l - 1) : a[x] = r
    <3>1. PICK x \in 1..Len(a) : a[x] = r
      BY WalkEnds
    <3>2. LevelBefore(a[x], a[l])
      BY <3>1
    <3>3. ~(l < x) /\ l # x
      BY <1>1, <3>2, LevelAsymmetric DEF Walk
    <3>4. x \in 1..(l - 1)
      BY <2>1, <3>3
    <3> QED
      BY <3>1, <3>4
  <2>5. \A x, y \in 1..(l - 1) : a[x] = a[y] => x = y
    BY <2>1, <2>3
  <2> HIDE DEF S
  <2>6. \A x \in S : \E y \in 1..(l - 1) : a[y] = x
    BY <2>4
  <2>7. Cardinality(S) = l - 1
    BY <2>1, <2>2, <2>5, <2>6, Counted
  <2> QED
    BY <2>7 DEF S
<1>3. PICK l \in 1..Len(a) : a[l] = p
  BY WalkEnds
<1>4. Cardinality({ r \in DOMAIN t : LevelBefore(r, p) }) = l - 1
  BY <1>2, <1>3
<1>5. Cardinality({ r \in DOMAIN t : LevelBefore(r, a[k]) }) = k - 1
  BY <1>2
<1>6. l - 1 = k - 1 => l = k
  BY <1>1
<1> QED
  BY <1>3, <1>4, <1>5, <1>6

LEMMA AllVisited ==
    ASSUME NEW t, IsTree(t), NEW a, Walk(t, a, Len(a))
    PROVE  Cardinality(DOMAIN t) = Len(a)
<1>1. Len(a) \in Nat /\ \A l \in 1..Len(a) : a[l] \in DOMAIN t /\ a[l] \in Positions
  BY DEF Walk, IsTree
<1>2. ASSUME NEW x \in 1..Len(a), NEW y \in 1..Len(a), a[x] = a[y] PROVE x = y
  <2>1. ~(x < y) /\ ~(y < x)
    BY <1>1, <1>2, LevelAsymmetric DEF Walk
  <2> QED
    BY <2>1
<1>3. \A x \in DOMAIN t : \E k \in 1..Len(a) : a[k] = x
  BY WalkEnds
<1>4. \A x, y \in 1..Len(a) : a[x] = a[y] => x = y
  BY <1>2
<1> QED
  BY <1>1, <1>3, <1>4, Counted

\* What a has after its first m members.
Waits(w, S, a, m) ==
    /\ w \in Seq(S)
    /\ Len(w) = Len(a) - m
    /\ \A k \in 1..Len(w) : w[k] = a[m + k]

LEMMA QueueStep ==
    ASSUME NEW S, NEW a \in Seq(S), NEW m \in 0..Len(a), NEW w, Waits(w, S, a, m), w # << >>, NEW c \in Seq(S)
    PROVE  /\ m < Len(a) /\ Head(w) = a[m + 1]
           /\ Waits(Tail(w) \o c, S, a \o c, m + 1)
<1>1. w \in Seq(S) /\ Len(w) = Len(a) - m /\ Len(a) \in Nat /\ Len(w) \in Nat /\ Len(c) \in Nat
  BY DEF Waits
<1>2. Len(w) > 0
  BY <1>1, EmptySeq
<1>3. Head(w) = w[1] /\ m < Len(a) /\ 1 \in 1..Len(w)
  BY <1>1, <1>2
<1> DEFINE u == Tail(w)
<1>4. u \in Seq(S) /\ Len(u) = Len(w) - 1 /\ \A k \in 1..Len(u) : u[k] = w[k + 1]
  BY <1>1, <1>2, HeadTailProperties
<1> HIDE DEF u
<1> DEFINE d == u \o c
<1> DEFINE b == a \o c
<1>5. /\ d \in Seq(S) /\ Len(d) = Len(u) + Len(c)
      /\ \A k \in 1..(Len(u) + Len(c)) : d[k] = IF k <= Len(u) THEN u[k] ELSE c[k - Len(u)]
  BY <1>4, ConcatProperties
<1>6. /\ b \in Seq(S) /\ Len(b) = Len(a) + Len(c)
      /\ \A k \in 1..(Len(a) + Len(c)) : b[k] = IF k <= Len(a) THEN a[k] ELSE c[k - Len(a)]
  BY ConcatProperties
<1> HIDE DEF d, b
<1>7. ASSUME NEW k \in 1..Len(d) PROVE d[k] = b[m + 1 + k]
  <2>1. k \in 1..(Len(u) + Len(c)) /\ m + 1 + k \in 1..(Len(a) + Len(c))
    BY <1>1, <1>4, <1>5
  <2>2. CASE k <= Len(u)
    <3>1. k \in 1..Len(u) /\ k + 1 \in 1..Len(w) /\ m + 1 + k <= Len(a) /\ m + (k + 1) = m + 1 + k
      BY <1>1, <1>4, <2>1, <2>2
    <3> QED
      BY <1>4, <1>5, <1>6, <2>1, <2>2, <3>1 DEF Waits
  <2>3. CASE ~(k <= Len(u))
    <3>1. ~(m + 1 + k <= Len(a)) /\ k - Len(u) = m + 1 + k - Len(a)
      BY <1>1, <1>4, <2>1, <2>3
    <3> QED
      BY <1>5, <1>6, <2>1, <2>3, <3>1
  <2> QED
    BY <2>2, <2>3
<1>8. Len(d) = Len(b) - (m + 1)
  BY <1>1, <1>4, <1>5, <1>6
<1> QED
  BY <1>3, <1>5, <1>7, <1>8 DEF Waits, d, b, u

LEMMA AppendMore ==
    ASSUME NEW S, NEW m \in Nat, NEW v \in [1..(m + 1) -> S], NEW o \in [1..m -> S], \A k \in 1..m : o[k] = v[k]
    PROVE  Append(o, v[m + 1]) = v
<1>1. o \in Seq(S) /\ Len(o) = m /\ v \in Seq(S) /\ Len(v) = m + 1 /\ v[m + 1] \in S
  OBVIOUS
<1> DEFINE w == Append(o, v[m + 1])
<1>2. w \in Seq(S) /\ Len(w) = m + 1 /\ w[m + 1] = v[m + 1] /\ \A k \in 1..m : w[k] = o[k]
  BY <1>1, AppendProperties
<1> HIDE DEF w
<1>3. \A k \in 1..(m + 1) : k \in 1..m \/ k = m + 1
  OBVIOUS
<1>4. \A k \in 1..(m + 1) : w[k] = v[k]
  BY <1>2, <1>3
<1>5. w = v
  BY <1>1, <1>2, <1>4, SeqEqual
<1> QED
  BY <1>5 DEF w

\* Of a walk of m nodes: the queue holds what it has still to visit, the output
\* what it has visited.
LevelsWalk ==
    \E a, m :
        /\ Walk(tree, a, m) /\ Waits(queue, DOMAIN tree, a, m)
        /\ out = [k \in 1..m |-> tree[a[k]]]
        /\ pc = "done" => m = Len(a)

\* The inductive invariant of tree_level_order.
LevelsInv ==
    /\ InsertInv
    /\ pc \in {"read", "insert"} => queue = << >> /\ out = << >>
    /\ pc \in {"view", "done"} => LevelsWalk

LEMMA SameLevels ==
    /\ \A t, p : Levels!ChildrenOf(t, p) = ChildrenOf(t, p)
    /\ \A p, r : Levels!LevelBefore(p, r) <=> LevelBefore(p, r)
    /\ \A S : Levels!Cardinality(S) = Cardinality(S)
    /\ Levels!EmptyTree = [p \in {} |-> {}] /\ Levels!Root = Root
<1>1. \A t, p : Levels!ChildrenOf(t, p) = ChildrenOf(t, p)
  BY DEF Levels!ChildrenOf, Levels!Child, ChildrenOf, Child, Levels!Left, Left, Levels!Right, Right
<1>2. \A p, r : Levels!LevelBefore(p, r) <=> LevelBefore(p, r)
  BY SameOrders DEF Levels!LevelBefore, LevelBefore
<1>3. \A S : Levels!Cardinality(S) = Cardinality(S)
  BY DEF Levels!Cardinality, Cardinality
<1> QED
  BY <1>1, <1>2, <1>3 DEF Levels!EmptyTree, Levels!Root, Root

LEMMA LevelsInvStep ==
    ASSUME program = "levels", LevelsInv, InsertInv', Levels!Next \/ UNCHANGED Levels!vars
    PROVE  LevelsInv'
<1>1. CASE Levels!Insert /\ UNCHANGED <<queue, out>>
  <2>1. pc \in {"read", "insert"} /\ pc' \in {"read", "insert"}
    BY <1>1 DEF Levels!Insert, Levels!MakeRoot, Levels!CallInsert, Levels!Descend, Levels!Attach
  <2> QED
    BY <1>1, <2>1 DEF LevelsInv
<1>2. CASE Levels!StartBfs
  <2>1. /\ pc = "read" /\ pc' = "view" /\ UNCHANGED <<tree, out>>
        /\ queue' = IF tree = Levels!EmptyTree THEN << >> ELSE <<Root>>
        /\ out = << >>
    BY <1>2, SameLevels DEF Levels!StartBfs, Levels!StartView, LevelsInv
  <2>2. /\ taken = 0 <=> DOMAIN tree = {}
        /\ taken > 0 => Root \in DOMAIN tree
        /\ taken \in Nat /\ tree \in [DOMAIN tree -> Nat]
    BY DEF LevelsInv, InsertInv
  <2>3. CASE DOMAIN tree = {}
    <3>1. tree = Levels!EmptyTree
      BY <2>2, <2>3, SameLevels
    <3>2. Walk(tree, << >>, 0) /\ Waits(<< >>, DOMAIN tree, << >>, 0) /\ << >> = [k \in 1..0 |-> tree[<< >>[k]]]
      BY <2>3, WalkOfNone DEF Waits
    <3>3. LevelsWalk'
      BY <2>1, <3>1, <3>2 DEF LevelsWalk
    <3> QED
      BY <2>1, <3>3 DEF LevelsInv
  <2>4. CASE DOMAIN tree # {}
    <3>1. tree # Levels!EmptyTree /\ Root \in DOMAIN tree
      BY <2>2, <2>4, SameLevels
    <3> DEFINE a == <<Root>>
    <3>2. Walk(tree, a, 0)
      BY <3>1, WalkStarts
    <3>3. Waits(a, DOMAIN tree, a, 0)
      BY <3>1 DEF Waits
    <3>4. << >> = [k \in 1..0 |-> tree[a[k]]]
      OBVIOUS
    <3>5. queue' = a /\ out' = << >> /\ tree' = tree /\ pc' # "done"
      BY <2>1, <3>1
    <3> HIDE DEF a
    <3>6. LevelsWalk'
      BY <3>2, <3>3, <3>4, <3>5 DEF LevelsWalk
    <3> QED
      BY <2>1, <3>6 DEF LevelsInv
  <2> QED
    BY <2>3, <2>4
<1>3. CASE Levels!PrintNode
  <2>1. /\ pc = "view" /\ queue # << >> /\ out' = Append(out, tree[Head(queue)])
        /\ queue' = Tail(queue) \o ChildrenOf(tree, Head(queue))
        /\ UNCHANGED <<tree, pc>>
    BY <1>3, SameLevels DEF Levels!PrintNode, Levels!insertVars
  <2>2. PICK a, m : /\ Walk(tree, a, m) /\ Waits(queue, DOMAIN tree, a, m)
                    /\ out = [k \in 1..m |-> tree[a[k]]]
    BY <2>1 DEF LevelsInv, LevelsWalk
  <2>3. IsTree(tree) /\ a \in Seq(DOMAIN tree) /\ m \in 0..Len(a)
    BY <2>2 DEF LevelsInv, InsertInv, Walk
  <2> DEFINE c == ChildrenOf(tree, a[m + 1])
  <2>4. c \in Seq(DOMAIN tree)
    BY ChildrenAre
  <2>5. m < Len(a) /\ Head(queue) = a[m + 1] /\ Waits(Tail(queue) \o c, DOMAIN tree, a \o c, m + 1)
    BY <2>1, <2>2, <2>3, <2>4, QueueStep
  <2>6. Walk(tree, a \o c, m + 1)
    BY <2>2, <2>3, <2>5, WalkStep
  <2>7. m \in Nat /\ Len(a) \in Nat /\ \A k \in 1..(m + 1) : (a \o c)[k] = a[k]
    <3>1. /\ Len(a) \in Nat /\ m \in Nat /\ Len(c) \in Nat
          /\ \A k \in 1..(Len(a) + Len(c)) : (a \o c)[k] = IF k <= Len(a) THEN a[k] ELSE c[k - Len(a)]
      BY <2>3, <2>4, ConcatProperties
    <3>2. \A k \in 1..(m + 1) : k \in 1..(Len(a) + Len(c)) /\ k <= Len(a)
      BY <2>5, <3>1
    <3> HIDE DEF c
    <3> QED
      BY <3>1, <3>2
  <2> DEFINE b == a \o c
  <2>8. out' = [k \in 1..(m + 1) |-> tree[b[k]]]
    <3> DEFINE o == [k \in 1..m |-> tree[a[k]]]
    <3> DEFINE v == [k \in 1..(m + 1) |-> tree[b[k]]]
    <3> HIDE DEF b, c
    <3>1. tree \in [DOMAIN tree -> Nat] /\ \A k \in 1..(m + 1) : b[k] = a[k] /\ a[k] \in DOMAIN tree
      BY SMTT(20), <2>3, <2>5, <2>7 DEF LevelsInv, InsertInv, b
    <3>2. \A k \in 1..m : k \in 1..(m + 1)
      BY <2>7
    <3>3. /\ o \in [1..m -> Nat] /\ v \in [1..(m + 1) -> Nat] /\ v[m + 1] = tree[a[m + 1]]
          /\ \A k \in 1..m : o[k] = v[k]
      BY <2>7, <3>1, <3>2
    <3> HIDE DEF o, v
    <3>7. Append(o, tree[a[m + 1]]) = v
      BY <2>7, <3>3, AppendMore
    <3> QED
      BY <2>1, <2>2, <2>5, <3>7 DEF o, v
  <2>9. queue' = Tail(queue) \o c /\ tree' = tree /\ pc' # "done"
    BY <2>1, <2>5
  <2> HIDE DEF c
  <2>10. LevelsWalk'
    BY <2>5, <2>6, <2>8, <2>9 DEF LevelsWalk
  <2> QED
    BY <2>1, <2>10 DEF LevelsInv
<1>4. CASE Levels!Exit
  <2>1. pc = "view" /\ queue = << >> /\ pc' = "done" /\ UNCHANGED <<tree, queue, out>>
    BY <1>4 DEF Levels!Exit
  <2>2. PICK a, m : /\ Walk(tree, a, m) /\ Waits(queue, DOMAIN tree, a, m)
                    /\ out = [k \in 1..m |-> tree[a[k]]]
    BY <2>1 DEF LevelsInv, LevelsWalk
  <2>3. m = Len(a)
    BY <2>1, <2>2 DEF Waits, Walk
  <2>4. LevelsWalk'
    BY <2>1, <2>2, <2>3 DEF LevelsWalk
  <2> QED
    BY <2>1, <2>4 DEF LevelsInv
<1>5. CASE UNCHANGED <<input, taken, at, tree, pc, queue, out>>
  <2>1. LevelsWalk' <=> LevelsWalk
    BY <1>5 DEF LevelsWalk
  <2> QED
    BY <1>5, <2>1 DEF LevelsInv
<1> QED
  BY <1>1, <1>2, <1>3, <1>4, <1>5 DEF Levels!Next, Levels!Finished, Levels!vars, Levels!insertVars

LEMMA LevelsAreOut == LevelsInv => Levels!OutputIsLevels
<1> SUFFICES ASSUME LevelsInv, pc = "done"
             PROVE  out = [k \in 1..Levels!Cardinality(DOMAIN tree) |-> tree[Levels!Nth(k)]]
  BY DEF Levels!OutputIsLevels
<1>1. PICK a : Walk(tree, a, Len(a)) /\ out = [k \in 1..Len(a) |-> tree[a[k]]]
  BY DEF LevelsInv, LevelsWalk
<1>2. IsTree(tree) /\ \A k \in 1..Len(a) : a[k] \in DOMAIN tree
  BY <1>1 DEF LevelsInv, InsertInv, Walk
<1>3. Levels!Cardinality(DOMAIN tree) = Len(a)
  BY <1>1, <1>2, AllVisited, SameLevels
<1>4. ASSUME NEW k \in 1..Len(a) PROVE Levels!Nth(k) = a[k]
  <2>1. \A p : Levels!Cardinality({ r \in DOMAIN tree : Levels!LevelBefore(r, p) }) =
                   Cardinality({ r \in DOMAIN tree : LevelBefore(r, p) })
    BY SameLevels
  <2>2. \A p \in DOMAIN tree :
            Levels!Cardinality({ r \in DOMAIN tree : Levels!LevelBefore(r, p) }) = k - 1 <=> p = a[k]
    <3>1. ASSUME NEW p \in DOMAIN tree
          PROVE  Cardinality({ r \in DOMAIN tree : LevelBefore(r, p) }) = k - 1 <=> p = a[k]
      BY <1>1, <1>2, NthVisited
    <3> DEFINE C(p) == Cardinality({ r \in DOMAIN tree : LevelBefore(r, p) })
    <3> DEFINE D(p) == Levels!Cardinality({ r \in DOMAIN tree : Levels!LevelBefore(r, p) })
    <3>2. \A p : C(p) = D(p)
      BY <2>1
    <3>3. \A p \in DOMAIN tree : C(p) = k - 1 <=> p = a[k]
      BY <3>1
    <3> HIDE DEF C, D
    <3>4. \A p \in DOMAIN tree : D(p) = k - 1 <=> p = a[k]
      BY <3>2, <3>3
    <3> QED
      BY <3>4 DEF D
  <2>3. a[k] \in DOMAIN tree
    BY <1>2
  <2> QED
    BY <2>2, <2>3 DEF Levels!Nth
<1> QED
  BY <1>1, <1>3, <1>4

\* operator<< of tree_level_order.cc prints every node once, level by level
\* and each level from left to right.
THEOREM TreesOutputIsLevels == Spec => []OutputIsLevels
<1> DEFINE Inv == program = "levels" => LevelsInv
<1>1. Init => Inv
  <2>1. ASSUME Init, program = "levels" PROVE LevelsInv
    <3>1. Levels!Init
      BY <2>1, OneStarts
    <3> QED
      BY <3>1, InsertsStart DEF Levels!Init, LevelsInv, Levels!InsertInit
  <2> QED
    BY <2>1
<1>2. Inv /\ [Next]_vars /\ (Inserts => InsertInv)' => Inv'
  <2>1. ASSUME Inv, [Next]_vars, (Inserts => InsertInv)', program' = "levels" PROVE LevelsInv'
    <3>1. program = "levels" /\ LevelsInv /\ InsertInv' /\ (Levels!Next \/ UNCHANGED Levels!vars)
      BY <2>1, OneRuns DEF Inserts
    <3> QED
      BY <3>1, LevelsInvStep
  <2> QED
    BY <2>1
<1>3. Inv => OutputIsLevels
  BY LevelsAreOut DEF OutputIsLevels
<1> QED
  BY <1>1, <1>2, <1>3, InsertSafe, PTL DEF Spec

----------------------------------------------------------------------------
\* tree_top_view.

Turns(p, side) == { k \in DOMAIN p : p[k] = side }

Column(p) == Cardinality(Turns(p, Right)) - Cardinality(Turns(p, Left))

LEMMA TurnsAre ==
    ASSUME NEW p \in Positions, NEW side \in {Left, Right}, NEW s \in {Left, Right}
    PROVE  /\ IsFiniteSet(Turns(p, side)) /\ Cardinality(Turns(p, side)) \in Nat
           /\ Cardinality(Turns(Append(p, s), side)) = Cardinality(Turns(p, side)) + (IF s = side THEN 1 ELSE 0)
<1>1. DOMAIN p = 1..Len(p) /\ Len(p) \in Nat
  BY TurnIs
<1>2. IsFiniteSet(Turns(p, side)) /\ Cardinality(Turns(p, side)) \in Nat
  <2>1. IsFiniteSet(1..Len(p)) /\ Turns(p, side) \in SUBSET (1..Len(p))
    BY <1>1, FS_Interval DEF Turns
  <2> QED
    BY <2>1, FS_Subset, FS_CardinalityType
<1> DEFINE d == Append(p, s)
<1>3. d \in Positions /\ Len(d) = Len(p) + 1 /\ d[Len(p) + 1] = s /\ Agree(d, p, Len(p))
  BY AppendIs
<1>4. DOMAIN d = 1..(Len(p) + 1)
  BY <1>3, TurnIs
<1> HIDE DEF d
<1>5. \A k : k \in 1..(Len(p) + 1) <=> k \in 1..Len(p) \/ k = Len(p) + 1
  BY <1>1
<1>6. \A k \in 1..Len(p) : d[k] = p[k]
  BY <1>3 DEF Agree
<1>7. Len(p) + 1 \notin Turns(p, side)
  BY <1>1 DEF Turns
<1>8. CASE s = side
  <2>1. \A k : k \in Turns(d, side) <=> k \in Turns(p, side) \/ k = Len(p) + 1
    BY <1>1, <1>3, <1>4, <1>5, <1>6, <1>8 DEF Turns
  <2>2. Turns(d, side) = Turns(p, side) \cup {Len(p) + 1}
    BY <2>1
  <2> QED
    BY <1>2, <1>7, <1>8, <2>2, FS_AddElement DEF d
<1>9. CASE s # side
  <2>1. \A k : k \in Turns(d, side) <=> k \in Turns(p, side)
    BY <1>1, <1>3, <1>4, <1>5, <1>6, <1>9 DEF Turns
  <2>2. Turns(d, side) = Turns(p, side)
    BY <2>1
  <2> QED
    BY <1>2, <1>9, <2>2 DEF d
<1> QED
  BY <1>2, <1>8, <1>9

LEMMA ColumnIs ==
    ASSUME NEW p \in Positions
    PROVE  /\ Column(p) \in Int
           /\ Column(Append(p, Left)) = Column(p) - 1
           /\ Column(Append(p, Right)) = Column(p) + 1
<1>1. Left # Right
  BY DEF Left, Right
<1>2. /\ Cardinality(Turns(p, Left)) \in Nat /\ Cardinality(Turns(p, Right)) \in Nat
      /\ Cardinality(Turns(Append(p, Left), Left)) = Cardinality(Turns(p, Left)) + 1
      /\ Cardinality(Turns(Append(p, Left), Right)) = Cardinality(Turns(p, Right)) + 0
      /\ Cardinality(Turns(Append(p, Right), Left)) = Cardinality(Turns(p, Left)) + 0
      /\ Cardinality(Turns(Append(p, Right), Right)) = Cardinality(Turns(p, Right)) + 1
  BY <1>1, TurnsAre
<1> QED
  BY <1>2 DEF Column

LEMMA ColumnOfRoot == Column(Root) = 0
<1>1. Turns(Root, Left) = {} /\ Turns(Root, Right) = {}
  BY DEF Turns, Root
<1> QED
  BY <1>1, FS_EmptySet DEF Column

LEMMA SameColumns ==
    /\ \A p : TopView!Column(p) = Column(p)
    /\ \A p, r : TopView!LevelBefore(p, r) <=> LevelBefore(p, r)
    /\ \A S : TopView!Cardinality(S) = Cardinality(S)
    /\ TopView!EmptyTree = [p \in {} |-> {}] /\ TopView!Root = Root /\ TopView!Left = Left
    /\ \A t, p : TopView!ChildrenOf(t, p) = ChildrenOf(t, p)
<1>1. \A S : TopView!Cardinality(S) = Cardinality(S)
  BY DEF TopView!Cardinality, Cardinality
<1>2. \A p : TopView!Column(p) = Column(p)
  BY <1>1 DEF TopView!Column, Column, Turns, TopView!Left, Left, TopView!Right, Right
<1>3. \A p, r : TopView!ForksBefore(p, r) <=> ForksBefore(p, r)
  BY DEF TopView!ForksBefore, ForksBefore, TopView!Left, Left, TopView!Right, Right
<1>4. \A p, r : TopView!LevelBefore(p, r) <=> LevelBefore(p, r)
  BY <1>3 DEF TopView!LevelBefore, LevelBefore
<1>5. \A t, p : TopView!ChildrenOf(t, p) = ChildrenOf(t, p)
  BY DEF TopView!ChildrenOf, TopView!Child, ChildrenOf, Child, TopView!Left, Left, TopView!Right, Right
<1> QED
  BY <1>1, <1>2, <1>4, <1>5 DEF TopView!EmptyTree, TopView!Root, Root, TopView!Left, Left

\* Nodes with their columns.
Placed(a) == [k \in 1..Len(a) |-> <<a[k], Column(a[k])>>]

LEMMA PlacedIs ==
    ASSUME NEW S, S \subseteq Positions, NEW a \in Seq(S), NEW c \in Seq(S)
    PROVE  /\ Placed(a) \in Seq(S \X Int) /\ Len(Placed(a)) = Len(a)
           /\ \A k \in 1..Len(a) : Placed(a)[k] = <<a[k], Column(a[k])>>
           /\ Placed(a \o c) = Placed(a) \o Placed(c)
<1>1. \A s \in Seq(S) : /\ Placed(s) \in Seq(S \X Int) /\ Len(Placed(s)) = Len(s)
                        /\ \A k \in 1..Len(s) : Placed(s)[k] = <<s[k], Column(s[k])>>
  <2> SUFFICES ASSUME NEW s \in Seq(S)
               PROVE  /\ Placed(s) \in Seq(S \X Int) /\ Len(Placed(s)) = Len(s)
                      /\ \A k \in 1..Len(s) : Placed(s)[k] = <<s[k], Column(s[k])>>
    OBVIOUS
  <2>1. Len(s) \in Nat /\ \A k \in 1..Len(s) : s[k] \in S /\ Column(s[k]) \in Int
    BY ColumnIs
  <2>2. Placed(s) \in [1..Len(s) -> S \X Int]
    BY <2>1 DEF Placed
  <2> QED
    BY <2>1, <2>2 DEF Placed
<1> DEFINE b == a \o c
<1>2. /\ b \in Seq(S) /\ Len(b) = Len(a) + Len(c)
      /\ \A k \in 1..(Len(a) + Len(c)) : b[k] = IF k <= Len(a) THEN a[k] ELSE c[k - Len(a)]
  BY ConcatProperties
<1> DEFINE x == Placed(a)
<1> DEFINE y == Placed(c)
<1> DEFINE d == x \o y
<1>3. /\ d \in Seq(S \X Int) /\ Len(d) = Len(a) + Len(c)
      /\ \A k \in 1..(Len(a) + Len(c)) : d[k] = IF k <= Len(a) THEN Placed(a)[k] ELSE Placed(c)[k - Len(a)]
  <2>1. x \in Seq(S \X Int) /\ Len(x) = Len(a) /\ y \in Seq(S \X Int) /\ Len(y) = Len(c)
    BY <1>1
  <2> HIDE DEF x, y
  <2>2. /\ d \in Seq(S \X Int) /\ Len(d) = Len(x) + Len(y)
        /\ \A k \in 1..(Len(x) + Len(y)) : d[k] = IF k <= Len(x) THEN x[k] ELSE y[k - Len(x)]
    BY <2>1, ConcatProperties
  <2> QED
    BY <2>1, <2>2 DEF x, y
<1> HIDE DEF b, d
<1>4. Len(a) \in Nat /\ Len(c) \in Nat
  OBVIOUS
<1>5. \A k \in 1..(Len(a) + Len(c)) : IF k <= Len(a) THEN k \in 1..Len(a) ELSE k - Len(a) \in 1..Len(c)
  BY <1>4
<1>6. \A k \in 1..(Len(a) + Len(c)) : d[k] = Placed(b)[k]
  <2> SUFFICES ASSUME NEW k \in 1..(Len(a) + Len(c)) PROVE d[k] = Placed(b)[k]
    OBVIOUS
  <2>1. Placed(b)[k] = <<b[k], Column(b[k])>>
    BY <1>1, <1>2
  <2>2. CASE k <= Len(a)
    <3>1. k \in 1..Len(a) /\ d[k] = Placed(a)[k] /\ b[k] = a[k]
      BY <1>2, <1>3, <1>5, <2>2
    <3>2. Placed(a)[k] = <<a[k], Column(a[k])>>
      BY <1>1, <3>1
    <3> QED
      BY <2>1, <3>1, <3>2
  <2>3. CASE ~(k <= Len(a))
    <3> DEFINE l == k - Len(a)
    <3>1. l \in 1..Len(c) /\ d[k] = Placed(c)[l] /\ b[k] = c[l]
      BY <1>2, <1>3, <1>5, <2>3
    <3> HIDE DEF l
    <3>2. Placed(c)[l] = <<c[l], Column(c[l])>>
      BY <1>1, <3>1
    <3> QED
      BY <2>1, <3>1, <3>2
  <2> QED
    BY <2>2, <2>3
<1>7. Placed(b) = d
  BY <1>1, <1>2, <1>3, <1>6, SeqEqual
<1> QED
  BY <1>1, <1>7 DEF b, d

LEMMA LastOfChild ==
    ASSUME NEW p \in Positions, NEW side \in {Left, Right} PROVE TopView!Last(Append(p, side)) = side
<1>1. Len(Append(p, side)) = Len(p) + 1 /\ Append(p, side)[Len(p) + 1] = side
  BY AppendIs
<1> QED
  BY <1>1 DEF TopView!Last

LEMMA ChildColumnsAre ==
    ASSUME IsTree(tree), NEW p \in DOMAIN tree
    PROVE  TopView!ChildColumns(p, Column(p)) = Placed(ChildrenOf(tree, p))
<1> DEFINE c == ChildrenOf(tree, p)
<1>1. p \in Positions
  BY DEF IsTree
<1>2. c \in Seq(DOMAIN tree) /\ \A k \in 1..Len(c) : \E side \in {Left, Right} : c[k] = Append(p, side)
  BY ChildrenAre
<1>3. TopView!ChildColumns(p, Column(p)) =
          [k \in DOMAIN c |-> <<c[k], IF TopView!Last(c[k]) = Left THEN Column(p) - 1 ELSE Column(p) + 1>>]
  BY SameColumns DEF TopView!ChildColumns
<1> HIDE DEF c
<1>4. DOMAIN c = 1..Len(c)
  BY <1>2
<1>5. ASSUME NEW k \in 1..Len(c)
      PROVE  Column(c[k]) = IF TopView!Last(c[k]) = Left THEN Column(p) - 1 ELSE Column(p) + 1
  <2>1. PICK side \in {Left, Right} : c[k] = Append(p, side)
    BY <1>2
  <2>2. TopView!Last(c[k]) = side
    BY <1>1, <2>1, LastOfChild
  <2>3. Left # Right
    BY DEF Left, Right
  <2> QED
    BY <1>1, <2>1, <2>2, <2>3, ColumnIs
<1> QED
  BY <1>3, <1>4, <1>5 DEF Placed, c

\* The k-th node of a walk is the first of its column.
FirstOf(a, k, c) == Column(a[k]) = c /\ \A l \in 1..(k - 1) : Column(a[l]) # c

\* What the range, the left and the right nodes are when m nodes have been visited.
Seen(a, m) ==
    /\ range \in [first : Int, second : Int] /\ range.first <= 0 /\ 0 <= range.second
    /\ \A k \in 1..m : Column(a[k]) \in range.first..range.second
    /\ left_nodes \in Seq(Nat) /\ Len(left_nodes) = 0 - range.first
    /\ right_nodes \in Seq(Nat) /\ Len(right_nodes) = range.second
    /\ \A c \in range.first..(-1) :
           \E k \in 1..m : FirstOf(a, k, c) /\ left_nodes[c - range.first + 1] = tree[a[k]]
    /\ \A c \in 1..range.second :
           \E k \in 1..m : FirstOf(a, k, c) /\ right_nodes[c] = tree[a[k]]

\* The same for tree_top_view, with what is seen of the columns.
ViewWalk ==
    \E a, m :
        /\ Walk(tree, a, m) /\ Waits(queue, (DOMAIN tree) \X Int, Placed(a), m)
        /\ Seen(a, m)
        /\ pc = "done" =>
               /\ m = Len(a)
               /\ tree # TopView!EmptyTree => out = left_nodes \o <<tree[Root]>> \o right_nodes

\* The inductive invariant of tree_top_view.
ViewInv ==
    /\ InsertInv
    /\ pc \in {"read", "insert"} =>
           queue = << >> /\ range = [first |-> 0, second |-> 0] /\ left_nodes = << >> /\ right_nodes = << >>
    /\ pc \in {"view", "done"} => ViewWalk

----------------------------------------------------------------------------

LEMMA ViewStarts ==
    ASSUME ViewInv, InsertInv', TopView!StartBfs PROVE ViewInv'
<1>1. /\ pc = "read" /\ pc' = "view" /\ UNCHANGED <<tree, range, left_nodes, right_nodes>>
      /\ queue' = IF tree = TopView!EmptyTree THEN << >> ELSE <<<<Root, 0>>>>
      /\ range = [first |-> 0, second |-> 0] /\ left_nodes = << >> /\ right_nodes = << >>
  BY SameColumns DEF TopView!StartBfs, TopView!StartView, ViewInv
<1>2. /\ taken = 0 <=> DOMAIN tree = {}
      /\ taken > 0 => Root \in DOMAIN tree
      /\ taken \in Nat /\ tree \in [DOMAIN tree -> Nat]
  BY DEF ViewInv, InsertInv
<1>3. \A a : Seen(a, 0)
  <2>1. range.first = 0 /\ range.second = 0 /\ range \in [first : Int, second : Int]
    BY <1>1
  <2> QED
    BY <1>1, <2>1 DEF Seen
<1>4. CASE DOMAIN tree = {}
  <2>1. tree = TopView!EmptyTree
    BY <1>2, <1>4, SameColumns
  <2>2. Placed(<< >>) = << >>
    BY DEF Placed
  <2>3. Walk(tree, << >>, 0) /\ Waits(<< >>, (DOMAIN tree) \X Int, Placed(<< >>), 0)
    BY <1>4, <2>2, WalkOfNone DEF Waits
  <2>4. ViewWalk'
    BY <1>1, <1>3, <2>1, <2>3 DEF ViewWalk, Seen
  <2> QED
    BY <1>1, <2>4 DEF ViewInv
<1>5. CASE DOMAIN tree # {}
  <2>1. tree # TopView!EmptyTree /\ Root \in DOMAIN tree
    BY <1>2, <1>5, SameColumns
  <2> DEFINE a == <<Root>>
  <2>2. Walk(tree, a, 0)
    BY <2>1, WalkStarts
  <2>3. Placed(a) = <<<<Root, 0>>>>
    BY ColumnOfRoot DEF Placed
  <2>4. Waits(<<<<Root, 0>>>>, (DOMAIN tree) \X Int, <<<<Root, 0>>>>, 0)
    BY <2>1 DEF Waits
  <2>5. queue' = Placed(a) /\ Waits(Placed(a), (DOMAIN tree) \X Int, Placed(a), 0)
    BY <1>1, <2>1, <2>3, <2>4
  <2> HIDE DEF a
  <2>6. ViewWalk'
    BY <1>1, <1>3, <2>2, <2>5 DEF ViewWalk, Seen
  <2> QED
    BY <1>1, <2>6 DEF ViewInv
<1> QED
  BY <1>4, <1>5

\* The column of the next node is covered, or it is next to those that are.
LEMMA NextColumn ==
    ASSUME IsTree(tree), NEW a, NEW m, Walk(tree, a, m), Seen(a, m), m < Len(a)
    PROVE  /\ Column(a[m + 1]) \in Int
           /\ range.first - 1 <= Column(a[m + 1]) /\ Column(a[m + 1]) <= range.second + 1
<1>1. m + 1 \in 1..Len(a) /\ a[m + 1] \in Positions
  BY DEF Walk, IsTree
<1>2. range.first \in Int /\ range.second \in Int /\ range.first <= 0 /\ 0 <= range.second
  BY DEF Seen
<1>3. CASE a[m + 1] = Root
  BY <1>2, <1>3, ColumnOfRoot
<1>4. CASE \E k \in 1..m, side \in {Left, Right} : a[m + 1] = Append(a[k], side)
  <2>1. PICK k \in 1..m, side \in {Left, Right} : a[m + 1] = Append(a[k], side)
    BY <1>4
  <2>2. a[k] \in Positions /\ Column(a[k]) \in range.first..range.second
    BY DEF Walk, Seen, IsTree
  <2>3. Column(a[m + 1]) = Column(a[k]) - 1 \/ Column(a[m + 1]) = Column(a[k]) + 1
    BY <2>1, <2>2, ColumnIs
  <2> QED
    BY <1>2, <2>2, <2>3
<1> QED
  BY <1>1, <1>3, <1>4 DEF Walk

\* What is seen depends on the nodes visited only.
LEMMA SeenOfVisited ==
    ASSUME NEW a, NEW b, NEW m \in Nat, Seen(a, m), \A k \in 1..m : b[k] = a[k]
    PROVE  Seen(b, m)
<1>1. \A k \in 1..m : \A l \in 1..(k - 1) : l \in 1..m
  OBVIOUS
<1>2. ASSUME NEW c, NEW k \in 1..m, FirstOf(a, k, c) PROVE FirstOf(b, k, c) /\ b[k] = a[k]
  BY <1>1, <1>2 DEF FirstOf
<1>3. \A k \in 1..m : Column(b[k]) \in range.first..range.second
  BY DEF Seen
<1>4. ASSUME NEW c \in range.first..(-1)
      PROVE  \E k \in 1..m : FirstOf(b, k, c) /\ left_nodes[c - range.first + 1] = tree[b[k]]
  <2>1. PICK k \in 1..m : FirstOf(a, k, c) /\ left_nodes[c - range.first + 1] = tree[a[k]]
    BY DEF Seen
  <2> QED
    BY <1>2, <2>1
<1>5. ASSUME NEW c \in 1..range.second
      PROVE  \E k \in 1..m : FirstOf(b, k, c) /\ right_nodes[c] = tree[b[k]]
  BY SMTT(20), <1>2 DEF Seen
<1> QED
  BY <1>3, <1>4, <1>5 DEF Seen

\* What VisitNode does with a node of the tree, in its column.
Sees(cur) ==
    \/ /\ Column(cur) < range.first
       /\ range' = [range EXCEPT !.first = Column(cur)]
       /\ left_nodes' = <<tree[cur]>> \o left_nodes
       /\ UNCHANGED right_nodes
    \/ /\ Column(cur) > range.second
       /\ range' = [range EXCEPT !.second = Column(cur)]
       /\ right_nodes' = Append(right_nodes, tree[cur])
       /\ UNCHANGED left_nodes
    \/ /\ Column(cur) \in range.first..range.second
       /\ UNCHANGED <<range, left_nodes, right_nodes>>

\* What there is to show for the nodes seen after a step.
LEMMA SeenIs ==
    ASSUME NEW a, NEW m \in Nat, NEW lo \in Int, NEW hi \in Int, lo <= 0, 0 <= hi,
           tree' = tree, range' = [first |-> lo, second |-> hi],
           \A k \in 1..m : Column(a[k]) \in lo..hi,
           left_nodes' \in Seq(Nat), Len(left_nodes') = 0 - lo,
           right_nodes' \in Seq(Nat), Len(right_nodes') = hi,
           \A c \in lo..(-1) : \E k \in 1..m : FirstOf(a, k, c) /\ left_nodes'[c - lo + 1] = tree[a[k]],
           \A c \in 1..hi : \E k \in 1..m : FirstOf(a, k, c) /\ right_nodes'[c] = tree[a[k]]
    PROVE  Seen(a, m)'
<1>1. /\ range' \in [first : Int, second : Int] /\ range'.first = lo /\ range'.second = hi
      /\ range'.first <= 0 /\ 0 <= range'.second
  OBVIOUS
<1>2. \A k \in 1..m : Column(a[k]) \in range'.first..range'.second
  BY <1>1
<1>3. \A c \in range'.first..(-1) :
         \E k \in 1..m : FirstOf(a, k, c) /\ left_nodes'[c - range'.first + 1] = tree'[a[k]]
  BY <1>1
<1>4. \A c \in 1..range'.second : \E k \in 1..m : FirstOf(a, k, c) /\ right_nodes'[c] = tree'[a[k]]
  BY <1>1
<1>5. Len(left_nodes') = 0 - range'.first /\ Len(right_nodes') = range'.second
  BY <1>1
<1> QED
  BY <1>1, <1>2, <1>3, <1>4, <1>5 DEF Seen, FirstOf, Column, Turns

LEMMA SeenMore ==
    ASSUME tree \in [DOMAIN tree -> Nat], NEW a, NEW m \in Nat, Seen(a, m),
           NEW cur \in DOMAIN tree, cur = a[m + 1], tree' = tree,
           Column(cur) \in Int, range.first - 1 <= Column(cur), Column(cur) <= range.second + 1, Sees(cur)
    PROVE  Seen(a, m + 1)'
<1> DEFINE lo == range.first
<1> DEFINE hi == range.second
<1> DEFINE v == tree[cur]
<1>1. /\ Column(cur) \in Int /\ lo - 1 <= Column(cur) /\ Column(cur) <= hi + 1
      /\ lo \in Int /\ hi \in Int /\ lo <= 0 /\ 0 <= hi /\ m \in Nat
      /\ range = [first |-> lo, second |-> hi]
  <2>1. range \in [first : Int, second : Int] /\ lo <= 0 /\ 0 <= hi
    BY DEF Seen
  <2> QED
    BY <2>1
<1>2. v \in Nat
  OBVIOUS
<1>3. /\ \A k \in 1..m : Column(a[k]) \in lo..hi
      /\ left_nodes \in Seq(Nat) /\ Len(left_nodes) = 0 - lo
      /\ right_nodes \in Seq(Nat) /\ Len(right_nodes) = hi
      /\ \A c \in lo..(-1) : \E k \in 1..m : FirstOf(a, k, c) /\ left_nodes[c - lo + 1] = tree[a[k]]
      /\ \A c \in 1..hi : \E k \in 1..m : FirstOf(a, k, c) /\ right_nodes[c] = tree[a[k]]
  BY DEF Seen
<1>4. /\ \A k \in 1..m : k \in 1..(m + 1)
      /\ \A k \in 1..(m + 1) : k \in 1..m \/ k = m + 1
      /\ m + 1 \in 1..(m + 1) /\ m + 1 - 1 = m
  BY <1>1
<1> HIDE DEF lo, hi, v
<1>5. CASE Column(cur) < lo
  <2>1. Column(cur) = lo - 1 /\ Column(cur) # 0 - 0
    BY <1>1, <1>5
  <2>2. /\ range' = [first |-> lo - 1, second |-> hi] /\ left_nodes' = <<v>> \o left_nodes
        /\ right_nodes' = right_nodes
    BY <1>1, <1>5, <2>1 DEF Sees, lo, hi, v
  <2>3. /\ left_nodes' \in Seq(Nat) /\ Len(left_nodes') = 0 - (lo - 1)
        /\ left_nodes'[1] = v
        /\ \A k \in 1..(0 - lo) : left_nodes'[k + 1] = left_nodes[k]
    <3> DEFINE d == <<v>>
    <3>1. d \in Seq(Nat) /\ Len(d) = 1 /\ d[1] = v
      BY <1>2
    <3> HIDE DEF d
    <3>2. /\ left_nodes' \in Seq(Nat) /\ Len(left_nodes') = 1 + (0 - lo)
          /\ \A k \in 1..(1 + (0 - lo)) : left_nodes'[k] = IF k <= 1 THEN d[k] ELSE left_nodes[k - 1]
      BY <1>3, <2>2, <3>1, ConcatProperties DEF d
    <3>3. 1 \in 1..(1 + (0 - lo)) /\ 1 + (0 - lo) = 0 - (lo - 1)
      BY <1>1
    <3>4. ASSUME NEW k \in 1..(0 - lo) PROVE left_nodes'[k + 1] = left_nodes[k]
      <4>1. k + 1 \in 1..(1 + (0 - lo)) /\ ~(k + 1 <= 1) /\ k + 1 - 1 = k
        BY <1>1
      <4> QED
        BY <3>2, <4>1
    <3>5. left_nodes'[1] = d[1]
      BY <3>2, <3>3
    <3> QED
      BY <3>1, <3>2, <3>3, <3>4, <3>5
  <2>4. FirstOf(a, m + 1, lo - 1)
    BY <1>1, <1>3, <1>4, <2>1 DEF FirstOf
  <2>5. ASSUME NEW c \in (lo - 1)..(-1)
        PROVE  \E k \in 1..(m + 1) : FirstOf(a, k, c) /\ left_nodes'[c - (lo - 1) + 1] = tree[a[k]]
    <3>1. CASE c = lo - 1
      <4>1. c - (lo - 1) + 1 = 1
        BY <1>1, <3>1
      <4> QED
        BY <1>4, <2>3, <2>4, <3>1, <4>1 DEF v
    <3>2. CASE c # lo - 1
      <4>1. c \in lo..(-1) /\ c - lo + 1 \in 1..(0 - lo) /\ (c - lo + 1) + 1 = c - (lo - 1) + 1
        BY <1>1, <3>2
      <4>2. PICK k \in 1..m : FirstOf(a, k, c) /\ left_nodes[c - lo + 1] = tree[a[k]]
        BY <1>3, <4>1
      <4>3. left_nodes'[c - (lo - 1) + 1] = left_nodes[c - lo + 1]
        BY <2>3, <4>1
      <4> QED
        BY <1>4, <4>2, <4>3
    <3> QED
      BY <3>1, <3>2
  <2>6. \A k \in 1..(m + 1) : Column(a[k]) \in (lo - 1)..hi
    BY <1>1, <1>3, <1>4, <2>1
  <2>7. \A c \in 1..hi : \E k \in 1..(m + 1) : FirstOf(a, k, c) /\ right_nodes'[c] = tree[a[k]]
    BY <1>3, <1>4, <2>2
  <2>8. range'.first = lo - 1 /\ range'.second = hi /\ lo - 1 \in Int /\ lo - 1 <= 0
    BY <1>1, <2>2
  <2> QED
    <3>1. m + 1 \in Nat /\ lo - 1 \in Int /\ hi \in Int /\ lo - 1 <= 0 /\ 0 <= hi
      BY <1>1
    <3>2. left_nodes' \in Seq(Nat) /\ Len(left_nodes') = 0 - (lo - 1) /\ right_nodes' \in Seq(Nat) /\ Len(right_nodes') = hi
      BY <1>3, <2>2, <2>3
    <3> HIDE DEF lo, hi
    <3> QED
      BY <2>2, <2>5, <2>6, <2>7, <3>1, <3>2, SeenIs
<1>6. CASE Column(cur) > hi
  <2>1. Column(cur) = hi + 1
    BY <1>1, <1>6
  <2>2. /\ range' = [first |-> lo, second |-> hi + 1] /\ right_nodes' = Append(right_nodes, v)
        /\ left_nodes' = left_nodes
    BY <1>1, <1>6, <2>1 DEF Sees, lo, hi, v
  <2>3. /\ right_nodes' \in Seq(Nat) /\ Len(right_nodes') = hi + 1
        /\ right_nodes'[hi + 1] = v
        /\ \A k \in 1..hi : right_nodes'[k] = right_nodes[k]
    BY <1>2, <1>3, <2>2, AppendProperties
  <2>4. FirstOf(a, m + 1, hi + 1)
    BY <1>1, <1>3, <1>4, <2>1 DEF FirstOf
  <2>5. ASSUME NEW c \in 1..(hi + 1)
        PROVE  \E k \in 1..(m + 1) : FirstOf(a, k, c) /\ right_nodes'[c] = tree[a[k]]
    <3>1. CASE c = hi + 1
      BY <1>4, <2>3, <2>4, <3>1 DEF v
    <3>2. CASE c # hi + 1
      <4>1. c \in 1..hi
        BY <1>1, <3>2
      <4>2. PICK k \in 1..m : FirstOf(a, k, c) /\ right_nodes[c] = tree[a[k]]
        BY <1>3, <4>1
      <4>3. right_nodes'[c] = right_nodes[c] /\ k \in 1..(m + 1)
        BY <1>4, <2>3, <4>1
      <4> QED
        BY <4>2, <4>3
    <3> QED
      BY <3>1, <3>2
  <2>6. \A k \in 1..(m + 1) : Column(a[k]) \in lo..(hi + 1)
    BY <1>1, <1>3, <1>4, <2>1
  <2>7. \A c \in lo..(-1) : \E k \in 1..(m + 1) : FirstOf(a, k, c) /\ left_nodes'[c - lo + 1] = tree[a[k]]
    BY <1>3, <1>4, <2>2
  <2>8. range'.first = lo /\ range'.second = hi + 1 /\ hi + 1 \in Int /\ 0 <= hi + 1
    BY <1>1, <2>2
  <2> QED
    <3>1. m + 1 \in Nat /\ lo \in Int /\ hi + 1 \in Int /\ lo <= 0 /\ 0 <= hi + 1
      BY <1>1
    <3>2. left_nodes' \in Seq(Nat) /\ Len(left_nodes') = 0 - lo /\ right_nodes' \in Seq(Nat) /\ Len(right_nodes') = hi + 1
      BY <1>3, <2>2, <2>3
    <3> HIDE DEF lo, hi
    <3> QED
      BY <2>2, <2>5, <2>6, <2>7, <3>1, <3>2, SeenIs
<1>7. CASE Column(cur) \in lo..hi
  <2>1. range' = range /\ left_nodes' = left_nodes /\ right_nodes' = right_nodes
    BY <1>1, <1>7 DEF Sees, lo, hi
  <2>2. \A k \in 1..(m + 1) : Column(a[k]) \in lo..hi
    BY <1>3, <1>4, <1>7
  <2>3. \A c \in lo..(-1) : \E k \in 1..(m + 1) : FirstOf(a, k, c) /\ left_nodes'[c - lo + 1] = tree[a[k]]
    BY <1>3, <1>4, <2>1
  <2>4. \A c \in 1..hi : \E k \in 1..(m + 1) : FirstOf(a, k, c) /\ right_nodes'[c] = tree[a[k]]
    BY <1>3, <1>4, <2>1
  <2>5. range'.first = lo /\ range'.second = hi
    BY <2>1 DEF lo, hi
  <2> QED
    <3>1. /\ m + 1 \in Nat /\ lo \in Int /\ hi \in Int /\ lo <= 0 /\ 0 <= hi
          /\ range' = [first |-> lo, second |-> hi]
      BY <1>1, <2>1
    <3>2. left_nodes' \in Seq(Nat) /\ Len(left_nodes') = 0 - lo /\ right_nodes' \in Seq(Nat) /\ Len(right_nodes') = hi
      BY <1>3, <2>1
    <3> HIDE DEF lo, hi
    <3> QED
      BY <2>2, <2>3, <2>4, <3>1, <3>2, SeenIs
<1> QED
  BY <1>1, <1>5, <1>6, <1>7

LEMMA ViewVisits ==
    ASSUME ViewInv, InsertInv', TopView!VisitNode PROVE ViewInv'
<1>1. /\ pc = "view" /\ queue # << >> /\ pc' = pc /\ tree' = tree
      /\ queue' = Tail(queue) \o TopView!ChildColumns(Head(queue)[1], Head(queue)[2])
  BY DEF TopView!VisitNode, TopView!insertVars
<1>2. PICK a, m : /\ Walk(tree, a, m) /\ Waits(queue, (DOMAIN tree) \X Int, Placed(a), m) /\ Seen(a, m)
  BY <1>1 DEF ViewInv, ViewWalk
<1>3. /\ IsTree(tree) /\ a \in Seq(DOMAIN tree) /\ m \in 0..Len(a) /\ m \in Nat /\ DOMAIN tree \subseteq Positions
      /\ tree \in [DOMAIN tree -> Nat]
  BY <1>2 DEF ViewInv, InsertInv, Walk, IsTree
<1> DEFINE c == ChildrenOf(tree, a[m + 1])
<1>4. c \in Seq(DOMAIN tree)
  BY ChildrenAre
<1>5. /\ Placed(a) \in Seq((DOMAIN tree) \X Int) /\ Len(Placed(a)) = Len(a)
      /\ \A k \in 1..Len(a) : Placed(a)[k] = <<a[k], Column(a[k])>>
      /\ Placed(a \o c) = Placed(a) \o Placed(c)
  BY <1>3, <1>4, PlacedIs
<1>6. Placed(c) \in Seq((DOMAIN tree) \X Int)
  BY <1>3, <1>4, PlacedIs
<1> DEFINE w == Placed(a)
<1> DEFINE d == Placed(c)
<1> DEFINE S == (DOMAIN tree) \X Int
<1>7. /\ m < Len(a) /\ Head(queue) = w[m + 1]
      /\ Waits(Tail(queue) \o d, S, w \o d, m + 1)
  <2>1. w \in Seq(S) /\ m \in 0..Len(w) /\ Waits(queue, S, w, m) /\ d \in Seq(S) /\ queue # << >> /\ Len(w) = Len(a)
    BY <1>1, <1>2, <1>3, <1>5, <1>6
  <2> HIDE DEF w, d, S
  <2> QED
    BY <2>1, QueueStep
<1>8. m + 1 \in 1..Len(a) /\ a[m + 1] \in DOMAIN tree
  BY <1>3, <1>7
<1>9. Head(queue)[1] = a[m + 1] /\ Head(queue)[2] = Column(a[m + 1])
  BY <1>5, <1>7, <1>8
<1>10. queue' = Tail(queue) \o Placed(c)
  BY <1>1, <1>3, <1>8, <1>9, ChildColumnsAre
<1>11. Sees(a[m + 1])
  BY <1>9 DEF TopView!VisitNode, Sees
<1>12. PICK b : b = a \o c
  OBVIOUS
<1>13. \A k \in 1..(m + 1) : b[k] = a[k]
  <2>1. /\ Len(a) \in Nat /\ Len(c) \in Nat
        /\ \A k \in 1..(Len(a) + Len(c)) : (a \o c)[k] = IF k <= Len(a) THEN a[k] ELSE c[k - Len(a)]
    BY <1>3, <1>4, ConcatProperties
  <2>2. \A k \in 1..(m + 1) : k \in 1..(Len(a) + Len(c)) /\ k <= Len(a)
    BY <1>3, <1>7, <2>1
  <2> HIDE DEF c
  <2> QED
    BY <1>12, <2>1, <2>2
<1>14. Walk(tree, b, m + 1)
  BY <1>2, <1>3, <1>7, <1>12, WalkStep
<1> HIDE DEF c
<1>15. Seen(b, m + 1)'
  <2>1. Seen(b, m)
    <3>1. \A k \in 1..m : k \in 1..(m + 1)
      BY <1>3
    <3> QED
      BY <1>2, <1>3, <1>13, <3>1, SeenOfVisited
  <2>2. /\ Column(a[m + 1]) \in Int
        /\ range.first - 1 <= Column(a[m + 1]) /\ Column(a[m + 1]) <= range.second + 1
    BY <1>2, <1>3, <1>7, NextColumn
  <2>3. b[m + 1] = a[m + 1]
    BY <1>3, <1>13
  <2> DEFINE cur == a[m + 1]
  <2>4. /\ tree \in [DOMAIN tree -> Nat] /\ m \in Nat /\ cur \in DOMAIN tree /\ cur = b[m + 1] /\ tree' = tree
        /\ Column(cur) \in Int /\ range.first - 1 <= Column(cur) /\ Column(cur) <= range.second + 1 /\ Sees(cur)
    BY <1>1, <1>3, <1>8, <1>11, <2>2, <2>3
  <2> HIDE DEF cur
  <2> QED
    BY <2>1, <2>4, SeenMore
<1>16. Waits(queue', (DOMAIN tree) \X Int, Placed(b), m + 1)
  <2>1. Placed(b) = w \o d /\ queue' = Tail(queue) \o d
    BY <1>5, <1>10, <1>12
  <2> QED
    BY <1>7, <2>1
<1>17. ViewWalk'
  <2>1. Walk(tree', b, m + 1) /\ Waits(queue', (DOMAIN tree') \X Int, Placed(b), m + 1)
    BY <1>1, <1>14, <1>16
  <2>2. pc' # "done"
    BY <1>1
  <2> QED
    BY <1>15, <2>1, <2>2 DEF ViewWalk
<1> QED
  BY <1>1, <1>17 DEF ViewInv

LEMMA ViewEnds ==
    ASSUME ViewInv, InsertInv', TopView!WriteView PROVE ViewInv'
<1>1. /\ pc = "view" /\ queue = << >> /\ pc' = "done" /\ UNCHANGED <<tree, queue, range, left_nodes, right_nodes>>
      /\ out' = IF tree = TopView!EmptyTree THEN << >> ELSE left_nodes \o <<tree[Root]>> \o right_nodes
  BY SameColumns DEF TopView!WriteView
<1>2. PICK a, m : /\ Walk(tree, a, m) /\ Waits(queue, (DOMAIN tree) \X Int, Placed(a), m) /\ Seen(a, m)
  BY <1>1 DEF ViewInv, ViewWalk
<1>3. Len(Placed(a)) = Len(a) /\ m \in 0..Len(a) /\ Len(a) \in Nat
  <2>1. m \in 0..Len(a) /\ Len(a) \in Nat
    BY <1>2 DEF Walk
  <2> QED
    BY <2>1 DEF Placed
<1>4. m = Len(a)
  <2>1. Len(queue) = 0 /\ Len(queue) = Len(Placed(a)) - m
    BY <1>1, <1>2 DEF Waits
  <2> QED
    BY <1>3, <2>1
<1>5. Seen(a, m)'
  BY <1>1, <1>2 DEF Seen, FirstOf, Column, Turns
<1>6. TopView!EmptyTree' = TopView!EmptyTree
  BY SameColumns DEF TopView!EmptyTree
<1>7. ViewWalk'
  BY <1>1, <1>2, <1>4, <1>5, <1>6 DEF ViewWalk
<1> QED
  BY <1>1, <1>7 DEF ViewInv

LEMMA ViewInvStep ==
    ASSUME ViewInv, InsertInv', TopView!Next \/ UNCHANGED TopView!vars
    PROVE  ViewInv'
<1>1. CASE TopView!Insert /\ UNCHANGED <<queue, range, left_nodes, right_nodes, out>>
  <2>1. pc \in {"read", "insert"} /\ pc' \in {"read", "insert"}
    BY <1>1 DEF TopView!Insert, TopView!MakeRoot, TopView!CallInsert, TopView!Descend, TopView!Attach
  <2> QED
    BY <1>1, <2>1 DEF ViewInv
<1>2. CASE UNCHANGED <<input, taken, at, tree, pc, queue, range, left_nodes, right_nodes, out>>
  <2>1. ASSUME ViewWalk PROVE ViewWalk'
    <3>1. PICK a, m :
              /\ Walk(tree, a, m) /\ Waits(queue, (DOMAIN tree) \X Int, Placed(a), m)
              /\ Seen(a, m)
              /\ pc = "done" =>
                     /\ m = Len(a)
                     /\ tree # TopView!EmptyTree => out = left_nodes \o <<tree[Root]>> \o right_nodes
      BY <2>1 DEF ViewWalk
    <3>2. Seen(a, m)'
      BY <1>2, <3>1 DEF Seen, FirstOf, Column, Turns
    <3>3. TopView!EmptyTree' = TopView!EmptyTree
      BY SameColumns DEF TopView!EmptyTree
    <3> QED
      BY <1>2, <3>1, <3>2, <3>3 DEF ViewWalk
  <2> QED
    BY <1>2, <2>1 DEF ViewInv
<1> QED
  BY <1>1, <1>2, ViewStarts, ViewVisits, ViewEnds
  DEF TopView!Next, TopView!Finished, TopView!vars, TopView!insertVars, TopView!viewVars

\* The first node of a column in the order of the walk is what is seen of it.
LEMMA TopIs ==
    ASSUME NEW t, IsTree(t), NEW a, Walk(t, a, Len(a)), NEW k \in 1..Len(a), NEW c, FirstOf(a, k, c),
           NEW p \in { r \in DOMAIN t : Column(r) = c }
    PROVE  p = a[k] <=> \A r \in { r \in DOMAIN t : Column(r) = c } \ {p} : LevelBefore(p, r)
<1>1. Len(a) \in Nat /\ \A l \in 1..Len(a) : a[l] \in DOMAIN t /\ a[l] \in Positions
  BY DEF Walk, IsTree
<1>2. ASSUME NEW r \in DOMAIN t, Column(r) = c, r # a[k] PROVE LevelBefore(a[k], r)
  <2>1. PICK l \in 1..Len(a) : a[l] = r
    BY WalkEnds
  <2>2. l \notin 1..(k - 1) /\ l # k
    BY <1>2, <2>1 DEF FirstOf
  <2>3. k < l
    BY <1>1, <2>2
  <2> QED
    BY <2>1, <2>3 DEF Walk
<1>3. Column(a[k]) = c /\ a[k] \in DOMAIN t
  BY <1>1 DEF FirstOf
<1>4. ASSUME p # a[k], \A r \in { r \in DOMAIN t : Column(r) = c } \ {p} : LevelBefore(p, r) PROVE FALSE
  <2>1. LevelBefore(p, a[k]) /\ LevelBefore(a[k], p)
    BY <1>2, <1>3, <1>4
  <2>2. p \in Positions /\ a[k] \in Positions
    BY <1>1 DEF IsTree
  <2> QED
    BY <2>1, <2>2, LevelAsymmetric
<1> QED
  BY <1>2, <1>4

LEMMA ColumnsCovered ==
    ASSUME IsTree(tree), NEW a, Walk(tree, a, Len(a)), Seen(a, Len(a)), Root \in DOMAIN tree
    PROVE  /\ \A c \in range.first..range.second : \E k \in 1..Len(a) : FirstOf(a, k, c)
           /\ { Column(p) : p \in DOMAIN tree } = range.first..range.second
<1>1. /\ range.first \in Int /\ range.second \in Int /\ range.first <= 0 /\ 0 <= range.second
      /\ Len(a) \in Nat /\ Len(a) > 0 /\ a[1] = Root /\ \A l \in 1..Len(a) : a[l] \in DOMAIN tree
  BY DEF Walk, Seen
<1>2. ASSUME NEW c \in range.first..range.second PROVE \E k \in 1..Len(a) : FirstOf(a, k, c)
  <2>1. CASE c = 0
    <3>1. FirstOf(a, 1, 0) /\ 1 \in 1..Len(a)
      BY <1>1, ColumnOfRoot DEF FirstOf
    <3> QED
      BY <2>1, <3>1
  <2>2. CASE c \in range.first..(-1)
    BY <2>2 DEF Seen
  <2>3. CASE c \in 1..range.second
    BY <2>3 DEF Seen
  <2>4. c = 0 \/ c \in range.first..(-1) \/ c \in 1..range.second
    BY <1>1
  <2> QED
    BY <2>1, <2>2, <2>3, <2>4
<1>3. ASSUME NEW p \in DOMAIN tree PROVE Column(p) \in range.first..range.second
  <2>1. PICK k \in 1..Len(a) : a[k] = p
    BY WalkEnds
  <2> QED
    BY <2>1 DEF Seen
<1>4. ASSUME NEW c \in range.first..range.second PROVE \E p \in DOMAIN tree : Column(p) = c
  <2>1. PICK k \in 1..Len(a) : FirstOf(a, k, c)
    BY <1>2
  <2> QED
    BY <1>1, <2>1 DEF FirstOf
<1> QED
  BY <1>2, <1>3, <1>4

LEMMA ViewIsOut == ViewInv => TopView!OutputIsTopView
<1> SUFFICES ASSUME ViewInv, pc = "done", tree # TopView!EmptyTree
             PROVE  out = [k \in 1..TopView!Cardinality(TopView!Columns) |->
                               tree[TopView!Top(TopView!Min(TopView!Columns) + k - 1)]]
  BY DEF TopView!OutputIsTopView
<1> DEFINE lo == range.first
<1> DEFINE hi == range.second
<1>1. PICK a : /\ Walk(tree, a, Len(a)) /\ Seen(a, Len(a))
               /\ out = left_nodes \o <<tree[Root]>> \o right_nodes
  BY DEF ViewInv, ViewWalk
<1>2. IsTree(tree) /\ tree \in [DOMAIN tree -> Nat] /\ Root \in DOMAIN tree
  <2>1. /\ DOMAIN tree = {} <=> taken = 0
        /\ taken > 0 => Root \in DOMAIN tree
        /\ taken \in Nat /\ IsTree(tree) /\ tree \in [DOMAIN tree -> Nat]
    BY DEF ViewInv, InsertInv
  <2>2. DOMAIN tree = {} => tree = [p \in {} |-> {}]
    BY <2>1
  <2> QED
    BY <2>1, <2>2, SameColumns
<1>3. /\ lo \in Int /\ hi \in Int /\ lo <= 0 /\ 0 <= hi
      /\ left_nodes \in Seq(Nat) /\ Len(left_nodes) = 0 - lo
      /\ right_nodes \in Seq(Nat) /\ Len(right_nodes) = hi
  BY <1>1 DEF Seen
<1>4. TopView!Columns = lo..hi
  <2>1. TopView!Columns = { Column(p) : p \in DOMAIN tree }
    BY SameColumns DEF TopView!Columns
  <2> QED
    BY <1>1, <1>2, <2>1, ColumnsCovered
<1>5. TopView!Cardinality(TopView!Columns) = hi - lo + 1
  <2>0. lo \in Int /\ hi \in Int /\ ~(lo > hi)
    BY <1>3
  <2> HIDE DEF lo, hi
  <2>1. Cardinality(lo..hi) = hi - lo + 1
    BY <2>0, FS_Interval
  <2> QED
    BY <1>4, <2>1, SameColumns
<1>6. TopView!Min(TopView!Columns) = lo
  BY <1>3, <1>4 DEF TopView!Min
<1> HIDE DEF lo, hi
<1>7. ASSUME NEW c \in lo..hi, NEW k \in 1..Len(a), FirstOf(a, k, c) PROVE TopView!Top(c) = a[k]
  <2> DEFINE here == { p \in DOMAIN tree : Column(p) = c }
  <2>1. \A p \in here : p = a[k] <=> \A r \in here \ {p} : LevelBefore(p, r)
    BY <1>1, <1>2, <1>7, TopIs
  <2>2. a[k] \in here
    BY <1>1, <1>7 DEF FirstOf, Walk
  <2>3. TopView!Top(c) = CHOOSE p \in here : \A r \in here \ {p} : LevelBefore(p, r)
    BY SameColumns DEF TopView!Top
  <2> HIDE DEF here
  <2> QED
    BY <2>1, <2>2, <2>3
<1> DEFINE seen == [k \in 1..(hi - lo + 1) |-> tree[TopView!Top(lo + k - 1)]]
<1>8. ASSUME NEW c \in lo..hi
      PROVE  /\ tree[TopView!Top(c)] \in Nat
             /\ c < 0 => tree[TopView!Top(c)] = left_nodes[c - lo + 1]
             /\ c = 0 => tree[TopView!Top(c)] = tree[Root]
             /\ c > 0 => tree[TopView!Top(c)] = right_nodes[c]
  <2>1. PICK k \in 1..Len(a) : FirstOf(a, k, c)
    BY <1>1, <1>2, ColumnsCovered DEF lo, hi
  <2>2. tree[TopView!Top(c)] \in Nat
    BY SMTT(20), <1>1, <1>2, <1>7, <2>1 DEF Walk
  <2>3. CASE c < 0
    <3>1. c \in lo..(-1) /\ c \in Int
      BY <1>3, <2>3
    <3>2. PICK l \in 1..Len(a) : FirstOf(a, l, c) /\ left_nodes[c - lo + 1] = tree[a[l]]
      BY <1>1, <3>1 DEF Seen, lo
    <3> QED
      BY <1>7, <2>2, <2>3, <3>1, <3>2
  <2>4. CASE c = 0
    <3>1. Len(a) \in Nat /\ Len(a) > 0 /\ a[1] = Root
      BY <1>1, <1>2 DEF Walk
    <3>2. FirstOf(a, 1, c) /\ 1 \in 1..Len(a)
      BY <2>4, <3>1, ColumnOfRoot DEF FirstOf
    <3> QED
      BY <1>7, <2>2, <2>4, <3>1, <3>2
  <2>5. CASE c > 0
    <3>1. c \in 1..hi
      BY <1>3, <2>5
    <3>2. PICK l \in 1..Len(a) : FirstOf(a, l, c) /\ right_nodes[c] = tree[a[l]]
      BY <1>1, <3>1 DEF Seen, hi
    <3> QED
      BY <1>3, <1>7, <2>2, <2>5, <3>2
  <2> QED
    BY <1>3, <2>2, <2>3, <2>4, <2>5
<1>9. seen \in Seq(Nat) /\ Len(seen) = hi - lo + 1
  <2>1. \A k \in 1..(hi - lo + 1) : lo + k - 1 \in lo..hi
    BY <1>3
  <2>2. seen \in [1..(hi - lo + 1) -> Nat] /\ hi - lo + 1 \in Nat
    BY <1>3, <1>8, <2>1
  <2> QED
    BY <2>2
<1>10. /\ out \in Seq(Nat) /\ Len(out) = hi - lo + 1
       /\ \A k \in 1..(hi - lo + 1) :
              out[k] = IF k <= 0 - lo THEN left_nodes[k]
                       ELSE IF k = 1 - lo THEN tree[Root] ELSE right_nodes[k - 1 + lo]
  <2> DEFINE mid == <<tree[Root]>>
  <2>1. mid \in Seq(Nat) /\ Len(mid) = 1 /\ mid[1] = tree[Root]
    BY <1>2
  <2> HIDE DEF mid
  <2> DEFINE x == left_nodes \o mid
  <2>2. /\ x \in Seq(Nat) /\ Len(x) = 0 - lo + 1
        /\ \A k \in 1..(0 - lo + 1) : x[k] = IF k <= 0 - lo THEN left_nodes[k] ELSE mid[k - (0 - lo)]
    <3>1. /\ x \in Seq(Nat) /\ Len(x) = Len(left_nodes) + Len(mid)
          /\ \A k \in 1..(Len(left_nodes) + Len(mid)) :
                 x[k] = IF k <= Len(left_nodes) THEN left_nodes[k] ELSE mid[k - Len(left_nodes)]
      BY <1>3, <2>1, ConcatProperties
    <3> HIDE DEF x
    <3> QED
      BY <1>3, <2>1, <3>1
  <2>3. out = x \o right_nodes
    BY <1>1 DEF mid
  <2> HIDE DEF x
  <2>4. /\ out \in Seq(Nat) /\ Len(out) = 0 - lo + 1 + hi
        /\ \A k \in 1..(0 - lo + 1 + hi) :
               out[k] = IF k <= 0 - lo + 1 THEN x[k] ELSE right_nodes[k - (0 - lo + 1)]
    <3>1. /\ out \in Seq(Nat) /\ Len(out) = Len(x) + Len(right_nodes)
          /\ \A k \in 1..(Len(x) + Len(right_nodes)) :
                 out[k] = IF k <= Len(x) THEN x[k] ELSE right_nodes[k - Len(x)]
      BY <1>3, <2>2, <2>3, ConcatProperties
    <3> QED
      BY <1>3, <2>2, <3>1
  <2>5. 0 - lo + 1 + hi = hi - lo + 1
    BY <1>3
  <2>6. ASSUME NEW k \in 1..(hi - lo + 1)
        PROVE  out[k] = IF k <= 0 - lo THEN left_nodes[k]
                        ELSE IF k = 1 - lo THEN tree[Root] ELSE right_nodes[k - 1 + lo]
    <3>1. k \in 1..(0 - lo + 1 + hi)
      BY <2>5
    <3>2. CASE k <= 0 - lo + 1
      <4>1. k \in 1..(0 - lo + 1) /\ out[k] = x[k]
        BY <1>3, <2>4, <3>1, <3>2
      <4>2. ~(k <= 0 - lo) => k - (0 - lo) = 1 /\ k = 1 - lo
        BY <1>3, <3>2
      <4> QED
        BY <2>1, <2>2, <4>1, <4>2
    <3>3. CASE ~(k <= 0 - lo + 1)
      <4>1. ~(k <= 0 - lo) /\ k # 1 - lo /\ k - (0 - lo + 1) = k - 1 + lo
        BY <1>3, <3>3
      <4> QED
        BY <2>4, <3>1, <3>3, <4>1
    <3> QED
      BY <3>2, <3>3
  <2> QED
    BY <2>4, <2>5, <2>6
<1>11. ASSUME NEW k \in 1..(hi - lo + 1) PROVE out[k] = seen[k]
  <2> DEFINE c == lo + k - 1
  <2>1. c \in lo..hi /\ c \in Int /\ k \in Int
    BY <1>3
  <2>2. seen[k] = tree[TopView!Top(c)]
    OBVIOUS
  <2>3. /\ k <= 0 - lo <=> c < 0
        /\ k = 1 - lo <=> c = 0
        /\ c - lo + 1 = k /\ k - 1 + lo = c
    BY <1>3, <2>1
  <2> HIDE DEF c, seen
  <2>4. c < 0 \/ c = 0 \/ c > 0
    BY <2>1
  <2>5. ~(c < 0 /\ c = 0) /\ ~(c < 0 /\ c > 0) /\ ~(c > 0 /\ c = 0)
    BY <2>1
  <2> QED
    BY <1>8, <1>10, <2>1, <2>2, <2>3, <2>4, <2>5
<1> HIDE DEF seen
<1>12. out = seen
  BY <1>9, <1>10, <1>11, SeqEqual
<1> QED
  BY <1>5, <1>6, <1>12 DEF seen

\* operator<< of tree_top_view.cc prints the topmost node of every column from
\* the leftmost to the rightmost.
THEOREM TreesOutputIsTopView == Spec => []OutputIsTopView
<1> DEFINE Inv == program = "top_view" => ViewInv
<1>1. Init => Inv
  <2>1. ASSUME Init, program = "top_view" PROVE ViewInv
    <3>1. TopView!Init
      BY <2>1, OneStarts
    <3>2. InsertInv
      BY <3>1, InsertsStart, SameInsert DEF TopView!Init
    <3> QED
      BY <3>1, <3>2 DEF TopView!Init, ViewInv, TopView!InsertInit
  <2> QED
    BY <2>1
<1>2. Inv /\ [Next]_vars /\ (Inserts => InsertInv)' => Inv'
  <2>1. ASSUME Inv, [Next]_vars, (Inserts => InsertInv)', program' = "top_view" PROVE ViewInv'
    <3>1. program = "top_view" /\ ViewInv /\ InsertInv' /\ (TopView!Next \/ UNCHANGED TopView!vars)
      BY <2>1, OneRuns DEF Inserts
    <3> QED
      BY <3>1, ViewInvStep
  <2> QED
    BY <2>1
<1>3. Inv => OutputIsTopView
  BY ViewIsOut DEF OutputIsTopView
<1> QED
  BY <1>1, <1>2, <1>3, InsertSafe, PTL DEF Spec

----------------------------------------------------------------------------
\* swap_tree_nodes.

LEMMA ModOfSmall ==
    ASSUME NEW x \in Int, NEW w \in Nat, 0 - w < x, x < w
    PROVE  /\ x % w = 0 <=> x = 0
           /\ x >= 0 => x % w = x
OBVIOUS

LEMMA Monotone ==
    ASSUME NEW x \in Int, NEW y \in Int, NEW d \in Nat, x <= y PROVE x * d <= y * d
<1>1. y * d = x * d + (y - x) * d /\ (y - x) * d >= 0
  OBVIOUS
<1> QED
  BY <1>1

\* The multiples of d.
LEMMA MultipleIs ==
    ASSUME NEW d \in Nat, d > 0, NEW x \in Nat, NEW k \in Nat
    PROVE  /\ (k * d) % d = 0
           /\ x % d = 0 /\ k * d <= x /\ x < (k + 1) * d => x = k * d
<1>1. (k * d) % d = 0
  OBVIOUS
<1>2. ASSUME x % d = 0, k * d <= x, x < (k + 1) * d PROVE x = k * d
  <2> DEFINE m == x \div d
  <2>1. m \in Int /\ x = m * d
    <3>1. x \div d \in Int /\ x = (x \div d) * d + (x % d)
      OBVIOUS
    <3>2. x % d = 0
      BY <1>2
    <3> QED
      BY <3>1, <3>2
  <2> HIDE DEF m
  <2>2. m < k + 1
    <3> SUFFICES ASSUME k + 1 <= m PROVE FALSE
      BY <2>1
    <3>1. (k + 1) * d <= m * d
      BY <2>1, Monotone
    <3> QED
      BY <1>2, <2>1, <3>1
  <2>3. k < m + 1
    <3> SUFFICES ASSUME m + 1 <= k PROVE FALSE
      BY <2>1
    <3>1. (m + 1) * d <= k * d /\ (m + 1) * d = m * d + d
      BY <2>1, Monotone
    <3> QED
      BY <1>2, <2>1, <3>1
  <2>4. m = k
    BY <2>1, <2>2, <2>3
  <2> QED
    BY <2>1, <2>4
<1> QED
  BY <1>1, <1>2

LEMMA AppendedOnce ==
    ASSUME NEW p \in Positions, NEW r \in Positions, NEW s \in {Left, Right}, NEW side \in {Left, Right},
           Append(p, s) = Append(r, side)
    PROVE  p = r /\ s = side
<1> DEFINE c == Append(p, s)
<1>1. Len(c) = Len(p) + 1 /\ c[Len(p) + 1] = s /\ Agree(c, p, Len(p)) /\ Len(p) \in Nat
  BY AppendIs, TurnIs
<1>2. Len(c) = Len(r) + 1 /\ c[Len(r) + 1] = side /\ Agree(c, r, Len(r)) /\ Len(r) \in Nat
  BY AppendIs, TurnIs
<1> HIDE DEF c
<1>3. Len(p) = Len(r) /\ Agree(p, r, Len(p))
  BY <1>1, <1>2 DEF Agree
<1> QED
  BY <1>1, <1>2, <1>3, SamePosition

----------------------------------------------------------------------------
\* While the tree is read.

\* What main is given, and how far it has come.
SwapGiven ==
    /\ Word \in Nat /\ n \in Nat /\ 2 * n < Word
    /\ children \in [1..n -> (-1..n) \X (-1..n)]
    /\ \A id \in 1..n, c \in {1, 2} : children[id][c] # 1
    /\ \A child \in 2..n :
           \E id \in 1..n, c \in {1, 2} :
               \A other \in 1..n, d \in {1, 2} : children[other][d] = child <=> (other = id /\ d = c)
    /\ depths \in Seq(1..n)
    /\ taken \in 0..n /\ i \in 0..Len(depths) /\ j \in Nat \ {0}
    /\ pc \in {"read", "swap", "done", "undefined"}

\* Every node but the root hangs where the children of an ID already read say,
\* and no ID is at two places.
Grown ==
    /\ IsTree(tree) /\ tree \in [DOMAIN tree -> 1..n]
    /\ IF n = 0 THEN DOMAIN tree = {} ELSE Root \in DOMAIN tree /\ tree[Root] = 1
    /\ \A p \in DOMAIN tree, side \in {Left, Right} :
           Append(p, side) \in DOMAIN tree =>
               tree[p] \in 1..taken /\ children[tree[p]][side + 1] = tree[Append(p, side)]
    /\ \A p, r \in DOMAIN tree : tree[p] = tree[r] => p = r

\* The children of the IDs read are in the tree.
Reached ==
    \A id \in 1..n :
        (id = 1 \/ \E parent \in 1..taken, c \in {1, 2} : children[parent][c] = id) =>
            \E p \in DOMAIN tree : tree[p] = id

\* The inductive invariant of the reading of swap_tree_nodes.
ReadInv ==
    /\ i = 0 /\ j = 1
    /\ Grown
    /\ Swap!ParentsFirst => Reached

LEMMA SwapNames ==
    /\ Swap!Left = 0 /\ Swap!Right = 1 /\ Left = 0 /\ Right = 1 /\ Swap!Root = Root
    /\ \A S : Swap!Cardinality(S) = Cardinality(S)
    /\ \A p \in Positions, side \in {Left, Right} : Swap!Last(Append(p, side)) = side
<1>1. \A p \in Positions, side \in {Left, Right} : Swap!Last(Append(p, side)) = side
  BY AppendIs DEF Swap!Last
<1> QED
  BY <1>1 DEF Swap!Left, Left, Swap!Right, Right, Swap!Root, Root, Swap!Cardinality, Cardinality

LEMMA SwapStarts == Swap!Init => SwapGiven /\ pc = "read" /\ ReadInv
<1> SUFFICES ASSUME Swap!Init PROVE SwapGiven /\ pc = "read" /\ ReadInv
  OBVIOUS
<1>1. PICK in \in Swaps : n = in.n /\ children = in.children /\ depths = in.depths
  BY DEF Swap!Init
<1>2. /\ taken = 0 /\ i = 0 /\ j = 1 /\ pc = "read"
      /\ tree = IF n > 0 THEN Swap!AddNode(Swap!EmptyTree, Root, 1) ELSE Swap!EmptyTree
  BY SwapNames DEF Swap!Init
<1>3. SwapGiven
  <2>1. Swap!InputsOK
    BY InputsAssumption
  <2>2. /\ Word \in Nat
        /\ in.n \in Nat /\ 2 * in.n < Word
        /\ in.children \in [1..in.n -> (-1..in.n) \X (-1..in.n)]
        /\ \A id \in 1..in.n, c \in {1, 2} : in.children[id][c] # 1
        /\ \A child \in 2..in.n :
              \E id \in 1..in.n, c \in {1, 2} :
                  \A other \in 1..in.n, d \in {1, 2} :
                      in.children[other][d] = child <=> (other = id /\ d = c)
        /\ in.depths \in Seq(1..in.n)
    BY <2>1 DEF Swap!InputsOK
  <2>3. Len(depths) \in Nat
    BY <1>1, <2>2
  <2> QED
    BY <1>1, <1>2, <2>2, <2>3 DEF SwapGiven
<1>4. Swap!EmptyTree = [p \in {} |-> {}]
  BY DEF Swap!EmptyTree
<1>5. CASE n = 0
  <2>1. tree = [p \in {} |-> {}] /\ DOMAIN tree = {}
    BY <1>2, <1>4, <1>5
  <2>2. Grown
    BY <1>5, <2>1 DEF Grown, IsTree
  <2>3. Reached
    BY <1>5 DEF Reached
  <2> QED
    BY <1>2, <1>3, <2>2, <2>3 DEF ReadInv
<1>6. CASE n # 0
  <2>1. n > 0 /\ 1 \in 1..n
    BY <1>3, <1>6 DEF SwapGiven
  <2>2. DOMAIN tree = {Root} /\ tree[Root] = 1 /\ tree \in [{Root} -> 1..n]
    BY <1>2, <1>4, <2>1 DEF Swap!AddNode
  <2>3. IsTree(tree)
    BY <2>2, RootIsTree
  <2>4. \A side \in {Left, Right} : Append(Root, side) # Root
    BY RootIs, AppendIs
  <2>5. Grown
    BY <1>6, <2>2, <2>3, <2>4 DEF Grown
  <2>6. Reached
    BY <1>2, <2>2 DEF Reached
  <2> QED
    BY <1>2, <1>3, <2>5, <2>6 DEF ReadInv
<1> QED
  BY <1>5, <1>6

LEMMA SeatOnce ==
    ASSUME SwapGiven, NEW x \in 1..n, NEW y \in 1..n, NEW c \in {1, 2}, NEW d \in {1, 2},
           children[x][c] \in 2..n, children[x][c] = children[y][d]
    PROVE  x = y /\ c = d
<1>1. PICK id \in 1..n, b \in {1, 2} :
          \A other \in 1..n, e \in {1, 2} : children[other][e] = children[x][c] <=> (other = id /\ e = b)
  BY DEF SwapGiven
<1>2. x = id /\ c = b
  BY <1>1
<1>3. y = id /\ d = b
  BY <1>1
<1> QED
  BY <1>2, <1>3

LEMMA ReadOn ==
    ASSUME SwapGiven, pc = "read", ReadInv, Swap!ReadChildren
    PROVE  ReadInv' /\ pc' = "read" /\ SwapGiven'
<1> DEFINE id == taken + 1
<1> DEFINE p == Swap!Place(id)
<1> DEFINE new == { Append(p, side) : side \in { s \in {Left, Right} : children[id][s + 1] > 0 } }
<1>1. /\ taken < n /\ taken' = taken + 1 /\ Swap!Places(id) # {}
      /\ tree' = [r \in DOMAIN tree \cup new |-> IF r \in new THEN children[id][Swap!Last(r) + 1] ELSE tree[r]]
      /\ UNCHANGED <<n, children, depths, i, j, pc>>
  BY SwapNames DEF Swap!ReadChildren, Swap!args, Swap!HasChild
<1>2. id \in 1..n /\ taken \in Nat /\ n \in Nat /\ id \notin 1..taken /\ 1..taken \subseteq 1..id /\ n # 0
  BY <1>1 DEF SwapGiven
<1>3. p \in DOMAIN tree /\ tree[p] = id
  BY <1>1 DEF Swap!Place, Swap!Places
<1>4. /\ IsTree(tree) /\ tree \in [DOMAIN tree -> 1..n] /\ Root \in DOMAIN tree /\ tree[Root] = 1
      /\ p \in Positions /\ DOMAIN tree \subseteq Positions
  BY <1>2, <1>3 DEF ReadInv, Grown, IsTree
<1> HIDE DEF p
<1>5. ASSUME NEW side \in {Left, Right}, children[id][side + 1] > 0
      PROVE  /\ Append(p, side) \in new /\ Append(p, side) \notin DOMAIN tree
             /\ tree'[Append(p, side)] = children[id][side + 1]
             /\ children[id][side + 1] \in 2..n
             /\ \A r \in DOMAIN tree : tree[r] # children[id][side + 1]
  <2>1. Append(p, side) \in new
    BY <1>5
  <2>2. Append(p, side) \notin DOMAIN tree
    BY <1>2, <1>3 DEF ReadInv, Grown
  <2>3. tree'[Append(p, side)] = children[id][side + 1]
    BY <1>1, <1>4, <2>1, SwapNames
  <2>4. side + 1 \in {1, 2}
    BY SwapNames
  <2>5. children[id][side + 1] \in -1..n /\ children[id][side + 1] # 1
    BY <1>2, <2>4 DEF SwapGiven
  <2>6. children[id][side + 1] \in 2..n
    BY <1>2, <1>5, <2>5
  <2>7. ASSUME NEW r \in DOMAIN tree, tree[r] = children[id][side + 1] PROVE FALSE
    <3>1. r \in Positions /\ r # Root
      BY <1>4, <2>6, <2>7
    <3> DEFINE f == SubSeq(r, 1, Len(r) - 1)
    <3> DEFINE s == r[Len(r)]
    <3>2. s \in {Left, Right} /\ r = Append(f, s) /\ Len(r) - 1 \in 0..Len(r)
      BY <3>1, IsChild, TurnIs
    <3>3. f \in DOMAIN tree
      BY <1>4, <3>2 DEF IsTree
    <3> HIDE DEF f, s
    <3>4. tree[f] \in 1..taken /\ children[tree[f]][s + 1] = children[id][side + 1]
      BY <2>7, <3>2, <3>3 DEF ReadInv, Grown
    <3>5. s + 1 \in {1, 2} /\ tree[f] \in 1..n
      BY <1>4, <3>2, <3>3, SwapNames
    <3>6. tree[f] = id
      BY <1>2, <2>4, <2>6, <3>4, <3>5, SeatOnce
    <3> QED
      BY <1>2, <3>4, <3>6
  <2> QED
    BY <2>1, <2>2, <2>3, <2>6, <2>7
<1>6. \A r \in new : \E side \in {Left, Right} : r = Append(p, side) /\ children[id][side + 1] > 0
  OBVIOUS
<1>7. /\ DOMAIN tree' = DOMAIN tree \cup new
      /\ \A r \in DOMAIN tree : tree'[r] = tree[r]
  BY <1>1, <1>5, <1>6
<1> HIDE DEF new
<1>8. IsTree(tree')
  BY <1>3, <1>4, <1>6, <1>7, AddedIsTree
<1>9. tree' \in [DOMAIN tree' -> 1..n]
  <2>1. \A r \in DOMAIN tree' : tree'[r] \in 1..n
    <3> SUFFICES ASSUME NEW r \in DOMAIN tree' PROVE tree'[r] \in 1..n
      OBVIOUS
    <3>1. CASE r \in DOMAIN tree
      BY <1>4, <1>7, <3>1
    <3>2. CASE r \in new
      <4>1. PICK side \in {Left, Right} : r = Append(p, side) /\ children[id][side + 1] > 0
        BY <1>6, <3>2
      <4>2. tree'[r] \in 2..n
        BY <1>5, <4>1
      <4> QED
        BY <1>2, <4>2
    <3> QED
      BY <1>7, <3>1, <3>2
  <2> QED
    BY <1>1, <2>1
<1>10. ASSUME NEW f \in DOMAIN tree', NEW s \in {Left, Right}, Append(f, s) \in DOMAIN tree'
       PROVE  tree'[f] \in 1..id /\ children[tree'[f]][s + 1] = tree'[Append(f, s)]
  <2>1. CASE Append(f, s) \in DOMAIN tree
    <3>1. f \in Positions
      BY <1>8 DEF IsTree
    <3>2. f \in DOMAIN tree
      <4>1. Len(Append(f, s)) = Len(f) + 1 /\ Agree(Append(f, s), f, Len(f)) /\ Len(f) \in Nat
        BY <3>1, AppendIs, TurnIs
      <4>2. Len(f) <= Len(Append(f, s))
        BY <4>1
      <4> QED
        BY <1>4, <2>1, <3>1, <4>1, <4>2, AboveIsNode
    <3>3. tree[f] \in 1..taken /\ children[tree[f]][s + 1] = tree[Append(f, s)]
      BY <2>1, <3>2 DEF ReadInv, Grown
    <3> QED
      BY <1>2, <1>7, <2>1, <3>2, <3>3
  <2>2. CASE Append(f, s) \in new
    <3>1. PICK side \in {Left, Right} : Append(f, s) = Append(p, side) /\ children[id][side + 1] > 0
      BY <1>6, <2>2
    <3>2. f = p /\ s = side
      BY <1>4, <1>8, <3>1, AppendedOnce DEF IsTree
    <3> QED
      BY <1>2, <1>3, <1>5, <1>7, <3>1, <3>2
  <2> QED
    BY <1>7, <1>10, <2>1, <2>2
<1>11. ASSUME NEW r \in DOMAIN tree', NEW f \in DOMAIN tree', tree'[r] = tree'[f] PROVE r = f
  <2>1. CASE r \in DOMAIN tree /\ f \in DOMAIN tree
    BY <1>7, <1>11, <2>1 DEF ReadInv, Grown
  <2>2. CASE r \in new /\ f \in DOMAIN tree
    BY <1>5, <1>6, <1>7, <1>11, <2>2
  <2>3. CASE r \in DOMAIN tree /\ f \in new
    BY <1>5, <1>6, <1>7, <1>11, <2>3
  <2>4. CASE r \in new /\ f \in new
    <3>1. PICK s \in {Left, Right} : r = Append(p, s) /\ children[id][s + 1] > 0
      BY <1>6, <2>4
    <3>2. PICK side \in {Left, Right} : f = Append(p, side) /\ children[id][side + 1] > 0
      BY <1>6, <2>4
    <3>3. children[id][s + 1] = children[id][side + 1] /\ children[id][s + 1] \in 2..n
      BY <1>5, <1>11, <3>1, <3>2
    <3>4. s + 1 \in {1, 2} /\ side + 1 \in {1, 2}
      BY SwapNames
    <3>5. s + 1 = side + 1
      BY <1>2, <3>3, <3>4, SeatOnce
    <3>6. s = side
      BY <3>5, SwapNames
    <3> QED
      BY <3>1, <3>2, <3>6
  <2> QED
    BY <1>7, <2>1, <2>2, <2>3, <2>4
<1>12. Grown'
  <2>1. Root \in DOMAIN tree' /\ tree'[Root] = 1
    BY <1>4, <1>7
  <2> QED
    BY SMTT(20), <1>1, <1>2, <1>8, <1>9, <1>10, <1>11, <2>1 DEF Grown
<1>13. ASSUME Reached PROVE Reached'
  <2>1. ASSUME NEW x \in 1..n, x = 1 \/ \E parent \in 1..id, c \in {1, 2} : children[parent][c] = x
        PROVE  \E r \in DOMAIN tree' : tree'[r] = x
    <3>1. CASE x = 1 \/ \E parent \in 1..taken, c \in {1, 2} : children[parent][c] = x
      BY <1>7, <1>13, <3>1 DEF Reached
    <3>2. CASE \E c \in {1, 2} : children[id][c] = x
      <4>1. PICK c \in {1, 2} : children[id][c] = x
        BY <3>2
      <4>2. PICK side \in {Left, Right} : c = side + 1
        BY SwapNames
      <4>3. children[id][side + 1] > 0
        BY <1>2, <4>1, <4>2
      <4> QED
        BY <1>5, <1>7, <4>1, <4>2, <4>3
    <3>3. \A parent \in 1..id : parent \in 1..taken \/ parent = id
      BY <1>2
    <3> QED
      BY <2>1, <3>1, <3>2, <3>3
  <2>2. taken' = id /\ n' = n /\ children' = children
    BY <1>1
  <2> HIDE DEF id
  <2> QED
    BY <2>1, <2>2 DEF Reached
<1>14. Swap!ParentsFirst' <=> Swap!ParentsFirst
  BY <1>1 DEF Swap!ParentsFirst
<1>15. SwapGiven'
  BY <1>1, <1>2 DEF SwapGiven
<1> QED
  BY <1>1, <1>12, <1>13, <1>14, <1>15 DEF ReadInv

LEMMA MissedNeverFirst ==
    ASSUME SwapGiven, pc = "read", ReadInv, Swap!MissNode
    PROVE  /\ ~Swap!ParentsFirst
           /\ SwapGiven' /\ (Swap!ParentsFirst' <=> Swap!ParentsFirst)
           /\ pc' = "read" => ReadInv'
           /\ pc' \in {"read", "undefined"}
<1>1. /\ taken < n /\ taken' = taken + 1 /\ Swap!Places(taken + 1) = {} /\ pc' \in {"read", "undefined"}
      /\ UNCHANGED <<n, children, depths, tree, i, j>>
  BY DEF Swap!MissNode, Swap!args
<1>2. taken \in Nat /\ n \in Nat /\ taken + 1 \in 1..n /\ n # 0 /\ 1..taken \subseteq 1..(taken + 1)
  BY <1>1 DEF SwapGiven
<1>3. ASSUME Swap!ParentsFirst PROVE FALSE
  <2>1. \E p \in DOMAIN tree : tree[p] = taken + 1
    <3>1. CASE taken + 1 = 1
      BY <1>2, <1>3, <3>1 DEF ReadInv, Reached
    <3>2. CASE taken + 1 # 1
      <4>1. taken + 1 \in 2..n
        BY <1>2, <3>2
      <4>2. PICK id \in 1..n, c \in {1, 2} :
                \A other \in 1..n, d \in {1, 2} : children[other][d] = taken + 1 <=> (other = id /\ d = c)
        BY <4>1 DEF SwapGiven
      <4>3. children[id][c] = taken + 1 /\ c \in 1..2
        BY <4>2
      <4>4. id < taken + 1
        BY <1>2, <1>3, <4>3 DEF Swap!ParentsFirst
      <4>5. id \in 1..taken
        BY <1>2, <4>4
      <4> QED
        BY <1>2, <1>3, <4>3, <4>5 DEF ReadInv, Reached
    <3> QED
      BY <3>1, <3>2
  <2> QED
    BY <1>1, <2>1 DEF Swap!Places
<1>4. Grown'
  BY <1>1, <1>2 DEF ReadInv, Grown
<1>5. SwapGiven'
  BY <1>1, <1>2 DEF SwapGiven
<1>6. Swap!ParentsFirst' <=> Swap!ParentsFirst
  BY <1>1 DEF Swap!ParentsFirst
<1>7. ReadInv'
  BY <1>1, <1>3, <1>4, <1>6 DEF ReadInv
<1> QED
  BY <1>1, <1>3, <1>5, <1>6, <1>7

LEMMA AllThere ==
    ASSUME SwapGiven, ReadInv, taken = n, Swap!ParentsFirst
    PROVE  IsFiniteSet(DOMAIN tree) /\ Cardinality(DOMAIN tree) = n
<1>0. n \in Nat
  BY DEF SwapGiven
<1>1. ASSUME NEW id \in 1..n PROVE \E p \in DOMAIN tree : tree[p] = id
  <2>1. CASE id = 1
    BY <2>1 DEF ReadInv, Reached
  <2>2. CASE id # 1
    <3>1. id \in 2..n
      BY <1>0, <2>2
    <3>2. PICK parent \in 1..n, c \in {1, 2} :
              \A other \in 1..n, d \in {1, 2} : children[other][d] = id <=> (other = parent /\ d = c)
      BY <3>1 DEF SwapGiven
    <3>3. children[parent][c] = id
      BY <3>2
    <3> QED
      BY <3>3 DEF ReadInv, Reached
  <2> QED
    BY <2>1, <2>2
<1> DEFINE f == [id \in 1..n |-> CHOOSE p \in DOMAIN tree : tree[p] = id]
<1>2. \A id \in 1..n : f[id] \in DOMAIN tree /\ tree[f[id]] = id
  BY <1>1
<1>3. \A p \in DOMAIN tree : tree[p] \in 1..n
  BY DEF ReadInv, Grown
<1> HIDE DEF f
<1>4. \A p \in DOMAIN tree : \E id \in 1..n : f[id] = p
  BY <1>2, <1>3 DEF ReadInv, Grown
<1>5. \A x, y \in 1..n : f[x] = f[y] => x = y
  BY <1>2
<1>6. \A x \in 1..n : f[x] \in DOMAIN tree
  BY <1>2
<1> QED
  BY <1>0, <1>4, <1>5, <1>6, Counted

\* A branch holds each ID once at most.
LEMMA BranchIsShort ==
    ASSUME SwapGiven, Grown, NEW p \in DOMAIN tree
    PROVE  Len(p) < n
<1>1. p \in Positions /\ Len(p) \in Nat /\ n \in Nat /\ IsTree(tree)
  BY TurnIs DEF SwapGiven, Grown, IsTree
<1> DEFINE f == [k \in 0..Len(p) |-> tree[SubSeq(p, 1, k)]]
<1>2. \A k \in 0..Len(p) : SubSeq(p, 1, k) \in DOMAIN tree /\ tree[SubSeq(p, 1, k)] \in 1..n
  BY <1>1 DEF IsTree, Grown
<1>3. \A k \in 0..Len(p) : Len(SubSeq(p, 1, k)) = k
  BY <1>1, SubSeqIs
<1>4. f \in [0..Len(p) -> 1..n]
  BY <1>2
<1>5. \A k, l \in 0..Len(p) : f[k] = f[l] => k = l
  BY <1>2, <1>3 DEF Grown
<1> HIDE DEF f
<1>6. IsFiniteSet(1..n) /\ Cardinality(1..n) = n /\ Cardinality(0..Len(p)) = Len(p) - 0 + 1
  BY SMTT(20), <1>1, FS_Interval
<1>7. f \in Injection(0..Len(p), 1..n)
  BY <1>4, <1>5 DEF Injection, IsInjective
<1>8. Cardinality(0..Len(p)) <= Cardinality(1..n)
  BY <1>6, <1>7, FS_Injection
<1> QED
  BY <1>1, <1>6, <1>8

\* The tree that has been read is the one that the input describes.
LEMMA ReadIsGiven ==
    ASSUME SwapGiven, Grown, NEW p \in DOMAIN tree
    PROVE  Swap!At(tree[p], p)
<1>1. p \in Positions /\ Len(p) \in Nat /\ DOMAIN p = 1..Len(p) /\ n \in Nat /\ IsTree(tree) /\ n # 0
  <2>1. p \in Positions
    BY DEF Grown, IsTree
  <2> QED
    BY <2>1, TurnIs DEF SwapGiven, Grown
<1> DEFINE ids == [k \in 1..(Len(p) + 1) |-> tree[SubSeq(p, 1, k - 1)]]
<1>2. \A k \in 0..Len(p) : SubSeq(p, 1, k) \in DOMAIN tree /\ tree[SubSeq(p, 1, k)] \in 1..n
  BY <1>1 DEF IsTree, Grown
<1>3. \A k \in 0..Len(p) : /\ SubSeq(p, 1, k) \in Positions /\ Len(SubSeq(p, 1, k)) = k
                           /\ Agree(SubSeq(p, 1, k), p, k)
  BY <1>1, SubSeqIs
<1>4. \A k \in 1..(Len(p) + 1) : k - 1 \in 0..Len(p)
  BY <1>1
<1>5. ids \in [1..(Len(p) + 1) -> 1..n]
  BY <1>2, <1>4
<1>6. ids[1] = 1
  <2>1. SubSeq(p, 1, 0) = Root
    <3>1. 0 \in 0..Len(p)
      BY <1>1
    <3> QED
      BY <1>3, <3>1, RootIs, SamePosition DEF Agree
  <2>2. 1 \in 1..(Len(p) + 1) /\ 1 - 1 = 0
    BY <1>1
  <2>3. ids[1] = tree[SubSeq(p, 1, 0)]
    BY <2>2
  <2> QED
    BY <1>1, <2>1, <2>3 DEF Grown
<1>7. ids[Len(p) + 1] = tree[p]
  <2>1. SubSeq(p, 1, Len(p)) = p
    <3>1. Len(p) \in 0..Len(p)
      BY <1>1
    <3> QED
      BY <1>1, <1>3, <3>1, SamePosition
  <2>2. Len(p) + 1 \in 1..(Len(p) + 1) /\ Len(p) + 1 - 1 = Len(p)
    BY <1>1
  <2>3. ids[Len(p) + 1] = tree[SubSeq(p, 1, Len(p))]
    BY <2>2
  <2> QED
    BY <2>1, <2>3
<1>8. ASSUME NEW k \in 1..Len(p) PROVE children[ids[k]][p[k] + 1] = ids[k + 1]
  <2> DEFINE f == SubSeq(p, 1, k - 1)
  <2> DEFINE g == SubSeq(p, 1, k)
  <2>1. k \in 0..Len(p) /\ k - 1 \in 0..Len(p) /\ k + 1 - 1 = k /\ k \in 1..(Len(p) + 1) /\ k + 1 \in 1..(Len(p) + 1)
    BY <1>1
  <2>2. /\ f \in DOMAIN tree /\ f \in Positions /\ Len(f) = k - 1 /\ Agree(f, p, k - 1)
        /\ g \in DOMAIN tree /\ g \in Positions /\ Len(g) = k /\ Agree(g, p, k)
    BY <1>2, <1>3, <2>1
  <2>3. ids[k] = tree[f] /\ ids[k + 1] = tree[g]
    BY <2>1
  <2>4. p[k] \in {Left, Right}
    BY <1>1, TurnIs
  <2> HIDE DEF f, g
  <2>5. g = Append(f, p[k])
    <3> DEFINE c == Append(f, p[k])
    <3>1. c \in Positions /\ Len(c) = k /\ c[k] = p[k] /\ Agree(c, f, k - 1)
      <4>1. /\ c \in Positions /\ Len(c) = Len(f) + 1 /\ c[Len(f) + 1] = p[k] /\ Agree(c, f, Len(f))
        BY <2>2, <2>4, AppendIs
      <4>2. Len(f) + 1 = k /\ Len(f) = k - 1
        BY <2>1, <2>2
      <4> HIDE DEF c
      <4> QED
        BY <4>1, <4>2
    <3> HIDE DEF c
    <3>2. Agree(g, c, Len(g))
      BY <2>1, <2>2, <3>1 DEF Agree
    <3>3. g = c
      BY <2>2, <3>1, <3>2, SamePosition
    <3> QED
      BY <3>3 DEF c
  <2> QED
    BY <2>2, <2>3, <2>4, <2>5 DEF Grown
<1> HIDE DEF ids
<1> QED
  BY <1>1, <1>5, <1>6, <1>7, <1>8 DEF Swap!At

----------------------------------------------------------------------------
\* How often the children at a depth have been swapped.

Earlier(depth, k) == { x \in 1..k : (depth + 1) % depths[x] = 0 }

LEMMA EarlierIs ==
    ASSUME NEW depth \in Nat, NEW k \in Nat
    PROVE  /\ IsFiniteSet(Earlier(depth, k)) /\ Cardinality(Earlier(depth, k)) \in Nat
           /\ Earlier(depth, 0) = {}
           /\ Cardinality(Earlier(depth, k + 1)) =
                  Cardinality(Earlier(depth, k)) + (IF (depth + 1) % depths[k + 1] = 0 THEN 1 ELSE 0)
<1>1. IsFiniteSet(Earlier(depth, k)) /\ Cardinality(Earlier(depth, k)) \in Nat
  <2>1. IsFiniteSet(1..k) /\ Earlier(depth, k) \in SUBSET (1..k)
    BY FS_Interval DEF Earlier
  <2> QED
    BY <2>1, FS_Subset, FS_CardinalityType
<1>2. Earlier(depth, 0) = {}
  BY DEF Earlier
<1>3. \A x : x \in 1..(k + 1) <=> x \in 1..k \/ x = k + 1
  OBVIOUS
<1>4. k + 1 \notin Earlier(depth, k)
  BY DEF Earlier
<1>5. CASE (depth + 1) % depths[k + 1] = 0
  <2>1. Earlier(depth, k + 1) = Earlier(depth, k) \cup {k + 1}
    BY <1>3, <1>5 DEF Earlier
  <2> QED
    BY <1>1, <1>2, <1>4, <1>5, <2>1, FS_AddElement
<1>6. CASE (depth + 1) % depths[k + 1] # 0
  <2>1. Earlier(depth, k + 1) = Earlier(depth, k)
    BY <1>3, <1>6 DEF Earlier
  <2> QED
    BY <1>1, <1>2, <1>6, <2>1
<1> QED
  BY <1>5, <1>6

\* This depth has been swapped by the multiples so far of the swap depth at hand.
SwappedNow(depth) == i < Len(depths) /\ (depth + 1) % depths[i + 1] = 0 /\ depth + 1 < j * depths[i + 1]

LEMMA TimesAre ==
    ASSUME NEW depth
    PROVE  Swap!TimesSwapped(depth) = Cardinality(Earlier(depth, i)) + (IF SwappedNow(depth) THEN 1 ELSE 0)
BY SwapNames DEF Swap!TimesSwapped, Earlier, SwappedNow

LEMMA TimesAreNext ==
    ASSUME NEW depth, depths' = depths
    PROVE  Swap!TimesSwapped(depth)' = Cardinality(Earlier(depth, i')) + (IF SwappedNow(depth)' THEN 1 ELSE 0)
BY SwapNames DEF Swap!TimesSwapped, Earlier, SwappedNow, Swap!Cardinality, Cardinality

----------------------------------------------------------------------------
\* While the tree is swapped: every node is where the swaps so far have turned
\* the place at which the reading put it, and the round's next multiple is a depth.
SwappedInv ==
    /\ taken = n
    /\ DOMAIN tree \subseteq Positions /\ tree \in [DOMAIN tree -> 1..n]
    /\ \A p \in DOMAIN tree : Len(p) < n /\ Swap!At(tree[p], Swap!Unswapped(p))
    /\ i < Len(depths) => (j - 1) * depths[i + 1] <= n
    /\ Swap!ParentsFirst => IsFiniteSet(DOMAIN tree) /\ Cardinality(DOMAIN tree) = n

\* The inductive invariant of swap_tree_nodes.
SwapInv ==
    /\ SwapGiven
    /\ pc = "read" => ReadInv
    /\ pc = "swap" => SwappedInv
    /\ Swap!ParentsFirst => pc # "undefined" /\ (pc = "done" => Cardinality(DOMAIN tree) = n)

LEMMA DepthsAre ==
    ASSUME SwapGiven
    PROVE  /\ n \in Nat /\ Len(depths) \in Nat
           /\ \A k \in 1..Len(depths) : depths[k] \in Nat /\ depths[k] > 0 /\ depths[k] <= n
<1>1. n \in Nat /\ depths \in Seq(1..n)
  BY DEF SwapGiven
<1>2. Len(depths) \in Nat /\ \A k \in 1..Len(depths) : depths[k] \in 1..n
  BY <1>1
<1> QED
  BY <1>1, <1>2

LEMMA UnswappedIs ==
    ASSUME NEW p \in Positions
    PROVE  /\ DOMAIN Swap!Unswapped(p) = 1..Len(p)
           /\ \A k \in 1..Len(p) :
                  Swap!Unswapped(p)[k] = IF Swap!TimesSwapped(k - 1) % 2 = 1 THEN 1 - p[k] ELSE p[k]
BY TurnIs DEF Swap!Unswapped, Swap!Flip

LEMMA NothingSwapped ==
    ASSUME SwapGiven, i = 0, j = 1, NEW p \in Positions PROVE Swap!Unswapped(p) = p
<1>1. ASSUME NEW depth \in Nat PROVE Swap!TimesSwapped(depth) = 0
  <2>1. Cardinality(Earlier(depth, 0)) = 0
    BY EarlierIs, FS_EmptySet
  <2>2. ~SwappedNow(depth)
    <3> SUFFICES ASSUME 0 < Len(depths), (depth + 1) % depths[1] = 0, depth + 1 < 1 * depths[1] PROVE FALSE
      BY DEF SwappedNow
    <3>1. depths[1] \in Nat /\ depths[1] > 0
      BY DepthsAre
    <3>2. (depth + 1) % depths[1] = depth + 1
      BY <3>1, ModOfSmall
    <3> QED
      BY <3>2
  <2> QED
    BY <2>1, <2>2, TimesAre
<1>2. Len(p) \in Nat /\ DOMAIN p = 1..Len(p) /\ p \in Seq({Left, Right})
  BY TurnIs DEF Positions
<1>3. \A k \in 1..Len(p) : Swap!Unswapped(p)[k] = p[k]
  <2>1. \A k \in 1..Len(p) : Swap!TimesSwapped(k - 1) = 0
    BY <1>1
  <2> QED
    BY <2>1, UnswappedIs
<1>4. DOMAIN Swap!Unswapped(p) = 1..Len(p)
  BY UnswappedIs
<1>5. Swap!Unswapped(p) = [k \in 1..Len(p) |-> p[k]]
  BY <1>2, <1>3, <1>4 DEF Swap!Unswapped
<1> QED
  BY <1>2, <1>5

LEMMA SwapsBegin ==
    ASSUME SwapGiven, pc = "read", ReadInv, Swap!StartSwaps
    PROVE  SwapInv'
<1>1. taken = n /\ pc' = "swap" /\ UNCHANGED <<n, children, depths, tree, taken, i, j>>
  BY DEF Swap!StartSwaps, Swap!args
<1>2. SwappedInv
  <2>1. Grown /\ i = 0 /\ j = 1
    BY DEF ReadInv
  <2>2. \A p \in DOMAIN tree : p \in Positions /\ Len(p) < n /\ Swap!At(tree[p], Swap!Unswapped(p))
    BY <2>1, BranchIsShort, ReadIsGiven, NothingSwapped DEF Grown, IsTree
  <2>3. (j - 1) * depths[i + 1] <= n \/ ~(i < Len(depths))
    <3> SUFFICES ASSUME 0 < Len(depths) PROVE 0 * depths[1] <= n
      BY <2>1
    <3>1. depths[1] \in Nat /\ n \in Nat
      BY DepthsAre
    <3> QED
      BY <3>1
  <2> QED
    BY <1>1, <2>1, <2>2, <2>3, AllThere DEF SwappedInv, Grown
<1>3. SwapGiven' /\ (Swap!ParentsFirst' <=> Swap!ParentsFirst)
  BY <1>1 DEF SwapGiven, Swap!ParentsFirst
<1>4. ASSUME NEW p \in DOMAIN tree PROVE Swap!At(tree[p], Swap!Unswapped(p))'
  <2>1. Swap!At(tree[p], Swap!Unswapped(p))
    BY <1>2 DEF SwappedInv
  <2>2. \A x : Swap!TimesSwapped(x)' = Swap!TimesSwapped(x)
    BY <1>1 DEF Swap!TimesSwapped, Swap!Cardinality
  <2>3. Swap!Unswapped(p)' = Swap!Unswapped(p)
    BY <2>2 DEF Swap!Unswapped, Swap!Flip
  <2> DEFINE u == Swap!Unswapped(p)
  <2>4. u' = u /\ n' = n /\ children' = children /\ tree' = tree
    BY <1>1, <2>3
  <2>5. Swap!At(tree[p], u)
    BY <2>1
  <2> HIDE DEF u
  <2>6. Swap!At(tree[p], u)'
    BY <2>4, <2>5 DEF Swap!At
  <2> QED
    BY <2>6 DEF u
<1>5. SwappedInv'
  BY <1>1, <1>2, <1>3, <1>4 DEF SwappedInv
<1> QED
  BY <1>1, <1>3, <1>5 DEF SwapInv

LEMMA MovedIs ==
    ASSUME SwapGiven, NEW depth \in 0..(n - 1), NEW p \in Positions, Len(p) < n
    PROVE  /\ Swap!Moved(depth, p) \in Positions /\ Len(Swap!Moved(depth, p)) = Len(p)
           /\ \A k \in 1..Len(p) : Swap!Moved(depth, p)[k] = IF k = depth + 1 THEN 1 - p[k] ELSE p[k]
<1>1. Len(p) \in Nat /\ DOMAIN p = 1..Len(p) /\ n \in Nat /\ 2 * n < Word /\ Word \in Nat
  BY TurnIs DEF SwapGiven
<1>2. ASSUME NEW k \in 1..Len(p) PROVE Swap!SwapsAt(depth, SubSeq(p, 1, k - 1)) <=> k = depth + 1
  <2>1. Len(SubSeq(p, 1, k - 1)) = k - 1
    <3>1. k - 1 \in 0..Len(p)
      BY <1>1
    <3> QED
      BY <3>1, SubSeqIs
  <2>2. (depth - (k - 1)) % Word = 0 <=> depth - (k - 1) = 0
    <3>1. depth - (k - 1) \in Int /\ 0 - Word < depth - (k - 1) /\ depth - (k - 1) < Word
      BY <1>1
    <3> QED
      BY <1>1, <3>1, ModOfSmall
  <2>3. depth - (k - 1) = 0 <=> k = depth + 1
    BY <1>1
  <2> QED
    BY <2>1, <2>2, <2>3 DEF Swap!SwapsAt
<1> DEFINE f == Swap!Moved(depth, p)
<1>3. f = [k \in 1..Len(p) |-> IF k = depth + 1 THEN 1 - p[k] ELSE p[k]]
  BY <1>1, <1>2 DEF Swap!Moved, Swap!Flip
<1>4. \A k \in 1..Len(p) : p[k] \in {Left, Right} /\ 1 - p[k] \in {Left, Right}
  BY TurnIs, SwapNames
<1> HIDE DEF f
<1>5. f \in [1..Len(p) -> {Left, Right}]
  BY <1>3, <1>4
<1>6. f \in Positions /\ Len(f) = Len(p)
  BY <1>1, <1>5 DEF Positions
<1> QED
  BY <1>3, <1>6 DEF f

LEMMA MovedTwice ==
    ASSUME SwapGiven, NEW depth \in 0..(n - 1), NEW p \in Positions, Len(p) < n
    PROVE  Swap!Moved(depth, Swap!Moved(depth, p)) = p
<1> DEFINE r == Swap!Moved(depth, p)
<1>1. /\ r \in Positions /\ Len(r) = Len(p)
      /\ \A k \in 1..Len(p) : r[k] = IF k = depth + 1 THEN 1 - p[k] ELSE p[k]
  BY MovedIs
<1> HIDE DEF r
<1> DEFINE f == Swap!Moved(depth, r)
<1>2. /\ f \in Positions /\ Len(f) = Len(p)
      /\ \A k \in 1..Len(p) : f[k] = IF k = depth + 1 THEN 1 - r[k] ELSE r[k]
  BY <1>1, MovedIs
<1> HIDE DEF f
<1>3. ASSUME NEW k \in 1..Len(p) PROVE f[k] = p[k]
  <2>1. p[k] \in {0, 1}
    BY TurnIs, SwapNames
  <2> QED
    BY <1>1, <1>2, <2>1
<1>4. f = p
  BY <1>2, <1>3, SamePosition DEF Agree
<1> QED
  BY <1>4 DEF f, r

LEMMA OneMultiple ==
    ASSUME SwapGiven, i < Len(depths), (j - 1) * depths[i + 1] <= n
    PROVE  /\ Swap!Multiple = j * depths[i + 1] /\ j * depths[i + 1] \in Nat
           /\ depths[i + 1] \in Nat /\ depths[i + 1] > 0 /\ j * depths[i + 1] > 0
           /\ i + 1 \in 1..Len(depths)
<1> DEFINE d == depths[i + 1]
<1>1. i + 1 \in 1..Len(depths) /\ n \in Nat /\ Word \in Nat /\ 2 * n < Word /\ j \in Nat /\ j > 0
  <2>1. i \in 0..Len(depths) /\ Len(depths) \in Nat
    BY DepthsAre DEF SwapGiven
  <2>2. i + 1 \in 1..Len(depths)
    BY <2>1
  <2> QED
    BY <2>2 DEF SwapGiven
<1>0. d \in Nat /\ d > 0 /\ d <= n /\ (j - 1) * d <= n
  BY <1>1, DepthsAre
<1> HIDE DEF d
<1>2. j * d = (j - 1) * d + d /\ j * d \in Nat /\ (j - 1) * d >= 0 /\ (j - 1) * d \in Nat /\ j * d >= d
  BY <1>0, <1>1
<1>3. j * d < Word /\ j * d > 0
  <2> DEFINE a == (j - 1) * d
  <2> DEFINE b == j * d
  <2>1. b = a + d /\ a \in Nat /\ a <= n
    BY <1>0, <1>2
  <2> HIDE DEF a, b
  <2>2. b < Word /\ b > 0
    BY <1>0, <1>1, <2>1
  <2> QED
    BY <2>2 DEF b
<1>4. (j * d) % Word = j * d
  BY <1>1, <1>2, <1>3, ModOfSmall
<1> QED
  BY <1>0, <1>1, <1>2, <1>3, <1>4 DEF d, Swap!Multiple

LEMMA SwapOnce ==
    ASSUME SwapGiven, pc = "swap", SwappedInv, Swap!SwapDepth
    PROVE  SwapGiven' /\ SwappedInv' /\ pc' = "swap" /\ (Swap!ParentsFirst' <=> Swap!ParentsFirst)
<1> DEFINE d == depths[i + 1]
<1> DEFINE m == j * d
<1> DEFINE depth == m - 1
<1>1. /\ i < Len(depths) /\ Swap!Multiple <= n
      /\ tree' = Swap!SwapSubtrees(tree, (Swap!Multiple - 1) % Word)
      /\ j' = j + 1 /\ UNCHANGED <<n, children, depths, taken, i, pc>>
  BY DEF Swap!SwapDepth, Swap!Swapping, Swap!args
<1>2. /\ Swap!Multiple = m /\ m \in Nat /\ d \in Nat /\ d > 0 /\ m > 0 /\ m <= n
      /\ n \in Nat /\ Word \in Nat /\ 2 * n < Word /\ j \in Nat /\ i \in Nat
  BY <1>1, OneMultiple DEF SwapGiven, SwappedInv
<1> HIDE DEF m
<1>3. depth \in 0..(n - 1) /\ (Swap!Multiple - 1) % Word = depth
  <2>1. m - 1 \in Int /\ 0 - Word < m - 1 /\ m - 1 < Word /\ m - 1 >= 0 /\ m - 1 \in 0..(n - 1)
    BY <1>2
  <2> QED
    BY <1>2, <2>1, ModOfSmall
<1>4. ASSUME NEW x \in Nat
      PROVE  /\ Swap!TimesSwapped(x) \in Nat
             /\ Swap!TimesSwapped(x)' = Swap!TimesSwapped(x) + (IF x = depth THEN 1 ELSE 0)
  <2>1. Cardinality(Earlier(x, i)) \in Nat
    BY <1>2, EarlierIs
  <2>2. SwappedNow(x)' <=> SwappedNow(x) \/ x = depth
    <3>1. SwappedNow(x)' <=> (x + 1) % d = 0 /\ x + 1 < (j + 1) * d
      BY <1>1 DEF SwappedNow
    <3>2. SwappedNow(x) <=> (x + 1) % d = 0 /\ x + 1 < j * d
      BY <1>1 DEF SwappedNow
    <3>3. x + 1 \in Nat /\ (j + 1) * d = j * d + d /\ j * d = m /\ (x = depth <=> x + 1 = j * d)
      BY <1>2 DEF m
    <3>4. (j * d) % d = 0
      BY <1>2, MultipleIs
    <3>5. (x + 1) % d = 0 /\ j * d <= x + 1 /\ x + 1 < (j + 1) * d => x + 1 = j * d
      BY <1>2, <3>3, MultipleIs
    <3> HIDE DEF d, depth
    <3>6. x + 1 < j * d => x + 1 < (j + 1) * d
      BY <1>2, <3>3
    <3>7. x + 1 < j * d \/ j * d <= x + 1
      BY <1>2, <3>3
    <3>8. x + 1 = j * d => (x + 1) % d = 0 /\ x + 1 < (j + 1) * d
      BY <1>2, <3>3, <3>4
    <3> QED
      BY <3>1, <3>2, <3>3, <3>5, <3>6, <3>7, <3>8
  <2>3. ~(SwappedNow(x) /\ x = depth)
    <3>1. SwappedNow(x) => x + 1 < m
      BY DEF SwappedNow, m
    <3> QED
      BY <1>2, <3>1
  <2>4. Swap!TimesSwapped(x) = Cardinality(Earlier(x, i)) + (IF SwappedNow(x) THEN 1 ELSE 0)
    BY TimesAre
  <2>5. Swap!TimesSwapped(x)' = Cardinality(Earlier(x, i)) + (IF SwappedNow(x)' THEN 1 ELSE 0)
    BY <1>1, TimesAreNext
  <2> QED
    BY <2>1, <2>2, <2>3, <2>4, <2>5
<1> HIDE DEF depth, d
<1> DEFINE M(p) == Swap!Moved(depth, p)
<1>5. tree' = [p \in { M(r) : r \in DOMAIN tree } |-> tree[M(p)]]
  BY <1>1, <1>3 DEF Swap!SwapSubtrees
<1>6. ASSUME NEW r \in DOMAIN tree
      PROVE  /\ r \in Positions /\ M(r) \in Positions /\ Len(M(r)) = Len(r) /\ Len(r) < n /\ M(M(r)) = r
             /\ M(r) \in DOMAIN tree' /\ tree'[M(r)] = tree[r]
             /\ \A k \in 1..Len(r) : M(r)[k] = IF k = depth + 1 THEN 1 - r[k] ELSE r[k]
  <2>1. r \in Positions /\ Len(r) < n
    BY DEF SwappedInv
  <2>2. M(M(r)) = r
    BY <1>3, <2>1, MovedTwice
  <2>3. M(r) \in DOMAIN tree' /\ tree'[M(r)] = tree[M(M(r))]
    BY <1>5
  <2>4. tree'[M(r)] = tree[r]
    BY <2>2, <2>3
  <2> QED
    BY <1>3, <2>1, <2>2, <2>3, <2>4, MovedIs
<1>7. \A p \in DOMAIN tree' : \E r \in DOMAIN tree : p = M(r)
  BY <1>5
<1>8. DOMAIN tree' \subseteq Positions /\ \A p \in DOMAIN tree' : tree'[p] \in 1..n
  BY <1>6, <1>7 DEF SwappedInv
<1>9. tree' \in [DOMAIN tree' -> 1..n]
  BY <1>5, <1>8
<1>10. ASSUME NEW r \in DOMAIN tree, NEW p \in Positions, p = M(r) PROVE Swap!Unswapped(p)' = Swap!Unswapped(r)
  <2>0. Len(r) \in Nat /\ DOMAIN r = 1..Len(r) /\ DOMAIN p = 1..Len(r)
    BY <1>6, <1>10, TurnIs
  <2>1. Swap!Unswapped(p)' = [k \in 1..Len(r) |-> IF Swap!TimesSwapped(k - 1)' % 2 = 1 THEN 1 - p[k] ELSE p[k]]
    BY <2>0 DEF Swap!Unswapped, Swap!Flip
  <2>2. Swap!Unswapped(r) = [k \in 1..Len(r) |-> IF Swap!TimesSwapped(k - 1) % 2 = 1 THEN 1 - r[k] ELSE r[k]]
    BY <2>0 DEF Swap!Unswapped, Swap!Flip
  <2>3. ASSUME NEW k \in 1..Len(r)
        PROVE  (IF Swap!TimesSwapped(k - 1)' % 2 = 1 THEN 1 - p[k] ELSE p[k]) =
                   (IF Swap!TimesSwapped(k - 1) % 2 = 1 THEN 1 - r[k] ELSE r[k])
    <3> DEFINE t == Swap!TimesSwapped(k - 1)
    <3>1. k - 1 \in Nat
      BY <2>0
    <3>2. t \in Nat /\ t' = t + (IF k - 1 = depth THEN 1 ELSE 0)
      BY <1>4, <3>1
    <3>3. r[k] \in {0, 1} /\ p[k] = IF k = depth + 1 THEN 1 - r[k] ELSE r[k]
      BY <1>6, <1>10, TurnIs, SwapNames
    <3>4. k - 1 = depth <=> k = depth + 1
      BY <1>3, <2>0
    <3> HIDE DEF t
    <3>5. CASE k = depth + 1
      <4>1. t' = t + 1 /\ p[k] = 1 - r[k]
        BY <3>2, <3>3, <3>4, <3>5
      <4>2. t' % 2 = 1 <=> ~(t % 2 = 1)
        BY <3>2, <4>1
      <4> QED
        BY <3>3, <4>1, <4>2 DEF t
    <3>6. CASE k # depth + 1
      <4>1. t' = t /\ p[k] = r[k]
        BY <3>2, <3>3, <3>4, <3>6
      <4> QED
        BY <4>1 DEF t
    <3> QED
      BY <3>5, <3>6
  <2> HIDE DEF M
  <2>4. [k \in 1..Len(r) |-> IF Swap!TimesSwapped(k - 1)' % 2 = 1 THEN 1 - p[k] ELSE p[k]] =
            [k \in 1..Len(r) |-> IF Swap!TimesSwapped(k - 1) % 2 = 1 THEN 1 - r[k] ELSE r[k]]
    BY <2>3
  <2> QED
    BY <2>1, <2>2, <2>4
<1>11. ASSUME NEW p \in DOMAIN tree' PROVE Len(p) < n /\ Swap!At(tree[p], Swap!Unswapped(p))'
  <2>1. PICK r \in DOMAIN tree : p = M(r)
    BY <1>7
  <2>2. Swap!At(tree[r], Swap!Unswapped(r))
    BY DEF SwappedInv
  <2>3. Swap!Unswapped(p)' = Swap!Unswapped(r) /\ tree'[p] = tree[r]
    BY <1>6, <1>10, <2>1
  <2> DEFINE u == Swap!Unswapped(p)
  <2>4. n' = n /\ children' = children /\ u' = Swap!Unswapped(r)
    BY <1>1, <2>3
  <2> HIDE DEF u
  <2>5. Swap!At(tree[p], u)'
    BY <2>2, <2>3, <2>4 DEF Swap!At
  <2> QED
    BY <1>6, <2>1, <2>5 DEF u
<1>12. (i < Len(depths) => (j - 1) * depths[i + 1] <= n)'
  <2>1. (j + 1 - 1) * d = m
    BY <1>2 DEF m
  <2> QED
    BY <1>1, <1>2, <2>1 DEF d
<1>13. ASSUME IsFiniteSet(DOMAIN tree) /\ Cardinality(DOMAIN tree) = n
       PROVE  IsFiniteSet(DOMAIN tree') /\ Cardinality(DOMAIN tree') = n
  <2> DEFINE f == [r \in DOMAIN tree |-> M(r)]
  <2>1. f \in Surjection(DOMAIN tree, DOMAIN tree')
    BY <1>6, <1>7 DEF Surjection
  <2>2. f \in Injection(DOMAIN tree, DOMAIN tree')
    <3>1. \A r, p \in DOMAIN tree : M(r) = M(p) => r = p
      BY <1>6
    <3>2. f \in [DOMAIN tree -> DOMAIN tree'] /\ DOMAIN f = DOMAIN tree
      BY <1>6
    <3> QED
      BY <3>1, <3>2 DEF Injection, IsInjective
  <2> HIDE DEF f
  <2> QED
    BY <1>13, <2>1, <2>2, FS_Surjection
<1>14. SwapGiven' /\ (Swap!ParentsFirst' <=> Swap!ParentsFirst)
  BY <1>1, <1>2 DEF SwapGiven, Swap!ParentsFirst
<1> QED
  BY <1>1, <1>8, <1>9, <1>11, <1>12, <1>13, <1>14 DEF SwappedInv

\* The swaps that a full round of multiples leaves behind are those of one
\* more swap depth.
LEMMA RoundCounts ==
    ASSUME SwapGiven, i < Len(depths), j * depths[i + 1] > n,
           i' = i + 1, j' = 1, UNCHANGED <<n, depths>>,
           NEW x \in Nat, x < n
    PROVE  Swap!TimesSwapped(x)' = Swap!TimesSwapped(x)
<1>1. /\ i \in Nat /\ i + 1 \in 1..Len(depths) /\ n \in Nat /\ Len(depths) \in Nat /\ j \in Nat
  <2>1. i \in 0..Len(depths) /\ Len(depths) \in Nat
    BY DepthsAre DEF SwapGiven
  <2> QED
    BY <2>1 DEF SwapGiven
<1> DEFINE d == depths[i + 1]
<1>2. d \in Nat /\ d > 0
  BY <1>1, DepthsAre
<1> DEFINE due == (x + 1) % d = 0
<1>3. SwappedNow(x) <=> due
  <2>1. x + 1 < j * d
    <3> DEFINE m == j * d
    <3>1. m \in Nat /\ m > n
      BY <1>1, <1>2
    <3> HIDE DEF m
    <3>2. x + 1 < m
      BY <1>1, <3>1
    <3> QED
      BY <3>2 DEF m
  <2> QED
    BY <2>1 DEF SwappedNow
<1>4. ~SwappedNow(x)'
  <2> SUFFICES ASSUME SwappedNow(x)' PROVE FALSE
    OBVIOUS
  <2> DEFINE e == depths[i + 1 + 1]
  <2>1. i + 1 < Len(depths) /\ (x + 1) % e = 0 /\ x + 1 < 1 * e
    BY DEF SwappedNow
  <2>2. i + 1 + 1 \in 1..Len(depths)
    BY <1>1, <2>1
  <2>3. e \in Nat /\ e > 0
    BY <2>2, DepthsAre
  <2> HIDE DEF e
  <2>4. x + 1 \in Int /\ 0 - e < x + 1 /\ x + 1 < e /\ x + 1 # 0
    BY <2>1, <2>3
  <2> QED
    BY <2>1, <2>3, <2>4, ModOfSmall
<1>5. Swap!TimesSwapped(x)' = Cardinality(Earlier(x, i + 1))
  <2>1. Swap!TimesSwapped(x)' = Cardinality(Earlier(x, i')) + (IF SwappedNow(x)' THEN 1 ELSE 0)
    <3>1. depths' = depths
      OBVIOUS
    <3> QED
      BY <3>1, TimesAreNext
  <2>2. Cardinality(Earlier(x, i + 1)) \in Nat
    <3>1. i + 1 \in Nat
      BY <1>1
    <3> QED
      BY <3>1, EarlierIs
  <2> QED
    BY <1>4, <2>1, <2>2
<1>6. Cardinality(Earlier(x, i + 1)) = Cardinality(Earlier(x, i)) + (IF due THEN 1 ELSE 0)
  BY <1>1, EarlierIs
<1>7. Swap!TimesSwapped(x) = Cardinality(Earlier(x, i)) + (IF SwappedNow(x) THEN 1 ELSE 0)
  BY TimesAre
<1> QED
  BY <1>3, <1>5, <1>6, <1>7

LEMMA RoundEnds ==
    ASSUME SwapGiven, pc = "swap", SwappedInv, Swap!PrintIds
    PROVE  SwapGiven' /\ SwappedInv' /\ pc' = "swap" /\ (Swap!ParentsFirst' <=> Swap!ParentsFirst)
<1>1. /\ i < Len(depths) /\ Swap!Multiple > n
      /\ i' = i + 1 /\ j' = 1 /\ UNCHANGED <<n, children, depths, tree, taken, pc>>
  BY DEF Swap!PrintIds, Swap!Swapping, Swap!args
<1>2. j * depths[i + 1] > n
  <2>1. Swap!Multiple = j * depths[i + 1]
    BY <1>1, OneMultiple DEF SwappedInv
  <2> QED
    BY <1>1, <2>1
<1>3. i + 1 \in 0..Len(depths) /\ n \in Nat
  <2>1. i \in 0..Len(depths) /\ Len(depths) \in Nat /\ n \in Nat
    BY DepthsAre DEF SwapGiven
  <2> QED
    BY <1>1, <2>1
<1>4. ASSUME NEW p \in DOMAIN tree PROVE Swap!At(tree[p], Swap!Unswapped(p))'
  <2>1. Swap!At(tree[p], Swap!Unswapped(p)) /\ p \in Positions /\ Len(p) < n
    BY DEF SwappedInv
  <2>2. Len(p) \in Nat /\ DOMAIN p = 1..Len(p)
    BY <2>1, TurnIs
  <2>3. ASSUME NEW k \in 1..Len(p) PROVE Swap!TimesSwapped(k - 1)' = Swap!TimesSwapped(k - 1)
    <3>1. k - 1 \in Nat /\ k - 1 < n
      BY <1>3, <2>1, <2>2
    <3> QED
      BY <1>1, <1>2, <3>1, RoundCounts
  <2>4. Swap!Unswapped(p)' = Swap!Unswapped(p)
    <3>1. Swap!Unswapped(p)' = [k \in 1..Len(p) |-> IF Swap!TimesSwapped(k - 1)' % 2 = 1 THEN 1 - p[k] ELSE p[k]]
      BY <2>2 DEF Swap!Unswapped, Swap!Flip
    <3>2. Swap!Unswapped(p) = [k \in 1..Len(p) |-> IF Swap!TimesSwapped(k - 1) % 2 = 1 THEN 1 - p[k] ELSE p[k]]
      BY <2>2 DEF Swap!Unswapped, Swap!Flip
    <3> QED
      BY <2>3, <3>1, <3>2
  <2> DEFINE u == Swap!Unswapped(p)
  <2>5. u' = u /\ n' = n /\ children' = children /\ tree' = tree
    BY <1>1, <2>4
  <2>6. Swap!At(tree[p], u)
    BY <2>1
  <2> HIDE DEF u
  <2>7. Swap!At(tree[p], u)'
    BY <2>5, <2>6 DEF Swap!At
  <2> QED
    BY <2>7 DEF u
<1>5. SwapGiven' /\ (Swap!ParentsFirst' <=> Swap!ParentsFirst)
  BY SMTT(20), <1>1, <1>3 DEF SwapGiven, Swap!ParentsFirst
<1>6. (i < Len(depths) => (j - 1) * depths[i + 1] <= n)'
  <2> SUFFICES ASSUME i + 1 < Len(depths) PROVE (1 - 1) * depths[i + 1 + 1] <= n
    BY <1>1
  <2>1. i + 1 + 1 \in 1..Len(depths)
    <3>1. Len(depths) \in Nat
      BY DepthsAre
    <3> QED
      BY <1>3, <3>1
  <2>2. depths[i + 1 + 1] \in Nat
    BY <2>1, DepthsAre
  <2> QED
    BY <1>3, <2>2
<1> QED
  BY <1>1, <1>4, <1>5, <1>6 DEF SwappedInv

LEMMA SwapStep == SwapInv /\ (Swap!Next \/ UNCHANGED Swap!vars) => SwapInv'
<1> SUFFICES ASSUME SwapInv, Swap!Next \/ UNCHANGED Swap!vars PROVE SwapInv'
  OBVIOUS
<1>0. SwapGiven
  BY DEF SwapInv
<1>1. CASE Swap!ReadChildren
  <2>1. pc = "read" /\ ReadInv
    BY <1>1 DEF Swap!ReadChildren, SwapInv
  <2> QED
    BY <1>0, <1>1, <2>1, ReadOn DEF SwapInv
<1>2. CASE Swap!MissNode
  <2>1. pc = "read" /\ ReadInv
    BY <1>2 DEF Swap!MissNode, SwapInv
  <2> QED
    BY <1>0, <1>2, <2>1, MissedNeverFirst DEF SwapInv
<1>3. CASE Swap!StartSwaps
  <2>1. pc = "read" /\ ReadInv
    BY <1>3 DEF Swap!StartSwaps, SwapInv
  <2> QED
    BY <1>0, <1>3, <2>1, SwapsBegin
<1>4. CASE Swap!SwapDepth
  <2>1. pc = "swap" /\ SwappedInv
    BY <1>4 DEF Swap!SwapDepth, Swap!Swapping, SwapInv
  <2> QED
    BY <1>0, <1>4, <2>1, SwapOnce DEF SwapInv
<1>5. CASE Swap!PrintIds
  <2>1. pc = "swap" /\ SwappedInv
    BY <1>5 DEF Swap!PrintIds, Swap!Swapping, SwapInv
  <2> QED
    BY <1>0, <1>5, <2>1, RoundEnds DEF SwapInv
<1>6. CASE Swap!Exit
  <2>1. /\ pc = "swap" /\ SwappedInv /\ pc' = "done"
        /\ UNCHANGED <<n, children, depths, tree, taken, i, j>>
    BY <1>6 DEF Swap!Exit, Swap!args, SwapInv
  <2>2. SwapGiven' /\ (Swap!ParentsFirst' <=> Swap!ParentsFirst)
    BY <1>0, <2>1 DEF SwapGiven, Swap!ParentsFirst
  <2>3. Swap!ParentsFirst => Cardinality(DOMAIN tree') = n'
    BY <2>1 DEF SwappedInv
  <2> QED
    BY <2>1, <2>2, <2>3 DEF SwapInv
<1>7. CASE UNCHANGED Swap!vars
  <2>1. UNCHANGED <<n, children, depths, tree, taken, i, j, pc>>
    BY <1>7 DEF Swap!vars, Swap!args
  <2>2. SwapGiven' /\ (Swap!ParentsFirst' <=> Swap!ParentsFirst)
    BY <1>0, <2>1 DEF SwapGiven, Swap!ParentsFirst
  <2>3. pc' = "read" => ReadInv'
    BY <2>1, <2>2 DEF SwapInv, ReadInv, Grown, Reached
  <2>4. pc' = "swap" => SwappedInv'
    <3> SUFFICES ASSUME pc = "swap" PROVE SwappedInv'
      BY <2>1
    <3>1. SwappedInv
      BY DEF SwapInv
    <3>2. ASSUME NEW p \in DOMAIN tree PROVE Swap!At(tree[p], Swap!Unswapped(p))'
      <4>1. \A x : Swap!TimesSwapped(x)' = Swap!TimesSwapped(x)
        BY <2>1 DEF Swap!TimesSwapped, Swap!Cardinality
      <4> DEFINE u == Swap!Unswapped(p)
      <4>2. u' = u
        BY <4>1 DEF Swap!Unswapped, Swap!Flip
      <4>3. Swap!At(tree[p], u)
        BY <3>1 DEF SwappedInv
      <4> HIDE DEF u
      <4>4. Swap!At(tree[p], u)'
        BY <2>1, <4>2, <4>3 DEF Swap!At
      <4> QED
        BY <4>4 DEF u
    <3> QED
      BY <2>1, <2>2, <3>1, <3>2 DEF SwappedInv
  <2> QED
    BY <2>1, <2>2, <2>3, <2>4 DEF SwapInv
<1> QED
  BY <1>1, <1>2, <1>3, <1>4, <1>5, <1>6, <1>7 DEF Swap!Next, Swap!Finished

LEMMA SwapIsParity == SwapInv => Swap!SwapsAreParity
<1> SUFFICES ASSUME SwapInv PROVE Swap!SwapsAreParity
  OBVIOUS
<1>1. pc = "swap" => \A p \in DOMAIN tree : Swap!At(tree[p], Swap!Unswapped(p))
  BY DEF SwapInv, SwappedInv
<1>2. ASSUME Swap!ParentsFirst PROVE pc # "undefined" /\ (taken = n => Cardinality(DOMAIN tree) = n)
  <2>1. pc # "undefined" /\ pc \in {"read", "swap", "done", "undefined"} /\ SwapGiven
    BY <1>2 DEF SwapInv, SwapGiven
  <2>2. CASE pc = "read"
    BY <1>2, <2>1, <2>2, AllThere DEF SwapInv
  <2>3. CASE pc = "swap"
    BY <1>2, <2>3 DEF SwapInv, SwappedInv
  <2>4. CASE pc = "done"
    BY <1>2, <2>4 DEF SwapInv
  <2> QED
    BY <2>1, <2>2, <2>3, <2>4
<1>3. Swap!Cardinality(DOMAIN tree) = Cardinality(DOMAIN tree)
  BY SwapNames
<1> QED
  BY <1>1, <1>2, <1>3 DEF Swap!SwapsAreParity

\* swap_subtrees of swap_tree_nodes.cc, one multiple of a depth after the other,
\* amounts to the parity of the swaps at each depth, wrapping of the depth included.
THEOREM TreesSwapsAreParity == Spec => []SwapsAreParity
<1> DEFINE Inv == program = "swap" => SwapInv
<1>1. Init => Inv
  <2>1. ASSUME Init, program = "swap" PROVE SwapInv
    <3>1. Swap!Init
      BY <2>1, OneStarts
    <3> QED
      BY <3>1, SwapStarts DEF SwapInv
  <2> QED
    BY <2>1
<1>2. Inv /\ [Next]_vars => Inv'
  <2>1. ASSUME Inv, [Next]_vars, program' = "swap" PROVE SwapInv'
    <3>1. program = "swap" /\ (Swap!Next \/ UNCHANGED Swap!vars)
      BY <2>1, OneRuns
    <3> QED
      BY <2>1, <3>1, SwapStep
  <2> QED
    BY <2>1
<1>3. Inv => SwapsAreParity
  BY SwapIsParity DEF SwapsAreParity
<1> QED
  BY <1>1, <1>2, <1>3, PTL DEF Spec
=============================================================================
