----------------------- MODULE SequenceProgramsProofs -----------------------
(***************************************************************************)
(* The programs that read lists, values and stack queries are right for    *)
(* inputs of every length.  Each of them has an inductive invariant of its *)
(* own, about the variables that are its own while it is the one that      *)
(* runs.                                                                   *)
(*                                                                         *)
(* A set of naturals that holds 0 and with each number the next one is all *)
(* of them (Induction); what is counted, summed or followed along a list   *)
(* is proved with it.                                                      *)
(***************************************************************************)
EXTENDS SequencePrograms, FiniteSetTheorems, SequenceTheorems, WellFoundedInduction, TLAPS

\* One program runs, and none of the others takes a step.
LEMMA OneRuns ==
    ASSUME [Next]_vars
    PROVE  /\ program' = program
           /\ program = "tail" => FromTail!Next \/ UNCHANGED FromTail!vars
           /\ program = "stack" => Stack!Next \/ UNCHANGED Stack!vars
           /\ program = "array" => Array!Next \/ UNCHANGED Array!vars
           /\ program = "median" => Median!Next \/ UNCHANGED Median!vars
           /\ program = "merge" => Merge!Next \/ UNCHANGED Merge!vars
<1>1. CASE UNCHANGED vars
  BY <1>1 DEF vars, listsOnly, mergeOnly, tailOnly, medianOnly, arrayOnly, stackOnly, FromTail!vars, FromTail!walk,
              Stack!vars, Array!vars, Array!args, Median!vars, Merge!vars, Merge!lists, Merge!cursors
<1>2. CASE Next
  BY <1>2 DEF Next
<1> QED
  BY <1>1, <1>2

LEMMA OneStarts ==
    ASSUME Init
    PROVE  /\ program = "tail" => FromTail!Init
           /\ program = "stack" => Stack!Init
           /\ program = "array" => Array!Init
           /\ program = "median" => Median!Init
           /\ program = "merge" => Merge!Init
BY DEF Init

LEMMA Pairs ==
    ASSUME NEW x \in Nat, NEW y \in Nat, x < y PROVE <<x, y>> \in OpToRel(<, Nat)
BY DEF OpToRel

\* A set of naturals that is not empty has a least member.
LEMMA Least ==
    ASSUME NEW T, T \subseteq Nat, T # {} PROVE \E x \in T : \A y \in T : x <= y
<1>1. PICK x \in T : \A y \in T : ~ (<<y, x>> \in OpToRel(<, Nat))
  BY NatLessThanWellFounded, WFMin
<1>2. ASSUME NEW y \in T PROVE x <= y
  <2>1. ~(y < x)
    BY <1>1, Pairs
  <2> QED
    BY <2>1
<1> QED
  BY <1>1, <1>2

LEMMA Induction ==
    ASSUME NEW T, 0 \in T, \A m \in Nat : m \in T => m + 1 \in T PROVE Nat \subseteq T
<1> SUFFICES ASSUME Nat \ T # {} PROVE FALSE
  OBVIOUS
<1>1. PICK x \in Nat \ T : \A y \in Nat \ T : x <= y
  BY Least
<1>2. x # 0 /\ x - 1 \in Nat /\ x - 1 \in T
  BY <1>1
<1> QED
  BY <1>1, <1>2

----------------------------------------------------------------------------
\* node_from_tail.cc.  The heap is the list read so far, linked in order, and
\* the cursor of a walk is at the node that its count says.

Nodes == [value: Nat, next: Nat]

\* A node for v has come to the end of the heap, and last links to it.
IsGrown(g, h, last, v) ==
    /\ g \in Seq(Nodes) /\ Len(g) = Len(h) + 1
    /\ g[Len(h) + 1].value = v /\ g[Len(h) + 1].next = 0
    /\ \A k \in 1..Len(h) :
          /\ g[k].value = h[k].value
          /\ g[k].next = IF k = last THEN Len(h) + 1 ELSE h[k].next

LEMMA Grows ==
    ASSUME NEW h \in Seq(Nodes), NEW last \in 0..Len(h), NEW v \in Nat
    PROVE  IsGrown(FromTail!Grown(h, last, v), h, last, v)
<1> DEFINE linked == IF last = 0 THEN h ELSE [h EXCEPT ![last].next = Len(h) + 1]
<1> DEFINE node == [value |-> v, next |-> 0]
<1>1. FromTail!Grown(h, last, v) = Append(linked, node)
  BY DEF FromTail!Grown, FromTail!Null
<1>2. Len(h) \in Nat /\ \A k \in 1..Len(h) : h[k] \in Nodes
  OBVIOUS
<1>3. /\ linked \in Seq(Nodes) /\ Len(linked) = Len(h)
      /\ \A k \in 1..Len(h) :
            linked[k] = IF k = last THEN [value |-> h[k].value, next |-> Len(h) + 1] ELSE h[k]
  <2>1. CASE last = 0
    BY <1>2, <2>1
  <2>2. CASE last # 0
    <3>1. [h[last] EXCEPT !.next = Len(h) + 1] = [value |-> h[last].value, next |-> Len(h) + 1]
      BY <1>2, <2>2 DEF Nodes
    <3>2. [value |-> h[last].value, next |-> Len(h) + 1] \in Nodes
      BY <1>2, <2>2 DEF Nodes
    <3> HIDE DEF Nodes
    <3>3. linked = [h EXCEPT ![last] = [h[last] EXCEPT !.next = Len(h) + 1]]
      BY <2>2
    <3>4. linked \in Seq(Nodes) /\ Len(linked) = Len(h)
      BY <1>2, <3>1, <3>2, <3>3
    <3>5. \A k \in 1..Len(h) : linked[k] = IF k = last THEN [h[last] EXCEPT !.next = Len(h) + 1] ELSE h[k]
      BY <1>2, <3>3
    <3> HIDE DEF linked
    <3> QED
      BY <2>2, <3>1, <3>4, <3>5
  <2> QED
    BY <2>1, <2>2
<1>4. node \in Nodes /\ node.value = v /\ node.next = 0
  BY DEF Nodes
<1>6. \A k \in 1..Len(h) : /\ linked[k].value = h[k].value
                           /\ linked[k].next = IF k = last THEN Len(h) + 1 ELSE h[k].next
  <2> HIDE DEF linked
  <2> SUFFICES ASSUME NEW k \in 1..Len(h)
               PROVE  /\ linked[k].value = h[k].value
                      /\ linked[k].next = IF k = last THEN Len(h) + 1 ELSE h[k].next
    OBVIOUS
  <2>1. CASE k = last
    <3>1. linked[k] = [value |-> h[k].value, next |-> Len(h) + 1]
      BY <1>3, <2>1
    <3> QED
      BY <2>1, <3>1
  <2>2. CASE k # last
    BY <1>3, <2>2
  <2> QED
    BY <2>1, <2>2
<1> HIDE DEF linked, node, Nodes
<1>5. /\ Append(linked, node) \in Seq(Nodes) /\ Len(Append(linked, node)) = Len(h) + 1
      /\ Append(linked, node)[Len(h) + 1] = node
      /\ \A k \in 1..Len(h) : Append(linked, node)[k] = linked[k]
  BY <1>2, <1>3, <1>4
<1> QED
  BY <1>1, <1>4, <1>5, <1>6 DEF IsGrown

TailCases == [list: Seq(Nat), tail_pos: Nat]

\* The value the k-th case asks for.
Asked(k) == cases[k].list[Len(cases[k].list) - cases[k].tail_pos]

\* Every case before the one in hand has been answered.
TailAnswers ==
    /\ cases \in Seq(TailCases) /\ c \in Nat \ {0}
    /\ \A k \in DOMAIN cases : Len(cases[k].list) < Word
    /\ printed \in Seq(Nat) /\ Len(printed) = c - 1 /\ c - 1 <= Len(cases)
    /\ \A k \in 1..(c - 1) : cases[k].tail_pos < Len(cases[k].list) /\ printed[k] = Asked(k)

\* The heap holds the values taken so far, each node followed by the next one.
TailHeap ==
    /\ c <= Len(cases)
    /\ taken \in 0..Len(cases[c].list)
    /\ heap \in Seq(Nodes) /\ Len(heap) = taken
    /\ \A k \in 1..taken : /\ heap[k].value = cases[c].list[k]
                            /\ heap[k].next = IF k < taken THEN k + 1 ELSE 0
    /\ head = IF taken = 0 THEN 0 ELSE 1
    /\ tail = taken

\* As many nodes have been counted, or walked over, as the cursor is on.
TailWalks ==
    /\ pc \in {"create", "count", "walk", "done", "abort", "undefined"}
    /\ pc # "done" => TailHeap
    /\ pc \in {"count", "walk"} => taken = Len(cases[c].list) /\ taken > 0
    /\ pc = "count" =>
          /\ list_len \in 0..taken /\ i = 0
          /\ cur = IF list_len < taken THEN list_len + 1 ELSE 0
    /\ pc = "walk" =>
          /\ cases[c].tail_pos < taken
          /\ pos = taken - cases[c].tail_pos - 1
          /\ i \in 0..pos
          /\ cur = i + 1
    /\ pc = "abort" => cases[c].tail_pos >= Len(cases[c].list)
    /\ pc = "undefined" => Len(cases[c].list) = 0
    /\ pc = "done" => c = Len(cases) + 1

TailInv == TailAnswers /\ TailWalks

LEMMA TailInit == FromTail!Init => TailInv
<1> SUFFICES ASSUME FromTail!Init PROVE TailInv
  OBVIOUS
<1>1. cases \in Seq(TailCases) /\ \A k \in DOMAIN cases : Len(cases[k].list) < Word
  BY InputsAssumption DEF FromTail!Init, FromTail!InputsOK, TailCases
<1>2. c = 1 /\ printed = <<>> /\ Len(printed) = 0 /\ printed \in Seq(Nat) /\ Len(cases) \in Nat
  BY <1>1 DEF FromTail!Init
<1>3. TailAnswers
  BY <1>1, <1>2 DEF TailAnswers
<1>4. cases # <<>> => c <= Len(cases) /\ cases[c].list \in Seq(Nat)
  <2>1. cases # <<>> => 1 \in 1..Len(cases)
    BY <1>1, EmptySeq
  <2>2. cases # <<>> => cases[1] \in TailCases
    BY <1>1, <2>1
  <2> QED
    BY <1>2, <2>1, <2>2 DEF TailCases
<1>5. cases # <<>> => TailHeap
  BY <1>2, <1>4 DEF FromTail!Init, FromTail!Null, TailHeap
<1>6. TailWalks
  BY <1>2, <1>5 DEF FromTail!Init, TailWalks
<1> QED
  BY <1>3, <1>6 DEF TailInv

\* What is known while a case is in hand.
LEMMA TailCase ==
    ASSUME TailInv, pc # "done"
    PROVE  /\ c \in 1..Len(cases) /\ FromTail!Case = cases[c]
           /\ cases[c].list \in Seq(Nat) /\ Len(cases[c].list) \in Nat /\ Len(cases[c].list) < Word
           /\ cases[c].tail_pos \in Nat /\ taken \in Nat /\ taken <= Len(cases[c].list)
           /\ TailHeap /\ TailAnswers
<1>1. TailHeap /\ TailAnswers
  BY DEF TailInv, TailWalks
<1>2. c \in 1..Len(cases) /\ cases \in Seq(TailCases)
  BY <1>1 DEF TailHeap, TailAnswers
<1>3. cases[c] \in TailCases
  BY <1>2
<1> QED
  BY <1>1, <1>2, <1>3 DEF TailHeap, TailAnswers, TailCases, FromTail!Case

LEMMA SmallMod == ASSUME NEW m \in Nat, NEW w \in Nat, m < w PROVE m % w = m
OBVIOUS

LEMMA TailNext == TailInv /\ FromTail!Next => TailInv'
<1> SUFFICES ASSUME TailInv, FromTail!Next PROVE TailInv'
  OBVIOUS
<1>1. CASE FromTail!CreateNode
  <2>1. /\ pc = "create" /\ taken < Len(cases[c].list) /\ taken' = taken + 1
        /\ heap' = FromTail!Grown(heap, tail, cases[c].list[taken'])
        /\ head' = FromTail!HeadAfter(heap, head) /\ tail' = Len(heap')
        /\ UNCHANGED <<cases, c, printed, pc>>
    BY <1>1, TailCase DEF FromTail!CreateNode
  <2>2. heap \in Seq(Nodes) /\ Len(heap) = taken /\ tail = taken /\ taken \in Nat
    BY <2>1, TailCase DEF TailHeap
  <2>3. cases[c].list[taken + 1] \in Nat
    BY <2>1, TailCase
  <2>4. /\ heap' \in Seq(Nodes) /\ Len(heap') = taken'
        /\ heap'[taken'].value = cases[c].list[taken'] /\ heap'[taken'].next = 0
        /\ \A k \in 1..taken : /\ heap'[k].value = heap[k].value
                               /\ heap'[k].next = IF k = taken THEN taken + 1 ELSE heap[k].next
    <3> DEFINE v == cases[c].list[taken + 1]
    <3>1. heap' = FromTail!Grown(heap, taken, v) /\ v \in Nat /\ taken \in 0..Len(heap)
      BY <2>1, <2>2, <2>3
    <3> HIDE DEF v
    <3>2. IsGrown(heap', heap, taken, v)
      BY <2>2, <3>1, Grows
    <3> QED
      BY <2>1, <2>2, <3>2 DEF v, IsGrown
  <2>5. \A k \in 1..taken : /\ heap[k].value = cases[c].list[k]
                             /\ heap[k].next = IF k < taken THEN k + 1 ELSE 0
    BY <2>1, TailCase DEF TailHeap
  <2>6. ASSUME NEW k \in 1..taken'
        PROVE  /\ heap'[k].value = cases[c].list[k]
               /\ heap'[k].next = IF k < taken' THEN k + 1 ELSE 0
    <3>1. CASE k = taken'
      BY <2>1, <2>2, <2>4, <3>1
    <3>2. CASE k # taken'
      <4>1. k \in 1..taken /\ k < taken'
        BY <2>1, <2>2, <3>2
      <4> QED
        <5>1. /\ heap[k].value = cases[c].list[k] /\ heap[k].next = IF k < taken THEN k + 1 ELSE 0
              /\ heap'[k].value = heap[k].value
              /\ heap'[k].next = IF k = taken THEN taken + 1 ELSE heap[k].next
          BY <2>4, <2>5, <4>1
        <5>2. k = taken \/ k < taken
          BY <2>2, <4>1
        <5> QED
          BY <4>1, <5>1, <5>2
    <3> QED
      BY <3>1, <3>2
  <2>7. head' = 1 /\ taken' # 0
    BY <2>1, <2>2, TailCase DEF FromTail!HeadAfter, FromTail!Null, TailHeap
  <2>8. TailHeap'
    <3>1. c <= Len(cases) /\ taken' \in 0..Len(cases[c].list) /\ UNCHANGED <<cases, c>>
      BY <2>1, <2>2, TailCase DEF TailHeap
    <3> QED
      BY <2>1, <2>4, <2>6, <2>7, <3>1 DEF TailHeap
  <2> QED
    BY <2>1, <2>8 DEF TailInv, TailWalks, TailAnswers, Asked
<1>2. CASE FromTail!CallPosition
  <2>1. UNCHANGED <<cases, c, taken, heap, head, tail, pos, printed>> /\ pc = "create"
    BY <1>2 DEF FromTail!CallPosition
  <2>2. TailHeap' /\ TailAnswers'
    BY <2>1, TailCase DEF TailHeap, TailAnswers, Asked
  <2> QED
    BY <1>2, <2>1, <2>2, TailCase DEF FromTail!CallPosition, FromTail!Null, TailHeap, TailInv, TailWalks
<1>3. CASE FromTail!CountNode
  <2>1. /\ UNCHANGED <<cases, c, taken, heap, head, tail, pos, i, printed, pc>> /\ pc = "count" /\ cur # 0
        /\ list_len' = (list_len + 1) % Word /\ cur' = heap[cur].next
    BY <1>3 DEF FromTail!CountNode, FromTail!Null, FromTail!Following
  <2>2. TailHeap' /\ TailAnswers'
    BY <2>1, TailCase DEF TailHeap, TailAnswers, Asked
  <2>3. /\ list_len \in 0..taken /\ i = 0 /\ taken = Len(cases[c].list) /\ taken > 0
        /\ cur = IF list_len < taken THEN list_len + 1 ELSE 0
    BY <2>1 DEF TailInv, TailWalks
  <2>4. list_len \in Nat /\ list_len < taken /\ taken < Word /\ Word \in Nat /\ taken \in Nat /\ cur = list_len + 1
    BY <2>1, <2>3, TailCase, InputsAssumption DEF FromTail!InputsOK
  <2>5. list_len' = list_len + 1
    BY <2>1, <2>4
  <2>6. cur' = IF list_len + 1 < taken THEN list_len + 2 ELSE 0
    BY <2>1, <2>4, TailCase DEF TailHeap
  <2> QED
    BY <2>1, <2>2, <2>3, <2>4, <2>5, <2>6 DEF TailInv, TailWalks
<1>4. CASE FromTail!Counted
  <2>1. /\ UNCHANGED <<cases, c, taken, heap, head, tail, list_len, i, printed>> /\ pc = "count" /\ cur = 0
        /\ \/ cases[c].tail_pos >= list_len /\ pc' = "abort"
           \/ /\ cases[c].tail_pos < list_len
              /\ pos' = (list_len - cases[c].tail_pos - 1) % Word
              /\ cur' = head /\ pc' = "walk"
    <3>1. list_len \in Int
      BY <1>4, TailCase DEF FromTail!Counted, TailInv, TailWalks
    <3> QED
      BY <1>4, <3>1, TailCase DEF FromTail!Counted, FromTail!Null
  <2>2. TailHeap' /\ TailAnswers'
    BY <2>1, TailCase DEF TailHeap, TailAnswers, Asked
  <2>3. list_len = taken /\ i = 0 /\ taken = Len(cases[c].list) /\ taken > 0
    BY <2>1, TailCase DEF TailInv, TailWalks
  <2>4. CASE cases[c].tail_pos >= list_len /\ pc' = "abort"
    BY <2>1, <2>2, <2>3, <2>4 DEF TailInv, TailWalks
  <2>5. CASE cases[c].tail_pos < list_len /\ pc' = "walk"
    <3>1. /\ pos' = (list_len - cases[c].tail_pos - 1) % Word /\ cur' = head
          /\ Word \in Nat \ {0} /\ taken < Word /\ taken \in Nat /\ cases[c].tail_pos \in Nat /\ head = 1
      BY <2>1, <2>3, <2>5, TailCase, InputsAssumption DEF FromTail!InputsOK, TailHeap
    <3> DEFINE d == taken - cases[c].tail_pos - 1
    <3>2. cases[c].tail_pos \in Nat /\ cases[c].tail_pos < taken /\ taken \in Nat /\ taken < Word /\ Word \in Nat
      BY <2>3, <2>5, <3>1
    <3>4. d \in Nat /\ d < Word
      BY <3>2
    <3>5. pos' = d % Word
      BY <2>3, <3>1
    <3>3. pos' = taken - cases[c].tail_pos - 1 /\ pos' \in Nat
      <4> HIDE DEF d
      <4>1. pos' = d
        BY <3>2, <3>4, <3>5, SmallMod
      <4> QED
        BY <3>4, <4>1 DEF d
    <3> QED
      BY <2>1, <2>2, <2>3, <2>5, <3>1, <3>3 DEF TailInv, TailWalks
  <2> QED
    BY <2>1, <2>4, <2>5
<1>5. CASE FromTail!WalkNode
  <2>1. /\ UNCHANGED <<cases, c, taken, heap, head, tail, list_len, pos, printed, pc>>
        /\ pc = "walk" /\ i < pos /\ i' = i + 1 /\ cur' = heap[cur].next
    BY <1>5 DEF FromTail!WalkNode, FromTail!Following
  <2>2. TailHeap' /\ TailAnswers'
    BY <2>1, TailCase DEF TailHeap, TailAnswers, Asked
  <2>3. /\ cases[c].tail_pos < taken /\ pos = taken - cases[c].tail_pos - 1 /\ i \in 0..pos /\ cur = i + 1
        /\ taken = Len(cases[c].list) /\ taken > 0
    BY <2>1 DEF TailInv, TailWalks
  <2>4. cases[c].tail_pos \in Nat /\ taken \in Nat
    BY <2>1, TailCase
  <2>5. i + 1 \in 1..taken /\ i + 1 < taken
    BY <2>1, <2>3, <2>4
  <2>6. cur' = i' + 1
    <3>1. heap[i + 1].next = IF i + 1 < taken THEN i + 1 + 1 ELSE 0
      BY <2>1, <2>5, TailCase DEF TailHeap
    <3> QED
      BY <2>1, <2>3, <2>5, <3>1
  <2> QED
    BY <2>1, <2>2, <2>3, <2>4, <2>5, <2>6 DEF TailInv, TailWalks
<1>6. CASE FromTail!PrintValue
  <2>1. /\ UNCHANGED <<cases, list_len, pos, i>> /\ pc = "walk" /\ i = pos
        /\ printed' = Append(printed, heap[cur].value) /\ c' = c + 1 /\ taken' = 0
        /\ heap' = <<>> /\ head' = 0 /\ tail' = 0
        /\ pc' = IF c = Len(cases) THEN "done" ELSE "create"
    BY <1>6 DEF FromTail!PrintValue, FromTail!Value, FromTail!Null
  <2>2. /\ cases[c].tail_pos < taken /\ pos = taken - cases[c].tail_pos - 1 /\ cur = pos + 1
        /\ taken = Len(cases[c].list) /\ i \in 0..pos
    BY <2>1 DEF TailInv, TailWalks
  <2>3. cases[c].tail_pos \in Nat /\ taken \in Nat /\ c \in 1..Len(cases) /\ cases[c].list \in Seq(Nat)
    BY <2>1, TailCase
  <2>4. heap[cur].value = Asked(c) /\ Asked(c) \in Nat
    <3>1. cur = taken - cases[c].tail_pos /\ cur \in 1..taken
      <4>1. cases[c].tail_pos \in Nat /\ taken \in Nat /\ cases[c].tail_pos < taken
        BY <2>2, <2>3
      <4>2. cur = (taken - cases[c].tail_pos - 1) + 1
        BY <2>2
      <4> QED
        BY <4>1, <4>2
    <3>2. heap[cur].value = cases[c].list[cur]
      BY <2>1, <3>1, TailCase DEF TailHeap
    <3> QED
      <4>1. Asked(c) = cases[c].list[cur]
        BY <2>2, <3>1 DEF Asked
      <4>2. cases[c].list[cur] \in Nat
        BY <2>2, <2>3, <3>1, ElementOfSeq
      <4> QED
        BY <3>2, <4>1, <4>2
  <2>5. printed \in Seq(Nat) /\ Len(printed) = c - 1 /\ cases \in Seq(TailCases) /\ Len(cases) \in Nat
    BY <2>1, TailCase DEF TailAnswers
  <2>6. /\ printed' \in Seq(Nat) /\ Len(printed') = c /\ printed'[c] = Asked(c)
        /\ \A k \in 1..(c - 1) : printed'[k] = printed[k]
    BY <2>1, <2>3, <2>4, <2>5
  <2>7. TailAnswers'
    <3>1. \A k \in 1..c : cases[k].tail_pos < Len(cases[k].list) /\ printed'[k] = Asked(k)
      <4>1. \A k \in 1..c : k \in 1..(c - 1) \/ k = c
        BY <2>3
      <4> QED
        BY <2>1, <2>2, <2>6, <4>1, TailCase DEF TailAnswers
    <3>2. \A k : Asked(k)' = Asked(k)
      BY <2>1 DEF Asked
    <3>3. c' - 1 = c /\ c' \in Nat \ {0} /\ c <= Len(cases) /\ UNCHANGED cases
      BY <2>1, <2>3, <2>5
    <3>4. \A k \in 1..(c' - 1) : cases'[k].tail_pos < Len(cases'[k].list) /\ printed'[k] = Asked(k)'
      BY <3>1, <3>2, <3>3
    <3>5. \A k \in DOMAIN cases : Len(cases[k].list) < Word
      BY <2>1, TailCase DEF TailAnswers
    <3> QED
      BY <2>5, <2>6, <3>3, <3>4, <3>5 DEF TailAnswers
  <2>8. pc' # "done" => TailHeap'
    <3>1. ASSUME pc' # "done" PROVE c' \in 1..Len(cases) /\ cases[c'].list \in Seq(Nat)
      <4>1. c' \in 1..Len(cases)
        BY <2>1, <2>3, <2>5, <3>1
      <4>2. cases[c'] \in TailCases
        BY <2>5, <4>1
      <4> QED
        BY <4>1, <4>2 DEF TailCases
    <3>2. <<>> \in Seq(Nodes) /\ Len(<<>>) = 0
      OBVIOUS
    <3> QED
      BY <2>1, <3>1, <3>2 DEF TailHeap
  <2> QED
    BY <2>1, <2>3, <2>7, <2>8 DEF TailInv, TailWalks
<1>7. CASE FromTail!Finished
  BY <1>7 DEF FromTail!Finished, FromTail!vars, FromTail!walk, TailInv, TailWalks, TailAnswers, TailHeap, Asked
<1> QED
  BY <1>1, <1>2, <1>3, <1>4, <1>5, <1>6, <1>7 DEF FromTail!Next

LEMMA TailRight == TailInv => FromTail!PrintedFromTail
<1> SUFFICES ASSUME TailInv PROVE FromTail!PrintedFromTail
  OBVIOUS
<1>1. ASSUME NEW k \in DOMAIN printed
      PROVE  printed[k] = FromTail!Reverse(cases[k].list)[cases[k].tail_pos + 1]
  <2>1. /\ k \in 1..(c - 1) /\ k \in 1..Len(cases)
        /\ cases[k].tail_pos < Len(cases[k].list) /\ printed[k] = Asked(k)
    BY DEF TailInv, TailAnswers
  <2>2. cases[k] \in TailCases
    BY <2>1 DEF TailInv, TailAnswers
  <2>3. cases[k].tail_pos + 1 \in 1..Len(cases[k].list)
    BY <2>1, <2>2 DEF TailCases
  <2>4. (Len(cases[k].list) - (cases[k].tail_pos + 1)) + 1 = Len(cases[k].list) - cases[k].tail_pos
    BY <2>2 DEF TailCases
  <2> QED
    BY <2>1, <2>3, <2>4 DEF FromTail!Reverse, Asked
<1>2. pc \in {"abort", "undefined"} => FromTail!Case.tail_pos >= Len(FromTail!Case.list)
  BY TailCase DEF TailInv, TailWalks
<1>3. pc = "done" => Len(printed) = Len(cases)
  BY DEF TailInv, TailWalks, TailAnswers
<1> QED
  BY <1>1, <1>2, <1>3 DEF FromTail!PrintedFromTail

LEMMA TailStutter == TailInv /\ UNCHANGED FromTail!vars => TailInv'
BY DEF FromTail!vars, FromTail!walk, TailInv, TailWalks, TailAnswers, TailHeap, Asked

\* node_from_tail.cc: position_from_tail returns the value tail_pos places before
\* the tail of a list of any length, and the program fails at the first case
\* that has no such place and at no other.
THEOREM TailIsRight == Spec => []PrintedFromTail
<1> DEFINE Inv == program = "tail" => TailInv
<1>1. Init => Inv
  BY OneStarts, TailInit
<1>2. Inv /\ [Next]_vars => Inv'
  BY OneRuns, TailNext, TailStutter
<1>3. Inv => PrintedFromTail
  BY TailRight DEF PrintedFromTail
<1> QED
  BY <1>1, <1>2, <1>3, PTL DEF Spec

----------------------------------------------------------------------------
\* max_stack_element.cc.  A value is on the stack when the queries after its
\* push have not popped as often as it takes to reach it.

Among(S, j, k) == Cardinality((j..k) \cap S)

\* One more number counts if it is in the set.
LEMMA CountStep ==
    ASSUME NEW S, NEW j \in Nat, NEW k \in Nat, j <= k + 1
    PROVE  /\ Among(S, j, k) \in Nat /\ Among(S, j, k + 1) \in Nat
           /\ Among(S, j, k + 1) = Among(S, j, k) + (IF k + 1 \in S THEN 1 ELSE 0)
           /\ Among(S, k + 1, k) = 0
<1>1. IsFiniteSet((j..k) \cap S)
  <2>1. IsFiniteSet(j..k)
    BY FS_Interval
  <2>2. (j..k) \cap S \subseteq j..k
    OBVIOUS
  <2> QED
    BY <2>1, <2>2, FS_Subset
<1>2. Cardinality((j..k) \cap S) \in Nat
  BY <1>1, FS_CardinalityType
<1>3. (k + 1)..k = {}
  OBVIOUS
<1>4. Cardinality(((k + 1)..k) \cap S) = 0
  BY <1>3, FS_EmptySet
<1>5. ASSUME k + 1 \in S
      PROVE  Cardinality((j..(k + 1)) \cap S) = Cardinality((j..k) \cap S) + 1
  <2>1. (j..(k + 1)) \cap S = ((j..k) \cap S) \cup {k + 1}
    BY <1>5
  <2>2. k + 1 \notin (j..k) \cap S
    OBVIOUS
  <2> QED
    BY <1>1, <2>1, <2>2, FS_AddElement
<1>6. ASSUME k + 1 \notin S
      PROVE  Cardinality((j..(k + 1)) \cap S) = Cardinality((j..k) \cap S)
  <2>1. (j..(k + 1)) \cap S = (j..k) \cap S
    BY <1>6
  <2> QED
    BY <2>1
<1> QED
  BY <1>2, <1>4, <1>5, <1>6 DEF Among

Queries == [code: 0..3, arg: Nat]

LEMMA StackCardinality == \A S : Stack!Cardinality(S) = Cardinality(S)
BY DEF Stack!Cardinality, Cardinality

LEMMA SurplusStep ==
    ASSUME NEW k \in Nat, NEW j \in 1..(k + 1)
    PROVE  /\ Stack!Surplus(j, k) \in Int
           /\ Stack!Surplus(j, k + 1) = Stack!Surplus(j, k) +
                  (IF queries[k + 1].code = 1 THEN 1 ELSE 0) - (IF queries[k + 1].code = 2 THEN 1 ELSE 0)
           /\ Stack!Surplus(k + 1, k) = 0
<1> DEFINE Pushes == { m \in Nat : queries[m].code = 1 }
<1> DEFINE Pops == { m \in Nat : queries[m].code = 2 }
<1>1. ASSUME NEW a \in Nat, NEW b \in Nat
      PROVE  Stack!Surplus(a, b) = Among(Pushes, a, b) - Among(Pops, a, b)
  <2>1. /\ { m \in a..b : queries[m].code = 1 } = (a..b) \cap Pushes
        /\ { m \in a..b : queries[m].code = 2 } = (a..b) \cap Pops
    OBVIOUS
  <2> QED
    BY <2>1, StackCardinality DEF Stack!Surplus, Among
<1>2. j \in Nat /\ k \in Nat /\ j <= k + 1 /\ k + 1 \in Nat
  OBVIOUS
<1>3. k + 1 \in Pushes <=> queries[k + 1].code = 1
  OBVIOUS
<1>4. k + 1 \in Pops <=> queries[k + 1].code = 2
  OBVIOUS
<1> HIDE DEF Pushes, Pops
<1>5. /\ Among(Pushes, j, k) \in Nat
      /\ Among(Pushes, j, k + 1) =
             Among(Pushes, j, k) + (IF k + 1 \in Pushes THEN 1 ELSE 0)
      /\ Among(Pushes, k + 1, k) = 0
  BY ONLY <1>2, CountStep
<1>6. /\ Among(Pops, j, k) \in Nat
      /\ Among(Pops, j, k + 1) =
             Among(Pops, j, k) + (IF k + 1 \in Pops THEN 1 ELSE 0)
      /\ Among(Pops, k + 1, k) = 0
  BY ONLY <1>2, CountStep
<1>7. Stack!Surplus(k + 1, k) = 0
  BY <1>1, <1>2, <1>5, <1>6
<1>8. Stack!Surplus(j, k) = Among(Pushes, j, k) - Among(Pops, j, k)
  BY <1>1, <1>2
<1>9. Stack!Surplus(j, k + 1) = Among(Pushes, j, k + 1) - Among(Pops, j, k + 1)
  BY <1>1, <1>2
<1> QED
  BY <1>3, <1>4, <1>5, <1>6, <1>7, <1>8, <1>9

\* The pushes that no pop up to k has removed.
Places(k) == { j \in 1..k : queries[j].code = 1 /\ \A m \in j..k : Stack!Surplus(j, m) > 0 }

LEMMA PlacesStep ==
    ASSUME NEW k \in Nat
    PROVE  Places(k + 1) = { j \in Places(k) : Stack!Surplus(j, k + 1) > 0 }
                               \cup (IF queries[k + 1].code = 1 THEN {k + 1} ELSE {})
<1>1. ASSUME NEW j \in 1..k
      PROVE  j \in Places(k + 1) <=> j \in Places(k) /\ Stack!Surplus(j, k + 1) > 0
  <2>1. j..(k + 1) = (j..k) \cup {k + 1} /\ j \in 1..(k + 1)
    OBVIOUS
  <2> QED
    BY <2>1 DEF Places
<1>2. k + 1 \in Places(k + 1) <=> queries[k + 1].code = 1
  <2>1. (k + 1)..(k + 1) = {k + 1} /\ k + 1 \in 1..(k + 1)
    OBVIOUS
  <2>2. queries[k + 1].code = 1 => Stack!Surplus(k + 1, k + 1) > 0
    <3>1. k + 1 \in 1..(k + 1)
      OBVIOUS
    <3>2. /\ Stack!Surplus(k + 1, k) = 0
          /\ Stack!Surplus(k + 1, k + 1) = Stack!Surplus(k + 1, k) +
                  (IF queries[k + 1].code = 1 THEN 1 ELSE 0) - (IF queries[k + 1].code = 2 THEN 1 ELSE 0)
      BY <3>1, SurplusStep
    <3> QED
      BY <3>2
  <2> QED
    BY <2>1, <2>2 DEF Places
<1>3. 1..(k + 1) = (1..k) \cup {k + 1} /\ k + 1 \notin 1..k
  OBVIOUS
<1>4. Places(k) \subseteq 1..k /\ Places(k + 1) \subseteq 1..(k + 1)
  BY DEF Places
<1> QED
  BY <1>1, <1>2, <1>3, <1>4

\* The d values of the stack s are those of the pushes in place, in their order,
\* and the surplus from each push on is what stands above it, itself included.
HoldsInOrder(s, k, d) ==
    \E place \in [1..d -> 1..k] :
        /\ { place[x] : x \in 1..d } = Places(k)
        /\ \A x \in 1..d : /\ s[x] = queries[place[x]].arg
                          /\ Stack!Surplus(place[x], k) = d - x + 1

Holds(s, k) == Stack!Surplus(1, k) = Len(s) /\ HoldsInOrder(s, k, Len(s))

LEMMA SurplusMoves ==
    ASSUME NEW k \in Nat
    PROVE  /\ \A j \in 1..(k + 1) : Stack!Surplus(j, k) \in Int
           /\ queries[k + 1].code = 1 =>
                 \A j \in 1..(k + 1) : Stack!Surplus(j, k + 1) = Stack!Surplus(j, k) + 1
           /\ queries[k + 1].code = 2 =>
                 \A j \in 1..(k + 1) : Stack!Surplus(j, k + 1) = Stack!Surplus(j, k) - 1
           /\ queries[k + 1].code \notin {1, 2} =>
                 \A j \in 1..(k + 1) : Stack!Surplus(j, k + 1) = Stack!Surplus(j, k)
           /\ Stack!Surplus(k + 1, k) = 0 /\ k + 1 \in 1..(k + 1)
<1>1. ASSUME NEW j \in 1..(k + 1)
      PROVE  /\ Stack!Surplus(j, k) \in Int
             /\ queries[k + 1].code = 1 => Stack!Surplus(j, k + 1) = Stack!Surplus(j, k) + 1
             /\ queries[k + 1].code = 2 => Stack!Surplus(j, k + 1) = Stack!Surplus(j, k) - 1
             /\ queries[k + 1].code \notin {1, 2} => Stack!Surplus(j, k + 1) = Stack!Surplus(j, k)
             /\ Stack!Surplus(k + 1, k) = 0
  <2>1. /\ Stack!Surplus(j, k) \in Int
        /\ Stack!Surplus(j, k + 1) = Stack!Surplus(j, k) +
               (IF queries[k + 1].code = 1 THEN 1 ELSE 0) - (IF queries[k + 1].code = 2 THEN 1 ELSE 0)
        /\ Stack!Surplus(k + 1, k) = 0
    BY SurplusStep
  <2> QED
    BY <2>1
<1>2. k + 1 \in 1..(k + 1)
  OBVIOUS
<1> QED
  BY <1>1, <1>2

LEMMA HoldsEmpty ==
    ASSUME queries \in Seq(Queries) PROVE Holds(<<>>, 0)
<1>1. Stack!Surplus(1, 0) = 0
  <2>1. Stack!Surplus(0 + 1, 0) = 0
    BY SurplusMoves
  <2> QED
    BY <2>1
<1>2. Places(0) = {} /\ Len(<<>>) = 0 /\ 1..0 = {}
  BY DEF Places
<1>3. <<>> \in [1..0 -> 1..0]
  OBVIOUS
<1> QED
  BY <1>1, <1>2, <1>3 DEF Holds, HoldsInOrder

LEMMA HoldsPush ==
    ASSUME NEW k \in Nat, NEW s \in Seq(Nat), Holds(s, k),
           queries[k + 1].code = 1, queries[k + 1].arg \in Nat
    PROVE  Holds(Append(s, queries[k + 1].arg), k + 1)
<1> DEFINE d == Len(s)
<1> DEFINE t == Append(s, queries[k + 1].arg)
<1>1. PICK place \in [1..d -> 1..k] :
          /\ { place[x] : x \in 1..d } = Places(k)
          /\ \A x \in 1..d : s[x] = queries[place[x]].arg /\ Stack!Surplus(place[x], k) = d - x + 1
  BY DEF Holds, HoldsInOrder, d
<1>2. d \in Nat /\ Len(t) = d + 1 /\ t[d + 1] = queries[k + 1].arg /\ \A x \in 1..d : t[x] = s[x]
  OBVIOUS
<1> DEFINE more == [x \in 1..(d + 1) |-> IF x = d + 1 THEN k + 1 ELSE place[x]]
<1> HIDE DEF d, t
<1>3. /\ \A j \in 1..(k + 1) : Stack!Surplus(j, k) \in Int
      /\ \A j \in 1..(k + 1) : Stack!Surplus(j, k + 1) = Stack!Surplus(j, k) + 1
      /\ Stack!Surplus(k + 1, k) = 0 /\ k + 1 \in 1..(k + 1)
  BY SurplusMoves
<1>4. \A j \in 1..k : Stack!Surplus(j, k + 1) = Stack!Surplus(j, k) + 1 /\ Stack!Surplus(j, k) \in Int
  <2>1. \A j \in 1..k : j \in 1..(k + 1)
    OBVIOUS
  <2> QED
    BY <1>3, <2>1
<1>5. Stack!Surplus(k + 1, k + 1) = 1
  <2>1. Stack!Surplus(k + 1, k + 1) = Stack!Surplus(k + 1, k) + 1
    BY <1>3
  <2> QED
    BY <1>3, <2>1
<1>6. more \in [1..(d + 1) -> 1..(k + 1)]
  BY <1>1, <1>2
<1>7. { more[x] : x \in 1..(d + 1) } = Places(k + 1)
  <2>1. Places(k + 1) = Places(k) \cup {k + 1}
    <3>1. \A j \in Places(k) : j \in 1..k /\ Stack!Surplus(j, k) > 0
      BY DEF Places
    <3>2. \A j \in Places(k) : Stack!Surplus(j, k + 1) > 0
      BY <1>4, <3>1
    <3> QED
      BY <3>2, PlacesStep
  <2>2. 1..(d + 1) = (1..d) \cup {d + 1} /\ d + 1 \notin 1..d
    BY <1>2
  <2> QED
    BY <1>1, <2>1, <2>2
<1>8. \A x \in 1..d : t[x] = queries[place[x]].arg /\ Stack!Surplus(place[x], k + 1) = (d + 1) - x + 1
  <2> SUFFICES ASSUME NEW x \in 1..d
               PROVE  t[x] = queries[place[x]].arg /\ Stack!Surplus(place[x], k + 1) = (d + 1) - x + 1
    OBVIOUS
  <2>1. place[x] \in 1..k /\ Stack!Surplus(place[x], k) = d - x + 1
    BY <1>1
  <2>2. Stack!Surplus(place[x], k + 1) = d - x + 1 + 1
    BY <1>4, <2>1
  <2>3. d - x + 1 + 1 = (d + 1) - x + 1
    BY <1>2
  <2> QED
    BY <1>1, <1>2, <2>2, <2>3
<1>9. ASSUME NEW x \in 1..(d + 1)
      PROVE  t[x] = queries[more[x]].arg /\ Stack!Surplus(more[x], k + 1) = (d + 1) - x + 1
  <2>1. CASE x = d + 1
    <3>1. more[x] = k + 1 /\ d + 1 - x + 1 = 1
      BY <1>2, <2>1
    <3> QED
      BY <1>2, <1>5, <2>1, <3>1
  <2>2. CASE x # d + 1
    <3>1. x \in 1..d /\ more[x] = place[x]
      BY <1>2, <2>2
    <3> HIDE DEF more
    <3> QED
      BY <1>8, <3>1
  <2> QED
    BY <2>1, <2>2
<1>10. Stack!Surplus(1, k + 1) = d + 1
  <2>1. Stack!Surplus(1, k) = d
    BY DEF Holds, d
  <2>2. CASE k = 0
    <3>1. Stack!Surplus(0 + 1, 0) = 0
      BY SurplusMoves
    <3>2. d = 0
      BY <2>1, <2>2, <3>1
    <3> QED
      BY <1>5, <2>2, <3>2
  <2>3. CASE k # 0
    BY <1>4, <2>1, <2>3
  <2> QED
    BY <2>2, <2>3
<1>11. HoldsInOrder(t, k + 1, d + 1)
  <2> HIDE DEF more
  <2>1. \A x \in 1..(d + 1) : /\ t[x] = queries[more[x]].arg
                             /\ Stack!Surplus(more[x], k + 1) = (d + 1) - x + 1
    BY <1>9
  <2> QED
    BY <1>6, <1>7, <2>1 DEF HoldsInOrder
<1> QED
  BY <1>2, <1>10, <1>11 DEF Holds, t

LEMMA HoldsPop ==
    ASSUME NEW k \in Nat, NEW s \in Seq(Nat), Holds(s, k), s # <<>>, queries[k + 1].code = 2
    PROVE  Holds(Stack!Front(s), k + 1) /\ Stack!Front(s) \in Seq(Nat)
<1> DEFINE d == Len(s)
<1> DEFINE t == Stack!Front(s)
<1>1. PICK place \in [1..d -> 1..k] :
          /\ { place[x] : x \in 1..d } = Places(k)
          /\ \A x \in 1..d : s[x] = queries[place[x]].arg /\ Stack!Surplus(place[x], k) = d - x + 1
  BY DEF Holds, HoldsInOrder, d
<1>2. /\ d \in Nat /\ d - 1 \in Nat /\ t \in Seq(Nat) /\ Len(t) = d - 1
      /\ \A x \in 1..(d - 1) : t[x] = s[x]
  <2>1. d \in Nat /\ d - 1 \in Nat
    BY EmptySeq
  <2>2. \A x \in 1..(d - 1) : s[x] \in Nat
    OBVIOUS
  <2> HIDE DEF d
  <2>3. /\ SubSeq(s, 1, d - 1) \in Seq(Nat)
        /\ Len(SubSeq(s, 1, d - 1)) = IF 1 <= d - 1 THEN d - 1 - 1 + 1 ELSE 0
        /\ \A x \in 1..(d - 1 - 1 + 1) : SubSeq(s, 1, d - 1)[x] = s[1 + x - 1]
    BY <2>1, <2>2, SubSeqProperties
  <2>4. t = SubSeq(s, 1, d - 1)
    BY DEF Stack!Front, d
  <2> HIDE DEF t
  <2> QED
    BY <2>1, <2>3, <2>4
<1> DEFINE fewer == [x \in 1..(d - 1) |-> place[x]]
<1> HIDE DEF d, t
<1>3. /\ \A j \in 1..(k + 1) : Stack!Surplus(j, k) \in Int
      /\ \A j \in 1..(k + 1) : Stack!Surplus(j, k + 1) = Stack!Surplus(j, k) - 1
  BY SurplusMoves
<1>4. \A j \in 1..k : Stack!Surplus(j, k + 1) = Stack!Surplus(j, k) - 1 /\ Stack!Surplus(j, k) \in Int
  <2>1. \A j \in 1..k : j \in 1..(k + 1)
    OBVIOUS
  <2> QED
    BY <1>3, <2>1
<1>5. fewer \in [1..(d - 1) -> 1..(k + 1)]
  BY <1>1, <1>2
<1>6. \A x \in 1..d : Stack!Surplus(place[x], k + 1) = d - x
  BY <1>1, <1>2, <1>4
<1>7. { fewer[x] : x \in 1..(d - 1) } = Places(k + 1)
  <2>1. Places(k + 1) = { j \in Places(k) : Stack!Surplus(j, k + 1) > 0 }
    BY PlacesStep
  <2>2. \A x \in 1..d : Stack!Surplus(place[x], k + 1) > 0 <=> x \in 1..(d - 1)
    BY <1>2, <1>6
  <2>3. ASSUME NEW x \in 1..(d - 1) PROVE place[x] \in Places(k + 1)
    <3>1. x \in 1..d
      BY <1>2
    <3> QED
      BY <1>1, <2>1, <2>2, <3>1
  <2>4. ASSUME NEW j \in Places(k + 1) PROVE \E x \in 1..(d - 1) : place[x] = j
    <3>1. PICK x \in 1..d : place[x] = j
      BY <1>1, <2>1
    <3> QED
      BY <2>1, <2>2, <3>1
  <2>5. \A x \in 1..(d - 1) : fewer[x] = place[x]
    BY DEF fewer
  <2> HIDE DEF fewer
  <2> QED
    BY <2>3, <2>4, <2>5
<1>8. ASSUME NEW x \in 1..(d - 1)
      PROVE  t[x] = queries[fewer[x]].arg /\ Stack!Surplus(fewer[x], k + 1) = d - 1 - x + 1
  <2>1. x \in 1..d /\ fewer[x] = place[x]
    BY <1>2
  <2>2. t[x] = s[x] /\ d - 1 - x + 1 = d - x
    BY <1>2
  <2>3. s[x] = queries[place[x]].arg /\ Stack!Surplus(place[x], k + 1) = d - x
    BY <1>1, <1>6, <2>1
  <2> HIDE DEF fewer
  <2> QED
    BY <2>1, <2>2, <2>3
<1>9. Stack!Surplus(1, k + 1) = d - 1
  <2>1. Stack!Surplus(1, k) = d
    BY DEF Holds, d
  <2>2. k # 0
    BY <1>1, <1>2
  <2> QED
    BY <1>4, <2>1, <2>2
<1>10. HoldsInOrder(t, k + 1, d - 1)
  <2> HIDE DEF fewer
  <2> QED
    BY <1>5, <1>7, <1>8 DEF HoldsInOrder
<1> QED
  BY <1>2, <1>9, <1>10 DEF Holds, t

LEMMA HoldsOther ==
    ASSUME NEW k \in Nat, NEW s \in Seq(Nat), Holds(s, k), queries[k + 1].code \notin {1, 2}
    PROVE  Holds(s, k + 1)
<1> DEFINE d == Len(s)
<1>1. PICK place \in [1..d -> 1..k] :
          /\ { place[x] : x \in 1..d } = Places(k)
          /\ \A x \in 1..d : s[x] = queries[place[x]].arg /\ Stack!Surplus(place[x], k) = d - x + 1
  BY DEF Holds, HoldsInOrder, d
<1>3. \A j \in 1..(k + 1) : Stack!Surplus(j, k + 1) = Stack!Surplus(j, k)
  BY SurplusMoves
<1>4. Places(k + 1) = Places(k)
  <2>1. \A j \in Places(k) : j \in 1..k /\ Stack!Surplus(j, k) > 0 /\ j \in 1..(k + 1)
    BY DEF Places
  <2>2. \A j \in Places(k) : Stack!Surplus(j, k + 1) > 0
    BY <1>3, <2>1
  <2>3. Places(k + 1) = { j \in Places(k) : Stack!Surplus(j, k + 1) > 0 }
    BY PlacesStep
  <2> QED
    BY <2>2, <2>3
<1> HIDE DEF d
<1>5. place \in [1..d -> 1..(k + 1)] /\ \A x \in 1..d : place[x] \in 1..(k + 1)
  <2>1. \A j \in 1..k : j \in 1..(k + 1)
    OBVIOUS
  <2> QED
    BY <1>1, <2>1
<1>6. \A x \in 1..d : Stack!Surplus(place[x], k + 1) = d - x + 1
  BY <1>1, <1>3, <1>5
<1>7. Stack!Surplus(1, k + 1) = d
  <2>1. 1 \in 1..(k + 1)
    OBVIOUS
  <2> QED
    BY <1>3, <2>1 DEF Holds, d
<1> QED
  BY <1>1, <1>4, <1>5, <1>6, <1>7 DEF Holds, HoldsInOrder, d

Answers == { <<q, Stack!Max(Stack!Alive(q))>> : q \in Nat }

Asks == { m \in Nat : queries[m].code = 3 }

\* A query that needs an element of an empty stack.
NeedsOne(k) == queries[k].code \in {2, 3} /\ Stack!Surplus(1, k - 1) = 0

StackHolds ==
    /\ Holds(stack, i)
    /\ Len(printed) = Cardinality((1..i) \cap Asks)
    /\ i > 0 => ~NeedsOne(i)

StackInv ==
    /\ queries \in Seq(Queries) /\ stack \in Seq(Nat) /\ printed \in Seq(Answers)
    /\ i \in 0..Len(queries)
    /\ pc \in {"read", "done", "undefined"}
    /\ pc # "undefined" => StackHolds
    /\ pc = "undefined" => i > 0 /\ NeedsOne(i)

LEMMA StackInit == Stack!Init => StackInv
<1> SUFFICES ASSUME Stack!Init PROVE StackInv
  OBVIOUS
<1>1. /\ queries \in QueryLists /\ i = 0 /\ stack = <<>> /\ printed = <<>> /\ pc = "read"
  BY DEF Stack!Init
<1>2. queries \in Seq(Queries)
  BY <1>1, InputsAssumption DEF Stack!InputsOK, Queries
<1>3. Holds(<<>>, 0)
  BY <1>2, HoldsEmpty
<1>4. Cardinality((1..0) \cap Asks) = 0
  <2>1. (1..0) \cap Asks = {}
    OBVIOUS
  <2> QED
    BY <2>1, FS_EmptySet
<1>5. Len(<<>>) = 0 /\ <<>> \in Seq(Nat) /\ <<>> \in Seq(Answers)
  OBVIOUS
<1>6. StackHolds
  BY <1>1, <1>3, <1>4, <1>5 DEF StackHolds
<1> QED
  BY <1>1, <1>2, <1>5, <1>6 DEF StackInv

\* What the stack holds are the values still alive.
LEMMA HoldsAlive ==
    ASSUME NEW k \in Nat, NEW s, Holds(s, k) PROVE { s[x] : x \in 1..Len(s) } = Stack!Alive(k)
<1>1. PICK place \in [1..Len(s) -> 1..k] :
          /\ { place[x] : x \in 1..Len(s) } = Places(k)
          /\ \A x \in 1..Len(s) : s[x] = queries[place[x]].arg
  BY DEF Holds, HoldsInOrder
<1>2. Stack!Alive(k) = { queries[j].arg : j \in Places(k) }
  BY DEF Stack!Alive, Places
<1> QED
  BY <1>1, <1>2

\* Only the queries decide what is pushed, popped and asked.
LEMMA SameQueries ==
    ASSUME queries' = queries
    PROVE  /\ \A a, b : Stack!Surplus(a, b)' = Stack!Surplus(a, b)
           /\ \A k : Stack!Alive(k)' = Stack!Alive(k)
           /\ \A k : Places(k)' = Places(k)
           /\ \A s, k : Holds(s, k) => Holds(s, k)'
           /\ Asks' = Asks /\ Answers' = Answers
           /\ \A k : NeedsOne(k)' <=> NeedsOne(k)
<1>1. \A a, b : Stack!Surplus(a, b)' = Stack!Surplus(a, b)
  BY DEF Stack!Surplus, Stack!Cardinality
<1>2. \A k : Stack!Alive(k)' = Stack!Alive(k)
  BY <1>1 DEF Stack!Alive
<1>3. \A k : Places(k)' = Places(k)
  BY <1>1 DEF Places
<1>4. Asks' = Asks
  BY DEF Asks
<1>7. ASSUME NEW s, NEW k, Holds(s, k) PROVE Holds(s, k)'
  <2>1. PICK place \in [1..Len(s) -> 1..k] :
          /\ { place[x] : x \in 1..Len(s) } = Places(k)
          /\ \A x \in 1..Len(s) : /\ s[x] = queries[place[x]].arg
                                 /\ Stack!Surplus(place[x], k) = Len(s) - x + 1
    BY <1>7 DEF Holds, HoldsInOrder
  <2>2. { place[x] : x \in 1..Len(s) } = Places(k)'
    BY <2>1, <1>3
  <2>3. \A x \in 1..Len(s) : /\ s[x] = queries'[place[x]].arg
                           /\ Stack!Surplus(place[x], k)' = Len(s) - x + 1
    BY <2>1, <1>1
  <2>4. Stack!Surplus(1, k)' = Len(s)
    BY <1>1, <1>7 DEF Holds
  <2> QED
    BY <2>1, <2>2, <2>3, <2>4 DEF Holds, HoldsInOrder
<1>5. Answers' = Answers
  BY <1>2 DEF Answers, Stack!Max
<1>6. \A k : NeedsOne(k)' <=> NeedsOne(k)
  BY <1>1 DEF NeedsOne
<1> QED
  BY <1>1, <1>2, <1>3, <1>4, <1>5, <1>6, <1>7

\* The step of a query that does what it says.
LEMMA StackStep ==
    ASSUME StackInv, queries' = queries, i < Len(queries), i' = i + 1, pc = "read", pc' = "read",
           stack' \in Seq(Nat), Holds(stack', i + 1), printed' \in Seq(Answers),
           Len(printed') = Len(printed) + (IF queries[i + 1].code = 3 THEN 1 ELSE 0),
           queries[i + 1].code \in {2, 3} => stack # <<>>
    PROVE  StackInv'
<1>1. /\ StackHolds /\ i \in Nat /\ i + 1 \in Nat /\ i' \in 0..Len(queries') /\ queries' \in Seq(Queries)
      /\ (i + 1) - 1 = i /\ stack \in Seq(Nat) /\ queries \in Seq(Queries)
  BY DEF StackInv
<1>2. Holds(stack, i)'
  <2>1. Holds(stack', i')
    OBVIOUS
  <2> QED
    BY <2>1, SameQueries
<1>3. Asks' = Asks
  BY SameQueries
<1>4. Len(printed)' = Cardinality((1..(i + 1)) \cap Asks)
  <2>1. i + 1 \in Asks <=> queries[i + 1].code = 3
    BY <1>1 DEF Asks
  <2>3. Len(printed) = Cardinality((1..i) \cap Asks)
    BY <1>1 DEF StackHolds
  <2>2. Cardinality((1..(i + 1)) \cap Asks)
            = Cardinality((1..i) \cap Asks) + (IF i + 1 \in Asks THEN 1 ELSE 0)
    <3>1. 1 \in Nat /\ 1 <= i + 1 /\ i \in Nat
      BY <1>1
    <3>2. Among(Asks, 1, i + 1) = Among(Asks, 1, i) + (IF i + 1 \in Asks THEN 1 ELSE 0)
      BY ONLY <3>1, CountStep
    <3> QED
      BY <3>2 DEF Among
  <2> QED
    BY <1>1, <2>1, <2>2, <2>3
<1>5. ~NeedsOne(i + 1)
  <2>1. Stack!Surplus(1, i) = Len(stack)
    BY <1>1 DEF StackHolds, Holds
  <2>2. stack # <<>> => Len(stack) # 0
    BY <1>1, EmptySeq
  <2>3. (i + 1) - 1 = i
    BY <1>1
  <2> QED
    BY <2>1, <2>2, <2>3 DEF NeedsOne
<1>6. ~NeedsOne(i)'
  BY <1>5, SameQueries
<1>7. StackHolds'
  BY <1>2, <1>3, <1>4, <1>6 DEF StackHolds
<1>8. printed' \in Seq(Answers')
  BY SameQueries
<1> QED
  BY <1>1, <1>7, <1>8 DEF StackInv

LEMMA StackUndefined ==
    ASSUME StackInv, queries' = queries, i < Len(queries), i' = i + 1, pc = "read", pc' = "undefined",
           UNCHANGED <<stack, printed>>, stack = <<>>, queries[i + 1].code \in {2, 3}
    PROVE  StackInv'
<1>1. /\ StackHolds /\ i \in Nat /\ i + 1 \in Nat /\ i' \in 0..Len(queries') /\ queries' \in Seq(Queries)
      /\ (i + 1) - 1 = i /\ stack' \in Seq(Nat) /\ printed' \in Seq(Answers)
  BY DEF StackInv
<1>2. NeedsOne(i + 1)
  <2>1. Stack!Surplus(1, i) = 0
    BY <1>1 DEF StackHolds, Holds
  <2> QED
    BY <1>1, <2>1 DEF NeedsOne
<1>3. i' > 0 /\ NeedsOne(i)'
  BY <1>1, <1>2, SameQueries
<1>4. printed' \in Seq(Answers')
  BY <1>1, SameQueries
<1> QED
  BY <1>1, <1>3, <1>4 DEF StackInv

LEMMA StackNext == StackInv /\ Stack!Next => StackInv'
<1> SUFFICES ASSUME StackInv, Stack!Next PROVE StackInv'
  OBVIOUS
<1>1. /\ queries \in Seq(Queries) /\ stack \in Seq(Nat) /\ printed \in Seq(Answers)
      /\ i \in 0..Len(queries) /\ i \in Nat
      /\ pc # "undefined" => Holds(stack, i)
  BY DEF StackInv, StackHolds
<1>2. ASSUME NEW codes, Stack!ReadQuery(codes)
      PROVE  /\ pc = "read" /\ i < Len(queries) /\ i' = i + 1 /\ queries' = queries
             /\ queries[i + 1].code \in codes /\ queries[i + 1] \in Queries
             /\ Holds(stack, i)
  <2>1. pc = "read" /\ i < Len(queries) /\ i' = i + 1 /\ queries' = queries /\ queries[i + 1].code \in codes
    BY <1>2 DEF Stack!ReadQuery
  <2>2. i + 1 \in 1..Len(queries)
    BY <1>1, <2>1
  <2>3. queries[i + 1] \in Queries
    BY <1>1, <2>2, ElementOfSeq
  <2> QED
    BY <1>1, <2>1, <2>3
<1>3. CASE Stack!PushValue
  <2>1. Stack!ReadQuery({1}) /\ stack' = Append(stack, queries[i'].arg) /\ UNCHANGED <<printed, pc>>
    BY <1>3 DEF Stack!PushValue
  <2>2. /\ queries[i + 1].code = 1 /\ queries[i + 1].arg \in Nat /\ Holds(stack, i)
        /\ pc = "read" /\ i < Len(queries) /\ i' = i + 1 /\ queries' = queries
    BY <1>2, <2>1 DEF Queries
  <2>3. stack' = Append(stack, queries[i + 1].arg) /\ stack' \in Seq(Nat)
    BY <1>1, <2>1, <2>2
  <2>4. Holds(stack', i + 1)
    BY <1>1, <2>2, <2>3, HoldsPush
  <2>5. Len(printed') = Len(printed) + (IF queries[i + 1].code = 3 THEN 1 ELSE 0)
    BY <1>1, <2>1, <2>2
  <2>6. ~(queries[i + 1].code \in {2, 3}) /\ printed' \in Seq(Answers) /\ pc' = "read"
    BY <1>1, <2>1, <2>2
  <2> QED
    BY <2>2, <2>3, <2>4, <2>5, <2>6, StackStep
<1>4. CASE Stack!PopValue
  <2>1. /\ Stack!ReadQuery({2}) /\ UNCHANGED printed
        /\ stack = <<>> => pc' = "undefined" /\ UNCHANGED stack
        /\ stack # <<>> => stack' = Stack!Front(stack) /\ UNCHANGED pc
    BY <1>4 DEF Stack!PopValue
  <2>2. /\ queries[i + 1].code = 2 /\ Holds(stack, i)
        /\ pc = "read" /\ i < Len(queries) /\ i' = i + 1 /\ queries' = queries
    BY <1>2, <2>1
  <2>3. CASE stack = <<>>
    BY <2>1, <2>2, <2>3, StackUndefined
  <2>4. CASE stack # <<>>
    <3>1. stack' \in Seq(Nat) /\ Holds(stack', i + 1)
      BY <1>1, <2>1, <2>2, <2>4, HoldsPop
    <3>2. Len(printed') = Len(printed) + (IF queries[i + 1].code = 3 THEN 1 ELSE 0)
      BY <1>1, <2>1, <2>2
    <3>3. printed' \in Seq(Answers) /\ pc' = "read"
      BY <1>1, <2>1, <2>2, <2>4
    <3> QED
      BY <2>2, <2>4, <3>1, <3>2, <3>3, StackStep
  <2> QED
    BY <2>3, <2>4
<1>5. CASE Stack!PrintMax
  <2>1. /\ Stack!ReadQuery({3}) /\ UNCHANGED stack
        /\ stack = <<>> => pc' = "undefined" /\ UNCHANGED printed
        /\ stack # <<>> =>
              printed' = Append(printed, <<i', Stack!Max(Stack!ToSet(stack))>>) /\ UNCHANGED pc
    BY <1>5 DEF Stack!PrintMax
  <2>2. /\ queries[i + 1].code = 3 /\ Holds(stack, i)
        /\ pc = "read" /\ i < Len(queries) /\ i' = i + 1 /\ queries' = queries
    BY <1>2, <2>1
  <2>3. CASE stack = <<>>
    BY <2>1, <2>2, <2>3, StackUndefined
  <2>4. CASE stack # <<>>
    <3>1. Holds(stack, i + 1) /\ stack' = stack
      BY <1>1, <2>1, <2>2, HoldsOther
    <3>2. Stack!ToSet(stack) = Stack!Alive(i + 1)
      <4>1. { stack[x] : x \in 1..Len(stack) } = Stack!Alive(i + 1)
        BY <1>1, <3>1, HoldsAlive
      <4>2. DOMAIN stack = 1..Len(stack)
        BY <1>1
      <4> QED
        BY <4>1, <4>2 DEF Stack!ToSet
    <3>3. printed' = Append(printed, <<i + 1, Stack!Max(Stack!Alive(i + 1))>>) /\ pc' = "read"
      BY <2>1, <2>2, <2>4, <3>2
    <3>4. <<i + 1, Stack!Max(Stack!Alive(i + 1))>> \in Answers
      BY <1>1 DEF Answers
    <3>5. printed' \in Seq(Answers) /\ Len(printed') = Len(printed) + 1
      <4> DEFINE e == <<i + 1, Stack!Max(Stack!Alive(i + 1))>>
      <4>1. e \in Answers /\ printed' = Append(printed, e)
        BY <3>3, <3>4
      <4> HIDE DEF e
      <4> QED
        BY <1>1, <4>1
    <3>6. Len(printed') = Len(printed) + (IF queries[i + 1].code = 3 THEN 1 ELSE 0)
      BY <2>2, <3>5
    <3>7. Holds(stack', i + 1) /\ stack' \in Seq(Nat)
      BY <1>1, <3>1
    <3> QED
      BY <2>2, <2>4, <3>3, <3>5, <3>6, <3>7, StackStep
  <2> QED
    BY <2>3, <2>4
<1>6. CASE Stack!OtherQuery
  <2>1. Stack!ReadQuery({0}) /\ UNCHANGED <<stack, printed, pc>>
    BY <1>6 DEF Stack!OtherQuery
  <2>2. /\ queries[i + 1].code = 0 /\ Holds(stack, i)
        /\ pc = "read" /\ i < Len(queries) /\ i' = i + 1 /\ queries' = queries
    BY <1>2, <2>1
  <2>3. queries[i + 1].code \notin {1, 2} /\ ~(queries[i + 1].code \in {2, 3})
    BY <2>2
  <2>4. Holds(stack, i + 1) /\ stack' = stack
    BY <1>1, <2>1, <2>2, <2>3, HoldsOther
  <2>5. Len(printed') = Len(printed) + (IF queries[i + 1].code = 3 THEN 1 ELSE 0)
    BY <1>1, <2>1, <2>2
  <2>6. printed' \in Seq(Answers) /\ pc' = "read" /\ Holds(stack', i + 1) /\ stack' \in Seq(Nat)
    BY <1>1, <2>1, <2>2, <2>4
  <2> QED
    BY <2>2, <2>3, <2>5, <2>6, StackStep
<1>7. CASE Stack!Exit \/ Stack!Finished
  <2>1. UNCHANGED <<queries, i, stack, printed>> /\ (pc' = pc \/ (pc = "read" /\ pc' = "done"))
    BY <1>7 DEF Stack!Exit, Stack!Finished, Stack!vars
  <2>2. /\ Asks' = Asks /\ Answers' = Answers
        /\ \A s, k : Holds(s, k) => Holds(s, k)'
        /\ \A k : NeedsOne(k)' <=> NeedsOne(k)
    BY <2>1, SameQueries
  <2>3. StackHolds => StackHolds'
    BY <2>1, <2>2 DEF StackHolds
  <2>4. NeedsOne(i) => NeedsOne(i)'
    BY <2>1, <2>2
  <2> QED
    BY <2>1, <2>2, <2>3, <2>4 DEF StackInv
<1> QED
  BY <1>3, <1>4, <1>5, <1>6, <1>7 DEF Stack!Next

LEMMA StackRight == StackInv => Stack!PrintedIsMaxAlive
<1> SUFFICES ASSUME StackInv PROVE Stack!PrintedIsMaxAlive
  OBVIOUS
<1>1. ASSUME NEW k \in DOMAIN printed PROVE printed[k][2] = Stack!Max(Stack!Alive(printed[k][1]))
  <2>1. printed[k] \in Answers
    BY DEF StackInv
  <2> QED
    BY <2>1 DEF Answers
<1>2. pc # "undefined" => Len(printed) = Stack!Cardinality({ m \in 1..i : queries[m].code = 3 })
  <2>1. (1..i) \cap Asks = { m \in 1..i : queries[m].code = 3 }
    BY DEF Asks
  <2> QED
    BY <2>1, StackCardinality DEF StackInv, StackHolds
<1>3. pc = "undefined" <=> i > 0 /\ queries[i].code \in {2, 3} /\ Stack!Surplus(1, i - 1) = 0
  BY DEF StackInv, StackHolds, NeedsOne
<1> QED
  BY <1>1, <1>2, <1>3 DEF Stack!PrintedIsMaxAlive

LEMMA StackStutter == StackInv /\ UNCHANGED Stack!vars => StackInv'
<1> SUFFICES ASSUME StackInv, UNCHANGED Stack!vars PROVE StackInv'
  OBVIOUS
<1>1. UNCHANGED <<queries, i, stack, printed, pc>>
  BY DEF Stack!vars
<1>2. /\ Asks' = Asks /\ Answers' = Answers
      /\ \A s, k : Holds(s, k) => Holds(s, k)'
      /\ \A k : NeedsOne(k)' <=> NeedsOne(k)
  BY <1>1, SameQueries
<1>3. StackHolds => StackHolds'
  BY <1>1, <1>2 DEF StackHolds
<1>4. NeedsOne(i) => NeedsOne(i)'
  BY <1>1, <1>2
<1> QED
  BY <1>1, <1>2, <1>3, <1>4 DEF StackInv

\* max_stack_element.cc: every query for the maximum is answered with that of the
\* values pushed and not popped before it, and behaviour is undefined at the
\* first query that needs an element of an empty stack and at no other.
THEOREM StackIsRight == Spec => []PrintedIsMaxAlive
<1> DEFINE Inv == program = "stack" => StackInv
<1>1. Init => Inv
  BY OneStarts, StackInit
<1>2. Inv /\ [Next]_vars => Inv'
  BY OneRuns, StackNext, StackStutter
<1>3. Inv => PrintedIsMaxAlive
  BY StackRight DEF PrintedIsMaxAlive
<1> QED
  BY <1>1, <1>2, <1>3, PTL DEF Spec

----------------------------------------------------------------------------
\* running_median.cc.  The sorted vector is the values taken, in ascending
\* order.

MedianCardinality == \A S : Median!Cardinality(S) = Cardinality(S)

LEMMA MedianCardinalityIs == MedianCardinality
BY DEF MedianCardinality, Median!Cardinality, Cardinality

\* What std::vector::insert does.
LEMMA InsertedAt ==
    ASSUME NEW S, NEW s \in Seq(S), NEW p \in 1..(Len(s) + 1), NEW e \in S
    PROVE  LET t == Median!InsertAt(s, p, e)
           IN  /\ t \in Seq(S) /\ Len(t) = Len(s) + 1
               /\ \A j \in 1..(Len(s) + 1) : t[j] = IF j < p THEN s[j] ELSE IF j = p THEN e ELSE s[j - 1]
<1> DEFINE d == Len(s)
<1> DEFINE a == SubSeq(s, 1, p - 1)
<1> DEFINE z == SubSeq(s, p, d)
<1> DEFINE t == Median!InsertAt(s, p, e)
<1>1. d \in Nat /\ p \in 1..(d + 1) /\ p \in Int /\ \A j \in 1..d : s[j] \in S
  BY ElementOfSeq
<1>2. t = (a \o <<e>>) \o z
  BY DEF Median!InsertAt
<1> HIDE DEF d, t
<1>3. a \in Seq(S) /\ Len(a) = p - 1 /\ \A j \in 1..(p - 1) : a[j] = s[j]
  <2>1. \A j \in 1..(p - 1) : s[j] \in S
    BY <1>1
  <2>2. /\ a \in Seq(S) /\ Len(a) = IF 1 <= p - 1 THEN p - 1 - 1 + 1 ELSE 0
        /\ \A j \in 1..(p - 1 - 1 + 1) : a[j] = s[1 + j - 1]
    BY <1>1, <2>1, SubSeqProperties
  <2> HIDE DEF a
  <2> QED
    BY <1>1, <2>2
<1>4. z \in Seq(S) /\ Len(z) = d - p + 1 /\ \A j \in 1..(d - p + 1) : z[j] = s[p + j - 1]
  <2>1. \A j \in p..d : s[j] \in S
    BY <1>1
  <2>2. /\ z \in Seq(S) /\ Len(z) = IF p <= d THEN d - p + 1 ELSE 0
        /\ \A j \in 1..(d - p + 1) : z[j] = s[p + j - 1]
    BY <1>1, <2>1, SubSeqProperties
  <2> HIDE DEF z
  <2> QED
    BY <1>1, <2>2
<1> HIDE DEF a, z
<1> DEFINE ae == a \o <<e>>
<1>5. ae \in Seq(S) /\ Len(ae) = p /\ \A j \in 1..p : ae[j] = IF j < p THEN s[j] ELSE e
  <2>1. <<e>> \in Seq(S) /\ Len(<<e>>) = 1 /\ <<e>>[1] = e
    OBVIOUS
  <2>2. /\ ae \in Seq(S) /\ Len(ae) = Len(a) + 1
        /\ \A j \in 1..(Len(a) + 1) : ae[j] = IF j <= Len(a) THEN a[j] ELSE <<e>>[j - Len(a)]
    BY <1>3, <2>1, ConcatProperties
  <2> HIDE DEF ae
  <2>3. ASSUME NEW j \in 1..p PROVE ae[j] = IF j < p THEN s[j] ELSE e
    <3>1. CASE j < p
      BY <1>1, <1>3, <2>2, <3>1
    <3>2. CASE j = p
      <4>1. j - Len(a) = 1 /\ ~(j <= Len(a)) /\ j \in 1..(Len(a) + 1)
        BY <1>1, <1>3, <3>2
      <4> QED
        BY <2>1, <2>2, <3>2, <4>1
    <3> QED
      BY <1>1, <3>1, <3>2
  <2> QED
    BY <1>1, <1>3, <2>2, <2>3
<1> HIDE DEF ae
<1>6. /\ t \in Seq(S) /\ Len(t) = Len(ae) + Len(z)
      /\ \A j \in 1..(Len(ae) + Len(z)) : t[j] = IF j <= Len(ae) THEN ae[j] ELSE z[j - Len(ae)]
  <2>1. t = ae \o z
    BY <1>2 DEF ae
  <2> QED
    BY <1>4, <1>5, <2>1, ConcatProperties
<1>7. Len(ae) + Len(z) = d + 1
  BY <1>1, <1>4, <1>5
<1>8. ASSUME NEW j \in 1..(d + 1) PROVE t[j] = IF j < p THEN s[j] ELSE IF j = p THEN e ELSE s[j - 1]
  <2>1. CASE j <= p
    BY <1>1, <1>5, <1>6, <1>7, <2>1
  <2>2. CASE p < j
    <3>1. j - p \in 1..(d - p + 1) /\ ~(j <= p) /\ p + (j - p) - 1 = j - 1
      BY <1>1, <2>2
    <3>2. t[j] = z[j - p]
      BY <1>5, <1>6, <1>7, <3>1
    <3>3. z[j - p] = s[j - 1]
      BY <1>4, <3>1
    <3> QED
      BY <1>1, <2>2, <3>2, <3>3
  <2> QED
    BY <1>1, <2>1, <2>2
<1> QED
  BY <1>6, <1>7, <1>8 DEF d, t

Ascends(s) == \A j, k \in 1..Len(s) : j <= k => s[j] <= s[k]

\* std::upper_bound: where what is greater begins.
LEMMA UpperBoundIs ==
    ASSUME NEW s \in Seq(Int), Ascends(s), NEW v \in Int
    PROVE  LET p == Median!UpperBound(s, v)
           IN  /\ p \in 1..(Len(s) + 1)
               /\ \A j \in 1..Len(s) : IF j < p THEN s[j] <= v ELSE v < s[j]
<1> DEFINE T == { k \in DOMAIN s : s[k] > v } \cup {Len(s) + 1}
<1>1. Len(s) \in Nat /\ DOMAIN s = 1..Len(s) /\ \A j \in 1..Len(s) : s[j] \in Int
  OBVIOUS
<1>2. T \subseteq Nat /\ T # {} /\ T \subseteq 1..(Len(s) + 1)
  BY <1>1
<1>3. PICK p \in T : \A y \in T : p <= y
  BY <1>2, Least
<1>4. Median!UpperBound(s, v) = p
  <2> DEFINE IsMin(x) == x \in T /\ \A y \in T : x =< y
  <2>1. Median!UpperBound(s, v) = CHOOSE x : IsMin(x)
    BY DEF Median!UpperBound, Median!Min
  <2>2. \A x : IsMin(x) => x = p
    <3> HIDE DEF T
    <3>1. ASSUME NEW x, x \in T, \A y \in T : x =< y PROVE x = p
      <4>1. x <= p /\ p <= x /\ x \in Int /\ p \in Int
        BY <1>2, <1>3, <3>1
      <4> QED
        BY <4>1
    <3> QED
      BY <3>1
  <2>3. IsMin(p)
    BY <1>3
  <2> HIDE DEF IsMin
  <2> QED
    BY <2>1, <2>2, <2>3
<1>5. ASSUME NEW j \in 1..Len(s) PROVE IF j < p THEN s[j] <= v ELSE v < s[j]
  <2>1. CASE j < p
    <3>1. j \notin T
      <4> HIDE DEF T
      <4> QED
        BY <1>2, <1>3, <2>1
    <3>2. ~(s[j] > v)
      BY <1>1, <3>1
    <3> QED
      BY <1>1, <2>1, <3>2
  <2>2. CASE ~(j < p)
    <3>1. p \in 1..Len(s) /\ p <= j
      BY <1>1, <1>2, <1>3, <2>2
    <3>2. p # Len(s) + 1
      BY <1>1, <3>1
    <3>3. s[p] > v
      BY <1>3, <3>2
    <3>4. s[p] <= s[j]
      BY <3>1 DEF Ascends
    <3> QED
      BY <1>1, <2>2, <3>1, <3>3, <3>4
  <2> QED
    BY <2>1, <2>2
<1> HIDE DEF T
<1> QED
  BY <1>2, <1>3, <1>4, <1>5

\* f says which of the first m values stands at each place.
Arranges(f, m) ==
    /\ f \in [1..m -> 1..m]
    /\ \A j, k \in 1..m : j # k => f[j] # f[k]
    /\ { f[j] : j \in 1..m } = 1..m

\* s is the first m values in ascending order.
IsSorting(s, m) ==
    /\ s \in Seq(Median!Ints) /\ Len(s) = m /\ Ascends(s)
    /\ \E f : Arranges(f, m) /\ \A j \in 1..m : s[j] = values[f[j]]

LEMMA ArrangesOneMore ==
    ASSUME NEW m \in Nat, NEW f, Arranges(f, m), NEW p \in 1..(m + 1)
    PROVE  Arranges([j \in 1..(m + 1) |-> IF j < p THEN f[j] ELSE IF j = p THEN m + 1 ELSE f[j - 1]], m + 1)
<1> DEFINE g == [j \in 1..(m + 1) |-> IF j < p THEN f[j] ELSE IF j = p THEN m + 1 ELSE f[j - 1]]
<1>1. f \in [1..m -> 1..m] /\ \A j \in 1..m : f[j] \in 1..m /\ f[j] # m + 1 /\ f[j] \in 1..(m + 1)
  <2>1. f \in [1..m -> 1..m]
    BY DEF Arranges
  <2>2. \A x \in 1..m : x # m + 1 /\ x \in 1..(m + 1)
    OBVIOUS
  <2> QED
    BY <2>1, <2>2
<1>2. \A j \in 1..(m + 1) : /\ j < p => j \in 1..m
                            /\ ~(j < p) /\ j # p => j - 1 \in 1..m
  OBVIOUS
<1>3. \A j \in 1..(m + 1) : g[j] = IF j < p THEN f[j] ELSE IF j = p THEN m + 1 ELSE f[j - 1]
  OBVIOUS
<1>4. g \in [1..(m + 1) -> 1..(m + 1)]
  <2>1. m + 1 \in 1..(m + 1)
    OBVIOUS
  <2> QED
    BY <1>1, <1>2, <2>1
<1> HIDE DEF g
<1>5. ASSUME NEW j \in 1..(m + 1), NEW k \in 1..(m + 1), j < k PROVE g[j] # g[k]
  <2>1. \A a, b \in 1..m : a # b => f[a] # f[b]
    BY DEF Arranges
  <2>2. CASE k < p
    <3>1. j < p /\ j \in 1..m /\ k \in 1..m /\ j # k
      BY <1>2, <1>5, <2>2
    <3> QED
      BY <1>3, <2>1, <2>2, <3>1
  <2>3. CASE k = p
    <3>1. j < p /\ ~(k < p) /\ j \in 1..m
      BY <1>2, <1>5, <2>3
    <3> QED
      BY <1>1, <1>3, <2>3, <3>1
  <2>4. CASE p < k
    <3>1. ~(k < p) /\ k # p /\ k - 1 \in 1..m /\ g[k] = f[k - 1]
      BY <1>2, <1>3, <2>4
    <3>2. CASE j < p
      <4>1. j \in 1..m /\ j # k - 1
        BY <1>2, <2>4, <3>2
      <4> QED
        BY <1>3, <2>1, <3>1, <3>2, <4>1
    <3>3. CASE j = p
      BY <1>1, <1>3, <3>1, <3>3
    <3>4. CASE p < j
      <4>1. j - 1 \in 1..m /\ j - 1 # k - 1 /\ ~(j < p) /\ j # p
        BY <1>2, <1>5, <3>4
      <4> QED
        BY <1>3, <2>1, <3>1, <4>1
    <3> QED
      BY <3>2, <3>3, <3>4
  <2> QED
    BY <2>2, <2>3, <2>4
<1>6. ASSUME NEW x \in 1..(m + 1) PROVE \E j \in 1..(m + 1) : g[j] = x
  <2>1. CASE x = m + 1
    BY <1>3, <2>1
  <2>2. CASE x # m + 1
    <3>1. x \in 1..m
      BY <2>2
    <3>2. PICK j \in 1..m : f[j] = x
      BY <3>1 DEF Arranges
    <3>3. CASE j < p
      BY <1>3, <3>2, <3>3
    <3>4. CASE ~(j < p)
      <4>1. j + 1 \in 1..(m + 1) /\ ~(j + 1 < p) /\ j + 1 # p /\ j + 1 - 1 = j
        BY <3>4
      <4> QED
        BY <1>3, <3>2, <4>1
    <3> QED
      BY <3>3, <3>4
  <2> QED
    BY <2>1, <2>2
<1>7. \A j, k \in 1..(m + 1) : j # k => g[j] # g[k]
  <2>1. \A j, k \in 1..(m + 1) : j # k => j < k \/ k < j
    OBVIOUS
  <2> QED
    BY <1>5, <2>1
<1>8. { g[j] : j \in 1..(m + 1) } = 1..(m + 1)
  BY <1>4, <1>6
<1> QED
  BY <1>4, <1>7, <1>8 DEF Arranges, g

\* The values of the medians are integers.
LEMMA MediansAreInt ==
    ASSUME MaxInt \in Nat
    PROVE  Median!Ints \subseteq Int
BY DEF Median!Ints

\* One more value at its upper bound.
LEMMA SortingGrows ==
    ASSUME NEW m \in Nat, NEW s, IsSorting(s, m), values \in Seq(Median!Ints), MaxInt \in Nat, m + 1 \in 1..Len(values)
    PROVE  IsSorting(Median!InsertAt(s, Median!UpperBound(s, values[m + 1]), values[m + 1]), m + 1)
<1> DEFINE e == values[m + 1]
<1> DEFINE p == Median!UpperBound(s, e)
<1> DEFINE t == Median!InsertAt(s, p, e)
<1>1. e \in Median!Ints /\ e \in Int /\ s \in Seq(Median!Ints) /\ Len(s) = m /\ Ascends(s)
  <2>1. e \in Median!Ints
    BY ElementOfSeq
  <2>2. e \in Int
    BY <2>1, MediansAreInt
  <2> QED
    BY <2>1, <2>2 DEF IsSorting
<1>2. s \in Seq(Int)
  BY <1>1, MediansAreInt
<1> HIDE DEF e
<1>3. p \in 1..(m + 1) /\ \A j \in 1..m : IF j < p THEN s[j] <= e ELSE e < s[j]
  BY <1>1, <1>2, UpperBoundIs
<1> HIDE DEF p
<1>4. /\ t \in Seq(Median!Ints) /\ Len(t) = m + 1
      /\ \A j \in 1..(m + 1) : t[j] = IF j < p THEN s[j] ELSE IF j = p THEN e ELSE s[j - 1]
  <2> DEFINE V == Median!Ints
  <2>1. p \in 1..(Len(s) + 1) /\ s \in Seq(V) /\ e \in V
    BY <1>1, <1>3
  <2> HIDE DEF V
  <2>3. /\ t \in Seq(V) /\ Len(t) = Len(s) + 1
        /\ \A j \in 1..(Len(s) + 1) : t[j] = IF j < p THEN s[j] ELSE IF j = p THEN e ELSE s[j - 1]
    BY ONLY <2>1, InsertedAt DEF t
  <2>2. /\ t \in Seq(Median!Ints) /\ Len(t) = Len(s) + 1
        /\ \A j \in 1..(Len(s) + 1) : t[j] = IF j < p THEN s[j] ELSE IF j = p THEN e ELSE s[j - 1]
    BY <2>3 DEF V
  <2> QED
    BY <1>1, <2>2
<1> HIDE DEF t
<1>5. /\ \A j \in 1..m : s[j] \in Int
      /\ \A j \in 1..(m + 1) : /\ j < p => j \in 1..m
                               /\ ~(j < p) /\ j # p => j - 1 \in 1..m /\ ~(j - 1 < p)
  BY <1>1, <1>2, <1>3
<1>6. ASSUME NEW j \in 1..(m + 1), NEW k \in 1..(m + 1), j <= k PROVE t[j] <= t[k]
  <2>1. \A a, b \in 1..m : a <= b => s[a] <= s[b]
    BY <1>1 DEF Ascends
  <2>2. CASE k < p
    <3>1. j < p /\ j \in 1..m /\ k \in 1..m
      BY <1>3, <1>5, <1>6, <2>2
    <3> QED
      BY <1>4, <1>6, <2>1, <2>2, <3>1
  <2>3. CASE k = p
    <3>1. t[k] = e
      BY <1>4, <2>3
    <3>2. CASE j = p
      BY <1>1, <1>4, <3>1, <3>2
    <3>3. CASE j < p
      <4>1. j \in 1..m /\ s[j] <= e /\ t[j] = s[j]
        BY <1>3, <1>4, <1>5, <3>3
      <4> QED
        BY <3>1, <4>1
    <3> QED
      BY <1>3, <1>6, <2>3, <3>2, <3>3
  <2>4. CASE p < k
    <3>1. ~(k < p) /\ k # p /\ k - 1 \in 1..m /\ ~(k - 1 < p)
      BY <1>3, <1>5, <2>4
    <3>2. t[k] = s[k - 1] /\ e < s[k - 1] /\ s[k - 1] \in Int
      BY <1>3, <1>4, <1>5, <3>1
    <3>3. CASE j < p
      <4>1. j \in 1..m /\ t[j] = s[j] /\ j <= k - 1
        BY <1>3, <1>4, <1>5, <2>4, <3>3
      <4> QED
        BY <2>1, <3>1, <3>2, <4>1
    <3>4. CASE j = p
      <4>1. t[j] = e
        BY <1>4, <3>4
      <4> QED
        BY <1>1, <3>2, <4>1
    <3>5. CASE p < j
      <4>1. ~(j < p) /\ j # p /\ j - 1 \in 1..m /\ j - 1 <= k - 1
        BY <1>3, <1>5, <1>6, <3>5
      <4>2. t[j] = s[j - 1]
        BY <1>4, <4>1
      <4> QED
        BY <2>1, <3>1, <3>2, <4>1, <4>2
    <3> QED
      BY <1>3, <3>3, <3>4, <3>5
  <2> QED
    BY <1>3, <2>2, <2>3, <2>4
<1>7. PICK f : Arranges(f, m) /\ \A j \in 1..m : s[j] = values[f[j]]
  BY DEF IsSorting
<1> DEFINE g == [j \in 1..(m + 1) |-> IF j < p THEN f[j] ELSE IF j = p THEN m + 1 ELSE f[j - 1]]
<1>8. Arranges(g, m + 1)
  BY <1>3, <1>7, ArrangesOneMore
<1>9. \A j \in 1..(m + 1) : t[j] = values[g[j]]
  BY <1>4, <1>5, <1>7 DEF e
<1> HIDE DEF g
<1>10. Ascends(t)
  BY <1>4, <1>6 DEF Ascends
<1> QED
  BY <1>4, <1>8, <1>9, <1>10 DEF IsSorting, t, p, e

\* A sequence of m values, sorted, has the k-th smallest of them at k.
LEMMA SmallestIs ==
    ASSUME NEW m \in Nat, NEW s, IsSorting(s, m), values \in Seq(Median!Ints), MaxInt \in Nat,
           m <= Len(values), NEW k \in 1..m
    PROVE  Median!Smallest(k, m) = s[k] /\ s[k] \in Int
<1> DEFINE below(v) == { j \in 1..m : values[j] < v }
<1> DEFINE upTo(v) == { j \in 1..m : values[j] <= v }
<1> DEFINE given == Median!ToSet(SubSeq(values, 1, m))
<1>1. PICK f : Arranges(f, m) /\ \A j \in 1..m : s[j] = values[f[j]]
  BY DEF IsSorting
<1>2. /\ f \in [1..m -> 1..m] /\ { f[j] : j \in 1..m } = 1..m
      /\ \A a, b \in 1..m : a # b => f[a] # f[b]
  BY <1>1 DEF Arranges
<1>3. /\ \A j \in 1..m : s[j] \in Int /\ values[j] \in Int
      /\ \A a, b \in 1..m : a <= b => s[a] <= s[b]
  <2>1. s \in Seq(Median!Ints) /\ Len(s) = m /\ \A a, b \in 1..Len(s) : a <= b => s[a] <= s[b]
    BY DEF IsSorting, Ascends
  <2>2. Len(values) \in Nat /\ \A j \in 1..m : j \in 1..Len(values)
    OBVIOUS
  <2>3. \A j \in 1..m : s[j] \in Median!Ints /\ values[j] \in Median!Ints
    BY <2>1, <2>2, ElementOfSeq
  <2> QED
    BY <2>1, <2>3, MediansAreInt
<1>4. \A v : IsFiniteSet(below(v)) /\ IsFiniteSet(upTo(v)) /\ Cardinality(below(v)) \in Nat
  <2> TAKE v
  <2>1. below(v) \in SUBSET (1..m) /\ upTo(v) \in SUBSET (1..m)
    OBVIOUS
  <2>2. IsFiniteSet(1..m)
    BY FS_Interval
  <2> HIDE DEF below, upTo
  <2> QED
    BY <2>1, <2>2, FS_Subset, FS_CardinalityType
<1>5. given = { values[j] : j \in 1..m }
  <2>1. \A j \in 1..m : values[j] \in Int
    BY <1>3
  <2>2. /\ Len(SubSeq(values, 1, m)) = m /\ SubSeq(values, 1, m) \in Seq(Int)
        /\ \A j \in 1..m : SubSeq(values, 1, m)[j] = values[j]
    <3>1. /\ SubSeq(values, 1, m) \in Seq(Int)
          /\ Len(SubSeq(values, 1, m)) = IF 1 <= m THEN m - 1 + 1 ELSE 0
          /\ \A j \in 1..(m - 1 + 1) : SubSeq(values, 1, m)[j] = values[1 + j - 1]
      BY <2>1, SubSeqProperties
    <3> HIDE DEF given
    <3> QED
      BY <3>1
  <2>3. DOMAIN SubSeq(values, 1, m) = 1..m
    BY <2>2
  <2> QED
    BY <2>2, <2>3 DEF Median!ToSet
<1>6. s[k] \in given /\ s[k] \in Int
  BY <1>1, <1>2, <1>3, <1>5
<1>7. Cardinality(below(s[k])) < k
  <2> DEFINE S == { f[j] : j \in 1..(k - 1) }
  <2>1. \A x \in below(s[k]) : x \in S
    <3> SUFFICES ASSUME NEW x \in 1..m, values[x] < s[k] PROVE x \in S
      OBVIOUS
    <3>1. PICK j \in 1..m : f[j] = x
      BY <1>2
    <3>2. s[j] < s[k]
      BY <1>1, <3>1
    <3>3. ~(k <= j)
      BY <1>3, <3>2
    <3>4. j \in 1..(k - 1)
      BY <3>3
    <3> QED
      BY <3>1, <3>4
  <2>2. k - 1 \in Nat
    OBVIOUS
  <2>3. IsFiniteSet(S) /\ Cardinality(S) <= k - 1
    <3> DEFINE g == [j \in 1..(k - 1) |-> f[j]]
    <3>1. IsFiniteSet(1..(k - 1)) /\ Cardinality(1..(k - 1)) = k - 1
      <4>1. 1 \in Int /\ k - 1 \in Int /\ (1 > k - 1 => k - 1 = 0) /\ k - 1 - 1 + 1 = k - 1
        OBVIOUS
      <4> QED
        BY <4>1, FS_Interval
    <3>2. g \in Surjection(1..(k - 1), S)
      BY DEF Surjection
    <3> QED
      BY <3>1, <3>2, FS_Surjection
  <2> HIDE DEF S, below
  <2>4. Cardinality(below(s[k])) <= Cardinality(S) /\ Cardinality(below(s[k])) \in Nat /\ Cardinality(S) \in Nat
    BY <1>4, <2>1, <2>3, FS_Subset, FS_CardinalityType
  <2> QED
    BY <2>2, <2>3, <2>4
<1>8. Cardinality(upTo(s[k])) >= k
  <2> DEFINE S == { f[j] : j \in 1..k }
  <2>1. \A j \in 1..k : j \in 1..m /\ f[j] \in upTo(s[k])
    <3> SUFFICES ASSUME NEW j \in 1..k PROVE j \in 1..m /\ f[j] \in upTo(s[k])
      OBVIOUS
    <3>1. j \in 1..m /\ j <= k
      OBVIOUS
    <3>2. s[j] <= s[k] /\ values[f[j]] = s[j] /\ f[j] \in 1..m
      BY <1>1, <1>2, <1>3, <3>1
    <3> QED
      BY <3>1, <3>2
  <2>2. S \in SUBSET upTo(s[k])
    BY <2>1
  <2> HIDE DEF upTo
  <2>3. IsFiniteSet(S) /\ Cardinality(S) <= Cardinality(upTo(s[k]))
    BY <1>4, <2>2, FS_Subset
  <2>4. Cardinality(1..k) <= Cardinality(S)
    <3> DEFINE g == [j \in 1..k |-> f[j]]
    <3>1. g \in Injection(1..k, S)
      <4>1. \A a, b \in 1..k : f[a] = f[b] => a = b
        BY <1>2, <2>1
      <4> QED
        BY <4>1 DEF Injection, IsInjective
    <3> QED
      BY <2>3, <3>1, FS_Injection
  <2>5. Cardinality(1..k) = k
    BY FS_Interval
  <2>6. Cardinality(S) \in Nat /\ Cardinality(upTo(s[k])) \in Nat
    BY <1>4, <2>3, FS_CardinalityType
  <2> HIDE DEF S
  <2> QED
    BY <2>3, <2>4, <2>5, <2>6
<1>9. ASSUME NEW v \in given, NEW w \in given, v < w, Cardinality(upTo(v)) >= k, Cardinality(below(w)) < k
      PROVE  FALSE
  <2>1. v \in Int /\ w \in Int
    BY <1>3, <1>5
  <2>2. upTo(v) \in SUBSET below(w)
    BY <1>3, <1>9, <2>1
  <2> HIDE DEF below, upTo
  <2>3. Cardinality(upTo(v)) <= Cardinality(below(w)) /\ Cardinality(upTo(v)) \in Nat /\ Cardinality(below(w)) \in Nat
    BY <1>4, <2>2, FS_Subset, FS_CardinalityType
  <2> QED
    BY <1>9, <2>3
<1> DEFINE Is(v) == v \in given /\ Cardinality(below(v)) < k /\ Cardinality(upTo(v)) >= k
<1>10. Median!Smallest(k, m) = CHOOSE v : Is(v)
  BY MedianCardinalityIs DEF MedianCardinality, Median!Smallest
<1>11. Is(s[k])
  BY <1>6, <1>7, <1>8
<1>12. ASSUME NEW v, Is(v) PROVE v = s[k]
  <2>1. v \in given /\ s[k] \in given /\ v \in Int /\ s[k] \in Int
    BY <1>3, <1>5, <1>6, <1>12
  <2>2. ~(v < s[k]) /\ ~(s[k] < v)
    BY <1>9, <1>11, <1>12, <2>1
  <2> QED
    BY <2>1, <2>2
<1> HIDE DEF Is
<1> QED
  BY <1>6, <1>10, <1>11, <1>12

MedianInv ==
    /\ values \in Seq(Median!Ints) /\ MaxInt \in Nat
    /\ taken \in 0..Len(values)
    /\ pc \in {"insert", "median", "done", "undefined"}
    /\ IsSorting(sorted_values, taken)
    /\ medians \in Seq(Int)
    /\ \A m \in 1..Len(medians) : medians[m] = Median!Middles(m)
    /\ pc \in {"insert", "done"} => Len(medians) = taken
    /\ pc \in {"median", "undefined"} => taken > 0 /\ Len(medians) = taken - 1
    /\ pc = "done" => taken = Len(values)
    /\ pc = "undefined" => Median!Middles(taken) \notin Median!Ints

LEMMA MedianInit == Median!Init => MedianInv
<1> SUFFICES ASSUME Median!Init PROVE MedianInv
  OBVIOUS
<1>1. values \in Medians /\ taken = 0 /\ sorted_values = <<>> /\ medians = <<>> /\ pc = "insert"
  BY DEF Median!Init
<1>2. values \in Seq(Median!Ints) /\ MaxInt \in Nat
  BY <1>1, InputsAssumption DEF Median!InputsOK
<1>3. <<>> \in Seq(Median!Ints) /\ <<>> \in Seq(Int) /\ Len(<<>>) = 0 /\ 1..0 = {} /\ Len(values) \in Nat
  BY <1>2
<1>4. Arranges(<<>>, 0)
  BY DEF Arranges
<1>5. IsSorting(<<>>, 0)
  BY <1>3, <1>4 DEF IsSorting, Ascends
<1> QED
  BY <1>1, <1>2, <1>3, <1>5 DEF MedianInv

\* The middles are those of the sorted values.
LEMMA MiddlesAre ==
    ASSUME MedianInv, taken > 0
    PROVE  /\ taken \in Nat /\ Len(sorted_values) = taken
           /\ taken % 2 = 1 => Median!Middles(taken) = 2 * sorted_values[taken \div 2 + 1]
           /\ taken % 2 = 0 =>
                 Median!Middles(taken) = sorted_values[taken \div 2] + sorted_values[taken \div 2 + 1]
           /\ Median!Middles(taken) \in Int
           /\ taken % 2 = 1 \/ taken % 2 = 0
<1>1. /\ taken \in Nat /\ taken <= Len(values) /\ Len(sorted_values) = taken
      /\ values \in Seq(Median!Ints) /\ MaxInt \in Nat /\ IsSorting(sorted_values, taken)
  BY DEF MedianInv, IsSorting
<1> DEFINE low == (taken + 1) \div 2
<1> DEFINE high == taken \div 2 + 1
<1>2. /\ low \in 1..taken /\ high \in 1..taken
      /\ taken % 2 = 1 => low = high
      /\ taken % 2 = 0 => low = taken \div 2
      /\ taken % 2 = 1 \/ taken % 2 = 0
  BY <1>1
<1> HIDE DEF low, high
<1>3. /\ Median!Smallest(low, taken) = sorted_values[low] /\ sorted_values[low] \in Int
      /\ Median!Smallest(high, taken) = sorted_values[high] /\ sorted_values[high] \in Int
  BY <1>1, <1>2, SmallestIs
<1>4. Median!Middles(taken) = sorted_values[low] + sorted_values[high]
  BY <1>3 DEF Median!Middles, low, high
<1>5. Median!Middles(taken) \in Int
  BY <1>3, <1>4
<1>6. taken % 2 = 1 => Median!Middles(taken) = 2 * sorted_values[high]
  BY <1>2, <1>3, <1>4
<1>7. taken % 2 = 0 => Median!Middles(taken) = sorted_values[taken \div 2] + sorted_values[high]
  BY <1>2, <1>4
<1> QED
  BY <1>1, <1>2, <1>5, <1>6, <1>7 DEF high

LEMMA SameMiddles ==
    ASSUME values' = values
    PROVE  /\ \A m : Median!Middles(m)' = Median!Middles(m)
           /\ \A s, m : IsSorting(s, m) => IsSorting(s, m)'
<1>1. \A m : Median!Middles(m)' = Median!Middles(m)
  BY DEF Median!Middles, Median!Smallest, Median!ToSet, Median!Cardinality
<1>2. \A s, m : IsSorting(s, m) => IsSorting(s, m)'
  BY DEF IsSorting, Ascends, Arranges
<1> QED
  BY <1>1, <1>2

\* A median is what is due after the values taken.
LEMMA MedianDue ==
    ASSUME MedianInv, pc = "median", UNCHANGED <<values, taken, sorted_values>>,
           NEW d \in Int, d = Median!Middles(taken),
           \/ medians' = Append(medians, d) /\ pc' = "insert"
           \/ medians' = medians /\ pc' = "undefined" /\ d \notin Median!Ints
    PROVE  MedianInv'
<1>1. /\ medians \in Seq(Int) /\ Len(medians) = taken - 1 /\ taken > 0 /\ taken \in Nat
      /\ \A m \in 1..Len(medians) : medians[m] = Median!Middles(m)
      /\ IsSorting(sorted_values, taken) /\ values \in Seq(Median!Ints) /\ MaxInt \in Nat /\ taken \in 0..Len(values)
  BY DEF MedianInv
<1>2. IsSorting(sorted_values, taken)' /\ \A m : Median!Middles(m)' = Median!Middles(m)
  BY <1>1, SameMiddles
<1>3. CASE medians' = Append(medians, d) /\ pc' = "insert"
  <2>1. /\ medians' \in Seq(Int) /\ Len(medians') = taken /\ medians'[taken] = d
        /\ \A m \in 1..(taken - 1) : medians'[m] = medians[m]
    BY <1>1, <1>3
  <2>2. \A m \in 1..taken : m \in 1..(taken - 1) \/ m = taken
    BY <1>1
  <2>3. \A m \in 1..taken : medians'[m] = Median!Middles(m)
    BY <1>1, <2>1, <2>2
  <2>4. \A m \in 1..Len(medians') : medians'[m] = Median!Middles(m)'
    BY <1>2, <2>1, <2>3
  <2> QED
    BY <1>1, <1>2, <1>3, <2>1, <2>4 DEF MedianInv
<1>4. CASE medians' = medians /\ pc' = "undefined" /\ d \notin Median!Ints
  <2>1. Median!Middles(taken)' = d
    BY <1>2
  <2>2. \A m \in 1..Len(medians') : medians'[m] = Median!Middles(m)'
    BY <1>1, <1>2, <1>4
  <2> QED
    BY <1>1, <1>2, <1>4, <2>1, <2>2 DEF MedianInv
<1> QED
  BY <1>3, <1>4

LEMMA MedianNext == MedianInv /\ Median!Next => MedianInv'
<1> SUFFICES ASSUME MedianInv, Median!Next PROVE MedianInv'
  OBVIOUS
<1>1. /\ medians \in Seq(Int) /\ taken \in Nat
      /\ \A m \in 1..Len(medians) : medians[m] = Median!Middles(m)
      /\ IsSorting(sorted_values, taken) /\ values \in Seq(Median!Ints) /\ MaxInt \in Nat /\ taken \in 0..Len(values)
  BY DEF MedianInv
<1>2. CASE Median!InsertValue
  <2>1. /\ pc = "insert" /\ taken < Len(values) /\ taken' = taken + 1 /\ pc' = "median"
        /\ sorted_values' = Median!InsertAt(sorted_values, Median!UpperBound(sorted_values, values[taken + 1]),
                                            values[taken + 1])
        /\ UNCHANGED <<values, medians>>
    BY <1>2 DEF Median!InsertValue
  <2>2. taken + 1 \in 1..Len(values)
    BY <1>1, <2>1
  <2>3. IsSorting(sorted_values', taken + 1)
    BY <1>1, <2>1, <2>2, SortingGrows
  <2>4. IsSorting(sorted_values, taken)'
    <3>1. IsSorting(sorted_values', taken')
      BY <2>1, <2>3
    <3> QED
      BY <2>1, <3>1, SameMiddles
  <2>5. \A m \in 1..Len(medians') : medians'[m] = Median!Middles(m)'
    BY <1>1, <2>1, SameMiddles
  <2>6. Len(medians) = taken
    BY <2>1 DEF MedianInv
  <2> QED
    BY <1>1, <2>1, <2>2, <2>4, <2>5, <2>6 DEF MedianInv
<1>3. CASE Median!OddMedian
  <2>1. /\ pc = "median" /\ Len(sorted_values) % 2 = 1 /\ pc' = "insert"
        /\ medians' = Append(medians, 2 * sorted_values[Len(sorted_values) \div 2 + 1])
        /\ UNCHANGED <<values, taken, sorted_values>>
    BY <1>3 DEF Median!OddMedian
  <2>2. taken > 0
    BY <2>1 DEF MedianInv
  <2>3. /\ Median!Middles(taken) = 2 * sorted_values[Len(sorted_values) \div 2 + 1]
        /\ Median!Middles(taken) \in Int
    BY <2>1, <2>2, MiddlesAre
  <2> QED
    BY <2>1, <2>3, MedianDue
<1>4. CASE Median!EvenMedian
  <2> DEFINE d == sorted_values[Len(sorted_values) \div 2] + sorted_values[Len(sorted_values) \div 2 + 1]
  <2>1. /\ pc = "median" /\ Len(sorted_values) % 2 = 0
        /\ UNCHANGED <<values, taken, sorted_values>>
        /\ d \notin Median!Ints => pc' = "undefined" /\ UNCHANGED medians
        /\ d \in Median!Ints => medians' = Append(medians, d) /\ pc' = "insert"
    BY <1>4 DEF Median!EvenMedian
  <2>2. taken > 0
    BY <2>1 DEF MedianInv
  <2>3. Median!Middles(taken) = d /\ Median!Middles(taken) \in Int
    BY <2>1, <2>2, MiddlesAre
  <2> HIDE DEF d
  <2>4. \/ medians' = Append(medians, d) /\ pc' = "insert"
        \/ medians' = medians /\ pc' = "undefined" /\ d \notin Median!Ints
    BY <2>1
  <2> QED
    BY <2>1, <2>3, <2>4, MedianDue
<1>5. CASE Median!Return \/ Median!Finished
  <2>1. /\ UNCHANGED <<values, taken, sorted_values, medians>>
        /\ pc' = pc \/ (pc = "insert" /\ taken = Len(values) /\ pc' = "done")
    BY <1>5 DEF Median!Return, Median!Finished, Median!vars
  <2>2. IsSorting(sorted_values, taken)' /\ \A m : Median!Middles(m)' = Median!Middles(m)
    BY <1>1, <2>1, SameMiddles
  <2>3. \A m \in 1..Len(medians') : medians'[m] = Median!Middles(m)'
    BY <1>1, <2>1, <2>2
  <2>4. Median!Middles(taken)' = Median!Middles(taken)
    BY <2>1, <2>2
  <2> QED
    BY <1>1, <2>1, <2>2, <2>3, <2>4 DEF MedianInv
<1> QED
  BY <1>2, <1>3, <1>4, <1>5 DEF Median!Next

LEMMA MedianRight == MedianInv => Median!MediansSplit
<1> SUFFICES ASSUME MedianInv PROVE Median!MediansSplit
  OBVIOUS
<1>1. DOMAIN medians = 1..Len(medians)
  BY DEF MedianInv
<1>2. \A m \in DOMAIN medians : medians[m] = Median!Middles(m)
  BY <1>1 DEF MedianInv
<1>3. pc = "done" => Len(medians) = Len(values)
  BY DEF MedianInv
<1>4. pc = "undefined" => Median!Middles(taken) \notin Median!Ints
  BY DEF MedianInv
<1> QED
  BY <1>2, <1>3, <1>4 DEF Median!MediansSplit

LEMMA MedianStutter == MedianInv /\ UNCHANGED Median!vars => MedianInv'
<1> SUFFICES ASSUME MedianInv, UNCHANGED Median!vars PROVE MedianInv'
  OBVIOUS
<1>1. UNCHANGED <<values, taken, sorted_values, medians, pc>>
  BY DEF Median!vars
<1>2. IsSorting(sorted_values, taken)' /\ \A m : Median!Middles(m)' = Median!Middles(m)
  BY <1>1, SameMiddles DEF MedianInv
<1>3. Median!Middles(taken)' = Median!Middles(taken)
  BY <1>1, <1>2
<1> QED
  BY <1>1, <1>2, <1>3 DEF MedianInv

\* running_median.cc: each median is the middle of the values read up to it, or
\* the mean of the two in the middle; the program stops short of them only where
\* the sum of the two is not an int.
THEOREM MediansAreRight == Spec => []MediansSplit
<1> DEFINE Inv == program = "median" => MedianInv
<1>1. Init => Inv
  BY OneStarts, MedianInit
<1>2. Inv /\ [Next]_vars => Inv'
  BY OneRuns, MedianNext, MedianStutter
<1>3. Inv => MediansSplit
  BY MedianRight DEF MediansSplit
<1> QED
  BY <1>1, <1>2, <1>3, PTL DEF Spec

----------------------------------------------------------------------------
\* merge_sorted_linked_lists.cc.  Each list is linked in order over nodes of
\* its own; the merged one holds the values passed by the cursors, and none of
\* those that are left is less than one of them.

\* The nodes lo to hi of h are linked in order, and p points to the first.
Listed(h, p, lo, hi) ==
    /\ p = IF lo <= hi THEN lo ELSE 0
    /\ \A k \in lo..hi : h[k].next = IF k < hi THEN k + 1 ELSE 0

WalkedTo(lo, hi, k) == IF lo + k <= hi THEN lo + k ELSE 0

LEMMA WalkIs ==
    ASSUME NEW h \in Seq(Nodes), NEW lo \in 1..(Len(h) + 1), NEW hi \in 0..Len(h), lo <= hi + 1, NEW p, Listed(h, p, lo, hi)
    PROVE  \A k \in 0..Len(h) : Merge!Walk(h, p)[k] = WalkedTo(lo, hi, k)
<1> DEFINE next(f, k) == IF k = 0 THEN p ELSE IF f[k - 1] = 0 THEN 0 ELSE h[f[k - 1]].next
<1> DEFINE walked == [k \in 0..Len(h) |-> WalkedTo(lo, hi, k)]
<1>1. Merge!Walk(h, p) = CHOOSE f : f = [k \in 0..Len(h) |-> next(f, k)]
  BY DEF Merge!Walk, Merge!Null
<1>2. Len(h) \in Nat /\ \A k \in lo..hi : h[k].next = IF k < hi THEN k + 1 ELSE 0
  BY DEF Listed
<1>3. ASSUME NEW k \in 0..Len(h) PROVE walked[k] = next(walked, k)
  <2>1. CASE k = 0
    BY <2>1 DEF WalkedTo, Listed
  <2>2. CASE k # 0
    <3>1. k - 1 \in 0..Len(h) /\ lo + (k - 1) + 1 = lo + k
      BY <2>2
    <3>2. walked[k - 1] = WalkedTo(lo, hi, k - 1)
      BY <3>1
    <3>3. CASE lo + (k - 1) <= hi
      <4>1. lo + (k - 1) \in lo..hi /\ lo + (k - 1) # 0 /\ walked[k - 1] = lo + (k - 1)
        BY <2>2, <3>1, <3>2, <3>3 DEF WalkedTo
      <4>2. h[lo + (k - 1)].next = IF lo + (k - 1) < hi THEN lo + (k - 1) + 1 ELSE 0
        BY <1>2, <4>1
      <4>3. walked[k] = IF lo + k <= hi THEN lo + k ELSE 0
        BY DEF WalkedTo
      <4>4. lo + (k - 1) < hi <=> lo + k <= hi
        BY <3>1
      <4> QED
        BY <2>2, <3>1, <4>1, <4>2, <4>3, <4>4
    <3>4. CASE ~(lo + (k - 1) <= hi)
      <4>1. walked[k - 1] = 0
        BY <3>2, <3>4 DEF WalkedTo
      <4>2. walked[k] = 0
        BY <2>2, <3>4 DEF WalkedTo
      <4> QED
        BY <2>2, <4>1, <4>2
    <3> QED
      BY <3>3, <3>4
  <2> QED
    BY <2>1, <2>2
<1>4. walked = [k \in 0..Len(h) |-> next(walked, k)]
  <2> DEFINE again == [k \in 0..Len(h) |-> next(walked, k)]
  <2>1. \A k \in 0..Len(h) : walked[k] = again[k]
    BY <1>3
  <2>2. \A k \in 0..Len(h) : next(walked, k) = walked[k]
    BY <1>3
  <2>3. walked = [k \in 0..Len(h) |-> walked[k]]
    OBVIOUS
  <2> HIDE DEF walked, next
  <2> QED
    BY <2>2, <2>3
<1>5. Merge!Walk(h, p) = [k \in 0..Len(h) |-> next(Merge!Walk(h, p), k)]
  <2> DEFINE Is(f) == f = [k \in 0..Len(h) |-> next(f, k)]
  <2>1. Merge!Walk(h, p) = CHOOSE f : Is(f)
    BY <1>1
  <2>2. Is(walked)
    BY <1>4
  <2> HIDE DEF walked, Is
  <2>3. Is(Merge!Walk(h, p))
    BY <2>1, <2>2
  <2> QED
    BY <2>3 DEF Is
<1> DEFINE g == Merge!Walk(h, p)
<1> HIDE DEF walked
<1>6. \A k \in 0..Len(h) : g[k] = next(g, k)
  <2> HIDE DEF g
  <2>1. g = [k \in 0..Len(h) |-> next(g, k)]
    BY <1>5 DEF g
  <2> DEFINE e(k) == next(g, k)
  <2>2. g = [k \in 0..Len(h) |-> e(k)]
    BY <2>1
  <2> HIDE DEF e
  <2>3. \A k \in 0..Len(h) : g[k] = e(k)
    BY <2>2
  <2> QED
    BY <2>3 DEF e
<1>7. \A k \in 0..Len(h) : walked[k] = next(walked, k)
  BY <1>3
<1> HIDE DEF g
<1> DEFINE T == { k \in Nat : k <= Len(h) => g[k] = walked[k] }
<1>8. 0 \in T
  BY <1>2, <1>6, <1>7
<1>9. ASSUME NEW k \in Nat, k \in T PROVE k + 1 \in T
  <2> SUFFICES ASSUME k + 1 <= Len(h) PROVE g[k + 1] = walked[k + 1]
    OBVIOUS
  <2>1. g[k] = walked[k] /\ k + 1 \in 0..Len(h) /\ k + 1 # 0 /\ k + 1 - 1 = k
    BY <1>2, <1>9
  <2> QED
    BY <1>6, <1>7, <2>1
<1>10. Nat \subseteq T
  <2> HIDE DEF T
  <2> QED
    BY <1>8, <1>9, Induction
<1>11. \A k \in 0..Len(h) : g[k] = walked[k]
  BY <1>2, <1>10
<1> QED
  BY <1>11 DEF g, walked

LEMMA MergeCardinality == \A S : Merge!Cardinality(S) = Cardinality(S)
BY DEF Merge!Cardinality, Cardinality

\* The chain of nodes that are linked in order, and what they hold.
LEMMA ChainIs ==
    ASSUME NEW h \in Seq(Nodes), NEW lo \in 1..(Len(h) + 1), NEW hi \in 0..Len(h), lo <= hi + 1, NEW p, Listed(h, p, lo, hi)
    PROVE  /\ Merge!ChainFrom(h, p) = [j \in 1..(hi - lo + 1) |-> lo + j - 1]
           /\ Merge!ValuesFrom(h, p) = [j \in 1..(hi - lo + 1) |-> h[lo + j - 1].value]
<1> DEFINE T == { j \in 0..Len(h) : Merge!Walk(h, p)[j] # 0 }
<1> DEFINE w == hi - lo + 1
<1>1. w \in Nat /\ w <= Len(h) /\ Len(h) \in Nat /\ w = hi - lo + 1 /\ lo \in Int /\ hi \in Int
  OBVIOUS
<1>2. \A k \in 0..Len(h) : Merge!Walk(h, p)[k] = WalkedTo(lo, hi, k)
  BY WalkIs
<1>3. T = 0..(w - 1)
  <2>1. \A j \in 0..Len(h) : WalkedTo(lo, hi, j) # 0 <=> j \in 0..(w - 1)
    BY DEF WalkedTo
  <2>2. \A j \in 0..(w - 1) : j \in 0..Len(h)
    BY <1>1
  <2> QED
    BY <1>2, <2>1, <2>2
<1>4. Merge!Cardinality(T) = w
  <2>1. Cardinality(0..(w - 1)) = IF 0 > w - 1 THEN 0 ELSE w - 1 - 0 + 1
    BY <1>1, FS_Interval
  <2> HIDE DEF T, w
  <2> QED
    BY <1>1, <1>3, <2>1, MergeCardinality
<1>5. Merge!ChainFrom(h, p) = [k \in 1..w |-> Merge!Walk(h, p)[k - 1]]
  BY <1>4 DEF Merge!ChainFrom, Merge!Null
<1> DEFINE chain == [j \in 1..w |-> lo + j - 1]
<1>6. \A k \in 1..w : Merge!Walk(h, p)[k - 1] = lo + k - 1
  <2> SUFFICES ASSUME NEW k \in 1..w PROVE Merge!Walk(h, p)[k - 1] = lo + k - 1
    OBVIOUS
  <2>1. k - 1 \in 0..Len(h) /\ lo + (k - 1) <= hi /\ lo + (k - 1) = lo + k - 1
    BY <1>1
  <2> QED
    BY <1>2, <2>1 DEF WalkedTo
<1> HIDE DEF w, T
<1>7. Merge!ChainFrom(h, p) = chain
  BY <1>5, <1>6
<1>8. Merge!ValuesFrom(h, p) = [j \in 1..w |-> h[lo + j - 1].value]
  <2>1. DOMAIN chain = 1..w /\ \A j \in 1..w : chain[j] = lo + j - 1
    OBVIOUS
  <2> HIDE DEF chain
  <2> QED
    BY <1>7, <2>1 DEF Merge!ValuesFrom
<1> QED
  BY <1>7, <1>8 DEF w

\* What has been arranged in another order has the same bag.
LEMMA SameBag ==
    ASSUME NEW m \in Nat, NEW s, NEW t, DOMAIN s = 1..m, DOMAIN t = 1..m,
           NEW f, Arranges(f, m), \A j \in 1..m : s[j] = t[f[j]]
    PROVE  Merge!ToBag(s) = Merge!ToBag(t)
<1>1. /\ f \in [1..m -> 1..m] /\ { f[j] : j \in 1..m } = 1..m
      /\ \A a, b \in 1..m : a # b => f[a] # f[b]
  BY DEF Arranges
<1>2. Merge!Range(s) = Merge!Range(t)
  <2>1. Merge!Range(s) = { s[j] : j \in 1..m } /\ Merge!Range(t) = { t[j] : j \in 1..m }
    BY DEF Merge!Range
  <2>2. \A j \in 1..m : f[j] \in 1..m /\ s[j] = t[f[j]]
    BY <1>1
  <2>3. \A k \in 1..m : \E j \in 1..m : t[k] = s[j]
    BY <1>1
  <2>4. \A x : x \in { s[j] : j \in 1..m } => x \in { t[j] : j \in 1..m }
    BY <2>2
  <2>5. \A x : x \in { t[j] : j \in 1..m } => x \in { s[j] : j \in 1..m }
    BY <2>3
  <2> QED
    BY <2>1, <2>4, <2>5
<1>3. ASSUME NEW x PROVE Merge!Cardinality({ j \in DOMAIN s : s[j] = x }) = Merge!Cardinality({ j \in DOMAIN t : t[j] = x })
  <2> DEFINE S == { j \in 1..m : s[j] = x }
  <2> DEFINE T == { j \in 1..m : t[j] = x }
  <2> DEFINE g == [j \in S |-> f[j]]
  <2>1. IsFiniteSet(S) /\ IsFiniteSet(T)
    <3>1. IsFiniteSet(1..m) /\ S \in SUBSET (1..m) /\ T \in SUBSET (1..m)
      BY FS_Interval
    <3> QED
      BY <3>1, FS_Subset
  <2>2. g \in [S -> T]
    BY <1>1
  <2>3. \A a, b \in S : g[a] = g[b] => a = b
    BY <1>1
  <2>4. \A y \in T : \E a \in S : g[a] = y
    <3> SUFFICES ASSUME NEW y \in 1..m, t[y] = x PROVE \E a \in S : g[a] = y
      OBVIOUS
    <3>1. PICK a \in 1..m : f[a] = y
      BY <1>1
    <3>2. s[a] = x
      BY <3>1
    <3> QED
      BY <3>1, <3>2
  <2> HIDE DEF g, S, T
  <2>5. g \in Injection(S, T) /\ g \in Surjection(S, T)
    <3>1. DOMAIN g = S
      BY <2>2
    <3> QED
      BY <2>2, <2>3, <2>4, <3>1 DEF Injection, IsInjective, Surjection
  <2>6. Cardinality(S) = Cardinality(T)
    BY <2>1, <2>5, FS_Surjection
  <2>7. Merge!Cardinality(S) = Merge!Cardinality(T)
    BY <2>6, MergeCardinality
  <2> QED
    BY <2>7 DEF S, T
<1> DEFINE bagOf(x) == Merge!Cardinality({ j \in DOMAIN s : s[j] = x })
<1>4. Merge!ToBag(s) = [x \in Merge!Range(s) |-> bagOf(x)]
  BY DEF Merge!ToBag
<1>5. Merge!ToBag(t) = [x \in Merge!Range(t) |-> Merge!Cardinality({ j \in DOMAIN t : t[j] = x })]
  BY DEF Merge!ToBag
<1>6. [x \in Merge!Range(t) |-> Merge!Cardinality({ j \in DOMAIN t : t[j] = x })] = [x \in Merge!Range(s) |-> bagOf(x)]
  BY <1>2, <1>3
<1> QED
  BY <1>4, <1>5, <1>6

MergeCases == [a: Seq(Nat), b: Seq(Nat)]

LenA == Len(cases[c].a)

LenB == Len(cases[c].b)

\* The values of the case in hand, those of a first.
Given(k) == IF k <= LenA THEN cases[c].a[k] ELSE cases[c].b[k - LenA]

\* The list that is made begins after base and is all of the heap that follows.
Building(base) ==
    /\ base \in 0..Len(heap)
    /\ Listed(heap, head, base + 1, Len(heap))
    /\ cur = IF base < Len(heap) THEN Len(heap) ELSE 0

LEMMA Built ==
    ASSUME heap \in Seq(Nodes), NEW base, Building(base), NEW v \in Nat, Merge!InsertNewNode(v)
    PROVE  /\ heap' \in Seq(Nodes) /\ Len(heap') = Len(heap) + 1
           /\ heap'[Len(heap) + 1].value = v
           /\ \A k \in 1..Len(heap) : heap'[k].value = heap[k].value
           /\ \A k \in 1..base : heap'[k].next = heap[k].next
           /\ base \in 0..Len(heap')
           /\ Listed(heap', head', base + 1, Len(heap'))
           /\ cur' = IF base < Len(heap') THEN Len(heap') ELSE 0
<1>1. heap' = FromTail!Grown(heap, cur, v) /\ cur' = Len(heap')
  BY DEF Merge!InsertNewNode, Merge!Grown, FromTail!Grown, Merge!Null, FromTail!Null
<1>2. head' = IF head = 0 THEN Len(heap) + 1 ELSE head
  BY DEF Merge!InsertNewNode, Merge!HeadAfter, Merge!Null
<1>3. /\ Len(heap) \in Nat /\ base \in 0..Len(heap) /\ base \in Nat
      /\ cur = IF base < Len(heap) THEN Len(heap) ELSE 0
      /\ head = IF base + 1 <= Len(heap) THEN base + 1 ELSE 0
      /\ \A k \in (base + 1)..Len(heap) : heap[k].next = IF k < Len(heap) THEN k + 1 ELSE 0
  BY DEF Building, Listed
<1>4. cur \in 0..Len(heap)
  BY <1>3
<1>5. IsGrown(heap', heap, cur, v)
  BY <1>1, <1>4, Grows
<1>6. /\ heap' \in Seq(Nodes) /\ Len(heap') = Len(heap) + 1
      /\ heap'[Len(heap) + 1].value = v /\ heap'[Len(heap) + 1].next = 0
      /\ \A k \in 1..Len(heap) : /\ heap'[k].value = heap[k].value
                                 /\ heap'[k].next = IF k = cur THEN Len(heap) + 1 ELSE heap[k].next
  BY <1>5 DEF IsGrown
<1>7. \A k \in 1..base : heap'[k].next = heap[k].next
  <2>1. \A k \in 1..base : k \in 1..Len(heap) /\ k # cur
    BY <1>3
  <2> QED
    BY <1>6, <2>1
<1>8. ASSUME NEW k \in (base + 1)..(Len(heap) + 1)
      PROVE  heap'[k].next = IF k < Len(heap) + 1 THEN k + 1 ELSE 0
  <2>1. CASE k = Len(heap) + 1
    BY <1>3, <1>6, <2>1
  <2>2. CASE k = Len(heap)
    <3>1. k \in 1..Len(heap) /\ k = cur
      BY <1>3, <2>2
    <3> QED
      BY <1>3, <1>6, <2>2, <3>1
  <2>3. CASE k < Len(heap)
    <3>1. k \in (base + 1)..Len(heap) /\ k \in 1..Len(heap) /\ k # cur /\ k < Len(heap) + 1
      BY <1>3, <2>3
    <3> QED
      BY <1>3, <1>6, <2>3, <3>1
  <2> QED
    BY <1>3, <2>1, <2>2, <2>3
<1>9. Listed(heap', head', base + 1, Len(heap'))
  <2>1. head' = base + 1 /\ base + 1 <= Len(heap) + 1
    BY <1>2, <1>3
  <2> QED
    BY <1>6, <1>8, <2>1 DEF Listed
<1> QED
  BY <1>1, <1>3, <1>6, <1>7, <1>9

\* The q nodes after base hold the values given at U, in ascending order, and
\* none of them exceeds one given at R.
Woven(h, base, q, U, R) ==
    /\ \E f \in [1..q -> 1..base] :
          /\ \A j, k \in 1..q : j # k => f[j] # f[k]
          /\ { f[j] : j \in 1..q } = U
          /\ \A j \in 1..q : h[base + j].value = Given(f[j])
    /\ \A j, k \in 1..q : j <= k => h[base + j].value <= h[base + k].value
    /\ \A j \in 1..q, k \in R : h[base + j].value <= Given(k)

LEMMA WovenMore ==
    ASSUME NEW h, NEW more, NEW base \in Nat, NEW q \in Nat, NEW U, NEW R, Woven(h, base, q, U, R),
           NEW g \in R, g \in 1..base, g \notin U, \A k \in R : Given(g) <= Given(k),
           Given(g) \in Nat,
           more[base + q + 1].value = Given(g),
           \A k \in 1..(base + q) : more[k].value = h[k].value
    PROVE  Woven(more, base, q + 1, U \cup {g}, R \ {g})
<1>1. PICK f \in [1..q -> 1..base] : /\ \A j, k \in 1..q : j # k => f[j] # f[k]
                                     /\ { f[j] : j \in 1..q } = U
                                     /\ \A j \in 1..q : h[base + j].value = Given(f[j])
  BY DEF Woven
<1>2. /\ \A j, k \in 1..q : j <= k => h[base + j].value <= h[base + k].value
      /\ \A j \in 1..q, k \in R : h[base + j].value <= Given(k)
  BY DEF Woven
<1>3. /\ \A j \in 1..q : base + j \in 1..(base + q) /\ more[base + j].value = h[base + j].value
      /\ base + (q + 1) = base + q + 1
      /\ \A j \in 1..(q + 1) : j \in 1..q \/ j = q + 1
      /\ 1..q \subseteq 1..(q + 1) /\ q + 1 \in 1..(q + 1) /\ q + 1 \notin 1..q
      /\ \A j \in 1..q : ~(q + 1 <= j)
  <2>1. \A j \in 1..q : base + j \in 1..(base + q)
    OBVIOUS
  <2>2. \A j \in 1..q : more[base + j].value = h[base + j].value
    BY <2>1
  <2>3. \A j \in 1..(q + 1) : j \in 1..q \/ j = q + 1
    OBVIOUS
  <2> QED
    BY <2>1, <2>2, <2>3
<1> DEFINE e == [j \in 1..(q + 1) |-> IF j = q + 1 THEN g ELSE f[j]]
<1>4. /\ e \in [1..(q + 1) -> 1..base] /\ e[q + 1] = g /\ \A j \in 1..q : e[j] = f[j]
  BY <1>1, <1>3
<1> HIDE DEF e
<1>5. \A j, k \in 1..(q + 1) : j # k => e[j] # e[k]
  <2>1. \A j \in 1..q : e[j] # g
    BY <1>1, <1>4
  <2> QED
    BY <1>1, <1>3, <1>4, <2>1
<1>6. { e[j] : j \in 1..(q + 1) } = U \cup {g}
  <2>1. \A j \in 1..(q + 1) : e[j] \in U \cup {g}
    BY <1>1, <1>3, <1>4
  <2>2. \A x \in U : \E j \in 1..(q + 1) : e[j] = x
    BY <1>1, <1>3, <1>4
  <2>3. \E j \in 1..(q + 1) : e[j] = g
    BY <1>3, <1>4
  <2> QED
    BY <2>1, <2>2, <2>3
<1>7. \A j \in 1..(q + 1) : more[base + j].value = Given(e[j])
  <2>1. \A j \in 1..q : more[base + j].value = Given(e[j])
    BY <1>1, <1>3, <1>4
  <2>2. more[base + (q + 1)].value = Given(e[q + 1])
    BY <1>3, <1>4
  <2> QED
    BY <1>3, <2>1, <2>2
<1>8. \A j, k \in 1..(q + 1) : j <= k => more[base + j].value <= more[base + k].value
  <2> SUFFICES ASSUME NEW j \in 1..(q + 1), NEW k \in 1..(q + 1), j <= k
               PROVE  more[base + j].value <= more[base + k].value
    OBVIOUS
  <2>1. CASE k = q + 1 /\ j = q + 1
    BY <1>3, <2>1
  <2>2. CASE k = q + 1 /\ j \in 1..q
    BY <1>2, <1>3, <2>2
  <2>3. CASE k \in 1..q
    <3>1. j \in 1..q
      BY <1>3, <2>3
    <3> QED
      BY <1>2, <1>3, <2>3, <3>1
  <2> QED
    BY <1>3, <2>1, <2>2, <2>3
<1>9. \A j \in 1..(q + 1), k \in R \ {g} : more[base + j].value <= Given(k)
  BY <1>2, <1>3
<1> QED
  BY <1>4, <1>5, <1>6, <1>7, <1>8, <1>9 DEF Woven

Base == LenA + LenB

\* What has been merged when the cursors have passed x values of a and y of b,
\* and what is left.
Used(x, y) == (1..x) \cup ((LenA + 1)..(LenA + y))

Left(x, y) == ((x + 1)..LenA) \cup ((LenA + y + 1)..Base)

Answered(k) ==
    /\ Merge!Ascending(printed[k])
    /\ Merge!ToBag(printed[k]) = Merge!ToBag(cases[k].a \o cases[k].b)

MergeAnswers ==
    /\ cases \in Seq(MergeCases)
    /\ \A k \in 1..Len(cases) : Merge!Ascending(cases[k].a) /\ Merge!Ascending(cases[k].b)
    /\ c \in 1..(Len(cases) + 1)
    /\ printed \in Seq(Seq(Nat)) /\ Len(printed) = c - 1
    /\ \A k \in 1..(c - 1) : Answered(k)

CreatingA ==
    /\ Building(0) /\ taken = Len(heap) /\ taken <= LenA
    /\ \A k \in 1..Len(heap) : heap[k].value = Given(k)

CreatingB ==
    /\ Building(LenA) /\ Len(heap) = LenA + taken /\ taken <= LenB /\ taken \in Nat
    /\ Listed(heap, head_a, 1, LenA)
    /\ \A k \in 1..Len(heap) : heap[k].value = Given(k)

ListsRead ==
    /\ Listed(heap, head_a, 1, LenA) /\ Listed(heap, head_b, LenA + 1, Base)
    /\ \A k \in 1..Base : heap[k].value = Given(k)

CursorsAt(x, y) ==
    /\ x \in 0..LenA /\ y \in 0..LenB
    /\ cur_a = IF x < LenA THEN x + 1 ELSE 0
    /\ cur_b = IF y < LenB THEN LenA + y + 1 ELSE 0

Weaving ==
    /\ Building(Base) /\ ListsRead /\ taken = 0
    /\ \E x, y : /\ CursorsAt(x, y) /\ Len(heap) = Base + (x + y)
                 /\ Woven(heap, Base, x + y, Used(x, y), Left(x, y))

MergeInv ==
    /\ MergeAnswers
    /\ pc \in {"create_a", "create_b", "both", "while_a", "while_b", "finish_a", "finish_b", "print", "done"}
    /\ pc # "done" => c \in 1..Len(cases) /\ heap \in Seq(Nodes)
    /\ pc = "create_a" => CreatingA
    /\ pc = "create_b" => CreatingB
    /\ pc \notin {"create_a", "create_b", "done"} => Weaving
    /\ pc = "finish_a" => cur_a = 0 \/ cur_b = 0
    /\ pc = "finish_b" => cur_a = 0
    /\ pc = "print" => cur_a = 0 /\ cur_b = 0

LEMMA MergeCase ==
    ASSUME MergeAnswers, c \in 1..Len(cases)
    PROVE  /\ LenA \in Nat /\ LenB \in Nat /\ Base \in Nat /\ c \in Nat /\ Len(cases) \in Nat
           /\ \A k \in 1..Base : Given(k) \in Nat
           /\ \A j, k \in 1..LenA : j <= k => Given(j) <= Given(k)
           /\ \A j, k \in (LenA + 1)..Base : j <= k => Given(j) <= Given(k)
           /\ cases[c].a \in Seq(Nat) /\ cases[c].b \in Seq(Nat)
<1>1. cases \in Seq(MergeCases) /\ Len(cases) \in Nat /\ c \in Nat
  BY DEF MergeAnswers
<1>2. cases[c] \in MergeCases
  BY <1>1, ElementOfSeq
<1>3. cases[c].a \in Seq(Nat) /\ cases[c].b \in Seq(Nat)
  BY <1>2 DEF MergeCases
<1>4. LenA \in Nat /\ LenB \in Nat /\ Base \in Nat
  <2>1. LenA \in Nat /\ LenB \in Nat
    BY <1>3, LenProperties DEF LenA, LenB
  <2> QED
    BY <2>1 DEF Base
<1>5. /\ \A k \in 1..LenA : cases[c].a[k] \in Nat
      /\ \A k \in 1..LenB : cases[c].b[k] \in Nat
  BY <1>3, ElementOfSeq DEF LenA, LenB
<1>6. /\ \A j, k \in 1..LenA : j < k => cases[c].a[j] <= cases[c].a[k]
      /\ \A j, k \in 1..LenB : j < k => cases[c].b[j] <= cases[c].b[k]
  <2>1. Merge!Ascending(cases[c].a) /\ Merge!Ascending(cases[c].b)
    BY DEF MergeAnswers
  <2>2. DOMAIN cases[c].a = 1..LenA /\ DOMAIN cases[c].b = 1..LenB
    BY <1>3 DEF LenA, LenB
  <2> QED
    BY <2>1, <2>2 DEF Merge!Ascending
<1>7. \A k \in 1..LenA : Given(k) = cases[c].a[k]
  BY <1>4 DEF Given
<1>8. \A k \in (LenA + 1)..Base : Given(k) = cases[c].b[k - LenA] /\ k - LenA \in 1..LenB
  BY <1>4 DEF Given, Base
<1>9. \A k \in 1..Base : k \in 1..LenA \/ k \in (LenA + 1)..Base
  BY <1>4 DEF Base
<1>10. \A k \in 1..Base : Given(k) \in Nat
  BY <1>5, <1>7, <1>8, <1>9
<1>11. \A j, k \in 1..LenA : j <= k => Given(j) <= Given(k)
  <2> SUFFICES ASSUME NEW j \in 1..LenA, NEW k \in 1..LenA, j <= k PROVE Given(j) <= Given(k)
    OBVIOUS
  <2>1. CASE j = k
    BY <1>5, <1>7, <2>1
  <2>2. CASE j < k
    BY <1>6, <1>7, <2>2
  <2> QED
    BY <1>4, <2>1, <2>2
<1>12. \A j, k \in (LenA + 1)..Base : j <= k => Given(j) <= Given(k)
  <2> SUFFICES ASSUME NEW j \in (LenA + 1)..Base, NEW k \in (LenA + 1)..Base, j <= k PROVE Given(j) <= Given(k)
    OBVIOUS
  <2>1. CASE j = k
    BY <1>5, <1>8, <2>1
  <2>2. CASE j < k
    <3>1. j - LenA < k - LenA
      BY <1>4, <2>2
    <3> QED
      BY <1>6, <1>8, <3>1
  <2> QED
    BY <1>4, <2>1, <2>2
<1> QED
  BY <1>1, <1>3, <1>4, <1>10, <1>11, <1>12

LEMMA SameCase ==
    ASSUME UNCHANGED <<cases, c>>
    PROVE  /\ LenA' = LenA /\ LenB' = LenB /\ Base' = Base
           /\ \A k : Given(k)' = Given(k)
           /\ \A x, y : Used(x, y)' = Used(x, y) /\ Left(x, y)' = Left(x, y)
<1>1. LenA' = LenA /\ LenB' = LenB
  BY DEF LenA, LenB
<1>2. Base' = Base
  BY <1>1 DEF Base
<1>3. \A k : Given(k)' = Given(k)
  BY <1>1 DEF Given
<1>4. \A x, y : Used(x, y)' = Used(x, y) /\ Left(x, y)' = Left(x, y)
  BY <1>1, <1>2 DEF Used, Left
<1> QED
  BY <1>1, <1>2, <1>3, <1>4

\* The answers do not change while no line is written.
LEMMA SameAnswers ==
    ASSUME UNCHANGED <<cases, c, printed>>, MergeAnswers PROVE MergeAnswers'
BY DEF MergeAnswers, Answered

\* The value at g of what was given is merged.
LEMMA WovenTaken ==
    ASSUME MergeAnswers, c \in 1..Len(cases), heap \in Seq(Nodes), Building(Base), ListsRead,
           NEW x \in Nat, NEW y \in Nat, Len(heap) = Base + (x + y),
           Woven(heap, Base, x + y, Used(x, y), Left(x, y)),
           NEW g \in Left(x, y), g \in 1..Base, g \notin Used(x, y),
           \A k \in Left(x, y) : Given(g) <= Given(k),
           Merge!InsertNewNode(Given(g)), UNCHANGED <<cases, c, head_a, head_b>>
    PROVE  /\ heap' \in Seq(Nodes) /\ Building(Base)' /\ ListsRead' /\ Len(heap') = Base + (x + y + 1)
           /\ Woven(heap', Base, x + y + 1, Used(x, y) \cup {g}, Left(x, y) \ {g})
<1>1. /\ LenA \in Nat /\ LenB \in Nat /\ Base \in Nat /\ Given(g) \in Nat /\ Base = LenA + LenB
  BY MergeCase DEF Base
<1>2. /\ heap' \in Seq(Nodes) /\ Len(heap') = Len(heap) + 1
      /\ heap'[Len(heap) + 1].value = Given(g)
      /\ \A k \in 1..Len(heap) : heap'[k].value = heap[k].value
      /\ \A k \in 1..Base : heap'[k].next = heap[k].next
      /\ Base \in 0..Len(heap')
      /\ Listed(heap', head', Base + 1, Len(heap'))
      /\ cur' = IF Base < Len(heap') THEN Len(heap') ELSE 0
  BY <1>1, Built
<1>3. Building(Base)'
  <2>1. Base' = Base
    BY SameCase
  <2> QED
    BY <1>2, <2>1 DEF Building, Listed
<1>4. Len(heap) + 1 = Base + (x + y + 1) /\ Base + (x + y) + 1 = Len(heap) + 1 /\ x + y \in Nat
  BY <1>1
<1>5. Woven(heap', Base, x + y + 1, Used(x, y) \cup {g}, Left(x, y) \ {g})
  <2> DEFINE more == heap'
  <2> DEFINE q == x + y
  <2>1. more[Base + q + 1].value = Given(g) /\ \A k \in 1..(Base + q) : more[k].value = heap[k].value /\ q \in Nat
    BY <1>2, <1>4
  <2>2. Woven(heap, Base, q, Used(x, y), Left(x, y))
    OBVIOUS
  <2> HIDE DEF more, q
  <2>3. Woven(more, Base, q + 1, Used(x, y) \cup {g}, Left(x, y) \ {g})
    BY <1>1, <1>4, <2>1, <2>2, WovenMore DEF q
  <2> QED
    BY <2>3 DEF more, q
<1>6. ListsRead'
  <2>1. /\ \A k \in 1..LenA : k \in 1..Base
        /\ \A k \in (LenA + 1)..Base : k \in 1..Base
        /\ \A k \in 1..Base : k \in 1..Len(heap)
    BY <1>1, <1>4
  <2>2. Listed(heap', head_a', 1, LenA) /\ Listed(heap', head_b', LenA + 1, Base)
    BY <1>2, <2>1 DEF ListsRead, Listed
  <2>3. \A k \in 1..Base : heap'[k].value = Given(k)
    BY <1>2, <2>1 DEF ListsRead
  <2>4. Listed(heap, head_a, 1, LenA)' /\ Listed(heap, head_b, LenA + 1, Base)'
    BY <2>2, SameCase DEF Listed
  <2>5. (\A k \in 1..Base : heap[k].value = Given(k))'
    BY <2>3, SameCase
  <2> QED
    BY <2>4, <2>5 DEF ListsRead
<1> QED
  BY <1>2, <1>3, <1>4, <1>5, <1>6

LEMMA NothingMade ==
    ASSUME heap = <<>>, head = 0, cur = 0, taken = 0, MergeAnswers, c \in 1..Len(cases)
    PROVE  CreatingA /\ heap \in Seq(Nodes)
<1>1. LenA \in Nat
  BY MergeCase
<1>2. Len(heap) = 0 /\ heap \in Seq(Nodes) /\ 1..0 = {}
  OBVIOUS
<1>3. Building(0)
  BY <1>2 DEF Building, Listed
<1> QED
  BY <1>1, <1>2, <1>3 DEF CreatingA

LEMMA MergeInit == Merge!Init => MergeInv
<1> SUFFICES ASSUME Merge!Init PROVE MergeInv
  OBVIOUS
<1>1. /\ cases \in Merges /\ c = 1 /\ taken = 0 /\ heap = <<>> /\ head = 0 /\ cur = 0 /\ printed = <<>>
      /\ pc = IF cases = <<>> THEN "done" ELSE "create_a"
  BY DEF Merge!Init, Merge!Null
<1>2. cases \in Seq(MergeCases) /\ \A k \in DOMAIN cases : Merge!Ascending(cases[k].a) /\ Merge!Ascending(cases[k].b)
  BY <1>1, InputsAssumption DEF Merge!InputsOK, MergeCases
<1>3. Len(cases) \in Nat /\ DOMAIN cases = 1..Len(cases)
  BY <1>2
<1>4. printed \in Seq(Seq(Nat)) /\ Len(printed) = 0 /\ 1..0 = {}
  BY <1>1
<1>5. MergeAnswers
  BY <1>1, <1>2, <1>3, <1>4 DEF MergeAnswers
<1>6. CASE cases = <<>>
  BY <1>1, <1>5, <1>6 DEF MergeInv
<1>7. CASE cases # <<>>
  <2>1. c \in 1..Len(cases) /\ pc = "create_a"
    BY <1>1, <1>2, <1>3, <1>7, EmptySeq
  <2>2. CreatingA /\ heap \in Seq(Nodes)
    BY <1>1, <1>5, <2>1, NothingMade
  <2> QED
    BY <1>5, <2>1, <2>2 DEF MergeInv
<1> QED
  BY <1>6, <1>7

LEMMA CreateNodeA == MergeInv /\ Merge!CreateNode("create_a", Merge!Case.a) => MergeInv'
<1> SUFFICES ASSUME MergeInv, Merge!CreateNode("create_a", Merge!Case.a) PROVE MergeInv'
  OBVIOUS
<1>1. /\ pc = "create_a" /\ pc' = pc /\ UNCHANGED <<cases, c, printed>>
      /\ taken < LenA /\ taken' = taken + 1 /\ Merge!InsertNewNode(cases[c].a[taken + 1])
  BY DEF Merge!CreateNode, Merge!Case, LenA
<1>2. /\ MergeAnswers /\ c \in 1..Len(cases) /\ heap \in Seq(Nodes) /\ CreatingA
  BY <1>1 DEF MergeInv
<1>3. /\ LenA \in Nat /\ LenB \in Nat /\ Base = LenA + LenB /\ \A k \in 1..Base : Given(k) \in Nat
      /\ Building(0) /\ taken = Len(heap) /\ taken \in Nat /\ \A k \in 1..taken : heap[k].value = Given(k)
  BY <1>2, MergeCase DEF CreatingA, Base
<1>4. taken + 1 \in 1..Base /\ Given(taken + 1) = cases[c].a[taken + 1]
  BY <1>1, <1>3 DEF Given
<1> DEFINE v == cases[c].a[taken + 1]
<1>5. v \in Nat
  BY <1>3, <1>4
<1>6. /\ heap' \in Seq(Nodes) /\ Len(heap') = Len(heap) + 1
      /\ heap'[Len(heap) + 1].value = v
      /\ \A k \in 1..Len(heap) : heap'[k].value = heap[k].value
      /\ 0 \in 0..Len(heap')
      /\ Listed(heap', head', 0 + 1, Len(heap'))
      /\ cur' = IF 0 < Len(heap') THEN Len(heap') ELSE 0
  <2> HIDE DEF v
  <2>1. Merge!InsertNewNode(v)
    BY <1>1 DEF v
  <2> QED
    BY <1>2, <1>3, <1>5, <2>1, Built
<1>7. Building(0)'
  BY <1>6 DEF Building, Listed
<1>8. \A k \in 1..Len(heap') : heap'[k].value = Given(k)
  <2>1. \A k \in 1..Len(heap') : k \in 1..taken \/ k = taken + 1
    BY <1>3, <1>6
  <2> QED
    BY <1>3, <1>4, <1>6, <2>1
<1>9. CreatingA'
  <2>1. LenA' = LenA /\ \A k : Given(k)' = Given(k)
    BY <1>1, SameCase
  <2> QED
    BY <1>1, <1>3, <1>6, <1>7, <1>8, <2>1 DEF CreatingA
<1>10. MergeAnswers'
  BY <1>1, <1>2, SameAnswers
<1> QED
  BY <1>1, <1>2, <1>6, <1>9, <1>10 DEF MergeInv

LEMMA CreatedA == MergeInv /\ Merge!CreatedA => MergeInv'
<1> SUFFICES ASSUME MergeInv, Merge!CreatedA PROVE MergeInv'
  OBVIOUS
<1>1. /\ pc = "create_a" /\ pc' = "create_b" /\ UNCHANGED <<cases, c, printed, heap>>
      /\ taken = LenA /\ taken' = 0 /\ head_a' = head /\ head' = 0 /\ cur' = 0
  BY DEF Merge!CreatedA, Merge!Case, Merge!Null, LenA
<1>2. /\ MergeAnswers /\ c \in 1..Len(cases) /\ heap \in Seq(Nodes) /\ CreatingA
  BY <1>1 DEF MergeInv
<1>3. /\ LenA \in Nat /\ LenB \in Nat /\ Len(heap) = LenA /\ Listed(heap, head, 1, LenA)
      /\ \A k \in 1..Len(heap) : heap[k].value = Given(k)
  <2>1. LenA \in Nat /\ LenB \in Nat
    BY <1>2, MergeCase
  <2>2. Building(0) /\ taken = Len(heap) /\ \A k \in 1..Len(heap) : heap[k].value = Given(k)
    BY <1>2 DEF CreatingA
  <2>3. Listed(heap, head, 0 + 1, Len(heap))
    BY <2>2 DEF Building
  <2>4. 0 + 1 = 1 /\ Len(heap) = LenA
    BY <1>1, <2>2
  <2> QED
    BY <2>1, <2>2, <2>3, <2>4
<1>4. LenA' = LenA /\ LenB' = LenB /\ \A k : Given(k)' = Given(k)
  BY <1>1, SameCase
<1>5. Building(LenA)'
  <2>1. LenA \in 0..Len(heap') /\ (LenA + 1)..Len(heap') = {} /\ ~(LenA + 1 <= Len(heap')) /\ ~(LenA < Len(heap'))
    BY <1>1, <1>3
  <2> QED
    BY <1>1, <1>4, <2>1 DEF Building, Listed
<1>6. CreatingB'
  <2>1. Listed(heap, head_a, 1, LenA)'
    BY <1>1, <1>3, <1>4 DEF Listed
  <2>2. (\A k \in 1..Len(heap) : heap[k].value = Given(k))'
    BY <1>1, <1>3, <1>4
  <2>3. (Len(heap) = LenA + taken /\ taken <= LenB /\ taken \in Nat)'
    BY <1>1, <1>3, <1>4
  <2> QED
    BY <1>5, <2>1, <2>2, <2>3 DEF CreatingB
<1>7. MergeAnswers'
  BY <1>1, <1>2, SameAnswers
<1> QED
  BY <1>1, <1>2, <1>6, <1>7 DEF MergeInv

LEMMA CreateNodeB == MergeInv /\ Merge!CreateNode("create_b", Merge!Case.b) => MergeInv'
<1> SUFFICES ASSUME MergeInv, Merge!CreateNode("create_b", Merge!Case.b) PROVE MergeInv'
  OBVIOUS
<1>1. /\ pc = "create_b" /\ pc' = pc /\ UNCHANGED <<cases, c, printed, head_a>>
      /\ taken < LenB /\ taken' = taken + 1 /\ Merge!InsertNewNode(cases[c].b[taken + 1])
  BY DEF Merge!CreateNode, Merge!Case, LenB
<1>2. /\ MergeAnswers /\ c \in 1..Len(cases) /\ heap \in Seq(Nodes) /\ CreatingB
  BY <1>1 DEF MergeInv
<1>3. /\ LenA \in Nat /\ LenB \in Nat /\ Base = LenA + LenB /\ \A k \in 1..Base : Given(k) \in Nat
      /\ Building(LenA) /\ taken \in Nat /\ Len(heap) = LenA + taken
      /\ Listed(heap, head_a, 1, LenA) /\ \A k \in 1..Len(heap) : heap[k].value = Given(k)
  BY <1>2, MergeCase DEF CreatingB, Base
<1>4. Len(heap) + 1 \in 1..Base /\ Given(Len(heap) + 1) = cases[c].b[taken + 1]
  <2>1. Len(heap) + 1 \in 1..Base
    BY <1>1, <1>3
  <2>2. Len(heap) + 1 > LenA
    BY <1>1, <1>3
  <2>3. Len(heap) + 1 - LenA = taken + 1
    BY <1>1, <1>3
  <2> QED
    BY <1>3, <2>1, <2>2, <2>3 DEF Given
<1> DEFINE v == cases[c].b[taken + 1]
<1>5. v \in Nat
  BY <1>3, <1>4
<1>6. /\ heap' \in Seq(Nodes) /\ Len(heap') = Len(heap) + 1
      /\ heap'[Len(heap) + 1].value = v
      /\ \A k \in 1..Len(heap) : heap'[k].value = heap[k].value
      /\ \A k \in 1..LenA : heap'[k].next = heap[k].next
      /\ LenA \in 0..Len(heap')
      /\ Listed(heap', head', LenA + 1, Len(heap'))
      /\ cur' = IF LenA < Len(heap') THEN Len(heap') ELSE 0
  <2> HIDE DEF v
  <2>1. Merge!InsertNewNode(v)
    BY <1>1 DEF v
  <2> QED
    BY <1>2, <1>3, <1>5, <2>1, Built
<1>7. LenA' = LenA /\ LenB' = LenB /\ \A k : Given(k)' = Given(k)
  BY <1>1, SameCase
<1>8. Building(LenA)'
  BY <1>6, <1>7 DEF Building, Listed
<1>9. (\A k \in 1..Len(heap) : heap[k].value = Given(k))'
  <2>1. \A k \in 1..Len(heap') : k \in 1..Len(heap) \/ k = Len(heap) + 1
    BY <1>3, <1>6
  <2> QED
    BY <1>3, <1>4, <1>6, <1>7, <2>1
<1>10. Listed(heap, head_a, 1, LenA)'
  BY <1>1, <1>3, <1>6, <1>7 DEF Listed
<1>11. CreatingB'
  <2>1. (Len(heap) = LenA + taken /\ taken <= LenB /\ taken \in Nat)'
    BY <1>1, <1>3, <1>6, <1>7
  <2> QED
    BY <1>8, <1>9, <1>10, <2>1 DEF CreatingB
<1>12. MergeAnswers'
  BY <1>1, <1>2, SameAnswers
<1> QED
  BY <1>1, <1>2, <1>6, <1>11, <1>12 DEF MergeInv

\* What is woven in the next heap is so when the case is the same.
LEMMA StillWoven ==
    ASSUME UNCHANGED <<cases, c>>, NEW x, NEW y, NEW q, Woven(heap', Base, q, Used(x, y), Left(x, y))
    PROVE  Woven(heap, Base, q, Used(x, y), Left(x, y))'
<1> DEFINE more == heap'
<1> DEFINE base == Base
<1> DEFINE used == Used(x, y)
<1> DEFINE left == Left(x, y)
<1>1. Base' = base /\ Used(x, y)' = used /\ Left(x, y)' = left /\ \A k : Given(k)' = Given(k)
  BY SameCase
<1>2. Woven(more, base, q, used, left)
  OBVIOUS
<1>3. more = heap'
  OBVIOUS
<1> HIDE DEF more, base, used, left
<1>4. PICK f \in [1..q -> 1..base] :
         /\ \A j, k \in 1..q : j # k => f[j] # f[k]
         /\ { f[j] : j \in 1..q } = used
         /\ \A j \in 1..q : more[base + j].value = Given(f[j])
  BY <1>2 DEF Woven
<1>5. /\ \A j, k \in 1..q : j <= k => more[base + j].value <= more[base + k].value
      /\ \A j \in 1..q, k \in left : more[base + j].value <= Given(k)
  BY <1>2 DEF Woven
<1>6. \E e \in [1..q -> 1..Base'] :
         /\ \A j, k \in 1..q : j # k => e[j] # e[k]
         /\ { e[j] : j \in 1..q } = Used(x, y)'
         /\ \A j \in 1..q : heap'[Base' + j].value = Given(e[j])'
  <2>1. f \in [1..q -> 1..Base'] /\ { f[j] : j \in 1..q } = Used(x, y)'
    BY <1>1, <1>4
  <2>2. \A j \in 1..q : heap'[Base' + j].value = Given(f[j])'
    BY <1>1, <1>3, <1>4
  <2> QED
    BY <1>4, <2>1, <2>2
<1>7. /\ \A j, k \in 1..q : j <= k => heap'[Base' + j].value <= heap'[Base' + k].value
      /\ \A j \in 1..q, k \in Left(x, y)' : heap'[Base' + j].value <= Given(k)'
  BY <1>1, <1>3, <1>5
<1> QED
  BY <1>6, <1>7 DEF Woven

LEMMA CreatedB == MergeInv /\ Merge!CreatedB => MergeInv'
<1> SUFFICES ASSUME MergeInv, Merge!CreatedB PROVE MergeInv'
  OBVIOUS
<1>1. /\ pc = "create_b" /\ pc' = "both" /\ UNCHANGED <<cases, c, printed, heap, head_a>>
      /\ taken = LenB /\ taken' = 0 /\ head_b' = head /\ head' = 0 /\ cur' = 0
      /\ cur_a' = head_a /\ cur_b' = head
  BY DEF Merge!CreatedB, Merge!Case, Merge!Null, LenB
<1>2. /\ MergeAnswers /\ c \in 1..Len(cases) /\ heap \in Seq(Nodes) /\ CreatingB
  BY <1>1 DEF MergeInv
<1>3. LenA \in Nat /\ LenB \in Nat /\ Base = LenA + LenB /\ Base \in Nat
  BY <1>2, MergeCase DEF Base
<1>4. /\ Len(heap) = Base /\ Listed(heap, head, LenA + 1, Base) /\ Listed(heap, head_a, 1, LenA)
      /\ \A k \in 1..Base : heap[k].value = Given(k)
  BY <1>1, <1>2, <1>3 DEF CreatingB, Building
<1>5. Base' = Base /\ LenA' = LenA /\ LenB' = LenB /\ \A k : Given(k)' = Given(k)
  BY <1>1, SameCase
<1>6. Building(Base)'
  <2>1. /\ Base \in 0..Len(heap')
        /\ (Base + 1)..Len(heap') = {}
        /\ Base >= Len(heap')
    BY <1>1, <1>3, <1>4
  <2> QED
    BY <1>1, <1>3, <1>5, <2>1 DEF Building, Listed
<1>7. ListsRead'
  <2>1. Listed(heap, head_a, 1, LenA)' /\ Listed(heap, head_b, LenA + 1, Base)'
    BY <1>1, <1>4, <1>5 DEF Listed
  <2>2. (\A k \in 1..Base : heap[k].value = Given(k))'
    BY <1>1, <1>4, <1>5
  <2> QED
    BY <2>1, <2>2 DEF ListsRead
<1>8. CursorsAt(0, 0)'
  <2>1. cur_a' = IF 0 < LenA THEN 0 + 1 ELSE 0
    BY <1>1, <1>3, <1>4 DEF Listed
  <2>2. cur_b' = IF 0 < LenB THEN LenA + 0 + 1 ELSE 0
    BY <1>1, <1>3, <1>4 DEF Listed
  <2> QED
    BY <1>3, <1>5, <2>1, <2>2 DEF CursorsAt
<1>9. Woven(heap, Base, 0 + 0, Used(0, 0), Left(0, 0))
  <2>1. Used(0, 0) = {} /\ 1..(0 + 0) = {}
    BY <1>3 DEF Used
  <2> DEFINE f == [j \in 1..(0 + 0) |-> 0]
  <2>2. f \in [1..(0 + 0) -> 1..Base] /\ { f[j] : j \in 1..(0 + 0) } = {}
    BY <2>1
  <2> HIDE DEF f
  <2> QED
    BY <2>1, <2>2 DEF Woven
<1>10. Woven(heap, Base, 0 + 0, Used(0, 0), Left(0, 0))'
  BY <1>1, <1>9, StillWoven
<1>11. Weaving'
  <2>1. (Len(heap) = Base + (0 + 0))'
    BY <1>1, <1>3, <1>4, <1>5
  <2> QED
    BY <1>1, <1>6, <1>7, <1>8, <1>10, <2>1 DEF Weaving
<1>12. MergeAnswers'
  BY <1>1, <1>2, SameAnswers
<1> QED
  BY <1>1, <1>2, <1>11, <1>12 DEF MergeInv

\* The next value of a, or of b, is taken.
LEMMA OneUsed ==
    ASSUME LenA \in Nat, LenB \in Nat, NEW x \in 0..LenA, NEW y \in 0..LenB
    PROVE  /\ x < LenA =>
                /\ x + 1 \in Left(x, y) /\ x + 1 \in 1..Base /\ x + 1 \notin Used(x, y)
                /\ Used(x, y) \cup {x + 1} = Used(x + 1, y)
                /\ Left(x, y) \ {x + 1} = Left(x + 1, y)
           /\ y < LenB =>
                /\ LenA + y + 1 \in Left(x, y) /\ LenA + y + 1 \in 1..Base /\ LenA + y + 1 \notin Used(x, y)
                /\ Used(x, y) \cup {LenA + y + 1} = Used(x, y + 1)
                /\ Left(x, y) \ {LenA + y + 1} = Left(x, y + 1)
<1>1. Base = LenA + LenB
  BY DEF Base
<1>4. ASSUME x < LenA
      PROVE  /\ x + 1 \in Left(x, y) /\ x + 1 \in 1..Base /\ x + 1 \notin Used(x, y)
             /\ Used(x, y) \cup {x + 1} = Used(x + 1, y)
             /\ Left(x, y) \ {x + 1} = Left(x + 1, y)
  <2>1. x + 1 \in Left(x, y) /\ x + 1 \in 1..Base /\ x + 1 \notin Used(x, y)
    BY <1>1, <1>4 DEF Used, Left
  <2>2. Used(x, y) \cup {x + 1} = Used(x + 1, y)
    BY <1>4 DEF Used
  <2>3. Left(x, y) \ {x + 1} = Left(x + 1, y)
    BY <1>1, <1>4 DEF Left
  <2> QED
    BY <2>1, <2>2, <2>3
<1>5. ASSUME y < LenB
      PROVE  /\ LenA + y + 1 \in Left(x, y) /\ LenA + y + 1 \in 1..Base /\ LenA + y + 1 \notin Used(x, y)
             /\ Used(x, y) \cup {LenA + y + 1} = Used(x, y + 1)
             /\ Left(x, y) \ {LenA + y + 1} = Left(x, y + 1)
  <2>1. LenA + y + 1 \in Left(x, y) /\ LenA + y + 1 \in 1..Base /\ LenA + y + 1 \notin Used(x, y)
    BY <1>1, <1>5 DEF Used, Left
  <2>2. Used(x, y) \cup {LenA + y + 1} = Used(x, y + 1)
    BY <1>5 DEF Used
  <2>3. Left(x, y) \ {LenA + y + 1} = Left(x, y + 1)
    BY <1>1, <1>5 DEF Left
  <2> QED
    BY <2>1, <2>2, <2>3
<1> QED
  BY <1>4, <1>5

\* A cursor that is not at the end is at the least value its list has left.
LEMMA CursorLeast ==
    ASSUME MergeAnswers, c \in 1..Len(cases), ListsRead, NEW x, NEW y, CursorsAt(x, y)
    PROVE  /\ x < LenA => /\ cur_a = x + 1 /\ cur_a \in 1..LenA
                          /\ Merge!Value(heap, cur_a) = Given(x + 1)
                          /\ Merge!Following(heap, cur_a) = IF x + 1 < LenA THEN x + 1 + 1 ELSE 0
                          /\ \A k \in (x + 1)..LenA : Given(x + 1) <= Given(k)
           /\ y < LenB => /\ cur_b = LenA + y + 1 /\ cur_b \in (LenA + 1)..Base
                          /\ Merge!Value(heap, cur_b) = Given(LenA + y + 1)
                          /\ Merge!Following(heap, cur_b) = IF y + 1 < LenB THEN LenA + (y + 1) + 1 ELSE 0
                          /\ \A k \in (LenA + y + 1)..Base : Given(LenA + y + 1) <= Given(k)
           /\ x \in Nat /\ y \in Nat
           /\ cur_a # 0 <=> x < LenA
           /\ cur_b # 0 <=> y < LenB
<1>1. /\ LenA \in Nat /\ LenB \in Nat /\ Base = LenA + LenB /\ Base \in Nat
      /\ x \in 0..LenA /\ y \in 0..LenB
      /\ cur_a = IF x < LenA THEN x + 1 ELSE 0
      /\ cur_b = IF y < LenB THEN LenA + y + 1 ELSE 0
  BY MergeCase DEF CursorsAt, Base
<1>2. /\ \A k \in 1..LenA : heap[k].next = IF k < LenA THEN k + 1 ELSE 0
      /\ \A k \in (LenA + 1)..Base : heap[k].next = IF k < Base THEN k + 1 ELSE 0
      /\ \A k \in 1..Base : heap[k].value = Given(k)
  BY DEF ListsRead, Listed
<1>3. /\ \A j, k \in 1..LenA : j <= k => Given(j) <= Given(k)
      /\ \A j, k \in (LenA + 1)..Base : j <= k => Given(j) <= Given(k)
  BY MergeCase
<1>4. ASSUME x < LenA
      PROVE  /\ cur_a = x + 1 /\ cur_a \in 1..LenA
             /\ Merge!Value(heap, cur_a) = Given(x + 1)
             /\ Merge!Following(heap, cur_a) = IF x + 1 < LenA THEN x + 1 + 1 ELSE 0
             /\ \A k \in (x + 1)..LenA : Given(x + 1) <= Given(k)
  <2>1. cur_a = x + 1 /\ x + 1 \in 1..LenA /\ x + 1 \in 1..Base
    BY <1>1, <1>4
  <2>2. \A k \in (x + 1)..LenA : k \in 1..LenA /\ x + 1 <= k
    BY <1>1
  <2> QED
    BY <1>2, <1>3, <2>1, <2>2 DEF Merge!Value, Merge!Following
<1>5. ASSUME y < LenB
      PROVE  /\ cur_b = LenA + y + 1 /\ cur_b \in (LenA + 1)..Base
             /\ Merge!Value(heap, cur_b) = Given(LenA + y + 1)
             /\ Merge!Following(heap, cur_b) = IF y + 1 < LenB THEN LenA + (y + 1) + 1 ELSE 0
             /\ \A k \in (LenA + y + 1)..Base : Given(LenA + y + 1) <= Given(k)
  <2>1. cur_b = LenA + y + 1 /\ LenA + y + 1 \in (LenA + 1)..Base /\ LenA + y + 1 \in 1..Base
    BY <1>1, <1>5
  <2>2. \A k \in (LenA + y + 1)..Base : k \in (LenA + 1)..Base /\ LenA + y + 1 <= k
    BY <1>1
  <2>3. LenA + y + 1 < Base <=> y + 1 < LenB
    BY <1>1
  <2>4. heap[LenA + y + 1].next = IF y + 1 < LenB THEN LenA + (y + 1) + 1 ELSE 0
    <3>1. heap[LenA + y + 1].next = IF LenA + y + 1 < Base THEN LenA + y + 1 + 1 ELSE 0
      BY <1>2, <2>1
    <3>2. LenA + y + 1 + 1 = LenA + (y + 1) + 1
      BY <1>1
    <3> QED
      BY <2>3, <3>1, <3>2
  <2> QED
    BY <1>2, <1>3, <2>1, <2>2, <2>4 DEF Merge!Value, Merge!Following
<1> QED
  BY <1>1, <1>4, <1>5

\* merge_lists inserts the lesser of the values under its cursors.
LEMMA TakesA ==
    ASSUME MergeAnswers, c \in 1..Len(cases), heap \in Seq(Nodes), Weaving, Merge!TakeA, cur_a # 0,
           cur_b = 0 \/ Merge!Value(heap, cur_a) <= Merge!Value(heap, cur_b)
    PROVE  Weaving' /\ heap' \in Seq(Nodes)
<1>1. /\ UNCHANGED <<cases, c, taken, head_a, head_b, cur_b, printed, pc>>
      /\ Merge!InsertNewNode(Merge!Value(heap, cur_a)) /\ cur_a' = Merge!Following(heap, cur_a)
  BY DEF Merge!TakeA
<1>2. LenA \in Nat /\ LenB \in Nat /\ Base = LenA + LenB /\ \A k \in 1..Base : Given(k) \in Nat
  BY MergeCase DEF Base
<1>3. PICK x, y : /\ CursorsAt(x, y) /\ Len(heap) = Base + (x + y)
                  /\ Woven(heap, Base, x + y, Used(x, y), Left(x, y))
  BY DEF Weaving
<1>4. Building(Base) /\ ListsRead /\ taken = 0
  BY DEF Weaving
<1>5. /\ x < LenA /\ cur_a = x + 1 /\ Merge!Value(heap, cur_a) = Given(x + 1) /\ x \in Nat /\ y \in Nat
      /\ cur_a' = IF x + 1 < LenA THEN x + 1 + 1 ELSE 0
      /\ \A k \in (x + 1)..LenA : Given(x + 1) <= Given(k)
      /\ cur_b # 0 <=> y < LenB
      /\ y < LenB => /\ Merge!Value(heap, cur_b) = Given(LenA + y + 1)
                     /\ \A k \in (LenA + y + 1)..Base : Given(LenA + y + 1) <= Given(k)
  BY <1>1, <1>3, <1>4, CursorLeast
<1>6. x \in 0..LenA /\ y \in 0..LenB /\ cur_b = IF y < LenB THEN LenA + y + 1 ELSE 0
  BY <1>3 DEF CursorsAt
<1>7. /\ x + 1 \in Left(x, y) /\ x + 1 \in 1..Base /\ x + 1 \notin Used(x, y)
      /\ Used(x, y) \cup {x + 1} = Used(x + 1, y)
      /\ Left(x, y) \ {x + 1} = Left(x + 1, y)
  BY <1>2, <1>5, <1>6, OneUsed
<1>8. ASSUME NEW k \in Left(x, y) PROVE Given(x + 1) <= Given(k)
  <2>1. CASE k \in (x + 1)..LenA
    BY <1>5, <2>1
  <2>2. CASE k \in (LenA + y + 1)..Base
    <3>1. y < LenB /\ LenA + y + 1 \in 1..Base /\ k \in 1..Base
      BY <1>2, <1>6, <2>2
    <3>2. Given(x + 1) <= Given(LenA + y + 1) /\ Given(LenA + y + 1) <= Given(k)
      BY <1>5, <2>2, <3>1
    <3>3. Given(x + 1) \in Nat /\ Given(LenA + y + 1) \in Nat /\ Given(k) \in Nat
      BY <1>2, <1>7, <3>1
    <3> QED
      BY <3>2, <3>3
  <2> QED
    BY <2>1, <2>2 DEF Left
<1>9. /\ heap' \in Seq(Nodes) /\ Building(Base)' /\ ListsRead' /\ Len(heap') = Base + (x + y + 1)
      /\ Woven(heap', Base, x + y + 1, Used(x + 1, y), Left(x + 1, y))
  <2> DEFINE g == x + 1
  <2>1. /\ Merge!InsertNewNode(Given(g)) /\ g \in Left(x, y) /\ g \in 1..Base /\ g \notin Used(x, y)
        /\ \A k \in Left(x, y) : Given(g) <= Given(k)
    BY <1>1, <1>5, <1>7, <1>8
  <2> HIDE DEF g
  <2>2. /\ heap' \in Seq(Nodes) /\ Building(Base)' /\ ListsRead' /\ Len(heap') = Base + (x + y + 1)
        /\ Woven(heap', Base, x + y + 1, Used(x, y) \cup {g}, Left(x, y) \ {g})
    BY <1>1, <1>3, <1>4, <1>5, <2>1, WovenTaken
  <2> QED
    BY <1>7, <2>2 DEF g
<1>10. Base' = Base /\ LenA' = LenA /\ LenB' = LenB
  BY <1>1, SameCase
<1>11. x + y + 1 = (x + 1) + y
  BY <1>5
<1>12. Woven(heap, Base, (x + 1) + y, Used(x + 1, y), Left(x + 1, y))'
  BY <1>1, <1>9, <1>11, StillWoven
<1>13. CursorsAt(x + 1, y)'
  <2>1. x + 1 \in 0..LenA
    BY <1>2, <1>5
  <2> QED
    BY <1>1, <1>5, <1>6, <1>10, <2>1 DEF CursorsAt
<1>14. (Len(heap) = Base + ((x + 1) + y))'
  BY <1>9, <1>10, <1>11
<1>15. taken' = 0
  BY <1>1, <1>4
<1> QED
  BY <1>9, <1>12, <1>13, <1>14, <1>15 DEF Weaving

LEMMA TakesB ==
    ASSUME MergeAnswers, c \in 1..Len(cases), heap \in Seq(Nodes), Weaving, Merge!TakeB, cur_b # 0,
           cur_a = 0 \/ Merge!Value(heap, cur_b) <= Merge!Value(heap, cur_a)
    PROVE  Weaving' /\ heap' \in Seq(Nodes)
<1>1. /\ UNCHANGED <<cases, c, taken, head_a, head_b, cur_a, printed, pc>>
      /\ Merge!InsertNewNode(Merge!Value(heap, cur_b)) /\ cur_b' = Merge!Following(heap, cur_b)
  BY DEF Merge!TakeB
<1>2. LenA \in Nat /\ LenB \in Nat /\ Base = LenA + LenB /\ \A k \in 1..Base : Given(k) \in Nat
  BY MergeCase DEF Base
<1>3. PICK x, y : /\ CursorsAt(x, y) /\ Len(heap) = Base + (x + y)
                  /\ Woven(heap, Base, x + y, Used(x, y), Left(x, y))
  BY DEF Weaving
<1>4. Building(Base) /\ ListsRead /\ taken = 0
  BY DEF Weaving
<1> DEFINE g == LenA + y + 1
<1>5. /\ y < LenB /\ cur_b = g /\ Merge!Value(heap, cur_b) = Given(g) /\ x \in Nat /\ y \in Nat
      /\ cur_b' = IF y + 1 < LenB THEN LenA + (y + 1) + 1 ELSE 0
      /\ \A k \in g..Base : Given(g) <= Given(k)
      /\ cur_a # 0 <=> x < LenA
      /\ x < LenA => /\ Merge!Value(heap, cur_a) = Given(x + 1)
                     /\ \A k \in (x + 1)..LenA : Given(x + 1) <= Given(k)
  BY <1>1, <1>3, <1>4, CursorLeast
<1>6. x \in 0..LenA /\ y \in 0..LenB /\ cur_a = IF x < LenA THEN x + 1 ELSE 0
  BY <1>3 DEF CursorsAt
<1>7. /\ g \in Left(x, y) /\ g \in 1..Base /\ g \notin Used(x, y)
      /\ Used(x, y) \cup {g} = Used(x, y + 1)
      /\ Left(x, y) \ {g} = Left(x, y + 1)
  BY <1>2, <1>5, <1>6, OneUsed
<1>8. ASSUME NEW k \in Left(x, y) PROVE Given(g) <= Given(k)
  <2>1. CASE k \in (LenA + y + 1)..Base
    BY <1>5, <2>1
  <2>2. CASE k \in (x + 1)..LenA
    <3>1. x < LenA /\ x + 1 \in 1..Base /\ k \in 1..Base
      BY <1>2, <1>6, <2>2
    <3> HIDE DEF g
    <3>2. Given(g) <= Given(x + 1) /\ Given(x + 1) <= Given(k)
      BY <1>5, <2>2, <3>1
    <3>3. Given(x + 1) \in Nat /\ Given(g) \in Nat /\ Given(k) \in Nat
      BY <1>2, <1>7, <3>1
    <3> QED
      BY <3>2, <3>3
  <2> QED
    BY <2>1, <2>2 DEF Left
<1>9. /\ heap' \in Seq(Nodes) /\ Building(Base)' /\ ListsRead' /\ Len(heap') = Base + (x + y + 1)
      /\ Woven(heap', Base, x + y + 1, Used(x, y + 1), Left(x, y + 1))
  <2>1. Merge!InsertNewNode(Given(g))
    BY <1>1, <1>5
  <2> HIDE DEF g
  <2>2. /\ heap' \in Seq(Nodes) /\ Building(Base)' /\ ListsRead' /\ Len(heap') = Base + (x + y + 1)
        /\ Woven(heap', Base, x + y + 1, Used(x, y) \cup {g}, Left(x, y) \ {g})
    BY <1>1, <1>3, <1>4, <1>5, <1>7, <1>8, <2>1, WovenTaken
  <2> QED
    BY <1>7, <2>2
<1>10. Base' = Base /\ LenA' = LenA /\ LenB' = LenB
  BY <1>1, SameCase
<1>11. x + y + 1 = x + (y + 1)
  BY <1>5
<1>12. Woven(heap, Base, x + (y + 1), Used(x, y + 1), Left(x, y + 1))'
  BY <1>1, <1>9, <1>11, StillWoven
<1>13. CursorsAt(x, y + 1)'
  <2>1. y + 1 \in 0..LenB
    BY <1>2, <1>5
  <2> QED
    BY <1>1, <1>5, <1>6, <1>10, <2>1 DEF CursorsAt
<1>14. (Len(heap) = Base + (x + (y + 1)))'
  BY <1>9, <1>10, <1>11
<1>15. taken' = 0
  BY <1>1, <1>4
<1> QED
  BY <1>9, <1>12, <1>13, <1>14, <1>15 DEF Weaving

\* What is woven stays so while only pc moves.
LEMMA WeavingStays ==
    ASSUME UNCHANGED <<cases, c, taken, heap, head_a, head_b, head, cur, cur_a, cur_b>>, Weaving
    PROVE  Weaving'
<1>1. PICK x, y : /\ CursorsAt(x, y) /\ Len(heap) = Base + (x + y)
                  /\ Woven(heap, Base, x + y, Used(x, y), Left(x, y))
  BY DEF Weaving
<1>2. Base' = Base /\ LenA' = LenA /\ LenB' = LenB /\ \A k : Given(k)' = Given(k)
  BY SameCase
<1>3. (Building(Base) /\ ListsRead /\ taken = 0)'
  <2>1. Building(Base) /\ ListsRead /\ taken = 0
    BY DEF Weaving
  <2> QED
    BY <1>2, <2>1 DEF Building, ListsRead, Listed
<1>4. Woven(heap, Base, x + y, Used(x, y), Left(x, y))'
  BY <1>1, StillWoven
<1>5. (CursorsAt(x, y) /\ Len(heap) = Base + (x + y))'
  BY <1>1, <1>2 DEF CursorsAt
<1> QED
  BY <1>3, <1>4, <1>5 DEF Weaving

LEMMA MergeLoops ==
    ASSUME MergeInv,
           Merge!OuterLoop \/ Merge!WhileA \/ Merge!WhileB \/ Merge!FinishA \/ Merge!FinishB
    PROVE  MergeInv'
<1>1. pc \in {"both", "while_a", "while_b", "finish_a", "finish_b"}
  BY DEF Merge!OuterLoop, Merge!WhileA, Merge!WhileB, Merge!FinishA, Merge!FinishB
<1>2. MergeAnswers /\ c \in 1..Len(cases) /\ heap \in Seq(Nodes) /\ Weaving
  BY <1>1 DEF MergeInv
<1>3. ASSUME NEW label, Merge!GoTo(label)
      PROVE  /\ MergeAnswers' /\ Weaving' /\ heap' \in Seq(Nodes) /\ UNCHANGED <<cases, c, cur_a, cur_b>>
             /\ pc' = label
  <2>1. UNCHANGED <<cases, c, taken, heap, head_a, head_b, head, cur, cur_a, cur_b, printed>> /\ pc' = label
    BY <1>3 DEF Merge!GoTo, Merge!lists, Merge!cursors
  <2> QED
    BY <1>2, <2>1, WeavingStays, SameAnswers
<1>4. ASSUME Merge!TakeA, cur_a # 0, cur_b = 0 \/ Merge!Value(heap, cur_a) <= Merge!Value(heap, cur_b)
      PROVE  MergeAnswers' /\ Weaving' /\ heap' \in Seq(Nodes) /\ UNCHANGED <<cases, c, pc, cur_b>>
  <2>1. UNCHANGED <<cases, c, printed, pc, cur_b>>
    BY <1>4 DEF Merge!TakeA
  <2> QED
    BY <1>2, <1>4, <2>1, TakesA, SameAnswers
<1>5. ASSUME Merge!TakeB, cur_b # 0, cur_a = 0 \/ Merge!Value(heap, cur_b) <= Merge!Value(heap, cur_a)
      PROVE  MergeAnswers' /\ Weaving' /\ heap' \in Seq(Nodes) /\ UNCHANGED <<cases, c, pc, cur_a>>
  <2>1. UNCHANGED <<cases, c, printed, pc, cur_a>>
    BY <1>5 DEF Merge!TakeB
  <2> QED
    BY <1>2, <1>5, <2>1, TakesB, SameAnswers
<1>6. CASE Merge!OuterLoop
  <2>1. Merge!GoTo(IF Merge!BothLeft THEN "while_a" ELSE "finish_a")
    BY <1>6 DEF Merge!OuterLoop
  <2>2. ~Merge!BothLeft => cur_a = 0 \/ cur_b = 0
    BY DEF Merge!BothLeft, Merge!Null
  <2> QED
    BY <1>2, <1>3, <2>1, <2>2 DEF MergeInv
<1>7. CASE Merge!WhileA
  <2>1. CASE Merge!AFits
    <3>1. Merge!TakeA /\ cur_a # 0 /\ Merge!Value(heap, cur_a) <= Merge!Value(heap, cur_b) /\ pc = "while_a"
      BY <1>7, <2>1 DEF Merge!WhileA, Merge!AFits, Merge!BothLeft, Merge!Null
    <3> QED
      BY <1>2, <1>4, <3>1 DEF MergeInv
  <2>2. CASE ~Merge!AFits
    BY <1>2, <1>3, <1>7, <2>2 DEF Merge!WhileA, MergeInv
  <2> QED
    BY <2>1, <2>2
<1>8. CASE Merge!WhileB
  <2>1. CASE Merge!BFits
    <3>1. Merge!TakeB /\ cur_b # 0 /\ Merge!Value(heap, cur_b) <= Merge!Value(heap, cur_a) /\ pc = "while_b"
      BY <1>8, <2>1 DEF Merge!WhileB, Merge!BFits, Merge!BothLeft, Merge!Null
    <3> QED
      BY <1>2, <1>5, <3>1 DEF MergeInv
  <2>2. CASE ~Merge!BFits
    BY <1>2, <1>3, <1>8, <2>2 DEF Merge!WhileB, MergeInv
  <2> QED
    BY <2>1, <2>2
<1>9. CASE Merge!FinishA
  <2>1. pc = "finish_a" /\ (cur_a = 0 \/ cur_b = 0)
    BY <1>9 DEF Merge!FinishA, MergeInv
  <2>2. CASE cur_a # 0
    <3>1. Merge!TakeA /\ cur_b = 0
      BY <1>9, <2>1, <2>2 DEF Merge!FinishA, Merge!Null
    <3> QED
      BY <1>2, <1>4, <2>1, <2>2, <3>1 DEF MergeInv
  <2>3. CASE cur_a = 0
    <3>1. Merge!GoTo("finish_b")
      BY <1>9, <2>3 DEF Merge!FinishA, Merge!Null
    <3> QED
      BY <1>2, <1>3, <2>3, <3>1 DEF MergeInv
  <2> QED
    BY <2>2, <2>3
<1>10. CASE Merge!FinishB
  <2>1. pc = "finish_b" /\ cur_a = 0
    BY <1>10 DEF Merge!FinishB, MergeInv
  <2>2. CASE cur_b # 0
    <3>1. Merge!TakeB
      BY <1>10, <2>2 DEF Merge!FinishB, Merge!Null
    <3> QED
      BY <1>2, <1>5, <2>1, <2>2, <3>1 DEF MergeInv
  <2>3. CASE cur_b = 0
    <3>1. Merge!GoTo("print")
      BY <1>10, <2>3 DEF Merge!FinishB, Merge!Null
    <3> QED
      BY <1>2, <1>3, <2>1, <2>3, <3>1 DEF MergeInv
  <2> QED
    BY <2>2, <2>3
<1> QED
  BY <1>6, <1>7, <1>8, <1>9, <1>10

\* Once both cursors are at the end, the list that was made is the two merged.
LEMMA AllMerged ==
    ASSUME MergeAnswers, c \in 1..Len(cases), heap \in Seq(Nodes), Weaving, cur_a = 0, cur_b = 0
    PROVE  /\ Merge!ValuesFrom(heap, head) \in Seq(Nat)
           /\ Merge!Ascending(Merge!ValuesFrom(heap, head))
           /\ Merge!ToBag(Merge!ValuesFrom(heap, head)) = Merge!ToBag(cases[c].a \o cases[c].b)
<1>1. /\ LenA \in Nat /\ LenB \in Nat /\ Base = LenA + LenB /\ Base \in Nat
      /\ \A k \in 1..Base : Given(k) \in Nat
      /\ cases[c].a \in Seq(Nat) /\ cases[c].b \in Seq(Nat)
  BY MergeCase DEF Base
<1>2. PICK x, y : /\ CursorsAt(x, y) /\ Len(heap) = Base + (x + y)
                  /\ Woven(heap, Base, x + y, Used(x, y), Left(x, y))
  BY DEF Weaving
<1>3. x = LenA /\ y = LenB
  BY <1>1, <1>2 DEF CursorsAt
<1>4. Len(heap) = Base + Base /\ Woven(heap, Base, Base, 1..Base, Left(x, y))
  <2>1. x + y = Base
    BY <1>1, <1>3
  <2>2. Used(x, y) = 1..Base
    BY <1>1, <1>3 DEF Used
  <2> QED
    BY <1>2, <2>1, <2>2
<1>5. PICK f \in [1..Base -> 1..Base] : /\ \A j, k \in 1..Base : j # k => f[j] # f[k]
                                        /\ { f[j] : j \in 1..Base } = 1..Base
                                        /\ \A j \in 1..Base : heap[Base + j].value = Given(f[j])
  BY <1>4 DEF Woven
<1>6. \A j, k \in 1..Base : j <= k => heap[Base + j].value <= heap[Base + k].value
  BY <1>4 DEF Woven
<1> DEFINE line == [j \in 1..Base |-> heap[Base + j].value]
<1>7. Merge!ValuesFrom(heap, head) = line
  <2> DEFINE lo == Base + 1
  <2> DEFINE hi == Len(heap)
  <2>1. /\ lo \in 1..(Len(heap) + 1) /\ hi \in 0..Len(heap) /\ lo <= hi + 1 /\ hi - lo + 1 = Base
        /\ \A j \in 1..Base : lo + j - 1 = Base + j
    BY <1>1, <1>4
  <2>2. Listed(heap, head, lo, hi)
    BY DEF Weaving, Building
  <2> HIDE DEF lo, hi
  <2>3. Merge!ValuesFrom(heap, head) = [j \in 1..(hi - lo + 1) |-> heap[lo + j - 1].value]
    BY <2>1, <2>2, ChainIs
  <2>4. [j \in 1..(hi - lo + 1) |-> heap[lo + j - 1].value] = line
    BY <2>1
  <2> QED
    BY <2>3, <2>4
<1>8. \A j \in 1..Base : line[j] = Given(f[j]) /\ line[j] \in Nat
  BY <1>1, <1>5
<1>9. DOMAIN line = 1..Base /\ line \in Seq(Nat)
  <2>1. \A j \in 1..Base : heap[Base + j].value \in Nat
    BY <1>8
  <2> QED
    BY <1>1, <2>1, IsASeq
<1>10. \A j, k \in 1..Base : j < k => line[j] <= line[k]
  <2>1. \A j, k \in 1..Base : j < k => j <= k
    OBVIOUS
  <2> QED
    BY <1>6, <2>1
<1> HIDE DEF line
<1>11. Merge!Ascending(line)
  BY <1>9, <1>10 DEF Merge!Ascending
<1> DEFINE both == cases[c].a \o cases[c].b
<1>12. DOMAIN both = 1..Base /\ \A k \in 1..Base : both[k] = Given(k)
  <2>1. /\ both \in Seq(Nat) /\ Len(both) = LenA + LenB
        /\ \A k \in 1..(LenA + LenB) : both[k] = IF k <= LenA THEN cases[c].a[k] ELSE cases[c].b[k - LenA]
    BY <1>1, ConcatProperties DEF LenA, LenB
  <2> HIDE DEF both
  <2>2. DOMAIN both = 1..Base
    BY <1>1, <2>1
  <2> QED
    BY <1>1, <2>1, <2>2 DEF Given
<1> HIDE DEF both
<1>13. Merge!ToBag(line) = Merge!ToBag(both)
  <2>1. Arranges(f, Base)
    BY <1>5 DEF Arranges
  <2>2. \A j \in 1..Base : line[j] = both[f[j]]
    BY <1>5, <1>8, <1>12
  <2> QED
    BY <1>1, <1>9, <1>12, <2>1, <2>2, SameBag
<1> QED
  BY <1>7, <1>9, <1>11, <1>13 DEF both

LEMMA PrintsList == MergeInv /\ Merge!PrintList => MergeInv'
<1> SUFFICES ASSUME MergeInv, Merge!PrintList PROVE MergeInv'
  OBVIOUS
<1>1. /\ pc = "print" /\ printed' = Append(printed, Merge!ValuesFrom(heap, head)) /\ c' = c + 1
      /\ heap' = <<>> /\ head' = 0 /\ cur' = 0 /\ UNCHANGED <<cases, taken>>
      /\ pc' = IF c = Len(cases) THEN "done" ELSE "create_a"
  BY DEF Merge!PrintList, Merge!Null
<1>2. /\ MergeAnswers /\ c \in 1..Len(cases) /\ heap \in Seq(Nodes) /\ Weaving /\ cur_a = 0 /\ cur_b = 0
      /\ taken = 0
  BY <1>1 DEF MergeInv, Weaving
<1> DEFINE line == Merge!ValuesFrom(heap, head)
<1>3. /\ line \in Seq(Nat) /\ Merge!Ascending(line)
      /\ Merge!ToBag(line) = Merge!ToBag(cases[c].a \o cases[c].b)
  BY <1>2, AllMerged
<1>4. printed' = Append(printed, line)
  BY <1>1
<1> HIDE DEF line
<1>5. /\ cases \in Seq(MergeCases) /\ Len(cases) \in Nat /\ c \in Nat
      /\ \A k \in 1..Len(cases) : Merge!Ascending(cases[k].a) /\ Merge!Ascending(cases[k].b)
      /\ printed \in Seq(Seq(Nat)) /\ Len(printed) = c - 1
      /\ \A k \in 1..(c - 1) : Answered(k)
  BY <1>2, MergeCase DEF MergeAnswers
<1>6. /\ printed' \in Seq(Seq(Nat)) /\ Len(printed') = c /\ printed'[c] = line
      /\ \A k \in 1..(c - 1) : printed'[k] = printed[k]
  <2>1. /\ Append(printed, line) \in Seq(Seq(Nat)) /\ Len(Append(printed, line)) = Len(printed) + 1
        /\ \A k \in 1..Len(printed) : Append(printed, line)[k] = printed[k]
        /\ Append(printed, line)[Len(printed) + 1] = line
    BY <1>3, <1>5, AppendProperties
  <2>2. Len(printed) + 1 = c
    BY <1>5
  <2> QED
    BY <1>4, <1>5, <2>1, <2>2
<1>7. \A k \in 1..c : Answered(k)'
  <2>1. \A k \in 1..c : k \in 1..(c - 1) \/ k = c
    BY <1>5
  <2>2. ASSUME NEW k, k = c PROVE Answered(k)'
    <3>1. cases'[k] = cases[k] /\ printed'[k] = line
      BY <1>1, <1>6, <2>2
    <3>2. Merge!Ascending(printed'[k]) /\ Merge!ToBag(printed'[k]) = Merge!ToBag(cases'[k].a \o cases'[k].b)
      BY <1>3, <2>2, <3>1
    <3> QED
      BY <3>2 DEF Answered
  <2>3. ASSUME NEW k \in 1..(c - 1) PROVE Answered(k)'
    <3>1. cases'[k] = cases[k] /\ printed'[k] = printed[k]
      BY <1>1, <1>6
    <3>2. Merge!Ascending(printed[k]) /\ Merge!ToBag(printed[k]) = Merge!ToBag(cases[k].a \o cases[k].b)
      BY <1>5 DEF Answered
    <3>3. Merge!Ascending(printed'[k]) /\ Merge!ToBag(printed'[k]) = Merge!ToBag(cases'[k].a \o cases'[k].b)
      BY <3>1, <3>2
    <3> QED
      BY <3>3 DEF Answered
  <2> QED
    BY <2>1, <2>2, <2>3
<1>8. MergeAnswers'
  <2>1. c' - 1 = c /\ c' \in 1..(Len(cases') + 1)
    BY <1>1, <1>2, <1>5
  <2> QED
    BY <1>1, <1>5, <1>6, <1>7, <2>1 DEF MergeAnswers
<1>9. CASE c = Len(cases)
  BY <1>1, <1>8, <1>9 DEF MergeInv
<1>10. CASE c # Len(cases)
  <2>1. (c \in 1..Len(cases))'
    BY <1>1, <1>2, <1>5, <1>10
  <2>2. (heap = <<>> /\ head = 0 /\ cur = 0 /\ taken = 0 /\ MergeAnswers /\ c \in 1..Len(cases))'
    BY <1>1, <1>2, <1>8, <2>1
  <2>3. (CreatingA /\ heap \in Seq(Nodes))'
    BY <2>2, NothingMade, PTL
  <2> QED
    BY <1>1, <1>8, <1>10, <2>1, <2>3 DEF MergeInv
<1> QED
  BY <1>9, <1>10

LEMMA MergeNext == MergeInv /\ Merge!Next => MergeInv'
<1> SUFFICES ASSUME MergeInv, Merge!Next PROVE MergeInv'
  OBVIOUS
<1>1. CASE Merge!CreateNode("create_a", Merge!Case.a)
  BY <1>1, CreateNodeA
<1>2. CASE Merge!CreatedA
  BY <1>2, CreatedA
<1>3. CASE Merge!CreateNode("create_b", Merge!Case.b)
  BY <1>3, CreateNodeB
<1>4. CASE Merge!CreatedB
  BY <1>4, CreatedB
<1>5. CASE Merge!OuterLoop \/ Merge!WhileA \/ Merge!WhileB \/ Merge!FinishA \/ Merge!FinishB
  BY <1>5, MergeLoops
<1>6. CASE Merge!PrintList
  BY <1>6, PrintsList
<1>7. CASE Merge!Finished
  <2>1. UNCHANGED <<cases, c, printed, pc>> /\ pc = "done"
    BY <1>7 DEF Merge!Finished, Merge!vars
  <2>2. MergeAnswers'
    BY <2>1, SameAnswers DEF MergeInv
  <2> QED
    BY <2>1, <2>2 DEF MergeInv
<1> QED
  BY <1>1, <1>2, <1>3, <1>4, <1>5, <1>6, <1>7 DEF Merge!Next

LEMMA MergeStutter == MergeInv /\ UNCHANGED Merge!vars => MergeInv'
<1> SUFFICES ASSUME MergeInv, UNCHANGED Merge!vars PROVE MergeInv'
  OBVIOUS
<1>1. UNCHANGED <<cases, c, taken, heap, head_a, head_b, head, cur, cur_a, cur_b, printed, pc>>
  BY DEF Merge!vars, Merge!lists, Merge!cursors
<1>2. MergeAnswers'
  BY <1>1, SameAnswers DEF MergeInv
<1>3. LenA' = LenA /\ LenB' = LenB /\ \A k : Given(k)' = Given(k)
  BY <1>1, SameCase
<1>4. CreatingA => CreatingA'
  BY <1>1, <1>3 DEF CreatingA, Building, Listed
<1>5. CreatingB => CreatingB'
  BY <1>1, <1>3 DEF CreatingB, Building, Listed
<1>6. Weaving => Weaving'
  BY <1>1, WeavingStays
<1> QED
  BY <1>1, <1>2, <1>4, <1>5, <1>6 DEF MergeInv

LEMMA MergeRight == MergeInv => Merge!PrintedIsMerge
<1> SUFFICES ASSUME MergeInv PROVE Merge!PrintedIsMerge
  OBVIOUS
<1>1. printed \in Seq(Seq(Nat)) /\ Len(printed) = c - 1 /\ \A k \in 1..(c - 1) : Answered(k)
  BY DEF MergeInv, MergeAnswers
<1>2. DOMAIN printed = 1..(c - 1)
  BY <1>1
<1> QED
  BY <1>1, <1>2 DEF Merge!PrintedIsMerge, Answered

\* The nodes of a chain that is linked in order, and what they hold.
LEMMA ChainHolds ==
    ASSUME NEW h \in Seq(Nodes), NEW lo \in 1..(Len(h) + 1), NEW hi \in 0..Len(h), lo <= hi + 1,
           NEW p, Listed(h, p, lo, hi)
    PROVE  /\ Merge!ToSet(Merge!ChainFrom(h, p)) = lo..hi
           /\ \A t \in Seq(Nat) :
                 Len(t) = hi - lo + 1 /\ (\A j \in 1..Len(t) : h[lo + j - 1].value = t[j])
                    => Merge!ValuesFrom(h, p) = t
<1> DEFINE w == hi - lo + 1
<1>1. lo \in Int /\ hi \in Int /\ w \in Nat
  OBVIOUS
<1>2. /\ Merge!ChainFrom(h, p) = [j \in 1..w |-> lo + j - 1]
      /\ Merge!ValuesFrom(h, p) = [j \in 1..w |-> h[lo + j - 1].value]
  BY ChainIs
<1>3. Merge!ToSet(Merge!ChainFrom(h, p)) = lo..hi
  <2> DEFINE chain == [j \in 1..w |-> lo + j - 1]
  <2>1. Merge!ToSet(chain) = { chain[j] : j \in 1..w }
    BY DEF Merge!ToSet
  <2>2. \A j \in 1..w : lo + j - 1 \in lo..hi
    BY <1>1
  <2>3. \A k \in lo..hi : k - lo + 1 \in 1..w /\ lo + (k - lo + 1) - 1 = k
    BY <1>1
  <2>4. \A j \in 1..w : chain[j] = lo + j - 1
    OBVIOUS
  <2>5. chain = Merge!ChainFrom(h, p)
    BY <1>2
  <2> HIDE DEF w, chain
  <2>6. \A k \in lo..hi : \E j \in 1..w : chain[j] = k
    BY <2>3, <2>4
  <2>7. \A j \in 1..w : chain[j] \in lo..hi
    BY <2>2, <2>4
  <2> QED
    BY <2>1, <2>5, <2>6, <2>7
<1>4. ASSUME NEW t \in Seq(Nat), Len(t) = w, \A j \in 1..Len(t) : h[lo + j - 1].value = t[j]
      PROVE  Merge!ValuesFrom(h, p) = t
  <2>1. t = [j \in 1..w |-> t[j]]
    BY <1>4
  <2> QED
    BY <1>2, <1>4, <2>1
<1> QED
  BY <1>3, <1>4

LEMMA ListsApart == MergeInv => Merge!ListsStayApart
<1> SUFFICES ASSUME MergeInv, Merge!Merging PROVE Merge!ListsStayApart
  BY DEF Merge!ListsStayApart
<1>1. MergeAnswers /\ c \in 1..Len(cases) /\ heap \in Seq(Nodes) /\ Weaving
  BY DEF MergeInv, Merge!Merging
<1>2. /\ LenA \in Nat /\ LenB \in Nat /\ Base = LenA + LenB /\ Base \in Nat
      /\ cases[c].a \in Seq(Nat) /\ cases[c].b \in Seq(Nat)
  BY <1>1, MergeCase DEF Base
<1> DEFINE m == Len(heap)
<1>3. m \in Nat /\ Base <= m
  BY <1>1, <1>2 DEF Weaving, Building
<1>4. Listed(heap, head, Base + 1, m) /\ Listed(heap, head_a, 1, LenA) /\ Listed(heap, head_b, LenA + 1, Base)
  BY <1>1 DEF Weaving, Building, ListsRead
<1>5. \A k \in 1..Base : heap[k].value = Given(k)
  BY <1>1 DEF Weaving, ListsRead
<1>6. Merge!ToSet(Merge!ChainFrom(heap, head_a)) = 1..LenA /\ Merge!ValuesFrom(heap, head_a) = cases[c].a
  <2>1. 1 \in 1..(Len(heap) + 1) /\ LenA \in 0..Len(heap) /\ 1 <= LenA + 1 /\ LenA = LenA - 1 + 1
    BY <1>2, <1>3
  <2>2. Len(cases[c].a) = LenA /\ \A j \in 1..LenA : heap[1 + j - 1].value = cases[c].a[j]
    <3>1. \A j \in 1..LenA : 1 + j - 1 = j /\ j \in 1..Base
      BY <1>2
    <3> QED
      BY <1>5, <3>1 DEF Given, LenA
  <2>3. /\ Merge!ToSet(Merge!ChainFrom(heap, head_a)) = 1..LenA
        /\ \A t \in Seq(Nat) :
              Len(t) = LenA - 1 + 1 /\ (\A j \in 1..Len(t) : heap[1 + j - 1].value = t[j])
                 => Merge!ValuesFrom(heap, head_a) = t
    BY <1>1, <1>4, <2>1, ChainHolds
  <2> QED
    BY <1>2, <2>1, <2>2, <2>3
<1>7. Merge!ToSet(Merge!ChainFrom(heap, head_b)) = (LenA + 1)..Base /\ Merge!ValuesFrom(heap, head_b) = cases[c].b
  <2> DEFINE lo == LenA + 1
  <2>1. lo \in 1..(Len(heap) + 1) /\ Base \in 0..Len(heap) /\ lo <= Base + 1 /\ LenB = Base - lo + 1
    BY <1>2, <1>3
  <2>2. Len(cases[c].b) = LenB /\ \A j \in 1..LenB : heap[lo + j - 1].value = cases[c].b[j]
    <3>1. \A j \in 1..LenB : lo + j - 1 = LenA + j /\ LenA + j \in 1..Base /\ LenA + j > LenA /\ LenA + j - LenA = j
      BY <1>2
    <3>2. \A j \in 1..LenB : Given(LenA + j) = cases[c].b[j]
      BY <1>2, <3>1 DEF Given
    <3> QED
      BY <1>5, <3>1, <3>2 DEF LenB
  <2>3. Listed(heap, head_b, lo, Base)
    BY <1>4
  <2> HIDE DEF lo
  <2>4. /\ Merge!ToSet(Merge!ChainFrom(heap, head_b)) = lo..Base
        /\ \A t \in Seq(Nat) :
              Len(t) = Base - lo + 1 /\ (\A j \in 1..Len(t) : heap[lo + j - 1].value = t[j])
                 => Merge!ValuesFrom(heap, head_b) = t
    BY <1>1, <2>1, <2>3, ChainHolds
  <2>5. Merge!ValuesFrom(heap, head_b) = cases[c].b
    BY <1>2, <2>1, <2>2, <2>4
  <2> QED
    BY <2>4, <2>5 DEF lo
<1>8. Merge!ToSet(Merge!ChainFrom(heap, head)) = (Base + 1)..m
  <2>1. Base + 1 \in 1..(Len(heap) + 1) /\ m \in 0..Len(heap) /\ Base + 1 <= m + 1
    BY <1>2, <1>3
  <2> QED
    BY <1>1, <1>4, <2>1, ChainHolds
<1> DEFINE chains == <<Merge!ChainFrom(heap, head_a), Merge!ChainFrom(heap, head_b), Merge!ChainFrom(heap, head)>>
<1>9. /\ Merge!ToSet(chains[1]) = 1..LenA /\ Merge!ToSet(chains[2]) = (LenA + 1)..Base
      /\ Merge!ToSet(chains[3]) = (Base + 1)..m
  BY <1>6, <1>7, <1>8
<1> HIDE DEF chains
<1>10. \A j, k \in 1..3 : j # k => Merge!ToSet(chains[j]) \cap Merge!ToSet(chains[k]) = {}
  <2>1. /\ (1..LenA) \cap ((LenA + 1)..Base) = {}
        /\ (1..LenA) \cap ((Base + 1)..m) = {}
        /\ ((LenA + 1)..Base) \cap ((Base + 1)..m) = {}
    BY <1>2, <1>3
  <2>2. \A j \in 1..3 : j = 1 \/ j = 2 \/ j = 3
    OBVIOUS
  <2> QED
    BY <1>9, <2>1, <2>2
<1>11. UNION { Merge!ToSet(chains[j]) : j \in 1..3 } = DOMAIN heap
  <2>1. \A k : k \in 1..m <=> k \in 1..LenA \/ k \in (LenA + 1)..Base \/ k \in (Base + 1)..m
    BY <1>2, <1>3
  <2>2. 1 \in 1..3 /\ 2 \in 1..3 /\ 3 \in 1..3 /\ \A j \in 1..3 : j = 1 \/ j = 2 \/ j = 3
    OBVIOUS
  <2>3. \A k : k \in UNION { Merge!ToSet(chains[j]) : j \in 1..3 } <=> k \in 1..m
    BY <1>9, <2>1, <2>2
  <2>4. DOMAIN heap = 1..m
    BY <1>1
  <2> QED
    BY <2>3, <2>4
<1> QED
  BY <1>6, <1>7, <1>10, <1>11 DEF Merge!ListsStayApart, Merge!Case, chains

\* merge_sorted_linked_lists.cc: one line is printed for each case, the values
\* of its two lists in ascending order, none lost and none repeated.
THEOREM MergeIsRight == Spec => []PrintedIsMerge
<1> DEFINE Inv == program = "merge" => MergeInv
<1>1. Init => Inv
  BY OneStarts, MergeInit
<1>2. Inv /\ [Next]_vars => Inv'
  BY OneRuns, MergeNext, MergeStutter
<1>3. Inv => PrintedIsMerge
  BY MergeRight DEF PrintedIsMerge
<1> QED
  BY <1>1, <1>2, <1>3, PTL DEF Spec

\* merge_sorted_linked_lists.cc 119: the merged list is a new one; the three
\* lists share no node, leak none, and the old ones keep what was read.
THEOREM MergeKeepsApart == Spec => []ListsStayApart
<1> DEFINE Inv == program = "merge" => MergeInv
<1>1. Init => Inv
  BY OneStarts, MergeInit
<1>2. Inv /\ [Next]_vars => Inv'
  BY OneRuns, MergeNext, MergeStutter
<1>3. Inv => ListsStayApart
  BY ListsApart DEF ListsStayApart
<1> QED
  BY <1>1, <1>2, <1>3, PTL DEF Spec


----------------------------------------------------------------------------
\* array_manipulation.cc, in either of its builds and for operations of every
\* number and every span, holds in the array what the operations sum up to, and
\* answers with the largest element.  The inductive invariant of the build with
\* intervals: they are apart and in order, and together they hold at each index
\* the sum of the operations merged so far.

LEMMA MaxOfTwo ==
    ASSUME NEW a \in Int, NEW b \in Int
    PROVE  /\ Array!Max({a, b}) = IF a >= b THEN a ELSE b
           /\ Array!Min({a, b}) = IF a <= b THEN a ELSE b
<1>1. Array!Max({a, b}) = IF a >= b THEN a ELSE b
  <2> DEFINE IsMax(x) == x \in {a, b} /\ \A y \in {a, b} : x >= y
  <2>1. Array!Max({a, b}) = CHOOSE x : IsMax(x)
    BY DEF Array!Max
  <2>2. IsMax(IF a >= b THEN a ELSE b)
    OBVIOUS
  <2>3. \A x : IsMax(x) => x = IF a >= b THEN a ELSE b
    OBVIOUS
  <2> HIDE DEF IsMax
  <2> QED
    BY <2>1, <2>2, <2>3
<1>2. Array!Min({a, b}) = IF a <= b THEN a ELSE b
  <2> DEFINE IsMin(x) == x \in {a, b} /\ \A y \in {a, b} : x <= y
  <2>1. Array!Min({a, b}) = CHOOSE x : IsMin(x)
    BY DEF Array!Min
  <2>2. IsMin(IF a <= b THEN a ELSE b)
    OBVIOUS
  <2>3. \A x : IsMin(x) => x = IF a <= b THEN a ELSE b
    OBVIOUS
  <2> HIDE DEF IsMin
  <2> QED
    BY <2>1, <2>2, <2>3
<1> QED
  BY <1>1, <1>2

\* A multivalued_interval on an array of b elements.
IsSpan(m, b) ==
    /\ m \in [left: 1..b, right: 1..b, values: Seq(Nat)]
    /\ m.left <= m.right /\ Len(m.values) = m.right - m.left + 1

HeldIn(m, x) == IF x \in m.left..m.right THEN m.values[x - m.left + 1] ELSE 0

Adds(iv, x) == IF x \in iv.left..iv.right THEN iv.value ELSE 0

\* Every place of the values of an interval is a position of the array.
LEMMA Placed ==
    ASSUME NEW b \in Nat, NEW l \in 1..b, NEW r \in 1..b, NEW j \in 1..(r - l + 1)
    PROVE  l + j - 1 \in 1..b /\ l + j - 1 \in l..r /\ (l + j - 1) - l + 1 = j
OBVIOUS

\* What an interval of uniform value becomes.
LEMMA MultivaluedSpan ==
    ASSUME NEW b \in Nat, NEW iv \in Array!Intervals(b)
    PROVE  LET m == Array!Multivalued(iv)
           IN  /\ IsSpan(m, b) /\ m.left = iv.left /\ m.right = iv.right
               /\ \A x \in 1..b : HeldIn(m, x) = Adds(iv, x)
<1> DEFINE m == Array!Multivalued(iv)
<1> DEFINE vs == [k \in 1..(iv.right - iv.left + 1) |-> iv.value]
<1>1. /\ iv.left \in 1..b /\ iv.right \in 1..b /\ iv.value \in Nat /\ iv.left <= iv.right
      /\ iv.right - iv.left + 1 \in Nat
  BY DEF Array!Intervals
<1>2. m.left = iv.left /\ m.right = iv.right /\ m.values = vs /\ m = [left |-> iv.left, right |-> iv.right, values |-> vs]
  BY DEF Array!Multivalued
<1>3. vs \in Seq(Nat) /\ Len(vs) = iv.right - iv.left + 1
  <2> DEFINE w == iv.right - iv.left + 1
  <2>1. w \in Nat /\ vs = [k \in 1..w |-> iv.value]
    BY <1>1
  <2> HIDE DEF w
  <2>2. vs \in Seq(Nat) /\ Len(vs) = w
    BY <1>1, <2>1
  <2> QED
    BY <2>2 DEF w
<1>4. \A x \in iv.left..iv.right : x - iv.left + 1 \in 1..(iv.right - iv.left + 1)
  BY <1>1
<1>5. \A x \in iv.left..iv.right : vs[x - iv.left + 1] = iv.value
  BY <1>4
<1> HIDE DEF m, vs
<1>6. IsSpan(m, b)
  BY <1>1, <1>2, <1>3 DEF IsSpan
<1>7. \A x \in 1..b : HeldIn(m, x) = Adds(iv, x)
  BY <1>2, <1>5 DEF HeldIn, Adds
<1> QED
  BY <1>2, <1>6, <1>7 DEF m

\* right_merge: what the merged interval spans and holds.
LEMMA RightMergeSpan ==
    ASSUME NEW b \in Nat, NEW m, IsSpan(m, b), NEW iv \in Array!Intervals(b), iv.left \in m.left..m.right
    PROVE  LET r == Array!RightMerge(m, iv)
           IN  /\ IsSpan(r, b) /\ r.left = m.left
               /\ r.right = IF m.right >= iv.right THEN m.right ELSE iv.right
               /\ \A x \in 1..b : HeldIn(r, x) = HeldIn(m, x) + Adds(iv, x)
<1> DEFINE r == Array!RightMerge(m, iv)
<1> DEFINE lm == m.left
<1> DEFINE rm == m.right
<1> DEFINE li == iv.left
<1> DEFINE ri == iv.right
<1> DEFINE v == iv.value
<1> DEFINE vs == m.values
<1> DEFINE meet == IF rm <= ri THEN rm ELSE ri
<1> DEFINE far == IF rm >= ri THEN rm ELSE ri
<1> DEFINE modified == [k \in DOMAIN vs |-> IF k \in (li - lm + 1)..(li - lm + (meet - li + 1))
                                             THEN vs[k] + v ELSE vs[k]]
<1> DEFINE appended == [k \in 1..(ri - li - (meet - li + 1) + 1) |-> v]
<1>1. /\ lm \in 1..b /\ rm \in 1..b /\ li \in 1..b /\ ri \in 1..b /\ v \in Nat
      /\ lm <= li /\ li <= rm /\ li <= ri /\ lm <= rm
      /\ vs \in Seq(Nat) /\ Len(vs) = rm - lm + 1
  BY DEF Array!Intervals, IsSpan
<1>2. r = [left |-> lm, right |-> far, values |-> modified \o appended]
  <2>1. Array!Max({m.right, iv.right}) = far /\ Array!Min({m.right, iv.right}) = meet
    <3>1. m.right \in Int /\ iv.right \in Int
      BY <1>1
    <3> QED
      BY <3>1, MaxOfTwo
  <2> QED
    BY <2>1 DEF Array!RightMerge
<1> HIDE DEF lm, rm, li, ri, v, vs
<1>3. /\ meet \in 1..b /\ far \in 1..b /\ ri - li - (meet - li + 1) + 1 = ri - meet /\ ri - meet \in Nat
      /\ far - lm + 1 = (rm - lm + 1) + (ri - meet)
      /\ rm - lm + 1 \in Nat /\ lm <= far /\ rm <= far
      /\ li - lm + (meet - li + 1) = meet - lm + 1
  <2>1. CASE rm <= ri
    BY <1>1, <2>1
  <2>2. CASE ~(rm <= ri)
    BY <1>1, <2>2
  <2> QED
    BY <2>1, <2>2
<1> HIDE DEF r
<1>4. /\ modified \in Seq(Nat) /\ Len(modified) = rm - lm + 1
      /\ \A k \in 1..(rm - lm + 1) :
            modified[k] = IF k \in (li - lm + 1)..(meet - lm + 1) THEN vs[k] + v ELSE vs[k]
  <2>1. DOMAIN vs = 1..(rm - lm + 1) /\ \A k \in 1..(rm - lm + 1) : vs[k] \in Nat
    BY <1>1
  <2> DEFINE w == rm - lm + 1
  <2>2. w \in Nat
    BY <1>3
  <2> HIDE DEF w
  <2>3. DOMAIN vs = 1..w /\ \A k \in 1..w : vs[k] \in Nat
    BY <2>1 DEF w
  <2>4. modified \in [1..w -> Nat]
    BY <1>1, <2>3
  <2>5. modified \in Seq(Nat) /\ Len(modified) = w
    <3> HIDE DEF modified
    <3> QED
      BY <2>2, <2>4
  <2>6. \A k \in 1..w : modified[k] = IF k \in (li - lm + 1)..(meet - lm + 1) THEN vs[k] + v ELSE vs[k]
    BY <1>3, <2>3
  <2> QED
    BY <2>5, <2>6 DEF w
<1>5. /\ appended \in Seq(Nat) /\ Len(appended) = ri - meet
      /\ \A k \in 1..(ri - meet) : appended[k] = v
  <2> DEFINE w == ri - meet
  <2>1. w \in Nat /\ ri - li - (meet - li + 1) + 1 = w
    BY <1>3
  <2> HIDE DEF w
  <2>2. appended = [k \in 1..w |-> v]
    BY <2>1
  <2>3. appended \in Seq(Nat) /\ Len(appended) = w /\ \A k \in 1..w : appended[k] = v
    BY <1>1, <2>1, <2>2
  <2> QED
    BY <2>3 DEF w
<1> HIDE DEF modified, appended
<1> DEFINE all == modified \o appended
<1>6. /\ all \in Seq(Nat) /\ Len(all) = far - lm + 1
      /\ \A k \in 1..(far - lm + 1) :
            all[k] = IF k <= rm - lm + 1 THEN modified[k] ELSE appended[k - (rm - lm + 1)]
  <2>1. all \in Seq(Nat) /\ Len(all) = Len(modified) + Len(appended)
    <3>1. modified \in Seq(Nat) /\ appended \in Seq(Nat)
      BY <1>4, <1>5
    <3> QED
      BY ONLY <3>1
  <2>2. \A k \in 1..Len(all) :
            all[k] = IF k <= Len(modified) THEN modified[k] ELSE appended[k - Len(modified)]
    <3>1. modified \in Seq(Nat) /\ appended \in Seq(Nat)
      BY <1>4, <1>5
    <3> QED
      BY ONLY <3>1
  <2> HIDE DEF all, far, meet
  <2> QED
    BY <1>3, <1>4, <1>5, <2>1, <2>2
<1>7. r.left = lm /\ r.right = far /\ r.values = all
  BY <1>2
<1> HIDE DEF all
<1>8. IsSpan(r, b)
  <2>1. r \in [left: 1..b, right: 1..b, values: Seq(Nat)]
    BY <1>1, <1>2, <1>3, <1>6 DEF all
  <2> QED
    BY <1>3, <1>6, <1>7, <2>1 DEF IsSpan
<1>9. ASSUME NEW x \in 1..b PROVE HeldIn(r, x) = HeldIn(m, x) + Adds(iv, x)
  <2>h. /\ HeldIn(r, x) = IF x \in lm..far THEN all[x - lm + 1] ELSE 0
        /\ HeldIn(m, x) = IF x \in lm..rm THEN vs[x - lm + 1] ELSE 0
        /\ Adds(iv, x) = IF x \in li..ri THEN v ELSE 0
    BY <1>7 DEF HeldIn, Adds, lm, rm, li, ri, v, vs
  <2>1. CASE x \in lm..rm
    <3> DEFINE k == x - lm + 1
    <3>1. k \in 1..(rm - lm + 1) /\ k \in 1..(far - lm + 1) /\ k <= rm - lm + 1 /\ x \in lm..far
      BY <1>1, <1>3, <2>1
    <3>2. k \in (li - lm + 1)..(meet - lm + 1) <=> x \in li..ri
      BY <1>1, <2>1
    <3> HIDE DEF k, meet, far
    <3>3. all[k] = IF x \in li..ri THEN vs[k] + v ELSE vs[k]
      BY <1>4, <1>6, <3>1, <3>2
    <3>4. vs[k] \in Nat
      BY <1>1, <3>1, ElementOfSeq
    <3> QED
      BY <1>1, <2>1, <2>h, <3>1, <3>3, <3>4 DEF k
  <2>2. CASE x \in lm..far /\ x \notin lm..rm
    <3> DEFINE k == x - lm + 1
    <3>1. /\ k \in 1..(far - lm + 1) /\ ~(k <= rm - lm + 1) /\ x \in li..ri
          /\ k - (rm - lm + 1) \in 1..(ri - meet)
      BY <1>1, <1>3, <2>2
    <3> HIDE DEF k, meet, far
    <3>2. all[k] = v
      BY <1>5, <1>6, <3>1
    <3> QED
      BY <1>1, <2>2, <2>h, <3>1, <3>2 DEF k
  <2>3. CASE x \notin lm..far
    <3>1. x \notin lm..rm /\ x \notin li..ri
      BY <1>1, <1>3, <2>3
    <3> QED
      BY <2>3, <2>h, <3>1
  <2> QED
    BY <2>1, <2>2, <2>3
<1> QED
  BY <1>7, <1>8, <1>9 DEF r, lm, rm, ri

\* A record that may be a span of b elements.
Pieces(b) == [left: 1..b, right: 1..b, values: Seq(Nat)]

AreApart(s, b) ==
    /\ s \in Seq(Pieces(b))
    /\ \A k \in 1..Len(s) : IsSpan(s[k], b)
    /\ \A j, k \in 1..Len(s) : j < k => s[j].right < s[k].left

Spans(s, k, x) == x \in s[k].left..s[k].right

Covers(s, x) == \E k \in 1..Len(s) : Spans(s, k, x)

\* The spans s hold v at x.
Held(s, x, v) ==
    /\ \A k \in 1..Len(s) : Spans(s, k, x) => v = HeldIn(s[k], x)
    /\ ~Covers(s, x) => v = 0

LEMMA SpanFields ==
    ASSUME NEW b \in Nat, NEW s, AreApart(s, b), NEW k \in 1..Len(s)
    PROVE  /\ s[k].left \in 1..b /\ s[k].right \in 1..b /\ s[k].left <= s[k].right
           /\ s[k].values \in Seq(Nat) /\ Len(s[k].values) = s[k].right - s[k].left + 1
BY DEF AreApart, IsSpan

\* Only one of them spans an index.
LEMMA OneSpans ==
    ASSUME NEW b \in Nat, NEW s, AreApart(s, b),
           NEW j \in 1..Len(s), NEW k \in 1..Len(s), NEW x \in 1..b, Spans(s, j, x), Spans(s, k, x)
    PROVE  j = k
<1>1. Len(s) \in Nat
  BY DEF AreApart
<1>2. /\ s[j].left \in 1..b /\ s[j].right \in 1..b /\ s[k].left \in 1..b /\ s[k].right \in 1..b
      /\ j \in Int /\ k \in Int
  BY <1>1, SpanFields
<1>3. s[j].left <= x /\ x <= s[j].right /\ s[k].left <= x /\ x <= s[k].right
  BY DEF Spans
<1>4. ~(j < k)
  <2>1. j < k => s[j].right < s[k].left
    BY DEF AreApart
  <2> QED
    BY <1>2, <1>3, <2>1
<1>5. ~(k < j)
  <2>1. k < j => s[k].right < s[j].left
    BY DEF AreApart
  <2> QED
    BY <1>2, <1>3, <2>1
<1> QED
  BY <1>2, <1>4, <1>5

\* Where a span holds something it is a number.
LEMMA HeldInNat ==
    ASSUME NEW b \in Nat, NEW m, IsSpan(m, b), NEW x \in 1..b PROVE HeldIn(m, x) \in Nat
<1>1. CASE x \in m.left..m.right
  <2>1. m.left \in 1..b /\ m.right \in 1..b /\ m.values \in Seq(Nat) /\ Len(m.values) = m.right - m.left + 1
    BY DEF IsSpan
  <2>2. x - m.left + 1 \in 1..Len(m.values)
    BY <1>1, <2>1
  <2>3. m.values[x - m.left + 1] \in Nat
    BY <2>1, <2>2, ElementOfSeq
  <2> QED
    BY <1>1, <2>3 DEF HeldIn
<1>2. CASE x \notin m.left..m.right
  BY <1>2 DEF HeldIn
<1> QED
  BY <1>1, <1>2

LEMMA HeldOnce ==
    ASSUME NEW b \in Nat, NEW s, AreApart(s, b), NEW x \in 1..b
    PROVE  \E v \in Nat : Held(s, x, v) /\ \A w : Held(s, x, w) => w = v
<1>1. CASE Covers(s, x)
  <2>1. PICK k \in 1..Len(s) : Spans(s, k, x)
    BY <1>1 DEF Covers
  <2>2. IsSpan(s[k], b)
    BY <2>1 DEF AreApart
  <2>3. HeldIn(s[k], x) \in Nat
    BY <2>2, HeldInNat
  <2>4. \A j \in 1..Len(s) : Spans(s, j, x) => j = k
    BY <2>1, OneSpans
  <2> QED
    BY <1>1, <2>1, <2>3, <2>4 DEF Held
<1>2. CASE ~Covers(s, x)
  BY <1>2 DEF Held, Covers
<1> QED
  BY <1>1, <1>2

LEMMA ApartAppend ==
    ASSUME NEW b \in Nat, NEW s, AreApart(s, b), NEW r, IsSpan(r, b),
           \A k \in 1..Len(s) : s[k].right < r.left
    PROVE  /\ AreApart(Append(s, r), b) /\ Len(Append(s, r)) = Len(s) + 1 /\ Append(s, r)[Len(s) + 1] = r
           /\ \A x : Covers(Append(s, r), x) <=> Covers(s, x) \/ x \in r.left..r.right
           /\ \A x \in 1..b, v \in Nat : Held(s, x, v) => Held(Append(s, r), x, v + HeldIn(r, x))
<1> DEFINE t == Append(s, r)
<1> DEFINE d == Len(s)
<1>1. /\ s \in Seq(Pieces(b)) /\ d \in Nat /\ r \in Pieces(b)
      /\ t \in Seq(Pieces(b)) /\ Len(t) = d + 1 /\ t[d + 1] = r /\ \A k \in 1..d : t[k] = s[k]
  <2>1. s \in Seq(Pieces(b)) /\ r \in Pieces(b)
    BY DEF AreApart, IsSpan, Pieces
  <2> HIDE DEF Pieces
  <2> QED
    BY <2>1
<1>2. \A k \in 1..(d + 1) : k \in 1..d \/ k = d + 1
  BY <1>1
<1>3. 1..d \subseteq 1..(d + 1) /\ d + 1 \in 1..(d + 1) /\ d + 1 \notin 1..d
  BY <1>1
<1> HIDE DEF t, d
<1>4. AreApart(t, b)
  <2>1. \A k \in 1..(d + 1) : IsSpan(t[k], b)
    BY <1>1, <1>2 DEF AreApart, d
  <2>2. ASSUME NEW j \in 1..(d + 1), NEW k \in 1..(d + 1), j < k PROVE t[j].right < t[k].left
    <3>1. j \in 1..d
      BY <1>1, <2>2
    <3>2. CASE k \in 1..d
      BY <1>1, <2>2, <3>1, <3>2 DEF AreApart, d
    <3>3. CASE k = d + 1
      BY <1>1, <3>1, <3>3 DEF d
    <3> QED
      BY <1>2, <3>2, <3>3
  <2> QED
    BY <1>1, <2>1, <2>2 DEF AreApart
<1>5. ASSUME NEW x PROVE Covers(t, x) <=> Covers(s, x) \/ x \in r.left..r.right
  BY <1>1, <1>2, <1>3 DEF Covers, Spans, d
<1>6. ASSUME NEW x \in 1..b, NEW v \in Nat, Held(s, x, v) PROVE Held(t, x, v + HeldIn(r, x))
  <2>1. HeldIn(r, x) \in Nat
    BY HeldInNat
  <2>2. CASE x \in r.left..r.right
    <3>1. ~Covers(s, x)
      <4> SUFFICES ASSUME NEW k \in 1..Len(s), Spans(s, k, x) PROVE FALSE
        BY DEF Covers
      <4>1. s[k].right < r.left /\ s[k].right \in Int /\ r.left \in Int /\ r.right \in Int
        <5>1. s[k].right \in 1..b
          BY SpanFields
        <5>2. r.left \in 1..b /\ r.right \in 1..b
          BY DEF IsSpan
        <5> QED
          BY <5>1, <5>2
      <4>2. x <= s[k].right /\ r.left <= x
        BY <2>2, <4>1 DEF Spans
      <4> QED
        BY <4>1, <4>2
    <3>2. v = 0 /\ v + HeldIn(r, x) = HeldIn(r, x)
      BY <1>6, <2>1, <3>1 DEF Held
    <3>3. \A k \in 1..d : ~Spans(t, k, x)
      BY <1>1, <3>1 DEF Covers, Spans, d
    <3>4. \A k \in 1..(d + 1) : Spans(t, k, x) => t[k] = r
      BY <1>1, <1>2, <3>3
    <3>5. Covers(t, x)
      BY <1>5, <2>2
    <3> QED
      BY <1>1, <3>2, <3>4, <3>5 DEF Held
  <2>3. CASE x \notin r.left..r.right
    <3>1. HeldIn(r, x) = 0 /\ v + HeldIn(r, x) = v
      BY <2>3 DEF HeldIn
    <3>2. ~Spans(t, d + 1, x)
      BY <1>1, <2>3 DEF Spans
    <3>3. \A k \in 1..d : Spans(t, k, x) => v = HeldIn(t[k], x)
      BY <1>1, <1>6 DEF Held, Spans, d
    <3>4. Covers(t, x) <=> Covers(s, x)
      BY <1>5, <2>3
    <3>5. \A k \in 1..(d + 1) : Spans(t, k, x) => v = HeldIn(t[k], x)
      BY <1>2, <3>2, <3>3
    <3> QED
      BY <1>1, <1>6, <3>1, <3>4, <3>5 DEF Held
  <2> QED
    BY <2>2, <2>3
<1> QED
  BY <1>1, <1>4, <1>5, <1>6 DEF t, d

LEMMA ApartReplace ==
    ASSUME NEW b \in Nat, NEW s, AreApart(s, b), s # <<>>, NEW iv \in Array!Intervals(b), NEW r, IsSpan(r, b),
           r.left = s[Len(s)].left, iv.left \in s[Len(s)].left..s[Len(s)].right,
           r.right = IF s[Len(s)].right >= iv.right THEN s[Len(s)].right ELSE iv.right,
           \A x \in 1..b : HeldIn(r, x) = HeldIn(s[Len(s)], x) + Adds(iv, x)
    PROVE  LET t == Append(Array!Front(s), r)
           IN  /\ AreApart(t, b) /\ Len(t) = Len(s) /\ t[Len(s)] = r
               /\ \A x \in 1..b : Covers(t, x) <=> Covers(s, x) \/ x \in iv.left..iv.right
               /\ \A x \in 1..b, v \in Nat : Held(s, x, v) => Held(t, x, v + Adds(iv, x))
<1> DEFINE t == Append(Array!Front(s), r)
<1> DEFINE d == Len(s)
<1> DEFINE last == s[d]
<1>1. s \in Seq(Pieces(b)) /\ d \in Nat \ {0} /\ r \in Pieces(b)
  <2>1. s \in Seq(Pieces(b)) /\ r \in Pieces(b)
    BY DEF AreApart, IsSpan, Pieces
  <2> HIDE DEF Pieces
  <2> QED
    BY <2>1, EmptySeq
<1>2. t \in Seq(Pieces(b)) /\ Len(t) = d /\ t[d] = r /\ \A k \in 1..(d - 1) : t[k] = s[k]
  <2>1. \A k \in 1..(d - 1) : s[k] \in Pieces(b)
    BY <1>1, ElementOfSeq
  <2> HIDE DEF Pieces, d, t
  <2> DEFINE f == SubSeq(s, 1, d - 1)
  <2>2. /\ f \in Seq(Pieces(b)) /\ Len(f) = IF 1 <= d - 1 THEN d - 1 - 1 + 1 ELSE 0
        /\ \A k \in 1..(d - 1 - 1 + 1) : f[k] = s[1 + k - 1]
    BY <1>1, <2>1, SubSeqProperties
  <2>3. t = Append(f, r)
    BY DEF Array!Front, t, d
  <2> HIDE DEF f
  <2>4. Len(f) = d - 1 /\ f \in Seq(Pieces(b)) /\ \A k \in 1..(d - 1) : f[k] = s[k]
    BY <1>1, <2>2
  <2> QED
    BY <1>1, <2>3, <2>4
<1>3. \A k \in 1..d : k \in 1..(d - 1) \/ k = d
  BY <1>1
<1>4. 1..(d - 1) \subseteq 1..d /\ d \in 1..d /\ d \notin 1..(d - 1)
  BY <1>1
<1>5. /\ last.left \in 1..b /\ last.right \in 1..b /\ last.left <= last.right
      /\ r.left = last.left /\ r.right \in 1..b
      /\ iv.left \in 1..b /\ iv.right \in 1..b /\ iv.left <= iv.right
      /\ iv.left \in last.left..last.right
      /\ r.right = IF last.right >= iv.right THEN last.right ELSE iv.right
  BY <1>4, SpanFields DEF Array!Intervals, IsSpan
<1>6. \A x \in 1..b : HeldIn(r, x) = HeldIn(last, x) + Adds(iv, x)
  OBVIOUS
<1>7. \A x \in 1..b : x \in r.left..r.right <=> x \in last.left..last.right \/ x \in iv.left..iv.right
  BY <1>5
<1>8. IsSpan(last, b) /\ \A k \in 1..(d - 1) : s[k].right < last.left
  BY <1>1, <1>4 DEF AreApart
<1> HIDE DEF t, d, last
<1>9. AreApart(t, b)
  <2>1. \A k \in 1..d : IsSpan(t[k], b)
    BY <1>2, <1>3, <1>4 DEF AreApart, d
  <2>2. ASSUME NEW j \in 1..d, NEW k \in 1..d, j < k PROVE t[j].right < t[k].left
    <3>1. j \in 1..(d - 1)
      BY <1>1, <2>2
    <3>2. CASE k \in 1..(d - 1)
      BY <1>2, <1>4, <2>2, <3>1, <3>2 DEF AreApart, d
    <3>3. CASE k = d
      BY <1>2, <1>5, <1>8, <3>1, <3>3
    <3> QED
      BY <1>3, <3>2, <3>3
  <2> QED
    BY <1>2, <2>1, <2>2 DEF AreApart
<1>10. ASSUME NEW x \in 1..b PROVE Covers(t, x) <=> Covers(s, x) \/ x \in iv.left..iv.right
  <2>1. Spans(t, d, x) <=> Spans(s, d, x) \/ x \in iv.left..iv.right
    BY <1>2, <1>7 DEF Spans, last
  <2>2. \A k \in 1..(d - 1) : Spans(t, k, x) <=> Spans(s, k, x)
    BY <1>2 DEF Spans
  <2> QED
    BY <1>2, <1>3, <1>4, <2>1, <2>2 DEF Covers, d
<1>11. ASSUME NEW x \in 1..b, NEW v \in Nat, Held(s, x, v) PROVE Held(t, x, v + Adds(iv, x))
  <2>1. HeldIn(last, x) \in Nat /\ Adds(iv, x) \in Nat
    <3>1. Adds(iv, x) \in Nat
      BY DEF Adds, Array!Intervals
    <3> QED
      BY <1>8, <3>1, HeldInNat
  <2>2. CASE \E j \in 1..(d - 1) : Spans(s, j, x)
    <3>1. PICK j \in 1..(d - 1) : Spans(s, j, x)
      BY <2>2
    <3>2. x < last.left
      <4>1. s[j].right < last.left /\ s[j].right \in Int /\ last.left \in Int
        <5>1. s[j].right \in 1..b
          BY <1>4, <3>1, SpanFields DEF d
        <5> QED
          BY <1>5, <1>8, <3>1, <5>1
      <4>2. x <= s[j].right
        BY <3>1, <4>1 DEF Spans
      <4> QED
        BY <4>1, <4>2
    <3>3. Adds(iv, x) = 0 /\ v + Adds(iv, x) = v
      <4>1. x \notin iv.left..iv.right
        BY <1>5, <3>2
      <4> QED
        BY <4>1 DEF Adds
    <3>4. ~Spans(t, d, x)
      BY <1>2, <1>5, <3>2 DEF Spans
    <3>5. \A k \in 1..(d - 1) : Spans(t, k, x) => v = HeldIn(t[k], x)
      BY <1>2, <1>4, <1>11 DEF Held, Spans, d
    <3>6. Covers(t, x)
      BY <1>2, <1>4, <3>1 DEF Covers, Spans
    <3>7. \A k \in 1..d : Spans(t, k, x) => v = HeldIn(t[k], x)
      BY <1>3, <3>4, <3>5
    <3> QED
      BY <1>2, <3>3, <3>6, <3>7 DEF Held
  <2>3. CASE \A j \in 1..(d - 1) : ~Spans(s, j, x)
    <3>1. v = HeldIn(last, x)
      <4>1. CASE Spans(s, d, x)
        BY <1>4, <1>11, <4>1 DEF Held, d, last
      <4>2. CASE ~Spans(s, d, x)
        <5>1. ~Covers(s, x)
          BY <1>3, <2>3, <4>2 DEF Covers, d
        <5>2. v = 0
          BY <1>11, <5>1 DEF Held
        <5> QED
          BY <4>2, <5>2 DEF HeldIn, Spans, last
      <4> QED
        BY <4>1, <4>2
    <3>2. v + Adds(iv, x) = HeldIn(r, x)
      BY <1>6, <3>1
    <3>3. \A k \in 1..d : Spans(t, k, x) => k = d
      BY <1>2, <1>3, <2>3 DEF Spans
    <3>4. \A k \in 1..d : Spans(t, k, x) => v + Adds(iv, x) = HeldIn(t[k], x)
      BY <1>2, <3>2, <3>3
    <3>5. ~Covers(t, x) => v + Adds(iv, x) = 0
      <4>1. ~Covers(t, x) => ~Spans(t, d, x)
        BY <1>2, <1>4 DEF Covers
      <4>2. ~Spans(t, d, x) => HeldIn(r, x) = 0
        BY <1>2 DEF Spans, HeldIn
      <4> QED
        BY <3>2, <4>1, <4>2
    <3> QED
      BY <1>2, <3>4, <3>5 DEF Held
  <2> QED
    BY <2>2, <2>3
<1> QED
  BY <1>2, <1>9, <1>10, <1>11 DEF t, d

\* An array of numbers has a greatest element.
LEMMA Greatest ==
    ASSUME NEW b \in Nat \ {0}, NEW f \in [1..b -> Nat]
    PROVE  \E x \in 1..b : \A y \in 1..b : f[y] <= f[x]
<1> DEFINE T == { m \in Nat : m < b => \E x \in 1..(m + 1) : \A y \in 1..(m + 1) : f[y] <= f[x] }
<1>1. 0 \in T
  <2>1. 1..(0 + 1) = {1} /\ f[1] \in Nat
    OBVIOUS
  <2> QED
    BY <2>1
<1>2. ASSUME NEW m \in Nat, m \in T PROVE m + 1 \in T
  <2> SUFFICES ASSUME m + 1 < b PROVE \E x \in 1..(m + 1 + 1) : \A y \in 1..(m + 1 + 1) : f[y] <= f[x]
    OBVIOUS
  <2>1. PICK x \in 1..(m + 1) : \A y \in 1..(m + 1) : f[y] <= f[x]
    BY <1>2
  <2>2. 1..(m + 1 + 1) = (1..(m + 1)) \cup {m + 1 + 1} /\ 1..(m + 1 + 1) \subseteq 1..b
    OBVIOUS
  <2>3. \A y \in 1..(m + 1 + 1) : f[y] \in Nat
    BY <2>2
  <2>4. CASE f[m + 1 + 1] <= f[x]
    BY <2>1, <2>2, <2>4
  <2>5. CASE ~(f[m + 1 + 1] <= f[x])
    <3>1. x \in 1..(m + 1 + 1) /\ m + 1 + 1 \in 1..(m + 1 + 1)
      BY <2>2
    <3>2. f[x] < f[m + 1 + 1]
      BY <2>3, <2>5, <3>1
    <3>3. \A y \in 1..(m + 1) : f[y] <= f[m + 1 + 1]
      BY <2>1, <2>2, <2>3, <3>1, <3>2
    <3>4. \A y \in 1..(m + 1 + 1) : f[y] <= f[m + 1 + 1]
      BY <2>2, <2>3, <3>1, <3>3
    <3> QED
      BY <3>1, <3>4
  <2> QED
    BY <2>4, <2>5
<1>3. b - 1 \in T
  <2>1. Nat \subseteq T
    <3> HIDE DEF T
    <3> QED
      BY <1>1, <1>2, Induction
  <2>2. b - 1 \in Nat
    OBVIOUS
  <2> HIDE DEF T
  <2> QED
    BY <2>1, <2>2
<1>4. b - 1 + 1 = b /\ b - 1 < b
  OBVIOUS
<1> QED
  BY <1>3, <1>4

\* The only greatest number of a set is its Max.
LEMMA MaxIs ==
    ASSUME NEW S, S \subseteq Int, NEW x \in S, \A y \in S : y <= x
    PROVE  Promise!Max(S) = x /\ Array!Max(S) = x
<1> DEFINE IsMax(z) == z \in S /\ \A y \in S : z >= y
<1>1. Promise!Max(S) = (CHOOSE z : IsMax(z)) /\ Array!Max(S) = (CHOOSE z : IsMax(z))
  BY DEF Promise!Max, Array!Max
<1>2. IsMax(x)
  OBVIOUS
<1>3. ASSUME NEW z, IsMax(z) PROVE z = x
  <2>1. z \in Int /\ x \in Int /\ z <= x /\ x <= z
    BY <1>3
  <2> QED
    BY <2>1
<1> HIDE DEF IsMax
<1> QED
  BY <1>1, <1>2, <1>3

\* The sort makes an order of all operations.
LEMMA OrderIsWhole ==
    ASSUME NEW d \in Nat, NEW w, w \in Array!SetToSeqs(1..d)
    PROVE  /\ w \in [1..d -> 1..d] /\ \A j, k \in 1..d : j # k => w[j] # w[k]
           /\ { w[k] : k \in 1..d } = 1..d
<1>1. IsFiniteSet(1..d) /\ Cardinality(1..d) = d
  BY FS_Interval
<1>2. Array!Cardinality(1..d) = Cardinality(1..d)
  BY DEF Array!Cardinality, Cardinality
<1>3. w \in [1..d -> 1..d] /\ \A j, k \in 1..d : j # k => w[j] # w[k]
  BY <1>1, <1>2 DEF Array!SetToSeqs
<1> DEFINE T == { w[k] : k \in 1..d }
<1>4. T \in SUBSET (1..d)
  BY <1>3
<1>5. w \in Injection(1..d, T)
  BY <1>3 DEF Injection, IsInjective
<1>6. IsFiniteSet(T) /\ Cardinality(T) <= d
  BY <1>1, <1>4, FS_Subset
<1>7. Cardinality(1..d) <= Cardinality(T)
  BY <1>5, <1>6, FS_Injection
<1>8. Cardinality(T) = Cardinality(1..d)
  BY <1>1, <1>6, <1>7, FS_CardinalityType
<1>9. T = 1..d
  BY <1>1, <1>4, <1>8, FS_Subset
<1> QED
  BY <1>3, <1>9

Within(x, iv) == x \in iv.left..iv.right

\* The order in which the operations are merged.
InOrder ==
    /\ order \in [1..Len(ops) -> 1..Len(ops)]
    /\ \A j, k \in 1..Len(ops) : j # k => order[j] # order[k]
    /\ { order[k] : k \in 1..Len(ops) } = 1..Len(ops)
    /\ \A j, k \in 1..Len(ops) : j < k => ops[order[j]].left <= ops[order[k]].left

\* The merged intervals span what the operations merged so far do, and the last
\* one begins no further right than the last of those.
Merged ==
    /\ AreApart(merged_intervals, n)
    /\ i = 0 <=> merged_intervals = <<>>
    /\ i > 0 => merged_intervals[Len(merged_intervals)].left <= ops[order[i]].left
    /\ \A x \in 1..n : Covers(merged_intervals, x) <=> \E k \in 1..i : Within(x, ops[order[k]])

ArrayArgs ==
    /\ n \in Nat \ {0} /\ ops \in Seq(Array!Intervals(n)) /\ use_array_update \in BOOLEAN
    /\ i \in 0..Len(ops)

UpdateInv ==
    /\ values \in [1..n -> Nat]
    /\ \/ pc = "update" /\ result = {}
       \/ pc = "done" /\ i = Len(ops)

IntervalsInv ==
    \/ pc \in {"sort", "undefined"} /\ i = 0 /\ merged_intervals = <<>> /\ result = {}
    \/ pc = "merge" /\ ops # <<>> /\ result = {} /\ InOrder /\ Merged
    \/ pc = "done" /\ i = Len(ops) /\ InOrder /\ Merged

ArrayInv == ArrayArgs /\ IF use_array_update THEN UpdateInv ELSE IntervalsInv

LEMMA ArrayInit == Array!Init => ArrayInv
<1> SUFFICES ASSUME Array!Init PROVE ArrayInv
  OBVIOUS
<1>1. PICK in \in Arrays : n = in.n /\ ops = in.ops
  BY DEF Array!Init
<1>2. n \in Nat \ {0} /\ ops \in Seq(Array!Intervals(n))
  BY <1>1, InputsAssumption DEF Array!InputsOK
<1>3. /\ use_array_update \in BOOLEAN /\ i = 0 /\ merged_intervals = <<>> /\ result = {}
      /\ values = [x \in 1..(IF use_array_update THEN n ELSE 0) |-> 0]
      /\ pc = IF use_array_update THEN "update" ELSE "sort"
  BY DEF Array!Init
<1>4. Len(ops) \in Nat
  BY <1>2
<1>5. ArrayArgs
  BY <1>2, <1>3, <1>4 DEF ArrayArgs
<1>6. CASE use_array_update
  <2>1. values = [x \in 1..n |-> 0]
    BY <1>3, <1>6
  <2>2. values \in [1..n -> Nat]
    BY <2>1
  <2> QED
    BY <1>3, <1>5, <1>6, <2>2 DEF ArrayInv, UpdateInv
<1>7. CASE ~use_array_update
  BY <1>3, <1>5, <1>7 DEF ArrayInv, IntervalsInv
<1> QED
  BY <1>6, <1>7

\* ValueAt reads what the merged intervals hold.
LEMMA ValueHeld ==
    AreApart(merged_intervals, n) /\ n \in Nat =>
        \A x \in 1..n : /\ Array!ValueAt(x) \in Nat /\ Held(merged_intervals, x, Array!ValueAt(x))
                        /\ \A w : Held(merged_intervals, x, w) => Array!ValueAt(x) = w
<1> SUFFICES ASSUME AreApart(merged_intervals, n), n \in Nat, NEW x \in 1..n
             PROVE  /\ Array!ValueAt(x) \in Nat /\ Held(merged_intervals, x, Array!ValueAt(x))
                    /\ \A w : Held(merged_intervals, x, w) => Array!ValueAt(x) = w
  OBVIOUS
<1>1. PICK v \in Nat : Held(merged_intervals, x, v) /\ \A w : Held(merged_intervals, x, w) => w = v
  BY HeldOnce
<1>2. DOMAIN merged_intervals = 1..Len(merged_intervals)
  BY DEF AreApart
<1>3. Array!Covering(x) = { k \in 1..Len(merged_intervals) : Spans(merged_intervals, k, x) }
  BY <1>2 DEF Array!Covering, Spans
<1>4. CASE Array!Covering(x) = {}
  <2>1. ~Covers(merged_intervals, x)
    BY <1>3, <1>4 DEF Covers
  <2>2. v = 0
    BY <1>1, <2>1 DEF Held
  <2> QED
    BY <1>1, <1>4, <2>2 DEF Array!ValueAt
<1>5. CASE Array!Covering(x) # {}
  <2>1. PICK k \in Array!Covering(x) : k = CHOOSE j \in Array!Covering(x) : TRUE
    BY <1>5
  <2>2. k \in 1..Len(merged_intervals) /\ Spans(merged_intervals, k, x)
    BY <1>3, <2>1
  <2>3. v = HeldIn(merged_intervals[k], x)
    BY <1>1, <2>2 DEF Held
  <2>4. Array!ValueAt(x) = HeldIn(merged_intervals[k], x)
    BY <1>5, <2>1, <2>2 DEF Array!ValueAt, HeldIn, Spans
  <2> QED
    BY <1>1, <2>3, <2>4
<1> QED
  BY <1>4, <1>5

LEMMA ValueHeldAfter ==
    AreApart(merged_intervals', n') /\ n' \in Nat =>
        \A x \in 1..n' : \A w : Held(merged_intervals', x, w) => Array!ValueAt(x)' = w
<1>1. (AreApart(merged_intervals, n) /\ n \in Nat =>
        \A x \in 1..n : /\ Array!ValueAt(x) \in Nat /\ Held(merged_intervals, x, Array!ValueAt(x))
                        /\ \A w : Held(merged_intervals, x, w) => Array!ValueAt(x) = w)'
  BY ValueHeld, PTL
<1> QED
  BY <1>1

\* Operation k is taken: the array and what is pending are those of ArrayUpdates.
Applies(k) ==
    /\ k \in Array!Pending /\ Array!Pending' = Array!Pending \ {k}
    /\ Array!Array' = [x \in DOMAIN Array!Array |->
                         IF x \in ops[k].left..ops[k].right THEN Array!Array[x] + ops[k].value
                                                            ELSE Array!Array[x]]
    /\ UNCHANGED <<ops, result>>

Stays == UNCHANGED <<ops, result>> /\ Array!Pending' = Array!Pending /\ Array!Array' = Array!Array

Reports ==
    /\ Array!Pending = {} /\ result = {}
    /\ result' = { Promise!Max({ Array!Array[x] : x \in DOMAIN Array!Array }) }
    /\ UNCHANGED ops /\ Array!Pending' = Array!Pending /\ Array!Array' = Array!Array

LEMMA TransformApplies ==
    ASSUME ArrayInv, Array!Transform PROVE ArrayInv' /\ \E k : Applies(k)
<1>1. /\ pc = "update" /\ i < Len(ops) /\ i' = i + 1 /\ UNCHANGED <<n, ops, use_array_update, result, pc>>
      /\ values' = [x \in DOMAIN values |->
                      IF x - 1 \in (ops[i'].left - 1)..(ops[i'].right - 1)
                        THEN values[x] + ops[i'].value ELSE values[x]]
  BY DEF Array!Transform, Array!args
<1>2. /\ use_array_update /\ ArrayArgs /\ UpdateInv /\ i \in Nat /\ i + 1 \in 1..Len(ops) /\ result = {}
      /\ values \in [1..n -> Nat] /\ n \in Nat
  BY <1>1 DEF ArrayInv, IntervalsInv, UpdateInv, ArrayArgs
<1>3. ops[i + 1] \in Array!Intervals(n)
  BY <1>2, ElementOfSeq DEF ArrayArgs
<1>4. ops[i + 1].left \in 1..n /\ ops[i + 1].right \in 1..n /\ ops[i + 1].value \in Nat
  BY <1>3 DEF Array!Intervals
<1>5. \A x \in 1..n : x - 1 \in (ops[i + 1].left - 1)..(ops[i + 1].right - 1)
                          <=> x \in ops[i + 1].left..ops[i + 1].right
  BY <1>2, <1>4
<1>6. values' = [x \in 1..n |-> IF x \in ops[i + 1].left..ops[i + 1].right
                                  THEN values[x] + ops[i + 1].value ELSE values[x]]
  BY <1>1, <1>2, <1>5
<1>7. values' \in [1..n -> Nat]
  BY <1>2, <1>4, <1>6
<1>8. ArrayInv'
  BY <1>1, <1>2, <1>7 DEF ArrayInv, ArrayArgs, UpdateInv
<1>9. Applies(i + 1)
  <2>1. Array!Pending = (i + 1)..Len(ops) /\ Array!Pending' = (i + 2)..Len(ops)
    BY <1>1, <1>2 DEF Array!Pending
  <2>2. Array!Array = values /\ Array!Array' = values' /\ DOMAIN values = 1..n
    BY <1>1, <1>2 DEF Array!Array
  <2>3. i + 1 \in (i + 1)..Len(ops) /\ (i + 2)..Len(ops) = ((i + 1)..Len(ops)) \ {i + 1}
    BY <1>2
  <2> QED
    BY <1>1, <1>6, <2>1, <2>2, <2>3 DEF Applies
<1> QED
  BY <1>8, <1>9

\* Operation order[i + 1] becomes part of the merged intervals.
LEMMA Taken ==
    ASSUME ArrayArgs, ~use_array_update, pc = "merge", InOrder, Merged, i < Len(ops), i' = i + 1,
           UNCHANGED <<n, ops, use_array_update, order, result, pc>>, result = {}, ops # <<>>,
           AreApart(merged_intervals', n), merged_intervals' # <<>>,
           merged_intervals'[Len(merged_intervals')].left <= ops[order[i + 1]].left,
           \A x \in 1..n : Covers(merged_intervals', x)
                               <=> Covers(merged_intervals, x) \/ Within(x, ops[order[i + 1]]),
           \A x \in 1..n, v \in Nat : Held(merged_intervals, x, v)
                               => Held(merged_intervals', x, v + Adds(ops[order[i + 1]], x))
    PROVE  ArrayInv' /\ \E k : Applies(k)
<1>1. n \in Nat /\ i \in Nat /\ Len(ops) \in Nat /\ i + 1 \in 1..Len(ops) /\ ops \in Seq(Array!Intervals(n))
  BY DEF ArrayArgs
<1>2. 1..(i + 1) = (1..i) \cup {i + 1}
  BY <1>1
<1>3. \A x \in 1..n : Covers(merged_intervals', x) <=> \E k \in 1..(i + 1) : Within(x, ops[order[k]])
  <2>1. \A x \in 1..n : Covers(merged_intervals, x) <=> \E k \in 1..i : Within(x, ops[order[k]])
    BY DEF Merged
  <2> QED
    BY <1>2, <2>1
<1>4. Merged'
  <2>1. AreApart(merged_intervals, n)'
    BY DEF AreApart, IsSpan, Pieces
  <2>2. (\A x \in 1..n : Covers(merged_intervals, x) <=> \E k \in 1..i : Within(x, ops[order[k]]))'
    BY <1>3 DEF Covers, Spans, Within
  <2>3. (i = 0 <=> merged_intervals = <<>>)'
    BY <1>1
  <2>4. (i > 0 => merged_intervals[Len(merged_intervals)].left <= ops[order[i]].left)'
    OBVIOUS
  <2> QED
    BY <2>1, <2>2, <2>3, <2>4 DEF Merged
<1>5. ArrayInv'
  <2>1. InOrder'
    BY DEF InOrder
  <2>2. ArrayArgs'
    BY <1>1 DEF ArrayArgs
  <2> QED
    BY <1>4, <2>1, <2>2 DEF ArrayInv, IntervalsInv
<1>6. Applies(order[i + 1])
  <2> DEFINE k == order[i + 1]
  <2>1. /\ order \in [1..Len(ops) -> 1..Len(ops)] /\ k \in 1..Len(ops)
        /\ \A j \in 1..i : order[j] # k
    BY <1>1 DEF InOrder
  <2>2. Array!Pending = DOMAIN ops \ { order[j] : j \in 1..i }
    BY DEF Array!Pending
  <2>3. Array!Pending' = DOMAIN ops \ { order[j] : j \in 1..(i + 1) }
    BY DEF Array!Pending
  <2>4. { order[j] : j \in 1..(i + 1) } = { order[j] : j \in 1..i } \cup {k}
    BY <1>2
  <2>5. DOMAIN ops = 1..Len(ops)
    BY <1>1
  <2>6. k \in Array!Pending /\ Array!Pending' = Array!Pending \ {k}
    BY <2>1, <2>2, <2>3, <2>4, <2>5
  <2>7. Array!Array = [x \in 1..n |-> Array!ValueAt(x)] /\ Array!Array' = [x \in 1..n |-> Array!ValueAt(x)']
    BY DEF Array!Array
  <2>8. ASSUME NEW x \in 1..n PROVE Array!ValueAt(x)' = Array!ValueAt(x) + Adds(ops[k], x)
    <3>1. Array!ValueAt(x) \in Nat /\ Held(merged_intervals, x, Array!ValueAt(x))
      BY <1>1, ValueHeld DEF Merged
    <3>2. Held(merged_intervals', x, Array!ValueAt(x) + Adds(ops[k], x))
      BY <3>1
    <3> QED
      BY <1>1, <3>2, ValueHeldAfter
  <2>9. ASSUME NEW x \in 1..n
        PROVE  Array!ValueAt(x)' = IF x \in ops[k].left..ops[k].right THEN Array!Array[x] + ops[k].value
                                                                      ELSE Array!Array[x]
    <3>1. Array!Array[x] = Array!ValueAt(x) /\ Array!ValueAt(x) \in Nat
      BY <1>1, <2>7, ValueHeld DEF Merged
    <3> QED
      BY <2>8, <3>1 DEF Adds
  <2>10. DOMAIN Array!Array = 1..n
    BY <2>7
  <2>11. Array!Array' = [x \in DOMAIN Array!Array |->
                           IF x \in ops[k].left..ops[k].right THEN Array!Array[x] + ops[k].value
                                                              ELSE Array!Array[x]]
    <3> HIDE DEF k
    <3> QED
      BY <2>7, <2>9, <2>10
  <2> QED
    BY <2>6, <2>11 DEF Applies
<1> QED
  BY <1>5, <1>6

Moves == Stays \/ Reports \/ \E k : Applies(k)

LEMMA FirstIntervalTaken ==
    ASSUME ArrayInv, Array!FirstInterval PROVE ArrayInv' /\ Moves
<1>1. /\ pc = "merge" /\ i = 0 /\ i' = 1
      /\ merged_intervals' = <<Array!Multivalued(ops[order[1]])>>
      /\ UNCHANGED <<n, ops, use_array_update, order, result, pc>>
  BY DEF Array!FirstInterval, Array!args
<1>2. ArrayArgs /\ ~use_array_update /\ InOrder /\ Merged /\ result = {} /\ ops # <<>>
  BY <1>1 DEF ArrayInv, UpdateInv, IntervalsInv
<1>3. n \in Nat /\ ops \in Seq(Array!Intervals(n)) /\ Len(ops) \in Nat /\ Len(ops) # 0 /\ 1 \in 1..Len(ops)
  BY <1>2, EmptySeq DEF ArrayArgs
<1> DEFINE iv == ops[order[1]]
<1> DEFINE r == Array!Multivalued(iv)
<1>4. iv \in Array!Intervals(n)
  BY <1>2, <1>3, ElementOfSeq DEF InOrder
<1>5. /\ IsSpan(r, n) /\ r.left = iv.left /\ r.right = iv.right
      /\ \A x \in 1..n : HeldIn(r, x) = Adds(iv, x)
  BY <1>3, <1>4, MultivaluedSpan
<1>6. merged_intervals = <<>> /\ AreApart(merged_intervals, n) /\ Len(<<>>) = 0
  BY <1>1, <1>2 DEF Merged
<1>7. \A k \in 1..Len(merged_intervals) : merged_intervals[k].right < r.left
  BY <1>6
<1> DEFINE t == Append(merged_intervals, r)
<1>8. merged_intervals' = t
  BY <1>1, <1>6
<1> HIDE DEF r
<1>9. /\ AreApart(t, n) /\ Len(t) = Len(merged_intervals) + 1 /\ t[Len(merged_intervals) + 1] = r
      /\ \A x : Covers(t, x) <=> Covers(merged_intervals, x) \/ x \in r.left..r.right
      /\ \A x \in 1..n, v \in Nat : Held(merged_intervals, x, v) => Held(t, x, v + HeldIn(r, x))
  <2>1. n \in Nat /\ AreApart(merged_intervals, n) /\ IsSpan(r, n)
    BY <1>3, <1>5, <1>6
  <2> QED
    BY ONLY <1>7, <2>1, ApartAppend DEF t
<1>10. t # <<>> /\ t[Len(t)].left <= ops[order[0 + 1]].left
  <2>1. Len(t) = 1 /\ t[Len(t)] = r
    BY <1>6, <1>9
  <2>2. iv.left \in Int
    BY <1>4 DEF Array!Intervals
  <2>3. 0 + 1 = 1 /\ r.left = iv.left /\ Append(merged_intervals, r) # <<>>
    BY <1>5, <1>6
  <2> QED
    BY <2>1, <2>2, <2>3
<1>11. \A x \in 1..n : Covers(t, x) <=> Covers(merged_intervals, x) \/ Within(x, iv)
  BY <1>5, <1>9 DEF Within
<1>12. \A x \in 1..n, v \in Nat : Held(merged_intervals, x, v) => Held(t, x, v + Adds(iv, x))
  BY <1>5, <1>9
<1>13. i < Len(ops) /\ i' = i + 1 /\ i + 1 = 1
  BY <1>1, <1>3
<1> HIDE DEF t
<1>14. ArrayInv' /\ \E k : Applies(k)
  BY <1>1, <1>2, <1>8, <1>9, <1>10, <1>11, <1>12, <1>13, Taken
<1> QED
  BY <1>14 DEF Moves

LEMMA MergeIntervalTaken ==
    ASSUME ArrayInv, Array!MergeInterval PROVE ArrayInv' /\ Moves
<1> DEFINE iv == ops[order[i + 1]]
<1> DEFINE d == Len(merged_intervals)
<1> DEFINE last == merged_intervals[d]
<1>1. /\ pc = "merge" /\ i > 0 /\ i < Len(ops) /\ i' = i + 1
      /\ UNCHANGED <<n, ops, use_array_update, order, result>>
      /\ \/ /\ last.right >= iv.left /\ Array!Mergeable(last, iv)
            /\ merged_intervals' = Append(Array!Front(merged_intervals), Array!RightMerge(last, iv))
            /\ UNCHANGED pc
         \/ last.right >= iv.left /\ ~Array!Mergeable(last, iv)
         \/ /\ last.right < iv.left
            /\ merged_intervals' = Append(merged_intervals, Array!Multivalued(iv))
            /\ UNCHANGED pc
  BY DEF Array!MergeInterval, Array!args, Array!Last
<1>2. ArrayArgs /\ ~use_array_update /\ InOrder /\ Merged /\ result = {} /\ ops # <<>>
  BY <1>1 DEF ArrayInv, UpdateInv, IntervalsInv
<1>3. /\ n \in Nat /\ ops \in Seq(Array!Intervals(n)) /\ Len(ops) \in Nat /\ i \in Nat
      /\ i \in 1..Len(ops) /\ i + 1 \in 1..Len(ops) /\ i < i + 1
  BY <1>1, <1>2 DEF ArrayArgs
<1>4. iv \in Array!Intervals(n) /\ ops[order[i]] \in Array!Intervals(n)
  BY <1>2, <1>3, ElementOfSeq DEF InOrder
<1>5. AreApart(merged_intervals, n) /\ merged_intervals # <<>> /\ d \in Nat /\ d # 0 /\ d \in 1..d
  <2>1. AreApart(merged_intervals, n) /\ merged_intervals # <<>>
    BY <1>1, <1>2, <1>3 DEF Merged
  <2> QED
    BY <2>1, EmptySeq DEF AreApart
<1>6. last.left <= iv.left
  <2>1. last.left <= ops[order[i]].left
    BY <1>1, <1>2 DEF Merged
  <2>2. ops[order[i]].left <= iv.left
    BY <1>2, <1>3 DEF InOrder
  <2>3. last.left \in 1..n
    BY <1>3, <1>5, SpanFields
  <2>4. ops[order[i]].left \in Int /\ iv.left \in Int
    <3>1. \A w \in Array!Intervals(n) : w.left \in Int
      BY <1>3 DEF Array!Intervals
    <3> HIDE DEF iv
    <3> QED
      BY <1>4, <3>1
  <2>5. last.left \in Int
    BY <1>3, <2>3
  <2> HIDE DEF last, iv
  <2> QED
    BY <2>1, <2>2, <2>4, <2>5
<1>7. last.left \in 1..n /\ last.right \in 1..n /\ iv.left \in 1..n /\ IsSpan(last, n)
  <2>1. IsSpan(last, n)
    BY <1>5 DEF AreApart
  <2> QED
    BY <1>3, <1>4, <1>5, <2>1, SpanFields DEF Array!Intervals
<1>8. CASE last.right >= iv.left
  <2>1. iv.left \in last.left..last.right
    BY <1>3, <1>6, <1>7, <1>8
  <2>2. Array!Mergeable(last, iv)
    BY <2>1 DEF Array!Mergeable
  <2> DEFINE r == Array!RightMerge(last, iv)
  <2> DEFINE t == Append(Array!Front(merged_intervals), r)
  <2>3. merged_intervals' = t /\ UNCHANGED pc
    BY <1>1, <1>3, <1>7, <1>8, <2>2
  <2>4. /\ IsSpan(r, n) /\ r.left = last.left
        /\ r.right = IF last.right >= iv.right THEN last.right ELSE iv.right
        /\ \A x \in 1..n : HeldIn(r, x) = HeldIn(last, x) + Adds(iv, x)
    <3> HIDE DEF last, iv
    <3> QED
      BY <1>3, <1>4, <1>7, <2>1, RightMergeSpan
  <2> HIDE DEF r
  <2>5. /\ AreApart(t, n) /\ Len(t) = d /\ t[d] = r
        /\ \A x \in 1..n : Covers(t, x) <=> Covers(merged_intervals, x) \/ x \in iv.left..iv.right
        /\ \A x \in 1..n, v \in Nat : Held(merged_intervals, x, v) => Held(t, x, v + Adds(iv, x))
    <3>1. /\ r.left = merged_intervals[Len(merged_intervals)].left
          /\ iv.left \in merged_intervals[Len(merged_intervals)].left..merged_intervals[Len(merged_intervals)].right
          /\ r.right = IF merged_intervals[Len(merged_intervals)].right >= iv.right
                        THEN merged_intervals[Len(merged_intervals)].right ELSE iv.right
          /\ \A x \in 1..n : HeldIn(r, x) = HeldIn(merged_intervals[Len(merged_intervals)], x) + Adds(iv, x)
      BY <2>1, <2>4 DEF d
    <3> HIDE DEF iv
    <3> QED
      BY <1>3, <1>4, <1>5, <2>4, <3>1, ApartReplace DEF d
  <2> HIDE DEF t
  <2>6. t # <<>> /\ t[Len(t)].left <= iv.left
    BY <1>5, <1>6, <2>4, <2>5
  <2>7. \A x \in 1..n : Covers(t, x) <=> Covers(merged_intervals, x) \/ Within(x, iv)
    BY <2>5 DEF Within
  <2>8. ArrayInv' /\ \E k : Applies(k)
    BY <1>1, <1>2, <2>3, <2>5, <2>6, <2>7, Taken
  <2> QED
    BY <2>8 DEF Moves
<1>9. CASE last.right < iv.left
  <2> DEFINE r == Array!Multivalued(iv)
  <2> DEFINE t == Append(merged_intervals, r)
  <2>1. merged_intervals' = t /\ UNCHANGED pc
    BY <1>1, <1>3, <1>7, <1>9
  <2>2. /\ IsSpan(r, n) /\ r.left = iv.left /\ r.right = iv.right
        /\ \A x \in 1..n : HeldIn(r, x) = Adds(iv, x)
    BY <1>3, <1>4, MultivaluedSpan
  <2> HIDE DEF r
  <2>3. ASSUME NEW k \in 1..d PROVE merged_intervals[k].right < r.left
    <3>1. CASE k = d
      BY <1>9, <2>2, <3>1
    <3>2. CASE k < d
      <4>1. merged_intervals[k].right < last.left
        BY <1>5, <3>2 DEF AreApart
      <4>2. merged_intervals[k].right \in 1..n
        BY <1>3, <1>5, SpanFields
      <4> QED
        BY <1>3, <1>6, <1>7, <2>2, <4>1, <4>2
    <3> QED
      BY <1>5, <3>1, <3>2
  <2>4. /\ AreApart(t, n) /\ Len(t) = d + 1 /\ t[d + 1] = r
        /\ \A x : Covers(t, x) <=> Covers(merged_intervals, x) \/ x \in r.left..r.right
        /\ \A x \in 1..n, v \in Nat : Held(merged_intervals, x, v) => Held(t, x, v + HeldIn(r, x))
    BY <1>3, <1>5, <2>2, <2>3, ApartAppend
  <2> HIDE DEF t
  <2>5. t # <<>> /\ t[Len(t)].left <= iv.left
    BY <1>5, <1>7, <2>2, <2>4
  <2>6. \A x \in 1..n : Covers(t, x) <=> Covers(merged_intervals, x) \/ Within(x, iv)
    BY <2>2, <2>4 DEF Within
  <2>7. \A x \in 1..n, v \in Nat : Held(merged_intervals, x, v) => Held(t, x, v + Adds(iv, x))
    BY <2>2, <2>4
  <2>8. ArrayInv' /\ \E k : Applies(k)
    BY <1>1, <1>2, <2>1, <2>4, <2>5, <2>6, <2>7, Taken
  <2> QED
    BY <2>8 DEF Moves
<1> QED
  BY <1>3, <1>7, <1>8, <1>9

LEMMA SortStays ==
    ASSUME ArrayInv, Array!SortIntervals PROVE ArrayInv' /\ Moves
<1>1. /\ pc = "sort" /\ ops # <<>> /\ pc' = "merge"
      /\ UNCHANGED <<n, ops, use_array_update, values, i, merged_intervals, result>>
      /\ order' \in Array!SetToSeqs(DOMAIN ops)
      /\ \A j, k \in DOMAIN order' : j < k => ops[order'[j]].left <= ops[order'[k]].left
  BY DEF Array!SortIntervals, Array!args
<1>2. ArrayArgs /\ ~use_array_update /\ i = 0 /\ merged_intervals = <<>> /\ result = {}
  BY <1>1 DEF ArrayInv, UpdateInv, IntervalsInv
<1>3. n \in Nat /\ ops \in Seq(Array!Intervals(n)) /\ Len(ops) \in Nat /\ DOMAIN ops = 1..Len(ops)
  BY <1>2 DEF ArrayArgs
<1>4. /\ order' \in [1..Len(ops) -> 1..Len(ops)]
      /\ \A j, k \in 1..Len(ops) : j # k => order'[j] # order'[k]
      /\ { order'[k] : k \in 1..Len(ops) } = 1..Len(ops)
  BY <1>1, <1>3, OrderIsWhole
<1>5. InOrder'
  <2>1. DOMAIN order' = 1..Len(ops)
    BY <1>4
  <2> QED
    BY <1>1, <1>4, <2>1 DEF InOrder
<1>6. AreApart(<<>>, n) /\ Len(<<>>) = 0
  BY DEF AreApart
<1>7. Merged'
  <2>1. \A x : ~Covers(<<>>, x)
    BY <1>6 DEF Covers
  <2>2. /\ i' = 0 /\ merged_intervals' = <<>> /\ n' = n /\ 1..0 = {}
    BY <1>1, <1>2
  <2>3. AreApart(merged_intervals, n)'
    BY <1>6, <2>2 DEF AreApart, IsSpan, Pieces
  <2>4. (\A x \in 1..n : Covers(merged_intervals, x) <=> \E k \in 1..i : Within(x, ops[order[k]]))'
    BY <2>1, <2>2 DEF Covers, Spans
  <2>5. (i = 0 <=> merged_intervals = <<>>)' /\ ~(i' > 0)
    BY <2>2
  <2> QED
    BY <2>3, <2>4, <2>5 DEF Merged
<1>8. ArrayInv'
  <2>1. ArrayArgs'
    BY <1>1, <1>2 DEF ArrayArgs
  <2> QED
    BY <1>1, <1>2, <1>5, <1>7, <2>1 DEF ArrayInv, IntervalsInv
<1>9. Stays
  <2>1. Array!Pending' = Array!Pending
    BY <1>1, <1>2 DEF Array!Pending
  <2>2. Array!Array' = Array!Array
    BY <1>1, <1>2 DEF Array!Array, Array!ValueAt, Array!Covering
  <2> QED
    BY <1>1, <2>1, <2>2 DEF Stays
<1> QED
  BY <1>8, <1>9 DEF Moves

\* The largest value of any merged interval is the largest of the array.
LEMMA ReportsLargest ==
    ASSUME ArrayArgs, InOrder, Merged, i = Len(ops), ops # <<>>
    PROVE  LET all == UNION { Array!ToSet(merged_intervals[k].values) : k \in DOMAIN merged_intervals }
               array == { Array!ValueAt(x) : x \in 1..n }
           IN  Array!Max(all) = Promise!Max(array)
<1> DEFINE all == UNION { Array!ToSet(merged_intervals[k].values) : k \in DOMAIN merged_intervals }
<1> DEFINE array == { Array!ValueAt(x) : x \in 1..n }
<1> DEFINE d == Len(merged_intervals)
<1>1. /\ n \in Nat \ {0} /\ AreApart(merged_intervals, n) /\ merged_intervals \in Seq(Pieces(n))
      /\ DOMAIN merged_intervals = 1..d
  BY DEF Merged, ArrayArgs, AreApart
<1>2. \A x \in 1..n : Array!ValueAt(x) \in Nat /\ Held(merged_intervals, x, Array!ValueAt(x))
  BY <1>1, ValueHeld
<1>3. \A w \in all : \E k \in 1..d : \E j \in 1..Len(merged_intervals[k].values) : w = merged_intervals[k].values[j]
  <2> SUFFICES ASSUME NEW w \in all
               PROVE  \E k \in 1..d : \E j \in 1..Len(merged_intervals[k].values) : w = merged_intervals[k].values[j]
    OBVIOUS
  <2>1. PICK k \in 1..d : w \in Array!ToSet(merged_intervals[k].values)
    BY <1>1
  <2>2. merged_intervals[k].values \in Seq(Nat)
    BY <1>1, SpanFields
  <2>3. DOMAIN merged_intervals[k].values = 1..Len(merged_intervals[k].values)
    BY <2>2, LenProperties
  <2>4. w \in { merged_intervals[k].values[j] : j \in 1..Len(merged_intervals[k].values) }
    BY <2>1, <2>3 DEF Array!ToSet
  <2> QED
    BY <2>4
<1>4. \A k \in 1..d : \A j \in 1..Len(merged_intervals[k].values) : merged_intervals[k].values[j] \in all
  <2> SUFFICES ASSUME NEW k \in 1..d, NEW j \in 1..Len(merged_intervals[k].values)
               PROVE  merged_intervals[k].values[j] \in Array!ToSet(merged_intervals[k].values)
    BY <1>1
  <2>1. merged_intervals[k].values \in Seq(Nat)
    BY <1>1, SpanFields
  <2> QED
    BY <2>1 DEF Array!ToSet
<1>5. \A k \in 1..d, x \in 1..n :
          Spans(merged_intervals, k, x) =>
              /\ x - merged_intervals[k].left + 1 \in 1..Len(merged_intervals[k].values)
              /\ Array!ValueAt(x) = merged_intervals[k].values[x - merged_intervals[k].left + 1]
  <2> SUFFICES ASSUME NEW k \in 1..d, NEW x \in 1..n, Spans(merged_intervals, k, x)
               PROVE  /\ x - merged_intervals[k].left + 1 \in 1..Len(merged_intervals[k].values)
                      /\ Array!ValueAt(x) = merged_intervals[k].values[x - merged_intervals[k].left + 1]
    OBVIOUS
  <2>1. /\ merged_intervals[k].left \in 1..n /\ merged_intervals[k].right \in 1..n
        /\ Len(merged_intervals[k].values) = merged_intervals[k].right - merged_intervals[k].left + 1
    BY <1>1, SpanFields
  <2>2. x \in merged_intervals[k].left..merged_intervals[k].right
    BY DEF Spans
  <2>3. Array!ValueAt(x) = HeldIn(merged_intervals[k], x)
    BY <1>2 DEF Held
  <2>4. Array!ValueAt(x) = merged_intervals[k].values[x - merged_intervals[k].left + 1]
    BY <2>2, <2>3 DEF HeldIn
  <2>5. x - merged_intervals[k].left + 1 \in 1..(merged_intervals[k].right - merged_intervals[k].left + 1)
    BY <1>1, <2>1, <2>2
  <2> QED
    BY <2>1, <2>4, <2>5
<1>6. \A w \in all : w \in array
  <2> SUFFICES ASSUME NEW w \in all PROVE \E x \in 1..n : w = Array!ValueAt(x)
    OBVIOUS
  <2>1. PICK k \in 1..d : \E j \in 1..Len(merged_intervals[k].values) : w = merged_intervals[k].values[j]
    BY <1>3
  <2>2. PICK j \in 1..Len(merged_intervals[k].values) : w = merged_intervals[k].values[j]
    BY <2>1
  <2>3. /\ merged_intervals[k].left \in 1..n /\ merged_intervals[k].right \in 1..n
        /\ Len(merged_intervals[k].values) = merged_intervals[k].right - merged_intervals[k].left + 1
    BY <1>1, SpanFields
  <2> DEFINE x == merged_intervals[k].left + j - 1
  <2>4. /\ x \in 1..n /\ x \in merged_intervals[k].left..merged_intervals[k].right
        /\ x - merged_intervals[k].left + 1 = j
    <3>1. n \in Nat /\ j \in 1..(merged_intervals[k].right - merged_intervals[k].left + 1)
      BY <1>1, <2>3
    <3> QED
      BY ONLY <2>3, <3>1, Placed
  <2>5. Spans(merged_intervals, k, x)
    BY <2>4 DEF Spans
  <2> HIDE DEF x
  <2>6. Array!ValueAt(x) = merged_intervals[k].values[j]
    BY <1>5, <2>4, <2>5
  <2> QED
    BY <2>2, <2>4, <2>6
<1>7. \A x \in 1..n : Covers(merged_intervals, x) => Array!ValueAt(x) \in all
  BY <1>4, <1>5 DEF Covers
<1>8. \A x \in 1..n : ~Covers(merged_intervals, x) => Array!ValueAt(x) = 0
  BY <1>2 DEF Held
<1>9. \E w : w \in all
  <2>1. Len(ops) \in Nat /\ Len(ops) # 0
    BY EmptySeq DEF ArrayArgs
  <2>2. merged_intervals # <<>>
    BY <2>1 DEF Merged
  <2>3. d # 0 /\ d \in Nat
    BY <1>1, <2>2, EmptySeq
  <2>4. 1 \in 1..d
    BY <2>3
  <2>5. /\ merged_intervals[1].left \in 1..n /\ merged_intervals[1].left <= merged_intervals[1].right
        /\ merged_intervals[1].right \in 1..n
    BY <1>1, <2>4, SpanFields
  <2>6. Spans(merged_intervals, 1, merged_intervals[1].left)
    BY <1>1, <2>5 DEF Spans
  <2> QED
    BY <1>7, <2>4, <2>5, <2>6 DEF Covers
<1>10. PICK x \in 1..n : \A y \in 1..n : Array!ValueAt(y) <= Array!ValueAt(x)
  <2> DEFINE f == [y \in 1..n |-> Array!ValueAt(y)]
  <2>1. f \in [1..n -> Nat] /\ \A y \in 1..n : f[y] = Array!ValueAt(y)
    BY <1>2
  <2> HIDE DEF f
  <2>2. \E x \in 1..n : \A y \in 1..n : f[y] <= f[x]
    BY <1>1, <2>1, Greatest
  <2> QED
    BY <2>1, <2>2
<1> DEFINE top == Array!ValueAt(x)
<1>11. top \in array /\ array \subseteq Int /\ \A w \in array : w <= top
  BY <1>2, <1>10
<1>12. top \in all
  <2>1. CASE Covers(merged_intervals, x)
    BY <1>7, <2>1
  <2>2. CASE ~Covers(merged_intervals, x)
    <3>1. top = 0
      BY <1>8, <2>2
    <3>2. PICK w : w \in all
      BY <1>9
    <3>3. \E y \in 1..n : w = Array!ValueAt(y)
      BY <1>6, <3>2
    <3>4. w \in Nat /\ w <= top
      BY <1>2, <1>10, <3>3
    <3>5. w = 0
      BY <3>1, <3>4
    <3> QED
      BY <3>1, <3>2, <3>5
  <2> QED
    BY <2>1, <2>2
<1> HIDE DEF all, array, top
<1>13. all \subseteq Int /\ \A w \in all : w <= top
  BY <1>6, <1>11
<1>14. Array!Max(all) = top
  BY <1>12, <1>13, MaxIs
<1>15. Promise!Max(array) = top
  BY <1>11, MaxIs
<1> QED
  BY <1>14, <1>15 DEF all, array

LEMMA PrintReports ==
    ASSUME ArrayInv, Array!PrintMax \/ Array!PrintValue PROVE ArrayInv' /\ Reports
<1>1. CASE Array!PrintMax
  <2>1. /\ pc = "merge" /\ i = Len(ops) /\ pc' = "done"
        /\ UNCHANGED <<n, ops, use_array_update, values, order, i, merged_intervals>>
        /\ result' = { Array!Max(UNION { Array!ToSet(merged_intervals[k].values) : k \in DOMAIN merged_intervals }) }
    BY <1>1 DEF Array!PrintMax, Array!args
  <2>2. ArrayArgs /\ ~use_array_update /\ InOrder /\ Merged /\ result = {} /\ ops # <<>>
    BY <2>1 DEF ArrayInv, UpdateInv, IntervalsInv
  <2>3. ArrayInv'
    <3>1. InOrder'
      BY <2>1, <2>2 DEF InOrder
    <3>2. Merged'
      BY <2>1, <2>2 DEF Merged, AreApart, IsSpan, Pieces, Covers, Spans, Within
    <3>3. ArrayArgs'
      BY <2>1, <2>2 DEF ArrayArgs
    <3> QED
      BY <2>1, <2>2, <3>1, <3>2, <3>3 DEF ArrayInv, IntervalsInv
  <2>4. Array!Array = [x \in 1..n |-> Array!ValueAt(x)] /\ Array!Array' = Array!Array
    BY <2>1, <2>2 DEF Array!Array, Array!ValueAt, Array!Covering
  <2>5. Array!Pending = {} /\ Array!Pending' = Array!Pending
    <3>1. DOMAIN ops = 1..Len(ops)
      BY <2>2 DEF ArrayArgs
    <3> QED
      BY <2>1, <2>2, <3>1 DEF Array!Pending, InOrder
  <2>6. { Array!Array[x] : x \in DOMAIN Array!Array } = { Array!ValueAt(x) : x \in 1..n }
    BY <2>4
  <2>7. result' = { Promise!Max({ Array!Array[x] : x \in DOMAIN Array!Array }) }
    BY <2>1, <2>2, <2>6, ReportsLargest
  <2> QED
    BY <2>1, <2>2, <2>3, <2>4, <2>5, <2>7 DEF Reports
<1>2. CASE Array!PrintValue
  <2>1. /\ pc = "update" /\ i = Len(ops) /\ pc' = "done" /\ result' = { Array!Max(Array!ToSet(values)) }
        /\ UNCHANGED <<n, ops, use_array_update, values, order, i, merged_intervals>>
    BY <1>2 DEF Array!PrintValue, Array!args
  <2>2. ArrayArgs /\ use_array_update /\ UpdateInv /\ result = {}
    BY <2>1 DEF ArrayInv, UpdateInv, IntervalsInv
  <2>3. ArrayInv'
    BY <2>1, <2>2 DEF ArrayInv, UpdateInv, ArrayArgs
  <2>4. Array!Array = values /\ Array!Array' = values
    BY <2>1, <2>2 DEF Array!Array
  <2>5. Array!Pending = {} /\ Array!Pending' = Array!Pending
    <3>1. (i + 1)..Len(ops) = {}
      BY <2>1, <2>2 DEF ArrayArgs
    <3> QED
      BY <2>1, <2>2, <3>1 DEF Array!Pending
  <2>6. Array!Max(Array!ToSet(values)) = Promise!Max({ values[x] : x \in DOMAIN values })
    <3>1. Array!ToSet(values) = { values[x] : x \in DOMAIN values }
      BY DEF Array!ToSet
    <3> QED
      BY <3>1 DEF Array!Max, Promise!Max
  <2> QED
    BY <2>1, <2>2, <2>3, <2>4, <2>5, <2>6 DEF Reports
<1> QED
  BY <1>1, <1>2

LEMMA ArrayStep == ArrayInv /\ Array!Next => ArrayInv' /\ Moves
<1> SUFFICES ASSUME ArrayInv, Array!Next PROVE ArrayInv' /\ Moves
  OBVIOUS
<1>1. CASE Array!Transform
  BY <1>1, TransformApplies DEF Moves
<1>2. CASE Array!PrintMax \/ Array!PrintValue
  BY <1>2, PrintReports DEF Moves
<1>3. CASE Array!SortIntervals
  BY <1>3, SortStays
<1>4. CASE Array!NoIntervals \/ Array!Finished
  <2>1. /\ UNCHANGED <<n, ops, use_array_update, values, order, i, merged_intervals, result>>
        /\ pc' = pc \/ (pc = "sort" /\ pc' = "undefined")
    BY <1>4 DEF Array!NoIntervals, Array!Finished, Array!vars, Array!args
  <2>2. ArrayInv'
    <3>1. InOrder' = InOrder /\ ArrayArgs' = ArrayArgs
      BY <2>1 DEF InOrder, ArrayArgs
    <3>2. Merged' = Merged
      BY <2>1 DEF Merged, AreApart, IsSpan, Pieces, Covers, Spans, Within
    <3>3. UpdateInv => pc' = pc
      BY <2>1 DEF UpdateInv
    <3> QED
      BY <2>1, <3>1, <3>2, <3>3 DEF ArrayInv, UpdateInv, IntervalsInv
  <2>3. Stays
    BY <2>1 DEF Stays, Array!Pending, Array!Array, Array!ValueAt, Array!Covering
  <2> QED
    BY <2>2, <2>3 DEF Moves
<1>5. CASE Array!FirstInterval
  BY <1>5, FirstIntervalTaken
<1>6. CASE Array!MergeInterval
  BY <1>6, MergeIntervalTaken
<1> QED
  BY <1>1, <1>2, <1>3, <1>4, <1>5, <1>6 DEF Array!Next

LEMMA ArrayRight == ArrayInv => Array!MergedApart
<1> SUFFICES ASSUME ArrayInv PROVE Array!MergedApart
  OBVIOUS
<1>1. pc # "abort"
  BY DEF ArrayInv, UpdateInv, IntervalsInv
<1>2. ASSUME pc = "merge"
      PROVE  /\ \A k \in DOMAIN merged_intervals :
                  LET m == merged_intervals[k]
                  IN  /\ Len(m.values) = m.right - m.left + 1
                      /\ k < Len(merged_intervals) => m.right < merged_intervals[k + 1].left
             /\ \A x \in 1..n :
                  Array!Covering(x) # {} <=> \E k \in 1..i : x \in ops[order[k]].left..ops[order[k]].right
  <2>1. ArrayArgs /\ Merged
    BY <1>2 DEF ArrayInv, UpdateInv, IntervalsInv
  <2>2. AreApart(merged_intervals, n) /\ n \in Nat
    BY <2>1 DEF Merged, ArrayArgs
  <2>3. DOMAIN merged_intervals = 1..Len(merged_intervals) /\ Len(merged_intervals) \in Nat
    BY <2>2 DEF AreApart
  <2>4. ASSUME NEW k \in 1..Len(merged_intervals)
        PROVE  /\ Len(merged_intervals[k].values) = merged_intervals[k].right - merged_intervals[k].left + 1
               /\ k < Len(merged_intervals) => merged_intervals[k].right < merged_intervals[k + 1].left
    <3>1. Len(merged_intervals[k].values) = merged_intervals[k].right - merged_intervals[k].left + 1
      BY <2>2, SpanFields
    <3>2. k < Len(merged_intervals) => k + 1 \in 1..Len(merged_intervals) /\ k < k + 1
      BY <2>3
    <3> QED
      BY <2>2, <3>1, <3>2 DEF AreApart
  <2>5. ASSUME NEW x \in 1..n
        PROVE  Array!Covering(x) # {} <=> \E k \in 1..i : x \in ops[order[k]].left..ops[order[k]].right
    <3>1. Array!Covering(x) # {} <=> Covers(merged_intervals, x)
      BY <2>3 DEF Array!Covering, Covers, Spans
    <3> QED
      BY <2>1, <3>1 DEF Merged, Within
  <2> QED
    BY <2>3, <2>4, <2>5
<1> QED
  BY <1>1, <1>2 DEF Array!MergedApart

LEMMA ArrayStutter == ArrayInv /\ UNCHANGED Array!vars => ArrayInv' /\ Stays
<1> SUFFICES ASSUME ArrayInv, UNCHANGED Array!vars PROVE ArrayInv' /\ Stays
  OBVIOUS
<1>1. UNCHANGED <<n, ops, use_array_update, values, order, i, merged_intervals, result, pc>>
  BY DEF Array!vars, Array!args
<1>2. ArrayInv'
  <2>1. InOrder' = InOrder
    BY <1>1 DEF InOrder
  <2>2. Merged' = Merged
    <3>1. AreApart(merged_intervals, n)' = AreApart(merged_intervals, n)
      BY <1>1 DEF AreApart, IsSpan, Pieces
    <3>2. \A x : Covers(merged_intervals, x)' = Covers(merged_intervals, x)
      BY <1>1 DEF Covers, Spans
    <3> QED
      BY <1>1, <3>1, <3>2 DEF Merged, Within
  <2>3. ArrayArgs' = ArrayArgs /\ UpdateInv' = UpdateInv
    BY <1>1 DEF ArrayArgs, UpdateInv
  <2>4. IntervalsInv' = IntervalsInv
    BY <1>1, <2>1, <2>2 DEF IntervalsInv
  <2> QED
    BY <1>1, <2>3, <2>4 DEF ArrayInv
<1>3. Stays
  BY <1>1 DEF Stays, Array!Pending, Array!Array, Array!ValueAt, Array!Covering
<1> QED
  BY <1>2, <1>3

\* array_manipulation.cc: the merged intervals stay apart and in order, span what
\* the operations taken so far span, and right_merge never throws.
THEOREM ArrayIsRight == Spec => []MergedApart
<1> DEFINE Inv == program = "array" => ArrayInv
<1>1. Init => Inv
  BY OneStarts, ArrayInit
<1>2. Inv /\ [Next]_vars => Inv'
  BY OneRuns, ArrayStep, ArrayStutter
<1>3. Inv => MergedApart
  BY ArrayRight DEF MergedApart
<1> QED
  BY <1>1, <1>2, <1>3, PTL DEF Spec

LEMMA PromiseInit == Init => Promise!Init
<1> SUFFICES ASSUME Init PROVE Promise!Init
  OBVIOUS
<1>1. CASE program = "array"
  <2>1. Array!Init
    BY <1>1, OneStarts
  <2>2. ArrayInv
    BY <2>1, ArrayInit
  <2>3. /\ i = 0 /\ merged_intervals = <<>> /\ result = {} /\ use_array_update \in BOOLEAN
        /\ values = [x \in 1..(IF use_array_update THEN n ELSE 0) |-> 0]
    BY <2>1 DEF Array!Init
  <2>4. DOMAIN ops = 1..Len(ops) /\ Len(ops) \in Nat
    BY <2>2 DEF ArrayInv, ArrayArgs
  <2>5. Array!Pending = DOMAIN ops
    <3>1. (0 + 1)..Len(ops) = 1..Len(ops) /\ 1..0 = {}
      BY <2>4
    <3>2. use_array_update => Array!Pending = DOMAIN ops
      BY <2>3, <2>4, <3>1 DEF Array!Pending
    <3>3. ~use_array_update => Array!Pending = DOMAIN ops \ { order[k] : k \in 1..i }
      BY DEF Array!Pending
    <3> QED
      BY <2>3, <3>1, <3>2, <3>3
  <2>6. \A x : Array!ValueAt(x) = 0
    BY <2>3 DEF Array!ValueAt, Array!Covering
  <2>7. \A x \in DOMAIN Array!Array : Array!Array[x] = 0
    BY <2>3, <2>6 DEF Array!Array
  <2> QED
    BY <1>1, <2>3, <2>5, <2>7 DEF Promise!Init
<1>2. CASE program # "array"
  BY <1>2 DEF Promise!Init
<1> QED
  BY <1>1, <1>2

LEMMA PromiseStep ==
    ASSUME program = "array" => ArrayInv, [Next]_vars PROVE [Promise!Next]_(Promise!vars)
<1>1. CASE program = "array"
  <2>1. ArrayInv' /\ Moves
    <3>1. Array!Next \/ UNCHANGED Array!vars
      BY <1>1, OneRuns
    <3> QED
      BY <1>1, <3>1, ArrayStep, ArrayStutter DEF Moves
  <2>2. program' = "array"
    BY <1>1, OneRuns
  <2>3. CASE Stays
    BY <1>1, <2>2, <2>3 DEF Stays, Promise!vars
  <2>4. CASE Reports
    BY <1>1, <2>2, <2>4 DEF Reports, Promise!Next, Promise!Report
  <2>5. CASE \E k : Applies(k)
    BY <1>1, <2>2, <2>5 DEF Applies, Promise!Next, Promise!Apply
  <2> QED
    BY <2>1, <2>3, <2>4, <2>5 DEF Moves
<1>2. CASE program # "array"
  BY <1>2, OneRuns DEF Promise!vars
<1> QED
  BY <1>1, <1>2

\* array_manipulation.cc implements ArrayUpdates in either build: it begins with
\* an array of zeros, and each step applies one operation that is still pending
\* over its whole span, reports the largest element once none is, or changes
\* nothing that ArrayUpdates tells of.
THEOREM ArrayFollowsUpdates == Spec => Promise!Init /\ [][Promise!Next]_(Promise!vars)
<1> DEFINE Inv == program = "array" => ArrayInv
<1>1. Init => Inv /\ Promise!Init
  BY OneStarts, ArrayInit, PromiseInit
<1>2. Inv /\ [Next]_vars => Inv'
  BY OneRuns, ArrayStep, ArrayStutter
<1>3. Inv /\ [Next]_vars => [Promise!Next]_(Promise!vars)
  BY PromiseStep
<1> QED
  BY <1>1, <1>2, <1>3, PTL DEF Spec

=============================================================================
