----------------------------- MODULE LinkedList -----------------------------
(***************************************************************************)
(* class list_node of merge_sorted_linked_lists.cc, copied by              *)
(* node_from_tail.cc.  The heap is the sequence of the nodes made so far;  *)
(* a pointer is an index into it, or Null.                                 *)
(***************************************************************************)
EXTENDS Integers, SequencesExt, FiniteSets

Null == 0

Value(heap, p) == heap[p].value

Following(heap, p) == heap[p].next

\* make_unique at the end of the heap, linked from the last node if there is
\* one.  The body of create_list's loop and of merge_lists' insert_new_node.
Grown(heap, last, v) ==
    LET linked == IF last = Null THEN heap
                  ELSE [heap EXCEPT ![last].next = Len(heap) + 1]
    IN  Append(linked, [value |-> v, next |-> Null])

\* The head after that: the new node when the list was empty.
HeadAfter(heap, head) == IF head = Null THEN Len(heap) + 1 ELSE head

----------------------------------------------------------------------------
\* The node k links after p, or Null from the end of the list on; a chain that
\* does not end within the heap is cut at its length.
Walk(heap, p) ==
    LET step[k \in 0..Len(heap)] ==
            IF k = 0 THEN p ELSE IF step[k - 1] = Null THEN Null ELSE heap[step[k - 1]].next
    IN  step

\* Reference: the nodes that are reached from p, in order.
ChainFrom(heap, p) ==
    [k \in 1..Cardinality({ j \in 0..Len(heap) : Walk(heap, p)[j] # Null }) |-> Walk(heap, p)[k - 1]]

ValuesFrom(heap, p) ==
    [k \in DOMAIN ChainFrom(heap, p) |-> heap[ChainFrom(heap, p)[k]].value]
============================================================================
