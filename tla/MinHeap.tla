------------------------------ MODULE MinHeap ------------------------------
(***************************************************************************)
(* minheap-internal.h: the heap of the events that wait for a timeout.  A  *)
(* heap is a sequence; at[e] is the time of event e.  The first event of   *)
(* the heap is its top; the children of the one at i are at 2i and 2i + 1. *)
(***************************************************************************)
EXTENDS Integers, Sequences

IsHeap(heap, at) == \A i \in 2..Len(heap) : at[heap[i \div 2]] <= at[heap[i]]

\* e rises from the hole at i.
ShiftUp(heap, i, e, at) ==
  LET up[hole \in DOMAIN heap] == [h \in [DOMAIN heap -> DOMAIN at] |->
        LET parent == hole \div 2
        IN IF hole = 1 \/ at[h[parent]] <= at[e] THEN [h EXCEPT ![hole] = e]
           ELSE up[parent][[h EXCEPT ![hole] = h[parent]]]]
  IN up[i][heap]

\* e sinks from the hole at i, to the side of the smaller child.
ShiftDown(heap, i, e, at) ==
  LET down[hole \in DOMAIN heap] == [h \in [DOMAIN heap -> DOMAIN at] |->
        LET left == 2 * hole
            min_child == IF left = Len(heap) \/ at[h[left + 1]] > at[h[left]]
                         THEN left ELSE left + 1
        IN IF left > Len(heap) \/ at[e] <= at[h[min_child]]
           THEN [h EXCEPT ![hole] = e]
           ELSE down[min_child][[h EXCEPT ![hole] = h[min_child]]]]
  IN down[i][heap]

Push(heap, e, at) == ShiftUp(Append(heap, e), Len(heap) + 1, e, at)

\* The last event takes the place of e, and rises or sinks from there.
Erase(heap, e, at) ==
  LET i == CHOOSE k \in DOMAIN heap : heap[k] = e
      last == heap[Len(heap)]
      front == SubSeq(heap, 1, Len(heap) - 1)
  IN IF i = Len(heap) THEN front
     ELSE IF i > 1 /\ at[heap[i \div 2]] > at[last]
     THEN ShiftUp(front, i, last, at)
     ELSE ShiftDown(front, i, last, at)
=============================================================================
