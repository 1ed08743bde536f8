---------------------------- MODULE MCEventLoop ----------------------------
(* EventLoop with the two events of a connection, a third that reads once  *)
(* or is activated, and a deferred callback; and the heap on its own.      *)
EXTENDS EventLoop

MCFd == [e \in Events |-> "socket"]
MCWhat == [e \in Events |-> IF e = "write" THEN {"WRITE"} ELSE {"READ"}]
MCPri == [c \in Callbacks |-> IF c \in {"read", "once"} THEN 0 ELSE 1]
MCDelays == [e \in Events |-> IF e = "write" THEN {1} ELSE {}]
MCTogether == <<"write", "deferred">>

\* Every heap of up to six events, with one of three times each, stays a heap of
\* the right events when one of them is erased or another is pushed.
ASSUME HeapOperations ==
  \A n \in 0..6 : \A at \in [1..n + 1 -> 1..3] :
    LET heap == [i \in 1..n |-> i]
        Holds(h, S) == /\ ToSet(h) = S /\ Len(h) = Cardinality(S) /\ IsHeap(h, at)
    IN IsHeap(heap, at) =>
         /\ Holds(Push(heap, n + 1, at), 1..n + 1)
         /\ \A e \in 1..n : Holds(Erase(heap, e, at), (1..n) \ {e})
=============================================================================
