------------------------------ MODULE QueueOps ------------------------------
(***************************************************************************)
(* What the operations of a BoundedQueue do, each in one step, and when    *)
(* they may return.  BoundedQueue (the module) shows that the mutex and    *)
(* the two condition variables of the code amount to this; the pipelines   *)
(* are built on it.                                                        *)
(***************************************************************************)
EXTENDS Naturals, Sequences

EmptyQueue == [items |-> <<>>, closed |-> FALSE]

\* A push returns when there is room, or refused when the queue is closed.
MayPush(q, capacity) == q.closed \/ Len(q.items) < capacity
Pushed(q, item) == IF q.closed THEN q ELSE [q EXCEPT !.items = Append(@, item)]

\* A pop returns an item, or nothing when the queue is closed and drained.
MayPop(q) == q.closed \/ q.items # <<>>
Popped(q) == IF q.items = <<>> THEN q ELSE [q EXCEPT !.items = Tail(@)]

\* What has been pushed stays to be popped.
Closed(q) == [q EXCEPT !.closed = TRUE]
=============================================================================
