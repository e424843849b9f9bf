---------------------------- MODULE ClosableQueue ----------------------------
(***************************************************************************)
(* What BoundedQueue promises the threads that share it: every call takes  *)
(* effect in one step, and a call that can return, and could go on         *)
(* returning, does.                                                        *)
(***************************************************************************)
EXTENDS QueueOps

CONSTANTS Producers,   \* threads that push
          Consumers,   \* threads that pop; any thread may close
          Items,
          CAPACITY,
          None         \* no call; no item

VARIABLES
  queue,
  call,      \* the call each thread is in, or None
  returned   \* what each thread's last call returned

vars == <<queue, call, returned>>

Threads == Producers \cup Consumers
Push(item) == [op |-> "push", item |-> item]
Pop == [op |-> "pop"]
Close == [op |-> "close"]

Init ==
  /\ queue = EmptyQueue
  /\ call = [t \in Threads |-> None]
  /\ returned = [t \in Threads |-> None]

Invoke(t, c) ==
  /\ call[t] = None
  /\ call' = [call EXCEPT ![t] = c]
  /\ UNCHANGED <<queue, returned>>

Return(t, result) ==
  /\ call' = [call EXCEPT ![t] = None]
  /\ returned' = [returned EXCEPT ![t] = result]

DoPush(t) ==
  \E item \in Items :
    /\ call[t] = Push(item)
    /\ MayPush(queue, CAPACITY)
    /\ queue' = Pushed(queue, item)
    /\ Return(t, ~ queue.closed)

DoPop(t) ==
  /\ call[t] = Pop
  /\ MayPop(queue)
  /\ queue' = Popped(queue)
  /\ Return(t, IF queue.items = <<>> THEN None ELSE Head(queue.items))

DoClose(t) ==
  /\ call[t] = Close
  /\ queue' = Closed(queue)
  /\ Return(t, None)

Do(t) == DoPush(t) \/ DoPop(t) \/ DoClose(t)

Next ==
  \/ \E t \in Producers, c \in {Push(item) : item \in Items} \cup {Close} : Invoke(t, c)
  \/ \E t \in Consumers, c \in {Pop, Close} : Invoke(t, c)
  \/ \E t \in Threads : Do(t)

Spec == Init /\ [][Next]_vars /\ \A t \in Threads : WF_vars(Do(t))
=============================================================================
