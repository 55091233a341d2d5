--------------------------- MODULE BoundedQueues ---------------------------
(* What queue.c promises about items: each queue is a sequence of at most   *)
(* its capacity, items join at either end, and leave at the front.          *)
EXTENDS Naturals, Sequences

CONSTANTS Queues, Items

VARIABLES capacity, contents

Change(x, s) ==
  /\ contents' = [contents EXCEPT ![x] = s]
  /\ UNCHANGED capacity

QueuesInit ==
  /\ capacity \in [Queues -> Nat \ {0}]
  /\ \A x \in Queues : Len(contents[x]) <= capacity[x]

SendToBack(x, i)  == Len(contents[x]) < capacity[x] /\ Change(x, Append(contents[x], i))
SendToFront(x, i) == Len(contents[x]) < capacity[x] /\ Change(x, <<i>> \o contents[x])
Receive(x)        == contents[x] # <<>> /\ Change(x, Tail(contents[x]))

Next == \E x \in Queues : Receive(x) \/ \E i \in Items : SendToBack(x, i) \/ SendToFront(x, i)

Spec == QueuesInit /\ [][Next]_<<capacity, contents>>
=============================================================================
