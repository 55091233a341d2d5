------------------------------ MODULE MCQueue ------------------------------
(* One queue, of two items or a mutex, and three tasks of two priorities. *)
EXTENDS Queue

CONSTANTS t1, t2, t3

MCTasks        == {t1, t2, t3}
MCInitPriority == (t1 :> 1) @@ (t2 :> 1) @@ (t3 :> 2)
MCEventLists   == Queues \X {"send", "receive"}
MCUses         == [Queues -> Kinds]

MCLength == "data" :> 2 @@ "semaphore" :> 2 @@ "mutex" :> 1 @@ "recursive" :> 1

\* t3 has the highest priority.
MCCalls ==
  "data" :> {<<t1, "receive", portMAX_DELAY>>, <<t1, "sendToBack", 0>>, <<t3, "sendToFront", portMAX_DELAY>>}
  @@ "semaphore" :>
       {<<t1, "receive", 2>>, <<t1, "sendToBack", 2>>, <<t3, "receive", portMAX_DELAY>>,
        <<t3, "peek", portMAX_DELAY>>, <<t3, "sendToBack", 0>>}
  @@ "mutex" :> {<<t1, "receive", portMAX_DELAY>>, <<t2, "receive", 2>>, <<t3, "receive", 2>>, <<t3, "delay", 1>>}
  @@ "recursive" :>
       {<<t1, "receive", portMAX_DELAY>>, <<t2, "receive", 2>>, <<t3, "receive", 2>>,
        <<t3, "receive", 0>>, <<t2, "delay", 2>>, <<t3, "delay", 1>>}

\* main creates the tasks that use the queues.
Users(kinds) == {t \in MCTasks : \E x \in Queues : \E c \in MCCalls[kinds[x]] : c[1] = t}
MCBootOrder  == [kinds \in MCUses |-> SelectSeq(<<t1, t2, t3>>, LAMBDA t : t \in Users(kinds))]

\* The tasks that use the alternative API too.
MCAltUsers == "data" :> {t3} @@ "semaphore" :> {t1} @@ "mutex" :> {t2, t3} @@ "recursive" :> {}
=============================================================================
