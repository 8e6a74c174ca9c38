-------------------------- MODULE FairPriorityQueue --------------------------
(***************************************************************************)
(* The data structure of softbus_conn_fair_priority_queue.c: a queue per   *)
(* process id and priority.  The items of the system itself (id 0, called  *)
(* Inner here) with HIGH or MIDDLE priority go first, then one item of     *)
(* each process in turn, then the LOW items of the system.                 *)
(*                                                                         *)
(* A queue record has the field inner, from priorities to sequences, and   *)
(* the field queues, the list of the processes' priority queues.  Each     *)
(* sequence is a ring queue of softbus_queue.h, the bounded FIFO queue of  *)
(* BoundedFifo with room for Capacity items.                               *)
(***************************************************************************)
EXTENDS Integers, Sequences, FiniteSets, FiniteSetsExt

CONSTANTS
  Pids,        \* the process ids other than 0
  Inner,       \* the id 0
  Capacity     \* what one ring holds: unitNum - 1

CONN_PRIORITY_HIGH == 0
CONN_PRIORITY_MIDDLE == 1
CONN_PRIORITY_LOW == 2

Priority == CONN_PRIORITY_HIGH..CONN_PRIORITY_LOW

\* What two items of one ring hold is not told apart.
NoItem == [id |-> Inner, priority |-> CONN_PRIORITY_LOW + 1]

CreatePriorityQueue == [priority \in Priority |-> <<>>]

EmptyQueue == [inner |-> CreatePriorityQueue, queues |-> <<>>]

\* The list with a queue for this process in it, appended if there was none.
GetOrCreatePriorityQueue(fq, id) ==
  IF id = Inner \/ \E i \in DOMAIN fq.queues : fq.queues[i].id = id
    THEN fq
    ELSE [fq EXCEPT !.queues = Append(@, [id |-> id, queue |-> CreatePriorityQueue])]

QueueOf(fq, id) ==
  IF id = Inner THEN fq.inner
                ELSE LET i == CHOOSE i \in DOMAIN fq.queues : fq.queues[i].id = id
                     IN  fq.queues[i].queue

IsFull(fq, item) == Len(QueueOf(fq, item.id)[item.priority]) >= Capacity

\* Enqueue of an item whose ring has room.
Enqueue(fq, item) ==
  IF item.id = Inner
    THEN [fq EXCEPT !.inner[item.priority] = Append(@, item)]
    ELSE LET i == CHOOSE i \in DOMAIN fq.queues : fq.queues[i].id = item.id
         IN  [fq EXCEPT !.queues[i].queue[item.priority] = Append(@, item)]

Waiting(pq, least) == {priority \in Priority : priority <= least /\ pq[priority] # <<>>}

\* Dequeue: the oldest item of the most urgent ring that has one.
Urgent(pq, least) == CHOOSE p \in Waiting(pq, least) : \A q \in Waiting(pq, least) : p <= q

First(pq, least) == Head(pq[Urgent(pq, least)])

Rest(pq, least) == [pq EXCEPT ![Urgent(pq, least)] = Tail(@)]

\* Faulty variant: the queue that was served stays first.
DequeueFairlyStays(fq) ==
  LET served == {i \in DOMAIN fq.queues : Waiting(fq.queues[i].queue, CONN_PRIORITY_LOW) # {}}
  IN  IF served = {}
        THEN [item |-> NoItem, queue |-> [fq EXCEPT !.queues = <<>>]]
        ELSE LET i == CHOOSE i \in served : \A j \in served : i <= j
             IN  [item |-> First(fq.queues[i].queue, CONN_PRIORITY_LOW),
                  queue |-> [fq EXCEPT !.queues[i].queue = Rest(@, CONN_PRIORITY_LOW)]]

\* DequeueFairly: the queues before the first one with an item are empty and destroyed, and
\* the one that was served goes to the end of the list.
DequeueFairly(fq) ==
  LET served == {i \in DOMAIN fq.queues : Waiting(fq.queues[i].queue, CONN_PRIORITY_LOW) # {}}
  IN  IF served = {}
        THEN [item |-> NoItem, queue |-> [fq EXCEPT !.queues = <<>>]]
        ELSE LET i == CHOOSE i \in served : \A j \in served : i <= j
                 pq == fq.queues[i]
             IN  [item |-> First(pq.queue, CONN_PRIORITY_LOW),
                  queue |-> [fq EXCEPT !.queues = Append(SubSeq(@, i + 1, Len(@)),
                               [pq EXCEPT !.queue = Rest(@, CONN_PRIORITY_LOW)])]]

DequeueInner(fq, least) ==
  [item |-> First(fq.inner, least), queue |-> [fq EXCEPT !.inner = Rest(@, least)]]

\* One pass of the loop of ConnDequeue: the item found, NoItem if there is none, and the
\* queue afterwards.
DequeuePass(fq) ==
  LET fair == DequeueFairly(fq)
  IN  IF Waiting(fq.inner, CONN_PRIORITY_MIDDLE) # {}
        THEN DequeueInner(fq, CONN_PRIORITY_MIDDLE)
      ELSE IF fair.item # NoItem
        THEN fair
      ELSE IF Waiting(fq.inner, CONN_PRIORITY_LOW) # {}
        THEN DequeueInner(fair.queue, CONN_PRIORITY_LOW)
      ELSE fair

\* How many items a process has in the queue.
Queued(fq, id) ==
  LET q == QueueOf(GetOrCreatePriorityQueue(fq, id), id)
  IN  Len(q[CONN_PRIORITY_HIGH]) + Len(q[CONN_PRIORITY_MIDDLE]) + Len(q[CONN_PRIORITY_LOW])

QueuedInAll(fq) == MapThenSumSet(LAMBDA id : Queued(fq, id), Pids \cup {Inner})
=============================================================================
