---------------------------- MODULE BytesDelivery ----------------------------
(***************************************************************************)
(* softbus_conn_bytes_delivery.c over softbus_conn_fair_priority_queue.c:  *)
(* callers of ConnDeliver queue items, and a delivery task, started when   *)
(* it is needed and ending when it has been idle, hands them to a handler. *)
(*                                                                         *)
(* Two locks are involved.  What is done under queue->lock up to a wait or *)
(* the unlock is one step.  delivery->lock is held by the task across a    *)
(* wait, during which queue->lock is free: lock says who holds it.         *)
(***************************************************************************)
EXTENDS FairPriorityQueue

CONSTANTS
  Callers,          \* the threads that call ConnDeliver
  MaxItems,         \* bound: calls of ConnDeliver
  MaxStartFails,    \* bound: failures of ConnStartActionAsync
  MaxSpurious       \* bound: spurious wake-ups of a condition variable

VARIABLES
  queue,        \* delivery->queue
  running,      \* delivery->deliveryTaskRunning
  lock,         \* delivery->lock is held by the task
  task,         \* where DeliverTask is
  hand,         \* its local variable item
  pc, arg,      \* where each caller is, and the item it delivers
  made,         \* how many items were made
  owed,         \* history: how many items were accepted and not yet handed to the handler
  passed,       \* history: items of other processes served while a process waited
  startFails, startFailed, spurious,
  crashed       \* the process died of a null dereference

taskVars == <<running, lock, task, hand>>
callerVars == <<pc, arg, made>>
faults == <<startFails, startFailed, spurious>>
vars == <<queue, taskVars, callerVars, owed, passed, faults, crashed>>

Ids == Pids \cup {Inner}

Init ==
  /\ queue = EmptyQueue
  /\ running = FALSE /\ lock = FALSE
  /\ task = "none" /\ hand = NoItem
  /\ pc = [c \in Callers |-> "idle"]
  /\ arg = [c \in Callers |-> NoItem]
  /\ made = 0
  /\ owed = 0
  /\ passed = [id \in Pids |-> 0]
  /\ startFails = 0 /\ startFailed = FALSE /\ spurious = 0
  /\ crashed = FALSE

Goto(c, l) == pc' = [pc EXCEPT ![c] = l]

Return(c) == Goto(c, "idle") /\ arg' = [arg EXCEPT ![c] = NoItem]

-----------------------------------------------------------------------------
(* ConnDeliver *)

ConnDeliver(c) ==
  /\ ~crashed
  /\ pc[c] = "idle"
  /\ made < MaxItems
  /\ made' = made + 1
  /\ \E id \in Ids, priority \in Priority :
       arg' = [arg EXCEPT ![c] = [id |-> id, priority |-> priority]]
  /\ Goto(c, "enqueue")
  /\ UNCHANGED <<queue, taskVars, owed, passed, faults, crashed>>

\* The broadcast on dequeueCondition.
WakeTask ==
  task' = CASE task = "wait" -> "woken"
            [] task = "retryWait" -> "retryWoken"
            [] OTHER -> task

\* Faulty variant: the callers that wait for room are not woken.
WakeCallersNot == UNCHANGED pc

\* The broadcast on enqueueCondition.
WakeCallers == pc' = [c \in Callers |-> IF pc[c] = "wait" THEN "woken" ELSE pc[c]]

\* The loop of ConnEnqueue up to its unlock or its wait.  A caller that finds the ring full
\* after its wait gives up.
ConnEnqueue(c) ==
  LET fq == GetOrCreatePriorityQueue(queue, arg[c].id)
  IN  /\ ~crashed
      /\ pc[c] \in {"enqueue", "woken"}
      /\ IF ~IsFull(fq, arg[c])
           THEN /\ queue' = Enqueue(fq, arg[c])
                /\ owed' = owed + 1
                /\ WakeTask
                /\ Goto(c, "pull") /\ UNCHANGED arg
           ELSE /\ queue' = fq
                /\ IF pc[c] = "woken" THEN Return(c) ELSE Goto(c, "wait") /\ UNCHANGED arg
                /\ UNCHANGED <<owed, task>>
      /\ UNCHANGED <<running, lock, hand, made, passed, faults, crashed>>

\* waitTimeoutMs has passed: the item is destroyed and the call fails.
EnqueueTimeout(c) ==
  /\ ~crashed
  /\ pc[c] = "wait"
  /\ Return(c)
  /\ UNCHANGED <<queue, taskVars, made, owed, passed, faults, crashed>>

PullDeliverTaskIfNeed(c) ==
  /\ ~crashed
  /\ pc[c] = "pull"
  /\ ~lock
  /\ Return(c)
  /\ \/ /\ running
        /\ UNCHANGED <<running, task, startFails, startFailed>>
     \/ /\ ~running
        /\ running' = TRUE
        /\ task' = "dequeue"
        /\ startFailed' = FALSE
        /\ UNCHANGED startFails
     \/ /\ ~running
        /\ startFails < MaxStartFails
        /\ startFails' = startFails + 1
        /\ startFailed' = TRUE
        /\ UNCHANGED <<running, task>>
  /\ UNCHANGED <<queue, lock, hand, made, owed, passed, spurious, crashed>>

-----------------------------------------------------------------------------
(* DeliverTask *)

\* Who was passed over when this item was taken.
Served(item) ==
  [id \in Pids |->
     IF item.id = Inner THEN passed[id]
     ELSE IF id = item.id \/ Queued(queue, id) = 0 THEN 0
     ELSE passed[id] + 1]

\* One pass of ConnDequeue that finds an item.
Dequeued(item) ==
  /\ item # NoItem
  /\ queue' = DequeuePass(queue).queue
  /\ passed' = Served(item)
  /\ WakeCallers

\* ... and one that does not.
NothingDequeued ==
  /\ DequeuePass(queue).item = NoItem
  /\ queue' = DequeuePass(queue).queue
  /\ UNCHANGED <<passed, pc>>

\* ConnDequeue in DeliverTask, before and after its wait.
ConnDequeue ==
  /\ ~crashed
  /\ task \in {"dequeue", "woken"}
  /\ LET item == DequeuePass(queue).item
     IN  \/ Dequeued(item) /\ hand' = item /\ task' = "handle"
         \/ NothingDequeued /\ task' = (IF task = "woken" THEN "sleep" ELSE "wait") /\ UNCHANGED hand
  /\ UNCHANGED <<running, lock, arg, made, owed, faults, crashed>>

\* idleTimeoutMs has passed.
DequeueTimeout ==
  /\ ~crashed
  /\ task = "wait"
  /\ task' = "retry"
  /\ UNCHANGED <<queue, running, lock, hand, callerVars, owed, passed, faults, crashed>>

\* Faulty variant: the task says that it is over without looking at the queue again.
RetryDequeueNot ==
  /\ ~crashed
  /\ task = "retry" /\ ~lock
  /\ running' = FALSE
  /\ task' = "none"
  /\ UNCHANGED <<queue, lock, hand, callerVars, owed, passed, faults, crashed>>

\* RetryDequeueExclusiveIfNeed: ConnDequeue is given the address of the parameter out, so an
\* item it finds does not reach the local variable item of DeliverTask.
RetryDequeueExclusive ==
  /\ ~crashed
  /\ (task = "retry" /\ ~lock) \/ task = "retryWoken"
  /\ LET item == DequeuePass(queue).item
     IN  \/ Dequeued(item) /\ task' = "handle" /\ lock' = FALSE
         \/ /\ NothingDequeued
            /\ task' = IF task = "retry" THEN "retryWait" ELSE "sleep"
            /\ lock' = (task = "retry")
  /\ UNCHANGED <<running, hand, arg, made, owed, faults, crashed>>

\* The wait of no time ends: the task says that it is over before it lets go of the lock.
RetryTimeout ==
  /\ ~crashed
  /\ task = "retryWait"
  /\ running' = FALSE
  /\ lock' = FALSE
  /\ task' = "none"
  /\ UNCHANGED <<queue, hand, callerVars, owed, passed, faults, crashed>>

\* The handler is called, and the item is destroyed at the end of the loop body.
Handle ==
  /\ ~crashed
  /\ task = "handle"
  /\ IF hand = NoItem
       THEN crashed' = TRUE /\ UNCHANGED <<owed, task, hand>>
       ELSE /\ owed' = owed - 1
            /\ hand' = NoItem
            /\ task' = "dequeue"
            /\ UNCHANGED crashed
  /\ UNCHANGED <<queue, running, lock, callerVars, passed, faults>>

\* errorRetryWaitMs after a ConnDequeue that was woken for nothing.
SleepEnds ==
  /\ ~crashed
  /\ task = "sleep"
  /\ task' = "dequeue"
  /\ UNCHANGED <<queue, running, lock, hand, callerVars, owed, passed, faults, crashed>>

\* A wait on a condition variable may end for no reason.
SpuriousWakeup ==
  /\ ~crashed
  /\ spurious < MaxSpurious
  /\ spurious' = spurious + 1
  /\ \/ WakeTask /\ task' # task /\ UNCHANGED pc
     \/ (\E c \in Callers : pc[c] = "wait" /\ Goto(c, "woken")) /\ UNCHANGED task
  /\ UNCHANGED <<queue, running, lock, hand, arg, made, owed, passed, startFails,
                 startFailed, crashed>>

TaskStep ==
  \/ ConnDequeue \/ DequeueTimeout \/ RetryDequeueExclusive \/ RetryTimeout
  \/ Handle \/ SleepEnds

CallerStep(c) == ConnEnqueue(c) \/ PullDeliverTaskIfNeed(c)

Next ==
  \/ TaskStep
  \/ SpuriousWakeup
  \/ \E c \in Callers : ConnDeliver(c) \/ CallerStep(c) \/ EnqueueTimeout(c)

Spec == Init /\ [][Next]_vars

\* The threads are scheduled and the idle timeout is finite.  Nothing says that the wait of a
\* caller ever times out: waitTimeoutMs may be negative.
FairSpec ==
  /\ Spec
  /\ WF_vars(TaskStep)
  /\ \A c \in Callers : WF_vars(CallerStep(c))

-----------------------------------------------------------------------------
(* Properties *)

Pulling == \E c \in Callers : pc[c] = "pull"

\* No item is left behind without a task to deliver it: the idle task that gives up and the
\* caller that finds it running (lines 115 and 156) never miss one another.
NoStranded ==
  DequeuePass(queue).item # NoItem => running \/ Pulling \/ startFailed

\* No process is passed over by more items of other processes than there are others, as long
\* as it has something queued (DequeueFairly, lines 276 to 282).
FairShare == \A id \in Pids : passed[id] < Cardinality(Pids)

\* A caller blocked on a full ring returns even if it waits without a timeout, because the
\* task it depends on is always there or about to be.
DeliverReturns ==
  \A c \in Callers : pc[c] # "idle" ~> (pc[c] = "idle" \/ startFailed \/ crashed)

\* Every item that ConnDeliver accepted is queued, in the task's hands, or was handed to the
\* handler.
NothingDropped ==
  owed = QueuedInAll(queue) + (IF hand = NoItem THEN 0 ELSE 1)
=============================================================================
