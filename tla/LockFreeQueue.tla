---------------------------- MODULE LockFreeQueue ----------------------------
(***************************************************************************)
(* The lock-free ring queue (core/common/include/softbus_queue.h and       *)
(* core/common/queue/softbus_queue.c) that every send queue is built on.   *)
(*                                                                         *)
(* One step is one access to shared memory.  The barriers RMB and WMB keep *)
(* those accesses in program order, which is the order of the steps.  The  *)
(* four cursors count without wrapping, so that a run can be compared with *)
(* its history; the code sees them only through Word, as the 32-bit words  *)
(* they are (Modulus is 2^32 there).                                       *)
(*                                                                         *)
(* A thread between its read of a head and its compare-and-swap compares a *)
(* word that may be old.  The swap would succeed by mistake if the head    *)
(* had gone once around in between.  The code relies on no thread sleeping *)
(* for 2^32 operations, and so does the model: Fresh.                      *)
(***************************************************************************)
EXTENDS Integers, Sequences, FiniteSets

CONSTANTS
  Producers, Consumers,
  Item,        \* the pointers that are queued
  NULL,        \* the content of a fresh ring
  Size,        \* unitNum, a power of two
  Modulus,     \* the number of values of a cursor, 2^32 in the code
  Start,       \* how many items went through the ring before, 0 after QueueInit
  MaxHead      \* bound: no enqueue starts once the producer head is here

ASSUME ThreadsAssumption ==
  /\ IsFiniteSet(Producers)
  /\ IsFiniteSet(Consumers)
  /\ Producers \cap Consumers = {}

\* QueueInit accepts only powers of two, so the size divides the number of words.
ASSUME SizeAssumption ==
  /\ Size \in Nat \ {0}
  /\ Modulus \in Nat
  /\ Modulus >= 2 * Size
  /\ Modulus % Size = 0
  /\ Start \in Nat
  /\ MaxHead \in Nat
  /\ NULL \notin Item

VARIABLES
  phead, ptail,   \* producer.head and producer.tail
  chead, ctail,   \* consumer.head and consumer.tail
  nodes,          \* the ring
  pc, kind,       \* where each thread is, and which of the two variants it runs
  h,              \* the thread's local copy of the head it wants to move
  t,              \* the thread's copy of the tail it is about to move
  item,           \* the node given to enqueue, or the one dequeue hands out
  log             \* history: the items published so far, in order

shared == <<phead, ptail, chead, ctail, nodes, log>>
vars == <<phead, ptail, chead, ctail, nodes, pc, kind, h, t, item, log>>

Threads == Producers \cup Consumers

mask == Size - 1

Word(x) == x % Modulus

Slot(i) == Word(i) % Size

Locations == {"idle", "head", "tail", "cas", "data", "spin", "load", "store"}

\* The ring CreateQueue returns, or the same ring when as many items have left it as entered.
\* Which items those were does not matter any more, and NULL stands for them.
Init ==
  /\ phead = Start /\ ptail = Start /\ chead = Start /\ ctail = Start
  /\ nodes = [i \in 0..mask |-> NULL]
  /\ pc = [x \in Threads |-> "idle"]
  /\ kind = [x \in Threads |-> "multi"]
  /\ h = [x \in Threads |-> 0]
  /\ t = [x \in Threads |-> 0]
  /\ item = [x \in Threads |-> NULL]
  /\ log = [i \in 1..Start |-> NULL]

Goto(x, l) == pc' = [pc EXCEPT ![x] = l]

\* The call returns and its local variables go out of scope.
Return(x) ==
  /\ Goto(x, "idle")
  /\ kind' = [kind EXCEPT ![x] = "multi"]
  /\ h' = [h EXCEPT ![x] = 0]
  /\ t' = [t EXCEPT ![x] = 0]
  /\ item' = [item EXCEPT ![x] = NULL]

\* The thread-unsafe variants are called with the other threads of that side kept out,
\* as softbus_conn_fair_priority_queue.c and softbus_conn_common.c do with their mutex.
MayRun(x, k, side) ==
  \A y \in side \ {x} : pc[y] # "idle" => k = "multi" /\ kind[y] = "multi"

\* No thread of this side that holds a copy of the head has slept once around.
Fresh(head, side) ==
  \A y \in side : pc[y] \in {"tail", "cas"} => head - h[y] < Modulus - mask

-----------------------------------------------------------------------------
(* QueueMultiProducerEnqueue and QueueSingleProducerEnqueue *)

CallEnqueue(p) ==
  /\ pc[p] = "idle"
  /\ phead < MaxHead
  /\ \E k \in {"multi", "single"} :
       /\ MayRun(p, k, Producers)
       /\ kind' = [kind EXCEPT ![p] = k]
  /\ \E v \in Item : item' = [item EXCEPT ![p] = v]
  /\ Goto(p, "head")
  /\ UNCHANGED <<shared, h, t>>

ReadProducerHead(p) ==
  /\ pc[p] = "head"
  /\ h' = [h EXCEPT ![p] = phead]
  /\ Goto(p, "tail")
  /\ UNCHANGED <<shared, kind, t, item>>

\* Faulty variant: the whole ring counted as room, though a full ring would look empty.
FreeSlotsWhole(head, tail) == (Size + Word(tail) - Word(head)) % Modulus

\* availableCount = (mask + consumerTail) - producerHead, in 32 bits.
FreeSlots(head, tail) == (mask + Word(tail) - Word(head)) % Modulus

ReadConsumerTail(p) ==
  /\ pc[p] = "tail"
  /\ IF FreeSlots(h[p], ctail) < 1
       THEN Return(p)
       ELSE Goto(p, "cas") /\ UNCHANGED <<kind, h, t, item>>
  /\ UNCHANGED shared

MoveProducerHead(p) ==
  /\ pc[p] = "cas"
  /\ IF kind[p] = "single" \/ Word(phead) = Word(h[p])
       THEN /\ phead' = (IF kind[p] = "single" THEN h[p] ELSE phead) + 1
            /\ Fresh(phead', Producers \ {p})
            /\ Goto(p, "data")
       ELSE /\ Goto(p, "head")
            /\ UNCHANGED phead
  /\ UNCHANGED <<ptail, chead, ctail, nodes, kind, h, t, item, log>>

WriteNode(p) ==
  /\ pc[p] = "data"
  /\ nodes' = [nodes EXCEPT ![Slot(h[p])] = item[p]]
  /\ IF kind[p] = "single"
       THEN t' = [t EXCEPT ![p] = h[p]] /\ Goto(p, "store")
       ELSE Goto(p, "spin") /\ UNCHANGED t
  /\ UNCHANGED <<phead, ptail, chead, ctail, kind, h, item, log>>

\* Waiting for other producers to complete enqueuing: the loop leaves once it is its turn.
AwaitProducerTail(p) ==
  /\ pc[p] = "spin"
  /\ Word(ptail) = Word(h[p])
  /\ Goto(p, "load")
  /\ UNCHANGED <<shared, kind, h, t, item>>

LoadProducerTail(p) ==
  /\ pc[p] = "load"
  /\ t' = [t EXCEPT ![p] = ptail]
  /\ Goto(p, "store")
  /\ UNCHANGED <<shared, kind, h, item>>

StoreProducerTail(p) ==
  /\ pc[p] = "store"
  /\ ptail' = t[p] + 1
  /\ log' = Append(log, item[p])
  /\ Return(p)
  /\ UNCHANGED <<phead, chead, ctail, nodes>>

Produce(p) ==
  \/ CallEnqueue(p) \/ ReadProducerHead(p) \/ ReadConsumerTail(p)
  \/ MoveProducerHead(p) \/ WriteNode(p) \/ AwaitProducerTail(p)
  \/ LoadProducerTail(p) \/ StoreProducerTail(p)

-----------------------------------------------------------------------------
(* QueueMultiConsumerDequeue and QueueSingleConsumerDequeue *)

CallDequeue(c) ==
  /\ pc[c] = "idle"
  /\ \E k \in {"multi", "single"} :
       /\ MayRun(c, k, Consumers)
       /\ kind' = [kind EXCEPT ![c] = k]
  /\ Goto(c, "head")
  /\ UNCHANGED <<shared, h, t, item>>

ReadConsumerHead(c) ==
  /\ pc[c] = "head"
  /\ h' = [h EXCEPT ![c] = chead]
  /\ Goto(c, "tail")
  /\ UNCHANGED <<shared, kind, t, item>>

\* availableCount = producerTail - consumerHead, in 32 bits.
UsedSlots(head, tail) == (Word(tail) - Word(head)) % Modulus

ReadProducerTail(c) ==
  /\ pc[c] = "tail"
  /\ IF UsedSlots(h[c], ptail) < 1
       THEN Return(c)
       ELSE Goto(c, "cas") /\ UNCHANGED <<kind, h, t, item>>
  /\ UNCHANGED shared

MoveConsumerHead(c) ==
  /\ pc[c] = "cas"
  /\ IF kind[c] = "single" \/ Word(chead) = Word(h[c])
       THEN /\ chead' = (IF kind[c] = "single" THEN h[c] ELSE chead) + 1
            /\ Fresh(chead', Consumers \ {c})
            /\ Goto(c, "data")
       ELSE /\ Goto(c, "head")
            /\ UNCHANGED chead
  /\ UNCHANGED <<phead, ptail, ctail, nodes, kind, h, t, item, log>>

ReadNode(c) ==
  /\ pc[c] = "data"
  /\ item' = [item EXCEPT ![c] = nodes[Slot(h[c])]]
  /\ IF kind[c] = "single"
       THEN t' = [t EXCEPT ![c] = h[c]] /\ Goto(c, "store")
       ELSE Goto(c, "spin") /\ UNCHANGED t
  /\ UNCHANGED <<shared, kind, h>>

\* Faulty variant: the tail is moved without waiting for the dequeues before.
AwaitConsumerTailNot(c) ==
  /\ pc[c] = "spin"
  /\ Goto(c, "load")
  /\ UNCHANGED <<shared, kind, h, t, item>>

AwaitConsumerTail(c) ==
  /\ pc[c] = "spin"
  /\ Word(ctail) = Word(h[c])
  /\ Goto(c, "load")
  /\ UNCHANGED <<shared, kind, h, t, item>>

LoadConsumerTail(c) ==
  /\ pc[c] = "load"
  /\ t' = [t EXCEPT ![c] = ctail]
  /\ Goto(c, "store")
  /\ UNCHANGED <<shared, kind, h, item>>

StoreConsumerTail(c) ==
  /\ pc[c] = "store"
  /\ ctail' = t[c] + 1
  /\ Return(c)
  /\ UNCHANGED <<phead, ptail, chead, nodes, log>>

Consume(c) ==
  \/ CallDequeue(c) \/ ReadConsumerHead(c) \/ ReadProducerTail(c)
  \/ MoveConsumerHead(c) \/ ReadNode(c) \/ AwaitConsumerTail(c)
  \/ LoadConsumerTail(c) \/ StoreConsumerTail(c)

Next == (\E p \in Producers : Produce(p)) \/ (\E c \in Consumers : Consume(c))

Spec == Init /\ [][Next]_vars

-----------------------------------------------------------------------------
(* Properties *)

Owning == {"data", "spin", "load", "store"}

\* The threads of one side that have moved the head and not yet the tail.
Owners(side) == {x \in side : pc[x] \in Owning}

\* A thread that spins for its turn to move a tail (QueueMultiProducerEnqueue line 196,
\* QueueMultiConsumerDequeue line 315) waits for a call that is under way and owns exactly
\* the position the tail is at, so the spinning threads never wait for one another.
WaitHasOwner ==
  /\ \A p \in Producers : pc[p] = "spin" => \E q \in Owners(Producers) : h[q] = ptail
  /\ \A c \in Consumers : pc[c] = "spin" => \E d \in Owners(Consumers) : h[d] = ctail

Phase(x) ==
  CASE pc[x] = "idle" -> "idle"
    [] x \in Consumers /\ pc[x] \in Owning -> "took"
    [] OTHER -> "called"

\* A consumer's answer is decided when it moves the head, before it reads the node.
Answer(x) ==
  IF x \in Consumers /\ pc[x] = "data" THEN log[h[x] + 1] ELSE item[x]

Fifo == INSTANCE BoundedFifo WITH
  Capacity <- mask,
  taken <- chead,
  st <- [x \in Threads |-> Phase(x)],
  item <- [x \in Threads |-> Answer(x)]

\* The ring queue is linearizable: under any interleaving of its callers' memory accesses
\* every enqueue and dequeue behaves as one atomic step of a bounded FIFO queue.  No item
\* is lost, handed out twice, overwritten or read before it is written; items leave in the
\* order they were published; EMPTY is answered only when the queue is empty, and FULL only
\* when the items and the calls that are under way fill it between them.
Linearizable == Fifo!Spec
=============================================================================
