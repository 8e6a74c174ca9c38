------------------------------- MODULE BrSend -------------------------------
(***************************************************************************)
(* Sending on BR connections: ConnBrPostBytes on any number of posting     *)
(* threads, the send queue (an inner queue for pid 0 and a list of queues, *)
(* one for each other pid, three priorities each), and the send task that  *)
(* is started on demand and quits after a long silence.                    *)
(*                                                                         *)
(* Source: core/connection/br/src/softbus_conn_br_trans.c,                 *)
(*         softbus_conn_br_send_queue.c and                                *)
(*         core/connection/common/src/softbus_conn_common.c.               *)
(*                                                                         *)
(* A step is a critical section: of g_brQueueLock or g_startBrSendLPInfo.  *)
(* A producer that waits for room looks again at least every second        *)
(* (WaitQueueLength), so g_sendWaitCond only shortens its wait and is not  *)
(* modelled; g_sendCond, on which the task sleeps for ten minutes, is.     *)
(***************************************************************************)
EXTENDS Integers, Sequences, FiniteSets

CONSTANTS
    Posters,          \* threads that post
    PidOf,            \* PidOf[p]: the pid poster p posts for; 0 is the inner queue
    PriorityOf,       \* PriorityOf[p]: the priority of its messages
    ControlPosters,   \* the posters of MODULE_CONNECTION messages
    Loops,            \* identities of send tasks
    MaxPosts,         \* bound: messages per poster
    QueueLimit,       \* GetQueueLimit
    BufferLen,        \* WAIT_QUEUE_BUFFER_PERIOD_LEN
    MaxQuits,         \* bound: ten-minute silences
    StartMayFail      \* TRUE: ConnStartActionAsync may fail

HIGH == 1
MIDDLE == 2
LOW == 3
Priorities == HIGH..LOW
Pids == {PidOf[p] : p \in Posters} \ {0}

ASSUME SendAssumption ==
    /\ PidOf \in [Posters -> Nat]
    /\ PriorityOf \in [Posters -> Priorities]
    /\ ControlPosters \subseteq Posters
    /\ MaxPosts \in Nat /\ MaxQuits \in Nat
    /\ QueueLimit \in Nat /\ BufferLen \in Nat /\ QueueLimit > BufferLen
    /\ StartMayFail \in BOOLEAN

VARIABLES
    inner,          \* g_innerQueue, a sequence for each priority
    queues,         \* queues[pid]: the ConnectionQueue of a pid in the list
    list,           \* g_brQueueList, in order, by pid
    messagePosted,  \* g_startBrSendLPInfo.messagePosted
    running,        \* g_startBrSendLPInfo.sendTaskRunning
    failedStart,    \* the last attempt to start the task failed
    poster,         \* what each poster is doing
    posts,          \* messages each poster has begun to post
    loop,           \* what each send task is doing
    node,           \* sendNode of each send task
    finished,       \* messages reported to onPostByteFinshed, in order
    ready,          \* the connection is CONNECTED
    sock,           \* its socket is valid
    present,        \* it is in the manager's list
    quits           \* ten-minute silences so far

queueVars == <<inner, queues, list>>
connVars == <<ready, sock, present>>
vars == <<queueVars, messagePosted, running, failedStart, poster, posts, loop, node, finished,
          connVars, quits>>

\* The k-th message of a poster.
Message(p, k) == [by |-> p, num |-> k]
Messages == [by : Posters, num : Nat]
NoMessage == [by |-> 0, num |-> 0]

EmptyQueue == [i \in Priorities |-> <<>>]
IsEmpty(q) == \A i \in Priorities : q[i] = <<>>

\* The first non-empty priority up to least, as GetMsg looks for it.
Found(q, least) == \E i \in Priorities : i <= least /\ q[i] # <<>>
Best(q, least) ==
    CHOOSE i \in Priorities : /\ i <= least /\ q[i] # <<>>
                              /\ \A j \in Priorities : j < i => q[j] = <<>>
GetMsg(q, least) == Head(q[Best(q, least)])
\* Faulty variant: the message is read and left in the queue.
GotMsgKeeps(q, least) == q
GotMsg(q, least) == [q EXCEPT ![Best(q, least)] = Tail(@)]

Listed(pid) == \E i \in DOMAIN list : list[i] = pid

----------------------------------------------------------------------------
(* Posting.                                                                *)

\* The checks of ConnBrPostBytes; a message that fails them is not queued.
PostCheck(p) ==
    /\ poster[p] = "idle"
    /\ posts[p] < MaxPosts
    /\ posts' = [posts EXCEPT ![p] = @ + 1]
    /\ poster' = [poster EXCEPT ![p] =
           IF present /\ (ready \/ p \in ControlPosters) THEN "enqueue" ELSE "idle"]
    /\ UNCHANGED <<queueVars, messagePosted, running, failedStart, loop, node, finished,
                   connVars, quits>>

\* Faulty variant: g_sendCond is not broadcast.
BroadcastNone == UNCHANGED loop

\* The broadcast on g_sendCond wakes the task that sleeps in ConnBrDequeueBlock.
Broadcast == loop' = [l \in Loops |-> IF loop[l] = "asleep" THEN "dequeue" ELSE loop[l]]

\* Faulty variant: one place less, none in a queue of the least length.
HasRoomLess(q) == Len(q) + 1 < QueueLimit - BufferLen
HasRoom(q) == Len(q) < QueueLimit - BufferLen

\* ConnBrEnqueueNonBlock for the inner queue; it always broadcasts.
EnqueueInner(p) ==
    /\ poster[p] = "enqueue" /\ PidOf[p] = 0
    /\ HasRoom(inner[PriorityOf[p]])
    /\ inner' = [inner EXCEPT ![PriorityOf[p]] = Append(@, Message(p, posts[p]))]
    /\ Broadcast
    /\ poster' = [poster EXCEPT ![p] = "post"]
    /\ UNCHANGED <<queues, list, messagePosted, running, failedStart, posts, node, finished,
                   connVars, quits>>

\* ... for a pid without a queue: one is created at the end of the list.
EnqueueNew(p) ==
    LET pid == PidOf[p]
    IN  /\ poster[p] = "enqueue" /\ pid # 0
        /\ ~Listed(pid)
        /\ list' = Append(list, pid)
        /\ queues' = [queues EXCEPT ![pid] =
                         [EmptyQueue EXCEPT ![PriorityOf[p]] = <<Message(p, posts[p])>>]]
        /\ IF list = <<>> THEN Broadcast ELSE UNCHANGED loop
        /\ poster' = [poster EXCEPT ![p] = "post"]
        /\ UNCHANGED <<inner, messagePosted, running, failedStart, posts, node, finished,
                       connVars, quits>>

\* ... for a pid whose queue has room; the list was not empty, so no broadcast.
EnqueueOld(p) ==
    LET pid == PidOf[p]
    IN  /\ poster[p] \in {"enqueue", "full"} /\ pid # 0
        /\ Listed(pid)
        /\ HasRoom(queues[pid][PriorityOf[p]])
        /\ queues' = [queues EXCEPT ![pid][PriorityOf[p]] = Append(@, Message(p, posts[p]))]
        /\ poster' = [poster EXCEPT ![p] = "post"]
        /\ UNCHANGED <<inner, list, messagePosted, running, failedStart, posts, loop, node,
                       finished, connVars, quits>>

\* ... for a pid whose queue is full: WaitQueueLength, holding the queue's address.
WaitQueueLength(p) ==
    LET pid == PidOf[p]
    IN  /\ poster[p] = "enqueue" /\ pid # 0
        /\ Listed(pid)
        /\ ~HasRoom(queues[pid][PriorityOf[p]])
        /\ poster' = [poster EXCEPT ![p] = "full"]
        /\ UNCHANGED <<queueVars, messagePosted, running, failedStart, posts, loop, node,
                       finished, connVars, quits>>

\* The queue was destroyed during the wait: the message goes into freed memory,
\* and the post goes on as if it had been queued.
EnqueueDangling(p) ==
    /\ poster[p] = "dangling"
    /\ poster' = [poster EXCEPT ![p] = "post"]
    /\ UNCHANGED <<queueVars, messagePosted, running, failedStart, posts, loop, node, finished,
                   connVars, quits>>

\* The last part of ConnBrPostBytes: the task is told, or started.
Post(p) ==
    /\ poster[p] = "post"
    /\ poster' = [poster EXCEPT ![p] = "idle"]
    /\ messagePosted' = TRUE
    /\ \/ running /\ UNCHANGED <<running, failedStart, loop, node>>
       \/ /\ ~running
          /\ \E l \in Loops :
                /\ loop[l] = "none"
                /\ loop' = [loop EXCEPT ![l] = "dequeue"]
                /\ node' = [node EXCEPT ![l] = NoMessage]
          /\ running' = TRUE
          /\ failedStart' = FALSE
       \/ /\ ~running /\ StartMayFail
          /\ failedStart' = TRUE
          /\ UNCHANGED <<running, loop, node>>
    /\ UNCHANGED <<queueVars, posts, finished, connVars, quits>>

----------------------------------------------------------------------------
(* The send task.                                                          *)

Busy == {i \in DOMAIN list : ~IsEmpty(queues[list[i]])}

\* A producer that waits for room in a queue that goes away holds a stale address.
Orphan(pids) ==
    poster' = [p \in Posters |->
        IF poster[p] = "full" /\ PidOf[p] \in pids THEN "dangling" ELSE poster[p]]

\* ConnBrDequeueBlock finds a message in the inner queue: before the others down
\* to MIDDLE, after them when they are empty.
DequeueInner(l) ==
    LET least == IF Found(inner, MIDDLE) THEN MIDDLE ELSE LOW
    IN  /\ loop[l] = "dequeue"
        /\ Found(inner, MIDDLE) \/ (Busy = {} /\ Found(inner, LOW))
        /\ node' = [node EXCEPT ![l] = GetMsg(inner, least)]
        /\ inner' = [inner EXCEPT ![Best(inner, least)] = Tail(@)]
        /\ IF least = MIDDLE
           THEN UNCHANGED <<list, queues, poster>>
           ELSE /\ list' = <<>>
                /\ Orphan(Pids)
                /\ UNCHANGED queues
        /\ loop' = [loop EXCEPT ![l] = "dequeued"]
        /\ UNCHANGED <<messagePosted, running, failedStart, posts, finished, connVars, quits>>

\* ... in the first queue of the list that has one: it moves to the end of the
\* list, and the empty queues before it are destroyed.
Serve(l, i) ==
    LET pid == list[i]
    IN  /\ node' = [node EXCEPT ![l] = GetMsg(queues[pid], LOW)]
        /\ queues' = [queues EXCEPT ![pid] = GotMsg(@, LOW)]
        /\ list' = Append(SubSeq(list, i + 1, Len(list)), pid)
        /\ Orphan({list[j] : j \in 1..(i - 1)})
        /\ loop' = [loop EXCEPT ![l] = "dequeued"]
        /\ UNCHANGED <<inner, messagePosted, running, failedStart, posts, finished, connVars,
                       quits>>

DequeueList(l) ==
    /\ loop[l] = "dequeue"
    /\ ~Found(inner, MIDDLE)
    /\ \E i \in Busy : (\A j \in Busy : i <= j) /\ Serve(l, i)

\* ... nowhere: every queue of the list is destroyed and the task sleeps.
DequeueNone(l) ==
    /\ loop[l] = "dequeue"
    /\ IsEmpty(inner) /\ Busy = {}
    /\ list' = <<>>
    /\ Orphan(Pids)
    /\ loop' = [loop EXCEPT ![l] = "asleep"]
    /\ UNCHANGED <<inner, queues, messagePosted, running, failedStart, posts, node, finished,
                   connVars, quits>>

\* The wait on g_sendCond ends after BR_WAIT_TIME_SEC without a message.
DequeueTimeout(l) ==
    /\ loop[l] = "asleep"
    /\ quits < MaxQuits
    /\ quits' = quits + 1
    /\ loop' = [loop EXCEPT ![l] = "timedOut"]
    /\ UNCHANGED <<queueVars, messagePosted, running, failedStart, poster, posts, node,
                   finished, connVars>>

\* Faulty variant: messagePosted is not looked at.
QuitAlways(l) ==
    /\ loop[l] = "timedOut"
    /\ loop' = [loop EXCEPT ![l] = "none"]
    /\ running' = FALSE
    /\ messagePosted' = FALSE
    /\ UNCHANGED <<queueVars, failedStart, poster, posts, node, finished, connVars, quits>>

\* SendHandlerLoop after a timeout: quit, unless something was posted meanwhile.
QuitOrContinue(l) ==
    /\ loop[l] = "timedOut"
    /\ loop' = [loop EXCEPT ![l] = IF messagePosted THEN "dequeue" ELSE "none"]
    /\ running' = messagePosted
    /\ messagePosted' = FALSE
    /\ UNCHANGED <<queueVars, failedStart, poster, posts, node, finished, connVars, quits>>

\* SendHandlerLoop after a message was dequeued.
ClearPosted(l) ==
    /\ loop[l] = "dequeued"
    /\ messagePosted' = FALSE
    /\ loop' = [loop EXCEPT ![l] = "send"]
    /\ UNCHANGED <<queueVars, running, failedStart, poster, posts, node, finished, connVars,
                   quits>>

\* The rest of the loop's body: the message is sent, or fails because the
\* connection is gone, its socket is closed or the driver refuses; OnPostByteFinshed
\* is told, and disconnects after an error.
Send(l) ==
    /\ loop[l] = "send"
    /\ \E ok \in {TRUE, FALSE} :
          /\ ok => present /\ sock
          /\ finished' = Append(finished, node[l])
          /\ sock' = (sock /\ ok)
          /\ ready' = (ready /\ ok)
    /\ node' = [node EXCEPT ![l] = NoMessage]
    /\ loop' = [loop EXCEPT ![l] = "dequeue"]
    /\ UNCHANGED <<queueVars, messagePosted, running, failedStart, poster, posts, present,
                   quits>>

----------------------------------------------------------------------------
(* The connection, as the other components drive it.                       *)

Disconnect ==
    /\ ready
    /\ ready' = FALSE
    /\ sock' \in {sock, FALSE}
    /\ UNCHANGED <<queueVars, messagePosted, running, failedStart, poster, posts, loop, node,
                   finished, present, quits>>

Remove ==
    /\ present /\ ~ready /\ ~sock
    /\ present' = FALSE
    /\ UNCHANGED <<queueVars, messagePosted, running, failedStart, poster, posts, loop, node,
                   finished, ready, sock, quits>>

----------------------------------------------------------------------------
Init ==
    /\ inner = EmptyQueue
    /\ queues = [pid \in Pids |-> EmptyQueue]
    /\ list = <<>>
    /\ messagePosted = FALSE
    /\ running = FALSE
    /\ failedStart = FALSE
    /\ poster = [p \in Posters |-> "idle"]
    /\ posts = [p \in Posters |-> 0]
    /\ loop = [l \in Loops |-> "none"]
    /\ node = [l \in Loops |-> NoMessage]
    /\ finished = <<>>
    /\ ready = TRUE
    /\ sock = TRUE
    /\ present = TRUE
    /\ quits = 0

PosterStep(p) ==
    \/ PostCheck(p) \/ EnqueueInner(p) \/ EnqueueNew(p) \/ EnqueueOld(p)
    \/ WaitQueueLength(p) \/ EnqueueDangling(p) \/ Post(p)

LoopStep(l) ==
    \/ DequeueInner(l) \/ DequeueList(l) \/ DequeueNone(l)
    \/ QuitOrContinue(l) \/ ClearPosted(l) \/ Send(l)

Next ==
    \/ \E p \in Posters : PosterStep(p)
    \/ \E l \in Loops : LoopStep(l) \/ DequeueTimeout(l)
    \/ Disconnect \/ Remove

Spec == Init /\ [][Next]_vars

\* A thread inside ConnBrPostBytes goes on and the send task runs; nothing makes
\* a thread post, a silence last or a connection break.
Fairness ==
    /\ \A p \in Posters : WF_vars(PosterStep(p) /\ poster[p] # "idle")
    /\ \A l \in Loops : WF_vars(LoopStep(l))

FairSpec == Spec /\ Fairness
----------------------------------------------------------------------------
(* Properties.                                                             *)

TypeOK ==
    /\ inner \in [Priorities -> Seq(Messages)]
    /\ queues \in [Pids -> [Priorities -> Seq(Messages)]]
    /\ list \in Seq(Pids)
    /\ messagePosted \in BOOLEAN /\ running \in BOOLEAN /\ failedStart \in BOOLEAN
    /\ poster \in [Posters -> {"idle", "enqueue", "full", "dangling", "post"}]
    /\ posts \in [Posters -> 0..MaxPosts]
    /\ loop \in [Loops -> {"none", "dequeue", "asleep", "timedOut", "dequeued", "send"}]
    /\ node \in [Loops -> Messages \cup {NoMessage}]
    /\ finished \in Seq(Messages)
    /\ ready \in BOOLEAN /\ sock \in BOOLEAN /\ present \in BOOLEAN
    /\ quits \in 0..MaxQuits

Active(l) == loop[l] # "none"
NothingQueued == IsEmpty(inner) /\ \A i \in DOMAIN list : IsEmpty(queues[list[i]])

\* There is never a second send task, and sendTaskRunning tells whether there is
\* one: a task that quits and a thread that starts one never cross
\* (SendHandlerLoop and the end of ConnBrPostBytes).
AtMostOneTask ==
    /\ running <=> \E l \in Loops : Active(l)
    /\ \A k, l \in Loops : Active(k) /\ Active(l) => k = l

\* A task asleep on g_sendCond has nothing to send: ConnBrEnqueueNonBlock
\* broadcasts only when it found the list empty, and that is always enough.
NoLostWakeup == \A l \in Loops : loop[l] = "asleep" => NothingQueued

\* A message is never left in a queue without a send task, unless its poster has
\* yet to tell or start the task, or starting it failed: messagePosted closes the
\* gap between a task that gives up waiting and a thread that has just queued.
NoStranded ==
    ~running /\ ~NothingQueued => failedStart \/ \E p \in Posters : poster[p] = "post"

\* What one thread posts is reported to onPostByteFinshed once each, and in the
\* order it was posted, through the rotation of the list, full queues and
\* successive send tasks.
FinishedInOrder ==
    \A i, j \in DOMAIN finished :
        i < j /\ finished[i].by = finished[j].by => finished[i].num < finished[j].num

Queued(m) ==
    \/ \E i \in Priorities : \E j \in DOMAIN inner[i] : inner[i][j] = m
    \/ \E pid \in Pids, i \in Priorities :
          \E j \in DOMAIN queues[pid][i] : queues[pid][i][j] = m

\* Every queued message is in the end sent, or reported as failed, unless the send
\* task cannot be started; in particular a message queued while the task was
\* giving up (SendHandlerLoop and ConnBrPostBytes).
QueuedIsFinished ==
    \A p \in Posters : \A k \in 1..MaxPosts :
        Queued(Message(p, k)) ~>
            failedStart \/ \E i \in DOMAIN finished : finished[i] = Message(p, k)

\* ConnBrPostBytes always returns: no thread waits for room in a full queue for
\* ever, as long as the send task can be started.
PostReturns == \A p \in Posters : poster[p] # "idle" ~> poster[p] = "idle" \/ failedStart
=============================================================================
