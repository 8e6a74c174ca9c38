------------------------- MODULE BrConnectionProofs -------------------------
(***************************************************************************)
(* Three parts of a BR connection.                                         *)
(*                                                                         *)
(* Sending: there is at most one send task, it never sleeps on a message,  *)
(* no message is left behind when it quits, and each thread's messages are *)
(* reported in order: for any number of posting threads and pids.          *)
(*                                                                         *)
(* The acknowledgement window, which the same task keeps: it stays in its  *)
(* range, g_pendingList holds the one packet that is awaited, and the task *)
(* is never more than a window ahead of it: for every choice of the        *)
(* window's constants.                                                     *)
(*                                                                         *)
(* The server: no server socket leaks and none has two owners, however     *)
(* often the server is started and stopped and whatever number the driver  *)
(* gives a new socket.                                                     *)
(***************************************************************************)
EXTENDS BrSend, BrAckWindow, BrServer, TLAPS

\* A task that holds a message holds one that was posted.
NodeOK == \A l \in Loops : loop[l] \in {"dequeued", "send"} => node[l] \in Messages

\* A process other than 0 has a queue of its own.
LEMMA PidsAreNumbered == \A p \in Posters : PidOf[p] # 0 => PidOf[p] \in Pids
BY DEF Pids

\* What GetMsg takes from a queue that has something, and what it leaves.
LEMMA GetMsgType ==
    ASSUME NEW q \in [Priorities -> Seq(Messages)], NEW least \in Priorities,
           Found(q, least)
    PROVE  /\ Best(q, least) \in Priorities
           /\ q[Best(q, least)] # <<>>
           /\ GetMsg(q, least) \in Messages
           /\ Tail(q[Best(q, least)]) \in Seq(Messages)
           /\ GotMsg(q, least) \in [Priorities -> Seq(Messages)]
<1>1. \E i \in Priorities : /\ i <= least /\ q[i] # <<>>
                            /\ \A j \in Priorities : j < i => q[j] = <<>>
  <2>1. Priorities = {1, 2, 3}
    BY DEF Priorities, HIGH, LOW
  <2>2. PICK i \in Priorities : i <= least /\ q[i] # <<>>
    BY DEF Found
  <2>3. CASE q[1] # <<>>
    BY <2>1, <2>2, <2>3
  <2>4. CASE q[1] = <<>> /\ q[2] # <<>>
    BY <2>1, <2>2, <2>4
  <2>5. CASE q[1] = <<>> /\ q[2] = <<>>
    BY <2>1, <2>2, <2>5
  <2> QED
    BY <2>3, <2>4, <2>5
<1>2. Best(q, least) \in Priorities /\ q[Best(q, least)] # <<>>
  BY <1>1 DEF Best
<1> QED
  BY <1>2 DEF GetMsg, GotMsg

----------------------------------------------------------------------------
(* Type correctness.                                                       *)

TypeInv == TypeOK /\ NodeOK

\* The type of an empty queue.
LEMMA EmptyQueueType == EmptyQueue \in [Priorities -> Seq(Messages)]
<1>1. <<>> \in Seq(Messages)
  OBVIOUS
<1> QED
  BY <1>1 DEF EmptyQueue

\* The types hold at the start.
LEMMA InitTypeInv == Init => TypeInv
<1> SUFFICES ASSUME Init
             PROVE  TypeInv
  OBVIOUS
<1>1. /\ inner \in [Priorities -> Seq(Messages)]
      /\ queues \in [Pids -> [Priorities -> Seq(Messages)]]
      /\ list \in Seq(Pids) /\ finished \in Seq(Messages)
  BY EmptyQueueType DEF Init
<1>2. /\ posts \in [Posters -> 0..MaxPosts] /\ quits \in 0..MaxQuits
      /\ loop \in [Loops -> {"none", "dequeue", "asleep", "timedOut", "dequeued", "send"}]
      /\ poster \in [Posters -> {"idle", "enqueue", "full", "dangling", "post"}]
      /\ node \in [Loops -> Messages \cup {NoMessage}]
  BY SendAssumption DEF Init
<1>3. NodeOK
  BY DEF Init, NodeOK
<1> QED
  BY <1>1, <1>2, <1>3, Zenon DEF Init, TypeInv, TypeOK

\* What every poster's message is made of.
LEMMA MessageType ==
    ASSUME TypeInv, NEW p \in Posters
    PROVE  /\ Message(p, posts[p]) \in Messages
           /\ PriorityOf[p] \in Priorities
BY SendAssumption DEF TypeInv, TypeOK, Message, Messages

\* The posting threads.
LEMMA PosterTypeInv ==
    ASSUME TypeInv, NEW p \in Posters, PosterStep(p)
    PROVE  TypeInv'
<1> USE SendAssumption DEF TypeInv
<1> DEFINE m == Message(p, posts[p])
<1>1. m \in Messages /\ PriorityOf[p] \in Priorities
  BY MessageType
<1> HIDE DEF m
<1>2. CASE PostCheck(p)
  BY <1>2 DEF TypeOK, NodeOK, PostCheck, queueVars, connVars
<1>3. CASE EnqueueInner(p)
  <2>1. inner' \in [Priorities -> Seq(Messages)]
    BY <1>1, <1>3 DEF EnqueueInner, TypeOK, m
  <2>2. loop' \in [Loops -> {"none", "dequeue", "asleep", "timedOut", "dequeued", "send"}]
        /\ \A l \in Loops : loop'[l] \in {"dequeued", "send"} => loop'[l] = loop[l]
    BY <1>3 DEF EnqueueInner, Broadcast, TypeOK
  <2> QED
    BY <1>3, <2>1, <2>2 DEF EnqueueInner, TypeOK, NodeOK, connVars
<1>4. CASE EnqueueNew(p)
  <2>1. PidOf[p] \in Pids
    BY <1>4, PidsAreNumbered DEF EnqueueNew
  <2>2. [EmptyQueue EXCEPT ![PriorityOf[p]] = <<m>>] \in [Priorities -> Seq(Messages)]
    <3>1. <<m>> \in Seq(Messages)
      BY <1>1
    <3> QED
      BY <1>1, <3>1, EmptyQueueType
  <2>3. queues' \in [Pids -> [Priorities -> Seq(Messages)]] /\ list' \in Seq(Pids)
    BY <1>4, <2>1, <2>2 DEF EnqueueNew, TypeOK, m
  <2>4. loop' \in [Loops -> {"none", "dequeue", "asleep", "timedOut", "dequeued", "send"}]
        /\ \A l \in Loops : loop'[l] \in {"dequeued", "send"} => loop'[l] = loop[l]
    BY <1>4 DEF EnqueueNew, Broadcast, TypeOK
  <2> QED
    BY <1>4, <2>3, <2>4, SMTT(60) DEF EnqueueNew, TypeOK, NodeOK, connVars
<1>5. CASE EnqueueOld(p)
  <2>1. PidOf[p] \in Pids
    BY <1>5, PidsAreNumbered DEF EnqueueOld
  <2>2. queues' \in [Pids -> [Priorities -> Seq(Messages)]]
    BY <1>1, <1>5, <2>1, SMTT(60) DEF EnqueueOld, TypeOK, m
  <2> QED
    BY <1>5, <2>2, SMTT(60) DEF EnqueueOld, TypeOK, NodeOK, connVars
<1>6. CASE WaitQueueLength(p)
  BY <1>6 DEF TypeOK, NodeOK, WaitQueueLength, queueVars, connVars
<1>7. CASE EnqueueDangling(p)
  BY <1>7 DEF TypeOK, NodeOK, EnqueueDangling, queueVars, connVars
<1>8. CASE Post(p)
  <2>1. /\ loop' \in [Loops -> {"none", "dequeue", "asleep", "timedOut", "dequeued", "send"}]
        /\ node' \in [Loops -> Messages \cup {NoMessage}]
        /\ NodeOK'
    BY <1>8, Zenon DEF Post, TypeOK, NodeOK
  <2> QED
    BY <1>8, <2>1, Zenon DEF Post, TypeOK, queueVars, connVars
<1> QED
  BY <1>2, <1>3, <1>4, <1>5, <1>6, <1>7, <1>8 DEF PosterStep

\* The send task.
LEMMA LoopTypeInv ==
    ASSUME TypeInv, NEW l \in Loops, LoopStep(l) \/ DequeueTimeout(l)
    PROVE  TypeInv'
<1> USE SendAssumption DEF TypeInv
<1>1. HIGH \in Priorities /\ MIDDLE \in Priorities /\ LOW \in Priorities
  BY DEF Priorities, HIGH, MIDDLE, LOW
<1>2. CASE DequeueInner(l)
  <2> DEFINE least == IF Found(inner, MIDDLE) THEN MIDDLE ELSE LOW
  <2>1. least \in Priorities /\ Found(inner, least)
    BY <1>1, <1>2 DEF DequeueInner
  <2> HIDE DEF least
  <2>2. /\ GetMsg(inner, least) \in Messages
        /\ Best(inner, least) \in Priorities
        /\ Tail(inner[Best(inner, least)]) \in Seq(Messages)
    BY <2>1, GetMsgType, Zenon DEF TypeOK
  <2>3. inner' \in [Priorities -> Seq(Messages)]
    BY <1>2, <2>2 DEF DequeueInner, TypeOK, least
  <2>4. node' = [node EXCEPT ![l] = GetMsg(inner, least)] /\ loop' = [loop EXCEPT ![l] = "dequeued"]
    BY <1>2 DEF DequeueInner, least
  <2>5. list' \in Seq(Pids) /\ queues' = queues
    <3>1. (list' = list \/ list' = <<>>) /\ queues' = queues
      BY <1>2 DEF DequeueInner
    <3>2. <<>> \in Seq(Pids) /\ list \in Seq(Pids)
      BY DEF TypeOK
    <3> QED
      BY <3>1, <3>2, Zenon
  <2>6. poster' \in [Posters -> {"idle", "enqueue", "full", "dangling", "post"}]
    <3>1. CASE UNCHANGED poster
      BY <3>1 DEF TypeOK
    <3>2. CASE Orphan(Pids)
      BY <3>2 DEF Orphan, TypeOK
    <3> QED
      BY <1>2, <3>1, <3>2 DEF DequeueInner
  <2>7. node' \in [Loops -> Messages \cup {NoMessage}] /\ NodeOK'
    BY <2>2, <2>4 DEF TypeOK, NodeOK
  <2> QED
    BY <1>2, <2>3, <2>4, <2>5, <2>6, <2>7 DEF DequeueInner, TypeOK, connVars
<1>3. CASE DequeueList(l)
  <2>0. PICK i \in Busy : Serve(l, i)
    BY <1>3 DEF DequeueList
  <2> DEFINE pid == list[i]
  <2>1. i \in DOMAIN list /\ ~IsEmpty(queues[pid])
    BY DEF Busy
  <2>2. i \in 1..Len(list) /\ pid \in Pids /\ queues[pid] \in [Priorities -> Seq(Messages)]
    BY <2>1 DEF TypeOK
  <2> HIDE DEF pid
  <2>3. Found(queues[pid], LOW)
    BY <2>1 DEF Found, IsEmpty, Priorities, HIGH, LOW
  <2>4. /\ GetMsg(queues[pid], LOW) \in Messages
        /\ GotMsg(queues[pid], LOW) \in [Priorities -> Seq(Messages)]
    BY <1>1, <2>2, <2>3, GetMsgType, Zenon
  <2>5. queues' \in [Pids -> [Priorities -> Seq(Messages)]]
    BY <2>0, <2>2, <2>4, Zenon DEF Serve, TypeOK, pid
  <2>6. SubSeq(list, i + 1, Len(list)) \in Seq(Pids)
    BY <2>2 DEF TypeOK
  <2>7. list' \in Seq(Pids)
    BY <2>0, <2>2, <2>6 DEF Serve, pid
  <2>8. poster' \in [Posters -> {"idle", "enqueue", "full", "dangling", "post"}]
    BY <2>0 DEF Serve, Orphan, TypeOK
  <2>9. node' = [node EXCEPT ![l] = GetMsg(queues[pid], LOW)] /\ loop' = [loop EXCEPT ![l] = "dequeued"]
    BY <2>0, Zenon DEF Serve, pid
  <2>10. node' \in [Loops -> Messages \cup {NoMessage}] /\ NodeOK'
    BY <2>4, <2>9 DEF TypeOK, NodeOK
  <2> QED
    BY <2>0, <2>5, <2>7, <2>8, <2>9, <2>10, SMTT(60) DEF Serve, TypeOK, connVars
<1>4. CASE DequeueNone(l)
  <2>1. poster' \in [Posters -> {"idle", "enqueue", "full", "dangling", "post"}]
    BY <1>4 DEF DequeueNone, Orphan, TypeOK
  <2>2. list' \in Seq(Pids)
    BY <1>4 DEF DequeueNone
  <2> QED
    BY <1>4, <2>1, <2>2 DEF DequeueNone, TypeOK, NodeOK, connVars
<1>5. CASE QuitOrContinue(l)
  BY <1>5, Zenon DEF QuitOrContinue, TypeOK, NodeOK, queueVars, connVars
<1>6. CASE ClearPosted(l)
  BY <1>6, Zenon DEF ClearPosted, TypeOK, NodeOK, queueVars, connVars
<1>7. CASE Send(l)
  <2>1. finished' \in Seq(Messages)
    BY <1>7 DEF Send, TypeOK, NodeOK
  <2>2. sock' \in BOOLEAN /\ ready' \in BOOLEAN
    BY <1>7 DEF Send
  <2> QED
    BY <1>7, <2>1, <2>2 DEF Send, TypeOK, NodeOK, queueVars
<1>8. CASE DequeueTimeout(l)
  BY <1>8 DEF DequeueTimeout, TypeOK, NodeOK, queueVars, connVars
<1> QED
  BY <1>2, <1>3, <1>4, <1>5, <1>6, <1>7, <1>8 DEF LoopStep

\* Every step keeps the types.
LEMMA NextTypeInv == TypeInv /\ [Next]_vars => TypeInv'
<1> SUFFICES ASSUME TypeInv, [Next]_vars
             PROVE  TypeInv'
  OBVIOUS
<1>1. ASSUME NEW p \in Posters, PosterStep(p)
      PROVE  TypeInv'
  BY <1>1, PosterTypeInv
<1>2. ASSUME NEW l \in Loops, LoopStep(l) \/ DequeueTimeout(l)
      PROVE  TypeInv'
  BY <1>2, LoopTypeInv
<1>3. CASE Disconnect
  BY <1>3, Zenon DEF Disconnect, TypeInv, TypeOK, NodeOK, queueVars
<1>4. CASE Remove
  BY <1>4, Zenon DEF Remove, TypeInv, TypeOK, NodeOK, queueVars
<1>5. CASE UNCHANGED vars
  BY <1>5 DEF vars, TypeInv, TypeOK, NodeOK, queueVars, connVars
<1> QED
  BY <1>1, <1>2, <1>3, <1>4, <1>5 DEF Next

\* Type correctness of the send queue and the send task.
THEOREM TypeCorrect == Spec => []TypeOK
<1>1. TypeInv => TypeOK
  BY DEF TypeInv
<1> QED
  BY <1>1, InitTypeInv, NextTypeInv, PTL DEF Spec

----------------------------------------------------------------------------
(* The handoff between the posting threads and the send task.              *)

Telling == \E p \in Posters : poster[p] = "post"

\* A sleeping task has also destroyed the queues of all pids, which is what makes
\* the broadcast on an empty list enough.
Asleep == \A l \in Loops : loop[l] = "asleep" => IsEmpty(inner) /\ list = <<>>

\* A task that gave up waiting goes on, if something was queued since: either
\* messagePosted says so or the poster is about to set it.
GivingUp == \A l \in Loops : loop[l] = "timedOut" /\ ~NothingQueued => messagePosted \/ Telling

HInv == AtMostOneTask /\ Asleep /\ GivingUp /\ NoStranded

\* The invariant of the send task holds at the start.
LEMMA InitHInv == Init => HInv
BY DEF Init, HInv, AtMostOneTask, Asleep, GivingUp, NoStranded, Active, NothingQueued,
       IsEmpty, EmptyQueue

\* A thread that has just queued a message is about to tell the task.
LEMMA EnqueueHInv ==
    ASSUME TypeInv, HInv, NEW p \in Posters,
           EnqueueInner(p) \/ EnqueueNew(p) \/ EnqueueOld(p)
    PROVE  HInv'
<1> USE DEF TypeInv
<1>1. Telling'
  BY SMTT(60) DEF Telling, TypeOK, EnqueueInner, EnqueueNew, EnqueueOld
<1>2. /\ running' = running
      /\ \A l \in Loops : loop'[l] = loop[l] \/ (loop[l] = "asleep" /\ loop'[l] = "dequeue")
  BY Zenon DEF TypeOK, EnqueueInner, EnqueueNew, EnqueueOld, Broadcast
<1>3. AtMostOneTask'
  BY <1>2, Zenon DEF HInv, AtMostOneTask, Active
<1>4. Asleep'
  <2>1. CASE EnqueueInner(p)
    BY <2>1, SMTT(60) DEF EnqueueInner, Broadcast, Asleep, TypeOK
  <2>2. CASE EnqueueNew(p)
    BY <2>2, SMTT(60) DEF EnqueueNew, Broadcast, Asleep, HInv, TypeOK
  <2>3. CASE EnqueueOld(p)
    BY <2>3, Zenon DEF EnqueueOld, Listed, Asleep, HInv, TypeOK
  <2> QED
    BY <2>1, <2>2, <2>3, SMTT(60)
<1> QED
  BY <1>1, <1>3, <1>4, SMTT(60) DEF HInv, GivingUp, NoStranded, Telling

\* The other steps of a posting thread.
LEMMA PostHInv ==
    ASSUME TypeInv, HInv, NEW p \in Posters,
           PostCheck(p) \/ WaitQueueLength(p) \/ EnqueueDangling(p) \/ Post(p)
    PROVE  HInv'
<1> USE DEF TypeInv
<1>1. inner' = inner /\ queues' = queues /\ list' = list
  BY Zenon DEF PostCheck, WaitQueueLength, EnqueueDangling, Post, queueVars
<1>2. NothingQueued' = NothingQueued
  BY <1>1, SMTT(60) DEF NothingQueued, IsEmpty
<1>3. CASE PostCheck(p) \/ WaitQueueLength(p) \/ EnqueueDangling(p)
  <2>1. /\ loop' = loop /\ running' = running /\ messagePosted' = messagePosted
        /\ failedStart' = failedStart
    BY <1>3, SMTT(60) DEF PostCheck, WaitQueueLength, EnqueueDangling
  <2>2. Telling => Telling'
    BY <1>3, Zenon DEF Telling, TypeOK, PostCheck, WaitQueueLength, EnqueueDangling
  <2> QED
    BY <1>1, <1>2, <2>1, <2>2
   , Zenon DEF HInv, AtMostOneTask, Active, Asleep, GivingUp, NoStranded, Telling, IsEmpty
<1>4. CASE Post(p)
  <2>1. messagePosted'
    BY <1>4 DEF Post
  <2>2. CASE running /\ UNCHANGED <<running, failedStart, loop, node>>
    BY <1>1, <1>2, <2>1, <2>2, Zenon
    DEF HInv, AtMostOneTask, Active, Asleep, GivingUp, NoStranded, IsEmpty
  <2>3. CASE /\ ~running /\ running' = TRUE
             /\ \E l \in Loops : loop[l] = "none" /\ loop' = [loop EXCEPT ![l] = "dequeue"]
    <3>1. PICK l \in Loops : loop[l] = "none" /\ loop' = [loop EXCEPT ![l] = "dequeue"]
      BY <2>3, Zenon
    <3>2. \A k \in Loops : loop[k] = "none" /\ (k # l => loop'[k] = "none")
      BY <2>3, <3>1 DEF HInv, AtMostOneTask, Active, TypeOK
    <3>3. loop'[l] = "dequeue"
      BY <3>1 DEF TypeOK
    <3>4. AtMostOneTask'
      BY <2>3, <3>2, <3>3 DEF AtMostOneTask, Active
    <3>5. Asleep' /\ GivingUp'
      BY <3>2, <3>3 DEF Asleep, GivingUp
    <3> QED
      BY <2>3, <3>4, <3>5, Zenon DEF HInv, NoStranded
  <2>4. CASE ~running /\ failedStart' /\ UNCHANGED <<running, loop, node>>
    BY <1>1, <1>2, <2>1, <2>4
   , Zenon DEF HInv, AtMostOneTask, Active, Asleep, GivingUp, NoStranded, IsEmpty
  <2> QED
    BY <1>4, <2>2, <2>3, <2>4, Zenon DEF Post
<1> QED
  BY <1>3, <1>4

\* The send task.  It is the only one, so what it does concerns no other.
LEMMA LoopHInv ==
    ASSUME TypeInv, HInv, NEW l \in Loops, LoopStep(l) \/ DequeueTimeout(l)
    PROVE  HInv'
<1> USE DEF TypeInv
<1>1. loop[l] # "none"
  BY Zenon DEF LoopStep, DequeueTimeout, DequeueInner, DequeueList, DequeueNone, QuitOrContinue,
         ClearPosted, Send
<1>2. running /\ \A k \in Loops : k # l => loop[k] = "none"
  BY <1>1 DEF HInv, AtMostOneTask, Active
<1>3. ASSUME NEW pc \in {"dequeue", "asleep", "timedOut", "dequeued", "send"},
             loop' = [loop EXCEPT ![l] = pc], running' = running
      PROVE  /\ AtMostOneTask' /\ NoStranded'
             /\ pc # "asleep" => Asleep'
             /\ pc # "timedOut" => GivingUp'
  <2>1. loop'[l] = pc /\ \A k \in Loops : k # l => loop'[k] = "none"
    BY <1>2, <1>3 DEF TypeOK
  <2> QED
    BY <1>2, <1>3, <2>1 DEF AtMostOneTask, Active, NoStranded, Asleep, GivingUp
<1>4. CASE DequeueInner(l) \/ DequeueList(l)
  <2>1. loop' = [loop EXCEPT ![l] = "dequeued"] /\ running' = running
    BY <1>4, Zenon DEF DequeueInner, DequeueList, Serve
  <2> QED
    BY <1>3, <2>1 DEF HInv
<1>5. CASE DequeueNone(l)
  <2>1. loop' = [loop EXCEPT ![l] = "asleep"] /\ running' = running
    BY <1>5 DEF DequeueNone
  <2>2. Asleep'
    BY <1>5 DEF DequeueNone, Asleep, IsEmpty
  <2> QED
    BY <1>3, <2>1, <2>2 DEF HInv
<1>6. CASE DequeueTimeout(l)
  <2>1. loop' = [loop EXCEPT ![l] = "timedOut"] /\ running' = running
    BY <1>6 DEF DequeueTimeout
  <2>2. inner' = inner /\ list' = list /\ IsEmpty(inner) /\ list = <<>>
    BY <1>6 DEF DequeueTimeout, HInv, Asleep, queueVars
  <2>3. NothingQueued'
    BY <2>2 DEF NothingQueued, IsEmpty
  <2> QED
    BY <1>3, <2>1, <2>3 DEF HInv, GivingUp
<1>7. CASE QuitOrContinue(l)
  <2>1. inner' = inner /\ queues' = queues /\ list' = list /\ poster' = poster
    BY <1>7 DEF QuitOrContinue, queueVars
  <2>2. NothingQueued' = NothingQueued /\ Telling' = Telling
    BY <2>1 DEF NothingQueued, IsEmpty, Telling
  <2>3. CASE messagePosted
    <3>1. loop' = [loop EXCEPT ![l] = "dequeue"] /\ running' = running
      BY <1>2, <1>7, <2>3 DEF QuitOrContinue
    <3> QED
      BY <1>3, <3>1 DEF HInv
  <2>4. CASE ~messagePosted
    <3>1. running' = FALSE /\ \A k \in Loops : loop'[k] = "none"
      BY <1>2, <1>7, <2>4 DEF QuitOrContinue, TypeOK
    <3>2. ~NothingQueued => Telling
      BY <1>7, <2>4 DEF QuitOrContinue, HInv, GivingUp
    <3> QED
      BY <2>2, <3>1, <3>2
      DEF HInv, AtMostOneTask, Active, Asleep, GivingUp, NoStranded, Telling
  <2> QED
    BY <2>3, <2>4
<1>8. CASE ClearPosted(l) \/ Send(l)
  <2>1. \E pc \in {"send", "dequeue"} : loop' = [loop EXCEPT ![l] = pc] /\ running' = running
    BY <1>8 DEF ClearPosted, Send
  <2> QED
    BY <1>3, <2>1, Zenon DEF HInv
<1> QED
  BY <1>4, <1>5, <1>6, <1>7, <1>8 DEF LoopStep

\* Every step keeps the invariant of the send task.
LEMMA NextHInv == TypeInv /\ HInv /\ [Next]_vars => HInv'
<1> SUFFICES ASSUME TypeInv, HInv, [Next]_vars
             PROVE  HInv'
  OBVIOUS
<1>1. ASSUME NEW p \in Posters, PosterStep(p)
      PROVE  HInv'
  BY <1>1, EnqueueHInv, PostHInv DEF PosterStep
<1>2. ASSUME NEW l \in Loops, LoopStep(l) \/ DequeueTimeout(l)
      PROVE  HInv'
  BY <1>2, LoopHInv
<1>3. CASE Disconnect \/ Remove \/ UNCHANGED vars
  <2>1. UNCHANGED <<inner, queues, list, poster, loop, running, messagePosted, failedStart>>
    BY <1>3, Zenon DEF Disconnect, Remove, vars, queueVars
  <2> QED
    BY <2>1, Zenon DEF HInv, AtMostOneTask, Active, Asleep, GivingUp, NoStranded, NothingQueued,
                IsEmpty, Telling
<1> QED
  BY <1>1, <1>2, <1>3 DEF Next

\* The invariant of the send task.
LEMMA Invariant == Spec => [](TypeInv /\ HInv)
<1>1. TypeInv /\ HInv /\ [Next]_vars => TypeInv' /\ HInv'
  BY NextTypeInv, NextHInv
<1> QED
  BY <1>1, InitTypeInv, InitHInv, PTL DEF Spec

\* There is never a second send task, and sendTaskRunning is right about it.
THEOREM OneTask == Spec => []AtMostOneTask
<1>1. HInv => AtMostOneTask
  BY DEF HInv
<1> QED
  BY <1>1, Invariant, PTL

\* The send task never sleeps while there is a message to send.
THEOREM WakeupNotLost == Spec => []NoLostWakeup
<1>1. HInv => NoLostWakeup
  BY DEF HInv, Asleep, NoLostWakeup, NothingQueued
<1> QED
  BY <1>1, Invariant, PTL

\* No message is left in a queue without a task to send it, or a thread that is
\* about to start one, unless starting one failed.
THEOREM NothingStranded == Spec => []NoStranded
<1>1. HInv => NoStranded
  BY DEF HInv
<1> QED
  BY <1>1, Invariant, PTL

----------------------------------------------------------------------------
(* The order in which messages are reported.                               *)

\* The queues, the inner one under pid 0.
Queue(pid, i) == IF pid = 0 THEN inner[i] ELSE queues[pid][i]
AllPids == Pids \cup {0}

In(q, m) == \E j \in DOMAIN q : q[j] = m

\* A thread has one queue, its pid and priority being fixed, and is in it in order.
InOrder(q, pid, i) ==
    /\ \A j \in DOMAIN q : PidOf[q[j].by] = pid /\ PriorityOf[q[j].by] = i
    /\ \A j, k \in DOMAIN q : j < k /\ q[j].by = q[k].by => q[j].num < q[k].num
QueuesInOrder == \A pid \in AllPids, i \in Priorities : InOrder(Queue(pid, i), pid, i)

Holds(l) == loop[l] \in {"dequeued", "send"}
Held(m) == \E l \in Loops : Holds(l) /\ node[l] = m
Finished(m) == \E i \in DOMAIN finished : finished[i] = m

\* A thread inside ConnBrEnqueueNonBlock has its latest message still in hand.
InHand(p) == poster[p] \in {"enqueue", "full"}

Posted(m) == m.num <= posts[m.by] /\ (InHand(m.by) => m.num < posts[m.by])

\* What is reported was posted before what is held, and that before what is queued.
Follows ==
    \A m \in Messages :
        /\ Queued(m) \/ Held(m) \/ Finished(m) => Posted(m)
        /\ Queued(m) => \A h \in Messages : Held(h) /\ h.by = m.by => h.num < m.num
        /\ Queued(m) \/ Held(m) =>
              \A f \in Messages : Finished(f) /\ f.by = m.by => f.num < m.num

OrderInv == QueuesInOrder /\ Follows /\ FinishedInOrder

\* The order holds at the start.
LEMMA InitOrder == Init => OrderInv
BY DEF Init, OrderInv, QueuesInOrder, InOrder, Queue, AllPids, Follows, FinishedInOrder, Queued,
       Held, Holds, Finished, EmptyQueue

\* Process 0 has only the inner queue.
LEMMA PidsNonzero == 0 \notin Pids
BY DEF Pids

\* The type of the queue of a process and a priority.
LEMMA QueueType ==
    ASSUME TypeInv, NEW pid \in AllPids, NEW i \in Priorities
    PROVE  Queue(pid, i) \in Seq(Messages)
BY DEF TypeInv, TypeOK, Queue, AllPids

\* What it is to be queued, before a step.
LEMMA QueuedIn == \A m : Queued(m) <=> \E pid \in AllPids, i \in Priorities : In(Queue(pid, i), m)
BY PidsNonzero DEF Queued, In, Queue, AllPids

\* What it is to be queued, after a step.
LEMMA QueuedInNext ==
    \A m : Queued(m)' <=> \E pid \in AllPids, i \in Priorities : In(Queue(pid, i)', m)
BY PidsNonzero DEF Queued, In, Queue, AllPids

\* The fields of a message.
LEMMA MessageParts == \A m \in Messages : m.by \in Posters /\ m.num \in Nat
BY DEF Messages

\* What q holds from the thread of m is older than m, and r holds nothing new but m.
Older(q, m) == \A x \in Messages : In(q, x) /\ x.by = m.by => x.num < m.num
Adds(q, r, m) == \A x : In(r, x) => In(q, x) \/ x = m

\* A message at the end of a queue, and a queue without its first message.
LEMMA AppendInOrder ==
    ASSUME NEW q \in Seq(Messages), NEW pid, NEW i, NEW m \in Messages,
           PidOf[m.by] = pid, PriorityOf[m.by] = i, InOrder(q, pid, i),
           Older(q, m)
    PROVE  /\ InOrder(Append(q, m), pid, i) /\ InOrder(<<m>>, pid, i)
           /\ Adds(q, Append(q, m), m) /\ Adds(q, <<m>>, m)
<1>1. /\ \A j \in DOMAIN q : q[j] \in Messages /\ In(q, q[j])
      /\ \A j \in DOMAIN Append(q, m) :
            \/ j \in DOMAIN q /\ Append(q, m)[j] = q[j] /\ j \in 1..Len(q)
            \/ j = Len(q) + 1 /\ Append(q, m)[j] = m
  BY DEF In
<1>2. InOrder(Append(q, m), pid, i)
  BY <1>1 DEF InOrder, Older
<1>3. InOrder(<<m>>, pid, i)
  BY DEF InOrder
<1>4. Adds(q, Append(q, m), m)
  BY <1>1, Zenon DEF In, Adds
<1>5. Adds(q, <<m>>, m)
  BY DEF In, Adds
<1> QED
  BY <1>2, <1>3, <1>4, <1>5, Zenon

\* The rest of an ordered queue is ordered, and follows its head.
LEMMA TailInOrder ==
    ASSUME NEW q \in Seq(Messages), q # <<>>, NEW pid, NEW i, InOrder(q, pid, i)
    PROVE  /\ Head(q) \in Messages /\ In(q, Head(q)) /\ InOrder(Tail(q), pid, i)
           /\ \A x : In(Tail(q), x) =>
                 In(q, x) /\ (x.by = Head(q).by => Head(q).num < x.num)
<1>1. /\ Head(q) = q[1] /\ 1 \in DOMAIN q
      /\ \A j \in DOMAIN Tail(q) : j + 1 \in DOMAIN q /\ Tail(q)[j] = q[j + 1] /\ 1 < j + 1
      /\ \A j, k \in DOMAIN Tail(q) : j < k => j + 1 < k + 1
  OBVIOUS
<1>2. Head(q) \in Messages /\ In(q, Head(q))
  BY <1>1 DEF In
<1>3. InOrder(Tail(q), pid, i)
  BY <1>1 DEF InOrder
<1>4. \A x : In(Tail(q), x) => In(q, x) /\ (x.by = Head(q).by => Head(q).num < x.num)
  BY <1>1 DEF In, InOrder
<1> QED
  BY <1>2, <1>3, <1>4

\* The messages of an ordered queue come from posters of its process and priority.
LEMMA ElementsInOrder ==
    ASSUME NEW q, NEW pid, NEW i, InOrder(q, pid, i), NEW m, In(q, m)
    PROVE  PidOf[m.by] = pid /\ PriorityOf[m.by] = i
BY DEF InOrder, In

\* A step that queues nothing, dequeues nothing and reports nothing.
LEMMA QuietOrder ==
    ASSUME TypeInv, OrderInv, inner' = inner, queues' = queues, finished' = finished,
           \A l \in Loops : Holds(l)' => Holds(l) /\ node'[l] = node[l],
           \A m \in Messages : Posted(m) => Posted(m)'
    PROVE  OrderInv'
<1>1. QueuesInOrder' /\ FinishedInOrder'
  BY Zenon DEF OrderInv, QueuesInOrder, Queue, FinishedInOrder
<1>2. \A m : Queued(m)' = Queued(m) /\ Finished(m)' = Finished(m)
  BY Zenon DEF Queued, Finished
<1>3. \A m : Held(m)' => Held(m)
  BY DEF Held
<1>4. Follows
  BY Zenon DEF OrderInv
<1>5. Follows'
  BY <1>2, <1>3, <1>4, Zenon DEF Follows
<1> QED
  BY <1>1, <1>5 DEF OrderInv

\* What a posting thread does to the queues: its message is put at the end of its
\* own, and a new queue may replace a destroyed one.
LEMMA EnqueueEffect ==
    ASSUME TypeInv, NEW p \in Posters, NEW m, m = Message(p, posts[p]),
           EnqueueInner(p) \/ EnqueueNew(p) \/ EnqueueOld(p),
           NEW pid \in AllPids, NEW i \in Priorities
    PROVE  \/ Queue(pid, i)' = Queue(pid, i)
           \/ Queue(pid, i)' = <<>>
           \/ /\ pid = PidOf[p] /\ i = PriorityOf[p]
              /\ Queue(pid, i)' = Append(Queue(pid, i), m) \/ Queue(pid, i)' = <<m>>
<1>1. CASE EnqueueInner(p)
  <2>1. /\ queues' = queues /\ PidOf[p] = 0
        /\ inner' = [inner EXCEPT ![PriorityOf[p]] = Append(@, m)]
    BY <1>1, Zenon DEF EnqueueInner
  <2> QED
    BY <2>1, PidsNonzero, Zenon DEF Queue, AllPids, TypeInv, TypeOK
<1>2. CASE EnqueueNew(p)
  <2>1. /\ inner' = inner /\ PidOf[p] # 0 /\ PidOf[p] \in Pids
        /\ queues' = [queues EXCEPT ![PidOf[p]] =
                         [EmptyQueue EXCEPT ![PriorityOf[p]] = <<m>>]]
    BY <1>2, PidsAreNumbered, Zenon DEF EnqueueNew
  <2> QED
    BY <2>1, Zenon DEF Queue, AllPids, TypeInv, TypeOK, EmptyQueue
<1>3. CASE EnqueueOld(p)
  <2>1. /\ inner' = inner /\ PidOf[p] # 0 /\ PidOf[p] \in Pids
        /\ queues' = [queues EXCEPT ![PidOf[p]][PriorityOf[p]] = Append(@, m)]
    BY <1>3, PidsAreNumbered, Zenon DEF EnqueueOld
  <2> QED
    BY <2>1, Zenon DEF Queue, AllPids, TypeInv, TypeOK
<1> QED
  BY <1>1, <1>2, <1>3, Zenon

\* A thread puts its message at the end of its queue.
LEMMA EnqueueOrder ==
    ASSUME TypeInv, OrderInv, NEW p \in Posters,
           EnqueueInner(p) \/ EnqueueNew(p) \/ EnqueueOld(p)
    PROVE  OrderInv'
<1> DEFINE m == Message(p, posts[p])
<1>1. m \in Messages /\ m.by = p /\ m.num = posts[p]
  BY MessageType, Zenon DEF Message
<1>2. \A pid \in AllPids, i \in Priorities :
         \/ Queue(pid, i)' = Queue(pid, i)
         \/ Queue(pid, i)' = <<>>
         \/ /\ pid = PidOf[p] /\ i = PriorityOf[p]
            /\ Queue(pid, i)' = Append(Queue(pid, i), m) \/ Queue(pid, i)' = <<m>>
  BY EnqueueEffect, Zenon
<1> HIDE DEF m
<1>3. /\ posts' = posts /\ finished' = finished /\ node' = node
      /\ InHand(p) /\ poster' = [poster EXCEPT ![p] = "post"]
  BY SMTT(60) DEF EnqueueInner, EnqueueNew, EnqueueOld, InHand
<1>4. \A l \in Loops : Holds(l)' => Holds(l)
  BY Zenon DEF EnqueueInner, EnqueueNew, EnqueueOld, Broadcast, Holds, TypeInv, TypeOK
<1>5. \A x \in Messages : Queued(x) \/ Held(x) \/ Finished(x) =>
         Posted(x) /\ (x.by = p => x.num < m.num)
  BY <1>1, <1>3, Zenon DEF OrderInv, Follows, Posted
<1>6. ASSUME NEW pid \in AllPids, NEW i \in Priorities
      PROVE  /\ InOrder(Queue(pid, i)', pid, i)
             /\ \A x : In(Queue(pid, i)', x) => In(Queue(pid, i), x) \/ x = m
  <2>1. Queue(pid, i) \in Seq(Messages) /\ InOrder(Queue(pid, i), pid, i)
    BY QueueType DEF OrderInv, QueuesInOrder
  <2>2. Older(Queue(pid, i), m)
    BY <1>1, <1>5, QueuedIn, Zenon DEF Older
  <2>3. CASE Queue(pid, i)' = Queue(pid, i)
    BY <2>1, <2>3
  <2>4. CASE Queue(pid, i)' = <<>>
    BY <2>4 DEF InOrder, In
  <2>5. CASE /\ pid = PidOf[p] /\ i = PriorityOf[p]
             /\ Queue(pid, i)' = Append(Queue(pid, i), m) \/ Queue(pid, i)' = <<m>>
    <3>1. PidOf[m.by] = pid /\ PriorityOf[m.by] = i
      BY <1>1, <2>5, Zenon
    <3>2. /\ InOrder(Append(Queue(pid, i), m), pid, i) /\ InOrder(<<m>>, pid, i)
          /\ Adds(Queue(pid, i), Append(Queue(pid, i), m), m) /\ Adds(Queue(pid, i), <<m>>, m)
      BY <1>1, <2>1, <2>2, <3>1, AppendInOrder, Zenon
    <3>3. InOrder(Queue(pid, i)', pid, i) /\ Adds(Queue(pid, i), Queue(pid, i)', m)
      BY <2>5, <3>2, Zenon
    <3> QED
      BY <3>3, Zenon DEF Adds
  <2> QED
    BY <1>2, <2>3, <2>4, <2>5, Zenon
<1>7. QueuesInOrder'
  BY <1>6 DEF QueuesInOrder
<1>8. \A x : Queued(x)' => Queued(x) \/ x = m
  BY <1>6, QueuedIn, QueuedInNext
<1>9. FinishedInOrder'
  BY <1>3, Zenon DEF OrderInv, FinishedInOrder
<1>10. \A x : (Finished(x)' = Finished(x)) /\ (Held(x)' => Held(x))
  BY <1>3, <1>4, Zenon DEF Finished, Held
<1>11. \A x \in Messages : Posted(x) \/ x = m => Posted(x)'
  <2>1. \A r \in Posters : InHand(r)' => InHand(r) /\ r # p
    BY <1>3 DEF InHand, TypeInv, TypeOK
  <2>2. posts[p] \in Nat
    BY <1>1, MessageParts
  <2> QED
    BY <1>1, <1>3, <2>1, <2>2, MessageParts DEF Posted
<1>12. Follows'
  <2>1. Follows
    BY DEF OrderInv
  <2> QED
    BY <1>1, <1>5, <1>8, <1>10, <1>11, <2>1, Zenon DEF Follows
<1> QED
  BY <1>7, <1>9, <1>12 DEF OrderInv

\* What the send task does to the queues when it takes a message: the first of one.
LEMMA DequeueEffect ==
    ASSUME TypeInv, NEW l \in Loops, DequeueInner(l) \/ DequeueList(l)
    PROVE  \E pid \in AllPids, i \in Priorities :
              /\ Queue(pid, i) # <<>> /\ Queue(pid, i)' = Tail(Queue(pid, i))
              /\ node' = [node EXCEPT ![l] = Head(Queue(pid, i))]
              /\ \A d \in AllPids, k \in Priorities :
                    d # pid \/ k # i => Queue(d, k)' = Queue(d, k)
<1>0. MIDDLE \in Priorities /\ LOW \in Priorities
  BY DEF Priorities, HIGH, MIDDLE, LOW
<1>1. CASE DequeueInner(l)
  <2> DEFINE least == IF Found(inner, MIDDLE) THEN MIDDLE ELSE LOW
             b == Best(inner, least)
  <2>1. least \in Priorities /\ Found(inner, least)
    BY <1>0, <1>1, Zenon DEF DequeueInner
  <2>2. /\ inner' = [inner EXCEPT ![b] = Tail(@)] /\ queues' = queues
        /\ node' = [node EXCEPT ![l] = Head(inner[b])]
    BY <1>1, Zenon DEF DequeueInner, GetMsg
  <2> HIDE DEF least
  <2>3. inner \in [Priorities -> Seq(Messages)]
    BY DEF TypeInv, TypeOK
  <2>4. b \in Priorities /\ inner[b] # <<>>
    BY <2>1, <2>3, GetMsgType
  <2> HIDE DEF b
  <2>5. 0 \in AllPids /\ \A k : Queue(0, k) = inner[k] /\ Queue(0, k)' = inner'[k]
    BY Zenon DEF AllPids, Queue
  <2>6. \A d \in AllPids, k \in Priorities :
           d # 0 \/ k # b => Queue(d, k)' = Queue(d, k)
    BY <2>2, <2>3 DEF Queue
  <2>7. inner'[b] = Tail(inner[b])
    BY <2>2, <2>3, <2>4
  <2> QED
    BY <2>2, <2>4, <2>5, <2>6, <2>7, Zenon
<1>2. CASE DequeueList(l)
  <2>1. PICK n \in Busy : Serve(l, n)
    BY <1>2, Zenon DEF DequeueList
  <2>2. PICK pid \in Pids : /\ pid = list[n] /\ ~IsEmpty(queues[pid])
                            /\ queues[pid] \in [Priorities -> Seq(Messages)]
    BY DEF Busy, TypeInv, TypeOK
  <2>3. Found(queues[pid], LOW)
    BY <2>2 DEF Found, IsEmpty, Priorities, HIGH, LOW
  <2>4. PICK b \in Priorities : b = Best(queues[pid], LOW) /\ queues[pid][b] # <<>>
    BY <1>0, <2>2, <2>3, GetMsgType, Zenon
  <2>5. /\ queues' = [queues EXCEPT ![pid] = [queues[pid] EXCEPT ![b] = Tail(queues[pid][b])]]
        /\ node' = [node EXCEPT ![l] = Head(queues[pid][b])] /\ inner' = inner
    BY <2>1, <2>2, <2>4, Zenon DEF Serve, GetMsg, GotMsg
  <2>6. pid \in AllPids /\ \A k : Queue(pid, k) = queues[pid][k] /\ Queue(pid, k)' = queues'[pid][k]
    BY <2>2, PidsNonzero, Zenon DEF AllPids, Queue
  <2>7. /\ queues'[pid][b] = Tail(queues[pid][b])
        /\ \A d \in Pids, k \in Priorities : d # pid \/ k # b => queues'[d][k] = queues[d][k]
    BY <2>2, <2>5, <2>4, Zenon DEF TypeInv, TypeOK
  <2>8. \A d \in AllPids, k \in Priorities :
           d # pid \/ k # b => Queue(d, k)' = Queue(d, k)
    BY <2>5, <2>7, Zenon DEF Queue, AllPids
  <2>9. /\ Queue(pid, b) # <<>> /\ Queue(pid, b)' = Tail(Queue(pid, b))
        /\ node' = [node EXCEPT ![l] = Head(Queue(pid, b))]
    BY <2>5, <2>4, <2>6, <2>7, Zenon
  <2> QED
    BY <2>6, <2>8, <2>9, Zenon
<1> QED
  BY <1>1, <1>2, Zenon

\* The send task takes a message: the one that its thread queued first.
LEMMA DequeueOrder ==
    ASSUME TypeInv, OrderInv, AtMostOneTask, NEW l \in Loops,
           DequeueInner(l) \/ DequeueList(l)
    PROVE  OrderInv'
<1>1. PICK pid \in AllPids, i \in Priorities :
         /\ Queue(pid, i) # <<>> /\ Queue(pid, i)' = Tail(Queue(pid, i))
         /\ node' = [node EXCEPT ![l] = Head(Queue(pid, i))]
         /\ \A d \in AllPids, k \in Priorities :
               d # pid \/ k # i => Queue(d, k)' = Queue(d, k)
  BY DequeueEffect
<1> DEFINE m == Head(Queue(pid, i))
<1>2. Queue(pid, i) \in Seq(Messages) /\ InOrder(Queue(pid, i), pid, i)
  BY QueueType DEF OrderInv, QueuesInOrder
<1>3. /\ m \in Messages /\ In(Queue(pid, i), m) /\ InOrder(Queue(pid, i)', pid, i)
      /\ \A x : In(Queue(pid, i)', x) =>
            In(Queue(pid, i), x) /\ (x.by = m.by => m.num < x.num)
  BY <1>1, <1>2, TailInOrder, Zenon
<1> HIDE DEF m
<1>4. QueuesInOrder'
  BY <1>1, <1>3, Zenon DEF OrderInv, QueuesInOrder
<1>5. Queued(m)
  BY <1>3, QueuedIn
<1>6. \A x : Queued(x)' => Queued(x) /\ (x.by = m.by => m.num < x.num)
  <2> SUFFICES ASSUME NEW x, Queued(x)'
               PROVE  Queued(x) /\ (x.by = m.by => m.num < x.num)
    OBVIOUS
  <2>1. PICK d \in AllPids, k \in Priorities : In(Queue(d, k)', x)
    BY QueuedInNext
  <2>2. CASE d = pid /\ k = i
    BY <1>3, <2>1, <2>2, QueuedIn, Zenon
  <2>3. CASE d # pid \/ k # i
    <3>1. In(Queue(d, k), x) /\ InOrder(Queue(d, k), d, k)
      BY <1>1, <2>1, <2>3, Zenon DEF OrderInv, QueuesInOrder
    <3>2. PidOf[m.by] = pid /\ PriorityOf[m.by] = i
      BY <1>2, <1>3, ElementsInOrder, Zenon
    <3>3. PidOf[x.by] = d /\ PriorityOf[x.by] = k
      BY <3>1, ElementsInOrder, Zenon
    <3>4. x.by # m.by
      BY <2>3, <3>2, <3>3, Zenon
    <3> QED
      BY <3>1, <3>4, QueuedIn, Zenon
  <2> QED
    BY <2>2, <2>3, Zenon
<1>7. /\ loop' = [loop EXCEPT ![l] = "dequeued"] /\ loop[l] = "dequeue"
      /\ finished' = finished /\ posts' = posts
  BY Zenon DEF DequeueInner, DequeueList, Serve
<1>8. \A p \in Posters : InHand(p)' => InHand(p)
  BY Zenon DEF DequeueInner, DequeueList, Serve, Orphan, InHand
<1>9. \A k \in Loops : Holds(k)' => k = l
  BY <1>7, Zenon DEF AtMostOneTask, Active, Holds, TypeInv, TypeOK
<1>10. \A x : Held(x)' => x = m
  BY <1>1, <1>9, Zenon DEF Held, TypeInv, TypeOK, m
<1>11. \A x : Finished(x)' = Finished(x)
  BY <1>7 DEF Finished
<1>12. \A x \in Messages : Posted(x) => Posted(x)'
  BY <1>7, <1>8, MessageParts, Zenon DEF Posted
<1>13. Follows'
  <2>1. Follows
    BY DEF OrderInv
  <2> QED
    BY <1>3, <1>5, <1>6, <1>10, <1>11, <1>12, <2>1, Zenon DEF Follows
<1>14. FinishedInOrder'
  BY <1>7, Zenon DEF OrderInv, FinishedInOrder
<1> QED
  BY <1>4, <1>13, <1>14 DEF OrderInv

\* The send task reports the message it holds.
LEMMA SendOrder ==
    ASSUME TypeInv, OrderInv, AtMostOneTask, NEW l \in Loops, Send(l)
    PROVE  OrderInv'
<1> DEFINE m == node[l]
<1>1. /\ m \in Messages /\ Held(m) /\ finished \in Seq(Messages)
      /\ finished' = Append(finished, m)
      /\ loop' = [loop EXCEPT ![l] = "dequeue"]
      /\ UNCHANGED <<inner, queues, posts, poster>>
  BY Zenon DEF Send, TypeInv, TypeOK, NodeOK, Held, Holds, queueVars
<1> HIDE DEF m
<1>2. \A x : ~Held(x)'
  <2>1. \A k \in Loops : ~Holds(k)'
    BY <1>1, Zenon DEF Send, AtMostOneTask, Active, Holds, TypeInv, TypeOK
  <2> QED
    BY <2>1 DEF Held
<1>3. /\ \A x : Queued(x)' = Queued(x)
      /\ \A x : Finished(x)' => Finished(x) \/ x = m
  BY <1>1 DEF Queued, Finished
<1>4. \A x \in Messages : Finished(x) /\ x.by = m.by => x.num < m.num
  BY <1>1 DEF OrderInv, Follows
<1>5. FinishedInOrder'
  <2>1. \A i \in DOMAIN finished : finished[i] \in Messages /\ Finished(finished[i])
    BY <1>1 DEF Finished
  <2>2. \A i \in DOMAIN finished' :
           \/ i \in DOMAIN finished /\ finished'[i] = finished[i] /\ i <= Len(finished)
           \/ i = Len(finished) + 1 /\ finished'[i] = m
    BY <1>1
  <2> QED
    BY <1>1, <1>4, <2>1, <2>2 DEF OrderInv, FinishedInOrder
<1>6. QueuesInOrder'
  BY <1>1, Zenon DEF OrderInv, QueuesInOrder, Queue
<1>7. \A x : Posted(x)' = Posted(x)
  BY <1>1 DEF InHand, Posted
<1>8. Follows'
  <2>1. Follows
    BY DEF OrderInv
  <2> QED
    BY <1>1, <1>2, <1>3, <1>7, <2>1, Zenon DEF Follows
<1> QED
  BY <1>5, <1>6, <1>8 DEF OrderInv

\* Every step keeps the order.
LEMMA NextOrder == TypeInv /\ HInv /\ OrderInv /\ [Next]_vars => OrderInv'
<1> SUFFICES ASSUME TypeInv, HInv, OrderInv, [Next]_vars
             PROVE  OrderInv'
  OBVIOUS
<1>0. AtMostOneTask
  BY DEF HInv
<1>1. ASSUME NEW p \in Posters, PostCheck(p)
      PROVE  OrderInv'
  <2>1. UNCHANGED <<inner, queues, finished, loop, node>>
    BY <1>1 DEF PostCheck, queueVars
  <2>2. /\ posts' = [posts EXCEPT ![p] = @ + 1]
        /\ \A r \in Posters : r # p => (InHand(r)' = InHand(r))
    BY <1>1, Zenon DEF PostCheck, InHand, TypeInv, TypeOK
  <2>3. \A r \in Posters : /\ posts[r] \in Nat /\ posts'[r] \in Nat
                           /\ posts'[r] = IF r = p THEN posts[r] + 1 ELSE posts[r]
    BY <2>2, SendAssumption DEF TypeInv, TypeOK
  <2>4. \A m \in Messages : Posted(m) => Posted(m)'
    BY <2>2, <2>3, MessageParts DEF Posted
  <2> QED
    BY <2>1, <2>4, QuietOrder, Zenon DEF Holds
<1>2. ASSUME NEW p \in Posters, WaitQueueLength(p) \/ EnqueueDangling(p) \/ Post(p)
      PROVE  OrderInv'
  <2>1. UNCHANGED <<inner, queues, finished, posts>>
    BY <1>2, Zenon DEF WaitQueueLength, EnqueueDangling, Post, queueVars
  <2>2. \A l \in Loops : Holds(l)' => Holds(l) /\ node'[l] = node[l]
    <3>1. CASE UNCHANGED <<loop, node>>
      BY <3>1 DEF Holds
    <3>2. CASE \E l \in Loops : /\ loop' = [loop EXCEPT ![l] = "dequeue"]
                                /\ node' = [node EXCEPT ![l] = NoMessage]
      BY <3>2, Zenon DEF Holds, TypeInv, TypeOK
    <3> QED
      BY <1>2, <3>1, <3>2, Zenon DEF WaitQueueLength, EnqueueDangling, Post
  <2>3. \A r \in Posters : InHand(r)' => InHand(r)
    BY <1>2, Zenon DEF WaitQueueLength, EnqueueDangling, Post, InHand, TypeInv, TypeOK
  <2>4. \A m \in Messages : Posted(m) => Posted(m)'
    BY <2>1, <2>3, MessageParts, Zenon DEF Posted
  <2> QED
    BY <2>1, <2>2, <2>4, QuietOrder, Zenon
<1>3. ASSUME NEW l \in Loops,
             DequeueNone(l) \/ QuitOrContinue(l) \/ ClearPosted(l) \/ DequeueTimeout(l)
      PROVE  OrderInv'
  <2>1. UNCHANGED <<inner, queues, finished, posts, node>>
    BY <1>3, Zenon DEF DequeueNone, QuitOrContinue, ClearPosted, DequeueTimeout, queueVars
  <2>2. \A k \in Loops : Holds(k)' => Holds(k)
    BY <1>3, Zenon DEF DequeueNone, QuitOrContinue, ClearPosted, DequeueTimeout, Holds, TypeInv, TypeOK
  <2>3. \A r \in Posters : InHand(r)' => InHand(r)
    BY <1>3, Zenon DEF DequeueNone, Orphan, QuitOrContinue, ClearPosted, DequeueTimeout, InHand
  <2>4. \A m \in Messages : Posted(m) => Posted(m)'
    BY <2>1, <2>3, MessageParts, Zenon DEF Posted
  <2> QED
    BY <2>1, <2>2, <2>4, QuietOrder
<1>4. CASE Disconnect \/ Remove \/ UNCHANGED vars
  <2>1. UNCHANGED <<inner, queues, finished, posts, node, loop, poster>>
    BY <1>4, Zenon DEF Disconnect, Remove, vars, queueVars
  <2> QED
    BY <2>1, QuietOrder, Zenon DEF Holds, Posted, InHand
<1>5. ASSUME NEW p \in Posters, PosterStep(p)
      PROVE  OrderInv'
  BY <1>1, <1>2, <1>5, EnqueueOrder DEF PosterStep
<1>6. ASSUME NEW l \in Loops, LoopStep(l) \/ DequeueTimeout(l)
      PROVE  OrderInv'
  BY <1>0, <1>3, <1>6, DequeueOrder, SendOrder DEF LoopStep
<1> QED
  BY <1>4, <1>5, <1>6 DEF Next

\* The messages of one thread are reported to onPostByteFinshed once each and in
\* the order it posted them, for any number of threads, pids and send tasks.
THEOREM ReportedInOrder == Spec => []FinishedInOrder
<1>1. OrderInv => FinishedInOrder
  BY DEF OrderInv
<1>2. TypeInv /\ HInv /\ OrderInv /\ [Next]_vars => TypeInv' /\ HInv' /\ OrderInv'
  BY NextTypeInv, NextHInv, NextOrder
<1> QED
  BY <1>1, <1>2, InitTypeInv, InitHInv, InitOrder, PTL DEF Spec

----------------------------------------------------------------------------
(* The acknowledgement window.                                             *)

\* A remainder lies below the divisor, and a quotient goes with it.
LEMMA DivMod ==
    ASSUME NEW w \in Nat, w > 1, NEW s \in Nat
    PROVE  /\ s \div w \in Nat
           /\ s % w \in 0..(w - 1)
           /\ s = w * (s \div w) + (s % w)
OBVIOUS

\* A positive multiple of the window is at least the window.
LEMMA Multiple ==
    ASSUME NEW w \in Nat, NEW d \in Nat, d > 0
    PROVE  w * d >= w
OBVIOUS

\* A number has one remainder.
LEMMA OneRemainder ==
    ASSUME NEW w \in Nat, w > 1, NEW p \in Nat, NEW q \in Nat,
           NEW r \in 0..(w - 1), NEW t \in 0..(w - 1), w * p + r = w * q + t
    PROVE  r = t
<1>1. CASE p = q
  BY <1>1
<1>2. CASE p > q
  <2>1. PICK d \in Nat : d > 0 /\ p = q + d
    BY <1>2
  <2>2. w * p = w * q + w * d
    BY <2>1
  <2>3. w * d >= w
    BY <2>1, Multiple
  <2> QED
    BY <2>2, <2>3
<1>3. CASE p < q
  <2>1. PICK d \in Nat : d > 0 /\ q = p + d
    BY <1>3
  <2>2. w * q = w * p + w * d
    BY <2>1
  <2>3. w * d >= w
    BY <2>1, Multiple
  <2> QED
    BY <2>2, <2>3
<1> QED
  BY <1>1, <1>2, <1>3

\* Counting on, the remainder goes up by one, or round to zero.
LEMMA NextRemainder ==
    ASSUME NEW w \in Nat, w > 1, NEW s \in Nat
    PROVE  (s + 1) % w = IF s % w = w - 1 THEN 0 ELSE (s % w) + 1
<1> DEFINE q == s \div w
           k == (s + 1) \div w
<1>1. q \in Nat /\ s = w * q + (s % w) /\ s % w \in 0..(w - 1)
  BY DivMod, Zenon
<1>2. s + 1 \in Nat
  OBVIOUS
<1>3. k \in Nat /\ s + 1 = w * k + ((s + 1) % w) /\ (s + 1) % w \in 0..(w - 1)
  BY <1>2, DivMod, Zenon
<1> HIDE DEF q, k
<1>4. CASE s % w = w - 1
  <2>1. s + 1 = w * (q + 1) + 0
    BY <1>1, <1>4
  <2> QED
    BY <2>1, <1>1, <1>3, <1>4, OneRemainder, SMTT(60)
<1>5. CASE s % w # w - 1
  <2>1. s + 1 = w * q + ((s % w) + 1) /\ (s % w) + 1 \in 0..(w - 1)
    BY <1>1, <1>5
  <2> QED
    BY <2>1, <1>1, <1>3, <1>5, OneRemainder, SMTT(60)
<1> QED
  BY <1>4, <1>5

----------------------------------------------------------------------------
\* The inductive invariant: an open request was made at a multiple of the window
\* in force, so the remainder counts the messages sent since, and a task that is
\* not waiting has sent fewer than window - 1 of them.
Distance ==
    waitSequence # 0 =>
        /\ sequence % window = sequence - waitSequence
        /\ sender = "idle" => sequence - waitSequence < window - 1

WindowInv ==
    /\ WindowTypeOK
    /\ OnePending
    /\ sender # "idle" => waitSequence # 0
    /\ Distance

\* The invariant of the window holds at the start.
LEMMA InitWindow == WindowInit => WindowInv
BY WindowAssumption DEF WindowInit, WindowInv, WindowTypeOK, OnePending, Distance

\* Numbering a message, with or without a request.
LEMMA SendNextWindow == WindowInv /\ SendNext => WindowInv'
<1> SUFFICES ASSUME WindowInv, SendNext
             PROVE  WindowInv'
  OBVIOUS
<1> USE WindowAssumption
<1>1. /\ window \in Nat /\ window > 1 /\ sequence \in Nat /\ window' = window
      /\ sequence' = sequence + 1 /\ sequence' \in 1..MaxSequence
  BY DEF WindowInv, WindowTypeOK, SendNext
<1>2. sequence % window \in 0..(window - 1)
  BY <1>1, DivMod
<1>3. sequence' % window = IF sequence % window = window - 1 THEN 0 ELSE (sequence % window) + 1
  BY <1>1, NextRemainder, Zenon
<1>4. CASE sequence' % window = 0
  <2>1. waitSequence = 0 /\ pending = {} /\ finded = {}
    BY <1>1, <1>2, <1>3, <1>4 DEF WindowInv, WindowTypeOK, OnePending, Distance, SendNext
  <2>2. sender' = "idle"
    BY <1>1, <1>4 DEF SendNext
  <2>3. CASE SendAck(sequence + 1)
    BY <1>1, <1>4, <2>1, <2>2, <2>3 DEF WindowInv, WindowTypeOK, OnePending, Distance, SendNext, SendAck
  <2>4. CASE SendAckFails
    BY <1>1, <1>4, <2>1, <2>2, <2>4 DEF WindowInv, WindowTypeOK, OnePending, Distance, SendNext, SendAckFails
  <2> QED
    BY <1>1, <1>4, <2>3, <2>4 DEF SendNext
<1>5. CASE sequence' % window # 0
  <2>1. SendAckFails
    BY <1>1, <1>5 DEF SendNext
  <2>2. sequence' % window = (sequence % window) + 1 /\ sequence % window # window - 1
    BY <1>3, <1>5
  <2>3. WindowTypeOK' /\ OnePending'
    BY <1>1, <2>1 DEF WindowInv, WindowTypeOK, OnePending, SendNext, SendAckFails
  <2>4. (sender # "idle" => waitSequence # 0)'
    BY <2>1 DEF SendNext, SendAckFails
  <2>5. Distance'
    BY <1>1, <1>2, <2>1, <2>2 DEF WindowInv, WindowTypeOK, Distance, SendNext, SendAckFails
  <2> QED
    BY <2>3, <2>4, <2>5 DEF WindowInv
<1> QED
  BY <1>4, <1>5

\* A wait ends, whatever it does to the window as long as that is in its range.
LEMMA EndWaitWindow ==
    ASSUME WindowInv, EndWait, window' \in MIN_WINDOW..MAX_WINDOW, ackTimeoutCount' \in Nat
    PROVE  WindowInv'
<1>1. waitSequence' = 0 /\ sender' = "idle" /\ pending' = {} /\ finded' = {}
  BY DEF WindowInv, WindowTypeOK, OnePending, EndWait
<1>2. WindowTypeOK'
  BY <1>1, WindowAssumption DEF WindowInv, WindowTypeOK, EndWait
<1> QED
  BY <1>1, <1>2 DEF WindowInv, OnePending, Distance

\* Every step keeps the invariant of the window.
LEMMA NextWindow == WindowInv /\ [WindowNext]_windowVars => WindowInv'
<1> SUFFICES ASSUME WindowInv, [WindowNext]_windowVars
             PROVE  WindowInv'
  OBVIOUS
<1> USE WindowAssumption
<1>1. CASE SendNext
  BY <1>1, SendNextWindow
<1>2. CASE AlreadyTriggered
  <2>1. EndWait /\ window' \in MIN_WINDOW..MAX_WINDOW /\ ackTimeoutCount' \in Nat
    BY <1>2 DEF AlreadyTriggered, WindowInv, WindowTypeOK
  <2> QED
    BY <2>1, EndWaitWindow
<1>3. CASE Block
  BY <1>3 DEF WindowInv, WindowTypeOK, OnePending, Distance, Block
<1>4. CASE Answered
  <2>1. EndWait /\ window' \in MIN_WINDOW..MAX_WINDOW /\ ackTimeoutCount' \in Nat
    BY <1>4 DEF Answered, WindowInv, WindowTypeOK
  <2> QED
    BY <2>1, EndWaitWindow
<1>5. CASE TimedOut
  <2>1. Narrowed \in MIN_WINDOW..MAX_WINDOW
    BY DEF Narrowed, WindowInv, WindowTypeOK
  <2>2. EndWait /\ window' \in MIN_WINDOW..MAX_WINDOW /\ ackTimeoutCount' \in Nat
    BY <1>5, <2>1 DEF TimedOut, WindowInv, WindowTypeOK
  <2> QED
    BY <2>2, EndWaitWindow
<1>6. CASE OnAckRequest
  <2>1. requests' \in Seq(1..MaxSequence) /\ Head(requests) \in 1..MaxSequence
    BY <1>6 DEF WindowInv, WindowTypeOK, OnAckRequest
  <2>2. Append(responses, Head(requests)) \in Seq(1..MaxSequence)
    BY <2>1 DEF WindowInv, WindowTypeOK
  <2>3. responses' \in Seq(1..MaxSequence)
    BY <1>6, <2>2, Zenon DEF WindowInv, WindowTypeOK, OnAckRequest
  <2> QED
    BY <1>6, <2>1, <2>3 DEF WindowInv, WindowTypeOK, OnePending, Distance, OnAckRequest
<1>7. CASE OnAckResponse
  <2>1. responses' \in Seq(1..MaxSequence)
    BY <1>7 DEF WindowInv, WindowTypeOK, OnAckResponse
  <2> QED
    BY <1>7, <2>1, Zenon DEF WindowInv, WindowTypeOK, OnePending, Distance, OnAckResponse
<1>8. CASE UNCHANGED windowVars
  BY <1>8 DEF WindowInv, WindowTypeOK, OnePending, Distance, windowVars
<1> QED
  BY <1>1, <1>2, <1>3, <1>4, <1>5, <1>6, <1>7, <1>8 DEF WindowNext

\* The invariant of the window.
LEMMA WindowInvariant == WindowSpec => []WindowInv
BY InitWindow, NextWindow, PTL DEF WindowSpec

----------------------------------------------------------------------------
\* Type correctness; with it, the window never leaves MIN_WINDOW..MAX_WINDOW,
\* whatever sequence of early, late and missing answers WaitAck meets.
THEOREM WindowInRange == WindowSpec => []WindowTypeOK
<1>1. WindowInv => WindowTypeOK
  BY DEF WindowInv
<1> QED
  BY <1>1, WindowInvariant, PTL

\* g_pendingList holds exactly the packet WaitAck will wait for.
THEOREM PendingIsAwaited == WindowSpec => []OnePending
<1>1. WindowInv => OnePending
  BY DEF WindowInv
<1> QED
  BY <1>1, WindowInvariant, PTL

\* The sender waits for an acknowledgement before it is a window ahead of it.
THEOREM AckIsDue == WindowSpec => []AckDue
<1>1. WindowInv => AckDue
  <2> SUFFICES ASSUME WindowInv, waitSequence # 0
               PROVE  sequence - waitSequence < window
    BY DEF AckDue
  <2>1. window \in Nat /\ window > 1 /\ sequence \in Nat
    BY WindowAssumption DEF WindowInv, WindowTypeOK
  <2>2. sequence % window \in 0..(window - 1)
    BY <2>1, DivMod
  <2> QED
    BY <2>1, <2>2 DEF WindowInv, Distance
<1> QED
  BY <1>1, WindowInvariant, PTL

----------------------------------------------------------------------------
(* The server.                                                             *)

\* The inductive invariant holds at the start.
LEMMA InitServerInv == ServerInit => ServerInv
<1> SUFFICES ASSUME ServerInit PROVE ServerInv
  OBVIOUS
<1> USE ServerAssumption DEF ServerInit, Servers, Ids
<1>1. ServerTypeOK
  BY DEF ServerTypeOK
<1>2. OpenIsOwned /\ CurrentIsAlive
  BY DEF OpenIsOwned, CurrentIsAlive
<1>3. NotShared
  BY DEF NotShared
<1>4. ServerRest
  BY DEF ServerRest
<1> QED
  BY <1>1, <1>2, <1>3, <1>4 DEF ServerInv

\* A start makes a new, unused ServerState.
LEMMA ConnBrStartServerInv ==
    ASSUME ServerInv, ConnBrStartServer
    PROVE  ServerInv'
<1> USE ServerAssumption DEF ConnBrStartServer, Servers, Ids
<1>0. ServerTypeOK /\ OpenIsOwned /\ CurrentIsAlive /\ NotShared /\ ServerRest
  BY DEF ServerInv
<1>1. ServerTypeOK'
  <2>1. current' \in 0..MaxStarts /\ started' \in 0..MaxStarts
    BY <1>0 DEF ServerTypeOK, ServerRest
  <2>2. available' \in [Servers -> BOOLEAN]
    BY <1>0, Zenon DEF ServerTypeOK
  <2>3. serverId' \in [Servers -> 0..MaxIds]
    BY <1>0 DEF ServerTypeOK
  <2>4. task' \in [Servers -> {"none", "check", "open", "record", "listen", "accept", "done"}]
    BY <1>0, Zenon DEF ServerTypeOK
  <2>5. handle' \in [Servers -> 0..MaxIds]
    BY <1>0 DEF ServerTypeOK
  <2>6. open' \subseteq Ids
    BY <1>0 DEF ServerTypeOK
  <2> QED
    BY <2>1, <2>2, <2>3, <2>4, <2>5, <2>6 DEF ServerTypeOK
<1>2. OpenIsOwned'
  BY <1>0 DEF ServerTypeOK, OpenIsOwned, NotShared, ServerRest
<1>3. CurrentIsAlive'
  BY <1>0 DEF ServerTypeOK, CurrentIsAlive, ServerRest
<1>4. NotShared'
  BY <1>0, ZenonT(60) DEF ServerTypeOK, NotShared, ServerRest
<1>5. ServerRest'
  BY <1>0, SMTT(60) DEF ServerTypeOK, NotShared, CurrentIsAlive, ServerRest
<1> QED
  BY <1>1, <1>2, <1>3, <1>4, <1>5 DEF ServerInv

\* A stop closes the socket its state names.
LEMMA ConnBrStopServerInv ==
    ASSUME ServerInv, ConnBrStopServer
    PROVE  ServerInv'
<1> USE ServerAssumption DEF ConnBrStopServer, Servers, Ids
<1>0. ServerTypeOK /\ OpenIsOwned /\ CurrentIsAlive /\ NotShared /\ ServerRest
  BY DEF ServerInv
<1>1. ServerTypeOK'
  <2>1. current' \in 0..MaxStarts /\ started' \in 0..MaxStarts
    BY <1>0 DEF ServerTypeOK, ServerRest
  <2>2. available' \in [Servers -> BOOLEAN]
    BY <1>0, Zenon DEF ServerTypeOK
  <2>3. serverId' \in [Servers -> 0..MaxIds]
    BY <1>0 DEF ServerTypeOK
  <2>4. task' \in [Servers -> {"none", "check", "open", "record", "listen", "accept", "done"}]
    BY <1>0, Zenon DEF ServerTypeOK
  <2>5. handle' \in [Servers -> 0..MaxIds]
    BY <1>0 DEF ServerTypeOK
  <2>6. open' \subseteq Ids
    BY <1>0, Zenon DEF ServerTypeOK
  <2> QED
    BY <2>1, <2>2, <2>3, <2>4, <2>5, <2>6, SMTT(60) DEF ServerTypeOK
<1>2. OpenIsOwned'
  BY <1>0 DEF ServerTypeOK, OpenIsOwned, NotShared, ServerRest
<1>3. CurrentIsAlive'
  BY <1>0 DEF ServerTypeOK, CurrentIsAlive, ServerRest
<1>4. NotShared'
  BY <1>0, SMTT(60) DEF ServerTypeOK, NotShared, ServerRest
<1>5. ServerRest'
  BY <1>0 DEF ServerTypeOK, NotShared, CurrentIsAlive, ServerRest
<1> QED
  BY <1>1, <1>2, <1>3, <1>4, <1>5 DEF ServerInv

\* A round begins: the socket of the last one is closed.
LEMMA CheckBrServerStateInv ==
    ASSUME NEW s \in Servers, ServerInv, CheckBrServerState(s)
    PROVE  ServerInv'
<1> USE ServerAssumption DEF CheckBrServerState, Servers, Ids
<1>0. ServerTypeOK /\ OpenIsOwned /\ CurrentIsAlive /\ NotShared /\ ServerRest
  BY DEF ServerInv
<1>1. ServerTypeOK'
  <2>1. current' \in 0..MaxStarts /\ started' \in 0..MaxStarts
    BY <1>0 DEF ServerTypeOK, ServerRest
  <2>2. available' \in [Servers -> BOOLEAN]
    BY <1>0, Zenon DEF ServerTypeOK
  <2>3. serverId' \in [Servers -> 0..MaxIds]
    <3>1. 0 \in 0..MaxIds /\ serverId \in [Servers -> 0..MaxIds]
      BY <1>0 DEF ServerTypeOK
    <3>2. serverId' = [serverId EXCEPT ![s] = 0] \/ serverId' = serverId
      BY Zenon
    <3> QED
      BY ONLY <3>1, <3>2
  <2>4. task' \in [Servers -> {"none", "check", "open", "record", "listen", "accept", "done"}]
    BY <1>0, Zenon DEF ServerTypeOK
  <2>5. handle' \in [Servers -> 0..MaxIds]
    BY <1>0 DEF ServerTypeOK
  <2>6. open' \subseteq Ids
    BY <1>0, Zenon DEF ServerTypeOK
  <2> QED
    BY <2>1, <2>2, <2>3, <2>4, <2>5, <2>6, SMTT(60) DEF ServerTypeOK
<1>2. OpenIsOwned'
  <2> SUFFICES ASSUME NEW id \in open'
               PROVE  \/ current' # 0 /\ serverId'[current'] = id
                      \/ \E t \in Servers : task'[t] = "record" /\ handle'[t] = id
    BY DEF OpenIsOwned
  <2>1. CASE available[s]
    <3>1. s = current /\ current # 0 /\ current' = current /\ id \in open /\ id # serverId[s]
      BY <1>0, <2>1 DEF ServerRest
    <3>2. PICK t \in Servers : task[t] = "record" /\ handle[t] = id
      BY <1>0, <3>1 DEF OpenIsOwned
    <3>3. task'[t] = "record" /\ handle'[t] = id
      BY <1>0, <2>1, <3>2 DEF ServerTypeOK
    <3> QED
      BY <3>3
  <2>2. CASE ~available[s]
    <3>1. UNCHANGED <<open, serverId, current, handle>> /\ task' = [task EXCEPT ![s] = "done"]
      BY <2>2
    <3>2. \A t \in Servers : task[t] = "record" => task'[t] = "record"
      BY <1>0, <3>1 DEF ServerTypeOK
    <3> QED
      BY <1>0, <3>1, <3>2 DEF OpenIsOwned
  <2> QED
    BY <2>1, <2>2
<1>3. CurrentIsAlive'
  BY <1>0, SMTT(60) DEF ServerTypeOK, CurrentIsAlive, ServerRest
<1>4. NotShared'
  <2> SUFFICES ASSUME NEW t \in Servers, NEW u \in Servers, t # u
               PROVE  /\ serverId'[t] = serverId'[u] => serverId'[t] = 0
                      /\ task'[t] = "record" => /\ handle'[t] # serverId'[u]
                                                /\ task'[u] = "record" => handle'[t] # handle'[u]
    BY DEF NotShared
  <2>1. \A v \in Servers : task'[v] = "record" => task[v] = "record" /\ handle'[v] = handle[v]
    BY <1>0, SMTT(60) DEF ServerTypeOK
  <2>2. \A v \in Servers : serverId'[v] = serverId[v] \/ serverId'[v] = 0
    BY <1>0, SMTT(60) DEF ServerTypeOK
  <2>3. \A v \in Servers : task[v] = "record" => handle[v] # 0
    BY <1>0 DEF ServerTypeOK, ServerRest
  <2> QED
    BY <1>0, <2>1, <2>2, <2>3 DEF NotShared
<1>5. ServerRest'
  BY <1>0, SMTT(60) DEF ServerTypeOK, NotShared, CurrentIsAlive, ServerRest
<1> QED
  BY <1>1, <1>2, <1>3, <1>4, <1>5 DEF ServerInv

\* The driver opens a socket that is not open yet.
LEMMA OpenSppServerInv ==
    ASSUME NEW s \in Servers, ServerInv, OpenSppServer(s)
    PROVE  ServerInv'
<1> USE ServerAssumption DEF OpenSppServer, Servers, Ids
<1>0. ServerTypeOK /\ OpenIsOwned /\ CurrentIsAlive /\ NotShared /\ ServerRest
  BY DEF ServerInv
<1>1. ServerTypeOK'
  <2>1. current' \in 0..MaxStarts /\ started' \in 0..MaxStarts
    BY <1>0 DEF ServerTypeOK, ServerRest
  <2>2. available' \in [Servers -> BOOLEAN]
    BY <1>0, Zenon DEF ServerTypeOK
  <2>3. serverId' \in [Servers -> 0..MaxIds]
    BY <1>0 DEF ServerTypeOK
  <2>4. task' \in [Servers -> {"none", "check", "open", "record", "listen", "accept", "done"}]
    BY <1>0, Zenon DEF ServerTypeOK
  <2>5. handle' \in [Servers -> 0..MaxIds]
    <3>1. CASE UNCHANGED handle
      BY <1>0, <3>1 DEF ServerTypeOK
    <3>2. CASE \E id \in Ids : handle' = [handle EXCEPT ![s] = id]
      <4>1. PICK id \in Ids : handle' = [handle EXCEPT ![s] = id]
        BY <3>2, Zenon
      <4>2. id \in 0..MaxIds /\ handle \in [Servers -> 0..MaxIds]
        BY <1>0, SMTT(60) DEF ServerTypeOK
      <4> QED
        BY ONLY <4>1, <4>2
    <3> QED
      BY <3>1, <3>2, Zenon
  <2>6. open' \subseteq Ids
    BY <1>0, Zenon DEF ServerTypeOK
  <2> QED
    BY <2>1, <2>2, <2>3, <2>4, <2>5, <2>6, SMTT(60) DEF ServerTypeOK
<1>2. OpenIsOwned'
  <2> SUFFICES ASSUME NEW id \in open'
               PROVE  \/ current' # 0 /\ serverId'[current'] = id
                      \/ \E t \in Servers : task'[t] = "record" /\ handle'[t] = id
    BY DEF OpenIsOwned
  <2>1. CASE task'[s] = "record"
    <3>1. id \in open \/ id = handle'[s]
      BY <1>0, <2>1, SMTT(60) DEF ServerTypeOK
    <3>2. \A t \in Servers : task[t] = "record" => task'[t] = "record" /\ handle'[t] = handle[t]
      BY <1>0, SMTT(60) DEF ServerTypeOK
    <3> QED
      BY <1>0, <2>1, <3>1, <3>2 DEF OpenIsOwned
  <2>2. CASE task'[s] # "record"
    <3>1. id \in open
      BY <1>0, <2>2 DEF ServerTypeOK
    <3>2. \A t \in Servers : task[t] = "record" => task'[t] = "record" /\ handle'[t] = handle[t]
      BY <1>0 DEF ServerTypeOK
    <3> QED
      BY <1>0, <3>1, <3>2 DEF OpenIsOwned
  <2> QED
    BY <2>1, <2>2
<1>3. CurrentIsAlive'
  BY <1>0, SMTT(60) DEF ServerTypeOK, CurrentIsAlive, ServerRest
<1>4. NotShared'
  <2> SUFFICES ASSUME NEW t \in Servers, NEW u \in Servers, t # u
               PROVE  /\ serverId'[t] = serverId'[u] => serverId'[t] = 0
                      /\ task'[t] = "record" => /\ handle'[t] # serverId'[u]
                                                /\ task'[u] = "record" => handle'[t] # handle'[u]
    BY DEF NotShared
  <2>1. \A v \in Servers : task'[v] = "record" =>
           (task[v] = "record" /\ handle'[v] = handle[v]) \/ (v = s /\ handle'[v] \notin open)
    BY <1>0, SMTT(60) DEF ServerTypeOK
  <2>2. \A v \in Servers : task[v] = "record" => handle[v] \in open
    BY <1>0 DEF ServerRest
  <2>3. \A v \in Servers : serverId'[v] = serverId[v] /\ (serverId[v] # 0 => serverId[v] \in open)
    BY <1>0 DEF ServerRest
  <2>4. task'[s] = "record" => handle'[s] # 0
    BY <1>0, SMTT(60) DEF ServerTypeOK
  <2> QED
    BY <1>0, <2>1, <2>2, <2>3, <2>4 DEF NotShared
<1>5. ServerRest'
  BY <1>0, SMTT(60) DEF ServerTypeOK, NotShared, CurrentIsAlive, ServerRest
<1> QED
  BY <1>1, <1>2, <1>3, <1>4, <1>5 DEF ServerInv

\* The socket is recorded, or closed if a stop came in between.
LEMMA RecordServerInv ==
    ASSUME NEW s \in Servers, ServerInv, RecordServer(s)
    PROVE  ServerInv'
<1> USE ServerAssumption DEF RecordServer, Servers, Ids
<1>0. ServerTypeOK /\ OpenIsOwned /\ CurrentIsAlive /\ NotShared /\ ServerRest
  BY DEF ServerInv
<1>1. ServerTypeOK'
  <2>1. current' \in 0..MaxStarts /\ started' \in 0..MaxStarts
    BY <1>0 DEF ServerTypeOK, ServerRest
  <2>2. available' \in [Servers -> BOOLEAN]
    BY <1>0, Zenon DEF ServerTypeOK
  <2>3. serverId' \in [Servers -> 0..MaxIds]
    BY <1>0, Zenon DEF ServerTypeOK
  <2>4. task' \in [Servers -> {"none", "check", "open", "record", "listen", "accept", "done"}]
    BY <1>0, Zenon DEF ServerTypeOK
  <2>5. handle' \in [Servers -> 0..MaxIds]
    BY <1>0 DEF ServerTypeOK
  <2>6. open' \subseteq Ids
    BY <1>0, Zenon DEF ServerTypeOK
  <2> QED
    BY <2>1, <2>2, <2>3, <2>4, <2>5, <2>6, SMTT(60) DEF ServerTypeOK
<1>2. OpenIsOwned'
  <2> SUFFICES ASSUME NEW id \in open'
               PROVE  \/ current' # 0 /\ serverId'[current'] = id
                      \/ \E t \in Servers : task'[t] = "record" /\ handle'[t] = id
    BY DEF OpenIsOwned
  <2>1. CASE available[s]
    <3>1. s = current /\ current # 0 /\ current' = current /\ id \in open
      BY <1>0, <2>1 DEF ServerRest
    <3>2. serverId'[current'] = handle[s] /\ serverId[current] = 0
      BY <1>0, <2>1, <3>1 DEF ServerTypeOK, ServerRest
    <3>3. id # 0
      BY <1>0, <3>1 DEF ServerTypeOK
    <3>4. PICK t \in Servers : task[t] = "record" /\ handle[t] = id
      BY <1>0, <3>1, <3>2, <3>3 DEF OpenIsOwned
    <3>5. t # s => task'[t] = "record" /\ handle'[t] = id
      BY <1>0, <3>4, SMTT(60) DEF ServerTypeOK
    <3> QED
      BY <3>1, <3>2, <3>4, <3>5
  <2>2. CASE ~available[s]
    <3>1. id \in open /\ id # handle[s] /\ UNCHANGED <<serverId, current, handle>>
      BY <2>2
    <3>2. \A t \in Servers : task[t] = "record" /\ t # s => task'[t] = "record"
      BY <1>0, <2>2 DEF ServerTypeOK
    <3> QED
      BY <1>0, <3>1, <3>2 DEF OpenIsOwned
  <2> QED
    BY <2>1, <2>2
<1>3. CurrentIsAlive'
  BY <1>0, SMTT(60) DEF ServerTypeOK, CurrentIsAlive, ServerRest
<1>4. NotShared'
  <2> SUFFICES ASSUME NEW t \in Servers, NEW u \in Servers, t # u
               PROVE  /\ serverId'[t] = serverId'[u] => serverId'[t] = 0
                      /\ task'[t] = "record" => /\ handle'[t] # serverId'[u]
                                                /\ task'[u] = "record" => handle'[t] # handle'[u]
    BY DEF NotShared
  <2>1. \A v \in Servers : task'[v] = "record" =>
           v # s /\ task[v] = "record" /\ handle'[v] = handle[v]
    BY <1>0, SMTT(60) DEF ServerTypeOK
  <2>2. \A v \in Servers : serverId'[v] = serverId[v] \/ (v = s /\ serverId'[v] = handle[s])
    BY <1>0, SMTT(60) DEF ServerTypeOK
  <2> QED
    BY <1>0, <2>1, <2>2 DEF NotShared
<1>5. ServerRest'
  BY <1>0, SMTT(60) DEF ServerTypeOK, NotShared, CurrentIsAlive, ServerRest
<1> QED
  BY <1>1, <1>2, <1>3, <1>4, <1>5 DEF ServerInv

\* The task reads the socket it will accept on.
LEMMA ReadServerIdInv ==
    ASSUME NEW s \in Servers, ServerInv, ReadServerId(s)
    PROVE  ServerInv'
<1> USE ServerAssumption DEF ReadServerId, Servers, Ids
<1>0. ServerTypeOK /\ OpenIsOwned /\ CurrentIsAlive /\ NotShared /\ ServerRest
  BY DEF ServerInv
<1>1. ServerTypeOK'
  <2>1. current' \in 0..MaxStarts /\ started' \in 0..MaxStarts
    BY <1>0 DEF ServerTypeOK, ServerRest
  <2>2. available' \in [Servers -> BOOLEAN]
    BY <1>0, Zenon DEF ServerTypeOK
  <2>3. serverId' \in [Servers -> 0..MaxIds]
    BY <1>0 DEF ServerTypeOK
  <2>4. task' \in [Servers -> {"none", "check", "open", "record", "listen", "accept", "done"}]
    BY <1>0, Zenon DEF ServerTypeOK
  <2>5. handle' \in [Servers -> 0..MaxIds]
    BY <1>0 DEF ServerTypeOK
  <2>6. open' \subseteq Ids
    BY <1>0 DEF ServerTypeOK
  <2> QED
    BY <2>1, <2>2, <2>3, <2>4, <2>5, <2>6 DEF ServerTypeOK
<1>2. OpenIsOwned'
  BY <1>0, SMTT(60) DEF ServerTypeOK, OpenIsOwned, NotShared, ServerRest
<1>3. CurrentIsAlive'
  BY <1>0 DEF ServerTypeOK, CurrentIsAlive, ServerRest
<1>4. NotShared'
  BY <1>0, SMTT(60) DEF ServerTypeOK, NotShared, ServerRest
<1>5. ServerRest'
  BY <1>0 DEF ServerTypeOK, NotShared, CurrentIsAlive, ServerRest
<1> QED
  BY <1>1, <1>2, <1>3, <1>4, <1>5 DEF ServerInv

\* Accept fails and a new round begins.
LEMMA AcceptFailsInv ==
    ASSUME NEW s \in Servers, ServerInv, AcceptFails(s)
    PROVE  ServerInv'
<1> USE ServerAssumption DEF AcceptFails, Servers, Ids
<1>0. ServerTypeOK /\ OpenIsOwned /\ CurrentIsAlive /\ NotShared /\ ServerRest
  BY DEF ServerInv
<1>1. ServerTypeOK'
  <2>1. current' \in 0..MaxStarts /\ started' \in 0..MaxStarts
    BY <1>0 DEF ServerTypeOK, ServerRest
  <2>2. available' \in [Servers -> BOOLEAN]
    BY <1>0, Zenon DEF ServerTypeOK
  <2>3. serverId' \in [Servers -> 0..MaxIds]
    BY <1>0 DEF ServerTypeOK
  <2>4. task' \in [Servers -> {"none", "check", "open", "record", "listen", "accept", "done"}]
    BY <1>0, Zenon DEF ServerTypeOK
  <2>5. handle' \in [Servers -> 0..MaxIds]
    BY <1>0 DEF ServerTypeOK
  <2>6. open' \subseteq Ids
    BY <1>0 DEF ServerTypeOK
  <2> QED
    BY <2>1, <2>2, <2>3, <2>4, <2>5, <2>6, SMTT(60) DEF ServerTypeOK
<1>2. OpenIsOwned'
  BY <1>0, SMTT(60) DEF ServerTypeOK, OpenIsOwned, NotShared, ServerRest
<1>3. CurrentIsAlive'
  BY <1>0 DEF ServerTypeOK, CurrentIsAlive, ServerRest
<1>4. NotShared'
  BY <1>0, SMTT(60) DEF ServerTypeOK, NotShared, ServerRest
<1>5. ServerRest'
  BY <1>0 DEF ServerTypeOK, NotShared, CurrentIsAlive, ServerRest
<1> QED
  BY <1>1, <1>2, <1>3, <1>4, <1>5 DEF ServerInv

\* Every step preserves the invariant.
LEMMA NextServerInv == ServerInv /\ [ServerNext]_serverVars => ServerInv'
<1> SUFFICES ASSUME ServerInv, [ServerNext]_serverVars PROVE ServerInv'
  OBVIOUS
<1>1. CASE UNCHANGED serverVars
  BY <1>1, Zenon DEF serverVars, ServerInv, ServerRest, ServerTypeOK, OpenIsOwned, CurrentIsAlive, NotShared
<1>2. CASE ConnBrStartServer \/ ConnBrStopServer
  BY <1>2, ConnBrStartServerInv, ConnBrStopServerInv
<1>3. ASSUME NEW s \in Servers, ListenTaskStep(s) \/ AcceptFails(s) PROVE ServerInv'
  BY <1>3, CheckBrServerStateInv, OpenSppServerInv, RecordServerInv, ReadServerIdInv,
     AcceptFailsInv DEF ListenTaskStep
<1> QED
  BY <1>1, <1>2, <1>3 DEF ServerNext

\* The invariant the properties follow from.
THEOREM ServerInvariant == ServerSpec => []ServerInv
BY InitServerInv, NextServerInv, PTL DEF ServerSpec

\* Every variable of the BR server keeps its type.
THEOREM ServerTypeCorrect == ServerSpec => []ServerTypeOK
<1>1. ServerInv => ServerTypeOK
  BY DEF ServerInv
<1> QED
  BY <1>1, ServerInvariant, PTL

\* No server socket leaks: a stop during OpenSppServer, or between two rounds of the
\* listen task, leaves none open without an owner.
THEOREM SocketsOwned == ServerSpec => []OpenIsOwned
<1>1. ServerInv => OpenIsOwned
  BY DEF ServerInv
<1> QED
  BY <1>1, ServerInvariant, PTL

\* g_serverState never points to a ServerState that its listen task has freed.
THEOREM StateAlive == ServerSpec => []CurrentIsAlive
<1>1. ServerInv => CurrentIsAlive
  BY DEF ServerInv
<1> QED
  BY <1>1, ServerInvariant, PTL

\* No two listen tasks hold one server socket, even when the driver reuses numbers.
THEOREM SocketsNotShared == ServerSpec => []NotShared
<1>1. ServerInv => NotShared
  BY DEF ServerInv
<1> QED
  BY <1>1, ServerInvariant, PTL

=============================================================================
