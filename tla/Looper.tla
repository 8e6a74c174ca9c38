-------------------------------- MODULE Looper --------------------------------
(***************************************************************************)
(* The message looper (core/common/message_handler/message_handler.c): a   *)
(* list of messages sorted by the time they are due, a thread that hands   *)
(* them to their handlers, and the destruction of both.  Everything the    *)
(* connection, authentication and bus centre modules do in order is done   *)
(* on such a thread.                                                       *)
(*                                                                         *)
(* What is done under context->lock, up to a wait or the unlock, is one    *)
(* step.  Time is a counter that Tick advances.  A message is its what,    *)
(* its due time and the number of its insertion, which only the properties *)
(* look at.                                                                *)
(*                                                                         *)
(* The threads that post finish before LooperDeinit is called: the context *)
(* is freed by it.  A handler may go on posting while the looper stops.    *)
(***************************************************************************)
EXTENDS Integers, Sequences, FiniteSets

CONSTANTS
  Posters,      \* threads that post and remove messages
  What,         \* the values of msg->what
  MaxDelay,     \* delays are 0..MaxDelay
  MaxTime,      \* bound: the clock stops here
  MaxPosts,     \* bound: messages posted
  MaxRemoves    \* bound: calls of RemoveMessage

ASSUME LooperAssumption ==
  MaxDelay \in Nat /\ MaxTime \in Nat /\ MaxPosts \in Nat /\ MaxRemoves \in Nat

VARIABLES
  now,
  msgs,         \* context->msgHead
  running, stop,
  started,      \* g_isThreadStarted
  needDestroy,  \* g_isNeedDestroy
  thread,       \* where LoopTask is
  until,        \* the deadline of its timed wait
  current,      \* context->currentMsg
  posting,      \* the message each poster is about to insert
  posts, removes,
  deinit,       \* where the caller of LooperDeinit is
  freed         \* DestroyLooper has freed the context

listVars == <<msgs, posts, removes>>
flags == <<running, stop, started, needDestroy>>
loopVars == <<thread, until, current>>
vars == <<now, listVars, flags, loopVars, posting, deinit, freed>>

NoMsg == [what |-> 0, time |-> 0, n |-> 0]

\* The poster that is the handler itself, on the loop thread.
Handler == "handler"

Init ==
  /\ now = 0
  /\ msgs = <<>> /\ posts = 0 /\ removes = 0
  /\ running = FALSE /\ stop = FALSE /\ started = FALSE /\ needDestroy = FALSE
  /\ thread = "created" /\ until = 0 /\ current = NoMsg
  /\ posting = [p \in Posters \cup {Handler} |-> NoMsg]
  /\ deinit = "none"
  /\ freed = FALSE

Tick ==
  /\ now < MaxTime
  /\ now' = now + 1
  /\ UNCHANGED <<listVars, flags, loopVars, posting, deinit, freed>>

-----------------------------------------------------------------------------
(* Posting and removing *)

MayCall(p) ==
  /\ posting[p] = NoMsg
  /\ IF p = Handler THEN thread = "handle" ELSE deinit = "none"

\* LooperPostMessage and LooperPostMessageDelay read the clock before they take the lock.
LooperPostMessage(p) ==
  /\ MayCall(p)
  /\ posts + Cardinality({q \in DOMAIN posting : posting[q] # NoMsg}) < MaxPosts
  /\ \E what \in What, delay \in 0..MaxDelay :
       /\ now + delay <= MaxTime
       /\ posting' = [posting EXCEPT ![p] = [what |-> what, time |-> now + delay, n |-> 0]]
  /\ UNCHANGED <<now, listVars, flags, loopVars, deinit, freed>>

\* Faulty variant: a thread that waits for the time of a message is not woken.
BroadcastUntimed == thread' = IF thread = "wait" THEN "loop" ELSE thread

\* A broadcast on context->cond: the loop thread goes round again.
Broadcast == thread' = IF thread \in {"wait", "timed"} THEN "loop" ELSE thread

InsertAt(s, i, m) == SubSeq(s, 1, i - 1) \o <<m>> \o SubSeq(s, i, Len(s))

\* The first of some places in s, the end for none.
First(s, places) ==
  IF places = {} THEN Len(s) + 1 ELSE CHOOSE i \in places : \A j \in places : i <= j

\* Faulty variant: before the messages that are due at the same time.
InsertMsgFirst(s, m) == InsertAt(s, First(s, {i \in DOMAIN s : s[i].time >= m.time}), m)

\* The place before the first message that is due later.
InsertMsg(s, m) == InsertAt(s, First(s, {i \in DOMAIN s : s[i].time > m.time}), m)

PostMessageAtTime(p) ==
  /\ posting[p] # NoMsg
  /\ posting' = [posting EXCEPT ![p] = NoMsg]
  /\ posts' = posts + 1
  /\ IF stop
       THEN UNCHANGED <<msgs, thread>>
       ELSE /\ msgs' = InsertMsg(msgs, [posting[p] EXCEPT !.n = posts'])
            /\ Broadcast
  /\ UNCHANGED <<now, removes, flags, until, current, deinit, freed>>

\* s without the messages of this kind; the others stay in their order.
RemoveMsgs(s, what) ==
  LET kept == {i \in DOMAIN s : s[i].what # what}
      count == Cardinality(kept)
      place == CHOOSE p \in [1..count -> kept] : \A j, k \in 1..count : j < k => p[j] < p[k]
  IN  [k \in 1..count |-> s[place[k]]]

\* LooperRemoveMessage does nothing before the thread has started and once it is to stop.
LooperRemoveMessage(p, what) ==
  /\ MayCall(p)
  /\ removes < MaxRemoves
  /\ removes' = removes + 1
  /\ msgs' = IF running /\ ~stop THEN RemoveMsgs(msgs, what) ELSE msgs
  /\ UNCHANGED <<now, posts, flags, loopVars, posting, deinit, freed>>

-----------------------------------------------------------------------------
(* LoopTask *)

LoopStarts ==
  /\ thread = "created"
  /\ thread' = "loop"
  /\ running' = TRUE
  /\ started' = TRUE
  /\ UNCHANGED <<now, listVars, stop, needDestroy, until, current, posting, deinit, freed>>

\* One turn of the loop: it stops, waits, or takes the first message if that is due.
LoopTurn ==
  /\ thread = "loop"
  /\ IF stop \/ needDestroy
       THEN thread' = "ending" /\ UNCHANGED <<msgs, until, current>>
     ELSE IF msgs = <<>>
       THEN thread' = "wait" /\ UNCHANGED <<msgs, until, current>>
     ELSE IF now < Head(msgs).time
       THEN thread' = "timed" /\ until' = Head(msgs).time /\ UNCHANGED <<msgs, current>>
     ELSE /\ thread' = "handle"
          /\ current' = Head(msgs)
          /\ msgs' = Tail(msgs)
          /\ UNCHANGED until
  /\ UNCHANGED <<now, posts, removes, flags, posting, deinit, freed>>

\* Faulty variant: the wait is a thousand times too long.
TimedWaitEndsLate ==
  /\ thread = "timed"
  /\ now >= until * 1000
  /\ thread' = "loop"
  /\ UNCHANGED <<now, listVars, flags, until, current, posting, deinit, freed>>

TimedWaitEnds ==
  /\ thread = "timed"
  /\ now >= until
  /\ thread' = "loop"
  /\ UNCHANGED <<now, listVars, flags, until, current, posting, deinit, freed>>

\* HandleMessage returns and the message is freed.
HandlerReturns ==
  /\ thread = "handle"
  /\ posting[Handler] = NoMsg
  /\ thread' = "loop"
  /\ current' = NoMsg
  /\ UNCHANGED <<now, listVars, flags, until, posting, deinit, freed>>

\* Faulty variant: the destroyer is not woken.
WakeDestroyerNot == UNCHANGED deinit

\* The broadcast on condRunning.
WakeDestroyer == deinit' = IF deinit = "waitRunning" THEN "destroy" ELSE deinit

LoopEnds ==
  /\ thread = "ending"
  /\ running' = FALSE
  /\ WakeDestroyer
  /\ thread' = IF needDestroy THEN "deinit" ELSE "ended"
  /\ UNCHANGED <<now, listVars, stop, started, needDestroy, until, current, posting, freed>>

\* The destruction that was left to the thread: it has cleared running, and waits for nobody.
LoopDestroys ==
  /\ thread = "deinit"
  /\ stop' = TRUE
  /\ msgs' = <<>>
  /\ freed' = TRUE
  /\ thread' = "ended"
  /\ UNCHANGED <<now, posts, removes, running, started, needDestroy, until, current, posting, deinit>>

-----------------------------------------------------------------------------
(* LooperDeinit and DestroyLooper *)

\* Faulty variant: the looper is destroyed whether its thread has started or not.
LooperDeinitAtOnce ==
  /\ deinit = "none"
  /\ \A p \in Posters : posting[p] = NoMsg
  /\ deinit' = "stop"
  /\ UNCHANGED <<now, listVars, flags, loopVars, posting, freed>>

\* LooperDeinit leaves the destruction to the thread if that has not started.
LooperDeinit ==
  /\ deinit = "none"
  /\ \A p \in Posters : posting[p] = NoMsg
  /\ IF started
       THEN deinit' = "stop" /\ UNCHANGED needDestroy
       ELSE deinit' = "done" /\ needDestroy' = TRUE
  /\ UNCHANGED <<now, listVars, running, stop, started, loopVars, posting, freed>>

\* DestroyLooper sets stop ...
DestroyStops ==
  /\ deinit = "stop"
  /\ stop' = TRUE
  /\ Broadcast
  /\ deinit' = "destroy"
  /\ UNCHANGED <<now, listVars, running, started, needDestroy, until, current, posting, freed>>

\* ... waits until the thread is no longer running, and frees the messages and the context.
DestroyLooper ==
  /\ deinit = "destroy"
  /\ IF running
       THEN deinit' = "waitRunning" /\ UNCHANGED <<msgs, freed>>
       ELSE deinit' = "done" /\ msgs' = <<>> /\ freed' = TRUE
  /\ UNCHANGED <<now, posts, removes, flags, loopVars, posting>>

LoopStep ==
  LoopStarts \/ LoopTurn \/ TimedWaitEnds \/ HandlerReturns \/ LoopEnds \/ LoopDestroys

CallStep(p) == LooperPostMessage(p) \/ \E what \in What : LooperRemoveMessage(p, what)

DestroyStep == DestroyStops \/ DestroyLooper

Next ==
  \/ Tick
  \/ LoopStep
  \/ \E p \in Posters \cup {Handler} : CallStep(p) \/ PostMessageAtTime(p)
  \/ LooperDeinit
  \/ DestroyStep

Spec == Init /\ [][Next]_vars

\* Threads are scheduled, time passes and handlers return.
FairSpec ==
  /\ Spec
  /\ WF_vars(Tick)
  /\ WF_vars(LoopStep)
  /\ \A p \in Posters \cup {Handler} : WF_vars(PostMessageAtTime(p))
  /\ WF_vars(DestroyStep)

-----------------------------------------------------------------------------
(* Properties *)

Precedes(m, k) == m.time < k.time \/ (m.time = k.time /\ m.n < k.n)

\* A message is handed to its handler once it is due, before every message that is due later
\* and before those that were posted after it for the same time.
HandledInOrder ==
  [][current' # current /\ current' # NoMsg =>
       /\ current'.time <= now
       /\ \A i \in DOMAIN msgs : msgs[i] = current' \/ Precedes(current', msgs[i])]_vars

\* The thread never sleeps past the time the first message is due, whatever was posted or
\* removed while it slept.
NoOversleep ==
  /\ thread = "wait" => msgs = <<>>
  /\ thread = "timed" => msgs = <<>> \/ until <= Head(msgs).time

\* The context is freed only when the loop thread does not touch it any more.
ContextOutlivesThread == freed => thread = "ended"

\* A message that was posted is handled or removed, or the looper is stopped.
PostedIsHandled ==
  \A n \in 1..MaxPosts :
    (\E i \in DOMAIN msgs : msgs[i].n = n) ~> ~ \E i \in DOMAIN msgs : msgs[i].n = n

\* LooperDeinit ends with the looper destroyed, by its caller or by the loop thread.
DeinitDestroys == deinit # "none" ~> freed
=============================================================================
