----------------------------- MODULE BrManager -----------------------------
(***************************************************************************)
(* The BR manager of a device: its looper takes connect requests, results  *)
(* of the connect and serve threads, timeouts and Bluetooth state changes  *)
(* one at a time, connects to one device after the other and keeps the     *)
(* requests that have to wait.                                             *)
(*                                                                         *)
(* Source: core/connection/br/src/softbus_conn_br_manager.c and the        *)
(*         threads of softbus_conn_br_connection.c.                        *)
(*                                                                         *)
(* The looper's queue holds the messages posted without delay, in order;   *)
(* a delayed message may become due at any moment.  The negotiation that   *)
(* closes a connection is module BrReference; here a connection just       *)
(* enters it and leaves it.  Memory and post failures are left out.        *)
(***************************************************************************)
EXTENDS Integers, Sequences, FiniteSets

CONSTANTS
    Addrs,           \* addresses of remote devices
    Requests,        \* connect requests
    AddrOf,          \* the address each request asks for
    MaxConnections,  \* bound: connections made
    MaxPends,        \* bound: calls of BrPendConnection from other components
    MaxResets,       \* bound: times Bluetooth is turned off
    MaxBreaks,       \* bound: links that break, connections disconnected from outside
    MaxNegotiations, \* bound: negotiations begun by the reference count
    MaxCollisions,   \* bound: attempts that fail with an ACL collision
    StartMayFail     \* TRUE: the connect thread may fail to start

ASSUME ManagerAssumption ==
    /\ AddrOf \in [Requests -> Addrs] /\ "none" \notin Addrs
    /\ \A n \in {MaxConnections, MaxPends, MaxResets, MaxBreaks, MaxNegotiations, MaxCollisions} :
          n \in Nat
    /\ StartMayFail \in BOOLEAN

VARIABLES
    mgr,         \* g_brManager.state
    connecting,  \* g_brManager.connecting
    waitings,    \* g_brManager.waitings
    pendings,    \* g_brManager.pendings, by address
    queue,       \* messages in the looper without delay
    timeouts,    \* MSG_CONNECT_TIMEOUT in the looper, by connection
    unpends,     \* MSG_UNPEND in the looper, by address
    fails,       \* MSG_CONNECT_FAIL in the looper, by connection
    conns,       \* the connections
    made,        \* connections made so far
    on,          \* g_brStateTurnOn
    asked,       \* requests made
    answers,     \* results given to each request
    spent        \* events of the environment so far

devices == <<connecting, waitings>>
timers == <<timeouts, unpends, fails>>
vars == <<mgr, devices, pendings, queue, timers, conns, made, on, asked, answers, spent>>

NoAddr == "none"
NoDevice == [addr |-> NoAddr, state |-> "INIT", reqs |-> {}]
Device(a, state, reqs) == [addr |-> a, state |-> state, reqs |-> reqs]
Msg(what, arg) == [what |-> what, arg |-> arg]
NextCmd == Msg("next", 0)

Ids == 1..MaxConnections
NoConnection == [addr |-> NoAddr, side |-> "none", state |-> "CLOSED", sock |-> FALSE,
                 listed |-> FALSE, thread |-> "none", rc |-> 0, granted |-> 0, collision |-> FALSE]

\* ConnBrCreateConnection and ConnBrSaveConnection.
ClientConnection(a) ==
    [NoConnection EXCEPT !.addr = a, !.side = "client", !.state = "CONNECTING",
                         !.listed = TRUE, !.thread = "connecting", !.rc = 1]
ServerConnection(a) ==
    [NoConnection EXCEPT !.addr = a, !.side = "server", !.state = "CONNECTED", !.sock = TRUE,
                         !.listed = TRUE, !.thread = "accepted", !.rc = 1]

\* The first of some places in a list, 0 for none.
First(places) == IF places = {} THEN 0 ELSE CHOOSE i \in places : \A j \in places : i <= j

\* ConnBrGetConnectionByAddr: the last match in a list that grows at its head.
Listed(a, side) == {c \in Ids : conns[c].listed /\ conns[c].addr = a /\ conns[c].side = side}
ByAddr(a, side) == First(Listed(a, side))
Connected(a) == {c \in Ids : conns[c].listed /\ conns[c].addr = a /\ conns[c].state = "CONNECTED"}

\* ConnBrDisconnectNow.  While it sleeps the state is CONNECTING; like CLOSED, that is
\* a state in which the connection cannot be reused.
Disconnected(c) == [conns EXCEPT ![c].state = "CLOSED", ![c].sock = FALSE]

----------------------------------------------------------------------------
(* Helpers of the handlers.                                                *)

Handles(what) == queue # <<>> /\ Head(queue).what = what
Arg == Head(queue).arg
Done(posts) == queue' = Tail(queue) \o posts
\* A delayed message leaves its own place.
Post(posts) == queue' = queue \o posts

\* TransitionToState(BR_STATE_AVAILABLE) posts MSG_NEXT_CMD when it enters the state.
Entered == IF mgr = "AVAILABLE" THEN <<>> ELSE <<NextCmd>>

\* NotifyDeviceConnectResult: each request has its result; on success each has a
\* reference, the first of a new connection the one it was made with.
Answered(reqs) == [r \in Requests |-> IF r \in reqs THEN answers[r] + 1 ELSE answers[r]]
\* Faulty variant: the reference a new connection is made with is forgotten.
GrantedTwice(c, reqs, reuse) ==
    [conns EXCEPT ![c].rc = @ + Cardinality(reqs), ![c].granted = @ + Cardinality(reqs)]

Granted(c, reqs, reuse) ==
    [conns EXCEPT ![c].rc = @ + Cardinality(reqs) - (IF reuse THEN 0 ELSE 1),
                  ![c].granted = @ + Cardinality(reqs)]

\* The first device of w with address a, and w without its i-th device.
Find(w, a) == First({i \in DOMAIN w : w[i].addr = a})
RemoveAt(w, i) == SubSeq(w, 1, i - 1) \o SubSeq(w, i + 1, Len(w))
\* Faulty variant: the device is not woken.
NotScheduled(w, a) == w

Scheduled(w, a) ==
    IF Find(w, a) = 0 THEN w ELSE [w EXCEPT ![Find(w, a)].state = "WAIT_SCHEDULE"]

\* The requests for a among the waiting devices, and the others.
RequestsFor(a) == UNION {waitings[i].reqs : i \in {j \in DOMAIN waitings : waitings[j].addr = a}}
Without(w, a) ==
    LET Kept[i \in 0..Len(w)] ==
            IF i = 0 THEN <<>>
            ELSE IF w[i].addr = a THEN Kept[i - 1] ELSE Append(Kept[i - 1], w[i])
    IN  Kept[Len(w)]

\* Faulty variant: the timeout stays.
KeepTimeout(c) == UNCHANGED timeouts
\* ConnRemoveMsgFromLooper(MSG_CONNECT_TIMEOUT).
CancelTimeout(c) == timeouts' = timeouts \ {c}

\* PendingDevice: d joins the device with its address, or waits at the end of w.
PendingDevice(d, w, cur) ==
    LET i == Find(w, d.addr)
    IN  IF cur.addr = d.addr
        THEN /\ connecting' = [cur EXCEPT !.reqs = @ \cup d.reqs]
             /\ waitings' = w
        ELSE /\ connecting' = cur
             /\ waitings' = IF i = 0 THEN Append(w, d) ELSE [w EXCEPT ![i].reqs = @ \cup d.reqs]

\* Faulty variant: no timeout is posted.
DirectlyUntimed(d, w) ==
    /\ made < MaxConnections
    /\ made' = made + 1
    /\ conns' = [conns EXCEPT ![made + 1] = ClientConnection(d.addr)]
    /\ connecting' = d
    /\ waitings' = w
    /\ mgr' = "CONNECTING"
    /\ UNCHANGED <<timeouts, answers>>

\* ConnectDeviceDirectly: a connection is made and its connect thread started.
ConnectDeviceDirectly(d, w) ==
    \/ /\ made < MaxConnections
       /\ made' = made + 1
       /\ conns' = [conns EXCEPT ![made + 1] = ClientConnection(d.addr)]
       /\ connecting' = d
       /\ waitings' = w
       /\ timeouts' = timeouts \cup {made + 1}
       /\ mgr' = "CONNECTING"
       /\ UNCHANGED answers
    \/ /\ StartMayFail \/ made = MaxConnections
       /\ answers' = Answered(d.reqs)
       /\ waitings' = w
       /\ UNCHANGED <<made, conns, connecting, timeouts, mgr>>

\* AttempReuseConnect: reuse a connection, by id, client or server; wait for what
\* becomes of one that is not ready; or, without any, wait for the end of a pend
\* or do what the state of the manager asks for.
AttempReuseConnect(d, w, hint, directly) ==
    LET a == d.addr
        client == ByAddr(a, "client")
        server == ByAddr(a, "server")
        reused == IF hint \in Connected(a) THEN hint
                  ELSE IF client \in Connected(a) THEN client
                  ELSE IF server \in Connected(a) THEN server ELSE 0
        Wait(state) == /\ PendingDevice([d EXCEPT !.state = state], w, connecting)
                       /\ UNCHANGED <<mgr, conns, made, timeouts, answers>>
    IN  IF client = 0 /\ server = 0
        THEN IF a \in pendings THEN Wait("PENDING")
             ELSE IF directly THEN ConnectDeviceDirectly([d EXCEPT !.state = "WAIT_SCHEDULE"], w)
             ELSE Wait("WAIT_SCHEDULE")
        ELSE IF reused # 0
        THEN /\ conns' = Granted(reused, d.reqs, TRUE)
             /\ answers' = Answered(d.reqs)
             /\ waitings' = w
             /\ UNCHANGED <<mgr, connecting, made, timeouts>>
        ELSE Wait("WAIT_EVENT")

----------------------------------------------------------------------------
(* The handlers of the looper.                                             *)

\* A request in the available state waits for its turn.
ConnectRequestOnAvailableState ==
    /\ Handles("connect") /\ mgr = "AVAILABLE"
    /\ IF on
       THEN /\ PendingDevice(Device(AddrOf[Arg], "WAIT_SCHEDULE", {Arg}), waitings, connecting)
            /\ Done(<<NextCmd>>)
            /\ UNCHANGED answers
       ELSE /\ answers' = Answered({Arg})
            /\ Done(<<>>)
            /\ UNCHANGED devices
    /\ UNCHANGED <<mgr, pendings, timers, conns, made, on, asked, spent>>

\* ... in the connecting state it is served from a connection, or waits.
ConnectRequestOnConnectingState ==
    /\ Handles("connect") /\ mgr = "CONNECTING"
    /\ \E hint \in {0} \cup Ids :
          AttempReuseConnect(Device(AddrOf[Arg], "INIT", {Arg}), waitings, hint, FALSE)
    /\ Done(<<>>)
    /\ UNCHANGED <<pendings, unpends, fails, on, asked, spent>>

\* MSG_NEXT_CMD: the first device that waits for its turn has it; in the
\* connecting state nothing happens.
HandlePendingRequest ==
    LET i == First({j \in DOMAIN waitings : waitings[j].state = "WAIT_SCHEDULE"})
    IN  /\ Handles("next")
        /\ IF mgr = "AVAILABLE" /\ i # 0
           THEN \E hint \in {0} \cup Ids :
                   AttempReuseConnect(waitings[i], RemoveAt(waitings, i), hint, TRUE)
           ELSE UNCHANGED <<mgr, devices, conns, made, timeouts, answers>>
        /\ Done(<<>>)
        /\ UNCHANGED <<pendings, unpends, fails, on, asked, spent>>

\* UnpendConnection, up to what it posts.
UnpendConnection(a) ==
    /\ unpends' = unpends \ {a}
    /\ pendings' = pendings \ {a}
Unpended(w, a) == IF a \in pendings THEN Scheduled(w, a) ELSE w
UnpendPosts(a) == IF a \in pendings THEN <<NextCmd>> ELSE <<>>

\* A peer has connected: its address is not pended any more, and the requests that
\* wait for it are served, unless a connection to it is being made.
ServerAccepted ==
    LET c == Arg
        a == conns[c].addr
    IN  /\ Handles("accepted")
        /\ conns[c].listed
        /\ UnpendConnection(a)
        /\ Done(UnpendPosts(a))
        /\ IF connecting.addr # a /\ conns[c].state = "CONNECTED"
           THEN /\ conns' = Granted(c, RequestsFor(a), TRUE)
                /\ answers' = Answered(RequestsFor(a))
                /\ waitings' = Without(waitings, a)
           ELSE /\ waitings' = Unpended(waitings, a)
                /\ UNCHANGED <<conns, answers>>
        /\ UNCHANGED <<mgr, connecting, timeouts, fails, made, on, asked, spent>>

\* A connection is made.  If it comes too late for its device, it serves the
\* device that waits for the address, or its reference is given back.
ClientConnected ==
    LET c == Arg
        a == conns[c].addr
        i == Find(waitings, a)
    IN  /\ Handles("success")
        /\ conns[c].listed
        /\ IF i # 0
           THEN /\ conns' = Granted(c, waitings[i].reqs, FALSE)
                /\ answers' = Answered(waitings[i].reqs)
                /\ waitings' = RemoveAt(waitings, i)
                /\ Done(<<>>)
                /\ UNCHANGED <<mgr, connecting, timeouts>>
           ELSE IF connecting.addr # a
           THEN /\ conns' = [conns EXCEPT ![c].rc = @ - 1,
                                          ![c].state = IF conns[c].rc <= 1
                                                       THEN "NEGOTIATION_CLOSING" ELSE @]
                /\ Done(<<>>)
                /\ UNCHANGED <<mgr, devices, timeouts, answers>>
           ELSE /\ CancelTimeout(c)
                /\ conns' = Granted(c, connecting.reqs, FALSE)
                /\ answers' = Answered(connecting.reqs)
                /\ connecting' = NoDevice
                /\ mgr' = "AVAILABLE"
                /\ Done(Entered)
                /\ UNCHANGED waitings
        /\ UNCHANGED <<pendings, unpends, fails, made, on, asked, spent>>

\* The connect thread of c has failed: the device is served by a connection of the
\* peer's, waits for another attempt after a collision, or its requests fail.
ClientConnectFailed(c) ==
    LET a == conns[c].addr
        server == ByAddr(a, "server")
        removed == [Disconnected(c) EXCEPT ![c].listed = FALSE]
    IN  /\ c \in fails
        /\ fails' = fails \ {c}
        /\ CancelTimeout(c)
        /\ IF connecting.addr # a
           THEN /\ waitings' = Scheduled(waitings, a)
                /\ conns' = removed
                /\ Post(<<NextCmd>>)
                /\ UNCHANGED <<mgr, connecting, pendings, unpends, answers>>
           ELSE /\ mgr' = "AVAILABLE"
                /\ Post(Entered)
                /\ IF server \in Connected(a)
                   THEN /\ conns' = [Granted(server, connecting.reqs, TRUE) EXCEPT ![c] = removed[c]]
                        /\ answers' = Answered(connecting.reqs)
                        /\ connecting' = NoDevice
                        /\ UNCHANGED <<waitings, pendings, unpends>>
                   ELSE IF conns[c].collision
                   THEN /\ pendings' = pendings \cup {a}
                        /\ unpends' = unpends \cup {a}
                        /\ PendingDevice([connecting EXCEPT !.state = "PENDING"], waitings, NoDevice)
                        /\ conns' = removed
                        /\ UNCHANGED answers
                   ELSE /\ answers' = Answered(connecting.reqs)
                        /\ connecting' = NoDevice
                        /\ conns' = removed
                        /\ UNCHANGED <<waitings, pendings, unpends>>
        /\ UNCHANGED <<made, on, asked, spent>>

\* The timeout of an attempt; in the available state nothing happens.
ClientConnectTimeout(c) ==
    /\ c \in timeouts
    /\ timeouts' = timeouts \ {c}
    /\ IF mgr = "CONNECTING" /\ connecting.addr = conns[c].addr
       THEN /\ answers' = Answered(connecting.reqs)
            /\ connecting' = NoDevice
            /\ mgr' = "AVAILABLE"
            /\ Post(Entered)
       ELSE UNCHANGED <<mgr, connecting, answers, queue>>
    /\ UNCHANGED <<waitings, pendings, unpends, fails, conns, made, on, asked, spent>>

\* A connection has ended.
ConnectionException ==
    LET c == Arg
    IN  /\ Handles("exception")
        /\ conns[c].listed
        /\ conns' = [Disconnected(c) EXCEPT ![c].listed = FALSE]
        /\ waitings' = Scheduled(waitings, conns[c].addr)
        /\ Done(<<NextCmd>>)
        /\ UNCHANGED <<mgr, connecting, pendings, timers, made, on, asked, answers, spent>>

\* A negotiation has ended with the connection in use again.
ConnectionResume ==
    LET c == Arg
        a == conns[c].addr
    IN  /\ Handles("resume")
        /\ IF conns[c].listed /\ conns[c].state = "CONNECTED"
           THEN /\ conns' = Granted(c, RequestsFor(a), TRUE)
                /\ answers' = Answered(RequestsFor(a))
                /\ waitings' = Without(waitings, a)
           ELSE UNCHANGED <<conns, answers, waitings>>
        /\ Done(<<>>)
        /\ UNCHANGED <<mgr, connecting, pendings, timers, made, on, asked, spent>>

Unpend(a) ==
    /\ a \in unpends
    /\ UnpendConnection(a)
    /\ waitings' = Unpended(waitings, a)
    /\ Post(UnpendPosts(a))
    /\ UNCHANGED <<mgr, connecting, timeouts, fails, conns, made, on, asked, answers, spent>>

\* Bluetooth is off: every request fails, every connection is closed but stays in
\* the list, and the manager is available again.
ResetTo(answered, listed) ==
    /\ Handles("reset")
    /\ answers' = Answered(answered)
    /\ CancelTimeout(ByAddr(connecting.addr, "client"))
    /\ connecting' = NoDevice
    /\ waitings' = <<>>
    /\ unpends' = unpends \ pendings
    /\ pendings' = {}
    /\ conns' = [c \in Ids |-> IF conns[c].listed
                              THEN [Disconnected(c)[c] EXCEPT !.listed = listed] ELSE conns[c]]
    /\ mgr' = "AVAILABLE"
    /\ Done(Entered)
    /\ UNCHANGED <<fails, made, on, asked, spent>>
WaitingRequests == UNION {waitings[i].reqs : i \in DOMAIN waitings}

\* Faulty variants: the waiting requests are dropped, the connections are removed.
ResetDrops == ResetTo(connecting.reqs, TRUE)
ResetRemoves == ResetTo(connecting.reqs \cup WaitingRequests, FALSE)

Reset == ResetTo(connecting.reqs \cup WaitingRequests, TRUE)

----------------------------------------------------------------------------
(* The other threads.                                                      *)

\* BrConnectDevice posts the request.
BrConnectDevice(r) ==
    /\ r \notin asked
    /\ asked' = asked \cup {r}
    /\ Post(<<Msg("connect", r)>>)
    /\ UNCHANGED <<mgr, devices, pendings, timers, conns, made, on, answers, spent>>

Others == <<mgr, devices, pendings, timeouts, unpends, on, asked, answers>>

\* The connect thread: the driver has connected, or refused; a connection that was
\* disconnected meanwhile is given up.
StartBrClientConnect(c) ==
    /\ conns[c].thread = "connecting"
    /\ \/ /\ conns[c].state = "CONNECTING"
          /\ conns' = [conns EXCEPT ![c].state = "CONNECTED", ![c].sock = TRUE,
                                    ![c].thread = "connected"]
          /\ UNCHANGED <<fails, spent>>
       \/ \E collision \in BOOLEAN :
             /\ collision => spent.collisions < MaxCollisions
             /\ spent' = [spent EXCEPT !.collisions = @ + IF collision THEN 1 ELSE 0]
             /\ conns' = [conns EXCEPT ![c].thread = "failed", ![c].collision = collision]
             /\ fails' = fails \cup {c}
    /\ UNCHANGED <<Others, queue, made>>

\* onClientConnected, onServerAccepted.
Announce(c) ==
    /\ conns[c].thread \in {"connected", "accepted"}
    /\ conns' = [conns EXCEPT ![c].thread = "reading"]
    /\ Post(<<Msg(IF conns[c].side = "client" THEN "success" ELSE "accepted", c)>>)
    /\ UNCHANGED <<Others, fails, made, spent>>

\* CreateAndSaveConnection in a serve thread.
Accept(a) ==
    /\ on /\ made < MaxConnections
    /\ made' = made + 1
    /\ conns' = [conns EXCEPT ![made + 1] = ServerConnection(a)]
    /\ UNCHANGED <<Others, queue, fails, spent>>

\* The read loop ends, because the socket is closed or the link breaks.
LoopReadExit(c) ==
    /\ conns[c].thread = "reading"
    /\ conns[c].sock => spent.breaks < MaxBreaks
    /\ spent' = [spent EXCEPT !.breaks = @ + IF conns[c].sock THEN 1 ELSE 0]
    /\ conns' = [Disconnected(c) EXCEPT ![c].thread = "done"]
    /\ Post(<<Msg("exception", c)>>)
    /\ UNCHANGED <<Others, fails, made>>

\* Another component disconnects a connection at once.
BrDisconnectDeviceNow(c) ==
    /\ c = ByAddr(conns[c].addr, conns[c].side)
    /\ spent.breaks < MaxBreaks
    /\ spent' = [spent EXCEPT !.breaks = @ + 1]
    /\ conns' = Disconnected(c)
    /\ UNCHANGED <<Others, queue, fails, made>>

\* The reference count of a connection begins a negotiation, which ends with a
\* resume or with the connection closed.
Negotiate(c) ==
    /\ conns[c].state = "CONNECTED" /\ conns[c].thread = "reading"
    /\ spent.negotiations < MaxNegotiations
    /\ spent' = [spent EXCEPT !.negotiations = @ + 1]
    /\ conns' = [conns EXCEPT ![c].state = "NEGOTIATION_CLOSING"]
    /\ UNCHANGED <<Others, queue, fails, made>>

EndNegotiation(c) ==
    /\ conns[c].state = "NEGOTIATION_CLOSING"
    /\ \/ /\ conns[c].sock
          /\ conns' = [conns EXCEPT ![c].state = "CONNECTED"]
          /\ Post(<<Msg("resume", c)>>)
       \/ conns' = Disconnected(c) /\ UNCHANGED queue
    /\ UNCHANGED <<Others, fails, made, spent>>

\* Faulty variant: no MSG_UNPEND is posted.
BrPendUntimed(a) ==
    /\ spent.pends < MaxPends
    /\ spent' = [spent EXCEPT !.pends = @ + 1]
    /\ pendings' = pendings \cup {a}
    /\ UNCHANGED <<mgr, devices, queue, timers, conns, made, on, asked, answers>>

\* BrPendConnection from another component.
BrPendConnection(a) ==
    /\ spent.pends < MaxPends
    /\ spent' = [spent EXCEPT !.pends = @ + 1]
    /\ pendings' = pendings \cup {a}
    /\ unpends' = unpends \cup {a}
    /\ UNCHANGED <<mgr, devices, queue, timeouts, fails, conns, made, on, asked, answers>>

OnBtStateChanged ==
    /\ on => spent.resets < MaxResets
    /\ spent' = [spent EXCEPT !.resets = @ + IF on THEN 1 ELSE 0]
    /\ on' = ~on
    /\ Post(IF on THEN <<Msg("reset", 0)>> ELSE <<>>)
    /\ UNCHANGED <<mgr, devices, pendings, timers, conns, made, asked, answers>>

----------------------------------------------------------------------------
Init ==
    /\ mgr = "AVAILABLE"
    /\ connecting = NoDevice
    /\ waitings = <<>>
    /\ pendings = {}
    /\ queue = <<NextCmd>>
    /\ timeouts = {} /\ unpends = {} /\ fails = {}
    /\ conns = [c \in Ids |-> NoConnection]
    /\ made = 0
    /\ on = FALSE
    /\ asked = {}
    /\ answers = [r \in Requests |-> 0]
    /\ spent = [pends |-> 0, resets |-> 0, breaks |-> 0, negotiations |-> 0, collisions |-> 0]

QueueStep ==
    \/ ConnectRequestOnAvailableState \/ ConnectRequestOnConnectingState
    \/ HandlePendingRequest \/ ServerAccepted \/ ClientConnected
    \/ ConnectionException \/ ConnectionResume \/ Reset

TimerStep ==
    \/ \E c \in Ids : ClientConnectFailed(c) \/ ClientConnectTimeout(c)
    \/ \E a \in Addrs : Unpend(a)

ThreadStep(c) == StartBrClientConnect(c) \/ Announce(c) \/ LoopReadExit(c) \/ EndNegotiation(c)

EnvStep ==
    \/ \E r \in Requests : BrConnectDevice(r)
    \/ \E a \in Addrs : Accept(a) \/ BrPendConnection(a)
    \/ \E c \in Ids : BrDisconnectDeviceNow(c) \/ Negotiate(c)
    \/ OnBtStateChanged

Next == QueueStep \/ TimerStep \/ (\E c \in Ids : ThreadStep(c)) \/ EnvStep

Spec == Init /\ [][Next]_vars

\* The looper handles its messages, the delayed ones become due, the driver's calls
\* return and a read loop notices that its socket is closed.
Fairness ==
    /\ WF_vars(QueueStep)
    /\ WF_vars(TimerStep)
    /\ \A c \in Ids : WF_vars(/\ ThreadStep(c)
                              /\ conns[c].thread = "reading" =>
                                    ~conns[c].sock \/ conns[c].state = "NEGOTIATION_CLOSING")

FairSpec == Spec /\ Fairness

----------------------------------------------------------------------------
(* Properties.                                                             *)

\* The device a request belongs to: the one being connected, or a waiting one.
Holds(r) == Cardinality({i \in DOMAIN waitings : r \in waitings[i].reqs})
            + (IF r \in connecting.reqs THEN 1 ELSE 0)
InQueue(r) == Cardinality({i \in DOMAIN queue : queue[i] = Msg("connect", r)})

\* No request is lost or answered twice: at any time it is in the looper's queue,
\* in one device, or answered.
RequestKept ==
    \A r \in Requests : InQueue(r) + Holds(r) + answers[r] = IF r \in asked THEN 1 ELSE 0

\* In the connecting state, and only there, a device is being connected; its
\* attempt has a timeout and a connection whose result is still to come.
ConnectingIsTimed ==
    /\ mgr = "CONNECTING" <=> connecting # NoDevice
    /\ mgr = "CONNECTING" =>
          \E c \in Listed(connecting.addr, "client") :
              /\ c \in timeouts
              /\ \/ conns[c].thread \in {"connecting", "connected"}
                 \/ c \in fails
                 \/ \E i \in DOMAIN queue : queue[i] = Msg("success", c)

\* A timeout in the looper belongs to the attempt that is being made: none is left
\* to end a later attempt for the address.
NoStaleTimeout == \A c \in timeouts : mgr = "CONNECTING" /\ conns[c].addr = connecting.addr

\* A device that waits for an event has a connection whose end or resume wakes it;
\* one that waits for the end of a pend has a MSG_UNPEND on its way.
WaitIsWoken ==
    \A i \in DOMAIN waitings :
        /\ waitings[i].state = "WAIT_EVENT" =>
              \E c \in Ids : conns[c].listed /\ conns[c].addr = waitings[i].addr
        /\ waitings[i].state = "PENDING" => waitings[i].addr \in pendings \cap unpends

\* A connection counts one reference for each request it was given to, and the one
\* it was made with until that is handed on: to its first request, or back.
GrantsCounted ==
    \A c \in Ids : conns[c].listed =>
        conns[c].rc = conns[c].granted
            + (IF \/ conns[c].side = "server"
                  \/ conns[c].thread \in {"connecting", "connected", "failed"}
                  \/ \E i \in DOMAIN queue : queue[i] = Msg("success", c)
               THEN 1 ELSE 0)

\* The message of a thread finds its connection in the list: a reset closes the
\* connections and leaves it to their own last messages to remove them.
EventFindsConnection ==
    /\ \A c \in fails : conns[c].listed
    /\ \A i \in DOMAIN queue :
          queue[i].what \in {"accepted", "success", "exception"} => conns[queue[i].arg].listed

\* A request does not wait for an event or the end of a pend for ever: it is
\* answered, or its device is ready for its turn.
WaitEnds ==
    \A r \in Requests :
        (\E i \in DOMAIN waitings : r \in waitings[i].reqs /\ waitings[i].state # "WAIT_SCHEDULE")
            ~> \/ answers[r] = 1
               \/ \E i \in DOMAIN waitings :
                      r \in waitings[i].reqs /\ waitings[i].state = "WAIT_SCHEDULE"

=============================================================================
