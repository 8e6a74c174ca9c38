---------------------------- MODULE BrReference ----------------------------
(***************************************************************************)
(* One established BR (Bluetooth classic) connection seen from both ends:  *)
(* the reference count that the two devices keep for it, the control       *)
(* frames that keep the counts in step, the negotiation that closes the    *)
(* link when nobody needs it, and the threads that run it.  On each device *)
(* a looper thread runs the manager's and the connection's handlers one    *)
(* message at a time, a read thread turns frames into looper messages, and *)
(* the send thread moves queued frames to the socket, high priority first. *)
(*                                                                         *)
(* Source: core/connection/br/src/softbus_conn_br_connection.c,            *)
(*         softbus_conn_br_manager.c and softbus_conn_br_trans.c.          *)
(*                                                                         *)
(* The looper's queue merges streams from independent sources: the read    *)
(* thread, the users, and the looper's own delayed messages.  The order    *)
(* between sources is arbitrary, so the model lets the looper take the     *)
(* next message of any source and keeps the order within each one.  A      *)
(* delayed message may become due at any moment.                           *)
(***************************************************************************)
EXTENDS Integers, Sequences, FiniteSets

CONSTANTS
    Client, Server,   \* the two ends of the connection
    MaxAcquire,       \* bound: connect requests in all
    MaxRelease,       \* bound: disconnect requests in all
    MaxOccupy,        \* bound: BrCheckActiveConnection(.., needOccupy) calls in all
    OverRelease,      \* TRUE: a device may release references it did not take
    LinkLoss          \* TRUE: the radio link may break

ASSUME ReferenceAssumption ==
    /\ Client # Server
    /\ MaxAcquire \in Nat /\ MaxRelease \in Nat /\ MaxOccupy \in Nat
    /\ OverRelease \in BOOLEAN /\ LinkLoss \in BOOLEAN

VARIABLES
    state,      \* connection->state
    rc,         \* connection->connectionRc
    sock,       \* connection->socketHandle is valid
    occupied,   \* connection->isOccupied
    present,    \* the connection is in g_brManager.connections
    checked,    \* a user thread is between BrCheckActiveConnection's test and ConnBrOccupy
    disc,       \* thread inside ConnBrDisconnectNow, between its two critical sections
    reading,    \* the read thread is in LoopRead
    inbox,      \* frames for n: on the link, or read and waiting in the looper
    todo,       \* the looper messages n posted to itself
    waiting,    \* requests parked in g_brManager.waitings for this address
    sendq,      \* control frames in the send queue, by priority
    linkUp,     \* the link exists
    acquired,   \* references granted to the users of a device
    released,   \* disconnect requests made by the users of a device
    asked,      \* connect requests made by the users of a device
    occupies    \* occupy calls made on a device

conn == <<state, rc, sock, occupied, present, checked>>
users == <<acquired, released, asked, occupies>>
vars == <<conn, disc, reading, inbox, todo, waiting, sendq, linkUp, users>>

Nodes == {Client, Server}
Peer(n) == IF n = Client THEN Server ELSE Client
Total(f) == f[Client] + f[Server]

\* enum ConnBrConnectionState, as far as an established connection takes them.
ConnectionState ==
    {"CONNECTING", "CONNECTED", "EXCEPTION", "NEGOTIATION_CLOSING", "CLOSING", "CLOSED"}

\* BR_METHOD_NOTIFY_REQUEST and BR_METHOD_NOTIFY_RESPONSE frames.
Request(delta, ref) == [what |-> "request", delta |-> delta, ref |-> ref]
Response(ref) == [what |-> "response", delta |-> 0, ref |-> ref]
\* MSG_CONNECTION_EXECEPTION, the last message of the read thread.
Exception == [what |-> "exception", delta |-> 0, ref |-> 0]
Frames ==
    [what : {"request"}, delta : {-1, 0, 1}, ref : Int]
        \cup [what : {"response", "exception"}, delta : {0}, ref : Int]

\* How many of each message of its own a looper holds: the closing timeout,
\* the retry of a notification, the release of the occupation, a release put off
\* (each of delta -1), a resume; and the peer's releases put off, in order.
NoMessages == [neg |-> 0, retry |-> 0, release |-> 0, local |-> 0, resume |-> 0, peer |-> <<>>]
LooperMessages ==
    [neg : Nat, retry : Nat, release : Nat, local : Nat, resume : Nat, peer : Seq(Frames)]
NoFrames == [high |-> <<>>, low |-> <<>>]

----------------------------------------------------------------------------
(* The looper thread of n is free and finds the connection.                *)

Idle(n) == present[n] /\ disc[n] # "looper"

Take(n, kind) == Idle(n) /\ todo[n][kind] > 0
Taken(n, kind) == [todo EXCEPT ![n][kind] = @ - 1]

Receive(n, what) == Idle(n) /\ inbox[n] # <<>> /\ Head(inbox[n]).what = what
Received(n) == [inbox EXCEPT ![n] = Tail(@)]

----------------------------------------------------------------------------
(* Changing the local count and telling the peer.                          *)

\* Faulty variant: the closing timeout is posted for a release only, not when a
\* retry finds the count at zero.
NotifyUntimed(n, delta, k, own) ==
    LET after == [i \in 1..k |-> rc[n] + i * delta]
        empty == {i \in 1..k : after[i] <= 0}
        flag == IF delta >= 0 THEN "high" ELSE "low"
    IN  /\ rc' = [rc EXCEPT ![n] = @ + k * delta]
        /\ state' = [state EXCEPT ![n] = IF empty # {} THEN "NEGOTIATION_CLOSING" ELSE @]
        /\ todo' = [own EXCEPT ![n].neg = IF delta < 0 THEN @ + Cardinality(empty) ELSE @]
        /\ sendq' = [sendq EXCEPT ![n][flag] =
                        @ \o [i \in 1..k |-> Request(delta, after[i])]]

\* Faulty variant: the closing begins with one reference left.
NotifyEarly(n, delta, k, own) ==
    LET after == [i \in 1..k |-> rc[n] + i * delta]
        empty == {i \in 1..k : after[i] <= 1}
        flag == IF delta >= 0 THEN "high" ELSE "low"
    IN  /\ rc' = [rc EXCEPT ![n] = @ + k * delta]
        /\ state' = [state EXCEPT ![n] = IF empty # {} THEN "NEGOTIATION_CLOSING" ELSE @]
        /\ todo' = [own EXCEPT ![n].neg = @ + Cardinality(empty)]
        /\ sendq' = [sendq EXCEPT ![n][flag] =
                        @ \o [i \in 1..k |-> Request(delta, after[i])]]

\* k calls of NotifyUpdateConnectionRc(connectionId, delta) in a row, the
\* looper's own messages being own.
NotifyUpdateConnectionRc(n, delta, k, own) ==
    LET after == [i \in 1..k |-> rc[n] + i * delta]
        empty == {i \in 1..k : after[i] <= 0}
        flag == IF delta >= 0 THEN "high" ELSE "low"
    IN  /\ rc' = [rc EXCEPT ![n] = @ + k * delta]
        /\ state' = [state EXCEPT ![n] = IF empty # {} THEN "NEGOTIATION_CLOSING" ELSE @]
        /\ todo' = [own EXCEPT ![n].neg = @ + Cardinality(empty)]
        /\ sendq' = [sendq EXCEPT ![n][flag] =
                        @ \o [i \in 1..k |-> Request(delta, after[i])]]

\* Faulty variant: the release that was put off is not posted again.
BrUpdateConnectionRcLost(n, delta, own) ==
    IF delta < 0 /\ occupied[n]
    THEN todo' = own /\ UNCHANGED <<rc, state, sendq>>
    ELSE NotifyUpdateConnectionRc(n, delta, 1, own)

\* BrUpdateConnectionRc: a release of an occupied connection is tried again later.
BrUpdateConnectionRc(n, delta, own) ==
    IF delta < 0 /\ occupied[n]
    THEN /\ todo' = [own EXCEPT ![n].local = @ + 1]
         /\ UNCHANGED <<rc, state, sendq>>
    ELSE NotifyUpdateConnectionRc(n, delta, 1, own)

\* BrConnectDevice posts MGR_CONNECT_REQUEST; AttempReuseConnect reuses the
\* connection (BrReuseConnection, NotifyDeviceConnectResult) or parks the request.
BrConnectDevice(n) ==
    /\ Idle(n)
    /\ Total(asked) < MaxAcquire
    /\ asked' = [asked EXCEPT ![n] = @ + 1]
    /\ IF state[n] = "CONNECTED"
       THEN /\ NotifyUpdateConnectionRc(n, 1, 1, todo)
            /\ acquired' = [acquired EXCEPT ![n] = @ + 1]
            /\ UNCHANGED waiting
       ELSE /\ waiting' = [waiting EXCEPT ![n] = @ + 1]
            /\ UNCHANGED <<rc, state, todo, sendq, acquired>>
    /\ UNCHANGED <<sock, occupied, present, checked, disc, reading, inbox, linkUp,
                   released, occupies>>

\* ConnectionResume: the parked requests reuse the connection.
ConnectionResume(n) ==
    /\ Take(n, "resume")
    /\ IF state[n] = "CONNECTED"
       THEN /\ NotifyUpdateConnectionRc(n, 1, waiting[n], Taken(n, "resume"))
            /\ acquired' = [acquired EXCEPT ![n] = @ + waiting[n]]
            /\ waiting' = [waiting EXCEPT ![n] = 0]
       ELSE /\ todo' = Taken(n, "resume")
            /\ UNCHANGED <<rc, state, sendq, acquired, waiting>>
    /\ UNCHANGED <<sock, occupied, present, checked, disc, reading, inbox, linkUp,
                   released, asked, occupies>>

\* The references the users of n hold; the first one belongs to the client.
Held(n) == (IF n = Client THEN 1 ELSE 0) + acquired[n] - released[n]

\* BrDisconnectDevice posts MGR_DISCONNECT_REQUEST; DisconnectRequest.
DisconnectRequest(n) ==
    /\ Idle(n)
    /\ Total(released) < MaxRelease
    /\ OverRelease \/ Held(n) > 0
    /\ released' = [released EXCEPT ![n] = @ + 1]
    /\ BrUpdateConnectionRc(n, -1, todo)
    /\ UNCHANGED <<sock, occupied, present, checked, disc, reading, inbox, waiting, linkUp,
                   acquired, asked, occupies>>

\* MSG_CONNECTION_UPDATE_LOCAL_RC
UpdateLocalRc(n) ==
    /\ Take(n, "local")
    /\ BrUpdateConnectionRc(n, -1, Taken(n, "local"))
    /\ UNCHANGED <<sock, occupied, present, checked, disc, reading, inbox, waiting, linkUp,
                   users>>

RetryNotifyReferenceHandler(n) ==
    /\ Take(n, "retry")
    /\ BrUpdateConnectionRc(n, 0, Taken(n, "retry"))
    /\ UNCHANGED <<sock, occupied, present, checked, disc, reading, inbox, waiting, linkUp,
                   users>>

----------------------------------------------------------------------------
(* Closing the socket.                                                     *)

\* ConnBrDisconnectNow up to its first unlock, run by thread t.
ConnBrDisconnectNow(n, t) ==
    IF sock[n]
    THEN /\ sock' = [sock EXCEPT ![n] = FALSE]
         /\ state' = [state EXCEPT ![n] = "CONNECTING"]
         /\ disc' = [disc EXCEPT ![n] = t]
    ELSE /\ state' = [state EXCEPT ![n] = "CLOSED"]
         /\ UNCHANGED <<sock, disc>>

\* ... and after the sleep: the driver's DisConnect, then CLOSED.
DisconnectDone(n) ==
    /\ disc[n] # "none"
    /\ linkUp' = FALSE
    /\ state' = [state EXCEPT ![n] = "CLOSED"]
    /\ disc' = [disc EXCEPT ![n] = "none"]
    /\ UNCHANGED <<rc, sock, occupied, present, checked, reading, inbox, todo, waiting, sendq,
                   users>>

\* Faulty variant: the wrong state is looked for.
WaitClosingTimeoutHandler(n) ==
    /\ Take(n, "neg")
    /\ todo' = Taken(n, "neg")
    /\ IF state[n] = "CLOSING"
       THEN ConnBrDisconnectNow(n, "looper")
       ELSE UNCHANGED <<sock, state, disc>>
    /\ UNCHANGED <<rc, occupied, present, checked, reading, inbox, waiting, sendq, linkUp,
                   users>>

WaitNegotiationClosingTimeoutHandler(n) ==
    /\ Take(n, "neg")
    /\ todo' = Taken(n, "neg")
    /\ IF state[n] = "NEGOTIATION_CLOSING"
       THEN ConnBrDisconnectNow(n, "looper")
       ELSE UNCHANGED <<sock, state, disc>>
    /\ UNCHANGED <<rc, occupied, present, checked, reading, inbox, waiting, sendq, linkUp,
                   users>>

----------------------------------------------------------------------------
(* Frames from the peer.                                                   *)

\* The connection leaves NEGOTIATION_CLOSING: the timeouts are removed from
\* the looper and MSG_CONNECTION_RESUME is posted.
Resumes(n, peerRc) == peerRc > 0 /\ state[n] = "NEGOTIATION_CLOSING"

\* Faulty variant: the closing timeout stays in the looper when the connection resumes.
NotifyReferenceRequestTimed(n, delta, peerRc, own) ==
    LET localRc == rc[n] + delta
        resume == Resumes(n, peerRc)
    IN  /\ rc' = [rc EXCEPT ![n] = localRc]
        /\ todo' = [own EXCEPT
               ![n].retry = IF peerRc > 0 /\ localRc = 0 THEN @ + 1 ELSE @,
               ![n].resume = IF resume THEN @ + 1 ELSE @]
        /\ IF peerRc <= 0 /\ localRc <= 0
           THEN ConnBrDisconnectNow(n, "looper")
           ELSE /\ state' = [state EXCEPT ![n] = IF resume THEN "CONNECTED" ELSE @]
                /\ UNCHANGED <<sock, disc>>
        /\ sendq' = [sendq EXCEPT ![n].high =
               IF peerRc <= 0 /\ localRc > 0 THEN Append(@, Response(localRc)) ELSE @]

\* Faulty variant: the resume is not reported to the manager.
NotifyReferenceRequestSilent(n, delta, peerRc, own) ==
    LET localRc == rc[n] + delta
        resume == Resumes(n, peerRc)
    IN  /\ rc' = [rc EXCEPT ![n] = localRc]
        /\ todo' = [own EXCEPT
               ![n].retry = IF peerRc > 0 /\ localRc = 0 THEN @ + 1 ELSE @,
               ![n].neg = IF resume THEN 0 ELSE @]
        /\ IF peerRc <= 0 /\ localRc <= 0
           THEN ConnBrDisconnectNow(n, "looper")
           ELSE /\ state' = [state EXCEPT ![n] = IF resume THEN "CONNECTED" ELSE @]
                /\ UNCHANGED <<sock, disc>>
        /\ sendq' = [sendq EXCEPT ![n].high =
               IF peerRc <= 0 /\ localRc > 0 THEN Append(@, Response(localRc)) ELSE @]

NotifyReferenceRequest(n, delta, peerRc, own) ==
    LET localRc == rc[n] + delta
        resume == Resumes(n, peerRc)
    IN  /\ rc' = [rc EXCEPT ![n] = localRc]
        /\ todo' = [own EXCEPT
               ![n].retry = IF peerRc > 0 /\ localRc = 0 THEN @ + 1 ELSE @,
               ![n].neg = IF resume THEN 0 ELSE @,
               ![n].resume = IF resume THEN @ + 1 ELSE @]
        /\ IF peerRc <= 0 /\ localRc <= 0
           THEN ConnBrDisconnectNow(n, "looper")
           ELSE /\ state' = [state EXCEPT ![n] = IF resume THEN "CONNECTED" ELSE @]
                /\ UNCHANGED <<sock, disc>>
        /\ sendq' = [sendq EXCEPT ![n].high =
               IF peerRc <= 0 /\ localRc > 0 THEN Append(@, Response(localRc)) ELSE @]

\* BrOnReferenceRequest: a release of an occupied connection is handled later.
BrOnReferenceRequest(n, m, own) ==
    IF m.delta < 0 /\ occupied[n]
    THEN /\ todo' = [own EXCEPT ![n].peer = Append(@, m)]
         /\ UNCHANGED <<rc, state, sock, disc, sendq>>
    ELSE NotifyReferenceRequest(n, m.delta, m.ref, own)

ConnBrOnReferenceRequest(n) ==
    /\ Receive(n, "request")
    /\ inbox' = Received(n)
    /\ BrOnReferenceRequest(n, Head(inbox[n]), todo)
    /\ UNCHANGED <<occupied, present, checked, reading, waiting, linkUp, users>>

\* MSG_CONNECTION_UPDATE_PEER_RC
UpdatePeerRc(n) ==
    /\ Idle(n)
    /\ todo[n].peer # <<>>
    /\ BrOnReferenceRequest(n, Head(todo[n].peer), [todo EXCEPT ![n].peer = Tail(@)])
    /\ UNCHANGED <<occupied, present, checked, reading, inbox, waiting, linkUp, users>>

ConnBrOnReferenceResponse(n) ==
    LET resume == Resumes(n, Head(inbox[n]).ref)
    IN  /\ Receive(n, "response")
        /\ inbox' = Received(n)
        /\ todo' = [todo EXCEPT ![n].neg = IF resume THEN 0 ELSE @,
                                ![n].resume = IF resume THEN @ + 1 ELSE @]
        /\ state' = [state EXCEPT ![n] = IF resume THEN "CONNECTED" ELSE @]
        /\ UNCHANGED <<rc, sock, occupied, present, checked, disc, reading, waiting, sendq,
                       linkUp, users>>

\* Faulty variant: the connection stays in the list.
ConnectionExceptionKeeps(n) ==
    /\ Receive(n, "exception")
    /\ ConnBrDisconnectNow(n, "looper")
    /\ waiting' = [waiting EXCEPT ![n] = 0]
    /\ inbox' = [inbox EXCEPT ![n] = <<>>]
    /\ todo' = [todo EXCEPT ![n] = NoMessages]
    /\ sendq' = [sendq EXCEPT ![n] = NoFrames]
    /\ UNCHANGED <<rc, occupied, present, checked, reading, linkUp, users>>

\* ConnectionException: the socket is closed, the connection leaves the list and
\* the parked requests go back to the scheduler.  The handlers of the messages,
\* and the send thread for the frames, that still name the connection look it up,
\* find nothing and return: they are dropped here.
ConnectionException(n) ==
    /\ Receive(n, "exception")
    /\ ConnBrDisconnectNow(n, "looper")
    /\ present' = [present EXCEPT ![n] = FALSE]
    /\ waiting' = [waiting EXCEPT ![n] = 0]
    /\ inbox' = [inbox EXCEPT ![n] = <<>>]
    /\ todo' = [todo EXCEPT ![n] = NoMessages]
    /\ sendq' = [sendq EXCEPT ![n] = NoFrames]
    /\ UNCHANGED <<rc, occupied, checked, reading, linkUp, users>>

----------------------------------------------------------------------------
(* Occupation: the connection is about to be reused.                       *)

\* BrCheckActiveConnection(option, true) on a user thread looks at the state
\* without the lock ...
BrCheckActiveConnection(n) ==
    /\ present[n] /\ state[n] = "CONNECTED"
    /\ ~checked[n] /\ Total(occupies) < MaxOccupy
    /\ occupies' = [occupies EXCEPT ![n] = @ + 1]
    /\ checked' = [checked EXCEPT ![n] = TRUE]
    /\ UNCHANGED <<state, rc, sock, occupied, present, disc, reading, inbox, todo, waiting,
                   sendq, linkUp, acquired, released, asked>>

\* ... and then occupies the connection, whatever became of it.  The release
\* that was scheduled is replaced by a new one.
ConnBrOccupy(n) ==
    /\ checked[n]
    /\ checked' = [checked EXCEPT ![n] = FALSE]
    /\ occupied' = [occupied EXCEPT ![n] = TRUE]
    /\ todo' = [todo EXCEPT ![n].release = IF present[n] THEN 1 ELSE 0]
    /\ UNCHANGED <<state, rc, sock, present, disc, reading, inbox, waiting, sendq, linkUp,
                   users>>

BrOnOccupyRelease(n) ==
    /\ Take(n, "release")
    /\ todo' = Taken(n, "release")
    /\ occupied' = [occupied EXCEPT ![n] = FALSE]
    /\ UNCHANGED <<state, rc, sock, present, checked, disc, reading, inbox, waiting, sendq,
                   linkUp, users>>

----------------------------------------------------------------------------
(* The send thread and the read thread.                                    *)

\* SendHandlerLoop for one control frame, high priority first; a failed send
\* ends in OnPostByteFinshed, which disconnects.
SendHandlerLoop(n) ==
    LET p == IF sendq[n].high # <<>> THEN "high" ELSE "low"
    IN  /\ disc[n] # "sender"
        /\ sendq[n][p] # <<>>
        /\ sendq' = [sendq EXCEPT ![n][p] = Tail(@)]
        /\ IF sock[n] /\ linkUp
           THEN /\ inbox' = [inbox EXCEPT ![Peer(n)] =
                                IF reading[Peer(n)] THEN Append(@, Head(sendq[n][p])) ELSE @]
                /\ UNCHANGED <<state, sock, disc>>
           ELSE ConnBrDisconnectNow(n, "sender") /\ UNCHANGED inbox
        /\ UNCHANGED <<rc, occupied, present, checked, reading, todo, waiting, linkUp, users>>

\* LoopRead ends because the link or the handle is gone, with k frames read;
\* StartClientConnect / StartServerServe close the socket and report.  The
\* server's thread overwrites LoopRead's result with that of the lock, so it
\* never reports CLOSED.
LoopReadExit(n) ==
    /\ reading[n]
    /\ ~linkUp \/ ~sock[n]
    /\ reading' = [reading EXCEPT ![n] = FALSE]
    /\ linkUp' = (linkUp /\ ~sock[n])
    /\ sock' = [sock EXCEPT ![n] = FALSE]
    /\ \E s \in IF n = Client THEN {"CLOSED", "EXCEPTION"} ELSE {"EXCEPTION"} :
           state' = [state EXCEPT ![n] = s]
    /\ \E k \in 0..Len(inbox[n]) :
           inbox' = [inbox EXCEPT ![n] = Append(SubSeq(@, 1, k), Exception)]
    /\ UNCHANGED <<rc, occupied, present, checked, disc, todo, waiting, sendq, users>>

\* The radio link breaks.
LinkLost ==
    /\ LinkLoss /\ linkUp
    /\ linkUp' = FALSE
    /\ UNCHANGED <<conn, disc, reading, inbox, todo, waiting, sendq, users>>

----------------------------------------------------------------------------
Init ==
    /\ state = [n \in Nodes |-> "CONNECTED"]
    /\ rc = [n \in Nodes |-> 1]
    /\ sock = [n \in Nodes |-> TRUE]
    /\ occupied = [n \in Nodes |-> FALSE]
    /\ present = [n \in Nodes |-> TRUE]
    /\ checked = [n \in Nodes |-> FALSE]
    /\ disc = [n \in Nodes |-> "none"]
    /\ reading = [n \in Nodes |-> TRUE]
    /\ inbox = [n \in Nodes |-> <<>>]
    /\ todo = [n \in Nodes |-> NoMessages]
    /\ waiting = [n \in Nodes |-> 0]
    /\ sendq = [n \in Nodes |-> NoFrames]
    /\ linkUp = TRUE
    /\ acquired = [n \in Nodes |-> 0]
    /\ released = [n \in Nodes |-> 0]
    /\ asked = [n \in Nodes |-> 0]
    /\ occupies = [n \in Nodes |-> 0]

FrameStep(n) ==
    ConnBrOnReferenceRequest(n) \/ ConnBrOnReferenceResponse(n) \/ ConnectionException(n)

TimerStep(n) ==
    \/ ConnectionResume(n) \/ RetryNotifyReferenceHandler(n)
    \/ WaitNegotiationClosingTimeoutHandler(n) \/ BrOnOccupyRelease(n)

PutOffStep(n) == UpdateLocalRc(n) \/ UpdatePeerRc(n)

ThreadStep(n) ==
    DisconnectDone(n) \/ SendHandlerLoop(n) \/ LoopReadExit(n) \/ ConnBrOccupy(n)

UserStep(n) ==
    BrConnectDevice(n) \/ DisconnectRequest(n) \/ BrCheckActiveConnection(n)

Next ==
    \/ \E n \in Nodes :
          FrameStep(n) \/ TimerStep(n) \/ PutOffStep(n) \/ ThreadStep(n) \/ UserStep(n)
    \/ LinkLost

Spec == Init /\ [][Next]_vars

\* Threads run and delayed messages become due; users, the radio and the peer owe
\* nothing: a frame may stay on a link that has gone silent until the read thread
\* is gone, and all that is left then is in the looper.  What is put off is put off
\* again while the connection is occupied, so it is kept apart from the messages
\* that must not starve.
Fairness ==
    \A n \in Nodes :
        /\ WF_vars(FrameStep(n) /\ ~reading[n]) /\ WF_vars(TimerStep(n))
        /\ WF_vars(PutOffStep(n)) /\ WF_vars(ThreadStep(n))

FairSpec == Spec /\ Fairness

----------------------------------------------------------------------------
(* Properties.                                                             *)

TypeOK ==
    /\ state \in [Nodes -> ConnectionState]
    /\ rc \in [Nodes -> Int]
    /\ sock \in [Nodes -> BOOLEAN] /\ occupied \in [Nodes -> BOOLEAN]
    /\ present \in [Nodes -> BOOLEAN] /\ checked \in [Nodes -> BOOLEAN]
    /\ disc \in [Nodes -> {"none", "looper", "sender"}]
    /\ reading \in [Nodes -> BOOLEAN]
    /\ inbox \in [Nodes -> Seq(Frames)]
    /\ todo \in [Nodes -> LooperMessages]
    /\ waiting \in [Nodes -> Nat]
    /\ sendq \in [Nodes -> [high : Seq(Frames), low : Seq(Frames)]]
    /\ linkUp \in BOOLEAN
    /\ acquired \in [Nodes -> Nat] /\ released \in [Nodes -> Nat]
    /\ asked \in [Nodes -> Nat] /\ occupies \in [Nodes -> Nat]

\* The sum of the deltas a queue carries.
Carried(q) == Cardinality({i \in DOMAIN q : q[i].delta = 1})
            - Cardinality({i \in DOMAIN q : q[i].delta = -1})

\* References the users of both devices have taken and not given back.
Outstanding == 1 + Total(acquired) - Total(released)

\* Changes made by the peer that n has not applied yet.
Inbound(n) ==
    Carried(inbox[n]) + Carried(todo[n].peer)
        + Carried(sendq[Peer(n)].high) + Carried(sendq[Peer(n)].low)

Intact == linkUp /\ sock[Client] /\ sock[Server]

\* While the link is whole no change of the count is lost or applied twice: each
\* end's connectionRc, plus what is still on its way to it, is the number of
\* references outstanding plus the releases put off, whatever was reordered by
\* priority or put off because the connection was occupied.
Accounting ==
    Intact => \A n \in Nodes :
        rc[n] + Inbound(n) = Outstanding + todo[Client].local + todo[Server].local

\* A resumed connection is not closed by the timeout of the negotiation it left.
NoStaleTimeout == \A n \in Nodes : state[n] = "CONNECTED" => todo[n].neg = 0

\* A connection that negotiates its closing has the timeout running that ends
\* the negotiation if the peer never answers.
ClosingIsTimed ==
    \A n \in Nodes : state[n] = "NEGOTIATION_CLOSING" => todo[n].neg > 0

\* An occupied connection has its release scheduled; otherwise the releases
\* that wait for it would be put off for ever.
OccupiedIsTimed == \A n \in Nodes : present[n] /\ occupied[n] => todo[n].release > 0

\* If users only give back what they took, an end that is willing to close
\* counts no reference, so the closing timeout never drops a count above zero.
ClosingMeansUnused ==
    \A n \in Nodes : state[n] = "NEGOTIATION_CLOSING" => rc[n] <= 0

\* Every negotiation ends, even if the peer never answers: the connection resumes
\* or closes.
ClosingEnds ==
    \A n \in Nodes : state[n] = "NEGOTIATION_CLOSING" ~> state[n] # "NEGOTIATION_CLOSING"

\* The link delivers what is sent.
Delivery == \A n \in Nodes : WF_vars(FrameStep(n))

\* A connection nobody needs any more is taken down on both devices, if the link
\* delivers what is sent.
UnusedIsClosed ==
    Delivery /\ <>[](Outstanding <= 0) => <>[](\A n \in Nodes : ~present[n])

\* A request parked because the connection could not be reused at that moment is
\* granted by a resume or handed back to the scheduler by the exception.
ParkedIsAnswered == \A n \in Nodes : waiting[n] > 0 ~> waiting[n] = 0
============================================================================
