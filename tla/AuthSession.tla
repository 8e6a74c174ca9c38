---------------------------- MODULE AuthSession ----------------------------
(***************************************************************************)
(* The authentication session of two devices over one connection           *)
(* (core/authentication: auth_session_fsm.c, auth_session_message.c,       *)
(* auth_manager.c, auth_connection.c).  "A" opened the connection (the     *)
(* connect client), "B" accepted it.  The two first agree, by exchanging   *)
(* device ids, on who plays the client of the authentication proper        *)
(* (isServer, which may differ from the connect side); then run HiChain    *)
(* (external) or recover a stored key; then exchange device infos and, on  *)
(* Bluetooth, close acks.  Each device handles received data, timers and   *)
(* HiChain results on one looper thread: queue[d] holds the messages of    *)
(* the state machine on that looper, and channel[d] both the data on its   *)
(* way to d and the data events the looper has not yet looked at; as both  *)
(* are first-in-first-out, when an event passed from the one to the other  *)
(* makes no difference.                                                    *)
(*                                                                         *)
(* Every message of a dead session is dropped (TranslateToAuthFsm), so     *)
(* ending a session empties its part of the queue.  Left out: exchanging   *)
(* network ids instead of udids, the V1/V2 peers, pre-link keys, and a     *)
(* second session in the opposite direction, whose only trace is others[d]:*)
(* another request for the same peer is in the normalize list.             *)
(***************************************************************************)
EXTENDS Naturals, Sequences, SequencesExt

CONSTANTS Links,        \* the link kinds to check: "wifi" (also usb), "bt"
          MaxFaults     \* bound: faults and early timeouts in a behaviour

VARIABLES setup,        \* what the devices know at the start; never changes
          session,      \* [Devices -> the AuthFsm of this connection]
          queue,        \* [Devices -> messages of the fsm on the looper]
          channel,      \* [Devices -> data on its way to the device]
          hichain,      \* [Devices -> callbacks HiChain has still to make]
          others,       \* [Devices -> another request holds the peer's turn]
          link,         \* "up", "closed" (by a device) or "broken"
          lost,         \* [Devices -> the device closed it or was told]
          restarted,    \* B replaced a dead session by a second one
          faults,       \* number of faults, bounded by MaxFaults
          calm          \* no fault, refusal or timeout has happened

vars == <<setup, session, queue, channel, hichain, others, link, lost, restarted, faults, calm>>

Devices == {"A", "B"}
Peer(d) == IF d = "A" THEN "B" ELSE "A"
IsConnectServer(d) == d = "B"

Msg(t, v) == [t |-> t, v |-> v]

(* Only Bluetooth closes with acks; on WIFI and USB the server answers the *)
(* client's device info with its own.                                      *)
ByReply == setup.link = "wifi"

-----------------------------------------------------------------------------
(* The session record *)

NoSession == [live |-> FALSE, cur |-> "NONE", isServer |-> FALSE, local |-> "UNKNOW",
              peer |-> "NONE", udid |-> FALSE, early |-> FALSE, key |-> FALSE,
              info |-> FALSE, ack |-> FALSE, fin |-> FALSE, passed |-> FALSE,
              timer |-> FALSE, result |-> "NONE"]

(* The short hash of the peer's udid: from the peer's device id, or, at A, *)
(* from the discovery that led to the connection.                          *)
HashKnown(d, x) == x.udid \/ (d = "A" /\ setup.known)

UpdateLocalAuthState(d, x) ==
    [x EXCEPT !.local =
        CASE x.isServer /\ ~x.udid -> "UNKNOW"
          [] x.peer = "COMPATIBLE" -> "COMPATIBLE"
          [] x.peer \in {"ACK", "START"} -> "ACK"
          [] ~HashKnown(d, x) -> "UNKNOW"
          [] setup.hash[d] < setup.hash[Peer(d)] -> "WAIT"
          [] OTHER -> "START"]

(* Faulty variant: the session is started without its timeout message. *)
CreateAuthFsmUntimed(d) ==
    [NoSession EXCEPT !.live = TRUE, !.isServer = IsConnectServer(d)]

CreateAuthFsm(d) ==
    [NoSession EXCEPT !.live = TRUE, !.isServer = IsConnectServer(d), !.timer = TRUE]

(* A peer on record as not negotiating makes A start as compatible.        *)
GetFirstFsmState(d, x) ==
    IF ~IsConnectServer(d) /\ ~setup.nego THEN [x EXCEPT !.local = "COMPATIBLE"] ELSE x

FirstState(d, x) ==
    IF ~IsConnectServer(d) /\ x.local \in {"START", "COMPATIBLE"}
    THEN "SYNC_DEVICE_ID" ELSE "SYNC_NEGOTIATION"

StartedSession(d) == GetFirstFsmState(d, UpdateLocalAuthState(d, CreateAuthFsm(d)))

CompleteAuthSession(x, result) ==
    [x EXCEPT !.live = FALSE, !.timer = FALSE, !.result = result]

(* Faulty variant: the timer runs on after the pass. *)
SetAuthPassedTimed(x) == [x EXCEPT !.passed = TRUE]

(* LnnFsmRemoveMessage(TIMEOUT), then AuthManagerSetAuthPassed. *)
SetAuthPassed(x) == [x EXCEPT !.passed = TRUE, !.timer = FALSE]

TryFinishAuthSession(x) ==
    IF x.info /\ x.ack /\ x.fin THEN CompleteAuthSession(x, "OK") ELSE x

(* AuthManagerSetAuthFailed and AuthManagerSetAuthFinished: who hangs up.  *)
Disconnects(d, x) ==
    /\ ~x.live
    /\ IF x.result = "OK" THEN ~ByReply /\ ~IsConnectServer(d)
                          ELSE ByReply \/ ~IsConnectServer(d)

Init ==
    /\ setup \in { u \in [link : Links, known : BOOLEAN, nego : BOOLEAN, recover : BOOLEAN,
                          hash : {[A |-> 1, B |-> 2], [A |-> 2, B |-> 1]}] : u.known \/ u.nego }
    /\ session = [d \in Devices |-> IF d = "A" THEN StartedSession(d) ELSE NoSession]
    /\ queue = [d \in Devices |-> IF d = "A"
                    THEN <<Msg("START", FirstState(d, StartedSession(d)))>> ELSE <<>>]
    /\ channel = [d \in Devices |-> <<>>]
    /\ hichain = [d \in Devices |-> <<>>]
    /\ others \in [Devices -> BOOLEAN]
    /\ \A d \in Devices : others[d] => setup.nego /\ setup.hash[d] > setup.hash[Peer(d)]
    /\ link = "up"
    /\ lost = [d \in Devices |-> FALSE]
    /\ restarted = FALSE
    /\ faults = 0
    /\ calm = TRUE

-----------------------------------------------------------------------------
(* What a handler does: the new session, the messages it sends to the peer,*)
(* the messages it posts to its own state machine, HiChain's callbacks.    *)

Effect(d, x) == [s |-> x, out |-> <<>>, self |-> <<>>, hc |-> hichain[d]]

Sending(e, t, v) == [e EXCEPT !.out = Append(@, Msg(t, v))]

PostDeviceIdMessage(e) == Sending(e, "ID", e.s.local)

(* On WIFI the server's info is a reply, sent with sequence number 0.      *)
PostDeviceInfoMessage(e) ==
    Sending(e, "INFO", IF ByReply /\ e.s.isServer THEN "REPLY" ELSE "SEQ")

(* Sending on a connection that is gone fails, or succeeds and is lost.    *)
SendResults(d) == IF link = "up" THEN {TRUE} ELSE BOOLEAN

(* What the dead session's connection still brings: data the looper holds  *)
(* already is looked at, the rest is not received.                         *)
Remains(d, hangup) == IF hangup THEN {<<>>, channel[d]} ELSE {channel[d]}

(* Apply e to d, whose looper has taken the head of its queue.             *)
Apply(d, e) ==
    LET hangup == Disconnects(d, e.s)
        Stays(m) == e.s.live /\ (m.t = "TIMEOUT" => e.s.timer)
    IN /\ session' = [session EXCEPT ![d] = e.s]
       /\ queue' = [queue EXCEPT ![d] = SelectSeq(Tail(@) \o e.self, Stays)]
       /\ \E rest \in Remains(d, hangup) :
             channel' = [channel EXCEPT ![Peer(d)] = IF link = "up" THEN @ \o e.out ELSE @,
                                        ![d] = rest]
       /\ hichain' = [hichain EXCEPT ![d] = e.hc]
       /\ link' = IF hangup /\ link = "up" THEN "closed" ELSE link
       /\ lost' = [lost EXCEPT ![d] = @ \/ hangup]
       /\ UNCHANGED <<setup, others, restarted>>

(* A handler in session x that sends, if it sends at all, once: it goes on *)
(* to e if that succeeds, and fails the session otherwise.                 *)
ApplySent(d, x, e) ==
    \E sent \in IF e.out = <<>> THEN {TRUE} ELSE SendResults(d) :
        Apply(d, IF sent THEN e ELSE Effect(d, CompleteAuthSession(x, "SEND_FAIL")))

Head1(d) == Head(queue[d])

Processing(d, states, types) ==
    /\ queue[d] # <<>>
    /\ Head1(d).t \in types
    /\ session[d].cur \in states
    /\ UNCHANGED <<faults, calm>>

Fault == /\ faults < MaxFaults
         /\ faults' = faults + 1
         /\ calm' = FALSE

-----------------------------------------------------------------------------
(* Entering a state *)

SyncNegotiationEnter(d, x) ==
    LET e == Effect(d, [x EXCEPT !.cur = "SYNC_NEGOTIATION"])
    IN IF x.isServer THEN e ELSE PostDeviceIdMessage(e)

(* A client that is to start waits for its turn in the normalize list.     *)
SyncDevIdStateEnter(d, x) ==
    LET e == Effect(d, [x EXCEPT !.cur = "SYNC_DEVICE_ID"])
    IN IF x.isServer \/ (x.local = "START" /\ others[d]) THEN e ELSE PostDeviceIdMessage(e)

(* With a key on record the session posts it to itself; otherwise the      *)
(* client starts HiChain, whose first callback transmits message 1.        *)
DeviceAuthStateEnter(e) ==
    LET f == [e EXCEPT !.s.cur = "DEVICE_AUTH"]
    IN CASE setup.recover -> [f EXCEPT !.self = <<Msg("KEY", ""), Msg("FINISH", "")>>]
         [] ~setup.recover /\ ~e.s.isServer -> [f EXCEPT !.hc = <<Msg("TRANSMIT", "1")>>]
         [] OTHER -> f

ProcessStartMessage(d) ==
    /\ Processing(d, {"NONE"}, {"START"})
    /\ ApplySent(d, session[d], IF Head1(d).v = "SYNC_NEGOTIATION"
                                THEN SyncNegotiationEnter(d, session[d])
                                ELSE SyncDevIdStateEnter(d, session[d]))

-----------------------------------------------------------------------------
(* The device id: who is the client *)

ProcessDeviceIdMessage(d) == [session[d] EXCEPT !.peer = Head1(d).v, !.udid = TRUE]

(* Faulty variant: the peer's start does not make this side the server. *)
HandleMsgRecvDeviceIdNegoKeeps(d) ==
    /\ Processing(d, {"SYNC_NEGOTIATION"}, {"ID"})
    /\ LET x == UpdateLocalAuthState(d, ProcessDeviceIdMessage(d))
           AsServer == PostDeviceIdMessage(Effect(d, [x EXCEPT !.isServer = TRUE]))
       IN ApplySent(d, x,
                CASE x.local = "START" -> SyncDevIdStateEnter(d, [x EXCEPT !.isServer = FALSE])
                  [] x.local = "ACK" -> DeviceAuthStateEnter(PostDeviceIdMessage(Effect(d, x)))
                  [] x.local = "WAIT" -> AsServer
                  [] x.local = "COMPATIBLE" ->
                        DeviceAuthStateEnter(IF x.isServer THEN PostDeviceIdMessage(Effect(d, x))
                                                           ELSE Effect(d, x))
                  [] x.local = "UNKNOW" -> PostDeviceIdMessage(Effect(d, x)))

HandleMsgRecvDeviceIdNego(d) ==
    /\ Processing(d, {"SYNC_NEGOTIATION"}, {"ID"})
    /\ LET x == UpdateLocalAuthState(d, ProcessDeviceIdMessage(d))
           AsServer == PostDeviceIdMessage(Effect(d, [x EXCEPT !.isServer = TRUE]))
       IN ApplySent(d, x,
                CASE x.local = "START" -> SyncDevIdStateEnter(d, [x EXCEPT !.isServer = FALSE])
                  [] x.local = "ACK" -> DeviceAuthStateEnter(AsServer)
                  [] x.local = "WAIT" -> AsServer
                  [] x.local = "COMPATIBLE" ->
                        DeviceAuthStateEnter(IF x.isServer THEN PostDeviceIdMessage(Effect(d, x))
                                                           ELSE Effect(d, x))
                  [] x.local = "UNKNOW" -> PostDeviceIdMessage(Effect(d, x)))

HandleMsgRecvDeviceId(d) ==
    /\ Processing(d, {"SYNC_DEVICE_ID", "DEVICE_AUTH"}, {"ID"})
    /\ LET e == Effect(d, ProcessDeviceIdMessage(d))
       IN ApplySent(d, e.s,
                DeviceAuthStateEnter(IF e.s.isServer THEN PostDeviceIdMessage(e) ELSE e))

(* The turn has come (AuthNotifyRequestVerify).                            *)
HandleMsgPostDeviceId(d) ==
    /\ Processing(d, {"SYNC_NEGOTIATION", "SYNC_DEVICE_ID"}, {"POST_ID"})
    /\ LET e == PostDeviceIdMessage(Effect(d, session[d]))
       IN ApplySent(d, e.s, IF e.s.isServer THEN DeviceAuthStateEnter(e) ELSE e)

-----------------------------------------------------------------------------
(* HiChain (external): four messages, from the client first; the second    *)
(* and third give the client and the server their key, the third and       *)
(* fourth finish the server and the client.                                *)

HichainProcessData(n) ==
    CASE n = "1" -> <<Msg("TRANSMIT", "2")>>
      [] n = "2" -> <<Msg("TRANSMIT", "3"), Msg("KEY", "")>>
      [] n = "3" -> <<Msg("KEY", ""), Msg("TRANSMIT", "4"), Msg("FINISH", "")>>
      [] n = "4" -> <<Msg("FINISH", "")>>

HandleMsgRecvAuthData(d) ==
    /\ Processing(d, {"DEVICE_AUTH", "SYNC_DEVICE_INFO"}, {"AUTH"})
    /\ Apply(d, [Effect(d, session[d]) EXCEPT !.hc = @ \o HichainProcessData(Head1(d).v)])

(* OnTransmit, OnSessionKeyReturned and OnFinish, on HiChain's own thread. *)
HichainCallback(d) ==
    /\ hichain[d] # <<>>
    /\ hichain' = [hichain EXCEPT ![d] = Tail(@)]
    /\ LET m == Head(hichain[d])
       IN IF m.t = "TRANSMIT"
          THEN /\ channel' = [channel EXCEPT ![Peer(d)] =
                      IF session[d].live /\ link = "up" THEN Append(@, Msg("AUTH", m.v)) ELSE @]
               /\ UNCHANGED queue
          ELSE /\ queue' = [queue EXCEPT ![d] =
                      IF session[d].live THEN Append(@, Msg(m.t, m.v)) ELSE @]
               /\ UNCHANGED channel
    /\ UNCHANGED <<setup, session, others, link, lost, restarted, faults, calm>>

(* OnError: HiChain refuses the peer before it has returned a key.         *)
OnError(d) ==
    /\ Fault
    /\ session[d].live /\ session[d].cur = "DEVICE_AUTH"
    /\ ~setup.recover /\ ~session[d].key
    /\ \A i \in 1..Len(queue[d]) : queue[d][i].t \notin {"KEY", "ERROR"}
    /\ hichain' = [hichain EXCEPT ![d] = <<>>]
    /\ queue' = [queue EXCEPT ![d] = Append(@, Msg("ERROR", ""))]
    /\ UNCHANGED <<setup, session, channel, others, link, lost, restarted>>

HandleMsgAuthError(d) ==
    /\ Processing(d, {"DEVICE_AUTH"}, {"ERROR"})
    /\ Apply(d, Effect(d, CompleteAuthSession(session[d], "HICHAIN")))

-----------------------------------------------------------------------------
(* The session key and the device info *)

(* WIFI: the client sends its info first and the server answers it.        *)
TrySyncDeviceInfo(e) == IF ByReply /\ e.s.isServer THEN e ELSE PostDeviceInfoMessage(e)

(* An info that came before the key is posted again, now to be decrypted.  *)
HandleMsgSaveSessionKey(d) ==
    /\ Processing(d, {"DEVICE_AUTH"}, {"KEY"})
    /\ LET x == session[d]
           e == TrySyncDeviceInfo(Effect(d, [x EXCEPT !.key = TRUE, !.early = FALSE,
                                                      !.cur = "SYNC_DEVICE_INFO"]))
       IN ApplySent(d, e.s,
                [e EXCEPT !.self = IF x.early THEN <<Msg("INFO", "")>> ELSE <<>>])

(* Faulty variant: an info that comes before the key is dropped. *)
HandleMsgRecvDevInfoEarlyNot(d) ==
    /\ Processing(d, {"DEVICE_AUTH"}, {"INFO"})
    /\ Apply(d, Effect(d, session[d]))

HandleMsgRecvDevInfoEarly(d) ==
    /\ Processing(d, {"DEVICE_AUTH"}, {"INFO"})
    /\ Apply(d, Effect(d, [session[d] EXCEPT !.early = TRUE]))

(* Faulty variant: the info alone is enough to pass. *)
HandleMsgRecvDeviceInfoHasty(d) ==
    /\ Processing(d, {"SYNC_DEVICE_INFO"}, {"INFO"})
    /\ LET x == [session[d] EXCEPT !.info = TRUE, !.ack = @ \/ ByReply]
           e == Effect(d, TryFinishAuthSession(SetAuthPassed(x)))
       IN ApplySent(d, x, IF ByReply THEN PostDeviceInfoMessage(e) ELSE Sending(e, "CLOSE_ACK", ""))

(* WIFI needs no close ack; the client has all it waits for, the server    *)
(* answers.  Bluetooth: answer with a close ack, pass if one has come.     *)
HandleMsgRecvDeviceInfo(d) ==
    /\ Processing(d, {"SYNC_DEVICE_INFO"}, {"INFO"})
    /\ LET x == [session[d] EXCEPT !.info = TRUE, !.ack = @ \/ ByReply]
           e == Effect(d, IF x.ack THEN TryFinishAuthSession(SetAuthPassed(x)) ELSE x)
       IN CASE ByReply /\ ~x.isServer -> Apply(d, e)
            [] ByReply /\ x.isServer -> ApplySent(d, x, PostDeviceInfoMessage(e))
            [] ~ByReply -> ApplySent(d, x, Sending(e, "CLOSE_ACK", ""))

HandleMsgRecvCloseAck(d) ==
    /\ Processing(d, {"SYNC_DEVICE_INFO"}, {"CLOSE_ACK"})
    /\ LET x == [session[d] EXCEPT !.ack = TRUE]
       IN Apply(d, Effect(d, TryFinishAuthSession(IF x.info THEN SetAuthPassed(x) ELSE x)))

HandleMsgAuthFinish(d) ==
    /\ Processing(d, {"DEVICE_AUTH", "SYNC_DEVICE_INFO"}, {"FINISH"})
    /\ Apply(d, Effect(d, TryFinishAuthSession([session[d] EXCEPT !.fin = TRUE])))

-----------------------------------------------------------------------------
(* Messages every state handles the same way *)

States == {"SYNC_NEGOTIATION", "SYNC_DEVICE_ID", "DEVICE_AUTH", "SYNC_DEVICE_INFO"}

(* Each cancels HiChain, unless both infos and acks are in: then the peer  *)
(* has finished and hung up first, and so does this side.                  *)
HandleCommonMsg(d) ==
    /\ Processing(d, States, {"TIMEOUT", "NOT_TRUSTED", "DISCONNECTED"})
    /\ LET x == session[d]
           done == Head1(d).t = "DISCONNECTED" /\ x.info /\ x.ack
       IN Apply(d, IF done THEN Effect(d, CompleteAuthSession(x, "OK"))
                   ELSE [Effect(d, CompleteAuthSession(x, Head1(d).t)) EXCEPT !.hc = <<>>])

(* What a state does not handle is logged and freed.                       *)
Unhandled(d) ==
    LET m == Head1(d)
        x == session[d]
    IN \/ m.t = "ID" /\ x.cur = "SYNC_DEVICE_INFO"
       \/ m.t \in {"AUTH", "INFO", "FINISH"} /\ x.cur \in {"SYNC_NEGOTIATION", "SYNC_DEVICE_ID"}
       \/ m.t \in {"KEY", "ERROR"} /\ x.cur # "DEVICE_AUTH"
       \/ m.t = "CLOSE_ACK" /\ x.cur # "SYNC_DEVICE_INFO"
       \/ m.t = "POST_ID" /\ x.cur \in {"DEVICE_AUTH", "SYNC_DEVICE_INFO"}

HandleUnexpectedMsg(d) ==
    /\ Processing(d, States, {Head1(d).t})
    /\ Unhandled(d)
    /\ Apply(d, Effect(d, session[d]))

-----------------------------------------------------------------------------
(* The connection *)

(* The fsm a reply, which has no sequence number, is for: looked up by the *)
(* connection and the role opposite to the sender's.  The sender's role is *)
(* taken from the connection and corrected by the role the session key was *)
(* saved under.                                                            *)
CorrectFromServer(d) == IF session[d].key THEN ~session[d].isServer ELSE IsConnectServer(Peer(d))

Finds(d, m) == session[d].live /\ (m.v = "REPLY" => session[d].isServer = ~CorrectFromServer(d))

(* A device id from the connect client starts a session where none lives.  *)
Starts(d, m) == m.t = "ID" /\ IsConnectServer(d) /\ ~session[d].live

OnDataReceived(d) ==
    /\ channel[d] # <<>>
    /\ channel' = [channel EXCEPT ![d] = Tail(@)]
    /\ LET m == Head(channel[d])
           posted == CASE Starts(d, m) -> <<Msg("START", FirstState(d, StartedSession(d))), m>>
                       [] ~Starts(d, m) /\ Finds(d, m) -> <<m>>
                       [] OTHER -> <<>>
       IN /\ queue' = [queue EXCEPT ![d] = @ \o posted]
          /\ session' = IF Starts(d, m) THEN [session EXCEPT ![d] = StartedSession(d)] ELSE session
          /\ restarted' = (restarted \/ (Starts(d, m) /\ session[d] # NoSession))
    /\ UNCHANGED <<setup, hichain, others, link, lost, faults, calm>>

(* HandleDisconnectedEvent.  When the peer hung up, what it sent before    *)
(* arrives first; a broken link loses what is on its way.                  *)
OnDisconnected(d) ==
    /\ link # "up" /\ ~lost[d]
    /\ link = "closed" => channel[d] = <<>>
    /\ channel' = [channel EXCEPT ![d] = <<>>]
    /\ lost' = [lost EXCEPT ![d] = TRUE]
    /\ queue' = [queue EXCEPT ![d] =
           IF session[d].live THEN Append(@, Msg("DISCONNECTED", "")) ELSE @]
    /\ UNCHANGED <<setup, session, hichain, others, link, restarted, faults, calm>>

LinkDown ==
    /\ Fault
    /\ link = "up" /\ \E d \in Devices : session[d].live
    /\ link' = "broken"
    /\ UNCHANGED <<setup, session, queue, channel, hichain, others, lost, restarted>>

-----------------------------------------------------------------------------
(* Timers and other sessions *)

Waits(d) == session[d].live /\ session[d].cur = "SYNC_DEVICE_ID" /\ session[d].local = "START" /\ others[d]

InFlight ==
    \E d \in Devices : queue[d] # <<>> \/ channel[d] # <<>> \/ hichain[d] # <<>>
                       \/ (link # "up" /\ ~lost[d])

(* The 10 s timer: it becomes due when nothing else is left to happen, or, *)
(* as one of the faults, races with what is.  A restarted session may find *)
(* its peer a server like itself; the two then answer each other's ids     *)
(* until a timer ends it.                                                  *)
TimeoutDue(d) ==
    /\ session[d].live /\ session[d].timer
    /\ \A i \in 1..Len(queue[d]) : queue[d][i].t # "TIMEOUT"
    /\ \/ Fault
       \/ (~InFlight \/ (restarted /\ session[d].isServer)) /\ calm' = FALSE /\ UNCHANGED faults
    /\ queue' = [queue EXCEPT ![d] = Append(@, Msg("TIMEOUT", ""))]
    /\ UNCHANGED <<setup, session, channel, hichain, others, link, lost, restarted>>

(* AuthSessionHandleDeviceNotTrusted: the peer, known by its udid, leaves  *)
(* the group.                                                              *)
HandleDeviceNotTrusted(d) ==
    /\ Fault
    /\ session[d].live /\ session[d].udid
    /\ queue' = [queue EXCEPT ![d] = Append(@, Msg("NOT_TRUSTED", ""))]
    /\ UNCHANGED <<setup, session, channel, hichain, others, link, lost, restarted>>

(* The other request ends.  It gives the turn to the one that waits if it  *)
(* failed, or succeeded over another kind of link.                         *)
NotifyNormalizeRequest(d) ==
    /\ others[d]
    /\ others' = [others EXCEPT ![d] = FALSE]
    /\ \E resumes \in BOOLEAN :
          /\ queue' = [queue EXCEPT ![d] = IF resumes /\ Waits(d) THEN Append(@, Msg("POST_ID", "")) ELSE @]
          /\ calm' = (calm /\ (Waits(d) => resumes))
    /\ UNCHANGED <<setup, session, channel, hichain, link, lost, restarted, faults>>

-----------------------------------------------------------------------------

Looper(d) ==
    \/ ProcessStartMessage(d)
    \/ HandleMsgRecvDeviceIdNego(d)
    \/ HandleMsgRecvDeviceId(d)
    \/ HandleMsgPostDeviceId(d)
    \/ HandleMsgRecvAuthData(d)
    \/ HandleMsgAuthError(d)
    \/ HandleMsgSaveSessionKey(d)
    \/ HandleMsgRecvDevInfoEarly(d)
    \/ HandleMsgRecvDeviceInfo(d)
    \/ HandleMsgRecvCloseAck(d)
    \/ HandleMsgAuthFinish(d)
    \/ HandleCommonMsg(d)
    \/ HandleUnexpectedMsg(d)
    \/ OnDataReceived(d)

Next ==
    \/ \E d \in Devices : Looper(d)
    \/ \E d \in Devices : HichainCallback(d)
    \/ \E d \in Devices : OnError(d)
    \/ \E d \in Devices : OnDisconnected(d)
    \/ \E d \in Devices : TimeoutDue(d)
    \/ \E d \in Devices : HandleDeviceNotTrusted(d)
    \/ \E d \in Devices : NotifyNormalizeRequest(d)
    \/ LinkDown

Spec == Init /\ [][Next]_vars

(* The looper runs, timers become due, HiChain makes the callbacks it owes *)
(* and the connection delivers or reports its loss.                        *)
FairSpec ==
    /\ Spec
    /\ \A d \in Devices : /\ WF_vars(Looper(d))
                          /\ WF_vars(HichainCallback(d))
                          /\ WF_vars(OnDisconnected(d))
                          /\ WF_vars(TimeoutDue(d))

-----------------------------------------------------------------------------
(* Properties *)

Authenticating(d) == session[d].cur \in {"DEVICE_AUTH", "SYNC_DEVICE_INFO"}

(* The two devices agree on their roles: when both have left the exchange  *)
(* of device ids, exactly one is the server (isServer, decided by          *)
(* HandleMsgRecvDeviceIdNego from UpdateLocalAuthState on each side, from  *)
(* what each knows of the other).  A session that B restarts on a late id  *)
(* of A joins the exchange in the middle and is not covered.               *)
RolesAgree ==
    (~restarted /\ Authenticating("A") /\ Authenticating("B"))
        => session["A"].isServer # session["B"].isServer

(* Without faults the exchange never stalls: when no message, callback or  *)
(* turn is outstanding, both sessions have completed with SOFTBUS_OK.  No  *)
(* message is dropped because it came in a state that ignores it, whatever *)
(* the roles, the link and the order in which HiChain serves the sides.    *)
NoStall ==
    (calm /\ ~InFlight /\ \A d \in Devices : ~Waits(d)) => \A d \in Devices : session[d].result = "OK"

(* A device that reports the peer as authenticated                         *)
(* (AuthManagerSetAuthPassed) knows that the peer has the session key;     *)
(* and, but for the WIFI server, which passes before its reply is read,    *)
(* that the peer has its device info.                                      *)
PassedIsShared ==
    \A d \in Devices : session[d].passed =>
        /\ session[Peer(d)].key
        /\ (ByReply /\ session[d].isServer) \/ session[Peer(d)].info

(* A pass is not taken back by a timer or the connection: a session that   *)
(* reported the peer as authenticated does not then report a timeout, a    *)
(* disconnection or a failed send (AuthManagerSetAuthFailed).  Only a      *)
(* device found untrusted can revoke it.                                   *)
PassStands ==
    \A d \in Devices : session[d].passed => session[d].result \in {"NONE", "OK", "NOT_TRUSTED"}

(* Every session is decided: it ends, or reports the peer as authenticated *)
(* (the timer of AuthSessionStartAuth covers every state up to the pass).  *)
(* A passed session has no timer: if the peer gives up before HiChain has  *)
(* finished it stays until the connection goes.                            *)
SessionDecided == \A d \in Devices : session[d].live ~> (~session[d].live \/ session[d].passed)
=============================================================================
