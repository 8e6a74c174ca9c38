--------------------------- MODULE BrManagerWaits ---------------------------
(***************************************************************************)
(* The BR manager, second part: the attempt in progress has its timeout    *)
(* and its result is still to come, and every device that waits will be    *)
(* woken by an event that is on its way.                                   *)
(***************************************************************************)
EXTENDS BrManagerProofs
----------------------------------------------------------------------------
(* The second half of the invariant: the attempt and the waiting devices.  *)

\* The attempt: its connection, whose result is still to come, and its timeout.
Going(c) ==
    /\ ListedClient(c)
    /\ \/ conns[c].thread \in {"connecting", "connected"}
       \/ c \in fails
       \/ In(queue, Msg("success", c))
Attempt(c) == timeouts = {c} /\ Going(c) /\ conns[c].addr = connecting.addr
AInv ==
    /\ mgr = "AVAILABLE" => connecting = NoDevice /\ timeouts = {}
    /\ mgr = "CONNECTING" => connecting \in Devices /\ \E c \in Ids : Attempt(c)

\* A waiting device is not the one being connected, and something will wake it.
HasConnection(a) == \E c \in Ids : conns[c].listed /\ conns[c].addr = a
Woken(d) ==
    /\ d.addr # connecting.addr
    /\ d.state = "WAIT_EVENT" => HasConnection(d.addr)
    /\ d.state = "PENDING" => d.addr \in pendings
WInv == pendings \subseteq unpends /\ \A d \in Range(waitings) : Woken(d)

WaitInv == EventInv /\ AInv /\ WInv

\* The result of an attempt stays to come, and listed connections stay listed,
\* in every step but those that take the result or the connection away.
GoesOn(c) == Going(c) => Going(c)' /\ conns'[c].addr = conns[c].addr
StaysListed(c) == conns[c].listed => conns'[c].listed /\ conns'[c].addr = conns[c].addr
Steadily == \A c \in Ids : GoesOn(c) /\ StaysListed(c)

\* Steps that leave the connections alone.
LEMMA SteadyUnchanged ==
    ASSUME CInv, UNCHANGED <<conns, fails>>, \A c \in Ids : EventsKept(c)
    PROVE  Steadily
<1>1. \A c \in Ids : conns'[c] = conns[c] /\ (In(queue', Msg("success", c)) <=> In(queue, Msg("success", c)))
  BY Zenon DEF EventsKept
<1> QED
  BY <1>1, Zenon DEF Steadily, GoesOn, StaysListed, Going, ListedClient

\* Steps that change only what no message tells.
LEMMA SteadyAlike ==
    ASSUME CInv, fails' = fails, \A c \in Ids : Alike(conns[c], conns'[c]) /\ EventsKept(c)
    PROVE  Steadily
BY Zenon DEF Steadily, GoesOn, StaysListed, Going, ListedClient, Alike, EventsKept

\* A connection is given to more requests.
LEMMA SteadyServe ==
    ASSUME CInv, NEW c \in Ids, NEW R \in FinReqs, conns' = Granted(c, R, TRUE),
           fails' = fails, \A d \in Ids : EventsKept(d)
    PROVE  Steadily
<1>1. \A d \in Ids : Alike(conns[d], conns'[d])
  <2>1. Alike(conns[c], conns'[c]) /\ \A d \in Ids : d # c => conns'[d] = conns[d]
    BY GrantFacts, Zenon DEF CInv
  <2> QED
    BY <2>1, Zenon DEF Alike
<1> QED
  BY <1>1, SteadyAlike, Zenon

\* The thread of a connection moves on.
LEMMA SteadyThread ==
    ASSUME EventInv, NEW c \in Ids, StartBrClientConnect(c) \/ Announce(c) \/ LoopReadExit(c)
    PROVE  Steadily
<1>1. CInv /\ CType /\ Life(c) /\ conns[c] \in Connections
  BY Fields, Zenon DEF EventInv, CInv
<1>2. /\ \A d \in Ids \ {c} : conns'[d] = conns[d]
      /\ conns'[c].addr = conns[c].addr /\ conns'[c].side = conns[c].side
      /\ conns'[c].listed = conns[c].listed
  BY <1>1 DEF StartBrClientConnect, Announce, LoopReadExit, Disconnected, CType, Connections
<1>3. /\ \A d \in Ids \ {c} : EventsKept(d)
      /\ In(queue, Msg("success", c)) => In(queue', Msg("success", c))
  <2>1. CASE StartBrClientConnect(c)
    BY <2>1, EventFacts, QuietSteps, MessageTypes, Zenon DEF QuietStep, EventInv, QInv, QSame
  <2>2. CASE Announce(c) \/ LoopReadExit(c)
    <3>1. \E w : QPut(Msg(w, c))
      BY <2>2, PostingSteps, Zenon DEF EventInv
    <3> QED
      BY <3>1, EventFacts, MessageTypes, Zenon DEF QPut
  <2> QED
    BY <2>1, <2>2, Zenon
<1>4. fails \subseteq fails' /\ \A d \in Ids : StaysListed(d)
  <2>1. fails \subseteq fails'
    BY Zenon DEF StartBrClientConnect, Announce, LoopReadExit
  <2> QED
    BY <1>2, <2>1, Zenon DEF StaysListed
<1>5. \A d \in Ids \ {c} : GoesOn(d)
  BY <1>2, <1>3, <1>4, Zenon DEF GoesOn, Going, ListedClient, EventsKept
<1>6. GoesOn(c)
  <2> SUFFICES ASSUME Going(c)
               PROVE  Going(c)' /\ conns'[c].addr = conns[c].addr
    BY Zenon DEF GoesOn
  <2>1. ListedClient(c)'
    BY <1>2, Zenon DEF Going, ListedClient
  <2>2. CASE StartBrClientConnect(c)
    <3>1. conns'[c].thread = "connected" \/ c \in fails'
      BY <1>1, <2>2 DEF StartBrClientConnect, CType, Connections
    <3> QED
      BY <1>2, <2>1, <3>1, Zenon DEF Going
  <2>3. CASE Announce(c)
    <3>1. In(queue', Msg("success", c))
      BY <2>3, PostingSteps, MessageTypes, Zenon DEF EventInv, QPut, Going, ListedClient
    <3> QED
      BY <1>2, <2>1, <3>1, Zenon DEF Going
  <2>4. CASE LoopReadExit(c)
    <3>1. conns[c].thread = "reading" /\ c \notin fails
      BY <1>1, <2>4, Zenon DEF LoopReadExit, Life
    <3>2. In(queue, Msg("success", c))
      BY <3>1, Zenon DEF Going
    <3> QED
      BY <1>2, <1>3, <2>1, <3>2, Zenon DEF Going
  <2> QED
    BY <2>2, <2>3, <2>4, Zenon
<1> QED
  BY <1>4, <1>5, <1>6, Zenon DEF Steadily

\* AttempReuseConnect takes nothing away.
LEMMA SteadyAttempt ==
    ASSUME CInv, NEW d \in Devices, NEW w, NEW hint, NEW directly \in BOOLEAN,
           AttempReuseConnect(d, w, hint, directly), fails' = fails, \A e \in Ids : EventsKept(e)
    PROVE  Steadily
<1>1. CASE ToWait(d, w) \/ ToFail(d, w)
  BY <1>1, SteadyUnchanged, Zenon DEF ToWait, ToFail
<1>2. CASE ToServe(d, w)
  <2>1. d.reqs \in FinReqs
    BY Zenon DEF Devices
  <2> QED
    BY <1>2, <2>1, SteadyServe, Zenon DEF ToServe
<1>3. CASE ToConnect(d, w)
  <2>1. CType /\ \A c \in Ids : c > made => ~conns[c].listed
    BY Zenon DEF CInv, Life
  <2>2. \A c \in Ids : c # made + 1 => conns'[c] = conns[c]
    BY <1>3, <2>1, Zenon DEF ToConnect, CType
  <2>3. \A c \in Ids : c = made + 1 => ~conns[c].listed
    BY <2>1 DEF CType, Ids
  <2> QED
    BY <2>2, <2>3, Zenon DEF Steadily, GoesOn, StaysListed, Going, ListedClient, EventsKept
<1> QED
  BY <1>1, <1>2, <1>3, Outcomes, Zenon

\* Neither does Reset.
LEMMA SteadyReset == EventInv /\ Reset => Steadily
<1> SUFFICES ASSUME EventInv, Reset
             PROVE  Steadily
  OBVIOUS
<1>1. CInv /\ CType /\ \A d \in Ids : EventsKept(d)
  BY TakingSteps, EventFacts, Zenon DEF EventInv, CInv, QInv
<1>2. /\ conns' = [c \in Ids |-> IF conns[c].listed
                                THEN [Disconnected(c)[c] EXCEPT !.listed = TRUE] ELSE conns[c]]
      /\ fails' = fails
  BY Zenon DEF Reset, ResetTo
<1>3. ASSUME NEW d \in Ids
      PROVE  /\ conns'[d].addr = conns[d].addr /\ conns'[d].side = conns[d].side
             /\ conns'[d].listed = conns[d].listed /\ conns'[d].thread = conns[d].thread
  <2>1. Disconnected(d)[d] \in Connections /\ Alike(conns[d], Disconnected(d)[d]) /\ conns[d] \in Connections
    BY <1>1, DisconnectFacts, Fields, Zenon
  <2>2. PICK k \in Connections : k = Disconnected(d)[d]
    BY <2>1, Zenon
  <2>3. CASE conns[d].listed
    <3>1. conns'[d] = [k EXCEPT !.listed = TRUE]
      BY <1>2, <2>2, <2>3, Zenon
    <3>2. /\ conns'[d].addr = k.addr /\ conns'[d].side = k.side
          /\ conns'[d].listed = TRUE /\ conns'[d].thread = k.thread
      BY <3>1, Zenon DEF Connections
    <3>3. conns[d].listed = TRUE
      BY <2>1, <2>3, Zenon DEF Connections
    <3> QED
      BY <2>1, <2>2, <3>2, <3>3, Zenon DEF Alike
  <2>4. CASE ~conns[d].listed
    BY <1>2, <2>4, Zenon
  <2> QED
    BY <2>3, <2>4, Zenon
<1> QED
  BY <1>1, <1>2, <1>3, Zenon DEF Steadily, GoesOn, StaysListed, Going, ListedClient, EventsKept

\* Nor do disconnecting and negotiating.
LEMMA SteadyState ==
    ASSUME EventInv, NEW c \in Ids, BrDisconnectDeviceNow(c) \/ Negotiate(c) \/ EndNegotiation(c)
    PROVE  Steadily
<1>1. CInv /\ CType /\ \A d \in Ids : EventsKept(d)
  BY QuietSteps, EventFacts, Zenon DEF EventInv, CInv, QInv, QuietStep
<1>2. fails' = fails
  BY Zenon DEF BrDisconnectDeviceNow, Negotiate, EndNegotiation
<1>3. CASE conns' = Disconnected(c)
  BY <1>1, <1>2, <1>3, DisconnectFacts, SteadyAlike, Zenon
<1>4. ASSUME NEW s, conns' = [conns EXCEPT ![c].state = s]
      PROVE  Steadily
  <2>1. \A d \in Ids : Alike(conns[d], conns'[d])
    BY <1>1, <1>4, ZenonT(60) DEF CType, Connections, Alike
  <2> QED
    BY <1>1, <1>2, <2>1, SteadyAlike, Zenon
<1> QED
  BY <1>3, <1>4, Zenon DEF BrDisconnectDeviceNow, Negotiate, EndNegotiation

\* The steps that take neither a result nor a connection away.
SteadyStep ==
    \/ ConnectRequestOnAvailableState \/ ConnectRequestOnConnectingState \/ HandlePendingRequest
    \/ ServerAccepted \/ ConnectionResume \/ Reset \/ OnBtStateChanged
    \/ \E c \in Ids : \/ ClientConnectTimeout(c) \/ ThreadStep(c)
                      \/ BrDisconnectDeviceNow(c) \/ Negotiate(c)
    \/ \E a \in Addrs : Unpend(a) \/ Accept(a) \/ BrPendConnection(a)
    \/ \E r \in Requests : BrConnectDevice(r)
    \/ UNCHANGED vars

\* All of these steps together.
LEMMA SteadySteps == EventInv /\ SteadyStep => Steadily
<1> SUFFICES ASSUME EventInv, SteadyStep
             PROVE  Steadily
  OBVIOUS
<1>0. CInv /\ CType /\ queue \in Queues /\ waitings \in Lists
  BY Zenon DEF EventInv, CInv, DInv, QInv
<1>1. CASE ConnectRequestOnAvailableState
  <2>1. \A d \in Ids : EventsKept(d)
    BY <1>0, <1>1, TakingSteps, EventFacts, Zenon
  <2>2. UNCHANGED <<conns, fails>>
    BY <1>1 DEF ConnectRequestOnAvailableState, timers
  <2> QED
    BY <1>0, <2>1, <2>2, SteadyUnchanged, Zenon
<1>2. CASE ConnectRequestOnConnectingState
  <2>1. (\A d \in Ids : EventsKept(d)) /\ Arg \in Requests /\ fails' = fails
    BY <1>0, <1>2, TakingSteps, EventFacts, Zenon DEF ConnectRequestOnConnectingState
  <2>2. Device(AddrOf[Arg], "INIT", {Arg}) \in Devices
    BY <2>1, DeviceFacts
  <2>3. PICK hint \in {0} \cup Ids :
            AttempReuseConnect(Device(AddrOf[Arg], "INIT", {Arg}), waitings, hint, FALSE)
    BY <1>2, Zenon DEF ConnectRequestOnConnectingState
  <2> QED
    BY <1>0, <2>1, <2>2, <2>3, SteadyAttempt, Zenon
<1>3. CASE HandlePendingRequest
  <2> DEFINE i == First({j \in DOMAIN waitings : waitings[j].state = "WAIT_SCHEDULE"})
  <2>1. (\A d \in Ids : EventsKept(d)) /\ fails' = fails
    BY <1>0, <1>3, TakingSteps, EventFacts, Zenon DEF HandlePendingRequest
  <2>2. CASE mgr = "AVAILABLE" /\ i # 0
    <3>1. i \in DOMAIN waitings
      BY <1>0, <2>2, NextInLine, Zenon
    <3>2. waitings[i] \in Devices
      BY <1>0, <3>1, ListFacts, Zenon
    <3>3. PICK hint \in {0} \cup Ids :
              AttempReuseConnect(waitings[i], RemoveAt(waitings, i), hint, TRUE)
      BY <1>3, <2>2, Zenon DEF HandlePendingRequest
    <3> QED
      BY <1>0, <2>1, <3>2, <3>3, SteadyAttempt, Zenon
  <2>3. CASE conns' = conns
    BY <1>0, <2>1, <2>3, SteadyUnchanged, Zenon
  <2> QED
    BY <1>3, <2>2, <2>3, Zenon DEF HandlePendingRequest
<1>4. CASE ServerAccepted \/ ConnectionResume
  <2>1. (\A d \in Ids : EventsKept(d)) /\ Arg \in Ids
    BY <1>0, <1>4, TakingSteps, EventFacts, Zenon
  <2>2. fails' = fails /\ (conns' = conns \/ ServesAll(Arg))
    BY <1>4, AcceptedCases, ResumeCases, Zenon
  <2>3. CASE ServesAll(Arg)
    BY <1>0, <2>1, <2>2, <2>3, RequestsForFacts, SteadyServe, Zenon DEF ServesAll
  <2> QED
    BY <1>0, <2>1, <2>2, <2>3, SteadyUnchanged, Zenon
<1>5. ASSUME \/ \E c \in Ids : ClientConnectTimeout(c)
             \/ \E a \in Addrs : Unpend(a) \/ BrPendConnection(a)
             \/ OnBtStateChanged
      PROVE  Steadily
  <2>1. \A d \in Ids : EventsKept(d)
    BY <1>0, <1>5, QuietSteps, EventFacts, Zenon DEF QuietStep
  <2>2. UNCHANGED <<conns, fails>>
    BY <1>5 DEF ClientConnectTimeout, Unpend, BrPendConnection, OnBtStateChanged, timers
  <2> QED
    BY <1>0, <2>1, <2>2, SteadyUnchanged, Zenon
<1>6. ASSUME NEW r \in Requests, BrConnectDevice(r)
      PROVE  Steadily
  <2>1. \A d \in Ids : EventsKept(d)
    BY <1>6, PostingSteps, EventFacts, Zenon DEF EventInv
  <2>2. UNCHANGED <<conns, fails>>
    BY <1>6 DEF BrConnectDevice, timers
  <2> QED
    BY <1>0, <2>1, <2>2, SteadyUnchanged, Zenon
<1>7. ASSUME NEW a \in Addrs, Accept(a)
      PROVE  Steadily
  <2>1. \A d \in Ids : EventsKept(d)
    BY <1>0, <1>7, QuietSteps, EventFacts, Zenon DEF QuietStep
  <2>2. \A c \in Ids : c # made + 1 => conns'[c] = conns[c]
    BY <1>0, <1>7 DEF Accept, CType
  <2>3. \A c \in Ids : c = made + 1 => ~conns[c].listed
    BY <1>0 DEF CInv, CType, Life, Ids
  <2>4. fails' = fails
    BY <1>7 DEF Accept
  <2> QED
    BY <2>1, <2>2, <2>3, <2>4, Zenon DEF Steadily, GoesOn, StaysListed, Going, ListedClient, EventsKept
<1>8. CASE UNCHANGED vars
  <2>1. (\A d \in Ids : EventsKept(d)) /\ UNCHANGED <<conns, fails>>
    BY <1>8 DEF vars, EventsKept, timers
  <2> QED
    BY <1>0, <2>1, SteadyUnchanged, Zenon
<1> QED
  BY <1>1, <1>2, <1>3, <1>4, <1>5, <1>6, <1>7, <1>8, SteadyReset, SteadyThread, SteadyState, Zenon
     DEF SteadyStep, ThreadStep

----------------------------------------------------------------------------
(* What becomes of the attempt and of the waiting devices.                 *)

\* NoDevice is no device.
LEMMA NoneConnects == NoDevice \notin Devices /\ NoDevice.addr \notin Addrs /\ \A d \in Devices : d.addr \in Addrs
BY ManagerAssumption DEF NoDevice, NoAddr, Devices

\* The attempt goes on while nothing touches it.
LEMMA AttemptStays ==
    ASSUME DInv, AInv, mgr' = mgr, timeouts' = timeouts,
           \A c \in Ids : timeouts = {c} => GoesOn(c),
           \/ connecting' = connecting
           \/ connecting \in Devices /\ connecting' \in Devices /\ connecting'.addr = connecting.addr
    PROVE  AInv'
<1>1. CASE mgr = "AVAILABLE"
  <2>1. connecting' = connecting
    BY <1>1, NoneConnects, Zenon DEF AInv
  <2> QED
    BY <1>1, <2>1 DEF AInv
<1>2. CASE mgr = "CONNECTING"
  <2>1. PICK c \in Ids : Attempt(c)
    BY <1>2, Zenon DEF AInv
  <2>2. connecting' \in Devices /\ connecting'.addr = connecting.addr
    BY <1>2, Zenon DEF AInv
  <2>3. GoesOn(c)
    BY <2>1, Zenon DEF Attempt
  <2>4. Attempt(c)'
    BY <2>1, <2>2, <2>3, Zenon DEF Attempt, GoesOn
  <2> QED
    BY <1>2, <2>2, <2>4 DEF AInv
<1> QED
  BY <1>1, <1>2 DEF DInv

\* Without an attempt there is nothing to time.
LEMMA AttemptEnds ==
    ASSUME mgr' = "AVAILABLE", connecting' = NoDevice, timeouts' = {}
    PROVE  AInv'
BY DEF AInv

\* A listed client of the address being connected is the attempt's own.
LEMMA AttemptsOwn ==
    ASSUME WaitInv, NEW c \in Ids, ListedClient(c), conns[c].addr = connecting.addr
    PROVE  mgr = "CONNECTING" /\ connecting \in Devices /\ timeouts = {c} /\ Going(c)
<1>1. conns[c].addr \in Addrs
  <2>1. CType /\ Life(c)
    BY Zenon DEF WaitInv, EventInv, CInv
  <2> QED
    BY <2>1 DEF CType, Life, ListedClient, Ids
<1>2. mgr = "CONNECTING"
  BY <1>1, NoneConnects, Zenon DEF WaitInv, EventInv, DInv, AInv
<1>3. PICK e \in Ids : Attempt(e)
  BY <1>2, Zenon DEF WaitInv, AInv
<1>4. e = c
  BY <1>3, Zenon DEF WaitInv, EventInv, CInv, OneClient, Attempt, Going
<1> QED
  BY <1>2, <1>3, <1>4, Zenon DEF WaitInv, AInv, Attempt

\* A connection to another address is not.
LEMMA AnothersConnection ==
    ASSUME DInv, AInv, NEW c \in Ids, conns[c].addr # connecting.addr
    PROVE  timeouts # {c}
<1>1. SUFFICES ASSUME timeouts = {c}
               PROVE  FALSE
  OBVIOUS
<1>2. mgr = "CONNECTING"
  BY <1>1 DEF AInv, DInv
<1>3. PICK d \in Ids : Attempt(d)
  BY <1>2, Zenon DEF AInv
<1> QED
  BY <1>1, <1>3, Zenon DEF Attempt

\* A waiting device still waits for something.
LEMMA StillWoken ==
    ASSUME DInv, WInv, NEW d \in Range(waitings), connecting'.addr \in {connecting.addr, NoAddr},
           HasConnection(d.addr) => HasConnection(d.addr)',
           d.addr \in pendings => d.addr \in pendings'
    PROVE  Woken(d)'
<1>1. d.addr \in Addrs /\ Woken(d)
  BY NoneConnects, ListFacts, Zenon DEF DInv, WInv
<1>2. d.addr # NoAddr
  BY <1>1, NoneConnects, Zenon DEF NoDevice
<1> QED
  BY <1>1, <1>2, Zenon DEF Woken

\* An address keeps its connection.
LEMMA ConnectionsStay ==
    ASSUME \A c \in Ids : StaysListed(c), NEW a
    PROVE  HasConnection(a) => HasConnection(a)'
BY Zenon DEF HasConnection, StaysListed

\* Every waiting device still waits for something.
LEMMA AllWoken ==
    ASSUME DInv, WInv, connecting'.addr \in {connecting.addr, NoAddr}, \A c \in Ids : StaysListed(c),
           pendings \subseteq pendings'
    PROVE  \A d \in Range(waitings) : Woken(d)'
BY StillWoken, ConnectionsStay, Zenon

\* Nor does it matter what else changes in a waiting device.
LEMMA WaitsLonger ==
    ASSUME NEW d, Woken(d)', NEW e, e.addr = d.addr, e.state = d.state
    PROVE  Woken(e)'
BY Zenon DEF Woken, HasConnection

\* Waiting devices that have been woken have nothing to wait for.
LEMMA ScheduledWoken ==
    ASSUME DInv, WInv, NEW a, waitings' = Scheduled(waitings, a), connecting' = connecting,
           \A d \in Range(waitings) : d.addr # a =>
              /\ HasConnection(d.addr) => HasConnection(d.addr)'
              /\ d.addr \in pendings => d.addr \in pendings'
    PROVE  \A d \in Range(waitings') : Woken(d)'
<1>1. waitings \in Lists
  BY Zenon DEF DInv
<1>2. \A d \in Range(waitings) : d.addr # a => Woken(d)'
  BY StillWoken, Zenon
<1>3. CASE Range(waitings') = Range(waitings) /\ \A d \in Range(waitings) : d.addr # a
  BY <1>2, <1>3, Zenon
<1>4. ASSUME NEW d \in Range(waitings), d.addr = a,
             Range(waitings') = (Range(waitings) \ {d}) \cup {[d EXCEPT !.state = "WAIT_SCHEDULE"]}
      PROVE  \A e \in Range(waitings') : Woken(e)'
  <2>1. PICK f \in Devices : f = [d EXCEPT !.state = "WAIT_SCHEDULE"]
    BY <1>1, ListFacts, DeviceFacts, Zenon
  <2>2. f.addr = d.addr /\ f.state = "WAIT_SCHEDULE"
    BY <1>1, <2>1, ListFacts, DeviceFacts, Zenon
  <2>3. Woken(f)'
    BY <2>2 DEF Woken, WInv
  <2>4. \A e \in Range(waitings) \ {d} : Woken(e)'
    BY <1>1, <1>2, <1>4, ListFacts, Zenon
  <2> QED
    BY <1>4, <2>1, <2>3, <2>4, Zenon
<1> QED
  BY <1>1, <1>3, <1>4, ScheduledFacts, Zenon

\* A device that PendingDevice puts in the list waits for something.
LEMMA PendedWoken ==
    ASSUME DInv, WInv, NEW d \in Devices, NEW w \in Lists, Range(w) \subseteq Range(waitings),
           NEW cur \in Devices \cup {NoDevice}, PendingDevice(d, w, cur),
           cur.addr \in {connecting.addr, NoAddr},
           \A c \in Ids : StaysListed(c), pendings \subseteq pendings',
           d.state = "WAIT_EVENT" => HasConnection(d.addr)', d.state = "PENDING" => d.addr \in pendings'
    PROVE  /\ connecting' \in Devices \cup {NoDevice} /\ connecting'.addr = cur.addr
           /\ cur = NoDevice => connecting' = cur
           /\ \A e \in Range(waitings') : Woken(e)'
<1>0. connecting' \in Devices \cup {NoDevice} /\ connecting'.addr = cur.addr /\ (cur = NoDevice => connecting' = cur)
  <2>1. CASE Joins(d, w, cur)
    <3>1. connecting' = [cur EXCEPT !.reqs = @ \cup d.reqs] /\ cur.addr = d.addr
      BY <2>1, Zenon DEF Joins
    <3>2. cur \in Devices
      BY <3>1, NoneConnects, Zenon
    <3> QED
      BY <3>1, <3>2, NoneConnects, Pended, Zenon DEF Devices
  <2>2. CASE JoinsWaiting(d, w, cur) \/ WaitsNew(d, w, cur)
    BY <2>2, Zenon DEF JoinsWaiting, WaitsNew
  <2> QED
    BY <2>1, <2>2, Pended, Zenon
<1>1. \A e \in Range(w) : Woken(e)'
  <2>1. \A e \in Range(waitings) : Woken(e)'
    BY <1>0, AllWoken, Zenon
  <2> QED
    BY <2>1
<1>2. CASE Joins(d, w, cur)
  BY <1>0, <1>1, <1>2, Zenon DEF Joins
<1>3. CASE JoinsWaiting(d, w, cur)
  <2>1. PICK e \in Range(w) :
            /\ e.addr = d.addr
            /\ Range(waitings') = (Range(w) \ {e}) \cup {[e EXCEPT !.reqs = @ \cup d.reqs]}
    BY <1>3, Zenon DEF JoinsWaiting
  <2>2. PICK f : f = [e EXCEPT !.reqs = @ \cup d.reqs]
    BY Zenon
  <2>3. f.addr = e.addr /\ f.state = e.state
    BY <2>2, ListFacts, ZenonT(60) DEF Devices
  <2>4. Woken(f)'
    BY <1>1, <2>3, WaitsLonger, Zenon
  <2> QED
    BY <1>0, <1>1, <2>1, <2>2, <2>4, Zenon
<1>4. CASE WaitsNew(d, w, cur)
  <2>1. connecting'.addr # d.addr /\ Range(waitings') = Range(w) \cup {d}
    BY <1>4, Zenon DEF WaitsNew
  <2>2. Woken(d)'
    BY <2>1, Zenon DEF Woken
  <2> QED
    BY <1>0, <1>1, <2>1, <2>2, Zenon
<1> QED
  BY <1>0, <1>2, <1>3, <1>4, Pended, Zenon

\* AttempReuseConnect, of a device that does not wait any more.
LEMMA AttemptW ==
    ASSUME WaitInv, Steadily, pendings' = pendings, unpends' = unpends,
           NEW d \in Devices, NEW w \in Lists, Range(w) \subseteq Range(waitings),
           NEW hint, NEW directly \in BOOLEAN, AttempReuseConnect(d, w, hint, directly),
           directly => mgr = "AVAILABLE" /\ \A e \in Range(w) : e.addr # d.addr
    PROVE  AInv' /\ WInv'
<1>0. /\ DInv /\ AInv /\ WInv /\ \A c \in Ids : GoesOn(c) /\ StaysListed(c)
      /\ connecting \in Devices \cup {NoDevice} /\ pendings' \subseteq unpends'
  BY Zenon DEF WaitInv, EventInv, DInv, WInv, Steadily
<1>1. CASE ToWait(d, w)
  <2>1. mgr' = mgr /\ timeouts' = timeouts
    BY <1>1 DEF ToWait
  <2>2. PICK s \in {"WAIT_SCHEDULE", "PENDING", "WAIT_EVENT"} :
            /\ PendingDevice([d EXCEPT !.state = s], w, connecting)
            /\ s = "PENDING" => d.addr \in pendings
            /\ s = "WAIT_EVENT" => \E c \in Ids : conns[c].listed /\ conns[c].addr = d.addr
    BY <1>1, Zenon DEF ToWait
  <2>3. PICK e \in Devices : e = [d EXCEPT !.state = s]
    BY DeviceFacts, Zenon
  <2>4. /\ e.addr = d.addr /\ e.state = s
        /\ e.state = "WAIT_EVENT" => HasConnection(e.addr)'
        /\ e.state = "PENDING" => e.addr \in pendings'
    <3>1. e.addr = d.addr /\ e.state = s
      BY <2>3, DeviceFacts, Zenon
    <3>2. s = "WAIT_EVENT" => HasConnection(d.addr)
      BY <2>2, Zenon DEF HasConnection
    <3> QED
      BY <1>0, <2>2, <3>1, <3>2, ConnectionsStay, Zenon
  <2>5. /\ connecting' \in Devices \cup {NoDevice} /\ connecting'.addr = connecting.addr
        /\ connecting = NoDevice => connecting' = connecting
        /\ \A f \in Range(waitings') : Woken(f)'
    BY <1>0, <2>2, <2>3, <2>4, PendedWoken, Zenon
  <2>6. \/ connecting' = connecting
        \/ connecting \in Devices /\ connecting' \in Devices /\ connecting'.addr = connecting.addr
    BY <1>0, <2>5, NoneConnects, Zenon
  <2>7. AInv'
    BY <1>0, <2>1, <2>6, AttemptStays, Zenon
  <2> QED
    BY <1>0, <2>5, <2>7, Zenon DEF WInv
<1>2. CASE directly /\ ToConnect(d, w)
  <2>1. PICK c : c = made + 1
    OBVIOUS
  <2>2. c \in Ids
    <3>1. MaxConnections \in Nat /\ made < MaxConnections
      BY <1>2, ManagerAssumption, Zenon DEF ToConnect
    <3>2. made \in 0..MaxConnections
      BY Zenon DEF WaitInv, EventInv, CInv, CType
    <3> QED
      BY <2>1, <3>1, <3>2 DEF Ids
  <2>3. timeouts = {} /\ \A e \in Range(w) : e.addr # d.addr
    BY <1>2, Zenon DEF WaitInv, AInv
  <2>4. /\ mgr' = "CONNECTING" /\ connecting' = [d EXCEPT !.state = "WAIT_SCHEDULE"]
        /\ waitings' = w /\ timeouts' = {c} /\ conns'[c] = ClientConnection(d.addr)
    BY <1>2, <2>1, <2>2, <2>3 DEF ToConnect, WaitInv, EventInv, CInv, CType
  <2>5. connecting' \in Devices /\ connecting'.addr = d.addr
    BY <2>4, DeviceFacts, Zenon
  <2>6. /\ conns'[c].listed /\ conns'[c].side = "client" /\ conns'[c].thread = "connecting"
        /\ conns'[c].addr = d.addr
    BY <2>4 DEF ClientConnection, NoConnection
  <2>7. AInv'
    BY <2>2, <2>4, <2>5, <2>6 DEF AInv, Attempt, Going, ListedClient
  <2>8. ASSUME NEW e \in Range(w)
        PROVE  Woken(e)'
    <3>1. Woken(e) /\ HasConnection(e.addr) => HasConnection(e.addr)'
      BY <1>0, ConnectionsStay, Zenon
    <3>2. Woken(e) /\ e \in Range(waitings)
      BY <1>0 DEF WInv
    <3> QED
      BY <2>3, <2>5, <3>1, <3>2, Zenon DEF Woken
  <2> QED
    BY <1>0, <2>4, <2>7, <2>8, Zenon DEF WInv
<1>3. CASE ToFail(d, w) \/ ToServe(d, w)
  <2>1. mgr' = mgr /\ timeouts' = timeouts /\ connecting' = connecting /\ waitings' = w
    BY <1>3, Zenon DEF ToFail, ToServe
  <2>2. AInv'
    BY <1>0, <2>1, AttemptStays, Zenon
  <2>3. \A e \in Range(waitings) : Woken(e)'
    BY <1>0, <2>1, AllWoken, Zenon
  <2> QED
    BY <1>0, <2>1, <2>2, <2>3 DEF WInv
<1> QED
  BY <1>1, <1>2, <1>3, Outcomes, Zenon

\* The steps that leave the devices alone.
LEMMA OthersW ==
    ASSUME WaitInv, Steadily, UNCHANGED <<mgr, connecting, waitings, timeouts>>,
           pendings \subseteq pendings', pendings' \subseteq unpends'
    PROVE  AInv' /\ WInv'
<1>0. /\ DInv /\ AInv /\ WInv /\ \A c \in Ids : GoesOn(c) /\ StaysListed(c)
      /\ mgr' = mgr /\ connecting' = connecting /\ waitings' = waitings /\ timeouts' = timeouts
  BY Zenon DEF WaitInv, EventInv, Steadily
<1>1. AInv'
  BY <1>0, AttemptStays, Zenon
<1>2. \A d \in Range(waitings) : Woken(d)'
  BY <1>0, AllWoken, Zenon
<1> QED
  BY <1>0, <1>1, <1>2 DEF WInv

\* A connect request.
LEMMA RequestW ==
    ASSUME WaitInv, ConnectRequestOnAvailableState \/ ConnectRequestOnConnectingState
    PROVE  AInv' /\ WInv'
<1>0. /\ DInv /\ AInv /\ WInv /\ Steadily /\ \A c \in Ids : GoesOn(c) /\ StaysListed(c)
      /\ connecting \in Devices \cup {NoDevice} /\ waitings \in Lists
      /\ Arg \in Requests
  BY SteadySteps, TakingSteps, Zenon DEF SteadyStep, WaitInv, EventInv, DInv, Steadily, QInv
<1>1. CASE ConnectRequestOnAvailableState
  <2>1. /\ mgr' = mgr /\ timeouts' = timeouts /\ pendings' = pendings /\ unpends' = unpends
        /\ mgr = "AVAILABLE"
    BY <1>1 DEF ConnectRequestOnAvailableState, timers
  <2>2. connecting = NoDevice
    BY <1>0, <2>1, Zenon DEF AInv
  <2>3. CASE PendingDevice(Device(AddrOf[Arg], "WAIT_SCHEDULE", {Arg}), waitings, connecting)
    <3>1. PICK d \in Devices : d = Device(AddrOf[Arg], "WAIT_SCHEDULE", {Arg})
      BY <1>0, DeviceFacts, Zenon
    <3>2. d.state = "WAIT_SCHEDULE"
      BY <3>1, Zenon DEF Device
    <3>3. connecting' = connecting /\ \A e \in Range(waitings') : Woken(e)'
      BY <1>0, <2>1, <2>2, <2>3, <3>1, <3>2, PendedWoken
    <3>4. AInv'
      BY <1>0, <2>1, <3>3, AttemptStays, Zenon
    <3> QED
      BY <1>0, <2>1, <3>3, <3>4, Zenon DEF WInv
  <2>4. CASE UNCHANGED devices
    BY <1>0, <2>1, <2>4, OthersW DEF devices, WInv
  <2> QED
    BY <1>1, <2>3, <2>4, Zenon DEF ConnectRequestOnAvailableState
<1>2. CASE ConnectRequestOnConnectingState
  <2>1. pendings' = pendings /\ unpends' = unpends
    BY <1>2 DEF ConnectRequestOnConnectingState
  <2>2. Device(AddrOf[Arg], "INIT", {Arg}) \in Devices
    BY <1>0, DeviceFacts, Zenon
  <2>3. PICK hint \in {0} \cup Ids :
            AttempReuseConnect(Device(AddrOf[Arg], "INIT", {Arg}), waitings, hint, FALSE)
    BY <1>2, Zenon DEF ConnectRequestOnConnectingState
  <2> QED
    BY <1>0, <2>1, <2>2, <2>3, AttemptW, Zenon
<1> QED
  BY <1>1, <1>2

\* The next waiting device.
LEMMA PendingW == WaitInv /\ HandlePendingRequest => AInv' /\ WInv'
<1> SUFFICES ASSUME WaitInv, HandlePendingRequest
             PROVE  AInv' /\ WInv'
  OBVIOUS
<1> DEFINE i == First({j \in DOMAIN waitings : waitings[j].state = "WAIT_SCHEDULE"})
<1>0. DInv /\ WInv /\ Steadily /\ waitings \in Lists
  BY SteadySteps, Zenon DEF SteadyStep, WaitInv, EventInv, DInv
<1>1. pendings' = pendings /\ unpends' = unpends
  BY DEF HandlePendingRequest
<1>2. CASE mgr = "AVAILABLE" /\ i # 0
  <2>1. i \in DOMAIN waitings
    BY <1>0, <1>2, NextInLine, Zenon
  <2>2. PICK hint \in {0} \cup Ids :
            AttempReuseConnect(waitings[i], RemoveAt(waitings, i), hint, TRUE)
    BY <1>2, Zenon DEF HandlePendingRequest
  <2>3. PICK w \in Lists : w = RemoveAt(waitings, i) /\ Range(w) = Range(waitings) \ {waitings[i]}
    BY <1>0, <2>1, RemoveFacts, Zenon
  <2>4. PICK d \in Devices : d = waitings[i] /\ d \in Range(waitings)
    BY <1>0, <2>1, ListFacts, Zenon
  <2>5. \A e \in Range(w) : e.addr # d.addr
    BY <1>0, <2>3, <2>4, ListFacts, Zenon
  <2>6. AttempReuseConnect(d, w, hint, TRUE) /\ Range(w) \subseteq Range(waitings)
    BY <2>2, <2>3, <2>4, Zenon
  <2> QED
    BY <1>0, <1>1, <1>2, <2>5, <2>6, AttemptW, Zenon
<1>3. CASE UNCHANGED <<mgr, devices, conns, made, timeouts, answers>>
  <2>1. UNCHANGED <<mgr, connecting, waitings, timeouts>>
    BY <1>3 DEF devices
  <2> QED
    BY <1>0, <1>1, <2>1, OthersW, Zenon DEF WInv
<1> QED
  BY <1>2, <1>3, Zenon DEF HandlePendingRequest

\* The timeout of the attempt.
LEMMA TimeoutW ==
    ASSUME WaitInv, NEW c \in Ids, ClientConnectTimeout(c)
    PROVE  AInv' /\ WInv'
<1>0. /\ DInv /\ AInv /\ WInv /\ \A e \in Ids : StaysListed(e)
      /\ waitings' = waitings /\ pendings' = pendings /\ unpends' = unpends
  BY SteadySteps DEF SteadyStep, WaitInv, EventInv, Steadily, ClientConnectTimeout
<1>1. mgr = "CONNECTING" /\ Attempt(c)
  BY <1>0 DEF AInv, DInv, Attempt, ClientConnectTimeout
<1>2. mgr' = "AVAILABLE" /\ connecting' = NoDevice /\ timeouts' = {}
  BY <1>1 DEF ClientConnectTimeout, Attempt
<1>3. AInv'
  BY <1>2, AttemptEnds, Zenon
<1>4. connecting'.addr = NoAddr
  BY <1>2 DEF NoDevice
<1>5. \A d \in Range(waitings) : Woken(d)'
  BY <1>0, <1>4, AllWoken
<1> QED
  BY <1>0, <1>3, <1>5, Zenon DEF WInv

\* The attempt succeeds.
LEMMA ConnectedW == WaitInv /\ ClientConnected => AInv' /\ WInv'
<1> SUFFICES ASSUME WaitInv, ClientConnected
             PROVE  AInv' /\ WInv'
  OBVIOUS
<1>0. /\ DInv /\ AInv /\ WInv /\ CInv /\ CType /\ waitings \in Lists
      /\ QTook(Msg("success", Arg))
  BY TakingSteps, Zenon DEF WaitInv, EventInv, DInv, QInv, CInv
<1>1. PICK c \in Ids : c = Arg
  BY TakingSteps, Zenon DEF WaitInv, EventInv, QInv
<1>2. /\ pendings' = pendings /\ unpends' = unpends /\ fails' = fails
      /\ (\E i : ServesWaiting(c, i)) \/ GivesBack(c) \/ ServesConnecting(c)
  BY <1>1, ConnectedCases, Zenon
<1>3. Life(c) /\ In(queue, Msg("success", c)) /\ ListedClient(c)
  BY <1>0, <1>1, Zenon DEF CInv, QTook, Life, ListedClient
<1>4. ASSUME NEW R \in FinReqs, conns' = Granted(c, R, FALSE)
      PROVE  /\ \A d \in Ids : d # c => conns'[d] = conns[d]
             /\ conns'[c].addr = conns[c].addr /\ conns'[c].listed = conns[c].listed
  BY <1>0, <1>4, GrantFacts, Zenon
<1>5. \A d \in Ids : d # c => EventsKept(d)
  BY <1>0, <1>1, EventFacts, Zenon
<1>6. ASSUME \A d \in Ids : d # c => conns'[d] = conns[d],
             conns'[c].addr = conns[c].addr, conns'[c].listed = conns[c].listed
      PROVE  /\ \A d \in Ids : StaysListed(d)
             /\ \A d \in Ids : d # c => GoesOn(d)
  BY <1>2, <1>5, <1>6, Zenon DEF StaysListed, GoesOn, Going, ListedClient, EventsKept
<1>7. CASE \E i : ServesWaiting(c, i)
  <2>1. PICK i : ServesWaiting(c, i)
    BY <1>7
  <2>2. /\ i # 0 /\ i = Find(waitings, conns[c].addr) /\ waitings' = RemoveAt(waitings, i)
        /\ conns' = Granted(c, waitings[i].reqs, FALSE)
        /\ mgr' = mgr /\ connecting' = connecting /\ timeouts' = timeouts
    BY <2>1, Zenon DEF ServesWaiting
  <2>3. i \in DOMAIN waitings /\ waitings[i].addr = conns[c].addr
    BY <1>0, <2>2, FindFacts, Zenon DEF Lists
  <2>4. /\ waitings[i] \in Devices /\ waitings[i] \in Range(waitings) /\ waitings[i].reqs \in FinReqs
        /\ Range(waitings') = Range(waitings) \ {waitings[i]}
    BY <1>0, <2>2, <2>3, ListFacts, RemoveFacts, Zenon DEF Devices
  <2>5. \A d \in Ids : StaysListed(d) /\ (d # c => GoesOn(d))
    BY <1>4, <1>6, <2>2, <2>4, Zenon
  <2>6. conns[c].addr # connecting.addr
    BY <1>0, <2>3, <2>4, Zenon DEF WInv, Woken
  <2>7. AInv'
    <3>1. \A d \in Ids : timeouts = {d} => GoesOn(d)
      BY <1>0, <2>5, <2>6, AnothersConnection, Zenon
    <3> QED
      BY <1>0, <2>2, <3>1, AttemptStays, Zenon
  <2>8. \A d \in Range(waitings) : Woken(d)'
    BY <1>0, <1>2, <2>2, <2>5, AllWoken, Zenon
  <2> QED
    BY <1>0, <1>2, <2>4, <2>7, <2>8, Zenon DEF WInv
<1>8. CASE GivesBack(c)
  <2>1. /\ conns' = [conns EXCEPT ![c].rc = @ - 1,
                                  ![c].state = IF conns[c].rc <= 1 THEN "NEGOTIATION_CLOSING" ELSE @]
        /\ mgr' = mgr /\ connecting' = connecting /\ timeouts' = timeouts /\ waitings' = waitings
        /\ conns[c].addr # connecting.addr
    BY <1>8, Zenon DEF GivesBack
  <2>2. /\ \A d \in Ids : d # c => conns'[d] = conns[d]
        /\ conns'[c].addr = conns[c].addr /\ conns'[c].listed = conns[c].listed
    BY <1>0, <2>1 DEF CType, Connections
  <2>3. \A d \in Ids : StaysListed(d) /\ (d # c => GoesOn(d))
    BY <1>6, <2>2, Zenon
  <2>4. AInv'
    <3>1. \A d \in Ids : timeouts = {d} => GoesOn(d)
      BY <1>0, <2>1, <2>3, AnothersConnection, Zenon
    <3> QED
      BY <1>0, <2>1, <3>1, AttemptStays, Zenon
  <2>5. \A d \in Range(waitings) : Woken(d)'
    BY <1>0, <1>2, <2>1, <2>3, AllWoken, Zenon
  <2> QED
    BY <1>0, <1>2, <2>1, <2>4, <2>5, Zenon DEF WInv
<1>9. CASE ServesConnecting(c)
  <2>1. /\ conns' = Granted(c, connecting.reqs, FALSE) /\ connecting.addr = conns[c].addr
        /\ mgr' = "AVAILABLE" /\ connecting' = NoDevice /\ timeouts' = timeouts \ {c}
        /\ waitings' = waitings
    BY <1>9, Zenon DEF ServesConnecting
  <2>2. connecting \in Devices /\ timeouts = {c}
    BY <1>3, <2>1, AttemptsOwn, Zenon
  <2>3. connecting.reqs \in FinReqs
    BY <2>2, Zenon DEF Devices
  <2>4. \A d \in Ids : StaysListed(d)
    BY <1>4, <1>6, <2>1, <2>3, Zenon
  <2>5. AInv'
    <3>1. timeouts' = {}
      BY <2>1, <2>2
    <3> QED
      BY <2>1, <3>1, AttemptEnds, Zenon
  <2>6. connecting'.addr = NoAddr
    BY <2>1, Zenon DEF NoDevice
  <2>7. \A d \in Range(waitings) : Woken(d)'
    BY <1>0, <1>2, <2>4, <2>6, AllWoken, Zenon
  <2> QED
    BY <1>0, <1>2, <2>1, <2>5, <2>7, Zenon DEF WInv
<1> QED
  BY <1>2, <1>7, <1>8, <1>9, Zenon

\* A connection is removed: of the devices that wait, only the one for its address
\* loses what it waits for, and is woken.
LEMMA RemovedFacts ==
    ASSUME CInv, NEW c \in Ids, conns' = Removed(c)
    PROVE  /\ \A d \in Ids : d # c => StaysListed(d)
           /\ \A a : a # conns[c].addr /\ HasConnection(a) => HasConnection(a)'
<1>1. \A d \in Ids : d # c => StaysListed(d)
  BY DisconnectFacts, ZenonT(60) DEF CInv, StaysListed
<1> QED
  BY <1>1, Zenon DEF StaysListed, HasConnection

\* The attempt fails.
LEMMA FailedW ==
    ASSUME WaitInv, NEW c \in Ids, ClientConnectFailed(c)
    PROVE  AInv' /\ WInv'
<1>0. DInv /\ AInv /\ WInv /\ CInv /\ CType /\ Life(c) /\ waitings \in Lists /\ queue \in Queues
  BY Zenon DEF WaitInv, EventInv, DInv, QInv, CInv
<1>1. /\ c \in fails /\ fails' = fails \ {c} /\ timeouts' = timeouts \ {c}
      /\ FailsLate(c) \/ (\E s : FailsServed(c, s)) \/ FailsPended(c) \/ FailsAnswered(c)
  BY FailedCases, Zenon
<1>2. ListedClient(c) /\ conns[c].addr \in Addrs
  <2>1. ListedClient(c)
    BY <1>0, <1>1 DEF Life, ListedClient
  <2> QED
    BY <1>0, <2>1 DEF CType, Life, ListedClient, Ids
<1>3. \A d \in Ids : EventsKept(d)
  BY <1>0, QuietSteps, EventFacts, Zenon DEF QuietStep
<1>4. CASE FailsLate(c)
  <2>1. /\ connecting.addr # conns[c].addr /\ waitings' = Scheduled(waitings, conns[c].addr)
        /\ conns' = Removed(c) /\ mgr' = mgr /\ connecting' = connecting
        /\ pendings' = pendings /\ unpends' = unpends
    BY <1>4, Zenon DEF FailsLate
  <2>2. \A d \in Ids : d # c => GoesOn(d)
    <3>1. \A d \in Ids : d # c => conns'[d] = conns[d] /\ (d \in fails => d \in fails')
      BY <1>0, <1>1, <2>1, DisconnectFacts
    <3> QED
      BY <1>3, <3>1, Zenon DEF GoesOn, Going, ListedClient, EventsKept
  <2>3. AInv'
    <3>1. c \notin timeouts
      <4>1. timeouts # {c}
        BY <1>0, <2>1, AnothersConnection, Zenon
      <4> QED
        BY <1>0, <4>1 DEF AInv, DInv, Attempt
    <3>2. timeouts' = timeouts
      BY <1>1, <3>1
    <3>3. \A d \in Ids : timeouts = {d} => GoesOn(d)
      BY <2>2, <3>1
    <3> QED
      BY <1>0, <2>1, <3>2, <3>3, AttemptStays, Zenon
  <2>4. \A d \in Range(waitings) : d.addr # conns[c].addr =>
           /\ HasConnection(d.addr) => HasConnection(d.addr)'
           /\ d.addr \in pendings => d.addr \in pendings'
    BY <1>0, <2>1, RemovedFacts, Zenon
  <2>5. \A d \in Range(waitings') : Woken(d)'
    BY <1>0, <2>1, <2>4, ScheduledWoken, Zenon
  <2> QED
    BY <1>0, <2>1, <2>3, <2>5, Zenon DEF WInv
<1>5. CASE connecting.addr = conns[c].addr
  <2>1. connecting \in Devices /\ timeouts' = {}
    <3>1. connecting \in Devices /\ timeouts = {c}
      BY <1>2, <1>5, AttemptsOwn, Zenon
    <3> QED
      BY <1>1, <3>1
  <2>2. \A d \in Range(waitings) : d.addr # conns[c].addr
    BY <1>0, <1>5, Zenon DEF WInv, Woken
  <2>3. ASSUME connecting'.addr = NoAddr, pendings \subseteq pendings',
               \A d \in Ids : d # c => StaysListed(d)
        PROVE  \A d \in Range(waitings) : Woken(d)'
    <3>1. \A d \in Range(waitings) : HasConnection(d.addr) => HasConnection(d.addr)'
      BY <2>2, <2>3, Zenon DEF StaysListed, HasConnection
    <3>2. \A d \in Range(waitings) : d.addr \in pendings => d.addr \in pendings'
      BY <2>3
    <3> QED
      BY <1>0, <2>3, <3>1, <3>2, StillWoken, Zenon
  <2>4. CASE FailsAnswered(c) \/ \E s : FailsServed(c, s)
    <3>1. /\ mgr' = "AVAILABLE" /\ connecting' = NoDevice
          /\ waitings' = waitings /\ pendings' = pendings /\ unpends' = unpends
      BY <2>4, Zenon DEF FailsAnswered, FailsServed
    <3>2. \A d \in Ids : d # c => StaysListed(d)
      <4>1. CASE FailsAnswered(c)
        BY <1>0, <4>1, RemovedFacts, Zenon DEF FailsAnswered
      <4>2. ASSUME NEW s, FailsServed(c, s)
            PROVE  \A d \in Ids : d # c => StaysListed(d)
        <5>1. s \in Ids /\ conns' = [Granted(s, connecting.reqs, TRUE) EXCEPT ![c] = Removed(c)[c]]
          BY <4>2, Zenon DEF FailsServed
        <5>2. connecting.reqs \in FinReqs
          BY <2>1, Zenon DEF Devices
        <5>3. PICK G \in [Ids -> Connections] :
                  /\ G = Granted(s, connecting.reqs, TRUE)
                  /\ \A d \in Ids : d # s => G[d] = conns[d]
                  /\ Alike(conns[s], G[s])
          BY <1>0, <5>1, <5>2, GrantFacts, Zenon
        <5>4. \A d \in Ids : d # c => conns'[d] = G[d]
          BY <5>1, <5>3, Zenon
        <5> QED
          BY <5>3, <5>4, ZenonT(60) DEF StaysListed, Alike
      <4> QED
        BY <2>4, <4>1, <4>2, Zenon
    <3>3. AInv'
      BY <2>1, <3>1, AttemptEnds, Zenon
    <3>4. connecting'.addr = NoAddr
      BY <3>1, Zenon DEF NoDevice
    <3>5. \A d \in Range(waitings) : Woken(d)'
      BY <2>3, <3>1, <3>2, <3>4, Zenon
    <3> QED
      BY <1>0, <3>1, <3>3, <3>5, Zenon DEF WInv
  <2>5. CASE FailsPended(c)
    <3>1. /\ mgr' = "AVAILABLE" /\ conns' = Removed(c)
          /\ pendings' = pendings \cup {conns[c].addr} /\ unpends' = unpends \cup {conns[c].addr}
          /\ PendingDevice([connecting EXCEPT !.state = "PENDING"], waitings, NoDevice)
      BY <2>5, Zenon DEF FailsPended
    <3>2. PICK d \in Devices : d = [connecting EXCEPT !.state = "PENDING"]
      BY <2>1, DeviceFacts, Zenon
    <3>3. d.addr = conns[c].addr /\ d.state = "PENDING"
      BY <1>5, <2>1, <3>2, DeviceFacts, Zenon
    <3>4. WaitsNew(d, waitings, NoDevice)
      <4>1. NoDevice.addr # d.addr /\ \A e \in Range(waitings) : e.addr # d.addr
        BY <2>2, <3>3, NoneConnects, Zenon
      <4> QED
        BY <1>0, <3>1, <3>2, <4>1, Pended, Zenon DEF Joins, JoinsWaiting
    <3>5. connecting' = NoDevice /\ Range(waitings') = Range(waitings) \cup {d}
      BY <3>4, Zenon DEF WaitsNew
    <3>6. AInv'
      BY <2>1, <3>1, <3>5, AttemptEnds, Zenon
    <3>7. connecting'.addr = NoAddr
      BY <3>5, Zenon DEF NoDevice
    <3>8. Woken(d)'
      <4>1. d.addr # NoAddr /\ d.addr \in pendings'
        BY <3>1, <3>3, NoneConnects DEF NoDevice
      <4> QED
        BY <3>3, <3>7, <4>1 DEF Woken
    <3>9. \A e \in Range(waitings) : Woken(e)'
      BY <1>0, <2>3, <3>1, <3>7, RemovedFacts
    <3>10. pendings' \subseteq unpends'
      BY <1>0, <3>1 DEF WInv
    <3> QED
      BY <3>5, <3>6, <3>8, <3>9, <3>10, Zenon DEF WInv
  <2> QED
    BY <1>1, <1>5, <2>4, <2>5, Zenon DEF FailsLate
<1> QED
  BY <1>1, <1>4, <1>5, Zenon DEF FailsServed, FailsPended, FailsAnswered

\* A connection breaks.
LEMMA ExceptionW == WaitInv /\ ConnectionException => AInv' /\ WInv'
<1> SUFFICES ASSUME WaitInv, ConnectionException
             PROVE  AInv' /\ WInv'
  OBVIOUS
<1>0. DInv /\ AInv /\ WInv /\ CInv /\ CType /\ waitings \in Lists
  BY Zenon DEF WaitInv, EventInv, DInv, CInv
<1>1. PICK c \in Ids : /\ c = Arg /\ QTook(Msg("exception", c))
                       /\ ~In(queue, Msg("success", c)) /\ In(queue, Msg("exception", c))
  BY TakingSteps, Zenon DEF WaitInv, EventInv, QInv, QTook
<1>2. /\ conns' = Removed(c) /\ waitings' = Scheduled(waitings, conns[c].addr)
      /\ mgr' = mgr /\ connecting' = connecting /\ pendings' = pendings
      /\ unpends' = unpends /\ timeouts' = timeouts /\ fails' = fails
  BY <1>1 DEF ConnectionException, Removed, timers
<1>3. ~Going(c)
  <2>1. conns[c].thread = "done" /\ c \notin fails
    BY <1>0, <1>1 DEF CInv, Life
  <2> QED
    BY <1>1, <2>1 DEF Going
<1>4. \A d \in Ids : GoesOn(d)
  <2>1. \A d \in Ids : d # c => conns'[d] = conns[d] /\ EventsKept(d)
    BY <1>0, <1>1, <1>2, DisconnectFacts, EventFacts, Zenon
  <2> QED
    BY <1>2, <1>3, <2>1, Zenon DEF GoesOn, Going, ListedClient, EventsKept
<1>5. AInv'
  BY <1>0, <1>2, <1>4, AttemptStays, Zenon
<1>6. \A d \in Range(waitings) : d.addr # conns[c].addr =>
         /\ HasConnection(d.addr) => HasConnection(d.addr)'
         /\ d.addr \in pendings => d.addr \in pendings'
  BY <1>0, <1>2, RemovedFacts, Zenon
<1>7. \A d \in Range(waitings') : Woken(d)'
  BY <1>0, <1>2, <1>6, ScheduledWoken, Zenon
<1> QED
  BY <1>0, <1>2, <1>5, <1>7, Zenon DEF WInv

\* An address is not pended any more.
LEMMA UnpendedWoken ==
    ASSUME DInv, WInv, NEW a, connecting' = connecting, \A c \in Ids : StaysListed(c),
           pendings' = pendings \ {a}, unpends' = unpends \ {a},
           waitings' \in {Unpended(waitings, a), Without(waitings, a)}
    PROVE  WInv'
<1>1. \A d \in Range(waitings) : HasConnection(d.addr) => HasConnection(d.addr)'
  BY ConnectionsStay, Zenon
<1>2. \A d \in Range(waitings) : d.addr # a => (d.addr \in pendings => d.addr \in pendings')
  OBVIOUS
<1>3. \A d \in Range(waitings') : Woken(d)'
  <2>1. CASE waitings' = Scheduled(waitings, a)
    BY <1>1, <1>2, <2>1, ScheduledWoken, Zenon
  <2>2. CASE waitings' = waitings /\ a \notin pendings
    <3>1. \A d \in Range(waitings) : d.addr \in pendings => d.addr \in pendings'
      BY <2>2
    <3> QED
      BY <1>1, <2>2, <3>1, StillWoken, Zenon
  <2>3. CASE waitings' = Without(waitings, a)
    <3>1. \A d \in Range(waitings') : d \in Range(waitings) /\ d.addr # a
      BY <2>3, WithoutFacts, ZenonT(60) DEF DInv
    <3> QED
      BY <1>1, <1>2, <3>1, StillWoken, Zenon
  <2> QED
    BY <2>1, <2>2, <2>3, Zenon DEF Unpended
<1>4. pendings' \subseteq unpends'
  BY DEF WInv
<1> QED
  BY <1>3, <1>4, Zenon DEF WInv

\* A connection is accepted or resumes, or an address is pended no longer.
LEMMA ServedW ==
    ASSUME WaitInv, ServerAccepted \/ ConnectionResume \/ \E a \in Addrs : Unpend(a)
    PROVE  AInv' /\ WInv'
<1>0. DInv /\ AInv /\ WInv /\ Steadily /\ (\A c \in Ids : GoesOn(c) /\ StaysListed(c)) /\ waitings \in Lists
  BY SteadySteps, Zenon DEF SteadyStep, WaitInv, EventInv, DInv, Steadily
<1>1. mgr' = mgr /\ connecting' = connecting /\ timeouts' = timeouts
  <2>1. ASSUME NEW a, Unpend(a)
        PROVE  mgr' = mgr /\ connecting' = connecting /\ timeouts' = timeouts
    BY <2>1 DEF Unpend
  <2> QED
    BY <2>1, AcceptedCases, ResumeCases, Zenon
<1>2. AInv'
  BY <1>0, <1>1, AttemptStays, Zenon
<1>3. CASE ServerAccepted
  <2>1. PICK a : /\ pendings' = pendings \ {a} /\ unpends' = unpends \ {a}
                 /\ waitings' \in {Unpended(waitings, a), Without(waitings, a)}
    BY <1>3, AcceptedCases, Zenon DEF ServesAll
  <2> QED
    BY <1>0, <1>1, <1>2, <2>1, UnpendedWoken, Zenon
<1>4. ASSUME NEW a \in Addrs, Unpend(a)
      PROVE  AInv' /\ WInv'
  <2>1. /\ pendings' = pendings \ {a} /\ unpends' = unpends \ {a}
        /\ waitings' \in {Unpended(waitings, a), Without(waitings, a)}
    BY <1>4, Zenon DEF Unpend, UnpendConnection
  <2> QED
    BY <1>0, <1>1, <1>2, <2>1, UnpendedWoken, Zenon
<1>5. CASE ConnectionResume
  <2>1. pendings' = pendings /\ unpends' = unpends
    BY <1>5, ResumeCases, Zenon
  <2>2. Range(waitings') \subseteq Range(waitings)
    BY <1>0, <1>5, ResumeCases, WithoutFacts, Zenon DEF ServesAll
  <2>3. \A d \in Range(waitings) : Woken(d)'
    BY <1>0, <1>1, <2>1, AllWoken, Zenon
  <2> QED
    BY <1>0, <1>2, <2>1, <2>2, <2>3, Zenon DEF WInv
<1> QED
  BY <1>3, <1>4, <1>5, Zenon

\* The reset after Bluetooth was turned off.
LEMMA ResetW == WaitInv /\ Reset => AInv' /\ WInv'
<1> SUFFICES ASSUME WaitInv, Reset
             PROVE  AInv' /\ WInv'
  OBVIOUS
<1>0. DInv /\ AInv
  BY Zenon DEF WaitInv, EventInv
<1>1. /\ mgr' = "AVAILABLE" /\ connecting' = NoDevice /\ waitings' = <<>> /\ pendings' = {}
      /\ timeouts' = timeouts \ {ByAddr(connecting.addr, "client")}
  BY Zenon DEF Reset, ResetTo, CancelTimeout
<1>2. timeouts' = {}
  <2>1. CASE mgr = "AVAILABLE"
    BY <1>0, <1>1, <2>1 DEF AInv
  <2>2. CASE mgr = "CONNECTING"
    <3>1. PICK e \in Ids : Attempt(e)
      BY <1>0, <2>2, Zenon DEF AInv
    <3>2. e \in Listed(connecting.addr, "client")
      BY <3>1, Zenon DEF Attempt, Going, ListedClient, Listed
    <3>3. ByAddr(connecting.addr, "client") \in Listed(connecting.addr, "client")
      BY <3>2, ByAddrFacts, Zenon
    <3>4. ByAddr(connecting.addr, "client") = e
      BY <3>2, <3>3, Zenon DEF Listed, WaitInv, EventInv, CInv, OneClient, ListedClient
    <3> QED
      BY <1>1, <3>1, <3>4 DEF Attempt
  <2> QED
    BY <1>0, <2>1, <2>2 DEF DInv
<1>3. AInv'
  BY <1>1, <1>2, AttemptEnds, Zenon
<1>4. Range(waitings') = {}
  BY <1>1 DEF Range
<1> QED
  BY <1>1, <1>3, <1>4 DEF WInv

\* Every step keeps the attempt timed and the waiting devices woken.
LEMMA NextW == WaitInv /\ [Next]_vars => AInv' /\ WInv'
<1> SUFFICES ASSUME WaitInv, [Next]_vars
             PROVE  AInv' /\ WInv'
  OBVIOUS
<1>1. ASSUME \/ \E c \in Ids : ThreadStep(c) \/ BrDisconnectDeviceNow(c) \/ Negotiate(c)
             \/ \E a \in Addrs : Accept(a) \/ BrPendConnection(a)
             \/ \E r \in Requests : BrConnectDevice(r)
             \/ OnBtStateChanged \/ UNCHANGED vars
      PROVE  AInv' /\ WInv'
  <2>1. Steadily
    BY <1>1, SteadySteps, Zenon DEF SteadyStep, WaitInv
  <2>2. CASE \E a \in Addrs : BrPendConnection(a)
    <3>1. UNCHANGED <<mgr, connecting, waitings, timeouts>> /\ pendings \subseteq pendings'
      BY <2>2 DEF BrPendConnection, devices
    <3>2. pendings' \subseteq unpends'
      BY <2>2 DEF BrPendConnection, WaitInv, WInv
    <3> QED
      BY <2>1, <3>1, <3>2, OthersW, Zenon
  <2>3. CASE /\ UNCHANGED <<mgr, connecting, waitings, timeouts>>
             /\ pendings' = pendings /\ unpends' = unpends
    BY <2>1, <2>3, OthersW DEF WaitInv, WInv
  <2>4. ASSUME NEW c \in Ids, ThreadStep(c) \/ BrDisconnectDeviceNow(c) \/ Negotiate(c)
        PROVE  UNCHANGED Others
    BY <2>4, Zenon DEF ThreadStep, StartBrClientConnect, Announce, LoopReadExit, EndNegotiation,
                       BrDisconnectDeviceNow, Negotiate
  <2>5. ASSUME NEW a \in Addrs, Accept(a)
        PROVE  UNCHANGED Others
    BY <2>5, Zenon DEF Accept
  <2>6. CASE UNCHANGED Others
    BY <2>3, <2>6 DEF Others, devices
  <2>7. ASSUME (\E r \in Requests : BrConnectDevice(r)) \/ OnBtStateChanged \/ UNCHANGED vars
        PROVE  /\ UNCHANGED <<mgr, connecting, waitings, timeouts>>
               /\ pendings' = pendings /\ unpends' = unpends
    BY <2>7, Zenon DEF BrConnectDevice, OnBtStateChanged, vars, devices, timers
  <2> QED
    BY <1>1, <2>2, <2>3, <2>4, <2>5, <2>6, <2>7, Zenon
<1> QED
  BY <1>1, RequestW, PendingW, TimeoutW, ConnectedW, FailedW, ExceptionW, ServedW, ResetW, Zenon
     DEF Next, QueueStep, TimerStep, EnvStep

\* Nothing is attempted and nobody waits at the start.
LEMMA InitWait == Init => AInv /\ WInv
BY DEF Init, AInv, WInv, Range

\* The attempt is timed, and every device that waits will be woken.
THEOREM Waits == Spec => []WaitInv
<1>1. Init => WaitInv
  BY InitEvent, InitWait, Zenon DEF WaitInv
<1>2. WaitInv /\ [Next]_vars => WaitInv'
  <2> SUFFICES ASSUME WaitInv, [Next]_vars
               PROVE  WaitInv'
    OBVIOUS
  <2>1. DInv' /\ QInv' /\ CInv'
    BY NextD, NextQ, NextC, Zenon DEF WaitInv, EventInv
  <2> QED
    BY <2>1, NextW, Zenon DEF WaitInv, EventInv
<1> QED
  BY <1>1, <1>2, PTL DEF Spec

\* While the manager is CONNECTING the attempt has its timeout and its result is
\* still to come, so the state cannot last (ConnectDeviceDirectly, TryConnectDevice).
THEOREM AttemptsAreTimed == Spec => []ConnectingIsTimed
<1>1. WaitInv => ConnectingIsTimed
  <2> SUFFICES ASSUME WaitInv
               PROVE  ConnectingIsTimed
    OBVIOUS
  <2>1. mgr = "CONNECTING" <=> connecting # NoDevice
    BY NoneConnects DEF WaitInv, EventInv, DInv, AInv
  <2>2. ASSUME mgr = "CONNECTING"
        PROVE  \E c \in Listed(connecting.addr, "client") :
                  /\ c \in timeouts
                  /\ \/ conns[c].thread \in {"connecting", "connected"}
                     \/ c \in fails
                     \/ \E i \in DOMAIN queue : queue[i] = Msg("success", c)
    <3>1. PICK c \in Ids : Attempt(c)
      BY <2>2, Zenon DEF WaitInv, AInv
    <3>2. c \in Listed(connecting.addr, "client") /\ c \in timeouts
      BY <3>1 DEF Attempt, Going, ListedClient, Listed
    <3> QED
      BY <3>1, <3>2, Zenon DEF Attempt, Going, In
  <2> QED
    BY <2>1, <2>2 DEF ConnectingIsTimed
<1> QED
  BY <1>1, Waits, PTL

\* A timeout that is still set is that of the attempt in progress: those of earlier
\* attempts were removed when their results came.
THEOREM TimeoutsAreCurrent == Spec => []NoStaleTimeout
<1>1. WaitInv => NoStaleTimeout
  BY DEF WaitInv, EventInv, DInv, AInv, Attempt, NoStaleTimeout
<1> QED
  BY <1>1, Waits, PTL

\* A device that waits for an event has a connection whose event will come, and one
\* that is pending has a timer that ends its pending.
THEOREM WaitsAreWoken == Spec => []WaitIsWoken
<1>1. WaitInv => WaitIsWoken
  <2> SUFFICES ASSUME WaitInv, NEW i \in DOMAIN waitings
               PROVE  /\ waitings[i].state = "WAIT_EVENT" =>
                            \E c \in Ids : conns[c].listed /\ conns[c].addr = waitings[i].addr
                      /\ waitings[i].state = "PENDING" => waitings[i].addr \in pendings \cap unpends
    BY Zenon DEF WaitIsWoken
  <2>1. Woken(waitings[i]) /\ pendings \subseteq unpends
    BY Zenon DEF WaitInv, WInv, Range
  <2> QED
    BY <2>1 DEF Woken, HasConnection
<1> QED
  BY <1>1, Waits, PTL
====
