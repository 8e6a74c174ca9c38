------------------------- MODULE BrReferenceProofs -------------------------
(***************************************************************************)
(* Type correctness, the timers of a connection, and the accounting of its *)
(* references, for any number of requests and whatever its users do: while *)
(* the link is whole, every change that was made on one end is in the      *)
(* other's count or on its way to it, once.                                *)
(***************************************************************************)
EXTENDS BrReference, FiniteSetTheorems, FunctionTheorems, TLAPS

SendQueue == [high : Seq(Frames), low : Seq(Frames)]

\* Sums and differences with nothing in them, for counts that are opaque terms.
LEMMA Sums ==
    /\ \A i \in Nat : i \in Int /\ i = i + 0 /\ i - 1 = i + (-1)
    /\ \A a \in Int : a = a + 0
    /\ \A a, b \in Int : a + b \in Int /\ a + b = a + b + 0 /\ a - b = a - b + 0 /\ a - b = a + (-b)
    /\ -1 \in Int /\ 0 \in Int /\ -1 + 1 = 0 /\ 0 + (-1) = -1 /\ 0 # -1
OBVIOUS

\* The frames the handlers build are frames.
LEMMA FrameTypes ==
    /\ \A d \in {-1, 0, 1}, r \in Int : Request(d, r) \in Frames
    /\ \A r \in Int : Response(r) \in Frames
    /\ Exception \in Frames
BY DEF Request, Response, Exception, Frames

\* One entry of the looper's messages changed.
LEMMA LooperTypes ==
    ASSUME NEW f \in [Nodes -> LooperMessages], NEW n \in Nodes
    PROVE  /\ f[n].neg \in Nat /\ f[n].retry \in Nat /\ f[n].release \in Nat
           /\ f[n].local \in Nat /\ f[n].resume \in Nat /\ f[n].peer \in Seq(Frames)
           /\ \A k \in Nat : [f EXCEPT ![n].neg = k] \in [Nodes -> LooperMessages]
           /\ \A k \in Nat : [f EXCEPT ![n].local = k] \in [Nodes -> LooperMessages]
           /\ \A k \in Nat : [f EXCEPT ![n].release = k] \in [Nodes -> LooperMessages]
           /\ \A k \in Nat : [f EXCEPT ![n].retry = k] \in [Nodes -> LooperMessages]
           /\ \A k \in Nat : [f EXCEPT ![n].resume = k] \in [Nodes -> LooperMessages]
           /\ \A q \in Seq(Frames) : [f EXCEPT ![n].peer = q] \in [Nodes -> LooperMessages]
BY ZenonT(60) DEF LooperMessages

\* Taking a message of its own leaves a looper with messages.
LEMMA TakenType ==
    ASSUME TypeOK, NEW n \in Nodes, NEW kind \in {"neg", "retry", "release", "local", "resume"},
           Take(n, kind)
    PROVE  Taken(n, kind) \in [Nodes -> LooperMessages]
<1>1. todo \in [Nodes -> LooperMessages] /\ todo[n][kind] > 0
  BY Zenon DEF TypeOK, Take
<1>2. CASE kind = "neg"
  <2>1. Taken(n, kind) = [todo EXCEPT ![n].neg = todo[n].neg - 1] /\ todo[n].neg > 0
    BY <1>1, <1>2, Zenon DEF Taken
  <2>2. todo[n].neg - 1 \in Nat
    BY <1>1, <2>1 DEF LooperMessages
  <2> QED
    BY <1>1, <2>1, <2>2, ZenonT(60) DEF LooperMessages
<1>3. CASE kind = "retry"
  <2>1. Taken(n, kind) = [todo EXCEPT ![n].retry = todo[n].retry - 1] /\ todo[n].retry > 0
    BY <1>1, <1>3, Zenon DEF Taken
  <2>2. todo[n].retry - 1 \in Nat
    BY <1>1, <2>1 DEF LooperMessages
  <2> QED
    BY <1>1, <2>1, <2>2, ZenonT(60) DEF LooperMessages
<1>4. CASE kind = "release"
  <2>1. Taken(n, kind) = [todo EXCEPT ![n].release = todo[n].release - 1] /\ todo[n].release > 0
    BY <1>1, <1>4, Zenon DEF Taken
  <2>2. todo[n].release - 1 \in Nat
    BY <1>1, <2>1 DEF LooperMessages
  <2> QED
    BY <1>1, <2>1, <2>2, ZenonT(60) DEF LooperMessages
<1>5. CASE kind = "local"
  <2>1. Taken(n, kind) = [todo EXCEPT ![n].local = todo[n].local - 1] /\ todo[n].local > 0
    BY <1>1, <1>5, Zenon DEF Taken
  <2>2. todo[n].local - 1 \in Nat
    BY <1>1, <2>1 DEF LooperMessages
  <2> QED
    BY <1>1, <2>1, <2>2, ZenonT(60) DEF LooperMessages
<1>6. CASE kind = "resume"
  <2>1. Taken(n, kind) = [todo EXCEPT ![n].resume = todo[n].resume - 1] /\ todo[n].resume > 0
    BY <1>1, <1>6, Zenon DEF Taken
  <2>2. todo[n].resume - 1 \in Nat
    BY <1>1, <2>1 DEF LooperMessages
  <2> QED
    BY <1>1, <2>1, <2>2, ZenonT(60) DEF LooperMessages
<1> QED
  BY <1>2, <1>3, <1>4, <1>5, <1>6, Zenon

\* NotifyUpdateConnectionRc keeps the types.
LEMMA NotifyType ==
    ASSUME TypeOK, NEW n \in Nodes, NEW delta \in {-1, 0, 1}, NEW k \in Nat,
           NEW own \in [Nodes -> LooperMessages], NotifyUpdateConnectionRc(n, delta, k, own)
    PROVE  /\ rc' \in [Nodes -> Int]
           /\ state' \in [Nodes -> ConnectionState]
           /\ todo' \in [Nodes -> LooperMessages]
           /\ sendq' \in [Nodes -> SendQueue]
<1> DEFINE after == [i \in 1..k |-> rc[n] + i * delta]
           empty == {i \in 1..k : after[i] <= 0}
           new == [i \in 1..k |-> Request(delta, after[i])]
<1>1. \A i \in 1..k : i * delta \in Int
  OBVIOUS
<1>2. \A i \in 1..k : after[i] \in Int
  <2>1. rc[n] \in Int
    BY Zenon DEF TypeOK
  <2> QED
    BY ONLY <1>1, <2>1
<1>3. new \in Seq(Frames)
  <2>1. \A i \in 1..k : Request(delta, after[i]) \in Frames
    BY <1>2, FrameTypes, Zenon
  <2> QED
    BY <2>1
<1>4. Cardinality(empty) \in Nat
  <2>1. IsFiniteSet(1..k)
    BY FS_Interval
  <2> QED
    BY <2>1, FS_Subset, FS_CardinalityType, Zenon
<1> HIDE DEF after, empty, new
<1>5. rc' \in [Nodes -> Int]
  <2> DEFINE d == k * delta
  <2>1. d \in Int
    OBVIOUS
  <2>2. rc' = [rc EXCEPT ![n] = rc[n] + d]
    BY Zenon DEF NotifyUpdateConnectionRc
  <2> HIDE DEF d
  <2>3. rc \in [Nodes -> Int] /\ rc[n] \in Int
    BY Zenon DEF TypeOK
  <2>4. rc[n] + d \in Int
    BY ONLY <2>1, <2>3
  <2> QED
    BY <2>2, <2>3, <2>4, Zenon
<1>6. state' \in [Nodes -> ConnectionState]
  BY Zenon DEF TypeOK, NotifyUpdateConnectionRc, ConnectionState
<1>7. todo' \in [Nodes -> LooperMessages]
  <2>1. todo' = [own EXCEPT ![n].neg = own[n].neg + Cardinality(empty)]
    BY Zenon DEF NotifyUpdateConnectionRc, empty, after
  <2>2. own[n].neg \in Nat
    BY LooperTypes, Zenon
  <2>3. own[n].neg + Cardinality(empty) \in Nat
    BY ONLY <1>4, <2>2
  <2> QED
    BY <2>1, <2>3, LooperTypes, Zenon
<1>8. sendq' \in [Nodes -> SendQueue]
  <2> DEFINE flag == IF delta >= 0 THEN "high" ELSE "low"
  <2>1. sendq' = [sendq EXCEPT ![n][flag] = sendq[n][flag] \o new]
    BY Zenon DEF NotifyUpdateConnectionRc, new, after
  <2>2. flag = "high" \/ flag = "low"
    OBVIOUS
  <2> HIDE DEF flag
  <2>3. sendq[n] \in SendQueue /\ sendq[n][flag] \o new \in Seq(Frames)
    <3>1. sendq[n] \in SendQueue
      BY Zenon DEF TypeOK, SendQueue
    <3>2. sendq[n][flag] \in Seq(Frames)
      BY <2>2, <3>1, Zenon DEF SendQueue
    <3>3. \A S : \A q, r \in Seq(S) : q \o r \in Seq(S)
      OBVIOUS
    <3> QED
      BY <1>3, <3>1, <3>2, <3>3, Zenon
  <2>4. CASE flag = "high"
    BY <2>1, <2>3, <2>4, Zenon DEF TypeOK, SendQueue
  <2>5. CASE flag = "low"
    BY <2>1, <2>3, <2>5, Zenon DEF TypeOK, SendQueue
  <2> QED
    BY <2>2, <2>4, <2>5, Zenon
<1> QED
  BY <1>5, <1>6, <1>7, <1>8, Zenon

\* BrUpdateConnectionRc keeps the types.
LEMMA UpdateType ==
    ASSUME TypeOK, NEW n \in Nodes, NEW delta \in {-1, 0, 1},
           NEW own \in [Nodes -> LooperMessages], BrUpdateConnectionRc(n, delta, own)
    PROVE  /\ rc' \in [Nodes -> Int]
           /\ state' \in [Nodes -> ConnectionState]
           /\ todo' \in [Nodes -> LooperMessages]
           /\ sendq' \in [Nodes -> SendQueue]
<1>1. CASE delta < 0 /\ occupied[n]
  <2>1. todo' = [own EXCEPT ![n].local = own[n].local + 1] /\ UNCHANGED <<rc, state, sendq>>
    BY <1>1, Zenon DEF BrUpdateConnectionRc
  <2>2. own[n].local + 1 \in Nat
    BY DEF LooperMessages
  <2>3. todo' \in [Nodes -> LooperMessages]
    BY <2>1, <2>2, ZenonT(60) DEF LooperMessages
  <2> QED
    BY <2>1, <2>3, ZenonT(60) DEF TypeOK, SendQueue
<1>2. CASE ~(delta < 0 /\ occupied[n])
  <2>1. NotifyUpdateConnectionRc(n, delta, 1, own)
    BY <1>2, Zenon DEF BrUpdateConnectionRc
  <2> QED
    BY <2>1, NotifyType, Zenon
<1> QED
  BY <1>1, <1>2, Zenon

\* ConnBrDisconnectNow keeps the types.
LEMMA DisconnectNowType ==
    ASSUME TypeOK, NEW n \in Nodes, NEW t \in {"looper", "sender"}, ConnBrDisconnectNow(n, t)
    PROVE  /\ sock' \in [Nodes -> BOOLEAN]
           /\ state' \in [Nodes -> ConnectionState]
           /\ disc' \in [Nodes -> {"none", "looper", "sender"}]
<1>0. /\ sock \in [Nodes -> BOOLEAN] /\ state \in [Nodes -> ConnectionState]
      /\ disc \in [Nodes -> {"none", "looper", "sender"}]
  BY Zenon DEF TypeOK
<1>1. CASE sock[n]
  BY <1>0, <1>1, ZenonT(60) DEF ConnBrDisconnectNow, ConnectionState
<1>2. CASE ~sock[n]
  BY <1>0, <1>2, Zenon DEF ConnBrDisconnectNow, ConnectionState
<1> QED
  BY <1>1, <1>2, Zenon

\* BrOnReferenceRequest keeps the types.
LEMMA ReferenceRequestType ==
    ASSUME TypeOK, NEW n \in Nodes, NEW m \in Frames,
           NEW own \in [Nodes -> LooperMessages], BrOnReferenceRequest(n, m, own)
    PROVE  /\ rc' \in [Nodes -> Int]
           /\ sock' \in [Nodes -> BOOLEAN]
           /\ state' \in [Nodes -> ConnectionState]
           /\ disc' \in [Nodes -> {"none", "looper", "sender"}]
           /\ todo' \in [Nodes -> LooperMessages]
           /\ sendq' \in [Nodes -> SendQueue]
<1>1. CASE m.delta < 0 /\ occupied[n]
  <2>1. todo' = [own EXCEPT ![n].peer = Append(own[n].peer, m)]
        /\ UNCHANGED <<rc, state, sock, disc, sendq>>
    BY <1>1, Zenon DEF BrOnReferenceRequest
  <2>2. Append(own[n].peer, m) \in Seq(Frames)
    BY DEF LooperMessages
  <2>3. todo' \in [Nodes -> LooperMessages]
    BY <2>1, <2>2, ZenonT(60) DEF LooperMessages
  <2> QED
    BY <2>1, <2>3, ZenonT(60) DEF TypeOK, SendQueue
<1>2. CASE ~(m.delta < 0 /\ occupied[n])
  <2> DEFINE localRc == rc[n] + m.delta
             resume == Resumes(n, m.ref)
             retries == IF m.ref > 0 /\ localRc = 0 THEN own[n].retry + 1 ELSE own[n].retry
             negs == IF resume THEN 0 ELSE own[n].neg
             resumes == IF resume THEN own[n].resume + 1 ELSE own[n].resume
             high == IF m.ref <= 0 /\ localRc > 0
                     THEN Append(sendq[n].high, Response(localRc)) ELSE sendq[n].high
  <2>1. NotifyReferenceRequest(n, m.delta, m.ref, own)
    BY <1>2, Zenon DEF BrOnReferenceRequest
  <2>2. localRc \in Int
    BY SMTT(60) DEF TypeOK, Frames
  <2>3. retries \in Nat /\ negs \in Nat /\ resumes \in Nat
    BY DEF LooperMessages
  <2>4. high \in Seq(Frames)
    <3>1. Response(localRc) \in Frames
      BY <2>2, FrameTypes, Zenon
    <3> HIDE DEF localRc
    <3> QED
      BY <3>1 DEF TypeOK
  <2>5. /\ rc' = [rc EXCEPT ![n] = localRc]
        /\ todo' = [own EXCEPT ![n].retry = retries, ![n].neg = negs, ![n].resume = resumes]
        /\ sendq' = [sendq EXCEPT ![n].high = high]
    BY <2>1, Zenon DEF NotifyReferenceRequest
  <2>6. \/ ConnBrDisconnectNow(n, "looper")
        \/ (\E s \in ConnectionState : state' = [state EXCEPT ![n] = s]) /\ UNCHANGED <<sock, disc>>
    <3>1. "CONNECTED" \in ConnectionState /\ state[n] \in ConnectionState
      BY Zenon DEF ConnectionState, TypeOK
    <3>2. (IF resume THEN "CONNECTED" ELSE state[n]) \in ConnectionState
      BY <3>1
    <3> QED
      BY <2>1, <3>2, Zenon DEF NotifyReferenceRequest
  <2> HIDE DEF localRc, resume, retries, negs, resumes, high
  <2>7. rc' \in [Nodes -> Int]
    BY <2>2, <2>5, Zenon DEF TypeOK
  <2>8. todo' \in [Nodes -> LooperMessages]
    BY <2>3, <2>5, ZenonT(60) DEF LooperMessages
  <2>9. sendq' \in [Nodes -> SendQueue]
    BY <2>4, <2>5, ZenonT(60) DEF TypeOK, SendQueue
  <2>10. /\ sock' \in [Nodes -> BOOLEAN]
         /\ state' \in [Nodes -> ConnectionState]
         /\ disc' \in [Nodes -> {"none", "looper", "sender"}]
    <3>1. CASE ConnBrDisconnectNow(n, "looper")
      BY <3>1, DisconnectNowType, Zenon
    <3>2. CASE /\ \E s \in ConnectionState : state' = [state EXCEPT ![n] = s]
               /\ UNCHANGED <<sock, disc>>
      <4>1. state \in [Nodes -> ConnectionState] /\ sock \in [Nodes -> BOOLEAN]
            /\ disc \in [Nodes -> {"none", "looper", "sender"}]
        BY Zenon DEF TypeOK
      <4> QED
        BY <3>2, <4>1, Zenon
    <3> QED
      BY <2>6, <3>1, <3>2, Zenon
  <2> QED
    BY <2>7, <2>8, <2>9, <2>10, Zenon
<1> QED
  BY <1>1, <1>2, Zenon

\* The types hold at the start.
LEMMA InitType == Init => TypeOK
<1> SUFFICES ASSUME Init
             PROVE  TypeOK
  OBVIOUS
<1>1. NoMessages \in LooperMessages /\ NoFrames \in SendQueue
  BY DEF NoMessages, LooperMessages, NoFrames, SendQueue
<1>2. <<>> \in Seq(Frames)
  OBVIOUS
<1> HIDE DEF NoMessages, NoFrames
<1>3. /\ inbox \in [Nodes -> Seq(Frames)] /\ todo \in [Nodes -> LooperMessages]
      /\ sendq \in [Nodes -> SendQueue]
  BY <1>1, <1>2, Zenon DEF Init
<1> QED
  BY <1>3 DEF Init, TypeOK, ConnectionState, SendQueue

\* Every step keeps the types.
LEMMA NextType == TypeOK /\ [Next]_vars => TypeOK'
<1> SUFFICES ASSUME TypeOK, [Next]_vars
             PROVE  TypeOK'
  OBVIOUS
<1>1. ASSUME NEW n \in Nodes, FrameStep(n)
      PROVE  TypeOK'
  <2>0. inbox[n] # <<>> => Head(inbox[n]) \in Frames /\ Received(n) \in [Nodes -> Seq(Frames)]
    BY DEF TypeOK, Received
  <2>1. CASE ConnBrOnReferenceRequest(n)
    <3>1. Head(inbox[n]) \in Frames /\ inbox' \in [Nodes -> Seq(Frames)]
      BY <2>0, <2>1, Zenon DEF ConnBrOnReferenceRequest, Receive
    <3>2. todo \in [Nodes -> LooperMessages] /\ BrOnReferenceRequest(n, Head(inbox[n]), todo)
      BY <2>1, Zenon DEF ConnBrOnReferenceRequest, TypeOK
    <3> HIDE DEF BrOnReferenceRequest
    <3>3. /\ rc' \in [Nodes -> Int] /\ sock' \in [Nodes -> BOOLEAN]
          /\ state' \in [Nodes -> ConnectionState]
          /\ disc' \in [Nodes -> {"none", "looper", "sender"}]
          /\ todo' \in [Nodes -> LooperMessages] /\ sendq' \in [Nodes -> SendQueue]
      BY <3>1, <3>2, ReferenceRequestType, Zenon
    <3> QED
      BY <2>1, <3>1, <3>3, Zenon DEF ConnBrOnReferenceRequest, TypeOK, SendQueue, users
  <2>2. CASE ConnBrOnReferenceResponse(n)
    <3> DEFINE resume == Resumes(n, Head(inbox[n]).ref)
               negs == IF resume THEN 0 ELSE todo[n].neg
               resumes == IF resume THEN todo[n].resume + 1 ELSE todo[n].resume
    <3>1. inbox' \in [Nodes -> Seq(Frames)]
      BY <2>0, <2>2, Zenon DEF ConnBrOnReferenceResponse, Receive
    <3>2. negs \in Nat /\ resumes \in Nat
      <4>1. todo[n].neg \in Nat /\ todo[n].resume \in Nat
        BY Zenon DEF TypeOK, LooperMessages
      <4> QED
        BY ONLY <4>1
    <3>3. todo' = [todo EXCEPT ![n].neg = negs, ![n].resume = resumes]
      BY <2>2, Zenon DEF ConnBrOnReferenceResponse
    <3>4. state' \in [Nodes -> ConnectionState]
      BY <2>2, Zenon DEF ConnBrOnReferenceResponse, TypeOK, ConnectionState
    <3> HIDE DEF negs, resumes
    <3>5. todo' \in [Nodes -> LooperMessages]
      <4>1. todo \in [Nodes -> LooperMessages]
        BY Zenon DEF TypeOK
      <4> QED
        BY <3>2, <3>3, <4>1, ZenonT(60) DEF LooperMessages
    <3> QED
      BY <2>2, <3>1, <3>4, <3>5, Zenon DEF ConnBrOnReferenceResponse, TypeOK, users
  <2>3. CASE ConnectionException(n)
    <3>1. NoMessages \in LooperMessages /\ NoFrames \in SendQueue /\ <<>> \in Seq(Frames)
      BY DEF NoMessages, LooperMessages, NoFrames, SendQueue
    <3>2. /\ sock' \in [Nodes -> BOOLEAN] /\ state' \in [Nodes -> ConnectionState]
          /\ disc' \in [Nodes -> {"none", "looper", "sender"}]
      BY <2>3, DisconnectNowType DEF ConnectionException
    <3> HIDE DEF NoMessages, NoFrames
    <3>3. /\ inbox' \in [Nodes -> Seq(Frames)] /\ todo' \in [Nodes -> LooperMessages]
          /\ sendq' \in [Nodes -> SendQueue]
      BY <2>3, <3>1, ZenonT(60) DEF ConnectionException, TypeOK, SendQueue
    <3> QED
      BY <2>3, <3>2, <3>3, Zenon DEF ConnectionException, TypeOK, SendQueue, users
  <2> QED
    BY <1>1, <2>1, <2>2, <2>3, Zenon DEF FrameStep
<1>2. ASSUME NEW n \in Nodes, TimerStep(n)
      PROVE  TypeOK'
  <2>1. CASE ConnectionResume(n)
    <3>1. Taken(n, "resume") \in [Nodes -> LooperMessages]
      BY <2>1, TakenType, Zenon DEF ConnectionResume
    <3>2. /\ rc' \in [Nodes -> Int] /\ state' \in [Nodes -> ConnectionState]
          /\ todo' \in [Nodes -> LooperMessages] /\ sendq' \in [Nodes -> SendQueue]
      <4>1. waiting[n] \in Nat
        BY Zenon DEF TypeOK
      <4>2. CASE NotifyUpdateConnectionRc(n, 1, waiting[n], Taken(n, "resume"))
        BY <3>1, <4>1, <4>2, NotifyType, Zenon
      <4>3. CASE todo' = Taken(n, "resume") /\ UNCHANGED <<rc, state, sendq>>
        BY <3>1, <4>3, Zenon DEF TypeOK, SendQueue
      <4> QED
        BY <2>1, <4>2, <4>3, Zenon DEF ConnectionResume
    <3>3. acquired' \in [Nodes -> Nat] /\ waiting' \in [Nodes -> Nat]
      <4>1. acquired \in [Nodes -> Nat] /\ waiting \in [Nodes -> Nat]
        BY Zenon DEF TypeOK
      <4>2. CASE state[n] = "CONNECTED"
        BY <2>1, <4>1, <4>2 DEF ConnectionResume
      <4>3. CASE state[n] # "CONNECTED"
        BY <2>1, <4>1, <4>3, SMTT(60) DEF ConnectionResume
      <4> QED
        BY <4>2, <4>3, Zenon
    <3> QED
      BY <2>1, <3>2, <3>3, Zenon DEF ConnectionResume, TypeOK, SendQueue
  <2>2. CASE RetryNotifyReferenceHandler(n)
    <3>1. Taken(n, "retry") \in [Nodes -> LooperMessages]
      BY <2>2, TakenType, Zenon DEF RetryNotifyReferenceHandler
    <3>2. /\ rc' \in [Nodes -> Int] /\ state' \in [Nodes -> ConnectionState]
          /\ todo' \in [Nodes -> LooperMessages] /\ sendq' \in [Nodes -> SendQueue]
      BY <2>2, <3>1, UpdateType, Zenon DEF RetryNotifyReferenceHandler
    <3> QED
      BY <2>2, <3>2, Zenon DEF RetryNotifyReferenceHandler, TypeOK, SendQueue, users
  <2>3. CASE WaitNegotiationClosingTimeoutHandler(n)
    <3>1. todo' \in [Nodes -> LooperMessages]
      BY <2>3, TakenType, Zenon DEF WaitNegotiationClosingTimeoutHandler
    <3>2. /\ sock' \in [Nodes -> BOOLEAN] /\ state' \in [Nodes -> ConnectionState]
          /\ disc' \in [Nodes -> {"none", "looper", "sender"}]
      <4>1. CASE ConnBrDisconnectNow(n, "looper")
        BY <4>1, DisconnectNowType, Zenon
      <4>2. CASE UNCHANGED <<sock, state, disc>>
        BY <4>2, ZenonT(60) DEF TypeOK
      <4> QED
        BY <2>3, <4>1, <4>2, Zenon DEF WaitNegotiationClosingTimeoutHandler
    <3> QED
      BY <2>3, <3>1, <3>2, Zenon DEF WaitNegotiationClosingTimeoutHandler, TypeOK, users
  <2>4. CASE BrOnOccupyRelease(n)
    <3>1. todo' \in [Nodes -> LooperMessages]
      BY <2>4, TakenType, Zenon DEF BrOnOccupyRelease
    <3>2. occupied' \in [Nodes -> BOOLEAN]
      BY <2>4, Zenon DEF BrOnOccupyRelease, TypeOK
    <3> QED
      BY <2>4, <3>1, <3>2, Zenon DEF BrOnOccupyRelease, TypeOK, users
  <2> QED
    BY <1>2, <2>1, <2>2, <2>3, <2>4, Zenon DEF TimerStep
<1>3. ASSUME NEW n \in Nodes, PutOffStep(n)
      PROVE  TypeOK'
  <2>1. CASE UpdateLocalRc(n)
    <3>1. Taken(n, "local") \in [Nodes -> LooperMessages]
      BY <2>1, TakenType, Zenon DEF UpdateLocalRc
    <3>2. /\ rc' \in [Nodes -> Int] /\ state' \in [Nodes -> ConnectionState]
          /\ todo' \in [Nodes -> LooperMessages] /\ sendq' \in [Nodes -> SendQueue]
      BY <2>1, <3>1, UpdateType, Zenon DEF UpdateLocalRc
    <3> QED
      BY <2>1, <3>2, Zenon DEF UpdateLocalRc, TypeOK, SendQueue, users
  <2>2. CASE UpdatePeerRc(n)
    <3>1. Head(todo[n].peer) \in Frames /\ Tail(todo[n].peer) \in Seq(Frames)
      <4>1. todo[n].peer \in Seq(Frames) /\ todo[n].peer # <<>>
        BY <2>2, Zenon DEF UpdatePeerRc, TypeOK, LooperMessages
      <4> QED
        BY <4>1
    <3>2. [todo EXCEPT ![n].peer = Tail(@)] \in [Nodes -> LooperMessages]
      <4>1. todo \in [Nodes -> LooperMessages]
        BY DEF TypeOK
      <4> QED
        BY <3>1, <4>1, Zenon DEF LooperMessages
    <3>3. BrOnReferenceRequest(n, Head(todo[n].peer), [todo EXCEPT ![n].peer = Tail(@)])
      BY <2>2, Zenon DEF UpdatePeerRc
    <3>4. /\ rc' \in [Nodes -> Int] /\ sock' \in [Nodes -> BOOLEAN]
          /\ state' \in [Nodes -> ConnectionState]
          /\ disc' \in [Nodes -> {"none", "looper", "sender"}]
          /\ todo' \in [Nodes -> LooperMessages] /\ sendq' \in [Nodes -> SendQueue]
      BY <3>1, <3>2, <3>3, ReferenceRequestType, Zenon
    <3> QED
      BY <2>2, <3>4, Zenon DEF UpdatePeerRc, TypeOK, SendQueue, users
  <2> QED
    BY <1>3, <2>1, <2>2, Zenon DEF PutOffStep
<1>4. ASSUME NEW n \in Nodes, ThreadStep(n)
      PROVE  TypeOK'
  <2>1. CASE DisconnectDone(n)
    BY <2>1, Zenon DEF DisconnectDone, TypeOK, ConnectionState, users
  <2>2. CASE SendHandlerLoop(n)
    <3> DEFINE p == IF sendq[n].high # <<>> THEN "high" ELSE "low"
    <3>1. p = "high" \/ p = "low"
      OBVIOUS
    <3>2. sendq[n][p] # <<>> /\ sendq' = [sendq EXCEPT ![n][p] = Tail(sendq[n][p])]
      BY <2>2, Zenon DEF SendHandlerLoop
    <3>3. \/ ConnBrDisconnectNow(n, "sender") /\ UNCHANGED inbox
          \/ /\ inbox' = [inbox EXCEPT ![Peer(n)] =
                              IF reading[Peer(n)] THEN Append(@, Head(sendq[n][p])) ELSE @]
             /\ UNCHANGED <<state, sock, disc>>
      BY <2>2, Zenon DEF SendHandlerLoop
    <3> HIDE DEF p
    <3>4. sendq[n][p] \in Seq(Frames)
      BY <3>1, Zenon DEF TypeOK
    <3>5. Head(sendq[n][p]) \in Frames /\ Tail(sendq[n][p]) \in Seq(Frames)
      BY <3>2, <3>4
    <3>6. sendq' \in [Nodes -> SendQueue]
      <4>1. CASE p = "high"
        BY <3>2, <3>5, <4>1, ZenonT(60) DEF TypeOK, SendQueue
      <4>2. CASE p = "low"
        BY <3>2, <3>5, <4>2, ZenonT(60) DEF TypeOK, SendQueue
      <4> QED
        BY <3>1, <4>1, <4>2, SMTT(60)
    <3>7. /\ sock' \in [Nodes -> BOOLEAN] /\ state' \in [Nodes -> ConnectionState]
          /\ disc' \in [Nodes -> {"none", "looper", "sender"}]
          /\ inbox' \in [Nodes -> Seq(Frames)]
      <4>1. CASE ConnBrDisconnectNow(n, "sender") /\ UNCHANGED inbox
        BY <4>1, DisconnectNowType, Zenon DEF TypeOK
      <4>2. CASE /\ inbox' = [inbox EXCEPT ![Peer(n)] =
                              IF reading[Peer(n)] THEN Append(@, Head(sendq[n][p])) ELSE @]
                 /\ UNCHANGED <<state, sock, disc>>
        <5>1. Peer(n) \in Nodes
          BY Zenon DEF Peer, Nodes
        <5>2. Append(inbox[Peer(n)], Head(sendq[n][p])) \in Seq(Frames)
          BY <3>5, <5>1 DEF TypeOK
        <5> QED
          BY <4>2, <5>1, <5>2, ZenonT(60) DEF TypeOK
      <4> QED
        BY <3>3, <4>1, <4>2, Zenon
    <3> QED
      BY <2>2, <3>6, <3>7, Zenon DEF SendHandlerLoop, TypeOK, SendQueue, users
  <2>3. CASE LoopReadExit(n)
    <3>1. \A k \in 0..Len(inbox[n]) : Append(SubSeq(inbox[n], 1, k), Exception) \in Seq(Frames)
      <4>1. inbox[n] \in Seq(Frames)
        BY Zenon DEF TypeOK
      <4>2. \A S : \A q \in Seq(S), x \in S : \A k \in 0..Len(q) : Append(SubSeq(q, 1, k), x) \in Seq(S)
        OBVIOUS
      <4> QED
        BY <4>1, <4>2, FrameTypes, Zenon
    <3>2. inbox' \in [Nodes -> Seq(Frames)]
      <4>1. PICK k \in 0..Len(inbox[n]) :
               inbox' = [inbox EXCEPT ![n] = Append(SubSeq(inbox[n], 1, k), Exception)]
        BY <2>3, Zenon DEF LoopReadExit
      <4>2. inbox \in [Nodes -> Seq(Frames)]
        BY Zenon DEF TypeOK
      <4> QED
        BY <3>1, <4>1, <4>2, Zenon
    <3>3. state' \in [Nodes -> ConnectionState]
      BY <2>3, ZenonT(60) DEF LoopReadExit, TypeOK, ConnectionState
    <3> QED
      BY <2>3, <3>2, <3>3, Zenon DEF LoopReadExit, TypeOK, users
  <2>4. CASE ConnBrOccupy(n)
    <3>1. todo' \in [Nodes -> LooperMessages]
      <4>1. todo \in [Nodes -> LooperMessages]
        BY DEF TypeOK
      <4>2. \E k \in Nat : todo' = [todo EXCEPT ![n].release = k]
        BY <2>4, Zenon DEF ConnBrOccupy
      <4> QED
        BY <4>1, <4>2, ZenonT(60) DEF LooperMessages
    <3>2. occupied' \in [Nodes -> BOOLEAN] /\ checked' \in [Nodes -> BOOLEAN]
      BY <2>4, Zenon DEF ConnBrOccupy, TypeOK
    <3> QED
      BY <2>4, <3>1, <3>2, Zenon DEF ConnBrOccupy, TypeOK, users
  <2> QED
    BY <1>4, <2>1, <2>2, <2>3, <2>4, Zenon DEF ThreadStep
<1>5. ASSUME NEW n \in Nodes, UserStep(n)
      PROVE  TypeOK'
  <2>0. todo \in [Nodes -> LooperMessages]
    BY DEF TypeOK
  <2>1. CASE BrConnectDevice(n)
    <3>1. /\ rc' \in [Nodes -> Int] /\ state' \in [Nodes -> ConnectionState]
          /\ todo' \in [Nodes -> LooperMessages] /\ sendq' \in [Nodes -> SendQueue]
      <4>1. CASE NotifyUpdateConnectionRc(n, 1, 1, todo)
        BY <2>0, <4>1, NotifyType, Zenon
      <4>2. CASE UNCHANGED <<rc, state, todo, sendq>>
        BY <4>2, ZenonT(60) DEF TypeOK, SendQueue
      <4> QED
        BY <2>1, <4>1, <4>2, Zenon DEF BrConnectDevice
    <3>2. /\ asked' \in [Nodes -> Nat] /\ acquired' \in [Nodes -> Nat]
          /\ waiting' \in [Nodes -> Nat]
      <4>1. asked \in [Nodes -> Nat] /\ acquired \in [Nodes -> Nat] /\ waiting \in [Nodes -> Nat]
        BY Zenon DEF TypeOK
      <4>2. CASE state[n] = "CONNECTED"
        BY <2>1, <4>1, <4>2 DEF BrConnectDevice
      <4>3. CASE state[n] # "CONNECTED"
        BY <2>1, <4>1, <4>3, SMTT(60) DEF BrConnectDevice
      <4> QED
        BY <4>2, <4>3, Zenon
    <3> QED
      BY <2>1, <3>1, <3>2, Zenon DEF BrConnectDevice, TypeOK, SendQueue
  <2>2. CASE DisconnectRequest(n)
    <3>1. /\ rc' \in [Nodes -> Int] /\ state' \in [Nodes -> ConnectionState]
          /\ todo' \in [Nodes -> LooperMessages] /\ sendq' \in [Nodes -> SendQueue]
      BY <2>0, <2>2, UpdateType, Zenon DEF DisconnectRequest
    <3> QED
      <4>1. released' \in [Nodes -> Nat]
        <5>1. released \in [Nodes -> Nat] /\ released[n] \in Nat
          BY Zenon DEF TypeOK
        <5>2. released[n] + 1 \in Nat
          BY ONLY <5>1
        <5>3. released' = [released EXCEPT ![n] = released[n] + 1]
          BY <2>2, Zenon DEF DisconnectRequest
        <5> QED
          BY <5>1, <5>2, <5>3, Zenon
      <4> QED
        BY <2>2, <3>1, <4>1, Zenon DEF DisconnectRequest, TypeOK, SendQueue
  <2>3. CASE BrCheckActiveConnection(n)
    <3>1. occupies' \in [Nodes -> Nat] /\ checked' \in [Nodes -> BOOLEAN]
      <4>1. occupies \in [Nodes -> Nat] /\ checked \in [Nodes -> BOOLEAN]
        BY ZenonT(60) DEF TypeOK
      <4> QED
        BY <2>3, <4>1 DEF BrCheckActiveConnection
    <3> QED
      BY <2>3, <3>1, Zenon DEF BrCheckActiveConnection, TypeOK
  <2> QED
    BY <1>5, <2>1, <2>2, <2>3 DEF UserStep
<1>6. CASE LinkLost
  BY <1>6, Zenon DEF LinkLost, TypeOK, conn, users
<1>7. CASE UNCHANGED vars
  BY <1>7, Zenon DEF TypeOK, vars, conn, users
<1> QED
  BY <1>1, <1>2, <1>3, <1>4, <1>5, <1>6, <1>7, Zenon DEF Next

\* Type correctness: the counts stay integers, the looper's message counts stay
\* natural numbers, for any number of requests.
THEOREM TypeCorrect == Spec => []TypeOK
BY InitType, NextType, PTL DEF Spec

----------------------------------------------------------------------------
(* The timers: each of the three properties is inductive, given the types. *)

Timers == NoStaleTimeout /\ ClosingIsTimed /\ OccupiedIsTimed

\* The timers of one end, and that the steps of the other leave them alone.
Timed(n) ==
    /\ state[n] = "CONNECTED" => todo[n].neg = 0
    /\ state[n] = "NEGOTIATION_CLOSING" => todo[n].neg > 0
    /\ present[n] /\ occupied[n] => todo[n].release > 0

\* The invariant speaks of each end by itself.
LEMMA TimersByNode == Timers <=> \A n \in Nodes : Timed(n)
BY Zenon DEF Timers, NoStaleTimeout, ClosingIsTimed, OccupiedIsTimed, Timed

Same(n) ==
    /\ state'[n] = state[n] /\ todo'[n] = todo[n]
    /\ present'[n] = present[n] /\ occupied'[n] = occupied[n]

\* An end that a step leaves alone stays timed.
LEMMA SameTimed == ASSUME NEW n, Timed(n), Same(n) PROVE Timed(n)'
BY Zenon DEF Timed, Same

\* A change of the count starts a timeout exactly when it starts to close.
LEMMA NotifyTimed ==
    ASSUME TypeOK, NEW n \in Nodes, Timed(n), NEW delta \in {-1, 0, 1}, NEW k \in Nat,
           NEW own \in [Nodes -> LooperMessages],
           own[n].neg = todo[n].neg, own[n].release = todo[n].release,
           \A m \in Nodes : m # n => own[m] = todo[m],
           NotifyUpdateConnectionRc(n, delta, k, own), UNCHANGED <<present, occupied>>
    PROVE  Timed(n)' /\ \A m \in Nodes : m # n => Same(m)
<1> DEFINE after == [i \in 1..k |-> rc[n] + i * delta]
           empty == {i \in 1..k : after[i] <= 0}
<1>1. Cardinality(empty) \in Nat /\ (Cardinality(empty) = 0 <=> empty = {})
  <2>1. IsFiniteSet(1..k)
    BY FS_Interval
  <2>2. IsFiniteSet(empty)
    BY <2>1, FS_Subset, Zenon
  <2> QED
    BY <2>2, FS_CardinalityType, FS_EmptySet, Zenon
<1>2. /\ todo' = [own EXCEPT ![n].neg = own[n].neg + Cardinality(empty)]
      /\ state' = [state EXCEPT ![n] = IF empty # {} THEN "NEGOTIATION_CLOSING" ELSE state[n]]
  BY Zenon DEF NotifyUpdateConnectionRc
<1> HIDE DEF empty
<1>3. todo \in [Nodes -> LooperMessages] /\ state \in [Nodes -> ConnectionState]
  BY ZenonT(60) DEF TypeOK
<1>4. /\ todo'[n].neg = todo[n].neg + Cardinality(empty) /\ todo'[n].release = todo[n].release
      /\ todo[n].neg \in Nat
      /\ state'[n] = IF empty # {} THEN "NEGOTIATION_CLOSING" ELSE state[n]
  BY <1>2, <1>3, Zenon DEF LooperMessages
<1>5. Timed(n)'
  BY <1>1, <1>4 DEF Timed
<1>6. \A m \in Nodes : m # n => Same(m)
  BY <1>2, <1>3, Zenon DEF Same
<1> QED
  BY <1>5, <1>6, Zenon

\* BrUpdateConnectionRc keeps the end timed.
LEMMA UpdateTimed ==
    ASSUME TypeOK, NEW n \in Nodes, Timed(n), NEW delta \in {-1, 0, 1},
           NEW own \in [Nodes -> LooperMessages],
           own[n].neg = todo[n].neg, own[n].release = todo[n].release,
           \A m \in Nodes : m # n => own[m] = todo[m],
           BrUpdateConnectionRc(n, delta, own), UNCHANGED <<present, occupied>>
    PROVE  Timed(n)' /\ \A m \in Nodes : m # n => Same(m)
<1>1. CASE delta < 0 /\ occupied[n]
  <2>1. todo' = [own EXCEPT ![n].local = own[n].local + 1] /\ state' = state
    BY <1>1, Zenon DEF BrUpdateConnectionRc
  <2>2. /\ todo'[n].neg = todo[n].neg /\ todo'[n].release = todo[n].release
        /\ \A m \in Nodes : m # n => todo'[m] = todo[m]
    BY <2>1, Zenon DEF LooperMessages
  <2> QED
    BY <2>1, <2>2, Zenon DEF Timed, Same
<1>2. CASE ~(delta < 0 /\ occupied[n])
  <2>1. NotifyUpdateConnectionRc(n, delta, 1, own)
    BY <1>2, Zenon DEF BrUpdateConnectionRc
  <2> QED
    BY <2>1, NotifyTimed, Zenon
<1> QED
  BY <1>1, <1>2, Zenon

\* A message of another kind leaves the timers.
LEMMA TakenTimed ==
    ASSUME TypeOK, NEW n \in Nodes, NEW kind \in {"retry", "local", "resume"}
    PROVE  /\ Taken(n, kind)[n].neg = todo[n].neg
           /\ Taken(n, kind)[n].release = todo[n].release
           /\ \A m \in Nodes : m # n => Taken(n, kind)[m] = todo[m]
<1>1. todo \in [Nodes -> LooperMessages]
  BY Zenon DEF TypeOK
<1> QED
  BY <1>1, Zenon DEF Taken, LooperMessages

\* Closing the socket leaves both states that the timers are about.
LEMMA DisconnectNowTimed ==
    ASSUME TypeOK, NEW n \in Nodes, NEW t, ConnBrDisconnectNow(n, t)
    PROVE  /\ state'[n] \notin {"CONNECTED", "NEGOTIATION_CLOSING"}
           /\ \A m \in Nodes : m # n => state'[m] = state[m]
<1>1. state \in [Nodes -> ConnectionState]
  BY Zenon DEF TypeOK
<1> QED
  BY <1>1, Zenon DEF ConnBrDisconnectNow

\* BrOnReferenceRequest keeps the end timed.
LEMMA ReferenceRequestTimed ==
    ASSUME TypeOK, NEW n \in Nodes, Timed(n), NEW m \in Frames,
           NEW own \in [Nodes -> LooperMessages],
           own[n].neg = todo[n].neg, own[n].release = todo[n].release,
           \A i \in Nodes : i # n => own[i] = todo[i],
           BrOnReferenceRequest(n, m, own), UNCHANGED <<present, occupied>>
    PROVE  Timed(n)' /\ \A i \in Nodes : i # n => Same(i)
<1>1. CASE m.delta < 0 /\ occupied[n]
  <2>1. todo' = [own EXCEPT ![n].peer = Append(own[n].peer, m)] /\ state' = state
    BY <1>1, Zenon DEF BrOnReferenceRequest
  <2>2. /\ todo'[n].neg = todo[n].neg /\ todo'[n].release = todo[n].release
        /\ \A i \in Nodes : i # n => todo'[i] = todo[i]
    BY <2>1, Zenon DEF LooperMessages
  <2> QED
    BY <2>1, <2>2, Zenon DEF Timed, Same
<1>2. CASE ~(m.delta < 0 /\ occupied[n])
  <2> DEFINE localRc == rc[n] + m.delta
             resume == Resumes(n, m.ref)
             retries == IF m.ref > 0 /\ localRc = 0 THEN own[n].retry + 1 ELSE own[n].retry
             negs == IF resume THEN 0 ELSE own[n].neg
             resumes == IF resume THEN own[n].resume + 1 ELSE own[n].resume
  <2>1. NotifyReferenceRequest(n, m.delta, m.ref, own)
    BY <1>2, Zenon DEF BrOnReferenceRequest
  <2>2. todo' = [own EXCEPT ![n].retry = retries, ![n].neg = negs, ![n].resume = resumes]
    BY <2>1, Zenon DEF NotifyReferenceRequest
  <2>3. \/ ConnBrDisconnectNow(n, "looper")
        \/ state' = [state EXCEPT ![n] = IF resume THEN "CONNECTED" ELSE state[n]]
    BY <2>1, Zenon DEF NotifyReferenceRequest
  <2> HIDE DEF localRc, resume, retries, resumes
  <2>4. /\ todo'[n].neg = negs /\ todo'[n].release = todo[n].release
        /\ \A i \in Nodes : i # n => todo'[i] = todo[i]
    BY <2>2, ZenonT(60) DEF LooperMessages
  <2>5. CASE ConnBrDisconnectNow(n, "looper")
    BY <2>4, <2>5, DisconnectNowTimed, SMTT(60) DEF Timed, Same
  <2>6. CASE state' = [state EXCEPT ![n] = IF resume THEN "CONNECTED" ELSE state[n]]
    <3>1. /\ state'[n] = IF resume THEN "CONNECTED" ELSE state[n]
          /\ \A i \in Nodes : i # n => state'[i] = state[i]
      BY <2>6, SMTT(60) DEF TypeOK
    <3> QED
      BY <2>4, <3>1, SMTT(60) DEF Timed, Same
  <2> QED
    BY <2>3, <2>5, <2>6, Zenon
<1> QED
  BY <1>1, <1>2, Zenon

\* The timers are right at the start.
LEMMA InitTimers == Init => Timers
BY DEF Init, Timers, NoStaleTimeout, ClosingIsTimed, OccupiedIsTimed, NoMessages

\* Every step keeps the timers right.
LEMMA NextTimers == TypeOK /\ Timers /\ [Next]_vars => Timers'
<1> SUFFICES ASSUME TypeOK, Timers, [Next]_vars
             PROVE  Timers'
  OBVIOUS
<1>0. /\ todo \in [Nodes -> LooperMessages] /\ state \in [Nodes -> ConnectionState]
      /\ \A n \in Nodes : Timed(n)
  BY TimersByNode, Zenon DEF TypeOK
\* It is enough to look at the end that takes the step.
<1>1. SUFFICES ASSUME NEW n \in Nodes,
                      FrameStep(n) \/ TimerStep(n) \/ PutOffStep(n) \/ ThreadStep(n) \/ UserStep(n)
               PROVE  Timed(n)' /\ \A m \in Nodes : m # n => Same(m)
  <2>1. CASE LinkLost \/ UNCHANGED vars
    BY <1>0, <2>1, SMTT(60) DEF LinkLost, vars, conn, Timers, NoStaleTimeout, ClosingIsTimed,
                      OccupiedIsTimed
  <2>2. ASSUME NEW n \in Nodes, Timed(n)', \A m \in Nodes : m # n => Same(m)
        PROVE  Timers'
    <3>1. \A m \in Nodes : Timed(m)'
      BY <1>0, <2>2, SameTimed, Zenon
    <3> QED
      BY <3>1, Zenon DEF Timers, NoStaleTimeout, ClosingIsTimed, OccupiedIsTimed, Timed
  <2> QED
    BY <1>1, <2>1, <2>2, SMTT(60) DEF Next
<1>2. Timed(n)
  BY <1>0, SMTT(60)
<1>3. CASE UNCHANGED <<state, todo, present, occupied>>
  BY <1>2, <1>3, Zenon DEF Timed, Same
<1>4. CASE FrameStep(n)
  <2>1. CASE ConnBrOnReferenceRequest(n)
    <3>1. inbox[n] \in Seq(Frames) /\ inbox[n] # <<>>
      BY <2>1, Zenon DEF ConnBrOnReferenceRequest, Receive, TypeOK
    <3>2. Head(inbox[n]) \in Frames
      BY <3>1
    <3>3. BrOnReferenceRequest(n, Head(inbox[n]), todo) /\ UNCHANGED <<present, occupied>>
      BY <2>1, Zenon DEF ConnBrOnReferenceRequest
    <3> QED
      BY <1>0, <1>2, <3>2, <3>3, ReferenceRequestTimed, SMTT(60)
  <2>2. CASE ConnBrOnReferenceResponse(n)
    <3> DEFINE resume == Resumes(n, Head(inbox[n]).ref)
               negs == IF resume THEN 0 ELSE todo[n].neg
               resumes == IF resume THEN todo[n].resume + 1 ELSE todo[n].resume
    <3>1. /\ todo' = [todo EXCEPT ![n].neg = negs, ![n].resume = resumes]
          /\ state' = [state EXCEPT ![n] = IF resume THEN "CONNECTED" ELSE state[n]]
          /\ UNCHANGED <<present, occupied>>
      BY <2>2, Zenon DEF ConnBrOnReferenceResponse
    <3> HIDE DEF resume, resumes
    <3>2. /\ todo'[n].neg = negs /\ todo'[n].release = todo[n].release
          /\ state'[n] = IF resume THEN "CONNECTED" ELSE state[n]
          /\ \A m \in Nodes : m # n => todo'[m] = todo[m] /\ state'[m] = state[m]
      BY <1>0, <3>1, Zenon DEF LooperMessages
    <3>3. CASE resume
      <4>1. state'[n] = "CONNECTED" /\ todo'[n].neg = 0 /\ todo'[n].release = todo[n].release
        BY <3>2, <3>3, Zenon
      <4>2. Timed(n)'
        BY <1>2, <3>1, <4>1, Zenon DEF Timed
      <4>3. \A m \in Nodes : m # n => Same(m)
        BY <3>1, <3>2, Zenon DEF Same
      <4> QED
        BY <4>2, <4>3, Zenon
    <3>4. CASE ~resume
      BY <1>2, <3>1, <3>2, <3>4, ZenonT(60) DEF Timed, Same
    <3> QED
      BY <3>3, <3>4, Zenon
  <2>3. CASE ConnectionException(n)
    <3>1. ~present'[n] /\ \A m \in Nodes : m # n => present'[m] = present[m] /\ todo'[m] = todo[m]
      BY <2>3, SMTT(60) DEF ConnectionException, TypeOK
    <3>2. state'[n] \notin {"CONNECTED", "NEGOTIATION_CLOSING"}
          /\ \A m \in Nodes : m # n => state'[m] = state[m]
      BY <2>3, DisconnectNowTimed, Zenon DEF ConnectionException
    <3> QED
      BY <2>3, <3>1, <3>2, SMTT(60) DEF ConnectionException, Timed, Same
  <2> QED
    BY <1>4, <2>1, <2>2, <2>3, SMTT(60) DEF FrameStep
<1>5. CASE TimerStep(n)
  <2>1. CASE ConnectionResume(n)
    <3>1. Taken(n, "resume") \in [Nodes -> LooperMessages]
      BY <2>1, TakenType, SMTT(60) DEF ConnectionResume
    <3>2. /\ Taken(n, "resume")[n].neg = todo[n].neg
          /\ Taken(n, "resume")[n].release = todo[n].release
          /\ \A m \in Nodes : m # n => Taken(n, "resume")[m] = todo[m]
      BY TakenTimed, SMTT(60)
    <3>3. UNCHANGED <<present, occupied>> /\ waiting[n] \in Nat
      BY <2>1, SMTT(60) DEF ConnectionResume, TypeOK
    <3>4. CASE NotifyUpdateConnectionRc(n, 1, waiting[n], Taken(n, "resume"))
      BY <1>2, <3>1, <3>2, <3>3, <3>4, NotifyTimed, SMTT(60)
    <3>5. CASE todo' = Taken(n, "resume") /\ UNCHANGED state
      BY <1>2, <3>2, <3>3, <3>5, SMTT(60) DEF Timed, Same
    <3> QED
      BY <2>1, <3>4, <3>5, SMTT(60) DEF ConnectionResume
  <2>2. CASE RetryNotifyReferenceHandler(n)
    <3>1. Taken(n, "retry") \in [Nodes -> LooperMessages]
      BY <2>2, TakenType, SMTT(60) DEF RetryNotifyReferenceHandler
    <3>2. /\ Taken(n, "retry")[n].neg = todo[n].neg
          /\ Taken(n, "retry")[n].release = todo[n].release
          /\ \A m \in Nodes : m # n => Taken(n, "retry")[m] = todo[m]
      BY TakenTimed, Zenon
    <3> QED
      BY <1>2, <2>2, <3>1, <3>2, UpdateTimed, SMTT(60) DEF RetryNotifyReferenceHandler
  <2>3. CASE WaitNegotiationClosingTimeoutHandler(n)
    <3>1. /\ todo' = [todo EXCEPT ![n].neg = todo[n].neg - 1] /\ todo[n].neg > 0
          /\ UNCHANGED <<present, occupied>>
      BY <2>3, Zenon DEF WaitNegotiationClosingTimeoutHandler, Taken, Take
    <3>2. /\ todo'[n].release = todo[n].release
          /\ \A m \in Nodes : m # n => todo'[m] = todo[m]
      BY <1>0, <3>1, Zenon DEF LooperMessages
    <3>3. /\ state'[n] \notin {"CONNECTED", "NEGOTIATION_CLOSING"}
          /\ \A m \in Nodes : m # n => state'[m] = state[m]
      <4>1. state[n] # "CONNECTED"
        BY <1>2, <3>1 DEF Timed
      <4> QED
        BY <2>3, <4>1, DisconnectNowTimed, Zenon DEF WaitNegotiationClosingTimeoutHandler
    <3> QED
      BY <1>2, <3>1, <3>2, <3>3, Zenon DEF Timed, Same
  <2>4. CASE BrOnOccupyRelease(n)
    <3>1. /\ todo' = [todo EXCEPT ![n].release = todo[n].release - 1]
          /\ occupied' = [occupied EXCEPT ![n] = FALSE] /\ UNCHANGED <<state, present>>
      BY <2>4, ZenonT(60) DEF BrOnOccupyRelease, Taken
    <3>2. /\ todo'[n].neg = todo[n].neg /\ ~occupied'[n]
          /\ \A m \in Nodes : m # n => todo'[m] = todo[m] /\ occupied'[m] = occupied[m]
      BY <1>0, <3>1 DEF LooperMessages, TypeOK
    <3> QED
      BY <1>2, <3>1, <3>2, Zenon DEF Timed, Same
  <2> QED
    BY <1>5, <2>1, <2>2, <2>3, <2>4, SMTT(60) DEF TimerStep
<1>6. CASE PutOffStep(n)
  <2>1. CASE UpdateLocalRc(n)
    <3>1. Taken(n, "local") \in [Nodes -> LooperMessages]
      BY <2>1, TakenType, SMTT(60) DEF UpdateLocalRc
    <3>2. /\ Taken(n, "local")[n].neg = todo[n].neg
          /\ Taken(n, "local")[n].release = todo[n].release
          /\ \A m \in Nodes : m # n => Taken(n, "local")[m] = todo[m]
      BY TakenTimed, SMTT(60)
    <3> QED
      BY <1>2, <2>1, <3>1, <3>2, UpdateTimed, Zenon DEF UpdateLocalRc
  <2>2. CASE UpdatePeerRc(n)
    <3> DEFINE own == [todo EXCEPT ![n].peer = Tail(@)]
    <3>1. todo[n].peer \in Seq(Frames) /\ todo[n].peer # <<>>
      BY <1>0, <2>2, Zenon DEF UpdatePeerRc, LooperMessages
    <3>2. Head(todo[n].peer) \in Frames /\ Tail(todo[n].peer) \in Seq(Frames)
      BY <3>1
    <3>3. /\ own \in [Nodes -> LooperMessages]
          /\ own[n].neg = todo[n].neg /\ own[n].release = todo[n].release
          /\ \A i \in Nodes : i # n => own[i] = todo[i]
      BY <1>0, <3>2, Zenon DEF LooperMessages
    <3>4. BrOnReferenceRequest(n, Head(todo[n].peer), own) /\ UNCHANGED <<present, occupied>>
      BY <2>2, Zenon DEF UpdatePeerRc
    <3> HIDE DEF own
    <3> QED
      BY <1>2, <3>2, <3>3, <3>4, ReferenceRequestTimed, Zenon
  <2> QED
    BY <1>6, <2>1, <2>2, Zenon DEF PutOffStep
<1>7. CASE ThreadStep(n)
  <2>1. CASE DisconnectDone(n)
    <3>1. /\ state'[n] = "CLOSED" /\ \A m \in Nodes : m # n => state'[m] = state[m]
          /\ UNCHANGED <<todo, present, occupied>>
      BY <1>0, <2>1, Zenon DEF DisconnectDone
    <3> QED
      BY <1>2, <3>1, Zenon DEF Timed, Same
  <2>2. CASE SendHandlerLoop(n)
    <3>1. UNCHANGED <<todo, present, occupied>>
          /\ (UNCHANGED state \/ ConnBrDisconnectNow(n, "sender"))
      BY <2>2, SMTT(60) DEF SendHandlerLoop
    <3>2. CASE ConnBrDisconnectNow(n, "sender")
      BY <1>2, <3>1, <3>2, DisconnectNowTimed, SMTT(60) DEF Timed, Same
    <3> QED
      BY <1>3, <3>1, <3>2, SMTT(60)
  <2>3. CASE LoopReadExit(n)
    <3>1. /\ state'[n] \in {"CLOSED", "EXCEPTION"}
          /\ \A m \in Nodes : m # n => state'[m] = state[m]
          /\ UNCHANGED <<todo, present, occupied>>
      BY <1>0, <2>3, Zenon DEF LoopReadExit
    <3> QED
      BY <1>2, <3>1, SMTT(60) DEF Timed, Same
  <2>4. CASE ConnBrOccupy(n)
    <3>1. /\ todo' = [todo EXCEPT ![n].release = IF present[n] THEN 1 ELSE 0]
          /\ occupied' = [occupied EXCEPT ![n] = TRUE] /\ UNCHANGED <<state, present>>
      BY <2>4, Zenon DEF ConnBrOccupy
    <3>2. /\ todo'[n].neg = todo[n].neg /\ todo'[n].release = IF present[n] THEN 1 ELSE 0
          /\ \A m \in Nodes : m # n => todo'[m] = todo[m] /\ occupied'[m] = occupied[m]
      BY <1>0, <3>1, SMTT(60) DEF LooperMessages, TypeOK
    <3> QED
      BY <1>2, <3>1, <3>2 DEF Timed, Same
  <2> QED
    BY <1>7, <2>1, <2>2, <2>3, <2>4, Zenon DEF ThreadStep
<1>8. CASE UserStep(n)
  <2>1. CASE BrConnectDevice(n)
    <3>1. UNCHANGED <<present, occupied>>
          /\ (NotifyUpdateConnectionRc(n, 1, 1, todo) \/ UNCHANGED <<state, todo>>)
      BY <2>1, Zenon DEF BrConnectDevice
    <3>2. CASE NotifyUpdateConnectionRc(n, 1, 1, todo)
      BY <1>0, <1>2, <3>1, <3>2, NotifyTimed, SMTT(60)
    <3> QED
      BY <1>3, <3>1, <3>2, SMTT(60)
  <2>2. CASE DisconnectRequest(n)
    <3>1. BrUpdateConnectionRc(n, -1, todo) /\ UNCHANGED <<present, occupied>>
      BY <2>2, SMTT(60) DEF DisconnectRequest
    <3> QED
      BY <1>0, <1>2, <3>1, UpdateTimed, Zenon
  <2>3. CASE BrCheckActiveConnection(n)
    BY <1>3, <2>3, Zenon DEF BrCheckActiveConnection
  <2> QED
    BY <1>8, <2>1, <2>2, <2>3 DEF UserStep
<1> QED
  BY <1>1, <1>4, <1>5, <1>6, <1>7, <1>8, Zenon

\* The invariant of the timers.
LEMMA TimersInvariant == Spec => []Timers
<1>1. TypeOK /\ Timers /\ [Next]_vars => TypeOK' /\ Timers'
  BY NextType, NextTimers, Zenon
<1> QED
  BY <1>1, InitType, InitTimers, PTL DEF Spec

\* A connection that resumed, or never began to close, has no closing timeout in
\* its looper: none that was posted outlives the negotiation it belongs to.
THEOREM TimeoutIsCurrent == Spec => []NoStaleTimeout
<1>1. Timers => NoStaleTimeout
  BY Zenon DEF Timers
<1> QED
  BY <1>1, TimersInvariant, PTL

\* A connection that negotiates its closing always has the timeout that ends it.
THEOREM NegotiationIsTimed == Spec => []ClosingIsTimed
<1>1. Timers => ClosingIsTimed
  BY Zenon DEF Timers
<1> QED
  BY <1>1, TimersInvariant, PTL

\* An occupied connection always has its release scheduled.
THEOREM OccupationIsTimed == Spec => []OccupiedIsTimed
<1>1. Timers => OccupiedIsTimed
  BY Zenon DEF Timers
<1> QED
  BY <1>1, TimersInvariant, PTL

----------------------------------------------------------------------------
(* The accounting: what the frames of a queue add up to.                   *)

\* The positions of a queue that carry a change of d.
With(q, d) == {i \in DOMAIN q : q[i].delta = d}

\* The sum of the frames as a difference of two cardinalities.
LEMMA CarriedWith == \A q : Carried(q) = Cardinality(With(q, 1)) - Cardinality(With(q, -1))
BY DEF Carried, With

\* The sets counted are finite.
LEMMA WithFinite ==
    ASSUME NEW q \in Seq(Frames), NEW d
    PROVE  IsFiniteSet(With(q, d)) /\ Cardinality(With(q, d)) \in Nat
<1>1. IsFiniteSet(1..Len(q))
  BY FS_Interval
<1>2. With(q, d) \in SUBSET (1..Len(q))
  BY DEF With
<1> QED
  BY <1>1, <1>2, FS_Subset, FS_CardinalityType

\* The sum is an integer.
LEMMA CarriedType == \A q \in Seq(Frames) : Carried(q) \in Int
BY CarriedWith, WithFinite

\* An empty queue carries nothing.
LEMMA CarriedEmpty == Carried(<<>>) = 0
<1>1. With(<<>>, 1) = {} /\ With(<<>>, -1) = {}
  BY DEF With
<1> QED
  BY <1>1, CarriedWith, FS_EmptySet

\* A frame at the end adds its change.
LEMMA CarriedAppend ==
    ASSUME NEW q \in Seq(Frames), NEW m \in Frames
    PROVE  Carried(Append(q, m)) = Carried(q) + m.delta
<1> DEFINE r == Append(q, m)
<1>1. ASSUME NEW d \in {-1, 1}
      PROVE  Cardinality(With(r, d)) = Cardinality(With(q, d)) + (IF m.delta = d THEN 1 ELSE 0)
  <2>1. /\ DOMAIN q = 1..Len(q) /\ DOMAIN r = 1..(Len(q) + 1) /\ Len(q) \in Nat
        /\ r[Len(q) + 1] = m
        /\ \A i \in 1..Len(q) : r[i] = q[i]
    OBVIOUS
  <2> HIDE DEF r
  <2>2. CASE m.delta = d
    <3>1. With(r, d) = With(q, d) \cup {Len(q) + 1} /\ Len(q) + 1 \notin With(q, d)
      BY <2>1, <2>2 DEF With
    <3> QED
      BY <2>2, <3>1, WithFinite, FS_AddElement, ZenonT(60)
  <2>3. CASE m.delta # d
    <3>1. With(r, d) = With(q, d)
      BY <2>1, <2>3 DEF With
    <3> QED
      BY <2>3, <3>1, WithFinite
  <2> QED
    BY <2>2, <2>3
<1>2. m.delta \in {-1, 0, 1}
  BY DEF Frames
<1>3. /\ Cardinality(With(q, 1)) \in Nat /\ Cardinality(With(q, -1)) \in Nat
  BY WithFinite
<1>4. /\ Cardinality(With(r, 1)) = Cardinality(With(q, 1)) + (IF m.delta = 1 THEN 1 ELSE 0)
      /\ Cardinality(With(r, -1)) = Cardinality(With(q, -1)) + (IF m.delta = -1 THEN 1 ELSE 0)
  BY <1>1
<1> HIDE DEF r
<1>5. Carried(r) = Carried(q) + m.delta
  BY <1>2, <1>3, <1>4, CarriedWith
<1> QED
  BY <1>5 DEF r

\* Taking the first frame takes its change away.
LEMMA CarriedTail ==
    ASSUME NEW q \in Seq(Frames), q # <<>>
    PROVE  Carried(Tail(q)) = Carried(q) - Head(q).delta
<1> DEFINE r == Tail(q)
<1>0. r \in Seq(Frames) /\ Head(q) = q[1] /\ Head(q) \in Frames
  OBVIOUS
<1>1. ASSUME NEW d \in {-1, 1}
      PROVE  Cardinality(With(r, d)) = Cardinality(With(q, d)) - (IF Head(q).delta = d THEN 1 ELSE 0)
  <2>1. /\ Len(q) \in Nat /\ Len(q) > 0
        /\ DOMAIN q = 1..Len(q) /\ DOMAIN r = 1..(Len(q) - 1)
        /\ \A i \in 1..(Len(q) - 1) : r[i] = q[i + 1]
    OBVIOUS
  <2> HIDE DEF r
  <2> DEFINE later == With(q, d) \ {1}
             f == [i \in With(r, d) |-> i + 1]
  <2>2. f \in [With(r, d) -> later]
    BY <2>1 DEF With
  <2>3. \A i, j \in With(r, d) : f[i] = f[j] => i = j
    BY <2>1 DEF With
  <2>4. \A t \in later : \E i \in With(r, d) : f[i] = t
    <3> SUFFICES ASSUME NEW t \in later
                 PROVE  t - 1 \in With(r, d) /\ f[t - 1] = t
      BY Zenon
    <3> QED
      BY <2>1 DEF With
  <2>5. ExistsBijection(With(r, d), later)
    <3> HIDE DEF f, later
    <3>1. f \in Bijection(With(r, d), later)
      BY <2>2, <2>3, <2>4, Fun_IsBij
    <3> QED
      BY <3>1 DEF ExistsBijection
  <2>6. Cardinality(later) = Cardinality(With(r, d))
    BY <1>0, <2>5, WithFinite, FS_Bijection
  <2>7. 1 \in With(q, d) <=> Head(q).delta = d
    BY <1>0, <2>1 DEF With
  <2>8. /\ IsFiniteSet(With(q, d)) /\ Cardinality(With(q, d)) \in Nat
    BY WithFinite
  <2>9. Cardinality(later) =
            IF 1 \in With(q, d) THEN Cardinality(With(q, d)) - 1 ELSE Cardinality(With(q, d))
    BY <2>8, FS_RemoveElement, Zenon
  <2> HIDE DEF later
  <2> QED
    BY <2>6, <2>7, <2>8, <2>9
<1>2. Head(q).delta \in {-1, 0, 1}
  BY <1>0 DEF Frames
<1>3. /\ Cardinality(With(q, 1)) \in Nat /\ Cardinality(With(q, -1)) \in Nat
  BY WithFinite
<1>4. /\ Cardinality(With(r, 1)) = Cardinality(With(q, 1)) - (IF Head(q).delta = 1 THEN 1 ELSE 0)
      /\ Cardinality(With(r, -1)) = Cardinality(With(q, -1)) - (IF Head(q).delta = -1 THEN 1 ELSE 0)
  BY <1>1
<1> HIDE DEF r
<1>5. Carried(r) = Carried(q) - Head(q).delta
  BY <1>2, <1>3, <1>4, CarriedWith
<1> QED
  BY <1>5 DEF r

\* k frames of the same change at the end add it k times.
LEMMA CarriedConcat ==
    ASSUME NEW q \in Seq(Frames), NEW d \in {-1, 0, 1}, NEW k \in Nat,
           NEW new \in Seq(Frames), Len(new) = k, \A i \in 1..k : new[i].delta = d
    PROVE  Carried(q \o new) = Carried(q) + k * d
<1> DEFINE r == q \o new
           added == (Len(q) + 1)..(Len(q) + k)
<1>1. /\ Len(q) \in Nat /\ DOMAIN q = 1..Len(q) /\ DOMAIN r = 1..(Len(q) + k)
      /\ \A i \in 1..Len(q) : r[i] = q[i]
      /\ \A i \in added : r[i] = new[i - Len(q)]
  OBVIOUS
<1>2. \A i \in added : r[i].delta = d
  BY <1>1
<1> HIDE DEF r
<1>3. IsFiniteSet(added) /\ Cardinality(added) = k
  BY <1>1, FS_Interval
<1>4. ASSUME NEW e \in {-1, 1}
      PROVE  Cardinality(With(r, e)) = Cardinality(With(q, e)) + (IF d = e THEN k ELSE 0)
  <2>1. CASE d = e
    <3>1. With(r, e) = With(q, e) \cup added /\ With(q, e) \cap added = {}
      BY <1>1, <1>2, <2>1 DEF With
    <3>2. Cardinality(With(q, e) \cap added) = 0
      BY <3>1, FS_EmptySet, Zenon
    <3>3. Cardinality(With(q, e) \cup added) =
              Cardinality(With(q, e)) + Cardinality(added) - Cardinality(With(q, e) \cap added)
      BY <1>3, WithFinite, FS_Union, ZenonT(60)
    <3> HIDE DEF added
    <3> QED
      BY <1>3, <2>1, <3>1, <3>2, <3>3, WithFinite
  <2>2. CASE d # e
    <3>1. With(r, e) = With(q, e)
      BY <1>1, <1>2, <2>2 DEF With
    <3> QED
      BY <2>2, <3>1, WithFinite
  <2> QED
    BY <2>1, <2>2
<1>5. Cardinality(With(q, 1)) \in Nat /\ Cardinality(With(q, -1)) \in Nat
  BY WithFinite
<1>6. /\ Cardinality(With(r, 1)) = Cardinality(With(q, 1)) + (IF d = 1 THEN k ELSE 0)
      /\ Cardinality(With(r, -1)) = Cardinality(With(q, -1)) + (IF d = -1 THEN k ELSE 0)
  BY <1>4
<1>7. k * d = IF d = 1 THEN k ELSE IF d = -1 THEN -k ELSE 0
  OBVIOUS
<1>8. Carried(r) = Carried(q) + k * d
  BY <1>5, <1>6, <1>7, CarriedWith
<1> QED
  BY <1>8 DEF r

----------------------------------------------------------------------------
(* The two ends.                                                           *)

\* The peer of a node is the other node.
LEMMA PeerFacts ==
    ASSUME NEW n \in Nodes
    PROVE  /\ Peer(n) \in Nodes /\ Peer(n) # n /\ Peer(Peer(n)) = n
           /\ \A m \in Nodes : m = n \/ m = Peer(n)
BY ReferenceAssumption DEF Nodes, Peer

\* What the counts have to agree with.
Owed == Outstanding + todo[Client].local + todo[Server].local

\* What is owed, with the two ends named from one of them.
LEMMA OwedAt ==
    ASSUME TypeOK, NEW n \in Nodes
    PROVE  /\ Owed = 1 + acquired[n] + acquired[Peer(n)] - released[n] - released[Peer(n)]
                       + todo[n].local + todo[Peer(n)].local
           /\ Owed \in Int
<1>1. /\ acquired[Client] \in Nat /\ acquired[Server] \in Nat
      /\ released[Client] \in Nat /\ released[Server] \in Nat
  BY DEF TypeOK, Nodes
<1>2. todo[Client].local \in Nat /\ todo[Server].local \in Nat
  BY DEF TypeOK, Nodes, LooperMessages
<1>3. (n = Client /\ Peer(n) = Server) \/ (n = Server /\ Peer(n) = Client)
  BY ReferenceAssumption DEF Nodes, Peer
<1> QED
  BY <1>1, <1>2, <1>3 DEF Owed, Outstanding, Total

\* The queues a change passes through on its way to n.
LEMMA QueueTypes ==
    ASSUME TypeOK, NEW n \in Nodes
    PROVE  /\ rc \in [Nodes -> Int] /\ rc[n] \in Int /\ todo[n].local \in Nat
           /\ inbox[n] \in Seq(Frames) /\ todo[n].peer \in Seq(Frames)
           /\ sendq[n].high \in Seq(Frames) /\ sendq[n].low \in Seq(Frames)
           /\ Carried(inbox[n]) \in Int /\ Carried(todo[n].peer) \in Int
           /\ Carried(sendq[n].high) \in Int /\ Carried(sendq[n].low) \in Int
<1>1. /\ rc \in [Nodes -> Int] /\ rc[n] \in Int /\ todo[n].local \in Nat
      /\ inbox[n] \in Seq(Frames) /\ todo[n].peer \in Seq(Frames)
      /\ sendq[n].high \in Seq(Frames) /\ sendq[n].low \in Seq(Frames)
  BY Zenon DEF TypeOK, LooperMessages
<1> QED
  BY <1>1, CarriedType, Zenon

\* The invariant: an end whose socket is open still reads what arrives.
Reads == \A n \in Nodes : sock[n] => reading[n]
AInv == Accounting /\ Reads

\* The connection is intact if the link and both sockets are.
LEMMA IntactBy ==
    ASSUME NEW n \in Nodes
    PROVE  Intact <=> linkUp /\ sock[n] /\ sock[Peer(n)]
BY ReferenceAssumption DEF Intact, Nodes, Peer

\* What is to be shown of a step of n: the count of each end with what is on its
\* way to it, and what is owed, change by the same amount.
Balanced(n, d) ==
    LET p == Peer(n)
    IN  /\ rc'[n] + Carried(inbox'[n]) + Carried(todo'[n].peer)
             + Carried(sendq'[p].high) + Carried(sendq'[p].low)
           = rc[n] + Carried(inbox[n]) + Carried(todo[n].peer)
             + Carried(sendq[p].high) + Carried(sendq[p].low) + d
        /\ rc'[p] + Carried(inbox'[p]) + Carried(todo'[p].peer)
             + Carried(sendq'[n].high) + Carried(sendq'[n].low)
           = rc[p] + Carried(inbox[p]) + Carried(todo[p].peer)
             + Carried(sendq[n].high) + Carried(sendq[n].low) + d
        /\ acquired'[n] + acquired'[p] - released'[n] - released'[p]
             + todo'[n].local + todo'[p].local
           = acquired[n] + acquired[p] - released[n] - released[p]
             + todo[n].local + todo[p].local + d

\* A step that moves as much on both sides keeps the equation.
LEMMA Balance ==
    ASSUME TypeOK, TypeOK', Accounting, NEW n \in Nodes, NEW d \in Int,
           Intact' => Intact /\ Balanced(n, d)
    PROVE  Accounting'
<1> SUFFICES ASSUME Intact'
             PROVE  \A m \in Nodes : (rc[m] + Inbound(m) = Owed)'
  BY DEF Accounting, Owed
<1> DEFINE p == Peer(n)
<1>1. p \in Nodes /\ Peer(p) = n /\ \A m \in Nodes : m = n \/ m = p
  BY PeerFacts
<1>2. rc[n] + Inbound(n) = Owed /\ rc[p] + Inbound(p) = Owed
  BY <1>1 DEF Accounting, Owed
<1>3. /\ Owed = 1 + acquired[n] + acquired[p] - released[n] - released[p]
                   + todo[n].local + todo[p].local
      /\ Owed' = 1 + acquired'[n] + acquired'[p] - released'[n] - released'[p]
                    + todo'[n].local + todo'[p].local
      /\ Owed \in Int /\ Owed' \in Int
  <2>1. (Owed = 1 + acquired[n] + acquired[p] - released[n] - released[p]
                   + todo[n].local + todo[p].local /\ Owed \in Int)'
    BY OwedAt, PTL
  <2> QED
    BY <2>1, OwedAt
<1>4. /\ rc[n] \in Int /\ rc[p] \in Int /\ rc'[n] \in Int /\ rc'[p] \in Int
      /\ Inbound(n) = Carried(inbox[n]) + Carried(todo[n].peer)
                        + Carried(sendq[p].high) + Carried(sendq[p].low)
      /\ Inbound(p) = Carried(inbox[p]) + Carried(todo[p].peer)
                        + Carried(sendq[n].high) + Carried(sendq[n].low)
      /\ Inbound(n)' = Carried(inbox'[n]) + Carried(todo'[n].peer)
                        + Carried(sendq'[p].high) + Carried(sendq'[p].low)
      /\ Inbound(p)' = Carried(inbox'[p]) + Carried(todo'[p].peer)
                        + Carried(sendq'[n].high) + Carried(sendq'[n].low)
  BY <1>1 DEF Inbound, TypeOK
<1>5. \A m \in {n, p} :
        /\ Carried(inbox[m]) \in Int /\ Carried(todo[m].peer) \in Int
        /\ Carried(sendq[m].high) \in Int /\ Carried(sendq[m].low) \in Int
        /\ Carried(inbox'[m]) \in Int /\ Carried(todo'[m].peer) \in Int
        /\ Carried(sendq'[m].high) \in Int /\ Carried(sendq'[m].low) \in Int
  <2> SUFFICES ASSUME NEW m \in Nodes
               PROVE  /\ Carried(inbox[m]) \in Int /\ Carried(todo[m].peer) \in Int
                      /\ Carried(sendq[m].high) \in Int /\ Carried(sendq[m].low) \in Int
                      /\ Carried(inbox'[m]) \in Int /\ Carried(todo'[m].peer) \in Int
                      /\ Carried(sendq'[m].high) \in Int /\ Carried(sendq'[m].low) \in Int
    BY <1>1, ZenonT(60)
  <2>1. /\ inbox'[m] \in Seq(Frames) /\ todo'[m].peer \in Seq(Frames)
        /\ sendq'[m].high \in Seq(Frames) /\ sendq'[m].low \in Seq(Frames)
    BY Zenon DEF TypeOK, LooperMessages
  <2> QED
    BY <2>1, QueueTypes, CarriedType, Zenon
<1>6. /\ acquired[n] \in Nat /\ acquired[p] \in Nat /\ acquired'[n] \in Nat /\ acquired'[p] \in Nat
      /\ released[n] \in Nat /\ released[p] \in Nat /\ released'[n] \in Nat /\ released'[p] \in Nat
      /\ todo[n].local \in Nat /\ todo[p].local \in Nat
      /\ todo'[n].local \in Nat /\ todo'[p].local \in Nat
  BY <1>1, Zenon DEF TypeOK, LooperMessages
<1>7. Balanced(n, d)
  OBVIOUS
<1> HIDE DEF p
<1>8. Owed' = Owed + d
  <2>1. acquired'[n] + acquired'[p] - released'[n] - released'[p] + todo'[n].local + todo'[p].local
          = acquired[n] + acquired[p] - released[n] - released[p] + todo[n].local + todo[p].local + d
    BY <1>7, Zenon DEF Balanced, p
  <2> QED
    BY <1>3, <1>6, <2>1, SMTT(60)
<1>9. rc'[n] + Inbound(n)' = rc[n] + Inbound(n) + d
  <2>1. rc'[n] + Carried(inbox'[n]) + Carried(todo'[n].peer)
          + Carried(sendq'[p].high) + Carried(sendq'[p].low)
        = rc[n] + Carried(inbox[n]) + Carried(todo[n].peer)
          + Carried(sendq[p].high) + Carried(sendq[p].low) + d
    BY <1>7, Zenon DEF Balanced, p
  <2>2. PICK r \in Int, i \in Int, t \in Int, h \in Int, l \in Int :
          /\ r = rc'[n] /\ i = Carried(inbox'[n]) /\ t = Carried(todo'[n].peer)
          /\ h = Carried(sendq'[p].high) /\ l = Carried(sendq'[p].low)
    BY <1>4, <1>5, Zenon
  <2>3. PICK s \in Int, j \in Int, u \in Int, g \in Int, k \in Int :
          /\ s = rc[n] /\ j = Carried(inbox[n]) /\ u = Carried(todo[n].peer)
          /\ g = Carried(sendq[p].high) /\ k = Carried(sendq[p].low)
    BY <1>4, <1>5, Zenon
  <2>4. r + i + t + h + l = s + j + u + g + k + d
    BY ONLY <2>1, <2>2, <2>3, Zenon
  <2>5. r + (i + t + h + l) = s + (j + u + g + k) + d
    BY ONLY r \in Int, i \in Int, t \in Int, h \in Int, l \in Int, s \in Int, j \in Int,
            u \in Int, g \in Int, k \in Int, d \in Int, <2>4
  <2> QED
    BY ONLY <1>4, <2>2, <2>3, <2>5, Zenon
<1>10. rc'[p] + Inbound(p)' = rc[p] + Inbound(p) + d
  <2>1. rc'[p] + Carried(inbox'[p]) + Carried(todo'[p].peer)
          + Carried(sendq'[n].high) + Carried(sendq'[n].low)
        = rc[p] + Carried(inbox[p]) + Carried(todo[p].peer)
          + Carried(sendq[n].high) + Carried(sendq[n].low) + d
    BY <1>7, Zenon DEF Balanced, p
  <2>2. PICK r \in Int, i \in Int, t \in Int, h \in Int, l \in Int :
          /\ r = rc'[p] /\ i = Carried(inbox'[p]) /\ t = Carried(todo'[p].peer)
          /\ h = Carried(sendq'[n].high) /\ l = Carried(sendq'[n].low)
    BY <1>4, <1>5, Zenon
  <2>3. PICK s \in Int, j \in Int, u \in Int, g \in Int, k \in Int :
          /\ s = rc[p] /\ j = Carried(inbox[p]) /\ u = Carried(todo[p].peer)
          /\ g = Carried(sendq[n].high) /\ k = Carried(sendq[n].low)
    BY <1>4, <1>5, Zenon
  <2>4. r + i + t + h + l = s + j + u + g + k + d
    BY ONLY <2>1, <2>2, <2>3, Zenon
  <2>5. r + (i + t + h + l) = s + (j + u + g + k) + d
    BY ONLY r \in Int, i \in Int, t \in Int, h \in Int, l \in Int, s \in Int, j \in Int,
            u \in Int, g \in Int, k \in Int, d \in Int, <2>4
  <2> QED
    BY ONLY <1>4, <2>2, <2>3, <2>5, Zenon
<1> QED
  BY <1>1, <1>2, <1>8, <1>9, <1>10

----------------------------------------------------------------------------
(* What the handlers do to the counts and the queues of n.                 *)

\* n's count changes by dRc, the releases put off by dPeer and dLocal, and what
\* n has to send by dSend; nothing of the other end changes.
Moves(n, dRc, dPeer, dSend, dLocal) ==
    LET p == Peer(n)
    IN  /\ rc'[n] = rc[n] + dRc /\ rc'[p] = rc[p]
        /\ Carried(todo'[n].peer) = Carried(todo[n].peer) + dPeer
        /\ todo'[n].local = todo[n].local + dLocal
        /\ todo'[p] = todo[p] /\ sendq'[p] = sendq[p]
        /\ Carried(sendq'[n].high) + Carried(sendq'[n].low)
             = Carried(sendq[n].high) + Carried(sendq[n].low) + dSend

\* A change of the count by NotifyUpdateConnectionRc is put into the send queue as well.
LEMMA NotifyMoves ==
    ASSUME TypeOK, NEW n \in Nodes, NEW delta \in {-1, 0, 1}, NEW k \in Nat,
           NEW own \in [Nodes -> LooperMessages], NEW dLocal \in Int,
           own[n].peer = todo[n].peer, own[n].local = todo[n].local + dLocal,
           own[Peer(n)] = todo[Peer(n)],
           NotifyUpdateConnectionRc(n, delta, k, own)
    PROVE  Moves(n, k * delta, 0, k * delta, dLocal)
<1> DEFINE after == [i \in 1..k |-> rc[n] + i * delta]
           empty == {i \in 1..k : after[i] <= 0}
           new == [i \in 1..k |-> Request(delta, after[i])]
           d == k * delta
           flag == IF delta >= 0 THEN "high" ELSE "low"
           p == Peer(n)
<1>1. /\ rc' = [rc EXCEPT ![n] = rc[n] + d]
      /\ todo' = [own EXCEPT ![n].neg = own[n].neg + Cardinality(empty)]
      /\ sendq' = [sendq EXCEPT ![n][flag] = sendq[n][flag] \o new]
  BY DEF NotifyUpdateConnectionRc
<1>2. d \in Int /\ (flag = "high" \/ flag = "low")
  OBVIOUS
<1>3. new \in Seq(Frames) /\ Len(new) = k /\ \A i \in 1..k : new[i].delta = delta
  <2>1. \A i \in 1..k : i * delta \in Int
    OBVIOUS
  <2>2. \A i \in 1..k : after[i] \in Int
    <3>1. rc[n] \in Int
      BY Zenon DEF TypeOK
    <3> QED
      BY ONLY <2>1, <3>1
  <2>3. \A i \in 1..k : Request(delta, after[i]) \in Frames /\ Request(delta, after[i]).delta = delta
    <3> HIDE DEF after
    <3> QED
      BY <2>2, FrameTypes, ZenonT(60) DEF Request
  <2> HIDE DEF after
  <2> QED
    BY <2>3
<1>4. p \in Nodes /\ p # n
  BY PeerFacts
<1>5. /\ sendq[n].high \in Seq(Frames) /\ sendq[n].low \in Seq(Frames)
      /\ Carried(sendq[n].high) \in Int /\ Carried(sendq[n].low) \in Int
      /\ Carried(todo[n].peer) \in Int
  BY QueueTypes, Zenon
<1> HIDE DEF after, empty, new, d, flag, p
<1>6. Carried(sendq[n].high \o new) = Carried(sendq[n].high) + d
  BY <1>3, <1>5, CarriedConcat, ZenonT(60) DEF d
<1>7. Carried(sendq[n].low \o new) = Carried(sendq[n].low) + d
  BY <1>3, <1>5, CarriedConcat, ZenonT(60) DEF d
<1>8. rc'[n] = rc[n] + d /\ rc'[p] = rc[p]
  BY <1>1, <1>4 DEF TypeOK
<1>9. /\ todo'[n].peer = todo[n].peer /\ todo'[n].local = todo[n].local + dLocal
      /\ todo'[p] = todo[p]
  BY <1>1, <1>4 DEF LooperMessages, p
<1>10. /\ sendq'[p] = sendq[p]
       /\ Carried(sendq'[n].high) + Carried(sendq'[n].low)
             = Carried(sendq[n].high) + Carried(sendq[n].low) + d
  <2>0. sendq \in [Nodes -> SendQueue] /\ sendq[n] \in SendQueue
    BY DEF TypeOK, SendQueue
  <2>1. CASE flag = "high"
    <3>1. /\ sendq'[p] = sendq[p] /\ sendq'[n].low = sendq[n].low
          /\ sendq'[n].high = sendq[n].high \o new
      BY <1>1, <1>4, <2>0, <2>1, ZenonT(60) DEF SendQueue
    <3> QED
      BY <1>2, <1>5, <1>6, <3>1
  <2>2. CASE flag = "low"
    <3>1. /\ sendq'[p] = sendq[p] /\ sendq'[n].high = sendq[n].high
          /\ sendq'[n].low = sendq[n].low \o new
      BY <1>1, <1>4, <2>0, <2>2, ZenonT(60) DEF SendQueue
    <3> QED
      BY <1>2, <1>5, <1>7, <3>1
  <2> QED
    BY <1>2, <2>1, <2>2, SMTT(60)
<1> QED
  BY <1>5, <1>8, <1>9, <1>10, SMTT(60) DEF Moves, d, p

\* BrUpdateConnectionRc puts a release off, or changes the count and tells the peer.
LEMMA UpdateMoves ==
    ASSUME TypeOK, NEW n \in Nodes, NEW delta \in {-1, 0, 1},
           NEW own \in [Nodes -> LooperMessages], NEW dLocal \in Int,
           own[n].peer = todo[n].peer, own[n].local = todo[n].local + dLocal,
           own[Peer(n)] = todo[Peer(n)],
           BrUpdateConnectionRc(n, delta, own)
    PROVE  \/ delta = -1 /\ Moves(n, 0, 0, 0, dLocal + 1)
           \/ Moves(n, delta, 0, delta, dLocal)
<1>1. CASE delta < 0 /\ occupied[n]
  <2>1. todo' = [own EXCEPT ![n].local = own[n].local + 1] /\ UNCHANGED <<rc, sendq>>
    BY <1>1 DEF BrUpdateConnectionRc
  <2>2. Peer(n) \in Nodes /\ Peer(n) # n
    BY PeerFacts
  <2>3. /\ rc[n] \in Int /\ Carried(todo[n].peer) \in Int /\ todo[n].local \in Int
        /\ Carried(sendq[n].high) \in Int /\ Carried(sendq[n].low) \in Int
    BY QueueTypes, Sums, Zenon
  <2>4. /\ todo'[n].peer = todo[n].peer /\ todo'[n].local = todo[n].local + (dLocal + 1)
        /\ todo'[Peer(n)] = todo[Peer(n)]
    <3>1. /\ todo'[n].peer = own[n].peer /\ todo'[n].local = own[n].local + 1
          /\ todo'[Peer(n)] = own[Peer(n)]
      BY <2>1, <2>2 DEF LooperMessages
    <3> QED
      BY <2>3, <3>1
  <2>5. delta = -1
    BY <1>1
  <2> QED
    BY <2>1, <2>3, <2>4, <2>5 DEF Moves
<1>2. CASE ~(delta < 0 /\ occupied[n])
  <2>1. NotifyUpdateConnectionRc(n, delta, 1, own)
    BY <1>2 DEF BrUpdateConnectionRc
  <2>2. 1 \in Nat
    OBVIOUS
  <2>3. Moves(n, 1 * delta, 0, 1 * delta, dLocal)
    BY <2>1, <2>2, NotifyMoves, Zenon
  <2>4. 1 * delta = delta
    OBVIOUS
  <2> QED
    BY <2>3, <2>4, Zenon
<1> QED
  BY <1>1, <1>2

\* A release of the peer is put off, or applied; nothing else that is counted moves.
LEMMA RequestMoves ==
    ASSUME TypeOK, NEW n \in Nodes, NEW m \in Frames,
           NEW own \in [Nodes -> LooperMessages], NEW dPeer \in Int,
           Carried(own[n].peer) = Carried(todo[n].peer) + dPeer, own[n].local = todo[n].local,
           own[Peer(n)] = todo[Peer(n)],
           BrOnReferenceRequest(n, m, own)
    PROVE  Moves(n, 0, dPeer + m.delta, 0, 0) \/ Moves(n, m.delta, dPeer, 0, 0)
<1>0. /\ Peer(n) \in Nodes /\ Peer(n) # n
      /\ m.delta \in {-1, 0, 1} /\ own[n].peer \in Seq(Frames)
  BY PeerFacts, Zenon DEF LooperMessages, Frames
<1>1. /\ rc \in [Nodes -> Int] /\ rc[n] \in Int
      /\ Carried(todo[n].peer) \in Int /\ todo[n].local \in Int
      /\ sendq[n].high \in Seq(Frames)
      /\ Carried(sendq[n].high) \in Int /\ Carried(sendq[n].low) \in Int
  <2>1. \A i \in Nat : i \in Int
    OBVIOUS
  <2> QED
    BY <2>1, QueueTypes, Zenon
<1>2. CASE m.delta < 0 /\ occupied[n]
  <2>1. todo' = [own EXCEPT ![n].peer = Append(own[n].peer, m)] /\ UNCHANGED <<rc, sendq>>
    BY <1>2 DEF BrOnReferenceRequest
  <2>2. /\ todo'[n].peer = Append(own[n].peer, m) /\ todo'[n].local = todo[n].local
        /\ todo'[Peer(n)] = todo[Peer(n)]
    BY ONLY <1>0, <2>1, n \in Nodes, own \in [Nodes -> LooperMessages],
            own[n].local = todo[n].local, own[Peer(n)] = todo[Peer(n)],
            SMTT(60), ZenonT(60) DEF LooperMessages
  <2>3. Carried(todo'[n].peer) = Carried(own[n].peer) + m.delta
    BY <1>0, <2>2, CarriedAppend
  <2>4. Carried(todo'[n].peer) = Carried(todo[n].peer) + (dPeer + m.delta)
    <3>1. PICK a \in Int, c \in Int : a = Carried(todo[n].peer) /\ c = m.delta
      BY <1>0, <1>1, Sums, Zenon
    <3>2. (a + dPeer) + c = a + (dPeer + c)
      BY ONLY a \in Int, c \in Int, dPeer \in Int
    <3> QED
      BY <2>3, <3>1, <3>2, Zenon
  <2>5. /\ rc[n] = rc[n] + 0 /\ todo[n].local = todo[n].local + 0
        /\ Carried(sendq[n].high) + Carried(sendq[n].low)
             = Carried(sendq[n].high) + Carried(sendq[n].low) + 0
    BY ONLY <1>1, Sums, Zenon
  <2> QED
    BY <2>1, <2>2, <2>4, <2>5, Zenon DEF Moves
<1>3. CASE ~(m.delta < 0 /\ occupied[n])
  <2> DEFINE localRc == rc[n] + m.delta
             resume == Resumes(n, m.ref)
             retries == IF m.ref > 0 /\ localRc = 0 THEN own[n].retry + 1 ELSE own[n].retry
             negs == IF resume THEN 0 ELSE own[n].neg
             resumes == IF resume THEN own[n].resume + 1 ELSE own[n].resume
             high == IF m.ref <= 0 /\ localRc > 0
                     THEN Append(sendq[n].high, Response(localRc)) ELSE sendq[n].high
  <2>1. /\ rc' = [rc EXCEPT ![n] = localRc]
        /\ todo' = [own EXCEPT ![n].retry = retries, ![n].neg = negs, ![n].resume = resumes]
        /\ sendq' = [sendq EXCEPT ![n].high = high]
    BY <1>3 DEF BrOnReferenceRequest, NotifyReferenceRequest
  <2>2. Carried(high) = Carried(sendq[n].high)
    <3>1. localRc \in Int
      <4>1. \A a \in Int : \A b \in {-1, 0, 1} : a + b \in Int
        OBVIOUS
      <4> QED
        BY <1>0, <1>1, <4>1, Zenon
    <3>2. Response(localRc) \in Frames /\ Response(localRc).delta = 0
      BY <3>1, FrameTypes DEF Response
    <3>3. Carried(Append(sendq[n].high, Response(localRc))) = Carried(sendq[n].high) + 0
      <4> HIDE DEF localRc
      <4> QED
        BY <1>1, <3>2, CarriedAppend, ZenonT(60)
    <3> HIDE DEF localRc
    <3> QED
      BY <1>1, <3>3
  <2> HIDE DEF resume, retries, negs, resumes, high
  <2>3. rc'[n] = rc[n] + m.delta /\ rc'[Peer(n)] = rc[Peer(n)]
    BY <1>0, <1>1, <2>1
  <2>4. /\ todo'[n].peer = own[n].peer /\ todo'[n].local = todo[n].local
        /\ todo'[Peer(n)] = todo[Peer(n)]
    BY ONLY <1>0, <2>1, n \in Nodes, own \in [Nodes -> LooperMessages],
            own[n].local = todo[n].local, own[Peer(n)] = todo[Peer(n)],
            SMTT(60), ZenonT(60) DEF LooperMessages
  <2>5. /\ sendq'[n].high = high /\ sendq'[n].low = sendq[n].low
        /\ sendq'[Peer(n)] = sendq[Peer(n)]
    BY <1>0, <2>1 DEF TypeOK
  <2>6. /\ todo[n].local = todo[n].local + 0
        /\ Carried(sendq[n].high) + Carried(sendq[n].low)
             = Carried(sendq[n].high) + Carried(sendq[n].low) + 0
    BY ONLY <1>1, Sums, Zenon
  <2> QED
    BY <2>2, <2>3, <2>4, <2>5, <2>6, Zenon DEF Moves
<1> QED
  BY <1>2, <1>3

----------------------------------------------------------------------------
(* The link, once broken, stays broken.                                    *)

\* ConnBrDisconnectNow closes the socket and opens none.
LEMMA DisconnectNowBreaks ==
    ASSUME TypeOK, NEW n \in Nodes, NEW t, ConnBrDisconnectNow(n, t)
    PROVE  ~sock'[n] /\ \A m \in Nodes : sock'[m] => sock[m]
<1>1. sock \in [Nodes -> BOOLEAN]
  BY DEF TypeOK
<1> QED
  BY <1>1 DEF ConnBrDisconnectNow

Breaks ==
    /\ linkUp' => linkUp
    /\ \A m \in Nodes : sock'[m] => sock[m] /\ reading'[m] = reading[m]
    /\ \A m \in Nodes : reading'[m] => reading[m]

\* No step repairs the link, opens a socket, or ends the reading of an open one.
LEMMA NextBreaks == TypeOK /\ [Next]_vars => Breaks
<1> SUFFICES ASSUME TypeOK, [Next]_vars
             PROVE  Breaks
  OBVIOUS
<1>0. sock \in [Nodes -> BOOLEAN] /\ reading \in [Nodes -> BOOLEAN] /\ linkUp \in BOOLEAN
  BY DEF TypeOK
<1>1. ASSUME NEW n \in Nodes, FrameStep(n)
      PROVE  Breaks
  <2>1. linkUp' = linkUp /\ reading' = reading
    BY <1>1, SMTT(60) DEF FrameStep, ConnBrOnReferenceRequest, ConnBrOnReferenceResponse,
                ConnectionException
  <2>2. sock' = sock \/ ConnBrDisconnectNow(n, "looper")
    BY <1>1, ZenonT(60) DEF FrameStep, ConnBrOnReferenceRequest, ConnBrOnReferenceResponse,
                ConnectionException, BrOnReferenceRequest, NotifyReferenceRequest
  <2> QED
    BY <2>1, <2>2, DisconnectNowBreaks, Zenon DEF Breaks
<1>2. ASSUME NEW n \in Nodes, TimerStep(n)
      PROVE  Breaks
  <2>1. linkUp' = linkUp /\ reading' = reading
    BY <1>2 DEF TimerStep, ConnectionResume, RetryNotifyReferenceHandler,
                WaitNegotiationClosingTimeoutHandler, BrOnOccupyRelease
  <2>2. sock' = sock \/ ConnBrDisconnectNow(n, "looper")
    BY <1>2 DEF TimerStep, ConnectionResume, RetryNotifyReferenceHandler,
                WaitNegotiationClosingTimeoutHandler, BrOnOccupyRelease
  <2> QED
    BY <2>1, <2>2, DisconnectNowBreaks, Zenon DEF Breaks
<1>3. ASSUME NEW n \in Nodes, PutOffStep(n)
      PROVE  Breaks
  <2>1. linkUp' = linkUp /\ reading' = reading
    BY <1>3, SMTT(60) DEF PutOffStep, UpdateLocalRc, UpdatePeerRc
  <2>2. sock' = sock \/ ConnBrDisconnectNow(n, "looper")
    BY <1>3, Zenon DEF PutOffStep, UpdateLocalRc, UpdatePeerRc, BrOnReferenceRequest,
                NotifyReferenceRequest
  <2> QED
    BY <2>1, <2>2, DisconnectNowBreaks, Zenon DEF Breaks
<1>4. ASSUME NEW n \in Nodes, ThreadStep(n)
      PROVE  Breaks
  <2>1. CASE DisconnectDone(n) \/ ConnBrOccupy(n)
    <3>1. sock' = sock /\ reading' = reading /\ (linkUp' => linkUp)
      BY <2>1 DEF DisconnectDone, ConnBrOccupy
    <3> QED
      BY <3>1, Zenon DEF Breaks
  <2>2. CASE SendHandlerLoop(n)
    <3>1. linkUp' = linkUp /\ reading' = reading
      BY <2>2 DEF SendHandlerLoop
    <3>2. sock' = sock \/ ConnBrDisconnectNow(n, "sender")
      BY <2>2 DEF SendHandlerLoop
    <3> QED
      BY <3>1, <3>2, DisconnectNowBreaks, Zenon DEF Breaks
  <2>3. CASE LoopReadExit(n)
    BY <1>0, <2>3, ZenonT(60) DEF LoopReadExit, Breaks
  <2> QED
    BY <1>4, <2>1, <2>2, <2>3 DEF ThreadStep
<1>5. ASSUME NEW n \in Nodes, UserStep(n)
      PROVE  Breaks
  <2>1. linkUp' = linkUp /\ reading' = reading /\ sock' = sock
    BY <1>5, Zenon DEF UserStep, BrConnectDevice, DisconnectRequest, BrCheckActiveConnection
  <2> QED
    BY <2>1, Zenon DEF Breaks
<1>6. CASE LinkLost \/ UNCHANGED vars
  <2>1. sock' = sock /\ reading' = reading /\ (linkUp' => linkUp)
    BY <1>6 DEF LinkLost, vars, conn
  <2> QED
    BY <2>1, Zenon DEF Breaks
<1> QED
  BY <1>1, <1>2, <1>3, <1>4, <1>5, <1>6 DEF Next

\* Every step keeps open sockets read, and none makes the connection intact again.
LEMMA NextReads == TypeOK /\ Reads /\ [Next]_vars => Reads' /\ (Intact' => Intact)
BY NextBreaks DEF Breaks, Reads, Intact, Nodes

----------------------------------------------------------------------------
(* Every step is balanced.                                                 *)

\* What the step adds to the frames on their way to n and to its peer, and to the
\* references the users of n hold.
Passes(n, dIn, dOut, dUse) ==
    LET p == Peer(n)
    IN  /\ Carried(inbox'[n]) = Carried(inbox[n]) + dIn
        /\ Carried(inbox'[p]) = Carried(inbox[p]) + dOut
        /\ acquired'[n] - released'[n] = acquired[n] - released[n] + dUse
        /\ acquired'[p] = acquired[p] /\ released'[p] = released[p]

\* A step whose changes add up keeps the equation.
LEMMA MovesBalance ==
    ASSUME TypeOK, TypeOK', Accounting, Intact' => Intact, NEW n \in Nodes,
           NEW dRc \in Int, NEW dPeer \in Int, NEW dSend \in Int, NEW dLocal \in Int,
           NEW dIn \in Int, NEW dOut \in Int, NEW dUse \in Int,
           Moves(n, dRc, dPeer, dSend, dLocal), Passes(n, dIn, dOut, dUse),
           dRc + dPeer + dIn = dOut + dSend, dUse + dLocal = dOut + dSend
    PROVE  Accounting'
<1> DEFINE p == Peer(n)
           d == dOut + dSend
<1>0. /\ dRc \in Int /\ dPeer \in Int /\ dSend \in Int /\ dLocal \in Int
      /\ dIn \in Int /\ dOut \in Int /\ dUse \in Int
  OBVIOUS
<1>1. d \in Int /\ dRc + dPeer + dIn = d /\ dUse + dLocal = d
  OBVIOUS
<1>2. /\ rc[n] \in Int /\ rc[p] \in Int /\ todo[n].local \in Int /\ todo[p].local \in Int
      /\ Carried(inbox[n]) \in Int /\ Carried(inbox[p]) \in Int
      /\ Carried(todo[n].peer) \in Int /\ Carried(todo[p].peer) \in Int
      /\ Carried(sendq[n].high) \in Int /\ Carried(sendq[n].low) \in Int
      /\ Carried(sendq[p].high) \in Int /\ Carried(sendq[p].low) \in Int
  <2>1. p \in Nodes
    BY PeerFacts
  <2> HIDE DEF p
  <2>2. /\ rc[p] \in Int /\ todo[p].local \in Nat /\ Carried(inbox[p]) \in Int
        /\ Carried(todo[p].peer) \in Int
        /\ Carried(sendq[p].high) \in Int /\ Carried(sendq[p].low) \in Int
    BY <2>1, QueueTypes
  <2>3. /\ rc[n] \in Int /\ todo[n].local \in Nat /\ Carried(inbox[n]) \in Int
        /\ Carried(todo[n].peer) \in Int
        /\ Carried(sendq[n].high) \in Int /\ Carried(sendq[n].low) \in Int
    BY QueueTypes
  <2> QED
    BY <2>2, <2>3
<1>3. Carried(sendq'[n].high) \in Int /\ Carried(sendq'[n].low) \in Int
  <2>1. sendq'[n].high \in Seq(Frames) /\ sendq'[n].low \in Seq(Frames)
    BY ZenonT(60) DEF TypeOK
  <2> QED
    BY <2>1, CarriedType, ZenonT(60)
<1>4. /\ acquired[n] \in Int /\ released[n] \in Int /\ acquired'[n] \in Int /\ released'[n] \in Int
      /\ acquired[p] \in Int /\ released[p] \in Int
  BY PeerFacts DEF TypeOK
<1>5. /\ rc'[n] = rc[n] + dRc /\ rc'[p] = rc[p]
      /\ Carried(todo'[n].peer) = Carried(todo[n].peer) + dPeer
      /\ todo'[n].local = todo[n].local + dLocal
      /\ todo'[p] = todo[p] /\ sendq'[p] = sendq[p]
      /\ Carried(sendq'[n].high) + Carried(sendq'[n].low)
           = Carried(sendq[n].high) + Carried(sendq[n].low) + dSend
  BY Zenon DEF Moves
<1>6. /\ Carried(inbox'[n]) = Carried(inbox[n]) + dIn
      /\ Carried(inbox'[p]) = Carried(inbox[p]) + dOut
      /\ acquired'[n] - released'[n] = acquired[n] - released[n] + dUse
      /\ acquired'[p] = acquired[p] /\ released'[p] = released[p]
  BY Zenon DEF Passes
<1>7. d = dOut + dSend
  BY SMTT(60)
<1> HIDE DEF p, d
<1>8. rc'[n] + Carried(inbox'[n]) + Carried(todo'[n].peer)
        + Carried(sendq'[p].high) + Carried(sendq'[p].low)
      = rc[n] + Carried(inbox[n]) + Carried(todo[n].peer)
        + Carried(sendq[p].high) + Carried(sendq[p].low) + d
  <2>1. PICK r \in Int, i \in Int, t \in Int, h \in Int, l \in Int :
          /\ r = rc[n] /\ i = Carried(inbox[n]) /\ t = Carried(todo[n].peer)
          /\ h = Carried(sendq[p].high) /\ l = Carried(sendq[p].low)
    BY ONLY <1>2, Zenon
  <2>2. (r + dRc) + (i + dIn) + (t + dPeer) + h + l = r + i + t + h + l + d
    BY ONLY r \in Int, i \in Int, t \in Int, h \in Int, l \in Int, <1>0, <1>1
  <2> QED
    BY ONLY <1>5, <1>6, <2>1, <2>2, Zenon
<1>9. rc'[p] + Carried(inbox'[p]) + Carried(todo'[p].peer)
        + Carried(sendq'[n].high) + Carried(sendq'[n].low)
      = rc[p] + Carried(inbox[p]) + Carried(todo[p].peer)
        + Carried(sendq[n].high) + Carried(sendq[n].low) + d
  <2>1. PICK r \in Int, i \in Int, t \in Int, h \in Int, l \in Int :
          /\ r = rc[p] /\ i = Carried(inbox[p]) /\ t = Carried(todo[p].peer)
          /\ h = Carried(sendq[n].high) /\ l = Carried(sendq[n].low)
    BY ONLY <1>2, Zenon
  <2>2. PICK a \in Int, b \in Int : a = Carried(sendq'[n].high) /\ b = Carried(sendq'[n].low)
    BY ONLY <1>3, Zenon
  <2>3. a + b = h + l + dSend
    BY ONLY <1>5, <2>1, <2>2, Zenon
  <2>4. r + (i + dOut) + t + a + b = r + i + t + h + l + d
    BY ONLY r \in Int, i \in Int, t \in Int, h \in Int, l \in Int, a \in Int, b \in Int,
            <1>0, <1>7, <2>3
  <2> QED
    BY ONLY <1>5, <1>6, <2>1, <2>2, <2>4, Zenon
<1>10. acquired'[n] + acquired'[p] - released'[n] - released'[p]
         + todo'[n].local + todo'[p].local
       = acquired[n] + acquired[p] - released[n] - released[p]
         + todo[n].local + todo[p].local + d
  <2>1. PICK a \in Int, r \in Int, ap \in Int, rp \in Int, t \in Int, tp \in Int :
          /\ a = acquired[n] /\ r = released[n] /\ ap = acquired[p] /\ rp = released[p]
          /\ t = todo[n].local /\ tp = todo[p].local
    BY ONLY <1>2, <1>4, Zenon
  <2>2. PICK b \in Int, s \in Int : b = acquired'[n] /\ s = released'[n]
    BY ONLY <1>4, Zenon
  <2>3. b - s = a - r + dUse
    BY ONLY <1>6, <2>1, <2>2, Zenon
  <2>4. b + ap - s - rp + (t + dLocal) + tp = a + ap - r - rp + t + tp + d
    BY ONLY a \in Int, r \in Int, ap \in Int, rp \in Int, t \in Int, tp \in Int,
            b \in Int, s \in Int, <1>0, <1>1, <2>3
  <2> QED
    BY ONLY <1>5, <1>6, <2>1, <2>2, <2>4, Zenon
<1>11. Balanced(n, d)
  BY <1>8, <1>9, <1>10, Zenon DEF Balanced, p
<1> QED
  BY <1>1, <1>11, Balance

\* A step that leaves the counts, the send queues and the put-off updates alone.
LEMMA QuietMoves ==
    ASSUME TypeOK, NEW n \in Nodes, UNCHANGED <<rc, sendq>>,
           todo'[n].peer = todo[n].peer, todo'[n].local = todo[n].local,
           todo'[Peer(n)] = todo[Peer(n)]
    PROVE  Moves(n, 0, 0, 0, 0)
<1>1. /\ rc[n] \in Int /\ todo[n].local \in Int /\ Carried(todo[n].peer) \in Int
      /\ Carried(sendq[n].high) \in Int /\ Carried(sendq[n].low) \in Int
  BY QueueTypes
<1> QED
  BY <1>1 DEF Moves

\* A step that leaves the link and the users alone.
LEMMA QuietPasses ==
    ASSUME TypeOK, NEW n \in Nodes, UNCHANGED <<inbox, acquired, released>>
    PROVE  Passes(n, 0, 0, 0)
<1>1. /\ Carried(inbox[n]) \in Int /\ Carried(inbox[Peer(n)]) \in Int
      /\ acquired[n] \in Int /\ released[n] \in Int
  <2>1. Peer(n) \in Nodes /\ acquired[n] \in Int /\ released[n] \in Int
    BY PeerFacts DEF TypeOK
  <2> QED
    BY <2>1, QueueTypes
<1> QED
  BY <1>1 DEF Passes

\* The types of the looper messages and of the link.
LEMMA QueueShapes ==
    ASSUME TypeOK
    PROVE  todo \in [Nodes -> LooperMessages] /\ inbox \in [Nodes -> Seq(Frames)]
BY DEF TypeOK

\* Closing the socket of n, or the link, ends the accounting.
LEMMA BrokenAccounting ==
    ASSUME NEW n \in Nodes, ~sock'[n] \/ ~linkUp'
    PROVE  Accounting'
BY SMTT(60) DEF Accounting, Intact, Nodes

\* Taking the first frame from the link, and the messages a looper takes.
LEMMA ReceivedPasses ==
    ASSUME TypeOK, NEW n \in Nodes, inbox[n] # <<>>, inbox' = Received(n),
           UNCHANGED <<acquired, released>>
    PROVE  /\ Head(inbox[n]) \in Frames /\ Head(inbox[n]).delta \in {-1, 0, 1}
           /\ Passes(n, -Head(inbox[n]).delta, 0, 0)
<1>1. Peer(n) \in Nodes /\ Peer(n) # n /\ acquired[n] \in Int /\ released[n] \in Int
  BY PeerFacts, SMTT(60) DEF TypeOK
<1>2. /\ inbox[n] \in Seq(Frames)
      /\ Carried(inbox[n]) \in Int /\ Carried(inbox[Peer(n)]) \in Int
  BY <1>1, QueueTypes, SMTT(60)
<1>3. Head(inbox[n]) \in Frames
  BY <1>2
<1>4. Head(inbox[n]).delta \in {-1, 0, 1}
  BY <1>3 DEF Frames
<1>5. inbox'[n] = Tail(inbox[n]) /\ inbox'[Peer(n)] = inbox[Peer(n)]
  BY <1>1, QueueShapes DEF Received
<1>6. Carried(inbox'[n]) = Carried(inbox[n]) - Head(inbox[n]).delta
  BY <1>2, <1>5, CarriedTail, SMTT(60)
<1>7. /\ Carried(inbox'[n]) = Carried(inbox[n]) + (-Head(inbox[n]).delta)
      /\ Carried(inbox'[Peer(n)]) = Carried(inbox[Peer(n)]) + 0
      /\ acquired'[n] - released'[n] = acquired[n] - released[n] + 0
  <2>1. Head(inbox[n]).delta \in Int
    BY ONLY <1>4
  <2> QED
    BY <1>1, <1>2, <1>5, <1>6, <2>1, Sums, Zenon
<1> QED
  BY <1>3, <1>4, <1>7, Zenon DEF Passes

\* Taking a message from the looper leaves the put-off updates of other kinds alone.
LEMMA TakenKeeps ==
    ASSUME TypeOK, NEW n \in Nodes,
           NEW kind \in {"neg", "retry", "release", "local", "resume"}, Take(n, kind)
    PROVE  /\ Taken(n, kind) \in [Nodes -> LooperMessages]
           /\ Taken(n, kind)[n].peer = todo[n].peer
           /\ kind # "local" => Taken(n, kind)[n].local = todo[n].local
           /\ Taken(n, "local")[n].local = todo[n].local - 1
           /\ Taken(n, kind)[Peer(n)] = todo[Peer(n)]
<1>1. Peer(n) \in Nodes /\ Peer(n) # n
  BY PeerFacts
<1>2. Taken(n, kind) \in [Nodes -> LooperMessages]
  BY TakenType
<1>3. /\ Taken(n, kind)[n].peer = todo[n].peer
      /\ kind # "local" => Taken(n, kind)[n].local = todo[n].local
  BY QueueShapes DEF Taken, LooperMessages
<1>4. Taken(n, "local")[n].local = todo[n].local - 1
  BY QueueShapes DEF Taken, LooperMessages
<1>5. Taken(n, kind)[Peer(n)] = todo[Peer(n)]
  BY <1>1, QueueShapes DEF Taken
<1> QED
  BY <1>2, <1>3, <1>4, <1>5, SMTT(60)

\* n changes its count by c and announces it, its users or the releases put off
\* having changed by as much; or n takes a change of the peer, to apply it or to put
\* it off.
Changes(n) ==
    \E c, u, l \in Int : Moves(n, c, 0, c, l) /\ Passes(n, 0, 0, u) /\ u + l = c
Takes(n) ==
    \E r, q, c \in Int : Moves(n, r, q, 0, 0) /\ Passes(n, c, 0, 0) /\ r + q + c = 0

\* A change that n makes and announces; a release that n puts off or takes up again.
LEMMA IsChange ==
    ASSUME NEW n, NEW c \in Int, NEW u \in Int, NEW l \in Int,
           Moves(n, c, 0, c, l), Passes(n, 0, 0, u), u + l = c
    PROVE  Changes(n)
BY Zenon DEF Changes

\* A change of the peer that n takes from the link.
LEMMA IsTake ==
    ASSUME NEW n, NEW r \in Int, NEW q \in Int, NEW c \in Int,
           Moves(n, r, q, 0, 0), Passes(n, c, 0, 0), r + q + c = 0
    PROVE  Takes(n)
BY Zenon DEF Takes

\* A step that changes nothing that counts.
LEMMA IsQuiet ==
    ASSUME NEW n, Moves(n, 0, 0, 0, 0), Passes(n, 0, 0, 0)
    PROVE  Changes(n)
<1>1. 0 \in Int /\ 0 + 0 = 0
  OBVIOUS
<1> QED
  BY <1>1, Zenon DEF Changes

\* The equation survives both.
LEMMA ChangeAccounting ==
    ASSUME TypeOK, TypeOK', Accounting, Intact' => Intact, NEW n \in Nodes,
           Changes(n) \/ Takes(n)
    PROVE  Accounting'
<1>0. 0 \in Int /\ 0 + 0 = 0
  OBVIOUS
<1>1. CASE Changes(n)
  <2>1. PICK c \in Int, u \in Int, l \in Int :
           Moves(n, c, 0, c, l) /\ Passes(n, 0, 0, u) /\ u + l = c
    BY <1>1, Zenon DEF Changes
  <2>2. c + 0 + 0 = 0 + c /\ u + l = 0 + c
    BY <2>1
  <2> QED
    BY <1>0, <2>1, <2>2, MovesBalance, ZenonT(60)
<1>2. CASE Takes(n)
  <2>1. PICK r \in Int, q \in Int, c \in Int :
           Moves(n, r, q, 0, 0) /\ Passes(n, c, 0, 0) /\ r + q + c = 0
    BY <1>2, Zenon DEF Takes
  <2>2. r + q + c = 0 + 0
    BY <2>1
  <2> QED
    BY <1>0, <2>1, <2>2, MovesBalance, ZenonT(60)
<1> QED
  BY <1>1, <1>2, Zenon

\* The handlers of frames.
LEMMA FrameMoves ==
    ASSUME TypeOK, NEW n \in Nodes, FrameStep(n)
    PROVE  Changes(n) \/ Takes(n) \/ ConnectionException(n)
<1>1. CASE ConnBrOnReferenceRequest(n)
  <2> DEFINE m == Head(inbox[n])
  <2>1. /\ m \in Frames /\ m.delta \in {-1, 0, 1} /\ Passes(n, -m.delta, 0, 0)
    BY <1>1, ReceivedPasses DEF ConnBrOnReferenceRequest, Receive, users
  <2>2. BrOnReferenceRequest(n, m, todo)
    BY <1>1 DEF ConnBrOnReferenceRequest
  <2> HIDE DEF m
  <2>3. Carried(todo[n].peer) = Carried(todo[n].peer) + 0 /\ 0 \in Int
    BY QueueTypes
  <2>4. Moves(n, 0, 0 + m.delta, 0, 0) \/ Moves(n, m.delta, 0, 0, 0)
    BY <2>1, <2>2, <2>3, QueueShapes, RequestMoves, ZenonT(60)
  <2>5. /\ 0 + m.delta = m.delta /\ m.delta \in Int /\ -m.delta \in Int
        /\ 0 + m.delta + (-m.delta) = 0 /\ m.delta + 0 + (-m.delta) = 0
    BY <2>1
  <2> QED
    BY <2>1, <2>3, <2>4, <2>5, IsTake, ZenonT(60)
<1>2. CASE ConnBrOnReferenceResponse(n)
  <2> DEFINE m == Head(inbox[n])
  <2>1. /\ m \in Frames /\ Passes(n, -m.delta, 0, 0) /\ m.what = "response"
    BY <1>2, ReceivedPasses DEF ConnBrOnReferenceResponse, Receive, users
  <2>2. Passes(n, 0, 0, 0)
    <3>1. m.delta = 0
      BY <2>1 DEF Frames
    <3>2. -m.delta = 0
      BY <3>1
    <3> QED
      BY <2>1, <3>2, ZenonT(60)
  <2>3. UNCHANGED <<rc, sendq>>
    BY <1>2 DEF ConnBrOnReferenceResponse
  <2>4. /\ todo'[n].peer = todo[n].peer /\ todo'[n].local = todo[n].local
        /\ todo'[Peer(n)] = todo[Peer(n)]
    BY <1>2, QueueShapes, PeerFacts, SMTT(60) DEF ConnBrOnReferenceResponse, LooperMessages
  <2> QED
    BY <2>2, <2>3, <2>4, IsQuiet, QuietMoves, SMTT(60)
<1> QED
  BY <1>1, <1>2 DEF FrameStep

\* The handlers of delayed messages.
LEMMA TimerMoves ==
    ASSUME TypeOK, NEW n \in Nodes, TimerStep(n)
    PROVE  Changes(n)
<1>1. CASE ConnectionResume(n)
  <2>1. /\ Take(n, "resume")
        /\ UNCHANGED <<inbox, released>>
    BY <1>1 DEF ConnectionResume
  <2>2. CASE state[n] = "CONNECTED"
    <3> DEFINE k == waiting[n]
    <3>1. /\ NotifyUpdateConnectionRc(n, 1, k, Taken(n, "resume"))
          /\ acquired' = [acquired EXCEPT ![n] = acquired[n] + k]
      BY <1>1, <2>2 DEF ConnectionResume
    <3>2. k \in Nat /\ 0 \in Int /\ 1 \in {-1, 0, 1}
      BY SMTT(60) DEF TypeOK
    <3> HIDE DEF k
    <3>3. /\ Taken(n, "resume") \in [Nodes -> LooperMessages]
          /\ Taken(n, "resume")[n].peer = todo[n].peer
          /\ Taken(n, "resume")[n].local = todo[n].local
          /\ Taken(n, "resume")[Peer(n)] = todo[Peer(n)]
      BY <2>1, TakenKeeps, ZenonT(60)
    <3>4. Taken(n, "resume")[n].local = todo[n].local + 0
      BY <3>3, QueueTypes, Sums, Zenon
    <3>5. Moves(n, k * 1, 0, k * 1, 0)
      BY <3>1, <3>2, <3>3, <3>4, NotifyMoves, Zenon
    <3>6. Passes(n, 0, 0, k)
      <4>1. /\ Peer(n) \in Nodes /\ Peer(n) # n
            /\ acquired \in [Nodes -> Nat] /\ released \in [Nodes -> Nat]
        BY PeerFacts, ZenonT(60) DEF TypeOK
      <4>2. Carried(inbox[n]) \in Int /\ Carried(inbox[Peer(n)]) \in Int
        BY <4>1, QueueTypes, Zenon
      <4>3. /\ acquired'[n] - released'[n] = acquired[n] - released[n] + k
            /\ acquired'[Peer(n)] = acquired[Peer(n)]
        BY <2>1, <3>1, <3>2, <4>1
      <4>4. /\ Carried(inbox'[n]) = Carried(inbox[n]) + 0
            /\ Carried(inbox'[Peer(n)]) = Carried(inbox[Peer(n)]) + 0
        BY <2>1, <4>2, SMTT(60)
      <4> QED
        BY <2>1, <4>3, <4>4, Zenon DEF Passes
    <3>7. k * 1 = k /\ k \in Int /\ k + 0 = k
      BY <3>2
    <3>8. Moves(n, k, 0, k, 0)
      BY <3>5, <3>7, ZenonT(60)
    <3> QED
      BY <3>2, <3>6, <3>7, <3>8, IsChange, ZenonT(60)
  <2>3. CASE state[n] # "CONNECTED"
    <3>1. todo' = Taken(n, "resume") /\ UNCHANGED <<rc, sendq, acquired>>
      BY <1>1, <2>3, SMTT(60) DEF ConnectionResume
    <3>2. Moves(n, 0, 0, 0, 0)
      BY <2>1, <3>1, TakenKeeps, QuietMoves, SMTT(60)
    <3> QED
      BY <2>1, <3>1, <3>2, IsQuiet, QuietPasses, SMTT(60)
  <2> QED
    BY <2>2, <2>3
<1>2. CASE RetryNotifyReferenceHandler(n)
  <2> DEFINE own == Taken(n, "retry")
  <2>1. Take(n, "retry") /\ BrUpdateConnectionRc(n, 0, own)
    BY <1>2, SMTT(60) DEF RetryNotifyReferenceHandler
  <2>2. /\ own \in [Nodes -> LooperMessages] /\ own[n].peer = todo[n].peer
        /\ own[n].local = todo[n].local /\ own[Peer(n)] = todo[Peer(n)]
    BY <2>1, TakenKeeps, ZenonT(60)
  <2> HIDE DEF own
  <2>3. own[n].local = todo[n].local + 0 /\ 0 \in Int /\ 0 \in {-1, 0, 1} /\ 0 # -1
    BY <2>2, QueueTypes, Sums, Zenon
  <2>4. Moves(n, 0, 0, 0, 0)
    BY <2>1, <2>2, <2>3, UpdateMoves, ZenonT(60)
  <2>5. Passes(n, 0, 0, 0)
    BY <1>2, QuietPasses DEF RetryNotifyReferenceHandler, users
  <2> QED
    BY <2>4, <2>5, IsQuiet
<1>3. CASE WaitNegotiationClosingTimeoutHandler(n)
  <2>1. /\ Take(n, "neg") /\ todo' = Taken(n, "neg")
        /\ UNCHANGED <<rc, sendq, inbox, acquired, released>>
    BY <1>3, SMTT(60) DEF WaitNegotiationClosingTimeoutHandler, users
  <2>2. Moves(n, 0, 0, 0, 0)
    BY <2>1, TakenKeeps, QuietMoves, ZenonT(60)
  <2> QED
    BY <2>1, <2>2, IsQuiet, QuietPasses, SMTT(60)
<1>4. CASE BrOnOccupyRelease(n)
  <2>1. /\ Take(n, "release") /\ todo' = Taken(n, "release")
        /\ UNCHANGED <<rc, sendq, inbox, acquired, released>>
    BY <1>4, SMTT(60) DEF BrOnOccupyRelease, users
  <2>2. Moves(n, 0, 0, 0, 0)
    BY <2>1, TakenKeeps, QuietMoves
  <2> QED
    BY <2>1, <2>2, IsQuiet, QuietPasses, SMTT(60)
<1> QED
  BY <1>1, <1>2, <1>3, <1>4, SMTT(60) DEF TimerStep

\* The updates an occupation put off.
LEMMA PutOffMoves ==
    ASSUME TypeOK, NEW n \in Nodes, PutOffStep(n)
    PROVE  Changes(n) \/ Takes(n)
<1>1. CASE UpdateLocalRc(n)
  <2> DEFINE own == Taken(n, "local")
  <2>1. Take(n, "local") /\ BrUpdateConnectionRc(n, -1, own)
    BY <1>1, SMTT(60) DEF UpdateLocalRc
  <2>2. /\ own \in [Nodes -> LooperMessages] /\ own[n].peer = todo[n].peer
        /\ own[n].local = todo[n].local - 1 /\ own[Peer(n)] = todo[Peer(n)]
    BY <2>1, TakenKeeps, ZenonT(60)
  <2> HIDE DEF own
  <2>3. /\ own[n].local = todo[n].local + (-1) /\ 0 \in Int
        /\ -1 \in Int /\ -1 \in {-1, 0, 1} /\ -1 + 1 = 0 /\ 0 + (-1) = -1
    BY <2>2, QueueTypes, Sums, Zenon
  <2>4. Moves(n, 0, 0, 0, -1 + 1) \/ Moves(n, -1, 0, -1, -1)
    BY <2>1, <2>2, <2>3, UpdateMoves, Zenon
  <2>5. Passes(n, 0, 0, 0)
    BY <1>1, QuietPasses DEF UpdateLocalRc, users
  <2> QED
    BY <2>3, <2>4, <2>5, IsQuiet, IsChange, ZenonT(60)
<1>2. CASE UpdatePeerRc(n)
  <2> DEFINE m == Head(todo[n].peer)
             own == [todo EXCEPT ![n].peer = Tail(todo[n].peer)]
  <2>0. todo[n].peer # <<>> /\ todo[n].peer \in Seq(Frames)
    BY <1>2, QueueTypes DEF UpdatePeerRc
  <2>1. m \in Frames /\ Tail(todo[n].peer) \in Seq(Frames)
    BY <2>0
  <2>2. BrOnReferenceRequest(n, m, own)
    BY <1>2 DEF UpdatePeerRc
  <2>3. /\ own \in [Nodes -> LooperMessages] /\ own[n].peer = Tail(todo[n].peer)
        /\ own[n].local = todo[n].local /\ own[Peer(n)] = todo[Peer(n)]
    <3>1. Peer(n) \in Nodes /\ Peer(n) # n
      BY PeerFacts
    <3> QED
      BY <2>1, <3>1, QueueShapes, ZenonT(60) DEF LooperMessages
  <2>4. m.delta \in {-1, 0, 1}
    BY <2>1 DEF Frames
  <2>5. Carried(own[n].peer) = Carried(todo[n].peer) - m.delta
    BY <2>0, <2>3, CarriedTail
  <2> HIDE DEF m, own
  <2>6. /\ Carried(own[n].peer) = Carried(todo[n].peer) + (-m.delta)
        /\ -m.delta \in Int /\ m.delta \in Int /\ -m.delta + m.delta = 0 /\ 0 \in Int
        /\ 0 + 0 + 0 = 0 /\ m.delta + (-m.delta) + 0 = 0
    <3>1. Carried(todo[n].peer) \in Int
      BY QueueTypes
    <3> QED
      BY <2>4, <2>5, <3>1, SMTT(60)
  <2>7. Moves(n, 0, -m.delta + m.delta, 0, 0) \/ Moves(n, m.delta, -m.delta, 0, 0)
    BY <2>1, <2>2, <2>3, <2>6, RequestMoves, ZenonT(60)
  <2>8. Passes(n, 0, 0, 0)
    BY <1>2, QuietPasses DEF UpdatePeerRc, users
  <2> QED
    BY <2>6, <2>7, <2>8, IsTake, ZenonT(60)
<1> QED
  BY <1>1, <1>2 DEF PutOffStep

\* A frame of change d goes from the send queue of n to the link.
Sends(n) == \E d \in {-1, 0, 1} : Moves(n, 0, 0, -d, 0) /\ Passes(n, 0, d, 0)

\* The frame leaves the queue and is on the link: the peer reads it.
LEMMA SendMoves ==
    ASSUME TypeOK, NEW n \in Nodes, SendHandlerLoop(n), sock[n], linkUp, reading[Peer(n)]
    PROVE  Sends(n)
<1> DEFINE f == IF sendq[n].high # <<>> THEN "high" ELSE "low"
           m == Head(sendq[n][f])
           p == Peer(n)
<1>0. p \in Nodes /\ p # n /\ reading[p]
  BY PeerFacts
<1>1. /\ sendq[n][f] # <<>>
      /\ sendq' = [sendq EXCEPT ![n][f] = Tail(sendq[n][f])]
      /\ inbox' = [inbox EXCEPT ![p] = Append(inbox[p], m)]
      /\ UNCHANGED <<rc, todo, acquired, released>>
  BY <1>0, SMTT(60) DEF SendHandlerLoop, users
<1>2. /\ rc[n] \in Int /\ todo[n].local \in Int /\ Carried(todo[n].peer) \in Int
      /\ sendq[n].high \in Seq(Frames) /\ sendq[n].low \in Seq(Frames)
      /\ Carried(sendq[n].high) \in Int /\ Carried(sendq[n].low) \in Int
      /\ Carried(inbox[n]) \in Int
  BY QueueTypes, Sums, Zenon
<1>3. inbox[p] \in Seq(Frames) /\ Carried(inbox[p]) \in Int
  BY <1>0, QueueTypes, ZenonT(60)
<1>4. f = "high" \/ f = "low"
  OBVIOUS
<1> HIDE DEF f
<1>5. sendq[n][f] \in Seq(Frames)
  BY <1>2, <1>4
<1>6. m \in Frames
  BY <1>1, <1>5
<1>7. m.delta \in {-1, 0, 1}
  BY <1>6 DEF Frames
<1>8. Carried(Tail(sendq[n][f])) = Carried(sendq[n][f]) - m.delta
  BY <1>1, <1>5, CarriedTail, SMTT(60)
<1> HIDE DEF m, p
<1>9. /\ sendq'[p] = sendq[p]
      /\ Carried(sendq'[n].high) + Carried(sendq'[n].low)
           = Carried(sendq[n].high) + Carried(sendq[n].low) + (-m.delta)
  <2>1. sendq \in [Nodes -> SendQueue]
    BY Zenon DEF TypeOK, SendQueue
  <2>2. sendq[n] \in SendQueue
    BY <2>1, Zenon
  <2>3. sendq'[p] = sendq[p] /\ sendq'[n] = [sendq[n] EXCEPT ![f] = Tail(sendq[n][f])]
    BY <1>0, <1>1, <2>1, Zenon
  <2>4. CASE f = "high"
    <3>1. sendq'[n].low = sendq[n].low /\ sendq'[n].high = Tail(sendq[n].high)
      BY <2>2, <2>3, <2>4, SMTT(60) DEF SendQueue
    <3> QED
      <4>1. PICK h \in Int, l \in Int, e \in {-1, 0, 1} :
              h = Carried(sendq[n].high) /\ l = Carried(sendq[n].low) /\ e = m.delta
        BY <1>2, <1>7, Zenon
      <4>2. (h - e) + l = h + l + (-e)
        BY ONLY h \in Int, l \in Int, e \in {-1, 0, 1}
      <4> QED
        BY <1>8, <2>3, <2>4, <3>1, <4>1, <4>2, Zenon
  <2>5. CASE f = "low"
    <3>1. sendq'[n].high = sendq[n].high /\ sendq'[n].low = Tail(sendq[n].low)
      BY <2>2, <2>3, <2>5, SMTT(60) DEF SendQueue
    <3> QED
      <4>1. PICK h \in Int, l \in Int, e \in {-1, 0, 1} :
              h = Carried(sendq[n].high) /\ l = Carried(sendq[n].low) /\ e = m.delta
        BY <1>2, <1>7, Zenon
      <4>2. h + (l - e) = h + l + (-e)
        BY ONLY h \in Int, l \in Int, e \in {-1, 0, 1}
      <4> QED
        BY <1>8, <2>3, <2>5, <3>1, <4>1, <4>2, Zenon
  <2> QED
    BY <1>4, <2>4, <2>5, Zenon
<1>10. Moves(n, 0, 0, -m.delta, 0)
  BY <1>1, <1>2, <1>9, Sums, Zenon DEF Moves, p
<1>11. Passes(n, 0, m.delta, 0)
  <2>1. /\ inbox'[n] = inbox[n] /\ inbox'[p] = Append(inbox[p], m)
    BY <1>0, <1>1, QueueShapes, SMTT(60)
  <2>2. Carried(inbox'[p]) = Carried(inbox[p]) + m.delta
    BY <1>3, <1>6, <2>1, CarriedAppend, SMTT(60)
  <2>3. acquired[n] \in Int /\ released[n] \in Int
    BY DEF TypeOK
  <2>4. /\ Carried(inbox[n]) = Carried(inbox[n]) + 0
        /\ acquired[n] - released[n] = acquired[n] - released[n] + 0
    BY ONLY <1>2, <2>3, Sums, Zenon
  <2> QED
    BY <1>1, <2>1, <2>2, <2>4, Zenon DEF Passes, p
<1> QED
  BY <1>7, <1>10, <1>11, Zenon DEF Sends

\* The equation survives the send thread: an open socket is read.
LEMMA SendAccounting ==
    ASSUME TypeOK, TypeOK', Accounting, Intact' => Intact, NEW n \in Nodes, Reads,
           SendHandlerLoop(n)
    PROVE  Accounting'
<1> DEFINE p == Peer(n)
<1>1. CASE ~(sock[n] /\ linkUp)
  <2>1. ConnBrDisconnectNow(n, "sender")
    BY <1>1 DEF SendHandlerLoop
  <2> QED
    BY <2>1, BrokenAccounting, DisconnectNowBreaks, SMTT(60)
<1>2. CASE sock[n] /\ linkUp /\ ~sock[p]
  <2>1. ~Intact
    BY <1>2, IntactBy
  <2> QED
    BY <2>1 DEF Accounting
<1>3. CASE sock[n] /\ linkUp /\ sock[p]
  <2>1. p \in Nodes /\ reading[p]
    BY <1>3, PeerFacts, SMTT(60) DEF Reads
  <2>2. PICK d \in {-1, 0, 1} : Moves(n, 0, 0, -d, 0) /\ Passes(n, 0, d, 0)
    BY <1>3, <2>1, SendMoves, Zenon DEF Sends
  <2>3. /\ d \in Int /\ -d \in Int /\ 0 \in Int
        /\ 0 + 0 + 0 = d + (-d) /\ 0 + 0 = d + (-d)
    BY <2>2
  <2> QED
    BY <2>2, <2>3, MovesBalance, ZenonT(60)
<1> QED
  BY <1>1, <1>2, <1>3, SMTT(60)

\* An occupation counts nothing.
LEMMA OccupyMoves == ASSUME TypeOK, NEW n \in Nodes, ConnBrOccupy(n) PROVE Changes(n)
<1>1. UNCHANGED <<rc, sendq, inbox, acquired, released>>
  BY DEF ConnBrOccupy, users
<1>2. /\ todo'[n].peer = todo[n].peer /\ todo'[n].local = todo[n].local
      /\ todo'[Peer(n)] = todo[Peer(n)]
  BY QueueShapes, PeerFacts DEF ConnBrOccupy, LooperMessages
<1> QED
  BY <1>1, <1>2, IsQuiet, QuietMoves, QuietPasses, SMTT(60)

\* The equation survives the send and read threads.
LEMMA ThreadAccounting ==
    ASSUME TypeOK, TypeOK', Accounting, Intact' => Intact, NEW n \in Nodes, Reads,
           ThreadStep(n)
    PROVE  Accounting'
<1>1. CASE DisconnectDone(n)
  BY <1>1, BrokenAccounting, SMTT(60) DEF DisconnectDone
<1>2. CASE ConnBrOccupy(n)
  BY <1>2, OccupyMoves, ChangeAccounting
<1>3. CASE LoopReadExit(n)
  <2>1. ~sock'[n]
    BY <1>3, Zenon DEF LoopReadExit, TypeOK
  <2> QED
    BY <2>1, BrokenAccounting, SMTT(60)
<1>4. CASE SendHandlerLoop(n)
  BY <1>4, SendAccounting
<1> QED
  BY <1>1, <1>2, <1>3, <1>4, SMTT(60) DEF ThreadStep

\* The users.
LEMMA UserMoves ==
    ASSUME TypeOK, NEW n \in Nodes, UserStep(n)
    PROVE  Changes(n)
<1>0. /\ Peer(n) \in Nodes /\ Peer(n) # n
      /\ acquired \in [Nodes -> Nat] /\ released \in [Nodes -> Nat]
  BY PeerFacts DEF TypeOK
<1>i. Carried(inbox[n]) \in Int /\ Carried(inbox[Peer(n)]) \in Int
  BY <1>0, QueueTypes
<1>l. todo[n].local = todo[n].local + 0 /\ 0 \in Int /\ 1 \in Int /\ -1 \in Int
  <2>1. TypeOK
    OBVIOUS
  <2>2. todo[n].local \in Nat
    BY <2>1, QueueTypes, Zenon
  <2>3. \A k \in Nat : k = k + 0
    OBVIOUS
  <2>4. 0 \in Int /\ 1 \in Int /\ -1 \in Int
    OBVIOUS
  <2> QED
    BY <2>2, <2>3, <2>4, Zenon
<1>1. CASE BrConnectDevice(n)
  <2>0. UNCHANGED <<inbox, released>>
    BY <1>1 DEF BrConnectDevice
  <2>1. CASE state[n] = "CONNECTED"
    <3>1. /\ NotifyUpdateConnectionRc(n, 1, 1, todo)
          /\ acquired' = [acquired EXCEPT ![n] = acquired[n] + 1]
      BY <1>1, <2>1 DEF BrConnectDevice
    <3>2. 1 \in {-1, 0, 1} /\ 1 \in Nat /\ 1 * 1 = 1 /\ 1 + 0 = 1
      OBVIOUS
    <3>3. Moves(n, 1 * 1, 0, 1 * 1, 0)
      BY <1>l, <3>1, <3>2, QueueShapes, NotifyMoves, ZenonT(60)
    <3>4. Passes(n, 0, 0, 1)
      <4>1. /\ acquired'[n] - released'[n] = acquired[n] - released[n] + 1
            /\ acquired'[Peer(n)] = acquired[Peer(n)]
        BY <1>0, <2>0, <3>1
      <4>2. /\ Carried(inbox'[n]) = Carried(inbox[n]) + 0
            /\ Carried(inbox'[Peer(n)]) = Carried(inbox[Peer(n)]) + 0
        BY <1>i, <2>0, SMTT(60)
      <4> QED
        BY <2>0, <4>1, <4>2, Zenon DEF Passes
    <3> QED
      BY <1>l, <3>2, <3>3, <3>4, IsChange, ZenonT(60)
  <2>2. CASE state[n] # "CONNECTED"
    <3>1. UNCHANGED <<rc, todo, sendq, acquired>>
      BY <1>1, <2>2 DEF BrConnectDevice
    <3> QED
      BY <2>0, <3>1, IsQuiet, QuietMoves, QuietPasses, SMTT(60)
  <2> QED
    BY <2>1, <2>2
<1>2. CASE DisconnectRequest(n)
  <2>1. /\ BrUpdateConnectionRc(n, -1, todo)
        /\ released' = [released EXCEPT ![n] = released[n] + 1]
        /\ UNCHANGED <<inbox, acquired>>
    BY <1>2 DEF DisconnectRequest
  <2>2. -1 \in {-1, 0, 1} /\ 0 + 1 = 1 /\ -1 + 1 = 0 /\ -1 + 0 = -1
    OBVIOUS
  <2>3. Moves(n, 0, 0, 0, 0 + 1) \/ Moves(n, -1, 0, -1, 0)
    BY <1>l, <2>1, <2>2, QueueShapes, UpdateMoves, ZenonT(60)
  <2>4. Passes(n, 0, 0, -1)
    <3>1. /\ acquired'[n] - released'[n] = acquired[n] - released[n] + (-1)
          /\ released'[Peer(n)] = released[Peer(n)]
      BY <1>0, <2>1
    <3>2. /\ Carried(inbox'[n]) = Carried(inbox[n]) + 0
          /\ Carried(inbox'[Peer(n)]) = Carried(inbox[Peer(n)]) + 0
      BY <1>i, <2>1, SMTT(60)
    <3> QED
      BY <2>1, <3>1, <3>2, Zenon DEF Passes
  <2> QED
    BY <1>l, <2>2, <2>3, <2>4, IsChange, ZenonT(60)
<1>3. CASE BrCheckActiveConnection(n)
  <2>1. UNCHANGED <<rc, todo, sendq, inbox, acquired, released>>
    BY <1>3 DEF BrCheckActiveConnection
  <2> QED
    BY <2>1, IsQuiet, QuietMoves, QuietPasses, SMTT(60)
<1> QED
  BY <1>1, <1>2, <1>3 DEF UserStep

\* Every step keeps the invariant.
LEMMA NextAccounting == TypeOK /\ AInv /\ [Next]_vars => AInv'
<1> SUFFICES ASSUME TypeOK, AInv, [Next]_vars
             PROVE  Accounting'
  BY NextReads DEF AInv
<1>0. TypeOK' /\ Accounting /\ Reads /\ (Intact' => Intact)
  BY NextType, NextReads DEF AInv
<1>1. ASSUME NEW n \in Nodes, FrameStep(n) \/ TimerStep(n) \/ PutOffStep(n) \/ UserStep(n)
      PROVE  Accounting'
  <2>1. CASE ConnectionException(n)
    BY <2>1, BrokenAccounting, DisconnectNowBreaks, SMTT(60) DEF ConnectionException
  <2>2. CASE Changes(n) \/ Takes(n)
    BY <1>0, <2>2, ChangeAccounting, Zenon
  <2> QED
    BY <1>1, <2>1, <2>2, FrameMoves, TimerMoves, PutOffMoves, UserMoves, Zenon
<1>4. ASSUME NEW n \in Nodes, ThreadStep(n)
      PROVE  Accounting'
  BY <1>0, <1>4, ThreadAccounting
<1>6. CASE LinkLost
  BY <1>6 DEF LinkLost, Accounting, Intact
<1>7. CASE UNCHANGED vars
  <2>1. UNCHANGED <<rc, todo, sendq, inbox, acquired, released>> /\ Client \in Nodes
    BY <1>7 DEF vars, conn, users, Nodes
  <2> QED
    BY <1>0, <2>1, IsQuiet, ChangeAccounting, QuietMoves, QuietPasses, SMTT(60)
<1> QED
  BY <1>1, <1>4, <1>6, <1>7, SMTT(60) DEF Next

\* The invariant holds at the start.
LEMMA InitAccounting == Init => AInv
<1> SUFFICES ASSUME Init
             PROVE  AInv
  OBVIOUS
<1>1. Reads
  BY SMTT(60) DEF Init, Reads
<1>2. ASSUME NEW n \in Nodes
      PROVE  rc[n] + Inbound(n) = Outstanding + todo[Client].local + todo[Server].local
  <2>1. Peer(n) \in Nodes /\ Client \in Nodes /\ Server \in Nodes
    BY PeerFacts, SMTT(60) DEF Nodes
  <2>2. /\ inbox[n] = <<>> /\ todo[n].peer = <<>>
        /\ sendq[Peer(n)].high = <<>> /\ sendq[Peer(n)].low = <<>>
    BY <2>1, SMTT(60) DEF Init, NoMessages, NoFrames
  <2>3. Inbound(n) = 0
    <3>1. Carried(inbox[n]) = 0 /\ Carried(todo[n].peer) = 0
      BY ONLY <2>2, CarriedEmpty, Zenon
    <3>2. Carried(sendq[Peer(n)].high) = 0 /\ Carried(sendq[Peer(n)].low) = 0
      BY ONLY <2>2, CarriedEmpty, Zenon
    <3>3. 0 + 0 + 0 + 0 = 0
      OBVIOUS
    <3> QED
      BY ONLY <3>1, <3>2, <3>3, Zenon DEF Inbound
  <2>4. Outstanding = 1 /\ todo[Client].local = 0 /\ todo[Server].local = 0 /\ rc[n] = 1
    BY <2>1 DEF Init, NoMessages, Outstanding, Total
  <2>5. 1 + 0 = 1 + 0 + 0
    OBVIOUS
  <2> QED
    BY <2>3, <2>4, <2>5, Zenon
<1> QED
  BY <1>1, <1>2 DEF AInv, Accounting

\* For any number of connect and disconnect requests on either device, in any
\* interleaving of loopers, read threads and send threads: while the link is whole
\* no change of a reference count is lost, repeated or made up.
THEOREM CountsAgree == Spec => []Accounting
<1>1. TypeOK /\ AInv /\ [Next]_vars => TypeOK' /\ AInv'
  BY NextType, NextAccounting
<1>2. AInv => Accounting
  BY DEF AInv
<1> QED
  BY <1>1, <1>2, InitType, InitAccounting, PTL DEF Spec
=============================================================================
