-------------------------- MODULE BrManagerRequests --------------------------
(***************************************************************************)
(* The BR manager, third part: no request is lost, and none is answered    *)
(* twice.  The requests that were made are split between the queue, the    *)
(* waiting devices, the device being connected and those with an answer;   *)
(* each step moves requests from one of these to another.                  *)
(***************************************************************************)
EXTENDS BrManagerWaits
----------------------------------------------------------------------------
(* The last part of the invariant: where the requests are.                 *)

ReqsOf(w) == UNION {d.reqs : d \in Range(w)}
Apart(w) == \A d, e \in Range(w) : d # e => d.reqs \cap e.reqs = {}
Queued == {r \in Requests : In(queue, Msg("connect", r))}
Finished == {r \in Requests : answers[r] # 0}

\* The requests A are in the queue, wait, are being connected, or are finished.
Split(Q, W, C, F, A) ==
    /\ Q \cup W \cup C \cup F = A
    /\ Q \cap W = {} /\ Q \cap C = {} /\ Q \cap F = {}
    /\ W \cap C = {} /\ W \cap F = {} /\ C \cap F = {}

RInv ==
    /\ answers \in [Requests -> {0, 1}] /\ asked \subseteq Requests
    /\ Apart(waitings)
    /\ Split(Queued, ReqsOf(waitings), connecting.reqs, Finished, asked)

\* Answering requests that had no answer.
LEMMA AnsweredFacts ==
    ASSUME answers \in [Requests -> {0, 1}], NEW R \in SUBSET Requests, Finished \cap R = {},
           answers' = Answered(R)
    PROVE  answers' \in [Requests -> {0, 1}] /\ Finished' = Finished \cup R
<1>1. \A r \in Requests : answers'[r] = IF r \in R THEN 1 ELSE answers[r]
  BY DEF Answered, Finished
<1>2. answers' = [r \in Requests |-> answers'[r]]
  BY Zenon DEF Answered
<1>3. answers' \in [Requests -> {0, 1}]
  BY <1>1, <1>2, Zenon
<1> QED
  BY <1>1, <1>3 DEF Finished

\* Which steps take a connect request from the queue or post one.
LEMMA QueuedFacts ==
    /\ QSame => Queued' = Queued
    /\ \A r \in Requests : QTook(Msg("connect", r)) => Queued' = Queued \ {r} /\ r \in Queued
    /\ \A r \in Requests : QPut(Msg("connect", r)) => Queued' = Queued \cup {r}
    /\ \A w \in {"success", "accepted", "exception"}, c \in Ids :
          QTook(Msg(w, c)) \/ QPut(Msg(w, c)) => Queued' = Queued
<1>1. \A r, s \in Requests : Msg("connect", r) = Msg("connect", s) <=> r = s
  BY Zenon DEF Msg
<1>2. \A r \in Requests : \A w \in {"success", "accepted", "exception"}, c \in Ids :
         Msg("connect", r) # Msg(w, c)
  BY Zenon DEF Msg
<1>3. \A r \in Requests : Msg("connect", r) \in Tracked
  BY MessageTypes, Zenon
<1>4. QSame => Queued' = Queued
  BY <1>3, Zenon DEF QSame, Queued
<1>5. ASSUME NEW r \in Requests, QTook(Msg("connect", r))
      PROVE  Queued' = Queued \ {r} /\ r \in Queued
  <2>1. \A s \in Requests : In(queue', Msg("connect", s)) <=> In(queue, Msg("connect", s)) /\ s # r
    BY <1>1, <1>3, <1>5, Zenon DEF QTook
  <2>2. \A s \in Requests : s \in Queued' <=> s \in Queued /\ s # r
    BY <2>1, Zenon DEF Queued
  <2>3. r \in Queued
    BY <1>5, Zenon DEF QTook, Queued
  <2>4. Queued \subseteq Requests /\ Queued' \subseteq Requests
    BY Zenon DEF Queued
  <2> QED
    BY <2>2, <2>3, <2>4, Zenon
<1>6. ASSUME NEW r \in Requests, QPut(Msg("connect", r))
      PROVE  Queued' = Queued \cup {r}
  <2>1. \A s \in Requests : In(queue', Msg("connect", s)) <=> In(queue, Msg("connect", s)) \/ s = r
    BY <1>1, <1>3, <1>6, Zenon DEF QPut
  <2>2. \A s \in Requests : s \in Queued' <=> s \in Queued \/ s = r
    BY <2>1, Zenon DEF Queued
  <2>3. Queued \subseteq Requests /\ Queued' \subseteq Requests
    BY Zenon DEF Queued
  <2> QED
    BY <2>2, <2>3, Zenon
<1>7. ASSUME NEW w \in {"success", "accepted", "exception"}, NEW c \in Ids,
             QTook(Msg(w, c)) \/ QPut(Msg(w, c))
      PROVE  Queued' = Queued
  <2>1. \A s \in Requests : In(queue', Msg("connect", s)) <=> In(queue, Msg("connect", s))
    BY <1>2, <1>3, <1>7, Zenon DEF QTook, QPut
  <2> QED
    BY <2>1, Zenon DEF Queued
<1> QED
  BY <1>4, <1>5, <1>6, <1>7, Zenon

\* The requests of a list from which a device is taken, to which one is added, or
\* one of whose devices has more requests.
LEMMA InPart == ASSUME NEW w, NEW r PROVE r \in ReqsOf(w) <=> \E d \in Range(w) : r \in d.reqs
BY Zenon DEF ReqsOf

\* A device is taken from the list.
LEMMA DeviceTaken ==
    ASSUME NEW w, Apart(w), NEW v, NEW d \in Range(w), Range(v) = Range(w) \ {d}
    PROVE  Apart(v) /\ ReqsOf(v) = ReqsOf(w) \ d.reqs /\ d.reqs \subseteq ReqsOf(w)
<1>1. Apart(v)
  BY Zenon DEF Apart
<1>2. \A r : r \in ReqsOf(v) <=> r \in ReqsOf(w) /\ r \notin d.reqs
  BY InPart, Zenon DEF Apart
<1> QED
  BY <1>1, <1>2, InPart, Zenon

\* A device is added.
LEMMA DeviceAdded ==
    ASSUME NEW w, Apart(w), NEW v, NEW d, Range(v) = Range(w) \cup {d}, d.reqs \cap ReqsOf(w) = {}
    PROVE  Apart(v) /\ ReqsOf(v) = ReqsOf(w) \cup d.reqs
<1>1. Apart(v)
  BY InPart, Zenon DEF Apart
<1>2. \A r : r \in ReqsOf(v) <=> r \in ReqsOf(w) \/ r \in d.reqs
  BY InPart, Zenon
<1> QED
  BY <1>1, <1>2, Zenon

\* A device gets more requests.
LEMMA DeviceGrown ==
    ASSUME NEW w, Apart(w), NEW v, NEW d \in Range(w), NEW e, NEW R,
           Range(v) = (Range(w) \ {d}) \cup {e}, e.reqs = d.reqs \cup R, R \cap ReqsOf(w) = {}
    PROVE  Apart(v) /\ ReqsOf(v) = ReqsOf(w) \cup R
<1>1. Apart(v)
  BY InPart, Zenon DEF Apart
<1>2. \A r : r \in ReqsOf(v) <=> r \in ReqsOf(w) \/ r \in R
  BY InPart, Zenon
<1> QED
  BY <1>1, <1>2, Zenon

\* A device changes its state.
LEMMA DeviceChanged ==
    ASSUME NEW w, Apart(w), NEW v, NEW d \in Range(w), NEW e,
           Range(v) = (Range(w) \ {d}) \cup {e}, e.reqs = d.reqs
    PROVE  Apart(v) /\ ReqsOf(v) = ReqsOf(w)
<1>1. Apart(v)
  BY Zenon DEF Apart
<1>2. \A r : r \in ReqsOf(v) <=> r \in ReqsOf(w)
  BY InPart, Zenon
<1> QED
  BY <1>1, <1>2, Zenon

\* Waking devices moves no request.
LEMMA ScheduledParts ==
    ASSUME waitings \in Lists, Apart(waitings), NEW a, NEW v,
           v \in {Scheduled(waitings, a), Unpended(waitings, a)}
    PROVE  Apart(v) /\ ReqsOf(v) = ReqsOf(waitings)
<1>1. CASE Range(v) = Range(waitings)
  BY <1>1, Zenon DEF Apart, ReqsOf
<1>2. ASSUME NEW d \in Range(waitings),
             Range(v) = (Range(waitings) \ {d}) \cup {[d EXCEPT !.state = "WAIT_SCHEDULE"]}
      PROVE  Apart(v) /\ ReqsOf(v) = ReqsOf(waitings)
  <2>1. PICK e : e = [d EXCEPT !.state = "WAIT_SCHEDULE"] /\ e.reqs = d.reqs
    BY ListFacts, DeviceFacts, ZenonT(60)
  <2>2. Range(v) = (Range(waitings) \ {d}) \cup {e}
    BY <1>2, <2>1, Zenon
  <2> QED
    BY <2>1, <2>2, DeviceChanged, Zenon
<1> QED
  BY <1>1, <1>2, ScheduledFacts, Zenon DEF Unpended

\* Without takes away the requests of one address.
LEMMA WithoutParts ==
    ASSUME waitings \in Lists, Apart(waitings), NEW a, NEW v, v = Without(waitings, a)
    PROVE  /\ Apart(v) /\ ReqsOf(v) = ReqsOf(waitings) \ RequestsFor(a)
           /\ RequestsFor(a) \subseteq ReqsOf(waitings)
<1>1. Range(v) = {d \in Range(waitings) : d.addr # a}
  BY WithoutFacts, Zenon
<1>2. CASE RequestsFor(a) = {} /\ \A d \in Range(waitings) : d.addr # a
  <2>1. Range(v) = Range(waitings)
    BY <1>1, <1>2, Zenon
  <2>2. Apart(v) /\ ReqsOf(v) = ReqsOf(waitings)
    BY <2>1, Zenon DEF Apart, ReqsOf
  <2> QED
    BY <1>2, <2>2, Zenon
<1>3. ASSUME NEW d \in Range(waitings), d.addr = a, RequestsFor(a) = d.reqs
      PROVE  /\ Apart(v) /\ ReqsOf(v) = ReqsOf(waitings) \ RequestsFor(a)
             /\ RequestsFor(a) \subseteq ReqsOf(waitings)
  <2>1. Range(v) = Range(waitings) \ {d}
    BY <1>1, <1>3, ListFacts, Zenon
  <2> QED
    BY <1>3, <2>1, DeviceTaken
<1> QED
  BY <1>2, <1>3, RequestsForFacts, Zenon

\* PendingDevice puts the requests of a device somewhere.
LEMMA PendedParts ==
    ASSUME NEW w \in Lists, Apart(w), NEW d \in Devices, NEW cur \in Devices \cup {NoDevice},
           PendingDevice(d, w, cur), d.reqs \cap ReqsOf(w) = {}
    PROVE  /\ Apart(waitings')
           /\ \/ connecting'.reqs = cur.reqs \cup d.reqs /\ ReqsOf(waitings') = ReqsOf(w)
              \/ connecting'.reqs = cur.reqs /\ ReqsOf(waitings') = ReqsOf(w) \cup d.reqs
<1>0. PICK v : v = waitings'
  OBVIOUS
<1>1. CASE Joins(d, w, cur)
  <2>1. connecting' = [cur EXCEPT !.reqs = @ \cup d.reqs] /\ waitings' = w
    BY <1>1, Zenon DEF Joins
  <2>2. connecting'.reqs = cur.reqs \cup d.reqs
    BY <2>1, Zenon DEF Devices, NoDevice
  <2> QED
    BY <2>1, <2>2, Zenon
<1>2. CASE JoinsWaiting(d, w, cur)
  <2>1. PICK e \in Range(w) :
            Range(v) = (Range(w) \ {e}) \cup {[e EXCEPT !.reqs = @ \cup d.reqs]}
    BY <1>0, <1>2, Zenon DEF JoinsWaiting
  <2>2. PICK f : f = [e EXCEPT !.reqs = @ \cup d.reqs]
    BY Zenon
  <2>3. f.reqs = e.reqs \cup d.reqs
    BY <2>2, ListFacts, ZenonT(60) DEF Devices
  <2>4. Range(v) = (Range(w) \ {e}) \cup {f}
    BY <2>1, <2>2, Zenon
  <2>5. Apart(v) /\ ReqsOf(v) = ReqsOf(w) \cup d.reqs
    BY <2>3, <2>4, DeviceGrown
  <2> QED
    BY <1>0, <1>2, <2>5, Zenon DEF JoinsWaiting
<1>3. CASE WaitsNew(d, w, cur)
  <2>1. Range(v) = Range(w) \cup {d} /\ connecting' = cur
    BY <1>0, <1>3, Zenon DEF WaitsNew
  <2>2. Apart(v) /\ ReqsOf(v) = ReqsOf(w) \cup d.reqs
    BY <2>1, DeviceAdded, Zenon
  <2> QED
    BY <1>0, <2>1, <2>2, Zenon
<1> QED
  BY <1>1, <1>2, <1>3, Pended, Zenon

RequestInv == WaitInv /\ RInv

\* What a step has to show of the requests it moves.
LEMMA Rearranged ==
    ASSUME asked' \subseteq Requests, answers' \in [Requests -> {0, 1}], Apart(waitings'),
           NEW W, ReqsOf(waitings') = W, NEW C, connecting'.reqs = C,
           Split(Queued', W, C, Finished', asked')
    PROVE  RInv'
BY Zenon DEF RInv

\* Requests taken from their place are answered.
LEMMA AnswersR ==
    ASSUME answers \in [Requests -> {0, 1}], asked \subseteq Requests, NEW R \in SUBSET asked,
           NEW Q, NEW W, NEW C, Split(Q, W, C, Finished, asked \ R), answers' = Answered(R)
    PROVE  answers' \in [Requests -> {0, 1}] /\ Split(Q, W, C, Finished', asked)
<1>1. Finished \cap R = {} /\ Split(Q, W, C, Finished \cup R, asked)
  BY Zenon DEF Split
<1>2. R \in SUBSET Requests
  OBVIOUS
<1>3. answers' \in [Requests -> {0, 1}] /\ Finished' = Finished \cup R
  BY <1>1, <1>2, AnsweredFacts, Zenon
<1> QED
  BY <1>1, <1>3, Zenon

\* Without an answer no request is finished.
LEMMA FinishedSame == answers' = answers => Finished' = Finished
BY Zenon DEF Finished

\* Nobody asked for NoDevice.
LEMMA NobodysRequests == NoDevice.reqs = {}
BY Zenon DEF NoDevice

\* AttempReuseConnect keeps the requests of its device, or answers them.
LEMMA AttemptR ==
    ASSUME DInv, answers \in [Requests -> {0, 1}], asked \subseteq Requests, asked' = asked,
           NEW d \in Devices, NEW w \in Lists, Apart(w), d.reqs \subseteq asked,
           Split(Queued', ReqsOf(w), connecting.reqs, Finished, asked \ d.reqs),
           NEW hint, NEW directly \in BOOLEAN, AttempReuseConnect(d, w, hint, directly),
           directly => connecting = NoDevice
    PROVE  RInv'
<1>1. CASE ToWait(d, w)
  <2>1. PICK s \in {"WAIT_SCHEDULE", "PENDING", "WAIT_EVENT"} :
            PendingDevice([d EXCEPT !.state = s], w, connecting)
    BY <1>1, Zenon DEF ToWait
  <2>2. PICK e \in Devices : e = [d EXCEPT !.state = s] /\ e.reqs = d.reqs
    BY DeviceFacts, Zenon
  <2>3. answers' = answers /\ Finished' = Finished
    BY <1>1, FinishedSame, Zenon DEF ToWait
  <2>4. /\ Split(Queued', ReqsOf(w) \cup d.reqs, connecting.reqs, Finished, asked)
        /\ Split(Queued', ReqsOf(w), connecting.reqs \cup d.reqs, Finished, asked)
        /\ ReqsOf(w) \cap d.reqs = {}
    BY Zenon DEF Split
  <2>5. e.reqs \cap ReqsOf(w) = {}
    BY <2>2, <2>4, Zenon
  <2>6. /\ Apart(waitings')
        /\ \/ connecting'.reqs = connecting.reqs \cup e.reqs /\ ReqsOf(waitings') = ReqsOf(w)
           \/ connecting'.reqs = connecting.reqs /\ ReqsOf(waitings') = ReqsOf(w) \cup e.reqs
    BY <2>1, <2>2, <2>5, PendedParts, ZenonT(60) DEF DInv
  <2> QED
    BY <2>2, <2>3, <2>4, <2>6, Rearranged, Zenon
<1>2. CASE directly /\ ToConnect(d, w)
  <2>1. /\ connecting' = [d EXCEPT !.state = "WAIT_SCHEDULE"] /\ waitings' = w
        /\ answers' = answers /\ Finished' = Finished
    BY <1>2, FinishedSame, Zenon DEF ToConnect
  <2>2. connecting'.reqs = d.reqs
    BY <2>1, DeviceFacts, Zenon
  <2>3. Split(Queued', ReqsOf(w), {} \cup d.reqs, Finished, asked)
    BY <1>2, NobodysRequests DEF Split
  <2>4. {} \cup d.reqs = d.reqs
    OBVIOUS
  <2> QED
    BY <2>1, <2>2, <2>3, <2>4, Rearranged, Zenon
<1>3. CASE ToFail(d, w) \/ ToServe(d, w)
  <2>1. answers' = Answered(d.reqs) /\ waitings' = w /\ connecting' = connecting
    BY <1>3, Zenon DEF ToFail, ToServe
  <2>2. answers' \in [Requests -> {0, 1}] /\ Split(Queued', ReqsOf(w), connecting.reqs, Finished', asked)
    BY <2>1, AnswersR
  <2> QED
    BY <2>1, <2>2, Rearranged, Zenon
<1> QED
  BY <1>1, <1>2, <1>3, Outcomes, Zenon

\* The steps that move no request.
LEMMA OthersR ==
    ASSUME RInv, UNCHANGED <<connecting, answers, asked>>, Queued' = Queued,
           Apart(waitings'), ReqsOf(waitings') = ReqsOf(waitings)
    PROVE  RInv'
<1>1. connecting' = connecting /\ answers' = answers /\ asked' = asked /\ Finished' = Finished
  BY FinishedSame
<1> QED
  BY <1>1, Zenon DEF RInv

\* Waiting requests are answered.
LEMMA WaitingAnswered ==
    ASSUME RInv, UNCHANGED <<connecting, asked>>, Queued' = Queued,
           NEW R, R \subseteq ReqsOf(waitings), answers' = Answered(R),
           Apart(waitings'), ReqsOf(waitings') = ReqsOf(waitings) \ R
    PROVE  RInv'
<1>1. connecting' = connecting /\ asked' = asked
  OBVIOUS
<1>2. /\ R \subseteq asked /\ answers \in [Requests -> {0, 1}] /\ asked \subseteq Requests
      /\ Split(Queued, ReqsOf(waitings) \ R, connecting.reqs, Finished, asked \ R)
  BY DEF RInv, Split
<1>3. /\ answers' \in [Requests -> {0, 1}]
      /\ Split(Queued, ReqsOf(waitings) \ R, connecting.reqs, Finished', asked)
  BY <1>2, AnswersR
<1> QED
  BY <1>1, <1>2, <1>3, Rearranged, Zenon

\* The requests of the device being connected are answered.
LEMMA ConnectingAnswered ==
    ASSUME RInv, connecting' = NoDevice, UNCHANGED <<waitings, asked>>, Queued' = Queued,
           answers' = Answered(connecting.reqs)
    PROVE  RInv'
<1>1. waitings' = waitings /\ asked' = asked
  OBVIOUS
<1>2. PICK R : R = connecting.reqs
  OBVIOUS
<1>3. /\ R \subseteq asked /\ answers \in [Requests -> {0, 1}] /\ asked \subseteq Requests
      /\ Split(Queued, ReqsOf(waitings), R \ R, Finished, asked \ R)
  <2>1. R \subseteq R
    OBVIOUS
  <2> QED
    BY <1>2, <2>1 DEF RInv, Split
<1>4. /\ answers' \in [Requests -> {0, 1}]
      /\ Split(Queued, ReqsOf(waitings), R \ R, Finished', asked)
  BY <1>2, <1>3, AnswersR
<1>5. connecting'.reqs = R \ R
  BY NobodysRequests
<1> QED
  BY <1>1, <1>3, <1>4, <1>5, Rearranged, Zenon DEF RInv

\* A connect request.
LEMMA RequestR ==
    ASSUME RequestInv, ConnectRequestOnAvailableState \/ ConnectRequestOnConnectingState
    PROVE  RInv'
<1>0. /\ DInv /\ AInv /\ RInv /\ waitings \in Lists /\ connecting \in Devices \cup {NoDevice}
      /\ answers \in [Requests -> {0, 1}] /\ asked \subseteq Requests /\ Apart(waitings)
  BY Zenon DEF RequestInv, WaitInv, EventInv, DInv, RInv
<1>1. PICK r \in Requests : r = Arg /\ QTook(Msg("connect", Arg))
  BY TakingSteps, Zenon DEF RequestInv, WaitInv, EventInv, QInv
<1>2. Queued' = Queued \ {r} /\ r \in Queued
  BY <1>1, QueuedFacts, Zenon
<1>3. asked' = asked
  BY Zenon DEF ConnectRequestOnAvailableState, ConnectRequestOnConnectingState
<1>4. {r} \subseteq asked /\ Split(Queued', ReqsOf(waitings), connecting.reqs, Finished, asked \ {r})
  BY <1>0, <1>2 DEF RInv, Split
<1>5. ReqsOf(waitings) \cap {r} = {}
  BY <1>0, <1>2 DEF RInv, Split
<1>6. CASE ConnectRequestOnAvailableState
  <2>1. CASE /\ PendingDevice(Device(AddrOf[Arg], "WAIT_SCHEDULE", {Arg}), waitings, connecting)
             /\ answers' = answers
    <3>1. PICK d \in Devices : d = Device(AddrOf[Arg], "WAIT_SCHEDULE", {Arg})
      BY <1>1, DeviceFacts, Zenon
    <3>2. d.reqs = {r}
      BY <1>1, <3>1, Zenon DEF Device
    <3>3. d.reqs \cap ReqsOf(waitings) = {}
      BY <1>5, <3>2
    <3>4. /\ Apart(waitings')
          /\ \/ connecting'.reqs = connecting.reqs \cup d.reqs /\ ReqsOf(waitings') = ReqsOf(waitings)
             \/ connecting'.reqs = connecting.reqs /\ ReqsOf(waitings') = ReqsOf(waitings) \cup d.reqs
      BY <1>0, <2>1, <3>1, <3>3, PendedParts, ZenonT(60)
    <3>5. /\ Split(Queued', ReqsOf(waitings) \cup {r}, connecting.reqs, Finished, asked)
          /\ Split(Queued', ReqsOf(waitings), connecting.reqs \cup {r}, Finished, asked)
      BY <1>4 DEF Split
    <3>6. Finished' = Finished /\ answers' = answers
      BY <2>1, FinishedSame
    <3> QED
      BY <1>0, <1>3, <3>2, <3>4, <3>5, <3>6, Rearranged, Zenon
  <2>2. CASE answers' = Answered({Arg}) /\ UNCHANGED devices
    <3>1. connecting' = connecting /\ waitings' = waitings /\ answers' = Answered({r})
      BY <1>1, <2>2 DEF devices
    <3>2. /\ answers' \in [Requests -> {0, 1}]
          /\ Split(Queued', ReqsOf(waitings), connecting.reqs, Finished', asked)
      BY <1>0, <1>4, <3>1, AnswersR
    <3> QED
      BY <1>0, <1>3, <3>1, <3>2, Rearranged, Zenon
  <2> QED
    BY <1>6, <2>1, <2>2, Zenon DEF ConnectRequestOnAvailableState
<1>7. CASE ConnectRequestOnConnectingState
  <2>1. PICK hint \in {0} \cup Ids :
            AttempReuseConnect(Device(AddrOf[Arg], "INIT", {Arg}), waitings, hint, FALSE)
    BY <1>7, Zenon DEF ConnectRequestOnConnectingState
  <2>2. PICK d \in Devices : d = Device(AddrOf[Arg], "INIT", {Arg})
    BY <1>1, DeviceFacts, Zenon
  <2>3. d.reqs = {r}
    BY <1>1, <2>2, Zenon DEF Device
  <2>4. AttempReuseConnect(d, waitings, hint, FALSE)
    BY <2>1, <2>2, Zenon
  <2> QED
    BY <1>0, <1>3, <1>4, <2>3, <2>4, AttemptR, Zenon
<1> QED
  BY <1>6, <1>7

\* The next waiting device.
LEMMA PendingR == RequestInv /\ HandlePendingRequest => RInv'
<1> SUFFICES ASSUME RequestInv, HandlePendingRequest
             PROVE  RInv'
  OBVIOUS
<1> DEFINE i == First({j \in DOMAIN waitings : waitings[j].state = "WAIT_SCHEDULE"})
<1>0. /\ DInv /\ AInv /\ RInv /\ waitings \in Lists
      /\ answers \in [Requests -> {0, 1}] /\ asked \subseteq Requests /\ Apart(waitings)
  BY Zenon DEF RequestInv, WaitInv, EventInv, DInv, RInv
<1>1. asked' = asked /\ Queued' = Queued
  <2>1. asked' = asked
    BY DEF HandlePendingRequest
  <2> QED
    BY <2>1, TakingSteps, QueuedFacts, Zenon DEF RequestInv, WaitInv, EventInv, QInv
<1>2. CASE mgr = "AVAILABLE" /\ i # 0
  <2>1. i \in DOMAIN waitings
    BY <1>0, <1>2, NextInLine, Zenon
  <2>2. PICK hint \in {0} \cup Ids :
            AttempReuseConnect(waitings[i], RemoveAt(waitings, i), hint, TRUE)
    BY <1>2, Zenon DEF HandlePendingRequest
  <2>3. PICK w \in Lists : w = RemoveAt(waitings, i) /\ Range(w) = Range(waitings) \ {waitings[i]}
    BY <1>0, <2>1, RemoveFacts, Zenon
  <2>4. PICK d \in Devices : d = waitings[i] /\ d \in Range(waitings)
    BY <1>0, <2>1, ListFacts, Zenon
  <2>5. Apart(w) /\ ReqsOf(w) = ReqsOf(waitings) \ d.reqs /\ d.reqs \subseteq ReqsOf(waitings)
    <3>1. Range(w) = Range(waitings) \ {d}
      BY <2>3, <2>4, Zenon
    <3>2. d \in Range(waitings) /\ Apart(waitings)
      BY <1>0, <2>4, Zenon
    <3> HIDE DEF i
    <3> QED
      BY <3>1, <3>2, DeviceTaken
  <2>6. d.reqs \subseteq asked /\ Split(Queued', ReqsOf(w), connecting.reqs, Finished, asked \ d.reqs)
    BY <1>0, <1>1, <2>5 DEF RInv, Split
  <2>7. AttempReuseConnect(d, w, hint, TRUE) /\ connecting = NoDevice
    BY <1>0, <1>2, <2>2, <2>3, <2>4, Zenon DEF AInv
  <2> QED
    BY <1>0, <1>1, <2>5, <2>6, <2>7, AttemptR, Zenon
<1>3. CASE UNCHANGED <<mgr, devices, conns, made, timeouts, answers>>
  <2>1. UNCHANGED <<connecting, answers, asked>> /\ waitings' = waitings
    BY <1>1, <1>3 DEF devices
  <2> QED
    BY <1>0, <1>1, <2>1, OthersR, Zenon
<1> QED
  BY <1>2, <1>3, Zenon DEF HandlePendingRequest

\* The attempt succeeds.
LEMMA ConnectedR == RequestInv /\ ClientConnected => RInv'
<1> SUFFICES ASSUME RequestInv, ClientConnected
             PROVE  RInv'
  OBVIOUS
<1>0. RInv /\ Apart(waitings) /\ waitings \in Lists
  BY Zenon DEF RequestInv, RInv, WaitInv, EventInv, DInv
<1>1. Arg \in Ids /\ QTook(Msg("success", Arg))
  BY TakingSteps, Zenon DEF RequestInv, WaitInv, EventInv, QInv
<1>2. Queued' = Queued /\ asked' = asked
  BY <1>1, QueuedFacts, ConnectedCases, Zenon
<1>3. ASSUME NEW i, ServesWaiting(Arg, i)
      PROVE  RInv'
  <2>1. /\ i # 0 /\ i = Find(waitings, conns[Arg].addr) /\ waitings' = RemoveAt(waitings, i)
        /\ answers' = Answered(waitings[i].reqs) /\ connecting' = connecting
    BY <1>3, Zenon DEF ServesWaiting
  <2>2. i \in DOMAIN waitings
    BY <1>0, <2>1, FindFacts, Zenon DEF Lists
  <2>3. PICK d \in Range(waitings) : d = waitings[i]
    BY <1>0, <2>2, ListFacts, Zenon
  <2>4. PICK v : v = waitings' /\ Range(v) = Range(waitings) \ {d}
    BY <1>0, <2>1, <2>2, <2>3, RemoveFacts, Zenon
  <2>5. Apart(v) /\ ReqsOf(v) = ReqsOf(waitings) \ d.reqs /\ d.reqs \subseteq ReqsOf(waitings)
    BY <1>0, <2>4, DeviceTaken
  <2>6. UNCHANGED <<connecting, asked>>
    BY <1>2, <2>1
  <2> QED
    BY <1>0, <1>2, <2>1, <2>3, <2>4, <2>5, <2>6, WaitingAnswered, Zenon
<1>4. CASE GivesBack(Arg)
  <2>1. UNCHANGED <<connecting, answers, asked>> /\ waitings' = waitings
    BY <1>2, <1>4 DEF GivesBack
  <2> QED
    BY <1>0, <1>2, <2>1, OthersR, Zenon
<1>5. CASE ServesConnecting(Arg)
  <2>1. /\ connecting' = NoDevice /\ UNCHANGED <<waitings, asked>>
        /\ answers' = Answered(connecting.reqs)
    BY <1>2, <1>5 DEF ServesConnecting
  <2> QED
    BY <1>0, <1>2, <2>1, ConnectingAnswered, Zenon
<1> QED
  BY <1>3, <1>4, <1>5, ConnectedCases, Zenon

\* The attempt fails.
LEMMA FailedR ==
    ASSUME RequestInv, NEW c \in Ids, ClientConnectFailed(c)
    PROVE  RInv'
<1>0. /\ RInv /\ Apart(waitings) /\ waitings \in Lists /\ DInv /\ CInv
      /\ answers \in [Requests -> {0, 1}] /\ asked \subseteq Requests
  BY Zenon DEF RequestInv, RInv, WaitInv, EventInv, DInv
<1>1. Queued' = Queued /\ asked' = asked
  BY QuietSteps, QueuedFacts, FailedCases, Zenon DEF RequestInv, WaitInv, EventInv, QInv, QuietStep
<1>2. CASE FailsLate(c)
  <2>1. UNCHANGED <<connecting, answers, asked>> /\ waitings' = Scheduled(waitings, conns[c].addr)
    BY <1>1, <1>2 DEF FailsLate
  <2>2. Apart(waitings') /\ ReqsOf(waitings') = ReqsOf(waitings)
    BY <1>0, <2>1, ScheduledParts, Zenon
  <2> QED
    BY <1>0, <1>1, <2>1, <2>2, OthersR, Zenon
<1>3. CASE FailsAnswered(c) \/ \E s : FailsServed(c, s)
  <2>1. /\ connecting' = NoDevice /\ UNCHANGED <<waitings, asked>>
        /\ answers' = Answered(connecting.reqs)
    BY <1>1, <1>3, Zenon DEF FailsAnswered, FailsServed
  <2> QED
    BY <1>0, <1>1, <2>1, ConnectingAnswered, Zenon
<1>4. CASE FailsPended(c)
  <2>1. /\ connecting.addr = conns[c].addr /\ answers' = answers
        /\ PendingDevice([connecting EXCEPT !.state = "PENDING"], waitings, NoDevice)
    BY <1>4, Zenon DEF FailsPended
  <2>2. connecting \in Devices
    <3>1. ListedClient(c)
      BY <1>0, FailedCases DEF CInv, Life, ListedClient
    <3> QED
      BY <2>1, <3>1, AttemptsOwn, Zenon DEF RequestInv
  <2>3. PICK d \in Devices : d = [connecting EXCEPT !.state = "PENDING"] /\ d.reqs = connecting.reqs
    BY <2>2, DeviceFacts, Zenon
  <2>4. d.reqs \cap ReqsOf(waitings) = {}
    BY <1>0, <2>3 DEF RInv, Split
  <2>5. /\ Apart(waitings')
        /\ \/ connecting'.reqs = NoDevice.reqs \cup d.reqs /\ ReqsOf(waitings') = ReqsOf(waitings)
           \/ connecting'.reqs = NoDevice.reqs /\ ReqsOf(waitings') = ReqsOf(waitings) \cup d.reqs
    BY <1>0, <2>1, <2>3, <2>4, PendedParts, ZenonT(60)
  <2>6. Finished' = Finished
    BY <2>1, FinishedSame
  <2>7. /\ Split(Queued, ReqsOf(waitings), NoDevice.reqs \cup d.reqs, Finished, asked)
        /\ Split(Queued, ReqsOf(waitings) \cup d.reqs, NoDevice.reqs, Finished, asked)
    BY <1>0, <2>3, NobodysRequests DEF RInv, Split
  <2> QED
    BY <1>0, <1>1, <2>1, <2>5, <2>6, <2>7, Rearranged, Zenon
<1> QED
  BY <1>2, <1>3, <1>4, FailedCases, Zenon

\* A connection is accepted, resumes or breaks, or an address is pended no longer.
LEMMA ServedR ==
    ASSUME RequestInv,
           \/ ServerAccepted \/ ConnectionResume \/ ConnectionException
           \/ \E a \in Addrs : Unpend(a)
    PROVE  RInv'
<1>0. RInv /\ Apart(waitings) /\ waitings \in Lists /\ queue \in Queues
  BY Zenon DEF RequestInv, RInv, WaitInv, EventInv, DInv, QInv
<1>1. Queued' = Queued
  <2>1. QSame \/ \E w \in {"accepted", "exception"} : Arg \in Ids /\ QTook(Msg(w, Arg))
    BY <1>0, TakingSteps, QuietSteps, Zenon DEF QuietStep
  <2> QED
    BY <2>1, QueuedFacts, Zenon
<1>2. connecting' = connecting /\ asked' = asked
  <2>1. ASSUME ConnectionException \/ \E a \in Addrs : Unpend(a)
        PROVE  connecting' = connecting /\ asked' = asked
    BY <2>1 DEF ConnectionException, Unpend
  <2> QED
    BY <2>1, AcceptedCases, ResumeCases, Zenon
<1>3. CASE ServesAll(Arg)
  <2>1. PICK a : answers' = Answered(RequestsFor(a)) /\ waitings' = Without(waitings, a)
    BY <1>3, Zenon DEF ServesAll
  <2>2. /\ Apart(waitings') /\ ReqsOf(waitings') = ReqsOf(waitings) \ RequestsFor(a)
        /\ RequestsFor(a) \subseteq ReqsOf(waitings)
    BY <1>0, <2>1, WithoutParts, Zenon
  <2>3. UNCHANGED <<connecting, asked>>
    BY <1>2
  <2> QED
    BY <1>0, <1>1, <2>1, <2>2, <2>3, WaitingAnswered, Zenon
<1>4. ASSUME NEW a, waitings' \in {Scheduled(waitings, a), Unpended(waitings, a), waitings},
             answers' = answers
      PROVE  RInv'
  <2>1. Apart(waitings') /\ ReqsOf(waitings') = ReqsOf(waitings)
    BY <1>0, <1>4, ScheduledParts, Zenon
  <2>2. UNCHANGED <<connecting, answers, asked>>
    BY <1>2, <1>4
  <2> QED
    BY <1>0, <1>1, <2>1, <2>2, OthersR, Zenon
<1>5. CASE ServerAccepted
  <2>1. PICK a : ServesAll(Arg) \/ (waitings' = Unpended(waitings, a) /\ answers' = answers)
    BY <1>5, AcceptedCases, Zenon
  <2> QED
    BY <1>3, <1>4, <2>1
<1>6. CASE ConnectionResume
  BY <1>3, <1>4, <1>6, ResumeCases, Zenon
<1>7. CASE ConnectionException
  <2>1. PICK a : waitings' = Scheduled(waitings, a) /\ answers' = answers
    BY <1>7 DEF ConnectionException
  <2> QED
    BY <1>4, <2>1
<1>8. ASSUME NEW a \in Addrs, Unpend(a)
      PROVE  RInv'
  <2>1. waitings' = Unpended(waitings, a) /\ answers' = answers
    BY <1>8 DEF Unpend
  <2> QED
    BY <1>4, <2>1
<1> QED
  BY <1>5, <1>6, <1>7, <1>8, Zenon

\* The reset answers everyone who waits.
LEMMA ResetR == RequestInv /\ Reset => RInv'
<1> SUFFICES ASSUME RequestInv, Reset
             PROVE  RInv'
  OBVIOUS
<1>0. /\ RInv /\ waitings \in Lists /\ queue \in Queues
      /\ answers \in [Requests -> {0, 1}] /\ asked \subseteq Requests
  BY Zenon DEF RequestInv, RInv, WaitInv, EventInv, DInv, QInv
<1>1. Queued' = Queued
  BY <1>0, TakingSteps, QueuedFacts, Zenon
<1>2. /\ connecting' = NoDevice /\ waitings' = <<>> /\ asked' = asked
      /\ answers' = Answered(connecting.reqs \cup WaitingRequests)
  BY DEF Reset, ResetTo
<1>3. WaitingRequests = ReqsOf(waitings)
  BY Zenon DEF WaitingRequests, ReqsOf, Range
<1>4. PICK R : R = connecting.reqs \cup ReqsOf(waitings)
  BY Zenon
<1>5. R \subseteq asked /\ Split(Queued, {}, {}, Finished, asked \ R)
  BY <1>0, <1>4 DEF RInv, Split
<1>6. answers' \in [Requests -> {0, 1}] /\ Split(Queued, {}, {}, Finished', asked)
  BY <1>0, <1>2, <1>3, <1>4, <1>5, AnswersR, Zenon
<1>7. Apart(waitings') /\ ReqsOf(waitings') = {}
  BY <1>2 DEF Apart, ReqsOf, Range
<1>8. connecting'.reqs = {}
  BY <1>2, NobodysRequests, Zenon
<1> QED
  BY <1>0, <1>1, <1>2, <1>6, <1>7, <1>8, Rearranged, Zenon

\* Every step keeps every request in one place.
LEMMA NextR == RequestInv /\ [Next]_vars => RInv'
<1> SUFFICES ASSUME RequestInv, [Next]_vars
             PROVE  RInv'
  OBVIOUS
<1>0. RInv /\ Apart(waitings) /\ queue \in Queues /\ QInv /\ CInv
  BY Zenon DEF RequestInv, RInv, WaitInv, EventInv, QInv
<1>1. ASSUME NEW c \in Ids, ClientConnectTimeout(c)
      PROVE  RInv'
  <2>1. Queued' = Queued
    BY <1>0, <1>1, QuietSteps, QueuedFacts, Zenon DEF QuietStep
  <2>2. CASE answers' = Answered(connecting.reqs) /\ connecting' = NoDevice
    <3>1. UNCHANGED <<waitings, asked>>
      BY <1>1 DEF ClientConnectTimeout
    <3> QED
      BY <1>0, <2>1, <2>2, <3>1, ConnectingAnswered, Zenon
  <2>3. CASE UNCHANGED <<mgr, connecting, answers, queue>>
    <3>1. UNCHANGED <<connecting, answers, asked>> /\ waitings' = waitings
      BY <1>1, <2>3 DEF ClientConnectTimeout
    <3> QED
      BY <1>0, <2>1, <3>1, OthersR, Zenon
  <2> QED
    BY <1>1, <2>2, <2>3, Zenon DEF ClientConnectTimeout
<1>2. ASSUME NEW r \in Requests, BrConnectDevice(r)
      PROVE  RInv'
  <2>1. Queued' = Queued \cup {r}
    BY <1>0, <1>2, PostingSteps, QueuedFacts, Zenon
  <2>2. /\ r \notin asked /\ asked' = asked \cup {r} /\ connecting' = connecting
        /\ waitings' = waitings /\ answers' = answers
    BY <1>2 DEF BrConnectDevice, devices
  <2>3. Finished' = Finished
    BY <2>2, FinishedSame
  <2>4. Split(Queued', ReqsOf(waitings), connecting.reqs, Finished, asked')
    BY <1>0, <2>1, <2>2 DEF RInv, Split
  <2>5. asked' \subseteq Requests /\ answers \in [Requests -> {0, 1}]
    BY <1>0, <2>2 DEF RInv
  <2> QED
    BY <1>0, <2>2, <2>3, <2>4, <2>5, Rearranged, Zenon
<1>3. ASSUME Queued' = Queued, UNCHANGED <<connecting, answers, asked>>, waitings' = waitings
      PROVE  RInv'
  BY <1>0, <1>3, OthersR, Zenon
<1>4. ASSUME \/ \E c \in Ids : ThreadStep(c) \/ BrDisconnectDeviceNow(c) \/ Negotiate(c)
             \/ \E a \in Addrs : Accept(a) \/ BrPendConnection(a)
             \/ OnBtStateChanged \/ UNCHANGED vars
      PROVE  RInv'
  <2>1. Queued' = Queued
    <3>1. CASE QuietStep
      BY <1>0, <3>1, QuietSteps, QueuedFacts, Zenon
    <3>2. ASSUME NEW c \in Ids, Announce(c) \/ LoopReadExit(c)
          PROVE  Queued' = Queued
      <4>1. \E w \in {"success", "accepted", "exception"} : QPut(Msg(w, c))
        BY <1>0, <3>2, PostingSteps, Zenon
      <4> QED
        BY <4>1, QueuedFacts, Zenon
    <3>3. CASE UNCHANGED vars
      BY <3>3 DEF vars, Queued
    <3> QED
      BY <1>4, <3>1, <3>2, <3>3, Zenon DEF QuietStep, ThreadStep
  <2>2. ASSUME NEW c \in Ids, ThreadStep(c) \/ BrDisconnectDeviceNow(c) \/ Negotiate(c)
        PROVE  UNCHANGED Others
    BY <2>2, Zenon DEF ThreadStep, StartBrClientConnect, Announce, LoopReadExit, EndNegotiation,
                       BrDisconnectDeviceNow, Negotiate
  <2>3. ASSUME NEW a \in Addrs, Accept(a)
        PROVE  UNCHANGED Others
    BY <2>3, Zenon DEF Accept
  <2>4. CASE UNCHANGED Others
    BY <1>3, <2>1, <2>4 DEF Others, devices
  <2>5. ASSUME (\E a \in Addrs : BrPendConnection(a)) \/ OnBtStateChanged \/ UNCHANGED vars
        PROVE  UNCHANGED <<connecting, answers, asked>> /\ waitings' = waitings
    BY <2>5 DEF BrPendConnection, OnBtStateChanged, vars, devices
  <2> QED
    BY <1>3, <1>4, <2>1, <2>2, <2>3, <2>4, <2>5, Zenon
<1> QED
  BY <1>1, <1>2, <1>4, RequestR, PendingR, ConnectedR, FailedR, ServedR, ResetR, Zenon
     DEF Next, QueueStep, TimerStep, EnvStep

\* Nothing is requested at the start.
LEMMA InitR == Init => RInv
<1> SUFFICES ASSUME Init
             PROVE  RInv
  OBVIOUS
<1>1. Finished = {} /\ answers \in [Requests -> {0, 1}]
  BY DEF Init, Finished
<1>2. Apart(waitings) /\ ReqsOf(waitings) = {}
  BY DEF Init, Apart, ReqsOf, Range
<1>3. Queued = {}
  <2>1. queue = <<NextCmd>>
    BY DEF Init
  <2>2. \A r \in Requests : Msg("connect", r) # NextCmd
    BY DEF Msg, NextCmd
  <2> QED
    BY <2>1, <2>2 DEF Queued, In
<1>4. connecting.reqs = {} /\ asked = {}
  BY NobodysRequests DEF Init
<1> QED
  BY <1>1, <1>2, <1>3, <1>4 DEF RInv, Split

\* Every request is in the queue, waits, is being connected, or has its answer.
THEOREM RequestsArePlaced == Spec => []RequestInv
<1>1. Init => RequestInv
  BY InitEvent, InitWait, InitR, Zenon DEF RequestInv, WaitInv
<1>2. RequestInv /\ [Next]_vars => RequestInv'
  <2> SUFFICES ASSUME RequestInv, [Next]_vars
               PROVE  RequestInv'
    OBVIOUS
  <2>1. DInv' /\ QInv' /\ CInv'
    BY NextD, NextQ, NextC, Zenon DEF RequestInv, WaitInv, EventInv
  <2>2. AInv' /\ WInv'
    BY NextW, Zenon DEF RequestInv
  <2> QED
    BY <2>1, <2>2, NextR, Zenon DEF RequestInv, WaitInv, EventInv
<1> QED
  BY <1>1, <1>2, PTL DEF Spec

\* A set whose members are all the same has at most one.
LEMMA AtMostOne ==
    ASSUME NEW S, \A x, y \in S : x = y
    PROVE  Cardinality(S) = IF S = {} THEN 0 ELSE 1
<1>1. CASE S = {}
  BY <1>1, FS_EmptySet
<1>2. CASE S # {}
  <2>1. PICK x \in S : S = {x}
    BY <1>2
  <2> QED
    BY <2>1, FS_Singleton
<1> QED
  BY <1>1, <1>2

\* A request that was made is in exactly one place until it gets exactly one answer:
\* none is lost and none is answered twice.
THEOREM RequestsAreKept == Spec => []RequestKept
<1>1. RequestInv => RequestKept
  <2> SUFFICES ASSUME RequestInv, NEW r \in Requests
               PROVE  InQueue(r) + Holds(r) + answers[r] = IF r \in asked THEN 1 ELSE 0
    BY Zenon DEF RequestKept
  <2>1. RInv /\ queue \in Queues /\ waitings \in Lists
    BY Zenon DEF RequestInv, WaitInv, EventInv, DInv, QInv
  <2>2. InQueue(r) = IF r \in Queued THEN 1 ELSE 0
    <3> DEFINE S == {i \in DOMAIN queue : queue[i] = Msg("connect", r)}
    <3>1. \A i, j \in S : i = j
      BY <2>1, MessageTypes DEF Queues, Once
    <3>2. S = {} <=> r \notin Queued
      BY DEF Queued, In
    <3> QED
      BY <3>1, <3>2, AtMostOne DEF InQueue
  <2>3. Cardinality({i \in DOMAIN waitings : r \in waitings[i].reqs})
           = IF r \in ReqsOf(waitings) THEN 1 ELSE 0
    <3> DEFINE S == {i \in DOMAIN waitings : r \in waitings[i].reqs}
    <3>1. \A i, j \in S : i = j
      <4>1. ASSUME NEW i \in S, NEW j \in S
            PROVE  i = j
        <5>1. waitings[i] \in Range(waitings) /\ waitings[j] \in Range(waitings)
          BY <2>1, ListFacts, Zenon
        <5>2. waitings[i] = waitings[j]
          BY <2>1, <4>1, <5>1 DEF RInv, Apart
        <5> QED
          BY <2>1, <4>1, <5>2, Zenon DEF Lists, Distinct
      <4> QED
        BY <4>1, Zenon
    <3>2. S = {} <=> r \notin ReqsOf(waitings)
      BY InPart DEF Range
    <3> QED
      BY <3>1, <3>2, AtMostOne
  <2>4. answers[r] = IF r \in Finished THEN 1 ELSE 0
    BY <2>1 DEF RInv, Finished
  <2> QED
    BY <2>1, <2>2, <2>3, <2>4 DEF RInv, Split, Holds
<1> QED
  BY <1>1, RequestsArePlaced, PTL
====
