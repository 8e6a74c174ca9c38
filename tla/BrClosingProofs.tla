-------------------------- MODULE BrClosingProofs --------------------------
(***************************************************************************)
(* Users who give back only what they took: no release is applied before   *)
(* the acquire it gives back, so that no count is negative, and an end     *)
(* that is willing to close counts no reference.                           *)
(***************************************************************************)
EXTENDS BrReferenceProofs

----------------------------------------------------------------------------
(* The invariant.                                                          *)

\* The references n has to account for, and what it has applied of the peer's.
Own(n) == Held(n) + todo[n].local
Applied(n) == rc[n] - Own(n)

\* What may be where: an acquire carries the count it led to, which is positive.
HighFrames == {m \in Frames : m.what # "exception" /\ m.delta # -1 /\ (m.delta = 1 => m.ref > 0)}
LowFrames == {m \in Frames : m.what # "exception" /\ m.delta = -1}
LinkFrames(open) == {m \in Frames : (m.delta = 1 => m.ref > 0) /\ (open => m.what # "exception")}
Queues(n) ==
    /\ sendq[n].high \in Seq(HighFrames) /\ sendq[n].low \in Seq(LowFrames)
    /\ todo[n].peer \in Seq(LowFrames)
Shape(n) == Queues(n) /\ inbox[n] \in Seq(LinkFrames(reading[n]))

\* While the peer can send and n reads, all that the peer has to account for has
\* been applied by n or is on its way.
Told(n) == linkUp /\ sock[Peer(n)] /\ reading[n] => Applied(n) + Inbound(n) = Own(Peer(n))

\* Beginning at a, the frames of q never take the sum below zero.
Above(q, a) == \A k \in 0..Len(q) : a + Carried(SubSeq(q, 1, k)) >= 0

\* Releases do not overtake the acquires they follow.
Level(n) == Applied(n) + Carried(todo[n].peer)
Backed(n) == Above(inbox[n], Level(n))

\* An end that is willing to close counts no reference.
Closing(n) == state[n] = "NEGOTIATION_CLOSING" => rc[n] <= 0

\* One end is in order; and both are.
End(n) == Held(n) >= 0 /\ Shape(n) /\ Told(n) /\ Backed(n) /\ Closing(n)
Honest == \A n \in Nodes : End(n)

----------------------------------------------------------------------------
(* Sums over the beginnings of a queue.                                    *)

\* The change of a frame.
LEMMA FrameDelta == \A m \in Frames : m.delta \in {-1, 0, 1} /\ m.delta \in Int
BY DEF Frames

\* A queue of releases carries no more than nothing.
LEMMA CarriedFalls ==
    ASSUME NEW q \in Seq(LowFrames)
    PROVE  q \in Seq(Frames) /\ Carried(q) \in Int /\ Carried(q) <= 0
<1>1. q \in Seq(Frames) /\ \A i \in DOMAIN q : q[i].delta = -1
  BY DEF LowFrames
<1>2. With(q, 1) = {}
  BY <1>1 DEF With
<1>3. Cardinality(With(q, 1)) = 0
  BY <1>2, FS_EmptySet, Zenon
<1>4. Cardinality(With(q, -1)) \in Nat
  BY <1>1, WithFinite, Zenon
<1> QED
  BY <1>1, <1>3, <1>4, CarriedWith, CarriedType

\* The sum at the beginning and at the end.
LEMMA AboveEnds ==
    ASSUME NEW q \in Seq(Frames), NEW a \in Int, Above(q, a)
    PROVE  a >= 0 /\ a + Carried(q) >= 0
<1>1. 0 \in 0..Len(q) /\ Len(q) \in 0..Len(q) /\ SubSeq(q, 1, 0) = <<>> /\ SubSeq(q, 1, Len(q)) = q
  OBVIOUS
<1>2. a + Carried(<<>>) >= 0 /\ a + Carried(q) >= 0
  BY <1>1, Zenon DEF Above
<1> QED
  BY <1>2, CarriedEmpty

\* The first frame is taken.
LEMMA AboveTail ==
    ASSUME NEW q \in Seq(Frames), NEW a \in Int, Above(q, a), q # <<>>
    PROVE  Above(Tail(q), a + Head(q).delta)
<1> SUFFICES ASSUME NEW k \in 0..Len(Tail(q))
             PROVE  a + Head(q).delta + Carried(SubSeq(Tail(q), 1, k)) >= 0
  BY DEF Above
<1> DEFINE s == SubSeq(q, 1, k + 1)
<1>1. /\ s \in Seq(Frames) /\ s # <<>> /\ Head(s) = Head(q) /\ Head(q) \in Frames
      /\ SubSeq(Tail(q), 1, k) = Tail(s) /\ k + 1 \in 0..Len(q)
  BY SMTT(60)
<1>2. a + Carried(s) >= 0
  BY <1>1 DEF Above
<1>3. Carried(Tail(s)) = Carried(s) - Head(q).delta
  BY <1>1, CarriedTail, Zenon
<1> HIDE DEF s
<1>4. Carried(s) \in Int
  BY <1>1, CarriedType, Zenon
<1>5. Head(q).delta \in Int
  BY <1>1, FrameDelta, Zenon
<1>6. \A c, t, d \in Int : a + c >= 0 /\ t = c - d => a + d + t >= 0
  OBVIOUS
<1>7. Carried(s) - Head(q).delta \in Int
  BY ONLY <1>4, <1>5
<1> QED
  BY <1>1, <1>2, <1>3, <1>4, <1>5, <1>6, <1>7, Zenon

\* A frame is added.
LEMMA AboveAppend ==
    ASSUME NEW q \in Seq(Frames), NEW a \in Int, Above(q, a), NEW m \in Frames,
           a + Carried(q) + m.delta >= 0
    PROVE  Above(Append(q, m), a)
<1> SUFFICES ASSUME NEW k \in 0..Len(Append(q, m))
             PROVE  a + Carried(SubSeq(Append(q, m), 1, k)) >= 0
  BY DEF Above
<1>1. CASE k \in 0..Len(q)
  <2>1. SubSeq(Append(q, m), 1, k) = SubSeq(q, 1, k)
    BY <1>1
  <2> QED
    BY <1>1, <2>1, Zenon DEF Above
<1>2. CASE k = Len(q) + 1
  <2>1. SubSeq(Append(q, m), 1, k) = Append(q, m)
    BY <1>2
  <2>2. Carried(Append(q, m)) = Carried(q) + m.delta
    BY CarriedAppend, Zenon
  <2>3. Carried(q) \in Int /\ m.delta \in Int
    BY CarriedType, FrameDelta, Zenon
  <2>4. a + (Carried(q) + m.delta) >= 0
    BY ONLY <2>3, a \in Int, a + Carried(q) + m.delta >= 0
  <2> QED
    BY <2>1, <2>2, <2>4, Zenon
<1> QED
  BY <1>1, <1>2

\* The queue is cut, and ends with a frame that carries nothing.
LEMMA AboveCut ==
    ASSUME NEW q \in Seq(Frames), NEW a \in Int, Above(q, a), NEW j \in 0..Len(q)
    PROVE  Above(Append(SubSeq(q, 1, j), Exception), a)
<1> DEFINE s == SubSeq(q, 1, j)
<1>1. s \in Seq(Frames) /\ \A k \in 0..Len(s) : k \in 0..Len(q) /\ SubSeq(s, 1, k) = SubSeq(q, 1, k)
  OBVIOUS
<1>2. Above(s, a)
  BY <1>1, Zenon DEF Above
<1>3. Exception \in Frames /\ Exception.delta = 0
  BY FrameTypes DEF Exception
<1> HIDE DEF s
<1>4. Carried(s) \in Int
  BY <1>1, CarriedType, Zenon
<1>5. a + Carried(s) >= 0
  BY <1>1, <1>2, AboveEnds, Zenon
<1>6. a + Carried(s) + Exception.delta >= 0
  BY ONLY <1>3, <1>4, <1>5, a \in Int
<1>7. Above(Append(s, Exception), a)
  BY <1>1, <1>2, <1>3, <1>6, AboveAppend, Zenon
<1> QED
  BY <1>7, Zenon DEF s

----------------------------------------------------------------------------
(* The sums, step by step.                                                 *)

\* The numbers are integers.
LEMMA NumberTypes ==
    ASSUME TypeOK, NEW n \in Nodes
    PROVE  /\ rc[n] \in Int /\ Held(n) \in Int /\ Own(n) \in Int /\ Applied(n) \in Int
           /\ Level(n) \in Int /\ Inbound(n) \in Int /\ todo[n].local \in Nat
           /\ acquired[n] \in Nat /\ released[n] \in Nat
           /\ Carried(inbox[n]) \in Int /\ Carried(todo[n].peer) \in Int
           /\ Carried(sendq[n].high) \in Int /\ Carried(sendq[n].low) \in Int
<1>1. acquired[n] \in Nat /\ released[n] \in Nat
  BY DEF TypeOK
<1>2. /\ rc[n] \in Int /\ todo[n].local \in Nat
      /\ Carried(inbox[n]) \in Int /\ Carried(todo[n].peer) \in Int
      /\ Carried(sendq[n].high) \in Int /\ Carried(sendq[n].low) \in Int
  BY QueueTypes, Zenon
<1>3. Carried(sendq[Peer(n)].high) \in Int /\ Carried(sendq[Peer(n)].low) \in Int
  BY PeerFacts, QueueTypes, Zenon
<1>4. Inbound(n) \in Int
  BY <1>2, <1>3 DEF Inbound
<1>5. Held(n) \in Int
  BY <1>1 DEF Held
<1>6. Own(n) \in Int /\ Applied(n) \in Int
  BY <1>2, <1>5 DEF Own, Applied
<1>7. Level(n) \in Int
  BY <1>2, <1>6 DEF Level
<1> QED
  BY <1>1, <1>2, <1>4, <1>5, <1>6, <1>7, Zenon

\* The numbers of both ends.
Numbers == \A n \in Nodes :
    /\ Own(n) \in Int /\ Applied(n) \in Int /\ Level(n) \in Int /\ Inbound(n) \in Int
    /\ Held(n) \in Int /\ rc[n] \in Int

\* They are integers after a step as well.
LEMMA NumbersNext == TypeOK' => Numbers'
<1>1. TypeOK => Numbers
  BY NumberTypes, Zenon DEF Numbers
<1> QED
  BY <1>1, PTL

\* The same of one end.
LEMMA NumberTypesNext ==
    ASSUME TypeOK', NEW n \in Nodes
    PROVE  /\ Own(n)' \in Int /\ Applied(n)' \in Int /\ Level(n)' \in Int /\ Inbound(n)' \in Int
           /\ Held(n)' \in Int /\ rc'[n] \in Int
BY NumbersNext, Zenon DEF Numbers

\* What an end has applied, put off and not handled yet stays the same, and so does
\* the difference to what the peer has to account for.
Settled(n) ==
    /\ Level(n)' + Carried(inbox'[n]) = Level(n) + Carried(inbox[n])
    /\ Applied(n)' + Inbound(n)' - Own(Peer(n))' = Applied(n) + Inbound(n) - Own(Peer(n))

\* The sums after a step that moves these amounts.
LEMMA MovesSums ==
    ASSUME TypeOK, TypeOK', NEW n \in Nodes,
           NEW dRc \in Int, NEW dPeer \in Int, NEW dSend \in Int, NEW dLocal \in Int,
           NEW dIn \in Int, NEW dOut \in Int, NEW dUse \in Int,
           Moves(n, dRc, dPeer, dSend, dLocal), Passes(n, dIn, dOut, dUse)
    PROVE  /\ Own(n)' = Own(n) + dUse + dLocal /\ Own(Peer(n))' = Own(Peer(n))
           /\ Applied(n)' = Applied(n) + dRc - dUse - dLocal /\ Applied(Peer(n))' = Applied(Peer(n))
           /\ Level(n)' = Level(n) + dRc - dUse - dLocal + dPeer /\ Level(Peer(n))' = Level(Peer(n))
           /\ Inbound(n)' = Inbound(n) + dIn + dPeer
           /\ Inbound(Peer(n))' = Inbound(Peer(n)) + dOut + dSend
<1> DEFINE p == Peer(n)
<1>1. p \in Nodes /\ p # n /\ Peer(p) = n
  BY PeerFacts, Zenon
<1>2. /\ rc'[n] = rc[n] + dRc /\ rc'[p] = rc[p]
      /\ Carried(todo'[n].peer) = Carried(todo[n].peer) + dPeer
      /\ todo'[n].local = todo[n].local + dLocal
      /\ todo'[p] = todo[p] /\ sendq'[p] = sendq[p]
      /\ Carried(sendq'[n].high) + Carried(sendq'[n].low)
           = Carried(sendq[n].high) + Carried(sendq[n].low) + dSend
      /\ Carried(inbox'[n]) = Carried(inbox[n]) + dIn
      /\ Carried(inbox'[p]) = Carried(inbox[p]) + dOut
      /\ acquired'[n] - released'[n] = acquired[n] - released[n] + dUse
      /\ acquired'[p] = acquired[p] /\ released'[p] = released[p]
  BY Zenon DEF Moves, Passes
<1>3. /\ rc[n] \in Int /\ todo[n].local \in Nat /\ acquired[n] \in Nat /\ released[n] \in Nat
      /\ Carried(inbox[n]) \in Int /\ Carried(todo[n].peer) \in Int
      /\ Carried(sendq[n].high) \in Int /\ Carried(sendq[n].low) \in Int
      /\ Own(n) \in Int /\ Applied(n) \in Int
  BY NumberTypes, Zenon
<1>4. /\ rc[p] \in Int /\ todo[p].local \in Nat /\ acquired[p] \in Nat /\ released[p] \in Nat
      /\ Carried(inbox[p]) \in Int /\ Carried(todo[p].peer) \in Int
      /\ Carried(sendq[p].high) \in Int /\ Carried(sendq[p].low) \in Int
  BY <1>1, NumberTypes, Zenon
<1>5. /\ acquired'[n] \in Int /\ released'[n] \in Int
      /\ Carried(sendq'[n].high) \in Int /\ Carried(sendq'[n].low) \in Int
  <2>1. acquired'[n] \in Nat /\ released'[n] \in Nat
    BY Zenon DEF TypeOK
  <2>2. sendq'[n].high \in Seq(Frames) /\ sendq'[n].low \in Seq(Frames)
    BY Zenon DEF TypeOK
  <2>3. acquired'[n] \in Int /\ released'[n] \in Int
    BY <2>1
  <2> QED
    BY <2>2, <2>3, CarriedType, Zenon
<1> HIDE DEF p
<1>6. Own(n)' = Own(n) + dUse + dLocal
  BY <1>2, <1>3, <1>5 DEF Own, Held
<1>7. Own(p)' = Own(p)
  BY <1>2 DEF Own, Held
<1>8. Applied(n)' = Applied(n) + dRc - dUse - dLocal
  BY <1>2, <1>3, <1>6 DEF Applied
<1>9. Applied(p)' = Applied(p)
  BY <1>2, <1>7 DEF Applied
<1>10. Level(n)' = Level(n) + dRc - dUse - dLocal + dPeer
  BY <1>2, <1>3, <1>8 DEF Level
<1>11. Level(p)' = Level(p)
  BY <1>2, <1>9 DEF Level
<1>12. Inbound(n)' = Inbound(n) + dIn + dPeer
  BY <1>2, <1>3, <1>4 DEF Inbound, p
<1>13. Inbound(p)' = Inbound(p) + dOut + dSend
  <2>1. /\ Inbound(p) = Carried(inbox[p]) + Carried(todo[p].peer)
                            + Carried(sendq[n].high) + Carried(sendq[n].low)
        /\ Inbound(p)' = Carried(inbox'[p]) + Carried(todo'[p].peer)
                             + Carried(sendq'[n].high) + Carried(sendq'[n].low)
    BY <1>1, Zenon DEF Inbound
  <2>2. Carried(todo'[p].peer) = Carried(todo[p].peer)
    BY <1>2, Zenon
  <2>4. Carried(inbox'[p]) = Carried(inbox[p]) + dOut
    BY <1>2, Zenon
  <2>5. Carried(sendq'[n].high) + Carried(sendq'[n].low)
           = Carried(sendq[n].high) + Carried(sendq[n].low) + dSend
    BY <1>2, Zenon
  <2>6. (Carried(inbox[p]) + dOut) + Carried(todo[p].peer)
          + Carried(sendq'[n].high) + Carried(sendq'[n].low)
        = (Carried(inbox[p]) + Carried(todo[p].peer)
             + Carried(sendq[n].high) + Carried(sendq[n].low)) + dOut + dSend
    BY ONLY <1>3, <1>4, <1>5, <2>5, dOut \in Int, dSend \in Int, SMTT(60)
  <2> QED
    BY <2>1, <2>2, <2>4, <2>6, Zenon
<1> QED
  BY <1>6, <1>7, <1>8, <1>9, <1>10, <1>11, <1>12, <1>13, Zenon DEF p

\* A change and a take settle both ends.
LEMMA StepSettles ==
    ASSUME TypeOK, TypeOK', NEW n \in Nodes, Changes(n) \/ Takes(n)
    PROVE  \A m \in Nodes : Settled(m)
<1> DEFINE p == Peer(n)
<1>0. p \in Nodes /\ Peer(p) = n /\ \A m \in Nodes : m = n \/ m = p
  BY PeerFacts, Zenon
<1>1. PICK r \in Int, q \in Int, c \in Int, l \in Int, i \in Int, u \in Int :
         /\ Moves(n, r, q, c, l) /\ Passes(n, i, 0, u)
         /\ r - u - l + q + i = 0 /\ c = u + l
  <2>1. CASE Changes(n)
    <3>1. PICK c \in Int, u \in Int, l \in Int :
             Moves(n, c, 0, c, l) /\ Passes(n, 0, 0, u) /\ u + l = c
      BY <2>1, Zenon DEF Changes
    <3>2. 0 \in Int /\ c - u - l + 0 + 0 = 0 /\ c = u + l
      BY <3>1
    <3> QED
      BY <3>1, <3>2, Zenon
  <2>2. CASE Takes(n)
    <3>1. PICK r \in Int, q \in Int, c \in Int :
             Moves(n, r, q, 0, 0) /\ Passes(n, c, 0, 0) /\ r + q + c = 0
      BY <2>2, Zenon DEF Takes
    <3>2. 0 \in Int /\ r - 0 - 0 + q + c = 0 /\ 0 = 0 + 0
      BY <3>1
    <3> QED
      BY <3>1, <3>2, Zenon
  <2> QED
    BY <2>1, <2>2, Zenon
<1>2. /\ Own(n)' = Own(n) + u + l /\ Own(p)' = Own(p)
      /\ Applied(n)' = Applied(n) + r - u - l /\ Applied(p)' = Applied(p)
      /\ Level(n)' = Level(n) + r - u - l + q /\ Level(p)' = Level(p)
      /\ Inbound(n)' = Inbound(n) + i + q /\ Inbound(p)' = Inbound(p) + 0 + c
  <2>1. 0 \in Int
    OBVIOUS
  <2>2. Moves(n, r, q, c, l) /\ Passes(n, i, 0, u)
    BY <1>1, Zenon
  <2> QED
    BY <2>1, <2>2, MovesSums, SMTT(60)
<1>3. Carried(inbox'[n]) = Carried(inbox[n]) + i /\ Carried(inbox'[p]) = Carried(inbox[p]) + 0
  BY <1>1, Zenon DEF Passes
<1>4. /\ Own(n) \in Int /\ Applied(n) \in Int /\ Level(n) \in Int /\ Inbound(n) \in Int
      /\ Carried(inbox[n]) \in Int
  BY NumberTypes, Zenon
<1>5. /\ Own(p) \in Int /\ Applied(p) \in Int /\ Level(p) \in Int /\ Inbound(p) \in Int
      /\ Carried(inbox[p]) \in Int
  BY <1>0, NumberTypes, Zenon
<1> HIDE DEF p
<1>6. /\ Level(n)' + Carried(inbox'[n]) = Level(n) + Carried(inbox[n])
      /\ Applied(n)' + Inbound(n)' - Own(p)' = Applied(n) + Inbound(n) - Own(p)
  BY <1>1, <1>2, <1>3, <1>4, <1>5
<1>7. /\ Level(p)' + Carried(inbox'[p]) = Level(p) + Carried(inbox[p])
      /\ Applied(p)' + Inbound(p)' - Own(n)' = Applied(p) + Inbound(p) - Own(n)
  BY <1>1, <1>2, <1>3, <1>4, <1>5
<1>8. Settled(n)
  BY <1>6, Zenon DEF Settled, p
<1>9. Settled(p)
  BY <1>0, <1>7, Zenon DEF Settled
<1> QED
  BY <1>0, <1>8, <1>9, Zenon

\* Which part of the link a step of n touches: it takes at most one frame.
TakesOne(n) ==
    /\ inbox'[Peer(n)] = inbox[Peer(n)]
    /\ inbox'[n] = inbox[n] \/ (inbox[n] # <<>> /\ inbox'[n] = Tail(inbox[n]))

\* Releases still do not overtake acquires.
LEMMA SettledBacked ==
    ASSUME TypeOK, TypeOK', NEW m \in Nodes, Settled(m), Backed(m),
           inbox'[m] = inbox[m] \/ (inbox[m] # <<>> /\ inbox'[m] = Tail(inbox[m]))
    PROVE  Backed(m)'
<1>1. /\ Level(m) \in Int /\ inbox[m] \in Seq(Frames) /\ Carried(inbox[m]) \in Int
  BY NumberTypes, QueueTypes, Zenon
<1>2. Level(m)' \in Int
  BY NumberTypesNext, Zenon
<1>3. Level(m)' + Carried(inbox'[m]) = Level(m) + Carried(inbox[m])
  BY Zenon DEF Settled
<1>4. CASE inbox'[m] = inbox[m]
  <2>1. Level(m)' = Level(m)
    <3>1. \A a, b, c \in Int : a + c = b + c => a = b
      OBVIOUS
    <3> QED
      BY <1>1, <1>2, <1>3, <1>4, <3>1, Zenon
  <2> QED
    BY <1>4, <2>1, Zenon DEF Backed
<1>5. CASE inbox[m] # <<>> /\ inbox'[m] = Tail(inbox[m])
  <2>1. Carried(inbox'[m]) = Carried(inbox[m]) - Head(inbox[m]).delta
    BY <1>1, <1>5, CarriedTail, Zenon
  <2>2. Head(inbox[m]) \in Frames
    BY <1>1, <1>5
  <2>3. Head(inbox[m]).delta \in Int
    BY <2>2, FrameDelta, Zenon
  <2>4. Level(m)' = Level(m) + Head(inbox[m]).delta
    <3>1. PICK a \in Int : a = Level(m)'
      BY <1>2, Zenon
    <3>2. PICK b \in Int, c \in Int, e \in Int :
            b = Level(m) /\ c = Carried(inbox[m]) /\ e = Head(inbox[m]).delta
      BY <1>1, <2>3, Zenon
    <3>3. a + (c - e) = b + c
      BY ONLY <1>3, <2>1, <3>1, <3>2, Zenon
    <3>4. a = b + e
      BY ONLY a \in Int, b \in Int, c \in Int, e \in Int, <3>3
    <3> QED
      BY ONLY <3>1, <3>2, <3>4, Zenon
  <2>5. Above(Tail(inbox[m]), Level(m) + Head(inbox[m]).delta)
    BY <1>1, <1>5, AboveTail, Zenon DEF Backed
  <2> QED
    BY <1>5, <2>4, <2>5, Zenon DEF Backed
<1> QED
  BY <1>4, <1>5, Zenon

\* What the peer has told is still told, while it can send and n reads.
LEMMA SettledTold ==
    ASSUME TypeOK, TypeOK', Breaks, NEW m \in Nodes, Settled(m), Told(m)
    PROVE  Told(m)'
<1> DEFINE p == Peer(m)
<1>0. p \in Nodes
  BY PeerFacts, Zenon
<1> SUFFICES ASSUME linkUp', sock'[p], reading'[m]
             PROVE  Applied(m)' + Inbound(m)' = Own(p)'
  BY Zenon DEF Told
<1>1. linkUp /\ sock[p] /\ reading[m]
  BY <1>0, Zenon DEF Breaks
<1>2. Applied(m) + Inbound(m) = Own(p)
  BY <1>1, Zenon DEF Told
<1>3. Applied(m)' + Inbound(m)' - Own(p)' = Applied(m) + Inbound(m) - Own(p)
  BY Zenon DEF Settled
<1> HIDE DEF p
<1>4. Applied(m) \in Int /\ Inbound(m) \in Int /\ Own(p) \in Int
  BY <1>0, NumberTypes, Zenon
<1>5. Applied(m)' \in Int /\ Inbound(m)' \in Int /\ Own(p)' \in Int
  BY <1>0, NumberTypesNext, Zenon
<1> SUFFICES ASSUME NEW a \in Int, NEW i \in Int, NEW o \in Int, NEW b \in Int, NEW j \in Int, NEW q \in Int,
                    a = Applied(m), i = Inbound(m), o = Own(p),
                    b = Applied(m)', j = Inbound(m)', q = Own(p)'
             PROVE  b + j = q
  BY <1>4, <1>5, Zenon
<1>6. a + i = o /\ b + j - q = a + i - o
  BY <1>2, <1>3, Zenon
<1> QED
  BY ONLY <1>6, a \in Int, i \in Int, o \in Int, b \in Int, j \in Int, q \in Int

----------------------------------------------------------------------------
(* Most steps of n are changes or takes, and take at most one frame.       *)

Steady(n) ==
    /\ Changes(n) \/ Takes(n)
    /\ state'[Peer(n)] = state[Peer(n)] /\ reading' = reading /\ TakesOne(n)
    /\ Queues(n)' /\ Closing(n)'

\* What is taken from a link leaves frames of the link.
LEMMA TakesShape ==
    ASSUME NEW m \in Nodes, Shape(m), reading' = reading,
           inbox'[m] = inbox[m] \/ (inbox[m] # <<>> /\ inbox'[m] = Tail(inbox[m]))
    PROVE  inbox'[m] \in Seq(LinkFrames(reading'[m]))
<1>1. inbox[m] \in Seq(LinkFrames(reading[m]))
  BY Zenon DEF Shape
<1>2. inbox[m] # <<>> => Tail(inbox[m]) \in Seq(LinkFrames(reading[m]))
  <2>1. \A S : \A q \in Seq(S) : q # <<>> => Tail(q) \in Seq(S)
    OBVIOUS
  <2> QED
    BY <1>1, <2>1, Zenon
<1> QED
  BY <1>1, <1>2, Zenon

\* Such a step leaves both ends in order.
LEMMA SteadyHonest ==
    ASSUME TypeOK, TypeOK', Breaks, Honest, NEW n \in Nodes, Steady(n),
           \A m \in Nodes : Held(m)' >= 0
    PROVE  Honest'
<1> DEFINE p == Peer(n)
<1>0. p \in Nodes /\ Peer(p) = n /\ \A m \in Nodes : m = n \/ m = p
  BY PeerFacts, Zenon
<1>1. \A m \in Nodes : Settled(m)
  BY StepSettles, Zenon DEF Steady
<1>2. ASSUME NEW m \in Nodes
      PROVE  inbox'[m] = inbox[m] \/ (inbox[m] # <<>> /\ inbox'[m] = Tail(inbox[m]))
  BY <1>0, Zenon DEF Steady, TakesOne
<1>3. ASSUME NEW m \in Nodes
      PROVE  Told(m)' /\ Backed(m)'
  <2>1. Settled(m) /\ Told(m) /\ Backed(m)
    BY <1>1, Zenon DEF Honest, End
  <2> QED
    BY <1>2, <2>1, SettledTold, SettledBacked, Zenon
<1>4. rc'[p] = rc[p] /\ todo'[p] = todo[p] /\ sendq'[p] = sendq[p] /\ state'[p] = state[p]
  BY Zenon DEF Steady, Changes, Takes, Moves
<1>5. Queues(p) /\ Closing(p)
  BY <1>0, Zenon DEF Honest, End, Shape
<1>6. Queues(p)' /\ Closing(p)'
  BY <1>4, <1>5, Zenon DEF Queues, Closing
<1>7. Queues(n)' /\ Closing(n)' /\ reading' = reading
  BY Zenon DEF Steady
<1>8. ASSUME NEW m \in Nodes
      PROVE  End(m)'
  <2>1. Shape(m)
    BY Zenon DEF Honest, End
  <2>2. inbox'[m] \in Seq(LinkFrames(reading'[m]))
    BY <1>2, <1>7, <2>1, TakesShape, Zenon
  <2>3. Queues(m)' /\ Closing(m)'
    BY <1>0, <1>6, <1>7, Zenon
  <2>4. Shape(m)'
    BY <2>2, <2>3, Zenon DEF Shape
  <2> QED
    BY <1>3, <2>3, <2>4, Zenon DEF End
<1> QED
  BY <1>8, Zenon DEF Honest

\* A connection is never counted below zero.
LEMMA CountIsPositive ==
    ASSUME TypeOK, NEW n \in Nodes, End(n)
    PROVE  rc[n] >= 0 /\ Own(n) >= 0 /\ Applied(n) >= 0
<1>1. /\ rc[n] \in Int /\ Held(n) \in Int /\ Own(n) \in Int /\ Applied(n) \in Int
      /\ Level(n) \in Int /\ todo[n].local \in Nat /\ Carried(todo[n].peer) \in Int
  BY NumberTypes, Zenon
<1>2. inbox[n] \in Seq(Frames)
  BY QueueTypes, Zenon
<1>3. Level(n) >= 0
  BY <1>1, <1>2, AboveEnds, Zenon DEF End, Backed
<1>4. todo[n].peer \in Seq(LowFrames) /\ Held(n) >= 0
  BY Zenon DEF End, Shape, Queues
<1>5. Carried(todo[n].peer) <= 0
  BY <1>4, CarriedFalls, Zenon
<1>6. Own(n) = Held(n) + todo[n].local /\ Applied(n) = rc[n] - Own(n) /\ Level(n) = Applied(n) + Carried(todo[n].peer)
  BY Zenon DEF Own, Applied, Level
<1>7. Own(n) >= 0
  BY <1>1, <1>4, <1>6, SMTT(60)
<1>8. Applied(n) >= 0
  BY <1>1, <1>3, <1>5, <1>6
<1> QED
  BY <1>1, <1>6, <1>7, <1>8

----------------------------------------------------------------------------
(* What the handlers leave in the queues, and when they begin to close.    *)

\* Where the announcement of a change goes.
LEMMA AnnouncedFrames ==
    ASSUME NEW delta \in {-1, 0, 1}, NEW r \in Int, delta = 1 => r > 0
    PROVE  /\ delta >= 0 => Request(delta, r) \in HighFrames
           /\ delta < 0 => Request(delta, r) \in LowFrames
BY FrameTypes DEF Request, HighFrames, LowFrames

\* NotifyUpdateConnectionRc: taking references on a count that is not negative does
\* not begin to close, and one release does so only when it leaves nothing.
LEMMA NotifyQueues ==
    ASSUME TypeOK, NEW n \in Nodes, NEW delta \in {-1, 0, 1}, NEW k \in Nat,
           NEW own \in [Nodes -> LooperMessages], own[n].peer \in Seq(LowFrames),
           Queues(n), Closing(n), rc[n] >= 0, delta = 1 \/ k = 1,
           delta = 1 => state[n] = "CONNECTED",
           NotifyUpdateConnectionRc(n, delta, k, own)
    PROVE  Queues(n)' /\ Closing(n)' /\ state'[Peer(n)] = state[Peer(n)]
<1> DEFINE after == [i \in 1..k |-> rc[n] + i * delta]
           empty == {i \in 1..k : after[i] <= 0}
           new == [i \in 1..k |-> Request(delta, after[i])]
           flag == IF delta >= 0 THEN "high" ELSE "low"
           d == k * delta
<1>0. Peer(n) \in Nodes /\ Peer(n) # n
  BY PeerFacts, Zenon
<1>1. /\ rc' = [rc EXCEPT ![n] = rc[n] + d]
      /\ state' = [state EXCEPT ![n] = IF empty # {} THEN "NEGOTIATION_CLOSING" ELSE state[n]]
      /\ todo' = [own EXCEPT ![n].neg = own[n].neg + Cardinality(empty)]
      /\ sendq' = [sendq EXCEPT ![n][flag] = sendq[n][flag] \o new]
  BY Zenon DEF NotifyUpdateConnectionRc
<1>2. rc[n] \in Int /\ rc \in [Nodes -> Int]
  BY QueueTypes, Zenon
<1>3. /\ state \in [Nodes -> ConnectionState] /\ sendq \in [Nodes -> SendQueue]
  BY Zenon DEF TypeOK, SendQueue
<1>4. \A i \in 1..k : after[i] \in Int /\ (delta = 1 => after[i] > 0)
  <2>1. CASE delta = 1
    BY <1>2, <2>1
  <2>2. CASE k = 1
    BY <1>2, <2>2
  <2> QED
    BY <2>1, <2>2, Zenon
<1>5. /\ delta = 1 => empty = {}
      /\ delta # 1 => d = delta /\ (empty # {} => rc[n] + delta <= 0)
  <2>1. CASE delta = 1
    <3> HIDE DEF after
    <3> QED
      BY <1>4, <2>1
  <2>2. CASE delta # 1
    <3>1. k = 1 /\ d = delta
      BY <2>2
    <3>2. \A i \in 1..k : after[i] = rc[n] + delta
      BY <1>2, <3>1
    <3> HIDE DEF after
    <3> QED
      BY <2>2, <3>1, <3>2
  <2> QED
    BY <2>1, <2>2, Zenon
<1>6. /\ delta >= 0 => new \in Seq(HighFrames)
      /\ delta < 0 => new \in Seq(LowFrames)
  <2>1. \A i \in 1..k : /\ delta >= 0 => Request(delta, after[i]) \in HighFrames
                        /\ delta < 0 => Request(delta, after[i]) \in LowFrames
    <3> HIDE DEF after
    <3> QED
      BY <1>4, AnnouncedFrames, Zenon
  <2> HIDE DEF after
  <2> QED
    BY <2>1
<1> HIDE DEF after, empty, new, d
<1>7. todo'[n].peer = own[n].peer
  BY <1>1, Zenon DEF LooperMessages
<1>8. sendq'[n].high \in Seq(HighFrames) /\ sendq'[n].low \in Seq(LowFrames)
  <2>1. sendq[n].high \in Seq(HighFrames) /\ sendq[n].low \in Seq(LowFrames) /\ sendq[n] \in SendQueue
    BY <1>3, Zenon DEF Queues
  <2>2. sendq'[n] = [sendq[n] EXCEPT ![flag] = sendq[n][flag] \o new]
    BY <1>1, <1>3, Zenon
  <2>3. CASE delta >= 0
    <3>0. flag = "high"
      BY <2>3
    <3>1. sendq'[n].high = sendq[n].high \o new /\ sendq'[n].low = sendq[n].low
      BY <2>1, <2>2, <3>0, Zenon DEF SendQueue
    <3>2. sendq[n].high \o new \in Seq(HighFrames)
      BY <1>6, <2>1, <2>3
    <3> QED
      BY <2>1, <3>1, <3>2, Zenon
  <2>4. CASE delta < 0
    <3>0. flag = "low"
      BY <2>4
    <3>1. sendq'[n].low = sendq[n].low \o new /\ sendq'[n].high = sendq[n].high
      BY <2>1, <2>2, <3>0, Zenon DEF SendQueue
    <3>2. sendq[n].low \o new \in Seq(LowFrames)
      BY <1>6, <2>1, <2>4
    <3> QED
      BY <2>1, <3>1, <3>2, Zenon
  <2>5. delta >= 0 \/ delta < 0
    OBVIOUS
  <2> QED
    BY <2>3, <2>4, <2>5, Zenon
<1>9. Queues(n)'
  BY <1>7, <1>8, Zenon DEF Queues
<1>10. /\ state'[n] = IF empty # {} THEN "NEGOTIATION_CLOSING" ELSE state[n]
       /\ state'[Peer(n)] = state[Peer(n)] /\ rc'[n] = rc[n] + d
  BY <1>0, <1>1, <1>2, <1>3, Zenon
<1>11. Closing(n)'
  <2>1. CASE delta = 1
    BY <1>5, <1>10, <2>1 DEF Closing
  <2>2. CASE delta # 1
    BY <1>2, <1>5, <1>10, <2>2 DEF Closing
  <2> QED
    BY <2>1, <2>2, Zenon
<1> QED
  BY <1>9, <1>10, <1>11, Zenon

\* BrUpdateConnectionRc for a release or a retry.
LEMMA UpdateQueues ==
    ASSUME TypeOK, NEW n \in Nodes, NEW delta \in {-1, 0},
           NEW own \in [Nodes -> LooperMessages], own[n].peer \in Seq(LowFrames),
           Queues(n), Closing(n), rc[n] >= 0,
           BrUpdateConnectionRc(n, delta, own)
    PROVE  Queues(n)' /\ Closing(n)' /\ state'[Peer(n)] = state[Peer(n)]
<1>1. CASE delta < 0 /\ occupied[n]
  <2>1. todo' = [own EXCEPT ![n].local = own[n].local + 1] /\ UNCHANGED <<rc, state, sendq>>
    BY <1>1, Zenon DEF BrUpdateConnectionRc
  <2>2. todo'[n].peer = own[n].peer
    BY <2>1, Zenon DEF LooperMessages
  <2> QED
    BY <2>1, <2>2, Zenon DEF Queues, Closing
<1>2. CASE ~(delta < 0 /\ occupied[n])
  <2>1. NotifyUpdateConnectionRc(n, delta, 1, own)
    BY <1>2, Zenon DEF BrUpdateConnectionRc
  <2>2. 1 \in Nat /\ delta # 1 /\ delta \in {-1, 0, 1}
    OBVIOUS
  <2> QED
    BY <2>1, <2>2, NotifyQueues, Zenon
<1> QED
  BY <1>1, <1>2, Zenon

\* BrOnReferenceRequest: an end that is closing resumes, or its count does not rise.
LEMMA RequestQueues ==
    ASSUME TypeOK, NEW n \in Nodes, NEW m \in Frames, m.what = "request",
           m.delta = 1 => m.ref > 0,
           NEW own \in [Nodes -> LooperMessages], own[n].peer \in Seq(LowFrames),
           Queues(n), Closing(n),
           BrOnReferenceRequest(n, m, own)
    PROVE  Queues(n)' /\ Closing(n)' /\ state'[Peer(n)] = state[Peer(n)]
<1>0. Peer(n) \in Nodes /\ Peer(n) # n
  BY PeerFacts, Zenon
<1>1. m.delta \in {-1, 0, 1}
  BY FrameDelta, Zenon
<1>2. rc \in [Nodes -> Int] /\ rc[n] \in Int /\ state \in [Nodes -> ConnectionState]
  BY Zenon DEF TypeOK
<1>3. CASE m.delta < 0 /\ occupied[n]
  <2>1. todo' = [own EXCEPT ![n].peer = Append(own[n].peer, m)] /\ UNCHANGED <<rc, state, sendq>>
    BY <1>3, Zenon DEF BrOnReferenceRequest
  <2>2. todo'[n].peer = Append(own[n].peer, m)
    BY <2>1, Zenon DEF LooperMessages
  <2>3. m \in LowFrames
    BY <1>1, <1>3 DEF LowFrames
  <2>4. \A q \in Seq(LowFrames) : Append(q, m) \in Seq(LowFrames)
    BY <2>3
  <2> QED
    BY <2>1, <2>2, <2>4, Zenon DEF Queues, Closing
<1>4. CASE ~(m.delta < 0 /\ occupied[n])
  <2> DEFINE localRc == rc[n] + m.delta
             resume == Resumes(n, m.ref)
             retries == IF m.ref > 0 /\ localRc = 0 THEN own[n].retry + 1 ELSE own[n].retry
             negs == IF resume THEN 0 ELSE own[n].neg
             resumes == IF resume THEN own[n].resume + 1 ELSE own[n].resume
             high == IF m.ref <= 0 /\ localRc > 0
                     THEN Append(sendq[n].high, Response(localRc)) ELSE sendq[n].high
  <2>1. /\ rc' = [rc EXCEPT ![n] = localRc]
        /\ todo' = [own EXCEPT ![n].retry = retries, ![n].neg = negs, ![n].resume = resumes]
        /\ sendq' = [sendq EXCEPT ![n].high = high]
        /\ \/ ConnBrDisconnectNow(n, "looper")
           \/ state' = [state EXCEPT ![n] = IF resume THEN "CONNECTED" ELSE state[n]]
    BY <1>4, Zenon DEF BrOnReferenceRequest, NotifyReferenceRequest
  <2>2. localRc \in Int
    BY <1>1, <1>2
  <2>3. high \in Seq(HighFrames) /\ sendq[n].low \in Seq(LowFrames)
    <3>1. Response(localRc) \in HighFrames
      <4> HIDE DEF localRc
      <4>1. Response(localRc) \in Frames
        BY <2>2, FrameTypes, Zenon
      <4> QED
        BY <4>1 DEF Response, HighFrames
    <3>2. \A q \in Seq(HighFrames) : Append(q, Response(localRc)) \in Seq(HighFrames)
      <4> HIDE DEF localRc
      <4> QED
        BY <3>1
    <3> HIDE DEF localRc
    <3> QED
      BY <3>2, Zenon DEF Queues
  <2> HIDE DEF retries, negs, resumes, high
  <2>4. todo'[n].peer = own[n].peer
    BY <2>1, ZenonT(60) DEF LooperMessages
  <2>5. sendq'[n].high = high /\ sendq'[n].low = sendq[n].low
    <3>1. sendq \in [Nodes -> SendQueue]
      BY Zenon DEF TypeOK, SendQueue
    <3>2. sendq'[n] = [sendq[n] EXCEPT !.high = high] /\ sendq[n] \in SendQueue
      BY <2>1, <3>1, Zenon
    <3> QED
      BY <3>2, Zenon DEF SendQueue
  <2>6. Queues(n)'
    BY <2>3, <2>4, <2>5, Zenon DEF Queues
  <2>7. rc'[n] = localRc
    BY <1>2, <2>1, Zenon
  <2>8. CASE ConnBrDisconnectNow(n, "looper")
    BY <1>0, <2>6, <2>8, DisconnectNowTimed, Zenon DEF Closing
  <2>9. CASE state' = [state EXCEPT ![n] = IF resume THEN "CONNECTED" ELSE state[n]]
    <3>1. /\ state'[n] = IF resume THEN "CONNECTED" ELSE state[n]
          /\ state'[Peer(n)] = state[Peer(n)]
      BY <1>0, <1>2, <2>9, Zenon
    <3>2. ASSUME state'[n] = "NEGOTIATION_CLOSING"
          PROVE  localRc <= 0
      <4>1. state[n] = "NEGOTIATION_CLOSING" /\ ~resume
        BY <3>1, <3>2
      <4>2. rc[n] <= 0 /\ ~(m.ref > 0)
        BY <4>1, Zenon DEF Closing, Resumes
      <4>3. m.delta # 1
        BY <4>2, Zenon
      <4> QED
        BY <1>1, <1>2, <4>2, <4>3
    <3> QED
      BY <2>6, <2>7, <3>1, <3>2, Zenon DEF Closing
  <2> QED
    BY <2>1, <2>8, <2>9, Zenon
<1> QED
  BY <1>3, <1>4, Zenon

\* Nothing that the two are about changes.
LEMMA SameQueues ==
    ASSUME NEW n \in Nodes, Queues(n), Closing(n), UNCHANGED <<rc, sendq>>,
           todo'[n].peer = todo[n].peer,
           state'[n] = "NEGOTIATION_CLOSING" => state[n] = "NEGOTIATION_CLOSING"
    PROVE  Queues(n)' /\ Closing(n)'
BY Zenon DEF Queues, Closing

\* The head of the link.
LEMMA LinkHead ==
    ASSUME NEW n \in Nodes, Shape(n), inbox[n] # <<>>
    PROVE  /\ Head(inbox[n]) \in Frames
           /\ Head(inbox[n]).delta = 1 => Head(inbox[n]).ref > 0
           /\ Head(inbox[n]).what = "exception" => ~reading[n]
<1>1. \A S : \A q \in Seq(S) : q # <<>> => Head(q) \in S
  OBVIOUS
<1>2. Head(inbox[n]) \in LinkFrames(reading[n])
  BY <1>1, Zenon DEF Shape
<1> QED
  BY <1>2, Zenon DEF LinkFrames

\* What the invariant says of the end that takes the step.
LEMMA EndFacts ==
    ASSUME TypeOK, NEW n \in Nodes, End(n)
    PROVE  /\ Queues(n) /\ Closing(n) /\ Shape(n) /\ rc[n] >= 0
           /\ todo[n].peer \in Seq(LowFrames) /\ todo \in [Nodes -> LooperMessages]
           /\ Peer(n) \in Nodes /\ Peer(n) # n
BY CountIsPositive, QueueShapes, PeerFacts, Zenon DEF End, Shape, Queues

\* A step that leaves the link alone takes no frame.
LEMMA TakesNone == ASSUME NEW n, UNCHANGED inbox PROVE TakesOne(n)
BY Zenon DEF TakesOne

\* The handlers of frames, but for the one of the exception, are steady.
LEMMA FrameSteady ==
    ASSUME TypeOK, NEW n \in Nodes, End(n), FrameStep(n), ~ConnectionException(n)
    PROVE  Steady(n)
<1> USE EndFacts
<1>0. Changes(n) \/ Takes(n)
  BY FrameMoves, Zenon
<1>1. /\ inbox[n] # <<>> /\ inbox' = Received(n) /\ reading' = reading
  BY SMTT(60) DEF FrameStep, ConnBrOnReferenceRequest, ConnBrOnReferenceResponse, Receive
<1>2. TakesOne(n)
  <2>1. inbox'[n] = Tail(inbox[n]) /\ inbox'[Peer(n)] = inbox[Peer(n)]
    BY <1>1, QueueShapes, Zenon DEF Received
  <2> QED
    BY <1>1, <2>1, Zenon DEF TakesOne
<1>3. CASE ConnBrOnReferenceRequest(n)
  <2> DEFINE m == Head(inbox[n])
  <2>1. m.what = "request" /\ BrOnReferenceRequest(n, m, todo)
    BY <1>3, Zenon DEF ConnBrOnReferenceRequest, Receive
  <2>2. m \in Frames /\ (m.delta = 1 => m.ref > 0)
    BY <1>1, LinkHead, Zenon
  <2> HIDE DEF m
  <2>3. Queues(n)' /\ Closing(n)' /\ state'[Peer(n)] = state[Peer(n)]
    BY <2>1, <2>2, RequestQueues, Zenon
  <2> QED
    BY <1>0, <1>1, <1>2, <2>3, Zenon DEF Steady
<1>4. CASE ConnBrOnReferenceResponse(n)
  <2> DEFINE resume == Resumes(n, Head(inbox[n]).ref)
             negs == IF resume THEN 0 ELSE todo[n].neg
             resumes == IF resume THEN todo[n].resume + 1 ELSE todo[n].resume
  <2>1. /\ todo' = [todo EXCEPT ![n].neg = negs, ![n].resume = resumes]
        /\ state' = [state EXCEPT ![n] = IF resume THEN "CONNECTED" ELSE state[n]]
        /\ UNCHANGED <<rc, sendq>>
    BY <1>4, Zenon DEF ConnBrOnReferenceResponse
  <2> HIDE DEF resume, negs, resumes
  <2>2. todo'[n].peer = todo[n].peer
    BY <2>1, Zenon DEF LooperMessages
  <2>3. /\ state'[n] = "NEGOTIATION_CLOSING" => state[n] = "NEGOTIATION_CLOSING"
        /\ state'[Peer(n)] = state[Peer(n)]
    BY <2>1, ZenonT(60) DEF TypeOK
  <2>4. Queues(n)' /\ Closing(n)'
    BY <2>1, <2>2, <2>3, SameQueues, Zenon
  <2> QED
    BY <1>0, <1>1, <1>2, <2>3, <2>4, Zenon DEF Steady
<1> QED
  BY <1>3, <1>4, Zenon DEF FrameStep

\* So are the handlers of delayed messages ...
LEMMA TimerSteady ==
    ASSUME TypeOK, NEW n \in Nodes, End(n), TimerStep(n)
    PROVE  Steady(n)
<1> USE EndFacts
<1>0. Changes(n)
  BY TimerMoves, Zenon
<1>1. reading' = reading /\ inbox' = inbox
  BY SMTT(60) DEF TimerStep, ConnectionResume, RetryNotifyReferenceHandler,
                  WaitNegotiationClosingTimeoutHandler, BrOnOccupyRelease
<1>2. SUFFICES Queues(n)' /\ Closing(n)' /\ state'[Peer(n)] = state[Peer(n)]
  BY <1>0, <1>1, TakesNone, Zenon DEF Steady
<1>3. CASE ConnectionResume(n)
  <2> DEFINE own == Taken(n, "resume")
             k == waiting[n]
  <2>1. own \in [Nodes -> LooperMessages] /\ own[n].peer = todo[n].peer
    BY <1>3, TakenKeeps, Zenon DEF ConnectionResume
  <2>2. CASE state[n] = "CONNECTED"
    <3>1. NotifyUpdateConnectionRc(n, 1, k, own)
      BY <1>3, <2>2, Zenon DEF ConnectionResume
    <3>2. k \in Nat /\ 1 \in {-1, 0, 1}
      BY ZenonT(60) DEF TypeOK
    <3> HIDE DEF own, k
    <3>3. own[n].peer \in Seq(LowFrames)
      BY <2>1, Zenon
    <3> QED
      BY <2>1, <2>2, <3>1, <3>2, <3>3, NotifyQueues, Zenon
  <2>3. CASE state[n] # "CONNECTED"
    <3>1. todo' = own /\ UNCHANGED <<rc, state, sendq>>
      BY <1>3, <2>3, Zenon DEF ConnectionResume
    <3> QED
      BY <2>1, <3>1, SameQueues, Zenon
  <2> QED
    BY <2>2, <2>3, Zenon
<1>4. CASE RetryNotifyReferenceHandler(n)
  <2> DEFINE own == Taken(n, "retry")
  <2>1. own \in [Nodes -> LooperMessages] /\ own[n].peer = todo[n].peer
    BY <1>4, TakenKeeps, Zenon DEF RetryNotifyReferenceHandler
  <2>2. BrUpdateConnectionRc(n, 0, own)
    BY <1>4, Zenon DEF RetryNotifyReferenceHandler
  <2> HIDE DEF own
  <2>3. own[n].peer \in Seq(LowFrames) /\ 0 \in {-1, 0}
    BY <2>1, Zenon
  <2> QED
    BY <2>1, <2>2, <2>3, UpdateQueues, Zenon
<1>5. CASE WaitNegotiationClosingTimeoutHandler(n)
  <2>1. todo'[n].peer = todo[n].peer /\ UNCHANGED <<rc, sendq>>
    BY <1>5, TakenKeeps, Zenon DEF WaitNegotiationClosingTimeoutHandler
  <2>2. /\ state'[n] = "NEGOTIATION_CLOSING" => state[n] = "NEGOTIATION_CLOSING"
        /\ state'[Peer(n)] = state[Peer(n)]
    BY <1>5, DisconnectNowTimed, Zenon DEF WaitNegotiationClosingTimeoutHandler
  <2> QED
    BY <2>1, <2>2, SameQueues, Zenon
<1>6. CASE BrOnOccupyRelease(n)
  <2>1. todo'[n].peer = todo[n].peer /\ UNCHANGED <<rc, sendq, state>>
    BY <1>6, TakenKeeps, Zenon DEF BrOnOccupyRelease
  <2> QED
    BY <2>1, SameQueues, Zenon
<1> QED
  BY <1>3, <1>4, <1>5, <1>6, Zenon DEF TimerStep

\* ... of the releases put off ...
LEMMA PutOffSteady ==
    ASSUME TypeOK, NEW n \in Nodes, End(n), PutOffStep(n)
    PROVE  Steady(n)
<1> USE EndFacts
<1>0. Changes(n) \/ Takes(n)
  BY PutOffMoves, Zenon
<1>1. reading' = reading /\ inbox' = inbox
  BY SMTT(60) DEF PutOffStep, UpdateLocalRc, UpdatePeerRc
<1>2. SUFFICES Queues(n)' /\ Closing(n)' /\ state'[Peer(n)] = state[Peer(n)]
  BY <1>0, <1>1, TakesNone, Zenon DEF Steady
<1>3. CASE UpdateLocalRc(n)
  <2> DEFINE own == Taken(n, "local")
  <2>1. own \in [Nodes -> LooperMessages] /\ own[n].peer = todo[n].peer
    BY <1>3, TakenKeeps, Zenon DEF UpdateLocalRc
  <2>2. BrUpdateConnectionRc(n, -1, own)
    BY <1>3, Zenon DEF UpdateLocalRc
  <2> HIDE DEF own
  <2>3. own[n].peer \in Seq(LowFrames) /\ -1 \in {-1, 0}
    BY <2>1, Zenon
  <2> QED
    BY <2>1, <2>2, <2>3, UpdateQueues, Zenon
<1>4. CASE UpdatePeerRc(n)
  <2> DEFINE m == Head(todo[n].peer)
             own == [todo EXCEPT ![n].peer = Tail(todo[n].peer)]
  <2>0. todo[n].peer # <<>> /\ BrOnReferenceRequest(n, m, own)
    BY <1>4, Zenon DEF UpdatePeerRc
  <2>1. \A S : \A q \in Seq(S) : q # <<>> => Head(q) \in S /\ Tail(q) \in Seq(S)
    OBVIOUS
  <2>2. m \in LowFrames /\ Tail(todo[n].peer) \in Seq(LowFrames) /\ Tail(todo[n].peer) \in Seq(Frames)
    <3>1. todo[n].peer \in Seq(LowFrames) /\ todo[n].peer \in Seq(Frames)
      BY QueueTypes, Zenon
    <3> QED
      BY <2>0, <2>1, <3>1, Zenon
  <2>3. /\ m \in Frames /\ m.what = "request" /\ m.delta = -1
    BY <2>2 DEF LowFrames, Frames
  <2>4. m.delta # 1
    BY <2>3
  <2>5. own \in [Nodes -> LooperMessages] /\ own[n].peer = Tail(todo[n].peer)
    <3>1. todo \in [Nodes -> LooperMessages] /\ Tail(todo[n].peer) \in Seq(Frames)
      BY <2>2, Zenon
    <3> QED
      BY ONLY <3>1, n \in Nodes, ZenonT(60) DEF LooperMessages
  <2> HIDE DEF m, own
  <2>6. own[n].peer \in Seq(LowFrames)
    BY <2>2, <2>5, Zenon
  <2> QED
    BY <2>0, <2>3, <2>4, <2>5, <2>6, RequestQueues, Zenon
<1> QED
  BY <1>3, <1>4, Zenon DEF PutOffStep

\* ... the users ...
LEMMA UserSteady ==
    ASSUME TypeOK, NEW n \in Nodes, End(n), UserStep(n)
    PROVE  Steady(n)
<1> USE EndFacts
<1>0. Changes(n)
  BY UserMoves, Zenon
<1>1. reading' = reading /\ inbox' = inbox
  BY SMTT(60) DEF UserStep, BrConnectDevice, DisconnectRequest, BrCheckActiveConnection
<1>2. SUFFICES Queues(n)' /\ Closing(n)' /\ state'[Peer(n)] = state[Peer(n)]
  BY <1>0, <1>1, TakesNone, Zenon DEF Steady
<1>3. CASE BrConnectDevice(n)
  <2>1. CASE state[n] = "CONNECTED"
    <3>1. NotifyUpdateConnectionRc(n, 1, 1, todo)
      BY <1>3, <2>1, Zenon DEF BrConnectDevice
    <3>2. 1 \in {-1, 0, 1} /\ 1 \in Nat
      OBVIOUS
    <3> QED
      BY <2>1, <3>1, <3>2, NotifyQueues, Zenon
  <2>2. CASE state[n] # "CONNECTED"
    <3>1. UNCHANGED <<rc, state, todo, sendq>>
      BY <1>3, <2>2, Zenon DEF BrConnectDevice
    <3> QED
      BY <3>1, SameQueues, Zenon
  <2> QED
    BY <2>1, <2>2, Zenon
<1>4. CASE DisconnectRequest(n)
  <2>1. BrUpdateConnectionRc(n, -1, todo) /\ -1 \in {-1, 0}
    BY <1>4, Zenon DEF DisconnectRequest
  <2> QED
    BY <2>1, UpdateQueues, Zenon
<1>5. CASE BrCheckActiveConnection(n)
  <2>1. UNCHANGED <<rc, state, todo, sendq>>
    BY <1>5, Zenon DEF BrCheckActiveConnection
  <2> QED
    BY <2>1, SameQueues, Zenon
<1> QED
  BY <1>3, <1>4, <1>5, Zenon DEF UserStep

\* ... and an occupation.
LEMMA OccupySteady ==
    ASSUME TypeOK, NEW n \in Nodes, End(n), ConnBrOccupy(n)
    PROVE  Steady(n)
<1> USE EndFacts
<1>0. Changes(n)
  BY OccupyMoves, Zenon
<1>1. UNCHANGED <<rc, sendq, inbox, reading, state>>
  BY Zenon DEF ConnBrOccupy
<1>2. todo'[n].peer = todo[n].peer
  BY Zenon DEF ConnBrOccupy, LooperMessages
<1>3. Queues(n)' /\ Closing(n)'
  BY <1>1, <1>2, SameQueues, Zenon
<1> QED
  BY <1>0, <1>1, <1>3, TakesNone, Zenon DEF Steady

----------------------------------------------------------------------------
(* The ends of a connection that breaks.                                   *)

\* An end that a step leaves alone but for its link, its socket and its state, which
\* do not open or begin to close.
Rests(m) ==
    /\ rc'[m] = rc[m] /\ todo'[m] = todo[m] /\ inbox'[m] = inbox[m]
    /\ acquired'[m] = acquired[m] /\ released'[m] = released[m]
    /\ state'[m] = "NEGOTIATION_CLOSING" => state[m] = "NEGOTIATION_CLOSING"

\* Its numbers stay.
LEMMA RestNumbers ==
    ASSUME NEW m, Rests(m)
    PROVE  Held(m)' = Held(m) /\ Own(m)' = Own(m) /\ Applied(m)' = Applied(m) /\ Level(m)' = Level(m)
<1>1. Held(m)' = Held(m)
  BY Zenon DEF Held, Rests
<1>2. Own(m)' = Own(m)
  BY <1>1, Zenon DEF Own, Rests
<1>3. Applied(m)' = Applied(m)
  BY <1>2, Zenon DEF Applied, Rests
<1> QED
  BY <1>1, <1>2, <1>3, Zenon DEF Level, Rests

\* Such an end stays in order if its send queue does and the peer has not told less.
LEMMA RestEnd ==
    ASSUME NEW m \in Nodes, End(m), Rests(m), Queues(m)', reading'[m] => reading[m], Told(m)',
           reading[m] \in BOOLEAN, reading'[m] \in BOOLEAN
    PROVE  End(m)'
<1>1. Held(m)' >= 0 /\ Backed(m)'
  BY RestNumbers, Zenon DEF End, Backed, Rests
<1>2. Closing(m)'
  BY Zenon DEF End, Closing, Rests
<1>3. inbox'[m] \in Seq(LinkFrames(reading'[m]))
  <2>1. inbox[m] \in Seq(LinkFrames(reading[m])) /\ inbox'[m] = inbox[m]
    BY Zenon DEF End, Shape, Rests
  <2>2. LinkFrames(reading[m]) \subseteq LinkFrames(reading'[m])
    BY Zenon DEF LinkFrames
  <2>3. \A S, T : S \subseteq T => Seq(S) \subseteq Seq(T)
    OBVIOUS
  <2> QED
    BY <2>1, <2>2, <2>3, Zenon
<1> QED
  BY <1>1, <1>2, <1>3, Zenon DEF End, Shape

\* What the peer has told stays told if the peer does not tell anything new.
LEMMA RestTold ==
    ASSUME Breaks, NEW m \in Nodes, Told(m), Rests(m), Rests(Peer(m)),
           sendq'[Peer(m)] = sendq[Peer(m)]
    PROVE  Told(m)'
<1> DEFINE p == Peer(m)
<1>0. p \in Nodes
  BY PeerFacts, Zenon
<1>1. Inbound(m)' = Inbound(m)
  BY Zenon DEF Inbound, Rests
<1>2. Applied(m)' = Applied(m) /\ Own(p)' = Own(p)
  BY RestNumbers, Zenon
<1>3. linkUp' => linkUp /\ (sock'[p] => sock[p]) /\ (reading'[m] => reading[m])
  BY <1>0, Zenon DEF Breaks
<1> QED
  BY <1>1, <1>2, <1>3, Zenon DEF Told

\* A step after which n cannot send leaves the peer in order.
LEMMA PeerEnd ==
    ASSUME TypeOK, TypeOK', Breaks, NEW n \in Nodes, End(Peer(n)), Rests(Peer(n)),
           sendq'[Peer(n)] = sendq[Peer(n)], ~sock'[n] \/ ~linkUp'
    PROVE  End(Peer(n))'
<1> DEFINE p == Peer(n)
<1>0. p \in Nodes /\ Peer(p) = n
  BY PeerFacts, Zenon
<1>1. Told(p)'
  BY <1>0, Zenon DEF Told
<1>2. Queues(p)'
  BY Zenon DEF End, Shape, Queues, Rests
<1>3. reading[p] \in BOOLEAN /\ reading'[p] \in BOOLEAN
  BY <1>0, Zenon DEF TypeOK
<1>4. reading'[p] => reading[p]
  BY <1>0, Zenon DEF Breaks
<1> QED
  BY <1>0, <1>1, <1>2, <1>3, <1>4, RestEnd, Zenon

\* ConnectionException: the references of the users stay, and all messages go.
LEMMA ExceptionEnds ==
    ASSUME TypeOK, TypeOK', Breaks, Honest, NEW n \in Nodes, ConnectionException(n)
    PROVE  Honest'
<1> DEFINE p == Peer(n)
<1>0. p \in Nodes /\ p # n /\ \A m \in Nodes : m = n \/ m = p
  BY PeerFacts, Zenon
<1>1. /\ ConnBrDisconnectNow(n, "looper") /\ inbox[n] # <<>> /\ Head(inbox[n]).what = "exception"
      /\ inbox' = [inbox EXCEPT ![n] = <<>>] /\ todo' = [todo EXCEPT ![n] = NoMessages]
      /\ sendq' = [sendq EXCEPT ![n] = NoFrames]
      /\ UNCHANGED <<rc, reading, acquired, released>>
  BY Zenon DEF ConnectionException, Receive, users
<1>2. /\ inbox'[n] = <<>> /\ todo'[n] = NoMessages /\ sendq'[n] = NoFrames
      /\ inbox'[p] = inbox[p] /\ todo'[p] = todo[p] /\ sendq'[p] = sendq[p]
  <2>1. DOMAIN inbox = Nodes /\ DOMAIN todo = Nodes /\ DOMAIN sendq = Nodes
    BY Zenon DEF TypeOK
  <2>2. inbox'[n] = <<>> /\ inbox'[p] = inbox[p]
    BY ONLY <1>0, <1>1, <2>1, n \in Nodes, ZenonT(60)
  <2>3. todo'[n] = NoMessages /\ todo'[p] = todo[p]
    BY ONLY <1>0, <1>1, <2>1, n \in Nodes, ZenonT(60)
  <2>4. sendq'[n] = NoFrames /\ sendq'[p] = sendq[p]
    BY ONLY <1>0, <1>1, <2>1, n \in Nodes, ZenonT(60)
  <2> QED
    BY <2>2, <2>3, <2>4, Zenon
<1>3. /\ ~sock'[n] /\ state'[n] # "NEGOTIATION_CLOSING" /\ state'[p] = state[p]
  BY <1>0, <1>1, DisconnectNowBreaks, DisconnectNowTimed, Zenon
<1>4. End(n) /\ End(p)
  BY <1>0, Zenon DEF Honest
<1>5. End(p)'
  <2>1. Rests(p)
    BY <1>1, <1>2, <1>3, Zenon DEF Rests
  <2> QED
    BY <1>2, <1>3, <1>4, <2>1, PeerEnd, Zenon
<1>6. ~reading'[n]
  <2>1. Shape(n)
    BY <1>4, Zenon DEF End
  <2> QED
    BY <1>1, <2>1, LinkHead, Zenon
<1>7. Queues(n)' /\ inbox'[n] \in Seq(LinkFrames(reading'[n]))
  <2>1. \A S : <<>> \in Seq(S)
    OBVIOUS
  <2>2. todo'[n].peer = <<>> /\ sendq'[n].high = <<>> /\ sendq'[n].low = <<>>
    BY <1>2 DEF NoMessages, NoFrames
  <2> QED
    BY <1>2, <2>1, <2>2, Zenon DEF Queues
<1>8. Held(n)' = Held(n) /\ Held(n) >= 0
  BY <1>1, <1>4, Zenon DEF Held, End
<1>9. Backed(n)'
  <2>1. /\ rc[n] \in Int /\ Held(n) \in Int /\ todo[n].local \in Nat /\ Own(n) \in Int /\ Applied(n) \in Int
    BY NumberTypes, Zenon
  <2>2. Applied(n) >= 0
    BY <1>4, CountIsPositive, Zenon
  <2>3. rc[n] - Held(n) >= 0
    <3>1. Applied(n) = rc[n] - (Held(n) + todo[n].local)
      BY Zenon DEF Applied, Own
    <3> QED
      BY <2>1, <2>2, <3>1
  <2>4. todo'[n].local = 0 /\ Carried(todo'[n].peer) = 0
    <3>1. todo'[n].local = 0 /\ todo'[n].peer = <<>>
      BY <1>2 DEF NoMessages
    <3> QED
      BY <3>1, CarriedEmpty, Zenon
  <2>5. Level(n)' = rc[n] - (Held(n) + 0) + 0
    BY <1>1, <1>8, <2>4, Zenon DEF Level, Applied, Own
  <2>6. rc[n] - (Held(n) + 0) + 0 + 0 >= 0
    BY <2>1, <2>3
  <2>7. Level(n)' + Carried(<<>>) >= 0
    BY <2>5, <2>6, CarriedEmpty, Zenon
  <2>8. \A k \in 0..Len(<<>>) : SubSeq(<<>>, 1, k) = <<>>
    OBVIOUS
  <2> QED
    BY <1>2, <2>7, <2>8, Zenon DEF Backed, Above
<1>10. End(n)'
  <2>1. Told(n)' /\ Closing(n)'
    BY <1>3, <1>6, Zenon DEF Told, Closing
  <2>2. Held(n)' >= 0
    BY <1>8, Zenon
  <2> QED
    BY <1>7, <1>9, <2>1, <2>2, Zenon DEF End, Shape
<1> QED
  BY <1>0, <1>5, <1>10, Zenon DEF Honest

\* LoopReadExit: what was not read is lost.
LEMMA ReadExitEnds ==
    ASSUME TypeOK, TypeOK', Breaks, Honest, NEW n \in Nodes, LoopReadExit(n)
    PROVE  Honest'
<1> DEFINE p == Peer(n)
<1>0. p \in Nodes /\ p # n /\ \A m \in Nodes : m = n \/ m = p
  BY PeerFacts, Zenon
<1>1. PICK k \in 0..Len(inbox[n]) :
         inbox' = [inbox EXCEPT ![n] = Append(SubSeq(inbox[n], 1, k), Exception)]
  BY Zenon DEF LoopReadExit
<1>2. /\ reading' = [reading EXCEPT ![n] = FALSE] /\ sock' = [sock EXCEPT ![n] = FALSE]
      /\ \E s \in {"CLOSED", "EXCEPTION"} : state' = [state EXCEPT ![n] = s]
      /\ UNCHANGED <<rc, todo, sendq, acquired, released>>
  <2>1. PICK s \in IF n = Client THEN {"CLOSED", "EXCEPTION"} ELSE {"EXCEPTION"} :
           state' = [state EXCEPT ![n] = s]
    BY Zenon DEF LoopReadExit
  <2>2. s \in {"CLOSED", "EXCEPTION"}
    BY ONLY <2>1
  <2> QED
    BY <2>1, <2>2, Zenon DEF LoopReadExit, users
<1>3. /\ inbox'[n] = Append(SubSeq(inbox[n], 1, k), Exception) /\ inbox'[p] = inbox[p]
      /\ ~reading'[n] /\ ~sock'[n] /\ state'[n] # "NEGOTIATION_CLOSING" /\ state'[p] = state[p]
  <2>1. /\ DOMAIN inbox = Nodes /\ DOMAIN reading = Nodes
        /\ DOMAIN sock = Nodes /\ DOMAIN state = Nodes
    BY Zenon DEF TypeOK
  <2>2. inbox'[n] = Append(SubSeq(inbox[n], 1, k), Exception) /\ inbox'[p] = inbox[p]
    BY ONLY <1>0, <1>1, <2>1, n \in Nodes, ZenonT(60)
  <2>3. ~reading'[n] /\ ~sock'[n]
    BY ONLY <1>2, <2>1, n \in Nodes, ZenonT(60)
  <2>4. state'[n] \in {"CLOSED", "EXCEPTION"} /\ state'[p] = state[p]
    BY ONLY <1>0, <1>2, <2>1, n \in Nodes, ZenonT(60)
  <2>5. state'[n] # "NEGOTIATION_CLOSING"
    BY ONLY <2>4
  <2> QED
    BY <2>2, <2>3, <2>4, <2>5, Zenon
<1>4. End(n) /\ End(p)
  BY <1>0, Zenon DEF Honest
<1>5. End(p)'
  <2>1. Rests(p)
    BY <1>2, <1>3, Zenon DEF Rests
  <2> QED
    BY <1>2, <1>3, <1>4, <2>1, PeerEnd, Zenon
<1>6. Queues(n)' /\ Held(n)' = Held(n) /\ Held(n) >= 0
  BY <1>2, <1>4, Zenon DEF Queues, Held, End, Shape
<1>7. inbox'[n] \in Seq(LinkFrames(reading'[n]))
  <2>1. inbox[n] \in Seq(LinkFrames(reading[n]))
    BY <1>4, Zenon DEF End, Shape
  <2>2. LinkFrames(reading[n]) \subseteq LinkFrames(reading'[n]) /\ Exception \in LinkFrames(reading'[n])
    <3>1. Exception \in Frames /\ Exception.delta # 1
      BY FrameTypes DEF Exception
    <3> QED
      BY <1>3, <3>1, Zenon DEF LinkFrames
  <2>3. \A S, T : \A q \in Seq(S), e \in T : \A j \in 0..Len(q) :
           S \subseteq T => Append(SubSeq(q, 1, j), e) \in Seq(T)
    OBVIOUS
  <2> QED
    BY <1>3, <2>1, <2>2, <2>3, Zenon
<1>8. Backed(n)'
  <2>1. Level(n)' = Level(n)
    BY <1>2, <1>6, Zenon DEF Level, Applied, Own
  <2>2. inbox[n] \in Seq(Frames) /\ Level(n) \in Int
    BY QueueTypes, NumberTypes, Zenon
  <2>3. Above(Append(SubSeq(inbox[n], 1, k), Exception), Level(n))
    BY <1>4, <2>2, AboveCut, Zenon DEF End, Backed
  <2> QED
    BY <1>3, <2>1, <2>3, Zenon DEF Backed
<1>9. End(n)'
  <2>1. Told(n)' /\ Closing(n)'
    BY <1>3, Zenon DEF Told, Closing
  <2>2. Held(n)' >= 0
    BY <1>6, Zenon
  <2> QED
    BY <1>6, <1>7, <1>8, <2>1, <2>2, Zenon DEF End, Shape
<1> QED
  BY <1>0, <1>5, <1>9, Zenon DEF Honest

\* The link goes, by itself or by the driver's DisConnect.
LEMMA LinkEnds ==
    ASSUME TypeOK, TypeOK', Breaks, Honest, \A m \in Nodes : Rests(m), UNCHANGED sendq, ~linkUp'
    PROVE  Honest'
<1>1. ASSUME NEW m \in Nodes
      PROVE  End(m)'
  <2>1. Peer(m) \in Nodes /\ Peer(Peer(m)) = m
    BY PeerFacts, Zenon
  <2>2. End(Peer(Peer(m)))'
    BY <2>1, PeerEnd, Zenon DEF Honest
  <2> QED
    BY <2>1, <2>2, Zenon
<1> QED
  BY <1>1, Zenon DEF Honest

----------------------------------------------------------------------------
(* The send thread.                                                        *)

\* The frame that is sent next leaves frames of its kind in the queue.
LEMMA SentQueues ==
    ASSUME TypeOK, NEW n \in Nodes, Queues(n), SendHandlerLoop(n)
    PROVE  Queues(n)' /\ sendq'[Peer(n)] = sendq[Peer(n)]
<1> DEFINE f == IF sendq[n].high # <<>> THEN "high" ELSE "low"
<1>0. Peer(n) \in Nodes /\ Peer(n) # n
  BY PeerFacts, Zenon
<1>1. /\ sendq[n][f] # <<>> /\ sendq' = [sendq EXCEPT ![n][f] = Tail(sendq[n][f])] /\ todo' = todo
  BY Zenon DEF SendHandlerLoop
<1>2. f = "high" \/ f = "low"
  OBVIOUS
<1> HIDE DEF f
<1>3. sendq \in [Nodes -> SendQueue] /\ sendq[n] \in SendQueue
  BY Zenon DEF TypeOK, SendQueue
<1>4. sendq'[Peer(n)] = sendq[Peer(n)] /\ sendq'[n] = [sendq[n] EXCEPT ![f] = Tail(sendq[n][f])]
  BY <1>0, <1>1, <1>3, Zenon
<1>5. \A S : \A q \in Seq(S) : q # <<>> => Tail(q) \in Seq(S)
  OBVIOUS
<1>6. CASE f = "high"
  <2>1. sendq'[n].high = Tail(sendq[n].high) /\ sendq'[n].low = sendq[n].low /\ sendq[n].high # <<>>
    BY <1>1, <1>3, <1>4, <1>6, Zenon DEF SendQueue
  <2> QED
    BY <1>1, <1>4, <1>5, <2>1, Zenon DEF Queues
<1>7. CASE f = "low"
  <2>1. sendq'[n].low = Tail(sendq[n].low) /\ sendq'[n].high = sendq[n].high /\ sendq[n].low # <<>>
    BY <1>1, <1>3, <1>4, <1>7, Zenon DEF SendQueue
  <2> QED
    BY <1>1, <1>4, <1>5, <2>1, Zenon DEF Queues
<1> QED
  BY <1>2, <1>6, <1>7, Zenon

\* The frame arrives: it is no exception, and a release that is sent follows all the
\* acquires, which are in the high queue.
LEMMA SentBacked ==
    ASSUME TypeOK, NEW n \in Nodes, End(n), End(Peer(n)), SendHandlerLoop(n),
           sock[n], linkUp, reading[Peer(n)]
    PROVE  \E m \in Frames :
              /\ inbox' = [inbox EXCEPT ![Peer(n)] = Append(inbox[Peer(n)], m)]
              /\ \A open : m \in LinkFrames(open)
              /\ Level(Peer(n)) + Carried(inbox[Peer(n)]) + m.delta >= 0
<1> DEFINE f == IF sendq[n].high # <<>> THEN "high" ELSE "low"
           m == Head(sendq[n][f])
           p == Peer(n)
<1>0. p \in Nodes /\ p # n /\ Peer(p) = n
  BY PeerFacts, Zenon
<1>1. /\ sendq[n][f] # <<>>
      /\ inbox' = [inbox EXCEPT ![p] = Append(inbox[p], m)]
  BY Zenon DEF SendHandlerLoop
<1>2. sendq[n].high \in Seq(HighFrames) /\ sendq[n].low \in Seq(LowFrames)
  BY Zenon DEF End, Shape, Queues
<1>3. inbox[p] \in Seq(Frames) /\ Level(p) \in Int /\ Carried(inbox[p]) \in Int
  BY <1>0, QueueTypes, NumberTypes, Zenon
<1>4. Level(p) + Carried(inbox[p]) >= 0
  BY <1>3, AboveEnds, Zenon DEF End, Backed
<1>5. \A S : \A q \in Seq(S) : q # <<>> => Head(q) \in S /\ Tail(q) \in Seq(S)
  OBVIOUS
<1>6. CASE sendq[n].high # <<>>
  <2>1. m \in HighFrames
    BY <1>1, <1>2, <1>5, <1>6, Zenon
  <2> HIDE DEF m
  <2>2. m \in Frames /\ m.delta # -1 /\ \A open : m \in LinkFrames(open)
    BY <2>1, Zenon DEF HighFrames, LinkFrames
  <2>3. m.delta \in {-1, 0, 1}
    BY <2>2, FrameDelta, Zenon
  <2> HIDE DEF p
  <2>4. Level(p) + Carried(inbox[p]) + m.delta >= 0
    BY <1>3, <1>4, <2>2, <2>3
  <2> QED
    BY <1>1, <2>2, <2>4, Zenon DEF p
<1>7. CASE sendq[n].high = <<>>
  <2>1. sendq[n].low # <<>> /\ m = Head(sendq[n].low)
    BY <1>1, <1>7, Zenon
  <2>2. m \in LowFrames /\ Tail(sendq[n].low) \in Seq(LowFrames)
    BY <1>2, <1>5, <2>1, Zenon
  <2> HIDE DEF m
  <2>3. m \in Frames /\ m.delta = -1 /\ m.what # "exception"
    BY <2>2, Zenon DEF LowFrames
  <2>4. \A open : m \in LinkFrames(open)
    <3>1. m.delta # 1
      BY <2>3
    <3> QED
      BY <2>3, <3>1, Zenon DEF LinkFrames
  <2>5. Applied(p) + Inbound(p) = Own(n)
    BY <1>0, Zenon DEF End, Told
  <2>6. Inbound(p) = Carried(inbox[p]) + Carried(todo[p].peer) + Carried(sendq[n].high) + Carried(sendq[n].low)
    BY <1>0, Zenon DEF Inbound
  <2>7. Level(p) = Applied(p) + Carried(todo[p].peer)
    BY Zenon DEF Level
  <2>8. Carried(sendq[n].high) = 0
    BY <1>7, CarriedEmpty, Zenon
  <2>9. Carried(Tail(sendq[n].low)) = Carried(sendq[n].low) - m.delta /\ Carried(Tail(sendq[n].low)) <= 0
    <3>1. sendq[n].low \in Seq(Frames)
      BY <1>2, CarriedFalls, Zenon
    <3> QED
      BY <2>1, <2>2, <3>1, CarriedTail, CarriedFalls, Zenon
  <2>10. Own(n) >= 0
    BY CountIsPositive, Zenon
  <2>11. /\ Own(n) \in Int /\ Carried(sendq[n].low) \in Int
         /\ Applied(p) \in Int /\ Inbound(p) \in Int /\ Carried(todo[p].peer) \in Int
    BY <1>0, NumberTypes, Zenon
  <2> HIDE DEF p
  <2>12. Carried(sendq[n].low) + 1 <= 0
    BY <2>3, <2>9, <2>11
  <2>13. Level(p) + Carried(inbox[p]) + m.delta >= 0
    <3>1. PICK a \in Int, i \in Int, t \in Int, l \in Int, o \in Int :
            /\ a = Applied(p) /\ i = Carried(inbox[p]) /\ t = Carried(todo[p].peer)
            /\ l = Carried(sendq[n].low) /\ o = Own(n)
      BY ONLY <1>3, <2>11, Zenon
    <3>2. a + (i + t + 0 + l) = o /\ o >= 0 /\ l + 1 <= 0
      BY ONLY <2>5, <2>6, <2>8, <2>10, <2>12, <3>1, Zenon
    <3>3. (a + t) + i + -1 >= 0
      BY ONLY a \in Int, i \in Int, t \in Int, l \in Int, o \in Int, <3>2
    <3> QED
      BY ONLY <2>3, <2>7, <3>1, <3>3, Zenon
  <2> QED
    BY <1>1, <2>3, <2>4, <2>13, Zenon DEF p
<1> QED
  BY <1>6, <1>7, Zenon

\* SendHandlerLoop leaves both ends in order.
LEMMA SendEnds ==
    ASSUME TypeOK, TypeOK', Breaks, Honest, NEW n \in Nodes, SendHandlerLoop(n)
    PROVE  Honest'
<1> DEFINE p == Peer(n)
<1>0. p \in Nodes /\ p # n /\ Peer(p) = n /\ \A m \in Nodes : m = n \/ m = p
  BY PeerFacts, Zenon
<1>1. End(n) /\ End(p)
  BY <1>0, Zenon DEF Honest
<1>2. Queues(n)' /\ sendq'[p] = sendq[p]
  BY <1>1, SentQueues, Zenon DEF End, Shape
<1>3. UNCHANGED <<rc, todo, reading, linkUp, acquired, released>>
  BY Zenon DEF SendHandlerLoop, users
<1>4. reading[n] \in BOOLEAN /\ reading[p] \in BOOLEAN
  BY <1>0, Zenon DEF TypeOK
<1>5. ASSUME inbox'[n] = inbox[n], Rests(p) \/ Own(p)' = Own(p), sendq'[p] = sendq[p],
             state'[n] = "NEGOTIATION_CLOSING" => state[n] = "NEGOTIATION_CLOSING"
      PROVE  End(n)'
  <2>1. Rests(n)
    BY <1>3, <1>5, Zenon DEF Rests
  <2>2. Inbound(n)' = Inbound(n)
    BY <1>2, <1>3, <1>5, Zenon DEF Inbound
  <2>3. Applied(n)' = Applied(n) /\ Own(p)' = Own(p)
    BY <1>5, <2>1, RestNumbers, Zenon
  <2>4. Told(n)'
    <3>1. sock'[p] => sock[p]
      BY <1>0, Zenon DEF Breaks
    <3> QED
      BY <1>1, <1>3, <2>2, <2>3, <3>1, Zenon DEF Told, End
  <2> QED
    BY <1>1, <1>2, <1>3, <1>4, <2>1, <2>4, RestEnd, Zenon
<1>6. Own(p)' = Own(p) /\ Applied(p)' = Applied(p) /\ Level(p)' = Level(p) /\ Held(p)' = Held(p)
  BY <1>3, Zenon DEF Level, Applied, Own, Held
<1>7. CASE ~(sock[n] /\ linkUp)
  <2>1. ConnBrDisconnectNow(n, "sender") /\ inbox' = inbox
    BY <1>7, Zenon DEF SendHandlerLoop
  <2>2. ~sock'[n] /\ state'[n] # "NEGOTIATION_CLOSING" /\ state'[p] = state[p]
    BY <1>0, <2>1, DisconnectNowBreaks, DisconnectNowTimed, Zenon
  <2>3. Rests(p)
    BY <1>3, <2>1, <2>2, Zenon DEF Rests
  <2>4. End(p)'
    BY <1>1, <1>2, <2>2, <2>3, PeerEnd, Zenon
  <2> QED
    BY <1>0, <1>2, <1>5, <2>1, <2>2, <2>3, <2>4, Zenon DEF Honest
<1>8. CASE sock[n] /\ linkUp /\ ~reading[p]
  <2>1. state' = state
    BY <1>8, Zenon DEF SendHandlerLoop
  <2>2. inbox' = [inbox EXCEPT ![p] = inbox[p]]
    BY <1>8, Zenon DEF SendHandlerLoop
  <2>3. inbox'[n] = inbox[n] /\ inbox'[p] = inbox[p]
    BY <1>0, <2>2, QueueShapes, Zenon
  <2>4. Rests(p)
    BY <1>3, <2>1, <2>3, Zenon DEF Rests
  <2>5. Told(p)' /\ Queues(p)'
    BY <1>1, <1>2, <1>3, <1>8, Zenon DEF Told, Queues, End, Shape
  <2>6. End(p)'
    BY <1>0, <1>1, <1>3, <1>4, <2>4, <2>5, RestEnd, Zenon
  <2> QED
    BY <1>0, <1>2, <1>5, <2>1, <2>3, <2>4, <2>6, Zenon DEF Honest
<1>9. CASE sock[n] /\ linkUp /\ reading[p]
  <2>1. state' = state /\ sock' = sock
    BY <1>9, Zenon DEF SendHandlerLoop
  <2>2. PICK m \in Frames :
           /\ inbox' = [inbox EXCEPT ![p] = Append(inbox[p], m)]
           /\ \A open : m \in LinkFrames(open)
           /\ Level(p) + Carried(inbox[p]) + m.delta >= 0
    BY <1>1, <1>9, SentBacked, Zenon
  <2>3. inbox'[n] = inbox[n] /\ inbox'[p] = Append(inbox[p], m)
    BY <1>0, <2>2, QueueShapes, Zenon
  <2>4. End(n)'
    BY <1>2, <1>5, <1>6, <2>1, <2>3, Zenon
  <2>5. Backed(p)'
    <3>1. inbox[p] \in Seq(Frames) /\ Level(p) \in Int
      BY <1>0, QueueTypes, NumberTypes, Zenon
    <3>2. Above(Append(inbox[p], m), Level(p))
      BY <1>1, <2>2, <3>1, AboveAppend, Zenon DEF End, Backed
    <3> QED
      BY <1>6, <2>3, <3>2, Zenon DEF Backed
  <2>6. Told(p)'
    <3>1. PICK d \in {-1, 0, 1} : Moves(n, 0, 0, -d, 0) /\ Passes(n, 0, d, 0)
      BY <1>9, SendMoves, Zenon DEF Sends
    <3>2. 0 \in Int /\ d \in Int /\ -d \in Int
      BY <3>1
    <3>3. Inbound(p)' = Inbound(p) + d + (-d) /\ Own(n)' = Own(n) + 0 + 0
      BY <3>1, <3>2, MovesSums, SMTT(60)
    <3>4. Inbound(p) \in Int /\ Own(n) \in Int
      BY <1>0, NumberTypes, Zenon
    <3>5. \A i \in Int : i + d + (-d) = i /\ i + 0 + 0 = i
      BY <3>2
    <3>6. Inbound(p)' = Inbound(p) /\ Own(n)' = Own(n)
      BY <3>3, <3>4, <3>5, Zenon
    <3> QED
      BY <1>0, <1>1, <1>3, <1>6, <2>1, <3>6, Zenon DEF Told, End
  <2>7. inbox'[p] \in Seq(LinkFrames(reading'[p]))
    <3>1. inbox[p] \in Seq(LinkFrames(reading[p]))
      BY <1>1, Zenon DEF End, Shape
    <3>2. \A S : \A q \in Seq(S), e \in S : Append(q, e) \in Seq(S)
      OBVIOUS
    <3> QED
      BY <1>3, <2>2, <2>3, <3>1, <3>2, Zenon
  <2>8. Queues(p)' /\ Closing(p)' /\ Held(p)' >= 0
    BY <1>1, <1>2, <1>3, <1>6, <2>1, Zenon DEF Queues, Closing, End, Shape
  <2>9. End(p)'
    BY <2>5, <2>6, <2>7, <2>8, Zenon DEF End, Shape
  <2> QED
    BY <1>0, <2>4, <2>9, Zenon DEF Honest
<1> QED
  BY <1>7, <1>8, <1>9, Zenon

----------------------------------------------------------------------------
(* Every step.                                                             *)

\* Users who give back only what they took hold no less than nothing.
LEMMA NextHeld ==
    ASSUME ~OverRelease, TypeOK, Honest, NEW n \in Nodes,
           FrameStep(n) \/ TimerStep(n) \/ PutOffStep(n) \/ UserStep(n) \/ ConnBrOccupy(n),
           NEW m \in Nodes
    PROVE  Held(m)' >= 0
<1>1. /\ acquired \in [Nodes -> Nat] /\ released \in [Nodes -> Nat] /\ waiting \in [Nodes -> Nat]
      /\ Held(m) >= 0
  BY Zenon DEF TypeOK, Honest, End
<1>2. CASE UNCHANGED <<acquired, released>>
  BY <1>1, <1>2, Zenon DEF Held
<1>3. CASE released' = released /\ \E k \in Nat : acquired' = [acquired EXCEPT ![n] = acquired[n] + k]
  BY <1>1, <1>3, SMTT(60) DEF Held
<1>4. CASE DisconnectRequest(n)
  <2>1. /\ Held(n) > 0 /\ released' = [released EXCEPT ![n] = released[n] + 1] /\ acquired' = acquired
    BY <1>4, Zenon DEF DisconnectRequest
  <2> QED
    BY <1>1, <2>1, SMTT(60) DEF Held
<1>5. CASE BrConnectDevice(n)
  <2>1. CASE state[n] = "CONNECTED"
    <3>1. released' = released /\ acquired' = [acquired EXCEPT ![n] = acquired[n] + 1] /\ 1 \in Nat
      BY <1>5, <2>1 DEF BrConnectDevice
    <3> QED
      BY <1>3, <3>1, Zenon
  <2>2. CASE state[n] # "CONNECTED"
    BY <1>2, <1>5, <2>2, Zenon DEF BrConnectDevice
  <2> QED
    BY <2>1, <2>2, Zenon
<1>6. CASE ConnectionResume(n)
  <2>1. CASE state[n] = "CONNECTED"
    <3>1. released' = released /\ acquired' = [acquired EXCEPT ![n] = acquired[n] + waiting[n]]
      BY <1>6, <2>1, Zenon DEF ConnectionResume
    <3> QED
      BY <1>1, <1>3, <3>1, Zenon
  <2>2. CASE state[n] # "CONNECTED"
    BY <1>2, <1>6, <2>2, Zenon DEF ConnectionResume
  <2> QED
    BY <2>1, <2>2, Zenon
<1>7. CASE FrameStep(n) \/ PutOffStep(n) \/ ConnBrOccupy(n)
  <2>1. UNCHANGED users
    BY <1>7, ZenonT(60) DEF FrameStep, PutOffStep, ConnBrOccupy, ConnBrOnReferenceRequest,
              ConnBrOnReferenceResponse, ConnectionException, UpdateLocalRc, UpdatePeerRc
  <2> QED
    BY <1>2, <2>1, Zenon DEF users
<1>8. CASE RetryNotifyReferenceHandler(n) \/ WaitNegotiationClosingTimeoutHandler(n) \/ BrOnOccupyRelease(n)
  <2>1. UNCHANGED users
    BY <1>8, ZenonT(60) DEF RetryNotifyReferenceHandler, WaitNegotiationClosingTimeoutHandler,
              BrOnOccupyRelease
  <2> QED
    BY <1>2, <2>1, Zenon DEF users
<1>9. CASE BrCheckActiveConnection(n)
  BY <1>2, <1>9, Zenon DEF BrCheckActiveConnection
<1> QED
  BY <1>4, <1>5, <1>6, <1>7, <1>8, <1>9, Zenon DEF TimerStep, UserStep

\* Every step keeps the invariant.
LEMMA NextHonest == ~OverRelease /\ TypeOK /\ Honest /\ [Next]_vars => Honest'
<1> SUFFICES ASSUME ~OverRelease, TypeOK, Honest, [Next]_vars
             PROVE  Honest'
  BY Zenon
<1>0. TypeOK' /\ Breaks
  BY NextType, NextBreaks, Zenon
<1>1. ASSUME NEW n \in Nodes,
             FrameStep(n) \/ TimerStep(n) \/ PutOffStep(n) \/ UserStep(n) \/ ConnBrOccupy(n),
             ~ConnectionException(n)
      PROVE  Honest'
  <2>1. End(n)
    BY Zenon DEF Honest
  <2>2. Steady(n)
    BY <1>1, <2>1, FrameSteady, TimerSteady, PutOffSteady, UserSteady, OccupySteady, Zenon
  <2>3. \A m \in Nodes : Held(m)' >= 0
    BY <1>1, NextHeld, Zenon
  <2> QED
    BY <1>0, <2>2, <2>3, SteadyHonest, Zenon
<1>2. ASSUME NEW n \in Nodes, ConnectionException(n)
      PROVE  Honest'
  BY <1>0, <1>2, ExceptionEnds, Zenon
<1>3. ASSUME NEW n \in Nodes, LoopReadExit(n) \/ SendHandlerLoop(n)
      PROVE  Honest'
  BY <1>0, <1>3, ReadExitEnds, SendEnds, Zenon
<1>4. ASSUME NEW n \in Nodes, DisconnectDone(n)
      PROVE  Honest'
  <2>1. /\ ~linkUp' /\ state' = [state EXCEPT ![n] = "CLOSED"]
        /\ UNCHANGED <<rc, todo, inbox, sendq, acquired, released>>
    BY <1>4, Zenon DEF DisconnectDone, users
  <2>2. \A m \in Nodes : state'[m] = "NEGOTIATION_CLOSING" => state[m] = "NEGOTIATION_CLOSING"
    BY <2>1 DEF TypeOK
  <2>3. \A m \in Nodes : Rests(m)
    BY <2>1, <2>2, Zenon DEF Rests
  <2> QED
    BY <1>0, <2>1, <2>3, LinkEnds, Zenon
<1>5. CASE LinkLost
  <2>1. ~linkUp' /\ UNCHANGED <<rc, state, todo, inbox, sendq, acquired, released>>
    BY <1>5, Zenon DEF LinkLost, conn, users
  <2>2. \A m \in Nodes : Rests(m)
    BY <2>1, Zenon DEF Rests
  <2> QED
    BY <1>0, <2>1, <2>2, LinkEnds, Zenon
<1>6. CASE UNCHANGED vars
  <2>1. UNCHANGED <<rc, state, sock, todo, inbox, sendq, reading, linkUp, acquired, released>>
    BY <1>6, Zenon DEF vars, conn, users
  <2>2. \A m \in Nodes : Rests(m) /\ reading[m] \in BOOLEAN
    BY <2>1, Zenon DEF Rests, TypeOK
  <2>3. ASSUME NEW m \in Nodes
        PROVE  End(m)'
    <3>1. Peer(m) \in Nodes
      BY PeerFacts, Zenon
    <3>2. End(m)
      BY Zenon DEF Honest
    <3>3. Told(m)'
      BY <1>0, <2>1, <2>2, <3>1, <3>2, RestTold, Zenon DEF End
    <3>4. Queues(m)'
      BY <2>1, <3>2, Zenon DEF Queues, End, Shape
    <3> QED
      BY <2>1, <2>2, <3>2, <3>3, <3>4, RestEnd, Zenon
  <2> QED
    BY <2>3, Zenon DEF Honest
<1> QED
  BY <1>1, <1>2, <1>3, <1>4, <1>5, <1>6, Zenon DEF Next, ThreadStep

\* The invariant holds at the start.
LEMMA InitHonest == Init => Honest
<1> SUFFICES ASSUME Init, NEW n \in Nodes
             PROVE  End(n)
  BY Zenon DEF Honest
<1>0. Peer(n) \in Nodes /\ Peer(n) # n /\ \A m \in Nodes : m = n \/ m = Peer(n)
  BY PeerFacts, Zenon
<1>1. /\ state[n] = "CONNECTED" /\ rc[n] = 1 /\ inbox[n] = <<>> /\ todo[n] = NoMessages
      /\ sendq[n] = NoFrames /\ sendq[Peer(n)] = NoFrames /\ todo[Peer(n)] = NoMessages
      /\ acquired[n] = 0 /\ released[n] = 0 /\ acquired[Peer(n)] = 0 /\ released[Peer(n)] = 0
  BY <1>0, Zenon DEF Init
<1>2. /\ todo[n].peer = <<>> /\ todo[n].local = 0 /\ todo[Peer(n)].local = 0
      /\ sendq[n].high = <<>> /\ sendq[n].low = <<>>
      /\ sendq[Peer(n)].high = <<>> /\ sendq[Peer(n)].low = <<>>
  BY <1>1 DEF NoMessages, NoFrames
<1>3. Held(n) \in {0, 1} /\ Held(n) + Held(Peer(n)) = 1
  <2>1. Held(n) = (IF n = Client THEN 1 ELSE 0) /\ Held(Peer(n)) = (IF Peer(n) = Client THEN 1 ELSE 0)
    BY <1>1 DEF Held
  <2>2. n = Client <=> Peer(n) # Client
    BY ReferenceAssumption DEF Nodes, Peer
  <2> QED
    BY <2>1, <2>2
<1>4. Own(n) = Held(n) + 0 /\ Own(Peer(n)) = Held(Peer(n)) + 0
  BY <1>2, Zenon DEF Own
<1>5. Held(n) \in Int /\ Held(Peer(n)) \in Int
  BY <1>1 DEF Held
<1>6. Applied(n) = Own(Peer(n)) /\ Applied(n) \in Int /\ Applied(n) >= 0
  <2>1. Applied(n) = 1 - (Held(n) + 0)
    BY <1>1, <1>4, Zenon DEF Applied
  <2> QED
    BY <1>3, <1>4, <1>5, <2>1
<1>7. Carried(inbox[n]) = 0 /\ Carried(todo[n].peer) = 0
  BY <1>1, <1>2, CarriedEmpty, Zenon
<1>8. Carried(sendq[Peer(n)].high) = 0 /\ Carried(sendq[Peer(n)].low) = 0
  BY <1>2, CarriedEmpty, Zenon
<1>9. Inbound(n) = 0
  <2>1. Inbound(n) = 0 + 0 + 0 + 0
    BY <1>7, <1>8, Zenon DEF Inbound
  <2> QED
    BY <2>1
<1>10. Told(n)
  <2>1. Applied(n) + Inbound(n) = Own(Peer(n))
    BY <1>6, <1>9
  <2> QED
    BY <2>1, Zenon DEF Told
<1>11. Backed(n)
  <2>1. Level(n) + Carried(<<>>) >= 0
    <3>1. Level(n) = Applied(n) + 0
      BY <1>7, Zenon DEF Level
    <3> QED
      BY <1>6, <3>1, CarriedEmpty
  <2>2. \A k \in 0..Len(<<>>) : SubSeq(<<>>, 1, k) = <<>>
    OBVIOUS
  <2> QED
    BY <1>1, <2>1, <2>2, Zenon DEF Backed, Above
<1>12. Shape(n) /\ Closing(n) /\ Held(n) >= 0
  <2>1. \A S : <<>> \in Seq(S)
    OBVIOUS
  <2>2. Shape(n)
    BY <1>1, <1>2, <2>1, Zenon DEF Shape, Queues
  <2>3. Closing(n) /\ Held(n) >= 0
    BY <1>1, <1>3 DEF Closing
  <2> QED
    BY <2>2, <2>3
<1> QED
  BY <1>10, <1>11, <1>12, Zenon DEF End

\* With users who give back only what they took, the invariant always holds.
LEMMA HonestInvariant == ASSUME ~OverRelease PROVE Spec => [](TypeOK /\ Honest)
<1>1. Init => TypeOK /\ Honest
  BY InitType, InitHonest, Zenon
<1>2. TypeOK /\ Honest /\ [Next]_vars => TypeOK' /\ Honest'
  BY NextType, NextHonest, Zenon
<1> QED
  BY <1>1, <1>2, PTL DEF Spec

\* For any number of requests, and whatever the link loses: if the users of a device
\* give back only the references they took, an end that negotiates its closing counts
\* no reference.
THEOREM UnusedWhenClosing == ASSUME ~OverRelease PROVE Spec => []ClosingMeansUnused
<1>1. Honest => ClosingMeansUnused
  BY Zenon DEF Honest, End, Closing, ClosingMeansUnused
<1> QED
  BY <1>1, HonestInvariant, PTL

\* No count is ever negative.
NeverNegative == \A n \in Nodes : rc[n] >= 0

\* Under the same assumption no release is applied before the acquire it gives back,
\* although releases travel at a lower priority and may be put off: the count of
\* neither end falls below zero.
THEOREM CountsNeverNegative == ASSUME ~OverRelease PROVE Spec => []NeverNegative
<1>1. TypeOK /\ Honest => NeverNegative
  BY CountIsPositive, Zenon DEF Honest, NeverNegative
<1> QED
  BY <1>1, HonestInvariant, PTL
=============================================================================
