--------------------------- MODULE BrManagerProofs ---------------------------
(***************************************************************************)
(* The BR manager, first part: the devices and the looper's queue keep     *)
(* their types, the message of a connection's thread finds the connection  *)
(* in the list, and a connection counts the requests it was given to.  For *)
(* every number of addresses, requests and connections.                    *)
(*                                                                         *)
(* The invariant follows the life of a connection: what its thread is      *)
(* doing, which of its messages are in the queue, and until when it is     *)
(* listed.                                                                 *)
(***************************************************************************)
EXTENDS BrManager, FiniteSetTheorems, TLAPS

FinReqs == {R \in SUBSET Requests : IsFiniteSet(R)}
Devices == [addr : Addrs, reqs : FinReqs,
            state : {"INIT", "WAIT_SCHEDULE", "WAIT_EVENT", "PENDING"}]

\* Finite sets of requests.
LEMMA FinReqsFacts ==
    /\ {} \in FinReqs
    /\ \A r \in Requests : {r} \in FinReqs
    /\ \A R, S \in FinReqs : R \cup S \in FinReqs
    /\ \A R \in FinReqs : Cardinality(R) \in Nat
BY FS_EmptySet, FS_Singleton, FS_Union, FS_CardinalityType, Zenon DEF FinReqs

\* A set of naturals that is not empty has a least member.
LEMMA LeastNatural ==
    ASSUME NEW S \in SUBSET Nat, S # {}
    PROVE  \E n \in S : \A m \in S : n <= m
<1>1. IsWellFoundedOn(OpToRel(<, Nat), Nat)
  BY NatLessThanWellFounded, Zenon
<1>2. PICK n \in S : \A m \in S : ~(<<m, n>> \in OpToRel(<, Nat))
  BY <1>1, WFMin, Zenon
<1>3. \A m \in S : ~(m < n)
  BY <1>2, Zenon DEF OpToRel
<1>4. \A m \in S : m \in Nat /\ n \in Nat
  OBVIOUS
<1>5. \A m \in S : n <= m
  BY <1>3, <1>4
<1> QED
  BY <1>5, Zenon

\* First is the least of the places it is given, or 0 for none.
LEMMA FirstFacts ==
    ASSUME NEW S \in SUBSET (Nat \ {0})
    PROVE  \/ First(S) = 0 /\ S = {}
           \/ First(S) \in S /\ First(S) # 0
<1>1. CASE S # {}
  <2>1. S \in SUBSET Nat
    OBVIOUS
  <2>2. \E n \in S : \A m \in S : n <= m
    BY <1>1, <2>1, LeastNatural, Zenon
  <2>3. First(S) = CHOOSE n \in S : \A m \in S : n <= m
    BY <1>1, Zenon DEF First
  <2>4. First(S) \in S
    BY <2>2, <2>3, Zenon
  <2> QED
    BY <2>4, Zenon
<1>2. CASE S = {}
  BY <1>2, Zenon DEF First
<1> QED
  BY <1>1, <1>2, Zenon

----------------------------------------------------------------------------
(* Lists of devices, at most one for an address.                           *)

Distinct(w) == \A i, j \in DOMAIN w : w[i].addr = w[j].addr => i = j
Lists == {w \in Seq(Devices) : Distinct(w)}

\* Find returns the place of the device with that address, if there is one.
LEMMA FindFacts ==
    ASSUME NEW w \in Seq(Devices), NEW a
    PROVE  \/ Find(w, a) = 0 /\ \A i \in DOMAIN w : w[i].addr # a
           \/ Find(w, a) \in DOMAIN w /\ w[Find(w, a)].addr = a /\ Find(w, a) # 0
<1> DEFINE I == {i \in DOMAIN w : w[i].addr = a}
<1>1. I \in SUBSET (Nat \ {0})
  OBVIOUS
<1>2. Find(w, a) = First(I)
  BY Zenon DEF Find
<1>3. \/ First(I) = 0 /\ I = {}
      \/ First(I) \in I /\ First(I) # 0
  BY <1>1, FirstFacts, Zenon
<1> QED
  BY <1>2, <1>3, Zenon

\* Past the end of the first of two sequences comes the second.
LEMMA SecondPart ==
    ASSUME NEW S, NEW x \in Seq(S), NEW y \in Seq(S), NEW k \in 1..(Len(x) + Len(y)), k > Len(x)
    PROVE  (x \o y)[k] = y[k - Len(x)]
OBVIOUS

\* A list from which a device is taken.
LEMMA RemoveFacts ==
    ASSUME NEW w \in Lists, NEW i \in DOMAIN w
    PROVE  RemoveAt(w, i) \in Lists /\ Range(RemoveAt(w, i)) = Range(w) \ {w[i]}
<1> DEFINE u == RemoveAt(w, i)
           x == SubSeq(w, 1, i - 1)
           y == SubSeq(w, i + 1, Len(w))
<1>0. w \in Seq(Devices) /\ Distinct(w) /\ i \in 1..Len(w)
  BY DEF Lists
<1>1. u = x \o y
  BY DEF RemoveAt
<1>2. x \in Seq(Devices) /\ Len(x) = i - 1 /\ \A k \in 1..(i - 1) : x[k] = w[k]
  BY <1>0
<1>3. y \in Seq(Devices) /\ Len(y) = Len(w) - i /\ \A k \in 1..(Len(w) - i) : y[k] = w[i + k]
  BY <1>0
<1> HIDE DEF x, y
<1>4. u \in Seq(Devices) /\ Len(u) = Len(w) - 1
  BY <1>0, <1>1, <1>2, <1>3, SMTT(60)
<1>5. \A k \in 1..(Len(w) - 1) : u[k] = IF k < i THEN w[k] ELSE w[k + 1]
  <2> SUFFICES ASSUME NEW k \in 1..(Len(w) - 1)
               PROVE  u[k] = IF k < i THEN w[k] ELSE w[k + 1]
    OBVIOUS
  <2>1. CASE k < i
    BY <1>0, <1>1, <1>2, <1>3, <2>1, SMTT(60)
  <2>2. CASE k >= i
    <3>1. Len(x) = i - 1 /\ Len(y) = Len(w) - i
      BY <1>2, <1>3, Zenon
    <3>2. Len(w) \in Nat
      BY <1>0
    <3>3. /\ k \in 1..(Len(x) + Len(y)) /\ k > Len(x) /\ k - Len(x) = k - (i - 1)
          /\ k - (i - 1) \in 1..(Len(w) - i) /\ i + (k - (i - 1)) = k + 1
      BY <2>2, <3>1, <3>2, SMTT(60)
    <3>4. (x \o y)[k] = y[k - Len(x)]
      BY <1>2, <1>3, <3>3, SecondPart, ZenonT(60)
    <3>5. y[k - (i - 1)] = w[i + (k - (i - 1))]
      BY <1>3, <3>3, Zenon
    <3> QED
      BY <1>1, <2>2, <3>3, <3>4, <3>5, SMTT(60)
  <2> QED
    BY <1>0, <2>1, <2>2
<1> HIDE DEF u
<1>6. Distinct(u)
  <2> SUFFICES ASSUME NEW j \in DOMAIN u, NEW k \in DOMAIN u, u[j].addr = u[k].addr
               PROVE  j = k
    BY Zenon DEF Distinct
  <2>1. j \in 1..(Len(w) - 1) /\ k \in 1..(Len(w) - 1)
    BY <1>4
  <2>2. ASSUME NEW m \in 1..(Len(w) - 1)
        PROVE  \E a \in 1..Len(w) : u[m] = w[a] /\ (m < i => a = m) /\ (m >= i => a = m + 1)
    <3>1. CASE m < i
      <4>1. m \in 1..Len(w) /\ ~(m >= i)
        BY <1>0, <3>1
      <4> QED
        BY <1>5, <3>1, <4>1, Zenon
    <3>2. CASE ~(m < i)
      <4>1. m + 1 \in 1..Len(w)
        BY <1>0
      <4> QED
        BY <1>5, <3>2, <4>1, Zenon
    <3> QED
      BY <3>1, <3>2, Zenon
  <2>3. PICK a \in 1..Len(w) : u[j] = w[a] /\ (j < i => a = j) /\ (j >= i => a = j + 1)
    BY <2>1, <2>2, Zenon
  <2>4. PICK b \in 1..Len(w) : u[k] = w[b] /\ (k < i => b = k) /\ (k >= i => b = k + 1)
    BY <2>1, <2>2, Zenon
  <2>5. a \in DOMAIN w /\ b \in DOMAIN w
    BY <1>0
  <2>6. a = b
    BY <1>0, <2>3, <2>4, <2>5, Zenon DEF Distinct
  <2> QED
    BY <1>0, <2>1, <2>3, <2>4, <2>6
<1>7. Range(u) = Range(w) \ {w[i]}
  <2>1. ASSUME NEW k \in DOMAIN u
        PROVE  u[k] \in Range(w) \ {w[i]}
    <3>1. k \in 1..(Len(w) - 1)
      BY <1>4
    <3>2. PICK j \in DOMAIN w : u[k] = w[j] /\ j # i
      BY <1>0, <1>5, <3>1, SMTT(60)
    <3> QED
      BY <1>0, <3>2, Zenon DEF Range, Distinct
  <2>2. ASSUME NEW j \in DOMAIN w, j # i
        PROVE  w[j] \in Range(u)
    <3>1. CASE j < i
      <4>1. j \in 1..(Len(w) - 1) /\ u[j] = w[j]
        BY <1>0, <1>5, <3>1
      <4> QED
        BY <1>4, <4>1 DEF Range
    <3>2. CASE j > i
      <4>1. j - 1 \in 1..(Len(w) - 1) /\ u[j - 1] = w[j]
        BY <1>0, <1>5, <3>2, SMTT(60)
      <4> QED
        BY <1>4, <4>1 DEF Range
    <3> QED
      BY <1>0, <2>2, <3>1, <3>2
  <2> QED
    BY <2>1, <2>2, Zenon DEF Range
<1> QED
  BY <1>4, <1>6, <1>7, Zenon DEF Lists, u

\* A list to which a device is added.
LEMMA AppendFacts ==
    ASSUME NEW w \in Lists, NEW d \in Devices, \A i \in DOMAIN w : w[i].addr # d.addr
    PROVE  Append(w, d) \in Lists /\ Range(Append(w, d)) = Range(w) \cup {d}
<1> DEFINE u == Append(w, d)
<1>1. w \in Seq(Devices) /\ Distinct(w)
  BY Zenon DEF Lists
<1>2. u \in Seq(Devices) /\ Len(u) = Len(w) + 1 /\ u[Len(w) + 1] = d
      /\ \A k \in 1..Len(w) : u[k] = w[k]
  BY <1>1
<1> HIDE DEF u
<1>3. Distinct(u)
  BY <1>1, <1>2, SMTT(60) DEF Distinct
<1>4. Range(u) = Range(w) \cup {d}
  BY <1>1, <1>2, SMTT(60) DEF Range
<1> QED
  BY <1>2, <1>3, <1>4, Zenon DEF Lists, u

\* One device changes, and not its address.
LEMMA ChangeFacts ==
    ASSUME NEW w \in Lists, NEW i \in DOMAIN w, NEW d \in Devices, d.addr = w[i].addr
    PROVE  /\ [w EXCEPT ![i] = d] \in Lists
           /\ Range([w EXCEPT ![i] = d]) = (Range(w) \ {w[i]}) \cup {d}
<1> DEFINE u == [w EXCEPT ![i] = d]
<1>1. w \in Seq(Devices) /\ Distinct(w)
  BY Zenon DEF Lists
<1>2. u \in Seq(Devices) /\ DOMAIN u = DOMAIN w /\ u[i] = d
      /\ \A k \in DOMAIN w : k # i => u[k] = w[k]
  BY <1>1
<1> HIDE DEF u
<1>3. Distinct(u)
  BY <1>1, <1>2, Zenon DEF Distinct
<1>4. \A k \in DOMAIN w : k # i => w[k] # w[i]
  BY <1>1, Zenon DEF Distinct
<1>5. Range(u) = (Range(w) \ {w[i]}) \cup {d}
  BY <1>2, <1>4, Zenon DEF Range
<1> QED
  BY <1>2, <1>3, <1>5, Zenon DEF Lists, u

\* The loop that takes the devices of an address out of the list leaves the others.
Step(w, a, g, i) ==
    IF i = 0 THEN <<>> ELSE IF w[i].addr = a THEN g[i - 1] ELSE Append(g[i - 1], w[i])

\* The recursive function of Without exists.
LEMMA KeptExists ==
    ASSUME NEW w \in Seq(Devices), NEW a, NEW n \in Nat
    PROVE  \E g : g = [i \in 0..n |-> Step(w, a, g, i)]
<1> DEFINE Bad == {m \in Nat : ~\E g : g = [i \in 0..m |-> Step(w, a, g, i)]}
<1> SUFFICES ASSUME Bad # {} PROVE FALSE
  BY ZenonT(60)
<1>1. PICK m \in Bad : \A k \in Bad : m <= k
  BY LeastNatural, Zenon
<1>2. m # 0
  <2> DEFINE g == [i \in 0..0 |-> <<>>]
  <2>1. g = [i \in 0..0 |-> Step(w, a, g, i)]
    BY DEF Step
  <2> QED
    BY <2>1, Zenon
<1>3. m - 1 \in Nat /\ m - 1 \notin Bad
  BY <1>1, <1>2, SMTT(60)
<1>4. PICK g : g = [i \in 0..(m - 1) |-> Step(w, a, g, i)]
  BY <1>3, Zenon
<1> DEFINE h == [i \in 0..m |-> IF i = m THEN Step(w, a, g, m) ELSE g[i]]
<1>5. \A i \in 0..m : h[i] = Step(w, a, h, i)
  <2>0. \A i \in 0..m : i # m => i \in 0..(m - 1)
    BY <1>1
  <2>1. \A i \in 0..m : i # m => h[i] = g[i] /\ g[i] = Step(w, a, g, i)
    <3>1. \A i \in 0..(m - 1) : g[i] = Step(w, a, g, i)
      BY <1>4, Zenon
    <3> QED
      BY <2>0, <3>1, Zenon
  <2>4. h[m] = Step(w, a, g, m)
    BY <1>1
  <2>2. \A i \in 0..m : i # 0 => h[i - 1] = g[i - 1]
    BY <1>1
  <2>3. \A i \in 0..m : Step(w, a, h, i) = Step(w, a, g, i)
    BY <2>2 DEF Step
  <2> HIDE DEF h
  <2> QED
    BY <2>1, <2>3, <2>4, Zenon
<1>6. h = [i \in 0..m |-> Step(w, a, h, i)]
  BY <1>5, Zenon
<1> QED
  BY <1>6, Zenon

\* Without takes away the devices of one address and keeps the others.
LEMMA WithoutFacts ==
    ASSUME NEW w \in Lists, NEW a
    PROVE  /\ Without(w, a) \in Lists
           /\ Range(Without(w, a)) = {d \in Range(w) : d.addr # a}
<1>1. w \in Seq(Devices) /\ Distinct(w) /\ Len(w) \in Nat
  BY DEF Lists
<1> DEFINE F == CHOOSE g : g = [i \in 0..Len(w) |-> Step(w, a, g, i)]
<1>2. Without(w, a) = F[Len(w)]
  BY Zenon DEF Without, Step
<1>3. F = [i \in 0..Len(w) |-> Step(w, a, F, i)]
  BY <1>1, KeptExists, Zenon
<1> HIDE DEF F
<1> DEFINE Seen(i) == {w[j] : j \in {k \in 1..i : w[k].addr # a}}
           Good(i) == F[i] \in Lists /\ Range(F[i]) = Seen(i)
           Bad == {i \in 0..Len(w) : ~Good(i)}
<1>4. Bad = {}
  <2> SUFFICES ASSUME Bad # {} PROVE FALSE
    BY Zenon
  <2>0. Bad \in SUBSET Nat
    BY <1>1
  <2>1. PICK m \in Bad : \A k \in Bad : m <= k
    BY <2>0, LeastNatural, Zenon
  <2>2. CASE m = 0
    <3>1. F[0] = <<>>
      BY <1>1, <1>3 DEF Step
    <3>2. <<>> \in Lists /\ Range(<<>>) = {}
      BY DEF Lists, Distinct, Range
    <3> QED
      BY <2>1, <2>2, <3>1, <3>2
  <2>3. CASE m # 0
    <3>0. m \in 1..Len(w) /\ m - 1 \in 0..Len(w) /\ ~(m <= m - 1)
      BY <1>1, <2>1, <2>3
    <3>1. m \in 1..Len(w) /\ m - 1 \in 0..Len(w) /\ Good(m - 1)
      <4> HIDE DEF Good
      <4> QED
        BY <2>1, <3>0, Zenon
    <3>2. F[m] = IF w[m].addr = a THEN F[m - 1] ELSE Append(F[m - 1], w[m])
      <4>1. F[m] = Step(w, a, F, m)
        BY <1>3, <2>1, Zenon
      <4> QED
        BY <3>1, <4>1 DEF Step
    <3>3. CASE w[m].addr = a
      <4>1. Seen(m) = Seen(m - 1)
        BY <3>1, <3>3
      <4> QED
        BY <2>1, <3>1, <3>2, <3>3, <4>1, Zenon
    <3>4. CASE w[m].addr # a
      <4>1. Seen(m) = Seen(m - 1) \cup {w[m]}
        BY <3>1, <3>4
      <4>2. w[m] \in Devices /\ F[m - 1] \in Lists
        BY <1>1, <3>1
      <4>3. \A e \in Seen(m - 1) : e.addr # w[m].addr
        BY <1>1, <3>1 DEF Distinct
      <4>4. \A i \in DOMAIN F[m - 1] : F[m - 1][i].addr # w[m].addr
        BY <3>1, <4>3, Zenon DEF Range
      <4>5. Append(F[m - 1], w[m]) \in Lists /\ Range(Append(F[m - 1], w[m])) = Seen(m)
        BY <3>1, <4>1, <4>2, <4>4, AppendFacts, Zenon
      <4> QED
        BY <2>1, <3>2, <3>4, <4>5, Zenon
    <3> QED
      BY <3>3, <3>4, Zenon
  <2> QED
    BY <2>2, <2>3, Zenon
<1>5. Good(Len(w))
  <2>1. Len(w) \in 0..Len(w)
    BY <1>1
  <2> HIDE DEF Good
  <2> QED
    BY <1>4, <2>1, Zenon
<1>6. Seen(Len(w)) = {d \in Range(w) : d.addr # a}
  BY <1>1 DEF Range
<1> QED
  BY <1>2, <1>5, <1>6, Zenon

----------------------------------------------------------------------------
(* The looper's queue.  Each event is posted once, and the exception that  *)
(* ends a connection behind the message that announced it.                 *)

Messages ==
    [what : {"connect"}, arg : Requests]
    \cup [what : {"success", "accepted", "exception", "resume"}, arg : Ids]
    \cup [what : {"next", "reset"}, arg : {0}]
Tracked == {m \in Messages : m.what \notin {"next", "reset", "resume"}}
In(q, m) == \E i \in DOMAIN q : q[i] = m

Once(q) == \A i, j \in DOMAIN q : q[i] = q[j] /\ q[i] \in Tracked => i = j
Behind(q) ==
    \A i, j \in DOMAIN q :
        /\ q[i].what \in {"success", "accepted"} /\ q[j].what = "exception"
        /\ q[i].arg = q[j].arg
        => i < j
Queues == {q \in Seq(Messages) : Once(q) /\ Behind(q)}

\* Messages and their fields.
LEMMA MessageFacts ==
    ASSUME NEW m \in Messages
    PROVE  /\ m = Msg(m.what, m.arg)
           /\ m.what = "connect" => m.arg \in Requests
           /\ m.what \in {"success", "accepted", "exception", "resume"} => m.arg \in Ids
BY Zenon DEF Messages, Msg

\* Which messages are events that are posted once.
LEMMA MessageTypes ==
    /\ \A r \in Requests : Msg("connect", r) \in Tracked
    /\ \A c \in Ids : /\ Msg("success", c) \in Tracked /\ Msg("accepted", c) \in Tracked
                      /\ Msg("exception", c) \in Tracked
                      /\ Msg("resume", c) \in Messages \ Tracked
    /\ NextCmd \in Messages \ Tracked
    /\ Msg("reset", 0) \in Messages \ Tracked
BY Zenon DEF Messages, Tracked, Msg, NextCmd

\* A message is posted that is not in the queue, or is not tracked.
LEMMA AppendQueue ==
    ASSUME NEW q \in Queues, NEW m \in Messages,
           m \in Tracked => ~In(q, m),
           m.what \in {"success", "accepted"} => ~In(q, Msg("exception", m.arg))
    PROVE  /\ q \o <<m>> \in Queues
           /\ \A x : In(q \o <<m>>, x) <=> In(q, x) \/ x = m
<1> DEFINE u == q \o <<m>>
<1>1. q \in Seq(Messages) /\ Once(q) /\ Behind(q)
  BY Zenon DEF Queues
<1>2. /\ u \in Seq(Messages) /\ Len(u) = Len(q) + 1 /\ u[Len(q) + 1] = m
      /\ \A k \in 1..Len(q) : u[k] = q[k]
  BY <1>1
<1>3. DOMAIN u = 1..(Len(q) + 1) /\ DOMAIN q = 1..Len(q) /\ Len(q) \in Nat
  BY <1>1, <1>2
<1> HIDE DEF u
<1>4. \A x : In(u, x) <=> In(q, x) \/ x = m
  BY <1>2, <1>3 DEF In
<1>5. Once(u)
  <2> SUFFICES ASSUME NEW i \in DOMAIN u, NEW j \in DOMAIN u, u[i] = u[j], u[i] \in Tracked, i < j
               PROVE  FALSE
    BY <1>3 DEF Once
  <2>1. i \in DOMAIN q /\ u[i] = q[i]
    BY <1>2, <1>3
  <2>2. CASE j \in DOMAIN q
    <3>1. u[j] = q[j] /\ i # j
      BY <1>2, <1>3, <2>2
    <3> QED
      BY <1>1, <2>1, <2>2, <3>1, Zenon DEF Once
  <2>3. CASE j = Len(q) + 1
    BY <1>2, <2>1, <2>3, Zenon DEF In
  <2> QED
    BY <1>3, <2>2, <2>3
<1>6. Behind(u)
  <2> SUFFICES ASSUME NEW i \in DOMAIN u, NEW j \in DOMAIN u,
                      u[i].what \in {"success", "accepted"}, u[j].what = "exception",
                      u[i].arg = u[j].arg, j <= i
               PROVE  FALSE
    BY <1>3 DEF Behind
  <2>1. CASE i \in DOMAIN q
    BY <1>1, <1>2, <1>3, <2>1 DEF Behind
  <2>2. CASE i = Len(q) + 1
    <3>1. u[i] = m /\ j # i
      BY <1>2, <2>2, Zenon
    <3>2. j \in DOMAIN q /\ q[j] = u[j] /\ q[j] \in Messages
      BY <1>1, <1>2, <1>3, <2>2, <3>1
    <3>3. q[j] = Msg("exception", m.arg)
      BY <3>1, <3>2, MessageFacts, Zenon
    <3> QED
      BY <3>1, <3>2, <3>3, Zenon DEF In
  <2> QED
    BY <1>3, <2>1, <2>2
<1> QED
  BY <1>2, <1>4, <1>5, <1>6, Zenon DEF Queues, u

\* The head of the queue is taken.
LEMMA TailQueue ==
    ASSUME NEW q \in Queues, q # <<>>
    PROVE  /\ Head(q) \in Messages /\ In(q, Head(q))
           /\ Tail(q) \in Queues
           /\ \A x \in Tracked : In(Tail(q), x) <=> In(q, x) /\ x # Head(q)
           /\ Head(q).what = "exception" =>
                 ~In(q, Msg("success", Head(q).arg)) /\ ~In(q, Msg("accepted", Head(q).arg))
<1> DEFINE u == Tail(q)
           h == Head(q)
<1>1. q \in Seq(Messages) /\ Once(q) /\ Behind(q)
  BY Zenon DEF Queues
<1>2. /\ Len(q) \in Nat /\ Len(q) > 0 /\ DOMAIN q = 1..Len(q) /\ h = q[1] /\ h \in Messages
      /\ u \in Seq(Messages) /\ DOMAIN u = 1..(Len(q) - 1) /\ \A k \in 1..(Len(q) - 1) : u[k] = q[k + 1]
  BY <1>1
<1> HIDE DEF u, h
<1>3. In(q, h)
  BY <1>2 DEF In
<1>shifted. \A i \in DOMAIN u : i \in Nat /\ i + 1 \in DOMAIN q /\ u[i] = q[i + 1]
  BY <1>2
<1>4. Once(u)
  <2> SUFFICES ASSUME NEW i \in DOMAIN u, NEW j \in DOMAIN u, u[i] = u[j], u[i] \in Tracked
               PROVE  i = j
    BY Zenon DEF Once
  <2>1. i + 1 = j + 1
    BY <1>1, <1>shifted, Zenon DEF Once
  <2> QED
    BY <1>shifted, <2>1
<1>5. Behind(u)
  <2> SUFFICES ASSUME NEW i \in DOMAIN u, NEW j \in DOMAIN u,
                      u[i].what \in {"success", "accepted"}, u[j].what = "exception",
                      u[i].arg = u[j].arg
               PROVE  i < j
    BY Zenon DEF Behind
  <2>1. i + 1 < j + 1
    BY <1>1, <1>shifted, Zenon DEF Behind
  <2> QED
    BY <1>shifted, <2>1
<1>6. ASSUME NEW x \in Tracked
      PROVE  In(u, x) <=> In(q, x) /\ x # h
  <2>1. ASSUME NEW i \in DOMAIN u, u[i] = x
        PROVE  In(q, x) /\ x # h
    BY <1>1, <1>2, <2>1, SMTT(60) DEF In, Once
  <2>2. ASSUME NEW i \in DOMAIN q, q[i] = x, x # h
        PROVE  In(u, x)
    <3>1. i - 1 \in DOMAIN u /\ u[i - 1] = x
      BY <1>2, <2>2
    <3> QED
      BY <3>1, Zenon DEF In
  <2> QED
    BY <2>1, <2>2, Zenon DEF In
<1>7. ASSUME h.what = "exception", NEW w \in {"success", "accepted"}
      PROVE  ~In(q, Msg(w, h.arg))
  <2> SUFFICES ASSUME NEW i \in DOMAIN q, q[i] = Msg(w, h.arg) PROVE FALSE
    BY Zenon DEF In
  <2>1. q[i].what = w /\ q[i].arg = h.arg /\ 1 \in DOMAIN q
    BY <1>2 DEF Msg
  <2>2. i < 1
    BY <1>1, <1>2, <1>7, <2>1, Zenon DEF Behind
  <2> QED
    BY <1>2, <2>2
<1> QED
  BY <1>2, <1>3, <1>4, <1>5, <1>6, <1>7, Zenon DEF Queues, u, h

\* A handler takes the head of the queue and may post MSG_NEXT_CMD.
LEMMA Taken ==
    ASSUME queue \in Queues, NEW what, Handles(what), NEW posts \in {<<>>, <<NextCmd>>}, Done(posts)
    PROVE  /\ queue' \in Queues
           /\ Msg(what, Arg) \in Messages /\ In(queue, Msg(what, Arg))
           /\ \A x \in Tracked : In(queue', x) <=> In(queue, x) /\ x # Msg(what, Arg)
           /\ what = "exception" =>
                 ~In(queue, Msg("success", Arg)) /\ ~In(queue, Msg("accepted", Arg))
<1>1. queue # <<>> /\ Head(queue).what = what
  BY Zenon DEF Handles
<1>2. /\ Head(queue) \in Messages /\ In(queue, Head(queue)) /\ Tail(queue) \in Queues
      /\ \A x \in Tracked : In(Tail(queue), x) <=> In(queue, x) /\ x # Head(queue)
      /\ what = "exception" =>
            ~In(queue, Msg("success", Arg)) /\ ~In(queue, Msg("accepted", Arg))
  BY <1>1, TailQueue, Zenon DEF Arg
<1>3. Head(queue) = Msg(what, Arg)
  BY <1>1, <1>2, MessageFacts, Zenon DEF Arg
<1>4. CASE posts = <<>>
  <2>1. queue' = Tail(queue)
    BY <1>2, <1>4 DEF Done, Queues
  <2> QED
    BY <1>2, <1>3, <2>1, Zenon
<1>5. CASE posts = <<NextCmd>>
  <2>1. queue' = Tail(queue) \o <<NextCmd>>
    BY <1>5, Zenon DEF Done
  <2>2. NextCmd \in Messages /\ NextCmd \notin Tracked /\ NextCmd.what \notin {"success", "accepted"}
    BY MessageTypes, Zenon DEF NextCmd, Msg
  <2>3. /\ queue' \in Queues
        /\ \A x : In(queue', x) <=> In(Tail(queue), x) \/ x = NextCmd
    BY <1>2, <2>1, <2>2, AppendQueue, Zenon
  <2> QED
    BY <1>2, <1>3, <2>2, <2>3, Zenon
<1> QED
  BY <1>4, <1>5, Zenon

\* MSG_NEXT_CMD, MSG_RESET or MSG_CONNECTION_RESUME is posted, or nothing.
LEMMA Posted ==
    ASSUME queue \in Queues, NEW posts \in {<<>>} \cup {<<m>> : m \in Messages \ Tracked}, Post(posts)
    PROVE  queue' \in Queues /\ \A x \in Tracked : In(queue', x) <=> In(queue, x)
<1>1. CASE posts = <<>>
  <2>1. queue' = queue
    BY <1>1 DEF Post, Queues
  <2> QED
    BY <2>1, Zenon
<1>2. CASE \E m \in Messages \ Tracked : posts = <<m>>
  <2>1. PICK m \in Messages \ Tracked : posts = <<m>>
    BY <1>2, Zenon
  <2>2. queue' = queue \o <<m>> /\ m.what \notin {"success", "accepted"}
    BY <2>1, Zenon DEF Post, Tracked
  <2>3. queue' \in Queues /\ \A x : In(queue', x) <=> In(queue, x) \/ x = m
    BY <2>1, <2>2, AppendQueue, ZenonT(60)
  <2> QED
    BY <2>1, <2>3, Zenon
<1> QED
  BY <1>1, <1>2, Zenon

----------------------------------------------------------------------------
(* What the helpers of the handlers do to the devices.                     *)

\* Scheduled wakes the waiting device of an address and changes nothing else.
LEMMA ScheduledFacts ==
    ASSUME NEW w \in Lists, NEW a
    PROVE  /\ Scheduled(w, a) \in Lists
           /\ \/ Range(Scheduled(w, a)) = Range(w) /\ \A d \in Range(w) : d.addr # a
              \/ \E d \in Range(w) :
                    /\ d.addr = a
                    /\ Range(Scheduled(w, a)) =
                          (Range(w) \ {d}) \cup {[d EXCEPT !.state = "WAIT_SCHEDULE"]}
<1> DEFINE i == Find(w, a)
<1>1. w \in Seq(Devices)
  BY Zenon DEF Lists
<1>2. CASE i = 0
  <2>1. Scheduled(w, a) = w /\ \A k \in DOMAIN w : w[k].addr # a
    BY <1>1, <1>2, FindFacts, Zenon DEF Scheduled
  <2> QED
    BY <2>1, Zenon DEF Range
<1>3. CASE i # 0
  <2>1. i \in DOMAIN w /\ w[i].addr = a /\ w[i] \in Devices /\ w[i] \in Range(w)
    BY <1>1, <1>3, FindFacts DEF Range
  <2> DEFINE d == [w[i] EXCEPT !.state = "WAIT_SCHEDULE"]
  <2>2. Scheduled(w, a) = [w EXCEPT ![i] = d]
    BY <1>1, <1>3, Zenon DEF Scheduled
  <2>3. d \in Devices /\ d.addr = w[i].addr
    BY <2>1, Zenon DEF Devices
  <2> HIDE DEF i, d
  <2>4. [w EXCEPT ![i] = d] \in Lists /\ Range([w EXCEPT ![i] = d]) = (Range(w) \ {w[i]}) \cup {d}
    BY <2>1, <2>3, ChangeFacts, ZenonT(60)
  <2> QED
    BY <2>1, <2>2, <2>4, Zenon DEF i, d
<1> QED
  BY <1>2, <1>3, Zenon

\* PendingDevice has the device join the one with its address, or wait.
Joins(d, w, cur) ==
    /\ cur.addr = d.addr
    /\ connecting' = [cur EXCEPT !.reqs = @ \cup d.reqs]
    /\ waitings' = w
JoinsWaiting(d, w, cur) ==
    /\ cur.addr # d.addr
    /\ connecting' = cur
    /\ \E e \in Range(w) :
          /\ e.addr = d.addr
          /\ Range(waitings') = (Range(w) \ {e}) \cup {[e EXCEPT !.reqs = @ \cup d.reqs]}
WaitsNew(d, w, cur) ==
    /\ cur.addr # d.addr
    /\ connecting' = cur
    /\ \A e \in Range(w) : e.addr # d.addr
    /\ Range(waitings') = Range(w) \cup {d}

\* PendingDevice: the device joins the one being connected or a waiting one, or waits.
LEMMA Pended ==
    ASSUME NEW w \in Lists, NEW d \in Devices, NEW cur \in Devices \cup {NoDevice},
           PendingDevice(d, w, cur)
    PROVE  /\ waitings' \in Lists
           /\ connecting' \in Devices \cup {NoDevice}
           /\ Joins(d, w, cur) \/ JoinsWaiting(d, w, cur) \/ WaitsNew(d, w, cur)
<1> DEFINE i == Find(w, d.addr)
<1>1. w \in Seq(Devices)
  BY Zenon DEF Lists
<1>2. CASE cur.addr = d.addr
  <2>1. Joins(d, w, cur)
    BY <1>2, Zenon DEF PendingDevice, Joins
  <2>2. cur \in Devices
    BY <1>2, ManagerAssumption DEF Devices, NoDevice, NoAddr
  <2>3. [cur EXCEPT !.reqs = @ \cup d.reqs] \in Devices
    BY <2>2, FinReqsFacts, Zenon DEF Devices
  <2> QED
    BY <2>1, <2>3, Zenon DEF Joins
<1>3. CASE cur.addr # d.addr /\ i = 0
  <2>1. \A k \in DOMAIN w : w[k].addr # d.addr
    BY <1>1, <1>3, FindFacts, Zenon
  <2>2. connecting' = cur /\ waitings' = Append(w, d)
    BY <1>3, Zenon DEF PendingDevice
  <2>3. waitings' \in Lists /\ Range(waitings') = Range(w) \cup {d}
    BY <2>1, <2>2, AppendFacts, Zenon
  <2>4. \A e \in Range(w) : e.addr # d.addr
    BY <2>1, Zenon DEF Range
  <2> QED
    BY <1>3, <2>2, <2>3, <2>4, Zenon DEF WaitsNew
<1>4. CASE cur.addr # d.addr /\ i # 0
  <2>1. i \in DOMAIN w /\ w[i].addr = d.addr /\ w[i] \in Devices /\ w[i] \in Range(w)
    BY <1>1, <1>4, FindFacts DEF Range
  <2> DEFINE e == [w[i] EXCEPT !.reqs = @ \cup d.reqs]
  <2>2. connecting' = cur /\ waitings' = [w EXCEPT ![i] = e]
    BY <1>4, Zenon DEF PendingDevice
  <2>3. e \in Devices /\ e.addr = w[i].addr
    BY <2>1, FinReqsFacts, Zenon DEF Devices
  <2> HIDE DEF i, e
  <2>4. [w EXCEPT ![i] = e] \in Lists /\ Range([w EXCEPT ![i] = e]) = (Range(w) \ {w[i]}) \cup {e}
    <3>1. \A k \in DOMAIN w : \A f \in Devices :
             f.addr = w[k].addr => /\ [w EXCEPT ![k] = f] \in Lists
                                   /\ Range([w EXCEPT ![k] = f]) = (Range(w) \ {w[k]}) \cup {f}
      BY ChangeFacts, Zenon
    <3> QED
      BY <2>1, <2>3, <3>1, Zenon
  <2> QED
    BY <1>4, <2>1, <2>2, <2>4, Zenon DEF JoinsWaiting, i, e
<1> QED
  BY <1>2, <1>3, <1>4, Zenon

\* AttempReuseConnect has the device wait, start an attempt, fail or be served.
ToWait(d, w) ==
    /\ \E state \in {"WAIT_SCHEDULE", "PENDING", "WAIT_EVENT"} :
          /\ PendingDevice([d EXCEPT !.state = state], w, connecting)
          /\ state = "PENDING" => d.addr \in pendings
          /\ state = "WAIT_EVENT" => \E c \in Ids : conns[c].listed /\ conns[c].addr = d.addr
    /\ UNCHANGED <<mgr, conns, made, timeouts, answers>>
ToConnect(d, w) ==
    /\ \A c \in Ids : conns[c].listed /\ conns[c].side = "client" => conns[c].addr # d.addr
    /\ made < MaxConnections
    /\ made' = made + 1
    /\ conns' = [conns EXCEPT ![made + 1] = ClientConnection(d.addr)]
    /\ connecting' = [d EXCEPT !.state = "WAIT_SCHEDULE"]
    /\ waitings' = w
    /\ timeouts' = timeouts \cup {made + 1}
    /\ mgr' = "CONNECTING"
    /\ UNCHANGED answers
ToFail(d, w) ==
    /\ answers' = Answered(d.reqs)
    /\ waitings' = w
    /\ UNCHANGED <<made, conns, connecting, timeouts, mgr>>
ToServe(d, w) ==
    /\ \E c \in Ids : /\ conns[c].listed /\ conns[c].addr = d.addr
                      /\ conns' = Granted(c, d.reqs, TRUE)
    /\ answers' = Answered(d.reqs)
    /\ waitings' = w
    /\ UNCHANGED <<mgr, connecting, made, timeouts>>

\* ByAddr returns a listed connection of that address and side, if there is one.
LEMMA ByAddrFacts ==
    ASSUME NEW a, NEW side
    PROVE  \/ ByAddr(a, side) = 0 /\ Listed(a, side) = {}
           \/ ByAddr(a, side) \in Listed(a, side) /\ ByAddr(a, side) \in Ids /\ ByAddr(a, side) # 0
<1>1. Listed(a, side) \in SUBSET (Nat \ {0}) /\ Listed(a, side) \subseteq Ids
  BY DEF Listed, Ids
<1> QED
  BY <1>1, FirstFacts, Zenon DEF ByAddr

\* How AttempReuseConnect ends: the device waits, is connected, fails or is served.
LEMMA Outcomes ==
    ASSUME NEW d \in Devices, NEW w, NEW hint, NEW directly \in BOOLEAN,
           AttempReuseConnect(d, w, hint, directly)
    PROVE  ToWait(d, w) \/ (directly /\ ToConnect(d, w)) \/ ToFail(d, w) \/ ToServe(d, w)
<1> DEFINE a == d.addr
           client == ByAddr(a, "client")
           server == ByAddr(a, "server")
           reused == IF hint \in Connected(a) THEN hint
                     ELSE IF client \in Connected(a) THEN client
                     ELSE IF server \in Connected(a) THEN server ELSE 0
           Wait(state) == /\ PendingDevice([d EXCEPT !.state = state], w, connecting)
                          /\ UNCHANGED <<mgr, conns, made, timeouts, answers>>
<1>1. IF client = 0 /\ server = 0
      THEN IF a \in pendings THEN Wait("PENDING")
           ELSE IF directly THEN ConnectDeviceDirectly([d EXCEPT !.state = "WAIT_SCHEDULE"], w)
           ELSE Wait("WAIT_SCHEDULE")
      ELSE IF reused # 0
      THEN /\ conns' = Granted(reused, d.reqs, TRUE)
           /\ answers' = Answered(d.reqs)
           /\ waitings' = w
           /\ UNCHANGED <<mgr, connecting, made, timeouts>>
      ELSE Wait("WAIT_EVENT")
  BY Zenon DEF AttempReuseConnect
<1>2. CASE client = 0 /\ server = 0 /\ a \in pendings
  BY <1>1, <1>2, Zenon DEF ToWait
<1>3. CASE client = 0 /\ server = 0 /\ a \notin pendings /\ ~directly
  BY <1>1, <1>3, Zenon DEF ToWait
<1>4. CASE client = 0 /\ server = 0 /\ a \notin pendings /\ directly
  <2> DEFINE e == [d EXCEPT !.state = "WAIT_SCHEDULE"]
  <2>1. e.addr = d.addr /\ e.reqs = d.reqs
    BY Zenon DEF Devices
  <2>2. ConnectDeviceDirectly(e, w)
    BY <1>1, <1>4, Zenon
  <2>3. \A c \in Ids : conns[c].listed /\ conns[c].side = "client" => conns[c].addr # d.addr
    <3>1. Listed(a, "client") = {}
      BY <1>4, ByAddrFacts, Zenon
    <3> QED
      BY <3>1, Zenon DEF Listed
  <2> HIDE DEF e
  <2>4. e = [d EXCEPT !.state = "WAIT_SCHEDULE"]
    BY Zenon DEF e
  <2> QED
    BY <1>4, <2>1, <2>2, <2>3, <2>4, Zenon DEF ConnectDeviceDirectly, ToConnect, ToFail
<1>5. CASE ~(client = 0 /\ server = 0) /\ reused # 0
  <2>1. reused \in Connected(a)
    BY <1>5, Zenon
  <2>2. reused \in Ids /\ conns[reused].listed /\ conns[reused].addr = d.addr
    BY <2>1, Zenon DEF Connected
  <2> HIDE DEF reused
  <2> QED
    BY <1>1, <1>5, <2>2, Zenon DEF ToServe
<1>6. CASE ~(client = 0 /\ server = 0) /\ reused = 0
  <2>1. \E c \in Ids : conns[c].listed /\ conns[c].addr = d.addr
    <3>1. PICK side \in {"client", "server"} : ByAddr(a, side) # 0
      BY <1>6, Zenon
    <3>2. ByAddr(a, side) \in Listed(a, side) /\ ByAddr(a, side) \in Ids
      BY <3>1, ByAddrFacts, Zenon
    <3> QED
      BY <3>2, Zenon DEF Listed
  <2> QED
    BY <1>1, <1>6, <2>1, Zenon DEF ToWait
<1> QED
  BY <1>2, <1>3, <1>4, <1>5, <1>6, Zenon

----------------------------------------------------------------------------
(* The first half of the inductive invariant: the types of the devices,    *)
(* the queue, and the life of a connection, whose messages find it.        *)

DInv ==
    /\ mgr \in {"AVAILABLE", "CONNECTING"}
    /\ connecting \in Devices \cup {NoDevice}
    /\ waitings \in Lists

QInv ==
    /\ queue \in Queues
    /\ \A r \in Requests : In(queue, Msg("connect", r)) => r \in asked

Connections ==
    [addr : Addrs \cup {NoAddr}, side : {"client", "server", "none"},
     state : {"CONNECTING", "CONNECTED", "NEGOTIATION_CLOSING", "CLOSED"},
     sock : BOOLEAN, listed : BOOLEAN,
     thread : {"none", "connecting", "connected", "accepted", "failed", "reading", "done"},
     rc : Int, granted : Int, collision : BOOLEAN]

CType == conns \in [Ids -> Connections] /\ made \in 0..MaxConnections /\ fails \subseteq Ids

\* A client's thread connects, fails or reads; a server's starts at reading; the
\* connection is listed until the handler of the last message of its thread.
Life(c) ==
    /\ c > made => conns[c].side = "none" /\ ~conns[c].listed /\ conns[c].thread = "none"
    /\ c <= made => conns[c].addr \in Addrs /\ conns[c].side \in {"client", "server"}
    /\ conns[c].thread \in {"connecting", "connected", "failed"} => conns[c].side = "client"
    /\ conns[c].thread = "accepted" => conns[c].side = "server"
    /\ conns[c].thread \in {"connecting", "connected", "accepted", "reading"} => conns[c].listed
    /\ c \in fails => conns[c].thread = "failed" /\ conns[c].listed
    /\ In(queue, Msg("success", c)) =>
          conns[c].side = "client" /\ conns[c].thread \in {"reading", "done"} /\ conns[c].listed
    /\ In(queue, Msg("accepted", c)) =>
          conns[c].side = "server" /\ conns[c].thread \in {"reading", "done"} /\ conns[c].listed
    /\ In(queue, Msg("exception", c)) => conns[c].thread = "done" /\ conns[c].listed

Open(c) ==
    \/ conns[c].side = "server"
    \/ conns[c].thread \in {"connecting", "connected", "failed"}
    \/ In(queue, Msg("success", c))
Count(c) == conns[c].listed => conns[c].rc = conns[c].granted + (IF Open(c) THEN 1 ELSE 0)

ListedClient(c) == conns[c].listed /\ conns[c].side = "client"
OneClient ==
    \A c, d \in Ids : ListedClient(c) /\ ListedClient(d) /\ conns[c].addr = conns[d].addr => c = d

CInv == CType /\ (\A c \in Ids : Life(c) /\ Count(c)) /\ OneClient

EventInv == DInv /\ QInv /\ CInv

----------------------------------------------------------------------------
(* What the steps do to the queue.                                         *)

QSame == queue' \in Queues /\ \A x \in Tracked : In(queue', x) <=> In(queue, x)
QTook(m) ==
    /\ queue' \in Queues /\ m \in Messages /\ In(queue, m)
    /\ \A x \in Tracked : In(queue', x) <=> In(queue, x) /\ x # m
QPut(m) ==
    /\ queue' \in Queues /\ m \in Tracked
    /\ \A x \in Tracked : In(queue', x) <=> In(queue, x) \/ x = m

\* What the helpers post.
LEMMA PostsFacts ==
    ASSUME NEW a
    PROVE  /\ Entered \in {<<>>, <<NextCmd>>} /\ UnpendPosts(a) \in {<<>>, <<NextCmd>>}
           /\ <<NextCmd>> \in {<<m>> : m \in Messages \ Tracked}
           /\ <<Msg("reset", 0)>> \in {<<m>> : m \in Messages \ Tracked}
           /\ \A c \in Ids : <<Msg("resume", c)>> \in {<<m>> : m \in Messages \ Tracked}
BY MessageTypes, Zenon DEF Entered, UnpendPosts

\* The message each handler takes from the queue.
LEMMA TakingSteps ==
    ASSUME queue \in Queues
    PROVE  /\ ConnectRequestOnAvailableState \/ ConnectRequestOnConnectingState =>
                 QTook(Msg("connect", Arg)) /\ Arg \in Requests
           /\ ServerAccepted => QTook(Msg("accepted", Arg)) /\ Arg \in Ids
           /\ ClientConnected => QTook(Msg("success", Arg)) /\ Arg \in Ids
           /\ ConnectionException =>
                 /\ QTook(Msg("exception", Arg)) /\ Arg \in Ids
                 /\ ~In(queue, Msg("success", Arg)) /\ ~In(queue, Msg("accepted", Arg))
           /\ ConnectionResume => QSame /\ Arg \in Ids
           /\ HandlePendingRequest \/ Reset => QSame
<1>1. ASSUME NEW what, Handles(what), NEW posts \in {<<>>, <<NextCmd>>}, Done(posts)
      PROVE  /\ QTook(Msg(what, Arg)) /\ Msg(what, Arg).what = what /\ Msg(what, Arg).arg = Arg
             /\ what = "exception" =>
                   ~In(queue, Msg("success", Arg)) /\ ~In(queue, Msg("accepted", Arg))
  BY <1>1, Taken, Zenon DEF QTook, Msg
<1>2. ASSUME NEW what \in {"resume", "next", "reset"}, NEW arg, QTook(Msg(what, arg))
      PROVE  QSame
  <2>1. Msg(what, arg) \notin Tracked
    BY <1>2, Zenon DEF Tracked, Msg
  <2> QED
    BY <1>2, <2>1, Zenon DEF QTook, QSame
<1>3. ASSUME NEW what, QTook(Msg(what, Arg)), Msg(what, Arg).what = what, Msg(what, Arg).arg = Arg
      PROVE  /\ what = "connect" => Arg \in Requests
             /\ what \in {"success", "accepted", "exception", "resume"} => Arg \in Ids
  BY <1>3, MessageFacts, Zenon DEF QTook
<1>4. <<>> \in {<<>>, <<NextCmd>>} /\ <<NextCmd>> \in {<<>>, <<NextCmd>>}
  OBVIOUS
<1>5. ConnectRequestOnAvailableState \/ ConnectRequestOnConnectingState =>
          \E posts \in {<<>>, <<NextCmd>>} : Handles("connect") /\ Done(posts)
  BY <1>4, Zenon DEF ConnectRequestOnAvailableState, ConnectRequestOnConnectingState
<1>6. ServerAccepted => \E posts \in {<<>>, <<NextCmd>>} : Handles("accepted") /\ Done(posts)
  BY PostsFacts, Zenon DEF ServerAccepted
<1>7. ClientConnected => \E posts \in {<<>>, <<NextCmd>>} : Handles("success") /\ Done(posts)
  BY <1>4, PostsFacts, Zenon DEF ClientConnected
<1>8. ConnectionException => \E posts \in {<<>>, <<NextCmd>>} : Handles("exception") /\ Done(posts)
  BY <1>4, Zenon DEF ConnectionException
<1>9. ConnectionResume => \E posts \in {<<>>, <<NextCmd>>} : Handles("resume") /\ Done(posts)
  BY <1>4, Zenon DEF ConnectionResume
<1>10. HandlePendingRequest => \E posts \in {<<>>, <<NextCmd>>} : Handles("next") /\ Done(posts)
  BY <1>4, Zenon DEF HandlePendingRequest
<1>11. Reset => \E posts \in {<<>>, <<NextCmd>>} : Handles("reset") /\ Done(posts)
  BY PostsFacts, Zenon DEF Reset, ResetTo
<1>12. ConnectRequestOnAvailableState \/ ConnectRequestOnConnectingState =>
          QTook(Msg("connect", Arg)) /\ Arg \in Requests
  BY <1>1, <1>3, <1>5, Zenon
<1>13. ServerAccepted => QTook(Msg("accepted", Arg)) /\ Arg \in Ids
  BY <1>1, <1>3, <1>6, Zenon
<1>14. ClientConnected => QTook(Msg("success", Arg)) /\ Arg \in Ids
  BY <1>1, <1>3, <1>7, Zenon
<1>15. ConnectionException =>
           /\ QTook(Msg("exception", Arg)) /\ Arg \in Ids
           /\ ~In(queue, Msg("success", Arg)) /\ ~In(queue, Msg("accepted", Arg))
  BY <1>1, <1>3, <1>8, Zenon
<1>16. ConnectionResume => QSame /\ Arg \in Ids
  BY <1>1, <1>2, <1>3, <1>9, Zenon
<1>17. HandlePendingRequest \/ Reset => QSame
  BY <1>1, <1>2, <1>10, <1>11, Zenon
<1> QED
  BY <1>12, <1>13, <1>14, <1>15, <1>16, <1>17, Zenon

\* Steps that post nothing a connection or a request waits for.
QuietStep ==
    \/ \E c \in Ids : \/ ClientConnectFailed(c) \/ ClientConnectTimeout(c)
                      \/ StartBrClientConnect(c) \/ EndNegotiation(c)
                      \/ BrDisconnectDeviceNow(c) \/ Negotiate(c)
    \/ \E a \in Addrs : Unpend(a) \/ Accept(a) \/ BrPendConnection(a)
    \/ OnBtStateChanged

\* The steps that post and take no event.
LEMMA QuietSteps ==
    ASSUME queue \in Queues, QuietStep
    PROVE  QSame
<1> DEFINE Quiet == {<<>>} \cup {<<m>> : m \in Messages \ Tracked}
<1>0. <<>> \in Quiet /\ <<NextCmd>> \in Quiet
  BY PostsFacts, Zenon
<1>1. ASSUME NEW posts \in Quiet, Post(posts)
      PROVE  QSame
  BY <1>1, Posted, Zenon DEF QSame
<1>2. ASSUME UNCHANGED queue
      PROVE  QSame
  BY <1>2, Zenon DEF QSame
<1>3. ASSUME NEW posts \in {<<>>, <<NextCmd>>}
      PROVE  posts \in Quiet
  BY <1>0, <1>3, Zenon
<1>4. ASSUME NEW c \in Ids, ClientConnectFailed(c)
      PROVE  QSame
  <2>1. \E posts \in {<<>>, <<NextCmd>>} : Post(posts)
    BY <1>4, PostsFacts, Zenon DEF ClientConnectFailed
  <2> HIDE DEF Quiet
  <2> QED
    BY <1>1, <1>3, <2>1, Zenon
<1>5. ASSUME NEW c \in Ids, ClientConnectTimeout(c)
      PROVE  QSame
  <2>1. UNCHANGED queue \/ \E posts \in {<<>>, <<NextCmd>>} : Post(posts)
    BY <1>5, PostsFacts, Zenon DEF ClientConnectTimeout
  <2> HIDE DEF Quiet
  <2> QED
    BY <1>1, <1>2, <1>3, <2>1, Zenon
<1>6. ASSUME NEW c \in Ids, EndNegotiation(c)
      PROVE  QSame
  <2>1. UNCHANGED queue \/ \E posts \in Quiet : Post(posts)
    BY <1>6, PostsFacts, Zenon DEF EndNegotiation
  <2> HIDE DEF Quiet
  <2> QED
    BY <1>1, <1>2, <2>1, Zenon
<1>7. ASSUME NEW c \in Ids, StartBrClientConnect(c) \/ BrDisconnectDeviceNow(c) \/ Negotiate(c)
      PROVE  QSame
  BY <1>2, <1>7, Zenon DEF StartBrClientConnect, BrDisconnectDeviceNow, Negotiate
<1>8. ASSUME NEW a \in Addrs, Accept(a) \/ BrPendConnection(a)
      PROVE  QSame
  BY <1>2, <1>8, Zenon DEF Accept, BrPendConnection
<1>9. ASSUME NEW a \in Addrs, Unpend(a)
      PROVE  QSame
  <2>1. \E posts \in {<<>>, <<NextCmd>>} : Post(posts)
    BY <1>9, PostsFacts, Zenon DEF Unpend
  <2> HIDE DEF Quiet
  <2> QED
    BY <1>1, <1>3, <2>1, Zenon
<1>10. CASE OnBtStateChanged
  <2>1. \E posts \in Quiet : Post(posts)
    BY <1>0, <1>10, PostsFacts, Zenon DEF OnBtStateChanged
  <2> HIDE DEF Quiet
  <2> QED
    BY <1>1, <2>1, Zenon
<1> QED
  BY <1>4, <1>5, <1>6, <1>7, <1>8, <1>9, <1>10, Zenon DEF QuietStep

\* Each event is posted once: a request as it is asked for, a connection's
\* messages as its thread moves on.
LEMMA PostingSteps ==
    ASSUME QInv, CInv
    PROVE  /\ \A r \in Requests : BrConnectDevice(r) => QPut(Msg("connect", r))
           /\ \A c \in Ids : Announce(c) =>
                 QPut(Msg(IF conns[c].side = "client" THEN "success" ELSE "accepted", c))
           /\ \A c \in Ids : LoopReadExit(c) => QPut(Msg("exception", c))
<1>0. queue \in Queues
  BY Zenon DEF QInv
<1>1. ASSUME NEW m \in Tracked, ~In(queue, m), Post(<<m>>),
             m.what \in {"success", "accepted"} => ~In(queue, Msg("exception", m.arg))
      PROVE  QPut(m)
  <2>1. m \in Messages
    BY Zenon DEF Tracked
  <2>2. /\ queue \o <<m>> \in Queues
        /\ \A x : In(queue \o <<m>>, x) <=> In(queue, x) \/ x = m
    BY <1>0, <1>1, <2>1, AppendQueue, Zenon
  <2> QED
    BY <1>1, <2>2, Zenon DEF Post, QPut
<1>2. ASSUME NEW r \in Requests, BrConnectDevice(r)
      PROVE  QPut(Msg("connect", r))
  <2>1. ~In(queue, Msg("connect", r)) /\ Post(<<Msg("connect", r)>>)
    BY <1>2, Zenon DEF BrConnectDevice, QInv
  <2>2. Msg("connect", r).what = "connect"
    BY Zenon DEF Msg
  <2> QED
    BY <1>1, <2>1, <2>2, MessageTypes, Zenon
<1>3. ASSUME NEW c \in Ids, Announce(c)
      PROVE  QPut(Msg(IF conns[c].side = "client" THEN "success" ELSE "accepted", c))
  <2>1. PICK w \in {"success", "accepted"} :
            w = IF conns[c].side = "client" THEN "success" ELSE "accepted"
    OBVIOUS
  <2>2. Post(<<Msg(w, c)>>) /\ conns[c].thread \in {"connected", "accepted"}
    BY <1>3, <2>1, Zenon DEF Announce
  <2>3. ~In(queue, Msg("success", c)) /\ ~In(queue, Msg("accepted", c)) /\ ~In(queue, Msg("exception", c))
    BY <2>2, Zenon DEF CInv, Life
  <2>4. Msg(w, c) \in Tracked /\ Msg(w, c).arg = c /\ ~In(queue, Msg(w, c))
    BY <2>1, <2>3, MessageTypes, Zenon DEF Msg
  <2>5. QPut(Msg(w, c))
    BY <1>1, <2>2, <2>3, <2>4, Zenon
  <2> QED
    BY <2>1, <2>5, Zenon
<1>4. ASSUME NEW c \in Ids, LoopReadExit(c)
      PROVE  QPut(Msg("exception", c))
  <2>1. ~In(queue, Msg("exception", c)) /\ Post(<<Msg("exception", c)>>)
    BY <1>4, Zenon DEF LoopReadExit, CInv, Life
  <2>2. Msg("exception", c).what = "exception"
    BY Zenon DEF Msg
  <2> QED
    BY <1>1, <2>1, <2>2, MessageTypes, Zenon
<1> QED
  BY <1>2, <1>3, <1>4, Zenon

\* Every step keeps the queue in order.
LEMMA NextQ == QInv /\ CInv /\ [Next]_vars => QInv'
<1> SUFFICES ASSUME QInv, CInv, [Next]_vars
             PROVE  QInv'
  OBVIOUS
<1>0. queue \in Queues
  BY Zenon DEF QInv
<1>1. ASSUME QSame, asked' = asked
      PROVE  QInv'
  BY <1>1, MessageTypes, Zenon DEF QInv, QSame
<1>2. ASSUME NEW m, QTook(m), asked' = asked
      PROVE  QInv'
  BY <1>2, MessageTypes, Zenon DEF QInv, QTook
<1>3. ASSUME NEW m, QPut(m), m.what # "connect", asked' = asked
      PROVE  QInv'
  <2>1. \A r \in Requests : Msg("connect", r) # m
    BY <1>3 DEF Msg
  <2> QED
    BY <1>3, <2>1, MessageTypes, Zenon DEF QInv, QPut
<1>4. CASE ConnectRequestOnAvailableState \/ ConnectRequestOnConnectingState \/ ServerAccepted
           \/ ClientConnected \/ ConnectionException
  <2>1. asked' = asked
    BY <1>4, Zenon DEF ConnectRequestOnAvailableState, ConnectRequestOnConnectingState, ServerAccepted,
          ClientConnected, ConnectionException
  <2> QED
    BY <1>0, <1>2, <1>4, <2>1, TakingSteps, Zenon
<1>5. CASE ConnectionResume \/ HandlePendingRequest \/ Reset
  <2>1. asked' = asked
    BY <1>5, Zenon DEF ConnectionResume, HandlePendingRequest, Reset, ResetTo
  <2> QED
    BY <1>0, <1>1, <1>5, <2>1, TakingSteps, Zenon
<1>6. CASE QuietStep
  <2>1. asked' = asked
    BY <1>6, Zenon DEF QuietStep, ClientConnectFailed, ClientConnectTimeout, StartBrClientConnect,
          EndNegotiation, BrDisconnectDeviceNow, Negotiate, Unpend, Accept, BrPendConnection,
          OnBtStateChanged, Others
  <2> QED
    BY <1>0, <1>1, <1>6, <2>1, QuietSteps, Zenon
<1>7. ASSUME NEW r \in Requests, BrConnectDevice(r)
      PROVE  QInv'
  <2>1. QPut(Msg("connect", r)) /\ asked' = asked \cup {r}
    BY <1>7, PostingSteps, Zenon DEF BrConnectDevice
  <2>2. \A s \in Requests : Msg("connect", s) = Msg("connect", r) => s = r
    BY Zenon DEF Msg
  <2> QED
    BY <2>1, <2>2, MessageTypes, Zenon DEF QInv, QPut
<1>8. ASSUME NEW c \in Ids, Announce(c) \/ LoopReadExit(c)
      PROVE  QInv'
  <2>1. asked' = asked
    BY <1>8, Zenon DEF Announce, LoopReadExit, Others
  <2>2. \E m : QPut(m) /\ m.what # "connect"
    <3>1. PICK w \in {"success", "accepted", "exception"} : QPut(Msg(w, c))
      BY <1>8, PostingSteps, Zenon
    <3>2. Msg(w, c).what # "connect"
      BY Zenon DEF Msg
    <3> QED
      BY <3>1, <3>2, Zenon
  <2> QED
    BY <1>3, <2>1, <2>2, Zenon
<1>9. CASE UNCHANGED vars
  BY <1>9, Zenon DEF vars, QInv
<1> QED
  BY <1>4, <1>5, <1>6, <1>7, <1>8, <1>9, Zenon
     DEF Next, QueueStep, TimerStep, ThreadStep, EnvStep, QuietStep

\* ClientConnected serves the device that waits, gives the reference back, or
\* serves the device that is being connected.
ServesWaiting(c, i) ==
    /\ i # 0 /\ i = Find(waitings, conns[c].addr)
    /\ conns' = Granted(c, waitings[i].reqs, FALSE)
    /\ answers' = Answered(waitings[i].reqs)
    /\ waitings' = RemoveAt(waitings, i)
    /\ mgr' = mgr /\ connecting' = connecting /\ timeouts' = timeouts
GivesBack(c) ==
    /\ Find(waitings, conns[c].addr) = 0 /\ connecting.addr # conns[c].addr
    /\ conns' = [conns EXCEPT ![c].rc = @ - 1,
                              ![c].state = IF conns[c].rc <= 1 THEN "NEGOTIATION_CLOSING" ELSE @]
    /\ mgr' = mgr /\ connecting' = connecting /\ timeouts' = timeouts
    /\ waitings' = waitings /\ answers' = answers
ServesConnecting(c) ==
    /\ Find(waitings, conns[c].addr) = 0 /\ connecting.addr = conns[c].addr
    /\ timeouts' = timeouts \ {c}
    /\ conns' = Granted(c, connecting.reqs, FALSE)
    /\ answers' = Answered(connecting.reqs)
    /\ connecting' = NoDevice
    /\ mgr' = "AVAILABLE"
    /\ waitings' = waitings

\* ClientConnected: whom the new connection serves.
LEMMA ConnectedCases ==
    ASSUME ClientConnected
    PROVE  /\ conns[Arg].listed
           /\ pendings' = pendings /\ unpends' = unpends /\ fails' = fails
           /\ made' = made /\ asked' = asked
           /\ \/ \E i : ServesWaiting(Arg, i)
              \/ GivesBack(Arg) \/ ServesConnecting(Arg)
<1> DEFINE c == Arg
           a == conns[c].addr
           i == Find(waitings, a)
<1>1. /\ conns[c].listed
      /\ IF i # 0
         THEN /\ conns' = Granted(c, waitings[i].reqs, FALSE)
              /\ answers' = Answered(waitings[i].reqs)
              /\ waitings' = RemoveAt(waitings, i)
              /\ Done(<<>>)
              /\ UNCHANGED <<mgr, connecting, timeouts>>
         ELSE IF connecting.addr # a
         THEN /\ conns' = [conns EXCEPT ![c].rc = @ - 1,
                                        ![c].state = IF conns[c].rc <= 1
                                                     THEN "NEGOTIATION_CLOSING" ELSE @]
              /\ Done(<<>>)
              /\ UNCHANGED <<mgr, devices, timeouts, answers>>
         ELSE /\ CancelTimeout(c)
              /\ conns' = Granted(c, connecting.reqs, FALSE)
              /\ answers' = Answered(connecting.reqs)
              /\ connecting' = NoDevice
              /\ mgr' = "AVAILABLE"
              /\ Done(Entered)
              /\ UNCHANGED waitings
  BY Zenon DEF ClientConnected
<1>2. pendings' = pendings /\ unpends' = unpends /\ fails' = fails /\ made' = made /\ asked' = asked
  BY Zenon DEF ClientConnected
<1>3. CASE i # 0
  <2>1. UNCHANGED <<mgr, connecting, timeouts>>
    BY <1>1, <1>3, Zenon
  <2>2. mgr' = mgr /\ connecting' = connecting /\ timeouts' = timeouts
    BY <2>1, Zenon
  <2> QED
    BY <1>1, <1>2, <1>3, <2>2, Zenon DEF ServesWaiting
<1>4. CASE i = 0 /\ connecting.addr # a
  <2>1. UNCHANGED <<mgr, devices, timeouts, answers>>
    BY <1>1, <1>4, Zenon
  <2>2. /\ mgr' = mgr /\ connecting' = connecting /\ timeouts' = timeouts
        /\ waitings' = waitings /\ answers' = answers
    BY <2>1, Zenon DEF devices
  <2> QED
    BY <1>1, <1>2, <1>4, <2>2, Zenon DEF GivesBack
<1>5. CASE i = 0 /\ connecting.addr = a
  BY <1>1, <1>2, <1>5, Zenon DEF ServesConnecting, CancelTimeout
<1> QED
  BY <1>3, <1>4, <1>5, Zenon

\* ClientConnectFailed comes too late for its device, finds a connection of the
\* peer's, has the device wait out a collision, or fails its requests.
Removed(c) == [Disconnected(c) EXCEPT ![c].listed = FALSE]
FailsLate(c) ==
    /\ connecting.addr # conns[c].addr
    /\ waitings' = Scheduled(waitings, conns[c].addr)
    /\ conns' = Removed(c)
    /\ mgr' = mgr /\ connecting' = connecting /\ answers' = answers
    /\ pendings' = pendings /\ unpends' = unpends
FailsServed(c, s) ==
    /\ connecting.addr = conns[c].addr /\ mgr' = "AVAILABLE" /\ connecting' = NoDevice
    /\ s \in Ids /\ conns[s].listed /\ conns[s].side = "server"
    /\ conns' = [Granted(s, connecting.reqs, TRUE) EXCEPT ![c] = Removed(c)[c]]
    /\ answers' = Answered(connecting.reqs)
    /\ waitings' = waitings /\ pendings' = pendings /\ unpends' = unpends
FailsPended(c) ==
    /\ connecting.addr = conns[c].addr /\ mgr' = "AVAILABLE"
    /\ pendings' = pendings \cup {conns[c].addr}
    /\ unpends' = unpends \cup {conns[c].addr}
    /\ PendingDevice([connecting EXCEPT !.state = "PENDING"], waitings, NoDevice)
    /\ conns' = Removed(c)
    /\ answers' = answers
FailsAnswered(c) ==
    /\ connecting.addr = conns[c].addr /\ mgr' = "AVAILABLE" /\ connecting' = NoDevice
    /\ answers' = Answered(connecting.reqs)
    /\ conns' = Removed(c)
    /\ waitings' = waitings /\ pendings' = pendings /\ unpends' = unpends

\* ClientConnectFailed: what becomes of the device and its requests.
LEMMA FailedCases ==
    ASSUME NEW c \in Ids, ClientConnectFailed(c)
    PROVE  /\ c \in fails /\ fails' = fails \ {c} /\ timeouts' = timeouts \ {c}
           /\ made' = made /\ asked' = asked
           /\ \/ FailsLate(c) \/ (\E s : FailsServed(c, s))
              \/ FailsPended(c) \/ FailsAnswered(c)
<1> DEFINE a == conns[c].addr
           server == ByAddr(a, "server")
           removed == [Disconnected(c) EXCEPT ![c].listed = FALSE]
<1>1. IF connecting.addr # a
      THEN /\ waitings' = Scheduled(waitings, a)
           /\ conns' = removed
           /\ Post(<<NextCmd>>)
           /\ UNCHANGED <<mgr, connecting, pendings, unpends, answers>>
      ELSE /\ mgr' = "AVAILABLE"
           /\ Post(Entered)
           /\ IF server \in Connected(a)
              THEN /\ conns' = [Granted(server, connecting.reqs, TRUE) EXCEPT ![c] = removed[c]]
                   /\ answers' = Answered(connecting.reqs)
                   /\ connecting' = NoDevice
                   /\ UNCHANGED <<waitings, pendings, unpends>>
              ELSE IF conns[c].collision
              THEN /\ pendings' = pendings \cup {a}
                   /\ unpends' = unpends \cup {a}
                   /\ PendingDevice([connecting EXCEPT !.state = "PENDING"], waitings, NoDevice)
                   /\ conns' = removed
                   /\ UNCHANGED answers
              ELSE /\ answers' = Answered(connecting.reqs)
                   /\ connecting' = NoDevice
                   /\ conns' = removed
                   /\ UNCHANGED <<waitings, pendings, unpends>>
  BY Zenon DEF ClientConnectFailed
<1>2. /\ c \in fails /\ fails' = fails \ {c} /\ timeouts' = timeouts \ {c}
      /\ made' = made /\ asked' = asked
  BY Zenon DEF ClientConnectFailed, CancelTimeout
<1>3. removed = Removed(c)
  BY Zenon DEF Removed
<1> HIDE DEF removed
<1>4. CASE connecting.addr # a
  <2>1. UNCHANGED <<mgr, connecting, pendings, unpends, answers>>
    BY <1>1, <1>4, Zenon
  <2>2. /\ mgr' = mgr /\ connecting' = connecting /\ answers' = answers
        /\ pendings' = pendings /\ unpends' = unpends
    BY <2>1, Zenon
  <2> QED
    BY <1>1, <1>2, <1>3, <1>4, <2>2, Zenon DEF FailsLate
<1>5. CASE connecting.addr = a /\ server \in Connected(a)
  <2>1. UNCHANGED <<waitings, pendings, unpends>>
    BY <1>1, <1>5, Zenon
  <2>2. waitings' = waitings /\ pendings' = pendings /\ unpends' = unpends
    BY <2>1, Zenon
  <2>3. server \in Ids /\ conns[server].listed /\ conns[server].side = "server"
    <3>1. server \in Ids /\ server # 0
      BY <1>5 DEF Connected, Ids
    <3>2. server \in Listed(a, "server")
      BY <3>1, ByAddrFacts, Zenon
    <3> QED
      BY <3>1, <3>2, Zenon DEF Listed
  <2> QED
    BY <1>1, <1>2, <1>3, <1>5, <2>2, <2>3, Zenon DEF FailsServed
<1>6. CASE connecting.addr = a /\ server \notin Connected(a) /\ conns[c].collision
  BY <1>1, <1>2, <1>3, <1>6, Zenon DEF FailsPended
<1>7. CASE connecting.addr = a /\ server \notin Connected(a) /\ ~conns[c].collision
  <2>1. UNCHANGED <<waitings, pendings, unpends>>
    BY <1>1, <1>7, Zenon
  <2>2. waitings' = waitings /\ pendings' = pendings /\ unpends' = unpends
    BY <2>1, Zenon
  <2> QED
    BY <1>1, <1>2, <1>3, <1>7, <2>2, Zenon DEF FailsAnswered
<1> QED
  BY <1>4, <1>5, <1>6, <1>7, Zenon

\* A connection that can be used again serves the devices that wait for its address.
ServesAll(c) ==
    /\ conns' = Granted(c, RequestsFor(conns[c].addr), TRUE)
    /\ answers' = Answered(RequestsFor(conns[c].addr))
    /\ waitings' = Without(waitings, conns[c].addr)

\* ServerAccepted serves everyone who waits for the address, or just ends its pending.
LEMMA AcceptedCases ==
    ASSUME ServerAccepted
    PROVE  /\ conns[Arg].listed
           /\ pendings' = pendings \ {conns[Arg].addr} /\ unpends' = unpends \ {conns[Arg].addr}
           /\ mgr' = mgr /\ connecting' = connecting /\ timeouts' = timeouts /\ fails' = fails
           /\ made' = made /\ asked' = asked
           /\ \/ ServesAll(Arg)
              \/ waitings' = Unpended(waitings, conns[Arg].addr) /\ conns' = conns /\ answers' = answers
<1>1. /\ mgr' = mgr /\ connecting' = connecting /\ timeouts' = timeouts /\ fails' = fails
      /\ made' = made /\ asked' = asked
  BY Zenon DEF ServerAccepted
<1>2. /\ conns[Arg].listed
      /\ pendings' = pendings \ {conns[Arg].addr} /\ unpends' = unpends \ {conns[Arg].addr}
  BY Zenon DEF ServerAccepted, UnpendConnection
<1>3. \/ ServesAll(Arg)
      \/ /\ waitings' = Unpended(waitings, conns[Arg].addr)
         /\ UNCHANGED <<conns, answers>>
  BY Zenon DEF ServerAccepted, ServesAll
<1> QED
  BY <1>1, <1>2, <1>3, Zenon

\* ConnectionResume serves everyone who waits for the address, or nobody.
LEMMA ResumeCases ==
    ASSUME ConnectionResume
    PROVE  /\ pendings' = pendings /\ unpends' = unpends
           /\ mgr' = mgr /\ connecting' = connecting /\ timeouts' = timeouts /\ fails' = fails
           /\ made' = made /\ asked' = asked
           /\ \/ ServesAll(Arg)
              \/ waitings' = waitings /\ conns' = conns /\ answers' = answers
<1>1. /\ pendings' = pendings /\ UNCHANGED timers
      /\ mgr' = mgr /\ connecting' = connecting /\ made' = made /\ asked' = asked
  BY Zenon DEF ConnectionResume
<1>2. unpends' = unpends /\ timeouts' = timeouts /\ fails' = fails
  BY <1>1, Zenon DEF timers
<1>3. ServesAll(Arg) \/ UNCHANGED <<conns, answers, waitings>>
  BY Zenon DEF ConnectionResume, ServesAll
<1> QED
  BY <1>1, <1>2, <1>3, Zenon

----------------------------------------------------------------------------
(* The devices keep their types.                                           *)

\* The devices the handlers make.
LEMMA DeviceFacts ==
    /\ \A r \in Requests : \A s \in {"INIT", "WAIT_SCHEDULE"} : Device(AddrOf[r], s, {r}) \in Devices
    /\ \A d \in Devices : \A s \in {"WAIT_SCHEDULE", "PENDING", "WAIT_EVENT"} :
          /\ [d EXCEPT !.state = s] \in Devices
          /\ [d EXCEPT !.state = s].addr = d.addr /\ [d EXCEPT !.state = s].reqs = d.reqs
          /\ [d EXCEPT !.state = s].state = s
BY ManagerAssumption, FinReqsFacts, Zenon DEF Device, Devices

\* The members of a list are devices.
LEMMA ListFacts ==
    ASSUME NEW w \in Lists
    PROVE  /\ \A i \in DOMAIN w : w[i] \in Devices /\ w[i] \in Range(w)
           /\ \A d \in Range(w) : d \in Devices
           /\ \A d, e \in Range(w) : d.addr = e.addr => d = e
BY DEF Lists, Range, Distinct

\* AttempReuseConnect keeps the types of the devices.
LEMMA AttemptTypes ==
    ASSUME DInv, NEW d \in Devices, NEW w \in Lists, NEW hint, NEW directly \in BOOLEAN,
           AttempReuseConnect(d, w, hint, directly)
    PROVE  DInv'
<1>1. CASE ToWait(d, w)
  <2>1. PICK s \in {"WAIT_SCHEDULE", "PENDING", "WAIT_EVENT"} :
            PendingDevice([d EXCEPT !.state = s], w, connecting)
    BY <1>1, Zenon DEF ToWait
  <2>2. waitings' \in Lists /\ connecting' \in Devices \cup {NoDevice}
    BY <2>1, DeviceFacts, Pended, Zenon DEF DInv
  <2> QED
    BY <1>1, <2>2, Zenon DEF ToWait, DInv
<1>2. CASE ToConnect(d, w)
  BY <1>2, DeviceFacts, Zenon DEF ToConnect, DInv
<1>3. CASE ToFail(d, w) \/ ToServe(d, w)
  BY <1>3, Zenon DEF ToFail, ToServe, DInv
<1> QED
  BY <1>1, <1>2, <1>3, Outcomes, Zenon

\* Waiting devices the handlers take out or wake.
LEMMA ListSteps ==
    ASSUME DInv, NEW a
    PROVE  /\ Scheduled(waitings, a) \in Lists /\ Unpended(waitings, a) \in Lists
           /\ Without(waitings, a) \in Lists
           /\ \A i \in DOMAIN waitings : RemoveAt(waitings, i) \in Lists
           /\ <<>> \in Lists
<1>1. waitings \in Lists
  BY Zenon DEF DInv
<1>2. <<>> \in Lists
  BY DEF Lists, Distinct
<1> QED
  BY <1>1, <1>2, ScheduledFacts, WithoutFacts, RemoveFacts, Zenon DEF Unpended

\* The device that HandlePendingRequest takes is in the list.
LEMMA NextInLine ==
    ASSUME waitings \in Lists,
           NEW i, i = First({j \in DOMAIN waitings : waitings[j].state = "WAIT_SCHEDULE"}), i # 0
    PROVE  i \in DOMAIN waitings
<1> DEFINE I == {j \in DOMAIN waitings : waitings[j].state = "WAIT_SCHEDULE"}
<1>1. I \in SUBSET (Nat \ {0}) /\ i = First(I)
  BY DEF Lists
<1>2. \/ First(I) = 0 /\ I = {}
      \/ First(I) \in I /\ First(I) # 0
  BY <1>1, FirstFacts, Zenon
<1> QED
  BY <1>1, <1>2, Zenon

\* Every step keeps the types of the devices.
LEMMA NextD == EventInv /\ [Next]_vars => DInv'
<1> SUFFICES ASSUME EventInv, [Next]_vars
             PROVE  DInv'
  OBVIOUS
<1>0. DInv /\ queue \in Queues /\ waitings \in Lists /\ connecting \in Devices \cup {NoDevice}
  BY Zenon DEF EventInv, DInv, QInv
<1>1. CASE ConnectRequestOnAvailableState
  <2>1. Arg \in Requests
    BY <1>0, <1>1, TakingSteps, Zenon
  <2>2. Device(AddrOf[Arg], "WAIT_SCHEDULE", {Arg}) \in Devices
    BY <2>1, DeviceFacts, Zenon
  <2>3. CASE PendingDevice(Device(AddrOf[Arg], "WAIT_SCHEDULE", {Arg}), waitings, connecting)
    <3>1. waitings' \in Lists /\ connecting' \in Devices \cup {NoDevice}
      BY <1>0, <2>2, <2>3, Pended, Zenon
    <3> QED
      BY <1>0, <1>1, <3>1, Zenon DEF ConnectRequestOnAvailableState, DInv
  <2>4. CASE UNCHANGED devices
    BY <1>0, <1>1, <2>4, Zenon DEF ConnectRequestOnAvailableState, DInv, devices
  <2> QED
    BY <1>1, <2>3, <2>4, Zenon DEF ConnectRequestOnAvailableState
<1>2. CASE ConnectRequestOnConnectingState
  <2>1. Arg \in Requests
    BY <1>0, <1>2, TakingSteps, Zenon
  <2>2. Device(AddrOf[Arg], "INIT", {Arg}) \in Devices
    BY <2>1, DeviceFacts, Zenon
  <2> QED
    BY <1>0, <1>2, <2>2, AttemptTypes, Zenon DEF ConnectRequestOnConnectingState
<1>3. CASE HandlePendingRequest
  <2> DEFINE i == First({j \in DOMAIN waitings : waitings[j].state = "WAIT_SCHEDULE"})
  <2>1. CASE mgr = "AVAILABLE" /\ i # 0
    <3>1. i \in DOMAIN waitings
      BY <1>0, <2>1, NextInLine, Zenon
    <3>2. waitings[i] \in Devices /\ RemoveAt(waitings, i) \in Lists
      BY <1>0, <3>1, ListFacts, ListSteps, Zenon
    <3>3. PICK hint \in {0} \cup Ids :
              AttempReuseConnect(waitings[i], RemoveAt(waitings, i), hint, TRUE)
      BY <1>3, <2>1, Zenon DEF HandlePendingRequest
    <3> QED
      BY <1>0, <3>2, <3>3, AttemptTypes, Zenon
  <2>2. CASE UNCHANGED <<mgr, devices>>
    BY <1>0, <2>2, Zenon DEF DInv, devices
  <2> QED
    BY <1>3, <2>1, <2>2, Zenon DEF HandlePendingRequest
<1>4. CASE ServerAccepted \/ ConnectionResume \/ ConnectionException \/ \E a \in Addrs : Unpend(a)
  <2>1. UNCHANGED <<mgr, connecting>>
    BY <1>4, Zenon DEF ServerAccepted, ConnectionResume, ConnectionException, Unpend
  <2>2. waitings' \in Lists
    BY <1>0, <1>4, ListSteps, Zenon
       DEF ServerAccepted, ConnectionResume, ConnectionException, Unpend
  <2> QED
    BY <1>0, <2>1, <2>2, Zenon DEF DInv
<1>5. CASE ClientConnected
  <2>1. ASSUME NEW i, ServesWaiting(Arg, i)
        PROVE  i \in DOMAIN waitings
    BY <1>0, <2>1, FindFacts, Zenon DEF Lists, ServesWaiting
  <2>2. waitings' \in Lists
    BY <1>0, <1>5, <2>1, ConnectedCases, ListSteps, Zenon DEF ServesWaiting, GivesBack, ServesConnecting
  <2>3. \/ mgr' = mgr /\ connecting' = connecting
        \/ mgr' = "AVAILABLE" /\ connecting' = NoDevice
    BY <1>5, ConnectedCases, Zenon DEF ServesWaiting, GivesBack, ServesConnecting
  <2> QED
    BY <1>0, <2>2, <2>3, Zenon DEF DInv
<1>6. ASSUME NEW c \in Ids, ClientConnectFailed(c)
      PROVE  DInv'
  <2>1. CASE FailsLate(c)
    BY <1>0, <2>1, ListSteps, Zenon DEF DInv, FailsLate
  <2>2. ASSUME NEW s, FailsServed(c, s)
        PROVE  DInv'
    BY <1>0, <2>2, Zenon DEF DInv, FailsServed
  <2>3. CASE FailsAnswered(c)
    BY <1>0, <2>3, Zenon DEF DInv, FailsAnswered
  <2>4. CASE FailsPended(c)
    <3> DEFINE d == [connecting EXCEPT !.state = "PENDING"]
    <3>1. conns[c].addr \in Addrs
      BY <1>6, FailedCases DEF EventInv, CInv, CType, Life, Ids
    <3>2. connecting \in Devices
      BY <1>0, <2>4, <3>1, ManagerAssumption DEF NoDevice, NoAddr, FailsPended
    <3>3. d \in Devices
      BY <3>2, DeviceFacts, Zenon
    <3>4. PendingDevice(d, waitings, NoDevice) /\ mgr' = "AVAILABLE"
      BY <2>4, Zenon DEF FailsPended
    <3>5. waitings' \in Lists /\ connecting' \in Devices \cup {NoDevice}
      BY <1>0, <3>3, <3>4, Pended, Zenon
    <3> QED
      BY <1>0, <3>4, <3>5, Zenon DEF DInv
  <2> QED
    BY <1>6, <2>1, <2>2, <2>3, <2>4, FailedCases, Zenon
<1>7. ASSUME NEW c \in Ids, ClientConnectTimeout(c)
      PROVE  DInv'
  BY <1>0, <1>7, Zenon DEF ClientConnectTimeout, DInv
<1>8. CASE Reset
  BY <1>0, <1>8, ListSteps, Zenon DEF Reset, ResetTo, DInv
<1>9. CASE UNCHANGED <<mgr, devices>>
  BY <1>0, <1>9, Zenon DEF DInv, devices
<1>10. ASSUME NEW c \in Ids, \/ ThreadStep(c) \/ BrDisconnectDeviceNow(c) \/ Negotiate(c)
       PROVE  DInv'
  BY <1>9, <1>10, Zenon
     DEF ThreadStep, StartBrClientConnect, Announce, LoopReadExit, EndNegotiation,
         BrDisconnectDeviceNow, Negotiate, Others
<1>11. CASE \/ \E r \in Requests : BrConnectDevice(r)
            \/ \E a \in Addrs : Accept(a) \/ BrPendConnection(a)
            \/ OnBtStateChanged
            \/ UNCHANGED vars
  BY <1>9, <1>11, Zenon DEF BrConnectDevice, Accept, BrPendConnection, OnBtStateChanged, Others, vars
<1> QED
  BY <1>1, <1>2, <1>3, <1>4, <1>5, <1>6, <1>7, <1>8, <1>10, <1>11, Zenon
     DEF Next, QueueStep, TimerStep, EnvStep
----------------------------------------------------------------------------
(* The connections.                                                        *)

\* What may change of a connection without a message to tell.
Alike(k, l) ==
    /\ k.addr = l.addr /\ k.side = l.side /\ k.listed = l.listed /\ k.thread = l.thread
    /\ k.rc - k.granted = l.rc - l.granted
EventsKept(d) ==
    /\ In(queue', Msg("success", d)) <=> In(queue, Msg("success", d))
    /\ In(queue', Msg("accepted", d)) => In(queue, Msg("accepted", d))
    /\ In(queue', Msg("exception", d)) => In(queue, Msg("exception", d))
Kept(d) ==
    /\ Alike(conns[d], conns'[d])
    /\ EventsKept(d)
    /\ d \in fails' => d \in fails
    /\ d > made' <=> d > made

\* A connection that keeps what its messages depend on keeps its part of the invariant.
LEMMA KeptFacts ==
    ASSUME CInv, CType', NEW d \in Ids, Kept(d)
    PROVE  /\ Life(d)' /\ Count(d)'
           /\ ListedClient(d)' <=> ListedClient(d)
           /\ conns'[d].addr = conns[d].addr
<1>1. /\ Life(d) /\ Count(d) /\ conns[d] \in Connections /\ conns'[d] \in Connections
      /\ made \in Int /\ made' \in Int /\ d \in Int
  BY DEF CInv, CType, Ids
<1>2. /\ conns'[d].addr = conns[d].addr /\ conns'[d].side = conns[d].side
      /\ conns'[d].listed = conns[d].listed /\ conns'[d].thread = conns[d].thread
      /\ conns'[d].rc - conns'[d].granted = conns[d].rc - conns[d].granted
  BY Zenon DEF Kept, Alike
<1>3. Life(d)'
  <2>1. d <= made' <=> d <= made
    BY <1>1 DEF Kept
  <2> QED
    BY <1>1, <1>2, <2>1, Zenon DEF Kept, EventsKept, Life
<1>4. Open(d)' <=> Open(d)
  BY <1>2, Zenon DEF Kept, EventsKept, Open
<1>5. Count(d)'
  <2>1. /\ conns[d].rc \in Int /\ conns[d].granted \in Int
        /\ conns'[d].rc \in Int /\ conns'[d].granted \in Int
    BY <1>1, Zenon DEF Connections
  <2> QED
    BY <1>1, <1>2, <1>4, <2>1 DEF Count
<1> QED
  BY <1>2, <1>3, <1>5, Zenon DEF ListedClient

\* No connection changes in a way a message tells.
LEMMA AllKept ==
    ASSUME CInv, CType', \A d \in Ids : Kept(d)
    PROVE  CInv'
<1>1. \A d \in Ids : /\ Life(d)' /\ Count(d)'
                     /\ ListedClient(d)' <=> ListedClient(d)
                     /\ conns'[d].addr = conns[d].addr
  BY KeptFacts, Zenon
<1> QED
  BY <1>1, Zenon DEF CInv, OneClient

\* One connection does.
LEMMA OthersKept ==
    ASSUME CInv, CType', NEW c \in Ids, \A d \in Ids \ {c} : Kept(d),
           Life(c)', Count(c)',
           ListedClient(c)' =>
              \A d \in Ids \ {c} : ListedClient(d) => conns[d].addr # conns'[c].addr
    PROVE  CInv'
<1>1. \A d \in Ids \ {c} : /\ Life(d)' /\ Count(d)'
                           /\ ListedClient(d)' <=> ListedClient(d)
                           /\ conns'[d].addr = conns[d].addr
  BY KeptFacts, Zenon
<1>2. OneClient'
  <2> SUFFICES ASSUME NEW d \in Ids, NEW e \in Ids, ListedClient(d)', ListedClient(e)',
                      conns'[d].addr = conns'[e].addr, d # e
               PROVE  FALSE
    BY Zenon DEF OneClient
  <2>1. CASE d # c /\ e # c
    BY <1>1, <2>1, Zenon DEF CInv, OneClient
  <2>2. CASE d = c \/ e = c
    BY <1>1, <2>2, Zenon
  <2> QED
    BY <2>1, <2>2, Zenon
<1> QED
  BY <1>1, <1>2, Zenon DEF CInv

\* What the queue tells of the messages of a connection.
LEMMA EventFacts ==
    ASSUME NEW d \in Ids
    PROVE  /\ QSame => EventsKept(d)
           /\ \A r : QTook(Msg("connect", r)) \/ QPut(Msg("connect", r)) => EventsKept(d)
           /\ \A c : QTook(Msg("accepted", c)) => EventsKept(d)
           /\ \A w, c : c # d /\ (QTook(Msg(w, c)) \/ QPut(Msg(w, c))) => EventsKept(d)
<1>1. \A w \in {"success", "accepted", "exception"} : Msg(w, d) \in Tracked
  BY MessageTypes, Zenon
<1>2. \A w \in {"success", "accepted", "exception"} : \A r : Msg(w, d) # Msg("connect", r)
  BY Zenon DEF Msg
<1>3. \A v, w, c : c # d => Msg(v, d) # Msg(w, c)
  BY Zenon DEF Msg
<1>4. \A c : Msg("success", d) # Msg("accepted", c)
  BY Zenon DEF Msg
<1> QED
  BY <1>1, <1>2, <1>3, <1>4, Zenon DEF EventsKept, QSame, QTook, QPut

----------------------------------------------------------------------------
\* Granted changes the counts of one connection.
LEMMA GrantFacts ==
    ASSUME CType, NEW c \in Ids, NEW R \in FinReqs, NEW reuse \in BOOLEAN
    PROVE  /\ Granted(c, R, reuse) \in [Ids -> Connections]
           /\ \A d \in Ids : d # c => Granted(c, R, reuse)[d] = conns[d]
           /\ reuse => Alike(conns[c], Granted(c, R, reuse)[c])
           /\ LET k == Granted(c, R, reuse)[c]
              IN  /\ k.addr = conns[c].addr /\ k.side = conns[c].side
                  /\ k.listed = conns[c].listed /\ k.thread = conns[c].thread
                  /\ ~reuse => k.rc - k.granted = conns[c].rc - conns[c].granted - 1
<1>1. Cardinality(R) \in Nat
  BY FinReqsFacts, Zenon
<1>2. conns \in [Ids -> Connections] /\ conns[c].rc \in Int /\ conns[c].granted \in Int
  BY Zenon DEF CType, Connections
<1> DEFINE n == Cardinality(R)
           k == [conns[c] EXCEPT !.rc = @ + n - (IF reuse THEN 0 ELSE 1), !.granted = @ + n]
<1>3. Granted(c, R, reuse) = [conns EXCEPT ![c] = k]
  BY <1>2, Zenon DEF Granted
<1>4. k \in Connections
  <2>1. conns[c] \in Connections
    BY <1>2, Zenon
  <2>2. PICK i \in Int : i = conns[c].rc + n - (IF reuse THEN 0 ELSE 1)
    BY <1>1, <1>2
  <2>3. PICK j \in Int : j = conns[c].granted + n
    BY <1>1, <1>2
  <2>4. k = [conns[c] EXCEPT !.rc = i, !.granted = j]
    BY <2>2, <2>3, Zenon
  <2> HIDE DEF k
  <2> QED
    BY <2>1, <2>4, Zenon DEF Connections
<1>5. /\ k.addr = conns[c].addr /\ k.side = conns[c].side
      /\ k.listed = conns[c].listed /\ k.thread = conns[c].thread
      /\ k.rc = conns[c].rc + n - (IF reuse THEN 0 ELSE 1) /\ k.granted = conns[c].granted + n
  BY <1>2, ZenonT(60) DEF CType, Connections
<1> HIDE DEF k, n
<1>6. n \in Nat
  BY <1>1, Zenon DEF n
<1>7. reuse => k.rc - k.granted = conns[c].rc - conns[c].granted
  BY <1>2, <1>5, <1>6
<1>8. ~reuse => k.rc - k.granted = conns[c].rc - conns[c].granted - 1
  BY <1>2, <1>5, <1>6
<1>9. Granted(c, R, reuse)[c] = k /\ \A d \in Ids : d # c => Granted(c, R, reuse)[d] = conns[d]
  BY <1>2, <1>3, Zenon
<1>10. Granted(c, R, reuse) \in [Ids -> Connections]
  BY <1>2, <1>3, <1>4, Zenon
<1> QED
  BY <1>5, <1>7, <1>8, <1>9, <1>10, Zenon DEF Alike

\* Disconnected, and Removed, which also takes the connection from the list.
LEMMA DisconnectFacts ==
    ASSUME CType, NEW c \in Ids
    PROVE  /\ Disconnected(c) \in [Ids -> Connections]
           /\ \A d \in Ids : Alike(conns[d], Disconnected(c)[d])
           /\ Removed(c) \in [Ids -> Connections]
           /\ \A d \in Ids : d # c => Removed(c)[d] = conns[d]
           /\ ~Removed(c)[c].listed
           /\ /\ Removed(c)[c].addr = conns[c].addr /\ Removed(c)[c].side = conns[c].side
              /\ Removed(c)[c].thread = conns[c].thread
<1> DEFINE k == [conns[c] EXCEPT !.state = "CLOSED", !.sock = FALSE]
           l == [k EXCEPT !.listed = FALSE]
<1>1. conns \in [Ids -> Connections] /\ conns[c] \in Connections
  BY Zenon DEF CType
<1>2. Disconnected(c) = [conns EXCEPT ![c] = k]
  BY <1>1, Zenon DEF Disconnected
<1>3. /\ k \in Connections /\ k.addr = conns[c].addr /\ k.side = conns[c].side
      /\ k.listed = conns[c].listed /\ k.thread = conns[c].thread
      /\ k.rc = conns[c].rc /\ k.granted = conns[c].granted
  BY <1>1, Zenon DEF Connections
<1>4. /\ l \in Connections /\ l.addr = conns[c].addr /\ l.side = conns[c].side
      /\ l.listed = FALSE /\ l.thread = conns[c].thread
  BY <1>1, Zenon DEF Connections
<1>5. Removed(c) = [conns EXCEPT ![c] = l]
  BY <1>1, Zenon DEF Disconnected, Removed
<1> HIDE DEF k, l
<1>6. Disconnected(c) \in [Ids -> Connections] /\ Removed(c) \in [Ids -> Connections]
  BY <1>1, <1>2, <1>3, <1>4, <1>5, Zenon
<1>7. \A d \in Ids : Alike(conns[d], Disconnected(c)[d])
  BY <1>1, <1>2, <1>3, Zenon DEF Alike
<1>8. Removed(c)[c] = l /\ \A d \in Ids : d # c => Removed(c)[d] = conns[d]
  BY <1>1, <1>5, Zenon
<1> QED
  BY <1>4, <1>6, <1>7, <1>8, Zenon

\* RequestsFor collects the requests that wait for an address.
LEMMA RequestsForFacts ==
    ASSUME waitings \in Lists, NEW a
    PROVE  /\ RequestsFor(a) \in FinReqs
           /\ \/ RequestsFor(a) = {} /\ \A d \in Range(waitings) : d.addr # a
              \/ \E d \in Range(waitings) : d.addr = a /\ RequestsFor(a) = d.reqs
<1>1. CASE \A i \in DOMAIN waitings : waitings[i].addr # a
  BY <1>1, FinReqsFacts, Zenon DEF RequestsFor, Range
<1>2. CASE \E i \in DOMAIN waitings : waitings[i].addr = a
  <2>1. PICK i \in DOMAIN waitings : waitings[i].addr = a
    BY <1>2, Zenon
  <2>2. \A j \in DOMAIN waitings : waitings[j].addr = a => j = i
    BY <2>1, Zenon DEF Lists, Distinct
  <2>3. RequestsFor(a) = waitings[i].reqs
    BY <2>1, <2>2, Zenon DEF RequestsFor
  <2>4. waitings[i] \in Devices /\ waitings[i] \in Range(waitings)
    BY <2>1, ListFacts, Zenon
  <2>5. waitings[i].reqs \in FinReqs
    BY <2>4, Zenon DEF Devices
  <2> QED
    BY <2>1, <2>3, <2>4, <2>5, Zenon
<1> QED
  BY <1>1, <1>2, Zenon

\* A connection whose thread is alive or whose message is in the looper is made.
LEMMA Fields ==
    ASSUME CType, NEW d \in Ids
    PROVE  conns[d] \in Connections /\ conns[d].rc \in Int /\ conns[d].granted \in Int
BY Zenon DEF CType, Connections

\* A connection that does not change keeps what its messages depend on.
LEMMA Same ==
    ASSUME CType, CType', NEW d \in Ids, conns'[d] = conns[d], EventsKept(d),
           d \in fails' => d \in fails, d > made' <=> d > made
    PROVE  Kept(d)
BY Zenon DEF Kept, Alike

\* So do all of them when neither they nor their messages change.
LEMMA Steady ==
    ASSUME CInv, UNCHANGED <<conns, made, fails>>, \A d \in Ids : EventsKept(d)
    PROVE  CInv'
<1>1. CType /\ CType'
  BY Zenon DEF CInv, CType
<1>2. \A d \in Ids : Kept(d)
  BY <1>1, Same, Zenon
<1> QED
  BY <1>1, <1>2, AllKept, Zenon

\* An open connection is given to more requests.
LEMMA Serve ==
    ASSUME CInv, NEW c \in Ids, NEW R \in FinReqs, conns' = Granted(c, R, TRUE),
           made' = made, fails' = fails, \A d \in Ids : EventsKept(d)
    PROVE  CInv'
<1>1. /\ conns' \in [Ids -> Connections] /\ Alike(conns[c], conns'[c])
      /\ \A d \in Ids : d # c => conns'[d] = conns[d]
  BY GrantFacts, Zenon DEF CInv
<1>2. CType /\ CType'
  BY <1>1, Zenon DEF CInv, CType
<1>3. Kept(c)
  BY <1>1, Zenon DEF Kept
<1>4. \A d \in Ids : d # c => Kept(d)
  BY <1>1, <1>2, Same, Zenon
<1> QED
  BY <1>2, <1>3, <1>4, AllKept, Zenon

\* AttempReuseConnect makes a client, or gives an old one to the requests.
LEMMA AttemptC ==
    ASSUME DInv, CInv, NEW d \in Devices, NEW w, NEW hint, NEW directly \in BOOLEAN,
           AttempReuseConnect(d, w, hint, directly), fails' = fails, \A e \in Ids : EventsKept(e)
    PROVE  CInv'
<1>1. CASE ToWait(d, w) \/ ToFail(d, w)
  BY <1>1, Steady, Zenon DEF ToWait, ToFail
<1>2. CASE ToServe(d, w)
  <2>1. d.reqs \in FinReqs
    BY Zenon DEF Devices
  <2> QED
    BY <1>2, <2>1, Serve, Zenon DEF ToServe
<1>3. CASE ToConnect(d, w)
  <2>1. PICK c \in Ids : c = made + 1 /\ made' = c /\ conns' = [conns EXCEPT ![c] = ClientConnection(d.addr)]
    <3>1. MaxConnections \in Nat
      BY ManagerAssumption, Zenon
    <3>2. made + 1 \in Ids
      BY <1>3, <3>1 DEF ToConnect, CInv, CType, Ids
    <3> QED
      BY <1>3, <3>2, Zenon DEF ToConnect
  <2>2. PICK k : k = ClientConnection(d.addr)
    OBVIOUS
  <2>3. /\ k \in Connections /\ k.addr = d.addr /\ k.addr \in Addrs /\ k.side = "client" /\ k.listed
        /\ k.thread = "connecting" /\ k.rc = 1 /\ k.granted = 0
    <3>1. d.addr \in Addrs
      BY Zenon DEF Devices
    <3>2. k = [addr |-> d.addr, side |-> "client", state |-> "CONNECTING", sock |-> FALSE,
               listed |-> TRUE, thread |-> "connecting", rc |-> 1, granted |-> 0,
               collision |-> FALSE]
      BY <2>2, Zenon DEF ClientConnection, NoConnection
    <3> QED
      BY <3>1, <3>2 DEF Connections
  <2>4. CType /\ conns'[c] = k /\ CType' /\ \A e \in Ids \ {c} : conns'[e] = conns[e]
    BY <2>1, <2>2, <2>3 DEF CInv, CType, Ids
  <2>5. \A e \in Ids \ {c} : Kept(e)
    <3>1. \A e \in Ids \ {c} : e > made' <=> e > made
      BY <2>1 DEF CInv, CType, Ids
    <3> QED
      BY <2>4, <3>1, Same, Zenon
  <2>6. conns[c].thread = "none" /\ conns[c].side = "none" /\ ~conns[c].listed /\ Life(c)
    BY <2>1 DEF CInv, CType, Life, Ids
  <2>7. Life(c)'
    <3>1. /\ c \notin fails' /\ ~In(queue', Msg("success", c)) /\ ~In(queue', Msg("accepted", c))
          /\ ~In(queue', Msg("exception", c))
      BY <2>6, Zenon DEF Life, EventsKept
    <3>2. c <= made' /\ ~(c > made')
      BY <2>1 DEF Ids
    <3> QED
      BY <2>3, <2>4, <3>1, <3>2, Zenon DEF Life
  <2>8. Count(c)'
    BY <2>3, <2>4 DEF Count, Open
  <2>9. \A e \in Ids \ {c} : ListedClient(e) => conns[e].addr # conns'[c].addr
    BY <1>3, <2>3, <2>4, ZenonT(60) DEF ToConnect, ListedClient
  <2> QED
    BY <2>4, <2>5, <2>7, <2>8, <2>9, OthersKept, Zenon
<1> QED
  BY <1>1, <1>2, <1>3, Outcomes, Zenon

\* The messages of a connection are read off its fields.
LEMMA NoEvents ==
    ASSUME NEW c \in Ids, Life(c)
    PROVE  /\ conns[c].thread \notin {"reading", "done"} =>
                 /\ ~In(queue, Msg("success", c)) /\ ~In(queue, Msg("accepted", c))
                 /\ ~In(queue, Msg("exception", c))
           /\ conns[c].thread # "failed" => c \notin fails
           /\ conns[c].thread # "done" => ~In(queue, Msg("exception", c))
BY Zenon DEF Life

\* ClientConnected hands the first reference on, or gives it back.
LEMMA ConnectedC == EventInv /\ ClientConnected => CInv'
<1> SUFFICES ASSUME EventInv, ClientConnected
             PROVE  CInv'
  OBVIOUS
<1>0. PICK c : c = Arg
  OBVIOUS
<1>1. QTook(Msg("success", c)) /\ c \in Ids
  BY <1>0, TakingSteps, Zenon DEF EventInv, QInv
<1>2. CInv /\ CType /\ DInv /\ waitings \in Lists /\ connecting \in Devices \cup {NoDevice}
  BY Zenon DEF EventInv, CInv, DInv
<1>3. Life(c) /\ Count(c) /\ conns[c] \in Connections /\ conns[c].rc \in Int /\ conns[c].granted \in Int
  BY <1>1, <1>2, Fields, Zenon DEF CInv
<1>4. made' = made /\ fails' = fails
  BY ConnectedCases, Zenon
<1>5. \A R \in FinReqs : /\ Granted(c, R, FALSE) \in [Ids -> Connections]
                         /\ \A d \in Ids : d # c => Granted(c, R, FALSE)[d] = conns[d]
                         /\ LET k == Granted(c, R, FALSE)[c]
                            IN  /\ k.addr = conns[c].addr /\ k.side = conns[c].side
                                /\ k.listed = conns[c].listed /\ k.thread = conns[c].thread
                                /\ k.rc - k.granted = conns[c].rc - conns[c].granted - 1
  BY <1>1, <1>2, GrantFacts, ZenonT(60)
<1>6. /\ conns' \in [Ids -> Connections]
      /\ \A d \in Ids : d # c => conns'[d] = conns[d]
      /\ conns'[c].addr = conns[c].addr /\ conns'[c].side = conns[c].side
      /\ conns'[c].listed = conns[c].listed /\ conns'[c].thread = conns[c].thread
      /\ conns'[c].rc - conns'[c].granted = conns[c].rc - conns[c].granted - 1
  <2>1. ASSUME NEW R \in FinReqs, conns' = Granted(c, R, FALSE)
        PROVE  <1>6!:
    BY <1>5, <2>1, Zenon
  <2>2. ASSUME NEW i, ServesWaiting(c, i)
        PROVE  <1>6!:
    <3>1. i \in DOMAIN waitings
      BY <1>2, <2>2, FindFacts, Zenon DEF Lists, ServesWaiting
    <3>2. waitings[i].reqs \in FinReqs
      BY <1>2, <3>1, ListFacts, Zenon DEF Devices
    <3> QED
      BY <2>1, <2>2, <3>2, Zenon DEF ServesWaiting
  <2>3. CASE ServesConnecting(c)
    <3>1. connecting.reqs \in FinReqs
      BY <1>2, FinReqsFacts DEF Devices, NoDevice
    <3> QED
      BY <2>1, <2>3, <3>1, Zenon DEF ServesConnecting
  <2>4. CASE GivesBack(c)
    <3>1. PICK s : s = IF conns[c].rc <= 1 THEN "NEGOTIATION_CLOSING" ELSE conns[c].state
      OBVIOUS
    <3>2. PICK k : k = [conns[c] EXCEPT !.rc = conns[c].rc - 1, !.state = s]
      OBVIOUS
    <3>3. conns' = [conns EXCEPT ![c] = k]
      BY <1>1, <1>2, <2>4, <3>1, <3>2, Zenon DEF GivesBack, CType
    <3>4. /\ k \in Connections /\ k.addr = conns[c].addr /\ k.side = conns[c].side
          /\ k.listed = conns[c].listed /\ k.thread = conns[c].thread
          /\ k.rc = conns[c].rc - 1 /\ k.granted = conns[c].granted
      <4>1. s \in {"CONNECTING", "CONNECTED", "NEGOTIATION_CLOSING", "CLOSED"}
        BY <1>3, <3>1, Zenon DEF Connections
      <4>2. PICK n \in Int : n = conns[c].rc - 1
        BY <1>3
      <4> QED
        BY <1>3, <3>2, <4>1, <4>2, Zenon DEF Connections
    <3>5. conns' \in [Ids -> Connections] /\ conns'[c] = k /\ \A d \in Ids : d # c => conns'[d] = conns[d]
      BY <1>1, <1>2, <3>3, <3>4, Zenon DEF CType
    <3> QED
      BY <1>3, <3>4, <3>5
  <2> QED
    BY <1>0, <2>2, <2>3, <2>4, ConnectedCases, Zenon
<1>7. CType'
  BY <1>2, <1>4, <1>6, Zenon DEF CType
<1>8. \A d \in Ids \ {c} : Kept(d)
  <2>1. \A d \in Ids \ {c} : EventsKept(d)
    BY <1>1, EventFacts, Zenon
  <2> QED
    BY <1>2, <1>4, <1>6, <1>7, <2>1, Same, Zenon
<1>9. /\ ~In(queue', Msg("success", c))
      /\ In(queue', Msg("accepted", c)) => In(queue, Msg("accepted", c))
      /\ In(queue', Msg("exception", c)) => In(queue, Msg("exception", c))
  BY <1>1, MessageTypes, Zenon DEF QTook
<1>10. /\ conns[c].side = "client" /\ conns[c].thread \in {"reading", "done"} /\ conns[c].listed
       /\ In(queue, Msg("success", c))
  BY <1>1, <1>3, Zenon DEF Life, QTook
<1>11. Life(c)'
  BY <1>3, <1>4, <1>6, <1>9, Zenon DEF Life
<1>12. Count(c)'
  <2>1. conns'[c].rc \in Int /\ conns'[c].granted \in Int
    BY <1>1, <1>6, Zenon DEF Connections
  <2>2. Open(c) /\ ~Open(c)'
    BY <1>6, <1>9, <1>10, Zenon DEF Open
  <2> QED
    BY <1>3, <1>6, <1>10, <2>1, <2>2 DEF Count
<1>13. \A d \in Ids \ {c} : ListedClient(d) => conns[d].addr # conns'[c].addr
  BY <1>1, <1>2, <1>6, <1>10, Zenon DEF ListedClient, CInv, OneClient
<1> QED
  BY <1>1, <1>2, <1>7, <1>8, <1>11, <1>12, <1>13, OthersKept, Zenon

\* A connection leaves the list with the last message of its thread.
LEMMA RemoveC ==
    ASSUME CInv, NEW c \in Ids, conns' \in [Ids -> Connections], made' = made,
           \A d \in Ids \ {c} : Alike(conns[d], conns'[d]) /\ EventsKept(d),
           ~conns'[c].listed, conns'[c].addr = conns[c].addr, conns'[c].side = conns[c].side,
           conns'[c].thread = conns[c].thread, conns[c].thread \in {"failed", "done"},
           fails' = fails \ {c},
           ~In(queue', Msg("success", c)), ~In(queue', Msg("accepted", c)),
           ~In(queue', Msg("exception", c))
    PROVE  CInv'
<1>1. CType /\ CType' /\ Life(c)
  BY Zenon DEF CInv, CType
<1>2. \A d \in Ids \ {c} : Kept(d)
  BY Zenon DEF Kept
<1>3. Life(c)'
  BY <1>1, Zenon DEF Life
<1>4. Count(c)' /\ ~ListedClient(c)'
  BY Zenon DEF Count, ListedClient
<1> QED
  BY <1>1, <1>2, <1>3, <1>4, OthersKept, Zenon

\* ClientConnectFailed removes the connection it is about.
LEMMA FailedC ==
    ASSUME EventInv, NEW c \in Ids, ClientConnectFailed(c)
    PROVE  CInv'
<1>1. QSame
  BY QuietSteps, Zenon DEF EventInv, QInv, QuietStep
<1>2. CInv /\ CType /\ Life(c) /\ c \in fails /\ connecting \in Devices \cup {NoDevice}
  BY FailedCases, Zenon DEF EventInv, CInv, DInv
<1>3. conns[c].thread = "failed" /\ conns[c].side = "client"
  BY <1>2, Zenon DEF Life
<1>4. \A d \in Ids : EventsKept(d)
  BY <1>1, EventFacts, Zenon
<1>5. /\ ~In(queue', Msg("success", c)) /\ ~In(queue', Msg("accepted", c))
      /\ ~In(queue', Msg("exception", c))
  BY <1>2, <1>3, <1>4, NoEvents, Zenon DEF EventsKept
<1>6. /\ Removed(c) \in [Ids -> Connections]
      /\ \A d \in Ids : d # c => Removed(c)[d] = conns[d]
      /\ ~Removed(c)[c].listed
      /\ Removed(c)[c].addr = conns[c].addr /\ Removed(c)[c].side = conns[c].side
      /\ Removed(c)[c].thread = conns[c].thread
  BY <1>2, DisconnectFacts, Zenon
<1>7. ASSUME NEW g \in [Ids -> Connections], \A d \in Ids \ {c} : Alike(conns[d], g[d]),
             conns' = [g EXCEPT ![c] = Removed(c)[c]]
      PROVE  CInv'
  <2>1. conns'[c] = Removed(c)[c] /\ \A d \in Ids \ {c} : Alike(conns[d], conns'[d])
    BY <1>7, Zenon
  <2>2. conns' \in [Ids -> Connections]
    BY <1>6, <1>7, Zenon
  <2>3. made' = made /\ fails' = fails \ {c}
    BY FailedCases, Zenon
  <2> QED
    BY <1>2, <1>3, <1>4, <1>5, <1>6, <2>1, <2>2, <2>3, RemoveC, Zenon
<1>8. \A d \in Ids : Alike(conns[d], conns[d])
  BY Zenon DEF Alike
<1>9. CASE conns' = Removed(c)
  <2>1. conns' = [conns EXCEPT ![c] = Removed(c)[c]]
    BY <1>2, <1>6, <1>9, Zenon DEF CType
  <2> QED
    BY <1>2, <1>7, <1>8, <2>1, Zenon DEF CType
<1>10. ASSUME NEW s, FailsServed(c, s)
       PROVE  CInv'
  <2>1. connecting.reqs \in FinReqs /\ s \in Ids /\ s # c
    BY <1>2, <1>3, <1>10, FinReqsFacts DEF Devices, NoDevice, FailsServed
  <2>2. PICK g : g = Granted(s, connecting.reqs, TRUE)
    BY Zenon
  <2>3. g \in [Ids -> Connections] /\ \A d \in Ids : Alike(conns[d], g[d])
    <3>1. /\ g \in [Ids -> Connections] /\ \A d \in Ids : d # s => g[d] = conns[d]
          /\ Alike(conns[s], g[s])
      BY <1>2, <2>1, <2>2, GrantFacts, Zenon
    <3> QED
      BY <1>8, <3>1, Zenon
  <2> QED
    BY <1>7, <1>10, <2>2, <2>3, Zenon DEF FailsServed
<1> QED
  BY <1>9, <1>10, FailedCases, Zenon DEF FailsLate, FailsPended, FailsAnswered

\* One connection takes another value.
LEMMA Becomes ==
    ASSUME CType, NEW c \in Ids, NEW k \in Connections, conns' = [conns EXCEPT ![c] = k]
    PROVE  /\ conns' \in [Ids -> Connections] /\ conns'[c] = k
           /\ \A d \in Ids \ {c} : conns'[d] = conns[d]
BY Zenon DEF CType

\* ... and the invariant follows from its own part of it.
LEMMA OneBecomes ==
    ASSUME CInv, NEW c \in Ids, NEW k \in Connections, conns' = [conns EXCEPT ![c] = k],
           made' = made, fails' \subseteq Ids, \A d \in Ids \ {c} : d \in fails' => d \in fails,
           \A d \in Ids \ {c} : EventsKept(d),
           k.addr = conns[c].addr, k.side = conns[c].side, k.listed = conns[c].listed,
           Life(c)', Count(c)'
    PROVE  CInv'
<1>1. CType /\ CType' /\ conns'[c] = k /\ \A d \in Ids \ {c} : conns'[d] = conns[d]
  BY Becomes, Zenon DEF CInv, CType
<1>2. \A d \in Ids \ {c} : Kept(d)
  BY <1>1, Same, Zenon
<1>3. ListedClient(c)' => \A d \in Ids \ {c} : ListedClient(d) => conns[d].addr # conns'[c].addr
  <2>1. ListedClient(c)' => ListedClient(c) /\ conns'[c].addr = conns[c].addr
    BY <1>1, Zenon DEF ListedClient
  <2> QED
    BY <2>1, Zenon DEF CInv, OneClient
<1> QED
  BY <1>1, <1>2, <1>3, OthersKept, Zenon

\* StartBrClientConnect succeeds or fails.
LEMMA StartC ==
    ASSUME EventInv, NEW c \in Ids, StartBrClientConnect(c)
    PROVE  CInv'
<1>1. QSame
  BY QuietSteps, Zenon DEF EventInv, QInv, QuietStep
<1>2. CInv /\ CType /\ Life(c) /\ Count(c) /\ conns[c] \in Connections
  BY Fields, Zenon DEF EventInv, CInv
<1>3. \A d \in Ids : EventsKept(d)
  BY <1>1, EventFacts, Zenon
<1>4. /\ conns[c].thread = "connecting" /\ conns[c].side = "client" /\ conns[c].listed
      /\ made' = made /\ queue' = queue
  BY <1>2, Zenon DEF StartBrClientConnect, Life
<1>5. /\ ~In(queue', Msg("success", c)) /\ ~In(queue', Msg("accepted", c))
      /\ ~In(queue', Msg("exception", c)) /\ c \notin fails
  BY <1>2, <1>4, NoEvents, Zenon
<1>6. \E k \in Connections :
          /\ conns' = [conns EXCEPT ![c] = k]
          /\ k.addr = conns[c].addr /\ k.side = conns[c].side /\ k.listed = conns[c].listed
          /\ k.rc = conns[c].rc /\ k.granted = conns[c].granted
          /\ \/ k.thread = "connected" /\ fails' = fails
             \/ k.thread = "failed" /\ fails' = fails \cup {c}
  <2>1. CASE /\ conns' = [conns EXCEPT ![c].state = "CONNECTED", ![c].sock = TRUE,
                                       ![c].thread = "connected"]
             /\ fails' = fails
    <3>1. PICK k : k = [conns[c] EXCEPT !.state = "CONNECTED", !.sock = TRUE, !.thread = "connected"]
      OBVIOUS
    <3>2. conns' = [conns EXCEPT ![c] = k]
      BY <1>2, <2>1, <3>1, Zenon DEF CType
    <3>3. /\ k \in Connections /\ k.addr = conns[c].addr /\ k.side = conns[c].side
          /\ k.listed = conns[c].listed /\ k.thread = "connected"
          /\ k.rc = conns[c].rc /\ k.granted = conns[c].granted
      BY <1>2, <3>1, Zenon DEF Connections
    <3> QED
      BY <2>1, <3>2, <3>3, Zenon
  <2>2. ASSUME NEW b \in BOOLEAN, conns' = [conns EXCEPT ![c].thread = "failed", ![c].collision = b],
               fails' = fails \cup {c}
        PROVE  <1>6!:
    <3>1. PICK k : k = [conns[c] EXCEPT !.thread = "failed", !.collision = b]
      OBVIOUS
    <3>2. conns' = [conns EXCEPT ![c] = k]
      BY <1>2, <2>2, <3>1, Zenon DEF CType
    <3>3. /\ k \in Connections /\ k.addr = conns[c].addr /\ k.side = conns[c].side
          /\ k.listed = conns[c].listed /\ k.thread = "failed"
          /\ k.rc = conns[c].rc /\ k.granted = conns[c].granted
      BY <1>2, <2>2, <3>1, Zenon DEF Connections
    <3>4. fails' = fails \cup {c}
      BY <2>2, Zenon
    <3> QED
      BY <3>2, <3>3, <3>4, Zenon
  <2>3. \/ /\ conns' = [conns EXCEPT ![c].state = "CONNECTED", ![c].sock = TRUE,
                                      ![c].thread = "connected"]
           /\ fails' = fails
        \/ \E b \in BOOLEAN : /\ conns' = [conns EXCEPT ![c].thread = "failed", ![c].collision = b]
                              /\ fails' = fails \cup {c}
    BY Zenon DEF StartBrClientConnect
  <2>4. CASE \E b \in BOOLEAN : /\ conns' = [conns EXCEPT ![c].thread = "failed", ![c].collision = b]
                              /\ fails' = fails \cup {c}
    BY <2>2, <2>4, Zenon
  <2> QED
    BY <2>1, <2>3, <2>4, Zenon
<1>became. PICK k \in Connections : <1>6!(k)
  BY <1>6, Zenon
<1>7. conns'[c] = k /\ fails' \subseteq Ids /\ \A d \in Ids \ {c} : d \in fails' => d \in fails
  BY <1>2, <1>became, Zenon DEF CType
<1>8. Life(c)'
  BY <1>2, <1>4, <1>5, <1>became, <1>7, Zenon DEF Life
<1>9. Count(c)'
  BY <1>2, <1>4, <1>became, <1>7, Zenon DEF Count, Open
<1> QED
  BY <1>2, <1>3, <1>4, <1>became, <1>7, <1>8, <1>9, OneBecomes, Zenon

\* A thread posts that its connection is there.
LEMMA AnnounceC ==
    ASSUME EventInv, NEW c \in Ids, Announce(c)
    PROVE  CInv'
<1>1. CInv /\ CType /\ Life(c) /\ Count(c) /\ conns[c] \in Connections
  BY Fields, Zenon DEF EventInv, CInv
<1>2. PICK w \in {"success", "accepted"} :
          QPut(Msg(w, c)) /\ (w = "success" <=> conns[c].side = "client")
  BY PostingSteps, Zenon DEF EventInv
<1>3. /\ conns[c].thread \in {"connected", "accepted"} /\ made' = made /\ fails' = fails
      /\ conns' = [conns EXCEPT ![c].thread = "reading"]
  BY Zenon DEF Announce
<1>4. conns[c].listed /\ conns[c].side \in {"client", "server"} /\ c \notin fails
  BY <1>1, <1>3, Zenon DEF Life
<1>5. PICK k : k = [conns[c] EXCEPT !.thread = "reading"]
  BY Zenon
<1>6. conns' = [conns EXCEPT ![c] = k]
  BY <1>1, <1>3, <1>5, Zenon DEF CType
<1>7. /\ k \in Connections /\ k.addr = conns[c].addr /\ k.side = conns[c].side
      /\ k.listed = conns[c].listed /\ k.thread = "reading"
      /\ k.rc = conns[c].rc /\ k.granted = conns[c].granted
  BY <1>1, <1>5, Zenon DEF Connections
<1>8. \A d \in Ids \ {c} : EventsKept(d)
  BY <1>2, EventFacts, Zenon
<1>9. conns'[c] = k
  BY <1>1, <1>6, Zenon DEF CType
<1>10. /\ In(queue', Msg("success", c)) <=> conns[c].side = "client"
       /\ In(queue', Msg("accepted", c)) <=> conns[c].side = "server"
       /\ ~In(queue', Msg("exception", c))
  <2>1. /\ Msg("exception", c) # Msg(w, c)
        /\ Msg("success", c) = Msg(w, c) <=> w = "success"
        /\ Msg("accepted", c) = Msg(w, c) <=> w = "accepted"
    BY Zenon DEF Msg
  <2>2. /\ ~In(queue, Msg("success", c)) /\ ~In(queue, Msg("accepted", c))
        /\ ~In(queue, Msg("exception", c))
    BY <1>1, <1>3, NoEvents, Zenon
  <2>3. \A x \in Tracked : In(queue', x) <=> In(queue, x) \/ x = Msg(w, c)
    BY <1>2, Zenon DEF QPut
  <2> QED
    BY <1>2, <1>4, <2>1, <2>2, <2>3, MessageTypes, Zenon
<1>11. Life(c)'
  BY <1>1, <1>3, <1>4, <1>7, <1>9, <1>10, Zenon DEF Life
<1>12. Count(c)'
  BY <1>1, <1>3, <1>4, <1>7, <1>9, <1>10, ZenonT(60) DEF Count, Open, Life
<1> QED
  BY <1>1, <1>3, <1>4, <1>6, <1>7, <1>8, <1>11, <1>12, OneBecomes, Zenon DEF CType

\* A thread posts its exception and ends.
LEMMA ExitC ==
    ASSUME EventInv, NEW c \in Ids, LoopReadExit(c)
    PROVE  CInv'
<1>1. CInv /\ CType /\ Life(c) /\ Count(c) /\ conns[c] \in Connections
  BY Fields DEF EventInv, CInv
<1>2. QPut(Msg("exception", c))
  BY PostingSteps, Zenon DEF EventInv
<1>3. /\ conns[c].thread = "reading" /\ made' = made /\ fails' = fails
      /\ conns' = [Disconnected(c) EXCEPT ![c].thread = "done"]
  BY Zenon DEF LoopReadExit
<1>4. conns[c].listed /\ c \notin fails
  BY <1>1, <1>3, Zenon DEF Life
<1>5. PICK k : k = [conns[c] EXCEPT !.state = "CLOSED", !.sock = FALSE, !.thread = "done"]
  OBVIOUS
<1>6. conns' = [conns EXCEPT ![c] = k]
  BY <1>1, <1>3, <1>5, Zenon DEF CType, Disconnected
<1>7. /\ k \in Connections /\ k.addr = conns[c].addr /\ k.side = conns[c].side
      /\ k.listed = conns[c].listed /\ k.thread = "done"
      /\ k.rc = conns[c].rc /\ k.granted = conns[c].granted
  BY <1>1, <1>5, Zenon DEF Connections
<1>8. \A d \in Ids \ {c} : EventsKept(d)
  BY <1>2, EventFacts, Zenon
<1>9. conns'[c] = k
  BY <1>1, <1>6, Zenon DEF CType
<1>10. /\ In(queue', Msg("success", c)) <=> In(queue, Msg("success", c))
       /\ In(queue', Msg("accepted", c)) <=> In(queue, Msg("accepted", c))
  <2>1. Msg("success", c) # Msg("exception", c) /\ Msg("accepted", c) # Msg("exception", c)
    BY Zenon DEF Msg
  <2> QED
    BY <1>2, <2>1, MessageTypes, Zenon DEF QPut
<1>11. Life(c)'
  BY <1>1, <1>3, <1>4, <1>7, <1>9, <1>10, Zenon DEF Life
<1>12. Count(c)'
  BY <1>1, <1>3, <1>4, <1>7, <1>9, <1>10, ZenonT(60) DEF Count, Open
<1> QED
  BY <1>1, <1>3, <1>4, <1>6, <1>7, <1>8, <1>11, <1>12, OneBecomes, Zenon DEF CType

\* The listen task accepts a connection.
LEMMA AcceptC ==
    ASSUME EventInv, NEW a \in Addrs, Accept(a)
    PROVE  CInv'
<1>1. CInv /\ CType /\ \A d \in Ids : EventsKept(d)
  BY QuietSteps, EventFacts, Zenon DEF EventInv, CInv, QInv, QuietStep
<1>2. PICK c \in Ids : c = made + 1 /\ made' = c /\ conns' = [conns EXCEPT ![c] = ServerConnection(a)]
  <2>1. MaxConnections \in Nat /\ made < MaxConnections
    BY ManagerAssumption, Zenon DEF Accept
  <2>2. made + 1 \in Ids
    BY <1>1, <2>1 DEF CType, Ids
  <2> QED
    BY <2>2, Zenon DEF Accept
<1>3. PICK k : k = ServerConnection(a)
  OBVIOUS
<1>4. /\ k \in Connections /\ k.addr = a /\ k.side = "server" /\ k.listed
      /\ k.thread = "accepted" /\ k.rc = 1 /\ k.granted = 0
  <2>1. k = [addr |-> a, side |-> "server", state |-> "CONNECTED", sock |-> TRUE, listed |-> TRUE,
             thread |-> "accepted", rc |-> 1, granted |-> 0, collision |-> FALSE]
    BY <1>3, Zenon DEF ServerConnection, NoConnection
  <2> QED
    BY <2>1 DEF Connections
<1>5. fails' = fails
  BY Zenon DEF Accept
<1>6. conns'[c] = k /\ CType' /\ \A e \in Ids \ {c} : conns'[e] = conns[e]
  BY <1>1, <1>2, <1>3, <1>4, <1>5 DEF CType, Ids
<1>7. \A e \in Ids \ {c} : Kept(e)
  <2>1. \A e \in Ids \ {c} : e > made' <=> e > made
    BY <1>1, <1>2 DEF CType, Ids
  <2> QED
    BY <1>1, <1>5, <1>6, <2>1, Same, Zenon
<1>8. conns[c].thread = "none" /\ Life(c)
  BY <1>1, <1>2 DEF CInv, CType, Life, Ids
<1>9. Life(c)'
  <2>1. /\ c \notin fails' /\ ~In(queue', Msg("success", c)) /\ ~In(queue', Msg("accepted", c))
        /\ ~In(queue', Msg("exception", c))
    BY <1>1, <1>5, <1>8, Zenon DEF Life, EventsKept
  <2>2. c <= made' /\ ~(c > made')
    BY <1>2 DEF Ids
  <2> QED
    BY <1>4, <1>6, <2>1, <2>2, Zenon DEF Life
<1>10. Count(c)' /\ ~ListedClient(c)'
  BY <1>4, <1>6 DEF Count, Open, ListedClient
<1> QED
  BY <1>1, <1>6, <1>7, <1>9, <1>10, OthersKept, Zenon

\* ConnectionException removes the connection it is about.
LEMMA ExceptionC == EventInv /\ ConnectionException => CInv'
<1> SUFFICES ASSUME EventInv, ConnectionException
             PROVE  CInv'
  OBVIOUS
<1>0. PICK c : c = Arg
  OBVIOUS
<1>1. /\ QTook(Msg("exception", c)) /\ c \in Ids
      /\ ~In(queue, Msg("success", c)) /\ ~In(queue, Msg("accepted", c))
  BY <1>0, TakingSteps, Zenon DEF EventInv, QInv
<1>2. CInv /\ CType /\ Life(c)
  BY <1>1, Zenon DEF EventInv, CInv
<1>3. conns' = Removed(c) /\ made' = made /\ fails' = fails
  BY <1>0, Zenon DEF ConnectionException, Removed, timers
<1>4. conns[c].thread = "done" /\ fails' = fails \ {c}
  BY <1>1, <1>2, <1>3, Zenon DEF Life, QTook
<1>5. \A d \in Ids \ {c} : EventsKept(d)
  BY <1>1, EventFacts, Zenon
<1>6. /\ ~In(queue', Msg("success", c)) /\ ~In(queue', Msg("accepted", c))
      /\ ~In(queue', Msg("exception", c))
  BY <1>1, MessageTypes, Zenon DEF QTook
<1>7. /\ conns' \in [Ids -> Connections]
      /\ \A d \in Ids \ {c} : Alike(conns[d], conns'[d])
      /\ ~conns'[c].listed
      /\ conns'[c].addr = conns[c].addr /\ conns'[c].side = conns[c].side
      /\ conns'[c].thread = conns[c].thread
  BY <1>1, <1>2, <1>3, DisconnectFacts, Zenon DEF Alike
<1> QED
  BY <1>1, <1>2, <1>3, <1>4, <1>5, <1>6, <1>7, RemoveC, Zenon

\* Connections that change only in what no message tells.
LEMMA AlikeC ==
    ASSUME CInv, conns' \in [Ids -> Connections], made' = made, fails' = fails,
           \A d \in Ids : Alike(conns[d], conns'[d]) /\ EventsKept(d)
    PROVE  CInv'
<1>1. CType' /\ \A d \in Ids : Kept(d)
  BY Zenon DEF CInv, CType, Kept
<1> QED
  BY <1>1, AllKept, Zenon

\* Reset disconnects every connection and lists them still.
LEMMA ResetC == EventInv /\ Reset => CInv'
<1> SUFFICES ASSUME EventInv, Reset
             PROVE  CInv'
  OBVIOUS
<1>1. CInv /\ CType /\ \A d \in Ids : EventsKept(d)
  BY TakingSteps, EventFacts, Zenon DEF EventInv, CInv, QInv
<1>2. /\ conns' = [c \in Ids |-> IF conns[c].listed
                                THEN [Disconnected(c)[c] EXCEPT !.listed = TRUE] ELSE conns[c]]
      /\ made' = made /\ fails' = fails
  BY Zenon DEF Reset, ResetTo
<1>3. ASSUME NEW d \in Ids
      PROVE  conns'[d] \in Connections /\ Alike(conns[d], conns'[d])
  <2>1. Disconnected(d) \in [Ids -> Connections] /\ Alike(conns[d], Disconnected(d)[d]) /\ conns[d] \in Connections
    BY <1>1, DisconnectFacts, Fields, Zenon
  <2>2. CASE conns[d].listed
    <3>1. PICK k \in Connections : k = Disconnected(d)[d]
      BY <2>1, Zenon
    <3>2. k.listed = TRUE
      BY <2>1, <2>2, <3>1, Zenon DEF Alike, Connections
    <3>3. [k EXCEPT !.listed = TRUE] = k
      BY <3>1, <3>2, Zenon DEF Connections
    <3>4. conns'[d] = k
      BY <1>2, <2>2, <3>1, <3>3, Zenon
    <3> QED
      BY <2>1, <3>1, <3>4, Zenon
  <2>3. CASE ~conns[d].listed
    BY <1>2, <2>1, <2>3, Zenon DEF Alike
  <2> QED
    BY <2>2, <2>3, Zenon
<1>4. conns' \in [Ids -> Connections]
  BY <1>2, <1>3, Zenon
<1> QED
  BY <1>1, <1>2, <1>3, <1>4, AlikeC, Zenon

\* Disconnecting and negotiating change the state and the count of one connection.
LEMMA StateC ==
    ASSUME EventInv, NEW c \in Ids, BrDisconnectDeviceNow(c) \/ Negotiate(c) \/ EndNegotiation(c)
    PROVE  CInv'
<1>1. CInv /\ CType /\ \A d \in Ids : EventsKept(d)
  BY QuietSteps, EventFacts, Zenon DEF EventInv, CInv, QInv, QuietStep
<1>2. made' = made /\ fails' = fails
  BY Zenon DEF BrDisconnectDeviceNow, Negotiate, EndNegotiation
<1>3. CASE conns' = Disconnected(c)
  BY <1>1, <1>2, <1>3, DisconnectFacts, AlikeC, Zenon
<1>4. ASSUME NEW s \in {"CONNECTED", "NEGOTIATION_CLOSING"}, conns' = [conns EXCEPT ![c].state = s]
      PROVE  CInv'
  <2>1. PICK k : k = [conns[c] EXCEPT !.state = s]
    BY Zenon
  <2>2. conns' = [conns EXCEPT ![c] = k]
    BY <1>1, <1>4, <2>1, Zenon DEF CType
  <2>3. /\ k \in Connections /\ k.addr = conns[c].addr /\ k.side = conns[c].side
        /\ k.listed = conns[c].listed /\ k.thread = conns[c].thread
        /\ k.rc = conns[c].rc /\ k.granted = conns[c].granted
    BY <1>1, <2>1, Fields, ZenonT(60) DEF Connections
  <2>4. conns' \in [Ids -> Connections] /\ \A d \in Ids : Alike(conns[d], conns'[d])
    BY <1>1, <2>2, <2>3, Zenon DEF CType, Alike
  <2> QED
    BY <1>1, <1>2, <2>4, AlikeC, Zenon
<1> QED
  BY <1>3, <1>4, Zenon DEF BrDisconnectDeviceNow, Negotiate, EndNegotiation

\* Every step keeps the life and the count of every connection.
LEMMA NextC == EventInv /\ [Next]_vars => CInv'
<1> SUFFICES ASSUME EventInv, [Next]_vars
             PROVE  CInv'
  OBVIOUS
<1>0. DInv /\ CInv /\ queue \in Queues /\ waitings \in Lists
  BY Zenon DEF EventInv, DInv, QInv
<1>1. ASSUME \A d \in Ids : EventsKept(d), UNCHANGED <<conns, made, fails>>
      PROVE  CInv'
  BY <1>0, <1>1, Steady, Zenon
<1>2. CASE ConnectRequestOnAvailableState
  <2>1. \A d \in Ids : EventsKept(d)
    BY <1>0, <1>2, TakingSteps, EventFacts, Zenon
  <2> QED
    BY <1>1, <1>2, <2>1, Zenon DEF ConnectRequestOnAvailableState, timers
<1>3. CASE ConnectRequestOnConnectingState
  <2>1. (\A d \in Ids : EventsKept(d)) /\ Arg \in Requests /\ fails' = fails
    BY <1>0, <1>3, TakingSteps, EventFacts, Zenon DEF ConnectRequestOnConnectingState
  <2>2. Device(AddrOf[Arg], "INIT", {Arg}) \in Devices
    BY <2>1, DeviceFacts, Zenon
  <2> QED
    BY <1>0, <1>3, <2>1, <2>2, AttemptC, Zenon DEF ConnectRequestOnConnectingState
<1>4. CASE HandlePendingRequest
  <2> DEFINE i == First({j \in DOMAIN waitings : waitings[j].state = "WAIT_SCHEDULE"})
  <2>1. (\A d \in Ids : EventsKept(d)) /\ fails' = fails
    BY <1>0, <1>4, TakingSteps, EventFacts, Zenon DEF HandlePendingRequest
  <2>2. CASE mgr = "AVAILABLE" /\ i # 0
    <3>1. i \in DOMAIN waitings
      BY <1>0, <2>2, NextInLine, Zenon
    <3>2. waitings[i] \in Devices
      BY <1>0, <3>1, ListFacts, Zenon
    <3>3. PICK hint \in {0} \cup Ids :
              AttempReuseConnect(waitings[i], RemoveAt(waitings, i), hint, TRUE)
      BY <1>4, <2>2, Zenon DEF HandlePendingRequest
    <3> QED
      BY <1>0, <2>1, <3>2, <3>3, AttemptC, Zenon
  <2>3. CASE UNCHANGED <<conns, made>>
    BY <1>1, <2>1, <2>3, Zenon
  <2> QED
    BY <1>4, <2>2, <2>3, Zenon DEF HandlePendingRequest
<1>5. CASE ServerAccepted \/ ConnectionResume
  <2>1. (\A d \in Ids : EventsKept(d)) /\ Arg \in Ids
    BY <1>0, <1>5, TakingSteps, EventFacts, Zenon
  <2>2. made' = made /\ fails' = fails /\ (conns' = conns \/ ServesAll(Arg))
    BY <1>5, AcceptedCases, ResumeCases, Zenon
  <2>3. CASE ServesAll(Arg)
    BY <1>0, <2>1, <2>2, <2>3, RequestsForFacts, Serve, Zenon DEF ServesAll
  <2> QED
    BY <1>1, <2>1, <2>2, <2>3, Zenon
<1>6. CASE ClientConnected \/ ConnectionException \/ Reset
  BY <1>6, ConnectedC, ExceptionC, ResetC, Zenon
<1>7. ASSUME NEW c \in Ids, ClientConnectTimeout(c)
      PROVE  CInv'
  <2>1. \A d \in Ids : EventsKept(d)
    BY <1>0, <1>7, QuietSteps, EventFacts, Zenon DEF QuietStep
  <2> QED
    BY <1>1, <1>7, <2>1, Zenon DEF ClientConnectTimeout
<1>8. ASSUME NEW a \in Addrs, Unpend(a) \/ BrPendConnection(a)
      PROVE  CInv'
  <2>1. \A d \in Ids : EventsKept(d)
    BY <1>0, <1>8, QuietSteps, EventFacts, Zenon DEF QuietStep
  <2> QED
    BY <1>1, <1>8, <2>1, Zenon DEF Unpend, BrPendConnection
<1>9. ASSUME NEW r \in Requests, BrConnectDevice(r)
      PROVE  CInv'
  <2>1. \A d \in Ids : EventsKept(d)
    BY <1>9, PostingSteps, EventFacts, Zenon DEF EventInv
  <2> QED
    BY <1>1, <1>9, <2>1, Zenon DEF BrConnectDevice, timers
<1>10. CASE OnBtStateChanged
  <2>1. \A d \in Ids : EventsKept(d)
    BY <1>0, <1>10, QuietSteps, EventFacts, Zenon DEF QuietStep
  <2> QED
    BY <1>1, <1>10, <2>1, Zenon DEF OnBtStateChanged, timers
<1>11. CASE UNCHANGED vars
  <2>1. \A d \in Ids : EventsKept(d)
    BY <1>11, Zenon DEF vars, EventsKept
  <2> QED
    BY <1>1, <1>11, <2>1, Zenon DEF vars, timers
<1>12. ASSUME NEW c \in Ids, ClientConnectFailed(c) \/ ThreadStep(c) \/ BrDisconnectDeviceNow(c) \/ Negotiate(c)
       PROVE  CInv'
  BY <1>12, FailedC, StartC, AnnounceC, ExitC, StateC, Zenon DEF ThreadStep
<1> QED
  BY <1>2, <1>3, <1>4, <1>5, <1>6, <1>7, <1>8, <1>9, <1>10, <1>11, <1>12, AcceptC, Zenon
     DEF Next, QueueStep, TimerStep, EnvStep

\* The first half of the invariant holds at the start ...
LEMMA InitEvent == Init => EventInv
<1> SUFFICES ASSUME Init
             PROVE  EventInv
  OBVIOUS
<1>1. DInv
  BY DEF Init, DInv, Lists, Distinct
<1>2. queue = <<NextCmd>> /\ queue \in Seq(Messages) /\ DOMAIN queue = {1} /\ queue[1] = NextCmd
  BY MessageTypes DEF Init
<1>4. \A x \in Tracked : ~In(queue, x)
  BY <1>2, MessageTypes, Zenon DEF In
<1>5. QInv
  <2>1. Once(queue)
    BY <1>2, Zenon DEF Once
  <2>2. Behind(queue)
    BY <1>2, ZenonT(60) DEF Behind, NextCmd, Msg
  <2> QED
    BY <1>2, <1>4, <2>1, <2>2, MessageTypes, Zenon DEF QInv, Queues
<1>6. CType
  <2>1. MaxConnections \in Nat
    BY ManagerAssumption, Zenon
  <2>2. NoConnection \in Connections
    BY DEF NoConnection, Connections
  <2> QED
    BY <2>1, <2>2 DEF Init, CType
<1>7. \A c \in Ids : Life(c) /\ Count(c) /\ ~ListedClient(c)
  <2> SUFFICES ASSUME NEW c \in Ids
               PROVE  Life(c) /\ Count(c) /\ ~ListedClient(c)
    OBVIOUS
  <2>1. conns[c] = NoConnection /\ c > made /\ ~(c <= made) /\ c \notin fails
    BY DEF Init, Ids
  <2>2. /\ ~In(queue, Msg("success", c)) /\ ~In(queue, Msg("accepted", c))
        /\ ~In(queue, Msg("exception", c))
    BY <1>4, MessageTypes, Zenon
  <2> QED
    BY <2>1, <2>2 DEF Life, Count, ListedClient, NoConnection
<1>8. CInv
  BY <1>6, <1>7, Zenon DEF CInv, OneClient
<1> QED
  BY <1>1, <1>5, <1>8, Zenon DEF EventInv

\* ... and always.
LEMMA Events == Spec => []EventInv
<1>1. EventInv /\ [Next]_vars => EventInv'
  BY NextD, NextQ, NextC, Zenon DEF EventInv
<1> QED
  BY <1>1, InitEvent, PTL DEF Spec

\* The message of a thread finds its connection in the list.
THEOREM EventsFindConnections == Spec => []EventFindsConnection
<1>1. EventInv => EventFindsConnection
  <2> SUFFICES ASSUME EventInv
               PROVE  EventFindsConnection
    OBVIOUS
  <2>1. \A c \in fails : conns[c].listed
    BY Zenon DEF EventInv, CInv, CType, Life
  <2>2. ASSUME NEW i \in DOMAIN queue, queue[i].what \in {"accepted", "success", "exception"}
        PROVE  conns[queue[i].arg].listed
    <3>1. PICK m \in Messages : m = queue[i]
      BY DEF EventInv, QInv, Queues
    <3>2. m = Msg(m.what, m.arg) /\ m.arg \in Ids /\ In(queue, m)
      BY <2>2, <3>1, MessageFacts, Zenon DEF In
    <3>3. Life(m.arg)
      BY <3>2, Zenon DEF EventInv, CInv
    <3> QED
      BY <2>2, <3>1, <3>2, <3>3, Zenon DEF Life
  <2> QED
    BY <2>1, <2>2, Zenon DEF EventFindsConnection
<1> QED
  BY <1>1, Events, PTL

\* A connection counts one reference for each request it was given to, and the one
\* it was made with until that is handed on.
THEOREM GrantsAreCounted == Spec => []GrantsCounted
<1>1. EventInv => GrantsCounted
  <2> SUFFICES ASSUME EventInv, NEW c \in Ids, conns[c].listed
               PROVE  conns[c].rc = conns[c].granted
                         + (IF \/ conns[c].side = "server"
                               \/ conns[c].thread \in {"connecting", "connected", "failed"}
                               \/ \E i \in DOMAIN queue : queue[i] = Msg("success", c)
                            THEN 1 ELSE 0)
    BY Zenon DEF GrantsCounted
  <2>1. Count(c)
    BY Zenon DEF EventInv, CInv
  <2> QED
    BY <2>1, Zenon DEF Count, Open, In
<1> QED
  BY <1>1, Events, PTL

====
