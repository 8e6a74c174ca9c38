---------------------------- MODULE LooperProofs ----------------------------
(***************************************************************************)
(* Messages are handled in the order of their times, and in the order they *)
(* were posted for one time; the loop thread does not sleep past the first *)
(* of them; and the context it runs on outlives it.  All this for any      *)
(* number of posting threads, messages and delays.                         *)
(***************************************************************************)
EXTENDS Looper, FiniteSetTheorems, TLAPS

----------------------------------------------------------------------------
(* The list of messages.                                                   *)

Msgs == [what : What, time : Nat, n : Nat]

Sorted(s) == \A i, j \in DOMAIN s : i < j => Precedes(s[i], s[j])

\* A set of naturals that is not empty has a least member.
LEMMA LeastNumber ==
    ASSUME NEW S \in SUBSET Nat, S # {}
    PROVE  \E n \in S : \A m \in S : n <= m
<1>1. IsWellFoundedOn(OpToRel(<, Nat), Nat)
  BY NatLessThanWellFounded, Zenon
<1>2. PICK n \in S : \A m \in S : ~(<<m, n>> \in OpToRel(<, Nat))
  BY <1>1, WFMin, Zenon
<1>3. \A m \in S : ~(m < n)
  BY <1>2, Zenon DEF OpToRel
<1>4. \A m \in S : m \in Nat /\ n \in Nat
  OBVIOUS
<1>5. \A m \in S : n <= m
  BY <1>3, <1>4
<1> QED
  BY <1>5, Zenon

\* First finds the least of some places of a list, or the place after its end.
LEMMA FirstPlace ==
    ASSUME NEW s \in Seq(Msgs), NEW P \in SUBSET (DOMAIN s)
    PROVE  /\ First(s, P) \in 1..(Len(s) + 1)
           /\ First(s, P) \in P \/ First(s, P) = Len(s) + 1
           /\ \A i \in P : First(s, P) <= i
<1>0. Len(s) \in Nat /\ DOMAIN s = 1..Len(s)
  OBVIOUS
<1>1. CASE P = {}
  BY <1>0, <1>1 DEF First
<1>2. CASE P # {}
  <2>1. P \in SUBSET Nat
    BY <1>0
  <2>2. \E i \in P : \A j \in P : i <= j
    BY <1>2, <2>1, LeastNumber, Zenon
  <2>3. First(s, P) = CHOOSE i \in P : \A j \in P : i <= j
    BY <1>2, Zenon DEF First
  <2>4. First(s, P) \in P /\ \A j \in P : First(s, P) <= j
    BY <2>2, <2>3, Zenon
  <2> QED
    BY <1>0, <2>4
<1> QED
  BY <1>1, <1>2, Zenon

\* What is where in u, which is s with m inserted at i.
At(u, s, i, m, k) == u[k] = IF k < i THEN s[k] ELSE IF k = i THEN m ELSE s[k - 1]

\* What InsertAt does to the positions of a list.
LEMMA Inserted ==
    ASSUME NEW s \in Seq(Msgs), NEW i \in 1..(Len(s) + 1), NEW m \in Msgs
    PROVE  /\ InsertAt(s, i, m) \in Seq(Msgs)
           /\ Len(InsertAt(s, i, m)) = Len(s) + 1
           /\ \A k \in 1..(Len(s) + 1) : At(InsertAt(s, i, m), s, i, m, k)
<1> DEFINE x == SubSeq(s, 1, i - 1)
           y == SubSeq(s, i, Len(s))
           v == x \o <<m>>
<1>1. x \in Seq(Msgs) /\ Len(x) = i - 1 /\ \A k \in 1..(i - 1) : x[k] = s[k]
  OBVIOUS
<1>2. y \in Seq(Msgs) /\ Len(y) = Len(s) - i + 1 /\ \A k \in 1..(Len(s) - i + 1) : y[k] = s[i + k - 1]
  OBVIOUS
<1> HIDE DEF x, y
<1>3. /\ v \in Seq(Msgs) /\ Len(v) = i /\ v[i] = m
      /\ \A k \in 1..(i - 1) : v[k] = s[k]
  BY <1>1
<1> HIDE DEF v
<1>4. InsertAt(s, i, m) = v \o y
  BY Zenon DEF InsertAt, v, x, y
<1>5. v \o y \in Seq(Msgs) /\ Len(v \o y) = Len(s) + 1
  BY <1>2, <1>3
<1>6. ASSUME NEW k \in 1..(Len(s) + 1)
      PROVE  At(v \o y, s, i, m, k)
  <2>1. CASE k <= i
    <3>1. (v \o y)[k] = v[k]
      BY <1>2, <1>3, <2>1
    <3> QED
      BY <1>3, <2>1, <3>1 DEF At
  <2>2. CASE k > i
    <3>1. (v \o y)[k] = y[k - i]
      BY <1>2, <1>3, <2>2
    <3>2. k - i \in 1..(Len(s) - i + 1) /\ i + (k - i) - 1 = k - 1
      BY <2>2
    <3>3. y[k - i] = s[i + (k - i) - 1]
      BY <1>2, <3>2, Zenon
    <3> QED
      BY <2>2, <3>1, <3>2, <3>3 DEF At
  <2>3. k <= i \/ k > i
    OBVIOUS
  <2> QED
    BY <2>1, <2>2, <2>3, Zenon
<1> QED
  BY <1>4, <1>5, <1>6, Zenon

\* A message that is younger than all in the list goes to its place.
LEMMA InsertSorted ==
    ASSUME NEW s \in Seq(Msgs), Sorted(s), NEW m \in Msgs, \A i \in DOMAIN s : s[i].n < m.n
    PROVE  /\ InsertMsg(s, m) \in Seq(Msgs)
           /\ Sorted(InsertMsg(s, m))
           /\ \A i \in DOMAIN InsertMsg(s, m) : InsertMsg(s, m)[i].n <= m.n
<1> DEFINE P == {i \in DOMAIN s : s[i].time > m.time}
<1>1. PICK i : i = First(s, P)
  OBVIOUS
<1>2. /\ i \in 1..(Len(s) + 1)
      /\ i \in P \/ i = Len(s) + 1
      /\ \A j \in P : i <= j
  BY <1>1, FirstPlace, Zenon
<1> DEFINE u == InsertAt(s, i, m)
<1>4. u = InsertMsg(s, m)
  BY <1>1, Zenon DEF InsertMsg
<1>3. /\ u \in Seq(Msgs) /\ Len(u) = Len(s) + 1
      /\ \A k \in 1..(Len(s) + 1) : At(u, s, i, m, k)
  BY <1>2, Inserted, Zenon
<1> HIDE DEF u
<1>5. /\ u \in Seq(Msgs) /\ Len(u) = Len(s) + 1
      /\ \A k \in 1..(Len(s) + 1) : u[k] = IF k < i THEN s[k] ELSE IF k = i THEN m ELSE s[k - 1]
  BY <1>3 DEF At
<1>6. \A k \in 1..Len(s) : k \in DOMAIN s /\ s[k].time \in Nat /\ s[k].n \in Nat /\ s[k].n < m.n
  <2> SUFFICES ASSUME NEW k \in 1..Len(s)
               PROVE  k \in DOMAIN s /\ s[k].time \in Nat /\ s[k].n \in Nat /\ s[k].n < m.n
    BY Zenon
  <2>1. k \in DOMAIN s /\ s[k] \in Msgs
    OBVIOUS
  <2> QED
    BY <2>1 DEF Msgs
<1>7. m.time \in Nat /\ m.n \in Nat
  BY DEF Msgs
<1>8. \A k \in 1..Len(s) : k < i => s[k].time <= m.time
  BY <1>2, <1>6, <1>7
<1>9. \A k \in 1..Len(s) : k >= i => s[k].time > m.time
  <2> SUFFICES ASSUME NEW k \in 1..Len(s), k >= i PROVE s[k].time > m.time
    OBVIOUS
  <2>1. i \in DOMAIN s /\ s[i].time > m.time
    BY <1>2
  <2>2. CASE k = i
    BY <2>1, <2>2
  <2>3. CASE k > i
    <3>1. Precedes(s[i], s[k])
      BY <2>1, <2>3 DEF Sorted
    <3> QED
      BY <1>6, <1>7, <2>1, <3>1 DEF Precedes
  <2> QED
    BY <1>2, <2>2, <2>3
<1>10. Sorted(u)
  <2> SUFFICES ASSUME NEW j \in 1..(Len(s) + 1), NEW k \in 1..(Len(s) + 1), j < k
               PROVE  Precedes(u[j], u[k])
    BY <1>5 DEF Sorted
  <2>1. CASE k < i
    <3>1. u[j] = s[j] /\ u[k] = s[k] /\ j \in 1..Len(s) /\ k \in 1..Len(s)
      BY <1>2, <1>5, <2>1
    <3> QED
      BY <1>6, <3>1, Zenon DEF Sorted
  <2>2. CASE k = i
    <3>1. u[j] = s[j] /\ u[k] = m /\ j \in 1..Len(s)
      BY <1>2, <1>5, <2>2
    <3> QED
      BY <1>6, <1>7, <1>8, <2>2, <3>1 DEF Precedes
  <2>3. CASE k > i
    <3>1. u[k] = s[k - 1] /\ k - 1 \in 1..Len(s) /\ k - 1 >= i
      BY <1>2, <1>5, <2>3
    <3>2. CASE j < i
      <4>1. u[j] = s[j] /\ j \in 1..Len(s) /\ j < k - 1
        BY <1>2, <1>5, <2>3, <3>2
      <4> QED
        BY <1>6, <3>1, <4>1, Zenon DEF Sorted
    <3>3. CASE j = i
      BY <1>5, <1>6, <1>7, <1>9, <3>1, <3>3 DEF Precedes
    <3>4. CASE j > i
      <4>1. u[j] = s[j - 1] /\ j - 1 \in 1..Len(s) /\ j - 1 < k - 1
        BY <1>2, <1>5, <3>4
      <4> QED
        BY <1>6, <3>1, <4>1, Zenon DEF Sorted
    <3> QED
      BY <1>2, <3>2, <3>3, <3>4
  <2> QED
    BY <1>2, <2>1, <2>2, <2>3
<1>11. \A k \in DOMAIN u : u[k].n <= m.n
  <2> SUFFICES ASSUME NEW k \in 1..(Len(s) + 1)
               PROVE  u[k].n <= m.n
    BY <1>5
  <2>1. CASE k < i
    BY <1>2, <1>5, <1>6, <1>7, <2>1
  <2>2. CASE k = i
    BY <1>5, <1>7, <2>2
  <2>3. CASE k > i
    <3>1. u[k] = s[k - 1] /\ k - 1 \in 1..Len(s)
      BY <1>2, <1>5, <2>3
    <3> QED
      BY <1>6, <1>7, <3>1
  <2> QED
    BY <1>2, <2>1, <2>2, <2>3
<1> QED
  BY <1>4, <1>5, <1>10, <1>11, Zenon

\* A new element makes a finite set larger by one.
LEMMA AddNew ==
    ASSUME NEW S, NEW x, IsFiniteSet(S), x \notin S
    PROVE  IsFiniteSet(S \cup {x}) /\ Cardinality(S \cup {x}) = Cardinality(S) + 1
BY FS_AddElement

\* Every set of places has an enumeration in order.
LEMMA Enumeration ==
    ASSUME NEW N \in Nat, NEW K \in SUBSET (1..N)
    PROVE  /\ Cardinality(K) \in Nat
           /\ \E p \in [1..Cardinality(K) -> K] :
                \A j, k \in 1..Cardinality(K) : j < k => p[j] < p[k]
<1> DEFINE Upto(n) == K \cap (1..n)
           Has(n) == /\ IsFiniteSet(Upto(n))
                     /\ \E p \in [1..Cardinality(Upto(n)) -> Upto(n)] :
                          \A j, k \in 1..Cardinality(Upto(n)) : j < k => p[j] < p[k]
           Bad == {n \in 0..N : ~Has(n)}
<1>1. Has(0)
  <2>1. Upto(0) = {}
    OBVIOUS
  <2>2. IsFiniteSet({}) /\ Cardinality({}) = 0
    BY FS_EmptySet, Zenon
  <2>3. [j \in 1..0 |-> 0] \in [1..0 -> {}]
    OBVIOUS
  <2> QED
    BY <2>1, <2>2, <2>3
<1>2. ASSUME NEW n \in 0..N, n < N, Has(n)
      PROVE  Has(n + 1)
  <2>1. CASE n + 1 \notin K
    <3>1. Upto(n + 1) = Upto(n)
      BY <2>1
    <3> QED
      BY <1>2, <3>1, Zenon
  <2>2. CASE n + 1 \in K
    <3> DEFINE c == Cardinality(Upto(n))
    <3>1. Upto(n + 1) = Upto(n) \cup {n + 1} /\ n + 1 \notin Upto(n)
      BY <2>2
    <3>0. IsFiniteSet(Upto(n))
      BY <1>2, Zenon
    <3>2. IsFiniteSet(Upto(n) \cup {n + 1}) /\ Cardinality(Upto(n) \cup {n + 1}) = c + 1
      BY <3>0, <3>1, AddNew, Zenon
    <3>7. IsFiniteSet(Upto(n + 1)) /\ Cardinality(Upto(n + 1)) = c + 1
      BY <3>1, <3>2, Zenon
    <3>3. c \in Nat
      BY <1>2, FS_CardinalityType, Zenon
    <3>4. PICK p \in [1..c -> Upto(n)] : \A j, k \in 1..c : j < k => p[j] < p[k]
      BY <1>2, Zenon
    <3> HIDE DEF c
    <3> DEFINE q == [j \in 1..(c + 1) |-> IF j = c + 1 THEN n + 1 ELSE p[j]]
    <3>5. q \in [1..(c + 1) -> Upto(n + 1)]
      BY <3>1, <3>3, <3>4
    <3>6. ASSUME NEW j \in 1..(c + 1), NEW k \in 1..(c + 1), j < k
          PROVE  q[j] < q[k]
      <4>1. j \in 1..c /\ q[j] = p[j] /\ p[j] \in 1..n
        BY <3>3, <3>4, <3>6
      <4>2. CASE k = c + 1
        BY <3>3, <4>1, <4>2
      <4>3. CASE k # c + 1
        BY <3>3, <3>4, <3>6, <4>1, <4>3
      <4> QED
        BY <4>2, <4>3
    <3> HIDE DEF q
    <3> QED
      BY <3>5, <3>6, <3>7, Zenon
  <2> QED
    BY <2>1, <2>2, Zenon
<1> HIDE DEF Has
<1>3. Bad = {}
  <2> SUFFICES ASSUME Bad # {} PROVE FALSE
    OBVIOUS
  <2>1. Bad \in SUBSET Nat
    OBVIOUS
  <2>2. PICK n \in Bad : \A m \in Bad : n <= m
    BY <2>1, LeastNumber, Zenon
  <2>3. n # 0
    BY <1>1, <2>2
  <2>4. n - 1 \in 0..N /\ n - 1 < N /\ n - 1 \notin Bad /\ (n - 1) + 1 = n
    BY <2>2, <2>3
  <2>5. Has(n - 1)
    BY <2>4, Zenon
  <2>6. Has((n - 1) + 1)
    BY <1>2, <2>4, <2>5, Zenon
  <2> QED
    BY <2>2, <2>4, <2>6
<1>4. Has(N)
  BY <1>3
<1>5. Upto(N) = K
  OBVIOUS
<1>6. IsFiniteSet(K) /\ \E p \in [1..Cardinality(K) -> K] :
                          \A j, k \in 1..Cardinality(K) : j < k => p[j] < p[k]
  BY <1>4, <1>5, Zenon DEF Has
<1> QED
  BY <1>6, FS_CardinalityType, Zenon

\* The messages of u are messages of s, in the same order.
Among(u, s) == \A j \in DOMAIN u : \E a \in DOMAIN s : u[j] = s[a]
InOrder(u, s) ==
    \A j, k \in DOMAIN u : j < k => \E a, b \in DOMAIN s : a < b /\ u[j] = s[a] /\ u[k] = s[b]

\* What RemoveMsgs leaves keeps its order.
LEMMA Removed ==
    ASSUME NEW s \in Seq(Msgs), NEW what
    PROVE  /\ RemoveMsgs(s, what) \in Seq(Msgs)
           /\ Among(RemoveMsgs(s, what), s)
           /\ InOrder(RemoveMsgs(s, what), s)
<1> DEFINE kept == {i \in DOMAIN s : s[i].what # what}
           c == Cardinality(kept)
           place == CHOOSE p \in [1..c -> kept] : \A j, k \in 1..c : j < k => p[j] < p[k]
           u == [k \in 1..c |-> s[place[k]]]
<1>1. u = RemoveMsgs(s, what)
  BY DEF RemoveMsgs
<1>2. Len(s) \in Nat /\ kept \in SUBSET (1..Len(s)) /\ \A a \in kept : a \in DOMAIN s /\ s[a] \in Msgs
  OBVIOUS
<1>3. c \in Nat /\ \E p \in [1..c -> kept] : \A j, k \in 1..c : j < k => p[j] < p[k]
  BY <1>2, Enumeration, Zenon
<1>4. place \in [1..c -> kept] /\ \A j, k \in 1..c : j < k => place[j] < place[k]
  BY <1>3, Zenon
<1> HIDE DEF place, c, kept
<1>5. \A k \in 1..c : place[k] \in kept /\ u[k] = s[place[k]]
  BY <1>4
<1>6. DOMAIN u = 1..c
  OBVIOUS
<1>7. u \in [1..c -> Msgs]
  BY <1>2, <1>5
<1>8. u \in Seq(Msgs)
  BY <1>3, <1>7
<1> HIDE DEF u
<1>9. Among(u, s)
  BY <1>2, <1>5, <1>6, Zenon DEF Among
<1>10. InOrder(u, s)
  <2> SUFFICES ASSUME NEW j \in 1..c, NEW k \in 1..c, j < k
               PROVE  \E a, b \in DOMAIN s : a < b /\ u[j] = s[a] /\ u[k] = s[b]
    BY <1>6 DEF InOrder
  <2>1. place[j] \in DOMAIN s /\ place[k] \in DOMAIN s
    BY <1>2, <1>5, Zenon
  <2>2. place[j] < place[k] /\ u[j] = s[place[j]] /\ u[k] = s[place[k]]
    BY <1>4, <1>5, Zenon
  <2> QED
    BY <2>1, <2>2, Zenon
<1> QED
  BY <1>1, <1>8, <1>9, <1>10, Zenon

\* Removing messages keeps the list sorted, and its head is no earlier.
LEMMA RemoveSorted ==
    ASSUME NEW s \in Seq(Msgs), Sorted(s), NEW what
    PROVE  /\ Sorted(RemoveMsgs(s, what))
           /\ RemoveMsgs(s, what) # <<>> => s # <<>> /\ Head(s).time <= Head(RemoveMsgs(s, what)).time
<1> DEFINE u == RemoveMsgs(s, what)
<1>1. u \in Seq(Msgs) /\ Among(u, s) /\ InOrder(u, s)
  BY Removed, Zenon
<1> HIDE DEF u
<1>2. Sorted(u)
  BY <1>1, Zenon DEF Sorted, InOrder
<1>3. ASSUME u # <<>> PROVE s # <<>> /\ Head(s).time <= Head(u).time
  <2>1. 1 \in DOMAIN u /\ Head(u) = u[1]
    BY <1>1, <1>3
  <2>2. PICK a \in DOMAIN s : u[1] = s[a]
    BY <1>1, <2>1, Zenon DEF Among
  <2>3. s # <<>> /\ Head(s) = s[1] /\ 1 \in DOMAIN s /\ (a = 1 \/ 1 < a) /\ s[1] \in Msgs /\ s[a] \in Msgs
    OBVIOUS
  <2>4. a = 1 \/ Precedes(s[1], s[a])
    BY <2>3, Zenon DEF Sorted
  <2> QED
    BY <2>1, <2>2, <2>3, <2>4 DEF Precedes, Msgs
<1> QED
  BY <1>2, <1>3, Zenon DEF u

----------------------------------------------------------------------------
(* The inductive invariant.                                                *)

Running == {"loop", "wait", "timed", "handle", "ending"}

\* The list is sorted, and posts numbers its messages.
ListInv ==
    /\ msgs \in Seq(Msgs)
    /\ Sorted(msgs)
    /\ \A i \in DOMAIN msgs : msgs[i].n <= posts
    /\ now \in Nat /\ posts \in Nat /\ until \in Nat
    /\ posting \in [Posters \cup {Handler} -> Msgs \cup {NoMsg}]

\* How far the thread is, what the flags say of it, and who destroys the looper.
ThreadInv ==
    /\ thread \in Running \cup {"created", "deinit", "ended"}
    /\ deinit \in {"none", "stop", "destroy", "waitRunning", "done"}
    /\ started <=> thread # "created"
    /\ running <=> thread \in Running
    /\ needDestroy \in BOOLEAN
    /\ needDestroy => deinit = "done"
    /\ deinit \in {"stop", "destroy", "waitRunning"} => started
    /\ thread = "deinit" => needDestroy

IInv == ListInv /\ ThreadInv /\ NoOversleep /\ ContextOutlivesThread

\* The fields of a message in the list.
LEMMA MsgFields ==
    ASSUME NEW s \in Seq(Msgs), NEW i \in DOMAIN s
    PROVE  s[i].time \in Nat /\ s[i].n \in Nat
<1>1. s[i] \in Msgs
  OBVIOUS
<1> QED
  BY <1>1 DEF Msgs

\* The invariant holds at the start.
LEMMA InitIInv == Init => IInv
<1> SUFFICES ASSUME Init PROVE IInv
  OBVIOUS
<1>1. ListInv
  BY DEF Init, ListInv, Sorted
<1>2. ThreadInv
  BY DEF Init, ThreadInv, Running
<1> QED
  BY <1>1, <1>2 DEF Init, IInv, NoOversleep, ContextOutlivesThread

\* Posting.
LEMMA PostIInv ==
    ASSUME IInv, NEW p \in Posters \cup {Handler}, PostMessageAtTime(p)
    PROVE  IInv'
<1>1. /\ UNCHANGED <<now, flags, until, deinit, freed>>
      /\ posts \in Nat /\ posts' = posts + 1
  BY DEF IInv, ListInv, PostMessageAtTime
<1>2. posting' \in [Posters \cup {Handler} -> Msgs \cup {NoMsg}]
  BY DEF IInv, ListInv, PostMessageAtTime
<1>3. thread' = thread \/ (thread \in {"wait", "timed"} /\ thread' = "loop")
  <2>1. CASE stop
    BY <2>1 DEF PostMessageAtTime
  <2>2. CASE ~stop
    <3>1. Broadcast
      BY <2>2, Zenon DEF PostMessageAtTime
    <3> QED
      BY <3>1 DEF Broadcast
  <2> QED
    BY <2>1, <2>2, Zenon
<1>4. ThreadInv'
  BY <1>1, <1>3 DEF IInv, ThreadInv, Running, flags
<1>5. ContextOutlivesThread'
  BY <1>1, <1>3 DEF IInv, ContextOutlivesThread
<1>6. CASE stop
  <2>1. UNCHANGED <<msgs, thread>>
    BY <1>6 DEF PostMessageAtTime
  <2>2. ListInv'
    <3>1. \A i \in DOMAIN msgs' : msgs'[i].n <= posts'
      BY <1>1, <2>1, MsgFields DEF IInv, ListInv
    <3> QED
      BY <1>1, <1>2, <2>1, <3>1 DEF IInv, ListInv, Sorted
  <2>3. NoOversleep'
    BY <1>1, <2>1 DEF IInv, NoOversleep
  <2> QED
    BY <1>4, <1>5, <2>2, <2>3, Zenon DEF IInv
<1>7. CASE ~stop
  <2> DEFINE m == [posting[p] EXCEPT !.n = posts']
  <2>1. msgs' = InsertMsg(msgs, m) /\ thread' \notin {"wait", "timed"}
    BY <1>7 DEF PostMessageAtTime, Broadcast
  <2>2. m \in Msgs /\ m.n = posts + 1
    BY <1>1 DEF IInv, ListInv, PostMessageAtTime, Msgs
  <2> HIDE DEF m
  <2>3. \A i \in DOMAIN msgs : msgs[i].n < m.n
    BY <1>1, <2>2, MsgFields DEF IInv, ListInv
  <2>4. msgs' \in Seq(Msgs) /\ Sorted(msgs') /\ \A i \in DOMAIN msgs' : msgs'[i].n <= m.n
    BY <2>1, <2>2, <2>3, InsertSorted, Zenon DEF IInv, ListInv
  <2>5. ListInv'
    <3>1. posts' \in Nat /\ \A i \in DOMAIN msgs' : msgs'[i].n <= posts'
      BY <1>1, <2>2, <2>4
    <3> QED
      BY <1>1, <1>2, <2>4, <3>1, Zenon DEF IInv, ListInv, Sorted
  <2>6. NoOversleep'
    BY <2>1 DEF NoOversleep
  <2> QED
    BY <1>4, <1>5, <2>5, <2>6, Zenon DEF IInv
<1> QED
  BY <1>6, <1>7, Zenon

\* Beginning to post, and removing.
LEMMA CallIInv ==
    ASSUME IInv, NEW p \in Posters \cup {Handler}, CallStep(p)
    PROVE  IInv'
<1>1. CASE LooperPostMessage(p)
  <2>1. posting' \in [Posters \cup {Handler} -> Msgs \cup {NoMsg}]
    BY <1>1, LooperAssumption DEF LooperPostMessage, IInv, ListInv, Msgs
  <2>2. ListInv'
    BY <1>1, <2>1 DEF LooperPostMessage, IInv, ListInv, Sorted, listVars, loopVars
  <2> QED
    BY <1>1, <2>2 DEF LooperPostMessage, IInv, ThreadInv, NoOversleep, ContextOutlivesThread,
                      listVars, flags, loopVars
<1>2. ASSUME NEW what \in What, LooperRemoveMessage(p, what)
      PROVE  IInv'
  <2>1. UNCHANGED <<now, posts, flags, loopVars, posting, deinit, freed>>
    BY <1>2 DEF LooperRemoveMessage
  <2>2. CASE msgs' = msgs
    BY <2>1, <2>2 DEF IInv, ListInv, Sorted, ThreadInv, NoOversleep, ContextOutlivesThread,
                      flags, loopVars
  <2>3. CASE msgs' = RemoveMsgs(msgs, what)
    <3>1. msgs' \in Seq(Msgs) /\ Among(msgs', msgs)
      BY <2>3, Removed, Zenon DEF IInv, ListInv
    <3>2. Sorted(msgs') /\ (msgs' # <<>> => msgs # <<>> /\ Head(msgs).time <= Head(msgs').time)
      BY <2>3, RemoveSorted, Zenon DEF IInv, ListInv
    <3>3. ListInv'
      BY <2>1, <3>1, <3>2, Zenon DEF IInv, ListInv, Among, Sorted, loopVars
    <3>4. NoOversleep'
      <4>1. msgs # <<>> => Head(msgs).time \in Nat
        BY MsgFields DEF IInv, ListInv
      <4>2. msgs' # <<>> => Head(msgs').time \in Nat
        BY <3>1, MsgFields
      <4>3. until \in Nat /\ until' = until /\ thread' = thread
        BY <2>1 DEF IInv, ListInv, loopVars
      <4> QED
        BY <3>2, <4>1, <4>2, <4>3 DEF IInv, NoOversleep
    <3> QED
      BY <2>1, <3>3, <3>4 DEF IInv, ThreadInv, ContextOutlivesThread, flags, loopVars
  <2> QED
    BY <1>2, <2>2, <2>3, Zenon DEF LooperRemoveMessage
<1> QED
  BY <1>1, <1>2, Zenon DEF CallStep

\* The loop thread.
LEMMA LoopIInv ==
    ASSUME IInv, LoopStep
    PROVE  IInv'
<1>1. CASE LoopStarts
  BY <1>1 DEF LoopStarts, IInv, ListInv, Sorted, ThreadInv, Running, NoOversleep,
              ContextOutlivesThread, listVars
<1>2. CASE LoopTurn
  <2>1. /\ thread = "loop" /\ thread' \in {"ending", "wait", "timed", "handle"}
        /\ UNCHANGED <<now, posts, flags, posting, deinit, freed>>
    BY <1>2 DEF LoopTurn
  <2>2. ThreadInv' /\ ContextOutlivesThread'
    BY <2>1 DEF IInv, ThreadInv, Running, ContextOutlivesThread, flags
  <2>3. CASE msgs' = msgs /\ until' = until /\ (thread' = "wait" => msgs = <<>>) /\ thread' # "timed"
    BY <2>1, <2>2, <2>3 DEF IInv, ListInv, Sorted, NoOversleep
  <2>4. CASE /\ thread' = "timed" /\ msgs # <<>> /\ msgs' = msgs /\ until' = Head(msgs).time
    <3>1. Head(msgs).time \in Nat
      BY <2>4, MsgFields DEF IInv, ListInv
    <3> QED
      BY <2>1, <2>2, <2>4, <3>1 DEF IInv, ListInv, Sorted, NoOversleep
  <2>5. CASE /\ thread' = "handle" /\ msgs # <<>> /\ msgs' = Tail(msgs) /\ until' = until
    <3>1. /\ Tail(msgs) \in Seq(Msgs)
          /\ \A i \in DOMAIN Tail(msgs) : i + 1 \in DOMAIN msgs /\ Tail(msgs)[i] = msgs[i + 1]
      BY <2>5 DEF IInv, ListInv
    <3>2. Sorted(Tail(msgs))
      <4> SUFFICES ASSUME NEW i \in DOMAIN Tail(msgs), NEW j \in DOMAIN Tail(msgs), i < j
                   PROVE  Precedes(Tail(msgs)[i], Tail(msgs)[j])
        BY Zenon DEF Sorted
      <4>1. i + 1 < j + 1
        BY <3>1
      <4> QED
        BY <3>1, <4>1, Zenon DEF IInv, ListInv, Sorted
    <3>3. ListInv'
      BY <2>1, <2>5, <3>1, <3>2 DEF IInv, ListInv, Sorted
    <3> QED
      BY <2>2, <2>5, <3>3 DEF IInv, NoOversleep
  <2> QED
    BY <1>2, <2>3, <2>4, <2>5 DEF LoopTurn
<1>3. CASE TimedWaitEnds
  BY <1>3 DEF TimedWaitEnds, IInv, ListInv, Sorted, ThreadInv, Running, NoOversleep,
              ContextOutlivesThread, listVars, flags
<1>4. CASE HandlerReturns
  BY <1>4 DEF HandlerReturns, IInv, ListInv, Sorted, ThreadInv, Running, NoOversleep,
              ContextOutlivesThread, listVars, flags
<1>5. CASE LoopEnds
  <2>1. deinit' = deinit \/ (deinit = "waitRunning" /\ deinit' = "destroy")
    BY <1>5 DEF LoopEnds, WakeDestroyer
  <2>2. ListInv'
    BY <1>5 DEF LoopEnds, IInv, ListInv, Sorted, listVars
  <2>3. ThreadInv'
    BY <1>5, <2>1 DEF LoopEnds, IInv, ThreadInv, Running
  <2> QED
    BY <1>5, <2>2, <2>3 DEF LoopEnds, IInv, NoOversleep, ContextOutlivesThread
<1>6. CASE LoopDestroys
  BY <1>6 DEF LoopDestroys, IInv, ListInv, Sorted, ThreadInv, Running, NoOversleep,
              ContextOutlivesThread
<1> QED
  BY <1>1, <1>2, <1>3, <1>4, <1>5, <1>6, Zenon DEF LoopStep

\* The end of the looper.
LEMMA DeinitIInv ==
    ASSUME IInv, LooperDeinit \/ DestroyStep
    PROVE  IInv'
<1>1. CASE LooperDeinit
  BY <1>1 DEF LooperDeinit, IInv, ListInv, Sorted, ThreadInv, Running, NoOversleep,
              ContextOutlivesThread, listVars, loopVars
<1>2. CASE DestroyStops
  <2>1. thread' = thread \/ (thread \in {"wait", "timed"} /\ thread' = "loop")
    BY <1>2 DEF DestroyStops, Broadcast
  <2> QED
    BY <1>2, <2>1 DEF DestroyStops, IInv, ListInv, Sorted, ThreadInv, Running, NoOversleep,
                      ContextOutlivesThread, listVars
<1>3. CASE DestroyLooper
  <2>1. CASE running
    BY <1>3, <2>1 DEF DestroyLooper, IInv, ListInv, Sorted, ThreadInv, Running, NoOversleep,
                      ContextOutlivesThread, flags, loopVars
  <2>2. CASE ~running
    <3>1. thread = "ended"
      BY <1>3, <2>2 DEF DestroyLooper, IInv, ThreadInv, Running
    <3> QED
      BY <1>3, <2>2, <3>1 DEF DestroyLooper, IInv, ListInv, Sorted, ThreadInv, Running,
                              NoOversleep, ContextOutlivesThread, flags, loopVars
  <2> QED
    BY <2>1, <2>2, Zenon
<1> QED
  BY <1>1, <1>2, <1>3, Zenon DEF DestroyStep

\* Every step keeps the invariant.
LEMMA NextIInv == IInv /\ [Next]_vars => IInv'
<1> SUFFICES ASSUME IInv, [Next]_vars
             PROVE  IInv'
  OBVIOUS
<1>1. CASE Tick
  BY <1>1 DEF Tick, IInv, ListInv, Sorted, ThreadInv, NoOversleep, ContextOutlivesThread,
              listVars, flags, loopVars
<1>2. CASE UNCHANGED vars
  BY <1>2 DEF vars, IInv, ListInv, Sorted, ThreadInv, NoOversleep, ContextOutlivesThread,
              listVars, flags, loopVars
<1> QED
  BY <1>1, <1>2, PostIInv, CallIInv, LoopIInv, DeinitIInv, Zenon DEF Next

\* The invariant of the looper.
LEMMA Invariant == Spec => []IInv
BY InitIInv, NextIInv, PTL DEF Spec

----------------------------------------------------------------------------
\* The loop thread does not sleep past the first message, whatever is posted and
\* removed while it sleeps (LoopTask, PostMessageAtTime).
THEOREM NeverOversleeps == Spec => []NoOversleep
<1>1. IInv => NoOversleep
  BY DEF IInv
<1> QED
  BY <1>1, Invariant, PTL

\* DestroyLooper frees the context after the loop thread has ended, also when it was
\* called before the thread began.
THEOREM ThreadEndsFirst == Spec => []ContextOutlivesThread
<1>1. IInv => ContextOutlivesThread
  BY DEF IInv
<1> QED
  BY <1>1, Invariant, PTL

\* Messages are handled in the order of their times, and those of one time in the order
\* they were posted in.
THEOREM Ordered == Spec => HandledInOrder
<1> DEFINE Step == current' # current /\ current' # NoMsg =>
                     /\ current'.time <= now
                     /\ \A i \in DOMAIN msgs : msgs[i] = current' \/ Precedes(current', msgs[i])
<1>1. IInv /\ [Next]_vars => [Step]_vars
  <2> SUFFICES ASSUME IInv, Next, current' # current, current' # NoMsg
               PROVE  /\ current'.time <= now
                      /\ \A i \in DOMAIN msgs : msgs[i] = current' \/ Precedes(current', msgs[i])
    OBVIOUS
  <2>1. LoopTurn
    BY Zenon DEF Next, LoopStep, CallStep, DestroyStep, Tick, LoopStarts, TimedWaitEnds,
       HandlerReturns, LoopEnds, LoopDestroys, LooperPostMessage, LooperRemoveMessage,
       PostMessageAtTime, LooperDeinit, DestroyStops, DestroyLooper, loopVars
  <2>2. msgs # <<>> /\ ~(now < Head(msgs).time) /\ current' = Head(msgs)
    BY <2>1 DEF LoopTurn
  <2>3. 1 \in DOMAIN msgs /\ Head(msgs) = msgs[1] /\ \A i \in DOMAIN msgs : i = 1 \/ 1 < i
    BY <2>2 DEF IInv, ListInv
  <2>4. msgs[1].time \in Nat /\ now \in Nat
    BY <2>3, MsgFields DEF IInv, ListInv
  <2>5. current'.time <= now
    BY <2>2, <2>3, <2>4
  <2> QED
    BY <2>2, <2>3, <2>5, Zenon DEF IInv, ListInv, Sorted
<1> QED
  BY <1>1, Invariant, PTL DEF Spec, HandledInOrder
====
