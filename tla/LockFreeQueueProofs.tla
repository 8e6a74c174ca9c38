------------------------- MODULE LockFreeQueueProofs -------------------------
(***************************************************************************)
(* The inductive invariant of the ring queue, for every number of threads, *)
(* every size and every number of cursor values, and its preservation by   *)
(* the producers' steps.                                                   *)
(***************************************************************************)
EXTENDS LockFreeQueue, FiniteSetTheorems, TLAPS

-----------------------------------------------------------------------------
(* Arithmetic of the cursor words and of the ring's slots *)

\* Division with remainder, which the masks and the 32-bit wrap of the cursors amount to.
LEMMA DivMod ==
  ASSUME NEW m \in Nat, m > 0, NEW x \in Int
  PROVE  /\ x \div m \in Int
         /\ x % m \in 0..(m - 1)
         /\ x = m * (x \div m) + (x % m)
OBVIOUS

\* A non-zero multiple of a cursor's range is at least that range.
LEMMA Multiple ==
  ASSUME NEW m \in Nat, m > 0, NEW k \in Int, m * k < m, -m < m * k
  PROVE  k = 0
<1>1. CASE k >= 1
  <2>1. PICK d \in Nat : k = d + 1  BY <1>1
  <2>2. m * k = m * d + m  BY <2>1
  <2>3. m * d >= 0  OBVIOUS
  <2> QED  BY <2>2, <2>3
<1>2. CASE k <= -1
  <2>1. PICK d \in Nat : k = -(d + 1)
    <3>1. -k - 1 \in Nat  BY <1>2
    <3> QED  BY <3>1
  <2>2. m * k = -(m * d) - m  BY <2>1
  <2>3. m * d >= 0  OBVIOUS
  <2> QED  BY <2>2, <2>3
<1> QED  BY <1>1, <1>2

\* Two numbers less than m apart with the same remainder are equal.
LEMMA SameRemainder ==
  ASSUME NEW m \in Nat, m > 0, NEW x \in Int, NEW y \in Int,
         x % m = y % m, x - y < m, y - x < m
  PROVE  x = y
<1> DEFINE k == (x \div m) - (y \div m)
<1>1. /\ x \div m \in Int /\ y \div m \in Int
      /\ x = m * (x \div m) + (x % m) /\ y = m * (y \div m) + (y % m)
      /\ x % m \in Int /\ y % m \in Int
  BY DivMod
<1>2. k \in Int /\ m * k = m * (x \div m) - m * (y \div m)  BY <1>1
<1>3. m * k = x - y  BY <1>1, <1>2
<1> HIDE DEF k
<1>4. k = 0  BY <1>2, <1>3, Multiple
<1>5. m * k = 0  BY <1>4
<1> QED  BY <1>3, <1>5

\* Comparing two cursors as 32-bit words compares them, while they are close enough.
LEMMA WordEqual ==
  ASSUME NEW x \in Nat, NEW y \in Nat, Word(x) = Word(y), x - y < Modulus, y - x < Modulus
  PROVE  x = y
BY SameRemainder, SizeAssumption DEF Word

\* A difference of cursors taken in 32 bits is zero exactly when they differ by a.
LEMMA WordDifference ==
  ASSUME NEW a \in Nat, NEW x \in Nat, NEW y \in Nat,
         a + x - y >= 0, a + x - y < Modulus
  PROVE  /\ (a + Word(x) - Word(y)) % Modulus \in Nat
         /\ (a + Word(x) - Word(y)) % Modulus < 1 <=> y = a + x
<1> DEFINE z == a + Word(x) - Word(y)
           k == (x \div Modulus) - (y \div Modulus)
<1>1. Modulus \in Nat /\ Modulus > 0  BY SizeAssumption
<1>2. /\ x \div Modulus \in Int /\ y \div Modulus \in Int
      /\ x = Modulus * (x \div Modulus) + Word(x)
      /\ y = Modulus * (y \div Modulus) + Word(y)
      /\ Word(x) \in Int /\ Word(y) \in Int
  BY <1>1, DivMod DEF Word
<1>3. k \in Int /\ Modulus * k = Modulus * (x \div Modulus) - Modulus * (y \div Modulus)
  BY <1>1, <1>2
<1>4. z \in Int /\ a + x - y = Modulus * k + z
  <2> DEFINE u == Modulus * (x \div Modulus)  v == Modulus * (y \div Modulus)
  <2>1. u \in Int /\ v \in Int /\ Modulus * k = u - v /\ x = u + Word(x) /\ y = v + Word(y)
    BY <1>1, <1>2, <1>3
  <2> HIDE DEF u, v, k
  <2> QED  BY <1>2, <2>1
<1>5. /\ z \div Modulus \in Int /\ z % Modulus \in 0..(Modulus - 1)
      /\ z = Modulus * (z \div Modulus) + (z % Modulus)
  BY <1>1, <1>4, DivMod, Zenon
<1> DEFINE j == k + (z \div Modulus)
<1>6. j \in Int /\ Modulus * j = Modulus * k + Modulus * (z \div Modulus)
  BY <1>1, <1>3, <1>5
<1> HIDE DEF z, k, j
<1>7. a + x - y = Modulus * j + (z % Modulus)
  <2> DEFINE u == Modulus * k  v == Modulus * (z \div Modulus)  w == Modulus * j
  <2>1. u \in Int /\ v \in Int /\ w = u + v /\ a + x - y = u + z /\ z = v + (z % Modulus)
    BY <1>1, <1>3, <1>4, <1>5, <1>6
  <2> HIDE DEF u, v, w
  <2>2. a + x - y = w + (z % Modulus)  BY <1>5, <2>1
  <2> QED  BY <2>2, Zenon DEF w
<1>8. Modulus * j < Modulus /\ -Modulus < Modulus * j  BY <1>1, <1>5, <1>6, <1>7, SMTT(60)
<1>9. j = 0  BY <1>1, <1>6, <1>8, Multiple, Zenon
<1>10. a + x - y = z % Modulus  BY <1>7, <1>9, <1>1, <1>5
<1> QED  BY <1>5, <1>10 DEF z

\* Masking a cursor with mask gives a slot of the ring ...
LEMMA SlotType ==
  ASSUME NEW i \in Nat
  PROVE  Slot(i) \in 0..mask
BY DivMod, SizeAssumption DEF Slot, Word, mask

\* ... and two positions of the ring less than its size apart have different slots.
LEMMA SlotsDiffer ==
  ASSUME NEW i \in Nat, NEW j \in Nat, Slot(i) = Slot(j), i - j < Size, j - i < Size
  PROVE  i = j
<1>1. Size \in Nat /\ Size > 0 /\ Modulus \in Nat /\ Modulus > 0 /\ Modulus % Size = 0
  BY SizeAssumption
<1>2. PICK k \in Int : Modulus = Size * k
  <2>1. Modulus \div Size \in Int /\ Modulus = Size * (Modulus \div Size) + (Modulus % Size)
    BY <1>1, DivMod
  <2>2. Size * (Modulus \div Size) \in Int  BY <1>1, <2>1
  <2> QED  BY <1>1, <2>1, <2>2
<1>3. ASSUME NEW x \in Nat PROVE \E q \in Int : x = Size * q + Slot(x)
  <2>1. /\ x \div Modulus \in Int /\ Word(x) \in Int
        /\ x = Modulus * (x \div Modulus) + Word(x)
    BY <1>1, DivMod DEF Word
  <2>2. /\ Word(x) \div Size \in Int /\ Slot(x) \in Int
        /\ Word(x) = Size * (Word(x) \div Size) + Slot(x)
    BY <1>1, <2>1, DivMod DEF Slot
  <2> DEFINE u == x \div Modulus  v == Word(x) \div Size
  <2>3. u \in Int /\ v \in Int /\ k * u + v \in Int  BY <1>2, <2>1, <2>2
  <2> HIDE DEF u, v
  <2>4. Modulus * u = Size * (k * u)  BY <1>1, <1>2, <2>3
  <2>5. Size * (k * u + v) = Size * (k * u) + Size * v  BY <1>1, <1>2, <2>3
  <2>6. x = Size * (k * u + v) + Slot(x)
    <3> DEFINE f == Modulus * u  g == Size * v
    <3>1. f \in Int /\ g \in Int /\ x = f + Word(x) /\ Word(x) = g + Slot(x)
      BY <1>1, <2>1, <2>2, <2>3 DEF u, v
    <3>2. Size * (k * u + v) = f + g  BY <2>4, <2>5, Zenon
    <3> HIDE DEF f, g
    <3>3. x = f + g + Slot(x)  BY <2>1, <2>2, <3>1
    <3> QED  BY <3>2, <3>3, Zenon
  <2> QED  BY <2>3, <2>6, Zenon
<1>4. PICK a \in Int : i = Size * a + Slot(i)  BY <1>3, Zenon
<1>5. PICK b \in Int : j = Size * b + Slot(j)  BY <1>3
<1>6. a - b \in Int /\ Size * (a - b) = Size * a - Size * b  BY <1>1, <1>4, <1>5
<1>7. Slot(i) \in Int /\ Slot(j) \in Int /\ Slot(i) = Slot(j)  BY SlotType
<1>8. Size * (a - b) = i - j
  <2> DEFINE f == Size * a  g == Size * b
  <2>1. f \in Int /\ g \in Int /\ i = f + Slot(i) /\ j = g + Slot(j) /\ Size * (a - b) = f - g
    BY <1>1, <1>4, <1>5, <1>6
  <2> HIDE DEF f, g
  <2>2. f - g = (f + Slot(i)) - (g + Slot(j))  BY <1>7, <2>1
  <2> QED  BY <2>1, <2>2, Zenon
<1>9. a - b = 0  BY <1>1, <1>6, <1>8, Multiple
<1> QED  BY <1>8, <1>9, <1>1

-----------------------------------------------------------------------------
(* The inductive invariant *)

Node == Item \cup {NULL}

TypeOK ==
  /\ phead \in Nat /\ ptail \in Nat /\ chead \in Nat /\ ctail \in Nat
  /\ nodes \in [0..mask -> Node]
  /\ pc \in [Threads -> Locations]
  /\ kind \in [Threads -> {"multi", "single"}]
  /\ h \in [Threads -> Nat]
  /\ t \in [Threads -> Nat]
  /\ item \in [Threads -> Node]
  /\ log \in Seq(Node)

\* The four cursors never cross, and never span more than the ring can hold.
Cursors ==
  /\ ctail <= chead /\ chead <= ptail /\ ptail <= phead /\ phead <= ctail + mask
  /\ Len(log) = ptail

\* What one side's copies of its head are worth: head is the head the side moves, and a
\* thread that passed the check of line 175 or 294 has seen room below limit.
Copies(side, head, limit) ==
  \A x \in side :
    /\ pc[x] \in {"tail", "cas"} => h[x] <= head /\ head - h[x] < Modulus - mask
    /\ pc[x] = "cas" => h[x] < limit
    /\ pc[x] \in {"tail", "cas"} /\ kind[x] = "single" => h[x] = head

\* The thread-unsafe variants run alone on their side.
Alone(side) ==
  \A x \in side, y \in side :
    x # y /\ pc[x] # "idle" /\ kind[x] = "single" => pc[y] = "idle"

\* The positions between the tail and the head of one side are owned, each by one thread,
\* and only the owner of the lowest position is past the wait for its turn.
Owned(side, head, tail) ==
  /\ \A x \in Owners(side) : tail <= h[x] /\ h[x] < head
  /\ \A x \in Owners(side), y \in Owners(side) : h[x] = h[y] => x = y
  /\ \A i \in tail..(head - 1) : \E x \in Owners(side) : h[x] = i
  /\ \A x \in side : pc[x] \in {"load", "store"} => h[x] = tail
  /\ \A x \in side : pc[x] = "store" => t[x] = tail
  /\ Cardinality(Owners(side)) = head - tail

\* The ring holds what the history says, and so do the threads' own copies.
Content ==
  /\ \A i \in ctail..(ptail - 1) : nodes[Slot(i)] = log[i + 1]
  /\ \A p \in Producers :
       pc[p] \in {"spin", "load", "store"} => nodes[Slot(h[p])] = item[p]
  /\ \A c \in Consumers :
       pc[c] \in {"spin", "load", "store"} => item[c] = log[h[c] + 1]

IInv ==
  /\ TypeOK
  /\ Cursors
  /\ Copies(Producers, phead, ctail + mask) /\ Copies(Consumers, chead, ptail)
  /\ Alone(Producers) /\ Alone(Consumers)
  /\ Owned(Producers, phead, ptail) /\ Owned(Consumers, chead, ctail)
  /\ Content

-----------------------------------------------------------------------------
(* What a step of one thread leaves alone *)

OthersKept(x) ==
  \A y \in Threads \ {x} :
    pc'[y] = pc[y] /\ kind'[y] = kind[y] /\ h'[y] = h[y] /\ t'[y] = t[y] /\ item'[y] = item[y]

\* A step of a consumer, which can only raise the limit the producers checked.
LEMMA ProducersKept ==
  ASSUME IInv, TypeOK', NEW c \in Consumers, OthersKept(c),
         phead' = phead, ptail' = ptail, ctail' >= ctail
  PROVE  /\ Copies(Producers, phead, ctail + mask)'
         /\ Alone(Producers)'
         /\ Owned(Producers, phead, ptail)'
<1>a. /\ Copies(Producers, phead, ctail + mask) /\ Alone(Producers)
      /\ Owned(Producers, phead, ptail)
  BY Zenon DEF IInv
<1>b. ctail \in Nat /\ ctail' \in Nat /\ phead \in Nat
      /\ \A y \in Producers : h[y] \in Nat
  BY Zenon DEF IInv, TypeOK, Threads
<1>1. \A y \in Producers : /\ pc'[y] = pc[y] /\ h'[y] = h[y] /\ t'[y] = t[y]
                           /\ kind'[y] = kind[y]
  BY ThreadsAssumption, Zenon DEF OthersKept, Threads
<1>2. Owners(Producers)' = Owners(Producers) /\ Owners(Producers) \subseteq Producers
  BY <1>1, Zenon DEF Owners
<1>3. Owned(Producers, phead, ptail)'  BY <1>a, <1>1, <1>2 DEF Owned
<1>4. mask \in Nat  BY SizeAssumption DEF mask
<1>5. Copies(Producers, phead, ctail + mask)'
  BY <1>a, <1>b, <1>1, <1>4 DEF Copies
<1>6. Alone(Producers)'  BY <1>a, <1>1, ZenonT(60) DEF Alone
<1> QED  BY <1>3, <1>5, <1>6, Zenon

\* A step of a producer, which can only raise the tail the consumers checked.
LEMMA ConsumersKept ==
  ASSUME IInv, TypeOK', NEW p \in Producers, OthersKept(p),
         chead' = chead, ctail' = ctail, ptail' >= ptail
  PROVE  /\ Copies(Consumers, chead, ptail)'
         /\ Alone(Consumers)'
         /\ Owned(Consumers, chead, ctail)'
<1>a. /\ Copies(Consumers, chead, ptail) /\ Alone(Consumers)
      /\ Owned(Consumers, chead, ctail)
  BY Zenon DEF IInv
<1>b. ptail \in Nat /\ ptail' \in Nat /\ chead \in Nat
      /\ \A y \in Consumers : h[y] \in Nat
  BY Zenon DEF IInv, TypeOK, Threads
<1>1. \A y \in Consumers : /\ pc'[y] = pc[y] /\ h'[y] = h[y] /\ t'[y] = t[y]
                           /\ kind'[y] = kind[y]
  BY ThreadsAssumption, Zenon DEF OthersKept, Threads
<1>2. Owners(Consumers)' = Owners(Consumers) /\ Owners(Consumers) \subseteq Consumers
  BY <1>1 DEF Owners
<1>3. Owned(Consumers, chead, ctail)'  BY <1>a, <1>1, <1>2 DEF Owned
<1>5. Copies(Consumers, chead, ptail)'  BY <1>a, <1>b, <1>1 DEF Copies
<1>6. Alone(Consumers)'  BY <1>a, <1>1, ZenonT(60) DEF Alone
<1> QED  BY <1>3, <1>5, <1>6, Zenon

\* A return resets the locals of the thread that returns.
LEMMA ReturnLocals ==
  ASSUME TypeOK, NEW x \in Threads, Return(x)
  PROVE  /\ pc' \in [Threads -> Locations] /\ kind' \in [Threads -> {"multi", "single"}]
         /\ h' \in [Threads -> Nat] /\ t' \in [Threads -> Nat] /\ item' \in [Threads -> Node]
         /\ pc'[x] = "idle" /\ OthersKept(x)
<1>1. pc' \in [Threads -> Locations] /\ pc'[x] = "idle"
  BY Zenon DEF TypeOK, Return, Goto, Locations
<1>2. kind' \in [Threads -> {"multi", "single"}]  BY Zenon DEF TypeOK, Return
<1>3. h' \in [Threads -> Nat] /\ t' \in [Threads -> Nat]  BY Zenon DEF TypeOK, Return
<1>4. item' \in [Threads -> Node]  BY Zenon DEF TypeOK, Return, Node
<1>5. OthersKept(x)  BY Zenon DEF TypeOK, Return, Goto, OthersKept
<1> QED  BY <1>1, <1>2, <1>3, <1>4, <1>5, Zenon

\* A step of a thread that owns no position before or after it.
LEMMA QuietStep ==
  ASSUME IInv, TypeOK', NEW x \in Threads, OthersKept(x), UNCHANGED shared,
         pc[x] \notin Owning, pc'[x] \notin Owning
  PROVE  /\ Cursors' /\ Content'
         /\ Owned(Producers, phead, ptail)' /\ Owned(Consumers, chead, ctail)'
         /\ x \in Producers => Copies(Consumers, chead, ptail)' /\ Alone(Consumers)'
         /\ x \in Consumers => Copies(Producers, phead, ctail + mask)' /\ Alone(Producers)'
<1>a. TypeOK /\ Cursors /\ Content
  BY Zenon DEF IInv
<1>b. Owned(Producers, phead, ptail) /\ Owned(Consumers, chead, ctail)
  BY Zenon DEF IInv
<1>1. /\ phead' = phead /\ ptail' = ptail /\ chead' = chead /\ ctail' = ctail
      /\ nodes' = nodes /\ log' = log
  BY Zenon DEF shared
<1>2. Cursors'  BY <1>a, <1>1, Zenon DEF Cursors
<1>3. ASSUME NEW y \in Threads, pc[y] \in Owning \/ pc'[y] \in Owning
      PROVE  /\ pc'[y] = pc[y] /\ h'[y] = h[y] /\ t'[y] = t[y] /\ item'[y] = item[y]
             /\ pc[y] \in Owning
  BY <1>3, Zenon DEF OthersKept
<1>4. \A l \in {"data", "spin", "load", "store"} : l \in Owning  BY Zenon DEF Owning
<1>5. Content'
  BY <1>a, <1>1, <1>3, <1>4, ZenonT(60) DEF Content, Threads
<1>6. Owned(Producers, phead, ptail)'
  <2>1. Owners(Producers)' = Owners(Producers)  BY <1>3, Zenon DEF Owners, Threads
  <2>2. \A y \in Owners(Producers) : h'[y] = h[y]  BY <1>3, Zenon DEF Owners, Threads
  <2> QED  BY <1>b, <1>1, <1>3, <1>4, <2>1, <2>2 DEF Owned, Threads
<1>7. Owned(Consumers, chead, ctail)'
  <2>1. Owners(Consumers)' = Owners(Consumers)  BY <1>3, Zenon DEF Owners, Threads
  <2>2. \A y \in Owners(Consumers) : h'[y] = h[y]  BY <1>3, Zenon DEF Owners, Threads
  <2> QED  BY <1>b, <1>1, <1>3, <1>4, <2>1, <2>2 DEF Owned, Threads
<1>c. ctail' >= ctail /\ ptail' >= ptail
  BY <1>a, <1>1 DEF TypeOK
<1>8. x \in Producers => Copies(Consumers, chead, ptail)' /\ Alone(Consumers)'
  BY <1>1, <1>c, ConsumersKept, Zenon
<1>9. x \in Consumers => Copies(Producers, phead, ctail + mask)' /\ Alone(Producers)'
  BY <1>1, <1>c, ProducersKept, Zenon
<1> QED  BY <1>2, <1>5, <1>6, <1>7, <1>8, <1>9, Zenon

\* A step of a thread that owns its position before and after it, and moves no cursor.
LEMMA OwnerStep ==
  ASSUME IInv, TypeOK', NEW x \in Threads, OthersKept(x),
         UNCHANGED <<phead, ptail, chead, ctail, log>>, h'[x] = h[x], kind'[x] = kind[x],
         pc[x] \in Owning, pc'[x] \in Owning,
         x \in Producers => /\ pc'[x] \in {"load", "store"} => h[x] = ptail
                            /\ pc'[x] = "store" => t'[x] = ptail,
         x \in Consumers => /\ pc'[x] \in {"load", "store"} => h[x] = ctail
                            /\ pc'[x] = "store" => t'[x] = ctail
  PROVE  /\ Cursors'
         /\ Copies(Producers, phead, ctail + mask)' /\ Copies(Consumers, chead, ptail)'
         /\ Alone(Producers)' /\ Alone(Consumers)'
         /\ Owned(Producers, phead, ptail)' /\ Owned(Consumers, chead, ctail)'
<1>a. TypeOK /\ Cursors /\ Content
  BY Zenon DEF IInv
<1>b. Owned(Producers, phead, ptail) /\ Owned(Consumers, chead, ctail)
  BY Zenon DEF IInv
<1>c. /\ Copies(Producers, phead, ctail + mask) /\ Copies(Consumers, chead, ptail)
      /\ Alone(Producers) /\ Alone(Consumers)
  BY Zenon DEF IInv
<1>1. phead' = phead /\ ptail' = ptail /\ chead' = chead /\ ctail' = ctail /\ log' = log
  OBVIOUS
<1>2. Cursors'  BY <1>a, <1>1, Zenon DEF Cursors
<1>3. /\ pc[x] \notin {"idle", "tail", "cas"} /\ pc'[x] \notin {"idle", "tail", "cas"}
  BY Zenon DEF Owning
<1>4. ASSUME NEW y \in Threads
      PROVE  /\ h'[y] = h[y] /\ kind'[y] = kind[y]
             /\ y # x => pc'[y] = pc[y] /\ t'[y] = t[y]
             /\ (pc'[y] = "idle") = (pc[y] = "idle")
             /\ (pc'[y] \in Owning) = (pc[y] \in Owning)
             /\ pc'[y] \in {"tail", "cas"} => pc'[y] = pc[y]
  BY <1>3 DEF OthersKept
<1>5. Copies(Producers, phead, ctail + mask)'
  BY <1>c, <1>1, <1>4, Zenon DEF Copies, Threads
<1>6. Copies(Consumers, chead, ptail)'
  BY <1>c, <1>1, <1>4, Zenon DEF Copies, Threads
<1>7. Alone(Producers)' /\ Alone(Consumers)'
  BY <1>c, <1>4 DEF Alone, Threads
<1>8. /\ Owners(Producers)' = Owners(Producers) /\ Owners(Producers) \subseteq Producers
      /\ Owners(Consumers)' = Owners(Consumers) /\ Owners(Consumers) \subseteq Consumers
  BY <1>4, Zenon DEF Owners, Threads
<1>9. Owned(Producers, phead, ptail)'
  <2>1. ASSUME NEW y \in Producers, pc'[y] \in {"load", "store"}
        PROVE  h'[y] = ptail /\ (pc'[y] = "store" => t'[y] = ptail)
    <3>1. CASE y = x  BY <1>4, <2>1, <3>1, Zenon
    <3>2. CASE y # x  BY <1>b, <1>4, <2>1, <3>2, ZenonT(60) DEF Owned, Threads
    <3> QED  BY <3>1, <3>2, Zenon
  <2>2. \A y \in Owners(Producers) : h'[y] = h[y]  BY <1>4, <1>8, Zenon DEF Threads
  <2> QED  BY <1>b, <1>1, <1>8, <2>1, <2>2 DEF Owned
<1>10. Owned(Consumers, chead, ctail)'
  <2>1. ASSUME NEW y \in Consumers, pc'[y] \in {"load", "store"}
        PROVE  h'[y] = ctail /\ (pc'[y] = "store" => t'[y] = ctail)
    <3>1. CASE y = x  BY <1>4, <2>1, <3>1, Zenon
    <3>2. CASE y # x  BY <1>b, <1>4, <2>1, <3>2, ZenonT(60) DEF Owned, Threads
    <3> QED  BY <3>1, <3>2, Zenon
  <2>2. \A y \in Owners(Consumers) : h'[y] = h[y]  BY <1>4, <1>8, Zenon DEF Threads
  <2> QED  BY <1>b, <1>1, <1>8, <2>1, <2>2 DEF Owned
<1> QED  BY <1>2, <1>5, <1>6, <1>7, <1>9, <1>10, Zenon

-----------------------------------------------------------------------------
(* The producers' steps *)

\* An enqueue is called.
LEMMA CallEnqueueStep ==
  ASSUME IInv, NEW p \in Producers, CallEnqueue(p)
  PROVE  IInv'
<1> USE DEF IInv
<1>1. p \in Threads  BY Zenon DEF Threads
<1>2. TypeOK'
  BY <1>1, ZenonT(60) DEF TypeOK, CallEnqueue, Goto, shared, Locations, Node
<1>3. PICK k \in {"multi", "single"} :
        MayRun(p, k, Producers) /\ kind' = [kind EXCEPT ![p] = k]
  BY Zenon DEF CallEnqueue
<1>4. /\ OthersKept(p) /\ UNCHANGED shared /\ phead' = phead /\ ctail' = ctail
      /\ pc[p] = "idle" /\ pc'[p] = "head" /\ kind'[p] = k
  BY <1>1, <1>3, Zenon DEF CallEnqueue, OthersKept, Goto, TypeOK, shared
<1>5. Copies(Producers, phead, ctail + mask)'
  BY <1>4, Zenon DEF Copies, OthersKept, Threads
<1>6. Alone(Producers)'
  BY <1>3, <1>4, ZenonT(60) DEF Alone, MayRun, OthersKept, Threads
<1> QED  BY <1>1, <1>2, <1>4, <1>5, <1>6, QuietStep, Zenon DEF Owning

\* The producer copies its head.
LEMMA ReadProducerHeadStep ==
  ASSUME IInv, NEW p \in Producers, ReadProducerHead(p)
  PROVE  IInv'
<1> USE DEF IInv
<1>1. p \in Threads  BY DEF Threads
<1>2. TypeOK'
  BY <1>1, Zenon DEF TypeOK, ReadProducerHead, Goto, shared, Locations
<1>3. /\ OthersKept(p) /\ UNCHANGED shared /\ phead' = phead /\ ctail' = ctail
      /\ pc[p] = "head" /\ pc'[p] = "tail" /\ kind'[p] = kind[p] /\ h'[p] = phead
  BY <1>1, Zenon DEF ReadProducerHead, OthersKept, Goto, TypeOK, shared
<1>4. phead - phead < Modulus - mask /\ phead <= phead
  BY SizeAssumption DEF mask, TypeOK
<1>5. Copies(Producers, phead, ctail + mask)'
  BY <1>3, <1>4, Zenon DEF Copies, OthersKept, Threads
<1>6. Alone(Producers)'
  BY <1>3 DEF Alone, OthersKept, Threads
<1> QED  BY <1>1, <1>2, <1>3, <1>5, <1>6, QuietStep, Zenon DEF Owning

\* The 32-bit count of free slots is zero just when the copy of the head is a full ring
\* ahead of the consumers' tail, however old the copy is.
LEMMA FreeSlotsExact ==
  ASSUME IInv, NEW p \in Producers, pc[p] = "tail"
  PROVE  /\ h[p] \in Nat /\ h[p] <= phead /\ phead <= ctail + mask
         /\ FreeSlots(h[p], ctail) < 1 <=> h[p] = ctail + mask
<1>1. /\ mask \in Nat /\ ctail \in Nat /\ phead \in Nat /\ h[p] \in Nat /\ Modulus \in Nat
      /\ h[p] <= phead /\ phead - h[p] < Modulus - mask
      /\ phead <= ctail + mask /\ ctail <= phead
  BY SizeAssumption DEF IInv, TypeOK, Cursors, Copies, Threads, mask
<1>2. mask + ctail - h[p] >= 0 /\ mask + ctail - h[p] < Modulus  BY <1>1
<1>3. FreeSlots(h[p], ctail) < 1 <=> h[p] = mask + ctail
  BY <1>1, <1>2, WordDifference, Zenon DEF FreeSlots
<1> QED  BY <1>1, <1>3

\* The producer reads the tail of the consumers and checks for room.
LEMMA ReadConsumerTailStep ==
  ASSUME IInv, NEW p \in Producers, ReadConsumerTail(p)
  PROVE  IInv'
<1> USE DEF IInv
<1>1. p \in Threads  BY DEF Threads
<1>2. TypeOK'
  <2>1. CASE FreeSlots(h[p], ctail) < 1
    BY <1>1, <2>1, ReturnLocals, SMTT(60) DEF TypeOK, ReadConsumerTail, shared
  <2>2. CASE ~(FreeSlots(h[p], ctail) < 1)
    BY <1>1, <2>2, Zenon DEF TypeOK, ReadConsumerTail, Goto, shared, Locations
  <2> QED  BY <2>1, <2>2, Zenon
<1>3. /\ OthersKept(p) /\ UNCHANGED shared /\ phead' = phead /\ ctail' = ctail
      /\ pc[p] = "tail"
      /\ \/ FreeSlots(h[p], ctail) < 1 /\ pc'[p] = "idle"
         \/ ~(FreeSlots(h[p], ctail) < 1) /\ pc'[p] = "cas" /\ h'[p] = h[p] /\ kind'[p] = kind[p]
  BY <1>1 DEF ReadConsumerTail, Return, OthersKept, Goto, TypeOK, shared
<1>4. pc'[p] = "cas" => h[p] < ctail + mask
  <2>1. mask \in Nat /\ ctail \in Nat /\ phead \in Nat  BY SizeAssumption DEF mask, TypeOK
  <2>2. h[p] # ctail + mask => h[p] < ctail + mask  BY <1>3, <2>1, FreeSlotsExact
  <2> QED  BY <1>3, <2>2, FreeSlotsExact, Zenon
<1>5. Copies(Producers, phead, ctail + mask)'
  BY <1>3, <1>4, Zenon DEF Copies, OthersKept, Threads
<1>6. Alone(Producers)'
  BY <1>3, ZenonT(60) DEF Alone, OthersKept, Threads
<1> QED  BY <1>1, <1>2, <1>3, <1>5, <1>6, QuietStep, Zenon DEF Owning

\* The head is moved to the next position, which the thread then owns.
LEMMA MoveProducerHeadStep ==
  ASSUME IInv, NEW p \in Producers, MoveProducerHead(p)
  PROVE  IInv'
<1>a. TypeOK  BY Zenon DEF IInv
<1>b. Cursors  BY Zenon DEF IInv
<1>c. Copies(Producers, phead, ctail + mask) /\ Alone(Producers)  BY Zenon DEF IInv
<1>d. Owned(Producers, phead, ptail)  BY Zenon DEF IInv
<1>e. Content  BY Zenon DEF IInv
<1>1. p \in Threads /\ mask \in Nat /\ Modulus \in Nat /\ mask < Modulus
  BY SizeAssumption DEF Threads, mask
<1>2. /\ h[p] \in Nat /\ phead \in Nat /\ ptail \in Nat /\ ctail \in Nat /\ pc[p] = "cas"
      /\ h[p] <= phead /\ phead - h[p] < Modulus - mask /\ h[p] < ctail + mask
      /\ kind[p] = "single" => h[p] = phead
  BY <1>a, <1>c, <1>1, Zenon DEF TypeOK, Copies, MoveProducerHead
<1>3. /\ ptail' = ptail /\ chead' = chead /\ ctail' = ctail /\ nodes' = nodes /\ log' = log
      /\ kind' = kind /\ h' = h /\ t' = t /\ item' = item
  BY Zenon DEF MoveProducerHead
<1>4. CASE kind[p] = "single" \/ Word(phead) = Word(h[p])
  <2>1. h[p] = phead
    BY <1>1, <1>2, <1>4, WordEqual
  <2>2. /\ phead' = phead + 1 /\ Fresh(phead', Producers \ {p})
        /\ pc' = [pc EXCEPT ![p] = "data"]
    BY <1>4, <2>1, Zenon DEF MoveProducerHead, Goto
  <2>3. TypeOK'
    BY <1>a, <1>1, <1>2, <1>3, <2>2, SMTT(60) DEF TypeOK, Locations
  <2>4. OthersKept(p) /\ pc'[p] = "data"
    BY <1>a, <1>1, <1>3, <2>2, Zenon DEF OthersKept, TypeOK
  <2>5. Cursors'
    BY <1>a, <1>b, <1>1, <1>2, <1>3, <2>1, <2>2 DEF Cursors, TypeOK
  <2>6. Copies(Producers, phead, ctail + mask)'
    <3> SUFFICES ASSUME NEW x \in Producers, pc'[x] \in {"tail", "cas"}
                 PROVE  /\ h'[x] <= phead' /\ phead' - h'[x] < Modulus - mask
                        /\ pc'[x] = "cas" => h'[x] < ctail' + mask
                        /\ kind'[x] = "single" => h'[x] = phead'
      BY Zenon DEF Copies
    <3>1. x # p /\ pc[x] = pc'[x] /\ h[x] \in Nat
      BY <1>a, <2>4, Zenon DEF OthersKept, Threads, TypeOK
    <3>2. h[x] <= phead /\ (pc[x] = "cas" => h[x] < ctail + mask)
      BY <1>c, <3>1, Zenon DEF Copies
    <3>3. phead + 1 - h[x] < Modulus - mask
      BY <1>1, <1>2, <1>3, <2>2, <3>1 DEF Fresh
    <3>4. kind[x] # "single"
      BY <1>c, <1>2, <3>1, Zenon DEF Alone
    <3> QED  BY <1>2, <1>3, <2>2, <3>1, <3>2, <3>3, <3>4
  <2>7. Alone(Producers)'
    BY <1>c, <1>2, <1>3, <2>4, ZenonT(60) DEF Alone, OthersKept, Threads
  <2>8. Owners(Producers)' = Owners(Producers) \cup {p} /\ p \notin Owners(Producers)
    BY <1>2, <2>4, Zenon DEF Owners, Owning, OthersKept, Threads
  <2>9. Owned(Producers, phead, ptail)'
    <3>0. \A x \in Owners(Producers) : h[x] \in Nat /\ ptail <= h[x] /\ h[x] < phead
      BY <1>a, <1>d, Zenon DEF Owned, Owners, TypeOK, Threads
    <3>1. \A x \in Owners(Producers)' : ptail <= h[x] /\ h[x] < phead + 1
      <4>1. ptail <= phead  BY <1>b, Zenon DEF Cursors
      <4>2. \A x \in Owners(Producers) : h[x] < phead + 1  BY <1>2, <3>0
      <4> QED  BY <1>2, <2>1, <2>8, <3>0, <4>1, <4>2
    <3>2. \A x \in Owners(Producers)', y \in Owners(Producers)' : h[x] = h[y] => x = y
      <4>1. \A x \in Owners(Producers) : h[x] # phead  BY <1>2, <3>0
      <4>2. \A x \in Owners(Producers), y \in Owners(Producers) : h[x] = h[y] => x = y
        BY <1>d, Zenon DEF Owned
      <4> QED  BY <2>1, <2>8, <4>1, <4>2, Zenon
    <3>3. \A i \in ptail..phead : \E x \in Owners(Producers)' : h[x] = i
      <4>1. \A i \in ptail..phead : i \in ptail..(phead - 1) \/ i = phead  BY <1>2
      <4> QED  BY <1>d, <2>1, <2>8, <4>1, Zenon DEF Owned
    <3>4. Cardinality(Owners(Producers)') = phead + 1 - ptail
      <4>1. IsFiniteSet(Owners(Producers))
        BY ThreadsAssumption, FS_Subset, Zenon DEF Owners
      <4>2. Cardinality(Owners(Producers)') = Cardinality(Owners(Producers)) + 1
        BY <2>8, <4>1, FS_AddElement, Zenon
      <4> QED  BY <1>d, <1>2, <4>2 DEF Owned
    <3>5. \A x \in Producers : pc'[x] \in {"load", "store"} => pc[x] = pc'[x]
      BY <2>4, Zenon DEF OthersKept, Threads
    <3>6. ptail' = ptail /\ phead' = phead + 1  BY <1>3, <2>2, Zenon
    <3>7. \A x : h'[x] = h[x] /\ t'[x] = t[x]  BY <1>3, Zenon
    <3>8. \A x \in Producers : /\ pc'[x] \in {"load", "store"} => h[x] = ptail
                               /\ pc'[x] = "store" => t[x] = ptail
      BY <1>d, <3>5, Zenon DEF Owned
    <3>9. \A i \in ptail'..(phead' - 1) : \E x \in Owners(Producers)' : h'[x] = i
      <4>1. phead' - 1 = phead  BY <1>2, <3>6
      <4> QED  BY <3>3, <3>6, <3>7, <4>1, Zenon
    <3>10. Cardinality(Owners(Producers)') = phead' - ptail'  BY <1>2, <3>4, <3>6
    <3>11. /\ \A x \in Owners(Producers)' : ptail' <= h'[x] /\ h'[x] < phead'
           /\ \A x \in Owners(Producers)', y \in Owners(Producers)' : h'[x] = h'[y] => x = y
      BY <3>1, <3>2, <3>6, <3>7, Zenon
    <3>12. /\ \A x \in Producers : pc'[x] \in {"load", "store"} => h'[x] = ptail'
           /\ \A x \in Producers : pc'[x] = "store" => t'[x] = ptail'
      BY <3>6, <3>8, <3>7, Zenon
    <3> QED  BY <3>9, <3>10, <3>11, <3>12, Zenon DEF Owned
  <2>10. Copies(Consumers, chead, ptail)' /\ Alone(Consumers)' /\ Owned(Consumers, chead, ctail)'
    BY <1>2, <1>3, <2>3, <2>4, ConsumersKept
  <2>11. Content'
    BY <1>e, <1>3, <2>4, Zenon DEF Content, OthersKept, Threads
  <2> QED  BY <2>3, <2>5, <2>6, <2>7, <2>9, <2>10, <2>11, Zenon DEF IInv
<1>5. CASE ~(kind[p] = "single" \/ Word(phead) = Word(h[p]))
  <2>1. phead' = phead /\ pc' = [pc EXCEPT ![p] = "head"]
    BY <1>5, Zenon DEF MoveProducerHead, Goto
  <2>2. TypeOK' /\ OthersKept(p) /\ UNCHANGED shared /\ pc'[p] = "head"
    BY <1>a, <1>1, <1>3, <2>1, Zenon DEF TypeOK, Locations, OthersKept, shared
  <2>3. Copies(Producers, phead, ctail + mask)'
    BY <1>c, <1>3, <2>1, <2>2, Zenon DEF Copies, OthersKept, Threads
  <2>4. Alone(Producers)'
    BY <1>c, <1>2, <1>3, <2>2, ZenonT(60) DEF Alone, OthersKept, Threads
  <2> QED  BY <1>1, <1>2, <2>2, <2>3, <2>4, QuietStep, Zenon DEF Owning, IInv
<1> QED  BY <1>4, <1>5, Zenon

\* The node is written to a slot that no published item and no other owner uses.
LEMMA WriteNodeStep ==
  ASSUME IInv, NEW p \in Producers, WriteNode(p)
  PROVE  IInv'
<1> USE DEF IInv
<1>1. p \in Threads /\ p \notin Consumers /\ mask \in Nat /\ Size = mask + 1
  BY SizeAssumption, ThreadsAssumption DEF Threads, mask
<1>2. /\ UNCHANGED <<phead, ptail, chead, ctail, log>> /\ kind' = kind /\ h' = h /\ item' = item
      /\ nodes' = [nodes EXCEPT ![Slot(h[p])] = item[p]] /\ pc[p] = "data"
      /\ \/ kind[p] = "single" /\ t' = [t EXCEPT ![p] = h[p]] /\ pc' = [pc EXCEPT ![p] = "store"]
         \/ kind[p] # "single" /\ t' = t /\ pc' = [pc EXCEPT ![p] = "spin"]
  BY Zenon DEF WriteNode, Goto
<1>3. p \in Owners(Producers)  BY <1>2, Zenon DEF Owners, Owning
<1>4. /\ h[p] \in Nat /\ ptail \in Nat /\ phead \in Nat /\ ctail \in Nat
      /\ ptail <= h[p] /\ h[p] < phead /\ phead <= ctail + mask /\ ctail <= ptail
  BY <1>1, <1>3 DEF TypeOK, Owned, Cursors
<1>5. kind[p] = "single" => h[p] = ptail
  <2>1. ptail \in ptail..(phead - 1)  BY <1>4
  <2>2. PICK x \in Owners(Producers) : h[x] = ptail  BY <2>1, Zenon DEF Owned
  <2> QED  BY <1>2, <2>2, Zenon DEF Alone, Owners, Owning
<1>6. TypeOK'
  <2>1. Slot(h[p]) \in 0..mask  BY <1>4, SlotType, Zenon
  <2>2. nodes' \in [0..mask -> Node]  BY <1>1, <1>2, <2>1, Zenon DEF TypeOK
  <2>3. pc' \in [Threads -> Locations] /\ t' \in [Threads -> Nat]
    BY <1>1, <1>2, <1>4, Zenon DEF TypeOK, Locations
  <2> QED  BY <1>2, <2>2, <2>3, SMTT(60) DEF TypeOK
<1>7. /\ OthersKept(p) /\ pc'[p] \in {"store", "spin"}
      /\ pc'[p] = "store" => kind[p] = "single" /\ t'[p] = h[p]
  BY <1>1, <1>2, Zenon DEF OthersKept, TypeOK
<1>8. Content'
  <2>1. ASSUME NEW i \in Nat, i # h[p], i - h[p] < Size, h[p] - i < Size
        PROVE  nodes'[Slot(i)] = nodes[Slot(i)]
    <3>1. Slot(i) # Slot(h[p])  BY <1>4, <2>1, SlotsDiffer, Zenon
    <3>2. Slot(i) \in 0..mask  BY SlotType, Zenon
    <3> QED  BY <1>2, <3>1, <3>2, Zenon DEF TypeOK
  <2>2. ASSUME NEW i \in ctail..(ptail - 1)
        PROVE  nodes'[Slot(i)] = log[i + 1]
    <3>1. i \in Nat /\ i # h[p] /\ i - h[p] < Size /\ h[p] - i < Size
      BY <1>1, <1>4
    <3> QED  BY <2>1, <3>1, Zenon DEF Content
  <2>3. ASSUME NEW q \in Producers, pc'[q] \in {"spin", "load", "store"}
        PROVE  nodes'[Slot(h[q])] = item[q]
    <3>1. CASE q = p
      <4>1. Slot(h[p]) \in 0..mask  BY <1>4, SlotType, Zenon
      <4> QED  BY <1>2, <3>1, <4>1, Zenon DEF TypeOK
    <3>2. CASE q # p
      <4>1. pc[q] = pc'[q] /\ h[q] \in Nat  BY <1>7, <3>2, Zenon DEF OthersKept, Threads, TypeOK
      <4>2. q \in Owners(Producers)  BY <2>3, <4>1, Zenon DEF Owners, Owning
      <4>3. h[q] # h[p] /\ ptail <= h[q] /\ h[q] < phead  BY <1>3, <3>2, <4>2, Zenon DEF Owned
      <4>4. h[q] - h[p] < Size /\ h[p] - h[q] < Size  BY <1>1, <1>4, <4>1, <4>3
      <4>5. nodes[Slot(h[q])] = item[q]  BY <2>3, <4>1, Zenon DEF Content
      <4> QED  BY <2>1, <4>1, <4>3, <4>4, <4>5, Zenon
    <3> QED  BY <3>1, <3>2, Zenon
  <2>4. ASSUME NEW c \in Consumers, pc'[c] \in {"spin", "load", "store"}
        PROVE  item[c] = log[h[c] + 1]
    BY <1>1, <1>7, <2>4, Zenon DEF Content, OthersKept, Threads
  <2> QED  BY <1>2, <2>2, <2>3, <2>4, ZenonT(60) DEF Content
<1> QED  BY <1>1, <1>2, <1>5, <1>6, <1>7, <1>8, OwnerStep, Zenon DEF Owning

\* The producer waits for its turn.
LEMMA AwaitProducerTailStep ==
  ASSUME IInv, NEW p \in Producers, AwaitProducerTail(p)
  PROVE  IInv'
<1> USE DEF IInv
<1>1. p \in Threads /\ p \notin Consumers /\ mask \in Nat /\ Modulus \in Nat /\ mask < Modulus
  BY SizeAssumption, ThreadsAssumption DEF Threads, mask
<1>2. /\ UNCHANGED shared /\ kind' = kind /\ h' = h /\ t' = t /\ item' = item
      /\ pc[p] = "spin" /\ pc' = [pc EXCEPT ![p] = "load"] /\ Word(ptail) = Word(h[p])
  BY Zenon DEF AwaitProducerTail, Goto
<1>3. h[p] = ptail
  <2>1. p \in Owners(Producers)  BY <1>2, Zenon DEF Owners, Owning
  <2>2. /\ h[p] \in Nat /\ ptail \in Nat /\ phead \in Nat /\ ctail \in Nat
        /\ ptail <= h[p] /\ h[p] < phead /\ phead <= ctail + mask /\ ctail <= ptail
    BY <1>1, <2>1 DEF TypeOK, Owned, Cursors
  <2> QED  BY <1>1, <1>2, <2>2, WordEqual
<1>4. TypeOK' /\ OthersKept(p) /\ pc'[p] = "load"
  BY <1>1, <1>2, Zenon DEF TypeOK, Locations, OthersKept, shared
<1>5. Content'
  BY <1>1, <1>2, <1>4, Zenon DEF Content, OthersKept, Threads, shared
<1> QED  BY <1>1, <1>2, <1>3, <1>4, <1>5, OwnerStep, Zenon DEF Owning, shared

\* The producer loads the tail.
LEMMA LoadProducerTailStep ==
  ASSUME IInv, NEW p \in Producers, LoadProducerTail(p)
  PROVE  IInv'
<1> USE DEF IInv
<1>1. p \in Threads /\ p \notin Consumers  BY ThreadsAssumption, Zenon DEF Threads
<1>2. /\ UNCHANGED shared /\ kind' = kind /\ h' = h /\ item' = item
      /\ pc[p] = "load" /\ pc' = [pc EXCEPT ![p] = "store"] /\ t' = [t EXCEPT ![p] = ptail]
  BY Zenon DEF LoadProducerTail, Goto
<1>3. h[p] = ptail  BY <1>2, Zenon DEF Owned
<1>4. TypeOK' /\ OthersKept(p) /\ pc'[p] = "store" /\ t'[p] = ptail
  BY <1>1, <1>2, Zenon DEF TypeOK, Locations, OthersKept, shared
<1>5. Content'
  BY <1>1, <1>2, <1>4, Zenon DEF Content, OthersKept, Threads, shared
<1> QED  BY <1>1, <1>2, <1>3, <1>4, <1>5, OwnerStep, Zenon DEF Owning, shared

\* The lowest owned position is published, and the next one becomes the lowest.
LEMMA StoreProducerTailStep ==
  ASSUME IInv, NEW p \in Producers, StoreProducerTail(p)
  PROVE  IInv'
<1>a. TypeOK  BY DEF IInv
<1>b. Cursors  BY DEF IInv
<1>c. Copies(Producers, phead, ctail + mask) /\ Alone(Producers)  BY DEF IInv
<1>d. Owned(Producers, phead, ptail)  BY DEF IInv
<1>e. Content  BY DEF IInv
<1>1. p \in Threads /\ p \notin Consumers /\ mask \in Nat
  BY SizeAssumption, ThreadsAssumption DEF Threads, mask
<1>2. /\ phead' = phead /\ chead' = chead /\ ctail' = ctail /\ nodes' = nodes
      /\ log' = Append(log, item[p]) /\ ptail' = t[p] + 1 /\ pc[p] = "store" /\ Return(p)
  BY Zenon DEF StoreProducerTail
<1>3. p \in Owners(Producers)  BY <1>2, Zenon DEF Owners, Owning
<1>4. /\ h[p] = ptail /\ t[p] = ptail /\ ptail \in Nat /\ phead \in Nat /\ ctail \in Nat
      /\ ptail < phead /\ chead \in Nat
  BY <1>a, <1>d, <1>2, <1>3 DEF TypeOK, Owned
<1>5. ptail' = ptail + 1  BY <1>2, <1>4, Zenon
<1>6. OthersKept(p) /\ pc'[p] = "idle"  BY <1>a, <1>1, <1>2, ReturnLocals, Zenon
<1>7. TypeOK'
  <2>1. log' \in Seq(Node)  BY <1>a, <1>1, <1>2 DEF TypeOK
  <2> QED  BY <1>a, <1>1, <1>2, <1>4, <1>5, <2>1, ReturnLocals DEF TypeOK
<1>8. Cursors'
  <2>1. Len(log') = Len(log) + 1  BY <1>a, <1>1, <1>2 DEF TypeOK
  <2> QED  BY <1>b, <1>1, <1>2, <1>4, <1>5, <2>1 DEF Cursors
<1>9. Copies(Producers, phead, ctail + mask)'
  BY <1>c, <1>2, <1>6, Zenon DEF Copies, OthersKept, Threads
<1>10. Alone(Producers)'
  <2> SUFFICES ASSUME NEW x \in Producers, NEW y \in Producers, x # y, pc'[x] # "idle",
                      kind'[x] = "single"
               PROVE  pc'[y] = "idle"
    BY Zenon DEF Alone
  <2>1. pc'[x] = pc[x] /\ kind'[x] = kind[x]  BY <1>6, Zenon DEF OthersKept, Threads
  <2>2. pc[y] = "idle"  BY <1>c, <2>1, Zenon DEF Alone
  <2>3. y = p \/ pc'[y] = pc[y]  BY <1>6, Zenon DEF OthersKept, Threads
  <2> QED  BY <1>6, <2>2, <2>3, Zenon
<1>11. Owned(Producers, phead, ptail)'
  <2>1. Owners(Producers)' = Owners(Producers) \ {p}
    BY <1>6, Zenon DEF Owners, Owning, OthersKept, Threads
  <2>2. \A x \in Owners(Producers)' : x # p /\ x \in Owners(Producers) /\ h'[x] = h[x] /\ h[x] \in Nat
    BY <1>a, <1>6, <2>1, Zenon DEF OthersKept, Owners, Threads, TypeOK
  <2>3. ASSUME NEW x \in Owners(Producers)'
        PROVE  ptail + 1 <= h'[x] /\ h'[x] < phead
    <3>1. h[x] # ptail /\ ptail <= h[x] /\ h[x] < phead  BY <1>d, <1>3, <1>4, <2>2, Zenon DEF Owned
    <3> QED  BY <1>4, <2>2, <3>1
  <2>4. \A x \in Owners(Producers)', y \in Owners(Producers)' : h'[x] = h'[y] => x = y
    BY <1>d, <2>2, Zenon DEF Owned
  <2>5. ASSUME NEW i \in (ptail + 1)..(phead - 1)
        PROVE  \E x \in Owners(Producers)' : h'[x] = i
    <3>1. i \in ptail..(phead - 1) /\ i # ptail  BY <1>4
    <3>2. PICK x \in Owners(Producers) : h[x] = i  BY <1>d, <3>1, Zenon DEF Owned
    <3>3. x # p  BY <1>4, <3>1, <3>2, Zenon
    <3> QED  BY <2>1, <2>2, <3>2, <3>3, Zenon
  <2>6. Cardinality(Owners(Producers)') = phead - (ptail + 1)
    <3>1. IsFiniteSet(Owners(Producers))
      BY ThreadsAssumption, FS_Subset DEF Owners
    <3>2. Cardinality(Owners(Producers) \ {p}) = Cardinality(Owners(Producers)) - 1
      BY <1>3, <3>1, FS_RemoveElement, Zenon
    <3> QED  BY <1>d, <1>4, <2>1, <3>2 DEF Owned
  <2>7. ASSUME NEW x \in Producers, pc'[x] \in {"load", "store"}
        PROVE  FALSE
    <3>1. x # p /\ pc[x] = pc'[x]  BY <1>6, <2>7, Zenon DEF OthersKept, Threads
    <3>2. x \in Owners(Producers) /\ h[x] = ptail  BY <1>d, <2>7, <3>1, Zenon DEF Owners, Owning, Owned
    <3> QED  BY <1>d, <1>3, <1>4, <3>1, <3>2, Zenon DEF Owned
  <2> QED  BY <1>2, <1>5, <2>3, <2>4, <2>5, <2>6, <2>7 DEF Owned
<1>12. Copies(Consumers, chead, ptail)' /\ Alone(Consumers)' /\ Owned(Consumers, chead, ctail)'
  <2>1. ptail' >= ptail  BY <1>4, <1>5
  <2> QED  BY <1>2, <1>6, <1>7, <2>1, ConsumersKept, Zenon
<1>13. Content'
  <2>1. /\ \A i \in 1..ptail : log'[i] = log[i]
        /\ log'[ptail + 1] = item[p]
    BY <1>a, <1>b, <1>1, <1>2, <1>4 DEF Cursors, TypeOK
  <2>2. ASSUME NEW i \in ctail..(ptail' - 1)
        PROVE  nodes[Slot(i)] = log'[i + 1]
    <3>1. CASE i = ptail
      BY <1>e, <1>2, <1>4, <2>1, <3>1, Zenon DEF Content
    <3>2. CASE i # ptail
      <4>1. i \in ctail..(ptail - 1) /\ i + 1 \in 1..ptail  BY <1>4, <1>5, <3>2
      <4> QED  BY <1>e, <2>1, <4>1, Zenon DEF Content
    <3> QED  BY <3>1, <3>2, Zenon
  <2>3. ASSUME NEW q \in Producers, pc'[q] \in {"spin", "load", "store"}
        PROVE  nodes[Slot(h'[q])] = item'[q]
    BY <1>e, <1>6, <2>3, Zenon DEF Content, OthersKept, Threads
  <2>4. ASSUME NEW c \in Consumers, pc'[c] \in {"spin", "load", "store"}
        PROVE  item'[c] = log'[h'[c] + 1]
    <3>1. pc[c] = pc'[c] /\ h'[c] = h[c] /\ item'[c] = item[c] /\ h[c] \in Nat
      BY <1>a, <1>1, <1>6, Zenon DEF OthersKept, Threads, TypeOK
    <3>2. h[c] < chead /\ chead <= ptail
      <4>1. Owned(Consumers, chead, ctail)  BY Zenon DEF IInv
      <4>2. c \in Owners(Consumers)  BY <2>4, <3>1, Zenon DEF Owners, Owning
      <4> QED  BY <1>b, <4>1, <4>2, Zenon DEF Owned, Cursors
    <3>3. h[c] + 1 \in 1..ptail  BY <1>4, <3>1, <3>2
    <3> QED  BY <1>e, <2>1, <2>4, <3>1, <3>3, Zenon DEF Content
  <2> QED  BY <1>2, <2>2, <2>3, <2>4, Zenon DEF Content
<1> QED  BY <1>7, <1>8, <1>9, <1>10, <1>11, <1>12, <1>13 DEF IInv

----------------------------------------------------------------------------

----------------------------------------------------------------------------
(* The consumers' steps keep the inductive invariant.                      *)

\* A dequeue is called.
LEMMA CallDequeueStep ==
  ASSUME IInv, NEW c \in Consumers, CallDequeue(c)
  PROVE  IInv'
<1> USE DEF IInv
<1>1. c \in Threads  BY Zenon DEF Threads
<1>2. TypeOK'
  BY <1>1, Zenon DEF TypeOK, CallDequeue, Goto, shared, Locations, Node
<1>3. PICK k \in {"multi", "single"} :
        MayRun(c, k, Consumers) /\ kind' = [kind EXCEPT ![c] = k]
  BY Zenon DEF CallDequeue
<1>4. /\ OthersKept(c) /\ UNCHANGED shared /\ chead' = chead /\ ptail' = ptail
      /\ pc[c] = "idle" /\ pc'[c] = "head" /\ kind'[c] = k
  BY <1>1, <1>3, Zenon DEF CallDequeue, OthersKept, Goto, TypeOK, shared
<1>5. Copies(Consumers, chead, ptail)'
  BY <1>4, Zenon DEF Copies, OthersKept, Threads
<1>6. Alone(Consumers)'
  BY <1>3, <1>4, ZenonT(60) DEF Alone, MayRun, OthersKept, Threads
<1> QED  BY <1>1, <1>2, <1>4, <1>5, <1>6, QuietStep, Zenon DEF Owning

\* The consumer copies its head.
LEMMA ReadConsumerHeadStep ==
  ASSUME IInv, NEW c \in Consumers, ReadConsumerHead(c)
  PROVE  IInv'
<1> USE DEF IInv
<1>1. c \in Threads  BY DEF Threads
<1>2. TypeOK'
  BY <1>1, Zenon DEF TypeOK, ReadConsumerHead, Goto, shared, Locations
<1>3. /\ OthersKept(c) /\ UNCHANGED shared /\ chead' = chead /\ ptail' = ptail
      /\ pc[c] = "head" /\ pc'[c] = "tail" /\ kind'[c] = kind[c] /\ h'[c] = chead
  BY <1>1, Zenon DEF ReadConsumerHead, OthersKept, Goto, TypeOK, shared
<1>4. chead - chead < Modulus - mask /\ chead <= chead
  BY SizeAssumption DEF mask, TypeOK
<1>5. Copies(Consumers, chead, ptail)'
  BY <1>3, <1>4, Zenon DEF Copies, OthersKept, Threads
<1>6. Alone(Consumers)'
  BY <1>3, ZenonT(60) DEF Alone, OthersKept, Threads
<1> QED  BY <1>1, <1>2, <1>3, <1>5, <1>6, QuietStep, Zenon DEF Owning

\* The 32-bit count of used slots is zero just when the copy of the head is the
\* producers' tail, however old the copy is.
LEMMA UsedSlotsExact ==
  ASSUME IInv, NEW c \in Consumers, pc[c] = "tail"
  PROVE  /\ h[c] \in Nat /\ h[c] <= chead /\ chead <= ptail
         /\ UsedSlots(h[c], ptail) < 1 <=> h[c] = ptail
<1> USE DEF IInv
<1>1. /\ mask \in Nat /\ ptail \in Nat /\ chead \in Nat /\ h[c] \in Nat /\ Modulus \in Nat
      /\ h[c] <= chead /\ chead - h[c] < Modulus - mask
      /\ chead <= ptail /\ ptail <= chead + mask /\ Word(ptail) \in Int
  <2>1. Word(ptail) \in Int  BY SizeAssumption, DivMod DEF Word, TypeOK
  <2>2. mask \in Nat /\ Modulus \in Nat  BY SizeAssumption DEF mask
  <2>3. ptail <= chead + mask  BY <2>2 DEF TypeOK, Cursors
  <2> QED  BY <2>1, <2>2, <2>3, Zenon DEF TypeOK, Cursors, Copies, Threads
<1>2. 0 + ptail - h[c] >= 0 /\ 0 + ptail - h[c] < Modulus  BY <1>1
<1>3. (0 + Word(ptail) - Word(h[c])) % Modulus < 1 <=> h[c] = 0 + ptail
  BY <1>1, <1>2, WordDifference, Zenon
<1>4. /\ 0 + Word(ptail) - Word(h[c]) = Word(ptail) - Word(h[c])
      /\ 0 + ptail = ptail
  <2>1. Word(h[c]) \in Int  BY <1>1, SizeAssumption, DivMod DEF Word
  <2> QED  BY <1>1, <2>1
<1>5. UsedSlots(h[c], ptail) < 1 <=> h[c] = ptail
  BY <1>3, <1>4, Zenon DEF UsedSlots
<1> QED  BY <1>1, <1>5, Zenon

\* The consumer reads the tail of the producers and checks for an item.
LEMMA ReadProducerTailStep ==
  ASSUME IInv, NEW c \in Consumers, ReadProducerTail(c)
  PROVE  IInv'
<1> USE DEF IInv
<1>1. c \in Threads  BY DEF Threads
<1>2. TypeOK'
  <2>1. CASE UsedSlots(h[c], ptail) < 1
    BY <1>1, <2>1, ReturnLocals, SMTT(60) DEF TypeOK, ReadProducerTail, shared
  <2>2. CASE ~(UsedSlots(h[c], ptail) < 1)
    BY <1>1, <2>2, Zenon DEF TypeOK, ReadProducerTail, Goto, shared, Locations
  <2> QED  BY <2>1, <2>2, Zenon
<1>3. /\ OthersKept(c) /\ UNCHANGED shared /\ chead' = chead /\ ptail' = ptail
      /\ pc[c] = "tail"
      /\ \/ UsedSlots(h[c], ptail) < 1 /\ pc'[c] = "idle"
         \/ ~(UsedSlots(h[c], ptail) < 1) /\ pc'[c] = "cas" /\ h'[c] = h[c] /\ kind'[c] = kind[c]
  BY <1>1 DEF ReadProducerTail, Return, OthersKept, Goto, TypeOK, shared
<1>4. pc'[c] = "cas" => h[c] < ptail
  <2>1. ptail \in Nat /\ chead \in Nat  BY Zenon DEF TypeOK
  <2>2. h[c] # ptail => h[c] < ptail  BY <1>3, <2>1, UsedSlotsExact
  <2> QED  BY <1>3, <2>2, UsedSlotsExact, Zenon
<1>5. Copies(Consumers, chead, ptail)'
  BY <1>3, <1>4, Zenon DEF Copies, OthersKept, Threads
<1>6. Alone(Consumers)'
  BY <1>3, ZenonT(60) DEF Alone, OthersKept, Threads
<1> QED  BY <1>1, <1>2, <1>3, <1>5, <1>6, QuietStep, Zenon DEF Owning

\* The head is moved to the next position, which the thread then owns.
LEMMA MoveConsumerHeadStep ==
  ASSUME IInv, NEW c \in Consumers, MoveConsumerHead(c)
  PROVE  IInv'
<1>a. TypeOK  BY Zenon DEF IInv
<1>b. Cursors  BY Zenon DEF IInv
<1>c. Copies(Consumers, chead, ptail) /\ Alone(Consumers)  BY DEF IInv
<1>d. Owned(Consumers, chead, ctail)  BY Zenon DEF IInv
<1>e. Content  BY DEF IInv
<1>1. c \in Threads /\ mask \in Nat /\ Modulus \in Nat /\ mask < Modulus
  BY SizeAssumption DEF Threads, mask
<1>2. /\ h[c] \in Nat /\ chead \in Nat /\ ctail \in Nat /\ ptail \in Nat /\ pc[c] = "cas"
      /\ h[c] <= chead /\ chead - h[c] < Modulus - mask /\ h[c] < ptail
      /\ kind[c] = "single" => h[c] = chead
  BY <1>a, <1>c, <1>1, Zenon DEF TypeOK, Copies, MoveConsumerHead
<1>3. /\ ctail' = ctail /\ phead' = phead /\ ptail' = ptail /\ nodes' = nodes /\ log' = log
      /\ kind' = kind /\ h' = h /\ t' = t /\ item' = item
  BY Zenon DEF MoveConsumerHead
<1>4. CASE kind[c] = "single" \/ Word(chead) = Word(h[c])
  <2>1. h[c] = chead
    BY <1>1, <1>2, <1>4, WordEqual
  <2>2. /\ chead' = chead + 1 /\ Fresh(chead', Consumers \ {c})
        /\ pc' = [pc EXCEPT ![c] = "data"]
    BY <1>4, <2>1, Zenon DEF MoveConsumerHead, Goto
  <2>3. TypeOK'
    BY <1>a, <1>1, <1>2, <1>3, <2>2, SMTT(60) DEF TypeOK, Locations
  <2>4. OthersKept(c) /\ pc'[c] = "data"
    BY <1>a, <1>1, <1>3, <2>2, Zenon DEF OthersKept, TypeOK
  <2>5. Cursors'
    BY <1>a, <1>b, <1>1, <1>2, <1>3, <2>1, <2>2 DEF Cursors, TypeOK
  <2>6. Copies(Consumers, chead, ptail)'
    <3> SUFFICES ASSUME NEW x \in Consumers, pc'[x] \in {"tail", "cas"}
                 PROVE  /\ h'[x] <= chead' /\ chead' - h'[x] < Modulus - mask
                        /\ pc'[x] = "cas" => h'[x] < ptail'
                        /\ kind'[x] = "single" => h'[x] = chead'
      BY Zenon DEF Copies
    <3>1. x # c /\ pc[x] = pc'[x] /\ h[x] \in Nat
      BY <1>a, <2>4, Zenon DEF OthersKept, Threads, TypeOK
    <3>2. h[x] <= chead /\ (pc[x] = "cas" => h[x] < ptail)
      BY <1>c, <3>1, Zenon DEF Copies
    <3>3. chead + 1 - h[x] < Modulus - mask
      BY <1>1, <1>2, <1>3, <2>2, <3>1 DEF Fresh
    <3>4. kind[x] # "single"
      BY <1>c, <1>2, <3>1, Zenon DEF Alone
    <3> QED  BY <1>2, <1>3, <2>2, <3>1, <3>2, <3>3, <3>4
  <2>7. Alone(Consumers)'
    BY <1>c, <1>2, <1>3, <2>4, ZenonT(60) DEF Alone, OthersKept, Threads
  <2>8. Owners(Consumers)' = Owners(Consumers) \cup {c} /\ c \notin Owners(Consumers)
    BY <1>2, <2>4, Zenon DEF Owners, Owning, OthersKept, Threads
  <2>9. Owned(Consumers, chead, ctail)'
    <3>0. \A x \in Owners(Consumers) : h[x] \in Nat /\ ctail <= h[x] /\ h[x] < chead
      BY <1>a, <1>d, Zenon DEF Owned, Owners, TypeOK, Threads
    <3>1. \A x \in Owners(Consumers)' : ctail <= h[x] /\ h[x] < chead + 1
      <4>1. ctail <= chead  BY <1>b, Zenon DEF Cursors
      <4>2. \A x \in Owners(Consumers) : h[x] < chead + 1  BY <1>2, <3>0
      <4> QED  BY <1>2, <2>1, <2>8, <3>0, <4>1, <4>2
    <3>2. \A x \in Owners(Consumers)', y \in Owners(Consumers)' : h[x] = h[y] => x = y
      <4>1. \A x \in Owners(Consumers) : h[x] # chead  BY <1>2, <3>0
      <4>2. \A x \in Owners(Consumers), y \in Owners(Consumers) : h[x] = h[y] => x = y
        BY <1>d, Zenon DEF Owned
      <4> QED  BY <2>1, <2>8, <4>1, <4>2, Zenon
    <3>3. \A i \in ctail..chead : \E x \in Owners(Consumers)' : h[x] = i
      <4>1. \A i \in ctail..chead : i \in ctail..(chead - 1) \/ i = chead  BY <1>2
      <4> QED  BY <1>d, <2>1, <2>8, <4>1, Zenon DEF Owned
    <3>4. Cardinality(Owners(Consumers)') = chead + 1 - ctail
      <4>1. IsFiniteSet(Owners(Consumers))
        BY ThreadsAssumption, FS_Subset, Zenon DEF Owners
      <4>2. Cardinality(Owners(Consumers)') = Cardinality(Owners(Consumers)) + 1
        BY <2>8, <4>1, FS_AddElement, Zenon
      <4> QED  BY <1>d, <1>2, <4>2 DEF Owned
    <3>5. \A x \in Consumers : pc'[x] \in {"load", "store"} => pc[x] = pc'[x]
      BY <2>4, Zenon DEF OthersKept, Threads
    <3>6. ctail' = ctail /\ chead' = chead + 1  BY <1>3, <2>2, Zenon
    <3>7. \A x : h'[x] = h[x] /\ t'[x] = t[x]  BY <1>3, Zenon
    <3>8. \A x \in Consumers : /\ pc'[x] \in {"load", "store"} => h[x] = ctail
                               /\ pc'[x] = "store" => t[x] = ctail
      BY <1>d, <3>5, Zenon DEF Owned
    <3>9. \A i \in ctail'..(chead' - 1) : \E x \in Owners(Consumers)' : h'[x] = i
      <4>1. chead' - 1 = chead  BY <1>2, <3>6
      <4> QED  BY <3>3, <3>6, <3>7, <4>1, Zenon
    <3>10. Cardinality(Owners(Consumers)') = chead' - ctail'  BY <1>2, <3>4, <3>6
    <3>11. /\ \A x \in Owners(Consumers)' : ctail' <= h'[x] /\ h'[x] < chead'
           /\ \A x \in Owners(Consumers)', y \in Owners(Consumers)' : h'[x] = h'[y] => x = y
      BY <3>1, <3>2, <3>6, <3>7, Zenon
    <3>12. /\ \A x \in Consumers : pc'[x] \in {"load", "store"} => h'[x] = ctail'
           /\ \A x \in Consumers : pc'[x] = "store" => t'[x] = ctail'
      BY <3>6, <3>8, <3>7, Zenon
    <3> QED  BY <3>9, <3>10, <3>11, <3>12, Zenon DEF Owned
  <2>10. Copies(Producers, phead, ctail + mask)' /\ Alone(Producers)' /\ Owned(Producers, phead, ptail)'
    BY <1>2, <1>3, <2>3, <2>4, ProducersKept
  <2>11. Content'
    BY <1>e, <1>3, <2>4, Zenon DEF Content, OthersKept, Threads
  <2> QED  BY <2>3, <2>5, <2>6, <2>7, <2>9, <2>10, <2>11, Zenon DEF IInv
<1>5. CASE ~(kind[c] = "single" \/ Word(chead) = Word(h[c]))
  <2>1. chead' = chead /\ pc' = [pc EXCEPT ![c] = "head"]
    BY <1>5, Zenon DEF MoveConsumerHead, Goto
  <2>2. TypeOK' /\ OthersKept(c) /\ UNCHANGED shared /\ pc'[c] = "head"
    BY <1>a, <1>1, <1>3, <2>1, Zenon DEF TypeOK, Locations, OthersKept, shared
  <2>3. Copies(Consumers, chead, ptail)'
    BY <1>c, <1>3, <2>1, <2>2, Zenon DEF Copies, OthersKept, Threads
  <2>4. Alone(Consumers)'
    BY <1>c, <1>2, <1>3, <2>2, ZenonT(60) DEF Alone, OthersKept, Threads
  <2> QED  BY <1>1, <1>2, <2>2, <2>3, <2>4, QuietStep, Zenon DEF Owning, IInv
<1> QED  BY <1>4, <1>5, Zenon

\* The node that is read is the item published at the position the thread owns.
LEMMA ReadNodeStep ==
  ASSUME IInv, NEW c \in Consumers, ReadNode(c)
  PROVE  IInv'
<1> USE DEF IInv
<1>1. c \in Threads /\ c \notin Producers  BY ThreadsAssumption, Zenon DEF Threads
<1>2. /\ UNCHANGED shared /\ kind' = kind /\ h' = h
      /\ item' = [item EXCEPT ![c] = nodes[Slot(h[c])]] /\ pc[c] = "data"
      /\ \/ kind[c] = "single" /\ t' = [t EXCEPT ![c] = h[c]] /\ pc' = [pc EXCEPT ![c] = "store"]
         \/ kind[c] # "single" /\ t' = t /\ pc' = [pc EXCEPT ![c] = "spin"]
  BY Zenon DEF ReadNode, Goto
<1>3. c \in Owners(Consumers)  BY <1>2, Zenon DEF Owners, Owning
<1>4. /\ h[c] \in Nat /\ ctail \in Nat /\ chead \in Nat /\ ptail \in Nat
      /\ ctail <= h[c] /\ h[c] < chead /\ chead <= ptail
  BY <1>1, <1>3, Zenon DEF TypeOK, Owned, Cursors
<1>5. kind[c] = "single" => h[c] = ctail
  <2>1. ctail \in ctail..(chead - 1)  BY <1>4
  <2>2. PICK x \in Owners(Consumers) : h[x] = ctail  BY <2>1, Zenon DEF Owned
  <2> QED  BY <1>2, <2>2, Zenon DEF Alone, Owners, Owning
<1>6. TypeOK'
  <2>1. nodes[Slot(h[c])] \in Node  BY <1>4, SlotType, Zenon DEF TypeOK
  <2>2. item' \in [Threads -> Node]  BY <1>1, <1>2, <2>1, Zenon DEF TypeOK
  <2>3. pc' \in [Threads -> Locations] /\ t' \in [Threads -> Nat]
    BY <1>1, <1>2, <1>4, Zenon DEF TypeOK, Locations
  <2> QED  BY <1>2, <2>2, <2>3, SMTT(60) DEF TypeOK, shared
<1>7. /\ OthersKept(c) /\ pc'[c] \in {"store", "spin"}
      /\ pc'[c] = "store" => kind[c] = "single" /\ t'[c] = h[c]
      /\ item'[c] = nodes[Slot(h[c])]
  BY <1>1, <1>2, Zenon DEF OthersKept, TypeOK
<1>8. Content'
  <2>1. item'[c] = log[h[c] + 1]
    <3>1. h[c] \in ctail..(ptail - 1)  BY <1>4
    <3> QED  BY <1>7, <3>1, Zenon DEF Content
  <2>2. ASSUME NEW d \in Consumers, pc'[d] \in {"spin", "load", "store"}
        PROVE  item'[d] = log[h[d] + 1]
    <3>1. CASE d = c  BY <2>1, <3>1, Zenon
    <3>2. CASE d # c  BY <1>7, <2>2, <3>2, Zenon DEF Content, OthersKept, Threads
    <3> QED  BY <3>1, <3>2, Zenon
  <2>3. ASSUME NEW p \in Producers, pc'[p] \in {"spin", "load", "store"}
        PROVE  nodes[Slot(h[p])] = item'[p]
    BY <1>1, <1>7, <2>3, Zenon DEF Content, OthersKept, Threads
  <2> QED  BY <1>2, <2>2, <2>3, ZenonT(60) DEF Content, shared
<1> QED  BY <1>1, <1>2, <1>5, <1>6, <1>7, <1>8, OwnerStep, Zenon DEF Owning, shared

\* The consumer waits for its turn.
LEMMA AwaitConsumerTailStep ==
  ASSUME IInv, NEW c \in Consumers, AwaitConsumerTail(c)
  PROVE  IInv'
<1> USE DEF IInv
<1>1. c \in Threads /\ c \notin Producers /\ mask \in Nat /\ Modulus \in Nat /\ mask < Modulus
  BY SizeAssumption, ThreadsAssumption DEF Threads, mask
<1>2. /\ UNCHANGED shared /\ kind' = kind /\ h' = h /\ t' = t /\ item' = item
      /\ pc[c] = "spin" /\ pc' = [pc EXCEPT ![c] = "load"] /\ Word(ctail) = Word(h[c])
  BY Zenon DEF AwaitConsumerTail, Goto
<1>3. h[c] = ctail
  <2>1. c \in Owners(Consumers)  BY <1>2, Zenon DEF Owners, Owning
  <2>2. /\ h[c] \in Nat /\ ctail \in Nat /\ chead \in Nat /\ ptail \in Nat
        /\ ctail <= h[c] /\ h[c] < chead /\ chead <= ctail + mask
    BY <1>1, <2>1 DEF TypeOK, Owned, Cursors
  <2> QED  BY <1>1, <1>2, <2>2, WordEqual
<1>4. TypeOK' /\ OthersKept(c) /\ pc'[c] = "load"
  BY <1>1, <1>2, SMTT(60) DEF TypeOK, Locations, OthersKept, shared
<1>5. Content'
  BY <1>1, <1>2, <1>4, Zenon DEF Content, OthersKept, Threads, shared
<1> QED  BY <1>1, <1>2, <1>3, <1>4, <1>5, OwnerStep, Zenon DEF Owning, shared

\* The consumer loads the tail.
LEMMA LoadConsumerTailStep ==
  ASSUME IInv, NEW c \in Consumers, LoadConsumerTail(c)
  PROVE  IInv'
<1> USE DEF IInv
<1>1. c \in Threads /\ c \notin Producers  BY ThreadsAssumption DEF Threads
<1>2. /\ UNCHANGED shared /\ kind' = kind /\ h' = h /\ item' = item
      /\ pc[c] = "load" /\ pc' = [pc EXCEPT ![c] = "store"] /\ t' = [t EXCEPT ![c] = ctail]
  BY Zenon DEF LoadConsumerTail, Goto
<1>3. h[c] = ctail  BY <1>2, Zenon DEF Owned
<1>4. TypeOK' /\ OthersKept(c) /\ pc'[c] = "store" /\ t'[c] = ctail
  BY <1>1, <1>2, Zenon DEF TypeOK, Locations, OthersKept, shared
<1>5. Content'
  BY <1>1, <1>2, <1>4, ZenonT(60) DEF Content, OthersKept, Threads, shared
<1> QED  BY <1>1, <1>2, <1>3, <1>4, <1>5, OwnerStep, Zenon DEF Owning, shared

\* The lowest owned position is published, and the next one becomes the lowest.
LEMMA StoreConsumerTailStep ==
  ASSUME IInv, NEW c \in Consumers, StoreConsumerTail(c)
  PROVE  IInv'
<1>a. TypeOK  BY DEF IInv
<1>b. Cursors  BY DEF IInv
<1>c. Copies(Consumers, chead, ptail) /\ Alone(Consumers)  BY DEF IInv
<1>d. Owned(Consumers, chead, ctail)  BY DEF IInv
<1>e. Content  BY DEF IInv
<1>1. c \in Threads /\ c \notin Producers /\ mask \in Nat
  BY SizeAssumption, ThreadsAssumption DEF Threads, mask
<1>2. /\ chead' = chead /\ phead' = phead /\ ptail' = ptail /\ nodes' = nodes
      /\ log' = log /\ ctail' = t[c] + 1 /\ pc[c] = "store" /\ Return(c)
  BY Zenon DEF StoreConsumerTail
<1>3. c \in Owners(Consumers)  BY <1>2, Zenon DEF Owners, Owning
<1>4. /\ h[c] = ctail /\ t[c] = ctail /\ ctail \in Nat /\ chead \in Nat /\ ptail \in Nat
      /\ ctail < chead /\ phead \in Nat
  BY <1>a, <1>d, <1>2, <1>3 DEF TypeOK, Owned
<1>5. ctail' = ctail + 1  BY <1>2, <1>4, Zenon
<1>6. OthersKept(c) /\ pc'[c] = "idle"  BY <1>a, <1>1, <1>2, ReturnLocals, Zenon
<1>7. TypeOK'
  BY <1>a, <1>1, <1>2, <1>4, <1>5, ReturnLocals DEF TypeOK
<1>8. Cursors'
  BY <1>b, <1>1, <1>2, <1>4, <1>5 DEF Cursors
<1>9. Copies(Consumers, chead, ptail)'
  BY <1>c, <1>2, <1>6, Zenon DEF Copies, OthersKept, Threads
<1>10. Alone(Consumers)'
  <2> SUFFICES ASSUME NEW x \in Consumers, NEW y \in Consumers, x # y, pc'[x] # "idle",
                      kind'[x] = "single"
               PROVE  pc'[y] = "idle"
    BY Zenon DEF Alone
  <2>1. pc'[x] = pc[x] /\ kind'[x] = kind[x]  BY <1>6, Zenon DEF OthersKept, Threads
  <2>2. pc[y] = "idle"  BY <1>c, <2>1, Zenon DEF Alone
  <2>3. y = c \/ pc'[y] = pc[y]  BY <1>6, Zenon DEF OthersKept, Threads
  <2> QED  BY <1>6, <2>2, <2>3, Zenon
<1>11. Owned(Consumers, chead, ctail)'
  <2>1. Owners(Consumers)' = Owners(Consumers) \ {c}
    BY <1>6, Zenon DEF Owners, Owning, OthersKept, Threads
  <2>2. \A x \in Owners(Consumers)' : x # c /\ x \in Owners(Consumers) /\ h'[x] = h[x] /\ h[x] \in Nat
    BY <1>a, <1>6, <2>1, Zenon DEF OthersKept, Owners, Threads, TypeOK
  <2>3. ASSUME NEW x \in Owners(Consumers)'
        PROVE  ctail + 1 <= h'[x] /\ h'[x] < chead
    <3>1. h[x] # ctail /\ ctail <= h[x] /\ h[x] < chead  BY <1>d, <1>3, <1>4, <2>2, Zenon DEF Owned
    <3> QED  BY <1>4, <2>2, <3>1
  <2>4. \A x \in Owners(Consumers)', y \in Owners(Consumers)' : h'[x] = h'[y] => x = y
    BY <1>d, <2>2, Zenon DEF Owned
  <2>5. ASSUME NEW i \in (ctail + 1)..(chead - 1)
        PROVE  \E x \in Owners(Consumers)' : h'[x] = i
    <3>1. i \in ctail..(chead - 1) /\ i # ctail  BY <1>4
    <3>2. PICK x \in Owners(Consumers) : h[x] = i  BY <1>d, <3>1, Zenon DEF Owned
    <3>3. x # c  BY <1>4, <3>1, <3>2, Zenon
    <3> QED  BY <2>1, <2>2, <3>2, <3>3, Zenon
  <2>6. Cardinality(Owners(Consumers)') = chead - (ctail + 1)
    <3>1. IsFiniteSet(Owners(Consumers))
      BY ThreadsAssumption, FS_Subset DEF Owners
    <3>2. Cardinality(Owners(Consumers) \ {c}) = Cardinality(Owners(Consumers)) - 1
      BY <1>3, <3>1, FS_RemoveElement, Zenon
    <3> QED  BY <1>d, <1>4, <2>1, <3>2 DEF Owned
  <2>7. ASSUME NEW x \in Consumers, pc'[x] \in {"load", "store"}
        PROVE  FALSE
    <3>1. x # c /\ pc[x] = pc'[x]  BY <1>6, <2>7, Zenon DEF OthersKept, Threads
    <3>2. x \in Owners(Consumers) /\ h[x] = ctail  BY <1>d, <2>7, <3>1, Zenon DEF Owners, Owning, Owned
    <3> QED  BY <1>d, <1>3, <1>4, <3>1, <3>2, Zenon DEF Owned
  <2> QED  BY <1>2, <1>5, <2>3, <2>4, <2>5, <2>6, <2>7 DEF Owned
<1>12. Copies(Producers, phead, ctail + mask)' /\ Alone(Producers)' /\ Owned(Producers, phead, ptail)'
  <2>1. ctail' >= ctail  BY <1>4, <1>5
  <2> QED  BY <1>2, <1>6, <1>7, <2>1, ProducersKept, Zenon
<1>13. Content'
  <2>1. \A i \in (ctail + 1)..(ptail - 1) : i \in ctail..(ptail - 1)  BY <1>4
  <2>2. \A p \in Producers : pc'[p] = pc[p] /\ h'[p] = h[p] /\ item'[p] = item[p]
    BY <1>1, <1>6, Zenon DEF OthersKept, Threads
  <2>3. \A d \in Consumers : pc'[d] \in {"spin", "load", "store"} =>
          pc'[d] = pc[d] /\ h'[d] = h[d] /\ item'[d] = item[d]
    BY <1>6, Zenon DEF OthersKept, Threads
  <2> QED  BY <1>e, <1>2, <1>5, <2>1, <2>2, <2>3, ZenonT(60) DEF Content
<1> QED  BY <1>7, <1>8, <1>9, <1>10, <1>11, <1>12, <1>13 DEF IInv


\* A fresh ring satisfies the invariant.
LEMMA InitInvariant == Init => IInv
<1> SUFFICES ASSUME Init PROVE IInv  OBVIOUS
<1>1. mask \in Nat /\ Size \in Nat  BY SizeAssumption DEF mask
<1>2. TypeOK
  <2>1. log \in Seq(Node)  BY SizeAssumption DEF Init, Node
  <2> QED  BY <2>1, SizeAssumption, Zenon DEF Init, TypeOK, Node, Locations
<1>3. Cursors
  <2>1. Len(log) = Start  BY SizeAssumption DEF Init
  <2> QED  BY <1>1, <2>1, SizeAssumption DEF Init, Cursors
<1>4. \A x \in Threads : pc[x] = "idle"  BY Zenon DEF Init
<1>5. Owners(Producers) = {} /\ Owners(Consumers) = {}
  BY <1>4, Zenon DEF Owners, Owning, Threads
<1>6. Owned(Producers, phead, ptail) /\ Owned(Consumers, chead, ctail)
  <2>1. Cardinality({}) = 0  BY FS_EmptySet, Zenon
  <2>2. /\ phead = Start /\ ptail = Start /\ chead = Start /\ ctail = Start
        /\ Start \in Nat
    BY SizeAssumption, Zenon DEF Init
  <2>3. Start..(Start - 1) = {} /\ Start - Start = 0  BY <2>2
  <2> QED  BY <1>4, <1>5, <2>1, <2>2, <2>3, Zenon DEF Owned, Threads
<1>7. /\ Copies(Producers, phead, ctail + mask) /\ Copies(Consumers, chead, ptail)
      /\ Alone(Producers) /\ Alone(Consumers)
  BY <1>4, Zenon DEF Copies, Alone, Threads
<1>8. Content
  <2>1. ctail..(ptail - 1) = {}  BY SizeAssumption DEF Init
  <2> QED  BY <1>4, <2>1, Zenon DEF Content, Threads
<1> QED  BY <1>2, <1>3, <1>6, <1>7, <1>8, Zenon DEF IInv

\* A step that changes nothing.
LEMMA StutterStep ==
  ASSUME IInv, UNCHANGED vars
  PROVE  IInv'
<1> USE DEF IInv, vars
<1>1. TypeOK' /\ Cursors' /\ Content'  BY Zenon DEF TypeOK, Cursors, Content
<1>2. Owners(Producers)' = Owners(Producers) /\ Owners(Consumers)' = Owners(Consumers)
  BY Zenon DEF Owners
<1>3. Owned(Producers, phead, ptail)' /\ Owned(Consumers, chead, ctail)'
  BY <1>2 DEF Owned
<1>4. /\ Copies(Producers, phead, ctail + mask)' /\ Copies(Consumers, chead, ptail)'
      /\ Alone(Producers)' /\ Alone(Consumers)'
  BY Zenon DEF Copies, Alone
<1> QED  BY <1>1, <1>3, <1>4, Zenon

\* Every access keeps the invariant.
LEMMA NextInvariant ==
  ASSUME IInv, [Next]_vars
  PROVE  IInv'
<1>1. ASSUME NEW p \in Producers, Produce(p) PROVE IInv'
  BY <1>1, CallEnqueueStep, ReadProducerHeadStep, ReadConsumerTailStep, MoveProducerHeadStep,
     WriteNodeStep, AwaitProducerTailStep, LoadProducerTailStep, StoreProducerTailStep
    , Zenon DEF Produce
<1>2. ASSUME NEW c \in Consumers, Consume(c) PROVE IInv'
  BY <1>2, CallDequeueStep, ReadConsumerHeadStep, ReadProducerTailStep, MoveConsumerHeadStep,
     ReadNodeStep, AwaitConsumerTailStep, LoadConsumerTailStep, StoreConsumerTailStep
     DEF Consume
<1> QED  BY <1>1, <1>2, StutterStep, Zenon DEF Next

\* The cursors, the owners of the positions between them and the content of the ring stay
\* consistent for any number of threads, any ring size and any width of the cursors.
THEOREM Invariance == Spec => []IInv
<1>1. Init => IInv  BY InitInvariant, Zenon
<1>2. IInv /\ [Next]_vars => IInv'  BY NextInvariant, Zenon
<1> QED  BY <1>1, <1>2, PTL DEF Spec

\* A producer or consumer that spins for its turn waits for a call under way that owns the
\* position the tail is at, for any number of threads.
THEOREM SpinHasOwner == Spec => []WaitHasOwner
<1>1. IInv => WaitHasOwner
  <2> SUFFICES ASSUME IInv PROVE WaitHasOwner  OBVIOUS
  <2>1. ASSUME NEW side \in {Producers, Consumers}, NEW head \in Nat, NEW tail \in Nat,
               Owned(side, head, tail), NEW x \in side, pc[x] = "spin", h[x] \in Nat
        PROVE  \E y \in Owners(side) : h[y] = tail
    <3>1. x \in Owners(side)  BY <2>1, Zenon DEF Owners, Owning
    <3>2. tail <= h[x] /\ h[x] < head  BY <2>1, <3>1, Zenon DEF Owned
    <3>3. tail \in tail..(head - 1)  BY <2>1, <3>2
    <3> QED  BY <2>1, <3>3, Zenon DEF Owned
  <2>2. \A x \in Threads : h[x] \in Nat  BY Zenon DEF IInv, TypeOK
  <2>3. phead \in Nat /\ ptail \in Nat /\ chead \in Nat /\ ctail \in Nat  BY Zenon DEF IInv, TypeOK
  <2>4. ASSUME NEW p \in Producers, pc[p] = "spin" PROVE \E q \in Owners(Producers) : h[q] = ptail
    BY <2>1, <2>2, <2>3, <2>4, Zenon DEF IInv, Threads
  <2>5. ASSUME NEW c \in Consumers, pc[c] = "spin" PROVE \E d \in Owners(Consumers) : h[d] = ctail
    BY <2>1, <2>2, <2>3, <2>5, Zenon DEF IInv, Threads
  <2> QED  BY <2>4, <2>5, Zenon DEF WaitHasOwner
<1> QED  BY <1>1, Invariance, PTL

-----------------------------------------------------------------------------
(* The refinement: what a step of one thread is to the bounded FIFO *)

AbsSt == [x \in Threads |-> Phase(x)]

AbsItem == [x \in Threads |-> Answer(x)]

AbsKept(x) ==
  \A y \in Threads \ {x} : Phase(y)' = Phase(y) /\ Answer(y)' = Answer(y)

\* A step of x leaves what the others called and were answered, as long as the history
\* only grows: an answer is at a position that was published before.
LEMMA OthersAbstract ==
  ASSUME IInv, NEW x \in Threads, OthersKept(x),
         \A i \in 1..ptail : log'[i] = log[i]
  PROVE  AbsKept(x)
<1> SUFFICES ASSUME NEW y \in Threads \ {x}
             PROVE  Phase(y)' = Phase(y) /\ Answer(y)' = Answer(y)
  BY Zenon DEF AbsKept
<1>1. pc'[y] = pc[y] /\ h'[y] = h[y] /\ item'[y] = item[y]  BY Zenon DEF OthersKept
<1>2. Phase(y)' = Phase(y)  BY <1>1, Zenon DEF Phase
<1>3. CASE y \in Consumers /\ pc[y] = "data"
  <2>1. y \in Owners(Consumers)  BY <1>3, Zenon DEF Owners, Owning
  <2>2. h[y] \in Nat /\ h[y] < chead /\ chead <= ptail /\ chead \in Nat /\ ptail \in Nat
    BY <2>1, Zenon DEF IInv, Owned, Cursors, TypeOK
  <2>3. h[y] + 1 \in 1..ptail  BY <2>2
  <2> QED  BY <1>1, <1>2, <1>3, <2>3 DEF Answer
<1>4. CASE ~(y \in Consumers /\ pc[y] = "data")
  BY <1>1, <1>2, <1>4, Zenon DEF Answer
<1> QED  BY <1>3, <1>4, Zenon

\* A change of one thread is a change of its abstract call.
LEMMA AbsUpdate ==
  ASSUME NEW x \in Threads, AbsKept(x)
  PROVE  /\ AbsSt' = [AbsSt EXCEPT ![x] = Phase(x)']
         /\ AbsItem' = [AbsItem EXCEPT ![x] = Answer(x)']
BY Zenon DEF AbsSt, AbsItem, AbsKept

\* A step of x that changes neither its phase nor its answer is a stutter.
LEMMA AbsStutter ==
  ASSUME NEW x \in Threads, AbsKept(x), log' = log, chead' = chead,
         Phase(x)' = Phase(x), Answer(x)' = Answer(x)
  PROVE  UNCHANGED Fifo!vars
<1>1. AbsSt' = AbsSt /\ AbsItem' = AbsItem  BY Zenon DEF AbsSt, AbsItem, AbsKept
<1> QED  BY <1>1, Zenon DEF Fifo!vars, AbsSt, AbsItem

\* A producer's steps from its call to the store of the tail, or to the answer FULL, are
\* invisible ...
LEMMA ProducerQuiet ==
  ASSUME IInv, NEW p \in Producers, OthersKept(p), log' = log, chead' = chead,
         item'[p] = item[p], pc[p] # "idle", pc'[p] # "idle"
  PROVE  UNCHANGED Fifo!vars
<1>1. p \in Threads /\ p \notin Consumers  BY ThreadsAssumption, Zenon DEF Threads
<1>2. AbsKept(p)  BY <1>1, OthersAbstract, Zenon
<1>3. Phase(p)' = Phase(p) /\ Answer(p)' = Answer(p)  BY <1>1, Zenon DEF Phase, Answer
<1> QED  BY <1>1, <1>2, <1>3, AbsStutter, Zenon

\* ... and so are a consumer's until it moves the head, and its steps after it has read
\* the node.
LEMMA ConsumerQuiet ==
  ASSUME IInv, NEW c \in Consumers, OthersKept(c), log' = log, chead' = chead,
         item'[c] = item[c],
         \/ pc[c] \in {"head", "tail", "cas"} /\ pc'[c] \in {"head", "tail", "cas"}
         \/ pc[c] \in {"spin", "load", "store"} /\ pc'[c] \in {"spin", "load", "store"}
  PROVE  UNCHANGED Fifo!vars
<1>1. c \in Threads  BY Zenon DEF Threads
<1>2. AbsKept(c)  BY <1>1, OthersAbstract, Zenon
<1>3. Phase(c)' = Phase(c) /\ Answer(c)' = Answer(c)  BY Zenon DEF Phase, Answer, Owning
<1> QED  BY <1>1, <1>2, <1>3, AbsStutter, Zenon

\* A call is a call of the bounded queue.
LEMMA CallRefines ==
  ASSUME IInv, NEW x \in Threads,
         (x \in Producers /\ CallEnqueue(x)) \/ (x \in Consumers /\ CallDequeue(x))
  PROVE  Fifo!Call(x)
<1>1. /\ log' = log /\ chead' = chead /\ pc[x] = "idle" /\ OthersKept(x)
      /\ pc'[x] = "head"
      /\ x \in Consumers => item'[x] = item[x]
  <2>1. CASE x \in Producers /\ CallEnqueue(x)
    <3>1. x \notin Consumers  BY <2>1, ThreadsAssumption, Zenon
    <3> QED  BY <2>1, <3>1, Zenon DEF CallEnqueue, Goto, shared, OthersKept, IInv, TypeOK
  <2>2. CASE x \in Consumers /\ CallDequeue(x)
    BY <2>2, Zenon DEF CallDequeue, Goto, shared, OthersKept, IInv, TypeOK
  <2> QED  BY <2>1, <2>2, Zenon
<1>2. AbsKept(x)  BY <1>1, OthersAbstract, Zenon
<1>3. /\ AbsSt[x] = "idle" /\ Phase(x)' = "called"
      /\ x \in Consumers => Answer(x)' = AbsItem[x]
      /\ x \in Producers => \E v \in Item : Answer(x)' = v
  <2>1. AbsSt[x] = "idle"  BY <1>1, Zenon DEF AbsSt, Phase, Owning
  <2>2. Phase(x)' = "called"  BY <1>1, Zenon DEF Phase, Owning
  <2>3. x \in Consumers => Answer(x)' = AbsItem[x]  BY <1>1, Zenon DEF AbsItem, Answer
  <2>4. ASSUME x \in Producers PROVE \E v \in Item : Answer(x)' = v
    <3>1. x \notin Consumers  BY <2>4, ThreadsAssumption, Zenon
    <3>2. \E v \in Item : item' = [item EXCEPT ![x] = v]  BY <3>1, Zenon DEF CallEnqueue
    <3> QED  BY <3>1, <3>2, Zenon DEF Answer, IInv, TypeOK
  <2> QED  BY <2>1, <2>2, <2>3, <2>4, Zenon
<1>4. /\ AbsSt' = [AbsSt EXCEPT ![x] = "called"]
      /\ AbsItem' = [AbsItem EXCEPT ![x] = Answer(x)']
  BY <1>2, <1>3, AbsUpdate, Zenon
<1>5. IF x \in Producers THEN \E v \in Item : AbsItem' = [AbsItem EXCEPT ![x] = v]
                         ELSE AbsItem' = AbsItem
  <2>1. CASE x \in Producers  BY <1>3, <1>4, <2>1, Zenon
  <2>2. CASE x \notin Producers
    <3>1. x \in Consumers  BY <2>2, Zenon DEF Threads
    <3> QED  BY <1>3, <1>4, <2>2, <3>1, Zenon DEF AbsItem
  <2> QED  BY <2>1, <2>2, Zenon
<1> QED  BY <1>1, <1>3, <1>4, <1>5, Zenon DEF Fifo!Call, AbsSt, AbsItem

\* A call that returns ends for the FIFO too, and its answer goes with it.
LEMMA ReturnEnds ==
  ASSUME IInv, NEW x \in Threads, Return(x), \A i \in 1..ptail : log'[i] = log[i]
  PROVE  Fifo!Ends(x)
<1>1. pc'[x] = "idle" /\ item'[x] = NULL  BY Zenon DEF Return, Goto, IInv, TypeOK
<1>2. OthersKept(x)  BY ReturnLocals, Zenon DEF IInv
<1>3. AbsKept(x)  BY <1>2, OthersAbstract, Zenon
<1>4. Phase(x)' = "idle" /\ Answer(x)' = NULL  BY <1>1, Zenon DEF Phase, Answer, Owning
<1> QED  BY <1>3, <1>4, AbsUpdate, Zenon DEF Fifo!Ends, AbsSt, AbsItem

\* The store of the producer tail is where an enqueue takes effect.
LEMMA StoreRefines ==
  ASSUME IInv, NEW p \in Producers, StoreProducerTail(p)
  PROVE  Fifo!Put(p)
<1>1. p \in Threads /\ p \notin Consumers /\ mask \in Nat
  BY ThreadsAssumption, SizeAssumption DEF Threads, mask
<1>2. Len(log) - chead < mask
  <2>1. p \in Owners(Producers)  BY Zenon DEF StoreProducerTail, Owners, Owning
  <2>2. /\ ptail <= h[p] /\ h[p] < phead /\ phead <= ctail + mask /\ ctail <= chead
        /\ Len(log) = ptail /\ ptail \in Nat /\ phead \in Nat /\ ctail \in Nat /\ chead \in Nat
        /\ h[p] \in Nat
    BY <1>1, <2>1, Zenon DEF IInv, Owned, Cursors, TypeOK
  <2> QED  BY <1>1, <2>2
<1>3. AbsSt[p] = "called" /\ AbsItem[p] = item[p]
  BY <1>1, Zenon DEF AbsSt, AbsItem, Phase, Answer, StoreProducerTail
<1>4. log' = Append(log, item[p]) /\ Return(p) /\ chead' = chead  BY Zenon DEF StoreProducerTail
<1>5. \A i \in 1..ptail : log'[i] = log[i]
  BY <1>1, <1>4 DEF IInv, TypeOK, Cursors
<1>6. Fifo!Ends(p)  BY <1>1, <1>4, <1>5, ReturnEnds, Zenon
<1> QED  BY <1>2, <1>3, <1>4, <1>6, Zenon DEF Fifo!Put, AbsSt, AbsItem

\* FULL is answered when the ring is full of items, enqueues and dequeues under way.
LEMMA FullRefines ==
  ASSUME IInv, NEW p \in Producers, ReadConsumerTail(p), FreeSlots(h[p], ctail) < 1
  PROVE  Fifo!Full(p)
<1> DEFINE P == Fifo!InProgress(Producers \ {p}, "called")
           C == Fifo!InProgress(Consumers, "took")
<1>1. p \in Threads /\ p \notin Consumers /\ mask \in Nat
  BY ThreadsAssumption, SizeAssumption DEF Threads, mask
<1>2. pc[p] = "tail" /\ Return(p) /\ log' = log /\ chead' = chead  BY Zenon DEF ReadConsumerTail, shared
<1>3. AbsSt[p] = "called"  BY <1>1, <1>2, Zenon DEF AbsSt, Phase, Owning
<1>4. /\ phead \in Nat /\ ptail \in Nat /\ chead \in Nat /\ ctail \in Nat /\ Len(log) = ptail
      /\ phead = ctail + mask
  BY <1>1, <1>2, FreeSlotsExact, SMTT(60) DEF IInv, TypeOK, Cursors
<1>5. Owners(Producers) \subseteq P
  <2>1. \A q \in Owners(Producers) : q \in Producers \ {p} /\ Phase(q) = "called"
    BY <1>2, ThreadsAssumption, Zenon DEF Owners, Owning, Phase
  <2> QED  BY <2>1, Zenon DEF Fifo!InProgress, Threads
<1>6. Owners(Consumers) \subseteq C
  <2>1. \A d \in Owners(Consumers) : d \in Consumers /\ Phase(d) = "took"
    BY Zenon DEF Owners, Owning, Phase
  <2> QED  BY <2>1, Zenon DEF Fifo!InProgress, Threads
<1>7. IsFiniteSet(P) /\ IsFiniteSet(C)
  <2>1. P \subseteq Producers /\ C \subseteq Consumers  BY Zenon DEF Fifo!InProgress
  <2> HIDE DEF P, C
  <2> QED  BY <2>1, ThreadsAssumption, FS_Subset, Zenon
<1> HIDE DEF P, C
<1>8. /\ Cardinality(P) \in Nat /\ Cardinality(C) \in Nat
      /\ phead - ptail <= Cardinality(P) /\ chead - ctail <= Cardinality(C)
  <2>1. Cardinality(Owners(Producers)) <= Cardinality(P)  BY <1>5, <1>7, FS_Subset, Zenon
  <2>2. Cardinality(Owners(Consumers)) <= Cardinality(C)  BY <1>6, <1>7, FS_Subset, Zenon
  <2>3. Cardinality(P) \in Nat /\ Cardinality(C) \in Nat  BY <1>7, FS_CardinalityType, Zenon
  <2> QED  BY <2>1, <2>2, <2>3, Zenon DEF IInv, Owned
<1>9. (Len(log) - chead) + Cardinality(P) + Cardinality(C) >= mask  BY <1>1, <1>4, <1>8
<1>10. Fifo!Ends(p)  BY <1>1, <1>2, ReturnEnds, Zenon
<1>11. (Len(log) - chead) + Cardinality(Fifo!InProgress(Producers \ {p}, "called"))
         + Cardinality(Fifo!InProgress(Consumers, "took")) >= mask
  BY <1>9, Zenon DEF P, C
<1>12. \A S : Fifo!Cardinality(S) = Cardinality(S)
  BY Zenon DEF Fifo!Cardinality, Cardinality
<1> QED  BY <1>2, <1>3, <1>10, <1>11, <1>12, Zenon DEF Fifo!Full, AbsSt

\* EMPTY is answered when no published item is left to take.
LEMMA EmptyRefines ==
  ASSUME IInv, NEW c \in Consumers, ReadProducerTail(c), UsedSlots(h[c], ptail) < 1
  PROVE  Fifo!Empty(c)
<1>1. c \in Threads  BY Zenon DEF Threads
<1>2. pc[c] = "tail" /\ Return(c) /\ log' = log /\ chead' = chead  BY Zenon DEF ReadProducerTail, shared
<1>3. AbsSt[c] = "called"  BY <1>1, <1>2, Zenon DEF AbsSt, Phase, Owning
<1>4. chead = Len(log)
  <2>1. chead \in Nat /\ ptail \in Nat /\ Len(log) = ptail  BY Zenon DEF IInv, TypeOK, Cursors
  <2> QED  BY <1>2, <2>1, UsedSlotsExact
<1>5. Fifo!Ends(c)  BY <1>1, <1>2, ReturnEnds, Zenon
<1> QED  BY <1>2, <1>3, <1>4, <1>5, Zenon DEF Fifo!Empty, AbsSt, AbsItem

\* The move of the consumer head is where a dequeue takes effect, before the node is read.
LEMMA MoveRefines ==
  ASSUME IInv, NEW c \in Consumers, MoveConsumerHead(c)
  PROVE  Fifo!Take(c) \/ UNCHANGED Fifo!vars
<1>1. c \in Threads /\ mask \in Nat /\ Modulus \in Nat /\ mask < Modulus
  BY SizeAssumption DEF Threads, mask
<1>2. /\ h[c] \in Nat /\ chead \in Nat /\ ptail \in Nat /\ pc[c] = "cas"
      /\ h[c] <= chead /\ chead - h[c] < Modulus - mask /\ h[c] < ptail
      /\ kind[c] = "single" => h[c] = chead
      /\ Len(log) = ptail
  BY <1>1, Zenon DEF IInv, TypeOK, Copies, Cursors, MoveConsumerHead
<1>3. log' = log /\ h' = h /\ item' = item /\ kind' = kind /\ t' = t  BY Zenon DEF MoveConsumerHead
<1>4. CASE kind[c] = "single" \/ Word(chead) = Word(h[c])
  <2>1. h[c] = chead  BY <1>1, <1>2, <1>4, WordEqual
  <2>2. chead' = chead + 1 /\ pc' = [pc EXCEPT ![c] = "data"]
    BY <1>4, <2>1, Zenon DEF MoveConsumerHead, Goto
  <2>3. OthersKept(c) /\ pc'[c] = "data"  BY <1>1, <1>3, <2>2, Zenon DEF OthersKept, IInv, TypeOK
  <2>4. AbsKept(c)  BY <1>1, <1>3, <2>3, OthersAbstract, Zenon
  <2>5. Phase(c)' = "took" /\ Answer(c)' = log[chead + 1]
    BY <1>3, <2>1, <2>3, Zenon DEF Phase, Answer, Owning
  <2>6. AbsSt[c] = "called"  BY <1>1, <1>2, Zenon DEF AbsSt, Phase, Owning
  <2>7. chead < Len(log)  BY <1>2, <2>1, Zenon
  <2>8. Fifo!Take(c)
    BY <1>1, <1>3, <2>2, <2>4, <2>5, <2>6, <2>7, AbsUpdate, Zenon DEF Fifo!Take, AbsSt, AbsItem
  <2> QED  BY <2>8, Zenon
<1>5. CASE ~(kind[c] = "single" \/ Word(chead) = Word(h[c]))
  <2>1. chead' = chead /\ pc' = [pc EXCEPT ![c] = "head"]
    BY <1>5 DEF MoveConsumerHead, Goto
  <2>2. OthersKept(c) /\ pc'[c] = "head" /\ item'[c] = item[c]
    BY <1>1, <1>3, <2>1, Zenon DEF OthersKept, IInv, TypeOK
  <2> QED  BY <1>2, <1>3, <2>1, <2>2, ConsumerQuiet, Zenon
<1> QED  BY <1>4, <1>5, Zenon

\* Reading the node adds nothing: it is the item the thread was given when it moved the head.
LEMMA ReadNodeRefines ==
  ASSUME IInv, NEW c \in Consumers, ReadNode(c)
  PROVE  UNCHANGED Fifo!vars
<1>1. c \in Threads  BY Zenon DEF Threads
<1>2. /\ log' = log /\ chead' = chead /\ h' = h /\ kind' = kind /\ pc[c] = "data"
      /\ item' = [item EXCEPT ![c] = nodes[Slot(h[c])]]
  BY Zenon DEF ReadNode, shared
<1>3. OthersKept(c) /\ pc'[c] \in {"spin", "store"} /\ item'[c] = nodes[Slot(h[c])]
  BY <1>1, <1>2, Zenon DEF ReadNode, Goto, OthersKept, IInv, TypeOK
<1>4. nodes[Slot(h[c])] = log[h[c] + 1]
  <2>1. c \in Owners(Consumers)  BY <1>2, Zenon DEF Owners, Owning
  <2>2. /\ h[c] \in Nat /\ ctail <= h[c] /\ h[c] < chead /\ chead <= ptail
        /\ ctail \in Nat /\ chead \in Nat /\ ptail \in Nat
    BY <1>1, <2>1, Zenon DEF IInv, TypeOK, Cursors, Owned
  <2>3. h[c] \in ctail..(ptail - 1)  BY <2>2
  <2> QED  BY <2>3, Zenon DEF IInv, Content
<1>5. AbsKept(c)  BY <1>1, <1>2, <1>3, OthersAbstract, Zenon
<1>6. Phase(c)' = Phase(c) /\ Answer(c)' = Answer(c)
  BY <1>2, <1>3, <1>4, Zenon DEF Phase, Answer, Owning
<1> QED  BY <1>1, <1>2, <1>5, <1>6, AbsStutter, Zenon

\* A dequeue that stores the tail returns its item.
LEMMA ConsumerReturns ==
  ASSUME IInv, NEW c \in Consumers, StoreConsumerTail(c)
  PROVE  Fifo!Return(c)
<1>1. c \in Threads  BY DEF Threads
<1>2. pc[c] = "store" /\ Return(c) /\ log' = log /\ chead' = chead  BY Zenon DEF StoreConsumerTail
<1>3. AbsSt[c] = "took"  BY <1>1, <1>2, Zenon DEF AbsSt, Phase, Owning
<1>4. Fifo!Ends(c)  BY <1>1, <1>2, ReturnEnds, Zenon
<1> QED  BY <1>2, <1>3, <1>4, Zenon DEF Fifo!Return, AbsSt, AbsItem

\* An initial ring is an empty bounded queue.
LEMMA InitRefines ==
  ASSUME Init
  PROVE  Fifo!Init
<1>1. \A x \in Threads : Phase(x) = "idle" /\ Answer(x) = NULL
  BY Zenon DEF Init, Phase, Answer, Owning
<1> QED  BY <1>1, Zenon DEF Fifo!Init, Init, Threads, Fifo!Threads

\* Each access of a producer is a step of the bounded queue or a stutter.
LEMMA ProduceRefines ==
  ASSUME IInv, NEW p \in Producers, Produce(p)
  PROVE  Fifo!Next \/ UNCHANGED Fifo!vars
<1>1. p \in Threads /\ p \in Fifo!Threads  BY Zenon DEF Threads, Fifo!Threads
<1> USE DEF IInv, TypeOK, Goto, OthersKept, shared
<1>2. CASE CallEnqueue(p)  BY <1>1, <1>2, CallRefines, Zenon DEF Fifo!Next
<1>3. CASE StoreProducerTail(p)  BY <1>3, StoreRefines, Zenon DEF Fifo!Next
<1>4. CASE ReadConsumerTail(p)
  <2>1. CASE FreeSlots(h[p], ctail) < 1  BY <1>4, <2>1, FullRefines, Zenon DEF Fifo!Next
  <2>2. CASE ~(FreeSlots(h[p], ctail) < 1)
    BY <1>1, <1>4, <2>2, ProducerQuiet, Zenon DEF ReadConsumerTail
  <2> QED  BY <2>1, <2>2, Zenon
<1>5. CASE ReadProducerHead(p)  BY <1>1, <1>5, ProducerQuiet, Zenon DEF ReadProducerHead
<1>6. CASE MoveProducerHead(p)  BY <1>1, <1>6, ProducerQuiet, Zenon DEF MoveProducerHead
<1>7. CASE WriteNode(p)  BY <1>1, <1>7, ProducerQuiet, Zenon DEF WriteNode
<1>8. CASE AwaitProducerTail(p)  BY <1>1, <1>8, ProducerQuiet, SMTT(60) DEF AwaitProducerTail
<1>9. CASE LoadProducerTail(p)  BY <1>1, <1>9, ProducerQuiet, Zenon DEF LoadProducerTail
<1> QED  BY <1>2, <1>3, <1>4, <1>5, <1>6, <1>7, <1>8, <1>9, Zenon DEF Produce

\* Each access of a consumer is a step of the bounded queue or a stutter.
LEMMA ConsumeRefines ==
  ASSUME IInv, NEW c \in Consumers, Consume(c)
  PROVE  Fifo!Next \/ UNCHANGED Fifo!vars
<1>1. c \in Threads /\ c \in Fifo!Threads  BY Zenon DEF Threads, Fifo!Threads
<1> USE DEF IInv, TypeOK, Goto, OthersKept, shared
<1>2. CASE CallDequeue(c)  BY <1>1, <1>2, CallRefines, SMTT(60) DEF Fifo!Next
<1>3. CASE StoreConsumerTail(c)  BY <1>3, ConsumerReturns, Zenon DEF Fifo!Next
<1>4. CASE ReadProducerTail(c)
  <2>1. CASE UsedSlots(h[c], ptail) < 1  BY <1>4, <2>1, EmptyRefines, Zenon DEF Fifo!Next
  <2>2. CASE ~(UsedSlots(h[c], ptail) < 1)
    BY <1>1, <1>4, <2>2, ConsumerQuiet, Zenon DEF ReadProducerTail
  <2> QED  BY <2>1, <2>2, Zenon
<1>5. CASE ReadConsumerHead(c)  BY <1>1, <1>5, ConsumerQuiet, Zenon DEF ReadConsumerHead
<1>6. CASE MoveConsumerHead(c)  BY <1>6, MoveRefines, Zenon DEF Fifo!Next
<1>7. CASE ReadNode(c)  BY <1>7, ReadNodeRefines, Zenon
<1>8. CASE AwaitConsumerTail(c)  BY <1>1, <1>8, ConsumerQuiet, Zenon DEF AwaitConsumerTail
<1>9. CASE LoadConsumerTail(c)  BY <1>1, <1>9, ConsumerQuiet, SMTT(60) DEF LoadConsumerTail
<1> QED  BY <1>2, <1>3, <1>4, <1>5, <1>6, <1>7, <1>8, <1>9, Zenon DEF Consume

\* A stutter is a stutter.
LEMMA StutterRefines ==
  ASSUME UNCHANGED vars
  PROVE  UNCHANGED Fifo!vars
<1>1. \A x \in Threads : Phase(x)' = Phase(x) /\ Answer(x)' = Answer(x)
  BY Zenon DEF vars, Phase, Answer
<1> QED  BY <1>1, Zenon DEF vars, Fifo!vars

\* The ring queue implements the bounded FIFO queue for any number of producers and
\* consumers, any ring size and any width of the cursors: it is linearizable.
THEOREM QueueLinearizable == Spec => Linearizable
<1>1. Init => Fifo!Init  BY InitRefines
<1>2. IInv /\ [Next]_vars => [Fifo!Next]_(Fifo!vars)
  <2> SUFFICES ASSUME IInv, [Next]_vars PROVE Fifo!Next \/ UNCHANGED Fifo!vars
    OBVIOUS
  <2>1. CASE Next  BY <2>1, ProduceRefines, ConsumeRefines, Zenon DEF Next
  <2>2. CASE UNCHANGED vars  BY <2>2, StutterRefines, Zenon
  <2> QED  BY <2>1, <2>2, Zenon
<1> QED  BY <1>1, <1>2, Invariance, PTL DEF Spec, Linearizable, Fifo!Spec
=============================================================================
