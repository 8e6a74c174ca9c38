----------------------------- MODULE BoundedFifo -----------------------------
(***************************************************************************)
(* What the ring queue of softbus_queue.h promises its callers: a bounded  *)
(* first-in first-out queue whose operations take effect atomically, each  *)
(* at some moment between its call and its return.                         *)
(*                                                                         *)
(* log is every item ever accepted, in order, and taken how many of them   *)
(* have been handed out, so the content of the queue is what lies between. *)
(* item[x] is the argument of producer x, or the answer of consumer x, for *)
(* as long as its call lasts.                                              *)
(***************************************************************************)
EXTENDS Integers, Sequences, FiniteSets

CONSTANTS
  Producers, Consumers, Item, NULL,
  Capacity,
  Start        \* how many items were accepted and handed out before

VARIABLES log, taken, st, item

vars == <<log, taken, st, item>>

Threads == Producers \cup Consumers

InProgress(S, phase) == {x \in S : st[x] = phase}

Init ==
  /\ log = [i \in 1..Start |-> NULL]
  /\ taken = Start
  /\ st = [x \in Threads |-> "idle"]
  /\ item = [x \in Threads |-> NULL]

Call(x) ==
  /\ st[x] = "idle"
  /\ st' = [st EXCEPT ![x] = "called"]
  /\ IF x \in Producers
       THEN \E v \in Item : item' = [item EXCEPT ![x] = v]
       ELSE UNCHANGED item
  /\ UNCHANGED <<log, taken>>

Ends(x) ==
  /\ st' = [st EXCEPT ![x] = "idle"]
  /\ item' = [item EXCEPT ![x] = NULL]

\* An accepted item goes to the end of the queue, which never holds more than Capacity.
Put(p) ==
  /\ st[p] = "called"
  /\ Len(log) - taken < Capacity
  /\ log' = Append(log, item[p])
  /\ Ends(p)
  /\ UNCHANGED taken

\* FULL is answered only when the items in the queue, the enqueues under way and the
\* dequeues that have not given their slot back fill the capacity between them.
Full(p) ==
  /\ st[p] = "called"
  /\ (Len(log) - taken) + Cardinality(InProgress(Producers \ {p}, "called"))
       + Cardinality(InProgress(Consumers, "took")) >= Capacity
  /\ Ends(p)
  /\ UNCHANGED <<log, taken>>

\* The oldest item is handed to exactly one consumer.
Take(c) ==
  /\ st[c] = "called"
  /\ taken < Len(log)
  /\ item' = [item EXCEPT ![c] = log[taken + 1]]
  /\ taken' = taken + 1
  /\ st' = [st EXCEPT ![c] = "took"]
  /\ UNCHANGED log

\* EMPTY is answered only when the queue is empty.
Empty(c) ==
  /\ st[c] = "called"
  /\ taken = Len(log)
  /\ Ends(c)
  /\ UNCHANGED <<log, taken>>

Return(c) ==
  /\ st[c] = "took"
  /\ Ends(c)
  /\ UNCHANGED <<log, taken>>

Next ==
  \/ \E x \in Threads : Call(x)
  \/ \E p \in Producers : Put(p) \/ Full(p)
  \/ \E c \in Consumers : Take(c) \/ Empty(c) \/ Return(c)

Spec == Init /\ [][Next]_vars
=============================================================================
