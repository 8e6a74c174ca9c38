# TLA+ models of DSoftBus

DSoftBus connects nearby devices over Bluetooth classic (BR), Bluetooth low energy,
Wi-Fi and Ethernet. This directory models three parts of it:

- the BR connection layer (`src/core/connection/br`): establishing connections, sharing and closing them, sending on them, and listening for them;
- what that layer and its successors are built on: the lock-free ring queue, the fair priority queue with its delivery task, and the message looper;
- the authentication session of two devices (`src/core/authentication`).

These parts run on several threads, exchange messages with a second device and depend on
timers, so tests reach few of their interleavings.

Contents: [the system](#1-the-system), [the models](#2-the-models),
[model checking](#3-model-checking), [fairness](#4-fairness), [proofs](#5-proofs),
[what was found](#6-what-was-found), [not modelled](#7-not-modelled).

## 1. The system

### Parts of the repository

| part | state and operations | where it is hard | here |
|---|---|---|---|
| BR connection | state, reference count, occupation of a connection; acquire, release, negotiate, time out, disconnect | two devices count the same users; frames overtake each other | `BrReference` |
| BR manager | device being connected, waiting devices, pended addresses; connect, accept, fail, time out, pend, reset | results, timeouts and requests arrive in any order | `BrManager` |
| BR server | `g_serverState` and its listen task; start, stop | the socket is opened outside the lock | `BrServer` |
| BR send queue and task | queues by process and priority, one task started on demand | lost wake-ups, a task that quits while a message is posted | `BrSend` |
| BR window, pending packets | window, awaited ack, `g_pendingList` | late and lost answers | `BrAckWindow` |
| Lock-free queue | ring with claimed and published positions | each access to memory interleaves; 32-bit counters wrap | `LockFreeQueue`, implementing `BoundedFifo` |
| Fair priority queue, bytes delivery | rings by process and priority, task started on demand | full rings, idle exit, fairness | `FairPriorityQueue`, `BytesDelivery` |
| Message handler | list of messages by time, loop thread, destruction | sleeping too long, destruction before the thread has begun | `Looper` |
| Authentication | session state machine, timer, external key agreement | roles, early messages, a timer that races with the end | `AuthSession` |
| BLE, TCP, Wi-Fi Direct connections, connection manager, flow control | | as BR, with other drivers | no |
| Bus center, transmission | joining and leaving nodes, lanes, channels, sessions | pending requests, retries | no |
| Discovery, broadcast, frame, adapters, DFX, SDK, interfaces, nstackx | platform calls, IPC, libraries | | no |

`PROJECT.json` lists them with their files, says which definition models which lines,
and lists the hazards of the modelled code line by line.

### How the BR parts interact

A *looper* is a thread that handles messages one at a time, some of them posted with a
delay. The manager and the connections share one looper. A connect request becomes a
message; the looper connects to one device at a time on a *connect thread*, which then
turns into the *read thread* of the connection. Accepted connections have a *serve thread*.
These threads report back by posting messages. Every connection has a reference count
that both devices maintain: acquire and release are sent to the peer as control frames,
through the same *send task* that carries data. When a count gets to zero the devices
negotiate the closing; a request that comes meanwhile waits in the manager.

Queues of messages to send are rings of `softbus_queue.h`, in the variant without
compare-and-swap where a mutex protects them. New connection kinds put them into the fair
priority queue. Once a connection is up the devices authenticate over it; the session's
messages, its timer and the connection's data events are handled on a looper as well.

## 2. The models

A step is a looper handler or a critical section, so every thread switch the locks
permit is an interleaving of the model. A message posted without delay is handled in order; a
delayed message may become due at any moment. Names follow the code.

### `BrReference`: one connection, seen from both ends

Each device has its connection object (`state`, `rc`, `sock`, `occupied`, `present`), its
looper messages (`todo`: delayed ones by kind, put-off updates), control frames in the
send queue by priority (`sendq`) and frames that have arrived (`inbox`). Actions are the
handlers `ConnBrOnReferenceRequest`, `ConnBrOnReferenceResponse`, `ConnectionException`,
`ConnectionResume`, `RetryNotifyReferenceHandler`, `WaitNegotiationClosingTimeoutHandler`,
`BrOnOccupyRelease`, `UpdateLocalRc` and `UpdatePeerRc`; the threads' `SendHandlerLoop`,
`LoopReadExit` and the second half of `ConnBrDisconnectNow`; the users' `BrConnectDevice`,
`DisconnectRequest`, and `BrCheckActiveConnection` with `ConnBrOccupy` as a step of its own
because the state is read without a lock. The link may break.

### `BrManager`: requests, devices, pends

`mgr` is the manager's state, `connecting` and `waitings` the devices, `queue` the looper's
messages, and `timeouts`, `unpends` and `fails` its delayed messages. A connection records
its side, thread, socket, count and the requests it was given to. There is an action for
each message of the looper but data and disconnect requests, for each step of the connect
and serve threads, for `BrPendConnection`, `BrDisconnectDeviceNow` and Bluetooth on and off.
The negotiation of `BrReference` appears as a connection that enters
`NEGOTIATION_CLOSING` and resumes or closes.

### `BrServer`: start, stop, listen

`ServerState` objects with their listen tasks, and the driver's open sockets. The task
checks, opens outside the lock, records or closes, reads the socket number and accepts.
The driver may give the number of a closed socket again.

### `BrSend`: queues and the send task

Posters call `ConnBrPostBytes`; the queue of each process has three priorities and process 0
has the inner queue. `DequeueInner`, `DequeueList` and `DequeueNone` are the outcomes of
`ConnBrDequeueBlock`; `DequeueTimeout` is the ten-minute silence after which
`QuitOrContinue` ends the task unless `messagePosted` is set. A producer that waits for
room holds a pointer into a queue the task may destroy meanwhile; `EnqueueDangling` is
what follows.

### `BrAckWindow`: the acknowledgement window

One end of one connection: the send task numbers messages, asks for an ack each window
and waits for it before the next window ends; answers are on time, late or lost. The window
widens or narrows by what came of the wait.

### `LockFreeQueue` and `BoundedFifo`: the ring queue

A step is one access to shared memory: the read of a head, the read of the other side's
tail, the compare-and-swap, the write or read of the slot, the turn of the spinning loop,
the load and the store of the tail. The multi-threaded and the single-threaded variants run
on the same ring, the latter only when they are alone on their side (`MayRun`). The counters
are kept unwrapped and the code sees them modulo `Modulus` (2^32 in the code), so a stale
difference wraps as it does there. `BoundedFifo` is the promise: a queue whose calls take
effect atomically. `Linearizable` says that the ring implements it: an enqueue takes
effect when it publishes its slot, a dequeue when it moves the head.

`Fresh` states what the code relies on: no thread keeps a copy of a head while the counter
goes once round.

### `FairPriorityQueue` and `BytesDelivery`: delivery of bytes

`FairPriorityQueue` has the data structure and one pass of `ConnDequeue` as operators. Its
rings are bounded sequences, which `Linearizable` justifies. `BytesDelivery` has the callers
of `ConnDeliver` and the task. The task's second look (`RetryDequeueExclusive`) holds
`delivery->lock` across a wait, so that lock is a variable; `queue->lock` is held within one
step only. Both conditions may wake up spuriously and the task may fail to start.

### `Looper`: the message handler

`msgs` is the sorted list, `thread` where the loop thread is, `until` the deadline of its
timed wait. Posting reads the clock before it takes the lock, so it is two steps. A looper
may be destroyed before its thread has begun; then the thread does it.

### `AuthSession`: two devices authenticate

`session[d]` is the `AuthFsm` of device `d`, `queue[d]` its messages on the looper,
`channel[d]` the data on its way to it, `hichain[d]` the callbacks the key agreement
(external) has still to make. `setup` is what the devices know at the start: the link, whether
the peer is known from discovery and negotiates, whether a stored key can be recovered,
whose hash is smaller. There is an action for each handler of `auth_session_fsm.c`, the data
events of `auth_manager.c`, disconnection, a device found untrusted, the timer, and the end
of another request to the same peer (`others`).

## 3. Model checking

`tlc -config X.cfg M`, for example `tlc -config MCBrServer.cfg MCBrServer`.

| run | cfg | states | what it shows |
|---|---|---|---|
| reference | `MCBrReference` | 595,622 | counts account for users and frames in flight; a negotiation has the timeout that ends it, and no stale one is left |
| reference_live | `MCBrReferenceLive` | 35,547 | with users who release only what they took, a device that negotiates the closing counts no reference; the negotiation ends and a parked request is answered even if the peer falls silent; an unused connection is taken down if frames are delivered |
| send | `MCBrSend` | 31,736 | no lost wake-up, no stranded message, order per poster; queued messages are finished and posters return |
| ack_window | `MCBrAckWindow` | 63,851 | one packet is awaited, and the wait comes in time |
| server | `MCBrServer` | 22,976 | sockets do not leak and are not shared; `g_serverState` is alive; a stop ends the task |
| manager | `MCBrManager` | 1,441,252 | two devices, with pends, a negotiation, a break and a collision: an attempt has its timeout and no timeout outlives its attempt, a waiting device is woken, and a connection counts the requests it was given to |
| manager_live | `MCBrManagerLive` | 332,522 | one device, across Bluetooth off and threads that fail to start: a request is kept until it is answered once, the threads' last messages find their connections, and a parked request is answered or gets ready for its turn |
| queue | `MCLockFreeQueue` | 570,412 | the ring implements the bounded queue; a thread that spins waits for one that can go on |
| delivery | `MCBytesDelivery` | 81,417 | no item is left without a task, no process is passed over for long, a caller that waits for room returns |
| delivery_test | `MCBytesDeliveryTest` | | a violation: an accepted item is lost (section 6) |
| looper | `MCLooper` | 258,407 | messages are handled when due and in order, the thread does not oversleep, a destruction ends and frees nothing in use |
| auth_session | `MCAuthSession` | 223,163 | the roles agree, no message is ignored that was needed, a pass is shared by both ends and stands, every session is decided |

Every run says `CHECK_DEADLOCK FALSE`: the users, the radio and the environment are
bounded, and a system with nothing to do rests.

### Bounds

- **reference**: one acquire, two releases and one occupation in all, by either device. A count that goes to zero, an acquire that overtakes a release, a resume, a put-off release and an over-release need no more. `OverRelease` lets users release what they did not take, which the API permits. `reference_live` has users who do not, because `ClosingMeansUnused` speaks of those, and two acquires, because a resume that finds a parked request takes two: the peer's, which causes the resume, and the one that is parked. It leaves out occupations and broken links for size.
- **send**: two posters of two messages each, control messages and those of one process. `QueueLimit` 3 with `BufferLen` 2 leaves one place, so full queues and waits happen; the code has 32 and 2. One silence and two task identities let a task quit and be replaced. The first two invariants are proved for any posters (section 5).
- **ack_window**: windows 2 to 5 for 10 to 80, and 26 messages. The factors `TIMEOUT_TIMES` 2 and `ACK_FAILED_TIMES` 3 are the code's.
- **server**: three starts and three sockets, so that a number is reused while an older task still runs.
- **manager**: two connections, enough for a failed attempt with a second one, or a collision of an outgoing with an accepted connection. The two configurations divide negotiations and breaks from resets and failed starts, because together they exceed what TLC can explore. An interaction of, say, a reset with a negotiation is in neither run; the invariants are proved for all of them together (section 5). The run `manager` takes states as equal that differ by an exchange of its two devices with their requests (`Swap`).
- **queue**: two producers and two consumers on a ring of four slots, with counters of three bits that start at 5 and wrap during the run; four or five enqueues (none starts at `MaxHead`), any number of dequeues. Threads and items are symmetric.
- **delivery**: two callers and three items over rings of one place, one failed start, one spurious wake-up. Full rings, an idle exit and a restart happen.
- **looper**: two posters and the handler, three messages with delays 0 to 2 on a clock up to 3, one removal.
- **auth_session**: both link kinds, every consistent `setup`, one fault (an early timeout, a refusal, a broken link, an untrusted device) at any moment.

## 4. Fairness

Users, the radio and a silence owe nothing: no property relies on their acting.

- `BrReference`: weak fairness for the delayed messages, put-off updates and the threads, and for the frames only once the read thread has ended and they are all in the looper. Before that a frame may stay on a link that has gone silent, which is what the closing timeout is for. `UnusedIsClosed` alone has delivery as a premise (`Delivery`): two releases that are both stuck on the link leave both ends with a user. Put-off updates are kept apart from the other messages, because an occupied connection puts them off again and again.
- `BrSend`: a poster inside `ConnBrPostBytes` goes on and the task runs. `WaitQueueLength` looks again each second, which justifies fairness for a waiting poster.
- `BrServer`: listen tasks run, and `Accept` returns an error on a socket that is not open. A driver that reuses a number may keep a stopped task accepting on its successor's socket; `StoppedTaskEnds` names that case.
- `BrManager`: the looper, the timers, driver calls that return and read loops that notice a closed socket. That an attempt has its timeout whatever the driver does is the invariant `ConnectingIsTimed`.
- `BytesDelivery`: the task and the callers run, and the idle wait ends. The wait of a caller need not end by itself, because `waitTimeoutMs` may be negative; `DeliverReturns` holds all the same.
- `Looper`: the threads run, time passes and handlers return.
- `AuthSession`: the looper runs, the session's timer becomes due, HiChain makes the callbacks it owes, and the connection delivers or reports its loss. The end of another request (`others`) is not relied on.

## 5. Proofs

TLAPS proves these for all values of the constants that satisfy the modules' assumptions
(`tlapm X.tla`).

| module | theorems | the inductive invariant |
|---|---|---|
| `BrReferenceProofs` | `TypeCorrect`, `TimeoutIsCurrent`, `NegotiationIsTimed`, `OccupationIsTimed` | types and the three properties, one step lemma for each action |
| | `CountsAgree` | `Accounting` with `Reads` (a valid socket is read). Without `Reads` a frame could reach a device that does not read it. Lemmas on `Carried` say what appending, removing and moving a frame does to the sum; each action is shown to change both sides of the equation alike |
| `BrClosingProofs` | `UnusedWhenClosing`, `CountsNeverNegative` | `Honest`, below; for users who give back only what they took (`~OverRelease`) |
| `BrConnectionProofs`, sending | `TypeCorrect`, `OneTask`, `WakeupNotLost`, `NothingStranded` | a sleeping task has an empty list and empty inner queue, which is stronger than having nothing queued, because the broadcast depends on the list; a task that gives up left nothing behind or a poster has yet to set `messagePosted` |
| | `ReportedInOrder` | `OrderInv`: a poster's messages are in one queue and in order there; what was reported is older than what the task holds, and that older than what is queued |
| `BrConnectionProofs`, window | `WindowInRange`, `PendingIsAwaited`, `AckIsDue` | `Distance`: while an ack is awaited, `sequence % window` is the distance to the message that asked for it. The window changes only when no ack is awaited, which keeps this true |
| `BrConnectionProofs`, server | `ServerTypeCorrect`, `SocketsOwned`, `StateAlive`, `SocketsNotShared` | `ServerInv`: the properties with `ServerRest`, which ties a state's flag, socket and task together (only the started server is available, only an available one records a socket) |
| `BrManagerProofs` | `EventsFindConnections`, `GrantsAreCounted` | `EventInv`, below |
| `BrManagerWaits` | `AttemptsAreTimed`, `TimeoutsAreCurrent`, `WaitsAreWoken` | `WaitInv`, below |
| `BrManagerRequests` | `RequestsAreKept` | `RequestInv`, below |
| `LooperProofs` | `NeverOversleeps`, `ThreadEndsFirst`, `Ordered` | `IInv` of `LooperProofs`, below |
| `LockFreeQueueProofs` | `Invariance`, `SpinHasOwner`, `QueueLinearizable` | `IInv` of `LockFreeQueueProofs`, below |

**The closing.** That an end which negotiates its closing counts no reference needs more than the
sums: an acquire applied to a negative count would leave the connection closing with a user. So the
proof shows first that no count is negative, which is a matter of order. `Honest` says of each end
that its users hold no less than nothing, that acquires travel in the high queue with the positive
count they led to and releases in the low one (`Shape`), that while the peer can send and this end reads, what the
peer has to account for has been applied here or is on its way (`Told`), and that no beginning of the
frames on the link takes what was applied of the peer's references below zero (`Backed`). A release is sent
only when the high queue is empty; `Told` then says that all acquires it may give back are on the
link before it. A broken link may cut the frames at any place, and every beginning of them is
still in order. An end that is closing resumes with a frame that carries a positive
count, and an acquire always does, so its count rises only as it resumes.

**The manager** has an invariant in three layers, each proved with the one before.

- `EventInv` follows the life of a connection: what its thread does, which of its messages (success, accepted, exception, a failure) may be in the queue, and that it is listed as long as one of them is (`Life`). Its count is the number of requests it was given to, and one more while it is *open*: accepted, or its result not yet handled (`Count`). At most one listed client connection leads to an address (`OneClient`): without it a result could be taken for that of another attempt.
- `WaitInv` adds the attempt in progress (`Attempt`: exactly one timeout, for a listed connection to the device being connected, whose result is still to come) and the waiting devices (`Woken`: a device that waits for an event has a listed connection to its address, a pended one is pended with a message that ends it, and none is the device being connected). That a result is *still to come* is what makes this inductive: its handlers remove the timeout, and only they, the timeout and a reset do.
- `RequestInv` adds `Split`: the requests made so far are divided between the queue, the waiting devices, the device being connected and those that have been answered, and the devices share none. Every handler moves requests between these four sets, so none is lost and none is answered twice.

The helpers of the handlers (`Find`, `Without`, `Scheduled`, `Pended`, `Unpended`) have lemmas that
say what they do to the set of waiting devices; the handlers are then proved on these sets.
`Without` is a recursive function on the places of the list; its lemma goes by the least place at which
it would fail.

**The looper.** The list is sorted by time and, within one time, by the order of
posting, and the numbers in it do not exceed the posts (`ListInv`); `ThreadInv` ties the flags
`running`, `started` and `needDestroy` to where the thread and the destroying caller are. A new
message has the largest number, so inserting it before the first later one keeps the list
sorted. `Ordered` is an action property: it follows from the sorted list and from the thread
taking its head.

**The ring.** The cursors are in order and span at most the ring (`Cursors`); a copy of
a head is not ahead of it and less than one turn behind, and one that passed the check of
room saw room (`Copies`); each position between a tail and its head is owned by exactly one
thread, and only the owner of the lowest is past its wait (`Owned`); the slots between the
tails hold the published items (`Content`). `Owned` is what makes the spinning loops safe:
two threads past the wait would own the same position. `Copies` is what makes the
compare-and-swap safe: equal words less than a turn apart are equal counters. One lemma
for each access shows that it keeps `IInv`. The refinement then maps each access to `Call`,
`Put`, `Full`, `Take`, `Empty`, `Return` or a stutter; for `Full` the number of owners is
counted, which is why `Owned` has the cardinality.

Assumptions: finite disjoint sets of producers and consumers; a ring size that divides the
number of words and is at most half of it, as a power of two up to 2^31 does;
the two ends differ; a request has one address; the bounds are natural numbers, of any size;
`QueueLimit > BufferLen`; `1 < MIN_WINDOW <= DEFAULT_WINDOW <= MAX_WINDOW`. The code's
constants satisfy them, and TLC evaluates them in every run.

The proof of the ring holds for runs that satisfy `Fresh`, which is part of the steps that move a
head. `BrConnectionProofs`, `BrReferenceProofs` and `BrClosingProofs` also prove facts no run checks, because
the proof says more than an instance: the types, that there is one send task, that an occupied
connection has the message that ends the occupation, that no count is negative.

Only model-checked:

- all liveness properties, because temporal induction under fairness is beyond the prover;
- `BytesDelivery`, whose fair queue is built from sums and orders over its nodes, and `AuthSession`, whose properties relate the messages of two devices and a key agreement in every phase.

## 6. What was found

**A lost item in the delivery task** (run `delivery_test`). `RetryDequeueExclusiveIfNeed`
(`softbus_conn_bytes_delivery.c:114`) passes `&out`, the address of its own parameter, where
`out` is meant. If the idle wait of the task times out and a caller queues an item before
the task looks again, the second look takes the item out of the queue and returns
`SOFTBUS_OK`, but `item` in `DeliverTask` is still `NULL`; line 143 then dereferences it. The
unit test of the delivery expects that everything it queued is delivered
(`softbus_conn_bytes_delivery_test.cpp:125`). In `BytesDelivery` the process then stops
(`crashed`); the properties of the run `delivery` hold up to that point.

Behaviours a reader may not expect. No text in the repository says otherwise, so no property
is stated against them:

- **One `MSG_NEXT_CMD` serves one waiting device.** If that device is served from an existing connection, the BR manager stays available and posts no further command, so another device that is ready for its turn waits until some other event posts one.
- **The comment in `softbus_queue.h` (lines 109 to 115)** says that the number of free slots lies between 0 and the queue length. In the variant with compare-and-swap (lines 163 to 171) that is not so for a head that is older than the tail it is compared with. The swap fails then, so the queue is right.
- **A caller of `ConnDeliver` may fail before its timeout.** All rings share one condition; a caller woken because another ring got room gives up if its own is still full.
- **A restarted authentication.** If the device that accepted the connection times out while it waits for the peer's id, a late id makes it start a second session as a server, and over Bluetooth the peer may be a server too. Both then answer each other's ids until a timer ends it. `RolesAgree` leaves such sessions out, and `SessionDecided` shows that they end.
- **A passed session may stay.** Its timer is removed when it reports the peer as authenticated, but it still waits for HiChain to finish; if the peer gives up then, it stays until the connection goes. `SessionDecided` therefore says decided, not ended.

## 7. Not modelled

Within the modelled parts:

- Memory allocation, lock and post failures, except a task or thread that fails to start.
- Framing, JSON and the read buffer: the models exchange decoded messages. Data frames matter only to `BrSend` and `BrAckWindow`.
- The times themselves, except in `Looper`. A delayed message may come at any moment, so the properties do not depend on the length of a delay.
- Several connections in `BrReference`, `BrAckWindow` and `AuthSession`; connections share the looper and the send task, and otherwise no state these modules use.
- Overlapping calls of `ConnBrStartServer` and `ConnBrStopServer`, which race on `g_serverState`.
- The wrap of the 16-bit connection number.
- Destroying a fair priority queue or a delivery; more than one looper at a time; the dumps.
- Authentication: exchanging network ids, V1 and V2 peers, pre-link keys, the BLE three-state check, equal hashes, the delayed repeat of an id, a second session in the opposite direction. HiChain is external: it makes the callbacks the code waits for, in the order the code allows, or an error.
- Outcomes the models have and no property judges: after a failed start of the send or delivery task the items wait for the next call; inner messages of low priority wait while processes keep posting; a removal before the loop thread has begun does nothing; a release that says the peer has no user closes the connection although an acquire may be on its way.
- Outcomes outside the models: a pending packet is left in `g_pendingList` by a connection that ends while it waits for an ack; `MAX_RETRY_COUNT` is compared with a count that dies with each failed connection; `g_isThreadStarted` and `g_isNeedDestroy` are shared by all loopers.
- Composition: `BrManager` abstracts the negotiation, and `BrReference` abstracts the waiting devices to their number; no refinement between the two is shown. The modules that use a looper or a ring queue use what `Looper` and `BoundedFifo` promise: order, removal and delay, and atomic calls.

Other parts of the repository. The implementation has some 330,000 lines, and these models
cover about one percent of them, chosen for concurrency. The rest divides into:

- *More of the same kind*, within reach: the BLE manager and connection (a second copy of BR's design over GATT), the network builder, the proxy channel's handshake, the lane request table, Wi-Fi Direct's negotiation.
- *Sequential code*, which its unit tests reach: flow control, sequence verification, the ledgers, the session tables.
- *Byte and platform work*, where a model would only repeat the code: packing, IPC stubs and proxies, adapters, event reports, discovery over CoAP and BLE advertising, the library nstackx.
