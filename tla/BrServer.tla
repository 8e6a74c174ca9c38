------------------------------ MODULE BrServer ------------------------------
(***************************************************************************)
(* The BR server of a device: ConnBrStartServer makes a ServerState and a  *)
(* listen task for it, ConnBrStopServer declares the state unavailable and *)
(* closes its server socket.  The task opens the socket outside the lock,  *)
(* so a stop can come between the check that the server is wanted and the  *)
(* moment the new socket is recorded.                                      *)
(*                                                                         *)
(* Source: core/connection/br/src/softbus_conn_br_connection.c.            *)
(*                                                                         *)
(* Starts and stops come one after the other.  They do in the code as long *)
(* as the Bluetooth state callback and the listening calls do not overlap: *)
(* g_serverState has no lock.                                              *)
(***************************************************************************)
EXTENDS Integers

CONSTANTS
    MaxStarts,    \* bound: servers started
    MaxIds        \* bound: server sockets the driver can name

ASSUME ServerAssumption ==
    MaxStarts \in Nat /\ MaxIds \in Nat

VARIABLES
    current,     \* g_serverState: the number of a ServerState, 0 for NULL
    started,     \* ServerStates made so far (traceIdGenerator)
    available,   \* available[s]: serverState->available
    serverId,    \* serverId[s]: serverState->serverId, 0 for none
    task,        \* what the listen task of a ServerState is doing
    handle,      \* the server socket in the task's local variable
    open         \* the server sockets that are open in the driver

serverVars == <<current, started, available, serverId, task, handle, open>>

Servers == 1..MaxStarts
Ids == 1..MaxIds

----------------------------------------------------------------------------
(* The callers.                                                            *)

ConnBrStartServer ==
    LET s == started + 1
    IN  /\ current = 0
        /\ started < MaxStarts
        /\ started' = s
        /\ \/ /\ current' = s
              /\ available' = [available EXCEPT ![s] = TRUE]
              /\ task' = [task EXCEPT ![s] = "check"]
           \/ \* the task could not be started, the state is freed
              UNCHANGED <<current, available, task>>
        /\ UNCHANGED <<serverId, handle, open>>

\* Faulty variant: the socket is closed and its number kept.
StopServerKeepsId ==
    /\ current # 0
    /\ available' = [available EXCEPT ![current] = FALSE]
    /\ open' = open \ {serverId[current]}
    /\ current' = 0
    /\ UNCHANGED <<started, serverId, task, handle>>

ConnBrStopServer ==
    /\ current # 0
    /\ available' = [available EXCEPT ![current] = FALSE]
    /\ open' = open \ {serverId[current]}
    /\ serverId' = [serverId EXCEPT ![current] = 0]
    /\ current' = 0
    /\ UNCHANGED <<started, task, handle>>

----------------------------------------------------------------------------
(* The listen task of s.                                                   *)

\* The first critical section: leave if the server is stopped (the task frees
\* the ServerState), close the socket of the last round.
CheckBrServerState(s) ==
    /\ task[s] = "check"
    /\ IF available[s]
       THEN /\ open' = open \ {serverId[s]}
            /\ serverId' = [serverId EXCEPT ![s] = 0]
            /\ task' = [task EXCEPT ![s] = "open"]
       ELSE /\ task' = [task EXCEPT ![s] = "done"]
            /\ UNCHANGED <<open, serverId>>
    /\ UNCHANGED <<current, started, available, handle>>

\* The driver opens a server socket, which may have the number of one that was
\* closed, or fails and the task tries again.
OpenSppServer(s) ==
    /\ task[s] = "open"
    /\ \/ \E id \in Ids \ open :
             /\ open' = open \cup {id}
             /\ handle' = [handle EXCEPT ![s] = id]
             /\ task' = [task EXCEPT ![s] = "record"]
       \/ /\ task' = [task EXCEPT ![s] = "check"]
          /\ UNCHANGED <<open, handle>>
    /\ UNCHANGED <<current, started, available, serverId>>

\* Faulty variant: a stop during OpenSppServer is not noticed.
RecordUnchecked(s) ==
    /\ task[s] = "record"
    /\ serverId' = [serverId EXCEPT ![s] = handle[s]]
    /\ task' = [task EXCEPT ![s] = "listen"]
    /\ UNCHANGED <<current, started, available, handle, open>>

\* Faulty variant: the task leaves when the socket is there.
RecordLeaves(s) ==
    /\ task[s] = "record"
    /\ serverId' = [serverId EXCEPT ![s] = IF available[s] THEN handle[s] ELSE 0]
    /\ open' = IF available[s] THEN open ELSE open \ {handle[s]}
    /\ task' = [task EXCEPT ![s] = "done"]
    /\ UNCHANGED <<current, started, available, handle>>

\* The second critical section: record the socket, or close it and leave if the
\* server was stopped meanwhile.
RecordServer(s) ==
    /\ task[s] = "record"
    /\ IF available[s]
       THEN /\ serverId' = [serverId EXCEPT ![s] = handle[s]]
            /\ task' = [task EXCEPT ![s] = "listen"]
            /\ UNCHANGED open
       ELSE /\ open' = open \ {handle[s]}
            /\ task' = [task EXCEPT ![s] = "done"]
            /\ UNCHANGED serverId
    /\ UNCHANGED <<current, started, available, handle>>

\* ListenTask reads the socket again before it accepts.
ReadServerId(s) ==
    /\ task[s] = "listen"
    /\ handle' = [handle EXCEPT ![s] = serverId[s]]
    /\ task' = [task EXCEPT ![s] = "accept"]
    /\ UNCHANGED <<current, started, available, serverId, open>>

\* Accept fails, because the socket is closed or for a reason of the driver's
\* own.  (Accepting a connection changes nothing here: the task goes on.)
AcceptFails(s) ==
    /\ task[s] = "accept"
    /\ task' = [task EXCEPT ![s] = "check"]
    /\ UNCHANGED <<current, started, available, serverId, handle, open>>

----------------------------------------------------------------------------
ServerInit ==
    /\ current = 0
    /\ started = 0
    /\ available = [s \in Servers |-> FALSE]
    /\ serverId = [s \in Servers |-> 0]
    /\ task = [s \in Servers |-> "none"]
    /\ handle = [s \in Servers |-> 0]
    /\ open = {}

ListenTaskStep(s) ==
    \/ CheckBrServerState(s) \/ OpenSppServer(s) \/ RecordServer(s) \/ ReadServerId(s)

ServerNext ==
    \/ ConnBrStartServer \/ ConnBrStopServer
    \/ \E s \in Servers : ListenTaskStep(s) \/ AcceptFails(s)

ServerSpec == ServerInit /\ [][ServerNext]_serverVars

\* The listen tasks are scheduled, and Accept returns an error on a socket that
\* is not open.
ServerFairness ==
    \A s \in Servers : WF_serverVars(ListenTaskStep(s)) /\ WF_serverVars(handle[s] \notin open /\ AcceptFails(s))

ServerFairSpec == ServerSpec /\ ServerFairness

----------------------------------------------------------------------------
(* Properties.                                                             *)

\* Every variable has its type.
ServerTypeOK ==
    /\ current \in 0..MaxStarts
    /\ started \in 0..MaxStarts
    /\ available \in [Servers -> BOOLEAN]
    /\ serverId \in [Servers -> 0..MaxIds]
    /\ task \in [Servers -> {"none", "check", "open", "record", "listen", "accept", "done"}]
    /\ handle \in [Servers -> 0..MaxIds]
    /\ open \subseteq Ids

\* No server socket leaks: each one that is open belongs to the started server,
\* or to a task that is about to record or to close it.
OpenIsOwned ==
    \A id \in open : \/ current # 0 /\ serverId[current] = id
                     \/ \E s \in Servers : task[s] = "record" /\ handle[s] = id

\* g_serverState never points to a ServerState that its task has freed, so
\* ConnBrStopServer never locks a destroyed mutex.
CurrentIsAlive == current # 0 => available[current] /\ task[current] \notin {"none", "done"}

\* No two listen tasks hold one server socket as their own.
NotShared ==
    \A s, t \in Servers : s # t =>
        /\ serverId[s] = serverId[t] => serverId[s] = 0
        /\ task[s] = "record" => /\ handle[s] # serverId[t]
                                 /\ task[t] = "record" => handle[s] # handle[t]

\* What ties a server's flag, its socket and its task together: only the started
\* server is available, only an available server has a socket, and what a task
\* holds is open.
ServerRest ==
    /\ current <= started
    /\ \A s \in Servers :
          /\ available[s] => s = current
          /\ serverId[s] # 0 => available[s] /\ serverId[s] \in open
          /\ task[s] \in {"open", "record"} => serverId[s] = 0
          /\ task[s] = "record" => handle[s] \in open
          /\ s > started => task[s] = "none"

\* The inductive invariant.
ServerInv == ServerTypeOK /\ OpenIsOwned /\ CurrentIsAlive /\ NotShared /\ ServerRest

\* After a stop the listen task ends, whatever it was doing, unless the driver gave
\* its socket's number to the next server and the old task accepts on that one.
StoppedTaskEnds ==
    \A s \in Servers : (s <= started /\ ~available[s]) ~>
        \/ task[s] \in {"none", "done"}
        \/ task[s] = "accept" /\ current # 0 /\ handle[s] = serverId[current]

=============================================================================
