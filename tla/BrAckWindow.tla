---------------------------- MODULE BrAckWindow ----------------------------
(***************************************************************************)
(* The acknowledgement window of a BR connection.  The send task asks the  *)
(* peer for an acknowledgement with every window-th message, waits for it  *)
(* at most WAIT_ACK_TIMEOUT_MILLS just before the next one is due, and     *)
(* widens or narrows the window by what came of it.                        *)
(*                                                                         *)
(* Source: core/connection/br/src/softbus_conn_br_trans.c,                 *)
(*         softbus_conn_br_pending_packet.c.                               *)
(*                                                                         *)
(* One connection, one end of it: the fields are those of its              *)
(* ConnBrConnection, pending the entries of g_pendingList that carry its   *)
(* id.  The send task, the looper that receives answers and the peer are   *)
(* interleaved; requests and answers travel in order and may be lost.      *)
(* WaitAck's branch for a PendingPacket that is not found is never taken:  *)
(* OnePending says that the packet exists.                                 *)
(***************************************************************************)
EXTENDS Integers, Sequences

CONSTANTS
    MIN_WINDOW, DEFAULT_WINDOW, MAX_WINDOW,
    TIMEOUT_TIMES, ACK_FAILED_TIMES,
    MaxSequence     \* bound: messages sent

ASSUME WindowAssumption ==
    /\ MIN_WINDOW \in Nat /\ DEFAULT_WINDOW \in Nat /\ MAX_WINDOW \in Nat
    /\ 1 < MIN_WINDOW /\ MIN_WINDOW <= DEFAULT_WINDOW /\ DEFAULT_WINDOW <= MAX_WINDOW
    /\ TIMEOUT_TIMES \in Nat \ {0} /\ ACK_FAILED_TIMES \in Nat
    /\ MaxSequence \in Nat

VARIABLES
    sequence,          \* messages sent so far
    window,
    waitSequence,      \* the acknowledgement to wait for, 0 for none
    ackTimeoutCount,
    pending,           \* sequence numbers with a PendingPacket
    finded,            \* those whose answer has come
    sender,            \* the send task: "idle", "wait" before and "blocked" in the wait
    requests,          \* on their way to the peer
    responses          \* on their way back

windowVars == <<sequence, window, waitSequence, ackTimeoutCount, pending, finded, sender,
                requests, responses>>

----------------------------------------------------------------------------
\* SendAck: a request leaves, with a PendingPacket for its answer.
\* ConnBrCreateBrPendingPacket refuses a sequence number that has one.
SendAck(seq) ==
    /\ seq \notin pending
    /\ pending' = pending \cup {seq}
    /\ requests' = Append(requests, seq)
    /\ waitSequence' = seq

\* ... or nothing does: the packet could not be made, or could not be sent and
\* its PendingPacket is deleted again.
SendAckFails == UNCHANGED <<pending, requests, waitSequence>>

\* Faulty variant: a narrow window is not waited for.
SendNextNoWait ==
    LET seq == sequence + 1
    IN  /\ sender = "idle"
        /\ sequence < MaxSequence
        /\ sequence' = seq
        /\ IF seq % window = 0 THEN SendAck(seq) \/ SendAckFails ELSE SendAckFails
        /\ sender' = IF window > MIN_WINDOW /\ seq % window = window - 1 /\ waitSequence' # 0
                     THEN "wait" ELSE "idle"
        /\ UNCHANGED <<window, ackTimeoutCount, finded, responses>>

\* The body of SendHandlerLoop up to the wait: the message is numbered.
SendNext ==
    LET seq == sequence + 1
    IN  /\ sender = "idle"
        /\ sequence < MaxSequence
        /\ sequence' = seq
        /\ IF seq % window = 0 THEN SendAck(seq) \/ SendAckFails ELSE SendAckFails
        /\ sender' = IF window > 1 /\ seq % window = window - 1 /\ waitSequence' # 0
                     THEN "wait" ELSE "idle"
        /\ UNCHANGED <<window, ackTimeoutCount, finded, responses>>

\* Faulty variant: the PendingPacket of a wait that timed out is not deleted.
EndWaitKeeps ==
    /\ pending' = IF waitSequence \in finded THEN pending \ {waitSequence} ELSE pending
    /\ finded' = finded \ {waitSequence}
    /\ waitSequence' = 0
    /\ sender' = "idle"
    /\ UNCHANGED <<sequence, requests, responses>>

\* The end of ConnBrGetBrPendingPacket and of WaitAck: nothing is awaited any more.
EndWait ==
    /\ pending' = pending \ {waitSequence}
    /\ finded' = finded \ {waitSequence}
    /\ waitSequence' = 0
    /\ sender' = "idle"
    /\ UNCHANGED <<sequence, requests, responses>>

\* WaitAck when the answer was there before the wait: the window can be wider.
AlreadyTriggered ==
    /\ sender = "wait"
    /\ waitSequence \in finded
    /\ ackTimeoutCount' = 0
    /\ window' = IF window < MAX_WINDOW THEN window + 1 ELSE MAX_WINDOW
    /\ EndWait

\* ... when it is not: the task waits.
Block ==
    /\ sender = "wait"
    /\ waitSequence \in pending \ finded
    /\ sender' = "blocked"
    /\ UNCHANGED <<sequence, window, waitSequence, ackTimeoutCount, pending, finded,
                   requests, responses>>

\* ... when it comes during the wait.
Answered ==
    /\ sender = "blocked"
    /\ waitSequence \in finded
    /\ ackTimeoutCount' = 0
    /\ UNCHANGED window
    /\ EndWait

\* ... when it does not: every TIMEOUT_TIMES timeouts in a row narrow the window,
\* and too many of them restore a narrow one.
Narrowed ==
    IF window > MIN_WINDOW /\ (ackTimeoutCount + 1) % TIMEOUT_TIMES = 0
    THEN window - 1 ELSE window

TimedOut ==
    /\ sender = "blocked"
    /\ waitSequence \notin finded
    /\ ackTimeoutCount' = ackTimeoutCount + 1
    /\ window' = IF Narrowed < DEFAULT_WINDOW /\ ackTimeoutCount + 1 > ACK_FAILED_TIMES
                 THEN DEFAULT_WINDOW ELSE Narrowed
    /\ EndWait

\* ConnBrOnAckRequest at the peer: it answers with the number it was asked for.
OnAckRequest ==
    /\ requests # <<>>
    /\ requests' = Tail(requests)
    /\ responses' \in {responses, Append(responses, Head(requests))}
    /\ UNCHANGED <<sequence, window, waitSequence, ackTimeoutCount, pending, finded, sender>>

\* ConnBrOnAckResponse: ConnBrSetBrPendingPacket finds the packet, or it is too late.
OnAckResponse ==
    /\ responses # <<>>
    /\ responses' = Tail(responses)
    /\ finded' = finded \cup ({Head(responses)} \cap pending)
    /\ UNCHANGED <<sequence, window, waitSequence, ackTimeoutCount, pending, sender, requests>>

----------------------------------------------------------------------------
WindowInit ==
    /\ sequence = 0
    /\ window = DEFAULT_WINDOW
    /\ waitSequence = 0
    /\ ackTimeoutCount = 0
    /\ pending = {}
    /\ finded = {}
    /\ sender = "idle"
    /\ requests = <<>>
    /\ responses = <<>>

WindowNext ==
    \/ SendNext \/ AlreadyTriggered \/ Block \/ Answered \/ TimedOut
    \/ OnAckRequest \/ OnAckResponse

WindowSpec == WindowInit /\ [][WindowNext]_windowVars

----------------------------------------------------------------------------
(* Properties.                                                             *)

WindowTypeOK ==
    /\ sequence \in 0..MaxSequence
    /\ window \in MIN_WINDOW..MAX_WINDOW
    /\ waitSequence \in 0..MaxSequence
    /\ ackTimeoutCount \in Nat
    /\ pending \subseteq 1..MaxSequence
    /\ finded \subseteq pending
    /\ sender \in {"idle", "wait", "blocked"}
    /\ requests \in Seq(1..MaxSequence)
    /\ responses \in Seq(1..MaxSequence)

\* The packets that wait for an answer are the one WaitAck will wait for, or none:
\* whatever answers are lost or late, and however the window moves, no request is
\* made while another is open, and none is forgotten in g_pendingList.
OnePending == pending = IF waitSequence = 0 THEN {} ELSE {waitSequence}

\* The sender is never more than a window ahead of an open request: it stops for
\* the answer before the next request is due.
AckDue == waitSequence # 0 => sequence - waitSequence < window
=============================================================================
