------------------------------ MODULE MCBrSend ------------------------------
(***************************************************************************)
(* BrSend for TLC: a thread that posts connection control messages to the  *)
(* inner queue and one that posts for a pid.                               *)
(***************************************************************************)
EXTENDS BrSend, TLC

CONSTANTS Control, App

MCPidOf == Control :> 0 @@ App :> 1
MCPriorityOf == Control :> HIGH @@ App :> MIDDLE
=============================================================================
