--------------------------- MODULE MCBrAckWindow ---------------------------
(***************************************************************************)
(* BrAckWindow for TLC.  ackTimeoutCount grows with the timeouts, which    *)
(* the bound on the messages bounds.                                       *)
(***************************************************************************)
EXTENDS BrAckWindow
=============================================================================
