----------------------------- MODULE MCBrServer -----------------------------
(* The instance of BrServer that TLC checks.                               *)
EXTENDS BrServer
=============================================================================
