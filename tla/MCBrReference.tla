--------------------------- MODULE MCBrReference ---------------------------
(* Model checking of BrReference: the two ends are model values and the     *)
(* bounds are given in the cfg files.                                       *)
EXTENDS BrReference
============================================================================
