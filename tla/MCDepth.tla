------------------------------ MODULE MCDepth -------------------------------
(* Small instances of Depth for TLC: every side of up to three levels.     *)
EXTENDS Depth

=============================================================================
