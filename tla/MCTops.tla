------------------------------- MODULE MCTops -------------------------------
(* Small instances of Tops for TLC.                                        *)
EXTENDS Tops

\* what later steps depend on
TopsView == <<lvl, prq, ntop, xb, seen>>

=============================================================================
