------------------------------ MODULE MCSnap3 -------------------------------
(* Small instances of Snap3 for TLC.                                       *)
EXTENDS Snap3

\* a book with all the prices, and others whose only level comes and goes
OneDeep == [k \in Books |-> IF k = "a" THEN Prices ELSE {2}]
Amounts == [k \in Books |-> IF k = "a" THEN 2 ELSE 1]

=============================================================================
