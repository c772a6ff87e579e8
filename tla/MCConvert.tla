----------------------------- MODULE MCConvert ------------------------------
(* Small instances of Convert for TLC.                                     *)
EXTENDS Convert

\* changes quoted at level 3
ChangesOfOne == {-1, 1}

Asks == [ASK |-> Prices, BID |-> {}]

\* what later steps depend on: nothing reads what book_add was last given or
\* returned
ConvView == <<book, mode, mirror>>

=============================================================================
