------------------------------ MODULE MCBooks -------------------------------
(* Small instances of Books for TLC.                                       *)
EXTENDS BooksProps

\* changes quoted at level 3; one of them overshoots a level of one
ChangesOfOne == {-1, 1}
ChangesOfTwo == {-2, 1}

\* asks only; bids at every price and asks at one
Asks      == [ASK |-> Prices, BID |-> {}]
BothSides == [ASK |-> {2}, BID |-> Prices]

\* what later steps depend on: nothing reads what book_add was last given or
\* returned
BookView == book

=============================================================================
