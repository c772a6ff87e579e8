------------------------------ MODULE Readers -------------------------------
(***************************************************************************)
(* What the depth readers of src/src/books.c return for one side of a      *)
(* book, whose levels l are given best first, as a sequence of [p, q]      *)
(* without fractions.  Depth has the loops of the consolidating ones and   *)
(* compares them with these definitions.                                   *)
(***************************************************************************)
EXTENDS Integers, Sequences, FiniteSets, FiniteSetsExt

D64 == INSTANCE Decimal64

\* price a comes before price b, on bids (desc) or asks
Precedes(desc, a, b) == IF desc THEN a > b ELSE a < b

\* the order in which the iterator returns the prices P: each has as many ahead
\* of it as its position says
BestFirst(P, desc) ==
    [i \in 1 .. Cardinality(P) |->
        CHOOSE p \in P : Cardinality({r \in P : Precedes(desc, r, p)}) = i - 1]

\* a / b rounded to a whole number, digit by digit
quantize[f \in Nat \X (Nat \ {0})] == D64!QuantizedQuotient(f[1], f[2])

\* quantity and value of the first j levels
Base(l, j) == SumFunctionOnSet([i \in DOMAIN l |-> l[i].q], 1 .. j)
Term(l, j) == SumFunctionOnSet([i \in DOMAIN l |-> l[i].p * l[i].q], 1 .. j)

\* book_top is book_tops with n = 1
book_tops(l, n) == SubSeq(l, 1, Min({n, Len(l)}))

\* the averages for the best Q, 2Q, ... units
book_ctops(l, Q, n) ==
    [x \in 1 .. Min({n, Base(l, Len(l)) \div Q}) |->
        LET R == x * Q
            j == Min({i \in DOMAIN l : Base(l, i) >= R})
        IN  [p |-> quantize[<<Term(l, j) - l[j].p * (Base(l, j) - R), R>>], q |-> R]]

\* the same for what values of V, 2V, ... buy
book_vtops(l, V, n) ==
    [x \in 1 .. Min({n, Term(l, Len(l)) \div V}) |->
        LET R == x * V
            j == Min({i \in DOMAIN l : Term(l, i) >= R})
            Q == Base(l, j) * l[j].p - (Term(l, j) - R)
        IN  [p |-> quantize[<<R * l[j].p, Q>>], q |-> quantize[<<Q, l[j].p>>]]]

=============================================================================
