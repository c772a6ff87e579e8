------------------------------- MODULE MCWire -------------------------------
(* Small instances of Wire for TLC.                                        *)
EXTENDS Wire

CONSTANTS
    Ds,         \* digits of numerals
    MaxDigits   \* bound on their number

Num(s, i, f) == [sign |-> s, int |-> i, frac |-> f]

\* a digit of each kind, the point anywhere
SomeNumerals ==
    UNION {[sign : {"", "-"}, int : [1 .. c[1] -> Ds], frac : [1 .. c[2] -> Ds]] :
              c \in {d \in (0 .. MaxDigits) \X (0 .. MaxDigits) : d[1] + d[2] <= MaxDigits}}

\* digits small and large with all combinations of bits, and mantissas with a
\* leading digit more, around 2^13 in particular
SomeMantissas ==
    {100 * a + 10 * b + c : a, b, c \in {0, 3, 4, 5, 6, 8, 9}} \cup
    {1000, 1444, 1445, 8191, 8192, 8999, 9994, 9995, 9999}

SomeExponents == {-3, -1, 0, 2}

\* a line of the usual kind, with one thing or another changed
P == Num("", <<1>>, <<2, 5>>)
Q == Num("", <<1, 0, 0>>, <<>>)
T == [sec |-> 7, frac |-> <<0, 1, 0, 0>>]
I == [name |-> "i"]
B2 == [side |-> 66, flavour |-> 50]

ShortNumerals == {n \in SomeNumerals : Len(n.int) + Len(n.frac) <= 4}

SomeLines ==
    {<<T, I, B2, n, Q>> : n \in ShortNumerals} \cup
    {<<T, I, B2, P, n>> : n \in ShortNumerals} \cup
    {<<T, I, [side |-> s, flavour |-> f], P, Q>> : s \in 64 .. 122, f \in 47 .. 52} \cup
    {<<[sec |-> s, frac |-> f], I, B2, P, Q>> :
        s \in {0, 1, 12}, f \in UNION {[1 .. j -> {0, 1}] : j \in 0 .. 7}} \cup
    {<<T, B2, P, Q>>, <<B2, P, Q>>, <<P, Q>>, <<Q>>, <<T, T, I, B2, P, Q>>,
     <<T, [name |-> ""], B2, P, Q>>}

=============================================================================
