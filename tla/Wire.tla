-------------------------------- MODULE Wire --------------------------------
(***************************************************************************)
(* What the programs exchange.  Lines are read by read_xquo and printed by *)
(* book2book -2 (prq2) and booksnap (snap2); numbers are read, printed,    *)
(* rounded and scaled by the two decimal libraries.  Since the programs    *)
(* are made to be put in a pipe, a line printed is read again.             *)
(***************************************************************************)
EXTENDS XQuo, FiniteSets

CONSTANTS
    Numerals,   \* what numbers are read from
    Mantissas,  \* of numbers that come out of a computation
    Exponents,  \* and of those the exponents; also those rounded to
    Lines       \* lines of an input

D32 == INSTANCE Decimal32

\* what a field may be
Stamps        == [sec : Nat, frac : Seq(0 .. 9)]
Names         == [name : STRING]
Actions       == [side : 0 .. 255, flavour : 0 .. 255]
NumeralFields == [sign : {"", "+", "-"}, int : Seq(0 .. 9), frac : Seq(0 .. 9)]
Fields        == Stamps \cup Names \cup Actions \cup NumeralFields

ASSUME WireAssumption ==
    /\ WellScaled /\ D32!D!WellScaled
    /\ G \in 1 .. 3
    /\ \A m \in Mantissas : m \in Nat /\ m < 10 ^ 4
    /\ Exponents \subseteq Int
    /\ Numerals \subseteq NumeralFields
    /\ Lines \subseteq Seq(Fields)
    /\ \A l \in Lines : Len(l) > 2 => /\ l[Len(l) - 2] \in Actions
                                      /\ {l[Len(l) - 1], l[Len(l)]} \subseteq NumeralFields

VARIABLES
    lib,        \* the library called, "d64" or "d32"
    enc,        \* the encoding the build has, "bid" or "dpd"
    op,         \* what was done last
    text,       \* the numeral last read or printed
    x,          \* the number in hand
    line,       \* the line last read or printed
    quo         \* the quote in hand

numberVars == <<text, x>>
lineVars   == <<line, quo>>
wvars      == <<lib, enc, op, text, x, line, quo>>

Wide64 == lib = "d64"

Strtod(n)       == IF Wide64 THEN strtod(enc, n) ELSE D32!strtod32(enc, n)
Tostr(y)        == IF Wide64 THEN dtostr(y) ELSE D32!d32tostr(y)
Quantized(y, r) == IF Wide64 THEN quantized(y, r) ELSE D32!quantized32(y, r)
Scalbn(y, k)    == IF Wide64 THEN scalbnd(y, k) ELSE D32!scalbnd32(y, k)
Hangs(n)        == IF Wide64 THEN Endless(n) ELSE D32!D!Endless(n)
ReadDigits      == IF Wide64 THEN 3 ELSE 4

-----------------------------------------------------------------------------
(* Numbers.                                                                *)

ReadNumber(n) ==
    /\ ~Hangs(n)
    /\ op' = "read" /\ text' = n /\ x' = Strtod(n)
    /\ UNCHANGED <<lib, enc, lineVars>>

\* a number the compiler's arithmetic came up with, which may use the digit
\* that is never read
Compute(m, e, s) ==
    /\ op' = "compute"
    /\ x' = LET b == [mant |-> m, expo |-> e, sign |-> s]
            IN  IF enc = "dpd" THEN (IF Wide64 THEN bcdtodpd(b) ELSE D32!bcd32todpd(b))
                ELSE IF Wide64 THEN assemble_bid(m, e + 398, s)
                ELSE D32!D!assemble_bid(m, e + 101, s)
    /\ UNCHANGED <<lib, enc, text, lineVars>>

PrintNumber ==
    /\ op \in {"read", "compute"} /\ line = <<>>
    /\ op' = "print" /\ text' = Tostr(x)
    /\ UNCHANGED <<lib, enc, x, lineVars>>

\* to the exponent of a number r
Quantise(r) ==
    /\ op' = "quantise" /\ x' = Quantized(x, r)
    /\ UNCHANGED <<lib, enc, text, lineVars>>

Scale(k) ==
    /\ op' = "scale" /\ x' = Scalbn(x, k)
    /\ UNCHANGED <<lib, enc, text, lineVars>>

Ones == {Strtod([sign |-> "", int |-> <<1>>, frac |-> <<>>]),
         Strtod([sign |-> "", int |-> <<0>>, frac |-> <<1>>]),
         Strtod([sign |-> "", int |-> <<1>>, frac |-> <<0, 0>>])}

-----------------------------------------------------------------------------
(* Lines.                                                                  *)

ReadLine(l) ==
    /\ lib = "d64" /\ ~Spins(l)
    /\ op' = IF op = "idle" THEN "quote" ELSE "again"
    /\ line' = l /\ quo' = read_xquo(enc, l)
    /\ UNCHANGED <<lib, enc, numberVars>>

\* From the beginning of the line to the end of the instrument is copied; of
\* an empty instrument not even the tab behind it.
Prefix == SubSeq(line, 1, Len(line) - (IF quo.ins = <<>> /\ Len(line) > 3 THEN 4 ELSE 3))

Act(side) == [side |-> 64 + side, flavour |-> 50]

\* clears are unwound instead; at level 1 a side that has no tree is undefined
prq2 ==
    /\ op = "quote" /\ quo # NotAXQuo
    /\ quo.s # 3 /\ (quo.f = 1 => quo.s \in {1, 2})
    /\ op' = "prq2"
    /\ line' = Prefix \o <<Act(quo.s), dtostr(quo.p), dtostr(quo.q)>>
    /\ UNCHANGED <<lib, enc, numberVars, quo>>

\* the snapshot at m of a book that has just this quote
snap2(m) ==
    /\ op = "quote" /\ quo # NotAXQuo
    /\ quo.s \in {1, 2} /\ quo.f \in 1 .. 3 /\ quo.t # NATV
    /\ quo.p # NaN /\ mantd(quo.q) > 0 /\ quo.q.s = 0
    /\ op' = "snap2"
    /\ quo' = [quo EXCEPT !.t = m]
    /\ line' = <<tvtostr(m)>> \o (IF quo.ins = <<>> THEN <<NoName>> ELSE quo.ins) \o
               <<Act(quo.s), dtostr(quo.p), dtostr(quo.q)>>
    /\ UNCHANGED <<lib, enc, numberVars>>

\* the metronome is not behind the quote
Metronome == IF quo = NotAXQuo THEN {} ELSE {quo.t, quo.t + 1, quo.t + NSECS}

\* the program goes on to something else
Idle ==
    /\ op # "idle"
    /\ op' = "idle" /\ text' = NaNText /\ x' = NaN /\ line' = <<>> /\ quo' = NotAXQuo
    /\ UNCHANGED <<lib, enc>>

WireInit ==
    /\ lib \in {"d64", "d32"} /\ enc \in {"bid", "dpd"}
    /\ op = "idle" /\ text = NaNText /\ x = NaN /\ line = <<>> /\ quo = NotAXQuo

WireNext ==
    \/ /\ op = "idle"
       /\ \/ \E n \in Numerals : ReadNumber(n)
          \/ \E m \in Mantissas, e \in Exponents, s \in 0 .. 1 : Compute(m, e, s)
          \/ \E l \in Lines : ReadLine(l)
    \/ op = "print" /\ ReadNumber(text)
    \/ op \in {"prq2", "snap2"} /\ ReadLine(line)
    \/ PrintNumber
    \/ op = "compute" /\ \E r \in Ones : Quantise(r)
    \/ op = "compute" /\ \E k \in {-1, 1} : Scale(k)
    \/ prq2
    \/ \E m \in Metronome : snap2(m)
    \/ Idle

WireSpec == WireInit /\ [][WireNext]_wvars

-----------------------------------------------------------------------------

\* powers of ten
Ten[k \in Nat] == IF k = 0 THEN 1 ELSE 10 * Ten[k - 1]

\* mantissas a and b brought to the same exponent
Aligned(a, ea, b, eb) ==
    LET e == Min({ea, eb})
    IN  <<a * Ten[ea - e], b * Ten[eb - e]>>

\* the number of three digits each declet stands for
Declets   == [v \in 0 .. 999 |-> pack_declet(v \div 100, (v \div 10) % 10, v % 10)]
DecletNumber ==
    [z \in {Declets[v] : v \in 0 .. 999} |-> CHOOSE v \in 0 .. 999 : Declets[v] = z]

\* The number whose bits are y's by the definition of the encodings (IEEE 754),
\* whatever the code's own decoders make of them.
Denoted(y) ==
    [mant |-> IF y.enc = "bid" THEN (IF y.big THEN 2 ^ 13 ELSE 0) + y.m
              ELSE 1000 * (IF y.big THEN 8 + (y.t % 2) ELSE y.t) + DecletNumber[y.lo],
     expo |-> y.ex - (IF Wide64 THEN 398 ELSE 101),
     sign |-> y.s]

\* Packed numbers whose exponent is misread: any without sign and leading digit
\* that have the least exponent, which is taken for 0 (dfp754_d64.h:131), and in
\* the wide encoding those with a leading 8 or 9 whose exponent has its highest
\* bit, or with a leading 9 not the one that the 9 is taken for (dfp754_d64.h:138).
Misread(y) ==
    /\ y.enc = "dpd"
    /\ \/ <<y.s, y.big, y.ex, y.t>> = <<0, FALSE, 0, 0>>
       \/ Wide64 /\ y.big /\ (y.ex \notin 0 .. 511 \/ (y.t % 2 = 1 /\ y.ex % 256 < 128))

Dist(p) == IF p[1] >= p[2] THEN p[1] - p[2] ELSE p[2] - p[1]

SameValue(y, z) ==
    IF NaN \in {y, z} THEN y = z
    ELSE LET b == Denoted(y)
             c == Denoted(z)
         IN  /\ Dist(Aligned(b.mant, b.expo, c.mant, c.expo)) = 0
             /\ b.mant # 0 => b.sign = c.sign

NumeralValue(n) == Value(n.int \o n.frac)

\* d64tostr: a number is printed as exactly what its bits say, all its digits
\* and zeros in their places, in both encodings and libraries, unless it is one
\* whose exponent is misread.
PrintedExactly ==
    op = "print" /\ ~Misread(x) =>
       LET b == Denoted(x)
       IN  /\ Dist(Aligned(b.mant, b.expo, NumeralValue(text), -Len(text.frac))) = 0
           /\ (text.sign = "-") <=> (b.sign = 1 /\ b.mant # 0)
           /\ text.int # <<>>

\* digits of a numeral that cannot be kept
Cut(n) == Len(n.frac) + Denoted(x).expo > 0

AllNines(n) ==
    LET ds == [i \in 1 .. ReadDigits |-> 9]
        l  == Leading(n) \o n.frac
    IN  Len(l) > ReadDigits /\ SubSeq(l, 1, ReadDigits) = ds

\* A numeral too long that is rounded up, in the wide library, from digits that
\* the mask of round_bcd64 does not keep: one that is not 0, two digits (in the
\* code eight) or more in front of one that is not 9.
Masked(n) ==
    LET l == Leading(n) \o n.frac
    IN  /\ Wide64 /\ l[ReadDigits + 1] >= 5
        /\ \E i, j \in 1 .. ReadDigits : i + 2 <= j /\ l[i] # 0 /\ l[j] # 9

\* strtod64: a numeral of any length is read as the number nearest to it that
\* has the digits kept; only if the point comes right behind the last digit
\* kept it is cut off.  But digits that the mask in round_bcd64 does not keep
\* are lost (dfp754_d64.c:377, so that 1.2345678901234567 is read as
\* 0.00000089012346): these numerals, and no others, are read as another number.
\* Numerals that are all nines are carried to 0, and negative ones are rounded
\* the wrong way, so these are left out if they are too long.
ReadNearest ==
    op = "read" /\ (Cut(text) => text.sign # "-" /\ ~AllNines(text)) =>
       LET b   == Denoted(x)
           err == Dist(Aligned(b.mant, b.expo, NumeralValue(text), -Len(text.frac)))
           ulp == Ten[b.expo + Len(text.frac)]
       IN  IF ~Cut(text) THEN err = 0
           ELSE IF Len(Leading(text)) = ReadDigits THEN err < ulp
           ELSE IF Masked(text) THEN err > ulp
           ELSE 2 * err <= ulp

\* the wide packed encoding loses a leading digit
Rounds(y) == ~(Wide64 /\ enc = "dpd" /\ Denoted(y).mant >= 10 ^ 3)

\* dfp754_d64.h:69: "Round X to the quantum of R" and dfp754_d64.h:73: "Return
\* X*10^N": the result has r's exponent if x has to be cut, and is less than
\* 5/9 of a unit off (rounding digit by digit, it may go up from a bit less
\* than a half); otherwise its value is that of x.  Scaling keeps the digits.
QuantisedAndScaled ==
    [][/\ op' = "quantise" /\ Rounds(x) => \A r \in Ones :
             Quantise(r) =>
                LET b == Denoted(x)
                    c == Denoted(x')
                    e == Denoted(r).expo
                    d == Dist(Aligned(b.mant, b.expo, c.mant, c.expo))
                IN  IF b.expo >= e THEN d = 0
                    ELSE c.expo = e /\ 9 * d < 5 * Ten[e - b.expo]
       /\ op' = "scale" => \A k \in {-1, 1} :
             Scale(k) => Denoted(x') = [Denoted(x) EXCEPT !.expo = @ + k]]_wvars

\* Programs are put in pipes: the next one reads from a line that book2book -2
\* or booksnap printed the quote it was printed for, its side, price, quantity,
\* time and instrument, as a level-2 quote, whatever numbers and stamps looked
\* like when they were first read.  An empty instrument is left out.
LinesReadBack ==
    [][op' = "again" /\ quo.ins # <<>> =>
          /\ quo' # NotAXQuo
          /\ <<quo'.s, quo'.f, quo'.t, quo'.ins>> = <<quo.s, 2, quo.t, quo.ins>>
          /\ SameValue(quo'.p, quo.p) /\ SameValue(quo'.q, quo.q)]_wvars

=============================================================================
