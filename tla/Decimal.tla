------------------------------- MODULE Decimal ------------------------------
(***************************************************************************)
(* src/src/dfp754_d64.c (and, instantiated by Decimal32, dfp754_d32.c):    *)
(* decimal floating point numbers, read from and printed as numerals,      *)
(* rounded, scaled and taken apart, in the two encodings a build can have. *)
(*                                                                         *)
(* Numerals are records of digits, numbers records of the fields of the    *)
(* 64 (32) bits.  The widths are constants: 15 digits and 53 bits become   *)
(* 3 and 13, which keeps 10^(ND+1) between 2^(W+1) and 2^W + 2^(W-2) as    *)
(* the code relies on, and the five declets become one; the 8 digits that  *)
(* 32 bits hold become 2, less than are read, as 8 are less than 15.  A    *)
(* BCD mantissa is the number it stands for.                               *)
(***************************************************************************)
EXTENDS Integers, Sequences, SequencesExt, FiniteSetsExt

CONSTANTS
    ND,         \* digits taken from a numeral: 15
    NT,         \* digits printed: 16
    MD,         \* digits of a mantissa that a mask of 32 bits keeps: 8
    W,          \* bits of a binary mantissa: 53
    Bias,       \* of the exponent: 398
    EC,         \* exponent bits behind the two leading ones: 8
    Wide        \* TRUE: dfp754_d64.c, FALSE: dfp754_d32.c

\* what the code relies on
WellScaled ==
    /\ ND \in Nat \ {0} /\ NT \in {ND, ND + 1}
    /\ MD \in Nat \ {0} /\ (Wide <=> MD < ND)
    /\ 2 ^ W < 10 ^ NT /\ 10 ^ NT <= 2 ^ W + 2 ^ (W - 2)
    /\ Bias \in 0 .. 2 ^ (EC + 2) - 1 /\ Wide \in BOOLEAN

NaN == [enc |-> "nan"]

\* the number a sequence of digits stands for, and back
Value(ds) ==
    LET v[j \in 0 .. Len(ds)] == IF j = 0 THEN 0 ELSE 10 * v[j - 1] + ds[j] IN v[Len(ds)]

Digits(m) ==
    LET k == Min({j \in 0 .. 9 : m < 10 ^ j})
    IN  [i \in 1 .. k |-> (m \div 10 ^ (k - i)) % 10]

Zeros(k) == [i \in 1 .. k |-> 0]

-----------------------------------------------------------------------------
(* Declets: three digits in ten bits, as abc def ghij.                     *)

Declet(abc, def, ghij) == 128 * abc + 16 * def + ghij

\* a large digit, 8 or 9, keeps only its low bit; the bits saved say which
\* digits are large, and make room for a small one's
pack_declet(d2, d1, d0) ==
    LET hi(d) == 2 * (d \div 2)
        lo(d) == d % 2
    IN  CASE d2 < 8 /\ d1 < 8 /\ d0 < 8    -> Declet(d2, d1, d0)
          [] d2 < 8 /\ d1 < 8 /\ d0 >= 8   -> Declet(d2, d1, 8 + lo(d0))
          [] d2 < 8 /\ d1 >= 8 /\ d0 < 8   -> Declet(d2, hi(d0) + lo(d1), 10 + lo(d0))
          [] d2 < 8 /\ d1 >= 8 /\ d0 >= 8  -> Declet(d2, 4 + lo(d1), 14 + lo(d0))
          [] d2 >= 8 /\ d1 < 8 /\ d0 < 8   -> Declet(hi(d0) + lo(d2), d1, 12 + lo(d0))
          [] d2 >= 8 /\ d1 < 8 /\ d0 >= 8  -> Declet(hi(d1) + lo(d2), 2 + lo(d1), 14 + lo(d0))
          [] d2 >= 8 /\ d1 >= 8 /\ d0 < 8  -> Declet(hi(d0) + lo(d2), lo(d1), 14 + lo(d0))
          [] d2 >= 8 /\ d1 >= 8 /\ d0 >= 8 -> Declet(lo(d2), 6 + lo(d1), 14 + lo(d0))

\* the number of three digits declet x stands for
unpack_declet(x) ==
    LET abc == x \div 128
        def == (x \div 16) % 8
        ghi == (x \div 2) % 8
        c   == 8 + (abc % 2)
        f   == 8 + (def % 2)
        j   == 8 + (x % 2)
        n(d2, d1, d0) == 100 * d2 + 10 * d1 + d0
        small(b, lo)  == 2 * (b \div 2) + (lo % 2)
    IN  CASE ghi < 5 -> n(abc, def, x % 16)
          [] ghi = 5 -> n(abc, f, small(def, x))
          [] ghi = 6 -> n(c, def, small(abc, x))
          [] ghi = 7 /\ def \div 2 = 2 -> n(abc, f, j)
          [] ghi = 7 /\ def \div 2 = 1 -> n(c, small(abc, def), j)
          [] ghi = 7 /\ def \div 2 = 0 -> n(c, f, small(abc, x))
          [] ghi = 7 /\ def \div 2 = 3 -> n(c, f, j)

-----------------------------------------------------------------------------
(* Numbers.  ex is the exponent field.  In the binary encoding m are the   *)
(* mantissa bits stored, in the packed one t is the leading digit as far   *)
(* as stored and lo the declet; big is the form of the leading bits 11.    *)

assemble_bid(m, ex, s) ==
    LET big == (m \div 2 ^ W) % 2 = 1
    IN  [enc |-> "bid", s |-> s, big |-> big, ex |-> ex,
         m |-> m % 2 ^ (IF big THEN W - 2 ELSE W)]

mant_bid(x) == IF x.big THEN 2 ^ W + x.m ELSE x.m

\* a mantissa has ND digits; one carried past that is cut off
bcdtobid(b) == assemble_bid(b.mant % 10 ^ ND, b.expo + Bias, b.sign)

\* the declet, and what is above it as leading digit
bcdtodpd(b) ==
    LET m  == b.mant % 1000
        hi == b.mant \div 1000
    IN  [enc |-> "dpd", s |-> b.sign, big |-> hi >= 8, ex |-> b.expo + Bias,
         t |-> (hi % 10) % 8,
         lo |-> pack_declet(m \div 100, (m \div 10) % 10, m % 10)]

top_dpd(x) == IF x.big THEN 8 + (x.t % 2) ELSE x.t

\* with the declet unpacked, as it is wherever a program asks for it
mant_dpd(x) == 1000 * top_dpd(x) + unpack_declet(x.lo)

\* all bits 0: exponent 0
quantexpbid(x) ==
    IF <<x.s, x.big, x.ex, x.m>> = <<0, FALSE, 0, 0>> THEN 0 ELSE x.ex - Bias

\* In the wide form with a leading 8 or 9 the mask is one bit too low: it gets
\* the lower of the exponent's two leading bits and, as the next, the digit's.
quantexpdpd(x) ==
    LET high  == (x.ex \div 2 ^ EC) % 2
        low   == x.ex % 2 ^ EC
        mixed == IF x.t % 2 = 1 /\ low < 2 ^ (EC - 1) THEN low + 2 ^ (EC - 1) ELSE low
    IN  IF <<x.s, x.big, x.ex, x.t>> = <<0, FALSE, 0, 0>> THEN 0
        ELSE IF x.big /\ Wide THEN high * 2 ^ EC + mixed - Bias
        ELSE x.ex - Bias

quantexpd(x) == IF x.enc = "bid" THEN quantexpbid(x) ELSE quantexpdpd(x)
mantd(x)     == IF x.enc = "bid" THEN mant_bid(x) ELSE mant_dpd(x)

\* what the printers take a number apart into
unpackd(x) == [mant |-> mantd(x), expo |-> quantexpd(x), sign |-> x.s]

-----------------------------------------------------------------------------
(* Reading.  A numeral has a sign "", "+" or "-", digits, and perhaps a    *)
(* point and more digits.                                                  *)

\* Upwards nines are skipped and become zeros, downwards zeros are skipped and
\* stay: k of them.  The digit in front of them is changed, and of those in
\* front of that one only what the mask ~0b1111U has room for is kept, which
\* has 32 bits whatever the width of mant.  Never called with 0 and -1.
round_bcd(mant, roff) ==
    LET k == Min({j \in 0 .. 9 : (mant \div 10 ^ j) % 10 # (IF roff = 1 THEN 9 ELSE 0)})
    IN  (((mant \div 10 ^ k) % 10 ^ MD) + roff) * 10 ^ k

\* the digits before the point, without leading zeros
Leading(n) ==
    SubSeq(n.int, Min({j \in DOMAIN n.int : n.int[j] # 0} \cup {Len(n.int) + 1}), Len(n.int))

Taken(n) == SubSeq(Leading(n), 1, Min({ND, Len(Leading(n))}))

\* the digits after the point that still go into the mantissa
TakenFrac(n) == SubSeq(n.frac, 1, Min({ND - Len(Taken(n)), Len(n.frac)}))

\* The digit behind the last one taken decides; behind a point that comes
\* right after the last one nothing does.
Roff(n) ==
    LET a == Taken(n)
        b == TakenFrac(n)
    IN  IF Len(Leading(n)) > ND THEN Leading(n)[ND + 1] >= 5
        ELSE Len(a) < ND /\ Len(b) < Len(n.frac) /\ n.frac[Len(b) + 1] >= 5

\* rounding 0 down does not come to an end
Endless(n) == n.sign = "-" /\ Roff(n) /\ Value(Taken(n) \o TakenFrac(n)) = 0

\* digits left of the point that are not taken do not count
strtobcd_NoExpo(n) ==
    [mant |-> Value(Taken(n) \o TakenFrac(n)), expo |-> -Len(TakenFrac(n)),
     sign |-> IF n.sign = "-" THEN 1 ELSE 0]

strtobcd(n) ==
    LET mant == Value(Taken(n) \o TakenFrac(n))
        neg  == n.sign = "-"
    IN  [mant |-> IF Roff(n) THEN round_bcd(mant, IF neg THEN -1 ELSE 1) ELSE mant,
         expo |-> Len(Leading(n)) - Len(Taken(n)) - Len(TakenFrac(n)),
         sign |-> IF neg THEN 1 ELSE 0]

strtobid(n) == bcdtobid(strtobcd(n))
strtodpd(n) == bcdtodpd(strtobcd(n))

strtod(enc, n) == IF enc = "bid" THEN strtobid(n) ELSE strtodpd(n)

-----------------------------------------------------------------------------
(* Printing.                                                               *)

NaNText == [sign |-> "", int |-> <<>>, frac |-> <<>>]

\* zeros behind the point are left out
bcdtostr_NoPad(b) ==
    LET f  == IF b.expo < 0 THEN -b.expo ELSE 0
        ds == Digits(b.mant)
        k  == IF Len(ds) > f THEN Len(ds) - f ELSE 0
    IN  [sign |-> IF b.sign = 1 THEN "-" ELSE "",
         int  |-> SubSeq(ds, 1, k) \o Zeros(IF b.expo > 0 THEN b.expo ELSE 0),
         frac |-> SubSeq(ds, k + 1, Len(ds))]

\* digits from the right: fraction, point, zeros of the exponent, the rest
bcdtostr(b) ==
    LET f  == IF b.expo < 0 THEN -b.expo ELSE 0
        ds == Digits(b.mant)
        l  == IF Len(ds) > f THEN SubSeq(ds, 1, Len(ds) - f) ELSE <<0>>
    IN  [sign |-> IF b.sign = 1 THEN "-" ELSE "",
         int  |-> l \o Zeros(IF b.expo > 0 THEN b.expo ELSE 0),
         frac |-> IF Len(ds) >= f THEN SubSeq(ds, Len(ds) - f + 1, Len(ds))
                  ELSE Zeros(f - Len(ds)) \o ds]

\* no sign on a zero
Unsigned0(b) == IF b.mant = 0 THEN [b EXCEPT !.sign = 0] ELSE b

bidtostr(x) ==
    LET b == Unsigned0(unpackd(x))
    IN  bcdtostr([b EXCEPT !.mant = @ % 10 ^ NT])

dpdtostr(x) == bcdtostr(Unsigned0(unpackd(x)))

dtostr(x) ==
    IF x = NaN THEN NaNText ELSE IF x.enc = "bid" THEN bidtostr(x) ELSE dpdtostr(x)

-----------------------------------------------------------------------------
(* Rounding to the exponent of r, and scaling.                             *)

\* cut off
Shorter_Cut(m) == m \div 10

\* one digit taken off mantissa m
Shorter(m) == (m + 5) \div 10

\* digit by digit, each time rounded
Shortened(m, k) ==
    LET s[j \in 0 .. k] == IF j = 0 THEN m ELSE Shorter(s[j - 1]) IN s[k]

\* mantissa and exponent that m * 10^ex has at exponent er: fewer digits, or
\* more as long as there are not ND of them
Quantum(m, ex, er) ==
    LET k == Min({j \in 0 .. ex - er : m > 0 /\ Len(Digits(m)) + j >= ND} \cup {ex - er})
    IN  IF ex < er THEN [mant |-> Shortened(m, er - ex), expo |-> er]
        ELSE [mant |-> m * 10 ^ k, expo |-> ex - k]

\* a / b as the compiler's arithmetic has it: NT digits, half to even
Quotient(a, b) ==
    LET j == Max({i \in 0 .. 5 : (a * 10 ^ i) \div b < 10 ^ NT})
        m == (a * 10 ^ j) \div b
        r == 2 * ((a * 10 ^ j) % b)
    IN  [mant |-> IF r > b \/ (r = b /\ m % 2 = 1) THEN m + 1 ELSE m, expo |-> -j]

\* a / b rounded to the exponent of a number without fraction
QuantizedQuotient(a, b) == LET x == Quotient(a, b) IN Quantum(x.mant, x.expo, 0).mant

quantizebid(x, r) ==
    LET d == Quantum(mant_bid(x), quantexpbid(x), quantexpbid(r))
    IN  assemble_bid(d.mant, d.expo + Bias, x.s)

\* the wide one shifts the leading digit out
quantizedpd(x, r) ==
    LET m == IF Wide THEN unpack_declet(x.lo) ELSE mant_dpd(x)
        d == Quantum(m, quantexpdpd(x), quantexpdpd(r))
    IN  bcdtodpd([mant |-> d.mant, expo |-> d.expo, sign |-> x.s])

quantized(x, r) == IF x.enc = "bid" THEN quantizebid(x, r) ELSE quantizedpd(x, r)

\* the exponent field, in its place in either form, modulo its width
scalbnbid(x, n) == [x EXCEPT !.ex = (@ + n) % 2 ^ (EC + 2)]
scalbndpd(x, n) == [x EXCEPT !.ex = (@ + n) % 2 ^ (EC + 2)]

scalbnd(x, n) == IF x.enc = "bid" THEN scalbnbid(x, n) ELSE scalbndpd(x, n)

=============================================================================
