-------------------------------- MODULE XQuo --------------------------------
(***************************************************************************)
(* src/src/xquo.c: a line of the input becomes a quote, and time stamps    *)
(* are read and printed.                                                   *)
(*                                                                         *)
(* A line is the sequence of its fields: time stamps [sec, frac] with frac *)
(* the digits behind the point, an instrument, the action [side, flavour]  *)
(* as two ASCII codes, and the price and the quantity as numerals.         *)
(***************************************************************************)
EXTENDS Decimal64, Integers, Sequences, SequencesExt

CONSTANTS
    G,          \* digits of a unit of time: 3, so that 3*G make a second
    NATV        \* no time

NSECS == 10 ^ (3 * G)

\* seconds have to come first, and have to be more than 0; fractions come in
\* whole groups
strtotv(f) ==
    IF "sec" \notin DOMAIN f \/ f.sec = 0 \/ Len(f.frac) > 3 * G \/ Len(f.frac) % G # 0
    THEN NATV
    ELSE f.sec * NSECS + Value(f.frac \o Zeros(3 * G - Len(f.frac)))

\* leading zeros of the fraction are not printed
tvtostr_Unpadded(t) == [sec |-> t \div NSECS, frac |-> Digits(t % NSECS)]

\* seconds, and all the digits of the fraction
tvtostr(t) ==
    LET ds == Digits(t % NSECS)
    IN  [sec |-> t \div NSECS, frac |-> Zeros(3 * G - Len(ds)) \o ds]

-----------------------------------------------------------------------------

NotAXQuo == [s |-> 0]

NoName == [name |-> ""]     \* an instrument field with nothing in it

\* 1, 2 and 3 are levels, everything else is level 0
Flavour(c) == IF c \in 48 .. 51 THEN c - 48 ELSE 0

\* bit 5 cleared, so that letters are capitals
Capital(c) == IF (c \div 32) % 2 = 1 THEN c - 32 ELSE c

\* The test whether the side is known, s ^ '@' < NBOOK_SIDES || s == 'T', is
\* s ^ ('@' < NBOOK_SIDES) || ..., which is s: whatever the letter, its lower
\* four bits are the side.
Side(c) == IF Capital(c) = 0 THEN 0 ELSE Capital(c) % 16

\* a price that does not even begin like a number is none
NoProgress(n) == n.sign = "" /\ n.int = <<>> /\ n.frac = <<>>

\* the quantity or the price keeps the reader busy for ever
Spins(l) == \E i \in 1 .. 2 : Len(l) > i /\ Endless(l[Len(l) + 1 - i])

\* Fields are taken from the right, the time from the left.  What is left of
\* the action is the instrument, the time stamp itself if there is nothing
\* else, and nothing if there is nothing at all.
read_xquo(enc, l) ==
    LET act == l[Len(l) - 2]
        prc == l[Len(l) - 1]
    IN  IF Len(l) < 3 \/ Side(act.side) = 0 THEN NotAXQuo
        ELSE [s |-> Side(act.side), f |-> Flavour(act.flavour),
              p |-> IF NoProgress(prc) THEN NaN ELSE strtod(enc, prc),
              q |-> strtod(enc, l[Len(l)]),
              t |-> strtotv(l[1]),
              ins |-> IF Len(l) = 3 \/ l[Len(l) - 3] = NoName THEN <<>> ELSE <<l[Len(l) - 3]>>]

=============================================================================
