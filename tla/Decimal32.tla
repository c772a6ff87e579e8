------------------------------ MODULE Decimal32 -----------------------------
(***************************************************************************)
(* src/src/dfp754_d32.c: numbers with 7 digits, all of which are read,     *)
(* printed and kept when rounding; two declets and a digit become one and  *)
(* a digit.  The file is dfp754_d64.c with other widths but for what Wide  *)
(* selects, so its functions are those of Decimal, put together here as    *)
(* they are there.                                                         *)
(***************************************************************************)
EXTENDS Integers

D == INSTANCE Decimal WITH
         ND <- 4, NT <- 4, MD <- 5, W <- 13, Bias <- 101, EC <- 6, Wide <- FALSE

strtobcd32(n)       == D!strtobcd(n)
bcd32tobid(b)       == D!bcdtobid(b)
bcd32todpd(b)       == D!bcdtodpd(b)
strtobid32(n)       == bcd32tobid(strtobcd32(n))
strtodpd32(n)       == bcd32todpd(strtobcd32(n))
strtod32(enc, n)    == IF enc = "bid" THEN strtobid32(n) ELSE strtodpd32(n)

mant_bid32(x)       == D!mant_bid(x)
mant_dpd32(x)       == D!mant_dpd(x)
quantexpbid32(x)    == D!quantexpbid(x)
quantexpdpd32(x)    == D!quantexpdpd(x)
unpackd32(x)        ==
    IF x.enc = "bid" THEN [mant |-> mant_bid32(x), expo |-> quantexpbid32(x), sign |-> x.s]
    ELSE [mant |-> mant_dpd32(x), expo |-> quantexpdpd32(x), sign |-> x.s]

bid32tostr(x)       ==
    LET b == D!Unsigned0(unpackd32(x)) IN D!bcdtostr([b EXCEPT !.mant = @ % 10 ^ 4])
dpd32tostr(x)       == D!bcdtostr(D!Unsigned0(unpackd32(x)))
d32tostr(x)         == IF x = D!NaN THEN D!NaNText
                       ELSE IF x.enc = "bid" THEN bid32tostr(x) ELSE dpd32tostr(x)

quantizebid32(x, r) == D!quantizebid(x, r)
quantizedpd32(x, r) == D!quantizedpd(x, r)
quantized32(x, r)   == IF x.enc = "bid" THEN quantizebid32(x, r) ELSE quantizedpd32(x, r)

scalbnbid32(x, n)   == D!scalbnbid(x, n)
scalbndpd32(x, n)   == D!scalbndpd(x, n)
scalbnd32(x, n)     == IF x.enc = "bid" THEN scalbnbid32(x, n) ELSE scalbndpd32(x, n)

=============================================================================
