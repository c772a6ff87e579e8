------------------------------- MODULE Depth --------------------------------
(***************************************************************************)
(* The consolidating readers of src/src/books.c: book_ctop(s), book_vtop(s)*)
(* and book_pdo walk down one side of a book until a quantity, a value or  *)
(* a limit price is reached.  A step of this module is a round of one of   *)
(* their loops.                                                            *)
(*                                                                         *)
(* lv is what the iterator returns, best level first.  Results are kept as *)
(* exact fractions [num, den], and prices also as they are returned, px,   *)
(* rounded to the exponent of the level's price (quantizepx), which has no *)
(* fraction here.  book_ctop is book_ctops with n = 1, and book_vtop       *)
(* book_vtops.                                                             *)
(***************************************************************************)
EXTENDS Readers, FiniteSets

CONSTANTS
    Prices,     \* prices of levels
    Qtys,       \* quantities of levels
    Times,      \* and their time stamps
    MaxLevels,  \* bound on the levels of the side
    Wants,      \* consolidation quantities, or values
    MaxN,       \* bound on the number of consolidated levels asked for
    NATV,       \* above every time
    NANPX       \* no limit

\* prices have the digits of a number, of which there are four in Decimal64
ASSUME DepthAssumption ==
    /\ Prices \subseteq {p \in Nat \ {0} : p < 10000}
    /\ Qtys \subseteq Nat \ {0} /\ Wants \subseteq Nat \ {0}
    /\ NATV \in Nat /\ Times \subseteq Nat /\ \A t \in Times : t < NATV
    /\ MaxLevels \in Nat /\ MaxN \in Nat
    /\ NANPX \notin Prices

VARIABLES
    op,         \* "c", "v" or "p": book_ctops, book_vtops, book_pdo
    side,       \* "ASK" or "BID"
    lv,         \* the levels [k, q, t]
    Q, n, lmt,  \* the arguments: quantity or value, levels wanted, limit
    i,          \* iterator calls made
    c, C,       \* value and quantity of the levels walked (r.term, r.base)
    R,          \* what the next consolidated level needs
    out,        \* the consolidated levels found
    yngt, oldt, \* book_pdo's youngest and oldest time
    done

dvars == <<op, side, lv, Q, n, lmt, i, c, C, R, out, yngt, oldt, done>>
args  == <<op, side, lv, Q, n, lmt>>

\* best first
Ordered(s) ==
    \A a, b \in DOMAIN s :
       a < b => IF side = "ASK" THEN s[a].k < s[b].k ELSE s[a].k > s[b].k

Level == [k : Prices, q : Qtys, t : Times]

DepthInit ==
    /\ op \in {"c", "v", "p"} /\ side \in {"ASK", "BID"}
    /\ lv \in UNION {[1 .. m -> Level] : m \in 0 .. MaxLevels}
    /\ Ordered(lv)
    /\ Q \in Wants
    /\ n \in IF op = "p" THEN {0} ELSE 1 .. MaxN
    /\ lmt \in IF op = "p" THEN Prices \cup {NANPX} ELSE {NANPX}
    /\ i = 0 /\ c = 0 /\ C = 0 /\ R = Q /\ out = <<>>
    /\ yngt = 0 /\ oldt = NATV
    /\ done = FALSE

-----------------------------------------------------------------------------
(* book_ctops and book_vtops                                               *)

\* the measure compared with R
Reached == IF op = "c" THEN C ELSE c

\* one call of the iterator
Walk ==
    /\ op \in {"c", "v"} /\ ~done
    /\ Len(out) < n /\ Reached < R
    /\ IF i < Len(lv)
       THEN /\ i' = i + 1
            /\ c' = c + lv[i + 1].k * lv[i + 1].q
            /\ C' = C + lv[i + 1].q
            /\ UNCHANGED done
       ELSE done' = TRUE /\ UNCHANGED <<i, c, C>>
    /\ UNCHANGED <<args, R, out, yngt, oldt>>

\* the consolidated level of price num / den and quantity q
Quoted(num, den, q) ==
    [p |-> [num |-> num, den |-> den], px |-> quantize[<<num, den>>], q |-> q]

\* the excess of the last level is not taken off
Entry_Excess ==
    IF op = "c" THEN Quoted(c, R, [num |-> R, den |-> 1])
    ELSE Quoted(R, C, [num |-> C, den |-> 1])

\* The last level's excess over R is taken off.  With value the excess (c - R) / k
\* is itself a quotient, which the code rounds to 16 digits (books.c:325, 357): it
\* stays a fraction here, and only the price, its last division, is rounded.
Entry ==
    LET k == lv[i].k
        N == C * k - (c - R)
    IN  IF op = "c" THEN Quoted(c - k * (C - R), R, [num |-> R, den |-> 1])
        ELSE Quoted(R * k, N, [num |-> N, den |-> k])

Emit ==
    /\ op \in {"c", "v"} /\ ~done
    /\ Len(out) < n /\ Reached >= R
    /\ out' = Append(out, Entry)
    /\ R' = R + Q
    /\ UNCHANGED <<args, i, c, C, yngt, oldt, done>>

Enough ==
    /\ op \in {"c", "v"} /\ ~done
    /\ Len(out) = n
    /\ done' = TRUE
    /\ UNCHANGED <<args, i, c, C, R, out, yngt, oldt>>

-----------------------------------------------------------------------------
(* book_pdo: R counts down what is still wanted.                           *)

\* a level is taken whole even if less is wanted
Portion_Whole(q, rest) == q

Portion(q, rest) == IF q <= rest THEN q ELSE rest

\* no limit is an infinite one
WithinLimit(k) == lmt = NANPX \/ IF side = "BID" THEN k >= lmt ELSE k <= lmt

book_pdo ==
    /\ op = "p" /\ ~done
    /\ IF R > 0 /\ i < Len(lv) /\ WithinLimit(lv[i + 1].k)
       THEN LET l == lv[i + 1]
                x == Portion(l.q, R)
            IN  /\ i' = i + 1
                /\ c' = c + l.k * x
                /\ C' = C + x
                /\ yngt' = Max({yngt, l.t})
                /\ oldt' = Min({oldt, l.t})
                /\ R' = R - x
                /\ UNCHANGED done
       ELSE done' = TRUE /\ UNCHANGED <<i, c, C, yngt, oldt, R>>
    /\ UNCHANGED <<args, out>>

DepthNext == Walk \/ Emit \/ Enough \/ book_pdo

DepthSpec == DepthInit /\ [][DepthNext]_dvars

-----------------------------------------------------------------------------
(* What the results have to be, without loops.                             *)

\* what each level has, in units and in value
Qty == [a \in DOMAIN lv |-> lv[a].q]
Val == [a \in DOMAIN lv |-> lv[a].k * lv[a].q]

\* the sum of f over the first m levels
Total(f, m) == SumFunctionOnSet(f, 1 .. m)

\* how much of level a is used up by the best x units (of f) of the side
Used(f, a, x) ==
    LET left == x - Total(f, a - 1)
    IN  IF left <= 0 THEN 0 ELSE IF left <= f[a] THEN left ELSE f[a]

\* price of the x best units
Cost(x) == SumFunctionOnSet([a \in DOMAIN lv |-> lv[a].k * Used(Qty, a, x)], DOMAIN lv)

\* the quantity value x buys, in fractions of the price of the last level it
\* reaches: only there it may not buy whole units
Bought(x) ==
    LET k == lv[Max({a \in DOMAIN lv : Used(Val, a, x) > 0})].k
    IN  [num |-> SumFunctionOnSet([a \in DOMAIN lv |-> (Used(Val, a, x) * k) \div lv[a].k],
                                  DOMAIN lv),
         den |-> k]

\* what the side has, in units or in value
Measure == IF op = "c" THEN Qty ELSE Val
Depths == Total(Measure, Len(lv))

Equals(f, num, den) == f.num * den = num * f.den

\* the prices are those of Readers
Summary ==
    LET l == [a \in DOMAIN lv |-> [p |-> lv[a].k, q |-> lv[a].q]]
        r == IF op = "c" THEN book_ctops(l, Q, n) ELSE book_vtops(l, Q, n)
    IN  \A x \in DOMAIN out : out[x].px = r[x].p

\* books.h:242: "Level i equals or exceeds i*Q in quantity" (value): the price of
\* the i-th consolidated level is the average one pays for the best i*Q units,
\* or for what the value i*V buys, exactly, and no level is missing that the
\* side has the depth for.
ConsolidatedExactly ==
    op \in {"c", "v"} =>
       /\ \A x \in DOMAIN out :
             IF op = "c" THEN Equals(out[x].p, Cost(x * Q), x * Q)
             ELSE LET b == Bought(x * Q)
                  IN  /\ Equals(out[x].q, b.num, b.den)
                      /\ Equals(out[x].p, x * Q * b.den, b.num)
       /\ done => Len(out) = Min({n, Depths \div Q}) /\ Summary

\* The price returned is that average rounded to the precision of the price of
\* the last level: rounding digit by digit it is less than 5/9 of a unit off,
\* and never beyond the best or the last price that was needed.
PriceRounded ==
    \A x \in DOMAIN out :
       LET f == out[x].p
           d == out[x].px * f.den - f.num
           K == {lv[a].k : a \in {b \in DOMAIN lv : Used(Measure, b, x * Q) > 0}}
       IN  /\ 9 * d < 5 * f.den /\ -9 * d < 5 * f.den
           /\ out[x].px \in Min(K) .. Max(K)

\* book_pdo fills as much of Q as there is within the limit, for the price of
\* that many best units, and reports the times of exactly the levels it took.
FilledWithinLimit ==
    op = "p" /\ done =>
       LET m    == Cardinality({a \in DOMAIN lv : WithinLimit(lv[a].k)})
           base == Min({Q, Total(Qty, m)})
           hit  == {lv[a].t : a \in {b \in DOMAIN lv : Used(Qty, b, base) > 0}}
       IN  /\ C = base
           /\ c = Cost(base)
           /\ yngt = Max(hit \cup {0})
           /\ oldt = Min(hit \cup {NATV})

=============================================================================
