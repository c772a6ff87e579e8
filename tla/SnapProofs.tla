----------------------------- MODULE SnapProofs -----------------------------
(***************************************************************************)
(* booksnap's loop: what a snapshot shows, when snapshots are shot and     *)
(* which ones are left out, for every command line and every input.        *)
(***************************************************************************)
EXTENDS Snap, ReadersProofs

-----------------------------------------------------------------------------
(* The grid.                                                               *)

\* Dividing rounds down.
LEMMA RoundedDown ==
  ASSUME NEW n \in Int, NEW m \in Nat \ {0}
  PROVE  /\ n \div m \in Int
         /\ (n \div m) * m <= n
         /\ n < (n \div m + 1) * m
         /\ n = (n \div m) * m + (n % m)
         /\ n % m \in 0 .. m - 1
OBVIOUS

\* Multiples have no rest.
LEMMA NoRest ==
  ASSUME NEW a \in Int, NEW m \in Nat \ {0}
  PROVE  (a * m) % m = 0
OBVIOUS

\* Multiples are ordered as their factors.
LEMMA Factors ==
  ASSUME NEW a \in Int, NEW b \in Int, NEW m \in Nat \ {0}
  PROVE  a * m < b * m => a < b
OBVIOUS

\* Rounding up: the first stamp of the grid that is not before m.
LEMMA CeilIsNext ==
  ASSUME intv \in Nat \ {0}, offs \in Int, NEW m \in Int
  PROVE  /\ Ceil(m) \in Int /\ Ceil(m) >= m
         /\ \E a \in Int : Ceil(m) = a * intv + offs
         /\ \A a \in Int : a * intv + offs < Ceil(m) => a * intv + offs < m
<1> DEFINE i == intv
           o == offs
           x == m - 1 - o
           d == x \div i
<1>1. Ceil(m) = (d + 1) * i + o
  BY DEF Ceil
<1>2. i \in Nat \ {0} /\ o \in Int /\ x \in Int
  OBVIOUS
<1>3. d \in Int /\ d * i <= x /\ x < (d + 1) * i
  <2> HIDE DEF i, o, x
  <2> QED BY <1>2, RoundedDown
<1>4. x = m - 1 - o
  OBVIOUS
<1> HIDE DEF i, o, x, d
<1>5. (d + 1) * i \in Int /\ d * i \in Int /\ d + 1 \in Int
  BY <1>2, <1>3
<1>6. Ceil(m) \in Int /\ Ceil(m) >= m
  BY <1>1, <1>2, <1>3, <1>4, <1>5
<1>7. ASSUME NEW a \in Int, a * i + o < Ceil(m) PROVE a * i + o < m
  <2>1. a * i \in Int
    BY <1>2
  <2>2. a * i < (d + 1) * i
    BY <2>1, <1>1, <1>2, <1>5, <1>7
  <2>3. a < d + 1
    BY <2>2, <1>2, <1>5, Factors
  <2>4. ~(d * i < a * i)
    BY <2>3, <1>2, <1>3, Factors
  <2> QED BY <2>1, <2>4, <1>2, <1>3, <1>4, <1>5
<1>8. \E a \in Int : Ceil(m) = a * i + o
  BY <1>1, <1>5
<1> QED BY <1>6, <1>7, <1>8 DEF i, o

\* The later, the later.
LEMMA CeilGrows ==
  ASSUME intv \in Nat \ {0}, offs \in Int, NEW m \in Int, NEW n \in Int, m <= n
  PROVE  Ceil(m) <= Ceil(n)
<1>1. Ceil(m) \in Int /\ Ceil(n) \in Int /\ Ceil(n) >= n
  BY CeilIsNext
<1>2. PICK a \in Int : Ceil(n) = a * intv + offs
  BY CeilIsNext
<1>3. a * intv + offs < Ceil(m) => a * intv + offs < m
  BY CeilIsNext
<1> QED BY <1>1, <1>2, <1>3

-----------------------------------------------------------------------------
(* The command line.                                                       *)

\* Products of positive numbers are positive.
LEMMA Products ==
  ASSUME NEW a \in Nat \ {0}, NEW b \in Nat \ {0}
  PROVE  a * b \in Nat \ {0}
OBVIOUS

\* A unit is a number of nanoseconds.
LEMMA Units == NSECS \in Nat \ {0} /\ \A suf : sufstrtotv(suf) \in Nat
<1> DEFINE mm == MSECS * MSECS
           ss == SIXTY * SIXTY
<1>1. MSECS \in Nat \ {0} /\ SIXTY \in Nat \ {0} /\ NATV \in Nat
  BY SnapAssumption
<1>2. mm \in Nat \ {0} /\ ss \in Nat \ {0}
  BY <1>1
<1> HIDE DEF mm, ss
<1>3. mm * MSECS \in Nat \ {0} /\ ss * MSECS \in Nat \ {0}
  BY <1>1, <1>2
<1>4. NSECS \in Nat \ {0}
  BY <1>3 DEF NSECS, mm
<1>5. SIXTY * NSECS \in Nat \ {0}
  BY <1>1, <1>4
<1>6. ASSUME NEW suf PROVE sufstrtotv(suf) \in Nat
  BY <1>1, <1>2, <1>3, <1>4, <1>5, Zenon DEF sufstrtotv, mm, ss
<1> QED BY <1>4, <1>6

\* An argument comes to a number of nanoseconds.
LEMMA ScaledIs ==
  ASSUME NEW a, NEW d \in Nat \ {0}
  PROVE  /\ a[1] \in Int => Scaled(a, d) \in Int
         /\ a[1] \in Nat => Scaled(a, d) \in Nat
         /\ a[1] \in Nat \ {0} => Scaled(a, d) \in Nat \ {0}
<1> DEFINE u == sufstrtotv(a[2])
           v == IF u = 0 THEN d ELSE u
<1>1. Scaled(a, d) = a[1] * v
  BY DEF Scaled
<1>2. v \in Nat \ {0}
  BY Units
<1> HIDE DEF v
<1> QED BY <1>1, <1>2

\* A command line that is accepted.
LEMMA LineIs ==
  ASSUME NEW o \in CommandLines, Valid(o)
  PROVE  /\ Interval(o) \in Nat \ {0} /\ Offset(o) \in Int
         /\ o.invalidate # <<>> => o.invalidate[1] \in Nat
         /\ o.stamps \in Seq(Nat \ {0}) /\ o.N \in Int \ {0} /\ o.C \in Int \ {0}
<1>1. o \in Lines
  BY LinesAssumption
<1>2. /\ o.interval \in WithUnit(Nat) /\ o.offset \in WithUnit(Int)
      /\ o.invalidate \in WithUnit(Nat) /\ o.stamps \in Seq(Nat \ {0})
      /\ o.N \in Int /\ o.C \in Int
  BY <1>1 DEF Lines
<1>3. \A a : a \in WithUnit(Nat) /\ a # <<>> => a[1] \in Nat
  BY DEF WithUnit
<1>4. \A a : a \in WithUnit(Int) /\ a # <<>> => a[1] \in Int
  BY DEF WithUnit
<1>5. o.interval # <<>> => o.interval[1] \in Nat \ {0}
  BY <1>2, <1>3 DEF Valid
<1>6. Interval(o) \in Nat \ {0}
  <2>1. CASE o.interval = <<>>
    BY <2>1, Units DEF Interval
  <2>2. CASE o.interval # <<>>
    BY <2>2, <1>5, ScaledIs, Units DEF Interval
  <2> QED BY <2>1, <2>2
<1>7. Offset(o) \in Int
  <2>1. CASE o.offset = <<>> \/ o.offset[1] = 0
    BY <2>1 DEF Offset
  <2>2. CASE ~(o.offset = <<>> \/ o.offset[1] = 0)
    <3>1. o.offset[1] \in Int
      BY <2>2, <1>2, <1>4
    <3>2. Scaled(o.offset, NSECS) \in Int
      BY <3>1, ScaledIs, Units
    <3> QED BY <2>2, <3>2 DEF Offset
  <2> QED BY <2>1, <2>2
<1>8. o.N # 0 /\ o.C # 0
  BY DEF Valid
<1> QED BY <1>2, <1>3, <1>6, <1>7, <1>8

\* The grid is that of the options: the offset differs from the one given by
\* a multiple of the interval.
LEMMA CanonicalIs ==
  ASSUME NEW o \in CommandLines, Valid(o), o.stamps = <<>>
  PROVE  Canonical(o) \in Int /\ \E z \in Int : Canonical(o) = Offset(o) + z * Interval(o)
<1> DEFINE I == Interval(o)
           x == Offset(o)
<1>1. I \in Nat \ {0} /\ x \in Int
  BY LineIs
<1>2. Canonical(o) = IF x = 0 THEN x ELSE IF x > 0 THEN x % I ELSE I - ((-x) % I)
  BY DEF Canonical
<1> HIDE DEF I, x
<1>3. CASE x = 0
  <2>1. x = x + 0 * I
    BY <1>1
  <2> QED BY <2>1, <1>1, <1>2, <1>3 DEF I, x
<1>4. CASE x > 0
  <2> DEFINE d == x \div I
  <2>1. d \in Int /\ x = d * I + (x % I) /\ x % I \in Int
    BY <1>1, RoundedDown
  <2> HIDE DEF d
  <2>2. -d \in Int /\ x % I = x + (-d) * I
    BY <2>1, <1>1
  <2> QED BY <2>1, <2>2, <1>1, <1>2, <1>4 DEF I, x
<1>5. CASE x < 0
  <2> DEFINE y == -x
             d == y \div I
             r == y % I
  <2>0. y \in Int /\ y = -x
    BY <1>1
  <2> HIDE DEF y
  <2>1. d \in Int /\ y = d * I + r /\ r \in Int
    BY <2>0, <1>1, RoundedDown
  <2>2. Canonical(o) = I - r
    BY <1>1, <1>2, <1>5, <2>0 DEF y
  <2> HIDE DEF d, r
  <2>3. d + 1 \in Int /\ I - r = x + (d + 1) * I
    <3>1. d * I \in Int /\ (d + 1) * I = d * I + I
      BY <2>1, <1>1
    <3> QED BY <3>1, <2>0, <2>1, <1>1
  <2> QED BY <2>1, <2>2, <2>3, <1>1 DEF I, x
<1> QED BY <1>1, <1>3, <1>4, <1>5

\* What the program makes of its command line.
LEMMA OptionsAre ==
  ASSUME cmd \in CommandLines, Valid(cmd), opt = Options(cmd)
  PROVE  /\ intv \in Nat \ {0} /\ inva \in Nat
         /\ Stamps = cmd.stamps /\ Stamps \in Seq(Nat \ {0})
         /\ Stamps = <<>> => /\ offs \in Int /\ intv = Interval(cmd)
                             /\ \E z \in Int : offs = Offset(cmd) + z * Interval(cmd)
         /\ opt.snap = Snapper(cmd) /\ opt.ntop = cmd.N /\ opt.cqty = cmd.C
<1> DEFINE i == IF cmd.stamps # <<>> THEN 1 ELSE Interval(cmd)
<1>1. /\ opt.intv = i /\ opt.offs = Canonical(cmd)
      /\ opt.inva = IF cmd.invalidate = <<>> THEN 0 ELSE Scaled(cmd.invalidate, i)
      /\ opt.snap = Snapper(cmd) /\ opt.ntop = cmd.N /\ opt.cqty = cmd.C
      /\ opt.stamps = cmd.stamps
  BY DEF Options
<1>2. i \in Nat \ {0}
  BY LineIs
<1>3. opt.inva \in Nat
  <2>1. CASE cmd.invalidate = <<>>
    BY <2>1, <1>1
  <2>2. CASE cmd.invalidate # <<>>
    <3>1. cmd.invalidate[1] \in Nat
      BY <2>2, LineIs
    <3> HIDE DEF i
    <3>2. Scaled(cmd.invalidate, i) \in Nat
      BY <3>1, <1>2, ScaledIs
    <3> QED BY <2>2, <3>2, <1>1
  <2> QED BY <2>1, <2>2
<1>4. cmd.stamps \in Seq(Nat \ {0})
  BY LineIs
<1>5. cmd.stamps = <<>> => /\ Canonical(cmd) \in Int
                          /\ \E z \in Int : Canonical(cmd) = Offset(cmd) + z * Interval(cmd)
  BY CanonicalIs
<1> QED BY <1>1, <1>2, <1>3, <1>4, <1>5 DEF intv, offs, inva, Stamps

-----------------------------------------------------------------------------
(* The snappers.                                                           *)

\* The greater of one and another number.
LEMMA AtLeastOne ==
  ASSUME NEW n \in Int
  PROVE  Max({1, n}) = IF n <= 1 THEN 1 ELSE n
<1> DEFINE m == IF n <= 1 THEN 1 ELSE n
<1>1. m \in {1, n} /\ \A y \in {1, n} : m >= y
  OBVIOUS
<1>2. \A x \in {1, n} : (\A y \in {1, n} : x >= y) => x = m
  OBVIOUS
<1> QED BY <1>1, <1>2 DEF Max

\* The first n levels of a book are the levels with less than n ahead.
LEMMA TopLevels ==
  ASSUME NEW P \in SUBSET Prices, NEW n \in Nat
  PROVE  book_tops(Ladder(P), n) = Ladder({p \in P : Cardinality({r \in P : r > p}) < n})
<1> DEFINE T == {p \in P : Cardinality({r \in P : r > p}) < n}
           l == BestFirst(P, TRUE)
           u == BestFirst(T, TRUE)
           m == Min({n, Len(l)})
           L == [i \in DOMAIN l |-> [p |-> l[i], q |-> 1]]
<1>1. P \in SUBSET Int /\ IsFiniteSet(P)
  <2>1. Prices \in SUBSET Int /\ IsFiniteSet(Prices)
    BY SnapAssumption
  <2> QED BY <2>1, FS_Subset
<1>2. T = {p \in P : Cardinality({r \in P : Precedes(TRUE, r, p)}) < n}
  BY DEF Precedes
<1>3. u = SubSeq(l, 1, m)
  <2>1. BestFirst({p \in P : Cardinality({r \in P : Precedes(TRUE, r, p)}) < n}, TRUE) = SubSeq(l, 1, m)
    BY <1>1, FirstInOrder
  <2> QED BY <2>1, <1>2
<1>4. l \in Seq(P) /\ Len(l) \in Nat /\ DOMAIN l = 1 .. Len(l)
  <2>1. l = BestFirst(P, TRUE)
    OBVIOUS
  <2> HIDE DEF l
  <2> QED BY <2>1, <1>1, InOrder
<1>5. Ladder(P) = L /\ Ladder(T) = [i \in DOMAIN u |-> [p |-> u[i], q |-> 1]]
  BY DEF Ladder
<1> HIDE DEF T, l, u, L
<1>6. m \in Nat /\ m <= Len(l)
  BY <1>4, LesserOf
<1>7. L = [i \in 1 .. Len(l) |-> [p |-> l[i], q |-> 1]]
  BY <1>4 DEF L
<1> HIDE DEF m
<1>8. L \in Seq([p : P, q : {1}]) /\ Len(L) = Len(l)
  <2>1. \A i \in 1 .. Len(l) : [p |-> l[i], q |-> 1] \in [p : P, q : {1}]
    BY <1>4
  <2> DEFINE R == [p : P, q : {1}]
             k == Len(l)
  <2>2. L \in [1 .. k -> R]
    BY <2>1, <1>7
  <2> HIDE DEF R, k
  <2>3. k \in Nat
    BY <1>4 DEF k
  <2>4. L \in Seq(R) /\ Len(L) = k
    BY <2>2, <2>3
  <2> QED BY <2>4 DEF R, k
<1>9. DOMAIN u = 1 .. m /\ \A i \in 1 .. m : u[i] = l[i]
  <2>1. DOMAIN u = 1 .. m
    BY <1>3, <1>4, <1>6
  <2>2. \A i \in 1 .. m : u[i] = l[i]
    BY <1>3, <1>4, <1>6
  <2> QED BY <2>1, <2>2
<1>10. SubSeq(L, 1, m) = [i \in 1 .. m |-> L[i]]
  BY <1>4, <1>6, <1>8
<1>11. \A i \in 1 .. m : L[i] = [p |-> u[i], q |-> 1]
  <2> SUFFICES ASSUME NEW i \in 1 .. m PROVE L[i] = [p |-> u[i], q |-> 1]
    OBVIOUS
  <2>1. i \in 1 .. Len(l) /\ u[i] = l[i]
    BY <1>4, <1>6, <1>9
  <2> QED BY <2>1, <1>7
<1>12. SubSeq(L, 1, m) = [i \in 1 .. m |-> [p |-> u[i], q |-> 1]]
  BY <1>10, <1>11
<1>13. book_tops(L, n) = SubSeq(L, 1, m)
  BY <1>8 DEF book_tops, m
<1> QED BY <1>5, <1>9, <1>12, <1>13 DEF T

\* Whatever the options, the snapper chosen shows what they ask for.
LEMMA SnapIsWanted ==
  ASSUME cmd \in CommandLines, Valid(cmd), opt = Options(cmd), NEW b
  PROVE  snap(b) = Wanted(Live(b))
<1> DEFINE P == Live(b)
           L == Ladder(P)
           n == Max({1, cmd.N})
<1>1. P \in SUBSET Prices
  BY DEF Live
<1>2. cmd.N \in Int \ {0} /\ cmd.C \in Int \ {0} /\ Snapper(cmd) # "snap3"
  BY LineIs, LinesAssumption
<1>3. opt.snap = Snapper(cmd) /\ opt.ntop = cmd.N /\ opt.cqty = cmd.C
  BY OptionsAre
<1>4. n = IF cmd.N <= 1 THEN 1 ELSE cmd.N
  BY <1>2, AtLeastOne
<1>5. Wanted(P) = IF cmd.C > 0
        THEN IF cmd.byValue THEN book_vtops(L, cmd.C, n) ELSE book_ctops(L, cmd.C, n)
        ELSE IF cmd.N > 0 \/ 1 \in cmd.flags
             THEN Ladder({p \in P : Cardinality({r \in P : r > p}) < n}) ELSE L
  BY DEF Wanted
<1> HIDE DEF P, n
<1>6. n \in Nat
  BY <1>2, <1>4
<1>7. book_tops(L, n) = Ladder({p \in P : Cardinality({r \in P : r > p}) < n})
  BY <1>1, <1>6, TopLevels
<1>8. L = Ladder(Live(b))
  BY DEF P
<1> HIDE DEF L
<1>9. CASE cmd.C > 0
  <2>1. Snapper(cmd) = IF cmd.byValue THEN (IF cmd.N <= 1 THEN "snapv" ELSE "snapvn")
                       ELSE IF cmd.N <= 1 THEN "snapc" ELSE "snapcn"
    BY <1>9 DEF Snapper
  <2>2. snap(b) = IF cmd.byValue THEN book_vtops(L, cmd.C, n) ELSE book_ctops(L, cmd.C, n)
    BY <2>1, <1>3, <1>4, <1>8 DEF snap, snapv, snapvn, snapc, snapcn
  <2> QED BY <2>2, <1>5, <1>9 DEF P
<1>10. CASE ~(cmd.C > 0) /\ cmd.N > 0
  <2>1. Snapper(cmd) = IF cmd.N <= 1 THEN "snap1" ELSE "snapn"
    BY <1>10 DEF Snapper
  <2>2. snap(b) = book_tops(L, n)
    BY <2>1, <1>3, <1>4, <1>8 DEF snap, snap1, snapn
  <2> QED BY <2>2, <1>5, <1>7, <1>10 DEF P
<1>11. CASE ~(cmd.C > 0) /\ ~(cmd.N > 0)
  <2>1. Snapper(cmd) = IF 2 \in cmd.flags THEN (IF 1 \in cmd.flags THEN "snap12" ELSE "snap2")
                       ELSE IF 3 \in cmd.flags THEN "snap3"
                       ELSE IF 1 \in cmd.flags THEN "snap1" ELSE "snap2"
    BY <1>11 DEF Snapper
  <2>2. n = 1
    BY <1>2, <1>4, <1>11
  <2>3. CASE 1 \in cmd.flags
    <3>1. Snapper(cmd) \in {"snap1", "snap12"}
      BY <2>1, <2>3, <1>2
    <3>2. snap(b) = book_tops(L, n)
      BY <3>1, <2>2, <1>3, <1>8 DEF snap, snap1, snap12
    <3> QED BY <3>2, <2>3, <1>5, <1>7, <1>11 DEF P
  <2>4. CASE 1 \notin cmd.flags
    <3>1. Snapper(cmd) = "snap2"
      BY <2>1, <2>4, <1>2
    <3>2. snap(b) = L
      BY <3>1, <1>3, <1>8 DEF snap, snap2
    <3> QED BY <3>2, <2>4, <1>5, <1>11 DEF P
  <2> QED BY <2>3, <2>4
<1> QED BY <1>9, <1>10, <1>11

-----------------------------------------------------------------------------
(* The inductive invariant.                                                *)

Ledgers == [Names -> [Prices -> Nat]]

Typed ==
    /\ cmd \in CommandLines /\ Valid(cmd) /\ opt = Options(cmd)
    /\ metr \in Nat /\ oldm \in Nat /\ pos \in Nat /\ stamp \in Nat /\ since \in Nat
    /\ book \in Ledgers /\ quoted \in Ledgers
    /\ known \in SUBSET Names
    /\ q.t \in 0 .. Horizon
    /\ pc \in {"read", "snap"}

\* A level last quoted at d has the expiry b of that quote, or it has been
\* cleaned up at a snapshot, the last one being at s, because that is over.
Entered(b, d, s) ==
    \/ b = IF d = 0 THEN 0 ELSE d + inva
    \/ inva # 0 /\ b = 0 /\ d + inva <= s

\* No book has a quote the metronome is not ahead of.
BooksKeep ==
    \A k \in Names, p \in Prices :
       quoted[k][p] <= metr /\ Entered(book[k][p], quoted[k][p], stamp)

\* The metronome is ahead of the last snapshot, and the quote in hand ahead of
\* the metronome while it catches up.
Beats ==
    /\ metr = 0 => stamp = 0 /\ pc = "read" /\ since = 0
    /\ metr # 0 => stamp < metr
    /\ pc = "snap" => metr < q.t

\* m is a time the metronome may point at, having read j stamps
Beat(m, j) ==
    IF Stamps = <<>> THEN \E a \in Int : m = a * intv + offs
    ELSE /\ j \in 1 .. Len(Stamps) + 1
         /\ m = IF j <= Len(Stamps) THEN Stamps[j] ELSE NATV

OnGrid == metr # 0 => Beat(metr, pos)

\* The stamps before the metronome are over, and no quote has been added since
\* the last snapshot that is not after them.
Quiet ==
    Stamps = <<>> /\ inva = 0 /\ metr # 0 =>
       \A a \in Int : a * intv + offs < metr =>
          a * intv + offs < q.t /\ (since # 0 => a * intv + offs < since)

\* A jump ahead was for the quote in hand and past everything quoted.
JumpedOver ==
    \/ oldm <= metr
    \/ /\ pc = "snap" /\ oldm = q.t
       /\ \A k \in Names, p \in Prices : quoted[k][p] + inva <= metr

\* What has been shown is not shown for longer than it may be.
Shows ==
    /\ \A k \in Names : shot[k] # <<>> => k \in known /\ stamp # 0
    /\ Stamps = <<>> /\ inva # 0 =>
          /\ JumpedOver
          /\ (\E k \in Names : shot[k] # <<>>) => metr <= Ceil(stamp + inva)

SnapInv == pc # "end" => Typed /\ BooksKeep /\ Beats /\ OnGrid /\ Quiet /\ Shows

-----------------------------------------------------------------------------
(* The metronome.                                                          *)

\* The first stamp of the file that is not before t, or past the last one.
LEMMA FirstStamp ==
  ASSUME Typed, NEW t \in Nat,
         NEW j, j = Min({i \in 1 .. Len(Stamps) : Stamps[i] >= t} \cup {Len(Stamps) + 1})
  PROVE  j \in 1 .. Len(Stamps) + 1 /\ (j <= Len(Stamps) => Stamps[j] >= t)
<1> DEFINE n == Len(Stamps)
           S == {i \in 1 .. n : Stamps[i] >= t} \cup {n + 1}
<1>1. n \in Nat
  <2>1. Stamps \in Seq(Nat \ {0})
    BY OptionsAre DEF Typed
  <2> QED BY <2>1
<1>2. \A i \in S : i \in 1 .. n + 1 /\ (i <= n => Stamps[i] >= t)
  BY <1>1
<1>3. n + 1 \in S
  OBVIOUS
<1>4. j = Min(S)
  OBVIOUS
<1> HIDE DEF S, n
<1>5. S \in SUBSET Nat
  BY <1>1, <1>2
<1>6. j \in S
  BY <1>3, <1>4, <1>5, LeastOf
<1> QED BY <1>2, <1>6 DEF n

\* The first quote sets the metronome to a time that is not before it.
LEMMA FirstBeat ==
  ASSUME Typed, metr = 0, NEW t \in Times, NEW m, m = FirstAfter(t)
  PROVE  /\ m.metr \in Nat \ {0} /\ m.metr >= t /\ m.oldm = oldm /\ m.pos \in Nat
         /\ Beat(m.metr, m.pos)
         /\ Stamps = <<>> => m.metr = Ceil(t)
<1>0. t \in Nat \ {0} /\ t < NATV /\ NATV \in Nat
  BY SnapAssumption DEF Times
<1>1. CASE Stamps = <<>>
  <2>1. m = [metr |-> Ceil(t), oldm |-> oldm, pos |-> pos]
    BY <1>1 DEF FirstAfter, _next_intv
  <2>2. intv \in Nat \ {0} /\ offs \in Int
    BY <1>1, OptionsAre DEF Typed
  <2>3. t \in Int
    BY <1>0
  <2>4. Ceil(t) \in Int /\ Ceil(t) >= t
    BY <2>2, <2>3, CeilIsNext
  <2>5. \E a \in Int : Ceil(t) = a * intv + offs
    BY <2>2, <2>3, CeilIsNext
  <2> QED BY <2>1, <2>4, <2>5, <1>0, <1>1 DEF Beat, Typed
<1>2. CASE Stamps # <<>>
  <2> DEFINE j == Min({i \in 1 .. Len(Stamps) : Stamps[i] >= t} \cup {Len(Stamps) + 1})
  <2>1. m = [metr |-> IF j <= Len(Stamps) THEN Stamps[j] ELSE NATV, oldm |-> oldm, pos |-> j]
    BY <1>2 DEF FirstAfter, _next_stmp
  <2>2. j \in 1 .. Len(Stamps) + 1 /\ (j <= Len(Stamps) => Stamps[j] >= t)
    <3>1. t \in Nat
      BY <1>0
    <3> QED BY <3>1, FirstStamp
  <2>3. Stamps \in Seq(Nat \ {0})
    BY OptionsAre DEF Typed
  <2> HIDE DEF j
  <2>4. j <= Len(Stamps) => Stamps[j] \in Nat \ {0}
    BY <2>2, <2>3
  <2>5. j \in Nat
    BY <2>2
  <2> QED BY <2>1, <2>2, <2>4, <2>5, <1>0, <1>2 DEF Beat
<1> QED BY <1>1, <1>2

\* next: the metronome moves on.
LEMMA NextBeat ==
  ASSUME Typed, Beats, OnGrid, pc = "snap", NEW m, m = next(q.t)
  PROVE  /\ m.metr \in Nat /\ m.metr > metr /\ m.oldm \in Nat /\ m.pos \in Nat
         /\ Beat(m.metr, m.pos)
<1>0. /\ metr # 0 /\ metr < q.t /\ metr \in Nat /\ q.t \in Nat /\ q.t < NATV /\ NATV \in Nat
      /\ oldm \in Nat /\ pos \in Nat /\ inva \in Nat
  BY SnapAssumption, OptionsAre DEF Typed, Beats
<1>1. CASE Stamps = <<>>
  <2> DEFINE early == inva # 0 /\ metr # 0 /\ metr + inva > oldm /\ metr + inva < q.t
             x == IF early THEN metr + inva ELSE q.t
  <2>1. m = [metr |-> Ceil(x), oldm |-> IF early THEN q.t ELSE oldm, pos |-> pos]
    BY <1>1 DEF next, _next_intv
  <2>2. intv \in Nat \ {0} /\ offs \in Int
    BY <1>1, OptionsAre DEF Typed
  <2>3. x \in Int /\ x > metr
    BY <1>0
  <2> HIDE DEF x, early
  <2>4. Ceil(x) \in Int /\ Ceil(x) >= x /\ \E a \in Int : Ceil(x) = a * intv + offs
    BY <2>2, <2>3, CeilIsNext
  <2> QED BY <2>1, <2>3, <2>4, <1>0, <1>1 DEF Beat
<1>2. CASE Stamps # <<>>
  <2> DEFINE j == pos + 1
             n == Len(Stamps)
  <2>1. m = [metr |-> IF j <= n THEN Stamps[j] ELSE NATV, oldm |-> oldm, pos |-> j]
    BY <1>2 DEF next, _next_stmp
  <2>2. pos \in 1 .. n + 1 /\ metr = IF pos <= n THEN Stamps[pos] ELSE NATV
    BY <1>0, <1>2 DEF OnGrid, Beat
  <2>3. Stamps \in Seq(Nat \ {0}) /\ n \in Nat /\ Stamps = cmd.stamps
    <3>1. Stamps \in Seq(Nat \ {0}) /\ Stamps = cmd.stamps
      BY OptionsAre DEF Typed
    <3> QED BY <3>1
  <2>4. pos \in 1 .. n /\ j \in 1 .. n + 1 /\ metr = Stamps[pos]
    BY <1>0, <2>2, <2>3
  <2>5. /\ \A a, b \in 1 .. n : a < b => Stamps[a] < Stamps[b]
        /\ \A a \in 1 .. n : Stamps[a] < NATV /\ Stamps[a] \in Nat
    BY <2>3, LinesAssumption DEF Typed
  <2>6. j <= n => Stamps[j] \in Nat /\ Stamps[j] > metr
    BY <2>3, <2>4, <2>5
  <2>7. NATV > metr
    BY <1>0
  <2> QED BY <2>1, <2>4, <2>6, <2>7, <1>0, <1>2 DEF Beat
<1> QED BY <1>1, <1>2

\* next without a file of stamps: stop where everything runs out, or go
\* straight to the quote in hand.
LEMMA IntervalBeat ==
  ASSUME Typed, Beats, pc = "snap", Stamps = <<>>, NEW m, m = next(q.t)
  PROVE  \/ /\ inva # 0 /\ metr + inva > oldm /\ metr + inva < q.t
            /\ m.metr = Ceil(metr + inva) /\ m.oldm = q.t
         \/ /\ inva = 0 \/ metr + inva <= oldm \/ metr + inva >= q.t
            /\ m.metr = Ceil(q.t) /\ m.oldm = oldm
<1>0. /\ metr # 0 /\ metr \in Nat /\ q.t \in Nat /\ oldm \in Nat /\ inva \in Nat
  BY OptionsAre, SnapAssumption DEF Typed, Beats
<1> DEFINE early == inva # 0 /\ metr # 0 /\ metr + inva > oldm /\ metr + inva < q.t
           c == Ceil(metr + inva)
           d == Ceil(q.t)
<1>1. m = [metr |-> Ceil(IF early THEN metr + inva ELSE q.t),
           oldm |-> IF early THEN q.t ELSE oldm, pos |-> pos]
  BY DEF next, _next_intv
<1> HIDE DEF c, d
<1>2. CASE early
  <2>1. m.metr = Ceil(metr + inva) /\ m.oldm = q.t
    BY <1>1, <1>2
  <2> QED BY <2>1, <1>2
<1>3. CASE ~early
  <2>1. m.metr = Ceil(q.t) /\ m.oldm = oldm
    BY <1>1, <1>3
  <2> QED BY <2>1, <1>0, <1>3
<1> QED BY <1>2, <1>3

-----------------------------------------------------------------------------
(* The books.                                                              *)

\* the books B with quote x, of time t, added to that of k
PutIn(B, k, x, t) == [B EXCEPT ![k] = Added(@, x, t)]

\* A quote gives its level a time and an expiry or takes both away.
LEMMA AddedTogether ==
  ASSUME inva \in Nat, NEW B \in Ledgers, NEW D \in Ledgers, NEW k, NEW x, NEW t \in Nat,
         NEW B1, B1 = PutIn(B, k, x, t + inva), NEW D1, D1 = PutIn(D, k, x, t)
  PROVE  /\ B1 \in Ledgers /\ D1 \in Ledgers
         /\ \A n \in Names, p \in Prices :
               \/ B1[n][p] = B[n][p] /\ D1[n][p] = D[n][p]
               \/ B1[n][p] = 0 /\ D1[n][p] = 0
               \/ B1[n][p] = t + inva /\ D1[n][p] = t
<1>1. ASSUME NEW b \in [Prices -> Nat], NEW u \in Nat PROVE Added(b, x, u) \in [Prices -> Nat]
  BY DEF Added
<1>2. B1 \in Ledgers
  <2>1. \A n \in Names : Added(B[n], x, t + inva) \in [Prices -> Nat]
    BY <1>1 DEF Ledgers
  <2> QED BY <2>1 DEF Ledgers, PutIn
<1>3. D1 \in Ledgers
  <2>1. \A n \in Names : Added(D[n], x, t) \in [Prices -> Nat]
    BY <1>1 DEF Ledgers
  <2> QED BY <2>1 DEF Ledgers, PutIn
<1>4. ASSUME NEW n \in Names, NEW p \in Prices
      PROVE  \/ B1[n][p] = B[n][p] /\ D1[n][p] = D[n][p]
             \/ B1[n][p] = 0 /\ D1[n][p] = 0
             \/ B1[n][p] = t + inva /\ D1[n][p] = t
  <2>1. CASE n # k
    <3>1. B1[n] = B[n] /\ D1[n] = D[n]
      BY <2>1 DEF Ledgers, PutIn
    <3> QED BY <3>1
  <2>2. CASE n = k
    <3>1. B1[n] = Added(B[n], x, t + inva) /\ D1[n] = Added(D[n], x, t)
      BY <2>2 DEF Ledgers, PutIn
    <3> QED BY <3>1 DEF Added
  <2> QED BY <2>1, <2>2
<1> QED BY <1>2, <1>3, <1>4

\* Cleaning up at m, after the snapshot at s, keeps the books.
LEMMA Cleaned ==
  ASSUME inva \in Nat, NEW b \in Nat, NEW d \in Nat, NEW s \in Nat, NEW m \in Nat, s <= m,
         Entered(b, d, s)
  PROVE  /\ Entered(b, d, m)
         /\ Entered(IF inva # 0 /\ b <= m THEN 0 ELSE b, d, m)
<1> DEFINE v == inva
<1>1. v \in Nat
  OBVIOUS
<1>2. \A x, y, z : Entered(x, y, z) <=>
         \/ x = IF y = 0 THEN 0 ELSE y + v
         \/ v # 0 /\ x = 0 /\ y + v <= z
  BY DEF Entered
<1> HIDE DEF v
<1>3. Entered(b, d, m)
  BY <1>1, <1>2
<1>4. CASE v # 0 /\ b <= m
  <2>1. Entered(0, d, m)
    BY <1>1, <1>2, <1>4
  <2> QED BY <2>1, <1>3, <1>4 DEF v
<1>5. CASE ~(v # 0 /\ b <= m)
  BY <1>3, <1>5 DEF v
<1> QED BY <1>4, <1>5

\* What is left of a book after cleaning up at m is what the quotes up to m
\* amount to.
LEMMA LiveIsTruth ==
  ASSUME Typed, BooksKeep, stamp <= metr, NEW k \in Names
  PROVE  Live(book_exp(book[k], metr)) = Truth(k, metr)
<1> DEFINE v == inva
           e == book_exp(book[k], metr)
<1>1. v \in Nat /\ stamp \in Nat /\ metr \in Nat
  BY OptionsAre DEF Typed
<1>2. \A p \in Prices : book[k][p] \in Nat /\ quoted[k][p] \in Nat
  BY DEF Typed, Ledgers
<1>3. \A p \in Prices : e[p] = IF v # 0 /\ book[k][p] <= metr THEN 0 ELSE book[k][p]
  BY DEF book_exp
<1>4. \A p \in Prices :
         \/ book[k][p] = IF quoted[k][p] = 0 THEN 0 ELSE quoted[k][p] + v
         \/ v # 0 /\ book[k][p] = 0 /\ quoted[k][p] + v <= stamp
  BY DEF BooksKeep, Entered
<1>5. Live(e) = {p \in Prices : e[p] # 0}
  BY DEF Live
<1>6. Truth(k, metr) = {p \in Prices : quoted[k][p] # 0 /\ (v # 0 => quoted[k][p] + v > metr)}
  BY DEF Truth
<1> HIDE DEF v, e
<1>7. ASSUME NEW p \in Prices
      PROVE  e[p] # 0 <=> quoted[k][p] # 0 /\ (v # 0 => quoted[k][p] + v > metr)
  <2>1. CASE book[k][p] = IF quoted[k][p] = 0 THEN 0 ELSE quoted[k][p] + v
    BY <2>1, <1>1, <1>2, <1>3
  <2>2. CASE v # 0 /\ book[k][p] = 0 /\ quoted[k][p] + v <= stamp
    BY <2>2, <1>1, <1>2, <1>3
  <2> QED BY <2>1, <2>2, <1>4
<1>8. Live(e) = Truth(k, metr)
  BY <1>5, <1>6, <1>7
<1> QED BY <1>8 DEF e

\* The books after cleaning up at the metronome.
LEMMA ExpiredKeeps ==
  ASSUME Typed, BooksKeep, stamp <= metr, NEW E, E = Expired
  PROVE  /\ E \in Ledgers
         /\ \A n \in Names, p \in Prices : Entered(E[n][p], quoted[n][p], metr)
<1>1. inva \in Nat /\ stamp \in Nat /\ metr \in Nat /\ book \in Ledgers /\ quoted \in Ledgers
  BY OptionsAre DEF Typed
<1>2. ASSUME NEW b \in [Prices -> Nat] PROVE book_exp(b, metr) \in [Prices -> Nat]
  BY <1>2 DEF book_exp
<1>3. E \in Ledgers
  <2>1. \A n \in Names : book[n] \in [Prices -> Nat]
    BY <1>1 DEF Ledgers
  <2>2. \A n \in Names : book_exp(book[n], metr) \in [Prices -> Nat]
    BY <1>2, <2>1
  <2> QED BY <2>1, <2>2 DEF Expired, Ledgers
<1>4. ASSUME NEW n \in Names, NEW p \in Prices PROVE Entered(E[n][p], quoted[n][p], metr)
  <2> DEFINE b == book[n][p]
             d == quoted[n][p]
             e == IF inva # 0 /\ b <= metr THEN 0 ELSE b
  <2>1. b \in Nat /\ d \in Nat /\ Entered(b, d, stamp)
    BY <1>1 DEF Ledgers, BooksKeep
  <2>2. E[n][p] = b \/ E[n][p] = e
    BY DEF Expired, book_exp
  <2> HIDE DEF b, d
  <2>3. Entered(b, d, metr) /\ Entered(e, d, metr)
    BY <1>1, <2>1, Cleaned
  <2> HIDE DEF e
  <2> QED BY <2>2, <2>3 DEF d
<1> QED BY <1>3, <1>4

\* Of an empty book nothing is shown, whatever the options.
LEMMA NothingWanted ==
  ASSUME cmd \in CommandLines, Valid(cmd)
  PROVE  Wanted({}) = <<>>
<1> DEFINE n == Max({1, cmd.N})
<1>1. cmd.N \in Int /\ cmd.C \in Int /\ (cmd.C > 0 => cmd.C \in Nat \ {0})
  <2>1. cmd.N \in Int \ {0} /\ cmd.C \in Int \ {0}
    BY LineIs
  <2> QED BY <2>1
<1>2. n \in Nat
  BY <1>1, AtLeastOne
<1>3. Ladder({}) = <<>>
  <2> DEFINE l == BestFirst({}, TRUE)
  <2>1. l = <<>>
    BY NothingInOrder
  <2>2. Ladder({}) = [i \in DOMAIN l |-> [p |-> l[i], q |-> 1]]
    BY DEF Ladder
  <2> HIDE DEF l
  <2>3. DOMAIN l = {}
    BY <2>1
  <2>4. [i \in DOMAIN l |-> [p |-> l[i], q |-> 1]] = <<>>
    BY <2>3
  <2> QED BY <2>2, <2>4
<1>4. Wanted({}) = IF cmd.C > 0
        THEN IF cmd.byValue THEN book_vtops(Ladder({}), cmd.C, n) ELSE book_ctops(Ladder({}), cmd.C, n)
        ELSE Ladder({})
  BY DEF Wanted
<1> HIDE DEF n
<1>5. cmd.C > 0 => book_vtops(<<>>, cmd.C, n) = <<>> /\ book_ctops(<<>>, cmd.C, n) = <<>>
  BY <1>1, <1>2, NoTops
<1> QED BY <1>3, <1>4, <1>5

-----------------------------------------------------------------------------
(* The steps of the program.                                               *)

\* Before the first line nothing is known.
LEMMA SnapInitially == SnapInit => SnapInv
<1> SUFFICES ASSUME SnapInit, pc # "end"
             PROVE  Typed /\ BooksKeep /\ Beats /\ OnGrid /\ Quiet /\ Shows
  BY DEF SnapInv
<1>1. cmd \in CommandLines /\ Valid(cmd) /\ opt = Options(cmd) /\ pc = "read"
  BY Zenon DEF SnapInit
<1>2. inva \in Nat
  BY <1>1, OptionsAre
<1>3. NoBook \in [Prices -> Nat] /\ \A p \in Prices : NoBook[p] = 0
  BY DEF NoBook
<1>4. book \in Ledgers /\ quoted \in Ledgers
  BY <1>3, Zenon DEF SnapInit, Ledgers
<1>5. known \in SUBSET Names
  <2>1. cmd.instr \in SUBSET (Instrs \cup {"*"})
    BY <1>1, LinesAssumption DEF Lines
  <2>2. opt.wanted = cmd.instr \ {"*"}
    BY <1>1 DEF Options
  <2>3. known \in SUBSET (opt.wanted \cup {"ALL"})
    BY Zenon DEF SnapInit
  <2> QED BY <2>1, <2>2, <2>3 DEF Names
<1>6. q.t \in 0 .. Horizon
  <2>1. q.t = 0
    BY Zenon DEF SnapInit
  <2> QED BY <2>1, SnapAssumption
<1>7. metr = 0 /\ oldm = 0 /\ pos = 0 /\ stamp = 0 /\ since = 0
  BY Zenon DEF SnapInit
<1>8. Typed
  BY <1>1, <1>4, <1>5, <1>6, <1>7 DEF Typed
<1>9. BooksKeep
  <2> SUFFICES ASSUME NEW k \in Names, NEW p \in Prices
               PROVE  quoted[k][p] <= metr /\ Entered(book[k][p], quoted[k][p], stamp)
    BY DEF BooksKeep
  <2>1. book[k][p] = 0 /\ quoted[k][p] = 0
    BY <1>3, Zenon DEF SnapInit
  <2> QED BY <2>1, <1>7 DEF Entered
<1>10. Beats /\ OnGrid /\ Quiet
  BY <1>1, <1>7 DEF Beats, OnGrid, Quiet
<1>11. \A k \in Names : shot[k] = <<>>
  BY Zenon DEF SnapInit
<1>12. Shows
  BY <1>7, <1>11 DEF Shows, JumpedOver
<1> QED BY <1>8, <1>9, <1>10, <1>12

\* A line read: it is added to its book, or the metronome has to catch up.
LEMMA ReadKeeps ==
  ASSUME SnapInv, NEW x \in Quotes, Read(x)
  PROVE  SnapInv'
<1>0. pc = "read" /\ Typed /\ BooksKeep /\ Beats /\ OnGrid /\ Quiet /\ Shows
  BY Zenon DEF SnapInv, Read
<1> DEFINE k == BookOf(x.k)
           m == IF metr = 0 THEN FirstAfter(x.t) ELSE [metr |-> metr, oldm |-> oldm, pos |-> pos]
<1>1. /\ UNCHANGED <<cmd, opt, shot, stamp>> /\ q' = x /\ x.t >= q.t
      /\ metr' = m.metr /\ oldm' = m.oldm /\ pos' = m.pos
  BY Zenon DEF Read
<1>2. \/ k = "" /\ UNCHANGED <<book, known, pc, quoted, since>>
      \/ /\ known' = known \cup {k} /\ k # "" /\ x.t <= metr' /\ UNCHANGED pc
         /\ book' = [book EXCEPT ![k] = Added(@, x, x.t + inva)]
         /\ quoted' = [quoted EXCEPT ![k] = Added(@, x, x.t)]
         /\ since' = IF since = 0 THEN x.t ELSE since
      \/ /\ known' = known \cup {k} /\ k # "" /\ ~(x.t <= metr') /\ pc' = "snap"
         /\ UNCHANGED <<book, quoted, since>>
  BY Zenon DEF Read, badd, history
<1>3. x.t \in Times /\ x.k \in Instrs
  BY DEF Quotes
<1>4. x.t \in Nat \ {0} /\ x.t \in 0 .. Horizon /\ x.t \in Int
  BY <1>3, SnapAssumption DEF Times
<1>5. k # "" => k \in Names
  BY <1>3, Zenon DEF BookOf, Names
<1>6. /\ metr \in Nat /\ oldm \in Nat /\ pos \in Nat /\ stamp \in Nat /\ since \in Nat
      /\ q.t \in Nat /\ inva \in Nat /\ intv \in Nat \ {0} /\ book \in Ledgers /\ quoted \in Ledgers
      /\ known \in SUBSET Names
  BY <1>0, OptionsAre DEF Typed
<1>7. Stamps = <<>> => offs \in Int
  BY <1>0, OptionsAre DEF Typed
<1>8. /\ metr' \in Nat \ {0} /\ metr <= metr' /\ oldm' = oldm /\ pos' \in Nat
      /\ Beat(metr', pos') /\ stamp < metr'
      /\ metr # 0 => metr' = metr
      /\ metr = 0 => stamp = 0 /\ since = 0
      /\ metr = 0 /\ Stamps = <<>> => metr' = Ceil(x.t)
  <2>1. CASE metr = 0
    <3>1. m = FirstAfter(x.t)
      BY <2>1
    <3> HIDE DEF m
    <3>2. /\ m.metr \in Nat \ {0} /\ m.metr >= x.t /\ m.oldm = oldm /\ m.pos \in Nat
          /\ Beat(m.metr, m.pos)
          /\ Stamps = <<>> => m.metr = Ceil(x.t)
      BY <2>1, <3>1, <1>0, <1>3, FirstBeat
    <3>3. stamp = 0 /\ since = 0
      BY <2>1, <1>0 DEF Beats
    <3> QED BY <2>1, <3>2, <3>3, <1>1
  <2>2. CASE metr # 0
    <3>1. m.metr = metr /\ m.oldm = oldm /\ m.pos = pos
      BY <2>2
    <3> HIDE DEF m
    <3> QED BY <2>2, <3>1, <1>0, <1>1, <1>6 DEF Beats, OnGrid
  <2> QED BY <2>1, <2>2
<1> HIDE DEF m, k
<1>9. ASSUME Stamps = <<>>, inva = 0, NEW a \in Int, a * intv + offs < metr'
      PROVE  a * intv + offs < x.t /\ (since # 0 => a * intv + offs < since)
  <2>0. a * intv + offs \in Int
    BY <1>6, <1>7, <1>9
  <2>1. CASE metr = 0
    <3>1. metr' = Ceil(x.t) /\ since = 0
      BY <2>1, <1>8, <1>9
    <3>2. \A b \in Int : b * intv + offs < Ceil(x.t) => b * intv + offs < x.t
      BY <1>4, <1>6, <1>7, <1>9, CeilIsNext
    <3> QED BY <3>1, <3>2, <1>9
  <2>2. CASE metr # 0
    <3>1. a * intv + offs < q.t /\ (since # 0 => a * intv + offs < since)
      BY <2>2, <1>0, <1>8, <1>9 DEF Quiet
    <3> QED BY <2>0, <3>1, <1>1, <1>4, <1>6
  <2> QED BY <2>1, <2>2
<1>10. /\ book' \in Ledgers /\ quoted' \in Ledgers /\ known' \in SUBSET Names
       /\ since' \in Nat /\ (since' = since \/ (since = 0 /\ since' = x.t))
       /\ pc' \in {"read", "snap"} /\ (pc' = "snap" => metr' < x.t)
       /\ known \in SUBSET known'
       /\ \A n \in Names, p \in Prices :
             \/ book'[n][p] = book[n][p] /\ quoted'[n][p] = quoted[n][p]
             \/ book'[n][p] = 0 /\ quoted'[n][p] = 0
             \/ book'[n][p] = x.t + inva /\ quoted'[n][p] = x.t /\ x.t <= metr'
  <2>1. CASE k = "" /\ UNCHANGED <<book, known, pc, quoted, since>>
    BY <2>1, <1>0, <1>6, Zenon
  <2>2. CASE /\ known' = known \cup {k} /\ k # "" /\ x.t <= metr' /\ UNCHANGED pc
             /\ book' = [book EXCEPT ![k] = Added(@, x, x.t + inva)]
             /\ quoted' = [quoted EXCEPT ![k] = Added(@, x, x.t)]
             /\ since' = IF since = 0 THEN x.t ELSE since
    <3>1. x.t \in Nat
      BY <1>4
    <3>2. /\ book' \in Ledgers /\ quoted' \in Ledgers
          /\ \A n \in Names, p \in Prices :
                \/ book'[n][p] = book[n][p] /\ quoted'[n][p] = quoted[n][p]
                \/ book'[n][p] = 0 /\ quoted'[n][p] = 0
                \/ book'[n][p] = x.t + inva /\ quoted'[n][p] = x.t
      <4> DEFINE t == x.t
                 B1 == book'
                 D1 == quoted'
      <4>1. B1 = PutIn(book, k, x, t + inva) /\ D1 = PutIn(quoted, k, x, t)
        BY <2>2, Zenon DEF PutIn
      <4>2. t \in Nat /\ inva \in Nat /\ book \in Ledgers /\ quoted \in Ledgers
        BY <3>1, <1>6
      <4> HIDE DEF t, B1, D1
      <4>3. /\ B1 \in Ledgers /\ D1 \in Ledgers
            /\ \A n \in Names, p \in Prices :
                  \/ B1[n][p] = book[n][p] /\ D1[n][p] = quoted[n][p]
                  \/ B1[n][p] = 0 /\ D1[n][p] = 0
                  \/ B1[n][p] = t + inva /\ D1[n][p] = t
        BY <4>1, <4>2, AddedTogether, SMTT(20)
      <4> QED BY <4>3 DEF t, B1, D1
    <3>3. known' \in SUBSET Names /\ known \in SUBSET known'
      BY <2>2, <1>5, <1>6, Zenon
    <3>4. since' \in Nat /\ (since' = since \/ (since = 0 /\ since' = x.t))
      BY <2>2, <3>1, <1>6, Zenon
    <3> QED BY <2>2, <3>2, <3>3, <3>4, <1>0, Zenon
  <2>3. CASE /\ known' = known \cup {k} /\ k # "" /\ ~(x.t <= metr') /\ pc' = "snap"
             /\ UNCHANGED <<book, quoted, since>>
    <3>0. metr' \in Nat /\ x.t \in Nat
      BY <1>4, <1>8
    <3>1. metr' < x.t
      <4>1. ~(x.t <= metr')
        BY <2>3, Zenon
      <4> QED BY <3>0, <4>1
    <3> QED BY <2>3, <3>1, <1>5, <1>6, Zenon
  <2> QED BY <2>1, <2>2, <2>3, <1>2, Zenon
<1>11. Typed'
  BY <1>0, <1>1, <1>4, <1>6, <1>8, <1>10 DEF Typed
<1>12. BooksKeep'
  <2> SUFFICES ASSUME NEW n \in Names, NEW p \in Prices
               PROVE  quoted'[n][p] <= metr' /\ Entered(book[n][p], quoted[n][p], stamp)'
    BY DEF BooksKeep
  <2>1. quoted[n][p] <= metr /\ Entered(book[n][p], quoted[n][p], stamp) /\ quoted[n][p] \in Nat
    BY <1>0, <1>6 DEF BooksKeep, Ledgers
  <2>2. inva' = inva /\ stamp' = stamp
    BY <1>1 DEF inva
  <2>3. CASE book'[n][p] = book[n][p] /\ quoted'[n][p] = quoted[n][p]
    BY <2>1, <2>2, <2>3, <1>6, <1>8 DEF Entered
  <2>4. CASE book'[n][p] = 0 /\ quoted'[n][p] = 0
    BY <2>2, <2>4, <1>8 DEF Entered
  <2>5. CASE book'[n][p] = x.t + inva /\ quoted'[n][p] = x.t /\ x.t <= metr'
    BY <2>2, <2>5, <1>4, <1>8 DEF Entered
  <2> QED BY <2>3, <2>4, <2>5, <1>10
<1>13. Beats'
  BY <1>1, <1>8, <1>10 DEF Beats
<1>14. OnGrid'
  BY <1>1, <1>8 DEF OnGrid, Beat, Stamps, intv, offs
<1>15. Quiet'
  <2> SUFFICES ASSUME Stamps = <<>>, inva = 0, NEW a \in Int, a * intv + offs < metr'
               PROVE  a * intv + offs < x.t /\ (since' # 0 => a * intv + offs < since')
    BY <1>1 DEF Quiet, Stamps, inva, intv, offs
  <2> QED BY <1>9, <1>10
<1>16. Shows'
  <2>1. \A n \in Names : shot'[n] # <<>> => n \in known' /\ stamp' # 0
    BY <1>0, <1>1, <1>10 DEF Shows
  <2>2. ASSUME Stamps = <<>>, inva # 0
        PROVE  oldm' <= metr' /\ ((\E n \in Names : shot[n] # <<>>) => metr' <= Ceil(stamp + inva))
    <3>1. oldm <= metr
      BY <2>2, <1>0 DEF Shows, JumpedOver
    <3>2. (\E n \in Names : shot[n] # <<>>) => stamp # 0 /\ metr <= Ceil(stamp + inva)
      BY <2>2, <1>0 DEF Shows
    <3> QED BY <3>1, <3>2, <1>6, <1>8
  <2>3. /\ Stamps' = Stamps /\ inva' = inva
        /\ Ceil(stamp + inva)' = Ceil(stamp + inva)
    BY <1>1 DEF Stamps, inva, Ceil, offs, intv
  <2> QED BY <2>1, <2>2, <2>3, <1>1 DEF Shows, JumpedOver
<1> QED BY <1>11, <1>12, <1>13, <1>14, <1>15, <1>16 DEF SnapInv

\* What a snapshot shows.
LEMMA Shot ==
  ASSUME Typed, BooksKeep, stamp <= metr, Shoot
  PROVE  /\ stamp' = metr
         /\ \A k \in known : shot'[k] = Wanted(Truth(k, metr))
         /\ \A k \in Names \ known : shot'[k] = shot[k]
<1>1. stamp' = metr /\ \A k \in Names \ known : shot'[k] = shot[k]
  BY DEF Shoot
<1>2. ASSUME NEW k \in known PROVE shot'[k] = Wanted(Truth(k, metr))
  <2>1. k \in Names
    BY DEF Typed
  <2>2. shot'[k] = snap(book_exp(book[k], metr))
    BY <2>1 DEF Shoot
  <2> DEFINE b == book_exp(book[k], metr)
  <2>3. Live(b) = Truth(k, metr)
    BY <2>1, LiveIsTruth
  <2> HIDE DEF b
  <2>4. snap(b) = Wanted(Live(b))
    BY SnapIsWanted DEF Typed
  <2> QED BY <2>2, <2>3, <2>4 DEF b
<1> QED BY <1>1, <1>2

\* One round of catching up: a snapshot is shot, the metronome moves on, and
\* after the last round the quote in hand is added.
LEMMA SnapshotKeeps ==
  ASSUME SnapInv, Snapshot
  PROVE  SnapInv'
<1>0. pc = "snap" /\ Typed /\ BooksKeep /\ Beats /\ OnGrid /\ Quiet /\ Shows
  BY DEF SnapInv, Snapshot
<1> DEFINE m == next(q.t)
           k == BookOf(q.k)
           E == Expired
<1>1. /\ UNCHANGED <<cmd, opt, known, q>> /\ Shoot
      /\ metr' = m.metr /\ oldm' = m.oldm /\ pos' = m.pos
  BY DEF Snapshot
<1>2. \/ metr' < q.t /\ book' = E /\ since' = 0 /\ UNCHANGED <<pc, quoted>>
      \/ /\ ~(metr' < q.t) /\ pc' = "read" /\ since' = q.t
         /\ book' = PutIn(E, k, q, q.t + inva) /\ quoted' = PutIn(quoted, k, q, q.t)
  BY DEF Snapshot, PutIn
<1>3. /\ metr \in Nat /\ oldm \in Nat /\ stamp \in Nat /\ q.t \in Nat /\ q.t \in Int
      /\ inva \in Nat /\ intv \in Nat \ {0} /\ quoted \in Ledgers /\ known \in SUBSET Names
  BY <1>0, OptionsAre, SnapAssumption DEF Typed
<1>4. Stamps = <<>> => offs \in Int
  BY <1>0, OptionsAre DEF Typed
<1>5. metr # 0 /\ stamp < metr /\ stamp <= metr /\ metr < q.t
  BY <1>0, <1>3 DEF Beats
<1>6. /\ metr' \in Nat /\ metr' > metr /\ oldm' \in Nat /\ pos' \in Nat
      /\ Beat(metr', pos')
  <2> HIDE DEF m
  <2>1. m = next(q.t)
    BY DEF m
  <2>2. /\ m.metr \in Nat /\ m.metr > metr /\ m.oldm \in Nat /\ m.pos \in Nat
        /\ Beat(m.metr, m.pos)
    BY <2>1, <1>0, NextBeat
  <2> QED BY <2>2, <1>1
<1>7. Stamps = <<>> =>
         \/ /\ inva # 0 /\ metr + inva > oldm /\ metr + inva < q.t
            /\ metr' = Ceil(metr + inva) /\ oldm' = q.t
         \/ /\ inva = 0 \/ metr + inva <= oldm \/ metr + inva >= q.t
            /\ metr' = Ceil(q.t) /\ oldm' = oldm
  <2> HIDE DEF m
  <2>1. m = next(q.t)
    BY DEF m
  <2> QED BY <2>1, <1>0, <1>1, IntervalBeat
<1>8. /\ E \in Ledgers
      /\ \A n \in Names, p \in Prices : Entered(E[n][p], quoted[n][p], metr)
  <2> HIDE DEF E
  <2>1. E = Expired
    BY DEF E
  <2> QED BY <2>1, <1>0, <1>5, ExpiredKeeps
<1>9. /\ stamp' = metr
      /\ \A n \in known : shot'[n] = Wanted(Truth(n, metr))
      /\ \A n \in Names \ known : shot'[n] = shot[n]
  BY <1>0, <1>1, <1>5, Shot
<1> HIDE DEF m, k, E
<1>10. /\ book' \in Ledgers /\ quoted' \in Ledgers /\ since' \in Nat
       /\ pc' \in {"read", "snap"} /\ (pc' = "snap" => metr' < q.t)
       /\ metr' < q.t => pc' = "snap" /\ quoted' = quoted
       /\ since' = 0 \/ since' = q.t
       /\ \A n \in Names, p \in Prices :
             \/ book'[n][p] = E[n][p] /\ quoted'[n][p] = quoted[n][p]
             \/ book'[n][p] = 0 /\ quoted'[n][p] = 0
             \/ book'[n][p] = q.t + inva /\ quoted'[n][p] = q.t /\ q.t <= metr'
  <2>1. CASE metr' < q.t /\ book' = E /\ since' = 0 /\ UNCHANGED <<pc, quoted>>
    BY <2>1, <1>0, <1>3, <1>8
  <2>2. CASE /\ ~(metr' < q.t) /\ pc' = "read" /\ since' = q.t
             /\ book' = PutIn(E, k, q, q.t + inva) /\ quoted' = PutIn(quoted, k, q, q.t)
    <3> DEFINE t == q.t
               x == q
               B1 == book'
               D1 == quoted'
    <3>1. t \in Nat /\ B1 = PutIn(E, k, x, t + inva) /\ D1 = PutIn(quoted, k, x, t)
      BY <2>2, <1>3
    <3>2. q.t <= metr'
      <4>1. metr' \in Nat /\ ~(metr' < q.t)
        BY <2>2, <1>6
      <4> QED BY <4>1, <1>3
    <3> HIDE DEF t, x, B1, D1
    <3>3. /\ B1 \in Ledgers /\ D1 \in Ledgers
          /\ \A n \in Names, p \in Prices :
                \/ B1[n][p] = E[n][p] /\ D1[n][p] = quoted[n][p]
                \/ B1[n][p] = 0 /\ D1[n][p] = 0
                \/ B1[n][p] = t + inva /\ D1[n][p] = t
      BY <3>1, <1>3, <1>8, AddedTogether, SMTT(20)
    <3> QED BY <2>2, <3>2, <3>3, <1>3 DEF t, B1, D1
  <2> QED BY <2>1, <2>2, <1>2
<1>11. inva' = inva /\ intv' = intv /\ offs' = offs /\ Stamps' = Stamps /\ q'.t = q.t
  BY <1>1 DEF inva, intv, offs, Stamps
<1>12. Typed'
  BY <1>0, <1>1, <1>3, <1>6, <1>9, <1>10 DEF Typed
<1>13. BooksKeep'
  <2> SUFFICES ASSUME NEW n \in Names, NEW p \in Prices
               PROVE  quoted'[n][p] <= metr' /\ Entered(book[n][p], quoted[n][p], stamp)'
    BY DEF BooksKeep
  <2>1. quoted[n][p] <= metr /\ quoted[n][p] \in Nat
    BY <1>0, <1>3 DEF BooksKeep, Ledgers
  <2>2. Entered(E[n][p], quoted[n][p], metr)
    BY <1>8
  <2>3. CASE book'[n][p] = E[n][p] /\ quoted'[n][p] = quoted[n][p]
    BY <2>1, <2>2, <2>3, <1>3, <1>6, <1>9, <1>11 DEF Entered
  <2>4. CASE book'[n][p] = 0 /\ quoted'[n][p] = 0
    BY <2>4, <1>6, <1>11 DEF Entered
  <2>5. CASE book'[n][p] = q.t + inva /\ quoted'[n][p] = q.t /\ q.t <= metr'
    BY <2>5, <1>3, <1>5, <1>11 DEF Entered
  <2> QED BY <2>3, <2>4, <2>5, <1>10
<1>14. Beats'
  BY <1>3, <1>6, <1>9, <1>10, <1>11 DEF Beats
<1>15. OnGrid'
  BY <1>6, <1>11 DEF OnGrid, Beat
<1>16. Quiet'
  <2> SUFFICES ASSUME Stamps = <<>>, inva = 0, NEW a \in Int, a * intv + offs < metr'
               PROVE  a * intv + offs < q.t /\ (since' # 0 => a * intv + offs < since')
    BY <1>11 DEF Quiet
  <2>1. metr' = Ceil(q.t)
    BY <1>7
  <2>2. \A b \in Int : b * intv + offs < Ceil(q.t) => b * intv + offs < q.t
    BY <1>3, <1>4, CeilIsNext
  <2> QED BY <2>1, <2>2, <1>10
<1>17. Shows'
  <2>1. \A n \in Names : shot'[n] # <<>> => n \in known /\ metr # 0
    BY <1>0, <1>5, <1>9 DEF Shows
  <2>2. ASSUME Stamps = <<>>, inva # 0 PROVE JumpedOver'
    <3>1. CASE /\ inva # 0 /\ metr + inva > oldm /\ metr + inva < q.t
               /\ metr' = Ceil(metr + inva) /\ oldm' = q.t
      <4>1. metr' >= metr + inva
        BY <2>2, <3>1, <1>3, <1>4, CeilIsNext
      <4>2. CASE metr' < q.t
        <5> SUFFICES \A n \in Names, p \in Prices : quoted[n][p] + inva <= metr'
          BY <3>1, <4>2, <1>10, <1>11 DEF JumpedOver
        <5>1. \A n \in Names, p \in Prices : quoted[n][p] <= metr /\ quoted[n][p] \in Nat
          BY <1>0, <1>3 DEF BooksKeep, Ledgers
        <5> QED BY <5>1, <4>1, <1>3, <1>6
      <4>3. CASE ~(metr' < q.t)
        <5>1. oldm' <= metr'
          BY <3>1, <4>3, <1>3, <1>6
        <5> QED BY <5>1 DEF JumpedOver
      <4> QED BY <4>2, <4>3
    <3>2. CASE metr' = Ceil(q.t) /\ oldm' = oldm
      <4>1. metr' >= q.t
        BY <2>2, <3>2, <1>3, <1>4, CeilIsNext
      <4>2. oldm <= metr \/ oldm = q.t
        BY <2>2, <1>0 DEF Shows, JumpedOver
      <4>3. oldm' <= metr'
        BY <3>2, <4>1, <4>2, <1>3, <1>6
      <4> QED BY <4>3 DEF JumpedOver
    <3> QED BY <2>2, <3>1, <3>2, <1>7
  <2>3. ASSUME Stamps = <<>>, inva # 0, NEW n \in Names, shot'[n] # <<>>
        PROVE  metr' <= Ceil(metr + inva)
    <3>0. Ceil(metr + inva) \in Int /\ metr + inva \in Int
      BY <2>3, <1>3, <1>4, CeilIsNext
    <3>1. CASE metr' = Ceil(metr + inva)
      BY <3>0, <3>1
    <3>2. CASE metr' = Ceil(q.t) /\ metr + inva >= q.t
      BY <2>3, <3>0, <3>2, <1>3, <1>4, CeilGrows
    <3>3. CASE metr + inva <= oldm
      <4>1. ~(oldm <= metr)
        BY <2>3, <3>3, <1>3
      <4>2. \A p \in Prices : quoted[n][p] + inva <= metr /\ quoted[n][p] \in Nat
        BY <2>3, <4>1, <1>0, <1>3 DEF Shows, JumpedOver, Ledgers
      <4>3. Truth(n, metr) = {}
        BY <2>3, <4>2, <1>3 DEF Truth
      <4>4. n \in known
        BY <2>1, <2>3
      <4>5. shot'[n] = Wanted({})
        BY <4>3, <4>4, <1>9
      <4>6. Wanted({}) = <<>>
        BY <1>0, NothingWanted DEF Typed
      <4> QED BY <2>3, <4>5, <4>6
    <3> QED BY <2>3, <3>1, <3>2, <3>3, <1>7
  <2>4. Ceil(stamp + inva)' = Ceil(metr + inva)
    BY <1>9, <1>11 DEF Ceil
  <2> QED BY <2>1, <2>2, <2>3, <2>4, <1>1, <1>9, <1>11 DEF Shows
<1> QED BY <1>12, <1>13, <1>14, <1>15, <1>16, <1>17 DEF SnapInv

\* booksnap's invariant.
LEMMA SnapInvariant == SnapSpec => []SnapInv
<1>1. SnapInit => SnapInv
  BY SnapInitially
<1>2. SnapInv /\ [SnapNext]_svars => SnapInv'
  <2> SUFFICES ASSUME SnapInv, [SnapNext]_svars PROVE SnapInv'
    OBVIOUS
  <2>1. CASE \E x \in Quotes : Read(x)
    BY <2>1, ReadKeeps
  <2>2. CASE Snapshot
    BY <2>2, SnapshotKeeps
  <2>3. CASE Finish
    BY <2>3 DEF Finish, SnapInv
  <2>4. CASE UNCHANGED svars
    BY <2>4 DEF svars, prog, history, SnapInv, Typed, BooksKeep, Beats, OnGrid, Quiet, Shows,
                JumpedOver, Entered, Beat, Ceil, Stamps, inva, intv, offs
  <2> QED BY <2>1, <2>2, <2>3, <2>4 DEF SnapNext
<1> QED BY <1>1, <1>2, PTL DEF SnapSpec

-----------------------------------------------------------------------------
(* What the snapshots are.                                                 *)

\* Snapshots are shot while the metronome catches up and at the end of the
\* input, nowhere else.
LEMMA WhenShot ==
  ASSUME SnapInv, SnapNext, Shooting \/ stamp' # stamp
  PROVE  /\ Typed /\ BooksKeep /\ Beats /\ OnGrid /\ Quiet /\ Shows
         /\ Shoot /\ metr < NATV
<1>1. CASE \E x \in Quotes : Read(x)
  <2>1. pc = "read" /\ stamp' = stamp /\ (pc' = pc \/ pc' = "snap")
    BY <1>1, Zenon DEF Read
  <2> QED BY <2>1 DEF Shooting
<1>2. CASE Snapshot
  <2>1. pc = "snap" /\ Shoot
    BY <1>2 DEF Snapshot
  <2>2. Typed /\ BooksKeep /\ Beats /\ OnGrid /\ Quiet /\ Shows
    BY <2>1 DEF SnapInv
  <2>3. metr \in Nat /\ metr < q.t /\ q.t \in 0 .. Horizon
    BY <2>1, <2>2 DEF Typed, Beats
  <2>4. metr < NATV
    BY <2>3, SnapAssumption
  <2> QED BY <2>1, <2>2, <2>4
<1>3. CASE Finish
  <2>1. pc = "read" /\ pc' = "end" /\ (metr < NATV => Shoot) /\ (stamp' # stamp => metr < NATV)
    BY <1>3 DEF Finish
  <2>2. metr < NATV /\ Shoot
    BY <2>1 DEF Shooting
  <2> QED BY <2>1, <2>2 DEF SnapInv
<1> QED BY <1>1, <1>2, <1>3 DEF SnapNext

\* booksnap's snap functions after book_exp: every snapshot shows what the
\* quotes up to its time stamp amount to, as the options ask for it.
THEOREM SnapshotsAreTruthful == SnapSpec => SnapTruthful
<1> DEFINE A == Shooting =>
                  /\ stamp' = metr
                  /\ \A k \in known :
                        /\ shot'[k] = Wanted(Truth(k, metr))
                        /\ \A p \in Prices : quoted[k][p] <= metr
<1>1. SnapInv /\ [SnapNext]_svars => [A]_svars
  <2> SUFFICES ASSUME SnapInv, SnapNext, Shooting
               PROVE  /\ stamp' = metr
                      /\ \A k \in known :
                            /\ shot'[k] = Wanted(Truth(k, metr))
                            /\ \A p \in Prices : quoted[k][p] <= metr
    OBVIOUS
  <2>1. Typed /\ BooksKeep /\ Beats /\ Shoot
    BY WhenShot
  <2>2. stamp <= metr
    BY <2>1 DEF Typed, Beats
  <2>3. stamp' = metr /\ \A k \in known : shot'[k] = Wanted(Truth(k, metr))
    BY <2>1, <2>2, Shot
  <2>4. \A k \in known, p \in Prices : quoted[k][p] <= metr
    BY <2>1 DEF Typed, BooksKeep
  <2> QED BY <2>3, <2>4
<1> QED BY <1>1, SnapInvariant, PTL DEF SnapSpec, SnapTruthful

\* _next_intv and _next_stmp: snapshots come later and later, and on the grid
\* of --interval and --offset or at the times of the file.
THEOREM StampsAlwaysAdvance == SnapSpec => StampsAdvance
<1> DEFINE A == Shooting /\ metr # 0 =>
                  /\ stamp' > stamp
                  /\ IF Stamps = <<>> THEN (stamp' - Offset(cmd)) % Interval(cmd) = 0
                     ELSE \E j \in 1 .. Len(Stamps) : stamp' = Stamps[j]
<1>1. SnapInv /\ [SnapNext]_svars => [A]_svars
  <2> SUFFICES ASSUME SnapInv, SnapNext, Shooting, metr # 0
               PROVE  /\ stamp' > stamp
                      /\ IF Stamps = <<>> THEN (stamp' - Offset(cmd)) % Interval(cmd) = 0
                         ELSE \E j \in 1 .. Len(Stamps) : stamp' = Stamps[j]
    OBVIOUS
  <2>1. Typed /\ Beats /\ OnGrid /\ Shoot /\ metr < NATV
    BY WhenShot
  <2>2. stamp' = metr /\ stamp < metr /\ metr \in Nat /\ stamp \in Nat
    BY <2>1 DEF Shoot, Beats, Typed
  <2>3. stamp' > stamp
    BY <2>2
  <2>4. CASE Stamps = <<>>
    <3> DEFINE I == Interval(cmd)
               o == Offset(cmd)
    <3>1. PICK a \in Int : metr = a * intv + offs
      BY <2>1, <2>4 DEF OnGrid, Beat
    <3>2. intv = I /\ \E z \in Int : offs = o + z * I
      BY <2>1, <2>4, OptionsAre DEF Typed
    <3>3. I \in Nat \ {0} /\ o \in Int
      BY <2>1, LineIs DEF Typed
    <3> HIDE DEF I, o
    <3>4. PICK z \in Int : offs = o + z * I
      BY <3>2
    <3>5. metr = a * I + (o + z * I)
      BY <3>1, <3>2, <3>4
    <3>6. metr - o = (a + z) * I /\ a + z \in Int
      BY <3>3, <3>5
    <3>7. (metr - o) % I = 0
      BY <3>3, <3>6, NoRest
    <3> QED BY <2>2, <2>3, <2>4, <3>7 DEF I, o
  <2>5. CASE Stamps # <<>>
    <3>1. pos \in 1 .. Len(Stamps) + 1 /\ metr = IF pos <= Len(Stamps) THEN Stamps[pos] ELSE NATV
      BY <2>1, <2>5 DEF OnGrid, Beat
    <3>2. Len(Stamps) \in Nat
      <4>1. Stamps \in Seq(Nat \ {0})
        BY <2>1, OptionsAre DEF Typed
      <4> QED BY <4>1
    <3>3. ~(metr = NATV)
      BY <2>1, <2>2, SnapAssumption
    <3>4. pos \in 1 .. Len(Stamps) /\ metr = Stamps[pos]
      BY <3>1, <3>2, <3>3
    <3> QED BY <2>2, <2>3, <2>5, <3>4
  <2> QED BY <2>4, <2>5
<1> QED BY <1>1, SnapInvariant, PTL DEF SnapSpec, StampsAdvance

\* _next_intv going straight to the next quote: a stamp of the grid is left out
\* only if no quote has come in up to it.
THEOREM GapsAreAlwaysQuiet == SnapSpec => GapsAreQuiet
<1> DEFINE A == Stamps = <<>> /\ inva = 0 /\ stamp' # stamp /\ stamp # 0 =>
                  \A g \in Grid : stamp < g /\ g < stamp' => Skippable(g)
<1>1. SnapInv /\ [SnapNext]_svars => [A]_svars
  <2> SUFFICES ASSUME SnapInv, SnapNext, Stamps = <<>>, inva = 0, stamp' # stamp, stamp # 0,
                      NEW g \in Grid, g < stamp'
               PROVE  Skippable(g)
    OBVIOUS
  <2>1. Typed /\ Beats /\ Quiet /\ Shoot
    BY WhenShot
  <2>2. stamp' = metr /\ metr # 0
    BY <2>1 DEF Shoot, Beats
  <2>3. intv \in Nat \ {0} /\ offs \in Int /\ since \in Nat
    BY <2>1, OptionsAre DEF Typed
  <2>4. PICK i \in 1 .. Horizon : g = opt.offs + i * intv
    BY DEF Grid
  <2>5. i \in Int /\ i * intv \in Int
    BY <2>3, SnapAssumption
  <2>6. g = i * intv + offs /\ g \in Int
    BY <2>3, <2>4, <2>5 DEF offs
  <2>7. i * intv + offs < metr => (since # 0 => i * intv + offs < since)
    BY <2>1, <2>2, <2>5 DEF Quiet
  <2>8. since # 0 => g < since
    BY <2>2, <2>6, <2>7
  <2> QED BY <2>3, <2>6, <2>8 DEF Skippable
<1> QED BY <1>1, SnapInvariant, PTL DEF SnapSpec, GapsAreQuiet

\* _next_intv with --invalidate: what has been shown is followed by another
\* snapshot by the time all of it must be invalid.
THEOREM ExpiryIsShown == SnapSpec => ExpiryShown
<1> DEFINE A == Stamps = <<>> /\ inva # 0 /\ stamp' # stamp /\ (\E k \in Names : shot[k] # <<>>) =>
                  stamp' <= Ceil(stamp + inva)
<1>1. SnapInv /\ [SnapNext]_svars => [A]_svars
  <2> SUFFICES ASSUME SnapInv, SnapNext, Stamps = <<>>, inva # 0, stamp' # stamp,
                      \E k \in Names : shot[k] # <<>>
               PROVE  stamp' <= Ceil(stamp + inva)
    OBVIOUS
  <2>1. Shows /\ Shoot
    BY WhenShot
  <2> QED BY <2>1 DEF Shows, Shoot
<1> QED BY <1>1, SnapInvariant, PTL DEF SnapSpec, ExpiryShown

=============================================================================
