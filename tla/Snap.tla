-------------------------------- MODULE Snap --------------------------------
(***************************************************************************)
(* src/src/booksnap.c: the loop that reads time-stamped quotes and shoots  *)
(* snapshots of all books whenever the metronome is overtaken.             *)
(*                                                                         *)
(* A book is the map of BookSpec, reduced to one side, bids: the time      *)
(* stamp of each live price, 0 where there is none, and a quantity of 1.   *)
(* Its quotes are level-2 quotes and clears.  Times are small integers;    *)
(* the input is in order of time.                                          *)
(***************************************************************************)
EXTENDS Readers

CONSTANTS
    Instrs,     \* instruments in the input
    Prices,
    Horizon,    \* last time stamp of the input
    NATV,       \* not-a-time, above all times
    MSECS,      \* nanoseconds of a microsecond: 1000
    SIXTY,      \* seconds of a minute: 60
    CommandLines \* those considered, see Options

\* offs is less than every time stamp: _next_intv works on unsigned numbers.
\* A catch-all alone is left out: the index of its book is uninitialised.
ASSUME SnapAssumption ==
    /\ Horizon \in Nat /\ MSECS \in Nat \ {0} /\ SIXTY \in Nat \ {0}
    /\ NATV \in Nat /\ NATV > Horizon
    /\ Prices \subseteq Nat \ {0} /\ IsFiniteSet(Prices)
    /\ "ALL" \notin Instrs
    /\ \A o \in CommandLines : "*" \in o.instr => o.instr # {"*"}

VARIABLES
    cmd,        \* the command line
    opt,        \* what it comes to: intv, offs, inva (0: off), snap, ntop, cqty,
                \* wanted (those given with --instr; {}: no filter), catchAll
                \* (--instr '*' as well), stamps (the file; <<>>: none)
    metr,       \* the metronome: when to shoot next; 0 before the first quote
    oldm,       \* static in _next_intv
    pos,        \* stamps read
    book,       \* book[k][p]: expiry of p if inva, else its time; 0: no level
    known,      \* the books there are
    q,          \* the quote in hand, or the last one
    pc,         \* "read", "snap" or "end"
    shot,       \* shot[k]: the levels [p, q] the last snapshot of k shows
    stamp,      \* and when it was shot; 0: none yet
    quoted,     \* quoted[k][p]: time of the last quote if it left a level, else 0
    since       \* time of the first quote added since that snapshot; 0: none

prog    == <<cmd, opt, metr, oldm, pos, book, known, q, pc, shot, stamp>>
history == <<quoted, since>>
svars   == <<prog, history>>

intv   == opt.intv
offs   == opt.offs
inva   == opt.inva
Stamps == opt.stamps

Names   == Instrs \cup {"ALL"}
NoBook  == [p \in Prices |-> 0]
Times   == {t \in 1 .. Horizon : t > offs}
Kinds   == {"set", "del", "clr"}
Quotes  == [k : Instrs, kind : Kinds, p : Prices, t : Times]

-----------------------------------------------------------------------------
(* The command line.  An argument with a unit is a pair, <<>> if not given. *)

WithUnit(S) == {<<>>} \cup (S \X STRING)

Lines ==
    [interval : WithUnit(Nat), offset : WithUnit(Int), invalidate : WithUnit(Nat),
     stamps : Seq(Nat \ {0}), instr : SUBSET (Instrs \cup {"*"}), flags : SUBSET (1 .. 3),
     N : Int, C : Int, byValue : BOOLEAN]

NSECS == MSECS * MSECS * MSECS

\* hours come out as if seconds were microseconds
sufstrtotv(suf) ==
    CASE suf = ""   -> 0
      [] suf = "s"  -> NSECS
      [] suf = "m"  -> SIXTY * NSECS
      [] suf = "ms" -> MSECS * MSECS
      [] suf = "h"  -> SIXTY * SIXTY * MSECS
      [] suf = "us" -> MSECS
      [] suf = "ns" -> 1
      [] OTHER      -> NATV

\* an argument in nanoseconds; d is the unit if it has none
Scaled(a, d) == LET u == sufstrtotv(a[2]) IN a[1] * (IF u = 0 THEN d ELSE u)

Valid(o) ==
    /\ o.interval # <<>> => o.interval[1] # 0 /\ sufstrtotv(o.interval[2]) # NATV
    /\ o.offset # <<>> => o.offset[1] = 0 \/ sufstrtotv(o.offset[2]) # NATV
    /\ o.invalidate # <<>> => sufstrtotv(o.invalidate[2]) # NATV
    /\ o.N # 0 /\ o.C # 0

Interval(o) == IF o.interval = <<>> THEN NSECS ELSE Scaled(o.interval, NSECS)

\* the offset as given
Offset(o) == IF o.offset = <<>> \/ o.offset[1] = 0 THEN 0 ELSE Scaled(o.offset, NSECS)

\* a negative offset is not turned around
Canonical_Cut(o) ==
    IF o.stamps # <<>> \/ Offset(o) = 0 THEN Offset(o)
    ELSE IF Offset(o) > 0 THEN Offset(o) % Interval(o)
    ELSE (-Offset(o)) % Interval(o)

\* the offset brought to 0 .. intv
Canonical(o) ==
    IF o.stamps # <<>> \/ Offset(o) = 0 THEN Offset(o)
    ELSE IF Offset(o) > 0 THEN Offset(o) % Interval(o)
    ELSE Interval(o) - ((-Offset(o)) % Interval(o))

\* -1, -2, -3, then -N (-1: not given), then -C, by quantity or value
Snapper(o) ==
    LET top  == o.N <= 1
        base == IF 2 \in o.flags THEN (IF 1 \in o.flags THEN "snap12" ELSE "snap2")
                ELSE IF 3 \in o.flags THEN "snap3"
                ELSE IF 1 \in o.flags THEN "snap1" ELSE "snap2"
    IN  IF o.C > 0 THEN (IF o.byValue THEN (IF top THEN "snapv" ELSE "snapvn")
                         ELSE IF top THEN "snapc" ELSE "snapcn")
        ELSE IF o.N > 0 THEN (IF top THEN "snap1" ELSE "snapn")
        ELSE base

\* A file of stamps is in order, as its stamps are read one after the other.
\* 3-books are those of Snap3.
ASSUME LinesAssumption ==
    \A o \in CommandLines :
       /\ o \in Lines
       /\ \A i, j \in 1 .. Len(o.stamps) : i < j => o.stamps[i] < o.stamps[j]
       /\ \A i \in 1 .. Len(o.stamps) : o.stamps[i] < NATV
       /\ Snapper(o) # "snap3"

Options(o) ==
    LET i == IF o.stamps # <<>> THEN 1 ELSE Interval(o)
    IN  [intv |-> i, offs |-> Canonical(o),
         inva |-> IF o.invalidate = <<>> THEN 0 ELSE Scaled(o.invalidate, i),
         snap |-> Snapper(o), ntop |-> o.N, cqty |-> o.C, stamps |-> o.stamps,
         wanted |-> o.instr \ {"*"}, catchAll |-> "*" \in o.instr]

-----------------------------------------------------------------------------
(* The metronome.  The results of next are the new metr, oldm and pos.     *)

\* a stamp on the grid is moved to the next
Ceil_Beyond(m) == ((m - offs) \div intv + 1) * intv + offs

\* first stamp of the grid that is not before m
Ceil(m) == ((m - 1 - offs) \div intv + 1) * intv + offs

\* straight to the next quote
_next_intv_Straight(newm) == [metr |-> Ceil(newm), oldm |-> oldm, pos |-> pos]

\* inva is not added on
_next_intv_Stuck(newm) ==
    LET early == inva # 0 /\ metr # 0 /\ metr + inva < newm
    IN  [metr |-> Ceil(IF early THEN metr ELSE newm), oldm |-> oldm, pos |-> pos]

\* if all that is known runs out before newm, stop there first
_next_intv(newm) ==
    LET out == metr + inva
        early == inva # 0 /\ metr # 0 /\ out > oldm /\ out < newm
    IN  [metr |-> Ceil(IF early THEN out ELSE newm),
         oldm |-> IF early THEN newm ELSE oldm, pos |-> pos]

_next_stmp(at) ==
    [metr |-> IF at <= Len(Stamps) THEN Stamps[at] ELSE NATV, oldm |-> oldm,
     pos |-> at]

next(newm) == IF Stamps = <<>> THEN _next_intv(newm) ELSE _next_stmp(pos + 1)

\* while ((metr = next(t)) < t);
FirstAfter(t) ==
    IF Stamps = <<>> THEN _next_intv(t)
    ELSE _next_stmp(Min({j \in 1 .. Len(Stamps) : Stamps[j] >= t} \cup {Len(Stamps) + 1}))

-----------------------------------------------------------------------------
(* The books.                                                              *)

\* the book a quote for k goes to; "" if it is not for us
BookOf(k) ==
    IF k \in known \/ opt.wanted = {} THEN k ELSE IF opt.catchAll THEN "ALL" ELSE ""

\* what expires at m is kept
book_exp_Late(b, m) ==
    [p \in Prices |-> IF inva # 0 /\ b[p] < m THEN 0 ELSE b[p]]

book_exp(b, m) ==
    [p \in Prices |-> IF inva # 0 /\ b[p] <= m THEN 0 ELSE b[p]]

\* book_add of a quote at time t, which is t + inva to the book
Added(b, x, t) ==
    [p \in Prices |-> IF x.kind = "clr" \/ (x.kind = "del" /\ p = x.p) THEN 0
                      ELSE IF x.kind = "set" /\ p = x.p THEN t ELSE b[p]]

badd(x, k) ==
    /\ book' = [book EXCEPT ![k] = Added(@, x, x.t + inva)]
    /\ quoted' = [quoted EXCEPT ![k] = Added(@, x, x.t)]
    /\ since' = IF since = 0 THEN x.t ELSE since

-----------------------------------------------------------------------------
(* A line is read; unless the metronome is overtaken it goes to its book.  *)

Read(x) ==
    LET k == BookOf(x.k)
        m == IF metr = 0 THEN FirstAfter(x.t) ELSE [metr |-> metr, oldm |-> oldm, pos |-> pos]
    IN  /\ pc = "read"
        /\ x.t >= q.t
        /\ q' = x
        /\ metr' = m.metr /\ oldm' = m.oldm /\ pos' = m.pos
        /\ IF k = ""
           THEN UNCHANGED <<book, known, pc, history>>
           ELSE /\ known' = known \cup {k}
                /\ IF x.t <= m.metr
                   THEN badd(x, k) /\ UNCHANGED pc
                   ELSE pc' = "snap" /\ UNCHANGED <<book, history>>
        /\ UNCHANGED <<cmd, opt, shot, stamp>>

\* the live prices, best bid first
Ladder(P) ==
    LET l == BestFirst(P, TRUE)
    IN  [i \in DOMAIN l |-> [p |-> l[i], q |-> 1]]

Live(b) == {p \in Prices : b[p] # 0}

\* the snappers: what each prints of one side, best level first
snap1(l)  == book_tops(l, 1)
snap12(l) == book_tops(l, 1)
snap2(l)  == l
snapn(l)  == book_tops(l, opt.ntop)
snapc(l)  == book_ctops(l, opt.cqty, 1)
snapcn(l) == book_ctops(l, opt.cqty, opt.ntop)
snapv(l)  == book_vtops(l, opt.cqty, 1)
snapvn(l) == book_vtops(l, opt.cqty, opt.ntop)

snap(b) ==
    LET l == Ladder(Live(b))
    IN  CASE opt.snap = "snap1"  -> snap1(l)
          [] opt.snap = "snap12" -> snap12(l)
          [] opt.snap = "snap2"  -> snap2(l)
          [] opt.snap = "snapn"  -> snapn(l)
          [] opt.snap = "snapc"  -> snapc(l)
          [] opt.snap = "snapcn" -> snapcn(l)
          [] opt.snap = "snapv"  -> snapv(l)
          [] opt.snap = "snapvn" -> snapvn(l)

\* materialise snapshot: expire, then print, book by book
Shoot ==
    /\ shot' = [k \in Names |-> IF k \in known THEN snap(book_exp(book[k], metr)) ELSE shot[k]]
    /\ stamp' = metr

Expired == [k \in Names |-> IF k \in known THEN book_exp(book[k], metr) ELSE book[k]]

\* one round of the do-while loop, and what follows it after the last round
Snapshot ==
    /\ pc = "snap"
    /\ Shoot
    /\ LET m == next(q.t)
           k == BookOf(q.k)
       IN  /\ metr' = m.metr /\ oldm' = m.oldm /\ pos' = m.pos
           /\ IF m.metr < q.t
              THEN book' = Expired /\ since' = 0 /\ UNCHANGED <<pc, quoted>>
              ELSE /\ pc' = "read"
                   /\ book' = [Expired EXCEPT ![k] = Added(@, q, q.t + inva)]
                   /\ quoted' = [quoted EXCEPT ![k] = Added(@, q, q.t)]
                   /\ since' = q.t
    /\ UNCHANGED <<cmd, opt, known, q>>

\* end of the input, final snapshot
Finish ==
    /\ pc = "read"
    /\ pc' = "end"
    /\ IF metr < NATV THEN Shoot /\ book' = Expired ELSE UNCHANGED <<shot, stamp, book>>
    /\ UNCHANGED <<cmd, opt, metr, oldm, pos, known, q, history>>

SnapInit ==
    /\ cmd \in CommandLines
    /\ opt = Options(cmd)
    /\ metr = 0 /\ oldm = 0 /\ pos = 0
    /\ book = [k \in Names |-> NoBook]
    /\ known = opt.wanted \cup (IF opt.catchAll THEN {"ALL"} ELSE {})
    /\ q = [k |-> "", kind |-> "clr", p |-> 0, t |-> 0]
    /\ pc = IF Valid(cmd) THEN "read" ELSE "end"
    /\ shot = [k \in Names |-> <<>>]
    /\ stamp = 0
    /\ quoted = [k \in Names |-> NoBook]
    /\ since = 0

SnapNext == (\E x \in Quotes : Read(x)) \/ Snapshot \/ Finish

\* Nothing keeps the program from going through its loop once it is in it.
SnapSpec == SnapInit /\ [][SnapNext]_svars /\ WF_svars(Snapshot)

-----------------------------------------------------------------------------

\* what k's book is at time m, by the quotes read so far
Truth(k, m) ==
    {p \in Prices : quoted[k][p] # 0 /\ (inva # 0 => quoted[k][p] + inva > m)}

Shooting == pc = "snap" \/ (pc # pc' /\ pc' = "end" /\ metr < NATV)

\* what the options ask to see of a book of prices P
Wanted(P) ==
    LET n == Max({1, cmd.N})
    IN  IF cmd.C > 0
        THEN IF cmd.byValue THEN book_vtops(Ladder(P), cmd.C, n) ELSE book_ctops(Ladder(P), cmd.C, n)
        ELSE Ladder(IF cmd.N > 0 \/ 1 \in cmd.flags
                    THEN {p \in P : Cardinality({r \in P : r > p}) < n} ELSE P)

\* A snapshot stamped m shows what the quotes up to m amount to, no quote
\* after m and none that is to be invalidated by m, all levels of it or as many
\* as asked for, although books are only cleaned up when a snapshot is shot
\* and quotes are only read while the metronome is ahead of them.
SnapTruthful ==
    [][Shooting =>
          /\ stamp' = metr
          /\ \A k \in known :
                /\ shot'[k] = Wanted(Truth(k, metr))
                /\ \A p \in Prices : quoted[k][p] <= metr]_svars

\* booksnap.yuck, --interval and --offset: snapshots come on the grid, an
\* offset before as well as after the full interval, or at the times of the
\* file, each later than the one before.
StampsAdvance ==
    [][Shooting /\ metr # 0 =>
          /\ stamp' > stamp
          /\ IF Stamps = <<>> THEN (stamp' - Offset(cmd)) % Interval(cmd) = 0
             ELSE \E j \in 1 .. Len(Stamps) : stamp' = Stamps[j]]_svars

\* stamp g may be left out between the last snapshot and the next: no quote
\* came in up to g
Skippable(g) == since = 0 \/ since > g

Grid == {opt.offs + i * intv : i \in 1 .. Horizon}

\* booksnap.yuck:21: "Shoot snaps every S seconds": a snapshot is left out
\* only if it would have been the same as the one before.  This does not hold
\* with --invalidate, where a quote may run out within a gap of the input.
GapsAreQuiet ==
    [][Stamps = <<>> /\ inva = 0 /\ stamp' # stamp /\ stamp # 0 =>
          \A g \in Grid : stamp < g /\ g < stamp' => Skippable(g)]_svars

\* With --invalidate, a quote that a snapshot shows is not left standing in
\* it: by the time everything shown must be invalid another snapshot is shot,
\* even if no quote comes in for much longer.
ExpiryShown ==
    [][Stamps = <<>> /\ inva # 0 /\ stamp' # stamp /\ (\E k \in Names : shot[k] # <<>>) =>
          stamp' <= Ceil(stamp + inva)]_svars

\* Catching up with a quote that lies far ahead comes to an end.
SnapsEnd == (pc = "snap") ~> (pc = "read")

=============================================================================
