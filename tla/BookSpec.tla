------------------------------ MODULE BookSpec ------------------------------
(***************************************************************************)
(* What books.h promises of a book, without slots, bitmaps or trees: each  *)
(* side is a map from price to the quantity on offer there and the time it *)
(* was last quoted.  A level without quantity is no level.  Where books.h  *)
(* and books.c differ this says what books.c does.                         *)
(***************************************************************************)
EXTENDS Integers

CONSTANTS
    Prices,     \* the prices a feed quotes,
    Qtys,       \* the totals
    Incs,       \* the changes
    Times,      \* and the time stamps
    NotAQuo,    \* NOT_A_QUO: the quote was refused
    Echo        \* book_add hands the caller's quote back as it came

VARIABLES
    lvl,        \* lvl[s][p]: what is on offer on side s at price p
    ret,        \* what the last book_add returned
    quo         \* and what it was given, as far as it is obeyed

specVars == <<lvl, ret, quo>>

Sides   == {"ASK", "BID"}
NoLevel == [q |-> 0, t |-> 0]

\* quantities <= 0 all mean the same to a reader of the book
Norm(v) == IF v.q <= 0 THEN NoLevel ELSE v

\* price a is offered before price b on side s
Ahead(s, a, b) == IF s = "BID" THEN a > b ELSE a < b

SpecInit ==
    /\ lvl = [s \in Sides |-> [p \in Prices |-> NoLevel]]
    /\ ret = NotAQuo
    /\ quo = <<>>

\* a new total for one level; the caller learns the level's previous state
SetLevel(s, p, q, t) ==
    /\ lvl' = [lvl EXCEPT ![s][p] = Norm([q |-> q, t |-> t])]
    /\ ret' = lvl[s][p]

\* a change to one level: it never goes below nothing
ChangeLevel(s, p, d, t) == SetLevel(s, p, lvl[s][p].q + d, t)

\* a top-of-book quote replaces the whole side, so it finds no level
ReplaceSide(s, p, q, t) ==
    /\ lvl' = [lvl EXCEPT ![s] =
                  [x \in Prices |-> IF x = p THEN Norm([q |-> q, t |-> t])
                                    ELSE NoLevel]]
    /\ ret' = NoLevel

\* a top-of-book quote without a price empties the side
EmptySide(s) ==
    /\ lvl' = [lvl EXCEPT ![s] = [x \in Prices |-> NoLevel]]
    /\ ret' = Echo

EmptyBook ==
    /\ lvl' = [s \in Sides |-> [x \in Prices |-> NoLevel]]
    /\ ret' = Echo

Refuse == ret' = NotAQuo /\ UNCHANGED lvl

\* a trade at p for quantity d: what is better is gone, p itself is reduced
Traded(s, p, d) ==
    [x \in Prices |-> IF Ahead(s, x, p) THEN NoLevel
                      ELSE IF x = p THEN Norm([lvl[s][x] EXCEPT !.q = @ - d])
                      ELSE lvl[s][x]]

Trade(p, d) ==
    /\ lvl' = [s \in Sides |-> Traded(s, p, d)]
    /\ ret' = Echo

\* what is not younger than t is gone
Kept(s, t) == [x \in Prices |-> IF lvl[s][x].t <= t THEN NoLevel ELSE lvl[s][x]]

Expire(t) ==
    /\ lvl' = [s \in Sides |-> Kept(s, t)]
    /\ UNCHANGED ret

\* what a feed may do to a book; reading a book changes nothing in it
SpecNext ==
    \/ \E s \in Sides, p \in Prices, t \in Times :
          \/ \E d \in Incs : quo' = <<3, s, p, d, t>> /\ ChangeLevel(s, p, d, t)
          \/ \E q \in Qtys : quo' = <<2, s, p, q, t>> /\ SetLevel(s, p, q, t)
          \/ \E q \in Qtys : quo' = <<1, s, p, q, t>> /\ ReplaceSide(s, p, q, t)
    \/ \E s \in Sides : quo' = <<1, s>> /\ EmptySide(s)
    \/ quo' = <<"CLR">> /\ EmptyBook
    \/ quo' = <<>> /\ Refuse

BookSpec == SpecInit /\ [][SpecNext]_specVars

=============================================================================
