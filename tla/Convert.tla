------------------------------ MODULE Convert -------------------------------
(***************************************************************************)
(* src/src/book2book.c -2 and -3: every line of the input is applied to a  *)
(* book and printed as a line of a 2-book or a 3-book.  A top-of-book      *)
(* quote and a clear are unwound level by level first, with an iterator    *)
(* that stays open while book_add writes to the levels it passes.          *)
(*                                                                         *)
(* mirror is what a reader makes of the lines printed so far: on each side *)
(* the quantity it has at each price.  ret and quo, which only the         *)
(* refinement of Books is about, are not kept up between the lines.        *)
(***************************************************************************)
EXTENDS BooksProps

CONSTANT MaxSeen    \* bound on the quantities the reader adds up to

ASSUME SeenAssumption == MaxSeen \in Nat

VARIABLES
    mode,       \* the option given, 2: prq2, 3: prq3
    mirror

cvars == <<vars, mode, mirror>>

NonNegative(q) == IF q >= 0 THEN q ELSE 0

\* the old quantity is not taken off
prq_Total(m, q, o) == NonNegative(IF mode = 2 THEN q ELSE m + q)

\* the quantity a line printed for quote q leaves at its price, o being what
\* book_add returned and m what the reader had: prq2 prints the quote's
\* quantity as the total, prq3 its difference to o as a change
prq(m, q, o) == NonNegative(IF mode = 2 THEN q ELSE m + (q - o))

Printed(s, p, q, o) == [mirror EXCEPT ![s][p] = prq(@, q, o)]

-----------------------------------------------------------------------------
(* One line of the input each: the loop's body from the reading of the     *)
(* quote to the printing.                                                  *)

ConvLvl2(s, p, q, t) ==
    /\ AddLvl2(s, p, q, t)
    /\ mirror' = Printed(s, p, q, OldLevel(book[s], p).q)

\* the levels U of walk W set to quantity 0 one by one, by level-2 quotes
\* without a time; stop is where the iterator ended up
Unwound(lf, U, stop) ==
    [Walked(lf, stop) EXCEPT
        !.used = @ \cup U,
        !.val = [i \in Slots |-> IF i \in U THEN btree_val_nil ELSE @[i]]]

\* and the lines printed for them
UnwoundMirror(s, U) ==
    LET At(p) == {i \in U : book[s].key[i] = p}
    IN  [p \in Prices |->
            IF At(p) = {} THEN mirror[s][p]
            ELSE prq(mirror[s][p], 0, book[s].val[Min(At(p))].q)]

\* bids and asks are compared the same way
AheadOf_AllBids(lf, i, p) == Better(TRUE, lf.key[i], p)

\* the loop's condition: the level in slot i is better than the new top
AheadOf(lf, i, p) == Better(lf.desc, lf.key[i], p)

\* The levels ahead of the new top go one by one, all others with book_add;
\* a negative top is refused after that, and printed all the same.
ConvLvl1(s, p, q, t) ==
    \E W \in Walks(book[s]) :
       LET lf   == book[s]
           stop == Min({i \in W : ~AheadOf(lf, i, p)} \cup {lf.n})
           U    == {i \in W : i < stop}
           u    == Unwound(lf, U, stop)
           o    == IF q >= 0 THEN OldLevel(btree_clr(u), p) ELSE btree_val_nil
           m    == UnwoundMirror(s, U)
       IN  /\ U # {} \/ q >= 0 => ~Full(lf)
           /\ book' = [book EXCEPT ![s] =
                          IF q >= 0 THEN PutLevel(btree_clr(u), p, [q |-> q, t |-> t]) ELSE u]
           /\ ret' = IF q >= 0 THEN o ELSE NotAQuo
           /\ mirror' = [mirror EXCEPT ![s] = [m EXCEPT ![p] = prq(@, q, o.q)]]

\* Without a price nothing is ahead of it, so the iterator is called just once;
\* the line printed has no price either.
ConvLvl1NaN(s, q) ==
    \E W \in Walks(book[s]) :
       /\ q >= 0
       /\ book' = [book EXCEPT ![s] = btree_clr(Walked(@, Min(W \cup {@.n})))]
       /\ ret' = Echo
       /\ UNCHANGED mirror

\* a change, which prq2 prints as if it were a total and prq3 as if one had
\* been given
ConvLvl3(s, p, d, t) ==
    /\ AddLvl3(s, p, d, t)
    /\ mirror' = Printed(s, p, d, OldLevel(book[s], p).q)

\* a quote of level 0: refused, and printed all the same
ConvInv(s, p, q) == AddInv /\ mirror' = Printed(s, p, q, 0)

\* a clear is unwound on both sides and not added any more
ConvClr ==
    \E A \in Walks(book["ASK"]), B \in Walks(book["BID"]) :
       LET U == [s \in Sides |-> IF s = "ASK" THEN A ELSE B]
       IN  /\ \A s \in Sides : U[s] # {} => ~Full(book[s])
           /\ book' = [s \in Sides |-> Unwound(book[s], U[s], book[s].n)]
           /\ mirror' = [s \in Sides |-> UnwoundMirror(s, U[s])]
           /\ UNCHANGED ret

\* A trade is echoed by book_add, so prq3 prints it with quantity d - d.
ConvDel(p, d) ==
    LET e == IF mode = 2 THEN d ELSE d - d
    IN  /\ AddDel(p, d)
        /\ mirror' = [s \in Sides |->
              [x \in Prices |-> IF Better(s = "BID", x, p) THEN 0
                                ELSE IF x = p THEN NonNegative(mirror[s][x] - e)
                                ELSE mirror[s][x]]]

-----------------------------------------------------------------------------

ConvInit ==
    /\ Init
    /\ mode \in {2, 3}
    /\ mirror = [s \in Sides |-> [p \in Prices |-> 0]]

Bounded == \A s \in Sides, p \in Prices : mirror'[s][p] <= MaxSeen

\* tops include a negative one
Tops == Qtys \cup {-1}

ConvNext ==
    /\ \/ \E s \in QuoteSides, t \in Times : \E p \in QuotePrices[s] :
             \/ \E q \in Tops : ConvLvl1(s, p, q, t)
             \/ \E q \in Qtys : ConvLvl2(s, p, q, t)
             \/ \E d \in Incs : ConvLvl3(s, p, d, t)
       \/ \E s \in QuoteSides, q \in Qtys : ConvLvl1NaN(s, q)
       \/ \E s \in QuoteSides, q \in Qtys : \E p \in QuotePrices[s] : ConvInv(s, p, q)
       \/ ConvClr
       \/ \E p \in Prices, d \in Trades : ConvDel(p, d)
    /\ Bounded
    /\ UNCHANGED <<mode, quo>>

ConvSpec == ConvInit /\ [][ConvNext]_cvars

-----------------------------------------------------------------------------

Follows == \A s \in Sides, p \in Prices : mirror[s][p] = Contents[s][p].q

AllVisible == \A s \in Sides : Visible(book[s])

TopQuoted ==
    \E s \in QuoteSides :
       \/ \E t \in Times, p \in QuotePrices[s], q \in Tops : ConvLvl1(s, p, q, t)
       \/ \E q \in Qtys : ConvLvl1NaN(s, q)

Refused == \E s \in QuoteSides, q \in Qtys : \E p \in QuotePrices[s] : ConvInv(s, p, q)

Traded2 == \E p \in Prices, d \in Trades : ConvDel(p, d)

\* a trade for more than a level had leaves less than nothing there
Overdrawn == \E s \in Sides, i \in Slots : book[s].val[i].q < 0

\* a change to a level that is not just 0 and so cannot stand for a total
Changed ==
    \E s \in QuoteSides, t \in Times : \E p \in QuotePrices[s], d \in Incs :
       ConvLvl3(s, p, d, t) /\ OldLevel(book[s], p).q # 0

\* book2book.yuck:16-18: "A 2-book at any time represents all quotes with
\* their aggregate quantity": a reader of the lines, of totals or of changes,
\* who has the book that book2book has still has it after the next total,
\* clear or new level, whatever levels the iterator does not see; and with -2
\* after the next trade if the iterator sees them all.  Left out are tops,
\* refused quotes, changes to a level there is, and with -3 books that are
\* overdrawn.
OutputFollows ==
    [][/\ Follows
       /\ ~TopQuoted /\ ~Refused /\ ~Changed
       /\ Traded2 => mode = 2 /\ AllVisible
       /\ mode = 3 => ~Overdrawn
       => Follows']_cvars

BestOf(s, f) ==
    LET P == {p \in Prices : f[p] > 0}
    IN  IF P = {} THEN NaN ELSE CHOOSE p \in P : \A x \in P : ~Better(s = "BID", x, p)

\* The next top-of-book quote, if it has a quantity, leaves such a reader with
\* the right best price on each side: exactly what was better has been taken
\* back before it.
TopFollows ==
    [][Follows /\ AllVisible =>
          \A s \in QuoteSides, t \in Times, q \in Qtys \ {0} : \A p \in QuotePrices[s] :
             ConvLvl1(s, p, q, t) =>
                \A x \in Sides :
                   BestOf(x, mirror'[x]) = BestOf(x, [y \in Prices |-> Contents'[x][y].q])]_cvars

=============================================================================
