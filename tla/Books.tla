------------------------------- MODULE Books --------------------------------
(***************************************************************************)
(* src/src/books.c over src/src/btree.c while each side fits in one leaf:  *)
(* a put is taken only while the leaf is not Full, because the next put on *)
(* a full leaf splits the root (BTree models that).                        *)
(*                                                                         *)
(* Quantities are integers for _Decimal64, prices integers for px_t.       *)
(***************************************************************************)
EXTENDS Leaf

CONSTANTS
    Prices,     \* prices quoted or traded
    Qtys,       \* totals quoted at level 1 and 2
    Incs,       \* changes quoted at level 3
    Trades,     \* quantities of trade (DEL) quotes
    Times,      \* time stamps quoted
    NATV,       \* the not-a-time stamp, above every time
    QuotePrices,\* QuotePrices[s]: those quoted on side s
    MaxQty,     \* bound on the quantity of a level
    MaxReads,   \* bound on the iterator calls of one read
    NotAQuo, Echo

ASSUME FeedAssumption ==
    /\ Prices \subseteq Int
    /\ Qtys \subseteq Int
    /\ Incs \subseteq Int
    /\ Trades \subseteq Int
    /\ Times \subseteq Nat \ {0}
    /\ NATV \in Nat \ Times
    /\ \A t \in Times : t < NATV
    /\ QuotePrices \in [{"ASK", "BID"} -> SUBSET Prices]
    /\ MaxQty \in Nat
    /\ MaxReads \in Nat

ASSUME ReturnAssumption == NotAQuo \notin Vals /\ Echo \notin Vals

VARIABLES
    book,       \* book[s]: the leaf of side s
    ret,        \* what the last book_add returned
    quo         \* and what it was given: flavour, side, price, quantity, time

vars == <<book, ret, quo>>

Sides == {"ASK", "BID"}

-----------------------------------------------------------------------------

make_book ==
    /\ book = [s \in Sides |-> make_btree(s = "BID")]
    /\ ret = NotAQuo

Init == make_book /\ quo = <<>>

\* btree_put followed by the assignments to *tmp
PutLevel(lf, p, v) == Poke(leaf_add(lf, p), PutSlot(lf, p), v)

\* what btree_put's pointer shows before those assignments
OldLevel(lf, p) == leaf_add(lf, p).val[PutSlot(lf, p)]

\* the sum is stored as it is
AddLvl3_NoClamp(s, p, d, t) ==
    LET o == OldLevel(book[s], p)
    IN  /\ ~Full(book[s])
        /\ o.q + d <= MaxQty
        /\ book' = [book EXCEPT ![s] = PutLevel(@, p, [q |-> o.q + d, t |-> t])]
        /\ ret' = o

\* BOOK_LVL_3: a change to a level, clamped at 0
AddLvl3(s, p, d, t) ==
    LET o == OldLevel(book[s], p)
    IN  /\ ~Full(book[s])
        /\ o.q + d <= MaxQty
        /\ book' = [book EXCEPT ![s] =
                       PutLevel(@, p, [q |-> IF o.q + d >= 0 THEN o.q + d ELSE 0,
                                       t |-> t])]
        /\ ret' = o

\* BOOK_LVL_2: the new total of a level
AddLvl2(s, p, q, t) ==
    /\ ~Full(book[s])
    /\ book' = [book EXCEPT ![s] = PutLevel(@, p, [q |-> q, t |-> t])]
    /\ ret' = OldLevel(book[s], p)

\* BOOK_LVL_1: clear the side, then put the one level there is
AddLvl1(s, p, q, t) ==
    LET c == btree_clr(book[s])
    IN  /\ q >= 0
        /\ ~Full(c)
        /\ book' = [book EXCEPT ![s] = PutLevel(c, p, [q |-> q, t |-> t])]
        /\ ret' = OldLevel(c, p)

\* BOOK_LVL_1 without a price: just clear the side
AddLvl1NaN(s, q) ==
    /\ q >= 0
    /\ book' = [book EXCEPT ![s] = btree_clr(@)]
    /\ ret' = Echo

\* a negative top level, a level-0 quote, a side nobody knows
AddInv == ret' = NotAQuo /\ UNCHANGED book

book_clr == book' = [s \in Sides |-> btree_clr(book[s])]

AddClr == book_clr /\ ret' = Echo

\* one side of BOOK_SIDE_DEL, on walk W of the iterator
Traded(lf, W, p, d) ==
    LET Reached(i) == Better(lf.desc, lf.key[i], p) \/ Same(lf.key[i], p)
        stop == Min({i \in W : ~Reached(i)} \cup {lf.n})
        Level(i) == IF i \in W /\ i < stop
                    THEN [lf.val[i] EXCEPT
                             !.q = IF Same(lf.key[i], p) THEN @ - d ELSE 0]
                    ELSE lf.val[i]
    IN  [Walked(lf, stop) EXCEPT !.val = [i \in Slots |-> Level(i)]]

AddDel(p, d) ==
    /\ ret' = Echo
    /\ \E A \in Walks(book["ASK"]), B \in Walks(book["BID"]) :
          book' = [book EXCEPT !["ASK"] = Traded(@, A, p, d),
                               !["BID"] = Traded(@, B, p, d)]

\* what is as old as t stays
Expunged_Older(lf, W, t) ==
    [Walked(lf, lf.n) EXCEPT
        !.val = [i \in Slots |-> IF i \in W /\ lf.val[i].t < t
                                 THEN btree_val_nil ELSE lf.val[i]]]

\* one side of book_exp, on walk W of the iterator
Expunged(lf, W, t) ==
    [Walked(lf, lf.n) EXCEPT
        !.val = [i \in Slots |-> IF i \in W /\ lf.val[i].t <= t
                                 THEN btree_val_nil ELSE lf.val[i]]]

book_exp(t) ==
    /\ t # 0
    /\ UNCHANGED ret
    /\ IF t = NATV
       THEN book_clr
       ELSE \E A \in Walks(book["ASK"]), B \in Walks(book["BID"]) :
               book' = [book EXCEPT !["ASK"] = Expunged(@, A, t),
                                    !["BID"] = Expunged(@, B, t)]

\* book_top, book_tops, book_ctop and the other readers: m calls of the
\* iterator, which only ever switch bits of dead levels off
Read(s, m) ==
    /\ \E W \in Walks(book[s]) :
          book' = [book EXCEPT ![s] = Walked(@, StopAfter(@, W, m))]
    /\ UNCHANGED ret

-----------------------------------------------------------------------------

QuoteSides == {s \in Sides : QuotePrices[s] # {}}

Quote ==
    \E s \in QuoteSides, t \in Times :
       \/ \E p \in QuotePrices[s], d \in Incs :
             AddLvl3(s, p, d, t) /\ quo' = <<3, s, p, d, t>>
       \/ \E p \in QuotePrices[s], q \in Qtys :
             AddLvl2(s, p, q, t) /\ quo' = <<2, s, p, q, t>>
       \/ \E p \in QuotePrices[s], q \in Qtys :
             AddLvl1(s, p, q, t) /\ quo' = <<1, s, p, q, t>>
       \/ \E q \in Qtys : AddLvl1NaN(s, q) /\ quo' = <<1, s>>

Reading == (\E s \in QuoteSides, m \in 1 .. MaxReads : Read(s, m)) /\ UNCHANGED quo

\* a feed of quotes and clears, as book2book replays one
FeedNext ==
    \/ Quote
    \/ AddInv /\ quo' = <<>>
    \/ AddClr /\ quo' = <<"CLR">>
    \/ Reading

Next ==
    \/ FeedNext
    \/ \E p \in Prices, d \in Trades : AddDel(p, d) /\ quo' = <<"DEL", p, d>>
    \/ (\E t \in Times \cup {NATV} : book_exp(t)) /\ UNCHANGED quo

Spec == Init /\ [][Next]_vars

FeedSpec == Init /\ [][FeedNext]_vars

=============================================================================
