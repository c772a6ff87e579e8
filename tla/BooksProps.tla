----------------------------- MODULE BooksProps -----------------------------
(***************************************************************************)
(* What is claimed of Books: the order of a leaf, that a book fed with     *)
(* quotes is the map BookSpec says it is, and when the iterator sees every *)
(* level.                                                                  *)
(***************************************************************************)
EXTENDS Books

\* The type of the state, and the part of it that is plain bookkeeping:
\* slots below n hold prices, those above NaN and nothing.
LeafOK(lf) ==
    /\ lf \in Leaves
    /\ lf.n \in 0 .. NKeys - 1
    /\ lf.used \subseteq 0 .. lf.n - 1
    /\ \A i \in Slots : IF i < lf.n THEN lf.key[i] \in Prices
                        ELSE lf.key[i] = NaN /\ lf.val[i] = btree_val_nil

TypeOK ==
    /\ book \in [Sides -> Leaves]
    /\ \A s \in Sides : LeafOK(book[s]) /\ book[s].desc = (s = "BID")
    /\ ret \in {NotAQuo, Echo} \cup Vals

\* leaf_add keeps the slots strictly ordered best price first, dead levels
\* included, whatever is inserted, moved or overwritten; so no price ever
\* has two slots and the linear searches stop at the right one.
SortedLeaf(lf) ==
    \A i, j \in 0 .. lf.n - 1 :
       i < j => Better(lf.desc, lf.key[i], lf.key[j])

Sorted == \A s \in Sides : SortedLeaf(book[s])

-----------------------------------------------------------------------------
(* The book as a map, and the refinement of BookSpec.                      *)

Norm(v) == IF v.q <= 0 THEN btree_val_nil ELSE v

LevelAt(lf, p) == Norm(leaf_get(lf, p))

Contents == [s \in Sides |-> [p \in Prices |-> LevelAt(book[s], p)]]

Promise == INSTANCE BookSpec WITH
    lvl <- Contents, quo <- quo,
    ret <- IF ret \in {NotAQuo, Echo} THEN ret ELSE Norm(ret)

\* A book fed with quotes of levels 1 to 3 and clears, and read in between,
\* behaves as the map of books.h: whatever dead levels are reclaimed on the
\* way, no other level is lost, doubled or changed, and book_add returns the
\* previous state of the level (none for a level-1 quote, see BookSpec).
FeedIsMap == Promise!BookSpec

-----------------------------------------------------------------------------
(* What the iterator sees.                                                 *)

Visible(lf) == Live(lf) \subseteq lf.used

\* no dead level still has its bit
Settled(lf) == lf.used \subseteq Live(lf)

\* The one thing that hides levels is an insertion that runs over the bit of
\* a dead level: from a side where every level is visible and no dead level
\* keeps its bit, every step of every operation leaves every level visible.
SettledKeepsVisible ==
    [][\A s \in Sides : Visible(book[s]) /\ Settled(book[s]) => Visible(book'[s])]_vars

\* A trade or an expiry on a book whose levels are all visible removes exactly
\* what it should and nothing else, on both sides at once: everything better
\* than the trade price and the traded quantity there, or everything not younger
\* than t.  books.h:223 has "Expunge all quotes older than T", books.c:200
\* expunges those exactly at t as well, which test booksnap_10 expects: this is
\* the code's reading, quotes at t included.
RemovesExactly ==
    [][(\A s \in Sides : Visible(book[s])) =>
          /\ \A p \in Prices, d \in Trades :
                AddDel(p, d) => Promise!Trade(p, d)
          /\ \A t \in Times : book_exp(t) => Promise!Expire(t)]_vars

\* books.h:226-227: "Return the top-most quote of BOOK'S SIDE."  Some walk of
\* the iterator, whatever __builtin_ctzll(0) is, starts at the best level.
TopIsBest ==
    \A s \in Sides :
       Live(book[s]) # {} =>
          \E W \in Walks(book[s]) : Min(Live(book[s])) \in W

=============================================================================
