---------------------------- MODULE BTreeProps ------------------------------
(***************************************************************************)
(* What is claimed of the tree of BTree: its shape, the reach of a put,    *)
(* and the chain of leaves.                                                *)
(***************************************************************************)
EXTENDS BTree, SequencesExt

\* Every node of the heap has the fields of struct btree_s.
TypeOK ==
    /\ \A t \in DOMAIN heap :
          /\ heap[t].innerp \in BOOLEAN
          /\ heap[t].next \in DOMAIN heap \cup {Null}
          /\ heap[t].lf \in Leaves
          /\ heap[t].lf.n \in 0 .. NKeys - 1
          /\ \A i \in Slots : heap[t].kid[i] \in DOMAIN heap \cup {Null}
    /\ splitp \in BOOLEAN
    /\ put \in [k : Puts \cup {NaN}, q : Qtys \cup {0}]

\* the nodes below t, best prices first, t itself included
RECURSIVE Below(_, _)
Below(h, t) ==
    <<t>> \o (IF h[t].innerp
              THEN FlattenSeq([i \in 1 .. h[t].lf.n + 1 |-> Below(h, h[t].kid[i - 1])])
              ELSE <<>>)

LeavesOf(h) == SelectSeq(Below(h, Root), LAMBDA t : ~h[t].innerp)

KeysOf(lf) == [i \in 1 .. lf.n |-> lf.key[i - 1]]

RECURSIVE Height(_, _)
Height(h, t) == IF h[t].innerp THEN 1 + Height(h, h[t].kid[0]) ELSE 1

\* every key of a leaf below t is not before lo and not past hi (NaN: no limit)
RECURSIVE Bounded(_, _, _, _)
Bounded(h, t, lo, hi) ==
    LET lf == h[t].lf
        Lo(i) == IF i = 0 THEN lo ELSE lf.key[i - 1]
        Hi(i) == IF i = lf.n THEN hi ELSE lf.key[i]
    IN  IF h[t].innerp
        THEN \A i \in 0 .. lf.n : Bounded(h, h[t].kid[i], Lo(i), Hi(i))
        ELSE \A i \in 0 .. lf.n - 1 :
                /\ ~Better(descp, lf.key[i], lo) /\ ~Same(lf.key[i], lo)
                /\ ~Better(descp, hi, lf.key[i])

\* Splits and take-overs keep the tree a tree: no node hangs in two places,
\* not even one that was taken over, all leaves are equally deep, and the
\* separators of every inner node divide the keys below it, dead ones
\* included, so that a search descends to the one leaf that can hold a key.
TreeShape ==
    /\ IsInjective(Below(heap, Root))
    /\ \A t \in ToSet(Below(heap, Root)) :
          heap[t].innerp =>
             \A i \in 1 .. heap[t].lf.n :
                Height(heap, heap[t].kid[i]) = Height(heap, heap[t].kid[0])
    /\ Bounded(heap, Root, NaN, NaN)

\* Along the tree the keys come strictly ordered, best first.
TreeSorted ==
    LET s == LeavesOf(heap)
        keys == FlattenSeq([i \in 1 .. Len(s) |-> KeysOf(heap[s[i]].lf)])
    IN  \A i \in 1 .. Len(keys) - 1 : Better(descp, keys[i], keys[i + 1])

Qty(h, k) == LET q == btree_get(h, k).q IN IF q <= 0 THEN 0 ELSE q

\* A put disturbs no other price: whatever is split, taken over, moved or
\* left behind on the way, every other level has the quantity it had.
PutKeepsOthers ==
    [][put' # NoPut => \A x \in Puts \ {put'.k} : Qty(heap', x) = Qty(heap, x)]_vars

\* the chain of leaves from t on, up to the first leaf of seen
RECURSIVE ChainSeq(_, _, _)
ChainSeq(h, t, seen) ==
    IF t = Null THEN <<>>
    ELSE <<t>> \o (IF t \in seen THEN <<>> ELSE ChainSeq(h, h[t].next, seen \cup {t}))

\* In a tree of two levels the next pointers lead through exactly the leaves
\* of the tree in order, also after a leaf was taken over.
ChainInOrder ==
    Height(heap, Root) <= 2 => ChainSeq(heap, FirstLeaf(heap, Root), {}) = LeavesOf(heap)

\* In such a tree btree_top finds the best level there is, past any number of
\* dead levels and leaves, and NaN only when there is none.
TopOfTree ==
    Height(heap, Root) <= 2 =>
       LET s == {k \in Puts : Qty(heap, k) > 0}
       IN  btree_top(heap) = IF s = {} THEN NaN
                             ELSE CHOOSE k \in s : \A x \in s : ~Better(descp, x, k)

-----------------------------------------------------------------------------
(* What the sources say and the tree does not do.                          *)

\* books.c:143-144: "we put the value first so it's guaranteed to be in
\* there": what was written through btree_put's pointer is found again.
PutIsStored ==
    put # NoPut => Qty(heap, put.k) = put.q

=============================================================================
