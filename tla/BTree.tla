------------------------------- MODULE BTree --------------------------------
(***************************************************************************)
(* src/src/btree.c beyond one leaf: a heap of nodes, splits that create a  *)
(* node or take over ("hijack") a sibling whose levels are all dead, and   *)
(* the chain of leaves the iterator and btree_clr run along.               *)
(*                                                                         *)
(* The leaf part of a node is a record of Leaf; kid[] is the pointer view  *)
(* of the val[] union of an inner node.  Node 0 is the root, which never   *)
(* moves: splitting it pushes its contents down.                           *)
(***************************************************************************)
EXTENDS Leaf, TLC

CONSTANTS
    Puts,       \* the keys put
    Qtys,       \* the quantities written through btree_put's pointer
    descp,      \* TRUE: bids
    MaxNodes    \* bound on make_btree calls

ASSUME TreeAssumption ==
    /\ NKeys % 2 = 0 /\ NKeys >= 4
    /\ Puts \subseteq Int
    /\ Qtys \subseteq Int
    /\ descp \in BOOLEAN
    /\ MaxNodes \in Nat \ {0}

VARIABLES
    heap,       \* node id -> node
    splitp,     \* the root has to be split before the next put
    put         \* the key and the quantity last written

vars == <<heap, splitp, put>>

Null  == -1
Root  == 0
NoPut == [k |-> NaN, q |-> 0]

piv == (NKeys \div 2) - 1

new_node ==
    [innerp |-> FALSE, next |-> Null, kid |-> [i \in Slots |-> Null],
     lf |-> make_btree(descp)]

Fresh(h) == Cardinality(DOMAIN h)

Alloc(h) == h @@ (Fresh(h) :> new_node)

\* F(v), with v evaluated once: TLC would evaluate it at each use in F
Bind(v, F(_)) == CHOOSE r \in {F(x) : x \in {v}} : r = r

\* memcpy of m items from position from of g to the front of f
Copied(f, g, from, m) == [i \in Slots |-> IF i < m THEN g[from + i] ELSE f[i]]

\* memset(key + from, -1, ...)
Padded(f, from) == [i \in Slots |-> IF i < from THEN f[i] ELSE NaN]

-----------------------------------------------------------------------------
(* Search.                                                                 *)

\* the last value or child is not looked at
RECURSIVE node_free_p_ButLast(_, _)
node_free_p_ButLast(h, t) ==
    IF h[t].innerp
    THEN \A i \in 0 .. h[t].lf.n - 1 : node_free_p_ButLast(h, h[t].kid[i])
    ELSE \A i \in 0 .. h[t].lf.n - 2 : btree_val_nil_p(h[t].lf.val[i])

RECURSIVE node_free_p(_, _)
node_free_p(h, t) ==
    IF h[t].innerp
    THEN \A i \in 0 .. h[t].lf.n : node_free_p(h, h[t].kid[i])
    ELSE \A i \in 0 .. h[t].lf.n - 1 : btree_val_nil_p(h[t].lf.val[i])

\* the leaf k belongs to: twig_get's descent
RECURSIVE LeafOf(_, _, _)
LeafOf(h, t, k) ==
    IF h[t].innerp THEN LeafOf(h, h[t].kid[Slot(h[t].lf, k)], k) ELSE t

btree_get(h, k) == leaf_get(h[LeafOf(h, Root, k)].lf, k)

RECURSIVE FirstLeaf(_, _)
FirstLeaf(h, t) == IF h[t].innerp THEN FirstLeaf(h, h[t].kid[0]) ELSE t

-----------------------------------------------------------------------------
(* Splitting.                                                              *)

root_split(h) ==
    LET l == Fresh(h)
        r == l + 1
        g == Alloc(Alloc(h))
        root == h[Root]
        inner == root.innerp
    IN  [g EXCEPT
         ![l] = [@ EXCEPT !.innerp = inner,
                          !.next = r,
                          !.kid = Copied(@, root.kid, 0, piv + 1),
                          !.lf.n = IF inner THEN piv ELSE piv + 1,
                          !.lf.key = Copied(@, root.lf.key, 0, piv + 1),
                          !.lf.val = Copied(@, root.lf.val, 0, piv + 1)],
         ![r] = [@ EXCEPT !.innerp = inner,
                          !.kid = Copied(@, root.kid, piv + 1, piv + 1),
                          !.lf.n = piv,
                          !.lf.key = Copied(@, root.lf.key, piv + 1, piv),
                          !.lf.val = Copied(@, root.lf.val, piv + 1, piv + 1)],
         ![Root] = [@ EXCEPT !.innerp = TRUE,
                             !.next = Null,
                             !.kid = [@ EXCEPT ![0] = l, ![1] = r],
                             !.lf.n = 1,
                             !.lf.key = Padded([@ EXCEPT ![0] = root.lf.key[piv]], 1)]]

\* the first child of p that can be taken over, p's n + 1 if there is none
SpareKid(h, p) ==
    Min({i \in 0 .. h[p].lf.n : node_free_p(h, h[p].kid[i])} \cup {h[p].lf.n + 1})

\* a spare child to the left leaves its place empty
Shifted_RightOnly(f, idx, nul) ==
    [j \in Slots |-> IF idx < j /\ j <= nul THEN f[j - 1] ELSE f[j]]

\* the memmoves on the parent's key[] and val[]
Shifted(f, idx, nul) ==
    [j \in Slots |-> IF idx < j /\ j <= nul THEN f[j - 1]
                     ELSE IF nul <= j /\ j < idx THEN f[j + 1]
                     ELSE f[j]]

\* the neighbour of the node taken over keeps pointing at it
Unlinked_Not(h, p, nul) == h

\* the node taken over is cut out of the chain of its siblings
Unlinked(h, p, nul) ==
    IF nul > 0
    THEN [h EXCEPT ![h[p].kid[nul - 1]].next = h[h[p].kid[nul]].next]
    ELSE h

node_split(h, p, idx) ==
    LET prnt == h[p]
        c    == prnt.kid[idx]
        chld == h[c]
        nul  == SpareKid(h, p)
        new  == nul > prnt.lf.n
        r    == IF new THEN Fresh(h) ELSE prnt.kid[nul]
        g    == IF new THEN Alloc(h) ELSE Unlinked(h, p, nul)
        at   == IF nul < idx THEN idx - 1 ELSE idx
        cn   == IF chld.innerp THEN piv ELSE piv + 1
        g1   == [g EXCEPT
                 ![p] = [@ EXCEPT !.lf.n = IF new THEN @ + 1 ELSE @,
                                  !.lf.key = [Shifted(@, idx, nul) EXCEPT
                                                 ![at] = chld.lf.key[piv]],
                                  !.kid = [Shifted(@, idx, nul) EXCEPT ![at + 1] = r]],
                 ![r] = [@ EXCEPT !.innerp = chld.innerp,
                                  !.next = g[c].next,
                                  !.lf.n = piv,
                                  !.kid = Copied(@, chld.kid, piv + 1, piv + 1),
                                  !.lf.key = Padded(Copied(@, chld.lf.key, piv + 1, piv), piv),
                                  !.lf.val = Copied(@, chld.lf.val, piv + 1, piv + 1)]]
    IN  [g1 EXCEPT
         ![c] = [@ EXCEPT !.next = r,
                          !.lf.n = cn,
                          !.lf.key = Padded(@, cn)]]

-----------------------------------------------------------------------------
(* btree_put.  The result is the heap, the slot the returned pointer       *)
(* designates and whether the node has to be split by its parent.          *)

\* one key too late
MustSplit_Late(h, t) == h[t].lf.n >= NKeys

MustSplit(h, t) == h[t].lf.n >= NKeys - 1

RECURSIVE twig_add(_, _, _)
twig_add(h, t, k) ==
    IF h[t].innerp
    THEN LET i == Slot(h[t].lf, k)
             Split(b) == [b EXCEPT !.heap = IF MustSplit(@, h[t].kid[i])
                                            THEN node_split(@, t, i) ELSE @]
         IN  Bind(twig_add(h, h[t].kid[i], k), Split)
    ELSE [heap |-> [h EXCEPT ![t].lf = leaf_add(@, k)],
          node |-> t, slot |-> PutSlot(h[t].lf, k)]

btree_put(h, k) ==
    LET Add(g) == twig_add(g, Root, k)
    IN  Bind(IF splitp THEN root_split(h) ELSE h, Add)

Put(k, q) ==
    \E b \in {btree_put(heap, k)} :
       /\ Fresh(b.heap) <= MaxNodes
       /\ heap' = [b.heap EXCEPT ![b.node].lf = Poke(@, b.slot, [q |-> q, t |-> 0])]
       /\ splitp' = MustSplit(b.heap, Root)
       /\ put' = [k |-> k, q |-> q]

\* the leaves along the chain from the leftmost one
RECURSIVE ChainFrom(_, _, _)
ChainFrom(h, t, seen) ==
    IF t = Null \/ t \in seen THEN seen ELSE ChainFrom(h, h[t].next, seen \cup {t})

Chain(h) == ChainFrom(h, FirstLeaf(h, Root), {})

Clr ==
    /\ heap' = [t \in DOMAIN heap |->
                  IF t \in Chain(heap) THEN [heap[t] EXCEPT !.lf = btree_clr(@)] ELSE heap[t]]
    /\ put' = NoPut
    /\ UNCHANGED splitp

\* the key of the first live level along the chain: btree_top
RECURSIVE TopFrom(_, _)
TopFrom(h, t) ==
    IF t = Null THEN NaN
    ELSE IF Live(h[t].lf) # {} THEN h[t].lf.key[Min(Live(h[t].lf))]
    ELSE TopFrom(h, h[t].next)

\* the next leaf is never tried
btree_top_OneLeaf(h) ==
    LET lf == h[FirstLeaf(h, Root)].lf
    IN  IF Live(lf) = {} THEN NaN ELSE lf.key[Min(Live(lf))]

btree_top(h) == TopFrom(h, FirstLeaf(h, Root))

\* btree_rem: a key that is not home leaves everything as it is
Rem(k) ==
    LET t == LeafOf(heap, Root, k)
        i == Slot(heap[t].lf, k)
    IN  /\ heap' = IF Same(k, heap[t].lf.key[i])
                   THEN [heap EXCEPT ![t].lf = Poke(@, i, btree_val_nil)] ELSE heap
        /\ put' = [k |-> k, q |-> 0]
        /\ UNCHANGED splitp

\* btree_iter_next until it returns false
Walk ==
    /\ heap' = [t \in DOMAIN heap |->
                  IF t \in Chain(heap)
                  THEN [heap[t] EXCEPT !.lf = Walked(@, @.n)] ELSE heap[t]]
    /\ UNCHANGED <<splitp, put>>

Init ==
    /\ heap = [t \in {Root} |-> new_node]
    /\ splitp = FALSE
    /\ put = NoPut

\* the operations books.c performs on a tree, but for the iterator: used is
\* read by nothing else
WriteNext == (\E k \in Puts, q \in Qtys : Put(k, q)) \/ Clr

Next == WriteNext \/ (\E k \in Puts : Rem(k)) \/ Walk

Spec == Init /\ [][Next]_vars

WriteSpec == Init /\ [][WriteNext]_vars

=============================================================================
