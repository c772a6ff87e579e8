-------------------------------- MODULE Leaf --------------------------------
(***************************************************************************)
(* A leaf of the B+tree of src/src/btree.c: the sorted array of price      *)
(* levels one side of a book is kept in.  Everything here is a pure        *)
(* operator on a leaf record; Books and BTree drive it.                    *)
(*                                                                         *)
(*   desc   descp, TRUE for bids: best (highest) price first               *)
(*   n      number of slots taken, dead levels included                    *)
(*   used   the 64-bit bitmap of slots the iterator looks at, as the set   *)
(*          of the positions of its 1-bits                                 *)
(*   key    prices; integers, padded with NaN from slot n on               *)
(*   val    what sits at the price: a quantity and a time stamp            *)
(*                                                                         *)
(* A level with quantity <= 0 is dead ("nil"): it keeps its slot until an  *)
(* insertion claims it.                                                    *)
(*                                                                         *)
(* An operator X_Y, here and in the other modules, is X with a mistake Y   *)
(* somebody could make; nothing uses it but the mutants of PROJECT.json.   *)
(***************************************************************************)
EXTENDS Integers, FiniteSets, FiniteSetsExt

CONSTANTS
    NKeys,      \* countof(t->key), 64 in the code
    NaN         \* the not-a-number price

ASSUME NKeysAssumption == NKeys \in Nat /\ NKeys >= 2
ASSUME NaNAssumption == NaN \notin Int

Slots == 0 .. NKeys - 1
Keys  == Int \cup {NaN}
Vals  == [q : Int, t : Nat]

btree_val_nil == [q |-> 0, t |-> 0]

btree_val_nil_p(v) == v.q <= 0

Leaves == [desc : BOOLEAN, n : Nat, used : SUBSET Nat,
           key : [Slots -> Keys], val : [Slots -> Vals]]

make_btree(descp) ==
    [desc |-> descp, n |-> 0, used |-> {},
     key |-> [i \in Slots |-> NaN], val |-> [i \in Slots |-> btree_val_nil]]

-----------------------------------------------------------------------------
(* Key comparison: every comparison with NaN is false.                     *)

Same(a, b) == a # NaN /\ b # NaN /\ a = b

\* a comes before b in a leaf: lower for asks, higher for bids
Better(desc, a, b) ==
    /\ a # NaN
    /\ b # NaN
    /\ IF desc THEN a > b ELSE a < b

\* the linear search shared by leaf_get and leaf_add
Slot(lf, k) ==
    Min({i \in 0 .. lf.n : i < lf.n => ~Better(lf.desc, lf.key[i], k)})

FirstNil(lf) ==
    Min({i \in 0 .. lf.n : i < lf.n => btree_val_nil_p(lf.val[i])})

leaf_get(lf, k) ==
    LET i == Slot(lf, k)
    IN  IF Same(k, lf.key[i]) THEN lf.val[i] ELSE btree_val_nil

-----------------------------------------------------------------------------
(* leaf_add: find the slot of k, or make room for it by moving the levels  *)
(* between it and the first dead level (or the end) over by one.           *)

\* the memmoves on key[] and val[], i the slot searched, nul the dead one
Moved(f, i, nul) ==
    [j \in Slots |-> IF i < j /\ j <= nul THEN f[j - 1]
                     ELSE IF nul <= j /\ j < i - 1 THEN f[j + 1]
                     ELSE f[j]]

\* the levels move, their bits stay
MovedUsed_Still(used, i, nul) == used

\* the same shift on the bitmap, as the code does it: clear, then toggle
MovedUsed(used, i, nul) ==
    IF nul > i
    THEN LET msk == used \cap (i .. nul - 1)
         IN  SymDiff(used \ msk, {j + 1 : j \in msk})
    ELSE LET msk == used \cap (nul .. i - 1)
         IN  SymDiff(used \ msk, {j - 1 : j \in msk \ {0}})

\* the hole was to the left and i is not adjusted
Landing_NoStep(i, nul) == i

\* slot the key ends up in: one lower when the hole was to the left
Landing(i, nul) == IF nul < i THEN i - 1 ELSE i

\* n is not counted up
Insert_NoCount(lf, k, i, nul) ==
    LET a == Landing(i, nul)
    IN  [desc |-> lf.desc,
         n    |-> lf.n,
         used |-> MovedUsed(lf.used, i, nul) \cup {a},
         key  |-> [Moved(lf.key, i, nul) EXCEPT ![a] = k],
         val  |-> [Moved(lf.val, i, nul) EXCEPT ![a] = btree_val_nil]]

Insert(lf, k, i, nul) ==
    LET a == Landing(i, nul)
    IN  [desc |-> lf.desc,
         n    |-> IF nul < lf.n THEN lf.n ELSE lf.n + 1,
         used |-> MovedUsed(lf.used, i, nul) \cup {a},
         key  |-> [Moved(lf.key, i, nul) EXCEPT ![a] = k],
         val  |-> [Moved(lf.val, i, nul) EXCEPT ![a] = btree_val_nil]]

\* the slot whose value the returned pointer designates ...
PutSlot(lf, k) ==
    LET i == Slot(lf, k)
    IN  IF Same(k, lf.key[i]) THEN i ELSE Landing(i, FirstNil(lf))

\* ... and the leaf afterwards
leaf_add(lf, k) ==
    LET i == Slot(lf, k)
    IN  IF Same(k, lf.key[i])
        THEN [lf EXCEPT !.used = @ \cup {i}]
        ELSE Insert(lf, k, i, FirstNil(lf))

\* *splitp: the leaf has to be split before anything else is put
Full(lf) == lf.n >= NKeys - 1

\* a write through the returned pointer
Poke(lf, i, v) == [lf EXCEPT !.val = [@ EXCEPT ![i] = v]]

btree_clr(lf) ==
    [lf EXCEPT !.val = [i \in Slots |-> IF i < lf.n THEN btree_val_nil ELSE @[i]]]

-----------------------------------------------------------------------------
(* btree_iter_next.  The iterator jumps from 1-bit to 1-bit of used, skips *)
(* dead levels and switches their bits off.  When no 1-bit is left it      *)
(* takes __builtin_ctzll(0), which is undefined: whatever number comes     *)
(* back, the slots it can still hit lie past the last 1-bit.               *)

Live(lf) == {i \in 0 .. lf.n - 1 : ~btree_val_nil_p(lf.val[i])}

Stray(lf) == {i \in Live(lf) : \A u \in lf.used : u < i}

\* the sets of levels a walk from one end to the other may return
Walks(lf) == {(lf.used \cap Live(lf)) \cup T : T \in SUBSET Stray(lf)}

\* what a walk stopped at slot stop (lf.n: ran to the end) leaves behind
Walked(lf, stop) ==
    [lf EXCEPT !.used = {i \in @ : ~(i < stop /\ i < lf.n /\ btree_val_nil_p(lf.val[i]))}]

\* where m calls of the iterator stop on walk W
StopAfter(lf, W, m) ==
    Min({i \in W : Cardinality({j \in W : j <= i}) = m} \cup {lf.n})

=============================================================================
