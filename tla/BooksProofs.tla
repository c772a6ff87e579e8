---------------------------- MODULE BooksProofs -----------------------------
(***************************************************************************)
(* Type correctness, the order of the leaves, the refinement of BookSpec   *)
(* and two action properties about what the iterator sees and removes, for *)
(* every size of leaf and every feed. The inductive invariant is Inv: each *)
(* side is a leaf with its bookkeeping in order (LeafOK) and strictly      *)
(* ordered (SortedLeaf). The two need each other: the search finds the     *)
(* right slot only in an ordered leaf, and an insertion keeps the order    *)
(* only if it goes to the right slot.                                      *)
(***************************************************************************)
EXTENDS BooksProps, WellFoundedInduction, TLAPS

\* A set of naturals has a minimum: what the Min of the searches denotes.
LEMMA MinOfNats ==
  ASSUME NEW S \in SUBSET Nat, S # {}
  PROVE  /\ Min(S) \in S
         /\ \A y \in S : Min(S) <= y
<1>1. \E x \in S : \A y \in S : <<y, x>> \notin OpToRel(<, Nat)
  BY NatLessThanWellFounded, WFMin, Zenon
<1>2. PICK x \in S : \A y \in S : <<y, x>> \notin OpToRel(<, Nat)
  BY <1>1, Zenon
<1>3. \A y \in S : x <= y
  <2> SUFFICES ASSUME NEW y \in S PROVE ~(y < x)
    BY SMT
  <2> QED BY <1>2 DEF OpToRel
<1> QED BY <1>3 DEF Min


LeafInv(lf) == LeafOK(lf) /\ SortedLeaf(lf)

\* The fields of a leaf have the types of struct btree_s.
LEMMA LeafTypes ==
  ASSUME NEW lf, LeafOK(lf)
  PROVE  /\ lf.desc \in BOOLEAN
         /\ lf.n \in Nat /\ lf.n <= NKeys - 1
         /\ lf.used \subseteq 0 .. lf.n - 1
         /\ lf.key \in [Slots -> Keys]
         /\ lf.val \in [Slots -> Vals]
         /\ \A i \in 0 .. lf.n - 1 : lf.key[i] \in Int /\ lf.key[i] \in Prices /\ lf.key[i] # NaN
         /\ \A i \in lf.n .. NKeys - 1 : lf.key[i] = NaN /\ lf.val[i] = btree_val_nil
         /\ \A i \in 0 .. lf.n : i \in Slots
<1>1. /\ lf.desc \in BOOLEAN
      /\ lf.n \in Nat /\ lf.n <= NKeys - 1
      /\ lf.used \subseteq 0 .. lf.n - 1
      /\ lf.key \in [Slots -> Keys]
      /\ lf.val \in [Slots -> Vals]
  BY NKeysAssumption DEF LeafOK, Leaves
<1>2. \A i \in 0 .. lf.n : i \in Slots
  BY <1>1, NKeysAssumption DEF Slots
<1>3. \A i \in 0 .. lf.n - 1 : lf.key[i] \in Prices
  BY <1>1, NKeysAssumption DEF LeafOK, Slots
<1>4. \A i \in lf.n .. NKeys - 1 : lf.key[i] = NaN /\ lf.val[i] = btree_val_nil
  BY <1>1, NKeysAssumption DEF LeafOK, Slots
<1> QED BY <1>1, <1>2, <1>3, <1>4, NaNAssumption, FeedAssumption

\* The linear search of leaf_get and leaf_add stops at the first slot that is
\* not better than k.
LEMMA SlotIs ==
  ASSUME NEW lf, LeafInv(lf), NEW k \in Prices
  PROVE  /\ Slot(lf, k) \in 0 .. lf.n
         /\ \A j \in 0 .. Slot(lf, k) - 1 : Better(lf.desc, lf.key[j], k)
         /\ \A j \in Slot(lf, k) .. lf.n - 1 : ~Better(lf.desc, lf.key[j], k)
<1> DEFINE S == {i \in 0 .. lf.n : i < lf.n => ~Better(lf.desc, lf.key[i], k)}
           i0 == Slot(lf, k)
<1>t. /\ lf.desc \in BOOLEAN /\ lf.n \in Nat /\ k \in Int
      /\ \A i \in 0 .. lf.n - 1 : lf.key[i] \in Int /\ lf.key[i] # NaN
  BY LeafTypes, FeedAssumption DEF LeafInv
<1>1. S \in SUBSET Nat /\ lf.n \in S
  BY <1>t
<1>2. i0 \in S /\ \A y \in S : i0 <= y
  BY <1>1, MinOfNats DEF Slot
<1>3. \A j \in 0 .. i0 - 1 : Better(lf.desc, lf.key[j], k)
  BY <1>2, <1>t
<1>4. ASSUME NEW j \in i0 .. lf.n - 1, Better(lf.desc, lf.key[j], k)
      PROVE FALSE
  <2>1. i0 < lf.n /\ ~Better(lf.desc, lf.key[i0], k) /\ i0 \in 0 .. lf.n - 1
    BY <1>2, <1>t
  <2>2. i0 # j
    BY <2>1, <1>4
  <2>3. Better(lf.desc, lf.key[i0], lf.key[j])
    BY <2>1, <2>2, <1>t DEF LeafInv, SortedLeaf
  <2> QED BY <2>1, <2>3, <1>4, <1>t DEF Better
<1> QED BY <1>2, <1>3, <1>4

\* In an ordered leaf that slot holds k if any slot does; otherwise all
\* before it are better and all from it on are worse.
LEMMA SlotOfHome ==
  ASSUME NEW lf, LeafInv(lf), NEW k \in Prices
  PROVE  /\ Same(k, lf.key[Slot(lf, k)]) <=> Slot(lf, k) < lf.n /\ lf.key[Slot(lf, k)] = k
         /\ \A i \in 0 .. lf.n - 1 : lf.key[i] = k => Slot(lf, k) = i
         /\ ~Same(k, lf.key[Slot(lf, k)]) =>
              \A j \in Slot(lf, k) .. lf.n - 1 : Better(lf.desc, k, lf.key[j])
<1> DEFINE i0 == Slot(lf, k)
<1>t. /\ lf.desc \in BOOLEAN /\ lf.n \in Nat /\ lf.n <= NKeys - 1 /\ k \in Int /\ k # NaN
      /\ \A i \in 0 .. lf.n - 1 : lf.key[i] \in Int /\ lf.key[i] # NaN
      /\ \A i \in lf.n .. NKeys - 1 : lf.key[i] = NaN
  BY LeafTypes, FeedAssumption, NaNAssumption DEF LeafInv
<1>s. /\ i0 \in 0 .. lf.n
      /\ \A j \in 0 .. i0 - 1 : Better(lf.desc, lf.key[j], k)
      /\ \A j \in i0 .. lf.n - 1 : ~Better(lf.desc, lf.key[j], k)
  BY SlotIs
<1> HIDE DEF i0
<1>1. Same(k, lf.key[i0]) <=> i0 < lf.n /\ lf.key[i0] = k
  BY <1>s, <1>t, NKeysAssumption DEF Same
<1>2. ASSUME NEW i \in 0 .. lf.n - 1, lf.key[i] = k PROVE i0 = i
  <2>1. ~(i < i0)
    BY <1>s, <1>t, <1>2 DEF Better
  <2>2. CASE i0 < i
    <3>1. i0 \in 0 .. lf.n - 1
      BY <2>2, <1>s, <1>t
    <3>2. Better(lf.desc, lf.key[i0], lf.key[i])
      BY <2>2, <3>1 DEF LeafInv, SortedLeaf
    <3> QED BY <3>1, <3>2, <1>2, <1>s
  <2> QED BY <2>1, <2>2, <1>s, <1>t
<1>3. ASSUME ~Same(k, lf.key[i0]), NEW j \in i0 .. lf.n - 1
      PROVE  Better(lf.desc, k, lf.key[j])
  <2>1. ~Better(lf.desc, lf.key[j], k) /\ j \in 0 .. lf.n - 1
    BY <1>s, <1>t
  <2>2. lf.key[j] # k
    BY <1>1, <1>2, <1>3, <2>1, <1>t, <1>s
  <2> QED BY <2>1, <2>2, <1>t DEF Better
<1> QED BY <1>1, <1>2, <1>3 DEF i0

\* The scan for a spare item stops at a dead level or at the end.
LEMMA NilIs ==
  ASSUME NEW lf, LeafInv(lf)
  PROVE  /\ FirstNil(lf) \in 0 .. lf.n
         /\ FirstNil(lf) < lf.n => lf.val[FirstNil(lf)].q <= 0
<1> DEFINE S == {i \in 0 .. lf.n : i < lf.n => btree_val_nil_p(lf.val[i])}
<1>t. lf.n \in Nat
  BY LeafTypes DEF LeafInv
<1>1. S \in SUBSET Nat /\ lf.n \in S
  BY <1>t
<1>2. FirstNil(lf) \in S
  BY <1>1, MinOfNats DEF FirstNil
<1> QED BY <1>2 DEF btree_val_nil_p

\* leaf_get returns the value at the price, and nothing if no slot has it.
LEMMA GetIs ==
  ASSUME NEW lf, LeafInv(lf), NEW p \in Prices
  PROVE  /\ \A i \in 0 .. lf.n - 1 : lf.key[i] = p => leaf_get(lf, p) = lf.val[i]
         /\ (\A i \in 0 .. lf.n - 1 : lf.key[i] # p) => leaf_get(lf, p) = btree_val_nil
<1>t. lf.n \in Nat
  BY LeafTypes DEF LeafInv
<1>1. Slot(lf, p) \in 0 .. lf.n
  BY SlotIs
<1> QED BY SlotOfHome, <1>1, <1>t DEF leaf_get

(* Where the level in slot j of a leaf came from after an insertion.       *)
Source(j, i, nul) ==
    IF i < j /\ j <= nul THEN j - 1
    ELSE IF nul <= j /\ j < i - 1 THEN j + 1 ELSE j

Target(m, i, nul) ==
    IF i <= m /\ m < nul THEN m + 1
    ELSE IF nul < m /\ m < i THEN m - 1 ELSE m

\* The memmoves of leaf_add, seen as a map from new slots to old ones: it
\* leaves one slot for the new key, forgets at most the dead level, and keeps
\* the order.
LEMMA ShiftIsOrderPreserving ==
  ASSUME NEW n \in Nat, NEW i \in 0 .. n, NEW nul \in 0 .. n,
         NEW nn \in Nat, nn = (IF nul < n THEN n ELSE n + 1)
  PROVE  /\ Landing(i, nul) \in 0 .. nn - 1
         /\ \A j \in 0 .. nn - 1 : j # Landing(i, nul) =>
               /\ Source(j, i, nul) \in 0 .. n - 1
               /\ Source(j, i, nul) # nul
               /\ j < Landing(i, nul) => Source(j, i, nul) < i
               /\ j > Landing(i, nul) => Source(j, i, nul) >= i
         /\ \A j, l \in 0 .. nn - 1 :
               j < l /\ j # Landing(i, nul) /\ l # Landing(i, nul)
                  => Source(j, i, nul) < Source(l, i, nul)
         /\ \A m \in 0 .. n - 1 : m # nul =>
               /\ Target(m, i, nul) \in 0 .. nn - 1
               /\ Target(m, i, nul) # Landing(i, nul)
               /\ Source(Target(m, i, nul), i, nul) = m
BY DEF Landing, Source, Target

\* The memmoves take every slot from its source.
LEMMA MovedIs ==
  ASSUME NEW f, NEW i \in Nat, NEW nul \in Nat, NEW j \in Slots
  PROVE  Moved(f, i, nul)[j] = f[Source(j, i, nul)]
BY NKeysAssumption DEF Moved, Source, Slots

\* The fields of a leaf after the insertion branch of leaf_add.
LEMMA InsertIs ==
  ASSUME NEW lf, LeafInv(lf), NEW k \in Prices, ~Full(lf),
         NEW i \in 0 .. lf.n, NEW nul \in 0 .. lf.n,
         NEW r, r = Insert(lf, k, i, nul)
  PROVE  /\ r.desc = lf.desc
         /\ r.n = (IF nul < lf.n THEN lf.n ELSE lf.n + 1)
         /\ r.n \in Nat /\ r.n <= NKeys - 1
         /\ Landing(i, nul) \in 0 .. r.n - 1
         /\ r.key \in [Slots -> Keys] /\ r.val \in [Slots -> Vals]
         /\ r.key[Landing(i, nul)] = k /\ r.val[Landing(i, nul)] = btree_val_nil
         /\ \A j \in Slots : j # Landing(i, nul) =>
               /\ r.key[j] = lf.key[Source(j, i, nul)]
               /\ r.val[j] = lf.val[Source(j, i, nul)]
<1> DEFINE a == Landing(i, nul)
<1>t. /\ lf.n \in Nat /\ NKeys \in Nat /\ lf.n < NKeys - 1 /\ k \in Keys
      /\ lf.key \in [Slots -> Keys] /\ lf.val \in [Slots -> Vals]
  BY LeafTypes, FeedAssumption, NKeysAssumption DEF LeafInv, Full, Keys
<1>1. /\ r.desc = lf.desc
      /\ r.n = (IF nul < lf.n THEN lf.n ELSE lf.n + 1)
      /\ r.key = [Moved(lf.key, i, nul) EXCEPT ![a] = k]
      /\ r.val = [Moved(lf.val, i, nul) EXCEPT ![a] = btree_val_nil]
  BY DEF Insert
<1>2. r.n \in Nat /\ r.n <= NKeys - 1 /\ a \in 0 .. r.n - 1 /\ a \in Slots
  BY <1>1, <1>t DEF Landing, Slots
<1>3. \A j \in Slots : Source(j, i, nul) \in Slots
  BY <1>t DEF Source, Slots
<1>4. btree_val_nil \in Vals
  BY DEF btree_val_nil, Vals
<1>5. /\ Moved(lf.key, i, nul) \in [Slots -> Keys]
      /\ Moved(lf.val, i, nul) \in [Slots -> Vals]
  <2>1. /\ Moved(lf.key, i, nul) = [j \in Slots |-> lf.key[Source(j, i, nul)]]
        /\ Moved(lf.val, i, nul) = [j \in Slots |-> lf.val[Source(j, i, nul)]]
    BY DEF Moved, Source
  <2> QED BY <2>1, <1>3, <1>t
<1>6. \A j \in Slots : /\ Moved(lf.key, i, nul)[j] = lf.key[Source(j, i, nul)]
                       /\ Moved(lf.val, i, nul)[j] = lf.val[Source(j, i, nul)]
  <2>1. i \in Nat /\ nul \in Nat
    BY <1>t
  <2> QED BY <2>1, MovedIs
<1> HIDE DEF a
<1>7. /\ r.key \in [Slots -> Keys] /\ r.val \in [Slots -> Vals]
      /\ r.key[a] = k /\ r.val[a] = btree_val_nil
      /\ \A j \in Slots : j # a =>
               /\ r.key[j] = lf.key[Source(j, i, nul)]
               /\ r.val[j] = lf.val[Source(j, i, nul)]
  BY <1>1, <1>2, <1>4, <1>5, <1>6, <1>t
<1> QED BY <1>1, <1>2, <1>7 DEF a

\* The toggled bitmap has no bit past the last slot.
LEMMA InsertUsed ==
  ASSUME NEW lf, LeafInv(lf), NEW i \in 0 .. lf.n, NEW nul \in 0 .. lf.n,
         NEW nn \in Nat, nn = (IF nul < lf.n THEN lf.n ELSE lf.n + 1)
  PROVE  MovedUsed(lf.used, i, nul) \subseteq 0 .. nn - 1
<1>t. lf.n \in Nat /\ lf.used \subseteq 0 .. lf.n - 1
  BY LeafTypes DEF LeafInv
<1>1. CASE nul > i
  BY <1>t, <1>1 DEF MovedUsed, SymDiff
<1>2. CASE ~(nul > i)
  BY <1>t, <1>2 DEF MovedUsed, SymDiff
<1> QED BY <1>1, <1>2

\* The insertion branch of leaf_add keeps the leaf ordered.
LEMMA InsertKeeps ==
  ASSUME NEW lf, LeafInv(lf), NEW k \in Prices, ~Full(lf),
         ~Same(k, lf.key[Slot(lf, k)])
  PROVE  LeafInv(Insert(lf, k, Slot(lf, k), FirstNil(lf)))
<1> DEFINE i == Slot(lf, k)
           nul == FirstNil(lf)
           a == Landing(i, nul)
           r == Insert(lf, k, i, nul)
<1>i. i \in 0 .. lf.n /\ nul \in 0 .. lf.n
  BY SlotIs, NilIs
<1>o. /\ \A j \in 0 .. i - 1 : Better(lf.desc, lf.key[j], k)
      /\ \A j \in i .. lf.n - 1 : Better(lf.desc, k, lf.key[j])
  BY SlotIs, SlotOfHome
<1> HIDE DEF i, nul, r, a
<1>t. /\ lf.desc \in BOOLEAN /\ lf.n \in Nat /\ lf.n < NKeys - 1 /\ NKeys \in Nat
      /\ \A j \in 0 .. lf.n - 1 : lf.key[j] \in Prices
      /\ \A j \in lf.n .. NKeys - 1 : lf.key[j] = NaN /\ lf.val[j] = btree_val_nil
  BY LeafTypes, NKeysAssumption DEF LeafInv, Full
<1>r. /\ r.desc = lf.desc
      /\ r.n = (IF nul < lf.n THEN lf.n ELSE lf.n + 1)
      /\ r.n \in Nat /\ r.n <= NKeys - 1
      /\ a \in 0 .. r.n - 1
      /\ r.key \in [Slots -> Keys] /\ r.val \in [Slots -> Vals]
      /\ r.key[a] = k
      /\ \A j \in Slots : j # a => /\ r.key[j] = lf.key[Source(j, i, nul)]
                                   /\ r.val[j] = lf.val[Source(j, i, nul)]
  BY InsertIs, <1>i DEF r, a
<1>s. /\ \A j \in 0 .. r.n - 1 : j # a =>
               /\ Source(j, i, nul) \in 0 .. lf.n - 1
               /\ j < a => Source(j, i, nul) < i
               /\ j > a => Source(j, i, nul) >= i
      /\ \A j, l \in 0 .. r.n - 1 :
               j < l /\ j # a /\ l # a => Source(j, i, nul) < Source(l, i, nul)
  BY ShiftIsOrderPreserving, <1>i, <1>t, <1>r DEF a
<1>1. r \in Leaves
  <2>1. r = [desc |-> r.desc, n |-> r.n, used |-> r.used, key |-> r.key, val |-> r.val]
    BY DEF r, Insert
  <2>2. r.used \subseteq 0 .. r.n - 1
    <3>1. r.used = MovedUsed(lf.used, i, nul) \cup {a}
      BY DEF r, Insert, a
    <3> QED BY <3>1, <1>r, <1>i, InsertUsed
  <2> QED BY <2>1, <2>2, <1>r, <1>t DEF Leaves
<1>2. r.used \subseteq 0 .. r.n - 1
  <2>1. r.used = MovedUsed(lf.used, i, nul) \cup {a}
    BY DEF r, Insert, a
  <2> QED BY <2>1, <1>r, <1>i, InsertUsed
<1>3. ASSUME NEW j \in Slots
      PROVE  IF j < r.n THEN r.key[j] \in Prices
             ELSE r.key[j] = NaN /\ r.val[j] = btree_val_nil
  <2>1. CASE j = a
    BY <2>1, <1>r
  <2>2. CASE j # a /\ j < r.n
    <3>1. j \in 0 .. r.n - 1
      BY <2>2, <1>3, <1>t, <1>r DEF Slots
    <3>2. Source(j, i, nul) \in 0 .. lf.n - 1
      BY <3>1, <2>2, <1>s
    <3>3. r.key[j] = lf.key[Source(j, i, nul)]
      BY <2>2, <1>3, <1>r
    <3> QED BY <3>2, <3>3, <2>2, <1>t
  <2>3. CASE j >= r.n
    <3>1. j \in lf.n .. NKeys - 1 /\ Source(j, i, nul) = j /\ j # a
      BY <2>3, <1>r, <1>i, <1>t, <1>3 DEF Slots, Source
    <3> QED BY <3>1, <2>3, <1>r, <1>t, <1>3
  <2> QED BY <2>1, <2>2, <2>3, <1>r, <1>3 DEF Slots
<1>4. ASSUME NEW j \in 0 .. r.n - 1, NEW l \in 0 .. r.n - 1, j < l
      PROVE  Better(r.desc, r.key[j], r.key[l])
  <2>0. j \in Slots /\ l \in Slots
    BY <1>4, <1>r, <1>t DEF Slots
  <2>1. CASE j = a
    BY <2>1, <2>0, <1>r, <1>s, <1>o, <1>4, <1>t
  <2>2. CASE l = a
    <3>1. j < a /\ j # a
      BY <2>2, <1>4
    <3>2. Source(j, i, nul) \in 0 .. i - 1
      BY <3>1, <1>s, <1>4, <1>t, <1>i
    <3> QED BY <3>1, <3>2, <2>2, <2>0, <1>r, <1>o
  <2>3. CASE j # a /\ l # a
    BY <2>3, <2>0, <1>r, <1>s, <1>4, <1>t DEF LeafInv, SortedLeaf
  <2> QED BY <2>1, <2>2, <2>3
<1>5. LeafOK(r)
  BY <1>1, <1>2, <1>3, <1>r, <1>t DEF LeafOK
<1>6. SortedLeaf(r)
  BY <1>4 DEF SortedLeaf
<1> QED BY <1>5, <1>6 DEF LeafInv, r, i, nul

-----------------------------------------------------------------------------
(* Operations that leave the keys where they are.                          *)

\* An ordered leaf stays one if only values below n and bits below n change.
LEMMA SameKeysKeep ==
  ASSUME NEW lf, LeafInv(lf), NEW u, NEW w,
         u \subseteq 0 .. lf.n - 1,
         w \in [Slots -> Vals],
         \A i \in Slots : i >= lf.n => w[i] = btree_val_nil,
         NEW r, r = [desc |-> lf.desc, n |-> lf.n, used |-> u, key |-> lf.key, val |-> w]
  PROVE  LeafInv(r)
<1>t. /\ lf.desc \in BOOLEAN /\ lf.n \in Nat /\ lf.n <= NKeys - 1 /\ NKeys \in Nat
      /\ lf.key \in [Slots -> Keys]
  BY LeafTypes, NKeysAssumption DEF LeafInv
<1>1. u \in SUBSET Nat
  BY <1>t
<1>2. r \in Leaves
  BY <1>t, <1>1 DEF Leaves
<1>3. \A i \in Slots : IF i < lf.n THEN lf.key[i] \in Prices ELSE lf.key[i] = NaN
  BY DEF LeafInv, LeafOK
<1>4. LeafOK(r)
  <2>1. \A i \in Slots : i < lf.n \/ i >= lf.n
    BY <1>t DEF Slots
  <2> QED BY <1>2, <1>3, <1>t, <2>1 DEF LeafOK
<1>5. SortedLeaf(r)
  BY DEF LeafInv, SortedLeaf
<1> QED BY <1>4, <1>5 DEF LeafInv

\* A leaf is the record of its fields.
LEMMA LeafRecord ==
  ASSUME NEW lf, LeafInv(lf)
  PROVE  lf = [desc |-> lf.desc, n |-> lf.n, used |-> lf.used, key |-> lf.key, val |-> lf.val]
BY DEF LeafInv, LeafOK, Leaves

\* A write through the pointer that leaf_add returns keeps the leaf ordered
\* and touches that slot only.
LEMMA PokeKeeps ==
  ASSUME NEW lf, LeafInv(lf), NEW i \in 0 .. lf.n - 1, NEW v \in Vals
  PROVE  /\ LeafInv(Poke(lf, i, v))
         /\ Poke(lf, i, v).desc = lf.desc
         /\ Poke(lf, i, v).n = lf.n
         /\ Poke(lf, i, v).used = lf.used
         /\ Poke(lf, i, v).key = lf.key
         /\ Poke(lf, i, v).val = [lf.val EXCEPT ![i] = v]
<1> DEFINE w == [lf.val EXCEPT ![i] = v]
<1>t. /\ lf.n \in Nat /\ lf.n <= NKeys - 1 /\ lf.used \subseteq 0 .. lf.n - 1
      /\ lf.val \in [Slots -> Vals] /\ NKeys \in Nat
      /\ \A j \in lf.n .. NKeys - 1 : lf.val[j] = btree_val_nil
  BY LeafTypes, NKeysAssumption DEF LeafInv
<1>1. Poke(lf, i, v) =
         [desc |-> lf.desc, n |-> lf.n, used |-> lf.used, key |-> lf.key, val |-> w]
  BY LeafRecord DEF Poke
<1>2. w \in [Slots -> Vals]
  BY <1>t
<1>3. \A j \in Slots : j >= lf.n => w[j] = btree_val_nil
  BY <1>t DEF Slots
<1> HIDE DEF w
<1>4. LeafInv(Poke(lf, i, v))
  BY <1>1, <1>2, <1>3, <1>t, SameKeysKeep
<1> QED BY <1>1, <1>4 DEF w

\* btree_clr keeps the leaf ordered and leaves no live level.
LEMMA ClrKeeps ==
  ASSUME NEW lf, LeafInv(lf)
  PROVE  /\ LeafInv(btree_clr(lf))
         /\ btree_clr(lf).desc = lf.desc
         /\ btree_clr(lf).n = lf.n
         /\ btree_clr(lf).used = lf.used
         /\ btree_clr(lf).key = lf.key
         /\ \A i \in Slots : btree_clr(lf).val[i] = btree_val_nil
<1> DEFINE w == [i \in Slots |-> IF i < lf.n THEN btree_val_nil ELSE lf.val[i]]
<1>t. /\ lf.n \in Nat /\ lf.n <= NKeys - 1 /\ lf.used \subseteq 0 .. lf.n - 1
      /\ lf.val \in [Slots -> Vals] /\ NKeys \in Nat
      /\ \A j \in lf.n .. NKeys - 1 : lf.val[j] = btree_val_nil
  BY LeafTypes, NKeysAssumption DEF LeafInv
<1>1. btree_clr(lf) =
         [desc |-> lf.desc, n |-> lf.n, used |-> lf.used, key |-> lf.key, val |-> w]
  BY LeafRecord DEF btree_clr
<1>2. \A i \in Slots : w[i] = btree_val_nil
  BY <1>t DEF Slots
<1>3. w \in [Slots -> Vals]
  BY <1>2 DEF btree_val_nil, Vals
<1> HIDE DEF w
<1>4. LeafInv(btree_clr(lf))
  BY <1>1, <1>2, <1>3, <1>t, SameKeysKeep
<1> QED BY <1>1, <1>2, <1>4

\* The iterator keeps the leaf ordered and changes no level.
LEMMA WalkedKeeps ==
  ASSUME NEW lf, LeafInv(lf), NEW stop
  PROVE  /\ LeafInv(Walked(lf, stop))
         /\ Walked(lf, stop).desc = lf.desc
         /\ Walked(lf, stop).n = lf.n
         /\ Walked(lf, stop).key = lf.key
         /\ Walked(lf, stop).val = lf.val
         /\ Walked(lf, stop).used \subseteq lf.used
<1> DEFINE u == {i \in lf.used : ~(i < stop /\ i < lf.n /\ btree_val_nil_p(lf.val[i]))}
<1>t. /\ lf.n \in Nat /\ lf.n <= NKeys - 1 /\ lf.used \subseteq 0 .. lf.n - 1
      /\ lf.val \in [Slots -> Vals] /\ NKeys \in Nat
      /\ \A j \in lf.n .. NKeys - 1 : lf.val[j] = btree_val_nil
  BY LeafTypes, NKeysAssumption DEF LeafInv
<1>1. Walked(lf, stop) =
         [desc |-> lf.desc, n |-> lf.n, used |-> u, key |-> lf.key, val |-> lf.val]
  BY LeafRecord DEF Walked
<1>2. u \subseteq lf.used
  OBVIOUS
<1>3. \A j \in Slots : j >= lf.n => lf.val[j] = btree_val_nil
  BY <1>t DEF Slots
<1> HIDE DEF u
<1>5. u \subseteq 0 .. lf.n - 1
  BY <1>2, <1>t
<1>4. LeafInv(Walked(lf, stop))
  BY <1>1, <1>3, <1>5, <1>t, SameKeysKeep
<1> QED BY <1>1, <1>2, <1>4

-----------------------------------------------------------------------------
(* Putting a level.                                                        *)

\* leaf_add keeps the leaf ordered, and the slot its pointer designates holds
\* k and the value k had.
LEMMA AddIs ==
  ASSUME NEW lf, LeafInv(lf), NEW k \in Prices, ~Full(lf)
  PROVE  /\ LeafInv(leaf_add(lf, k))
         /\ leaf_add(lf, k).desc = lf.desc
         /\ PutSlot(lf, k) \in 0 .. leaf_add(lf, k).n - 1
         /\ PutSlot(lf, k) \in leaf_add(lf, k).used
         /\ leaf_add(lf, k).key[PutSlot(lf, k)] = k
         /\ leaf_add(lf, k).val[PutSlot(lf, k)] = leaf_get(lf, k)
<1> DEFINE i == Slot(lf, k)
           nul == FirstNil(lf)
<1>t. /\ lf.n \in Nat /\ lf.n <= NKeys - 1 /\ lf.used \subseteq 0 .. lf.n - 1
      /\ lf.val \in [Slots -> Vals] /\ NKeys \in Nat
      /\ \A j \in lf.n .. NKeys - 1 : lf.val[j] = btree_val_nil
  BY LeafTypes, NKeysAssumption DEF LeafInv
<1>i. i \in 0 .. lf.n /\ nul \in 0 .. lf.n
  BY SlotIs, NilIs
<1>1. CASE Same(k, lf.key[i])
  <2>1. i \in 0 .. lf.n - 1 /\ lf.key[i] = k
    BY <1>1, <1>i, <1>t, SlotOfHome
  <2>2. leaf_add(lf, k) =
         [desc |-> lf.desc, n |-> lf.n, used |-> lf.used \cup {i}, key |-> lf.key, val |-> lf.val]
    BY <1>1, LeafRecord DEF leaf_add
  <2>3. PutSlot(lf, k) = i /\ leaf_get(lf, k) = lf.val[i]
    BY <1>1 DEF PutSlot, leaf_get
  <2>4. lf.used \cup {i} \subseteq 0 .. lf.n - 1
    BY <2>1, <1>t
  <2>5. \A j \in Slots : j >= lf.n => lf.val[j] = btree_val_nil
    BY <1>t DEF Slots
  <2> HIDE DEF i
  <2>6. LeafInv(leaf_add(lf, k))
    BY <2>2, <2>4, <2>5, <1>t, SameKeysKeep
  <2> QED BY <2>1, <2>2, <2>3, <2>6
<1>2. CASE ~Same(k, lf.key[i])
  <2>1. leaf_add(lf, k) = Insert(lf, k, i, nul) /\ PutSlot(lf, k) = Landing(i, nul)
    BY <1>2 DEF leaf_add, PutSlot
  <2>2. leaf_get(lf, k) = btree_val_nil
    BY <1>2 DEF leaf_get
  <2>3. LeafInv(leaf_add(lf, k))
    BY <2>1, <1>2, InsertKeeps
  <2>4. Landing(i, nul) \in Insert(lf, k, i, nul).used
    BY DEF Insert
  <2> HIDE DEF i, nul
  <2> QED BY <2>1, <2>2, <2>3, <2>4, <1>i, InsertIs
<1> QED BY <1>1, <1>2

\* So does a put followed by the assignments through the pointer, and what
\* was read through it before is the old level.
LEMMA PutKeeps ==
  ASSUME NEW lf, LeafInv(lf), NEW k \in Prices, ~Full(lf), NEW v \in Vals
  PROVE  /\ LeafInv(PutLevel(lf, k, v))
         /\ PutLevel(lf, k, v).desc = lf.desc
         /\ OldLevel(lf, k) = leaf_get(lf, k)
         /\ OldLevel(lf, k) \in Vals
<1>1. /\ LeafInv(leaf_add(lf, k))
      /\ leaf_add(lf, k).desc = lf.desc
      /\ PutSlot(lf, k) \in 0 .. leaf_add(lf, k).n - 1
      /\ leaf_add(lf, k).val[PutSlot(lf, k)] = leaf_get(lf, k)
  BY AddIs
<1>2. /\ LeafInv(PutLevel(lf, k, v))
      /\ PutLevel(lf, k, v).desc = lf.desc
  BY <1>1, PokeKeeps DEF PutLevel
<1>3. leaf_add(lf, k).val[PutSlot(lf, k)] \in Vals
  <2>1. /\ leaf_add(lf, k).val \in [Slots -> Vals]
        /\ \A j \in 0 .. leaf_add(lf, k).n : j \in Slots
        /\ leaf_add(lf, k).n \in Nat
    BY <1>1, LeafTypes DEF LeafInv
  <2> QED BY <2>1, <1>1
<1> QED BY <1>1, <1>2, <1>3 DEF OldLevel

(* An insertion loses nothing: a level elsewhere in the leaf is found with *)
(* the value it had, and only the dead level that gave up its slot goes.   *)
LEMMA AddContents ==
  ASSUME NEW lf, LeafInv(lf), NEW k \in Prices, ~Full(lf),
         NEW x \in Prices, x # k
  PROVE  LevelAt(leaf_add(lf, k), x) = LevelAt(lf, x)
<1> DEFINE i == Slot(lf, k)
           nul == FirstNil(lf)
           a == Landing(i, nul)
           r == leaf_add(lf, k)
<1>t. /\ lf.n \in Nat /\ lf.n < NKeys - 1 /\ NKeys \in Nat
  BY LeafTypes, NKeysAssumption DEF LeafInv, Full
<1>i. i \in 0 .. lf.n /\ nul \in 0 .. lf.n /\ (nul < lf.n => lf.val[nul].q <= 0)
  BY SlotIs, NilIs
<1>r. LeafInv(r)
  BY AddIs
<1>1. CASE Same(k, lf.key[i])
  <2>1. r.n = lf.n /\ r.key = lf.key /\ r.val = lf.val
    BY <1>1 DEF leaf_add
  <2>2. CASE \E m \in 0 .. lf.n - 1 : lf.key[m] = x
    <3>1. PICK m \in 0 .. lf.n - 1 : lf.key[m] = x
      BY <2>2
    <3>2. leaf_get(r, x) = r.val[m]
      BY <3>1, <2>1, <1>r, GetIs
    <3>3. leaf_get(lf, x) = lf.val[m]
      BY <3>1, GetIs
    <3> QED BY <3>2, <3>3, <2>1 DEF LevelAt
  <2>3. CASE \A m \in 0 .. lf.n - 1 : lf.key[m] # x
    <3>1. leaf_get(r, x) = btree_val_nil
      BY <2>3, <2>1, <1>r, GetIs
    <3>2. leaf_get(lf, x) = btree_val_nil
      BY <2>3, GetIs
    <3> QED BY <3>1, <3>2 DEF LevelAt
  <2> QED BY <2>2, <2>3
<1>2. CASE ~Same(k, lf.key[i])
  <2>0. r = Insert(lf, k, i, nul)
    BY <1>2 DEF leaf_add
  <2> HIDE DEF r, i, nul, a
  <2>1. /\ r.n = (IF nul < lf.n THEN lf.n ELSE lf.n + 1)
        /\ r.n \in Nat /\ r.n <= NKeys - 1
        /\ a \in 0 .. r.n - 1
        /\ r.key[a] = k
        /\ \A j \in Slots : j # a => /\ r.key[j] = lf.key[Source(j, i, nul)]
                                     /\ r.val[j] = lf.val[Source(j, i, nul)]
    BY <2>0, <1>i, InsertIs DEF a
  <2>2. /\ \A j \in 0 .. r.n - 1 : j # a =>
              /\ Source(j, i, nul) \in 0 .. lf.n - 1
              /\ Source(j, i, nul) # nul
        /\ \A m \in 0 .. lf.n - 1 : m # nul =>
              /\ Target(m, i, nul) \in 0 .. r.n - 1
              /\ Target(m, i, nul) # a
              /\ Source(Target(m, i, nul), i, nul) = m
    <3>1. r.n \in Nat /\ r.n = (IF nul < lf.n THEN lf.n ELSE lf.n + 1) /\ lf.n \in Nat
      BY <2>1, <1>t
    <3> QED BY <3>1, <1>i, ShiftIsOrderPreserving DEF a
  <2>3. \A j \in 0 .. r.n - 1 : j \in Slots
    BY <2>1, <1>t DEF Slots
  <2>4. CASE \E m \in 0 .. lf.n - 1 : m # nul /\ lf.key[m] = x
    <3>1. PICK m \in 0 .. lf.n - 1 : m # nul /\ lf.key[m] = x
      BY <2>4
    <3>2. PICK j \in 0 .. r.n - 1 : j # a /\ Source(j, i, nul) = m
      BY <3>1, <2>2
    <3>3. r.key[j] = x /\ r.val[j] = lf.val[m]
      BY <3>1, <3>2, <2>1, <2>3
    <3>4. leaf_get(r, x) = r.val[j]
      BY <3>3, <3>2, <1>r, GetIs
    <3>5. leaf_get(lf, x) = lf.val[m]
      BY <3>1, GetIs
    <3> QED BY <3>3, <3>4, <3>5 DEF LevelAt, r
  <2>5. CASE \A m \in 0 .. lf.n - 1 : m = nul \/ lf.key[m] # x
    <3>1. ASSUME NEW j \in 0 .. r.n - 1 PROVE r.key[j] # x
      <4>1. CASE j = a
        BY <4>1, <2>1
      <4>2. CASE j # a
        <5>1. /\ Source(j, i, nul) \in 0 .. lf.n - 1
              /\ Source(j, i, nul) # nul
              /\ r.key[j] = lf.key[Source(j, i, nul)]
          BY <4>2, <3>1, <2>1, <2>2, <2>3
        <5> QED BY <5>1, <2>5
      <4> QED BY <4>1, <4>2
    <3>2. leaf_get(r, x) = btree_val_nil
      BY <3>1, <1>r, GetIs
    <3>3. Norm(leaf_get(lf, x)) = btree_val_nil
      <4>1. CASE nul < lf.n /\ lf.key[nul] = x
        <5>1. leaf_get(lf, x) = lf.val[nul]
          BY <4>1, <1>i, <1>t, GetIs
        <5> QED BY <5>1, <4>1, <1>i DEF Norm
      <4>2. CASE ~(nul < lf.n /\ lf.key[nul] = x)
        <5>1. leaf_get(lf, x) = btree_val_nil
          BY <4>2, <2>5, <1>i, <1>t, GetIs
        <5> QED BY <5>1 DEF Norm, btree_val_nil
      <4> QED BY <4>1, <4>2
    <3> QED BY <3>2, <3>3 DEF LevelAt, Norm, btree_val_nil, r
  <2> QED BY <2>4, <2>5
<1> QED BY <1>1, <1>2

\* A write changes the level of its slot and no other.
LEMMA PokeContents ==
  ASSUME NEW lf, LeafInv(lf), NEW i \in 0 .. lf.n - 1, NEW v \in Vals,
         NEW x \in Prices
  PROVE  LevelAt(Poke(lf, i, v), x) = IF x = lf.key[i] THEN Norm(v) ELSE LevelAt(lf, x)
<1> DEFINE r == Poke(lf, i, v)
<1>t. /\ lf.n \in Nat /\ lf.val \in [Slots -> Vals] /\ i \in Slots
      /\ \A j \in 0 .. lf.n - 1 : j \in Slots
  BY LeafTypes DEF LeafInv
<1>r. LeafInv(r) /\ r.n = lf.n /\ r.key = lf.key /\ r.val = [lf.val EXCEPT ![i] = v]
  BY PokeKeeps
<1> HIDE DEF r
<1>1. CASE x = lf.key[i]
  <2>0. r.key[i] = x /\ i \in 0 .. r.n - 1
    BY <1>1, <1>r
  <2>1. leaf_get(r, x) = r.val[i]
    <3>1. LeafInv(r)
      BY <1>r, Zenon
    <3> QED BY <2>0, <3>1, GetIs, Zenon
  <2> QED BY <2>1, <1>1, <1>r, <1>t DEF LevelAt, r
<1>2. CASE x # lf.key[i] /\ \E m \in 0 .. lf.n - 1 : lf.key[m] = x
  <2>1. PICK m \in 0 .. lf.n - 1 : lf.key[m] = x
    BY <1>2
  <2>4. leaf_get(r, x) = r.val[m]
    <3>1. LeafInv(r) /\ r.n = lf.n /\ r.key = lf.key
      BY <1>r, Zenon
    <3>2. m \in 0 .. r.n - 1 /\ r.key[m] = x
      BY <2>1, <3>1, Zenon
    <3> QED BY <3>1, <3>2, GetIs, Zenon
  <2>2. leaf_get(r, x) = r.val[m] /\ leaf_get(lf, x) = lf.val[m]
    BY <2>1, <2>4, GetIs
  <2>3. r.val[m] = lf.val[m]
    BY <2>1, <1>2, <1>r, <1>t
  <2> QED BY <2>2, <2>3, <1>2 DEF LevelAt, r
<1>3. CASE x # lf.key[i] /\ \A m \in 0 .. lf.n - 1 : lf.key[m] # x
  <2>1. leaf_get(r, x) = btree_val_nil
    BY <1>3, <1>r, GetIs
  <2>2. leaf_get(r, x) = btree_val_nil /\ leaf_get(lf, x) = btree_val_nil
    BY <1>3, <2>1, GetIs
  <2> QED BY <2>2, <1>3 DEF LevelAt, r
<1> QED BY <1>1, <1>2, <1>3

\* A put changes the level at its price and no other, whatever dead level is
\* reclaimed.
LEMMA PutContents ==
  ASSUME NEW lf, LeafInv(lf), NEW k \in Prices, ~Full(lf), NEW v \in Vals,
         NEW x \in Prices
  PROVE  LevelAt(PutLevel(lf, k, v), x) = IF x = k THEN Norm(v) ELSE LevelAt(lf, x)
<1>1. /\ LeafInv(leaf_add(lf, k))
      /\ PutSlot(lf, k) \in 0 .. leaf_add(lf, k).n - 1
      /\ leaf_add(lf, k).key[PutSlot(lf, k)] = k
  BY AddIs
<1>2. LevelAt(PutLevel(lf, k, v), x) =
         IF x = k THEN Norm(v) ELSE LevelAt(leaf_add(lf, k), x)
  BY <1>1, PokeContents DEF PutLevel
<1> QED BY <1>2, AddContents

\* After btree_clr there is no level.
LEMMA ClrContents ==
  ASSUME NEW lf, LeafInv(lf), NEW x \in Prices
  PROVE  LevelAt(btree_clr(lf), x) = btree_val_nil
<1> DEFINE r == btree_clr(lf)
<1>t. lf.n \in Nat /\ \A j \in 0 .. lf.n - 1 : j \in Slots
  BY LeafTypes DEF LeafInv
<1>r. LeafInv(r) /\ r.n = lf.n /\ r.key = lf.key /\ \A i \in Slots : r.val[i] = btree_val_nil
  BY ClrKeeps
<1> HIDE DEF r
<1>1. leaf_get(r, x) = btree_val_nil
  <2>1. CASE \E m \in 0 .. lf.n - 1 : lf.key[m] = x
    BY <2>1, <1>r, <1>t, GetIs
  <2>2. CASE \A m \in 0 .. lf.n - 1 : lf.key[m] # x
    BY <2>2, <1>r, <1>t, GetIs
  <2> QED BY <2>1, <2>2
<1> QED BY <1>1 DEF LevelAt, Norm, btree_val_nil, r

\* leaf_get depends on the keys and values only, not on the bitmap.
LEMMA SameLevelsSameContents ==
  ASSUME NEW lf, LeafInv(lf), NEW r, LeafInv(r),
         r.n = lf.n, r.key = lf.key, r.val = lf.val, NEW x \in Prices
  PROVE  leaf_get(r, x) = leaf_get(lf, x)
<1>2. CASE \E m \in 0 .. lf.n - 1 : lf.key[m] = x
  BY <1>2, GetIs
<1>3. CASE \A m \in 0 .. lf.n - 1 : lf.key[m] # x
  BY <1>3, GetIs
<1> QED BY <1>2, <1>3

-----------------------------------------------------------------------------
(* Trades and expiries.                                                    *)

\* The iterator returns live levels only.
LEMMA WalksAreLive ==
  ASSUME NEW lf, NEW W \in Walks(lf)
  PROVE  W \subseteq Live(lf)
BY DEF Walks, Stray

\* The DEL loop of book_add keeps a leaf ordered.
LEMMA TradedKeeps ==
  ASSUME NEW lf, LeafInv(lf), NEW W \in Walks(lf), NEW p, NEW d \in Int
  PROVE  /\ LeafInv(Traded(lf, W, p, d))
         /\ Traded(lf, W, p, d).desc = lf.desc
<1> DEFINE Reached(i) == Better(lf.desc, lf.key[i], p) \/ Same(lf.key[i], p)
           stop == Min({i \in W : ~Reached(i)} \cup {lf.n})
           Level(i) == IF i \in W /\ i < stop
                       THEN [lf.val[i] EXCEPT !.q = IF Same(lf.key[i], p) THEN @ - d ELSE 0]
                       ELSE lf.val[i]
           w == [i \in Slots |-> Level(i)]
           m == Walked(lf, stop)
<1> HIDE DEF stop
<1>t. /\ lf.n \in Nat /\ lf.val \in [Slots -> Vals] /\ NKeys \in Nat
      /\ \A j \in lf.n .. NKeys - 1 : lf.val[j] = btree_val_nil
  BY LeafTypes, NKeysAssumption DEF LeafInv
<1>m. /\ LeafInv(m) /\ m.desc = lf.desc /\ m.n = lf.n /\ m.used \subseteq 0 .. m.n - 1
  <2>1. LeafInv(m) /\ m.desc = lf.desc /\ m.n = lf.n
    BY WalkedKeeps
  <2> QED BY <2>1, LeafTypes DEF LeafInv
<1>1. Traded(lf, W, p, d) =
        [desc |-> m.desc, n |-> m.n, used |-> m.used, key |-> m.key, val |-> w]
  <2>1. Traded(lf, W, p, d) = [m EXCEPT !.val = w]
    BY DEF Traded, stop
  <2> QED BY <2>1, <1>m, LeafRecord
<1>2. w \in [Slots -> Vals]
  <2>1. ASSUME NEW i \in Slots PROVE Level(i) \in Vals
    <3>1. lf.val[i] \in Vals
      BY <1>t
    <3> QED BY <3>1 DEF Vals
  <2> QED BY <2>1
<1>3. \A i \in Slots : i >= m.n => w[i] = btree_val_nil
  <2>1. W \subseteq 0 .. lf.n - 1
    BY WalksAreLive DEF Live
  <2>2. ASSUME NEW i \in Slots, i >= lf.n PROVE w[i] = btree_val_nil
    <3>1. i \notin W /\ i \in lf.n .. NKeys - 1
      BY <2>1, <2>2, <1>t DEF Slots
    <3> QED BY <3>1, <1>t
  <2> QED BY <2>2, <1>m
<1> HIDE DEF w, m
<1>4. LeafInv(Traded(lf, W, p, d))
  BY <1>1, <1>2, <1>3, <1>m, SameKeysKeep
<1> QED BY <1>1, <1>4, <1>m

\* The loop of book_exp keeps a leaf ordered.
LEMMA ExpungedKeeps ==
  ASSUME NEW lf, LeafInv(lf), NEW W \in Walks(lf), NEW t
  PROVE  /\ LeafInv(Expunged(lf, W, t))
         /\ Expunged(lf, W, t).desc = lf.desc
<1> DEFINE w == [i \in Slots |-> IF i \in W /\ lf.val[i].t <= t
                                 THEN btree_val_nil ELSE lf.val[i]]
           m == Walked(lf, lf.n)
<1>t. /\ lf.n \in Nat /\ lf.val \in [Slots -> Vals] /\ NKeys \in Nat
      /\ \A j \in lf.n .. NKeys - 1 : lf.val[j] = btree_val_nil
  BY LeafTypes, NKeysAssumption DEF LeafInv
<1>m. /\ LeafInv(m) /\ m.desc = lf.desc /\ m.n = lf.n /\ m.used \subseteq 0 .. m.n - 1
  <2>1. LeafInv(m) /\ m.desc = lf.desc /\ m.n = lf.n
    BY WalkedKeeps
  <2> QED BY <2>1, LeafTypes DEF LeafInv
<1>1. Expunged(lf, W, t) =
        [desc |-> m.desc, n |-> m.n, used |-> m.used, key |-> m.key, val |-> w]
  BY <1>m, LeafRecord DEF Expunged
<1>2. w \in [Slots -> Vals]
  <2>1. btree_val_nil \in Vals
    BY DEF btree_val_nil, Vals
  <2> QED BY <2>1, <1>t
<1>3. \A i \in Slots : i >= m.n => w[i] = btree_val_nil
  BY <1>t, <1>m DEF Slots
<1> HIDE DEF w, m
<1>4. LeafInv(Expunged(lf, W, t))
  BY <1>1, <1>2, <1>3, <1>m, SameKeysKeep
<1> QED BY <1>1, <1>4, <1>m

-----------------------------------------------------------------------------
(* The inductive invariant: each side is an ordered leaf of its direction. *)

BookInv == /\ book \in [Sides -> Leaves]
           /\ \A s \in Sides : LeafInv(book[s]) /\ book[s].desc = (s = "BID")

Inv == BookInv /\ ret \in {NotAQuo, Echo} \cup Vals

\* make_btree yields an ordered leaf.
LEMMA MakeIsLeaf ==
  ASSUME NEW d \in BOOLEAN
  PROVE  LeafInv(make_btree(d)) /\ make_btree(d).desc = d
<1> DEFINE r == make_btree(d)
<1>1. /\ r.desc = d /\ r.n = 0 /\ r.used = {}
      /\ r.key = [i \in Slots |-> NaN]
      /\ r.val = [i \in Slots |-> btree_val_nil]
  BY DEF make_btree
<1>2. r \in Leaves
  BY DEF make_btree, Leaves, Keys, Vals, btree_val_nil
<1>3. LeafOK(r)
  <2>1. \A i \in Slots : ~(i < 0)
    BY NKeysAssumption DEF Slots
  <2>2. 0 \in 0 .. NKeys - 1
    BY NKeysAssumption
  <2> HIDE DEF r
  <2> QED BY <1>1, <1>2, <2>1, <2>2 DEF LeafOK
<1>4. SortedLeaf(r)
  BY <1>1 DEF SortedLeaf
<1> QED BY <1>1, <1>3, <1>4 DEF LeafInv

\* Replacing one side by an ordered leaf of the same direction keeps the
\* invariant.
LEMMA OneSideKeeps ==
  ASSUME BookInv, NEW s \in Sides, NEW r, LeafInv(r), r.desc = book[s].desc,
         book' = [book EXCEPT ![s] = r]
  PROVE  BookInv'
<1>1. r \in Leaves
  BY DEF LeafInv, LeafOK
<1>2. \A x \in Sides : book'[x] = IF x = s THEN r ELSE book[x]
  BY DEF BookInv
<1> QED BY <1>1, <1>2 DEF BookInv

\* So does replacing both.
LEMMA BothSidesKeep ==
  ASSUME BookInv, NEW f, book' = [s \in Sides |-> f[s]],
         \A s \in Sides : LeafInv(f[s]) /\ f[s].desc = book[s].desc
  PROVE  BookInv'
<1>1. \A s \in Sides : f[s] \in Leaves
  BY DEF LeafInv, LeafOK
<1> QED BY <1>1 DEF BookInv

\* A new book satisfies the invariant.
LEMMA InitInv == Init => Inv
<1> SUFFICES ASSUME Init PROVE Inv
  OBVIOUS
<1>1. \A s \in Sides : LeafInv(book[s]) /\ book[s].desc = (s = "BID")
  BY MakeIsLeaf DEF Init, make_book
<1>2. book \in [Sides -> Leaves]
  BY <1>1 DEF Init, make_book, LeafInv, LeafOK
<1> QED BY <1>1, <1>2 DEF Init, make_book, Inv, BookInv

\* btree_val_nil is a value.
LEMMA NilVal == btree_val_nil \in Vals
BY DEF btree_val_nil, Vals

\* Only the two sides are quoted.
LEMMA QuoteSide == \A s \in QuoteSides : s \in Sides
BY DEF QuoteSides

\* Quotes are at the prices of the feed.
LEMMA QuotePrice == \A s \in QuoteSides : QuotePrices[s] \subseteq Prices
BY FeedAssumption DEF QuoteSides, Sides

\* book_clr keeps the invariant.
LEMMA ClrBook == BookInv /\ book_clr => BookInv'
<1> SUFFICES ASSUME BookInv, book_clr PROVE BookInv'
  OBVIOUS
<1> DEFINE f == [s \in Sides |-> btree_clr(book[s])]
<1>1. \A s \in Sides : LeafInv(f[s]) /\ f[s].desc = book[s].desc
  BY ClrKeeps DEF BookInv
<1>2. book' = [s \in Sides |-> f[s]]
  BY DEF book_clr
<1> HIDE DEF f
<1> QED BY <1>1, <1>2, BothSidesKeep

\* Every operation of books.c keeps the invariant.
LEMMA NextInv == Inv /\ [Next]_vars => Inv'
<1> SUFFICES ASSUME Inv, [Next]_vars PROVE Inv'
  OBVIOUS
<1> USE DEF Inv
<1>b. \A s \in Sides : LeafInv(book[s])
  BY DEF BookInv
<1>1. ASSUME NEW s \in QuoteSides, NEW p \in Prices, NEW d \in Incs, NEW t \in Times,
             AddLvl3(s, p, d, t)
      PROVE  Inv'
  <2>s. s \in Sides /\ LeafInv(book[s]) /\ ~Full(book[s])
    BY <1>1, <1>b, QuoteSide DEF AddLvl3
  <2> DEFINE o == OldLevel(book[s], p)
             v == [q |-> IF o.q + d >= 0 THEN o.q + d ELSE 0, t |-> t]
             r == PutLevel(book[s], p, v)
  <2>1. o \in Vals
    BY <2>s, PutKeeps, NilVal
  <2>2. v \in Vals
    BY <2>1, FeedAssumption DEF Vals
  <2>3. LeafInv(r) /\ r.desc = book[s].desc
    BY <2>2, <2>s, PutKeeps
  <2>4. book' = [book EXCEPT ![s] = r] /\ ret' = o
    BY <1>1 DEF AddLvl3
  <2> HIDE DEF r, o, v
  <2> QED BY <2>1, <2>3, <2>4, <2>s, OneSideKeeps
<1>2. ASSUME NEW s \in QuoteSides, NEW p \in Prices, NEW q \in Qtys, NEW t \in Times,
             AddLvl2(s, p, q, t)
      PROVE  Inv'
  <2>s. s \in Sides /\ LeafInv(book[s]) /\ ~Full(book[s])
    BY <1>2, <1>b, QuoteSide DEF AddLvl2
  <2> DEFINE v == [q |-> q, t |-> t]
             r == PutLevel(book[s], p, v)
  <2>2. v \in Vals
    BY FeedAssumption DEF Vals
  <2>3. LeafInv(r) /\ r.desc = book[s].desc /\ OldLevel(book[s], p) \in Vals
    BY <2>2, <2>s, PutKeeps
  <2>4. book' = [book EXCEPT ![s] = r] /\ ret' = OldLevel(book[s], p)
    BY <1>2 DEF AddLvl2
  <2> HIDE DEF r, v
  <2> QED BY <2>3, <2>4, <2>s, OneSideKeeps
<1>3. ASSUME NEW s \in QuoteSides, NEW p \in Prices, NEW q \in Qtys, NEW t \in Times,
             AddLvl1(s, p, q, t)
      PROVE  Inv'
  <2> DEFINE c == btree_clr(book[s])
             v == [q |-> q, t |-> t]
             r == PutLevel(c, p, v)
  <2>s. s \in Sides /\ LeafInv(c) /\ c.desc = book[s].desc /\ ~Full(c)
    BY <1>3, <1>b, QuoteSide, ClrKeeps DEF AddLvl1
  <2>2. v \in Vals
    BY FeedAssumption DEF Vals
  <2>4. book' = [book EXCEPT ![s] = r] /\ ret' = OldLevel(c, p)
    BY <1>3 DEF AddLvl1
  <2> HIDE DEF c, v
  <2>3. LeafInv(r) /\ r.desc = book[s].desc /\ OldLevel(c, p) \in Vals
    BY <2>2, <2>s, PutKeeps
  <2> HIDE DEF r
  <2> QED BY <2>3, <2>4, <2>s, OneSideKeeps
<1>4. ASSUME NEW s \in QuoteSides, NEW q \in Qtys, AddLvl1NaN(s, q)
      PROVE  Inv'
  <2>s. /\ s \in Sides /\ LeafInv(btree_clr(book[s]))
        /\ btree_clr(book[s]).desc = book[s].desc
    BY <1>b, QuoteSide, ClrKeeps
  <2>4. book' = [book EXCEPT ![s] = btree_clr(book[s])] /\ ret' = Echo
    BY <1>4 DEF AddLvl1NaN
  <2> QED BY <2>4, <2>s, OneSideKeeps
<1>5. CASE AddInv
  BY <1>5 DEF AddInv, BookInv
<1>6. CASE AddClr
  BY <1>6, ClrBook DEF AddClr
<1>7. ASSUME NEW s \in QuoteSides, NEW m \in 1 .. MaxReads, Read(s, m)
      PROVE  Inv'
  <2>1. PICK W \in Walks(book[s]) :
            book' = [book EXCEPT ![s] = Walked(book[s], StopAfter(book[s], W, m))]
    BY <1>7 DEF Read
  <2>2. s \in Sides /\ LeafInv(book[s])
    BY <1>b, QuoteSide
  <2>3. /\ LeafInv(Walked(book[s], StopAfter(book[s], W, m)))
        /\ Walked(book[s], StopAfter(book[s], W, m)).desc = book[s].desc
    BY <2>2, WalkedKeeps
  <2>4. BookInv'
    BY <2>1, <2>2, <2>3, OneSideKeeps
  <2> QED BY <2>4, <1>7 DEF Read
<1>8. ASSUME NEW p \in Prices, NEW d \in Trades, AddDel(p, d)
      PROVE  Inv'
  <2>1. PICK A \in Walks(book["ASK"]), B \in Walks(book["BID"]) :
            book' = [book EXCEPT !["ASK"] = Traded(book["ASK"], A, p, d),
                                 !["BID"] = Traded(book["BID"], B, p, d)]
    BY <1>8 DEF AddDel
  <2> DEFINE f == [s \in Sides |-> IF s = "ASK" THEN Traded(book["ASK"], A, p, d)
                                   ELSE Traded(book["BID"], B, p, d)]
  <2>2. /\ LeafInv(Traded(book["ASK"], A, p, d))
        /\ Traded(book["ASK"], A, p, d).desc = book["ASK"].desc
        /\ LeafInv(Traded(book["BID"], B, p, d))
        /\ Traded(book["BID"], B, p, d).desc = book["BID"].desc
    BY <1>b, TradedKeeps, FeedAssumption DEF Sides
  <2>3. book' = [s \in Sides |-> f[s]]
    BY <2>1 DEF BookInv, Sides
  <2>4. \A s \in Sides : LeafInv(f[s]) /\ f[s].desc = book[s].desc
    BY <2>2 DEF Sides
  <2> HIDE DEF f
  <2>5. BookInv'
    BY <2>3, <2>4, BothSidesKeep
  <2> QED BY <2>5, <1>8 DEF AddDel
<1>9. ASSUME NEW t, book_exp(t)
      PROVE  Inv'
  <2>1. CASE t = NATV
    BY <2>1, <1>9, ClrBook DEF book_exp
  <2>2. CASE t # NATV
    <3>1. PICK A \in Walks(book["ASK"]), B \in Walks(book["BID"]) :
              book' = [book EXCEPT !["ASK"] = Expunged(book["ASK"], A, t),
                                   !["BID"] = Expunged(book["BID"], B, t)]
      BY <2>2, <1>9 DEF book_exp
    <3> DEFINE f == [s \in Sides |-> IF s = "ASK" THEN Expunged(book["ASK"], A, t)
                                     ELSE Expunged(book["BID"], B, t)]
    <3>2. /\ LeafInv(Expunged(book["ASK"], A, t))
          /\ Expunged(book["ASK"], A, t).desc = book["ASK"].desc
          /\ LeafInv(Expunged(book["BID"], B, t))
          /\ Expunged(book["BID"], B, t).desc = book["BID"].desc
      BY <1>b, ExpungedKeeps DEF Sides
    <3>3. book' = [s \in Sides |-> f[s]]
      BY <3>1 DEF BookInv, Sides
    <3>4. \A s \in Sides : LeafInv(f[s]) /\ f[s].desc = book[s].desc
      BY <3>2 DEF Sides
    <3> HIDE DEF f
    <3>5. BookInv'
      BY <3>3, <3>4, BothSidesKeep
    <3> QED BY <3>5, <1>9 DEF book_exp
  <2> QED BY <2>1, <2>2
<1>10. CASE UNCHANGED vars
  BY <1>10 DEF vars, BookInv
<1> QED BY <1>1, <1>2, <1>3, <1>4, <1>5, <1>6, <1>7, <1>8, <1>9, <1>10,
           QuotePrice DEF Next, FeedNext, Quote, Reading

\* For every leaf size, feed and set of prices, the fields of both leaves
\* stay within their types under every operation of books.c: n never runs
\* past the slots, no bit past n, nothing behind n.
THEOREM TypeCorrect == Spec => []TypeOK
<1>1. Inv => TypeOK
  BY DEF Inv, BookInv, LeafInv, TypeOK
<1> QED BY <1>1, InitInv, NextInv, PTL DEF Spec

\* For every leaf size, feed and set of prices, both sides of a book stay
\* strictly ordered best price first under every operation of books.c, dead
\* levels included: the memmoves of leaf_add never duplicate, lose or swap a
\* price.
THEOREM StaysSorted == Spec => []Sorted
<1>1. Inv => Sorted
  BY DEF Inv, BookInv, LeafInv, Sorted
<1> QED BY <1>1, InitInv, NextInv, PTL DEF Spec

-----------------------------------------------------------------------------
(* Fed with quotes and clears, Books implements BookSpec.  The refinement *)
(* needs the invariant and that no quantity is negative.                   *)

NonNegLeaf(lf) == \A i \in Slots : lf.val[i].q >= 0

NonNeg == \A s \in Sides : NonNegLeaf(book[s])

FeedInv == Inv /\ NonNeg

\* btree_val_nil has no quantity.
LEMMA NilPrice == \A v : v = btree_val_nil => v.q = 0
BY DEF btree_val_nil

\* leaf_add brings no negative quantity into a leaf.
LEMMA AddNonNeg ==
  ASSUME NEW lf, LeafInv(lf), NonNegLeaf(lf), NEW k \in Prices, ~Full(lf)
  PROVE  NonNegLeaf(leaf_add(lf, k))
<1> DEFINE i == Slot(lf, k)
           nul == FirstNil(lf)
           r == Insert(lf, k, i, nul)
<1>1. CASE Same(k, lf.key[i])
  <2>1. leaf_add(lf, k).val = lf.val
    BY <1>1 DEF leaf_add
  <2> QED BY <2>1 DEF NonNegLeaf
<1>2. CASE ~Same(k, lf.key[i])
  <2>1. leaf_add(lf, k) = r
    BY <1>2 DEF leaf_add
  <2>i. i \in 0 .. lf.n /\ nul \in 0 .. lf.n
    BY SlotIs, NilIs
  <2>t. lf.n \in Nat /\ lf.n < NKeys - 1 /\ NKeys \in Nat
    BY LeafTypes, NKeysAssumption DEF LeafInv, Full
  <2> HIDE DEF i, nul, r
  <2>2. /\ r.val[Landing(i, nul)] = btree_val_nil
        /\ \A j \in Slots : j # Landing(i, nul) => r.val[j] = lf.val[Source(j, i, nul)]
    BY <2>i, InsertIs DEF r
  <2>3. \A j \in Slots : Source(j, i, nul) \in Slots
    BY <2>i, <2>t DEF Source, Slots
  <2>4. \A j \in Slots : r.val[j].q >= 0
    BY <2>2, <2>3, NilPrice DEF NonNegLeaf
  <2> QED BY <2>1, <2>4 DEF NonNegLeaf
<1> QED BY <1>1, <1>2

\* Nor does a put of a quantity that is not negative.
LEMMA PutNonNeg ==
  ASSUME NEW lf, LeafInv(lf), NonNegLeaf(lf), NEW k \in Prices, ~Full(lf),
         NEW v \in Vals, v.q >= 0
  PROVE  /\ NonNegLeaf(PutLevel(lf, k, v))
         /\ OldLevel(lf, k).q >= 0
<1> DEFINE r == leaf_add(lf, k)
           a == PutSlot(lf, k)
<1>1. NonNegLeaf(r) /\ LeafInv(r) /\ a \in 0 .. r.n - 1
  BY AddNonNeg, AddIs
<1>2. r.n \in Nat /\ r.val \in [Slots -> Vals] /\ a \in Slots
  BY <1>1, LeafTypes DEF LeafInv
<1>3. PutLevel(lf, k, v).val = [r.val EXCEPT ![a] = v]
  BY <1>1, PokeKeeps DEF PutLevel
<1>4. OldLevel(lf, k) = r.val[a]
  BY DEF OldLevel
<1> HIDE DEF r, a
<1> QED BY <1>1, <1>2, <1>3, <1>4 DEF NonNegLeaf

\* After btree_clr no quantity is negative.
LEMMA ClrNonNeg ==
  ASSUME NEW lf, LeafInv(lf)
  PROVE  NonNegLeaf(btree_clr(lf))
BY ClrKeeps, NilPrice DEF NonNegLeaf

\* Changing one side changes the map on that side only.
LEMMA ContentsOfSide ==
  ASSUME BookInv, NEW s \in Sides, NEW r, book' = [book EXCEPT ![s] = r]
  PROVE  /\ Contents' = [Contents EXCEPT ![s] = [x \in Prices |-> LevelAt(r, x)]]
         /\ NonNeg /\ NonNegLeaf(r) => NonNeg'
<1>1. \A x \in Sides : book'[x] = IF x = s THEN r ELSE book[x]
  BY DEF BookInv
<1>2. \A x \in Sides : Contents'[x] =
          IF x = s THEN [y \in Prices |-> LevelAt(r, y)] ELSE Contents[x]
  BY <1>1 DEF Contents
<1>3. Contents' = [Contents EXCEPT ![s] = [x \in Prices |-> LevelAt(r, x)]]
  BY <1>2 DEF Contents
<1>4. NonNeg /\ NonNegLeaf(r) => NonNeg'
  BY <1>1 DEF NonNeg
<1> QED BY <1>3, <1>4

\* BookSpec and BooksProps mean the same by a level without quantity.
LEMMA SameNorm ==
  /\ \A v : Promise!Norm(v) = Norm(v)
  /\ Promise!NoLevel = btree_val_nil
BY DEF Promise!Norm, Norm, Promise!NoLevel, btree_val_nil

\* The map, level by level.
LEMMA ContentsAt ==
  \A s \in Sides, x \in Prices : Contents[s][x] = LevelAt(book[s], x)
BY DEF Contents

\* A put and its assignments are the SetLevel of BookSpec.
LEMMA PutIsSetLevel ==
  ASSUME BookInv, NonNeg, NEW s \in Sides, NEW p \in Prices, ~Full(book[s]),
         NEW v \in Vals, v.q >= 0, NEW q, NEW t, Norm(v) = Norm([q |-> q, t |-> t]),
         book' = [book EXCEPT ![s] = PutLevel(book[s], p, v)],
         ret' = OldLevel(book[s], p)
  PROVE  NonNeg' /\ Promise!SetLevel(s, p, q, t)
<1> DEFINE r == PutLevel(book[s], p, v)
<1>l. LeafInv(book[s]) /\ NonNegLeaf(book[s])
  BY DEF BookInv, NonNeg
<1>1. NonNegLeaf(r)
  BY <1>l, PutNonNeg
<1>2. \A x \in Prices : LevelAt(r, x) = IF x = p THEN Norm(v) ELSE LevelAt(book[s], x)
  BY <1>l, PutContents
<1>3. OldLevel(book[s], p) = leaf_get(book[s], p) /\ OldLevel(book[s], p) \in Vals
  BY <1>l, PutKeeps
<1> HIDE DEF r
<1>4. /\ NonNeg'
      /\ Contents' = [Contents EXCEPT ![s] = [x \in Prices |-> LevelAt(r, x)]]
  BY <1>1, ContentsOfSide DEF r
<1>5. [x \in Prices |-> LevelAt(r, x)] = [Contents[s] EXCEPT ![p] = Norm(v)]
  BY <1>2 DEF Contents
<1>6. Contents' = [Contents EXCEPT ![s] = [Contents[s] EXCEPT ![p] = Norm(v)]]
  BY <1>4, <1>5
<1>7. (IF ret \in {NotAQuo, Echo} THEN ret ELSE Norm(ret))' = Contents[s][p]
  BY <1>3, ContentsAt, ReturnAssumption DEF LevelAt
<1> QED BY <1>4, <1>6, <1>7, SameNorm DEF Promise!SetLevel

\* A book that is fed with quotes of levels 1, 2 and 3 and clears, and read
\* in between, implements the map of BookSpec: book_add changes the level
\* quoted as BookSpec says, leaves every other level alone, and returns the
\* previous state of the level (none, for a level-1 quote). Totals must not be
\* negative: after a negative total at level 2, or a trade (which FeedSpec has
\* not), a level-3 change starts from a negative residue and not from nothing.
THEOREM FeedRefines ==
  ASSUME Qtys \subseteq Nat
  PROVE  FeedSpec => FeedIsMap
<1>1. Init => Promise!SpecInit /\ FeedInv
  <2> SUFFICES ASSUME Init PROVE Promise!SpecInit /\ FeedInv
    OBVIOUS
  <2>1. Inv
    BY InitInv
  <2>2. \A s \in Sides : /\ book[s].n = 0
                         /\ \A i \in Slots : book[s].val[i] = btree_val_nil
    BY DEF Init, make_book, make_btree
  <2>3. NonNeg
    BY <2>2, NilPrice DEF NonNeg, NonNegLeaf
  <2>4. \A s \in Sides, p \in Prices : LevelAt(book[s], p) = btree_val_nil
    <3> SUFFICES ASSUME NEW s \in Sides, NEW p \in Prices
                 PROVE  LevelAt(book[s], p) = btree_val_nil
      OBVIOUS
    <3>1. leaf_get(book[s], p) = btree_val_nil
      BY <2>1, <2>2, GetIs DEF Inv, BookInv
    <3> QED BY <3>1 DEF LevelAt, Norm
  <2>5. Contents = [s \in Sides |-> [p \in Prices |-> btree_val_nil]]
    BY <2>4 DEF Contents
  <2>6. ret = NotAQuo /\ quo = <<>>
    BY DEF Init, make_book
  <2> QED BY <2>1, <2>3, <2>5, <2>6, SameNorm
          DEF FeedInv, Promise!SpecInit, Promise!Sides, Sides
<1>2. FeedInv /\ [FeedNext]_vars => FeedInv' /\ [Promise!SpecNext]_(Promise!specVars)
  <2> SUFFICES ASSUME FeedInv, [FeedNext]_vars
               PROVE  FeedInv' /\ [Promise!SpecNext]_(Promise!specVars)
    OBVIOUS
  <2>i. Inv /\ Inv' /\ BookInv /\ NonNeg
    BY NextInv DEF FeedInv, Next, Inv
  <2>b. \A s \in Sides : LeafInv(book[s]) /\ NonNegLeaf(book[s])
    BY <2>i DEF BookInv, NonNeg
  <2>1. ASSUME NEW s \in QuoteSides, NEW p \in Prices, NEW d \in Incs, NEW t \in Times,
               AddLvl3(s, p, d, t)
        PROVE  FeedInv' /\ Promise!ChangeLevel(s, p, d, t)
    <3> DEFINE o == OldLevel(book[s], p)
               v == [q |-> IF o.q + d >= 0 THEN o.q + d ELSE 0, t |-> t]
    <3>s. s \in Sides /\ LeafInv(book[s]) /\ NonNegLeaf(book[s]) /\ ~Full(book[s])
      BY <2>1, <2>b, QuoteSide DEF AddLvl3
    <3>1. o \in Vals /\ o.q >= 0 /\ o = leaf_get(book[s], p)
      BY <3>s, PutKeeps, PutNonNeg, NilVal, NilPrice
    <3>2. v \in Vals /\ v.q >= 0
      BY <3>1, FeedAssumption DEF Vals
    <3>3. Contents[s][p].q = o.q
      BY <3>1, <3>s, ContentsAt DEF LevelAt, Norm, btree_val_nil, Vals
    <3>4. Norm(v) = Norm([q |-> Contents[s][p].q + d, t |-> t])
      BY <3>1, <3>3, FeedAssumption DEF Norm, Vals
    <3>5. book' = [book EXCEPT ![s] = PutLevel(book[s], p, v)] /\ ret' = o
      BY <2>1 DEF AddLvl3
    <3> HIDE DEF v
    <3>6. NonNeg' /\ Promise!SetLevel(s, p, Contents[s][p].q + d, t)
      BY <2>i, <3>s, <3>2, <3>4, <3>5, PutIsSetLevel
    <3> QED BY <3>6, <2>i DEF FeedInv, Promise!ChangeLevel
  <2>2. ASSUME NEW s \in QuoteSides, NEW p \in Prices, NEW q \in Qtys, NEW t \in Times,
               AddLvl2(s, p, q, t)
        PROVE  FeedInv' /\ Promise!SetLevel(s, p, q, t)
    <3> DEFINE v == [q |-> q, t |-> t]
    <3>s. s \in Sides /\ ~Full(book[s])
      BY <2>2, QuoteSide DEF AddLvl2
    <3>2. v \in Vals /\ v.q >= 0
      BY FeedAssumption DEF Vals
    <3>5. /\ book' = [book EXCEPT ![s] = PutLevel(book[s], p, v)]
          /\ ret' = OldLevel(book[s], p)
      BY <2>2 DEF AddLvl2
    <3>4. Norm(v) = Norm([q |-> q, t |-> t])
      OBVIOUS
    <3> HIDE DEF v
    <3>6. NonNeg' /\ Promise!SetLevel(s, p, q, t)
      BY <2>i, <3>s, <3>2, <3>4, <3>5, PutIsSetLevel
    <3> QED BY <3>6, <2>i DEF FeedInv
  <2>3. ASSUME NEW s \in QuoteSides, NEW p \in Prices, NEW q \in Qtys, NEW t \in Times,
               AddLvl1(s, p, q, t)
        PROVE  FeedInv' /\ Promise!ReplaceSide(s, p, q, t)
    <3> DEFINE c == btree_clr(book[s])
               v == [q |-> q, t |-> t]
               r == PutLevel(c, p, v)
    <3>s. s \in Sides /\ LeafInv(book[s])
      BY <2>b, QuoteSide
    <3>c. LeafInv(c) /\ NonNegLeaf(c) /\ ~Full(c)
      BY <2>3, <3>s, ClrKeeps, ClrNonNeg DEF AddLvl1
    <3>n. \A x \in Prices : LevelAt(c, x) = btree_val_nil
      BY <3>s, ClrContents
    <3>v. v \in Vals /\ v.q >= 0
      BY FeedAssumption DEF Vals
    <3>5. book' = [book EXCEPT ![s] = r] /\ ret' = OldLevel(c, p)
      BY <2>3 DEF AddLvl1
    <3> HIDE DEF c, v
    <3>1. NonNegLeaf(r) /\ OldLevel(c, p) = leaf_get(c, p) /\ OldLevel(c, p) \in Vals
      BY <3>c, <3>v, PutNonNeg, PutKeeps
    <3>2. \A x \in Prices : LevelAt(r, x) = IF x = p THEN Norm(v) ELSE btree_val_nil
      BY <3>c, <3>v, <3>n, PutContents
    <3>3. Norm(OldLevel(c, p)) = btree_val_nil
      BY <3>1, <3>n DEF LevelAt
    <3> HIDE DEF r
    <3>4. /\ NonNeg'
          /\ Contents' = [Contents EXCEPT ![s] = [x \in Prices |-> LevelAt(r, x)]]
      BY <2>i, <3>s, <3>1, <3>5, ContentsOfSide
    <3>6. [x \in Prices |-> LevelAt(r, x)] =
             [x \in Prices |-> IF x = p THEN Norm(v) ELSE btree_val_nil]
      BY <3>2
    <3>7. (IF ret \in {NotAQuo, Echo} THEN ret ELSE Norm(ret))' = btree_val_nil
      BY <3>1, <3>3, <3>5, ReturnAssumption
    <3>8. Promise!ReplaceSide(s, p, q, t)
      BY <3>4, <3>6, <3>7, SameNorm DEF Promise!ReplaceSide, v
    <3> QED BY <3>4, <3>8, <2>i DEF FeedInv
  <2>4. ASSUME NEW s \in QuoteSides, NEW q \in Qtys, AddLvl1NaN(s, q)
        PROVE  FeedInv' /\ Promise!EmptySide(s)
    <3> DEFINE c == btree_clr(book[s])
    <3>s. s \in Sides /\ LeafInv(book[s])
      BY <2>b, QuoteSide
    <3>c. NonNegLeaf(c) /\ \A x \in Prices : LevelAt(c, x) = btree_val_nil
      BY <3>s, ClrNonNeg, ClrContents
    <3>5. book' = [book EXCEPT ![s] = c] /\ ret' = Echo
      BY <2>4 DEF AddLvl1NaN
    <3> HIDE DEF c
    <3>4. /\ NonNeg'
          /\ Contents' = [Contents EXCEPT ![s] = [x \in Prices |-> LevelAt(c, x)]]
      BY <2>i, <3>s, <3>c, <3>5, ContentsOfSide
    <3>6. [x \in Prices |-> LevelAt(c, x)] = [x \in Prices |-> btree_val_nil]
      BY <3>c
    <3>8. Promise!EmptySide(s)
      BY <3>4, <3>5, <3>6, SameNorm DEF Promise!EmptySide
    <3> QED BY <3>4, <3>8, <2>i DEF FeedInv
  <2>5. ASSUME AddInv
        PROVE  FeedInv' /\ Promise!Refuse
    <3>1. Contents' = Contents /\ NonNeg'
      BY <2>5, <2>i DEF AddInv, Contents, NonNeg
    <3> QED BY <3>1, <2>5, <2>i DEF AddInv, FeedInv, Promise!Refuse
  <2>6. ASSUME AddClr
        PROVE  FeedInv' /\ Promise!EmptyBook
    <3>1. \A s \in Sides : book'[s] = btree_clr(book[s])
      BY <2>6 DEF AddClr, book_clr
    <3>2. NonNeg'
      BY <3>1, <2>b, ClrNonNeg DEF NonNeg
    <3>3. \A s \in Sides, x \in Prices : LevelAt(book'[s], x) = btree_val_nil
      BY <3>1, <2>b, ClrContents
    <3>4. Contents' = [s \in Sides |-> [x \in Prices |-> btree_val_nil]]
      BY <3>3 DEF Contents
    <3> QED BY <3>2, <3>4, <2>6, <2>i, SameNorm
            DEF AddClr, FeedInv, Promise!EmptyBook, Promise!Sides, Sides
  <2>7. ASSUME NEW s \in QuoteSides, NEW m \in 1 .. MaxReads, Read(s, m),
               UNCHANGED quo
        PROVE  FeedInv' /\ UNCHANGED Promise!specVars
    <3>1. PICK W \in Walks(book[s]) :
              book' = [book EXCEPT ![s] = Walked(book[s], StopAfter(book[s], W, m))]
      BY <2>7 DEF Read
    <3> DEFINE r == Walked(book[s], StopAfter(book[s], W, m))
    <3>s. s \in Sides /\ LeafInv(book[s]) /\ NonNegLeaf(book[s])
      BY <2>b, QuoteSide
    <3>2. /\ LeafInv(r) /\ r.n = book[s].n /\ r.key = book[s].key /\ r.val = book[s].val
      BY <3>s, WalkedKeeps
    <3> HIDE DEF r
    <3>3. NonNegLeaf(r)
      BY <3>2, <3>s DEF NonNegLeaf
    <3>4. \A x \in Prices : LevelAt(r, x) = Contents[s][x]
      BY <3>2, <3>s, SameLevelsSameContents, ContentsAt DEF LevelAt
    <3>5. /\ NonNeg'
          /\ Contents' = [Contents EXCEPT ![s] = [x \in Prices |-> LevelAt(r, x)]]
      BY <2>i, <3>s, <3>1, <3>3, ContentsOfSide DEF r
    <3>6. [x \in Prices |-> LevelAt(r, x)] = Contents[s]
      BY <3>4, <3>s DEF Contents
    <3>7. Contents' = Contents
      BY <3>5, <3>6, <3>s DEF Contents
    <3> QED BY <3>5, <3>7, <2>7, <2>i DEF FeedInv, Read, Promise!specVars
  <2>8. CASE UNCHANGED vars
    BY <2>8, <2>i DEF vars, FeedInv, NonNeg, Promise!specVars, Contents
  <2> QED
    <3>1. QuoteSides \subseteq Promise!Sides
      BY QuoteSide DEF Promise!Sides, Sides
    <3> QED BY <3>1, QuotePrice, <2>1, <2>2, <2>3, <2>4, <2>5, <2>6, <2>7, <2>8
            DEF FeedNext, Quote, Reading, Promise!SpecNext
<1> QED BY <1>1, <1>2, PTL DEF FeedSpec, FeedIsMap, Promise!BookSpec

-----------------------------------------------------------------------------
(* What keeps the levels of a leaf visible to the iterator, and that where *)
(* all are visible a trade or an expiry removes what it should.            *)

\* If the slot given up has no bit, the toggled bitmap moves every bit along
\* with its level.
LEMMA ShiftMovesBits ==
  ASSUME NEW n \in Nat, NEW used, used \subseteq 0 .. n - 1,
         NEW i \in 0 .. n, NEW nul \in 0 .. n, nul \notin used,
         NEW j \in Nat, j # Landing(i, nul), Source(j, i, nul) \in used
  PROVE  j \in MovedUsed(used, i, nul)
<1>1. CASE nul > i
  <2> DEFINE msk == used \cap (i .. nul - 1)
  <2>1. MovedUsed(used, i, nul) = SymDiff(used \ msk, {l + 1 : l \in msk})
    BY <1>1 DEF MovedUsed
  <2>2. CASE i < j /\ j <= nul
    <3>1. j - 1 \in msk /\ j = (j - 1) + 1
      BY <2>2 DEF Source
    <3>2. j \in {l + 1 : l \in msk}
      BY <3>1
    <3>3. j \notin used \ msk
      BY <2>2
    <3> QED BY <2>1, <3>2, <3>3 DEF SymDiff
  <2>3. CASE ~(i < j /\ j <= nul)
    <3>1. j \in used /\ (j < i \/ j > nul)
      BY <2>3, <1>1 DEF Source, Landing
    <3>2. j \notin {l + 1 : l \in msk} /\ j \notin msk
      BY <3>1
    <3> QED BY <2>1, <3>1, <3>2 DEF SymDiff
  <2> QED BY <2>2, <2>3
<1>2. CASE ~(nul > i)
  <2> DEFINE msk == used \cap (nul .. i - 1)
  <2>1. MovedUsed(used, i, nul) = SymDiff(used \ msk, {l - 1 : l \in msk \ {0}})
    BY <1>2 DEF MovedUsed
  <2>2. CASE nul <= j /\ j < i - 1
    <3>1. j + 1 \in msk \ {0} /\ j = (j + 1) - 1
      BY <2>2, <1>2 DEF Source
    <3>2. j \in {l - 1 : l \in msk \ {0}}
      BY <3>1
    <3>3. j \notin used \ msk
      BY <2>2
    <3> QED BY <2>1, <3>2, <3>3 DEF SymDiff
  <2>3. CASE ~(nul <= j /\ j < i - 1)
    <3>1. j \in used /\ (j < nul \/ j >= i)
      BY <2>3, <1>2 DEF Source, Landing
    <3>2. j \notin {l - 1 : l \in msk \ {0}} /\ j \notin msk
      <4>1. \A l \in msk \ {0} : l - 1 # j
        BY <3>1
      <4> QED BY <3>1, <4>1
    <3> QED BY <2>1, <3>1, <3>2 DEF SymDiff
  <2> QED BY <2>2, <2>3
<1> QED BY <1>1, <1>2

\* A level is live if it has a quantity.
LEMMA LiveIs ==
  ASSUME NEW lf, LeafInv(lf), NEW j
  PROVE  j \in Live(lf) <=> j \in 0 .. lf.n - 1 /\ lf.val[j].q > 0
<1>1. ASSUME j \in 0 .. lf.n - 1 PROVE lf.val[j].q \in Int
  <2>1. /\ lf.val \in [Slots -> Vals] /\ lf.n \in Nat
        /\ \A i \in 0 .. lf.n : i \in Slots
    BY LeafTypes DEF LeafInv
  <2> QED BY <1>1, <2>1 DEF Vals
<1> QED BY <1>1 DEF Live, btree_val_nil_p

(* A put on a side that is visible and settled leaves it visible, whatever *)
(* value is then written through the pointer.                              *)
LEMMA PutKeepsVisible ==
  ASSUME NEW lf, LeafInv(lf), Visible(lf), Settled(lf),
         NEW k \in Prices, ~Full(lf), NEW v \in Vals
  PROVE  Visible(PutLevel(lf, k, v))
<1> DEFINE m == leaf_add(lf, k)
           r == PutLevel(lf, k, v)
           a == PutSlot(lf, k)
           i == Slot(lf, k)
           nul == FirstNil(lf)
<1>m. LeafInv(m) /\ a \in 0 .. m.n - 1 /\ a \in m.used
  BY AddIs
<1>r. /\ LeafInv(r) /\ r.n = m.n /\ r.used = m.used
      /\ r.val = [m.val EXCEPT ![a] = v]
  BY <1>m, PokeKeeps DEF PutLevel
<1>t. /\ lf.n \in Nat /\ lf.used \subseteq 0 .. lf.n - 1
      /\ m.val \in [Slots -> Vals]
      /\ m.n \in Nat /\ m.n <= NKeys - 1 /\ NKeys \in Nat
      /\ \A j \in 0 .. m.n - 1 : j \in Slots
  BY <1>m, LeafTypes, NKeysAssumption DEF LeafInv
<1>i. i \in 0 .. lf.n /\ nul \in 0 .. lf.n /\ (nul < lf.n => lf.val[nul].q <= 0)
  BY SlotIs, NilIs
<1> SUFFICES ASSUME NEW j \in Live(r), j # a PROVE j \in m.used
  BY <1>m, <1>r DEF Visible
<1> HIDE DEF r
<1>1. j \in 0 .. m.n - 1 /\ m.val[j].q > 0
  BY <1>r, <1>t, LiveIs
<1>2. CASE Same(k, lf.key[i])
  <2>1. m.val = lf.val /\ m.n = lf.n /\ m.used = lf.used \cup {i}
    BY <1>2 DEF leaf_add
  <2>2. j \in Live(lf)
    BY <2>1, <1>1, LiveIs
  <2> QED BY <2>1, <2>2 DEF Visible
<1>3. CASE ~Same(k, lf.key[i])
  <2>1. m = Insert(lf, k, i, nul) /\ a = Landing(i, nul)
    BY <1>3 DEF leaf_add, PutSlot
  <2>2. m.used = MovedUsed(lf.used, i, nul) \cup {a}
    BY <2>1 DEF Insert
  <2> HIDE DEF m, i, nul, a
  <2>3. /\ m.n = (IF nul < lf.n THEN lf.n ELSE lf.n + 1)
        /\ \A l \in Slots : l # a => m.val[l] = lf.val[Source(l, i, nul)]
    BY <2>1, <1>i, InsertIs
  <2>4. Source(j, i, nul) \in 0 .. lf.n - 1
    BY <2>1, <2>3, <1>1, <1>i, <1>t, ShiftIsOrderPreserving
  <2>5. lf.val[Source(j, i, nul)].q > 0
    BY <2>3, <1>1, <1>t
  <2>6. Source(j, i, nul) \in lf.used
    BY <2>4, <2>5, LiveIs DEF Visible
  <2>7. nul \notin lf.used
    <3>1. nul \notin Live(lf)
      BY <1>i, <1>t DEF Live, btree_val_nil_p
    <3> QED BY <3>1 DEF Settled
  <2>8. j \in MovedUsed(lf.used, i, nul)
    BY <2>1, <2>6, <2>7, <1>1, <1>i, <1>t, ShiftMovesBits
  <2> QED BY <2>2, <2>8
<1> QED BY <1>2, <1>3

(* The operations that leave keys alone and at most kill levels.           *)
LEMMA ClrVisible ==
  ASSUME NEW lf, LeafInv(lf)
  PROVE  Visible(btree_clr(lf))
<1>1. /\ LeafInv(btree_clr(lf)) /\ btree_clr(lf).n = lf.n
      /\ \A i \in Slots : btree_clr(lf).val[i] = btree_val_nil
  BY ClrKeeps
<1>2. \A j \in 0 .. lf.n - 1 : j \in Slots
  BY LeafTypes DEF LeafInv
<1>3. \A j : j \notin Live(btree_clr(lf))
  BY <1>1, <1>2, LiveIs DEF btree_val_nil
<1> QED BY <1>3 DEF Visible

(* A level-1 quote leaves one level, and that one is visible.             *)
LEMMA ReplaceVisible ==
  ASSUME NEW lf, LeafInv(lf), NEW k \in Prices, ~Full(lf), NEW v \in Vals
  PROVE  Visible(PutLevel(btree_clr(lf), k, v))
<1> DEFINE c == btree_clr(lf)
           m == leaf_add(c, k)
           r == PutLevel(c, k, v)
           a == PutSlot(c, k)
           i == Slot(c, k)
           nul == FirstNil(c)
<1>c. /\ LeafInv(c) /\ c.n = lf.n
      /\ \A j \in Slots : c.val[j] = btree_val_nil
  BY ClrKeeps
<1>f. ~Full(c)
  BY <1>c DEF Full
<1> HIDE DEF c
<1>m. LeafInv(m) /\ a \in 0 .. m.n - 1 /\ a \in m.used
  BY <1>c, <1>f, AddIs
<1>r. /\ LeafInv(r) /\ r.n = m.n /\ r.used = m.used
      /\ r.val = [m.val EXCEPT ![a] = v]
  BY <1>m, PokeKeeps DEF PutLevel
<1>t. /\ c.n \in Nat /\ c.n < NKeys - 1
      /\ m.val \in [Slots -> Vals]
      /\ m.n \in Nat /\ m.n <= NKeys - 1 /\ NKeys \in Nat
      /\ \A j \in 0 .. m.n - 1 : j \in Slots
  BY <1>c, <1>f, <1>m, LeafTypes, NKeysAssumption DEF LeafInv, Full
<1>i. i \in 0 .. c.n /\ nul \in 0 .. c.n
  BY <1>c, SlotIs, NilIs
<1>1. \A j \in Slots : m.val[j] = btree_val_nil
  <2>1. CASE Same(k, c.key[i])
    BY <2>1, <1>c DEF leaf_add
  <2>2. CASE ~Same(k, c.key[i])
    <3>1. m = Insert(c, k, i, nul)
      BY <2>2 DEF leaf_add
    <3> HIDE DEF m, i, nul
    <3>2. /\ m.val[Landing(i, nul)] = btree_val_nil
          /\ \A l \in Slots : l # Landing(i, nul) => m.val[l] = c.val[Source(l, i, nul)]
      BY <3>1, <1>c, <1>f, <1>i, InsertIs
    <3>3. \A l \in Slots : Source(l, i, nul) \in Slots
      BY <1>i, <1>t DEF Source, Slots
    <3> QED BY <3>2, <3>3, <1>c
  <2> QED BY <2>1, <2>2
<1> HIDE DEF r, m, a
<1>2. \A j \in Live(r) : j = a
  BY <1>1, <1>r, <1>t, LiveIs DEF btree_val_nil
<1> QED BY <1>2, <1>r, <1>m DEF Visible, r, c

\* An operation that moves the iterator and at most kills levels hides none.
LEMMA WalkedVisible ==
  ASSUME NEW lf, LeafInv(lf), Visible(lf), NEW stop,
         NEW r, LeafInv(r), r.n = lf.n, r.used = Walked(lf, stop).used,
         \A i \in 0 .. lf.n - 1 : r.val[i].q > 0 => lf.val[i].q > 0
  PROVE  Visible(r)
<1> SUFFICES ASSUME NEW j \in Live(r) PROVE j \in r.used
  BY DEF Visible
<1>1. j \in 0 .. lf.n - 1 /\ lf.val[j].q > 0
  BY LiveIs
<1>2. j \in Live(lf) /\ j \in lf.used
  BY <1>1, LiveIs DEF Visible
<1>3. ~btree_val_nil_p(lf.val[j])
  BY <1>2 DEF Live
<1> QED BY <1>2, <1>3 DEF Walked

\* A trade hides no level.
LEMMA TradedVisible ==
  ASSUME NEW lf, LeafInv(lf), Visible(lf), NEW W \in Walks(lf), NEW p, NEW d \in Int
  PROVE  Visible(Traded(lf, W, p, d))
<1> DEFINE r == Traded(lf, W, p, d)
           Reached(i) == Better(lf.desc, lf.key[i], p) \/ Same(lf.key[i], p)
           stop == Min({i \in W : ~Reached(i)} \cup {lf.n})
<1>1. LeafInv(r)
  BY TradedKeeps
<1>2. r.n = lf.n /\ r.used = Walked(lf, stop).used
  BY WalkedKeeps DEF Traded
<1>3. W \subseteq Live(lf)
  BY WalksAreLive
<1>t. \A j \in 0 .. lf.n - 1 : j \in Slots
  BY LeafTypes DEF LeafInv
<1>4. ASSUME NEW i \in 0 .. lf.n - 1, r.val[i].q > 0 PROVE lf.val[i].q > 0
  <2>1. CASE i \in W
    BY <2>1, <1>3, LiveIs
  <2>2. CASE i \notin W
    <3>1. r.val[i] = lf.val[i]
      BY <2>2, <1>t DEF Traded
    <3> QED BY <3>1, <1>4
  <2> QED BY <2>1, <2>2
<1> HIDE DEF r, stop
<1>5. Visible(r)
  BY <1>1, <1>2, <1>4, WalkedVisible
<1> QED BY <1>5 DEF r

\* An expiry hides no level.
LEMMA ExpungedVisible ==
  ASSUME NEW lf, LeafInv(lf), Visible(lf), NEW W \in Walks(lf), NEW t
  PROVE  Visible(Expunged(lf, W, t))
<1> DEFINE r == Expunged(lf, W, t)
<1>1. LeafInv(r)
  BY ExpungedKeeps
<1>2. r.n = lf.n /\ r.used = Walked(lf, lf.n).used
  BY WalkedKeeps DEF Expunged
<1>3. W \subseteq Live(lf)
  BY WalksAreLive
<1>t. \A j \in 0 .. lf.n - 1 : j \in Slots
  BY LeafTypes DEF LeafInv
<1>4. ASSUME NEW i \in 0 .. lf.n - 1, r.val[i].q > 0 PROVE lf.val[i].q > 0
  <2>1. CASE i \in W
    BY <2>1, <1>3, LiveIs
  <2>2. CASE i \notin W
    <3>1. r.val[i] = lf.val[i]
      BY <2>2, <1>t DEF Expunged
    <3> QED BY <3>1, <1>4
  <2> QED BY <2>1, <2>2
<1> HIDE DEF r
<1>5. Visible(r)
  BY <1>1, <1>2, <1>4, WalkedVisible
<1> QED BY <1>5 DEF r

\* Reading hides no level.
LEMMA ReadVisible ==
  ASSUME NEW lf, LeafInv(lf), Visible(lf), NEW stop
  PROVE  Visible(Walked(lf, stop))
BY WalkedKeeps, WalkedVisible

\* For every leaf size and every operation of books.c: a side on which the
\* iterator sees every level, and no dead level still has its bit, is a side
\* on which it sees every level after the step. An insertion over a dead
\* level that still has its bit is the only way to hide a level.
THEOREM SettledStaysVisible == Spec => SettledKeepsVisible
<1> DEFINE Kept(s) == Visible(book[s]) /\ Settled(book[s]) => Visible(book'[s])
<1>1. Inv /\ [Next]_vars => \A s \in Sides : Kept(s)
  <2> SUFFICES ASSUME Inv, [Next]_vars, NEW x \in Sides,
                      Visible(book[x]), Settled(book[x])
               PROVE  Visible(book'[x])
    OBVIOUS
  <2>b. book \in [Sides -> Leaves] /\ \A s \in Sides : LeafInv(book[s])
    BY DEF Inv, BookInv
  <2>e. ASSUME NEW s \in Sides, NEW r, book' = [book EXCEPT ![s] = r],
               x = s => Visible(r)
        PROVE  Visible(book'[x])
    BY <2>b, <2>e
  <2>1. ASSUME NEW s \in QuoteSides, NEW p \in Prices, NEW d \in Incs, NEW t \in Times,
               AddLvl3(s, p, d, t)
        PROVE  Visible(book'[x])
    <3> DEFINE o == OldLevel(book[s], p)
               v == [q |-> IF o.q + d >= 0 THEN o.q + d ELSE 0, t |-> t]
    <3>s. s \in Sides /\ LeafInv(book[s]) /\ ~Full(book[s])
      BY <2>1, <2>b, QuoteSide DEF AddLvl3
    <3>1. o \in Vals
      BY <3>s, PutKeeps, NilVal
    <3>2. v \in Vals
      BY <3>1, FeedAssumption DEF Vals
    <3>3. book' = [book EXCEPT ![s] = PutLevel(book[s], p, v)]
      BY <2>1 DEF AddLvl3
    <3> HIDE DEF v
    <3>4. x = s => Visible(PutLevel(book[s], p, v))
      BY <3>s, <3>2, PutKeepsVisible
    <3> QED BY <3>s, <3>3, <3>4, <2>e
  <2>2. ASSUME NEW s \in QuoteSides, NEW p \in Prices, NEW q \in Qtys, NEW t \in Times,
               AddLvl2(s, p, q, t)
        PROVE  Visible(book'[x])
    <3> DEFINE v == [q |-> q, t |-> t]
    <3>s. s \in Sides /\ LeafInv(book[s]) /\ ~Full(book[s])
      BY <2>2, <2>b, QuoteSide DEF AddLvl2
    <3>2. v \in Vals
      BY FeedAssumption DEF Vals
    <3>3. book' = [book EXCEPT ![s] = PutLevel(book[s], p, v)]
      BY <2>2 DEF AddLvl2
    <3> HIDE DEF v
    <3>4. x = s => Visible(PutLevel(book[s], p, v))
      BY <3>s, <3>2, PutKeepsVisible
    <3> QED BY <3>s, <3>3, <3>4, <2>e
  <2>3. ASSUME NEW s \in QuoteSides, NEW p \in Prices, NEW q \in Qtys, NEW t \in Times,
               AddLvl1(s, p, q, t)
        PROVE  Visible(book'[x])
    <3> DEFINE c == btree_clr(book[s])
               v == [q |-> q, t |-> t]
    <3>s. s \in Sides /\ LeafInv(book[s])
      BY <2>b, QuoteSide
    <3>f. ~Full(book[s])
      BY <2>3, <3>s, ClrKeeps DEF AddLvl1, Full
    <3>2. v \in Vals
      BY FeedAssumption DEF Vals
    <3>3. book' = [book EXCEPT ![s] = PutLevel(c, p, v)]
      BY <2>3 DEF AddLvl1
    <3> HIDE DEF v
    <3>4. x = s => Visible(PutLevel(c, p, v))
      BY <3>s, <3>f, <3>2, ReplaceVisible
    <3> QED BY <3>s, <3>3, <3>4, <2>e
  <2>4. ASSUME NEW s \in QuoteSides, NEW q \in Qtys, AddLvl1NaN(s, q)
        PROVE  Visible(book'[x])
    <3>s. s \in Sides /\ LeafInv(book[s])
      BY <2>b, QuoteSide
    <3>3. book' = [book EXCEPT ![s] = btree_clr(book[s])]
      BY <2>4 DEF AddLvl1NaN
    <3> QED BY <3>s, <3>3, ClrVisible, <2>e
  <2>5. CASE AddInv
    BY <2>5 DEF AddInv
  <2>6. ASSUME book_clr PROVE Visible(book'[x])
    <3>1. book'[x] = btree_clr(book[x])
      BY <2>6 DEF book_clr
    <3> QED BY <3>1, <2>b, ClrVisible
  <2>7. ASSUME NEW s \in QuoteSides, NEW m \in 1 .. MaxReads, Read(s, m)
        PROVE  Visible(book'[x])
    <3>1. PICK W \in Walks(book[s]) :
              book' = [book EXCEPT ![s] = Walked(book[s], StopAfter(book[s], W, m))]
      BY <2>7 DEF Read
    <3>s. s \in Sides /\ LeafInv(book[s])
      BY <2>b, QuoteSide
    <3>2. x = s => Visible(Walked(book[s], StopAfter(book[s], W, m)))
      BY <3>s, ReadVisible
    <3> QED BY <3>s, <3>1, <3>2, <2>e
  <2>8. ASSUME NEW p \in Prices, NEW d \in Trades, AddDel(p, d)
        PROVE  Visible(book'[x])
    <3>1. PICK A \in Walks(book["ASK"]), B \in Walks(book["BID"]) :
              book' = [book EXCEPT !["ASK"] = Traded(book["ASK"], A, p, d),
                                   !["BID"] = Traded(book["BID"], B, p, d)]
      BY <2>8 DEF AddDel
    <3>2. \E W \in Walks(book[x]) : book'[x] = Traded(book[x], W, p, d)
      BY <3>1, <2>b DEF Sides
    <3>3. d \in Int
      BY FeedAssumption
    <3> QED BY <3>2, <3>3, <2>b, TradedVisible
  <2>9. ASSUME NEW t, book_exp(t)
        PROVE  Visible(book'[x])
    <3>1. CASE t = NATV
      BY <3>1, <2>9, <2>6 DEF book_exp
    <3>2. CASE t # NATV
      <4>1. PICK A \in Walks(book["ASK"]), B \in Walks(book["BID"]) :
                book' = [book EXCEPT !["ASK"] = Expunged(book["ASK"], A, t),
                                     !["BID"] = Expunged(book["BID"], B, t)]
        BY <3>2, <2>9 DEF book_exp
      <4>2. \E W \in Walks(book[x]) : book'[x] = Expunged(book[x], W, t)
        BY <4>1, <2>b DEF Sides
      <4> QED BY <4>2, <2>b, ExpungedVisible
    <3> QED BY <3>1, <3>2
  <2>10. CASE UNCHANGED vars
    BY <2>10 DEF vars
  <2> QED BY <2>1, <2>2, <2>3, <2>4, <2>5, <2>6, <2>7, <2>8, <2>9, <2>10,
             QuotePrice DEF Next, FeedNext, Quote, Reading, AddClr
<1>2. Inv /\ [Next]_vars => [\A s \in Sides : Kept(s)]_vars
  BY <1>1
<1> QED BY <1>2, InitInv, NextInv, PTL DEF Spec, SettledKeepsVisible

-----------------------------------------------------------------------------
(* What a trade and an expiry do to the map while everything is visible.   *)

\* While every level has its bit a walk of the iterator returns exactly the
\* live levels, whatever __builtin_ctzll(0) is.
LEMMA VisibleWalk ==
  ASSUME NEW lf, Visible(lf), NEW W \in Walks(lf)
  PROVE  W = Live(lf)
BY DEF Walks, Stray, Visible

\* The DEL loop of book_add stops right behind the levels that are better than
\* the trade price or at it.
LEMMA TradeReaches ==
  ASSUME NEW lf, LeafInv(lf), NEW p \in Prices,
         NEW stop, stop = Min({i \in Live(lf) : ~(Better(lf.desc, lf.key[i], p) \/ Same(lf.key[i], p))}
                                \cup {lf.n}),
         NEW i \in Live(lf)
  PROVE  i < stop <=> Better(lf.desc, lf.key[i], p) \/ Same(lf.key[i], p)
<1> DEFINE Reached(j) == Better(lf.desc, lf.key[j], p) \/ Same(lf.key[j], p)
           S == {j \in Live(lf) : ~Reached(j)} \cup {lf.n}
<1>t. /\ lf.n \in Nat /\ lf.desc \in BOOLEAN /\ p \in Int /\ p # NaN
      /\ \A j \in 0 .. lf.n - 1 : lf.key[j] \in Int /\ lf.key[j] # NaN
  BY LeafTypes, FeedAssumption, NaNAssumption DEF LeafInv
<1>1. Live(lf) \subseteq 0 .. lf.n - 1
  BY DEF Live
<1>2. S \in SUBSET Nat /\ S # {}
  BY <1>t, <1>1
<1>3. stop \in S /\ \A y \in S : stop <= y
  BY <1>2, MinOfNats
<1>4. ASSUME ~Reached(i) PROVE ~(i < stop)
  <2>1. i \in S
    BY <1>4
  <2>2. stop <= i /\ stop \in Nat /\ i \in Nat
    BY <2>1, <1>2, <1>3
  <2> QED BY <2>2
<1>5. ASSUME Reached(i), ~(i < stop) PROVE FALSE
  <2>1. stop \in Live(lf) /\ ~Reached(stop) /\ stop < i
    <3>1. stop \in Nat /\ i \in 0 .. lf.n - 1 /\ stop <= i
      BY <1>1, <1>2, <1>3, <1>5
    <3>2. stop # lf.n
      BY <3>1, <1>t
    <3>3. stop \in Live(lf) /\ ~Reached(stop)
      BY <3>2, <1>3
    <3>4. stop # i
      BY <3>3, <1>5
    <3> QED BY <3>1, <3>3, <3>4
  <2>2. Better(lf.desc, lf.key[stop], lf.key[i])
    BY <2>1, <1>1 DEF LeafInv, SortedLeaf
  <2>3. Reached(stop)
    <3>1. lf.key[stop] \in Int /\ lf.key[i] \in Int /\ lf.key[stop] # NaN
      BY <2>1, <1>1, <1>t
    <3> QED BY <2>2, <3>1, <1>5, <1>t DEF Better, Same
  <2> QED BY <2>1, <2>3
<1> QED BY <1>4, <1>5

\* One side of a trade: what is better than its price is gone, the level there
\* is reduced and all others are left alone.
LEMMA TradedContents ==
  ASSUME NEW lf, LeafInv(lf), Visible(lf), NEW W \in Walks(lf),
         NEW p \in Prices, NEW d \in Nat, NEW x \in Prices
  PROVE  LevelAt(Traded(lf, W, p, d), x) =
           IF Better(lf.desc, x, p) THEN btree_val_nil
           ELSE IF x = p THEN Norm([LevelAt(lf, x) EXCEPT !.q = @ - d])
           ELSE LevelAt(lf, x)
<1> DEFINE r == Traded(lf, W, p, d)
           Reached(i) == Better(lf.desc, lf.key[i], p) \/ Same(lf.key[i], p)
           stop == Min({i \in W : ~Reached(i)} \cup {lf.n})
           w(i) == IF i \in W /\ i < stop
                   THEN [lf.val[i] EXCEPT !.q = IF Same(lf.key[i], p) THEN @ - d ELSE 0]
                   ELSE lf.val[i]
<1>t. /\ lf.n \in Nat /\ lf.desc \in BOOLEAN /\ p \in Int /\ x \in Int /\ x # NaN /\ p # NaN
      /\ lf.val \in [Slots -> Vals]
      /\ \A j \in 0 .. lf.n - 1 : j \in Slots /\ lf.key[j] \in Int /\ lf.key[j] # NaN
  BY LeafTypes, FeedAssumption, NaNAssumption DEF LeafInv
<1>r. LeafInv(r) /\ r.n = lf.n /\ r.key = lf.key
  <2>1. LeafInv(r)
    BY TradedKeeps
  <2>2. r.n = Walked(lf, stop).n /\ r.key = Walked(lf, stop).key
    BY DEF Traded
  <2> QED BY <2>1, <2>2, WalkedKeeps
<1>v. \A i \in Slots : r.val[i] = w(i)
  BY DEF Traded
<1>W. W = Live(lf)
  BY VisibleWalk
<1>s. \A i \in Live(lf) : i < stop <=> Reached(i)
  BY <1>W, TradeReaches
<1> HIDE DEF r, stop
<1>1. CASE \A i \in 0 .. lf.n - 1 : lf.key[i] # x
  <2>1. LevelAt(r, x) = btree_val_nil /\ LevelAt(lf, x) = btree_val_nil
    BY <1>1, <1>r, GetIs DEF LevelAt, Norm
  <2>2. Norm([btree_val_nil EXCEPT !.q = @ - d]) = btree_val_nil
    BY DEF Norm, btree_val_nil
  <2> QED BY <2>1, <2>2 DEF r
<1>2. ASSUME NEW i \in 0 .. lf.n - 1, lf.key[i] = x
      PROVE  LevelAt(r, x) = IF Better(lf.desc, x, p) THEN btree_val_nil
                             ELSE IF x = p THEN Norm([LevelAt(lf, x) EXCEPT !.q = @ - d])
                             ELSE LevelAt(lf, x)
  <2>1. LevelAt(lf, x) = Norm(lf.val[i]) /\ LevelAt(r, x) = Norm(w(i))
    BY <1>2, <1>r, <1>v, <1>t, GetIs DEF LevelAt
  <2>2. lf.val[i] \in Vals
    BY <1>t
  <2>3. Reached(i) <=> Better(lf.desc, x, p) \/ x = p
    BY <1>2, <1>t DEF Same
  <2>4. CASE i \in Live(lf)
    <3>1. lf.val[i].q > 0
      BY <2>4, LiveIs
    <3>2. w(i) = IF Reached(i)
                 THEN [lf.val[i] EXCEPT !.q = IF x = p THEN @ - d ELSE 0]
                 ELSE lf.val[i]
      BY <2>4, <1>W, <1>s, <1>2, <1>t DEF Same
    <3>3. LevelAt(lf, x) = lf.val[i]
      BY <2>1, <2>2, <3>1 DEF Norm, Vals
    <3>4. ~(x = p /\ Better(lf.desc, x, p))
      BY <1>t DEF Better
    <3> HIDE DEF w
    <3>5. CASE Better(lf.desc, x, p)
      <4>1. w(i) = [lf.val[i] EXCEPT !.q = 0]
        BY <3>2, <3>4, <3>5, <2>3
      <4>2. w(i).q = 0
        BY <4>1, <2>2 DEF Vals
      <4> QED BY <4>2, <2>1, <3>5 DEF Norm
    <3>6. CASE ~Better(lf.desc, x, p)
      BY <3>6, <3>2, <3>3, <2>1, <2>3
    <3> QED BY <3>5, <3>6
  <2>5. CASE i \notin Live(lf)
    <3>1. lf.val[i].q <= 0 /\ w(i) = lf.val[i]
      BY <2>5, <2>2, <1>W DEF Live, btree_val_nil_p
    <3>2. LevelAt(lf, x) = btree_val_nil /\ LevelAt(r, x) = btree_val_nil
      BY <2>1, <3>1 DEF Norm
    <3>3. Norm([btree_val_nil EXCEPT !.q = @ - d]) = btree_val_nil
      BY DEF Norm, btree_val_nil
    <3> QED BY <3>2, <3>3
  <2> QED BY <2>4, <2>5
<1> QED BY <1>1, <1>2 DEF r

\* One side of an expiry: what is not younger than t is gone, and no more.
LEMMA ExpungedContents ==
  ASSUME NEW lf, LeafInv(lf), Visible(lf), NEW W \in Walks(lf),
         NEW t \in Nat, NEW x \in Prices
  PROVE  LevelAt(Expunged(lf, W, t), x) =
           IF LevelAt(lf, x).t <= t THEN btree_val_nil ELSE LevelAt(lf, x)
<1> DEFINE r == Expunged(lf, W, t)
           w(i) == IF i \in W /\ lf.val[i].t <= t THEN btree_val_nil ELSE lf.val[i]
<1>t. /\ lf.n \in Nat /\ lf.val \in [Slots -> Vals]
      /\ \A j \in 0 .. lf.n - 1 : j \in Slots
  BY LeafTypes DEF LeafInv
<1>r. LeafInv(r) /\ r.n = lf.n /\ r.key = lf.key
  BY ExpungedKeeps, WalkedKeeps DEF Expunged
<1>v. \A i \in Slots : r.val[i] = w(i)
  BY DEF Expunged
<1>W. W = Live(lf)
  BY VisibleWalk
<1> HIDE DEF r
<1>1. CASE \A i \in 0 .. lf.n - 1 : lf.key[i] # x
  <2>1. LevelAt(r, x) = btree_val_nil /\ LevelAt(lf, x) = btree_val_nil
    BY <1>1, <1>r, GetIs DEF LevelAt, Norm
  <2> QED BY <2>1 DEF r
<1>2. ASSUME NEW i \in 0 .. lf.n - 1, lf.key[i] = x
      PROVE  LevelAt(r, x) = IF LevelAt(lf, x).t <= t THEN btree_val_nil ELSE LevelAt(lf, x)
  <2>1. LevelAt(lf, x) = Norm(lf.val[i]) /\ LevelAt(r, x) = Norm(w(i))
    BY <1>2, <1>r, <1>v, <1>t, GetIs DEF LevelAt
  <2>2. lf.val[i] \in Vals
    BY <1>t
  <2>3. CASE i \in Live(lf)
    BY <2>1, <2>2, <2>3, <1>W, LiveIs DEF Norm, btree_val_nil
  <2>4. CASE i \notin Live(lf)
    BY <2>1, <2>2, <2>4, <1>W DEF Norm, Live, btree_val_nil_p
  <2> QED BY <2>3, <2>4
<1> QED BY <1>1, <1>2 DEF r

\* For every leaf size and every feed whose trades have no negative quantity:
\* a trade or an expiry on a book whose levels are all visible does to the map
\* exactly what books.h says, on both sides at once. The walk that goes wrong
\* on a book with hidden levels is thus the only thing that can go wrong.
THEOREM VisibleRemovesExactly ==
  ASSUME Trades \subseteq Nat
  PROVE  Spec => RemovesExactly
<1> DEFINE AllSeen == \A s \in Sides : Visible(book[s])
<1>1. ASSUME Inv, AllSeen, NEW p \in Prices, NEW d \in Trades, AddDel(p, d)
      PROVE  Promise!Trade(p, d)
  <2> DEFINE F(s, x) == IF Promise!Ahead(s, x, p) THEN Promise!NoLevel
                        ELSE IF x = p THEN Promise!Norm([Contents[s][x] EXCEPT !.q = @ - d])
                        ELSE Contents[s][x]
  <2>1. PICK A \in Walks(book["ASK"]), B \in Walks(book["BID"]) :
          book' = [book EXCEPT !["ASK"] = Traded(book["ASK"], A, p, d),
                               !["BID"] = Traded(book["BID"], B, p, d)]
    BY <1>1 DEF AddDel
  <2>2. ASSUME NEW s \in Sides, NEW W \in Walks(book[s]), NEW x \in Prices
        PROVE  LevelAt(Traded(book[s], W, p, d), x) = F(s, x)
    <3>1. LeafInv(book[s]) /\ book[s].desc = (s = "BID") /\ Visible(book[s])
      BY <1>1 DEF Inv, BookInv
    <3>2. Better(book[s].desc, x, p) <=> Promise!Ahead(s, x, p)
      BY <3>1, FeedAssumption, NaNAssumption DEF Better, Promise!Ahead
    <3>3. d \in Nat
      OBVIOUS
    <3>4. Contents[s][x] = LevelAt(book[s], x)
      BY ContentsAt
    <3>5. LevelAt(Traded(book[s], W, p, d), x) =
             IF Better(book[s].desc, x, p) THEN btree_val_nil
             ELSE IF x = p THEN Norm([LevelAt(book[s], x) EXCEPT !.q = @ - d])
             ELSE LevelAt(book[s], x)
      BY <3>1, <3>3, TradedContents
    <3> QED BY <3>2, <3>4, <3>5, SameNorm
  <2> HIDE DEF F
  <2>3. Contents' = [s \in Sides |-> [x \in Prices |-> F(s, x)]]
    <3>1. /\ book'["ASK"] = Traded(book["ASK"], A, p, d)
          /\ book'["BID"] = Traded(book["BID"], B, p, d)
      BY <2>1, <1>1 DEF Inv, BookInv, Sides
    <3>2. \A s \in Sides, x \in Prices : LevelAt(book'[s], x) = F(s, x)
      BY <2>2, <3>1 DEF Sides
    <3> QED BY <3>2 DEF Contents
  <2>4. ret' = Echo
    BY <1>1 DEF AddDel
  <2> QED BY <2>3, <2>4 DEF F, Promise!Trade, Promise!Traded, Promise!Sides, Sides
<1>2. ASSUME Inv, AllSeen, NEW t \in Times, book_exp(t)
      PROVE  Promise!Expire(t)
  <2> DEFINE F(s, x) == IF Contents[s][x].t <= t THEN Promise!NoLevel ELSE Contents[s][x]
  <2>t. t \in Nat /\ t # 0 /\ t # NATV
    BY FeedAssumption
  <2>1. PICK A \in Walks(book["ASK"]), B \in Walks(book["BID"]) :
          book' = [book EXCEPT !["ASK"] = Expunged(book["ASK"], A, t),
                               !["BID"] = Expunged(book["BID"], B, t)]
    BY <1>2, <2>t DEF book_exp
  <2>2. ASSUME NEW s \in Sides, NEW W \in Walks(book[s]), NEW x \in Prices
        PROVE  LevelAt(Expunged(book[s], W, t), x) = F(s, x)
    <3>1. LeafInv(book[s]) /\ Visible(book[s])
      BY <1>2 DEF Inv, BookInv
    <3>2. Contents[s][x] = LevelAt(book[s], x)
      BY ContentsAt
    <3>3. LevelAt(Expunged(book[s], W, t), x) =
             IF LevelAt(book[s], x).t <= t THEN btree_val_nil ELSE LevelAt(book[s], x)
      BY <3>1, <2>t, ExpungedContents
    <3> QED BY <3>2, <3>3, SameNorm
  <2> HIDE DEF F
  <2>3. Contents' = [s \in Sides |-> [x \in Prices |-> F(s, x)]]
    <3>1. /\ book'["ASK"] = Expunged(book["ASK"], A, t)
          /\ book'["BID"] = Expunged(book["BID"], B, t)
      BY <2>1, <1>2 DEF Inv, BookInv, Sides
    <3>2. \A s \in Sides, x \in Prices : LevelAt(book'[s], x) = F(s, x)
      BY <2>2, <3>1 DEF Sides
    <3> QED BY <3>2 DEF Contents
  <2>4. UNCHANGED ret
    BY <1>2 DEF book_exp
  <2> QED BY <2>3, <2>4 DEF F, Promise!Expire, Promise!Kept, Promise!Sides, Sides
<1>3. Inv /\ [Next]_vars =>
        [AllSeen => /\ \A p \in Prices, d \in Trades : AddDel(p, d) => Promise!Trade(p, d)
                    /\ \A t \in Times : book_exp(t) => Promise!Expire(t)]_vars
  BY <1>1, <1>2
<1> QED BY <1>3, InitInv, NextInv, PTL DEF Spec, RemovesExactly

=============================================================================
