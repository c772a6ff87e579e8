---------------------------- MODULE ConvertProofs ----------------------------
(***************************************************************************)
(* book2book -2 and -3: whoever reads the lines printed has the book that  *)
(* the program has, and after a top-of-book quote its best prices, for     *)
(* every leaf size and feed.                                               *)
(***************************************************************************)
EXTENDS Convert, BooksProofs

-----------------------------------------------------------------------------
(* The loop that takes levels back one by one.                             *)

\* It keeps a leaf ordered and changes the levels it takes back only.
LEMMA UnwoundKeeps ==
  ASSUME NEW lf, LeafInv(lf), NEW U \in SUBSET Live(lf), NEW stop,
         NEW r, r = Unwound(lf, U, stop)
  PROVE  /\ LeafInv(r) /\ r.desc = lf.desc /\ r.n = lf.n /\ r.key = lf.key
         /\ \A i \in Slots : r.val[i] = IF i \in U THEN btree_val_nil ELSE lf.val[i]
<1> DEFINE w == [i \in Slots |-> IF i \in U THEN btree_val_nil ELSE lf.val[i]]
           m == Walked(lf, stop)
           u == m.used \cup U
<1>t. /\ lf.n \in Nat /\ lf.val \in [Slots -> Vals] /\ NKeys \in Nat
      /\ \A j \in lf.n .. NKeys - 1 : lf.val[j] = btree_val_nil
  BY LeafTypes, NKeysAssumption DEF LeafInv
<1>m. /\ LeafInv(m) /\ m.desc = lf.desc /\ m.n = lf.n /\ m.key = lf.key /\ m.val = lf.val
      /\ m.used \subseteq 0 .. m.n - 1
  <2>1. LeafInv(m) /\ m.desc = lf.desc /\ m.n = lf.n /\ m.key = lf.key /\ m.val = lf.val
    BY WalkedKeeps
  <2> QED BY <2>1, LeafTypes DEF LeafInv
<1>1. r = [desc |-> m.desc, n |-> m.n, used |-> u, key |-> m.key, val |-> w]
  <2>1. m = [desc |-> m.desc, n |-> m.n, used |-> m.used, key |-> m.key, val |-> m.val]
    BY <1>m, LeafRecord
  <2>2. r = [m EXCEPT !.used = u, !.val = [i \in Slots |-> IF i \in U THEN btree_val_nil ELSE m.val[i]]]
    BY DEF Unwound
  <2>3. r = [m EXCEPT !.used = u, !.val = w]
    BY <2>2, <1>m
  <2> HIDE DEF m, u, w
  <2> QED BY <2>1, <2>3
<1>2. w \in [Slots -> Vals]
  BY NilVal, <1>t
<1>3. \A i \in Slots : i >= m.n => w[i] = btree_val_nil
  BY <1>t, <1>m DEF Slots
<1>4. u \subseteq 0 .. m.n - 1
  BY <1>m DEF Live
<1>5. \A i \in Slots : w[i] = IF i \in U THEN btree_val_nil ELSE lf.val[i]
  OBVIOUS
<1> HIDE DEF w, m, u
<1>6. LeafInv(r)
  BY <1>1, <1>2, <1>3, <1>4, <1>m, SameKeysKeep
<1>7. r.desc = m.desc /\ r.n = m.n /\ r.key = m.key /\ r.val = w
  BY <1>1
<1> QED BY <1>5, <1>6, <1>7, <1>m

\* price x of side lf is taken back in r if its level is in U, else left alone
TakenBack(lf, U, x, r) ==
    /\ (\A i \in U : lf.key[i] # x) => LevelAt(r, x) = LevelAt(lf, x)
    /\ \A i \in U : lf.key[i] = x => /\ LevelAt(r, x) = btree_val_nil
                                     /\ LevelAt(lf, x) = lf.val[i]
                                     /\ lf.val[i].q \in Int /\ lf.val[i].q > 0

\* What is left of a side after it.
LEMMA UnwoundContents ==
  ASSUME NEW lf, LeafInv(lf), NEW U \in SUBSET Live(lf), NEW stop, NEW x \in Prices,
         NEW r, r = Unwound(lf, U, stop)
  PROVE  TakenBack(lf, U, x, r)
<1>t. /\ lf.n \in Nat /\ lf.val \in [Slots -> Vals] /\ \A j \in 0 .. lf.n - 1 : j \in Slots
  BY LeafTypes DEF LeafInv
<1>r. /\ LeafInv(r) /\ r.n = lf.n /\ r.key = lf.key
      /\ \A i \in Slots : r.val[i] = IF i \in U THEN btree_val_nil ELSE lf.val[i]
  BY UnwoundKeeps
<1>1. \A i \in 0 .. lf.n - 1 :
         lf.key[i] = x => LevelAt(lf, x) = Norm(lf.val[i]) /\ LevelAt(r, x) = Norm(r.val[i])
  BY <1>r, GetIs DEF LevelAt
<1>2. (\A i \in 0 .. lf.n - 1 : lf.key[i] # x) => LevelAt(r, x) = LevelAt(lf, x)
  BY <1>r, GetIs DEF LevelAt
<1>3. ASSUME \A i \in U : lf.key[i] # x PROVE LevelAt(r, x) = LevelAt(lf, x)
  <2>1. ASSUME NEW i \in 0 .. lf.n - 1, lf.key[i] = x PROVE LevelAt(r, x) = LevelAt(lf, x)
    <3>1. r.val[i] = lf.val[i]
      BY <1>3, <2>1, <1>r, <1>t
    <3> QED BY <2>1, <3>1, <1>1
  <2> QED BY <2>1, <1>2
<1>4. ASSUME NEW i \in U, lf.key[i] = x
      PROVE  /\ LevelAt(r, x) = btree_val_nil /\ LevelAt(lf, x) = lf.val[i]
             /\ lf.val[i].q \in Int /\ lf.val[i].q > 0
  <2>1. i \in 0 .. lf.n - 1 /\ lf.val[i].q > 0
    BY LiveIs
  <2>2. lf.val[i] \in Vals /\ lf.val[i].q \in Int
    BY <2>1, <1>t DEF Vals
  <2>3. r.val[i] = btree_val_nil
    BY <2>1, <1>r, <1>t
  <2>4. Norm(btree_val_nil) = btree_val_nil
    BY DEF Norm
  <2>5. Norm(lf.val[i]) = lf.val[i]
    BY <2>1, <2>2 DEF Norm
  <2> QED BY <1>4, <2>1, <2>2, <2>3, <2>4, <2>5, <1>1
<1> QED BY <1>3, <1>4 DEF TakenBack

\* A reader takes a level back as a whole.
LEMMA TakenOff == \A v \in Int : prq(v, 0, v) = 0
BY SMT DEF prq, NonNegative

\* The reader takes back the same levels: whoever had the right quantity at a
\* price has it still.
LEMMA UnwoundMirrored ==
  ASSUME mode \in {2, 3}, NEW s, LeafInv(book[s]), NEW U \in SUBSET Live(book[s]), NEW stop,
         NEW x \in Prices, mirror[s][x] = LevelAt(book[s], x).q
  PROVE  UnwoundMirror(s, U)[x] = LevelAt(Unwound(book[s], U, stop), x).q
<1> DEFINE lf == book[s]
           r == Unwound(lf, U, stop)
           At == {i \in U : lf.key[i] = x}
<1>1. UnwoundMirror(s, U)[x] = IF At = {} THEN mirror[s][x]
                               ELSE prq(mirror[s][x], 0, lf.val[Min(At)].q)
  BY DEF UnwoundMirror
<1>2. /\ (\A i \in U : lf.key[i] # x) => LevelAt(r, x) = LevelAt(lf, x)
      /\ \A i \in U : lf.key[i] = x => /\ LevelAt(r, x) = btree_val_nil
                                       /\ LevelAt(lf, x) = lf.val[i]
                                       /\ lf.val[i].q \in Int /\ lf.val[i].q > 0
  <2>1. LeafInv(lf) /\ U \in SUBSET Live(lf) /\ r = Unwound(lf, U, stop)
    OBVIOUS
  <2> HIDE DEF lf, r
  <2>2. TakenBack(lf, U, x, r)
    BY <2>1, UnwoundContents
  <2> QED BY <2>2 DEF TakenBack
<1>3. lf.n \in Nat
  BY LeafTypes DEF LeafInv
<1>4. At \in SUBSET Nat
  <2>1. Live(lf) \subseteq 0 .. lf.n - 1
    BY DEF Live
  <2>2. U \subseteq Live(lf)
    OBVIOUS
  <2> HIDE DEF lf
  <2> QED BY <2>1, <2>2, <1>3
<1>5. CASE At = {}
  BY <1>1, <1>2, <1>5
<1>6. CASE At # {}
  <2> DEFINE i == Min(At)
  <2>1. i \in At
    BY <1>4, <1>6, MinOfNats
  <2> HIDE DEF i
  <2> DEFINE v == lf.val[i].q
  <2>a. lf.key[i] = x /\ i \in U
    BY <2>1
  <2> HIDE DEF lf, r
  <2>2. LevelAt(r, x) = btree_val_nil /\ LevelAt(lf, x) = lf.val[i] /\ v \in Int
    BY <2>a, <1>2
  <2> HIDE DEF v
  <2>3. prq(v, 0, v) = 0
    BY <2>2, TakenOff
  <2>4. UnwoundMirror(s, U)[x] = 0
    BY <2>2, <2>3, <1>1, <1>6, Zenon DEF i, v, lf
  <2> QED BY <2>2, <2>4, NilPrice DEF r, lf
<1> QED BY <1>5, <1>6

\* The loop stops right behind the levels that are ahead of the new top.
LEMMA AheadReached ==
  ASSUME NEW lf, LeafInv(lf), NEW p \in Prices,
         NEW stop, stop = Min({i \in Live(lf) : ~AheadOf(lf, i, p)} \cup {lf.n}),
         NEW i \in Live(lf)
  PROVE  AheadOf(lf, i, p) => i < stop
<1> DEFINE S == {j \in Live(lf) : ~AheadOf(lf, j, p)} \cup {lf.n}
<1>t. /\ lf.n \in Nat /\ lf.desc \in BOOLEAN /\ p \in Int /\ p # NaN
      /\ \A j \in 0 .. lf.n - 1 : lf.key[j] \in Int /\ lf.key[j] # NaN
  BY LeafTypes, FeedAssumption, NaNAssumption DEF LeafInv
<1>1. Live(lf) \subseteq 0 .. lf.n - 1
  BY DEF Live
<1>2. S \in SUBSET Nat /\ S # {}
  BY <1>t, <1>1
<1>3. stop \in S
  BY <1>2, MinOfNats
<1> SUFFICES ASSUME AheadOf(lf, i, p), ~(i < stop) PROVE FALSE
  OBVIOUS
<1>4. stop \in Nat /\ i \in 0 .. lf.n - 1 /\ stop <= i
  BY <1>1, <1>2, <1>3
<1>5. stop \in Live(lf) /\ ~AheadOf(lf, stop, p)
  <2>1. stop # lf.n
    BY <1>4, <1>t
  <2> QED BY <2>1, <1>3
<1>6. stop < i
  <2>1. stop # i
    BY <1>5
  <2> QED BY <2>1, <1>4
<1>7. Better(lf.desc, lf.key[stop], lf.key[i])
  BY <1>1, <1>5, <1>6 DEF LeafInv, SortedLeaf
<1>8. lf.key[stop] \in Int /\ lf.key[i] \in Int /\ lf.key[stop] # NaN
  BY <1>1, <1>5, <1>t
<1> DEFINE a == lf.key[stop]
           b == lf.key[i]
<1>9. ~Better(lf.desc, a, p) /\ Better(lf.desc, b, p) /\ Better(lf.desc, a, b)
  BY <1>5, <1>7, Zenon DEF AheadOf
<1>10. a \in Int /\ b \in Int /\ a # NaN
  BY <1>8, Zenon
<1> HIDE DEF a, b
<1> QED BY <1>9, <1>10, <1>t, SMT DEF Better

-----------------------------------------------------------------------------
(* The inductive invariant.                                                *)

ConvKeeps ==
    /\ BookInv
    /\ mode \in {2, 3}
    /\ mirror \in [Sides -> [Prices -> Nat]]

\* A reader has whole quantities, none of them negative.
LEMMA PrintedNat ==
  ASSUME NEW m \in Nat, NEW q \in Int, NEW o \in Int
  PROVE  prq(m, q, o) \in Nat
BY DEF prq, NonNegative

\* the quantity of an old level
LEMMA OldIs ==
  ASSUME NEW lf, LeafInv(lf), NEW p \in Prices, ~Full(lf)
  PROVE  OldLevel(lf, p) = leaf_get(lf, p) /\ OldLevel(lf, p).q \in Int
<1>1. OldLevel(lf, p) = leaf_get(lf, p) /\ OldLevel(lf, p) \in Vals
  <2>1. btree_val_nil \in Vals
    BY NilVal
  <2> QED BY <2>1, PutKeeps
<1> QED BY <1>1 DEF Vals

\* What the reader has on a side after levels of it are taken back.
LEMMA UnwoundMirrorType ==
  ASSUME ConvKeeps, NEW s \in Sides, NEW U \in SUBSET Live(book[s])
  PROVE  UnwoundMirror(s, U) \in [Prices -> Nat]
<1> DEFINE lf == book[s]
           At(p) == {i \in U : lf.key[i] = p}
           f(p) == IF At(p) = {} THEN mirror[s][p]
                   ELSE prq(mirror[s][p], 0, lf.val[Min(At(p))].q)
<1>1. UnwoundMirror(s, U) = [p \in Prices |-> f(p)]
  BY DEF UnwoundMirror
<1>2. /\ lf.n \in Nat /\ lf.val \in [Slots -> Vals] /\ \A j \in 0 .. lf.n - 1 : j \in Slots
  BY LeafTypes DEF LeafInv, ConvKeeps, BookInv
<1>3. U \subseteq 0 .. lf.n - 1
  BY DEF Live
<1>4. ASSUME NEW p \in Prices PROVE f(p) \in Nat
  <2>1. mirror[s][p] \in Nat
    BY DEF ConvKeeps
  <2>2. CASE At(p) = {}
    BY <2>1, <2>2
  <2>3. CASE At(p) # {}
    <3> DEFINE i == Min(At(p))
    <3>1. At(p) \in SUBSET Nat
      <4>1. U \subseteq Nat
        <5> HIDE DEF lf
        <5> QED BY <1>2, <1>3
      <4> QED BY <4>1
    <3>2. i \in At(p)
      BY <2>3, <3>1, MinOfNats
    <3> HIDE DEF i
    <3>3. i \in 0 .. lf.n - 1
      BY <3>2, <1>3
    <3>4. lf.val[i] \in Vals
      <4> HIDE DEF lf
      <4> QED BY <3>3, <1>2
    <3>5. lf.val[i].q \in Int
      BY <3>4 DEF Vals
    <3>6. f(p) = prq(mirror[s][p], 0, lf.val[i].q)
      BY <2>3 DEF i
    <3> DEFINE a == mirror[s][p]
               v == lf.val[i].q
    <3>7. a \in Nat /\ v \in Int /\ f(p) = prq(a, 0, v)
      BY <3>5, <3>6, <2>1
    <3> HIDE DEF f, a, v
    <3>8. prq(a, 0, v) \in Nat
      <4>1. 0 \in Int
        OBVIOUS
      <4> QED BY <3>7, <4>1, PrintedNat
    <3> QED BY <3>7, <3>8
  <2> QED BY <2>2, <2>3
<1> HIDE DEF f
<1> QED BY <1>1, <1>4

\* A line printed for one price.
LEMMA PrintedType ==
  ASSUME ConvKeeps, NEW s \in Sides, NEW p \in Prices, NEW q \in Int, NEW o \in Int
  PROVE  /\ Printed(s, p, q, o) \in [Sides -> [Prices -> Nat]]
         /\ \A x \in Sides, y \in Prices :
               Printed(s, p, q, o)[x][y] = IF x = s /\ y = p THEN prq(mirror[x][y], q, o)
                                           ELSE mirror[x][y]
<1>1. mirror \in [Sides -> [Prices -> Nat]]
  BY DEF ConvKeeps
<1>2. prq(mirror[s][p], q, o) \in Nat
  <2>1. mirror[s][p] \in Nat
    BY <1>1
  <2> QED BY <2>1, PrintedNat
<1>3. Printed(s, p, q, o) = [mirror EXCEPT ![s] = [mirror[s] EXCEPT ![p] = prq(mirror[s][p], q, o)]]
  BY DEF Printed
<1> QED BY <1>1, <1>2, <1>3

\* What a round of the loop for a top-of-book quote does: the levels U are taken
\* back, all the levels ahead of the new top if the iterator sees them.
Lvl1Step(s, p, q, t, U, stop) ==
    /\ Visible(book[s]) => \A i \in Live(book[s]) : AheadOf(book[s], i, p) => i \in U
    /\ mirror' = [mirror EXCEPT ![s] = [UnwoundMirror(s, U) EXCEPT ![p] = prq(@, q, 0)]]
    /\ q >= 0 => ~Full(book[s]) /\ book' = [book EXCEPT ![s] =
                    PutLevel(btree_clr(Unwound(book[s], U, stop)), p, [q |-> q, t |-> t])]
    /\ ~(q >= 0) => book' = [book EXCEPT ![s] = Unwound(book[s], U, stop)]

LEMMA Lvl1Is ==
  ASSUME ConvKeeps, NEW s \in Sides, NEW p \in Prices, NEW q \in Int, NEW t \in Nat,
         ConvLvl1(s, p, q, t)
  PROVE  \E U \in SUBSET Live(book[s]), stop \in Nat : Lvl1Step(s, p, q, t, U, stop)
<1> DEFINE lf == book[s]
<1>0. LeafInv(lf)
  BY DEF ConvKeeps, BookInv
<1>1. PICK W \in Walks(lf) :
        LET stop == Min({i \in W : ~AheadOf(lf, i, p)} \cup {lf.n})
            U    == {i \in W : i < stop}
            u    == Unwound(lf, U, stop)
            o    == IF q >= 0 THEN OldLevel(btree_clr(u), p) ELSE btree_val_nil
            m    == UnwoundMirror(s, U)
        IN  /\ U # {} \/ q >= 0 => ~Full(lf)
            /\ book' = [book EXCEPT ![s] =
                           IF q >= 0 THEN PutLevel(btree_clr(u), p, [q |-> q, t |-> t]) ELSE u]
            /\ mirror' = [mirror EXCEPT ![s] = [m EXCEPT ![p] = prq(@, q, o.q)]]
  BY DEF ConvLvl1
<1> DEFINE stop == Min({i \in W : ~AheadOf(lf, i, p)} \cup {lf.n})
           U    == {i \in W : i < stop}
           u    == Unwound(lf, U, stop)
           o    == IF q >= 0 THEN OldLevel(btree_clr(u), p) ELSE btree_val_nil
           m    == UnwoundMirror(s, U)
<1>2. /\ U # {} \/ q >= 0 => ~Full(lf)
      /\ book' = [book EXCEPT ![s] =
                     IF q >= 0 THEN PutLevel(btree_clr(u), p, [q |-> q, t |-> t]) ELSE u]
      /\ mirror' = [mirror EXCEPT ![s] = [m EXCEPT ![p] = prq(@, q, o.q)]]
  BY <1>1
<1>3. W \subseteq Live(lf)
  BY WalksAreLive
<1>4. U \in SUBSET Live(lf) /\ U \subseteq W
  BY <1>3
<1>5. stop \in Nat
  <2> DEFINE S == {i \in W : ~AheadOf(lf, i, p)} \cup {lf.n}
  <2>1. lf.n \in Nat /\ Live(lf) \subseteq 0 .. lf.n - 1
    BY <1>0, LeafTypes DEF LeafInv, Live
  <2>2. S \in SUBSET Nat /\ S # {}
    <3> HIDE DEF lf
    <3> QED BY <2>1, <1>3
  <2> HIDE DEF S
  <2>3. Min(S) \in Nat
    BY <2>2, MinOfNats
  <2> QED BY <2>3 DEF S
<1>6. ASSUME Visible(lf), NEW i \in Live(lf), AheadOf(lf, i, p) PROVE i \in U
  <2>1. W = Live(lf)
    BY <1>6, VisibleWalk
  <2>2. i < stop
    <3>1. stop = Min({j \in Live(lf) : ~AheadOf(lf, j, p)} \cup {lf.n})
      BY <2>1
    <3> HIDE DEF stop, lf
    <3> QED BY <1>0, <1>6, <3>1, AheadReached
  <2> QED BY <2>1, <2>2
<1>7. u = Unwound(lf, U, stop)
  OBVIOUS
<1> HIDE DEF stop, U, u, lf
<1>8. o.q = 0
  <2>1. CASE q >= 0
    <3> DEFINE c == btree_clr(u)
    <3>1. LeafInv(u) /\ u.n = lf.n
      BY <1>0, <1>4, <1>7, UnwoundKeeps
    <3>2. LeafInv(c) /\ c.n = u.n /\ LevelAt(c, p) = btree_val_nil
      BY <3>1, ClrKeeps, ClrContents
    <3>3. \A i \in Slots : c.val[i] = btree_val_nil
      BY <3>1, ClrKeeps
    <3> HIDE DEF c
    <3>4. ~Full(c)
      BY <2>1, <3>1, <3>2, <1>2 DEF Full
    <3>5. OldLevel(c, p) = leaf_get(c, p)
      BY <3>2, <3>4, OldIs
    <3>6. c.n \in Nat /\ \A i \in 0 .. c.n - 1 : i \in Slots
      BY <3>2, LeafTypes DEF LeafInv
    <3>7. leaf_get(c, p) = btree_val_nil
      BY <3>2, <3>3, <3>6, GetIs
    <3> QED BY <2>1, <3>5, <3>7, NilPrice DEF c
  <2>2. CASE ~(q >= 0)
    BY <2>2, NilPrice
  <2> QED BY <2>1, <2>2
<1> HIDE DEF o
<1>9. mirror' = [mirror EXCEPT ![s] = [m EXCEPT ![p] = prq(@, q, 0)]]
  BY <1>2, <1>8
<1>10. /\ Visible(lf) => \A i \in Live(lf) : AheadOf(lf, i, p) => i \in U
       /\ q >= 0 => ~Full(lf) /\ book' = [book EXCEPT ![s] =
                        PutLevel(btree_clr(Unwound(lf, U, stop)), p, [q |-> q, t |-> t])]
       /\ ~(q >= 0) => book' = [book EXCEPT ![s] = Unwound(lf, U, stop)]
  BY <1>2, <1>6, <1>7
<1>11. Lvl1Step(s, p, q, t, U, stop)
  BY <1>9, <1>10, Zenon DEF Lvl1Step, lf, m
<1> QED BY <1>4, <1>5, <1>11, Zenon DEF lf

-----------------------------------------------------------------------------
(* The lines, one after the other.                                         *)

\* the quantity at a price of a leaf
LEMMA NormIs ==
  ASSUME NEW q \in Int, NEW t
  PROVE  Norm([q |-> q, t |-> t]).q = NonNegative(q)
BY DEF Norm, NonNegative, btree_val_nil

\* What the reader is compared with.
LEMMA FollowsIs == Follows <=> \A s \in Sides, p \in Prices : mirror[s][p] = LevelAt(book[s], p).q
BY DEF Follows, Contents

\* A level that is not overdrawn is looked up as it is.
LEMMA LookedUp ==
  ASSUME NEW lf, LeafInv(lf), NEW p \in Prices, \A i \in Slots : lf.val[i].q >= 0
  PROVE  LevelAt(lf, p).q = leaf_get(lf, p).q
<1>1. /\ lf.n \in Nat /\ lf.val \in [Slots -> Vals] /\ \A j \in 0 .. lf.n - 1 : j \in Slots
  BY LeafTypes DEF LeafInv
<1>2. CASE \A i \in 0 .. lf.n - 1 : lf.key[i] # p
  <2>1. leaf_get(lf, p) = btree_val_nil
    BY <1>2, GetIs
  <2> QED BY <2>1 DEF LevelAt, Norm
<1>3. ASSUME NEW i \in 0 .. lf.n - 1, lf.key[i] = p PROVE LevelAt(lf, p).q = leaf_get(lf, p).q
  <2>1. leaf_get(lf, p) = lf.val[i] /\ lf.val[i] \in Vals /\ lf.val[i].q >= 0
    BY <1>1, <1>3, GetIs
  <2>2. lf.val[i].q \in Int /\ btree_val_nil.q = 0
    BY <2>1 DEF Vals, btree_val_nil
  <2> QED BY <2>1, <2>2 DEF LevelAt, Norm
<1> QED BY <1>2, <1>3

\* A total or a change at one price, with o there before.
LEMMA LineKeeps ==
  ASSUME ConvKeeps, UNCHANGED mode, NEW s \in Sides, NEW p \in Prices, ~Full(book[s]),
         NEW q \in Int, NEW c \in Int, NEW t \in Nat, NEW o, o = OldLevel(book[s], p).q,
         NEW v, v = [q |-> c, t |-> t], NEW r, r = PutLevel(book[s], p, v),
         book' = [book EXCEPT ![s] = r], mirror' = Printed(s, p, q, o)
  PROVE  /\ ConvKeeps'
         /\ /\ Follows
            /\ NonNegative(c) = NonNegative(q)
            /\ mode = 3 => LevelAt(book[s], p).q = o
            => Follows'
<1> DEFINE lf == book[s]
<1>0. LeafInv(lf) /\ ~Full(lf) /\ o = OldLevel(lf, p).q /\ r = PutLevel(lf, p, v) /\ BookInv
  BY DEF ConvKeeps, BookInv
<1>1. v \in Vals
  BY DEF Vals
<1>2. o \in Int
  <2> HIDE DEF lf
  <2> QED BY <1>0, OldIs
<1>3. /\ BookInv'
      /\ \A x \in Sides, y \in Prices :
            LevelAt(book'[x], y) = IF x = s /\ y = p THEN Norm(v) ELSE LevelAt(book[x], y)
  <2>1. \A x \in Sides : book'[x] = IF x = s THEN r ELSE book[x]
    BY <1>0 DEF BookInv
  <2> HIDE DEF lf
  <2>2. LeafInv(r) /\ r.desc = lf.desc
    BY <1>0, <1>1, PutKeeps
  <2>3. \A y \in Prices : LevelAt(r, y) = IF y = p THEN Norm(v) ELSE LevelAt(lf, y)
    BY <1>0, <1>1, PutContents
  <2>4. BookInv'
    BY <1>0, <2>2, OneSideKeeps DEF lf
  <2> QED BY <2>1, <2>3, <2>4 DEF lf
<1>4. /\ mirror' \in [Sides -> [Prices -> Nat]]
      /\ \A x \in Sides, y \in Prices :
            mirror'[x][y] = IF x = s /\ y = p THEN prq(mirror[x][y], q, o) ELSE mirror[x][y]
  BY <1>2, PrintedType
<1>5. ConvKeeps'
  BY <1>3, <1>4 DEF ConvKeeps
<1>6. ASSUME Follows, NonNegative(c) = NonNegative(q), mode = 3 => LevelAt(book[s], p).q = o,
             NEW x \in Sides, NEW y \in Prices
      PROVE  mirror'[x][y] = LevelAt(book'[x], y).q
  <2>1. mirror[x][y] = LevelAt(book[x], y).q
    BY <1>6, FollowsIs
  <2>2. CASE ~(x = s /\ y = p)
    <3>1. LevelAt(book'[x], y) = LevelAt(book[x], y)
      BY <2>2, <1>3
    <3>2. mirror'[x][y] = mirror[x][y]
      BY <2>2, <1>4
    <3> QED BY <2>1, <3>1, <3>2
  <2>3. CASE x = s /\ y = p
    <3>1. LevelAt(book'[x], y).q = NonNegative(q)
      BY <2>3, <1>3, <1>6, NormIs
    <3>2. mode = 2 \/ mode = 3
      BY DEF ConvKeeps
    <3>3. mirror[x][y] \in Nat
      BY DEF ConvKeeps
    <3>4. prq(mirror[x][y], q, o) = NonNegative(q)
      <4>1. CASE mode = 2
        BY <4>1 DEF prq
      <4>2. CASE mode = 3
        <5>1. mirror[x][y] = o
          BY <2>1, <2>3, <4>2, <1>6
        <5>2. o + (q - o) = q
          BY <1>2
        <5> QED BY <4>2, <5>1, <5>2 DEF prq
      <4> QED BY <3>2, <4>1, <4>2
    <3> QED BY <2>3, <3>1, <3>4, <1>4
  <2> QED BY <2>2, <2>3
<1>7. ASSUME Follows, NonNegative(c) = NonNegative(q), mode = 3 => LevelAt(book[s], p).q = o
      PROVE  Follows'
  BY <1>6, <1>7 DEF Follows, Contents
<1> QED BY <1>5, <1>7

\* A level-2 quote.
LEMMA Lvl2Keeps ==
  ASSUME ConvKeeps, UNCHANGED mode, NEW s \in Sides, NEW p \in Prices, NEW q \in Int, NEW t \in Nat,
         ConvLvl2(s, p, q, t)
  PROVE  ConvKeeps' /\ (Follows /\ (mode = 3 => ~Overdrawn) => Follows')
<1> DEFINE o == OldLevel(book[s], p).q
           v == [q |-> q, t |-> t]
           r == PutLevel(book[s], p, v)
<1>1. /\ ~Full(book[s]) /\ book' = [book EXCEPT ![s] = r] /\ mirror' = Printed(s, p, q, o)
      /\ r = PutLevel(book[s], p, v) /\ v = [q |-> q, t |-> t] /\ o = OldLevel(book[s], p).q
  BY DEF ConvLvl2, AddLvl2
<1> HIDE DEF o, v, r
<1>2. /\ ConvKeeps'
      /\ /\ Follows
         /\ NonNegative(q) = NonNegative(q)
         /\ mode = 3 => LevelAt(book[s], p).q = o
         => Follows'
  BY <1>1, LineKeeps
<1>3. ASSUME ~Overdrawn PROVE LevelAt(book[s], p).q = o
  <2> DEFINE lf == book[s]
  <2>1. LeafInv(lf) /\ ~Full(lf) /\ o = OldLevel(lf, p).q
    BY <1>1 DEF ConvKeeps, BookInv
  <2>2. \A i \in Slots : lf.val[i] \in Vals
    BY <2>1, LeafTypes DEF LeafInv
  <2>3. \A i \in Slots : lf.val[i].q >= 0
    BY <1>3, <2>2 DEF Overdrawn, Vals
  <2> HIDE DEF lf
  <2>4. OldLevel(lf, p) = leaf_get(lf, p)
    BY <2>1, OldIs
  <2>5. LevelAt(lf, p).q = leaf_get(lf, p).q
    BY <2>1, <2>3, LookedUp
  <2> QED BY <2>1, <2>4, <2>5 DEF lf
<1> QED BY <1>2, <1>3

\* A level-3 quote.
LEMMA Lvl3Keeps ==
  ASSUME ConvKeeps, UNCHANGED mode, NEW s \in Sides, NEW p \in Prices, NEW d \in Int, NEW t \in Nat,
         ConvLvl3(s, p, d, t)
  PROVE  ConvKeeps' /\ (Follows /\ OldLevel(book[s], p).q = 0 => Follows')
<1> DEFINE o == OldLevel(book[s], p).q
           c == IF o + d >= 0 THEN o + d ELSE 0
           v == [q |-> c, t |-> t]
           r == PutLevel(book[s], p, v)
<1>1. /\ ~Full(book[s]) /\ book' = [book EXCEPT ![s] = r] /\ mirror' = Printed(s, p, d, o)
      /\ r = PutLevel(book[s], p, v) /\ v = [q |-> c, t |-> t] /\ o = OldLevel(book[s], p).q
  BY DEF ConvLvl3, AddLvl3
<1>2. LeafInv(book[s])
  BY DEF ConvKeeps, BookInv
<1>3. o \in Int /\ OldLevel(book[s], p) = leaf_get(book[s], p)
  BY <1>1, <1>2, OldIs
<1>4. c \in Int /\ (o = 0 => NonNegative(c) = NonNegative(d))
  BY <1>3 DEF NonNegative
<1>5. o = 0 => LevelAt(book[s], p).q = o
  BY <1>3 DEF LevelAt, Norm, btree_val_nil
<1>6. o = OldLevel(book[s], p).q
  OBVIOUS
<1> HIDE DEF o, v, r, c
<1>7. /\ ConvKeeps'
      /\ /\ Follows
         /\ NonNegative(c) = NonNegative(d)
         /\ mode = 3 => LevelAt(book[s], p).q = o
         => Follows'
  BY <1>1, <1>4, LineKeeps
<1> QED BY <1>4, <1>5, <1>6, <1>7

\* A clear, taken back on both sides.
LEMMA ClrLineKeeps ==
  ASSUME ConvKeeps, UNCHANGED mode, ConvClr
  PROVE  ConvKeeps' /\ (Follows => Follows')
<1>1. PICK A \in Walks(book["ASK"]), B \in Walks(book["BID"]) :
        LET U == [s \in Sides |-> IF s = "ASK" THEN A ELSE B]
        IN  /\ book' = [s \in Sides |-> Unwound(book[s], U[s], book[s].n)]
            /\ mirror' = [s \in Sides |-> UnwoundMirror(s, U[s])]
  BY DEF ConvClr
<1> DEFINE U == [s \in Sides |-> IF s = "ASK" THEN A ELSE B]
           f == [s \in Sides |-> Unwound(book[s], U[s], book[s].n)]
           g == [s \in Sides |-> UnwoundMirror(s, U[s])]
<1>2. book' = f /\ mirror' = g
  BY <1>1
<1>3. \A s \in Sides : U[s] \in SUBSET Live(book[s])
  <2>1. A \in SUBSET Live(book["ASK"]) /\ B \in SUBSET Live(book["BID"])
    BY WalksAreLive
  <2> QED BY <2>1 DEF Sides
<1>4. \A s \in Sides : f[s] = Unwound(book[s], U[s], book[s].n) /\ g[s] = UnwoundMirror(s, U[s])
  OBVIOUS
<1>5. \A s \in Sides : LeafInv(book[s])
  BY DEF ConvKeeps, BookInv
<1>6. f = [s \in Sides |-> f[s]] /\ g = [s \in Sides |-> g[s]]
  OBVIOUS
<1> HIDE DEF U, f, g
<1>7. ASSUME NEW s \in Sides PROVE LeafInv(f[s]) /\ f[s].desc = book[s].desc
  <2> DEFINE lf == book[s]
             V == U[s]
             n == book[s].n
             r == f[s]
  <2>1. LeafInv(lf) /\ V \in SUBSET Live(lf) /\ r = Unwound(lf, V, n)
    BY <1>3, <1>4, <1>5
  <2> HIDE DEF lf, V, n, r
  <2>2. LeafInv(r) /\ r.desc = lf.desc
    BY <2>1, UnwoundKeeps
  <2> QED BY <2>2 DEF lf, r
<1>8. \A s \in Sides : g[s] \in [Prices -> Nat]
  BY <1>3, <1>4, UnwoundMirrorType
<1>9. ConvKeeps'
  <2>1. BookInv
    BY DEF ConvKeeps
  <2>2. BookInv'
    BY <2>1, <1>2, <1>6, <1>7, BothSidesKeep
  <2>3. mirror' \in [Sides -> [Prices -> Nat]]
    BY <1>2, <1>6, <1>8
  <2> QED BY <2>2, <2>3 DEF ConvKeeps
<1>10. ASSUME Follows PROVE Follows'
  <2>1. ASSUME NEW s \in Sides, NEW x \in Prices PROVE g[s][x] = LevelAt(f[s], x).q
    <3>1. mirror[s][x] = LevelAt(book[s], x).q
      BY <1>10, FollowsIs
    <3>2. mode \in {2, 3}
      BY DEF ConvKeeps
    <3> DEFINE V == U[s]
               n == book[s].n
    <3>3. V \in SUBSET Live(book[s]) /\ f[s] = Unwound(book[s], V, n) /\ g[s] = UnwoundMirror(s, V)
      BY <1>3, <1>4
    <3> HIDE DEF V, n
    <3>4. UnwoundMirror(s, V)[x] = LevelAt(Unwound(book[s], V, n), x).q
      BY <3>1, <3>2, <3>3, <1>5, UnwoundMirrored
    <3> QED BY <3>3, <3>4
  <2> QED BY <2>1, <1>2 DEF Follows, Contents
<1> QED BY <1>9, <1>10

\* A trade, on both sides.
LEMMA DelKeeps ==
  ASSUME ConvKeeps, UNCHANGED mode, NEW p \in Prices, NEW d \in Int, ConvDel(p, d)
  PROVE  ConvKeeps' /\ (d \in Nat /\ Follows /\ mode = 2 /\ AllVisible => Follows')
<1> DEFINE e == IF mode = 2 THEN d ELSE d - d
           F(s, x) == IF Better(s = "BID", x, p) THEN 0
                      ELSE IF x = p THEN NonNegative(mirror[s][x] - e) ELSE mirror[s][x]
<1>1. mirror' = [s \in Sides |-> [x \in Prices |-> F(s, x)]]
  BY DEF ConvDel
<1>2. PICK A \in Walks(book["ASK"]), B \in Walks(book["BID"]) :
          book' = [book EXCEPT !["ASK"] = Traded(book["ASK"], A, p, d),
                               !["BID"] = Traded(book["BID"], B, p, d)]
  BY DEF ConvDel, AddDel
<1> DEFINE f == [s \in Sides |-> IF s = "ASK" THEN Traded(book["ASK"], A, p, d)
                                 ELSE Traded(book["BID"], B, p, d)]
           W == [s \in Sides |-> IF s = "ASK" THEN A ELSE B]
<1>3. \A s \in Sides : /\ W[s] \in Walks(book[s]) /\ f[s] = Traded(book[s], W[s], p, d)
                       /\ LeafInv(book[s]) /\ book[s].desc = (s = "BID")
  BY DEF Sides, ConvKeeps, BookInv
<1>4. book' = [s \in Sides |-> f[s]]
  BY <1>2 DEF ConvKeeps, BookInv, Sides
<1> HIDE DEF f, W
<1>5. ASSUME NEW s \in Sides
      PROVE  LeafInv(f[s]) /\ f[s].desc = book[s].desc
  BY <1>3, TradedKeeps
<1>6. BookInv'
  <2>1. BookInv
    BY DEF ConvKeeps
  <2> QED BY <2>1, <1>4, <1>5, BothSidesKeep
<1>7. e \in Int /\ (mode = 2 => e = d)
  OBVIOUS
<1> HIDE DEF e
<1>8. \A s \in Sides, x \in Prices : F(s, x) \in Nat
  <2>1. \A s \in Sides, x \in Prices : mirror[s][x] \in Nat
    BY DEF ConvKeeps
  <2> QED BY <2>1, <1>7 DEF NonNegative
<1> HIDE DEF F
<1>9. mirror' \in [Sides -> [Prices -> Nat]]
  BY <1>1, <1>8
<1>10. ASSUME d \in Nat, Follows, mode = 2, AllVisible, NEW s \in Sides, NEW x \in Prices
       PROVE  mirror'[s][x] = LevelAt(book'[s], x).q
  <2> DEFINE lf == book[s]
             V == W[s]
             v == LevelAt(lf, x)
             r == Traded(lf, V, p, d)
  <2>1. LeafInv(lf) /\ Visible(lf) /\ V \in Walks(lf) /\ lf.desc = (s = "BID")
    BY <1>3, <1>10 DEF AllVisible
  <2>2. mirror[s][x] = v.q /\ mirror[s][x] \in Nat
    BY <1>10, FollowsIs DEF ConvKeeps
  <2>3. book'[s] = r
    BY <1>3, <1>4
  <2>4. mirror'[s][x] = F(s, x)
    BY <1>1
  <2>5. F(s, x) = IF Better(lf.desc, x, p) THEN 0
                  ELSE IF x = p THEN NonNegative(v.q - d) ELSE v.q
    BY <1>7, <1>10, <2>1, <2>2 DEF F
  <2>6. r = Traded(lf, V, p, d) /\ v = LevelAt(lf, x)
    OBVIOUS
  <2> HIDE DEF lf, V
  <2>7. r = Traded(lf, V, p, d) /\ LevelAt(r, x) =
          IF Better(lf.desc, x, p) THEN btree_val_nil
          ELSE IF x = p THEN Norm([v EXCEPT !.q = @ - d]) ELSE v
    BY <1>10, <2>1, TradedContents
  <2>8. v \in Vals
    <3>1. lf.n \in Nat /\ lf.val \in [Slots -> Vals] /\ \A j \in 0 .. lf.n - 1 : j \in Slots
      BY <2>1, LeafTypes DEF LeafInv
    <3>2. CASE \A i \in 0 .. lf.n - 1 : lf.key[i] # x
      BY <3>2, <2>1, GetIs, NilVal DEF LevelAt, Norm
    <3>3. ASSUME NEW i \in 0 .. lf.n - 1, lf.key[i] = x PROVE v \in Vals
      <4>1. leaf_get(lf, x) = lf.val[i] /\ lf.val[i] \in Vals
        BY <3>1, <3>3, <2>1, GetIs
      <4> QED BY <4>1, NilVal DEF LevelAt, Norm
    <3> QED BY <3>2, <3>3
  <2> HIDE DEF r, v
  <2>9. Norm([v EXCEPT !.q = @ - d]).q = NonNegative(v.q - d)
    <3>1. v.q \in Int /\ v = [q |-> v.q, t |-> v.t]
      BY <2>8 DEF Vals
    <3>2. [v EXCEPT !.q = @ - d] = [q |-> v.q - d, t |-> v.t] /\ v.q - d \in Int
      BY <3>1
    <3> QED BY <3>2, NormIs
  <2>10. LevelAt(r, x).q = F(s, x)
    <3>1. btree_val_nil.q = 0
      BY NilPrice
    <3> QED BY <3>1, <2>5, <2>7, <2>9
  <2> QED BY <2>3, <2>4, <2>10
<1>11. ASSUME d \in Nat, Follows, mode = 2, AllVisible PROVE Follows'
  BY <1>10, <1>11 DEF Follows, Contents
<1> QED BY <1>6, <1>9, <1>11 DEF ConvKeeps

\* A top-of-book quote.
LEMMA Lvl1Keeps ==
  ASSUME ConvKeeps, UNCHANGED mode, NEW s \in Sides, NEW p \in Prices, NEW q \in Int, NEW t \in Nat,
         ConvLvl1(s, p, q, t)
  PROVE  ConvKeeps'
<1>1. PICK U \in SUBSET Live(book[s]), stop \in Nat :
        /\ mirror' = [mirror EXCEPT ![s] = [UnwoundMirror(s, U) EXCEPT ![p] = prq(@, q, 0)]]
        /\ q >= 0 => ~Full(book[s]) /\ book' = [book EXCEPT ![s] =
                        PutLevel(btree_clr(Unwound(book[s], U, stop)), p, [q |-> q, t |-> t])]
        /\ ~(q >= 0) => book' = [book EXCEPT ![s] = Unwound(book[s], U, stop)]
  <2>1. PICK U \in SUBSET Live(book[s]), stop \in Nat : Lvl1Step(s, p, q, t, U, stop)
    BY Lvl1Is, Zenon
  <2> QED BY <2>1, Zenon DEF Lvl1Step
<1> DEFINE lf == book[s]
           u == Unwound(lf, U, stop)
           c == btree_clr(u)
           v == [q |-> q, t |-> t]
           w == PutLevel(c, p, v)
           m == UnwoundMirror(s, U)
<1>2. LeafInv(lf) /\ u = Unwound(lf, U, stop) /\ U \in SUBSET Live(lf) /\ v \in Vals
  BY DEF ConvKeeps, BookInv, Vals
<1>3. /\ q >= 0 => ~Full(lf) /\ book' = [book EXCEPT ![s] = w]
      /\ ~(q >= 0) => book' = [book EXCEPT ![s] = u]
  BY <1>1
<1>4. mirror' \in [Sides -> [Prices -> Nat]]
  <2>1. m \in [Prices -> Nat]
    BY UnwoundMirrorType
  <2>2. mirror' = [mirror EXCEPT ![s] = [m EXCEPT ![p] = prq(m[p], q, 0)]]
    BY <1>1
  <2> HIDE DEF m
  <2>3. prq(m[p], q, 0) \in Nat
    <3> DEFINE a == m[p]
    <3>1. a \in Nat /\ 0 \in Int
      BY <2>1
    <3> HIDE DEF a
    <3>2. prq(a, q, 0) \in Nat
      BY <3>1, PrintedNat
    <3> QED BY <3>2 DEF a
  <2> QED BY <2>1, <2>2, <2>3 DEF ConvKeeps
<1> HIDE DEF lf, u, v
<1>5. LeafInv(u) /\ u.n = lf.n /\ u.desc = lf.desc
  BY <1>2, UnwoundKeeps
<1>6. LeafInv(c) /\ c.n = u.n /\ c.desc = u.desc
  BY <1>5, ClrKeeps
<1> HIDE DEF c
<1>7. q >= 0 => LeafInv(w) /\ w.desc = c.desc
  <2> SUFFICES ASSUME q >= 0 PROVE LeafInv(w) /\ w.desc = c.desc
    OBVIOUS
  <2>1. ~Full(c)
    BY <1>3, <1>5, <1>6 DEF Full
  <2> QED BY <2>1, <1>2, <1>6, PutKeeps
<1> HIDE DEF w
<1>8. BookInv'
  <2>1. BookInv /\ lf = book[s]
    BY DEF ConvKeeps, lf
  <2> DEFINE r == IF q >= 0 THEN w ELSE u
  <2>2. LeafInv(r) /\ r.desc = book[s].desc /\ book' = [book EXCEPT ![s] = r]
    BY <2>1, <1>3, <1>5, <1>6, <1>7
  <2> HIDE DEF r
  <2> QED BY <2>1, <2>2, OneSideKeeps
<1> QED BY <1>4, <1>8 DEF ConvKeeps

\* A refused quote changes what the reader has and nothing else.
LEMMA InvKeeps ==
  ASSUME ConvKeeps, UNCHANGED mode, NEW s \in Sides, NEW p \in Prices, NEW q \in Int,
         ConvInv(s, p, q)
  PROVE  ConvKeeps'
<1>1. mirror' = Printed(s, p, q, 0) /\ book' = book
  BY DEF ConvInv, AddInv
<1>2. mirror' \in [Sides -> [Prices -> Nat]]
  <2>1. 0 \in Int
    OBVIOUS
  <2> QED BY <2>1, <1>1, PrintedType
<1> QED BY <1>1, <1>2 DEF ConvKeeps, BookInv

\* A top-of-book quote without a price clears its side.
LEMMA Lvl1NaNKeeps ==
  ASSUME ConvKeeps, UNCHANGED mode, NEW s \in Sides, NEW q, ConvLvl1NaN(s, q)
  PROVE  ConvKeeps'
<1>0. PICK stop : book' = [book EXCEPT ![s] = btree_clr(Walked(@, stop))] /\ mirror' = mirror
  BY DEF ConvLvl1NaN
<1> DEFINE w == Walked(book[s], stop)
           r == btree_clr(w)
<1>1. book' = [book EXCEPT ![s] = r] /\ mirror' = mirror
  BY <1>0
<1>2. LeafInv(r) /\ r.desc = book[s].desc /\ BookInv
  <2>1. LeafInv(book[s]) /\ BookInv
    BY DEF ConvKeeps, BookInv
  <2>2. LeafInv(w) /\ w.desc = book[s].desc
    BY <2>1, WalkedKeeps
  <2> HIDE DEF w
  <2> QED BY <2>1, <2>2, ClrKeeps
<1> HIDE DEF r
<1>3. BookInv'
  BY <1>1, <1>2, OneSideKeeps
<1> QED BY <1>1, <1>3 DEF ConvKeeps

\* The feed is made of numbers.
LEMMA FeedTypes ==
  /\ \A s \in QuoteSides : s \in Sides /\ \A p \in QuotePrices[s] : p \in Prices
  /\ \A q \in Qtys : q \in Int
  /\ \A q \in Tops : q \in Int
  /\ \A d \in Incs : d \in Int
  /\ \A d \in Trades : d \in Int
  /\ \A t \in Times : t \in Nat
BY FeedAssumption, QuoteSide, QuotePrice DEF Tops

\* book2book's invariant: both sides are ordered leaves, and the reader's
\* quantities are not negative.
LEMMA ConvInvariant == ConvSpec => []ConvKeeps
<1>1. ConvInit => ConvKeeps
  <2> SUFFICES ASSUME ConvInit PROVE ConvKeeps
    OBVIOUS
  <2>1. BookInv
    BY InitInv DEF ConvInit, Inv
  <2> QED BY <2>1 DEF ConvInit, ConvKeeps
<1>2. ConvKeeps /\ [ConvNext]_cvars => ConvKeeps'
  <2> SUFFICES ASSUME ConvKeeps, [ConvNext]_cvars PROVE ConvKeeps'
    OBVIOUS
  <2>1. CASE UNCHANGED cvars
    BY <2>1 DEF cvars, vars, ConvKeeps, BookInv
  <2>2. CASE ConvNext
    <3>0. UNCHANGED mode
      BY <2>2 DEF ConvNext
    <3>1. ASSUME NEW s \in QuoteSides, NEW t \in Times, NEW p \in QuotePrices[s], NEW q \in Tops,
                 ConvLvl1(s, p, q, t)
          PROVE  ConvKeeps'
      BY <3>0, <3>1, FeedTypes, Lvl1Keeps
    <3>2. ASSUME NEW s \in QuoteSides, NEW t \in Times, NEW p \in QuotePrices[s], NEW q \in Qtys,
                 ConvLvl2(s, p, q, t)
          PROVE  ConvKeeps'
      BY <3>0, <3>2, FeedTypes, Lvl2Keeps
    <3>3. ASSUME NEW s \in QuoteSides, NEW t \in Times, NEW p \in QuotePrices[s], NEW d \in Incs,
                 ConvLvl3(s, p, d, t)
          PROVE  ConvKeeps'
      BY <3>0, <3>3, FeedTypes, Lvl3Keeps
    <3>4. ASSUME NEW s \in QuoteSides, NEW q \in Qtys, ConvLvl1NaN(s, q)
          PROVE  ConvKeeps'
      BY <3>0, <3>4, FeedTypes, Lvl1NaNKeeps
    <3>5. ASSUME NEW s \in QuoteSides, NEW q \in Qtys, NEW p \in QuotePrices[s], ConvInv(s, p, q)
          PROVE  ConvKeeps'
      BY <3>0, <3>5, FeedTypes, InvKeeps
    <3>6. CASE ConvClr
      BY <3>0, <3>6, ClrLineKeeps
    <3>7. ASSUME NEW p \in Prices, NEW d \in Trades, ConvDel(p, d)
          PROVE  ConvKeeps'
      BY <3>0, <3>7, FeedTypes, DelKeeps
    <3> QED BY <2>2, <3>1, <3>2, <3>3, <3>4, <3>5, <3>6, <3>7 DEF ConvNext
  <2> QED BY <2>1, <2>2
<1> QED BY <1>1, <1>2, PTL DEF ConvSpec

-----------------------------------------------------------------------------
(* What the reader has.                                                    *)

\* book2book's main loop with prq2 and prq3: whoever reads the lines and has
\* the book still has it after the next total, clear, new level or, with -2
\* and if the iterator sees all levels, trade.
THEOREM OutputAlwaysFollows ==
  ASSUME Trades \subseteq Nat
  PROVE  ConvSpec => OutputFollows
<1> DEFINE Pre == /\ Follows
                  /\ ~TopQuoted /\ ~Refused /\ ~Changed
                  /\ Traded2 => mode = 2 /\ AllVisible
                  /\ mode = 3 => ~Overdrawn
<1>1. ConvKeeps /\ [ConvNext]_cvars => [Pre => Follows']_cvars
  <2> SUFFICES ASSUME ConvKeeps, ConvNext, Pre PROVE Follows'
    OBVIOUS
  <2>0. UNCHANGED mode
    BY DEF ConvNext
  <2>1. ASSUME NEW s \in QuoteSides, NEW t \in Times, NEW p \in QuotePrices[s], NEW q \in Tops,
               ConvLvl1(s, p, q, t)
        PROVE  Follows'
    BY <2>1 DEF TopQuoted
  <2>2. ASSUME NEW s \in QuoteSides, NEW t \in Times, NEW p \in QuotePrices[s], NEW q \in Qtys,
               ConvLvl2(s, p, q, t)
        PROVE  Follows'
    BY <2>0, <2>2, FeedTypes, Lvl2Keeps
  <2>3. ASSUME NEW s \in QuoteSides, NEW t \in Times, NEW p \in QuotePrices[s], NEW d \in Incs,
               ConvLvl3(s, p, d, t)
        PROVE  Follows'
    <3>1. OldLevel(book[s], p).q = 0
      BY <2>3 DEF Changed
    <3> QED BY <2>0, <2>3, <3>1, FeedTypes, Lvl3Keeps
  <2>4. ASSUME NEW s \in QuoteSides, NEW q \in Qtys, ConvLvl1NaN(s, q)
        PROVE  Follows'
    BY <2>4 DEF TopQuoted
  <2>5. ASSUME NEW s \in QuoteSides, NEW q \in Qtys, NEW p \in QuotePrices[s], ConvInv(s, p, q)
        PROVE  Follows'
    BY <2>5 DEF Refused
  <2>6. CASE ConvClr
    BY <2>0, <2>6, ClrLineKeeps
  <2>7. ASSUME NEW p \in Prices, NEW d \in Trades, ConvDel(p, d)
        PROVE  Follows'
    <3>1. mode = 2 /\ AllVisible
      BY <2>7 DEF Traded2
    <3> QED BY <2>0, <2>7, <3>1, FeedTypes, DelKeeps
  <2> QED BY <2>1, <2>2, <2>3, <2>4, <2>5, <2>6, <2>7 DEF ConvNext
<1> QED BY <1>1, ConvInvariant, PTL DEF ConvSpec, OutputFollows

\* The best price: one with a quantity that none with a quantity is better than.
LEMMA BestIs ==
  ASSUME NEW s, NEW f, NEW p \in Prices, f[p] > 0,
         \A y \in Prices : Better(s = "BID", y, p) => ~(f[y] > 0)
  PROVE  BestOf(s, f) = p
<1> DEFINE P == {y \in Prices : f[y] > 0}
           desc == s = "BID"
           Best(y) == \A x \in P : ~Better(desc, x, y)
<1>1. BestOf(s, f) = IF P = {} THEN NaN ELSE CHOOSE y \in P : Best(y)
  BY DEF BestOf
<1>2. p \in P /\ Best(p)
  OBVIOUS
<1>3. ASSUME NEW y \in P, Best(y) PROVE y = p
  <2>1. y \in Int /\ p \in Int /\ y # NaN /\ p # NaN
    BY FeedAssumption, NaNAssumption
  <2>2. ~Better(desc, p, y) /\ ~Better(desc, y, p)
    BY <1>2, <1>3
  <2> QED BY <2>1, <2>2 DEF Better
<1> HIDE DEF P, Best
<1>4. (CHOOSE y \in P : Best(y)) = p
  BY <1>2, <1>3
<1> QED BY <1>1, <1>2, <1>4

\* It is a matter of the quantities only.
LEMMA BestSame ==
  ASSUME NEW s, NEW f, NEW g, \A y \in Prices : f[y] = g[y]
  PROVE  BestOf(s, f) = BestOf(s, g)
<1> DEFINE P == {y \in Prices : f[y] > 0}
           Q == {y \in Prices : g[y] > 0}
           Best(R) == IF R = {} THEN NaN ELSE CHOOSE y \in R : \A x \in R : ~Better(s = "BID", x, y)
<1>1. BestOf(s, f) = Best(P) /\ BestOf(s, g) = Best(Q)
  BY DEF BestOf
<1>2. P = Q
  OBVIOUS
<1> HIDE DEF P, Q, Best
<1> QED BY <1>1, <1>2

\* Nothing is left of the levels that are better than the new top.
LEMMA NothingAhead ==
  ASSUME NEW lf, LeafInv(lf), NEW U \in SUBSET Live(lf), NEW stop, NEW p \in Prices,
         \A i \in Live(lf) : AheadOf(lf, i, p) => i \in U,
         NEW y \in Prices, Better(lf.desc, y, p), NEW r, r = Unwound(lf, U, stop)
  PROVE  LevelAt(r, y).q = 0
<1>1. TakenBack(lf, U, y, r)
  BY UnwoundContents
<1>2. btree_val_nil.q = 0
  BY NilPrice
<1>3. ASSUME NEW i \in U, lf.key[i] = y PROVE LevelAt(r, y).q = 0
  BY <1>1, <1>2, <1>3 DEF TakenBack
<1>4. ASSUME \A i \in U : lf.key[i] # y PROVE LevelAt(r, y).q = 0
  <2>1. LevelAt(r, y) = LevelAt(lf, y)
    BY <1>1, <1>4 DEF TakenBack
  <2>2. lf.n \in Nat /\ lf.val \in [Slots -> Vals] /\ \A j \in 0 .. lf.n - 1 : j \in Slots
    BY LeafTypes DEF LeafInv
  <2>3. CASE \A i \in 0 .. lf.n - 1 : lf.key[i] # y
    <3>1. leaf_get(lf, y) = btree_val_nil
      BY <2>3, GetIs
    <3> QED BY <2>1, <3>1, <1>2 DEF LevelAt, Norm
  <2>4. ASSUME NEW i \in 0 .. lf.n - 1, lf.key[i] = y PROVE LevelAt(r, y).q = 0
    <3>1. leaf_get(lf, y) = lf.val[i]
      BY <2>4, GetIs
    <3>2. i \notin Live(lf)
      BY <1>4, <2>4 DEF AheadOf
    <3>3. ~(lf.val[i].q > 0)
      BY <2>4, <3>2, LiveIs
    <3>4. lf.val[i].q \in Int
      BY <2>2, <2>4 DEF Vals
    <3> QED BY <2>1, <3>1, <3>3, <3>4, <1>2 DEF LevelAt, Norm
  <2> QED BY <2>3, <2>4
<1> QED BY <1>3, <1>4

\* The side of a top-of-book quote with a quantity, on both ends.
LEMMA TopSide ==
  ASSUME ConvKeeps, Follows, AllVisible, NEW s \in Sides, NEW p \in Prices, NEW q \in Int, q > 0,
         NEW t \in Nat, ConvLvl1(s, p, q, t)
  PROVE  /\ mirror'[s][p] > 0
         /\ \A y \in Prices : Better(s = "BID", y, p) => mirror'[s][y] = 0
         /\ \A y \in Prices : LevelAt(book'[s], y).q = IF y = p THEN q ELSE 0
         /\ \A x \in Sides : x # s => book'[x] = book[x] /\ mirror'[x] = mirror[x]
<1>1. PICK U \in SUBSET Live(book[s]), stop \in Nat :
        /\ Visible(book[s]) => \A i \in Live(book[s]) : AheadOf(book[s], i, p) => i \in U
        /\ mirror' = [mirror EXCEPT ![s] = [UnwoundMirror(s, U) EXCEPT ![p] = prq(@, q, 0)]]
        /\ q >= 0 => ~Full(book[s]) /\ book' = [book EXCEPT ![s] =
                        PutLevel(btree_clr(Unwound(book[s], U, stop)), p, [q |-> q, t |-> t])]
  <2>1. PICK U \in SUBSET Live(book[s]), stop \in Nat : Lvl1Step(s, p, q, t, U, stop)
    BY Lvl1Is, Zenon
  <2> QED BY <2>1, Zenon DEF Lvl1Step
<1> DEFINE lf == book[s]
           u == Unwound(lf, U, stop)
           c == btree_clr(u)
           v == [q |-> q, t |-> t]
           w == PutLevel(c, p, v)
           m == UnwoundMirror(s, U)
<1>2. /\ LeafInv(lf) /\ lf.desc = (s = "BID") /\ u = Unwound(lf, U, stop)
      /\ U \in SUBSET Live(lf) /\ v \in Vals
  BY DEF ConvKeeps, BookInv, Vals, Sides
<1>3. ~Full(lf) /\ book' = [book EXCEPT ![s] = w]
  BY <1>1
<1>4. \A i \in Live(lf) : AheadOf(lf, i, p) => i \in U
  BY <1>1 DEF AllVisible
<1>5. m \in [Prices -> Nat]
  BY UnwoundMirrorType
<1>6. mirror' = [mirror EXCEPT ![s] = [m EXCEPT ![p] = prq(m[p], q, 0)]]
  BY <1>1
<1>7. \A y \in Prices : m[y] = LevelAt(u, y).q
  <2> TAKE y \in Prices
  <2>1. mode \in {2, 3} /\ LeafInv(book[s]) /\ mirror[s][y] = LevelAt(book[s], y).q
    BY <1>2, FollowsIs DEF ConvKeeps
  <2> QED BY <2>1, UnwoundMirrored
<1>8. Norm(v).q = q /\ v = [q |-> q, t |-> t]
  BY DEF Norm
<1>9. /\ DOMAIN mirror = Sides /\ DOMAIN book = Sides
  BY DEF ConvKeeps, BookInv
<1> HIDE DEF lf, u, v, m
<1>10. \A y \in Prices : Better(s = "BID", y, p) => m[y] = 0
  BY <1>2, <1>4, <1>7, NothingAhead
<1>11. mirror'[s] = [m EXCEPT ![p] = prq(m[p], q, 0)]
  BY <1>6, <1>9
<1>12. mirror'[s][p] > 0
  <2>1. mirror'[s][p] = prq(m[p], q, 0)
    BY <1>5, <1>11
  <2>2. m[p] \in Nat
    BY <1>5
  <2> QED BY <2>1, <2>2 DEF prq, NonNegative
<1>13. \A y \in Prices : Better(s = "BID", y, p) => mirror'[s][y] = 0
  <2> SUFFICES ASSUME NEW y \in Prices, Better(s = "BID", y, p) PROVE mirror'[s][y] = 0
    OBVIOUS
  <2>1. y # p
    BY FeedAssumption DEF Better
  <2> QED BY <2>1, <1>5, <1>10, <1>11
<1>14. LeafInv(u) /\ u.n = lf.n
  BY <1>2, UnwoundKeeps
<1>15. LeafInv(c) /\ c.n = u.n /\ \A y \in Prices : LevelAt(c, y) = btree_val_nil
  BY <1>14, ClrKeeps, ClrContents
<1> HIDE DEF c
<1>16. \A y \in Prices : LevelAt(w, y) = IF y = p THEN Norm(v) ELSE LevelAt(c, y)
  <2>1. ~Full(c)
    BY <1>3, <1>14, <1>15 DEF Full
  <2> QED BY <2>1, <1>2, <1>15, PutContents
<1> HIDE DEF w
<1>17. \A y \in Prices : LevelAt(w, y).q = IF y = p THEN q ELSE 0
  BY <1>8, <1>15, <1>16, NilPrice
<1>18. book'[s] = w
  BY <1>3, <1>9
<1>19. \A x \in Sides : x # s => book'[x] = book[x] /\ mirror'[x] = mirror[x]
  BY <1>3, <1>6, <1>9
<1> QED BY <1>12, <1>13, <1>17, <1>18, <1>19

\* book2book's unwinding loop and book_add's btree_clr: a top-of-book quote
\* with a quantity leaves whoever had the book, all of it in the iterator's
\* sight, with the right best price on each side.
THEOREM TopAlwaysFollows ==
  ASSUME Qtys \subseteq Nat
  PROVE  ConvSpec => TopFollows
<1> DEFINE Right == Follows /\ AllVisible =>
                      \A s \in QuoteSides, t \in Times, q \in Qtys \ {0} : \A p \in QuotePrices[s] :
                         ConvLvl1(s, p, q, t) =>
                            \A x \in Sides :
                               BestOf(x, mirror'[x]) = BestOf(x, [y \in Prices |-> Contents'[x][y].q])
<1>1. ConvKeeps /\ [ConvNext]_cvars => [Right]_cvars
  <2> SUFFICES ASSUME ConvKeeps, Follows, AllVisible,
                      NEW s \in QuoteSides, NEW t \in Times, NEW q \in Qtys \ {0},
                      NEW p \in QuotePrices[s], ConvLvl1(s, p, q, t), NEW x \in Sides
               PROVE  BestOf(x, mirror'[x]) = BestOf(x, [y \in Prices |-> Contents'[x][y].q])
    OBVIOUS
  <2> DEFINE f == mirror'[x]
             g == [y \in Prices |-> Contents'[x][y].q]
  <2>1. s \in Sides /\ p \in Prices /\ q \in Int /\ q > 0 /\ t \in Nat
    BY FeedTypes
  <2>2. /\ mirror'[s][p] > 0
        /\ \A y \in Prices : Better(s = "BID", y, p) => mirror'[s][y] = 0
        /\ \A y \in Prices : LevelAt(book'[s], y).q = IF y = p THEN q ELSE 0
        /\ x # s => book'[x] = book[x] /\ mirror'[x] = mirror[x]
    BY <2>1, TopSide
  <2>3. \A y \in Prices : g[y] = LevelAt(book'[x], y).q
    BY DEF Contents
  <2>4. CASE x = s
    <3>1. /\ f[p] > 0 /\ g[p] > 0
          /\ \A y \in Prices : Better(x = "BID", y, p) => ~(f[y] > 0) /\ ~(g[y] > 0)
      <4>1. \A y \in Prices : Better(x = "BID", y, p) => y # p
        BY FeedAssumption DEF Better
      <4> QED BY <2>1, <2>2, <2>3, <2>4, <4>1
    <3> HIDE DEF f, g
    <3>a. p \in Prices /\ f[p] > 0 /\ g[p] > 0
      BY <2>1, <3>1, Zenon
    <3>b. \A y \in Prices : Better(x = "BID", y, p) => ~(f[y] > 0)
      BY <3>1, Zenon
    <3>c. \A y \in Prices : Better(x = "BID", y, p) => ~(g[y] > 0)
      BY <3>1, Zenon
    <3>2. BestOf(x, f) = p
      BY <3>a, <3>b, BestIs, Zenon
    <3>3. BestOf(x, g) = p
      BY <3>a, <3>c, BestIs, Zenon
    <3> QED BY <3>2, <3>3 DEF f, g
  <2>5. CASE x # s
    <3>1. \A y \in Prices : f[y] = g[y]
      <4>1. \A y \in Prices : mirror[x][y] = LevelAt(book[x], y).q
        BY FollowsIs
      <4> QED BY <2>2, <2>3, <2>5, <4>1
    <3> HIDE DEF f, g
    <3>2. BestOf(x, f) = BestOf(x, g)
      BY <3>1, BestSame
    <3> QED BY <3>2 DEF f, g
  <2> QED BY <2>4, <2>5
<1> QED BY <1>1, ConvInvariant, PTL DEF ConvSpec, TopFollows

=============================================================================
