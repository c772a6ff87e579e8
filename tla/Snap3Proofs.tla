----------------------------- MODULE Snap3Proofs ----------------------------
(***************************************************************************)
(* booksnap -3: the photos are within their array, and the lines of a      *)
(* snapshot add up to the changes.                                         *)
(***************************************************************************)
EXTENDS Snap3, ReadersProofs

Entries == [p : Nat, q : Nat]
Photos  == [arr : [0 .. Cardinality(Prices) -> Entries], bn : Nat]

Types ==
    /\ desc \in BOOLEAN /\ spare \in Nat
    /\ cont \in Seq(Books)
    /\ lv \in [Books -> [Prices -> Nat]]
    /\ photo \in [Books -> Photos]
    /\ held \in [Books -> [Prices -> Nat]]
    /\ lost \in SUBSET Books
    /\ zbk \in Nat \ {0} /\ ibk \in Nat
    /\ pc \in {"feed", "snap", "print"}
    /\ it \in Nat \ {0} /\ bi \in Nat
    /\ sum \in [Prices -> Int]
    /\ pc # "feed" => ibk < Len(cont)

\* the array grows in time
InTime ==
    /\ pc = "snap" => ibk <= zbk
    /\ pc = "print" => ibk < zbk

\* the book k as its photo has it
Old(k) == IF k \in lost THEN Nothing ELSE held[k]

OldLevels(k) == BestFirst({p \in Prices : Old(k)[p] > 0}, desc)

\* a photo has the levels of the last snapshot in order, with their quantities
PhotoIs(k) ==
    /\ photo[k].bn = Len(OldLevels(k))
    /\ \A j \in 0 .. Len(OldLevels(k)) - 1 :
          /\ photo[k].arr[j].p = OldLevels(k)[j + 1]
          /\ photo[k].arr[j].q = Old(k)[OldLevels(k)[j + 1]]

-----------------------------------------------------------------------------
(* The loop that walks down the book and its photo at the same time.       *)

\* ahead of every level that is gone
Good(p) == \A g \in Prices : Before(g) > 0 /\ lv[Here][g] = 0 => Ahead(p, g)

\* the iterator, or the position in the photo, is behind p
Passed(p) == \E j \in 1 .. it - 1 : Cur[j] = p
Taken(p)  == \E j \in 0 .. bi - 1 : arr[j].p = p

\* Up to the first level that is gone iterator and photo advance together,
\* except that the last level of the photo may be printed again, and what has
\* been printed is the change of each level passed.
InStep(p) ==
    /\ Before(p) > 0 => /\ Passed(p) => Taken(p)
                        /\ Taken(p) => Passed(p) \/ Misled(p)
    /\ ~Misled(p) => sum[p] = IF Passed(p) THEN lv[Here][p] - Before(p) ELSE 0

LoopInv ==
    pc = "print" =>
       /\ it <= Len(Cur) + 1 /\ bi <= bn
       /\ \A p \in Prices : Good(p) => InStep(p)

PhotoInv == \A k \in Books : PhotoIs(k)

Snap3Inv == Types /\ InTime /\ PhotoInv /\ LoopInv

-----------------------------------------------------------------------------
(* Lists of levels, and what a photo has of one.                           *)

\* The levels of a book f, as the iterator returns them.
LEMMA LevelsInOrder ==
  ASSUME NEW f \in [Prices -> Nat], NEW P, P = {p \in Prices : f[p] > 0},
         NEW l, l = BestFirst(P, desc)
  PROVE  /\ Len(l) \in 0 .. Cardinality(Prices) /\ Cardinality(Prices) \in Nat
         /\ \A i \in 1 .. Len(l) : l[i] \in Prices /\ f[l[i]] > 0
         /\ \A i, j \in 1 .. Len(l) : i < j <=> Ahead(l[i], l[j])
         /\ Lists(l, P)
<1>1. P \in SUBSET Prices /\ IsFiniteSet(Prices) /\ Prices \in SUBSET Int
  BY Snap3Assumption
<1>2. P \in SUBSET Int
  BY <1>1
<1>3. \A p : p \in P <=> p \in Prices /\ f[p] > 0
  OBVIOUS
<1>5. IsFiniteSet(P) /\ Cardinality(P) <= Cardinality(Prices) /\ Cardinality(Prices) \in Nat
  BY <1>1, FS_Subset, FS_CardinalityType
<1>6. l \in Seq(P) /\ Len(l) = Cardinality(P) /\ Len(l) \in Nat
  BY <1>2, <1>5, InOrder
<1>7. \A i, j \in 1 .. Len(l) : i < j <=> Ahead(l[i], l[j])
  <2>1. \A i, j \in 1 .. Len(l) : i < j <=> Precedes(desc, l[i], l[j])
    BY <1>2, <1>5, InOrder
  <2>2. \A a, b : Ahead(a, b) <=> Precedes(desc, a, b)
    BY DEF Ahead
  <2> QED BY <2>1, <2>2
<1>8. Lists(l, P)
  BY <1>2, <1>5, NoneMissed
<1>9. \A i \in 1 .. Len(l) : l[i] \in Prices /\ f[l[i]] > 0
  BY <1>3, <1>6
<1>11. Len(l) \in 0 .. Cardinality(Prices) /\ Cardinality(Prices) \in Nat
  BY <1>5, <1>6
<1> QED BY <1>7, <1>8, <1>9, <1>11

\* The book in hand is one of the books.
LEMMA HereIs ==
  ASSUME Types, pc # "feed"
  PROVE  Here \in Books
<1>1. cont \in Seq(Books) /\ ibk + 1 \in 1 .. Len(cont)
  BY DEF Types
<1> QED BY <1>1 DEF Here

\* The levels of the book in hand.
LEMMA CurInOrder ==
  ASSUME Types, pc # "feed"
  PROVE  /\ lv[Here] \in [Prices -> Nat]
         /\ Len(Cur) \in 0 .. Cardinality(Prices) /\ Cardinality(Prices) \in Nat
         /\ \A i \in 1 .. Len(Cur) : Cur[i] \in Prices /\ lv[Here][Cur[i]] > 0
         /\ \A i, j \in 1 .. Len(Cur) : i < j <=> Ahead(Cur[i], Cur[j])
         /\ \A p \in Prices : lv[Here][p] > 0 => \E i \in 1 .. Len(Cur) : Cur[i] = p
<1> DEFINE P == {p \in Prices : lv[Here][p] > 0}
           f == lv[Here]
           l == Cur
<1>1. f \in [Prices -> Nat]
  BY HereIs DEF Types
<1>2. P = {p \in Prices : f[p] > 0} /\ l = BestFirst(P, desc)
  BY DEF Cur
<1> HIDE DEF P, f, l
<1>3. Len(l) \in 0 .. Cardinality(Prices) /\ Cardinality(Prices) \in Nat
  BY <1>1, <1>2, LevelsInOrder
<1>4. \A i \in 1 .. Len(l) : l[i] \in Prices /\ f[l[i]] > 0
  BY <1>1, <1>2, LevelsInOrder
<1>5. \A i, j \in 1 .. Len(l) : i < j <=> Ahead(l[i], l[j])
  BY <1>1, <1>2, LevelsInOrder
<1>6. Lists(l, P)
  BY <1>1, <1>2, LevelsInOrder
<1>7. \A p \in Prices : f[p] > 0 => \E i \in 1 .. Len(l) : l[i] = p
  BY <1>2, <1>6 DEF Lists
<1> QED BY <1>1, <1>3, <1>4, <1>5, <1>7 DEF f, l

\* The levels of a photo: those of the book at the last snapshot, best first.
LEMMA PhotoInOrder ==
  ASSUME Types, NEW k \in Books, PhotoIs(k),
         NEW a, a = photo[k].arr, NEW m, m = photo[k].bn
  PROVE  /\ m \in 0 .. Cardinality(Prices) /\ Cardinality(Prices) \in Nat
         /\ \A j \in 0 .. m - 1 : /\ a[j].p \in Prices /\ Old(k)[a[j].p] > 0
                                  /\ a[j].q = Old(k)[a[j].p]
         /\ \A i, j \in 0 .. m - 1 : i < j <=> Ahead(a[i].p, a[j].p)
         /\ \A p \in Prices : Old(k)[p] > 0 => \E j \in 0 .. m - 1 : a[j].p = p
<1> DEFINE O == OldLevels(k)
           P == {p \in Prices : Old(k)[p] > 0}
<1>1. Old(k) \in [Prices -> Nat]
  BY DEF Types, Old, Nothing
<1>2. P = {p \in Prices : Old(k)[p] > 0} /\ O = BestFirst(P, desc)
  BY DEF OldLevels
<1>3. /\ m = Len(O)
      /\ \A j \in 0 .. Len(O) - 1 : a[j].p = O[j + 1] /\ a[j].q = Old(k)[O[j + 1]]
  BY DEF PhotoIs
<1> HIDE DEF O, P
<1>4. /\ Len(O) \in 0 .. Cardinality(Prices) /\ Cardinality(Prices) \in Nat
      /\ \A i \in 1 .. Len(O) : O[i] \in Prices /\ Old(k)[O[i]] > 0
      /\ \A i, j \in 1 .. Len(O) : i < j <=> Ahead(O[i], O[j])
      /\ \A p \in Prices : Old(k)[p] > 0 => \E i \in 1 .. Len(O) : O[i] = p
  <2> DEFINE f == Old(k)
  <2>1. f \in [Prices -> Nat] /\ P = {p \in Prices : f[p] > 0}
    BY <1>1, <1>2
  <2> HIDE DEF f
  <2>2. Len(O) \in 0 .. Cardinality(Prices) /\ Cardinality(Prices) \in Nat
    BY <2>1, <1>2, LevelsInOrder
  <2>3. \A i \in 1 .. Len(O) : O[i] \in Prices /\ f[O[i]] > 0
    BY <2>1, <1>2, LevelsInOrder
  <2>4. \A i, j \in 1 .. Len(O) : i < j <=> Ahead(O[i], O[j])
    BY <2>1, <1>2, LevelsInOrder
  <2>5. Lists(O, P)
    BY <2>1, <1>2, LevelsInOrder
  <2>6. \A p \in Prices : f[p] > 0 => \E i \in 1 .. Len(O) : O[i] = p
    BY <2>1, <2>5 DEF Lists
  <2> QED BY <2>2, <2>3, <2>4, <2>6 DEF f
<1>5. \A j \in 0 .. m - 1 : j + 1 \in 1 .. Len(O)
  BY <1>3, <1>4
<1>6. \A j \in 0 .. m - 1 : /\ a[j].p \in Prices /\ Old(k)[a[j].p] > 0
                            /\ a[j].q = Old(k)[a[j].p]
  BY <1>3, <1>4, <1>5
<1>7. \A i, j \in 0 .. m - 1 : i < j <=> Ahead(a[i].p, a[j].p)
  <2> SUFFICES ASSUME NEW i \in 0 .. m - 1, NEW j \in 0 .. m - 1
               PROVE  i < j <=> Ahead(a[i].p, a[j].p)
    OBVIOUS
  <2>1. a[i].p = O[i + 1] /\ a[j].p = O[j + 1]
    BY <1>3
  <2>2. i + 1 < j + 1 <=> Ahead(O[i + 1], O[j + 1])
    BY <1>4, <1>5
  <2> QED BY <2>1, <2>2, <1>4
<1>8. ASSUME NEW p \in Prices, Old(k)[p] > 0 PROVE \E j \in 0 .. m - 1 : a[j].p = p
  <2>1. PICK i \in 1 .. Len(O) : O[i] = p
    BY <1>4, <1>8
  <2>2. i - 1 \in 0 .. m - 1 /\ (i - 1) + 1 = i
    BY <1>3, <1>4
  <2>3. a[i - 1].p = O[(i - 1) + 1]
    BY <2>2, <1>3
  <2> QED BY <2>1, <2>2, <2>3
<1> QED BY <1>3, <1>4, <1>6, <1>7, <1>8

\* Prices are whole numbers.
LEMMA PricesAre == \A p \in Prices : p \in Nat /\ p \in Int
BY Snap3Assumption

\* Prices are ordered.
LEMMA AheadIsOrder ==
  /\ \A a \in Int : ~Ahead(a, a)
  /\ \A a, b \in Int : a = b \/ Ahead(a, b) \/ Ahead(b, a)
  /\ \A a, b \in Int : ~(Ahead(a, b) /\ Ahead(b, a))
  /\ \A a, b, c \in Int : Ahead(a, b) /\ Ahead(b, c) => Ahead(a, c)
BY DEF Ahead, Precedes

\* no photo has been taken, or none is left
NoneTaken == \A k \in Books : Old(k) = Nothing /\ photo[k].bn = 0

\* A photo without levels is one of nothing.
LEMMA NothingIs ==
  NoneTaken => PhotoInv
<1> SUFFICES ASSUME NoneTaken, NEW k \in Books PROVE PhotoIs(k)
  BY DEF PhotoInv
<1>1. Old(k) = Nothing /\ photo[k].bn = 0
  BY DEF NoneTaken
<1>2. {p \in Prices : Old(k)[p] > 0} = {}
  BY <1>1 DEF Nothing
<1>3. OldLevels(k) = <<>>
  BY <1>2, NothingInOrder DEF OldLevels
<1> QED BY <1>1, <1>3 DEF PhotoIs

-----------------------------------------------------------------------------
(* The array of photos.                                                    *)

\* Doubling the array's length makes it longer than the index.
LEMMA DoubledIsMore ==
  ASSUME zbk \in Nat \ {0}, ibk = zbk
  PROVE  Doubled \in Nat \ {0} /\ ibk < Doubled
<1> DEFINE Z == {z \in 2 * zbk .. 2 * (zbk + ibk) :
                    z >= ibk /\ \E j \in 1 .. ibk + 1 : z = zbk * 2 ^ j}
<1>1. 2 ^ 1 = 2
  OBVIOUS
<1>2. 1 \in 1 .. ibk + 1 /\ zbk * 2 ^ 1 = 2 * zbk
  BY <1>1
<1>3. 2 * zbk \in 2 * zbk .. 2 * (zbk + ibk) /\ 2 * zbk >= ibk
  OBVIOUS
<1>4. 2 * zbk \in Z
  BY <1>2, <1>3
<1>5. \A z \in Z : z \in Nat /\ z >= 2 * zbk
  OBVIOUS
<1>6. Doubled = Min(Z)
  BY DEF Doubled
<1> HIDE DEF Z
<1>7. Z \in SUBSET Nat
  BY <1>5
<1>8. Min(Z) \in Z
  BY <1>4, <1>7, LeastOf
<1> QED BY <1>5, <1>6, <1>8

\* The books given with --instr.
LEMMA BooksGiven == SetToSeq(Books) \in Seq(Books)
<1> DEFINE n == Cardinality(Books)
<1>1. n \in Nat /\ ExistsBijection(1 .. n, Books)
  BY Snap3Assumption, FS_CardinalityType
<1>2. \E f \in [1 .. n -> Books] : IsInjective(f)
  BY <1>1 DEF ExistsBijection, Bijection, Injection
<1>3. SetToSeq(Books) = CHOOSE f \in [1 .. n -> Books] : IsInjective(f)
  BY DEF SetToSeq
<1> HIDE DEF n
<1>4. SetToSeq(Books) \in [1 .. n -> Books]
  BY <1>2, <1>3
<1> QED BY <1>1, <1>4

\* Nothing has been snapped in the beginning.
LEMMA Snap3Init == Init3 => Snap3Inv
<1> SUFFICES ASSUME Init3 PROVE Snap3Inv
  OBVIOUS
<1>1. Nothing \in [Prices -> Nat] /\ Nothing \in [Prices -> Int]
  BY DEF Nothing
<1>2. spare \in Nat
  BY Snap3Assumption DEF Init3
<1>3. NoPhoto \in Photos /\ NoPhoto.bn = 0
  BY <1>2 DEF NoPhoto, Photos, Entries
<1>4. cont \in Seq(Books) /\ Len(cont) \in Nat
  <2>1. cont = <<>> \/ cont = SetToSeq(Books)
    BY Zenon DEF Init3
  <2>2. CASE cont = <<>>
    BY <2>2
  <2>3. CASE cont = SetToSeq(Books)
    BY <2>3, BooksGiven
  <2> QED BY <2>1, <2>2, <2>3
<1>5. zbk \in Nat \ {0}
  <2> DEFINE n == Len(cont) \div Chunk
  <2>1. Chunk \in Nat \ {0} /\ n \in Nat
    <3>1. Chunk \in Nat \ {0}
      BY Snap3Assumption
    <3> QED BY <1>4, <3>1
  <2> HIDE DEF n
  <2>2. (n + 1) * Chunk \in Nat \ {0}
    <3>1. n + 1 \in Nat \ {0}
      BY <2>1
    <3> QED BY <2>1, <3>1
  <2> QED BY <2>2 DEF Init3, n
<1>6. lv \in [Books -> [Prices -> Nat]] /\ held \in [Books -> [Prices -> Nat]] /\ sum \in [Prices -> Int]
  BY <1>1 DEF Init3
<1>7. photo \in [Books -> Photos]
  BY <1>3 DEF Init3
<1>8. Types
  BY <1>2, <1>4, <1>5, <1>6, <1>7 DEF Types, Init3
<1>9. PhotoInv
  <2>1. NoneTaken
    BY <1>3 DEF Old, Init3, NoneTaken
  <2> QED BY <2>1, NothingIs
<1>10. InTime /\ LoopInv
  BY DEF InTime, LoopInv, Init3
<1> QED BY <1>8, <1>9, <1>10 DEF Snap3Inv

-----------------------------------------------------------------------------
(* The steps between the lines of a snapshot.                              *)

\* A photo is what it was as long as it and the last snapshot are.
LEMMA SamePhoto ==
  ASSUME UNCHANGED desc, NEW k, PhotoIs(k), photo'[k] = photo[k], Old(k)' = Old(k)
  PROVE  PhotoIs(k)'
<1>1. OldLevels(k)' = OldLevels(k)
  BY DEF OldLevels
<1> QED BY <1>1 DEF PhotoIs

\* Nor do quotes change a photo.
LEMMA SamePhotos ==
  ASSUME PhotoInv, UNCHANGED <<desc, photo, held, lost>>
  PROVE  PhotoInv'
<1> SUFFICES ASSUME NEW k \in Books PROVE PhotoIs(k)'
  BY DEF PhotoInv
<1>1. Old(k)' = Old(k)
  BY DEF Old, Nothing
<1>2. PhotoIs(k) /\ photo'[k] = photo[k]
  BY DEF PhotoInv
<1> QED BY <1>1, <1>2, SamePhoto

\* A quote between snapshots.
LEMMA FeedKeeps ==
  ASSUME Snap3Inv, NEW k \in Books, NEW p \in QuotePrices[k], NEW q \in 0 .. MaxQty[k],
         Feed(k, p, q)
  PROVE  Snap3Inv'
<1>0. Types /\ InTime /\ PhotoInv
  BY DEF Snap3Inv
<1>1. UNCHANGED <<desc, spare, photo, zbk, ibk, pc, it, bi, sum, held, lost>> /\ pc = "feed"
  BY DEF Feed, memory, loop, history
<1>2. p \in Prices /\ q \in Nat
  BY Snap3Assumption
<1>3. lv' \in [Books -> [Prices -> Nat]]
  <2>1. lv \in [Books -> [Prices -> Nat]] /\ lv' = [lv EXCEPT ![k][p] = q]
    BY <1>0 DEF Types, Feed
  <2> QED BY <2>1, <1>2
<1>4. cont' \in Seq(Books)
  <2>1. cont \in Seq(Books) /\ (cont' = cont \/ cont' = Append(cont, k))
    BY <1>0 DEF Types, Feed
  <2> QED BY <2>1
<1>5. Types'
  BY <1>0, <1>1, <1>3, <1>4 DEF Types
<1>6. PhotoInv'
  BY <1>0, <1>1, SamePhotos
<1>7. InTime' /\ LoopInv'
  BY <1>1 DEF InTime, LoopInv
<1> QED BY <1>5, <1>6, <1>7 DEF Snap3Inv

\* A snapshot begins.
LEMMA BeginKeeps ==
  ASSUME Snap3Inv, Begin
  PROVE  Snap3Inv'
<1>0. Types /\ PhotoInv
  BY DEF Snap3Inv
<1>1. /\ UNCHANGED <<desc, spare, cont, lv, photo, zbk, it, bi, sum, held, lost>>
      /\ pc' = "snap" /\ ibk' = 0 /\ cont # <<>>
  BY DEF Begin, memory, loop, history
<1>2. 0 < Len(cont)
  BY <1>0, <1>1 DEF Types
<1>3. Types'
  BY <1>0, <1>1, <1>2 DEF Types
<1>4. PhotoInv'
  BY <1>0, <1>1, SamePhotos
<1>5. InTime' /\ LoopInv'
  BY <1>0, <1>1 DEF InTime, LoopInv, Types
<1> QED BY <1>3, <1>4, <1>5 DEF Snap3Inv

\* Nothing of a book is printed before its first line.
LEMMA LoopBegins ==
  Types /\ pc = "print" /\ it = 1 /\ bi = 0 /\ sum = Nothing => LoopInv
<1> SUFFICES ASSUME Types, pc = "print", it = 1, bi = 0, sum = Nothing
             PROVE  LoopInv
  OBVIOUS
<1>1. Here \in Books
  BY HereIs
<1>2. lv[Here] \in [Prices -> Nat] /\ photo[Here].bn \in Nat
  BY <1>1 DEF Types, Photos
<1>3. Len(Cur) \in Nat
  <2>1. Len(Cur) \in 0 .. Cardinality(Prices) /\ Cardinality(Prices) \in Nat
    BY CurInOrder
  <2> QED BY <2>1
<1>4. it <= Len(Cur) + 1 /\ bi <= bn
  BY <1>2, <1>3 DEF bn
<1>5. \A p \in Prices : ~Passed(p) /\ ~Taken(p) /\ sum[p] = 0
  BY DEF Passed, Taken, Nothing
<1>6. \A p \in Prices : InStep(p)
  BY <1>5 DEF InStep
<1> QED BY <1>4, <1>6 DEF LoopInv

\* The turn of a book.
LEMMA Snap3Keeps ==
  ASSUME Snap3Inv, snap3
  PROVE  Snap3Inv'
<1>0. Types /\ InTime /\ PhotoInv
  BY DEF Snap3Inv
<1>1. /\ UNCHANGED <<desc, spare, cont, lv, ibk, held>> /\ pc = "snap" /\ pc' = "print"
      /\ it' = 1 /\ bi' = 0 /\ sum' = Nothing
  BY DEF snap3
<1>2. Nothing \in [Prices -> Int] /\ Nothing' = Nothing
  BY DEF Nothing
<1>3. ASSUME zbk' \in Nat \ {0}, photo' \in [Books -> Photos], lost' \in SUBSET Books
      PROVE  Types'
  BY <1>0, <1>1, <1>2, <1>3 DEF Types
<1>4. Types' => LoopInv'
  <2>1. (Types /\ pc = "print" /\ it = 1 /\ bi = 0 /\ sum = Nothing => LoopInv)'
    BY LoopBegins, PTL
  <2> QED BY <1>1, <1>2, <2>1
<1>5. CASE Outgrown
  <2>1. zbk' = Doubled /\ photo' = [k \in Books |-> NoPhoto] /\ lost' = Books
    BY <1>5 DEF snap3
  <2>2. ibk = zbk /\ zbk \in Nat \ {0}
    BY <1>0, <1>1, <1>5 DEF Outgrown, InTime, Types
  <2>3. zbk' \in Nat \ {0} /\ ibk < zbk'
    BY <2>1, <2>2, DoubledIsMore
  <2>4. NoPhoto \in Photos /\ NoPhoto.bn = 0
    BY <1>0 DEF NoPhoto, Photos, Entries, Types
  <2>5. Types'
    BY <2>1, <2>3, <2>4, <1>3
  <2>6. PhotoInv'
    <3>1. NoneTaken'
      BY <2>1, <2>4 DEF Old, NoneTaken
    <3>2. (NoneTaken => PhotoInv)'
      BY NothingIs, PTL
    <3> QED BY <3>1, <3>2
  <2>7. InTime'
    BY <2>3, <1>1 DEF InTime
  <2> QED BY <2>5, <2>6, <2>7, <1>4 DEF Snap3Inv
<1>6. CASE ~Outgrown
  <2>1. UNCHANGED <<zbk, photo, lost>>
    BY <1>6 DEF snap3, memory
  <2>2. ibk < zbk
    BY <1>0, <1>6 DEF Outgrown, Types
  <2>3. Types'
    BY <2>1, <1>0, <1>3 DEF Types
  <2>4. PhotoInv'
    BY <2>1, <1>0, <1>1, SamePhotos
  <2>5. InTime'
    BY <2>1, <2>2, <1>1 DEF InTime
  <2> QED BY <2>3, <2>4, <2>5, <1>4 DEF Snap3Inv
<1> QED BY <1>5, <1>6

\* The photo-copy taken after the last line.
LEMMA BookKeeps ==
  ASSUME Snap3Inv, snap3_book
  PROVE  Snap3Inv'
<1>0. Types /\ InTime /\ PhotoInv
  BY DEF Snap3Inv
<1>1. /\ UNCHANGED <<desc, spare, cont, lv, zbk>> /\ pc = "print" /\ ibk' = ibk + 1
      /\ it' = 1 /\ bi' = 0 /\ sum' = Nothing
      /\ pc' = IF ibk + 1 < Len(cont) THEN "snap" ELSE "feed"
      /\ held' = [held EXCEPT ![Here] = lv[Here]] /\ lost' = lost \ {Here}
  BY DEF snap3_book
<1>2. Here \in Books
  BY <1>0, <1>1, HereIs
<1> DEFINE h == Here
           c == Cur
           ph == [arr |-> [j \in DOMAIN arr |->
                      IF j < Len(Cur) THEN [p |-> Cur[j + 1], q |-> lv[Here][Cur[j + 1]]] ELSE arr[j]],
                  bn |-> Len(Cur)]
           N == Cardinality(Prices)
           f == lv[h]
<1>3. photo' = [photo EXCEPT ![h] = ph]
  BY DEF snap3_book
<1>4. arr \in [0 .. N -> Entries]
  BY <1>0, <1>2 DEF arr, Types, Photos
<1>5. /\ f \in [Prices -> Nat]
      /\ Len(c) \in 0 .. N /\ N \in Nat
      /\ \A i \in 1 .. Len(c) : c[i] \in Prices
  BY <1>0, <1>1, CurInOrder
<1>6. c = BestFirst({p \in Prices : f[p] > 0}, desc)
  BY DEF Cur
<1>7. /\ ph.bn = Len(c) /\ DOMAIN ph.arr = 0 .. N
      /\ ph = [arr |-> ph.arr, bn |-> ph.bn]
      /\ \A j \in 0 .. N : ph.arr[j] = IF j < Len(c) THEN [p |-> c[j + 1], q |-> f[c[j + 1]]] ELSE arr[j]
  BY <1>4
<1>8. ph.arr = [j \in 0 .. N |-> ph.arr[j]]
  BY <1>4
<1> HIDE DEF ph, c, N, f, h
<1>9. \A j \in 0 .. Len(c) - 1 : /\ j \in 0 .. N /\ j < Len(c)
                                /\ ph.arr[j].p = c[j + 1] /\ ph.arr[j].q = f[c[j + 1]]
  <2> SUFFICES ASSUME NEW j \in 0 .. Len(c) - 1
               PROVE  /\ j \in 0 .. N /\ j < Len(c)
                      /\ ph.arr[j].p = c[j + 1] /\ ph.arr[j].q = f[c[j + 1]]
    OBVIOUS
  <2>1. j \in 0 .. N /\ j < Len(c)
    BY <1>5
  <2>2. ph.arr[j] = [p |-> c[j + 1], q |-> f[c[j + 1]]]
    BY <2>1, <1>7
  <2> QED BY <2>1, <2>2
<1>10. ph \in Photos
  <2>1. ASSUME NEW j \in 0 .. N PROVE ph.arr[j] \in Entries
    <3>1. CASE j < Len(c)
      <4>1. j + 1 \in 1 .. Len(c)
        BY <3>1, <1>5
      <4>2. c[j + 1] \in Nat /\ f[c[j + 1]] \in Nat
        BY <4>1, <1>5, Snap3Assumption
      <4>3. ph.arr[j] = [p |-> c[j + 1], q |-> f[c[j + 1]]]
        BY <3>1, <1>7
      <4> QED BY <4>2, <4>3 DEF Entries
    <3>2. CASE ~(j < Len(c))
      BY <3>2, <1>4, <1>7
    <3> QED BY <3>1, <3>2
  <2>2. ph.arr \in [0 .. N -> Entries]
    BY <2>1, <1>8
  <2>3. ph.bn \in Nat
    BY <1>5, <1>7
  <2> QED BY <2>2, <2>3, <1>7 DEF Photos, N
<1>11. photo' \in [Books -> Photos]
  BY <1>0, <1>3, <1>10 DEF Types
<1>12. held' \in [Books -> [Prices -> Nat]]
  BY <1>0, <1>1, <1>5 DEF Types, f, h
<1>13. sum' \in [Prices -> Int]
  BY <1>1 DEF Nothing
<1>14. Types'
  BY <1>0, <1>1, <1>11, <1>12, <1>13 DEF Types
<1>15. PhotoInv'
  <2> SUFFICES ASSUME NEW k \in Books PROVE PhotoIs(k)'
    BY DEF PhotoInv
  <2>1. CASE k = h
    <3>1. Old(k)' = f
      BY <2>1, <1>0, <1>1, <1>2 DEF Old, Types, f, h
    <3>2. OldLevels(k)' = c
      BY <3>1, <1>1, <1>6 DEF OldLevels
    <3>3. photo'[k] = ph
      BY <2>1, <1>0, <1>3 DEF Types
    <3> QED BY <3>1, <3>2, <3>3, <1>7, <1>9 DEF PhotoIs
  <2>2. CASE k # h
    <3>1. Old(k)' = Old(k)
      BY <2>2, <1>0, <1>1 DEF Old, Types, h, Nothing
    <3>2. photo'[k] = photo[k]
      BY <2>2, <1>0, <1>3 DEF Types
    <3>3. PhotoIs(k)
      BY <1>0 DEF PhotoInv
    <3> QED BY <3>1, <3>2, <3>3, <1>1, SamePhoto
  <2> QED BY <2>1, <2>2
<1>16. InTime' /\ LoopInv'
  BY <1>0, <1>1 DEF InTime, LoopInv, Types
<1> QED BY <1>14, <1>15, <1>16 DEF Snap3Inv

-----------------------------------------------------------------------------
(* The lines of a snapshot.                                                *)

\* What the photo has of the last snapshot is what there was.
LEMMA BeforeIs ==
  ASSUME Types, pc # "feed", NEW p \in Prices
  PROVE  Before(p) = Old(Here)[p] /\ Before(p) \in Nat
<1>1. Here \in Books
  BY HereIs
<1> QED BY <1>1 DEF Before, Old, Nothing, Types

\* The level at the iterator is behind those the iterator has passed.
LEMMA Iterating ==
  ASSUME Types, pc = "print", it <= Len(Cur), NEW p \in Prices
  PROVE  /\ Cur[it] \in Prices /\ ~Passed(Cur[it])
         /\ Passed(p) => lv[Here][p] > 0
         /\ lv[Here][p] > 0 /\ Ahead(p, Cur[it]) => Passed(p)
<1> DEFINE c == Cur
           f == lv[Here]
<1>1. /\ \A i \in 1 .. Len(c) : c[i] \in Prices /\ f[c[i]] > 0
      /\ \A i, j \in 1 .. Len(c) : i < j <=> Ahead(c[i], c[j])
      /\ \A r \in Prices : f[r] > 0 => \E i \in 1 .. Len(c) : c[i] = r
      /\ Len(c) \in Nat
  BY CurInOrder
<1>2. \A r : Passed(r) <=> \E j \in 1 .. it - 1 : c[j] = r
  BY DEF Passed
<1>3. it \in 1 .. Len(c)
  BY <1>1 DEF Types
<1> HIDE DEF c, f
<1>4. c[it] \in Prices
  BY <1>1, <1>3
<1>5. ASSUME Passed(c[it]) PROVE FALSE
  <2>1. PICK j \in 1 .. it - 1 : c[j] = c[it]
    BY <1>2, <1>5
  <2>2. j \in 1 .. Len(c) /\ j < it
    BY <1>1, <1>3
  <2>3. Ahead(c[j], c[it])
    BY <2>2, <1>1, <1>3
  <2>4. c[it] \in Int
    BY <1>4, PricesAre
  <2> QED BY <2>1, <2>3, <2>4, AheadIsOrder
<1>6. ASSUME Passed(p) PROVE f[p] > 0
  <2>1. PICK j \in 1 .. it - 1 : c[j] = p
    BY <1>2, <1>6
  <2>2. j \in 1 .. Len(c)
    BY <1>1, <1>3
  <2> QED BY <2>1, <2>2, <1>1
<1>7. ASSUME f[p] > 0, Ahead(p, c[it]) PROVE Passed(p)
  <2>1. PICK j \in 1 .. Len(c) : c[j] = p
    BY <1>1, <1>7
  <2>2. j < it <=> Ahead(c[j], c[it])
    BY <1>1, <1>3
  <2>3. j \in 1 .. it - 1
    BY <2>1, <2>2, <1>1, <1>3, <1>7
  <2> QED BY <2>1, <2>3, <1>2
<1> QED BY <1>4, <1>5, <1>6, <1>7 DEF c, f

\* The level in the photo is behind those taken already.
LEMMA Taking ==
  ASSUME Types, PhotoInv, pc = "print", bi <= bn, NEW p \in Prices
  PROVE  /\ bn \in 0 .. Cardinality(Prices) /\ Cardinality(Prices) \in Nat
         /\ bi < bn => /\ arr[bi].p \in Prices /\ Before(arr[bi].p) > 0
                       /\ arr[bi].q = Before(arr[bi].p)
                       /\ ~Taken(arr[bi].p)
                       /\ Before(p) > 0 /\ Ahead(p, arr[bi].p) => Taken(p)
         /\ bi + 1 < bn => arr[bi + 1].p \in Prices /\ Ahead(arr[bi].p, arr[bi + 1].p)
         /\ bi >= bn /\ Before(p) > 0 => Taken(p)
<1> DEFINE a == photo[Here].arr
           m == photo[Here].bn
           O == Old(Here)
<1>0. Here \in Books /\ PhotoIs(Here)
  BY HereIs DEF PhotoInv
<1>1. /\ m \in 0 .. Cardinality(Prices) /\ Cardinality(Prices) \in Nat
      /\ \A j \in 0 .. m - 1 : /\ a[j].p \in Prices /\ O[a[j].p] > 0
                               /\ a[j].q = O[a[j].p]
      /\ \A i, j \in 0 .. m - 1 : i < j <=> Ahead(a[i].p, a[j].p)
      /\ \A r \in Prices : O[r] > 0 => \E j \in 0 .. m - 1 : a[j].p = r
  BY <1>0, PhotoInOrder
<1>2. arr = a /\ bn = m /\ (\A r : Taken(r) <=> \E j \in 0 .. bi - 1 : a[j].p = r)
  BY DEF arr, bn, Taken
<1>3. \A r \in Prices : Before(r) = O[r]
  BY BeforeIs
<1>4. bi \in Nat
  BY DEF Types
<1> HIDE DEF a, m, O
<1>5. ASSUME bi < m PROVE a[bi].p \in Prices /\ O[a[bi].p] > 0 /\ a[bi].q = O[a[bi].p]
  BY <1>1, <1>4, <1>5
<1>6. ASSUME bi < m, Taken(a[bi].p) PROVE FALSE
  <2>1. PICK j \in 0 .. bi - 1 : a[j].p = a[bi].p
    BY <1>2, <1>6
  <2>2. j \in 0 .. m - 1 /\ j < bi /\ bi \in 0 .. m - 1
    BY <1>1, <1>4, <1>6
  <2>3. Ahead(a[j].p, a[bi].p)
    BY <2>2, <1>1
  <2>4. a[bi].p \in Int
    BY <1>5, <1>6, PricesAre
  <2> QED BY <2>1, <2>3, <2>4, AheadIsOrder
<1>7. ASSUME bi < m, O[p] > 0, Ahead(p, a[bi].p) PROVE Taken(p)
  <2>1. PICK j \in 0 .. m - 1 : a[j].p = p
    BY <1>1, <1>7
  <2>2. bi \in 0 .. m - 1
    BY <1>1, <1>4, <1>7
  <2>3. j < bi <=> Ahead(a[j].p, a[bi].p)
    BY <2>2, <1>1
  <2>4. j \in 0 .. bi - 1
    BY <2>1, <2>3, <1>4, <1>7
  <2> QED BY <2>1, <2>4, <1>2
<1>8. ASSUME bi + 1 < m PROVE a[bi + 1].p \in Prices /\ Ahead(a[bi].p, a[bi + 1].p)
  <2>1. bi \in 0 .. m - 1 /\ bi + 1 \in 0 .. m - 1 /\ bi < bi + 1
    BY <1>1, <1>4, <1>8
  <2> QED BY <2>1, <1>1
<1>9. ASSUME bi >= m, O[p] > 0 PROVE Taken(p)
  <2>1. PICK j \in 0 .. m - 1 : a[j].p = p
    BY <1>1, <1>9
  <2>2. j \in 0 .. bi - 1
    BY <1>1, <1>4, <1>9
  <2> QED BY <2>1, <2>2, <1>2
<1> QED BY <1>1, <1>2, <1>3, <1>5, <1>6, <1>7, <1>8, <1>9

\* A line: only the level printed and the one taken from the photo change, and
\* neither is ahead of the first level that is gone unless both are the same.
LEMMA LineKeeps ==
  ASSUME Snap3Inv, Line
  PROVE  Snap3Inv'
<1>0. Types /\ InTime /\ PhotoInv /\ LoopInv
  BY DEF Snap3Inv
<1>1. /\ UNCHANGED <<desc, spare, cont, lv, photo, zbk, ibk, pc, held, lost>>
      /\ pc = "print" /\ it <= Len(Cur)
  BY DEF Line, memory, history
<1>2. /\ bi <= bn
      /\ \A p \in Prices : Good(p) => InStep(p)
  BY <1>0, <1>1 DEF LoopInv
<1> DEFINE i == Cur[it]
           pp == arr[bi]
           f == lv[Here]
           onward == bi < bn /\ ~Ahead(i, pp.p)
           again == onward /\ Ahead(arr[bi + 1].p, i)
           B(p) == Before(p)
<1>3. /\ bi' = IF onward THEN bi + 1 ELSE bi
      /\ it' = IF again THEN it ELSE it + 1
      /\ sum' = [sum EXCEPT ![Change(i).p] = @ + Change(i).d]
  BY DEF Line
<1>4. /\ Here' = Here /\ Cur' = Cur /\ arr' = arr /\ bn' = bn
      /\ \A p : Before(p)' = Before(p)
      /\ \A a, b : Ahead(a, b)' = Ahead(a, b)
  BY <1>1 DEF Here, Cur, arr, bn, Before, Ahead
<1>5. \A p : (Good(p)' <=> Good(p)) /\ (Misled(p)' <=> Misled(p))
  BY <1>1, <1>4 DEF Good, Misled
<1>6. /\ it \in Nat \ {0} /\ bi \in Nat /\ sum \in [Prices -> Int]
      /\ Len(Cur) \in Nat /\ bn \in Nat /\ f \in [Prices -> Nat]
      /\ \A p \in Prices : B(p) \in Nat
  <2>1. Len(Cur) \in 0 .. Cardinality(Prices) /\ Cardinality(Prices) \in Nat /\ f \in [Prices -> Nat]
    BY <1>0, <1>1, CurInOrder
  <2>2. bn \in Nat
    BY <1>0, <1>1, HereIs DEF Types, Photos, bn
  <2>3. \A p \in Prices : B(p) \in Nat
    BY <1>0, <1>1, BeforeIs
  <2> QED BY <2>1, <2>2, <2>3, <1>0 DEF Types
<1>7. /\ i \in Prices /\ ~Passed(i)
      /\ \A p \in Prices : f[p] > 0 /\ Ahead(p, i) => Passed(p)
  <2>1. \A p \in Prices : i \in Prices /\ ~Passed(i) /\ (f[p] > 0 /\ Ahead(p, i) => Passed(p))
    BY <1>0, <1>1, Iterating
  <2>2. \E p \in Prices : TRUE
    <3>1. \A j \in 1 .. Len(Cur) : Cur[j] \in Prices
      BY <1>0, <1>1, CurInOrder
    <3>2. it \in 1 .. Len(Cur)
      BY <1>1, <1>6
    <3> QED BY <3>1, <3>2
  <2> QED BY <2>1, <2>2
<1>8. /\ bi < bn => /\ pp.p \in Prices /\ B(pp.p) > 0
                    /\ pp.q = B(pp.p) /\ ~Taken(pp.p)
      /\ bi < bn => \A p \in Prices : B(p) > 0 /\ Ahead(p, pp.p) => Taken(p)
      /\ bi + 1 < bn => arr[bi + 1].p \in Prices /\ Ahead(pp.p, arr[bi + 1].p)
      /\ bi >= bn => \A p \in Prices : B(p) > 0 => Taken(p)
  BY <1>0, <1>1, <1>2, <1>7, Taking
<1>9. Change(i) = IF bi >= bn \/ Ahead(i, pp.p) THEN [p |-> i, d |-> f[i]]
                  ELSE IF i = pp.p THEN [p |-> i, d |-> f[i] - pp.q]
                  ELSE [p |-> pp.p, d |-> -pp.q]
  BY DEF Change
<1>10. \A p : Passed(p)' <=> Passed(p) \/ (~again /\ p = i)
  <2>1. \A p : Passed(p)' <=> \E j \in 1 .. it' - 1 : Cur[j] = p
    BY <1>4 DEF Passed
  <2>2. \A p : Passed(p) <=> \E j \in 1 .. it - 1 : Cur[j] = p
    BY DEF Passed
  <2>3. CASE again
    BY <2>1, <2>2, <2>3, <1>3
  <2>4. CASE ~again
    <3>1. it' = it + 1
      BY <2>4, <1>3
    <3>2. 1 .. it' - 1 = (1 .. it - 1) \cup {it}
      BY <3>1, <1>6
    <3> QED BY <3>2, <2>1, <2>2, <2>4
  <2> QED BY <2>3, <2>4
<1>11. \A p : Taken(p)' <=> Taken(p) \/ (onward /\ p = pp.p)
  <2>1. \A p : Taken(p)' <=> \E j \in 0 .. bi' - 1 : arr[j].p = p
    BY <1>4 DEF Taken
  <2>2. \A p : Taken(p) <=> \E j \in 0 .. bi - 1 : arr[j].p = p
    BY DEF Taken
  <2>3. CASE ~onward
    BY <2>1, <2>2, <2>3, <1>3
  <2>4. CASE onward
    <3>1. bi' = bi + 1
      BY <2>4, <1>3
    <3>2. 0 .. bi' - 1 = (0 .. bi - 1) \cup {bi}
      BY <3>1, <1>6
    <3> QED BY <3>2, <2>1, <2>2, <2>4
  <2> QED BY <2>3, <2>4
<1>12. \A p : InStep(p) <=>
          /\ B(p) > 0 => /\ Passed(p) => Taken(p)
                         /\ Taken(p) => Passed(p) \/ Misled(p)
          /\ ~Misled(p) => sum[p] = IF Passed(p) THEN f[p] - B(p) ELSE 0
  BY DEF InStep
<1>13. \A p : InStep(p)' <=>
          /\ B(p) > 0 => /\ Passed(p)' => Taken(p)'
                         /\ Taken(p)' => Passed(p)' \/ Misled(p)
          /\ ~Misled(p) => sum'[p] = IF Passed(p)' THEN f[p] - B(p) ELSE 0
  BY <1>1, <1>4, <1>5 DEF InStep
<1>14. \A p \in Prices : Good(p) /\ B(p) > 0 => f[p] > 0
  <2> SUFFICES ASSUME NEW p \in Prices, Good(p), B(p) > 0, ~(f[p] > 0) PROVE FALSE
    OBVIOUS
  <2>1. f[p] = 0
    BY <1>6
  <2>2. Ahead(p, p)
    BY <2>1 DEF Good
  <2> QED BY <2>2, PricesAre, AheadIsOrder
<1>15. \A p, r \in Prices : Good(p) /\ Ahead(r, p) => Good(r)
  <2> SUFFICES ASSUME NEW p \in Prices, NEW r \in Prices, Good(p), Ahead(r, p),
                      NEW g \in Prices, Before(g) > 0, lv[Here][g] = 0
               PROVE  Ahead(r, g)
    BY DEF Good
  <2>1. Ahead(p, g)
    BY DEF Good
  <2> QED BY <2>1, PricesAre, AheadIsOrder
<1>16. \A a, b \in Prices : a = b \/ Ahead(a, b) \/ Ahead(b, a)
  BY PricesAre, AheadIsOrder
<1>17. \A a, b \in Prices : ~(Ahead(a, b) /\ Ahead(b, a)) /\ ~Ahead(a, a)
  BY PricesAre, AheadIsOrder
<1>18. onward /\ i = pp.p /\ again => Misled(i)
  <2> SUFFICES ASSUME onward, i = pp.p, again PROVE Misled(i)
    OBVIOUS
  <2>1. ~(bi + 1 < bn)
    BY <1>7, <1>8, <1>17
  <2>2. bn = bi + 1 /\ bn - 1 = bi /\ bn > 0
    BY <2>1, <1>6
  <2> QED BY <2>2 DEF Misled
<1> HIDE DEF i, pp, f, onward, again, B
<1>19. (onward <=> bi < bn /\ ~Ahead(i, pp.p)) /\ (again => onward)
  BY DEF onward, again
<1>20. ASSUME ~onward
       PROVE  sum' \in [Prices -> Int] /\ (\A p \in Prices : Good(p) => InStep(p)')
  <2>1. Change(i).p = i /\ Change(i).d = f[i]
    BY <1>6, <1>9, <1>19, <1>20
  <2>2. sum' = [sum EXCEPT ![i] = @ + f[i]]
    BY <2>1, <1>3
  <2>3. sum' \in [Prices -> Int] /\ sum'[i] = sum[i] + f[i]
        /\ \A p \in Prices : p # i => sum'[p] = sum[p]
    BY <2>2, <1>6, <1>7
  <2>4. ASSUME NEW p \in Prices, Good(p) PROVE InStep(p)'
    <3>1. InStep(p)
      BY <2>4, <1>2
    <3>2. CASE p # i
      BY <3>1, <3>2, <2>3, <1>10, <1>11, <1>12, <1>13, <1>20
    <3>3. CASE p = i
      <4>1. B(i) > 0 => Taken(i)
        BY <1>6, <1>7, <1>8, <1>19, <1>20
      <4>2. B(i) > 0 => Misled(i)
        BY <4>1, <3>1, <3>3, <1>7, <1>12
      <4>3. Passed(p)' /\ (Taken(p)' <=> Taken(p))
        BY <3>3, <1>10, <1>11, <1>19, <1>20
      <4>4. ~Misled(i) => B(i) = 0
        BY <4>2, <1>6, <1>7
      <4>5. ~Misled(i) => sum[i] = 0
        BY <3>1, <3>3, <1>7, <1>12
      <4>6. ~Misled(i) => sum'[i] = f[i] - B(i)
        BY <4>4, <4>5, <2>3, <1>6, <1>7
      <4> QED BY <4>1, <4>3, <4>6, <3>3, <1>13
    <3> QED BY <3>2, <3>3
  <2> QED BY <2>3, <2>4
<1>21. ASSUME onward, i = pp.p
       PROVE  sum' \in [Prices -> Int] /\ (\A p \in Prices : Good(p) => InStep(p)')
  <2>1. Change(i).p = i /\ Change(i).d = f[i] - B(i)
    BY <1>6, <1>8, <1>9, <1>19, <1>21
  <2>2. sum' = [sum EXCEPT ![i] = @ + (f[i] - B(i))]
    BY <2>1, <1>3
  <2>3. sum' \in [Prices -> Int] /\ sum'[i] = sum[i] + (f[i] - B(i))
        /\ \A p \in Prices : p # i => sum'[p] = sum[p]
    BY <2>2, <1>6, <1>7
  <2>4. ASSUME NEW p \in Prices, Good(p) PROVE InStep(p)'
    <3>1. InStep(p)
      BY <2>4, <1>2
    <3>2. CASE p # i
      BY <3>1, <3>2, <2>3, <1>10, <1>11, <1>12, <1>13, <1>21
    <3>3. CASE p = i
      <4>1. Taken(p)' /\ (again \/ Passed(p)')
        BY <3>3, <1>10, <1>11, <1>21
      <4>2. again => Misled(i)
        BY <1>18, <1>21
      <4>3. ~Misled(i) => sum[i] = 0
        BY <3>1, <3>3, <1>7, <1>12
      <4>4. ~Misled(i) => sum'[i] = f[i] - B(i)
        BY <4>3, <2>3, <1>6, <1>7
      <4> QED BY <4>1, <4>2, <4>4, <3>3, <1>13
    <3> QED BY <3>2, <3>3
  <2> QED BY <2>3, <2>4
<1>22. ASSUME onward, i # pp.p
       PROVE  sum' \in [Prices -> Int] /\ (\A p \in Prices : Good(p) => InStep(p)')
  <2>1. pp.p \in Prices /\ Ahead(pp.p, i) /\ B(pp.p) > 0 /\ ~Taken(pp.p)
    BY <1>7, <1>8, <1>16, <1>19, <1>22
  <2>2. Change(i).p = pp.p /\ Change(i).d = -B(pp.p)
    BY <1>6, <1>8, <1>9, <1>19, <1>22
  <2>3. sum' = [sum EXCEPT ![pp.p] = @ + (-B(pp.p))]
    BY <2>2, <1>3
  <2>4. sum' \in [Prices -> Int]
        /\ \A p \in Prices : p # pp.p => sum'[p] = sum[p]
    BY <2>1, <2>3, <1>6
  <2>5. ASSUME Good(pp.p) PROVE FALSE
    <3>1. Passed(pp.p)
      BY <2>1, <2>5, <1>7, <1>14
    <3>2. InStep(pp.p)
      BY <2>1, <2>5, <1>2
    <3> QED BY <3>1, <3>2, <2>1, <1>12
  <2>6. ~Good(i)
    BY <2>1, <2>5, <1>7, <1>15
  <2>7. ASSUME NEW p \in Prices, Good(p) PROVE InStep(p)'
    <3>1. InStep(p) /\ p # i /\ p # pp.p
      BY <2>5, <2>6, <2>7, <1>2
    <3> QED BY <3>1, <2>4, <1>10, <1>11, <1>12, <1>13
  <2> QED BY <2>4, <2>7
<1>23. sum' \in [Prices -> Int] /\ (\A p \in Prices : Good(p) => InStep(p)')
  BY <1>20, <1>21, <1>22
<1>24. /\ it' \in Nat \ {0} /\ bi' \in Nat
       /\ it' <= Len(Cur) + 1 /\ bi' <= bn
  BY <1>1, <1>2, <1>3, <1>6, <1>19
<1>25. Types'
  BY <1>0, <1>1, <1>23, <1>24 DEF Types
<1>26. LoopInv'
  BY <1>4, <1>5, <1>23, <1>24 DEF LoopInv
<1>27. PhotoInv'
  BY <1>0, <1>1, SamePhotos
<1>28. InTime'
  BY <1>0, <1>1 DEF InTime
<1> QED BY <1>25, <1>26, <1>27, <1>28 DEF Snap3Inv

-----------------------------------------------------------------------------

\* The invariant says what the runs check of the lines.
LEMMA LinesAddUp == Snap3Inv => ChangesAddUp
<1> SUFFICES ASSUME Snap3Inv, Printed, NEW p \in Prices,
                    \A g \in {x \in Prices : Before(x) > 0 /\ lv[Here][x] = 0} : Ahead(p, g),
                    ~Misled(p)
             PROVE  sum[p] = lv[Here][p] - Before(p)
  BY DEF ChangesAddUp
<1>0. Types /\ LoopInv /\ pc = "print" /\ it > Len(Cur)
  BY DEF Snap3Inv, Printed
<1>1. Good(p)
  BY DEF Good
<1>2. sum[p] = IF Passed(p) THEN lv[Here][p] - Before(p) ELSE 0
  BY <1>0, <1>1 DEF LoopInv, InStep
<1>3. lv[Here][p] \in Nat /\ Before(p) \in Nat /\ Len(Cur) \in Nat /\ it \in Nat
  BY <1>0, BeforeIs, CurInOrder DEF Types
<1>4. ASSUME lv[Here][p] > 0 PROVE Passed(p)
  <2>1. PICK i \in 1 .. Len(Cur) : Cur[i] = p
    BY <1>0, <1>4, CurInOrder
  <2>2. i \in 1 .. it - 1
    BY <1>0, <1>3
  <2> QED BY <2>1, <2>2 DEF Passed
<1>5. ASSUME lv[Here][p] = 0 PROVE Before(p) = 0
  <2>1. Before(p) > 0 => Ahead(p, p)
    BY <1>1, <1>5 DEF Good
  <2> QED BY <2>1, <1>3, PricesAre, AheadIsOrder
<1> QED BY <1>2, <1>3, <1>4, <1>5

\* The invariant of the program.
LEMMA Snap3Invariant == Spec3 => []Snap3Inv
<1>1. Snap3Inv /\ [Next3]_vars3 => Snap3Inv'
  <2> SUFFICES ASSUME Snap3Inv, [Next3]_vars3 PROVE Snap3Inv'
    OBVIOUS
  <2>1. ASSUME NEW k \in Books, NEW p \in QuotePrices[k], NEW q \in 0 .. MaxQty[k], Feed(k, p, q)
        PROVE  Snap3Inv'
    BY <2>1, FeedKeeps
  <2>2. CASE Begin
    BY <2>2, BeginKeeps
  <2>3. CASE snap3
    BY <2>3, Snap3Keeps
  <2>4. CASE Line
    BY <2>4, LineKeeps
  <2>5. CASE snap3_book
    BY <2>5, BookKeeps
  <2>6. CASE UNCHANGED vars3
    <3>1. UNCHANGED <<desc, spare, cont, lv, photo, zbk, ibk, pc, it, bi, sum, held, lost>>
      BY <2>6 DEF vars3, memory, loop, history
    <3>2. Types /\ InTime /\ PhotoInv /\ LoopInv
      BY DEF Snap3Inv
    <3>3. Types' /\ InTime'
      BY <3>1, <3>2 DEF Types, InTime
    <3>4. PhotoInv'
      BY <3>1, <3>2, SamePhotos, SMTT(20)
    <3>5. LoopInv'
      BY <3>1, <3>2
         DEF LoopInv, Good, InStep, Passed, Taken, Misled, Before, Cur, Here, arr, bn, Ahead
    <3> QED BY <3>3, <3>4, <3>5 DEF Snap3Inv
  <2> QED BY <2>1, <2>2, <2>3, <2>4, <2>5, <2>6 DEF Next3
<1> QED BY <1>1, Snap3Init, PTL DEF Spec3

\* However many books are made and whenever, the book printed has its photo
\* within snap3_aux: the array is doubled in time, although only when it is
\* full and only for the book whose turn it is.
THEOREM PhotosStayInBounds == Spec3 => []PhotoInBounds
<1>1. Snap3Inv => PhotoInBounds
  BY DEF Snap3Inv, InTime, PhotoInBounds
<1> QED BY <1>1, Snap3Invariant, PTL

\* The lines snap3 prints for a price amount to the change since the last
\* snapshot, for every level ahead of the first one that is gone, unless the
\* entry behind the photo misleads the loop.
THEOREM ChangesAlwaysAddUp == Spec3 => []ChangesAddUp
BY Snap3Invariant, LinesAddUp, PTL

=============================================================================
