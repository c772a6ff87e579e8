----------------------------- MODULE TopsProofs -----------------------------
(***************************************************************************)
(* The reader of book2book's blocks of tops always has the current ones.   *)
(***************************************************************************)
EXTENDS Tops, ReadersProofs

\* Quantities that go with the place in the list.
Multiples(b) == b = [x \in DOMAIN b |-> [p |-> b[x].p, q |-> x * cqty]]

\* What is kept agrees with the book as far as it is compared, it is what the
\* reader has if there is anything to be printed, and the quantities of
\* consolidated levels, which are not compared, follow from their places.
TopsInv ==
    /\ prq \in {"top", "quantity", "value"} /\ ntop \in Nat
    /\ Same(Shown)
    /\ Printed(xb) => seen = xb
    /\ prq = "quantity" => \A s \in Sides : Multiples(xb[s])

\* Consolidated tops are a function on 1 .. k.
LEMMA TopIsFunction ==
  ASSUME prq \in {"quantity", "value"}, NEW s, NEW f
  PROVE  Top(s, f) = [x \in DOMAIN Top(s, f) |-> Top(s, f)[x]]
<1> DEFINE l == Ladder(s, f)
           g == Top(s, f)
<1>1. \E S : g = [x \in S |-> g[x]]
  <2>1. CASE prq = "quantity"
    <3>1. g = book_ctops(l, cqty, ntop)
      BY <2>1 DEF Top
    <3> HIDE DEF l, g
    <3> DEFINE S == 1 .. Min({ntop, Base(l, Len(l)) \div cqty})
    <3>2. book_ctops(l, cqty, ntop) = [x \in S |-> book_ctops(l, cqty, ntop)[x]]
      BY TopsAreSegments, Zenon
    <3> HIDE DEF S
    <3>3. g = [x \in S |-> g[x]]
      BY <3>1, <3>2, Zenon
    <3> QED BY <3>3, Zenon
  <2>2. CASE prq = "value"
    <3>1. g = book_vtops(l, cqty, ntop)
      BY <2>2 DEF Top
    <3> HIDE DEF l, g
    <3> DEFINE S == 1 .. Min({ntop, Term(l, Len(l)) \div cqty})
    <3>2. book_vtops(l, cqty, ntop) = [x \in S |-> book_vtops(l, cqty, ntop)[x]]
      BY TopsAreSegments, Zenon
    <3> HIDE DEF S
    <3>3. g = [x \in S |-> g[x]]
      BY <3>1, <3>2, Zenon
    <3> QED BY <3>3, Zenon
  <2> QED BY <2>1, <2>2, Zenon
<1> HIDE DEF g
<1>2. g = [x \in DOMAIN g |-> g[x]]
  BY <1>1
<1> QED BY <1>2, Zenon DEF g

\* Of an empty book there is nothing to be seen.
LEMMA EmptyTop ==
  ASSUME prq \in {"top", "quantity", "value"}, ntop \in Nat, NEW s \in Sides,
         NEW f, \A p \in Prices : f[s][p] = NoLevel
  PROVE  Top(s, f) = <<>>
<1>1. {p \in Prices : f[s][p].q > 0} = {}
  BY DEF NoLevel
<1> DEFINE l == BestFirst({p \in Prices : f[s][p].q > 0}, s = "BID")
<1>2. l = <<>>
  BY <1>1, NothingInOrder
<1>3. Ladder(s, f) = <<>>
  <2>1. Ladder(s, f) = [i \in DOMAIN l |-> [p |-> l[i], q |-> f[s][l[i]].q]]
    BY DEF Ladder
  <2> HIDE DEF l
  <2> QED BY <1>2, <2>1
<1>4. cqty \in Nat \ {0}
  BY TopsAssumption
<1> QED BY <1>3, <1>4, NoTops DEF Top

\* Consolidated levels with the same prices are the same.
LEMMA PricesTellMultiples ==
  ASSUME NEW a, NEW b, Multiples(a), Multiples(b), PricesOf(a) = PricesOf(b)
  PROVE  a = b
<1>1. DOMAIN a = DOMAIN b
  BY DEF PricesOf
<1>2. \A x \in DOMAIN a : a[x].p = b[x].p
  BY <1>1 DEF PricesOf
<1>3. [x \in DOMAIN a |-> [p |-> a[x].p, q |-> x * cqty]] =
      [x \in DOMAIN b |-> [p |-> b[x].p, q |-> x * cqty]]
  BY <1>1, <1>2
<1> QED BY <1>3 DEF Multiples

\* The comparison tells an empty list from others.
LEMMA PricesTellEmpty ==
  ASSUME NEW a, a = [x \in DOMAIN a |-> a[x]], PricesOf(a) = PricesOf(<<>>)
  PROVE  a = <<>>
<1>1. DOMAIN a = {}
  BY DEF PricesOf
<1> QED BY <1>1

\* For every set of prices, every number of levels and every quantity or value
\* to consolidate to: the lines book2book -1, -N or -C prints, only when its
\* comparison of the new tops with those kept says so, leave their reader
\* with the current prices of both sides, and, but for value consolidation, the
\* current quantities, although quantities are not compared once levels are
\* consolidated.
THEOREM TopsAlwaysFollow == Spec1 => []TopsFollow
<1>1. Init1 => TopsInv
  <2> SUFFICES ASSUME Init1 PROVE TopsInv
    OBVIOUS
  <2>1. prq \in {"top", "quantity", "value"} /\ ntop \in Nat
    <3>1. PICK o \in Options : /\ prq = Printer(o) /\ prq \notin {"2", "3"}
                               /\ ntop = IF o.ntop > 1 THEN o.ntop ELSE 1
      BY DEF Init1
    <3>2. o.ntop \in Nat /\ o.cons \in {"", "quantity", "value"}
      <4>1. o.ntop \in {0, 1, N} /\ o.cons \in {"", "quantity", "value"}
        BY Zenon DEF Options
      <4>2. N \in Nat
        BY TopsAssumption
      <4>3. \A m \in {0, 1, N} : m \in Nat
        BY <4>2
      <4> QED BY <4>1, <4>3, Zenon
    <3>3. prq \in {"top", "quantity", "value"}
      BY <3>1, <3>2, Zenon DEF Printer
    <3> QED BY <3>1, <3>2, <3>3, Zenon
  <2>2. \A s \in Sides : xb[s] = <<>> /\ Top(s, lvl) = <<>>
    BY <2>1, EmptyTop DEF Init1, SpecInit
  <2>3. Same(Shown)
    BY <2>2 DEF Same, Shown
  <2>4. seen = xb
    BY DEF Init1
  <2>5. \A s \in Sides : Multiples(xb[s])
    BY <2>2 DEF Multiples
  <2> QED BY <2>1, <2>3, <2>4, <2>5 DEF TopsInv
<1>2. TopsInv /\ [Next1]_tvars => TopsInv'
  <2> SUFFICES ASSUME TopsInv, [Next1]_tvars PROVE TopsInv'
    OBVIOUS
  <2> DEFINE b == [s \in Sides |-> Top(s, lvl')]
  <2>1. CASE Next1
    <3>p. prq' = prq /\ ntop' = ntop /\ prq \in {"top", "quantity", "value"} /\ ntop \in Nat
      BY <2>1 DEF Next1, TopsInv
    <3>b. Shown' = b
      BY <3>p DEF Shown, Top
    <3>c. IF Same(b) THEN UNCHANGED <<xb, seen>>
          ELSE xb' = b /\ seen' = IF Printed(b) THEN b ELSE seen
      BY <2>1 DEF Next1, Compare
    <3>m. prq = "quantity" => \A s \in Sides : Multiples(b[s])
      <4> SUFFICES ASSUME prq = "quantity", NEW s \in Sides PROVE Multiples(b[s])
        OBVIOUS
      <4>1. b[s] = book_ctops(Ladder(s, lvl'), cqty, ntop)
        BY DEF Top
      <4> QED BY <4>1, TopsAreMultiples DEF Multiples
    <3> HIDE DEF b
    <3>1. CASE Same(b)
      <4>1. xb' = xb /\ seen' = seen
        BY <3>1, <3>c
      <4>2. Same(Shown)'
        BY <3>1, <3>b, <3>p, <4>1 DEF Same
      <4>3. (Printed(xb) => seen = xb)'
        BY <4>1, <3>p DEF TopsInv, Printed, Single
      <4>4. (prq = "quantity" => \A s \in Sides : Multiples(xb[s]))'
        BY <4>1, <3>p DEF TopsInv, Multiples
      <4> QED BY <3>p, <4>2, <4>3, <4>4 DEF TopsInv
    <3>2. CASE ~Same(b)
      <4>1. xb' = b /\ seen' = IF Printed(b) THEN b ELSE seen
        BY <3>2, <3>c
      <4>2. Same(Shown)'
        BY <3>b, <4>1 DEF Same
      <4>3. (Printed(xb) => seen = xb)'
        BY <4>1, <3>p DEF Printed, Single
      <4>4. (prq = "quantity" => \A s \in Sides : Multiples(xb[s]))'
        BY <4>1, <3>p, <3>m DEF Multiples
      <4> QED BY <3>p, <4>2, <4>3, <4>4 DEF TopsInv
    <3> QED BY <3>1, <3>2
  <2>2. CASE UNCHANGED tvars
    BY <2>2 DEF tvars, specVars, TopsInv, Same, Shown, Top, Printed, Single, Multiples
  <2> QED BY <2>1, <2>2
<1>3. TopsInv => TopsFollow
  <2> SUFFICES ASSUME TopsInv, Printed(Shown), NEW s \in Sides
               PROVE  /\ PricesOf(seen[s]) = PricesOf(Shown[s])
                      /\ prq # "value" => seen[s] = Shown[s]
    BY DEF TopsFollow
  <2>p. prq \in {"top", "quantity", "value"} /\ ntop \in Nat
    BY DEF TopsInv
  <2>1. prq # "top" => \A x \in Sides : Shown[x] = [i \in DOMAIN Shown[x] |-> Shown[x][i]]
    BY <2>p, TopIsFunction DEF Shown
  <2>2. \A x \in Sides : PricesOf(Shown[x]) = PricesOf(xb[x])
    BY DEF TopsInv, Same
  <2>3. Printed(xb)
    <3>1. ASSUME NEW x \in Sides, Shown[x] # <<>> PROVE xb[x] # <<>>
      <4>1. CASE prq = "top"
        BY <3>1, <4>1 DEF TopsInv, Same
      <4>2. CASE prq # "top"
        BY <2>1, <2>2, <3>1, <4>2, PricesTellEmpty
      <4> QED BY <4>1, <4>2
    <3> QED BY <3>1 DEF Printed
  <2>4. seen = xb
    BY <2>3 DEF TopsInv
  <2>5. CASE prq = "top"
    BY <2>2, <2>4, <2>5 DEF TopsInv, Same
  <2>6. CASE prq = "quantity"
    <3>1. Shown[s] = book_ctops(Ladder(s, lvl), cqty, ntop)
      BY <2>6 DEF Shown, Top
    <3>2. Multiples(Shown[s]) /\ Multiples(xb[s])
      BY <3>1, <2>6, TopsAreMultiples DEF Multiples, TopsInv
    <3> QED BY <3>2, <2>2, <2>4, PricesTellMultiples
  <2>7. CASE prq = "value"
    BY <2>2, <2>4, <2>7
  <2> QED BY <2>p, <2>5, <2>6, <2>7
<1> QED BY <1>1, <1>2, <1>3, PTL DEF Spec1

=============================================================================
