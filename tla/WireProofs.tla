----------------------------- MODULE WireProofs -----------------------------
(***************************************************************************)
(* Proofs about Wire: numbers are printed exactly and numerals read as the *)
(* nearest number, in both libraries and encodings, for numerals of every  *)
(* length, a line printed is read as the quote it was printed for, and     *)
(* rounding and scaling a number do what they promise.                     *)
(* What digits stand for is induction over them, which is done with the    *)
(* least place where a claim would fail.                                   *)
(***************************************************************************)
EXTENDS Wire, SequenceTheorems, WellFoundedInduction, TLAPS

LEMMA LeastOf ==
  ASSUME NEW S \in SUBSET Nat, NEW s \in S
  PROVE  Min(S) \in S /\ \A y \in S : Min(S) <= y
<1>1. \E z \in S : \A y \in S : <<y, z>> \notin OpToRel(<, Nat)
  BY NatLessThanWellFounded, WFMin, Zenon
<1>2. PICK z \in S : \A y \in S : <<y, z>> \notin OpToRel(<, Nat)
  BY <1>1, Zenon
<1>3. ASSUME NEW y \in S PROVE z <= y
  <2>1. ~(y < z)
    BY <1>2 DEF OpToRel
  <2> QED BY <2>1
<1> QED BY <1>3 DEF Min

-----------------------------------------------------------------------------
(* Digits read one after the other.                                        *)

\* f starts with a and has in f[j] what is read with the first j digits of w
Horner(f, a, w, m) == f = [j \in 0 .. m |-> IF j = 0 THEN a ELSE 10 * f[j - 1] + w[j]]

LEMMA HornerExists ==
  ASSUME NEW a, NEW w
  PROVE  \A m \in Nat : \E f : Horner(f, a, w, m)
<1> DEFINE B == {m \in Nat : ~\E f : Horner(f, a, w, m)}
<1> SUFFICES ASSUME B # {} PROVE FALSE
  OBVIOUS
<1> DEFINE u == Min(B)
<1>1. u \in B /\ \A y \in B : u <= y
  <2>1. PICK b \in B : TRUE
    OBVIOUS
  <2>2. B \in SUBSET Nat
    OBVIOUS
  <2> HIDE DEF B
  <2> QED BY <2>1, <2>2, LeastOf
<1> HIDE DEF u
<1>2. u \in Nat /\ ~\E f : Horner(f, a, w, u)
  BY <1>1
<1>3. u # 0
  <2> SUFFICES ASSUME u = 0 PROVE FALSE
    OBVIOUS
  <2> DEFINE f == [j \in 0 .. 0 |-> a]
  <2>1. f = [j \in 0 .. 0 |-> IF j = 0 THEN a ELSE 10 * f[j - 1] + w[j]]
    OBVIOUS
  <2>2. Horner(f, a, w, 0)
    BY <2>1 DEF Horner
  <2> HIDE DEF f
  <2> QED BY <1>2, <2>2
<1>4. u - 1 \in Nat /\ ~(u <= u - 1)
  BY <1>2, <1>3
<1>5. u - 1 \notin B
  <2> HIDE DEF B
  <2> QED BY <1>1, <1>4
<1>6. PICK r : Horner(r, a, w, u - 1)
  BY <1>4, <1>5
<1>7. \A j \in 0 .. u - 1 : r[j] = IF j = 0 THEN a ELSE 10 * r[j - 1] + w[j]
  BY <1>6 DEF Horner
<1> DEFINE f == [j \in 0 .. u |-> IF j = u THEN 10 * r[u - 1] + w[u] ELSE r[j]]
<1>8. \A j \in 0 .. u : f[j] = IF j = 0 THEN a ELSE 10 * f[j - 1] + w[j]
  <2> TAKE j \in 0 .. u
  <2>1. CASE j = u
    BY <1>2, <1>3, <2>1
  <2>2. CASE j # u
    <3>1. j \in 0 .. u - 1 /\ f[j] = r[j]
      BY <1>2, <2>2
    <3>2. j # 0 => j - 1 \in 0 .. u /\ j - 1 # u
      BY <1>2, <3>1
    <3> QED BY <1>7, <3>1, <3>2
  <2> QED BY <2>1, <2>2
<1>9. f = [j \in 0 .. u |-> f[j]]
  OBVIOUS
<1> HIDE DEF f
<1>10. Horner(f, a, w, u)
  BY <1>8, <1>9 DEF Horner
<1> QED BY <1>2, <1>10

\* the same of numbers
Counts(f, a, w, m) ==
    /\ m \in Nat /\ a \in Nat /\ f[0] = a /\ \A j \in 0 .. m : f[j] \in Nat
    /\ \A j \in 1 .. m : w[j] \in Nat /\ f[j] = 10 * f[j - 1] + w[j]

LEMMA HornerCounts ==
  ASSUME NEW m \in Nat, NEW a \in Nat, NEW w, \A j \in 1 .. m : w[j] \in Nat,
         NEW f, Horner(f, a, w, m)
  PROVE  Counts(f, a, w, m)
<1> DEFINE B == {j \in 0 .. m : f[j] \notin Nat}
<1>1. \A j \in 0 .. m : f[j] = IF j = 0 THEN a ELSE 10 * f[j - 1] + w[j]
  BY DEF Horner
<1>2. f[0] = a
  BY <1>1
<1>3. \A j \in 1 .. m : w[j] \in Nat /\ f[j] = 10 * f[j - 1] + w[j]
  BY <1>1
<1>4. B = {}
  <2> SUFFICES ASSUME B # {} PROVE FALSE
    OBVIOUS
  <2> DEFINE u == Min(B)
  <2>1. u \in B /\ \A y \in B : u <= y
    <3>1. PICK b \in B : TRUE
      OBVIOUS
    <3>2. B \in SUBSET Nat
      OBVIOUS
    <3> HIDE DEF B
    <3> QED BY <3>1, <3>2, LeastOf
  <2> HIDE DEF u
  <2>2. u \in 0 .. m /\ f[u] \notin Nat /\ u # 0
    BY <1>2, <2>1
  <2>3. u \in 1 .. m /\ u - 1 \in 0 .. m /\ ~(u <= u - 1)
    BY <2>2
  <2>4. u - 1 \notin B
    <3> HIDE DEF B
    <3> QED BY <2>1, <2>3
  <2>5. f[u - 1] \in Nat
    BY <2>3, <2>4
  <2> QED BY <1>3, <2>2, <2>3, <2>5
<1> QED BY <1>2, <1>3, <1>4 DEF Counts

\* What is read is what a stands for, moved to the left, and the digits of w:
\* two readings with the same digits differ by what they start with.
LEMMA CountsApart ==
  ASSUME NEW m, NEW a, NEW b, NEW w, NEW v, NEW f, NEW g, NEW h,
         Counts(f, a, w, m), Counts(g, b, v, m), \A j \in 1 .. m : w[j] = v[j],
         Counts(h, 1, [j \in 1 .. m |-> 0], m)
  PROVE  \A j \in 0 .. m : f[j] - g[j] = (a - b) * h[j]
<1> DEFINE B == {j \in 0 .. m : f[j] - g[j] # (a - b) * h[j]}
<1> SUFFICES ASSUME B # {} PROVE FALSE
  OBVIOUS
<1>1. /\ m \in Nat /\ a \in Nat /\ f[0] = a /\ \A j \in 0 .. m : f[j] \in Nat
      /\ \A j \in 1 .. m : w[j] \in Nat /\ f[j] = 10 * f[j - 1] + w[j]
  BY DEF Counts
<1>2. /\ b \in Nat /\ g[0] = b /\ \A j \in 0 .. m : g[j] \in Nat
      /\ \A j \in 1 .. m : g[j] = 10 * g[j - 1] + w[j]
  BY DEF Counts
<1>3. /\ h[0] = 1 /\ \A j \in 0 .. m : h[j] \in Nat
      /\ \A j \in 1 .. m : h[j] = 10 * h[j - 1] + 0
  BY DEF Counts
<1> DEFINE u == Min(B)
<1>4. u \in B /\ \A y \in B : u <= y
  <2>1. PICK c \in B : TRUE
    OBVIOUS
  <2>2. B \in SUBSET Nat
    BY <1>1
  <2> HIDE DEF B
  <2> QED BY <2>1, <2>2, LeastOf
<1> HIDE DEF u
<1>5. u \in 0 .. m /\ f[u] - g[u] # (a - b) * h[u]
  BY <1>4
<1>6. u # 0
  <2>1. a - b = (a - b) * 1
    BY <1>1, <1>2
  <2> QED BY <1>1, <1>2, <1>3, <1>5, <2>1
<1>7. u \in 1 .. m /\ u - 1 \in 0 .. m /\ ~(u <= u - 1)
  BY <1>1, <1>5, <1>6
<1>8. u - 1 \notin B
  <2> HIDE DEF B
  <2> QED BY <1>4, <1>7
<1>9. f[u - 1] - g[u - 1] = (a - b) * h[u - 1]
  BY <1>7, <1>8
<1> HIDE DEF B
<1>10. f[u] - g[u] = 10 * (f[u - 1] - g[u - 1])
  <2>1. f[u - 1] \in Nat /\ g[u - 1] \in Nat /\ w[u] \in Nat
    BY <1>1, <1>2, <1>7
  <2>2. f[u] = 10 * f[u - 1] + w[u] /\ g[u] = 10 * g[u - 1] + w[u]
    BY <1>1, <1>2, <1>7
  <2> QED BY <2>1, <2>2
<1>11. h[u - 1] \in Nat /\ h[u] = 10 * h[u - 1]
  BY <1>3, <1>7
<1>12. 10 * ((a - b) * h[u - 1]) = (a - b) * (10 * h[u - 1])
  <2>1. \A p, q \in Int : 10 * (p * q) = p * (10 * q)
    OBVIOUS
  <2>2. a - b \in Int /\ h[u - 1] \in Int
    BY <1>1, <1>2, <1>11
  <2> QED BY <2>1, <2>2
<1> QED BY <1>5, <1>9, <1>10, <1>11, <1>12

LEMMA CountsSame ==
  ASSUME NEW m, NEW a, NEW w, NEW v, NEW f, NEW g,
         Counts(f, a, w, m), Counts(g, a, v, m), \A j \in 1 .. m : w[j] = v[j]
  PROVE  \A j \in 0 .. m : f[j] = g[j]
<1>1. m \in Nat /\ a \in Nat /\ \A j \in 0 .. m : f[j] \in Nat /\ g[j] \in Nat
  BY DEF Counts
<1> DEFINE z == [j \in 1 .. m |-> 0]
<1>2. PICK h : Counts(h, 1, z, m)
  <2>1. \A j \in 1 .. m : z[j] \in Nat
    OBVIOUS
  <2>2. PICK h : Horner(h, 1, z, m)
    BY <1>1, HornerExists
  <2> HIDE DEF z
  <2> QED BY <1>1, <2>1, <2>2, HornerCounts
<1>3. \A j \in 0 .. m : f[j] - g[j] = (a - a) * h[j]
  BY <1>2, CountsApart
<1>4. \A j \in 0 .. m : h[j] \in Nat
  BY <1>2 DEF Counts
<1> TAKE j \in 0 .. m
<1>5. (a - a) * h[j] = 0
  BY <1>1, <1>4
<1> QED BY <1>1, <1>3, <1>5

\* The first digits of a reading are a reading, and so is the rest of it.
LEMMA CountsParts ==
  ASSUME NEW m, NEW a, NEW w, NEW f, Counts(f, a, w, m), NEW d \in 0 .. m
  PROVE  /\ Counts(f, a, w, d)
         /\ Counts([j \in 0 .. m - d |-> f[d + j]], f[d], [j \in 1 .. m - d |-> w[d + j]], m - d)
<1>1. /\ m \in Nat /\ a \in Nat /\ f[0] = a /\ \A j \in 0 .. m : f[j] \in Nat
      /\ \A j \in 1 .. m : w[j] \in Nat /\ f[j] = 10 * f[j - 1] + w[j]
  BY DEF Counts
<1>2. Counts(f, a, w, d)
  BY <1>1 DEF Counts
<1> DEFINE g == [j \in 0 .. m - d |-> f[d + j]]
           v == [j \in 1 .. m - d |-> w[d + j]]
<1>3. m - d \in Nat /\ f[d] \in Nat /\ g[0] = f[d]
  BY <1>1
<1>4. \A j \in 0 .. m - d : g[j] \in Nat
  BY <1>1
<1>5. \A j \in 1 .. m - d : v[j] \in Nat /\ g[j] = 10 * g[j - 1] + v[j]
  <2> TAKE j \in 1 .. m - d
  <2>1. d + j \in 1 .. m /\ j - 1 \in 0 .. m - d /\ j \in 0 .. m - d /\ d + (j - 1) = d + j - 1
    BY <1>1
  <2>2. g[j] = f[d + j] /\ g[j - 1] = f[d + j - 1] /\ v[j] = w[d + j]
    BY <2>1
  <2> QED BY <1>1, <2>1, <2>2
<1> HIDE DEF g, v
<1>6. Counts(g, f[d], v, m - d)
  BY <1>3, <1>4, <1>5 DEF Counts
<1> QED BY <1>2, <1>6 DEF g, v

-----------------------------------------------------------------------------
(* Powers of ten.                                                          *)

Noughts(m) == [j \in 1 .. m |-> 0]

LEMMA NoughtsAre == \A m \in Nat : \A j \in 1 .. m : Noughts(m)[j] = 0
BY DEF Noughts

\* 1 followed by noughts
OneAnd(k) == CHOOSE f : Horner(f, 1, Noughts(k), k)

LEMMA OneAndCounts ==
  ASSUME NEW k \in Nat
  PROVE  Counts(OneAnd(k), 1, Noughts(k), k)
<1>1. \E f : Horner(f, 1, Noughts(k), k)
  BY HornerExists
<1>2. Horner(OneAnd(k), 1, Noughts(k), k)
  BY <1>1 DEF OneAnd
<1>3. \A j \in 1 .. k : Noughts(k)[j] \in Nat
  BY NoughtsAre
<1> QED BY <1>2, <1>3, HornerCounts

LEMMA TenIs == Ten = [k \in Nat |-> IF k = 0 THEN 1 ELSE 10 * Ten[k - 1]]
<1> DEFINE F == [k \in Nat |-> OneAnd(k)[k]]
<1>1. \A k \in Nat : F[k] = IF k = 0 THEN 1 ELSE 10 * F[k - 1]
  <2> TAKE k \in Nat
  <2>1. Counts(OneAnd(k), 1, Noughts(k), k)
    BY OneAndCounts
  <2>2. CASE k = 0
    BY <2>1, <2>2 DEF Counts
  <2>3. CASE k # 0
    <3>1. k - 1 \in Nat /\ k - 1 \in 0 .. k /\ k \in 1 .. k /\ k - 1 \in 0 .. k - 1
      BY <2>3
    <3>2. Counts(OneAnd(k), 1, Noughts(k), k - 1)
      BY <2>1, <3>1, CountsParts
    <3>3. Counts(OneAnd(k - 1), 1, Noughts(k - 1), k - 1)
      BY <3>1, OneAndCounts
    <3>4. \A j \in 1 .. k - 1 : Noughts(k)[j] = Noughts(k - 1)[j]
      BY <3>1 DEF Noughts
    <3>5. OneAnd(k)[k - 1] = OneAnd(k - 1)[k - 1]
      BY <3>1, <3>2, <3>3, <3>4, CountsSame
    <3>6. OneAnd(k)[k] = 10 * OneAnd(k)[k - 1] + Noughts(k)[k] /\ OneAnd(k)[k - 1] \in Nat
      BY <2>1, <3>1 DEF Counts
    <3>7. Noughts(k)[k] = 0
      BY <3>1, NoughtsAre
    <3>8. F[k] = OneAnd(k)[k] /\ F[k - 1] = OneAnd(k - 1)[k - 1]
      BY <3>1
    <3> QED BY <2>3, <3>5, <3>6, <3>7, <3>8
  <2> QED BY <2>2, <2>3
<1>2. F = [k \in Nat |-> F[k]]
  OBVIOUS
<1> HIDE DEF F
<1>3. F = [k \in Nat |-> IF k = 0 THEN 1 ELSE 10 * F[k - 1]]
  BY <1>1, <1>2
<1>4. \E f : f = [k \in Nat |-> IF k = 0 THEN 1 ELSE 10 * f[k - 1]]
  BY <1>3
<1> QED BY <1>4 DEF Ten

LEMMA Tens ==
  /\ Ten[0] = 1 /\ Ten[1] = 10 /\ Ten[2] = 100 /\ Ten[3] = 1000 /\ Ten[4] = 10000
  /\ \A k \in Nat \ {0} : Ten[k] = 10 * Ten[k - 1]
<1>1. \A k \in Nat : Ten[k] = IF k = 0 THEN 1 ELSE 10 * Ten[k - 1]
  BY TenIs
<1>2. \A k \in Nat \ {0} : Ten[k] = 10 * Ten[k - 1]
  BY <1>1
<1>3. Ten[0] = 1
  BY <1>1
<1>4. Ten[1] = 10
  BY <1>2, <1>3
<1>5. Ten[2] = 100
  BY <1>2, <1>4
<1>6. Ten[3] = 1000
  BY <1>2, <1>5
<1>7. Ten[4] = 10000
  BY <1>2, <1>6
<1> QED BY <1>2, <1>3, <1>4, <1>5, <1>6, <1>7

LEMMA TenCounts ==
  ASSUME NEW m \in Nat
  PROVE  Counts(Ten, 1, Noughts(m), m)
<1>1. Counts(OneAnd(m), 1, Noughts(m), m)
  BY OneAndCounts
<1> DEFINE B == {j \in 0 .. m : OneAnd(m)[j] # Ten[j]}
<1>2. /\ OneAnd(m)[0] = 1 /\ \A j \in 0 .. m : OneAnd(m)[j] \in Nat
      /\ \A j \in 1 .. m : OneAnd(m)[j] = 10 * OneAnd(m)[j - 1]
  <2>1. /\ OneAnd(m)[0] = 1 /\ \A j \in 0 .. m : OneAnd(m)[j] \in Nat
        /\ \A j \in 1 .. m : OneAnd(m)[j] = 10 * OneAnd(m)[j - 1] + Noughts(m)[j]
    BY <1>1 DEF Counts
  <2>2. \A j \in 1 .. m : Noughts(m)[j] = 0
    BY NoughtsAre
  <2>3. \A j \in 1 .. m : OneAnd(m)[j - 1] \in Nat
    <3> TAKE j \in 1 .. m
    <3>1. j - 1 \in 0 .. m
      OBVIOUS
    <3> QED BY <2>1, <3>1
  <2> QED BY <2>1, <2>2, <2>3
<1>3. B = {}
  <2> SUFFICES ASSUME B # {} PROVE FALSE
    OBVIOUS
  <2> DEFINE u == Min(B)
  <2>1. u \in B /\ \A y \in B : u <= y
    <3>1. PICK b \in B : TRUE
      OBVIOUS
    <3>2. B \in SUBSET Nat
      OBVIOUS
    <3> HIDE DEF B
    <3> QED BY <3>1, <3>2, LeastOf
  <2> HIDE DEF u
  <2>2. u \in 0 .. m /\ OneAnd(m)[u] # Ten[u] /\ u # 0
    BY <1>2, <2>1, Tens
  <2>3. u \in 1 .. m /\ u - 1 \in 0 .. m /\ ~(u <= u - 1) /\ u \in Nat \ {0}
    BY <2>2
  <2>4. u - 1 \notin B
    <3> HIDE DEF B
    <3> QED BY <2>1, <2>3
  <2>5. OneAnd(m)[u - 1] = Ten[u - 1]
    BY <2>3, <2>4
  <2>6. OneAnd(m)[u] = 10 * OneAnd(m)[u - 1] /\ Ten[u] = 10 * Ten[u - 1]
    BY <1>2, <2>3, Tens
  <2> QED BY <2>2, <2>5, <2>6
<1>4. \A j \in 0 .. m : OneAnd(m)[j] = Ten[j]
  BY <1>3
<1>5. \A j \in 0 .. m : Ten[j] \in Nat
  BY <1>2, <1>4
<1>6. \A j \in 1 .. m : Noughts(m)[j] \in Nat /\ Ten[j] = 10 * Ten[j - 1] + Noughts(m)[j]
  <2> TAKE j \in 1 .. m
  <2>1. j - 1 \in 0 .. m /\ j \in Nat \ {0} /\ Noughts(m)[j] = 0
    BY NoughtsAre
  <2>2. Ten[j - 1] \in Nat /\ Ten[j] = 10 * Ten[j - 1]
    BY <1>5, <2>1, Tens
  <2> QED BY <2>1, <2>2
<1> QED BY <1>5, <1>6, Tens DEF Counts

LEMMA TenType == \A k \in Nat : Ten[k] \in Nat \ {0}
<1> TAKE k \in Nat
<1>1. \A j \in 0 .. k : Ten[j] \in Nat
  BY TenCounts DEF Counts
<1> DEFINE B == {j \in 0 .. k : Ten[j] = 0}
<1>2. B = {}
  <2> SUFFICES ASSUME B # {} PROVE FALSE
    OBVIOUS
  <2> DEFINE u == Min(B)
  <2>1. u \in B /\ \A y \in B : u <= y
    <3>1. PICK b \in B : TRUE
      OBVIOUS
    <3>2. B \in SUBSET Nat
      OBVIOUS
    <3> HIDE DEF B
    <3> QED BY <3>1, <3>2, LeastOf
  <2> HIDE DEF u
  <2>2. u \in 0 .. k /\ Ten[u] = 0 /\ u # 0
    BY <2>1, Tens
  <2>3. u - 1 \in 0 .. k /\ ~(u <= u - 1) /\ u \in Nat \ {0}
    BY <2>2
  <2>4. u - 1 \notin B
    <3> HIDE DEF B
    <3> QED BY <2>1, <2>3
  <2>5. Ten[u - 1] # 0 /\ Ten[u - 1] \in Nat /\ Ten[u] = 10 * Ten[u - 1]
    BY <1>1, <2>3, <2>4, Tens
  <2> QED BY <2>2, <2>5
<1>3. k \in 0 .. k
  OBVIOUS
<1> QED BY <1>1, <1>2, <1>3

-----------------------------------------------------------------------------
(* What a sequence of digits stands for.                                   *)

DigitSeq == Seq(0 .. 9)

\* Value reads the digits.
LEMMA ValueCounts ==
  ASSUME NEW s \in DigitSeq
  PROVE  \E f : Counts(f, 0, s, Len(s)) /\ Value(s) = f[Len(s)]
<1> DEFINE m == Len(s)
           h == CHOOSE f : f = [j \in 0 .. m |-> IF j = 0 THEN 0 ELSE 10 * f[j - 1] + s[j]]
<1>1. m \in Nat /\ \A j \in 1 .. m : s[j] \in Nat
  BY DEF DigitSeq
<1>2. Value(s) = h[m]
  BY DEF Value
<1>3. \E f : f = [j \in 0 .. m |-> IF j = 0 THEN 0 ELSE 10 * f[j - 1] + s[j]]
  <2>1. \E f : Horner(f, 0, s, m)
    BY <1>1, HornerExists
  <2> QED BY <2>1 DEF Horner
<1>4. h = [j \in 0 .. m |-> IF j = 0 THEN 0 ELSE 10 * h[j - 1] + s[j]]
  BY <1>3
<1> HIDE DEF h, m
<1>5. Horner(h, 0, s, m)
  BY <1>4 DEF Horner
<1>6. Counts(h, 0, s, m)
  BY <1>1, <1>5, HornerCounts
<1> QED BY <1>2, <1>6 DEF m

\* Any reading ends with it.
LEMMA ValueIs ==
  ASSUME NEW s \in DigitSeq, NEW f, NEW w, Counts(f, 0, w, Len(s)),
         \A j \in 1 .. Len(s) : w[j] = s[j]
  PROVE  Value(s) = f[Len(s)]
<1>1. PICK g : Counts(g, 0, s, Len(s)) /\ Value(s) = g[Len(s)]
  BY ValueCounts
<1>2. Len(s) \in 0 .. Len(s)
  BY DEF DigitSeq
<1> QED BY <1>1, <1>2, CountsSame

LEMMA ValueType ==
  ASSUME NEW s \in DigitSeq
  PROVE  Value(s) \in Nat
<1>1. PICK f : Counts(f, 0, s, Len(s)) /\ Value(s) = f[Len(s)]
  BY ValueCounts
<1>2. Len(s) \in 0 .. Len(s)
  BY DEF DigitSeq
<1> QED BY <1>1, <1>2 DEF Counts

LEMMA ValueConcat ==
  ASSUME NEW s \in DigitSeq, NEW t \in DigitSeq
  PROVE  /\ s \o t \in DigitSeq /\ Len(s \o t) = Len(s) + Len(t)
         /\ Value(s \o t) = Value(s) * Ten[Len(t)] + Value(t)
<1> DEFINE a == Len(s)
           b == Len(t)
           r == s \o t
<1>1. a \in Nat /\ b \in Nat /\ a \in 0 .. a /\ b \in 0 .. b /\ a \in 0 .. a + b
  BY DEF DigitSeq
<1>2. /\ r \in DigitSeq /\ Len(r) = a + b
      /\ \A j \in 1 .. a + b : r[j] = IF j <= a THEN s[j] ELSE t[j - a]
  BY ConcatProperties DEF DigitSeq
<1>3. PICK f : Counts(f, 0, r, a + b) /\ Value(r) = f[a + b]
  BY <1>2, ValueCounts
<1> DEFINE g == [j \in 0 .. a + b - a |-> f[a + j]]
           v == [j \in 1 .. a + b - a |-> r[a + j]]
<1> HIDE DEF r
<1>4. Counts(f, 0, r, a) /\ Counts(g, f[a], v, a + b - a)
  <2> HIDE DEF a, b
  <2> QED BY <1>1, <1>3, CountsParts
<1>5. a + b - a = b /\ g[b] = f[a + b]
  BY <1>1
<1>6. \A j \in 1 .. a : r[j] = s[j]
  <2> TAKE j \in 1 .. a
  <2>1. j \in 1 .. a + b /\ j <= a
    BY <1>1
  <2> QED BY <1>2, <2>1
<1>7. \A j \in 1 .. b : v[j] = t[j]
  <2> TAKE j \in 1 .. b
  <2>1. a + j \in 1 .. a + b /\ ~(a + j <= a) /\ a + j - a = j /\ v[j] = r[a + j]
    BY <1>1
  <2> QED BY <1>2, <2>1
<1> HIDE DEF g, v
<1>8. Value(s) = f[a]
  BY <1>4, <1>6, ValueIs
<1>9. PICK h : Counts(h, 0, t, b) /\ Value(t) = h[b]
  BY ValueCounts
<1>10. Counts(g, f[a], v, b) /\ Counts(Ten, 1, [j \in 1 .. b |-> 0], b)
  BY <1>1, <1>4, <1>5, TenCounts DEF Noughts
<1>11. \A j \in 0 .. b : g[j] - h[j] = (f[a] - 0) * Ten[j]
  BY <1>7, <1>9, <1>10, CountsApart
<1>12. g[b] - h[b] = (f[a] - 0) * Ten[b]
  BY <1>1, <1>11
<1>13. f[a] \in Nat /\ g[b] \in Nat /\ h[b] \in Nat /\ Ten[b] \in Nat
  BY <1>1, <1>9, <1>10 DEF Counts
<1>14. g[b] = f[a] * Ten[b] + h[b]
  <2>1. f[a] - 0 = f[a]
    BY <1>13
  <2>2. f[a] * Ten[b] \in Nat
    BY <1>13
  <2> QED BY <1>12, <1>13, <2>1, <2>2
<1> QED BY <1>2, <1>3, <1>5, <1>8, <1>9, <1>14 DEF r

LEMMA ValueBound ==
  ASSUME NEW s \in DigitSeq
  PROVE  Value(s) < Ten[Len(s)]
<1> DEFINE m == Len(s)
<1>1. PICK f : Counts(f, 0, s, m) /\ Value(s) = f[m]
  BY ValueCounts
<1>2. m \in Nat /\ m \in 0 .. m /\ \A j \in 1 .. m : s[j] \in 0 .. 9
  BY DEF DigitSeq
<1>3. /\ f[0] = 0 /\ \A j \in 0 .. m : f[j] \in Nat
      /\ \A j \in 1 .. m : f[j] = 10 * f[j - 1] + s[j]
  BY <1>1 DEF Counts
<1>4. \A j \in 0 .. m : Ten[j] \in Nat
  BY <1>2, TenType
<1> DEFINE B == {j \in 0 .. m : ~(f[j] < Ten[j])}
<1> HIDE DEF m
<1>5. B = {}
  <2> SUFFICES ASSUME B # {} PROVE FALSE
    OBVIOUS
  <2> DEFINE u == Min(B)
  <2>1. u \in B /\ \A y \in B : u <= y
    <3>1. PICK b \in B : TRUE
      OBVIOUS
    <3>2. B \in SUBSET Nat
      BY <1>2
    <3> HIDE DEF B
    <3> QED BY <3>1, <3>2, LeastOf
  <2> HIDE DEF u
  <2>2. u \in 0 .. m /\ ~(f[u] < Ten[u]) /\ u # 0
    BY <1>3, <2>1, Tens
  <2>3. u \in 1 .. m /\ u - 1 \in 0 .. m /\ ~(u <= u - 1) /\ u \in Nat \ {0}
    BY <1>2, <2>2
  <2>4. u - 1 \notin B
    <3> HIDE DEF B
    <3> QED BY <2>1, <2>3
  <2>5. f[u - 1] < Ten[u - 1]
    BY <2>3, <2>4
  <2>6. f[u] = 10 * f[u - 1] + s[u] /\ Ten[u] = 10 * Ten[u - 1] /\ s[u] \in 0 .. 9
    BY <1>2, <1>3, <2>3, Tens
  <2>7. f[u - 1] \in Nat /\ Ten[u - 1] \in Nat
    BY <1>3, <1>4, <2>3
  <2> QED BY <2>2, <2>5, <2>6, <2>7
<1> QED BY <1>1, <1>2, <1>5 DEF m

\* Short ones.
LEMMA ValueShort ==
  ASSUME NEW s \in DigitSeq
  PROVE  /\ Len(s) = 0 => Value(s) = 0
         /\ Len(s) = 1 => Value(s) = s[1]
         /\ Len(s) = 2 => Value(s) = 10 * s[1] + s[2]
         /\ Len(s) = 3 => Value(s) = 100 * s[1] + 10 * s[2] + s[3]
         /\ Len(s) = 4 => Value(s) = 1000 * s[1] + 100 * s[2] + 10 * s[3] + s[4]
<1> DEFINE m == Len(s)
<1>1. PICK f : Counts(f, 0, s, m) /\ Value(s) = f[m]
  BY ValueCounts
<1>2. \A j \in 1 .. m : s[j] \in 0 .. 9
  BY DEF DigitSeq
<1>3. m \in Nat /\ f[0] = 0 /\ \A j \in 1 .. m : f[j] = 10 * f[j - 1] + s[j]
  BY <1>1 DEF Counts
<1> HIDE DEF m
<1>4. m >= 1 => f[1] = s[1] /\ s[1] \in 0 .. 9
  <2> SUFFICES ASSUME m >= 1 PROVE f[1] = s[1] /\ s[1] \in 0 .. 9
    OBVIOUS
  <2>1. 1 \in 1 .. m /\ 1 - 1 = 0
    BY <1>3
  <2> QED BY <1>2, <1>3, <2>1
<1>5. m >= 2 => f[2] = 10 * f[1] + s[2] /\ s[2] \in 0 .. 9
  <2> SUFFICES ASSUME m >= 2 PROVE f[2] = 10 * f[1] + s[2] /\ s[2] \in 0 .. 9
    OBVIOUS
  <2>1. 2 \in 1 .. m /\ 2 - 1 = 1
    BY <1>3
  <2> QED BY <1>2, <1>3, <2>1
<1>6. m >= 3 => f[3] = 10 * f[2] + s[3] /\ s[3] \in 0 .. 9
  <2> SUFFICES ASSUME m >= 3 PROVE f[3] = 10 * f[2] + s[3] /\ s[3] \in 0 .. 9
    OBVIOUS
  <2>1. 3 \in 1 .. m /\ 3 - 1 = 2
    BY <1>3
  <2> QED BY <1>2, <1>3, <2>1
<1>7. m >= 4 => f[4] = 10 * f[3] + s[4] /\ s[4] \in 0 .. 9
  <2> SUFFICES ASSUME m >= 4 PROVE f[4] = 10 * f[3] + s[4] /\ s[4] \in 0 .. 9
    OBVIOUS
  <2>1. 4 \in 1 .. m /\ 4 - 1 = 3
    BY <1>3
  <2> QED BY <1>2, <1>3, <2>1
<1>8. /\ m = 0 => f[m] = 0
      /\ m = 1 => f[m] = s[1]
      /\ m = 2 => f[m] = 10 * s[1] + s[2]
      /\ m = 3 => f[m] = 100 * s[1] + 10 * s[2] + s[3]
      /\ m = 4 => f[m] = 1000 * s[1] + 100 * s[2] + 10 * s[3] + s[4]
  BY <1>3, <1>4, <1>5, <1>6, <1>7, SMTT(20)
<1> QED BY <1>1, <1>8 DEF m

\* s is nothing but zeros
AllZero(s) == \A j \in 1 .. Len(s) : s[j] = 0

LEMMA ValueZero ==
  ASSUME NEW s \in DigitSeq, AllZero(s)
  PROVE  Value(s) = 0
<1> DEFINE f == [j \in 0 .. Len(s) |-> 0]
<1>1. Len(s) \in Nat /\ \A j \in 1 .. Len(s) : s[j] = 0
  BY DEF DigitSeq, AllZero
<1>2. \A j \in 1 .. Len(s) : j \in 0 .. Len(s) /\ j - 1 \in 0 .. Len(s)
  BY <1>1
<1>3. Counts(f, 0, s, Len(s))
  BY <1>1, <1>2 DEF Counts
<1>4. f[Len(s)] = 0
  BY <1>1
<1> HIDE DEF f
<1>5. Value(s) = f[Len(s)]
  BY <1>3, ValueIs
<1> QED BY <1>4, <1>5

LEMMA ZerosAre ==
  ASSUME NEW k \in Nat
  PROVE  Zeros(k) \in DigitSeq /\ Len(Zeros(k)) = k /\ AllZero(Zeros(k)) /\ Value(Zeros(k)) = 0
<1>1. Zeros(k) \in DigitSeq /\ Len(Zeros(k)) = k
  BY DEF Zeros, DigitSeq
<1>2. AllZero(Zeros(k))
  BY <1>1 DEF Zeros, AllZero
<1> QED BY <1>1, <1>2, ValueZero

-----------------------------------------------------------------------------
(* Printing.                                                               *)

LEMMA Powers ==
  /\ 10 ^ 0 = 1 /\ 10 ^ 1 = 10 /\ 10 ^ 2 = 100 /\ 10 ^ 3 = 1000 /\ 10 ^ 4 = 10000
  /\ 10 ^ 5 = 100000 /\ 10 ^ 6 = 1000000 /\ 10 ^ 7 = 10000000 /\ 10 ^ 8 = 100000000
  /\ 10 ^ 9 = 1000000000
  /\ 2 ^ 5 = 32 /\ 2 ^ 6 = 64 /\ 2 ^ 7 = 128 /\ 2 ^ 8 = 256 /\ 2 ^ 11 = 2048 /\ 2 ^ 13 = 8192
OBVIOUS

\* k digits are enough for m, but not fewer
Needs(m, k) ==
    CASE k = 0 -> m = 0
      [] k = 1 -> 1 <= m /\ m < 10
      [] k = 2 -> 10 <= m /\ m < 100
      [] k = 3 -> 100 <= m /\ m < 1000
      [] k = 4 -> 1000 <= m /\ m < 10000
      [] OTHER -> FALSE

LEMMA DigitsNeeded ==
  ASSUME NEW m \in Nat, m < 10000
  PROVE  /\ Min({j \in 0 .. 9 : m < 10 ^ j}) \in 0 .. 4
         /\ Needs(m, Min({j \in 0 .. 9 : m < 10 ^ j}))
<1> DEFINE S == {j \in 0 .. 9 : m < 10 ^ j}
           u == Min(S)
<1>1. /\ (0 \in S) <=> (m < 1)
      /\ (1 \in S) <=> (m < 10)
      /\ (2 \in S) <=> (m < 100)
      /\ (3 \in S) <=> (m < 1000)
      /\ 4 \in S
  BY Powers
<1>2. S \subseteq 0 .. 9
  OBVIOUS
<1>3. u \in S /\ \A y \in S : u <= y
  <2> HIDE DEF S
  <2>1. S \in SUBSET Nat /\ 4 \in S
    BY <1>1, <1>2
  <2> QED BY <2>1, LeastOf
<1> HIDE DEF S, u
<1>4. u \in {0, 1, 2, 3, 4}
  <2>1. u \in 0 .. 9 /\ u <= 4
    BY <1>1, <1>2, <1>3
  <2> QED BY <2>1
<1>5. /\ m < 1 => u = 0
      /\ 1 <= m /\ m < 10 => u = 1
      /\ 10 <= m /\ m < 100 => u = 2
      /\ 100 <= m /\ m < 1000 => u = 3
      /\ 1000 <= m => u = 4
  BY <1>1, <1>3, <1>4
<1>6. Needs(m, u)
  BY <1>4, <1>5 DEF Needs
<1>7. u \in 0 .. 4
  BY <1>4
<1> QED BY <1>6, <1>7 DEF S, u

Pow(j) == 10 ^ j

LEMMA Pows == Pow(0) = 1 /\ Pow(1) = 10 /\ Pow(2) = 100 /\ Pow(3) = 1000
BY Powers DEF Pow

\* Digits has the digits of m, none for 0.
LEMMA DigitsAre ==
  ASSUME NEW m \in Nat, m < 10000
  PROVE  /\ Digits(m) \in DigitSeq /\ Len(Digits(m)) \in 0 .. 4
         /\ Value(Digits(m)) = m
         /\ Len(Digits(m)) = 0 <=> m = 0
<1> DEFINE d == Digits(m)
           k == Min({j \in 0 .. 9 : m < 10 ^ j})
<1>1. k \in 0 .. 4 /\ Needs(m, k)
  BY DigitsNeeded
<1>2. d = [i \in 1 .. k |-> (m \div Pow(k - i)) % 10]
  BY DEF Digits, Pow
<1> HIDE DEF k
<1>3. k \in {0, 1, 2, 3, 4}
  BY <1>1
<1>4. \A i \in 1 .. k : d[i] = (m \div Pow(k - i)) % 10
  BY <1>2
<1>5. \A i \in 1 .. k : d[i] \in 0 .. 9
  <2> TAKE i \in 1 .. k
  <2>1. k - i \in {0, 1, 2, 3}
    BY <1>3
  <2>2. \A q \in {1, 10, 100, 1000} : (m \div q) % 10 \in 0 .. 9
    OBVIOUS
  <2>3. Pow(k - i) \in {1, 10, 100, 1000}
    BY <2>1, Pows
  <2> QED BY <1>4, <2>2, <2>3
<1>6. d \in DigitSeq /\ Len(d) = k
  <2>1. d \in [1 .. k -> 0 .. 9] /\ k \in Nat
    BY <1>1, <1>2, <1>5
  <2> HIDE DEF d
  <2> QED BY <2>1 DEF DigitSeq
<1> HIDE DEF d
<1>7. CASE k = 0
  <2>1. Value(d) = 0
    BY <1>6, <1>7, ValueShort
  <2> QED BY <1>1, <1>6, <1>7, <2>1 DEF Needs, d
<1>8. CASE k = 1
  <2>1. Value(d) = d[1]
    BY <1>6, <1>8, ValueShort
  <2>2. d[1] = (m \div Pow(1 - 1)) % 10
    BY <1>4, <1>8
  <2>3. 1 <= m /\ m < 10
    BY <1>1, <1>8 DEF Needs
  <2>4. d[1] = m
    BY <2>2, <2>3, Pows
  <2> QED BY <1>6, <1>8, <2>1, <2>3, <2>4 DEF d
<1>9. CASE k = 2
  <2>1. Value(d) = 10 * d[1] + d[2]
    BY <1>6, <1>9, ValueShort
  <2>2. d[1] = (m \div Pow(2 - 1)) % 10 /\ d[2] = (m \div Pow(2 - 2)) % 10
    BY <1>4, <1>9
  <2>3. 10 <= m /\ m < 100
    BY <1>1, <1>9 DEF Needs
  <2>4. d[1] = (m \div 10) % 10 /\ d[2] = m % 10
    BY <2>2, Pows
  <2>5. 10 * d[1] + d[2] = m
    BY <2>3, <2>4
  <2> QED BY <1>6, <1>9, <2>1, <2>3, <2>5 DEF d
<1>10. CASE k = 3
  <2>1. Value(d) = 100 * d[1] + 10 * d[2] + d[3]
    BY <1>6, <1>10, ValueShort
  <2>2. d[1] = (m \div Pow(3 - 1)) % 10 /\ d[2] = (m \div Pow(3 - 2)) % 10 /\ d[3] = (m \div Pow(3 - 3)) % 10
    BY <1>4, <1>10
  <2>3. 100 <= m /\ m < 1000
    BY <1>1, <1>10 DEF Needs
  <2>4. d[1] = (m \div 100) % 10 /\ d[2] = (m \div 10) % 10 /\ d[3] = m % 10
    BY <2>2, Pows
  <2>5. 100 * d[1] + 10 * d[2] + d[3] = m
    BY <2>3, <2>4
  <2> QED BY <1>6, <1>10, <2>1, <2>3, <2>5 DEF d
<1>11. CASE k = 4
  <2>1. Value(d) = 1000 * d[1] + 100 * d[2] + 10 * d[3] + d[4]
    BY <1>6, <1>11, ValueShort
  <2>2. /\ d[1] = (m \div Pow(4 - 1)) % 10 /\ d[2] = (m \div Pow(4 - 2)) % 10
        /\ d[3] = (m \div Pow(4 - 3)) % 10 /\ d[4] = (m \div Pow(4 - 4)) % 10
    BY <1>4, <1>11
  <2>3. 1000 <= m /\ m < 10000
    BY <1>1, <1>11 DEF Needs
  <2>4. d[1] = (m \div 1000) % 10 /\ d[2] = (m \div 100) % 10 /\ d[3] = (m \div 10) % 10 /\ d[4] = m % 10
    BY <2>2, Pows
  <2>5. 1000 * d[1] + 100 * d[2] + 10 * d[3] + d[4] = m
    BY <2>3, <2>4
  <2> QED BY <1>6, <1>11, <2>1, <2>3, <2>5 DEF d
<1> QED BY <1>3, <1>7, <1>8, <1>9, <1>10, <1>11

\* numerals
IsNumeral(n) == n.sign \in {"", "+", "-"} /\ n.int \in DigitSeq /\ n.frac \in DigitSeq

\* a number taken apart
IsBcd(b) ==
    /\ DOMAIN b = {"mant", "expo", "sign"} /\ b.mant \in Nat /\ b.mant < 10000
    /\ b.expo \in Int /\ b.sign \in 0 .. 1

\* n is b, written out
Writes(n, b) ==
    /\ n.sign = IF b.sign = 1 THEN "-" ELSE ""
    /\ n.int \in DigitSeq /\ n.frac \in DigitSeq /\ n.int # <<>>
    /\ Len(n.frac) = IF b.expo < 0 THEN -b.expo ELSE 0
    /\ Value(n.int \o n.frac) = b.mant * Ten[IF b.expo < 0 THEN 0 ELSE b.expo]

LEMMA NumeralHas ==
  ASSUME NEW n, NEW s, NEW i, NEW f, n = [sign |-> s, int |-> i, frac |-> f]
  PROVE  n.sign = s /\ n.int = i /\ n.frac = f
OBVIOUS

LEMMA NoDigit == <<>> \in DigitSeq /\ Len(<<>>) = 0 /\ Value(<<>>) = 0
<1>1. <<>> \in DigitSeq /\ Len(<<>>) = 0
  BY DEF DigitSeq
<1> QED BY <1>1, ValueShort

LEMMA OneZero == <<0>> \in DigitSeq /\ Len(<<0>>) = 1 /\ Value(<<0>>) = 0
<1>1. <<0>> \in DigitSeq /\ Len(<<0>>) = 1 /\ <<0>>[1] = 0
  BY DEF DigitSeq
<1> QED BY <1>1, ValueShort

\* Without a point: zeros of the exponent behind the digits.
LEMMA WritesWhole ==
  ASSUME NEW b, IsBcd(b), b.expo >= 0
  PROVE  Writes(bcdtostr(b), b)
<1> DEFINE d == Digits(b.mant)
           e == b.expo
           l == IF Len(d) > 0 THEN SubSeq(d, 1, Len(d) - 0) ELSE <<0>>
           z == IF e > 0 THEN e ELSE 0
           r == IF Len(d) >= 0 THEN SubSeq(d, Len(d) - 0 + 1, Len(d)) ELSE Zeros(0 - Len(d)) \o d
<1>1. b.mant \in Nat /\ b.mant < 10000 /\ e \in Nat /\ ~(e < 0) /\ z = e
  BY DEF IsBcd
<1>2. bcdtostr(b) = [sign |-> IF b.sign = 1 THEN "-" ELSE "", int |-> l \o Zeros(z), frac |-> r]
  BY <1>1 DEF bcdtostr
<1>3. d \in DigitSeq /\ Len(d) \in 0 .. 4 /\ Value(d) = b.mant
  BY <1>1, DigitsAre
<1>4. r = <<>>
  BY <1>3 DEF DigitSeq
<1>5. l \in DigitSeq /\ Len(l) > 0 /\ Value(l) = b.mant /\ Len(l) \in Nat
  <2>1. CASE Len(d) > 0
    <3>1. Len(d) - 0 = Len(d)
      BY <1>3
    <3>2. SubSeq(d, 1, Len(d)) = d
      BY <1>3, SubSeqFull DEF DigitSeq
    <3>3. l = d
      BY <2>1, <3>1, <3>2
    <3> HIDE DEF l, d
    <3> QED BY <1>3, <2>1, <3>3
  <2>2. CASE ~(Len(d) > 0)
    <3>1. Len(d) = 0
      BY <1>3, <2>2
    <3>2. Value(d) = 0
      BY <1>3, <3>1, ValueShort
    <3>3. l = <<0>>
      BY <2>2
    <3> HIDE DEF l, d
    <3> QED BY <1>3, <3>2, <3>3, OneZero
  <2> QED BY <2>1, <2>2
<1> HIDE DEF l, d, r
<1>6. Zeros(z) \in DigitSeq /\ Len(Zeros(z)) = e /\ Value(Zeros(z)) = 0
  BY <1>1, ZerosAre
<1> DEFINE i == l \o Zeros(z)
<1> HIDE DEF z
<1>7. i \in DigitSeq /\ Len(i) = Len(l) + e /\ Value(i) = b.mant * Ten[e] + 0
  BY <1>5, <1>6, ValueConcat
<1>8. i # <<>>
  <2>1. Len(i) > 0
    BY <1>1, <1>5, <1>7
  <2> HIDE DEF i
  <2> QED BY <2>1
<1> HIDE DEF i
<1>9. i \o <<>> = i
  BY <1>7 DEF DigitSeq
<1>10. Ten[e] \in Nat /\ b.mant * Ten[e] \in Nat
  BY <1>1, TenType
<1>11. Value(i \o <<>>) = b.mant * Ten[e]
  BY <1>7, <1>9, <1>10
<1> DEFINE n == bcdtostr(b)
           s == IF b.sign = 1 THEN "-" ELSE ""
           t == IF b.expo < 0 THEN 0 ELSE b.expo
           g == IF b.expo < 0 THEN -b.expo ELSE 0
<1>a. t = e /\ g = 0
  BY <1>1
<1>b. n = [sign |-> s, int |-> i, frac |-> <<>>]
  BY <1>2, <1>4, Zenon DEF i
<1> HIDE DEF n, s, t, g, e
<1>12. n.sign = s /\ n.int = i /\ n.frac = <<>>
  BY <1>b, NumeralHas
<1>13. Writes(n, b)
  <2>1. /\ n.sign = s /\ n.int \in DigitSeq /\ n.frac \in DigitSeq /\ n.int # <<>>
    BY <1>7, <1>8, <1>12, NoDigit
  <2>2. Len(n.frac) = g
    BY <1>a, <1>12, NoDigit
  <2>3. Value(n.int \o n.frac) = b.mant * Ten[t]
    BY <1>a, <1>11, <1>12
  <2> QED BY <2>1, <2>2, <2>3, Zenon DEF Writes, s, t, g
<1> QED BY <1>13 DEF n

\* With a point: it comes between the digits, or zeros come first.
LEMMA WritesFraction ==
  ASSUME NEW b, IsBcd(b), b.expo < 0
  PROVE  Writes(bcdtostr(b), b)
<1> DEFINE d == Digits(b.mant)
           f == -b.expo
           k == Len(d)
           l == IF k > f THEN SubSeq(d, 1, k - f) ELSE <<0>>
           r == IF k >= f THEN SubSeq(d, k - f + 1, k) ELSE Zeros(f - k) \o d
<1>1. b.mant \in Nat /\ b.mant < 10000 /\ f \in Nat \ {0} /\ ~(b.expo > 0)
  BY DEF IsBcd
<1>2. bcdtostr(b) = [sign |-> IF b.sign = 1 THEN "-" ELSE "", int |-> l \o Zeros(0), frac |-> r]
  <2>1. f = IF b.expo < 0 THEN -b.expo ELSE 0
    OBVIOUS
  <2>2. 0 = IF b.expo > 0 THEN b.expo ELSE 0
    BY <1>1
  <2> QED BY <2>1, <2>2, Zenon DEF bcdtostr
<1>3. d \in DigitSeq /\ k \in 0 .. 4 /\ Value(d) = b.mant
  BY <1>1, DigitsAre
<1>4. Zeros(0) = <<>>
  <2>1. Zeros(0) \in DigitSeq /\ Len(Zeros(0)) = 0
    BY ZerosAre
  <2> QED BY <2>1 DEF DigitSeq
<1> HIDE DEF d, f
<1>5. /\ l \in DigitSeq /\ Len(l) > 0 /\ r \in DigitSeq /\ Len(r) = f
      /\ Value(l \o r) = b.mant
  <2>1. CASE k > f
    <3>1. l = SubSeq(d, 1, k - f) /\ r = SubSeq(d, k - f + 1, k)
      BY <1>1, <1>3, <2>1
    <3>2. l \o r = SubSeq(d, 1, k)
      <4>1. 1 \in 1 .. Len(d) + 1 /\ k - f \in 1 - 1 .. Len(d) /\ k \in k - f .. Len(d)
        BY <1>1, <1>3, <2>1
      <4> QED BY <1>3, <3>1, <4>1, ConcatAdjacentSubSeq DEF DigitSeq
    <3>3. SubSeq(d, 1, k) = d
      BY <1>3, SubSeqFull DEF DigitSeq
    <3>4. l \in DigitSeq /\ Len(l) = k - f
      <4>1. \A j \in 1 .. k - f : d[j] \in 0 .. 9
        BY <1>1, <1>3 DEF DigitSeq
      <4>2. Len(SubSeq(d, 1, k - f)) = (IF 1 <= k - f THEN k - f - 1 + 1 ELSE 0) /\ SubSeq(d, 1, k - f) \in Seq(0 .. 9)
        BY <1>1, <1>3, <4>1, SubSeqProperties
      <4> QED BY <1>1, <1>3, <2>1, <3>1, <4>2 DEF DigitSeq
    <3>5. r \in DigitSeq /\ Len(r) = f
      <4>1. \A j \in k - f + 1 .. k : d[j] \in 0 .. 9
        BY <1>1, <1>3, <2>1 DEF DigitSeq
      <4>2. Len(SubSeq(d, k - f + 1, k)) = (IF k - f + 1 <= k THEN k - (k - f + 1) + 1 ELSE 0) /\ SubSeq(d, k - f + 1, k) \in Seq(0 .. 9)
        BY <1>1, <1>3, <4>1, SubSeqProperties
      <4> QED BY <1>1, <1>3, <2>1, <3>1, <4>2 DEF DigitSeq
    <3> HIDE DEF l, r
    <3>6. Len(l) > 0
      BY <1>1, <1>3, <2>1, <3>4
    <3>7. Value(l \o r) = b.mant
      BY <1>3, <3>2, <3>3, Zenon
    <3> QED BY <3>4, <3>5, <3>6, <3>7
  <2>2. CASE ~(k > f)
    <3>1. l = <<0>>
      BY <2>2
    <3>2. r \in DigitSeq /\ Len(r) = f /\ Value(r) = b.mant
      <4>1. CASE k = f
        <5>1. r = SubSeq(d, k - f + 1, k) /\ k - f + 1 = 1
          BY <1>1, <1>3, <4>1
        <5>2. SubSeq(d, 1, k) = d
          BY <1>3, SubSeqFull DEF DigitSeq
        <5>3. r = d
          BY <5>1, <5>2, Zenon
        <5> HIDE DEF r
        <5> QED BY <1>3, <4>1, <5>3
      <4>2. CASE k < f
        <5>1. r = Zeros(f - k) \o d /\ f - k \in Nat
          BY <1>1, <1>3, <4>2
        <5>2. Zeros(f - k) \in DigitSeq /\ Len(Zeros(f - k)) = f - k /\ Value(Zeros(f - k)) = 0
          BY <5>1, ZerosAre
        <5> HIDE DEF r
        <5>3. r \in DigitSeq /\ Len(r) = f - k + k /\ Value(r) = 0 * Ten[k] + b.mant
          BY <1>3, <5>1, <5>2, ValueConcat
        <5>4. Ten[k] \in Nat
          BY <1>3, TenType
        <5> QED BY <1>1, <1>3, <5>3, <5>4
      <4> QED BY <1>1, <1>3, <2>2, <4>1, <4>2
    <3> HIDE DEF l, r
    <3>3. Value(l \o r) = 0 * Ten[f] + b.mant
      BY <3>1, <3>2, OneZero, ValueConcat
    <3>4. Ten[f] \in Nat
      BY <1>1, TenType
    <3>5. Value(l \o r) = b.mant
      BY <1>1, <3>3, <3>4
    <3> QED BY <3>1, <3>2, <3>5, OneZero
  <2> QED BY <2>1, <2>2
<1> HIDE DEF l, r
<1>6. l \o Zeros(0) = l
  BY <1>4, <1>5 DEF DigitSeq
<1> DEFINE n == bcdtostr(b)
           s == IF b.sign = 1 THEN "-" ELSE ""
           t == IF b.expo < 0 THEN 0 ELSE b.expo
           g == IF b.expo < 0 THEN -b.expo ELSE 0
<1>a. t = 0 /\ g = f
  BY DEF f
<1>b. n = [sign |-> s, int |-> l, frac |-> r]
  BY <1>2, <1>6, Zenon
<1> HIDE DEF n, s, t, g
<1>7. n.sign = s /\ n.int = l /\ n.frac = r
  BY <1>b, NumeralHas
<1>8. l # <<>>
  BY <1>5
<1>9. Value(n.int \o n.frac) = b.mant * Ten[t]
  <2>1. Ten[t] = 1 /\ b.mant * 1 = b.mant
    BY <1>a, <1>1, Tens
  <2> QED BY <1>5, <1>7, <2>1
<1>10. Writes(n, b)
  BY <1>a, <1>5, <1>7, <1>8, <1>9, Zenon DEF Writes, s, t, g
<1> QED BY <1>10 DEF n

-----------------------------------------------------------------------------
(* The encodings.                                                          *)

LEMMA Halves ==
  \A d \in Nat : /\ d = 2 * (d \div 2) + (d % 2)
                 /\ d % 2 \in 0 .. 1 /\ d \div 2 \in Nat
OBVIOUS

LEMMA HalvesUpTo == (\A d \in 0 .. 15 : d \div 2 \in 0 .. 7) /\ (\A d \in 0 .. 7 : d \div 2 \in 0 .. 3)
<1>1. \A d \in 0 .. 15 : d \div 2 \in 0 .. 7
  OBVIOUS
<1>2. \A d \in 0 .. 7 : d \div 2 \in 0 .. 3
  OBVIOUS
<1> QED BY <1>1, <1>2

\* p pairs and an odd one out
LEMMA Pairs ==
  \A p \in Nat, q \in 0 .. 1 : (2 * p + q) \div 2 = p /\ (2 * p + q) % 2 = q
OBVIOUS

LEMMA Eights ==
  \A p \in Nat, q \in 0 .. 7 : (8 * p + q) % 8 = q
OBVIOUS

\* z has the parts a, b and c
Parts(z, a, b, c) ==
    /\ z \in 0 .. 1023
    /\ z \div 128 = a /\ (z \div 16) % 8 = b
    /\ (z \div 2) % 8 = c \div 2 /\ z % 16 = c /\ z % 2 = c % 2

\* The parts of a declet are found again.
LEMMA DecletParts ==
  ASSUME NEW a \in 0 .. 7, NEW b \in 0 .. 7, NEW c \in 0 .. 15
  PROVE  Parts(Declet(a, b, c), a, b, c)
<1> DEFINE z == Declet(a, b, c)
<1>1. z = 128 * a + 16 * b + c
  BY DEF Declet
<1> HIDE DEF z
<1>2. z \in 0 .. 1023
  BY <1>1
<1>a. z \div 128 = a
  BY <1>1
<1>3. z \div 16 = 8 * a + b
  BY <1>1
<1>4. (z \div 16) % 8 = b
  BY <1>3
<1>5. z % 16 = c
  BY <1>1
<1> DEFINE h == c \div 2
           l == c % 2
<1>6. c = 2 * h + l /\ l \in 0 .. 1 /\ h \in 0 .. 7
  BY Halves, HalvesUpTo
<1> HIDE DEF h, l
<1> DEFINE p == 8 * (8 * a + b) + h
<1>7. p \in Nat /\ z = 2 * p + l
  BY <1>1, <1>6
<1>8. z \div 2 = p /\ z % 2 = l
  <2> HIDE DEF p
  <2> QED BY <1>6, <1>7, Pairs
<1>9. (z \div 2) % 8 = h
  <2>1. 8 * a + b \in Nat
    OBVIOUS
  <2>2. p % 8 = h
    BY <1>6, <2>1, Eights
  <2> QED BY <1>8, <2>2
<1>10. Parts(z, a, b, c)
  BY <1>2, <1>a, <1>4, <1>5, <1>8, <1>9 DEF Parts, h, l
<1> QED BY <1>10 DEF z

\* A digit is one of eight small ones or one of two large ones.
LEMMA DigitKinds ==
  ASSUME NEW d \in 0 .. 9
  PROVE  /\ d % 2 \in 0 .. 1
         /\ d < 8 => d \in 0 .. 7 /\ d = 2 * (d \div 2) + (d % 2) /\ d \div 2 \in 0 .. 3
         /\ d >= 8 => d = 8 + (d % 2)
<1>1. d % 2 \in 0 .. 1
  OBVIOUS
<1>2. ASSUME d < 8 PROVE d \in 0 .. 7 /\ d = 2 * (d \div 2) + (d % 2) /\ d \div 2 \in 0 .. 3
  <2>1. d \in 0 .. 7
    BY <1>2
  <2> QED BY <2>1, Halves, HalvesUpTo
<1>3. ASSUME d >= 8 PROVE d = 8 + (d % 2)
  BY <1>3
<1> QED BY <1>1, <1>2, <1>3

LEMMA Cases ==
  ASSUME NEW h \in 0 .. 7, NEW k \in 0 .. 3, NEW u, NEW A, NEW B, NEW C, NEW D, NEW E, NEW F, NEW H,
         u = CASE h < 5 -> A [] h = 5 -> B [] h = 6 -> C [] h = 7 /\ k = 2 -> D
               [] h = 7 /\ k = 1 -> E [] h = 7 /\ k = 0 -> F [] h = 7 /\ k = 3 -> H
  PROVE  /\ h < 5 => u = A
         /\ h = 5 => u = B
         /\ h = 6 => u = C
         /\ h = 7 /\ k = 2 => u = D
         /\ h = 7 /\ k = 1 => u = E
         /\ h = 7 /\ k = 0 => u = F
         /\ h = 7 /\ k = 3 => u = H
<1>1. ASSUME h < 5 PROVE u = A
  BY <1>1
<1>2. ASSUME h = 5 PROVE u = B
  BY <1>2
<1>3. ASSUME h = 6 PROVE u = C
  BY <1>3
<1>4. ASSUME h = 7, k = 2 PROVE u = D
  BY <1>4
<1>5. ASSUME h = 7, k = 1 PROVE u = E
  BY <1>5
<1>6. ASSUME h = 7, k = 0 PROVE u = F
  BY <1>6
<1>7. ASSUME h = 7, k = 3 PROVE u = H
  BY <1>7
<1> QED BY <1>1, <1>2, <1>3, <1>4, <1>5, <1>6, <1>7

\* u is what a declet stands for whose parts are pairs and an odd one
UnpackPairs(u, a1, a0, b1, b0, h, l) ==
    LET a == 2 * a1 + a0
        b == 2 * b1 + b0
    IN  /\ h < 5 => u = 100 * a + 10 * b + (2 * h + l)
        /\ h = 5 => u = 100 * a + 10 * (8 + b0) + (2 * b1 + l)
        /\ h = 6 => u = 100 * (8 + a0) + 10 * b + (2 * a1 + l)
        /\ h = 7 /\ b1 = 2 => u = 100 * a + 10 * (8 + b0) + (8 + l)
        /\ h = 7 /\ b1 = 1 => u = 100 * (8 + a0) + 10 * (2 * a1 + b0) + (8 + l)
        /\ h = 7 /\ b1 = 0 => u = 100 * (8 + a0) + 10 * (8 + b0) + (2 * a1 + l)
        /\ h = 7 /\ b1 = 3 => u = 100 * (8 + a0) + 10 * (8 + b0) + (8 + l)

LEMMA Unpacks ==
  ASSUME NEW a1 \in 0 .. 3, NEW a0 \in 0 .. 1, NEW b1 \in 0 .. 3, NEW b0 \in 0 .. 1,
         NEW h \in 0 .. 7, NEW l \in 0 .. 1,
         NEW a, NEW b, NEW c, a = 2 * a1 + a0, b = 2 * b1 + b0, c = 2 * h + l
  PROVE  UnpackPairs(unpack_declet(Declet(a, b, c)), a1, a0, b1, b0, h, l)
<1> DEFINE z == Declet(a, b, c)
           u == unpack_declet(z)
<1>1. a \in 0 .. 7 /\ b \in 0 .. 7 /\ c \in 0 .. 15
  OBVIOUS
<1>2. a % 2 = a0 /\ a \div 2 = a1 /\ b % 2 = b0 /\ b \div 2 = b1 /\ c % 2 = l /\ c \div 2 = h
  BY Pairs
<1>3. Parts(z, a, b, c)
  BY <1>1, DecletParts, Zenon
<1> HIDE DEF z
<1>4. z \div 128 = a /\ (z \div 16) % 8 = b /\ (z \div 2) % 8 = h /\ z % 16 = c /\ z % 2 = l
  BY <1>2, <1>3 DEF Parts
<1>5. u = CASE h < 5 -> 100 * a + 10 * b + c
            [] h = 5 -> 100 * a + 10 * (8 + (b % 2)) + (2 * (b \div 2) + l)
            [] h = 6 -> 100 * (8 + (a % 2)) + 10 * b + (2 * (a \div 2) + l)
            [] h = 7 /\ b \div 2 = 2 -> 100 * a + 10 * (8 + (b % 2)) + (8 + l)
            [] h = 7 /\ b \div 2 = 1 -> 100 * (8 + (a % 2)) + 10 * (2 * (a \div 2) + (b % 2)) + (8 + l)
            [] h = 7 /\ b \div 2 = 0 -> 100 * (8 + (a % 2)) + 10 * (8 + (b % 2)) + (2 * (a \div 2) + l)
            [] h = 7 /\ b \div 2 = 3 -> 100 * (8 + (a % 2)) + 10 * (8 + (b % 2)) + (8 + l)
  BY <1>4, Zenon DEF unpack_declet
<1> HIDE DEF u
<1>6. u = CASE h < 5 -> 100 * a + 10 * b + c
            [] h = 5 -> 100 * a + 10 * (8 + b0) + (2 * b1 + l)
            [] h = 6 -> 100 * (8 + a0) + 10 * b + (2 * a1 + l)
            [] h = 7 /\ b1 = 2 -> 100 * a + 10 * (8 + b0) + (8 + l)
            [] h = 7 /\ b1 = 1 -> 100 * (8 + a0) + 10 * (2 * a1 + b0) + (8 + l)
            [] h = 7 /\ b1 = 0 -> 100 * (8 + a0) + 10 * (8 + b0) + (2 * a1 + l)
            [] h = 7 /\ b1 = 3 -> 100 * (8 + a0) + 10 * (8 + b0) + (8 + l)
  BY <1>2, <1>5, Zenon
<1>7. /\ h < 5 => u = 100 * a + 10 * b + c
      /\ h = 5 => u = 100 * a + 10 * (8 + b0) + (2 * b1 + l)
      /\ h = 6 => u = 100 * (8 + a0) + 10 * b + (2 * a1 + l)
      /\ h = 7 /\ b1 = 2 => u = 100 * a + 10 * (8 + b0) + (8 + l)
      /\ h = 7 /\ b1 = 1 => u = 100 * (8 + a0) + 10 * (2 * a1 + b0) + (8 + l)
      /\ h = 7 /\ b1 = 0 => u = 100 * (8 + a0) + 10 * (8 + b0) + (2 * a1 + l)
      /\ h = 7 /\ b1 = 3 => u = 100 * (8 + a0) + 10 * (8 + b0) + (8 + l)
  BY <1>6, Cases
<1> QED BY <1>7 DEF UnpackPairs, u, z

\* A number below a thousand is its three digits.
LEMMA ThreeDigits ==
  ASSUME NEW v \in 0 .. 999
  PROVE  /\ v \div 100 \in 0 .. 9 /\ (v \div 10) % 10 \in 0 .. 9 /\ v % 10 \in 0 .. 9
         /\ v = 100 * (v \div 100) + 10 * ((v \div 10) % 10) + (v % 10)
<1> DEFINE a == v \div 100
           b == (v \div 10) % 10
           c == v % 10
           g == v \div 10
<1>1. a \in 0 .. 9
  OBVIOUS
<1>2. b \in 0 .. 9
  OBVIOUS
<1>3. c \in 0 .. 9
  OBVIOUS
<1>4. g \in 0 .. 99 /\ v = 10 * g + c
  OBVIOUS
<1>5. a = g \div 10
  OBVIOUS
<1>6. b = g % 10
  OBVIOUS
<1> HIDE DEF g, a, b, c
<1>7. g = 10 * a + b
  BY <1>4, <1>5, <1>6
<1>8. v = 100 * a + 10 * b + c
  BY <1>1, <1>2, <1>3, <1>4, <1>7
<1> QED BY <1>1, <1>2, <1>3, <1>8 DEF a, b, c

\* Three digits packed are unpacked again.
LEMMA DecletDigits ==
  ASSUME NEW a \in 0 .. 9, NEW b \in 0 .. 9, NEW c \in 0 .. 9
  PROVE  unpack_declet(pack_declet(a, b, c)) = 100 * a + 10 * b + c
<1> DEFINE a1 == a \div 2
           a0 == a % 2
           b1 == b \div 2
           b0 == b % 2
           c1 == c \div 2
           c0 == c % 2
<1>a. /\ a0 \in 0 .. 1 /\ (a < 8 => a = 2 * a1 + a0 /\ a1 \in 0 .. 3)
      /\ (a >= 8 => a = 8 + a0)
  BY DigitKinds
<1>b. /\ b0 \in 0 .. 1 /\ (b < 8 => b = 2 * b1 + b0 /\ b1 \in 0 .. 3)
      /\ (b >= 8 => b = 8 + b0)
  BY DigitKinds
<1>c. /\ c0 \in 0 .. 1 /\ (c < 8 => c = 2 * c1 + c0 /\ c1 \in 0 .. 3)
      /\ (c >= 8 => c = 8 + c0)
  BY DigitKinds
<1>1. CASE a < 8 /\ b < 8 /\ c < 8
  <2> DEFINE p == 2 * a1 + a0
             q == 2 * b1 + b0
             r == 2 * c1 + c0
             u == unpack_declet(Declet(p, q, r))
  <2>1. pack_declet(a, b, c) = Declet(p, q, r)
    BY <1>a, <1>b, <1>c, <1>1 DEF pack_declet
  <2> HIDE DEF a1, a0, b1, b0, c1, c0
  <2>2. p = 2 * a1 + a0 /\ q = 2 * b1 + b0 /\ r = 2 * c1 + c0
    OBVIOUS
  <2> HIDE DEF p, q, r
  <2>3. UnpackPairs(u, a1, a0, b1, b0, c1, c0)
    BY <1>a, <1>b, <1>c, <1>1, <2>2, Unpacks
  <2> HIDE DEF u
  <2>4. u = 100 * a + 10 * b + c
    BY <1>a, <1>b, <1>c, <1>1, <2>3 DEF UnpackPairs
  <2> QED BY <2>1, <2>4 DEF u
<1>2. CASE a < 8 /\ b < 8 /\ c >= 8
  <2> DEFINE p == 2 * a1 + a0
             q == 2 * b1 + b0
             r == 2 * 4 + c0
             u == unpack_declet(Declet(p, q, r))
  <2>1. pack_declet(a, b, c) = Declet(p, q, r)
    BY <1>a, <1>b, <1>c, <1>2 DEF pack_declet
  <2> HIDE DEF a1, a0, b1, b0, c1, c0
  <2>2. p = 2 * a1 + a0 /\ q = 2 * b1 + b0 /\ r = 2 * 4 + c0
    OBVIOUS
  <2> HIDE DEF p, q, r
  <2>3. UnpackPairs(u, a1, a0, b1, b0, 4, c0)
    BY <1>a, <1>b, <1>c, <1>2, <2>2, Unpacks
  <2> HIDE DEF u
  <2>4. u = 100 * a + 10 * b + c
    BY <1>a, <1>b, <1>c, <1>2, <2>3 DEF UnpackPairs
  <2> QED BY <2>1, <2>4 DEF u
<1>3. CASE a < 8 /\ b >= 8 /\ c < 8
  <2> DEFINE p == 2 * a1 + a0
             q == 2 * c1 + b0
             r == 2 * 5 + c0
             u == unpack_declet(Declet(p, q, r))
  <2>1. pack_declet(a, b, c) = Declet(p, q, r)
    BY <1>a, <1>b, <1>c, <1>3 DEF pack_declet
  <2> HIDE DEF a1, a0, b1, b0, c1, c0
  <2>2. p = 2 * a1 + a0 /\ q = 2 * c1 + b0 /\ r = 2 * 5 + c0
    OBVIOUS
  <2> HIDE DEF p, q, r
  <2>3. UnpackPairs(u, a1, a0, c1, b0, 5, c0)
    BY <1>a, <1>b, <1>c, <1>3, <2>2, Unpacks
  <2> HIDE DEF u
  <2>4. u = 100 * a + 10 * b + c
    BY <1>a, <1>b, <1>c, <1>3, <2>3 DEF UnpackPairs
  <2> QED BY <2>1, <2>4 DEF u
<1>4. CASE a < 8 /\ b >= 8 /\ c >= 8
  <2> DEFINE p == 2 * a1 + a0
             q == 2 * 2 + b0
             r == 2 * 7 + c0
             u == unpack_declet(Declet(p, q, r))
  <2>1. pack_declet(a, b, c) = Declet(p, q, r)
    BY <1>a, <1>b, <1>c, <1>4 DEF pack_declet
  <2> HIDE DEF a1, a0, b1, b0, c1, c0
  <2>2. p = 2 * a1 + a0 /\ q = 2 * 2 + b0 /\ r = 2 * 7 + c0
    OBVIOUS
  <2> HIDE DEF p, q, r
  <2>3. UnpackPairs(u, a1, a0, 2, b0, 7, c0)
    BY <1>a, <1>b, <1>c, <1>4, <2>2, Unpacks
  <2> HIDE DEF u
  <2>4. u = 100 * a + 10 * b + c
    BY <1>a, <1>b, <1>c, <1>4, <2>3 DEF UnpackPairs
  <2> QED BY <2>1, <2>4 DEF u
<1>5. CASE a >= 8 /\ b < 8 /\ c < 8
  <2> DEFINE p == 2 * c1 + a0
             q == 2 * b1 + b0
             r == 2 * 6 + c0
             u == unpack_declet(Declet(p, q, r))
  <2>1. pack_declet(a, b, c) = Declet(p, q, r)
    BY <1>a, <1>b, <1>c, <1>5 DEF pack_declet
  <2> HIDE DEF a1, a0, b1, b0, c1, c0
  <2>2. p = 2 * c1 + a0 /\ q = 2 * b1 + b0 /\ r = 2 * 6 + c0
    OBVIOUS
  <2> HIDE DEF p, q, r
  <2>3. UnpackPairs(u, c1, a0, b1, b0, 6, c0)
    BY <1>a, <1>b, <1>c, <1>5, <2>2, Unpacks
  <2> HIDE DEF u
  <2>4. u = 100 * a + 10 * b + c
    BY <1>a, <1>b, <1>c, <1>5, <2>3 DEF UnpackPairs
  <2> QED BY <2>1, <2>4 DEF u
<1>6. CASE a >= 8 /\ b < 8 /\ c >= 8
  <2> DEFINE p == 2 * b1 + a0
             q == 2 * 1 + b0
             r == 2 * 7 + c0
             u == unpack_declet(Declet(p, q, r))
  <2>1. pack_declet(a, b, c) = Declet(p, q, r)
    BY <1>a, <1>b, <1>c, <1>6 DEF pack_declet
  <2> HIDE DEF a1, a0, b1, b0, c1, c0
  <2>2. p = 2 * b1 + a0 /\ q = 2 * 1 + b0 /\ r = 2 * 7 + c0
    OBVIOUS
  <2> HIDE DEF p, q, r
  <2>3. UnpackPairs(u, b1, a0, 1, b0, 7, c0)
    BY <1>a, <1>b, <1>c, <1>6, <2>2, Unpacks
  <2> HIDE DEF u
  <2>4. u = 100 * a + 10 * b + c
    BY <1>a, <1>b, <1>c, <1>6, <2>3 DEF UnpackPairs
  <2> QED BY <2>1, <2>4 DEF u
<1>7. CASE a >= 8 /\ b >= 8 /\ c < 8
  <2> DEFINE p == 2 * c1 + a0
             q == 2 * 0 + b0
             r == 2 * 7 + c0
             u == unpack_declet(Declet(p, q, r))
  <2>1. pack_declet(a, b, c) = Declet(p, q, r)
    BY <1>a, <1>b, <1>c, <1>7 DEF pack_declet
  <2> HIDE DEF a1, a0, b1, b0, c1, c0
  <2>2. p = 2 * c1 + a0 /\ q = 2 * 0 + b0 /\ r = 2 * 7 + c0
    OBVIOUS
  <2> HIDE DEF p, q, r
  <2>3. UnpackPairs(u, c1, a0, 0, b0, 7, c0)
    BY <1>a, <1>b, <1>c, <1>7, <2>2, Unpacks
  <2> HIDE DEF u
  <2>4. u = 100 * a + 10 * b + c
    BY <1>a, <1>b, <1>c, <1>7, <2>3 DEF UnpackPairs
  <2> QED BY <2>1, <2>4 DEF u
<1>8. CASE a >= 8 /\ b >= 8 /\ c >= 8
  <2> DEFINE p == 2 * 0 + a0
             q == 2 * 3 + b0
             r == 2 * 7 + c0
             u == unpack_declet(Declet(p, q, r))
  <2>1. pack_declet(a, b, c) = Declet(p, q, r)
    BY <1>a, <1>b, <1>c, <1>8 DEF pack_declet
  <2> HIDE DEF a1, a0, b1, b0, c1, c0
  <2>2. p = 2 * 0 + a0 /\ q = 2 * 3 + b0 /\ r = 2 * 7 + c0
    OBVIOUS
  <2> HIDE DEF p, q, r
  <2>3. UnpackPairs(u, 0, a0, 3, b0, 7, c0)
    BY <1>a, <1>b, <1>c, <1>8, <2>2, Unpacks
  <2> HIDE DEF u
  <2>4. u = 100 * a + 10 * b + c
    BY <1>a, <1>b, <1>c, <1>8, <2>3 DEF UnpackPairs
  <2> QED BY <2>1, <2>4 DEF u
<1> QED BY <1>1, <1>2, <1>3, <1>4, <1>5, <1>6, <1>7, <1>8

\* A table read backwards.
LEMMA TableInverse ==
  ASSUME NEW S, NEW f, NEW g, g = [y \in {f[u] : u \in S} |-> CHOOSE u \in S : f[u] = y],
         NEW v \in S, \A u \in S : f[u] = f[v] => u = v
  PROVE  g[f[v]] = v
<1> DEFINE T == {f[u] : u \in S}
<1>1. f[v] \in T
  BY Zenon
<1>2. g = [y \in T |-> CHOOSE u \in S : f[u] = y]
  BY Zenon
<1> HIDE DEF T
<1>3. g[f[v]] = CHOOSE u \in S : f[u] = f[v]
  BY <1>1, <1>2, Zenon
<1> QED BY <1>3, Zenon

Thousand == 0 .. 999
PackOf(u) == pack_declet(u \div 100, (u \div 10) % 10, u % 10)

LEMMA DecletOf ==
  ASSUME NEW u \in Thousand
  PROVE  Declets[u] = PackOf(u) /\ unpack_declet(Declets[u]) = u
<1>1. Declets[u] = PackOf(u)
  BY Zenon DEF Declets, Thousand, PackOf
<1> DEFINE a == u \div 100
           b == (u \div 10) % 10
           c == u % 10
<1>2. a \in 0 .. 9 /\ b \in 0 .. 9 /\ c \in 0 .. 9 /\ u = 100 * a + 10 * b + c
  BY ThreeDigits DEF Thousand
<1>3. PackOf(u) = pack_declet(a, b, c)
  BY Zenon DEF PackOf
<1> HIDE DEF a, b, c
<1>4. unpack_declet(pack_declet(a, b, c)) = u
  BY <1>2, DecletDigits
<1> QED BY <1>1, <1>3, <1>4, Zenon

\* A declet stands for what it is unpacked to.
LEMMA DecletStands ==
  ASSUME NEW v \in Thousand
  PROVE  DecletNumber[PackOf(v)] = v /\ unpack_declet(PackOf(v)) = v
<1>1. \A u \in Thousand : Declets[u] = Declets[v] => u = v
  BY DecletOf, Zenon
<1>2. DecletNumber = [y \in {Declets[u] : u \in Thousand} |-> CHOOSE u \in Thousand : Declets[u] = y]
  BY Zenon DEF DecletNumber, Thousand
<1>3. DecletNumber[Declets[v]] = v
  BY <1>1, <1>2, TableInverse, Zenon
<1> QED BY <1>3, DecletOf, Zenon

-----------------------------------------------------------------------------
(* Numbers.                                                                *)

\* y is mantissa m with the exponent field e and the sign s in the binary
\* encoding
Stored(y, m, e, s) ==
    LET big == (m \div 8192) % 2 = 1
    IN  y = [enc |-> "bid", s |-> s, big |-> big, ex |-> e, m |-> m % (IF big THEN 2048 ELSE 8192)]

\* and in the packed one
Packed(y, m, e, s) ==
    LET lo == m % 1000
        hi == m \div 1000
    IN  y = [enc |-> "dpd", s |-> s, big |-> hi >= 8, ex |-> e, t |-> (hi % 10) % 8,
             lo |-> pack_declet(lo \div 100, (lo \div 10) % 10, lo % 10)]

LEMMA StoredFields ==
  ASSUME NEW y, NEW s, NEW b, NEW e, NEW m,
         y = [enc |-> "bid", s |-> s, big |-> b, ex |-> e, m |-> m]
  PROVE  y.enc = "bid" /\ y.s = s /\ y.big = b /\ y.ex = e /\ y.m = m
OBVIOUS

LEMMA PackedFields ==
  ASSUME NEW y, NEW s, NEW b, NEW e, NEW t, NEW l,
         y = [enc |-> "dpd", s |-> s, big |-> b, ex |-> e, t |-> t, lo |-> l]
  PROVE  y.enc = "dpd" /\ y.s = s /\ y.big = b /\ y.ex = e /\ y.t = t /\ y.lo = l
OBVIOUS

LEMMA AssembleStores ==
  ASSUME NEW m, NEW e, NEW s
  PROVE  Stored(assemble_bid(m, e, s), m, e, s) /\ Stored(D32!D!assemble_bid(m, e, s), m, e, s)
<1>1. 2 ^ 13 = 8192 /\ 2 ^ (13 - 2) = 2048
  BY Powers
<1>2. Stored(assemble_bid(m, e, s), m, e, s)
  BY <1>1 DEF Stored, assemble_bid
<1>3. Stored(D32!D!assemble_bid(m, e, s), m, e, s)
  BY <1>1 DEF Stored, D32!D!assemble_bid
<1> QED BY <1>2, <1>3

LEMMA PackedSame == \A a, b, c : D32!D!pack_declet(a, b, c) = pack_declet(a, b, c)
BY DEF pack_declet, D32!D!pack_declet, Declet, D32!D!Declet

LEMMA UnpackedSame == \A z : D32!D!unpack_declet(z) = unpack_declet(z)
BY DEF unpack_declet, D32!D!unpack_declet

LEMMA PackPacks ==
  ASSUME NEW b
  PROVE  /\ Packed(bcdtodpd(b), b.mant, b.expo + 398, b.sign)
         /\ Packed(D32!bcd32todpd(b), b.mant, b.expo + 101, b.sign)
<1>1. Packed(bcdtodpd(b), b.mant, b.expo + 398, b.sign)
  BY DEF Packed, bcdtodpd
<1>2. Packed(D32!bcd32todpd(b), b.mant, b.expo + 101, b.sign)
  BY PackedSame DEF Packed, D32!bcd32todpd, D32!D!bcdtodpd
<1> QED BY <1>1, <1>2

\* A mantissa that fits is got back from the binary encoding.
LEMMA StoredMant ==
  ASSUME NEW y, NEW m \in Nat, m < 10000, NEW e, NEW s, Stored(y, m, e, s)
  PROVE  /\ y.enc = "bid" /\ y.s = s /\ y.ex = e /\ mant_bid(y) = m /\ D32!D!mant_bid(y) = m
         /\ y.big \in BOOLEAN /\ y.m \in Nat
<1> DEFINE big == (m \div 8192) % 2 = 1
           r   == m % (IF big THEN 2048 ELSE 8192)
<1>1. y = [enc |-> "bid", s |-> s, big |-> big, ex |-> e, m |-> r]
  BY DEF Stored
<1>2. IF big THEN 8192 + r = m ELSE r = m
  <2>1. CASE m < 8192
    <3>1. m \div 8192 = 0 /\ m % 8192 = m
      BY <2>1
    <3>2. ~big
      BY <3>1
    <3> QED BY <3>1, <3>2
  <2>2. CASE m >= 8192
    <3>1. m \div 8192 = 1 /\ m % 2048 = m - 8192
      BY <2>2
    <3>2. big
      BY <3>1
    <3> QED BY <3>1, <3>2
  <2> QED BY <2>1, <2>2
<1>a. big \in BOOLEAN
  OBVIOUS
<1>b. r \in Nat
  OBVIOUS
<1> HIDE DEF big, r
<1>3. y.enc = "bid" /\ y.s = s /\ y.big = big /\ y.ex = e /\ y.m = r
  BY <1>1, StoredFields
<1>4. mant_bid(y) = m
  BY <1>2, <1>3, Powers DEF mant_bid
<1>5. D32!D!mant_bid(y) = m
  BY <1>2, <1>3, Powers DEF D32!D!mant_bid
<1>6. y.big \in BOOLEAN
  BY <1>a, <1>3
<1>7. y.m \in Nat
  BY <1>b, <1>3
<1> QED BY <1>3, <1>4, <1>5, <1>6, <1>7

LEMMA StoredBits ==
  ASSUME NEW y, y.big \in BOOLEAN, y.m \in Nat
  PROVE  mant_bid(y) = (IF y.big THEN 2 ^ 13 ELSE 0) + y.m
<1>1. 2 ^ 13 = 8192
  BY Powers
<1>2. mant_bid(y) = IF y.big THEN 2 ^ 13 + y.m ELSE y.m
  BY DEF mant_bid
<1> QED BY <1>1, <1>2

\* From the packed one there is always a mantissa that fits, and the one that
\* was packed if it does.
Unpacked(y, m, e, s) ==
    /\ y.enc = "dpd" /\ y.s = s /\ y.ex = e /\ y.t \in 0 .. 7 /\ y.big \in BOOLEAN
    /\ mant_dpd(y) \in Nat /\ mant_dpd(y) < 10000 /\ D32!D!mant_dpd(y) = mant_dpd(y)
    /\ m \in Nat /\ m < 10000 => mant_dpd(y) = m
    /\ m < 8000 => y.big = FALSE
    /\ unpack_declet(y.lo) = m % 1000
    /\ 1000 * (IF y.big THEN 8 + (y.t % 2) ELSE y.t) + DecletNumber[y.lo] = mant_dpd(y)

LEMMA PackedMant ==
  ASSUME NEW y, NEW m \in Int, NEW e, NEW s, Packed(y, m, e, s)
  PROVE  Unpacked(y, m, e, s)
<1> DEFINE lo == m % 1000
           hi == m \div 1000
           a  == lo \div 100
           b  == (lo \div 10) % 10
           c  == lo % 10
           t  == (hi % 10) % 8
           big == hi >= 8
           p  == pack_declet(a, b, c)
<1>1. y = [enc |-> "dpd", s |-> s, big |-> big, ex |-> e, t |-> t, lo |-> p]
  BY DEF Packed
<1>2. lo \in 0 .. 999 /\ hi \in Int
  OBVIOUS
<1>3. m = 1000 * hi + lo
  OBVIOUS
<1> HIDE DEF lo, hi
<1>4. lo \in Thousand
  BY <1>2 DEF Thousand
<1>5. p = PackOf(lo)
  BY Zenon DEF PackOf
<1>6. unpack_declet(p) = lo
  BY <1>4, <1>5, DecletStands, Zenon
<1>b. DecletNumber[p] = lo
  BY <1>4, <1>5, DecletStands, Zenon
<1>7. t \in 0 .. 7 /\ (big => t \in 0 .. 7) /\ t % 2 \in 0 .. 1
  BY <1>2
<1>8. m \in Nat /\ m < 10000 => hi \in 0 .. 9
  BY <1>2, <1>3
<1>9. hi \in 0 .. 9 => (IF big THEN 8 + (t % 2) ELSE t) = hi
  BY <1>2
<1>10. m < 8000 => hi < 8
  BY <1>2, <1>3
<1>11. big = FALSE \/ big = TRUE
  OBVIOUS
<1>12. hi < 8 => big = FALSE
  BY <1>2
<1> HIDE DEF a, b, c, t, big, p
<1>13. y.enc = "dpd" /\ y.s = s /\ y.big = big /\ y.ex = e /\ y.t = t /\ y.lo = p
  BY <1>1, PackedFields
<1> DEFINE top == IF big THEN 8 + (t % 2) ELSE t
<1>14. mant_dpd(y) = 1000 * top + lo
  BY <1>6, <1>13 DEF mant_dpd, top_dpd
<1>15. D32!D!mant_dpd(y) = 1000 * top + lo
  BY <1>6, <1>13, UnpackedSame DEF D32!D!mant_dpd, D32!D!top_dpd
<1>16. top \in 0 .. 9
  BY <1>7
<1>17. hi \in 0 .. 9 => top = hi
  BY <1>9
<1> HIDE DEF top
<1>18. mant_dpd(y) \in Nat /\ mant_dpd(y) < 10000
  BY <1>2, <1>14, <1>16
<1>19. m \in Nat /\ m < 10000 => mant_dpd(y) = m
  BY <1>2, <1>3, <1>8, <1>14, <1>16, <1>17
<1>20. y.big \in BOOLEAN
  BY <1>11, <1>13, Zenon
<1>a. m < 8000 => big = FALSE
  BY <1>10, <1>12
<1>21. m < 8000 => y.big = FALSE
  BY <1>13, <1>a
<1>22. y.t \in 0 .. 7
  BY <1>7, <1>13, Zenon
<1>23. D32!D!mant_dpd(y) = mant_dpd(y)
  BY <1>14, <1>15, Zenon
<1>24. y.enc = "dpd" /\ y.s = s /\ y.ex = e
  BY <1>13, Zenon
<1>25. unpack_declet(y.lo) = m % 1000
  BY <1>6, <1>13 DEF lo
<1>26. 1000 * (IF y.big THEN 8 + (y.t % 2) ELSE y.t) + DecletNumber[y.lo] = mant_dpd(y)
  BY <1>b, <1>13, <1>14 DEF top
<1> QED BY <1>18, <1>19, <1>20, <1>21, <1>22, <1>23, <1>24, <1>25, <1>26 DEF Unpacked

\* the libraries
UnpackOf(l, y) == IF l = "d64" THEN unpackd(y) ELSE D32!unpackd32(y)
TostrOf(l, y)  == IF l = "d64" THEN dtostr(y) ELSE D32!d32tostr(y)
BiasOf(l)      == IF l = "d64" THEN 398 ELSE 101

\* the number y is by its bits, and whether its exponent is misread
DenotedOf(l, y) ==
    [mant |-> IF y.enc = "bid" THEN (IF y.big THEN 2 ^ 13 ELSE 0) + y.m
              ELSE 1000 * (IF y.big THEN 8 + (y.t % 2) ELSE y.t) + DecletNumber[y.lo],
     expo |-> y.ex - (IF l = "d64" THEN 398 ELSE 101),
     sign |-> y.s]

MisreadOf(l, y) ==
    /\ y.enc = "dpd"
    /\ \/ <<y.s, y.big, y.ex, y.t>> = <<0, FALSE, 0, 0>>
       \/ l = "d64" /\ y.big /\ (y.ex \notin 0 .. 511 \/ (y.t % 2 = 1 /\ y.ex % 256 < 128))

LEMMA DenotedIs == \A y : Denoted(y) = DenotedOf(lib, y) /\ (Misread(y) <=> MisreadOf(lib, y))
BY Zenon DEF Denoted, DenotedOf, Misread, MisreadOf, Wide64

Bcd(m, f, s) == [mant |-> m, expo |-> f, sign |-> s]

LEMMA BcdFields ==
  \A m, f, s : /\ Bcd(m, f, s).mant = m /\ Bcd(m, f, s).expo = f /\ Bcd(m, f, s).sign = s
               /\ [Bcd(m, f, s) EXCEPT !.sign = 0] = Bcd(m, f, 0)
               /\ DOMAIN Bcd(m, f, s) = {"mant", "expo", "sign"}
BY DEF Bcd

\* no sign on a zero
SignOf(m, s) == IF m = 0 THEN 0 ELSE s

\* Library l takes y apart into m, f and s, and prints that.
Gives(l, y, m, f, s) ==
    /\ UnpackOf(l, y) = Bcd(m, f, s)
    /\ TostrOf(l, y) = bcdtostr(Bcd(m, f, SignOf(m, s)))

\* y is the number of m, e and s, and the library gives m and s; with m 0 any
\* exponent does, but it is the right one unless it is the least there is or is
\* misread.
Known(l, y, m, e, s) ==
    /\ m \in Nat /\ m < 10000 /\ e \in Int
    /\ DenotedOf(l, y) = Bcd(m, e, s)
    /\ \E f \in Int : /\ Gives(l, y, m, f, s)
                      /\ ~MisreadOf(l, y) => (f = e \/ m = 0) /\ (e + BiasOf(l) > 0 => f = e)

LEMMA BcdIs ==
  ASSUME NEW b, NEW m, NEW f, NEW s, b = Bcd(m, f, s)
  PROVE  b.mant = m /\ b.expo = f /\ b.sign = s
BY DEF Bcd

Shortest(b) == [b EXCEPT !.mant = @ % 10000]

LEMMA ShortestIs ==
  ASSUME NEW b, NEW m, NEW f, NEW s, b = Bcd(m, f, s), m % 10000 = m
  PROVE  Shortest(b) = b
<1>1. b = [mant |-> m, expo |-> f, sign |-> s]
  BY DEF Bcd
<1>2. b.mant = m
  BY <1>1
<1> QED BY <1>1, <1>2 DEF Shortest

LEMMA NotNaN ==
  ASSUME NEW y, y.enc \in {"bid", "dpd"}
  PROVE  y # NaN /\ y # D32!D!NaN
BY DEF NaN, D32!D!NaN

LEMMA Signless ==
  ASSUME NEW m, NEW f, NEW s
  PROVE  /\ Unsigned0(Bcd(m, f, s)) = Bcd(m, f, SignOf(m, s))
         /\ D32!D!Unsigned0(Bcd(m, f, s)) = Bcd(m, f, SignOf(m, s))
BY BcdFields DEF Unsigned0, D32!D!Unsigned0, SignOf

LEMMA DigitsSame == \A m : D32!D!Digits(m) = Digits(m)
BY Zenon DEF Digits, D32!D!Digits, Min, D32!D!Min

LEMMA ToStrSame == \A b : D32!D!bcdtostr(b) = bcdtostr(b)
BY DigitsSame, Zenon DEF bcdtostr, D32!D!bcdtostr, D32!D!Zeros, Zeros

LEMMA SameTuple ==
  ASSUME NEW a, NEW b, NEW c, NEW d, <<a, b, c, d>> = <<0, FALSE, 0, 0>>
  PROVE  b = FALSE /\ c = 0 /\ d = 0
<1> DEFINE p == <<a, b, c, d>>
           q == <<0, FALSE, 0, 0>>
<1>1. p[2] = b /\ q[2] = FALSE /\ p[3] = c /\ q[3] = 0 /\ p[4] = d /\ q[4] = 0
  BY Zenon
<1>2. p = q
  OBVIOUS
<1> HIDE DEF p, q
<1> QED BY <1>1, <1>2, Zenon

LEMMA BiasType == \A l : BiasOf(l) \in {398, 101} /\ BiasOf(l) \in Int
BY DEF BiasOf

\* What is stored in the binary encoding is known.
LEMMA KnownStored ==
  ASSUME NEW l, NEW y, NEW m \in Nat, m < 10000, NEW e \in Int, NEW s, Stored(y, m, e + BiasOf(l), s)
  PROVE  Known(l, y, m, e, s)
<1> DEFINE u == e + BiasOf(l)
<1>0. u \in Int /\ u - BiasOf(l) = e
  BY BiasType
<1>1. /\ y.enc = "bid" /\ y.s = s /\ y.ex = u /\ mant_bid(y) = m /\ D32!D!mant_bid(y) = m
      /\ y.big \in BOOLEAN /\ y.m \in Nat
  <2> HIDE DEF u
  <2>1. Stored(y, m, u, s)
    BY DEF u
  <2> QED BY <2>1, StoredMant
<1> HIDE DEF u
<1>2. y # NaN /\ y # D32!D!NaN
  BY <1>1, NotNaN
<1>3. m % 10000 = m
  OBVIOUS
<1>4. 10 ^ 4 = 10000
  BY Powers
<1> DEFINE none == <<y.s, y.big, y.ex, y.m>> = <<0, FALSE, 0, 0>>
           f == IF none THEN 0 ELSE e
<1>5. none => u = 0 /\ m = 0
  <2> SUFFICES ASSUME none PROVE u = 0 /\ m = 0
    OBVIOUS
  <2>1. y.big = FALSE /\ y.ex = 0 /\ y.m = 0
    BY SameTuple
  <2>2. mant_bid(y) = 0
    BY <2>1 DEF mant_bid
  <2> QED BY <1>1, <2>1, <2>2
<1>6. DenotedOf(l, y) = Bcd(m, e, s)
  <2>1. y.ex - (IF l = "d64" THEN 398 ELSE 101) = e
    BY <1>0, <1>1 DEF BiasOf
  <2>2. (IF y.big THEN 2 ^ 13 ELSE 0) + y.m = m
    BY <1>1, StoredBits
  <2> QED BY <1>1, <2>1, <2>2 DEF DenotedOf, Bcd
<1>7. UnpackOf(l, y) = Bcd(m, f, s)
  <2> HIDE DEF f
  <2>1. CASE l = "d64"
    <3>1. quantexpbid(y) = IF none THEN 0 ELSE y.ex - 398
      BY DEF quantexpbid
    <3>2. y.ex - 398 = e
      BY <1>0, <1>1, <2>1 DEF BiasOf
    <3> HIDE DEF none
    <3>3. quantexpbid(y) = f
      BY <3>1, <3>2 DEF f
    <3> QED BY <1>1, <2>1, <3>3 DEF UnpackOf, unpackd, mantd, quantexpd, Bcd
  <2>2. CASE l # "d64"
    <3>1. D32!D!quantexpbid(y) = IF none THEN 0 ELSE y.ex - 101
      BY DEF D32!D!quantexpbid
    <3>2. y.ex - 101 = e
      BY <1>0, <1>1, <2>2 DEF BiasOf
    <3> HIDE DEF none
    <3>3. D32!D!quantexpbid(y) = f
      BY <3>1, <3>2 DEF f
    <3> QED BY <1>1, <2>2, <3>3 DEF UnpackOf, D32!unpackd32, D32!mant_bid32, D32!quantexpbid32, Bcd
  <2> QED BY <2>1, <2>2
<1> HIDE DEF none
<1>8. f \in Int /\ (f = e \/ m = 0) /\ (u > 0 => f = e)
  BY <1>5
<1> HIDE DEF f
<1>9. TostrOf(l, y) = bcdtostr(Bcd(m, f, SignOf(m, s)))
  <2> DEFINE b == Bcd(m, f, SignOf(m, s))
  <2>1. Shortest(b) = b
    <3> HIDE DEF b
    <3> QED BY <1>3, ShortestIs DEF b
  <2>2. CASE l = "d64"
    <3>1. Unsigned0(unpackd(y)) = b
      BY <1>7, <2>2, Signless DEF UnpackOf
    <3> HIDE DEF b
    <3>2. bidtostr(y) = bcdtostr(Shortest(b))
      BY <1>4, <3>1 DEF bidtostr, Shortest
    <3> QED BY <1>1, <1>2, <2>1, <2>2, <3>2 DEF TostrOf, dtostr, b
  <2>3. CASE l # "d64"
    <3>1. D32!D!Unsigned0(D32!unpackd32(y)) = b
      BY <1>7, <2>3, Signless DEF UnpackOf
    <3> HIDE DEF b
    <3>2. D32!bid32tostr(y) = bcdtostr(Shortest(b))
      BY <1>4, <3>1, ToStrSame DEF D32!bid32tostr, Shortest
    <3> QED BY <1>1, <1>2, <2>1, <2>3, <3>2 DEF TostrOf, D32!d32tostr, b
  <2> QED BY <2>2, <2>3
<1>10. Gives(l, y, m, f, s)
  BY <1>7, <1>9 DEF Gives
<1> QED BY <1>6, <1>8, <1>10 DEF Known, u

\* In the packed encoding a mantissa that fits is known; otherwise some mantissa
\* that does.
LEMMA KnownPacked ==
  ASSUME NEW l, NEW y, NEW m \in Int, NEW e \in Int, NEW s, Packed(y, m, e + BiasOf(l), s)
  PROVE  /\ Known(l, y, mant_dpd(y), e, s)
         /\ m \in Nat /\ m < 10000 => mant_dpd(y) = m
         /\ e + BiasOf(l) > 0 /\ (m < 8000 \/ l # "d64") => ~MisreadOf(l, y)
<1> DEFINE u == e + BiasOf(l)
           g == mant_dpd(y)
<1>0. u \in Int /\ u - BiasOf(l) = e
  BY BiasType
<1>1. /\ y.enc = "dpd" /\ y.s = s /\ y.ex = u /\ y.t \in 0 .. 7 /\ y.big \in BOOLEAN
      /\ g \in Nat /\ g < 10000 /\ D32!D!mant_dpd(y) = g /\ (m \in Nat /\ m < 10000 => g = m)
      /\ (m < 8000 => y.big = FALSE)
      /\ 1000 * (IF y.big THEN 8 + (y.t % 2) ELSE y.t) + DecletNumber[y.lo] = g
  <2> HIDE DEF u
  <2>1. Packed(y, m, u, s)
    BY DEF u
  <2>2. Unpacked(y, m, u, s)
    BY <1>0, <2>1, PackedMant
  <2> QED BY <2>2 DEF Unpacked
<1> HIDE DEF u, g
<1>2. y # NaN /\ y # D32!D!NaN
  BY <1>1, NotNaN
<1> DEFINE none == <<y.s, y.big, y.ex, y.t>> = <<0, FALSE, 0, 0>>
           high == (u \div 256) % 2
           low  == u % 256
           mixed == IF y.t % 2 = 1 /\ low < 128 THEN low + 128 ELSE low
           f == IF none THEN 0
                ELSE IF y.big /\ l = "d64" THEN high * 256 + mixed - 398 ELSE u - BiasOf(l)
<1>3. none => u = 0
  BY <1>1, SameTuple
<1>4. DenotedOf(l, y) = Bcd(g, e, s)
  <2>1. y.ex - (IF l = "d64" THEN 398 ELSE 101) = e
    BY <1>0, <1>1 DEF BiasOf
  <2> QED BY <1>1, <2>1 DEF DenotedOf, Bcd
<1>5. UnpackOf(l, y) = Bcd(g, f, s)
  <2>1. CASE l = "d64"
    <3>1. quantexpdpd(y) = f
      BY <1>1, <2>1, Powers DEF quantexpdpd, BiasOf
    <3> HIDE DEF f
    <3> QED BY <1>1, <2>1, <3>1 DEF UnpackOf, unpackd, mantd, quantexpd, Bcd, g
  <2>2. CASE l # "d64"
    <3>1. D32!D!quantexpdpd(y) = f
      BY <1>1, <2>2 DEF D32!D!quantexpdpd, BiasOf
    <3> HIDE DEF f
    <3> QED BY <1>1, <2>2, <3>1 DEF UnpackOf, D32!unpackd32, D32!mant_dpd32, D32!quantexpdpd32, Bcd, g
  <2> QED BY <2>1, <2>2
<1>6. high \in Int /\ low \in Int
  BY <1>0
<1>7. u \in 0 .. 511 => high * 256 + low = u
  BY <1>0
<1>8. f \in Int
  <2> HIDE DEF none, high, low
  <2>1. high * 256 + mixed - 398 \in Int
    BY <1>6
  <2>2. u - BiasOf(l) \in Int
    BY <1>0
  <2> HIDE DEF mixed
  <2> QED BY <2>1, <2>2
<1>9. ~MisreadOf(l, y) => f = e
  <2> SUFFICES ASSUME ~MisreadOf(l, y) PROVE f = e
    OBVIOUS
  <2>a. y.enc = "dpd"
    BY <1>1
  <2>1. ~none
    <3> SUFFICES ASSUME none PROVE FALSE
      OBVIOUS
    <3>1. MisreadOf(l, y)
      BY <2>a, Zenon DEF MisreadOf
    <3> QED BY <3>1
  <2>2. l = "d64" /\ y.big => u \in 0 .. 511 /\ mixed = low
    BY <1>1 DEF MisreadOf
  <2> HIDE DEF none, high, low, mixed
  <2>3. CASE y.big /\ l = "d64"
    <3>1. f = high * 256 + mixed - 398
      BY <2>1, <2>3
    <3>2. mixed = low /\ high * 256 + low = u
      BY <1>7, <2>2, <2>3
    <3>3. BiasOf(l) = 398
      BY <2>3 DEF BiasOf
    <3> HIDE DEF f
    <3> QED BY <1>0, <1>6, <3>1, <3>2, <3>3
  <2>4. CASE ~(y.big /\ l = "d64")
    <3>1. f = u - BiasOf(l)
      BY <2>1, <2>4
    <3> HIDE DEF f
    <3> QED BY <1>0, <3>1
  <2> QED BY <2>3, <2>4
<1> HIDE DEF f
<1>10. TostrOf(l, y) = bcdtostr(Bcd(g, f, SignOf(g, s)))
  <2>1. CASE l = "d64"
    <3>1. Unsigned0(unpackd(y)) = Bcd(g, f, SignOf(g, s))
      BY <1>5, <2>1, Signless DEF UnpackOf
    <3> QED BY <1>1, <1>2, <2>1, <3>1 DEF TostrOf, dtostr, dpdtostr
  <2>2. CASE l # "d64"
    <3>1. D32!D!Unsigned0(D32!unpackd32(y)) = Bcd(g, f, SignOf(g, s))
      BY <1>5, <2>2, Signless DEF UnpackOf
    <3> QED BY <1>1, <1>2, <2>2, <3>1, ToStrSame DEF TostrOf, D32!d32tostr, D32!dpd32tostr
  <2> QED BY <2>1, <2>2
<1>11. Gives(l, y, g, f, s)
  BY <1>5, <1>10 DEF Gives
<1>12. Known(l, y, g, e, s)
  BY <1>1, <1>4, <1>8, <1>9, <1>11 DEF Known
<1>13. ASSUME u > 0, m < 8000 \/ l # "d64" PROVE ~MisreadOf(l, y)
  <2>1. ~none
    <3> HIDE DEF none
    <3> QED BY <1>0, <1>3, <1>13
  <2>2. ~(l = "d64" /\ y.big)
    BY <1>1, <1>13
  <2> QED BY <2>1, <2>2, Zenon DEF MisreadOf
<1> QED BY <1>1, <1>12, <1>13 DEF u, g

-----------------------------------------------------------------------------
(* Reading.                                                                *)

\* s cut in two after k digits
CutInTwo(s, k, p, r) ==
    /\ p \in DigitSeq /\ r \in DigitSeq /\ Len(p) = k /\ Len(r) = Len(s) - k
    /\ s = p \o r
    /\ \A j \in 1 .. k : p[j] = s[j]
    /\ k < Len(s) => r[1] = s[k + 1]

LEMMA Cutting ==
  ASSUME NEW s \in DigitSeq, NEW k \in 0 .. Len(s)
  PROVE  CutInTwo(s, k, SubSeq(s, 1, k), SubSeq(s, k + 1, Len(s)))
<1> DEFINE p == SubSeq(s, 1, k)
           r == SubSeq(s, k + 1, Len(s))
           n == Len(s)
<1>1. n \in Nat /\ \A j \in 1 .. n : s[j] \in 0 .. 9
  BY DEF DigitSeq
<1>2. /\ p \in Seq(0 .. 9) /\ Len(p) = (IF 1 <= k THEN k - 1 + 1 ELSE 0)
      /\ \A j \in 1 .. k - 1 + 1 : p[j] = s[1 + j - 1]
  <2>1. \A j \in 1 .. k : s[j] \in 0 .. 9
    BY <1>1
  <2> QED BY <2>1, SubSeqProperties
<1>3. /\ r \in Seq(0 .. 9) /\ Len(r) = (IF k + 1 <= n THEN n - (k + 1) + 1 ELSE 0)
      /\ \A j \in 1 .. n - (k + 1) + 1 : r[j] = s[k + 1 + j - 1]
  <2>1. \A j \in k + 1 .. n : s[j] \in 0 .. 9
    BY <1>1
  <2>2. k + 1 \in Int /\ n \in Int
    BY <1>1
  <2> QED BY <2>1, <2>2, SubSeqProperties
<1>4. p \o r = SubSeq(s, 1, n)
  <2>1. 1 \in 1 .. Len(s) + 1 /\ k \in 1 - 1 .. Len(s) /\ n \in k .. Len(s)
    BY <1>1
  <2> QED BY <2>1, ConcatAdjacentSubSeq DEF DigitSeq
<1>5. SubSeq(s, 1, n) = s
  BY SubSeqFull DEF DigitSeq
<1> HIDE DEF p, r, n
<1>6. Len(p) = k /\ \A j \in 1 .. k : p[j] = s[j]
  BY <1>2
<1>7. Len(r) = n - k
  BY <1>1, <1>3 DEF n
<1>8. ASSUME k < n PROVE r[1] = s[k + 1]
  BY <1>1, <1>3, <1>8
<1>9. CutInTwo(s, k, p, r)
  BY <1>2, <1>3, <1>4, <1>5, <1>6, <1>7, <1>8, Zenon DEF CutInTwo, DigitSeq, n
<1> QED BY <1>9 DEF p, r, n

\* Leading zeros are nothing.
LEMMA LeadingIs ==
  ASSUME NEW n, IsNumeral(n)
  PROVE  /\ Leading(n) \in DigitSeq
         /\ Value(n.int \o n.frac) = Value(Leading(n) \o n.frac)
         /\ Len(Leading(n)) > 0 => Leading(n)[1] # 0
<1> DEFINE d == n.int
           m == Len(d)
           S == {j \in DOMAIN d : d[j] # 0} \cup {m + 1}
           z == Min(S)
<1>1. d \in DigitSeq /\ m \in Nat /\ DOMAIN d = 1 .. m /\ n.frac \in DigitSeq
  <2>1. d \in DigitSeq /\ n.frac \in DigitSeq
    BY Zenon DEF IsNumeral
  <2> HIDE DEF d
  <2> QED BY <2>1 DEF DigitSeq
<1>2. S \in SUBSET Nat /\ m + 1 \in S
  BY <1>1
<1>3. z \in S /\ \A y \in S : z <= y
  <2> HIDE DEF S
  <2> QED BY <1>2, LeastOf
<1>4. z \in 1 .. m + 1 /\ \A j \in 1 .. z - 1 : d[j] = 0
  <2> HIDE DEF z
  <2>1. z \in 1 .. m + 1
    BY <1>1, <1>3
  <2>2. ASSUME NEW j \in 1 .. z - 1 PROVE d[j] = 0
    <3>1. j \in DOMAIN d /\ ~(z <= j)
      BY <1>1, <2>1
    <3>2. j \notin S
      BY <1>3, <3>1
    <3> QED BY <3>1, <3>2
  <2> QED BY <2>1, <2>2
<1>a. z # m + 1 => d[z] # 0
  BY <1>3
<1>5. Leading(n) = SubSeq(d, z, m)
  BY DEF Leading
<1> HIDE DEF S, z, d, m
<1> DEFINE k == z - 1
           p == SubSeq(d, 1, k)
           r == SubSeq(d, k + 1, Len(d))
<1>6. k \in 0 .. Len(d) /\ k + 1 = z
  BY <1>1, <1>4 DEF m
<1> HIDE DEF k
<1>7. CutInTwo(d, k, p, r)
  BY <1>1, <1>6, Cutting
<1>8. Leading(n) = r
  BY <1>5, <1>6 DEF m
<1> HIDE DEF p, r
<1>9. p \in DigitSeq /\ r \in DigitSeq /\ Len(p) = k /\ d = p \o r /\ \A j \in 1 .. k : p[j] = d[j]
  BY <1>7 DEF CutInTwo
<1>10. Value(p) = 0
  <2>1. AllZero(p)
    BY <1>4, <1>6, <1>9 DEF AllZero
  <2> QED BY <1>9, <2>1, ValueZero
<1>11. Len(r) \in Nat /\ Len(n.frac) \in Nat
  BY <1>1, <1>9 DEF DigitSeq
<1>12. Value(d) = Value(r)
  <2>1. Value(d) = Value(p) * Ten[Len(r)] + Value(r)
    BY <1>9, ValueConcat
  <2>2. Ten[Len(r)] \in Nat /\ Value(r) \in Nat
    BY <1>9, <1>11, TenType, ValueType
  <2> QED BY <1>10, <2>1, <2>2
<1>13. Value(d \o n.frac) = Value(r \o n.frac)
  <2>1. Value(d \o n.frac) = Value(d) * Ten[Len(n.frac)] + Value(n.frac)
    BY <1>1, ValueConcat
  <2>2. Value(r \o n.frac) = Value(r) * Ten[Len(n.frac)] + Value(n.frac)
    BY <1>1, <1>9, ValueConcat
  <2> QED BY <1>12, <2>1, <2>2
<1>14. Len(r) > 0 => r[1] # 0
  <2>1. Len(r) = Len(d) - k /\ (k < Len(d) => r[1] = d[k + 1])
    BY <1>7 DEF CutInTwo
  <2> QED BY <1>1, <1>a, <1>6, <2>1 DEF m
<1> QED BY <1>8, <1>9, <1>13, <1>14 DEF d

\* Reading with k digits taken.
TakenOf(k, n) == SubSeq(Leading(n), 1, Min({k, Len(Leading(n))}))
FracOf(k, n)  == SubSeq(n.frac, 1, Min({k - Len(TakenOf(k, n)), Len(n.frac)}))

RoffOf(k, n) ==
    IF Len(Leading(n)) > k THEN Leading(n)[k + 1] >= 5
    ELSE Len(TakenOf(k, n)) < k /\ Len(FracOf(k, n)) < Len(n.frac) /\ n.frac[Len(FracOf(k, n)) + 1] >= 5

\* the least power of ten that the mask has no room for
MaskOf(k) == IF k = 3 THEN 100 ELSE 100000

RoundOf(k, m, roff) ==
    LET j == Min({i \in 0 .. 9 : (m \div 10 ^ i) % 10 # (IF roff = 1 THEN 9 ELSE 0)})
    IN  (((m \div 10 ^ j) % MaskOf(k)) + roff) * 10 ^ j

DigitsOf(k, n) == TakenOf(k, n) \o FracOf(k, n)
ExpoOf(k, n)   == Len(Leading(n)) - Len(TakenOf(k, n)) - Len(FracOf(k, n))
MantOf(k, n)   == IF RoffOf(k, n) THEN RoundOf(k, Value(DigitsOf(k, n)), IF n.sign = "-" THEN -1 ELSE 1)
                  ELSE Value(DigitsOf(k, n))
NegOf(n)       == IF n.sign = "-" THEN 1 ELSE 0
HangsOf(k, n)  == n.sign = "-" /\ RoffOf(k, n) /\ Value(DigitsOf(k, n)) = 0

LEMMA ValueSame == \A s : D32!D!Value(s) = Value(s)
BY Zenon DEF Value, D32!D!Value

LEMMA LeadingSame == \A n : D32!D!Leading(n) = Leading(n)
BY Zenon DEF Leading, D32!D!Leading, Min, D32!D!Min

LEMMA MinSame == \A S : D32!D!Min(S) = Min(S)
BY Zenon DEF Min, D32!D!Min

LEMMA RoundSame == \A m, r : round_bcd(m, r) = RoundOf(3, m, r) /\ D32!D!round_bcd(m, r) = RoundOf(4, m, r)
<1> TAKE m, r
<1>1. 10 ^ 2 = MaskOf(3) /\ 10 ^ 5 = MaskOf(4)
  BY Powers DEF MaskOf
<1>2. round_bcd(m, r) = RoundOf(3, m, r)
  BY <1>1, Zenon DEF round_bcd, RoundOf
<1>3. D32!D!round_bcd(m, r) = RoundOf(4, m, r)
  BY <1>1, MinSame, Zenon DEF D32!D!round_bcd, RoundOf
<1> QED BY <1>2, <1>3

LEMMA TakenSame ==
  \A n : /\ Taken(n) = TakenOf(3, n) /\ D32!D!Taken(n) = TakenOf(4, n)
         /\ TakenFrac(n) = FracOf(3, n) /\ D32!D!TakenFrac(n) = FracOf(4, n)
<1> TAKE n
<1>1. Taken(n) = TakenOf(3, n)
  BY Zenon DEF Taken, TakenOf
<1>2. D32!D!Taken(n) = TakenOf(4, n)
  BY LeadingSame, MinSame, Zenon DEF D32!D!Taken, TakenOf
<1>3. TakenFrac(n) = FracOf(3, n)
  BY <1>1, Zenon DEF TakenFrac, FracOf
<1>4. D32!D!TakenFrac(n) = FracOf(4, n)
  BY <1>2, MinSame, Zenon DEF D32!D!TakenFrac, FracOf
<1> QED BY <1>1, <1>2, <1>3, <1>4

LEMMA RoffSame == \A n : Roff(n) = RoffOf(3, n) /\ D32!D!Roff(n) = RoffOf(4, n)
<1> TAKE n
<1>1. Roff(n) = RoffOf(3, n)
  BY TakenSame, Zenon DEF Roff, RoffOf
<1>2. D32!D!Roff(n) = RoffOf(4, n)
  BY TakenSame, LeadingSame, Zenon DEF D32!D!Roff, RoffOf
<1> QED BY <1>1, <1>2, Zenon

\* Both libraries read like that.
LEMMA StrtobcdIs ==
  ASSUME NEW n
  PROVE  /\ strtobcd(n) = Bcd(MantOf(3, n), ExpoOf(3, n), NegOf(n))
         /\ D32!D!strtobcd(n) = Bcd(MantOf(4, n), ExpoOf(4, n), NegOf(n))
         /\ Endless(n) <=> HangsOf(3, n)
         /\ D32!D!Endless(n) <=> HangsOf(4, n)
<1>1. strtobcd(n) = Bcd(MantOf(3, n), ExpoOf(3, n), NegOf(n))
  BY TakenSame, RoffSame, RoundSame, Zenon DEF strtobcd, Bcd, MantOf, ExpoOf, NegOf, DigitsOf
<1>2. D32!D!strtobcd(n) = Bcd(MantOf(4, n), ExpoOf(4, n), NegOf(n))
  BY TakenSame, RoffSame, LeadingSame, ValueSame, RoundSame, Zenon
     DEF D32!D!strtobcd, Bcd, MantOf, ExpoOf, NegOf, DigitsOf
<1>3. Endless(n) <=> HangsOf(3, n)
  BY TakenSame, RoffSame, Zenon DEF Endless, HangsOf, DigitsOf
<1>4. D32!D!Endless(n) <=> HangsOf(4, n)
  BY TakenSame, RoffSame, ValueSame, Zenon DEF D32!D!Endless, HangsOf, DigitsOf
<1> QED BY <1>1, <1>2, <1>3, <1>4

LEMMA LesserOf ==
  ASSUME NEW a \in Nat, NEW b \in Nat
  PROVE  Min({a, b}) = IF a <= b THEN a ELSE b
<1> DEFINE S == {a, b}
<1>1. S \in SUBSET Nat /\ a \in S /\ b \in S /\ \A y \in S : y = a \/ y = b
  OBVIOUS
<1> HIDE DEF S
<1>2. Min(S) \in S /\ \A y \in S : Min(S) <= y
  BY <1>1, LeastOf
<1>3. (Min(S) = a \/ Min(S) = b) /\ Min(S) <= a /\ Min(S) <= b
  BY <1>1, <1>2
<1>4. Min(S) = IF a <= b THEN a ELSE b
  BY <1>3
<1> QED BY <1>4 DEF S

\* With k digits taken, those are t and the rest is r; its first digit decides
\* about rounding, unless the point comes right before it.
Split(k, n, t, r) ==
    /\ t \in DigitSeq /\ r \in DigitSeq /\ Leading(n) \o n.frac = t \o r
    /\ t = DigitsOf(k, n)
    /\ Len(t) <= k /\ (Len(r) > 0 => Len(t) = k)
    /\ Len(r) = Len(n.frac) + ExpoOf(k, n)
    /\ ExpoOf(k, n) \in Int /\ ExpoOf(k, n) >= -k
    /\ RoffOf(k, n) <=> (Len(r) > 0 /\ Len(Leading(n)) # k /\ r[1] >= 5)

LEMMA SplitLong ==
  ASSUME NEW n, IsNumeral(n), NEW k \in Nat \ {0}, Len(Leading(n)) > k
  PROVE  \E t, r : Split(k, n, t, r)
<1> DEFINE d == Leading(n)
           f == n.frac
           p == SubSeq(d, 1, k)
           q == SubSeq(d, k + 1, Len(d))
           r == q \o f
<1>1. d \in DigitSeq /\ f \in DigitSeq
  BY LeadingIs, Zenon DEF IsNumeral
<1> HIDE DEF d, f
<1>2. Len(d) \in Nat /\ Len(f) \in Nat /\ k \in 0 .. Len(d) /\ Len(d) > k
  BY <1>1 DEF DigitSeq, d
<1>3. CutInTwo(d, k, p, q)
  BY <1>1, <1>2, Cutting
<1>4. Min({k, Len(d)}) = k
  BY <1>2, LesserOf
<1>5. TakenOf(k, n) = p
  BY <1>4, Zenon DEF TakenOf, d
<1> HIDE DEF p, q
<1>6. p \in DigitSeq /\ q \in DigitSeq /\ Len(p) = k /\ Len(q) = Len(d) - k /\ d = p \o q
  BY <1>3 DEF CutInTwo
<1>7. q[1] = d[k + 1]
  BY <1>2, <1>3 DEF CutInTwo
<1>8. FracOf(k, n) = <<>>
  <2>1. k - Len(p) = 0
    BY <1>6
  <2>2. Min({0, Len(f)}) = 0
    BY <1>2, LesserOf
  <2>3. FracOf(k, n) = SubSeq(f, 1, 0)
    BY <1>5, <2>1, <2>2 DEF FracOf, f
  <2>4. SubSeq(f, 1, 0) = <<>>
    BY SubSeqEmpty
  <2> QED BY <2>3, <2>4
<1>9. DigitsOf(k, n) = p
  <2>1. p \o <<>> = p
    BY <1>6 DEF DigitSeq
  <2> QED BY <1>5, <1>8, <2>1 DEF DigitsOf
<1>10. d \o f = p \o r
  <2>1. (p \o q) \o f = p \o (q \o f)
    BY <1>1, <1>6, ConcatAssociative, SMTT(20) DEF DigitSeq
  <2> QED BY <1>6, <2>1
<1>11. r \in DigitSeq /\ Len(r) = Len(q) + Len(f)
  BY <1>1, <1>6, ValueConcat
<1>12. r[1] = q[1]
  <2>1. \A i \in 1 .. Len(q) + Len(f) : r[i] = IF i <= Len(q) THEN q[i] ELSE f[i - Len(q)]
    BY <1>1, <1>6, ConcatProperties DEF DigitSeq
  <2>2. 1 \in 1 .. Len(q) + Len(f) /\ 1 <= Len(q)
    BY <1>2, <1>6
  <2> QED BY <2>1, <2>2
<1> HIDE DEF r
<1>13. ExpoOf(k, n) = Len(d) - k - 0
  <2>1. Len(<<>>) = 0
    BY NoDigit
  <2> QED BY <1>5, <1>6, <1>8, <2>1, Zenon DEF ExpoOf, d
<1>14. ExpoOf(k, n) \in Int /\ ExpoOf(k, n) >= -k /\ Len(r) = Len(f) + ExpoOf(k, n) /\ Len(r) > 0
  <2>1. ExpoOf(k, n) = Len(d) - k /\ Len(d) - k \in Nat
    BY <1>2, <1>13
  <2>2. Len(r) = Len(d) - k + Len(f) /\ Len(r) > 0
    <3>1. Len(q) = Len(d) - k
      BY <1>6, Zenon
    <3> QED BY <1>2, <1>11, <3>1
  <2>3. Len(d) - k >= -k
    BY <1>2
  <2>4. Len(r) = Len(f) + (Len(d) - k)
    BY <1>2, <2>2
  <2> QED BY <2>1, <2>2, <2>3, <2>4
<1>15. RoffOf(k, n) = (d[k + 1] >= 5)
  BY <1>2, Zenon DEF RoffOf, d
<1>16. RoffOf(k, n) <=> (Len(r) > 0 /\ Len(d) # k /\ r[1] >= 5)
  <2>1. Len(d) # k
    BY <1>2
  <2>2. r[1] = d[k + 1]
    BY <1>7, <1>12
  <2> QED BY <1>14, <1>15, <2>1, <2>2, Zenon
<1>17. Split(k, n, p, r)
  <2>1. Len(p) <= k /\ (Len(r) > 0 => Len(p) = k)
    BY <1>6
  <2> QED BY <1>6, <1>9, <1>10, <1>11, <1>14, <1>16, <2>1, Zenon DEF Split, d, f
<1> QED BY <1>17

LEMMA SplitShort ==
  ASSUME NEW n, IsNumeral(n), NEW k \in Nat \ {0}, ~(Len(Leading(n)) > k)
  PROVE  \E t, r : Split(k, n, t, r)
<1> DEFINE d == Leading(n)
           f == n.frac
           g == Min({k - Len(d), Len(f)})
           p == SubSeq(f, 1, g)
           r == SubSeq(f, g + 1, Len(f))
           t == d \o p
<1>1. d \in DigitSeq /\ f \in DigitSeq
  BY LeadingIs, Zenon DEF IsNumeral
<1> HIDE DEF d, f
<1>2. Len(d) \in Nat /\ Len(f) \in Nat /\ ~(Len(d) > k) /\ k - Len(d) \in Nat
  BY <1>1 DEF DigitSeq, d
<1>3. g = IF k - Len(d) <= Len(f) THEN k - Len(d) ELSE Len(f)
  BY <1>2, LesserOf
<1>4. Min({k, Len(d)}) = Len(d)
  <2>1. Min({k, Len(d)}) = IF k <= Len(d) THEN k ELSE Len(d)
    BY <1>2, LesserOf
  <2> QED BY <1>2, <2>1
<1>5. TakenOf(k, n) = d
  <2>1. SubSeq(d, 1, Len(d)) = d
    BY <1>1, SubSeqFull DEF DigitSeq
  <2> QED BY <1>4, <2>1, Zenon DEF TakenOf, d
<1>6. FracOf(k, n) = p
  BY <1>5, Zenon DEF FracOf, f
<1> HIDE DEF g
<1>7. g \in 0 .. Len(f) /\ (g < Len(f) => g = k - Len(d)) /\ g <= k - Len(d)
  BY <1>2, <1>3
<1>8. CutInTwo(f, g, p, r)
  BY <1>1, <1>7, Cutting
<1> HIDE DEF p, r
<1>9. p \in DigitSeq /\ r \in DigitSeq /\ Len(p) = g /\ Len(r) = Len(f) - g /\ f = p \o r
  BY <1>8 DEF CutInTwo
<1>10. g < Len(f) => r[1] = f[g + 1]
  BY <1>8 DEF CutInTwo
<1>11. DigitsOf(k, n) = t
  BY <1>5, <1>6 DEF DigitsOf
<1>12. t \in DigitSeq /\ Len(t) = Len(d) + g
  BY <1>1, <1>9, ValueConcat
<1>13. d \o f = t \o r
  <2>1. (d \o p) \o r = d \o (p \o r)
    BY <1>1, <1>9, ConcatAssociative, SMTT(20) DEF DigitSeq
  <2> QED BY <1>9, <2>1
<1> HIDE DEF t
<1>14. ExpoOf(k, n) = Len(d) - Len(d) - g
  BY <1>5, <1>6, <1>9, Zenon DEF ExpoOf, d
<1>15. ExpoOf(k, n) \in Int /\ ExpoOf(k, n) >= -k /\ Len(r) = Len(f) + ExpoOf(k, n)
  BY <1>2, <1>7, <1>9, <1>14
<1>16. Len(t) <= k /\ (Len(r) > 0 => Len(t) = k)
  BY <1>2, <1>7, <1>9, <1>12
<1>17. RoffOf(k, n) <=> (Len(d) < k /\ g < Len(f) /\ f[g + 1] >= 5)
  BY <1>2, <1>5, <1>6, <1>9, Zenon DEF RoffOf, d, f
<1>18. RoffOf(k, n) <=> (Len(r) > 0 /\ Len(d) # k /\ r[1] >= 5)
  <2>1. (Len(d) < k) <=> (Len(d) # k)
    BY <1>2
  <2>2. (g < Len(f)) <=> (Len(r) > 0)
    BY <1>2, <1>7, <1>9
  <2> QED BY <1>10, <1>17, <2>1, <2>2, Zenon
<1>19. Split(k, n, t, r)
  BY <1>9, <1>11, <1>12, <1>13, <1>15, <1>16, <1>18, Zenon DEF Split, d, f
<1> QED BY <1>19

LEMMA Splits ==
  ASSUME NEW n, IsNumeral(n), NEW k \in Nat \ {0}
  PROVE  \E t, r : Split(k, n, t, r)
BY SplitLong, SplitShort

\* digits taken by library l
KOf(l) == IF l = "d64" THEN 3 ELSE 4

StrtodOf(l, c, n) == IF l = "d64" THEN strtod(c, n) ELSE D32!strtod32(c, n)

\* the digits behind digit j that are skipped, and the power of ten it stands at
Skips(S, u, v) ==
    /\ u \in S /\ (\A i \in S : u <= i)
    /\ \/ u = 0 /\ v = 1
       \/ u = 1 /\ v = 10
       \/ u = 2 /\ v = 100
       \/ u = 3 /\ v = 1000
       \/ u = 4 /\ v = 10000

LEMMA Skipping ==
  ASSUME NEW S \in SUBSET Nat, NEW i \in S, i <= 4
  PROVE  Skips(S, Min(S), 10 ^ Min(S))
<1> DEFINE u == Min(S)
<1>1. u \in S /\ \A y \in S : u <= y
  BY LeastOf
<1> HIDE DEF u
<1>2. u \in {0, 1, 2, 3, 4}
  BY <1>1
<1> DEFINE v == 10 ^ u
<1>3. /\ u = 0 => v = Pow(0)
      /\ u = 1 => v = Pow(1)
      /\ u = 2 => v = Pow(2)
      /\ u = 3 => v = Pow(3)
      /\ u = 4 => v = Pow(4)
  BY Zenon DEF Pow
<1>4. Pow(4) = 10000
  BY Powers DEF Pow
<1> HIDE DEF v
<1>5. Skips(S, u, v)
  BY <1>1, <1>2, <1>3, <1>4, Pows DEF Skips
<1> QED BY <1>5 DEF u, v

\* what a mantissa of three digits becomes if the mask takes the first one
MaskedUp(m) == (m % 100) + 1

LEMMA TensPlaces ==
  ASSUME NEW m \in Nat
  PROVE  /\ m \div 10 ^ 0 = m /\ m \div 10 ^ 1 = m \div 10 /\ m \div 10 ^ 2 = m \div 100
         /\ m \div 10 ^ 3 = m \div 1000 /\ m \div 10 ^ 4 = m \div 10000
<1>1. m \div 1 = m
  OBVIOUS
<1> QED BY <1>1, Powers

\* Upwards the last digits that are 9 become 0; in front of them the mask may
\* take something away.
LEMMA RoundingUp ==
  ASSUME NEW m \in Nat, m < 10000
  PROVE  /\ RoundOf(4, m, 1) = m + 1
         /\ m < 1000 /\ m % 10 = 9 => RoundOf(3, m, 1) = m + 1
         /\ m < 1000 /\ m % 10 # 9 => RoundOf(3, m, 1) = MaskedUp(m)
<1> DEFINE S == {j \in 0 .. 9 : (m \div 10 ^ j) % 10 # 9}
           u == Min(S)
           v == 10 ^ u
<1>1. 4 \in S /\ S \in SUBSET Nat
  <2>1. m \div 10000 = 0
    OBVIOUS
  <2>2. (m \div 10 ^ 4) % 10 # 9
    BY <2>1, TensPlaces
  <2> QED BY <2>2
<1>2. /\ 0 \in S <=> m % 10 # 9
      /\ 1 \in S <=> (m \div 10) % 10 # 9
      /\ 2 \in S <=> (m \div 100) % 10 # 9
      /\ 3 \in S <=> (m \div 1000) % 10 # 9
  BY TensPlaces
<1>3. \A k : RoundOf(k, m, 1) = (((m \div v) % MaskOf(k)) + 1) * v
  BY DEF RoundOf
<1> HIDE DEF S, v
<1>4. Skips(S, u, v)
  BY <1>1, Skipping DEF v
<1> HIDE DEF u
<1>5. MaskOf(3) = 100 /\ MaskOf(4) = 100000
  BY DEF MaskOf
<1> DEFINE q == m \div v
<1>6. v \in Nat /\ q \in Nat /\ (q + 1) * v = m + 1 /\ q <= m /\ (u # 0 /\ m < 1000 => q < 100)
  <2>1. CASE u = 0
    <3>1. v = 1
      BY <1>4, <2>1 DEF Skips
    <3>2. m \div 1 = m
      OBVIOUS
    <3> QED BY <2>1, <3>1, <3>2
  <2>2. CASE u = 1
    <3>1. v = 10 /\ 0 \notin S
      BY <1>4, <2>2 DEF Skips
    <3>2. m % 10 = 9
      BY <1>2, <3>1
    <3> QED BY <3>1, <3>2
  <2>3. CASE u = 2
    <3>1. v = 100 /\ 0 \notin S /\ 1 \notin S
      BY <1>4, <2>3 DEF Skips
    <3>2. m % 10 = 9 /\ (m \div 10) % 10 = 9
      BY <1>2, <3>1
    <3> QED BY <3>1, <3>2
  <2>4. CASE u = 3
    <3>1. v = 1000 /\ 0 \notin S /\ 1 \notin S /\ 2 \notin S
      BY <1>4, <2>4 DEF Skips
    <3>2. m % 10 = 9 /\ (m \div 10) % 10 = 9 /\ (m \div 100) % 10 = 9
      BY <1>2, <3>1
    <3> QED BY <3>1, <3>2
  <2>5. CASE u = 4
    <3>1. v = 10000 /\ 0 \notin S /\ 1 \notin S /\ 2 \notin S /\ 3 \notin S
      BY <1>4, <2>5 DEF Skips
    <3>2. m % 10 = 9 /\ (m \div 10) % 10 = 9 /\ (m \div 100) % 10 = 9 /\ (m \div 1000) % 10 = 9
      BY <1>2, <3>1
    <3> QED BY <3>1, <3>2
  <2> QED BY <1>4, <2>1, <2>2, <2>3, <2>4, <2>5 DEF Skips
<1>7. u = 0 => q = m /\ v = 1
  <2> SUFFICES ASSUME u = 0 PROVE q = m /\ v = 1
    OBVIOUS
  <2>1. v = 1
    BY <1>4 DEF Skips
  <2>2. m \div 1 = m
    OBVIOUS
  <2> QED BY <2>1, <2>2
<1>8. m % 10 # 9 <=> u = 0
  BY <1>2, <1>4 DEF Skips
<1>9. \A k : RoundOf(k, m, 1) = ((q % MaskOf(k)) + 1) * v
  BY <1>3
<1> HIDE DEF q
<1>10. RoundOf(4, m, 1) = m + 1
  <2>1. q % 100000 = q
    BY <1>6
  <2>2. q % MaskOf(4) = q
    BY <1>5, <2>1
  <2>3. RoundOf(4, m, 1) = (q + 1) * v
    BY <1>9, <2>2
  <2> QED BY <1>6, <2>3
<1>11. ASSUME m < 1000, m % 10 = 9 PROVE RoundOf(3, m, 1) = m + 1
  <2>1. q % 100 = q
    BY <1>6, <1>8, <1>11
  <2>2. q % MaskOf(3) = q
    BY <1>5, <2>1
  <2>3. RoundOf(3, m, 1) = (q + 1) * v
    BY <1>9, <2>2
  <2> QED BY <1>6, <2>3
<1>12. ASSUME m % 10 # 9 PROVE RoundOf(3, m, 1) = MaskedUp(m)
  <2>1. q = m /\ v = 1
    BY <1>7, <1>8, <1>12
  <2>2. RoundOf(3, m, 1) = ((m % 100) + 1) * 1
    BY <1>5, <1>9, <2>1
  <2>3. m % 100 \in Nat
    OBVIOUS
  <2> QED BY <2>2, <2>3 DEF MaskedUp
<1> QED BY <1>10, <1>11, <1>12

\* Downwards it does not become more.
LEMMA RoundingDown ==
  ASSUME NEW m \in Nat, m < 10000, m # 0, NEW k \in {3, 4}
  PROVE  RoundOf(k, m, -1) \in Nat /\ RoundOf(k, m, -1) <= m
<1> DEFINE S == {j \in 0 .. 9 : (m \div 10 ^ j) % 10 # 0}
           u == Min(S)
           v == 10 ^ u
<1>1. S \in SUBSET Nat
  OBVIOUS
<1>2. \E j \in 0 .. 3 : j \in S
  <2> DEFINE h0 == m % 10
             g1 == m \div 10
             g2 == m \div 100
             g3 == m \div 1000
  <2>1. m = 10 * g1 + h0 /\ h0 \in 0 .. 9 /\ g1 \in Nat
    OBVIOUS
  <2>2. g1 = 10 * g2 + (g1 % 10) /\ g2 \in Nat
    OBVIOUS
  <2>3. g2 = 10 * g3 + (g2 % 10) /\ g3 \in Nat
    OBVIOUS
  <2>4. g3 < 10
    OBVIOUS
  <2>5. m \div 10 ^ 0 = m /\ m \div 10 ^ 1 = g1 /\ m \div 10 ^ 2 = g2 /\ m \div 10 ^ 3 = g3
    BY TensPlaces
  <2>a. (m \div 10 ^ 0) % 10 = h0
    BY <2>5
  <2> HIDE DEF h0, g1, g2, g3
  <2>6. h0 # 0 \/ g1 % 10 # 0 \/ g2 % 10 # 0 \/ g3 % 10 # 0
    BY <2>1, <2>2, <2>3, <2>4
  <2>7. CASE h0 # 0
    <3>1. 0 \in S
      BY <2>a, <2>7
    <3> QED BY <3>1
  <2>8. CASE g1 % 10 # 0
    <3>1. 1 \in S
      BY <2>5, <2>8
    <3> QED BY <3>1
  <2>9. CASE g2 % 10 # 0
    <3>1. 2 \in S
      BY <2>5, <2>9
    <3> QED BY <3>1
  <2>10. CASE g3 % 10 # 0
    <3>1. 3 \in S
      BY <2>5, <2>10
    <3> QED BY <3>1
  <2> QED BY <2>6, <2>7, <2>8, <2>9, <2>10
<1>3. RoundOf(k, m, -1) = (((m \div v) % MaskOf(k)) + (-1)) * v
  BY DEF RoundOf
<1>4. PICK i \in S : i <= 4
  BY <1>2
<1> HIDE DEF S
<1>5. Skips(S, u, v)
  BY <1>1, <1>4, Skipping DEF v
<1>6. u \in S
  BY <1>5 DEF Skips
<1>7. (m \div v) % 10 # 0
  BY <1>6 DEF S
<1> HIDE DEF u, v
<1> DEFINE q == m \div v
           p == q % MaskOf(k)
<1>8. v \in Nat /\ q \in Nat /\ q * v <= m
  <2>1. v = 1 \/ v = 10 \/ v = 100 \/ v = 1000 \/ v = 10000
    BY <1>5 DEF Skips
  <2>2. m \div 1 = m
    OBVIOUS
  <2> QED BY <2>1, <2>2
<1>9. p \in Nat /\ p # 0 /\ p <= q
  <2>1. q % 10 # 0
    BY <1>7
  <2> HIDE DEF q
  <2>2. CASE k = 3
    <3>1. MaskOf(k) = 100
      BY <2>2 DEF MaskOf
    <3> QED BY <1>8, <2>1, <3>1
  <2>3. CASE k = 4
    <3>1. MaskOf(k) = 100000
      BY <2>3 DEF MaskOf
    <3> QED BY <1>8, <2>1, <3>1
  <2> QED BY <2>2, <2>3
<1>10. RoundOf(k, m, -1) = (p + (-1)) * v
  BY <1>3
<1> HIDE DEF p, q
<1> DEFINE d == p - 1
<1>11. d \in Nat /\ d <= q /\ p + (-1) = d
  BY <1>8, <1>9
<1> HIDE DEF d
<1>12. d * v \in Nat /\ d * v <= q * v
  BY <1>8, <1>11
<1>13. RoundOf(k, m, -1) = d * v
  BY <1>10, <1>11
<1>14. q * v \in Nat
  BY <1>8
<1> DEFINE a == d * v
           b == q * v
<1>15. a \in Nat /\ b \in Nat /\ a <= b /\ b <= m
  BY <1>8, <1>12, <1>14
<1> HIDE DEF a, b
<1> QED BY <1>13, <1>15 DEF a

LEMMA TakenBound ==
  ASSUME NEW n, IsNumeral(n), NEW k \in {3, 4}
  PROVE  /\ Value(DigitsOf(k, n)) \in Nat /\ Value(DigitsOf(k, n)) < Ten[k]
         /\ Ten[k] \in {1000, 10000}
<1>1. k \in Nat \ {0}
  OBVIOUS
<1>2. PICK t, r : Split(k, n, t, r)
  BY <1>1, Splits
<1>3. t \in DigitSeq /\ t = DigitsOf(k, n) /\ Len(t) <= k
  BY <1>2, Zenon DEF Split
<1>4. Len(t) \in Nat
  BY <1>3 DEF DigitSeq
<1>5. Value(t) \in Nat /\ Value(t) < Ten[Len(t)]
  BY <1>3, ValueType, ValueBound
<1>6. Ten[Len(t)] <= Ten[k] /\ Ten[Len(t)] \in Nat /\ Ten[k] \in {1000, 10000}
  <2> DEFINE j == Len(t)
  <2>1. j \in Nat /\ j <= k
    BY <1>3, <1>4, Zenon
  <2> HIDE DEF j
  <2>2. j \in {0, 1, 2, 3, 4}
    BY <2>1
  <2>3. Ten[j] <= Ten[k] /\ Ten[j] \in Nat /\ Ten[k] \in {1000, 10000}
    BY <2>1, <2>2, Tens
  <2> QED BY <2>3 DEF j
<1>7. Value(t) < Ten[k]
  BY <1>5, <1>6
<1> QED BY <1>3, <1>5, <1>6, <1>7

\* the mask takes something away from mantissa v rounded up
Masks(k, v) == k = 3 /\ v >= 100 /\ v % 10 # 9

LEMMA MantType ==
  ASSUME NEW n, IsNumeral(n), NEW k \in {3, 4}, ~HangsOf(k, n)
  PROVE  LET v == Value(DigitsOf(k, n))
         IN  /\ MantOf(k, n) \in Nat /\ MantOf(k, n) <= Ten[k]
             /\ ~RoffOf(k, n) => MantOf(k, n) = v
             /\ RoffOf(k, n) /\ n.sign # "-" => MantOf(k, n) = IF Masks(k, v) THEN MaskedUp(v) ELSE v + 1
<1> DEFINE v == Value(DigitsOf(k, n))
<1>1. v \in Nat /\ v < 10000 /\ v < Ten[k] /\ Ten[k] \in Nat /\ (k = 3 => v < 1000)
  <2>1. v \in Nat /\ v < Ten[k] /\ Ten[k] \in {1000, 10000}
    BY TakenBound
  <2>2. k = 3 => Ten[k] = 1000
    BY Tens
  <2> HIDE DEF v
  <2> QED BY <2>1, <2>2
<1>2. CASE ~RoffOf(k, n)
  <2>1. MantOf(k, n) = v
    BY <1>2 DEF MantOf
  <2> HIDE DEF v
  <2>2. v <= Ten[k] /\ v \in Nat
    BY <1>1
  <2> QED BY <1>2, <2>1, <2>2 DEF v
<1>3. CASE RoffOf(k, n) /\ n.sign # "-"
  <2>1. MantOf(k, n) = RoundOf(k, v, 1)
    BY <1>3 DEF MantOf
  <2> HIDE DEF v
  <2>2. RoundOf(k, v, 1) = IF Masks(k, v) THEN MaskedUp(v) ELSE v + 1
    <3>1. CASE k = 4
      BY <1>1, <3>1, RoundingUp DEF Masks
    <3>2. CASE k = 3 /\ v % 10 = 9
      BY <1>1, <3>2, RoundingUp DEF Masks
    <3>3. CASE k = 3 /\ v % 10 # 9
      <4>1. RoundOf(3, v, 1) = MaskedUp(v)
        BY <1>1, <3>3, RoundingUp
      <4>2. v < 100 => v % 100 = v
        BY <1>1
      <4> QED BY <1>1, <3>3, <4>1, <4>2 DEF Masks, MaskedUp
    <3> QED BY <3>1, <3>2, <3>3
  <2>3. (v % 100) + 1 \in Nat /\ (v % 100) + 1 <= v + 1
    BY <1>1
  <2>4. MantOf(k, n) = (v % 100) + 1 \/ MantOf(k, n) = v + 1
    BY <2>1, <2>2 DEF MaskedUp
  <2>5. MantOf(k, n) \in Nat /\ MantOf(k, n) <= Ten[k]
    BY <1>1, <2>3, <2>4
  <2> QED BY <1>3, <2>1, <2>2, <2>5 DEF v
<1>4. CASE RoffOf(k, n) /\ n.sign = "-"
  <2>1. MantOf(k, n) = RoundOf(k, v, -1)
    BY <1>4 DEF MantOf
  <2>2. v # 0
    BY <1>4 DEF HangsOf
  <2> HIDE DEF v
  <2>3. MantOf(k, n) \in Nat /\ MantOf(k, n) <= v
    BY <1>1, <2>1, <2>2, RoundingDown
  <2>4. MantOf(k, n) <= Ten[k]
    BY <1>1, <2>3
  <2> QED BY <1>4, <2>3, <2>4
<1> QED BY <1>2, <1>3, <1>4

\* What is read is a number with the exponent that was read, and the mantissa
\* if rounding has not carried it past the digits there are; its exponent is
\* not misread.
Reads(l, c, n, m) ==
    LET k == KOf(l)
        e == ExpoOf(k, n)
        y == StrtodOf(l, c, n)
    IN  /\ Known(l, y, m, e, NegOf(n)) /\ e + BiasOf(l) > 0 /\ ~MisreadOf(l, y)
        /\ MantOf(k, n) < Ten[k] => m = MantOf(k, n)
        /\ m <= Ten[k]

LEMMA ReadGives ==
  ASSUME NEW l, NEW c, NEW n, IsNumeral(n), ~HangsOf(KOf(l), n)
  PROVE  \E m \in Nat : Reads(l, c, n, m)
<1> DEFINE k == KOf(l)
           M == MantOf(k, n)
           E == ExpoOf(k, n)
           s == NegOf(n)
           y == StrtodOf(l, c, n)
<1>1. k \in {3, 4} /\ (k = 3 <=> l = "d64")
  BY DEF KOf
<1>2. k \in Nat \ {0} /\ k \in Nat /\ k <= 4
  BY <1>1
<1>3. M \in Nat /\ M \in Int /\ M <= Ten[k]
  <2> HIDE DEF k
  <2>1. ~HangsOf(k, n)
    BY DEF k
  <2> QED BY <1>1, <2>1, MantType
<1>4. E \in Int /\ E >= -k
  <2> HIDE DEF k
  <2>1. PICK t, r : Split(k, n, t, r)
    BY <1>2, Splits
  <2> QED BY <2>1, Zenon DEF Split
<1>5. E + BiasOf(l) \in Int /\ E + BiasOf(l) > 0 /\ (E + BiasOf(l)) - BiasOf(l) = E /\ BiasOf(l) \in {398, 101}
  <2> HIDE DEF k, E
  <2>1. BiasOf(l) \in {398, 101}
    BY DEF BiasOf
  <2> QED BY <1>2, <1>4, <2>1
<1>6. Ten[k] = IF l = "d64" THEN 1000 ELSE 10000
  BY Tens DEF KOf
<1> DEFINE e == E + BiasOf(l)
<1>7. CASE c = "bid"
  <2> DEFINE q == M % (IF l = "d64" THEN 1000 ELSE 10000)
  <2>1. Stored(y, q, e, s)
    <3>1. CASE l = "d64"
      <4>1. strtobcd(n) = Bcd(M, E, s)
        BY <3>1, StrtobcdIs DEF KOf
      <4>2. y = assemble_bid(strtobcd(n).mant % 10 ^ 3, strtobcd(n).expo + 398, strtobcd(n).sign)
        BY <1>7, <3>1 DEF StrtodOf, strtod, strtobid, bcdtobid
      <4> HIDE DEF M, E, s, y, k
      <4>3. strtobcd(n).mant = M /\ strtobcd(n).expo = E /\ strtobcd(n).sign = s
        BY <4>1, BcdIs
      <4>4. y = assemble_bid(M % 1000, E + 398, s)
        BY <4>2, <4>3, Powers
      <4>5. q = M % 1000 /\ e = E + 398
        BY <3>1 DEF BiasOf
      <4> QED BY <4>4, <4>5, AssembleStores
    <3>2. CASE l # "d64"
      <4>1. D32!D!strtobcd(n) = Bcd(M, E, s)
        BY <3>2, StrtobcdIs DEF KOf
      <4>2. y = D32!D!assemble_bid(D32!D!strtobcd(n).mant % 10 ^ 4, D32!D!strtobcd(n).expo + 101, D32!D!strtobcd(n).sign)
        BY <1>7, <3>2 DEF StrtodOf, D32!strtod32, D32!strtobid32, D32!bcd32tobid, D32!strtobcd32, D32!D!bcdtobid
      <4> HIDE DEF M, E, s, y, k
      <4>3. D32!D!strtobcd(n).mant = M /\ D32!D!strtobcd(n).expo = E /\ D32!D!strtobcd(n).sign = s
        BY <4>1, BcdIs
      <4>4. y = D32!D!assemble_bid(M % 10000, E + 101, s)
        BY <4>2, <4>3, Powers
      <4>5. q = M % 10000 /\ e = E + 101
        BY <3>2 DEF BiasOf
      <4> QED BY <4>4, <4>5, AssembleStores
    <3> QED BY <3>1, <3>2
  <2> HIDE DEF M, E, s, y, k
  <2>2. q \in Nat /\ q < 10000 /\ (M < Ten[k] => q = M) /\ q <= Ten[k]
    <3>1. CASE l = "d64"
      BY <1>3, <1>6, <3>1
    <3>2. CASE l # "d64"
      BY <1>3, <1>6, <3>2
    <3> QED BY <3>1, <3>2
  <2> HIDE DEF q
  <2>3. Known(l, y, q, E, s)
    BY <1>4, <2>1, <2>2, KnownStored
  <2>4. ~MisreadOf(l, y)
    <3> HIDE DEF e
    <3>1. y.enc = "bid"
      BY <2>1, StoredFields DEF Stored
    <3> QED BY <3>1 DEF MisreadOf
  <2> HIDE DEF e
  <2>5. Reads(l, c, n, q)
    BY <1>5, <2>2, <2>3, <2>4 DEF Reads, M, E, s, y, k
  <2> QED BY <2>2, <2>5
<1>8. CASE c # "bid"
  <2>1. Packed(y, M, e, s)
    <3>1. CASE l = "d64"
      <4>1. strtobcd(n) = Bcd(M, E, s)
        BY <3>1, StrtobcdIs DEF KOf
      <4>2. y = bcdtodpd(strtobcd(n))
        BY <1>8, <3>1 DEF StrtodOf, strtod, strtodpd
      <4> DEFINE b == strtobcd(n)
      <4> HIDE DEF M, E, s, y, k, b
      <4>3. b.mant = M /\ b.expo = E /\ b.sign = s
        BY <4>1, BcdIs DEF b
      <4>4. Packed(bcdtodpd(b), b.mant, b.expo + 398, b.sign)
        BY PackPacks
      <4>5. e = E + 398
        BY <3>1 DEF BiasOf
      <4> QED BY <4>2, <4>3, <4>4, <4>5 DEF b
    <3>2. CASE l # "d64"
      <4>1. D32!D!strtobcd(n) = Bcd(M, E, s)
        BY <3>2, StrtobcdIs DEF KOf
      <4>2. y = D32!bcd32todpd(D32!D!strtobcd(n))
        BY <1>8, <3>2 DEF StrtodOf, D32!strtod32, D32!strtodpd32, D32!strtobcd32
      <4> DEFINE b == D32!D!strtobcd(n)
      <4> HIDE DEF M, E, s, y, k, b
      <4>3. b.mant = M /\ b.expo = E /\ b.sign = s
        BY <4>1, BcdIs DEF b
      <4>4. Packed(D32!bcd32todpd(b), b.mant, b.expo + 101, b.sign)
        BY PackPacks
      <4>5. e = E + 101
        BY <3>2 DEF BiasOf
      <4> QED BY <4>2, <4>3, <4>4, <4>5 DEF b
    <3> QED BY <3>1, <3>2
  <2> HIDE DEF M, E, s, y, k
  <2> DEFINE g == mant_dpd(y)
  <2>2. /\ Known(l, y, g, E, s)
        /\ M < 10000 => g = M
        /\ M < 8000 \/ l # "d64" => ~MisreadOf(l, y)
    BY <1>3, <1>4, <1>5, <2>1, KnownPacked
  <2> HIDE DEF g, e
  <2>3. (M < Ten[k] => M < 10000) /\ (M < 8000 \/ l # "d64") /\ Ten[k] \in Nat
    BY <1>3, <1>6
  <2>4. g \in Nat /\ g < 10000
    BY <2>2 DEF Known
  <2>5. g <= Ten[k]
    BY <1>3, <1>6, <2>2, <2>4
  <2>6. Reads(l, c, n, g)
    BY <1>5, <2>2, <2>3, <2>5 DEF Reads, M, E, s, y, k
  <2> QED BY <2>4, <2>6
<1> QED BY <1>7, <1>8

-----------------------------------------------------------------------------
(* Comparing.                                                              *)

LEMMA LesserInt ==
  ASSUME NEW a \in Int, NEW b \in Int, b <= a
  PROVE  Min({a, b}) = b
<1> DEFINE S == {a, b}
<1>1. Min(S) = CHOOSE z \in S : \A y \in S : z <= y
  BY DEF Min
<1>2. b \in S /\ \A y \in S : b <= y
  OBVIOUS
<1>3. \A z \in S : (\A y \in S : z <= y) => z = b
  OBVIOUS
<1> HIDE DEF S
<1>4. Min(S) = b
  BY <1>1, <1>2, <1>3
<1> QED BY <1>4 DEF S

Apart(p, q) == IF p >= q THEN p - q ELSE q - p

\* Aligned, where the second exponent is the smaller one.
LEMMA Aligning ==
  ASSUME NEW a \in Nat, NEW b \in Nat, NEW ea \in Int, NEW eb \in Int, eb <= ea
  PROVE  Dist(Aligned(a, ea, b, eb)) = Apart(a * Ten[ea - eb], b)
<1>1. Min({ea, eb}) = eb
  BY LesserInt
<1>2. eb - eb = 0 /\ Ten[0] = 1 /\ b * 1 = b
  BY Tens
<1> DEFINE p == a * Ten[ea - eb]
<1>3. Aligned(a, ea, b, eb) = <<p, b>>
  <2>1. Aligned(a, ea, b, eb) = <<a * Ten[ea - eb], b * Ten[eb - eb]>>
    BY <1>1, Zenon DEF Aligned
  <2>2. b * Ten[eb - eb] = b
    BY <1>2
  <2> QED BY <2>1, <2>2, Zenon
<1> HIDE DEF p
<1>4. <<p, b>>[1] = p /\ <<p, b>>[2] = b
  OBVIOUS
<1>5. Dist(<<p, b>>) = Apart(p, b)
  BY <1>4 DEF Dist, Apart
<1> QED BY <1>3, <1>5 DEF p

\* Zeros are the same with any exponents.
LEMMA AlignedZero ==
  ASSUME NEW ea \in Int, NEW eb \in Int
  PROVE  Dist(Aligned(0, ea, 0, eb)) = 0
<1>1. CASE eb <= ea
  <2>1. ea - eb \in Nat
    BY <1>1
  <2> DEFINE p == Ten[ea - eb]
  <2>2. p \in Nat
    BY <2>1, TenType
  <2>3. Dist(Aligned(0, ea, 0, eb)) = Apart(0 * p, 0)
    BY <1>1, Aligning
  <2> HIDE DEF p
  <2> QED BY <2>2, <2>3 DEF Apart
<1>2. CASE ea <= eb
  <2>1. eb - ea \in Nat /\ ea - ea = 0
    BY <1>2
  <2> DEFINE p == Ten[eb - ea]
             S == {ea, eb}
             T == {eb, ea}
  <2>2. p \in Nat /\ Ten[0] = 1 /\ 0 * 1 = 0
    BY <2>1, TenType, Tens
  <2>3. Min(S) = ea
    <3>1. S = T /\ Min(T) = ea
      BY <1>2, LesserInt
    <3> QED BY <3>1
  <2>4. Aligned(0, ea, 0, eb) = <<0 * Ten[ea - ea], 0 * p>>
    BY <2>3, Zenon DEF Aligned
  <2> HIDE DEF p
  <2>5. 0 * Ten[ea - ea] = 0 /\ 0 * p = 0
    BY <2>1, <2>2
  <2>6. Aligned(0, ea, 0, eb) = <<0, 0>>
    BY <2>4, <2>5, Zenon
  <2>7. Dist(<<0, 0>>) = 0
    BY DEF Dist
  <2> QED BY <2>6, <2>7
<1> QED BY <1>1, <1>2

-----------------------------------------------------------------------------
(* The invariant.                                                          *)

\* y is a number of library l
Number(l, y) == \E m, e : \E s \in 0 .. 1 : Known(l, y, m, e, s)

\* A number in hand can be taken apart and printed; what was read is what the
\* numeral makes, what was printed is the number.
WireInv ==
    /\ op \in {"read", "compute", "print"} => Number(lib, x)
    /\ op = "read" => IsNumeral(text) /\ ~HangsOf(KOf(lib), text) /\ x = StrtodOf(lib, enc, text)
    /\ op = "print" => text = TostrOf(lib, x)

LEMMA WritesNumeral ==
  ASSUME NEW n, NEW b, Writes(n, b)
  PROVE  IsNumeral(n)
<1>1. n.int \in DigitSeq /\ n.frac \in DigitSeq
  BY Zenon DEF Writes
<1>2. n.sign = "-" \/ n.sign = ""
  BY Zenon DEF Writes
<1>3. n.sign \in {"", "+", "-"}
  BY <1>2, Zenon
<1> QED BY <1>1, <1>3, Zenon DEF IsNumeral

\* A number is printed as a numeral.
LEMMA Prints ==
  ASSUME NEW l, NEW y, NEW m \in Nat, NEW f \in Int, NEW s \in 0 .. 1, m < 10000, Gives(l, y, m, f, s)
  PROVE  /\ Writes(TostrOf(l, y), Bcd(m, f, SignOf(m, s)))
         /\ IsNumeral(TostrOf(l, y))
<1> DEFINE g == SignOf(m, s)
           b == Bcd(m, f, g)
           n == TostrOf(l, y)
<1>1. g \in 0 .. 1
  BY DEF SignOf
<1>2. n = bcdtostr(b)
  BY DEF Gives
<1> HIDE DEF g
<1>3. DOMAIN b = {"mant", "expo", "sign"}
  BY DEF Bcd
<1> HIDE DEF b
<1>4. b.mant = m /\ b.expo = f /\ b.sign = g
  BY BcdIs DEF b
<1>5. IsBcd(b)
  BY <1>1, <1>3, <1>4 DEF IsBcd
<1>6. Writes(bcdtostr(b), b)
  <2>1. b.expo \in Int
    BY <1>4
  <2>2. CASE b.expo >= 0
    BY <1>5, <2>2, WritesWhole
  <2>3. CASE b.expo < 0
    BY <1>5, <2>3, WritesFraction
  <2> QED BY <2>1, <2>2, <2>3
<1> HIDE DEF n
<1>7. Writes(n, b)
  BY <1>2, <1>6
<1>8. IsNumeral(n)
  BY <1>7, WritesNumeral
<1> QED BY <1>7, <1>8 DEF b, g, n

\* So it is printed exactly.
LEMMA PrintedFromInv == WireInv => PrintedExactly
<1> SUFFICES ASSUME WireInv, op = "print", ~Misread(x) PROVE PrintedExactly
  BY DEF PrintedExactly
<1>0. PICK m, e : \E s \in 0 .. 1 : Known(lib, x, m, e, s)
  BY DEF WireInv, Number
<1>00. PICK s \in 0 .. 1 : Known(lib, x, m, e, s)
  BY <1>0
<1>1. m \in Nat /\ m < 10000 /\ e \in Int
  BY <1>00 DEF Known
<1>2. text = TostrOf(lib, x)
  BY DEF WireInv
<1> DEFINE b == Denoted(x)
<1>4. b = Bcd(m, e, s)
  BY <1>00, DenotedIs DEF Known
<1>b. ~MisreadOf(lib, x)
  BY DenotedIs
<1>c. PICK f \in Int : Gives(lib, x, m, f, s) /\ (f = e \/ m = 0)
  BY <1>00, <1>b DEF Known
<1> DEFINE g == SignOf(m, s)
           c == Bcd(m, f, g)
<1>3. Writes(text, c)
  BY <1>1, <1>2, <1>c, Prints
<1> HIDE DEF c, b
<1>5. b.mant = m /\ b.expo = e /\ b.sign = s
  BY <1>4, BcdIs
<1>6. c.mant = m /\ c.expo = f /\ c.sign = g
  BY BcdIs DEF c
<1> DEFINE v == Value(text.int \o text.frac)
           k == Len(text.frac)
<1>7. /\ text.sign = (IF g = 1 THEN "-" ELSE "") /\ text.int # <<>>
      /\ text.int \in DigitSeq /\ text.frac \in DigitSeq
      /\ k = (IF f < 0 THEN -f ELSE 0) /\ v = m * Ten[IF f < 0 THEN 0 ELSE f]
  BY <1>3, <1>6, Zenon DEF Writes
<1>8. NumeralValue(text) = v
  BY DEF NumeralValue
<1>9. v \in Nat
  <2>1. text.int \o text.frac \in DigitSeq
    BY <1>7, ValueConcat, Zenon
  <2> QED BY <2>1, ValueType
<1> HIDE DEF v, k, g
<1>a. k = IF f < 0 THEN -f ELSE 0
  BY <1>7, Zenon
<1>10. k \in Nat /\ -k \in Int /\ -k <= f
  BY <1>a
<1>11. v = m * Ten[f - (-k)]
  <2>1. CASE f < 0
    <3>1. f - (-k) = 0
      BY <1>a, <2>1
    <3>2. v = m * Ten[0]
      BY <1>7, <2>1, Zenon
    <3> QED BY <3>1, <3>2
  <2>2. CASE ~(f < 0)
    <3>1. f - (-k) = f
      BY <1>a, <2>2
    <3>2. v = m * Ten[f]
      BY <1>7, <2>2, Zenon
    <3> QED BY <3>1, <3>2
  <2> QED BY <2>1, <2>2
<1>12. Dist(Aligned(m, f, v, -k)) = 0
  <2>1. Dist(Aligned(m, f, v, -k)) = Apart(m * Ten[f - (-k)], v)
    BY <1>1, <1>9, <1>10, Aligning
  <2>2. Apart(v, v) = 0
    BY <1>9 DEF Apart
  <2> QED BY <1>11, <2>1, <2>2
<1>13. (text.sign = "-") <=> (s = 1 /\ m # 0)
  <2>1. (g = 1) <=> (s = 1 /\ m # 0)
    BY DEF g, SignOf
  <2> QED BY <1>7, <2>1, Zenon
<1>d. Dist(Aligned(m, e, v, -k)) = 0
  <2>1. CASE f = e
    BY <1>12, <2>1
  <2>2. CASE m = 0
    <3>1. f - (-k) \in Nat
      BY <1>10
    <3>2. v = 0
      BY <1>11, <2>2, <3>1, TenType
    <3> QED BY <1>1, <1>10, <2>2, <3>2, AlignedZero
  <2> QED BY <1>c, <2>1, <2>2
<1>14. Dist(Aligned(b.mant, b.expo, NumeralValue(text), -Len(text.frac))) = 0
  BY <1>5, <1>8, <1>d DEF k
<1> QED BY <1>5, <1>7, <1>13, <1>14, Zenon DEF PrintedExactly, b

LEMMA FirstIsDigit ==
  ASSUME NEW r \in DigitSeq, Len(r) > 0
  PROVE  r[1] \in 0 .. 9
BY SMT DEF DigitSeq

\* A digit and what follows it.
LEMMA FirstDigit ==
  ASSUME NEW r \in DigitSeq, Len(r) > 0
  PROVE  \E w \in Nat : /\ Value(r) = r[1] * Ten[Len(r) - 1] + w
                        /\ w < Ten[Len(r) - 1]
<1> DEFINE m == Len(r)
           p == SubSeq(r, 1, 1)
           q == SubSeq(r, 2, m)
<1>1. m \in Nat /\ m > 0 /\ 1 \in 0 .. m
  BY DEF DigitSeq
<1>2. CutInTwo(r, 1, p, q)
  BY <1>1, Cutting
<1> HIDE DEF p, q
<1>3. p \in DigitSeq /\ q \in DigitSeq /\ Len(p) = 1 /\ Len(q) = m - 1 /\ r = p \o q
  BY <1>2 DEF CutInTwo
<1>4. p[1] = r[1]
  BY <1>2 DEF CutInTwo
<1>5. Value(p) = r[1]
  BY <1>3, <1>4, ValueShort
<1>6. Value(p \o q) = Value(p) * Ten[Len(q)] + Value(q)
  BY <1>3, ValueConcat
<1>7. Value(q) \in Nat /\ Value(q) < Ten[Len(q)]
  BY <1>3, ValueType, ValueBound
<1>8. Value(r) = r[1] * Ten[m - 1] + Value(q)
  BY <1>3, <1>5, <1>6, Zenon
<1>9. Value(q) < Ten[m - 1]
  BY <1>3, <1>7, Zenon
<1> DEFINE w == Value(q)
<1>10. w \in Nat
  BY <1>7
<1> HIDE DEF w
<1>11. Value(r) = r[1] * Ten[m - 1] + w /\ w < Ten[m - 1]
  BY <1>8, <1>9 DEF w
<1> QED BY <1>10, <1>11

\* The largest mantissa has nines only.
LEMMA Nines ==
  ASSUME NEW t \in DigitSeq, NEW k \in {3, 4}, Len(t) = k, Value(t) + 1 = Ten[k]
  PROVE  t = [i \in 1 .. k |-> 9]
<1>1. \A i \in 1 .. k : t[i] \in 0 .. 9
  BY DEF DigitSeq
<1>2. t = [i \in 1 .. k |-> t[i]]
  BY DEF DigitSeq
<1>3. \A i \in 1 .. k : t[i] = 9
  <2>1. CASE k = 3
    <3> DEFINE a == t[1]
               b == t[2]
               c == t[3]
    <3>1. a \in 0 .. 9 /\ b \in 0 .. 9 /\ c \in 0 .. 9
      BY <1>1, <2>1
    <3>2. Value(t) = 100 * a + 10 * b + c
      BY <2>1, ValueShort
    <3>3. Value(t) + 1 = 1000
      BY <2>1, Tens
    <3> HIDE DEF a, b, c
    <3>4. a = 9 /\ b = 9 /\ c = 9
      BY <3>1, <3>2, <3>3
    <3> QED BY <2>1, <3>4 DEF a, b, c
  <2>2. CASE k = 4
    <3> DEFINE a == t[1]
               b == t[2]
               c == t[3]
               d == t[4]
    <3>1. a \in 0 .. 9 /\ b \in 0 .. 9 /\ c \in 0 .. 9 /\ d \in 0 .. 9
      BY <1>1, <2>2
    <3>2. Value(t) = 1000 * a + 100 * b + 10 * c + d
      BY <2>2, ValueShort
    <3>3. Value(t) + 1 = 10000
      BY <2>2, Tens
    <3> HIDE DEF a, b, c, d
    <3>4. a = 9 /\ b = 9 /\ c = 9 /\ d = 9
      BY <3>1, <3>2, <3>3
    <3> QED BY <2>2, <3>4 DEF a, b, c, d
  <2> QED BY <2>1, <2>2
<1> QED BY <1>2, <1>3

\* Rounding carries into another digit only from those.
LEMMA Carries ==
  ASSUME NEW n, NEW k \in {3, 4}, NEW t, NEW r, Split(k, n, t, r), Len(r) > 0,
         Value(t) + 1 = Ten[k]
  PROVE  /\ Len(Leading(n) \o n.frac) > k
         /\ SubSeq(Leading(n) \o n.frac, 1, k) = [i \in 1 .. k |-> 9]
<1>1. t \in DigitSeq /\ r \in DigitSeq
  BY Zenon DEF Split
<1>2. Leading(n) \o n.frac = t \o r
  BY Zenon DEF Split
<1>3. Len(t) = k
  BY Zenon DEF Split
<1>4. Len(r) \in Nat
  BY <1>1 DEF DigitSeq
<1>5. Len(t \o r) = k + Len(r)
  BY <1>1, <1>3, ValueConcat
<1>6. SubSeq(t \o r, 1, k) = SubSeq(t, 1, k)
  <2>1. 1 \in 1 .. Len(t) /\ k \in 1 .. Len(t)
    BY <1>3
  <2> QED BY <1>1, <2>1, SubSeqOfConcat1 DEF DigitSeq
<1>7. SubSeq(t, 1, k) = t
  BY <1>1, <1>3, SubSeqFull DEF DigitSeq
<1>8. t = [i \in 1 .. k |-> 9]
  BY <1>1, <1>3, Nines
<1>9. Len(t \o r) > k
  BY <1>4, <1>5
<1> QED BY <1>2, <1>6, <1>7, <1>8, <1>9, Zenon

\* With v kept and w cut off, which is less than p, v is less than a unit off,
\* and rounded by the first digit d of w, at most half a unit.
LEMMA Off ==
  ASSUME NEW v \in Nat, NEW w \in Nat, NEW p \in Nat, w < p
  PROVE  /\ Apart(v * p, v * p + w) < p
         /\ 2 * w <= p => 2 * Apart(v * p, v * p + w) <= p
         /\ 2 * w >= p => 2 * Apart((v + 1) * p, v * p + w) <= p
<1> DEFINE z == v * p
           y == (v + 1) * p
<1>1. z \in Nat
  OBVIOUS
<1>2. y = z + p
  OBVIOUS
<1> HIDE DEF z, y
<1>3. Apart(z, z + w) = w
  BY <1>1 DEF Apart
<1>4. Apart(y, z + w) = p - w
  BY <1>1, <1>2 DEF Apart
<1>5. Apart(z, z + w) < p
  BY <1>3
<1>6. 2 * w <= p => 2 * Apart(z, z + w) <= p
  BY <1>3
<1>7. 2 * w >= p => 2 * Apart(y, z + w) <= p
  BY <1>4
<1> QED BY <1>5, <1>6, <1>7 DEF z, y

\* The numerals whose first digit the mask takes away.
LEMMA MaskedIs ==
  ASSUME NEW n, NEW k \in {3, 4}, k = ReadDigits, k = 3 <=> Wide64, NEW t, NEW r, Split(k, n, t, r), Len(r) > 0
  PROVE  Masked(n) <=> (r[1] >= 5 /\ Masks(k, Value(t)))
<1> DEFINE l == Leading(n) \o n.frac
<1>1. t \in DigitSeq /\ r \in DigitSeq
  BY Zenon DEF Split
<1>2. l = t \o r
  BY Zenon DEF Split
<1>3. Len(t) = k
  BY Zenon DEF Split
<1> HIDE DEF l
<1>4. CASE k = 4
  BY <1>4 DEF Masked, Masks
<1>5. CASE k = 3
  <2> DEFINE a == t[1]
             b == t[2]
             c == t[3]
  <2>1. l[4] = r[1] /\ l[1] = a /\ l[2] = b /\ l[3] = c
    <3>1. \A i \in 1 .. Len(t) + Len(r) : l[i] = IF i <= Len(t) THEN t[i] ELSE r[i - Len(t)]
      BY <1>1, <1>2 DEF DigitSeq
    <3>2. Len(t) = 3 /\ Len(r) \in Nat
      BY <1>1, <1>3, <1>5 DEF DigitSeq
    <3> DEFINE N == Len(r)
    <3>3. \A i \in 1 .. 3 + N : l[i] = IF i <= 3 THEN t[i] ELSE r[i - 3]
      BY <3>1, <3>2
    <3>4. N \in Nat /\ N > 0
      BY <3>2
    <3> HIDE DEF N
    <3>5. 4 \in 1 .. 3 + N /\ ~(4 <= 3) /\ 4 - 3 = 1
      BY <3>4
    <3>6. l[4] = r[1]
      BY <3>3, <3>5
    <3>7. \A i \in {1, 2, 3} : i \in 1 .. 3 + N /\ i <= 3
      BY <3>4
    <3>8. l[1] = t[1] /\ l[2] = t[2] /\ l[3] = t[3]
      BY <3>3, <3>7
    <3> QED BY <3>6, <3>8
  <2>2. a \in 0 .. 9 /\ b \in 0 .. 9 /\ c \in 0 .. 9
    <3>1. \A i \in 1 .. Len(t) : t[i] \in 0 .. 9
      BY <1>1 DEF DigitSeq
    <3>2. Len(t) = 3
      BY <1>3, <1>5
    <3> QED BY <3>1, <3>2
  <2>3. Value(t) = 100 * a + 10 * b + c
    BY <1>1, <1>3, <1>5, ValueShort
  <2> HIDE DEF a, b, c
  <2>4. Masks(k, Value(t)) <=> a # 0 /\ c # 9
    BY <1>5, <2>2, <2>3 DEF Masks
  <2>5. Masked(n) <=> (l[4] >= 5 /\ \E i, j \in 1 .. 3 : i + 2 <= j /\ l[i] # 0 /\ l[j] # 9)
    <3>1. ReadDigits = 3 /\ Wide64 /\ 3 + 1 = 4
      BY <1>5
    <3>2. Masked(n) <=> (l[3 + 1] >= 5 /\ \E i, j \in 1 .. 3 : i + 2 <= j /\ l[i] # 0 /\ l[j] # 9)
      BY <3>1, Zenon DEF Masked, l
    <3> QED BY <3>1, <3>2
  <2>6. (\E i, j \in 1 .. 3 : i + 2 <= j /\ l[i] # 0 /\ l[j] # 9) <=> l[1] # 0 /\ l[3] # 9
    <3>1. \A i, j \in 1 .. 3 : i + 2 <= j <=> i = 1 /\ j = 3
      OBVIOUS
    <3>2. 1 \in 1 .. 3 /\ 3 \in 1 .. 3
      OBVIOUS
    <3> QED BY <3>1, <3>2, Zenon
  <2> QED BY <2>1, <2>4, <2>5, <2>6, Zenon
<1> QED BY <1>4, <1>5

\* Without its first digit a number is far off.
LEMMA FarOff ==
  ASSUME NEW k, NEW v \in Nat, Masks(k, v), NEW w \in Nat, NEW p \in Nat \ {0}
  PROVE  /\ MaskedUp(v) \in Nat /\ MaskedUp(v) < 1000
         /\ Apart(MaskedUp(v) * p, v * p + w) > p
<1> DEFINE m == MaskedUp(v)
<1>1. m \in Nat /\ m < 1000 /\ m + 2 <= v
  BY DEF MaskedUp, Masks
<1> HIDE DEF m
<1>2. PICK u \in Nat : v = m + 2 + u
  <2>1. v - (m + 2) \in Nat /\ v = m + 2 + (v - (m + 2))
    BY <1>1
  <2> QED BY <2>1
<1> DEFINE y == m * p
           z == u * p
<1>3. v * p = y + 2 * p + z /\ y \in Nat /\ z \in Nat
  BY <1>1, <1>2
<1> HIDE DEF y, z
<1>4. Apart(y, v * p + w) > p
  BY <1>3 DEF Apart
<1> QED BY <1>1, <1>4 DEF m, y

\* What is read is nearest.
LEMMA NearestFromInv == WireInv => ReadNearest
<1> DEFINE n == text
           k == KOf(lib)
           b == Denoted(x)
           F == Len(n.frac)
<1> SUFFICES ASSUME WireInv, op = "read", Cut(n) => n.sign # "-" /\ ~AllNines(n)
             PROVE  ReadNearest
  BY DEF ReadNearest
<1>1. IsNumeral(n) /\ ~HangsOf(k, n) /\ x = StrtodOf(lib, enc, n)
  BY DEF WireInv
<1>2. k \in {3, 4} /\ k \in Nat \ {0} /\ k = ReadDigits /\ (k = 3 <=> Wide64)
  BY DEF KOf, ReadDigits, Wide64
<1> DEFINE f == ExpoOf(k, n)
<1>a. PICK m \in Nat : Reads(lib, enc, n, m)
  BY <1>1, ReadGives
<1>3. Known(lib, x, m, f, NegOf(n)) /\ (MantOf(k, n) < Ten[k] => m = MantOf(k, n))
  BY <1>1, <1>a DEF Reads
<1>b. f \in Int
  BY <1>3 DEF Known
<1>4. b = Bcd(m, f, NegOf(n))
  BY <1>3, DenotedIs DEF Known
<1> HIDE DEF f
<1> HIDE DEF b, k
<1>5. b.mant = m /\ b.expo = f
  BY <1>4, BcdIs
<1>6. PICK t, r : Split(k, n, t, r)
  BY <1>1, <1>2, Splits
<1> DEFINE j == Len(r)
           v == Value(t)
           w == Value(r)
           p == Ten[j]
           d == Len(Leading(n))
           z == NumeralValue(n)
<1>7. t \in DigitSeq /\ r \in DigitSeq /\ t = DigitsOf(k, n)
  BY <1>6, Zenon DEF Split
<1>8. j = F + f
  <2>1. Len(r) = Len(n.frac) + ExpoOf(k, n)
    BY <1>6, Zenon DEF Split
  <2>2. f = ExpoOf(k, n)
    BY DEF f
  <2> QED BY <2>1, <2>2, Zenon
<1>9. RoffOf(k, n) <=> (j > 0 /\ d # k /\ r[1] >= 5)
  BY <1>6, Zenon DEF Split
<1>10. j \in Nat /\ F \in Nat
  <2> DEFINE g == n.frac
  <2>1. g \in DigitSeq
    BY <1>1, Zenon DEF IsNumeral
  <2> HIDE DEF g
  <2>2. j \in Nat /\ Len(g) \in Nat
    BY <1>7, <2>1 DEF DigitSeq
  <2> QED BY <2>2 DEF g
<1>11. v \in Nat /\ w \in Nat /\ w < p /\ p \in Nat \ {0}
  BY <1>7, <1>10, ValueType, ValueBound, TenType
<1>12. z = v * p + w
  <2>1. z = Value(Leading(n) \o n.frac)
    BY <1>1, LeadingIs DEF NumeralValue
  <2>2. Leading(n) \o n.frac = t \o r
    BY <1>6, Zenon DEF Split
  <2>3. Value(t \o r) = v * p + w
    BY <1>7, ValueConcat
  <2> QED BY <2>1, <2>2, <2>3
<1>13. Cut(n) <=> j > 0
  BY <1>5, <1>8 DEF Cut, b
<1>14. v < Ten[k] /\ Ten[k] \in Nat
  BY <1>1, <1>2, <1>7, TakenBound
<1>15. RoffOf(k, n) => m = IF Masks(k, v) THEN MaskedUp(v) ELSE v + 1
  <2> SUFFICES ASSUME RoffOf(k, n) PROVE m = IF Masks(k, v) THEN MaskedUp(v) ELSE v + 1
    OBVIOUS
  <2>1. j > 0 /\ n.sign # "-" /\ ~AllNines(n)
    BY <1>9, <1>13
  <2>2. MantOf(k, n) = IF Masks(k, v) THEN MaskedUp(v) ELSE v + 1
    BY <1>1, <1>2, <1>7, <2>1, MantType
  <2>3. v + 1 # Ten[k]
    <3> SUFFICES ASSUME v + 1 = Ten[k] PROVE FALSE
      OBVIOUS
    <3>1. /\ Len(Leading(n) \o n.frac) > k
          /\ SubSeq(Leading(n) \o n.frac, 1, k) = [i \in 1 .. k |-> 9]
      BY <1>2, <1>6, <2>1, Carries
    <3>2. AllNines(n)
      BY <1>2, <3>1, Zenon DEF AllNines
    <3> QED BY <2>1, <3>2
  <2> HIDE DEF v
  <2>4. v + 1 \in Nat /\ v + 1 < Ten[k]
    BY <1>11, <1>14, <2>3
  <2>5. Masks(k, v) => MaskedUp(v) < Ten[k]
    <3>1. Ten[k] \in {1000, 10000}
      BY <1>1, <1>2, TakenBound
    <3>2. Masks(k, v) => MaskedUp(v) \in Nat /\ MaskedUp(v) < 1000
      BY <1>11, FarOff
    <3> QED BY <3>1, <3>2
  <2>6. MantOf(k, n) < Ten[k]
    BY <2>2, <2>4, <2>5
  <2> QED BY <1>3, <2>2, <2>6
<1>16. ~RoffOf(k, n) => m = v
  <2> SUFFICES ASSUME ~RoffOf(k, n) PROVE m = v
    OBVIOUS
  <2>1. MantOf(k, n) = v
    BY <1>1, <1>2, <1>7, MantType
  <2> HIDE DEF v
  <2> QED BY <1>3, <1>11, <1>14, <2>1
<1> DEFINE err == Dist(Aligned(b.mant, b.expo, z, -F))
<1>17. err = Apart(m * p, v * p + w)
  <2>1. -F \in Int /\ -F <= f /\ f - (-F) = j
    BY <1>b, <1>8, <1>10
  <2>2. z \in Nat
    BY <1>11, <1>12
  <2> HIDE DEF z, F, j
  <2>3. Dist(Aligned(m, f, z, -F)) = Apart(m * Ten[f - (-F)], z)
    BY <1>b, <2>1, <2>2, Aligning
  <2> QED BY <1>5, <1>12, <2>1, <2>3
<1>18. Ten[b.expo + F] = p
  <2>1. f + F = j
    BY <1>b, <1>8, <1>10
  <2> QED BY <1>5, <2>1
<1> HIDE DEF v, w, p, err, d
<1>19. ASSUME ~Cut(n) PROVE err = 0
  <2>1. j = 0
    BY <1>10, <1>13, <1>19
  <2>2. w = 0
    BY <1>7, <2>1, ValueShort DEF w
  <2>3. m = v
    BY <1>9, <1>16, <2>1
  <2>4. \A a \in Nat : Apart(a, a + 0) = 0
    BY DEF Apart
  <2>5. v * p \in Nat
    BY <1>11
  <2> QED BY <1>17, <2>2, <2>3, <2>4, <2>5
<1>20. ASSUME Cut(n), d = k PROVE err < p
  <2>1. m = v
    BY <1>9, <1>16, <1>20
  <2> QED BY <1>11, <1>17, <2>1, Off
<1>21. ASSUME Cut(n), d # k, ~Masked(n) PROVE 2 * err <= p
  <2>1. j > 0
    BY <1>13, <1>21
  <2>2. PICK u \in Nat : w = r[1] * Ten[j - 1] + u /\ u < Ten[j - 1]
    BY <1>7, <2>1, FirstDigit DEF w
  <2> DEFINE q == Ten[j - 1]
             c == r[1]
  <2>3. p = 10 * q /\ q \in Nat
    <3>1. j \in Nat \ {0} /\ j - 1 \in Nat
      BY <1>10, <2>1
    <3> HIDE DEF j
    <3> QED BY <3>1, Tens, TenType DEF p
  <2>4. c \in 0 .. 9
    BY <1>7, <1>10, <2>1 DEF DigitSeq
  <2> HIDE DEF q, c
  <2>5. w = c * q + u /\ u < q
    BY <2>2 DEF q, c
  <2>6. CASE c >= 5
    <3>0. ~Masks(k, v)
      BY <1>2, <1>6, <1>21, <2>1, <2>6, MaskedIs DEF c, v
    <3>1. m = v + 1
      BY <1>9, <1>15, <1>21, <2>1, <2>6, <3>0 DEF c
    <3>2. 2 * w >= p
      <4>1. c * q >= 5 * q /\ c * q \in Nat
        BY <2>3, <2>4, <2>6
      <4> QED BY <2>3, <2>5, <4>1
    <3> QED BY <1>11, <1>17, <3>1, <3>2, Off
  <2>7. CASE ~(c >= 5)
    <3>1. m = v
      BY <1>9, <1>16, <2>7 DEF c
    <3>2. 2 * w <= p
      <4>1. c * q <= 4 * q /\ c * q \in Nat
        BY <2>3, <2>4, <2>7
      <4> QED BY <2>3, <2>5, <4>1
    <3> QED BY <1>11, <1>17, <3>1, <3>2, Off
  <2> QED BY <2>6, <2>7
<1>22. ASSUME Cut(n), d # k, Masked(n) PROVE err > p
  <2>1. j > 0
    BY <1>13, <1>22
  <2>2. r[1] >= 5 /\ Masks(k, v)
    BY <1>2, <1>6, <1>22, <2>1, MaskedIs DEF v
  <2>3. m = MaskedUp(v)
    BY <1>9, <1>15, <1>22, <2>1, <2>2
  <2> QED BY <1>11, <1>17, <2>2, <2>3, FarOff
<1> QED BY <1>2, <1>18, <1>19, <1>20, <1>21, <1>22 DEF ReadNearest, b, err, d, F

-----------------------------------------------------------------------------
(* The steps.                                                              *)

LEMMA WireTypes ==
  /\ \A n \in Numerals : IsNumeral(n)
  /\ \A m \in Mantissas : m \in Nat /\ m < 10000
  /\ Exponents \subseteq Int
<1>1. \A n \in Numerals : IsNumeral(n)
  BY WireAssumption, Zenon DEF NumeralFields, IsNumeral, DigitSeq
<1>2. \A m \in Mantissas : m \in Nat /\ m < 10000
  <2>1. 10 ^ 4 = 10000
    BY Powers
  <2> TAKE m \in Mantissas
  <2>2. m \in Nat /\ m < 10 ^ 4
    BY WireAssumption, Zenon
  <2> QED BY <2>1, <2>2
<1> QED BY <1>1, <1>2, WireAssumption

\* Reading makes a number.
LEMMA ReadStep ==
  ASSUME NEW n, IsNumeral(n), ReadNumber(n)
  PROVE  WireInv'
<1>1. op' = "read" /\ text' = n /\ x' = Strtod(n) /\ lib' = lib /\ enc' = enc /\ ~Hangs(n)
  BY DEF ReadNumber
<1>2. ~HangsOf(KOf(lib), n)
  BY <1>1, StrtobcdIs DEF Hangs, KOf, Wide64
<1>3. Strtod(n) = StrtodOf(lib, enc, n)
  BY DEF Strtod, StrtodOf, Wide64
<1>4. PICK m : Known(lib, StrtodOf(lib, enc, n), m, ExpoOf(KOf(lib), n), NegOf(n))
  BY <1>2, ReadGives DEF Reads
<1>5. NegOf(n) \in 0 .. 1
  BY DEF NegOf
<1>6. Number(lib, StrtodOf(lib, enc, n))
  BY <1>4, <1>5 DEF Number
<1>7. Number(lib', x')
  BY <1>1, <1>3, <1>6
<1>8. IsNumeral(text') /\ ~HangsOf(KOf(lib'), text') /\ x' = StrtodOf(lib', enc', text')
  BY <1>1, <1>2, <1>3
<1> QED BY <1>1, <1>7, <1>8 DEF WireInv

\* y is mantissa m with exponent e and sign s, in library l and encoding c
Encoded(l, c, y, m, e, s) ==
    IF c = "dpd" THEN Packed(y, m, e + BiasOf(l), s) ELSE Stored(y, m, e + BiasOf(l), s)

LEMMA ComputeMakes ==
  ASSUME NEW m, NEW e, NEW s, Compute(m, e, s)
  PROVE  op' = "compute" /\ lib' = lib /\ enc' = enc /\ Encoded(lib, enc, x', m, e, s)
<1> DEFINE b == Bcd(m, e, s)
           y == IF enc = "dpd" THEN (IF Wide64 THEN bcdtodpd(b) ELSE D32!bcd32todpd(b))
                ELSE IF Wide64 THEN assemble_bid(m, e + 398, s)
                ELSE D32!D!assemble_bid(m, e + 101, s)
           u == e + BiasOf(lib)
<1>1. op' = "compute" /\ x' = y /\ lib' = lib /\ enc' = enc
  BY DEF Compute, Bcd
<1>2. CASE enc = "dpd"
  <2>1. b.mant = m /\ b.expo = e /\ b.sign = s
    <3> HIDE DEF b
    <3> QED BY BcdIs DEF b
  <2>2. Packed(bcdtodpd(b), m, e + 398, s) /\ Packed(D32!bcd32todpd(b), m, e + 101, s)
    <3> HIDE DEF b
    <3>1. /\ Packed(bcdtodpd(b), b.mant, b.expo + 398, b.sign)
          /\ Packed(D32!bcd32todpd(b), b.mant, b.expo + 101, b.sign)
      BY PackPacks
    <3> QED BY <2>1, <3>1
  <2>3. Packed(y, m, u, s)
    <3> HIDE DEF b
    <3> QED BY <1>2, <2>2 DEF BiasOf, Wide64
  <2> QED BY <1>1, <1>2, <2>3 DEF Encoded
<1>3. CASE enc # "dpd"
  <2>1. Stored(assemble_bid(m, e + 398, s), m, e + 398, s) /\ Stored(D32!D!assemble_bid(m, e + 101, s), m, e + 101, s)
    BY AssembleStores
  <2>2. Stored(y, m, u, s)
    BY <1>3, <2>1 DEF BiasOf, Wide64
  <2> QED BY <1>1, <1>3, <2>2 DEF Encoded
<1> QED BY <1>2, <1>3

\* It is known, and its exponent is not misread without a leading digit that
\* the wide packed encoding gets wrong.
LEMMA EncodedKnown ==
  ASSUME NEW l, NEW c, NEW y, NEW m \in Nat, m < 10000, NEW e \in Int, NEW s, Encoded(l, c, y, m, e, s)
  PROVE  /\ Known(l, y, m, e, s)
         /\ e + BiasOf(l) > 0 /\ (c # "dpd" \/ l # "d64" \/ m < 8000) => ~MisreadOf(l, y)
<1> DEFINE u == e + BiasOf(l)
<1>1. CASE c = "dpd"
  <2>1. Packed(y, m, u, s)
    BY <1>1 DEF Encoded
  <2> DEFINE a == m
  <2>2. a \in Int /\ a \in Nat /\ a < 10000 /\ Packed(y, a, u, s)
    BY <2>1
  <2> HIDE DEF a
  <2>3. /\ Known(l, y, mant_dpd(y), e, s) /\ mant_dpd(y) = a
        /\ u > 0 /\ (a < 8000 \/ l # "d64") => ~MisreadOf(l, y)
    BY <2>2, KnownPacked
  <2> QED BY <1>1, <2>3 DEF a
<1>2. CASE c # "dpd"
  <2>1. Stored(y, m, u, s)
    BY <1>2 DEF Encoded
  <2>2. Known(l, y, m, e, s)
    BY <2>1, KnownStored
  <2> HIDE DEF u
  <2>3. y.enc = "bid"
    BY <2>1, StoredFields DEF Stored
  <2>4. ~MisreadOf(l, y)
    BY <2>3 DEF MisreadOf
  <2> QED BY <2>2, <2>4
<1> QED BY <1>1, <1>2

LEMMA ComputeStep ==
  ASSUME NEW m \in Nat, m < 10000, NEW e \in Int, NEW s \in 0 .. 1, Compute(m, e, s)
  PROVE  WireInv'
<1>1. op' = "compute" /\ lib' = lib /\ Encoded(lib, enc, x', m, e, s)
  BY ComputeMakes
<1>2. Known(lib, x', m, e, s)
  BY <1>1, EncodedKnown
<1>3. Number(lib, x')
  BY <1>2 DEF Number
<1> QED BY <1>1, <1>3 DEF WireInv

LEMMA PrintStep ==
  ASSUME WireInv, PrintNumber
  PROVE  WireInv'
<1>1. op \in {"read", "compute"} /\ op' = "print" /\ text' = Tostr(x) /\ x' = x /\ lib' = lib
  BY DEF PrintNumber
<1>2. Number(lib, x)
  BY <1>1 DEF WireInv
<1>3. Tostr(x) = TostrOf(lib, x)
  BY DEF Tostr, TostrOf, Wide64
<1> QED BY <1>1, <1>2, <1>3 DEF WireInv

\* Nothing is claimed of a number after anything else.
LEMMA OtherSteps ==
  ASSUME op' \notin {"read", "compute", "print"}
  PROVE  WireInv'
BY DEF WireInv

LEMMA WireInvariant == WireSpec => []WireInv
<1>1. WireInit => WireInv
  BY DEF WireInit, WireInv
<1>2. WireInv /\ [WireNext]_wvars => WireInv'
  <2> SUFFICES ASSUME WireInv, [WireNext]_wvars PROVE WireInv'
    OBVIOUS
  <2>1. ASSUME NEW n \in Numerals, ReadNumber(n) PROVE WireInv'
    BY <2>1, WireTypes, ReadStep
  <2>2. ASSUME NEW m \in Mantissas, NEW e \in Exponents, NEW s \in 0 .. 1, Compute(m, e, s)
        PROVE  WireInv'
    <3>1. m \in Nat /\ m < 10000 /\ e \in Int
      BY WireTypes
    <3> QED BY <2>2, <3>1, ComputeStep
  <2>3. ASSUME NEW a, ReadLine(a) PROVE WireInv'
    BY <2>3, OtherSteps DEF ReadLine
  <2>4. ASSUME op = "print", ReadNumber(text) PROVE WireInv'
    <3>1. PICK m, e : \E s \in 0 .. 1 : Known(lib, x, m, e, s)
      BY <2>4 DEF WireInv, Number
    <3>2. PICK s \in 0 .. 1, f \in Int : m \in Nat /\ m < 10000 /\ Gives(lib, x, m, f, s)
      BY <3>1 DEF Known
    <3>3. IsNumeral(TostrOf(lib, x))
      BY <3>2, Prints
    <3>4. IsNumeral(text)
      BY <2>4, <3>3 DEF WireInv
    <3> QED BY <2>4, <3>4, ReadStep
  <2>5. ASSUME PrintNumber PROVE WireInv'
    BY <2>5, PrintStep
  <2>6. ASSUME NEW a, Quantise(a) PROVE WireInv'
    BY <2>6, OtherSteps DEF Quantise
  <2>7. ASSUME NEW a, Scale(a) PROVE WireInv'
    BY <2>7, OtherSteps DEF Scale
  <2>8. ASSUME prq2 PROVE WireInv'
    BY <2>8, OtherSteps DEF prq2
  <2>9. ASSUME NEW m, snap2(m) PROVE WireInv'
    BY <2>9, OtherSteps DEF snap2
  <2>10. ASSUME Idle PROVE WireInv'
    BY <2>10, OtherSteps DEF Idle
  <2>11. ASSUME UNCHANGED wvars PROVE WireInv'
    BY <2>11 DEF wvars, WireInv
  <2> QED BY <2>1, <2>2, <2>3, <2>4, <2>5, <2>6, <2>7, <2>8, <2>9, <2>10, <2>11 DEF WireNext
<1> QED BY <1>1, <1>2, PTL DEF WireSpec

-----------------------------------------------------------------------------

\* Whatever was read or computed, in either library and encoding, is printed
\* as the number its bits denote by IEEE 754 (bid64tostr, dpd64tostr and theirs
\* of dfp754_d32.c), for every numeral, mantissa and exponent, unless it is
\* packed and its exponent one that Misread lists.
THEOREM NumbersPrintExactly == WireSpec => []PrintedExactly
<1>1. WireInv => PrintedExactly
  BY PrintedFromInv
<1> QED BY <1>1, WireInvariant, PTL

\* A numeral of any length, wherever its point is, is read as the nearest number
\* that has the digits kept (strtobcd64, round_bcd64 and theirs of
\* dfp754_d32.c), in either library and encoding, except where ReadNearest says
\* otherwise; and the numerals whose first digits the mask of round_bcd64 takes
\* away are all read as another number.
THEOREM NumeralsReadNearest == WireSpec => []ReadNearest
<1>1. WireInv => ReadNearest
  BY NearestFromInv
<1> QED BY <1>1, WireInvariant, PTL

-----------------------------------------------------------------------------
(* A number printed and read again.                                        *)

LEMMA TenLast == \A k \in {3, 4} : Ten[k] = 10 * Ten[k - 1]
<1>1. 3 - 1 = 2 /\ 4 - 1 = 3
  OBVIOUS
<1>2. Ten[3] = 10 * Ten[2] /\ Ten[4] = 10 * Ten[3]
  BY Tens
<1>3. Ten[3] = 10 * Ten[3 - 1] /\ Ten[4] = 10 * Ten[4 - 1]
  BY <1>1, <1>2, Zenon
<1> QED BY <1>3, Zenon

LEMMA TenPlus ==
  ASSUME NEW a \in Nat, NEW b \in Nat
  PROVE  Ten[a + b] = Ten[a] * Ten[b]
<1> DEFINE B == {j \in 0 .. b : Ten[a + j] # Ten[a] * Ten[j]}
<1>1. B = {}
  <2> SUFFICES ASSUME B # {} PROVE FALSE
    OBVIOUS
  <2> DEFINE u == Min(B)
  <2>1. u \in B /\ \A y \in B : u <= y
    <3>1. PICK c \in B : TRUE
      OBVIOUS
    <3>2. B \in SUBSET Nat
      OBVIOUS
    <3> HIDE DEF B
    <3> QED BY <3>1, <3>2, LeastOf
  <2> HIDE DEF u
  <2>2. u \in 0 .. b /\ Ten[a + u] # Ten[a] * Ten[u] /\ u # 0
    <3>1. a + 0 = a /\ Ten[0] = 1 /\ Ten[a] \in Nat
      BY Tens, TenType
    <3>2. Ten[a + 0] = Ten[a] * Ten[0]
      BY <3>1
    <3> QED BY <2>1, <3>2
  <2>3. u - 1 \in 0 .. b /\ ~(u <= u - 1) /\ u \in Nat \ {0} /\ a + u \in Nat \ {0} /\ (a + u) - 1 = a + (u - 1)
    BY <2>2
  <2>4. u - 1 \notin B
    <3> HIDE DEF B
    <3> QED BY <2>1, <2>3
  <2>5. Ten[a + (u - 1)] = Ten[a] * Ten[u - 1]
    BY <2>3, <2>4
  <2>6. Ten[a + u] = 10 * Ten[a + (u - 1)] /\ Ten[u] = 10 * Ten[u - 1]
    BY <2>3, Tens
  <2>7. Ten[a] \in Nat /\ Ten[u - 1] \in Nat
    BY <2>3, TenType
  <2> QED BY <2>2, <2>5, <2>6, <2>7
<1>2. b \in 0 .. b
  OBVIOUS
<1> QED BY <1>1, <1>2

LEMMA TenGrows ==
  ASSUME NEW a \in Nat, NEW b \in Nat, a <= b
  PROVE  Ten[a] <= Ten[b]
<1> DEFINE c == b - a
<1>1. c \in Nat /\ b = a + c
  OBVIOUS
<1> HIDE DEF c
<1>2. Ten[b] = Ten[a] * Ten[c]
  BY <1>1, TenPlus
<1>3. Ten[a] \in Nat /\ Ten[c] \in Nat \ {0}
  BY <1>1, TenType
<1> QED BY <1>2, <1>3

\* Numbers are the same that are the same with a common exponent.
LEMMA AlignedSame ==
  ASSUME NEW a \in Nat, NEW b \in Nat, NEW ea \in Int, NEW eb \in Int,
         NEW h \in Nat, NEW j \in Nat, ea - eb = h - j, a * Ten[h] = b * Ten[j]
  PROVE  Dist(Aligned(a, ea, b, eb)) = 0
<1>1. CASE eb <= ea
  <2> DEFINE g == ea - eb
  <2>1. g \in Nat /\ h = g + j
    BY <1>1
  <2> HIDE DEF g
  <2>2. Ten[h] = Ten[g] * Ten[j] /\ Ten[g] \in Nat /\ Ten[j] \in Nat \ {0}
    BY <2>1, TenPlus, TenType
  <2>3. a * Ten[g] = b
    <3> DEFINE p == a * Ten[g]
    <3>1. p \in Nat /\ p * Ten[j] = b * Ten[j]
      BY <2>2
    <3> HIDE DEF p
    <3>2. p = b
      BY <2>2, <3>1
    <3> QED BY <3>2 DEF p
  <2>4. Dist(Aligned(a, ea, b, eb)) = Apart(a * Ten[g], b)
    BY <1>1, Aligning DEF g
  <2> QED BY <2>3, <2>4 DEF Apart
<1>2. CASE ~(eb <= ea)
  <2> DEFINE g == eb - ea
  <2>1. g \in Nat /\ j = g + h /\ ea <= eb
    BY <1>2
  <2>2. Min({ea, eb}) = ea
    <3>1. Min({eb, ea}) = ea
      BY <2>1, LesserInt
    <3>2. {eb, ea} = {ea, eb}
      OBVIOUS
    <3> QED BY <3>1, <3>2
  <2>3. Aligned(a, ea, b, eb) = <<a * Ten[ea - ea], b * Ten[g]>>
    BY <2>2, Zenon DEF Aligned
  <2> HIDE DEF g
  <2>4. Ten[j] = Ten[g] * Ten[h] /\ Ten[g] \in Nat /\ Ten[h] \in Nat \ {0}
    BY <2>1, TenPlus, TenType
  <2>5. b * Ten[g] = a
    <3> DEFINE p == b * Ten[g]
    <3>1. p \in Nat /\ p * Ten[h] = a * Ten[h]
      BY <2>4
    <3> HIDE DEF p
    <3>2. p = a
      BY <2>4, <3>1
    <3> QED BY <3>2 DEF p
  <2>6. a * Ten[ea - ea] = a
    BY Tens
  <2>7. Aligned(a, ea, b, eb) = <<a, a>>
    BY <2>3, <2>5, <2>6, Zenon
  <2>8. <<a, a>>[1] = a /\ <<a, a>>[2] = a
    OBVIOUS
  <2> QED BY <2>7, <2>8 DEF Dist
<1> QED BY <1>1, <1>2

\* With a number of at most k digits and zeros behind them, nothing that counts
\* is behind the first k digits of the numeral.
LEMMA RestIsZero ==
  ASSUME NEW n, IsNumeral(n), NEW k \in {3, 4}, NEW t, NEW r, Split(k, n, t, r),
         NEW m \in Nat, m <= Ten[k], NEW h \in Nat, NumeralValue(n) = m * Ten[h],
         Len(n.frac) <= k
  PROVE  Value(r) = 0
<1> DEFINE d == Leading(n)
           f == n.frac
           a == d \o f
           j == Len(r)
           v == Value(t)
           w == Value(r)
           p == Ten[j]
           V == NumeralValue(n)
<1>0. k \in Nat /\ k \in Nat \ {0} /\ k - 1 \in Nat
  OBVIOUS
<1>1. t \in DigitSeq /\ r \in DigitSeq /\ a = t \o r /\ (j > 0 => Len(t) = k)
  BY Zenon DEF Split
<1>2. d \in DigitSeq /\ f \in DigitSeq /\ V = Value(a) /\ (Len(d) > 0 => d[1] # 0)
  BY LeadingIs, Zenon DEF IsNumeral, NumeralValue
<1> HIDE DEF d, f, V
<1>3. /\ Len(a) = Len(d) + Len(f) /\ Len(a) = Len(t) + j /\ a \in DigitSeq
      /\ Value(a) = v * p + w
  <2>1. Len(d \o f) = Len(d) + Len(f) /\ d \o f \in DigitSeq
    BY <1>2, ValueConcat
  <2>2. Len(t \o r) = Len(t) + Len(r) /\ Value(t \o r) = Value(t) * Ten[Len(r)] + Value(r)
    BY <1>1, ValueConcat
  <2> QED BY <1>1, <2>1, <2>2
<1>4. Len(d) \in Nat /\ Len(f) \in Nat /\ Len(t) \in Nat /\ j \in Nat
  BY <1>1, <1>2 DEF DigitSeq
<1>5. v \in Nat /\ w \in Nat /\ w < p /\ p \in Nat \ {0}
  BY <1>1, <1>4, ValueType, ValueBound, TenType
<1>6. CASE j = 0
  BY <1>1, <1>6, ValueShort
<1>7. CASE j > 0
  <2>1. Len(a) = k + j
    BY <1>1, <1>3, <1>7
  <2>2. Len(d) > 0
    <3>1. Len(f) <= k
      BY DEF f
    <3> QED BY <1>3, <1>4, <1>7, <2>1, <3>1
  <2>3. a[1] = d[1] /\ d[1] \in Nat /\ d[1] # 0
    BY <1>2, <1>4, <2>2, SMTT(20) DEF DigitSeq
  <2> HIDE DEF a
  <2>4. Ten[Len(a) - 1] <= V
    <3>1. Len(a) > 0
      BY <1>4, <2>1
    <3>2. PICK y \in Nat : Value(a) = a[1] * Ten[Len(a) - 1] + y
      BY <1>3, <3>1, FirstDigit
    <3>3. Len(a) - 1 \in Nat
      BY <1>4, <2>1
    <3>4. Ten[Len(a) - 1] \in Nat
      BY <3>3, TenType
    <3> DEFINE q == Ten[Len(a) - 1]
               c == a[1]
    <3>5. c \in Nat \ {0}
      BY <2>3
    <3> HIDE DEF q, c
    <3>6. c * q >= q
      BY <3>4, <3>5, SMTT(20) DEF q
    <3>7. Value(a) = c * q + y /\ c * q \in Nat
      BY <3>2, <3>4, <3>5 DEF q, c
    <3>8. V >= q
      BY <1>2, <3>4, <3>6, <3>7 DEF q, a
    <3> QED BY <3>8 DEF q
  <2> DEFINE H == Ten[h]
             K == Ten[k]
             i == j - 1
  <2>5. i \in Nat /\ Len(a) - 1 = k + i /\ j = i + 1
    BY <1>4, <1>7, <2>1
  <2>6. H \in Nat \ {0} /\ K \in Nat \ {0} /\ Ten[i] \in Nat \ {0} /\ p = 10 * Ten[i]
    <3>1. j \in Nat \ {0} /\ j - 1 \in Nat
      BY <1>4, <1>7
    <3> HIDE DEF j
    <3>2. p = 10 * Ten[i]
      BY <3>1, Tens
    <3>3. H \in Nat \ {0} /\ K \in Nat \ {0} /\ Ten[i] \in Nat \ {0}
      BY <1>0, <3>1, TenType
    <3> QED BY <3>2, <3>3
  <2>7. V = m * H
    BY DEF V
  <2>8. K * Ten[i] <= m * H
    <3>1. Ten[k + i] = K * Ten[i]
      <4> HIDE DEF i
      <4> QED BY <1>0, <2>5, TenPlus
    <3> QED BY <2>4, <2>5, <2>7, <3>1
  <2> HIDE DEF H, K, i, p, v, w, j
  <2>9. m \in Nat /\ m <= K
    BY DEF K
  <2>10. i <= h
    <3> SUFFICES ASSUME ~(i <= h) PROVE FALSE
      OBVIOUS
    <3>1. h + 1 <= i /\ h + 1 \in Nat
      BY <2>5
    <3>2. Ten[h + 1] <= Ten[i] /\ Ten[h + 1] = 10 * H
      <4>1. (h + 1) - 1 = h /\ h + 1 \in Nat \ {0}
        OBVIOUS
      <4>2. Ten[h + 1] = 10 * Ten[(h + 1) - 1]
        BY <4>1, Tens
      <4>3. Ten[h + 1] <= Ten[i]
        BY <2>5, <3>1, TenGrows
      <4> QED BY <4>1, <4>2, <4>3 DEF H
    <3>3. 10 * H <= Ten[i]
      BY <3>2
    <3>4. K * (10 * H) <= K * Ten[i]
      <4> DEFINE q == Ten[i]
                 y == 10 * H
      <4>1. q \in Nat /\ y \in Nat /\ y <= q
        BY <2>6, <3>3
      <4> HIDE DEF q, y
      <4>2. K * y <= K * q
        BY <2>6, <4>1
      <4> QED BY <4>2 DEF q, y
    <3>5. m * H <= K * H
      BY <2>6, <2>9
    <3>6. K * (10 * H) = 10 * (K * H) /\ K * H > 0 /\ K * H \in Nat
      BY <2>6
    <3> DEFINE x1 == K * (10 * H)
               x2 == K * Ten[i]
               x3 == m * H
               x4 == K * H
    <3>7. x1 \in Nat /\ x2 \in Nat /\ x3 \in Nat /\ x4 \in Nat
      BY <2>6, <2>9
    <3>8. x1 <= x2 /\ x2 <= x3 /\ x3 <= x4 /\ x1 = 10 * x4 /\ x4 > 0
      BY <2>8, <3>4, <3>5, <3>6
    <3> HIDE DEF x1, x2, x3, x4
    <3> QED BY <3>7, <3>8
  <2>11. \E A \in Nat : V = A * p
    <3>1. CASE i = h
      <4>1. m = K
        <5>1. K * H <= m * H
          BY <2>8, <3>1 DEF H
        <5>2. K <= m
          BY <2>6, <2>9, <5>1
        <5> QED BY <2>6, <2>9, <5>2
      <4>2. K = 10 * Ten[k - 1] /\ Ten[k - 1] \in Nat
        <5>1. Ten[k] = 10 * Ten[k - 1]
          BY TenLast, Zenon
        <5>2. Ten[k - 1] \in Nat
          BY <1>0, TenType
        <5> QED BY <5>1, <5>2 DEF K
      <4> DEFINE A == Ten[k - 1]
      <4>3. A \in Nat /\ K = 10 * A
        BY <4>2
      <4> HIDE DEF A
      <4>4. V = (10 * A) * H
        BY <2>7, <4>1, <4>3
      <4>5. p = 10 * H
        BY <2>6, <3>1 DEF H
      <4>6. V = A * p
        BY <2>6, <4>3, <4>4, <4>5
      <4> QED BY <4>3, <4>6
    <3>2. CASE i # h
      <4> DEFINE g == h - j
      <4>1. g \in Nat /\ h = g + j
        BY <1>4, <2>5, <2>10, <3>2
      <4> HIDE DEF g
      <4>2. H = Ten[g] * p /\ Ten[g] \in Nat
        BY <1>4, <4>1, TenPlus, TenType DEF H, p
      <4> DEFINE A == m * Ten[g]
      <4>3. A \in Nat /\ V = A * p
        BY <1>5, <2>7, <4>2
      <4> QED BY <4>3
    <3> QED BY <3>1, <3>2
  <2>12. PICK A \in Nat : V = A * p
    BY <2>11
  <2>13. A * p = v * p + w
    BY <1>2, <1>3, <2>12 DEF a
  <2>14. w = 0
    <3>1. CASE A <= v
      <4>1. A * p <= v * p /\ A * p \in Nat /\ v * p \in Nat
        BY <1>5, <3>1
      <4> QED BY <1>5, <2>13, <4>1
    <3>2. CASE A > v
      <4>1. A >= v + 1
        BY <1>5, <3>2
      <4>2. A * p >= (v + 1) * p
        BY <1>5, <4>1
      <4>3. (v + 1) * p = v * p + p /\ v * p \in Nat /\ A * p \in Nat
        BY <1>5
      <4> QED BY <1>5, <2>13, <4>2, <4>3
    <3> QED BY <1>5, <3>1, <3>2
  <2> QED BY <2>14 DEF w
<1> QED BY <1>4, <1>6, <1>7

\* y was read, in encoding c
WasRead(c, y) == \E n : IsNumeral(n) /\ ~HangsOf(3, n) /\ y = strtod(c, n)

\* two numbers of the 64-bit library are the same but for a sign of 0
Same(y, z) ==
    /\ y.enc \in {"bid", "dpd"} /\ z.enc \in {"bid", "dpd"}
    /\ LET b == DenotedOf("d64", y)
           c == DenotedOf("d64", z)
       IN  Dist(Aligned(b.mant, b.expo, c.mant, c.expo)) = 0 /\ (b.mant # 0 => b.sign = c.sign)

LEMMA StrtodEnc == \A c, n : strtod(c, n).enc \in {"bid", "dpd"}
BY DEF strtod, strtobid, strtodpd, bcdtobid, assemble_bid, bcdtodpd

\* Printing what was read and reading that gives the number again.
LEMMA ReadAgain ==
  ASSUME NEW c, NEW y, WasRead(c, y)
  PROVE  /\ IsNumeral(dtostr(y)) /\ dtostr(y).int # <<>>
         /\ Same(strtod(c, dtostr(y)), y)
<1> DEFINE n == dtostr(y)
           z == strtod(c, n)
<1>1. PICK o : IsNumeral(o) /\ ~HangsOf(3, o) /\ y = strtod(c, o)
  BY DEF WasRead
<1>2. \A u : StrtodOf("d64", c, u) = strtod(c, u)
  BY DEF StrtodOf
<1>3. KOf("d64") = 3
  BY DEF KOf
<1> DEFINE f == ExpoOf(3, o)
<1>a. PICK m \in Nat : Reads("d64", c, o, m)
  BY <1>1, <1>3, ReadGives
<1>4. /\ Known("d64", y, m, f, NegOf(o)) /\ f + BiasOf("d64") > 0 /\ ~MisreadOf("d64", y)
      /\ m <= Ten[3]
  BY <1>1, <1>2, <1>3, <1>a DEF Reads
<1>b. m < 10000 /\ f \in Int /\ DenotedOf("d64", y) = Bcd(m, f, NegOf(o)) /\ Gives("d64", y, m, f, NegOf(o))
  BY <1>4 DEF Known
<1> HIDE DEF f
<1>5. f >= -3
  <2>1. \E t, r : Split(3, o, t, r)
    BY <1>1, Splits
  <2>2. ExpoOf(3, o) >= -3
    BY <2>1, Zenon DEF Split
  <2> QED BY <2>2 DEF f
<1> DEFINE s == NegOf(o)
           g == SignOf(m, s)
           b == Bcd(m, f, g)
<1>6. s \in 0 .. 1
  BY DEF NegOf
<1> HIDE DEF s
<1>7. Writes(n, b) /\ IsNumeral(n)
  <2>1. TostrOf("d64", y) = n
    BY DEF TostrOf
  <2>2. Gives("d64", y, m, f, s)
    BY <1>b DEF s
  <2> QED BY <1>b, <1>6, <2>1, <2>2, Prints
<1> HIDE DEF n, b
<1>8. b.mant = m /\ b.expo = f /\ b.sign = g
  BY BcdIs DEF b
<1> DEFINE F == Len(n.frac)
           h == IF f < 0 THEN 0 ELSE f
<1>9. /\ n.int # <<>> /\ n.sign = (IF g = 1 THEN "-" ELSE "")
      /\ F = (IF f < 0 THEN -f ELSE 0) /\ NumeralValue(n) = m * Ten[h]
  BY <1>7, <1>8, Zenon DEF Writes, NumeralValue
<1>10. F \in Nat /\ F <= 3 /\ h \in Nat /\ h = f + F
  <2> HIDE DEF F
  <2>1. F = IF f < 0 THEN -f ELSE 0
    BY <1>9, Zenon
  <2>2. CASE f < 0
    BY <1>b, <1>5, <2>1, <2>2
  <2>3. CASE ~(f < 0)
    BY <1>b, <2>1, <2>3
  <2> QED BY <2>2, <2>3
<1>11. PICK t, r : Split(3, n, t, r)
  BY <1>7, Splits
<1> DEFINE j == Len(r)
           v == Value(t)
<1>12. /\ t \in DigitSeq /\ r \in DigitSeq /\ t = DigitsOf(3, n)
       /\ j = F + ExpoOf(3, n) /\ ExpoOf(3, n) \in Int
  BY <1>11, Zenon DEF Split
<1>13. RoffOf(3, n) => j > 0 /\ r[1] >= 5
  BY <1>11, Zenon DEF Split
<1>14. j \in Nat /\ v \in Nat
  BY <1>12, ValueType DEF DigitSeq
<1> HIDE DEF h
<1>15. Value(r) = 0
  <2>1. 3 \in {3, 4}
    OBVIOUS
  <2>2. m <= Ten[3]
    BY <1>4, SMT
  <2>3. NumeralValue(n) = m * Ten[h]
    BY <1>9, Zenon
  <2>4. Len(n.frac) <= 3
    BY <1>10, Zenon
  <2> QED BY <1>7, <1>10, <1>11, <2>1, <2>2, <2>3, <2>4, RestIsZero, Zenon
<1>16. ~RoffOf(3, n)
  <2> SUFFICES ASSUME j > 0, r[1] >= 5 PROVE FALSE
    BY <1>13
  <2>1. PICK u \in Nat : Value(r) = r[1] * Ten[j - 1] + u
    BY <1>12, FirstDigit
  <2> DEFINE q == Ten[j - 1]
             e == r[1]
  <2>2. q \in Nat \ {0}
    <3>1. j - 1 \in Nat
      BY <1>14
    <3> QED BY <3>1, TenType
  <2>3. e \in Nat /\ e >= 5
    <3>1. r[1] \in 0 .. 9
      BY <1>12, FirstIsDigit, Zenon
    <3> QED BY <3>1, SMT
  <2> HIDE DEF q, e
  <2>4. e * q > 0 /\ e * q \in Nat
    BY <2>2, <2>3
  <2>5. Value(r) = e * q + u
    BY <2>1 DEF q, e
  <2> QED BY <1>15, <2>4, <2>5
<1>17. ~HangsOf(3, n) /\ MantOf(3, n) = v
  BY <1>12, <1>16, Zenon DEF HangsOf, MantOf
<1>18. v < Ten[3]
  BY <1>7, <1>12, TakenBound
<1>19. Known("d64", z, v, ExpoOf(3, n), NegOf(n))
  <2>1. PICK M \in Nat : Reads("d64", c, n, M)
    BY <1>3, <1>7, <1>17, ReadGives
  <2>2. /\ Known("d64", z, M, ExpoOf(3, n), NegOf(n))
        /\ MantOf(3, n) < Ten[3] => M = MantOf(3, n)
    BY <1>2, <1>3, <2>1 DEF Reads
  <2> QED BY <1>17, <1>18, <2>2
<1> HIDE DEF v, z, j
<1> DEFINE e == ExpoOf(3, n)
           dz == DenotedOf("d64", z)
           dy == DenotedOf("d64", y)
<1>20. dz = Bcd(v, e, NegOf(n)) /\ dy = Bcd(m, f, s)
  BY <1>b, <1>19 DEF Known, s
<1> HIDE DEF dz, dy
<1>21. /\ dz.mant = v /\ dz.expo = e /\ dz.sign = NegOf(n)
       /\ dy.mant = m /\ dy.expo = f /\ dy.sign = s
  BY <1>20, BcdIs
<1>22. v * Ten[j] = m * Ten[h]
  <2>1. NumeralValue(n) = Value(Leading(n) \o n.frac)
    BY <1>7, LeadingIs DEF NumeralValue
  <2>2. Leading(n) \o n.frac = t \o r
    BY <1>11, Zenon DEF Split
  <2>3. Value(t \o r) = v * Ten[j] + Value(r)
    BY <1>12, ValueConcat DEF v, j
  <2>4. v * Ten[j] \in Nat
    BY <1>14, TenType
  <2> DEFINE q == v * Ten[j]
  <2>5. q \in Nat /\ m * Ten[h] = q + Value(r)
    BY <1>9, <2>1, <2>2, <2>3, <2>4, Zenon
  <2> HIDE DEF q
  <2>6. m * Ten[h] = q
    BY <1>15, <2>5
  <2> QED BY <2>6 DEF q
<1>23. Dist(Aligned(v, e, m, f)) = 0
  <2>1. e \in Int /\ e - f = j - h
    <3>1. e \in Int /\ j = F + e
      BY <1>12
    <3> HIDE DEF e, F
    <3> QED BY <1>b, <1>10, <3>1
  <2> HIDE DEF e
  <2> QED BY <1>b, <1>10, <1>14, <1>22, <2>1, AlignedSame
<1>24. v # 0 => NegOf(n) = s
  <2> SUFFICES ASSUME v # 0 PROVE NegOf(n) = s
    OBVIOUS
  <2>1. m # 0
    <3>1. Ten[j] \in Nat \ {0} /\ Ten[h] \in Nat
      BY <1>10, <1>14, TenType
    <3>2. v * Ten[j] # 0
      BY <1>14, <3>1
    <3> QED BY <1>22, <3>1, <3>2
  <2>2. g = s
    BY <2>1 DEF SignOf
  <2>3. CASE s = 1
    BY <1>9, <2>2, <2>3 DEF NegOf
  <2>4. CASE s = 0
    <3>1. g # 1
      BY <2>2, <2>4
    <3>2. n.sign = ""
      BY <1>9, <3>1, Zenon
    <3>3. n.sign # "-"
      BY <3>2, Zenon
    <3> QED BY <2>4, <3>3 DEF NegOf
  <2> QED BY <1>6, <2>3, <2>4
<1>25. y.enc \in {"bid", "dpd"} /\ z.enc \in {"bid", "dpd"}
  BY <1>1, StrtodEnc DEF z
<1>26. Same(z, y)
  <2> HIDE DEF e
  <2> QED BY <1>21, <1>23, <1>24, <1>25 DEF Same, dy, dz
<1> QED BY <1>7, <1>9, <1>26, Zenon DEF n, z

-----------------------------------------------------------------------------
(* A time stamp printed and read again.                                    *)

LEMMA MorePows ==
  /\ Pow(0) = 1 /\ Pow(1) = 10 /\ Pow(2) = 100 /\ Pow(3) = 1000 /\ Pow(4) = 10000
  /\ Pow(5) = 100000 /\ Pow(6) = 1000000 /\ Pow(7) = 10000000 /\ Pow(8) = 100000000
  /\ Pow(9) = 1000000000
BY Powers DEF Pow

LEMMA PowIs ==
  ASSUME NEW j \in 0 .. 9
  PROVE  Pow(j) \in {1, 10, 100, 1000, 10000, 100000, 1000000, 10000000, 100000000, 1000000000}
BY MorePows

\* One digit off the end.
LEMMA LastDigit ==
  ASSUME NEW m \in Nat, NEW j \in 0 .. 8
  PROVE  /\ m \div Pow(j) \in Nat /\ m \div Pow(j + 1) \in Nat /\ (m \div Pow(j)) % 10 \in 0 .. 9
         /\ m \div Pow(j) = 10 * (m \div Pow(j + 1)) + ((m \div Pow(j)) % 10)
<1> DEFINE Fine(p, q) == /\ m \div p \in Nat /\ m \div q \in Nat /\ (m \div p) % 10 \in 0 .. 9
                         /\ m \div p = 10 * (m \div q) + ((m \div p) % 10)
<1>1. Fine(1, 10)
  OBVIOUS
<1>2. Fine(10, 100)
  OBVIOUS
<1>3. Fine(100, 1000)
  OBVIOUS
<1>4. Fine(1000, 10000)
  OBVIOUS
<1>5. Fine(10000, 100000)
  OBVIOUS
<1>6. Fine(100000, 1000000)
  OBVIOUS
<1>7. Fine(1000000, 10000000)
  OBVIOUS
<1>8. Fine(10000000, 100000000)
  OBVIOUS
<1>9. Fine(100000000, 1000000000)
  OBVIOUS
<1> HIDE DEF Fine
<1>10. Fine(Pow(j), Pow(j + 1))
  <2>1. j \in {0, 1, 2, 3, 4, 5, 6, 7, 8}
    OBVIOUS
  <2>2. /\ 0 + 1 = 1 /\ 1 + 1 = 2 /\ 2 + 1 = 3 /\ 3 + 1 = 4 /\ 4 + 1 = 5
        /\ 5 + 1 = 6 /\ 6 + 1 = 7 /\ 7 + 1 = 8 /\ 8 + 1 = 9
    OBVIOUS
  <2>3. /\ Fine(Pow(0), Pow(1)) /\ Fine(Pow(1), Pow(2)) /\ Fine(Pow(2), Pow(3))
        /\ Fine(Pow(3), Pow(4)) /\ Fine(Pow(4), Pow(5)) /\ Fine(Pow(5), Pow(6))
        /\ Fine(Pow(6), Pow(7)) /\ Fine(Pow(7), Pow(8)) /\ Fine(Pow(8), Pow(9))
    BY <1>1, <1>2, <1>3, <1>4, <1>5, <1>6, <1>7, <1>8, <1>9, MorePows
  <2> QED BY <2>1, <2>2, <2>3, Zenon
<1> QED BY <1>10 DEF Fine

\* Digits has no more digits than it takes, and they stand for the number.
LEMMA LongDigits ==
  ASSUME NEW m \in Nat, NEW K \in 0 .. 9, m < Pow(K)
  PROVE  Digits(m) \in DigitSeq /\ Len(Digits(m)) <= K /\ Value(Digits(m)) = m
<1> DEFINE S == {j \in 0 .. 9 : m < 10 ^ j}
           k == Min(S)
           d == Digits(m)
           f == [j \in 0 .. k |-> m \div Pow(k - j)]
<1>1. S \in SUBSET Nat /\ K \in S /\ \A j \in S : j \in 0 .. 9 /\ m < Pow(j)
  BY DEF Pow
<1>2. k \in S /\ k <= K
  <2> HIDE DEF S
  <2> QED BY <1>1, LeastOf
<1>3. d = [i \in 1 .. k |-> (m \div Pow(k - i)) % 10]
  BY DEF Digits, Pow
<1>4. k \in 0 .. 9 /\ m < Pow(k)
  <2> HIDE DEF S, k
  <2> QED BY <1>1, <1>2
<1> HIDE DEF S, k, d
<1>5. \A i \in 1 .. k : d[i] = (m \div Pow(k - i)) % 10 /\ d[i] \in 0 .. 9
  <2> TAKE i \in 1 .. k
  <2>1. k - i \in 0 .. 8
    BY <1>4
  <2>2. (m \div Pow(k - i)) % 10 \in 0 .. 9
    BY <2>1, LastDigit
  <2> QED BY <1>3, <2>2
<1>6. d \in DigitSeq /\ Len(d) = k
  <2>1. d \in [1 .. k -> 0 .. 9] /\ k \in Nat
    BY <1>3, <1>4, <1>5
  <2> QED BY <2>1 DEF DigitSeq
<1>7. \A j \in 0 .. k : f[j] = m \div Pow(k - j)
  OBVIOUS
<1> HIDE DEF f
<1>8. Counts(f, 0, d, k)
  <2>1. f[0] = 0
    <3>1. 0 \in 0 .. k /\ k - 0 = k
      BY <1>4
    <3>2. f[0] = m \div Pow(k)
      BY <1>7, <3>1
    <3>3. \A p \in {1, 10, 100, 1000, 10000, 100000, 1000000, 10000000, 100000000, 1000000000} :
             m < p => m \div p = 0
      OBVIOUS
    <3> QED BY <1>4, <3>2, <3>3, PowIs
  <2>2. ASSUME NEW j \in 1 .. k
        PROVE  f[j] \in Nat /\ d[j] \in Nat /\ f[j - 1] \in Nat /\ f[j] = 10 * f[j - 1] + d[j]
    <3> DEFINE i == k - j
    <3>1. i \in 0 .. 8 /\ j \in 0 .. k /\ j - 1 \in 0 .. k /\ k - (j - 1) = i + 1
      BY <1>4
    <3>2. f[j] = m \div Pow(i) /\ f[j - 1] = m \div Pow(i + 1)
      BY <1>7, <3>1
    <3>3. d[j] = (m \div Pow(i)) % 10 /\ d[j] \in Nat
      BY <1>5
    <3> HIDE DEF i
    <3>4. /\ m \div Pow(i) \in Nat /\ m \div Pow(i + 1) \in Nat
          /\ m \div Pow(i) = 10 * (m \div Pow(i + 1)) + ((m \div Pow(i)) % 10)
      BY <3>1, LastDigit
    <3> QED BY <3>2, <3>3, <3>4
  <2>3. \A j \in 0 .. k : f[j] \in Nat
    <3> TAKE j \in 0 .. k
    <3>1. CASE j = 0
      BY <2>1, <3>1
    <3>2. CASE j # 0
      <4>1. j \in 1 .. k
        BY <1>4, <3>2
      <4> QED BY <2>2, <4>1
    <3> QED BY <3>1, <3>2
  <2> QED BY <1>4, <2>1, <2>2, <2>3 DEF Counts
<1>9. Value(d) = f[k]
  BY <1>6, <1>8, ValueIs
<1>10. f[k] = m
  <2>1. k \in 0 .. k /\ k - k = 0
    BY <1>4
  <2>2. f[k] = m \div Pow(0)
    BY <1>7, <2>1
  <2> QED BY <2>2, MorePows
<1> QED BY <1>2, <1>6, <1>9, <1>10 DEF d

LEMMA Units ==
  /\ G \in 1 .. 3 /\ 3 * G \in 0 .. 9 /\ (3 * G) % G = 0
  /\ NSECS = Pow(3 * G) /\ NSECS \in {1000, 1000000, 1000000000}
<1>1. G \in {1, 2, 3}
  <2>1. G \in 1 .. 3
    BY WireAssumption, Zenon
  <2> QED BY <2>1
<1>2. 3 * G \in {3, 6, 9} /\ (3 * G) % G = 0
  BY <1>1
<1>3. NSECS = Pow(3 * G)
  BY DEF NSECS, Pow
<1>4. Pow(3 * G) \in {1000, 1000000, 1000000000}
  <2> DEFINE u == 3 * G
  <2>1. u = 3 \/ u = 6 \/ u = 9
    BY <1>2
  <2> HIDE DEF u
  <2> QED BY <2>1, MorePows DEF u
<1> QED BY <1>1, <1>2, <1>3, <1>4

\* A time of a second or more is printed as what it is.
LEMMA TimeAgain ==
  ASSUME NEW t \in Nat, t >= NSECS
  PROVE  strtotv(tvtostr(t)) = t
<1> DEFINE N == NSECS
           w == t % N
           a == t \div N
           d == Digits(w)
           z == Zeros(3 * G - Len(d))
           g == z \o d
           f == tvtostr(t)
<1>1. w \in Nat /\ w < N /\ a \in Nat \ {0} /\ t = a * N + w
  <2>1. N \in {1000, 1000000, 1000000000}
    BY Units
  <2> HIDE DEF N
  <2>2. t >= N
    BY DEF N
  <2>3. CASE N = 1000
    BY <2>2, <2>3
  <2>4. CASE N = 1000000
    BY <2>2, <2>4
  <2>5. CASE N = 1000000000
    BY <2>2, <2>5
  <2> QED BY <2>1, <2>3, <2>4, <2>5
<1>2. f = [sec |-> a, frac |-> g]
  BY DEF tvtostr
<1> HIDE DEF w, a, f
<1>3. d \in DigitSeq /\ Len(d) <= 3 * G /\ Value(d) = w
  <2>1. w < Pow(3 * G)
    BY <1>1, Units
  <2> QED BY <1>1, <2>1, Units, LongDigits
<1> HIDE DEF d
<1>4. Len(d) \in Nat /\ 3 * G - Len(d) \in Nat /\ 3 * G \in Nat
  BY <1>3, Units DEF DigitSeq
<1>5. z \in DigitSeq /\ Len(z) = 3 * G - Len(d) /\ Value(z) = 0
  BY <1>4, ZerosAre
<1> HIDE DEF z
<1>6. g \in DigitSeq /\ Len(g) = 3 * G /\ Value(g) = w
  <2>1. g \in DigitSeq /\ Len(g) = Len(z) + Len(d) /\ Value(g) = Value(z) * Ten[Len(d)] + Value(d)
    BY <1>3, <1>5, ValueConcat
  <2>2. Ten[Len(d)] \in Nat
    BY <1>4, TenType
  <2> QED BY <1>1, <1>3, <1>4, <1>5, <2>1, <2>2
<1> HIDE DEF g
<1>7. "sec" \in DOMAIN f /\ f.sec = a /\ f.frac = g
  BY <1>2
<1>8. Value(g \o Zeros(3 * G - Len(g))) = w
  <2>1. 3 * G - Len(g) = 0
    BY <1>4, <1>6
  <2>2. Zeros(0) \in DigitSeq /\ Len(Zeros(0)) = 0 /\ Value(Zeros(0)) = 0
    BY ZerosAre
  <2>3. Value(g \o Zeros(0)) = Value(g) * Ten[0] + 0
    BY <1>6, <2>2, ValueConcat
  <2>4. Value(g \o Zeros(0)) = w
    BY <1>1, <1>6, <2>3, Tens
  <2> QED BY <2>1, <2>4
<1>9. ~("sec" \notin DOMAIN f \/ f.sec = 0 \/ Len(f.frac) > 3 * G \/ Len(f.frac) % G # 0)
  <2>1. ~(Len(g) > 3 * G) /\ Len(g) % G = 0
    BY <1>4, <1>6, Units
  <2>2. a # 0
    BY <1>1
  <2> QED BY <1>7, <2>1, <2>2
<1>10. strtotv(f) = a * NSECS + w
  <2>1. strtotv(f) = f.sec * NSECS + Value(f.frac \o Zeros(3 * G - Len(f.frac)))
    BY <1>9, Zenon DEF strtotv
  <2> QED BY <1>7, <1>8, <2>1, Zenon
<1> QED BY <1>1, <1>10 DEF f

\* A time that was read is at least a second.
LEMMA TimeRead ==
  ASSUME NEW f \in Fields, strtotv(f) # NATV
  PROVE  strtotv(f) \in Nat /\ strtotv(f) >= NSECS
<1> DEFINE g == f.frac
           a == f.sec
           z == Zeros(3 * G - Len(g))
<1>1. ~("sec" \notin DOMAIN f \/ f.sec = 0 \/ Len(f.frac) > 3 * G \/ Len(f.frac) % G # 0)
  BY Zenon DEF strtotv
<1>2. strtotv(f) = a * NSECS + Value(g \o z)
  BY <1>1, Zenon DEF strtotv
<1>3. "sec" \in DOMAIN f /\ a # 0 /\ ~(Len(g) > 3 * G)
  BY <1>1, Zenon
<1>4. f \in Stamps
  <2>1. f \notin Names
    BY <1>3 DEF Names
  <2>2. f \notin Actions
    BY <1>3 DEF Actions
  <2>3. f \notin NumeralFields
    <3>1. \A n \in NumeralFields : DOMAIN n = {"sign", "int", "frac"}
      BY Zenon DEF NumeralFields
    <3>2. "sec" \notin {"sign", "int", "frac"}
      OBVIOUS
    <3> QED BY <1>3, <3>1, <3>2, Zenon
  <2> QED BY <2>1, <2>2, <2>3, Zenon DEF Fields
<1>5. a \in Nat /\ g \in DigitSeq
  BY <1>4 DEF Stamps, DigitSeq
<1> HIDE DEF a, g
<1>6. Len(g) \in Nat /\ 3 * G - Len(g) \in Nat
  BY <1>3, <1>5, Units DEF DigitSeq
<1>7. z \in DigitSeq
  BY <1>6, ZerosAre
<1> HIDE DEF z
<1>8. g \o z \in DigitSeq
  BY <1>5, <1>7, ValueConcat
<1> DEFINE v == Value(g \o z)
<1>9. v \in Nat
  BY <1>8, ValueType
<1> HIDE DEF v
<1>10. NSECS \in Nat
  BY Units
<1>11. a * NSECS \in Nat /\ a * NSECS >= NSECS
  BY <1>3, <1>5, <1>10
<1>12. strtotv(f) = a * NSECS + v
  BY <1>2 DEF v
<1> QED BY <1>9, <1>10, <1>11, <1>12

-----------------------------------------------------------------------------
(* A line printed and read again.                                          *)

\* side, price and quantity of a quote read from a line, in encoding c
QuoteRead(c, u) ==
    u.s \in 1 .. 15 /\ (u.p = NaN \/ WasRead(c, u.p)) /\ WasRead(c, u.q)

\* Line l says what quote u is: w is what is in front of the action, the time
\* comes first in it and the instrument last.
Says(w, l, u) ==
    /\ \E S : w \in Seq(S) /\ Len(w) > 0
    /\ l = w \o <<Act(u.s), dtostr(u.p), dtostr(u.q)>>
    /\ strtotv(w[1]) = u.t /\ u.ins = <<w[Len(w)]>> /\ w[Len(w)] # NoName

\* What was read comes from one of the lines; what was printed says it.
LineInv ==
    /\ op = "quote" => lib = "d64" /\ line \in Lines /\ ~Spins(line) /\ quo = read_xquo(enc, line)
    /\ op \in {"prq2", "snap2"} =>
          QuoteRead(enc, quo) /\ (quo.ins # <<>> => \E w : Says(w, line, quo))

LEMMA SideType == \A c \in 0 .. 255 : Side(c) \in 0 .. 15
<1> TAKE c \in 0 .. 255
<1>1. Capital(c) \in Int
  BY DEF Capital
<1>2. Capital(c) % 16 \in 0 .. 15
  BY <1>1
<1> QED BY <1>2 DEF Side

\* A side is printed as the letter it is read from.
LEMMA SideAgain ==
  ASSUME NEW s \in 1 .. 15
  PROVE  Side(Act(s).side) = s /\ Flavour(Act(s).flavour) = 2
<1>1. Act(s).side = 64 + s /\ Act(s).flavour = 50
  BY DEF Act
<1>2. ((64 + s) \div 32) % 2 = 0 /\ (64 + s) % 16 = s /\ 64 + s # 0
  OBVIOUS
<1>3. Capital(64 + s) = 64 + s
  BY <1>2 DEF Capital
<1>4. Side(64 + s) = s
  BY <1>2, <1>3 DEF Side
<1>5. Flavour(50) = 2
  BY DEF Flavour
<1> QED BY <1>1, <1>4, <1>5

LEMMA FieldNumeral == \A n \in NumeralFields : IsNumeral(n)
BY Zenon DEF NumeralFields, IsNumeral, DigitSeq

\* The fields of a quote that a line is read as.
LEMMA QuoteFields ==
  ASSUME NEW l, ~(Len(l) < 3 \/ Side(l[Len(l) - 2].side) = 0)
  PROVE  LET u == read_xquo(enc, l)
         IN  /\ u.s = Side(l[Len(l) - 2].side) /\ u.f = Flavour(l[Len(l) - 2].flavour)
             /\ u.p = (IF NoProgress(l[Len(l) - 1]) THEN NaN ELSE strtod(enc, l[Len(l) - 1]))
             /\ u.q = strtod(enc, l[Len(l)]) /\ u.t = strtotv(l[1])
             /\ u.ins = (IF Len(l) = 3 \/ l[Len(l) - 3] = NoName THEN <<>> ELSE <<l[Len(l) - 3]>>)
             /\ u # NotAXQuo /\ DOMAIN u = {"s", "f", "p", "q", "t", "ins"}
<1> DEFINE u == read_xquo(enc, l)
           a == Side(l[Len(l) - 2].side)
           b == Flavour(l[Len(l) - 2].flavour)
           p == IF NoProgress(l[Len(l) - 1]) THEN NaN ELSE strtod(enc, l[Len(l) - 1])
           q == strtod(enc, l[Len(l)])
           t == strtotv(l[1])
           i == IF Len(l) = 3 \/ l[Len(l) - 3] = NoName THEN <<>> ELSE <<l[Len(l) - 3]>>
<1>1. u = [s |-> a, f |-> b, p |-> p, q |-> q, t |-> t, ins |-> i]
  BY Zenon DEF read_xquo
<1> HIDE DEF u, a, b, p, q, t, i
<1>2. u.s = a /\ u.f = b /\ u.p = p /\ u.q = q /\ u.t = t /\ u.ins = i
  BY <1>1
<1>3. u # NotAXQuo
  <2>1. "f" \in DOMAIN u /\ "f" \notin DOMAIN NotAXQuo
    BY <1>1 DEF NotAXQuo
  <2> QED BY <2>1
<1>4. DOMAIN u = {"s", "f", "p", "q", "t", "ins"}
  BY <1>1
<1> QED BY <1>2, <1>3, <1>4 DEF u, a, b, p, q, t, i

\* A quote read is one of a line with the fields it takes.
LEMMA ReadQuote ==
  ASSUME NEW l \in Lines, ~Spins(l), read_xquo(enc, l) # NotAXQuo
  PROVE  /\ l \in Seq(Fields) /\ Len(l) \in Nat /\ Len(l) > 2 /\ ~(Len(l) < 3 \/ Side(l[Len(l) - 2].side) = 0)
         /\ QuoteRead(enc, read_xquo(enc, l))
<1> DEFINE u == read_xquo(enc, l)
           k == Len(l)
<1>1. l \in Seq(Fields) /\ (k > 2 => l[k - 2] \in Actions /\ l[k - 1] \in NumeralFields /\ l[k] \in NumeralFields)
  BY WireAssumption, Zenon
<1>2. k \in Nat
  BY <1>1
<1>3. ~(Len(l) < 3 \/ Side(l[Len(l) - 2].side) = 0)
  BY Zenon DEF read_xquo
<1>4. k > 2
  BY <1>2, <1>3
<1>5. l[k - 2].side \in 0 .. 255
  BY <1>1, <1>4 DEF Actions
<1>6. u.s \in 1 .. 15
  <2>1. u.s = Side(l[k - 2].side)
    BY <1>3, QuoteFields
  <2>2. u.s \in 0 .. 15 /\ u.s # 0
    BY <1>3, <1>5, <2>1, SideType
  <2> HIDE DEF u
  <2> QED BY <2>2
<1>7. IsNumeral(l[k - 1]) /\ IsNumeral(l[k])
  BY <1>1, <1>4, FieldNumeral
<1>8. ~Endless(l[k]) /\ ~Endless(l[k - 1])
  <2>1. 1 \in 1 .. 2 /\ 2 \in 1 .. 2 /\ k > 1 /\ k + 1 - 1 = k /\ k + 1 - 2 = k - 1
    BY <1>2, <1>4
  <2>2. ~Endless(l[k + 1 - 1])
    BY <2>1 DEF Spins
  <2>3. ~Endless(l[k + 1 - 2])
    BY <1>4, <2>1 DEF Spins
  <2> QED BY <2>1, <2>2, <2>3
<1>9. ~HangsOf(3, l[k]) /\ ~HangsOf(3, l[k - 1])
  BY <1>8, StrtobcdIs
<1>10. WasRead(enc, u.q)
  <2>1. u.q = strtod(enc, l[k])
    BY <1>3, QuoteFields
  <2> QED BY <1>7, <1>9, <2>1 DEF WasRead
<1>11. u.p = NaN \/ WasRead(enc, u.p)
  <2>1. u.p = IF NoProgress(l[k - 1]) THEN NaN ELSE strtod(enc, l[k - 1])
    BY <1>3, QuoteFields
  <2> QED BY <1>7, <1>9, <2>1 DEF WasRead
<1> QED BY <1>1, <1>2, <1>3, <1>4, <1>6, <1>10, <1>11 DEF QuoteRead

\* Where the fields of a line are.
LEMMA LineParts ==
  ASSUME NEW S, NEW w \in Seq(S), Len(w) > 0, NEW a, NEW p, NEW q, NEW l, l = w \o <<a, p, q>>
  PROVE  /\ Len(w) \in Nat /\ Len(l) = Len(w) + 3 /\ l[1] = w[1] /\ l[Len(l) - 3] = w[Len(w)]
         /\ l[Len(l) - 2] = a /\ l[Len(l) - 1] = p /\ l[Len(l)] = q
<1> DEFINE T == S \cup {a, p, q}
           r == <<a, p, q>>
           k == Len(w)
<1>1. w \in Seq(T) /\ r \in Seq(T) /\ Len(r) = 3 /\ r[1] = a /\ r[2] = p /\ r[3] = q /\ k \in Nat
  OBVIOUS
<1> HIDE DEF T, r
<1>2. /\ Len(w \o r) = k + Len(r)
      /\ \A i \in 1 .. k + Len(r) : (w \o r)[i] = IF i <= k THEN w[i] ELSE r[i - k]
  BY <1>1, ConcatProperties
<1>3. Len(l) = k + 3 /\ \A i \in 1 .. k + 3 : l[i] = IF i <= k THEN w[i] ELSE r[i - k]
  BY <1>1, <1>2 DEF r
<1> HIDE DEF k
<1>4. k \in Nat /\ k > 0
  BY <1>1 DEF k
<1>5. l[1] = w[1] /\ l[k] = w[k] /\ l[k + 1] = r[1] /\ l[k + 2] = r[2] /\ l[k + 3] = r[3]
  <2>1. /\ 1 \in 1 .. k + 3 /\ k \in 1 .. k + 3 /\ k + 1 \in 1 .. k + 3
        /\ k + 2 \in 1 .. k + 3 /\ k + 3 \in 1 .. k + 3
    BY <1>4
  <2>2. /\ 1 <= k /\ k <= k /\ ~(k + 1 <= k) /\ ~(k + 2 <= k) /\ ~(k + 3 <= k)
        /\ (k + 1) - k = 1 /\ (k + 2) - k = 2 /\ (k + 3) - k = 3
    BY <1>4
  <2>3. \A i \in 1 .. k + 3 : l[i] = IF i <= k THEN w[i] ELSE r[i - k]
    BY <1>3
  <2> QED BY <2>1, <2>2, <2>3, Zenon
<1>6. k + 3 - 3 = k /\ k + 3 - 2 = k + 1 /\ k + 3 - 1 = k + 2
  BY <1>4
<1> QED BY <1>1, <1>3, <1>4, <1>5, <1>6 DEF k

\* The same number is the same value.
LEMMA SameIsSame ==
  ASSUME lib = "d64", NEW y, NEW z, Same(y, z)
  PROVE  SameValue(y, z)
<1>1. y # NaN /\ z # NaN
  BY NotNaN DEF Same
<1>2. Denoted(y) = DenotedOf("d64", y) /\ Denoted(z) = DenotedOf("d64", z)
  BY DenotedIs
<1> QED BY <1>1, <1>2 DEF Same, SameValue

\* A line that says what a quote is is read as that quote.
LEMMA ReadBack ==
  ASSUME lib = "d64", NEW w, NEW l, NEW u, QuoteRead(enc, u), Says(w, l, u)
  PROVE  LET z == read_xquo(enc, l)
         IN  /\ z # NotAXQuo
             /\ <<z.s, z.f, z.t, z.ins>> = <<u.s, 2, u.t, u.ins>>
             /\ SameValue(z.p, u.p) /\ SameValue(z.q, u.q)
<1> DEFINE z == read_xquo(enc, l)
           k == Len(l)
           a == Act(u.s)
           p == dtostr(u.p)
           q == dtostr(u.q)
<1>1. PICK S : w \in Seq(S) /\ Len(w) > 0
  BY DEF Says
<1>2. /\ l = w \o <<a, p, q>> /\ strtotv(w[1]) = u.t /\ u.ins = <<w[Len(w)]>>
      /\ w[Len(w)] # NoName
  BY DEF Says
<1>3. u.s \in 1 .. 15 /\ (u.p = NaN \/ WasRead(enc, u.p)) /\ WasRead(enc, u.q)
  BY DEF QuoteRead
<1> HIDE DEF a, p, q
<1>4. /\ Len(w) \in Nat /\ k = Len(w) + 3 /\ l[1] = w[1] /\ l[k - 3] = w[Len(w)]
      /\ l[k - 2] = a /\ l[k - 1] = p /\ l[k] = q
  BY <1>1, <1>2, LineParts
<1>5. Side(a.side) = u.s /\ Flavour(a.flavour) = 2
  BY <1>3, SideAgain DEF a
<1>6. ~(k < 3 \/ Side(l[k - 2].side) = 0) /\ k # 3
  <2>1. ~(k < 3) /\ k # 3
    BY <1>1, <1>4
  <2>2. Side(l[k - 2].side) # 0
    BY <1>3, <1>4, <1>5
  <2> QED BY <2>1, <2>2
<1>7. /\ z.s = Side(l[k - 2].side) /\ z.f = Flavour(l[k - 2].flavour)
      /\ z.p = (IF NoProgress(l[k - 1]) THEN NaN ELSE strtod(enc, l[k - 1]))
      /\ z.q = strtod(enc, l[k]) /\ z.t = strtotv(l[1])
      /\ z.ins = (IF k = 3 \/ l[k - 3] = NoName THEN <<>> ELSE <<l[k - 3]>>)
      /\ z # NotAXQuo
  BY <1>6, QuoteFields
<1> HIDE DEF z, k
<1>8. z.s = u.s /\ z.f = 2 /\ z.t = u.t /\ z.ins = u.ins
  BY <1>2, <1>4, <1>5, <1>6, <1>7, Zenon
<1>9. SameValue(z.q, u.q)
  <2>1. Same(strtod(enc, q), u.q)
    BY <1>3, ReadAgain DEF q
  <2> QED BY <1>4, <1>7, <2>1, SameIsSame
<1>10. SameValue(z.p, u.p)
  <2>1. CASE u.p = NaN
    <3>1. p = NaNText
      BY <2>1 DEF dtostr, p
    <3>2. NoProgress(p)
      BY <3>1, Zenon DEF NaNText, NoProgress
    <3>3. z.p = NaN
      BY <1>4, <1>7, <3>2
    <3> QED BY <2>1, <3>3 DEF SameValue
  <2>2. CASE WasRead(enc, u.p)
    <3>1. p.int # <<>> /\ Same(strtod(enc, p), u.p)
      BY <2>2, ReadAgain DEF p
    <3>2. ~NoProgress(p)
      BY <3>1, Zenon DEF NoProgress
    <3>3. z.p = strtod(enc, p)
      BY <1>4, <1>7, <3>2
    <3> QED BY <3>1, <3>3, SameIsSame
  <2> QED BY <1>3, <2>1, <2>2
<1> QED BY <1>7, <1>8, <1>9, <1>10 DEF z

\* prq2 copies the line up to the instrument.
LEMMA Prq2Step ==
  ASSUME LineInv, prq2
  PROVE  LineInv'
<1> DEFINE l == line
           k == Len(l)
           w == SubSeq(l, 1, k - 3)
<1>1. /\ op = "quote" /\ quo # NotAXQuo /\ op' = "prq2" /\ quo' = quo /\ enc' = enc
      /\ line' = Prefix \o <<Act(quo.s), dtostr(quo.p), dtostr(quo.q)>>
  BY DEF prq2
<1>2. l \in Lines /\ ~Spins(l) /\ quo = read_xquo(enc, l)
  BY <1>1 DEF LineInv
<1>3. /\ l \in Seq(Fields) /\ k \in Nat /\ k > 2 /\ ~(k < 3 \/ Side(l[k - 2].side) = 0)
      /\ QuoteRead(enc, quo)
  BY <1>1, <1>2, ReadQuote
<1>4. /\ quo.t = strtotv(l[1])
      /\ quo.ins = (IF k = 3 \/ l[k - 3] = NoName THEN <<>> ELSE <<l[k - 3]>>)
  BY <1>2, <1>3, QuoteFields
<1>5. ASSUME quo.ins # <<>> PROVE \E v : Says(v, line', quo)
  <2>1. k # 3 /\ l[k - 3] # NoName /\ quo.ins = <<l[k - 3]>>
    BY <1>4, <1>5, Zenon
  <2>2. k - 3 \in Nat /\ k - 3 > 0
    <3>1. k \in Nat /\ k > 2 /\ k # 3
      BY <1>3, <2>1
    <3> HIDE DEF k
    <3> QED BY <3>1
  <2>3. /\ w \in Seq(Fields) /\ Len(w) = k - 3 /\ w[1] = l[1] /\ w[k - 3] = l[k - 3]
    <3> DEFINE j == k - 3
    <3>1. j \in Nat /\ j > 0 /\ j <= k
      BY <1>3, <2>2
    <3>2. \A i \in 1 .. j : l[i] \in Fields
      BY <1>3, <3>1
    <3> HIDE DEF j
    <3>3. /\ SubSeq(l, 1, j) \in Seq(Fields)
          /\ Len(SubSeq(l, 1, j)) = (IF 1 <= j THEN j - 1 + 1 ELSE 0)
          /\ \A i \in 1 .. j - 1 + 1 : SubSeq(l, 1, j)[i] = l[1 + i - 1]
      BY <3>1, <3>2, SubSeqProperties
    <3>4. 1 \in 1 .. j - 1 + 1 /\ j \in 1 .. j - 1 + 1 /\ 1 + 1 - 1 = 1 /\ 1 + j - 1 = j /\ j - 1 + 1 = j
      BY <3>1
    <3> QED BY <3>1, <3>3, <3>4 DEF j
  <2>4. Prefix = w
    BY <1>5 DEF Prefix
  <2> HIDE DEF w
  <2>5. line' = w \o <<Act(quo.s), dtostr(quo.p), dtostr(quo.q)>>
    BY <1>1, <2>4
  <2>6. Len(w) > 0
    BY <2>2, <2>3
  <2>7. Says(w, line', quo)
    BY <1>4, <2>1, <2>3, <2>5, <2>6, Zenon DEF Says
  <2> QED BY <2>7
<1> QED BY <1>1, <1>3, <1>5 DEF LineInv

LEMMA Pair == \A a, b : <<a>> \o <<b>> = <<a, b>>
<1> TAKE a, b
<1> DEFINE S == {a, b}
           p == <<a>>
           q == <<b>>
           r == <<a, b>>
<1>1. p \in Seq(S) /\ q \in Seq(S) /\ r \in Seq(S) /\ Len(p) = 1 /\ Len(q) = 1 /\ Len(r) = 2
  OBVIOUS
<1>2. p[1] = a /\ q[1] = b /\ r[1] = a /\ r[2] = b
  OBVIOUS
<1> HIDE DEF S, p, q, r
<1>3. /\ p \o q \in Seq(S) /\ Len(p \o q) = Len(p) + Len(q)
      /\ \A i \in 1 .. Len(p) + Len(q) : (p \o q)[i] = IF i <= Len(p) THEN p[i] ELSE q[i - Len(p)]
  BY <1>1, ConcatProperties
<1>4. (p \o q)[1] = a /\ (p \o q)[2] = b /\ Len(p \o q) = 2
  BY <1>1, <1>2, <1>3
<1>5. p \o q = r
  <2>1. \A i \in 1 .. 2 : (p \o q)[i] = r[i]
    BY <1>2, <1>4
  <2> QED BY <1>1, <1>3, <1>4, <2>1, SeqEqual
<1> QED BY <1>5 DEF p, q, r

\* snap2 puts the stamp of the snapshot in front of the instrument.
LEMMA Snap2Step ==
  ASSUME LineInv, NEW m \in Metronome, snap2(m)
  PROVE  LineInv'
<1> DEFINE l == line
           k == Len(l)
           u == [quo EXCEPT !.t = m]
           I == l[k - 3]
           w == <<tvtostr(m), I>>
<1>1. /\ op = "quote" /\ quo # NotAXQuo /\ quo.t # NATV /\ op' = "snap2" /\ quo' = u /\ enc' = enc
      /\ line' = <<tvtostr(m)>> \o (IF quo.ins = <<>> THEN <<NoName>> ELSE quo.ins) \o
                 <<Act(quo.s), dtostr(quo.p), dtostr(quo.q)>>
  BY DEF snap2
<1>2. l \in Lines /\ ~Spins(l) /\ quo = read_xquo(enc, l)
  BY <1>1 DEF LineInv
<1>3. /\ l \in Seq(Fields) /\ k \in Nat /\ k > 2 /\ ~(k < 3 \/ Side(l[k - 2].side) = 0)
      /\ QuoteRead(enc, quo)
  BY <1>1, <1>2, ReadQuote
<1>4. /\ quo.t = strtotv(l[1]) /\ DOMAIN quo = {"s", "f", "p", "q", "t", "ins"}
      /\ quo.ins = (IF k = 3 \/ l[k - 3] = NoName THEN <<>> ELSE <<l[k - 3]>>)
  BY <1>2, <1>3, QuoteFields
<1>5. u.s = quo.s /\ u.p = quo.p /\ u.q = quo.q /\ u.ins = quo.ins /\ u.t = m
  BY <1>4
<1>6. m \in Nat /\ m >= NSECS
  <2>1. l[1] \in Fields
    BY <1>3
  <2>2. quo.t \in Nat /\ quo.t >= NSECS
    BY <1>1, <1>4, <2>1, TimeRead
  <2>3. NSECS \in Nat
    BY Units
  <2>4. m \in {quo.t, quo.t + 1, quo.t + NSECS}
    BY <1>1 DEF Metronome
  <2> QED BY <2>2, <2>3, <2>4
<1>7. strtotv(tvtostr(m)) = m
  BY <1>6, TimeAgain
<1> HIDE DEF u
<1>8. QuoteRead(enc, u)
  BY <1>3, <1>5 DEF QuoteRead
<1>9. ASSUME quo.ins # <<>> PROVE \E v : Says(v, line', u)
  <2>1. I # NoName /\ quo.ins = <<I>>
    BY <1>4, <1>9, Zenon
  <2> HIDE DEF I
  <2> DEFINE T == {tvtostr(m), I}
  <2>2. w \in Seq(T) /\ Len(w) = 2 /\ w[1] = tvtostr(m) /\ w[2] = I /\ Len(w) > 0
    OBVIOUS
  <2>3. <<tvtostr(m)>> \o <<I>> = w
    BY Pair
  <2> HIDE DEF w, T
  <2>4. line' = w \o <<Act(u.s), dtostr(u.p), dtostr(u.q)>>
    BY <1>1, <1>5, <1>9, <2>1, <2>3
  <2>5. strtotv(w[1]) = u.t /\ u.ins = <<w[Len(w)]>> /\ w[Len(w)] # NoName
    BY <1>5, <1>7, <2>1, <2>2
  <2>6. Says(w, line', u)
    BY <2>2, <2>4, <2>5, Zenon DEF Says
  <2> QED BY <2>6
<1> QED BY <1>1, <1>5, <1>8, <1>9 DEF LineInv

LEMMA LineInvariant == WireSpec => []LineInv
<1>1. WireInit => LineInv
  BY DEF WireInit, LineInv
<1>2. LineInv /\ [WireNext]_wvars => LineInv'
  <2> SUFFICES ASSUME LineInv, [WireNext]_wvars PROVE LineInv'
    OBVIOUS
  <2>0. ASSUME op' \notin {"quote", "prq2", "snap2"} PROVE LineInv'
    BY <2>0 DEF LineInv
  <2>1. ASSUME NEW n, ReadNumber(n) PROVE LineInv'
    BY <2>0, <2>1 DEF ReadNumber
  <2>2. ASSUME NEW m, NEW e, NEW s, Compute(m, e, s) PROVE LineInv'
    BY <2>0, <2>2 DEF Compute
  <2>3. ASSUME op = "idle", NEW l \in Lines, ReadLine(l) PROVE LineInv'
    <3>1. /\ op' = "quote" /\ lib' = "d64" /\ line' = l /\ ~Spins(l) /\ quo' = read_xquo(enc, l)
          /\ enc' = enc
      BY <2>3 DEF ReadLine
    <3> QED BY <3>1 DEF LineInv
  <2>4. ASSUME op # "idle", ReadLine(line) PROVE LineInv'
    BY <2>0, <2>4 DEF ReadLine
  <2>5. ASSUME PrintNumber PROVE LineInv'
    BY <2>0, <2>5 DEF PrintNumber
  <2>6. ASSUME NEW r, Quantise(r) PROVE LineInv'
    BY <2>0, <2>6 DEF Quantise
  <2>7. ASSUME NEW k, Scale(k) PROVE LineInv'
    BY <2>0, <2>7 DEF Scale
  <2>8. ASSUME prq2 PROVE LineInv'
    BY <2>8, Prq2Step
  <2>9. ASSUME NEW m \in Metronome, snap2(m) PROVE LineInv'
    BY <2>9, Snap2Step
  <2>10. ASSUME Idle PROVE LineInv'
    BY <2>0, <2>10 DEF Idle
  <2>11. ASSUME UNCHANGED wvars PROVE LineInv'
    <3>1. UNCHANGED <<lib, enc, op, line, quo>>
      BY <2>11 DEF wvars
    <3> QED BY <3>1 DEF LineInv
  <2>12. CASE op \in {"prq2", "snap2"} /\ ReadLine(line)
    <3>1. op # "idle"
      BY <2>12
    <3> QED BY <2>4, <2>12, <3>1
  <2> QED BY <2>1, <2>2, <2>3, <2>5, <2>6, <2>7, <2>8, <2>9, <2>10, <2>11, <2>12 DEF WireNext
<1> QED BY <1>1, <1>2, PTL DEF WireSpec

\* A line that book2book -2 or booksnap printed is read by the next program as
\* the quote it was printed for, whatever numerals, stamps and letters the first
\* one had read.
THEOREM LinesAlwaysReadBack == WireSpec => LinesReadBack
<1> DEFINE Back == op' = "again" /\ quo.ins # <<>> =>
                      /\ quo' # NotAXQuo
                      /\ <<quo'.s, quo'.f, quo'.t, quo'.ins>> = <<quo.s, 2, quo.t, quo.ins>>
                      /\ SameValue(quo'.p, quo.p) /\ SameValue(quo'.q, quo.q)
<1>1. LineInv /\ [WireNext]_wvars => [Back]_wvars
  <2> SUFFICES ASSUME LineInv, WireNext, op' = "again", quo.ins # <<>> PROVE Back
    OBVIOUS
  <2>1. op \in {"prq2", "snap2"} /\ ReadLine(line)
    <3>1. ASSUME op = "idle", NEW l, ReadLine(l) PROVE FALSE
      BY <3>1 DEF ReadLine
    <3> QED BY <3>1 DEF WireNext, ReadNumber, Compute, PrintNumber, Quantise, Scale, prq2, snap2, Idle
  <2>2. lib = "d64" /\ quo' = read_xquo(enc, line)
    BY <2>1 DEF ReadLine
  <2>3. QuoteRead(enc, quo) /\ \E w : Says(w, line, quo)
    BY <2>1 DEF LineInv
  <2>4. PICK w : Says(w, line, quo)
    BY <2>3
  <2> QED BY <2>2, <2>3, <2>4, ReadBack
<1> QED BY <1>1, LineInvariant, PTL DEF WireSpec, LinesReadBack

-----------------------------------------------------------------------------
(* Rounding.                                                               *)

\* s has what is left of m with 0, 1, .. k digits taken off
Dropped(s, m, k) == s = [j \in 0 .. k |-> IF j = 0 THEN m ELSE Shorter(s[j - 1])]

LEMMA DroppedExists ==
  ASSUME NEW m
  PROVE  \A k \in Nat : \E s : Dropped(s, m, k)
<1> DEFINE B == {k \in Nat : ~\E s : Dropped(s, m, k)}
<1> SUFFICES ASSUME B # {} PROVE FALSE
  OBVIOUS
<1> DEFINE u == Min(B)
<1>1. u \in B /\ \A y \in B : u <= y
  <2>1. PICK b \in B : TRUE
    OBVIOUS
  <2>2. B \in SUBSET Nat
    OBVIOUS
  <2> HIDE DEF B
  <2> QED BY <2>1, <2>2, LeastOf
<1> HIDE DEF u
<1>2. u \in Nat /\ ~\E s : Dropped(s, m, u)
  BY <1>1
<1>3. u # 0
  <2> SUFFICES ASSUME u = 0 PROVE FALSE
    OBVIOUS
  <2> DEFINE s == [j \in 0 .. 0 |-> m]
  <2>1. s = [j \in 0 .. 0 |-> IF j = 0 THEN m ELSE Shorter(s[j - 1])]
    OBVIOUS
  <2>2. Dropped(s, m, 0)
    BY <2>1 DEF Dropped
  <2> HIDE DEF s
  <2> QED BY <1>2, <2>2
<1>4. u - 1 \in Nat /\ ~(u <= u - 1)
  BY <1>2, <1>3
<1>5. u - 1 \notin B
  <2> HIDE DEF B
  <2> QED BY <1>1, <1>4
<1>6. PICK r : Dropped(r, m, u - 1)
  BY <1>4, <1>5
<1>7. \A j \in 0 .. u - 1 : r[j] = IF j = 0 THEN m ELSE Shorter(r[j - 1])
  BY <1>6 DEF Dropped
<1> DEFINE s == [j \in 0 .. u |-> IF j = u THEN Shorter(r[u - 1]) ELSE r[j]]
<1>8. \A j \in 0 .. u : s[j] = IF j = 0 THEN m ELSE Shorter(s[j - 1])
  <2> TAKE j \in 0 .. u
  <2>1. CASE j = u
    BY <1>2, <1>3, <2>1
  <2>2. CASE j # u
    <3>1. j \in 0 .. u - 1 /\ s[j] = r[j]
      BY <1>2, <2>2
    <3>2. j # 0 => j - 1 \in 0 .. u /\ j - 1 # u
      BY <1>2, <3>1
    <3> QED BY <1>7, <3>1, <3>2
  <2> QED BY <2>1, <2>2
<1>9. s = [j \in 0 .. u |-> s[j]]
  OBVIOUS
<1> HIDE DEF s
<1>10. Dropped(s, m, u)
  BY <1>8, <1>9 DEF Dropped
<1> QED BY <1>2, <1>10

LEMMA ShorterSame == \A m : D32!D!Shorter(m) = Shorter(m)
BY DEF Shorter, D32!D!Shorter

LEMMA ShortenedIs ==
  ASSUME NEW m, NEW k \in Nat
  PROVE  \E s : Dropped(s, m, k) /\ Shortened(m, k) = s[k] /\ D32!D!Shortened(m, k) = s[k]
<1> DEFINE h == CHOOSE s : s = [j \in 0 .. k |-> IF j = 0 THEN m ELSE Shorter(s[j - 1])]
<1>1. Shortened(m, k) = h[k]
  BY DEF Shortened
<1>2. D32!D!Shortened(m, k) = h[k]
  BY ShorterSame, Zenon DEF D32!D!Shortened
<1>3. \E s : s = [j \in 0 .. k |-> IF j = 0 THEN m ELSE Shorter(s[j - 1])]
  BY DroppedExists DEF Dropped
<1>4. h = [j \in 0 .. k |-> IF j = 0 THEN m ELSE Shorter(h[j - 1])]
  BY <1>3
<1> HIDE DEF h
<1>5. Dropped(h, m, k)
  BY <1>4 DEF Dropped
<1> QED BY <1>1, <1>2, <1>5

\* z is m without its last digits, which make up for t, rounded one by one
Near(z, m, t) ==
    /\ z \in Nat /\ z <= m
    /\ 9 * (z * t - m) <= 5 * (t - 1) /\ 9 * (m - z * t) <= 5 * (t - 1)

LEMMA NearMore ==
  ASSUME NEW m \in Nat, NEW t \in Nat \ {0}, NEW z, Near(z, m, t)
  PROVE  Near(Shorter(z), m, 10 * t)
<1> DEFINE y == Shorter(z)
<1>1. z \in Nat /\ z <= m
  BY DEF Near
<1>2. y \in Nat /\ z <= 10 * y + 4 /\ 10 * y <= z + 5
  BY <1>1 DEF Shorter
<1>a. y <= z
  BY <1>1 DEF Shorter
<1>3. 9 * (z * t - m) <= 5 * (t - 1) /\ 9 * (m - z * t) <= 5 * (t - 1)
  BY DEF Near
<1> HIDE DEF y
<1> DEFINE v == 10 * y - z
           p == z * t
           q == v * t
<1>4. y * (10 * t) = p + q
  BY <1>1, <1>2
<1>5. v \in Int /\ -4 <= v /\ v <= 5 /\ p \in Int /\ q \in Int
  BY <1>1, <1>2
<1> HIDE DEF v
<1>6. -4 * t <= q /\ q <= 5 * t
  BY <1>5
<1>7. 9 * (p - m) <= 5 * (t - 1) /\ 9 * (m - p) <= 5 * (t - 1)
  BY <1>3
<1> HIDE DEF p, q
<1>8. 9 * (p + q - m) <= 5 * (10 * t - 1) /\ 9 * (m - (p + q)) <= 5 * (10 * t - 1)
  BY <1>5, <1>6, <1>7
<1>9. y <= m
  BY <1>1, <1>2, <1>a
<1>10. Near(y, m, 10 * t)
  BY <1>2, <1>4, <1>8, <1>9 DEF Near
<1> QED BY <1>10 DEF y

LEMMA ShortenedNear ==
  ASSUME NEW m \in Nat, NEW k \in Nat
  PROVE  Near(Shortened(m, k), m, Ten[k]) /\ D32!D!Shortened(m, k) = Shortened(m, k)
<1>1. PICK s : Dropped(s, m, k) /\ Shortened(m, k) = s[k] /\ D32!D!Shortened(m, k) = s[k]
  BY ShortenedIs
<1>2. \A j \in 0 .. k : s[j] = IF j = 0 THEN m ELSE Shorter(s[j - 1])
  BY <1>1 DEF Dropped
<1> DEFINE B == {j \in 0 .. k : ~Near(s[j], m, Ten[j])}
<1>3. B = {}
  <2> SUFFICES ASSUME B # {} PROVE FALSE
    OBVIOUS
  <2> DEFINE u == Min(B)
  <2>1. u \in B /\ \A y \in B : u <= y
    <3>1. PICK c \in B : TRUE
      OBVIOUS
    <3>2. B \in SUBSET Nat
      OBVIOUS
    <3> HIDE DEF B
    <3> QED BY <3>1, <3>2, LeastOf
  <2> HIDE DEF u
  <2>2. u \in 0 .. k /\ ~Near(s[u], m, Ten[u])
    BY <2>1
  <2>3. u # 0
    <3>1. s[0] = m /\ Ten[0] = 1
      BY <1>2, Tens
    <3>2. Near(m, m, 1)
      BY DEF Near
    <3>3. Near(s[0], m, Ten[0])
      BY <3>1, <3>2, Zenon
    <3> QED BY <2>2, <3>3
  <2>4. u - 1 \in 0 .. k /\ ~(u <= u - 1) /\ u \in Nat \ {0} /\ u - 1 \in Nat
    BY <2>2, <2>3
  <2>5. u - 1 \notin B
    <3> HIDE DEF B
    <3> QED BY <2>1, <2>4
  <2>6. Near(s[u - 1], m, Ten[u - 1])
    BY <2>4, <2>5
  <2>7. s[u] = Shorter(s[u - 1]) /\ Ten[u] = 10 * Ten[u - 1] /\ Ten[u - 1] \in Nat \ {0}
    BY <1>2, <2>2, <2>3, <2>4, Tens, TenType
  <2>8. Near(Shorter(s[u - 1]), m, 10 * Ten[u - 1])
    BY <2>6, <2>7, NearMore
  <2> QED BY <2>2, <2>7, <2>8, Zenon
<1>4. k \in 0 .. k
  OBVIOUS
<1> QED BY <1>1, <1>3, <1>4

\* m is a mantissa
Fits(m)  == m \in Nat /\ m < 10000
Short(m) == m < 1000

\* the digits m gets at most d more of, where there is place for K
PadOf(K, m, d) == Min({j \in 0 .. d : m > 0 /\ Len(Digits(m)) + j >= K} \cup {d})

TenTimes(m, k) == m * 10 ^ k
Kept(a, f)     == [mant |-> a, expo |-> f]

LEMMA QuantumCut ==
  ASSUME NEW m \in Nat, NEW ex \in Int, NEW er \in Int, ex < er
  PROVE  /\ Quantum(m, ex, er) = Kept(Shortened(m, er - ex), er)
         /\ D32!D!Quantum(m, ex, er) = Kept(Shortened(m, er - ex), er)
<1>1. Quantum(m, ex, er) = Kept(Shortened(m, er - ex), er)
  BY Zenon DEF Kept, Quantum
<1>2. D32!D!Quantum(m, ex, er) = Kept(D32!D!Shortened(m, er - ex), er)
  BY Zenon DEF Kept, D32!D!Quantum
<1>3. er - ex \in Nat
  OBVIOUS
<1>4. D32!D!Shortened(m, er - ex) = Shortened(m, er - ex)
  BY <1>3, ShortenedNear
<1> QED BY <1>1, <1>2, <1>4

LEMMA QuantumPadded ==
  ASSUME NEW m, NEW ex, NEW er, ~(ex < er)
  PROVE  /\ Quantum(m, ex, er) = Kept(TenTimes(m, PadOf(3, m, ex - er)), ex - PadOf(3, m, ex - er))
         /\ D32!D!Quantum(m, ex, er) = Kept(TenTimes(m, PadOf(4, m, ex - er)), ex - PadOf(4, m, ex - er))
<1>1. Quantum(m, ex, er) = Kept(TenTimes(m, PadOf(3, m, ex - er)), ex - PadOf(3, m, ex - er))
  BY Zenon DEF Kept, Quantum, PadOf, TenTimes
<1>2. D32!D!Quantum(m, ex, er) = Kept(TenTimes(m, PadOf(4, m, ex - er)), ex - PadOf(4, m, ex - er))
  BY DigitsSame, MinSame, Zenon DEF Kept, D32!D!Quantum, PadOf, TenTimes
<1> QED BY <1>1, <1>2

LEMMA DigitsLen ==
  ASSUME NEW m \in Nat, m < 10000
  PROVE  Len(Digits(m)) \in 0 .. 4 /\ Needs(m, Len(Digits(m)))
<1> DEFINE k == Min({j \in 0 .. 9 : m < 10 ^ j})
<1>1. k \in 0 .. 4 /\ Needs(m, k)
  BY DigitsNeeded
<1>2. Digits(m) = [i \in 1 .. k |-> (m \div Pow(k - i)) % 10]
  BY DEF Digits, Pow
<1> HIDE DEF k
<1>3. Len(Digits(m)) = k
  BY <1>1, <1>2
<1> QED BY <1>1, <1>3

LEMMA TenPow == \A j \in {0, 1, 2, 3} : 10 ^ j = Ten[j]
<1>1. 10 ^ 0 = Ten[0] /\ 10 ^ 1 = Ten[1] /\ 10 ^ 2 = Ten[2] /\ 10 ^ 3 = Ten[3]
  BY Powers, Tens
<1> QED BY <1>1, Zenon

\* At most as many digits as there is place for are added.
LEMMA PadIs ==
  ASSUME NEW K \in {3, 4}, NEW m, Fits(m), NEW d \in Nat
  PROVE  /\ PadOf(K, m, d) \in Nat /\ PadOf(K, m, d) <= d
         /\ TenTimes(m, PadOf(K, m, d)) = m * Ten[PadOf(K, m, d)]
         /\ Fits(m * Ten[PadOf(K, m, d)])
         /\ K = 3 /\ Short(m) => Short(m * Ten[PadOf(K, m, d)])
<1> DEFINE n == Len(Digits(m))
           S == {j \in 0 .. d : m > 0 /\ n + j >= K} \cup {d}
           k == Min(S)
<1>0. PadOf(K, m, d) = k
  BY DEF PadOf
<1>a. m \in Nat /\ m < 10000
  BY DEF Fits
<1>1. n \in 0 .. 4 /\ Needs(m, n)
  BY <1>a, DigitsLen
<1> HIDE DEF n
<1>2. S \in SUBSET Nat /\ d \in S
  BY <1>1
<1>3. k \in S /\ \A y \in S : k <= y
  <2> HIDE DEF S
  <2> QED BY <1>2, LeastOf
<1> HIDE DEF k
<1>4. k \in Nat /\ k <= d
  BY <1>2, <1>3
<1>5. CASE m = 0
  <2>1. Ten[k] \in Nat
    BY <1>4, TenType
  <2>2. m * Ten[k] = 0
    BY <1>5, <2>1
  <2>3. TenTimes(m, k) = 0
    BY <1>4, <1>5 DEF TenTimes
  <2>4. Fits(0) /\ Short(0)
    BY DEF Fits, Short
  <2> QED BY <1>0, <1>4, <2>2, <2>3, <2>4
<1>6. CASE m > 0
  <2>1. n \in {1, 2, 3, 4}
    BY <1>1, <1>6, <1>a DEF Needs
  <2>2. k <= K - n \/ k = 0
    <3>1. CASE n >= K
      <4>1. 0 \in S
        BY <1>6, <2>1, <3>1
      <4> HIDE DEF S
      <4> QED BY <1>3, <1>4, <4>1
    <3>2. CASE n < K /\ K - n <= d
      <4>1. K - n \in S
        BY <1>6, <2>1, <3>2
      <4> HIDE DEF S
      <4> QED BY <1>3, <4>1
    <3>3. CASE n < K /\ ~(K - n <= d)
      BY <1>4, <2>1, <3>3
    <3> QED BY <2>1, <3>1, <3>2, <3>3
  <2>3. k \in {0, 1, 2, 3}
    BY <1>4, <2>1, <2>2
  <2>4. TenTimes(m, k) = m * Ten[k]
    BY <2>3, TenPow, Zenon DEF TenTimes
  <2>5. /\ n = 1 => m < 10
        /\ n = 2 => m < 100
        /\ n = 3 => m < 1000
        /\ n = 4 => m >= 1000
    BY <1>1, <2>1, <1>a DEF Needs
  <2>6. Ten[k] = CASE k = 0 -> 1 [] k = 1 -> 10 [] k = 2 -> 100 [] k = 3 -> 1000
    BY <2>3, Tens
  <2> DEFINE T == Ten[k]
  <2> HIDE DEF T
  <2>7. CASE k = 0
    <3>1. T = 1
      BY <2>6, <2>7 DEF T
    <3>2. Fits(m * T) /\ (K = 3 /\ Short(m) => Short(m * T))
      BY <1>a, <3>1 DEF Fits, Short
    <3> QED BY <1>0, <1>4, <2>4, <3>2 DEF T
  <2>8. CASE k = 1
    <3>1. T = 10
      BY <2>6, <2>8 DEF T
    <3>2. m < 1000 /\ (K = 3 => m < 100)
      BY <1>a, <2>1, <2>2, <2>5, <2>8
    <3>3. Fits(m * T) /\ (K = 3 /\ Short(m) => Short(m * T))
      BY <1>a, <3>1, <3>2 DEF Fits, Short
    <3> QED BY <1>0, <1>4, <2>4, <3>3 DEF T
  <2>9. CASE k = 2
    <3>1. T = 100
      BY <2>6, <2>9 DEF T
    <3>2. m < 100 /\ (K = 3 => m < 10)
      BY <1>a, <2>1, <2>2, <2>5, <2>9
    <3>3. Fits(m * T) /\ (K = 3 /\ Short(m) => Short(m * T))
      BY <1>a, <3>1, <3>2 DEF Fits, Short
    <3> QED BY <1>0, <1>4, <2>4, <3>3 DEF T
  <2>10. CASE k = 3
    <3>1. T = 1000
      BY <2>6, <2>10 DEF T
    <3>2. m < 10 /\ K # 3
      BY <2>1, <2>2, <2>5, <2>10
    <3>3. Fits(m * T)
      BY <1>a, <3>1, <3>2 DEF Fits
    <3> QED BY <1>0, <1>4, <2>4, <3>2, <3>3 DEF T
  <2> QED BY <2>3, <2>7, <2>8, <2>9, <2>10
<1> QED BY <1>a, <1>5, <1>6

\* a with exponent f is m with exponent ex rounded to er: less than 5/9 off if
\* digits were cut off, and the same number otherwise
RoundedTo(K, m, ex, er, a, f) ==
    /\ Fits(a) /\ f \in Int /\ f >= er
    /\ K = 3 /\ Short(m) => Short(a)
    /\ ex < er => f = er /\ 9 * Apart(m, a * Ten[er - ex]) < 5 * Ten[er - ex]
    /\ ex >= er => Dist(Aligned(m, ex, a, f)) = 0

QuantumOf(K, m, ex, er) == IF K = 3 THEN Quantum(m, ex, er) ELSE D32!D!Quantum(m, ex, er)

LEMMA QuantumRounds ==
  ASSUME NEW K \in {3, 4}, NEW m, Fits(m), NEW ex \in Int, NEW er \in Int
  PROVE  \E a, f : QuantumOf(K, m, ex, er) = Kept(a, f) /\ RoundedTo(K, m, ex, er, a, f)
<1>0. m \in Nat
  BY DEF Fits
<1>1. CASE ex < er
  <2> DEFINE k == er - ex
             a == Shortened(m, k)
  <2>1. k \in Nat
    BY <1>1
  <2>2. QuantumOf(K, m, ex, er) = Kept(a, er)
    <3>1. /\ Quantum(m, ex, er) = Kept(Shortened(m, er - ex), er)
          /\ D32!D!Quantum(m, ex, er) = Kept(Shortened(m, er - ex), er)
      BY <1>0, <1>1, QuantumCut
    <3> QED BY <3>1, Zenon DEF QuantumOf
  <2> HIDE DEF k
  <2>3. Near(a, m, Ten[k]) /\ Ten[k] \in Nat \ {0}
    BY <1>0, <2>1, ShortenedNear, TenType
  <2> HIDE DEF a
  <2>4. a \in Nat /\ a <= m /\ 9 * (a * Ten[k] - m) <= 5 * (Ten[k] - 1) /\ 9 * (m - a * Ten[k]) <= 5 * (Ten[k] - 1)
    BY <2>3 DEF Near
  <2> DEFINE p == a * Ten[k]
             T == Ten[k]
  <2>5. p \in Nat /\ T \in Nat \ {0} /\ 9 * (p - m) <= 5 * (T - 1) /\ 9 * (m - p) <= 5 * (T - 1)
    BY <1>0, <2>3, <2>4
  <2> HIDE DEF p, T
  <2>6. 9 * Apart(m, p) < 5 * T
    BY <1>0, <2>5 DEF Apart
  <2>7. RoundedTo(K, m, ex, er, a, er)
    <3>1. Fits(a) /\ (K = 3 /\ Short(m) => Short(a)) /\ er >= er /\ ~(ex >= er)
      BY <1>1, <2>4 DEF Fits, Short
    <3>2. 9 * Apart(m, a * Ten[er - ex]) < 5 * Ten[er - ex]
      BY <2>6 DEF k, p, T
    <3> QED BY <3>1, <3>2 DEF RoundedTo
  <2> QED BY <2>2, <2>7
<1>2. CASE ~(ex < er)
  <2> DEFINE d == ex - er
             k == PadOf(K, m, d)
             a == m * Ten[k]
             f == ex - k
  <2>1. d \in Nat
    BY <1>2
  <2>2. QuantumOf(K, m, ex, er) = Kept(TenTimes(m, k), f)
    <3>1. /\ Quantum(m, ex, er) = Kept(TenTimes(m, PadOf(3, m, d)), ex - PadOf(3, m, d))
          /\ D32!D!Quantum(m, ex, er) = Kept(TenTimes(m, PadOf(4, m, d)), ex - PadOf(4, m, d))
      BY <1>2, QuantumPadded
    <3> HIDE DEF d
    <3>2. CASE K = 3
      BY <3>1, <3>2, Zenon DEF QuantumOf
    <3>3. CASE K = 4
      <4>1. K # 3
        BY <3>3
      <4> QED BY <3>1, <3>3, <4>1, Zenon DEF QuantumOf
    <3> QED BY <3>2, <3>3
  <2> HIDE DEF d
  <2>3. /\ k \in Nat /\ k <= d /\ TenTimes(m, k) = a /\ Fits(a)
        /\ K = 3 /\ Short(m) => Short(a)
    BY <2>1, PadIs
  <2>a. TenTimes(m, k) = a
    BY <2>3, Zenon
  <2> HIDE DEF k
  <2>4. Ten[k] \in Nat /\ Ten[0] = 1
    BY <2>3, TenType, Tens
  <2>5. m * Ten[k] = a * Ten[0] /\ a \in Nat
    BY <1>0, <2>4
  <2> HIDE DEF a
  <2>6. f \in Int /\ f >= er /\ ex - f = k - 0 /\ 0 \in Nat
    BY <2>1, <2>3 DEF d
  <2> HIDE DEF f
  <2>7. Dist(Aligned(m, ex, a, f)) = 0
    BY <1>0, <2>3, <2>5, <2>6, AlignedSame
  <2>8. RoundedTo(K, m, ex, er, a, f)
    BY <1>2, <2>3, <2>6, <2>7 DEF RoundedTo
  <2>9. QuantumOf(K, m, ex, er) = Kept(a, f)
    BY <2>2, <2>a, Zenon
  <2> QED BY <2>8, <2>9
<1> QED BY <1>1, <1>2

-----------------------------------------------------------------------------
(* Numbers rounded and scaled.                                             *)

QuantizedOf(l, y, r) == IF l = "d64" THEN quantized(y, r) ELSE D32!quantized32(y, r)

\* exponents as the encodings have them
QuantexpOf(l, c, y) ==
    IF l = "d64" THEN (IF c = "bid" THEN quantexpbid(y) ELSE quantexpdpd(y))
    ELSE IF c = "bid" THEN D32!D!quantexpbid(y) ELSE D32!D!quantexpdpd(y)

LEMMA QuantexpIs ==
  ASSUME NEW l, NEW c \in {"bid", "dpd"}, NEW y, y.enc = c
  PROVE  UnpackOf(l, y).expo = QuantexpOf(l, c, y)
BY DEF UnpackOf, QuantexpOf, unpackd, quantexpd, D32!unpackd32, D32!quantexpbid32, D32!quantexpdpd32

LEMMA EncodedHas ==
  ASSUME NEW l, NEW c \in {"bid", "dpd"}, NEW y, NEW m, Fits(m), NEW e, NEW s, Encoded(l, c, y, m, e, s)
  PROVE  /\ y.enc = c /\ y.s = s
         /\ c = "bid" => mant_bid(y) = m /\ D32!D!mant_bid(y) = m
         /\ c = "dpd" => D32!D!mant_dpd(y) = m /\ (Short(m) => unpack_declet(y.lo) = m)
<1>1. m \in Nat /\ m < 10000
  BY DEF Fits
<1>2. CASE c = "dpd"
  <2>1. Packed(y, m, e + BiasOf(l), s)
    BY <1>2 DEF Encoded
  <2>2. Unpacked(y, m, e + BiasOf(l), s)
    BY <1>1, <2>1, PackedMant
  <2>3. /\ y.enc = "dpd" /\ y.s = s /\ D32!D!mant_dpd(y) = mant_dpd(y) /\ unpack_declet(y.lo) = m % 1000
        /\ mant_dpd(y) = m
    BY <1>1, <2>2 DEF Unpacked
  <2>4. Short(m) => m % 1000 = m
    BY <1>1 DEF Short
  <2> QED BY <1>2, <2>3, <2>4
<1>3. CASE c = "bid"
  <2>1. Stored(y, m, e + BiasOf(l), s)
    BY <1>3 DEF Encoded
  <2>2. y.enc = "bid" /\ y.s = s /\ mant_bid(y) = m /\ D32!D!mant_bid(y) = m
    BY <1>1, <2>1, StoredMant
  <2> QED BY <1>3, <2>2
<1> QED BY <1>2, <1>3

LEMMA KeptFields ==
  ASSUME NEW d, NEW a, NEW f, d = Kept(a, f)
  PROVE  d.mant = a /\ d.expo = f
BY DEF Kept

\* Rounding makes a number of mantissa and exponent rounded.
LEMMA QuantizeEncodes ==
  ASSUME NEW l \in {"d64", "d32"}, NEW c \in {"bid", "dpd"}, NEW y, NEW m, Fits(m), NEW e, NEW s,
         Encoded(l, c, y, m, e, s), l = "d64" /\ c = "dpd" => Short(m),
         NEW r, NEW a, NEW f, QuantumOf(KOf(l), m, QuantexpOf(l, c, y), QuantexpOf(l, c, r)) = Kept(a, f)
  PROVE  Encoded(l, c, QuantizedOf(l, y, r), a, f, s)
<1>1. /\ y.enc = c /\ y.s = s
      /\ c = "bid" => mant_bid(y) = m /\ D32!D!mant_bid(y) = m
      /\ c = "dpd" => D32!D!mant_dpd(y) = m /\ (Short(m) => unpack_declet(y.lo) = m)
  BY EncodedHas
<1> DEFINE p == QuantexpOf(l, c, y)
           q == QuantexpOf(l, c, r)
           d == QuantumOf(KOf(l), m, p, q)
<1>2. d = Kept(a, f)
  OBVIOUS
<1>3. d.mant = a /\ d.expo = f
  <2> HIDE DEF d
  <2> QED BY <1>2, KeptFields
<1>4. CASE l = "d64" /\ c = "bid"
  <2>1. d = Quantum(mant_bid(y), quantexpbid(y), quantexpbid(r))
    BY <1>1, <1>4 DEF QuantumOf, KOf, QuantexpOf
  <2> HIDE DEF d
  <2>2. QuantizedOf(l, y, r) = assemble_bid(d.mant, d.expo + 398, y.s)
    BY <1>1, <1>4, <2>1 DEF QuantizedOf, quantized, quantizebid
  <2>3. QuantizedOf(l, y, r) = assemble_bid(a, f + 398, s)
    BY <1>1, <1>3, <2>2
  <2>4. Stored(assemble_bid(a, f + 398, s), a, f + 398, s)
    BY AssembleStores
  <2> QED BY <1>4, <2>3, <2>4 DEF Encoded, BiasOf
<1>5. CASE l = "d32" /\ c = "bid"
  <2>1. d = D32!D!Quantum(D32!D!mant_bid(y), D32!D!quantexpbid(y), D32!D!quantexpbid(r))
    BY <1>1, <1>5 DEF QuantumOf, KOf, QuantexpOf
  <2> HIDE DEF d
  <2>2. QuantizedOf(l, y, r) = D32!D!assemble_bid(d.mant, d.expo + 101, y.s)
    BY <1>1, <1>5, <2>1 DEF QuantizedOf, D32!quantized32, D32!quantizebid32, D32!D!quantizebid
  <2>3. QuantizedOf(l, y, r) = D32!D!assemble_bid(a, f + 101, s)
    BY <1>1, <1>3, <2>2
  <2>4. Stored(D32!D!assemble_bid(a, f + 101, s), a, f + 101, s)
    BY AssembleStores
  <2> QED BY <1>5, <2>3, <2>4 DEF Encoded, BiasOf
<1> DEFINE b == Bcd(a, f, s)
<1>6. /\ Packed(bcdtodpd(b), a, f + 398, s)
      /\ Packed(D32!bcd32todpd(b), a, f + 101, s)
  <2> HIDE DEF b
  <2>1. b.mant = a /\ b.expo = f /\ b.sign = s
    BY BcdIs DEF b
  <2>2. /\ Packed(bcdtodpd(b), b.mant, b.expo + 398, b.sign)
        /\ Packed(D32!bcd32todpd(b), b.mant, b.expo + 101, b.sign)
    BY PackPacks
  <2> QED BY <2>1, <2>2
<1>7. CASE l = "d64" /\ c = "dpd"
  <2>1. d = Quantum(unpack_declet(y.lo), quantexpdpd(y), quantexpdpd(r))
    BY <1>1, <1>7 DEF QuantumOf, KOf, QuantexpOf
  <2> HIDE DEF d
  <2>2. QuantizedOf(l, y, r) = bcdtodpd([mant |-> d.mant, expo |-> d.expo, sign |-> y.s])
    BY <1>1, <1>7, <2>1 DEF QuantizedOf, quantized, quantizedpd
  <2>3. QuantizedOf(l, y, r) = bcdtodpd(b)
    BY <1>1, <1>3, <2>2 DEF Bcd
  <2> HIDE DEF b
  <2> QED BY <1>6, <1>7, <2>3 DEF Encoded, BiasOf
<1>8. CASE l = "d32" /\ c = "dpd"
  <2>1. d = D32!D!Quantum(D32!D!mant_dpd(y), D32!D!quantexpdpd(y), D32!D!quantexpdpd(r))
    BY <1>1, <1>8 DEF QuantumOf, KOf, QuantexpOf
  <2> HIDE DEF d
  <2>2. QuantizedOf(l, y, r) = D32!bcd32todpd([mant |-> d.mant, expo |-> d.expo, sign |-> y.s])
    BY <1>1, <1>8, <2>1 DEF QuantizedOf, D32!quantized32, D32!quantizedpd32, D32!D!quantizedpd, D32!bcd32todpd
  <2>3. QuantizedOf(l, y, r) = D32!bcd32todpd(b)
    BY <1>1, <1>3, <2>2 DEF Bcd
  <2> HIDE DEF b
  <2> QED BY <1>6, <1>8, <2>3 DEF Encoded, BiasOf
<1> QED BY <1>4, <1>5, <1>7, <1>8

\* An exponent, in either library, that is not the least and that one more or
\* less does not take out of its field.
Scalable(e) == -99 <= e /\ e <= 153

\* The number y of mantissa m, exponent e and sign s is rounded to exponent q as
\* RoundedTo says.
RoundsTo(l, y, m, e, s, r, q) ==
    /\ DenotedOf(l, y) = Bcd(m, e, s)
    /\ \E a, f : /\ DenotedOf(l, QuantizedOf(l, y, r)) = Bcd(a, f, s)
                 /\ RoundedTo(KOf(l), m, e, q, a, f)

LEMMA Quantises ==
  ASSUME NEW l \in {"d64", "d32"}, NEW c \in {"bid", "dpd"}, NEW y, NEW m, Fits(m), NEW e \in Int, NEW s,
         Encoded(l, c, y, m, e, s), l = "d64" /\ c = "dpd" => Short(m), Scalable(e),
         NEW r, r.enc = c, NEW q \in Int, UnpackOf(l, r).expo = q
  PROVE  RoundsTo(l, y, m, e, s, r, q)
<1>1. m \in Nat /\ m < 10000 /\ (Short(m) => m < 8000)
  BY DEF Fits, Short
<1>2. Known(l, y, m, e, s) /\ ~MisreadOf(l, y) /\ e + BiasOf(l) > 0
  <2>1. e + BiasOf(l) > 0
    BY BiasType DEF Scalable
  <2> QED BY <1>1, <2>1, EncodedKnown
<1>3. DenotedOf(l, y) = Bcd(m, e, s) /\ Gives(l, y, m, e, s)
  BY <1>2 DEF Known
<1> DEFINE z == QuantizedOf(l, y, r)
<1>4. y.enc = c
  BY EncodedHas
<1>5. e = QuantexpOf(l, c, y)
  <2>1. UnpackOf(l, y) = Bcd(m, e, s)
    BY <1>3 DEF Gives
  <2>2. UnpackOf(l, y).expo = e
    BY <2>1, BcdIs
  <2> QED BY <1>4, <2>2, QuantexpIs
<1>6. q = QuantexpOf(l, c, r)
  BY QuantexpIs
<1>7. KOf(l) \in {3, 4}
  BY DEF KOf
<1> HIDE DEF z
<1>8. PICK a, f : QuantumOf(KOf(l), m, e, q) = Kept(a, f) /\ RoundedTo(KOf(l), m, e, q, a, f)
  BY <1>7, QuantumRounds
<1>9. Encoded(l, c, z, a, f, s)
  <2>1. QuantumOf(KOf(l), m, QuantexpOf(l, c, y), QuantexpOf(l, c, r)) = Kept(a, f)
    BY <1>5, <1>6, <1>8
  <2> QED BY <2>1, QuantizeEncodes DEF z
<1>10. a \in Nat /\ a < 10000 /\ f \in Int
  BY <1>8 DEF RoundedTo, Fits
<1>11. Known(l, z, a, f, s)
  BY <1>9, <1>10, EncodedKnown
<1>12. DenotedOf(l, z) = Bcd(a, f, s)
  BY <1>11 DEF Known
<1> QED BY <1>3, <1>8, <1>12 DEF RoundsTo, z

ScalbnOf(l, y, k) == IF l = "d64" THEN scalbnd(y, k) ELSE D32!scalbnd32(y, k)

LEMMA MorePowers == 2 ^ (8 + 2) = 1024 /\ 2 ^ (6 + 2) = 256
OBVIOUS

\* The exponent's field is changed, and wraps around.
LEMMA ScalbnIs ==
  ASSUME NEW l \in {"d64", "d32"}, NEW y, NEW k
  PROVE  ScalbnOf(l, y, k) = [y EXCEPT !.ex = (@ + k) % (IF l = "d64" THEN 1024 ELSE 256)]
<1>1. CASE l = "d64"
  BY <1>1, MorePowers DEF ScalbnOf, scalbnd, scalbnbid, scalbndpd
<1>2. CASE l = "d32"
  BY <1>2, MorePowers DEF ScalbnOf, D32!scalbnd32, D32!scalbnbid32, D32!scalbndpd32, D32!D!scalbnbid, D32!D!scalbndpd
<1> QED BY <1>1, <1>2

LEMMA ScaleEncodes ==
  ASSUME NEW l \in {"d64", "d32"}, NEW c \in {"bid", "dpd"}, NEW y, NEW m, NEW e \in Int, NEW s,
         Encoded(l, c, y, m, e, s), Scalable(e), NEW k \in {-1, 1}
  PROVE  Encoded(l, c, ScalbnOf(l, y, k), m, e + k, s)
<1> DEFINE w == IF l = "d64" THEN 1024 ELSE 256
           u == e + BiasOf(l)
           v == (e + k) + BiasOf(l)
           z == ScalbnOf(l, y, k)
<1>1. z = [y EXCEPT !.ex = (@ + k) % w]
  BY ScalbnIs
<1>2. (u + k) % w = v
  <2>1. -99 <= e /\ e <= 153
    BY DEF Scalable
  <2>2. CASE l = "d64"
    BY <2>1, <2>2 DEF BiasOf
  <2>3. CASE l = "d32"
    BY <2>1, <2>3 DEF BiasOf
  <2> QED BY <2>2, <2>3
<1> HIDE DEF w, z
<1>3. CASE c = "dpd"
  <2>1. Packed(y, m, u, s)
    BY <1>3 DEF Encoded
  <2> HIDE DEF u, v
  <2>2. Packed(z, m, v, s)
    BY <1>1, <1>2, <2>1 DEF Packed
  <2> QED BY <1>3, <2>2 DEF Encoded, v, z
<1>4. CASE c = "bid"
  <2>1. Stored(y, m, u, s)
    BY <1>4 DEF Encoded
  <2> HIDE DEF u, v
  <2>2. Stored(z, m, v, s)
    BY <1>1, <1>2, <2>1 DEF Stored
  <2> QED BY <1>4, <2>2 DEF Encoded, v, z
<1> QED BY <1>3, <1>4

\* A number scaled has the digits and sign it had.
ScalesBy(l, y, k) == DenotedOf(l, ScalbnOf(l, y, k)) = [DenotedOf(l, y) EXCEPT !.expo = @ + k]

LEMMA Scales ==
  ASSUME NEW l \in {"d64", "d32"}, NEW c \in {"bid", "dpd"}, NEW y, NEW m, Fits(m), NEW e \in Int, NEW s,
         Encoded(l, c, y, m, e, s), Scalable(e), NEW k \in {-1, 1}
  PROVE  ScalesBy(l, y, k)
<1>1. m \in Nat /\ m < 10000
  BY DEF Fits
<1> DEFINE z == ScalbnOf(l, y, k)
           g == e + k
<1>2. Encoded(l, c, z, m, g, s)
  BY ScaleEncodes
<1>3. g \in Int
  OBVIOUS
<1> HIDE DEF z, g
<1>4. Known(l, y, m, e, s)
  BY <1>1, EncodedKnown
<1>5. Known(l, z, m, g, s)
  BY <1>1, <1>2, <1>3, EncodedKnown
<1>6. DenotedOf(l, y) = Bcd(m, e, s) /\ DenotedOf(l, z) = Bcd(m, g, s)
  BY <1>4, <1>5 DEF Known
<1>7. [Bcd(m, e, s) EXCEPT !.expo = @ + k] = Bcd(m, g, s)
  BY DEF Bcd, g
<1> QED BY <1>6, <1>7 DEF ScalesBy, z

\* The other way round than Aligning.
LEMMA AligningUp ==
  ASSUME NEW a \in Nat, NEW b \in Nat, NEW ea \in Int, NEW eb \in Int, ea < eb
  PROVE  Dist(Aligned(a, ea, b, eb)) = Apart(a, b * Ten[eb - ea])
<1>1. Min({ea, eb}) = ea
  <2>1. Min({eb, ea}) = ea
    BY LesserInt
  <2>2. {eb, ea} = {ea, eb}
    OBVIOUS
  <2> QED BY <2>1, <2>2
<1>2. a * Ten[ea - ea] = a
  BY Tens
<1> DEFINE p == b * Ten[eb - ea]
<1>3. Aligned(a, ea, b, eb) = <<a * Ten[ea - ea], p>>
  BY <1>1, Zenon DEF Aligned
<1> HIDE DEF p
<1>4. Aligned(a, ea, b, eb) = <<a, p>>
  BY <1>2, <1>3, Zenon
<1>5. <<a, p>>[1] = a /\ <<a, p>>[2] = p
  OBVIOUS
<1> QED BY <1>4, <1>5 DEF Dist, Apart, p

\* what the numbers are that others are rounded to
LEMMA OnesAre ==
  ASSUME NEW r \in Ones, enc \in {"bid", "dpd"}
  PROVE  r.enc = enc /\ Denoted(r).expo \in Int /\ UnpackOf(lib, r).expo = Denoted(r).expo
<1>1. PICK n : IsNumeral(n) /\ n.sign = "" /\ r = Strtod(n)
  <2> DEFINE n1 == [sign |-> "", int |-> <<1>>, frac |-> <<>>]
             n2 == [sign |-> "", int |-> <<0>>, frac |-> <<1>>]
             n3 == [sign |-> "", int |-> <<1>>, frac |-> <<0, 0>>]
  <2>1. r = Strtod(n1) \/ r = Strtod(n2) \/ r = Strtod(n3)
    BY Zenon DEF Ones
  <2>2. /\ IsNumeral(n1) /\ n1.sign = ""
        /\ IsNumeral(n2) /\ n2.sign = ""
        /\ IsNumeral(n3) /\ n3.sign = ""
    BY DEF IsNumeral, DigitSeq
  <2> HIDE DEF n1, n2, n3
  <2> QED BY <2>1, <2>2, Zenon
<1> DEFINE k == KOf(lib)
<1>2. ~HangsOf(k, n)
  BY <1>1, Zenon DEF HangsOf
<1>3. Strtod(n) = StrtodOf(lib, enc, n)
  BY DEF Strtod, StrtodOf, Wide64
<1>4. PICK m \in Nat : Reads(lib, enc, n, m)
  <2> HIDE DEF k
  <2>1. IsNumeral(n) /\ ~HangsOf(KOf(lib), n)
    BY <1>1, <1>2, Zenon DEF k
  <2> QED BY <2>1, ReadGives
<1> DEFINE f == ExpoOf(k, n)
<1>5. Known(lib, r, m, f, NegOf(n)) /\ f + BiasOf(lib) > 0 /\ ~MisreadOf(lib, r)
  BY <1>1, <1>3, <1>4, Zenon DEF Reads
<1> HIDE DEF f
<1>6. f \in Int /\ DenotedOf(lib, r) = Bcd(m, f, NegOf(n)) /\ UnpackOf(lib, r) = Bcd(m, f, NegOf(n))
  BY <1>5 DEF Known, Gives
<1>7. DenotedOf(lib, r).expo = f /\ UnpackOf(lib, r).expo = f
  BY <1>6, BcdIs
<1>8. Denoted(r).expo = f
  BY <1>7, DenotedIs
<1>9. r.enc = enc
  BY <1>1, Zenon DEF Strtod, strtod, strtobid, strtodpd, bcdtobid, assemble_bid, bcdtodpd,
              D32!strtod32, D32!strtobid32, D32!strtodpd32, D32!bcd32tobid, D32!bcd32todpd,
              D32!D!bcdtobid, D32!D!assemble_bid, D32!D!bcdtodpd
<1> QED BY <1>6, <1>7, <1>8, <1>9

\* What was computed is encoded like that.
ComputeInv ==
    /\ lib \in {"d64", "d32"} /\ enc \in {"bid", "dpd"}
    /\ op = "compute" =>
          \E m \in Mantissas, e \in Exponents, s \in 0 .. 1 : Encoded(lib, enc, x, m, e, s)

LEMMA ComputeInvariant == WireSpec => []ComputeInv
<1>1. WireInit => ComputeInv
  BY DEF WireInit, ComputeInv
<1>2. ComputeInv /\ [WireNext]_wvars => ComputeInv'
  <2> SUFFICES ASSUME ComputeInv, [WireNext]_wvars PROVE ComputeInv'
    OBVIOUS
  <2>0. ASSUME lib' = lib, enc' = enc, op' # "compute" PROVE ComputeInv'
    BY <2>0 DEF ComputeInv
  <2>1. ASSUME NEW n, ReadNumber(n) PROVE ComputeInv'
    BY <2>0, <2>1 DEF ReadNumber
  <2>2. ASSUME NEW m \in Mantissas, NEW e \in Exponents, NEW s \in 0 .. 1, Compute(m, e, s)
        PROVE  ComputeInv'
    <3>1. op' = "compute" /\ lib' = lib /\ enc' = enc /\ Encoded(lib, enc, x', m, e, s)
      BY <2>2, ComputeMakes
    <3> QED BY <3>1 DEF ComputeInv
  <2>3. ASSUME NEW a, ReadLine(a) PROVE ComputeInv'
    BY <2>0, <2>3 DEF ReadLine
  <2>4. ASSUME PrintNumber PROVE ComputeInv'
    BY <2>0, <2>4 DEF PrintNumber
  <2>5. ASSUME NEW a, Quantise(a) PROVE ComputeInv'
    BY <2>0, <2>5 DEF Quantise
  <2>6. ASSUME NEW a, Scale(a) PROVE ComputeInv'
    BY <2>0, <2>6 DEF Scale
  <2>7. ASSUME prq2 PROVE ComputeInv'
    BY <2>0, <2>7 DEF prq2
  <2>8. ASSUME NEW m, snap2(m) PROVE ComputeInv'
    BY <2>0, <2>8 DEF snap2
  <2>9. ASSUME Idle PROVE ComputeInv'
    BY <2>0, <2>9 DEF Idle
  <2>10. ASSUME UNCHANGED wvars PROVE ComputeInv'
    BY <2>10 DEF wvars, ComputeInv
  <2> QED BY <2>1, <2>2, <2>3, <2>4, <2>5, <2>6, <2>7, <2>8, <2>9, <2>10 DEF WireNext
<1> QED BY <1>1, <1>2, PTL DEF WireSpec

LEMMA QuantiseStep ==
  ASSUME ComputeInv, op = "compute", Rounds(x), NEW r \in Ones, Quantise(r),
         \A e \in Exponents : Scalable(e)
  PROVE  LET b == Denoted(x)
             c == Denoted(x')
             e == Denoted(r).expo
             d == Dist(Aligned(b.mant, b.expo, c.mant, c.expo))
         IN  IF b.expo >= e THEN d = 0
             ELSE c.expo = e /\ 9 * d < 5 * Ten[e - b.expo]
<1>1. lib \in {"d64", "d32"} /\ enc \in {"bid", "dpd"}
  BY DEF ComputeInv
<1>2. PICK m \in Mantissas, u \in Exponents, s \in 0 .. 1 : Encoded(lib, enc, x, m, u, s)
  BY DEF ComputeInv
<1>3. Fits(m) /\ m \in Nat /\ m < 10000 /\ u \in Int
  BY WireTypes DEF Fits
<1> DEFINE q == Denoted(r).expo
<1>4. r.enc = enc /\ q \in Int /\ UnpackOf(lib, r).expo = q
  BY <1>1, OnesAre
<1>5. lib = "d64" /\ enc = "dpd" => Short(m)
  <2> SUFFICES ASSUME lib = "d64", enc = "dpd" PROVE Short(m)
    OBVIOUS
  <2>1. Known(lib, x, m, u, s)
    BY <1>2, <1>3, EncodedKnown
  <2>2. DenotedOf(lib, x) = Bcd(m, u, s)
    BY <2>1 DEF Known
  <2>3. Denoted(x).mant = m
    BY <2>2, BcdIs, DenotedIs
  <2>4. ~(m >= 10 ^ 3)
    BY <2>3 DEF Rounds, Wide64
  <2> QED BY <1>3, <2>4, Powers DEF Short
<1>6. x' = QuantizedOf(lib, x, r) /\ lib' = lib
  BY DEF Quantise, Quantized, QuantizedOf, Wide64
<1> HIDE DEF q
<1>a. RoundsTo(lib, x, m, u, s, r, q)
  <2>1. Fits(m) /\ u \in Int /\ Scalable(u)
    BY <1>3
  <2> QED BY <1>1, <1>2, <1>4, <1>5, <2>1, Quantises
<1>7. PICK a, f : /\ DenotedOf(lib, x) = Bcd(m, u, s)
                  /\ DenotedOf(lib, QuantizedOf(lib, x, r)) = Bcd(a, f, s)
                  /\ RoundedTo(KOf(lib), m, u, q, a, f)
  BY <1>a DEF RoundsTo
<1> DEFINE b == Denoted(x)
           c == Denoted(x')
<1>8. b = DenotedOf(lib, x) /\ c = DenotedOf(lib, QuantizedOf(lib, x, r))
  BY <1>6, DenotedIs
<1> HIDE DEF b, c
<1>9. b.mant = m /\ b.expo = u /\ c.mant = a /\ c.expo = f
  BY <1>7, <1>8, BcdIs
<1>10. /\ a \in Nat /\ f \in Int
       /\ u < q => f = q /\ 9 * Apart(m, a * Ten[q - u]) < 5 * Ten[q - u]
       /\ u >= q => Dist(Aligned(m, u, a, f)) = 0
  BY <1>7 DEF RoundedTo, Fits
<1> DEFINE d == Dist(Aligned(m, u, a, f))
<1>11. ASSUME ~(u >= q) PROVE f = q /\ 9 * d < 5 * Ten[q - u]
  <2>1. u < q
    BY <1>3, <1>4, <1>11
  <2>2. f = q /\ 9 * Apart(m, a * Ten[q - u]) < 5 * Ten[q - u]
    BY <1>10, <2>1
  <2>3. Dist(Aligned(m, u, a, q)) = Apart(m, a * Ten[q - u])
    <3>1. m \in Nat /\ a \in Nat /\ u \in Int /\ q \in Int
      BY <1>3, <1>4, <1>10
    <3> QED BY <2>1, <3>1, AligningUp
  <2> QED BY <2>2, <2>3
<1>12. u >= q => d = 0
  BY <1>10
<1> HIDE DEF d
<1>13. d = Dist(Aligned(b.mant, b.expo, c.mant, c.expo))
  BY <1>9 DEF d
<1>14. IF b.expo >= q THEN d = 0 ELSE c.expo = q /\ 9 * d < 5 * Ten[q - b.expo]
  BY <1>9, <1>11, <1>12
<1> QED BY <1>13, <1>14 DEF b, c, q

LEMMA ScaleStep ==
  ASSUME ComputeInv, op = "compute", NEW k \in {-1, 1}, Scale(k),
         \A e \in Exponents : Scalable(e)
  PROVE  Denoted(x') = [Denoted(x) EXCEPT !.expo = @ + k]
<1>1. lib \in {"d64", "d32"} /\ enc \in {"bid", "dpd"}
  BY DEF ComputeInv
<1>2. PICK m \in Mantissas, u \in Exponents, s \in 0 .. 1 : Encoded(lib, enc, x, m, u, s)
  BY DEF ComputeInv
<1>3. Fits(m) /\ u \in Int /\ Scalable(u)
  BY WireTypes DEF Fits
<1>4. x' = ScalbnOf(lib, x, k) /\ lib' = lib
  BY DEF Scale, Scalbn, ScalbnOf, Wide64
<1>5. DenotedOf(lib, ScalbnOf(lib, x, k)) = [DenotedOf(lib, x) EXCEPT !.expo = @ + k]
  <2>1. ScalesBy(lib, x, k)
    BY <1>1, <1>2, <1>3, Scales
  <2> QED BY <2>1 DEF ScalesBy
<1>6. Denoted(x) = DenotedOf(lib, x) /\ Denoted(x') = DenotedOf(lib, ScalbnOf(lib, x, k))
  BY <1>4, DenotedIs
<1> QED BY <1>5, <1>6

\* Whatever was computed, in either library and encoding, quantized rounds it to
\* the quantum asked for, less than 5/9 off, or leaves its value alone, and scalbn
\* changes nothing but the exponent, as long as this does not leave its range.
THEOREM NumbersQuantiseAndScale ==
  ASSUME \A e \in Exponents : Scalable(e)
  PROVE  WireSpec => QuantisedAndScaled
<1> DEFINE RoundsRight == op' = "quantise" /\ Rounds(x) => \A r \in Ones :
             Quantise(r) =>
                LET b == Denoted(x)
                    c == Denoted(x')
                    e == Denoted(r).expo
                    d == Dist(Aligned(b.mant, b.expo, c.mant, c.expo))
                IN  IF b.expo >= e THEN d = 0
                    ELSE c.expo = e /\ 9 * d < 5 * Ten[e - b.expo]
           ScalesRight == op' = "scale" => \A k \in {-1, 1} :
             Scale(k) => Denoted(x') = [Denoted(x) EXCEPT !.expo = @ + k]
<1>1. ComputeInv /\ [WireNext]_wvars => [RoundsRight /\ ScalesRight]_wvars
  <2> SUFFICES ASSUME ComputeInv, WireNext PROVE RoundsRight /\ ScalesRight
    OBVIOUS
  <2>1. op' \in {"quantise", "scale"} => op = "compute"
    BY DEF WireNext, ReadNumber, Compute, PrintNumber, Quantise, Scale, ReadLine, prq2, snap2, Idle
  <2>2. RoundsRight
    <3> SUFFICES ASSUME op' = "quantise", Rounds(x), NEW r \in Ones, Quantise(r)
                 PROVE  LET b == Denoted(x)
                            c == Denoted(x')
                            e == Denoted(r).expo
                            d == Dist(Aligned(b.mant, b.expo, c.mant, c.expo))
                        IN  IF b.expo >= e THEN d = 0
                            ELSE c.expo = e /\ 9 * d < 5 * Ten[e - b.expo]
      BY Zenon
    <3>1. op = "compute"
      BY <2>1
    <3> QED BY <3>1, QuantiseStep, Zenon
  <2>3. ScalesRight
    <3> SUFFICES ASSUME op' = "scale", NEW k \in {-1, 1}, Scale(k)
                 PROVE  Denoted(x') = [Denoted(x) EXCEPT !.expo = @ + k]
      OBVIOUS
    <3>1. op = "compute"
      BY <2>1
    <3> QED BY <3>1, ScaleStep
  <2> QED BY <2>2, <2>3
<1> QED BY <1>1, ComputeInvariant, PTL DEF WireSpec, QuantisedAndScaled

=============================================================================
