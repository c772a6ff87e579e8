----------------------------- MODULE DepthProofs ----------------------------
(***************************************************************************)
(* The loops of book_ctops, book_vtops and book_pdo find, for every side   *)
(* of a book and every quantity, value and limit, what Depth says without  *)
(* loops.                                                                  *)
(***************************************************************************)
EXTENDS Depth, ReadersProofs

-----------------------------------------------------------------------------
(* Arithmetic.                                                             *)

LEMMA Distribute ==
  ASSUME NEW a \in Int, NEW b \in Int, NEW k \in Int
  PROVE  /\ k * (a - b) = k * a - k * b /\ k * (a + b) = k * a + k * b
         /\ (a - b) * k = a * k - b * k /\ (a + b) * k = a * k + b * k
OBVIOUS

LEMMA NextMultiple ==
  ASSUME NEW a \in Int, NEW b \in Int, NEW m \in Nat \ {0}, a < b
  PROVE  a * m + m <= b * m
<1>1. PICK e \in Nat : b = a + 1 + e
  <2>1. b - a - 1 \in Nat /\ b = a + 1 + (b - a - 1)
    OBVIOUS
  <2> QED BY <2>1
<1>2. b * m = a * m + m + e * m
  BY <1>1
<1>3. e * m >= 0
  OBVIOUS
<1> QED BY <1>2, <1>3

LEMMA Multiples ==
  ASSUME NEW a \in Int, NEW b \in Int, NEW m \in Nat, a <= b
  PROVE  a * m <= b * m
<1>1. CASE a = b \/ m = 0
  BY <1>1
<1>2. CASE a < b /\ m # 0
  <2>1. a * m + m <= b * m
    BY <1>2, NextMultiple
  <2>2. a * m \in Int /\ b * m \in Int
    OBVIOUS
  <2> QED BY <2>1, <2>2
<1> QED BY <1>1, <1>2

\* e goes into a at least e times, and no more if the next multiple is beyond.
LEMMA Quotient ==
  ASSUME NEW a \in Nat, NEW m \in Nat \ {0}, NEW e \in Nat, e * m <= a
  PROVE  /\ a \div m \in Nat
         /\ e <= a \div m
         /\ a < e * m + m => a \div m = e
<1> DEFINE z == a \div m
<1>1. z \in Nat /\ z * m <= a /\ a < z * m + m
  OBVIOUS
<1> HIDE DEF z
<1>2. z * m \in Int /\ e * m \in Int
  BY <1>1
<1>3. ~ (z < e)
  <2> SUFFICES ASSUME z < e PROVE FALSE
    OBVIOUS
  <2>1. z * m + m <= e * m
    BY <1>1, NextMultiple
  <2> QED BY <1>1, <1>2, <2>1
<1>4. ASSUME a < e * m + m, e < z PROVE FALSE
  <2>1. e * m + m <= z * m
    BY <1>1, <1>4, NextMultiple
  <2> QED BY <1>1, <1>2, <1>4, <2>1
<1> QED BY <1>1, <1>3, <1>4 DEF z

LEMMA ExactQuotient ==
  ASSUME NEW a \in Nat, NEW m \in Nat \ {0}
  PROVE  (a * m) \div m = a
<1> DEFINE am == a * m
<1>1. am \in Nat /\ am <= am /\ am < am + m
  OBVIOUS
<1> HIDE DEF am
<1> QED BY <1>1, Quotient DEF am

-----------------------------------------------------------------------------
(* Rounding.                                                               *)

LEMMA ShorterRounds ==
  ASSUME NEW m \in Nat
  PROVE  /\ D64!Shorter(m) \in Nat
         /\ m <= 10 * D64!Shorter(m) + 4 /\ 10 * D64!Shorter(m) <= m + 5
BY DEF D64!Shorter

\* s has what is left of m after taking off 0, 1, .. k digits
Shorten(s, m, k) == s = [j \in 0 .. k |-> IF j = 0 THEN m ELSE D64!Shorter(s[j - 1])]

LEMMA ShortenExists ==
  ASSUME NEW m
  PROVE  \A k \in Nat : \E s : Shorten(s, m, k)
<1> DEFINE B == {k \in Nat : ~\E s : Shorten(s, m, k)}
<1> SUFFICES ASSUME B # {} PROVE FALSE
  OBVIOUS
<1> DEFINE u == Min(B)
<1>1. u \in B /\ \A y \in B : u <= y
  <2>1. PICK b \in B : TRUE
    OBVIOUS
  <2>2. B \in SUBSET Nat
    OBVIOUS
  <2> HIDE DEF B
  <2> QED BY <2>1, <2>2, LeastOf
<1> HIDE DEF u
<1>2. u \in Nat /\ ~\E s : Shorten(s, m, u)
  BY <1>1
<1>3. u # 0
  <2> SUFFICES ASSUME u = 0 PROVE FALSE
    OBVIOUS
  <2> DEFINE s == [j \in 0 .. 0 |-> m]
  <2>1. s = [j \in 0 .. 0 |-> IF j = 0 THEN m ELSE D64!Shorter(s[j - 1])]
    OBVIOUS
  <2>2. Shorten(s, m, 0)
    BY <2>1 DEF Shorten
  <2> HIDE DEF s
  <2> QED BY <1>2, <2>2
<1>4. u - 1 \in Nat /\ ~(u <= u - 1)
  BY <1>2, <1>3
<1>5. u - 1 \notin B
  <2> HIDE DEF B
  <2> QED BY <1>1, <1>4
<1>6. PICK r : Shorten(r, m, u - 1)
  BY <1>4, <1>5
<1>7. \A j \in 0 .. u - 1 : r[j] = IF j = 0 THEN m ELSE D64!Shorter(r[j - 1])
  BY <1>6 DEF Shorten
<1> DEFINE s == [j \in 0 .. u |-> IF j = u THEN D64!Shorter(r[u - 1]) ELSE r[j]]
<1>8. \A j \in 0 .. u : s[j] = IF j = 0 THEN m ELSE D64!Shorter(s[j - 1])
  <2> TAKE j \in 0 .. u
  <2>1. CASE j = u
    BY <1>2, <1>3, <2>1
  <2>2. CASE j # u
    <3>1. j \in 0 .. u - 1 /\ s[j] = r[j]
      BY <1>2, <2>2
    <3>2. j # 0 => j - 1 \in 0 .. u /\ j - 1 # u
      BY <1>2, <3>1
    <3> QED BY <1>7, <3>1, <3>2
  <2> QED BY <2>1, <2>2
<1>9. s = [j \in 0 .. u |-> s[j]]
  OBVIOUS
<1> HIDE DEF s
<1>10. Shorten(s, m, u)
  BY <1>8, <1>9 DEF Shorten
<1> QED BY <1>2, <1>10

LEMMA ShortenedIs ==
  ASSUME NEW m, NEW k \in Nat
  PROVE  \E s : Shorten(s, m, k) /\ D64!Shortened(m, k) = s[k]
<1> DEFINE h == CHOOSE s : s = [j \in 0 .. k |-> IF j = 0 THEN m ELSE D64!Shorter(s[j - 1])]
<1>1. D64!Shortened(m, k) = h[k]
  BY DEF D64!Shortened
<1>2. \E s : s = [j \in 0 .. k |-> IF j = 0 THEN m ELSE D64!Shorter(s[j - 1])]
  BY ShortenExists DEF Shorten
<1>3. h = [j \in 0 .. k |-> IF j = 0 THEN m ELSE D64!Shorter(h[j - 1])]
  BY <1>2
<1> HIDE DEF h
<1>4. Shorten(h, m, k)
  BY <1>3 DEF Shorten
<1> QED BY <1>1, <1>4

\* z is m without its last digits, which make up for t, rounded one by one: it
\* is less than 5/9 off, and between the whole numbers that m is between
Rounded(z, m, t) ==
    /\ z \in Nat
    /\ 9 * (z * t - m) <= 5 * (t - 1) /\ 9 * (m - z * t) <= 5 * (t - 1)
    /\ \A x \in Nat : (x * t <= m => x <= z) /\ (m <= x * t => z <= x)

LEMMA RoundedMore ==
  ASSUME NEW m \in Nat, NEW t \in {1, 10, 100, 1000, 10000}, NEW z, Rounded(z, m, t)
  PROVE  Rounded(D64!Shorter(z), m, 10 * t)
<1> DEFINE y == D64!Shorter(z)
<1>1. z \in Nat
  BY DEF Rounded
<1>2. y \in Nat /\ z <= 10 * y + 4 /\ 10 * y <= z + 5
  BY <1>1, ShorterRounds
<1>3. 9 * (z * t - m) <= 5 * (t - 1) /\ 9 * (m - z * t) <= 5 * (t - 1)
  BY DEF Rounded
<1> HIDE DEF y
<1>4. 9 * (y * (10 * t) - m) <= 5 * (10 * t - 1) /\ 9 * (m - y * (10 * t)) <= 5 * (10 * t - 1)
  BY <1>1, <1>2, <1>3
<1>5. ASSUME NEW x \in Nat, x * (10 * t) <= m PROVE x <= y
  <2>1. (10 * x) * t <= m /\ 10 * x \in Nat
    BY <1>5
  <2>2. 10 * x <= z
    BY <2>1 DEF Rounded
  <2> QED BY <1>1, <1>2, <2>2
<1>6. ASSUME NEW x \in Nat, m <= x * (10 * t) PROVE y <= x
  <2>1. m <= (10 * x) * t /\ 10 * x \in Nat
    BY <1>6
  <2>2. z <= 10 * x
    BY <2>1 DEF Rounded
  <2> QED BY <1>1, <1>2, <2>2
<1> QED BY <1>2, <1>4, <1>5, <1>6 DEF Rounded, y

LEMMA RoundedNot ==
  ASSUME NEW m \in Nat
  PROVE  Rounded(m, m, 1)
BY DEF Rounded

LEMMA Tens ==
  10 ^ 0 = 1 /\ 10 ^ 1 = 10 /\ 10 ^ 2 = 100 /\ 10 ^ 3 = 1000 /\ 10 ^ 4 = 10000 /\ 10 ^ 5 = 100000
OBVIOUS

LEMMA ShortenedRounds ==
  ASSUME NEW m \in Nat, NEW k \in 0 .. 5
  PROVE  Rounded(D64!Shortened(m, k), m, 10 ^ k)
<1>1. PICK s : Shorten(s, m, k) /\ D64!Shortened(m, k) = s[k]
  BY ShortenedIs
<1>2. \A j \in 0 .. k : s[j] = IF j = 0 THEN m ELSE D64!Shorter(s[j - 1])
  BY <1>1 DEF Shorten
<1>3. Rounded(s[0], m, 1)
  BY <1>2, RoundedNot
<1>4. k >= 1 => Rounded(s[1], m, 10)
  <2> SUFFICES ASSUME k >= 1 PROVE Rounded(s[1], m, 10)
    OBVIOUS
  <2>1. s[1] = D64!Shorter(s[0])
    BY <1>2
  <2>2. Rounded(D64!Shorter(s[0]), m, 10 * 1)
    BY <1>3, RoundedMore
  <2> QED BY <2>1, <2>2
<1>5. k >= 2 => Rounded(s[2], m, 100)
  <2> SUFFICES ASSUME k >= 2 PROVE Rounded(s[2], m, 100)
    OBVIOUS
  <2>1. s[2] = D64!Shorter(s[1])
    BY <1>2
  <2>2. Rounded(D64!Shorter(s[1]), m, 10 * 10)
    BY <1>4, RoundedMore
  <2> QED BY <2>1, <2>2
<1>6. k >= 3 => Rounded(s[3], m, 1000)
  <2> SUFFICES ASSUME k >= 3 PROVE Rounded(s[3], m, 1000)
    OBVIOUS
  <2>1. s[3] = D64!Shorter(s[2])
    BY <1>2
  <2>2. Rounded(D64!Shorter(s[2]), m, 10 * 100)
    BY <1>5, RoundedMore
  <2> QED BY <2>1, <2>2
<1>7. k >= 4 => Rounded(s[4], m, 10000)
  <2> SUFFICES ASSUME k >= 4 PROVE Rounded(s[4], m, 10000)
    OBVIOUS
  <2>1. s[4] = D64!Shorter(s[3])
    BY <1>2
  <2>2. Rounded(D64!Shorter(s[3]), m, 10 * 1000)
    BY <1>6, RoundedMore
  <2> QED BY <2>1, <2>2
<1>8. k >= 5 => Rounded(s[5], m, 100000)
  <2> SUFFICES ASSUME k >= 5 PROVE Rounded(s[5], m, 100000)
    OBVIOUS
  <2>1. s[5] = D64!Shorter(s[4])
    BY <1>2
  <2>2. Rounded(D64!Shorter(s[4]), m, 10 * 10000)
    BY <1>7, RoundedMore
  <2> QED BY <2>1, <2>2
<1>9. CASE k = 0
  BY <1>1, <1>3, <1>9, Tens
<1>10. CASE k = 1
  BY <1>1, <1>4, <1>10, Tens
<1>11. CASE k = 2
  BY <1>1, <1>5, <1>11, Tens
<1>12. CASE k = 3
  BY <1>1, <1>6, <1>12, Tens
<1>13. CASE k = 4
  BY <1>1, <1>7, <1>13, Tens
<1>14. CASE k = 5
  BY <1>1, <1>8, <1>14, Tens
<1> QED BY <1>9, <1>10, <1>11, <1>12, <1>13, <1>14

LEMMA GreatestUpTo5 ==
  ASSUME NEW S \in SUBSET (0 .. 5), 0 \in S
  PROVE  D64!Max(S) \in 0 .. 5
<1>1. \E x \in S : \A y \in S : x >= y
  <2>1. CASE 5 \in S
    BY <2>1
  <2>2. CASE 5 \notin S /\ 4 \in S
    BY <2>2
  <2>3. CASE 5 \notin S /\ 4 \notin S /\ 3 \in S
    BY <2>3
  <2>4. CASE 5 \notin S /\ 4 \notin S /\ 3 \notin S /\ 2 \in S
    BY <2>4
  <2>5. CASE 5 \notin S /\ 4 \notin S /\ 3 \notin S /\ 2 \notin S /\ 1 \in S
    BY <2>5
  <2>6. CASE 5 \notin S /\ 4 \notin S /\ 3 \notin S /\ 2 \notin S /\ 1 \notin S
    BY <2>6
  <2> QED BY <2>1, <2>2, <2>3, <2>4, <2>5, <2>6
<1>2. D64!Max(S) \in S
  BY <1>1 DEF D64!Max
<1> QED BY <1>2

\* m is a / b in t parts of a unit, to the nearest
Nearest(m, a, b, t) ==
    /\ m \in Nat
    /\ 2 * (m * b - a * t) <= b /\ 2 * (a * t - m * b) <= b
    /\ \A x \in Nat : (x * b <= a => x * t <= m) /\ (a <= x * b => m <= x * t)

\* m, or one more if that is nearer, or even and as near
HalfEven(m, r, b) == IF r > b \/ (r = b /\ m % 2 = 1) THEN m + 1 ELSE m

LEMMA DivisionRounds ==
  ASSUME NEW a \in Nat, NEW b \in Nat \ {0}, NEW t \in Nat \ {0}, NEW m, NEW r,
         m = (a * t) \div b, r = 2 * ((a * t) % b)
  PROVE  Nearest(HalfEven(m, r, b), a, b, t)
<1> DEFINE A == a * t
           M == IF r > b \/ (r = b /\ m % 2 = 1) THEN m + 1 ELSE m
<1>1. A \in Nat
  OBVIOUS
<1>2. m = A \div b /\ r = 2 * (A % b)
  OBVIOUS
<1> HIDE DEF A
<1>3. m \in Nat /\ A % b \in Nat /\ A = m * b + (A % b) /\ A % b < b
  BY <1>1, <1>2
<1>4. m * b \in Nat /\ (m + 1) * b = m * b + b
  BY <1>3
<1>5. M \in Nat /\ (M = m \/ (M = m + 1 /\ r >= b))
  BY <1>2, <1>3
<1>6. M = m => r <= b
  BY <1>2, <1>3
<1>7. 2 * (M * b - A) <= b /\ 2 * (A - M * b) <= b
  <2> HIDE DEF M
  <2>1. CASE M = m
    BY <1>2, <1>3, <1>4, <1>6, <2>1
  <2>2. CASE M = m + 1 /\ r >= b
    BY <1>2, <1>3, <1>4, <2>2
  <2> QED BY <1>5, <2>1, <2>2
<1>8. ASSUME NEW x \in Nat, x * b <= a PROVE x * t <= M
  <2>1. (x * t) * b <= A /\ x * t \in Nat
    <3>1. (x * t) * b = (x * b) * t /\ x * b \in Nat /\ x * t \in Nat
      OBVIOUS
    <3>2. (x * b) * t <= a * t
      <4> DEFINE y == x * b
      <4>1. y \in Nat /\ y <= a
        BY <1>8
      <4> HIDE DEF y
      <4>2. y * t <= a * t
        BY <4>1
      <4> QED BY <4>2 DEF y
    <3> QED BY <3>1, <3>2 DEF A
  <2>2. x * t <= m
    BY <1>1, <1>2, <2>1, Quotient
  <2> HIDE DEF M
  <2> QED BY <1>3, <1>5, <2>1, <2>2
<1>9. ASSUME NEW x \in Nat, a <= x * b PROVE M <= x * t
  <2> DEFINE y == x * t
  <2>1. A <= y * b /\ y \in Nat
    <3>1. (x * t) * b = (x * b) * t /\ x * b \in Nat /\ x * t \in Nat
      OBVIOUS
    <3>2. a * t <= (x * b) * t
      <4> DEFINE z == x * b
      <4>1. z \in Nat /\ a <= z
        BY <1>9
      <4> HIDE DEF z
      <4>2. a * t <= z * t
        BY <4>1
      <4> QED BY <4>2 DEF z
    <3> QED BY <3>1, <3>2 DEF A
  <2> HIDE DEF y, M
  <2>2. CASE M = m
    <3>1. ~(y < m)
      <4> SUFFICES ASSUME y < m PROVE FALSE
        OBVIOUS
      <4>1. y * b + b <= m * b
        BY <1>3, <2>1, NextMultiple
      <4>2. y * b \in Nat
        BY <2>1
      <4> QED BY <1>1, <1>3, <1>4, <2>1, <4>1, <4>2
    <3> QED BY <1>3, <2>1, <2>2, <3>1 DEF y
  <2>3. CASE M = m + 1 /\ r >= b
    <3>1. ~(y < m + 1)
      <4> SUFFICES ASSUME y < m + 1 PROVE FALSE
        OBVIOUS
      <4>1. y * b + b <= (m + 1) * b
        BY <1>3, <2>1, NextMultiple
      <4>2. y * b \in Nat /\ A % b > 0
        BY <1>2, <1>3, <2>1, <2>3
      <4> QED BY <1>1, <1>3, <1>4, <2>1, <4>1, <4>2
    <3> QED BY <1>3, <2>1, <2>3, <3>1 DEF y
  <2> QED BY <1>5, <2>2, <2>3
<1> HIDE DEF M
<1>10. Nearest(M, a, b, t)
  BY <1>5, <1>7, <1>8, <1>9 DEF Nearest, A
<1> QED BY <1>10 DEF M, HalfEven

Ten(j) == 10 ^ j

LEMMA TenTo ==
  ASSUME NEW j \in 0 .. 5
  PROVE  Ten(j) \in {1, 10, 100, 1000, 10000, 100000} /\ Ten(j) \in Nat \ {0}
<1>1. j \in {0, 1, 2, 3, 4, 5}
  OBVIOUS
<1>2. Ten(0) = 1 /\ Ten(1) = 10 /\ Ten(2) = 100 /\ Ten(3) = 1000 /\ Ten(4) = 10000 /\ Ten(5) = 100000
  BY Tens DEF Ten
<1> QED BY <1>1, <1>2

LEMMA QuotientRounds ==
  ASSUME NEW a \in Nat, NEW b \in Nat \ {0}, a < 10000 * b
  PROVE  \E j \in 0 .. 5 : /\ D64!Quotient(a, b).expo = -j
                           /\ Nearest(D64!Quotient(a, b).mant, a, b, Ten(j))
<1> DEFINE S == {g \in 0 .. 5 : (a * 10 ^ g) \div b < 10 ^ 4}
           j == D64!Max(S)
           m == (a * 10 ^ j) \div b
           r == 2 * ((a * 10 ^ j) % b)
<1>1. j \in 0 .. 5
  <2>1. 0 \in S
    <3>1. a * 10 ^ 0 = a /\ 10 ^ 4 = 10000
      BY Tens
    <3>2. a \div b < 10000
      <4> DEFINE z == a \div b
      <4>1. z \in Nat /\ z * b <= a
        OBVIOUS
      <4> HIDE DEF z
      <4> SUFFICES ASSUME ~(z < 10000) PROVE FALSE
        BY <4>1 DEF z
      <4>2. 9999 < z /\ 9999 \in Int /\ z \in Int
        BY <4>1
      <4>3. 9999 * b + b <= z * b
        BY <4>2, NextMultiple
      <4> QED BY <4>1, <4>3
    <3> QED BY <3>1, <3>2
  <2>2. S \in SUBSET (0 .. 5)
    OBVIOUS
  <2> HIDE DEF S
  <2> QED BY <2>1, <2>2, GreatestUpTo5
<1>2. /\ D64!Quotient(a, b).mant = HalfEven(m, r, b)
      /\ D64!Quotient(a, b).expo = -j
  BY DEF D64!Quotient, HalfEven
<1> HIDE DEF S, j
<1> DEFINE t == Ten(j)
<1>3. t \in Nat \ {0}
  BY <1>1, TenTo
<1>4. m = (a * t) \div b /\ r = 2 * ((a * t) % b)
  BY DEF Ten
<1> HIDE DEF m, r, t
<1>5. Nearest(HalfEven(m, r, b), a, b, t)
  BY <1>3, <1>4, DivisionRounds
<1> QED BY <1>1, <1>2, <1>5 DEF t

LEMMA QuantumRounds ==
  ASSUME NEW m \in Nat, NEW j \in 0 .. 5
  PROVE  Rounded(D64!Quantum(m, -j, 0).mant, m, Ten(j))
<1>1. CASE j = 0
  <2> DEFINE S == {g \in 0 .. (0 - 0) : m > 0 /\ D64!Len(D64!Digits(m)) + g >= 3} \cup {0 - 0}
  <2>1. D64!Quantum(m, 0, 0).mant = m * 10 ^ D64!Min(S)
    BY DEF D64!Quantum
  <2>2. S = {0}
    OBVIOUS
  <2> HIDE DEF S
  <2>3. D64!Min(S) = 0
    BY <2>2 DEF D64!Min
  <2>4. D64!Quantum(m, 0, 0).mant = m
    BY <2>1, <2>3, Tens
  <2>5. -j = 0 /\ Ten(j) = 1
    <3>1. Ten(0) = 1
      BY Tens DEF Ten
    <3>2. -j = 0 - j
      <4>1. \A k \in Int : -k = 0 - k
        OBVIOUS
      <4>2. j \in Int
        OBVIOUS
      <4> QED BY <4>1, <4>2, Zenon
    <3>3. 0 - j = 0
      BY <1>1
    <3> QED BY <1>1, <3>1, <3>2, <3>3, Zenon
  <2> QED BY <2>4, <2>5, RoundedNot
<1>2. CASE j > 0
  <2>1. D64!Quantum(m, -j, 0).mant = D64!Shortened(m, 0 - (-j))
    BY <1>2 DEF D64!Quantum
  <2>2. 0 - (-j) = j
    OBVIOUS
  <2>3. Rounded(D64!Shortened(m, j), m, Ten(j))
    BY ShortenedRounds, Zenon DEF Ten
  <2> QED BY <2>1, <2>2, <2>3
<1> QED BY <1>1, <1>2

\* quantizepx: a whole number less than 5/9 off, and not beyond whole numbers
\* the quotient is between.
LEMMA QuantizeRounds ==
  ASSUME NEW a \in Nat, NEW b \in Nat \ {0}, NEW lo \in Nat, NEW hi \in Nat,
         lo * b <= a, a <= hi * b, hi < 10000
  PROVE  LET z == quantize[<<a, b>>]
         IN  /\ z \in Nat /\ lo <= z /\ z <= hi
             /\ 9 * (z * b - a) < 5 * b /\ 9 * (a - z * b) < 5 * b
<1> DEFINE x == D64!Quotient(a, b)
           z == D64!Quantum(x.mant, x.expo, 0).mant
<1>1. quantize[<<a, b>>] = z
  BY DEF quantize, D64!QuantizedQuotient
<1>2. a < 10000 * b
  <2>1. hi * b + b <= 10000 * b
    BY NextMultiple
  <2>2. hi * b \in Nat
    OBVIOUS
  <2> QED BY <2>1, <2>2
<1>3. PICK j \in 0 .. 5 : x.expo = -j /\ Nearest(x.mant, a, b, Ten(j))
  BY <1>2, QuotientRounds
<1> DEFINE m == x.mant
           t == Ten(j)
<1>4. Nearest(m, a, b, t)
  BY <1>3
<1>5. m \in Nat
  BY <1>4 DEF Nearest
<1>6. Rounded(z, m, t)
  <2>1. z = D64!Quantum(m, -j, 0).mant
    BY <1>3
  <2> HIDE DEF m
  <2>2. Rounded(D64!Quantum(m, -j, 0).mant, m, Ten(j))
    BY <1>5, QuantumRounds
  <2> QED BY <2>1, <2>2
<1>7. t \in {1, 10, 100, 1000, 10000, 100000}
  BY TenTo
<1> HIDE DEF x, z, m, t
<1>8. z \in Nat
  BY <1>6 DEF Rounded
<1>9. lo <= z
  <2>1. lo * t <= m
    BY <1>4 DEF Nearest
  <2> QED BY <1>6, <2>1 DEF Rounded
<1>10. z <= hi
  <2>1. m <= hi * t
    BY <1>4 DEF Nearest
  <2> QED BY <1>6, <2>1 DEF Rounded
<1>11. 2 * (m * b - a * t) <= b /\ 2 * (a * t - m * b) <= b
  BY <1>4 DEF Nearest
<1>12. 9 * (z * t - m) <= 5 * (t - 1) /\ 9 * (m - z * t) <= 5 * (t - 1)
  BY <1>6 DEF Rounded
<1> DEFINE u == z * b
           v == m * b
<1>13. u \in Int /\ v \in Int
  BY <1>5, <1>8
<1>14. 9 * (u * t - v) <= 5 * (t - 1) * b /\ 9 * (v - u * t) <= 5 * (t - 1) * b
  <2> DEFINE d == 9 * (z * t - m)
             f == 9 * (m - z * t)
             e == 5 * (t - 1)
  <2>2. d \in Int /\ e \in Int /\ f \in Int /\ d <= e /\ f <= e
    BY <1>5, <1>7, <1>8, <1>12
  <2> HIDE DEF d, e, f
  <2>3. d * b <= e * b
    BY <2>2, Multiples
  <2>1. f * b <= e * b
    BY <2>2, Multiples
  <2>4. d * b = 9 * (u * t - v)
    BY <1>5, <1>7, <1>8 DEF d
  <2>5. f * b = 9 * (v - u * t)
    BY <1>5, <1>7, <1>8 DEF f
  <2>6. e * b = 5 * (t - 1) * b
    BY <1>7 DEF e
  <2> QED BY <2>1, <2>3, <2>4, <2>5, <2>6
<1>15. 2 * (v - a * t) <= b /\ 2 * (a * t - v) <= b
  BY <1>11
<1> HIDE DEF u, v
<1>16. 9 * (u - a) < 5 * b /\ 9 * (a - u) < 5 * b
  <2>1. CASE t = 1
    BY <1>13, <1>14, <1>15, <2>1
  <2>2. CASE t = 10
    BY <1>13, <1>14, <1>15, <2>2
  <2>3. CASE t = 100
    BY <1>13, <1>14, <1>15, <2>3
  <2>4. CASE t = 1000
    BY <1>13, <1>14, <1>15, <2>4
  <2>5. CASE t = 10000
    BY <1>13, <1>14, <1>15, <2>5
  <2>6. CASE t = 100000
    BY <1>13, <1>14, <1>15, <2>6
  <2> QED BY <1>7, <2>1, <2>2, <2>3, <2>4, <2>5, <2>6
<1> QED BY <1>1, <1>8, <1>9, <1>10, <1>16 DEF u

-----------------------------------------------------------------------------
(* Sums over the first levels.                                             *)

\* f has a positive number for each of m levels
Amounts(f, m) == m \in Nat /\ \A a \in 1 .. m : f[a] \in Nat \ {0}

LEMMA TotalsAddUp ==
  ASSUME NEW m, NEW f, Amounts(f, m)
  PROVE  /\ AddsUp(Running(f, m), f, m)
         /\ \A a \in 0 .. m : Running(f, m)[a] = Total(f, a)
<1>1. m \in Nat /\ \A a \in 1 .. m : f[a] \in Int
  BY DEF Amounts
<1>2. AddsUp(Running(f, m), f, m)
  BY <1>1, RunningAddsUp
<1> QED BY <1>1, <1>2 DEF Running, Total

\* Each level adds something.
LEMMA Totals ==
  ASSUME NEW m, NEW f, Amounts(f, m)
  PROVE  /\ Total(f, 0) = 0
         /\ \A a \in 0 .. m : Total(f, a) \in Nat
         /\ \A a \in 1 .. m : Total(f, a) = Total(f, a - 1) + f[a]
         /\ \A a, b \in 0 .. m : a < b => Total(f, a) < Total(f, b)
<1> DEFINE T == Running(f, m)
<1>1. AddsUp(T, f, m) /\ \A a \in 0 .. m : T[a] = Total(f, a)
  BY TotalsAddUp
<1>2. m \in Nat /\ \A a \in 1 .. m : f[a] \in Nat \ {0}
  BY DEF Amounts
<1> HIDE DEF T
<1>3. ASSUME NEW a \in 0 .. m PROVE \A b \in 0 .. m : a < b => T[a] < T[b]
  BY <1>1, <1>2, AddsUpGrows
<1>4. T[0] = 0 /\ (\A a \in 0 .. m : T[a] \in Int) /\ \A a \in 1 .. m : T[a] = T[a - 1] + f[a]
  BY <1>1 DEF AddsUp
<1>5. \A a \in 0 .. m : T[a] \in Nat
  <2> TAKE a \in 0 .. m
  <2>1. 0 \in 0 .. m /\ T[a] \in Int /\ (a = 0 \/ 0 < a)
    BY <1>2, <1>4
  <2> QED BY <1>2, <1>3, <1>4, <2>1
<1>6. Total(f, 0) = 0
  BY <1>1, <1>2, <1>4
<1>7. \A a \in 0 .. m : Total(f, a) \in Nat
  BY <1>1, <1>5
<1>8. \A a \in 1 .. m : Total(f, a) = Total(f, a - 1) + f[a]
  <2> TAKE a \in 1 .. m
  <2>1. a \in 0 .. m /\ a - 1 \in 0 .. m
    BY <1>2
  <2> QED BY <1>1, <1>4, <2>1
<1>9. \A a, b \in 0 .. m : a < b => Total(f, a) < Total(f, b)
  BY <1>1, <1>3
<1> QED BY <1>6, <1>7, <1>8, <1>9

\* d is the first of m levels with which x is reached
FirstReaching(f, m, d, x) ==
    d \in 1 .. m /\ x \in Nat /\ Total(f, d - 1) < x /\ x <= Total(f, d)

\* Such a level is the one Min finds.
LEMMA FirstIsLeast ==
  ASSUME NEW m, NEW f, Amounts(f, m), NEW d, NEW x, FirstReaching(f, m, d, x)
  PROVE  Min({a \in 1 .. m : Total(f, a) >= x}) = d
<1> DEFINE S == {a \in 1 .. m : Total(f, a) >= x}
<1>0. m \in Nat /\ d \in 1 .. m /\ x \in Nat /\ Total(f, d - 1) < x /\ x <= Total(f, d)
  BY DEF Amounts, FirstReaching
<1>1. /\ \A a \in 0 .. m : Total(f, a) \in Nat
      /\ \A a, b \in 0 .. m : a < b => Total(f, a) < Total(f, b)
  BY Totals
<1>2. d \in S
  <2>1. d \in 0 .. m
    BY <1>0
  <2> QED BY <1>0, <1>1, <2>1
<1>3. \A a \in S : d <= a
  <2> SUFFICES ASSUME NEW a \in 1 .. m, Total(f, a) >= x, a < d PROVE FALSE
    BY <1>0
  <2>1. a \in 0 .. m /\ d - 1 \in 0 .. m /\ (a = d - 1 \/ a < d - 1)
    BY <1>0
  <2>2. Total(f, a) <= Total(f, d - 1) /\ Total(f, a) \in Nat /\ Total(f, d - 1) \in Nat
    BY <1>1, <2>1
  <2> QED BY <1>0, <2>2
<1>4. \A a \in S : a \in Nat
  BY <1>0
<1> HIDE DEF S
<1>5. \A a \in S : (\A b \in S : a <= b) => a = d
  BY <1>0, <1>2, <1>3, <1>4
<1>6. Min(S) = d
  BY <1>2, <1>3, <1>5 DEF Min
<1> QED BY <1>6 DEF S

\* Levels before d are used up, d as far as needed and those after it not at all.
LEMMA UsedToReach ==
  ASSUME NEW m, NEW f, Amounts(f, m), NEW d, NEW x, FirstReaching(f, m, d, x)
  PROVE  /\ \A a \in 1 .. d - 1 : Used(f, a, x) = f[a]
         /\ Used(f, d, x) = x - Total(f, d - 1)
         /\ \A a \in d + 1 .. m : Used(f, a, x) = 0
         /\ \A a \in 1 .. m : Used(f, a, x) \in Nat /\ (Used(f, a, x) > 0 <=> a <= d)
<1>0. m \in Nat /\ d \in 1 .. m /\ x \in Nat /\ Total(f, d - 1) < x /\ x <= Total(f, d)
  BY DEF Amounts, FirstReaching
<1>1. /\ \A a \in 0 .. m : Total(f, a) \in Nat
      /\ \A a \in 1 .. m : Total(f, a) = Total(f, a - 1) + f[a]
      /\ \A a, b \in 0 .. m : a < b => Total(f, a) < Total(f, b)
      /\ \A a \in 1 .. m : f[a] \in Nat \ {0}
  BY Totals DEF Amounts
<1>2. ASSUME NEW a \in 1 .. d - 1 PROVE Used(f, a, x) = f[a] /\ f[a] \in Nat \ {0}
  <2>1. a \in 1 .. m /\ a \in 0 .. m /\ a - 1 \in 0 .. m /\ d - 1 \in 0 .. m /\ (a = d - 1 \/ a < d - 1)
    BY <1>0
  <2>2. Total(f, a) <= Total(f, d - 1) /\ Total(f, a) = Total(f, a - 1) + f[a]
    BY <1>1, <2>1
  <2>3. Total(f, a) \in Nat /\ Total(f, a - 1) \in Nat /\ Total(f, d - 1) \in Nat /\ f[a] \in Nat \ {0}
    BY <1>1, <2>1
  <2>4. x - Total(f, a - 1) > 0 /\ f[a] <= x - Total(f, a - 1)
    BY <1>0, <2>2, <2>3
  <2> QED BY <1>0, <2>3, <2>4 DEF Used
<1>3. Used(f, d, x) = x - Total(f, d - 1) /\ x - Total(f, d - 1) \in Nat \ {0}
  <2>1. d \in 1 .. m /\ d \in 0 .. m /\ d - 1 \in 0 .. m
    BY <1>0
  <2>2. Total(f, d) = Total(f, d - 1) + f[d] /\ Total(f, d - 1) \in Nat /\ f[d] \in Nat \ {0}
    BY <1>1, <2>1
  <2>3. x - Total(f, d - 1) > 0 /\ x - Total(f, d - 1) <= f[d]
    BY <1>0, <2>2
  <2> QED BY <1>0, <2>2, <2>3 DEF Used
<1>4. ASSUME NEW a \in d + 1 .. m PROVE Used(f, a, x) = 0
  <2>1. a - 1 \in 0 .. m /\ d \in 0 .. m /\ (a - 1 = d \/ d < a - 1)
    BY <1>0
  <2>2. Total(f, d) <= Total(f, a - 1) /\ Total(f, a - 1) \in Nat /\ Total(f, d) \in Nat
    BY <1>1, <2>1
  <2>3. x - Total(f, a - 1) <= 0
    BY <1>0, <2>2
  <2> QED BY <2>3 DEF Used
<1>5. ASSUME NEW a \in 1 .. m PROVE Used(f, a, x) \in Nat /\ (Used(f, a, x) > 0 <=> a <= d)
  <2>1. CASE a \in 1 .. d - 1
    BY <1>0, <1>2, <2>1
  <2>2. CASE a = d
    BY <1>0, <1>3, <2>2
  <2>3. CASE a \in d + 1 .. m
    BY <1>0, <1>4, <2>3
  <2> QED BY <1>0, <2>1, <2>2, <2>3
<1> QED BY <1>2, <1>3, <1>4, <1>5

-----------------------------------------------------------------------------
(* The side, and what its best units cost.                                 *)

\* the levels of a side, best first
Side ==
    /\ Len(lv) \in Nat /\ DOMAIN lv = 1 .. Len(lv)
    /\ \A a \in 1 .. Len(lv) : lv[a] \in Level
    /\ Ordered(lv)

LEMMA SideAmounts ==
  ASSUME Side
  PROVE  /\ Amounts(Qty, Len(lv)) /\ Amounts(Val, Len(lv)) /\ Amounts(Measure, Len(lv))
         /\ \A a \in 1 .. Len(lv) :
               /\ lv[a].k \in Nat \ {0} /\ lv[a].q \in Nat \ {0} /\ lv[a].t \in Nat
               /\ lv[a].t < NATV
               /\ Qty[a] = lv[a].q /\ Val[a] = lv[a].k * lv[a].q
<1>1. ASSUME NEW a \in 1 .. Len(lv)
      PROVE  /\ lv[a].k \in Nat \ {0} /\ lv[a].q \in Nat \ {0} /\ lv[a].t \in Nat
             /\ lv[a].t < NATV
  <2>1. lv[a].k \in Prices /\ lv[a].q \in Qtys /\ lv[a].t \in Times
    BY DEF Side, Level
  <2>2. /\ \A k \in Prices : k \in Nat \ {0}
        /\ \A q \in Qtys : q \in Nat \ {0}
        /\ \A t \in Times : t \in Nat /\ t < NATV
    BY DepthAssumption
  <2> QED BY <2>1, <2>2
<1>2. \A a \in 1 .. Len(lv) : Qty[a] = lv[a].q /\ Val[a] = lv[a].k * lv[a].q
  BY DEF Side, Qty, Val
<1>3. \A a \in 1 .. Len(lv) : Val[a] \in Nat \ {0}
  <2> TAKE a \in 1 .. Len(lv)
  <2>1. \A k, q \in Nat \ {0} : k * q \in Nat \ {0}
    OBVIOUS
  <2> QED BY <1>1, <1>2, <2>1
<1>4. Amounts(Qty, Len(lv)) /\ Amounts(Val, Len(lv))
  BY <1>1, <1>2, <1>3 DEF Side, Amounts
<1> QED BY <1>1, <1>2, <1>4 DEF Measure

\* The best x units cost what the levels before the last one do, and the rest
\* of x at its price.
LEMMA CostToReach ==
  ASSUME Side, NEW d, NEW x, FirstReaching(Qty, Len(lv), d, x)
  PROVE  Cost(x) = Total(Val, d - 1) + lv[d].k * (x - Total(Qty, d - 1))
<1> DEFINE m == Len(lv)
           w == [a \in DOMAIN lv |-> lv[a].k * Used(Qty, a, x)]
<1>0. m \in Nat /\ DOMAIN lv = 1 .. m /\ d \in 1 .. m
  BY DEF Side, FirstReaching
<1>1. /\ Amounts(Qty, m) /\ Amounts(Val, m)
      /\ \A a \in 1 .. m : /\ lv[a].k \in Nat \ {0} /\ Qty[a] = lv[a].q
                           /\ Val[a] = lv[a].k * lv[a].q
  BY SideAmounts
<1>2. /\ \A a \in 1 .. d - 1 : Used(Qty, a, x) = Qty[a]
      /\ Used(Qty, d, x) = x - Total(Qty, d - 1)
      /\ \A a \in d + 1 .. m : Used(Qty, a, x) = 0
      /\ \A a \in 1 .. m : Used(Qty, a, x) \in Nat
  BY <1>1, UsedToReach
<1>3. \A a \in 1 .. m : w[a] = lv[a].k * Used(Qty, a, x)
  BY <1>0
<1>4. Cost(x) = SumFunctionOnSet(w, 1 .. m)
  BY <1>0 DEF Cost
<1> HIDE DEF w, m
<1>5. \A a \in 1 .. m : w[a] \in Int
  <2>1. \A k \in Nat \ {0} : \A u \in Nat : k * u \in Int
    OBVIOUS
  <2> QED BY <1>1, <1>2, <1>3, <2>1
<1>6. \A a \in 1 .. d - 1 : Val[a] = w[a]
  <2> TAKE a \in 1 .. d - 1
  <2>1. a \in 1 .. m
    BY <1>0
  <2> QED BY <1>1, <1>2, <1>3, <2>1
<1>7. \A a \in d + 1 .. m : w[a] = 0
  <2> TAKE a \in d + 1 .. m
  <2>1. a \in 1 .. m
    BY <1>0
  <2>2. w[a] = lv[a].k * 0 /\ lv[a].k \in Nat
    BY <1>1, <1>2, <1>3, <2>1
  <2> QED BY <2>2
<1> DEFINE T == Running(w, m)
           U == Running(Val, m)
<1>8. AddsUp(T, w, m) /\ T[m] = Cost(x)
  BY <1>0, <1>4, <1>5, RunningAddsUp DEF Running
<1>9. AddsUp(U, Val, m) /\ U[d - 1] = Total(Val, d - 1)
  <2>1. d - 1 \in 0 .. m
    BY <1>0
  <2> QED BY <1>1, <2>1, TotalsAddUp
<1> HIDE DEF T, U
<1>10. T[m] = U[d - 1] + w[d]
  <2>1. EndsAt(w, Val, m, d)
    BY <1>0, <1>5, <1>6, <1>7 DEF EndsAt
  <2> QED BY <1>8, <1>9, <2>1, AddsUpTo
<1> QED BY <1>0, <1>2, <1>3, <1>8, <1>9, <1>10

\* v has the m numbers of w times k
Scaled(v, w, k, m) ==
    m \in Nat /\ k \in Int /\ \A j \in 1 .. m : w[j] \in Int /\ v[j] = w[j] * k

\* Its running sums are those of w times k.
LEMMA AddsUpScaled ==
  ASSUME NEW m, NEW w, NEW k, NEW v, Scaled(v, w, k, m),
         NEW T, AddsUp(T, w, m), NEW U, AddsUp(U, v, m)
  PROVE  \A j \in 0 .. m : U[j] = T[j] * k
<1> DEFINE S == [j \in 0 .. m |-> T[j] * k]
<1>0. m \in Nat /\ k \in Int /\ \A j \in 1 .. m : w[j] \in Int /\ v[j] = w[j] * k
  BY DEF Scaled
<1>1. T[0] = 0 /\ (\A j \in 0 .. m : T[j] \in Int) /\ \A j \in 1 .. m : T[j] = T[j - 1] + w[j]
  BY DEF AddsUp
<1>2. \A j \in 0 .. m : T[j] * k \in Int
  BY <1>0, <1>1
<1>3. \A j \in 1 .. m : S[j] = S[j - 1] + v[j]
  <2> TAKE j \in 1 .. m
  <2>1. j \in 0 .. m /\ j - 1 \in 0 .. m
    BY <1>0
  <2>2. T[j - 1] \in Int /\ w[j] \in Int
    BY <1>0, <1>1, <2>1
  <2>3. (T[j - 1] + w[j]) * k = T[j - 1] * k + w[j] * k
    BY <1>0, <2>2, Distribute
  <2> QED BY <1>0, <1>1, <2>1, <2>3
<1>4. S[0] = 0
  BY <1>0, <1>1
<1>5. AddsUp(S, v, m)
  BY <1>2, <1>3, <1>4 DEF AddsUp
<1>6. \A j \in 1 .. m : v[j] = v[j] /\ v[j] \in Int
  BY <1>0
<1>7. \A j \in 0 .. m : S[j] = T[j] * k
  OBVIOUS
<1> HIDE DEF S
<1>8. \A j \in 0 .. m : S[j] = U[j]
  BY <1>0, <1>5, <1>6, AddsUpSame
<1> QED BY <1>7, <1>8

\* A value buys the levels before the last one and, of that, what is left of
\* the value.
LEMMA BoughtToReach ==
  ASSUME Side, NEW d, NEW x, FirstReaching(Val, Len(lv), d, x)
  PROVE  /\ Bought(x).den = lv[d].k
         /\ Bought(x).num = Total(Qty, d - 1) * lv[d].k + (x - Total(Val, d - 1))
<1> DEFINE m == Len(lv)
           K == lv[d].k
           w == [a \in DOMAIN lv |-> (Used(Val, a, x) * K) \div lv[a].k]
           v == [a \in 1 .. m |-> Qty[a] * K]
<1>0. m \in Nat /\ DOMAIN lv = 1 .. m /\ d \in 1 .. m
  BY DEF Side, FirstReaching
<1>1. /\ Amounts(Qty, m) /\ Amounts(Val, m)
      /\ \A a \in 1 .. m : /\ lv[a].k \in Nat \ {0} /\ Qty[a] = lv[a].q /\ Qty[a] \in Nat
                           /\ Val[a] = lv[a].k * lv[a].q
  BY SideAmounts
<1>2. /\ \A a \in 1 .. d - 1 : Used(Val, a, x) = Val[a]
      /\ Used(Val, d, x) = x - Total(Val, d - 1)
      /\ \A a \in d + 1 .. m : Used(Val, a, x) = 0
      /\ \A a \in 1 .. m : Used(Val, a, x) \in Nat /\ (Used(Val, a, x) > 0 <=> a <= d)
  BY <1>1, UsedToReach
<1>3. Max({a \in DOMAIN lv : Used(Val, a, x) > 0}) = d
  <2> DEFINE S == {a \in DOMAIN lv : Used(Val, a, x) > 0}
  <2>1. S = 1 .. d
    BY <1>0, <1>2
  <2> HIDE DEF S
  <2>2. Max(S) = d
    BY <1>0, <2>1 DEF Max
  <2> QED BY <2>2 DEF S
<1>4. Bought(x).den = K /\ Bought(x).num = SumFunctionOnSet(w, 1 .. m)
  BY <1>0, <1>3 DEF Bought
<1>5. \A a \in 1 .. m : w[a] = (Used(Val, a, x) * K) \div lv[a].k
  BY <1>0
<1>6. K \in Nat \ {0}
  BY <1>0, <1>1
<1>7. \A a \in 1 .. m : v[a] = Qty[a] * K
  OBVIOUS
<1> HIDE DEF m, w, v, K
<1>8. \A a \in 1 .. d - 1 : v[a] = w[a]
  <2> TAKE a \in 1 .. d - 1
  <2>1. a \in 1 .. m
    BY <1>0
  <2>2. w[a] = ((lv[a].k * Qty[a]) * K) \div lv[a].k /\ v[a] = Qty[a] * K
    BY <1>1, <1>2, <1>5, <1>7, <2>1
  <2>3. lv[a].k \in Nat \ {0} /\ Qty[a] \in Nat
    BY <1>1, <2>1
  <2>4. \A k, q, z \in Nat : (k * q) * z = (q * z) * k
    OBVIOUS
  <2>5. (lv[a].k * Qty[a]) * K = v[a] * lv[a].k /\ v[a] \in Nat
    BY <1>6, <2>2, <2>3, <2>4
  <2>6. (v[a] * lv[a].k) \div lv[a].k = v[a]
    BY <2>3, <2>5, ExactQuotient
  <2> QED BY <2>2, <2>5, <2>6
<1>9. \A a \in d + 1 .. m : w[a] = 0
  <2> TAKE a \in d + 1 .. m
  <2>1. a \in 1 .. m
    BY <1>0
  <2>2. w[a] = (0 * K) \div lv[a].k /\ lv[a].k \in Nat \ {0}
    BY <1>1, <1>2, <1>5, <2>1
  <2> QED BY <1>6, <2>2
<1>10. w[d] = x - Total(Val, d - 1)
  <2>1. Used(Val, d, x) \in Nat /\ w[d] = (Used(Val, d, x) * K) \div K
    BY <1>0, <1>2, <1>5 DEF K
  <2>2. (Used(Val, d, x) * K) \div K = Used(Val, d, x)
    BY <1>6, <2>1, ExactQuotient
  <2> QED BY <1>2, <2>1, <2>2
<1>11. \A a \in 1 .. m : w[a] \in Int
  <2> TAKE a \in 1 .. m
  <2>1. \A u \in Nat, z, k \in Nat \ {0} : (u * z) \div k \in Int
    OBVIOUS
  <2> QED BY <1>1, <1>2, <1>5, <1>6, <2>1
<1>12. \A a \in 1 .. m : v[a] \in Int
  BY <1>1, <1>6, <1>7
<1> DEFINE T == Running(w, m)
           U == Running(v, m)
           V == Running(Qty, m)
<1>13. AddsUp(T, w, m) /\ T[m] = Bought(x).num
  BY <1>0, <1>4, <1>11, RunningAddsUp DEF Running
<1>14. AddsUp(U, v, m)
  BY <1>0, <1>12, RunningAddsUp
<1>15. AddsUp(V, Qty, m) /\ V[d - 1] = Total(Qty, d - 1)
  <2>1. d - 1 \in 0 .. m
    BY <1>0
  <2> QED BY <1>1, <2>1, TotalsAddUp
<1> HIDE DEF T, U, V
<1>16. T[m] = U[d - 1] + w[d]
  <2>1. EndsAt(w, v, m, d)
    BY <1>0, <1>8, <1>9, <1>11 DEF EndsAt
  <2> QED BY <1>13, <1>14, <2>1, AddsUpTo
<1>17. \A a \in 1 .. m : Qty[a] \in Int /\ v[a] = Qty[a] * K
  BY <1>1, <1>7
<1>18. \A j \in 0 .. m : U[j] = V[j] * K
  <2>1. Scaled(v, Qty, K, m)
    BY <1>0, <1>6, <1>17 DEF Scaled
  <2> QED BY <1>14, <1>15, <2>1, AddsUpScaled
<1>19. U[d - 1] = Total(Qty, d - 1) * K
  BY <1>0, <1>15, <1>18
<1> QED BY <1>4, <1>10, <1>13, <1>16, <1>19 DEF K

-----------------------------------------------------------------------------
(* The inductive invariant.                                                *)

\* what a reader is called with
Asked ==
    /\ Side
    /\ op \in {"c", "v", "p"} /\ side \in {"ASK", "BID"}
    /\ Q \in Nat \ {0} /\ n \in Nat
    /\ lmt \in Nat \cup {NANPX}

\* the consolidated level for r, when it is level d that reaches it
EntryAt(d, r) ==
    LET k == lv[d].k
        N == Total(Qty, d) * k - (Total(Val, d) - r)
    IN  IF op = "c"
        THEN Quoted(Total(Val, d) - k * (Total(Qty, d) - r), r, [num |-> r, den |-> 1])
        ELSE Quoted(r * k, N, [num |-> N, den |-> k])

\* anything Entry may be
Quotes == {Quoted(a, b, [num |-> e, den |-> f]) : a, b, e, f \in Int}

\* book_ctops, book_vtops: what is walked is what the last level found and the
\* next one need
Consolidating ==
    /\ i \in 0 .. Len(lv)
    /\ c = Total(Val, i) /\ C = Total(Qty, i)
    /\ out \in Seq(Quotes) /\ Len(out) <= n
    /\ R = Len(out) * Q + Q
    /\ i > 0 => Total(Measure, i - 1) < R
    /\ Len(out) * Q <= Total(Measure, i)
    /\ \A x \in 1 .. Len(out) : \E d \in 1 .. Len(lv) :
          FirstReaching(Measure, Len(lv), d, x * Q) /\ out[x] = EntryAt(d, x * Q)
    /\ done => Len(out) = n \/ (i = Len(lv) /\ Total(Measure, i) < R)

\* book_pdo: all of the levels walked is taken, except of the last one what is
\* beyond Q
Filling ==
    /\ i \in 0 .. Len(lv)
    /\ out = <<>>
    /\ C = Portion(Total(Qty, i), Q)
    /\ R = Q - C
    /\ i > 0 => Total(Qty, i - 1) < Q
    /\ c = IF i = 0 THEN 0 ELSE Total(Val, i - 1) + lv[i].k * (C - Total(Qty, i - 1))
    /\ \A a \in 1 .. i : WithinLimit(lv[a].k)
    /\ yngt \in {lv[a].t : a \in 1 .. i} \cup {0} /\ \A a \in 1 .. i : lv[a].t <= yngt
    /\ oldt \in {lv[a].t : a \in 1 .. i} \cup {NATV} /\ \A a \in 1 .. i : lv[a].t >= oldt
    /\ done => R = 0 \/ i = Len(lv) \/ ~WithinLimit(lv[i + 1].k)

DepthInv ==
    /\ Asked
    /\ op \in {"c", "v"} => Consolidating
    /\ op = "p" => Filling

-----------------------------------------------------------------------------
(* What the invariant says of the results.                                 *)

LEMMA QuotedFields ==
  ASSUME NEW a, NEW b, NEW e
  PROVE  Quoted(a, b, e).p = [num |-> a, den |-> b] /\ Quoted(a, b, e).q = e
BY DEF Quoted

LEMMA QuotedPrice ==
  ASSUME NEW a, NEW b, NEW e
  PROVE  Quoted(a, b, e).px = quantize[<<a, b>>]
BY DEF Quoted

\* The price of a level consolidated to a quantity is what its units cost.
LEMMA EntryCosts ==
  ASSUME Side, op = "c", NEW d, NEW x, FirstReaching(Qty, Len(lv), d, x)
  PROVE  Equals(EntryAt(d, x).p, Cost(x), x)
<1> DEFINE A == Total(Qty, d - 1)
           B == Total(Val, d - 1)
           k == lv[d].k
           q == lv[d].q
<1>0. Len(lv) \in Nat /\ d \in 1 .. Len(lv) /\ d - 1 \in 0 .. Len(lv) /\ x \in Nat
  BY DEF Side, FirstReaching
<1>1. /\ Amounts(Qty, Len(lv)) /\ Amounts(Val, Len(lv)) /\ k \in Nat /\ q \in Nat
      /\ Qty[d] = q /\ Val[d] = k * q
  BY <1>0, SideAmounts
<1>2. A \in Nat /\ Total(Qty, d) = A + q
  BY <1>0, <1>1, Totals
<1>3. B \in Nat /\ Total(Val, d) = B + k * q
  BY <1>0, <1>1, Totals
<1>4. Cost(x) = B + k * (x - A)
  BY CostToReach
<1>5. EntryAt(d, x).p = [num |-> B + k * q - k * (A + q - x), den |-> x]
  <2>1. EntryAt(d, x) = Quoted(Total(Val, d) - k * (Total(Qty, d) - x), x, [num |-> x, den |-> 1])
    BY DEF EntryAt
  <2>2. EntryAt(d, x).p = [num |-> Total(Val, d) - k * (Total(Qty, d) - x), den |-> x]
    BY <2>1, QuotedFields
  <2> HIDE DEF A, B, k, q
  <2>3. Total(Val, d) - k * (Total(Qty, d) - x) = B + k * q - k * (A + q - x)
    BY <1>0, <1>1, <1>2, <1>3
  <2> QED BY <2>2, <2>3
<1> HIDE DEF A, B, k, q
<1>6. k * (A + q - x) = k * q + k * (A - x) /\ k * (A - x) = - (k * (x - A))
  BY <1>0, <1>1, <1>2
<1>7. k * (x - A) \in Int /\ k * q \in Int
  BY <1>0, <1>1, <1>2
<1>8. B + k * q - k * (A + q - x) = B + k * (x - A)
  BY <1>3, <1>6, <1>7
<1> QED BY <1>4, <1>5, <1>8 DEF Equals

\* A level consolidated to a value has what the value buys, for the value.
LEMMA EntryBuys ==
  ASSUME Side, op = "v", NEW d, NEW x, FirstReaching(Val, Len(lv), d, x)
  PROVE  /\ Equals(EntryAt(d, x).q, Bought(x).num, Bought(x).den)
         /\ Equals(EntryAt(d, x).p, x * Bought(x).den, Bought(x).num)
<1> DEFINE A == Total(Qty, d - 1)
           B == Total(Val, d - 1)
           k == lv[d].k
           q == lv[d].q
<1>0. Len(lv) \in Nat /\ d \in 1 .. Len(lv) /\ d - 1 \in 0 .. Len(lv) /\ x \in Nat
  BY DEF Side, FirstReaching
<1>1. /\ Amounts(Qty, Len(lv)) /\ Amounts(Val, Len(lv)) /\ k \in Nat /\ q \in Nat
      /\ Qty[d] = q /\ Val[d] = k * q
  BY <1>0, SideAmounts
<1>2. A \in Nat /\ Total(Qty, d) = A + q
  BY <1>0, <1>1, Totals
<1>3. B \in Nat /\ Total(Val, d) = B + k * q
  BY <1>0, <1>1, Totals
<1>4. Bought(x).den = k /\ Bought(x).num = A * k + (x - B)
  BY BoughtToReach
<1> DEFINE N == (A + q) * k - (B + k * q - x)
<1>5. op # "c"
  OBVIOUS
<1>6. EntryAt(d, x).p = [num |-> x * k, den |-> N] /\ EntryAt(d, x).q = [num |-> N, den |-> k]
  <2> DEFINE M == Total(Qty, d) * k - (Total(Val, d) - x)
  <2>1. EntryAt(d, x) = Quoted(x * k, M, [num |-> M, den |-> k])
    BY <1>5, Zenon DEF EntryAt
  <2>2. M = N
    <3> HIDE DEF A, B, k, q
    <3> QED BY <1>0, <1>1, <1>2, <1>3
  <2> HIDE DEF A, B, k, q, M, N
  <2> QED BY <2>1, <2>2, QuotedFields
<1>7. N = A * k + (x - B)
  <2> HIDE DEF A, B, k, q
  <2>1. (A + q) * k = A * k + k * q /\ A * k \in Int /\ k * q \in Int
    BY <1>1, <1>2
  <2> QED BY <1>0, <1>3, <2>1
<1>8. Bought(x).num = N
  BY <1>4, <1>7
<1> HIDE DEF A, B, k, q, N
<1> QED BY <1>4, <1>6, <1>8 DEF Equals

\* Every level is exact.
LEMMA ExactLevels ==
  ASSUME Asked, op \in {"c", "v"}, Consolidating, NEW x \in DOMAIN out
  PROVE  IF op = "c" THEN Equals(out[x].p, Cost(x * Q), x * Q)
         ELSE /\ Equals(out[x].q, Bought(x * Q).num, Bought(x * Q).den)
              /\ Equals(out[x].p, x * Q * Bought(x * Q).den, Bought(x * Q).num)
<1>0. Side
  BY DEF Asked
<1>1. x \in 1 .. Len(out)
  BY DEF Consolidating
<1>2. PICK d \in 1 .. Len(lv) :
         FirstReaching(Measure, Len(lv), d, x * Q) /\ out[x] = EntryAt(d, x * Q)
  BY <1>1 DEF Consolidating
<1> DEFINE y == x * Q
<1>3. FirstReaching(Measure, Len(lv), d, y) /\ out[x] = EntryAt(d, y)
  BY <1>2
<1> HIDE DEF y
<1>4. ASSUME op = "c" PROVE Equals(out[x].p, Cost(y), y)
  <2>1. FirstReaching(Qty, Len(lv), d, y)
    BY <1>3, <1>4 DEF Measure
  <2>2. Equals(EntryAt(d, y).p, Cost(y), y)
    BY <1>0, <1>4, <2>1, EntryCosts
  <2> QED BY <1>3, <2>2
<1>5. ASSUME op = "v"
      PROVE  /\ Equals(out[x].q, Bought(y).num, Bought(y).den)
             /\ Equals(out[x].p, y * Bought(y).den, Bought(y).num)
  <2>1. FirstReaching(Val, Len(lv), d, y)
    BY <1>3, <1>5 DEF Measure
  <2>2. /\ Equals(EntryAt(d, y).q, Bought(y).num, Bought(y).den)
        /\ Equals(EntryAt(d, y).p, y * Bought(y).den, Bought(y).num)
    BY <1>0, <1>5, <2>1, EntryBuys
  <2> QED BY <1>3, <2>2
<1> QED BY <1>4, <1>5 DEF y

\* The side has no depth for more levels than were found, and n are enough.
LEMMA NoLevelMissing ==
  ASSUME Asked, Consolidating, done
  PROVE  Len(out) = Min({n, Depths \div Q})
<1> DEFINE L == Len(out)
           D == Total(Measure, Len(lv))
<1>0. Side /\ Q \in Nat \ {0} /\ n \in Nat
  BY DEF Asked
<1>1. /\ L \in Nat /\ L <= n /\ L * Q <= Total(Measure, i) /\ i \in 0 .. Len(lv)
      /\ L = n \/ (i = Len(lv) /\ Total(Measure, i) < L * Q + Q)
  BY DEF Consolidating
<1>2. Len(lv) \in Nat /\ Amounts(Measure, Len(lv))
  BY <1>0, SideAmounts DEF Side
<1>3. D \in Nat /\ Total(Measure, i) \in Nat /\ Total(Measure, i) <= D
  <2>1. Len(lv) \in 0 .. Len(lv) /\ (i = Len(lv) \/ i < Len(lv))
    BY <1>1, <1>2
  <2>2. /\ \A a \in 0 .. Len(lv) : Total(Measure, a) \in Nat
        /\ \A a, b \in 0 .. Len(lv) : a < b => Total(Measure, a) < Total(Measure, b)
    BY <1>2, Totals
  <2>3. Total(Measure, i) \in Nat /\ D \in Nat
    BY <1>1, <2>1, <2>2
  <2>4. i < Len(lv) => Total(Measure, i) < Total(Measure, Len(lv))
    BY <1>1, <2>1, <2>2
  <2> HIDE DEF L
  <2> QED BY <2>1, <2>3, <2>4
<1>4. L = n \/ D < L * Q + Q
  BY <1>1
<1> HIDE DEF L, D
<1>5. L * Q <= D
  <2>1. L * Q \in Int
    BY <1>0, <1>1
  <2> QED BY <1>1, <1>3, <2>1
<1>6. D \div Q \in Nat /\ L <= D \div Q /\ (D < L * Q + Q => D \div Q = L)
  BY <1>0, <1>1, <1>3, <1>5, Quotient
<1>7. Min({n, D \div Q}) = IF n <= D \div Q THEN n ELSE D \div Q
  BY <1>0, <1>6, LesserOf
<1>8. L = Min({n, D \div Q})
  BY <1>0, <1>1, <1>4, <1>6, <1>7
<1> QED BY <1>8 DEF L, D, Depths

\* The prices are the ones Readers gives.
LEMMA SummaryAgrees ==
  ASSUME Asked, op \in {"c", "v"}, Consolidating, Len(out) = Min({n, Depths \div Q})
  PROVE  Summary
<1> DEFINE m == Len(lv)
           l == [a \in DOMAIN lv |-> [p |-> lv[a].k, q |-> lv[a].q]]
<1>0. Side /\ m \in Nat /\ DOMAIN lv = 1 .. m /\ Q \in Nat \ {0}
  BY DEF Asked, Side
<1>1. DOMAIN l = 1 .. m /\ \A a \in 1 .. m : l[a].p = lv[a].k /\ l[a].q = lv[a].q
  BY <1>0
<1>2. Len(l) = m
  <2>1. l \in [1 .. m -> [p : {lv[a].k : a \in 1 .. m}, q : {lv[a].q : a \in 1 .. m}]]
    BY <1>0
  <2> QED BY <1>0, <2>1
<1>3. /\ [a \in DOMAIN l |-> l[a].q] = Qty
      /\ [a \in DOMAIN l |-> l[a].p * l[a].q] = Val
  <2>1. [a \in 1 .. m |-> l[a].q] = [a \in 1 .. m |-> lv[a].q]
    BY <1>1
  <2>2. [a \in 1 .. m |-> l[a].p * l[a].q] = [a \in 1 .. m |-> lv[a].k * lv[a].q]
    BY <1>1
  <2> QED BY <1>0, <1>1, <2>1, <2>2 DEF Qty, Val
<1> HIDE DEF l
<1>4. \A j : Base(l, j) = Total(Qty, j) /\ Term(l, j) = Total(Val, j)
  BY <1>3 DEF Base, Term, Total
<1>5. \A x \in DOMAIN out : x \in 1 .. Len(out) /\ x \in 1 .. Min({n, Total(Measure, m) \div Q})
  BY DEF Consolidating, Depths
<1>6. Amounts(Qty, m) /\ Amounts(Val, m)
  BY <1>0, SideAmounts
<1>7. ASSUME NEW x \in DOMAIN out
      PROVE  \E d \in 1 .. m : FirstReaching(Measure, m, d, x * Q) /\ out[x] = EntryAt(d, x * Q)
  BY <1>5 DEF Consolidating
<1> HIDE DEF m
<1>8. ASSUME op = "c", NEW x \in DOMAIN out
      PROVE  out[x].px = book_ctops(l, Q, n)[x].p
  <2> DEFINE y == x * Q
             j == Min({a \in DOMAIN l : Base(l, a) >= y})
  <2>1. PICK d \in 1 .. m : FirstReaching(Measure, m, d, y) /\ out[x] = EntryAt(d, y)
    BY <1>7
  <2>2. book_ctops(l, Q, n)[x].p = quantize[<<Term(l, j) - l[j].p * (Base(l, j) - y), y>>]
    <3>1. x \in 1 .. Min({n, Base(l, Len(l)) \div Q})
      BY <1>2, <1>4, <1>5, <1>8 DEF Measure
    <3> QED BY <3>1 DEF book_ctops
  <2>3. j = d
    <3> HIDE DEF y
    <3>1. {a \in DOMAIN l : Base(l, a) >= y} = {a \in 1 .. m : Total(Qty, a) >= y}
      BY <1>1, <1>4
    <3>2. FirstReaching(Qty, m, d, y)
      BY <1>8, <2>1 DEF Measure
    <3>3. Min({a \in 1 .. m : Total(Qty, a) >= y}) = d
      BY <1>6, <3>2, FirstIsLeast
    <3> QED BY <3>1, <3>3
  <2> HIDE DEF j, y
  <2>4. l[d].p = lv[d].k
    BY <1>1
  <2>5. book_ctops(l, Q, n)[x].p = quantize[<<Total(Val, d) - lv[d].k * (Total(Qty, d) - y), y>>]
    BY <1>4, <2>2, <2>3, <2>4
  <2>6. EntryAt(d, y) = Quoted(Total(Val, d) - lv[d].k * (Total(Qty, d) - y), y, [num |-> y, den |-> 1])
    BY <1>8 DEF EntryAt
  <2>7. EntryAt(d, y).px = quantize[<<Total(Val, d) - lv[d].k * (Total(Qty, d) - y), y>>]
    BY <2>6, QuotedPrice, Zenon
  <2> QED BY <2>1, <2>5, <2>7, Zenon
<1>9. ASSUME op = "v", NEW x \in DOMAIN out
      PROVE  out[x].px = book_vtops(l, Q, n)[x].p
  <2> DEFINE y == x * Q
             j == Min({a \in DOMAIN l : Term(l, a) >= y})
             M(a) == Base(l, a) * l[a].p - (Term(l, a) - y)
             N == Total(Qty, j) * lv[j].k - (Total(Val, j) - y)
  <2>1. PICK d \in 1 .. m : FirstReaching(Measure, m, d, y) /\ out[x] = EntryAt(d, y)
    BY <1>7
  <2>2. book_vtops(l, Q, n)[x].p = quantize[<<y * l[j].p, M(j)>>]
    <3>1. x \in 1 .. Min({n, Term(l, Len(l)) \div Q})
      BY <1>2, <1>4, <1>5, <1>9 DEF Measure
    <3> QED BY <3>1 DEF book_vtops
  <2>3. j = d
    <3> HIDE DEF y
    <3>1. {a \in DOMAIN l : Term(l, a) >= y} = {a \in 1 .. m : Total(Val, a) >= y}
      BY <1>1, <1>4
    <3>2. FirstReaching(Val, m, d, y)
      BY <1>9, <2>1 DEF Measure
    <3>3. Min({a \in 1 .. m : Total(Val, a) >= y}) = d
      BY <1>6, <3>2, FirstIsLeast
    <3> QED BY <3>1, <3>3
  <2> HIDE DEF j, y
  <2>4. l[j].p = lv[j].k
    BY <1>1, <2>3
  <2>5. M(j) = N
    BY <1>4, <2>4
  <2>6. book_vtops(l, Q, n)[x].p = quantize[<<y * lv[j].k, N>>]
    <3> HIDE DEF M, N
    <3> QED BY <2>2, <2>4, <2>5
  <2>7. op # "c"
    BY <1>9
  <2>8. EntryAt(j, y) = Quoted(y * lv[j].k, N, [num |-> N, den |-> lv[j].k])
    BY <2>7, Zenon DEF EntryAt
  <2> HIDE DEF M, N
  <2>9. EntryAt(j, y).px = quantize[<<y * lv[j].k, N>>]
    BY <2>8, QuotedPrice, Zenon
  <2> QED BY <2>1, <2>3, <2>6, <2>9, Zenon
<1> QED BY <1>8, <1>9 DEF Summary, l

LEMMA ExactFromInv ==
  ASSUME DepthInv
  PROVE  ConsolidatedExactly
<1> SUFFICES ASSUME op \in {"c", "v"}
             PROVE  /\ \A x \in DOMAIN out :
                          IF op = "c" THEN Equals(out[x].p, Cost(x * Q), x * Q)
                          ELSE LET b == Bought(x * Q)
                               IN  /\ Equals(out[x].q, b.num, b.den)
                                   /\ Equals(out[x].p, x * Q * b.den, b.num)
                    /\ done => Len(out) = Min({n, Depths \div Q}) /\ Summary
  BY DEF ConsolidatedExactly
<1>1. Asked /\ Consolidating
  BY DEF DepthInv
<1>2. ASSUME NEW x \in DOMAIN out
      PROVE  IF op = "c" THEN Equals(out[x].p, Cost(x * Q), x * Q)
             ELSE /\ Equals(out[x].q, Bought(x * Q).num, Bought(x * Q).den)
                  /\ Equals(out[x].p, x * Q * Bought(x * Q).den, Bought(x * Q).num)
  BY <1>1, ExactLevels
<1>3. done => Len(out) = Min({n, Depths \div Q})
  BY <1>1, NoLevelMissing
<1>4. done => Summary
  BY <1>1, <1>3, SummaryAgrees
<1> QED BY <1>2, <1>3, <1>4

\* As the levels are in order, those within the limit are the first ones.
LEMMA LimitCuts ==
  ASSUME Asked
  PROVE  \E m \in 0 .. Len(lv) : /\ {a \in DOMAIN lv : WithinLimit(lv[a].k)} = 1 .. m
                                 /\ Cardinality(1 .. m) = m
<1> DEFINE W == {a \in 1 .. Len(lv) : WithinLimit(lv[a].k)}
           B == {a \in 1 .. Len(lv) : ~WithinLimit(lv[a].k)}
<1>0. /\ Len(lv) \in Nat /\ DOMAIN lv = 1 .. Len(lv) /\ Ordered(lv)
      /\ side \in {"ASK", "BID"} /\ lmt \in Nat \cup {NANPX}
      /\ \A a \in 1 .. Len(lv) : lv[a].k \in Nat
  BY SideAmounts DEF Asked, Side
<1>1. \A m \in 0 .. Len(lv) : Cardinality(1 .. m) = m
  BY <1>0, FS_Interval
<1>2. CASE B = {}
  <2>1. W = 1 .. Len(lv) /\ Len(lv) \in 0 .. Len(lv)
    BY <1>0, <1>2
  <2> QED BY <1>0, <1>1, <2>1
<1>3. CASE B # {}
  <2> DEFINE u == Min(B)
  <2>1. u \in B /\ \A y \in B : u <= y
    <3>1. PICK b \in B : TRUE
      BY <1>3
    <3>2. B \in SUBSET Nat
      BY <1>0
    <3> HIDE DEF B
    <3> QED BY <3>1, <3>2, LeastOf
  <2> HIDE DEF u
  <2>2. u \in 1 .. Len(lv) /\ ~WithinLimit(lv[u].k)
    BY <2>1
  <2>3. ASSUME NEW a \in 1 .. Len(lv), a < u PROVE WithinLimit(lv[a].k)
    <3>1. ~(u <= a)
      BY <1>0, <2>2, <2>3
    <3> QED BY <2>1, <2>3, <3>1
  <2>4. ASSUME NEW a \in 1 .. Len(lv), u < a PROVE ~WithinLimit(lv[a].k)
    <3>1. IF side = "ASK" THEN lv[u].k < lv[a].k ELSE lv[u].k > lv[a].k
      BY <1>0, <2>2, <2>4 DEF Ordered
    <3>2. lv[u].k \in Nat /\ lv[a].k \in Nat
      BY <1>0, <2>2
    <3>3. lmt # NANPX /\ lmt \in Nat
      BY <1>0, <2>2 DEF WithinLimit
    <3> QED BY <1>0, <2>2, <3>1, <3>2, <3>3 DEF WithinLimit
  <2>5. W = 1 .. (u - 1)
    <3>1. ASSUME NEW a \in W PROVE a \in 1 .. (u - 1)
      <4>1. a \in 1 .. Len(lv) /\ a # u /\ ~(u < a)
        BY <2>2, <2>4
      <4> QED BY <1>0, <2>2, <4>1
    <3>2. ASSUME NEW a \in 1 .. (u - 1) PROVE a \in W
      <4>1. a \in 1 .. Len(lv) /\ a < u
        BY <1>0, <2>2
      <4> QED BY <2>3, <4>1
    <3> HIDE DEF W
    <3> QED BY <3>1, <3>2
  <2>6. u - 1 \in 0 .. Len(lv)
    BY <1>0, <2>2
  <2> QED BY <1>0, <1>1, <2>5, <2>6
<1> QED BY <1>2, <1>3

\* No units use no level and cost nothing.
LEMMA CostOfNothing ==
  ASSUME Side
  PROVE  Cost(0) = 0 /\ \A a \in 1 .. Len(lv) : ~(Used(Qty, a, 0) > 0)
<1> DEFINE m == Len(lv)
           w == [a \in DOMAIN lv |-> lv[a].k * Used(Qty, a, 0)]
<1>0. m \in Nat /\ DOMAIN lv = 1 .. m
  BY DEF Side
<1>1. Amounts(Qty, m) /\ Amounts(Val, m) /\ \A a \in 1 .. m : lv[a].k \in Nat
  BY SideAmounts
<1>2. \A a \in 1 .. m : Used(Qty, a, 0) = 0
  <2> TAKE a \in 1 .. m
  <2>1. a - 1 \in 0 .. m
    BY <1>0
  <2>2. Total(Qty, a - 1) \in Nat
    BY <1>1, <2>1, Totals
  <2>3. 0 - Total(Qty, a - 1) <= 0
    BY <2>2
  <2> QED BY <2>3 DEF Used
<1>3. \A a \in 1 .. m : w[a] = 0
  BY <1>0, <1>1, <1>2
<1>4. Cost(0) = SumFunctionOnSet(w, 1 .. m)
  BY <1>0 DEF Cost
<1> HIDE DEF w, m
<1>5. CASE m = 0
  <2>1. 1 .. m = {} /\ IsFiniteSet({}) /\ \A a \in {} : w[a] \in Int
    BY <1>5, FS_EmptySet
  <2>2. SumFunctionOnSet(w, {}) = 0
    BY <2>1, SumStep
  <2> QED BY <1>2, <1>4, <2>1, <2>2 DEF m
<1>6. CASE m # 0
  <2> DEFINE T == Running(w, m)
  <2>1. EndsAt(w, w, m, 1)
    BY <1>0, <1>3, <1>6 DEF EndsAt
  <2>2. AddsUp(T, w, m) /\ T[m] = Cost(0)
    BY <1>0, <1>3, <1>4, RunningAddsUp DEF Running
  <2> HIDE DEF T
  <2>3. T[m] = T[1 - 1] + w[1]
    BY <2>1, <2>2, AddsUpTo
  <2>4. T[0] = 0 /\ w[1] = 0
    BY <1>0, <1>3, <1>6, <2>2 DEF AddsUp
  <2>5. Cost(0) = 0
    BY <2>2, <2>3, <2>4
  <2> QED BY <1>2, <2>5 DEF m
<1> QED BY <1>5, <1>6

\* What is filled costs what its units do, and uses the levels walked.
LEMMA FilledSoFar ==
  ASSUME Asked, Filling
  PROVE  /\ c = Cost(C)
         /\ {a \in DOMAIN lv : Used(Qty, a, C) > 0} = 1 .. i
<1> DEFINE m == Len(lv)
<1>0. Side /\ m \in Nat /\ DOMAIN lv = 1 .. m /\ Q \in Nat \ {0} /\ i \in 0 .. m
  BY Zenon DEF Asked, Side, Filling
<1>1. Amounts(Qty, m)
  BY <1>0, SideAmounts
<1>2. /\ Total(Qty, 0) = 0 /\ \A a \in 0 .. m : Total(Qty, a) \in Nat
      /\ \A a, b \in 0 .. m : a < b => Total(Qty, a) < Total(Qty, b)
  BY <1>1, Totals
<1>3. /\ C = Portion(Total(Qty, i), Q)
      /\ i > 0 => Total(Qty, i - 1) < Q
      /\ c = IF i = 0 THEN 0 ELSE Total(Val, i - 1) + lv[i].k * (C - Total(Qty, i - 1))
  BY DEF Filling
<1> HIDE DEF m
<1>4. CASE i = 0
  <2>1. C = 0
    BY <1>0, <1>2, <1>3, <1>4 DEF Portion
  <2>2. 1 .. i = {} /\ c = 0
    BY <1>3, <1>4
  <2> QED BY <1>0, <2>1, <2>2, CostOfNothing DEF m
<1>5. CASE i > 0
  <2>1. i \in 1 .. m /\ i - 1 \in 0 .. m /\ i - 1 < i
    BY <1>0, <1>5
  <2>2. Total(Qty, i - 1) < Total(Qty, i) /\ Total(Qty, i) \in Nat /\ Total(Qty, i - 1) \in Nat
    BY <1>0, <1>2, <2>1
  <2>3. C \in Nat /\ Total(Qty, i - 1) < C /\ C <= Total(Qty, i)
    BY <1>0, <1>3, <1>5, <2>2 DEF Portion
  <2>4. FirstReaching(Qty, m, i, C)
    BY <2>1, <2>3 DEF FirstReaching
  <2>5. Cost(C) = Total(Val, i - 1) + lv[i].k * (C - Total(Qty, i - 1))
    BY <1>0, <2>4, CostToReach DEF m
  <2>6. \A a \in 1 .. m : Used(Qty, a, C) > 0 <=> a <= i
    BY <1>1, <2>4, UsedToReach
  <2>7. {a \in DOMAIN lv : Used(Qty, a, C) > 0} = 1 .. i
    BY <1>0, <2>1, <2>6
  <2>8. c = Total(Val, i - 1) + lv[i].k * (C - Total(Qty, i - 1))
    BY <1>0, <1>3, <1>5
  <2> QED BY <2>5, <2>7, <2>8
<1> QED BY <1>0, <1>4, <1>5

LEMMA FilledFromInv ==
  ASSUME DepthInv
  PROVE  FilledWithinLimit
<1> DEFINE W == {a \in DOMAIN lv : WithinLimit(lv[a].k)}
           m == Cardinality(W)
           base == Min({Q, Total(Qty, m)})
           hit == {lv[a].t : a \in {b \in DOMAIN lv : Used(Qty, b, base) > 0}}
<1> SUFFICES ASSUME op = "p", done
             PROVE  C = base /\ c = Cost(base) /\ yngt = Max(hit \cup {0})
                    /\ oldt = Min(hit \cup {NATV})
  BY DEF FilledWithinLimit
<1>0. Asked /\ Filling
  BY DEF DepthInv
<1>1. Side /\ Len(lv) \in Nat /\ DOMAIN lv = 1 .. Len(lv) /\ Q \in Nat \ {0} /\ i \in 0 .. Len(lv)
  BY <1>0, Zenon DEF Asked, Side, Filling
<1>2. PICK w \in 0 .. Len(lv) : W = 1 .. w /\ Cardinality(1 .. w) = w
  BY <1>0, LimitCuts
<1>3. m = w
  BY <1>2
<1>4. \A a \in 1 .. i : WithinLimit(lv[a].k)
  BY <1>0 DEF Filling
<1>a. R = 0 \/ i = Len(lv) \/ ~WithinLimit(lv[i + 1].k)
  BY <1>0 DEF Filling
<1>b. R = Q - C /\ C = IF Total(Qty, i) <= Q THEN Total(Qty, i) ELSE Q
  BY <1>0 DEF Filling, Portion
<1>c. Len(lv) \in Nat /\ i \in Nat /\ w \in Nat /\ i <= Len(lv) /\ w <= Len(lv) /\ Q \in Nat \ {0}
  BY <1>1
<1>5. i <= w
  <2>1. CASE i = 0
    BY <1>2, <2>1
  <2>2. CASE i > 0
    <3>1. i \in 1 .. i /\ i \in DOMAIN lv
      BY <1>1, <2>2
    <3>2. i \in W
      BY <1>4, <3>1
    <3> QED BY <1>1, <1>2, <3>2
  <2> QED BY <1>1, <2>1, <2>2
<1>6. R = 0 \/ i = w
  <2> SUFFICES ASSUME R # 0, i # Len(lv) PROVE i = w
    BY <1>c, <1>5
  <2>1. ~WithinLimit(lv[i + 1].k)
    BY <1>a
  <2>2. i + 1 \notin 1 .. w
    <3>1. i + 1 \notin W
      BY <2>1
    <3> HIDE DEF W
    <3> QED BY <1>2, <3>1
  <2> QED BY <1>c, <1>5, <2>2
<1> HIDE DEF W, m, base, hit
<1>7. Total(Qty, i) \in Nat /\ Total(Qty, w) \in Nat /\ Total(Qty, i) <= Total(Qty, w)
  <2>1. Amounts(Qty, Len(lv))
    BY <1>1, SideAmounts
  <2>2. /\ \A a \in 0 .. Len(lv) : Total(Qty, a) \in Nat
        /\ \A a, b \in 0 .. Len(lv) : a < b => Total(Qty, a) < Total(Qty, b)
    BY <2>1, Totals
  <2>3. i = w \/ i < w
    BY <1>1, <1>2, <1>5
  <2> QED BY <1>1, <1>2, <2>2, <2>3
<1>8. C = base
  <2>1. base = IF Q <= Total(Qty, w) THEN Q ELSE Total(Qty, w)
    BY <1>1, <1>3, <1>7, LesserOf DEF base
  <2>2. C \in Nat
    BY <1>b, <1>c, <1>7
  <2>3. CASE i = w
    BY <1>b, <1>c, <1>7, <2>1, <2>3
  <2>4. CASE R = 0
    <3>1. C = Q
      BY <1>b, <1>c, <2>2, <2>4
    <3>2. Q <= Total(Qty, i)
      BY <1>b, <1>c, <1>7, <3>1
    <3> QED BY <1>c, <1>7, <2>1, <3>1, <3>2
  <2> QED BY <1>6, <2>3, <2>4
<1>9. c = Cost(base) /\ hit = {lv[a].t : a \in 1 .. i}
  BY <1>0, <1>8, FilledSoFar DEF hit
<1>10. \A t \in hit : t \in Nat
  <2>1. \A a \in 1 .. Len(lv) : lv[a].t \in Nat
    BY <1>1, SideAmounts
  <2>2. \A a \in 1 .. i : a \in 1 .. Len(lv)
    BY <1>1
  <2> QED BY <1>9, <2>1, <2>2
<1>11. NATV \in Nat
  BY DepthAssumption
<1>12. /\ yngt \in hit \cup {0} /\ \A t \in hit : t <= yngt
       /\ oldt \in hit \cup {NATV} /\ \A t \in hit : t >= oldt
  BY <1>0, <1>9 DEF Filling
<1>13. yngt = Max(hit \cup {0})
  <2> DEFINE S == hit \cup {0}
  <2>1. (\A t \in S : t \in Nat) /\ yngt \in S /\ \A t \in S : yngt >= t
    BY <1>10, <1>12
  <2> HIDE DEF S
  <2>2. \A t \in S : (\A s \in S : t >= s) => t = yngt
    BY <2>1
  <2>3. Max(S) = yngt
    BY <2>1, <2>2 DEF Max
  <2> QED BY <2>3 DEF S
<1>14. oldt = Min(hit \cup {NATV})
  <2> DEFINE S == hit \cup {NATV}
  <2>1. (\A t \in S : t \in Nat) /\ oldt \in S /\ \A t \in S : oldt <= t
    <3>1. \A t \in hit : t < NATV
      <4>1. \A a \in 1 .. Len(lv) : lv[a].t < NATV
        BY <1>1, SideAmounts
      <4>2. \A a \in 1 .. i : a \in 1 .. Len(lv)
        BY <1>1
      <4> QED BY <1>9, <4>1, <4>2
    <3> QED BY <1>10, <1>11, <1>12, <3>1
  <2> HIDE DEF S
  <2>2. \A t \in S : (\A s \in S : t <= s) => t = oldt
    BY <2>1
  <2>3. Min(S) = oldt
    BY <2>1, <2>2 DEF Min
  <2> QED BY <2>3 DEF S
<1> QED BY <1>8, <1>9, <1>13, <1>14

-----------------------------------------------------------------------------
(* Rounded prices.                                                         *)

\* the prices of the first d levels are between lo and hi
Between(d, lo, hi) ==
    d \in 0 .. Len(lv) /\ lo \in Nat /\ hi \in Nat /\ \A a \in 1 .. d : lo <= lv[a].k /\ lv[a].k <= hi

\* What they are worth is between that many times their units.
LEMMA WorthBetween ==
  ASSUME Side, NEW d, NEW lo, NEW hi, Between(d, lo, hi)
  PROVE  \A a \in 0 .. d : /\ lo * Total(Qty, a) <= Total(Val, a)
                           /\ Total(Val, a) <= hi * Total(Qty, a)
<1> DEFINE A(a) == Total(Qty, a)
           B(a) == Total(Val, a)
           S == {a \in 0 .. d : ~(lo * A(a) <= B(a) /\ B(a) <= hi * A(a))}
<1> SUFFICES ASSUME S # {} PROVE FALSE
  OBVIOUS
<1>0. /\ Len(lv) \in Nat /\ d \in 0 .. Len(lv) /\ d \in Nat /\ lo \in Nat /\ hi \in Nat
      /\ \A a \in 1 .. d : lo <= lv[a].k /\ lv[a].k <= hi
  BY DEF Side, Between
<1>1. /\ Amounts(Qty, Len(lv)) /\ Amounts(Val, Len(lv))
      /\ \A a \in 1 .. Len(lv) : /\ lv[a].k \in Nat /\ lv[a].q \in Nat
                                 /\ Qty[a] = lv[a].q /\ Val[a] = lv[a].k * lv[a].q
  BY SideAmounts
<1>2. /\ A(0) = 0 /\ \A a \in 0 .. Len(lv) : A(a) \in Nat
      /\ \A a \in 1 .. Len(lv) : A(a) = A(a - 1) + Qty[a]
  BY <1>1, Totals
<1>3. /\ B(0) = 0 /\ \A a \in 0 .. Len(lv) : B(a) \in Nat
      /\ \A a \in 1 .. Len(lv) : B(a) = B(a - 1) + Val[a]
  BY <1>1, Totals
<1> DEFINE b == Min(S)
<1>4. b \in S /\ \A y \in S : b <= y
  <2>1. PICK s \in S : TRUE
    OBVIOUS
  <2>2. S \in SUBSET Nat
    BY <1>0
  <2> HIDE DEF S
  <2> QED BY <2>1, <2>2, LeastOf
<1>5. b \in 0 .. d /\ ~(lo * A(b) <= B(b) /\ B(b) <= hi * A(b))
  BY <1>4
<1> HIDE DEF b, A, B
<1>6. b # 0
  <2> SUFFICES ASSUME b = 0 PROVE FALSE
    OBVIOUS
  <2>1. lo * 0 = 0 /\ hi * 0 = 0
    BY <1>0
  <2> QED BY <1>2, <1>3, <1>5, <2>1
<1>7. b \in 1 .. d /\ b \in 1 .. Len(lv) /\ b - 1 \in 0 .. d /\ b - 1 \in 0 .. Len(lv) /\ ~(b <= b - 1)
  BY <1>0, <1>5, <1>6
<1>8. b - 1 \notin S
  <2> HIDE DEF S
  <2> QED BY <1>4, <1>7
<1>9. lo * A(b - 1) <= B(b - 1) /\ B(b - 1) <= hi * A(b - 1)
  BY <1>7, <1>8
<1> HIDE DEF S
<1> DEFINE k == lv[b].k
           q == lv[b].q
           x == A(b - 1)
           y == B(b - 1)
<1>10. /\ k \in Nat /\ q \in Nat /\ x \in Nat /\ y \in Nat /\ lo <= k /\ k <= hi
       /\ A(b) = x + q /\ B(b) = y + k * q
  BY <1>0, <1>1, <1>2, <1>3, <1>7
<1>11. lo * x <= y /\ y <= hi * x
  BY <1>9
<1> HIDE DEF k, q, x, y
<1>12. lo * q <= k * q /\ k * q <= hi * q
  <2>1. lo \in Int /\ hi \in Int /\ k \in Int /\ q \in Nat /\ lo <= k /\ k <= hi
    BY <1>0, <1>10
  <2>2. lo * q <= k * q
    BY <2>1, Multiples
  <2>3. k * q <= hi * q
    BY <2>1, Multiples
  <2> QED BY <2>2, <2>3
<1>13. lo * (x + q) = lo * x + lo * q /\ hi * (x + q) = hi * x + hi * q
  BY <1>0, <1>10, Distribute
<1>14. lo * x \in Nat /\ lo * q \in Nat /\ hi * x \in Nat /\ hi * q \in Nat /\ k * q \in Nat
  BY <1>0, <1>10
<1>15. lo * (x + q) <= y + k * q /\ y + k * q <= hi * (x + q)
  BY <1>10, <1>11, <1>12, <1>13, <1>14
<1> QED BY <1>5, <1>10, <1>15

\* A units are worth B, and more are to be had for k each
Worth(A, B, k, lo, hi) ==
    /\ A \in Nat /\ B \in Nat /\ k \in Nat /\ lo \in Nat /\ hi \in Nat
    /\ lo * A <= B /\ B <= hi * A /\ lo <= k /\ k <= hi

\* The average price of y units, or of value y, is between lo and hi.
LEMMA AverageBetween ==
  ASSUME NEW A, NEW B, NEW k, NEW lo, NEW hi, Worth(A, B, k, lo, hi), NEW y \in Nat
  PROVE  /\ A < y => /\ B + k * (y - A) \in Nat
                     /\ lo * y <= B + k * (y - A) /\ B + k * (y - A) <= hi * y
         /\ B < y => /\ A * k + (y - B) \in Nat \ {0} /\ y * k \in Nat
                     /\ lo * (A * k + (y - B)) <= y * k /\ y * k <= hi * (A * k + (y - B))
<1>a. /\ A \in Nat /\ B \in Nat /\ k \in Nat /\ lo \in Nat /\ hi \in Nat
      /\ lo * A <= B /\ B <= hi * A /\ lo <= k /\ k <= hi
  BY DEF Worth
<1> USE <1>a
<1>0. lo * A \in Nat /\ hi * A \in Nat
  OBVIOUS
<1>1. ASSUME A < y
      PROVE  /\ B + k * (y - A) \in Nat
             /\ lo * y <= B + k * (y - A) /\ B + k * (y - A) <= hi * y
  <2>1. PICK e \in Nat : y = A + e /\ y - A = e
    <3>1. y - A \in Nat /\ y = A + (y - A)
      BY <1>1
    <3> QED BY <3>1
  <2>2. lo * e <= k * e /\ k * e <= hi * e
    BY Multiples
  <2>3. lo * y = lo * A + lo * e /\ hi * y = hi * A + hi * e
    BY <2>1, Distribute
  <2>4. lo * e \in Nat /\ hi * e \in Nat /\ k * e \in Nat
    OBVIOUS
  <2>5. lo * y <= B + k * e /\ B + k * e <= hi * y
    BY <1>0, <2>2, <2>3, <2>4
  <2> QED BY <2>1, <2>4, <2>5
<1>2. ASSUME B < y
      PROVE  /\ A * k + (y - B) \in Nat \ {0} /\ y * k \in Nat
             /\ lo * (A * k + (y - B)) <= y * k /\ y * k <= hi * (A * k + (y - B))
  <2>1. PICK e \in Nat \ {0} : y = B + e /\ y - B = e
    <3>1. y - B \in Nat \ {0} /\ y = B + (y - B)
      BY <1>2
    <3> QED BY <3>1
  <2>2. lo * e <= k * e /\ k * e <= hi * e
    BY Multiples
  <2>3. (lo * A) * k <= B * k /\ B * k <= (hi * A) * k
    BY <1>0, Multiples
  <2>4. A * k \in Nat /\ B * k \in Nat /\ lo * e \in Nat /\ hi * e \in Nat /\ k * e \in Nat
    OBVIOUS
  <2>5. lo * (A * k + e) = lo * (A * k) + lo * e /\ hi * (A * k + e) = hi * (A * k) + hi * e
    BY <2>4, Distribute
  <2>6. lo * (A * k) = (lo * A) * k /\ hi * (A * k) = (hi * A) * k
    OBVIOUS
  <2>7. y * k = B * k + k * e
    <3>1. (B + e) * k = B * k + e * k
      BY Distribute
    <3>2. e * k = k * e
      OBVIOUS
    <3> QED BY <2>1, <3>1, <3>2
  <2>8. (lo * A) * k \in Nat /\ (hi * A) * k \in Nat
    OBVIOUS
  <2>9. lo * (A * k + e) <= y * k
    BY <2>2, <2>3, <2>4, <2>5, <2>6, <2>7, <2>8
  <2>10. y * k <= hi * (A * k + e)
    BY <2>2, <2>3, <2>4, <2>5, <2>6, <2>7, <2>8
  <2>11. A * k + e \in Nat \ {0} /\ y * k \in Nat
    BY <2>4
  <2> QED BY <2>1, <2>9, <2>10, <2>11
<1> QED BY <1>1, <1>2

\* quantizepx of an entry's price
RoundedBetween(e, lo, hi) ==
    /\ e.px \in Nat /\ e.p.num \in Nat /\ e.p.den \in Nat /\ lo <= e.px /\ e.px <= hi
    /\ 9 * (e.px * e.p.den - e.p.num) < 5 * e.p.den
    /\ 9 * (e.p.num - e.px * e.p.den) < 5 * e.p.den

LEMMA QuotedRounds ==
  ASSUME NEW a \in Nat, NEW b \in Nat \ {0}, NEW e, NEW lo \in Nat, NEW hi \in Nat,
         lo * b <= a, a <= hi * b, hi < 10000
  PROVE  RoundedBetween(Quoted(a, b, e), lo, hi)
<1> DEFINE z == quantize[<<a, b>>]
<1>1. /\ z \in Nat /\ lo <= z /\ z <= hi
      /\ 9 * (z * b - a) < 5 * b /\ 9 * (a - z * b) < 5 * b
  BY QuantizeRounds
<1>2. Quoted(a, b, e).px = z
  BY DEF Quoted
<1>3. Quoted(a, b, e).p = [num |-> a, den |-> b]
  BY QuotedFields
<1> HIDE DEF z
<1>4. Quoted(a, b, e).p.num = a /\ Quoted(a, b, e).p.den = b
  BY <1>3
<1> QED BY <1>1, <1>2, <1>4 DEF RoundedBetween

LEMMA EntryRounds ==
  ASSUME Side, op \in {"c", "v"}, NEW d, NEW y, FirstReaching(Measure, Len(lv), d, y),
         NEW lo, NEW hi, Between(d, lo, hi), hi < 10000
  PROVE  RoundedBetween(EntryAt(d, y), lo, hi)
<1> DEFINE A == Total(Qty, d - 1)
           B == Total(Val, d - 1)
           k == lv[d].k
           q == lv[d].q
<1>0. /\ Len(lv) \in Nat /\ d \in 1 .. Len(lv) /\ d - 1 \in 0 .. Len(lv) /\ d - 1 \in 0 .. d
      /\ d \in 1 .. d /\ y \in Nat
  BY DEF Side, FirstReaching
<1>1. /\ Amounts(Qty, Len(lv)) /\ Amounts(Val, Len(lv)) /\ k \in Nat /\ q \in Nat
      /\ Qty[d] = q /\ Val[d] = k * q
  BY <1>0, SideAmounts
<1>2. A \in Nat /\ Total(Qty, d) = A + q
  BY <1>0, <1>1, Totals
<1>3. B \in Nat /\ Total(Val, d) = B + k * q
  BY <1>0, <1>1, Totals
<1>4. lo \in Nat /\ hi \in Nat /\ lo <= k /\ k <= hi
  BY <1>0 DEF Between
<1>5. lo * A <= B /\ B <= hi * A
  BY <1>0, WorthBetween
<1>6. Worth(A, B, k, lo, hi)
  BY <1>1, <1>2, <1>3, <1>4, <1>5 DEF Worth
<1>7. CASE op = "c"
  <2>1. A < y
    BY <1>7 DEF FirstReaching, Measure
  <2> DEFINE M == Total(Val, d) - k * (Total(Qty, d) - y)
  <2>2. EntryAt(d, y) = Quoted(M, y, [num |-> y, den |-> 1])
    BY <1>7 DEF EntryAt
  <2>3. M = B + k * (y - A)
    <3> HIDE DEF A, B, k, q
    <3>1. Total(Qty, d) - y = q - (y - A)
      BY <1>0, <1>1, <1>2
    <3>2. k * (q - (y - A)) = k * q - k * (y - A)
      BY <1>0, <1>1, <1>2, Distribute
    <3>3. k * q \in Int /\ k * (y - A) \in Int
      BY <1>0, <1>1, <1>2
    <3> QED BY <1>3, <3>1, <3>2, <3>3
  <2> HIDE DEF A, B, k, q, M
  <2>4. M \in Nat /\ lo * y <= M /\ M <= hi * y
    <3>1. A < y => /\ B + k * (y - A) \in Nat
                   /\ lo * y <= B + k * (y - A) /\ B + k * (y - A) <= hi * y
      BY <1>0, <1>6, AverageBetween
    <3> QED BY <2>1, <2>3, <3>1
  <2>5. y \in Nat \ {0}
    BY <1>0, <1>2, <2>1
  <2> QED BY <1>4, <2>2, <2>4, <2>5, QuotedRounds
<1>8. CASE op = "v"
  <2>1. B < y
    BY <1>8 DEF FirstReaching, Measure
  <2>2. op # "c"
    BY <1>8
  <2> DEFINE M == Total(Qty, d) * k - (Total(Val, d) - y)
  <2>3. EntryAt(d, y) = Quoted(y * k, M, [num |-> M, den |-> k])
    BY <2>2 DEF EntryAt
  <2>4. M = A * k + (y - B)
    <3> HIDE DEF A, B, k, q
    <3>1. (A + q) * k = A * k + k * q /\ A * k \in Int /\ k * q \in Int
      BY <1>1, <1>2
    <3> QED BY <1>0, <1>2, <1>3, <3>1
  <2> HIDE DEF A, B, k, q, M
  <2>5. M \in Nat \ {0} /\ y * k \in Nat /\ lo * M <= y * k /\ y * k <= hi * M
    <3>1. B < y => /\ A * k + (y - B) \in Nat \ {0} /\ y * k \in Nat
                   /\ lo * (A * k + (y - B)) <= y * k /\ y * k <= hi * (A * k + (y - B))
      BY <1>0, <1>6, AverageBetween
    <3> QED BY <2>1, <2>4, <3>1
  <2> QED BY <1>4, <2>3, <2>5, QuotedRounds
<1> QED BY <1>7, <1>8

\* The best and the last price needed are bounds of the levels used.
LEMMA PricesNeeded ==
  ASSUME Asked, NEW d, NEW y, FirstReaching(Measure, Len(lv), d, y)
  PROVE  LET K == {lv[a].k : a \in {b \in DOMAIN lv : Used(Measure, b, y) > 0}}
         IN  Between(d, Min(K), Max(K)) /\ Max(K) < 10000
<1> DEFINE K == {lv[a].k : a \in {b \in DOMAIN lv : Used(Measure, b, y) > 0}}
<1>0. /\ Side /\ side \in {"ASK", "BID"} /\ Len(lv) \in Nat /\ DOMAIN lv = 1 .. Len(lv)
      /\ d \in 1 .. Len(lv) /\ 1 \in 1 .. Len(lv)
  BY DEF Asked, Side, FirstReaching
<1>1. \A a \in 1 .. Len(lv) : Used(Measure, a, y) > 0 <=> a <= d
  <2>1. Amounts(Measure, Len(lv))
    BY <1>0, SideAmounts
  <2> QED BY <2>1, UsedToReach
<1>2. K = {lv[a].k : a \in 1 .. d}
  <2>1. {b \in DOMAIN lv : Used(Measure, b, y) > 0} = 1 .. d
    BY <1>0, <1>1
  <2> QED BY <2>1
<1> HIDE DEF K
<1>3. \A a \in 1 .. Len(lv) : lv[a].k \in Nat /\ lv[a].k < 10000
  <2> TAKE a \in 1 .. Len(lv)
  <2>1. \A k \in Prices : k \in Nat /\ k < 10000
    BY DepthAssumption
  <2>2. lv[a].k \in Prices
    BY <1>0 DEF Side, Level
  <2> QED BY <2>1, <2>2
<1>4. \A a, b \in 1 .. Len(lv) :
         a < b => IF side = "ASK" THEN lv[a].k < lv[b].k ELSE lv[a].k > lv[b].k
  BY <1>0 DEF Side, Ordered
<1> DEFINE f == IF side = "ASK" THEN lv[1].k ELSE lv[d].k
           g == IF side = "ASK" THEN lv[d].k ELSE lv[1].k
<1>5. f \in Nat /\ g \in Nat /\ g < 10000
  BY <1>0, <1>3
<1>6. f \in K /\ g \in K
  BY <1>0, <1>2
<1>7. ASSUME NEW a \in 1 .. d PROVE f <= lv[a].k /\ lv[a].k <= g
  <2>1. a \in 1 .. Len(lv) /\ (a = 1 \/ 1 < a) /\ (a = d \/ a < d)
    BY <1>0
  <2>2. /\ lv[a].k \in Nat /\ lv[1].k \in Nat /\ lv[d].k \in Nat
        /\ 1 < a => IF side = "ASK" THEN lv[1].k < lv[a].k ELSE lv[1].k > lv[a].k
        /\ a < d => IF side = "ASK" THEN lv[a].k < lv[d].k ELSE lv[a].k > lv[d].k
    BY <1>0, <1>3, <1>4, <2>1
  <2>3. CASE side = "ASK"
    BY <2>1, <2>2, <2>3
  <2>4. CASE side # "ASK"
    BY <2>1, <2>2, <2>4
  <2> QED BY <2>3, <2>4
<1> HIDE DEF f, g
<1>8. \A z \in K : z \in Nat /\ f <= z /\ z <= g
  <2>1. \A a \in 1 .. d : lv[a].k \in Nat
    BY <1>0, <1>3
  <2> QED BY <1>2, <1>7, <2>1
<1>9. Min(K) = f
  <2>1. \A z \in K : (\A w \in K : z <= w) => z = f
    BY <1>5, <1>6, <1>8
  <2> QED BY <1>6, <1>8, <2>1 DEF Min
<1>10. Max(K) = g
  <2>1. (\A z \in K : (\A w \in K : z >= w) => z = g) /\ \A z \in K : g >= z
    BY <1>5, <1>6, <1>8
  <2> QED BY <1>6, <2>1 DEF Max
<1>11. Between(d, f, g)
  BY <1>0, <1>5, <1>7 DEF Between
<1>12. Between(d, Min(K), Max(K)) /\ Max(K) < 10000
  BY <1>5, <1>9, <1>10, <1>11
<1> QED BY <1>12 DEF K

LEMMA RoundedFromInv ==
  ASSUME DepthInv
  PROVE  PriceRounded
<1>0. Asked /\ Side /\ op \in {"c", "v", "p"}
  BY DEF DepthInv, Asked
<1>1. CASE op = "p"
  <2>1. out = <<>>
    BY <1>1 DEF DepthInv, Filling
  <2> QED BY <2>1 DEF PriceRounded
<1>2. CASE op \in {"c", "v"}
  <2>0. Consolidating
    BY <1>2 DEF DepthInv
  <2>1. DOMAIN out = 1 .. Len(out)
    BY <2>0 DEF Consolidating
  <2>2. ASSUME NEW x \in DOMAIN out
        PROVE  LET f == out[x].p
                   d == out[x].px * f.den - f.num
                   K == {lv[a].k : a \in {b \in DOMAIN lv : Used(Measure, b, x * Q) > 0}}
               IN  /\ 9 * d < 5 * f.den /\ -9 * d < 5 * f.den
                   /\ out[x].px \in Min(K) .. Max(K)
    <3> DEFINE K == {lv[a].k : a \in {b \in DOMAIN lv : Used(Measure, b, x * Q) > 0}}
               e == out[x]
    <3>1. PICK d \in 1 .. Len(lv) :
             FirstReaching(Measure, Len(lv), d, x * Q) /\ e = EntryAt(d, x * Q)
      BY <2>0, <2>1 DEF Consolidating
    <3>2. Between(d, Min(K), Max(K)) /\ Max(K) < 10000
      BY <1>0, <3>1, PricesNeeded
    <3> HIDE DEF K, e
    <3>3. RoundedBetween(e, Min(K), Max(K))
      BY <1>0, <1>2, <3>1, <3>2, EntryRounds
    <3>4. Min(K) \in Nat /\ Max(K) \in Nat
      BY <3>2 DEF Between
    <3> DEFINE z == e.px
               a == e.p.num
               b == e.p.den
    <3>5. /\ z \in Nat /\ a \in Nat /\ b \in Nat /\ Min(K) <= z /\ z <= Max(K)
          /\ 9 * (z * b - a) < 5 * b /\ 9 * (a - z * b) < 5 * b
      BY <3>3 DEF RoundedBetween
    <3> HIDE DEF z, a, b
    <3>6. z * b \in Int
      BY <3>5
    <3>7. 9 * (z * b - a) < 5 * b /\ -9 * (z * b - a) < 5 * b
      BY <3>5, <3>6
    <3>8. z \in Min(K) .. Max(K)
      BY <3>4, <3>5
    <3> QED BY <3>7, <3>8 DEF z, a, b, e, K
  <2> QED BY <2>2 DEF PriceRounded
<1> QED BY <1>0, <1>1, <1>2

-----------------------------------------------------------------------------
(* The invariant is inductive.                                             *)

LEMMA InitDepthInv ==
  ASSUME DepthInit
  PROVE  DepthInv
<1>1. Side
  <2>1. PICK m \in 0 .. MaxLevels : lv \in [1 .. m -> Level]
    BY DEF DepthInit
  <2>2. m \in Nat
    BY DepthAssumption
  <2>3. Len(lv) = m /\ DOMAIN lv = 1 .. m
    BY <2>1, <2>2
  <2> QED BY <2>1, <2>2, <2>3 DEF DepthInit, Side
<1>2. Asked
  <2>1. Q \in Nat \ {0}
    BY DepthAssumption DEF DepthInit
  <2>2. n \in Nat
    BY DepthAssumption DEF DepthInit
  <2>3. lmt \in Nat \cup {NANPX}
    BY DepthAssumption DEF DepthInit
  <2> QED BY <1>1, <2>1, <2>2, <2>3 DEF DepthInit, Asked
<1>3. /\ Total(Qty, 0) = 0 /\ Total(Val, 0) = 0 /\ Total(Measure, 0) = 0
      /\ Len(lv) \in Nat /\ 0 \in 0 .. Len(lv)
  <2>1. Amounts(Qty, Len(lv)) /\ Amounts(Val, Len(lv)) /\ Amounts(Measure, Len(lv))
    BY <1>1, SideAmounts
  <2> QED BY <1>1, <2>1, Totals DEF Side
<1>4. i = 0 /\ c = 0 /\ C = 0 /\ R = Q /\ out = <<>> /\ yngt = 0 /\ oldt = NATV /\ ~done
  BY DEF DepthInit
<1>5. Consolidating
  <2>1. out \in Seq(Quotes) /\ Len(out) = 0
    BY <1>4
  <2>2. Q \in Nat \ {0} /\ n \in Nat
    BY <1>2 DEF Asked
  <2> QED BY <1>3, <1>4, <2>1, <2>2 DEF Consolidating
<1>6. Filling
  <2>1. 1 .. 0 = {} /\ Q \in Nat \ {0}
    BY <1>2 DEF Asked
  <2> QED BY <1>3, <1>4, <2>1 DEF Filling, Portion
<1> QED BY <1>2, <1>5, <1>6 DEF DepthInv

\* The arguments stay, and with them all that is said of the side.
LEMMA ArgsStay ==
  ASSUME Asked, UNCHANGED args
  PROVE  /\ Asked'
         /\ op' = op /\ lv' = lv /\ Q' = Q /\ n' = n
         /\ Qty' = Qty /\ Val' = Val /\ Measure' = Measure
         /\ \A d, x : EntryAt(d, x)' = EntryAt(d, x)
         /\ \A k : WithinLimit(k)' = WithinLimit(k)
<1>1. op' = op /\ side' = side /\ lv' = lv /\ Q' = Q /\ n' = n /\ lmt' = lmt
  BY DEF args
<1>2. Qty' = Qty /\ Val' = Val
  BY <1>1 DEF Qty, Val
<1>3. Measure' = Measure
  BY <1>1, <1>2 DEF Measure
<1>4. Asked'
  BY <1>1 DEF Asked, Side, Ordered
<1>5. \A d, x : EntryAt(d, x)' = EntryAt(d, x)
  BY <1>1, <1>2, Zenon DEF EntryAt
<1>6. \A k : WithinLimit(k)' = WithinLimit(k)
  BY <1>1 DEF WithinLimit
<1> QED BY <1>1, <1>2, <1>3, <1>4, <1>5, <1>6

\* What the sums of a side have in common.
LEMMA SideTotals ==
  ASSUME Asked
  PROVE  /\ Len(lv) \in Nat /\ Q \in Nat \ {0} /\ n \in Nat
         /\ \A a \in 0 .. Len(lv) : /\ Total(Qty, a) \in Nat /\ Total(Val, a) \in Nat
                                    /\ Total(Measure, a) \in Nat
         /\ Total(Qty, 0) = 0 /\ Total(Val, 0) = 0 /\ Total(Measure, 0) = 0
         /\ \A a \in 1 .. Len(lv) : /\ Total(Qty, a) = Total(Qty, a - 1) + lv[a].q
                                    /\ Total(Val, a) = Total(Val, a - 1) + lv[a].k * lv[a].q
                                    /\ Total(Measure, a - 1) < Total(Measure, a)
                                    /\ lv[a].k \in Nat \ {0} /\ lv[a].q \in Nat \ {0}
                                    /\ lv[a].t \in Nat /\ lv[a].t < NATV
<1>1. Side /\ Len(lv) \in Nat /\ Q \in Nat \ {0} /\ n \in Nat
  BY DEF Asked, Side
<1>2. /\ Amounts(Qty, Len(lv)) /\ Amounts(Val, Len(lv)) /\ Amounts(Measure, Len(lv))
      /\ \A a \in 1 .. Len(lv) :
            /\ lv[a].k \in Nat \ {0} /\ lv[a].q \in Nat \ {0} /\ lv[a].t \in Nat
            /\ lv[a].t < NATV
            /\ Qty[a] = lv[a].q /\ Val[a] = lv[a].k * lv[a].q
  BY <1>1, SideAmounts
<1>3. /\ Total(Qty, 0) = 0 /\ \A a \in 0 .. Len(lv) : Total(Qty, a) \in Nat
      /\ \A a \in 1 .. Len(lv) : Total(Qty, a) = Total(Qty, a - 1) + Qty[a]
  BY <1>2, Totals
<1>4. /\ Total(Val, 0) = 0 /\ \A a \in 0 .. Len(lv) : Total(Val, a) \in Nat
      /\ \A a \in 1 .. Len(lv) : Total(Val, a) = Total(Val, a - 1) + Val[a]
  BY <1>2, Totals
<1>5. /\ Total(Measure, 0) = 0 /\ \A a \in 0 .. Len(lv) : Total(Measure, a) \in Nat
      /\ \A a, b \in 0 .. Len(lv) : a < b => Total(Measure, a) < Total(Measure, b)
  BY <1>2, Totals
<1>6. ASSUME NEW a \in 1 .. Len(lv) PROVE Total(Measure, a - 1) < Total(Measure, a)
  <2>1. a - 1 \in 0 .. Len(lv) /\ a \in 0 .. Len(lv) /\ a - 1 < a
    BY <1>1
  <2> QED BY <1>5, <2>1
<1> QED BY <1>1, <1>2, <1>3, <1>4, <1>5, <1>6

\* Reached is the sum of the measure.
LEMMA ReachedIs ==
  ASSUME op \in {"c", "v"}, Consolidating
  PROVE  Reached = Total(Measure, i)
BY DEF Reached, Measure, Consolidating

\* The levels found stay found.
LEMMA FoundStay ==
  ASSUME Asked, UNCHANGED args, out' = out,
         \A x \in 1 .. Len(out) : \E d \in 1 .. Len(lv) :
            FirstReaching(Measure, Len(lv), d, x * Q) /\ out[x] = EntryAt(d, x * Q)
  PROVE  (\A x \in 1 .. Len(out) : \E d \in 1 .. Len(lv) :
            FirstReaching(Measure, Len(lv), d, x * Q) /\ out[x] = EntryAt(d, x * Q))'
<1>1. /\ lv' = lv /\ Q' = Q /\ Measure' = Measure
      /\ \A d, x : EntryAt(d, x)' = EntryAt(d, x)
  BY ArgsStay
<1> QED BY <1>1

LEMMA WalkStep ==
  ASSUME DepthInv, Walk
  PROVE  DepthInv'
<1>0. Asked /\ Consolidating /\ op \in {"c", "v"} /\ UNCHANGED args
  BY DEF DepthInv, Walk
<1>1. Asked' /\ op' = op /\ lv' = lv /\ Q' = Q /\ n' = n /\ Qty' = Qty /\ Val' = Val /\ Measure' = Measure
  BY <1>0, ArgsStay
<1>2. R' = R /\ out' = out /\ ~done /\ Reached < R
  BY DEF Walk
<1>3. Total(Measure, i) < R
  BY <1>0, <1>2, ReachedIs
<1>4. /\ i \in 0 .. Len(lv) /\ c = Total(Val, i) /\ C = Total(Qty, i)
      /\ out \in Seq(Quotes) /\ Len(out) <= n
      /\ R = Len(out) * Q + Q /\ Len(out) * Q <= Total(Measure, i)
      /\ i > 0 => Total(Measure, i - 1) < R
  BY <1>0 DEF Consolidating
<1>5. \A x \in 1 .. Len(out) : \E d \in 1 .. Len(lv) :
            FirstReaching(Measure, Len(lv), d, x * Q) /\ out[x] = EntryAt(d, x * Q)
  BY <1>0 DEF Consolidating
<1>6. (\A x \in 1 .. Len(out) : \E d \in 1 .. Len(lv) :
            FirstReaching(Measure, Len(lv), d, x * Q) /\ out[x] = EntryAt(d, x * Q))'
  BY <1>0, <1>2, <1>5, FoundStay
<1>7. Consolidating'
  <2>1. CASE i < Len(lv)
    <3>1. i' = i + 1 /\ c' = c + lv[i + 1].k * lv[i + 1].q /\ C' = C + lv[i + 1].q /\ done' = done
      BY <2>1 DEF Walk
    <3>2. i + 1 \in 1 .. Len(lv) /\ i + 1 \in 0 .. Len(lv) /\ (i + 1) - 1 = i /\ i + 1 > 0
      BY <1>0, <1>4, <2>1, SideTotals
    <3>3. /\ Total(Qty, i + 1) = Total(Qty, i) + lv[i + 1].q
          /\ Total(Val, i + 1) = Total(Val, i) + lv[i + 1].k * lv[i + 1].q
          /\ Total(Measure, i) < Total(Measure, i + 1)
      BY <1>0, <3>2, SideTotals
    <3>4. Total(Measure, i) \in Nat /\ Total(Measure, i + 1) \in Nat /\ Len(out) * Q \in Int
      <4>1. Len(out) \in Nat /\ Q \in Nat
        BY <1>0, <1>4 DEF Asked
      <4>2. Len(out) * Q \in Int
        BY <4>1
      <4> QED BY <1>0, <1>4, <3>2, <4>2, SideTotals
    <3>5. Len(out) * Q <= Total(Measure, i + 1)
      BY <1>4, <3>3, <3>4
    <3>6. Total(Measure, i' - 1) < R
      BY <1>3, <3>1, <3>2
    <3> QED BY <1>1, <1>2, <1>4, <1>6, <3>1, <3>2, <3>3, <3>5, <3>6 DEF Consolidating
  <2>2. CASE ~(i < Len(lv))
    <3>1. done' = TRUE /\ i' = i /\ c' = c /\ C' = C
      BY <2>2 DEF Walk
    <3>2. i = Len(lv)
      BY <1>0, <1>4, <2>2, SideTotals
    <3> QED BY <1>1, <1>2, <1>3, <1>4, <1>6, <3>1, <3>2 DEF Consolidating
  <2> QED BY <2>1, <2>2
<1>8. op' # "p"
  BY <1>0, <1>1
<1> QED BY <1>1, <1>7, <1>8 DEF DepthInv

LEMMA QuotedIsQuote ==
  ASSUME NEW a \in Int, NEW b \in Int, NEW e \in Int, NEW f \in Int
  PROVE  Quoted(a, b, [num |-> e, den |-> f]) \in Quotes
BY DEF Quotes

LEMMA EmitStep ==
  ASSUME DepthInv, Emit
  PROVE  DepthInv'
<1>0. Asked /\ Consolidating /\ op \in {"c", "v"} /\ UNCHANGED args
  BY DEF DepthInv, Emit
<1>1. /\ Asked' /\ op' = op /\ lv' = lv /\ Q' = Q /\ n' = n
      /\ Qty' = Qty /\ Val' = Val /\ Measure' = Measure
      /\ \A d, x : EntryAt(d, x)' = EntryAt(d, x)
  BY <1>0, ArgsStay
<1>2. /\ R' = R + Q /\ out' = Append(out, Entry) /\ ~done /\ Reached >= R /\ Len(out) < n
      /\ i' = i /\ c' = c /\ C' = C /\ done' = done
  BY DEF Emit
<1>3. Total(Measure, i) >= R
  BY <1>0, <1>2, ReachedIs
<1>4. /\ i \in 0 .. Len(lv) /\ c = Total(Val, i) /\ C = Total(Qty, i)
      /\ out \in Seq(Quotes) /\ Len(out) \in Nat /\ Len(out) <= n
      /\ R = Len(out) * Q + Q /\ Len(out) * Q <= Total(Measure, i)
      /\ i > 0 => Total(Measure, i - 1) < R
  BY <1>0 DEF Consolidating
<1>5. /\ Len(lv) \in Nat /\ Q \in Nat \ {0} /\ n \in Nat
      /\ Total(Measure, 0) = 0 /\ \A a \in 0 .. Len(lv) : Total(Measure, a) \in Nat
  BY <1>0, SideTotals
<1>6. R \in Nat /\ R > 0 /\ R = (Len(out) + 1) * Q
  <2>1. Len(out) * Q \in Nat /\ (Len(out) + 1) * Q = Len(out) * Q + Q
    BY <1>4, <1>5
  <2> QED BY <1>4, <1>5, <2>1
<1>7. i \in 1 .. Len(lv)
  <2>1. i # 0
    BY <1>3, <1>5, <1>6
  <2> QED BY <1>4, <1>5, <2>1
<1>8. FirstReaching(Measure, Len(lv), i, R)
  <2>1. i > 0 /\ i - 1 \in 0 .. Len(lv)
    BY <1>5, <1>7
  <2>2. Total(Measure, i - 1) \in Nat /\ Total(Measure, i) \in Nat
    BY <1>4, <1>5, <2>1
  <2> QED BY <1>3, <1>4, <1>6, <1>7, <2>1, <2>2 DEF FirstReaching
<1>9. Entry = EntryAt(i, R)
  BY <1>4, Zenon DEF Entry, EntryAt
<1>10. Entry \in Quotes
  <2>1. lv[i].k \in Int /\ Total(Val, i) \in Int /\ Total(Qty, i) \in Int
    <3>1. /\ \A a \in 0 .. Len(lv) : Total(Qty, a) \in Nat /\ Total(Val, a) \in Nat
          /\ \A a \in 1 .. Len(lv) : lv[a].k \in Nat \ {0}
      BY <1>0, SideTotals
    <3> QED BY <1>4, <1>7, <3>1
  <2> DEFINE P == Total(Val, i) - lv[i].k * (Total(Qty, i) - R)
             N == Total(Qty, i) * lv[i].k - (Total(Val, i) - R)
  <2>2. P \in Int /\ N \in Int /\ R * lv[i].k \in Int /\ R \in Int
    BY <1>6, <2>1
  <2>3. CASE op = "c"
    <3>1. EntryAt(i, R) = Quoted(P, R, [num |-> R, den |-> 1])
      BY <2>3, Zenon DEF EntryAt
    <3> HIDE DEF P
    <3>2. 1 \in Int
      OBVIOUS
    <3> QED BY <1>9, <2>2, <3>1, <3>2, QuotedIsQuote
  <2>4. CASE op # "c"
    <3>1. EntryAt(i, R) = Quoted(R * lv[i].k, N, [num |-> N, den |-> lv[i].k])
      BY <2>4, Zenon DEF EntryAt
    <3> HIDE DEF N
    <3> QED BY <1>9, <2>1, <2>2, <3>1, QuotedIsQuote
  <2> QED BY <2>3, <2>4
<1>11. /\ out' \in Seq(Quotes) /\ Len(out') = Len(out) + 1
       /\ out'[Len(out) + 1] = Entry
       /\ \A x \in 1 .. Len(out) : out'[x] = out[x]
  <2> DEFINE E == Entry
  <2>1. E \in Quotes /\ out' = Append(out, E)
    BY <1>2, <1>10
  <2> HIDE DEF E
  <2>2. out' \in Seq(Quotes) /\ Len(out') = Len(out) + 1 /\ out'[Len(out) + 1] = E
    BY <1>4, <2>1
  <2>3. \A x \in 1 .. Len(out) : out'[x] = out[x]
    BY <1>4, <2>1
  <2> QED BY <2>2, <2>3 DEF E
<1>12. (\A x \in 1 .. Len(out) : \E d \in 1 .. Len(lv) :
            FirstReaching(Measure, Len(lv), d, x * Q) /\ out[x] = EntryAt(d, x * Q))'
  <2> SUFFICES ASSUME NEW x \in 1 .. Len(out) + 1
               PROVE  \E d \in 1 .. Len(lv) :
                         FirstReaching(Measure, Len(lv), d, x * Q) /\ out'[x] = EntryAt(d, x * Q)
    BY <1>1, <1>11
  <2>1. CASE x \in 1 .. Len(out)
    <3>1. PICK d \in 1 .. Len(lv) :
              FirstReaching(Measure, Len(lv), d, x * Q) /\ out[x] = EntryAt(d, x * Q)
      BY <1>0, <2>1 DEF Consolidating
    <3> QED BY <1>11, <2>1, <3>1
  <2>2. CASE x = Len(out) + 1
    BY <1>6, <1>7, <1>8, <1>9, <1>11, <2>2
  <2> QED BY <1>4, <2>1, <2>2
<1>13. Consolidating'
  <2>1. Len(out') * Q <= Total(Measure, i)
    BY <1>3, <1>6, <1>11
  <2>2. R + Q = Len(out') * Q + Q
    BY <1>6, <1>11
  <2>3. i > 0 => Total(Measure, i - 1) < R + Q
    <3> SUFFICES ASSUME i > 0 PROVE Total(Measure, i - 1) < R + Q
      OBVIOUS
    <3>1. i - 1 \in 0 .. Len(lv)
      BY <1>4, <1>5
    <3>2. Total(Measure, i - 1) \in Nat
      BY <1>5, <3>1
    <3> QED BY <1>4, <1>5, <1>6, <3>2
  <2>4. Len(out') <= n
    BY <1>2, <1>4, <1>5, <1>11
  <2> QED BY <1>1, <1>2, <1>4, <1>11, <1>12, <2>1, <2>2, <2>3, <2>4 DEF Consolidating
<1>14. op' # "p"
  BY <1>0, <1>1
<1> QED BY <1>1, <1>13, <1>14 DEF DepthInv

LEMMA EnoughStep ==
  ASSUME DepthInv, Enough
  PROVE  DepthInv'
<1>0. Asked /\ Consolidating /\ op \in {"c", "v"} /\ UNCHANGED args
  BY DEF DepthInv, Enough
<1>1. Asked' /\ op' = op /\ lv' = lv /\ Q' = Q /\ n' = n /\ Qty' = Qty /\ Val' = Val /\ Measure' = Measure
  BY <1>0, ArgsStay
<1>2. Len(out) = n /\ i' = i /\ c' = c /\ C' = C /\ R' = R /\ out' = out /\ done' = TRUE
  BY DEF Enough
<1>3. \A x \in 1 .. Len(out) : \E d \in 1 .. Len(lv) :
            FirstReaching(Measure, Len(lv), d, x * Q) /\ out[x] = EntryAt(d, x * Q)
  BY <1>0 DEF Consolidating
<1>4. (\A x \in 1 .. Len(out) : \E d \in 1 .. Len(lv) :
            FirstReaching(Measure, Len(lv), d, x * Q) /\ out[x] = EntryAt(d, x * Q))'
  BY <1>0, <1>2, <1>3, FoundStay
<1>5. Consolidating'
  BY <1>0, <1>1, <1>2, <1>4 DEF Consolidating
<1>6. op' # "p"
  BY <1>0, <1>1
<1> QED BY <1>1, <1>5, <1>6 DEF DepthInv

LEMMA PdoStep ==
  ASSUME DepthInv, book_pdo
  PROVE  DepthInv'
<1>0. Asked /\ Filling /\ op = "p" /\ UNCHANGED args
  BY DEF DepthInv, book_pdo
<1>1. /\ Asked' /\ op' = op /\ lv' = lv /\ Q' = Q /\ Qty' = Qty /\ Val' = Val
      /\ \A k : WithinLimit(k)' = WithinLimit(k)
  BY <1>0, ArgsStay
<1>2. /\ i \in 0 .. Len(lv) /\ out = <<>>
      /\ C = IF Total(Qty, i) <= Q THEN Total(Qty, i) ELSE Q
      /\ R = Q - C
      /\ i > 0 => Total(Qty, i - 1) < Q
      /\ c = IF i = 0 THEN 0 ELSE Total(Val, i - 1) + lv[i].k * (C - Total(Qty, i - 1))
  BY <1>0 DEF Filling, Portion
<1>3. \A a \in 1 .. i : WithinLimit(lv[a].k)
  BY <1>0 DEF Filling
<1>4. /\ yngt \in {lv[a].t : a \in 1 .. i} \cup {0} /\ \A a \in 1 .. i : lv[a].t <= yngt
      /\ oldt \in {lv[a].t : a \in 1 .. i} \cup {NATV} /\ \A a \in 1 .. i : lv[a].t >= oldt
  BY <1>0 DEF Filling
<1>5. /\ Len(lv) \in Nat /\ Q \in Nat \ {0}
      /\ \A a \in 0 .. Len(lv) : Total(Qty, a) \in Nat /\ Total(Val, a) \in Nat
      /\ Total(Qty, 0) = 0 /\ Total(Val, 0) = 0
      /\ \A a \in 1 .. Len(lv) : /\ Total(Qty, a) = Total(Qty, a - 1) + lv[a].q
                                 /\ Total(Val, a) = Total(Val, a - 1) + lv[a].k * lv[a].q
                                 /\ lv[a].k \in Nat \ {0} /\ lv[a].q \in Nat \ {0}
                                 /\ lv[a].t \in Nat /\ lv[a].t < NATV
  BY <1>0, SideTotals
<1>6. out' = out
  BY DEF book_pdo
<1>7. CASE R > 0 /\ i < Len(lv) /\ WithinLimit(lv[i + 1].k)
  <2> DEFINE l == lv[i + 1]
             x == Portion(l.q, R)
             Y == {lv[a].t : a \in 1 .. i}
  <2>1. /\ i' = i + 1 /\ c' = c + l.k * x /\ C' = C + x /\ R' = R - x /\ done' = done
        /\ yngt' = Max({yngt, l.t}) /\ oldt' = Min({oldt, l.t}) /\ ~done
    BY <1>7 DEF book_pdo
  <2>2. i + 1 \in 1 .. Len(lv) /\ i + 1 \in 0 .. Len(lv) /\ (i + 1) - 1 = i /\ i + 1 > 0 /\ i + 1 # 0
    BY <1>2, <1>5, <1>7
  <2>3. /\ l.k \in Nat \ {0} /\ l.q \in Nat \ {0} /\ l.t \in Nat /\ l.t < NATV
        /\ Total(Qty, i + 1) = Total(Qty, i) + l.q /\ Total(Qty, i) \in Nat
    BY <1>2, <1>5, <2>2
  <2>4. x = IF l.q <= R THEN l.q ELSE R
    BY DEF Portion
  <2>5. C = Total(Qty, i) /\ Total(Qty, i) < Q
    BY <1>2, <1>5, <1>7, <2>3
  <2>6. c = Total(Val, i)
    <3>1. CASE i = 0
      BY <1>2, <1>5, <3>1
    <3>2. CASE i # 0
      <4>1. i \in 1 .. Len(lv) /\ i - 1 \in 0 .. Len(lv)
        BY <1>2, <1>5, <3>2
      <4>2. Total(Qty, i) = Total(Qty, i - 1) + lv[i].q /\ Total(Qty, i - 1) \in Nat /\ lv[i].q \in Nat
        BY <1>5, <4>1
      <4>3. C - Total(Qty, i - 1) = lv[i].q
        BY <2>5, <4>2
      <4>4. c = Total(Val, i - 1) + lv[i].k * (C - Total(Qty, i - 1))
        BY <1>2, <3>2
      <4> QED BY <1>5, <4>1, <4>3, <4>4
    <3> QED BY <3>1, <3>2
  <2> HIDE DEF l, x
  <2>7. C' = (IF Total(Qty, i + 1) <= Q THEN Total(Qty, i + 1) ELSE Q) /\ C' - Total(Qty, i) = x
    <3>1. R = Q - Total(Qty, i) /\ Q \in Nat /\ l.q \in Nat /\ Total(Qty, i) \in Nat
      BY <1>2, <1>5, <2>3, <2>5
    <3>2. C' = Total(Qty, i) + x /\ Total(Qty, i + 1) = Total(Qty, i) + l.q
      BY <2>1, <2>3, <2>5
    <3> DEFINE T == Total(Qty, i)
               q == l.q
    <3>3. R = Q - T /\ q \in Nat /\ T \in Nat /\ x = IF q <= R THEN q ELSE R
      BY <3>1, <2>4
    <3>4. C' = T + x /\ Total(Qty, i + 1) = T + q
      BY <3>2
    <3> HIDE DEF T, q
    <3>5. C' = (IF T + q <= Q THEN T + q ELSE Q) /\ C' - T = x
      BY <3>1, <3>3, <3>4
    <3> QED BY <3>4, <3>5 DEF T
  <2>8. R' = Q - C' /\ Total(Qty, i' - 1) < Q
    <3>1. R = Q - C /\ Q \in Int /\ C \in Int /\ x \in Int
      <4>1. Q \in Int /\ C \in Int
        BY <1>5, <2>3, <2>5
      <4>2. R = Q - C
        BY <1>2
      <4> QED BY <2>3, <2>4, <4>1, <4>2
    <3>2. R' = Q - C'
      BY <2>1, <3>1
    <3> QED BY <2>1, <2>2, <2>5, <3>2
  <2>9. c' = Total(Val, i' - 1) + lv[i'].k * (C' - Total(Qty, i' - 1))
    BY <2>1, <2>2, <2>6, <2>7 DEF l
  <2>10. \A a \in 1 .. i' : WithinLimit(lv[a].k)
    BY <1>2, <1>3, <1>7, <2>1
  <2>11. {lv[a].t : a \in 1 .. i'} = Y \cup {l.t}
    <3>1. 1 .. i' = 1 .. i \cup {i + 1}
      BY <1>2, <1>5, <2>1
    <3> QED BY <3>1 DEF l
  <2>12. \A t \in Y : t \in Nat
    <3>1. \A a \in 1 .. i : lv[a].t \in Nat
      BY <1>2, <1>5
    <3> QED BY <3>1
  <2>13. /\ yngt \in Y \cup {0} /\ \A t \in Y : t <= yngt
         /\ oldt \in Y \cup {NATV} /\ \A t \in Y : t >= oldt
    BY <1>4
  <2> HIDE DEF Y
  <2>14. yngt \in Nat /\ oldt \in Nat
    BY <2>12, <2>13, DepthAssumption
  <2>15. yngt' = IF yngt <= l.t THEN l.t ELSE yngt
    <3> DEFINE M == IF yngt <= l.t THEN l.t ELSE yngt
    <3>1. M \in {yngt, l.t} /\ \A y \in {yngt, l.t} : M >= y
      BY <2>3, <2>14
    <3>2. \A z \in {yngt, l.t} : (\A y \in {yngt, l.t} : z >= y) => z = M
      BY <2>3, <2>14
    <3> HIDE DEF M
    <3>3. Max({yngt, l.t}) = M
      BY <3>1, <3>2 DEF Max
    <3> QED BY <2>1, <3>3 DEF M
  <2>16. oldt' = IF oldt <= l.t THEN oldt ELSE l.t
    BY <2>1, <2>3, <2>14, LesserOf
  <2>17. /\ yngt' \in (Y \cup {l.t}) \cup {0} /\ \A t \in Y \cup {l.t} : t <= yngt'
         /\ oldt' \in (Y \cup {l.t}) \cup {NATV} /\ \A t \in Y \cup {l.t} : t >= oldt'
    BY <2>3, <2>12, <2>13, <2>14, <2>15, <2>16
  <2>18. /\ \A a \in 1 .. i' : lv[a].t <= yngt'
         /\ \A a \in 1 .. i' : lv[a].t >= oldt'
    BY <2>11, <2>17
  <2>19. yngt' \in {lv[a].t : a \in 1 .. i'} \cup {0} /\ oldt' \in {lv[a].t : a \in 1 .. i'} \cup {NATV}
    BY <2>11, <2>17
  <2>20. i' \in 0 .. Len(lv) /\ i' # 0 /\ C' = Portion(Total(Qty, i'), Q) /\ ~done'
    BY <2>1, <2>2, <2>7 DEF Portion
  <2>21. Filling'
    BY <1>1, <1>2, <1>6, <2>8, <2>9, <2>10, <2>18, <2>19, <2>20 DEF Filling, Portion
  <2> QED BY <1>0, <1>1, <2>21 DEF DepthInv
<1>8. CASE ~(R > 0 /\ i < Len(lv) /\ WithinLimit(lv[i + 1].k))
  <2>1. done' = TRUE /\ i' = i /\ c' = c /\ C' = C /\ yngt' = yngt /\ oldt' = oldt /\ R' = R
    BY <1>8 DEF book_pdo
  <2>2. R = 0 \/ i = Len(lv) \/ ~WithinLimit(lv[i + 1].k)
    <3>1. R \in Nat
      BY <1>2, <1>5
    <3> QED BY <1>2, <1>5, <1>8, <3>1
  <2>3. Filling'
    BY <1>0, <1>1, <1>6, <2>1, <2>2 DEF Filling, Portion
  <2> QED BY <1>0, <1>1, <2>3 DEF DepthInv
<1> QED BY <1>7, <1>8

LEMMA DepthInvariant == DepthSpec => []DepthInv
<1>1. DepthInit => DepthInv
  BY InitDepthInv
<1>2. DepthInv /\ [DepthNext]_dvars => DepthInv'
  <2> SUFFICES ASSUME DepthInv, [DepthNext]_dvars PROVE DepthInv'
    OBVIOUS
  <2>1. CASE Walk
    BY <2>1, WalkStep
  <2>2. CASE Emit
    BY <2>2, EmitStep
  <2>3. CASE Enough
    BY <2>3, EnoughStep
  <2>4. CASE book_pdo
    BY <2>4, PdoStep
  <2>5. CASE UNCHANGED dvars
    <3>1. Asked /\ UNCHANGED args
      BY <2>5 DEF DepthInv, dvars, args
    <3>2. /\ Asked' /\ op' = op /\ lv' = lv /\ Q' = Q /\ n' = n
          /\ Qty' = Qty /\ Val' = Val /\ Measure' = Measure
          /\ \A k : WithinLimit(k)' = WithinLimit(k)
      BY <3>1, ArgsStay
    <3>3. i' = i /\ c' = c /\ C' = C /\ R' = R /\ out' = out /\ yngt' = yngt /\ oldt' = oldt /\ done' = done
      BY <2>5 DEF dvars
    <3>4. ASSUME Consolidating PROVE Consolidating'
      <4>1. (\A x \in 1 .. Len(out) : \E d \in 1 .. Len(lv) :
            FirstReaching(Measure, Len(lv), d, x * Q) /\ out[x] = EntryAt(d, x * Q))'
        BY <3>1, <3>3, <3>4, FoundStay DEF Consolidating
      <4> QED BY <3>2, <3>3, <3>4, <4>1 DEF Consolidating
    <3>5. ASSUME Filling PROVE Filling'
      BY <3>2, <3>3, <3>5 DEF Filling, Portion
    <3> QED BY <3>2, <3>4, <3>5 DEF DepthInv
  <2> QED BY <2>1, <2>2, <2>3, <2>4, <2>5 DEF DepthNext
<1> QED BY <1>1, <1>2, PTL DEF DepthSpec

\* For every side, quantity and value: the i-th level book_ctops and book_vtops
\* return is the exact average of what i*Q units cost, or i*V buys, and they
\* return all the levels the side has the depth for.
THEOREM DepthConsolidates == DepthSpec => []ConsolidatedExactly
<1>1. DepthInv => ConsolidatedExactly
  BY ExactFromInv
<1> QED BY <1>1, DepthInvariant, PTL

\* For every side, quantity and limit: book_pdo fills all that there is within
\* the limit for the price of the best units, and its times are those of the
\* levels it took.
THEOREM DepthFills == DepthSpec => []FilledWithinLimit
<1>1. DepthInv => FilledWithinLimit
  BY FilledFromInv
<1> QED BY <1>1, DepthInvariant, PTL

\* For every side, quantity and value: the price book_ctops and book_vtops return
\* is within 5/9 of a unit of the exact average, and between the best and the
\* last price that was needed.
THEOREM DepthRounds == DepthSpec => []PriceRounded
<1>1. DepthInv => PriceRounded
  BY RoundedFromInv
<1> QED BY <1>1, DepthInvariant, PTL

=============================================================================
