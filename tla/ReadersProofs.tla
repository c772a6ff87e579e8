---------------------------- MODULE ReadersProofs ---------------------------
(***************************************************************************)
(* What the definitions of Readers and the sums they are made of compute,  *)
(* as far as the proofs about Tops, Depth, Snap and Snap3 need it.         *)
(***************************************************************************)
EXTENDS Readers, FiniteSetTheorems, WellFoundedInduction, TLAPS

-----------------------------------------------------------------------------
(* Sums over finite sets.  SumFunctionOnSet takes the numbers in the order *)
(* CHOOSE picks them: that the order does not matter is proved by a least  *)
(* counterexample, as the library's induction cannot be instantiated.      *)

\* The least of some numbers.
LEMMA LeastOf ==
  ASSUME NEW S \in SUBSET Nat, NEW s \in S
  PROVE  Min(S) \in S /\ \A y \in S : Min(S) <= y
<1>1. \E x \in S : \A y \in S : <<y, x>> \notin OpToRel(<, Nat)
  BY NatLessThanWellFounded, WFMin, Zenon
<1>2. PICK x \in S : \A y \in S : <<y, x>> \notin OpToRel(<, Nat)
  BY <1>1, Zenon
<1>3. ASSUME NEW y \in S PROVE x <= y
  <2>1. ~(y < x)
    BY <1>2 DEF OpToRel
  <2> QED BY <2>1
<1> QED BY <1>3 DEF Min

\* the element taken first
Pick(s) == CHOOSE x \in s : TRUE

\* the sum of w over s, if g has those over smaller sets
SumBy(w, g, s) == IF s = {} THEN 0 ELSE w[Pick(s)] + g[s \ {Pick(s)}]

\* g has the sums of w over the sets G
Sums(w, G, g) == g = [s \in G |-> SumBy(w, g, s)]

\* A set without one of its members.
LEMMA OneLess ==
  ASSUME NEW s, IsFiniteSet(s), NEW x \in s
  PROVE  /\ IsFiniteSet(s \ {x}) /\ Cardinality(s) \in Nat /\ Cardinality(s \ {x}) \in Nat
         /\ Cardinality(s \ {x}) = Cardinality(s) - 1
BY FS_RemoveElement, FS_CardinalityType

LEMMA PickIn ==
  ASSUME NEW s, s # {}
  PROVE  Pick(s) \in s
BY DEF Pick

\* There is a function of all sums.
LEMMA SumsExist ==
  ASSUME NEW S, IsFiniteSet(S), NEW w
  PROVE  \E g : Sums(w, SUBSET S, g)
<1> DEFINE G(n) == {s \in SUBSET S : Cardinality(s) <= n}
           B == {n \in Nat : ~\E g : Sums(w, G(n), g)}
<1>0. \A s \in SUBSET S : IsFiniteSet(s) /\ Cardinality(s) \in Nat
  BY FS_Subset, FS_CardinalityType
<1>1. B = {}
  <2> SUFFICES ASSUME B # {} PROVE FALSE
    OBVIOUS
  <2> DEFINE n == Min(B)
  <2>1. n \in B /\ \A y \in B : n <= y
    <3>1. PICK b \in B : TRUE
      OBVIOUS
    <3>2. B \in SUBSET Nat
      OBVIOUS
    <3> HIDE DEF B
    <3> QED BY <3>1, <3>2, LeastOf
  <2> HIDE DEF n
  <2>2. n \in Nat
    BY <2>1
  <2>3. n # 0
    <3> SUFFICES ASSUME n = 0 PROVE FALSE
      OBVIOUS
    <3> DEFINE g == [s \in G(n) |-> 0]
    <3>1. \A s \in G(n) : SumBy(w, g, s) = 0
      <4> SUFFICES ASSUME NEW s \in G(n) PROVE SumBy(w, g, s) = 0
        OBVIOUS
      <4>1. Cardinality(s) = 0 /\ IsFiniteSet(s)
        BY <1>0
      <4>2. s = {}
        BY <4>1, FS_EmptySet
      <4> QED BY <4>2 DEF SumBy
    <3>2. g = [s \in G(n) |-> SumBy(w, g, s)]
      <4> HIDE DEF G
      <4> QED BY <3>1
    <3> HIDE DEF G, g
    <3>3. Sums(w, G(n), g)
      BY <3>2 DEF Sums
    <3> QED BY <3>3, <2>1
  <2>4. n - 1 \in Nat /\ n - 1 \notin B
    <3> HIDE DEF B
    <3> QED BY <2>1, <2>2, <2>3
  <2>5. PICK g : Sums(w, G(n - 1), g)
    BY <2>4
  <2> DEFINE h == [s \in G(n) |-> IF s \in G(n - 1) THEN g[s] ELSE SumBy(w, g, s)]
  <2>6. \A s \in G(n) : h[s] = SumBy(w, g, s)
    <3>1. g = [s \in G(n - 1) |-> SumBy(w, g, s)]
      BY <2>5 DEF Sums
    <3> HIDE DEF G
    <3> QED BY <3>1
  <2>7. \A s \in G(n) : SumBy(w, h, s) = SumBy(w, g, s)
    <3> SUFFICES ASSUME NEW s \in G(n), s # {} PROVE SumBy(w, h, s) = SumBy(w, g, s)
      BY DEF SumBy
    <3> DEFINE r == s \ {Pick(s)}
    <3>1. r \in G(n - 1)
      <4>1. Cardinality(r) = Cardinality(s) - 1 /\ Cardinality(s) \in Nat
        BY <1>0, PickIn, OneLess
      <4> QED BY <4>1, <2>2
    <3>2. r \in G(n)
      BY <3>1, <1>0, <2>2
    <3> HIDE DEF G
    <3>3. h[r] = g[r]
      BY <3>1, <3>2
    <3> QED BY <3>3 DEF SumBy
  <2>8. Sums(w, G(n), h)
    <3> HIDE DEF G
    <3>1. h = [s \in G(n) |-> SumBy(w, g, s)]
      BY <2>6
    <3> QED BY <3>1, <2>7 DEF Sums
  <2> QED BY <2>8, <2>1
<1>2. G(Cardinality(S)) = SUBSET S
  <2>1. \A s \in SUBSET S : Cardinality(s) <= Cardinality(S)
    BY FS_Subset
  <2> QED BY <2>1
<1>3. Cardinality(S) \in Nat
  BY FS_CardinalityType
<1>4. \E g : Sums(w, G(Cardinality(S)), g)
  BY <1>1, <1>3
<1> HIDE DEF G
<1> QED BY <1>2, <1>4

\* The library's sum is the one for the whole set.
LEMMA SumIs ==
  ASSUME NEW S, IsFiniteSet(S), NEW w
  PROVE  \E g : Sums(w, SUBSET S, g) /\ SumFunctionOnSet(w, S) = g[S]
<1> DEFINE h == CHOOSE g : g = [s \in SUBSET S |-> SumBy(w, g, s)]
<1>1. SumFunctionOnSet(w, S) = h[S]
  BY DEF SumFunctionOnSet, FoldFunctionOnSet, MapThenFoldSet, SumBy, Pick
<1>2. \E g : g = [s \in SUBSET S |-> SumBy(w, g, s)]
  <2>1. \E g : Sums(w, SUBSET S, g)
    BY SumsExist
  <2> QED BY <2>1 DEF Sums
<1>3. h = [s \in SUBSET S |-> SumBy(w, h, s)]
  BY <1>2
<1> HIDE DEF h
<1> QED BY <1>1, <1>3 DEF Sums

\* It is a whole number if all that is added up are.
LEMMA SumsType ==
  ASSUME NEW S, IsFiniteSet(S), NEW w, \A x \in S : w[x] \in Int, NEW g, Sums(w, SUBSET S, g)
  PROVE  \A s \in SUBSET S : g[s] \in Int
<1> DEFINE B == {n \in Nat : \E s \in SUBSET S : Cardinality(s) = n /\ g[s] \notin Int}
<1>0. \A s \in SUBSET S : IsFiniteSet(s) /\ Cardinality(s) \in Nat
  BY FS_Subset, FS_CardinalityType
<1>1. \A s \in SUBSET S : g[s] = SumBy(w, g, s)
  BY DEF Sums
<1> SUFFICES ASSUME B # {} PROVE FALSE
  BY <1>0
<1> DEFINE n == Min(B)
<1>2. n \in B /\ n \in Nat /\ \A y \in B : n <= y
  <2>1. PICK b \in B : TRUE
    OBVIOUS
  <2>2. B \in SUBSET Nat
    OBVIOUS
  <2> HIDE DEF B
  <2> QED BY <2>1, <2>2, LeastOf
<1> HIDE DEF n
<1>3. PICK s \in SUBSET S : Cardinality(s) = n /\ g[s] \notin Int
  BY <1>2
<1>4. s # {}
  <2>1. s = {} => g[s] = 0
    BY <1>1 DEF SumBy
  <2> QED BY <2>1, <1>3
<1> DEFINE x == Pick(s)
           r == s \ {x}
<1>5. x \in s
  BY <1>4, PickIn
<1>6. Cardinality(r) = n - 1 /\ n - 1 \in Nat /\ r \in SUBSET S
  <2>1. Cardinality(r) = Cardinality(s) - 1 /\ Cardinality(r) \in Nat
    BY <1>0, <1>5, OneLess
  <2> QED BY <2>1, <1>3
<1>7. g[r] \in Int
  <2>1. n - 1 \notin B
    <3> HIDE DEF B
    <3> QED BY <1>2, <1>6
  <2> QED BY <2>1, <1>6
<1>8. g[s] = w[x] + g[r]
  BY <1>1, <1>4 DEF SumBy
<1>9. w[x] \in Int
  BY <1>5
<1> QED BY <1>3, <1>7, <1>8, <1>9

\* The sums over subsets are among those over a set.
LEMMA SumsAgree ==
  ASSUME NEW S, IsFiniteSet(S), NEW w, NEW g, Sums(w, SUBSET S, g), NEW T \in SUBSET S
  PROVE  SumFunctionOnSet(w, T) = g[T]
<1>a. IsFiniteSet(T)
  BY FS_Subset
<1>b. PICK h : Sums(w, SUBSET T, h) /\ SumFunctionOnSet(w, T) = h[T]
  BY <1>a, SumIs
<1> DEFINE B == {n \in Nat : \E s \in SUBSET T : Cardinality(s) = n /\ g[s] # h[s]}
<1>0. \A s \in SUBSET T : IsFiniteSet(s) /\ Cardinality(s) \in Nat
  <2>1. \A s \in SUBSET T : s \in SUBSET S
    OBVIOUS
  <2> QED BY <2>1, FS_Subset, FS_CardinalityType
<1>1. \A s \in SUBSET T : g[s] = SumBy(w, g, s) /\ h[s] = SumBy(w, h, s)
  BY <1>b DEF Sums
<1> SUFFICES ASSUME B # {} PROVE FALSE
  <2>1. T \in SUBSET T
    OBVIOUS
  <2> QED BY <2>1, <1>0, <1>b
<1> DEFINE n == Min(B)
<1>2. n \in B /\ n \in Nat /\ \A y \in B : n <= y
  <2>1. PICK b \in B : TRUE
    OBVIOUS
  <2>2. B \in SUBSET Nat
    OBVIOUS
  <2> HIDE DEF B
  <2> QED BY <2>1, <2>2, LeastOf
<1> HIDE DEF n
<1>3. PICK s \in SUBSET T : Cardinality(s) = n /\ g[s] # h[s]
  BY <1>2
<1>4. s # {}
  BY <1>1, <1>3 DEF SumBy
<1> DEFINE x == Pick(s)
           r == s \ {x}
<1>5. x \in s
  BY <1>4, PickIn
<1>6. Cardinality(r) = n - 1 /\ n - 1 \in Nat /\ r \in SUBSET T
  <2>1. Cardinality(r) = Cardinality(s) - 1 /\ Cardinality(r) \in Nat
    BY <1>0, <1>5, OneLess
  <2> QED BY <2>1, <1>3
<1>7. g[r] = h[r]
  <2>1. n - 1 \notin B
    <3> HIDE DEF B
    <3> QED BY <1>2, <1>6
  <2> QED BY <2>1, <1>6
<1>8. g[s] = w[x] + g[r] /\ h[s] = w[x] + h[r]
  BY <1>1, <1>4 DEF SumBy
<1> QED BY <1>3, <1>7, <1>8

\* Any member may be the first.
LEMMA SumsSplit ==
  ASSUME NEW S, IsFiniteSet(S), NEW w, \A x \in S : w[x] \in Int, NEW g, Sums(w, SUBSET S, g),
         NEW z \in S
  PROVE  g[S] = w[z] + g[S \ {z}]
<1> DEFINE B == {n \in Nat : \E s \in SUBSET S : Cardinality(s) = n
                                 /\ \E x \in s : g[s] # w[x] + g[s \ {x}]}
<1>0. \A s \in SUBSET S : IsFiniteSet(s) /\ Cardinality(s) \in Nat /\ g[s] \in Int
  BY FS_Subset, FS_CardinalityType, SumsType
<1>1. \A s \in SUBSET S : g[s] = SumBy(w, g, s)
  BY DEF Sums
<1> SUFFICES ASSUME B # {} PROVE FALSE
  <2>1. S \in SUBSET S
    OBVIOUS
  <2> QED BY <2>1, <1>0
<1> DEFINE n == Min(B)
<1>2. n \in B /\ n \in Nat /\ \A y \in B : n <= y
  <2>1. PICK b \in B : TRUE
    OBVIOUS
  <2>2. B \in SUBSET Nat
    OBVIOUS
  <2> HIDE DEF B
  <2> QED BY <2>1, <2>2, LeastOf
<1> HIDE DEF n
<1>3. PICK s \in SUBSET S : Cardinality(s) = n /\ \E x \in s : g[s] # w[x] + g[s \ {x}]
  BY <1>2
<1>4. PICK x \in s : g[s] # w[x] + g[s \ {x}]
  BY <1>3
<1> DEFINE y == Pick(s)
           r == s \ {y}
           t == s \ {x}
           u == r \ {x}
<1>5. y \in s /\ g[s] = w[y] + g[r]
  BY <1>1, PickIn DEF SumBy
<1>6. x # y
  BY <1>4, <1>5
<1>7. ASSUME NEW v \in s
      PROVE  /\ s \ {v} \in SUBSET S /\ n - 1 \in Nat /\ Cardinality(s \ {v}) = n - 1
  <2>1. Cardinality(s \ {v}) = Cardinality(s) - 1 /\ Cardinality(s \ {v}) \in Nat
    BY <1>0, OneLess
  <2> QED BY <2>1, <1>3
<1>8. \A a \in SUBSET S : Cardinality(a) = n - 1 => \A v \in a : g[a] = w[v] + g[a \ {v}]
  <2>1. n - 1 \in Nat
    BY <1>7
  <2>2. n - 1 \notin B
    <3> HIDE DEF B
    <3> QED BY <1>2, <2>1
  <2> QED BY <2>1, <2>2
<1>9. g[r] = w[x] + g[u]
  <2>1. x \in r
    BY <1>6
  <2> QED BY <2>1, <1>5, <1>7, <1>8
<1>10. g[t] = w[y] + g[u]
  <2>1. y \in t /\ t \ {y} = u
    BY <1>5, <1>6
  <2>2. g[t] = w[y] + g[t \ {y}]
    <3>1. t \in SUBSET S /\ Cardinality(t) = n - 1
      BY <1>7
    <3> HIDE DEF t, y
    <3> QED BY <3>1, <2>1, <1>8
  <2> QED BY <2>1, <2>2
<1>11. w[x] \in Int /\ w[y] \in Int /\ g[u] \in Int
  <2>1. u \in SUBSET S
    OBVIOUS
  <2>2. x \in S /\ y \in S
    BY <1>5
  <2> QED BY <2>1, <2>2, <1>0
<1> HIDE DEF y, r, t, u
<1>12. g[s] # w[x] + g[t]
  BY <1>4 DEF t
<1> QED BY <1>5, <1>9, <1>10, <1>11, <1>12

\* One number more.
LEMMA SumStep ==
  ASSUME NEW S, IsFiniteSet(S), NEW w, \A x \in S : w[x] \in Int
  PROVE  /\ SumFunctionOnSet(w, {}) = 0
         /\ SumFunctionOnSet(w, S) \in Int
         /\ \A x \in S : SumFunctionOnSet(w, S) = w[x] + SumFunctionOnSet(w, S \ {x})
<1>1. PICK g : Sums(w, SUBSET S, g) /\ SumFunctionOnSet(w, S) = g[S]
  BY SumIs
<1>2. PICK e : Sums(w, SUBSET {}, e) /\ SumFunctionOnSet(w, {}) = e[{}]
  <2>1. IsFiniteSet({})
    BY FS_EmptySet
  <2> QED BY <2>1, SumIs
<1>3. e[{}] = 0
  <2>1. {} \in SUBSET {}
    OBVIOUS
  <2>2. e[{}] = SumBy(w, e, {})
    BY <1>2, <2>1 DEF Sums
  <2> QED BY <2>2 DEF SumBy
<1>4. g[S] \in Int
  BY <1>1, SumsType
<1>5. ASSUME NEW x \in S
      PROVE  SumFunctionOnSet(w, S) = w[x] + SumFunctionOnSet(w, S \ {x})
  <2> DEFINE T == S \ {x}
  <2>1. Sums(w, SUBSET S, g) /\ T \in SUBSET S
    BY <1>1
  <2> HIDE DEF T
  <2>2. g[S] = w[x] + g[S \ {x}]
    BY <2>1, SumsSplit
  <2>3. SumFunctionOnSet(w, T) = g[T]
    BY <2>1, SumsAgree
  <2> QED BY <1>1, <2>2, <2>3 DEF T
<1> QED BY <1>1, <1>2, <1>3, <1>4, <1>5

-----------------------------------------------------------------------------
(* Running sums.                                                           *)

\* the sums of the first 0, 1, .. m numbers of w
Running(w, m) == [j \in 0 .. m |-> SumFunctionOnSet(w, 1 .. j)]

\* T adds up the first m numbers of w
AddsUp(T, w, m) ==
    /\ T \in [0 .. m -> Int]
    /\ T[0] = 0
    /\ \A j \in 1 .. m : T[j] = T[j - 1] + w[j]

LEMMA RunningAddsUp ==
  ASSUME NEW m \in Nat, NEW w, \A j \in 1 .. m : w[j] \in Int
  PROVE  AddsUp(Running(w, m), w, m)
<1> DEFINE S(j) == SumFunctionOnSet(w, 1 .. j)
<1>1. \A j \in 0 .. m : IsFiniteSet(1 .. j) /\ \A x \in 1 .. j : w[x] \in Int
  BY FS_Interval
<1>2. \A j \in 0 .. m : S(j) \in Int
  BY <1>1, SumStep
<1>3. S(0) = 0
  <2>1. 1 .. 0 = {}
    OBVIOUS
  <2> QED BY <2>1, <1>1, SumStep
<1>4. ASSUME NEW j \in 1 .. m PROVE S(j) = S(j - 1) + w[j]
  <2>1. j \in 1 .. j /\ (1 .. j) \ {j} = 1 .. (j - 1)
    OBVIOUS
  <2>2. SumFunctionOnSet(w, 1 .. j) = w[j] + SumFunctionOnSet(w, (1 .. j) \ {j})
    <3> DEFINE J == 1 .. j
    <3>1. IsFiniteSet(J) /\ (\A x \in J : w[x] \in Int) /\ j \in J
      BY <2>1, <1>1
    <3> HIDE DEF J, S
    <3>2. \A x \in J : SumFunctionOnSet(w, J) = w[x] + SumFunctionOnSet(w, J \ {x})
      BY <3>1, SumStep
    <3> QED BY <3>1, <3>2 DEF J
  <2>3. S(j) = w[j] + S(j - 1)
    BY <2>1, <2>2
  <2>4. S(j - 1) \in Int /\ w[j] \in Int
    BY <1>2
  <2> HIDE DEF S
  <2> QED BY <2>3, <2>4
<1>5. \A j \in 0 .. m : Running(w, m)[j] = S(j)
  BY DEF Running
<1>6. Running(w, m) \in [0 .. m -> Int]
  BY <1>2 DEF Running
<1> HIDE DEF S
<1> QED BY <1>3, <1>4, <1>5, <1>6 DEF AddsUp

\* Two running sums of the same numbers are the same.
LEMMA AddsUpSame ==
  ASSUME NEW m \in Nat, NEW w, NEW v, \A j \in 1 .. m : w[j] = v[j] /\ w[j] \in Int,
         NEW T, AddsUp(T, w, m), NEW U, AddsUp(U, v, m)
  PROVE  \A j \in 0 .. m : T[j] = U[j]
<1> DEFINE B == {j \in 0 .. m : T[j] # U[j]}
<1> SUFFICES ASSUME B # {} PROVE FALSE
  OBVIOUS
<1> DEFINE n == Min(B)
<1>1. n \in B /\ \A y \in B : n <= y
  <2>1. PICK b \in B : TRUE
    OBVIOUS
  <2>2. B \in SUBSET Nat
    OBVIOUS
  <2> HIDE DEF B
  <2> QED BY <2>1, <2>2, LeastOf
<1> HIDE DEF n
<1>2. n \in 1 .. m
  BY <1>1 DEF AddsUp
<1>3. n - 1 \in 0 .. m /\ ~(n <= n - 1)
  BY <1>2
<1>4. T[n - 1] = U[n - 1]
  BY <1>1, <1>3
<1> QED BY <1>1, <1>2, <1>4 DEF AddsUp

\* The sum of positive numbers grows.
LEMMA AddsUpGrows ==
  ASSUME NEW m \in Nat, NEW w, \A j \in 1 .. m : w[j] \in Nat \ {0},
         NEW T, AddsUp(T, w, m), NEW a \in 0 .. m
  PROVE  \A b \in 0 .. m : a < b => T[a] < T[b]
<1> DEFINE B == {b \in 0 .. m : a < b /\ ~(T[a] < T[b])}
<1> SUFFICES ASSUME B # {} PROVE FALSE
  OBVIOUS
<1> DEFINE n == Min(B)
<1>1. n \in B /\ \A y \in B : n <= y
  <2>1. PICK b \in B : TRUE
    OBVIOUS
  <2>2. B \in SUBSET Nat
    OBVIOUS
  <2> HIDE DEF B
  <2> QED BY <2>1, <2>2, LeastOf
<1> HIDE DEF n
<1>2. n \in 1 .. m /\ a <= n - 1 /\ n - 1 \in 0 .. m /\ ~(n <= n - 1)
  BY <1>1
<1>3. T[n] = T[n - 1] + w[n] /\ w[n] \in Nat \ {0} /\ T[n - 1] \in Int /\ T[a] \in Int
  BY <1>2 DEF AddsUp
<1>4. T[a] <= T[n - 1]
  BY <1>1, <1>2, <1>3
<1> QED BY <1>1, <1>3, <1>4

\* w has the numbers of v before place d, and nothing after it
EndsAt(w, v, m, d) ==
    /\ m \in Nat /\ d \in 1 .. m
    /\ \A j \in 1 .. m : w[j] \in Int
    /\ \A j \in 1 .. d - 1 : v[j] = w[j]
    /\ \A j \in d + 1 .. m : w[j] = 0

\* The sum of such numbers is that of v before d and the number at d.
LEMMA AddsUpTo ==
  ASSUME NEW m, NEW d, NEW w, NEW v, EndsAt(w, v, m, d),
         NEW T, AddsUp(T, w, m), NEW U, AddsUp(U, v, m)
  PROVE  T[m] = U[d - 1] + w[d]
<1>a. /\ m \in Nat /\ d \in 1 .. m
      /\ \A j \in 1 .. m : w[j] \in Int
      /\ \A j \in 1 .. d - 1 : v[j] = w[j]
      /\ \A j \in d + 1 .. m : w[j] = 0
  BY DEF EndsAt
<1> USE <1>a
<1> DEFINE B == {j \in 0 .. m : ~(IF j < d THEN T[j] = U[j] ELSE T[j] = U[d - 1] + w[d])}
<1>0. /\ \A j \in 0 .. m : T[j] \in Int /\ U[j] \in Int
      /\ \A j \in 1 .. m : T[j] = T[j - 1] + w[j] /\ U[j] = U[j - 1] + v[j]
      /\ T[0] = 0 /\ U[0] = 0
  BY DEF AddsUp
<1> SUFFICES ASSUME B # {} PROVE FALSE
  OBVIOUS
<1> DEFINE n == Min(B)
<1>1. n \in B /\ \A y \in B : n <= y
  <2>1. PICK b \in B : TRUE
    OBVIOUS
  <2>2. B \in SUBSET Nat
    OBVIOUS
  <2> HIDE DEF B
  <2> QED BY <2>1, <2>2, LeastOf
<1> HIDE DEF n
<1>2. n \in 1 .. m
  BY <1>0, <1>1
<1>3. n - 1 \in 0 .. m /\ ~(n <= n - 1)
  BY <1>2
<1>4. n - 1 \notin B
  <2> HIDE DEF B
  <2> QED BY <1>1, <1>3
<1>5. IF n - 1 < d THEN T[n - 1] = U[n - 1] ELSE T[n - 1] = U[d - 1] + w[d]
  BY <1>3, <1>4
<1>6. T[n] = T[n - 1] + w[n] /\ U[n] = U[n - 1] + v[n] /\ T[n - 1] \in Int /\ U[d - 1] \in Int
  BY <1>0, <1>2, <1>3
<1>7. ~(IF n < d THEN T[n] = U[n] ELSE T[n] = U[d - 1] + w[d])
  BY <1>1
<1>8. CASE n < d
  <2>1. v[n] = w[n]
    BY <1>2, <1>8
  <2> QED BY <1>2, <1>5, <1>6, <1>7, <1>8, <2>1
<1>9. CASE n = d
  BY <1>2, <1>5, <1>6, <1>7, <1>9
<1>10. CASE n > d
  <2>1. w[n] = 0
    BY <1>2, <1>10
  <2>2. w[d] \in Int
    OBVIOUS
  <2> QED BY <1>2, <1>5, <1>6, <1>7, <1>10, <2>1, <2>2
<1> QED BY <1>2, <1>8, <1>9, <1>10

-----------------------------------------------------------------------------
(* A side without levels.                                                  *)

\* The iterator returns nothing.
LEMMA NothingInOrder ==
  ASSUME NEW desc
  PROVE  BestFirst({}, desc) = <<>>
<1>1. Cardinality({}) = 0
  BY FS_EmptySet
<1> QED BY <1>1 DEF BestFirst

\* No levels have no quantity.
LEMMA NoBase ==
  ASSUME NEW l
  PROVE  Base(l, 0) = 0
<1> DEFINE w == [i \in DOMAIN l |-> l[i].q]
<1>1. 1 .. 0 = {} /\ IsFiniteSet({})
  BY FS_EmptySet
<1> HIDE DEF w
<1>2. SumFunctionOnSet(w, {}) = 0
  BY <1>1, SumStep
<1> QED BY <1>1, <1>2 DEF Base, w

\* Nor a value.
LEMMA NoTerm ==
  ASSUME NEW l
  PROVE  Term(l, 0) = 0
<1> DEFINE w == [i \in DOMAIN l |-> l[i].p * l[i].q]
<1>1. 1 .. 0 = {} /\ IsFiniteSet({})
  BY FS_EmptySet
<1> HIDE DEF w
<1>2. SumFunctionOnSet(w, {}) = 0
  BY <1>1, SumStep
<1> QED BY <1>1, <1>2 DEF Term, w

\* The lesser of two numbers.
LEMMA LesserOf ==
  ASSUME NEW a \in Int, NEW b \in Int
  PROVE  Min({a, b}) = IF a <= b THEN a ELSE b
<1> DEFINE m == IF a <= b THEN a ELSE b
<1>1. m \in {a, b} /\ \A y \in {a, b} : m <= y
  OBVIOUS
<1>2. \A x \in {a, b} : (\A y \in {a, b} : x <= y) => x = m
  OBVIOUS
<1> QED BY <1>1, <1>2 DEF Min

\* The consolidating readers return a function on an initial segment of the
\* positive numbers.
LEMMA TopsAreSegments ==
  ASSUME NEW l, NEW Q, NEW n
  PROVE  /\ book_ctops(l, Q, n) =
              [x \in 1 .. Min({n, Base(l, Len(l)) \div Q}) |-> book_ctops(l, Q, n)[x]]
         /\ book_vtops(l, Q, n) =
              [x \in 1 .. Min({n, Term(l, Len(l)) \div Q}) |-> book_vtops(l, Q, n)[x]]
<1> DEFINE C(x) == LET R == x * Q
                       j == Min({i \in DOMAIN l : Base(l, i) >= R})
                   IN  [p |-> quantize[<<Term(l, j) - l[j].p * (Base(l, j) - R), R>>], q |-> R]
           V(x) == LET R == x * Q
                       j == Min({i \in DOMAIN l : Term(l, i) >= R})
                       P == Base(l, j) * l[j].p - (Term(l, j) - R)
                   IN  [p |-> quantize[<<R * l[j].p, P>>], q |-> quantize[<<P, l[j].p>>]]
<1>1. book_ctops(l, Q, n) = [x \in 1 .. Min({n, Base(l, Len(l)) \div Q}) |-> C(x)]
  BY DEF book_ctops
<1>2. book_vtops(l, Q, n) = [x \in 1 .. Min({n, Term(l, Len(l)) \div Q}) |-> V(x)]
  BY DEF book_vtops
<1> HIDE DEF C, V
<1> QED BY <1>1, <1>2

\* A level consolidated to a quantity is quoted with a multiple of it, its
\* place in the list says which.
LEMMA TopsAreMultiples ==
  ASSUME NEW l, NEW Q, NEW n
  PROVE  book_ctops(l, Q, n) =
           [x \in DOMAIN book_ctops(l, Q, n) |->
               [p |-> book_ctops(l, Q, n)[x].p, q |-> x * Q]]
<1> DEFINE P(x) == LET R == x * Q
                       j == Min({i \in DOMAIN l : Base(l, i) >= R})
                   IN  quantize[<<Term(l, j) - l[j].p * (Base(l, j) - R), R>>]
           D == 1 .. Min({n, Base(l, Len(l)) \div Q})
<1>1. book_ctops(l, Q, n) = [x \in D |-> [p |-> P(x), q |-> x * Q]]
  BY DEF book_ctops
<1> HIDE DEF P, D
<1> QED BY <1>1

\* Whatever is asked for, a side without levels has no tops.
LEMMA NoTops ==
  ASSUME NEW Q \in Nat \ {0}, NEW n \in Nat
  PROVE  /\ book_tops(<<>>, n) = <<>>
         /\ book_ctops(<<>>, Q, n) = <<>>
         /\ book_vtops(<<>>, Q, n) = <<>>
<1>1. Len(<<>>) = 0
  OBVIOUS
<1>2. Min({n, 0}) = 0
  BY LesserOf
<1>3. 0 \div Q = 0
  OBVIOUS
<1>4. book_tops(<<>>, n) = <<>>
  BY <1>1, <1>2 DEF book_tops
<1> DEFINE c == book_ctops(<<>>, Q, n)
           v == book_vtops(<<>>, Q, n)
<1>s. /\ c = [x \in 1 .. Min({n, Base(<<>>, Len(<<>>)) \div Q}) |-> c[x]]
      /\ v = [x \in 1 .. Min({n, Term(<<>>, Len(<<>>)) \div Q}) |-> v[x]]
  BY TopsAreSegments, Zenon
<1> HIDE DEF c, v
<1>5. c = [x \in 1 .. 0 |-> c[x]]
  BY <1>s, <1>1, <1>2, <1>3, NoBase
<1>6. v = [x \in 1 .. 0 |-> v[x]]
  BY <1>s, <1>1, <1>2, <1>3, NoTerm
<1>7. c = <<>> /\ v = <<>>
  BY <1>5, <1>6
<1> QED BY <1>4, <1>7 DEF c, v

-----------------------------------------------------------------------------
(* The order of the iterator.                                              *)

\* The number of prices ahead tells the place: every price has a place of its
\* own, and every place is taken.
LEMMA Ranks ==
  ASSUME NEW P \in SUBSET Int, IsFiniteSet(P), NEW desc,
         NEW rank, rank = [p \in P |-> Cardinality({r \in P : Precedes(desc, r, p)})]
  PROVE  /\ Cardinality(P) \in Nat
         /\ rank \in [P -> 0 .. Cardinality(P) - 1]
         /\ \A a, b \in P : rank[a] < rank[b] <=> Precedes(desc, a, b)
         /\ \A i \in 0 .. Cardinality(P) - 1 : \E p \in P : rank[p] = i
<1> DEFINE n == Cardinality(P)
           A(p) == {r \in P : Precedes(desc, r, p)}
<1>n. n \in Nat
  BY FS_CardinalityType
<1>f. \A p : IsFiniteSet(A(p)) /\ Cardinality(A(p)) \in Nat
  <2> SUFFICES ASSUME NEW p PROVE IsFiniteSet(A(p)) /\ Cardinality(A(p)) \in Nat
    OBVIOUS
  <2>1. A(p) \in SUBSET P
    OBVIOUS
  <2>2. IsFiniteSet(A(p))
    BY <2>1, FS_Subset
  <2> HIDE DEF A
  <2> QED BY <2>2, FS_CardinalityType
<1>1. ASSUME NEW a \in P PROVE Cardinality(A(a)) \in 0 .. n - 1
  <2>0. ~Precedes(desc, a, a)
    BY DEF Precedes
  <2>1. A(a) \in SUBSET (P \ {a})
    <3>1. \A r \in A(a) : r \in P /\ r # a
      BY <2>0
    <3> HIDE DEF A
    <3> QED BY <3>1
  <2>2. IsFiniteSet(P \ {a}) /\ Cardinality(P \ {a}) = n - 1
    BY FS_RemoveElement
  <2>3. Cardinality(A(a)) <= n - 1
    <3> HIDE DEF A, n
    <3> QED BY <2>1, <2>2, FS_Subset
  <2> QED BY <2>3, <1>f, <1>n
<1>2. ASSUME NEW a \in P, NEW b \in P, Precedes(desc, a, b)
      PROVE  Cardinality(A(a)) < Cardinality(A(b))
  <2>1. A(a) \cup {a} \in SUBSET A(b)
    <3>1. \A r \in P : Precedes(desc, r, a) => Precedes(desc, r, b)
      BY <1>2 DEF Precedes
    <3>2. \A r \in A(a) \cup {a} : r \in A(b)
      BY <1>2, <3>1
    <3> HIDE DEF A
    <3> QED BY <3>2
  <2>2. a \notin A(a)
    BY DEF Precedes
  <2> HIDE DEF A
  <2>3. Cardinality(A(a) \cup {a}) = Cardinality(A(a)) + 1
    BY <2>2, <1>f, FS_AddElement
  <2>4. Cardinality(A(a) \cup {a}) <= Cardinality(A(b))
    BY <2>1, <1>f, FS_Subset
  <2> QED BY <2>3, <2>4, <1>f
<1>3. \A a, b \in P : a = b \/ Precedes(desc, a, b) \/ Precedes(desc, b, a)
  BY DEF Precedes
<1>4. \A p \in P : rank[p] = Cardinality(A(p))
  OBVIOUS
<1> HIDE DEF A
<1>5. rank \in [P -> 0 .. n - 1]
  BY <1>1, <1>4
<1>6. \A a, b \in P : rank[a] < rank[b] <=> Precedes(desc, a, b)
  <2> SUFFICES ASSUME NEW a \in P, NEW b \in P
               PROVE  rank[a] < rank[b] <=> Precedes(desc, a, b)
    OBVIOUS
  <2>1. rank[a] \in Nat /\ rank[b] \in Nat
    BY <1>4, <1>f
  <2>2. Precedes(desc, a, b) => rank[a] < rank[b]
    BY <1>2, <1>4
  <2>3. Precedes(desc, b, a) => rank[b] < rank[a]
    BY <1>2, <1>4
  <2> QED BY <2>1, <2>2, <2>3, <1>3
<1>7. rank \in Injection(P, 0 .. n - 1)
  <2>1. ASSUME NEW a \in P, NEW b \in P, rank[a] = rank[b] PROVE a = b
    <3>1. rank[a] \in Nat /\ rank[b] \in Nat
      BY <1>4, <1>f
    <3> QED BY <2>1, <3>1, <1>3, <1>6
  <2> QED BY <2>1, <1>5 DEF Injection, IsInjective
<1>8. IsFiniteSet(0 .. n - 1) /\ Cardinality(0 .. n - 1) = n
  <2> HIDE DEF n
  <2> QED BY <1>n, FS_Interval
<1>9. rank \in Surjection(P, 0 .. n - 1)
  BY <1>7, <1>8, FS_Injection
<1>10. \A i \in 0 .. n - 1 : \E p \in P : rank[p] = i
  BY <1>9 DEF Surjection
<1> QED BY <1>n, <1>5, <1>6, <1>10

\* The iterator returns each price once, best first.
LEMMA InOrder ==
  ASSUME NEW P \in SUBSET Int, IsFiniteSet(P), NEW desc,
         NEW l, l = BestFirst(P, desc)
  PROVE  /\ l \in Seq(P) /\ Len(l) = Cardinality(P) /\ Len(l) \in Nat
         /\ DOMAIN l = 1 .. Len(l)
         /\ \A i, j \in 1 .. Len(l) : i < j <=> Precedes(desc, l[i], l[j])
         /\ \A p \in P : \E i \in 1 .. Len(l) : l[i] = p
<1> DEFINE rank == [p \in P |-> Cardinality({r \in P : Precedes(desc, r, p)})]
           n == Cardinality(P)
<1>2. \A p \in P : rank[p] = Cardinality({r \in P : Precedes(desc, r, p)})
  OBVIOUS
<1>0. rank = [p \in P |-> Cardinality({r \in P : Precedes(desc, r, p)})]
  OBVIOUS
<1> HIDE DEF rank
<1>1. /\ n \in Nat
      /\ rank \in [P -> 0 .. n - 1]
      /\ \A a, b \in P : rank[a] < rank[b] <=> Precedes(desc, a, b)
      /\ \A i \in 0 .. n - 1 : \E p \in P : rank[p] = i
  BY <1>0, Ranks, SMTT(20)
<1>3. l = [i \in 1 .. n |->
             CHOOSE p \in P : Cardinality({r \in P : Precedes(desc, r, p)}) = i - 1]
  BY DEF BestFirst
<1> HIDE DEF n
<1>4. ASSUME NEW i \in 1 .. n PROVE l[i] \in P /\ rank[l[i]] = i - 1
  <2>1. i - 1 \in 0 .. n - 1
    BY <1>1
  <2>2. \E p \in P : Cardinality({r \in P : Precedes(desc, r, p)}) = i - 1
    BY <2>1, <1>1, <1>2
  <2>3. l[i] = CHOOSE p \in P : Cardinality({r \in P : Precedes(desc, r, p)}) = i - 1
    BY <1>3
  <2>4. l[i] \in P /\ Cardinality({r \in P : Precedes(desc, r, l[i])}) = i - 1
    BY <2>2, <2>3
  <2> QED BY <2>4, <1>2
<1>5. l \in [1 .. n -> P]
  BY <1>3, <1>4
<1>6. l \in Seq(P) /\ Len(l) = n /\ DOMAIN l = 1 .. n
  BY <1>1, <1>5
<1>7. \A i, j \in 1 .. n : i < j <=> Precedes(desc, l[i], l[j])
  <2> SUFFICES ASSUME NEW i \in 1 .. n, NEW j \in 1 .. n
               PROVE  i < j <=> Precedes(desc, l[i], l[j])
    OBVIOUS
  <2>1. rank[l[i]] < rank[l[j]] <=> Precedes(desc, l[i], l[j])
    BY <1>1, <1>4
  <2>2. rank[l[i]] = i - 1 /\ rank[l[j]] = j - 1
    BY <1>4
  <2> QED BY <2>1, <2>2, <1>1
<1>8. ASSUME NEW p \in P PROVE \E i \in 1 .. n : l[i] = p
  <2>1. rank[p] \in 0 .. n - 1
    BY <1>1
  <2>2. rank[p] + 1 \in 1 .. n
    BY <2>1, <1>1
  <2>3. l[rank[p] + 1] \in P /\ rank[l[rank[p] + 1]] = rank[p]
    BY <2>2, <2>1, <1>4, <1>1
  <2>4. l[rank[p] + 1] = p
    <3> DEFINE x == l[rank[p] + 1]
    <3>1. x \in P /\ rank[x] = rank[p] /\ rank[p] \in Int
      BY <2>1, <2>3
    <3> HIDE DEF x
    <3>2. ~(rank[x] < rank[p]) /\ ~(rank[p] < rank[x])
      BY <3>1
    <3>3. ~Precedes(desc, p, x) /\ ~Precedes(desc, x, p)
      BY <3>1, <3>2, <1>1
    <3>4. x \in Int /\ p \in Int
      BY <3>1
    <3>5. x = p
      BY <3>3, <3>4 DEF Precedes
    <3> QED BY <3>5 DEF x
  <2> QED BY <2>2, <2>4
<1> QED BY <1>1, <1>6, <1>7, <1>8 DEF n

\* the list l has all of P
Lists(l, P) == \A p \in P : \E i \in 1 .. Len(l) : l[i] = p

\* The iterator misses no price.
LEMMA NoneMissed ==
  ASSUME NEW P \in SUBSET Int, IsFiniteSet(P), NEW desc
  PROVE  Lists(BestFirst(P, desc), P)
<1> DEFINE l == BestFirst(P, desc)
<1>1. l = BestFirst(P, desc)
  OBVIOUS
<1> HIDE DEF l
<1>2. \A r \in P : \E i \in 1 .. Len(l) : l[i] = r
  BY <1>1, InOrder
<1> QED BY <1>1, <1>2 DEF Lists

\* The first n of a list are the list of those with less than n ahead.
LEMMA FirstInOrder ==
  ASSUME NEW P \in SUBSET Int, IsFiniteSet(P), NEW desc, NEW n \in Nat
  PROVE  BestFirst({p \in P : Cardinality({r \in P : Precedes(desc, r, p)}) < n}, desc) =
           SubSeq(BestFirst(P, desc), 1, Min({n, Len(BestFirst(P, desc))}))
<1> DEFINE T == {p \in P : Cardinality({r \in P : Precedes(desc, r, p)}) < n}
           A(p) == {r \in P : Precedes(desc, r, p)}
           rank == [p \in P |-> Cardinality(A(p))]
           N == Cardinality(P)
           M == IF n <= N THEN n ELSE N
           l == BestFirst(P, desc)
<1>0. rank = [p \in P |-> Cardinality({r \in P : Precedes(desc, r, p)})]
  OBVIOUS
<1>1. \A p \in P : rank[p] = Cardinality(A(p))
  OBVIOUS
<1>2. \A p : p \in T <=> p \in P /\ rank[p] < n
  <2>1. T = {p \in P : Cardinality(A(p)) < n}
    OBVIOUS
  <2> HIDE DEF rank, A, T
  <2> QED BY <1>1, <2>1
<1> HIDE DEF rank, T
<1>3. /\ N \in Nat
      /\ rank \in [P -> 0 .. N - 1]
      /\ \A a, b \in P : rank[a] < rank[b] <=> Precedes(desc, a, b)
      /\ \A i \in 0 .. N - 1 : \E p \in P : rank[p] = i
  BY <1>0, Ranks, SMTT(20)
<1>4. l = [i \in 1 .. N |-> CHOOSE p \in P : Cardinality(A(p)) = i - 1]
  BY DEF BestFirst
<1>5. BestFirst(T, desc) =
        [i \in 1 .. Cardinality(T) |->
            CHOOSE p \in T : Cardinality({r \in T : Precedes(desc, r, p)}) = i - 1]
  BY DEF BestFirst
<1>6. ASSUME NEW p \in T PROVE {r \in T : Precedes(desc, r, p)} = A(p)
  <2>1. p \in P /\ rank[p] < n /\ rank[p] \in Int
    <3>1. p \in P /\ rank[p] < n
      BY <1>2
    <3>2. rank[p] \in 0 .. N - 1
      BY <3>1, <1>3
    <3> QED BY <3>1, <3>2
  <2>2. ASSUME NEW r \in P, Precedes(desc, r, p) PROVE r \in T
    <3>1. rank[r] < rank[p] /\ rank[r] \in Int
      BY <2>1, <2>2, <1>3
    <3> QED BY <2>1, <3>1, <1>2
  <2>3. \A r \in T : r \in P
    BY <1>2
  <2> QED BY <2>2, <2>3
<1>7. \A a, b \in P : rank[a] = rank[b] => a = b
  <2> SUFFICES ASSUME NEW a \in P, NEW b \in P, rank[a] = rank[b] PROVE a = b
    OBVIOUS
  <2>1. rank[a] \in Int /\ rank[b] \in Int
    BY <1>3
  <2>2. ~Precedes(desc, a, b) /\ ~Precedes(desc, b, a)
    BY <2>1, <1>3
  <2> QED BY <2>2 DEF Precedes
<1>8. M \in Nat /\ M <= N /\ M <= n
  BY <1>3
<1> HIDE DEF A, N, M
<1>9. Cardinality(T) = M
  <2> DEFINE f == [p \in T |-> rank[p]]
  <2>1. f \in [T -> 0 .. M - 1]
    <3>1. ASSUME NEW p \in T PROVE rank[p] \in 0 .. M - 1
      <4>1. rank[p] \in 0 .. N - 1 /\ rank[p] < n
        BY <1>2, <1>3
      <4> QED BY <4>1, <1>3 DEF M
    <3> QED BY <3>1
  <2>2. \A a, b \in T : f[a] = f[b] => a = b
    BY <1>2, <1>7
  <2>3. ASSUME NEW i \in 0 .. M - 1 PROVE \E p \in T : f[p] = i
    <3>1. i \in 0 .. N - 1 /\ i < n
      BY <1>3, <1>8
    <3>2. PICK p \in P : rank[p] = i
      BY <3>1, <1>3
    <3> QED BY <3>1, <3>2, <1>2
  <2> HIDE DEF f
  <2>4. f \in Bijection(T, 0 .. M - 1)
    BY <2>1, <2>2, <2>3 DEF Bijection, Injection, Surjection, IsInjective
  <2>5. T \in SUBSET P
    BY <1>2
  <2>6. IsFiniteSet(T)
    BY <2>5, FS_Subset
  <2>7. Cardinality(0 .. M - 1) = M /\ IsFiniteSet(0 .. M - 1)
    BY <1>8, FS_Interval
  <2>8. ExistsBijection(T, 0 .. M - 1)
    BY <2>4 DEF ExistsBijection
  <2> QED BY <2>6, <2>7, <2>8, FS_Bijection
<1>10. ASSUME NEW i \in 1 .. M PROVE BestFirst(T, desc)[i] = l[i]
  <2>1. i \in 1 .. N /\ i - 1 \in 0 .. N - 1 /\ i - 1 < n
    BY <1>3, <1>8
  <2>2. PICK p \in P : rank[p] = i - 1
    BY <2>1, <1>3
  <2>3. p \in T
    BY <2>1, <2>2, <1>2
  <2>4. l[i] = CHOOSE x \in P : Cardinality(A(x)) = i - 1
    BY <2>1, <1>4
  <2>5. l[i] = p
    <3>1. l[i] \in P /\ Cardinality(A(l[i])) = i - 1
      BY <2>2, <2>4, <1>1
    <3> QED BY <3>1, <2>2, <1>1, <1>7
  <2> DEFINE B(x) == {r \in T : Precedes(desc, r, x)}
  <2>6. BestFirst(T, desc)[i] = CHOOSE x \in T : Cardinality(B(x)) = i - 1
    BY <1>5, <1>9
  <2>7. \A x \in T : Cardinality(B(x)) = rank[x]
    BY <1>1, <1>2, <1>6
  <2> HIDE DEF B
  <2>8. BestFirst(T, desc)[i] \in T /\ rank[BestFirst(T, desc)[i]] = i - 1
    BY <2>2, <2>3, <2>6, <2>7
  <2> QED BY <2>2, <2>5, <2>8, <1>2, <1>7
<1>11. Len(l) = N /\ DOMAIN l = 1 .. N
  BY <1>3, <1>4
<1>12. Min({n, Len(l)}) = M
  BY <1>3, <1>11, LesserOf DEF M
<1>13. BestFirst(T, desc) = [i \in 1 .. M |-> BestFirst(T, desc)[i]]
  BY <1>5, <1>9
<1> DEFINE u == BestFirst(T, desc)
<1> HIDE DEF l, u
<1>14. u = [i \in 1 .. M |-> l[i]]
  BY <1>10, <1>13 DEF u
<1>15. SubSeq(l, 1, M) = [i \in 1 .. M |-> l[i]]
  <2>1. l \in Seq(P)
    BY InOrder DEF l
  <2> QED BY <2>1, <1>3, <1>8, <1>11
<1> QED BY <1>12, <1>14, <1>15 DEF l, u, T

=============================================================================
