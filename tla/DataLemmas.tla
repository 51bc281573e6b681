------------------------------ MODULE DataLemmas ------------------------------
(***************************************************************************)
(* Facts about data that the proofs of several modules rest on: least      *)
(* elements, definitions by recursion, the library's sort.  Induction over *)
(* data is done here and below with LeastOf, on the set of                 *)
(* counterexamples.                                                        *)
(***************************************************************************)
EXTENDS Qsort, Sequences, FiniteSetTheorems, TLAPS

\* A non-empty set of naturals has a least element.
LEMMA LeastOf ==
  ASSUME NEW S, S \subseteq Nat, S # {}
  PROVE  \E x \in S : \A y \in S : x <= y
<1> DEFINE R == {ss \in Nat \X Nat : ss[1] < ss[2]}
<1>1. IsWellFoundedOn(R, Nat)
  BY NatLessThanWellFounded DEF OpToRel
<1>2. \A x, y \in Nat : <<y, x>> \in R <=> y < x
  OBVIOUS
<1> HIDE DEF R
<1>3. PICK x \in S : \A y \in S : ~(<<y, x>> \in R)
  BY <1>1, WFMin
<1>4. ASSUME NEW y \in S PROVE x <= y
  <2>1. x \in Nat /\ y \in Nat /\ ~(y < x)
    BY <1>2, <1>3
  <2> QED
    BY <2>1
<1> QED
  BY <1>4

\* A non-empty bounded set of naturals has a greatest element.
LEMMA GreatestOf ==
  ASSUME NEW S, S \subseteq Nat, S # {}, NEW n \in Nat, \A x \in S : x <= n
  PROVE  \E x \in S : \A y \in S : y <= x
<1> DEFINE T == {k \in Nat : n - k \in S}
<1>1. T \subseteq Nat /\ T # {}
  <2>1. PICK x \in S : TRUE
    OBVIOUS
  <2>2. n - x \in Nat /\ n - (n - x) = x
    BY <2>1
  <2> QED
    BY <2>1, <2>2
<1>2. PICK k \in T : \A j \in T : k <= j
  BY <1>1, LeastOf
<1>3. ASSUME NEW y \in S PROVE y <= n - k
  <2>1. y \in Nat /\ n - y \in Nat /\ n - (n - y) = y
    OBVIOUS
  <2>2. n - y \in T
    BY <2>1
  <2>3. k <= n - y /\ k \in Nat
    BY <1>2, <2>2
  <2> QED
    BY <2>1, <2>3
<1>4. n - k \in S
  BY <1>2
<1> QED
  BY <1>3, <1>4

\* F[<<x, g>>], the value at x of a function from D to V defined by recursion, uses no
\* more of g than its values where the measure m, at most N, is smaller.
Recursive(D, V, N, m, F) ==
    /\ V # {} /\ N \in Nat /\ m \in [D -> 0 .. N] /\ F \in [D \X [D -> V] -> V]
    /\ \A x \in D : \A g, h \in [D -> V] :
         (\A y \in D : m[y] < m[x] => g[y] = h[y]) => F[<<x, g>>] = F[<<x, h>>]

\* f and g agree where they agree on everything smaller.
Alike(D, N, m, f, g) ==
    /\ N \in Nat /\ m \in [D -> 0 .. N]
    /\ \A x \in D : (\A y \in D : m[y] < m[x] => f[y] = g[y]) => f[x] = g[x]

\* A definition by recursion has a solution.
LEMMA RecursionSolvable ==
  ASSUME NEW D, NEW V, NEW N, NEW m, NEW F, Recursive(D, V, N, m, F)
  PROVE  \E f \in [D -> V] : \A x \in D : f[x] = F[<<x, f>>]
<1>0. /\ V # {} /\ N \in Nat /\ m \in [D -> 0 .. N] /\ F \in [D \X [D -> V] -> V]
      /\ \A x \in D : \A g, h \in [D -> V] :
           (\A y \in D : m[y] < m[x] => g[y] = h[y]) => F[<<x, g>>] = F[<<x, h>>]
  BY DEF Recursive
<1> DEFINE Upto(k, g) == \A x \in D : m[x] < k => g[x] = F[<<x, g>>]
           Bad == {k \in Nat : ~\E g \in [D -> V] : Upto(k, g)}
<1>1. 0 \notin Bad
  <2>1. PICK v \in V : TRUE
    BY <1>0
  <2>2. [x \in D |-> v] \in [D -> V] /\ Upto(0, [x \in D |-> v])
    BY <1>0
  <2> QED
    BY <2>2
<1>2. ASSUME NEW k \in Nat, k \notin Bad PROVE k + 1 \notin Bad
  <2>1. PICK g \in [D -> V] : Upto(k, g)
    BY <1>2
  <2> DEFINE h == [x \in D |-> F[<<x, g>>]]
  <2>2. h \in [D -> V]
    BY <1>0
  <2>3. \A x \in D : m[x] < k => h[x] = g[x]
    BY <2>1
  <2>4. ASSUME NEW x \in D, m[x] < k + 1 PROVE h[x] = F[<<x, h>>]
    <3>1. \A y \in D : m[y] < m[x] => g[y] = h[y]
      BY <1>0, <2>3, <2>4
    <3>2. F[<<x, g>>] = F[<<x, h>>]
      <4> HIDE DEF h
      <4> QED
        BY <1>0, <2>2, <3>1
    <3> QED
      BY <3>2
  <2>5. Upto(k + 1, h)
    BY <2>4
  <2> HIDE DEF h, Upto
  <2> QED
    BY <2>2, <2>5
<1> HIDE DEF Bad
<1>3. Bad = {}
  <2> SUFFICES ASSUME Bad # {} PROVE FALSE
    OBVIOUS
  <2>1. Bad \subseteq Nat
    BY DEF Bad
  <2>2. PICK k \in Bad : \A j \in Bad : k <= j
    BY <2>1, LeastOf
  <2>3. k \in Nat /\ k # 0 /\ k - 1 \in Nat /\ k - 1 \notin Bad
    BY <1>1, <2>1, <2>2
  <2>4. (k - 1) + 1 \notin Bad
    BY <1>2, <2>3
  <2> QED
    BY <2>3, <2>4
<1>4. PICK f \in [D -> V] : Upto(N + 1, f)
  <2>1. N + 1 \in Nat /\ N + 1 \notin Bad
    BY <1>0, <1>3
  <2> HIDE DEF Upto
  <2> QED
    BY <2>1 DEF Bad
<1> QED
  BY <1>0, <1>4

\* ... and only one.
LEMMA RecursionUnique ==
  ASSUME NEW D, NEW N, NEW m, NEW f, NEW g, Alike(D, N, m, f, g)
  PROVE  \A x \in D : f[x] = g[x]
<1>0. /\ m \in [D -> Nat]
      /\ \A x \in D : (\A y \in D : m[y] < m[x] => f[y] = g[y]) => f[x] = g[x]
  BY DEF Alike
<1> DEFINE Bad == {m[x] : x \in {x \in D : f[x] # g[x]}}
<1> SUFFICES ASSUME Bad # {} PROVE FALSE
  OBVIOUS
<1>1. Bad \subseteq Nat
  BY <1>0
<1>2. PICK k \in Bad : \A j \in Bad : k <= j
  BY <1>1, LeastOf
<1>3. PICK x \in D : f[x] # g[x] /\ m[x] = k
  BY <1>2
<1>4. ASSUME NEW y \in D, m[y] < m[x] PROVE f[y] = g[y]
  <2>1. m[y] \in Nat /\ m[x] \in Nat /\ ~(m[x] <= m[y])
    BY <1>0, <1>4
  <2>2. m[y] \notin Bad
    <3> HIDE DEF Bad
    <3> QED
      BY <1>2, <1>3, <2>1
  <2> QED
    BY <2>2
<1> QED
  BY <1>0, <1>3, <1>4

\* Induction up to N: what holds at 0, and at n when it holds at n - 1, holds throughout.
LEMMA Induct ==
  ASSUME NEW N \in Nat, NEW S, 0 \in S, \A n \in 1 .. N : n - 1 \in S => n \in S
  PROVE  \A n \in 0 .. N : n \in S
<1> DEFINE Bad == {n \in 0 .. N : n \notin S}
<1>1. ASSUME Bad # {}
      PROVE  FALSE
  <2>0. Bad \subseteq Nat
    OBVIOUS
  <2>1. PICK x \in Bad : \A y \in Bad : x <= y
    <3> HIDE DEF Bad
    <3> QED
      BY <1>1, <2>0, LeastOf
  <2>2. x \in 1 .. N /\ x - 1 \in 0 .. N /\ x - 1 < x
    BY <2>1
  <2>3. x - 1 \in S
    BY <2>1, <2>2
  <2> QED
    BY <2>1, <2>2, <2>3
<1> QED
  BY <1>1

\* A loop of N turns that starts with v and makes F[<<n, x>>] of x in its n-th turn.
Loop(N, V, v, F) == N \in Nat /\ v \in V /\ F \in [(1 .. N) \X V -> V]

\* What it has computed after each turn.
Run(N, V, v, F, f) ==
    f \in [0 .. N -> V] /\ f[0] = v /\ \A n \in 1 .. N : f[n] = F[<<n, f[n - 1]>>]

\* A loop has a run.
LEMMA LoopSolvable ==
  ASSUME NEW N, NEW V, NEW v, NEW F, Loop(N, V, v, F)
  PROVE  \E f : Run(N, V, v, F, f)
<1> USE DEF Loop
<1> DEFINE D == 0 .. N
           m == [n \in D |-> n]
           G == [x \in D \X [D -> V] |-> IF x[1] = 0 THEN v ELSE F[<<x[1], x[2][x[1] - 1]>>]]
<1>1. ASSUME NEW n \in D, NEW g \in [D -> V]
      PROVE  /\ G[<<n, g>>] = IF n = 0 THEN v ELSE F[<<n, g[n - 1]>>]
             /\ G[<<n, g>>] \in V
  <2>1. <<n, g>> \in D \X [D -> V]
    OBVIOUS
  <2>2. n # 0 => n \in 1 .. N /\ n - 1 \in D
    OBVIOUS
  <2>3. G[<<n, g>>] = IF n = 0 THEN v ELSE F[<<n, g[n - 1]>>]
    BY <2>1
  <2>4. n # 0 => g[n - 1] \in V
    BY <2>2
  <2>5. n # 0 => F[<<n, g[n - 1]>>] \in V
    BY <2>2, <2>4
  <2> QED
    BY <2>3, <2>5
<1>2. G \in [D \X [D -> V] -> V]
  <2>1. ASSUME NEW x \in D \X [D -> V]
        PROVE  G[x] \in V
    <3>1. x[1] \in D /\ x[2] \in [D -> V] /\ x = <<x[1], x[2]>>
      OBVIOUS
    <3> QED
      BY <1>1, <3>1
  <2> QED
    BY <2>1
<1>3. m \in [D -> 0 .. N] /\ V # {}
  OBVIOUS
<1>4. ASSUME NEW n \in D, NEW g \in [D -> V], NEW h \in [D -> V],
             \A y \in D : m[y] < m[n] => g[y] = h[y]
      PROVE  G[<<n, g>>] = G[<<n, h>>]
  <2>1. n # 0 => n - 1 \in D /\ m[n - 1] < m[n]
    OBVIOUS
  <2>2. n # 0 => g[n - 1] = h[n - 1]
    BY <1>4, <2>1
  <2> QED
    BY <1>1, <2>2
<1> HIDE DEF D, m, G
<1>5. Recursive(D, V, N, m, G)
  BY <1>2, <1>3, <1>4 DEF Recursive, D
<1>6. PICK f \in [D -> V] : \A x \in D : f[x] = G[<<x, f>>]
  BY <1>5, RecursionSolvable
<1>7. f[0] = v /\ \A n \in 1 .. N : f[n] = F[<<n, f[n - 1]>>]
  <2>1. 0 \in D /\ \A n \in 1 .. N : n \in D /\ n # 0
    BY DEF D
  <2> QED
    BY <1>1, <1>6, <2>1
<1> QED
  BY <1>6, <1>7 DEF D, Run

\* Division and its rest ...
LEMMA DivMod ==
  ASSUME NEW a \in Int, NEW b \in Int, b > 0
  PROVE  /\ a \div b \in Int /\ a % b \in 0 .. b - 1
         /\ a = b * (a \div b) + (a % b)
  OBVIOUS

\* ... are determined by what they add up to.
LEMMA DivUnique ==
  ASSUME NEW b \in Int, b > 0, NEW q \in Int, NEW r \in 0 .. b - 1, NEW a \in Int, a = b * q + r
  PROVE  a \div b = q /\ a % b = r
<1> DEFINE d == a \div b
           m == a % b
<1>1. d \in Int /\ m \in 0 .. b - 1 /\ a = b * d + m
  BY DivMod
<1> HIDE DEF d, m
<1>2. ASSUME q < d PROVE FALSE
  <2>1. b * (d - q) >= b
    BY <1>1, <1>2
  <2> QED
    BY <1>1, <2>1
<1>3. ASSUME d < q PROVE FALSE
  <2>1. b * (q - d) >= b
    BY <1>1, <1>3
  <2> QED
    BY <1>1, <2>1
<1>4. d = q
  BY <1>1, <1>2, <1>3
<1>5. m = r
  BY <1>1, <1>4
<1> QED
  BY <1>4, <1>5 DEF d, m

-----------------------------------------------------------------------------
(* Sorting. *)

\* R puts the elements of I in a row.
StrictOrder(I, R) ==
    /\ \A i \in I : <<i, i>> \notin R
    /\ \A i, j \in I : i # j => <<i, j>> \in R \/ <<j, i>> \in R
    /\ \A i, j, k \in I : <<i, j>> \in R /\ <<j, k>> \in R => <<i, k>> \in R

\* Ranked() is an enumeration of the set in that order.
LEMMA RankedEnumerates ==
  ASSUME NEW I, NEW R, IsFiniteSet(I), StrictOrder(I, R)
  PROVE  LET n == Cardinality(I)
             r == Ranked(I, R)
         IN /\ n \in Nat
            /\ r \in [1 .. n -> I]
            /\ \A a, b \in 1 .. n : a < b => <<r[a], r[b]>> \in R
            /\ \A i \in I : \E k \in 1 .. n : r[k] = i
<1> DEFINE n == Cardinality(I)
           r == Ranked(I, R)
           Before(i) == {j \in I : <<j, i>> \in R}
           rank == [i \in I |-> Cardinality(Before(i)) + 1]
<1>1. n \in Nat
  BY FS_CardinalityType
<1>2. \A i \in I : IsFiniteSet(Before(i)) /\ Cardinality(Before(i)) \in 0 .. n - 1
  <2> TAKE i \in I
  <2>1. Before(i) \in SUBSET I /\ Before(i) # I
    BY DEF StrictOrder
  <2> HIDE DEF Before
  <2>2. IsFiniteSet(Before(i)) /\ Cardinality(Before(i)) <= n /\ Cardinality(Before(i)) # n
    BY <2>1, FS_Subset
  <2>3. Cardinality(Before(i)) \in Nat
    BY <2>2, FS_CardinalityType
  <2> QED
    BY <1>1, <2>2, <2>3
<1>3. ASSUME NEW i \in I, NEW j \in I, <<i, j>> \in R
      PROVE  rank[i] < rank[j]
  <2>1. Before(i) \in SUBSET Before(j) /\ i \in Before(j) /\ i \notin Before(i)
    BY <1>3 DEF StrictOrder
  <2> HIDE DEF Before
  <2>2. IsFiniteSet(Before(j)) /\ Cardinality(Before(i)) \in Nat /\ Cardinality(Before(j)) \in Nat
    BY <1>1, <1>2
  <2>3. Cardinality(Before(i)) <= Cardinality(Before(j)) /\ Cardinality(Before(i)) # Cardinality(Before(j))
    BY <2>1, <2>2, FS_Subset
  <2> QED
    BY <2>2, <2>3
<1>4. rank \in [I -> 1 .. n]
  <2> HIDE DEF Before
  <2> QED
    BY <1>1, <1>2
<1> HIDE DEF rank
<1>5. \A i, j \in I : rank[i] = rank[j] => i = j
  <2> SUFFICES ASSUME NEW i \in I, NEW j \in I, rank[i] = rank[j], i # j
               PROVE  FALSE
    OBVIOUS
  <2>1. <<i, j>> \in R \/ <<j, i>> \in R
    BY DEF StrictOrder
  <2>2. rank[i] < rank[j] \/ rank[j] < rank[i]
    BY <1>3, <2>1
  <2> QED
    BY <1>1, <1>4, <2>2
<1>6. rank \in Injection(I, 1 .. n)
  BY <1>4, <1>5 DEF Injection, IsInjective
<1>7. \A k \in 1 .. n : \E i \in I : rank[i] = k
  <2>1. IsFiniteSet(1 .. n) /\ Cardinality(1 .. n) = n
    BY <1>1, FS_Interval
  <2>2. rank \in Surjection(I, 1 .. n)
    BY <1>6, <2>1, FS_Injection
  <2> QED
    BY <2>2 DEF Surjection
<1>8. \A i \in I : rank[i] - 1 = Cardinality(Before(i))
  <2> HIDE DEF Before
  <2>1. \A i \in I : rank[i] = Cardinality(Before(i)) + 1
    BY DEF rank
  <2> QED
    BY <1>1, <1>2, <2>1
<1>9. ASSUME NEW k \in 1 .. n PROVE r[k] \in I /\ rank[r[k]] = k
  <2>1. r[k] = CHOOSE i \in I : Cardinality(Before(i)) = k - 1
    BY DEF Ranked
  <2>2. PICK i \in I : rank[i] = k
    BY <1>7
  <2>3. Cardinality(Before(i)) = k - 1
    BY <1>8, <2>2
  <2> HIDE DEF Before
  <2>4. r[k] \in I /\ Cardinality(Before(r[k])) = k - 1
    BY <2>1, <2>3
  <2>5. rank[r[k]] \in Int /\ rank[r[k]] - 1 = k - 1
    BY <1>1, <1>4, <1>8, <2>4
  <2> QED
    BY <2>4, <2>5
<1>10. r \in [1 .. n -> I]
  <2> DEFINE e(k) == CHOOSE i \in I : Cardinality(Before(i)) = k - 1
  <2>1. r = [k \in 1 .. n |-> e(k)]
    BY DEF Ranked
  <2> HIDE DEF r, e
  <2>2. \A k \in 1 .. n : e(k) \in I
    BY <1>9, <2>1
  <2> QED
    BY <2>1, <2>2
<1>11. ASSUME NEW a \in 1 .. n, NEW b \in 1 .. n, a < b
       PROVE  <<r[a], r[b]>> \in R
  <2>1. r[a] \in I /\ r[b] \in I /\ rank[r[a]] = a /\ rank[r[b]] = b
    BY <1>9
  <2>2. ~(rank[r[b]] < rank[r[a]]) /\ rank[r[a]] # rank[r[b]]
    BY <1>1, <1>11, <2>1
  <2>3. <<r[b], r[a]>> \notin R
    BY <1>3, <2>1, <2>2
  <2> HIDE DEF r
  <2> QED
    BY <2>1, <2>2, <2>3 DEF StrictOrder
<1>12. ASSUME NEW i \in I PROVE \E k \in 1 .. n : r[k] = i
  <2>1. rank[i] \in 1 .. n
    BY <1>4
  <2>2. r[rank[i]] \in I /\ rank[r[rank[i]]] = rank[i]
    BY <1>9, <2>1
  <2> QED
    BY <1>5, <2>1, <2>2
<1> HIDE DEF r
<1> QED
  BY <1>1, <1>10, <1>11, <1>12 DEF r

\* g is f rearranged: o says which position of f each element comes from.
Arrangement(f, R, g, o) ==
    LET n == Cardinality(DOMAIN f)
    IN /\ n \in Nat /\ o \in [1 .. n -> DOMAIN f]
       /\ \A a, b \in 1 .. n : a < b => <<o[a], o[b]>> \in R
       /\ \A i \in DOMAIN f : \E k \in 1 .. n : o[k] = i
       /\ g = [k \in 1 .. n |-> f[o[k]]]

\* Arranged() rearranges its argument in the given order.
LEMMA ArrangedInOrder ==
  ASSUME NEW f, NEW R, IsFiniteSet(DOMAIN f), StrictOrder(DOMAIN f, R)
  PROVE  \E o : Arrangement(f, R, Arranged(f, R), o)
<1> DEFINE I == DOMAIN f
           o == Ranked(I, R)
<1>1. Arranged(f, R) = [k \in 1 .. Cardinality(I) |-> f[o[k]]]
  BY DEF Arranged
<1>2. /\ Cardinality(I) \in Nat
      /\ o \in [1 .. Cardinality(I) -> I]
      /\ \A a, b \in 1 .. Cardinality(I) : a < b => <<o[a], o[b]>> \in R
      /\ \A i \in I : \E k \in 1 .. Cardinality(I) : o[k] = i
  <2> HIDE DEF I
  <2>1. IsFiniteSet(I) /\ StrictOrder(I, R)
    BY DEF I
  <2> QED
    BY <2>1, RankedEnumerates
<1>3. Arrangement(f, R, Arranged(f, R), o)
  <2> HIDE DEF o
  <2> QED
    BY <1>1, <1>2 DEF Arrangement
<1> QED
  BY <1>3
=============================================================================
