-------------------------- MODULE OutputNamesProofs --------------------------
(***************************************************************************)
(* Proofs about OutputNames: the open-addressing table finds what the map  *)
(* has, through collisions, growth and failures, and no two inodes are     *)
(* answered the same name.                                                 *)
(***************************************************************************)
EXTENDS OutputNames, DataLemmas

-----------------------------------------------------------------------------
(* Probing. *)

\* A slot of the probe sequence is a slot of the table.
LEMMA SlotType ==
  ASSUME NEW n \in Nat \ {0}, NEW ino \in Nat, NEW k \in Nat
  PROVE  Slot(n, ino, k) \in 0 .. n - 1
<1> DEFINE a == ino * Multiplier + k
<1>1. a \in Int /\ n \in Int /\ n > 0
  BY DEF Multiplier
<1> HIDE DEF a
<1>2. a % n \in 0 .. n - 1
  BY <1>1, DivMod
<1> QED
  BY <1>2 DEF Slot, a

\* Probing comes to every slot of the table.
LEMMA EverySlot ==
  ASSUME NEW n \in Nat \ {0}, NEW ino \in Nat, NEW s \in 0 .. n - 1
  PROVE  \E k \in 0 .. n - 1 : Slot(n, ino, k) = s
<1> DEFINE a == ino * Multiplier
           r == a % n
           q == a \div n
           k == IF s >= r THEN s - r ELSE s - r + n
           Q == IF s >= r THEN q ELSE q + 1
<1>1. a \in Int /\ n \in Int /\ n > 0
  BY DEF Multiplier
<1> HIDE DEF a
<1>2. q \in Int /\ r \in 0 .. n - 1 /\ a = n * q + r
  BY <1>1, DivMod
<1> HIDE DEF q, r
<1>3. k \in 0 .. n - 1 /\ Q \in Int
  BY <1>2
<1>4. a + k = n * Q + s
  <2>1. CASE s >= r
    BY <1>1, <1>2, <2>1
  <2>2. CASE ~(s >= r)
    <3>1. k = s - r + n /\ Q = q + 1
      BY <2>2
    <3>2. n * (q + 1) = n * q + n
      BY <1>1, <1>2
    <3> QED
      BY <1>1, <1>2, <3>1, <3>2
  <2> QED
    BY <2>1, <2>2
<1> HIDE DEF k, Q
<1> DEFINE b == a + k
<1>5. b \in Int /\ b = n * Q + s
  BY <1>1, <1>3, <1>4
<1> HIDE DEF b
<1>6. b % n = s
  BY <1>1, <1>3, <1>5, DivUnique
<1> QED
  BY <1>3, <1>6 DEF Slot, a, b

\* The size of a table.
LEMMA TableHashSize ==
  ASSUME NEW h, NEW n, Table(h, n)
  PROVE  HashSize(h) = n
<1>1. n \in Nat \ {0} /\ DOMAIN h = 0 .. n - 1
  BY DEF Table
<1> DEFINE lo == 0
           hi == n - 1
<1>2. lo \in Int /\ hi \in Int /\ lo <= hi /\ hi - lo + 1 = n
  BY <1>1
<1>3. DOMAIN h = lo .. hi
  BY <1>1
<1> HIDE DEF lo, hi
<1>4. Cardinality(lo .. hi) = hi - lo + 1
  BY <1>2, FS_Interval
<1> QED
  BY <1>2, <1>3, <1>4 DEF HashSize

\* Where probing in a table that is not full ends.
ProbeEnd(h, n, ino, k) ==
    /\ k \in 0 .. n - 1 /\ Probe(h, ino) = Slot(n, ino, k)
    /\ h[Slot(n, ino, k)].ino \in {0, ino}
    /\ \A j \in 0 .. k - 1 : h[Slot(n, ino, j)].ino \notin {0, ino}

\* In a table with a vacant slot probing ends, at the first slot that is empty or has the
\* inode.
LEMMA ProbeEnds ==
  ASSUME NEW h, NEW n, NEW ino \in Nat, Table(h, n),
         \E s \in 0 .. n - 1 : h[s] = Vacant
  PROVE  \E k : ProbeEnd(h, n, ino, k)
<1>1. n \in Nat \ {0} /\ HashSize(h) = n
  BY TableHashSize DEF Table
<1> DEFINE E(k) == h[Slot(n, ino, k)].ino \in {0, ino}
           S == {k \in 0 .. n - 1 : E(k)}
           Is(k) == E(k) /\ \A j \in 0 .. k - 1 : ~E(j)
<1>2. S \subseteq Nat /\ S # {}
  <2>1. PICK s \in 0 .. n - 1 : h[s] = Vacant
    OBVIOUS
  <2>2. PICK k \in 0 .. n - 1 : Slot(n, ino, k) = s
    BY <1>1, EverySlot
  <2>3. E(k)
    BY <2>1, <2>2 DEF Vacant
  <2> QED
    BY <1>1, <2>3
<1>3. PICK x \in S : \A y \in S : x <= y
  <2> HIDE DEF S
  <2> QED
    BY <1>2, LeastOf
<1>4. x \in 0 .. n - 1 /\ Is(x)
  <2>1. x \in 0 .. n - 1 /\ E(x)
    BY <1>3
  <2>2. ASSUME NEW j \in 0 .. x - 1 PROVE ~E(j)
    <3>1. j \in 0 .. n - 1 /\ ~(x <= j)
      BY <1>1, <2>1
    <3> QED
      BY <1>3, <3>1
  <2> QED
    BY <2>1, <2>2
<1> DEFINE c == CHOOSE k \in 0 .. n - 1 : Is(k)
<1>5. Probe(h, ino) = Slot(n, ino, c)
  BY <1>1 DEF Probe, Ends
<1> HIDE DEF E
<1>6. c \in 0 .. n - 1 /\ Is(c)
  BY <1>4
<1> HIDE DEF c
<1>7. ProbeEnd(h, n, ino, c)
  BY <1>5, <1>6 DEF ProbeEnd, E
<1> QED
  BY <1>7

-----------------------------------------------------------------------------
(* Looking up and storing. *)

\* The first m entries of the map are of inodes.
Inodes(map, m) == m \in Nat /\ \A i \in 1 .. m : map[i].ino \in Nat \ {0}

\* A table with fewer entries than slots has a vacant slot.
LEMMA FreeSlot ==
  ASSUME NEW h, NEW n, NEW map, NEW m \in Nat, Holds(h, n, map, m), m < n
  PROVE  \E s \in 0 .. n - 1 : h[s] = Vacant
<1>1. PICK place \in [1 .. m -> 0 .. n - 1] : Stored(h, n, map, m, place)
  BY DEF Holds
<1> DEFINE I == 1 .. m
           D == 0 .. n - 1
           R == {place[i] : i \in I}
<1>2. n \in Nat
  BY DEF Holds, Table
<1>3. IsFiniteSet(I) /\ Cardinality(I) = m
  <2> DEFINE lo == 1
  <2>1. lo \in Int /\ m \in Int /\ I = lo .. m /\ (IF lo > m THEN 0 ELSE m - lo + 1) = m
    OBVIOUS
  <2> HIDE DEF lo, I
  <2> QED
    BY <2>1, FS_Interval
<1>4. IsFiniteSet(D) /\ Cardinality(D) = n
  <2> DEFINE lo == 0
             hi == n - 1
  <2>1. lo \in Int /\ hi \in Int /\ D = lo .. hi /\ (IF lo > hi THEN 0 ELSE hi - lo + 1) = n
    BY <1>2
  <2> HIDE DEF lo, hi, D
  <2> QED
    BY <2>1, FS_Interval
<1>5. place \in [I -> D]
  OBVIOUS
<1> HIDE DEF I, D
<1>6. IsFiniteSet(R) /\ Cardinality(R) <= m
  <2>1. place \in Surjection(I, R)
    BY <1>5 DEF Surjection
  <2> HIDE DEF R
  <2> QED
    BY <1>3, <2>1, FS_Surjection
<1>7. R # D
  <2> HIDE DEF R
  <2> QED
    BY <1>2, <1>4, <1>6
<1>8. PICK s \in D : s \notin R
  BY <1>5, <1>7
<1>9. h[s] = Vacant
  <2>1. s \in 0 .. n - 1
    BY DEF D
  <2>2. \A i \in 1 .. m : place[i] # s
    BY <1>8 DEF I
  <2> QED
    BY <1>1, <2>1, <2>2 DEF Stored
<1> QED
  BY <1>9 DEF D

\* The entry of the inode, or else an empty slot.
Finds(h, map, m, ino) ==
    /\ \A i \in 1 .. m : map[i].ino = ino => fm_hash_get(h, ino) = i
    /\ (\A i \in 1 .. m : map[i].ino # ino) =>
          fm_hash_get(h, ino) = 0 /\ h[Probe(h, ino)] = Vacant

\* A lookup finds the entry of the inode if there is one, and nothing else.
LEMMA GetFinds ==
  ASSUME NEW h, NEW n, NEW map, NEW m, NEW ino \in Nat \ {0},
         Holds(h, n, map, m), Inodes(map, m), m < n
  PROVE  Finds(h, map, m, ino)
<1>1. m \in Nat /\ \A i \in 1 .. m : map[i].ino \in Nat \ {0}
  BY DEF Inodes
<1>2. PICK place \in [1 .. m -> 0 .. n - 1] : Stored(h, n, map, m, place)
  BY DEF Holds
<1>3. Table(h, n) /\ n \in Nat \ {0}
  BY DEF Holds, Table
<1>4. HashSize(h) = n
  BY <1>3, TableHashSize
<1>5. fm_hash_get(h, ino) = h[Probe(h, ino)].idx
  BY <1>3, <1>4 DEF fm_hash_get
<1>6. PICK k : ProbeEnd(h, n, ino, k)
  BY <1>1, <1>3, FreeSlot, ProbeEnds
<1>7. ASSUME NEW i \in 1 .. m, map[i].ino = ino
      PROVE  fm_hash_get(h, ino) = i
  <2>1. PICK l \in 0 .. n - 1 : /\ place[i] = Slot(n, map[i].ino, l)
                                /\ \A j \in 0 .. l - 1 : h[Slot(n, map[i].ino, j)].ino \notin {0, map[i].ino}
    BY <1>2 DEF Stored
  <2>2. h[place[i]] = [ino |-> ino, idx |-> i]
    BY <1>2, <1>7 DEF Stored
  <2>3. h[Slot(n, ino, l)].ino = ino /\ \A j \in 0 .. l - 1 : h[Slot(n, ino, j)].ino \notin {0, ino}
    BY <1>7, <2>1, <2>2
  <2>4. l = k
    <3>1. k \in 0 .. n - 1 /\ l \in 0 .. n - 1
      BY <1>6 DEF ProbeEnd
    <3>2. ~(l < k)
      <4>1. ASSUME l < k PROVE FALSE
        <5>1. l \in 0 .. k - 1
          BY <1>3, <3>1, <4>1
        <5> QED
          BY <1>6, <2>3, <5>1 DEF ProbeEnd
      <4> QED
        BY <4>1
    <3>3. ~(k < l)
      <4>1. ASSUME k < l PROVE FALSE
        <5>1. k \in 0 .. l - 1
          BY <1>3, <3>1, <4>1
        <5> QED
          BY <1>6, <2>3, <5>1 DEF ProbeEnd
      <4> QED
        BY <4>1
    <3> QED
      BY <1>3, <3>1, <3>2, <3>3
  <2>5. Probe(h, ino) = place[i]
    BY <1>6, <1>7, <2>1, <2>4 DEF ProbeEnd
  <2> QED
    BY <1>5, <2>2, <2>5
<1>8. ASSUME \A i \in 1 .. m : map[i].ino # ino
      PROVE  fm_hash_get(h, ino) = 0 /\ h[Probe(h, ino)] = Vacant
  <2> DEFINE s == Probe(h, ino)
  <2>1. s \in 0 .. n - 1 /\ h[s].ino \in {0, ino}
    <3>1. k \in Nat /\ s = Slot(n, ino, k) /\ h[s].ino \in {0, ino}
      BY <1>6 DEF ProbeEnd
    <3> QED
      BY <1>3, <3>1, SlotType
  <2> HIDE DEF s
  <2>2. ASSUME h[s] # Vacant PROVE FALSE
    <3>1. PICK i \in 1 .. m : place[i] = s
      BY <1>2, <2>1, <2>2 DEF Stored
    <3>2. h[s].ino = map[i].ino
      <4>1. h[place[i]] = [ino |-> map[i].ino, idx |-> i]
        BY <1>2 DEF Stored
      <4> QED
        BY <3>1, <4>1
    <3> QED
      BY <1>1, <1>8, <2>1, <3>2
  <2> QED
    BY <1>5, <2>2 DEF s, Vacant
<1> QED
  BY <1>7, <1>8 DEF Finds

\* Storing an inode that is not in the table keeps what is there.
LEMMA PutHolds ==
  ASSUME NEW h, NEW n, NEW map, NEW m, NEW M, m + 1 = M,
         Holds(h, n, map, m), Inodes(map, M), m \in Nat, m < n,
         \A i \in 1 .. m : map[i].ino # map[M].ino
  PROVE  Holds(fm_hash_put(h, map[M].ino, M), n, map, M)
<1> DEFINE ino == map[M].ino
           s == Probe(h, ino)
           v == [ino |-> ino, idx |-> M]
           g == fm_hash_put(h, ino, M)
<1>1. M \in Nat /\ m \in Nat /\ M \in 1 .. M /\ \A i \in 1 .. M : map[i].ino \in Nat \ {0}
  BY DEF Inodes
<1>2. PICK place \in [1 .. m -> 0 .. n - 1] : Stored(h, n, map, m, place)
  BY DEF Holds
<1>3. Table(h, n) /\ n \in Nat \ {0}
  BY DEF Holds, Table
<1>4. HashSize(h) = n
  BY <1>3, TableHashSize
<1>5. g = [h EXCEPT ![s] = v]
  BY <1>3, <1>4 DEF fm_hash_put
<1>6. ino \in Nat \ {0} /\ v \in [ino : Nat, idx : Nat]
  BY <1>1
<1>7. PICK k : ProbeEnd(h, n, ino, k)
  BY <1>3, <1>6, FreeSlot, ProbeEnds
<1>8. s \in 0 .. n - 1 /\ s = Slot(n, ino, k) /\ k \in 0 .. n - 1
      /\ \A j \in 0 .. k - 1 : h[Slot(n, ino, j)].ino \notin {0, ino}
  <2>1. k \in Nat /\ s = Slot(n, ino, k) /\ k \in 0 .. n - 1
    BY <1>7 DEF ProbeEnd
  <2>2. \A j \in 0 .. k - 1 : h[Slot(n, ino, j)].ino \notin {0, ino}
    BY <1>7 DEF ProbeEnd
  <2>3. Slot(n, ino, k) \in 0 .. n - 1
    BY <1>3, <1>6, <2>1, SlotType
  <2> QED
    BY <2>1, <2>2, <2>3
<1>9. h[s] = Vacant
  <2>1. Inodes(map, m)
    BY <1>1 DEF Inodes
  <2>2. \A i \in 1 .. m : map[i].ino # ino
    OBVIOUS
  <2> HIDE DEF ino
  <2>3. h[Probe(h, ino)] = Vacant
    <3>1. Finds(h, map, m, ino)
      BY <1>6, <2>1, GetFinds
    <3> QED
      BY <2>2, <3>1 DEF Finds
  <2> QED
    BY <2>3
<1> HIDE DEF s, v, g
<1>10. Table(g, n)
  BY <1>3, <1>5, <1>6 DEF Table
<1>11. g[s] = v /\ \A t \in 0 .. n - 1 : t # s => g[t] = h[t]
  BY <1>3, <1>5, <1>8 DEF Table
<1>12. v.ino = ino /\ v.idx = M /\ v # Vacant
  BY <1>6 DEF v, Vacant
<1> HIDE DEF ino
<1> DEFINE place2 == [i \in 1 .. M |-> IF i = M THEN s ELSE place[i]]
<1>13. /\ place2 \in [1 .. M -> 0 .. n - 1] /\ place2[M] = s
       /\ \A i \in 1 .. m : i \in 1 .. M /\ i # M /\ place2[i] = place[i]
  BY <1>1, <1>8
<1>14. \A i \in 1 .. M : i = M \/ i \in 1 .. m
  BY <1>1
<1> HIDE DEF place2
<1>15. ASSUME NEW i \in 1 .. m
       PROVE  place[i] # s /\ place[i] \in 0 .. n - 1
  <2>1. h[place[i]] = [ino |-> map[i].ino, idx |-> i]
    BY <1>2 DEF Stored
  <2> QED
    BY <1>9, <2>1 DEF Vacant
<1>16. \A i \in 1 .. M : g[place2[i]] = [ino |-> map[i].ino, idx |-> i]
  <2>1. ASSUME NEW i \in 1 .. m
        PROVE  g[place2[i]] = [ino |-> map[i].ino, idx |-> i]
    <3>1. h[place[i]] = [ino |-> map[i].ino, idx |-> i]
      BY <1>2 DEF Stored
    <3> QED
      BY <1>11, <1>13, <1>15, <3>1
  <2>2. g[place2[M]] = [ino |-> map[M].ino, idx |-> M]
    BY <1>11, <1>13 DEF v, ino
  <2> QED
    BY <1>14, <2>1, <2>2
<1>17. \A t \in 0 .. n - 1 : g[t] # Vacant => \E i \in 1 .. M : place2[i] = t
  <2>1. ASSUME NEW t \in 0 .. n - 1, g[t] # Vacant, t # s
        PROVE  \E i \in 1 .. M : place2[i] = t
    <3>1. h[t] # Vacant
      BY <1>11, <2>1
    <3>2. PICK i \in 1 .. m : place[i] = t
      BY <1>2, <3>1 DEF Stored
    <3> QED
      BY <1>13, <3>2
  <2> QED
    BY <1>1, <1>13, <2>1
<1>18. ASSUME NEW i \in 1 .. m
       PROVE  \E l \in 0 .. n - 1 :
                /\ place2[i] = Slot(n, map[i].ino, l)
                /\ \A j \in 0 .. l - 1 : g[Slot(n, map[i].ino, j)].ino \notin {0, map[i].ino}
  <2>1. PICK l \in 0 .. n - 1 :
                /\ place[i] = Slot(n, map[i].ino, l)
                /\ \A j \in 0 .. l - 1 : h[Slot(n, map[i].ino, j)].ino \notin {0, map[i].ino}
    BY <1>2 DEF Stored
  <2>2. ASSUME NEW j \in 0 .. l - 1
        PROVE  g[Slot(n, map[i].ino, j)].ino \notin {0, map[i].ino}
    <3> DEFINE t == Slot(n, map[i].ino, j)
    <3>1. t \in 0 .. n - 1
      <4>1. j \in Nat /\ map[i].ino \in Nat
        BY <1>1, <1>13
      <4> QED
        BY <1>3, <4>1, SlotType
    <3>2. h[t].ino \notin {0, map[i].ino}
      BY <2>1
    <3> HIDE DEF t
    <3>3. t # s
      BY <1>9, <3>2 DEF Vacant
    <3>4. g[t] = h[t]
      BY <1>11, <3>1, <3>3
    <3> QED
      BY <3>2, <3>4 DEF t
  <2> QED
    BY <1>13, <2>1, <2>2
<1>19. \E l \in 0 .. n - 1 :
         /\ place2[M] = Slot(n, map[M].ino, l)
         /\ \A j \in 0 .. l - 1 : g[Slot(n, map[M].ino, j)].ino \notin {0, map[M].ino}
  <2>1. ASSUME NEW j \in 0 .. k - 1
        PROVE  g[Slot(n, ino, j)].ino \notin {0, ino}
    <3> DEFINE t == Slot(n, ino, j)
    <3>1. t \in 0 .. n - 1
      <4>1. j \in Nat /\ ino \in Nat
        BY <1>6
      <4> QED
        BY <1>3, <4>1, SlotType
    <3>2. h[t].ino \notin {0, ino}
      BY <1>8
    <3> HIDE DEF t
    <3>3. t # s
      BY <1>9, <3>2 DEF Vacant
    <3>4. g[t] = h[t]
      BY <1>11, <3>1, <3>3
    <3> QED
      BY <3>2, <3>4 DEF t
  <2>2. place2[M] = Slot(n, ino, k)
    BY <1>8, <1>13
  <2> QED
    BY <1>8, <2>1, <2>2 DEF ino
<1>20. Stored(g, n, map, M, place2)
  <2>1. \A i \in 1 .. M : \E l \in 0 .. n - 1 :
                /\ place2[i] = Slot(n, map[i].ino, l)
                /\ \A j \in 0 .. l - 1 : g[Slot(n, map[i].ino, j)].ino \notin {0, map[i].ino}
    BY <1>14, <1>18, <1>19
  <2> QED
    BY <1>16, <1>17, <2>1 DEF Stored
<1> QED
  BY <1>10, <1>13, <1>20 DEF Holds, g, ino

-----------------------------------------------------------------------------
(* Rebuilding. *)

\* The new size is large enough.
LEMMA TableSizeType ==
  ASSUME NEW min \in Nat
  PROVE  TableSize(min) \in Nat \ {0} /\ TableSize(min) >= 2 * min
<1> DEFINE N == 2 * min
           Sizes(f) == f = [k \in 0 .. N |-> IF k = 0 THEN HashMin ELSE 2 * f[k - 1]]
           ns == CHOOSE f : Sizes(f)
           V == Nat
           F == [x \in (1 .. N) \X V |-> 2 * x[2]]
           Is(k) == ns[k] >= N /\ \A j \in 0 .. k - 1 : ns[j] < N
<1>1. N \in Nat /\ HashMin \in V /\ HashMin >= 1
  BY NamesAssumption
<1>2. TableSize(min) = ns[CHOOSE k \in 0 .. N : Is(k)]
  BY DEF TableSize
<1> HIDE DEF N
<1>3. F \in [(1 .. N) \X V -> V] /\ \A k \in 1 .. N, x \in V : F[<<k, x>>] = 2 * x
  BY <1>1
<1> HIDE DEF V, F
<1>4. Loop(N, V, HashMin, F)
  BY <1>1, <1>3 DEF Loop
<1>5. PICK f : Run(N, V, HashMin, F, f)
  BY <1>4, LoopSolvable
<1>6. Sizes(f)
  <2>1. f \in [0 .. N -> V] /\ f[0] = HashMin /\ \A n \in 1 .. N : f[n] = F[<<n, f[n - 1]>>]
    BY <1>5 DEF Run
  <2>2. ASSUME NEW k \in 0 .. N, k # 0
        PROVE  f[k] = 2 * f[k - 1]
    <3>1. k \in 1 .. N /\ k - 1 \in 0 .. N
      BY <1>1, <2>2
    <3>2. f[k - 1] \in V
      BY <2>1, <3>1
    <3> QED
      BY <1>3, <2>1, <3>1, <3>2
  <2> QED
    BY <2>1, <2>2
<1> HIDE DEF Sizes
<1>7. Sizes(ns)
  BY <1>6
<1> HIDE DEF ns
<1>8. ns[0] = HashMin /\ \A k \in 1 .. N : ns[k] = 2 * ns[k - 1]
  BY <1>1, <1>7 DEF Sizes
<1>9. \A k \in 0 .. N : ns[k] \in Nat /\ ns[k] > k
  <2> DEFINE S == {k \in 0 .. N : ns[k] \in Nat /\ ns[k] > k}
  <2>1. 0 \in S
    BY <1>1, <1>8 DEF V
  <2>2. \A k \in 1 .. N : k - 1 \in S => k \in S
    <3> TAKE k \in 1 .. N
    <3> HAVE k - 1 \in S
    <3>1. ns[k - 1] \in Nat /\ ns[k - 1] > k - 1 /\ ns[k] = 2 * ns[k - 1]
      BY <1>8
    <3> QED
      BY <1>1, <3>1
  <2> HIDE DEF S
  <2>3. \A k \in 0 .. N : k \in S
    BY <1>1, <2>1, <2>2, Induct
  <2> QED
    BY <2>3 DEF S
<1>10. \E k \in 0 .. N : Is(k)
  <2> DEFINE S == {k \in 0 .. N : ns[k] >= N}
  <2>1. N \in S /\ S \subseteq Nat
    BY <1>1, <1>9
  <2>2. PICK x \in S : \A y \in S : x <= y
    <3> HIDE DEF S
    <3> QED
      BY <2>1, LeastOf
  <2>3. x \in 0 .. N /\ ns[x] >= N
    BY <2>2
  <2>4. ASSUME NEW j \in 0 .. x - 1 PROVE ns[j] < N
    <3>1. j \in 0 .. N /\ ~(x <= j)
      BY <1>1, <2>3
    <3>2. ns[j] \in Nat
      BY <1>9, <3>1
    <3> QED
      BY <1>1, <2>2, <3>1, <3>2
  <2> QED
    BY <2>3, <2>4
<1> DEFINE c == CHOOSE k \in 0 .. N : Is(k)
<1>11. c \in 0 .. N /\ ns[c] >= N
  <2>1. c \in 0 .. N /\ Is(c)
    <3> HIDE DEF Is
    <3> QED
      BY <1>10
  <2> QED
    BY <2>1
<1> HIDE DEF c
<1>12. ns[c] \in Nat \ {0}
  BY <1>1, <1>9, <1>11
<1> QED
  BY <1>2, <1>11, <1>12 DEF c, N

\* A rebuilt table holds the map.
LEMMA RebuildHolds ==
  ASSUME NEW map, NEW min \in Nat, Len(map) \in Nat, Inodes(map, Len(map)),
         \A i, j \in 1 .. Len(map) : map[i].ino = map[j].ino => i = j,
         Len(map) <= 2 * min, 2 * min > 0
  PROVE  \E n \in Nat : n >= 2 * min /\ Holds(fm_hash_rebuild(map, min), n, map, Len(map))
<1> DEFINE n == TableSize(min)
           N == Len(map)
           e == [s \in 0 .. n - 1 |-> Vacant]
           B(f, i) == IF i = 0 THEN e ELSE fm_hash_put(f[i - 1], map[i].ino, i)
           Fills(f) == f = [i \in 0 .. N |-> B(f, i)]
           put == CHOOSE f : Fills(f)
           V == [0 .. n - 1 -> [ino : Nat, idx : Nat]]
           F == [x \in (1 .. N) \X V |-> fm_hash_put(x[2], map[x[1]].ino, x[1])]
<1>1. n \in Nat \ {0} /\ n >= 2 * min
  BY TableSizeType
<1>2. fm_hash_rebuild(map, min) = put[N]
  BY DEF fm_hash_rebuild, Filled
<1>0. N \in Nat /\ N <= n
  BY <1>1
<1> HIDE DEF n
<1>3. e \in V /\ Table(e, n)
  BY <1>1 DEF Vacant, Table
<1>4. ASSUME NEW i \in 1 .. N, NEW h \in V
      PROVE  fm_hash_put(h, map[i].ino, i) \in V /\ F[<<i, h>>] = fm_hash_put(h, map[i].ino, i)
  <2>1. map[i].ino \in Nat
    BY DEF Inodes
  <2>2. [ino |-> map[i].ino, idx |-> i] \in [ino : Nat, idx : Nat]
    BY <2>1
  <2>3. fm_hash_put(h, map[i].ino, i) \in V
    BY <2>2 DEF fm_hash_put
  <2> QED
    BY <2>3
<1>5. F \in [(1 .. N) \X V -> V]
  <2>1. ASSUME NEW x \in (1 .. N) \X V PROVE F[x] \in V
    <3>1. x[1] \in 1 .. N /\ x[2] \in V /\ x = <<x[1], x[2]>>
      OBVIOUS
    <3> HIDE DEF F, V
    <3> QED
      BY <1>4, <3>1
  <2> HIDE DEF V
  <2> QED
    BY <2>1
<1> HIDE DEF V, F, e, N
<1>6. Loop(N, V, e, F)
  BY <1>0, <1>3, <1>5 DEF Loop
<1>7. PICK f : Run(N, V, e, F, f)
  BY <1>6, LoopSolvable
<1>8. f \in [0 .. N -> V] /\ f[0] = e /\ \A i \in 1 .. N : f[i] = F[<<i, f[i - 1]>>]
  BY <1>7 DEF Run
<1>9. Fills(f)
  <2>1. ASSUME NEW i \in 0 .. N, i # 0
        PROVE  f[i] = fm_hash_put(f[i - 1], map[i].ino, i)
    <3>1. i \in 1 .. N /\ i - 1 \in 0 .. N
      BY <1>0, <2>1
    <3>2. f[i - 1] \in V
      BY <1>8, <3>1
    <3> QED
      BY <1>4, <1>8, <3>1, <3>2
  <2>2. \A i \in 0 .. N : f[i] = B(f, i)
    BY <1>8, <2>1
  <2> HIDE DEF B
  <2> QED
    BY <1>8, <2>2
<1> HIDE DEF Fills
<1>10. Fills(put)
  BY <1>9
<1> HIDE DEF put
<1>11. put[0] = e /\ \A i \in 1 .. N : put[i] = fm_hash_put(put[i - 1], map[i].ino, i)
  BY <1>0, <1>10 DEF Fills
<1>12. \A i \in 0 .. N : Holds(put[i], n, map, i)
  <2> DEFINE S == {i \in 0 .. N : Holds(put[i], n, map, i)}
  <2>1. 0 \in S
    <3>1. \A s \in 0 .. n - 1 : e[s] = Vacant
      BY DEF e
    <3> DEFINE place == [i \in {} |-> 0]
               m == 0
    <3>2. 1 .. m = {} /\ place \in [1 .. m -> 0 .. n - 1]
      OBVIOUS
    <3> HIDE DEF place, m
    <3>3. Stored(e, n, map, m, place)
      BY <3>1, <3>2 DEF Stored
    <3>4. Holds(put[0], n, map, m)
      BY <1>3, <1>11, <3>2, <3>3 DEF Holds
    <3> QED
      BY <1>0, <3>4 DEF m
  <2>2. \A i \in 1 .. N : i - 1 \in S => i \in S
    <3> TAKE i \in 1 .. N
    <3> HAVE i - 1 \in S
    <3> DEFINE m == i - 1
               h == put[m]
    <3>0. Holds(h, n, map, m)
      OBVIOUS
    <3>1. m \in Nat /\ m + 1 = i /\ m < n /\ i \in Nat
      <4>1. n \in Nat
        BY <1>1
      <4> HIDE DEF S
      <4> QED
        BY <1>0, <4>1
    <3>2. Inodes(map, i)
      BY <1>0 DEF Inodes, N
    <3>3. \A j \in 1 .. m : map[j].ino # map[i].ino
      BY <1>0 DEF N
    <3>4. put[i] = fm_hash_put(h, map[i].ino, i)
      BY <1>11
    <3> HIDE DEF m, h
    <3>5. Holds(fm_hash_put(h, map[i].ino, i), n, map, i)
      BY <3>0, <3>1, <3>2, <3>3, PutHolds
    <3> QED
      BY <1>0, <3>4, <3>5
  <2> HIDE DEF S
  <2>3. \A i \in 0 .. N : i \in S
    BY <1>0, <2>1, <2>2, Induct
  <2> QED
    BY <2>3 DEF S
<1>13. N \in 0 .. N /\ Holds(put[N], n, map, N)
  BY <1>0, <1>12
<1> QED
  BY <1>1, <1>2, <1>13 DEF N

-----------------------------------------------------------------------------
(* The invariant of the map. *)

\* Only the inodes of the entries matter to the table.
LEMMA SameInodes ==
  ASSUME NEW h, NEW n, NEW map, NEW new, NEW m, Holds(h, n, map, m),
         \A i \in 1 .. m : new[i].ino = map[i].ino
  PROVE  Holds(h, n, new, m)
<1>1. PICK place \in [1 .. m -> 0 .. n - 1] : Stored(h, n, map, m, place)
  BY DEF Holds
<1>2. Stored(h, n, new, m, place)
  <2>1. \A i \in 1 .. m : h[place[i]] = [ino |-> new[i].ino, idx |-> i]
    BY <1>1 DEF Stored
  <2>2. \A s \in 0 .. n - 1 : h[s] # Vacant => \E i \in 1 .. m : place[i] = s
    BY <1>1 DEF Stored
  <2>3. ASSUME NEW i \in 1 .. m
        PROVE  \E k \in 0 .. n - 1 :
                 /\ place[i] = Slot(n, new[i].ino, k)
                 /\ \A j \in 0 .. k - 1 : h[Slot(n, new[i].ino, j)].ino \notin {0, new[i].ino}
    <3>1. new[i].ino = map[i].ino
      OBVIOUS
    <3>2. \E k \in 0 .. n - 1 :
                 /\ place[i] = Slot(n, map[i].ino, k)
                 /\ \A j \in 0 .. k - 1 : h[Slot(n, map[i].ino, j)].ino \notin {0, map[i].ino}
      BY <1>1 DEF Stored
    <3> QED
      BY <3>1, <3>2
  <2> QED
    BY <2>1, <2>2, <2>3 DEF Stored
<1> QED
  BY <1>2 DEF Holds

\* An inode has one entry.
LEMMA OneEntry ==
  ASSUME NEW h, NEW n, NEW map, NEW m, Holds(h, n, map, m), Inodes(map, m), m < n
  PROVE  \A i, j \in 1 .. m : map[i].ino = map[j].ino => i = j
<1> TAKE i, j \in 1 .. m
<1> HAVE map[i].ino = map[j].ino
<1> DEFINE ino == map[i].ino
<1>1. ino \in Nat \ {0}
  BY DEF Inodes
<1>2. map[i].ino = ino /\ map[j].ino = ino
  OBVIOUS
<1> HIDE DEF ino
<1>3. Finds(h, map, m, ino)
  BY <1>1, GetFinds
<1> QED
  BY <1>2, <1>3 DEF Finds

\* The indices in the table are those of entries.
LEMMA IndicesStored ==
  ASSUME NEW h, NEW n, NEW map, NEW m \in Nat, Holds(h, n, map, m)
  PROVE  DOMAIN h = 0 .. n - 1 /\ \A s \in DOMAIN h : h[s].idx \in 0 .. m
<1>1. PICK place \in [1 .. m -> 0 .. n - 1] : Stored(h, n, map, m, place)
  BY DEF Holds
<1>2. DOMAIN h = 0 .. n - 1
  BY DEF Holds, Table
<1>3. ASSUME NEW s \in 0 .. n - 1
      PROVE  h[s].idx \in 0 .. m
  <2>1. CASE h[s] = Vacant
    BY <2>1 DEF Vacant
  <2>2. CASE h[s] # Vacant
    <3>1. PICK i \in 1 .. m : place[i] = s
      BY <1>1, <2>2 DEF Stored
    <3>2. h[place[i]] = [ino |-> map[i].ino, idx |-> i]
      BY <1>1 DEF Stored
    <3> QED
      BY <3>1, <3>2
  <2> QED
    BY <2>1, <2>2
<1> QED
  BY <1>2, <1>3

\* Failures are too few for the table to fill up.
LEMMA Roomy ==
  ASSUME NEW n \in Nat, NEW c \in Nat, NEW f \in 0 .. MaxMishaps, c <= MaxMap,
         n >= 2 * InitialCap, 2 * c <= n + 1 + 2 * f
  PROVE  c < n
  BY NamesAssumption, RoomAssumption

\* Without a table nothing is in one.
LEMMA NoTable ==
  /\ HashSize(NoEntries) = 0 /\ DOMAIN NoEntries = {}
  /\ \A ino, idx : fm_hash_put(NoEntries, ino, idx) = NoEntries /\ fm_hash_get(NoEntries, ino) = 0
<1>1. DOMAIN NoEntries = {}
  BY DEF NoEntries
<1>2. HashSize(NoEntries) = 0
  BY <1>1, FS_EmptySet DEF HashSize
<1> QED
  BY <1>1, <1>2 DEF fm_hash_put, fm_hash_get

\* What HashInv says of a table.
Indexed(h, n, cap, map, names, f) ==
    /\ cap # 0 /\ n \in Nat /\ Len(map) < n
    /\ Holds(h, n, map, Len(map))
    /\ n >= 2 * InitialCap /\ 2 * Len(map) <= n + 1 + 2 * f
    /\ DOMAIN names = {map[i].ino : i \in 1 .. Len(map)}
    /\ \A i \in 1 .. Len(map) : names[map[i].ino] = map[i].name

LEMMA HashCases ==
  ASSUME NamesInv
  PROVE  fm_hash = NoEntries \/ Indexed(fm_hash, HashSize(fm_hash), filename_cap, filename_map, latest, mishaps)
<1> SUFFICES ASSUME fm_hash # NoEntries
             PROVE  Indexed(fm_hash, HashSize(fm_hash), filename_cap, filename_map, latest, mishaps)
  OBVIOUS
<1> DEFINE n == HashSize(fm_hash)
<1>1. /\ filename_cap # 0 /\ Holds(fm_hash, n, filename_map, Count)
      /\ n >= 2 * InitialCap /\ 2 * Count <= n + 1 + 2 * mishaps
      /\ DOMAIN latest = {filename_map[i].ino : i \in 1 .. Count}
      /\ \A i \in 1 .. Count : latest[filename_map[i].ino] = filename_map[i].name
  BY DEF NamesInv, HashInv
<1>2. n \in Nat
  BY <1>1 DEF Holds, Table
<1> HIDE DEF n
<1>3. Count \in Nat /\ Count <= MaxMap /\ mishaps \in 0 .. MaxMishaps
  BY NamesAssumption DEF NamesInv, NamesTypeOK, Count
<1>4. Count < n
  BY <1>1, <1>2, <1>3, Roomy
<1> QED
  BY <1>1, <1>2, <1>4 DEF Indexed, Count, n

LEMMA MapInodes ==
  ASSUME NamesInv
  PROVE  Len(filename_map) \in Nat /\ Inodes(filename_map, Len(filename_map))
<1> DEFINE E == [ino : Nat \ {0}, name : FileNames]
<1>1. filename_map \in Seq(E)
  BY DEF NamesInv, NamesTypeOK
<1>2. \A e \in E : e.ino \in Nat \ {0}
  OBVIOUS
<1> HIDE DEF E
<1>3. Len(filename_map) \in Nat /\ \A i \in 1 .. Len(filename_map) : filename_map[i] \in E
  BY <1>1
<1> QED
  BY <1>2, <1>3 DEF Inodes

\* Lookups give the name that was accepted last.
LEMMA LookupCorrect == NamesInv => LookupIsLatest
<1> SUFFICES ASSUME NamesInv, HashSize(fm_hash) # 0, NEW ino \in 1 .. InodesCount
             PROVE  get_filename_for_inode(ino) = IF ino \in DOMAIN latest THEN latest[ino] ELSE NoName
  BY DEF LookupIsLatest
<1> DEFINE h == fm_hash
           n == HashSize(fm_hash)
           map == filename_map
           m == Len(filename_map)
<1>1. Indexed(h, n, filename_cap, map, latest, mishaps)
  BY HashCases, NoTable
<1>2. m \in Nat /\ Inodes(map, m) /\ ino \in Nat \ {0}
  BY MapInodes, NamesAssumption
<1> HIDE DEF h, n, map, m
<1>3. Holds(h, n, map, m) /\ m < n
  BY <1>1 DEF Indexed, m, map
<1>4. Finds(h, map, m, ino)
  BY <1>2, <1>3, GetFinds
<1>5. CASE \E i \in 1 .. m : map[i].ino = ino
  <2>1. PICK i \in 1 .. m : map[i].ino = ino
    BY <1>5
  <2>2. fm_hash_get(h, ino) = i
    BY <1>4, <2>1 DEF Finds
  <2>3. ino \in DOMAIN latest /\ latest[ino] = map[i].name
    BY <1>1, <2>1 DEF Indexed, m, map
  <2> QED
    BY <1>1, <2>2, <2>3 DEF get_filename_for_inode, Known, Indexed, h, map
<1>6. CASE \A i \in 1 .. m : map[i].ino # ino
  <2>1. fm_hash_get(h, ino) = 0
    BY <1>4, <1>6 DEF Finds
  <2>2. ino \notin DOMAIN latest
    BY <1>1, <1>6 DEF Indexed, m, map
  <2> QED
    BY <2>1, <2>2 DEF get_filename_for_inode, Known, h
<1> QED
  BY <1>5, <1>6

\* More failures only make the bound of HashInv weaker.
LEMMA MoreMishaps ==
  ASSUME NEW n \in Nat, NEW c \in Nat, NEW f \in Nat, NEW g \in Nat, f <= g, 2 * c <= n + 1 + 2 * f
  PROVE  2 * c <= n + 1 + 2 * g
  OBVIOUS

-----------------------------------------------------------------------------
(* The steps of the map. *)

\* No mishap, or one more.
Counted == mishaps' = mishaps \/ Mishap

LEMMA MishapsCounted ==
  ASSUME mishaps \in 0 .. MaxMishaps, Counted
  PROVE  mishaps' \in 0 .. MaxMishaps /\ mishaps <= mishaps'
  BY NamesAssumption DEF Counted, Mishap

\* Nothing happens to the map, whatever else fails.
LEMMA NamesKept ==
  ASSUME NamesInv, UNCHANGED <<filename_map, filename_cap, fm_hash, latest>>, Counted
  PROVE  NamesInv'
<1>1. mishaps \in 0 .. MaxMishaps
  BY DEF NamesInv, NamesTypeOK
<1>2. mishaps' \in 0 .. MaxMishaps /\ mishaps <= mishaps' /\ mishaps' \in Nat /\ mishaps \in Nat
  BY <1>1, MishapsCounted, NamesAssumption
<1>3. NamesTypeOK'
  BY <1>2 DEF NamesInv, NamesTypeOK, Count, filename_is_safe
<1>4. HashInv'
  <2>1. CASE fm_hash = NoEntries
    BY <2>1 DEF HashInv
  <2>2. CASE fm_hash # NoEntries
    <3> DEFINE n == HashSize(fm_hash)
               c == Len(filename_map)
    <3>1. /\ filename_cap # 0 /\ Holds(fm_hash, n, filename_map, c)
          /\ n >= 2 * InitialCap /\ 2 * c <= n + 1 + 2 * mishaps
          /\ DOMAIN latest = {filename_map[i].ino : i \in 1 .. c}
          /\ \A i \in 1 .. c : latest[filename_map[i].ino] = filename_map[i].name
      BY <2>2 DEF NamesInv, HashInv, Count
    <3>2. n \in Nat /\ c \in Nat
      BY <3>1, MapInodes DEF Holds, Table
    <3>3. n' = n /\ c' = c
      OBVIOUS
    <3> HIDE DEF n, c
    <3>4. 2 * c <= n + 1 + 2 * mishaps'
      <4>1. 2 * c <= n + 1 + 2 * mishaps
        BY <3>1
      <4> QED
        BY <1>2, <3>2, <4>1, MoreMishaps
    <3> QED
      BY <3>1, <3>3, <3>4 DEF HashInv, Count, n, c
  <2> QED
    BY <2>1, <2>2
<1> QED
  BY <1>3, <1>4 DEF NamesInv

\* There are no names at first, nor after a restart.
LEMMA NoNamesInv ==
  ASSUME filename_map = <<>>, filename_cap = 0, fm_hash = NoEntries, mishaps \in 0 .. MaxMishaps
  PROVE  NamesInv
<1>1. Count = 0 /\ DOMAIN filename_map = {} /\ DOMAIN fm_hash = {}
  BY NoTable DEF Count
<1>2. filename_map \in Seq([ino : Nat \ {0}, name : FileNames])
  OBVIOUS
<1>3. NamesTypeOK
  BY <1>1, <1>2, NamesAssumption DEF NamesTypeOK
<1> QED
  BY <1>3 DEF NamesInv, HashInv

LEMMA NamesForgotten ==
  ASSUME mishaps' \in 0 .. MaxMishaps, ForgetNames
  PROVE  NamesInv'
<1>1. filename_map' = <<>> /\ filename_cap' = 0 /\ fm_hash' = NoEntries
  BY DEF ForgetNames
<1>2. Count' = 0 /\ DOMAIN filename_map' = {} /\ DOMAIN fm_hash' = {}
  BY <1>1, NoTable DEF Count
<1>3. filename_map' \in Seq([ino : Nat \ {0}, name : FileNames])
  BY <1>1
<1>4. NamesTypeOK'
  BY <1>1, <1>2, <1>3, NamesAssumption DEF NamesTypeOK
<1> QED
  BY <1>1, <1>4 DEF NamesInv, HashInv

\* init_filename_map(), when there are no names.
LEMMA MapInitialized ==
  ASSUME NamesInv, filename_map = <<>>, latest = NoEntries, init_filename_map
  PROVE  NamesInv'
<1>1. mishaps \in 0 .. MaxMishaps
  BY DEF NamesInv, NamesTypeOK
<1>2. Counted /\ filename_map' = <<>> /\ latest' = NoEntries /\ filename_cap' \in {0, InitialCap}
  BY DEF init_filename_map, Counted
<1>3. mishaps' \in 0 .. MaxMishaps
  BY <1>1, <1>2, MishapsCounted
<1>4. Count' = 0 /\ DOMAIN filename_map' = {} /\ Len(filename_map') = 0
  BY <1>2 DEF Count
<1>5. filename_map' \in Seq([ino : Nat \ {0}, name : FileNames])
  BY <1>2
<1>6. filename_cap' \in 0 .. MaxMap /\ Count' <= filename_cap'
  BY <1>2, <1>4, NamesAssumption
<1>7. CASE fm_hash' = NoEntries
  <2>1. DOMAIN fm_hash' = {}
    BY <1>7, NoTable
  <2>2. NamesTypeOK'
    BY <1>3, <1>4, <1>5, <1>6, <2>1 DEF NamesTypeOK
  <2> QED
    BY <1>7, <2>2 DEF NamesInv, HashInv
<1>8. CASE fm_hash' # NoEntries
  <2> DEFINE map == <<>>
             h == fm_hash'
             m == 0
  <2>1. filename_cap' = InitialCap /\ h = fm_hash_rebuild(map, InitialCap)
    BY <1>8 DEF init_filename_map
  <2>2. /\ Len(map) = m /\ m \in Nat /\ Inodes(map, m) /\ InitialCap \in Nat
        /\ \A i, j \in 1 .. m : map[i].ino = map[j].ino => i = j
        /\ m <= 2 * InitialCap /\ 2 * InitialCap > 0
    BY NamesAssumption DEF Inodes
  <2> HIDE DEF map, h, m
  <2>3. PICK n \in Nat : n >= 2 * InitialCap /\ Holds(h, n, map, m)
    BY <2>1, <2>2, RebuildHolds
  <2>4. HashSize(h) = n
    BY <2>3, TableHashSize DEF Holds
  <2>5. \A s \in DOMAIN h : h[s].idx \in 0 .. m
    BY <2>2, <2>3, IndicesStored
  <2>6. NamesTypeOK'
    BY <1>3, <1>4, <1>5, <1>6, <2>5 DEF NamesTypeOK, h, m
  <2>7. 2 * m <= n + 1 + 2 * mishaps'
    <3>1. mishaps' \in Nat
      BY <1>3, NamesAssumption
    <3>2. m \in Nat /\ 0 \in Nat /\ 0 <= mishaps' /\ 2 * m <= n + 1 + 2 * 0
      BY <3>1 DEF m
    <3> QED
      BY <3>1, <3>2, MoreMishaps
  <2>8. filename_cap' # 0
    BY <2>1, NamesAssumption
  <2>9. 1 .. m = {} /\ filename_map' = map /\ Count' = m
    BY <1>2, <1>4 DEF map, m
  <2>10. DOMAIN latest' = {map[i].ino : i \in 1 .. m}
    BY <1>2, <2>9, NoTable
  <2>11. HashInv'
    BY <2>3, <2>4, <2>7, <2>8, <2>9, <2>10 DEF HashInv, h
  <2> QED
    BY <2>6, <2>11 DEF NamesInv
<1> QED
  BY <1>7, <1>8

\* Whether the inode has an entry, and which.
LEMMA KnownEntry ==
  ASSUME NamesInv, NEW ino \in Nat \ {0}
  PROVE  /\ Known(ino) =>
              /\ fm_hash_get(fm_hash, ino) \in 1 .. Len(filename_map)
              /\ filename_map[fm_hash_get(fm_hash, ino)].ino = ino
         /\ ~Known(ino) => fm_hash = NoEntries \/ \A i \in 1 .. Len(filename_map) : filename_map[i].ino # ino
<1> DEFINE h == fm_hash
           n == HashSize(fm_hash)
           map == filename_map
           m == Len(filename_map)
<1>1. CASE h = NoEntries
  BY <1>1, NoTable DEF Known
<1>2. CASE h # NoEntries
  <2>1. Indexed(h, n, filename_cap, map, latest, mishaps)
    BY <1>2, HashCases
  <2>2. m \in Nat /\ Inodes(map, m)
    BY MapInodes
  <2> HIDE DEF h, n, map, m
  <2>3. Holds(h, n, map, m) /\ m < n
    BY <2>1 DEF Indexed, m, map
  <2>4. Finds(h, map, m, ino)
    BY <2>2, <2>3, GetFinds
  <2>5. CASE \E i \in 1 .. m : map[i].ino = ino
    <3>1. PICK i \in 1 .. m : map[i].ino = ino
      BY <2>5
    <3>2. fm_hash_get(h, ino) = i
      BY <2>4, <3>1 DEF Finds
    <3>3. i # 0
      BY <2>2
    <3> QED
      BY <3>1, <3>2, <3>3 DEF Known, h, m, map
  <2>6. CASE \A i \in 1 .. m : map[i].ino # ino
    <3>1. fm_hash_get(h, ino) = 0
      BY <2>4, <2>6 DEF Finds
    <3> QED
      BY <2>6, <3>1 DEF Known, h, m, map
  <2> QED
    BY <2>5, <2>6
<1> QED
  BY <1>1, <1>2

\* An inode's name is replaced.
LEMMA NameUpdated ==
  ASSUME NamesInv, NEW ino \in Nat \ {0}, NEW name \in FileNames, UpdateName(ino, name)
  PROVE  NamesInv'
<1> DEFINE g == fm_hash_get(fm_hash, ino)
           c == Len(filename_map)
           E == [ino : Nat \ {0}, name : FileNames]
<1>1. /\ Acceptable(name) /\ Known(ino)
      /\ filename_map' = [filename_map EXCEPT ![g].name = name]
      /\ latest' = Put(latest, ino, name)
      /\ filename_cap' = filename_cap /\ fm_hash' = fm_hash /\ mishaps' = mishaps
  BY DEF UpdateName
<1>2. g \in 1 .. c /\ filename_map[g].ino = ino
  BY <1>1, KnownEntry
<1>3. /\ filename_map \in Seq(E) /\ c \in Nat /\ filename_map[g] \in E
      /\ DOMAIN filename_map = 1 .. c /\ \A i \in 1 .. c : filename_map[i] \in E
  <2>1. filename_map \in Seq(E)
    BY DEF NamesInv, NamesTypeOK
  <2> HIDE DEF E, g
  <2> QED
    BY <1>2, <2>1
<1> HIDE DEF g
<1> DEFINE new == filename_map'
<1>4. /\ new \in Seq(E) /\ Len(new) = c /\ DOMAIN new = 1 .. c
      /\ new[g] = [ino |-> ino, name |-> name]
      /\ \A i \in 1 .. c : i # g => new[i] = filename_map[i]
  <2>1. new = [i \in 1 .. c |-> IF i = g THEN [filename_map[g] EXCEPT !.name = name] ELSE filename_map[i]]
    <3>1. DOMAIN filename_map = 1 .. c
      BY <1>3
    <3> HIDE DEF c
    <3> QED
      BY <1>1, <3>1
  <2>2. [filename_map[g] EXCEPT !.name = name] = [ino |-> ino, name |-> name]
    BY <1>2, <1>3
  <2>3. [ino |-> ino, name |-> name] \in E
    OBVIOUS
  <2> HIDE DEF E, new
  <2>4. \A i \in 1 .. c : new[i] \in E
    BY <1>3, <2>1, <2>2, <2>3
  <2>5. new \in [1 .. c -> E]
    BY <2>1, <2>4
  <2>6. new \in Seq(E) /\ Len(new) = c
    BY <1>3, <2>5
  <2> QED
    BY <1>2, <2>1, <2>2, <2>6
<1>5. \A i \in 1 .. c : new[i].ino = filename_map[i].ino
  BY <1>2, <1>4
<1>6. filename_is_safe(name)
  BY <1>1 DEF Acceptable
<1> HIDE DEF E, new
<1>7. \A i \in 1 .. c : filename_is_safe(new[i].name)
  <2>1. \A i \in 1 .. c : filename_is_safe(filename_map[i].name)
    BY <1>3 DEF NamesInv, NamesTypeOK
  <2>2. new[g].name = name
    BY <1>4
  <2> QED
    BY <1>4, <1>6, <2>1, <2>2
<1>8. Count = c /\ Count' = c
  BY <1>4 DEF Count, new
<1>9. NamesTypeOK'
  <2>1. /\ filename_cap \in 0 .. MaxMap /\ c <= filename_cap /\ mishaps \in 0 .. MaxMishaps
        /\ \A s \in DOMAIN fm_hash : fm_hash[s].idx \in 0 .. c
    BY <1>8 DEF NamesInv, NamesTypeOK
  <2> QED
    BY <1>1, <1>4, <1>7, <1>8, <2>1 DEF NamesTypeOK, filename_is_safe, E, new
<1>10. HashInv'
  <2>1. CASE fm_hash = NoEntries
    BY <1>1, <2>1 DEF HashInv
  <2>2. CASE fm_hash # NoEntries
    <3> DEFINE n == HashSize(fm_hash)
    <3>1. Indexed(fm_hash, n, filename_cap, filename_map, latest, mishaps)
      BY <2>2, HashCases
    <3>2. Holds(fm_hash, n, filename_map, c) /\ c < n
      BY <3>1 DEF Indexed
    <3>3. Inodes(filename_map, c)
      BY MapInodes
    <3>4. Holds(fm_hash, n, new, c)
      BY <1>5, <3>2, SameInodes
    <3>5. \A i \in 1 .. c : i # g => filename_map[i].ino # ino
      BY <1>2, <3>2, <3>3, OneEntry
    <3>6. /\ DOMAIN latest = {filename_map[i].ino : i \in 1 .. c}
          /\ \A i \in 1 .. c : latest[filename_map[i].ino] = filename_map[i].name
      BY <3>1 DEF Indexed
    <3>7. DOMAIN latest' = {new[i].ino : i \in 1 .. c}
      <4>1. DOMAIN latest' = DOMAIN latest \cup {ino}
        BY <1>1 DEF Put
      <4>2. ino \in DOMAIN latest
        BY <1>2, <3>6
      <4> QED
        BY <1>5, <3>6, <4>1, <4>2
    <3>8. ASSUME NEW i \in 1 .. c
          PROVE  latest'[new[i].ino] = new[i].name
      <4>1. \A x \in DOMAIN latest \cup {ino} : latest'[x] = IF x = ino THEN name ELSE latest[x]
        BY <1>1 DEF Put
      <4>2. new[i].ino \in DOMAIN latest
        BY <1>5, <3>6
      <4>3. CASE i = g
        BY <1>4, <4>1, <4>3
      <4>4. CASE i # g
        BY <1>4, <1>5, <3>5, <3>6, <4>1, <4>2, <4>4
      <4> QED
        BY <4>3, <4>4
    <3>9. n >= 2 * InitialCap /\ 2 * c <= n + 1 + 2 * mishaps /\ filename_cap # 0
      BY <3>1 DEF Indexed
    <3> HIDE DEF c
    <3> QED
      BY <1>1, <1>8, <3>4, <3>7, <3>8, <3>9 DEF HashInv, new
  <2> QED
    BY <2>1, <2>2
<1> QED
  BY <1>9, <1>10 DEF NamesInv

\* The table with one more entry, rebuilt or not.
LEMMA TableAppended ==
  ASSUME NEW h, NEW n, NEW map, NEW new, NEW c, NEW M, NEW h0, NEW n0, NEW f, NEW f0,
         c = Len(map), M = c + 1, c \in Nat, Inodes(map, c), Inodes(new, M),
         \A i \in 1 .. c : new[i].ino = map[i].ino,
         \A i \in 1 .. c : map[i].ino # new[M].ino,
         Holds(h0, n0, map, c), n0 \in Nat, c < n0, n0 >= 2 * InitialCap,
         f0 \in Nat, f \in Nat, 2 * c <= n0 + 1 + 2 * f0,
         \/ h = h0 /\ (2 * c < n0 \/ f = f0 + 1)
         \/ h = fm_hash_rebuild(map, M) /\ 2 * c >= n0
  PROVE  \E k \in Nat : /\ Holds(fm_hash_put(h, new[M].ino, M), k, new, M)
                        /\ k >= 2 * InitialCap /\ 2 * M <= k + 1 + 2 * f
<1>0. InitialCap \in Nat /\ M \in Nat
  BY NamesAssumption
<1>1. \E k \in Nat : /\ Holds(h, k, map, c) /\ c < k
                     /\ k >= 2 * InitialCap /\ 2 * M <= k + 1 + 2 * f
  <2>1. CASE h = h0 /\ 2 * c < n0
    <3>1. 2 * M <= n0 + 1 + 2 * f
      BY <2>1
    <3> QED
      BY <2>1, <3>1
  <2>2. CASE h = h0 /\ f = f0 + 1
    <3>1. 2 * M <= n0 + 1 + 2 * f
      BY <2>2
    <3> QED
      BY <2>2, <3>1
  <2>3. CASE h = fm_hash_rebuild(map, M) /\ 2 * c >= n0
    <3>1. \A i, j \in 1 .. c : map[i].ino = map[j].ino => i = j
      BY OneEntry
    <3>2. Len(map) \in Nat /\ Inodes(map, Len(map)) /\ Len(map) <= 2 * M /\ 2 * M > 0
      BY <1>0
    <3>3. \A i, j \in 1 .. Len(map) : map[i].ino = map[j].ino => i = j
      BY <3>1
    <3>4. PICK k \in Nat : k >= 2 * M /\ Holds(fm_hash_rebuild(map, M), k, map, Len(map))
      BY <1>0, <3>2, <3>3, RebuildHolds
    <3>5. Holds(h, k, map, c)
      BY <2>3, <3>4
    <3>6. c < k /\ k >= 2 * InitialCap /\ 2 * M <= k + 1 + 2 * f
      BY <1>0, <2>3, <3>4
    <3> QED
      BY <3>5, <3>6
  <2> QED
    BY <2>1, <2>2, <2>3
<1>2. PICK k \in Nat : /\ Holds(h, k, map, c) /\ c < k
                       /\ k >= 2 * InitialCap /\ 2 * M <= k + 1 + 2 * f
  BY <1>1
<1>3. Holds(h, k, new, c)
  BY <1>2, SameInodes
<1>4. \A i \in 1 .. c : new[i].ino # new[M].ino
  OBVIOUS
<1>5. Holds(fm_hash_put(h, new[M].ino, M), k, new, M)
  BY <1>2, <1>3, <1>4, PutHolds
<1> QED
  BY <1>2, <1>5

\* The map has room for one more entry once it has grown.
LEMMA Grown ==
  ASSUME NEW c \in Nat, NEW cap \in Nat, NEW big \in Nat, NEW dbl, NEW cap2, cap <= big, c <= cap,
         dbl = IF 2 * cap > big THEN big ELSE 2 * cap,
         c >= cap => c < dbl,
         cap2 = IF c >= cap THEN dbl ELSE cap
  PROVE  cap2 \in 0 .. big /\ c + 1 <= cap2
<1>1. dbl \in Nat /\ dbl <= big
  OBVIOUS
<1>2. CASE c >= cap
  BY <1>1, <1>2
<1>3. CASE ~(c >= cap)
  BY <1>3
<1> QED
  BY <1>2, <1>3

\* A new entry.
LEMMA NameAppended ==
  ASSUME NamesInv, NEW ino \in Nat \ {0}, NEW name \in FileNames, AppendName(ino, name)
  PROVE  NamesInv'
<1> DEFINE c == Len(filename_map)
           M == c + 1
           E == [ino : Nat \ {0}, name : FileNames]
           e == [ino |-> ino, name |-> name]
           half == HashSize(fm_hash) # 0 /\ c * 2 >= HashSize(fm_hash)
           new == filename_map'
<1>1. /\ Acceptable(name) /\ ~Known(ino)
      /\ MustGrow => c < NewCap
      /\ filename_cap' = IF MustGrow THEN NewCap ELSE filename_cap
      /\ new = Append(filename_map, e)
      /\ latest' = Put(latest, ino, name)
      /\ \/ /\ fm_hash' = fm_hash_put(IF half THEN fm_hash_rebuild(filename_map, M) ELSE fm_hash, ino, M)
            /\ mishaps' = mishaps
         \/ half /\ Mishap /\ fm_hash' = fm_hash_put(fm_hash, ino, M)
  BY DEF AppendName, Count
<1>2. filename_map \in Seq(E) /\ e \in E
  BY DEF NamesInv, NamesTypeOK
<1>3. /\ filename_cap \in 0 .. MaxMap /\ c <= filename_cap /\ mishaps \in 0 .. MaxMishaps
      /\ \A i \in DOMAIN filename_map : filename_is_safe(filename_map[i].name)
      /\ \A s \in DOMAIN fm_hash : fm_hash[s].idx \in 0 .. c
  BY DEF NamesInv, NamesTypeOK, Count
<1>4. /\ c \in Nat /\ new \in Seq(E) /\ Len(new) = M /\ DOMAIN filename_map = 1 .. c /\ DOMAIN new = 1 .. M
      /\ new[M] = e /\ \A i \in 1 .. c : i \in 1 .. M /\ new[i] = filename_map[i] /\ i # M
  <2> HIDE DEF e, E
  <2> QED
    BY <1>1, <1>2
<1>5. \A i \in 1 .. M : i = M \/ i \in 1 .. c
  BY <1>4
<1>6. mishaps' \in 0 .. MaxMishaps /\ mishaps' \in Nat /\ mishaps \in Nat /\ mishaps <= mishaps'
  <2>1. Counted
    BY <1>1 DEF Counted
  <2> QED
    BY <1>3, <2>1, MishapsCounted, NamesAssumption
<1>7. Count' = M /\ filename_is_safe(name) /\ filename_cap # 0
  BY <1>1, <1>4 DEF Count, Acceptable
<1> HIDE DEF E, new
<1>8. filename_cap' \in 0 .. MaxMap /\ M <= filename_cap'
  <2> DEFINE cap == filename_cap
             cap2 == filename_cap'
             dbl == NewCap
  <2>1. /\ dbl = IF 2 * cap > MaxMap THEN MaxMap ELSE 2 * cap
        /\ c >= cap => c < dbl
        /\ cap2 = IF c >= cap THEN dbl ELSE cap
    BY <1>1 DEF MustGrow, Count, NewCap
  <2>2. cap \in Nat /\ MaxMap \in Nat /\ cap <= MaxMap /\ c \in Nat /\ c <= cap
    BY <1>3, <1>4, NamesAssumption
  <2>3. cap2 \in 0 .. MaxMap /\ c + 1 <= cap2
    <3> HIDE DEF c, cap, cap2, dbl
    <3> QED
      BY <2>1, <2>2, Grown
  <2> QED
    BY <2>3
<1>9. \A i \in DOMAIN new : filename_is_safe(new[i].name)
  <2>1. new[M].name = name
    BY <1>4
  <2> QED
    BY <1>3, <1>4, <1>5, <1>7, <2>1
<1>10. CASE fm_hash = NoEntries
  <2>1. ~half
    BY <1>10, NoTable
  <2>2. fm_hash' = NoEntries
    BY <1>1, <1>10, <2>1, NoTable
  <2>3. DOMAIN fm_hash' = {}
    BY <2>2, NoTable
  <2>4. NamesTypeOK'
    BY <1>4, <1>6, <1>7, <1>8, <1>9, <2>3 DEF NamesTypeOK, filename_is_safe, E, new
  <2> QED
    BY <2>2, <2>4 DEF NamesInv, HashInv
<1>11. CASE fm_hash # NoEntries
  <2> DEFINE n0 == HashSize(fm_hash)
             h0 == fm_hash
             h == IF half /\ mishaps' = mishaps THEN fm_hash_rebuild(filename_map, M) ELSE fm_hash
             map == filename_map
             f == mishaps'
             f0 == mishaps
  <2>1. Indexed(h0, n0, filename_cap, filename_map, latest, mishaps)
    BY <1>11, HashCases
  <2>2. /\ Holds(h0, n0, map, c) /\ n0 \in Nat /\ c < n0 /\ n0 >= 2 * InitialCap
        /\ 2 * c <= n0 + 1 + 2 * f0 /\ n0 # 0
    <3>1. /\ Holds(h0, n0, map, c) /\ n0 \in Nat /\ c < n0 /\ n0 >= 2 * InitialCap
          /\ 2 * c <= n0 + 1 + 2 * f0
      BY <2>1 DEF Indexed
    <3> HIDE DEF n0, c
    <3> QED
      BY <1>4, <3>1
  <2>3. Inodes(map, c) /\ Inodes(new, M)
    <3>1. Inodes(map, c)
      BY MapInodes
    <3>2. new[M].ino = ino
      BY <1>4
    <3> QED
      BY <1>4, <1>5, <3>1, <3>2 DEF Inodes
  <2>4. /\ \A i \in 1 .. c : new[i].ino = map[i].ino
        /\ \A i \in 1 .. c : map[i].ino # new[M].ino
    <3>1. \A i \in 1 .. c : map[i].ino # ino
      BY <1>1, <1>11, KnownEntry
    <3>2. new[M].ino = ino
      BY <1>4
    <3> QED
      BY <1>4, <3>1, <3>2
  <2>5. half <=> 2 * c >= n0
    <3> HIDE DEF c
    <3> QED
      BY <1>4, <2>2
  <2>6. fm_hash' = fm_hash_put(h, ino, M) /\ (mishaps' = mishaps \/ (half /\ mishaps' = mishaps + 1))
    BY <1>1, <1>6 DEF Mishap
  <2>7. \/ h = h0 /\ (2 * c < n0 \/ f = f0 + 1)
        \/ h = fm_hash_rebuild(map, M) /\ 2 * c >= n0
    <3>1. CASE ~half
      <4>1. 2 * c < n0
        <5> HIDE DEF half, c, n0
        <5> QED
          BY <1>4, <2>2, <2>5, <3>1
      <4> QED
        BY <3>1, <4>1
    <3>2. CASE half /\ mishaps' = mishaps
      BY <2>5, <3>2
    <3>3. CASE half /\ mishaps' = mishaps + 1
      <4>1. ~(mishaps' = mishaps)
        BY <1>6, <3>3
      <4> QED
        BY <3>3, <4>1
    <3> QED
      BY <2>6, <3>1, <3>2, <3>3
  <2>8. c = Len(map) /\ M = c + 1 /\ c \in Nat /\ f0 \in Nat /\ f \in Nat /\ new[M].ino = ino
    BY <1>4, <1>6
  <2>9. PICK k \in Nat : /\ Holds(fm_hash', k, new, M)
                         /\ k >= 2 * InitialCap /\ 2 * M <= k + 1 + 2 * mishaps'
    <3> HIDE DEF c, M, n0, h0, h, map, f, f0, half, e
    <3>1. \E k \in Nat : /\ Holds(fm_hash_put(h, new[M].ino, M), k, new, M)
                         /\ k >= 2 * InitialCap /\ 2 * M <= k + 1 + 2 * f
      BY <2>2, <2>3, <2>4, <2>7, <2>8, TableAppended
    <3> QED
      BY <2>6, <2>8, <3>1 DEF f
  <2>10. HashSize(fm_hash') = k
    BY <2>9, TableHashSize DEF Holds
  <2>11. \A s \in DOMAIN fm_hash' : fm_hash'[s].idx \in 0 .. M
    <3> DEFINE g == fm_hash'
    <3>1. M \in Nat /\ Holds(g, k, new, M)
      BY <1>4, <2>9
    <3> HIDE DEF g, M
    <3>2. \A s \in DOMAIN g : g[s].idx \in 0 .. M
      BY <3>1, IndicesStored
    <3> QED
      BY <3>2 DEF g
  <2>12. NamesTypeOK'
    BY <1>4, <1>6, <1>7, <1>8, <1>9, <2>11 DEF NamesTypeOK, filename_is_safe, E, new
  <2>13. /\ DOMAIN latest = {map[i].ino : i \in 1 .. c}
         /\ \A i \in 1 .. c : latest[map[i].ino] = map[i].name
    BY <2>1 DEF Indexed
  <2>14. /\ DOMAIN latest' = DOMAIN latest \cup {ino}
         /\ \A x \in DOMAIN latest \cup {ino} : latest'[x] = IF x = ino THEN name ELSE latest[x]
    BY <1>1 DEF Put
  <2>15. DOMAIN latest' = {new[i].ino : i \in 1 .. M}
    <3>1. \A i \in 1 .. M : new[i].ino \in DOMAIN latest'
      BY <1>4, <1>5, <2>8, <2>13, <2>14
    <3>2. \A x \in DOMAIN latest' : \E i \in 1 .. M : x = new[i].ino
      <4>1. \A x \in DOMAIN latest : \E i \in 1 .. c : x = map[i].ino
        BY <2>13
      <4>2. M \in 1 .. M
        BY <1>4
      <4> HIDE DEF c, M, map
      <4> QED
        BY <1>4, <2>4, <2>8, <2>14, <4>1, <4>2
    <3> QED
      BY <3>1, <3>2
  <2>16. ASSUME NEW i \in 1 .. M
         PROVE  latest'[new[i].ino] = new[i].name
    <3>1. CASE i = M
      <4>1. new[M].name = name
        BY <1>4
      <4> QED
        BY <2>8, <2>14, <3>1, <4>1
    <3>2. CASE i \in 1 .. c
      <4>1. new[i] = map[i] /\ map[i].ino # ino /\ map[i].ino \in DOMAIN latest
        BY <1>4, <2>4, <2>8, <2>13, <3>2
      <4> QED
        BY <2>13, <2>14, <3>2, <4>1
    <3> QED
      BY <1>5, <3>1, <3>2
  <2>17. filename_cap' # 0
    <3>1. filename_cap' \in Nat /\ c \in Nat
      BY <1>4, <1>8, NamesAssumption
    <3> HIDE DEF c
    <3> QED
      BY <1>8, <3>1
  <2>18. HashInv'
    <3> HIDE DEF M
    <3> QED
      BY <1>7, <2>9, <2>10, <2>15, <2>16, <2>17 DEF HashInv, new
  <2> QED
    BY <2>12, <2>18 DEF NamesInv
<1> QED
  BY <1>10, <1>11

\* Any outcome of add_filename_mapping().
LEMMA NameAdded ==
  ASSUME NamesInv, NEW ino \in Nat \ {0}, NEW name \in FileNames, add_filename_mapping(ino, name)
  PROVE  NamesInv'
<1>1. CASE RefuseName(ino, name)
  BY <1>1, NamesKept DEF RefuseName, nvars, Counted
<1>2. CASE GrowFails(ino, name)
  BY <1>2, NamesKept DEF GrowFails, nvars, Counted
<1>3. CASE UpdateName(ino, name)
  BY <1>3, NameUpdated
<1>4. CASE AppendName(ino, name)
  BY <1>4, NameAppended
<1> QED
  BY <1>1, <1>2, <1>3, <1>4 DEF add_filename_mapping


-----------------------------------------------------------------------------
(* Claims. *)

\* The claims are a sequence, whatever they hold.
Listing == \E S : name_claims \in Seq(S)
ClaimsOK == ClaimsInv /\ Listing

\* Nothing has been answered yet.
NoClaims == answered = {} /\ name_claims = <<>>

\* The inductive invariant of the claims gives what is wanted.
LEMMA ClaimsCorrect == ClaimsInv => OneOwnerPerName
<1> SUFFICES ASSUME ClaimsInv, NEW p \in answered, NEW q \in answered, p[1] \notin lost, q[1] \notin lost
             PROVE  /\ p[1] = q[1] => p[2] = q[2]
                    /\ p[1] # q[1] /\ p[2] = q[2] => p[2] \in {FileOf(p[1]), FileOf(q[1])}
  BY DEF OneOwnerPerName
<1> DEFINE np == get_filename_for_inode(p[1])
           nq == get_filename_for_inode(q[1])
<1>1. \/ p[2] = np /\ np # NoName /\ Owners(np) = {p[1]}
      \/ p[2] = FileOf(p[1]) /\ (np = NoName \/ (Owners(np) # {} /\ p[1] \notin Owners(np)))
  BY DEF ClaimsInv
<1>2. \/ q[2] = nq /\ nq # NoName /\ Owners(nq) = {q[1]}
      \/ q[2] = FileOf(q[1]) /\ (nq = NoName \/ (Owners(nq) # {} /\ q[1] \notin Owners(nq)))
  BY DEF ClaimsInv
<1>3. p[1] = q[1] => np = nq
  OBVIOUS
<1> HIDE DEF np, nq
<1>4. p[1] = q[1] => p[2] = q[2]
  BY <1>1, <1>2, <1>3
<1>5. p[1] # q[1] /\ p[2] = q[2] => p[2] \in {FileOf(p[1]), FileOf(q[1])}
  BY <1>1, <1>2
<1> QED
  BY <1>4, <1>5

LEMMA NoClaimsOK == NoClaims => ClaimsOK
<1> SUFFICES ASSUME NoClaims PROVE ClaimsOK
  OBVIOUS
<1>1. Len(name_claims) = 0 /\ name_claims \in Seq({})
  BY DEF NoClaims
<1>2. ClaimsInv
  BY <1>1 DEF ClaimsInv, NoClaims
<1>3. Listing
  BY <1>1 DEF Listing
<1> QED
  BY <1>2, <1>3 DEF ClaimsOK

\* The owners of a name, one at most.
LEMMA OneOwner ==
  ASSUME ClaimsOK, NEW name, Owners(name) # {}
  PROVE  \E o : Owners(name) = {o}
<1>1. DOMAIN name_claims = 1 .. Len(name_claims)
  BY DEF ClaimsOK, Listing
<1>2. PICK i \in DOMAIN name_claims : name_claims[i].name = name
  BY DEF Owners
<1>3. \A j \in DOMAIN name_claims : name_claims[j].name = name => j = i
  BY <1>1, <1>2 DEF ClaimsOK, ClaimsInv
<1>4. \A o \in Owners(name) : o = name_claims[i].ino
  BY <1>3 DEF Owners
<1> QED
  BY <1>4

\* What an inode was answered stands while the map and the owners of its name do.
Stands(p) ==
    LET name == get_filename_for_inode(p[1])
    IN \/ p[2] = name /\ name # NoName /\ Owners(name) = {p[1]}
       \/ /\ p[2] = FileOf(p[1])
          /\ name = NoName \/ (Owners(name) # {} /\ p[1] \notin Owners(name))

LEMMA ClaimsStand ==
  ASSUME DOMAIN name_claims' = 1 .. Len(name_claims'),
         \A i, j \in DOMAIN name_claims' : name_claims'[i].name = name_claims'[j].name => i = j,
         \A p \in answered' : p[1] \notin lost' => Stands(p)'
  PROVE  ClaimsInv'
  BY DEF ClaimsInv, Stands

\* A step that leaves the map and the claims alone.
LEMMA ClaimsKept ==
  ASSUME ClaimsOK, UNCHANGED nvars
  PROVE  ClaimsOK'
<1>1. \A x : get_filename_for_inode(x)' = get_filename_for_inode(x)
  BY DEF nvars, get_filename_for_inode, Known
<1>2. \A n : Owners(n)' = Owners(n)
  BY DEF nvars, Owners
<1>3. \A p : Stands(p) => Stands(p)'
  BY <1>1, <1>2 DEF Stands
<1>4. \A p \in answered' : p[1] \notin lost' => Stands(p)'
  BY <1>3 DEF ClaimsOK, ClaimsInv, Stands, nvars
<1>5. DOMAIN name_claims = 1 .. Len(name_claims)
  BY DEF ClaimsOK, Listing
<1>6. \A i, j \in DOMAIN name_claims : name_claims[i].name = name_claims[j].name => i = j
  BY <1>5 DEF ClaimsOK, ClaimsInv
<1>7. Listing' /\ ClaimsInv'
  BY <1>4, <1>5, <1>6, ClaimsStand DEF nvars, ClaimsOK, Listing
<1> QED
  BY <1>7 DEF ClaimsOK

\* An inode's name is resolved: the map stays as it is ...
LEMMA NamesResolved ==
  ASSUME NamesInv, NEW ino, resolve_output_name(ino)
  PROVE  NamesInv'
  BY NamesKept DEF resolve_output_name, Counted

\* ... and so do the names and owners that were answered before.
LEMMA ClaimsResolved ==
  ASSUME ClaimsOK, NEW ino, resolve_output_name(ino)
  PROVE  ClaimsOK'
<1> DEFINE name == get_filename_for_inode(ino)
           e == [ino |-> ino, name |-> name]
<1>1. \A x : get_filename_for_inode(x)' = get_filename_for_inode(x)
  BY DEF resolve_output_name, get_filename_for_inode, Known
<1>2. /\ answered' = answered \cup {<<ino, Resolved(ino)>>}
      /\ \/ (name = NoName \/ Owners(name) # {}) /\ UNCHANGED <<name_claims, lost>>
         \/ name # NoName /\ Owners(name) = {} /\ name_claims' = Append(name_claims, e) /\ lost' = lost
         \/ lost' = lost \cup {ino} /\ UNCHANGED name_claims
  BY DEF resolve_output_name
<1>3. PICK S : name_claims \in Seq(S)
  BY DEF ClaimsOK, Listing
<1>4. DOMAIN name_claims = 1 .. Len(name_claims) /\ Len(name_claims) \in Nat
  BY <1>3
<1>5. \A i, j \in DOMAIN name_claims : name_claims[i].name = name_claims[j].name => i = j
  BY <1>4 DEF ClaimsOK, ClaimsInv
<1>6. \A p \in answered : p[1] \notin lost => Stands(p)
  BY DEF ClaimsOK, ClaimsInv, Stands
<1>7. CASE UNCHANGED name_claims
  <2>1. \A n : Owners(n)' = Owners(n)
    BY <1>7 DEF Owners
  <2>2. \A p : Stands(p) => Stands(p)'
    BY <1>1, <2>1 DEF Stands
  <2>3. Listing'
    BY <1>3, <1>7 DEF Listing
  <2>4. DOMAIN name_claims' = 1 .. Len(name_claims')
    BY <1>4, <1>7
  <2>5. \A i, j \in DOMAIN name_claims' : name_claims'[i].name = name_claims'[j].name => i = j
    BY <1>5, <1>7
  <2>6. \A p \in answered' : p[1] \notin lost' => Stands(p)'
    <3>1. CASE (name = NoName \/ Owners(name) # {}) /\ lost' = lost
      <4> DEFINE p0 == <<ino, Resolved(ino)>>
      <4>1. Stands(p0)
        <5>1. CASE name # NoName /\ Owners(name) \subseteq {ino}
          <6>1. Resolved(ino) = name /\ Owners(name) = {ino}
            BY <3>1, <5>1 DEF Resolved
          <6> QED
            BY <5>1, <6>1 DEF Stands
        <5>2. CASE name = NoName
          <6>1. Resolved(ino) = FileOf(ino)
            BY <5>2 DEF Resolved
          <6> QED
            BY <5>2, <6>1 DEF Stands
        <5>3. CASE name # NoName /\ ~(Owners(name) \subseteq {ino})
          <6>1. Resolved(ino) = FileOf(ino)
            BY <5>3 DEF Resolved
          <6>2. \E o : Owners(name) = {o}
            <7> HIDE DEF name
            <7> QED
              BY <5>3, OneOwner
          <6>3. Owners(name) # {} /\ ino \notin Owners(name)
            BY <5>3, <6>2
          <6> QED
            BY <6>1, <6>3 DEF Stands
        <5> QED
          BY <5>1, <5>2, <5>3
      <4> HIDE DEF p0
      <4>2. answered' = answered \cup {p0}
        BY <1>2 DEF p0
      <4> QED
        BY <1>6, <2>2, <3>1, <4>1, <4>2
    <3>2. CASE lost' = lost \cup {ino}
      BY <1>2, <1>6, <2>2, <3>2
    <3>3. CASE name # NoName /\ Owners(name) = {} /\ name_claims' = Append(name_claims, e)
      BY <1>3, <1>4, <1>7, <3>3
    <3> QED
      BY <1>2, <3>1, <3>2, <3>3
  <2> QED
    BY <2>3, <2>4, <2>5, <2>6, ClaimsStand DEF ClaimsOK
<1>8. CASE name # NoName /\ Owners(name) = {} /\ name_claims' = Append(name_claims, e) /\ lost' = lost
  <2> DEFINE m == Len(name_claims)
             M == m + 1
  <2>1. /\ name_claims' \in Seq(S \cup {e}) /\ DOMAIN name_claims' = 1 .. M /\ Len(name_claims') = M
        /\ name_claims'[M] = e /\ m \in Nat /\ M \notin 1 .. m /\ DOMAIN name_claims = 1 .. m
        /\ \A i \in 1 .. m : i \in 1 .. M /\ name_claims'[i] = name_claims[i]
    <3> HIDE DEF e
    <3>1. name_claims \in Seq(S \cup {e})
      BY <1>3
    <3> QED
      BY <1>3, <1>8, <3>1
  <2>2. \A i \in 1 .. M : i \in 1 .. m \/ i = M
    BY <2>1
  <2>3. e.name = name /\ e.ino = ino
    OBVIOUS
  <2> HIDE DEF e, M, m
  <2>4. \A i \in 1 .. m : name_claims[i].name # name
    BY <1>8, <2>1 DEF Owners
  <2>5. \A i, j \in 1 .. M : name_claims'[i].name = name_claims'[j].name => i = j
    <3> TAKE i, j \in 1 .. M
    <3>1. CASE i \in 1 .. m /\ j \in 1 .. m
      BY <1>5, <2>1, <3>1
    <3>2. CASE i = M /\ j = M
      BY <3>2
    <3>3. CASE i \in 1 .. m /\ j = M
      BY <2>1, <2>3, <2>4, <3>3
    <3>4. CASE i = M /\ j \in 1 .. m
      BY <2>1, <2>3, <2>4, <3>4
    <3> QED
      BY <2>2, <3>1, <3>2, <3>3, <3>4
  <2>6. Owners(name)' = {ino}
    <3>1. \A i \in 1 .. M : name_claims'[i].name = name <=> i = M
      BY <2>1, <2>2, <2>3, <2>4
    <3>2. {i \in DOMAIN name_claims' : name_claims'[i].name = name} = {M}
      <4>1. DOMAIN name_claims' = 1 .. M /\ M \in 1 .. M
        BY <2>1 DEF M
      <4> HIDE DEF name
      <4> QED
        BY <3>1, <4>1
    <3>3. name_claims'[M].ino = ino
      BY <2>1, <2>3
    <3>4. name' = name
      BY <1>1
    <3> HIDE DEF name
    <3> QED
      BY <3>2, <3>3, <3>4 DEF Owners
  <2>7. ASSUME NEW n, n # name
        PROVE  {name_claims'[i].ino : i \in {i \in DOMAIN name_claims' : name_claims'[i].name = n}} = Owners(n)
    <3> DEFINE I == {i \in DOMAIN name_claims : name_claims[i].name = n}
               J == {i \in DOMAIN name_claims' : name_claims'[i].name = n}
    <3>1. I = J
      BY <2>1, <2>2, <2>3, <2>7
    <3>2. \A i \in I : name_claims'[i].ino = name_claims[i].ino
      BY <2>1
    <3> HIDE DEF J, I
    <3>3. {name_claims'[i].ino : i \in J} = {name_claims[i].ino : i \in I}
      BY <3>1, <3>2
    <3> QED
      BY <3>3 DEF I, J, Owners
  <2>8. ASSUME NEW p \in answered, p[1] \notin lost
        PROVE  Stands(p)'
    <3> DEFINE np == get_filename_for_inode(p[1])
    <3>1. Stands(p)
      BY <1>6, <2>8
    <3>2. np' = np
      BY <1>1
    <3>3. np # NoName => np # name
      BY <1>8, <3>1 DEF Stands
    <3>4. np # NoName => Owners(np)' = Owners(np)
      <4> SUFFICES ASSUME np # name PROVE Owners(np)' = Owners(np)
        BY <3>3
      <4>1. {name_claims'[i].ino : i \in {i \in DOMAIN name_claims' : name_claims'[i].name = np}} = Owners(np)
        <5> HIDE DEF np, name
        <5> QED
          BY <2>7
      <4> HIDE DEF np
      <4> QED
        BY <3>2, <4>1 DEF Owners
    <3> QED
      BY <3>1, <3>2, <3>4 DEF Stands
  <2>9. PICK r : r = Resolved(ino)
    OBVIOUS
  <2>10. Stands(<<ino, r>>)'
    <3>1. r = name
      BY <1>8, <2>9 DEF Resolved
    <3>2. name' = name
      BY <1>1
    <3> QED
      BY <1>8, <2>6, <3>1, <3>2 DEF Stands
  <2>11. \A p \in answered' : p[1] \notin lost' => Stands(p)'
    <3>1. answered' = answered \cup {<<ino, r>>}
      BY <1>2, <2>9
    <3> HIDE DEF name
    <3> QED
      BY <1>8, <2>8, <2>10, <3>1
  <2>12. DOMAIN name_claims' = 1 .. Len(name_claims')
    BY <2>1
  <2>13. \A i, j \in DOMAIN name_claims' : name_claims'[i].name = name_claims'[j].name => i = j
    BY <2>1, <2>5
  <2>14. Listing'
    BY <2>1 DEF Listing
  <2> QED
    BY <2>11, <2>12, <2>13, <2>14, ClaimsStand DEF ClaimsOK
<1> QED
  BY <1>2, <1>7, <1>8

-----------------------------------------------------------------------------
(* The names that are found are names of inodes. *)

\* What has been picked up to each position, and the flattening up to each part.
Picking(s, I, T, f) ==
    /\ f \in [0 .. Len(s) -> Seq(T)] /\ f[0] = <<>>
    /\ \A n \in 1 .. Len(s) : f[n] = IF n \in I THEN Append(f[n - 1], s[n]) ELSE f[n - 1]
Flattening(ss, T, f) ==
    /\ f \in [0 .. Len(ss) -> Seq(T)] /\ f[0] = <<>>
    /\ \A n \in 1 .. Len(ss) : f[n] = f[n - 1] \o ss[n]

\* The positions of a sequence that are picked, one by one.
LEMMA PickSteps ==
  ASSUME NEW S, NEW T, NEW s \in Seq(S), NEW I, \A i \in DOMAIN s \cap I : s[i] \in T
  PROVE  \E f : Picking(s, I, T, f) /\ PickSeq(s, I) = f[Len(s)]
<1> DEFINE N == Len(s)
           Picks(f) == f = [i \in 0 .. N |-> IF i = 0 THEN <<>>
                                             ELSE IF i \in I THEN Append(f[i - 1], s[i])
                                             ELSE f[i - 1]]
           up == CHOOSE f : Picks(f)
           V == Seq(T)
           F == [x \in (1 .. N) \X V |-> IF x[1] \in I THEN Append(x[2], s[x[1]]) ELSE x[2]]
           v == <<>>
<1>1. N \in Nat /\ DOMAIN s = 1 .. N
  OBVIOUS
<1>2. PickSeq(s, I) = up[N]
  BY DEF PickSeq
<1>3. v \in V
  OBVIOUS
<1>4. ASSUME NEW n \in 1 .. N, NEW x \in V
      PROVE  F[<<n, x>>] = (IF n \in I THEN Append(x, s[n]) ELSE x) /\ F[<<n, x>>] \in V
  <2>1. F[<<n, x>>] = (IF n \in I THEN Append(x, s[n]) ELSE x)
    BY <1>4
  <2>2. n \in I => s[n] \in T
    BY <1>1
  <2>3. n \in I => Append(x, s[n]) \in V
    BY <2>2
  <2> QED
    BY <2>1, <2>3
<1>5. F \in [(1 .. N) \X V -> V]
  <2> SUFFICES ASSUME NEW y \in (1 .. N) \X V PROVE F[y] \in V
    OBVIOUS
  <2>1. PICK n \in 1 .. N, x \in V : y = <<n, x>>
    OBVIOUS
  <2> HIDE DEF F, V
  <2> QED
    BY <1>4, <2>1
<1>6. \E f : Picks(f) /\ f \in [0 .. N -> V]
  <2>1. Loop(N, V, v, F)
    BY <1>1, <1>3, <1>5 DEF Loop
  <2> HIDE DEF V, F, N, v
  <2>2. PICK f : Run(N, V, v, F, f)
    BY <2>1, LoopSolvable
  <2>3. f \in [0 .. N -> V] /\ f[0] = v /\ \A n \in 1 .. N : f[n] = F[<<n, f[n - 1]>>]
    BY <2>2 DEF Run
  <2>4. \A n \in 1 .. N : n \in 0 .. N /\ n - 1 \in 0 .. N /\ n # 0
    BY <1>1
  <2>5. \A n \in 0 .. N : n = 0 \/ n \in 1 .. N
    BY <1>1
  <2>6. \A n \in 1 .. N : f[n - 1] \in V
    BY <2>3, <2>4
  <2>7. \A n \in 1 .. N : f[n] = (IF n \in I THEN Append(f[n - 1], s[n]) ELSE f[n - 1])
    BY <1>4, <2>3, <2>6
  <2>8. \A n \in 0 .. N : f[n] = (IF n = 0 THEN <<>> ELSE IF n \in I THEN Append(f[n - 1], s[n]) ELSE f[n - 1])
    BY <2>3, <2>5, <2>7 DEF v
  <2> QED
    BY <2>3, <2>8
<1>7. Picks(up)
  BY <1>6
<1>8. up \in [0 .. N -> V]
  <2> DEFINE Ok == {n \in 0 .. N : up[n] \in V}
  <2>1. \A n \in 0 .. N : up[n] = (IF n = 0 THEN <<>> ELSE IF n \in I THEN Append(up[n - 1], s[n]) ELSE up[n - 1])
    BY <1>7
  <2> HIDE DEF up, N
  <2>2. 0 \in Ok
    <3>1. 0 \in 0 .. N
      BY <1>1
    <3> QED
      BY <1>3, <2>1, <3>1
  <2>3. ASSUME NEW n \in 1 .. N, n - 1 \in Ok PROVE n \in Ok
    <3>1. n \in 0 .. N /\ n # 0 /\ up[n - 1] \in V
      BY <1>1, <2>3
    <3>2. up[n] = (IF n \in I THEN Append(up[n - 1], s[n]) ELSE up[n - 1])
      BY <2>1, <3>1
    <3>3. up[n] \in V
      <4> DEFINE x == up[n - 1]
      <4> HIDE DEF x, V, F
      <4> QED
        BY <1>4, <3>1, <3>2 DEF x
    <3> QED
      BY <3>1, <3>3
  <2>4. \A n \in 0 .. N : n \in Ok
    <3> HIDE DEF Ok
    <3> QED
      BY <1>1, <2>2, <2>3, Induct
  <2>5. up = [n \in 0 .. N |-> up[n]]
    BY <1>7
  <2> QED
    BY <2>4, <2>5
<1>9. \A n \in 0 .. N : up[n] = (IF n = 0 THEN <<>> ELSE IF n \in I THEN Append(up[n - 1], s[n]) ELSE up[n - 1])
  BY <1>7
<1>10. 0 \in 0 .. N /\ \A n \in 1 .. N : n \in 0 .. N /\ n # 0
  BY <1>1
<1> HIDE DEF up, V
<1>11. Picking(s, I, T, up)
  <2>1. up[0] = <<>>
    BY <1>9, <1>10
  <2>2. \A n \in 1 .. N : up[n] = IF n \in I THEN Append(up[n - 1], s[n]) ELSE up[n - 1]
    BY <1>9, <1>10
  <2>3. up \in [0 .. Len(s) -> Seq(T)]
    BY <1>8 DEF V
  <2> QED
    BY <2>1, <2>2, <2>3 DEF Picking
<1> QED
  BY <1>2, <1>11

LEMMA PickType ==
  ASSUME NEW S, NEW T, NEW s \in Seq(S), NEW I, \A i \in DOMAIN s \cap I : s[i] \in T
  PROVE  PickSeq(s, I) \in Seq(T)
<1>1. PICK f : Picking(s, I, T, f) /\ PickSeq(s, I) = f[Len(s)]
  BY PickSteps
<1> DEFINE N == Len(s)
<1>2. N \in 0 .. N
  OBVIOUS
<1> HIDE DEF N
<1>3. f \in [0 .. N -> Seq(T)]
  BY <1>1 DEF Picking, N
<1>4. f[N] \in Seq(T)
  BY <1>2, <1>3
<1> QED
  BY <1>1, <1>4 DEF N

\* The elements of a flattened sequence are those of its parts.
LEMMA FlattenSteps ==
  ASSUME NEW T, NEW ss \in Seq(Seq(T))
  PROVE  \E f : Flattening(ss, T, f) /\ FlattenSeq(ss) = f[Len(ss)]
<1> DEFINE N == Len(ss)
           Flat(f) == f = [i \in 1 .. N |-> IF i = 1 THEN ss[i] ELSE f[i - 1] \o ss[i]]
           up == CHOOSE f : Flat(f)
           V == Seq(T)
           F == [x \in (1 .. N) \X V |-> IF x[1] = 1 THEN ss[x[1]] ELSE x[2] \o ss[x[1]]]
           v == <<>>
<1>1. N \in Nat /\ DOMAIN ss = 1 .. N /\ \A i \in 1 .. N : ss[i] \in V
  <2> HIDE DEF V
  <2>1. ss \in Seq(V)
    BY DEF V
  <2> QED
    BY <2>1
<1>2. CASE N = 0
  <2>1. ss = <<>>
    BY <1>2
  <2>2. FlattenSeq(ss) = ss
    BY <1>2 DEF FlattenSeq
  <2>3. <<>> \in Seq(T)
    OBVIOUS
  <2>4. FlattenSeq(ss) = <<>>
    BY <2>1, <2>2
  <2> DEFINE f == [n \in 0 .. 0 |-> <<>>]
  <2>5. f \in [0 .. Len(ss) -> Seq(T)] /\ f[0] = <<>> /\ 1 .. Len(ss) = {}
    BY <1>2, <2>3
  <2> HIDE DEF N
  <2> QED
    BY <1>2, <2>4, <2>5 DEF Flattening, N
<1>3. CASE N # 0
  <2>1. FlattenSeq(ss) = up[N]
    BY <1>3 DEF FlattenSeq
  <2>2. v \in V
    OBVIOUS
  <2>3. ASSUME NEW n \in 1 .. N, NEW x \in V
        PROVE  F[<<n, x>>] = (IF n = 1 THEN ss[n] ELSE x \o ss[n]) /\ F[<<n, x>>] \in V
    <3>1. F[<<n, x>>] = (IF n = 1 THEN ss[n] ELSE x \o ss[n])
      BY <2>3
    <3>2. x \o ss[n] \in V /\ ss[n] \in V
      <4>1. ss[n] \in Seq(T) /\ x \in Seq(T)
        BY <1>1
      <4> QED
        BY <4>1
    <3> QED
      BY <3>1, <3>2
  <2>4. F \in [(1 .. N) \X V -> V]
    <3> SUFFICES ASSUME NEW y \in (1 .. N) \X V PROVE F[y] \in V
      OBVIOUS
    <3>1. PICK n \in 1 .. N, x \in V : y = <<n, x>>
      OBVIOUS
    <3> HIDE DEF F, V
    <3> QED
      BY <2>3, <3>1
  <2>5. Loop(N, V, v, F)
    BY <1>1, <2>2, <2>4 DEF Loop
  <2> HIDE DEF V, F, N, v
  <2>6. PICK f : Run(N, V, v, F, f)
    BY <2>5, LoopSolvable
  <2>7. f \in [0 .. N -> V] /\ f[0] = v /\ \A n \in 1 .. N : f[n] = F[<<n, f[n - 1]>>]
    BY <2>6 DEF Run
  <2>8. \A n \in 1 .. N : n \in 0 .. N /\ n - 1 \in 0 .. N
    BY <1>1
  <2>9. \A n \in 1 .. N : f[n - 1] \in V /\ f[n] \in V
    BY <2>7, <2>8
  <2>10. \A n \in 1 .. N : f[n] = (IF n = 1 THEN ss[n] ELSE f[n - 1] \o ss[n])
    BY <2>3, <2>7, <2>9
  <2> DEFINE g == [n \in 1 .. N |-> f[n]]
  <2>11. \A n \in 1 .. N : n # 1 => n - 1 \in 1 .. N
    BY <1>1
  <2>12. \A n \in 1 .. N : g[n] = (IF n = 1 THEN ss[n] ELSE g[n - 1] \o ss[n])
    BY <2>10, <2>11
  <2>13. Flat(g)
    BY <2>12
  <2>14. Flat(up)
    BY <2>13
  <2> DEFINE Ok == {n \in 0 .. N : n = 0 \/ up[n] \in V}
  <2>15. \A n \in 1 .. N : up[n] = (IF n = 1 THEN ss[n] ELSE up[n - 1] \o ss[n])
    BY <2>14
  <2> HIDE DEF up
  <2>16. 0 \in Ok
    BY <1>1
  <2>17. ASSUME NEW n \in 1 .. N, n - 1 \in Ok PROVE n \in Ok
    <3>1. CASE n = 1
      BY <1>1, <2>8, <2>15, <3>1
    <3>2. CASE n # 1
      <4>1. n - 1 # 0 /\ n \in 0 .. N
        BY <1>1, <3>2
      <4> DEFINE x == up[n - 1]
      <4>2. x \in V
        BY <2>17, <4>1
      <4>3. up[n] = x \o ss[n]
        BY <2>15, <3>2
      <4>4. x \o ss[n] \in V
        <5> HIDE DEF x
        <5>1. F[<<n, x>>] = x \o ss[n] /\ F[<<n, x>>] \in V
          BY <2>3, <3>2, <4>2
        <5> QED
          BY <5>1
      <4> QED
        BY <4>1, <4>3, <4>4
    <3> QED
      BY <3>1, <3>2
  <2>18. \A n \in 0 .. N : n \in Ok
    <3> HIDE DEF Ok
    <3> QED
      BY <1>1, <2>16, <2>17, Induct
  <2>19. N \in 0 .. N
    BY <1>1
  <2> DEFINE r == [n \in 0 .. N |-> IF n = 0 THEN <<>> ELSE up[n]]
  <2>20. r \in [0 .. N -> V]
    BY <2>2, <2>18 DEF v
  <2>21. r[0] = <<>> /\ r[N] = up[N]
    BY <1>1, <1>3, <2>19
  <2>22. ASSUME NEW n \in 1 .. N PROVE r[n] = r[n - 1] \o ss[n]
    <3>1. n \in 0 .. N /\ n # 0 /\ r[n] = up[n]
      BY <1>1
    <3>2. CASE n = 1
      <4>1. r[n - 1] = <<>> /\ r[n] = ss[n] /\ ss[n] \in Seq(T)
        BY <1>1, <2>15, <2>21, <3>1, <3>2 DEF V
      <4> HIDE DEF r
      <4> QED
        BY <4>1
    <3>3. CASE n # 1
      <4>1. n - 1 \in 0 .. N /\ n - 1 # 0
        BY <1>1, <3>3
      <4>2. r[n - 1] = up[n - 1]
        BY <4>1
      <4> QED
        BY <2>15, <3>1, <3>3, <4>2
    <3> QED
      BY <3>2, <3>3
  <2> HIDE DEF r
  <2>23. Flattening(ss, T, r)
    BY <2>20, <2>21, <2>22 DEF Flattening, N, V
  <2> QED
    BY <2>1, <2>21, <2>23 DEF N
<1> QED
  BY <1>2, <1>3

LEMMA FlattenType ==
  ASSUME NEW T, NEW ss \in Seq(Seq(T))
  PROVE  FlattenSeq(ss) \in Seq(T)
<1> DEFINE N == Len(ss)
           P == Seq(T)
<1>1. PICK f : Flattening(ss, T, f) /\ FlattenSeq(ss) = f[Len(ss)]
  BY FlattenSteps
<1>2. ss \in Seq(P)
  OBVIOUS
<1> HIDE DEF P
<1>3. N \in Nat
  BY <1>2
<1>4. N \in 0 .. N
  BY <1>3
<1> HIDE DEF N
<1>5. f \in [0 .. N -> Seq(T)]
  BY <1>1 DEF Flattening, N
<1>6. f[N] \in Seq(T)
  BY <1>4, <1>5
<1> QED
  BY <1>1, <1>6 DEF N

\* A sequence of results.
LEMMA MapType ==
  ASSUME NEW S, NEW T, NEW s \in Seq(S), NEW f, DOMAIN f = DOMAIN s, f = [i \in DOMAIN f |-> f[i]],
         \A i \in DOMAIN s : f[i] \in T
  PROVE  f \in Seq(T)
<1>1. Len(s) \in Nat /\ DOMAIN s = 1 .. Len(s)
  OBVIOUS
<1>2. f = [i \in 1 .. Len(s) |-> f[i]]
  BY <1>1
<1>3. f \in [1 .. Len(s) -> T]
  BY <1>1, <1>2
<1> QED
  BY <1>1, <1>3

\* The entries of a block that are listed.
LEMMA ListedType ==
  ASSUME NEW S, NEW blk \in Seq(S)
  PROVE  Listed(blk) \in Seq(S)
<1> DEFINE N == Len(blk)
           Ok(n) == (\A i \in 1 .. n : blk[i].fits) /\ (n < N => ~blk[n + 1].fits)
           odd == {i \in 1 .. N : ~blk[i].fits}
<1>1. N \in Nat
  OBVIOUS
<1>2. \E n \in 0 .. N : Ok(n)
  <2>1. CASE odd = {}
    <3>1. N \in 0 .. N /\ Ok(N)
      BY <1>1, <2>1
    <3> QED
      BY <3>1
  <2>2. CASE odd # {}
    <3>1. odd \subseteq Nat
      BY <1>1
    <3>2. PICK i \in odd : \A j \in odd : i <= j
      <4> HIDE DEF odd
      <4> QED
        BY <2>2, <3>1, LeastOf
    <3>3. i \in 1 .. N /\ ~blk[i].fits /\ i - 1 \in 0 .. N /\ (i - 1) + 1 = i
      BY <1>1, <3>2
    <3>4. ASSUME NEW j \in 1 .. (i - 1) PROVE blk[j].fits
      BY <1>1, <3>2, <3>3
    <3>5. Ok(i - 1)
      BY <3>3, <3>4
    <3> HIDE DEF Ok
    <3> QED
      BY <3>3, <3>5
  <2> QED
    BY <2>1, <2>2
<1> DEFINE n == CHOOSE n \in 0 .. N : Ok(n)
<1>3. n \in 0 .. N
  BY <1>2
<1>4. Listed(blk) = SubSeq(blk, 1, n)
  BY DEF Listed
<1> HIDE DEF n
<1>5. SubSeq(blk, 1, n) \in Seq(S)
  BY <1>1, <1>3
<1> QED
  BY <1>4, <1>5

\* What add_filename_mapping() is given.
Found_ == [ino : Nat \ {0}, name : FileNames]
Named == {e \in [ino : Nat, name : FileNames, fits : BOOLEAN,
                 gap : Seq([ino : Nat, name : FileNames, cells : Nat])] : e.ino # 0}
Ghostly == {g \in [ino : Nat, name : FileNames, cells : Nat] : g.ino # 0}

LEMMA NamesOfEntries ==
  ASSUME NEW s \in Seq(Named)
  PROVE  Names(s) \in Seq(Found_)
<1> DEFINE f == Names(s)
<1>1. f = [i \in DOMAIN s |-> [ino |-> s[i].ino, name |-> s[i].name]]
  BY DEF Names
<1>2. \A i \in DOMAIN s : s[i] \in Named
  OBVIOUS
<1>3. \A e \in Named : [ino |-> e.ino, name |-> e.name] \in Found_
  BY DEF Named, Found_
<1>4. \A i \in DOMAIN s : f[i] \in Found_
  BY <1>1, <1>2, <1>3
<1>5. DOMAIN f = DOMAIN s /\ f = [i \in DOMAIN f |-> f[i]]
  BY <1>1
<1> HIDE DEF f
<1>6. f \in Seq(Found_)
  BY <1>4, <1>5, MapType
<1> QED
  BY <1>6 DEF f

LEMMA NamesOfGhosts ==
  ASSUME NEW s \in Seq(Ghostly)
  PROVE  Names(s) \in Seq(Found_)
<1> DEFINE f == Names(s)
<1>1. f = [i \in DOMAIN s |-> [ino |-> s[i].ino, name |-> s[i].name]]
  BY DEF Names
<1>2. \A i \in DOMAIN s : s[i] \in Ghostly
  OBVIOUS
<1>3. \A e \in Ghostly : [ino |-> e.ino, name |-> e.name] \in Found_
  BY DEF Ghostly, Found_
<1>4. \A i \in DOMAIN s : f[i] \in Found_
  BY <1>1, <1>2, <1>3
<1>5. DOMAIN f = DOMAIN s /\ f = [i \in DOMAIN f |-> f[i]]
  BY <1>1
<1> HIDE DEF f
<1>6. f \in Seq(Found_)
  BY <1>4, <1>5, MapType
<1> QED
  BY <1>6 DEF f

\* A block of a directory, and an old one from the journal.
LEMMA DirBlockNames ==
  ASSUME NEW blk \in Seq(DirEntries)
  PROVE  dir_block_callback(blk) \in Seq(Found_) /\ parse_journal_block(blk) \in Seq(Found_)
<1> DEFINE s == Listed(blk)
           I == {i \in DOMAIN s : IsFile(s[i])}
           J == {i \in DOMAIN s : IsFile(s[i]) /\ s[i].ino <= InodesCount}
<1>1. s \in Seq(DirEntries)
  BY ListedType
<1>2. \A i \in DOMAIN s : s[i] \in DirEntries
  <2> HIDE DEF s
  <2> QED
    BY <1>1
<1>3. \A i \in DOMAIN s : IsFile(s[i]) => s[i] \in Named
  BY <1>2 DEF IsFile, Named, DirEntries
<1>4. dir_block_callback(blk) = Names(PickSeq(s, I))
  BY DEF dir_block_callback, Select
<1>5. parse_journal_block(blk) = IF LooksLikeDir(blk) THEN Names(PickSeq(s, J)) ELSE <<>>
  BY DEF parse_journal_block, Select
<1>6. (\A i \in DOMAIN s \cap I : s[i] \in Named) /\ (\A i \in DOMAIN s \cap J : s[i] \in Named)
  BY <1>3
<1> HIDE DEF s, I, J
<1>7. PickSeq(s, I) \in Seq(Named) /\ PickSeq(s, J) \in Seq(Named)
  BY <1>1, <1>6, PickType
<1>8. Names(PickSeq(s, I)) \in Seq(Found_) /\ Names(PickSeq(s, J)) \in Seq(Found_)
  BY <1>7, NamesOfEntries
<1>9. <<>> \in Seq(Found_)
  OBVIOUS
<1> QED
  BY <1>4, <1>5, <1>8, <1>9

\* The ghosts of a gap: the loop always steps on.
LEMMA GhostsType ==
  ASSUME NEW gap \in Seq([ino : Nat, name : FileNames, cells : Nat])
  PROVE  Ghosts(gap) \in Seq(Ghostly)
<1> DEFINE G == [ino : Nat, name : FileNames, cells : Nat]
           D == Nat \ {0}
           V == Seq(Ghostly)
           L == Len(gap)
           N == L + 1
           valid(i) == ghost_dirent_looks_valid(gap[i])
           From(f) == f = [i \in D |-> IF i > L THEN <<>>
                                       ELSE IF valid(i) THEN <<gap[i]>> \o f[i + gap[i].cells]
                                       ELSE f[i + 1]]
           from == CHOOSE f : From(f)
           m == [i \in D |-> IF i > L THEN 0 ELSE N - i]
           F == [x \in D \X [D -> V] |-> IF x[1] > L THEN <<>>
                                          ELSE IF valid(x[1])
                                          THEN <<gap[x[1]]>> \o x[2][x[1] + gap[x[1]].cells]
                                          ELSE x[2][x[1] + 1]]
<1>1. L \in Nat /\ N \in Nat
  OBVIOUS
<1>2. ASSUME NEW i \in D, ~(i > L) PROVE gap[i] \in G
  <2> HIDE DEF G
  <2>1. gap \in Seq(G)
    BY DEF G
  <2> QED
    BY <1>2, <2>1
<1>3. ASSUME NEW i \in D, ~(i > L), valid(i)
      PROVE  /\ gap[i] \in Ghostly /\ i + gap[i].cells \in D /\ i + gap[i].cells > i
             /\ <<gap[i]>> \in Seq(Ghostly)
  <2>1. gap[i] \in G
    BY <1>2, <1>3
  <2>2. gap[i].ino # 0 /\ gap[i].cells > 0
    BY <1>3, NamesAssumption DEF ghost_dirent_looks_valid
  <2>3. gap[i] \in Ghostly
    BY <2>1, <2>2 DEF Ghostly
  <2>4. gap[i].cells \in Nat
    BY <2>1
  <2>5. i + gap[i].cells \in D /\ i + gap[i].cells > i
    BY <2>2, <2>4
  <2>6. <<gap[i]>> \in Seq(Ghostly)
    BY <2>3
  <2> QED
    BY <2>3, <2>5, <2>6
<1>4. ASSUME NEW i \in D, NEW g \in [D -> V]
      PROVE  /\ F[<<i, g>>] = (IF i > L THEN <<>>
                               ELSE IF valid(i) THEN <<gap[i]>> \o g[i + gap[i].cells]
                               ELSE g[i + 1])
             /\ F[<<i, g>>] \in V
  <2>1. F[<<i, g>>] = (IF i > L THEN <<>>
                       ELSE IF valid(i) THEN <<gap[i]>> \o g[i + gap[i].cells]
                       ELSE g[i + 1])
    BY <1>4
  <2>2. ~(i > L) /\ valid(i) => <<gap[i]>> \o g[i + gap[i].cells] \in V
    <3> HAVE ~(i > L) /\ valid(i)
    <3> DEFINE a == <<gap[i]>>
               b == g[i + gap[i].cells]
    <3>1. a \in Seq(Ghostly) /\ b \in Seq(Ghostly)
      BY <1>3
    <3> HIDE DEF a, b
    <3>2. a \o b \in Seq(Ghostly)
      BY <3>1
    <3> QED
      BY <3>2 DEF a, b
  <2>3. i + 1 \in D
    OBVIOUS
  <2>4. g[i + 1] \in V
    BY <2>3
  <2>5. <<>> \in V
    OBVIOUS
  <2> HIDE DEF V, F
  <2> QED
    BY <2>1, <2>2, <2>4, <2>5
<1>5. F \in [D \X [D -> V] -> V]
  <2> SUFFICES ASSUME NEW y \in D \X [D -> V] PROVE F[y] \in V
    OBVIOUS
  <2>1. PICK i \in D, g \in [D -> V] : y = <<i, g>>
    OBVIOUS
  <2> HIDE DEF F, V, D
  <2> QED
    BY <1>4, <2>1
<1>6. m \in [D -> 0 .. N]
  BY <1>1
<1>7. ASSUME NEW i \in D, NEW g \in [D -> V], NEW h \in [D -> V],
             \A j \in D : m[j] < m[i] => g[j] = h[j]
      PROVE  F[<<i, g>>] = F[<<i, h>>]
  <2>1. ASSUME NEW j \in D, j > i, ~(i > L) PROVE g[j] = h[j]
    <3>1. m[j] = (IF j > L THEN 0 ELSE N - j) /\ m[i] = N - i
      BY <2>1
    <3>2. (IF j > L THEN 0 ELSE N - j) < N - i
      <4>1. i \in Int /\ j \in Int /\ L \in Int
        BY <1>1
      <4> HIDE DEF L
      <4> QED
        BY <2>1, <4>1
    <3> HIDE DEF m
    <3> QED
      BY <1>7, <3>1, <3>2
  <2>2. ~(i > L) => g[i + 1] = h[i + 1]
    BY <2>1
  <2>3. ~(i > L) /\ valid(i) => g[i + gap[i].cells] = h[i + gap[i].cells]
    BY <1>3, <2>1
  <2>4. /\ F[<<i, g>>] = (IF i > L THEN <<>>
                          ELSE IF valid(i) THEN <<gap[i]>> \o g[i + gap[i].cells]
                          ELSE g[i + 1])
        /\ F[<<i, h>>] = (IF i > L THEN <<>>
                          ELSE IF valid(i) THEN <<gap[i]>> \o h[i + gap[i].cells]
                          ELSE h[i + 1])
    BY <1>4
  <2>5. CASE i > L
    <3> HIDE DEF F, L
    <3> QED
      BY <2>4, <2>5
  <2>6. CASE ~(i > L) /\ valid(i)
    <3> HIDE DEF F, L
    <3> QED
      BY <2>3, <2>4, <2>6
  <2>7. CASE ~(i > L) /\ ~valid(i)
    <3> HIDE DEF F, L
    <3> QED
      BY <2>2, <2>4, <2>7
  <2> QED
    BY <2>5, <2>6, <2>7
<1>8. Recursive(D, V, N, m, F)
  <2>1. V # {}
    <3>1. <<>> \in V
      OBVIOUS
    <3> QED
      BY <3>1
  <2> HIDE DEF D, V, N, m, F
  <2> QED
    BY <1>1, <1>5, <1>6, <1>7, <2>1 DEF Recursive
<1>9. PICK f \in [D -> V] : \A i \in D : f[i] = F[<<i, f>>]
  <2> HIDE DEF D, V, N, m, F
  <2> QED
    BY <1>8, RecursionSolvable
<1>10. From(f)
  <2>1. \A i \in D : f[i] = (IF i > L THEN <<>>
                              ELSE IF valid(i) THEN <<gap[i]>> \o f[i + gap[i].cells]
                              ELSE f[i + 1])
    <3> HIDE DEF D, V, F
    <3> QED
      BY <1>4, <1>9
  <2> HIDE DEF V
  <2> QED
    BY <1>9, <2>1
<1>11. From(from)
  BY <1>10
<1> DEFINE B == {i \in D : from[i] \notin V}
<1>12. \A i \in D : from[i] = (IF i > L THEN <<>>
                                ELSE IF valid(i) THEN <<gap[i]>> \o from[i + gap[i].cells]
                                ELSE from[i + 1])
  <2> HIDE DEF from
  <2> QED
    BY <1>11
<1> HIDE DEF from
<1>13. ASSUME B # {} PROVE FALSE
  <2>1. \A i \in B : i \in Nat /\ i <= L
    <3> TAKE i \in B
    <3>1. i \in D /\ from[i] \notin V
      OBVIOUS
    <3>2. <<>> \in V
      OBVIOUS
    <3>3. ~(i > L)
      BY <1>12, <3>1, <3>2
    <3> QED
      BY <1>1, <3>1, <3>3
  <2>2. PICK i \in B : \A j \in B : j <= i
    <3> HIDE DEF B
    <3> QED
      BY <1>1, <1>13, <2>1, GreatestOf
  <2>3. i \in D /\ from[i] \notin V /\ ~(i > L)
    BY <1>1, <2>1, <2>2
  <2>4. \A j \in D : j > i => from[j] \in V
    BY <2>2, <2>3
  <2>5. CASE valid(i)
    <3> DEFINE a == <<gap[i]>>
               b == from[i + gap[i].cells]
    <3>1. a \in Seq(Ghostly) /\ b \in Seq(Ghostly)
      BY <1>3, <2>3, <2>4, <2>5
    <3>2. from[i] = a \o b
      BY <1>12, <2>3, <2>5
    <3> HIDE DEF a, b
    <3>3. a \o b \in Seq(Ghostly)
      BY <3>1
    <3> QED
      BY <2>3, <3>2, <3>3
  <2>6. CASE ~valid(i)
    <3>1. from[i] = from[i + 1]
      BY <1>12, <2>3, <2>6
    <3>2. i + 1 \in D /\ i + 1 > i
      BY <2>3
    <3> QED
      BY <2>3, <2>4, <3>1, <3>2
  <2> QED
    BY <2>5, <2>6
<1>14. from[1] \in V
  <2>1. 1 \in D
    OBVIOUS
  <2> HIDE DEF V
  <2> QED
    BY <1>13, <2>1
<1>15. Ghosts(gap) = from[1]
  BY DEF Ghosts, from
<1> QED
  BY <1>14, <1>15

\* The ghosts of a block.
LEMMA GhostNames ==
  ASSUME NEW blk \in Seq(DirEntries)
  PROVE  scan_dir_block_for_ghosts(blk) \in Seq(Found_)
<1> DEFINE s == Listed(blk)
           f == [i \in DOMAIN s |-> Names(Ghosts(s[i].gap))]
<1>1. s \in Seq(DirEntries)
  BY ListedType
<1> HIDE DEF s
<1>2. ASSUME NEW i \in DOMAIN s PROVE f[i] \in Seq(Found_)
  <2>1. s[i] \in DirEntries
    BY <1>1
  <2>2. s[i].gap \in Seq([ino : Nat, name : FileNames, cells : Nat])
    BY <2>1 DEF DirEntries
  <2>3. Ghosts(s[i].gap) \in Seq(Ghostly)
    BY <2>2, GhostsType
  <2>4. Names(Ghosts(s[i].gap)) \in Seq(Found_)
    BY <2>3, NamesOfGhosts
  <2> QED
    BY <2>4
<1>3. DOMAIN f = DOMAIN s /\ f = [i \in DOMAIN f |-> f[i]]
  OBVIOUS
<1> DEFINE T == Seq(Found_)
<1> HIDE DEF f
<1>4. f \in Seq(T)
  <2> HIDE DEF T
  <2>1. \A i \in DOMAIN s : f[i] \in T
    BY <1>2 DEF T
  <2> QED
    BY <1>1, <1>3, <2>1, MapType
<1>5. FlattenSeq(f) \in Seq(Found_)
  BY <1>4, FlattenType
<1> QED
  BY <1>5 DEF scan_dir_block_for_ghosts, f, s

LEMMA LiveBlocksType ==
  ASSUME NEW dirs \in Seq(Directories)
  PROVE  LiveBlocks(dirs) \in Seq(Seq(DirEntries))
<1> DEFINE I == {i \in DOMAIN dirs : dirs[i].links > 0}
           s == PickSeq(dirs, I)
           f == [i \in DOMAIN s |-> s[i].blocks]
           B == Seq(DirEntries)
           T == Seq(B)
<1>1. \A i \in DOMAIN dirs \cap I : dirs[i] \in Directories
  OBVIOUS
<1>2. s \in Seq(Directories)
  <2> HIDE DEF I
  <2> QED
    BY <1>1, PickType
<1>3. LiveBlocks(dirs) = FlattenSeq(f)
  BY DEF LiveBlocks, Select
<1> HIDE DEF s
<1>4. ASSUME NEW i \in DOMAIN s PROVE f[i] \in T
  <2>1. s[i] \in Directories
    BY <1>2
  <2>2. s[i].blocks \in T
    BY <2>1 DEF Directories
  <2> QED
    BY <2>2
<1>5. DOMAIN f = DOMAIN s /\ f = [i \in DOMAIN f |-> f[i]]
  OBVIOUS
<1> HIDE DEF f
<1>6. f \in Seq(T)
  <2> HIDE DEF T
  <2> QED
    BY <1>2, <1>4, <1>5, MapType
<1>7. FlattenSeq(f) \in Seq(B)
  <2> HIDE DEF B
  <2> QED
    BY <1>6, FlattenType DEF T
<1> QED
  BY <1>3, <1>7

\* What is parsed out of every block, one after the other.
LEMMA EachType ==
  ASSUME NEW blks \in Seq(Seq(DirEntries)), NEW f, DOMAIN f = DOMAIN blks,
         f = [i \in DOMAIN f |-> f[i]],
         \A i \in DOMAIN blks : f[i] \in Seq(Found_)
  PROVE  FlattenSeq(f) \in Seq(Found_)
<1> DEFINE B == Seq(DirEntries)
           T == Seq(Found_)
<1>1. blks \in Seq(B) /\ \A i \in DOMAIN blks : f[i] \in T
  OBVIOUS
<1>2. f \in Seq(T)
  <2> HIDE DEF B, T
  <2> QED
    BY <1>1, MapType
<1> QED
  BY <1>2, FlattenType

\* Every name that reaches add_filename_mapping().
LEMMA NamesFoundType ==
  ASSUME NEW dirs \in Seq(Directories), NEW jblocks \in Seq(Seq(DirEntries))
  PROVE  NamesFound(dirs, jblocks) \in Seq(Found_)
<1> DEFINE live == LiveBlocks(dirs)
           f == [i \in DOMAIN live |-> dir_block_callback(live[i])]
           g == [i \in DOMAIN jblocks |-> parse_journal_block(jblocks[i])]
           h == [i \in DOMAIN live |-> scan_dir_block_for_ghosts(live[i])]
<1>1. NamesFound(dirs, jblocks) = (FlattenSeq(f) \o FlattenSeq(g)) \o FlattenSeq(h)
  BY DEF NamesFound
<1>2. live \in Seq(Seq(DirEntries))
  BY LiveBlocksType
<1> HIDE DEF live
<1> DEFINE B == Seq(DirEntries)
<1>3. (\A i \in DOMAIN live : live[i] \in B) /\ (\A i \in DOMAIN jblocks : jblocks[i] \in B)
  <2>1. live \in Seq(B) /\ jblocks \in Seq(B)
    BY <1>2
  <2> HIDE DEF B
  <2> QED
    BY <2>1
<1>4. FlattenSeq(f) \in Seq(Found_)
  <2>1. DOMAIN f = DOMAIN live /\ f = [i \in DOMAIN f |-> f[i]]
    OBVIOUS
  <2>2. \A i \in DOMAIN live : f[i] \in Seq(Found_)
    BY <1>3, DirBlockNames
  <2> HIDE DEF f
  <2> QED
    BY <1>2, <2>1, <2>2, EachType
<1>5. FlattenSeq(g) \in Seq(Found_)
  <2>1. DOMAIN g = DOMAIN jblocks /\ g = [i \in DOMAIN g |-> g[i]]
    OBVIOUS
  <2>2. \A i \in DOMAIN jblocks : g[i] \in Seq(Found_)
    BY <1>3, DirBlockNames
  <2> HIDE DEF g
  <2> QED
    BY <2>1, <2>2, EachType
<1>6. FlattenSeq(h) \in Seq(Found_)
  <2>1. DOMAIN h = DOMAIN live /\ h = [i \in DOMAIN h |-> h[i]]
    OBVIOUS
  <2>2. \A i \in DOMAIN live : h[i] \in Seq(Found_)
    BY <1>3, GhostNames
  <2> HIDE DEF h
  <2> QED
    BY <1>2, <2>1, <2>2, EachType
<1> DEFINE a == FlattenSeq(f)
           b == FlattenSeq(g)
           c == FlattenSeq(h)
<1>7. a \in Seq(Found_) /\ b \in Seq(Found_) /\ c \in Seq(Found_)
  BY <1>4, <1>5, <1>6
<1> HIDE DEF a, b, c
<1>8. (a \o b) \o c \in Seq(Found_)
  BY <1>7
<1> QED
  BY <1>1, <1>8 DEF a, b, c
=============================================================================
