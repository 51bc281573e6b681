-------------------------- MODULE JournalWalkProofs --------------------------
(***************************************************************************)
(* Proofs about JournalWalk for every journal that is laid out as jbd2     *)
(* lays it out, every placement of the inode tables and every index.       *)
(***************************************************************************)
EXTENDS JournalWalk, DataLemmas

-----------------------------------------------------------------------------
(* The bisection of the index. *)

LEMMA Midpoint ==
  ASSUME NEW a \in Int, NEW b \in Int, a <= b
  PROVE  /\ (a + b) \div 2 \in Int /\ a <= (a + b) \div 2 /\ (a + b) \div 2 <= b
         /\ a < b => (a + b) \div 2 < b
  OBVIOUS

\* f computes what the loop of journal_index_read() does.
Bisects(ix, fs, f) ==
    /\ f \in [(0 .. Len(ix)) \X (0 .. Len(ix)) -> 0 .. Len(ix)]
    /\ \A lo, hi \in 0 .. Len(ix) :
         f[<<lo, hi>>] = IF lo >= hi THEN lo
                         ELSE IF ix[(lo + hi) \div 2 + 1].fs_block < fs
                         THEN f[<<(lo + hi) \div 2 + 1, hi>>]
                         ELSE f[<<lo, (lo + hi) \div 2>>]

\* The bisection is well defined.
LEMMA LowerSearchDef ==
  ASSUME NEW ix, NEW fs, Len(ix) \in Nat
  PROVE  Bisects(ix, fs, LowerSearch(ix, fs))
<1> DEFINE n == Len(ix)
           D == (0 .. n) \X (0 .. n)
           V == 0 .. n
           low(p) == ix[(p[1] + p[2]) \div 2 + 1].fs_block < fs
           B(g, p) == IF p[1] >= p[2] THEN p[1]
                      ELSE IF low(p) THEN g[<<(p[1] + p[2]) \div 2 + 1, p[2]>>]
                      ELSE g[<<p[1], (p[1] + p[2]) \div 2>>]
           m == [p \in D |-> IF p[1] < p[2] THEN p[2] - p[1] ELSE 0]
           F == [x \in D \X [D -> V] |-> B(x[2], x[1])]
<1>1. LowerSearch(ix, fs) = CHOOSE f : f = [p \in D |-> B(f, p)]
  BY DEF LowerSearch
<1> HIDE DEF low
<1>2. ASSUME NEW p \in D, p[1] < p[2]
      PROVE  LET mid == (p[1] + p[2]) \div 2
             IN /\ <<mid + 1, p[2]>> \in D /\ m[<<mid + 1, p[2]>>] < m[p]
                /\ <<p[1], mid>> \in D /\ m[<<p[1], mid>>] < m[p]
  <2> DEFINE mid == (p[1] + p[2]) \div 2
  <2>1. p[1] \in 0 .. n /\ p[2] \in 0 .. n
    OBVIOUS
  <2>2. mid \in Int /\ p[1] <= mid /\ mid < p[2]
    BY <1>2, <2>1, Midpoint
  <2> HIDE DEF mid
  <2>3. mid + 1 \in 0 .. n /\ mid \in 0 .. n /\ p[2] - (mid + 1) < p[2] - p[1] /\ mid - p[1] < p[2] - p[1]
    BY <2>1, <2>2
  <2>4. <<mid + 1, p[2]>> \in D /\ <<p[1], mid>> \in D
    BY <2>1, <2>3
  <2>5. m[<<mid + 1, p[2]>>] < m[p] /\ m[<<p[1], mid>>] < m[p]
    BY <1>2, <2>1, <2>2, <2>3, <2>4
  <2> HIDE DEF m, D
  <2> QED
    BY <2>4, <2>5 DEF mid
<1>3. m \in [D -> 0 .. n]
  OBVIOUS
<1>4. V # {}
  BY 0 \in V
<1>5. F \in [D \X [D -> V] -> V]
  <2>1. ASSUME NEW g \in [D -> V], NEW p \in D PROVE B(g, p) \in V
    <3>1. CASE p[1] >= p[2]
      BY <3>1
    <3>2. CASE p[1] < p[2]
      <4>1. g[<<(p[1] + p[2]) \div 2 + 1, p[2]>>] \in V /\ g[<<p[1], (p[1] + p[2]) \div 2>>] \in V
        <5> HIDE DEF D, V
        <5> QED
          BY <1>2, <3>2
      <4> QED
        BY <3>2, <4>1
    <3> QED
      BY <3>1, <3>2
  <2> HIDE DEF B, D, V
  <2> QED
    BY <2>1
<1>6. \A x \in D : \A g, h : (\A y \in D : m[y] < m[x] => g[y] = h[y]) => B(g, x) = B(h, x)
  <2> TAKE x \in D
  <2> TAKE g, h
  <2> HAVE \A y \in D : m[y] < m[x] => g[y] = h[y]
  <2>1. CASE x[1] >= x[2]
    BY <2>1
  <2>2. CASE x[1] < x[2]
    <3> HIDE DEF D, V, m
    <3> QED
      BY <1>2, <2>2
  <2> QED
    BY <2>1, <2>2
<1>7. Recursive(D, V, n, m, F)
  <2>1. n \in Nat
    OBVIOUS
  <2> HIDE DEF n, B, D, V, m
  <2> QED
    BY <1>3, <1>4, <1>5, <1>6, <2>1 DEF Recursive
<1>8. PICK f \in [D -> V] : \A p \in D : f[p] = F[<<p, f>>]
  <2> HIDE DEF n, D, V, m, F
  <2> QED
    BY <1>7, RecursionSolvable
<1>9. /\ \A p \in D : f[p] = B(f, p)
      /\ f = [p \in D |-> B(f, p)]
  <2> HIDE DEF D, V, B
  <2> QED
    BY <1>8
<1> DEFINE g == LowerSearch(ix, fs)
<1> HIDE DEF D, V, B, m
<1>10. g = [p \in D |-> B(g, p)]
  BY <1>1, <1>9
<1> HIDE DEF g
<1>11. \A p \in D : g[p] = f[p]
  <2>1. n \in Nat
    OBVIOUS
  <2> HIDE DEF n
  <2>2. Alike(D, n, m, g, f)
    BY <1>3, <1>6, <1>9, <1>10, <2>1 DEF Alike
  <2> QED
    BY <2>2, RecursionUnique
<1>12. g = f
  BY <1>8, <1>10, <1>11
<1>13. g \in [D -> V] /\ \A p \in D : g[p] = B(g, p)
  BY <1>9, <1>12
<1> QED
  BY <1>13 DEF Bisects, g, B, D, V, low

\* Ordered by block, as far as the bisection is concerned.
Ascending(ix) == /\ Len(ix) \in Nat
                 /\ \A i \in 1 .. Len(ix) : ix[i].fs_block \in Int
                 /\ \A i, j \in 1 .. Len(ix) : i < j => ix[i].fs_block <= ix[j].fs_block

\* In an index in order the bisection ends at the first entry for the block, or
\* where it would be.
LEMMA LowerIsBound ==
  ASSUME NEW ix, NEW fs \in Int, Ascending(ix)
  PROVE  /\ Lower(ix, fs) \in 1 .. Len(ix) + 1
         /\ \A i \in 1 .. Len(ix) : i < Lower(ix, fs) <=> ix[i].fs_block < fs
<1> DEFINE n == Len(ix)
           f == LowerSearch(ix, fs)
           Good(lo, hi) == /\ lo <= hi
                           /\ \A i \in 1 .. n : i <= lo => ix[i].fs_block < fs
                           /\ \A i \in 1 .. n : i > hi => fs <= ix[i].fs_block
           Bad == {k \in Nat : \E lo, hi \in 0 .. n :
                      hi - lo = k /\ Good(lo, hi) /\ ~Good(f[<<lo, hi>>], f[<<lo, hi>>])}
<1>0. /\ n \in Nat
      /\ \A i \in 1 .. n : ix[i].fs_block \in Int
      /\ \A i, j \in 1 .. n : i < j => ix[i].fs_block <= ix[j].fs_block
  BY DEF Ascending
<1>1. /\ f \in [(0 .. n) \X (0 .. n) -> 0 .. n]
      /\ \A lo, hi \in 0 .. n :
           f[<<lo, hi>>] = IF lo >= hi THEN lo
                           ELSE IF ix[(lo + hi) \div 2 + 1].fs_block < fs
                           THEN f[<<(lo + hi) \div 2 + 1, hi>>]
                           ELSE f[<<lo, (lo + hi) \div 2>>]
  <2>1. Len(ix) \in Nat
    BY DEF Ascending
  <2>2. Bisects(ix, fs, LowerSearch(ix, fs))
    BY <2>1, LowerSearchDef
  <2> QED
    BY <2>2 DEF Bisects
<1> HIDE DEF n, f
<1>2. Bad = {}
  <2> SUFFICES ASSUME Bad # {} PROVE FALSE
    OBVIOUS
  <2>1. PICK k \in Bad : \A j \in Bad : k <= j
    <3>1. Bad \subseteq Nat
      OBVIOUS
    <3> HIDE DEF Bad
    <3> QED
      BY <3>1, LeastOf
  <2>2. PICK lo \in 0 .. n, hi \in 0 .. n :
           hi - lo = k /\ Good(lo, hi) /\ ~Good(f[<<lo, hi>>], f[<<lo, hi>>])
    BY <2>1
  <2> HIDE DEF Good
  <2>3. ASSUME NEW l \in 0 .. n, NEW h \in 0 .. n, Good(l, h), h - l < k
        PROVE  Good(f[<<l, h>>], f[<<l, h>>])
    <3>1. h - l \in Nat
      BY <2>3 DEF Good
    <3>2. h - l \notin Bad
      <4> HIDE DEF Bad
      <4>1. k \in Int
        BY <2>2
      <4> QED
        BY <2>1, <2>3, <3>1, <4>1
    <3> QED
      BY <2>3, <3>1, <3>2
  <2> HIDE DEF Bad
  <2>4. lo < hi
    <3>1. lo \in Int /\ hi \in Int /\ lo <= hi
      BY <1>0, <2>2 DEF Good
    <3>2. lo >= hi => f[<<lo, hi>>] = lo
      BY <1>1
    <3>3. lo = hi => Good(lo, lo)
      BY <2>2
    <3> QED
      BY <2>2, <3>1, <3>2, <3>3
  <2> DEFINE mid == (lo + hi) \div 2
  <2>5. mid \in Int /\ lo <= mid /\ mid < hi
    BY <1>0, <2>4, Midpoint
  <2>6. f[<<lo, hi>>] = IF ix[mid + 1].fs_block < fs THEN f[<<mid + 1, hi>>] ELSE f[<<lo, mid>>]
    BY <1>0, <1>1, <2>4
  <2> HIDE DEF mid
  <2>7. mid \in 0 .. n /\ mid + 1 \in 1 .. n /\ lo \in Int /\ hi \in Int /\ k = hi - lo
    BY <1>0, <2>2, <2>5
  <2>8. CASE ix[mid + 1].fs_block < fs
    <3>1. \A i \in 1 .. n : i <= mid + 1 => ix[i].fs_block < fs
      <4> TAKE i \in 1 .. n
      <4> HAVE i <= mid + 1
      <4>1. i < mid + 1 => ix[i].fs_block <= ix[mid + 1].fs_block
        BY <1>0, <2>7
      <4> QED
        BY <1>0, <2>7, <2>8, <4>1
    <3>2. Good(mid + 1, hi)
      BY <2>2, <2>5, <2>7, <3>1 DEF Good
    <3>3. hi - (mid + 1) < k /\ mid + 1 \in 0 .. n
      BY <2>5, <2>7
    <3> QED
      BY <2>2, <2>3, <2>6, <2>8, <3>2, <3>3
  <2>9. CASE ~(ix[mid + 1].fs_block < fs)
    <3>1. \A i \in 1 .. n : i > mid => fs <= ix[i].fs_block
      <4> TAKE i \in 1 .. n
      <4> HAVE i > mid
      <4>1. mid + 1 < i => ix[mid + 1].fs_block <= ix[i].fs_block
        BY <1>0, <2>7
      <4>2. fs <= ix[mid + 1].fs_block
        BY <1>0, <2>7, <2>9
      <4> QED
        BY <1>0, <2>7, <4>1, <4>2
    <3>2. Good(lo, mid)
      BY <2>2, <2>5, <2>7, <3>1 DEF Good
    <3>3. mid - lo < k
      BY <2>5, <2>7
    <3> QED
      BY <2>2, <2>3, <2>6, <2>7, <2>9, <3>2, <3>3
  <2> QED
    BY <2>8, <2>9
<1>3. Good(0, n) /\ 0 \in 0 .. n /\ n \in 0 .. n /\ n - 0 = n
  BY <1>0
<1>4. Good(f[<<0, n>>], f[<<0, n>>])
  <2> HIDE DEF Good
  <2> QED
    BY <1>0, <1>2, <1>3
<1>5. f[<<0, n>>] \in 0 .. n
  BY <1>0, <1>1
<1>6. Lower(ix, fs) = f[<<0, n>>] + 1
  BY DEF Lower, f, n
<1>7. ASSUME NEW i \in 1 .. n
      PROVE  i < f[<<0, n>>] + 1 <=> ix[i].fs_block < fs
  BY <1>0, <1>4, <1>5
<1> QED
  BY <1>0, <1>5, <1>6, <1>7 DEF n

-----------------------------------------------------------------------------
(* The sorted index. *)

LEMMA EntryTypes ==
  ASSUME NEW e \in IndexEntries
  PROVE  /\ e.fs_block \in Nat /\ e.fs_block \in 1 .. TotalBlocks - 1 /\ e.seq \in Nat
         /\ e.journal_blk \in Nat /\ e.journal_blk \in JournalStart .. JournalLen - 1
         /\ e.escaped \in BOOLEAN
<1>1. /\ e.fs_block \in 1 .. TotalBlocks - 1 /\ e.seq \in Nat
      /\ e.journal_blk \in JournalStart .. JournalLen - 1 /\ e.escaped \in BOOLEAN
  BY DEF IndexEntries
<1> QED
  BY <1>1, WalkAssumption

\* jindex_cmp() puts the entries of an index in order.
LEMMA IndexOrder ==
  ASSUME NEW ix \in Seq(IndexEntries)
  PROVE  StrictOrder(DOMAIN ix, SortOrder(ix, jindex_cmp))
<1> DEFINE R == SortOrder(ix, jindex_cmp)
           n == Len(ix)
<1>1. n \in Nat /\ DOMAIN ix = 1 .. n
  OBVIOUS
<1>2. \A i \in 1 .. n : ix[i].fs_block \in Int /\ ix[i].seq \in Int
  <2>1. \A i \in 1 .. n : ix[i] \in IndexEntries
    BY <1>1
  <2> QED
    BY <2>1, EntryTypes
<1>3. \A i, j \in 1 .. n :
        <<i, j>> \in R <=> \/ ix[i].fs_block < ix[j].fs_block
                           \/ ix[i].fs_block = ix[j].fs_block /\ ix[i].seq < ix[j].seq
                           \/ ix[i].fs_block = ix[j].fs_block /\ ix[i].seq = ix[j].seq /\ i < j
  BY <1>1, <1>2 DEF SortOrder, jindex_cmp
<1> HIDE DEF R, n
<1>4. \A i \in 1 .. n : <<i, i>> \notin R
  BY <1>1, <1>2, <1>3
<1>5. ASSUME NEW i \in 1 .. n, NEW j \in 1 .. n, i # j
      PROVE  <<i, j>> \in R \/ <<j, i>> \in R
  <2>1. i < j \/ j < i
    BY <1>1, <1>5
  <2>2. /\ ix[i].fs_block \in Int /\ ix[j].fs_block \in Int
        /\ ix[i].seq \in Int /\ ix[j].seq \in Int
    BY <1>2
  <2> QED
    BY <1>3, <2>1, <2>2
<1>6. ASSUME NEW i \in 1 .. n, NEW j \in 1 .. n, NEW k \in 1 .. n, <<i, j>> \in R, <<j, k>> \in R
      PROVE <<i, k>> \in R
  BY <1>1, <1>2, <1>3, <1>6
<1> QED
  BY <1>1, <1>4, <1>5, <1>6 DEF StrictOrder, R

\* What jindex_sort() does to an index: the same entries, in order.
LEMMA SortedIndex ==
  ASSUME NEW ix \in Seq(IndexEntries)
  PROVE  LET s == qsort(ix, jindex_cmp)
         IN /\ s \in Seq(IndexEntries)
            /\ ToSet(s) = ToSet(ix)
            /\ IsInjective(ix) => IsInjective(s)
            /\ \A i, j \in DOMAIN s : i < j => ~jindex_cmp(s[j], s[i])
<1> DEFINE R == SortOrder(ix, jindex_cmp)
           s == qsort(ix, jindex_cmp)
           n == Len(ix)
<1>1. n \in Nat /\ DOMAIN ix = 1 .. n /\ \A i \in 1 .. n : ix[i] \in IndexEntries
  OBVIOUS
<1>2. IsFiniteSet(DOMAIN ix) /\ Cardinality(DOMAIN ix) = n
  <2>1. IsFiniteSet(1 .. n) /\ Cardinality(1 .. n) = n
    <3> HIDE DEF n
    <3> QED
      BY <1>1, FS_Interval
  <2> QED
    BY <1>1, <2>1
<1>3. s = Arranged(ix, R)
  BY DEF qsort
<1>4. \A i, j \in 1 .. n : <<i, j>> \in R => ~jindex_cmp(ix[j], ix[i])
  <2>1. \A i \in 1 .. n : ix[i].fs_block \in Int /\ ix[i].seq \in Int
    BY <1>1, EntryTypes
  <2> QED
    BY <1>1, <2>1 DEF SortOrder, jindex_cmp
<1>5. StrictOrder(DOMAIN ix, R)
  BY IndexOrder
<1> HIDE DEF R, s, n
<1>6. PICK o : Arrangement(ix, R, s, o)
  BY <1>2, <1>3, <1>5, ArrangedInOrder
<1>7. /\ o \in [1 .. n -> 1 .. n]
      /\ \A a, b \in 1 .. n : a < b => <<o[a], o[b]>> \in R
      /\ \A i \in 1 .. n : \E k \in 1 .. n : o[k] = i
      /\ s = [k \in 1 .. n |-> ix[o[k]]]
  BY <1>1, <1>2, <1>6 DEF Arrangement
<1>8. DOMAIN s = 1 .. n /\ \A k \in 1 .. n : s[k] = ix[o[k]] /\ o[k] \in 1 .. n
  BY <1>7
<1>9. s \in Seq(IndexEntries)
  BY <1>1, <1>7, <1>8
<1>10. ToSet(s) = ToSet(ix)
  <2>1. ToSet(s) = {s[k] : k \in 1 .. n} /\ ToSet(ix) = {ix[i] : i \in 1 .. n}
    BY <1>1, <1>8 DEF ToSet
  <2>2. \A k \in 1 .. n : \E i \in 1 .. n : s[k] = ix[i]
    BY <1>8
  <2>3. \A i \in 1 .. n : \E k \in 1 .. n : s[k] = ix[i]
    BY <1>7, <1>8
  <2> QED
    BY <2>1, <2>2, <2>3
<1>11. \A a, b \in 1 .. n : o[a] = o[b] => a = b
  <2>1. \A i \in 1 .. n : <<i, i>> \notin R
    BY <1>1, <1>5 DEF StrictOrder
  <2>2. \A a, b \in 1 .. n : a # b => a < b \/ b < a
    BY <1>1
  <2> QED
    BY <1>7, <1>8, <2>1, <2>2
<1>12. IsInjective(ix) => IsInjective(s)
  BY <1>1, <1>8, <1>11 DEF IsInjective
<1>13. \A i, j \in 1 .. n : i < j => ~jindex_cmp(s[j], s[i])
  BY <1>4, <1>7, <1>8
<1> QED
  BY <1>8, <1>9, <1>10, <1>12, <1>13 DEF s

\* What makes the reads of an index exact: it is in order, has one entry for the copy of
\* a block in a transaction, and an entry leads to the copy it names.
Exact(ix) ==
    /\ ix \in Seq(IndexEntries)
    /\ \A i, j \in DOMAIN ix : i < j => ~jindex_cmp(ix[j], ix[i])
    /\ \A i, j \in DOMAIN ix : ix[i].fs_block = ix[j].fs_block /\ ix[i].seq = ix[j].seq => i = j
    /\ \A i \in DOMAIN ix : Committed(image, ix[i].seq) => image[ix[i].journal_blk] \in
           {[kind |-> "bad"],
            [kind |-> "data", fs |-> ix[i].fs_block, seq |-> ix[i].seq, esc |-> ix[i].escaped]}

\* journal_index_read() of an index in order is the newest copy.
LEMMA ReadIsNewest ==
  ASSUME NEW fs \in Nat, NEW max \in Nat, Exact(jindex)
  PROVE  journal_index_read(jindex, fs, max) = Newest(fs, max)
<1> DEFINE ix == jindex
           n == Len(ix)
           lo == Lower(ix, fs)
           fits(e) == e.fs_block = fs /\ (max = 0 \/ e.seq <= max)
           fit1 == {i \in lo .. n : /\ \A j \in lo .. i : ix[j].fs_block = fs
                                    /\ max = 0 \/ ix[i].seq <= max}
           fit2 == {e \in ToSet(ix) : e.fs_block = fs /\ (max = 0 \/ e.seq <= max)}
           b == CHOOSE i \in fit1 : \A j \in fit1 : j <= i
           new == CHOOSE e \in fit2 : \A f \in fit2 : f.seq <= e.seq
<1>1. /\ n \in Nat /\ DOMAIN ix = 1 .. n /\ ToSet(ix) = {ix[i] : i \in 1 .. n}
      /\ \A i \in 1 .. n : /\ ix[i] \in IndexEntries /\ ix[i].fs_block \in Nat
                           /\ ix[i].seq \in Nat /\ ix[i].escaped \in BOOLEAN
  <2>1. n \in Nat /\ DOMAIN ix = 1 .. n /\ \A i \in 1 .. n : ix[i] \in IndexEntries
    BY DEF Exact
  <2> QED
    BY <2>1, EntryTypes DEF ToSet
<1>2. \A i, j \in 1 .. n : i < j => ~jindex_cmp(ix[j], ix[i])
  BY <1>1 DEF Exact
<1>3. \A i, j \in 1 .. n : ix[i].fs_block = ix[j].fs_block /\ ix[i].seq = ix[j].seq => i = j
  BY <1>1 DEF Exact
<1>4. \A i, j \in 1 .. n : i < j => /\ ix[i].fs_block <= ix[j].fs_block
                                    /\ ix[i].fs_block = ix[j].fs_block => ix[i].seq <= ix[j].seq
  BY <1>1, <1>2 DEF jindex_cmp
<1>5. lo \in 1 .. n + 1 /\ \A i \in 1 .. n : i < lo <=> ix[i].fs_block < fs
  <2>1. Ascending(ix)
    BY <1>1, <1>4 DEF Ascending
  <2>2. fs \in Int
    OBVIOUS
  <2> QED
    BY <2>1, <2>2, LowerIsBound
<1>6. journal_index_read(ix, fs, max) = IF fit1 = {} THEN Missing
                                        ELSE Restored(ix[b].journal_blk, ix[b].escaped)
  BY DEF journal_index_read
<1>7. Newest(fs, max) = IF fit2 = {} \/ image[new.journal_blk].kind = "bad" THEN Missing
                        ELSE IF ~Committed(image, new.seq) THEN Restored(new.journal_blk, new.escaped)
                        ELSE [fs |-> fs, seq |-> new.seq, esc |-> FALSE]
  BY DEF Newest
<1> HIDE DEF lo, n
<1>8. \A i \in 1 .. n : i \in fit1 <=> fits(ix[i])
  <2> TAKE i \in 1 .. n
  <2>1. ASSUME i \in fit1 PROVE fits(ix[i])
    BY <1>1, <1>5, <2>1
  <2>2. ASSUME fits(ix[i]) PROVE i \in fit1
    <3>1. i \in lo .. n
      BY <1>1, <1>5, <2>2
    <3>2. ASSUME NEW j \in lo .. i PROVE ix[j].fs_block = fs
      <4>1. j \in 1 .. n /\ ~(j < lo) /\ (j = i \/ j < i)
        BY <1>1, <1>5
      <4>2. ~(ix[j].fs_block < fs) /\ ix[j].fs_block <= ix[i].fs_block
        BY <1>1, <1>4, <1>5, <4>1
      <4> QED
        BY <1>1, <2>2, <4>1, <4>2
    <3> QED
      BY <2>2, <3>1, <3>2
  <2> QED
    BY <2>1, <2>2
<1>9. fit1 \subseteq 1 .. n
  BY <1>1, <1>5
<1>10. \A e : e \in fit2 <=> \E i \in fit1 : e = ix[i]
  <2> HIDE DEF fit1
  <2>1. \A e : e \in fit2 <=> e \in ToSet(ix) /\ fits(e)
    OBVIOUS
  <2> HIDE DEF fit2, fits
  <2> QED
    BY <1>1, <1>8, <1>9, <2>1
<1>11. CASE fit1 = {}
  <2>1. fit2 = {}
    <3> HIDE DEF fit1, fit2
    <3> QED
      BY <1>10, <1>11
  <2> HIDE DEF fit1, fit2, b, new
  <2> QED
    BY <1>6, <1>7, <1>11, <2>1
<1>12. CASE fit1 # {}
  <2>1. b \in fit1 /\ \A j \in fit1 : j <= b
    <3>1. fit1 \subseteq Nat /\ \A j \in fit1 : j <= n
      BY <1>1, <1>9
    <3> HIDE DEF fit1
    <3>2. \E i \in fit1 : \A j \in fit1 : j <= i
      BY <1>1, <1>12, <3>1, GreatestOf
    <3> QED
      BY <3>2
  <2> HIDE DEF b
  <2>2. b \in 1 .. n /\ ix[b].fs_block = fs
    BY <1>8, <1>9, <2>1
  <2> HIDE DEF fit1
  <2>3. ix[b] \in fit2
    BY <1>10, <2>1
  <2>4. \A f \in fit2 : f.seq <= ix[b].seq
    <3> TAKE f \in fit2
    <3>1. PICK i \in fit1 : f = ix[i]
      <4> HIDE DEF fit2
      <4> QED
        BY <1>10
    <3>2. i \in 1 .. n /\ ix[i].fs_block = fs /\ i <= b
      BY <1>8, <1>9, <2>1, <3>1
    <3>3. i = b \/ i < b
      BY <1>1, <2>2, <3>2
    <3> QED
      BY <1>1, <1>4, <2>2, <3>1, <3>2, <3>3
  <2> HIDE DEF fit2
  <2>5. new \in fit2 /\ \A f \in fit2 : f.seq <= new.seq
    BY <2>3, <2>4
  <2> HIDE DEF new
  <2>6. PICK k \in fit1 : new = ix[k]
    BY <1>10, <2>5
  <2>7. k \in 1 .. n /\ ix[k].fs_block = fs /\ ix[k].seq <= ix[b].seq /\ ix[b].seq <= ix[k].seq
    BY <1>8, <1>9, <2>3, <2>4, <2>5, <2>6
  <2>8. ix[k].seq = ix[b].seq
    BY <1>1, <2>2, <2>7
  <2>9. new = ix[b]
    BY <1>3, <2>2, <2>6, <2>7, <2>8
  <2> DEFINE e == ix[b]
  <2>10. /\ e.fs_block = fs /\ e.escaped \in BOOLEAN
         /\ Committed(image, e.seq) => image[e.journal_blk] \in
              {[kind |-> "bad"],
               [kind |-> "data", fs |-> fs, seq |-> e.seq, esc |-> e.escaped]}
    BY <1>1, <2>2 DEF Exact
  <2>11. fit2 # {}
    BY <2>3
  <2> HIDE DEF e
  <2>12. journal_index_read(ix, fs, max) = Restored(e.journal_blk, e.escaped)
    BY <1>6, <1>12 DEF e
  <2>13. Newest(fs, max) = IF image[e.journal_blk].kind = "bad" THEN Missing
                           ELSE IF ~Committed(image, e.seq) THEN Restored(e.journal_blk, e.escaped)
                           ELSE [fs |-> fs, seq |-> e.seq, esc |-> FALSE]
    BY <1>7, <2>9, <2>11 DEF e
  <2>14. CASE image[e.journal_blk].kind = "bad"
    BY <2>12, <2>13, <2>14 DEF Restored
  <2>15. CASE image[e.journal_blk].kind # "bad" /\ ~Committed(image, e.seq)
    BY <2>12, <2>13, <2>15
  <2>16. CASE image[e.journal_blk].kind # "bad" /\ Committed(image, e.seq)
    <3>1. image[e.journal_blk] = [kind |-> "data", fs |-> fs, seq |-> e.seq, esc |-> e.escaped]
      BY <2>10, <2>16
    <3>2. Restored(e.journal_blk, e.escaped) =
            [fs |-> fs, seq |-> e.seq, esc |-> e.escaped /\ ~e.escaped]
      BY <3>1 DEF Restored
    <3>3. (e.escaped /\ ~e.escaped) = FALSE
      OBVIOUS
    <3> QED
      BY <2>12, <2>13, <2>16, <3>2, <3>3
  <2> QED
    BY <2>14, <2>15, <2>16
<1> QED
  BY <1>11, <1>12

-----------------------------------------------------------------------------
(* The bisection of the map of the inode tables. *)

Hits(map, fs, i) == map[i].start <= fs /\ fs < map[i].end
Found(map) == {NoRange} \cup {map[i] : i \in 1 .. Len(map)}

\* f computes what the loop of itable_lookup() does.
Looks(map, fs, f) ==
    /\ f \in [(0 .. Len(map)) \X (-1 .. Len(map) - 1) -> Found(map)]
    /\ \A lo \in 0 .. Len(map), hi \in -1 .. Len(map) - 1 :
         LET mid == (lo + hi) \div 2
         IN f[<<lo, hi>>] = IF lo > hi THEN NoRange
                            ELSE IF fs < map[mid + 1].start THEN f[<<lo, mid - 1>>]
                            ELSE IF fs >= map[mid + 1].end THEN f[<<mid + 1, hi>>]
                            ELSE map[mid + 1]

\* The bisection is well defined.
LEMMA ItableSearchDef ==
  ASSUME NEW map, NEW fs, Len(map) \in Nat
  PROVE  Looks(map, fs, ItableSearch(map, fs))
<1> DEFINE n == Len(map)
           D == (0 .. n) \X (-1 .. n - 1)
           V == Found(map)
           at(p) == map[(p[1] + p[2]) \div 2 + 1]
           low(p) == fs < at(p).start
           high(p) == fs >= at(p).end
           B(g, p) == IF p[1] > p[2] THEN NoRange
                      ELSE IF low(p) THEN g[<<p[1], (p[1] + p[2]) \div 2 - 1>>]
                      ELSE IF high(p) THEN g[<<(p[1] + p[2]) \div 2 + 1, p[2]>>]
                      ELSE at(p)
           m == [p \in D |-> IF p[1] <= p[2] THEN p[2] - p[1] + 1 ELSE 0]
           F == [x \in D \X [D -> V] |-> B(x[2], x[1])]
<1>1. ItableSearch(map, fs) = CHOOSE f : f = [p \in D |-> B(f, p)]
  BY DEF ItableSearch
<1> HIDE DEF low, high, at
<1>2. ASSUME NEW p \in D, p[1] <= p[2]
      PROVE  LET mid == (p[1] + p[2]) \div 2
             IN /\ <<mid + 1, p[2]>> \in D /\ m[<<mid + 1, p[2]>>] < m[p]
                /\ <<p[1], mid - 1>> \in D /\ m[<<p[1], mid - 1>>] < m[p]
                /\ mid + 1 \in 1 .. n
  <2> DEFINE mid == (p[1] + p[2]) \div 2
  <2>1. p[1] \in 0 .. n /\ p[2] \in -1 .. n - 1
    OBVIOUS
  <2>2. mid \in Int /\ p[1] <= mid /\ mid <= p[2]
    BY <1>2, <2>1, Midpoint
  <2> HIDE DEF mid
  <2>3. mid + 1 \in 0 .. n /\ mid + 1 \in 1 .. n /\ mid - 1 \in -1 .. n - 1
    BY <2>1, <2>2
  <2>4. <<mid + 1, p[2]>> \in D /\ <<p[1], mid - 1>> \in D
    BY <2>1, <2>3
  <2>5. m[<<mid + 1, p[2]>>] < m[p] /\ m[<<p[1], mid - 1>>] < m[p]
    BY <1>2, <2>1, <2>2, <2>3, <2>4
  <2> HIDE DEF m, D
  <2> QED
    BY <2>3, <2>4, <2>5 DEF mid
<1>3. m \in [D -> 0 .. n]
  OBVIOUS
<1>4. NoRange \in V
  BY DEF Found
<1>5. F \in [D \X [D -> V] -> V]
  <2>1. ASSUME NEW g \in [D -> V], NEW p \in D PROVE B(g, p) \in V
    <3>1. CASE p[1] > p[2]
      <4> HIDE DEF V
      <4> QED
        BY <1>4, <3>1
    <3>2. CASE p[1] <= p[2]
      <4>1. /\ g[<<(p[1] + p[2]) \div 2 + 1, p[2]>>] \in V
            /\ g[<<p[1], (p[1] + p[2]) \div 2 - 1>>] \in V
        <5> HIDE DEF D, V
        <5> QED
          BY <1>2, <3>2
      <4>2. at(p) \in V
        <5>1. (p[1] + p[2]) \div 2 + 1 \in 1 .. n
          <6> HIDE DEF D
          <6> QED
            BY <1>2, <3>2
        <5> HIDE DEF D
        <5> QED
          BY <5>1 DEF at, Found
      <4> HIDE DEF V
      <4> QED
        BY <3>2, <4>1, <4>2
    <3>3. p[1] \in Int /\ p[2] \in Int
      OBVIOUS
    <3> HIDE DEF B, D, V
    <3> QED
      BY <3>1, <3>2, <3>3
  <2> HIDE DEF B, D, V
  <2> QED
    BY <2>1
<1>6. \A x \in D : \A g, h : (\A y \in D : m[y] < m[x] => g[y] = h[y]) => B(g, x) = B(h, x)
  <2> TAKE x \in D
  <2> TAKE g, h
  <2> HAVE \A y \in D : m[y] < m[x] => g[y] = h[y]
  <2>1. CASE x[1] > x[2]
    BY <2>1
  <2>2. CASE x[1] <= x[2]
    <3> HIDE DEF D, V, m
    <3> QED
      BY <1>2, <2>2
  <2>3. x[1] \in Int /\ x[2] \in Int
    OBVIOUS
  <2> HIDE DEF B, D, m
  <2> QED
    BY <2>1, <2>2, <2>3
<1>7. Recursive(D, V, n, m, F)
  <2>1. n \in Nat
    OBVIOUS
  <2> HIDE DEF n, B, D, V, m
  <2> QED
    BY <1>3, <1>4, <1>5, <1>6, <2>1 DEF Recursive
<1>8. PICK f \in [D -> V] : \A p \in D : f[p] = F[<<p, f>>]
  <2> HIDE DEF n, D, V, m, F
  <2> QED
    BY <1>7, RecursionSolvable
<1>9. /\ \A p \in D : f[p] = B(f, p)
      /\ f = [p \in D |-> B(f, p)]
  <2> HIDE DEF D, V, B
  <2> QED
    BY <1>8
<1> DEFINE g == ItableSearch(map, fs)
<1> HIDE DEF D, V, B, m
<1>10. g = [p \in D |-> B(g, p)]
  BY <1>1, <1>9
<1> HIDE DEF g
<1>11. \A p \in D : g[p] = f[p]
  <2>1. n \in Nat
    OBVIOUS
  <2> HIDE DEF n
  <2>2. Alike(D, n, m, g, f)
    BY <1>3, <1>6, <1>9, <1>10, <2>1 DEF Alike
  <2> QED
    BY <2>2, RecursionUnique
<1>12. g = f
  BY <1>8, <1>10, <1>11
<1>13. g \in [D -> V] /\ \A p \in D : g[p] = B(g, p)
  BY <1>9, <1>12
<1> QED
  BY <1>13 DEF Looks, g, B, D, V, low, high, at

\* The ranges of the map do not overlap and are in order.
Disjoint(map) ==
    /\ Len(map) \in Nat
    /\ \A i \in 1 .. Len(map) : map[i].start \in Int /\ map[i].end \in Int /\ map[i].start < map[i].end
    /\ \A i, j \in 1 .. Len(map) : i < j => map[i].end <= map[j].start

\* In such a map the bisection finds the range that holds the block, if there is one.
LEMMA SearchFinds ==
  ASSUME NEW map, NEW fs \in Int, Disjoint(map)
  PROVE  LET r == ItableSearch(map, fs)[<<0, Len(map) - 1>>]
         IN \/ r = NoRange /\ \A i \in 1 .. Len(map) : ~Hits(map, fs, i)
            \/ \E i \in 1 .. Len(map) : Hits(map, fs, i) /\ r = map[i]
<1> DEFINE n == Len(map)
           f == ItableSearch(map, fs)
           Right(r) == \/ r = NoRange /\ \A i \in 1 .. n : ~Hits(map, fs, i)
                       \/ \E i \in 1 .. n : Hits(map, fs, i) /\ r = map[i]
           Good(lo, hi) == /\ lo <= hi + 1
                           /\ \A i \in 1 .. n : Hits(map, fs, i) => lo < i /\ i <= hi + 1
           Bad == {k \in Nat : \E lo \in 0 .. n, hi \in -1 .. n - 1 :
                      hi - lo + 1 = k /\ Good(lo, hi) /\ ~Right(f[<<lo, hi>>])}
<1>0. /\ n \in Nat
      /\ \A i \in 1 .. n : map[i].start \in Int /\ map[i].end \in Int /\ map[i].start < map[i].end
      /\ \A i, j \in 1 .. n : i < j => map[i].end <= map[j].start
  BY DEF Disjoint
<1>1. \A lo \in 0 .. n, hi \in -1 .. n - 1 :
         LET mid == (lo + hi) \div 2
         IN f[<<lo, hi>>] = IF lo > hi THEN NoRange
                            ELSE IF fs < map[mid + 1].start THEN f[<<lo, mid - 1>>]
                            ELSE IF fs >= map[mid + 1].end THEN f[<<mid + 1, hi>>]
                            ELSE map[mid + 1]
  <2>1. Len(map) \in Nat
    BY DEF Disjoint
  <2>2. Looks(map, fs, ItableSearch(map, fs))
    BY <2>1, ItableSearchDef
  <2> QED
    BY <2>2 DEF Looks
<1> HIDE DEF n, f
<1>2. Bad = {}
  <2> SUFFICES ASSUME Bad # {} PROVE FALSE
    OBVIOUS
  <2>1. PICK k \in Bad : \A j \in Bad : k <= j
    <3>1. Bad \subseteq Nat
      OBVIOUS
    <3> HIDE DEF Bad
    <3> QED
      BY <3>1, LeastOf
  <2>2. PICK lo \in 0 .. n, hi \in -1 .. n - 1 :
           hi - lo + 1 = k /\ Good(lo, hi) /\ ~Right(f[<<lo, hi>>])
    BY <2>1
  <2> HIDE DEF Good, Right
  <2>3. ASSUME NEW l \in 0 .. n, NEW h \in -1 .. n - 1, Good(l, h), h - l + 1 < k
        PROVE  Right(f[<<l, h>>])
    <3>1. h - l + 1 \in Nat
      BY <1>0, <2>3 DEF Good
    <3>2. h - l + 1 \notin Bad
      <4> HIDE DEF Bad
      <4>1. k \in Int
        BY <1>0, <2>2
      <4> QED
        BY <2>1, <2>3, <3>1, <4>1
    <3> QED
      BY <2>3, <3>1, <3>2
  <2> HIDE DEF Bad
  <2>4. lo \in Int /\ hi \in Int
    BY <1>0
  <2>5. lo <= hi
    <3>1. lo > hi => f[<<lo, hi>>] = NoRange
      BY <1>1
    <3>2. lo > hi => \A i \in 1 .. n : ~Hits(map, fs, i)
      BY <1>0, <2>2, <2>4 DEF Good
    <3>3. lo > hi => Right(f[<<lo, hi>>])
      BY <3>1, <3>2 DEF Right
    <3> QED
      BY <2>2, <2>4, <3>3
  <2> DEFINE mid == (lo + hi) \div 2
  <2>6. mid \in Int /\ lo <= mid /\ mid <= hi
    BY <2>4, <2>5, Midpoint
  <2>7. f[<<lo, hi>>] = IF fs < map[mid + 1].start THEN f[<<lo, mid - 1>>]
                        ELSE IF fs >= map[mid + 1].end THEN f[<<mid + 1, hi>>]
                        ELSE map[mid + 1]
    BY <1>0, <1>1, <2>4, <2>5
  <2> HIDE DEF mid
  <2>8. mid + 1 \in 0 .. n /\ mid + 1 \in 1 .. n /\ mid - 1 \in -1 .. n - 1
    BY <1>0, <2>6
  <2> DEFINE M == mid + 1
  <2>9. map[M].start \in Int /\ map[M].end \in Int
    BY <1>0, <2>8
  <2>10. CASE fs < map[M].start
    <3>1. ASSUME NEW i \in 1 .. n, Hits(map, fs, i) PROVE i <= mid
      <4>1. M < i => map[M].end <= map[i].start
        BY <1>0, <2>8
      <4>2. M \in Int /\ i \in Int /\ map[i].start \in Int /\ map[i].start <= fs /\ map[M].start < map[M].end
        BY <1>0, <2>8, <3>1 DEF Hits
      <4>3. ~(M < i) /\ M # i
        BY <2>9, <2>10, <4>1, <4>2
      <4> QED
        BY <2>6, <4>2, <4>3
    <3>2. Good(lo, mid - 1)
      BY <2>2, <2>4, <2>6, <3>1 DEF Good
    <3>3. mid - 1 - lo + 1 < k
      BY <2>2, <2>4, <2>6
    <3> QED
      BY <2>2, <2>3, <2>7, <2>8, <2>10, <3>2, <3>3
  <2>11. CASE ~(fs < map[M].start) /\ fs >= map[M].end
    <3>1. ASSUME NEW i \in 1 .. n, Hits(map, fs, i) PROVE mid + 1 < i
      <4>1. i < M => map[i].end <= map[M].start
        BY <1>0, <2>8
      <4>2. M \in Int /\ i \in Int /\ map[i].end \in Int /\ fs < map[i].end /\ map[M].start < map[M].end
        BY <1>0, <2>8, <3>1 DEF Hits
      <4>3. ~(i < M) /\ M # i
        BY <2>9, <2>11, <4>1, <4>2
      <4> QED
        BY <2>6, <4>2, <4>3
    <3>2. Good(mid + 1, hi)
      BY <2>2, <2>4, <2>6, <3>1 DEF Good
    <3>3. hi - (mid + 1) + 1 < k
      BY <2>2, <2>4, <2>6
    <3> QED
      BY <2>2, <2>3, <2>7, <2>8, <2>11, <3>2, <3>3
  <2>12. CASE ~(fs < map[M].start) /\ ~(fs >= map[M].end)
    <3>1. f[<<lo, hi>>] = map[M]
      BY <2>7, <2>12
    <3>2. Hits(map, fs, M)
      BY <2>9, <2>12 DEF Hits
    <3> QED
      BY <2>2, <2>8, <3>1, <3>2 DEF Right
  <2> QED
    BY <2>10, <2>11, <2>12
<1>3. Good(0, n - 1) /\ 0 \in 0 .. n /\ n - 1 \in -1 .. n - 1 /\ (n - 1) - 0 + 1 = n
  BY <1>0
<1>4. Right(f[<<0, n - 1>>])
  <2> HIDE DEF Good, Right
  <2> QED
    BY <1>0, <1>2, <1>3
<1> QED
  BY <1>4 DEF f, n

-----------------------------------------------------------------------------
(* The inodes of a block. *)

LEMMA TableSize ==
  /\ TableBlocks \in Int /\ TableBlocks >= 1
  /\ InodesPerGroup <= InodesPerBlock * TableBlocks
<1> DEFINE b == InodesPerBlock
           a == InodesPerGroup + b - 1
           r == a % b
           T == TableBlocks
<1>1. b \in Int /\ b > 0 /\ a \in Int /\ a >= b /\ InodesPerGroup \in Int
  BY WalkAssumption
<1>2. T = a \div b
  BY DEF TableBlocks
<1> HIDE DEF b
<1>3. T \in Int /\ r \in 0 .. b - 1 /\ a = b * T + r
  <2> HIDE DEF a, T
  <2> QED
    BY <1>1, <1>2, DivMod
<1> HIDE DEF r
<1>4. T >= 1
  <2> SUFFICES ASSUME T <= 0 PROVE FALSE
    BY <1>3
  <2> HIDE DEF a, T
  <2>1. b * T <= 0
    BY <1>1, <1>3
  <2> QED
    BY <1>1, <1>3, <2>1
<1>5. InodesPerGroup <= b * T
  BY <1>1, <1>3
<1> QED
  BY <1>3, <1>4, <1>5 DEF b

\* Group i's table is known, and holds block fs.
Known(i) == i \in DOMAIN GroupTables /\ GroupTables[i] # 0
Holds(i, fs) == Known(i) /\ GroupTables[i] <= fs /\ fs < GroupTables[i] + TableBlocks
RangeOf(i) == [start |-> GroupTables[i], end |-> GroupTables[i] + TableBlocks, group |-> i - 1]

\* The map of the inode tables: the known tables, in order.
LEMMA ItableMap ==
  /\ Disjoint(build_itable_map)
  /\ \A k \in 1 .. Len(build_itable_map) : \E i : Known(i) /\ build_itable_map[k] = RangeOf(i)
  /\ \A i : Known(i) => \E k \in 1 .. Len(build_itable_map) : build_itable_map[k] = RangeOf(i)
<1> DEFINE I == {i \in DOMAIN GroupTables : GroupTables[i] # 0}
           R == SortOrder(ItableRanges, itable_range_cmp)
           map == build_itable_map
           n == Cardinality(I)
<1>1. /\ DOMAIN ItableRanges = I /\ \A i : Known(i) <=> i \in I
      /\ \A i \in I : ItableRanges[i] = RangeOf(i)
  BY DEF ItableRanges, Known, RangeOf
<1>2. I \subseteq 1 .. Len(GroupTables) /\ Len(GroupTables) \in Nat
  BY WalkAssumption
<1>3. IsFiniteSet(I)
  <2>1. IsFiniteSet(1 .. Len(GroupTables))
    <3> DEFINE l == Len(GroupTables)
    <3>1. 1 \in Int /\ l \in Int
      BY <1>2
    <3> HIDE DEF l
    <3>2. IsFiniteSet(1 .. l)
      BY <3>1, FS_Interval
    <3> QED
      BY <3>2 DEF l
  <2> HIDE DEF I
  <2> QED
    BY <1>2, <2>1, FS_Subset
<1>4. \A i \in I : i \in Int /\ GroupTables[i] \in Int
  BY WalkAssumption, <1>2
<1>5. \A i, j \in I : <<i, j>> \in R <=> \/ GroupTables[i] < GroupTables[j]
                                         \/ GroupTables[i] = GroupTables[j] /\ i < j
  <2>1. \A i \in I : ItableRanges[i].start = GroupTables[i]
    BY <1>1 DEF RangeOf
  <2> HIDE DEF I
  <2> QED
    BY <1>1, <1>4, <2>1 DEF SortOrder, itable_range_cmp
<1> HIDE DEF I, R
<1>6. StrictOrder(I, R)
  <2>1. \A i \in I : <<i, i>> \notin R
    BY <1>4, <1>5
  <2>2. ASSUME NEW i \in I, NEW j \in I, i # j PROVE <<i, j>> \in R \/ <<j, i>> \in R
    BY <1>4, <1>5, <2>2
  <2>3. ASSUME NEW i \in I, NEW j \in I, NEW k \in I, <<i, j>> \in R, <<j, k>> \in R
        PROVE  <<i, k>> \in R
    BY <1>4, <1>5, <2>3
  <2> QED
    BY <2>1, <2>2, <2>3 DEF StrictOrder
<1>7. map = Arranged(ItableRanges, R)
  BY DEF build_itable_map, qsort, R
<1> HIDE DEF map
<1>8. PICK o : Arrangement(ItableRanges, R, map, o)
  BY <1>1, <1>3, <1>6, <1>7, ArrangedInOrder
<1>9. /\ n \in Nat /\ o \in [1 .. n -> I]
      /\ \A a, b \in 1 .. n : a < b => <<o[a], o[b]>> \in R
      /\ \A i \in I : \E k \in 1 .. n : o[k] = i
      /\ map = [k \in 1 .. n |-> ItableRanges[o[k]]]
  BY <1>1, <1>8 DEF Arrangement
<1> HIDE DEF n
<1>10. \A k \in 1 .. n : o[k] \in I /\ map[k] = RangeOf(o[k])
  BY <1>1, <1>9
<1>11. Len(map) = n
  <2>1. map \in Seq({ItableRanges[i] : i \in I})
    BY <1>9
  <2>2. DOMAIN map = 1 .. n
    BY <1>9
  <2> QED
    BY <1>9, <2>1, <2>2
<1>12. Disjoint(map)
  <2>1. \A k \in 1 .. n : map[k].start = GroupTables[o[k]] /\ map[k].end = GroupTables[o[k]] + TableBlocks
    <3>1. \A i : RangeOf(i).start = GroupTables[i] /\ RangeOf(i).end = GroupTables[i] + TableBlocks
      BY DEF RangeOf
    <3> QED
      BY <1>10, <3>1
  <2>2. \A k \in 1 .. n : map[k].start \in Int /\ map[k].end \in Int /\ map[k].start < map[k].end
    BY <1>4, <1>10, <2>1, TableSize
  <2>3. ASSUME NEW a \in 1 .. n, NEW b \in 1 .. n, a < b PROVE map[a].end <= map[b].start
    <3> DEFINE i == o[a]
               j == o[b]
    <3>1. i \in I /\ j \in I /\ <<i, j>> \in R /\ <<i, i>> \notin R
      BY <1>6, <1>9, <1>10, <2>3 DEF StrictOrder
    <3> HIDE DEF i, j
    <3>2. i # j /\ Known(i) /\ Known(j)
      BY <1>1, <3>1
    <3>3. \/ GroupTables[i] + TableBlocks <= GroupTables[j]
          \/ GroupTables[j] + TableBlocks <= GroupTables[i]
      BY <3>2, TablesAssumption DEF Known
    <3>4. GroupTables[i] <= GroupTables[j] /\ GroupTables[i] \in Int /\ GroupTables[j] \in Int
      BY <1>4, <1>5, <3>1
    <3>5. GroupTables[i] + TableBlocks <= GroupTables[j]
      BY <3>3, <3>4, TableSize
    <3> QED
      BY <2>1, <3>5 DEF i, j
  <2> QED
    BY <1>9, <1>11, <2>2, <2>3 DEF Disjoint
<1>13. \A k \in 1 .. n : \E i : Known(i) /\ map[k] = RangeOf(i)
  BY <1>1, <1>10
<1>14. \A i : Known(i) => \E k \in 1 .. n : map[k] = RangeOf(i)
  BY <1>1, <1>9, <1>10
<1> QED
  BY <1>11, <1>12, <1>13, <1>14 DEF map

\* itable_lookup() finds the table that a block is in.
LEMMA LookupFinds ==
  ASSUME NEW fs \in Int
  PROVE  \/ itable_lookup(fs) = NoRange /\ \A i : ~Holds(i, fs)
         \/ \E i : Holds(i, fs) /\ itable_lookup(fs) = RangeOf(i)
<1> DEFINE map == build_itable_map
           r == itable_lookup(fs)
<1>1. r = ItableSearch(map, fs)[<<0, Len(map) - 1>>]
  BY DEF itable_lookup
<1> HIDE DEF r
<1>2. Disjoint(map)
  BY ItableMap
<1>3. \A k \in 1 .. Len(map) : \E i : Known(i) /\ map[k] = RangeOf(i)
  BY ItableMap
<1>4. \A i : Known(i) => \E k \in 1 .. Len(map) : map[k] = RangeOf(i)
  BY ItableMap
<1> HIDE DEF map
<1>5. \/ r = NoRange /\ \A k \in 1 .. Len(map) : ~Hits(map, fs, k)
      \/ \E k \in 1 .. Len(map) : Hits(map, fs, k) /\ r = map[k]
  BY <1>1, <1>2, SearchFinds
<1>6. \A i : \A k \in 1 .. Len(map) : Known(i) /\ map[k] = RangeOf(i) =>
                                        (Hits(map, fs, k) <=> Holds(i, fs))
  BY DEF Hits, Holds, RangeOf
<1>7. CASE r = NoRange /\ \A k \in 1 .. Len(map) : ~Hits(map, fs, k)
  <2>1. \A i : ~Holds(i, fs)
    BY <1>4, <1>6, <1>7 DEF Holds
  <2> QED
    BY <1>7, <2>1 DEF r
<1>8. CASE \E k \in 1 .. Len(map) : Hits(map, fs, k) /\ r = map[k]
  <2>1. PICK k \in 1 .. Len(map) : Hits(map, fs, k) /\ r = map[k]
    BY <1>8
  <2>2. PICK i : Known(i) /\ map[k] = RangeOf(i)
    BY <1>3
  <2>3. Holds(i, fs) /\ r = RangeOf(i)
    BY <1>6, <2>1, <2>2
  <2> QED
    BY <2>3 DEF r
<1> QED
  BY <1>5, <1>7, <1>8

\* process_inode_table_block() takes a block for the inodes that live in it.
LEMMA InodesInExact ==
  ASSUME NEW fs \in Int
  PROVE  /\ InodesIn(fs) = {n \in Inodes : HomeOf(n) = fs}
         /\ \A n \in Inodes : HomeOf(n) = fs => is_inode_table_block(fs)
<1> DEFINE b == InodesPerBlock
           p == InodesPerGroup
           r == itable_lookup(fs)
           local(s) == (fs - r.start) * b + s
<1>0. b \in Int /\ b > 0 /\ p \in Int /\ p > 0 /\ Len(GroupTables) \in Nat
  BY WalkAssumption
<1>1. \A i \in 1 .. Len(GroupTables) : GroupTables[i] \in Nat
  BY WalkAssumption
<1>2. \A i, j : Holds(i, fs) /\ Holds(j, fs) => i = j
  <2> SUFFICES ASSUME NEW i, NEW j, Holds(i, fs), Holds(j, fs), i # j PROVE FALSE
    OBVIOUS
  <2>1. \/ GroupTables[i] + TableBlocks <= GroupTables[j]
        \/ GroupTables[j] + TableBlocks <= GroupTables[i]
    BY TablesAssumption DEF Holds, Known
  <2>2. GroupTables[i] \in Int /\ GroupTables[j] \in Int
    BY WalkAssumption DEF Holds, Known
  <2> QED
    BY <2>1, <2>2, TableSize DEF Holds
<1>3. ASSUME NEW i, Holds(i, fs)
      PROVE  /\ r = RangeOf(i) /\ r # NoRange /\ r.start = GroupTables[i] /\ r.group = i - 1
             /\ i \in 1 .. Len(GroupTables) /\ GroupTables[i] \in Nat /\ GroupTables[i] # 0
  <2>1. r = RangeOf(i)
    BY <1>2, <1>3, LookupFinds
  <2>2. i \in 1 .. Len(GroupTables) /\ GroupTables[i] \in Nat /\ GroupTables[i] # 0
    BY <1>3, WalkAssumption DEF Holds, Known
  <2>3. RangeOf(i).start = GroupTables[i] /\ RangeOf(i).group = i - 1 /\ NoRange.start = 0
    BY DEF RangeOf, NoRange
  <2> QED
    BY <2>1, <2>2, <2>3
<1>4. \A s : calc_inode_from_block(fs, s) = IF r = NoRange \/ local(s) >= p THEN 0
                                            ELSE r.group * p + local(s) + 1
  BY DEF calc_inode_from_block
<1> HIDE DEF r
<1>5. ASSUME NEW s \in 0 .. b - 1, calc_inode_from_block(fs, s) # 0
      PROVE  LET n == calc_inode_from_block(fs, s) IN n \in Inodes /\ HomeOf(n) = fs
  <2> DEFINE n == calc_inode_from_block(fs, s)
             l == local(s)
  <2>1. r # NoRange /\ ~(l >= p) /\ n = r.group * p + l + 1
    BY <1>4, <1>5
  <2>2. PICK i : Holds(i, fs)
    BY <2>1, LookupFinds DEF r
  <2>3. /\ r.start = GroupTables[i] /\ r.group = i - 1 /\ GroupTables[i] # 0
        /\ i \in 1 .. Len(GroupTables) /\ GroupTables[i] \in Nat
    BY <1>3, <2>2
  <2> DEFINE q == fs - GroupTables[i]
  <2>4. q \in Nat
    BY <2>2, <2>3 DEF Holds
  <2>5. l = b * q + s /\ l \in Int
    BY <1>0, <2>3, <2>4
  <2> HIDE DEF q, n, l, b, p
  <2>6. l \in 0 .. p - 1
    <3>1. b * q >= 0
      BY <1>0, <2>4
    <3> DEFINE x == b * q
    <3>2. x \in Int /\ x >= 0 /\ l = x + s
      BY <1>0, <2>4, <2>5, <3>1
    <3> HIDE DEF x
    <3>3. s \in Int /\ s >= 0
      BY <1>0
    <3>4. l < p
      BY <1>0, <2>1, <2>5
    <3> QED
      BY <1>0, <3>2, <3>3, <3>4
  <2>7. l \div b = q
    BY <1>0, <2>4, <2>5, DivUnique
  <2>8. n \in Int /\ n - 1 \in Int /\ n - 1 = p * (i - 1) + l /\ i - 1 \in Int
    BY <1>0, <2>1, <2>3, <2>6
  <2>9. (n - 1) \div p = i - 1 /\ (n - 1) % p = l
    <3> DEFINE a == n - 1
               j == i - 1
    <3>1. a \in Int /\ j \in Int /\ a = p * j + l
      BY <2>8
    <3> HIDE DEF a, j
    <3>2. a \div p = j /\ a % p = l
      BY <1>0, <2>6, <3>1, DivUnique
    <3> QED
      BY <3>2 DEF a, j
  <2>10. HomeOf(n) = GroupTables[i - 1 + 1] + l \div b
    BY <2>9 DEF HomeOf, p, b
  <2>11. HomeOf(n) = fs
    BY <2>3, <2>4, <2>7, <2>10 DEF q
  <2>12. n \in 1 .. Len(GroupTables) * p
    <3>1. p * (i - 1) >= 0 /\ p * (Len(GroupTables) - i) >= 0
      BY <1>0, <2>3
    <3>2. n \in Int /\ n >= 1
      BY <1>0, <2>6, <2>8, <3>1
    <3>3. p * (i - 1) + p + p * (Len(GroupTables) - i) = Len(GroupTables) * p
      BY <1>0, <2>3
    <3> DEFINE x == p * (i - 1)
               y == p * (Len(GroupTables) - i)
    <3>4. x \in Int /\ y \in Int /\ y >= 0 /\ n - 1 = x + l /\ x + p + y = Len(GroupTables) * p
      BY <1>0, <2>3, <2>8, <3>1, <3>3
    <3> HIDE DEF x, y
    <3>5. n <= x + p + y
      BY <1>0, <2>6, <2>8, <3>4
    <3> QED
      BY <1>0, <3>2, <3>4, <3>5
  <2>13. GroupTables[(n - 1) \div p + 1] # 0
    BY <2>3, <2>9
  <2> QED
    BY <2>11, <2>12, <2>13 DEF Inodes, n, p
<1>6. ASSUME NEW n \in Inodes, HomeOf(n) = fs
      PROVE  /\ \E s \in 0 .. b - 1 : calc_inode_from_block(fs, s) = n
             /\ n # 0 /\ is_inode_table_block(fs)
  <2> DEFINE g == (n - 1) \div p
             l == (n - 1) % p
             q == l \div b
             s == l % b
             i == g + 1
  <2>1. n \in Int /\ n >= 1 /\ n <= Len(GroupTables) * p /\ GroupTables[i] # 0
    BY <1>0 DEF Inodes
  <2>2. fs = GroupTables[i] + q
    BY <1>6 DEF HomeOf
  <2> HIDE DEF b, p
  <2>3. n - 1 \in Int
    BY <2>1
  <2>4. g \in Int /\ l \in 0 .. p - 1 /\ n - 1 = p * g + l
    BY <1>0, <2>3, DivMod
  <2> HIDE DEF g, l
  <2>5. q \in Int /\ s \in 0 .. b - 1 /\ l = b * q + s
    BY <1>0, <2>4, DivMod
  <2> HIDE DEF q, s
  <2>6. g >= 0
    <3> SUFFICES ASSUME g <= -1 PROVE FALSE
      BY <2>4
    <3>1. p * (g + 1) <= 0
      BY <1>0, <2>4
    <3> QED
      BY <1>0, <2>1, <2>4, <3>1
  <2>7. g < Len(GroupTables)
    <3> SUFFICES ASSUME g >= Len(GroupTables) PROVE FALSE
      BY <1>0, <2>4
    <3>1. p * (g - Len(GroupTables)) >= 0
      BY <1>0, <2>4
    <3>2. p * g - Len(GroupTables) * p >= 0
      BY <1>0, <2>4, <3>1
    <3> QED
      BY <1>0, <2>1, <2>4, <3>2
  <2>8. q >= 0
    <3> SUFFICES ASSUME q <= -1 PROVE FALSE
      BY <2>5
    <3>1. b * (q + 1) <= 0
      BY <1>0, <2>5
    <3> QED
      BY <1>0, <2>4, <2>5, <3>1
  <2>9. q < TableBlocks
    <3> SUFFICES ASSUME q >= TableBlocks PROVE FALSE
      BY <2>5, TableSize
    <3>1. b * (q - TableBlocks) >= 0
      BY <1>0, <2>5, TableSize
    <3>2. p <= b * TableBlocks
      BY TableSize DEF b, p
    <3> QED
      BY <1>0, <2>4, <2>5, <3>1, <3>2, TableSize
  <2>10. i \in 1 .. Len(GroupTables) /\ GroupTables[i] \in Nat
    BY <1>0, <1>1, <2>4, <2>6, <2>7
  <2> HIDE DEF i
  <2>11. Holds(i, fs)
    <3>1. i \in DOMAIN GroupTables
      BY <2>10, WalkAssumption
    <3> QED
      BY <2>1, <2>2, <2>5, <2>8, <2>9, <2>10, <3>1, TableSize DEF Holds, Known
  <2>12. r # NoRange /\ r.start = GroupTables[i] /\ r.group = i - 1
    BY <1>3, <2>11
  <2>13. local(s) = l
    BY <1>0, <2>2, <2>5, <2>10, <2>12
  <2>14. calc_inode_from_block(fs, s) = (i - 1) * p + l + 1
    BY <1>0, <1>4, <2>4, <2>12, <2>13
  <2>15. calc_inode_from_block(fs, s) = n
    BY <1>0, <2>1, <2>4, <2>14 DEF i
  <2> QED
    BY <2>1, <2>5, <2>12, <2>15 DEF is_inode_table_block, r
<1>7. \A n : n \in InodesIn(fs) <=> n # 0 /\ \E s \in 0 .. b - 1 : n = calc_inode_from_block(fs, s)
  BY DEF InodesIn
<1> HIDE DEF b
<1> QED
  BY <1>5, <1>6, <1>7

-----------------------------------------------------------------------------
(* The parts of a step. *)

\* What is known of a block of the journal by its kind.
LEMMA BlockKinds ==
  ASSUME NEW im, Journaled(im), NEW b \in DOMAIN im
  PROVE  /\ b \in JournalStart .. JournalLen - 1
         /\ im[b].kind = "data" => im[b].fs \in Nat /\ im[b].seq \in Nat /\ im[b].esc \in BOOLEAN
         /\ im[b].kind = "descriptor" =>
              /\ im[b].seq \in Nat /\ im[b].tags \in Seq(Tags) /\ Len(im[b].tags) \in Nat \ {0}
              /\ DOMAIN im[b].tags = 1 .. Len(im[b].tags)
              /\ \A i \in 1 .. Len(im[b].tags) : im[b].tags[i].fs \in Nat /\ im[b].tags[i].esc \in BOOLEAN
<1>1. DOMAIN im = JournalStart .. JournalLen - 1 /\ im[b] \in JournalBlocks
  BY DEF Journaled
<1>2. im[b].kind = "data" => im[b].fs \in Nat /\ im[b].seq \in Nat /\ im[b].esc \in BOOLEAN
  BY <1>1 DEF JournalBlocks
<1>3. im[b].kind = "descriptor" => im[b].seq \in Nat /\ im[b].tags \in Seq(Tags) \ {<<>>}
  BY <1>1 DEF JournalBlocks
<1>4. ASSUME im[b].kind = "descriptor"
      PROVE  /\ im[b].seq \in Nat /\ im[b].tags \in Seq(Tags) /\ Len(im[b].tags) \in Nat \ {0}
             /\ DOMAIN im[b].tags = 1 .. Len(im[b].tags)
             /\ \A i \in 1 .. Len(im[b].tags) : im[b].tags[i].fs \in Nat /\ im[b].tags[i].esc \in BOOLEAN
  <2> DEFINE t == im[b].tags
  <2>1. im[b].seq \in Nat /\ t \in Seq(Tags) /\ t # <<>>
    BY <1>3, <1>4
  <2> HIDE DEF t
  <2>2. Len(t) \in Nat /\ Len(t) # 0 /\ DOMAIN t = 1 .. Len(t) /\ \A i \in 1 .. Len(t) : t[i] \in Tags
    BY <2>1
  <2>3. \A i \in 1 .. Len(t) : t[i].fs \in Nat /\ t[i].esc \in BOOLEAN
    BY <2>2 DEF Tags
  <2> QED
    BY <2>1, <2>2, <2>3 DEF t
<1> QED
  BY <1>1, <1>2, <1>4

\* jindex_add() of an entry that is not there yet: it ends up in the index or among
\* the dropped, once.
LEMMA Added ==
  ASSUME NEW e \in IndexEntries, jindex \in Seq(IndexEntries), dropped \subseteq IndexEntries,
         jindex_add(e)
  PROVE  /\ jindex' \in Seq(IndexEntries) /\ dropped' \subseteq IndexEntries
         /\ ToSet(jindex') \cup dropped' = ToSet(jindex) \cup dropped \cup {e}
         /\ ToSet(jindex) \subseteq ToSet(jindex')
         /\ ToSet(jindex') \subseteq ToSet(jindex) \cup {e}
         /\ /\ IsInjective(jindex) /\ ToSet(jindex) \cap dropped = {}
            /\ e \notin ToSet(jindex) \cup dropped
            => IsInjective(jindex') /\ ToSet(jindex') \cap dropped' = {}
<1>1. CASE jindex' = Append(jindex, e) /\ UNCHANGED dropped
  <2> DEFINE n == Len(jindex)
  <2>1. /\ n \in Nat /\ DOMAIN jindex = 1 .. n
        /\ jindex' \in Seq(IndexEntries) /\ DOMAIN jindex' = 1 .. n + 1
        /\ \A i \in 1 .. n : jindex'[i] = jindex[i]
        /\ jindex'[n + 1] = e
    BY <1>1
  <2> HIDE DEF n
  <2>2. ToSet(jindex') = ToSet(jindex) \cup {e}
    <3>1. ToSet(jindex) = {jindex[i] : i \in 1 .. n} /\ ToSet(jindex') = {jindex'[i] : i \in 1 .. n + 1}
      BY <2>1 DEF ToSet
    <3>2. \A i \in 1 .. n : i \in 1 .. n + 1
      BY <2>1
    <3>3. \A i \in 1 .. n + 1 : i \in 1 .. n \/ i = n + 1
      BY <2>1
    <3>4. n + 1 \in 1 .. n + 1
      BY <2>1
    <3>5. \A x : x \in ToSet(jindex') => x \in ToSet(jindex) \/ x = e
      BY <2>1, <3>1, <3>3
    <3>6. \A x : x \in ToSet(jindex) => x \in ToSet(jindex')
      BY <2>1, <3>1, <3>2
    <3>7. e \in ToSet(jindex')
      BY <2>1, <3>1, <3>4
    <3> QED
      BY <3>5, <3>6, <3>7
  <2>3. ASSUME IsInjective(jindex), e \notin ToSet(jindex)
        PROVE  IsInjective(jindex')
    <3>1. \A i \in 1 .. n : jindex[i] # e
      BY <2>1, <2>3 DEF ToSet
    <3>2. \A i \in 1 .. n + 1 : i \in 1 .. n \/ i = n + 1
      BY <2>1
    <3>3. \A i, j \in 1 .. n : jindex[i] = jindex[j] => i = j
      BY <2>1, <2>3 DEF IsInjective
    <3>4. \A i, j \in 1 .. n + 1 : jindex'[i] = jindex'[j] => i = j
      BY <2>1, <3>1, <3>2, <3>3
    <3> QED
      BY <2>1, <3>4 DEF IsInjective
  <2> QED
    BY <1>1, <2>1, <2>2, <2>3
<1>2. CASE dropped' = dropped \cup {e} /\ UNCHANGED jindex
  <2>1. ToSet(jindex') = ToSet(jindex) /\ (IsInjective(jindex) => IsInjective(jindex'))
    BY <1>2
  <2> QED
    BY <1>2, <2>1
<1> QED
  BY <1>1, <1>2 DEF jindex_add

\* A read of an index in whatever order gives a copy, or none.
LEMMA ReadType ==
  ASSUME NEW ix \in Seq(IndexEntries), NEW fs \in Nat, NEW max \in Nat, Journaled(image)
  PROVE  Read(ix, fs, max) \in [fs : Nat, max : Nat, got : Copies]
<1> DEFINE n == Len(ix)
           lo == Lower(ix, fs)
           fit == {i \in lo .. n : /\ \A j \in lo .. i : ix[j].fs_block = fs
                                   /\ max = 0 \/ ix[i].seq <= max}
           b == CHOOSE i \in fit : \A j \in fit : j <= i
           got == journal_index_read(ix, fs, max)
<1>1. Missing \in Copies
  BY DEF Missing, Copies
<1>2. n \in Nat /\ \A i \in 1 .. n : ix[i] \in IndexEntries
  OBVIOUS
<1>3. lo \in 1 .. n + 1
  <2>1. Bisects(ix, fs, LowerSearch(ix, fs))
    BY LowerSearchDef
  <2>2. LowerSearch(ix, fs)[<<0, n>>] \in 0 .. n
    BY <1>2, <2>1 DEF Bisects
  <2> QED
    BY <1>2, <2>2 DEF Lower
<1>4. got = IF fit = {} THEN Missing ELSE Restored(ix[b].journal_blk, ix[b].escaped)
  BY DEF journal_index_read
<1> HIDE DEF n, lo
<1>5. fit \subseteq 1 .. n
  BY <1>2, <1>3
<1>6. ASSUME fit # {} PROVE b \in 1 .. n
  <2>1. fit \subseteq Nat /\ \A i \in fit : i <= n
    BY <1>2, <1>5
  <2> HIDE DEF fit
  <2>2. \E i \in fit : \A j \in fit : j <= i
    BY <1>2, <1>6, <2>1, GreatestOf
  <2> QED
    BY <1>5, <2>2
<1> HIDE DEF fit, b
<1>7. ASSUME NEW k \in DOMAIN image, NEW x \in BOOLEAN PROVE Restored(k, x) \in Copies
  <2>1. CASE image[k].kind = "data"
    <3>1. image[k].fs \in Nat /\ image[k].seq \in Nat /\ image[k].esc \in BOOLEAN
      BY <2>1, BlockKinds
    <3> QED
      BY <2>1, <3>1 DEF Restored, Copies
  <2>2. CASE image[k].kind # "data"
    BY <1>1, <2>2 DEF Restored
  <2> QED
    BY <2>1, <2>2
<1>8. got \in Copies
  <2>1. CASE fit = {}
    BY <1>1, <1>4, <2>1
  <2>2. CASE fit # {}
    <3>1. ix[b] \in IndexEntries
      BY <1>2, <1>6, <2>2
    <3>2. ix[b].journal_blk \in DOMAIN image /\ ix[b].escaped \in BOOLEAN
      BY <3>1, EntryTypes DEF Journaled
    <3> QED
      BY <1>4, <1>7, <2>2, <3>2
  <2> QED
    BY <2>1, <2>2
<1> HIDE DEF got
<1> QED
  BY <1>8 DEF Read, got

\* The walk at a tag.
LEMMA AtTheTag ==
  ASSUME WalkInv, AtTag
  PROVE  /\ blk \in Nat /\ blk \in DOMAIN image /\ blk \in DescriptorsOf(image)
         /\ blk \in JournalStart .. JournalLen - 1 /\ image[blk].kind = "descriptor"
         /\ journal_len = JournalLen /\ journal_len > 0 /\ Scanning
         /\ Len(image[blk].tags) \in Nat /\ DOMAIN image[blk].tags = 1 .. Len(image[blk].tags)
         /\ tag \in Nat /\ tag \in 1 .. Len(image[blk].tags)
         /\ data_blk = blk + tag /\ data_blk \in Nat
         /\ Tag.fs \in Nat /\ Tag.esc \in BOOLEAN /\ image[blk].seq \in Nat
         /\ data_blk < journal_len => data_blk \in DOMAIN image
<1>1. Journaled(image) /\ TypeOK /\ pc = "tags"
  BY DEF WalkInv, AtTag
<1>2. /\ blk \in JournalStart .. JournalLen - 1 /\ journal_len = JournalLen
      /\ image[blk].kind = "descriptor" /\ tag \in 1 .. Len(image[blk].tags) /\ data_blk = blk + tag
      /\ blk \in Nat /\ tag \in Nat
  BY <1>1 DEF TypeOK
<1>3. DOMAIN image = JournalStart .. JournalLen - 1
  BY <1>1 DEF Journaled
<1>4. /\ Len(image[blk].tags) \in Nat /\ DOMAIN image[blk].tags = 1 .. Len(image[blk].tags)
      /\ image[blk].seq \in Nat
      /\ \A i \in 1 .. Len(image[blk].tags) : image[blk].tags[i].fs \in Nat /\ image[blk].tags[i].esc \in BOOLEAN
  BY <1>1, <1>2, <1>3, BlockKinds
<1>5. journal_len > 0
  BY <1>2, WalkAssumption
<1>6. data_blk < journal_len => data_blk \in DOMAIN image
  BY <1>2, <1>3, WalkAssumption
<1> QED
  BY <1>1, <1>2, <1>3, <1>4, <1>5, <1>6 DEF DescriptorsOf, Tag, Scanning

\* The entry for a tag is well formed, new, and names the copy that is there.
LEMMA NewEntry ==
  ASSUME WalkInv, AtTag, Reasonable, data_blk < journal_len
  PROVE  /\ Entry \in IndexEntries
         /\ Entry = EntryOf(image, blk, tag) /\ tag \in Indexable(image, blk)
         /\ Entry \notin ToSet(jindex) \cup dropped
         /\ Committed(image, image[blk].seq) => image[data_blk] \in
              {[kind |-> "bad"],
               [kind |-> "data", fs |-> Tag.fs, seq |-> image[blk].seq, esc |-> Tag.esc]}
<1>1. /\ blk \in Nat /\ blk \in DescriptorsOf(image) /\ journal_len = JournalLen /\ Scanning
      /\ tag \in 1 .. Len(image[blk].tags) /\ tag \in DOMAIN image[blk].tags /\ tag \in Nat
      /\ data_blk = blk + tag /\ data_blk \in JournalStart .. JournalLen - 1
      /\ Tag.fs \in Nat /\ Tag.esc \in BOOLEAN /\ image[blk].seq \in Nat
  BY AtTheTag DEF WalkInv, Journaled
<1>2. Tag.fs \in 1 .. TotalBlocks - 1
  BY <1>1, WalkAssumption DEF Reasonable
<1>3. Entry \in IndexEntries
  BY <1>1, <1>2 DEF Entry, IndexEntries
<1>4. Entry = EntryOf(image, blk, tag)
  BY <1>1 DEF Entry, EntryOf, Tag
<1>5. tag \in Indexable(image, blk)
  BY <1>1, <1>2 DEF Indexable, Tag
<1>6. Entry \notin ToSet(jindex) \cup dropped
  <2>1. \A e \in ToSet(jindex) \cup dropped : e.journal_blk < data_blk
    BY <1>1 DEF WalkInv, OnceInv, Frontier, AtTag
  <2>2. Entry.journal_blk = data_blk
    BY DEF Entry
  <2> QED
    BY <1>1, <2>1, <2>2
<1>7. Committed(image, image[blk].seq) => image[data_blk] \in
        {[kind |-> "bad"],
         [kind |-> "data", fs |-> Tag.fs, seq |-> image[blk].seq, esc |-> Tag.esc]}
  BY <1>1 DEF WalkInv, Journaled, Tag
<1> QED
  BY <1>3, <1>4, <1>5, <1>6, <1>7

\* On to the next tag, or out of the descriptor.
LEMMA TagDone ==
  ASSUME WalkInv, AtTag, NextTag
  PROVE  \/ /\ tag < Len(image[blk].tags) /\ tag' = tag + 1 /\ data_blk' = data_blk + 1
            /\ pc' = "tags" /\ blk' = blk
         \/ /\ tag = Len(image[blk].tags) /\ pc' = "scan" /\ blk' = data_blk + 1
            /\ tag' = 0 /\ data_blk' = data_blk + 1
<1>1. tag \in 1 .. Len(image[blk].tags) /\ Len(image[blk].tags) \in Nat
  BY AtTheTag
<1> QED
  BY <1>1 DEF NextTag, Leave, AtTag

-----------------------------------------------------------------------------
(* The types. *)

\* The cursors' part of the type invariant.
Cursors ==
    /\ pc \in {"open", "scan", "tags", "done", "none"}
    /\ journal_len \in {0, JournalLen}
    /\ blk \in Nat /\ data_blk \in Nat /\ tag \in Nat
    /\ pc = "open" => journal_len = 0
    /\ pc = "scan" /\ journal_len > 0 => blk >= JournalStart
    /\ pc = "tags" => /\ blk \in JournalStart .. JournalLen - 1 /\ journal_len = JournalLen
                      /\ image[blk].kind = "descriptor"
                      /\ tag \in 1 .. Len(image[blk].tags)
                      /\ data_blk = blk + tag

LEMMA CursorsMove ==
  ASSUME WalkInv, AtTag, NextTag, image' = image, journal_len' = journal_len
  PROVE  Cursors'
<1>1. /\ blk \in Nat /\ tag \in 1 .. Len(image[blk].tags) /\ data_blk \in Nat /\ data_blk = blk + tag
      /\ tag \in Nat /\ Len(image[blk].tags) \in Nat /\ image[blk].kind = "descriptor"
      /\ journal_len = JournalLen /\ blk \in JournalStart .. JournalLen - 1
  BY AtTheTag
<1>2. CASE /\ tag < Len(image[blk].tags) /\ tag' = tag + 1 /\ data_blk' = data_blk + 1
           /\ pc' = "tags" /\ blk' = blk
  BY <1>1, <1>2 DEF Cursors
<1>3. CASE /\ tag = Len(image[blk].tags) /\ pc' = "scan" /\ blk' = data_blk + 1
           /\ tag' = 0 /\ data_blk' = data_blk + 1
  BY <1>1, <1>3, WalkAssumption DEF Cursors
<1> QED
  BY <1>2, <1>3, TagDone

LEMMA TypeStep ==
  ASSUME WalkInv, [Next]_vars
  PROVE  TypeOK'
<1>0. /\ Journaled(image) /\ Cursors
      /\ jindex \in Seq(IndexEntries) /\ dropped \subseteq IndexEntries
      /\ handled \subseteq [fs : Nat, seq : Nat, inos : SUBSET Nat, buf : Copies]
      /\ reads \subseteq [fs : Nat, max : Nat, got : Copies]
      /\ JournalStart \in Nat /\ JournalLen \in Nat
  BY WalkAssumption DEF WalkInv, TypeOK, Cursors
<1> SUFFICES /\ Cursors'
             /\ (jindex \in Seq(IndexEntries) /\ dropped \subseteq IndexEntries)'
             /\ (handled \subseteq [fs : Nat, seq : Nat, inos : SUBSET Nat, buf : Copies])'
             /\ (reads \subseteq [fs : Nat, max : Nat, got : Copies])'
  BY DEF TypeOK, Cursors
<1>1. CASE OpenJournal
  BY <1>0, <1>1 DEF OpenJournal, Cursors
<1>2. CASE OpenFails
  BY <1>0, <1>2 DEF OpenFails, Cursors
<1>3. CASE SkipBlock
  BY <1>0, <1>3 DEF SkipBlock, Cursors
<1>4. CASE OpenDescriptor
  <2>1. blk \in JournalStart .. JournalLen - 1 /\ journal_len = JournalLen
    BY <1>0, <1>4 DEF OpenDescriptor, Cursors
  <2>2. Len(image[blk].tags) \in Nat \ {0}
    BY <1>0, <1>4, <2>1, BlockKinds DEF OpenDescriptor, Journaled
  <2>3. Cursors'
    BY <1>0, <1>4, <2>1, <2>2 DEF OpenDescriptor, Cursors
  <2> QED
    BY <1>0, <1>4, <2>3 DEF OpenDescriptor
<1>5. CASE BadTag
  <2>1. Cursors'
    BY <1>5, CursorsMove DEF BadTag
  <2> QED
    BY <1>0, <1>5, <2>1 DEF BadTag
<1>6. CASE PastEnd
  <2>1. AtTag /\ journal_len > 0 /\ data_blk \in Nat /\ journal_len = JournalLen
    BY <1>6, AtTheTag DEF PastEnd
  <2>2. /\ pc' = "scan" /\ blk' = data_blk /\ tag' = 0 /\ data_blk' = data_blk /\ journal_len' = journal_len
        /\ data_blk >= journal_len
    BY <1>6 DEF PastEnd, Leave
  <2>3. data_blk >= JournalStart
    BY <1>0, <2>1, <2>2, AtTheTag
  <2>4. Cursors'
    BY <1>0, <2>1, <2>2, <2>3 DEF Cursors
  <2> QED
    BY <1>0, <1>6, <2>4 DEF PastEnd
<1>7. CASE IndexOnly
  <2>1. Cursors'
    BY <1>7, CursorsMove DEF IndexOnly
  <2>2. Entry \in IndexEntries
    BY <1>7, NewEntry DEF IndexOnly
  <2>3. jindex' \in Seq(IndexEntries) /\ dropped' \subseteq IndexEntries
    BY <1>0, <1>7, <2>2, Added DEF IndexOnly
  <2> QED
    BY <1>0, <1>7, <2>1, <2>3 DEF IndexOnly
<1>8. CASE ProcessCopy
  <2>0. AtTag /\ Reasonable /\ data_blk < journal_len /\ is_inode_table_block(Tag.fs)
    BY <1>8 DEF ProcessCopy
  <2>1. Cursors'
    BY <1>8, CursorsMove DEF ProcessCopy
  <2>2. Entry \in IndexEntries
    BY <2>0, NewEntry
  <2>3. jindex' \in Seq(IndexEntries) /\ dropped' \subseteq IndexEntries
    BY <1>0, <1>8, <2>2, Added DEF ProcessCopy
  <2>4. /\ Tag.fs \in Nat /\ Tag.esc \in BOOLEAN /\ image[blk].seq \in Nat /\ data_blk \in DOMAIN image
        /\ Tag.fs \in 1 .. TotalBlocks - 1
    BY <2>0, AtTheTag, WalkAssumption DEF Reasonable
  <2> DEFINE h == [fs |-> Tag.fs, seq |-> image[blk].seq, inos |-> InodesIn(Tag.fs),
                   buf |-> Restored(data_blk, Tag.esc)]
  <2>5. InodesIn(Tag.fs) \subseteq Nat
    <3>1. Tag.fs \in Int
      BY <2>4
    <3>2. InodesIn(Tag.fs) = {n \in Inodes : HomeOf(n) = Tag.fs}
      BY <3>1, InodesInExact
    <3>3. Inodes \subseteq Nat
      BY WalkAssumption DEF Inodes
    <3> QED
      BY <3>2, <3>3
  <2>6. Restored(data_blk, Tag.esc) \in Copies
    <3>1. CASE image[data_blk].kind = "data"
      <4>1. image[data_blk].fs \in Nat /\ image[data_blk].seq \in Nat /\ image[data_blk].esc \in BOOLEAN
        BY <1>0, <2>4, <3>1, BlockKinds
      <4> QED
        BY <3>1, <4>1 DEF Restored, Copies
    <3>2. CASE image[data_blk].kind # "data"
      BY <3>2 DEF Restored, Copies, Missing
    <3> QED
      BY <3>1, <3>2
  <2>7. h \in [fs : Nat, seq : Nat, inos : SUBSET Nat, buf : Copies]
    BY <2>4, <2>5, <2>6
  <2>8. handled' = handled \cup {h}
    BY <1>8 DEF ProcessCopy
  <2> HIDE DEF h
  <2>9. ASSUME NEW child \in Children[Tag.fs]
        PROVE  Read(jindex', child, image[blk].seq) \in [fs : Nat, max : Nat, got : Copies]
    <3>1. child \in Nat
      BY <2>0, <2>4, ChildrenAssumption
    <3> QED
      BY <1>0, <2>3, <2>4, <3>1, ReadType
  <2>10. reads' \subseteq [fs : Nat, max : Nat, got : Copies]
    BY <1>8, <2>9 DEF ProcessCopy
  <2> QED
    BY <1>0, <2>1, <2>3, <2>7, <2>8, <2>10
<1>9. CASE Sort
  <2>1. jindex' \in Seq(IndexEntries)
    BY <1>0, <1>9, SortedIndex DEF Sort
  <2>2. Cursors'
    BY <1>0, <1>9 DEF Sort, Cursors
  <2> QED
    BY <1>0, <1>9, <2>1, <2>2 DEF Sort
<1>10. ASSUME NEW fs \in 2 .. TotalBlocks - 1, TargetedRead(fs)
       PROVE  /\ Cursors'
              /\ (jindex \in Seq(IndexEntries) /\ dropped \subseteq IndexEntries)'
              /\ (handled \subseteq [fs : Nat, seq : Nat, inos : SUBSET Nat, buf : Copies])'
              /\ (reads \subseteq [fs : Nat, max : Nat, got : Copies])'
  <2>1. fs \in Nat /\ 0 \in Nat
    BY WalkAssumption
  <2>2. Read(jindex, fs, 0) \in [fs : Nat, max : Nat, got : Copies]
    BY <1>0, <2>1, ReadType
  <2>3. Cursors'
    BY <1>0, <1>10 DEF TargetedRead, Cursors
  <2> QED
    BY <1>0, <1>10, <2>2, <2>3 DEF TargetedRead
<1>11. CASE UNCHANGED vars
  BY <1>0, <1>11 DEF vars, Cursors
<1> QED
  BY <1>1, <1>2, <1>3, <1>4, <1>5, <1>6, <1>7, <1>8, <1>9, <1>10, <1>11
     DEF Next, Scan, Idle

-----------------------------------------------------------------------------
(* What the index and the processed copies are. *)

LEMMA ActionCases ==
  ASSUME [Next]_vars
  PROVE  \/ OpenJournal \/ OpenFails \/ SkipBlock \/ OpenDescriptor \/ BadTag \/ PastEnd
         \/ IndexOnly \/ ProcessCopy \/ Sort \/ (\E fs \in 2 .. TotalBlocks - 1 : TargetedRead(fs))
         \/ UNCHANGED vars
  BY DEF Next, Scan, Idle

\* The steps that leave the index and what was processed alone.
Quiet == UNCHANGED <<image, jindex, handled, dropped>>

LEMMA QuietSteps ==
  ASSUME [Next]_vars
  PROVE  Quiet \/ IndexOnly \/ ProcessCopy \/ Sort
  BY ActionCases DEF Quiet, OpenJournal, OpenFails, SkipBlock, OpenDescriptor, BadTag, PastEnd,
     TargetedRead, vars

LEMMA ImageKept ==
  ASSUME [Next]_vars
  PROVE  image' = image
  BY QuietSteps DEF Quiet, IndexOnly, ProcessCopy, Sort

\* An index entry leads to the copy it names.
Genuine(im, e) ==
    Committed(im, e.seq) => im[e.journal_blk] \in
        {[kind |-> "bad"],
         [kind |-> "data", fs |-> e.fs_block, seq |-> e.seq, esc |-> e.escaped]}

LEMMA EntryGenuine ==
  ASSUME WalkInv, AtTag, Reasonable, data_blk < journal_len
  PROVE  Genuine(image, Entry)
<1>1. Committed(image, image[blk].seq) => image[data_blk] \in
        {[kind |-> "bad"],
         [kind |-> "data", fs |-> Tag.fs, seq |-> image[blk].seq, esc |-> Tag.esc]}
  BY NewEntry
<1>2. /\ Entry.seq = image[blk].seq /\ Entry.journal_blk = data_blk
      /\ Entry.fs_block = Tag.fs /\ Entry.escaped = Tag.esc
  BY DEF Entry
<1> QED
  BY <1>1, <1>2 DEF Genuine

LEMMA GenuineIndex ==
  CopiesGenuine <=>
    /\ \A h \in handled : Committed(image, h.seq) => h.buf = [fs |-> h.fs, seq |-> h.seq, esc |-> FALSE]
    /\ \A e \in ToSet(jindex) : Genuine(image, e)
  BY DEF CopiesGenuine, Genuine, ToSet

LEMMA CopiesStep ==
  ASSUME WalkInv, [Next]_vars
  PROVE  CopiesGenuine'
<1> DEFINE Whole(im, h) == Committed(im, h.seq) => h.buf = [fs |-> h.fs, seq |-> h.seq, esc |-> FALSE]
<1>1. /\ \A h \in handled : Whole(image, h)
      /\ \A e \in ToSet(jindex) : Genuine(image, e)
      /\ jindex \in Seq(IndexEntries) /\ dropped \subseteq IndexEntries
  BY GenuineIndex DEF WalkInv, TypeOK
<1>2. SUFFICES /\ \A h \in handled' : Whole(image, h)
               /\ \A e \in ToSet(jindex') : Genuine(image, e)
  <2>1. CopiesGenuine' <=> /\ \A h \in handled' : Whole(image', h)
                           /\ \A e \in ToSet(jindex') : Genuine(image', e)
    BY DEF CopiesGenuine, Genuine, ToSet
  <2> QED
    BY <1>2, <2>1, ImageKept
<1>3. CASE Quiet
  BY <1>1, <1>3 DEF Quiet
<1>4. CASE IndexOnly
  <2>1. Entry \in IndexEntries /\ Genuine(image, Entry)
    BY <1>4, NewEntry, EntryGenuine DEF IndexOnly
  <2>2. ToSet(jindex') \subseteq ToSet(jindex) \cup {Entry}
    BY <1>1, <1>4, <2>1, Added DEF IndexOnly
  <2>3. handled' = handled
    BY <1>4 DEF IndexOnly
  <2> QED
    BY <1>1, <2>1, <2>2, <2>3
<1>5. CASE ProcessCopy
  <2>0. AtTag /\ Reasonable /\ data_blk < journal_len /\ image[data_blk].kind # "bad"
    BY <1>5 DEF ProcessCopy
  <2>1. Entry \in IndexEntries /\ Genuine(image, Entry)
    BY <2>0, NewEntry, EntryGenuine
  <2>2. ToSet(jindex') \subseteq ToSet(jindex) \cup {Entry}
    BY <1>1, <1>5, <2>1, Added DEF ProcessCopy
  <2> DEFINE h == [fs |-> Tag.fs, seq |-> image[blk].seq, inos |-> InodesIn(Tag.fs),
                   buf |-> Restored(data_blk, Tag.esc)]
  <2>3. handled' = handled \cup {h}
    BY <1>5 DEF ProcessCopy
  <2>4. ASSUME Committed(image, image[blk].seq)
        PROVE  Restored(data_blk, Tag.esc) = [fs |-> Tag.fs, seq |-> image[blk].seq, esc |-> FALSE]
    <3>1. image[data_blk] = [kind |-> "data", fs |-> Tag.fs, seq |-> image[blk].seq, esc |-> Tag.esc]
      BY <2>0, <2>4, NewEntry
    <3>2. Restored(data_blk, Tag.esc) = [fs |-> Tag.fs, seq |-> image[blk].seq, esc |-> Tag.esc /\ ~Tag.esc]
      BY <3>1 DEF Restored
    <3>3. (Tag.esc /\ ~Tag.esc) = FALSE
      OBVIOUS
    <3> QED
      BY <3>2, <3>3
  <2>5. Whole(image, h)
    BY <2>4
  <2> HIDE DEF h, Whole
  <2> QED
    BY <1>1, <2>1, <2>2, <2>3, <2>5
<1>6. CASE Sort
  <2>1. ToSet(jindex') = ToSet(jindex) /\ handled' = handled
    BY <1>1, <1>6, SortedIndex DEF Sort
  <2> QED
    BY <1>1, <2>1
<1> QED
  BY <1>3, <1>4, <1>5, <1>6, QuietSteps

\* The block a copy is of lives where its inodes do.
LEMMA HandledStep ==
  ASSUME WalkInv, [Next]_vars
  PROVE  HandledInv'
<1>1. \A h \in handled : h.inos = InodesIn(h.fs)
  BY DEF WalkInv, HandledInv
<1>2. CASE handled' = handled
  BY <1>1, <1>2 DEF HandledInv
<1>3. CASE ProcessCopy
  <2> DEFINE h == [fs |-> Tag.fs, seq |-> image[blk].seq, inos |-> InodesIn(Tag.fs),
                   buf |-> Restored(data_blk, Tag.esc)]
  <2>1. handled' = handled \cup {h}
    BY <1>3 DEF ProcessCopy
  <2>2. h.inos = InodesIn(h.fs)
    OBVIOUS
  <2> HIDE DEF h
  <2> QED
    BY <1>1, <2>1, <2>2 DEF HandledInv
<1> QED
  BY <1>2, <1>3, QuietSteps DEF Quiet, IndexOnly, Sort

\* Every entry stands for a tag, and what can be read of the inode tables is processed.
Tagged(im, e) == \E d \in DescriptorsOf(im) : \E i \in DOMAIN im[d].tags : e = EntryOf(im, d, i)
Processed(im, H, e) ==
    im[e.journal_blk].kind # "bad" /\ is_inode_table_block(e.fs_block) =>
        \E h \in H : h.fs = e.fs_block /\ h.seq = e.seq

LEMMA EntryStep ==
  ASSUME WalkInv, [Next]_vars
  PROVE  EntryInv'
<1>1. /\ \A e \in ToSet(jindex) : Tagged(image, e) /\ Processed(image, handled, e)
      /\ jindex \in Seq(IndexEntries) /\ dropped \subseteq IndexEntries
  BY DEF WalkInv, TypeOK, EntryInv, Tagged, Processed
<1>2. SUFFICES \A e \in ToSet(jindex') : Tagged(image, e) /\ Processed(image, handled', e)
  BY <1>2, ImageKept DEF EntryInv, Tagged, Processed
<1>3. CASE Quiet
  BY <1>1, <1>3 DEF Quiet
<1>4. ASSUME AtTag, Reasonable, data_blk < journal_len
      PROVE  /\ Entry \in IndexEntries /\ Tagged(image, Entry)
             /\ Entry.journal_blk = data_blk /\ Entry.fs_block = Tag.fs /\ Entry.seq = image[blk].seq
  <2>1. Entry \in IndexEntries /\ Entry = EntryOf(image, blk, tag)
    BY <1>4, NewEntry
  <2>2. blk \in DescriptorsOf(image) /\ tag \in DOMAIN image[blk].tags
    BY <1>4, AtTheTag
  <2> QED
    BY <2>1, <2>2 DEF Tagged, Entry
<1>5. CASE IndexOnly
  <2>0. AtTag /\ Reasonable /\ data_blk < journal_len
    BY <1>5 DEF IndexOnly
  <2>1. ToSet(jindex') \subseteq ToSet(jindex) \cup {Entry}
    BY <1>1, <1>4, <1>5, <2>0, Added DEF IndexOnly
  <2>2. Processed(image, handled, Entry)
    BY <1>4, <1>5, <2>0 DEF IndexOnly, Processed
  <2>3. handled' = handled
    BY <1>5 DEF IndexOnly
  <2> QED
    BY <1>1, <1>4, <2>0, <2>1, <2>2, <2>3
<1>6. CASE ProcessCopy
  <2>0. AtTag /\ Reasonable /\ data_blk < journal_len
    BY <1>6 DEF ProcessCopy
  <2>1. ToSet(jindex') \subseteq ToSet(jindex) \cup {Entry}
    BY <1>1, <1>4, <1>6, <2>0, Added DEF ProcessCopy
  <2> DEFINE h == [fs |-> Tag.fs, seq |-> image[blk].seq, inos |-> InodesIn(Tag.fs),
                   buf |-> Restored(data_blk, Tag.esc)]
  <2>2. handled' = handled \cup {h}
    BY <1>6 DEF ProcessCopy
  <2>3. h.fs = Tag.fs /\ h.seq = image[blk].seq
    OBVIOUS
  <2> HIDE DEF h
  <2>4. Processed(image, handled', Entry)
    BY <1>4, <2>0, <2>2, <2>3 DEF Processed
  <2>5. \A e \in ToSet(jindex) : Processed(image, handled', e)
    BY <1>1, <2>2 DEF Processed
  <2> QED
    BY <1>1, <1>4, <2>0, <2>1, <2>4, <2>5
<1>7. CASE Sort
  <2>1. ToSet(jindex') = ToSet(jindex) /\ handled' = handled
    BY <1>1, <1>7, SortedIndex DEF Sort
  <2> QED
    BY <1>1, <2>1
<1> QED
  BY <1>3, <1>5, <1>6, <1>7, QuietSteps

-----------------------------------------------------------------------------
(* No tag is entered twice. *)

LEMMA OnceStep ==
  ASSUME WalkInv, [Next]_vars
  PROVE  OnceInv'
<1> DEFINE X == ToSet(jindex) \cup dropped
<1>0. /\ jindex \in Seq(IndexEntries) /\ dropped \subseteq IndexEntries /\ Cursors
      /\ IsInjective(jindex) /\ ToSet(jindex) \cap dropped = {}
      /\ Scanning => \A e \in X : e.journal_blk < Frontier
      /\ pc = "open" \/ journal_len = 0 => jindex = <<>> /\ dropped = {}
      /\ JournalStart \in Nat /\ JournalLen \in Nat
  BY WalkAssumption DEF WalkInv, TypeOK, OnceInv, Cursors
<1>1. \A e \in X : e.journal_blk \in Nat
  <2>1. X \subseteq IndexEntries
    BY <1>0 DEF ToSet
  <2> QED
    BY <2>1, EntryTypes
<1>2. \A e : e \in ToSet(<<>>) => FALSE
  BY DEF ToSet
<1>3. CASE OpenJournal
  <2>1. jindex' = <<>> /\ dropped' = {}
    BY <1>0, <1>3 DEF OpenJournal
  <2>2. \A e : e \notin ToSet(jindex') \cup dropped'
    BY <1>2, <2>1
  <2> QED
    BY <1>0, <1>3, <2>1, <2>2 DEF OnceInv, OpenJournal
<1>4. CASE OpenFails
  <2>1. jindex' = <<>> /\ dropped' = {} /\ jindex = <<>> /\ dropped = {}
    BY <1>0, <1>4 DEF OpenFails
  <2>2. \A e : e \notin ToSet(jindex') \cup dropped'
    BY <1>2, <2>1
  <2> QED
    BY <1>0, <2>1, <2>2 DEF OnceInv
<1>5. CASE SkipBlock
  <2>1. Scanning /\ Frontier = blk /\ blk \in Nat
    BY <1>0, <1>5 DEF Scanning, Frontier, SkipBlock, Cursors
  <2>2. /\ jindex' = jindex /\ dropped' = dropped /\ Frontier' = blk + 1 /\ journal_len' = journal_len
        /\ pc = "scan" /\ pc' = "scan"
    BY <1>5 DEF SkipBlock, Frontier
  <2>3. \A e \in X : e.journal_blk < blk + 1
    BY <1>0, <1>1, <2>1
  <2> QED
    BY <1>0, <2>2, <2>3 DEF OnceInv
<1>6. CASE OpenDescriptor
  <2>1. Scanning /\ Frontier = blk /\ blk \in Nat
    BY <1>0, <1>6 DEF Scanning, Frontier, OpenDescriptor, Cursors
  <2>2. /\ jindex' = jindex /\ dropped' = dropped /\ Frontier' = blk + 1 /\ journal_len' = journal_len
        /\ pc = "scan" /\ pc' = "tags"
    BY <1>6 DEF OpenDescriptor, Frontier
  <2>3. \A e \in X : e.journal_blk < blk + 1
    BY <1>0, <1>1, <2>1
  <2> QED
    BY <1>0, <2>2, <2>3 DEF OnceInv
<1>7. ASSUME AtTag, NextTag
      PROVE  Scanning /\ Frontier = data_blk /\ Frontier' = data_blk + 1 /\ data_blk \in Nat
             /\ pc' # "open" /\ pc # "open"
    BY <1>7, AtTheTag, TagDone DEF Frontier, AtTag
<1>8. CASE BadTag
  <2>1. AtTag /\ NextTag /\ jindex' = jindex /\ dropped' = dropped /\ journal_len' = journal_len
    BY <1>8 DEF BadTag
  <2>2. \A e \in X : e.journal_blk < data_blk + 1
    BY <1>0, <1>1, <1>7, <2>1
  <2> QED
    BY <1>0, <1>7, <2>1, <2>2 DEF OnceInv
<1>9. CASE PastEnd
  <2>1. /\ AtTag /\ jindex' = jindex /\ dropped' = dropped /\ journal_len' = journal_len
        /\ pc' = "scan" /\ blk' = data_blk
    BY <1>9 DEF PastEnd, Leave
  <2>2. Scanning /\ Frontier = data_blk /\ Frontier' = data_blk /\ pc # "open"
    BY <2>1, AtTheTag DEF Frontier, AtTag
  <2> QED
    BY <1>0, <2>1, <2>2 DEF OnceInv
<1>10. ASSUME AtTag, NextTag, Reasonable, data_blk < journal_len, jindex_add(Entry),
              journal_len' = journal_len
       PROVE  OnceInv'
  <2>1. /\ Entry \in IndexEntries /\ Entry \notin X
    BY <1>10, NewEntry
  <2>2. /\ ToSet(jindex') \cup dropped' = X \cup {Entry}
        /\ IsInjective(jindex') /\ ToSet(jindex') \cap dropped' = {}
    BY <1>0, <1>10, <2>1, Added
  <2>3. Entry.journal_blk = data_blk /\ journal_len # 0
    BY <1>10, AtTheTag DEF Entry
  <2>4. \A e \in X \cup {Entry} : e.journal_blk < data_blk + 1
    BY <1>0, <1>1, <1>7, <1>10, <2>3
  <2> HIDE DEF X
  <2>5. Scanning' => \A e \in ToSet(jindex') \cup dropped' : e.journal_blk < Frontier'
    BY <1>7, <1>10, <2>2, <2>4
  <2> QED
    BY <1>7, <1>10, <2>2, <2>3, <2>5 DEF OnceInv
<1>11. CASE IndexOnly
  BY <1>10, <1>11 DEF IndexOnly
<1>12. CASE ProcessCopy
  BY <1>10, <1>12 DEF ProcessCopy
<1>13. CASE Sort
  <2>1. ToSet(jindex') = ToSet(jindex) /\ dropped' = dropped /\ IsInjective(jindex')
    BY <1>0, <1>13, SortedIndex DEF Sort
  <2>2. pc' = "done" /\ ~Scanning' /\ journal_len' = journal_len
    BY <1>13 DEF Sort, Scanning
  <2>3. jindex = <<>> => jindex' = <<>>
    <3> SUFFICES ASSUME jindex = <<>> PROVE jindex' = <<>>
      OBVIOUS
    <3>1. \A e : e \notin ToSet(jindex')
      BY <1>2, <2>1
    <3>2. jindex' \in Seq(IndexEntries)
      BY <1>0, <1>13, SortedIndex DEF Sort
    <3>3. Len(jindex') = 0
      <4> SUFFICES ASSUME Len(jindex') # 0 PROVE FALSE
        OBVIOUS
      <4>1. 1 \in DOMAIN jindex'
        BY <3>2
      <4> QED
        BY <3>1, <4>1 DEF ToSet
    <3> QED
      BY <3>2, <3>3
  <2> QED
    BY <1>0, <2>1, <2>2, <2>3 DEF OnceInv
<1>14. CASE \E fs \in 2 .. TotalBlocks - 1 : TargetedRead(fs)
  <2>1. /\ pc' = "done" /\ ~Scanning' /\ journal_len' = journal_len
        /\ jindex' = jindex /\ dropped' = dropped
    BY <1>14 DEF TargetedRead, Scanning
  <2> QED
    BY <1>0, <2>1 DEF OnceInv
<1>15. CASE UNCHANGED vars
  BY <1>0, <1>15 DEF OnceInv, vars, Scanning, Frontier
<1> QED
  BY <1>3, <1>4, <1>5, <1>6, <1>8, <1>9, <1>11, <1>12, <1>13, <1>14, <1>15, ActionCases

-----------------------------------------------------------------------------
(* No descriptor is missed. *)

\* Which entries the descriptors in D have given, when the walk is at tag t of cur or,
\* when cur = -1, between descriptors.
Given(im, D, cur, t, x) ==
    \E d \in D : \E i \in Indexable(im, d) : (d = cur => i < t) /\ x = EntryOf(im, d, i)

\* D as in WalkedBy, in these terms: the walk is at block b.
Walked(im, D, X, b, cur, t) ==
    /\ Independent(im, D, IF cur = -1 THEN b ELSE b + 1)
    /\ cur # -1 => b = cur /\ cur \in D
    /\ \A d \in D : \/ d + Len(im[d].tags) < b
                    \/ d = cur
                    \/ cur = -1 /\ d < b /\ b >= JournalLen
    /\ \A x : x \in X <=> Given(im, D, cur, t, x)

Cur == IF pc = "tags" THEN blk ELSE -1

LEMMA WalkedIs ==
  ASSUME NEW D, DescriptorsOf(image) \subseteq Nat, D \in SUBSET DescriptorsOf(image),
         blk \in Nat, pc \in {"scan", "tags"}
  PROVE  WalkedBy(D) <=> Walked(image, D, ToSet(jindex) \cup dropped, blk, Cur, tag)
<1>1. \A x : x \in Entered(D) <=> Given(image, D, Cur, tag, x)
  <2>1. \A d \in D : d # -1
    OBVIOUS
  <2>2. \A d \in D : (pc = "tags" /\ d = blk) <=> d = Cur
    BY <2>1 DEF Cur
  <2>3. \A x : x \in Entered(D) <=>
          \E d \in D : \E i \in Indexable(image, d) :
             (pc = "tags" /\ d = blk => i < tag) /\ x = EntryOf(image, d, i)
    BY DEF Entered
  <2> QED
    BY <2>2, <2>3 DEF Given
<1>2. ToSet(jindex) \cup dropped = Entered(D) <=>
        \A x : x \in ToSet(jindex) \cup dropped <=> Given(image, D, Cur, tag, x)
  BY <1>1
<1>3. CASE pc = "tags"
  <2>1. Cur = blk /\ Cur # -1
    BY <1>3 DEF Cur
  <2> QED
    BY <1>2, <1>3, <2>1 DEF WalkedBy, Walked
<1>4. CASE pc = "scan"
  <2>1. Cur = -1 /\ \A d \in D : d # -1
    BY <1>4 DEF Cur
  <2> QED
    BY <1>2, <1>4, <2>1 DEF WalkedBy, Walked
<1> QED
  BY <1>3, <1>4

\* The descriptors of a journal.
LEMMA DescriptorFacts ==
  ASSUME NEW im, Journaled(im)
  PROVE  /\ DescriptorsOf(im) \subseteq Nat
         /\ \A d \in DescriptorsOf(im) :
              /\ d \in JournalStart .. JournalLen - 1 /\ Len(im[d].tags) \in Nat \ {0}
              /\ DOMAIN im[d].tags = 1 .. Len(im[d].tags) /\ im[d].kind = "descriptor"
         /\ \A u, d \in DescriptorsOf(im) : d \in Span(im, u) => ~Committed(im, im[u].seq)
<1>1. \A d \in DescriptorsOf(im) : d \in DOMAIN im /\ im[d].kind = "descriptor"
  BY DEF DescriptorsOf
<1>2. \A d \in DescriptorsOf(im) :
         /\ d \in JournalStart .. JournalLen - 1 /\ Len(im[d].tags) \in Nat \ {0}
         /\ DOMAIN im[d].tags = 1 .. Len(im[d].tags) /\ im[d].kind = "descriptor"
  BY <1>1, BlockKinds
<1>3. DescriptorsOf(im) \subseteq Nat
  BY <1>2, WalkAssumption
<1>4. ASSUME NEW u \in DescriptorsOf(im), NEW d \in DescriptorsOf(im), d \in Span(im, u),
             Committed(im, im[u].seq)
      PROVE  FALSE
  <2> DEFINE i == d - u
  <2>1. i \in 1 .. Len(im[u].tags) /\ u + i = d
    BY <1>2, <1>3, <1>4 DEF Span
  <2>2. i \in DOMAIN im[u].tags /\ u + i < JournalLen
    BY <1>2, <2>1, WalkAssumption
  <2> HIDE DEF i
  <2>3. im[u + i] \in {[kind |-> "bad"],
                       [kind |-> "data", fs |-> im[u].tags[i].fs, seq |-> im[u].seq,
                        esc |-> im[u].tags[i].esc]}
    BY <1>4, <2>2 DEF Journaled
  <2>4. im[d].kind \in {"bad", "data"}
    BY <2>1, <2>3
  <2> QED
    BY <1>1, <2>4
<1> QED
  BY <1>2, <1>3, <1>4

\* Leaving a descriptor for block b, within or just after its data.
LEMMA WalkedLeave ==
  ASSUME NEW im, Journaled(im), NEW D, NEW X, NEW c, NEW t, Walked(im, D, X, c, c, t),
         c \in Nat, NEW b \in Nat, c < b, b <= c + Len(im[c].tags) + 1
  PROVE  Independent(im, D, b)
<1>1. /\ Independent(im, D, c + 1) /\ c \in D
      /\ \A d \in D : d + Len(im[d].tags) < c \/ d = c
  <2>1. c # -1
    OBVIOUS
  <2> QED
    BY <2>1 DEF Walked
<1>2. D \subseteq DescriptorsOf(im)
  BY <1>1 DEF Independent
<1>3. /\ DescriptorsOf(im) \subseteq Nat
      /\ \A d \in DescriptorsOf(im) : Len(im[d].tags) \in Nat \ {0}
      /\ \A u, d \in DescriptorsOf(im) : d \in Span(im, u) => ~Committed(im, im[u].seq)
  BY DescriptorFacts
<1>4. ASSUME NEW d \in DescriptorsOf(im), d < b
      PROVE  \/ d \in D /\ \A u \in D : d \notin Span(im, u)
             \/ d \notin D /\ \E u \in D : d \in Span(im, u) /\ ~Committed(im, im[u].seq)
  <2>1. CASE d < c + 1
    BY <1>1, <2>1 DEF Independent
  <2>2. CASE ~(d < c + 1)
    <3>1. d \in Nat /\ c < d /\ d <= c + Len(im[c].tags) /\ Len(im[c].tags) \in Nat
      BY <1>1, <1>2, <1>3, <1>4, <2>2
    <3>2. d \in Span(im, c)
      BY <3>1 DEF Span
    <3>3. d \notin D
      BY <1>1, <1>2, <1>3, <3>1
    <3> QED
      BY <1>1, <1>2, <1>3, <3>2, <3>3
  <2> QED
    BY <2>1, <2>2
<1> QED
  BY <1>2, <1>4 DEF Independent

LEMMA WalkedStart ==
  ASSUME NEW im, Journaled(im), NEW t
  PROVE  Walked(im, {}, {}, JournalStart, -1, t)
<1>1. \A d \in DescriptorsOf(im) : ~(d < JournalStart)
  BY DescriptorFacts, WalkAssumption
<1>2. Independent(im, {}, JournalStart)
  BY <1>1 DEF Independent
<1> QED
  BY <1>2 DEF Walked, Given

LEMMA WalkedSkip ==
  ASSUME NEW im, Journaled(im), NEW D, NEW X, NEW b \in Nat, NEW t, Walked(im, D, X, b, -1, t),
         b < JournalLen, b \notin DescriptorsOf(im)
  PROVE  Walked(im, D, X, b + 1, -1, t)
<1>1. /\ Independent(im, D, b) /\ \A d \in D : d + Len(im[d].tags) < b \/ d = -1
      /\ \A x : x \in X <=> Given(im, D, -1, t, x)
  BY WalkAssumption DEF Walked
<1>2. D \subseteq DescriptorsOf(im)
  BY <1>1 DEF Independent
<1>3. DescriptorsOf(im) \subseteq Nat /\ \A d \in DescriptorsOf(im) : Len(im[d].tags) \in Nat \ {0}
  BY DescriptorFacts
<1>4. \A d \in DescriptorsOf(im) : d < b + 1 => d < b
  BY <1>3
<1>5. Independent(im, D, b + 1)
  BY <1>1, <1>4 DEF Independent
<1>6. \A d \in D : d + Len(im[d].tags) < b + 1
  BY <1>1, <1>2, <1>3
<1> QED
  BY <1>1, <1>5, <1>6 DEF Walked

LEMMA WalkedOpen ==
  ASSUME NEW im, Journaled(im), NEW D, NEW X, NEW b \in Nat, NEW t, Walked(im, D, X, b, -1, t),
         b < JournalLen, b \in DescriptorsOf(im)
  PROVE  Walked(im, D \cup {b}, X, b, b, 1)
<1> DEFINE E == D \cup {b}
<1>1. /\ Independent(im, D, b) /\ \A d \in D : d + Len(im[d].tags) < b \/ d = -1
      /\ \A x : x \in X <=> Given(im, D, -1, t, x)
  BY WalkAssumption DEF Walked
<1>2. D \subseteq DescriptorsOf(im)
  BY <1>1 DEF Independent
<1>3. /\ DescriptorsOf(im) \subseteq Nat
      /\ \A d \in DescriptorsOf(im) :
           Len(im[d].tags) \in Nat \ {0} /\ DOMAIN im[d].tags = 1 .. Len(im[d].tags)
  BY DescriptorFacts
<1>4. \A d \in D : d \in Nat /\ d + Len(im[d].tags) < b /\ d < b /\ d # b
  BY <1>1, <1>2, <1>3
<1>5. \A u \in E : b \notin Span(im, u)
  BY <1>2, <1>3, <1>4 DEF Span
<1>6. ASSUME NEW d \in DescriptorsOf(im), d < b + 1
      PROVE  \/ d \in E /\ \A u \in E : d \notin Span(im, u)
             \/ d \notin E /\ \E u \in E : d \in Span(im, u) /\ ~Committed(im, im[u].seq)
  <2>1. CASE d = b
    BY <1>5, <2>1
  <2>2. CASE d # b
    <3>1. d < b /\ d \in Nat
      BY <1>3, <1>6, <2>2
    <3>2. d \notin Span(im, b)
      BY <1>3, <3>1 DEF Span
    <3> QED
      BY <1>1, <2>2, <3>1, <3>2 DEF Independent
  <2> QED
    BY <2>1, <2>2
<1>7. Independent(im, E, b + 1)
  BY <1>2, <1>6 DEF Independent
<1>8. \A x : Given(im, D, -1, t, x) <=> Given(im, E, b, 1, x)
  <2>1. \A i \in Indexable(im, b) : ~(i < 1)
    BY <1>3 DEF Indexable
  <2>2. \A d \in D : d # -1
    BY <1>4
  <2> QED
    BY <1>4, <2>1, <2>2 DEF Given
<1>9. \A x : x \in X <=> Given(im, E, b, 1, x)
  BY <1>1, <1>8
<1>10. b # -1 /\ b \in E /\ \A d \in E : d + Len(im[d].tags) < b \/ d = b
  BY <1>4
<1> HIDE DEF E
<1>11. Walked(im, E, X, b, b, 1)
  BY <1>7, <1>9, <1>10 DEF Walked
<1> QED
  BY <1>11 DEF E

\* A tag is done: Y is X with its entry, if it has one.
TagEntered(im, c, t, X, Y) ==
    Y = IF t \in Indexable(im, c) THEN X \cup {EntryOf(im, c, t)} ELSE X

LEMMA GivenNext ==
  ASSUME NEW im, NEW D, NEW X, NEW Y, NEW c \in D, NEW t \in Int, TagEntered(im, c, t, X, Y),
         \A x : x \in X <=> Given(im, D, c, t, x), DOMAIN im[c].tags \subseteq Int
  PROVE  \A x : x \in Y <=> Given(im, D, c, t + 1, x)
<1>1. \A i \in Indexable(im, c) : i \in Int
  BY DEF Indexable
<1>2. \A i \in Indexable(im, c) : i < t + 1 <=> i < t \/ i = t
  BY <1>1
<1>3. \A x : Given(im, D, c, t + 1, x) <=>
               Given(im, D, c, t, x) \/ (t \in Indexable(im, c) /\ x = EntryOf(im, c, t))
  BY <1>2 DEF Given
<1> QED
  BY <1>3 DEF TagEntered

LEMMA WalkedNext ==
  ASSUME NEW im, Journaled(im), NEW D, NEW X, NEW Y, NEW c \in Nat, NEW t \in Int,
         Walked(im, D, X, c, c, t), TagEntered(im, c, t, X, Y)
  PROVE  Walked(im, D, Y, c, c, t + 1)
<1>1. /\ Independent(im, D, c + 1) /\ c \in D
      /\ \A d \in D : d + Len(im[d].tags) < c \/ d = c
      /\ \A x : x \in X <=> Given(im, D, c, t, x)
  BY DEF Walked
<1>2. DOMAIN im[c].tags \subseteq Int
  <2>1. c \in DescriptorsOf(im)
    BY <1>1 DEF Independent
  <2> QED
    BY <2>1, DescriptorFacts
<1>3. \A x : x \in Y <=> Given(im, D, c, t + 1, x)
  BY <1>1, <1>2, GivenNext
<1> QED
  BY <1>1, <1>3 DEF Walked

LEMMA WalkedOut ==
  ASSUME NEW im, Journaled(im), NEW D, NEW X, NEW Y, NEW c \in Nat, NEW t \in Int,
         Walked(im, D, X, c, c, t), TagEntered(im, c, t, X, Y), t = Len(im[c].tags)
  PROVE  Walked(im, D, Y, c + t + 1, -1, 0)
<1>1. /\ Independent(im, D, c + 1) /\ c \in D
      /\ \A d \in D : d + Len(im[d].tags) < c \/ d = c
      /\ \A x : x \in X <=> Given(im, D, c, t, x)
  BY DEF Walked
<1>2. /\ D \subseteq DescriptorsOf(im) /\ DescriptorsOf(im) \subseteq Nat
      /\ \A d \in DescriptorsOf(im) :
           Len(im[d].tags) \in Nat \ {0} /\ DOMAIN im[d].tags = 1 .. Len(im[d].tags)
  BY <1>1, DescriptorFacts DEF Independent
<1>3. \A x : x \in Y <=> Given(im, D, c, t + 1, x)
  BY <1>1, <1>2, GivenNext
<1>4. \A x : Given(im, D, c, t + 1, x) <=> Given(im, D, -1, 0, x)
  <2>1. \A i \in Indexable(im, c) : i < t + 1
    BY <1>1, <1>2 DEF Indexable
  <2>2. \A d \in D : d # -1
    BY <1>2
  <2> QED
    BY <2>1, <2>2 DEF Given
<1>5. Independent(im, D, c + t + 1)
  <2> DEFINE b == c + t + 1
  <2>1. b \in Nat /\ c < b /\ b <= c + Len(im[c].tags) + 1
    BY <1>1, <1>2
  <2> HIDE DEF b
  <2>2. Independent(im, D, b)
    BY <2>1, WalkedLeave
  <2> QED
    BY <2>2 DEF b
<1>6. \A d \in D : d + Len(im[d].tags) < c + t + 1
  BY <1>1, <1>2
<1> QED
  BY <1>3, <1>4, <1>5, <1>6 DEF Walked

LEMMA WalkedPast ==
  ASSUME NEW im, Journaled(im), NEW D, NEW X, NEW c \in Nat, NEW t,
         Walked(im, D, X, c, c, t), t \in 1 .. Len(im[c].tags), c + t >= JournalLen
  PROVE  Walked(im, D, X, c + t, -1, 0)
<1>1. /\ Independent(im, D, c + 1) /\ c \in D
      /\ \A d \in D : d + Len(im[d].tags) < c \/ d = c
      /\ \A x : x \in X <=> Given(im, D, c, t, x)
  BY DEF Walked
<1>2. /\ D \subseteq DescriptorsOf(im) /\ DescriptorsOf(im) \subseteq Nat
      /\ \A d \in DescriptorsOf(im) :
           Len(im[d].tags) \in Nat \ {0} /\ DOMAIN im[d].tags = 1 .. Len(im[d].tags)
  BY <1>1, DescriptorFacts DEF Independent
<1>3. \A x : Given(im, D, c, t, x) <=> Given(im, D, -1, 0, x)
  <2>1. \A i \in Indexable(im, c) : i < t
    BY <1>1, <1>2, WalkAssumption DEF Indexable
  <2>2. \A d \in D : d # -1
    BY <1>2
  <2> QED
    BY <2>1, <2>2 DEF Given
<1>4. t \in Nat /\ c + t \in Nat /\ c < c + t
  BY <1>1, <1>2
<1>5. Independent(im, D, c + t)
  <2> DEFINE b == c + t
  <2>1. b \in Nat /\ c < b /\ b <= c + Len(im[c].tags) + 1
    BY <1>1, <1>2
  <2> HIDE DEF b
  <2>2. Independent(im, D, b)
    BY <2>1, WalkedLeave
  <2> QED
    BY <2>2 DEF b
<1>6. \A d \in D : d + Len(im[d].tags) < c + t \/ (d < c + t /\ c + t >= JournalLen)
  BY <1>1, <1>2, <1>4
<1> QED
  BY <1>1, <1>3, <1>5, <1>6 DEF Walked

\* The inductive step of WalkedInv.
LEMMA WalkedStep ==
  ASSUME WalkInv, [Next]_vars
  PROVE  WalkedInv'
<1> DEFINE X == ToSet(jindex) \cup dropped
           Y == ToSet(jindex') \cup dropped'
<1>0. /\ Journaled(image) /\ Cursors /\ image' = image
      /\ jindex \in Seq(IndexEntries) /\ dropped \subseteq IndexEntries
      /\ DescriptorsOf(image) \subseteq Nat /\ blk \in Nat /\ tag \in Nat
  BY ImageKept, DescriptorFacts DEF WalkInv, TypeOK, Cursors
<1>1. ASSUME NEW D, D \in SUBSET DescriptorsOf(image), blk' \in Nat, pc' \in {"scan", "tags"},
             Walked(image, D, Y, blk', Cur', tag')
      PROVE  WalkedInv'
  <2>1. WalkedBy(D)' <=> Walked(image', D, Y, blk', Cur', tag')
    <3>1. DescriptorsOf(image') \subseteq Nat /\ D \in SUBSET DescriptorsOf(image')
      BY <1>0, <1>1
    <3>2. \A x : x \in Entered(D)' <=> Given(image', D, Cur', tag', x)
      <4>1. \A d \in D : d # -1
        BY <1>0, <1>1
      <4>2. \A d \in D : (pc' = "tags" /\ d = blk') <=> d = Cur'
        BY <4>1 DEF Cur
      <4>3. \A x : x \in Entered(D)' <=>
              \E d \in D : \E i \in Indexable(image', d) :
                 (pc' = "tags" /\ d = blk' => i < tag') /\ x = EntryOf(image', d, i)
        BY DEF Entered
      <4> QED
        BY <4>2, <4>3 DEF Given
    <3>3. Y = Entered(D)' <=> \A x : x \in Y <=> Given(image', D, Cur', tag', x)
      BY <3>2
    <3>4. CASE pc' = "tags"
      <4>1. Cur' = blk' /\ Cur' # -1
        BY <1>1, <3>4 DEF Cur
      <4> QED
        BY <3>3, <3>4, <4>1 DEF WalkedBy, Walked
    <3>5. CASE pc' = "scan"
      <4>1. Cur' = -1 /\ \A d \in D : d # -1
        BY <1>0, <1>1, <3>5 DEF Cur
      <4> QED
        BY <3>3, <3>5, <4>1 DEF WalkedBy, Walked
    <3> QED
      BY <1>1, <3>4, <3>5
  <2> QED
    BY <1>0, <1>1, <2>1 DEF WalkedInv
<1>2. ASSUME Scanning
      PROVE  \E D \in SUBSET DescriptorsOf(image) : Walked(image, D, X, blk, Cur, tag)
  <2>1. PICK D \in SUBSET DescriptorsOf(image) : WalkedBy(D)
    BY <1>2 DEF WalkInv, WalkedInv
  <2>2. Walked(image, D, X, blk, Cur, tag)
    BY <1>0, <1>2, <2>1, WalkedIs DEF Scanning
  <2> QED
    BY <2>2
<1>3. CASE OpenJournal
  <2>1. Y = {} /\ blk' = JournalStart /\ pc' = "scan" /\ Cur' = -1
    BY <1>3 DEF OpenJournal, WalkInv, OnceInv, Cur, ToSet
  <2>2. Walked(image, {}, Y, JournalStart, -1, tag')
    BY <1>0, <2>1, WalkedStart
  <2>3. blk' \in Nat /\ pc' \in {"scan", "tags"}
    BY <2>1, WalkAssumption
  <2> DEFINE D == {}
  <2>4. Walked(image, D, Y, blk', Cur', tag')
    BY <2>1, <2>2
  <2>5. D \in SUBSET DescriptorsOf(image)
    OBVIOUS
  <2> HIDE DEF D, Y
  <2> QED
    BY <1>1, <2>3, <2>4, <2>5
<1>4. CASE OpenFails
  <2>1. journal_len = 0 /\ journal_len' = journal_len
    BY <1>0, <1>4 DEF OpenFails, Cursors
  <2> QED
    BY <2>1 DEF WalkedInv, Scanning
<1>5. CASE SkipBlock
  <2>1. /\ Scanning /\ Cur = -1 /\ Cur' = -1 /\ blk' = blk + 1 /\ tag' = tag /\ Y = X
        /\ pc' = "scan" /\ blk < JournalLen /\ blk \notin DescriptorsOf(image)
    BY <1>0, <1>5 DEF SkipBlock, Scanning, Cur, Cursors, DescriptorsOf
  <2>2. PICK D \in SUBSET DescriptorsOf(image) : Walked(image, D, X, blk, Cur, tag)
    BY <1>2, <2>1
  <2>3. Walked(image, D, X, blk + 1, -1, tag)
    BY <1>0, <2>1, <2>2, WalkedSkip
  <2> HIDE DEF X, Y
  <2>4. Walked(image, D, Y, blk', Cur', tag')
    BY <2>1, <2>3
  <2>5. blk' \in Nat
    BY <1>0, <2>1
  <2> QED
    BY <1>1, <2>1, <2>4, <2>5
<1>6. CASE OpenDescriptor
  <2>1. /\ Scanning /\ Cur = -1 /\ Cur' = blk /\ blk' = blk /\ tag' = 1 /\ Y = X
        /\ pc' = "tags" /\ blk < JournalLen /\ journal_len = JournalLen
    BY <1>0, <1>6 DEF OpenDescriptor, Scanning, Cur, Cursors
  <2>2. blk \in DescriptorsOf(image)
    BY <1>0, <1>6, <2>1 DEF OpenDescriptor, DescriptorsOf, Journaled, Cursors
  <2>3. PICK D \in SUBSET DescriptorsOf(image) : Walked(image, D, X, blk, Cur, tag)
    BY <1>2, <2>1
  <2>4. Walked(image, D \cup {blk}, X, blk, blk, 1)
    BY <1>0, <2>1, <2>2, <2>3, WalkedOpen
  <2>5. D \cup {blk} \in SUBSET DescriptorsOf(image)
    BY <2>2
  <2> QED
    BY <1>0, <1>1, <2>1, <2>4, <2>5
<1>7. ASSUME AtTag, NextTag, TagEntered(image, blk, tag, X, Y)
      PROVE  WalkedInv'
  <2>1. Scanning /\ Cur = blk /\ data_blk = blk + tag
    BY <1>7, AtTheTag DEF Cur, AtTag
  <2>2. PICK D \in SUBSET DescriptorsOf(image) : Walked(image, D, X, blk, blk, tag)
    BY <1>2, <2>1
  <2>3. CASE /\ tag < Len(image[blk].tags) /\ tag' = tag + 1 /\ data_blk' = data_blk + 1
             /\ pc' = "tags" /\ blk' = blk
    <3>1. Walked(image, D, Y, blk, blk, tag + 1)
      BY <1>0, <1>7, <2>2, WalkedNext
    <3>2. Cur' = blk
      BY <2>3 DEF Cur
    <3> QED
      BY <1>0, <1>1, <2>3, <3>1, <3>2
  <2>4. CASE /\ tag = Len(image[blk].tags) /\ pc' = "scan" /\ blk' = data_blk + 1
             /\ tag' = 0 /\ data_blk' = data_blk + 1
    <3>1. Walked(image, D, Y, blk + tag + 1, -1, 0)
      BY <1>0, <1>7, <2>2, <2>4, WalkedOut
    <3>2. Cur' = -1 /\ blk' = blk + tag + 1
      BY <1>0, <2>1, <2>4 DEF Cur
    <3>3. blk' \in Nat
      BY <1>0, <3>2
    <3> QED
      BY <1>0, <1>1, <2>4, <3>1, <3>2, <3>3
  <2> QED
    BY <1>7, <2>3, <2>4, TagDone
<1>8. CASE BadTag
  <2>1. AtTag /\ NextTag /\ Y = X /\ ~Reasonable
    BY <1>8 DEF BadTag
  <2>2. tag \notin Indexable(image, blk)
    <3> DEFINE fs == Tag.fs
    <3>1. fs \in Nat
      BY <2>1, AtTheTag
    <3>2. TotalBlocks \in Nat
      BY WalkAssumption
    <3>3. ~(fs # 0 /\ fs < TotalBlocks)
      BY <2>1 DEF Reasonable
    <3> HIDE DEF fs
    <3>4. fs \notin 1 .. TotalBlocks - 1
      BY <3>1, <3>2, <3>3
    <3>5. image[blk].tags[tag].fs = fs
      BY DEF fs, Tag
    <3> QED
      BY <3>4, <3>5 DEF Indexable
  <2>3. TagEntered(image, blk, tag, X, Y)
    BY <2>1, <2>2 DEF TagEntered
  <2> QED
    BY <1>7, <2>1, <2>3
<1>9. CASE PastEnd
  <2>1. /\ AtTag /\ Y = X /\ data_blk >= journal_len /\ pc' = "scan" /\ blk' = data_blk /\ tag' = 0
    BY <1>9 DEF PastEnd, Leave
  <2>2. /\ Scanning /\ Cur = blk /\ data_blk = blk + tag /\ journal_len = JournalLen
        /\ tag \in 1 .. Len(image[blk].tags) /\ data_blk \in Nat
    BY <2>1, AtTheTag DEF Cur, AtTag
  <2>3. PICK D \in SUBSET DescriptorsOf(image) : Walked(image, D, X, blk, blk, tag)
    BY <1>2, <2>2
  <2>4. Walked(image, D, X, blk + tag, -1, 0)
    BY <1>0, <2>1, <2>2, <2>3, WalkedPast
  <2>5. Cur' = -1
    BY <2>1 DEF Cur
  <2> QED
    BY <1>1, <2>1, <2>2, <2>4, <2>5
<1>10. ASSUME AtTag, Reasonable, data_blk < journal_len, jindex_add(Entry)
       PROVE  TagEntered(image, blk, tag, X, Y)
  <2>1. Entry \in IndexEntries /\ Entry = EntryOf(image, blk, tag) /\ tag \in Indexable(image, blk)
    BY <1>10, NewEntry
  <2>2. Y = X \cup {Entry}
    BY <1>0, <1>10, <2>1, Added
  <2> QED
    BY <2>1, <2>2 DEF TagEntered
<1>11. CASE IndexOnly
  BY <1>7, <1>10, <1>11 DEF IndexOnly
<1>12. CASE ProcessCopy
  BY <1>7, <1>10, <1>12 DEF ProcessCopy
<1>13. CASE Sort \/ \E fs \in 2 .. TotalBlocks - 1 : TargetedRead(fs)
  BY <1>13 DEF Sort, TargetedRead, WalkedInv, Scanning
<1>14. CASE UNCHANGED vars
  <2>1. Scanning' <=> Scanning
    BY <1>14 DEF vars, Scanning
  <2>2. ASSUME Scanning PROVE WalkedInv'
    <3>1. PICK D \in SUBSET DescriptorsOf(image) : Walked(image, D, X, blk, Cur, tag)
      BY <1>2, <2>2
    <3>2. X = Y /\ blk' = blk /\ Cur' = Cur /\ tag' = tag /\ pc' \in {"scan", "tags"}
      BY <1>14, <2>2 DEF vars, Cur, Scanning
    <3> QED
      BY <1>0, <1>1, <3>1, <3>2
  <2> QED
    BY <2>1, <2>2 DEF WalkedInv
<1> QED
  BY <1>3, <1>4, <1>5, <1>6, <1>8, <1>9, <1>11, <1>12, <1>13, <1>14, ActionCases

-----------------------------------------------------------------------------
(* After the sort. *)

LEMMA SortedStep ==
  ASSUME WalkInv, [Next]_vars
  PROVE  SortedInv'
<1>1. jindex \in Seq(IndexEntries) /\ SortedInv
  BY DEF WalkInv, TypeOK
<1>2. CASE Sort
  BY <1>1, <1>2, SortedIndex DEF Sort, SortedInv
<1>3. CASE pc' # "done"
  BY <1>3 DEF SortedInv
<1>4. CASE pc' = pc /\ jindex' = jindex
  BY <1>1, <1>4 DEF SortedInv
<1>5. CASE BadTag
  BY <1>3, <1>5, TagDone DEF BadTag
<1>6. CASE IndexOnly
  BY <1>3, <1>6, TagDone DEF IndexOnly
<1>7. CASE ProcessCopy
  BY <1>3, <1>7, TagDone DEF ProcessCopy
<1> QED
  BY <1>2, <1>3, <1>4, <1>5, <1>6, <1>7, ActionCases
     DEF OpenJournal, OpenFails, SkipBlock, OpenDescriptor, PastEnd, Leave, TargetedRead, vars

\* Only the end of the walk makes it done.
LEMMA DoneSteps ==
  ASSUME WalkInv, [Next]_vars, pc' = "done"
  PROVE  Sort \/ (\E fs \in 2 .. TotalBlocks - 1 : TargetedRead(fs)) \/ UNCHANGED vars
<1>1. CASE BadTag
  BY <1>1, TagDone DEF BadTag
<1>2. CASE IndexOnly
  BY <1>2, TagDone DEF IndexOnly
<1>3. CASE ProcessCopy
  BY <1>3, TagDone DEF ProcessCopy
<1> QED
  BY <1>1, <1>2, <1>3, ActionCases
     DEF OpenJournal, OpenFails, SkipBlock, OpenDescriptor, PastEnd, Leave

LEMMA CompleteStep ==
  ASSUME WalkInv, [Next]_vars
  PROVE  IndexComplete'
<1> SUFFICES ASSUME pc' = "done", journal_len' > 0
             PROVE  /\ \E D \in SUBSET DescriptorsOf(image') :
                         /\ Independent(image', D, JournalLen)
                         /\ ToSet(jindex') \cup dropped' = EntriesOf(image', D)
                    /\ IsInjective(jindex') /\ ToSet(jindex') \cap dropped' = {}
  BY DEF IndexComplete
<1>1. IsInjective(jindex') /\ ToSet(jindex') \cap dropped' = {}
  BY OnceStep DEF OnceInv
<1>2. image' = image
  BY ImageKept
<1>3. CASE Sort
  <2>1. /\ Journaled(image) /\ jindex \in Seq(IndexEntries) /\ journal_len \in {0, JournalLen}
        /\ blk \in Nat
    BY DEF WalkInv, TypeOK
  <2>2. journal_len' = journal_len /\ pc = "scan" /\ blk >= journal_len /\ dropped' = dropped
    BY <1>3 DEF Sort
  <2>3. Scanning /\ blk >= JournalLen
    BY <2>1, <2>2 DEF Scanning
  <2>4. PICK D \in SUBSET DescriptorsOf(image) : WalkedBy(D)
    BY <2>3 DEF WalkInv, WalkedInv
  <2>5. Independent(image, D, blk) /\ ToSet(jindex) \cup dropped = Entered(D)
    BY <2>2, <2>4 DEF WalkedBy
  <2>6. \A d \in DescriptorsOf(image) : d < JournalLen /\ d < blk
    BY <2>1, <2>3, DescriptorFacts, WalkAssumption
  <2>7. Independent(image, D, JournalLen)
    BY <2>5, <2>6 DEF Independent
  <2>8. Entered(D) = EntriesOf(image, D)
    BY <2>2 DEF Entered, EntriesOf
  <2>9. ToSet(jindex') = ToSet(jindex)
    BY <1>3, <2>1, SortedIndex DEF Sort
  <2> QED
    BY <1>1, <1>2, <2>2, <2>5, <2>7, <2>8, <2>9
<1>4. CASE UNCHANGED <<pc, journal_len, jindex, dropped>>
  BY <1>1, <1>2, <1>4 DEF WalkInv, IndexComplete
<1> QED
  BY <1>3, <1>4, DoneSteps DEF TargetedRead, vars

\* When the walk is done its index is exact.
LEMMA DoneIsExact ==
  ASSUME WalkInv, pc = "done"
  PROVE  Exact(jindex)
<1>1. /\ jindex \in Seq(IndexEntries) /\ CopiesGenuine /\ EntryInv /\ SortedInv
      /\ IsInjective(jindex) /\ Journaled(image)
  BY DEF WalkInv, TypeOK, OnceInv
<1>2. ASSUME NEW i \in DOMAIN jindex, NEW j \in DOMAIN jindex,
             jindex[i].fs_block = jindex[j].fs_block, jindex[i].seq = jindex[j].seq
      PROVE  i = j
  <2>1. jindex[i] \in ToSet(jindex) /\ jindex[j] \in ToSet(jindex)
    BY DEF ToSet
  <2>2. PICK d \in DescriptorsOf(image) : \E a \in DOMAIN image[d].tags : jindex[i] = EntryOf(image, d, a)
    BY <1>1, <2>1 DEF EntryInv
  <2>3. PICK a \in DOMAIN image[d].tags : jindex[i] = EntryOf(image, d, a)
    BY <2>2
  <2>4. PICK e \in DescriptorsOf(image) : \E c \in DOMAIN image[e].tags : jindex[j] = EntryOf(image, e, c)
    BY <1>1, <2>1 DEF EntryInv
  <2>5. PICK c \in DOMAIN image[e].tags : jindex[j] = EntryOf(image, e, c)
    BY <2>4
  <2>6. image[d].seq = image[e].seq /\ image[d].tags[a].fs = image[e].tags[c].fs
    BY <1>2, <2>3, <2>5 DEF EntryOf
  <2>7. d = e /\ a = c
    BY <1>1, <2>6 DEF Journaled
  <2> QED
    BY <1>1, <2>3, <2>5, <2>7 DEF IsInjective
<1>3. \A i, j \in DOMAIN jindex : i < j => ~jindex_cmp(jindex[j], jindex[i])
  BY <1>1 DEF SortedInv
<1>4. \A i \in DOMAIN jindex : Committed(image, jindex[i].seq) => image[jindex[i].journal_blk] \in
        {[kind |-> "bad"],
         [kind |-> "data", fs |-> jindex[i].fs_block, seq |-> jindex[i].seq, esc |-> jindex[i].escaped]}
  BY <1>1 DEF CopiesGenuine
<1> QED
  BY <1>1, <1>2, <1>3, <1>4 DEF Exact

LEMMA ReadsStep ==
  ASSUME WalkInv, [Next]_vars
  PROVE  SortedReadsNewest'
<1> SUFFICES ASSUME pc' = "done" PROVE ReadsNewest'
  BY DEF SortedReadsNewest
<1>1. CASE Sort
  BY <1>1 DEF Sort, ReadsNewest
<1>2. ASSUME NEW fs \in 2 .. TotalBlocks - 1, TargetedRead(fs)
      PROVE  ReadsNewest'
  <2>1. pc = "done" /\ jindex' = jindex /\ image' = image /\ reads' = {Read(jindex, fs, 0)}
    BY <1>2 DEF TargetedRead
  <2>2. fs \in Nat /\ 0 \in Nat
    BY WalkAssumption
  <2>3. journal_index_read(jindex, fs, 0) = Newest(fs, 0)
    BY <2>1, <2>2, DoneIsExact, ReadIsNewest
  <2>4. \A f, m : Newest(f, m)' = Newest(f, m)
    BY <2>1 DEF Newest, Restored
  <2>5. \A r \in reads' : r.fs = fs /\ r.max = 0 /\ r.got = Newest(fs, 0)
    BY <2>1, <2>3 DEF Read
  <2>6. \A r \in reads' : r.got = Newest(r.fs, r.max)'
    BY <2>4, <2>5
  <2> QED
    BY <2>6 DEF ReadsNewest
<1>3. CASE UNCHANGED vars
  <2>1. pc = "done" /\ jindex' = jindex /\ image' = image /\ reads' = reads
    BY <1>3 DEF vars
  <2>2. \A f, m : Newest(f, m)' = Newest(f, m)
    BY <2>1 DEF Newest, Restored
  <2>3. \A r \in reads : r.got = Newest(r.fs, r.max)
    BY <2>1 DEF WalkInv, SortedReadsNewest, ReadsNewest
  <2>4. \A r \in reads' : r.got = Newest(r.fs, r.max)'
    BY <2>1, <2>2, <2>3
  <2> QED
    BY <2>4 DEF ReadsNewest
<1> QED
  BY <1>1, <1>2, <1>3, DoneSteps

-----------------------------------------------------------------------------
(* The theorems. *)

LEMMA InitWalk ==
  ASSUME Init
  PROVE  WalkInv
<1>1. Journaled(image)
  BY ImagesAssumption DEF Init
<1>2. \A e : e \notin ToSet(jindex)
  BY DEF Init, ToSet
<1>3. TypeOK
  BY WalkAssumption DEF Init, TypeOK
<1>4. CopiesGenuine /\ SortedInv /\ HandledInv /\ SortedReadsNewest /\ IndexComplete
  BY DEF Init, CopiesGenuine, SortedInv, HandledInv, SortedReadsNewest, IndexComplete
<1>5. WalkedInv
  BY DEF Init, WalkedInv, Scanning
<1>6. OnceInv
  BY <1>2 DEF Init, OnceInv, Scanning, IsInjective
<1>7. EntryInv
  BY <1>2 DEF EntryInv
<1> QED
  BY <1>1, <1>3, <1>4, <1>5, <1>6, <1>7 DEF WalkInv

\* The inductive invariant of the walk holds in every reachable state.
THEOREM WalkInvariant == Spec => []WalkInv
<1>1. WalkInv /\ [Next]_vars => WalkInv'
  <2> SUFFICES ASSUME WalkInv, [Next]_vars PROVE WalkInv'
    OBVIOUS
  <2>1. Journaled(image')
    BY ImageKept DEF WalkInv
  <2> QED
    BY <2>1, TypeStep, CopiesStep, CompleteStep, ReadsStep, OnceStep, WalkedStep, EntryStep,
       HandledStep, SortedStep DEF WalkInv
<1> QED
  BY <1>1, InitWalk, PTL DEF Spec

\* Type correctness: the cursors never leave the journal, whatever its descriptors say.
THEOREM TypeCorrect == Spec => []TypeOK
<1>1. WalkInv => TypeOK
  BY DEF WalkInv
<1> QED
  BY <1>1, WalkInvariant, PTL

\* What is processed or indexed is the copy its tag says, for every committed transaction.
THEOREM CopiesGenuineCorrect == Spec => []CopiesGenuine
<1>1. WalkInv => CopiesGenuine
  BY DEF WalkInv
<1> QED
  BY <1>1, WalkInvariant, PTL

\* A copy is processed for exactly the inodes of its block, and none is passed over,
\* wherever the inode tables are.
THEOREM InodesGenuineCorrect == Spec => []InodesGenuine
<1>1. WalkInv => InodesGenuine
  <2> SUFFICES ASSUME WalkInv PROVE InodesGenuine
    OBVIOUS
  <2>1. /\ HandledInv /\ EntryInv /\ jindex \in Seq(IndexEntries)
        /\ handled \subseteq [fs : Nat, seq : Nat, inos : SUBSET Nat, buf : Copies]
    BY DEF WalkInv, TypeOK
  <2>2. ASSUME NEW h \in handled PROVE h.inos = {n \in Inodes : HomeOf(n) = h.fs}
    <3>1. h.fs \in Int
      BY <2>1
    <3>2. InodesIn(h.fs) = {n \in Inodes : HomeOf(n) = h.fs}
      BY <3>1, InodesInExact
    <3>3. h.inos = InodesIn(h.fs)
      BY <2>1 DEF HandledInv
    <3> QED
      BY <3>2, <3>3
  <2>3. ASSUME NEW e \in ToSet(jindex), NEW n \in Inodes,
               HomeOf(n) = e.fs_block, image[e.journal_blk].kind # "bad"
        PROVE  \E h \in handled : h.fs = e.fs_block /\ h.seq = e.seq
    <3>1. e \in IndexEntries
      BY <2>1 DEF ToSet
    <3>2. e.fs_block \in Int
      BY <3>1, EntryTypes
    <3>3. is_inode_table_block(e.fs_block)
      BY <2>3, <3>2, InodesInExact
    <3> QED
      BY <2>1, <2>3, <3>3 DEF EntryInv
  <2> QED
    BY <2>2, <2>3 DEF InodesGenuine
<1> QED
  BY <1>1, WalkInvariant, PTL

\* At the end of the walk exactly the tags that can be indexed are in the index or lost
\* for want of memory, each once.
THEOREM IndexCompleteCorrect == Spec => []IndexComplete
<1>1. WalkInv => IndexComplete
  BY DEF WalkInv
<1> QED
  BY <1>1, WalkInvariant, PTL

\* After jindex_sort() every read gives the newest copy.
THEOREM SortedReadsNewestCorrect == Spec => []SortedReadsNewest
<1>1. WalkInv => SortedReadsNewest
  BY DEF WalkInv
<1> QED
  BY <1>1, WalkInvariant, PTL

-----------------------------------------------------------------------------
(* The walk gets on. *)

LEMMA MovesStep ==
  ASSUME WalkInv, [Next]_vars, Walking, vars' # vars
  PROVE  WalkMoves
<1>0. blk \in Nat /\ journal_len \in {0, JournalLen} /\ pc \in {"scan", "tags"}
  BY DEF WalkInv, TypeOK, Walking
<1>1. CASE SkipBlock
  BY <1>0, <1>1 DEF SkipBlock, WalkMoves, Frontier
<1>2. CASE OpenDescriptor
  BY <1>0, <1>2 DEF OpenDescriptor, WalkMoves, Frontier
<1>3. CASE BadTag \/ IndexOnly \/ ProcessCopy
  <2>1. AtTag /\ NextTag /\ pc = "tags"
    BY <1>3 DEF BadTag, IndexOnly, ProcessCopy, AtTag
  <2>2. /\ data_blk \in Nat /\ tag \in Nat /\ Len(image[blk].tags) \in Nat
        /\ tag \in 1 .. Len(image[blk].tags) /\ data_blk = blk + tag
    BY <2>1, AtTheTag
  <2>3. Frontier = data_blk /\ Frontier' = data_blk + 1
    BY <2>1, TagDone DEF Frontier
  <2> QED
    BY <1>0, <2>1, <2>2, <2>3 DEF WalkMoves
<1>4. CASE PastEnd
  BY <1>4 DEF PastEnd, AtTag, Leave, WalkMoves, Frontier
<1>5. CASE Sort
  BY <1>5 DEF Sort, WalkMoves, Frontier
<1> QED
  BY <1>0, <1>1, <1>2, <1>3, <1>4, <1>5
     DEF Next, Scan, OpenJournal, OpenFails, TargetedRead, Idle

\* The walk of any journal enters one block after the other and stops at its end:
\* nothing a descriptor says makes it go back, go round or leave out a block.
THEOREM WalkAdvancesCorrect == Spec => WalkAdvances
<1>1. WalkInv /\ [Next]_vars => [Walking => WalkMoves]_vars
  BY MovesStep DEF vars
<1> QED
  BY <1>1, WalkInvariant, PTL DEF Spec, WalkAdvances
====
