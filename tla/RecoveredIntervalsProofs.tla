---------------------- MODULE RecoveredIntervalsProofs ----------------------
(***************************************************************************)
(* Proofs about RecoveredIntervals for every device, every capacity and    *)
(* every history of insertions, refused ones included.                     *)
(***************************************************************************)
EXTENDS RecoveredIntervals, DataLemmas

LEMMA InitInv == Init => IntervalsInv
  BY IntervalsAssumption
     DEF Init, IntervalsInv, TypeOK, Canonical, SearchInv

\* The midpoint of a non-empty search range lies in it.
LEMMA Midpoint ==
  ASSUME NEW a \in Nat, NEW b \in Nat, a < b
  PROVE  (a + b) \div 2 \in Nat /\ a <= (a + b) \div 2 /\ (a + b) \div 2 < b
  OBVIOUS

\* Splice keeps the type of the array's entries.
LEMMA SpliceType ==
  ASSUME NEW T, NEW a \in [0 .. count - 1 -> T], NEW from \in Nat, NEW to \in Nat,
         NEW v \in T, count \in Nat, from <= to, to <= count
  PROVE  Splice(a, from, to, v) \in [0 .. count - (to - from) -> T]
<1>1. ASSUME NEW i \in 0 .. count - (to - from)
      PROVE  (IF i < from THEN a[i] ELSE IF i = from THEN v
              ELSE a[i + (to - from) - 1]) \in T
  <2>1. CASE i < from
    BY <2>1
  <2>2. CASE i = from
    BY <2>2
  <2>3. CASE i > from
    <3>1. i + (to - from) - 1 \in 0 .. count - 1
      BY <2>3
    <3> QED
      BY <2>3, <3>1
  <2> QED
    BY <2>1, <2>2, <2>3
<1> QED
  BY <1>1 DEF Splice

-----------------------------------------------------------------------------
(* Replacing the intervals from, ..., to - 1 by one. *)

\* The array after such a replacement, index by index.
LEMMA Replaced ==
  ASSUME TypeOK, NEW from \in Nat, NEW to \in Nat, from <= to, to <= count,
         NEW newS \in Nat, NEW newE \in Nat, newS < newE,
         starts' = Splice(starts, from, to, newS),
         lens' = Splice(lens, from, to, newE - newS),
         count' = count - (to - from) + 1
  PROVE  /\ count' \in Nat /\ from < count'
         /\ starts' \in [0 .. count' - 1 -> Nat]
         /\ lens' \in [0 .. count' - 1 -> Nat \ {0}]
         /\ starts'[from] = newS /\ EndOf(from)' = newE
         /\ \A i \in 0 .. from - 1 :
               starts'[i] = starts[i] /\ EndOf(i)' = EndOf(i)
         /\ \A i \in from + 1 .. count' - 1 :
               /\ i + (to - from) - 1 \in to .. count - 1
               /\ starts'[i] = starts[i + (to - from) - 1]
               /\ EndOf(i)' = EndOf(i + (to - from) - 1)
<1>0. /\ count \in Nat /\ starts \in [0 .. count - 1 -> Nat]
      /\ lens \in [0 .. count - 1 -> Nat \ {0}]
  BY DEF TypeOK
<1>1. count' \in Nat /\ from < count' /\ count' - 1 = count - (to - from)
  BY <1>0
<1>2. newE - newS \in Nat \ {0}
  OBVIOUS
<1>3. starts' \in [0 .. count - (to - from) -> Nat]
  BY <1>0, SpliceType
<1>4. lens' \in [0 .. count - (to - from) -> Nat \ {0}]
  BY <1>0, <1>2, SpliceType
<1>5. \A i \in 0 .. count' - 1 :
         /\ starts'[i] = IF i < from THEN starts[i] ELSE IF i = from THEN newS
                         ELSE starts[i + (to - from) - 1]
         /\ lens'[i] = IF i < from THEN lens[i] ELSE IF i = from THEN newE - newS
                       ELSE lens[i + (to - from) - 1]
  <2>1. \A i \in 0 .. count' - 1 :
           starts'[i] = IF i < from THEN starts[i] ELSE IF i = from THEN newS
                        ELSE starts[i + (to - from) - 1]
    BY <1>1 DEF Splice
  <2>2. \A i \in 0 .. count' - 1 :
           lens'[i] = IF i < from THEN lens[i] ELSE IF i = from THEN newE - newS
                      ELSE lens[i + (to - from) - 1]
    BY <1>1 DEF Splice
  <2> QED
    BY <2>1, <2>2
<1>6. starts'[from] = newS /\ lens'[from] = newE - newS
  BY <1>1, <1>5
<1>7. \A i \in 0 .. from - 1 : starts'[i] = starts[i] /\ lens'[i] = lens[i]
  BY <1>1, <1>5
<1>8. \A i \in from + 1 .. count' - 1 :
         /\ i + (to - from) - 1 \in to .. count - 1
         /\ starts'[i] = starts[i + (to - from) - 1]
         /\ lens'[i] = lens[i + (to - from) - 1]
  BY <1>0, <1>1, <1>5
<1>9. EndOf(from)' = newE
  BY <1>6 DEF EndOf
<1> QED
  BY <1>1, <1>3, <1>4, <1>6, <1>7, <1>8, <1>9 DEF EndOf

\* It keeps the canonical form when the new interval keeps its distance from
\* those that remain.
LEMMA ReplacedCanonical ==
  ASSUME TypeOK, Canonical, NEW from \in Nat, NEW to \in Nat, from <= to,
         to <= count, NEW newS \in Nat, NEW newE \in Nat, newS < newE,
         starts' = Splice(starts, from, to, newS),
         lens' = Splice(lens, from, to, newE - newS),
         count' = count - (to - from) + 1,
         \A i \in 0 .. from - 1 : EndOf(i) < newS,
         \A i \in to .. count - 1 : newE < starts[i]
  PROVE  Canonical'
<1> SUFFICES ASSUME NEW i \in 0 .. count' - 1, NEW j \in 0 .. count' - 1, i < j
             PROVE  EndOf(i)' < starts'[j]
  BY DEF Canonical
<1>0. /\ count' \in Nat /\ from < count' /\ count \in Nat
      /\ starts'[from] = newS /\ EndOf(from)' = newE
      /\ \A k \in 0 .. from - 1 :
            starts'[k] = starts[k] /\ EndOf(k)' = EndOf(k)
      /\ \A k \in from + 1 .. count' - 1 :
            /\ k + (to - from) - 1 \in to .. count - 1
            /\ starts'[k] = starts[k + (to - from) - 1]
            /\ EndOf(k)' = EndOf(k + (to - from) - 1)
  <2>1. count \in Nat
    BY DEF TypeOK
  <2> QED
    BY <2>1, Replaced
<1>1. \A k \in 0 .. count - 1 : starts[k] \in Nat /\ EndOf(k) \in Nat
                                /\ starts[k] < EndOf(k)
  BY DEF TypeOK, EndOf
<1>2. CASE j < from
  <2>1. i \in 0 .. from - 1 /\ j \in 0 .. from - 1
        /\ i \in 0 .. count - 1 /\ j \in 0 .. count - 1
    BY <1>0, <1>2
  <2> QED
    BY <1>0, <2>1 DEF Canonical
<1>3. CASE j = from
  BY <1>0, <1>3
<1>4. CASE j > from
  <2> DEFINE jj == j + (to - from) - 1
  <2>1. jj \in to .. count - 1 /\ starts'[j] = starts[jj] /\ newE < starts[jj]
    BY <1>0, <1>4
  <2>2. CASE i < from
    <3>1. i \in 0 .. from - 1 /\ i \in 0 .. count - 1 /\ jj \in 0 .. count - 1 /\ i < jj
      BY <1>0, <2>1, <2>2
    <3> QED
      BY <1>0, <2>1, <3>1 DEF Canonical
  <2>3. CASE i = from
    BY <1>0, <2>1, <2>3
  <2>4. CASE i > from
    <3> DEFINE ii == i + (to - from) - 1
    <3>1. ii \in to .. count - 1 /\ EndOf(i)' = EndOf(ii)
      BY <1>0, <2>4
    <3>2. ii < jj /\ ii \in 0 .. count - 1 /\ jj \in 0 .. count - 1
      BY <1>0, <2>1, <3>1
    <3> HIDE DEF ii, jj
    <3> QED
      BY <2>1, <3>1, <3>2 DEF Canonical
  <2> QED
    BY <2>2, <2>3, <2>4
<1> QED
  BY <1>2, <1>3, <1>4

\* It adds the new interval's blocks when that swallows the replaced ones.
LEMMA ReplacedCovered ==
  ASSUME TypeOK, NEW from \in Nat, NEW to \in Nat, from <= to,
         to <= count, NEW newS \in Nat, NEW newE \in Nat, newS < newE,
         starts' = Splice(starts, from, to, newS),
         lens' = Splice(lens, from, to, newE - newS),
         count' = count - (to - from) + 1,
         \A i \in from .. to - 1 : Interval(i) \subseteq newS .. newE - 1
  PROVE  Covered' = Covered \cup (newS .. newE - 1)
<1>0. /\ count' \in Nat /\ from < count' /\ count \in Nat
      /\ starts'[from] = newS /\ EndOf(from)' = newE
      /\ \A k \in 0 .. from - 1 :
            starts'[k] = starts[k] /\ EndOf(k)' = EndOf(k)
      /\ \A k \in from + 1 .. count' - 1 :
            /\ k + (to - from) - 1 \in to .. count - 1
            /\ starts'[k] = starts[k + (to - from) - 1]
            /\ EndOf(k)' = EndOf(k + (to - from) - 1)
  <2>1. count \in Nat
    BY DEF TypeOK
  <2> QED
    BY <2>1, Replaced
<1>1. Interval(from)' = newS .. newE - 1
  BY <1>0 DEF Interval
<1>2. \A k \in 0 .. from - 1 : Interval(k)' = Interval(k)
  BY <1>0 DEF Interval
<1>3. \A k \in from + 1 .. count' - 1 : Interval(k)' = Interval(k + (to - from) - 1)
  BY <1>0 DEF Interval
<1>4. ASSUME NEW b \in Covered' PROVE b \in Covered \cup (newS .. newE - 1)
  <2>1. PICK k \in 0 .. count' - 1 : b \in Interval(k)'
    BY <1>4 DEF Covered
  <2>2. CASE k < from
    <3>1. k \in 0 .. from - 1 /\ k \in 0 .. count - 1
      BY <1>0, <2>2
    <3> QED
      BY <1>2, <2>1, <3>1 DEF Covered
  <2>3. CASE k = from
    BY <1>1, <2>1, <2>3
  <2>4. CASE k > from
    <3>1. k \in from + 1 .. count' - 1
      BY <1>0, <2>4
    <3>2. k + (to - from) - 1 \in 0 .. count - 1
      BY <1>0, <3>1
    <3> QED
      BY <1>3, <2>1, <3>1, <3>2 DEF Covered
  <2> QED
    BY <2>2, <2>3, <2>4
<1>5. ASSUME NEW b \in newS .. newE - 1 PROVE b \in Covered'
  <2>1. b \in Interval(from)' /\ from \in 0 .. count' - 1
    BY <1>0, <1>1, <1>5
  <2> QED
    BY <2>1 DEF Covered
<1>6. ASSUME NEW b \in Covered PROVE b \in Covered'
  <2>1. PICK k \in 0 .. count - 1 : b \in Interval(k)
    BY <1>6 DEF Covered
  <2>2. CASE k < from
    <3>1. k \in 0 .. from - 1 /\ k \in 0 .. count' - 1
      BY <1>0, <2>2
    <3> QED
      BY <1>2, <2>1, <3>1 DEF Covered
  <2>3. CASE k \in from .. to - 1
    <3>1. b \in Interval(from)' /\ from \in 0 .. count' - 1
      BY <1>0, <1>1, <2>1, <2>3
    <3> QED
      BY <3>1 DEF Covered
  <2>4. CASE k >= to
    <3> DEFINE m == k - (to - from) + 1
    <3>1. m \in from + 1 .. count' - 1 /\ m + (to - from) - 1 = k /\ m \in 0 .. count' - 1
      BY <1>0, <2>4
    <3> HIDE DEF m
    <3>2. Interval(m)' = Interval(k)
      BY <1>3, <3>1
    <3> QED
      BY <2>1, <3>1, <3>2 DEF Covered
  <2> QED
    BY <1>0, <2>2, <2>3, <2>4
<1> QED
  BY <1>4, <1>5, <1>6

-----------------------------------------------------------------------------
(* The two ways of intervals_add() to change the array. *)

\* What the provers need to know about the intervals at hand.
LEMMA Ordering ==
  ASSUME TypeOK, Canonical
  PROVE  /\ count \in Nat
         /\ \A i \in 0 .. count - 1 :
               starts[i] \in Nat /\ EndOf(i) \in Nat /\ starts[i] < EndOf(i)
         /\ \A i, j \in 0 .. count - 1 : i < j => EndOf(i) < starts[j]
  BY DEF TypeOK, Canonical, EndOf

LEMMA MergeStep ==
  ASSUME IntervalsInv, Merge
  PROVE  /\ Canonical' /\ Covered' = Covered \cup (s .. s + len - 1)
         /\ starts' \in [0 .. count' - 1 -> Nat]
         /\ lens' \in [0 .. count' - 1 -> Nat \ {0}]
         /\ count' \in Nat /\ count' <= count
<1>0. TypeOK /\ Canonical /\ SearchInv
  BY DEF IntervalsInv
<1> DEFINE e == s + len
           newS == IF starts[mlo] < s THEN starts[mlo] ELSE s
           newE == IF EndOf(lo - 1) > e THEN EndOf(lo - 1) ELSE e
<1>1. /\ s \in Nat /\ len \in Nat /\ len # 0 /\ lo \in Nat /\ hi \in Nat /\ mlo \in Nat
      /\ lo = hi /\ hi <= count /\ mlo < lo
  BY <1>0 DEF Merge, TypeOK, SearchInv
<1>2. /\ \A i \in 0 .. mlo - 1 : EndOf(i) < s
      /\ \A i \in mlo .. count - 1 : EndOf(i) >= s
      /\ \A i \in mlo .. lo - 1 : starts[i] <= e
      /\ \A i \in hi .. count - 1 : starts[i] > e
  BY <1>0 DEF Merge, SearchInv
<1>3. /\ count \in Nat
      /\ \A i \in 0 .. count - 1 :
            starts[i] \in Nat /\ EndOf(i) \in Nat /\ starts[i] < EndOf(i)
      /\ \A i, j \in 0 .. count - 1 : i < j => EndOf(i) < starts[j]
  BY <1>0, Ordering
<1>4. /\ starts' = Splice(starts, mlo, lo, newS)
      /\ lens' = Splice(lens, mlo, lo, newE - newS)
      /\ count' = count - (lo - mlo) + 1
  BY DEF Merge
<1>5. mlo \in 0 .. count - 1 /\ lo - 1 \in 0 .. count - 1 /\ e \in Nat /\ s < e
  BY <1>1, <1>3
<1>6. /\ newS \in Nat /\ newE \in Nat /\ newS <= s /\ e <= newE /\ newS < newE
      /\ newS <= starts[mlo] /\ EndOf(lo - 1) <= newE
      /\ newS = s \/ newS = starts[mlo]
      /\ newE = e \/ newE = EndOf(lo - 1)
  BY <1>1, <1>3, <1>5
<1> HIDE DEF e, newS, newE
<1>7. \A i \in 0 .. mlo - 1 : EndOf(i) < newS
  BY <1>1, <1>2, <1>3, <1>5, <1>6
<1>8. \A i \in lo .. count - 1 : newE < starts[i]
  BY <1>1, <1>2, <1>3, <1>5, <1>6
<1>9. Canonical'
  BY <1>0, <1>1, <1>4, <1>6, <1>7, <1>8, ReplacedCanonical
<1>10. \A i \in mlo .. lo - 1 : Interval(i) \subseteq newS .. newE - 1
  <2> SUFFICES ASSUME NEW i \in mlo .. lo - 1, NEW b \in Interval(i)
               PROVE  b \in newS .. newE - 1
    OBVIOUS
  <2>1. i \in 0 .. count - 1 /\ i \in Nat
    BY <1>1, <1>3
  <2>2. starts[mlo] <= starts[i]
    <3>1. CASE i = mlo
      BY <1>3, <1>5, <3>1
    <3>2. CASE mlo < i
      BY <1>3, <1>5, <2>1, <3>2
    <3> QED
      BY <1>1, <3>1, <3>2
  <2>3. EndOf(i) <= EndOf(lo - 1)
    <3>1. CASE i = lo - 1
      BY <1>3, <1>5, <3>1
    <3>2. CASE i < lo - 1
      BY <1>3, <1>5, <2>1, <3>2
    <3> QED
      BY <1>1, <3>1, <3>2
  <2>4. b \in Int /\ starts[i] <= b /\ b < EndOf(i)
    BY <1>3, <2>1 DEF Interval
  <2> QED
    BY <1>3, <1>5, <1>6, <2>1, <2>2, <2>3, <2>4
<1>11. Covered' = Covered \cup (newS .. newE - 1)
  BY <1>0, <1>1, <1>4, <1>6, <1>10, ReplacedCovered
<1>12. ASSUME NEW b \in newS .. newE - 1
       PROVE  b \in Covered \cup (s .. e - 1)
  <2>0. b \in Nat /\ newS <= b /\ b < newE
    BY <1>6
  <2>1. CASE b < s
    <3>1. newS = starts[mlo] /\ EndOf(mlo) >= s
      BY <1>1, <1>2, <1>5, <1>6, <2>0, <2>1
    <3>2. b \in Interval(mlo)
      BY <1>1, <1>3, <1>5, <2>0, <2>1, <3>1 DEF Interval
    <3> QED
      BY <1>5, <3>2 DEF Covered
  <2>2. CASE b >= e
    <3>1. newE = EndOf(lo - 1) /\ starts[lo - 1] <= e
      BY <1>1, <1>2, <1>5, <1>6, <2>0, <2>2
    <3>2. b \in Interval(lo - 1)
      BY <1>3, <1>5, <2>0, <2>2, <3>1 DEF Interval
    <3> QED
      BY <1>5, <3>2 DEF Covered
  <2>3. CASE s <= b /\ b < e
    BY <1>1, <1>5, <2>0, <2>3
  <2> QED
    BY <1>1, <1>5, <2>0, <2>1, <2>2, <2>3
<1>13. s .. e - 1 \subseteq newS .. newE - 1
  BY <1>1, <1>5, <1>6
<1>14. e - 1 = s + len - 1
  BY <1>1 DEF e
<1>15. Covered' = Covered \cup (s .. s + len - 1)
  <2>1. Covered' = Covered \cup (s .. e - 1)
    BY <1>11, <1>12, <1>13
  <2> QED
    BY <1>14, <2>1
<1>16. /\ starts' \in [0 .. count' - 1 -> Nat]
       /\ lens' \in [0 .. count' - 1 -> Nat \ {0}] /\ count' \in Nat
  BY <1>0, <1>1, <1>4, <1>6, Replaced
<1>17. count' <= count
  BY <1>1, <1>3, <1>4
<1> QED
  BY <1>9, <1>16, <1>17, <1>15

LEMMA InsertStep ==
  ASSUME IntervalsInv, Insert
  PROVE  /\ Canonical' /\ Covered' = Covered \cup (s .. s + len - 1)
         /\ starts' \in [0 .. count' - 1 -> Nat]
         /\ lens' \in [0 .. count' - 1 -> Nat \ {0}]
         /\ count' \in Nat /\ capacity' \in Nat \ {0} /\ count' <= capacity'
<1>0. TypeOK /\ Canonical /\ SearchInv
  BY DEF IntervalsInv
<1> DEFINE e == s + len
<1>1. /\ s \in Nat /\ len \in Nat /\ len # 0 /\ lo \in Nat /\ hi \in Nat /\ mlo \in Nat
      /\ lo = hi /\ hi <= count /\ mlo = lo
      /\ count \in Nat /\ capacity \in Nat \ {0} /\ count <= capacity
  BY <1>0 DEF Insert, TypeOK, SearchInv
<1>2. /\ \A i \in 0 .. mlo - 1 : EndOf(i) < s
      /\ \A i \in mlo .. count - 1 : e < starts[i]
  <2>1. /\ \A i \in 0 .. mlo - 1 : EndOf(i) < s
        /\ \A i \in hi .. count - 1 : starts[i] > e
    BY <1>0 DEF Insert, SearchInv
  <2>2. \A i \in 0 .. count - 1 : starts[i] \in Nat
    BY <1>0 DEF TypeOK
  <2>3. e \in Nat
    BY <1>1
  <2> QED
    BY <1>1, <2>1, <2>2, <2>3
<1>3. e \in Nat /\ s < e /\ e - s = len /\ mlo - mlo = 0
  BY <1>1
<1>4. /\ starts' = Splice(starts, mlo, mlo, s)
      /\ lens' = Splice(lens, mlo, mlo, e - s)
      /\ count' = count - (mlo - mlo) + 1
  BY <1>1, <1>3 DEF Insert
<1>5. \A i \in mlo .. mlo - 1 : Interval(i) \subseteq s .. e - 1
  BY <1>1
<1> HIDE DEF e
<1>6. starts \in [0 .. count - 1 -> Nat] /\ mlo <= mlo /\ mlo <= count
  BY <1>0, <1>1 DEF TypeOK
<1>7. Canonical'
  BY <1>0, <1>1, <1>2, <1>3, <1>4, <1>6, ReplacedCanonical
<1>8. Covered' = Covered \cup (s .. e - 1)
  <2>1. /\ TypeOK /\ mlo \in Nat /\ mlo <= mlo /\ mlo <= count /\ s \in Nat /\ e \in Nat /\ s < e
    BY <1>0, <1>1, <1>3, <1>6
  <2> QED
    BY <2>1, <1>4, <1>5, ReplacedCovered, Zenon
<1>9. /\ starts' \in [0 .. count' - 1 -> Nat]
      /\ lens' \in [0 .. count' - 1 -> Nat \ {0}] /\ count' \in Nat
  BY <1>0, <1>1, <1>3, <1>4, <1>6, Replaced
<1>10. e - 1 = s + len - 1
  BY <1>1 DEF e
<1>11. Covered' = Covered \cup (s .. s + len - 1)
  BY <1>8, <1>10
<1>12. capacity' \in Nat \ {0} /\ count' <= capacity'
  BY <1>1 DEF Insert
<1> QED
  BY <1>7, <1>9, <1>12, <1>11

-----------------------------------------------------------------------------
(* The inductive invariant. *)

LEMMA NextInv == IntervalsInv /\ [Next]_vars => IntervalsInv'
<1> SUFFICES ASSUME IntervalsInv, [Next]_vars PROVE IntervalsInv'
  OBVIOUS
<1>0. TypeOK /\ Canonical /\ SearchInv
  BY DEF IntervalsInv
<1>1. /\ s \in Nat /\ len \in Nat /\ lo \in Nat /\ hi \in Nat /\ mlo \in Nat
      /\ s + len \in Nat
  BY <1>0 DEF TypeOK
<1>2. /\ count \in Nat
      /\ \A i \in 0 .. count - 1 :
            starts[i] \in Nat /\ EndOf(i) \in Nat /\ starts[i] < EndOf(i)
      /\ \A i, j \in 0 .. count - 1 : i < j => EndOf(i) < starts[j]
  BY <1>0, Ordering
<1>3. ASSUME NEW op \in {"add", "query"}, NEW r \in Requests, Enter(op, r)
      PROVE  IntervalsInv'
  <2>1. r[1] \in Nat /\ r[2] \in Nat
    BY IntervalsAssumption
  <2>2. TypeOK'
    BY <1>0, <1>3, <2>1 DEF Enter, array, TypeOK
  <2>3. Canonical' /\ SearchInv'
    BY <1>0, <1>3 DEF Enter, array, Canonical, SearchInv, EndOf
  <2> QED
    BY <2>2, <2>3 DEF IntervalsInv
<1>4. CASE EmptyRange \/ Refuse \/ Answer
  <2>1. /\ UNCHANGED array /\ pc' = "idle" /\ ret' \in {-1, 0, 1, 2}
        /\ s' = 0 /\ len' = 0 /\ lo' = 0 /\ hi' = 0 /\ mlo' = 0
    BY <1>4 DEF EmptyRange, Refuse, Answer, Return
  <2>2. TypeOK'
    BY <1>0, <2>1 DEF array, TypeOK
  <2>3. Canonical' /\ SearchInv'
    BY <1>0, <2>1 DEF array, Canonical, SearchInv, EndOf
  <2> QED
    BY <2>2, <2>3 DEF IntervalsInv
<1>5. CASE Begin
  <2>1. /\ UNCHANGED <<starts, lens, count, capacity, s, len, mlo, ret>>
        /\ lo' = 0 /\ hi' = count /\ len # 0 /\ pc' \in {"first", "find"}
    BY <1>5 DEF Begin, array
  <2>2. TypeOK'
    BY <1>0, <2>1 DEF TypeOK
  <2>3. SearchInv'
    BY <1>2, <2>1 DEF SearchInv
  <2> QED
    BY <1>0, <2>1, <2>2, <2>3 DEF IntervalsInv, Canonical, EndOf
<1>6. CASE FoundFirst
  <2>1. /\ UNCHANGED <<starts, lens, count, capacity, s, len, lo, ret>>
        /\ mlo' = lo /\ hi' = count /\ pc = "first" /\ lo >= hi /\ pc' = "last"
    BY <1>6 DEF FoundFirst, array
  <2>2. TypeOK'
    BY <1>0, <2>1 DEF TypeOK
  <2>3. lo = hi /\ len # 0 /\ lo <= count
    BY <1>0, <1>1, <2>1 DEF SearchInv
  <2>4. SearchInv'
    BY <1>0, <1>1, <1>2, <2>1, <2>3 DEF SearchInv, EndOf
  <2> QED
    BY <1>0, <2>1, <2>2, <2>4 DEF IntervalsInv, Canonical, EndOf
<1>7. CASE SearchFirst
  <2> DEFINE mid == (lo + hi) \div 2
  <2>1. /\ pc = "first" /\ lo < hi
        /\ IF EndOf(mid) >= s THEN hi' = mid /\ UNCHANGED lo
                          ELSE lo' = mid + 1 /\ UNCHANGED hi
        /\ UNCHANGED <<array, pc, s, len, mlo, ret>>
    BY <1>7 DEF SearchFirst, Turn
  <2>2. mid \in Nat /\ lo <= mid /\ mid < hi /\ mid \in 0 .. count - 1
    <3>1. hi <= count
      BY <1>0, <2>1 DEF SearchInv
    <3>2. mid \in Nat /\ lo <= mid /\ mid < hi
      BY <1>1, <2>1, Midpoint
    <3> HIDE DEF mid
    <3> QED
      BY <1>1, <1>2, <3>1, <3>2
  <2> HIDE DEF mid
  <2>3. UNCHANGED <<starts, lens, count, capacity>>
    BY <2>1 DEF array
  <2>4. CASE EndOf(mid) >= s
    <3>1. \A i \in mid .. count - 1 : EndOf(i) >= s
      <4> SUFFICES ASSUME NEW i \in mid .. count - 1 PROVE EndOf(i) >= s
        OBVIOUS
      <4>1. i \in 0 .. count - 1 /\ (i = mid \/ mid < i)
        BY <1>2, <2>2
      <4> QED
        BY <1>1, <1>2, <2>2, <2>4, <4>1
    <3>2. hi' = mid /\ lo' = lo
      BY <2>1, <2>4
    <3>3. TypeOK'
      BY <1>0, <2>1, <2>2, <2>3, <3>2 DEF TypeOK
    <3>4. SearchInv'
      BY <1>0, <1>1, <1>2, <2>1, <2>2, <2>3, <3>1, <3>2 DEF SearchInv, EndOf
    <3> QED
      BY <1>0, <2>3, <3>3, <3>4 DEF IntervalsInv, Canonical, EndOf
  <2>5. CASE ~(EndOf(mid) >= s)
    <3>1. \A i \in 0 .. mid : EndOf(i) < s
      <4> SUFFICES ASSUME NEW i \in 0 .. mid PROVE EndOf(i) < s
        OBVIOUS
      <4>1. i \in 0 .. count - 1 /\ (i = mid \/ i < mid)
        BY <1>2, <2>2
      <4> QED
        BY <1>1, <1>2, <2>2, <2>5, <4>1
    <3>2. hi' = hi /\ lo' = mid + 1
      BY <2>1, <2>5
    <3>3. TypeOK'
      BY <1>0, <2>1, <2>2, <2>3, <3>2 DEF TypeOK
    <3>4. lo' <= hi' /\ 0 .. lo' - 1 = 0 .. mid /\ mlo .. lo' - 1 = mlo .. mid
      BY <1>1, <2>2, <3>2
    <3>5. SearchInv'
      BY <1>0, <1>1, <1>2, <2>1, <2>2, <2>3, <3>1, <3>2, <3>4 DEF SearchInv, EndOf
    <3> QED
      BY <1>0, <2>3, <3>3, <3>5 DEF IntervalsInv, Canonical, EndOf
  <2> QED
    BY <2>4, <2>5
<1>8. CASE SearchLast
  <2> DEFINE mid == (lo + hi) \div 2
  <2>1. /\ pc = "last" /\ lo < hi
        /\ IF starts[mid] > s + len THEN hi' = mid /\ UNCHANGED lo
                          ELSE lo' = mid + 1 /\ UNCHANGED hi
        /\ UNCHANGED <<array, pc, s, len, mlo, ret>>
    BY <1>8 DEF SearchLast, Turn
  <2>2. mid \in Nat /\ lo <= mid /\ mid < hi /\ mid \in 0 .. count - 1
    <3>1. hi <= count
      BY <1>0, <2>1 DEF SearchInv
    <3>2. mid \in Nat /\ lo <= mid /\ mid < hi
      BY <1>1, <2>1, Midpoint
    <3> HIDE DEF mid
    <3> QED
      BY <1>1, <1>2, <3>1, <3>2
  <2> HIDE DEF mid
  <2>3. UNCHANGED <<starts, lens, count, capacity>>
    BY <2>1 DEF array
  <2>4. CASE starts[mid] > s + len
    <3>1. \A i \in mid .. count - 1 : starts[i] > s + len
      <4> SUFFICES ASSUME NEW i \in mid .. count - 1 PROVE starts[i] > s + len
        OBVIOUS
      <4>1. i \in 0 .. count - 1 /\ (i = mid \/ mid < i)
        BY <1>2, <2>2
      <4> QED
        BY <1>1, <1>2, <2>2, <2>4, <4>1
    <3>2. hi' = mid /\ lo' = lo
      BY <2>1, <2>4
    <3>3. TypeOK'
      BY <1>0, <2>1, <2>2, <2>3, <3>2 DEF TypeOK
    <3>4. SearchInv'
      BY <1>0, <1>1, <1>2, <2>1, <2>2, <2>3, <3>1, <3>2 DEF SearchInv, EndOf
    <3> QED
      BY <1>0, <2>3, <3>3, <3>4 DEF IntervalsInv, Canonical, EndOf
  <2>5. CASE ~(starts[mid] > s + len)
    <3>1. \A i \in 0 .. mid : starts[i] <= s + len
      <4> SUFFICES ASSUME NEW i \in 0 .. mid PROVE starts[i] <= s + len
        OBVIOUS
      <4>1. i \in 0 .. count - 1 /\ (i = mid \/ i < mid)
        BY <1>2, <2>2
      <4> QED
        BY <1>1, <1>2, <2>2, <2>5, <4>1
    <3>2. hi' = hi /\ lo' = mid + 1
      BY <2>1, <2>5
    <3>3. TypeOK'
      BY <1>0, <2>1, <2>2, <2>3, <3>2 DEF TypeOK
    <3>4. lo' <= hi' /\ 0 .. lo' - 1 = 0 .. mid /\ mlo .. lo' - 1 = mlo .. mid
      BY <1>1, <2>2, <3>2
    <3>5. SearchInv'
      BY <1>0, <1>1, <1>2, <2>1, <2>2, <2>3, <3>1, <3>2, <3>4 DEF SearchInv, EndOf
    <3> QED
      BY <1>0, <2>3, <3>3, <3>5 DEF IntervalsInv, Canonical, EndOf
  <2> QED
    BY <2>4, <2>5
<1>9. CASE SearchFind
  <2> DEFINE mid == (lo + hi) \div 2
  <2>1. /\ pc = "find" /\ lo < hi
        /\ IF EndOf(mid) > s THEN hi' = mid /\ UNCHANGED lo
                          ELSE lo' = mid + 1 /\ UNCHANGED hi
        /\ UNCHANGED <<array, pc, s, len, mlo, ret>>
    BY <1>9 DEF SearchFind, Turn
  <2>2. mid \in Nat /\ lo <= mid /\ mid < hi /\ mid \in 0 .. count - 1
    <3>1. hi <= count
      BY <1>0, <2>1 DEF SearchInv
    <3>2. mid \in Nat /\ lo <= mid /\ mid < hi
      BY <1>1, <2>1, Midpoint
    <3> HIDE DEF mid
    <3> QED
      BY <1>1, <1>2, <3>1, <3>2
  <2> HIDE DEF mid
  <2>3. UNCHANGED <<starts, lens, count, capacity>>
    BY <2>1 DEF array
  <2>4. CASE EndOf(mid) > s
    <3>1. \A i \in mid .. count - 1 : EndOf(i) > s
      <4> SUFFICES ASSUME NEW i \in mid .. count - 1 PROVE EndOf(i) > s
        OBVIOUS
      <4>1. i \in 0 .. count - 1 /\ (i = mid \/ mid < i)
        BY <1>2, <2>2
      <4> QED
        BY <1>1, <1>2, <2>2, <2>4, <4>1
    <3>2. hi' = mid /\ lo' = lo
      BY <2>1, <2>4
    <3>3. TypeOK'
      BY <1>0, <2>1, <2>2, <2>3, <3>2 DEF TypeOK
    <3>4. SearchInv'
      BY <1>0, <1>1, <1>2, <2>1, <2>2, <2>3, <3>1, <3>2 DEF SearchInv, EndOf
    <3> QED
      BY <1>0, <2>3, <3>3, <3>4 DEF IntervalsInv, Canonical, EndOf
  <2>5. CASE ~(EndOf(mid) > s)
    <3>1. \A i \in 0 .. mid : EndOf(i) <= s
      <4> SUFFICES ASSUME NEW i \in 0 .. mid PROVE EndOf(i) <= s
        OBVIOUS
      <4>1. i \in 0 .. count - 1 /\ (i = mid \/ i < mid)
        BY <1>2, <2>2
      <4> QED
        BY <1>1, <1>2, <2>2, <2>5, <4>1
    <3>2. hi' = hi /\ lo' = mid + 1
      BY <2>1, <2>5
    <3>3. TypeOK'
      BY <1>0, <2>1, <2>2, <2>3, <3>2 DEF TypeOK
    <3>4. lo' <= hi' /\ 0 .. lo' - 1 = 0 .. mid /\ mlo .. lo' - 1 = mlo .. mid
      BY <1>1, <2>2, <3>2
    <3>5. SearchInv'
      BY <1>0, <1>1, <1>2, <2>1, <2>2, <2>3, <3>1, <3>2, <3>4 DEF SearchInv, EndOf
    <3> QED
      BY <1>0, <2>3, <3>3, <3>5 DEF IntervalsInv, Canonical, EndOf
  <2> QED
    BY <2>4, <2>5
<1>10. CASE Merge
  <2>1. /\ pc' = "idle" /\ ret' = 0 /\ capacity' = capacity
        /\ s' = 0 /\ len' = 0 /\ lo' = 0 /\ hi' = 0 /\ mlo' = 0
    BY <1>10 DEF Merge, Return
  <2>2. count' <= capacity'
    <3>1. count \in Nat /\ count' \in Nat /\ capacity \in Nat /\ count <= capacity
      BY <1>0, <1>10, MergeStep DEF TypeOK
    <3>2. count' <= count
      BY <1>10, MergeStep
    <3> QED
      BY <2>1, <3>1, <3>2
  <2>3. TypeOK'
    BY <1>0, <1>10, <2>1, <2>2, MergeStep DEF TypeOK
  <2>4. SearchInv'
    BY <2>1 DEF SearchInv
  <2> QED
    BY <1>10, <2>3, <2>4, MergeStep DEF IntervalsInv
<1>11. CASE Insert
  <2>1. /\ pc' = "idle" /\ ret' = 0
        /\ s' = 0 /\ len' = 0 /\ lo' = 0 /\ hi' = 0 /\ mlo' = 0
    BY <1>11 DEF Insert, Return
  <2>2. TypeOK'
    BY <1>11, <2>1, InsertStep DEF TypeOK
  <2>3. SearchInv'
    BY <2>1 DEF SearchInv
  <2> QED
    BY <1>11, <2>2, <2>3, InsertStep DEF IntervalsInv
<1>12. CASE UNCHANGED vars
  BY <1>0, <1>12 DEF vars, array, IntervalsInv, TypeOK, Canonical, SearchInv, EndOf
<1> QED
  BY <1>3, <1>4, <1>5, <1>6, <1>7, <1>8, <1>9, <1>10, <1>11, <1>12
     DEF Next, Working

\* Indices, counts and capacities stay within their types: no interval is
\* ever stored beyond the allocated arrays.
THEOREM TypeCorrect == Spec => []TypeOK
<1>1. IntervalsInv => TypeOK
  BY DEF IntervalsInv
<1> QED
  BY <1>1, InitInv, NextInv, PTL DEF Spec

\* The array is sorted and merged after every call, refused ones included.
THEOREM CanonicalCorrect == Spec => []Canonical
<1>1. IntervalsInv => Canonical
  BY DEF IntervalsInv
<1> QED
  BY <1>1, InitInv, NextInv, PTL DEF Spec

-----------------------------------------------------------------------------
(* intervals_stats() *)

\* The loop of intervals_stats(), unrolled.
LEMMA TotalLoop ==
  ASSUME NEW N \in Nat, NEW l \in [0 .. N - 1 -> Nat]
  PROVE  LET t == CHOOSE f : f = [n \in 0 .. N |-> IF n = 0 THEN 0 ELSE f[n - 1] + l[n - 1]]
         IN t[0] = 0 /\ \A n \in 1 .. N : t[n] = t[n - 1] + l[n - 1]
<1> DEFINE Sums(f) == f = [n \in 0 .. N |-> IF n = 0 THEN 0 ELSE f[n - 1] + l[n - 1]]
           t == CHOOSE f : Sums(f)
           F == [x \in (1 .. N) \X Nat |-> x[2] + l[x[1] - 1]]
<1>1. F \in [(1 .. N) \X Nat -> Nat]
  OBVIOUS
<1>2. \A n \in 1 .. N, x \in Nat : F[<<n, x>>] = x + l[n - 1]
  OBVIOUS
<1> HIDE DEF F
<1>3. PICK f \in [0 .. N -> Nat] : f[0] = 0 /\ \A n \in 1 .. N : f[n] = F[<<n, f[n - 1]>>]
  <2> DEFINE V == Nat
             v == 0
  <2>1. Loop(N, V, v, F)
    BY <1>1 DEF Loop
  <2> HIDE DEF V, v
  <2>2. \E f : Run(N, V, v, F, f)
    BY <2>1, LoopSolvable
  <2> QED
    BY <2>2 DEF V, v, Run
<1>4. \A n \in 0 .. N : f[n] = IF n = 0 THEN 0 ELSE f[n - 1] + l[n - 1]
  <2>1. ASSUME NEW n \in 0 .. N, n # 0
        PROVE  f[n] = f[n - 1] + l[n - 1]
    <3>1. n \in 1 .. N /\ n - 1 \in 0 .. N
      BY <2>1
    <3>2. f[n - 1] \in Nat
      BY <3>1
    <3> QED
      BY <1>2, <1>3, <3>1, <3>2
  <2> QED
    BY <1>3, <2>1
<1>5. Sums(f)
  BY <1>3, <1>4
<1> HIDE DEF Sums
<1>6. Sums(t)
  BY <1>5
<1>7. t = [n \in 0 .. N |-> IF n = 0 THEN 0 ELSE t[n - 1] + l[n - 1]]
  BY <1>6 DEF Sums
<1> HIDE DEF t
<1>8. t[0] = 0 /\ \A n \in 1 .. N : t[n] = t[n - 1] + l[n - 1]
  BY <1>7
<1> QED
  BY <1>8 DEF t, Sums

\* N intervals that lie apart, from a[i] on and l[i] long, and the sums t of the lengths.
Summed(N, a, l, t) ==
    /\ N \in Nat /\ a \in [0 .. N - 1 -> Nat] /\ l \in [0 .. N - 1 -> Nat \ {0}]
    /\ \A i, j \in 0 .. N - 1 : i < j => a[i] + l[i] < a[j]
    /\ t[0] = 0 /\ \A n \in 1 .. N : t[n] = t[n - 1] + l[n - 1]

BlocksOf(N, a, l) == UNION {a[i] .. a[i] + l[i] - 1 : i \in 0 .. N - 1}

\* The lengths add up to the number of their blocks.
LEMMA SumExact ==
  ASSUME NEW N, NEW a, NEW l, NEW t, Summed(N, a, l, t)
  PROVE  t[N] = Cardinality(BlocksOf(N, a, l))
<1> USE DEF Summed
<1> DEFINE B(i) == a[i] .. a[i] + l[i] - 1
           U(n) == UNION {B(i) : i \in 0 .. n - 1}
           S == {n \in 0 .. N : IsFiniteSet(U(n)) /\ t[n] \in Nat /\ Cardinality(U(n)) = t[n]}
<1>1. 0 \in S
  <2>1. U(0) = {}
    OBVIOUS
  <2>2. IsFiniteSet(U(0)) /\ Cardinality(U(0)) = 0
    BY <2>1, FS_EmptySet
  <2> HIDE DEF U
  <2> QED
    BY <2>2
<1>2. ASSUME NEW n \in 1 .. N, n - 1 \in S
      PROVE  n \in S
  <2>1. n - 1 \in 0 .. N - 1 /\ a[n - 1] \in Nat /\ l[n - 1] \in Nat \ {0}
    OBVIOUS
  <2>2. U(n) = U(n - 1) \cup B(n - 1)
    <3>1. 0 .. n - 1 = (0 .. (n - 1) - 1) \cup {n - 1}
      OBVIOUS
    <3> HIDE DEF B
    <3> QED
      BY <3>1
  <2>3. U(n - 1) \cap B(n - 1) = {}
    <3>1. SUFFICES ASSUME NEW i \in 0 .. (n - 1) - 1, NEW b \in B(i), b \in B(n - 1)
                   PROVE  FALSE
      <4> HIDE DEF B
      <4> QED
        OBVIOUS
    <3>2. i \in 0 .. N - 1 /\ i < n - 1
      OBVIOUS
    <3>3. a[i] + l[i] < a[n - 1] /\ a[i] \in Nat /\ l[i] \in Nat
      BY <2>1, <3>2
    <3> QED
      BY <2>1, <3>1, <3>3
  <2>4. IsFiniteSet(B(n - 1)) /\ Cardinality(B(n - 1)) = l[n - 1]
    <3> DEFINE least == a[n - 1]
               most == a[n - 1] + l[n - 1] - 1
    <3>1. least \in Int /\ most \in Int /\ least <= most /\ most - least + 1 = l[n - 1]
      BY <2>1
    <3> HIDE DEF least, most
    <3>2. IsFiniteSet(least .. most) /\ Cardinality(least .. most) = most - least + 1
      <4>1. IsFiniteSet(least .. most) /\ Cardinality(least .. most) = IF least > most THEN 0 ELSE most - least + 1
        BY <3>1, FS_Interval
      <4>2. ~(least > most)
        BY <3>1
      <4> QED
        BY <4>1, <4>2
    <3> QED
      BY <3>1, <3>2 DEF least, most
  <2>5. IsFiniteSet(U(n - 1)) /\ t[n - 1] \in Nat /\ Cardinality(U(n - 1)) = t[n - 1]
    BY <1>2
  <2> DEFINE X == U(n - 1)
             Y == B(n - 1)
  <2>6. X \cap Y = {} /\ U(n) = X \cup Y /\ IsFiniteSet(X) /\ IsFiniteSet(Y)
    BY <2>2, <2>3, <2>4, <2>5
  <2>7. Cardinality(X) = t[n - 1] /\ Cardinality(Y) = l[n - 1]
    BY <2>4, <2>5
  <2> HIDE DEF X, Y
  <2>8. IsFiniteSet(X \cup Y) /\ Cardinality(X \cup Y) = t[n - 1] + l[n - 1]
    <3>1. IsFiniteSet(X \cup Y)
      BY <2>6, FS_Union
    <3>2. Cardinality(X \cup Y) = Cardinality(X) + Cardinality(Y) - Cardinality(X \cap Y)
      BY <2>6, FS_Union
    <3>3. Cardinality(X \cap Y) = 0
      BY <2>6, FS_EmptySet
    <3> QED
      BY <2>1, <2>5, <2>7, <3>1, <3>2, <3>3
  <2> HIDE DEF U
  <2>9. n \in 0 .. N /\ t[n] = t[n - 1] + l[n - 1]
    OBVIOUS
  <2>10. t[n] \in Nat
    BY <2>1, <2>5, <2>9
  <2>11. IsFiniteSet(U(n)) /\ Cardinality(U(n)) = t[n]
    BY <2>6, <2>8, <2>9
  <2> QED
    BY <2>9, <2>10, <2>11
<1>3. N \in S
  <2> HIDE DEF S
  <2>1. \A n \in 0 .. N : n \in S
    BY <1>1, <1>2, Induct
  <2> QED
    BY <2>1
<1> QED
  BY <1>3 DEF BlocksOf

\* The number of blocks that intervals_stats() reports is exact after every history of
\* insertions: nothing is counted twice.
THEOREM StatsExactCorrect == Spec => []StatsExact
<1>1. IntervalsInv => StatsExact
  <2> SUFFICES ASSUME IntervalsInv
               PROVE  StatsExact
    OBVIOUS
  <2>1. /\ count \in Nat /\ starts \in [0 .. count - 1 -> Nat] /\ lens \in [0 .. count - 1 -> Nat \ {0}]
        /\ \A i, j \in 0 .. count - 1 : i < j => starts[i] + lens[i] < starts[j]
    BY DEF IntervalsInv, TypeOK, Canonical, EndOf
  <2> DEFINE t == CHOOSE f : f = [n \in 0 .. count |-> IF n = 0 THEN 0 ELSE f[n - 1] + lens[n - 1]]
  <2>2. Total = t[count]
    BY DEF Total
  <2>3. t[0] = 0 /\ \A n \in 1 .. count : t[n] = t[n - 1] + lens[n - 1]
    <3>1. lens \in [0 .. count - 1 -> Nat]
      BY <2>1
    <3> QED
      BY <2>1, <3>1, TotalLoop
  <2> HIDE DEF t
  <2>4. Summed(count, starts, lens, t)
    BY <2>1, <2>3 DEF Summed
  <2>5. t[count] = Cardinality(BlocksOf(count, starts, lens))
    BY <2>4, SumExact
  <2>6. Covered = BlocksOf(count, starts, lens)
    <3>1. \A i \in 0 .. count - 1 : Interval(i) = starts[i] .. starts[i] + lens[i] - 1
      BY <2>1 DEF Interval, EndOf
    <3>2. Covered \subseteq BlocksOf(count, starts, lens)
      BY <3>1 DEF Covered, BlocksOf
    <3>3. BlocksOf(count, starts, lens) \subseteq Covered
      BY <3>1 DEF Covered, BlocksOf
    <3> QED
      BY <3>2, <3>3
  <2> QED
    BY <2>2, <2>5, <2>6 DEF StatsExact
<1> QED
  BY <1>1, InitInv, NextInv, PTL DEF Spec

-----------------------------------------------------------------------------
(* The array implements a set of blocks. *)

\* intervals_query() looks at one interval only; in a canonical array that is
\* enough to tell disjoint, contained and partial apart.
LEMMA AnswerExact ==
  ASSUME IntervalsInv, Answer
  PROVE  ret' = Abstract!Relation(s .. s + len - 1)
<1>0. TypeOK /\ Canonical /\ SearchInv
  BY DEF IntervalsInv
<1> DEFINE e == s + len
           range == s .. s + len - 1
<1>1. /\ s \in Nat /\ len \in Nat /\ len # 0 /\ lo \in Nat /\ hi \in Nat
      /\ lo = hi /\ hi <= count /\ e \in Nat /\ s < e
  BY <1>0 DEF Answer, TypeOK, SearchInv
<1>2. /\ \A i \in 0 .. lo - 1 : EndOf(i) <= s
      /\ \A i \in lo .. count - 1 : EndOf(i) > s
  BY <1>0, <1>1 DEF Answer, SearchInv
<1>3. /\ count \in Nat
      /\ \A i \in 0 .. count - 1 :
            starts[i] \in Nat /\ EndOf(i) \in Nat /\ starts[i] < EndOf(i)
      /\ \A i, j \in 0 .. count - 1 : i < j => EndOf(i) < starts[j]
  BY <1>0, Ordering
<1>4. ret' = IF lo >= count THEN 0
             ELSE IF starts[lo] <= s /\ EndOf(lo) >= e THEN 1
             ELSE IF starts[lo] < e THEN 2 ELSE 0
  BY DEF Answer, Return
<1>5. \A b : b \in range <=> b \in Int /\ s <= b /\ b < e
  BY <1>1
<1>6. \A b : b \in Covered <=>
         b \in Int /\ \E i \in 0 .. count - 1 : starts[i] <= b /\ b < EndOf(i)
  <2>1. \A i \in 0 .. count - 1 : \A b :
           b \in Interval(i) <=> b \in Int /\ starts[i] <= b /\ b < EndOf(i)
    BY <1>3 DEF Interval
  <2> QED
    BY <2>1 DEF Covered
<1>7. s \in range
  BY <1>1, <1>5
<1> HIDE DEF e, range
<1>8. CASE lo >= count \/ starts[lo] >= e
  <2>1. \A i \in 0 .. count - 1 : EndOf(i) <= s \/ starts[i] >= e
    <3> SUFFICES ASSUME NEW i \in 0 .. count - 1, i >= lo PROVE starts[i] >= e
      BY <1>1, <1>2
    <3>1. lo \in 0 .. count - 1 /\ starts[lo] >= e
      BY <1>1, <1>3, <1>8
    <3> QED
      BY <1>1, <1>3, <3>1
  <2>2. range \cap Covered = {}
    <3> SUFFICES ASSUME NEW b, b \in range, b \in Covered PROVE FALSE
      OBVIOUS
    <3>1. b \in Int /\ s <= b /\ b < e
      BY <1>5
    <3>2. PICK i \in 0 .. count - 1 : starts[i] <= b /\ b < EndOf(i)
      BY <1>6
    <3> QED
      BY <1>1, <1>3, <2>1, <3>1, <3>2
  <2>3. ret' = 0
    <3>1. CASE lo >= count
      BY <1>4, <3>1
    <3>2. CASE ~(lo >= count)
      <4>1. lo \in 0 .. count - 1
        BY <1>1, <1>3, <3>2
      <4>2. starts[lo] >= e /\ starts[lo] \in Nat
        BY <1>3, <1>8, <3>2, <4>1
      <4>3. ~(starts[lo] <= s) /\ ~(starts[lo] < e)
        BY <1>1, <4>2
      <4> QED
        BY <1>4, <4>3
    <3> QED
      BY <3>1, <3>2
  <2> QED
    BY <2>2, <2>3 DEF Abstract!Relation, range
<1>9. CASE lo < count /\ starts[lo] <= s /\ EndOf(lo) >= e
  <2>1. lo \in 0 .. count - 1
    BY <1>1, <1>3, <1>9
  <2>2. range \subseteq Covered
    <3> SUFFICES ASSUME NEW b, b \in range PROVE b \in Covered
      OBVIOUS
    <3>1. b \in Int /\ s <= b /\ b < e
      BY <1>5
    <3>2. starts[lo] <= b /\ b < EndOf(lo)
      BY <1>1, <1>3, <1>9, <2>1, <3>1
    <3> QED
      BY <1>6, <2>1, <3>1, <3>2
  <2>3. range \cap Covered # {}
    BY <1>7, <2>2
  <2>4. ret' = 1
    BY <1>1, <1>3, <1>4, <1>9
  <2> QED
    BY <2>2, <2>3, <2>4 DEF Abstract!Relation, range
<1>10. CASE lo < count /\ starts[lo] < e /\ ~(starts[lo] <= s /\ EndOf(lo) >= e)
  <2>1. lo \in 0 .. count - 1 /\ EndOf(lo) > s
    BY <1>1, <1>2, <1>3, <1>10
  <2>2. range \cap Covered # {}
    <3> DEFINE b == IF starts[lo] > s THEN starts[lo] ELSE s
    <3>1. b \in Int /\ s <= b /\ b < e /\ starts[lo] <= b /\ b < EndOf(lo)
      BY <1>1, <1>3, <1>10, <2>1
    <3> HIDE DEF b
    <3>2. b \in range /\ b \in Covered
      BY <1>5, <1>6, <2>1, <3>1
    <3> QED
      BY <3>2
  <2>3. ~(range \subseteq Covered)
    <3>1. CASE starts[lo] > s
      <4>1. s \notin Covered
        <5> SUFFICES ASSUME NEW i \in 0 .. count - 1, starts[i] <= s, s < EndOf(i)
                     PROVE  FALSE
          BY <1>6
        <5>1. CASE i < lo
          BY <1>1, <1>2, <1>3, <5>1
        <5>2. CASE i >= lo
          BY <1>1, <1>3, <2>1, <3>1, <5>2
        <5> QED
          BY <1>1, <5>1, <5>2
      <4> QED
        BY <1>7, <4>1
    <3>2. CASE EndOf(lo) < e
      <4>1. EndOf(lo) \in range
        BY <1>1, <1>3, <1>5, <2>1, <3>2
      <4>2. EndOf(lo) \notin Covered
        <5> SUFFICES ASSUME NEW i \in 0 .. count - 1,
                            starts[i] <= EndOf(lo), EndOf(lo) < EndOf(i)
                     PROVE  FALSE
          BY <1>6
        <5>1. CASE i < lo
          BY <1>3, <2>1, <5>1
        <5>2. CASE i = lo
          BY <1>3, <2>1, <5>2
        <5>3. CASE i > lo
          BY <1>3, <2>1, <5>3
        <5> QED
          BY <1>1, <5>1, <5>2, <5>3
      <4> QED
        BY <4>1, <4>2
    <3> QED
      BY <1>1, <1>3, <1>10, <2>1, <3>1, <3>2
  <2>4. ret' = 2
    BY <1>1, <1>3, <1>4, <1>10
  <2> QED
    BY <2>2, <2>3, <2>4 DEF Abstract!Relation, range
<1> QED
  BY <1>1, <1>3, <1>8, <1>9, <1>10

LEMMA SetInit == Init => Abstract!Init
<1> SUFFICES ASSUME Init PROVE Abstract!Init
  OBVIOUS
<1>1. 0 .. count - 1 = {}
  BY DEF Init
<1>2. Covered = {}
  BY <1>1 DEF Covered
<1>3. ServedCall = Abstract!NoCall /\ ret = 0
  BY DEF Init, ServedCall, Abstract!NoCall
<1> QED
  BY <1>2, <1>3 DEF Abstract!Init

LEMMA SetStep ==
  ASSUME IntervalsInv, [Next]_vars PROVE [Abstract!Next]_(Abstract!vars)
<1>0. TypeOK /\ Canonical /\ SearchInv
  BY DEF IntervalsInv
<1>1. UNCHANGED array => Covered' = Covered
  BY DEF array, Covered, Interval, EndOf
<1>2. pc' = "idle" /\ s' = 0 /\ len' = 0 => ServedCall' = Abstract!NoCall
  BY DEF ServedCall, Abstract!NoCall
<1>3. ASSUME NEW op \in {"add", "query"}, NEW r \in Requests, Enter(op, r)
      PROVE  Abstract!Next
  <2>1. ServedCall = Abstract!NoCall
    BY <1>0, <1>3 DEF Enter, SearchInv, ServedCall, Abstract!NoCall
  <2>2. ServedCall' = [op |-> op, s |-> r[1], len |-> r[2]]
    BY <1>3 DEF Enter, ServedCall
  <2>3. Covered' = Covered /\ ret' = ret
    BY <1>1, <1>3 DEF Enter
  <2>4. Abstract!Call(op, r[1], r[2])
    BY <2>1, <2>2, <2>3 DEF Abstract!Call
  <2> QED
    BY <2>4 DEF Abstract!Next
<1>4. CASE EmptyRange
  <2>1. /\ Covered' = Covered /\ ServedCall' = Abstract!NoCall /\ ret' = 0
        /\ len = 0 /\ pc \in {"add", "query"}
    BY <1>1, <1>2, <1>4 DEF EmptyRange, Return
  <2>2. s .. s + len - 1 = {}
    BY <1>0, <2>1 DEF TypeOK
  <2>3. Abstract!Blocks(ServedCall.s, ServedCall.len) = {}
    BY <2>2 DEF ServedCall, Abstract!Blocks
  <2>4. CASE pc = "add"
    <3>1. ServedCall.op = "add"
      BY <2>4 DEF ServedCall
    <3>2. Abstract!Add
      BY <2>1, <2>3, <3>1 DEF Abstract!Add
    <3> QED
      BY <3>2 DEF Abstract!Next
  <2>5. CASE pc = "query"
    <3>1. ServedCall.op = "query"
      BY <2>5 DEF ServedCall
    <3>2. Abstract!Query
      BY <2>1, <2>3, <3>1 DEF Abstract!Query, Abstract!Relation
    <3> QED
      BY <3>2 DEF Abstract!Next
  <2> QED
    BY <2>1, <2>4, <2>5
<1>5. CASE Merge \/ Insert
  <2>1. /\ Covered' = Covered \cup (s .. s + len - 1)
        /\ pc = "last" /\ ret' = 0 /\ ServedCall' = Abstract!NoCall
    BY <1>2, <1>5, MergeStep, InsertStep DEF Merge, Insert, Return
  <2>2. ServedCall.op = "add" /\ ServedCall.s = s /\ ServedCall.len = len
    BY <2>1 DEF ServedCall
  <2>3. Abstract!Add
    BY <2>1, <2>2 DEF Abstract!Add, Abstract!Blocks
  <2> QED
    BY <2>3 DEF Abstract!Next
<1>6. CASE Refuse
  <2>1. /\ Covered' = Covered /\ pc = "last" /\ ret' = -1
        /\ ServedCall' = Abstract!NoCall
    BY <1>1, <1>2, <1>6 DEF Refuse, Return
  <2>2. ServedCall.op = "add"
    BY <2>1 DEF ServedCall
  <2>3. Abstract!Refuse
    BY <2>1, <2>2 DEF Abstract!Refuse
  <2> QED
    BY <2>3 DEF Abstract!Next
<1>7. CASE Answer
  <2>1. /\ Covered' = Covered /\ pc = "find" /\ ServedCall' = Abstract!NoCall
        /\ ret' = Abstract!Relation(s .. s + len - 1)
    BY <1>1, <1>2, <1>7, AnswerExact DEF Answer, Return
  <2>2. ServedCall.op = "query" /\ ServedCall.s = s /\ ServedCall.len = len
    BY <2>1 DEF ServedCall
  <2>3. Abstract!Query
    BY <2>1, <2>2 DEF Abstract!Query, Abstract!Blocks
  <2> QED
    BY <2>3 DEF Abstract!Next
<1>8. CASE Begin \/ SearchFirst \/ FoundFirst \/ SearchLast \/ SearchFind
  <2>1. /\ UNCHANGED array /\ UNCHANGED <<s, len, ret>>
        /\ \/ pc' = pc \/ (pc = "add" /\ pc' = "first")
           \/ (pc = "query" /\ pc' = "find") \/ (pc = "first" /\ pc' = "last")
    BY <1>8 DEF Begin, SearchFirst, FoundFirst, SearchLast, SearchFind, Turn
  <2>2. ServedCall' = ServedCall
    BY <2>1 DEF ServedCall
  <2> QED
    BY <1>1, <2>1, <2>2 DEF Abstract!vars
<1>9. CASE UNCHANGED vars
  <2>1. ServedCall' = ServedCall /\ UNCHANGED array /\ ret' = ret
    BY <1>9 DEF vars, array, ServedCall
  <2> QED
    BY <1>1, <2>1 DEF Abstract!vars
<1> QED
  BY <1>3, <1>4, <1>5, <1>6, <1>7, <1>8, <1>9 DEF Next, Working

\* For every device and every history of calls, the sorted array of intervals
\* behaves as the set of blocks recorded: the dedup decisions taken on its
\* answers are the ones the set itself would give.
THEOREM IntervalsAreABlockSet == Spec => IsBlockSet
<1>1. Spec => []IntervalsInv
  BY InitInv, NextInv, PTL DEF Spec
<1> QED
  BY <1>1, SetInit, SetStep, PTL DEF Spec, IsBlockSet, Abstract!Spec

-----------------------------------------------------------------------------
(* Calls get on. *)

\* One turn of a search leaves at least an index of its range behind.
LEMMA TurnShrinks ==
  ASSUME lo \in Nat, hi \in Nat, lo < hi,
         \/ hi' = (lo + hi) \div 2 /\ lo' = lo
         \/ lo' = (lo + hi) \div 2 + 1 /\ hi' = hi
  PROVE  lo' \in Nat /\ hi' \in Nat /\ lo' <= hi' /\ hi' - lo' < hi - lo
<1> DEFINE mid == (lo + hi) \div 2
<1>1. mid \in Nat /\ lo <= mid /\ mid < hi
  BY Midpoint
<1>2. \/ hi' = mid /\ lo' = lo
      \/ lo' = mid + 1 /\ hi' = hi
  OBVIOUS
<1> HIDE DEF mid
<1> QED
  BY <1>1, <1>2

LEMMA EffortStep ==
  ASSUME IntervalsInv, [Next]_vars, pc # "idle", vars' # vars
  PROVE  Effort' \in 0 .. Effort - 1
<1>0. /\ lo \in Nat /\ hi \in Nat /\ count \in Nat
      /\ pc \in {"add", "query", "first", "last", "find"}
      /\ pc \in {"first", "last", "find"} => lo <= hi /\ hi <= count
  BY DEF IntervalsInv, TypeOK, SearchInv
<1>1. /\ pc \in {"last", "find"} => Effort = 1 + (hi - lo)
      /\ pc = "first" => Effort = 2 + count + (hi - lo)
      /\ pc \in {"add", "query"} => Effort = 3 + 2 * count
  BY DEF Effort
<1>2. Effort \in Nat /\ Effort > 0
  BY <1>0, <1>1
<1>3. /\ pc' = "idle" => Effort' = 0
      /\ pc' \in {"last", "find"} => Effort' = 1 + (hi' - lo')
      /\ pc' = "first" => Effort' = 2 + count' + (hi' - lo')
  BY DEF Effort
<1>4. CASE EmptyRange \/ Merge \/ Insert \/ Refuse \/ Answer
  <2>1. pc' = "idle"
    BY <1>4 DEF EmptyRange, Merge, Insert, Refuse, Answer, Return
  <2> QED
    BY <1>2, <1>3, <2>1
<1>5. CASE Begin
  BY <1>0, <1>1, <1>3, <1>5 DEF Begin, array
<1>6. CASE FoundFirst
  BY <1>0, <1>1, <1>3, <1>6 DEF FoundFirst, array
<1>7. CASE SearchFirst \/ SearchLast \/ SearchFind
  <2>1. /\ lo < hi /\ UNCHANGED <<pc, count>> /\ pc \in {"first", "last", "find"}
        /\ \/ hi' = (lo + hi) \div 2 /\ lo' = lo
           \/ lo' = (lo + hi) \div 2 + 1 /\ hi' = hi
    BY <1>7 DEF SearchFirst, SearchLast, SearchFind, Turn, array
  <2>2. lo' \in Nat /\ hi' \in Nat /\ lo' <= hi' /\ hi' - lo' < hi - lo
    BY <1>0, <2>1, TurnShrinks
  <2> QED
    BY <1>0, <1>1, <1>3, <2>1, <2>2
<1> QED
  BY <1>4, <1>5, <1>6, <1>7 DEF Next, Working, Enter

\* Every call on every array gets nearer to its return with every step it takes.
THEOREM CallsAdvanceCorrect == Spec => CallsAdvance
<1>1. Spec => []IntervalsInv
  BY InitInv, NextInv, PTL DEF Spec
<1>2. IntervalsInv /\ [Next]_vars => [pc # "idle" => Effort' \in 0 .. Effort - 1]_vars
  BY EffortStep DEF vars
<1> QED
  BY <1>1, <1>2, PTL DEF Spec, CallsAdvance
=============================================================================
