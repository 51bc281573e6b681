------------------------- MODULE RecoveredIntervals -------------------------
(***************************************************************************)
(* recovered_intervals.c: the set of physical blocks already written to    *)
(* some output file, kept as a sorted array of intervals that neither      *)
(* overlap nor touch.  The dedup decisions of the journal phase and of the *)
(* aggressive scan rest on its answers.                                    *)
(*                                                                         *)
(* One call runs at a time: intervals_add() under the write lock,          *)
(* intervals_query() under the read lock, both on the main thread.  A turn *)
(* of a binary search is a step.  Blocks are below 2^48 and lengths below  *)
(* 2^16 in the extents they come from, so the 64-bit sums do not wrap.     *)
(***************************************************************************)
EXTENDS Integers, FiniteSets

CONSTANTS Requests,        \* the ranges <<s, len>> callers ask about
          InitialCapacity  \* INITIAL_CAPACITY

ASSUME IntervalsAssumption == /\ Requests \subseteq Nat \X Nat
                              /\ InitialCapacity \in Nat \ {0}

VARIABLES starts, lens, count, capacity,   \* struct recovered_intervals
          pc, s, len, lo, hi, mlo,         \* the call in progress
          ret                              \* what the last call returned

array == <<starts, lens, count, capacity>>
vars  == <<array, pc, s, len, lo, hi, mlo, ret>>

\* End of interval i (exclusive), and the interval's blocks.
EndOf(i) == starts[i] + lens[i]
Interval(i) == starts[i] .. EndOf(i) - 1

\* The array a with [from, to) replaced by the one entry v: what the stores
\* and the memmove() of the tail do to `starts` and `lens`.
Splice(a, from, to, v) ==
    [i \in 0 .. count - (to - from) |->
        IF i < from THEN a[i] ELSE IF i = from THEN v ELSE a[i + (to - from) - 1]]

Init ==
    /\ starts = [i \in {} |-> 0] /\ lens = [i \in {} |-> 0]
    /\ count = 0 /\ capacity = InitialCapacity
    /\ pc = "idle" /\ s = 0 /\ len = 0 /\ lo = 0 /\ hi = 0 /\ mlo = 0
    /\ ret = 0

\* Return v to the caller; the call's locals are gone.
Return(v) == /\ ret' = v /\ pc' = "idle"
             /\ s' = 0 /\ len' = 0 /\ lo' = 0 /\ hi' = 0 /\ mlo' = 0

-----------------------------------------------------------------------------
\* A caller enters intervals_add() or intervals_query().
Enter(op, r) ==
    /\ pc = "idle"
    /\ pc' = op /\ s' = r[1] /\ len' = r[2]
    /\ UNCHANGED <<array, lo, hi, mlo, ret>>

\* An empty range: return 0 without looking.
EmptyRange ==
    /\ pc \in {"add", "query"} /\ len = 0
    /\ Return(0)
    /\ UNCHANGED array

\* Start a binary search over the whole array.
Begin ==
    /\ pc \in {"add", "query"} /\ len # 0
    /\ lo' = 0 /\ hi' = count
    /\ pc' = IF pc = "add" THEN "first" ELSE "find"
    /\ UNCHANGED <<array, s, len, mlo, ret>>

\* One turn of a binary search for the first index with property P.
Turn(P(_)) ==
    /\ lo < hi
    /\ LET mid == (lo + hi) \div 2
       IN IF P(mid) THEN hi' = mid /\ UNCHANGED lo
                    ELSE lo' = mid + 1 /\ UNCHANGED hi
    /\ UNCHANGED <<array, pc, s, len, mlo, ret>>

-----------------------------------------------------------------------------
(* intervals_add() *)

\* Mutant of SearchFirst: an interval ending exactly at s is not merged.
SearchFirstStrict == pc = "first" /\ Turn(LAMBDA i : EndOf(i) > s)

\* merge_lo: the first interval that ends at or after s.
SearchFirst == pc = "first" /\ Turn(LAMBDA i : EndOf(i) >= s)

\* Mutant of FoundFirst: the second search takes in the unused entries.
FoundFirstUnused ==
    /\ pc = "first" /\ lo >= hi
    /\ mlo' = lo /\ hi' = capacity
    /\ pc' = "last"
    /\ UNCHANGED <<array, s, len, lo, ret>>

\* merge_hi is searched for from merge_lo on.
FoundFirst ==
    /\ pc = "first" /\ lo >= hi
    /\ mlo' = lo /\ hi' = count
    /\ pc' = "last"
    /\ UNCHANGED <<array, s, len, lo, ret>>

\* merge_hi: the first interval from there on that starts after s + len.
SearchLast == pc = "last" /\ Turn(LAMBDA i : starts[i] > s + len)

\* Mutant of Merge: only the first of the merged intervals is replaced.
MergeFirstOnly ==
    /\ pc = "last" /\ lo >= hi /\ lo > mlo
    /\ LET newS == IF starts[mlo] < s THEN starts[mlo] ELSE s
           newE == IF EndOf(lo - 1) > s + len THEN EndOf(lo - 1) ELSE s + len
       IN /\ starts' = [starts EXCEPT ![mlo] = newS]
          /\ lens' = [lens EXCEPT ![mlo] = newE - newS]
    /\ Return(0)
    /\ UNCHANGED <<count, capacity>>

\* Mutant of Merge: the end of the last merged interval is forgotten.
MergeShort ==
    /\ pc = "last" /\ lo >= hi /\ lo > mlo
    /\ LET newS == IF starts[mlo] < s THEN starts[mlo] ELSE s
       IN /\ starts' = Splice(starts, mlo, lo, newS)
          /\ lens' = Splice(lens, mlo, lo, s + len - newS)
    /\ count' = count - (lo - mlo) + 1
    /\ Return(0)
    /\ UNCHANGED capacity

\* The intervals mlo, ..., lo - 1 touch the new one: make them one.
Merge ==
    /\ pc = "last" /\ lo >= hi /\ lo > mlo
    /\ LET newS == IF starts[mlo] < s THEN starts[mlo] ELSE s
           newE == IF EndOf(lo - 1) > s + len THEN EndOf(lo - 1) ELSE s + len
       IN /\ starts' = Splice(starts, mlo, lo, newS)
          /\ lens' = Splice(lens, mlo, lo, newE - newS)
    /\ count' = count - (lo - mlo) + 1
    /\ Return(0)
    /\ UNCHANGED capacity

\* Mutant of Insert: a full array is not grown.
InsertUnchecked ==
    /\ pc = "last" /\ lo >= hi /\ ~(lo > mlo)
    /\ starts' = Splice(starts, mlo, mlo, s)
    /\ lens' = Splice(lens, mlo, mlo, len)
    /\ count' = count + 1
    /\ Return(0)
    /\ UNCHANGED capacity

\* Nothing touches it: insert it, growing the arrays when they are full.
Insert ==
    /\ pc = "last" /\ lo >= hi /\ ~(lo > mlo)
    /\ capacity' = IF count >= capacity THEN 2 * capacity ELSE capacity
    /\ starts' = Splice(starts, mlo, mlo, s)
    /\ lens' = Splice(lens, mlo, mlo, len)
    /\ count' = count + 1
    /\ Return(0)

\* realloc() fails: refuse the insertion.
Refuse ==
    /\ pc = "last" /\ lo >= hi /\ ~(lo > mlo)
    /\ count >= capacity
    /\ Return(-1)
    /\ UNCHANGED array

-----------------------------------------------------------------------------
(* intervals_query() *)

\* Mutant of SearchFind: the left half is searched up to and including mid.
SearchFindStuck ==
    /\ pc = "find" /\ lo < hi
    /\ LET mid == (lo + hi) \div 2
       IN IF EndOf(mid) > s THEN hi' = mid /\ UNCHANGED lo
                            ELSE lo' = mid /\ UNCHANGED hi
    /\ UNCHANGED <<array, pc, s, len, mlo, ret>>

\* find_first_ge(): the first interval that ends after s.
SearchFind == pc = "find" /\ Turn(LAMBDA i : EndOf(i) > s)

Answer ==
    /\ pc = "find" /\ lo >= hi
    /\ Return(IF lo >= count THEN 0
              ELSE IF starts[lo] <= s /\ EndOf(lo) >= s + len THEN 1
              ELSE IF starts[lo] < s + len THEN 2 ELSE 0)
    /\ UNCHANGED array

-----------------------------------------------------------------------------
Working == \/ EmptyRange \/ Begin
           \/ SearchFirst \/ FoundFirst \/ SearchLast
           \/ Merge \/ Insert \/ Refuse
           \/ SearchFind \/ Answer

Next == Working \/ \E op \in {"add", "query"}, r \in Requests : Enter(op, r)

Spec == Init /\ [][Next]_vars

\* A call, once entered, runs on.
FairSpec == Spec /\ WF_vars(Working)

-----------------------------------------------------------------------------
(* Properties. *)

\* Type invariant: indices stay in the arrays, the arrays in their capacity.
TypeOK ==
    /\ count \in Nat /\ capacity \in Nat \ {0} /\ count <= capacity
    /\ starts \in [0 .. count - 1 -> Nat]
    /\ lens \in [0 .. count - 1 -> Nat \ {0}]
    /\ pc \in {"idle", "add", "query", "first", "last", "find"}
    /\ s \in Nat /\ len \in Nat
    /\ lo \in Nat /\ hi \in Nat /\ mlo \in Nat
    /\ ret \in {-1, 0, 1, 2}

\* The array is in canonical form: ascending, and between any two intervals
\* lies a block of neither.  Both binary searches and the one-interval test
\* of intervals_query() rely on it.
Canonical == \A i, j \in 0 .. count - 1 : i < j => EndOf(i) < starts[j]

Covered == UNION {Interval(i) : i \in 0 .. count - 1}

\* intervals_stats() reports the number of distinct recorded blocks: no block
\* is counted twice, whatever the order and overlap of the insertions.
Total == LET sum[n \in 0 .. count] == IF n = 0 THEN 0 ELSE sum[n - 1] + lens[n - 1]
         IN sum[count]
StatsExact == Total = Cardinality(Covered)

\* The array behaves as the set of blocks it stands for: every insertion adds
\* exactly its range, every query tells disjoint, contained and partial apart.
ServedCall == [op |-> IF pc = "idle" THEN "none"
                      ELSE IF pc \in {"query", "find"} THEN "query" ELSE "add",
               s |-> s, len |-> len]
Abstract == INSTANCE BlockSet WITH blocks <- Covered, call <- ServedCall
IsBlockSet == Abstract!Spec

\* Every call returns: each turn of a binary search shrinks its range.
CallsReturn == []<>(pc = "idle")

\* A bound on the steps that the call in progress still takes: each of the two
\* searches of intervals_add() starts with the whole array at most.
Effort == CASE pc = "idle" -> 0
            [] pc \in {"last", "find"} -> 1 + (hi - lo)
            [] pc = "first" -> 2 + count + (hi - lo)
            [] OTHER -> 3 + 2 * count

\* Every step of a call brings it nearer to its return, so intervals_add() makes at
\* most 2 * count turns and intervals_query() no more, whatever the array holds.
CallsAdvance == [][pc # "idle" => Effort' \in 0 .. Effort - 1]_vars

-----------------------------------------------------------------------------
(* The loop invariants behind Canonical and IsBlockSet. *)

SearchInv ==
    /\ pc = "idle" => s = 0 /\ len = 0
    /\ pc \in {"first", "last", "find"} =>
          len # 0 /\ lo <= hi /\ hi <= count
    /\ pc = "first" =>
          /\ \A i \in 0 .. lo - 1 : EndOf(i) < s
          /\ \A i \in hi .. count - 1 : EndOf(i) >= s
    /\ pc = "last" =>
          /\ mlo <= lo
          /\ \A i \in 0 .. mlo - 1 : EndOf(i) < s
          /\ \A i \in mlo .. count - 1 : EndOf(i) >= s
          /\ \A i \in mlo .. lo - 1 : starts[i] <= s + len
          /\ \A i \in hi .. count - 1 : starts[i] > s + len
    /\ pc = "find" =>
          /\ \A i \in 0 .. lo - 1 : EndOf(i) <= s
          /\ \A i \in hi .. count - 1 : EndOf(i) > s

IntervalsInv == TypeOK /\ Canonical /\ SearchInv
=============================================================================
