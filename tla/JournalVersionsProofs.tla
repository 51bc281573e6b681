------------------------ MODULE JournalVersionsProofs ------------------------
(***************************************************************************)
(* Proofs about the choice of a version in the journal phase.              *)
(*                                                                         *)
(* The type invariant holds always.  The choice is only right as long as   *)
(* the version table has room for every deleted inode of the journal       *)
(* (TableFits): the run JournalVersionsFull shows what happens otherwise.  *)
(* The argument is that the table then describes the output files exactly  *)
(* (TableInv), so that comparing a copy with the table is comparing it     *)
(* with the file that it would replace.                                    *)
(***************************************************************************)
EXTENDS JournalVersions, FiniteSetTheorems, TLAPS

Recoverable == Inodes \cap Deleted

\* MAX_RECOVERED_INODES is enough for this journal.
TableFits == IsFiniteSet(Recoverable) /\ Cardinality(Recoverable) <= MaxTable

-----------------------------------------------------------------------------
(* Facts about copies and about Put. *)

\* What CopiesAssumption says of one copy.
LEMMA CopyFacts ==
    ASSUME NEW c \in Copies
    PROVE  /\ c.seq \in Nat /\ c.size \in Nat /\ c.size > 0 /\ c.live \in BOOLEAN
           /\ c.ino \in Inodes
           /\ \A x \in c.extents : x \subseteq Blocks
BY CopiesAssumption DEF Inodes, Blocks

\* Put keeps a function's type.
LEMMA PutType ==
    ASSUME NEW f, NEW k, NEW S, NEW v \in S, f \in [DOMAIN f -> S]
    PROVE  Put(f, k, v) \in [DOMAIN Put(f, k, v) -> S]
BY DEF Put

\* Larger is the maximum.
LEMMA LargerFacts ==
    ASSUME NEW a \in Nat, NEW b \in Nat
    PROVE  Larger(a, b) \in Nat /\ Larger(a, b) >= a /\ Larger(a, b) >= b
BY DEF Larger

\* Merging keeps an entry an entry.
LEMMA MergedType ==
    ASSUME NEW r \in Entries, NEW size \in Nat, NEW seq \in Nat, NEW live \in BOOLEAN
    PROVE  Merged(r, size, seq, live) \in Entries
<1>1. r.live \in BOOLEAN /\ r.size \in Nat /\ r.seq \in Nat
  BY DEF Entries
<1>2. Larger(size, r.size) \in Nat /\ Larger(seq, r.seq) \in Nat
  BY <1>1, LargerFacts
<1> QED
  BY <1>1, <1>2 DEF Merged, Entries

\* What mark_version() leaves in the table, by the two ways it writes.
LEMMA MarkFacts ==
    ASSUME TypeOK, NEW c \in Copies, c.ino \in Deleted, NEW size \in Nat,
           mark_version(c.ino, size, c.seq, c.live)
    PROVE  /\ DOMAIN table \subseteq DOMAIN table'
           /\ DOMAIN table' \subseteq DOMAIN table \cup {c.ino}
           /\ \A i \in DOMAIN table : i # c.ino => table'[i] = table[i]
           /\ c.ino \in DOMAIN table =>
                table'[c.ino] = Merged(table[c.ino], size, c.seq, c.live)
           /\ c.ino \in DOMAIN table' /\ c.ino \notin DOMAIN table =>
                table'[c.ino] = [live |-> c.live, size |-> size, seq |-> c.seq]
           /\ table' \in [DOMAIN table' -> Entries]
<1> DEFINE ino == c.ino
           e == [live |-> c.live, size |-> size, seq |-> c.seq]
           m == Merged(table[ino], size, c.seq, c.live)
<1>0. table \in [DOMAIN table -> Entries] /\ e \in Entries
  BY CopyFacts DEF TypeOK, Entries
<1>1. CASE ino \in DOMAIN table
  <2>1. table' = Put(table, ino, m)
    BY <1>1 DEF mark_version
  <2>2. m \in Entries
    BY <1>0, <1>1, MergedType, CopyFacts
  <2> HIDE DEF m, ino
  <2>3. table' \in [DOMAIN table' -> Entries]
    BY <1>0, <2>1, <2>2, PutType
  <2>4. /\ DOMAIN table' = DOMAIN table \cup {ino}
        /\ table'[ino] = m
        /\ \A i \in DOMAIN table : i # ino => table'[i] = table[i]
    BY <2>1 DEF Put
  <2>5. table'[ino] = Merged(table[ino], size, c.seq, c.live)
    BY <2>4 DEF m
  <2> QED
    BY <1>1, <2>3, <2>4, <2>5, Zenon DEF ino
<1>2. CASE ino \notin DOMAIN table /\ Cardinality(DOMAIN table) < MaxTable
  <2>1. table' = Put(table, ino, e)
    BY <1>2 DEF mark_version
  <2> HIDE DEF e, ino
  <2>2. table' \in [DOMAIN table' -> Entries]
    BY <1>0, <2>1, PutType
  <2>3. /\ DOMAIN table' = DOMAIN table \cup {ino}
        /\ table'[ino] = e
        /\ \A i \in DOMAIN table : i # ino => table'[i] = table[i]
    BY <2>1 DEF Put
  <2>4. table'[ino] = [live |-> c.live, size |-> size, seq |-> c.seq]
    BY <2>3 DEF e
  <2> QED
    BY <1>2, <2>2, <2>3, <2>4, Zenon DEF ino
<1>3. CASE ino \notin DOMAIN table /\ ~(Cardinality(DOMAIN table) < MaxTable)
  <2>1. table' = table
    BY <1>3 DEF mark_version
  <2> QED
    BY <1>0, <1>3, <2>1
<1> QED
  BY <1>1, <1>2, <1>3

\* A table that fits has room for an inode that it does not hold.
LEMMA Room ==
    ASSUME TableFits, TypeOK, NEW ino \in Recoverable, ino \notin DOMAIN table
    PROVE  Cardinality(DOMAIN table) < MaxTable
<1>1. DOMAIN table \subseteq Recoverable /\ DOMAIN table # Recoverable
  BY DEF TypeOK, Recoverable
<1>2. /\ IsFiniteSet(DOMAIN table)
      /\ Cardinality(DOMAIN table) <= Cardinality(Recoverable)
      /\ Cardinality(DOMAIN table) # Cardinality(Recoverable)
  BY <1>1, FS_Subset DEF TableFits
<1>3. Cardinality(DOMAIN table) \in Nat /\ Cardinality(Recoverable) \in Nat
  BY <1>2, FS_CardinalityType DEF TableFits
<1> QED
  BY <1>2, <1>3, CopiesAssumption DEF TableFits

\* In a table that fits, a marked inode is recorded.
LEMMA Recorded ==
    ASSUME TableFits, TypeOK, NEW c \in Copies, c.ino \in Deleted,
           NEW size \in Nat, mark_version(c.ino, size, c.seq, c.live)
    PROVE  DOMAIN table' = DOMAIN table \cup {c.ino}
<1>0. c.ino \in Recoverable
  BY CopyFacts DEF Recoverable
<1>1. c.ino \in DOMAIN table \/ Cardinality(DOMAIN table) < MaxTable
  BY <1>0, Room
<1> QED
  BY <1>1 DEF mark_version, Put

-----------------------------------------------------------------------------
(* The type invariant. *)

\* Every step preserves TypeOK.
LEMMA TypeStep ==
    ASSUME TypeOK, [Next]_vars
    PROVE  TypeOK'
<1>1. CASE UNCHANGED vars
  BY <1>1 DEF TypeOK, vars
<1>2. ASSUME NEW c \in Copies, Skip(c) PROVE TypeOK'
  BY <1>2 DEF TypeOK, Skip, Reach
<1>3. ASSUME NEW c \in Copies, Unusable(c) PROVE TypeOK'
  BY <1>3 DEF TypeOK, Unusable, Wanted, Reach
<1>4. ASSUME NEW c \in Copies, Redundant(c) PROVE TypeOK'
  <2>1. c.ino \in Deleted /\ c.ino \in Recoverable /\ 0 \in Nat
    BY <1>4, CopyFacts DEF Redundant, Wanted, Recoverable
  <2>2. mark_version(c.ino, 0, c.seq, c.live)
    BY <1>4 DEF Redundant
  <2>3. /\ DOMAIN table' \subseteq DOMAIN table \cup {c.ino}
        /\ table' \in [DOMAIN table' -> Entries]
    BY <2>1, <2>2, MarkFacts
  <2> QED
    BY <1>4, <2>1, <2>3 DEF TypeOK, Redundant, Wanted, Reach, Recoverable
<1>5. ASSUME NEW c \in Copies, Dump(c) PROVE TypeOK'
  <2>1. c.ino \in Deleted /\ c.ino \in Recoverable /\ c.size \in Nat
    BY <1>5, CopyFacts DEF Dump, Wanted, Recoverable
  <2>2. mark_version(c.ino, c.size, c.seq, c.live)
    BY <1>5 DEF Dump
  <2>3. /\ DOMAIN table' \subseteq DOMAIN table \cup {c.ino}
        /\ table' \in [DOMAIN table' -> Entries]
    BY <2>1, <2>2, MarkFacts
  <2>4. PICK got \in (SUBSET c.extents) \ {{}} :
              /\ covered' = covered \cup UNION got
              /\ out' = Put(out, c.ino, [copy |-> c, blocks |-> UNION got])
    BY <1>5 DEF Dump
  <2>5. UNION got \subseteq Blocks
    BY <2>4, CopyFacts
  <2> DEFINE v == [copy |-> c, blocks |-> UNION got]
             V == [copy : Copies, blocks : SUBSET Blocks]
  <2>6. v \in V
    BY <2>5
  <2>7. out' = Put(out, c.ino, v) /\ out \in [DOMAIN out -> V]
    BY <2>4 DEF TypeOK
  <2> HIDE DEF v, V
  <2>8. out' \in [DOMAIN out' -> V]
    BY <2>6, <2>7, PutType
  <2>9. DOMAIN out' = DOMAIN out \cup {c.ino}
    BY <2>7 DEF Put
  <2> QED
    BY <1>5, <2>1, <2>3, <2>4, <2>5, <2>8, <2>9
       DEF TypeOK, Dump, Wanted, Reach, Recoverable, V
<1>6. ASSUME NEW c \in Copies, DumpFails(c) PROVE TypeOK'
  <2>1. PICK got \in SUBSET c.extents : covered' = covered \cup UNION got
    BY <1>6 DEF DumpFails
  <2>2. UNION got \subseteq Blocks
    BY CopyFacts
  <2> QED
    BY <1>6, <2>1, <2>2 DEF TypeOK, DumpFails, Wanted, Reach
<1>7. CASE Walked
  BY <1>1, <1>7 DEF Walked
<1> QED
  BY <1>1, <1>2, <1>3, <1>4, <1>5, <1>6, <1>7 DEF Next

\* The type invariant holds for every journal and every table size: only
\* deleted inodes are ever recorded or written.
THEOREM TypeCorrect == Spec => []TypeOK
<1>1. Init => TypeOK
  BY DEF Init, TypeOK
<1>2. TypeOK /\ [Next]_vars => TypeOK'
  BY TypeStep
<1> QED
  BY <1>1, <1>2, PTL DEF Spec

-----------------------------------------------------------------------------
(* The table describes the outputs, and the right version wins. *)

\* What one step may do to a live output, the body of LiveStays.
LiveKept ==
    \A ino \in DOMAIN out : out[ino].copy.live =>
        /\ ino \in DOMAIN out' /\ out'[ino].copy.live
        /\ out'[ino].copy.seq >= out[ino].copy.seq

\* A step that writes no output keeps the live ones.
LEMMA SameOutput ==
    ASSUME TypeOK, out' = out
    PROVE  LiveKept
<1>1. SUFFICES ASSUME NEW ino \in DOMAIN out, out[ino].copy.live
               PROVE  out'[ino].copy.live /\ out'[ino].copy.seq >= out[ino].copy.seq
  BY DEF LiveKept
<1>2. out[ino].copy \in Copies
  BY DEF TypeOK
<1>3. out[ino].copy.seq \in Nat
  BY <1>2, CopyFacts
<1> QED
  BY <1>1, <1>3

\* A copy that is skipped because of the table is no better than the output.
LEMMA SkippedIsWorse ==
    ASSUME TypeOK, TableInv, NEW c \in Copies, should_skip_version(c)
    PROVE  /\ c.ino \in DOMAIN out
           /\ c.live => /\ out[c.ino].copy.live
                        /\ out[c.ino].copy.seq >= c.seq
           /\ out[c.ino].copy.live \/ out[c.ino].copy.size >= c.size
<1> DEFINE r == table[c.ino]
<1>1. c.ino \in DOMAIN table /\ r \in Entries
  BY DEF should_skip_version, TypeOK
<1>2. r.live \in BOOLEAN /\ r.size \in Nat /\ r.seq \in Nat
  BY <1>1 DEF Entries
<1>3. c.live \in BOOLEAN /\ c.size \in Nat /\ c.size > 0 /\ c.seq \in Nat
  BY CopyFacts
<1>4. c.ino \notin DOMAIN out => ~r.live /\ r.size = 0
  BY <1>1 DEF TableInv
<1>5. c.ino \in DOMAIN out =>
        /\ out[c.ino].copy.live <=> r.live
        /\ r.live => out[c.ino].copy.seq = r.seq
        /\ ~r.live => out[c.ino].copy.size = r.size
  BY DEF TableInv
<1>6. CASE c.live /\ r.live
  <2>1. r.seq >= c.seq
    BY <1>6 DEF should_skip_version
  <2> QED
    BY <1>2, <1>3, <1>4, <1>5, <1>6, <2>1
<1>7. CASE c.live /\ ~r.live
  BY <1>7 DEF should_skip_version
<1>8. CASE ~c.live /\ r.live
  BY <1>4, <1>5, <1>8
<1>9. CASE ~c.live /\ ~r.live
  <2>1. r.size >= c.size
    BY <1>9 DEF should_skip_version
  <2> QED
    BY <1>2, <1>3, <1>4, <1>5, <1>9, <2>1
<1> QED
  BY <1>6, <1>7, <1>8, <1>9

\* A copy that is wanted is better than what the table has for its inode.
LEMMA WantedIsBetter ==
    ASSUME TypeOK, NEW c \in Copies, Wanted(c), c.ino \in DOMAIN table
    PROVE  /\ table[c.ino].live => c.live /\ c.seq > table[c.ino].seq
           /\ ~table[c.ino].live => c.live \/ c.size > table[c.ino].size
<1> DEFINE r == table[c.ino]
<1>1. r.live \in BOOLEAN /\ r.size \in Nat /\ r.seq \in Nat
  BY DEF TypeOK, Entries
<1>2. c.live \in BOOLEAN /\ c.size \in Nat /\ c.seq \in Nat
  BY CopyFacts
<1>3. ~should_skip_version(c)
  BY DEF Wanted
<1>4. CASE c.live /\ r.live
  <2>1. ~(r.seq >= c.seq)
    BY <1>3, <1>4 DEF should_skip_version
  <2> QED
    BY <1>1, <1>2, <1>4, <2>1
<1>5. CASE c.live /\ ~r.live
  BY <1>5
<1>6. CASE ~c.live /\ r.live
  BY <1>3, <1>6 DEF should_skip_version
<1>7. CASE ~c.live /\ ~r.live
  <2>1. ~(r.size >= c.size)
    BY <1>3, <1>7 DEF should_skip_version
  <2> QED
    BY <1>1, <1>2, <1>7, <2>1
<1> QED
  BY <1>4, <1>5, <1>6, <1>7

\* Nothing is written for a copy that is skipped.
LEMMA SkipStep ==
    ASSUME VersionsInv, NEW c \in Copies, Skip(c)
    PROVE  (TableInv /\ NewestLiveWins /\ LargestArtifactWins)'
<1> USE DEF VersionsInv
<1>1. UNCHANGED <<table, out, failed, redundant>> /\ todo' = todo \ {c}
  BY DEF Skip, Reach
<1>2. TableInv'
  BY <1>1 DEF TableInv
<1>3. c.ino \in Deleted => should_skip_version(c)
  BY DEF Skip
<1>4. \A d \in Handled' : d \in Handled \/ (d = c /\ should_skip_version(c))
  BY <1>1, <1>3 DEF Handled
<1>5. NewestLiveWins'
  BY <1>1, <1>4, SkippedIsWorse DEF NewestLiveWins
<1>6. LargestArtifactWins'
  BY <1>1, <1>4, SkippedIsWorse DEF LargestArtifactWins
<1> QED
  BY <1>2, <1>5, <1>6

\* A copy that fails is not handled, and nothing is written for it.
LEMMA FailStep ==
    ASSUME VersionsInv, NEW c \in Copies,
           todo' = todo \ {c}, failed' = failed \cup {c},
           UNCHANGED <<table, out, redundant>>
    PROVE  (TableInv /\ NewestLiveWins /\ LargestArtifactWins)'
<1> USE DEF VersionsInv
<1>1. Handled' \subseteq Handled
  BY DEF Handled
<1> QED
  BY <1>1 DEF TableInv, NewestLiveWins, LargestArtifactWins

\* An artifact that is skipped as redundant leaves its entry's family and size.
LEMMA RedundantStep ==
    ASSUME TableFits, VersionsInv, NEW c \in Copies, Redundant(c)
    PROVE  (TableInv /\ NewestLiveWins /\ LargestArtifactWins)'
<1> USE DEF VersionsInv
<1>1. /\ out' = out /\ failed' = failed /\ redundant' = redundant \cup {c}
      /\ todo' = todo \ {c} /\ c.ino \in Deleted /\ ~c.live /\ 0 \in Nat
      /\ mark_version(c.ino, 0, c.seq, c.live) /\ Wanted(c)
  BY DEF Redundant, Wanted, Reach, FullyCovered
<1>2. /\ DOMAIN table' = DOMAIN table \cup {c.ino}
      /\ \A i \in DOMAIN table : i # c.ino => table'[i] = table[i]
      /\ c.ino \in DOMAIN table =>
           table'[c.ino] = Merged(table[c.ino], 0, c.seq, c.live)
      /\ c.ino \notin DOMAIN table =>
           table'[c.ino] = [live |-> c.live, size |-> 0, seq |-> c.seq]
  BY <1>1, MarkFacts, Recorded
<1>3. ASSUME c.ino \in DOMAIN table
      PROVE  /\ ~table[c.ino].live /\ ~table'[c.ino].live
             /\ table'[c.ino].size = table[c.ino].size
  <2>1. table[c.ino].size \in Nat
    BY <1>3 DEF TypeOK, Entries
  <2>2. ~table[c.ino].live
    BY <1>1, <1>3, WantedIsBetter
  <2> QED
    BY <1>1, <1>2, <1>3, <2>1, <2>2 DEF Merged, Larger
<1>4. c.ino \notin DOMAIN table =>
        c.ino \notin DOMAIN out /\ ~table'[c.ino].live /\ table'[c.ino].size = 0
  BY <1>1, <1>2 DEF TableInv
<1>5. TableInv'
  <2>1. ASSUME NEW ino \in DOMAIN out
        PROVE  /\ ino \in DOMAIN table'
               /\ out[ino].copy.ino = ino
               /\ out[ino].copy.live <=> table'[ino].live
               /\ table'[ino].live => out[ino].copy.seq = table'[ino].seq
               /\ ~table'[ino].live => out[ino].copy.size = table'[ino].size
    <3>1. CASE ino # c.ino
      BY <1>2, <3>1 DEF TableInv
    <3>2. CASE ino = c.ino
      BY <1>2, <1>3, <1>4, <3>2 DEF TableInv
    <3> QED
      BY <3>1, <3>2
  <2>2. ASSUME NEW ino \in DOMAIN table' \ DOMAIN out
        PROVE  ~table'[ino].live /\ table'[ino].size = 0
    <3>1. CASE ino # c.ino
      BY <1>2, <3>1 DEF TableInv
    <3>2. CASE ino = c.ino
      BY <1>2, <1>3, <1>4, <3>2 DEF TableInv
    <3> QED
      BY <3>1, <3>2
  <2> QED
    BY <1>1, <2>1, <2>2 DEF TableInv
<1>6. Handled' \subseteq Handled \cup {c}
  BY <1>1 DEF Handled
<1>7. NewestLiveWins'
  BY <1>1, <1>6 DEF NewestLiveWins
<1>8. LargestArtifactWins'
  BY <1>1, <1>6 DEF LargestArtifactWins
<1> QED
  BY <1>5, <1>7, <1>8

\* A copy is dumped over a worse one, and the table then describes it.
LEMMA DumpStep ==
    ASSUME TableFits, VersionsInv, NEW c \in Copies, Dump(c)
    PROVE  (TableInv /\ NewestLiveWins /\ LargestArtifactWins)' /\ LiveKept
<1> USE DEF VersionsInv
<1>1. /\ failed' = failed /\ redundant' = redundant
      /\ todo' = todo \ {c} /\ c.ino \in Deleted /\ Wanted(c)
      /\ mark_version(c.ino, c.size, c.seq, c.live)
  BY DEF Dump, Wanted, Reach
<1>2. c.live \in BOOLEAN /\ c.size \in Nat /\ c.seq \in Nat
  BY CopyFacts
<1>3. /\ DOMAIN table' = DOMAIN table \cup {c.ino}
      /\ \A i \in DOMAIN table : i # c.ino => table'[i] = table[i]
      /\ c.ino \in DOMAIN table =>
           table'[c.ino] = Merged(table[c.ino], c.size, c.seq, c.live)
      /\ c.ino \notin DOMAIN table =>
           table'[c.ino] = [live |-> c.live, size |-> c.size, seq |-> c.seq]
  BY <1>1, <1>2, MarkFacts, Recorded
<1>4. /\ DOMAIN out' = DOMAIN out \cup {c.ino}
      /\ out'[c.ino].copy = c
      /\ \A i \in DOMAIN out : i # c.ino => out'[i] = out[i]
  <2>1. PICK got \in (SUBSET c.extents) \ {{}} :
              out' = Put(out, c.ino, [copy |-> c, blocks |-> UNION got])
    BY DEF Dump
  <2> QED
    BY <2>1 DEF Put
<1>5. /\ table'[c.ino].live <=> c.live
      /\ c.live => table'[c.ino].seq = c.seq
      /\ ~c.live => table'[c.ino].size = c.size
  <2>1. CASE c.ino \notin DOMAIN table
    BY <1>3, <2>1
  <2>2. CASE c.ino \in DOMAIN table
    <3>1. /\ table[c.ino].live => c.live /\ c.seq > table[c.ino].seq
          /\ ~table[c.ino].live => c.live \/ c.size > table[c.ino].size
      BY <1>1, <2>2, WantedIsBetter
    <3>2. /\ table[c.ino].live \in BOOLEAN
          /\ table[c.ino].size \in Nat /\ table[c.ino].seq \in Nat
      BY <2>2 DEF TypeOK, Entries
    <3>3. table'[c.ino] = Merged(table[c.ino], c.size, c.seq, c.live)
      BY <1>3, <2>2
    <3> QED
      BY <1>2, <3>1, <3>2, <3>3 DEF Merged, Larger
  <2> QED
    BY <2>1, <2>2
<1>6. ASSUME c.ino \in DOMAIN out
      PROVE  /\ out[c.ino].copy.live => c.live /\ c.seq > out[c.ino].copy.seq
             /\ ~out[c.ino].copy.live => c.live \/ c.size > out[c.ino].copy.size
  <2>1. /\ c.ino \in DOMAIN table
        /\ out[c.ino].copy.live <=> table[c.ino].live
        /\ table[c.ino].live => out[c.ino].copy.seq = table[c.ino].seq
        /\ ~table[c.ino].live => out[c.ino].copy.size = table[c.ino].size
    BY <1>6 DEF TableInv
  <2> QED
    BY <1>1, <2>1, WantedIsBetter
<1>7. TableInv'
  <2>1. ASSUME NEW ino \in DOMAIN out'
        PROVE  /\ ino \in DOMAIN table'
               /\ out'[ino].copy.ino = ino
               /\ out'[ino].copy.live <=> table'[ino].live
               /\ table'[ino].live => out'[ino].copy.seq = table'[ino].seq
               /\ ~table'[ino].live => out'[ino].copy.size = table'[ino].size
    <3>1. CASE ino # c.ino
      BY <1>3, <1>4, <3>1 DEF TableInv
    <3>2. CASE ino = c.ino
      BY <1>3, <1>4, <1>5, <3>2
    <3> QED
      BY <3>1, <3>2
  <2>2. ASSUME NEW ino \in DOMAIN table' \ DOMAIN out'
        PROVE  ~table'[ino].live /\ table'[ino].size = 0
    BY <1>3, <1>4 DEF TableInv
  <2> QED
    BY <2>1, <2>2 DEF TableInv
<1>8. Handled' \subseteq Handled \cup {c}
  BY <1>1 DEF Handled
<1>9. ASSUME NEW d \in Handled', d.live
      PROVE  /\ d.ino \in DOMAIN out'
             /\ out'[d.ino].copy.live /\ out'[d.ino].copy.seq >= d.seq
  <2>0. d \in Copies /\ d.seq \in Nat
    BY CopyFacts DEF Handled
  <2>1. CASE d = c
    BY <1>2, <1>4, <1>9, <2>1
  <2>2. CASE d # c
    <3>1. /\ d.ino \in DOMAIN out
          /\ out[d.ino].copy.live /\ out[d.ino].copy.seq >= d.seq
      BY <1>8, <1>9, <2>2 DEF NewestLiveWins
    <3>2. out[d.ino].copy.seq \in Nat
      BY <3>1, CopyFacts DEF TypeOK
    <3>3. CASE d.ino # c.ino
      BY <1>4, <3>1, <3>3
    <3>4. CASE d.ino = c.ino
      <4>1. c.live /\ c.seq > out[c.ino].copy.seq
        BY <1>6, <3>1, <3>4
      <4> QED
        BY <1>2, <1>4, <2>0, <3>1, <3>2, <3>4, <4>1
    <3> QED
      BY <3>3, <3>4
  <2> QED
    BY <2>1, <2>2
<1>10. ASSUME NEW d \in Handled' \ redundant'
       PROVE  /\ d.ino \in DOMAIN out'
              /\ out'[d.ino].copy.live \/ out'[d.ino].copy.size >= d.size
  <2>0. d \in Copies /\ d.size \in Nat
    BY CopyFacts DEF Handled
  <2>1. CASE d = c
    BY <1>2, <1>4, <2>1
  <2>2. CASE d # c
    <3>1. /\ d.ino \in DOMAIN out
          /\ out[d.ino].copy.live \/ out[d.ino].copy.size >= d.size
      BY <1>1, <1>8, <2>2 DEF LargestArtifactWins
    <3>2. out[d.ino].copy.size \in Nat
      BY <3>1, CopyFacts DEF TypeOK
    <3>3. CASE d.ino # c.ino
      BY <1>4, <3>1, <3>3
    <3>4. CASE d.ino = c.ino
      <4>1. c.live \/ (~out[c.ino].copy.live /\ c.size > out[c.ino].copy.size)
        BY <1>6, <3>1, <3>4
      <4> QED
        BY <1>2, <1>4, <2>0, <3>1, <3>2, <3>4, <4>1
    <3> QED
      BY <3>3, <3>4
  <2> QED
    BY <2>1, <2>2
<1>11. ASSUME NEW ino \in DOMAIN out, out[ino].copy.live
       PROVE  /\ ino \in DOMAIN out' /\ out'[ino].copy.live
              /\ out'[ino].copy.seq >= out[ino].copy.seq
  <2>1. out[ino].copy.seq \in Nat
    BY CopyFacts DEF TypeOK
  <2>2. CASE ino # c.ino
    BY <1>4, <1>11, <2>1, <2>2
  <2>3. CASE ino = c.ino
    BY <1>2, <1>4, <1>6, <1>11, <2>1, <2>3
  <2> QED
    BY <2>2, <2>3
<1>12. NewestLiveWins' /\ LargestArtifactWins' /\ LiveKept
  BY <1>9, <1>10, <1>11 DEF NewestLiveWins, LargestArtifactWins, LiveKept
<1> QED
  BY <1>7, <1>12

\* Every step preserves the invariant and the live outputs.
LEMMA VersionsStep ==
    ASSUME TableFits, VersionsInv, [Next]_vars
    PROVE  VersionsInv' /\ LiveKept
<1> DEFINE Rest == TableInv /\ NewestLiveWins /\ LargestArtifactWins
<1>0. TypeOK /\ TypeOK'
  BY TypeStep DEF VersionsInv
<1>1. CASE UNCHANGED vars
  <2>1. Rest'
    BY <1>1 DEF VersionsInv, TableInv, NewestLiveWins, LargestArtifactWins,
                Handled, vars
  <2> QED
    BY <1>0, <1>1, <2>1, SameOutput DEF VersionsInv, vars
<1>2. ASSUME NEW c \in Copies, Skip(c) PROVE Rest' /\ LiveKept
  BY <1>0, <1>2, SkipStep, SameOutput DEF Skip
<1>3. ASSUME NEW c \in Copies, Unusable(c) PROVE Rest' /\ LiveKept
  BY <1>0, <1>3, FailStep, SameOutput DEF Unusable, Wanted, Reach
<1>4. ASSUME NEW c \in Copies, Redundant(c) PROVE Rest' /\ LiveKept
  BY <1>0, <1>4, RedundantStep, SameOutput DEF Redundant
<1>5. ASSUME NEW c \in Copies, Dump(c) PROVE Rest' /\ LiveKept
  BY <1>5, DumpStep
<1>6. ASSUME NEW c \in Copies, DumpFails(c) PROVE Rest' /\ LiveKept
  BY <1>0, <1>6, FailStep, SameOutput DEF DumpFails, Wanted, Reach
<1>7. CASE Walked
  BY <1>1, <1>7 DEF Walked
<1> HIDE DEF Rest
<1>8. CASE Next /\ ~Walked
  <2>1. Rest' /\ LiveKept
    BY <1>2, <1>3, <1>4, <1>5, <1>6, <1>8 DEF Next
  <2> QED
    BY <1>0, <2>1 DEF VersionsInv, Rest
<1> QED
  BY <1>1, <1>7, <1>8

\* If the table has room for every deleted inode of the journal, then at every
\* moment and for every order of the copies the table describes the outputs.
THEOREM TableDescribesOutputs ==
    ASSUME TableFits
    PROVE  Spec => []VersionsInv
<1>1. Init => VersionsInv
  BY DEF Init, VersionsInv, TypeOK, TableInv, NewestLiveWins,
         LargestArtifactWins, Handled
<1>2. VersionsInv /\ [Next]_vars => VersionsInv'
  BY VersionsStep
<1> QED
  BY <1>1, <1>2, PTL DEF Spec

\* ... hence the newest live copy that was handled is the output ...
THEOREM NewestLiveCorrect ==
    ASSUME TableFits
    PROVE  Spec => []NewestLiveWins
<1>1. VersionsInv => NewestLiveWins
  BY DEF VersionsInv
<1> QED
  BY <1>1, TableDescribesOutputs, PTL

\* ... without a live copy, the largest artifact ...
THEOREM LargestArtifactCorrect ==
    ASSUME TableFits
    PROVE  Spec => []LargestArtifactWins
<1>1. VersionsInv => LargestArtifactWins
  BY DEF VersionsInv
<1> QED
  BY <1>1, TableDescribesOutputs, PTL

\* ... and no step replaces a live output by an artifact or an older copy.
THEOREM LiveStaysCorrect ==
    ASSUME TableFits
    PROVE  Spec => LiveStays
<1>1. VersionsInv /\ [Next]_vars => [LiveKept]_vars
  BY VersionsStep
<1> QED
  BY <1>1, TableDescribesOutputs, PTL DEF Spec, LiveStays, LiveKept
=============================================================================
