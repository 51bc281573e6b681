-------------------------- MODULE RecoveryRunProofs --------------------------
(***************************************************************************)
(* Proofs about RecoveryRun: its names, the outputs of the journal phase   *)
(* and who owns an output.                                                 *)
(***************************************************************************)
EXTENDS RecoveryRun, OutputNamesProofs

-----------------------------------------------------------------------------
(* The order of the phases. *)

LEMMA Phases == ToSet(Order) = {"orphan", "journal", "normal", "aggressive", "targeted"}
<1>1. /\ DOMAIN Order = 1 .. 5
      /\ Order[1] = "orphan" /\ Order[2] = "journal" /\ Order[3] = "normal"
      /\ Order[4] = "aggressive" /\ Order[5] = "targeted"
  BY DEF Order
<1>2. \A i \in 1 .. 5 : i = 1 \/ i = 2 \/ i = 3 \/ i = 4 \/ i = 5
  OBVIOUS
<1>3. 1 \in 1 .. 5 /\ 2 \in 1 .. 5 /\ 3 \in 1 .. 5 /\ 4 \in 1 .. 5 /\ 5 \in 1 .. 5
  OBVIOUS
<1> QED
  BY <1>1, <1>2, <1>3 DEF ToSet

\* What follows a phase is a phase of the mode, or the report.
LEMMA AfterType ==
  ASSUME NEW p, NEW m, m \subseteq ToSet(Order)
  PROVE  After(p, m) \in {"report"} \cup m
<1> DEFINE at(q) == CHOOSE i \in DOMAIN Order : Order[i] = q
           later == {q \in m : p \notin ToSet(Order) \/ at(q) > at(p)}
           first(q) == \A r \in later : at(q) <= at(r)
<1>1. After(p, m) = IF later = {} THEN "report" ELSE CHOOSE q \in later : first(q)
  BY DEF After
<1>2. later \subseteq m /\ later \subseteq ToSet(Order)
  OBVIOUS
<1>3. \A q \in later : at(q) \in Nat
  <2> TAKE q \in later
  <2>1. DOMAIN Order = 1 .. 5
    BY DEF Order
  <2>2. \E i \in DOMAIN Order : Order[i] = q
    BY <1>2 DEF ToSet
  <2>3. at(q) \in DOMAIN Order
    BY <2>2
  <2> HIDE DEF at
  <2> QED
    BY <2>1, <2>3
<1> HIDE DEF later, at
<1>4. CASE later # {}
  <2> DEFINE S == {at(q) : q \in later}
  <2>1. S \subseteq Nat /\ S # {}
    BY <1>3, <1>4
  <2>2. PICK k \in S : \A j \in S : k <= j
    <3> HIDE DEF S
    <3> QED
      BY <2>1, LeastOf
  <2>3. PICK q \in later : k = at(q)
    BY <2>2
  <2>4. first(q)
    BY <2>2, <2>3
  <2> QED
    BY <1>1, <1>2, <1>4, <2>4
<1> QED
  BY <1>1, <1>4

\* The flags give phases.
LEMMA ModeType ==
  ASSUME NEW args \in Seq(ToSet(Order) \cup {"all"})
  PROVE  parse_args(args) \subseteq ToSet(Order)
<1> DEFINE P == ToSet(Order)
           N == Len(args)
           V == SUBSET P
           v == {"journal"}
           body(i, x) == IF i = 0 THEN {"journal"}
                         ELSE IF args[i] = "all" THEN P
                         ELSE IF args[i] = "targeted" THEN x \cup {"targeted"}
                         ELSE {args[i]}
           turn(i, x) == IF args[i] = "all" THEN P
                         ELSE IF args[i] = "targeted" THEN x \cup {"targeted"} ELSE {args[i]}
           F == [y \in (1 .. N) \X V |-> turn(y[1], y[2])]
           Modes(f) == f = [i \in 0 .. N |-> IF i = 0 THEN {"journal"}
                                             ELSE IF args[i] = "all" THEN P
                                             ELSE IF args[i] = "targeted" THEN f[i - 1] \cup {"targeted"}
                                             ELSE {args[i]}]
           up == CHOOSE f : Modes(f)
<1>1. parse_args(args) = up[N]
  BY DEF parse_args
<1>2. N \in Nat /\ \A i \in 1 .. N : args[i] \in P \cup {"all"}
  <2> HIDE DEF P
  <2>1. args \in Seq(P \cup {"all"})
    BY DEF P
  <2> QED
    BY <2>1
<1>3. "targeted" \in P /\ v \in V
  BY Phases
<1>4. \A i \in 1 .. N : \A x \in V : turn(i, x) \in V
  BY <1>2, <1>3
<1>5. \A i \in 1 .. N : \A x : body(i, x) = turn(i, x)
  BY <1>2
<1>6. \A x : body(0, x) = v
  OBVIOUS
<1>7. F \in [(1 .. N) \X V -> V] /\ \A n \in 1 .. N : \A x \in V : F[<<n, x>>] = turn(n, x)
  <2> HIDE DEF turn, V
  <2> QED
    BY <1>4
<1>8. Loop(N, V, v, F)
  BY <1>2, <1>3, <1>7 DEF Loop
<1> HIDE DEF V, F, N, v, P, turn
<1>9. PICK f : Run(N, V, v, F, f)
  BY <1>8, LoopSolvable
<1>10. f \in [0 .. N -> V] /\ f[0] = v /\ \A n \in 1 .. N : f[n] = F[<<n, f[n - 1]>>]
  BY <1>9 DEF Run
<1>11. \A n \in 1 .. N : n \in 0 .. N /\ n - 1 \in 0 .. N
  BY <1>2
<1>12. \A n \in 0 .. N : n = 0 \/ n \in 1 .. N
  BY <1>2
<1>13. \A n \in 1 .. N : f[n] = turn(n, f[n - 1])
  BY <1>7, <1>10, <1>11
<1>14. \A n \in 0 .. N : f[n] = body(n, f[n - 1])
  <2> HIDE DEF body
  <2> QED
    BY <1>5, <1>6, <1>10, <1>12, <1>13
<1>15. Modes(f)
  BY <1>10, <1>14
<1>16. Modes(up)
  BY <1>15
<1>17. \A n \in 0 .. N : up[n] = body(n, up[n - 1])
  BY <1>16
<1> HIDE DEF up, body
<1>18. up[0] = v
  <2>1. 0 \in 0 .. N
    BY <1>2
  <2> QED
    BY <1>6, <1>17, <2>1
<1> DEFINE Ok == {n \in 0 .. N : up[n] \in V}
<1>19. 0 \in Ok
  BY <1>2, <1>3, <1>18
<1>20. ASSUME NEW n \in 1 .. N, n - 1 \in Ok PROVE n \in Ok
  <2>1. up[n] = turn(n, up[n - 1])
    BY <1>5, <1>11, <1>17
  <2> QED
    BY <1>4, <1>11, <1>20, <2>1
<1>21. \A n \in 0 .. N : n \in Ok
  <2> HIDE DEF Ok
  <2> QED
    BY <1>2, <1>19, <1>20, Induct
<1>22. N \in 0 .. N
  BY <1>2
<1> QED
  BY <1>1, <1>21, <1>22 DEF V, P

-----------------------------------------------------------------------------
(* What the steps of the phases do to names. *)

Quiet == UNCHANGED nvars /\ Counted
Resolves == \E ino : resolve_output_name(ino)

\* A step within a phase: at most a name is resolved.
Inside == (Quiet \/ Resolves) /\ UNCHANGED <<disk, mode, phase, saving>>

LEMMA MarkCounted == \A order : MarkRecovered(order) => Counted
  BY DEF MarkRecovered, Counted

LEMMA StartInodeNames == \A ino : StartInode(ino) => Quiet \/ Resolves
<1> TAKE ino
<1> HAVE StartInode(ino)
<1>1. UNCHANGED <<nvars, mishaps>> \/ resolve_output_name(ino)
  BY DEF StartInode
<1> QED
  BY <1>1 DEF Quiet, Resolves, Counted, nvars

LEMMA PassNames == Pass => Quiet
  BY DEF Pass, Quiet, Counted

LEMMA LoopingInside == Looping => Inside /\ phase \in ToSet(Order) /\ ~saving
<1> SUFFICES ASSUME Looping PROVE Inside /\ phase \in ToSet(Order) /\ ~saving
  OBVIOUS
<1>1. CASE OrphanChain
  <2>1. (StartInode(pos) \/ Pass) /\ UNCHANGED <<disk, mode, phase, saving>> /\ phase = "orphan" /\ ~saving
    BY <1>1 DEF OrphanChain, Turn
  <2> QED
    BY <2>1, StartInodeNames, PassNames, Phases DEF Inside
<1>2. CASE OrphanFile
  <2>1. (StartInode(disk.orphan_file[pos]) \/ Pass) /\ UNCHANGED <<disk, mode, phase, saving>> /\ phase = "orphan" /\ ~saving
    BY <1>2 DEF OrphanFile, Turn
  <2> QED
    BY <2>1, StartInodeNames, PassNames, Phases DEF Inside
<1>3. CASE NormalInode
  <2>1. (StartInode(pos) \/ Pass) /\ UNCHANGED <<disk, mode, phase, saving>> /\ phase = "normal" /\ ~saving
    BY <1>3 DEF NormalInode, Turn
  <2> QED
    BY <2>1, StartInodeNames, PassNames, Phases DEF Inside
<1>4. CASE JournalCopy
  <2> DEFINE c == disk.copies[pos]
  <2>1. (Pass \/ FromExtents(c) \/ FromInode(c)) /\ UNCHANGED <<disk, mode, phase, saving>> /\ phase = "journal" /\ ~saving
    BY <1>4 DEF JournalCopy, Turn
  <2>2. FromExtents(c) => Pass \/ resolve_output_name(c.ino)
    BY DEF FromExtents
  <2>3. FromInode(c) => resolve_output_name(c.ino)
    BY DEF FromInode
  <2> HIDE DEF c
  <2> QED
    BY <2>1, <2>2, <2>3, PassNames, Phases DEF Inside, Resolves
<1>5. CASE ScanBlock
  <2>1. UNCHANGED nvars /\ UNCHANGED <<disk, mode, phase, saving>> /\ phase = "aggressive" /\ ~saving
    BY <1>5 DEF ScanBlock, Turn
  <2>2. UNCHANGED mishaps \/ \E order : MarkRecovered(order)
    BY <1>5 DEF ScanBlock, StartLeaf, StartTree
  <2>3. Counted
    BY <2>2, MarkCounted DEF Counted
  <2> QED
    BY <2>1, <2>3, Phases DEF Inside, Quiet
<1>6. CASE RevokedBlock
  <2>1. UNCHANGED <<nvars, mishaps>> /\ UNCHANGED <<disk, mode, phase, saving>> /\ phase = "targeted" /\ ~saving
    BY <1>6 DEF RevokedBlock, Turn
  <2> QED
    BY <2>1, Phases DEF Inside, Quiet, Counted
<1> QED
  BY <1>1, <1>2, <1>3, <1>4, <1>5, <1>6 DEF Looping

LEMMA WritingInside == Writing => Inside /\ job # NoJob
<1> SUFFICES ASSUME Writing PROVE Inside /\ job # NoJob
  OBVIOUS
<1>1. /\ UNCHANGED nvars /\ (Mishap \/ UNCHANGED mishaps)
      /\ UNCHANGED <<disk, mode, phase, saving>> /\ job # NoJob
  BY DEF Writing, OpenFile, OpenFails, CopyChunk, ChunkFails, Copying, run
<1> QED
  BY <1>1 DEF Inside, Quiet, Counted

LEMMA ClosingInside == Closing => Inside /\ job # NoJob
<1> SUFFICES ASSUME Closing PROVE Inside /\ job # NoJob
  OBVIOUS
<1>1. UNCHANGED <<disk, mode, phase, saving>> /\ job # NoJob
  BY DEF Closing, InodeDone, BlockDone, Promote, PromoteFails, IndirectDone, InlineDone, RevokedTree,
         Copied, run
<1>2. CASE InodeDone
  <2>1. UNCHANGED <<nvars, mishaps>> \/ resolve_output_name(job.src)
    BY <1>2 DEF InodeDone
  <2> QED
    BY <1>1, <2>1 DEF Inside, Quiet, Resolves, Counted, nvars
<1>3. CASE BlockDone
  <2>1. UNCHANGED nvars
    BY <1>3 DEF BlockDone
  <2>2. UNCHANGED mishaps \/ \E order : MarkRecovered(order)
    BY <1>3 DEF BlockDone
  <2>3. Counted
    BY <2>2, MarkCounted DEF Counted
  <2> QED
    BY <1>1, <2>1, <2>3 DEF Inside, Quiet
<1>4. CASE RevokedTree
  <2>1. UNCHANGED nvars
    BY <1>4 DEF RevokedTree
  <2>2. UNCHANGED mishaps \/ \E order : MarkRecovered(order)
    BY <1>4 DEF RevokedTree, StartTree
  <2>3. Counted
    BY <2>2, MarkCounted DEF Counted
  <2> QED
    BY <1>1, <2>1, <2>3 DEF Inside, Quiet
<1>5. CASE Promote \/ PromoteFails \/ IndirectDone \/ InlineDone
  <2>1. UNCHANGED nvars /\ (Mishap \/ UNCHANGED mishaps)
    BY <1>5 DEF Promote, PromoteFails, IndirectDone, InlineDone, Truncate
  <2> QED
    BY <1>1, <2>1 DEF Inside, Quiet, Counted
<1> QED
  BY <1>2, <1>3, <1>4, <1>5 DEF Closing

-----------------------------------------------------------------------------
(* Names, over a whole run. *)

NameState == NamesInv /\ ClaimsOK /\ PhaseInv

LEMMA InitNames == Init => NameState
<1> SUFFICES ASSUME Init PROVE NameState
  OBVIOUS
<1>1. /\ filename_map = <<>> /\ filename_cap = 0 /\ fm_hash = NoEntries /\ mishaps = 0
      /\ name_claims = <<>> /\ answered = {} /\ latest = NoEntries
      /\ disk \in Disks /\ mode = {} /\ phase = "setup" /\ job = NoJob
  BY DEF Init, NamesInit
<1>2. mishaps \in 0 .. MaxMishaps
  BY <1>1, NamesAssumption
<1>3. NamesInv
  BY <1>1, <1>2, NoNamesInv
<1>4. ClaimsOK
  BY <1>1, NoClaimsOK DEF NoClaims
<1>5. PhaseInv
  BY <1>1 DEF PhaseInv
<1> QED
  BY <1>3, <1>4, <1>5 DEF NameState

\* A step that resolves one name at most keeps both invariants.
LEMMA InsideNames ==
  ASSUME NamesInv, ClaimsOK, Quiet \/ Resolves
  PROVE  NamesInv' /\ ClaimsOK'
<1>1. CASE Quiet
  <2>1. UNCHANGED nvars /\ UNCHANGED <<filename_map, filename_cap, fm_hash, latest>> /\ Counted
    BY <1>1 DEF Quiet, nvars
  <2> QED
    BY <2>1, NamesKept, ClaimsKept
<1>2. CASE Resolves
  <2>1. PICK ino : resolve_output_name(ino)
    BY <1>2 DEF Resolves
  <2> QED
    BY <2>1, NamesResolved, ClaimsResolved
<1> QED
  BY <1>1, <1>2

\* Nothing has been answered.
LEMMA FreshClaims ==
  ASSUME answered' = {}, name_claims' = <<>>
  PROVE  ClaimsOK'
<1>1. Len(name_claims') = 0 /\ name_claims' \in Seq({})
  OBVIOUS
<1> QED
  BY <1>1 DEF ClaimsOK, ClaimsInv, Listing

\* What is on the disk of this run.
LEMMA FoundType ==
  ASSUME disk \in Disks
  PROVE  Found \in Seq(Found_)
<1> DEFINE j == IF HasJournal THEN disk.jdirs ELSE <<>>
<1>1. disk.dirs \in Seq(Directories) /\ disk.jdirs \in Seq(Seq(DirEntries))
  BY DisksAssumption DEF DiskOK
<1>2. j \in Seq(Seq(DirEntries))
  <2> DEFINE B == Seq(DirEntries)
  <2>1. disk.jdirs \in Seq(B)
    BY <1>1
  <2> HIDE DEF B
  <2>2. j \in Seq(B)
    BY <2>1
  <2> QED
    BY <2>2 DEF B
<1>3. Found = NamesFound(disk.dirs, j)
  BY DEF Found
<1> HIDE DEF j
<1> QED
  BY <1>1, <1>2, <1>3, NamesFoundType

\* A step within a phase.
LEMMA InsidePhase ==
  ASSUME NameState, Inside, phase \in ToSet(Order), ~saving
  PROVE  NameState'
<1>1. NamesInv' /\ ClaimsOK'
  BY InsideNames DEF NameState, Inside
<1>2. phase # "setup" /\ phase # "names"
  BY Phases
<1>3. PhaseInv'
  BY <1>2 DEF NameState, PhaseInv, Inside
<1> QED
  BY <1>1, <1>3 DEF NameState

\* The next phase is entered.
LEMMA Entering ==
  ASSUME NameState, Quiet, UNCHANGED <<disk, mode, job>>, Enter(After(phase, mode)),
         job = NoJob \/ phase \in ToSet(Order)
  PROVE  NamesInv' /\ ClaimsOK' /\ phase' \in {"report"} \cup ToSet(Order)
<1>1. mode \subseteq ToSet(Order)
  BY DEF NameState, PhaseInv
<1>2. phase' \in {"report"} \cup ToSet(Order)
  BY <1>1, AfterType DEF Enter
<1> QED
  BY <1>2, InsideNames DEF NameState

LEMMA NextNames == NameState /\ [Next]_vars => NameState'
<1> SUFFICES ASSUME NameState, [Next]_vars PROVE NameState'
  OBVIOUS
<1>0. NamesInv /\ ClaimsOK /\ PhaseInv
  BY DEF NameState
<1>1. CASE Looping
  BY <1>1, LoopingInside, InsidePhase
<1>2. CASE Writing
  BY <1>0, <1>2, WritingInside, InsidePhase DEF PhaseInv
<1>3. CASE Closing
  BY <1>0, <1>3, ClosingInside, InsidePhase DEF PhaseInv
<1>4. CASE Setup
  <2>1. /\ phase = "setup" /\ phase' = "names" /\ UNCHANGED <<disk, job>> /\ pos' = 1
        /\ mode' = parse_args(disk.args) /\ init_filename_map
    BY <1>4 DEF Setup
  <2>2. filename_map = <<>> /\ latest = NoEntries /\ answered = {} /\ name_claims = <<>>
    BY <1>0, <2>1 DEF PhaseInv
  <2>3. NamesInv'
    BY <1>0, <2>1, <2>2, MapInitialized
  <2>4. answered' = {} /\ name_claims' = <<>>
    BY <2>1, <2>2 DEF init_filename_map
  <2>5. ClaimsOK'
    BY <2>4, FreshClaims
  <2>6. disk.args \in Seq(ToSet(Order) \cup {"all"})
    BY <1>0, DisksAssumption DEF PhaseInv, DiskOK
  <2>7. mode' \subseteq ToSet(Order)
    BY <2>1, <2>6, ModeType
  <2>8. job = NoJob
    BY <1>0, <2>1, Phases DEF PhaseInv
  <2>9. PhaseInv'
    BY <1>0, <2>1, <2>4, <2>7, <2>8 DEF PhaseInv
  <2> QED
    BY <2>3, <2>5, <2>9 DEF NameState
<1>5. CASE SetupFails
  <2>1. /\ phase = "setup" /\ phase' = "failed" /\ UNCHANGED nvars
        /\ UNCHANGED <<disk, mode, job>> /\ (UNCHANGED mishaps \/ Mishap)
    BY <1>5 DEF SetupFails
  <2>2. NamesInv' /\ ClaimsOK'
    BY <1>0, <2>1, InsideNames DEF Quiet, Counted
  <2>3. job = NoJob
    BY <1>0, <2>1, Phases DEF PhaseInv
  <2>4. PhaseInv'
    BY <1>0, <2>1, <2>3 DEF PhaseInv
  <2> QED
    BY <2>2, <2>4 DEF NameState
<1>6. CASE AddName
  <2> DEFINE e == Found[pos]
  <2>1. /\ phase = "names" /\ UNCHANGED <<disk, mode, phase, job>> /\ pos <= Len(Found)
        /\ add_filename_mapping(e.ino, e.name) /\ pos' = pos + 1
    BY <1>6 DEF AddName
  <2>2. pos \in Nat \ {0} /\ answered = {} /\ name_claims = <<>> /\ disk \in Disks
    BY <1>0, <2>1 DEF PhaseInv
  <2>3. e \in Found_
    <3> DEFINE s == Found
    <3>1. s \in Seq(Found_)
      BY <2>2, FoundType
    <3> HIDE DEF s
    <3>2. pos <= Len(s)
      BY <2>1 DEF s
    <3>3. s[pos] \in Found_
      BY <2>2, <3>1, <3>2
    <3> QED
      BY <3>3 DEF s
  <2>4. e.ino \in Nat \ {0} /\ e.name \in FileNames
    <3> HIDE DEF e
    <3> QED
      BY <2>3 DEF Found_
  <2> HIDE DEF e
  <2>5. NamesInv'
    BY <1>0, <2>1, <2>4, NameAdded
  <2>6. answered' = {} /\ name_claims' = <<>>
    BY <2>1, <2>2 DEF add_filename_mapping, RefuseName, GrowFails, UpdateName, AppendName, nvars
  <2>7. ClaimsOK'
    BY <2>6, FreshClaims
  <2>8. job = NoJob
    BY <1>0, <2>1, Phases DEF PhaseInv
  <2>9. pos' \in Nat \ {0}
    BY <2>1, <2>2
  <2>10. PhaseInv'
    BY <1>0, <2>1, <2>6, <2>8, <2>9 DEF PhaseInv
  <2> QED
    BY <2>5, <2>7, <2>10 DEF NameState
<1>7. CASE NamesDone
  <2>1. /\ phase = "names" /\ Enter(After(phase, mode)) /\ UNCHANGED <<disk, mode, job>>
        /\ UNCHANGED nvars /\ UNCHANGED mishaps
    BY <1>7 DEF NamesDone
  <2>2. job = NoJob
    BY <1>0, <2>1, Phases DEF PhaseInv
  <2>3. NamesInv' /\ ClaimsOK' /\ phase' \in {"report"} \cup ToSet(Order)
    BY <2>1, <2>2, Entering DEF Quiet, Counted
  <2>4. PhaseInv'
    BY <1>0, <2>1, <2>2, <2>3, Phases DEF PhaseInv
  <2> QED
    BY <2>3, <2>4 DEF NameState
<1>8. CASE PhaseDone
  <2>1. /\ job = NoJob /\ UNCHANGED <<disk, mode, job>> /\ UNCHANGED nvars
        /\ \/ UNCHANGED <<phase, pos, mishaps>>
           \/ Mishap /\ Enter(After(phase, mode))
    BY <1>8 DEF PhaseDone
  <2>2. CASE UNCHANGED <<phase, pos, mishaps>>
    <3>1. NamesInv' /\ ClaimsOK'
      BY <1>0, <2>1, <2>2, InsideNames DEF Quiet, Counted
    <3>2. PhaseInv'
      BY <1>0, <2>1, <2>2 DEF PhaseInv, nvars
    <3> QED
      BY <3>1, <3>2 DEF NameState
  <2>3. CASE Mishap /\ Enter(After(phase, mode))
    <3>1. NamesInv' /\ ClaimsOK' /\ phase' \in {"report"} \cup ToSet(Order)
      BY <2>1, <2>3, Entering DEF Quiet, Counted
    <3>2. PhaseInv'
      BY <1>0, <2>1, <3>1, Phases DEF PhaseInv
    <3> QED
      BY <3>1, <3>2 DEF NameState
  <2> QED
    BY <2>1, <2>2, <2>3
<1>9. CASE CheckpointWritten
  <2>1. /\ saving /\ Enter(After(phase, mode)) /\ UNCHANGED <<disk, mode, job>>
        /\ UNCHANGED nvars /\ UNCHANGED mishaps
    BY <1>9 DEF CheckpointWritten
  <2>2. job = NoJob
    BY <1>0, <2>1 DEF PhaseInv
  <2>3. NamesInv' /\ ClaimsOK' /\ phase' \in {"report"} \cup ToSet(Order)
    BY <2>1, <2>2, Entering DEF Quiet, Counted
  <2>4. PhaseInv'
    BY <1>0, <2>1, <2>2, <2>3, Phases DEF PhaseInv
  <2> QED
    BY <2>3, <2>4 DEF NameState
<1>10. CASE Report
  <2>1. /\ phase = "report" /\ phase' = "clear" /\ UNCHANGED nvars
        /\ UNCHANGED <<disk, mode, job>> /\ (UNCHANGED mishaps \/ Mishap)
    BY <1>10 DEF Report
  <2>2. NamesInv' /\ ClaimsOK'
    BY <1>0, <2>1, InsideNames DEF Quiet, Counted
  <2>3. job = NoJob
    BY <1>0, <2>1, Phases DEF PhaseInv
  <2>4. PhaseInv'
    BY <1>0, <2>1, <2>3 DEF PhaseInv
  <2> QED
    BY <2>2, <2>4 DEF NameState
<1>11. CASE Clear
  <2>1. phase = "clear" /\ phase' = "done" /\ ForgetNames /\ UNCHANGED <<disk, mode, job, mishaps>>
    BY <1>11 DEF Clear
  <2>2. job = NoJob
    BY <1>0, <2>1, Phases DEF PhaseInv
  <2>3. mishaps' \in 0 .. MaxMishaps
    BY <1>0, <2>1 DEF NamesInv, NamesTypeOK
  <2>4. NamesInv' /\ ClaimsOK'
    BY <2>1, <2>3, NamesForgotten, FreshClaims DEF ForgetNames
  <2>5. PhaseInv'
    BY <1>0, <2>1, <2>2 DEF PhaseInv
  <2> QED
    BY <2>4, <2>5 DEF NameState
<1>12. CASE Crash
  <2>1. /\ phase' = "setup" /\ ForgetNames /\ Mishap /\ mode' = {} /\ job' = NoJob /\ UNCHANGED disk
    BY <1>12 DEF Crash
  <2>2. mishaps' \in 0 .. MaxMishaps
    BY <1>0, <2>1, MishapsCounted DEF NamesInv, NamesTypeOK, Counted
  <2>3. NamesInv' /\ ClaimsOK'
    BY <2>1, <2>2, NamesForgotten, FreshClaims DEF ForgetNames
  <2>4. PhaseInv'
    BY <1>0, <2>1 DEF PhaseInv, ForgetNames
  <2> QED
    BY <2>3, <2>4 DEF NameState
<1>13. CASE UNCHANGED vars
  <2>1. NamesInv' /\ ClaimsOK'
    BY <1>0, <1>13, InsideNames DEF vars, Quiet, Counted
  <2>2. PhaseInv'
    BY <1>0, <1>13 DEF PhaseInv, vars, nvars
  <2> QED
    BY <2>1, <2>2 DEF NameState
<1> QED
  BY <1>1, <1>2, <1>3, <1>4, <1>5, <1>6, <1>7, <1>8, <1>9, <1>10, <1>11, <1>12, <1>13
     DEF Next, Program, Finished

\* The map and the claims are as their invariants say in every state of a run.
THEOREM NameStateInvariant == Spec => []NameState
<1>1. Init => NameState
  BY InitNames
<1>2. NameState /\ [Next]_vars => NameState'
  BY NextNames
<1> QED
  BY <1>1, <1>2, PTL DEF Spec

\* Whatever names the disk and the journal have, in whatever order, and whichever
\* allocations fail, get_filename_for_inode() returns the name add_filename_mapping()
\* accepted last for the inode, in every state of every run, resumed ones too.
THEOREM LookupIsLatestCorrect == Spec => []LookupIsLatest
<1>1. NameState => LookupIsLatest
  BY LookupCorrect DEF NameState
<1> QED
  BY <1>1, NameStateInvariant, PTL

\* resolve_output_name() gives an inode one name and no two inodes the same, through
\* all phases of a run and the repeated questions of one inode.
THEOREM OneOwnerPerNameCorrect == Spec => []OneOwnerPerName
<1>1. NameState => OneOwnerPerName
  BY ClaimsCorrect DEF NameState, ClaimsOK
<1> QED
  BY <1>1, NameStateInvariant, PTL

-----------------------------------------------------------------------------
(* Plans. *)

\* Twelve bytes are an extent, one way or the other.
LEMMA ExtentOf == \A s \in Slots : AsExtent(s) \in Exts
<1> TAKE s \in Slots
<1>1. CASE s \in Exts
  <2>1. s = [at |-> s.at, len |-> s.len, start |-> s.start]
    BY <1>1 DEF Exts
  <2>2. DOMAIN s = {"at", "len", "start"}
    BY <2>1, Zenon
  <2> QED
    BY <1>1, <2>2 DEF AsExtent, IsIndex
<1>2. CASE s \in [at : Nat, leaf : Nat]
  <2>1. s = [at |-> s.at, leaf |-> s.leaf]
    BY <1>2
  <2>2. DOMAIN s = {"at", "leaf"}
    BY <2>1, Zenon
  <2>3. s.at \in Nat /\ s.leaf \in Nat
    BY <1>2
  <2> QED
    BY <2>2, <2>3 DEF AsExtent, IsIndex, Exts
<1> QED
  BY <1>1, <1>2 DEF Slots

LEMMA ClearedType == \A e \in Exts : Cleared(e) \in Exts /\ Cleared(e).at = e.at /\ Cleared(e).start = e.start
<1> TAKE e \in Exts
<1>0. InitMaxLen \in Nat
  BY TreeAssumption
<1>1. e = [at |-> e.at, len |-> e.len, start |-> e.start] /\ e.at \in Nat /\ e.len \in Nat /\ e.start \in Nat
  BY DEF Exts
<1>2. CASE Uninit(e)
  <2>1. e.len - InitMaxLen \in Nat
    BY <1>0, <1>1, <1>2 DEF Uninit
  <2>2. Cleared(e) = [e EXCEPT !.len = e.len - InitMaxLen]
    BY <1>2 DEF Cleared
  <2> QED
    BY <1>1, <2>1, <2>2 DEF Exts
<1>3. CASE ~Uninit(e)
  <2>1. Cleared(e) = [e EXCEPT !.len = e.len]
    BY <1>3 DEF Cleared
  <2> QED
    BY <1>1, <2>1 DEF Exts
<1> QED
  BY <1>2, <1>3

\* The extents in some slots.
LEMMA ExtentsType ==
  ASSUME NEW slots \in Seq(Slots)
  PROVE  Extents(slots) \in Seq(Exts)
<1> DEFINE f == Extents(slots)
<1>1. f = [i \in DOMAIN slots |-> AsExtent(slots[i])]
  BY DEF Extents
<1>2. \A i \in DOMAIN slots : slots[i] \in Slots
  <2> HIDE DEF f
  <2> QED
    OBVIOUS
<1>3. \A i \in DOMAIN slots : f[i] \in Exts
  BY <1>1, <1>2, ExtentOf
<1>4. DOMAIN f = DOMAIN slots /\ f = [i \in DOMAIN f |-> f[i]]
  BY <1>1
<1> HIDE DEF f
<1>5. f \in Seq(Exts)
  BY <1>3, <1>4, MapType
<1> QED
  BY <1>5 DEF f

\* What is dumped of them.
LEMMA ClearedPlanType ==
  ASSUME NEW T, NEW slots \in Seq(Slots),
         \A e \in ToSet(Extents(slots)) : Usable(e) => Cleared(e) \in T
  PROVE  ClearedPlan(slots) \in Seq(T)
<1> DEFINE x == Extents(slots)
           I == {i \in DOMAIN x : Usable(x[i])}
           E == {e \in ToSet(x) : Usable(e)}
           s == PickSeq(x, I)
           f == [i \in DOMAIN s |-> Cleared(s[i])]
<1>1. ClearedPlan(slots) = f
  BY DEF ClearedPlan, Select
<1>2. x \in Seq(Exts)
  BY ExtentsType
<1>3. \A i \in DOMAIN x \cap I : x[i] \in E
  BY DEF ToSet
<1>4. s \in Seq(E)
  <2> HIDE DEF x, I, E
  <2> QED
    BY <1>2, <1>3, PickType
<1> HIDE DEF s
<1>5. \A i \in DOMAIN s : s[i] \in E
  <2> HIDE DEF E
  <2> QED
    BY <1>4
<1>6. \A i \in DOMAIN s : f[i] \in T
  BY <1>5
<1>7. DOMAIN f = DOMAIN s /\ f = [i \in DOMAIN f |-> f[i]]
  OBVIOUS
<1> HIDE DEF f, E
<1>8. f \in Seq(T)
  BY <1>4, <1>6, <1>7, MapType
<1> QED
  BY <1>1, <1>8

\* The tree blocks that some slots point to.
LEMMA TreeBlocksType ==
  ASSUME NEW dev, NEW slots \in Seq(Slots)
  PROVE  TreeBlocks(dev, slots) \in Seq({h \in {read_tree_block_versioned(dev, b) : b \in Blocks} : h.magic})
<1> DEFINE p == Pointers(slots)
           I == {i \in DOMAIN p : p[i] \in Blocks}
           kids == PickSeq(p, I)
           f == [i \in DOMAIN kids |-> read_tree_block_versioned(dev, kids[i])]
           J == {i \in DOMAIN f : f[i].magic}
           R == {read_tree_block_versioned(dev, b) : b \in Blocks}
           H == {h \in R : h.magic}
           A == {p[i] : i \in DOMAIN p}
<1>1. TreeBlocks(dev, slots) = PickSeq(f, J)
  BY DEF TreeBlocks, Select
<1>2. p \in Seq(A)
  <2>1. p = [i \in DOMAIN slots |-> AsIndex(slots[i])]
    BY DEF Pointers
  <2>2. DOMAIN p = DOMAIN slots /\ p = [i \in DOMAIN p |-> p[i]] /\ \A i \in DOMAIN slots : p[i] \in A
    BY <2>1
  <2> HIDE DEF p, A
  <2> QED
    BY <2>2, MapType
<1>3. \A i \in DOMAIN p \cap I : p[i] \in Blocks
  OBVIOUS
<1>4. kids \in Seq(Blocks)
  <2> HIDE DEF p, I, A
  <2> QED
    BY <1>2, <1>3, PickType
<1> HIDE DEF kids
<1>5. \A i \in DOMAIN kids : kids[i] \in Blocks
  BY <1>4
<1>6. \A i \in DOMAIN kids : f[i] \in R
  BY <1>5
<1>7. DOMAIN f = DOMAIN kids /\ f = [i \in DOMAIN f |-> f[i]]
  OBVIOUS
<1>8. f \in Seq(R)
  <2> HIDE DEF f, R
  <2> QED
    BY <1>4, <1>6, <1>7, MapType
<1>9. \A i \in DOMAIN f \cap J : f[i] \in H
  BY <1>6, <1>7
<1>10. PickSeq(f, J) \in Seq(H)
  <2> HIDE DEF f, R, J, H
  <2> QED
    BY <1>8, <1>9, PickType
<1> QED
  BY <1>1, <1>10

\* A property of all that the journal's versions of tree blocks, and the device's where
\* there are none, lead to is one of every extent that is dumped.
LEMMA JournalPlanType ==
  ASSUME NEW dev, NEW c, NEW T, c.slots \in Seq(Slots),
         \A e \in ToSet(Extents(c.slots)) : Usable(e) => Cleared(e) \in T,
         \A h \in {h \in {read_tree_block_versioned(dev, b) : b \in Blocks} : h.magic} :
            h.slots \in Seq(Slots) /\ \A e \in ToSet(Extents(h.slots)) : Usable(e) => Cleared(e) \in T
  PROVE  JournalPlan(dev, c) \in Seq(T)
<1> DEFINE H == {h \in {read_tree_block_versioned(dev, b) : b \in Blocks} : h.magic}
           P == Seq(T)
           leaf(h) == IF h.depth = 0 THEN ClearedPlan(h.slots) ELSE <<>>
           hs(h) == TreeBlocks(dev, h.slots)
           below(h) == [i \in DOMAIN hs(h) |-> leaf(hs(h)[i])]
           child(h) == IF h.depth = 0 THEN ClearedPlan(h.slots) ELSE FlattenSeq(below(h))
           top == TreeBlocks(dev, c.slots)
           f == [i \in DOMAIN top |-> child(top[i])]
<1>1. JournalPlan(dev, c) = IF c.depth = 0 THEN ClearedPlan(c.slots) ELSE FlattenSeq(f)
  BY DEF JournalPlan
<1>2. ClearedPlan(c.slots) \in P
  BY ClearedPlanType
<1>3. \A h \in H : ClearedPlan(h.slots) \in P
  <2> TAKE h \in H
  <2>1. h.slots \in Seq(Slots) /\ \A e \in ToSet(Extents(h.slots)) : Usable(e) => Cleared(e) \in T
    OBVIOUS
  <2> QED
    BY <2>1, ClearedPlanType
<1>4. <<>> \in P
  OBVIOUS
<1>5. \A h \in H : leaf(h) \in P
  BY <1>3, <1>4
<1>6. \A h \in H : hs(h) \in Seq(H)
  <2> TAKE h \in H
  <2>1. h.slots \in Seq(Slots)
    OBVIOUS
  <2> QED
    BY <2>1, TreeBlocksType
<1>7. top \in Seq(H)
  BY TreeBlocksType
<1> HIDE DEF H, P, leaf, hs, top
<1>8. ASSUME NEW h \in H PROVE FlattenSeq(below(h)) \in P
  <2> DEFINE s == hs(h)
             g == below(h)
  <2>1. s \in Seq(H)
    BY <1>6
  <2> HIDE DEF s
  <2>2. \A i \in DOMAIN s : s[i] \in H
    BY <2>1
  <2>3. DOMAIN g = DOMAIN s /\ g = [i \in DOMAIN g |-> g[i]] /\ \A i \in DOMAIN s : g[i] = leaf(s[i])
    BY DEF s
  <2> HIDE DEF g
  <2>4. \A i \in DOMAIN s : g[i] \in P
    BY <1>5, <2>2, <2>3
  <2>5. g \in Seq(P)
    BY <2>1, <2>3, <2>4, MapType
  <2>6. FlattenSeq(g) \in Seq(T)
    BY <2>5, FlattenType DEF P
  <2> QED
    BY <2>6 DEF g, P
<1> HIDE DEF below
<1>9. \A h \in H : child(h) \in P
  BY <1>3, <1>8
<1> HIDE DEF child
<1>10. \A i \in DOMAIN top : top[i] \in H
  BY <1>7
<1>11. DOMAIN f = DOMAIN top /\ f = [i \in DOMAIN f |-> f[i]] /\ \A i \in DOMAIN top : f[i] = child(top[i])
  OBVIOUS
<1> HIDE DEF f
<1>12. \A i \in DOMAIN top : f[i] \in P
  BY <1>9, <1>10, <1>11
<1>13. f \in Seq(P)
  BY <1>7, <1>11, <1>12, MapType
<1>14. FlattenSeq(f) \in P
  BY <1>13, FlattenType DEF P
<1> QED
  BY <1>1, <1>2, <1>14 DEF P

\* A copy of an inode in the journal.
LEMMA CopyType ==
  ASSUME disk \in Disks, NEW c \in ToSet(disk.copies)
  PROVE  /\ c \in InodeCopies /\ c.slots \in Seq(Slots) /\ c.found \in [Blocks -> Headers]
         /\ c.ino \in 1 .. InodesCount /\ c.kind \in {"extents", "inline", "indirect"} /\ c.size \in Nat
<1>1. disk.copies \in Seq(InodeCopies)
  BY DisksAssumption DEF DiskOK
<1>2. c \in InodeCopies
  <2>1. PICK i \in DOMAIN disk.copies : c = disk.copies[i]
    BY DEF ToSet
  <2> HIDE DEF InodeCopies
  <2> QED
    BY <1>1, <2>1
<1> QED
  BY <1>2 DEF InodeCopies

\* A copy of an inode in the journal leads to no block that only a reused tree block
\* leads to.
LEMMA JournalPlanGenuine ==
  ASSUME disk \in Disks, NEW c \in ToSet(disk.copies)
  PROVE  JournalPlan(AsOf(c), c) \in Seq(Genuine(c))
<1> DEFINE dev == AsOf(c)
           old == {b \in Blocks : c.found[b].magic}
           known == UNION ({BlocksIn(c.slots)} \cup {BlocksIn(c.found[b].slots) : b \in old}
                \cup {BlocksIn(disk.node[b].slots) : b \in Blocks \ old})
<1>1. c.slots \in Seq(Slots) /\ c.found \in [Blocks -> Headers]
  BY CopyType
<1>2. /\ dev.node = disk.node /\ dev.index = c.found /\ dev.bad = disk.bad
      /\ disk.node \in [Blocks -> Headers]
  BY DisksAssumption DEF DiskOK, AsOf
<1> HIDE DEF dev
<1>4. Reused(c) \cap known = {}
  <2> DEFINE X == UNION {BlocksIn(disk.node[b].slots) : b \in old}
  <2>1. Reused(c) = X \ known
    BY DEF Reused
  <2> HIDE DEF X, known
  <2> QED
    BY <2>1
<1>5. ASSUME NEW slots \in Seq(Slots), BlocksIn(slots) \subseteq known, NEW e \in ToSet(Extents(slots))
      PROVE  Cleared(e) \in Genuine(c)
  <2> DEFINE s == Extents(slots)
  <2>1. s \in Seq(Exts)
    BY ExtentsType
  <2>2. e \in Exts
    <3>1. PICK k \in DOMAIN s : e = s[k]
      BY DEF ToSet
    <3> HIDE DEF s
    <3> QED
      BY <2>1, <3>1
  <2>3. BlocksOf(Cleared(e)) \subseteq BlocksIn(slots)
    BY DEF BlocksIn
  <2>4. Cleared(e) \in Exts
    BY <2>2, ClearedType
  <2>5. BlocksOf(Cleared(e)) \cap Reused(c) = {}
    <3> HIDE DEF known
    <3> QED
      BY <1>4, <1>5, <2>3
  <2> QED
    BY <2>4, <2>5 DEF Genuine
<1>6. BlocksIn(c.slots) \subseteq known
  OBVIOUS
<1>7. \A e \in ToSet(Extents(c.slots)) : Cleared(e) \in Genuine(c)
  <2> HIDE DEF known
  <2> QED
    BY <1>1, <1>5, <1>6
<1>8. ASSUME NEW h \in {h \in {read_tree_block_versioned(dev, b) : b \in Blocks} : h.magic}
      PROVE  h.slots \in Seq(Slots) /\ \A e \in ToSet(Extents(h.slots)) : Cleared(e) \in Genuine(c)
  <2>1. PICK b \in Blocks : h = read_tree_block_versioned(dev, b) /\ h.magic
    OBVIOUS
  <2>2. \/ b \in old /\ h = c.found[b]
        \/ b \notin old /\ h = disk.node[b]
        \/ h = NoHeader
    BY <1>1, <1>2, <2>1 DEF read_tree_block_versioned
  <2>3. h # NoHeader
    <3>1. NoHeader.magic = FALSE
      BY DEF NoHeader
    <3> QED
      BY <2>1, <3>1
  <2>4. h \in Headers
    BY <1>1, <1>2, <2>1, <2>2, <2>3
  <2>5. h.slots \in Seq(Slots)
    <3> HIDE DEF old
    <3> QED
      BY <2>4 DEF Headers
  <2>6. BlocksIn(h.slots) \subseteq known
    <3> HIDE DEF old
    <3> QED
      BY <2>1, <2>2, <2>3
  <2> HIDE DEF known
  <2> QED
    BY <1>5, <2>5, <2>6
<1>9. JournalPlan(dev, c) \in Seq(Genuine(c))
  <2>1. \A h \in {h \in {read_tree_block_versioned(dev, b) : b \in Blocks} : h.magic} :
           h.slots \in Seq(Slots) /\ \A e \in ToSet(Extents(h.slots)) : Usable(e) => Cleared(e) \in Genuine(c)
    BY <1>8
  <2>2. \A e \in ToSet(Extents(c.slots)) : Usable(e) => Cleared(e) \in Genuine(c)
    BY <1>7
  <2> QED
    BY <1>1, <2>1, <2>2, JournalPlanType
<1> QED
  BY <1>9 DEF dev

-----------------------------------------------------------------------------
(* What a plan leaves in a file. *)

\* Contents of files.
Contents == UNION {[D -> Int] : D \in SUBSET Int}

LEMMA OverlayType ==
  ASSUME NEW f \in Contents, NEW g \in Contents
  PROVE  Overlay(f, g) \in Contents
<1>1. PICK D \in SUBSET Int : f \in [D -> Int]
  BY DEF Contents
<1>2. PICK E \in SUBSET Int : g \in [E -> Int]
  BY DEF Contents
<1>3. Overlay(f, g) \in [D \cup E -> Int] /\ D \cup E \in SUBSET Int
  BY <1>1, <1>2 DEF Overlay
<1> QED
  BY <1>3 DEF Contents

LEMMA PieceType ==
  ASSUME NEW e \in Exts
  PROVE  Piece(e) \in Contents
<1>1. e.at \in Nat /\ e.len \in Nat /\ e.start \in Nat
  BY DEF Exts
<1> DEFINE D == e.at .. e.at + e.len - 1
<1>2. D \in SUBSET Int /\ Piece(e) \in [D -> Int]
  BY <1>1 DEF Piece
<1> HIDE DEF D
<1> QED
  BY <1>2 DEF Contents

LEMMA NoFileType == NoFile \in Contents /\ DOMAIN NoFile = {}
<1>1. NoFile = [i \in {} |-> 0]
  BY DEF NoFile, NoEntries
<1>2. NoFile \in [{} -> Int] /\ {} \in SUBSET Int
  BY <1>1
<1> QED
  BY <1>1, <1>2 DEF Contents

\* A file as the extents of a plan are copied to it one after the other.
LEMMA CopiesRun ==
  ASSUME NEW plan \in Seq(Exts)
  PROVE  /\ CopiesUpto(plan) \in [0 .. Len(plan) -> Contents]
         /\ CopiesUpto(plan)[0] = NoFile
         /\ \A n \in 1 .. Len(plan) :
              CopiesUpto(plan)[n] = Overlay(CopiesUpto(plan)[n - 1], Piece(plan[n]))
<1> DEFINE N == Len(plan)
           V == Contents
           v == NoFile
           F == [x \in (1 .. N) \X V |-> Overlay(x[2], Piece(plan[x[1]]))]
           Eq(f) == f = [i \in 0 .. N |-> IF i = 0 THEN NoFile ELSE Overlay(f[i - 1], Piece(plan[i]))]
           up == CHOOSE f : Eq(f)
<1>1. CopiesUpto(plan) = up
  BY DEF CopiesUpto
<1>2. N \in Nat /\ \A i \in 1 .. N : plan[i] \in Exts
  OBVIOUS
<1>3. \A i \in 1 .. N : \A x \in V : Overlay(x, Piece(plan[i])) \in V
  BY <1>2, PieceType, OverlayType
<1>4. F \in [(1 .. N) \X V -> V] /\ \A n \in 1 .. N : \A x \in V : F[<<n, x>>] = Overlay(x, Piece(plan[n]))
  <2> HIDE DEF V
  <2> QED
    BY <1>3
<1>5. v \in V
  BY NoFileType
<1> HIDE DEF V, F, N, v
<1>6. Loop(N, V, v, F)
  BY <1>2, <1>4, <1>5 DEF Loop
<1>7. PICK f : Run(N, V, v, F, f)
  BY <1>6, LoopSolvable
<1>8. f \in [0 .. N -> V] /\ f[0] = v /\ \A n \in 1 .. N : f[n] = F[<<n, f[n - 1]>>]
  BY <1>7 DEF Run
<1>9. \A n \in 1 .. N : n \in 0 .. N /\ n - 1 \in 0 .. N /\ n # 0
  BY <1>2
<1>10. \A n \in 0 .. N : n = 0 \/ n \in 1 .. N
  BY <1>2
<1>11. \A n \in 1 .. N : f[n] = Overlay(f[n - 1], Piece(plan[n]))
  BY <1>4, <1>8, <1>9
<1>12. \A n \in 0 .. N : f[n] = IF n = 0 THEN NoFile ELSE Overlay(f[n - 1], Piece(plan[n]))
  BY <1>8, <1>10, <1>11 DEF v
<1>13. Eq(f)
  BY <1>8, <1>12
<1>14. Eq(up)
  BY <1>13
<1>15. \A n \in 0 .. N : up[n] = IF n = 0 THEN NoFile ELSE Overlay(up[n - 1], Piece(plan[n]))
  BY <1>14
<1>16. up = [n \in 0 .. N |-> up[n]]
  BY <1>14
<1> HIDE DEF up
<1>17. up[0] = v /\ 0 \in 0 .. N
  BY <1>2, <1>15 DEF v
<1>18. \A n \in 1 .. N : up[n] = Overlay(up[n - 1], Piece(plan[n]))
  BY <1>9, <1>15
<1> DEFINE Ok == {n \in 0 .. N : up[n] \in V}
<1>19. 0 \in Ok
  BY <1>5, <1>17
<1>20. ASSUME NEW n \in 1 .. N, n - 1 \in Ok PROVE n \in Ok
  BY <1>3, <1>9, <1>18, <1>20
<1>21. \A n \in 0 .. N : n \in Ok
  <2> HIDE DEF Ok
  <2> QED
    BY <1>2, <1>19, <1>20, Induct
<1>22. up \in [0 .. N -> V]
  BY <1>16, <1>21
<1> QED
  BY <1>1, <1>17, <1>18, <1>22 DEF N, V, v

\* The number of blocks that were copied.
LEMMA LengthRun ==
  ASSUME NEW plan \in Seq(Exts)
  PROVE  /\ LengthUpto(plan)[0] = 0
         /\ \A n \in 1 .. Len(plan) : LengthUpto(plan)[n] = LengthUpto(plan)[n - 1] + plan[n].len
<1> DEFINE N == Len(plan)
           V == Nat
           v == 0
           F == [x \in (1 .. N) \X V |-> x[2] + plan[x[1]].len]
           Eq(f) == f = [i \in 0 .. N |-> IF i = 0 THEN 0 ELSE f[i - 1] + plan[i].len]
           up == CHOOSE f : Eq(f)
<1>1. LengthUpto(plan) = up
  BY DEF LengthUpto
<1>2. N \in Nat /\ \A i \in 1 .. N : plan[i] \in Exts
  OBVIOUS
<1>3. \A i \in 1 .. N : \A x \in V : x + plan[i].len \in V
  <2>1. \A i \in 1 .. N : plan[i].len \in Nat
    BY <1>2 DEF Exts
  <2> QED
    BY <2>1
<1>4. F \in [(1 .. N) \X V -> V] /\ \A n \in 1 .. N : \A x \in V : F[<<n, x>>] = x + plan[n].len
  <2> HIDE DEF V
  <2> QED
    BY <1>3
<1>5. v \in V
  OBVIOUS
<1> HIDE DEF V, F, N, v
<1>6. Loop(N, V, v, F)
  BY <1>2, <1>4, <1>5 DEF Loop
<1>7. PICK f : Run(N, V, v, F, f)
  BY <1>6, LoopSolvable
<1>8. f \in [0 .. N -> V] /\ f[0] = v /\ \A n \in 1 .. N : f[n] = F[<<n, f[n - 1]>>]
  BY <1>7 DEF Run
<1>9. \A n \in 1 .. N : n \in 0 .. N /\ n - 1 \in 0 .. N /\ n # 0
  BY <1>2
<1>10. \A n \in 0 .. N : n = 0 \/ n \in 1 .. N
  BY <1>2
<1>11. \A n \in 1 .. N : f[n] = f[n - 1] + plan[n].len
  BY <1>4, <1>8, <1>9
<1>12. \A n \in 0 .. N : f[n] = IF n = 0 THEN 0 ELSE f[n - 1] + plan[n].len
  BY <1>8, <1>10, <1>11 DEF v
<1>13. Eq(f)
  BY <1>8, <1>12
<1>14. Eq(up)
  BY <1>13
<1>15. \A n \in 0 .. N : up[n] = IF n = 0 THEN 0 ELSE up[n - 1] + plan[n].len
  BY <1>14
<1> HIDE DEF up
<1>16. up[0] = 0
  BY <1>2, <1>15
<1>17. \A n \in 1 .. N : up[n] = up[n - 1] + plan[n].len
  BY <1>9, <1>15
<1> QED
  BY <1>1, <1>16, <1>17 DEF N

\* Laying on twice.
LEMMA OverlayTwice ==
  ASSUME NEW f, NEW g, NEW h
  PROVE  Overlay(Overlay(f, g), h) = Overlay(f, Overlay(g, h))
  BY DEF Overlay

LEMMA OverlayNothing ==
  ASSUME NEW f \in Contents, NEW g, DOMAIN g = {}
  PROVE  Overlay(f, g) = f
<1>1. f = [l \in DOMAIN f |-> f[l]]
  BY DEF Contents
<1> QED
  BY <1>1 DEF Overlay

\* An extent of which some blocks are copied, and t more.
LEMMA PieceGrows ==
  ASSUME NEW e \in Exts, NEW d \in Nat, NEW t \in Nat
  PROVE  Overlay(Piece([e EXCEPT !.len = d]),
                 [l \in e.at + d .. e.at + d + t - 1 |-> e.start + d + l - (e.at + d)])
           = Piece([e EXCEPT !.len = d + t])
<1> DEFINE a == e.at
           s == e.start
           p == Piece([e EXCEPT !.len = d])
           q == Piece([e EXCEPT !.len = d + t])
           c == [l \in e.at + d .. e.at + d + t - 1 |-> e.start + d + l - (e.at + d)]
<1>1. a \in Nat /\ s \in Nat
  BY DEF Exts
<1>2. /\ [e EXCEPT !.len = d].at = a /\ [e EXCEPT !.len = d].len = d /\ [e EXCEPT !.len = d].start = s
      /\ [e EXCEPT !.len = d + t].at = a /\ [e EXCEPT !.len = d + t].len = d + t
      /\ [e EXCEPT !.len = d + t].start = s
  BY DEF Exts
<1>3. p = [l \in a .. a + d - 1 |-> s + l - a] /\ q = [l \in a .. a + (d + t) - 1 |-> s + l - a]
  BY <1>2 DEF Piece
<1>a. /\ DOMAIN p = a .. a + d - 1 /\ DOMAIN q = a .. a + (d + t) - 1
      /\ DOMAIN c = a + d .. a + d + t - 1
  <2> HIDE DEF p, q
  <2> QED
    BY <1>3
<1>b. /\ \A l \in a .. a + d - 1 : p[l] = s + l - a
      /\ \A l \in a .. a + (d + t) - 1 : q[l] = s + l - a
  <2> HIDE DEF p, q
  <2> QED
    BY <1>3
<1>c. \A l \in a + d .. a + d + t - 1 : c[l] = s + d + l - (a + d)
  OBVIOUS
<1> HIDE DEF p, q, c, a, s
<1>4. DOMAIN p \cup DOMAIN c = DOMAIN q
  <2>1. \A l \in Int : l \in a .. a + (d + t) - 1 <=> l \in a .. a + d - 1 \/ l \in a + d .. a + d + t - 1
    BY <1>1
  <2> QED
    BY <1>a, <2>1, <1>1
<1>5. \A l \in DOMAIN q : (IF l \in DOMAIN c THEN c[l] ELSE p[l]) = q[l]
  <2> SUFFICES ASSUME NEW l \in a .. a + (d + t) - 1
               PROVE  (IF l \in DOMAIN c THEN c[l] ELSE p[l]) = q[l]
    BY <1>a
  <2>1. CASE l \in a + d .. a + d + t - 1
    <3>1. c[l] = s + d + l - (a + d)
      BY <1>c, <2>1
    <3>2. s + d + l - (a + d) = s + l - a
      BY <1>1
    <3> QED
      BY <1>a, <1>b, <2>1, <3>1, <3>2
  <2>2. CASE l \notin a + d .. a + d + t - 1
    <3>1. l \in a .. a + d - 1
      BY <1>1, <2>2
    <3> QED
      BY <1>a, <1>b, <2>2, <3>1
  <2> QED
    BY <2>1, <2>2
<1>6. Overlay(p, c) = [l \in DOMAIN q |-> q[l]]
  BY <1>4, <1>5 DEF Overlay
<1>7. q = [l \in DOMAIN q |-> q[l]]
  BY <1>3
<1> QED
  BY <1>6, <1>7 DEF p, q, c

-----------------------------------------------------------------------------
(* Who writes where. *)

\* o is job j but for the fields F.
Updated(j, o, F) == DOMAIN o = JobFields /\ \A f \in JobFields \ F : o[f] = j[f]

LEMMA Fields ==
  /\ JobFields = {"kind", "src", "name", "open", "todo", "done", "ok", "stopped", "plan", "size"}
  /\ \A kind, src, name, plan, size :
       LET j == Job(kind, src, name, plan, size)
       IN /\ DOMAIN j = JobFields /\ j # NoJob
          /\ j.kind = kind /\ j.src = src /\ j.name = name /\ j.plan = plan /\ j.todo = plan
          /\ j.open = FALSE /\ j.stopped = FALSE /\ j.done = 0 /\ j.ok = 0 /\ j.size = size
<1>1. JobFields = {"kind", "src", "name", "open", "todo", "done", "ok", "stopped", "plan", "size"}
  BY Zenon DEF JobFields, Job
<1>2. ASSUME NEW kind, NEW src, NEW name, NEW plan, NEW size
      PROVE  DOMAIN Job(kind, src, name, plan, size) = JobFields
  BY Zenon DEF JobFields, Job
<1>3. ASSUME NEW kind, NEW src, NEW name, NEW plan, NEW size
      PROVE  Job(kind, src, name, plan, size) # NoJob
  <2>1. "open" \in DOMAIN Job(kind, src, name, plan, size)
    BY <1>1, <1>2
  <2>2. DOMAIN NoJob = {"kind"}
    BY Zenon DEF NoJob
  <2> QED
    BY <2>1, <2>2
<1> QED
  BY <1>1, <1>2, <1>3 DEF Job

LEMMA HasFields ==
  ASSUME NEW j, DOMAIN j = JobFields
  PROVE  j # NoJob
<1>1. "open" \in DOMAIN j
  BY Fields
<1>2. DOMAIN NoJob = {"kind"}
  BY Zenon DEF NoJob
<1> QED
  BY <1>1, <1>2

LEMMA SameReused ==
  ASSUME UNCHANGED disk
  PROVE  /\ \A c : Reused(c)' = Reused(c) /\ Genuine(c)' = Genuine(c)
         /\ \A src : CopiesOf(src)' = CopiesOf(src)
<1>1. \A c : Reused(c)' = Reused(c)
  BY DEF Reused
<1>2. \A src : CopiesOf(src)' = CopiesOf(src)
  BY DEF CopiesOf
<1> QED
  BY <1>1, <1>2 DEF Genuine

\* No block of f is one that some copy of the inode would have from a newer file.
Untouched(f, src) == \E c \in CopiesOf(src) : \A l \in DOMAIN f : f[l] \notin Reused(c)

LEMMA NoReusedIs ==
  NoReusedBlocks <=> \A n \in DOMAIN owner : owner[n].by = "journal" => Untouched(files[n], owner[n].src)
  BY DEF NoReusedBlocks, Untouched

LEMMA NoReusedNext ==
  ASSUME UNCHANGED disk
  PROVE  NoReusedBlocks' <=>
           \A n \in DOMAIN owner' : owner'[n].by = "journal" => Untouched(files'[n], owner'[n].src)
<1>1. \A c : Reused(c)' = Reused(c)
  BY SameReused
<1>2. CopiesOf(0)' = CopiesOf(0) /\ \A src : CopiesOf(src)' = CopiesOf(src)
  BY SameReused
<1>3. NoReusedBlocks' <=>
        \A n \in DOMAIN owner' : owner'[n].by = "journal" =>
            \E c \in CopiesOf(owner'[n].src) : \A l \in DOMAIN files'[n] : files'[n][l] \notin Reused(c)
  BY <1>1 DEF NoReusedBlocks, CopiesOf
<1> QED
  BY <1>3 DEF Untouched

\* A step that leaves the outputs as they are, and goes on with no other job.
LEMMA OutputsSame ==
  ASSUME JournalInv, UNCHANGED <<disk, files, owner, planned>>, job' = job \/ job' = NoJob,
         phase' = "journal" => pos' \in Nat \ {0}
  PROVE  JournalInv'
<1>1. \A c : Progress(c) /\ job' = job => Progress(c)'
  <2> TAKE c
  <2> HAVE Progress(c) /\ job' = job
  <2>1. Reused(c)' = Reused(c) /\ Genuine(c)' = Genuine(c)
    BY SameReused
  <2> QED
    BY <2>1 DEF Progress
<1>2. OwnersInv'
  BY DEF JournalInv, OwnersInv
<1>3. JournalAtomic'
  BY DEF JournalInv, JournalAtomic
<1>4. NoReusedBlocks'
  BY NoReusedIs, NoReusedNext DEF JournalInv
<1>5. job' # NoJob /\ job'.kind = "journal" => \E c \in CopiesOf(job'.src) : Progress(c)'
  <2> SUFFICES ASSUME job' # NoJob /\ job'.kind = "journal" PROVE \E c \in CopiesOf(job'.src) : Progress(c)'
    OBVIOUS
  <2>1. job' = job
    OBVIOUS
  <2>2. PICK c \in CopiesOf(job.src) : Progress(c)
    BY <2>1 DEF JournalInv
  <2> QED
    BY <1>1, <2>1, <2>2
<1>6. job' # NoJob /\ job'.kind = "journal" => (\E c \in CopiesOf(job.src) : Progress(c))'
  BY <1>5 DEF CopiesOf
<1> QED
  BY <1>2, <1>3, <1>4, <1>6 DEF JournalInv

\* A job that may be started.
Startable(j) ==
    \E kind, src, name, plan, size :
        /\ j = Job(kind, src, name, plan, size)
        /\ kind = "journal" => name[1] = "tmp" /\ \E c \in CopiesOf(src) : plan \in Seq(Genuine(c))
        /\ kind = "probe" => name[1] = "targeted"

LEMMA GenuineType == \A c : \A plan \in Seq(Genuine(c)) : plan \in Seq(Exts)
<1> TAKE c
<1> TAKE plan \in Seq(Genuine(c))
<1>1. Genuine(c) \subseteq Exts
  BY DEF Genuine
<1> HIDE DEF Genuine, Exts
<1>2. \A i \in 1 .. Len(plan) : plan[i] \in Genuine(c)
  OBVIOUS
<1>3. Len(plan) \in Nat /\ plan = [i \in 1 .. Len(plan) |-> plan[i]]
  OBVIOUS
<1> QED
  BY <1>1, <1>2, <1>3

LEMMA OutputStarted ==
  ASSUME JournalInv, UNCHANGED <<disk, files, owner, planned>>, Startable(job'),
         phase' = "journal" => pos' \in Nat \ {0}
  PROVE  JournalInv'
<1>2. PICK kind, src, name, plan, size :
        /\ job' = Job(kind, src, name, plan, size)
        /\ kind = "journal" => name[1] = "tmp" /\ \E c \in CopiesOf(src) : plan \in Seq(Genuine(c))
        /\ kind = "probe" => name[1] = "targeted"
  BY DEF Startable
<1>3. /\ DOMAIN job' = JobFields /\ job' # NoJob
      /\ job'.kind = kind /\ job'.src = src /\ job'.name = name /\ job'.plan = plan /\ job'.todo = plan
      /\ job'.open = FALSE /\ job'.done = 0 /\ job'.ok = 0
  BY <1>2, Fields
<1>4. OwnersInv'
  BY <1>2, <1>3 DEF JournalInv, OwnersInv
<1>5. JournalAtomic'
  BY DEF JournalInv, JournalAtomic
<1>6. NoReusedBlocks'
  BY NoReusedIs, NoReusedNext DEF JournalInv
<1>7. job'.kind = "journal" => \E c \in CopiesOf(src) : Progress(c)'
  <2> SUFFICES ASSUME job'.kind = "journal" PROVE \E c \in CopiesOf(src) : Progress(c)'
    OBVIOUS
  <2>1. PICK c \in CopiesOf(src) : plan \in Seq(Genuine(c))
    BY <1>2, <1>3
  <2>2. plan \in Seq(Exts)
    BY <2>1, GenuineType
  <2>3. LengthUpto(plan)[0] = 0
    BY <2>2, LengthRun
  <2> DEFINE G == Genuine(c)
             up == LengthUpto(plan)
             n == Len(plan)
  <2>4. plan \in Seq(G) /\ \A i \in 1 .. Len(plan) : plan[i] \in Exts
    <3> HIDE DEF Exts
    <3> QED
      BY <2>1, <2>2
  <2>5. plan # <<>> => plan[1].len \in Nat
    <3>1. plan # <<>> => 1 \in 1 .. Len(plan)
      <4> HIDE DEF Exts
      <4> QED
        BY <2>2
    <3> QED
      BY <2>4, <3>1 DEF Exts
  <2> HIDE DEF G, up
  <2>6. n \in Nat /\ n - n = 0 /\ \A i \in 1 .. n : 0 + i = i
    BY <2>4
  <2> HIDE DEF n
  <2>7. up[0] = 0
    BY <2>3 DEF up
  <2>8. Genuine(c)' = G
    BY SameReused DEF G
  <2>9. Progress(c)'
    BY <1>3, <2>4, <2>5, <2>6, <2>7, <2>8 DEF Progress, up, n
  <2> QED
    BY <2>9
<1>8. job'.kind = "journal" => (\E c \in CopiesOf(job.src) : Progress(c))'
  BY <1>3, <1>7 DEF CopiesOf
<1> QED
  BY <1>3, <1>4, <1>5, <1>6, <1>8 DEF JournalInv

\* The files but one are as they were.
Only(n) == \A m : m # n => /\ m \in DOMAIN files' <=> m \in DOMAIN files
                           /\ m \in DOMAIN files => files'[m] = files[m]

\* What another job does to its file is no business of the journal phase.
LEMMA OwnFile ==
  ASSUME JournalInv, UNCHANGED <<disk, owner, planned>>, job # NoJob, job.open, job.kind # "journal",
         Only(job.name), UNCHANGED <<phase, pos>>,
         job' = NoJob \/ Updated(job, job', {"todo", "done", "ok", "stopped"})
  PROVE  JournalInv'
<1>2. \A n \in DOMAIN owner : owner[n].by = "journal" => n # job.name
  BY DEF JournalInv, OwnersInv
<1>a. \A n \in DOMAIN owner : owner[n].by = "journal" =>
        n \in DOMAIN files /\ files[n] = planned[n] /\ Untouched(files[n], owner[n].src)
  BY NoReusedIs DEF JournalInv, JournalAtomic
<1>b. \A n \in DOMAIN owner : owner[n].by = "journal" =>
        n \in DOMAIN files' /\ files'[n] = files[n]
  BY <1>2, <1>a DEF Only
<1>3. JournalAtomic'
  BY <1>a, <1>b DEF JournalAtomic
<1>4. NoReusedBlocks'
  <2> HIDE DEF Untouched
  <2> QED
    BY <1>a, <1>b, NoReusedNext
<1>5. job' # NoJob => DOMAIN job' = JobFields /\ job'.kind = job.kind /\ job'.name = job.name /\ job'.open = job.open
  BY Fields DEF Updated
<1>6. OwnersInv'
  BY <1>5 DEF JournalInv, OwnersInv
<1> QED
  BY <1>3, <1>4, <1>5, <1>6 DEF JournalInv

LEMMA FilesPut == \A n, v : files' = Put(files, n, v) => Only(n)
  BY DEF Put, Only
LEMMA FilesExcept == \A n, v : files' = [files EXCEPT ![n] = v] => Only(n)
  BY DEF Only
LEMMA FilesWithout == \A n : files' = Without(files, n) => Only(n)
  BY DEF Without, Only

-----------------------------------------------------------------------------
(* The steps of the phases. *)

\* Jobs of the other phases.
LEMMA OtherJob ==
  ASSUME NEW kind, NEW src, NEW name, NEW plan, NEW size, kind # "journal", kind # "probe"
  PROVE  Startable(Job(kind, src, name, plan, size))
  BY Zenon DEF Startable

LEMMA StartInodeJob == \A ino : StartInode(ino) => job' = job \/ Startable(job')
<1> TAKE ino
<1> HAVE StartInode(ino)
<1> DEFINE name == <<"out", Resolved(ino)>>
           plan == TravelPlan(disk, disk.inodes[ino])
<1>1. job' = job \/ job' = Job("inode", ino, name, plan, 0)
  BY DEF StartInode
<1> HIDE DEF name, plan
<1> QED
  BY <1>1, OtherJob

LEMMA StartTreeJob == \A b, h : StartTree(b, h) => job' = NoJob \/ Startable(job')
<1> TAKE b, h
<1> HAVE StartTree(b, h)
<1> DEFINE plan == TreePlan(walk_extent_tree(disk, h).exts)
<1>1. job' = NoJob \/ job' = Job("tree", b, <<"tree", b>>, plan, 0)
  BY DEF StartTree
<1> HIDE DEF plan
<1> QED
  BY <1>1, OtherJob

LEMMA StartLeafJob == \A b, h : StartLeaf(b, h) => job' = NoJob \/ Startable(job')
<1> TAKE b, h
<1> HAVE StartLeaf(b, h)
<1>1. job' = NoJob \/ job' = Job("leaf", b, <<"leaf", b>>, LeafPlan(h), 0)
  BY DEF StartLeaf
<1> QED
  BY <1>1, OtherJob

\* What the journal phase makes of a copy.
LEMMA JournalCopyJob ==
  ASSUME JournalInv, disk \in Disks, JournalCopy
  PROVE  pos \in Nat \ {0} /\ (job' = job \/ job' = NoJob \/ Startable(job'))
<1> DEFINE c == disk.copies[pos]
<1>1. /\ phase = "journal" /\ ~Over
      /\ \/ Pass
         \/ c.kind = "extents" /\ FromExtents(c)
         \/ c.kind # "extents" /\ FromInode(c)
  BY DEF JournalCopy, Turn
<1>2. pos \in Nat \ {0} /\ pos <= Len(disk.copies) /\ disk.copies \in Seq(InodeCopies)
  <2>1. pos \in Nat \ {0} /\ disk.copies \in Seq(InodeCopies)
    BY <1>1, DisksAssumption DEF JournalInv, DiskOK
  <2>2. ~(pos > Len(disk.copies))
    BY <1>1 DEF Over
  <2>3. Len(disk.copies) \in Nat
    BY <2>1
  <2> HIDE DEF InodeCopies
  <2> QED
    BY <2>1, <2>2, <2>3
<1>3. pos \in DOMAIN disk.copies /\ c \in InodeCopies
  <2> HIDE DEF InodeCopies
  <2> QED
    BY <1>2
<1>4. c \in CopiesOf(c.ino) /\ JournalPlan(AsOf(c), c) \in Seq(Genuine(c))
  <2>1. c \in ToSet(disk.copies)
    BY <1>3 DEF ToSet
  <2> HIDE DEF c
  <2> QED
    BY <2>1, JournalPlanGenuine DEF CopiesOf
<1>5. c.kind \in {"extents", "inline", "indirect"}
  <2> HIDE DEF c
  <2> QED
    BY <1>3 DEF InodeCopies
<1> DEFINE plan == JournalPlan(AsOf(c), c)
           name == <<IF c.kind = "inline" THEN "inline" ELSE "ind", Resolved(c.ino)>>
           other == IF c.kind = "inline" THEN <<>> ELSE IndirectPlan(disk, c.ptrs)
<1>6. CASE Pass
  BY <1>2, <1>6 DEF Pass
<1>7. CASE c.kind = "extents" /\ FromExtents(c)
  <2>1. Pass \/ job' = Job("journal", c.ino, JournalName(c.ino), plan, c.size)
    BY <1>7 DEF FromExtents
  <2>2. JournalName(c.ino)[1] = "tmp"
    BY DEF JournalName
  <2>3. \E x \in CopiesOf(c.ino) : plan \in Seq(Genuine(x))
    <3> DEFINE x == c
    <3>1. x \in CopiesOf(c.ino) /\ plan \in Seq(Genuine(x))
      BY <1>4
    <3> HIDE DEF x, c, plan
    <3> QED
      BY <3>1
  <2> HIDE DEF plan, c
  <2>4. Startable(Job("journal", c.ino, JournalName(c.ino), plan, c.size))
    <3> DEFINE n == JournalName(c.ino)
               i == c.ino
               s == c.size
    <3>1. n[1] = "tmp" /\ \E x \in CopiesOf(i) : plan \in Seq(Genuine(x))
      BY <2>2, <2>3
    <3> HIDE DEF n, i, s
    <3>2. /\ "journal" = "journal" => n[1] = "tmp" /\ \E x \in CopiesOf(i) : plan \in Seq(Genuine(x))
          /\ "journal" = "probe" => n[1] = "targeted"
      BY <2>3, <3>1
    <3>3. Startable(Job("journal", i, n, plan, s))
      BY <3>2, Zenon DEF Startable
    <3> QED
      BY <3>3 DEF n, i, s
  <2> QED
    BY <1>2, <1>6, <2>1, <2>4 DEF Pass
<1>8. CASE c.kind # "extents" /\ FromInode(c)
  <2>1. job' = NoJob \/ job' = Job(c.kind, c.ino, name, other, c.size)
    BY <1>8 DEF FromInode
  <2>2. c.kind # "journal" /\ c.kind # "probe"
    BY <1>5
  <2> HIDE DEF c, name, other
  <2> QED
    BY <1>2, <2>1, <2>2, OtherJob
<1> QED
  BY <1>1, <1>6, <1>7, <1>8

LEMMA LoopingJournal ==
  ASSUME JournalInv, disk \in Disks, Looping
  PROVE  JournalInv'
<1>1. UNCHANGED <<disk, files, owner, planned, phase>>
  BY DEF Looping, OrphanChain, OrphanFile, JournalCopy, NormalInode, ScanBlock, RevokedBlock, dirvars
<1>2. (job' = job \/ job' = NoJob \/ Startable(job')) /\ (phase = "journal" => pos' \in Nat \ {0})
  <2>1. CASE OrphanChain
    <3>1. (StartInode(pos) \/ Pass) /\ phase = "orphan"
      BY <2>1 DEF OrphanChain, Turn
    <3> QED
      BY <3>1, StartInodeJob DEF Pass
  <2>2. CASE OrphanFile
    <3>1. (StartInode(disk.orphan_file[pos]) \/ Pass) /\ phase = "orphan"
      BY <2>2 DEF OrphanFile, Turn
    <3> QED
      BY <3>1, StartInodeJob DEF Pass
  <2>3. CASE NormalInode
    <3>1. (StartInode(pos) \/ Pass) /\ phase = "normal"
      BY <2>3 DEF NormalInode, Turn
    <3> QED
      BY <3>1, StartInodeJob DEF Pass
  <2>4. CASE JournalCopy
    <3>1. pos' = pos + 1
      BY <2>4 DEF JournalCopy
    <3>2. pos \in Nat \ {0} /\ (job' = job \/ job' = NoJob \/ Startable(job'))
      BY <2>4, JournalCopyJob
    <3>3. pos' \in Nat \ {0}
      BY <3>1, <3>2
    <3> QED
      BY <3>2, <3>3
  <2>5. CASE ScanBlock
    <3>1. phase = "aggressive" /\ (job' = job \/ \E b, h : StartLeaf(b, h) \/ StartTree(b, h))
      BY <2>5 DEF ScanBlock, Turn
    <3> QED
      BY <3>1, StartLeafJob, StartTreeJob
  <2>6. CASE RevokedBlock
    <3> DEFINE b == disk.revoked[pos]
               h == read_tree_block_versioned(disk, b)
               name == <<"targeted", b>>
    <3>1. /\ phase = "targeted"
          /\ \/ job' = job
             \/ job' = Job("targeted", b, name, ClearedPlan(h.slots), 0)
             \/ job' = Job("probe", b, name, <<>>, 0)
      BY <2>6 DEF RevokedBlock, Turn
    <3>2. name[1] = "targeted"
      OBVIOUS
    <3> DEFINE plan == ClearedPlan(h.slots)
    <3> HIDE DEF b, h, name
    <3>3. Startable(Job("probe", b, name, <<>>, 0))
      BY <3>2, Zenon DEF Startable
    <3>4. Startable(Job("targeted", b, name, plan, 0))
      BY OtherJob
    <3> QED
      BY <3>1, <3>3, <3>4
  <2> QED
    BY <2>1, <2>2, <2>3, <2>4, <2>5, <2>6 DEF Looping
<1> QED
  BY <1>1, <1>2, OutputsSame, OutputStarted

-----------------------------------------------------------------------------
(* Copying an extent. *)

\* The part of e that a chunk of t blocks, after the first d, fills.
Filling(e, d, t) == [l \in e.at + d .. e.at + d + t - 1 |-> e.start + d + l - (e.at + d)]
ChunkLen(e, d) == IF e.len - d > Chunk THEN Chunk ELSE e.len - d

LEMMA ChunkFits ==
  ASSUME NEW e \in Exts, NEW d \in Nat, d <= e.len
  PROVE  ChunkLen(e, d) \in Nat /\ d + ChunkLen(e, d) <= e.len
<1>1. e.len \in Nat /\ Chunk \in Nat
  BY RunAssumption DEF Exts
<1> DEFINE n == e.len
<1> HIDE DEF n
<1>2. n \in Nat /\ d <= n /\ ChunkLen(e, d) = IF n - d > Chunk THEN Chunk ELSE n - d
  BY <1>1 DEF n, ChunkLen
<1>3. CASE n - d > Chunk
  BY <1>1, <1>2, <1>3 DEF n
<1>4. CASE ~(n - d > Chunk)
  BY <1>1, <1>2, <1>4 DEF n
<1> QED
  BY <1>3, <1>4

\* A chunk is taken from the blocks of its extent.
LEMMA FillingBlocks ==
  ASSUME NEW e \in Exts, NEW d \in Nat, NEW t \in Nat, d + t <= e.len
  PROVE  \A l \in DOMAIN Filling(e, d, t) : Filling(e, d, t)[l] \in BlocksOf(e)
<1> DEFINE a == e.at
           s == e.start
           n == e.len
<1>1. a \in Nat /\ s \in Nat /\ n \in Nat /\ d + t <= n
  BY DEF Exts
<1>2. Filling(e, d, t) = [l \in a + d .. a + d + t - 1 |-> s + d + l - (a + d)] /\ BlocksOf(e) = s .. s + n - 1
  BY DEF Filling, BlocksOf
<1> HIDE DEF a, s, n
<1>3. \A l \in a + d .. a + d + t - 1 : s + d + l - (a + d) \in s .. s + n - 1
  BY <1>1
<1> QED
  BY <1>2, <1>3

\* Nothing unwanted gets in.
LEMMA OverlayClean ==
  ASSUME NEW R, NEW f, NEW g, \A l \in DOMAIN f : f[l] \notin R, \A l \in DOMAIN g : g[l] \notin R
  PROVE  \A l \in DOMAIN Overlay(f, g) : Overlay(f, g)[l] \notin R
  BY DEF Overlay

\* The chunks of an extent, one after the other, and from the last on to the next extent.
LEMMA UptoGrows ==
  ASSUME NEW plan \in Seq(Exts), NEW k \in 0 .. Len(plan) - 1, NEW d \in Nat, NEW t \in Nat
  PROVE  Overlay(Upto(plan, k, d), Filling(plan[k + 1], d, t)) = Upto(plan, k, d + t)
<1>1. k # Len(plan) /\ k + 1 \in 1 .. Len(plan)
  <2> HIDE DEF Exts
  <2> QED
    OBVIOUS
<1> DEFINE e == plan[k + 1]
           c == CopiesUpto(plan)[k]
           f == Filling(e, d, t)
           p == Piece([e EXCEPT !.len = d])
           q == Piece([e EXCEPT !.len = d + t])
<1>2. e \in Exts
  <2> HIDE DEF Exts
  <2> QED
    BY <1>1
<1>3. Overlay(p, f) = q
  <2> HIDE DEF e
  <2> QED
    BY <1>2, PieceGrows DEF Filling
<1>4. Upto(plan, k, d) = Overlay(c, p) /\ Upto(plan, k, d + t) = Overlay(c, q)
  BY <1>1 DEF Upto
<1> HIDE DEF e, c, f, p, q
<1>5. Overlay(Overlay(c, p), f) = Overlay(c, Overlay(p, f))
  BY OverlayTwice
<1> QED
  BY <1>3, <1>4, <1>5 DEF f, e

LEMMA PieceNothing ==
  ASSUME NEW e \in Exts
  PROVE  DOMAIN Piece([e EXCEPT !.len = 0]) = {}
<1> DEFINE x == [e EXCEPT !.len = 0]
<1>1. x.at = e.at /\ x.len = 0 /\ e.at \in Nat
  BY DEF Exts
<1>2. DOMAIN Piece(x) = x.at .. x.at + x.len - 1
  BY DEF Piece
<1> DEFINE a == e.at
<1>3. a \in Nat
  BY <1>1
<1> HIDE DEF a
<1>4. a .. a + 0 - 1 = {}
  BY <1>3
<1> HIDE DEF x
<1> QED
  BY <1>1, <1>2, <1>4 DEF a, x

LEMMA UptoNothing ==
  ASSUME NEW plan \in Seq(Exts), NEW k \in 0 .. Len(plan)
  PROVE  Upto(plan, k, 0) = CopiesUpto(plan)[k]
<1> DEFINE c == CopiesUpto(plan)[k]
<1>1. c \in Contents
  BY CopiesRun
<1>2. CASE k = Len(plan)
  BY <1>2 DEF Upto
<1>3. CASE k # Len(plan)
  <2> DEFINE e == plan[k + 1]
             p == Piece([e EXCEPT !.len = 0])
  <2>1. e \in Exts
    <3> HIDE DEF Exts
    <3> QED
      BY <1>3
  <2>2. DOMAIN p = {}
    <3> HIDE DEF e
    <3> QED
      BY <2>1, PieceNothing
  <2>3. Upto(plan, k, 0) = Overlay(c, p)
    BY <1>3 DEF Upto
  <2> HIDE DEF c, p
  <2> QED
    BY <1>1, <2>2, <2>3, OverlayNothing DEF c
<1> QED
  BY <1>2, <1>3

LEMMA UptoNext ==
  ASSUME NEW plan \in Seq(Exts), NEW k \in 0 .. Len(plan) - 1
  PROVE  Upto(plan, k, plan[k + 1].len) = Upto(plan, k + 1, 0)
<1>1. k # Len(plan) /\ k + 1 \in 1 .. Len(plan) /\ k + 1 \in 0 .. Len(plan) /\ k + 1 - 1 = k
  <2> HIDE DEF Exts
  <2> QED
    OBVIOUS
<1> DEFINE e == plan[k + 1]
<1>2. e \in Exts
  <2> HIDE DEF Exts
  <2> QED
    BY <1>1
<1>3. [e EXCEPT !.len = e.len] = e
  <2> HIDE DEF e
  <2> QED
    BY <1>2 DEF Exts
<1>4. Upto(plan, k, e.len) = Overlay(CopiesUpto(plan)[k], Piece(e))
  BY <1>1, <1>3 DEF Upto
<1>5. CopiesUpto(plan)[k + 1] = Overlay(CopiesUpto(plan)[k + 1 - 1], Piece(plan[k + 1]))
  BY <1>1, CopiesRun
<1>6. Upto(plan, k + 1, 0) = CopiesUpto(plan)[k + 1]
  BY <1>1, UptoNothing
<1> HIDE DEF e
<1> QED
  BY <1>1, <1>4, <1>5, <1>6 DEF e

-----------------------------------------------------------------------------
(* How far a dump is. *)

\* Progress, of job j with file f.
Along(j, G) ==
    LET k == Len(j.plan) - Len(j.todo)
    IN /\ j.plan \in Seq(G) /\ j.todo \in Seq(G)
       /\ k \in 0 .. Len(j.plan)
       /\ \A i \in 1 .. Len(j.todo) : j.todo[i] = j.plan[k + i]
       /\ j.done \in Nat /\ (j.todo # <<>> => j.done <= j.todo[1].len)
       /\ ~j.stopped => j.ok = LengthUpto(j.plan)[k]
Holding(j, f, R) ==
    /\ ~j.stopped => f = Upto(j.plan, Len(j.plan) - Len(j.todo), j.done)
    /\ \A l \in DOMAIN f : f[l] \notin R
Clean(R) == {e \in Exts : BlocksOf(e) \cap R = {}}

LEMMA CleanType == \A R : \A plan \in Seq(Clean(R)) : plan \in Seq(Exts)
<1> TAKE R
<1> TAKE plan \in Seq(Clean(R))
<1>1. Clean(R) \subseteq Exts
  BY DEF Clean
<1> HIDE DEF Exts
<1>2. \A i \in 1 .. Len(plan) : plan[i] \in Clean(R)
  OBVIOUS
<1>3. Len(plan) \in Nat /\ plan = [i \in 1 .. Len(plan) |-> plan[i]]
  OBVIOUS
<1> QED
  BY <1>1, <1>2, <1>3

\* The first thing to do is the next of the plan, and the rest is the plan's rest.
LEMMA NextOfPlan ==
  ASSUME NEW G, NEW plan \in Seq(G), NEW todo \in Seq(G), todo # <<>>,
         NEW k, k = Len(plan) - Len(todo), k \in 0 .. Len(plan),
         \A i \in 1 .. Len(todo) : todo[i] = plan[k + i]
  PROVE  /\ k \in 0 .. Len(plan) - 1 /\ todo[1] = plan[k + 1] /\ todo[1] \in G
         /\ Tail(todo) \in Seq(G) /\ Len(plan) - Len(Tail(todo)) = k + 1 /\ k + 1 \in 0 .. Len(plan)
         /\ \A i \in 1 .. Len(Tail(todo)) : Tail(todo)[i] = plan[k + 1 + i]
<1>1. Len(todo) \in Nat \ {0} /\ Len(plan) \in Nat
  OBVIOUS
<1>2. Tail(todo) \in Seq(G) /\ Len(Tail(todo)) = Len(todo) - 1
  OBVIOUS
<1>3. \A i \in 1 .. Len(todo) - 1 : Tail(todo)[i] = todo[i + 1]
  OBVIOUS
<1> DEFINE n == Len(todo)
           m == Len(plan)
<1>4. n \in Nat \ {0} /\ m \in Nat /\ k = m - n /\ k \in 0 .. m
  BY <1>1
<1>5. \A i \in 1 .. n : todo[i] = plan[k + i]
  OBVIOUS
<1> HIDE DEF n, m
<1>6. 1 \in 1 .. n /\ k \in 0 .. m - 1 /\ m - (n - 1) = k + 1 /\ k + 1 \in 0 .. m
  <2>1. k \in Int /\ k >= 0 /\ n >= 1
    BY <1>4
  <2>2. m - (n - 1) = k + 1 /\ 1 \in 1 .. n
    BY <1>4, <2>1
  <2>3. k <= m - 1
    BY <1>4, <2>1
  <2> QED
    BY <1>4, <2>1, <2>2, <2>3
<1>7. \A i \in 1 .. n - 1 : i + 1 \in 1 .. n /\ k + (i + 1) = k + 1 + i
  BY <1>4
<1>8. todo[1] = plan[k + 1]
  BY <1>5, <1>6
<1>9. todo[1] \in G
  BY <1>6 DEF n
<1>10. \A i \in 1 .. n - 1 : Tail(todo)[i] = plan[k + 1 + i]
  <2> SUFFICES ASSUME NEW i \in 1 .. n - 1 PROVE Tail(todo)[i] = plan[k + 1 + i]
    OBVIOUS
  <2>1. Tail(todo)[i] = todo[i + 1]
    BY <1>3 DEF n
  <2>2. todo[i + 1] = plan[k + (i + 1)]
    BY <1>5, <1>7
  <2> QED
    BY <1>7, <2>1, <2>2
<1> QED
  BY <1>2, <1>6, <1>8, <1>9, <1>10 DEF n, m

\* A chunk is copied.
LEMMA AlongChunk ==
  ASSUME NEW R, NEW j, DOMAIN j = JobFields, Along(j, Clean(R)), NEW f, Holding(j, f, R), j.todo # <<>>,
         NEW t, t = ChunkLen(j.todo[1], j.done)
  PROVE  LET g == Overlay(f, Filling(j.todo[1], j.done, t))
             o == IF j.done + t = j.todo[1].len
                  THEN [j EXCEPT !.todo = Tail(@), !.done = 0, !.ok = @ + j.todo[1].len]
                  ELSE [j EXCEPT !.done = @ + t]
         IN Along(o, Clean(R)) /\ Holding(o, g, R)
<1> DEFINE G == Clean(R)
           plan == j.plan
           todo == j.todo
           d == j.done
           k == Len(plan) - Len(todo)
           e == todo[1]
           fill == Filling(e, d, t)
           g == Overlay(f, fill)
<1>1. /\ plan \in Seq(G) /\ todo \in Seq(G) /\ k \in 0 .. Len(plan) /\ todo # <<>>
      /\ \A i \in 1 .. Len(todo) : todo[i] = plan[k + i]
      /\ d \in Nat /\ d <= e.len
      /\ ~j.stopped => j.ok = LengthUpto(plan)[k]
  BY DEF Along
<1>2. /\ ~j.stopped => f = Upto(plan, k, d)
      /\ \A l \in DOMAIN f : f[l] \notin R
  BY DEF Holding
<1>3. plan \in Seq(Exts)
  BY <1>1, CleanType
<1> HIDE DEF G, plan, todo, d
<1>4. /\ k \in 0 .. Len(plan) - 1 /\ todo[1] = plan[k + 1] /\ todo[1] \in G
      /\ Tail(todo) \in Seq(G) /\ Len(plan) - Len(Tail(todo)) = k + 1 /\ k + 1 \in 0 .. Len(plan)
      /\ \A i \in 1 .. Len(Tail(todo)) : Tail(todo)[i] = plan[k + 1 + i]
  <2> DEFINE kk == k
  <2>1. kk = Len(plan) - Len(todo) /\ kk \in 0 .. Len(plan) /\ \A i \in 1 .. Len(todo) : todo[i] = plan[kk + i]
    BY <1>1
  <2> HIDE DEF kk
  <2>2. /\ kk \in 0 .. Len(plan) - 1 /\ todo[1] = plan[kk + 1] /\ todo[1] \in G
        /\ Tail(todo) \in Seq(G) /\ Len(plan) - Len(Tail(todo)) = kk + 1 /\ kk + 1 \in 0 .. Len(plan)
        /\ \A i \in 1 .. Len(Tail(todo)) : Tail(todo)[i] = plan[kk + 1 + i]
    BY <1>1, <2>1, NextOfPlan
  <2> QED
    BY <2>2 DEF kk
<1>5. e \in Exts /\ BlocksOf(e) \cap R = {}
  BY <1>4 DEF G, Clean
<1>6. t = ChunkLen(e, d)
  BY DEF todo, d
<1> HIDE DEF e, k
<1>7. t \in Nat /\ d + t <= e.len /\ d + t \in Nat /\ e.len \in Nat
  <2>1. t \in Nat /\ d + t <= e.len
    BY <1>1, <1>5, <1>6, ChunkFits
  <2> QED
    BY <1>1, <1>5, <2>1 DEF Exts
<1>8. \A l \in DOMAIN fill : fill[l] \notin R
  <2>1. \A l \in DOMAIN fill : fill[l] \in BlocksOf(e)
    BY <1>1, <1>5, <1>7, FillingBlocks
  <2> QED
    BY <1>5, <2>1
<1> HIDE DEF fill
<1>9. \A l \in DOMAIN g : g[l] \notin R
  BY <1>2, <1>8, OverlayClean
<1>10. ~j.stopped => g = Upto(plan, k, d + t)
  <2>1. e = plan[k + 1]
    BY <1>4 DEF e
  <2>2. Overlay(Upto(plan, k, d), Filling(plan[k + 1], d, t)) = Upto(plan, k, d + t)
    BY <1>1, <1>3, <1>4, <1>7, UptoGrows
  <2> QED
    BY <1>2, <2>1, <2>2 DEF fill
<1> HIDE DEF g
<1> SUFFICES LET o == IF d + t = e.len
                      THEN [j EXCEPT !.todo = Tail(@), !.done = 0, !.ok = @ + e.len]
                      ELSE [j EXCEPT !.done = @ + t]
             IN Along(o, G) /\ Holding(o, g, R)
  BY DEF g, fill, e, d, todo, G
<1>11. CASE d + t = e.len
  <2> DEFINE o == [j EXCEPT !.todo = Tail(@), !.done = 0, !.ok = @ + e.len]
  <2>1. /\ o.plan = plan /\ o.todo = Tail(todo) /\ o.done = 0 /\ o.ok = j.ok + e.len
        /\ o.stopped = j.stopped
    BY Fields DEF plan, todo
  <2> HIDE DEF o
  <2>2. ~j.stopped => o.ok = LengthUpto(plan)[k + 1]
    <3> SUFFICES ASSUME ~j.stopped PROVE o.ok = LengthUpto(plan)[k + 1]
      OBVIOUS
    <3>1. k + 1 \in 1 .. Len(plan) /\ (k + 1) - 1 = k
      <4> HIDE DEF Exts
      <4>1. Len(plan) \in Nat
        BY <1>3
      <4> QED
        BY <1>4, <4>1
    <3>2. LengthUpto(plan)[k + 1] = LengthUpto(plan)[(k + 1) - 1] + plan[k + 1].len
      <4> DEFINE up == LengthUpto(plan)
      <4>1. \A n \in 1 .. Len(plan) : up[n] = up[n - 1] + plan[n].len
        BY <1>3, LengthRun
      <4> DEFINE x == k + 1
      <4>2. x \in 1 .. Len(plan)
        BY <3>1
      <4> HIDE DEF up, x
      <4>3. up[x] = up[x - 1] + plan[x].len
        BY <4>1, <4>2
      <4> QED
        BY <4>3 DEF up, x
    <3> QED
      BY <1>1, <1>4, <2>1, <3>1, <3>2 DEF e
  <2>3. ~j.stopped => g = Upto(plan, k + 1, 0)
    <3>1. Upto(plan, k, plan[k + 1].len) = Upto(plan, k + 1, 0)
      BY <1>3, <1>4, UptoNext
    <3> QED
      BY <1>4, <1>10, <1>11, <3>1 DEF e
  <2>4. Tail(todo) # <<>> => 0 <= Tail(todo)[1].len
    <3> SUFFICES ASSUME Tail(todo) # <<>> PROVE 0 <= Tail(todo)[1].len
      OBVIOUS
    <3> DEFINE x == Tail(todo)[1]
    <3>1. x \in G
      BY <1>4
    <3> HIDE DEF x
    <3>2. x.len \in Nat
      BY <3>1 DEF G, Clean, Exts
    <3> QED
      BY <3>2 DEF x
  <2> DEFINE rest == Tail(todo)
             kk == k + 1
  <2>5. /\ rest \in Seq(G) /\ Len(plan) - Len(rest) = kk /\ kk \in 0 .. Len(plan)
        /\ \A i \in 1 .. Len(rest) : rest[i] = plan[kk + i]
        /\ o.todo = rest /\ (rest # <<>> => 0 <= rest[1].len)
        /\ ~j.stopped => o.ok = LengthUpto(plan)[kk]
        /\ ~j.stopped => g = Upto(plan, kk, 0)
    BY <1>4, <2>1, <2>2, <2>3, <2>4
  <2> HIDE DEF rest, kk
  <2>6. Along(o, G)
    <3>1. /\ o.plan \in Seq(G) /\ o.todo \in Seq(G) /\ o.plan = plan /\ Len(o.plan) - Len(o.todo) = kk
      BY <1>1, <2>1, <2>5
    <3>a. o.done \in Nat /\ (o.todo # <<>> => o.done <= o.todo[1].len)
      <4>1. o.done = 0 /\ o.todo = rest
        BY <2>1, <2>5
      <4>2. rest # <<>> => 0 <= rest[1].len
        BY <2>5
      <4>3. o.done \in Nat
        BY <4>1
      <4> QED
        BY <4>1, <4>2, <4>3, Zenon
    <3>b. ~o.stopped => o.ok = LengthUpto(o.plan)[kk]
      BY <2>1, <2>5, Zenon
    <3>2. kk \in 0 .. Len(o.plan) /\ \A i \in 1 .. Len(o.todo) : o.todo[i] = o.plan[kk + i]
      BY <2>1, <2>5
    <3> QED
      BY <3>1, <3>2, <3>a, <3>b DEF Along
  <2>7. Holding(o, g, R)
    BY <1>9, <2>1, <2>5 DEF Holding
  <2> QED
    BY <1>11, <2>6, <2>7 DEF o
<1>12. CASE d + t # e.len
  <2> DEFINE o == [j EXCEPT !.done = @ + t]
  <2>1. o.plan = plan /\ o.todo = todo /\ o.done = d + t /\ o.ok = j.ok /\ o.stopped = j.stopped
    BY Fields DEF plan, todo, d
  <2> HIDE DEF o
  <2> DEFINE n == d + t
  <2>2. n \in Nat /\ n <= todo[1].len /\ o.done = n /\ (~j.stopped => g = Upto(plan, k, n))
    BY <1>7, <1>10, <2>1 DEF e
  <2> HIDE DEF n
  <2>3. k = Len(plan) - Len(todo)
    BY DEF k
  <2>4. Along(o, G)
    BY <1>1, <2>1, <2>2, <2>3 DEF Along
  <2>5. Holding(o, g, R)
    BY <1>9, <2>1, <2>2, <2>3 DEF Holding
  <2> QED
    BY <1>12, <2>4, <2>5 DEF o
<1> QED
  BY <1>11, <1>12

\* A chunk is left out, or cut short after n blocks.
LEMMA AlongFails ==
  ASSUME NEW R, NEW j, DOMAIN j = JobFields, Along(j, Clean(R)), NEW f, Holding(j, f, R), j.todo # <<>>
  PROVE  LET o == [j EXCEPT !.todo = Tail(@), !.done = 0, !.stopped = TRUE]
         IN /\ Along(o, Clean(R)) /\ Holding(o, f, R)
            /\ \A n \in 0 .. ChunkLen(j.todo[1], j.done) - 1 :
                 Holding(o, Overlay(f, Filling(j.todo[1], j.done, n)), R)
<1> DEFINE G == Clean(R)
           plan == j.plan
           todo == j.todo
           d == j.done
           k == Len(plan) - Len(todo)
           e == todo[1]
           rest == Tail(todo)
           o == [j EXCEPT !.todo = Tail(@), !.done = 0, !.stopped = TRUE]
<1>1. /\ plan \in Seq(G) /\ todo \in Seq(G) /\ k \in 0 .. Len(plan) /\ todo # <<>>
      /\ \A i \in 1 .. Len(todo) : todo[i] = plan[k + i]
      /\ d \in Nat /\ d <= e.len
  BY DEF Along
<1>2. \A l \in DOMAIN f : f[l] \notin R
  BY DEF Holding
<1>3. o.plan = plan /\ o.todo = rest /\ o.done = 0 /\ o.stopped = TRUE
  BY Fields
<1> HIDE DEF G, plan, todo, d, o
<1>4. \E kk : /\ e \in G /\ rest \in Seq(G) /\ Len(plan) - Len(rest) = kk /\ kk \in 0 .. Len(plan)
              /\ \A i \in 1 .. Len(rest) : rest[i] = plan[kk + i]
  <2>1. k = Len(plan) - Len(todo) /\ k \in 0 .. Len(plan) /\ \A i \in 1 .. Len(todo) : todo[i] = plan[k + i]
    BY <1>1
  <2> HIDE DEF k
  <2>2. /\ k \in 0 .. Len(plan) - 1 /\ todo[1] = plan[k + 1] /\ todo[1] \in G
        /\ Tail(todo) \in Seq(G) /\ Len(plan) - Len(Tail(todo)) = k + 1 /\ k + 1 \in 0 .. Len(plan)
        /\ \A i \in 1 .. Len(Tail(todo)) : Tail(todo)[i] = plan[k + 1 + i]
    BY <1>1, <2>1, NextOfPlan
  <2> QED
    BY <2>2
<1>5. PICK kk : /\ e \in G /\ rest \in Seq(G) /\ Len(plan) - Len(rest) = kk /\ kk \in 0 .. Len(plan)
                /\ \A i \in 1 .. Len(rest) : rest[i] = plan[kk + i]
  BY <1>4
<1>6. e \in Exts /\ BlocksOf(e) \cap R = {}
  BY <1>5 DEF G, Clean
<1> HIDE DEF e, rest
<1>7. rest # <<>> => 0 <= rest[1].len
  <2> SUFFICES ASSUME rest # <<>> PROVE 0 <= rest[1].len
    OBVIOUS
  <2> DEFINE x == rest[1]
  <2>1. x \in G
    BY <1>5
  <2> HIDE DEF x
  <2>2. x.len \in Nat
    BY <2>1 DEF G, Clean, Exts
  <2> QED
    BY <2>2 DEF x
<1>8. Along(o, G)
  <2>1. /\ o.plan \in Seq(G) /\ o.todo \in Seq(G) /\ Len(o.plan) - Len(o.todo) = kk
    BY <1>1, <1>3, <1>5
  <2>2. o.done \in Nat
    BY <1>3
  <2>3. o.todo # <<>> => o.done <= o.todo[1].len
    BY <1>3, <1>7, Zenon
  <2>4. kk \in 0 .. Len(o.plan) /\ \A i \in 1 .. Len(o.todo) : o.todo[i] = o.plan[kk + i]
    BY <1>3, <1>5
  <2> QED
    BY <1>3, <2>1, <2>2, <2>3, <2>4 DEF Along
<1>9. Holding(o, f, R)
  BY <1>2, <1>3 DEF Holding
<1>10. ASSUME NEW n \in 0 .. ChunkLen(e, d) - 1
       PROVE  Holding(o, Overlay(f, Filling(e, d, n)), R)
  <2>1. ChunkLen(e, d) \in Nat /\ d + ChunkLen(e, d) <= e.len
    BY <1>1, <1>6, ChunkFits DEF e
  <2>2. e.len \in Nat
    BY <1>6 DEF Exts
  <2> DEFINE m == ChunkLen(e, d)
             len == e.len
  <2>3. m \in Nat /\ d + m <= len /\ len \in Nat /\ n \in 0 .. m - 1
    BY <2>1, <2>2
  <2> HIDE DEF m, len
  <2>4. n \in Nat /\ d + n <= len
    BY <1>1, <2>3
  <2>5. n \in Nat /\ d + n <= e.len
    BY <2>4 DEF len
  <2> DEFINE fill == Filling(e, d, n)
  <2>6. \A l \in DOMAIN fill : fill[l] \in BlocksOf(e)
    BY <1>1, <1>6, <2>5, FillingBlocks
  <2>7. \A l \in DOMAIN fill : fill[l] \notin R
    BY <1>6, <2>6
  <2> HIDE DEF fill
  <2>8. \A l \in DOMAIN Overlay(f, fill) : Overlay(f, fill)[l] \notin R
    BY <1>2, <2>7, OverlayClean
  <2>9. Holding(o, Overlay(f, fill), R)
    BY <1>3, <2>8 DEF Holding
  <2> QED
    BY <2>9 DEF fill
<1> QED
  BY <1>8, <1>9, <1>10 DEF G, o, e, d, todo

\* Progress, put so.
InStep(j, fs, R) ==
    /\ Along(j, Clean(R))
    /\ ~j.open => Len(j.plan) - Len(j.todo) = 0 /\ j.done = 0
    /\ j.open => j.name \in DOMAIN fs /\ Holding(j, fs[j.name], R)

LEMMA ProgressIs == \A c : Progress(c) <=> InStep(job, files, Reused(c))
<1> TAKE c
<1>1. Genuine(c) = Clean(Reused(c))
  BY DEF Genuine, Clean
<1> QED
  BY <1>1 DEF Progress, InStep, Along, Holding

LEMMA ProgressNext == \A c : Progress(c)' <=> InStep(job', files', Reused(c)')
<1> TAKE c
<1>1. Genuine(c)' = Clean(Reused(c)')
  BY DEF Genuine, Clean
<1> QED
  BY <1>1 DEF Progress, InStep, Along, Holding

\* A step of the journal phase's own dump, in its temporary file.
LEMMA TemporaryFile ==
  ASSUME JournalInv, UNCHANGED <<disk, owner, planned, phase, pos>>, job # NoJob, job.kind = "journal",
         Only(job.name),
         job' = NoJob \/ (Updated(job, job', {"open", "todo", "done", "ok", "stopped"}) /\ \E c \in CopiesOf(job.src) : Progress(c)')
  PROVE  JournalInv'
<1>2. job.name[1] = "tmp" /\ \A n \in DOMAIN owner : owner[n].by = "journal" => n # job.name
  BY DEF JournalInv, OwnersInv
<1>3. \A n \in DOMAIN owner : owner[n].by = "journal" =>
        n \in DOMAIN files /\ files[n] = planned[n] /\ Untouched(files[n], owner[n].src)
  BY NoReusedIs DEF JournalInv, JournalAtomic
<1>4. \A n \in DOMAIN owner : owner[n].by = "journal" =>
        n \in DOMAIN files' /\ files'[n] = files[n]
  BY <1>2, <1>3 DEF Only
<1>5. JournalAtomic'
  BY <1>3, <1>4 DEF JournalAtomic
<1>6. NoReusedBlocks'
  <2> HIDE DEF Untouched
  <2> QED
    BY <1>3, <1>4, NoReusedNext
<1>7. job' # NoJob => DOMAIN job' = JobFields /\ job'.kind = job.kind /\ job'.src = job.src /\ job'.name = job.name
  BY Fields DEF Updated
<1>8. OwnersInv'
  BY <1>2, <1>7 DEF JournalInv, OwnersInv
<1>9. job' # NoJob => (\E c \in CopiesOf(job.src) : Progress(c))'
  BY <1>7, SameReused DEF CopiesOf
<1> QED
  BY <1>5, <1>6, <1>7, <1>8, <1>9 DEF JournalInv

-----------------------------------------------------------------------------
(* Opening and copying. *)

LEMMA OpenFileJournal ==
  ASSUME JournalInv, OpenFile
  PROVE  JournalInv'
<1>1. /\ UNCHANGED <<disk, phase, pos>> /\ job # NoJob /\ ~job.open
      /\ job' = [job EXCEPT !.open = TRUE]
      /\ files' = Put(files, job.name, NoFile)
      /\ IF job.kind \in {"journal", "probe"} THEN UNCHANGED <<owner, planned>>
         ELSE /\ owner' = Put(owner, job.name, [src |-> job.src, by |-> job.kind])
              /\ planned' = Put(planned, job.name, Target(job.kind, job.plan, job.size))
  BY DEF OpenFile, run
<1>2. DOMAIN job = JobFields
  BY <1>1 DEF JournalInv, OwnersInv
<1>3. /\ Updated(job, job', {"open"}) /\ job'.open = TRUE
      /\ job'.kind = job.kind /\ job'.name = job.name /\ job'.plan = job.plan /\ job'.todo = job.todo
      /\ job'.done = job.done /\ job'.ok = job.ok /\ job'.stopped = job.stopped
  BY <1>1, <1>2, Fields DEF Updated
<1>4. Only(job.name)
  BY <1>1, FilesPut
<1>6. CASE job.kind = "journal"
  <2>1. PICK c \in CopiesOf(job.src) : InStep(job, files, Reused(c))
    BY <1>1, <1>6, ProgressIs DEF JournalInv
  <2>2. /\ Along(job, Clean(Reused(c))) /\ Len(job.plan) - Len(job.todo) = 0 /\ job.done = 0
    BY <1>1, <2>1 DEF InStep
  <2> DEFINE plan == job.plan
             R == Reused(c)
  <2>3. plan \in Seq(Clean(R))
    BY <2>2 DEF Along
  <2> HIDE DEF plan, R
  <2>4. plan \in Seq(Exts)
    BY <2>3, CleanType
  <2>5. Upto(plan, 0, 0) = NoFile
    <3>1. 0 \in 0 .. Len(plan)
      <4> HIDE DEF Exts
      <4> QED
        BY <2>4
    <3> QED
      BY <2>4, <3>1, UptoNothing, CopiesRun
  <2>6. job'.name \in DOMAIN files' /\ files'[job'.name] = NoFile
    BY <1>1, <1>3 DEF Put
  <2>7. Along(job', Clean(R))
    BY <1>3, <2>2 DEF Along, R
  <2>8. Holding(job', NoFile, R)
    <3>1. Len(job'.plan) - Len(job'.todo) = 0 /\ job'.done = 0 /\ job'.plan = plan
      BY <1>3, <2>2 DEF plan
    <3> QED
      BY <2>5, <3>1, NoFileType DEF Holding
  <2>9. InStep(job', files', Reused(c)')
    BY <1>1, <1>3, SameReused, <2>6, <2>7, <2>8 DEF InStep, R
  <2>10. Progress(c)'
    BY <2>9, ProgressNext
  <2>11. Updated(job, job', {"open", "todo", "done", "ok", "stopped"})
    BY <1>3 DEF Updated
  <2> QED
    BY <1>1, <1>4, <1>6, <2>10, <2>11, TemporaryFile
<1>7. CASE job.kind # "journal"
  <2>1. \A n \in DOMAIN owner' : owner'[n].by = "journal" =>
          n # job.name /\ n \in DOMAIN owner /\ owner[n].by = "journal" /\ owner'[n] = owner[n] /\ planned'[n] = planned[n]
    <3>1. CASE job.kind = "probe"
      <4>1. job.name[1] = "targeted" /\ UNCHANGED <<owner, planned>>
        BY <1>1, <3>1 DEF JournalInv, OwnersInv
      <4>2. \A n \in DOMAIN owner : owner[n].by = "journal" => n[1] = "out"
        BY DEF JournalInv, OwnersInv
      <4> QED
        BY <4>1, <4>2
    <3>2. CASE job.kind # "probe"
      <4> DEFINE v == [src |-> job.src, by |-> job.kind]
                 w == Target(job.kind, job.plan, job.size)
      <4>1. owner' = Put(owner, job.name, v) /\ planned' = Put(planned, job.name, w) /\ v.by # "journal"
        BY <1>1, <1>7, <3>2
      <4> HIDE DEF v, w
      <4>2. DOMAIN planned = DOMAIN owner
        BY DEF JournalInv, OwnersInv
      <4> QED
        BY <4>1, <4>2 DEF Put
    <3> QED
      BY <3>1, <3>2
  <2>2. \A n \in DOMAIN owner : owner[n].by = "journal" =>
          /\ n[1] = "out" /\ n \in DOMAIN files /\ files[n] = planned[n]
          /\ Untouched(files[n], owner[n].src)
    BY NoReusedIs DEF JournalInv, OwnersInv, JournalAtomic
  <2>3. \A n \in DOMAIN owner' : owner'[n].by = "journal" => n \in DOMAIN files' /\ files'[n] = files[n]
    BY <1>4, <2>1, <2>2 DEF Only
  <2>4. JournalAtomic'
    BY <2>1, <2>2, <2>3 DEF JournalAtomic
  <2>5. NoReusedBlocks'
    <3> HIDE DEF Untouched
    <3> QED
      BY <1>1, <2>1, <2>2, <2>3, NoReusedNext
  <2>6. DOMAIN planned' = DOMAIN owner' /\ (job.kind # "probe" => job.name \in DOMAIN owner' /\ owner'[job.name].by = job.kind)
    <3>1. DOMAIN planned = DOMAIN owner
      BY DEF JournalInv, OwnersInv
    <3> QED
      BY <1>1, <1>7, <3>1 DEF Put
  <2>7. OwnersInv'
    <3>1. job.kind = "probe" => job.name[1] = "targeted"
      BY <1>1 DEF JournalInv, OwnersInv
    <3>2. \A n \in DOMAIN owner' : owner'[n].by = "journal" => n[1] = "out"
      BY <2>1, <2>2
    <3>3. DOMAIN job' = JobFields
      BY <1>3 DEF Updated
    <3> QED
      BY <1>3, <1>7, <2>6, <3>1, <3>2, <3>3 DEF OwnersInv
  <2> QED
    BY <1>1, <1>3, <1>7, <2>4, <2>5, <2>7 DEF JournalInv
<1> QED
  BY <1>6, <1>7

LEMMA CopyChunkJournal ==
  ASSUME JournalInv, CopyChunk
  PROVE  JournalInv'
<1> DEFINE e == job.todo[1]
           d == job.done
           t == ChunkLen(e, d)
           o == IF d + t = e.len THEN [job EXCEPT !.todo = Tail(@), !.done = 0, !.ok = @ + e.len]
                ELSE [job EXCEPT !.done = @ + t]
<1>1. /\ UNCHANGED <<disk, owner, planned, phase, pos>> /\ job # NoJob /\ job.open /\ job.todo # <<>>
      /\ files' = [files EXCEPT ![job.name] =
                     Overlay(@, [l \in At .. At + t - 1 |-> e.start + d + l - At])]
      /\ job' = o
  BY DEF CopyChunk, Copying, run, This, Extent, ChunkLen
<1>2. DOMAIN job = JobFields
  BY <1>1 DEF JournalInv, OwnersInv
<1>3. Only(job.name)
  BY <1>1, FilesExcept
<1>4. Updated(job, o, {"todo", "done", "ok", "stopped"}) /\ o # NoJob
  <2> HIDE DEF t, e
  <2>1. Updated(job, o, {"todo", "done", "ok", "stopped"})
    BY <1>2, Fields DEF Updated
  <2> QED
    BY <2>1, HasFields DEF Updated
<1>5. CASE job.kind # "journal"
  <2> HIDE DEF o
  <2> QED
    BY <1>1, <1>3, <1>4, <1>5, OwnFile
<1>6. CASE job.kind = "journal"
  <2>0. PICK c \in CopiesOf(job.src) : Progress(c)
    BY <1>1, <1>6 DEF JournalInv
  <2> DEFINE R == Reused(c)
             f == files[job.name]
             g == Overlay(f, Filling(e, d, t))
  <2>1. InStep(job, files, R)
    BY <2>0, ProgressIs
  <2>2. Along(job, Clean(R)) /\ job.name \in DOMAIN files /\ Holding(job, f, R)
    BY <1>1, <2>1 DEF InStep
  <2>3. At = e.at + d
    BY <1>6 DEF At, Extent
  <2>4. [l \in At .. At + t - 1 |-> e.start + d + l - At] = Filling(e, d, t)
    BY <2>3 DEF Filling
  <2>5. files'[job.name] = g /\ job.name \in DOMAIN files'
    BY <1>1, <2>2, <2>4
  <2>6. Along(o, Clean(R)) /\ Holding(o, g, R)
    <3> DEFINE ff == f
               RR == R
    <3>1. Holding(job, ff, RR) /\ Along(job, Clean(RR)) /\ t = ChunkLen(job.todo[1], job.done)
      BY <2>2
    <3> HIDE DEF ff, RR, t
    <3>2. LET gg == Overlay(ff, Filling(job.todo[1], job.done, t))
              oo == IF job.done + t = job.todo[1].len
                    THEN [job EXCEPT !.todo = Tail(@), !.done = 0, !.ok = @ + job.todo[1].len]
                    ELSE [job EXCEPT !.done = @ + t]
          IN Along(oo, Clean(RR)) /\ Holding(oo, gg, RR)
      BY <1>1, <1>2, <3>1, AlongChunk
    <3> QED
      BY <3>2 DEF ff, RR, t
  <2> HIDE DEF o, g, t, e, d
  <2>7. o.open = job.open /\ o.name = job.name
    BY <1>4, Fields DEF Updated
  <2>8. InStep(job', files', Reused(c)')
    <3>1. Reused(c)' = R
      BY <1>1, SameReused
    <3> HIDE DEF R
    <3> QED
      BY <1>1, <2>5, <2>6, <2>7, <3>1 DEF InStep
  <2>9. Progress(c)'
    BY <2>8, ProgressNext
  <2>10. Updated(job, job', {"open", "todo", "done", "ok", "stopped"})
    BY <1>1, <1>4 DEF Updated
  <2> QED
    BY <1>1, <1>3, <1>6, <2>9, <2>10, TemporaryFile
<1> QED
  BY <1>5, <1>6

LEMMA ChunkFailsJournal ==
  ASSUME JournalInv, ChunkFails
  PROVE  JournalInv'
<1> DEFINE e == job.todo[1]
           d == job.done
           t == ChunkLen(e, d)
           chunk(n) == [l \in At .. At + n - 1 |-> e.start + d + l - At]
           o == [job EXCEPT !.todo = IF job.kind = "inode" THEN <<>> ELSE Tail(@),
                            !.done = 0, !.stopped = TRUE]
<1>1. /\ UNCHANGED <<disk, owner, planned, phase, pos>> /\ job # NoJob /\ job.open /\ job.todo # <<>>
      /\ \/ UNCHANGED files
         \/ \E n \in 0 .. t - 1 : files' = [files EXCEPT ![job.name] = Overlay(@, chunk(n))]
      /\ job' = o
  BY DEF ChunkFails, Copying, run, This, Extent, ChunkLen
<1>2. DOMAIN job = JobFields
  BY <1>1 DEF JournalInv, OwnersInv
<1>3. Only(job.name)
  <2>1. UNCHANGED files => Only(job.name)
    BY DEF Only
  <2> HIDE DEF chunk, t
  <2> QED
    BY <1>1, <2>1, FilesExcept
<1>4. Updated(job, o, {"todo", "done", "ok", "stopped"}) /\ o # NoJob
  <2>1. Updated(job, o, {"todo", "done", "ok", "stopped"})
    BY <1>2, Fields DEF Updated
  <2> QED
    BY <2>1, HasFields DEF Updated
<1>5. CASE job.kind # "journal"
  <2> HIDE DEF o
  <2> QED
    BY <1>1, <1>3, <1>4, <1>5, OwnFile
<1>6. CASE job.kind = "journal"
  <2>0. PICK c \in CopiesOf(job.src) : Progress(c)
    BY <1>1, <1>6 DEF JournalInv
  <2> DEFINE R == Reused(c)
             f == files[job.name]
             x == [job EXCEPT !.todo = Tail(@), !.done = 0, !.stopped = TRUE]
  <2>1. InStep(job, files, R)
    BY <2>0, ProgressIs
  <2>2. Along(job, Clean(R)) /\ job.name \in DOMAIN files /\ Holding(job, f, R)
    BY <1>1, <2>1 DEF InStep
  <2>3. At = e.at + d
    BY <1>6 DEF At, Extent
  <2>4. \A n : chunk(n) = Filling(e, d, n)
    BY <2>3 DEF Filling
  <2>5. o = x
    BY <1>6
  <2>6. /\ Along(x, Clean(R)) /\ Holding(x, f, R)
        /\ \A n \in 0 .. t - 1 : Holding(x, Overlay(f, Filling(e, d, n)), R)
    <3> DEFINE ff == f
               RR == R
    <3>1. Holding(job, ff, RR) /\ Along(job, Clean(RR))
      BY <2>2
    <3> HIDE DEF ff, RR
    <3>2. LET oo == [job EXCEPT !.todo = Tail(@), !.done = 0, !.stopped = TRUE]
          IN /\ Along(oo, Clean(RR)) /\ Holding(oo, ff, RR)
             /\ \A n \in 0 .. ChunkLen(job.todo[1], job.done) - 1 :
                  Holding(oo, Overlay(ff, Filling(job.todo[1], job.done, n)), RR)
      BY <1>1, <1>2, <3>1, AlongFails
    <3> QED
      BY <3>2 DEF ff, RR
  <2>7. o.open = job.open /\ o.name = job.name
    <3> HIDE DEF o
    <3> QED
      BY <1>4, Fields DEF Updated
  <2> HIDE DEF o, x, t, e, d, chunk
  <2>8. job.name \in DOMAIN files' /\ Holding(x, files'[job.name], R)
    <3>1. CASE UNCHANGED files
      BY <2>2, <2>6, <3>1
    <3>2. CASE \E n \in 0 .. t - 1 : files' = [files EXCEPT ![job.name] = Overlay(@, chunk(n))]
      <4>1. PICK n \in 0 .. t - 1 : files' = [files EXCEPT ![job.name] = Overlay(@, chunk(n))]
        BY <3>2
      <4>2. job.name \in DOMAIN files' /\ files'[job.name] = Overlay(f, Filling(e, d, n))
        BY <2>2, <2>4, <4>1
      <4> QED
        BY <2>6, <4>2
    <3> QED
      BY <1>1, <3>1, <3>2
  <2>9. InStep(job', files', Reused(c)')
    <3>1. Reused(c)' = R
      BY <1>1, SameReused
    <3> HIDE DEF R
    <3> QED
      BY <1>1, <2>5, <2>6, <2>7, <2>8, <3>1 DEF InStep
  <2>10. Progress(c)'
    BY <2>9, ProgressNext
  <2>11. Updated(job, job', {"open", "todo", "done", "ok", "stopped"})
    BY <1>1, <1>4 DEF Updated
  <2> QED
    BY <1>1, <1>3, <1>6, <2>10, <2>11, TemporaryFile
<1> QED
  BY <1>5, <1>6

LEMMA WritingJournal ==
  ASSUME JournalInv, Writing
  PROVE  JournalInv'
<1>1. CASE OpenFails
  <2>1. UNCHANGED <<disk, files, owner, planned, phase, pos>> /\ job' = NoJob
    BY <1>1 DEF OpenFails, dirvars, run
  <2>2. phase' = "journal" => pos' \in Nat \ {0}
    BY <2>1 DEF JournalInv
  <2> QED
    BY <2>1, <2>2, OutputsSame
<1> QED
  BY <1>1, OpenFileJournal, CopyChunkJournal, ChunkFailsJournal DEF Writing

-----------------------------------------------------------------------------
(* Closing. *)

\* The temporary file becomes the output.
LEMMA PromoteJournal ==
  ASSUME JournalInv, Promote
  PROVE  JournalInv'
<1> DEFINE plan == job.plan
           f == files[job.name]
           final == <<"out", Resolved(job.src)>>
           got(cut) == IF cut THEN Cut(f, job.size) ELSE f
           long == job.size < job.ok
           target == Target("journal", plan, job.size)
           entry == [src |-> job.src, by |-> "journal"]
<1>0. PICK c \in CopiesOf(job.src) : Progress(c)
  BY DEF JournalInv, Promote, Copied
<1> DEFINE R == Reused(c)
<1>1. PICK cut \in BOOLEAN :
        /\ files' = Put(Without(files, job.name), final, got(cut))
        /\ owner' = Put(owner, final, entry)
        /\ planned' = Put(planned, final, IF job.stopped \/ cut # long THEN got(cut) ELSE target)
  BY DEF Promote
<1>2. /\ job # NoJob /\ job.open /\ job.todo = <<>> /\ job.kind = "journal" /\ job' = NoJob
      /\ UNCHANGED <<disk, phase, pos>>
  BY DEF Promote, Copied, run
<1>3. Along(job, Clean(R)) /\ Holding(job, f, R)
  BY <1>0, <1>2, ProgressIs DEF InStep
<1>4. job.name[1] = "tmp" /\ DOMAIN planned = DOMAIN owner
  BY <1>2 DEF JournalInv, OwnersInv
<1>5. plan \in Seq(Exts)
  BY <1>3, CleanType DEF Along
<1>6. ~job.stopped => f = CopiesUpto(plan)[Len(plan)] /\ job.ok = LengthUpto(plan)[Len(plan)]
  <2>1. Len(plan) \in Nat
    <3> HIDE DEF Exts, plan
    <3> QED
      BY <1>5
  <2> HIDE DEF plan
  <2>2. Len(plan) - Len(<<>>) = Len(plan)
    BY <2>1
  <2> QED
    BY <1>2, <1>3, <2>2 DEF Along, Holding, Upto, plan
<1>7. ~(job.stopped \/ cut # long) => got(cut) = target
  <2> HAVE ~(job.stopped \/ cut # long)
  <2> DEFINE all == CopiesUpto(plan)[Len(plan)]
             n == LengthUpto(plan)[Len(plan)]
  <2>1. target = IF job.size < n THEN Cut(all, job.size) ELSE all
    BY DEF Target
  <2>2. f = all /\ job.ok = n /\ cut = long
    BY <1>6
  <2> HIDE DEF all, n
  <2> QED
    BY <2>1, <2>2
<1>8. \A l \in DOMAIN got(cut) : got(cut)[l] \notin R
  <2>1. \A l \in DOMAIN f : f[l] \notin R
    BY <1>3 DEF Holding
  <2> HIDE DEF f, R
  <2> QED
    BY <2>1 DEF Cut
<1> DEFINE g == got(cut)
<1>9. files' = Put(Without(files, job.name), final, g) /\ planned' = Put(planned, final, g)
  <2> HIDE DEF target, got, long, final
  <2> QED
    BY <1>1, <1>7
<1>10. final[1] = "out" /\ entry.by = "journal" /\ entry.src = job.src
  OBVIOUS
<1>11. Untouched(g, job.src)
  BY <1>0, <1>8 DEF Untouched
<1> HIDE DEF g, final, entry, R, Untouched
<1>12. \A n \in DOMAIN owner' : owner'[n].by = "journal" =>
         \/ n = final
         \/ /\ n # final /\ n # job.name /\ n \in DOMAIN owner /\ owner[n].by = "journal"
            /\ n[1] = "out" /\ n \in DOMAIN files /\ files[n] = planned[n]
            /\ Untouched(files[n], owner[n].src) /\ owner'[n] = owner[n]
  <2>1. \A n \in DOMAIN owner : owner[n].by = "journal" =>
          /\ n[1] = "out" /\ n # job.name /\ n \in DOMAIN files /\ files[n] = planned[n]
          /\ Untouched(files[n], owner[n].src)
    BY <1>4, NoReusedIs DEF JournalInv, OwnersInv, JournalAtomic
  <2> QED
    BY <1>1, <2>1 DEF Put
<1>13. \A n \in DOMAIN owner' : owner'[n].by = "journal" =>
         /\ n[1] = "out" /\ n \in DOMAIN files' /\ files'[n] = planned'[n]
         /\ Untouched(files'[n], owner'[n].src)
  <2> SUFFICES ASSUME NEW n \in DOMAIN owner', owner'[n].by = "journal"
               PROVE  /\ n[1] = "out" /\ n \in DOMAIN files' /\ files'[n] = planned'[n]
                      /\ Untouched(files'[n], owner'[n].src)
    OBVIOUS
  <2>1. CASE n = final
    <3>1. n \in DOMAIN files' /\ files'[n] = g /\ planned'[n] = g /\ owner'[n] = entry
      BY <1>1, <1>9, <2>1 DEF Put
    <3> QED
      BY <1>10, <1>11, <2>1, <3>1
  <2>2. CASE n # final
    <3>1. /\ n # job.name /\ n \in DOMAIN owner
          /\ n[1] = "out" /\ n \in DOMAIN files /\ files[n] = planned[n]
          /\ Untouched(files[n], owner[n].src) /\ owner'[n] = owner[n]
      BY <1>12, <2>2
    <3>2. n \in DOMAIN files' /\ files'[n] = files[n] /\ planned'[n] = planned[n]
      BY <1>4, <1>9, <2>2, <3>1 DEF Put, Without
    <3> QED
      BY <3>1, <3>2
  <2> QED
    BY <2>1, <2>2
<1>14. JournalAtomic'
  BY <1>13 DEF JournalAtomic
<1>15. NoReusedBlocks'
  BY <1>2, <1>13, NoReusedNext
<1>16. OwnersInv'
  <2>1. DOMAIN planned' = DOMAIN owner'
    BY <1>1, <1>4, <1>9 DEF Put
  <2> QED
    BY <1>2, <1>13, <2>1 DEF OwnersInv
<1> QED
  BY <1>2, <1>14, <1>15, <1>16 DEF JournalInv

LEMMA ClosingJournal ==
  ASSUME JournalInv, Closing
  PROVE  JournalInv'
<1>1. CASE InodeDone
  <2>1. UNCHANGED <<disk, files, owner, planned, phase, pos>> /\ job' = NoJob
    BY <1>1 DEF InodeDone, dirvars, run
  <2>2. phase' = "journal" => pos' \in Nat \ {0}
    BY <2>1 DEF JournalInv
  <2> QED
    BY <2>1, <2>2, OutputsSame
<1>2. CASE RevokedTree
  <2> DEFINE h == read_tree_block_versioned(disk, job.src)
  <2>1. UNCHANGED <<disk, files, owner, planned, phase, pos>> /\ (StartTree(job.src, h) \/ job' = NoJob)
    BY <1>2 DEF RevokedTree, dirvars, run
  <2> HIDE DEF h
  <2>2. phase' = "journal" => pos' \in Nat \ {0}
    BY <2>1 DEF JournalInv
  <2>3. job' = NoJob \/ Startable(job')
    BY <2>1, StartTreeJob
  <2> QED
    BY <2>1, <2>2, <2>3, OutputsSame, OutputStarted
<1>3. CASE BlockDone \/ IndirectDone \/ InlineDone
  <2>1. /\ UNCHANGED <<disk, owner, planned, phase, pos>> /\ job # NoJob /\ job.open /\ job' = NoJob
        /\ job.kind \in {"tree", "leaf", "targeted", "indirect", "inline"}
    BY <1>3 DEF BlockDone, IndirectDone, InlineDone, Copied, run
  <2>2. Only(job.name)
    <3>1. \/ UNCHANGED files \/ files' = Without(files, job.name)
          \/ \E v : files' = [files EXCEPT ![job.name] = v]
      BY <1>3 DEF BlockDone, IndirectDone, InlineDone
    <3>2. UNCHANGED files => Only(job.name)
      BY DEF Only
    <3> QED
      BY <3>1, <3>2, FilesExcept, FilesWithout
  <2> QED
    BY <2>1, <2>2, OwnFile
<1>4. CASE PromoteFails
  <2>1. /\ UNCHANGED <<disk, owner, planned, phase, pos>> /\ job # NoJob /\ job' = NoJob
        /\ job.kind = "journal" /\ files' = Without(files, job.name)
    BY <1>4 DEF PromoteFails, Copied, run
  <2> QED
    BY <2>1, FilesWithout, TemporaryFile
<1> QED
  BY <1>1, <1>2, <1>3, <1>4, PromoteJournal DEF Closing

-----------------------------------------------------------------------------
(* The journal phase's outputs. *)

LEMMA InitJournal == Init => JournalInv
<1> SUFFICES ASSUME Init PROVE JournalInv
  OBVIOUS
<1>1. owner = NoEntries /\ planned = NoEntries /\ job = NoJob /\ phase = "setup"
  BY DEF Init
<1>2. DOMAIN owner = {}
  BY <1>1 DEF NoEntries
<1> QED
  BY <1>1, <1>2 DEF JournalInv, OwnersInv, JournalAtomic, NoReusedBlocks

LEMMA NextJournal == NameState /\ JournalInv /\ [Next]_vars => JournalInv'
<1> SUFFICES ASSUME NameState, JournalInv, [Next]_vars PROVE JournalInv'
  OBVIOUS
<1>1. disk \in Disks
  BY DEF NameState, PhaseInv
<1>2. CASE Looping
  BY <1>1, <1>2, LoopingJournal
<1>3. CASE Writing
  BY <1>3, WritingJournal
<1>4. CASE Closing
  BY <1>4, ClosingJournal
<1>5. CASE Setup \/ SetupFails \/ AddName \/ Report \/ Clear
  <2>1. /\ UNCHANGED <<disk, files, owner, planned, job>>
        /\ phase' \in {"names", "failed", "clear", "done"}
    BY <1>5 DEF Setup, SetupFails, AddName, Report, Clear, dirvars
  <2>2. phase' # "journal"
    BY <2>1
  <2> QED
    BY <2>1, <2>2, OutputsSame
<1>6. CASE NamesDone \/ PhaseDone \/ CheckpointWritten
  <2>1. /\ UNCHANGED <<disk, files, owner, planned, job>>
        /\ UNCHANGED <<phase, pos>> \/ \E p : Enter(p)
    BY <1>6 DEF NamesDone, PhaseDone, CheckpointWritten, dirvars
  <2>2. phase' = "journal" => pos' \in Nat \ {0}
    BY <2>1 DEF JournalInv, Enter, First
  <2> QED
    BY <2>1, <2>2, OutputsSame
<1>7. CASE Crash
  <2>1. UNCHANGED <<disk, files, owner, planned>> /\ job' = NoJob /\ phase' = "setup"
    BY <1>7 DEF Crash, dirvars
  <2> QED
    BY <2>1, OutputsSame
<1>8. CASE UNCHANGED vars
  <2>1. UNCHANGED <<disk, files, owner, planned, job, phase, pos>>
    BY <1>8 DEF vars
  <2>2. phase' = "journal" => pos' \in Nat \ {0}
    BY <2>1 DEF JournalInv
  <2> QED
    BY <2>1, <2>2, OutputsSame
<1> QED
  BY <1>2, <1>3, <1>4, <1>5, <1>6, <1>7, <1>8 DEF Next, Program, Finished

\* Where the journal phase is with its dump, and what it has put in place, in every state.
THEOREM JournalInvariant == Spec => []JournalInv
<1>1. Init => JournalInv
  BY InitJournal
<1>2. NameState /\ JournalInv /\ [Next]_vars => JournalInv'
  BY NextJournal
<1> QED
  BY <1>1, <1>2, NameStateInvariant, PTL DEF Spec

\* Whatever is on the disk and whatever fails, killed and resumed runs too: what
\* recover_inode_from_journal() has renamed into place holds what it set out to
\* recover, all of its extents cut to the inode's size, or, where a block could not be
\* copied or the file not cut, what it had; no later step of the run spoils it unnoticed.
THEOREM JournalAtomicCorrect == Spec => []JournalAtomic
<1>1. JournalInv => JournalAtomic
  BY DEF JournalInv
<1> QED
  BY <1>1, JournalInvariant, PTL

\* Every output of the journal phase comes of a copy of its inode, and has no block in it that
\* only the disk's content of tree blocks leads to whose older versions were found for that
\* copy: read_tree_block_versioned() is asked for every tree block, whatever it then finds.
THEOREM NoReusedBlocksCorrect == Spec => []NoReusedBlocks
<1>1. JournalInv => NoReusedBlocks
  BY DEF JournalInv
<1> QED
  BY <1>1, JournalInvariant, PTL

-----------------------------------------------------------------------------
(* The names of outputs. *)

\* Job j is one for a name, or an inode, that was answered.
JobNamed(j, as) ==
    j # NoJob => /\ j.name[1] = "out" => <<j.src, j.name[2]>> \in as
                 /\ j.kind = "journal" => \E name : <<j.src, name>> \in as

LEMMA GivenName == \A ino : (\E name : <<ino, name>> \in answered) <=> \E name \in Given : <<ino, name>> \in answered
<1> TAKE ino
<1>1. \A name : <<ino, name>> \in answered => name \in Given
  <2> TAKE name
  <2> HAVE <<ino, name>> \in answered
  <2> DEFINE p == <<ino, name>>
  <2>1. p \in answered /\ p[2] = name
    OBVIOUS
  <2> HIDE DEF p
  <2> QED
    BY <2>1 DEF Given
<1> QED
  BY <1>1

LEMMA GivenNameNext == \A ino : (\E name : <<ino, name>> \in answered') <=> \E name \in Given' : <<ino, name>> \in answered'
<1> TAKE ino
<1>1. \A name : <<ino, name>> \in answered' => name \in Given'
  <2> TAKE name
  <2> HAVE <<ino, name>> \in answered'
  <2> DEFINE p == <<ino, name>>
  <2>1. p \in answered' /\ p[2] = name
    OBVIOUS
  <2> HIDE DEF p
  <2> QED
    BY <2>1 DEF Given
<1> QED
  BY <1>1

\* AnswersInv, put so.
LEMMA AnswersAre ==
  AnswersInv <=> /\ saving => phase \in ToSet(Order)
                 /\ ~resume /\ ~Ended /\ lost = {} =>
                      /\ \A n \in DOMAIN files :
                           n[1] = "out" => n \in DOMAIN owner /\ <<owner[n].src, n[2]>> \in answered
                      /\ JobNamed(job, answered)
  BY GivenName DEF AnswersInv, JobNamed

LEMMA AnswersNext ==
  AnswersInv' <=> /\ saving' => phase' \in ToSet(Order)
                  /\ ~resume' /\ ~Ended' /\ lost' = {} =>
                      /\ \A n \in DOMAIN files' :
                           n[1] = "out" => n \in DOMAIN owner' /\ <<owner'[n].src, n[2]>> \in answered'
                      /\ JobNamed(job', answered')
  BY GivenNameNext DEF AnswersInv, JobNamed

Answering == answered \subseteq answered' /\ lost \subseteq lost'

LEMMA InsideAnswers == Quiet \/ Resolves => Answering
  BY DEF Quiet, Resolves, Answering, nvars, resolve_output_name

LEMMA NoJobNamed == \A as : JobNamed(NoJob, as)
  BY DEF JobNamed

\* A job whose output is no inode's.
LEMMA NamedElse ==
  ASSUME NEW as, NEW kind, NEW src, NEW name, NEW plan, NEW size, name[1] # "out", kind # "journal"
  PROVE  JobNamed(Job(kind, src, name, plan, size), as)
<1> DEFINE j == Job(kind, src, name, plan, size)
<1>1. j.name = name /\ j.kind = kind
  BY Fields
<1> HIDE DEF j
<1>2. JobNamed(j, as)
  BY <1>1 DEF JobNamed
<1> QED
  BY <1>2 DEF j

LEMMA StartInodeNamed == \A ino : StartInode(ino) => Answering /\ (job' = job \/ JobNamed(job', answered'))
<1> TAKE ino
<1> HAVE StartInode(ino)
<1> DEFINE name == <<"out", Resolved(ino)>>
           plan == TravelPlan(disk, disk.inodes[ino])
<1>1. Answering
  BY StartInodeNames, InsideAnswers
<1>2. CASE job' = job
  BY <1>1, <1>2
<1>3. CASE resolve_output_name(ino) /\ job' = Job("inode", ino, name, plan, 0)
  <2>1. <<ino, Resolved(ino)>> \in answered'
    BY <1>3 DEF resolve_output_name
  <2>2. name[2] = Resolved(ino)
    OBVIOUS
  <2> HIDE DEF name, plan
  <2>3. job'.name = name /\ job'.src = ino /\ job'.kind = "inode"
    BY <1>3, Fields
  <2>4. JobNamed(job', answered')
    BY <2>1, <2>2, <2>3 DEF JobNamed
  <2> QED
    BY <1>1, <2>4
<1>4. job' = job \/ (resolve_output_name(ino) /\ job' = Job("inode", ino, name, plan, 0))
  BY DEF StartInode
<1> QED
  BY <1>2, <1>3, <1>4

LEMMA StartTreeNamed == \A b, h : StartTree(b, h) => JobNamed(job', answered')
<1> TAKE b, h
<1> HAVE StartTree(b, h)
<1> DEFINE plan == TreePlan(walk_extent_tree(disk, h).exts)
           name == <<"tree", b>>
<1>1. job' = NoJob \/ job' = Job("tree", b, name, plan, 0)
  BY DEF StartTree
<1>2. name[1] # "out"
  OBVIOUS
<1> HIDE DEF plan, name
<1> QED
  BY <1>1, <1>2, NamedElse, NoJobNamed

LEMMA StartLeafNamed == \A b, h : StartLeaf(b, h) => JobNamed(job', answered')
<1> TAKE b, h
<1> HAVE StartLeaf(b, h)
<1> DEFINE plan == LeafPlan(h)
           name == <<"leaf", b>>
<1>1. job' = NoJob \/ job' = Job("leaf", b, name, plan, 0)
  BY DEF StartLeaf
<1>2. name[1] # "out"
  OBVIOUS
<1> HIDE DEF plan, name
<1> QED
  BY <1>1, <1>2, NamedElse, NoJobNamed

LEMMA FromExtentsNamed == \A c : FromExtents(c) => job' = job \/ JobNamed(job', answered')
<1> TAKE c
<1> HAVE FromExtents(c)
<1> DEFINE name == JournalName(c.ino)
           plan == JournalPlan(AsOf(c), c)
<1>1. job' = job \/ (resolve_output_name(c.ino) /\ job' = Job("journal", c.ino, name, plan, c.size))
  BY DEF FromExtents, Pass
<1>2. name[1] = "tmp"
  BY DEF JournalName
<1>3. CASE resolve_output_name(c.ino) /\ job' = Job("journal", c.ino, name, plan, c.size)
  <2>1. <<c.ino, Resolved(c.ino)>> \in answered'
    BY <1>3 DEF resolve_output_name
  <2> HIDE DEF name, plan
  <2>2. job'.name = name /\ job'.src = c.ino /\ job'.kind = "journal"
    BY <1>3, Fields
  <2>3. \E x : <<c.ino, x>> \in answered'
    BY <2>1
  <2> QED
    BY <1>2, <2>2, <2>3 DEF JobNamed
<1> QED
  BY <1>1, <1>3

LEMMA FromInodeNamed ==
  ASSUME NEW c, FromInode(c), c.kind # "journal"
  PROVE  JobNamed(job', answered')
<1> DEFINE name == <<IF c.kind = "inline" THEN "inline" ELSE "ind", Resolved(c.ino)>>
           other == IF c.kind = "inline" THEN <<>> ELSE IndirectPlan(disk, c.ptrs)
<1>1. job' = NoJob \/ job' = Job(c.kind, c.ino, name, other, c.size)
  BY DEF FromInode
<1>2. name[1] # "out"
  OBVIOUS
<1> HIDE DEF name, other
<1> QED
  BY <1>1, <1>2, NamedElse, NoJobNamed

LEMMA LoopingNamed ==
  ASSUME JournalInv, disk \in Disks, Looping
  PROVE  Answering /\ (job' = job \/ JobNamed(job', answered'))
<1>0. Answering
  BY LoopingInside, InsideAnswers DEF Inside
<1>1. CASE OrphanChain
  <2>1. StartInode(pos) \/ Pass
    BY <1>1 DEF OrphanChain
  <2> QED
    BY <1>0, <2>1, StartInodeNamed DEF Pass
<1>2. CASE OrphanFile
  <2>1. StartInode(disk.orphan_file[pos]) \/ Pass
    BY <1>2 DEF OrphanFile
  <2> QED
    BY <1>0, <2>1, StartInodeNamed DEF Pass
<1>3. CASE NormalInode
  <2>1. StartInode(pos) \/ Pass
    BY <1>3 DEF NormalInode
  <2> QED
    BY <1>0, <2>1, StartInodeNamed DEF Pass
<1>4. CASE JournalCopy
  <2> DEFINE c == disk.copies[pos]
  <2>1. Pass \/ FromExtents(c) \/ FromInode(c)
    BY <1>4 DEF JournalCopy
  <2>2. pos \in Nat \ {0} /\ disk.copies \in Seq(InodeCopies) /\ pos <= Len(disk.copies)
    <3>1. pos \in Nat \ {0} /\ disk.copies \in Seq(InodeCopies)
      BY <1>4, JournalCopyJob, DisksAssumption DEF DiskOK
    <3>2. ~(pos > Len(disk.copies))
      BY <1>4 DEF JournalCopy, Turn, Over
    <3> HIDE DEF InodeCopies
    <3>3. Len(disk.copies) \in Nat
      BY <3>1
    <3> QED
      BY <3>1, <3>2, <3>3
  <2>3. c \in InodeCopies
    <3> HIDE DEF InodeCopies
    <3> QED
      BY <2>2
  <2> HIDE DEF c
  <2>4. c.kind # "journal"
    BY <2>3 DEF InodeCopies
  <2> QED
    BY <1>0, <2>1, <2>4, FromExtentsNamed, FromInodeNamed DEF Pass
<1>5. CASE ScanBlock
  <2>1. job' = job \/ \E b, h : StartLeaf(b, h) \/ StartTree(b, h)
    BY <1>5 DEF ScanBlock
  <2> QED
    BY <1>0, <2>1, StartLeafNamed, StartTreeNamed
<1>6. CASE RevokedBlock
  <2> DEFINE b == disk.revoked[pos]
             h == read_tree_block_versioned(disk, b)
             name == <<"targeted", b>>
             plan == ClearedPlan(h.slots)
  <2>1. job' = job \/ job' = Job("targeted", b, name, plan, 0) \/ job' = Job("probe", b, name, <<>>, 0)
    BY <1>6 DEF RevokedBlock
  <2>2. name[1] # "out"
    OBVIOUS
  <2> HIDE DEF b, name, plan
  <2> QED
    BY <1>0, <2>1, <2>2, NamedElse
<1> QED
  BY <1>1, <1>2, <1>3, <1>4, <1>5, <1>6 DEF Looping

\* A step that adds no output and no job, while names are only added to.
LEMMA AnswersKept ==
  ASSUME AnswersInv, Answering, UNCHANGED owner, DOMAIN files' \subseteq DOMAIN files,
         job' = NoJob \/ job' = job \/ JobNamed(job', answered'), UNCHANGED resume,
         ~Ended' => ~Ended, saving' => phase' \in ToSet(Order)
  PROVE  AnswersInv'
<1> SUFFICES ASSUME ~resume', ~Ended', lost' = {}
             PROVE  /\ \A n \in DOMAIN files' :
                         n[1] = "out" => n \in DOMAIN owner' /\ <<owner'[n].src, n[2]>> \in answered'
                    /\ JobNamed(job', answered')
  BY AnswersNext
<1>1. /\ \A n \in DOMAIN files :
           n[1] = "out" => n \in DOMAIN owner /\ <<owner[n].src, n[2]>> \in answered
      /\ JobNamed(job, answered)
  BY AnswersAre DEF Answering
<1>2. \A n \in DOMAIN files' :
         n[1] = "out" => n \in DOMAIN owner' /\ <<owner'[n].src, n[2]>> \in answered'
  BY <1>1 DEF Answering
<1>3. JobNamed(job', answered')
  <2>1. CASE job' = NoJob
    BY <2>1 DEF JobNamed
  <2>2. CASE job' = job
    BY <1>1, <2>2 DEF JobNamed, Answering
  <2> QED
    BY <2>1, <2>2
<1> QED
  BY <1>2, <1>3

LEMMA JobGoesOn ==
  ASSUME NEW as, NEW j, NEW o, NEW F \in SUBSET {"open", "todo", "done", "ok", "stopped"},
         Updated(j, o, F), j # NoJob, JobNamed(j, as)
  PROVE  JobNamed(o, as)
<1>1. o.name = j.name /\ o.src = j.src /\ o.kind = j.kind
  BY Fields DEF Updated
<1> QED
  BY <1>1 DEF JobNamed

LEMMA InitAnswers == Init => AnswersInv
<1> SUFFICES ASSUME Init PROVE AnswersInv
  OBVIOUS
<1>1. files = NoEntries /\ job = NoJob /\ saving = FALSE
  BY DEF Init
<1>2. DOMAIN files = {}
  BY <1>1 DEF NoEntries
<1> QED
  BY <1>1, <1>2, AnswersAre DEF JobNamed

\* The job of an open file, of which a step changes the file alone.
LEMMA WritingAnswers ==
  ASSUME AnswersInv, JournalInv, PhaseInv, Writing
  PROVE  AnswersInv'
<1>0. /\ Answering /\ UNCHANGED <<resume, phase, saving, answered, lost>> /\ job # NoJob
      /\ Ended' = Ended /\ (saving' => phase' \in ToSet(Order)) /\ ~Ended
  <2>1. UNCHANGED <<resume, phase, saving, nvars>> /\ job # NoJob
    BY DEF Writing, OpenFile, OpenFails, CopyChunk, ChunkFails, Copying, run
  <2>2. phase \in ToSet(Order) /\ ~saving
    BY <2>1 DEF PhaseInv
  <2>3. ~Ended /\ Ended' = Ended
    BY <2>1, <2>2, Phases DEF Ended
  <2> QED
    BY <2>1, <2>2, <2>3 DEF nvars, Answering
<1>1. CASE OpenFails
  <2>1. UNCHANGED <<files, owner>> /\ job' = NoJob
    BY <1>1 DEF OpenFails, dirvars
  <2> QED
    BY <1>0, <2>1, AnswersKept
<1>2. DOMAIN job = JobFields
  BY <1>0 DEF JournalInv, OwnersInv
<1>3. CASE CopyChunk
  <2>1. UNCHANGED owner /\ DOMAIN files' = DOMAIN files
    BY <1>3 DEF CopyChunk
  <2>2. Updated(job, job', {"todo", "done", "ok"})
    <3>1. \/ \E a, b, c : job' = [job EXCEPT !.todo = a, !.done = b, !.ok = c]
          \/ \E b : job' = [job EXCEPT !.done = b]
      BY <1>3 DEF CopyChunk
    <3> QED
      BY <1>2, <3>1, Fields DEF Updated
  <2>3. JobNamed(job, answered) => JobNamed(job', answered)
    BY <1>0, <2>2, JobGoesOn
  <2> QED
    BY <1>0, <2>1, <2>3, AnswersAre, AnswersNext
<1>4. CASE ChunkFails
  <2>1. UNCHANGED owner /\ DOMAIN files' = DOMAIN files
    BY <1>4 DEF ChunkFails
  <2>2. Updated(job, job', {"todo", "done", "stopped"})
    <3>1. \E a : job' = [job EXCEPT !.todo = a, !.done = 0, !.stopped = TRUE]
      BY <1>4 DEF ChunkFails
    <3> QED
      BY <1>2, <3>1, Fields DEF Updated
  <2>3. JobNamed(job, answered) => JobNamed(job', answered)
    BY <1>0, <2>2, JobGoesOn
  <2> QED
    BY <1>0, <2>1, <2>3, AnswersAre, AnswersNext
<1>5. CASE OpenFile
  <2> DEFINE v == [src |-> job.src, by |-> job.kind]
  <2>1. /\ job' = [job EXCEPT !.open = TRUE]
        /\ files' = Put(files, job.name, NoFile)
        /\ IF job.kind \in {"journal", "probe"} THEN UNCHANGED owner
           ELSE owner' = Put(owner, job.name, v)
    BY <1>5 DEF OpenFile
  <2>2. Updated(job, job', {"open"})
    BY <1>2, <2>1, Fields DEF Updated
  <2>3. JobNamed(job, answered) => JobNamed(job', answered)
    BY <1>0, <2>2, JobGoesOn
  <2>4. job.name[1] = "out" => job.kind \notin {"journal", "probe"}
    BY <1>0 DEF JournalInv, OwnersInv
  <2>5. v.src = job.src
    OBVIOUS
  <2> HIDE DEF v
  <2> SUFFICES ASSUME ~resume, lost = {}
               PROVE  /\ \A n \in DOMAIN files' :
                           n[1] = "out" => n \in DOMAIN owner' /\ <<owner'[n].src, n[2]>> \in answered
                      /\ JobNamed(job', answered)
    BY <1>0, AnswersAre, AnswersNext
  <2>6. /\ \A n \in DOMAIN files :
             n[1] = "out" => n \in DOMAIN owner /\ <<owner[n].src, n[2]>> \in answered
        /\ JobNamed(job, answered)
    BY <1>0, AnswersAre, AnswersNext
  <2>7. ASSUME NEW n \in DOMAIN files', n[1] = "out"
        PROVE  n \in DOMAIN owner' /\ <<owner'[n].src, n[2]>> \in answered
    <3>1. CASE n = job.name
      <4>1. owner' = Put(owner, job.name, v)
        BY <2>1, <2>4, <2>7, <3>1
      <4>2. n \in DOMAIN owner' /\ owner'[n] = v
        BY <3>1, <4>1 DEF Put
      <4> QED
        BY <1>0, <2>5, <2>6, <2>7, <3>1, <4>2 DEF JobNamed
    <3>2. CASE n # job.name
      <4>1. n \in DOMAIN files
        BY <2>1, <3>2 DEF Put
      <4>2. n \in DOMAIN owner' /\ owner'[n] = owner[n]
        BY <2>1, <2>6, <2>7, <3>2, <4>1 DEF Put
      <4> QED
        BY <2>6, <2>7, <4>1, <4>2
    <3> QED
      BY <3>1, <3>2
  <2> QED
    BY <2>3, <2>6, <2>7
<1> QED
  BY <1>1, <1>3, <1>4, <1>5 DEF Writing

\* An inode that was answered is answered the same again.
LEMMA AnsweredAgain ==
  ASSUME ClaimsInv, NEW p \in answered, p[1] \notin lost
  PROVE  p[2] = Resolved(p[1])
<1> DEFINE name == get_filename_for_inode(p[1])
<1>1. \/ p[2] = name /\ name # NoName /\ Owners(name) = {p[1]}
      \/ /\ p[2] = FileOf(p[1])
         /\ name = NoName \/ (Owners(name) # {} /\ p[1] \notin Owners(name))
  BY DEF ClaimsInv
<1>2. Resolved(p[1]) = IF name # NoName /\ Owners(name) \subseteq {p[1]} THEN name ELSE FileOf(p[1])
  BY DEF Resolved
<1> HIDE DEF name
<1>3. (Owners(name) # {} /\ p[1] \notin Owners(name)) => ~(Owners(name) \subseteq {p[1]})
  OBVIOUS
<1> QED
  BY <1>1, <1>2, <1>3

\* The final name of a dump of the journal phase.
LEMMA FinalAnswered ==
  ASSUME AnswersInv, NameState, job # NoJob, job.kind = "journal", ~resume, lost = {}
  PROVE  <<job.src, Resolved(job.src)>> \in answered
<1>1. ~Ended
  BY Phases DEF NameState, PhaseInv, Ended
<1>2. PICK name : <<job.src, name>> \in answered
  BY <1>1, AnswersAre DEF JobNamed
<1> DEFINE p == <<job.src, name>>
<1>3. p \in answered /\ p[1] = job.src /\ p[2] = name
  BY <1>2
<1> HIDE DEF p
<1>4. p[2] = Resolved(p[1])
  BY <1>3, AnsweredAgain DEF NameState, ClaimsOK
<1> QED
  BY <1>2, <1>3, <1>4

LEMMA ClosingAnswers ==
  ASSUME AnswersInv, JournalInv, NameState, Closing
  PROVE  AnswersInv'
<1>0. /\ Answering /\ UNCHANGED <<resume, phase, saving>> /\ job # NoJob
      /\ Ended' = Ended /\ ~saving' /\ ~Ended
  <2>1. UNCHANGED <<resume, phase, saving>> /\ job # NoJob
    BY DEF Closing, InodeDone, BlockDone, Promote, PromoteFails, IndirectDone, InlineDone, RevokedTree,
           Copied, run
  <2>2. phase \in ToSet(Order) /\ ~saving
    BY <2>1 DEF NameState, PhaseInv
  <2>3. ~Ended /\ Ended' = Ended
    BY <2>1, <2>2, Phases DEF Ended
  <2>4. Answering
    BY ClosingInside, InsideAnswers DEF Inside
  <2> QED
    BY <2>1, <2>2, <2>3, <2>4
<1>1. CASE InodeDone \/ BlockDone \/ PromoteFails \/ IndirectDone \/ InlineDone
  <2>1. UNCHANGED owner /\ job' = NoJob
    BY <1>1 DEF InodeDone, BlockDone, PromoteFails, IndirectDone, InlineDone
  <2>2. \/ UNCHANGED files \/ files' = Without(files, job.name)
        \/ \E v : files' = [files EXCEPT ![job.name] = v]
    BY <1>1 DEF InodeDone, BlockDone, PromoteFails, IndirectDone, InlineDone, dirvars
  <2>3. DOMAIN files' \subseteq DOMAIN files
    BY <2>2 DEF Without
  <2> QED
    BY <1>0, <2>1, <2>3, AnswersKept
<1>2. CASE RevokedTree
  <2>1. UNCHANGED <<files, owner>> /\ (job' = NoJob \/ \E b, h : StartTree(b, h))
    BY <1>2 DEF RevokedTree, dirvars
  <2>2. job' = NoJob \/ JobNamed(job', answered')
    BY <2>1, StartTreeNamed
  <2> QED
    BY <1>0, <2>1, <2>2, AnswersKept
<1>3. CASE Promote
  <2> DEFINE final == <<"out", Resolved(job.src)>>
             entry == [src |-> job.src, by |-> "journal"]
  <2>1. /\ \E got : files' = Put(Without(files, job.name), final, got)
        /\ owner' = Put(owner, final, entry) /\ job' = NoJob /\ UNCHANGED <<answered, lost>>
        /\ job.kind = "journal"
    BY <1>3 DEF Promote, Copied, nvars
  <2>2. entry.src = job.src /\ final[2] = Resolved(job.src)
    OBVIOUS
  <2> SUFFICES ASSUME ~resume, lost = {}, NEW n \in DOMAIN files', n[1] = "out"
               PROVE  n \in DOMAIN owner' /\ <<owner'[n].src, n[2]>> \in answered
    BY <1>0, <2>1, AnswersNext, NoJobNamed
  <2>3. <<job.src, Resolved(job.src)>> \in answered
    BY <1>0, <2>1, FinalAnswered
  <2> HIDE DEF final, entry
  <2>4. CASE n = final
    <3>1. n \in DOMAIN owner' /\ owner'[n] = entry
      BY <2>1, <2>4 DEF Put
    <3> QED
      BY <2>2, <2>3, <2>4, <3>1
  <2>5. CASE n # final
    <3>1. n \in DOMAIN files
      BY <2>1, <2>5 DEF Put, Without
    <3>2. n \in DOMAIN owner /\ <<owner[n].src, n[2]>> \in answered
      BY <1>0, <3>1, AnswersAre
    <3>3. n \in DOMAIN owner' /\ owner'[n] = owner[n]
      BY <2>1, <2>5, <3>2 DEF Put
    <3> QED
      BY <3>2, <3>3
  <2> QED
    BY <2>4, <2>5
<1> QED
  BY <1>1, <1>2, <1>3 DEF Closing

LEMMA NextAnswers == NameState /\ JournalInv /\ AnswersInv /\ [Next]_vars => AnswersInv'
<1> SUFFICES ASSUME NameState, JournalInv, AnswersInv, [Next]_vars PROVE AnswersInv'
  OBVIOUS
<1>0. PhaseInv /\ disk \in Disks
  BY DEF NameState, PhaseInv
<1>1. CASE Looping
  <2>1. Answering /\ (job' = job \/ JobNamed(job', answered'))
    BY <1>0, <1>1, LoopingNamed
  <2>2. UNCHANGED <<files, owner, resume, phase, saving>> /\ ~saving
    BY <1>1 DEF Looping, OrphanChain, OrphanFile, JournalCopy, NormalInode, ScanBlock, RevokedBlock, dirvars, Turn
  <2>3. Ended' = Ended
    BY <2>2 DEF Ended
  <2> QED
    BY <2>1, <2>2, <2>3, AnswersKept
<1>2. CASE Writing
  BY <1>0, <1>2, WritingAnswers
<1>3. CASE Closing
  BY <1>3, ClosingAnswers
<1>4. CASE Setup \/ AddName \/ Report
  <2>1. /\ UNCHANGED <<files, owner, job, resume, saving, answered, lost>>
        /\ phase \in {"setup", "names", "report"} /\ phase' \in {"names", "clear"}
    BY <1>4 DEF Setup, AddName, Report, dirvars, init_filename_map, add_filename_mapping, RefuseName,
                GrowFails, UpdateName, AppendName, nvars
  <2>2. ~Ended /\ ~saving
    BY <2>1, Phases DEF Ended, AnswersInv
  <2> QED
    BY <2>1, <2>2, AnswersKept DEF Answering
<1>5. CASE NamesDone \/ PhaseDone \/ CheckpointWritten
  <2>1. UNCHANGED <<files, owner, job, resume, answered, lost>>
    BY <1>5 DEF NamesDone, PhaseDone, CheckpointWritten, dirvars, nvars
  <2>2. ~Ended
    BY <1>5, Phases DEF NamesDone, PhaseDone, CheckpointWritten, Ended, AnswersInv, Over
  <2>3. saving' => phase' \in ToSet(Order)
    <3>1. CASE NamesDone
      BY <3>1, Phases DEF NamesDone, AnswersInv
    <3>2. CASE CheckpointWritten
      BY <3>2 DEF CheckpointWritten
    <3>3. CASE PhaseDone
      <4>1. phase \in ToSet(Order)
        BY <3>3, Phases DEF PhaseDone, Over
      <4> QED
        BY <3>3, <4>1 DEF PhaseDone
    <3> QED
      BY <1>5, <3>1, <3>2, <3>3
  <2> QED
    BY <2>1, <2>2, <2>3, AnswersKept DEF Answering
<1>6. CASE SetupFails \/ Clear
  <2>1. phase' \in {"failed", "done"} /\ UNCHANGED saving /\ phase \in {"setup", "clear"}
    BY <1>6 DEF SetupFails, Clear
  <2>2. Ended' /\ ~saving
    BY <2>1, Phases DEF Ended, AnswersInv
  <2> QED
    BY <2>1, <2>2 DEF AnswersInv
<1>7. CASE Crash
  <2>1. resume' = TRUE /\ saving' = FALSE
    BY <1>7 DEF Crash
  <2> QED
    BY <2>1 DEF AnswersInv
<1>8. CASE UNCHANGED vars
  <2>1. UNCHANGED <<files, owner, job, resume, phase, saving, answered, lost>>
    BY <1>8 DEF vars, nvars
  <2>2. Ended' = Ended
    BY <2>1 DEF Ended
  <2>3. saving => phase \in ToSet(Order)
    BY DEF AnswersInv
  <2> QED
    BY <2>1, <2>2, <2>3, AnswersKept DEF Answering
<1> QED
  BY <1>1, <1>2, <1>3, <1>4, <1>5, <1>6, <1>7, <1>8 DEF Next, Program, Finished

\* What a step does to an output that is not being written.
LEMMA StepKeepsOwner ==
  ASSUME NameState, JournalInv, AnswersInv, [Next]_vars, ~resume, NEW n \in DOMAIN files
  PROVE  \/ Contested(n) \/ Keeps(n)
         \/ job # NoJob /\ job.name = n
         \/ n \in DOMAIN files' /\ owner'[n] = [src |-> owner[n].src, by |-> "journal"]
<1>1. n \in DOMAIN files' /\ files'[n] = files[n] => Keeps(n)
  BY DEF Keeps
<1>2. CASE UNCHANGED files
  BY <1>1, <1>2
<1>3. CASE job # NoJob /\ Only(job.name)
  BY <1>1, <1>3 DEF Only
<1>4. CASE Promote
  <2> DEFINE final == <<"out", Resolved(job.src)>>
             entry == [src |-> job.src, by |-> "journal"]
  <2>1. /\ \E got : files' = Put(Without(files, job.name), final, got)
        /\ owner' = Put(owner, final, entry) /\ job # NoJob /\ job.kind = "journal"
    BY <1>4 DEF Promote, Copied
  <2>2. final[1] = "out" /\ final[2] = Resolved(job.src)
    OBVIOUS
  <2>3. CASE n # final
    <3> HIDE DEF final, entry
    <3>1. n # job.name => n \in DOMAIN files' /\ files'[n] = files[n]
      BY <2>1, <2>3 DEF Put, Without
    <3> QED
      BY <1>1, <2>1, <3>1
  <2>4. CASE n = final
    <3> DEFINE name == Resolved(job.src)
    <3> SUFFICES ASSUME lost = {}, name[1] # "file"
                 PROVE  n \in DOMAIN files' /\ owner'[n] = [src |-> owner[n].src, by |-> "journal"]
      BY <2>2, <2>4 DEF Contested
    <3>1. ~Ended
      BY <2>1, Phases DEF NameState, PhaseInv, Ended
    <3>2. n \in DOMAIN owner /\ <<owner[n].src, n[2]>> \in answered
      BY <2>2, <2>4, <3>1, AnswersAre
    <3>3. <<job.src, name>> \in answered
      BY <2>1, FinalAnswered
    <3>4. owner[n].src = job.src
      <4> DEFINE p == <<owner[n].src, n[2]>>
                 q == <<job.src, name>>
      <4>1. /\ p \in answered /\ q \in answered /\ p[1] = owner[n].src /\ q[1] = job.src
            /\ p[2] = name /\ q[2] = name
        BY <2>2, <2>4, <3>2, <3>3
      <4> HIDE DEF p, q, name
      <4>2. p[1] # q[1] => name \in {FileOf(p[1]), FileOf(q[1])}
        BY <4>1, ClaimsCorrect DEF NameState, ClaimsOK, OneOwnerPerName
      <4>3. \A i : FileOf(i)[1] = "file"
        BY DEF FileOf
      <4> QED
        BY <4>1, <4>2, <4>3
    <3>5. n \in DOMAIN files' /\ owner'[n] = entry
      <4> HIDE DEF final, entry
      <4> QED
        BY <2>1, <2>4 DEF Put
    <3> QED
      BY <3>4, <3>5
  <2> QED
    BY <2>3, <2>4
<1>5. Writing => UNCHANGED files \/ (job # NoJob /\ Only(job.name))
  <2> SUFFICES ASSUME Writing PROVE UNCHANGED files \/ (job # NoJob /\ Only(job.name))
    OBVIOUS
  <2>1. /\ job # NoJob
        /\ \/ UNCHANGED files \/ files' = Put(files, job.name, NoFile)
           \/ \E v : files' = [files EXCEPT ![job.name] = v]
    BY DEF Writing, OpenFile, OpenFails, CopyChunk, ChunkFails, Copying, dirvars
  <2> QED
    BY <2>1, FilesPut, FilesExcept
<1>6. Closing => Promote \/ UNCHANGED files \/ (job # NoJob /\ Only(job.name))
  <2> SUFFICES ASSUME Closing, ~Promote PROVE UNCHANGED files \/ (job # NoJob /\ Only(job.name))
    OBVIOUS
  <2>1. /\ job # NoJob
        /\ \/ UNCHANGED files \/ files' = Without(files, job.name)
           \/ \E v : files' = [files EXCEPT ![job.name] = v]
    BY DEF Closing, InodeDone, BlockDone, PromoteFails, IndirectDone, InlineDone, RevokedTree, Copied, dirvars
  <2> QED
    BY <2>1, FilesWithout, FilesExcept
<1>7. CASE \/ Looping \/ Setup \/ SetupFails \/ AddName \/ NamesDone \/ PhaseDone \/ CheckpointWritten
           \/ Report \/ Clear \/ Crash \/ UNCHANGED vars
  <2>1. UNCHANGED files
    BY <1>7 DEF Looping, OrphanChain, OrphanFile, JournalCopy, NormalInode, ScanBlock, RevokedBlock, Setup,
                SetupFails, AddName, NamesDone, PhaseDone, CheckpointWritten, Report, Clear, Crash, dirvars, vars
  <2> QED
    BY <1>2, <2>1
<1> QED
  BY <1>2, <1>3, <1>4, <1>5, <1>6, <1>7 DEF Next, Program, Finished

\* In a run that was not resumed, whatever fails, an output loses blocks in two ways only:
\* its own job writes it, or the copy in the journal of the very inode it belongs to is
\* renamed over it.  Exempt, as the property says, are names like those the program makes up,
\* and names whose claim was lost.
THEOREM OutputsKeepOwnerCorrect == Spec => OutputsKeepOwner
<1> DEFINE Kept == ~resume /\ phase # "targeted" =>
         \A n \in DOMAIN files :
             \/ files[n] = NoFile \/ Contested(n) \/ Keeps(n)
             \/ job # NoJob /\ job.name = n
             \/ n \in DOMAIN files' /\ owner'[n] = [src |-> owner[n].src, by |-> "journal"]
<1>1. Init => AnswersInv
  BY InitAnswers
<1>2. NameState /\ JournalInv /\ AnswersInv /\ [Next]_vars => AnswersInv'
  BY NextAnswers
<1>3. NameState /\ JournalInv /\ AnswersInv /\ [Next]_vars => [Kept]_vars
  BY StepKeepsOwner
<1>4. OutputsKeepOwner <=> [][Kept]_vars
  BY DEF OutputsKeepOwner
<1> HIDE DEF Kept
<1> QED
  BY <1>1, <1>2, <1>3, <1>4, NameStateInvariant, JournalInvariant, PTL DEF Spec
=============================================================================
