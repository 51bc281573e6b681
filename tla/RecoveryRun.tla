----------------------------- MODULE RecoveryRun -----------------------------
(***************************************************************************)
(* A whole run of the program: main() of ext4recover_v5.c with the phases  *)
(* it calls one after the other, the checkpoint of utils_v5.c, the output  *)
(* directory, and a crash at any step followed by a restart with --resume. *)
(*                                                                         *)
(* What is found on the disk is a constant record chosen in Init:          *)
(*   args      the mode flags of the command line, in order                *)
(*   ondevice  the output directory lies on the device itself              *)
(*   inodes    inode -> [readable, reg, links, extents, magic, depth,      *)
(*             slots, resid, next]: next is i_dtime, resid the four slots  *)
(*             of an inode whose eh_entries is 0                           *)
(*   node, ptrs, bad   the device, see ExtentTrees                         *)
(*   last_orphan, orphan_file   head of the chain; slots of the orphan     *)
(*             file, with has_orphan_file saying which of them is used     *)
(*   journal   there is one; copies: the inode copies in it, one for an    *)
(*             inode (JournalVersions has the choice among several), each  *)
(*             with the versions of tree blocks journal_index_read() finds *)
(*             for it in the middle of the walk, any at all (JournalWalk   *)
(*             has which); index: what it finds after it; revoked          *)
(*   dirs, jdirs   directories, and directory blocks in the journal        *)
(*   checkpoint    one left behind by an earlier run                       *)
(*                                                                         *)
(* A file's content maps its blocks to the device's blocks they were       *)
(* copied from; a hole is not in its domain, so a file is empty iff it has *)
(* no block.  Copying an extent takes a step for every Chunk blocks.       *)
(***************************************************************************)
EXTENDS ExtentTrees, OutputNames

CONSTANTS Disks,      \* what may be found
          Chunk,      \* RBTF_CHUNK_BLOCKS
          MaxChain,   \* orphans followed along the chain (10000)
          FirstIno    \* EXT2_GOOD_OLD_FIRST_INO (11)

ASSUME RunAssumption == Chunk \in Nat \ {0} /\ MaxChain \in Nat /\ FirstIno \in Nat

Order == <<"orphan", "journal", "normal", "aggressive", "targeted">>
Counters == {"files", "failed", "orphan", "journal", "aggressive"}

\* What the parts of a disk are; no more is assumed of what they say.
DiskInodes == [readable : BOOLEAN, reg : BOOLEAN, links : Nat, extents : BOOLEAN, magic : BOOLEAN,
            depth : Nat, max : Nat, slots : Seq(Slots), resid : Seq(Slots), next : Nat, size : Nat]
InodeCopies == [ino : 1 .. InodesCount, kind : {"extents", "inline", "indirect"}, live : BOOLEAN,
                size : Nat, magic : BOOLEAN, depth : Nat, max : Nat, slots : Seq(Slots),
                ptrs : Seq(Nat), found : [Blocks -> Headers]]
DiskOK(d) ==
    /\ d.args \in Seq(ToSet(Order) \cup {"all"})
    /\ {d.ondevice, d.has_orphan_file, d.journal, d.inline} \subseteq BOOLEAN
    /\ d.inodes \in [1 .. InodesCount -> DiskInodes]
    /\ d.node \in [Blocks -> Headers] /\ d.ptrs \in [Blocks -> [1 .. PerBlock -> Nat]] /\ d.bad \subseteq Blocks
    /\ d.last_orphan \in Nat
    /\ {d.orphan_file, d.revoked} \subseteq Seq(Nat)
    /\ d.copies \in Seq(InodeCopies)
    /\ \A i \in DOMAIN d.copies :
         d.copies[i].kind = "indirect" => Len(d.copies[i].ptrs) = NDirect + 3
    /\ DOMAIN d.index \subseteq Nat /\ \A b \in DOMAIN d.index : d.index[b] \in Headers
    /\ d.dirs \in Seq(Directories) /\ d.jdirs \in Seq(Seq(DirEntries))
    /\ d.checkpoint \in [device : {"none", "torn", "other", "this"}, stats : [Counters -> Nat]]

ASSUME DisksAssumption == \A d \in Disks : DiskOK(d)

VARIABLES disk,
          files, checkpoint, manifest,        \* what survives a crash
          resume,                             \* --resume was given
          mode, phase, saving, pos, count,    \* where main() is
          job,                                \* the output being written
          covered, marks,                     \* recovered_extents, rb_keys
          stats,                              \* the counters of the context
          owner, planned                      \* history, see below

run == <<mode, phase, saving, pos, count>>
dirvars == <<files, checkpoint, manifest>>
vars == <<disk, files, checkpoint, manifest, resume, mode, phase, saving, pos, count,
          job, covered, marks, stats, owner, planned, nvars, mishaps>>

NoJob == [kind |-> "none"]
NoFile == NoEntries
Zero == [c \in Counters |-> 0]
NoCheckpoint == [device |-> "none", stats |-> Zero]
Torn == [device |-> "torn", stats |-> Zero]       \* created, not yet written
Saved(s) == [device |-> "this", stats |-> s]

Init ==
    /\ disk \in Disks
    /\ files = NoEntries /\ manifest = {} /\ checkpoint = disk.checkpoint
    /\ resume = (checkpoint # NoCheckpoint)
    /\ mode = {} /\ phase = "setup" /\ saving = FALSE /\ pos = 0 /\ count = 0
    /\ job = NoJob /\ covered = {} /\ marks = {} /\ stats = Zero
    /\ owner = NoEntries /\ planned = NoEntries
    /\ NamesInit /\ mishaps = 0

-----------------------------------------------------------------------------
(* The start of main(). *)

\* The mode flags: each replaces what came before, --targeted is added to it.
parse_args(args) ==
    LET upto[i \in 0 .. Len(args)] ==
          IF i = 0 THEN {"journal"}
          ELSE IF args[i] = "all" THEN ToSet(Order)
          ELSE IF args[i] = "targeted" THEN upto[i - 1] \cup {"targeted"}
          ELSE {args[i]}
    IN upto[Len(args)]

\* init_journal() runs in the journal mode only.
HasJournal == disk.journal /\ "journal" \in mode

\* load_checkpoint(): the counters of a checkpoint for this device; one that was
\* cut short says nothing and is as good as all zeroes.  The mode is not restored.
Loaded == IF resume /\ checkpoint.device # "other" THEN checkpoint.stats ELSE Zero

\* The file system or the device cannot be opened, or the output is on it.
SetupFails ==
    /\ phase = "setup"
    /\ IF disk.ondevice THEN UNCHANGED mishaps ELSE Mishap
    /\ phase' = "failed"
    /\ UNCHANGED <<disk, dirvars, resume, mode, saving, pos, count, job, covered, marks,
                   stats, owner, planned, nvars>>

Setup ==
    /\ phase = "setup" /\ ~disk.ondevice
    /\ mode' = parse_args(disk.args)
    /\ stats' = [Loaded EXCEPT !.failed = 0]
    /\ phase' = "names" /\ pos' = 1
    /\ init_filename_map
    /\ UNCHANGED <<disk, dirvars, resume, saving, count, job, covered, marks, owner, planned>>

Found == NamesFound(disk.dirs, IF HasJournal THEN disk.jdirs ELSE <<>>)

AddName ==
    /\ phase = "names" /\ filename_cap # 0 /\ pos <= Len(Found)
    /\ add_filename_mapping(Found[pos].ino, Found[pos].name)
    /\ pos' = pos + 1
    /\ UNCHANGED <<disk, dirvars, resume, mode, phase, saving, count, job, covered, marks,
                   stats, owner, planned>>

-----------------------------------------------------------------------------
(* From phase to phase. *)

\* Where the loop of a phase begins, and whether it is over.  A chain of orphans whose
\* head is no inode ends at once.
First(p) == IF p = "orphan" /\ ~disk.has_orphan_file
            THEN IF disk.last_orphan > InodesCount THEN 0 ELSE disk.last_orphan
            ELSE 1

Over ==
    CASE phase = "orphan"     -> IF disk.has_orphan_file THEN pos > Len(disk.orphan_file)
                                 ELSE pos = 0 \/ count > MaxChain
      [] phase = "journal"    -> ~HasJournal \/ pos > Len(disk.copies)
      [] phase = "normal"     -> pos > InodesCount
      [] phase = "aggressive" -> \A b \in Blocks : b >= pos => b \in disk.bad \/ ~disk.node[b].magic
      [] phase = "targeted"   -> ~HasJournal \/ pos > Len(disk.revoked)
      [] OTHER                -> FALSE

\* The next phase of the mode, or the final report.
After(p, m) ==
    LET at(q) == CHOOSE i \in DOMAIN Order : Order[i] = q
        later == {q \in m : p \notin ToSet(Order) \/ at(q) > at(p)}
    IN IF later = {} THEN "report" ELSE CHOOSE q \in later : \A r \in later : at(q) <= at(r)

Enter(p) == phase' = p /\ pos' = First(p) /\ count' = 0

NamesDone ==
    /\ phase = "names"
    /\ filename_cap = 0 \/ pos > Len(Found)
    /\ Enter(After("names", mode))
    /\ UNCHANGED <<disk, dirvars, resume, mode, saving, job, covered, marks, stats, owner,
                   planned, nvars, mishaps>>

\* A phase is over.  save_checkpoint() truncates the file, then writes it; the
\* aggressive scan frees its marks first.
PhaseDone ==
    /\ Over /\ job = NoJob /\ ~saving
    /\ marks' = IF phase = "aggressive" THEN {} ELSE marks
    /\ \/ saving' = TRUE /\ checkpoint' = Torn /\ UNCHANGED <<phase, pos, count, mishaps>>
       \/ Mishap /\ Enter(After(phase, mode)) /\ UNCHANGED <<saving, checkpoint>>
    /\ UNCHANGED <<disk, files, manifest, resume, mode, job, covered, stats, owner, planned, nvars>>

CheckpointWritten ==
    /\ saving
    /\ saving' = FALSE /\ checkpoint' = Saved(stats)
    /\ Enter(After(phase, mode))
    /\ UNCHANGED <<disk, files, manifest, resume, mode, job, covered, marks, stats, owner,
                   planned, nvars, mishaps>>

-----------------------------------------------------------------------------
(* Output files. *)

Without(f, n) == [m \in DOMAIN f \ {n} |-> f[m]]
Overlay(f, g) == [l \in DOMAIN f \cup DOMAIN g |-> IF l \in DOMAIN g THEN g[l] ELSE f[l]]
Content(n) == IF n \in DOMAIN files THEN files[n] ELSE NoFile
SizeOf(f) == IF f = NoFile THEN 0 ELSE 1 + (CHOOSE l \in DOMAIN f : \A m \in DOMAIN f : m <= l)
Cut(f, size) == [l \in {l \in DOMAIN f : l < size} |-> f[l]]
Inline == [l \in {0} |-> 0]          \* the bytes in an inode

\* What the first extents of a plan leave in a file, and how many blocks they are.
Piece(e) == [l \in e.at .. e.at + e.len - 1 |-> e.start + l - e.at]
CopiesUpto(plan) ==
    LET upto[i \in 0 .. Len(plan)] ==
          IF i = 0 THEN NoFile ELSE Overlay(upto[i - 1], Piece(plan[i]))
    IN upto
LengthUpto(plan) ==
    LET upto[i \in 0 .. Len(plan)] == IF i = 0 THEN 0 ELSE upto[i - 1] + plan[i].len
    IN upto

\* What a plan leaves in a file up to its k-th extent and done blocks of the next.
Upto(plan, k, done) ==
    IF k = Len(plan) THEN CopiesUpto(plan)[k]
    ELSE Overlay(CopiesUpto(plan)[k], Piece([plan[k + 1] EXCEPT !.len = done]))

\* The chunks of e that lie on the device.
Fitting(e) == IF e = NoWay \/ e.start >= TotalBlocks THEN 0
              ELSE Chunk * ((TotalBlocks - e.start) \div Chunk)

\* The content of an output that nothing has gone wrong with.  A travel ends at the
\* first thing it cannot follow, and keeps the chunks before it.
Target(kind, plan, size) ==
    LET odd == {i \in DOMAIN plan : plan[i] = NoWay \/ ~InDevice(plan[i])}
        end == CHOOSE i \in odd : \A j \in odd : i <= j
        all == CopiesUpto(plan)[Len(plan)]
    IN CASE kind = "inode"    -> IF odd = {} THEN all ELSE Upto(plan, end - 1, Fitting(plan[end]))
         [] kind = "inline"   -> Inline
         [] kind = "indirect" -> IF size < Len(plan) THEN Cut(all, size) ELSE all
         [] kind = "journal"  -> IF size < LengthUpto(plan)[Len(plan)] THEN Cut(all, size) ELSE all
         [] OTHER             -> all

Job(kind, src, name, plan, size) ==
    [kind |-> kind, src |-> src, name |-> name, open |-> FALSE, todo |-> plan, done |-> 0,
     ok |-> 0, stopped |-> FALSE, plan |-> plan, size |-> size]

Bump(s, cs) == [c \in Counters |-> IF c \in cs THEN s[c] + 1 ELSE s[c]]

\* Counters of an inode recovered in the orphan phase and in the inode scan.
Gained == IF phase = "orphan" THEN {"orphan", "files"} ELSE {"files"}

\* open() with O_TRUNC.
OpenFile ==
    /\ job # NoJob /\ ~job.open
    /\ job' = [job EXCEPT !.open = TRUE]
    /\ files' = Put(files, job.name, NoFile)
    /\ IF job.kind \in {"journal", "probe"} THEN UNCHANGED <<owner, planned>>
       ELSE /\ owner' = Put(owner, job.name, [src |-> job.src, by |-> job.kind])
            /\ planned' = Put(planned, job.name, Target(job.kind, job.plan, job.size))
    /\ UNCHANGED <<disk, checkpoint, manifest, resume, run, covered, marks, stats, nvars, mishaps>>

\* open() fails: the operation gives up.
OpenFails ==
    /\ job # NoJob /\ ~job.open
    /\ Mishap
    /\ job' = NoJob
    /\ stats' = IF job.kind = "inode" THEN Bump(stats, {"failed"}) ELSE stats
    /\ UNCHANGED <<disk, dirvars, resume, run, covered, marks, owner, planned, nvars>>

Copying == job # NoJob /\ job.open /\ job.todo # <<>>
Extent == job.todo[1]
This == IF Extent.len - job.done > Chunk THEN Chunk ELSE Extent.len - job.done

\* Mutant of Readable: a short read passes for a whole one.
ReadableShort == Extent # NoWay

Readable == /\ Extent # NoWay
            /\ \A b \in Extent.start + job.done .. Extent.start + job.done + This - 1 :
                 b \in Blocks \ disk.bad

\* Mutant of At: every chunk goes where the extent begins.
AtExtent == IF job.kind = "indirect" THEN Cardinality(DOMAIN files[job.name]) ELSE Extent.at

\* Indirect files are written one block after the other, extents at their place.
At == IF job.kind = "indirect" THEN Cardinality(DOMAIN files[job.name])
      ELSE Extent.at + job.done

\* Mutant of CopyChunk: blocks that are in some output already are not written.
CopyChunkDeduped ==
    /\ Copying /\ Readable
    /\ IF BlocksOf(Extent) \subseteq covered THEN UNCHANGED files
       ELSE files' = [files EXCEPT ![job.name] =
                   Overlay(@, [l \in At .. At + This - 1 |-> Extent.start + job.done + l - At])]
    /\ job' = IF job.done + This = Extent.len
              THEN [job EXCEPT !.todo = Tail(@), !.done = 0, !.ok = @ + Extent.len]
              ELSE [job EXCEPT !.done = @ + This]
    /\ covered' = IF job.done + This = Extent.len THEN covered \cup BlocksOf(Extent) ELSE covered
    /\ UNCHANGED <<disk, checkpoint, manifest, resume, run, marks, stats, owner, planned,
                   nvars, mishaps>>

\* recover_block_to_file(), a chunk; the last one registers the extent.
CopyChunk ==
    /\ Copying /\ Readable
    /\ files' = [files EXCEPT ![job.name] =
                   Overlay(@, [l \in At .. At + This - 1 |-> Extent.start + job.done + l - At])]
    /\ IF job.done + This = Extent.len
       THEN /\ job' = [job EXCEPT !.todo = Tail(@), !.done = 0, !.ok = @ + Extent.len]
            /\ covered' = IF job.kind = "indirect" THEN covered ELSE covered \cup BlocksOf(Extent)
       ELSE job' = [job EXCEPT !.done = @ + This] /\ UNCHANGED covered
    /\ UNCHANGED <<disk, checkpoint, manifest, resume, run, marks, stats, owner, planned,
                   nvars, mishaps>>

\* A chunk cannot be read or, beyond its first blocks, written, or the travel gives
\* up.  The travel of an inode ends then, the other dumps go on with their next
\* extent.
ChunkFails ==
    /\ Copying
    /\ IF ~Readable THEN UNCHANGED <<files, mishaps>>
       ELSE /\ Mishap
            /\ \E n \in 0 .. This - 1 :
                 files' = [files EXCEPT ![job.name] =
                   Overlay(@, [l \in At .. At + n - 1 |-> Extent.start + job.done + l - At])]
    /\ job' = [job EXCEPT !.todo = IF job.kind = "inode" THEN <<>> ELSE Tail(@),
                          !.done = 0, !.stopped = TRUE]
    /\ UNCHANGED <<disk, checkpoint, manifest, resume, run, covered, marks, stats, owner,
                   planned, nvars>>

Copied(kinds) == job # NoJob /\ job.open /\ job.todo = <<>> /\ job.kind \in kinds

\* The end of recover_from_extent_tree(): a travel that stopped counts if it has
\* left anything in the file; the name is resolved once more to find out.
InodeDone ==
    /\ Copied({"inode"})
    /\ stats' = Bump(stats, IF ~job.stopped \/ files[job.name] # NoFile THEN Gained ELSE {"failed"})
    /\ IF job.stopped THEN resolve_output_name(job.src) ELSE UNCHANGED <<nvars, mishaps>>
    /\ job' = NoJob
    /\ UNCHANGED <<disk, dirvars, resume, run, covered, marks, owner, planned>>

\* mark_block_recovered() for each of order; the first mark of all needs memory.
\* (Growing the table again takes more than 2048 marks.)
MarkRecovered(order) ==
    \/ marks' = marks \cup ToSet(order) /\ UNCHANGED mishaps
    \/ marks = {} /\ order # <<>> /\ Mishap /\ marks' = ToSet(Tail(order))

\* The end of the dumps of a tree, of a leaf and of a revoked leaf: an output in
\* which nothing could be recovered is unlinked.  A tree found through its revoke
\* record is counted by both functions.
BlockDone ==
    /\ Copied({"tree", "leaf", "targeted"})
    /\ IF job.ok > 0
       THEN /\ stats' = [stats EXCEPT !.aggressive =
                           @ + IF job.kind = "tree" /\ phase = "targeted" THEN 2 ELSE 1]
            /\ MarkRecovered(IF job.kind = "targeted" THEN <<>> ELSE <<job.src>>)
            /\ UNCHANGED files
       ELSE files' = Without(files, job.name) /\ UNCHANGED <<stats, marks, mishaps>>
    /\ job' = NoJob
    /\ UNCHANGED <<disk, checkpoint, manifest, resume, run, covered, owner, planned, nvars>>

\* Mutant of JournalName: the copy is written under its final name.
JournalNameDirect(ino) == <<"out", Resolved(ino)>>

\* The temporary file of an inode.
JournalName(ino) == <<"tmp", ino>>

\* A file that is too long is cut; that truncate() has failed is not looked at.
Truncate(long, cut) == IF cut = long THEN UNCHANGED mishaps ELSE long /\ Mishap

\* The end of recover_inode_from_journal(): the temporary file is cut to the size
\* of the inode and renamed over whatever the inode's output was.
Promote ==
    /\ Copied({"journal"}) /\ job.ok > 0
    /\ \E cut \in BOOLEAN :
         LET long == job.size < job.ok
             final == <<"out", Resolved(job.src)>>
             got == IF cut THEN Cut(files[job.name], job.size) ELSE files[job.name]
         IN /\ Truncate(long, cut)
            /\ files' = Put(Without(files, job.name), final, got)
            /\ owner' = Put(owner, final, [src |-> job.src, by |-> "journal"])
            /\ planned' = Put(planned, final, IF job.stopped \/ cut # long THEN got
                                              ELSE Target("journal", job.plan, job.size))
    /\ stats' = Bump(stats, {"journal"}) /\ job' = NoJob
    /\ UNCHANGED <<disk, checkpoint, manifest, resume, run, covered, marks, nvars>>

\* Nothing was recovered, or rename() fails: the temporary file goes.
PromoteFails ==
    /\ Copied({"journal"})
    /\ IF job.ok > 0 THEN Mishap ELSE UNCHANGED mishaps
    /\ files' = Without(files, job.name) /\ job' = NoJob
    /\ UNCHANGED <<disk, checkpoint, manifest, resume, run, covered, marks, stats, owner,
                   planned, nvars>>

\* The end of recover_indirect_file().
IndirectDone ==
    /\ Copied({"indirect"})
    /\ \E cut \in BOOLEAN :
         /\ Truncate(job.ok # 0 /\ job.size < Len(job.plan), cut)
         /\ files' = IF job.ok = 0 THEN Without(files, job.name)
                     ELSE IF cut THEN [files EXCEPT ![job.name] = Cut(@, job.size)] ELSE files
    /\ stats' = IF job.ok = 0 THEN stats ELSE Bump(stats, {"journal"})
    /\ job' = NoJob
    /\ UNCHANGED <<disk, checkpoint, manifest, resume, run, covered, marks, owner, planned,
                   nvars>>

\* recover_inline_data() writes the inode's own bytes, here block 0, or unlinks
\* what a failed write has left.
InlineDone ==
    /\ Copied({"inline"})
    /\ \/ /\ files' = [files EXCEPT ![job.name] = Inline]
          /\ stats' = Bump(stats, {"journal"}) /\ UNCHANGED mishaps
       \/ files' = Without(files, job.name) /\ Mishap /\ UNCHANGED stats
    /\ job' = NoJob
    /\ UNCHANGED <<disk, checkpoint, manifest, resume, run, covered, marks, owner, planned, nvars>>

-----------------------------------------------------------------------------
(* Phases 1 and 3: inodes. *)

\* A turn of a phase's loop.
Turn(p) == phase = p /\ ~saving /\ job = NoJob /\ ~Over

\* recover_from_extent_tree() up to the output file.  One with data in it is left
\* as it is and counts as recovered.
StartInode(ino) ==
    LET i == disk.inodes[ino]
        name == <<"out", Resolved(ino)>>
    IN IF ~Travelable(i)
       THEN stats' = Bump(stats, {"failed"}) /\ UNCHANGED <<job, nvars, mishaps>>
       ELSE /\ resolve_output_name(ino)
            /\ IF Content(name) # NoFile
               THEN stats' = Bump(stats, Gained) /\ UNCHANGED job
               ELSE /\ job' = Job("inode", ino, name, TravelPlan(disk, i), 0)
                    /\ UNCHANGED stats

Pass == UNCHANGED <<job, stats, nvars, mishaps>>

\* Mutant of OrphanChain: an inode that is skipped does not count.
OrphanChainUncounted ==
    /\ Turn("orphan") /\ ~disk.has_orphan_file
    /\ LET i == disk.inodes[pos]
           wanted == i.readable /\ i.reg /\ i.links = 0 /\ i.extents
       IN /\ pos' = IF ~i.readable \/ i.next > InodesCount THEN 0 ELSE i.next
          /\ count' = IF wanted THEN count + 1 ELSE count
          /\ IF wanted THEN StartInode(pos) ELSE Pass
    /\ UNCHANGED <<disk, dirvars, resume, mode, phase, saving, covered, marks, owner, planned>>

\* scan_orphan_chain(): i_dtime is the next orphan, unless it is a time.
OrphanChain ==
    /\ Turn("orphan") /\ ~disk.has_orphan_file
    /\ LET i == disk.inodes[pos]
       IN /\ pos' = IF ~i.readable \/ i.next > InodesCount THEN 0 ELSE i.next
          /\ count' = count + 1
          /\ IF i.readable /\ i.reg /\ i.links = 0 /\ i.extents THEN StartInode(pos) ELSE Pass
    /\ UNCHANGED <<disk, dirvars, resume, mode, phase, saving, covered, marks, owner, planned>>

\* recover_orphan_file(): whether the inode is still linked is not looked at.
OrphanFile ==
    /\ Turn("orphan") /\ disk.has_orphan_file
    /\ pos' = pos + 1
    /\ LET ino == disk.orphan_file[pos]
       IN IF /\ ino \in 1 .. InodesCount
             /\ disk.inodes[ino].readable /\ disk.inodes[ino].reg /\ disk.inodes[ino].extents
          THEN StartInode(ino) ELSE Pass
    /\ UNCHANGED <<disk, dirvars, resume, mode, phase, saving, count, covered, marks, owner,
                   planned>>

\* The inode scan of phase 3.  A bad block of the inode table is passed over; any other
\* error in reading an inode ends the scan.
NormalInode ==
    /\ Turn("normal")
    /\ \/ pos' = pos + 1
       \/ ~disk.inodes[pos].readable /\ pos' = InodesCount + 1
    /\ LET i == disk.inodes[pos]
       IN IF pos >= 3 /\ i.readable /\ i.reg /\ i.links = 0 /\ i.extents /\ i.magic
          THEN StartInode(pos) ELSE Pass
    /\ UNCHANGED <<disk, dirvars, resume, mode, phase, saving, count, covered, marks, owner,
                   planned>>

-----------------------------------------------------------------------------
(* Phase 2: copies of inodes in the journal. *)

RootIno == 2

\* Tests of process_inode_table_block(): the inode on the disk has been deleted.
Wanted(c) ==
    LET i == disk.inodes[c.ino]
    IN /\ c.size > 0
       /\ c.ino > FirstIno \/ (c.kind = "extents" /\ c.ino = RootIno)
       /\ i.readable
       /\ i.links = 0 \/ (c.kind = "extents" /\ (i.next # 0 \/ i.size = 0))
       /\ c.kind = "inline" => disk.inline

\* The device with what journal_index_read() finds for a copy: a version no newer than the
\* copy, and that only where the bisection of an index the walk is still filling, and that
\* is sorted after the walk, comes across it.
AsOf(c) == [node |-> disk.node, bad |-> disk.bad, index |-> c.found]

\* recover_inode_from_journal(): an artifact, a copy with no links, whose blocks
\* have been recovered is left out; anything else goes to a temporary file.
FromExtents(c) ==
    IF \/ ~JournalRecoverable(AsOf(c), c)
       \/ ~c.live /\ FullyCovered(JournalProbed(disk, c), covered)
    THEN Pass
    ELSE /\ resolve_output_name(c.ino)
         /\ job' = Job("journal", c.ino, JournalName(c.ino), JournalPlan(AsOf(c), c), c.size)
         /\ UNCHANGED stats

\* recover_inline_data() and recover_indirect_file(): a file that is as large is
\* not overwritten.
FromInode(c) ==
    LET name == <<IF c.kind = "inline" THEN "inline" ELSE "ind", Resolved(c.ino)>>
    IN /\ resolve_output_name(c.ino)
       /\ job' = IF SizeOf(Content(name)) >= c.size THEN NoJob
                 ELSE Job(c.kind, c.ino, name,
                          IF c.kind = "inline" THEN <<>> ELSE IndirectPlan(disk, c.ptrs), c.size)
       /\ UNCHANGED stats

\* Without extents, should_skip_version() gets the address of a pointer and reads
\* whatever lies there: it may or may not skip the inode.
JournalCopy ==
    /\ Turn("journal")
    /\ pos' = pos + 1
    /\ LET c == disk.copies[pos]
       IN \/ ~Wanted(c) /\ Pass
          \/ Wanted(c) /\ c.kind = "extents" /\ FromExtents(c)
          \/ Wanted(c) /\ c.kind # "extents" /\ Pass
          \/ Wanted(c) /\ c.kind # "extents" /\ FromInode(c)
    /\ UNCHANGED <<disk, dirvars, resume, mode, phase, saving, count, covered, marks, owner,
                   planned>>

-----------------------------------------------------------------------------
(* Phases 4 and 5: blocks that hold extent headers. *)

\* recover_orphaned_extent_tree() for block b, whose content is h, up to the output
\* file: the walk marks the blocks below b even if nothing comes of it.
StartTree(b, h) ==
    LET w == walk_extent_tree(disk, h)
    IN IF w.exts = <<>> THEN job' = NoJob /\ MarkRecovered(w.marks)
       ELSE IF FullyCovered(w.exts, covered)
       THEN job' = NoJob /\ MarkRecovered(w.marks \o <<b>>)
       ELSE job' = Job("tree", b, <<"tree", b>>, TreePlan(w.exts), 0) /\ MarkRecovered(w.marks)

\* The same of recover_orphaned_extent_block() for a leaf.
StartLeaf(b, h) ==
    IF FullyCovered(LeafProbed(h), covered) THEN job' = NoJob /\ MarkRecovered(<<b>>)
    ELSE /\ job' = Job("leaf", b, <<"leaf", b>>, LeafPlan(h), 0)
         /\ UNCHANGED <<marks, mishaps>>

\* scan_for_extent_headers(), to the next block with a header: one that is marked
\* is passed over.
ScanBlock ==
    /\ Turn("aggressive")
    /\ LET hits == {b \in Blocks : b >= pos /\ b \notin disk.bad /\ disk.node[b].magic}
           b == CHOOSE b \in hits : \A c \in hits : b <= c
       IN /\ pos' = b + 1
          /\ IF b \in marks \/ ~validate_extent_header(disk.node[b])
             THEN UNCHANGED <<job, marks, mishaps>>
             ELSE IF disk.node[b].depth = 0 THEN StartLeaf(b, disk.node[b])
             ELSE StartTree(b, disk.node[b])
    /\ UNCHANGED <<disk, dirvars, resume, mode, phase, saving, count, covered, stats, owner,
                   planned, nvars>>

\* recover_from_revoke(), a revoked block.  A leaf is dumped here, without its
\* header being validated.  For an index block the output is opened as well, and
\* left empty.
RevokedBlock ==
    /\ Turn("targeted")
    /\ pos' = pos + 1
    /\ LET b == disk.revoked[pos]
           h == read_tree_block_versioned(disk, b)
           name == <<"targeted", b>>
       IN IF b \in 2 .. TotalBlocks - 1 /\ h.magic /\ b \notin marks /\ Content(name) = NoFile
          THEN job' = IF h.depth = 0 THEN Job("targeted", b, name, ClearedPlan(h.slots), 0)
                      ELSE Job("probe", b, name, <<>>, 0)
          ELSE UNCHANGED job
    /\ UNCHANGED <<disk, dirvars, resume, mode, phase, saving, count, covered, marks, stats,
                   owner, planned, nvars, mishaps>>

RevokedTree ==
    /\ Copied({"probe"})
    /\ LET h == read_tree_block_versioned(disk, job.src)
       IN IF validate_extent_header(h) THEN StartTree(job.src, h)
          ELSE job' = NoJob /\ UNCHANGED <<marks, mishaps>>
    /\ UNCHANGED <<disk, dirvars, resume, run, covered, stats, owner, planned, nvars>>

-----------------------------------------------------------------------------
(* The end of main(), and crashes. *)

\* write_manifest() lists every output with data.  Names that begin with a dot, so
\* the temporary files, are left out.
Report ==
    /\ phase = "report"
    /\ phase' = "clear"
    /\ \/ /\ manifest' = {n \in DOMAIN files : n[1] # "tmp" /\ files[n] # NoFile}
          /\ UNCHANGED mishaps
       \/ Mishap /\ UNCHANGED manifest
    /\ UNCHANGED <<disk, files, checkpoint, resume, mode, saving, pos, count, job, covered,
                   marks, stats, owner, planned, nvars>>

\* clear_checkpoint() and the rest of main(), which frees the names.
Clear ==
    /\ phase = "clear"
    /\ phase' = "done" /\ checkpoint' = NoCheckpoint
    /\ ForgetNames
    /\ UNCHANGED <<disk, files, manifest, resume, mode, saving, pos, count, job, covered,
                   marks, stats, owner, planned, mishaps>>

\* The program is killed, and started again with --resume and the same arguments.
Crash ==
    /\ phase \notin {"setup", "done", "failed"}
    /\ Mishap
    /\ resume' = TRUE
    /\ mode' = {} /\ phase' = "setup" /\ saving' = FALSE /\ pos' = 0 /\ count' = 0
    /\ job' = NoJob /\ covered' = {} /\ marks' = {} /\ stats' = Zero
    /\ ForgetNames
    /\ UNCHANGED <<disk, dirvars, owner, planned>>

Ended == phase \in {"done", "failed"}

Finished == Ended /\ UNCHANGED vars

Writing == OpenFile \/ OpenFails \/ CopyChunk \/ ChunkFails
Closing == \/ InodeDone \/ BlockDone \/ Promote \/ PromoteFails \/ IndirectDone
           \/ InlineDone \/ RevokedTree
Looping == \/ OrphanChain \/ OrphanFile \/ JournalCopy \/ NormalInode
           \/ ScanBlock \/ RevokedBlock
Program ==
    \/ Setup \/ SetupFails \/ AddName \/ NamesDone
    \/ Looping \/ Writing \/ Closing
    \/ PhaseDone \/ CheckpointWritten \/ Report \/ Clear

Next == Program \/ Crash \/ Finished

Spec == Init /\ [][Next]_vars

\* The program is one process that never waits: it takes steps until it has ended.
\* This is weak fairness of Program, which is enabled until then.
FairSpec == Spec /\ ([]<>Ended \/ []<><<Program>>_vars)

-----------------------------------------------------------------------------
(* Properties. *)

\* Kinds of outputs, and of the jobs that write them.
Kinds == {"out", "tmp", "inline", "ind", "leaf", "tree", "targeted"}
JobKinds == {"inode", "inline", "indirect", "journal", "tree", "leaf", "targeted", "probe"}

\* Types, and the bounds of the loops.
TypeOK ==
    /\ NamesTypeOK
    /\ mode \subseteq ToSet(Order)
    /\ phase \in {"setup", "names", "report", "clear", "done", "failed"} \cup ToSet(Order)
    /\ \A n \in DOMAIN files : n[1] \in Kinds /\ \A l \in DOMAIN files[n] : files[n][l] \notin disk.bad
    /\ covered \subseteq Blocks /\ marks \subseteq Blocks
    /\ stats \in [Counters -> Nat] /\ count \in 0 .. MaxChain + 1
    /\ job # NoJob => /\ phase \in ToSet(Order) /\ ~saving
                      /\ job.open => job.name \in DOMAIN files
    /\ owner \in [DOMAIN planned -> [src : Nat, by : JobKinds]]

\* A run in which no call fails ends with every output it has opened complete:
\* neither what other outputs hold already, nor the turns other phases took at the
\* same file, leave a hole in it.
UninterruptedIsWhole ==
    phase = "done" /\ mishaps = 0 /\ disk.bad = {} =>
        \A n \in DOMAIN files \cap DOMAIN planned : files[n] = planned[n]

\* "Resume: kill -9 mid-scan, restart with --resume, verify final output equals the
\* uninterrupted run": the same of a run that was killed once and resumed.
ResumedIsWhole ==
    phase = "done" /\ resume /\ disk.bad = {} =>
        \A n \in DOMAIN files \cap DOMAIN planned : files[n] = planned[n]

\* What the journal phase has put in place is complete in every state, whatever is
\* killed and run again, up to blocks that could not be copied: it is written
\* under another name and renamed.
JournalAtomic ==
    \A n \in DOMAIN owner :
        owner[n].by = "journal" => n \in DOMAIN files /\ files[n] = planned[n]

\* Blocks that the disk's own content of tree blocks leads to whose versions in the journal
\* were found for copy c, and that nothing else leads to: neither these versions, nor the
\* other tree blocks, nor the copy itself.
BlocksIn(slots) == UNION {BlocksOf(Cleared(e)) : e \in ToSet(Extents(slots))}
Reused(c) ==
    LET old == {b \in Blocks : c.found[b].magic}
    IN (UNION {BlocksIn(disk.node[b].slots) : b \in old})
       \ UNION ({BlocksIn(c.slots)} \cup {BlocksIn(c.found[b].slots) : b \in old}
                \cup {BlocksIn(disk.node[b].slots) : b \in Blocks \ old})

\* The copies of an inode.
CopiesOf(ino) == {c \in ToSet(disk.copies) : c.ino = ino}

\* "the on-disk block may have been reused by a newer file while still carrying a
\* valid-looking extent magic": no output of the journal phase takes in what a newer file
\* has, of a tree block whose older version journal_index_read() found for the copy that
\* was recovered.  Where the lookup misses the version, the newer file's blocks do get in.
NoReusedBlocks ==
    \A n \in DOMAIN owner :
        owner[n].by = "journal" =>
            \E c \in CopiesOf(owner[n].src) : \A l \in DOMAIN files[n] : files[n][l] \notin Reused(c)

\* Names that the disk has for one inode and the program makes up for another, and
\* those whose claim was lost.
Contested(n) ==
    n[1] \in {"out", "inline", "ind"} /\ (n[2][1] = "file" \/ lost # {})

\* n keeps the blocks it has.
Keeps(n) == n \in DOMAIN files' /\ \A l \in DOMAIN files[n] :
                l \in DOMAIN files'[n] /\ files'[n][l] = files[n][l]

\* An output of this run that is not being written loses nothing but to the same
\* inode's copy in the journal; two inodes with one name, and a leaf and the tree
\* it belongs to, have an output each.
OutputsKeepOwner ==
    [][~resume /\ phase # "targeted" =>
         \A n \in DOMAIN files :
             \/ files[n] = NoFile \/ Contested(n) \/ Keeps(n)
             \/ job # NoJob /\ job.name = n
             \/ n \in DOMAIN files' /\ owner'[n] = [src |-> owner[n].src, by |-> "journal"]]_vars

\* "Output prefix: targeted_<blkno> (never touches existing outputs)": the phase
\* takes nothing away from an output that was there before it began.
TargetedLeavesOutputs ==
    [][phase = "targeted" /\ "aggressive" \in mode =>
         \A n \in DOMAIN files : n[1] # "targeted" => Keeps(n)]_vars

\* Trees the file system makes: a child is one level below its parent, and the
\* deepest block is within reach of the walk.
WellFormed ==
    \A b \in Blocks :
        LET h == disk.node[b]
        IN validate_extent_header(h) /\ h.depth > 0 =>
             /\ h.depth < MaxTreeDepth
             /\ Len(walk_extent_tree(disk, h).exts) < MaxCollected
             /\ \A i \in DOMAIN Followed(disk, h) :
                  LET c == disk.node[Followed(disk, h)[i]]
                  IN validate_extent_header(c) /\ c.depth = h.depth - 1

Scanned == "aggressive" \in mode /\ phase \in {"targeted", "report", "clear", "done"}

\* Once the aggressive scan is over, every initialized extent of every leaf on the disk has
\* been copied whole into an output by some dump of this run: not one is passed over between
\* a tree whose walk marked the leaf and the leaf, nor by the pre-checks.  Whether the output
\* still holds it is not said: a copy in the journal may have been renamed over it since.
NothingPassedOver ==
    Scanned /\ mishaps = 0 /\ disk.bad = {} /\ WellFormed =>
        \A b \in Blocks :
            validate_extent_header(disk.node[b]) /\ disk.node[b].depth = 0 =>
                \A e \in ToSet(LeafPlan(disk.node[b])) : ~Uninit(e) => BlocksOf(e) \subseteq covered

\* No two extents of a plan, as long as they are copied, meet in the file.
Apart(plan) ==
    \A i, j \in DOMAIN plan :
        i # j => \/ plan[i].at + plan[i].len <= plan[j].at
                 \/ plan[j].at + plan[j].len <= plan[i].at
Unfolded ==
    \A b \in Blocks : /\ Apart(LeafPlan(disk.node[b]))
                      /\ Apart(TreePlan(walk_extent_tree(disk, disk.node[b]).exts))

\* What the outputs hold.
Held == UNION {Range(files[n]) : n \in DOMAIN files}

\* The same over the files, for the aggressive scan on its own (--aggressive): when it is
\* over, the blocks of every initialized extent of every leaf are in the outputs.
NothingLost ==
    /\ mode = {"aggressive"} /\ (Scanned \/ (phase = "aggressive" /\ saving))
    /\ mishaps = 0 /\ disk.bad = {} /\ WellFormed /\ Unfolded
    => \A b \in Blocks :
          validate_extent_header(disk.node[b]) /\ disk.node[b].depth = 0 =>
              \A e \in ToSet(LeafPlan(disk.node[b])) : ~Uninit(e) => BlocksOf(e) \subseteq Held

\* "one recovery output instead of N independent leaf fragments": a leaf that lies behind
\* the block that points to it gets no output of its own.
NoFragments ==
    Scanned /\ mishaps = 0 /\ WellFormed =>
        \A b \in Blocks : \A r \in 1 .. b - 1 :
            /\ r \notin disk.bad
            /\ validate_extent_header(disk.node[r]) /\ disk.node[r].depth > 0
            /\ b \in ToSet(Followed(disk, disk.node[r]))
            => <<"leaf", b>> \notin DOMAIN files

\* Block l of a file as its block pointers say, by the format of the file system, up to
\* TripleFrom - 1; no block where a pointer on the way to it is none.
DoubleFrom == NDirect + PerBlock                       \* the first block by double indirection
TripleFrom == DoubleFrom + PerBlock * PerBlock         \* by triple indirection: never read
PointerIn(b, i) == IF ind_block_valid(b) THEN disk.ptrs[b][i + 1] ELSE 0
PointedTo(ptrs, l) ==
    IF l < NDirect THEN ptrs[l + 1]
    ELSE IF l < DoubleFrom THEN PointerIn(ptrs[NDirect + 1], l - NDirect)
    ELSE PointerIn(PointerIn(ptrs[NDirect + 2], (l - DoubleFrom) \div PerBlock), (l - DoubleFrom) % PerBlock)

\* The blocks of a file in front of its first hole, within the program's limits.
Intact(ptrs) ==
    {l \in 0 .. TripleFrom - 1 : l < MaxInd /\ \A m \in 0 .. l : ind_block_valid(PointedTo(ptrs, m))}

BeingWritten(n) == job # NoJob /\ job.open /\ job.name = n

\* A file that is recovered through its block pointers has, up to its first hole,
\* every block where the pointers of one copy of its inode put it, at every moment;
\* and it has them all, and nothing past its size, once it has been written.
IndirectPlaced ==
    disk.bad = {} /\ mishaps = 0 =>
        \A n \in DOMAIN files : n[1] = "ind" =>
            \E i \in DOMAIN disk.copies :
                LET c == disk.copies[i]
                IN /\ c.kind = "indirect" /\ c.ino = owner[n].src
                   /\ \A l \in DOMAIN files[n] \cap Intact(c.ptrs) : files[n][l] = PointedTo(c.ptrs, l)
                   /\ ~BeingWritten(n) =>
                        /\ Intact(c.ptrs) \cap 0 .. c.size - 1 \subseteq DOMAIN files[n]
                        /\ DOMAIN files[n] \subseteq 0 .. c.size - 1

\* Every run ends, one that follows an orphan chain that runs in a circle or tree
\* blocks that point at each other too.
RunEnds == <>Ended

\* What a run still has to do at most: calls that may fail, phases, turns of the loop
\* of this one, its checkpoint, and of the job the outputs to open (a probe may turn
\* into a tree), the extents and the blocks of the next of them.  The disk has n names.
PhasesLeft == CASE phase = "setup" -> 9 [] phase = "names" -> 8
                [] phase = "orphan" -> 7 [] phase = "journal" -> 6 [] phase = "normal" -> 5
                [] phase = "aggressive" -> 4 [] phase = "targeted" -> 3
                [] phase = "report" -> 2 [] phase = "clear" -> 1 [] OTHER -> 0
TurnsLeft(n) ==
    CASE phase = "names"      -> n + 1 - pos
      [] phase = "orphan"     -> IF disk.has_orphan_file THEN Len(disk.orphan_file) + 1 - pos
                                 ELSE MaxChain + 1 - count
      [] phase = "journal"    -> Len(disk.copies) + 1 - pos
      [] phase = "normal"     -> InodesCount + 1 - pos
      [] phase = "aggressive" -> TotalBlocks - pos
      [] phase = "targeted"   -> Len(disk.revoked) + 1 - pos
      [] OTHER                -> 0
CallsLeft == MaxMishaps - mishaps
Unsaved == IF saving THEN 0 ELSE 1
Openings == IF job = NoJob THEN 0 ELSE IF job.kind = "probe" THEN 2 ELSE 1
Unopened == IF job = NoJob THEN 0 ELSE IF job.open THEN 0 ELSE 1
ExtentsLeft == IF job = NoJob THEN 0 ELSE Len(job.todo)
BlocksLeft == IF ExtentsLeft = 0 THEN 0 ELSE job.todo[1].len - job.done

Work(n) == <<CallsLeft, PhasesLeft, TurnsLeft(n), Unsaved,
             Openings, Unopened, ExtentsLeft, BlocksLeft>>

\* v comes before w: it is less in one place, where w is above zero, and the same in
\* front of it.  Nothing falls in this order for ever.
Less(v, w) == \E k \in DOMAIN w : /\ v[k] < w[k] /\ w[k] > 0
                                  /\ \A j \in 1 .. k - 1 : v[j] = w[j]

\* Every step leaves less to do, so no disk, whatever its chains and trees, keeps the
\* program busy for ever.  What n depends on stays as it is in a phase.
RunAdvances ==
    [][/\ \E n \in {Len(Found)} : Less(Work(n)', Work(n))
       /\ phase' = phase => UNCHANGED <<disk, mode>>]_vars

-----------------------------------------------------------------------------
(* The inductive invariants. *)

\* Names are collected before any is asked for, and asked for in the phases only.
PhaseInv ==
    /\ disk \in Disks
    /\ mode \subseteq ToSet(Order)
    /\ phase \in {"setup", "names", "report", "clear", "done", "failed"} \cup ToSet(Order)
    /\ phase = "setup" => filename_map = <<>> /\ latest = NoEntries
    /\ phase \in {"setup", "names"} => answered = {} /\ name_claims = <<>>
    /\ phase = "names" => pos \in Nat \ {0}
    /\ job # NoJob => phase \in ToSet(Order) /\ ~saving

\* Who may write where: the journal phase writes temporary files and puts files in place
\* under the names of inodes; any other output belongs to the one that has it open.
JobFields == DOMAIN Job("none", 0, 0, <<>>, 0)
OwnersInv ==
    /\ DOMAIN planned = DOMAIN owner
    /\ \A n \in DOMAIN owner : owner[n].by = "journal" => n[1] = "out"
    /\ job # NoJob =>
         /\ DOMAIN job = JobFields
         /\ job.kind = "journal" => job.name[1] = "tmp"
         /\ job.kind = "probe" => job.name[1] = "targeted"
         /\ job.open /\ job.kind \notin {"journal", "probe"} =>
              job.name \in DOMAIN owner /\ owner[job.name].by = job.kind

\* Extents that no newer file lies behind.
Genuine(c) == {e \in Exts : BlocksOf(e) \cap Reused(c) = {}}

\* How far a dump of copy c is: what is left to do is the rest of the plan, and the file
\* holds the rest if nothing was left out.
Progress(c) ==
    LET k == Len(job.plan) - Len(job.todo)
    IN /\ job.plan \in Seq(Genuine(c)) /\ job.todo \in Seq(Genuine(c))
       /\ k \in 0 .. Len(job.plan)
       /\ \A i \in 1 .. Len(job.todo) : job.todo[i] = job.plan[k + i]
       /\ job.done \in Nat /\ (job.todo # <<>> => job.done <= job.todo[1].len)
       /\ ~job.open => k = 0 /\ job.done = 0
       /\ ~job.stopped => job.ok = LengthUpto(job.plan)[k]
       /\ job.open => /\ job.name \in DOMAIN files
                      /\ ~job.stopped => files[job.name] = Upto(job.plan, k, job.done)
                      /\ \A l \in DOMAIN files[job.name] : files[job.name][l] \notin Reused(c)

Given == {p[2] : p \in answered}

\* The outputs of inodes are named as their inodes were answered, until the names are
\* forgotten.
AnswersInv ==
    /\ saving => phase \in ToSet(Order)
    /\ ~resume /\ ~Ended /\ lost = {} =>
         /\ \A n \in DOMAIN files :
              n[1] = "out" => n \in DOMAIN owner /\ <<owner[n].src, n[2]>> \in answered
         /\ job # NoJob =>
              /\ job.name[1] = "out" => <<job.src, job.name[2]>> \in answered
              /\ job.kind = "journal" => \E name \in Given : <<job.src, name>> \in answered

JournalInv ==
    /\ OwnersInv /\ JournalAtomic /\ NoReusedBlocks
    /\ phase = "journal" => pos \in Nat \ {0}
    /\ job # NoJob /\ job.kind = "journal" => \E c \in CopiesOf(job.src) : Progress(c)

\* The jobs the phases start.  Only the travel of an inode leads nowhere or past the end
\* of the device; the blocks of an indirect file come one after the other.
PlanOK(kind, plan) ==
    /\ plan \in Seq(Exts)
    /\ \A i \in DOMAIN plan :
         /\ plan[i] = NoWay \/ Mapped(plan[i])
         /\ kind # "inode" => Mapped(plan[i]) /\ InDevice(plan[i])
         /\ kind = "indirect" => plan[i].at = i - 1 /\ plan[i].len = 1
JobOK(dev, j) ==
    /\ DOMAIN j = JobFields
    /\ j.kind \in JobKinds /\ j.src \in Nat
    /\ PlanOK(j.kind, j.plan)
    /\ j.name[1] \in Kinds /\ (j.kind = "journal" <=> j.name[1] = "tmp")
    /\ j.kind \in {"tree", "leaf", "targeted", "probe"} => j.src \in Blocks
    /\ IF j.kind \in {"targeted", "probe"}
       THEN /\ j.name = <<"targeted", j.src>>
            /\ j.kind = "targeted" <=> read_tree_block_versioned(dev, j.src).depth = 0
       ELSE j.name[1] # "targeted"

\* How far a job is: chunk after chunk of what lies on the device, extent after extent.
Reading(j, fs) ==
    LET k == Len(j.plan) - Len(j.todo)
    IN /\ j.todo \in Seq(Exts) /\ k \in 0 .. Len(j.plan)
       /\ \A i \in 1 .. Len(j.todo) : j.todo[i] = j.plan[k + i]
       /\ j.done \in Nat
       /\ j.done # 0 => /\ j.todo # <<>> /\ j.done < j.todo[1].len
                        /\ j.todo[1].start + j.done <= TotalBlocks
                        /\ \E c \in 0 .. j.done : j.done = Chunk * c
       /\ ~j.stopped => /\ j.ok = LengthUpto(j.plan)[k]
                        /\ \A i \in 1 .. k : Mapped(j.plan[i]) /\ InDevice(j.plan[i])
       /\ ~j.open => k = 0 /\ j.done = 0 /\ ~j.stopped
       /\ j.open => /\ j.name \in DOMAIN fs
                    /\ ~j.stopped => fs[j.name] = Upto(j.plan, k, j.done)

\* Names of what was planned: no temporary file, and no revoked block that is an index.
PlannedNames(dev, ns) ==
    \A n \in ns : /\ n[1] # "tmp"
                  /\ n[1] = "targeted" => read_tree_block_versioned(dev, n[2]).depth = 0

JobInv ==
    /\ pos \in Nat
    /\ phase = "orphan" /\ ~disk.has_orphan_file => pos <= InodesCount
    /\ job # NoJob => JobOK(disk, job) /\ Reading(job, files)
    /\ PlannedNames(disk, DOMAIN planned)

\* Unless something went wrong every output is what it should be, but the one that is
\* being written.
WholeInv ==
    mishaps = 0 /\ disk.bad = {} =>
        /\ \A n \in DOMAIN files \cap DOMAIN planned :
             files[n] = planned[n] \/ (job # NoJob /\ job.open /\ job.name = n)
        /\ job # NoJob /\ job.open /\ job.kind \notin {"journal", "probe"} =>
             planned[job.name] = Target(job.kind, job.plan, job.size)
        /\ job # NoJob /\ job.stopped =>
             /\ job.open /\ job.kind = "inode" /\ job.todo = <<>>
             /\ files[job.name] = Target("inode", job.plan, job.size)

\* Blocks of trees, what lies below an index, and what a leaf has to give.
IndexAt(b) == validate_extent_header(disk.node[b]) /\ disk.node[b].depth > 0
LeafAt(b) == validate_extent_header(disk.node[b]) /\ disk.node[b].depth = 0
Below(b) == ToSet(Followed(disk, disk.node[b]))
Giving(b) == {e \in ToSet(LeafPlan(disk.node[b])) : ~Uninit(e)}

\* No index in front of b leads to b.
Unparented(b) == \A r \in 1 .. b - 1 : r \notin disk.bad /\ IndexAt(r) => b \notin Below(r)

\* The marks of the aggressive scan: where an index is marked or has been met, what is
\* below it is marked.  So a leaf that gets an output has no index in front of it.
MarksInv ==
    mishaps = 0 /\ WellFormed =>
        /\ phase \in {"setup", "names", "orphan", "journal", "normal"} => marks = {}
        /\ phase = "aggressive" /\ ~saving =>
             \A r \in Blocks : IndexAt(r) /\ (r \in marks \/ (r < pos /\ r \notin disk.bad)) =>
                 Below(r) \subseteq marks
        /\ job # NoJob =>
             /\ job.kind \in {"tree", "leaf", "probe"} => phase \in {"aggressive", "targeted"}
             /\ phase = "aggressive" =>
                  job.kind \in {"tree", "leaf"} /\ job.src < pos /\ job.src \notin disk.bad
             /\ job.name[1] = "leaf" => Unparented(job.name[2])
        /\ \A n \in DOMAIN files : n[1] = "leaf" => Unparented(n[2])

\* What a job for a tree or a leaf has read, and what it will.
Registered == \A i \in 1 .. Len(job.plan) - Len(job.todo) : BlocksOf(job.plan[i]) \subseteq covered
Got(e) == BlocksOf(e) \subseteq covered \/ (job # NoJob /\ e \in ToSet(job.plan))

\* The leaves of the aggressive scan: one that is behind it or marked gives all it has.
LeavesInv ==
    mishaps = 0 /\ disk.bad = {} /\ WellFormed =>
        /\ job # NoJob /\ job.kind \in {"tree", "leaf"} => Registered
        /\ phase = "aggressive" /\ ~saving =>
             \A b \in Blocks : LeafAt(b) /\ (b < pos \/ b \in marks) => \A e \in Giving(b) : Got(e)
        /\ (phase = "aggressive" /\ saving) \/ Scanned =>
             \A b \in Blocks : LeafAt(b) => \A e \in Giving(b) : BlocksOf(e) \subseteq covered

\* A dump of the aggressive scan: its output is new when it is opened, and then holds what
\* has been read and no more.
Keeping ==
    LET k == Len(job.plan) - Len(job.todo)
        f == files[job.name]
    IN /\ job.kind \in {"tree", "leaf"} /\ job.name = <<job.kind, job.src>> /\ job.src \in 0 .. pos - 1
       /\ Apart(job.plan)
       /\ job.ok \in Nat /\ (k > 0 => job.ok > 0)
       /\ ~job.open => job.name \notin DOMAIN files
       /\ job.open =>
            /\ \A l \in DOMAIN f :
                 \/ \E i \in 1 .. k : l \in job.plan[i].at .. job.plan[i].at + job.plan[i].len - 1
                 \/ job.todo # <<>> /\ l \in job.todo[1].at .. job.todo[1].at + job.done - 1
            /\ job.todo # <<>> => \A l \in 0 .. job.done - 1 :
                 job.todo[1].at + l \in DOMAIN f /\ f[job.todo[1].at + l] = job.todo[1].start + l

\* The aggressive scan on its own gives each output its name once, so what has been
\* registered as recovered is in the outputs.
HeldInv ==
    /\ phase \in ToSet(Order) => phase \in mode
    /\ mishaps = 0 /\ phase \in {"setup", "names"} => files = NoEntries /\ covered = {}
    /\ mishaps = 0 /\ disk.bad = {} /\ Unfolded /\ mode = {"aggressive"} =>
         /\ covered \subseteq Held
         /\ phase = "aggressive" => \A n \in DOMAIN files : n[2] \in 0 .. pos - 1
         /\ job # NoJob => Keeping

\* The files of block pointers: each is planned from a copy of the inode that owns it,
\* and a job for one has its own plan from there.
CopyOf(c, src) == c.kind = "indirect" /\ c.ino = src
PointersInv ==
    /\ job # NoJob =>
         /\ job.kind = "indirect" <=> job.name[1] = "ind"
         /\ job.kind = "indirect" =>
              /\ \E i \in DOMAIN disk.copies :
                   LET c == disk.copies[i]
                   IN CopyOf(c, job.src) /\ job.plan = IndirectPlan(disk, c.ptrs) /\ job.size = c.size
              /\ job.open => owner[job.name].src = job.src
    /\ \A n \in DOMAIN files : n[1] = "ind" =>
         /\ n \in DOMAIN planned \cap DOMAIN owner
         /\ \E i \in DOMAIN disk.copies :
              LET c == disk.copies[i]
              IN /\ CopyOf(c, owner[n].src)
                 /\ planned[n] = Target("indirect", IndirectPlan(disk, c.ptrs), c.size)
=============================================================================
