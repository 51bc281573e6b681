----------------------------- MODULE ExtentTrees -----------------------------
(***************************************************************************)
(* How the phases read extent trees and indirect blocks off the device,    *)
(* and which blocks they then copy: operators only.  They are those of     *)
(* extent_validator_v5.c, of extent_tree_travel() and                      *)
(* recover_from_extent_tree() in ext4recover_v5.c, of walk_extent_tree()   *)
(* and the two recover_orphaned_extent_*() in aggressive_scan_v5.c, of     *)
(* recover_inode_from_journal(), of the leaf dump in revoke_scan.c and of  *)
(* indirect_recovery.c.                                                    *)
(*                                                                         *)
(* An extent is [at, len, start]: logical block, raw ee_len, first block   *)
(* on the device.  An index entry is [at, leaf].  A header, in a block or  *)
(* in an inode, is [magic, depth, max, slots], its slots being its         *)
(* eh_entries entries.  A device gives for every block the header it holds *)
(* when read as one (node), the block pointers it holds when read as such  *)
(* (ptrs), the blocks that cannot be read (bad), and the headers that the  *)
(* journal index has for some blocks (index).                              *)
(*                                                                         *)
(* A plan is what an operation copies, in order: extents, and NoWay where  *)
(* the operation gives up.                                                 *)
(***************************************************************************)
EXTENDS Integers, Sequences, FiniteSets, SequencesExt, Selections, Qsort

CONSTANTS TotalBlocks,    \* blocks of the device
          MaxEntries,     \* entries that fit a block: calculate_max_entries()
          MaxHeaderDepth, \* deepest header taken for one (5)
          MaxTreeDepth,   \* MAX_TREE_DEPTH, levels walked below a root (5)
          MaxCollected,   \* MAX_COLLECTED_EXT
          InitMaxLen,     \* longest initialized extent (32768)
          NDirect,        \* direct pointers of an inode (12)
          PerBlock,       \* pointers in a block (per_block, blocksize / 4)
          MaxInd          \* MAX_IND_BLOCKS

ASSUME TreeAssumption ==
    /\ {TotalBlocks, MaxEntries, MaxTreeDepth, MaxCollected, InitMaxLen, PerBlock} \subseteq Nat \ {0}
    /\ {MaxHeaderDepth, NDirect, MaxInd} \subseteq Nat

Blocks == 1 .. TotalBlocks - 1
NoWay == [at |-> 0, len |-> 0, start |-> 0]

\* Extents, what a slot may hold, and headers.
Exts == [at : Nat, len : Nat, start : Nat]
Slots == Exts \cup [at : Nat, leaf : Nat]
Headers == [magic : BOOLEAN, depth : Nat, max : Nat, slots : Seq(Slots)]

-----------------------------------------------------------------------------
(* Entries and headers. *)

IsIndex(s) == "leaf" \in DOMAIN s

\* The same twelve bytes read as the other kind of entry.  An extent read as an
\* index has the low half of its start above bit 32 of the block number: it points
\* past the device unless that is 0.  An index read as an extent starts at 0.
AsIndex(s) == IF IsIndex(s) THEN s.leaf
              ELSE IF s.start = 0 THEN s.len ELSE TotalBlocks
AsExtent(s) == IF IsIndex(s) THEN [at |-> s.at, len |-> s.leaf, start |-> 0] ELSE s

Pointers(slots) == [i \in DOMAIN slots |-> AsIndex(slots[i])]
Extents(slots) == [i \in DOMAIN slots |-> AsExtent(slots[i])]

\* Lengths above 32768 are those of uninitialized extents.
Uninit(e) == e.len > InitMaxLen
Cleared(e) == [e EXCEPT !.len = IF Uninit(e) THEN @ - InitMaxLen ELSE @]
Mapped(e) == e.len # 0 /\ e.start # 0
InDevice(e) == e.start + e.len <= TotalBlocks
BlocksOf(e) == e.start .. e.start + e.len - 1

\* What the dumps of trees, journal copies and revoked leaves take of an extent.
Usable(e) == Mapped(e) /\ InDevice(Cleared(e))

validate_extent_header(h) ==
    /\ h.magic
    /\ h.depth <= MaxHeaderDepth
    /\ h.max <= MaxEntries
    /\ Len(h.slots) <= h.max

\* Mutant of FullyCovered: one recovered extent is enough.
PartlyCovered(exts, covered) ==
    \E i \in DOMAIN exts : BlocksOf(Cleared(exts[i])) \subseteq covered

\* The pre-checks: every extent asked about is recovered, and there is one.
FullyCovered(exts, covered) ==
    /\ exts # <<>>
    /\ \A i \in DOMAIN exts : BlocksOf(Cleared(exts[i])) \subseteq covered

-----------------------------------------------------------------------------
(* Orphaned trees and leaves. *)

Nothing == [exts |-> <<>>, marks |-> <<>>]

\* The children walk_extent_tree() goes down to.
Followed(dev, h) ==
    Select(Pointers(h.slots),
              LAMBDA b : b \in 2 .. TotalBlocks - 1 /\ b \notin dev.bad /\ dev.node[b].magic)

\* Mutant of WalkHeader: only the leaves that yield extents are marked.
WalkMarksLeavesLate(dev, h, below) ==
    IF ~validate_extent_header(h) THEN Nothing
    ELSE IF h.depth = 0
    THEN [exts |-> Select(Extents(h.slots), Usable), marks |-> <<>>]
    ELSE LET kids == Followed(dev, h)
         IN [exts  |-> FlattenSeq([i \in DOMAIN kids |-> below[i].exts]),
             marks |-> Select(kids, LAMBDA b : dev.node[b].depth # 0)]

\* One call of walk_extent_tree(): the extents it appends and the blocks it marks
\* recovered, in that order; below says the same of the calls it makes for the
\* children it follows.  A child is marked before it is looked into, and its failure is not looked at.
WalkHeader(dev, h, below) ==
    IF ~validate_extent_header(h) THEN Nothing
    ELSE IF h.depth = 0
    THEN [exts |-> Select(Extents(h.slots), Usable), marks |-> <<>>]
    ELSE LET kids == Followed(dev, h)
         IN [exts  |-> FlattenSeq([i \in DOMAIN kids |-> below[i].exts]),
             marks |-> FlattenSeq([i \in DOMAIN kids |-> <<kids[i]>> \o below[i].marks])]

\* The walk from a root whose content is h.  depth_left ends it on a cycle; once
\* MaxCollected extents are there, no leaf adds another.
walk_extent_tree(dev, h) ==
    LET walk[p \in (0 .. MaxTreeDepth) \X Blocks] ==
          IF p[1] = 0 THEN Nothing
          ELSE LET kids == Followed(dev, dev.node[p[2]])
               IN WalkHeader(dev, dev.node[p[2]],
                             [i \in DOMAIN kids |-> walk[<<p[1] - 1, kids[i]>>]])
        kids == Followed(dev, h)
        all == WalkHeader(dev, h, [i \in DOMAIN kids |-> walk[<<MaxTreeDepth - 1, kids[i]>>]])
    IN [all EXCEPT !.exts = SubSeq(@, 1, IF Len(@) < MaxCollected THEN Len(@) ELSE MaxCollected)]

collected_ext_cmp(a, b) == a.at < b.at

\* What recover_orphaned_extent_tree() dumps of the extents it collected.
TreePlan(exts) == Select(qsort(exts, collected_ext_cmp), LAMBDA e : ~Uninit(e))

\* The extents of a leaf that the pre-check of recover_orphaned_extent_block()
\* asks about, and those that it dumps: the dump does not clear the flag.
LeafProbed(h) == Select(Extents(h.slots), Mapped)
LeafPlan(h) == Select(Extents(h.slots), LAMBDA e : Mapped(e) /\ InDevice(e))

\* What the targeted scan dumps of a leaf, and the journal phase of an inode.
ClearedPlan(slots) ==
    LET usable == Select(Extents(slots), Usable)
    IN [i \in DOMAIN usable |-> Cleared(usable[i])]

-----------------------------------------------------------------------------
(* The trees of inodes. *)

\* dump_leaf_extent(): the device's size is not looked at.
dump_leaf_extent(h) ==
    IF Len(h.slots) > MaxEntries \/ ~h.magic THEN <<NoWay>>
    ELSE LET mapped == Select(Extents(h.slots), Mapped)
         IN [i \in DOMAIN mapped |-> Cleared(mapped[i])]

Reached(h) == Select(Pointers(h.slots), LAMBDA b : b \in Blocks)

\* extent_tree_travel(): the level counts, not the depth a child says it has.
extent_tree_travel(dev, h, level) ==
    LET down(kids, Go(_)) == FlattenSeq([i \in DOMAIN kids |->
                               IF kids[i] \in dev.bad THEN <<NoWay>> ELSE Go(kids[i])])
        travel[p \in (0 .. MaxHeaderDepth) \X Blocks] ==
          IF p[1] = 0 THEN dump_leaf_extent(dev.node[p[2]])
          ELSE down(Reached(dev.node[p[2]]), LAMBDA b : travel[<<p[1] - 1, b>>])
    IN IF level = 0 THEN dump_leaf_extent(h)
       ELSE down(Reached(h), LAMBDA b : travel[<<level - 1, b>>])

\* The slots that recover_from_extent_tree() takes for entries when the inode has
\* none left: up to the last plausible index before the first that is not.
ResidualCount(resid) ==
    LET plausible(i) == AsIndex(resid[i]) \in 2 .. TotalBlocks - 1
        good == {i \in DOMAIN resid : plausible(i)}
        stop == {i \in DOMAIN resid : ~plausible(i) /\ \E j \in good : j < i}
        n == {i \in good : \A j \in stop : i < j}
    IN IF n = {} THEN 0 ELSE CHOOSE i \in n : \A j \in n : j <= i

\* The header to travel: an inode without entries gets those of its residual
\* slots back, and at least one level of index.
Synthesized(ino) ==
    IF ino.slots # <<>> THEN [h |-> ino, level |-> ino.depth]
    ELSE [h |-> [ino EXCEPT !.slots = SubSeq(ino.resid, 1, ResidualCount(ino.resid))],
          level |-> IF ino.depth = 0 THEN 1 ELSE ino.depth]

\* Tests of recover_from_extent_tree() in front of the output file.  The library
\* opens no inode without a valid header.
Travelable(ino) ==
    /\ ino.readable /\ ino.magic
    /\ ino.depth <= MaxHeaderDepth
    /\ ino.slots # <<>> \/ ResidualCount(ino.resid) > 0

TravelPlan(dev, ino) ==
    LET s == Synthesized(ino) IN extent_tree_travel(dev, s.h, s.level)

-----------------------------------------------------------------------------
(* Copies of inodes in the journal. *)

InodeSlots == 4
NoHeader == [magic |-> FALSE, depth |-> 0, max |-> 0, slots |-> <<>>]

\* Mutant of read_tree_block_versioned: the device comes first.
ReadTreeBlockOnDisk(dev, b) ==
    IF b \notin dev.bad /\ dev.node[b].magic THEN dev.node[b]
    ELSE IF b \in DOMAIN dev.index THEN dev.index[b] ELSE NoHeader

\* The journal's version of a tree block, else what is on the device.
read_tree_block_versioned(dev, b) ==
    IF b \in DOMAIN dev.index /\ dev.index[b].magic THEN dev.index[b]
    ELSE IF b \notin dev.bad /\ dev.node[b].magic THEN dev.node[b] ELSE NoHeader

TreeBlocks(dev, slots) ==
    LET kids == Select(Pointers(slots), LAMBDA b : b \in Blocks)
    IN Select([i \in DOMAIN kids |-> read_tree_block_versioned(dev, kids[i])],
                 LAMBDA h : h.magic)

\* Tests of recover_inode_from_journal() in front of the pre-check.
JournalRecoverable(dev, c) ==
    /\ c.magic /\ Len(c.slots) \in 1 .. c.max
    /\ c.max <= InodeSlots /\ c.depth <= MaxHeaderDepth
    /\ c.depth # 0 => \E i \in DOMAIN TreeBlocks(dev, c.slots) :
                         TreeBlocks(dev, c.slots)[i].slots # <<>>

\* The extents its pre-check asks about.  It reads leaves from the device only.
JournalProbed(dev, c) ==
    LET leaf(b) == b \in Blocks \ dev.bad /\ dev.node[b].magic /\ dev.node[b].depth = 0
        leaves == Select(Pointers(c.slots), leaf)
    IN IF c.depth = 0 THEN Select(Extents(c.slots), Mapped)
       ELSE FlattenSeq([i \in DOMAIN leaves |->
                          Select(Extents(dev.node[leaves[i]].slots), Mapped)])

\* What it dumps: the extents of the inode, of the leaves below it, and of those
\* one level further down.
JournalPlan(dev, c) ==
    LET each(hs, Plan(_)) == FlattenSeq([i \in DOMAIN hs |-> Plan(hs[i])])
        leaf(h) == IF h.depth = 0 THEN ClearedPlan(h.slots) ELSE <<>>
        child(h) == IF h.depth = 0 THEN ClearedPlan(h.slots)
                    ELSE each(TreeBlocks(dev, h.slots), leaf)
    IN IF c.depth = 0 THEN ClearedPlan(c.slots) ELSE each(TreeBlocks(dev, c.slots), child)

-----------------------------------------------------------------------------
(* Files mapped by block pointers. *)

ind_block_valid(b) == b \in Blocks

\* The loops over pointers end at the first that is not valid.
ValidPrefix(ptrs) ==
    SubSeq(ptrs, 1, CHOOSE n \in 0 .. Len(ptrs) :
                      /\ \A i \in 1 .. n : ind_block_valid(ptrs[i])
                      /\ n < Len(ptrs) => ~ind_block_valid(ptrs[n + 1]))

dump_indirect(dev, b) ==
    IF ind_block_valid(b) /\ b \notin dev.bad THEN ValidPrefix(dev.ptrs[b]) ELSE <<>>

\* Mutant of dump_double_indirect: the first block of pointers is taken for data.
DumpDoubleAsSingle(dev, b) == dump_indirect(dev, b)

dump_double_indirect(dev, b) ==
    LET inds == dump_indirect(dev, b)
    IN FlattenSeq([i \in DOMAIN inds |-> dump_indirect(dev, inds[i])])

\* The data blocks recover_indirect_file() tries to copy, one after the other.
\* The triple indirect pointer is not read.
IndirectPlan(dev, ptrs) ==
    LET all == ValidPrefix(SubSeq(ptrs, 1, NDirect))
               \o dump_indirect(dev, ptrs[NDirect + 1])
               \o dump_double_indirect(dev, ptrs[NDirect + 2])
    IN [i \in 1 .. (IF Len(all) < MaxInd THEN Len(all) ELSE MaxInd) |->
          [at |-> i - 1, len |-> 1, start |-> all[i]]]
=============================================================================
