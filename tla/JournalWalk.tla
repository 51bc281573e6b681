----------------------------- MODULE JournalWalk -----------------------------
(***************************************************************************)
(* Phase 2's walk over the journal, the map of the inode tables it uses    *)
(* and the index it leaves behind: init_journal(), read_journal_block(),   *)
(* build_itable_map(), calc_inode_from_block() and recover_from_journal()  *)
(* of journal_recovery_v5.c and the whole of journal_index.c.              *)
(*                                                                         *)
(* A journal image gives every journal block one of                        *)
(*   [kind |-> "descriptor", seq, tags]   tags up to the one with LAST_TAG *)
(*                                        or the last that fits            *)
(*   [kind |-> "data", fs, seq, esc]      fs's copy in transaction seq;    *)
(*                                        esc: its magic is blanked out    *)
(*   [kind |-> "commit", seq]             the end of transaction seq       *)
(*   [kind |-> "other"]                   revoke blocks, zeroes            *)
(*   [kind |-> "bad"]                     cannot be read                   *)
(* The UUID bytes and the three tag formats are abstracted to the list of  *)
(* tags, and what process_inode_table_block() does with a copy to the tree *)
(* blocks it reads (JournalVersions models the rest).                      *)
(***************************************************************************)
EXTENDS Integers, Sequences, FiniteSets, SequencesExt, Qsort

CONSTANTS JournalStart,   \* s_first
          JournalLen,     \* s_maxlen
          TotalBlocks,    \* blocks of the file system
          GroupTables,    \* sequence: first block of each group's inode table, 0 if unknown
          InodesPerGroup,
          InodesPerBlock,
          Children,       \* inode-table block -> tree blocks of its inodes
          InitialCap,     \* entries of the first allocation of the index
          Images          \* journals that may be found

ASSUME WalkAssumption ==
    /\ JournalStart \in Nat /\ JournalLen \in Nat /\ InitialCap \in Nat \ {0}
    /\ TotalBlocks \in Nat
    /\ InodesPerGroup \in Nat \ {0} /\ InodesPerBlock \in Nat \ {0}
    /\ GroupTables \in Seq(Nat)

VARIABLES pc,             \* "open", "scan", "tags", "done" or "none"
          image,          \* the journal
          journal_len,    \* ctx->journal_len: 0 until the superblock is read
          blk, data_blk,  \* the two cursors
          tag,            \* next tag of the descriptor at blk
          jindex,         \* ctx->jindex->e
          handled,        \* history: copies given to process_inode_table_block
          reads,          \* history: journal_index_read()s of the last step
          dropped         \* history: entries lost when the index cannot grow

vars == <<pc, image, journal_len, blk, data_blk, tag, jindex, handled, reads, dropped>>

Init == /\ pc = "open"
        /\ image \in Images
        /\ journal_len = 0
        /\ blk = 0 /\ data_blk = 0 /\ tag = 0
        /\ jindex = <<>>
        /\ handled = {} /\ reads = {} /\ dropped = {}

-----------------------------------------------------------------------------
(* What jbd2 writes. *)

Tags == [fs : Nat, esc : BOOLEAN]
JournalBlocks == [kind : {"bad", "other"}] \cup [kind : {"commit"}, seq : Nat]
                 \cup [kind : {"data"}, fs : Nat, seq : Nat, esc : BOOLEAN]
                 \cup [kind : {"descriptor"}, seq : Nat, tags : Seq(Tags) \ {<<>>}]

\* A transaction that was cut short has no commit block, and the blocks after its
\* last descriptor may be anything older.
Committed(im, seq) == \E b \in DOMAIN im : im[b] = [kind |-> "commit", seq |-> seq]

DescriptorsOf(im) == {b \in DOMAIN im : im[b].kind = "descriptor"}

\* The data blocks of a descriptor follow it, in the order of its tags and up to the
\* end of the journal; they are overwritten after it is.  A transaction has one copy
\* of a block.
Journaled(im) ==
    /\ DOMAIN im = JournalStart .. JournalLen - 1
    /\ \A b \in DOMAIN im : im[b] \in JournalBlocks
    /\ \A d \in DescriptorsOf(im) : \A i \in DOMAIN im[d].tags :
         Committed(im, im[d].seq) /\ d + i < JournalLen =>
             im[d + i] \in {[kind |-> "bad"],
                            [kind |-> "data", fs |-> im[d].tags[i].fs, seq |-> im[d].seq,
                             esc |-> im[d].tags[i].esc]}
    /\ \A d, e \in DescriptorsOf(im) : im[d].seq = im[e].seq =>
         \A i \in DOMAIN im[d].tags, j \in DOMAIN im[e].tags :
             im[d].tags[i].fs = im[e].tags[j].fs => d = e /\ i = j

ASSUME ImagesAssumption == \A im \in Images : Journaled(im)

-----------------------------------------------------------------------------
(* The inode tables. *)

\* Mutant of itable_range_cmp: by group, not by place.
ItableCmpByGroup(a, b) == a.group < b.group

itable_range_cmp(a, b) == a.start < b.start

TableBlocks == (InodesPerGroup + InodesPerBlock - 1) \div InodesPerBlock

\* The inode tables of two groups have no block in common.
ASSUME TablesAssumption ==
    \A i, j \in DOMAIN GroupTables :
        i # j /\ GroupTables[i] # 0 /\ GroupTables[j] # 0 =>
            \/ GroupTables[i] + TableBlocks <= GroupTables[j]
            \/ GroupTables[j] + TableBlocks <= GroupTables[i]

\* The groups whose descriptors say where the table is.
ItableRanges ==
    [i \in {i \in DOMAIN GroupTables : GroupTables[i] # 0} |->
       [start |-> GroupTables[i], end |-> GroupTables[i] + TableBlocks, group |-> i - 1]]

\* build_itable_map(): the tables of all groups in the order of their places.
build_itable_map == qsort(ItableRanges, itable_range_cmp)

NoRange == [start |-> 0, end |-> 0, group |-> 0]

\* itable_lookup(), a binary search: what it finds between lo = p[1] and hi = p[2].
ItableSearch(map, fs_block) ==
    LET search[p \in (0 .. Len(map)) \X (-1 .. Len(map) - 1)] ==
          LET mid == (p[1] + p[2]) \div 2
          IN IF p[1] > p[2] THEN NoRange
             ELSE IF fs_block < map[mid + 1].start THEN search[<<p[1], mid - 1>>]
             ELSE IF fs_block >= map[mid + 1].end THEN search[<<mid + 1, p[2]>>]
             ELSE map[mid + 1]
    IN search

itable_lookup(fs_block) ==
    ItableSearch(build_itable_map, fs_block)[<<0, Len(build_itable_map) - 1>>]

is_inode_table_block(fs_block) == itable_lookup(fs_block) # NoRange

ASSUME ChildrenAssumption ==
    \A fs \in 1 .. TotalBlocks - 1 : is_inode_table_block(fs) => Children[fs] \subseteq Nat

\* calc_inode_from_block() of slot i of the block.  The slots that pad the last block
\* of a table are no inodes.
calc_inode_from_block(fs_block, i) ==
    LET r == itable_lookup(fs_block)
        local_inode == (fs_block - r.start) * InodesPerBlock + i
    IN IF r = NoRange \/ local_inode >= InodesPerGroup THEN 0
       ELSE r.group * InodesPerGroup + local_inode + 1

\* The inodes that process_inode_table_block() takes a block for.
InodesIn(fs_block) == {calc_inode_from_block(fs_block, i) : i \in 0 .. InodesPerBlock - 1} \ {0}

-----------------------------------------------------------------------------
(* The index. *)

\* Mutant of jindex_cmp: newer copies go first.
CmpNewestFirst(a, b) == \/ a.fs_block < b.fs_block
                        \/ a.fs_block = b.fs_block /\ a.seq > b.seq

\* jindex_cmp() of two entries, as "a goes before b".
jindex_cmp(a, b) == \/ a.fs_block < b.fs_block
                    \/ a.fs_block = b.fs_block /\ a.seq < b.seq

\* The capacity doubles from InitialCap: when the next entry needs a realloc.
Full(n) == n = 0 \/ \E k \in 0 .. n : n = InitialCap * 2^k

\* jindex_add(): its failure to grow is ignored by the caller.
jindex_add(e) ==
    \/ jindex' = Append(jindex, e) /\ UNCHANGED dropped
    \/ /\ Full(Len(jindex))
       /\ dropped' = dropped \cup {e}
       /\ UNCHANGED jindex

\* The lower bound that the binary search of journal_index_read() ends at.
LowerSearch(ix, fs) ==
    LET search[p \in (0 .. Len(ix)) \X (0 .. Len(ix))] ==
          LET mid == (p[1] + p[2]) \div 2
          IN IF p[1] >= p[2] THEN p[1]
             ELSE IF ix[mid + 1].fs_block < fs THEN search[<<mid + 1, p[2]>>]
             ELSE search[<<p[1], mid>>]
    IN search

Lower(ix, fs) == LowerSearch(ix, fs)[<<0, Len(ix)>>] + 1

\* No copy.  A block that holds no copy fails the callers' magic test.
Missing == [fs |-> 0, seq |-> 0, esc |-> FALSE]

\* Mutant of Restored: the magic is left blanked out.
RestoredRaw(b, escaped) ==
    IF image[b].kind = "data"
    THEN [fs |-> image[b].fs, seq |-> image[b].seq, esc |-> image[b].esc]
    ELSE Missing

\* A journal block as it was before it was journaled: the magic is put back if
\* the tag says so.
Restored(b, escaped) ==
    IF image[b].kind = "data"
    THEN [fs |-> image[b].fs, seq |-> image[b].seq, esc |-> image[b].esc /\ ~escaped]
    ELSE Missing

\* journal_index_read(): the last entry of the run of fs that starts at the
\* lower bound with seq <= max_seq, 0 meaning any.  Only that one is tried.
journal_index_read(ix, fs, max_seq) ==
    LET lo   == Lower(ix, fs)
        fit  == {i \in lo .. Len(ix) :
                   /\ \A j \in lo .. i : ix[j].fs_block = fs
                   /\ max_seq = 0 \/ ix[i].seq <= max_seq}
        best == ix[CHOOSE i \in fit : \A j \in fit : j <= i]
    IN IF fit = {} THEN Missing ELSE Restored(best.journal_blk, best.escaped)

Read(ix, fs, max_seq) ==
    [fs |-> fs, max |-> max_seq, got |-> journal_index_read(ix, fs, max_seq)]

-----------------------------------------------------------------------------
(* The walk. *)

\* init_journal() finds the journal and its superblock.
OpenJournal ==
    /\ pc = "open"
    /\ pc' = "scan" /\ journal_len' = JournalLen /\ blk' = JournalStart
    /\ UNCHANGED <<image, data_blk, tag, jindex, handled, reads, dropped>>

\* There is no journal, or no memory for the map of the inode tables, and
\* recover_from_journal() returns at once; or the journal is external, cannot be
\* opened, or its superblock is unreadable or has no magic: then journal_len is
\* still 0, and the walk has nothing to scan.
OpenFails ==
    /\ pc = "open"
    /\ pc' \in {"none", "scan"}
    /\ UNCHANGED <<image, journal_len, blk, data_blk, tag, jindex, handled, reads, dropped>>

\* A block that is no descriptor, or cannot be read.
SkipBlock ==
    /\ pc = "scan" /\ blk < journal_len
    /\ image[blk].kind # "descriptor"
    /\ blk' = blk + 1 /\ reads' = {}
    /\ UNCHANGED <<pc, image, journal_len, data_blk, tag, jindex, handled, dropped>>

OpenDescriptor ==
    /\ pc = "scan" /\ blk < journal_len
    /\ image[blk].kind = "descriptor"
    /\ pc' = "tags" /\ tag' = 1 /\ data_blk' = blk + 1 /\ reads' = {}
    /\ UNCHANGED <<image, journal_len, blk, jindex, handled, dropped>>

AtTag == pc = "tags"
Tag == image[blk].tags[tag]
Reasonable == Tag.fs # 0 /\ Tag.fs < TotalBlocks

\* Mutant of Leave: the block after the descriptor's data is skipped too.
LeaveOnePast(next) ==
    pc' = "scan" /\ blk' = next + 1 /\ tag' = 0 /\ data_blk' = next

\* Leave the descriptor: the scan goes on after its data blocks.
Leave(next) == pc' = "scan" /\ blk' = next /\ tag' = 0 /\ data_blk' = next

\* Mutant of NextTag: the descriptor is scanned again.
NextTagAgain ==
    IF tag = Len(image[blk].tags)
    THEN pc' = "scan" /\ tag' = 0 /\ UNCHANGED <<blk, data_blk>>
    ELSE tag' = tag + 1 /\ data_blk' = data_blk + 1 /\ UNCHANGED <<pc, blk>>

\* One iteration of the tag loop ends: on to the next tag and data block.
NextTag ==
    IF tag = Len(image[blk].tags)
    THEN Leave(data_blk + 1)
    ELSE tag' = tag + 1 /\ data_blk' = data_blk + 1 /\ UNCHANGED <<pc, blk>>

\* Mutant of BadTag: the tag's data block is not stepped over.
BadTagInPlace ==
    /\ AtTag /\ ~Reasonable
    /\ IF tag = Len(image[blk].tags) THEN Leave(data_blk)
       ELSE tag' = tag + 1 /\ UNCHANGED <<pc, blk, data_blk>>
    /\ reads' = {}
    /\ UNCHANGED <<image, journal_len, jindex, handled, dropped>>

\* Block 0 (the superblock's, with 4 KiB blocks) or past the file system.
BadTag ==
    /\ AtTag /\ ~Reasonable
    /\ NextTag
    /\ reads' = {}
    /\ UNCHANGED <<image, journal_len, jindex, handled, dropped>>

\* The data goes on at the start of the journal: the rest is not followed.
PastEnd ==
    /\ AtTag /\ Reasonable
    /\ data_blk >= journal_len
    /\ Leave(data_blk) /\ reads' = {}
    /\ UNCHANGED <<image, journal_len, jindex, handled, dropped>>

Entry == [fs_block |-> Tag.fs, journal_blk |-> data_blk,
          seq |-> image[blk].seq, escaped |-> Tag.esc]

\* A tag is indexed; its block cannot be read, or holds no inodes.
IndexOnly ==
    /\ AtTag /\ Reasonable /\ data_blk < journal_len
    /\ image[data_blk].kind = "bad" \/ ~is_inode_table_block(Tag.fs)
    /\ jindex_add(Entry)
    /\ NextTag
    /\ reads' = {}
    /\ UNCHANGED <<image, journal_len, handled>>

\* A tag of an inode-table block is indexed and its copy processed: child blocks
\* of multi-level inodes are looked up in the index as it is now, unsorted.
ProcessCopy ==
    /\ AtTag /\ Reasonable /\ data_blk < journal_len
    /\ image[data_blk].kind # "bad" /\ is_inode_table_block(Tag.fs)
    /\ jindex_add(Entry)
    /\ LET seq == image[blk].seq
       IN /\ handled' = handled \cup
               {[fs |-> Tag.fs, seq |-> seq, inos |-> InodesIn(Tag.fs),
                 buf |-> Restored(data_blk, Tag.esc)]}
          /\ reads' = {Read(jindex', child, seq) : child \in Children[Tag.fs]}
    /\ NextTag
    /\ UNCHANGED <<image, journal_len>>

\* The walk is over: jindex_sort().
Sort ==
    /\ pc = "scan" /\ blk >= journal_len
    /\ jindex' = qsort(jindex, jindex_cmp)
    /\ pc' = "done" /\ reads' = {}
    /\ UNCHANGED <<image, journal_len, blk, data_blk, tag, handled, dropped>>

\* recover_from_revoke() reads a revoked block, later and with max_seq = 0.
TargetedRead(fs) ==
    /\ pc = "done"
    /\ reads' = {Read(jindex, fs, 0)}
    /\ UNCHANGED <<pc, image, journal_len, blk, data_blk, tag, jindex, handled, dropped>>

Idle == pc = "none" /\ UNCHANGED vars

Scan == \/ OpenJournal \/ OpenFails \/ SkipBlock \/ OpenDescriptor \/ BadTag
        \/ PastEnd \/ IndexOnly \/ ProcessCopy \/ Sort

Next == \/ Scan
        \/ \E fs \in 2 .. TotalBlocks - 1 : TargetedRead(fs)
        \/ Idle

Spec == Init /\ [][Next]_vars

\* One thread runs the phase to its end.
FairSpec == Spec /\ WF_vars(Scan)

-----------------------------------------------------------------------------
(* Properties. *)

Copies == [fs : Nat, seq : Nat, esc : BOOLEAN]
IndexEntries == [fs_block : 1 .. TotalBlocks - 1, seq : Nat, escaped : BOOLEAN,
                 journal_blk : JournalStart .. JournalLen - 1]

\* Type invariant: the cursors stay in the journal (data_blk may be one past it
\* for every tag that wrapped), entries and copies are well formed.
TypeOK ==
    /\ pc \in {"open", "scan", "tags", "done", "none"}
    /\ journal_len \in {0, JournalLen}
    /\ blk \in Nat /\ data_blk \in Nat /\ tag \in Nat
    /\ pc = "open" => journal_len = 0
    /\ pc = "scan" /\ journal_len > 0 => blk >= JournalStart
    /\ pc = "tags" => /\ blk \in JournalStart .. JournalLen - 1 /\ journal_len = JournalLen
                      /\ image[blk].kind = "descriptor"
                      /\ tag \in 1 .. Len(image[blk].tags)
                      /\ data_blk = blk + tag
    /\ jindex \in Seq(IndexEntries) /\ dropped \subseteq IndexEntries
    /\ handled \subseteq [fs : Nat, seq : Nat, inos : SUBSET Nat, buf : Copies]
    /\ reads \subseteq [fs : Nat, max : Nat, got : Copies]

\* Whatever has been overwritten since and wherever the log wraps, a copy that is
\* processed is the one its tag says, magic restored, and an index entry leads to
\* the copy it names or to a block that cannot be read; but for the transaction
\* that was being written when the system went down.
CopiesGenuine ==
    /\ \A h \in handled : Committed(image, h.seq) => h.buf = [fs |-> h.fs, seq |-> h.seq, esc |-> FALSE]
    /\ \A i \in DOMAIN jindex :
         LET e == jindex[i] IN
         Committed(image, e.seq) => image[e.journal_blk] \in
           {[kind |-> "bad"],
            [kind |-> "data", fs |-> e.fs_block, seq |-> e.seq, esc |-> e.escaped]}

\* Where inode n is, by the layout of the file system; group descriptors without a
\* table do not say.
HomeOf(n) ==
    LET g == (n - 1) \div InodesPerGroup
    IN GroupTables[g + 1] + ((n - 1) % InodesPerGroup) \div InodesPerBlock
Inodes == {n \in 1 .. Len(GroupTables) * InodesPerGroup :
             GroupTables[(n - 1) \div InodesPerGroup + 1] # 0}

\* "the two can never disagree again": wherever flex_bg puts the tables, a copy of
\* a block is processed for exactly the inodes that live in that block, and no copy
\* of such a block is passed over.
InodesGenuine ==
    /\ \A h \in handled : h.inos = {n \in Inodes : HomeOf(n) = h.fs}
    /\ pc = "done" =>
         \A e \in ToSet(jindex), n \in Inodes :
             HomeOf(n) = e.fs_block /\ image[e.journal_blk].kind # "bad" =>
                 \E h \in handled : h.fs = e.fs_block /\ h.seq = e.seq

\* The blocks that the tags of a descriptor stand for, and the entries for the tags
\* of descriptors D whose data block is before the end of the journal.
Span(im, d) == d + 1 .. d + Len(im[d].tags)
EntryOf(im, d, i) == [fs_block |-> im[d].tags[i].fs, journal_blk |-> d + i,
                      seq |-> im[d].seq, escaped |-> im[d].tags[i].esc]
Indexable(im, d) == {i \in DOMAIN im[d].tags :
                        im[d].tags[i].fs \in 1 .. TotalBlocks - 1 /\ d + i < JournalLen}
EntriesOf(im, D) == UNION {{EntryOf(im, d, i) : i \in Indexable(im, d)} : d \in D}

\* The descriptors before block top that are no data of one another.  What the tags
\* of a torn transaction stand for may be an older descriptor, which is then stepped
\* over; nothing else hides one.
Independent(im, D, top) ==
    /\ D \subseteq DescriptorsOf(im)
    /\ \A d \in DescriptorsOf(im) : d < top =>
         \/ d \in D /\ \A u \in D : d \notin Span(im, u)
         \/ d \notin D /\ \E u \in D : d \in Span(im, u) /\ ~Committed(im, im[u].seq)

\* Skipping over data blocks and odd tags never makes the walk miss a descriptor
\* or count a tag twice: at the end exactly the tags that can be indexed are, save
\* those lost when the index could not grow.
IndexComplete ==
    pc = "done" /\ journal_len > 0 =>
        /\ \E D \in SUBSET DescriptorsOf(image) :
             /\ Independent(image, D, JournalLen)
             /\ ToSet(jindex) \cup dropped = EntriesOf(image, D)
        /\ IsInjective(jindex) /\ ToSet(jindex) \cap dropped = {}

\* "the journal copy of fs_block with the highest seq <= max_seq".
Newest(fs, max_seq) ==
    LET fit == {e \in ToSet(jindex) : e.fs_block = fs /\ (max_seq = 0 \/ e.seq <= max_seq)}
        new == CHOOSE e \in fit : \A f \in fit : f.seq <= e.seq
    IN IF fit = {} \/ image[new.journal_blk].kind = "bad" THEN Missing
       ELSE IF ~Committed(image, new.seq) THEN Restored(new.journal_blk, new.escaped)
       ELSE [fs |-> fs, seq |-> new.seq, esc |-> FALSE]

\* What journal_index.h promises of journal_index_read(), for every read.
ReadsNewest == \A r \in reads : r.got = Newest(r.fs, r.max)

\* ... and for the reads of the targeted phase, after jindex_sort().
SortedReadsNewest == pc = "done" => ReadsNewest

\* The block that the walk looks at next.
Frontier == IF pc = "tags" THEN data_blk ELSE blk

\* One block on, or out of the journal's blocks altogether.
WalkMoves ==
    \/ /\ Frontier' = Frontier + 1
       /\ \/ Frontier < journal_len
          \/ pc = "tags" /\ Frontier <= blk + Len(image[blk].tags)
    \/ /\ Frontier' = Frontier /\ Frontier >= journal_len
       /\ \/ pc = "tags" /\ pc' = "scan"
          \/ pc = "scan" /\ pc' = "done"

\* The two loops of recover_from_journal().
Walking == pc \in {"scan", "tags"}

\* The walk goes through the journal block by block: no step goes back, stays where
\* it is or leaves a block out, and from the end of the journal on only the tags of
\* the last descriptor are still read.  So it takes at most a step for each block, one
\* for each of those tags and two to get out, whatever the descriptors say.
WalkAdvances == [][Walking => WalkMoves]_vars

-----------------------------------------------------------------------------
(* The inductive invariant. *)

Scanning == pc \in {"scan", "tags"} /\ journal_len > 0

\* What the walk has entered so far lies before it.
OnceInv ==
    /\ IsInjective(jindex) /\ ToSet(jindex) \cap dropped = {}
    /\ Scanning => \A e \in ToSet(jindex) \cup dropped : e.journal_blk < Frontier
    /\ pc = "open" \/ journal_len = 0 => jindex = <<>> /\ dropped = {}

\* The entries of descriptors D, of the one being read those before tag.
Entered(D) ==
    UNION {{EntryOf(image, d, i) :
              i \in {i \in Indexable(image, d) : pc = "tags" /\ d = blk => i < tag}} : d \in D}

\* The descriptors that have been read are those that no data block hides, and the
\* walk has left the data of all but the last behind.
WalkedBy(D) ==
    /\ Independent(image, D, IF pc = "tags" THEN blk + 1 ELSE blk)
    /\ pc = "tags" => blk \in D
    /\ \A d \in D :
         \/ d + Len(image[d].tags) < blk
         \/ pc = "tags" /\ d = blk
         \/ pc = "scan" /\ d < blk /\ blk >= JournalLen
    /\ ToSet(jindex) \cup dropped = Entered(D)
WalkedInv == Scanning => \E D \in SUBSET DescriptorsOf(image) : WalkedBy(D)

\* Every entry stands for a tag; a copy that can be read of an inode-table block has
\* been processed.
EntryInv ==
    \A e \in ToSet(jindex) :
        /\ \E d \in DescriptorsOf(image) : \E i \in DOMAIN image[d].tags : e = EntryOf(image, d, i)
        /\ image[e.journal_blk].kind # "bad" /\ is_inode_table_block(e.fs_block) =>
             \E h \in handled : h.fs = e.fs_block /\ h.seq = e.seq
HandledInv == \A h \in handled : h.inos = InodesIn(h.fs)

SortedInv == pc = "done" => \A i, j \in DOMAIN jindex :
                              i < j => ~jindex_cmp(jindex[j], jindex[i])

WalkInv == /\ Journaled(image)
           /\ TypeOK /\ CopiesGenuine /\ IndexComplete /\ SortedReadsNewest
           /\ OnceInv /\ WalkedInv /\ EntryInv /\ HandledInv /\ SortedInv

\* The walk reaches the end of the journal: every step moves blk or the tag.
WalkEnds == <>(pc \in {"done", "none"})
=============================================================================
