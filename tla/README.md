# A TLA+ development for ext4recover

`ext4recover` undeletes files on ext4. The program built by
`improved/Makefile_v5` runs several recovery phases, one after the other, over
an unmounted file system and writes what it finds into an output directory. This
directory holds TLA+ models of its core, TLC configurations that check them on
small instances, and TLAPS proofs for instances of any size. All paths below are
relative to `src/`.

## 1. Inventory

| Part | State | Operations | Correct when | Modelled in |
|---|---|---|---|---|
| Parallel aggressive scan (`improved/parallel_scan.c`) | ring of slots (EMPTY, FILLED, PROCESSING, DONE), claim and drain counters, `reader_done`, `total_chunks` | reader fills, workers claim and scan, main thread drains and dumps; setup, join | it dumps what the single-threaded scan dumps, in that order, and it returns | `ParallelScan` |
| Serial aggressive scan (`scan_for_extent_headers`) | position, recovered-block set | visit a block, dump a header | every header that is not yet recovered is dumped once | `SerialScan`, `RecoveryRun` |
| Recovered intervals (`improved/recovered_intervals.c`) | sorted array of ranges, capacity | add, query, stats | it is a set of blocks | `BlockSet`, `RecoveredIntervals` |
| Journal version selection (`journal_recovery_v5.c:205-640, 706-800`) | version table, outputs, recovered extents | skip, pre-check, dump to a temporary file, rename, mark | the newest live copy wins, else the least truncated artifact; nothing good is overwritten | `JournalVersions`; trees, temporary file and rename in `RecoveryRun` |
| Journal walk and index (`journal_recovery_v5.c`, `journal_index.c`) | cursors, index | open, step over blocks, descriptors, tags; add, sort, versioned read | every copy is found once and read as it was written; reads return the newest copy asked for | `JournalWalk` |
| Inode table map (`build_itable_map`) | sorted group ranges | build, look up | a block gives the inodes that live in it, wherever flex_bg puts the tables | `JournalWalk` |
| Main program, phases, checkpoint (`ext4recover_v5.c`, `utils_v5.c:449-537`) | mode flags, counters, checkpoint file, output directory | setup, five phases, save, `--resume`, manifest, clean-up | a run without failures leaves whole files, a resumed run ends like an uninterrupted one | `RecoveryRun` |
| Output names (`utils_v5.c:42-440`) | inode-to-name map and its hash, name claims | parse, add, grow, look up, claim, resolve | two inodes never share an output, an inode keeps its name | `OutputNames` |
| Extent tree recovery (`ext4recover_v5.c`, `extent_validator_v5.c`) | output file | validate, travel, copy | blocks are written at their places, existing data is left alone | `ExtentTrees`, `RecoveryRun` |
| Orphaned extent trees (`aggressive_scan_v5.c`) | recovered-block hash | walk, mark, collect, dump | a tree gives one output, no extent falls between tree and leaf | `ExtentTrees`, `RecoveryRun` |
| Revoke-guided recovery (`revoke_scan.c`) | revoke records | read version, dump | newest copy; outputs of other phases stay | `RecoveryRun`, index reads in `JournalWalk` |
| Orphan list and orphan file | chain position | walk, recover | the walk ends | `RecoveryRun` |
| Inline data, indirect blocks | output file | recover | blocks in the order of the pointers | `ExtentTrees`, `RecoveryRun` |
| Ghost directory entries | filename map | parse, add | names of deleted entries are added | `OutputNames` |
| Manifest (`content_probe.c`) | `manifest.tsv` | list the outputs | - | `RecoveryRun` (which files it lists) |
| Content probe, format capabilities | none that others read | classify, flag tests | - | not modelled |
| Superseded sources (`improved/` files that `Makefile_v5` does not build), `original/` | - | - | - | not modelled |

**How the parts interact.** The phases run on the main thread, in the order
orphans, journal, inode scan, aggressive scan, targeted (revoke-guided).
They share the recovery context: the recovered-extent array, which the journal
phase's pre-check queries and its dump fills; the recovered-block hash, which
the aggressive scan tests and the dumps fill; the journal index, which
the journal phase fills and both it and the targeted phase read; the filename map and
the output directory. Only the aggressive scan starts threads. Nothing else is
concurrent; the interleavings elsewhere are those of a circular journal,
whose copies are met in an order that has nothing to do with their age, and of failures.

**What is hard.** The ring's hand-over with two unlocked reads and three kinds of
condition-variable waits; thread creation and device reads that fail; off-by-one
errors in two binary searches and an array splice; versions of one inode
in any order, with failing reads and renames in between and a bounded
table; a block set that only grows while files get replaced; tags that wrap,
are escaped, or name odd blocks; an index that is searched before it is sorted; marks that make one dump
rely on another; names claimed by one inode and asked for by another; a kill at any step and a `--resume`. `PROJECT.json` lists them as hazards, each at its line.

## 2. The modules and the code

### SerialScan, ParallelScan, MCParallelScan

A critical section (of the gate or of one slot's lock) is one step. This is sound because no
thread takes a slot lock while holding the gate, and what lies between two
critical sections, the worker's scan and the writer's dump loop, is a step per
block. A thread inside `pthread_cond_wait()` is in `waiting`; it may wake
spuriously at any time, and a broadcast removes exactly the threads waiting on that slot.
The reads of `reader_done` and `total_chunks` at `parallel_scan.c:213`, made under
the slot's lock and not under the gate, see the variables as
they are between two steps of the reader, which stores them one after the other.

| Variables | C |
|---|---|
| `nextRead`, `nextWrite`, `totalChunks`, `readerDone` | the fields of `scan_ctx` behind the gate |
| `slot[i]` | `chunk_slot`: state, `chunk_index`, `start_block`, `nblocks`, hits |
| `rpc`, `rchunk`, `cur`, `bcast` | `reader_thread()` and its locals |
| `wpc`, `mine`, `wblk` | `worker_thread()` and its locals, per worker |
| `xpc`, `want`, `xhits`, `h` | `parallel_scan_for_extent_headers()` and `writer_drain()`, on the calling thread |
| `recovered`, `dumped`, `pos` | the recovered-block set, the dumps so far, the position in the serial order (history) |

Headers, unreadable blocks and what one dump marks as recovered are constants.
`SerialScan` is the loop of the single-threaded scan over a constant set of
visible headers: the refinement theorem maps the writer's `pos`, `recovered` and
`dumped` onto it.

### BlockSet, RecoveredIntervals, MCRecoveredIntervals

`BlockSet` is what the callers are promised: add a range, have it
refused and change nothing, or ask whether a range is disjoint, contained or partial.
`RecoveredIntervals` is the code: two arrays, `count`, `capacity`, a
step for each turn of each binary search (`lo`, `hi`, `mlo` are the C locals), and the
splice as the final step of an insertion. A call holds the lock throughout, so calls are
serialised. Growing the array may fail at any time it is needed.

### JournalVersions, MCJournalVersions

A copy of an inode in the journal is a record of what the selection looks at:
inode, sequence number, live or not, size, extents, and the extents
that the pre-check sees (for a multi-level tree, those of the raw disk's leaf). The
copies are handled in any order, one step each: `Skip` (not deleted, or
`should_skip_version()`), `Unusable`, `Redundant` (artifact whose blocks are
already covered), `Dump` (temporary file, rename, registered extents,
`mark_version()`) and `DumpFails` (a read, write or rename error after some or all extents
were registered). `table` is the version table, `out` the output directory, `covered` the
recovered intervals, used through what `BlockSet` promises; `failed` and `redundant` are history.

### JournalWalk, MCJournalWalk

A journal image assigns each block a descriptor with its tags, a copy, something
else, or an unreadable block. `OpenJournal` and `OpenFails` are `init_journal()`; `SkipBlock`,
`OpenDescriptor`, `BadTag`, `PastEnd`, `IndexOnly` and `ProcessCopy` are the
branches of `recover_from_journal()`'s two loops; `Sort` is what follows
them; `TargetedRead` is a `journal_index_read()` of the targeted phase. The index is a sequence with
the C array's capacity rule, since a failing `realloc()` loses the entry. The bisection of
`journal_index_read()` is defined on the sequence as it is,
sorted or not, because the code calls it in both situations.

`GroupTables` gives each group's inode table its place; `build_itable_map`, `itable_lookup` (the
bisection) and `calc_inode_from_block` turn a block into inode numbers. An image may end in a torn
transaction: a descriptor without a commit block, whose data blocks are still older ones. What the
walk takes from there can be anything, and its tags hide the descriptors under them, so that
`CopiesGenuine`, `IndexComplete` and the reads promise nothing for it.

### ExtentTrees

Operators only: from a disk and a header or inode they give the *plan* of a copy, the extents in the
order in which they are copied, and `NoWay` where the code gives up. Every reader of trees in the program has
its own: `dump_leaf_extent`/`extent_tree_travel` (inodes, with the residual slots of
`recover_from_extent_tree()`), `walk_extent_tree` with the blocks it marks (orphaned trees),
`LeafPlan` (orphaned leaves, the uninitialized flag left in the length), `JournalPlan` (copies in the
journal, tree blocks by version), `ClearedPlan` (revoked leaves) and `IndirectPlan`. They differ in what they
check and skip, and the differences are kept. `Selections` has the filter they share, `Qsort` the library's sort. An entry read as the wrong kind (a leaf where an
index is expected) is converted as its bytes would be (`AsIndex`, `AsExtent`).

### OutputNames

`filename_map`, `filename_cap`, `fm_hash` and `name_claims` are the C variables. The hash table is the
open-addressing one, with the low bits of the multiplier, so that collisions, growth and a failed rebuild happen;
`add_filename_mapping` is its four outcomes. `resolve_output_name` is an action (it claims) and `Resolved` its answer.
The parsers give the list of names in the order in which they reach the map: live directories,
blocks in the journal that look like directories, ghosts in the gaps. `latest`, `answered` and `lost` are history.

### RecoveryRun, MCRecoveryRun

The whole program, on one thread: `phase` is where `main()` is, `pos` and `count` its loop, `job` the
output being written, with what is left to copy. A turn of a phase's loop is one step
up to the output file, `OpenFile` truncates it, `CopyChunk` is one pass of the loop of
`recover_block_to_file()`, and each kind of output has its end (`InodeDone`, `BlockDone`, `Promote`, `IndirectDone`, `InlineDone`).
`save_checkpoint()` is two steps, since a kill between truncation and write leaves an
empty file. `files`, `checkpoint` and `manifest` survive a `Crash`; everything
else starts over, with `--resume`. `covered` is the set of recovered blocks (what `RecoveredIntervals` is
proved to be), `marks` the recovered-block hash. `owner` and `planned` are history: who
wrote a file, and what it would hold had nothing gone wrong.

A file's content maps its blocks to device blocks. The disk, everything the program reads, is a constant record
chosen in `Init` from `Disks`. Calls that may fail (`open`, `read`, `write`, `rename`,
`truncate`, allocations that change what is found) and kills are counted by `mishaps`. A `truncate` that fails is only logged by the code, so that
`Promote` and `IndirectDone` go on with the longer file. What an extent running past the end of the device leaves in an inode's output is `Fitting`. `JournalCopy` passes one copy per
inode, because the choice among several is `JournalVersions`.

The code looks up tree blocks of a copy while the walk is still filling the index, which is sorted only
afterwards, so that a lookup may find a version or miss one that is there (`JournalWalk` has the bisection, and the run
`index_unsorted` a miss). `RecoveryRun` takes this as it comes: each copy of a disk says what the lookups made for it find (`found`, read through
`AsOf`), and nothing relates one copy's answers to another's or to the index after the walk, which is what the targeted phase reads
(`index`). The disk `TreeCopies` has lookups of both kinds for one and the same reused leaf.

`NormalInode` ends the inode scan or goes on when an inode cannot be read: `ext2fs_get_next_inode()` reports a bad block of the
table, which the code passes over, or anything else, at which it leaves the loop.

## 3. What the runs show

| Run | Expected | Shows |
|---|---|---|
| `parallel_scan` | pass | ring window, slot ownership, no abandoned chunk, no lost wakeup, no deadlock, refinement of a serial pass over what was read, termination |
| `parallel_vs_serial` | violation | headers behind an unreadable block of a chunk are lost, unlike in the serial scan |
| `create_fails` | violation | a failed `pthread_create()` leaves the caller waiting for ever instead of returning -1 |
| `recovered_intervals` | pass | canonical array, exact statistics, refinement of `BlockSet`, every step shortens a call, calls return |
| `journal_versions` | pass | newest live copy, else largest artifact; live outputs are never replaced by something worse |
| `table_full` | violation | a full version table lets an artifact replace a live recovery |
| `redundant_lost` | violation | an artifact is skipped although its blocks are in no output any more |
| `journal_walk` | pass | copies are genuine and taken for the inodes that live there, the index is complete, sorted reads return the newest copy, the walk goes on block by block and ends |
| `index_unsorted` | violation | a bisection of the unsorted index misses an indexed block |
| `recovery_run` | pass | lookups find the latest name; a name has one owner and an output keeps it; files are whole when nothing fails, those of the journal phase always; reused tree blocks stay out of them where the older version was found; no leaf is passed over between trees, leaves and pre-checks, and what the aggressive scan copies is in its outputs; no leaf of a tree becomes a fragment; the blocks of a file of block pointers are where the pointers put them; every step leaves less to do; every run ends |
| `resume` | violation | a file cut short by a kill is taken for recovered by the resumed run |
| `targeted_outputs` | violation | the targeted phase truncates an output of the aggressive scan |

The seven violations are disagreements between the code and what its own comments or headers say;
`PROJECT.json` quotes the lines under `findings`.

Three properties of `recovery_run` say less than one would like, because the code does less:

- `NoReusedBlocks` is about tree blocks whose older version `journal_index_read()` found for the copy that was recovered. The comment at
  `journal_recovery_v5.c:302-308` promises it for every block the journal has, which is not so: after a miss the reused leaf is read from the disk,
  and its blocks are in the output (inode 4 of `TreeCopies`). The disagreement is the finding of `index_unsorted`.
- `NothingPassedOver` is about the set of recovered blocks: some dump of the run has copied each initialized extent of each leaf whole. It says
  nothing of the outputs afterwards: with `--all` a copy in the journal may be renamed over the output that had the block, or be cut, and
  the pre-check of the aggressive scan still counts the block as recovered. That is the hazard `redundant_lost` shows within the journal phase.
- `NothingLost` is over the files: their contents hold those blocks. It is for the scan on its own (`--aggressive`), where nothing is renamed, and for disks on
  which the extents of one tree or leaf, at the length with which they are copied, do not meet in the file (`Unfolded`). The dump of a leaf
  copies an uninitialized extent at its raw length, flag included, and registers it; a later extent may then overwrite part of it.
  A dump that puts each chunk where its extent begins (`AtExtent`) registers the same blocks as before: `NothingLost` notices, `NothingPassedOver` does not.

**Bounds.**
- `ParallelScan`: two workers, a ring of two slots, four chunks of two blocks, the last one short.
  Two more chunks than slots make every slot be reused and make workers claim a chunk
  whose slot still holds an older one; two workers suffice for one to overtake
  the other, to bail out while the other scans, and to wait on the same slot for different chunks.
  One header marks a later header of its own chunk, one a header of a later chunk.
  Chunk counters are bounded by the device; no constraint is needed.
- `RecoveredIntervals`: every range over seven blocks, empty ones included, in every order and with a first
  capacity of one. Seven blocks hold four separate intervals, so an insertion can
  swallow, touch or leave alone neighbours on both sides, and the array grows twice.
- `JournalVersions`: seven copies of three inodes in every order. One file has two live
  versions and two artifacts, one only artifacts, one is in use; two share a block. A table of two entries
  fits both deleted inodes, one of one entry does not.
- `JournalWalk`: three transactions of one to three tags, in a log of eight blocks, from three
  positions; they wrap, overwrite the oldest blocks, continue in a second
  descriptor, one block may be unreadable, and the last transaction may be torn. The index starts with room for two
  entries. Three groups, the first one's table behind the second one's and the third one's unknown.
- `RecoveryRun`: 19 disks of 13 blocks and 7 inodes, each made for some of the cases of the code (the comments in
  `MCRecoveryRun` say which), so that between them every branch of every phase is taken; all
  of `MaxMishaps = 2` failures and kills at any steps, so a kill in a resumed run happens too. A chunk is two blocks and the longest extents are three, so that
  copies have a middle. Name map (2, at most 3 entries), hash table (4 slots), claims (1), collected extents (6), chain (3)
  and depth (3) are small enough to reach every limit. `resume` and `targeted_outputs` use one disk each.
  With two direct pointers and two pointers in a block, files of up to eight blocks take direct, indirect and double-indirect ones.

`CHECK_DEADLOCK` is left on in every run: a finished phase or program stutters explicitly.

**Fairness.** `ParallelScan` assumes weak fairness for each thread's own steps: a runnable thread is
eventually scheduled, and a mutex is eventually obtained since nobody holds one for ever. Nothing is assumed about spurious
wakeups: a waiting thread counts on a broadcast. `RecoveredIntervals` and
`JournalWalk` are sequential; weak fairness says that a call, once entered, runs on. Callers need
never call, so `Enter` and `TargetedRead` have no fairness. `JournalVersions` has only safety properties.
`RecoveryRun` is one process that never waits for another, so that it is enough that it keeps taking steps until it has ended:
`[]<>Ended \/ []<><<Program>>_vars`, which is weak fairness of `Program` written out, since a step is possible until then. Kills are bounded by
`MaxMishaps`: a program that is killed again and again need not end.

## 4. What is proved

The proof modules hold the theorems for every value of the constants that meets the modules' `ASSUME`s.

- **`ParallelScanProofs`.** `PipelineInv` is inductive. The three safety
  properties are not inductive by themselves: that a worker finds its chunk FILLED needs to
  know that claimed numbers have one owner each and that unclaimed produced
  chunks are FILLED (`ClaimInv`), which needs to know where the reader
  stands (`ReaderInv`); that the writer dumps the right headers needs the contents of each slot in flight
  (`ContentInv`), of a slot being scanned (`ScanInv`), and which headers are still
  ahead of the writer (`WriterInv`). From it follow `RingWindow`, `SlotOwnership`,
  `NoAbandonedChunk`, and the refinement `ParallelIsSerial`: each step of a
  thread is a step of the serial scan or a stutter. `ParallelIsSerialWithoutErrors`
  adds `Bad = {}` and gets the promise of `parallel_scan.h`: without unreadable blocks the dumps are those of the
  single-threaded scan, for any number of workers, ring slots and chunk size.
- **`ParallelScanProofs`, waiting.** `NoLostWakeup` is inductive given `PipelineInv`: a test of a slot under its lock stays true until the
  step that changes the slot, and that step broadcasts it; a test of `reader_done` may become stale, but only while the reader has yet to
  broadcast that slot. It holds whichever threads `pthread_create()` started. `EndInv` says that workers leave only when no chunk
  is left to claim, and the writer only when the end was announced. `SomeThreadRunsCorrect` follows, under the assumption that
  every thread was created (`create_fails` shows what happens otherwise). The chunk the writer waits for has been produced or not. If it has, it is
  unclaimed and a worker is on its way to the gate, or its worker finds it FILLED, or is scanning it. If not, its slot is
  EMPTY and the reader goes on, or the reader has ended, and then the writer was woken. Spurious wakeups
  are not counted on: TLC's deadlock check would not notice, since a sleeping thread may always wake up, and so the
  property says it without them.
- **`RecoveredIntervalsProofs`.** `IntervalsInv` adds to type and canonical form the loop
  invariants of the three bisections (`SearchInv`). It gives `CanonicalCorrect` and the
  refinement `IntervalsAreABlockSet`: the splice changes the covered blocks by exactly the
  inserted range, a refusal not at all, and the one-interval test of `intervals_query()` answers for the whole set.
- **`JournalVersionsProofs`.** `TypeCorrect` holds for every journal. The others assume
  `TableFits`, that the deleted inodes in the journal are at most `MaxTable`: it is the
  assumption whose failure the run `table_full` shows. `TableInv` says that the table describes
  the outputs (liveness, sequence number of a live output, size of an artifact); with it
  `VersionsInv` is inductive, and `NewestLiveCorrect`, `LargestArtifactCorrect` and
  `LiveStaysCorrect` follow.

- **`DataLemmas`.** Facts about data: least elements, existence and uniqueness of functions defined by recursion (`RecursionSolvable`,
  `RecursionUnique`), induction and loops over `0 .. N` (`Induct`, `LoopSolvable`), division, and that `Ranked` and `Arranged`, the models of
  the library's sort, enumerate a set in order. The induction is first-order, on the least element of the set of counterexamples, so
  that the other modules can use it without an operator parameter.
- **`RecoveredIntervalsProofs`, statistics.** `StatsExactCorrect`: the sum over the array is the number of covered blocks. The sum is a
  recursive function; its disjoint summands add up along the array by `Induct`. `CallsAdvanceCorrect`: each step of a call lowers `Effort`, a natural number,
  so that `intervals_add()` takes at most `2 * count` turns of its two searches.
- **`JournalWalkProofs`.** `WalkInv` is inductive. Where the walk is in the log must be known in terms of the image: `WalkedInv` (which
  descriptors lie behind it), `EntryInv` (every index entry stems from a tag the walk has been at), `OnceInv` (no tag is taken twice),
  `HandledInv` (a handled copy was taken for the inodes that live in its block) and `SortedInv` (the final array is a sorted rearrangement, from the lemmas about
  `Ranked`). From it follow `TypeCorrect`, `CopiesGenuineCorrect`, `InodesGenuineCorrect` (which contains the correctness of the
  bisection in `itable_lookup`), `IndexCompleteCorrect` and `SortedReadsNewestCorrect` (the correctness of the bisection in
  `journal_index_read()` on the sorted index). The assumptions are about the shape of constants: `ImagesAssumption` says that the
  parts of an image have their types and that its undamaged transactions lie in the log as the kernel lays them
  down, `TablesAssumption` and `ChildrenAssumption` the like for inode tables and the blocks asked for.
  `WalkAdvancesCorrect`: the walk enters the blocks of the log one after the other and leaves it at its end, whatever the tags of a descriptor say.
- **`OutputNamesProofs`, `RecoveryRunProofs`.** `NamesInv`: every entry of the filename map is stored in the hash table where probing from its home slot
  reaches it without crossing an empty slot, the table has the entry added last for each inode, and it is never full. It is kept by
  an insertion that collides, by a rebuild that moves everything and by one that fails. `ClaimsInv`: claimed names and the inodes that
  claimed them determine each other, and every answer given so far was either a claim, a made-up name or one of `lost`. `PhaseInv` says that names are
  collected before they are asked for. `NameStateInvariant` puts these together over the steps of the whole program;
  `LookupIsLatestCorrect` and `OneOwnerPerNameCorrect` follow. `RoomAssumption` is needed: allocations do not fail so often
  that the table fills up to its last slot, since then a lookup of an unknown inode would not end.
- **`RecoveryRunProofs`, outputs.** `JournalInv` is inductive given `NameStateInvariant`. `OwnersInv` says who may have which kind of file open;
  `Progress` that what a dump of the journal phase has written is, byte for byte, what the first extents of its plan and the finished chunks
  of the next one leave in a file (`Upto`), unless a call failed. The lemmas `UptoGrows`, `UptoNext` and `AlongChunk` carry it from chunk to chunk and from extent to extent.
  `JournalAtomicCorrect` and `NoReusedBlocksCorrect` follow. `NoReusedBlocks` needs that every plan consists of
  extents that are `Genuine` for the copy it was made from, which is proved of `JournalPlan` for any disk and any answers of the lookups. `AnswersInv` relates outputs to the answers of `resolve_output_name()`;
  with `OneOwnerPerName` it gives `OutputsKeepOwnerCorrect`, an action property: in a run that is not resumed, an output not being written loses
  blocks only to the rename of the same inode's copy.
- **`OutputFilesProofs`.** `JobInv` is inductive given the invariants above. `JobOK` says that the plan of a job is one its kind allows
  (`PlanOK`): only the travel of an inode meets `NoWay` or extents past the end of the device, the blocks of an indirect file come
  one after the other. This is proved of every reader of trees, for any disk, by induction over the levels of `extent_tree_travel` and
  `walk_extent_tree`. `Reading` says how far a job is, as `Progress` does for the journal phase: the file is what the extents
  before `todo` and the finished chunks of the next one leave (`Upto`), unless a call failed. `TypeCorrect` follows with `Rest` (files, owners, marks
  and counters keep their types; no file holds an unreadable block). `WholeInv`: without mishaps every output in place is what was planned
  but the one that is open, an open one has its target recorded, and a travel that stopped has written exactly what `Fitting` says,
  the chunks before the one that runs past the end of the device. `UninterruptedIsWholeCorrect` follows.
- **`OutputFilesProofs`, the aggressive scan.** Two facts about trees come first, both for every disk whose trees are sound (`WellFormed`: a
  child is one level below its parent, the deepest leaf within `MAX_TREE_DEPTH`, fewer extents than `MAX_COLLECTED_EXT`). `WalkThorough`, by
  induction over the levels: the walk of an index marks every block below it, and what it collects has every usable extent of every leaf
  it marks. `TreePlanHas`: sorting and leaving out the uninitialized extents loses no other. `MarksInv` then says that what lies
  below an index that is marked or behind the scan is marked, so that a leaf the scan takes up has no index in front of it;
  `NoFragmentsCorrect` follows. `LeavesInv` says that the initialized extents of a leaf that is marked or behind the scan are recovered, or in the plan of the
  job at hand, and that a job has registered what it has read; that no job of the scan stops short comes from `WholeInv`.
  `NothingPassedOverCorrect` follows. Both need the order of the phases (`AfterOrder`): marks are set by the scan and later only, and what comes
  after it never comes before it.
- **`OutputFilesProofs`, what the outputs hold.** `NothingLostCorrect` adds to `LeavesInv`, which is about `covered`, that `covered` is within the
  outputs. `HeldInv` is inductive for the scan on its own. Every output is named after a block behind the scan, so that the one a job opens is
  new and `O_TRUNC` empties nothing; a file in the making has nothing outside the extents it has read and the part of the next one (`Keeping`), so that a chunk
  falls where nothing is yet when the extents lie apart (`ChunkApart`); and an output that is unlinked, because no extent of it could be read, is empty.
- **`OutputFilesProofs`, block pointers.** `IndirectPlaced` compares a file with the pointers as the format means them (`PointedTo`: quotient and
  remainder by the number of pointers in a block, from direct to double-indirect), while the code appends what it finds (`IndirectPlan`). The lemmas show that, up to the first
  hole, the list that the two levels of loops make has pointer `l` at place `l`. `PointersInv` says that every such file, and every
  job for one, has its plan from a copy of the inode that owns it; what a job has written of its plan is `Reading`, what is in place
  `WholeInv`. Behind a hole the code does shift blocks, and the property promises nothing there,
  nor for triple-indirect blocks: the comment at `indirect_recovery.c:14` says that the code reads "up to triple-indirect chain", but it never looks at `i_block[14]`.
- **`OutputFilesProofs`, progress.** `RunAdvancesCorrect`: every step lowers `Work`, eight numbers compared from the first on: calls that may still
  fail or kills, phases, turns of the loop, the checkpoint, outputs to open, whether it is open, extents, blocks of the next extent. It needs that
  positions stay within their loops and that every chunk is at least a block (`JobOK`, `Reading`). Together with a step being possible
  until the run has ended, this is why every run ends, for every disk.

The theorems about `RecoveryRun` hold for every set `Disks` of records whose parts have their types (`DiskOK`): nothing is assumed about what
headers, entries, pointers or directories say (only that an inode mapped by block pointers has them all, direct to triple-indirect, and that a block holds `PerBlock` of them), so that the theorems cover corrupted file systems. `FileNamesAssumption` says that the value
for "no name" is not the name of a file.

**Only model-checked:** `Termination`, `CallsReturn`, `WalkEnds` and `RunEnds`. Liveness under fairness and `ENABLED` are out of the prover's
reach. What is proved for every value of the constants is the safety half of each: a measure that every step lowers (`CallsAdvance`, `WalkAdvances`,
`RunAdvances`), and for `Termination` that nobody sleeps too long and somebody can always go on. A step that changes nothing is a stutter,
which no action property sees: that no turn of a loop is one is in the liveness runs, whose mutants are such loops. There is no measure for `ParallelScan`: threads may
wake up and go back to sleep any number of times.

## 5. What is left out of the modelled parts

- `add_hit()` running out of memory, and the progress report, in `parallel_scan.c`.
- In `RecoveryRun`: `--parallel` (`ParallelScan` shows that it dumps like the serial scan, unreadable blocks aside), `--trim`, `--dir`; the
  parts of `main()` that only report; failures of scratch buffers and of opening an inode scan, which skip an item or a phase
  as an unreadable block does; growing the recovered-block hash beyond its first table; running without the interval set
  when it cannot be allocated.
- The stray write of `mark_version()` where `&state` is passed for `state` (`journal_recovery_v5.c:687-707`): undefined
  behaviour that may hit anything. The stray read is modelled as a choice. The sequence number's wrap at 2^32.
- The bytes of the tag and revoke formats, of directory entries and of inline data; partial blocks at the end of a file (sizes are in blocks).

## 6. Not modelled, and why

`fs_capabilities.c` fills a record of flags by straight-line tests and prints it; the two flags that steer
the program are fields of the disks. The classification in `content_probe.c` is statistics over bytes that no part of the program
reads. The files in `improved/` that `Makefile_v5` does not build are earlier versions of the modelled ones (`ext4recover.c`, `ext4recover_v2.c`,
`ext4recover_v5_debug.c`, `journal_recovery.c`, `aggressive_scan.c`, `checkpoint.c`, `filename_recovery.c` and others), and
`original/` is the tool this one started from. In the built files `is_standalone_extent_block`, `is_block_free`, `is_orphan_inode`,
`deduplicate_extents` and `validate_extent_idx` are never called.

## 7. What could come next

1. Composition of `JournalWalk` and `JournalVersions` (copies in the order of the walk), and of `RecoveryRun` with the index of `JournalWalk`
   in place of arbitrary answers.
2. `add_hit()` running out of memory in `ParallelScan`, with a refinement that allows for lost hits.
3. Sequence numbers of 32 bits in `JournalVersions`.
