---------------------------- MODULE MCRecoveryRun ----------------------------
(***************************************************************************)
(* Disks for RecoveryRun: device blocks 1 .. 13, tree blocks mostly in     *)
(* 2 .. 7, data mostly in 8 .. 13; inodes 3 .. 7 are files.                *)
(***************************************************************************)
EXTENDS RecoveryRun

X(at, len, start) == [at |-> at, len |-> len, start |-> start]
U(at, len, start) == X(at, len + InitMaxLen, start)       \* uninitialized
I(at, leaf) == [at |-> at, leaf |-> leaf]
Header(depth, slots) == [magic |-> TRUE, depth |-> depth, max |-> MaxEntries, slots |-> slots]
Leaf(slots) == Header(0, slots)
NoNode == [b \in Blocks |-> NoHeader]
At_(f, pairs) == FoldLeft(LAMBDA g, p : [g EXCEPT ![p[1]] = p[2]], f, pairs)

Name(x) == <<"name", x>>
a == Name("a")
b == Name("b")
slash == Name("x/y")
MCSlashed == {slash}
MCFileNames == {Empty, Dot, DotDot, a, b, slash, Name("c"), Name("d"), FileOf(4)}
Entry(ino, name) == [ino |-> ino, name |-> name, fits |-> TRUE, gap |-> <<>>]
Ghost(ino, name, cells) == [ino |-> ino, name |-> name, cells |-> cells]
Dir(blocks) == [links |-> 1, blocks |-> blocks]

Free == [readable |-> TRUE, reg |-> FALSE, links |-> 0, extents |-> FALSE, magic |-> FALSE,
         depth |-> 0, max |-> 4, slots |-> <<>>, resid |-> <<>>, next |-> 0, size |-> 0]
File(depth, slots) == [Free EXCEPT !.reg = TRUE, !.extents = TRUE, !.magic = TRUE,
                                   !.depth = depth, !.slots = slots]
InUse == [Free EXCEPT !.reg = TRUE, !.links = 1, !.size = 1]
NoInodes == [ino \in 1 .. InodesCount |-> Free]

Copy(ino, live, size, depth, slots) ==
    [ino |-> ino, kind |-> "extents", live |-> live, size |-> size, magic |-> TRUE,
     depth |-> depth, max |-> 4, slots |-> slots, ptrs |-> <<>>, found |-> NoNode]
Finding(c, pairs) == [c EXCEPT !.found = At_(@, pairs)]
InlineCopy(ino) == [Copy(ino, TRUE, 1, 0, <<>>) EXCEPT !.kind = "inline", !.magic = FALSE]
PtrCopy(ino, size, ptrs) ==
    [Copy(ino, TRUE, size, 0, <<>>) EXCEPT !.kind = "indirect", !.magic = FALSE, !.ptrs = ptrs]

Blank ==
    [args |-> <<"all">>, ondevice |-> FALSE, inodes |-> NoInodes,
     node |-> NoNode, ptrs |-> [blk \in Blocks |-> <<0, 0>>], bad |-> {},
     last_orphan |-> 0, orphan_file |-> <<>>, has_orphan_file |-> FALSE,
     journal |-> TRUE, inline |-> TRUE, copies |-> <<>>, index |-> NoEntries, revoked |-> <<>>,
     dirs |-> <<>>, jdirs |-> <<>>, checkpoint |-> NoCheckpoint]

-----------------------------------------------------------------------------
(* Names. *)

\* Two files called "a", one called "<4>_file"; a ghost and a refused name; old
\* names in the journal.  The chain of orphans runs in a circle.
SameNames ==
    [Blank EXCEPT
       !.inodes = At_(NoInodes, << <<3, [File(0, <<X(0, 3, 8)>>) EXCEPT !.next = 4]>>,
                                   <<4, [File(0, <<X(0, 1, 11)>>) EXCEPT !.next = 3]>>,
                                   <<5, [File(0, <<X(1, 1, 12)>>) EXCEPT !.next = 3]>> >>),
       !.last_orphan = 5,
       !.copies = << Copy(3, FALSE, 3, 0, <<X(0, 3, 8)>>), Copy(4, TRUE, 2, 0, <<X(0, 2, 11)>>) >>,
       !.dirs = << Dir(<< << Entry(2, Dot), Entry(3, a), Entry(5, FileOf(4)), Entry(0, b),
                             [Entry(4, a) EXCEPT !.gap = << Ghost(9, a, 1), Ghost(6, b, 1) >>] >> >>) >>]

\* A journal that renames, blocks that are none, a directory that is gone, and more
\* names than the map takes.
OldNames ==
    [Blank EXCEPT
       !.args = <<"orphan", "journal">>,
       !.inodes = At_(NoInodes, << <<3, File(0, <<X(0, 1, 8)>>)>>, <<6, File(0, <<X(0, 1, 9)>>)>> >>),
       !.copies = << Copy(3, TRUE, 1, 0, <<X(0, 1, 8)>>), Copy(6, TRUE, 1, 0, <<X(0, 1, 9)>>) >>,
       !.dirs = << Dir(<< << Entry(3, slash), Entry(3, a), [Entry(4, a) EXCEPT !.fits = FALSE] >> >>),
                   [links |-> 0, blocks |-> << << Entry(6, a) >> >>] >>,
       !.jdirs = << << Entry(2, Dot), Entry(3, b), Entry(8, a), Entry(7, b) >>, << Entry(9, b) >>,
                    << Entry(4, Name("c")), Entry(5, Name("d")) >> >>]

-----------------------------------------------------------------------------
(* Inodes. *)

\* An inode without entries whose slots point at a leaf and at noise; an inode
\* whose extent runs past the end of the device, one of whose blocks cannot be read.
Residual ==
    [Blank EXCEPT
       !.args = <<"normal">>,
       !.node = At_(NoNode, << <<2, Leaf(<<X(0, 3, 8)>>)>>, <<4, Leaf(<<X(3, 1, 12)>>)>> >>),
       !.inodes = At_(NoInodes,
          << <<3, [File(0, <<>>) EXCEPT !.resid = <<I(0, 0), I(0, 2), I(0, 3), I(0, 99)>>]>>,
             <<4, File(1, <<I(0, 2), I(0, 20), I(3, 4)>>)>>,
             <<5, File(0, <<X(0, 1, 11), X(1, 4, 12)>>)>>,
             <<6, [File(0, <<>>) EXCEPT !.resid = <<I(0, 0), I(0, 1), I(0, 0), I(0, 0)>>]>> >>),
       !.dirs = << Dir(<< << Entry(3, a), Entry(4, b) >> >>) >>,
       !.checkpoint = [device |-> "other", stats |-> Zero]]

BadBlocks == [Residual EXCEPT !.bad = {4, 10}, !.checkpoint = Saved([Zero EXCEPT !.files = 1])]

\* The orphan file names a free slot, a file in use, a deleted one and no inode.
OrphanSlots ==
    [Blank EXCEPT
       !.args = <<"aggressive", "orphan">>,
       !.has_orphan_file = TRUE, !.orphan_file = <<0, 3, 4, 9, 4, 5>>,
       !.dirs = << Dir(<< << Entry(3, a), Entry(4, b) >> >>) >>,
       !.inodes = At_(NoInodes, << <<3, [File(0, <<X(0, 1, 8)>>) EXCEPT !.links = 1]>>,
                                   <<4, File(0, <<X(0, 4, 9)>>)>>,
                                   <<5, [File(0, <<>>) EXCEPT !.depth = 4]>> >>)]

\* A chain of orphans that ends at a time of deletion, one that cannot be read.
OrphanTimes ==
    [Blank EXCEPT
       !.args = <<"orphan">>, !.last_orphan = 4,
       !.inodes = At_(NoInodes, << <<4, [File(4, <<>>) EXCEPT !.next = 5]>>,
                                   <<5, [InUse EXCEPT !.next = 3]>>,
                                   <<3, [File(0, <<X(0, 1, 9)>>) EXCEPT !.next = 99]>> >>)]
OrphanCircle == [OrphanTimes EXCEPT !.inodes[5].next = 6, !.inodes[6] = [InUse EXCEPT !.next = 5]]
OrphanUnread == [OrphanTimes EXCEPT !.inodes[3].readable = FALSE]

\* Copies without extents: inline, small, with all levels of pointers, with a hole.
Pointers_ ==
    [Blank EXCEPT
       !.args = <<>>,
       !.ptrs = At_([blk \in Blocks |-> <<0, 0>>],
                    << <<2, <<8, 9>>>>, <<3, <<4, 5>>>>, <<4, <<10, 11>>>>, <<5, <<12, 13>>>> >>),
       !.inodes = [NoInodes EXCEPT ![6] = InUse],
       !.dirs = << Dir(<< << Entry(4, a) >> >>) >>,
       !.copies = << InlineCopy(3), PtrCopy(4, 7, <<6, 7, 2, 3, 0>>), PtrCopy(5, 2, <<6, 0, 2, 0, 0>>),
                     PtrCopy(6, 1, <<6, 0, 0, 0, 0>>) >>]

-----------------------------------------------------------------------------
(* Copies of trees in the journal. *)

\* Leaf 3 was reused on the disk: the lookups for inode 3 find what it was, those for
\* inode 4 miss it.  Leaf 2 was another at the time of inode 5.
Leaf3 == Leaf(<<X(1, 2, 9), U(3, 1, 11)>>)
TreeCopies ==
    [Blank EXCEPT
       !.args = <<"journal", "targeted">>,
       !.node = At_(NoNode, << <<2, Leaf(<<X(0, 1, 8)>>)>>, <<3, Leaf(<<X(0, 1, 13)>>)>>,
                               <<4, Header(1, <<I(0, 2), I(1, 3)>>)>> >>),
       !.index = [blk \in {2, 3, 5} |-> CASE blk = 2 -> Leaf(<<X(0, 1, 8)>>)
                                         [] blk = 3 -> Leaf3 [] OTHER -> NoHeader],
       !.inodes = [NoInodes EXCEPT ![6] = InUse],
       !.copies = << Finding(Copy(3, TRUE, 3, 1, <<I(0, 2), I(1, 3), I(5, 0)>>),
                             << <<2, Leaf(<<X(0, 1, 8)>>)>>, <<3, Leaf3>> >>),
                     Copy(4, FALSE, 4, 2, <<I(0, 4)>>),
                     Finding(Copy(5, FALSE, 1, 1, <<I(0, 2)>>), << <<2, Leaf(<<X(0, 1, 12)>>)>> >>),
                     Copy(6, TRUE, 4, 0, <<X(0, 4, 8)>>),
                     Copy(2, TRUE, 1, 1, <<I(0, 5)>>) >>,
       !.revoked = <<3, 1, 2, 3, 5>>]

-----------------------------------------------------------------------------
(* Trees and leaves on the device. *)

\* A root before its leaves, one of which has an uninitialized extent; a leaf
\* before its root; a leaf that shares an extent.
Trees ==
    [Blank EXCEPT
       !.args = <<"aggressive">>,
       !.node = At_(NoNode, << <<2, Header(2, <<I(0, 3), I(9, 1)>>)>>, <<3, Header(1, <<I(0, 4), I(3, 5)>>)>>,
                               <<4, Leaf(<<X(0, 2, 12)>>)>>, <<5, Leaf(<<U(3, 1, 8)>>)>>,
                               <<6, Leaf(<<X(0, 1, 12), X(1, 1, 11)>>)>>, <<7, Header(1, <<I(0, 6)>>)>> >>)]

\* Leaves whose blocks are in the outputs of others, all of them or some, and in what is
\* copied beyond an uninitialized extent.
Shared ==
    [Blank EXCEPT
       !.args = <<"aggressive">>,
       !.node = At_(NoNode, << <<2, Leaf(<<X(0, 2, 8)>>)>>, <<3, Leaf(<<X(0, 3, 7), X(3, 1, 10)>>)>>,
                               <<4, Leaf(<<X(0, 1, 13), U(1, 1, 8)>>)>>, <<5, Leaf(<<X(4, 3, 10)>>)>>,
                               <<6, Header(1, <<I(0, 3), I(4, 5)>>)>> >>)]

\* Blocks that point at themselves, past the depth limit, at headers that are not,
\* with more extents than are collected, and past the device.
Malformed ==
    [Blank EXCEPT
       !.args = <<"aggressive", "targeted">>,
       !.node = At_(NoNode, << <<2, Header(1, <<I(0, 2), I(1, 3), I(2, 5), I(3, 9)>>)>>,
                               <<3, Leaf(<<X(0, 1, 8), X(1, 1, 9), X(2, 1, 8)>>)>>,
                               <<4, Header(9, <<I(0, 3)>>)>>,
                               <<5, [Leaf(<<X(0, 1, 8)>>) EXCEPT !.max = MaxEntries + 1]>>,
                               <<6, Leaf(<<X(0, 3, 12), U(0, 1, 13), X(0, 0, 9)>>)>>,
                               <<7, Header(1, <<I(0, 5)>>)>> >>),
       !.revoked = <<2>>]

\* A tree and its blocks that were revoked; the journal has a root that was longer.
Revoked ==
    [Blank EXCEPT
       !.node = At_(NoNode, << <<2, Header(1, <<I(0, 3)>>)>>, <<3, Leaf(<<X(0, 1, 8), U(1, 1, 9)>>)>>,
                               <<5, Leaf(<<X(0, 1, 12)>>)>>, <<6, Header(1, <<I(0, 5)>>)>> >>),
       !.index = [blk \in {6} |-> Header(7, <<>>)],
       !.revoked = <<6, 5>>]

\* What the inode scan has recovered is left out, be it a leaf or a tree; a tree
\* may be empty.
Recovered ==
    [Blank EXCEPT
       !.last_orphan = 99,
       !.inodes = [NoInodes EXCEPT ![3] = File(0, <<X(0, 2, 8)>>)],
       !.node = At_(NoNode, << <<3, Leaf(<<X(0, 1, 8), X(1, 1, 9)>>)>>, <<4, Header(1, <<I(0, 3)>>)>> >>),
       !.revoked = <<4>>]
RecoveredTree == [Recovered EXCEPT !.node = At_(@, << <<2, Header(1, <<I(0, 3)>>)>> >>)]
EmptyTree == [Blank EXCEPT !.node = At_(NoNode, << <<2, Header(1, <<I(0, 3)>>)>>, <<3, Leaf(<<>>)>> >>),
                           !.revoked = <<2>>]

RevokedTwice == [Revoked EXCEPT !.revoked = <<2, 3, 5>>]

OnDevice == [Blank EXCEPT !.ondevice = TRUE]

MCDisks == {SameNames, OldNames, Residual, BadBlocks, OrphanSlots, Pointers_, TreeCopies,
            Trees, Shared, Malformed, Revoked, RevokedTwice, Recovered, RecoveredTree, EmptyTree,
            OrphanTimes, OrphanCircle, OrphanUnread, OnDevice}
MCResumeDisks == {[Residual EXCEPT !.checkpoint = NoCheckpoint]}
MCTargetedDisks == {RevokedTwice}
=============================================================================
