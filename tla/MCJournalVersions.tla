-------------------------- MODULE MCJournalVersions --------------------------
(***************************************************************************)
(* Two deleted files and their copies in the journal, in every order.      *)
(* File 12 was truncated and rewritten before it was deleted: its live     *)
(* copies use blocks {1, 2} and then {3}, {6}.  Its deletion journaled two *)
(* artifacts.  File 13 was given block 1 when 12 had released it, and left *)
(* artifacts of two sizes only; file 14 is in use.                         *)
(***************************************************************************)
EXTENDS JournalVersions

Copy(ino, seq, live, size, extents, probed) ==
    [ino |-> ino, seq |-> seq, live |-> live, size |-> size,
     extents |-> extents, probed |-> probed]

Depth0(ino, seq, live, size, extents) ==
    Copy(ino, seq, live, size, extents, extents)

MCCopies == {Depth0(12, 5, TRUE, 3, {{1, 2}}),
             Depth0(12, 7, TRUE, 2, {{3}, {6}}),
             Depth0(12, 8, FALSE, 2, {{3}, {6}}),
             Depth0(12, 9, FALSE, 1, {{3}}),
             Depth0(13, 8, FALSE, 2, {{1}, {4}}),
             Depth0(13, 9, FALSE, 1, {{1}}),
             Depth0(14, 6, TRUE, 1, {{5}})}
MCDeleted == {12, 13}
=============================================================================
