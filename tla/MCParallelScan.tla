--------------------------- MODULE MCParallelScan ---------------------------
(***************************************************************************)
(* Instances of ParallelScan for TLC.  There are two more chunks than ring *)
(* slots, so slots are reused and workers claim chunks whose slot is still *)
(* busy with an older one; the last chunk is short.                        *)
(***************************************************************************)
EXTENDS ParallelScan

CONSTANTS w1, w2

\* Block 4 follows the unreadable block 3 in its chunk.  Blocks 1 and 5 are
\* index nodes: dumping them marks a leaf of the same chunk, 2, and one of a
\* later chunk, 7, as recovered.
MCHeaders == {1, 2, 4, 5, 6, 7}
MCMarks == [b \in MCHeaders |->
              IF b = 1 THEN {2} ELSE IF b = 5 THEN {7} ELSE {}]
=============================================================================
