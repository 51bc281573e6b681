----------------------------- MODULE SerialScan -----------------------------
(***************************************************************************)
(* The single-threaded aggressive scan, scan_for_extent_headers() in       *)
(* aggressive_scan_v5.c: visit the device in ascending block order and     *)
(* hand every visible extent header that is not yet marked recovered to    *)
(* recover_orphaned_extent_block().  It is what the parallel scan promises *)
(* to be indistinguishable from.                                           *)
(*                                                                         *)
(* Blocks that hold no header, or that cannot be read, change nothing in   *)
(* the loop, so one step here goes to the next visible header.             *)
(***************************************************************************)
EXTENDS Naturals, Sequences

CONSTANTS Start, End,   \* the half-open block range start..end of the scan
          Visible,      \* the blocks in which the scan gets to see a header
          Marks         \* Marks[b]: blocks that dumping b marks as recovered

VARIABLES pos,        \* the loop's block: everything below it was handled
          recovered,  \* the set behind is_block_recovered()
          dumped,     \* calls of recover_orphaned_extent_block(), in order
          finished    \* the scan has returned

vars == <<pos, recovered, dumped, finished>>

Init == /\ pos = Start
        /\ recovered = {}
        /\ dumped = << >>
        /\ finished = FALSE

\* b is the next block at which the loop body gets past its `continue`s.
IsNext(b) == /\ b \in Visible
             /\ pos <= b
             /\ \A c \in Visible : pos <= c => b <= c

\* One turn of the loop: skip a recovered block, dump any other header.
Visit(b) == /\ ~finished
            /\ IsNext(b)
            /\ pos' = b + 1
            /\ IF b \in recovered
               THEN UNCHANGED <<recovered, dumped>>
               ELSE /\ recovered' = recovered \cup Marks[b]
                    /\ dumped' = Append(dumped, b)
            /\ UNCHANGED finished

\* The loop condition fails: no header is left.
Finish == /\ ~finished
          /\ \A c \in Visible : c < pos
          /\ finished' = TRUE
          /\ UNCHANGED <<pos, recovered, dumped>>

Next == Finish \/ \E b \in Visible : Visit(b)

Spec == Init /\ [][Next]_vars
=============================================================================
