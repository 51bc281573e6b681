--------------------------- MODULE JournalVersions ---------------------------
(***************************************************************************)
(* Which version of a deleted file the journal phase leaves on disk:       *)
(* process_inode_table_block(), should_skip_version(), mark_version() and  *)
(* recover_inode_from_journal() of journal_recovery_v5.c, for inodes that  *)
(* use extents.                                                            *)
(*                                                                         *)
(* The journal is circular and walked by block number, so the copies of an *)
(* inode come in any order of their sequence numbers.  A copy holds        *)
(*   ino, seq   its inode and its transaction's h_sequence                 *)
(*   live       i_links_count > 0 in the copy                              *)
(*   size       i_size of the copy                                         *)
(*   extents    the extents (sets of blocks) the dump walks: those in the  *)
(*              inode, or those of the versioned child blocks              *)
(*   probed     the extents the fully-covered pre-check looks at: the same *)
(*              for depth 0, for deeper trees those of the leaf blocks as  *)
(*              they are on the raw disk                                   *)
(* Copies that are no regular file with a size and an extent header are    *)
(* passed over by the code and left out here, like the branch for inline   *)
(* data and indirect blocks.  Handling one copy is one step: the phase     *)
(* runs on one thread.                                                     *)
(***************************************************************************)
EXTENDS Naturals, FiniteSets

CONSTANTS Copies,     \* the inode copies in the journal
          Deleted,    \* inodes that are deleted on disk (is_deleted)
          MaxTable    \* MAX_RECOVERED_INODES

Inodes == {c.ino : c \in Copies}
Blocks == UNION UNION {c.extents \cup c.probed : c \in Copies}

ASSUME CopiesAssumption ==
    /\ \A c \in Copies :
          /\ DOMAIN c = {"ino", "seq", "live", "size", "extents", "probed"}
          /\ c.seq \in Nat /\ c.size \in Nat \ {0} /\ c.live \in BOOLEAN
    /\ MaxTable \in Nat

\* f with f[k] = v, whether or not f had a value at k.
Put(f, k, v) == [i \in DOMAIN f \cup {k} |-> IF i = k THEN v ELSE f[i]]

VARIABLES todo,       \* copies the walk has not reached yet
          table,      \* recovered_{inodes,sizes,seqs,live}: inode -> entry
          out,        \* output files: inode -> the copy written, its blocks
          covered,    \* ctx->recovered_extents, as a set of blocks
          failed,     \* history: copies given up with -1
          redundant   \* history: copies skipped by the pre-check

vars == <<todo, table, out, covered, failed, redundant>>

Init == /\ todo = Copies
        /\ table = [i \in {} |-> 0]
        /\ out = [i \in {} |-> 0]
        /\ covered = {} /\ failed = {} /\ redundant = {}

-----------------------------------------------------------------------------
\* Mutant of should_skip_version: a live copy beats every earlier one.
SkipLiveNever(c) ==
    /\ c.ino \in DOMAIN table
    /\ LET r == table[c.ino]
       IN CASE c.live         -> FALSE
            [] ~c.live /\ r.live -> TRUE
            [] OTHER          -> r.size >= c.size

\* Mutant of should_skip_version: artifacts are compared by sequence number.
SkipArtifactBySeq(c) ==
    /\ c.ino \in DOMAIN table
    /\ LET r == table[c.ino]
       IN CASE c.live /\ r.live  -> r.seq >= c.seq
            [] c.live /\ ~r.live -> FALSE
            [] ~c.live /\ r.live -> TRUE
            [] OTHER             -> r.seq >= c.seq

\* The selection table of should_skip_version().
should_skip_version(c) ==
    /\ c.ino \in DOMAIN table
    /\ LET r == table[c.ino]
       IN CASE c.live /\ r.live  -> r.seq >= c.seq
            [] c.live /\ ~r.live -> FALSE
            [] ~c.live /\ r.live -> TRUE
            [] OTHER             -> r.size >= c.size

Larger(a, b) == IF a > b THEN a ELSE b

\* Mutant of Merged: the family of the entry is left as it was.
MergedSameFamily(r, size, seq, live) ==
    [live |-> r.live, size |-> Larger(size, r.size), seq |-> Larger(seq, r.seq)]

\* An existing entry of mark_version(): live supersedes artifact, within a
\* family size and seq keep their maxima.
Merged(r, size, seq, live) ==
    IF live /\ ~r.live
    THEN [live |-> TRUE, size |-> size, seq |-> seq]
    ELSE [live |-> r.live, size |-> Larger(size, r.size),
          seq |-> Larger(seq, r.seq)]

\* mark_version(): a new inode is recorded only while there is room.
mark_version(ino, size, seq, live) ==
    table' = IF ino \in DOMAIN table
             THEN Put(table, ino, Merged(table[ino], size, seq, live))
             ELSE IF Cardinality(DOMAIN table) < MaxTable
             THEN Put(table, ino, [live |-> live, size |-> size, seq |-> seq])
             ELSE table

-----------------------------------------------------------------------------
Reach(c) == c \in todo /\ todo' = todo \ {c}

\* The version is not wanted: its inode is in use, or a better one was seen.
Skip(c) ==
    /\ Reach(c)
    /\ c.ino \notin Deleted \/ should_skip_version(c)
    /\ UNCHANGED <<table, out, covered, failed, redundant>>

\* Mutant of Wanted: the state of the inode on disk is not looked at.
WantedInUse(c) == Reach(c) /\ ~should_skip_version(c)

Wanted(c) == Reach(c) /\ c.ino \in Deleted /\ ~should_skip_version(c)

\* The header is bad, no child block is reachable, or the temporary file
\* cannot be created: -1 before anything is written.
Unusable(c) ==
    /\ Wanted(c)
    /\ failed' = failed \cup {c}
    /\ UNCHANGED <<table, out, covered, redundant>>

\* The fully-covered pre-check, for artifacts only.
FullyCovered(c) == /\ ~c.live
                   /\ c.probed # {}
                   /\ \A x \in c.probed : x \subseteq covered

\* It says the copy adds nothing: 1, and the existing output is kept.
Redundant(c) ==
    /\ Wanted(c)
    /\ FullyCovered(c)
    /\ redundant' = redundant \cup {c}
    /\ mark_version(c.ino, 0, c.seq, c.live)
    /\ UNCHANGED <<out, covered, failed>>

\* Write what can be read to a temporary file and rename it over the output.
\* recover_block_to_file() records each extent as recovered at once.
Dump(c) ==
    /\ Wanted(c)
    /\ ~FullyCovered(c)
    /\ \E got \in (SUBSET c.extents) \ {{}} :
          /\ covered' = covered \cup UNION got
          /\ out' = Put(out, c.ino, [copy |-> c, blocks |-> UNION got])
    /\ mark_version(c.ino, c.size, c.seq, c.live)
    /\ UNCHANGED <<failed, redundant>>

\* No extent could be read, or rename() fails: the temporary file is gone.
DumpFails(c) ==
    /\ Wanted(c)
    /\ ~FullyCovered(c)
    /\ \E got \in SUBSET c.extents : covered' = covered \cup UNION got
    /\ failed' = failed \cup {c}
    /\ UNCHANGED <<table, out, redundant>>

\* The journal is walked: recover_from_journal() has returned.
Walked == todo = {} /\ UNCHANGED vars

Next == \/ \E c \in Copies : \/ Skip(c) \/ Unusable(c) \/ Redundant(c)
                             \/ Dump(c) \/ DumpFails(c)
        \/ Walked

Spec == Init /\ [][Next]_vars

-----------------------------------------------------------------------------
(* Properties. *)

Entries == [live : BOOLEAN, size : Nat, seq : Nat]

\* Type invariant of the version table, the outputs and the recovered blocks:
\* only deleted inodes are recorded.
TypeOK ==
    /\ todo \subseteq Copies
    /\ DOMAIN table \subseteq Inodes \cap Deleted /\ table \in [DOMAIN table -> Entries]
    /\ DOMAIN out \subseteq Inodes \cap Deleted
    /\ out \in [DOMAIN out -> [copy : Copies, blocks : SUBSET Blocks]]
    /\ covered \subseteq Blocks
    /\ failed \subseteq Copies /\ redundant \subseteq Copies

\* Copies of deleted inodes that were handled without an I/O error.
Handled == {c \in (Copies \ todo) \ failed : c.ino \in Deleted}

\* Whatever the order of the journal, once a live copy of a deleted inode was
\* handled its output is a live copy at least as new.
NewestLiveWins ==
    \A c \in Handled : c.live =>
        /\ c.ino \in DOMAIN out
        /\ out[c.ino].copy.live /\ out[c.ino].copy.seq >= c.seq

\* As long as there is no live copy, the least truncated artifact wins among
\* those the pre-check lets through.
LargestArtifactWins ==
    \A c \in Handled \ redundant :
        /\ c.ino \in DOMAIN out
        /\ out[c.ino].copy.live \/ out[c.ino].copy.size >= c.size

\* A step never replaces a live recovery by an artifact or by an older copy
\* (the comment on the selection table: artifacts "must never clobber a live
\* recovery").
LiveStays ==
    [][\A ino \in DOMAIN out : out[ino].copy.live =>
         /\ ino \in DOMAIN out' /\ out'[ino].copy.live
         /\ out'[ino].copy.seq >= out[ino].copy.seq]_vars

\* Where no I/O fails, an artifact skipped as fully covered has all its blocks
\* in some output file ("Artifacts never carry content beyond what's already
\* dumped").
RedundantIsKept ==
    failed = {} => \A c \in redundant :
        UNION c.extents \subseteq UNION {out[i].blocks : i \in DOMAIN out}

-----------------------------------------------------------------------------
\* The inductive invariant: the table says what the outputs are.
TableInv ==
    /\ \A ino \in DOMAIN out :
          /\ ino \in DOMAIN table
          /\ out[ino].copy.ino = ino
          /\ out[ino].copy.live <=> table[ino].live
          /\ table[ino].live => out[ino].copy.seq = table[ino].seq
          /\ ~table[ino].live => out[ino].copy.size = table[ino].size
    /\ \A ino \in DOMAIN table \ DOMAIN out :
          ~table[ino].live /\ table[ino].size = 0

VersionsInv == TypeOK /\ TableInv /\ NewestLiveWins /\ LargestArtifactWins
=============================================================================
