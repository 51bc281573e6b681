---------------------------- MODULE MCJournalWalk ----------------------------
(***************************************************************************)
(* Journals as jbd2 leaves them: three transactions of one to three tags,  *)
(* written one after the other from some position, around the end of an    *)
(* eight-block log and over its oldest blocks.  A descriptor block has     *)
(* room for two tags.  File system blocks: 0 the superblock's; 4 and 5 the *)
(* inode table of group 0, 2 and 3 that of group 1, each with three inodes *)
(* in four slots, group 2 has none; 6 and 7 of extent trees.  One journal  *)
(* block may be unreadable, or the last transaction torn.                  *)
(***************************************************************************)
EXTENDS JournalWalk

Blk(fs, esc) == [fs |-> fs, esc |-> esc]
TagLists == {<<Blk(6, FALSE)>>, <<Blk(0, FALSE), Blk(2, FALSE)>>,
             <<Blk(7, TRUE), Blk(5, FALSE)>>,
             <<Blk(6, FALSE), Blk(2, TRUE), Blk(7, FALSE)>>}
Heads == {1, 5, 8}
MCGroupTables == <<4, 2, 0>>
MCChildren == [fs \in 2 .. 5 |-> CASE fs = 2 -> {6, 7} [] fs = 5 -> {6} [] OTHER -> {}]

\* The blocks of one descriptor, and of a transaction with its commit block.
Described(seq, tags) ==
    <<[kind |-> "descriptor", seq |-> seq, tags |-> tags]>> \o
    [i \in DOMAIN tags |-> [kind |-> "data", fs |-> tags[i].fs, seq |-> seq,
                            esc |-> tags[i].esc]]
Transaction(seq, tags) ==
    (IF Len(tags) <= 2 THEN Described(seq, tags)
     ELSE Described(seq, SubSeq(tags, 1, 2)) \o
          Described(seq, SubSeq(tags, 3, Len(tags))))
    \o <<[kind |-> "commit", seq |-> seq]>>

\* The last of the blocks written to each place of the log remains.
Log(blocks, head) ==
    LET size == JournalLen - JournalStart
        at(i) == JournalStart + ((head - JournalStart + i - 1) % size)
    IN [b \in JournalStart .. JournalLen - 1 |->
          LET here == {i \in DOMAIN blocks : at(i) = b}
          IN IF here = {} THEN [kind |-> "other"]
             ELSE blocks[CHOOSE i \in here : \A j \in here : j <= i]]

MCImages ==
    LET logs == {Log(Transaction(5, t) \o Transaction(6, u) \o Transaction(7, v), h) :
                   t \in TagLists, u \in TagLists, v \in TagLists, h \in Heads}
        torn == {Log(Transaction(5, t) \o Transaction(6, u) \o SubSeq(Transaction(7, v), 1, n), h) :
                   t \in TagLists, u \in TagLists, v \in TagLists, h \in Heads, n \in 1 .. 2}
    IN logs \cup torn \cup {[l EXCEPT ![b] = [kind |-> "bad"]] : l \in logs, b \in {2, 4, 7}}
=============================================================================
