----------------------------- MODULE OutputNames -----------------------------
(***************************************************************************)
(* The names of recovered files: the inode-to-name map and its hash table, *)
(* the claims on output names and the directory parsers of utils_v5.c, and *)
(* ghost_dirent.c.  RecoveryRun composes this with the phases that ask for *)
(* names.                                                                  *)
(*                                                                         *)
(* A name is a tuple: <<"name", x>> for the names of the disk, FileOf(ino) *)
(* for "<ino>_file", which may be a name of the disk as well, and          *)
(* Empty, Dot, DotDot.  A directory block is a sequence of entries         *)
(*   [ino, name, fits, gap]                                                *)
(* fits: rec_len is not 0 and stays in the block; gap: what the 4-byte     *)
(* steps between the entry's name and its rec_len hold, ghost entries      *)
(*   [ino, name, cells]  (cells: its rec_len in steps, 0 if it cannot be)  *)
(***************************************************************************)
EXTENDS Integers, Sequences, FiniteSets, SequencesExt, Selections

CONSTANTS InodesCount,   \* s_inodes_count
          InitialCap,    \* entries of the map at first (4096)
          MaxMap,        \* MAX_FILENAME_MAP
          HashMin,       \* smallest hash table (1024)
          ClaimChunk,    \* claims of the first allocation (256)
          FileNames,     \* the names that directory entries may have
          Slashed,       \* names with a '/' in them
          MaxMishaps     \* bound on failed calls and crashes

ASSUME NamesAssumption ==
    /\ {InitialCap, MaxMap, HashMin, ClaimChunk} \subseteq Nat \ {0}
    /\ InitialCap <= MaxMap
    /\ InodesCount \in Nat /\ MaxMishaps \in Nat

\* Memory does not run out so often that a hash table, used on because it could not be
\* rebuilt, fills up; probing would never end then.
ASSUME RoomAssumption == MaxMishaps < InitialCap \/ MaxMap < 2 * InitialCap

Empty  == <<"">>
Dot    == <<".">>
DotDot == <<"..">>
NoName == <<"", "">>             \* get_filename_for_inode() returns NULL
FileOf(ino) == <<"file", ino>>

ASSUME FileNamesAssumption == NoName \notin FileNames

\* Entries of directory blocks, and directories.
DirEntries == [ino : Nat, name : FileNames, fits : BOOLEAN,
               gap : Seq([ino : Nat, name : FileNames, cells : Nat])]
Directories == [links : Nat, blocks : Seq(Seq(DirEntries))]

\* f with f[k] = v, whether or not f had a value at k.
Put(f, k, v) == [i \in DOMAIN f \cup {k} |-> IF i = k THEN v ELSE f[i]]
NoEntries == [i \in {} |-> 0]

VARIABLES filename_map,   \* sequence of [ino, name]
          filename_cap,   \* its capacity; 0: there is no map
          fm_hash,        \* slot -> [ino, idx], ino 0 in an empty slot
          name_claims,    \* sequence of [ino, name]
          latest,         \* history: inode -> the name accepted last
          answered,       \* history: <<inode, name>> that were given out
          lost,           \* history: inodes whose claim could not be recorded
          mishaps         \* failed calls and crashes so far

nvars == <<filename_map, filename_cap, fm_hash, name_claims, latest, answered, lost>>

\* One more call may fail.
Mishap == mishaps < MaxMishaps /\ mishaps' = mishaps + 1

-----------------------------------------------------------------------------
(* The hash table. *)

\* The low bits of the multiplier 2654435761 of the hash.
Multiplier == 31153

HashSize(h) == Cardinality(DOMAIN h)
Vacant == [ino |-> 0, idx |-> 0]

\* The k-th slot of n that linear probing for ino looks at, and where it ends.
Slot(n, ino, k) == (ino * Multiplier + k) % n
Ends(h, ino, k) == h[Slot(HashSize(h), ino, k)].ino \in {0, ino}

\* The slot at which linear probing for ino ends.  It needs a free slot.
Probe(h, ino) ==
    Slot(HashSize(h), ino, CHOOSE k \in 0 .. HashSize(h) - 1 :
                             Ends(h, ino, k) /\ \A j \in 0 .. k - 1 : ~Ends(h, ino, j))

\* Mutant of fm_hash_put: the slot is not probed for.
HashPutUnprobed(h, ino, idx) ==
    IF HashSize(h) = 0 THEN h
    ELSE [h EXCEPT ![(ino * Multiplier) % HashSize(h)] = [ino |-> ino, idx |-> idx]]

fm_hash_put(h, ino, idx) ==
    IF HashSize(h) = 0 THEN h ELSE [h EXCEPT ![Probe(h, ino)] = [ino |-> ino, idx |-> idx]]

\* The index in the map, 0 when there is none.
fm_hash_get(h, ino) ==
    IF HashSize(h) = 0 THEN 0 ELSE h[Probe(h, ino)].idx

\* HashMin, doubled until the table is at most half full.
TableSize(min_size) ==
    LET ns[k \in 0 .. 2 * min_size] == IF k = 0 THEN HashMin ELSE 2 * ns[k - 1]
    IN ns[CHOOSE k \in 0 .. 2 * min_size :
            ns[k] >= 2 * min_size /\ \A j \in 0 .. k - 1 : ns[j] < 2 * min_size]

\* The slots of a table of the given size when the first entries of the map are in it.
Filled(map, size) ==
    LET put[i \in 0 .. Len(map)] ==
          IF i = 0 THEN [s \in 0 .. size - 1 |-> Vacant]
          ELSE fm_hash_put(put[i - 1], map[i].ino, i)
    IN put

fm_hash_rebuild(map, min_size) == Filled(map, TableSize(min_size))[Len(map)]

-----------------------------------------------------------------------------
(* The map. *)

NamesInit ==
    /\ filename_map = <<>> /\ filename_cap = 0 /\ fm_hash = NoEntries
    /\ name_claims = <<>> /\ latest = NoEntries
    /\ answered = {} /\ lost = {}

\* A new run, or a restart, begins without any names.
ForgetNames ==
    /\ filename_map' = <<>> /\ filename_cap' = 0 /\ fm_hash' = NoEntries
    /\ name_claims' = <<>> /\ latest' = NoEntries
    /\ answered' = {} /\ lost' = {}

\* init_filename_map(): without the map there are no names, without the hash
\* table no name is ever found.
init_filename_map ==
    /\ \/ /\ filename_cap' = InitialCap
          /\ fm_hash' = fm_hash_rebuild(<<>>, InitialCap)
          /\ UNCHANGED mishaps
       \/ filename_cap' = 0 /\ fm_hash' = NoEntries /\ Mishap
       \/ filename_cap' = InitialCap /\ fm_hash' = NoEntries /\ Mishap
    /\ UNCHANGED <<filename_map, name_claims, latest, answered, lost>>

filename_is_safe(name) == name \notin {Empty, Dot, DotDot} \cup Slashed

Count == Len(filename_map)
NewCap == IF 2 * filename_cap > MaxMap THEN MaxMap ELSE 2 * filename_cap

Acceptable(name) == filename_cap # 0 /\ filename_is_safe(name)
Known(ino) == fm_hash_get(fm_hash, ino) # 0
MustGrow == Count >= filename_cap

\* There is no map, the name is unsafe, or the map is full.
RefuseName(ino, name) ==
    /\ \/ ~Acceptable(name)
       \/ ~Known(ino) /\ MustGrow /\ Count >= NewCap
    /\ UNCHANGED <<nvars, mishaps>>

\* The map cannot grow.
GrowFails(ino, name) ==
    /\ Acceptable(name) /\ ~Known(ino)
    /\ MustGrow /\ Count < NewCap
    /\ Mishap /\ UNCHANGED nvars

\* The inode has a name already: the new one replaces it.
UpdateName(ino, name) ==
    /\ Acceptable(name) /\ Known(ino)
    /\ filename_map' = [filename_map EXCEPT ![fm_hash_get(fm_hash, ino)].name = name]
    /\ latest' = Put(latest, ino, name)
    /\ UNCHANGED <<filename_cap, fm_hash, name_claims, answered, lost, mishaps>>

\* A new entry.  When the hash table is half full it is rebuilt larger; if there
\* is no memory for that the old one is used on.
AppendName(ino, name) ==
    /\ Acceptable(name) /\ ~Known(ino)
    /\ MustGrow => Count < NewCap
    /\ filename_cap' = IF MustGrow THEN NewCap ELSE filename_cap
    /\ filename_map' = Append(filename_map, [ino |-> ino, name |-> name])
    /\ LET half == HashSize(fm_hash) # 0 /\ Count * 2 >= HashSize(fm_hash)
       IN \/ /\ fm_hash' = fm_hash_put(IF half THEN fm_hash_rebuild(filename_map, Count + 1)
                                       ELSE fm_hash, ino, Count + 1)
             /\ UNCHANGED mishaps
          \/ /\ half /\ Mishap
             /\ fm_hash' = fm_hash_put(fm_hash, ino, Count + 1)
    /\ latest' = Put(latest, ino, name)
    /\ UNCHANGED <<name_claims, answered, lost>>

add_filename_mapping(ino, name) ==
    \/ RefuseName(ino, name) \/ GrowFails(ino, name)
    \/ UpdateName(ino, name) \/ AppendName(ino, name)

get_filename_for_inode(ino) ==
    IF filename_cap # 0 /\ Known(ino)
    THEN filename_map[fm_hash_get(fm_hash, ino)].name ELSE NoName

-----------------------------------------------------------------------------
(* Claims. *)

Owners(name) == {name_claims[i].ino : i \in {i \in DOMAIN name_claims : name_claims[i].name = name}}

\* Mutant of Resolved: a diverted inode gets the name all the same.
ResolvedShared(ino) ==
    LET name == get_filename_for_inode(ino) IN IF name = NoName THEN FileOf(ino) ELSE name

\* The answer of resolve_output_name().
Resolved(ino) ==
    LET name == get_filename_for_inode(ino)
    IN IF name # NoName /\ Owners(name) \subseteq {ino} THEN name ELSE FileOf(ino)

\* Its effect: an unclaimed name is claimed, unless the list of claims is full and
\* cannot grow; the name is given out even then.
resolve_output_name(ino) ==
    LET name == get_filename_for_inode(ino)
        full == Len(name_claims) = 0 \/ \E k \in 0 .. Len(name_claims) :
                                           Len(name_claims) = ClaimChunk * 2^k
    IN /\ answered' = answered \cup {<<ino, Resolved(ino)>>}
       /\ IF name = NoName \/ Owners(name) # {}
          THEN UNCHANGED <<name_claims, lost, mishaps>>
          ELSE \/ /\ name_claims' = Append(name_claims, [ino |-> ino, name |-> name])
                  /\ UNCHANGED <<lost, mishaps>>
               \/ /\ full /\ Mishap
                  /\ lost' = lost \cup {ino}
                  /\ UNCHANGED name_claims
       /\ UNCHANGED <<filename_map, filename_cap, fm_hash, latest>>

-----------------------------------------------------------------------------
(* Where names come from. *)

\* The entries of a block up to the first whose rec_len cannot be right.
Listed(blk) ==
    SubSeq(blk, 1, CHOOSE n \in 0 .. Len(blk) :
                     /\ \A i \in 1 .. n : blk[i].fits
                     /\ n < Len(blk) => ~blk[n + 1].fits)

Names(entries) == [i \in DOMAIN entries |-> [ino |-> entries[i].ino, name |-> entries[i].name]]

IsFile(e) == e.ino # 0 /\ e.name \notin {Empty, Dot, DotDot}

dir_block_callback(blk) == Names(Select(Listed(blk), IsFile))

\* The test of parse_journal_directory_blocks(), on the first entry.
LooksLikeDir(blk) ==
    /\ blk # <<>> /\ blk[1].fits
    /\ blk[1].name # Empty
    /\ blk[1].name = Dot \/ blk[1].ino \in 1 .. InodesCount

parse_journal_block(blk) ==
    IF LooksLikeDir(blk)
    THEN Names(Select(Listed(blk), LAMBDA e : IsFile(e) /\ e.ino <= InodesCount))
    ELSE <<>>

ghost_dirent_looks_valid(g) ==
    g.ino \in 1 .. InodesCount /\ g.cells > 0 /\ filename_is_safe(g.name)

\* The ghosts in one gap: a valid one is stepped over, anything else by 4 bytes.
Ghosts(gap) ==
    LET from[i \in Nat \ {0}] ==
          IF i > Len(gap) THEN <<>>
          ELSE IF ghost_dirent_looks_valid(gap[i])
          THEN <<gap[i]>> \o from[i + gap[i].cells]
          ELSE from[i + 1]
    IN from[1]

scan_dir_block_for_ghosts(blk) ==
    LET live == Listed(blk)
    IN FlattenSeq([i \in DOMAIN live |-> Names(Ghosts(live[i].gap))])

\* The blocks of the directories in use.
LiveBlocks(dirs) ==
    LET used == Select(dirs, LAMBDA d : d.links > 0)
    IN FlattenSeq([i \in DOMAIN used |-> used[i].blocks])

\* Every name in the order in which it reaches add_filename_mapping():
\* parse_directory_blocks(), with the journal's old blocks when there is one, and
\* scan_ghost_dirents().
NamesFound(dirs, jblocks) ==
    LET live == LiveBlocks(dirs)
        each(blks, Parse(_)) == FlattenSeq([i \in DOMAIN blks |-> Parse(blks[i])])
    IN each(live, dir_block_callback) \o each(jblocks, parse_journal_block)
       \o each(live, scan_dir_block_for_ghosts)

-----------------------------------------------------------------------------
(* Properties. *)

NamesTypeOK ==
    /\ filename_map \in Seq([ino : Nat \ {0}, name : FileNames])
    /\ filename_cap \in 0 .. MaxMap /\ Count <= filename_cap
    /\ \A i \in DOMAIN filename_map : filename_is_safe(filename_map[i].name)
    /\ \A s \in DOMAIN fm_hash : fm_hash[s].idx \in 0 .. Count
    /\ mishaps \in 0 .. MaxMishaps

\* Through collisions, growth of the map and of the hash table and failures of
\* either, a lookup finds the name that was accepted last for the inode, and none
\* for an inode without one.  (Without a hash table there are no names at all.)
LookupIsLatest ==
    HashSize(fm_hash) # 0 =>
        \A ino \in 1 .. InodesCount :
            get_filename_for_inode(ino) =
                IF ino \in DOMAIN latest THEN latest[ino] ELSE NoName

\* "the first inode to claim a basename owns it; later inodes are diverted ...
\* the same inode always resolves to the same answer within a run": an inode is
\* given one name, and no two are given the same.  Exempt are a claim lost to
\* failing memory, and a file whose own name is another's "<ino>_file".
OneOwnerPerName ==
    \A p \in answered, q \in answered :
        p[1] \notin lost /\ q[1] \notin lost =>
            /\ p[1] = q[1] => p[2] = q[2]
            /\ p[1] # q[1] /\ p[2] = q[2] => p[2] \in {FileOf(p[1]), FileOf(q[1])}

-----------------------------------------------------------------------------
(* The inductive invariants. *)

\* A hash table of n slots.
Table(h, n) == n \in Nat \ {0} /\ h \in [0 .. n - 1 -> [ino : Nat, idx : Nat]]

\* The first m entries of the map, and nothing else, are in the table h of n slots, each
\* where probing for its inode gets without meeting an empty slot.
Stored(h, n, map, m, place) ==
    /\ \A i \in 1 .. m : h[place[i]] = [ino |-> map[i].ino, idx |-> i]
    /\ \A s \in 0 .. n - 1 : h[s] # Vacant => \E i \in 1 .. m : place[i] = s
    /\ \A i \in 1 .. m : \E k \in 0 .. n - 1 :
         /\ place[i] = Slot(n, map[i].ino, k)
         /\ \A j \in 0 .. k - 1 : h[Slot(n, map[i].ino, j)].ino \notin {0, map[i].ino}
Holds(h, n, map, m) ==
    Table(h, n) /\ \E place \in [1 .. m -> 0 .. n - 1] : Stored(h, n, map, m, place)

\* The table is larger than the map, since it was rebuilt in time or, where that failed,
\* failures are few.
HashInv ==
    \/ fm_hash = NoEntries
    \/ /\ filename_cap # 0
       /\ LET n == HashSize(fm_hash)
          IN /\ Holds(fm_hash, n, filename_map, Count)
             /\ n >= 2 * InitialCap /\ 2 * Count <= n + 1 + 2 * mishaps
       /\ DOMAIN latest = {filename_map[i].ino : i \in 1 .. Count}
       /\ \A i \in 1 .. Count : latest[filename_map[i].ino] = filename_map[i].name

NamesInv == NamesTypeOK /\ HashInv

\* A name is claimed once, and what an inode was answered is what it would be answered
\* again.
ClaimsInv ==
    /\ \A i, j \in 1 .. Len(name_claims) : name_claims[i].name = name_claims[j].name => i = j
    /\ \A p \in answered : p[1] \notin lost =>
         LET name == get_filename_for_inode(p[1])
         IN \/ p[2] = name /\ name # NoName /\ Owners(name) = {p[1]}
            \/ /\ p[2] = FileOf(p[1])
               /\ name = NoName \/ (Owners(name) # {} /\ p[1] \notin Owners(name))
=============================================================================
