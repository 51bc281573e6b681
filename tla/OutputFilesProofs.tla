-------------------------- MODULE OutputFilesProofs --------------------------
(***************************************************************************)
(* Proofs about the output files of RecoveryRun: every job does what its   *)
(* kind allows, for every disk; the state keeps its type; and unless       *)
(* something goes wrong an output is all it was to be, no leaf of a sound  *)
(* tree is passed over, none whose index lies in front of it gets an       *)
(* output, and the outputs of the aggressive scan hold what it has copied; *)
(* the blocks of a file of block pointers are where the pointers put them; *)
(* and every step of a run leaves less to do.                              *)
(***************************************************************************)
EXTENDS RecoveryRunProofs

-----------------------------------------------------------------------------
(* Extents and slots. *)

\* Extents with blocks, all of them on the device; and what the travel of an inode meets.
Solid == {e \in Exts : Mapped(e) /\ InDevice(e)}
Steps == {e \in Exts : e = NoWay \/ Mapped(e)}

\* Clearing the flag of an uninitialized extent leaves it as many blocks as it has.
LEMMA ClearedLen ==
  \A e \in Exts : /\ e.len \in Nat /\ Cleared(e).len \in Nat
                  /\ e.len # 0 => Cleared(e).len # 0
                  /\ ~Uninit(e) => Cleared(e) = e
<1> TAKE e \in Exts
<1>0. InitMaxLen \in Nat
  BY TreeAssumption
<1>1. e = [at |-> e.at, len |-> e.len, start |-> e.start] /\ e.len \in Nat
  BY DEF Exts
<1>2. CASE Uninit(e)
  <2>1. e.len - InitMaxLen \in Nat \ {0}
    BY <1>0, <1>1, <1>2 DEF Uninit
  <2>2. Cleared(e) = [e EXCEPT !.len = e.len - InitMaxLen]
    BY <1>2 DEF Cleared
  <2>3. Cleared(e).len = e.len - InitMaxLen
    BY <1>1, <2>2
  <2> QED
    BY <1>1, <1>2, <2>1, <2>3
<1>3. CASE ~Uninit(e)
  <2>1. Cleared(e) = [e EXCEPT !.len = e.len]
    BY <1>3 DEF Cleared
  <2>2. Cleared(e) = e
    BY <1>1, <2>1
  <2> QED
    BY <1>1, <2>2
<1> QED
  BY <1>2, <1>3

\* Clearing the flag leaves an extent mapped.
LEMMA ClearedMapped == \A e \in Exts : Mapped(e) => Cleared(e) \in Exts /\ Mapped(Cleared(e))
<1> TAKE e \in Exts
<1> HAVE Mapped(e)
<1>1. Cleared(e) \in Exts /\ Cleared(e).start = e.start
  BY ClearedType
<1>2. Cleared(e).len # 0
  BY ClearedLen DEF Mapped
<1> QED
  BY <1>1, <1>2 DEF Mapped

\* What the dumps accept lies on the device.
LEMMA UsableSolid == \A e \in Exts : Usable(e) => Cleared(e) \in Solid
  BY ClearedMapped DEF Usable, Solid

\* The extents in some slots, one by one.
LEMMA ExtentsOf ==
  ASSUME NEW slots \in Seq(Slots), NEW e \in ToSet(Extents(slots))
  PROVE  e \in Exts
<1> DEFINE s == Extents(slots)
<1>1. s \in Seq(Exts)
  BY ExtentsType
<1>2. PICK k \in DOMAIN s : e = s[k]
  BY DEF ToSet
<1> HIDE DEF s
<1> QED
  BY <1>1, <1>2

\* The plan made of the slots of an inode or a leaf.
LEMMA ClearedPlanSolid == \A slots \in Seq(Slots) : ClearedPlan(slots) \in Seq(Solid)
<1> TAKE slots \in Seq(Slots)
<1>1. \A e \in ToSet(Extents(slots)) : Usable(e) => Cleared(e) \in Solid
  BY ExtentsOf, UsableSolid
<1> QED
  BY <1>1, ClearedPlanType

\* The slots of a header, wherever it is read from.
LEMMA DeviceSlots ==
  ASSUME NEW dev, dev.node \in [Blocks -> Headers],
         \A x \in DOMAIN dev.index : dev.index[x] \in Headers, NEW b \in Blocks
  PROVE  read_tree_block_versioned(dev, b).slots \in Seq(Slots)
<1> DEFINE h == read_tree_block_versioned(dev, b)
<1>2. (b \in DOMAIN dev.index /\ h = dev.index[b]) \/ h = dev.node[b] \/ h = NoHeader
  BY DEF read_tree_block_versioned
<1>3. h \in Headers \/ h = NoHeader
  <2> HIDE DEF h
  <2> QED
    BY <1>2
<1>4. NoHeader.slots = <<>> /\ <<>> \in Seq(Slots)
  BY DEF NoHeader
<1> HIDE DEF h
<1>5. CASE h \in Headers
  BY <1>5 DEF Headers, h
<1>6. CASE h = NoHeader
  BY <1>4, <1>6 DEF h
<1> QED
  BY <1>3, <1>5, <1>6

\* The same on the disk, with what the whole index has.
LEMMA VersionSlots ==
  ASSUME disk \in Disks, NEW b \in Blocks
  PROVE  read_tree_block_versioned(disk, b).slots \in Seq(Slots)
<1>1. /\ disk.node \in [Blocks -> Headers]
      /\ \A x \in DOMAIN disk.index : disk.index[x] \in Headers
  BY DisksAssumption DEF DiskOK
<1> QED
  BY <1>1, DeviceSlots

\* The plan of an inode whose copy is in the journal.
LEMMA JournalPlanSolid ==
  ASSUME disk \in Disks, NEW i \in DOMAIN disk.copies
  PROVE  JournalPlan(AsOf(disk.copies[i]), disk.copies[i]) \in Seq(Solid)
<1> DEFINE c == disk.copies[i]
           dev == AsOf(c)
<1>1. disk.copies \in Seq(InodeCopies)
  BY DisksAssumption DEF DiskOK
<1>2. c \in InodeCopies
  BY <1>1
<1>3. c.slots \in Seq(Slots) /\ c.found \in [Blocks -> Headers]
  <2> HIDE DEF c
  <2> QED
    BY <1>2 DEF InodeCopies
<1>4. \A slots \in Seq(Slots) : \A e \in ToSet(Extents(slots)) : Usable(e) => Cleared(e) \in Solid
  BY ExtentsOf, UsableSolid
<1>5. dev.node \in [Blocks -> Headers] /\ \A x \in DOMAIN dev.index : dev.index[x] \in Headers
  <2>1. disk.node \in [Blocks -> Headers]
    BY DisksAssumption DEF DiskOK
  <2> HIDE DEF c
  <2> QED
    BY <1>3, <2>1 DEF AsOf
<1> HIDE DEF c, dev
<1>6. \A h \in {h \in {read_tree_block_versioned(dev, b) : b \in Blocks} : h.magic} :
         h.slots \in Seq(Slots) /\ \A e \in ToSet(Extents(h.slots)) : Usable(e) => Cleared(e) \in Solid
  <2> TAKE h \in {h \in {read_tree_block_versioned(dev, b) : b \in Blocks} : h.magic}
  <2>1. h.slots \in Seq(Slots)
    BY <1>5, DeviceSlots
  <2> QED
    BY <1>4, <2>1
<1>7. JournalPlan(dev, c) \in Seq(Solid)
  <2> HIDE DEF Solid
  <2> QED
    BY <1>3, <1>4, <1>6, JournalPlanType
<1> QED
  BY <1>7 DEF c, dev

\* The plan of a leaf that nothing leads to.
LEMMA LeafPlanSolid == \A h : h.slots \in Seq(Slots) => LeafPlan(h) \in Seq(Solid)
<1> TAKE h
<1> HAVE h.slots \in Seq(Slots)
<1> DEFINE x == Extents(h.slots)
           I == {i \in DOMAIN x : Mapped(x[i]) /\ InDevice(x[i])}
<1>1. LeafPlan(h) = PickSeq(x, I)
  BY DEF LeafPlan, Select
<1>2. x \in Seq(Exts)
  BY ExtentsType
<1>3. \A i \in DOMAIN x \cap I : x[i] \in Solid
  <2> HIDE DEF x
  <2>1. \A i \in DOMAIN x : x[i] \in Exts
    <3> HIDE DEF Exts
    <3> QED
      BY <1>2
  <2> QED
    BY <2>1 DEF Solid
<1> HIDE DEF x, I
<1> QED
  BY <1>1, <1>2, <1>3, PickType

-----------------------------------------------------------------------------
(* The travel of an inode's tree. *)

\* What the travel of an inode meets in a leaf.
LEMMA DumpLeafType == \A h : h.slots \in Seq(Slots) => dump_leaf_extent(h) \in Seq(Steps)
<1> TAKE h
<1> HAVE h.slots \in Seq(Slots)
<1> DEFINE x == Extents(h.slots)
           I == {i \in DOMAIN x : Mapped(x[i])}
           E == {e \in Exts : Mapped(e)}
           s == PickSeq(x, I)
           f == [i \in DOMAIN s |-> Cleared(s[i])]
<1>1. dump_leaf_extent(h) = <<NoWay>> \/ dump_leaf_extent(h) = f
  BY DEF dump_leaf_extent, Select
<1>2. NoWay \in Steps
  BY DEF Steps, NoWay, Exts
<1>3. x \in Seq(Exts)
  BY ExtentsType
<1>4. \A i \in DOMAIN x \cap I : x[i] \in E
  <2> HIDE DEF x
  <2>1. \A i \in DOMAIN x : x[i] \in Exts
    <3> HIDE DEF Exts
    <3> QED
      BY <1>3
  <2> QED
    BY <2>1
<1>5. s \in Seq(E)
  <2> HIDE DEF x, I, E
  <2> QED
    BY <1>3, <1>4, PickType
<1> HIDE DEF s
<1>6. \A i \in DOMAIN s : s[i] \in E
  <2> HIDE DEF E
  <2> QED
    BY <1>5
<1>7. \A i \in DOMAIN s : f[i] \in Steps
  BY <1>6, ClearedMapped DEF Steps
<1>8. DOMAIN f = DOMAIN s /\ f = [i \in DOMAIN f |-> f[i]]
  OBVIOUS
<1> HIDE DEF f, E, Steps
<1>9. f \in Seq(Steps)
  BY <1>5, <1>7, <1>8, MapType
<1>10. <<NoWay>> \in Seq(Steps)
  BY <1>2
<1> QED
  BY <1>1, <1>9, <1>10

\* The tree blocks an index leads to.
LEMMA ReachedType == \A h : h.slots \in Seq(Slots) => Reached(h) \in Seq(Blocks)
<1> TAKE h
<1> HAVE h.slots \in Seq(Slots)
<1> DEFINE slots == h.slots
           p == Pointers(slots)
           I == {i \in DOMAIN p : p[i] \in Blocks}
           A == {p[i] : i \in DOMAIN p}
<1>1. Reached(h) = PickSeq(p, I)
  BY DEF Reached, Select
<1>2. p \in Seq(A)
  <2>1. p = [i \in DOMAIN slots |-> AsIndex(slots[i])]
    BY DEF Pointers
  <2>2. DOMAIN p = DOMAIN slots /\ p = [i \in DOMAIN p |-> p[i]] /\ \A i \in DOMAIN slots : p[i] \in A
    BY <2>1
  <2> HIDE DEF p, A
  <2> QED
    BY <2>2, MapType
<1>3. \A i \in DOMAIN p \cap I : p[i] \in Blocks
  OBVIOUS
<1> HIDE DEF p, I, A
<1> QED
  BY <1>1, <1>2, <1>3, PickType

\* One level of the travel, l levels above the leaves, g saying what lies below.
Level(bad, h, l, g) ==
    LET kids == Reached(h)
    IN FlattenSeq([i \in DOMAIN kids |-> IF kids[i] \in bad THEN <<NoWay>> ELSE g[<<l - 1, kids[i]>>]])
Travels(dev, f) ==
    f = [p \in (0 .. MaxHeaderDepth) \X Blocks |->
           IF p[1] = 0 THEN dump_leaf_extent(dev.node[p[2]])
           ELSE Level(dev.bad, dev.node[p[2]], p[1], f)]

\* A travel, level by level.
LEMMA TravelIs ==
  ASSUME NEW dev, NEW h, NEW level
  PROVE  extent_tree_travel(dev, h, level) =
           IF level = 0 THEN dump_leaf_extent(h)
           ELSE Level(dev.bad, h, level, CHOOSE f : Travels(dev, f))
  BY DEF extent_tree_travel, Level, Travels

Places == (0 .. MaxHeaderDepth) \X Blocks

\* The type of a level, from that of the levels below.
LEMMA LevelType ==
  ASSUME NEW bad, NEW h, h.slots \in Seq(Slots), NEW l \in Nat \ {0}, l - 1 <= MaxHeaderDepth,
         NEW g, \A b \in Blocks : g[<<l - 1, b>>] \in Seq(Steps)
  PROVE  Level(bad, h, l, g) \in Seq(Steps)
<1> DEFINE kids == Reached(h)
           V == Seq(Steps)
           f == [i \in DOMAIN kids |-> IF kids[i] \in bad THEN <<NoWay>> ELSE g[<<l - 1, kids[i]>>]]
<1>1. Level(bad, h, l, g) = FlattenSeq(f)
  BY DEF Level
<1>2. kids \in Seq(Blocks)
  BY ReachedType
<1>3. NoWay \in Steps
  BY DEF Steps, NoWay, Exts
<1>4. <<NoWay>> \in V
  <2> HIDE DEF Steps
  <2> QED
    BY <1>3
<1> HIDE DEF V, kids
<1>5. \A i \in DOMAIN kids : kids[i] \in Blocks
  BY <1>2
<1>6. \A i \in DOMAIN kids : f[i] \in V
  BY <1>4, <1>5 DEF V
<1>7. DOMAIN f = DOMAIN kids /\ f = [i \in DOMAIN f |-> f[i]]
  OBVIOUS
<1> HIDE DEF f
<1>8. f \in Seq(V)
  BY <1>2, <1>6, <1>7, MapType
<1>9. FlattenSeq(f) \in Seq(Steps)
  BY <1>8, FlattenType DEF V
<1> QED
  BY <1>1, <1>9

\* What a level is depends on nothing else than the levels below.
LEMMA LevelSame ==
  ASSUME NEW bad, NEW h, h.slots \in Seq(Slots), NEW l, NEW g, NEW k,
         \A b \in Blocks : g[<<l - 1, b>>] = k[<<l - 1, b>>]
  PROVE  Level(bad, h, l, g) = Level(bad, h, l, k)
<1> DEFINE kids == Reached(h)
           f(x) == [i \in DOMAIN kids |-> IF kids[i] \in bad THEN <<NoWay>> ELSE x[<<l - 1, kids[i]>>]]
<1>1. kids \in Seq(Blocks)
  BY ReachedType
<1>2. Level(bad, h, l, g) = FlattenSeq(f(g)) /\ Level(bad, h, l, k) = FlattenSeq(f(k))
  BY DEF Level
<1> HIDE DEF kids
<1>3. \A i \in DOMAIN kids : kids[i] \in Blocks
  BY <1>1
<1>4. f(g) = f(k)
  BY <1>3
<1> QED
  BY <1>2, <1>4

\* The levels up to the deepest a header may claim.
LEMMA TravelsType ==
  ASSUME NEW dev, dev.node \in [Blocks -> Headers]
  PROVE  LET f == CHOOSE f : Travels(dev, f)
         IN \A p \in Places : f[p] \in Seq(Steps)
<1> DEFINE D == Places
           V == Seq(Steps)
           N == MaxHeaderDepth
           m == [p \in D |-> p[1]]
           Body(p, g) == IF p[1] = 0 THEN dump_leaf_extent(dev.node[p[2]])
                         ELSE Level(dev.bad, dev.node[p[2]], p[1], g)
           F == [x \in D \X [D -> V] |-> Body(x[1], x[2])]
           t == CHOOSE f : Travels(dev, f)
<1>1. N \in Nat /\ m \in [D -> 0 .. N] /\ V # {}
  <2>1. <<>> \in V
    OBVIOUS
  <2> QED
    BY <2>1, TreeAssumption DEF Places
<1>2. \A b \in Blocks : dev.node[b].slots \in Seq(Slots)
  <2> TAKE b \in Blocks
  <2>1. dev.node[b] \in Headers
    OBVIOUS
  <2> QED
    BY <2>1 DEF Headers
<1>3. ASSUME NEW p \in D PROVE p[1] \in 0 .. N /\ p[2] \in Blocks /\ m[p] = p[1]
  BY DEF Places
<1>4. ASSUME NEW p \in D, p[1] # 0
      PROVE  /\ p[1] \in Nat \ {0} /\ p[1] - 1 <= N /\ p[1] - 1 \in 0 .. N /\ p[1] - 1 < p[1]
             /\ \A b \in Blocks : <<p[1] - 1, b>> \in D /\ m[<<p[1] - 1, b>>] < m[p]
  <2>1. p[1] \in Nat \ {0} /\ p[1] - 1 <= N /\ p[1] - 1 \in 0 .. N /\ p[1] - 1 < p[1]
    BY <1>1, <1>3, <1>4
  <2>2. \A b \in Blocks : <<p[1] - 1, b>> \in D
    BY <2>1 DEF Places
  <2> QED
    BY <1>3, <2>1, <2>2
<1> HIDE DEF D, N, m
<1>5. ASSUME NEW p \in D, NEW g \in [D -> V] PROVE Body(p, g) \in V
  <2> HIDE DEF V
  <2>1. \A q \in D : g[q] \in V
    OBVIOUS
  <2>2. CASE p[1] = 0
    BY <1>2, <1>3, <2>2, DumpLeafType DEF V
  <2>3. CASE p[1] # 0
    <3>1. \A b \in Blocks : g[<<p[1] - 1, b>>] \in Seq(Steps)
      BY <1>4, <2>1, <2>3 DEF V
    <3>2. p[1] \in Nat \ {0} /\ p[1] - 1 <= MaxHeaderDepth /\ dev.node[p[2]].slots \in Seq(Slots)
      BY <1>2, <1>3, <1>4, <2>3 DEF N
    <3>3. Level(dev.bad, dev.node[p[2]], p[1], g) \in Seq(Steps)
      BY <3>1, <3>2, LevelType
    <3> QED
      BY <2>3, <3>3 DEF V
  <2> QED
    BY <2>2, <2>3
<1>6. ASSUME NEW p \in D, NEW g, NEW k, \A q \in D : m[q] < m[p] => g[q] = k[q]
      PROVE  Body(p, g) = Body(p, k)
  <2>1. CASE p[1] = 0
    BY <2>1
  <2>2. CASE p[1] # 0
    <3>1. \A b \in Blocks : g[<<p[1] - 1, b>>] = k[<<p[1] - 1, b>>]
      BY <1>4, <1>6, <2>2
    <3>2. dev.node[p[2]].slots \in Seq(Slots)
      BY <1>2, <1>3
    <3>3. Level(dev.bad, dev.node[p[2]], p[1], g) = Level(dev.bad, dev.node[p[2]], p[1], k)
      BY <3>1, <3>2, LevelSame
    <3> QED
      BY <2>2, <3>3
  <2> QED
    BY <2>1, <2>2
<1> HIDE DEF Body, V
<1>7. \A p \in D, g \in [D -> V] : F[<<p, g>>] = Body(p, g)
  OBVIOUS
<1>8. F \in [D \X [D -> V] -> V]
  <2>1. ASSUME NEW x \in D \X [D -> V] PROVE Body(x[1], x[2]) \in V
    <3>1. x[1] \in D /\ x[2] \in [D -> V]
      OBVIOUS
    <3> QED
      BY <1>5, <3>1
  <2> QED
    BY <2>1
<1> HIDE DEF F
<1>9. Recursive(D, V, N, m, F)
  <2>1. \A p \in D : \A g, k \in [D -> V] :
           (\A q \in D : m[q] < m[p] => g[q] = k[q]) => F[<<p, g>>] = F[<<p, k>>]
    BY <1>6, <1>7
  <2> QED
    BY <1>1, <1>8, <2>1 DEF Recursive
<1>10. PICK f \in [D -> V] : \A p \in D : f[p] = F[<<p, f>>]
  BY <1>9, RecursionSolvable
<1>11. \A x : Travels(dev, x) <=> x = [p \in D |-> Body(p, x)]
  BY DEF Travels, Body, D, Places
<1>12. Travels(dev, f)
  <2>1. \A p \in D : f[p] = Body(p, f)
    BY <1>7, <1>10
  <2>2. f = [p \in D |-> f[p]]
    OBVIOUS
  <2> QED
    BY <1>11, <2>1, <2>2
<1>13. Travels(dev, t)
  BY <1>12
<1> HIDE DEF t
<1>14. \A p \in D : t[p] = Body(p, t)
  BY <1>11, <1>13
<1>15. \A p \in D : (\A q \in D : m[q] < m[p] => t[q] = f[q]) => t[p] = f[p]
  <2> TAKE p \in D
  <2> HAVE \A q \in D : m[q] < m[p] => t[q] = f[q]
  <2>1. Body(p, t) = Body(p, f)
    BY <1>6
  <2> QED
    BY <1>7, <1>10, <1>14, <2>1
<1>16. Alike(D, N, m, t, f)
  BY <1>1, <1>15 DEF Alike
<1>17. \A p \in D : t[p] = f[p]
  BY <1>16, RecursionUnique
<1>18. \A p \in D : t[p] \in V
  BY <1>17
<1> QED
  BY <1>18 DEF t, D, V

\* The slots an emptied header still has.
LEMMA ResidualType == \A resid \in Seq(Slots) : ResidualCount(resid) \in 0 .. Len(resid)
<1> TAKE resid \in Seq(Slots)
<1> DEFINE plausible(i) == AsIndex(resid[i]) \in 2 .. TotalBlocks - 1
           good == {i \in DOMAIN resid : plausible(i)}
           stop == {i \in DOMAIN resid : ~plausible(i) /\ \E j \in good : j < i}
           n == {i \in good : \A j \in stop : i < j}
           N == Len(resid)
<1>1. ResidualCount(resid) = IF n = {} THEN 0 ELSE CHOOSE i \in n : \A j \in n : j <= i
  BY DEF ResidualCount
<1>2. N \in Nat /\ DOMAIN resid = 1 .. N
  OBVIOUS
<1>3. n \subseteq 1 .. N
  BY <1>2
<1> HIDE DEF n, N
<1>4. CASE n = {}
  BY <1>1, <1>2, <1>4 DEF N
<1>5. CASE n # {}
  <2>1. n \subseteq Nat /\ \A x \in n : x <= N
    BY <1>2, <1>3
  <2>2. \E x \in n : \A y \in n : y <= x
    BY <1>2, <1>5, <2>1, GreatestOf
  <2>3. ResidualCount(resid) \in n
    BY <1>1, <1>5, <2>2
  <2> DEFINE r == ResidualCount(resid)
  <2> HIDE DEF r
  <2>4. r \in 1 .. N
    BY <1>3, <2>3 DEF r
  <2>5. r \in 0 .. N
    BY <1>2, <2>4
  <2> QED
    BY <2>5 DEF N, r
<1> QED
  BY <1>4, <1>5

\* The plan of an inode, whatever its header says.
LEMMA TravelPlanType ==
  ASSUME disk \in Disks, NEW ino \in 1 .. InodesCount, Travelable(disk.inodes[ino])
  PROVE  TravelPlan(disk, disk.inodes[ino]) \in Seq(Steps)
<1> DEFINE i == disk.inodes[ino]
           s == Synthesized(i)
           h == s.h
           l == s.level
           t == CHOOSE f : Travels(disk, f)
<1>1. disk.inodes \in [1 .. InodesCount -> DiskInodes] /\ disk.node \in [Blocks -> Headers]
  BY DisksAssumption DEF DiskOK
<1>2. i \in DiskInodes
  BY <1>1
<1>3. i.depth \in Nat /\ i.slots \in Seq(Slots) /\ i.resid \in Seq(Slots) /\ i.depth <= MaxHeaderDepth
  <2> HIDE DEF i
  <2> QED
    BY <1>2 DEF DiskInodes, Travelable, i
<1>4. h.slots \in Seq(Slots) /\ l \in Nat /\ (l # 0 => l \in Nat \ {0} /\ l - 1 <= MaxHeaderDepth)
  <2>1. CASE i.slots # <<>>
    <3>1. h = i /\ l = i.depth
      BY <2>1 DEF Synthesized
    <3> QED
      BY <1>3, <3>1, TreeAssumption
  <2>2. CASE i.slots = <<>>
    <3> DEFINE n == ResidualCount(i.resid)
               r == SubSeq(i.resid, 1, n)
    <3>1. h = [i EXCEPT !.slots = r] /\ l = IF i.depth = 0 THEN 1 ELSE i.depth
      BY <2>2 DEF Synthesized
    <3>2. n \in 0 .. Len(i.resid)
      BY <1>3, ResidualType
    <3>3. r \in Seq(Slots)
      <4> HIDE DEF n
      <4> QED
        BY <1>3, <3>2
    <3>4. h.slots = r
      BY <1>2, <3>1 DEF DiskInodes
    <3> QED
      BY <1>3, <3>1, <3>3, <3>4, TreeAssumption
  <2> QED
    BY <2>1, <2>2
<1>5. TravelPlan(disk, i) = IF l = 0 THEN dump_leaf_extent(h) ELSE Level(disk.bad, h, l, t)
  BY TravelIs DEF TravelPlan
<1>6. \A p \in Places : t[p] \in Seq(Steps)
  BY <1>1, TravelsType
<1> HIDE DEF h, l, t
<1>7. CASE l = 0
  BY <1>4, <1>5, <1>7, DumpLeafType
<1>8. CASE l # 0
  <2>1. l - 1 \in 0 .. MaxHeaderDepth
    BY <1>4, <1>8, TreeAssumption
  <2>2. \A b \in Blocks : t[<<l - 1, b>>] \in Seq(Steps)
    BY <1>6, <2>1 DEF Places
  <2> QED
    BY <1>4, <1>5, <1>8, <2>2, LevelType
<1> QED
  BY <1>7, <1>8

-----------------------------------------------------------------------------
(* The walk of an orphaned tree. *)

Uses == {e \in Exts : Usable(e)}
Walks == [exts : Seq(Uses), marks : Seq(Blocks)]

\* The tree blocks the walk of an orphaned tree follows.
LEMMA FollowedType == \A dev, h : h.slots \in Seq(Slots) => Followed(dev, h) \in Seq(Blocks)
<1> TAKE dev, h
<1> HAVE h.slots \in Seq(Slots)
<1> DEFINE slots == h.slots
           p == Pointers(slots)
           I == {i \in DOMAIN p : p[i] \in 2 .. TotalBlocks - 1 /\ p[i] \notin dev.bad /\ dev.node[p[i]].magic}
           A == {p[i] : i \in DOMAIN p}
<1>1. Followed(dev, h) = PickSeq(p, I)
  BY DEF Followed, Select
<1>2. p \in Seq(A)
  <2>1. p = [i \in DOMAIN slots |-> AsIndex(slots[i])]
    BY DEF Pointers
  <2>2. DOMAIN p = DOMAIN slots /\ p = [i \in DOMAIN p |-> p[i]] /\ \A i \in DOMAIN slots : p[i] \in A
    BY <2>1
  <2> HIDE DEF p, A
  <2> QED
    BY <2>2, MapType
<1>3. \A i \in DOMAIN p \cap I : p[i] \in Blocks
  BY TreeAssumption DEF Blocks
<1> HIDE DEF p, I, A
<1> QED
  BY <1>1, <1>2, <1>3, PickType

\* A walk that collects nothing.
LEMMA NothingType == Nothing \in Walks
<1>1. <<>> \in Seq(Uses) /\ <<>> \in Seq(Blocks)
  OBVIOUS
<1> HIDE DEF Uses, Blocks
<1> QED
  BY <1>1 DEF Nothing, Walks

\* What a walk collects at a header.
LEMMA WalkHeaderType ==
  ASSUME NEW dev, NEW h, h.slots \in Seq(Slots), NEW below,
         \A i \in DOMAIN Followed(dev, h) : below[i] \in Walks
  PROVE  WalkHeader(dev, h, below) \in Walks
<1> DEFINE kids == Followed(dev, h)
           x == Extents(h.slots)
           I == {i \in DOMAIN x : Usable(x[i])}
           E == Seq(Uses)
           M == Seq(Blocks)
           f == [i \in DOMAIN kids |-> below[i].exts]
           g == [i \in DOMAIN kids |-> <<kids[i]>> \o below[i].marks]
<1>1. \/ WalkHeader(dev, h, below) = Nothing
      \/ WalkHeader(dev, h, below) = [exts |-> PickSeq(x, I), marks |-> <<>>]
      \/ WalkHeader(dev, h, below) = [exts |-> FlattenSeq(f), marks |-> FlattenSeq(g)]
  BY DEF WalkHeader, Select
<1>2. kids \in Seq(Blocks)
  BY FollowedType
<1>3. x \in Seq(Exts)
  BY ExtentsType
<1>4. PickSeq(x, I) \in E
  <2>1. \A i \in DOMAIN x \cap I : x[i] \in Uses
    <3> HIDE DEF x
    <3>1. \A i \in DOMAIN x : x[i] \in Exts
      <4> HIDE DEF Exts
      <4> QED
        BY <1>3
    <3> QED
      BY <3>1 DEF Uses
  <2> HIDE DEF x, I
  <2> QED
    BY <1>3, <2>1, PickType
<1>5. <<>> \in M
  OBVIOUS
<1>6. \A i \in DOMAIN kids : kids[i] \in Blocks
  <2> HIDE DEF kids
  <2> QED
    BY <1>2
<1> HIDE DEF kids, x, I
<1>7. \A i \in DOMAIN kids : below[i].exts \in E /\ below[i].marks \in M
  BY DEF Walks, kids
<1>8. FlattenSeq(f) \in E
  <2>1. DOMAIN f = DOMAIN kids /\ f = [i \in DOMAIN f |-> f[i]] /\ \A i \in DOMAIN kids : f[i] \in E
    BY <1>7
  <2> HIDE DEF f, E
  <2>2. f \in Seq(E)
    BY <1>2, <2>1, MapType
  <2> QED
    BY <2>2, FlattenType DEF E
<1>9. FlattenSeq(g) \in M
  <2>1. \A i \in DOMAIN kids : <<kids[i]>> \o below[i].marks \in M
    <3> TAKE i \in DOMAIN kids
    <3> DEFINE b == kids[i]
               r == below[i].marks
    <3>1. b \in Blocks /\ r \in M
      BY <1>6, <1>7
    <3> HIDE DEF b, r, Blocks
    <3>2. <<b>> \o r \in M
      BY <3>1
    <3> QED
      BY <3>2 DEF b, r
  <2>2. DOMAIN g = DOMAIN kids /\ g = [i \in DOMAIN g |-> g[i]] /\ \A i \in DOMAIN kids : g[i] \in M
    BY <2>1
  <2> HIDE DEF g, M
  <2>3. g \in Seq(M)
    BY <1>2, <2>2, MapType
  <2> QED
    BY <2>3, FlattenType DEF M
<1>10. ASSUME NEW a \in E, NEW b \in M PROVE [exts |-> a, marks |-> b] \in Walks
  <2> HIDE DEF E, M
  <2> QED
    BY DEF Walks, E, M
<1> HIDE DEF f, g, E, M
<1> QED
  BY <1>1, <1>4, <1>5, <1>8, <1>9, <1>10, NothingType

\* One level of the walk, with l levels to go.
Deeper(dev, h, l, g) ==
    LET kids == Followed(dev, h)
    IN WalkHeader(dev, h, [i \in DOMAIN kids |-> g[<<l - 1, kids[i]>>]])
Walking(dev, f) ==
    f = [p \in (0 .. MaxTreeDepth) \X Blocks |->
           IF p[1] = 0 THEN Nothing ELSE Deeper(dev, dev.node[p[2]], p[1], f)]
Depths == (0 .. MaxTreeDepth) \X Blocks
Walked(dev, f) ==
    \A p \in Depths : /\ f[p] \in Walks
                      /\ f[p] = IF p[1] = 0 THEN Nothing ELSE Deeper(dev, dev.node[p[2]], p[1], f)

\* A walk, level by level.
LEMMA WalkIs ==
  ASSUME NEW dev, NEW h
  PROVE  LET all == Deeper(dev, h, MaxTreeDepth, CHOOSE f : Walking(dev, f))
         IN walk_extent_tree(dev, h) =
              [all EXCEPT !.exts = SubSeq(@, 1, IF Len(@) < MaxCollected THEN Len(@) ELSE MaxCollected)]
  BY DEF walk_extent_tree, Deeper, Walking

\* The type of a walk through the blocks followed.
LEMMA DeeperType ==
  ASSUME NEW dev, NEW h, h.slots \in Seq(Slots), NEW l,
         NEW g, \A b \in Blocks : g[<<l - 1, b>>] \in Walks
  PROVE  Deeper(dev, h, l, g) \in Walks
<1> DEFINE kids == Followed(dev, h)
           below == [i \in DOMAIN kids |-> g[<<l - 1, kids[i]>>]]
<1>1. Deeper(dev, h, l, g) = WalkHeader(dev, h, below)
  BY DEF Deeper
<1>2. kids \in Seq(Blocks)
  BY FollowedType
<1>3. \A i \in DOMAIN kids : kids[i] \in Blocks
  <2> HIDE DEF kids
  <2> QED
    BY <1>2
<1>4. \A i \in DOMAIN kids : below[i] \in Walks
  <2> HIDE DEF kids
  <2> QED
    BY <1>3
<1> HIDE DEF below
<1> QED
  BY <1>1, <1>4, WalkHeaderType

\* A walk depends on nothing else than the walks below.
LEMMA DeeperSame ==
  ASSUME NEW dev, NEW h, h.slots \in Seq(Slots), NEW l, NEW g, NEW k,
         \A b \in Blocks : g[<<l - 1, b>>] = k[<<l - 1, b>>]
  PROVE  Deeper(dev, h, l, g) = Deeper(dev, h, l, k)
<1> DEFINE kids == Followed(dev, h)
           f(x) == [i \in DOMAIN kids |-> x[<<l - 1, kids[i]>>]]
<1>1. kids \in Seq(Blocks)
  BY FollowedType
<1>2. Deeper(dev, h, l, g) = WalkHeader(dev, h, f(g)) /\ Deeper(dev, h, l, k) = WalkHeader(dev, h, f(k))
  BY DEF Deeper
<1> HIDE DEF kids
<1>3. \A i \in DOMAIN kids : kids[i] \in Blocks
  BY <1>1
<1>4. f(g) = f(k)
  BY <1>3
<1> QED
  BY <1>2, <1>4

\* The walks up to the deepest a header may claim.
LEMMA WalkingType ==
  ASSUME NEW dev, dev.node \in [Blocks -> Headers]
  PROVE  Walked(dev, CHOOSE f : Walking(dev, f))
<1> DEFINE D == Depths
           V == Walks
           N == MaxTreeDepth
           m == [p \in D |-> p[1]]
           Body(p, g) == IF p[1] = 0 THEN Nothing ELSE Deeper(dev, dev.node[p[2]], p[1], g)
           F == [x \in D \X [D -> V] |-> Body(x[1], x[2])]
           t == CHOOSE f : Walking(dev, f)
<1>1. N \in Nat /\ m \in [D -> 0 .. N] /\ V # {}
  BY NothingType, TreeAssumption DEF Depths
<1>2. \A b \in Blocks : dev.node[b].slots \in Seq(Slots)
  <2> TAKE b \in Blocks
  <2>1. dev.node[b] \in Headers
    OBVIOUS
  <2> QED
    BY <2>1 DEF Headers
<1>3. ASSUME NEW p \in D PROVE p[1] \in 0 .. N /\ p[2] \in Blocks /\ m[p] = p[1]
  BY DEF Depths
<1>4. ASSUME NEW p \in D, p[1] # 0
      PROVE  \A b \in Blocks : <<p[1] - 1, b>> \in D /\ m[<<p[1] - 1, b>>] < m[p]
  <2>1. p[1] - 1 \in 0 .. N /\ p[1] - 1 < p[1]
    BY <1>1, <1>3, <1>4
  <2>2. \A b \in Blocks : <<p[1] - 1, b>> \in D
    BY <2>1 DEF Depths
  <2> QED
    BY <1>3, <2>1, <2>2
<1> HIDE DEF D, N, m
<1>5. ASSUME NEW p \in D, NEW g \in [D -> V] PROVE Body(p, g) \in V
  <2> HIDE DEF V
  <2>1. \A q \in D : g[q] \in V
    OBVIOUS
  <2>2. CASE p[1] = 0
    BY <2>2, NothingType DEF V
  <2>3. CASE p[1] # 0
    <3>1. \A b \in Blocks : g[<<p[1] - 1, b>>] \in Walks
      BY <1>4, <2>1, <2>3 DEF V
    <3>2. dev.node[p[2]].slots \in Seq(Slots)
      BY <1>2, <1>3
    <3>3. Deeper(dev, dev.node[p[2]], p[1], g) \in Walks
      BY <3>1, <3>2, DeeperType
    <3> QED
      BY <2>3, <3>3 DEF V
  <2> QED
    BY <2>2, <2>3
<1>6. ASSUME NEW p \in D, NEW g, NEW k, \A q \in D : m[q] < m[p] => g[q] = k[q]
      PROVE  Body(p, g) = Body(p, k)
  <2>1. CASE p[1] = 0
    BY <2>1
  <2>2. CASE p[1] # 0
    <3>1. \A b \in Blocks : g[<<p[1] - 1, b>>] = k[<<p[1] - 1, b>>]
      BY <1>4, <1>6, <2>2
    <3>2. dev.node[p[2]].slots \in Seq(Slots)
      BY <1>2, <1>3
    <3>3. Deeper(dev, dev.node[p[2]], p[1], g) = Deeper(dev, dev.node[p[2]], p[1], k)
      BY <3>1, <3>2, DeeperSame
    <3> QED
      BY <2>2, <3>3
  <2> QED
    BY <2>1, <2>2
<1> HIDE DEF Body, V
<1>7. \A p \in D, g \in [D -> V] : F[<<p, g>>] = Body(p, g)
  OBVIOUS
<1>8. F \in [D \X [D -> V] -> V]
  <2>1. ASSUME NEW x \in D \X [D -> V] PROVE Body(x[1], x[2]) \in V
    <3>1. x[1] \in D /\ x[2] \in [D -> V]
      OBVIOUS
    <3> QED
      BY <1>5, <3>1
  <2> QED
    BY <2>1
<1> HIDE DEF F
<1>9. Recursive(D, V, N, m, F)
  <2>1. \A p \in D : \A g, k \in [D -> V] :
           (\A q \in D : m[q] < m[p] => g[q] = k[q]) => F[<<p, g>>] = F[<<p, k>>]
    BY <1>6, <1>7
  <2> QED
    BY <1>1, <1>8, <2>1 DEF Recursive
<1>10. PICK f \in [D -> V] : \A p \in D : f[p] = F[<<p, f>>]
  BY <1>9, RecursionSolvable
<1>11. \A x : Walking(dev, x) <=> x = [p \in D |-> Body(p, x)]
  BY DEF Walking, Body, D, Depths
<1>12. Walking(dev, f)
  <2>1. \A p \in D : f[p] = Body(p, f)
    BY <1>7, <1>10
  <2>2. f = [p \in D |-> f[p]]
    OBVIOUS
  <2> QED
    BY <1>11, <2>1, <2>2
<1>13. Walking(dev, t)
  BY <1>12
<1> HIDE DEF t
<1>14. \A p \in D : t[p] = Body(p, t)
  BY <1>11, <1>13
<1>15. \A p \in D : (\A q \in D : m[q] < m[p] => t[q] = f[q]) => t[p] = f[p]
  <2> TAKE p \in D
  <2> HAVE \A q \in D : m[q] < m[p] => t[q] = f[q]
  <2>1. Body(p, t) = Body(p, f)
    BY <1>6
  <2> QED
    BY <1>7, <1>10, <1>14, <2>1
<1>16. Alike(D, N, m, t, f)
  BY <1>1, <1>15 DEF Alike
<1>17. \A p \in D : t[p] = f[p]
  BY <1>16, RecursionUnique
<1>18. \A p \in D : t[p] \in V
  BY <1>17
<1>19. Walked(dev, t)
  BY <1>14, <1>18 DEF Walked, Body, D, V
<1> QED
  BY <1>19 DEF t

\* The walk of a whole tree.
LEMMA WalkTreeType ==
  ASSUME disk \in Disks, NEW h, h.slots \in Seq(Slots)
  PROVE  walk_extent_tree(disk, h) \in Walks
<1> DEFINE t == CHOOSE f : Walking(disk, f)
           all == Deeper(disk, h, MaxTreeDepth, t)
           x == all.exts
           n == IF Len(x) < MaxCollected THEN Len(x) ELSE MaxCollected
<1>1. disk.node \in [Blocks -> Headers]
  BY DisksAssumption DEF DiskOK
<1>2. \A p \in Depths : t[p] \in Walks
  BY <1>1, WalkingType DEF Walked
<1>3. walk_extent_tree(disk, h) = [all EXCEPT !.exts = SubSeq(x, 1, n)]
  BY WalkIs
<1>4. MaxTreeDepth - 1 \in 0 .. MaxTreeDepth /\ MaxCollected \in Nat
  BY TreeAssumption
<1> HIDE DEF t
<1>5. \A b \in Blocks : t[<<MaxTreeDepth - 1, b>>] \in Walks
  BY <1>2, <1>4 DEF Depths
<1>6. all \in Walks
  BY <1>5, DeeperType
<1> HIDE DEF all
<1>7. x \in Seq(Uses) /\ all.marks \in Seq(Blocks)
  BY <1>6 DEF Walks
<1> HIDE DEF x
<1>8. SubSeq(x, 1, n) \in Seq(Uses)
  <2> HIDE DEF Uses
  <2>1. Len(x) \in Nat
    BY <1>7
  <2>2. n \in 0 .. Len(x)
    BY <1>4, <2>1
  <2> HIDE DEF n
  <2> QED
    BY <1>7, <2>2
<1> HIDE DEF n
<1> QED
  BY <1>3, <1>6, <1>8 DEF Walks

\* Sorting rearranges.
LEMMA SortedArranged ==
  ASSUME NEW x \in Seq(Exts)
  PROVE  \E o : Arrangement(x, SortOrder(x, collected_ext_cmp), qsort(x, collected_ext_cmp), o)
<1> DEFINE R == SortOrder(x, collected_ext_cmp)
           I == DOMAIN x
           g == qsort(x, collected_ext_cmp)
           N == Len(x)
<1>1. N \in Nat /\ I = 1 .. N
  OBVIOUS
<1>2. IsFiniteSet(I)
  BY <1>1, FS_Interval
<1>3. \A i \in I : x[i].at \in Nat
  <2>1. \A i \in I : x[i] \in Exts
    <3> HIDE DEF Exts
    <3> QED
      OBVIOUS
  <2> QED
    BY <2>1 DEF Exts
<1>4. \A i, j \in I : <<i, j>> \in R <=> x[i].at < x[j].at \/ (~(x[j].at < x[i].at) /\ i < j)
  BY DEF SortOrder, collected_ext_cmp
<1> HIDE DEF R
<1>5. StrictOrder(I, R)
  <2> DEFINE a(i) == x[i].at
  <2>1. \A i \in I : a(i) \in Nat /\ i \in Nat
    BY <1>1, <1>3
  <2>2. \A i, j \in I : <<i, j>> \in R <=> a(i) < a(j) \/ (~(a(j) < a(i)) /\ i < j)
    BY <1>4
  <2> HIDE DEF a, I
  <2>3. \A i \in I : <<i, i>> \notin R
    BY <2>1, <2>2
  <2>4. \A i, j \in I : i # j => <<i, j>> \in R \/ <<j, i>> \in R
    BY <2>1, <2>2
  <2>5. \A i, j, k \in I : <<i, j>> \in R /\ <<j, k>> \in R => <<i, k>> \in R
    BY <2>1, <2>2
  <2> QED
    BY <2>3, <2>4, <2>5 DEF StrictOrder
<1>6. g = Arranged(x, R)
  BY DEF qsort, R
<1>7. \E o : Arrangement(x, R, g, o)
  BY <1>2, <1>5, <1>6, ArrangedInOrder
<1> QED
  BY <1>7 DEF R, g

\* Sorting is no loss of type.
LEMMA SortedType ==
  ASSUME NEW x \in Seq(Exts), NEW T, \A i \in DOMAIN x : x[i] \in T
  PROVE  qsort(x, collected_ext_cmp) \in Seq(T)
<1> DEFINE R == SortOrder(x, collected_ext_cmp)
           g == qsort(x, collected_ext_cmp)
<1>1. PICK o : Arrangement(x, R, g, o)
  BY SortedArranged
<1> HIDE DEF g
<1> DEFINE n == Cardinality(DOMAIN x)
<1>2. n \in Nat /\ o \in [1 .. n -> DOMAIN x] /\ g = [k \in 1 .. n |-> x[o[k]]]
  BY <1>1 DEF Arrangement
<1> HIDE DEF n
<1>3. \A k \in 1 .. n : x[o[k]] \in T
  BY <1>2
<1>4. g \in [1 .. n -> T]
  BY <1>2, <1>3
<1> QED
  BY <1>2, <1>4 DEF g

\* The plan of an orphaned tree.
LEMMA TreePlanSolid == \A x \in Seq(Uses) : TreePlan(x) \in Seq(Solid)
<1> TAKE x \in Seq(Uses)
<1> DEFINE g == qsort(x, collected_ext_cmp)
           I == {i \in DOMAIN g : ~Uninit(g[i])}
<1>1. TreePlan(x) = PickSeq(g, I)
  BY DEF TreePlan, Select
<1>2. Len(x) \in Nat /\ DOMAIN x = 1 .. Len(x) /\ x = [i \in 1 .. Len(x) |-> x[i]]
      /\ \A i \in DOMAIN x : x[i] \in Uses
  <2> HIDE DEF Uses
  <2> QED
    OBVIOUS
<1>3. \A i \in DOMAIN x : x[i] \in Exts
  BY <1>2 DEF Uses
<1>4. x \in Seq(Exts)
  <2> HIDE DEF Exts
  <2> QED
    BY <1>2, <1>3
<1>5. g \in Seq(Uses)
  <2> HIDE DEF Uses
  <2> QED
    BY <1>2, <1>4, SortedType
<1> HIDE DEF g
<1>6. \A i \in DOMAIN g : g[i] \in Uses
  <2> HIDE DEF Uses
  <2> QED
    BY <1>5
<1>7. \A i \in DOMAIN g \cap I : g[i] \in Solid
  BY <1>6, UsableSolid, ClearedLen DEF Uses
<1> HIDE DEF I
<1> QED
  BY <1>1, <1>5, <1>7, PickType

-----------------------------------------------------------------------------
(* Block pointers. *)

\* The pointers up to the first that is none.
LEMMA PrefixIs ==
  ASSUME NEW p \in Seq(Nat)
  PROVE  /\ ValidPrefix(p) \in Seq(Blocks)
         /\ Len(ValidPrefix(p)) \in 0 .. Len(p)
         /\ \A i \in 1 .. Len(ValidPrefix(p)) : ValidPrefix(p)[i] = p[i]
         /\ Len(ValidPrefix(p)) < Len(p) => ~ind_block_valid(p[Len(ValidPrefix(p)) + 1])
<1> DEFINE N == Len(p)
           ok(n) == /\ \A i \in 1 .. n : ind_block_valid(p[i])
                    /\ n < N => ~ind_block_valid(p[n + 1])
           n == CHOOSE n \in 0 .. N : ok(n)
           S == {i \in 1 .. N : ~ind_block_valid(p[i])}
<1>1. N \in Nat /\ DOMAIN p = 1 .. N
  OBVIOUS
<1>2. ValidPrefix(p) = SubSeq(p, 1, n)
  BY DEF ValidPrefix
<1>3. \E k \in 0 .. N : ok(k)
  <2>1. CASE S = {}
    <3>1. ok(N)
      BY <1>1, <2>1
    <3> QED
      BY <1>1, <3>1
  <2>2. CASE S # {}
    <3>1. S \subseteq Nat
      OBVIOUS
    <3>2. PICK x \in S : \A y \in S : x <= y
      <4> HIDE DEF S
      <4> QED
        BY <2>2, <3>1, LeastOf
    <3>3. x \in 1 .. N /\ ~ind_block_valid(p[x]) /\ (x - 1) + 1 = x /\ x - 1 \in 0 .. N
      BY <3>2
    <3>4. \A i \in 1 .. x - 1 : ind_block_valid(p[i])
      <4> TAKE i \in 1 .. x - 1
      <4>1. i \in 1 .. N /\ ~(x <= i)
        BY <1>1, <3>3
      <4>2. i \notin S
        BY <3>2, <4>1
      <4> QED
        BY <4>1, <4>2
    <3>5. ok(x - 1)
      BY <3>3, <3>4
    <3> QED
      BY <3>3, <3>5
  <2> QED
    BY <2>1, <2>2
<1>4. n \in 0 .. N /\ ok(n)
  <2> HIDE DEF ok
  <2> QED
    BY <1>3
<1> HIDE DEF n
<1>5. SubSeq(p, 1, n) = [i \in 1 .. n |-> p[i]]
  <2>1. n \in Nat /\ SubSeq(p, 1, n) = [i \in 1 .. 1 + n - 1 |-> p[i + 1 - 1]]
    BY <1>4
  <2> QED
    BY <1>4
<1>6. \A i \in 1 .. n : p[i] \in Blocks
  BY <1>4 DEF ind_block_valid
<1>7. n \in Nat /\ [i \in 1 .. n |-> p[i]] \in [1 .. n -> Blocks]
  BY <1>1, <1>4, <1>6
<1> DEFINE v == ValidPrefix(p)
<1>8. v = [i \in 1 .. n |-> p[i]]
  BY <1>2, <1>5
<1> HIDE DEF v
<1>9. v \in Seq(Blocks) /\ Len(v) = n
  BY <1>7, <1>8
<1>10. \A i \in 1 .. n : v[i] = p[i]
  BY <1>8
<1> QED
  BY <1>4, <1>9, <1>10 DEF v

\* Pointers that are all blocks up to one are all in the prefix.
LEMMA PrefixHas ==
  ASSUME NEW p \in Seq(Nat), NEW k \in 0 .. Len(p), \A i \in 1 .. k : ind_block_valid(p[i])
  PROVE  /\ k <= Len(ValidPrefix(p)) /\ Len(ValidPrefix(p)) <= Len(p)
         /\ \A i \in 1 .. k : ValidPrefix(p)[i] = p[i]
<1> DEFINE v == ValidPrefix(p)
           n == Len(v)
<1>1. /\ n \in 0 .. Len(p) /\ \A i \in 1 .. n : v[i] = p[i]
      /\ n < Len(p) => ~ind_block_valid(p[n + 1])
  BY PrefixIs
<1>2. Len(p) \in Nat
  OBVIOUS
<1> HIDE DEF n, v
<1>3. ASSUME n < k PROVE FALSE
  <2>1. n + 1 \in 1 .. k /\ n < Len(p)
    BY <1>1, <1>2, <1>3
  <2> QED
    BY <1>1, <2>1
<1>4. k <= n
  BY <1>1, <1>2, <1>3
<1>5. \A i \in 1 .. k : i \in 1 .. n
  BY <1>1, <1>2, <1>4
<1> QED
  BY <1>1, <1>4, <1>5 DEF n, v

\* They are blocks.
LEMMA ValidPrefixType == \A p \in Seq(Nat) : ValidPrefix(p) \in Seq(Blocks)
  BY PrefixIs

\* The blocks an indirect block points to.
LEMMA DumpIndirectType ==
  ASSUME disk \in Disks, NEW b
  PROVE  dump_indirect(disk, b) \in Seq(Blocks)
<1>1. disk.ptrs \in [Blocks -> [1 .. PerBlock -> Nat]] /\ PerBlock \in Nat
  BY DisksAssumption, TreeAssumption DEF DiskOK
<1>2. CASE ind_block_valid(b)
  <2>0. disk.ptrs[b] \in [1 .. PerBlock -> Nat]
    BY <1>1, <1>2 DEF ind_block_valid
  <2>1. disk.ptrs[b] \in Seq(Nat)
    BY <1>1, <2>0
  <2>2. ValidPrefix(disk.ptrs[b]) \in Seq(Blocks)
    BY <2>1, ValidPrefixType
  <2>3. <<>> \in Seq(Blocks)
    OBVIOUS
  <2> QED
    BY <2>2, <2>3 DEF dump_indirect
<1>3. CASE ~ind_block_valid(b)
  BY <1>3 DEF dump_indirect
<1> QED
  BY <1>2, <1>3

\* The blocks a double-indirect block leads to.
LEMMA DumpDoubleType ==
  ASSUME disk \in Disks, NEW b
  PROVE  dump_double_indirect(disk, b) \in Seq(Blocks)
<1> DEFINE inds == dump_indirect(disk, b)
           f == [i \in DOMAIN inds |-> dump_indirect(disk, inds[i])]
           V == Seq(Blocks)
<1>1. inds \in Seq(Blocks)
  BY DumpIndirectType
<1>2. \A i \in DOMAIN inds : f[i] \in V
  BY DumpIndirectType
<1>3. DOMAIN f = DOMAIN inds /\ f = [i \in DOMAIN f |-> f[i]]
  OBVIOUS
<1>4. dump_double_indirect(disk, b) = FlattenSeq(f)
  BY DEF dump_double_indirect
<1> HIDE DEF inds, f, V
<1>5. f \in Seq(V)
  BY <1>1, <1>2, <1>3, MapType
<1> QED
  BY <1>4, <1>5, FlattenType DEF V

\* The plan of a file mapped by block pointers.
LEMMA IndirectPlanOK ==
  ASSUME disk \in Disks, NEW ptrs \in Seq(Nat), Len(ptrs) >= NDirect + 2
  PROVE  PlanOK("indirect", IndirectPlan(disk, ptrs))
<1> DEFINE direct == SubSeq(ptrs, 1, NDirect)
           a == ValidPrefix(direct)
           b == dump_indirect(disk, ptrs[NDirect + 1])
           c == dump_double_indirect(disk, ptrs[NDirect + 2])
           all == a \o b \o c
           n == IF Len(all) < MaxInd THEN Len(all) ELSE MaxInd
           plan == IndirectPlan(disk, ptrs)
<1>1. NDirect \in Nat /\ MaxInd \in Nat /\ TotalBlocks \in Nat
  BY TreeAssumption
<1>2. direct \in Seq(Nat)
  <2>1. NDirect \in 0 .. Len(ptrs)
    BY <1>1
  <2> QED
    BY <2>1
<1>3. a \in Seq(Blocks) /\ b \in Seq(Blocks) /\ c \in Seq(Blocks)
  BY <1>2, ValidPrefixType, DumpIndirectType, DumpDoubleType
<1>4. plan = [i \in 1 .. n |-> [at |-> i - 1, len |-> 1, start |-> all[i]]]
  BY DEF IndirectPlan
<1> HIDE DEF a, b, c, plan
<1>5. all \in Seq(Blocks)
  <2> HIDE DEF Blocks
  <2> QED
    BY <1>3
<1> HIDE DEF all
<1>6. n \in Nat /\ n <= Len(all)
  <2>1. Len(all) \in Nat
    BY <1>5
  <2> QED
    BY <1>1, <2>1
<1> HIDE DEF n
<1>7. ASSUME NEW i \in 1 .. n
      PROVE  /\ plan[i] \in Exts /\ Mapped(plan[i]) /\ InDevice(plan[i])
             /\ plan[i].at = i - 1 /\ plan[i].len = 1
  <2>1. plan[i] = [at |-> i - 1, len |-> 1, start |-> all[i]]
    BY <1>4
  <2>2. i \in 1 .. Len(all) /\ i - 1 \in Nat
    BY <1>5, <1>6
  <2>3. all[i] \in Blocks
    <3> HIDE DEF Blocks
    <3> QED
      BY <1>5, <2>2
  <2>4. all[i] \in Nat /\ all[i] # 0 /\ all[i] + 1 <= TotalBlocks
    BY <1>1, <2>3 DEF Blocks
  <2> QED
    BY <2>1, <2>2, <2>4 DEF Exts, Mapped, InDevice
<1>8. plan \in Seq(Exts) /\ DOMAIN plan = 1 .. n
  <2>1. DOMAIN plan = 1 .. n /\ plan = [i \in 1 .. n |-> plan[i]]
    BY <1>4
  <2> HIDE DEF Exts
  <2>2. plan \in [1 .. n -> Exts]
    BY <1>7, <2>1
  <2> QED
    BY <1>6, <2>1, <2>2
<1> QED
  BY <1>7, <1>8 DEF PlanOK, plan

\* Plans of the other kinds.
LEMMA SolidPlan ==
  ASSUME NEW kind, kind # "indirect", NEW plan \in Seq(Solid)
  PROVE  PlanOK(kind, plan)
<1>1. \A i \in DOMAIN plan : plan[i] \in Solid
  <2> HIDE DEF Solid
  <2> QED
    OBVIOUS
<1>2. \A i \in DOMAIN plan : plan[i] \in Exts /\ Mapped(plan[i]) /\ InDevice(plan[i])
  BY <1>1 DEF Solid
<1>3. plan \in Seq(Exts)
  <2> HIDE DEF Exts, Solid
  <2>1. Len(plan) \in Nat /\ DOMAIN plan = 1 .. Len(plan) /\ plan = [i \in 1 .. Len(plan) |-> plan[i]]
    OBVIOUS
  <2> QED
    BY <1>2, <2>1
<1> QED
  BY <1>2, <1>3 DEF PlanOK

\* The plan of the travel of an inode.
LEMMA StepsPlan == \A plan \in Seq(Steps) : PlanOK("inode", plan)
<1> TAKE plan \in Seq(Steps)
<1>1. \A i \in DOMAIN plan : plan[i] \in Steps
  <2> HIDE DEF Steps
  <2> QED
    OBVIOUS
<1>2. \A i \in DOMAIN plan : plan[i] \in Exts /\ (plan[i] = NoWay \/ Mapped(plan[i]))
  BY <1>1 DEF Steps
<1>3. plan \in Seq(Exts)
  <2> HIDE DEF Exts, Steps
  <2>1. Len(plan) \in Nat /\ DOMAIN plan = 1 .. Len(plan) /\ plan = [i \in 1 .. Len(plan) |-> plan[i]]
    OBVIOUS
  <2> QED
    BY <1>2, <2>1
<1> QED
  BY <1>2, <1>3 DEF PlanOK

-----------------------------------------------------------------------------
(* How far a job is. *)

\* Every extent is clean of nothing.
LEMMA AllClean == Clean({}) = Exts
  BY DEF Clean

\* A job that has read nothing.
LEMMA NewReading ==
  ASSUME NEW kind, NEW src, NEW name, NEW plan, NEW size, NEW fs, PlanOK(kind, plan)
  PROVE  Reading(Job(kind, src, name, plan, size), fs)
<1> DEFINE j == Job(kind, src, name, plan, size)
<1>1. j.plan = plan /\ j.todo = plan /\ j.open = FALSE /\ j.stopped = FALSE /\ j.done = 0 /\ j.ok = 0
  BY Fields
<1>2. plan \in Seq(Exts)
  BY DEF PlanOK
<1>3. LengthUpto(plan)[0] = 0
  BY <1>2, LengthRun
<1>4. Len(plan) \in Nat
  BY <1>2
<1>5. Len(plan) - Len(plan) = 0 /\ 0 \in 0 .. Len(plan) /\ \A i \in 1 .. Len(plan) : plan[i] = plan[0 + i]
  BY <1>4
<1> HIDE DEF j
<1> QED
  BY <1>1, <1>2, <1>3, <1>5 DEF Reading, j

\* Reading, as the lemmas about dumps have it.
LEMMA ReadingAlong ==
  ASSUME NEW j, NEW fs, PlanOK(j.kind, j.plan), Reading(j, fs), j.open
  PROVE  Along(j, Clean({})) /\ Holding(j, fs[j.name], {})
<1> DEFINE k == Len(j.plan) - Len(j.todo)
<1>1. j.plan \in Seq(Exts) /\ j.todo \in Seq(Exts)
  BY DEF PlanOK, Reading
<1>2. j.todo # <<>> => j.todo[1] \in Exts
  <2> HIDE DEF Exts
  <2> QED
    BY <1>1
<1>3. j.done \in Nat /\ (j.todo # <<>> => j.done <= j.todo[1].len)
  <2>1. j.done \in Nat /\ (j.done # 0 => j.done < j.todo[1].len)
    BY DEF Reading
  <2>2. j.todo # <<>> => j.todo[1].len \in Nat
    BY <1>2 DEF Exts
  <2> QED
    BY <2>1, <2>2
<1>4. /\ k \in 0 .. Len(j.plan) /\ \A i \in 1 .. Len(j.todo) : j.todo[i] = j.plan[k + i]
      /\ ~j.stopped => j.ok = LengthUpto(j.plan)[k] /\ fs[j.name] = Upto(j.plan, k, j.done)
  BY DEF Reading
<1> QED
  BY <1>1, <1>3, <1>4, AllClean DEF Along, Holding

\* A file of block pointers grows by a block at a time.
LEMMA IndirectDomain ==
  ASSUME NEW plan, PlanOK("indirect", plan), NEW k \in 0 .. Len(plan)
  PROVE  DOMAIN CopiesUpto(plan)[k] = 0 .. k - 1
<1> DEFINE N == Len(plan)
           C == CopiesUpto(plan)
           S == {n \in 0 .. N : DOMAIN C[n] = 0 .. n - 1}
<1>1. plan \in Seq(Exts) /\ \A i \in DOMAIN plan : plan[i].at = i - 1 /\ plan[i].len = 1
  BY DEF PlanOK
<1>2. N \in Nat /\ DOMAIN plan = 1 .. N
  BY <1>1
<1>3. C[0] = NoFile /\ \A n \in 1 .. N : C[n] = Overlay(C[n - 1], Piece(plan[n]))
  BY <1>1, CopiesRun
<1> HIDE DEF C, N
<1>4. 0 \in S
  <2>1. DOMAIN C[0] = {} /\ 0 .. 0 - 1 = {}
    BY <1>3, NoFileType
  <2> QED
    BY <1>2, <2>1
<1>5. ASSUME NEW n \in 1 .. N, n - 1 \in S PROVE n \in S
  <2>1. DOMAIN C[n - 1] = 0 .. (n - 1) - 1 /\ C[n] = Overlay(C[n - 1], Piece(plan[n]))
    BY <1>3, <1>5
  <2>2. plan[n].at = n - 1 /\ plan[n].len = 1
    BY <1>1, <1>2
  <2>3. DOMAIN Piece(plan[n]) = plan[n].at .. plan[n].at + plan[n].len - 1
    BY DEF Piece
  <2>4. DOMAIN Piece(plan[n]) = n - 1 .. (n - 1) + 1 - 1
    BY <2>2, <2>3
  <2>5. DOMAIN C[n] = DOMAIN C[n - 1] \cup DOMAIN Piece(plan[n])
    BY <2>1 DEF Overlay
  <2>6. (0 .. (n - 1) - 1) \cup (n - 1 .. (n - 1) + 1 - 1) = 0 .. n - 1
    BY <1>2
  <2>7. DOMAIN C[n] = 0 .. n - 1
    BY <2>1, <2>4, <2>5, <2>6
  <2>8. n \in 0 .. N
    BY <1>2
  <2> QED
    BY <2>7, <2>8
<1>6. \A n \in 1 .. N : n - 1 \in S => n \in S
  BY <1>5
<1> HIDE DEF S
<1>7. k \in S
  BY <1>2, <1>4, <1>6, Induct DEF N
<1> QED
  BY <1>7 DEF S, C

\* Where a chunk goes.
Place(j, f) == IF j.kind = "indirect" THEN Cardinality(DOMAIN f) ELSE j.todo[1].at + j.done

\* Where the next block of an indirect file goes.
LEMMA PlaceIs ==
  ASSUME NEW j, NEW fs, PlanOK(j.kind, j.plan), Reading(j, fs), j.open, j.todo # <<>>, ~j.stopped
  PROVE  Place(j, fs[j.name]) = j.todo[1].at + j.done
<1> DEFINE k == Len(j.plan) - Len(j.todo)
           plan == j.plan
<1>1. CASE j.kind # "indirect"
  BY <1>1 DEF Place
<1>2. CASE j.kind = "indirect"
  <2>1. /\ plan \in Seq(Exts) /\ j.todo \in Seq(Exts) /\ k \in 0 .. Len(plan)
        /\ \A i \in 1 .. Len(j.todo) : j.todo[i] = plan[k + i]
        /\ j.done \in Nat /\ (j.done # 0 => j.done < j.todo[1].len)
        /\ fs[j.name] = Upto(plan, k, j.done)
    BY DEF Reading, PlanOK
  <2>2. 1 \in 1 .. Len(j.todo) /\ k + 1 \in 1 .. Len(plan) /\ k \in Nat /\ Len(plan) \in Nat
    <3> DEFINE a == Len(plan)
               b == Len(j.todo)
    <3> HIDE DEF Exts
    <3>1. b \in Nat \ {0} /\ a \in Nat
      BY <2>1
    <3>2. k = a - b /\ k \in 0 .. a
      BY <2>1
    <3> HIDE DEF a, b, k
    <3>3. 1 \in 1 .. b /\ k + 1 \in 1 .. a /\ k \in Nat
      BY <3>1, <3>2
    <3> QED
      BY <3>1, <3>3 DEF a, b
  <2> HIDE DEF k, plan
  <2>3. j.todo[1] = plan[k + 1]
    BY <2>1, <2>2
  <2>4. DOMAIN plan = 1 .. Len(plan)
    BY <2>1
  <2>5. plan[k + 1].at = (k + 1) - 1 /\ plan[k + 1].len = 1
    BY <1>2, <2>2, <2>4 DEF PlanOK, plan
  <2>6. j.done = 0
    BY <2>1, <2>3, <2>5
  <2>7. fs[j.name] = CopiesUpto(plan)[k]
    BY <2>1, <2>6, UptoNothing
  <2>8. DOMAIN fs[j.name] = 0 .. k - 1
    BY <1>2, <2>1, <2>7, IndirectDomain DEF plan
  <2>9. Cardinality(0 .. k - 1) = k
    <3>1. k - 1 \in Int /\ 0 \in Int
      BY <2>2
    <3>2. Cardinality(0 .. k - 1) = IF 0 > k - 1 THEN 0 ELSE k - 1 - 0 + 1
      BY <3>1, FS_Interval
    <3> QED
      BY <2>2, <3>2
  <2> QED
    BY <1>2, <2>2, <2>3, <2>5, <2>6, <2>8, <2>9 DEF Place
<1> QED
  BY <1>1, <1>2

\* The next extent of a job, and its next chunk.
LEMMA NextExtent ==
  ASSUME NEW j, NEW fs, PlanOK(j.kind, j.plan), Reading(j, fs), j.todo # <<>>
  PROVE  LET k == Len(j.plan) - Len(j.todo)
         IN /\ k \in 0 .. Len(j.plan) - 1 /\ j.todo[1] = j.plan[k + 1] /\ j.todo[1] \in Exts
            /\ j.todo[1] = NoWay \/ (Mapped(j.todo[1]) /\ j.done < j.todo[1].len)
            /\ k + 1 \in DOMAIN j.plan
            /\ j.kind # "inode" => Mapped(j.todo[1]) /\ InDevice(j.todo[1])
<1> DEFINE k == Len(j.plan) - Len(j.todo)
           plan == j.plan
           todo == j.todo
<1>1. /\ plan \in Seq(Exts) /\ todo \in Seq(Exts) /\ k = Len(plan) - Len(todo) /\ k \in 0 .. Len(plan)
      /\ \A i \in 1 .. Len(todo) : todo[i] = plan[k + i]
  BY DEF Reading, PlanOK
<1>2. k \in 0 .. Len(plan) - 1 /\ todo[1] = plan[k + 1] /\ todo[1] \in Exts
  <2> HIDE DEF k, plan, todo, Exts
  <2>0. todo # <<>>
    BY DEF todo
  <2> QED
    BY <1>1, <2>0, NextOfPlan
<1>3. k + 1 \in DOMAIN plan
  <2> HIDE DEF k, plan, todo, Exts
  <2>1. Len(plan) \in Nat /\ DOMAIN plan = 1 .. Len(plan)
    BY <1>1
  <2> QED
    BY <1>2, <2>1
<1>4. /\ plan[k + 1] = NoWay \/ Mapped(plan[k + 1])
      /\ j.kind # "inode" => Mapped(plan[k + 1]) /\ InDevice(plan[k + 1])
  BY <1>3 DEF PlanOK
<1>5. Mapped(todo[1]) => j.done < todo[1].len
  <2>1. j.done \in Nat /\ (j.done # 0 => j.done < todo[1].len)
    BY DEF Reading
  <2>2. todo[1].len \in Nat /\ (Mapped(todo[1]) => todo[1].len # 0)
    BY <1>2 DEF Exts, Mapped
  <2> QED
    BY <2>1, <2>2
<1> QED
  BY <1>2, <1>3, <1>4, <1>5

\* A chunk has blocks, and no more than the extent has left.
LEMMA ChunkSize ==
  ASSUME NEW e \in Exts, Mapped(e), NEW d \in Nat, d < e.len,
         NEW t, t = ChunkLen(e, d),
         \A b \in e.start + d .. e.start + d + t - 1 : b \in Blocks
  PROVE  /\ t \in Nat \ {0} /\ d + t <= e.len /\ e.start + d + t <= TotalBlocks
         /\ d + t # e.len => t = Chunk
<1> DEFINE n == e.len
           s == e.start
<1>1. Chunk \in Nat \ {0} /\ TotalBlocks \in Nat /\ n \in Nat /\ s \in Nat
  BY RunAssumption, TreeAssumption DEF Exts
<1>2. t = IF n - d > Chunk THEN Chunk ELSE n - d
  BY DEF ChunkLen
<1>3. \A b \in s + d .. s + d + t - 1 : b \in 1 .. TotalBlocks - 1
  BY DEF Blocks
<1>4. d < n
  OBVIOUS
<1> HIDE DEF n, s
<1>5. t \in Nat \ {0} /\ d + t <= n /\ (d + t # n => t = Chunk)
  BY <1>1, <1>2, <1>4
<1>6. s + d + t - 1 \in s + d .. s + d + t - 1
  BY <1>1, <1>5
<1>7. s + d + t - 1 \in 1 .. TotalBlocks - 1
  BY <1>3, <1>6
<1>8. s + d + t <= TotalBlocks
  BY <1>1, <1>5, <1>7
<1> QED
  BY <1>5, <1>8 DEF n, s

\* A chunk is copied.
LEMMA ReadingChunk ==
  ASSUME NEW j, NEW fs, NEW gs, DOMAIN j = JobFields, PlanOK(j.kind, j.plan), Reading(j, fs), j.open,
         j.todo # <<>>, j.todo[1] # NoWay,
         NEW t, t = ChunkLen(j.todo[1], j.done),
         \A b \in j.todo[1].start + j.done .. j.todo[1].start + j.done + t - 1 : b \in Blocks,
         j.name \in DOMAIN gs,
         ~j.stopped => gs[j.name] = Overlay(fs[j.name], Filling(j.todo[1], j.done, t))
  PROVE  LET o == IF j.done + t = j.todo[1].len
                  THEN [j EXCEPT !.todo = Tail(@), !.done = 0, !.ok = @ + j.todo[1].len]
                  ELSE [j EXCEPT !.done = @ + t]
         IN Reading(o, gs) /\ (j.done + t = j.todo[1].len => InDevice(j.todo[1]))
<1> DEFINE e == j.todo[1]
           d == j.done
           plan == j.plan
           todo == j.todo
           k == Len(plan) - Len(todo)
           o == IF d + t = e.len THEN [j EXCEPT !.todo = Tail(@), !.done = 0, !.ok = @ + e.len]
                ELSE [j EXCEPT !.done = @ + t]
           l == Len(plan) - Len(o.todo)
           f == fs[j.name]
           g == Overlay(f, Filling(e, d, t))
<1>1. Along(j, Clean({})) /\ Holding(j, f, {})
  BY ReadingAlong
<1>2. Along(o, Clean({})) /\ Holding(o, g, {})
  BY <1>1, AlongChunk
<1>3. /\ k \in 0 .. Len(plan) - 1 /\ e = plan[k + 1] /\ e \in Exts /\ Mapped(e) /\ d < e.len
      /\ k + 1 \in DOMAIN plan
  BY NextExtent
<1>4. d \in Nat
  BY DEF Reading
<1>5. /\ t \in Nat \ {0} /\ d + t <= e.len /\ e.start + d + t <= TotalBlocks
      /\ d + t # e.len => t = Chunk
  <2> HIDE DEF e, d
  <2>1. \A b \in e.start + d .. e.start + d + t - 1 : b \in Blocks
    BY DEF e, d
  <2>2. t = ChunkLen(e, d)
    BY DEF e, d
  <2> QED
    BY <1>3, <1>4, <2>1, <2>2, ChunkSize
<1>6. d + t = e.len => InDevice(e)
  <2> DEFINE s == e.start
             n == e.len
  <2>1. s \in Nat /\ n \in Nat /\ s + d + t <= TotalBlocks /\ TotalBlocks \in Nat
    BY <1>3, <1>5, TreeAssumption DEF Exts
  <2> HIDE DEF s, n
  <2>2. d + t = n => s + n <= TotalBlocks
    BY <1>4, <1>5, <2>1
  <2> QED
    BY <2>2 DEF s, n, InDevice
<1>7. /\ o.plan = plan /\ o.open /\ o.stopped = j.stopped /\ o.name = j.name
      /\ o.todo = IF d + t = e.len THEN Tail(todo) ELSE todo
      /\ o.done = IF d + t = e.len THEN 0 ELSE d + t
  BY Fields
<1>8. /\ ~j.stopped => \A i \in 1 .. k : Mapped(plan[i]) /\ InDevice(plan[i])
      /\ d # 0 => \E c \in 0 .. d : d = Chunk * c
  BY DEF Reading
<1> HIDE DEF o, g, f
<1>9. /\ plan \in Seq(Exts) /\ o.todo \in Seq(Exts) /\ l \in 0 .. Len(plan)
      /\ \A i \in 1 .. Len(o.todo) : o.todo[i] = plan[l + i]
      /\ o.done \in Nat
      /\ ~o.stopped => o.ok = LengthUpto(plan)[l]
      /\ ~o.stopped => g = Upto(plan, l, o.done)
  <2>1. o.plan = plan
    BY <1>7
  <2> QED
    BY <1>2, <2>1, AllClean DEF Along, Holding
<1>10. (d + t = e.len => l = k + 1) /\ (d + t # e.len => l = k)
  <2> DEFINE a == Len(plan)
             b == Len(todo)
             c == Len(o.todo)
  <2>1. plan \in Seq(Exts) /\ todo \in Seq(Exts) /\ todo # <<>>
    BY DEF PlanOK, Reading
  <2>2. a \in Nat /\ b \in Nat /\ Len(Tail(todo)) = b - 1
    <3> HIDE DEF plan, todo, Exts
    <3> QED
      BY <2>1
  <2>3. (d + t = e.len => c = b - 1) /\ (d + t # e.len => c = b)
    <3> HIDE DEF plan, todo, e, d
    <3> QED
      BY <1>7, <2>2
  <2>4. k = a - b /\ l = a - c
    OBVIOUS
  <2> HIDE DEF e, d, a, b, c, k, l
  <2> QED
    BY <2>2, <2>3, <2>4
<1>11. ~o.stopped => \A i \in 1 .. l : Mapped(plan[i]) /\ InDevice(plan[i])
  <2> HIDE DEF l, k
  <2>1. CASE d + t = e.len
    <3>1. l = k + 1 /\ k \in Nat
      BY <1>3, <1>10, <2>1
    <3>2. \A i \in 1 .. l : i \in 1 .. k \/ i = k + 1
      BY <3>1
    <3>3. Mapped(plan[k + 1]) /\ InDevice(plan[k + 1])
      BY <1>3, <1>6, <2>1
    <3> QED
      BY <1>7, <1>8, <3>2, <3>3
  <2>2. CASE d + t # e.len
    BY <1>7, <1>8, <1>10, <2>2
  <2> QED
    BY <2>1, <2>2
<1>12. o.done # 0 => /\ o.todo # <<>> /\ o.done < o.todo[1].len
                     /\ o.todo[1].start + o.done <= TotalBlocks
                     /\ \E c \in 0 .. o.done : o.done = Chunk * c
  <2> SUFFICES ASSUME o.done # 0
               PROVE  /\ o.todo # <<>> /\ o.done < o.todo[1].len
                      /\ o.todo[1].start + o.done <= TotalBlocks
                      /\ \E c \in 0 .. o.done : o.done = Chunk * c
    OBVIOUS
  <2>1. d + t # e.len /\ o.done = d + t /\ o.todo = todo
    BY <1>7
  <2>2. t = Chunk /\ Chunk \in Nat \ {0}
    BY <1>5, <2>1, RunAssumption
  <2> DEFINE s == e.start
             n == e.len
  <2>3. s \in Nat /\ n \in Nat /\ d + t < n /\ s + (d + t) <= TotalBlocks
    <3>1. s \in Nat /\ n \in Nat /\ s + d + t <= TotalBlocks /\ d + t <= n /\ d + t # n /\ TotalBlocks \in Nat
      BY <1>3, <1>5, <2>1, TreeAssumption DEF Exts
    <3> HIDE DEF s, n
    <3> QED
      BY <1>4, <1>5, <3>1
  <2>4. \E c \in 0 .. d + t : d + t = Chunk * c
    <3>1. PICK c \in 0 .. d : d = Chunk * c
      <4>1. CASE d = 0
        <5>1. 0 \in 0 .. d /\ d = Chunk * 0
          BY <2>2, <4>1
        <5> QED
          BY <5>1
      <4>2. CASE d # 0
        BY <1>8, <4>2
      <4> QED
        BY <4>1, <4>2
    <3> HIDE DEF d
    <3>2. c + 1 \in 0 .. d + t
      BY <1>4, <2>2, <3>1
    <3>3. Chunk * (c + 1) = Chunk * c + Chunk
      BY <2>2, <3>1
    <3> QED
      BY <1>4, <2>2, <3>1, <3>2, <3>3
  <2> QED
    BY <2>1, <2>3, <2>4
<1>13. o.open /\ o.name \in DOMAIN gs /\ (~o.stopped => gs[o.name] = g)
  BY <1>7 DEF g, f
<1>14. Reading(o, gs)
  <2>1. o.plan = plan
    BY <1>7
  <2> HIDE DEF plan, l
  <2>2. l = Len(o.plan) - Len(o.todo)
    BY <2>1 DEF l
  <2> QED
    BY <1>9, <1>11, <1>12, <1>13, <2>1, <2>2 DEF Reading
<1> QED
  BY <1>6, <1>14 DEF o

\* A chunk cannot be copied.
LEMMA ReadingFails ==
  ASSUME NEW j, NEW fs, NEW gs, DOMAIN j = JobFields, PlanOK(j.kind, j.plan), Reading(j, fs), j.open,
         j.todo # <<>>, j.name \in DOMAIN gs
  PROVE  Reading([j EXCEPT !.todo = IF j.kind = "inode" THEN <<>> ELSE Tail(@), !.done = 0,
                           !.stopped = TRUE], gs)
<1> DEFINE plan == j.plan
           todo == j.todo
           k == Len(plan) - Len(todo)
           o == [j EXCEPT !.todo = IF j.kind = "inode" THEN <<>> ELSE Tail(@), !.done = 0,
                          !.stopped = TRUE]
           l == Len(plan) - Len(o.todo)
<1>1. /\ plan \in Seq(Exts) /\ todo \in Seq(Exts) /\ k = Len(plan) - Len(todo) /\ k \in 0 .. Len(plan)
      /\ \A i \in 1 .. Len(todo) : todo[i] = plan[k + i]
  BY DEF Reading, PlanOK
<1>2. /\ Tail(todo) \in Seq(Exts) /\ Len(plan) - Len(Tail(todo)) = k + 1 /\ k + 1 \in 0 .. Len(plan)
      /\ \A i \in 1 .. Len(Tail(todo)) : Tail(todo)[i] = plan[k + 1 + i]
  <2>0. todo # <<>>
    OBVIOUS
  <2> HIDE DEF k, plan, todo, Exts
  <2> QED
    BY <1>1, <2>0, NextOfPlan
<1>3. /\ o.plan = plan /\ o.open /\ o.stopped /\ o.name = j.name /\ o.done = 0
      /\ o.todo = IF j.kind = "inode" THEN <<>> ELSE Tail(todo)
  BY Fields
<1> HIDE DEF o
<1>4. /\ o.todo \in Seq(Exts) /\ l \in 0 .. Len(plan)
      /\ \A i \in 1 .. Len(o.todo) : o.todo[i] = plan[l + i]
  <2> HIDE DEF plan, todo, k, Exts
  <2>1. CASE j.kind = "inode"
    <3>1. o.todo = <<>> /\ Len(o.todo) = 0
      BY <1>3, <2>1
    <3>2. Len(plan) \in Nat
      BY <1>1
    <3> DEFINE a == Len(plan)
    <3>3. a - 0 \in 0 .. a /\ \A i \in 1 .. 0 : FALSE
      <4> HIDE DEF a
      <4>1. a \in Nat
        BY <3>2 DEF a
      <4> QED
        BY <4>1
    <3>4. o.todo \in Seq(Exts)
      BY <3>1
    <3> QED
      BY <3>1, <3>3, <3>4
  <2>2. CASE j.kind # "inode"
    <3>1. o.todo = Tail(todo)
      BY <1>3, <2>2
    <3>2. l = k + 1
      BY <1>2, <3>1
    <3> HIDE DEF l
    <3> QED
      BY <1>2, <3>1, <3>2
  <2> QED
    BY <2>1, <2>2
<1> HIDE DEF plan, l
<1>5. l = Len(o.plan) - Len(o.todo) /\ o.plan = plan
  BY <1>3 DEF l
<1>6. Reading(o, gs)
  <2>1. o.done \in Nat /\ ~(o.done # 0) /\ o.open /\ o.stopped /\ o.name \in DOMAIN gs
    BY <1>3
  <2> HIDE DEF todo
  <2>2. o.todo \in Seq(Exts) /\ Len(o.plan) - Len(o.todo) \in 0 .. Len(o.plan)
        /\ \A i \in 1 .. Len(o.todo) : o.todo[i] = o.plan[Len(o.plan) - Len(o.todo) + i]
    BY <1>4, <1>5, Zenon
  <2> QED
    BY <2>1, <2>2, Zenon DEF Reading
<1> QED
  BY <1>6 DEF o

\* A new job.
Starts(dev, j) ==
    \E kind, src, name, plan, size : j = Job(kind, src, name, plan, size) /\ JobOK(dev, j)

\* A job that starts has read nothing.
LEMMA StartsReading ==
  ASSUME NEW dev, NEW j, NEW fs, Starts(dev, j)
  PROVE  j # NoJob /\ JobOK(dev, j) /\ Reading(j, fs)
<1>1. PICK kind, src, name, plan, size : j = Job(kind, src, name, plan, size) /\ JobOK(dev, j)
  BY DEF Starts
<1>2. j.kind = kind /\ j.plan = plan /\ j # NoJob
  BY <1>1, Fields
<1>3. PlanOK(kind, plan)
  BY <1>1, <1>2 DEF JobOK
<1> QED
  BY <1>1, <1>2, <1>3, NewReading

\* Jobs other than those for revoked blocks.
LEMMA StartsElse ==
  ASSUME NEW dev, NEW kind \in JobKinds \ {"targeted", "probe"}, NEW src \in Nat, NEW name, NEW plan, NEW size,
         PlanOK(kind, plan), name[1] \in Kinds \ {"targeted"}, kind = "journal" <=> name[1] = "tmp",
         kind \in {"tree", "leaf"} => src \in Blocks
  PROVE  Starts(dev, Job(kind, src, name, plan, size))
<1> DEFINE j == Job(kind, src, name, plan, size)
<1>1. DOMAIN j = JobFields /\ j.kind = kind /\ j.src = src /\ j.name = name /\ j.plan = plan
  BY Fields
<1> HIDE DEF j
<1>2. JobOK(dev, j)
  BY <1>1 DEF JobOK
<1> QED
  BY <1>2 DEF Starts, j

\* Jobs for revoked blocks.
LEMMA StartsTargeted ==
  ASSUME NEW dev, NEW kind \in {"targeted", "probe"}, NEW b \in Blocks, NEW plan, NEW size,
         PlanOK(kind, plan), kind = "targeted" <=> read_tree_block_versioned(dev, b).depth = 0
  PROVE  Starts(dev, Job(kind, b, <<"targeted", b>>, plan, size))
<1> DEFINE name == <<"targeted", b>>
           j == Job(kind, b, name, plan, size)
<1>1. DOMAIN j = JobFields /\ j.kind = kind /\ j.src = b /\ j.name = name /\ j.plan = plan
  BY Fields
<1>2. b \in Nat
  BY TreeAssumption DEF Blocks
<1>3. name[1] = "targeted"
  OBVIOUS
<1> HIDE DEF j, name
<1>4. JobOK(dev, j)
  BY <1>1, <1>2, <1>3 DEF JobOK, JobKinds, Kinds, name
<1> QED
  BY <1>4 DEF Starts, j, name

\* Nothing to read is a plan of every kind.
LEMMA EmptyPlan == \A kind : PlanOK(kind, <<>>)
<1>1. <<>> \in Seq(Exts) /\ DOMAIN <<>> = {}
  OBVIOUS
<1> QED
  BY <1>1 DEF PlanOK

\* The job of an inode.
LEMMA StartInodeStarts ==
  ASSUME disk \in Disks, NEW ino \in 1 .. InodesCount, StartInode(ino)
  PROVE  job' = job \/ Starts(disk, job')
<1> DEFINE i == disk.inodes[ino]
           name == <<"out", Resolved(ino)>>
           plan == TravelPlan(disk, i)
<1>1. job' = job \/ (Travelable(i) /\ job' = Job("inode", ino, name, plan, 0))
  BY DEF StartInode
<1>2. CASE Travelable(i) /\ job' = Job("inode", ino, name, plan, 0)
  <2>1. plan \in Seq(Steps)
    BY <1>2, TravelPlanType
  <2>2. PlanOK("inode", plan)
    BY <2>1, StepsPlan
  <2>3. name[1] = "out"
    OBVIOUS
  <2> HIDE DEF name, plan
  <2>4. Starts(disk, Job("inode", ino, name, plan, 0))
    BY <2>2, <2>3, StartsElse DEF JobKinds, Kinds
  <2> QED
    BY <1>2, <2>4
<1> QED
  BY <1>1, <1>2

\* The job of an orphaned tree.
LEMMA StartTreeStarts ==
  ASSUME disk \in Disks, NEW b \in Blocks, NEW h, h.slots \in Seq(Slots), StartTree(b, h)
  PROVE  job' = NoJob \/ Starts(disk, job')
<1> DEFINE w == walk_extent_tree(disk, h)
           name == <<"tree", b>>
           plan == TreePlan(w.exts)
<1>1. job' = NoJob \/ job' = Job("tree", b, name, plan, 0)
  BY DEF StartTree
<1>2. w \in Walks
  BY WalkTreeType
<1>3. w.exts \in Seq(Uses)
  <2> HIDE DEF w
  <2> QED
    BY <1>2 DEF Walks
<1>4. plan \in Seq(Solid)
  BY <1>3, TreePlanSolid
<1>5. PlanOK("tree", plan)
  BY <1>4, SolidPlan
<1>6. name[1] = "tree" /\ b \in Nat
  BY TreeAssumption DEF Blocks
<1> HIDE DEF name, plan
<1>7. Starts(disk, Job("tree", b, name, plan, 0))
  BY <1>5, <1>6, StartsElse DEF JobKinds, Kinds
<1> QED
  BY <1>1, <1>7

\* The job of a leaf.
LEMMA StartLeafStarts ==
  ASSUME NEW b \in Blocks, NEW h, h.slots \in Seq(Slots), StartLeaf(b, h)
  PROVE  job' = NoJob \/ Starts(disk, job')
<1> DEFINE name == <<"leaf", b>>
           plan == LeafPlan(h)
<1>1. job' = NoJob \/ job' = Job("leaf", b, name, plan, 0)
  BY DEF StartLeaf
<1>4. plan \in Seq(Solid)
  BY LeafPlanSolid
<1>5. PlanOK("leaf", plan)
  BY <1>4, SolidPlan
<1>6. name[1] = "leaf" /\ b \in Nat
  BY TreeAssumption DEF Blocks
<1> HIDE DEF name, plan
<1>7. Starts(disk, Job("leaf", b, name, plan, 0))
  BY <1>5, <1>6, StartsElse DEF JobKinds, Kinds
<1> QED
  BY <1>1, <1>7

\* The copies of inodes in the journal.
LEMMA JournalCopyStarts ==
  ASSUME JournalInv, disk \in Disks, JournalCopy
  PROVE  job' = job \/ job' = NoJob \/ Starts(disk, job')
<1> DEFINE c == disk.copies[pos]
<1>1. /\ phase = "journal" /\ pos <= Len(disk.copies)
      /\ \/ Pass
         \/ c.kind = "extents" /\ FromExtents(c)
         \/ c.kind # "extents" /\ FromInode(c)
  <2>1. phase = "journal" /\ ~Over
    BY DEF JournalCopy, Turn
  <2>2. pos \in Nat \ {0} /\ disk.copies \in Seq(InodeCopies)
    BY <2>1, DisksAssumption DEF JournalInv, DiskOK
  <2>3. Len(disk.copies) \in Nat /\ ~(pos > Len(disk.copies))
    <3>1. ~(pos > Len(disk.copies))
      BY <2>1 DEF Over
    <3> DEFINE x == disk.copies
               C == InodeCopies
    <3> HIDE DEF x, C
    <3>2. x \in Seq(C)
      BY <2>2 DEF x, C
    <3> QED
      BY <3>1, <3>2 DEF x
  <2>4. pos <= Len(disk.copies)
    BY <2>2, <2>3
  <2>5. \/ Pass
        \/ c.kind = "extents" /\ FromExtents(c)
        \/ c.kind # "extents" /\ FromInode(c)
    BY DEF JournalCopy
  <2> QED
    BY <2>1, <2>4, <2>5
<1>2. pos \in DOMAIN disk.copies /\ c \in InodeCopies
  <2>1. pos \in Nat \ {0} /\ disk.copies \in Seq(InodeCopies)
    BY <1>1, DisksAssumption DEF JournalInv, DiskOK
  <2> DEFINE x == disk.copies
             C == InodeCopies
  <2>2. x \in Seq(C) /\ pos <= Len(x)
    BY <1>1, <2>1
  <2> HIDE DEF x, C
  <2>3. pos \in DOMAIN x /\ x[pos] \in C
    BY <2>1, <2>2
  <2> QED
    BY <2>3 DEF x, C
<1>3. /\ c.ino \in Nat /\ c.kind \in {"extents", "inline", "indirect"} /\ c.ptrs \in Seq(Nat)
      /\ c.kind = "indirect" => Len(c.ptrs) >= NDirect + 2
  <2>1. c.kind = "indirect" => Len(c.ptrs) >= NDirect + 2
    <3>1. c.kind = "indirect" => Len(c.ptrs) = NDirect + 3
      BY <1>2, DisksAssumption DEF DiskOK
    <3> QED
      BY <3>1, TreeAssumption
  <2>2. c.ino \in 1 .. InodesCount /\ c.kind \in {"extents", "inline", "indirect"} /\ c.ptrs \in Seq(Nat)
    <3> HIDE DEF c
    <3> QED
      BY <1>2 DEF InodeCopies
  <2>3. c.ino \in Nat
    BY <2>2, NamesAssumption
  <2> QED
    BY <2>1, <2>2, <2>3
<1>4. CASE Pass
  BY <1>4 DEF Pass
<1>5. CASE c.kind = "extents" /\ FromExtents(c)
  <2> DEFINE plan == JournalPlan(AsOf(c), c)
             name == JournalName(c.ino)
  <2>1. job' = job \/ job' = Job("journal", c.ino, name, plan, c.size)
    BY <1>5 DEF FromExtents, Pass
  <2>2. plan \in Seq(Solid)
    BY <1>2, JournalPlanSolid
  <2>3. PlanOK("journal", plan)
    BY <2>2, SolidPlan
  <2>4. name[1] = "tmp"
    BY DEF JournalName
  <2> HIDE DEF name, plan
  <2>5. Starts(disk, Job("journal", c.ino, name, plan, c.size))
    BY <1>3, <2>3, <2>4, StartsElse DEF JobKinds, Kinds
  <2> QED
    BY <2>1, <2>5
<1>6. CASE c.kind # "extents" /\ FromInode(c)
  <2> DEFINE plan == IF c.kind = "inline" THEN <<>> ELSE IndirectPlan(disk, c.ptrs)
             name == <<IF c.kind = "inline" THEN "inline" ELSE "ind", Resolved(c.ino)>>
  <2>1. job' = NoJob \/ job' = Job(c.kind, c.ino, name, plan, c.size)
    BY <1>6 DEF FromInode
  <2>2. c.kind \in {"inline", "indirect"}
    BY <1>3, <1>6
  <2>3. PlanOK(c.kind, plan)
    BY <1>3, <2>2, EmptyPlan, IndirectPlanOK
  <2>4. name[1] \in {"inline", "ind"}
    OBVIOUS
  <2> HIDE DEF name, plan
  <2>5. Starts(disk, Job(c.kind, c.ino, name, plan, c.size))
    BY <1>3, <2>2, <2>3, <2>4, StartsElse DEF JobKinds, Kinds
  <2> QED
    BY <2>1, <2>5
<1> QED
  BY <1>1, <1>4, <1>5, <1>6

PosOK(dev, ph, p) == p \in Nat /\ (ph = "orphan" /\ ~dev.has_orphan_file => p <= InodesCount)

\* Where a phase is when it has not ended.
LEMMA OrphanTurn ==
  ASSUME JobInv, disk \in Disks, OrphanChain
  PROVE  pos \in 1 .. InodesCount /\ PosOK(disk, "orphan", pos')
<1>1. phase = "orphan" /\ ~disk.has_orphan_file /\ ~Over
  BY DEF OrphanChain, Turn
<1>2. pos # 0
  BY <1>1 DEF Over
<1>3. pos \in Nat /\ pos <= InodesCount /\ InodesCount \in Nat
  BY <1>1, NamesAssumption DEF JobInv
<1>4. pos \in 1 .. InodesCount
  BY <1>2, <1>3
<1> DEFINE i == disk.inodes[pos]
<1>5. disk.inodes \in [1 .. InodesCount -> DiskInodes]
  BY DisksAssumption DEF DiskOK
<1>6. i \in DiskInodes
  BY <1>4, <1>5
<1>7. pos' = IF ~i.readable \/ i.next > InodesCount THEN 0 ELSE i.next
  BY DEF OrphanChain
<1> HIDE DEF i
<1>8. i.next \in Nat
  BY <1>6 DEF DiskInodes
<1> DEFINE n == i.next
<1>9. pos' = 0 \/ (pos' = n /\ ~(n > InodesCount))
  BY <1>7
<1>10. n \in Nat
  BY <1>8
<1> HIDE DEF n
<1>11. pos' \in Nat /\ pos' <= InodesCount
  BY <1>3, <1>9, <1>10
<1> QED
  BY <1>4, <1>11 DEF PosOK

\* A turn of the normal phase.
LEMMA NormalTurn ==
  ASSUME JobInv, NormalInode
  PROVE  pos \in Nat /\ (pos >= 3 => pos \in 1 .. InodesCount)
<1>1. phase = "normal" /\ ~Over
  BY DEF NormalInode, Turn
<1>2. ~(pos > InodesCount)
  BY <1>1 DEF Over
<1>3. pos \in Nat /\ InodesCount \in Nat
  BY NamesAssumption DEF JobInv
<1> QED
  BY <1>2, <1>3

\* The next block with a header.
LEMMA ScanTurn ==
  ASSUME disk \in Disks, ScanBlock
  PROVE  \E b \in Blocks :
           /\ pos' = b + 1 /\ b \notin disk.bad /\ disk.node[b].slots \in Seq(Slots)
           /\ \/ UNCHANGED <<job, marks>>
              \/ StartLeaf(b, disk.node[b])
              \/ StartTree(b, disk.node[b])
<1> DEFINE hits == {b \in Blocks : b >= pos /\ b \notin disk.bad /\ disk.node[b].magic}
           b == CHOOSE x \in hits : \A c \in hits : x <= c
<1>1. phase = "aggressive" /\ ~Over
  BY DEF ScanBlock, Turn
<1>2. ~ \A x \in Blocks : x >= pos => x \in disk.bad \/ ~disk.node[x].magic
  BY <1>1 DEF Over
<1>3. hits # {} /\ hits \subseteq Nat
  <2>1. Blocks \subseteq Nat
    BY TreeAssumption DEF Blocks
  <2> QED
    BY <1>2, <2>1
<1>4. \E x \in hits : \A c \in hits : x <= c
  <2> HIDE DEF hits
  <2> QED
    BY <1>3, LeastOf
<1>5. b \in hits
  <2> HIDE DEF hits
  <2> QED
    BY <1>4
<1>6. b \in Blocks /\ b \notin disk.bad
  <2> HIDE DEF b
  <2> QED
    BY <1>5
<1>7. disk.node[b].slots \in Seq(Slots)
  <2>1. disk.node \in [Blocks -> Headers]
    BY DisksAssumption DEF DiskOK
  <2> HIDE DEF b
  <2>2. disk.node[b] \in Headers
    BY <1>6, <2>1
  <2> QED
    BY <2>2 DEF Headers
<1>8. /\ pos' = b + 1
      /\ \/ UNCHANGED <<job, marks>>
         \/ StartLeaf(b, disk.node[b])
         \/ StartTree(b, disk.node[b])
  BY DEF ScanBlock
<1> HIDE DEF b
<1> QED
  BY <1>6, <1>7, <1>8

\* A revoked block.
LEMMA RevokedStarts ==
  ASSUME disk \in Disks, RevokedBlock
  PROVE  job' = job \/ Starts(disk, job')
<1> DEFINE b == disk.revoked[pos]
           h == read_tree_block_versioned(disk, b)
           plan == ClearedPlan(h.slots)
<1>1. \/ job' = job
      \/ /\ b \in 2 .. TotalBlocks - 1
         /\ job' = IF h.depth = 0 THEN Job("targeted", b, <<"targeted", b>>, plan, 0)
                   ELSE Job("probe", b, <<"targeted", b>>, <<>>, 0)
  BY DEF RevokedBlock
<1>2. CASE /\ b \in 2 .. TotalBlocks - 1
           /\ job' = IF h.depth = 0 THEN Job("targeted", b, <<"targeted", b>>, plan, 0)
                     ELSE Job("probe", b, <<"targeted", b>>, <<>>, 0)
  <2>1. b \in Blocks
    <3> HIDE DEF b
    <3> QED
      BY <1>2, TreeAssumption DEF Blocks
  <2>2. h.slots \in Seq(Slots)
    BY <2>1, VersionSlots
  <2>3. plan \in Seq(Solid)
    BY <2>2, ClearedPlanSolid
  <2>4. PlanOK("targeted", plan) /\ PlanOK("probe", <<>>)
    BY <2>3, SolidPlan, EmptyPlan
  <2> HIDE DEF b, plan
  <2>5. CASE h.depth = 0
    <3>1. job' = Job("targeted", b, <<"targeted", b>>, plan, 0)
      BY <1>2, <2>5
    <3>2. "targeted" = "targeted" <=> read_tree_block_versioned(disk, b).depth = 0
      BY <2>5
    <3> QED
      BY <2>1, <2>4, <3>1, <3>2, StartsTargeted
  <2>6. CASE h.depth # 0
    <3>1. job' = Job("probe", b, <<"targeted", b>>, <<>>, 0)
      BY <1>2, <2>6
    <3>2. "probe" = "targeted" <=> read_tree_block_versioned(disk, b).depth = 0
      BY <2>6
    <3> QED
      BY <2>1, <2>4, <3>1, <3>2, StartsTargeted
  <2> QED
    BY <2>5, <2>6
<1> QED
  BY <1>1, <1>2

\* A turn of a loop starts a job, or none.
LEMMA LoopingStarts ==
  ASSUME JobInv, JournalInv, disk \in Disks, Looping
  PROVE  /\ job' = job \/ job' = NoJob \/ Starts(disk, job')
         /\ PosOK(disk, phase', pos')
         /\ UNCHANGED <<disk, files, checkpoint, manifest, covered, owner, planned>> /\ job = NoJob
         /\ phase' = phase
<1>0. UNCHANGED <<disk, files, checkpoint, manifest, covered, owner, planned, phase>> /\ job = NoJob
  BY DEF Looping, OrphanChain, OrphanFile, JournalCopy, NormalInode, ScanBlock, RevokedBlock, Turn, dirvars
<1>1. CASE OrphanChain
  <2>1. (StartInode(pos) \/ Pass) /\ phase = "orphan"
    BY <1>1 DEF OrphanChain, Turn
  <2>2. pos \in 1 .. InodesCount /\ PosOK(disk, "orphan", pos')
    BY <1>1, OrphanTurn
  <2>3. job' = job \/ Starts(disk, job')
    BY <2>1, <2>2, StartInodeStarts DEF Pass
  <2> QED
    BY <1>0, <2>1, <2>2, <2>3
<1>2. CASE OrphanFile
  <2> DEFINE ino == disk.orphan_file[pos]
  <2>1. ((ino \in 1 .. InodesCount /\ StartInode(ino)) \/ Pass) /\ phase = "orphan" /\ pos' = pos + 1 /\ disk.has_orphan_file
    BY <1>2 DEF OrphanFile, Turn
  <2>2. job' = job \/ Starts(disk, job')
    BY <2>1, StartInodeStarts DEF Pass
  <2>3. pos' \in Nat
    BY <2>1 DEF JobInv
  <2> QED
    BY <1>0, <2>1, <2>2, <2>3 DEF PosOK
<1>3. CASE NormalInode
  <2>1. /\ (pos >= 3 /\ StartInode(pos)) \/ Pass
        /\ phase = "normal" /\ pos' \in {pos + 1, InodesCount + 1}
    BY <1>3 DEF NormalInode, Turn
  <2>2. pos \in Nat /\ (pos >= 3 => pos \in 1 .. InodesCount)
    BY <1>3, NormalTurn
  <2>3. job' = job \/ Starts(disk, job')
    BY <2>1, <2>2, StartInodeStarts DEF Pass
  <2>4. pos' \in Nat
    BY <2>1, <2>2, NamesAssumption
  <2> QED
    BY <1>0, <2>1, <2>3, <2>4 DEF PosOK
<1>4. CASE JournalCopy
  <2>1. phase = "journal" /\ pos' = pos + 1
    BY <1>4 DEF JournalCopy, Turn
  <2>2. pos' \in Nat
    BY <2>1 DEF JobInv
  <2> QED
    BY <1>0, <1>4, <2>1, <2>2, JournalCopyStarts DEF PosOK
<1>5. CASE ScanBlock
  <2>0. phase = "aggressive"
    BY <1>5 DEF ScanBlock, Turn
  <2>1. PICK b \in Blocks :
           /\ pos' = b + 1 /\ b \notin disk.bad /\ disk.node[b].slots \in Seq(Slots)
           /\ \/ UNCHANGED <<job, marks>>
              \/ StartLeaf(b, disk.node[b])
              \/ StartTree(b, disk.node[b])
    BY <1>5, ScanTurn
  <2>2. pos' \in Nat
    BY <2>1, TreeAssumption DEF Blocks
  <2>3. job' = job \/ job' = NoJob \/ Starts(disk, job')
    BY <2>1, StartLeafStarts, StartTreeStarts
  <2> QED
    BY <1>0, <2>0, <2>2, <2>3 DEF PosOK
<1>6. CASE RevokedBlock
  <2>1. phase = "targeted" /\ pos' = pos + 1
    BY <1>6 DEF RevokedBlock, Turn
  <2>2. pos' \in Nat
    BY <2>1 DEF JobInv
  <2> QED
    BY <1>0, <1>6, <2>1, <2>2, RevokedStarts DEF PosOK
<1> QED
  BY <1>1, <1>2, <1>3, <1>4, <1>5, <1>6 DEF Looping

\* The outputs stay, and at most another job is begun.
LEMMA JobBegun ==
  ASSUME JobInv, UNCHANGED <<disk, planned>>, PosOK(disk, phase', pos'),
         (job' = job /\ UNCHANGED files) \/ job' = NoJob \/ Starts(disk, job')
  PROVE  JobInv'
<1>1. job' # NoJob => JobOK(disk', job') /\ Reading(job', files')
  <2>1. CASE job' = job /\ UNCHANGED files
    BY <2>1 DEF JobInv
  <2>2. CASE Starts(disk, job')
    BY <2>2, StartsReading
  <2> QED
    BY <2>1, <2>2
<1>2. PlannedNames(disk', DOMAIN planned')
  BY DEF JobInv
<1> QED
  BY <1>1, <1>2 DEF JobInv, PosOK

\* The open job goes on.
LEMMA JobGoesAlong ==
  ASSUME NEW dev, NEW j, NEW o, NEW F \in SUBSET {"open", "todo", "done", "ok", "stopped"},
         JobOK(dev, j), Updated(j, o, F)
  PROVE  JobOK(dev, o)
<1>1. DOMAIN o = JobFields /\ o.kind = j.kind /\ o.src = j.src /\ o.name = j.name /\ o.plan = j.plan
  BY Fields DEF Updated
<1> QED
  BY <1>1 DEF JobOK

\* The empty file a job begins with.
LEMMA ReadingOpened ==
  ASSUME NEW j, NEW fs, NEW gs, DOMAIN j = JobFields, PlanOK(j.kind, j.plan), Reading(j, fs), ~j.open,
         j.name \in DOMAIN gs, gs[j.name] = NoFile
  PROVE  Reading([j EXCEPT !.open = TRUE], gs)
<1> DEFINE o == [j EXCEPT !.open = TRUE]
           k == Len(j.plan) - Len(j.todo)
<1>1. /\ o.plan = j.plan /\ o.todo = j.todo /\ o.name = j.name /\ o.done = j.done /\ o.ok = j.ok
      /\ o.stopped = j.stopped /\ o.open
  BY Fields
<1>2. j.plan \in Seq(Exts) /\ Len(j.plan) \in Nat
  BY DEF PlanOK
<1>3. k = 0 /\ j.done = 0 /\ ~j.stopped
  BY DEF Reading
<1>4. 0 \in 0 .. Len(j.plan)
  BY <1>2
<1>5. Upto(j.plan, 0, 0) = NoFile
  BY <1>2, <1>4, UptoNothing, CopiesRun
<1>6. Upto(j.plan, k, j.done) = gs[j.name]
  BY <1>3, <1>5
<1>7. /\ j.todo \in Seq(Exts) /\ k \in 0 .. Len(j.plan)
      /\ \A i \in 1 .. Len(j.todo) : j.todo[i] = j.plan[k + i]
      /\ j.done \in Nat
      /\ j.ok = LengthUpto(j.plan)[k]
      /\ \A i \in 1 .. k : Mapped(j.plan[i]) /\ InDevice(j.plan[i])
  BY <1>3 DEF Reading
<1> HIDE DEF o
<1>8. Reading(o, gs)
  BY <1>1, <1>3, <1>6, <1>7, Zenon DEF Reading
<1> QED
  BY <1>8 DEF o

\* Names of what is planned.
LEMMA PlannedName ==
  ASSUME NEW dev, NEW j, JobOK(dev, j), j.kind \notin {"journal", "probe"}
  PROVE  j.name[1] # "tmp" /\ (j.name[1] = "targeted" => read_tree_block_versioned(dev, j.name[2]).depth = 0)
<1>1. j.name[1] # "tmp"
  BY DEF JobOK
<1>2. CASE j.name[1] = "targeted"
  <2>1. j.kind = "targeted"
    BY <1>2 DEF JobOK
  <2>2. j.name = <<"targeted", j.src>> /\ read_tree_block_versioned(dev, j.src).depth = 0
    BY <2>1 DEF JobOK
  <2>3. j.name[2] = j.src
    BY <2>2
  <2> QED
    BY <1>1, <2>2, <2>3
<1> QED
  BY <1>1, <1>2

\* A job opens its file.
LEMMA OpenFileJob ==
  ASSUME JobInv, OpenFile
  PROVE  JobInv'
<1> DEFINE o == [job EXCEPT !.open = TRUE]
<1>1. /\ job # NoJob /\ ~job.open /\ job' = o /\ files' = Put(files, job.name, NoFile)
      /\ UNCHANGED <<disk, phase, pos>>
      /\ \/ UNCHANGED planned
         \/ /\ job.kind \notin {"journal", "probe"}
            /\ planned' = Put(planned, job.name, Target(job.kind, job.plan, job.size))
  BY DEF OpenFile, run
<1>2. JobOK(disk, job) /\ Reading(job, files)
  BY <1>1 DEF JobInv
<1>3. DOMAIN job = JobFields /\ PlanOK(job.kind, job.plan)
  BY <1>2 DEF JobOK
<1>4. job.name \in DOMAIN files' /\ files'[job.name] = NoFile
  BY <1>1 DEF Put
<1>5. Reading(o, files')
  BY <1>1, <1>2, <1>3, <1>4, ReadingOpened
<1>6. JobOK(disk, o)
  <2>1. Updated(job, o, {"open"})
    BY <1>3, Fields DEF Updated
  <2> HIDE DEF o
  <2> QED
    BY <1>2, <2>1, JobGoesAlong
<1>7. PlannedNames(disk, DOMAIN planned')
  <2>1. PlannedNames(disk, DOMAIN planned)
    BY DEF JobInv
  <2>2. CASE UNCHANGED planned
    BY <2>1, <2>2
  <2>3. CASE /\ job.kind \notin {"journal", "probe"}
             /\ planned' = Put(planned, job.name, Target(job.kind, job.plan, job.size))
    <3>1. DOMAIN planned' = DOMAIN planned \cup {job.name}
      BY <2>3 DEF Put
    <3>2. job.name[1] # "tmp" /\ (job.name[1] = "targeted" => read_tree_block_versioned(disk, job.name[2]).depth = 0)
      BY <1>2, <2>3, PlannedName
    <3> QED
      BY <2>1, <3>1, <3>2 DEF PlannedNames
  <2> QED
    BY <1>1, <2>2, <2>3
<1> HIDE DEF o
<1> QED
  BY <1>1, <1>5, <1>6, <1>7 DEF JobInv

\* A job copies a chunk.
LEMMA ChunkStep ==
  ASSUME JobInv, CopyChunk
  PROVE  LET e == job.todo[1]
             d == job.done
             t == ChunkLen(e, d)
         IN /\ e \in Exts /\ Mapped(e) /\ d \in Nat /\ d < e.len /\ t \in Nat \ {0}
            /\ d + t = e.len => InDevice(e)
            /\ job.name \in DOMAIN files /\ Only(job.name)
            /\ Reading(job', files') /\ JobOK(disk, job') /\ job'.name = job.name /\ job' # NoJob
            /\ job'.open /\ job'.kind = job.kind /\ job'.plan = job.plan /\ job'.size = job.size
            /\ job'.stopped = job.stopped /\ job.open /\ job # NoJob
<1> DEFINE e == job.todo[1]
           d == job.done
           t == ChunkLen(e, d)
           o == IF d + t = e.len THEN [job EXCEPT !.todo = Tail(@), !.done = 0, !.ok = @ + e.len]
                ELSE [job EXCEPT !.done = @ + t]
<1>1. /\ UNCHANGED <<disk, owner, planned, phase, pos>> /\ job # NoJob /\ job.open /\ job.todo # <<>>
      /\ files' = [files EXCEPT ![job.name] =
                     Overlay(@, [l \in At .. At + t - 1 |-> e.start + d + l - At])]
      /\ job' = o
      /\ e # NoWay /\ \A b \in e.start + d .. e.start + d + t - 1 : b \in Blocks \ disk.bad
  BY DEF CopyChunk, Copying, run, This, Extent, ChunkLen, Readable
<1>2. JobOK(disk, job) /\ Reading(job, files)
  BY <1>1 DEF JobInv
<1>3. DOMAIN job = JobFields /\ PlanOK(job.kind, job.plan)
  BY <1>2 DEF JobOK
<1>4. Only(job.name)
  BY <1>1, FilesExcept
<1>5. job.name \in DOMAIN files
  BY <1>1, <1>2 DEF Reading
<1>6. e \in Exts /\ Mapped(e) /\ d < e.len
  BY <1>1, <1>2, <1>3, NextExtent
<1>7. d \in Nat
  BY <1>2 DEF Reading
<1>8. t \in Nat \ {0}
  <2>1. \A b \in e.start + d .. e.start + d + t - 1 : b \in Blocks
    BY <1>1
  <2>2. t = ChunkLen(e, d)
    OBVIOUS
  <2> HIDE DEF e, d, t
  <2> QED
    BY <1>6, <1>7, <2>1, <2>2, ChunkSize
<1>9. ~job.stopped => files'[job.name] = Overlay(files[job.name], Filling(e, d, t))
  <2> SUFFICES ASSUME ~job.stopped PROVE files'[job.name] = Overlay(files[job.name], Filling(e, d, t))
    OBVIOUS
  <2>1. At = Place(job, files[job.name])
    BY DEF At, Place, Extent
  <2>2. At = e.at + d
    BY <1>1, <1>2, <1>3, <2>1, PlaceIs
  <2>3. [l \in At .. At + t - 1 |-> e.start + d + l - At] = Filling(e, d, t)
    BY <2>2 DEF Filling
  <2> QED
    BY <1>1, <1>5, <2>3
<1>10. job.name \in DOMAIN files'
  BY <1>1, <1>5
<1>11. Reading(o, files') /\ (d + t = e.len => InDevice(e))
  <2> DEFINE gs == files'
  <2>1. /\ t = ChunkLen(job.todo[1], job.done)
        /\ \A b \in job.todo[1].start + job.done .. job.todo[1].start + job.done + t - 1 : b \in Blocks
        /\ job.name \in DOMAIN gs
        /\ ~job.stopped => gs[job.name] = Overlay(files[job.name], Filling(job.todo[1], job.done, t))
        /\ job.todo[1] # NoWay
    BY <1>1, <1>9, <1>10
  <2> HIDE DEF gs, t
  <2>2. LET oo == IF job.done + t = job.todo[1].len
                  THEN [job EXCEPT !.todo = Tail(@), !.done = 0, !.ok = @ + job.todo[1].len]
                  ELSE [job EXCEPT !.done = @ + t]
        IN Reading(oo, gs) /\ (job.done + t = job.todo[1].len => InDevice(job.todo[1]))
    BY <1>1, <1>2, <1>3, <2>1, ReadingChunk
  <2> QED
    BY <2>2 DEF gs
<1>12. Updated(job, o, {"todo", "done", "ok"}) /\ o # NoJob
  <2> HIDE DEF t, e
  <2>1. Updated(job, o, {"todo", "done", "ok"})
    BY <1>3, Fields DEF Updated
  <2> QED
    BY <2>1, HasFields DEF Updated
<1> HIDE DEF o
<1>13. /\ o.name = job.name /\ o.open = job.open /\ o.kind = job.kind /\ o.plan = job.plan
       /\ o.size = job.size /\ o.stopped = job.stopped
  BY <1>12, Fields DEF Updated
<1>14. JobOK(disk, o)
  BY <1>2, <1>12, JobGoesAlong
<1> HIDE DEF t, e, d
<1>15. /\ e \in Exts /\ Mapped(e) /\ d \in Nat /\ d < e.len /\ t \in Nat \ {0}
       /\ d + t = e.len => InDevice(e)
       /\ job.name \in DOMAIN files /\ Only(job.name)
       /\ Reading(job', files') /\ JobOK(disk, job') /\ job'.name = job.name /\ job' # NoJob
       /\ job'.open /\ job'.kind = job.kind /\ job'.plan = job.plan /\ job'.size = job.size
       /\ job'.stopped = job.stopped /\ job.open /\ job # NoJob
  BY <1>1, <1>4, <1>5, <1>6, <1>7, <1>8, <1>11, <1>12, <1>13, <1>14
<1> QED
  BY <1>15 DEF e, d, t

\* A job meets a chunk that cannot be copied.
LEMMA FailStep ==
  ASSUME JobInv, ChunkFails
  PROVE  /\ job.name \in DOMAIN files /\ Only(job.name) /\ job.name \in DOMAIN files'
         /\ Reading(job', files') /\ JobOK(disk, job') /\ job' # NoJob /\ job # NoJob
         /\ job'.open /\ job'.name = job.name /\ job'.kind = job.kind /\ job'.plan = job.plan
         /\ job'.size = job.size /\ job'.stopped /\ job.open
         /\ UNCHANGED files \/ Mishap
<1> DEFINE o == [job EXCEPT !.todo = IF job.kind = "inode" THEN <<>> ELSE Tail(@),
                            !.done = 0, !.stopped = TRUE]
           chunk(n) == [l \in At .. At + n - 1 |-> Extent.start + job.done + l - At]
<1>1. /\ UNCHANGED disk /\ job # NoJob /\ job.open /\ job.todo # <<>>
      /\ \/ UNCHANGED files
         \/ Mishap /\ \E n : files' = [files EXCEPT ![job.name] = Overlay(@, chunk(n))]
      /\ job' = o
  BY DEF ChunkFails, Copying
<1>2. JobOK(disk, job) /\ Reading(job, files)
  BY <1>1 DEF JobInv
<1>3. DOMAIN job = JobFields /\ PlanOK(job.kind, job.plan)
  BY <1>2 DEF JobOK
<1>4. job.name \in DOMAIN files
  BY <1>1, <1>2 DEF Reading
<1>5. Only(job.name) /\ job.name \in DOMAIN files'
  <2> HIDE DEF chunk
  <2>1. CASE UNCHANGED files
    BY <1>4, <2>1 DEF Only
  <2>2. CASE \E n : files' = [files EXCEPT ![job.name] = Overlay(@, chunk(n))]
    BY <1>4, <2>2, FilesExcept
  <2> QED
    BY <1>1, <2>1, <2>2
<1>6. Reading(o, files')
  BY <1>1, <1>2, <1>3, <1>5, ReadingFails
<1>7. Updated(job, o, {"todo", "done", "stopped"}) /\ o # NoJob
  <2>1. Updated(job, o, {"todo", "done", "stopped"})
    BY <1>3, Fields DEF Updated
  <2> QED
    BY <2>1, HasFields DEF Updated
<1>8. o.stopped
  BY <1>3, Fields
<1> HIDE DEF o
<1>9. /\ o.name = job.name /\ o.open = job.open /\ o.kind = job.kind /\ o.plan = job.plan
      /\ o.size = job.size
  BY <1>7, Fields DEF Updated
<1>10. JobOK(disk, o)
  BY <1>2, <1>7, JobGoesAlong
<1> QED
  BY <1>1, <1>4, <1>5, <1>6, <1>7, <1>8, <1>9, <1>10

\* Steps that open and write files.
LEMMA WritingJob ==
  ASSUME JobInv, Writing
  PROVE  JobInv'
<1>1. CASE OpenFails
  <2>1. UNCHANGED <<disk, planned, phase, pos>> /\ job' = NoJob
    BY <1>1 DEF OpenFails, run
  <2> QED
    BY <2>1 DEF JobInv
<1>2. CASE CopyChunk
  <2>1. UNCHANGED <<disk, planned, phase, pos>>
    BY <1>2 DEF CopyChunk, run
  <2>2. Reading(job', files') /\ JobOK(disk, job')
    BY <1>2, ChunkStep
  <2> QED
    BY <2>1, <2>2 DEF JobInv
<1>3. CASE ChunkFails
  <2>1. UNCHANGED <<disk, planned, phase, pos>>
    BY <1>3 DEF ChunkFails, run
  <2>2. Reading(job', files') /\ JobOK(disk, job')
    BY <1>3, FailStep
  <2> QED
    BY <2>1, <2>2 DEF JobInv
<1> QED
  BY <1>1, <1>2, <1>3, OpenFileJob DEF Writing

\* An index block that was revoked: its tree is next.
LEMMA RevokedTreeStarts ==
  ASSUME JobInv, disk \in Disks, RevokedTree
  PROVE  \E h : /\ h.slots \in Seq(Slots) /\ job.src \in Blocks
                /\ StartTree(job.src, h) \/ (job' = NoJob /\ UNCHANGED <<marks, mishaps>>)
                /\ job' = NoJob \/ Starts(disk, job')
<1> DEFINE b == job.src
           h == read_tree_block_versioned(disk, b)
<1>1. /\ job # NoJob /\ job.kind = "probe"
      /\ StartTree(b, h) \/ (job' = NoJob /\ UNCHANGED <<marks, mishaps>>)
  BY DEF RevokedTree, Copied
<1>2. b \in Blocks
  BY <1>1 DEF JobInv, JobOK
<1>3. h.slots \in Seq(Slots)
  BY <1>2, VersionSlots
<1> HIDE DEF h, b
<1>4. job' = NoJob \/ Starts(disk, job')
  BY <1>1, <1>2, <1>3, StartTreeStarts
<1>5. /\ h.slots \in Seq(Slots) /\ b \in Blocks
      /\ StartTree(b, h) \/ (job' = NoJob /\ UNCHANGED <<marks, mishaps>>)
      /\ job' = NoJob \/ Starts(disk, job')
  BY <1>1, <1>2, <1>3, <1>4
<1> QED
  BY <1>5 DEF b

\* Steps that end a job.
LEMMA ClosingJob ==
  ASSUME JobInv, disk \in Disks, Closing
  PROVE  JobInv' /\ (job' = NoJob \/ Starts(disk, job'))
<1>1. UNCHANGED <<disk, phase, pos>> /\ PosOK(disk, phase', pos')
  <2>1. UNCHANGED <<disk, phase, pos>>
    BY DEF Closing, InodeDone, BlockDone, Promote, PromoteFails, IndirectDone, InlineDone, RevokedTree, run
  <2> QED
    BY <2>1 DEF JobInv, PosOK
<1>2. CASE RevokedTree
  <2>1. UNCHANGED planned
    BY <1>2 DEF RevokedTree
  <2>2. job' = NoJob \/ Starts(disk, job')
    BY <1>2, RevokedTreeStarts
  <2> QED
    BY <1>1, <2>1, <2>2, JobBegun
<1>3. CASE Promote
  <2>1. job' = NoJob /\ \E v : planned' = Put(planned, <<"out", Resolved(job.src)>>, v)
    BY <1>3 DEF Promote
  <2>2. DOMAIN planned' = DOMAIN planned \cup {<<"out", Resolved(job.src)>>}
    BY <2>1 DEF Put
  <2>3. PlannedNames(disk, DOMAIN planned')
    <3> DEFINE n == <<"out", Resolved(job.src)>>
    <3>1. n[1] = "out"
      OBVIOUS
    <3> HIDE DEF n
    <3>2. DOMAIN planned' = DOMAIN planned \cup {n}
      BY <2>2 DEF n
    <3>3. PlannedNames(disk, DOMAIN planned)
      BY DEF JobInv
    <3> QED
      BY <3>1, <3>2, <3>3 DEF PlannedNames
  <2> QED
    BY <1>1, <2>1, <2>3 DEF JobInv, PosOK
<1>4. CASE InodeDone \/ BlockDone \/ PromoteFails \/ IndirectDone \/ InlineDone
  <2>1. UNCHANGED planned /\ job' = NoJob
    BY <1>4 DEF InodeDone, BlockDone, PromoteFails, IndirectDone, InlineDone
  <2> QED
    BY <1>1, <2>1, JobBegun
<1> QED
  BY <1>2, <1>3, <1>4 DEF Closing

\* Where a phase begins.
LEMMA EnterPos ==
  ASSUME disk \in Disks, NEW p, Enter(p)
  PROVE  PosOK(disk, phase', pos')
<1>1. disk.last_orphan \in Nat
  BY DisksAssumption DEF DiskOK
<1>2. phase' = p /\ pos' = First(p)
  BY DEF Enter
<1> DEFINE n == disk.last_orphan
<1>3. CASE p = "orphan" /\ ~disk.has_orphan_file
  <2>1. pos' = IF n > InodesCount THEN 0 ELSE n
    BY <1>2, <1>3 DEF First
  <2>2. n \in Nat /\ InodesCount \in Nat
    BY <1>1, NamesAssumption
  <2> HIDE DEF n
  <2>3. pos' \in Nat /\ pos' <= InodesCount
    BY <2>1, <2>2
  <2> QED
    BY <2>3 DEF PosOK
<1>4. CASE ~(p = "orphan" /\ ~disk.has_orphan_file)
  <2>1. pos' = 1
    BY <1>2, <1>4 DEF First
  <2> QED
    BY <1>2, <1>4, <2>1 DEF PosOK
<1> QED
  BY <1>3, <1>4

\* JobInv holds at the start.
LEMMA InitJob == Init => JobInv
<1> SUFFICES ASSUME Init PROVE JobInv
  OBVIOUS
<1>1. planned = NoEntries /\ job = NoJob /\ phase = "setup" /\ pos = 0
  BY DEF Init
<1>2. DOMAIN planned = {}
  BY <1>1 DEF NoEntries
<1> QED
  BY <1>1, <1>2 DEF JobInv, PlannedNames

\* Every step keeps JobInv.
LEMMA NextJob == NameState /\ JournalInv /\ JobInv /\ [Next]_vars => JobInv'
<1> SUFFICES ASSUME NameState, JournalInv, JobInv, [Next]_vars PROVE JobInv'
  OBVIOUS
<1>1. disk \in Disks
  BY DEF NameState, PhaseInv
<1>2. CASE Looping
  <2>1. /\ job' = job \/ job' = NoJob \/ Starts(disk, job')
        /\ PosOK(disk, phase', pos') /\ UNCHANGED <<disk, files, planned>>
    BY <1>1, <1>2, LoopingStarts
  <2> QED
    BY <2>1, JobBegun
<1>3. CASE Writing
  BY <1>3, WritingJob
<1>4. CASE Closing
  BY <1>1, <1>4, ClosingJob
<1>5. CASE Setup \/ SetupFails \/ AddName \/ Report \/ Clear
  <2>1. /\ UNCHANGED <<disk, files, planned, job>>
        /\ phase' \in {"names", "failed", "clear", "done"} /\ (pos' = pos \/ pos' = 1 \/ pos' = pos + 1)
    BY <1>5 DEF Setup, SetupFails, AddName, Report, Clear, dirvars
  <2>2. PosOK(disk, phase', pos')
    <3>1. phase' # "orphan" /\ pos \in Nat
      BY <2>1 DEF JobInv
    <3>2. pos' \in Nat
      BY <2>1, <3>1
    <3> QED
      BY <3>1, <3>2 DEF PosOK
  <2> QED
    BY <2>1, <2>2, JobBegun
<1>6. CASE NamesDone \/ PhaseDone \/ CheckpointWritten
  <2>1. /\ UNCHANGED <<disk, files, planned, job>>
        /\ UNCHANGED <<phase, pos>> \/ \E p : Enter(p)
    BY <1>6 DEF NamesDone, PhaseDone, CheckpointWritten, dirvars
  <2>2. PosOK(disk, phase', pos')
    BY <1>1, <2>1, EnterPos DEF JobInv, PosOK
  <2> QED
    BY <2>1, <2>2, JobBegun
<1>7. CASE Crash
  <2>1. UNCHANGED <<disk, planned>> /\ job' = NoJob /\ phase' = "setup" /\ pos' = 0
    BY <1>7 DEF Crash
  <2>2. PosOK(disk, phase', pos')
    BY <2>1 DEF PosOK
  <2> QED
    BY <2>1, <2>2, JobBegun
<1>8. CASE UNCHANGED vars
  <2>1. UNCHANGED <<disk, files, planned, job, phase, pos>>
    BY <1>8 DEF vars
  <2>2. PosOK(disk, phase', pos')
    BY <2>1 DEF JobInv, PosOK
  <2> QED
    BY <2>1, <2>2, JobBegun
<1> QED
  BY <1>2, <1>3, <1>4, <1>5, <1>6, <1>7, <1>8 DEF Next, Program, Finished

\* Every job of every phase is one its plan allows, and is as far along its plan as its
\* file says, in every state.
THEOREM JobInvariant == Spec => []JobInv
<1>1. Init => JobInv
  BY InitJob
<1>2. NameState /\ JournalInv /\ JobInv /\ [Next]_vars => JobInv'
  BY NextJob
<1> QED
  BY <1>1, <1>2, NameStateInvariant, JournalInvariant, PTL DEF Spec

-----------------------------------------------------------------------------
(* Types. *)

\* What a file may be: its blocks are finitely many and come from readable ones.
FileOK(bad, f) == IsFiniteSet(DOMAIN f) /\ \A l \in DOMAIN f : f[l] \notin bad
FilesOK(bad, fs) == \A n \in DOMAIN fs : n[1] \in Kinds /\ FileOK(bad, fs[n])
Owned == [src : Nat, by : JobKinds]

\* What TypeOK says beyond names, phases and jobs.
Rest ==
    /\ FilesOK(disk.bad, files)
    /\ covered \subseteq Blocks /\ marks \subseteq Blocks
    /\ stats \in [Counters -> Nat] /\ checkpoint.stats \in [Counters -> Nat]
    /\ count \in 0 .. MaxChain + 1
    /\ owner \in [DOMAIN planned -> Owned]

\* TypeOK, from its parts.
LEMMA RestIsType ==
  ASSUME NameState, JobInv, Rest
  PROVE  TypeOK
<1>1. NamesTypeOK
  BY DEF NameState, NamesInv
<1>2. /\ mode \subseteq ToSet(Order)
      /\ phase \in {"setup", "names", "report", "clear", "done", "failed"} \cup ToSet(Order)
      /\ job # NoJob => phase \in ToSet(Order) /\ ~saving
  BY DEF NameState, PhaseInv
<1>3. job # NoJob /\ job.open => job.name \in DOMAIN files
  BY DEF JobInv, Reading
<1>4. \A n \in DOMAIN files : n[1] \in Kinds /\ \A l \in DOMAIN files[n] : files[n][l] \notin disk.bad
  BY DEF Rest, FilesOK, FileOK
<1>5. /\ covered \subseteq Blocks /\ marks \subseteq Blocks
      /\ stats \in [Counters -> Nat] /\ count \in 0 .. MaxChain + 1
      /\ owner \in [DOMAIN planned -> [src : Nat, by : JobKinds]]
  BY DEF Rest, Owned
<1> QED
  BY <1>1, <1>2, <1>3, <1>4, <1>5 DEF TypeOK

\* Counters count.
LEMMA BumpType == \A s \in [Counters -> Nat] : \A cs : Bump(s, cs) \in [Counters -> Nat]
  BY DEF Bump

\* An output gets an owner.
LEMMA OwnerPut ==
  ASSUME NEW o, NEW p, o \in [DOMAIN p -> Owned], NEW n, NEW v \in Owned, NEW w
  PROVE  Put(o, n, v) \in [DOMAIN Put(p, n, w) -> Owned]
  BY DEF Put

\* A file changes, and the others stay.
LEMMA FilesOneOK ==
  ASSUME FilesOK(disk.bad, files), NEW n, Only(n),
         n \in DOMAIN files' => n[1] \in Kinds /\ FileOK(disk.bad, files'[n])
  PROVE  FilesOK(disk.bad, files')
<1> SUFFICES ASSUME NEW m \in DOMAIN files' PROVE m[1] \in Kinds /\ FileOK(disk.bad, files'[m])
  BY DEF FilesOK
<1>1. CASE m = n
  BY <1>1
<1>2. CASE m # n
  <2>1. m \in DOMAIN files /\ files'[m] = files[m]
    BY <1>2 DEF Only
  <2> QED
    BY <2>1 DEF FilesOK
<1> QED
  BY <1>1, <1>2

\* An empty file.
LEMMA NoFileOK == \A bad : FileOK(bad, NoFile)
  BY NoFileType, FS_EmptySet DEF FileOK

\* A file cut to a size.
LEMMA CutOK == \A bad, f, size : FileOK(bad, f) => FileOK(bad, Cut(f, size))
<1> TAKE bad, f, size
<1> HAVE FileOK(bad, f)
<1> DEFINE D == {l \in DOMAIN f : l < size}
<1>1. IsFiniteSet(DOMAIN f) /\ D \subseteq DOMAIN f
  BY DEF FileOK
<1>2. IsFiniteSet(D)
  BY <1>1, FS_Subset
<1>3. DOMAIN Cut(f, size) = D /\ \A l \in D : Cut(f, size)[l] = f[l]
  BY DEF Cut
<1> HIDE DEF D
<1> QED
  BY <1>1, <1>2, <1>3 DEF FileOK

\* The file of an inode with its data in it.
LEMMA InlineOK ==
  ASSUME disk \in Disks
  PROVE  FileOK(disk.bad, Inline)
<1>1. disk.bad \subseteq Blocks
  BY DisksAssumption DEF DiskOK
<1>2. 0 \notin disk.bad
  BY <1>1, TreeAssumption DEF Blocks
<1>3. DOMAIN Inline = {0} /\ Inline[0] = 0
  BY DEF Inline
<1>4. IsFiniteSet({0})
  BY FS_Singleton
<1> QED
  BY <1>2, <1>3, <1>4 DEF FileOK

\* Some blocks of a chunk that can be read.
LEMMA ChunkOK ==
  ASSUME NEW bad, NEW f, FileOK(bad, f), NEW a \in Nat, NEW s \in Nat, NEW t \in Nat, NEW n \in 0 .. t,
         \A b \in s .. s + t - 1 : b \notin bad
  PROVE  FileOK(bad, Overlay(f, [l \in a .. a + n - 1 |-> s + l - a]))
<1> DEFINE g == [l \in a .. a + n - 1 |-> s + l - a]
<1>1. IsFiniteSet(a .. a + n - 1)
  <2>1. a \in Int /\ a + n - 1 \in Int
    OBVIOUS
  <2> QED
    BY <2>1, FS_Interval
<1>2. DOMAIN g = a .. a + n - 1
  OBVIOUS
<1>3. \A l \in a .. a + n - 1 : g[l] \notin bad
  <2> TAKE l \in a .. a + n - 1
  <2>1. s + l - a \in s .. s + t - 1
    OBVIOUS
  <2> QED
    BY <2>1
<1> HIDE DEF g
<1>4. IsFiniteSet(DOMAIN f \cup DOMAIN g)
  BY <1>1, <1>2, FS_Union DEF FileOK
<1>5. DOMAIN Overlay(f, g) = DOMAIN f \cup DOMAIN g
  BY DEF Overlay
<1>6. \A l \in DOMAIN Overlay(f, g) : Overlay(f, g)[l] \notin bad
  <2>1. \A l \in DOMAIN f : f[l] \notin bad
    BY DEF FileOK
  <2>2. \A l \in DOMAIN g : g[l] \notin bad
    BY <1>2, <1>3
  <2> QED
    BY <2>1, <2>2, OverlayClean
<1> QED
  BY <1>4, <1>5, <1>6 DEF FileOK, g

\* A file that is being written.
LEMMA WrittenOK ==
  ASSUME disk \in Disks, JobInv, FilesOK(disk.bad, files), Copying, Readable,
         NEW n \in 0 .. This,
         files' = [files EXCEPT ![job.name] =
                     Overlay(@, [l \in At .. At + n - 1 |-> Extent.start + job.done + l - At])]
  PROVE  FilesOK(disk.bad, files')
<1> DEFINE e == job.todo[1]
           d == job.done
           t == ChunkLen(e, d)
           f == files[job.name]
           s == e.start + d
<1>1. job # NoJob /\ job.open /\ job.todo # <<>> /\ e # NoWay
  BY DEF Copying, Readable, Extent
<1>2. JobOK(disk, job) /\ Reading(job, files)
  BY <1>1 DEF JobInv
<1>3. PlanOK(job.kind, job.plan) /\ job.name[1] \in Kinds
  BY <1>2 DEF JobOK
<1>4. e \in Exts /\ d < e.len
  BY <1>1, <1>2, <1>3, NextExtent
<1>5. d \in Nat /\ job.name \in DOMAIN files
  BY <1>1, <1>2 DEF Reading
<1>6. This = t
  BY DEF This, Extent, ChunkLen
<1>7. t \in Nat /\ s \in Nat
  <2>1. e.len \in Nat /\ e.start \in Nat
    BY <1>4 DEF Exts
  <2> DEFINE x == e.len
             y == e.start
  <2>2. x \in Nat /\ y \in Nat /\ d < x
    BY <1>4, <2>1
  <2> HIDE DEF x, y, d
  <2>3. d <= x /\ y + d \in Nat
    BY <1>5, <2>2
  <2>4. t \in Nat
    <3> HIDE DEF e
    <3> QED
      BY <1>4, <1>5, <2>3, ChunkFits DEF x
  <2> QED
    BY <2>3, <2>4 DEF y
<1>8. \A b \in s .. s + t - 1 : b \notin disk.bad
  BY <1>6 DEF Readable, Extent
<1>9. FileOK(disk.bad, f)
  BY <1>5 DEF FilesOK
<1>10. At \in Nat
  <2>1. CASE job.kind = "indirect"
    <3>1. At = Cardinality(DOMAIN f)
      BY <2>1 DEF At
    <3> QED
      BY <1>9, <3>1, FS_CardinalityType DEF FileOK
  <2>2. CASE job.kind # "indirect"
    <3>1. At = e.at + d
      BY <2>2 DEF At, Extent
    <3>2. e.at \in Nat
      BY <1>4 DEF Exts
    <3> HIDE DEF e, d
    <3> QED
      BY <1>5, <3>1, <3>2
  <2> QED
    BY <2>1, <2>2
<1>11. FileOK(disk.bad, Overlay(f, [l \in At .. At + n - 1 |-> s + l - At]))
  <2> DEFINE a == At
             bad == disk.bad
  <2>1. a \in Nat /\ FileOK(bad, f) /\ n \in 0 .. t /\ \A b \in s .. s + t - 1 : b \notin bad
    BY <1>6, <1>8, <1>9, <1>10
  <2> HIDE DEF a, f, s, t, bad
  <2>2. FileOK(bad, Overlay(f, [l \in a .. a + n - 1 |-> s + l - a]))
    BY <1>7, <2>1, ChunkOK
  <2> QED
    BY <2>2 DEF a, bad
<1>12. files'[job.name] = Overlay(f, [l \in At .. At + n - 1 |-> s + l - At])
  BY <1>5 DEF Extent
<1>13. Only(job.name)
  BY FilesExcept
<1> HIDE DEF f, s
<1> QED
  BY <1>3, <1>11, <1>12, <1>13, FilesOneOK

\* Marks are blocks.
LEMMA MarkType ==
  ASSUME marks \subseteq Blocks, NEW order \in Seq(Blocks), MarkRecovered(order)
  PROVE  marks' \subseteq Blocks
<1>1. ToSet(order) \subseteq Blocks /\ (order # <<>> => ToSet(Tail(order)) \subseteq Blocks)
  <2> HIDE DEF Blocks
  <2>1. \A i \in DOMAIN order : order[i] \in Blocks
    OBVIOUS
  <2>2. order # <<>> => Tail(order) \in Seq(Blocks)
    OBVIOUS
  <2>3. order # <<>> => \A i \in DOMAIN Tail(order) : Tail(order)[i] \in Blocks
    BY <2>2
  <2> QED
    BY <2>1, <2>3 DEF ToSet
<1> QED
  BY <1>1 DEF MarkRecovered

\* The marks of a tree.
LEMMA StartTreeMarks ==
  ASSUME disk \in Disks, marks \subseteq Blocks, NEW b \in Blocks, NEW h, h.slots \in Seq(Slots), StartTree(b, h)
  PROVE  marks' \subseteq Blocks
<1> DEFINE w == walk_extent_tree(disk, h)
<1>1. MarkRecovered(w.marks) \/ MarkRecovered(w.marks \o <<b>>)
  BY DEF StartTree
<1>2. w \in Walks
  BY WalkTreeType
<1>3. w.marks \in Seq(Blocks)
  <2> HIDE DEF w
  <2> QED
    BY <1>2 DEF Walks
<1>4. w.marks \o <<b>> \in Seq(Blocks)
  <2> HIDE DEF w, Blocks
  <2> QED
    BY <1>3
<1> HIDE DEF w
<1> QED
  BY <1>1, <1>3, <1>4, MarkType

\* The marks of a leaf.
LEMMA StartLeafMarks ==
  ASSUME marks \subseteq Blocks, NEW b \in Blocks, NEW h, StartLeaf(b, h)
  PROVE  marks' \subseteq Blocks
<1>1. UNCHANGED marks \/ MarkRecovered(<<b>>)
  BY DEF StartLeaf
<1>2. <<b>> \in Seq(Blocks)
  OBVIOUS
<1> QED
  BY <1>1, <1>2, MarkType

\* What the job of an inode counts.
LEMMA StartInodeStats ==
  ASSUME stats \in [Counters -> Nat], NEW ino, StartInode(ino) \/ Pass
  PROVE  stats' \in [Counters -> Nat]
<1>1. stats' = stats \/ \E cs : stats' = Bump(stats, cs)
  BY DEF StartInode, Pass
<1> QED
  BY <1>1, BumpType

\* Steps of the loops keep Rest.
LEMMA LoopingRest ==
  ASSUME JobInv, JournalInv, Rest, disk \in Disks, Looping
  PROVE  Rest'
<1>1. UNCHANGED <<disk, files, checkpoint, manifest, covered, owner, planned>>
  BY LoopingStarts
<1>2. /\ marks \subseteq Blocks /\ stats \in [Counters -> Nat] /\ count \in 0 .. MaxChain + 1
  BY DEF Rest
<1>3. marks' \subseteq Blocks /\ stats' \in [Counters -> Nat] /\ count' \in 0 .. MaxChain + 1
  <2>1. CASE OrphanChain
    <3>1. (StartInode(pos) \/ Pass) /\ UNCHANGED marks /\ count' = count + 1 /\ phase = "orphan" /\ ~Over
          /\ ~disk.has_orphan_file
      BY <2>1 DEF OrphanChain, Turn
    <3>2. ~(count > MaxChain)
      BY <3>1 DEF Over
    <3>3. count' \in 0 .. MaxChain + 1
      BY <1>2, <3>1, <3>2, RunAssumption
    <3> QED
      BY <1>2, <3>1, <3>3, StartInodeStats
  <2>2. CASE OrphanFile
    <3>1. (StartInode(disk.orphan_file[pos]) \/ Pass) /\ UNCHANGED <<marks, count>>
      BY <2>2 DEF OrphanFile
    <3> QED
      BY <1>2, <3>1, StartInodeStats
  <2>3. CASE NormalInode
    <3>1. (StartInode(pos) \/ Pass) /\ UNCHANGED <<marks, count>>
      BY <2>3 DEF NormalInode
    <3> QED
      BY <1>2, <3>1, StartInodeStats
  <2>4. CASE JournalCopy
    <3>1. UNCHANGED <<marks, count, stats>>
      BY <2>4 DEF JournalCopy, Pass, FromExtents, FromInode
    <3> QED
      BY <1>2, <3>1
  <2>5. CASE ScanBlock
    <3>1. UNCHANGED <<count, stats>>
      BY <2>5 DEF ScanBlock
    <3>2. PICK b \in Blocks :
             /\ pos' = b + 1 /\ b \notin disk.bad /\ disk.node[b].slots \in Seq(Slots)
             /\ \/ UNCHANGED <<job, marks>>
                \/ StartLeaf(b, disk.node[b])
                \/ StartTree(b, disk.node[b])
      BY <2>5, ScanTurn
    <3>3. marks' \subseteq Blocks
      BY <1>2, <3>2, StartLeafMarks, StartTreeMarks
    <3> QED
      BY <1>2, <3>1, <3>3
  <2>6. CASE RevokedBlock
    <3>1. UNCHANGED <<marks, count, stats>>
      BY <2>6 DEF RevokedBlock
    <3> QED
      BY <1>2, <3>1
  <2> QED
    BY <2>1, <2>2, <2>3, <2>4, <2>5, <2>6 DEF Looping
<1> QED
  BY <1>1, <1>3 DEF Rest

\* The blocks of an extent that was copied.
LEMMA ExtentBlocks ==
  ASSUME NEW e \in Exts, Mapped(e), InDevice(e)
  PROVE  BlocksOf(e) \subseteq Blocks
<1> DEFINE s == e.start
           n == e.len
<1>1. s \in Nat /\ n \in Nat /\ s # 0 /\ s + n <= TotalBlocks /\ TotalBlocks \in Nat
  BY TreeAssumption DEF Exts, Mapped, InDevice
<1> HIDE DEF s, n
<1>2. s .. s + n - 1 \subseteq 1 .. TotalBlocks - 1
  BY <1>1
<1> QED
  BY <1>2 DEF BlocksOf, Blocks, s, n

\* Steps that open and write files keep Rest.
LEMMA WritingRest ==
  ASSUME JobInv, JournalInv, Rest, disk \in Disks, Writing
  PROVE  Rest'
<1>0. /\ FilesOK(disk.bad, files) /\ covered \subseteq Blocks /\ marks \subseteq Blocks
      /\ stats \in [Counters -> Nat] /\ owner \in [DOMAIN planned -> Owned]
  BY DEF Rest
<1>1. CASE OpenFile
  <2>1. /\ job # NoJob /\ files' = Put(files, job.name, NoFile)
        /\ UNCHANGED <<disk, checkpoint, count, covered, marks, stats>>
        /\ \/ UNCHANGED <<owner, planned>>
           \/ \E w : /\ owner' = Put(owner, job.name, [src |-> job.src, by |-> job.kind])
                     /\ planned' = Put(planned, job.name, w)
    BY <1>1 DEF OpenFile, run
  <2>2. job.src \in Nat /\ job.kind \in JobKinds /\ job.name[1] \in Kinds
    BY <2>1 DEF JobInv, JobOK
  <2>3. [src |-> job.src, by |-> job.kind] \in Owned
    BY <2>2 DEF Owned
  <2>4. owner' \in [DOMAIN planned' -> Owned]
    BY <1>0, <2>1, <2>3, OwnerPut
  <2>5. FilesOK(disk.bad, files')
    <3>1. files'[job.name] = NoFile /\ Only(job.name)
      BY <2>1, FilesPut DEF Put
    <3> QED
      BY <1>0, <2>2, <3>1, NoFileOK, FilesOneOK
  <2> QED
    BY <2>1, <2>4, <2>5 DEF Rest
<1>2. CASE OpenFails
  <2>1. /\ UNCHANGED <<disk, files, checkpoint, count, covered, marks, owner, planned>>
        /\ stats' = stats \/ stats' = Bump(stats, {"failed"})
    BY <1>2 DEF OpenFails, dirvars, run
  <2>2. stats' \in [Counters -> Nat]
    BY <1>0, <2>1, BumpType
  <2> QED
    BY <2>1, <2>2 DEF Rest
<1>3. CASE CopyChunk
  <2> DEFINE e == job.todo[1]
             d == job.done
             t == ChunkLen(e, d)
  <2>1. /\ Copying /\ Readable
        /\ files' = [files EXCEPT ![job.name] =
                       Overlay(@, [l \in At .. At + This - 1 |-> Extent.start + job.done + l - At])]
        /\ UNCHANGED <<disk, checkpoint, count, marks, stats, owner, planned>>
        /\ This = t
        /\ covered' = covered \/ (d + t = e.len /\ covered' = covered \cup BlocksOf(e))
    BY <1>3 DEF CopyChunk, run, Extent, This, ChunkLen
  <2>2. /\ e \in Exts /\ Mapped(e) /\ t \in Nat \ {0} /\ (d + t = e.len => InDevice(e))
    BY <1>3, ChunkStep
  <2> HIDE DEF e, d, t
  <2>3. covered' \subseteq Blocks
    BY <1>0, <2>1, <2>2, ExtentBlocks
  <2>4. This \in 0 .. This
    BY <2>1, <2>2
  <2>5. FilesOK(disk.bad, files')
    BY <1>0, <2>1, <2>4, WrittenOK
  <2> QED
    BY <2>1, <2>3, <2>5 DEF Rest
<1>4. CASE ChunkFails
  <2>1. /\ Copying
        /\ UNCHANGED <<disk, checkpoint, count, covered, marks, stats, owner, planned>>
        /\ \/ UNCHANGED files
           \/ /\ Readable
              /\ \E n \in 0 .. This - 1 :
                   files' = [files EXCEPT ![job.name] =
                     Overlay(@, [l \in At .. At + n - 1 |-> Extent.start + job.done + l - At])]
    BY <1>4 DEF ChunkFails, run
  <2>2. FilesOK(disk.bad, files')
    <3>1. CASE UNCHANGED files
      BY <1>0, <3>1
    <3>2. CASE /\ Readable
               /\ \E n \in 0 .. This - 1 :
                    files' = [files EXCEPT ![job.name] =
                      Overlay(@, [l \in At .. At + n - 1 |-> Extent.start + job.done + l - At])]
      <4>1. PICK n \in 0 .. This - 1 :
                    files' = [files EXCEPT ![job.name] =
                      Overlay(@, [l \in At .. At + n - 1 |-> Extent.start + job.done + l - At])]
        BY <3>2
      <4>2. This \in Int
        <5> DEFINE e == job.todo[1]
                   d == job.done
        <5>1. job # NoJob /\ job.todo # <<>>
          BY <2>1 DEF Copying
        <5>2. JobOK(disk, job) /\ Reading(job, files)
          BY <5>1 DEF JobInv
        <5>3. e \in Exts
          BY <5>1, <5>2, NextExtent DEF JobOK
        <5>4. d \in Nat
          BY <5>2 DEF Reading
        <5>5. This = IF e.len - d > Chunk THEN Chunk ELSE e.len - d
          BY DEF This, Extent
        <5>6. e.len \in Nat /\ Chunk \in Nat
          BY <5>3, RunAssumption DEF Exts
        <5> HIDE DEF e, d
        <5> QED
          BY <5>4, <5>5, <5>6
      <4>3. n \in 0 .. This
        BY <4>2
      <4> QED
        BY <1>0, <2>1, <3>2, <4>1, <4>3, WrittenOK
    <3> QED
      BY <2>1, <3>1, <3>2
  <2> QED
    BY <2>1, <2>2 DEF Rest
<1> QED
  BY <1>1, <1>2, <1>3, <1>4 DEF Writing

\* Steps that end a job keep Rest.
LEMMA ClosingRest ==
  ASSUME JobInv, Rest, disk \in Disks, Closing
  PROVE  Rest'
<1>0. /\ FilesOK(disk.bad, files) /\ covered \subseteq Blocks /\ marks \subseteq Blocks
      /\ stats \in [Counters -> Nat] /\ owner \in [DOMAIN planned -> Owned]
  BY DEF Rest
<1>1. /\ UNCHANGED <<disk, checkpoint, count, covered>>
      /\ job # NoJob /\ job.open /\ JobOK(disk, job) /\ job.name \in DOMAIN files
  <2>1. /\ UNCHANGED <<disk, checkpoint, count, covered>>
        /\ job # NoJob /\ job.open
    BY DEF Closing, InodeDone, BlockDone, Promote, PromoteFails, IndirectDone, InlineDone, RevokedTree,
           Copied, run, dirvars
  <2>2. JobOK(disk, job) /\ Reading(job, files)
    BY <2>1 DEF JobInv
  <2>3. job.name \in DOMAIN files
    BY <2>1, <2>2 DEF Reading
  <2> QED
    BY <2>1, <2>2, <2>3
<1>2. job.src \in Nat /\ job.name[1] \in Kinds /\ FileOK(disk.bad, files[job.name])
  BY <1>0, <1>1 DEF JobOK, FilesOK
<1>3. files' = Without(files, job.name) => FilesOK(disk.bad, files')
  <2> SUFFICES ASSUME files' = Without(files, job.name) PROVE FilesOK(disk.bad, files')
    OBVIOUS
  <2>1. Only(job.name) /\ job.name \notin DOMAIN files'
    BY FilesWithout DEF Without
  <2> QED
    BY <1>0, <2>1, FilesOneOK
<1>4. CASE InodeDone
  <2>1. UNCHANGED <<files, marks, owner, planned>> /\ \E cs : stats' = Bump(stats, cs)
    BY <1>4 DEF InodeDone, dirvars
  <2> QED
    BY <1>0, <1>1, <2>1, BumpType DEF Rest
<1>5. CASE BlockDone
  <2>1. /\ UNCHANGED <<owner, planned>> /\ job.kind \in {"tree", "leaf", "targeted"}
        /\ \/ /\ stats' = [stats EXCEPT !.aggressive =
                             @ + IF job.kind = "tree" /\ phase = "targeted" THEN 2 ELSE 1]
              /\ MarkRecovered(IF job.kind = "targeted" THEN <<>> ELSE <<job.src>>)
              /\ UNCHANGED files
           \/ files' = Without(files, job.name) /\ UNCHANGED <<stats, marks>>
    BY <1>5 DEF BlockDone, Copied
  <2>2. job.src \in Blocks
    BY <1>1, <2>1 DEF JobOK
  <2>3. marks' \subseteq Blocks
    <3>1. (IF job.kind = "targeted" THEN <<>> ELSE <<job.src>>) \in Seq(Blocks)
      BY <2>2
    <3> QED
      BY <1>0, <2>1, <3>1, MarkType
  <2>4. stats' \in [Counters -> Nat]
    <3>1. "aggressive" \in Counters
      BY DEF Counters
    <3> DEFINE x == IF job.kind = "tree" /\ phase = "targeted" THEN 2 ELSE 1
    <3>2. x \in Nat
      OBVIOUS
    <3> HIDE DEF x, Counters
    <3>3. stats' = stats \/ stats' = [stats EXCEPT !.aggressive = @ + x]
      BY <2>1 DEF x
    <3>4. stats.aggressive + x \in Nat
      BY <1>0, <3>1, <3>2
    <3> QED
      BY <1>0, <3>3, <3>4
  <2>5. FilesOK(disk.bad, files')
    BY <1>0, <1>3, <2>1
  <2> QED
    BY <1>0, <1>1, <2>1, <2>3, <2>4, <2>5 DEF Rest
<1>6. CASE Promote
  <2> DEFINE final == <<"out", Resolved(job.src)>>
             f == files[job.name]
  <2>1. PICK cut, w :
          /\ files' = Put(Without(files, job.name), final, IF cut THEN Cut(f, job.size) ELSE f)
          /\ owner' = Put(owner, final, [src |-> job.src, by |-> "journal"])
          /\ planned' = Put(planned, final, w)
    BY <1>6 DEF Promote
  <2>2. UNCHANGED marks /\ stats' = Bump(stats, {"journal"})
    BY <1>6 DEF Promote
  <2>3. [src |-> job.src, by |-> "journal"] \in Owned
    BY <1>2 DEF Owned, JobKinds
  <2>4. final[1] = "out"
    OBVIOUS
  <2> HIDE DEF final
  <2>5. owner' \in [DOMAIN planned' -> Owned]
    BY <1>0, <2>1, <2>3, OwnerPut
  <2>6. FilesOK(disk.bad, files')
    <3> DEFINE got == IF cut THEN Cut(f, job.size) ELSE f
    <3>1. FileOK(disk.bad, got)
      BY <1>2, CutOK
    <3> HIDE DEF got
    <3>2. files' = Put(Without(files, job.name), final, got)
      BY <2>1 DEF got
    <3> SUFFICES ASSUME NEW m \in DOMAIN files' PROVE m[1] \in Kinds /\ FileOK(disk.bad, files'[m])
      BY DEF FilesOK
    <3>3. CASE m = final
      BY <2>4, <3>1, <3>2, <3>3 DEF Put, Kinds
    <3>4. CASE m # final
      <4>1. m \in DOMAIN files /\ files'[m] = files[m]
        BY <3>2, <3>4 DEF Put, Without
      <4> QED
        BY <1>0, <4>1 DEF FilesOK
    <3> QED
      BY <3>3, <3>4
  <2> QED
    BY <1>0, <1>1, <2>2, <2>5, <2>6, BumpType DEF Rest
<1>7. CASE PromoteFails
  <2>1. files' = Without(files, job.name) /\ UNCHANGED <<marks, stats, owner, planned>>
    BY <1>7 DEF PromoteFails
  <2> QED
    BY <1>0, <1>1, <1>3, <2>1 DEF Rest
<1>8. CASE IndirectDone \/ InlineDone
  <2>1. /\ UNCHANGED <<marks, owner, planned>>
        /\ stats' = stats \/ stats' = Bump(stats, {"journal"})
        /\ \/ files' = Without(files, job.name)
           \/ UNCHANGED files
           \/ files' = [files EXCEPT ![job.name] = Inline]
           \/ files' = [files EXCEPT ![job.name] = Cut(files[job.name], job.size)]
    BY <1>8 DEF IndirectDone, InlineDone
  <2>2. stats' \in [Counters -> Nat]
    BY <1>0, <2>1, BumpType
  <2>3. FilesOK(disk.bad, files')
    <3>1. ASSUME NEW g, FileOK(disk.bad, g), files' = [files EXCEPT ![job.name] = g]
          PROVE  FilesOK(disk.bad, files')
      <4>1. Only(job.name) /\ files'[job.name] = g
        BY <1>1, <3>1, FilesExcept
      <4> QED
        BY <1>0, <1>2, <3>1, <4>1, FilesOneOK
    <3> QED
      BY <1>0, <1>2, <1>3, <2>1, <3>1, InlineOK, CutOK
  <2> QED
    BY <1>0, <1>1, <2>1, <2>2, <2>3 DEF Rest
<1>9. CASE RevokedTree
  <2>1. UNCHANGED <<files, stats, owner, planned>>
    BY <1>9 DEF RevokedTree, dirvars
  <2>2. PICK h : /\ h.slots \in Seq(Slots) /\ job.src \in Blocks
                 /\ StartTree(job.src, h) \/ (job' = NoJob /\ UNCHANGED <<marks, mishaps>>)
    BY <1>9, RevokedTreeStarts
  <2>3. marks' \subseteq Blocks
    BY <1>0, <2>2, StartTreeMarks
  <2> QED
    BY <1>0, <1>1, <2>1, <2>3 DEF Rest
<1> QED
  BY <1>4, <1>5, <1>6, <1>7, <1>8, <1>9 DEF Closing

\* The counters at the start.
LEMMA ZeroType == Zero \in [Counters -> Nat]
  BY DEF Zero

\* Rest holds at the start.
LEMMA InitRest == Init => Rest
<1> SUFFICES ASSUME Init PROVE Rest
  OBVIOUS
<1>1. /\ files = NoEntries /\ checkpoint = disk.checkpoint /\ count = 0 /\ covered = {} /\ marks = {}
      /\ stats = Zero /\ owner = NoEntries /\ planned = NoEntries /\ disk \in Disks
  BY DEF Init
<1>2. disk.checkpoint.stats \in [Counters -> Nat]
  BY <1>1, DisksAssumption DEF DiskOK
<1>3. DOMAIN files = {} /\ DOMAIN planned = {} /\ owner \in [{} -> Owned]
  BY <1>1 DEF NoEntries
<1>4. 0 \in 0 .. MaxChain + 1
  BY RunAssumption
<1> QED
  BY <1>1, <1>2, <1>3, <1>4, ZeroType DEF Rest, FilesOK

\* Every step keeps Rest.
LEMMA NextRest == NameState /\ JournalInv /\ JobInv /\ Rest /\ [Next]_vars => Rest'
<1> SUFFICES ASSUME NameState, JournalInv, JobInv, Rest, [Next]_vars PROVE Rest'
  OBVIOUS
<1>1. disk \in Disks
  BY DEF NameState, PhaseInv
<1>0. 0 \in 0 .. MaxChain + 1
  BY RunAssumption
<1>2. CASE Looping
  BY <1>1, <1>2, LoopingRest
<1>3. CASE Writing
  BY <1>1, <1>3, WritingRest
<1>4. CASE Closing
  BY <1>1, <1>4, ClosingRest
<1>5. CASE Setup
  <2>1. /\ stats' = [Loaded EXCEPT !.failed = 0]
        /\ UNCHANGED <<disk, files, checkpoint, count, covered, marks, owner, planned>>
    BY <1>5 DEF Setup, dirvars
  <2>2. Loaded \in [Counters -> Nat]
    BY ZeroType DEF Loaded, Rest
  <2>3. stats' \in [Counters -> Nat]
    <3> HIDE DEF Loaded
    <3> QED
      BY <2>1, <2>2
  <2> QED
    BY <2>1, <2>3 DEF Rest
<1>6. CASE SetupFails \/ AddName \/ Report \/ NamesDone
  <2>1. /\ UNCHANGED <<disk, files, checkpoint, covered, marks, stats, owner, planned>>
        /\ count' = count \/ count' = 0
    BY <1>6 DEF SetupFails, AddName, Report, NamesDone, Enter, dirvars
  <2> QED
    BY <1>0, <2>1 DEF Rest
<1>7. CASE Clear \/ PhaseDone \/ CheckpointWritten
  <2>1. /\ UNCHANGED <<disk, files, covered, stats, owner, planned>>
        /\ count' = count \/ count' = 0
        /\ marks' = marks \/ marks' = {}
        /\ checkpoint' = checkpoint \/ checkpoint' = NoCheckpoint \/ checkpoint' = Torn \/ checkpoint' = Saved(stats)
    BY <1>7 DEF Clear, PhaseDone, CheckpointWritten, Enter
  <2>2. NoCheckpoint.stats = Zero /\ Torn.stats = Zero /\ Saved(stats).stats = stats
    BY DEF NoCheckpoint, Torn, Saved
  <2>3. checkpoint'.stats \in [Counters -> Nat]
    BY <2>1, <2>2, ZeroType DEF Rest
  <2> QED
    BY <1>0, <2>1, <2>3 DEF Rest
<1>8. CASE Crash
  <2>1. /\ UNCHANGED <<disk, files, checkpoint, owner, planned>>
        /\ count' = 0 /\ covered' = {} /\ marks' = {} /\ stats' = Zero
    BY <1>8 DEF Crash, dirvars
  <2> QED
    BY <1>0, <2>1, ZeroType DEF Rest
<1>9. CASE UNCHANGED vars
  BY <1>9 DEF Rest, vars
<1> QED
  BY <1>2, <1>3, <1>4, <1>5, <1>6, <1>7, <1>8, <1>9 DEF Next, Program, Finished

\* Types: every output stems from readable blocks, what is recorded as recovered and
\* what is marked are blocks of the device, the orphan chain is left in time.  This
\* holds for every disk, whatever headers, pointers and orphan chains say.
THEOREM TypeCorrect == Spec => []TypeOK
<1>1. Init => Rest
  BY InitRest
<1>2. NameState /\ JournalInv /\ JobInv /\ Rest /\ [Next]_vars => Rest'
  BY NextRest
<1>3. NameState /\ JobInv /\ Rest => TypeOK
  BY RestIsType
<1> QED
  BY <1>1, <1>2, <1>3, NameStateInvariant, JournalInvariant, JobInvariant, PTL DEF Spec

-----------------------------------------------------------------------------
(* Whole outputs. *)

\* A file of which nothing was left out.
LEMMA AllRead ==
  ASSUME NEW j, NEW fs, PlanOK(j.kind, j.plan), Reading(j, fs), j.open, j.todo = <<>>, ~j.stopped
  PROVE  /\ fs[j.name] = CopiesUpto(j.plan)[Len(j.plan)]
         /\ \A i \in DOMAIN j.plan : Mapped(j.plan[i]) /\ InDevice(j.plan[i])
<1> DEFINE plan == j.plan
           k == Len(plan) - Len(j.todo)
<1>1. plan \in Seq(Exts)
  BY DEF PlanOK
<1>2. Len(plan) \in Nat /\ DOMAIN plan = 1 .. Len(plan)
  BY <1>1
<1>3. k = Len(plan)
  <2> DEFINE a == Len(plan)
  <2>1. Len(j.todo) = 0 /\ a \in Nat
    BY <1>2
  <2> HIDE DEF a
  <2>2. a - 0 = a
    BY <2>1
  <2> QED
    BY <2>1, <2>2 DEF a
<1>4. fs[j.name] = Upto(plan, k, j.done) /\ \A i \in 1 .. k : Mapped(plan[i]) /\ InDevice(plan[i])
  BY DEF Reading
<1> HIDE DEF k, plan
<1>5. Upto(plan, k, j.done) = CopiesUpto(plan)[Len(plan)]
  BY <1>3 DEF Upto
<1>6. /\ fs[j.name] = CopiesUpto(plan)[Len(plan)]
      /\ \A i \in DOMAIN plan : Mapped(plan[i]) /\ InDevice(plan[i])
  BY <1>2, <1>3, <1>4, <1>5
<1> QED
  BY <1>6 DEF plan

\* The content such a file should have.
LEMMA TargetAll ==
  ASSUME NEW kind \in JobKinds \ {"inline", "indirect", "journal"}, NEW plan, NEW size,
         \A i \in DOMAIN plan : Mapped(plan[i]) /\ InDevice(plan[i])
  PROVE  Target(kind, plan, size) = CopiesUpto(plan)[Len(plan)]
<1> DEFINE odd == {i \in DOMAIN plan : plan[i] = NoWay \/ ~InDevice(plan[i])}
<1>1. ~Mapped(NoWay)
  BY DEF Mapped, NoWay
<1>2. odd = {}
  BY <1>1
<1> HIDE DEF odd
<1>3. CASE kind = "inode"
  BY <1>2, <1>3 DEF Target, odd
<1>4. CASE kind # "inode"
  BY <1>4 DEF Target
<1> QED
  BY <1>3, <1>4

\* The chunks before the one that runs past the end of the device.
LEMMA FittingIs ==
  ASSUME NEW e \in Exts, Mapped(e), NEW d \in Nat, d < e.len,
         d # 0 => e.start + d <= TotalBlocks /\ \E c \in 0 .. d : d = Chunk * c,
         ~ \A b \in e.start + d .. e.start + d + ChunkLen(e, d) - 1 : b \in Blocks
  PROVE  Fitting(e) = d /\ ~InDevice(e)
<1> DEFINE s == e.start
           n == e.len
           t == ChunkLen(e, d)
           T == TotalBlocks
<1>1. s \in Nat /\ n \in Nat /\ s # 0 /\ T \in Nat /\ Chunk \in Nat \ {0} /\ d < n
  BY TreeAssumption, RunAssumption DEF Exts, Mapped
<1>2. t = IF n - d > Chunk THEN Chunk ELSE n - d
  BY DEF ChunkLen
<1>3. PICK b \in s + d .. s + d + t - 1 : b \notin 1 .. T - 1
  BY DEF Blocks
<1>4. d # 0 => s + d <= T /\ \E c \in 0 .. d : d = Chunk * c
  OBVIOUS
<1>5. e # NoWay
  BY DEF NoWay, Mapped
<1>6. Fitting(e) = IF s >= T THEN 0 ELSE Chunk * ((T - s) \div Chunk)
  BY <1>5 DEF Fitting
<1> HIDE DEF s, n, t, T
<1>7. t \in Nat /\ t <= Chunk /\ d + t <= n
  BY <1>1, <1>2
<1>8. s + d + t > T /\ s + n > T
  <2>1. b \in Int /\ b >= s + d /\ b <= s + d + t - 1 /\ b >= 1
    BY <1>1, <1>3, <1>7
  <2>2. b > T - 1
    BY <1>1, <1>3, <2>1
  <2> QED
    BY <1>1, <1>7, <2>1, <2>2
<1>9. ~InDevice(e)
  <2>1. ~(s + n <= T)
    BY <1>1, <1>8
  <2> QED
    BY <2>1 DEF InDevice, s, n, T
<1>10. CASE s >= T
  <2>1. d = 0
    BY <1>1, <1>4, <1>10
  <2> QED
    BY <1>6, <1>9, <1>10, <2>1
<1>11. CASE ~(s >= T)
  <2>1. PICK c \in 0 .. d : d = Chunk * c
    <3>1. CASE d = 0
      <4>1. 0 \in 0 .. d /\ d = Chunk * 0
        BY <1>1, <3>1
      <4> QED
        BY <4>1
    <3>2. CASE d # 0
      BY <1>4, <3>2
    <3> QED
      BY <3>1, <3>2
  <2>2. s + d <= T
    BY <1>1, <1>4, <1>11
  <2> DEFINE r == T - s - d
  <2>3. r \in Nat /\ r < Chunk /\ T - s = d + r /\ T - s \in Nat /\ c \in Nat
    BY <1>1, <1>7, <1>8, <2>1, <2>2
  <2>4. T - s = Chunk * c + r
    BY <2>1, <2>3
  <2> HIDE DEF r
  <2>5. (T - s) \div Chunk = c
    BY <1>1, <2>3, <2>4, DivUnique
  <2> QED
    BY <1>6, <1>9, <1>11, <2>1, <2>5
<1> QED
  BY <1>10, <1>11

\* The travel of an inode ends where it was bound to.
LEMMA TargetStopped ==
  ASSUME NEW plan \in Seq(Exts), NEW k \in 0 .. Len(plan) - 1, NEW d \in Nat, NEW size,
         \A i \in 1 .. k : Mapped(plan[i]) /\ InDevice(plan[i]),
         plan[k + 1] = NoWay \/ ~InDevice(plan[k + 1]), Fitting(plan[k + 1]) = d
  PROVE  Target("inode", plan, size) = Upto(plan, k, d)
<1> DEFINE odd == {i \in DOMAIN plan : plan[i] = NoWay \/ ~InDevice(plan[i])}
           end == CHOOSE i \in odd : \A j \in odd : i <= j
<1>1. Len(plan) \in Nat /\ DOMAIN plan = 1 .. Len(plan)
  OBVIOUS
<1>2. ~Mapped(NoWay)
  BY DEF Mapped, NoWay
<1>3. k \in Nat /\ k + 1 \in odd
  BY <1>1
<1>4. \A i \in odd : i \in Nat /\ i >= k + 1
  <2> TAKE i \in odd
  <2>1. i \in Nat \ {0} /\ i \notin 1 .. k
    BY <1>1, <1>2
  <2> QED
    BY <1>3, <2>1
<1> HIDE DEF odd
<1>5. end \in odd /\ \A j \in odd : end <= j
  <2>1. \A j \in odd : k + 1 <= j
    BY <1>3, <1>4
  <2> QED
    BY <1>3, <2>1
<1> HIDE DEF end
<1>6. end = k + 1
  BY <1>3, <1>4, <1>5
<1>7. Target("inode", plan, size) = Upto(plan, end - 1, Fitting(plan[end]))
  BY <1>3 DEF Target, odd, end
<1>8. end - 1 = k
  BY <1>3, <1>6
<1> QED
  BY <1>6, <1>7, <1>8

\* Nothing has gone wrong, and the parts of WholeInv.
Smooth == mishaps = 0 /\ disk.bad = {}
Done(fs, ps, j) ==
    \A n \in DOMAIN fs \cap DOMAIN ps :
        fs[n] = ps[n] \/ (j # NoJob /\ j.open /\ j.name = n)
Aimed(ps, j) ==
    j # NoJob /\ j.open /\ j.kind \notin {"journal", "probe"} =>
        ps[j.name] = Target(j.kind, j.plan, j.size)
Halted(fs, j) ==
    j # NoJob /\ j.stopped =>
        /\ j.open /\ j.kind = "inode" /\ j.todo = <<>>
        /\ fs[j.name] = Target("inode", j.plan, j.size)

\* WholeInv, from its parts.
LEMMA WholeIs == WholeInv <=> (Smooth => Done(files, planned, job) /\ Aimed(planned, job) /\ Halted(files, job))
  BY DEF WholeInv, Smooth, Done, Aimed, Halted

\* WholeInv in the next state, from its parts.
LEMMA WholeNext ==
  WholeInv' <=> (Smooth' => Done(files', planned', job') /\ Aimed(planned', job') /\ Halted(files', job'))
  BY DEF WholeInv, Smooth, Done, Aimed, Halted

\* A mishap is counted.
LEMMA MishapCounts ==
  ASSUME NamesInv, Mishap
  PROVE  mishaps' # 0
<1>1. mishaps \in 0 .. MaxMishaps /\ MaxMishaps \in Nat /\ mishaps' = mishaps + 1
  BY NamesAssumption DEF NamesInv, NamesTypeOK, Mishap
<1> QED
  BY <1>1

\* What is smooth after a step was smooth before it.
LEMMA StillSmooth ==
  ASSUME NamesInv, Mishap \/ UNCHANGED mishaps, UNCHANGED disk, Smooth'
  PROVE  Smooth /\ UNCHANGED mishaps
  BY MishapCounts DEF Smooth

\* A job that is not open is in nobody's way.
LEMMA StartsClosed ==
  ASSUME NEW dev, NEW j, Starts(dev, j)
  PROVE  ~j.open /\ ~j.stopped
<1>1. PICK kind, src, name, plan, size : j = Job(kind, src, name, plan, size)
  BY DEF Starts
<1> QED
  BY <1>1, Fields

\* A job that is not open yet.
LEMMA FreshJob ==
  ASSUME NEW fs, NEW ps, NEW dev, NEW j, j = NoJob \/ Starts(dev, j), \A n \in DOMAIN fs \cap DOMAIN ps : fs[n] = ps[n]
  PROVE  Done(fs, ps, j) /\ Aimed(ps, j) /\ Halted(fs, j)
<1>1. j # NoJob => ~j.open /\ ~j.stopped
  BY StartsClosed
<1> QED
  BY <1>1 DEF Done, Aimed, Halted

\* Without an open job every output is done.
LEMMA AllDone ==
  ASSUME NEW fs, NEW ps, NEW j, Done(fs, ps, j), j = NoJob \/ ~j.open
  PROVE  \A n \in DOMAIN fs \cap DOMAIN ps : fs[n] = ps[n]
  BY DEF Done

\* Resolving a name meets one mishap at most.
LEMMA ResolvesCounted == Resolves => Counted
  BY DEF Resolves, resolve_output_name, Counted

\* Steps of the loops keep WholeInv.
LEMMA LoopingWhole ==
  ASSUME NameState, JournalInv, JobInv, WholeInv, Looping
  PROVE  WholeInv'
<1> SUFFICES ASSUME Smooth' PROVE Done(files', planned', job') /\ Aimed(planned', job') /\ Halted(files', job')
  BY WholeNext
<1>1. NamesInv /\ disk \in Disks
  BY DEF NameState, PhaseInv
<1>2. /\ job' = job \/ job' = NoJob \/ Starts(disk, job')
      /\ UNCHANGED <<disk, files, planned>> /\ job = NoJob
  BY <1>1, LoopingStarts
<1>3. Smooth
  <2>1. mishaps \in 0 .. MaxMishaps /\ MaxMishaps \in Nat
    BY <1>1, NamesAssumption DEF NamesInv, NamesTypeOK
  <2>2. Counted
    BY LoopingInside, ResolvesCounted DEF Inside, Quiet
  <2>3. mishaps <= mishaps'
    BY <2>1, <2>2, MishapsCounted
  <2> QED
    BY <1>2, <2>1, <2>3 DEF Smooth
<1>4. \A n \in DOMAIN files \cap DOMAIN planned : files[n] = planned[n]
  BY <1>2, <1>3, WholeIs, AllDone
<1> QED
  BY <1>2, <1>4, FreshJob

\* A job opens its file, and WholeInv holds.
LEMMA OpenFileWhole ==
  ASSUME NameState, JobInv, WholeInv, OpenFile
  PROVE  WholeInv'
<1> SUFFICES ASSUME Smooth' PROVE Done(files', planned', job') /\ Aimed(planned', job') /\ Halted(files', job')
  BY WholeNext
<1> DEFINE n == job.name
           target == Target(job.kind, job.plan, job.size)
<1>1. /\ job # NoJob /\ ~job.open /\ job' = [job EXCEPT !.open = TRUE] /\ files' = Put(files, n, NoFile)
      /\ UNCHANGED <<disk, mishaps>>
      /\ \/ job.kind \in {"journal", "probe"} /\ UNCHANGED planned
         \/ planned' = Put(planned, n, target)
  BY DEF OpenFile
<1>2. Smooth
  BY <1>1 DEF Smooth
<1>3. \A m \in DOMAIN files \cap DOMAIN planned : files[m] = planned[m]
  BY <1>1, <1>2, WholeIs, AllDone
<1>4. JobOK(disk, job) /\ Reading(job, files)
  BY <1>1 DEF JobInv
<1>5. ~job.stopped /\ DOMAIN job = JobFields
  BY <1>1, <1>4 DEF Reading, JobOK
<1>6. /\ job'.open /\ job'.name = n /\ job'.kind = job.kind /\ job'.plan = job.plan
      /\ job'.size = job.size /\ ~job'.stopped /\ job' # NoJob
  <2>1. Updated(job, job', {"open"})
    BY <1>1, <1>5, Fields DEF Updated
  <2>2. job'.open
    BY <1>1, <1>5, Fields
  <2> QED
    BY <1>5, <2>1, <2>2, Fields, HasFields DEF Updated
<1> HIDE DEF n, target
<1>7. Done(files', planned', job')
  <2> SUFFICES ASSUME NEW m \in DOMAIN files' \cap DOMAIN planned', m # n PROVE files'[m] = planned'[m]
    BY <1>6 DEF Done
  <2>1. m \in DOMAIN files /\ files'[m] = files[m]
    BY <1>1 DEF Put
  <2>2. m \in DOMAIN planned /\ planned'[m] = planned[m]
    BY <1>1 DEF Put
  <2> QED
    BY <1>3, <2>1, <2>2
<1>8. Aimed(planned', job')
  <2>1. job'.kind \notin {"journal", "probe"} => planned'[n] = target
    BY <1>1, <1>6 DEF Put
  <2> QED
    BY <1>6, <2>1 DEF Aimed, target, n
<1> QED
  BY <1>6, <1>7, <1>8 DEF Halted

\* A job copies a chunk, and WholeInv holds.
LEMMA CopyChunkWhole ==
  ASSUME NameState, JobInv, WholeInv, CopyChunk
  PROVE  WholeInv'
<1> SUFFICES ASSUME Smooth' PROVE Done(files', planned', job') /\ Aimed(planned', job') /\ Halted(files', job')
  BY WholeNext
<1>1. UNCHANGED <<disk, mishaps, planned>> /\ job.todo # <<>>
  BY DEF CopyChunk, Copying
<1>2. Done(files, planned, job) /\ Aimed(planned, job) /\ Halted(files, job)
  BY <1>1, WholeIs DEF Smooth
<1>3. /\ Only(job.name) /\ job # NoJob /\ job' # NoJob /\ job.open /\ job'.open
      /\ job'.name = job.name /\ job'.kind = job.kind /\ job'.plan = job.plan
      /\ job'.size = job.size /\ job'.stopped = job.stopped
  BY ChunkStep
<1>4. ~job'.stopped
  BY <1>1, <1>2, <1>3 DEF Halted
<1>5. Done(files', planned', job')
  <2> SUFFICES ASSUME NEW m \in DOMAIN files' \cap DOMAIN planned', m # job.name PROVE files'[m] = planned'[m]
    BY <1>3 DEF Done
  <2>1. m \in DOMAIN files /\ files'[m] = files[m]
    BY <1>3 DEF Only
  <2> QED
    BY <1>1, <1>2, <2>1 DEF Done
<1>6. Aimed(planned', job')
  BY <1>1, <1>2, <1>3 DEF Aimed
<1> QED
  BY <1>4, <1>5, <1>6 DEF Halted

\* A chunk that cannot be copied: with no mishap it is the end of the device.
LEMMA ChunkFailsWhole ==
  ASSUME NameState, JobInv, WholeInv, ChunkFails
  PROVE  WholeInv'
<1> SUFFICES ASSUME Smooth' PROVE Done(files', planned', job') /\ Aimed(planned', job') /\ Halted(files', job')
  BY WholeNext
<1> DEFINE e == job.todo[1]
           d == job.done
           plan == job.plan
           k == Len(plan) - Len(job.todo)
<1>0. NamesInv
  BY DEF NameState
<1>1. /\ UNCHANGED <<disk, planned>> /\ job.todo # <<>>
      /\ (~Readable /\ UNCHANGED <<files, mishaps>>) \/ Mishap
      /\ job' = [job EXCEPT !.todo = IF job.kind = "inode" THEN <<>> ELSE Tail(@),
                            !.done = 0, !.stopped = TRUE]
  BY DEF ChunkFails, Copying
<1>2. ~Readable /\ UNCHANGED <<files, mishaps>> /\ disk.bad = {}
  BY <1>0, <1>1, MishapCounts DEF Smooth
<1>3. Done(files, planned, job) /\ Aimed(planned, job) /\ Halted(files, job)
  BY <1>1, <1>2, WholeIs DEF Smooth
<1>4. /\ job # NoJob /\ job' # NoJob /\ job.open /\ job'.open
      /\ job'.name = job.name /\ job'.kind = job.kind /\ job'.plan = plan /\ job'.size = job.size
  BY FailStep
<1>5. JobOK(disk, job) /\ Reading(job, files)
  BY <1>4 DEF JobInv
<1>6. PlanOK(job.kind, plan) /\ DOMAIN job = JobFields
  BY <1>5 DEF JobOK
<1>7. ~job.stopped
  BY <1>1, <1>3, <1>4 DEF Halted
<1>8. /\ k \in 0 .. Len(plan) - 1 /\ e = plan[k + 1] /\ e \in Exts
      /\ e = NoWay \/ (Mapped(e) /\ d < e.len)
      /\ job.kind # "inode" => Mapped(e) /\ InDevice(e)
  BY <1>1, <1>5, <1>6, NextExtent
<1>9. /\ plan \in Seq(Exts) /\ d \in Nat
      /\ d # 0 => /\ d < e.len /\ e.start + d <= TotalBlocks /\ \E c \in 0 .. d : d = Chunk * c
      /\ \A i \in 1 .. k : Mapped(plan[i]) /\ InDevice(plan[i])
      /\ files[job.name] = Upto(plan, k, d)
  BY <1>4, <1>5, <1>6, <1>7 DEF Reading, PlanOK
<1>10. e = NoWay \/ ~ \A b \in e.start + d .. e.start + d + ChunkLen(e, d) - 1 : b \in Blocks
  <2>1. Readable <=> /\ e # NoWay
                     /\ \A b \in e.start + d .. e.start + d + ChunkLen(e, d) - 1 : b \in Blocks \ disk.bad
    BY DEF Readable, Extent, This, ChunkLen
  <2> HIDE DEF e, d
  <2>2. Blocks \ disk.bad = Blocks
    BY <1>2
  <2> QED
    BY <1>2, <2>1, <2>2
<1>11. Fitting(e) = d /\ (e = NoWay \/ ~InDevice(e))
  <2>1. CASE e = NoWay
    <3>1. Fitting(e) = 0
      BY <2>1 DEF Fitting
    <3>2. e.len = 0
      BY <2>1 DEF NoWay
    <3> HIDE DEF e, d
    <3>3. d = 0
      BY <1>9, <3>2
    <3> QED
      BY <2>1, <3>1, <3>3
  <2>2. CASE e # NoWay
    <3> HIDE DEF e, d
    <3>1. Mapped(e) /\ d < e.len
      BY <1>8, <2>2
    <3>2. ~ \A b \in e.start + d .. e.start + d + ChunkLen(e, d) - 1 : b \in Blocks
      BY <1>10, <2>2
    <3>3. d # 0 => e.start + d <= TotalBlocks /\ \E c \in 0 .. d : d = Chunk * c
      BY <1>9
    <3> QED
      BY <1>8, <1>9, <3>1, <3>2, <3>3, FittingIs
  <2> QED
    BY <2>1, <2>2
<1>12. job.kind = "inode"
  <2>1. ~Mapped(NoWay)
    BY DEF Mapped, NoWay
  <2> HIDE DEF e, d, plan, k
  <2> QED
    BY <1>8, <1>11, <2>1
<1>13. Target("inode", plan, job.size) = Upto(plan, k, d)
  <2> DEFINE size == job.size
  <2>1. (plan[k + 1] = NoWay \/ ~InDevice(plan[k + 1])) /\ Fitting(plan[k + 1]) = d
    BY <1>8, <1>11
  <2> HIDE DEF e, d, plan, k, size
  <2>2. Target("inode", plan, size) = Upto(plan, k, d)
    BY <1>8, <1>9, <2>1, TargetStopped
  <2> QED
    BY <2>2 DEF size
<1>14. job'.todo = <<>>
  BY <1>1, <1>6, <1>12, Fields
<1> HIDE DEF plan
<1>15. Halted(files', job')
  BY <1>2, <1>4, <1>9, <1>12, <1>13, <1>14 DEF Halted
<1>16. Done(files', planned', job')
  BY <1>1, <1>2, <1>3, <1>4 DEF Done
<1>17. Aimed(planned', job')
  BY <1>1, <1>3, <1>4 DEF Aimed, plan
<1> QED
  BY <1>15, <1>16, <1>17

\* Steps that open and write files keep WholeInv.
LEMMA WritingWhole ==
  ASSUME NameState, JobInv, WholeInv, Writing
  PROVE  WholeInv'
<1>1. CASE OpenFails
  <2>1. NamesInv /\ Mishap
    BY <1>1 DEF NameState, OpenFails
  <2> QED
    BY <2>1, MishapCounts, WholeNext DEF Smooth
<1> QED
  BY <1>1, OpenFileWhole, CopyChunkWhole, ChunkFailsWhole DEF Writing

\* All that an open job had to read is in its file.
LEMMA JobWhole ==
  ASSUME JobInv, Aimed(planned, job), Halted(files, job), job # NoJob, job.open, job.todo = <<>>,
         job.kind \in {"inode", "tree", "leaf", "targeted"}
  PROVE  files[job.name] = planned[job.name]
<1>1. JobOK(disk, job) /\ Reading(job, files)
  BY DEF JobInv
<1>2. PlanOK(job.kind, job.plan)
  BY <1>1 DEF JobOK
<1>3. planned[job.name] = Target(job.kind, job.plan, job.size)
  BY DEF Aimed
<1>4. CASE job.stopped
  BY <1>3, <1>4 DEF Halted
<1>5. CASE ~job.stopped
  <2> DEFINE kind == job.kind
             plan == job.plan
             size == job.size
  <2>1. /\ files[job.name] = CopiesUpto(plan)[Len(plan)]
        /\ \A i \in DOMAIN plan : Mapped(plan[i]) /\ InDevice(plan[i])
    BY <1>1, <1>2, <1>5, AllRead
  <2>2. kind \in JobKinds \ {"inline", "indirect", "journal"}
    BY DEF JobKinds
  <2> HIDE DEF kind, plan, size
  <2>3. Target(kind, plan, size) = CopiesUpto(plan)[Len(plan)]
    BY <2>1, <2>2, TargetAll
  <2> QED
    BY <1>3, <2>1, <2>3 DEF kind, plan, size
<1> QED
  BY <1>4, <1>5

\* The job ends, and its file is done or gone.
LEMMA JobEnds ==
  ASSUME UNCHANGED planned, Done(files, planned, job), job # NoJob, Only(job.name),
         job' = NoJob \/ Starts(disk, job'),
         job.name \in DOMAIN files' /\ job.name \in DOMAIN planned => files'[job.name] = planned[job.name]
  PROVE  Done(files', planned', job') /\ Aimed(planned', job') /\ Halted(files', job')
<1>1. ASSUME NEW n \in DOMAIN files' \cap DOMAIN planned' PROVE files'[n] = planned'[n]
  <2>1. CASE n = job.name
    BY <1>1, <2>1
  <2>2. CASE n # job.name
    <3>1. n \in DOMAIN files /\ files'[n] = files[n]
      BY <1>1, <2>2 DEF Only
    <3> QED
      BY <1>1, <2>2, <3>1 DEF Done
  <2> QED
    BY <2>1, <2>2
<1> QED
  BY <1>1, FreshJob

\* The file of block pointers is whole when its job ends.
LEMMA IndirectWhole ==
  ASSUME JobInv, Aimed(planned, job), Halted(files, job), Copied({"indirect"}), NEW cut \in BOOLEAN,
         cut = (job.ok # 0 /\ job.size < Len(job.plan)), job.ok # 0
  PROVE  (IF cut THEN Cut(files[job.name], job.size) ELSE files[job.name]) = planned[job.name]
<1>1. job # NoJob /\ job.open /\ job.todo = <<>> /\ job.kind = "indirect"
  BY DEF Copied
<1>2. JobOK(disk, job) /\ Reading(job, files)
  BY <1>1 DEF JobInv
<1>3. PlanOK(job.kind, job.plan)
  BY <1>2 DEF JobOK
<1>4. planned[job.name] = Target("indirect", job.plan, job.size)
  BY <1>1 DEF Aimed
<1>5. ~job.stopped
  BY <1>1 DEF Halted
<1>6. files[job.name] = CopiesUpto(job.plan)[Len(job.plan)]
  BY <1>1, <1>2, <1>3, <1>5, AllRead
<1>7. Target("indirect", job.plan, job.size) =
        IF job.size < Len(job.plan) THEN Cut(CopiesUpto(job.plan)[Len(job.plan)], job.size)
        ELSE CopiesUpto(job.plan)[Len(job.plan)]
  BY DEF Target
<1> QED
  BY <1>4, <1>6, <1>7

\* Steps that end a job keep WholeInv.
LEMMA ClosingWhole ==
  ASSUME NameState, JournalInv, JobInv, WholeInv, Closing
  PROVE  WholeInv'
<1> SUFFICES ASSUME Smooth' PROVE Done(files', planned', job') /\ Aimed(planned', job') /\ Halted(files', job')
  BY WholeNext
<1>0. NamesInv /\ disk \in Disks
  BY DEF NameState, PhaseInv
<1>1. /\ UNCHANGED disk /\ job # NoJob /\ job.open
      /\ RevokedTree \/ job.todo = <<>>
  BY DEF Closing, InodeDone, BlockDone, Promote, PromoteFails, IndirectDone, InlineDone, RevokedTree, Copied
<1>2. Smooth
  <2>1. mishaps \in 0 .. MaxMishaps /\ MaxMishaps \in Nat
    BY <1>0, NamesAssumption DEF NamesInv, NamesTypeOK
  <2>2. Counted
    BY ClosingInside, ResolvesCounted DEF Inside, Quiet
  <2>3. mishaps <= mishaps'
    BY <2>1, <2>2, MishapsCounted
  <2> QED
    BY <1>1, <2>1, <2>3 DEF Smooth
<1>3. Done(files, planned, job) /\ Aimed(planned, job) /\ Halted(files, job)
  BY <1>2, WholeIs
<1>4. job' = NoJob \/ Starts(disk, job')
  BY <1>0, ClosingJob
<1>5. JobOK(disk, job) /\ Reading(job, files)
  BY <1>1 DEF JobInv
<1>6. job.name \in DOMAIN files
  BY <1>1, <1>5 DEF Reading
<1>7. ~Mishap
  BY <1>0, MishapCounts DEF Smooth
<1>8. UNCHANGED planned /\ files' = Without(files, job.name) =>
        Done(files', planned', job') /\ Aimed(planned', job') /\ Halted(files', job')
  <2> SUFFICES ASSUME UNCHANGED planned, files' = Without(files, job.name)
               PROVE  Done(files', planned', job') /\ Aimed(planned', job') /\ Halted(files', job')
    OBVIOUS
  <2>1. Only(job.name) /\ job.name \notin DOMAIN files'
    BY FilesWithout DEF Without
  <2> QED
    BY <1>1, <1>3, <1>4, <2>1, JobEnds
<1>9. UNCHANGED files => Only(job.name)
  BY DEF Only
<1>10. CASE InodeDone
  <2>1. UNCHANGED <<files, planned>> /\ job.kind = "inode" /\ job.todo = <<>>
    BY <1>10 DEF InodeDone, dirvars, Copied
  <2>2. files[job.name] = planned[job.name]
    BY <1>1, <1>3, <2>1, JobWhole
  <2> QED
    BY <1>1, <1>3, <1>4, <1>9, <2>1, <2>2, JobEnds
<1>11. CASE BlockDone
  <2>1. /\ UNCHANGED planned /\ job.kind \in {"tree", "leaf", "targeted"} /\ job.todo = <<>>
        /\ UNCHANGED files \/ files' = Without(files, job.name)
    BY <1>11 DEF BlockDone, Copied
  <2>2. files[job.name] = planned[job.name]
    BY <1>1, <1>3, <2>1, JobWhole
  <2> QED
    BY <1>1, <1>3, <1>4, <1>8, <1>9, <2>1, <2>2, JobEnds
<1>12. CASE Promote
  <2> DEFINE final == <<"out", Resolved(job.src)>>
  <2>1. PICK cut, w :
          /\ files' = Put(Without(files, job.name), final, IF cut THEN Cut(files[job.name], job.size) ELSE files[job.name])
          /\ owner' = Put(owner, final, [src |-> job.src, by |-> "journal"])
          /\ planned' = Put(planned, final, w)
    BY <1>12 DEF Promote
  <2>2. JournalAtomic'
    <3>1. JournalInv'
      BY <1>12, PromoteJournal
    <3> QED
      BY <3>1 DEF JournalInv
  <2> HIDE DEF final
  <2>3. files'[final] = planned'[final]
    <3>1. final \in DOMAIN owner' /\ owner'[final].by = "journal"
      BY <2>1 DEF Put
    <3> QED
      BY <2>2, <3>1 DEF JournalAtomic
  <2>4. ASSUME NEW n \in DOMAIN files' \cap DOMAIN planned' PROVE files'[n] = planned'[n]
    <3>1. CASE n = final
      BY <2>3, <3>1
    <3>2. CASE n # final
      <4>1. n \in DOMAIN files /\ n # job.name /\ files'[n] = files[n]
        BY <2>1, <2>4, <3>2 DEF Put, Without
      <4>2. n \in DOMAIN planned /\ planned'[n] = planned[n]
        BY <2>1, <2>4, <3>2 DEF Put
      <4> QED
        BY <1>3, <4>1, <4>2 DEF Done
    <3> QED
      BY <3>1, <3>2
  <2> QED
    BY <1>4, <2>4, FreshJob
<1>13. CASE PromoteFails
  <2>1. files' = Without(files, job.name) /\ UNCHANGED planned
    BY <1>13 DEF PromoteFails
  <2> QED
    BY <1>8, <2>1
<1>14. CASE IndirectDone
  <2>1. PICK cut \in BOOLEAN :
          /\ Truncate(job.ok # 0 /\ job.size < Len(job.plan), cut)
          /\ files' = IF job.ok = 0 THEN Without(files, job.name)
                      ELSE IF cut THEN [files EXCEPT ![job.name] = Cut(@, job.size)] ELSE files
    BY <1>14 DEF IndirectDone
  <2>2. UNCHANGED planned /\ Copied({"indirect"})
    BY <1>14 DEF IndirectDone
  <2>3. cut = (job.ok # 0 /\ job.size < Len(job.plan))
    BY <1>7, <2>1 DEF Truncate
  <2>4. CASE job.ok = 0
    BY <1>8, <2>1, <2>2, <2>4
  <2>5. CASE job.ok # 0
    <3>1. (IF cut THEN Cut(files[job.name], job.size) ELSE files[job.name]) = planned[job.name]
      BY <1>3, <2>2, <2>3, <2>5, IndirectWhole
    <3>2. files' = files \/ files' = [files EXCEPT ![job.name] = Cut(files[job.name], job.size)]
      BY <2>1, <2>5
    <3>3. Only(job.name)
      BY <1>9, <3>2, FilesExcept
    <3>4. files'[job.name] = planned[job.name]
      BY <1>6, <2>1, <2>5, <3>1
    <3> QED
      BY <1>1, <1>3, <1>4, <2>2, <3>3, <3>4, JobEnds
  <2> QED
    BY <2>4, <2>5
<1>15. CASE InlineDone
  <2>1. files' = [files EXCEPT ![job.name] = Inline] /\ UNCHANGED planned /\ job.kind = "inline"
    BY <1>7, <1>15 DEF InlineDone, Copied
  <2>2. planned[job.name] = Target("inline", job.plan, job.size)
    BY <1>1, <1>3, <2>1 DEF Aimed
  <2>3. planned[job.name] = Inline
    BY <2>2 DEF Target
  <2>4. files'[job.name] = Inline /\ Only(job.name)
    BY <1>6, <2>1, FilesExcept
  <2> QED
    BY <1>1, <1>3, <1>4, <2>1, <2>3, <2>4, JobEnds
<1>16. CASE RevokedTree
  <2>1. UNCHANGED <<files, planned>> /\ job.kind = "probe"
    BY <1>16 DEF RevokedTree, dirvars, Copied
  <2>2. job.name = <<"targeted", job.src>> /\ ~(read_tree_block_versioned(disk, job.src).depth = 0)
    BY <1>5, <2>1 DEF JobOK
  <2>3. job.name[1] = "targeted" /\ job.name[2] = job.src
    BY <2>2
  <2>4. job.name \notin DOMAIN planned
    BY <2>2, <2>3 DEF JobInv, PlannedNames
  <2> QED
    BY <1>1, <1>3, <1>4, <1>9, <2>1, <2>4, JobEnds
<1> QED
  BY <1>10, <1>11, <1>12, <1>13, <1>14, <1>15, <1>16 DEF Closing

\* Every step keeps WholeInv.
LEMMA NextWhole == NameState /\ JournalInv /\ JobInv /\ WholeInv /\ [Next]_vars => WholeInv'
<1> SUFFICES ASSUME NameState, JournalInv, JobInv, WholeInv, [Next]_vars PROVE WholeInv'
  OBVIOUS
<1>1. NamesInv
  BY DEF NameState
<1>2. CASE Looping
  BY <1>2, LoopingWhole
<1>3. CASE Writing
  BY <1>3, WritingWhole
<1>4. CASE Closing
  BY <1>4, ClosingWhole
<1>5. CASE Setup \/ SetupFails \/ AddName \/ NamesDone \/ PhaseDone \/ CheckpointWritten \/ Report \/ Clear
  <2>1. UNCHANGED <<disk, files, planned, job>>
    BY <1>5 DEF Setup, SetupFails, AddName, NamesDone, PhaseDone, CheckpointWritten, Report, Clear, dirvars
  <2>2. Mishap \/ UNCHANGED mishaps
    <3>1. CASE AddName
      BY <3>1 DEF AddName, add_filename_mapping, RefuseName, GrowFails, UpdateName, AppendName
    <3>2. CASE Setup
      BY <3>2 DEF Setup, init_filename_map
    <3>3. CASE SetupFails \/ NamesDone \/ PhaseDone \/ CheckpointWritten \/ Report \/ Clear
      BY <3>3 DEF SetupFails, NamesDone, PhaseDone, CheckpointWritten, Report, Clear
    <3> QED
      BY <1>5, <3>1, <3>2, <3>3
  <2>3. Smooth' => Smooth
    BY <1>1, <2>1, <2>2, StillSmooth
  <2> QED
    BY <2>1, <2>3, WholeIs, WholeNext
<1>6. CASE Crash
  <2>1. Mishap
    BY <1>6 DEF Crash
  <2> QED
    BY <1>1, <2>1, MishapCounts, WholeNext DEF Smooth
<1>7. CASE UNCHANGED vars
  <2>1. UNCHANGED <<disk, files, planned, job, mishaps>>
    BY <1>7 DEF vars
  <2> QED
    BY <2>1 DEF WholeInv
<1> QED
  BY <1>2, <1>3, <1>4, <1>5, <1>6, <1>7 DEF Next, Program, Finished

\* WholeInv holds at the start.
LEMMA InitWhole == Init => WholeInv
<1> SUFFICES ASSUME Init PROVE WholeInv
  OBVIOUS
<1>1. planned = NoEntries /\ job = NoJob
  BY DEF Init
<1>2. DOMAIN planned = {}
  BY <1>1 DEF NoEntries
<1> QED
  BY <1>1, <1>2 DEF WholeInv

\* A run without failures on a readable device leaves every output as it was planned
\* when it was opened, whatever trees, pointers and names are on the disk: no phase
\* undoes what another has written, and a travel stops only where the disk makes it.
THEOREM UninterruptedIsWholeCorrect == Spec => []UninterruptedIsWhole
<1>1. Init => WholeInv
  BY InitWhole
<1>2. NameState /\ JournalInv /\ JobInv /\ WholeInv /\ [Next]_vars => WholeInv'
  BY NextWhole
<1>3. NameState /\ WholeInv => UninterruptedIsWhole
  <2> SUFFICES ASSUME NameState, WholeInv, phase = "done", Smooth
               PROVE  \A n \in DOMAIN files \cap DOMAIN planned : files[n] = planned[n]
    BY DEF UninterruptedIsWhole, Smooth
  <2>1. job = NoJob
    BY Phases DEF NameState, PhaseInv
  <2> QED
    BY <2>1, WholeIs, AllDone
<1> QED
  BY <1>1, <1>2, <1>3, NameStateInvariant, JournalInvariant, JobInvariant, PTL DEF Spec

-----------------------------------------------------------------------------
(* What is in a sequence. *)

\* A sequence with an element or another sequence behind it.
LEMMA AppendSet ==
  ASSUME NEW T, NEW s \in Seq(T), NEW x \in T
  PROVE  ToSet(Append(s, x)) = ToSet(s) \cup {x}
<1> DEFINE a == Append(s, x)
           n == Len(s)
<1>1. n \in Nat /\ DOMAIN s = 1 .. n /\ DOMAIN a = 1 .. n + 1 /\ a[n + 1] = x
      /\ \A i \in 1 .. n : a[i] = s[i]
  OBVIOUS
<1> HIDE DEF a, n
<1>2. \A i \in 1 .. n + 1 : i \in 1 .. n \/ i = n + 1
  BY <1>1
<1>3. n + 1 \in 1 .. n + 1 /\ \A i \in 1 .. n : i \in 1 .. n + 1
  BY <1>1
<1>4. ToSet(a) = ToSet(s) \cup {x}
  BY <1>1, <1>2, <1>3 DEF ToSet
<1> QED
  BY <1>4 DEF a

\* A sequence with another behind it.
LEMMA ConcatSet ==
  ASSUME NEW T, NEW s \in Seq(T), NEW t \in Seq(T)
  PROVE  ToSet(s \o t) = ToSet(s) \cup ToSet(t)
<1> DEFINE a == s \o t
           n == Len(s)
           m == Len(t)
<1>1. n \in Nat /\ m \in Nat /\ DOMAIN s = 1 .. n /\ DOMAIN t = 1 .. m /\ DOMAIN a = 1 .. n + m
      /\ \A i \in 1 .. n + m : a[i] = IF i <= n THEN s[i] ELSE t[i - n]
  OBVIOUS
<1> HIDE DEF a, n, m
<1>2. ASSUME NEW i \in 1 .. n + m PROVE a[i] \in ToSet(s) \cup ToSet(t)
  <2>1. CASE i <= n
    <3>1. i \in 1 .. n
      BY <1>1, <2>1
    <3> QED
      BY <1>1, <2>1, <3>1 DEF ToSet
  <2>2. CASE ~(i <= n)
    <3>1. i - n \in 1 .. m
      BY <1>1, <2>2
    <3> QED
      BY <1>1, <2>2, <3>1 DEF ToSet
  <2> QED
    BY <2>1, <2>2
<1>3. ASSUME NEW i \in 1 .. n PROVE s[i] \in ToSet(a)
  <2>1. i \in 1 .. n + m /\ i <= n
    BY <1>1
  <2> QED
    BY <1>1, <2>1 DEF ToSet
<1>4. ASSUME NEW i \in 1 .. m PROVE t[i] \in ToSet(a)
  <2>1. i + n \in 1 .. n + m /\ ~(i + n <= n) /\ (i + n) - n = i
    BY <1>1
  <2> QED
    BY <1>1, <2>1 DEF ToSet
<1>5. ToSet(a) \subseteq ToSet(s) \cup ToSet(t)
  BY <1>1, <1>2 DEF ToSet
<1>6. ToSet(s) \subseteq ToSet(a) /\ ToSet(t) \subseteq ToSet(a)
  BY <1>1, <1>3, <1>4 DEF ToSet
<1>7. ToSet(a) = ToSet(s) \cup ToSet(t)
  BY <1>5, <1>6
<1> QED
  BY <1>7 DEF a

\* What a sequence of a type has in it.
LEMMA SetType == \A T : \A s \in Seq(T) : ToSet(s) \subseteq T
  BY DEF ToSet

\* What is picked is what is at the positions.
LEMMA PickSet ==
  ASSUME NEW S, NEW s \in Seq(S), NEW I
  PROVE  ToSet(PickSeq(s, I)) = {s[i] : i \in DOMAIN s \cap I}
<1> DEFINE T == {s[i] : i \in DOMAIN s \cap I}
           N == Len(s)
<1>1. N \in Nat /\ DOMAIN s = 1 .. N
  OBVIOUS
<1>2. \A i \in DOMAIN s \cap I : s[i] \in T
  OBVIOUS
<1> HIDE DEF T
<1>3. PICK f : Picking(s, I, T, f) /\ PickSeq(s, I) = f[Len(s)]
  BY <1>2, PickSteps
<1>4. /\ f \in [0 .. N -> Seq(T)] /\ f[0] = <<>>
      /\ \A n \in 1 .. N : f[n] = IF n \in I THEN Append(f[n - 1], s[n]) ELSE f[n - 1]
  BY <1>3 DEF Picking
<1> HIDE DEF N
<1> DEFINE Ok == {n \in 0 .. N : \A i \in DOMAIN s \cap I : i <= n => s[i] \in ToSet(f[n])}
<1>5. 0 \in Ok
  <2>1. 0 \in 0 .. N /\ \A i \in DOMAIN s : ~(i <= 0)
    BY <1>1
  <2> QED
    BY <2>1
<1>6. ASSUME NEW n \in 1 .. N, n - 1 \in Ok PROVE n \in Ok
  <2> DEFINE g == f[n - 1]
  <2>1. n \in 0 .. N /\ n - 1 \in 0 .. N
    BY <1>1
  <2>2. g \in Seq(T)
    BY <1>4, <2>1
  <2>3. f[n] = IF n \in I THEN Append(g, s[n]) ELSE g
    BY <1>4
  <2>4. \A i \in DOMAIN s \cap I : i <= n - 1 => s[i] \in ToSet(g)
    BY <1>6
  <2> HIDE DEF g
  <2>5. \A i \in DOMAIN s : i <= n => i = n \/ i <= n - 1
    BY <1>1
  <2>6. CASE n \in I
    <3>1. s[n] \in T
      BY <1>1, <1>2, <2>6
    <3>2. ToSet(f[n]) = ToSet(g) \cup {s[n]}
      BY <2>2, <2>3, <2>6, <3>1, AppendSet
    <3> QED
      BY <2>1, <2>4, <2>5, <3>2
  <2>7. CASE n \notin I
    BY <2>1, <2>3, <2>4, <2>5, <2>7
  <2> QED
    BY <2>6, <2>7
<1>7. N \in Ok
  <2>1. \A n \in 0 .. N : n \in Ok
    <3> HIDE DEF Ok
    <3> QED
      BY <1>1, <1>5, <1>6, Induct
  <2>2. N \in 0 .. N
    BY <1>1
  <2> QED
    BY <2>1, <2>2
<1>8. T \subseteq ToSet(f[N])
  <2>1. \A i \in DOMAIN s : i <= N
    BY <1>1
  <2> QED
    BY <1>7, <2>1 DEF T
<1>9. ToSet(f[N]) \subseteq T
  <2>1. N \in 0 .. N
    BY <1>1
  <2>2. f[N] \in Seq(T)
    BY <1>4, <2>1
  <2> QED
    BY <2>2, SetType
<1>10. PickSeq(s, I) = f[N]
  BY <1>3 DEF N
<1> QED
  BY <1>8, <1>9, <1>10 DEF T

\* What is in the parts is in the whole, and nothing else is.
Gathers(ss, all) ==
    /\ \A i \in DOMAIN ss : ToSet(ss[i]) \subseteq ToSet(all)
    /\ \A x \in ToSet(all) : \E i \in DOMAIN ss : x \in ToSet(ss[i])

\* A sequence of sequences made one.
LEMMA FlattenGathers ==
  ASSUME NEW T, NEW ss \in Seq(Seq(T))
  PROVE  Gathers(ss, FlattenSeq(ss))
<1> DEFINE N == Len(ss)
           P == Seq(T)
<1>1. ss \in Seq(P)
  OBVIOUS
<1> HIDE DEF P
<1>2. N \in Nat /\ DOMAIN ss = 1 .. N /\ \A i \in 1 .. N : ss[i] \in P
  BY <1>1
<1>3. PICK f : Flattening(ss, T, f) /\ FlattenSeq(ss) = f[Len(ss)]
  BY FlattenSteps
<1>4. /\ f \in [0 .. N -> P] /\ f[0] = <<>>
      /\ \A n \in 1 .. N : f[n] = f[n - 1] \o ss[n]
  BY <1>3 DEF Flattening, P
<1>5. FlattenSeq(ss) = f[N]
  BY <1>3
<1> HIDE DEF N
<1> DEFINE Ok == {n \in 0 .. N : /\ \A i \in 1 .. N : i <= n => ToSet(ss[i]) \subseteq ToSet(f[n])
                                 /\ \A x \in ToSet(f[n]) : \E i \in 1 .. N : x \in ToSet(ss[i])}
<1>6. 0 \in Ok
  <2>1. 0 \in 0 .. N /\ \A i \in 1 .. N : ~(i <= 0)
    BY <1>2
  <2>2. ToSet(<<>>) = {}
    BY DEF ToSet
  <2> QED
    BY <1>4, <2>1, <2>2
<1>7. ASSUME NEW n \in 1 .. N, n - 1 \in Ok PROVE n \in Ok
  <2> DEFINE g == f[n - 1]
             r == ss[n]
  <2>1. n \in 0 .. N /\ n - 1 \in 0 .. N
    BY <1>2
  <2>2. g \in P /\ r \in P
    BY <1>2, <1>4, <2>1
  <2>3. f[n] = g \o r
    BY <1>4
  <2>4. /\ \A i \in 1 .. N : i <= n - 1 => ToSet(ss[i]) \subseteq ToSet(g)
        /\ \A x \in ToSet(g) : \E i \in 1 .. N : x \in ToSet(ss[i])
    BY <1>7
  <2> HIDE DEF g
  <2>5. \A i \in 1 .. N : i <= n => i = n \/ i <= n - 1
    BY <1>2
  <2>6. ToSet(f[n]) = ToSet(g) \cup ToSet(r)
    <3> HIDE DEF r
    <3> QED
      BY <2>2, <2>3, ConcatSet DEF P
  <2> QED
    BY <2>1, <2>4, <2>5, <2>6
<1>8. N \in Ok
  <2>1. \A n \in 0 .. N : n \in Ok
    <3> HIDE DEF Ok
    <3> QED
      BY <1>2, <1>6, <1>7, Induct
  <2>2. N \in 0 .. N
    BY <1>2
  <2> QED
    BY <2>1, <2>2
<1>9. \A i \in 1 .. N : i <= N
  BY <1>2
<1>10. /\ \A i \in 1 .. N : i <= N => ToSet(ss[i]) \subseteq ToSet(f[N])
       /\ \A x \in ToSet(f[N]) : \E i \in 1 .. N : x \in ToSet(ss[i])
  BY <1>8
<1> HIDE DEF Ok
<1>11. DOMAIN ss = 1 .. N
  BY <1>2
<1> QED
  BY <1>5, <1>9, <1>10, <1>11 DEF Gathers

-----------------------------------------------------------------------------
(* The order of the phases. *)

\* Where a phase is in the order.
RankOf(q) == CHOOSE i \in DOMAIN Order : Order[i] = q

\* The phases and their places.
LEMMA PhaseRanks ==
  /\ RankOf("orphan") = 1 /\ RankOf("journal") = 2 /\ RankOf("normal") = 3
  /\ RankOf("aggressive") = 4 /\ RankOf("targeted") = 5
<1>1. /\ DOMAIN Order = 1 .. 5
      /\ Order[1] = "orphan" /\ Order[2] = "journal" /\ Order[3] = "normal"
      /\ Order[4] = "aggressive" /\ Order[5] = "targeted"
  BY DEF Order
<1>2. \A i \in 1 .. 5 : i = 1 \/ i = 2 \/ i = 3 \/ i = 4 \/ i = 5
  OBVIOUS
<1>3. 1 \in 1 .. 5 /\ 2 \in 1 .. 5 /\ 3 \in 1 .. 5 /\ 4 \in 1 .. 5 /\ 5 \in 1 .. 5
  OBVIOUS
<1>4. ASSUME NEW k \in 1 .. 5, NEW q, Order[k] = q, \A i \in 1 .. 5 : Order[i] = q => i = k
      PROVE  RankOf(q) = k
  BY <1>1, <1>4 DEF RankOf
<1>5. RankOf("orphan") = 1
  BY <1>1, <1>2, <1>3, <1>4
<1>6. RankOf("journal") = 2
  BY <1>1, <1>2, <1>3, <1>4
<1>7. RankOf("normal") = 3
  BY <1>1, <1>2, <1>3, <1>4
<1>8. RankOf("aggressive") = 4
  BY <1>1, <1>2, <1>3, <1>4
<1>9. RankOf("targeted") = 5
  BY <1>1, <1>2, <1>3, <1>4
<1> QED
  BY <1>5, <1>6, <1>7, <1>8, <1>9

\* The phases follow each other in their order, and none of the mode is left out.
LEMMA AfterOrder ==
  ASSUME NEW p, NEW m, m \subseteq ToSet(Order)
  PROVE  /\ p \in {"aggressive", "targeted"} => After(p, m) \in {"targeted", "report"}
         /\ "aggressive" \in m /\ p \in {"names", "orphan", "journal", "normal"} =>
              After(p, m) \in {"orphan", "journal", "normal", "aggressive"}
<1> DEFINE later == {q \in m : p \notin ToSet(Order) \/ RankOf(q) > RankOf(p)}
           first(q) == \A r \in later : RankOf(q) <= RankOf(r)
           a == After(p, m)
<1>1. a = IF later = {} THEN "report" ELSE CHOOSE q \in later : first(q)
  BY DEF After, RankOf
<1>2. later \subseteq {"orphan", "journal", "normal", "aggressive", "targeted"}
  BY Phases
<1>3. \A q \in later : RankOf(q) \in Nat
  BY <1>2, PhaseRanks
<1>4. CASE later = {}
  <2>1. a = "report"
    BY <1>1, <1>4
  <2>2. "aggressive" \in m => ~(p \in {"names", "orphan", "journal", "normal"})
    <3> SUFFICES ASSUME "aggressive" \in m, p \in {"names", "orphan", "journal", "normal"} PROVE FALSE
      OBVIOUS
    <3>1. "names" \notin ToSet(Order)
      BY Phases
    <3>2. p = "names" \/ RankOf("aggressive") > RankOf(p)
      BY PhaseRanks
    <3>3. "aggressive" \in later
      BY <3>1, <3>2
    <3> QED
      BY <1>4, <3>3
  <2> QED
    BY <2>1, <2>2
<1>5. CASE later # {}
  <2>1. a \in later /\ first(a)
    <3> HIDE DEF later
    <3> DEFINE S == {RankOf(q) : q \in later}
    <3>1. S \subseteq Nat /\ S # {}
      BY <1>3, <1>5
    <3>2. PICK k \in S : \A j \in S : k <= j
      <4> HIDE DEF S
      <4> QED
        BY <3>1, LeastOf
    <3>3. PICK q \in later : k = RankOf(q)
      BY <3>2
    <3>4. first(q)
      BY <3>2, <3>3
    <3> QED
      BY <1>1, <1>5, <3>3, <3>4
  <2>2. ASSUME p \in {"aggressive", "targeted"} PROVE a \in {"targeted", "report"}
    <3>1. RankOf(a) > RankOf(p)
      BY <2>1, <2>2, Phases
    <3>2. RankOf(a) > 4
      BY <2>2, <3>1, PhaseRanks, <1>2, <2>1
    <3> QED
      BY <1>2, <2>1, <3>2, PhaseRanks
  <2>3. ASSUME "aggressive" \in m, p \in {"names", "orphan", "journal", "normal"}
        PROVE  a \in {"orphan", "journal", "normal", "aggressive"}
    <3>1. "names" \notin ToSet(Order)
      BY Phases
    <3>2. p = "names" \/ RankOf("aggressive") > RankOf(p)
      BY <2>3, PhaseRanks
    <3>3. "aggressive" \in later
      BY <2>3, <3>1, <3>2
    <3>4. RankOf(a) <= 4
      BY <2>1, <3>3, PhaseRanks
    <3> QED
      BY <1>2, <2>1, <3>4, PhaseRanks
  <2> QED
    BY <2>2, <2>3
<1> QED
  BY <1>4, <1>5

-----------------------------------------------------------------------------
(* What the walk of a tree marks and takes. *)

\* The extents of a leaf that a walk takes.
Taken(b) == ToSet(Select(Extents(disk.node[b].slots), Usable))

\* All below the blocks S is in S, and all their leaves have to give is in E; and so is
\* all below b and all b has to give.
Complete(S, E) ==
    \A c \in S : (IndexAt(c) => Below(c) \subseteq S) /\ (LeafAt(c) => Taken(c) \subseteq E)
Thorough(b, w) ==
    /\ IndexAt(b) => Below(b) \subseteq ToSet(w.marks)
    /\ LeafAt(b) => Taken(b) \subseteq ToSet(w.exts)
    /\ Complete(ToSet(w.marks), ToSet(w.exts))

\* Two sets of sequences of a walk.
LEMMA WalkGathers ==
  ASSUME disk \in Disks, NEW b \in Blocks, IndexAt(b), NEW below,
         \A i \in DOMAIN Followed(disk, disk.node[b]) : below[i] \in Walks
  PROVE  LET kids == Followed(disk, disk.node[b])
             w == WalkHeader(disk, disk.node[b], below)
         IN /\ \A i \in DOMAIN kids : /\ kids[i] \in ToSet(w.marks)
                                      /\ ToSet(below[i].marks) \subseteq ToSet(w.marks)
                                      /\ ToSet(below[i].exts) \subseteq ToSet(w.exts)
            /\ \A x \in ToSet(w.marks) : \E i \in DOMAIN kids : x = kids[i] \/ x \in ToSet(below[i].marks)
<1> DEFINE h == disk.node[b]
           kids == Followed(disk, h)
           w == WalkHeader(disk, h, below)
           E == Seq(Uses)
           M == Seq(Blocks)
           f == [i \in DOMAIN kids |-> below[i].exts]
           g == [i \in DOMAIN kids |-> <<kids[i]>> \o below[i].marks]
<1>1. h.slots \in Seq(Slots)
  <2>1. disk.node \in [Blocks -> Headers]
    BY DisksAssumption DEF DiskOK
  <2>2. h \in Headers
    BY <2>1
  <2> QED
    BY <2>2 DEF Headers
<1>2. w = [exts |-> FlattenSeq(f), marks |-> FlattenSeq(g)]
  <2>1. validate_extent_header(h) /\ h.depth > 0 /\ h.depth # 0
    <3>1. disk.node \in [Blocks -> Headers]
      BY DisksAssumption DEF DiskOK
    <3>2. h \in Headers
      BY <3>1
    <3>3. h.depth \in Nat
      BY <3>2 DEF Headers
    <3>4. validate_extent_header(h) /\ h.depth > 0
      BY DEF IndexAt
    <3> QED
      BY <3>3, <3>4
  <2> QED
    BY <2>1 DEF WalkHeader
<1>3. kids \in Seq(Blocks)
  BY <1>1, FollowedType
<1>4. \A i \in DOMAIN kids : kids[i] \in Blocks
  <2> HIDE DEF kids
  <2> QED
    BY <1>3
<1> HIDE DEF kids
<1>5. \A i \in DOMAIN kids : below[i].exts \in E /\ below[i].marks \in M
  BY DEF Walks, kids
<1>6. f \in Seq(E)
  <2>1. DOMAIN f = DOMAIN kids /\ f = [i \in DOMAIN f |-> f[i]] /\ \A i \in DOMAIN kids : f[i] \in E
    BY <1>5
  <2> HIDE DEF f, E
  <2> QED
    BY <1>3, <2>1, MapType
<1>7. ASSUME NEW i \in DOMAIN kids
      PROVE  <<kids[i]>> \o below[i].marks \in M /\ ToSet(g[i]) = {kids[i]} \cup ToSet(below[i].marks)
  <2> DEFINE k == kids[i]
             r == below[i].marks
  <2>1. k \in Blocks /\ r \in M /\ g[i] = <<k>> \o r
    BY <1>4, <1>5
  <2> HIDE DEF k, r, Blocks
  <2>2. <<k>> \in M /\ ToSet(<<k>>) = {k}
    <3>1. <<k>> \in M /\ DOMAIN <<k>> = 1 .. 1 /\ <<k>>[1] = k
      BY <2>1
    <3>2. 1 .. 1 = {1}
      OBVIOUS
    <3> QED
      BY <3>1, <3>2 DEF ToSet
  <2>3. <<k>> \o r \in M
    BY <2>1, <2>2
  <2>4. ToSet(<<k>> \o r) = {k} \cup ToSet(r)
    <3> DEFINE one == <<k>>
    <3>1. one \in Seq(Blocks) /\ r \in Seq(Blocks) /\ ToSet(one) = {k}
      BY <2>1, <2>2
    <3> HIDE DEF one
    <3>2. ToSet(one \o r) = ToSet(one) \cup ToSet(r)
      BY <3>1, ConcatSet
    <3> QED
      BY <3>1, <3>2 DEF one
  <2> QED
    BY <2>1, <2>3, <2>4 DEF k, r
<1>8. g \in Seq(M)
  <2>1. DOMAIN g = DOMAIN kids /\ g = [i \in DOMAIN g |-> g[i]] /\ \A i \in DOMAIN kids : g[i] \in M
    BY <1>7
  <2> HIDE DEF g, M
  <2> QED
    BY <1>3, <2>1, MapType
<1>9. DOMAIN f = DOMAIN kids /\ DOMAIN g = DOMAIN kids /\ \A i \in DOMAIN kids : f[i] = below[i].exts
  OBVIOUS
<1> HIDE DEF f, g
<1>10. Gathers(f, FlattenSeq(f)) /\ Gathers(g, FlattenSeq(g))
  BY <1>6, <1>8, FlattenGathers DEF E, M
<1>11. w.exts = FlattenSeq(f) /\ w.marks = FlattenSeq(g)
  BY <1>2
<1> HIDE DEF w
<1>12. Gathers(f, w.exts) /\ Gathers(g, w.marks)
  BY <1>10, <1>11
<1>13. \A i \in DOMAIN kids : /\ kids[i] \in ToSet(w.marks)
                              /\ ToSet(below[i].marks) \subseteq ToSet(w.marks)
                              /\ ToSet(below[i].exts) \subseteq ToSet(w.exts)
  <2> TAKE i \in DOMAIN kids
  <2>1. ToSet(g[i]) \subseteq ToSet(w.marks) /\ ToSet(f[i]) \subseteq ToSet(w.exts)
    BY <1>9, <1>12 DEF Gathers
  <2> QED
    BY <1>7, <1>9, <2>1
<1>14. \A x \in ToSet(w.marks) : \E i \in DOMAIN kids : x = kids[i] \/ x \in ToSet(below[i].marks)
  <2> TAKE x \in ToSet(w.marks)
  <2>1. PICK i \in DOMAIN kids : x \in ToSet(g[i])
    BY <1>9, <1>12 DEF Gathers
  <2> QED
    BY <1>7, <2>1
<1> QED
  BY <1>13, <1>14 DEF w, kids

\* One level of a thorough walk.
LEMMA IndexThorough ==
  ASSUME disk \in Disks, NEW b \in Blocks, IndexAt(b), NEW below,
         \A i \in DOMAIN Followed(disk, disk.node[b]) :
            below[i] \in Walks /\ Thorough(Followed(disk, disk.node[b])[i], below[i])
  PROVE  Thorough(b, WalkHeader(disk, disk.node[b], below))
<1> DEFINE kids == Followed(disk, disk.node[b])
           w == WalkHeader(disk, disk.node[b], below)
           S == ToSet(w.marks)
           E == ToSet(w.exts)
<1>1. /\ \A i \in DOMAIN kids : /\ kids[i] \in S
                                /\ ToSet(below[i].marks) \subseteq S
                                /\ ToSet(below[i].exts) \subseteq E
      /\ \A x \in S : \E i \in DOMAIN kids : x = kids[i] \/ x \in ToSet(below[i].marks)
  BY WalkGathers
<1>2. Below(b) = {kids[i] : i \in DOMAIN kids}
  BY DEF Below, ToSet
<1>3. \A i \in DOMAIN kids : Thorough(kids[i], below[i])
  OBVIOUS
<1>4. S = ToSet(w.marks) /\ E = ToSet(w.exts)
  OBVIOUS
<1> HIDE DEF kids, w, S, E
<1>5. ASSUME NEW c \in S
      PROVE  (IndexAt(c) => Below(c) \subseteq S) /\ (LeafAt(c) => Taken(c) \subseteq E)
  <2>1. PICK i \in DOMAIN kids : c = kids[i] \/ c \in ToSet(below[i].marks)
    BY <1>1
  <2>2. ToSet(below[i].marks) \subseteq S /\ ToSet(below[i].exts) \subseteq E /\ Thorough(kids[i], below[i])
    BY <1>1, <1>3
  <2>3. CASE c = kids[i]
    BY <2>2, <2>3 DEF Thorough
  <2>4. CASE c \in ToSet(below[i].marks)
    BY <2>2, <2>4 DEF Thorough, Complete
  <2> QED
    BY <2>1, <2>3, <2>4
<1>6. Complete(S, E)
  BY <1>5 DEF Complete
<1>7. Below(b) \subseteq S
  BY <1>1, <1>2
<1>8. ~LeafAt(b)
  <2>1. disk.node[b].depth > 0
    BY DEF IndexAt
  <2> QED
    BY <2>1 DEF LeafAt
<1>9. Thorough(b, w)
  BY <1>4, <1>6, <1>7, <1>8 DEF Thorough
<1> QED
  BY <1>9 DEF w

\* A leaf is all there is to walk.
LEMMA LeafThorough ==
  ASSUME NEW b \in Blocks, LeafAt(b), NEW below
  PROVE  Thorough(b, WalkHeader(disk, disk.node[b], below))
<1> DEFINE h == disk.node[b]
           x == Select(Extents(h.slots), Usable)
<1>1. WalkHeader(disk, h, below) = [exts |-> x, marks |-> <<>>]
  BY DEF LeafAt, WalkHeader
<1>2. Taken(b) = ToSet(x)
  BY DEF Taken
<1> HIDE DEF x
<1> DEFINE w == WalkHeader(disk, h, below)
<1>3. w.exts = x /\ w.marks = <<>>
  BY <1>1
<1> HIDE DEF w
<1>4. ToSet(w.marks) = {}
  BY <1>3 DEF ToSet
<1>5. ~IndexAt(b)
  <2>1. h.depth = 0
    BY DEF LeafAt
  <2> QED
    BY <2>1 DEF IndexAt
<1>6. Thorough(b, w)
  BY <1>2, <1>3, <1>4, <1>5 DEF Thorough, Complete
<1> QED
  BY <1>6 DEF w

\* The walk of a tree that is well-formed leaves nothing out.
LEMMA WalkThorough ==
  ASSUME disk \in Disks, WellFormed, NEW b \in Blocks, IndexAt(b)
  PROVE  Thorough(b, walk_extent_tree(disk, disk.node[b]))
<1> DEFINE t == CHOOSE f : Walking(disk, f)
           N == MaxTreeDepth
           Fine(c, l) == validate_extent_header(disk.node[c]) /\ disk.node[c].depth < l => Thorough(c, t[<<l, c>>])
           S == {l \in 0 .. N : \A c \in Blocks : Fine(c, l)}
<1>0. N \in Nat /\ MaxCollected \in Nat
  BY TreeAssumption
<1>1. disk.node \in [Blocks -> Headers]
  BY DisksAssumption DEF DiskOK
<1>2. Walked(disk, t)
  BY <1>1, WalkingType
<1>3. \A c \in Blocks : disk.node[c].depth \in Nat /\ disk.node[c].slots \in Seq(Slots)
  <2> TAKE c \in Blocks
  <2>1. disk.node[c] \in Headers
    BY <1>1
  <2> QED
    BY <2>1 DEF Headers
<1> HIDE DEF t
<1>4. \A l \in 0 .. N : \A c \in Blocks :
         /\ t[<<l, c>>] \in Walks
         /\ t[<<l, c>>] = IF l = 0 THEN Nothing ELSE Deeper(disk, disk.node[c], l, t)
  BY <1>2 DEF Walked, Depths
<1>5. ASSUME NEW c \in Blocks, IndexAt(c), NEW i \in DOMAIN Followed(disk, disk.node[c])
      PROVE  LET k == Followed(disk, disk.node[c])[i]
             IN /\ k \in Blocks /\ validate_extent_header(disk.node[k])
                /\ disk.node[k].depth = disk.node[c].depth - 1
  <2> DEFINE kids == Followed(disk, disk.node[c])
             k == kids[i]
  <2>1. kids \in Seq(Blocks)
    BY <1>3, FollowedType
  <2>2. k \in Blocks
    <3> HIDE DEF kids
    <3>1. i \in DOMAIN kids
      BY DEF kids
    <3> QED
      BY <2>1, <3>1
  <2>3. validate_extent_header(disk.node[k]) /\ disk.node[k].depth = disk.node[c].depth - 1
    BY <1>5 DEF WellFormed, IndexAt
  <2> QED
    BY <2>2, <2>3
<1>6. 0 \in S
  <2>1. \A c \in Blocks : ~(disk.node[c].depth < 0)
    BY <1>3
  <2> QED
    BY <1>0, <2>1
<1>7. ASSUME NEW l \in 1 .. N, l - 1 \in S PROVE l \in S
  <2>1. l \in 0 .. N /\ l - 1 \in 0 .. N /\ l # 0
    BY <1>0
  <2> SUFFICES ASSUME NEW c \in Blocks, validate_extent_header(disk.node[c]), disk.node[c].depth < l
               PROVE  Thorough(c, t[<<l, c>>])
    BY <2>1
  <2> DEFINE kids == Followed(disk, disk.node[c])
             below == [i \in DOMAIN kids |-> t[<<l - 1, kids[i]>>]]
  <2>2. t[<<l, c>>] = WalkHeader(disk, disk.node[c], below)
    <3>1. t[<<l, c>>] = Deeper(disk, disk.node[c], l, t)
      BY <1>4, <2>1
    <3> QED
      BY <3>1 DEF Deeper
  <2>3. CASE disk.node[c].depth = 0
    <3>1. LeafAt(c)
      BY <2>3 DEF LeafAt
    <3> HIDE DEF below
    <3> QED
      BY <2>2, <3>1, LeafThorough
  <2>4. CASE disk.node[c].depth # 0
    <3>1. IndexAt(c)
      BY <1>3, <2>4 DEF IndexAt
    <3>2. ASSUME NEW i \in DOMAIN kids PROVE below[i] \in Walks /\ Thorough(kids[i], below[i])
      <4> DEFINE k == kids[i]
      <4>1. k \in Blocks /\ validate_extent_header(disk.node[k]) /\ disk.node[k].depth = disk.node[c].depth - 1
        BY <1>5, <3>1
      <4>2. below[i] = t[<<l - 1, k>>]
        OBVIOUS
      <4> HIDE DEF k
      <4>3. disk.node[k].depth < l - 1
        BY <1>3, <4>1
      <4>4. Fine(k, l - 1)
        BY <1>7, <4>1
      <4>5. Thorough(k, t[<<l - 1, k>>]) /\ t[<<l - 1, k>>] \in Walks
        BY <1>4, <2>1, <4>1, <4>3, <4>4
      <4> HIDE DEF below
      <4> QED
        BY <4>2, <4>5 DEF k
    <3> HIDE DEF below
    <3> QED
      BY <2>2, <3>1, <3>2, IndexThorough
  <2> QED
    BY <2>3, <2>4
<1>8. \A l \in 0 .. N : l \in S
  <2> HIDE DEF S, N
  <2> QED
    BY <1>0, <1>6, <1>7, Induct
<1> DEFINE h == disk.node[b]
           all == Deeper(disk, h, N, t)
           x == all.exts
           n == IF Len(x) < MaxCollected THEN Len(x) ELSE MaxCollected
           w == walk_extent_tree(disk, h)
<1>9. w = [all EXCEPT !.exts = SubSeq(x, 1, n)]
  BY WalkIs DEF t
<1>10. h.depth < N /\ Len(w.exts) < MaxCollected /\ validate_extent_header(h)
  BY DEF WellFormed, IndexAt
<1>11. all = t[<<N, b>>] /\ all \in Walks
  <2>1. N \in 0 .. N /\ N # 0
    BY <1>0, TreeAssumption
  <2> QED
    BY <1>4, <2>1
<1>12. Thorough(b, all)
  <2>1. N \in 0 .. N
    BY <1>0
  <2>2. Fine(b, N)
    BY <1>8, <2>1
  <2> HIDE DEF all
  <2> QED
    BY <1>10, <1>11, <2>2
<1> HIDE DEF all, w
<1>13. x \in Seq(Uses) /\ all = [exts |-> x, marks |-> all.marks]
  BY <1>11 DEF Walks
<1> HIDE DEF x
<1>14. w.exts = SubSeq(x, 1, n) /\ w.marks = all.marks
  BY <1>9, <1>13
<1>15. SubSeq(x, 1, n) = x
  <2> HIDE DEF Uses
  <2>1. Len(x) \in Nat
    BY <1>13
  <2>2. n \in 0 .. Len(x)
    BY <1>0, <2>1
  <2>3. CASE Len(x) < MaxCollected
    <3>1. n = Len(x)
      BY <2>3
    <3> QED
      BY <1>13, <2>1, <3>1
  <2>4. CASE ~(Len(x) < MaxCollected)
    <3>1. n = MaxCollected
      BY <2>4
    <3> HIDE DEF n
    <3>2. Len(SubSeq(x, 1, n)) = n
      BY <1>13, <2>2
    <3> QED
      BY <1>0, <1>10, <1>14, <3>1, <3>2
  <2> QED
    BY <2>3, <2>4
<1>16. w.exts = all.exts /\ w.marks = all.marks
  BY <1>14, <1>15 DEF x
<1>17. Thorough(b, w)
  BY <1>12, <1>16 DEF Thorough
<1> QED
  BY <1>17 DEF w

\* What a leaf has to give is among what a walk takes, ...
LEMMA GivingTaken ==
  ASSUME disk \in Disks, NEW b \in Blocks
  PROVE  Giving(b) \subseteq Taken(b)
<1> DEFINE x == Extents(disk.node[b].slots)
           I == {i \in DOMAIN x : Usable(x[i])}
           J == {i \in DOMAIN x : Mapped(x[i]) /\ InDevice(x[i])}
<1>1. disk.node[b].slots \in Seq(Slots)
  <2>1. disk.node \in [Blocks -> Headers]
    BY DisksAssumption DEF DiskOK
  <2>2. disk.node[b] \in Headers
    BY <2>1
  <2> QED
    BY <2>2 DEF Headers
<1>2. x \in Seq(Exts)
  BY <1>1, ExtentsType
<1>3. Taken(b) = ToSet(PickSeq(x, I)) /\ LeafPlan(disk.node[b]) = PickSeq(x, J)
  BY DEF Taken, LeafPlan, Select
<1>4. \A i \in DOMAIN x : x[i] \in Exts
  <2> HIDE DEF x, Exts
  <2> QED
    BY <1>2
<1>5. \A i \in J : ~Uninit(x[i]) => i \in I
  BY <1>4, ClearedLen DEF Usable
<1>6. I \subseteq DOMAIN x /\ J \subseteq DOMAIN x
  OBVIOUS
<1> HIDE DEF x, I, J
<1>7. ToSet(PickSeq(x, I)) = {x[i] : i \in DOMAIN x \cap I} /\ ToSet(PickSeq(x, J)) = {x[i] : i \in DOMAIN x \cap J}
  BY <1>2, PickSet
<1> QED
  BY <1>3, <1>5, <1>6, <1>7 DEF Giving

\* ... and what a walk has taken is in the plan.
LEMMA TreePlanHas ==
  ASSUME NEW x \in Seq(Uses), NEW e \in ToSet(x), ~Uninit(e)
  PROVE  e \in ToSet(TreePlan(x))
<1> DEFINE g == qsort(x, collected_ext_cmp)
           I == {i \in DOMAIN g : ~Uninit(g[i])}
<1>1. TreePlan(x) = PickSeq(g, I)
  BY DEF TreePlan, Select
<1>2. \A i \in DOMAIN x : x[i] \in Uses
  <2> HIDE DEF Uses
  <2> QED
    OBVIOUS
<1>3. Len(x) \in Nat /\ DOMAIN x = 1 .. Len(x) /\ x = [i \in 1 .. Len(x) |-> x[i]]
  OBVIOUS
<1>4. \A i \in DOMAIN x : x[i] \in Exts
  BY <1>2 DEF Uses
<1>5. x \in Seq(Exts)
  <2> HIDE DEF Exts
  <2> QED
    BY <1>3, <1>4
<1>6. g \in Seq(Uses)
  <2> HIDE DEF Uses
  <2> QED
    BY <1>2, <1>5, SortedType
<1>7. PICK o : Arrangement(x, SortOrder(x, collected_ext_cmp), g, o)
  BY <1>5, SortedArranged
<1> HIDE DEF g
<1> DEFINE n == Cardinality(DOMAIN x)
<1>8. /\ \A i \in DOMAIN x : \E k \in 1 .. n : o[k] = i
      /\ g = [k \in 1 .. n |-> x[o[k]]]
  BY <1>7 DEF Arrangement
<1>9. PICK i \in DOMAIN x : e = x[i]
  BY DEF ToSet
<1>10. PICK k \in DOMAIN g : g[k] = e
  <2>1. PICK k \in 1 .. n : o[k] = i
    BY <1>8
  <2> HIDE DEF n
  <2> QED
    BY <1>8, <1>9, <2>1
<1>11. k \in DOMAIN g \cap I
  BY <1>10
<1> HIDE DEF I
<1>12. ToSet(PickSeq(g, I)) = {g[j] : j \in DOMAIN g \cap I}
  BY <1>6, PickSet
<1> QED
  BY <1>1, <1>10, <1>11, <1>12

-----------------------------------------------------------------------------
(* The marks of the aggressive scan. *)

\* No call has failed, and the trees are sound; and the parts of MarksInv.
Tidy == mishaps = 0 /\ WellFormed
Unmarked(p, m) == p \in {"setup", "names", "orphan", "journal", "normal"} => m = {}
Closed(p, s, m, q) ==
    p = "aggressive" /\ ~s =>
        \A r \in Blocks : IndexAt(r) /\ (r \in m \/ (r < q /\ r \notin disk.bad)) => Below(r) \subseteq m
JobMarks(p, q, j) ==
    j # NoJob =>
        /\ j.kind \in {"tree", "leaf", "probe"} => p \in {"aggressive", "targeted"}
        /\ p = "aggressive" => j.kind \in {"tree", "leaf"} /\ j.src < q /\ j.src \notin disk.bad
        /\ j.name[1] = "leaf" => Unparented(j.name[2])
LeafFiles(ns) == \A n \in ns : n[1] = "leaf" => Unparented(n[2])

\* MarksInv, from its parts.
LEMMA MarksIs ==
  MarksInv <=> (Tidy => /\ Unmarked(phase, marks) /\ Closed(phase, saving, marks, pos)
                        /\ JobMarks(phase, pos, job) /\ LeafFiles(DOMAIN files))
  BY DEF MarksInv, Tidy, Unmarked, Closed, JobMarks, LeafFiles

\* The trees are sound as long as the disk is the same.
LEMMA SameWellFormed == UNCHANGED disk => (WellFormed' <=> WellFormed)
  BY DEF WellFormed

\* MarksInv in the next state, from its parts.
LEMMA MarksNext ==
  ASSUME UNCHANGED disk
  PROVE  MarksInv' <=> (mishaps' = 0 /\ WellFormed =>
                          /\ Unmarked(phase', marks') /\ Closed(phase', saving', marks', pos')
                          /\ JobMarks(phase', pos', job') /\ LeafFiles(DOMAIN files'))
<1>1. WellFormed' <=> WellFormed
  BY SameWellFormed
<1> QED
  BY <1>1 DEF MarksInv, Unmarked, Closed, JobMarks, LeafFiles, Unparented, IndexAt, Below

\* What has not gone wrong after a step had not before it.
LEMMA TidyBefore ==
  ASSUME NamesInv, Counted, mishaps' = 0
  PROVE  mishaps = 0 /\ ~Mishap
<1>1. mishaps \in 0 .. MaxMishaps /\ MaxMishaps \in Nat
  BY NamesAssumption DEF NamesInv, NamesTypeOK
<1>2. ~Mishap
  BY MishapCounts
<1> QED
  BY <1>2 DEF Counted

\* The block the scan comes to, and what it makes of it.
Hit(b) ==
    /\ pos' = b + 1 /\ pos <= b /\ b \notin disk.bad
    /\ \A r \in Blocks : pos <= r /\ r < b => r \in disk.bad \/ ~disk.node[r].magic
    /\ \/ (b \in marks \/ ~validate_extent_header(disk.node[b])) /\ UNCHANGED <<job, marks, mishaps>>
       \/ b \notin marks /\ LeafAt(b) /\ StartLeaf(b, disk.node[b])
       \/ b \notin marks /\ IndexAt(b) /\ StartTree(b, disk.node[b])

\* A turn of the scan comes to the next block with a header.
LEMMA ScanHit ==
  ASSUME disk \in Disks, JobInv, ScanBlock
  PROVE  \E b \in Blocks : Hit(b)
<1> DEFINE hits == {b \in Blocks : b >= pos /\ b \notin disk.bad /\ disk.node[b].magic}
           b == CHOOSE x \in hits : \A c \in hits : x <= c
<1>0. Blocks \subseteq Nat /\ pos \in Nat
  BY TreeAssumption DEF Blocks, JobInv
<1>1. phase = "aggressive" /\ ~Over
  BY DEF ScanBlock, Turn
<1>2. ~ \A x \in Blocks : x >= pos => x \in disk.bad \/ ~disk.node[x].magic
  BY <1>1 DEF Over
<1>3. hits # {} /\ hits \subseteq Nat
  BY <1>0, <1>2
<1>4. \E x \in hits : \A c \in hits : x <= c
  <2> HIDE DEF hits
  <2> QED
    BY <1>3, LeastOf
<1>5. b \in hits /\ \A c \in hits : b <= c
  <2> HIDE DEF hits
  <2> QED
    BY <1>4
<1>6. /\ pos' = b + 1
      /\ IF b \in marks \/ ~validate_extent_header(disk.node[b])
         THEN UNCHANGED <<job, marks, mishaps>>
         ELSE IF disk.node[b].depth = 0 THEN StartLeaf(b, disk.node[b])
         ELSE StartTree(b, disk.node[b])
  BY DEF ScanBlock
<1> HIDE DEF b
<1>7. b \in Blocks /\ b >= pos /\ b \notin disk.bad
  BY <1>5
<1>8. ASSUME NEW r \in Blocks, pos <= r, r < b PROVE r \in disk.bad \/ ~disk.node[r].magic
  <2>1. r \notin hits
    <3> HIDE DEF hits
    <3> QED
      BY <1>0, <1>5, <1>7, <1>8
  <2>2. r >= pos
    BY <1>0, <1>8
  <2> QED
    BY <2>1, <2>2
<1>9. disk.node[b].depth \in Nat
  <2>1. disk.node \in [Blocks -> Headers]
    BY DisksAssumption DEF DiskOK
  <2>2. disk.node[b] \in Headers
    BY <1>7, <2>1
  <2> QED
    BY <2>2 DEF Headers
<1>10. \/ (b \in marks \/ ~validate_extent_header(disk.node[b])) /\ UNCHANGED <<job, marks, mishaps>>
       \/ b \notin marks /\ LeafAt(b) /\ StartLeaf(b, disk.node[b])
       \/ b \notin marks /\ IndexAt(b) /\ StartTree(b, disk.node[b])
  BY <1>6, <1>9 DEF LeafAt, IndexAt
<1>11. pos <= b
  BY <1>0, <1>7
<1>12. Hit(b)
  BY <1>6, <1>7, <1>8, <1>10, <1>11 DEF Hit
<1> QED
  BY <1>7, <1>12

\* What a job for a block keeps while it writes.
Kept == job' = NoJob \/ /\ job' # NoJob /\ job'.kind = job.kind /\ job'.src = job.src
                        /\ job'.name = job.name /\ job'.plan = job.plan /\ job'.size = job.size

\* Steps that open and write files touch no mark and stay with their block.
LEMMA WritingKeeps ==
  ASSUME JobInv, Writing
  PROVE  /\ Kept /\ job # NoJob /\ Counted
         /\ UNCHANGED <<disk, phase, saving, pos, marks, mode>>
         /\ DOMAIN files' \subseteq DOMAIN files \cup {job.name}
<1>1. /\ job # NoJob /\ UNCHANGED <<disk, phase, saving, pos, marks, mode>>
  BY DEF Writing, OpenFile, OpenFails, CopyChunk, ChunkFails, Copying, run
<1>2. Counted
  BY DEF Writing, OpenFile, OpenFails, CopyChunk, ChunkFails, Counted
<1>3. DOMAIN job = JobFields
  BY <1>1 DEF JobInv, JobOK
<1>4. Kept
  <2>1. CASE job' = NoJob
    BY <2>1 DEF Kept
  <2>2. CASE Updated(job, job', {"open"}) \/ Updated(job, job', {"todo", "done", "ok"})
             \/ Updated(job, job', {"todo", "done", "stopped"})
    BY <2>2, Fields, HasFields DEF Updated, Kept
  <2>3. CASE OpenFile
    <3>1. job' = [job EXCEPT !.open = TRUE]
      BY <2>3 DEF OpenFile
    <3>2. Updated(job, job', {"open"})
      BY <1>3, <3>1, Fields DEF Updated
    <3> QED
      BY <2>2, <3>2
  <2>4. CASE OpenFails
    BY <2>1, <2>4 DEF OpenFails
  <2>5. CASE CopyChunk
    <3> DEFINE n == Extent.len
               t == job.done + This
    <3>1. job' = [job EXCEPT !.todo = Tail(@), !.done = 0, !.ok = @ + n] \/ job' = [job EXCEPT !.done = @ + This]
      BY <2>5 DEF CopyChunk
    <3> HIDE DEF n, t
    <3>2. Updated(job, job', {"todo", "done", "ok"})
      BY <1>3, <3>1, Fields DEF Updated
    <3> QED
      BY <2>2, <3>2
  <2>6. CASE ChunkFails
    <3>1. \E x : job' = [job EXCEPT !.todo = x, !.done = 0, !.stopped = TRUE]
      BY <2>6 DEF ChunkFails
    <3>2. Updated(job, job', {"todo", "done", "stopped"})
      BY <1>3, <3>1, Fields DEF Updated
    <3> QED
      BY <2>2, <3>2
  <2> QED
    BY <2>3, <2>4, <2>5, <2>6 DEF Writing
<1>5. DOMAIN files' \subseteq DOMAIN files \cup {job.name}
  <2>1. CASE OpenFile
    BY <2>1 DEF OpenFile, Put
  <2>2. CASE OpenFails
    BY <2>2 DEF OpenFails, dirvars
  <2>3. CASE CopyChunk
    <3>1. Only(job.name)
      BY <2>3, ChunkStep
    <3> QED
      BY <3>1 DEF Only
  <2>4. CASE ChunkFails
    <3>1. Only(job.name)
      BY <2>4, FailStep
    <3> QED
      BY <3>1 DEF Only
  <2> QED
    BY <2>1, <2>2, <2>3, <2>4 DEF Writing
<1> QED
  BY <1>1, <1>2, <1>4, <1>5

\* Steps that open and write files keep MarksInv.
LEMMA WritingMarks ==
  ASSUME NameState, JobInv, MarksInv, Writing
  PROVE  MarksInv'
<1>1. NamesInv
  BY DEF NameState
<1>2. /\ Kept /\ job # NoJob /\ Counted
      /\ UNCHANGED <<disk, phase, saving, pos, marks>>
      /\ DOMAIN files' \subseteq DOMAIN files \cup {job.name}
  BY WritingKeeps
<1> SUFFICES ASSUME mishaps' = 0, WellFormed
             PROVE  /\ Unmarked(phase', marks') /\ Closed(phase', saving', marks', pos')
                    /\ JobMarks(phase', pos', job') /\ LeafFiles(DOMAIN files')
  BY <1>2, MarksNext
<1>3. /\ Unmarked(phase, marks) /\ Closed(phase, saving, marks, pos)
      /\ JobMarks(phase, pos, job) /\ LeafFiles(DOMAIN files)
  BY <1>1, <1>2, TidyBefore, MarksIs DEF Tidy
<1>4. JobMarks(phase', pos', job')
  BY <1>2, <1>3 DEF JobMarks, Kept
<1>5. LeafFiles(DOMAIN files')
  BY <1>2, <1>3 DEF LeafFiles, JobMarks
<1> QED
  BY <1>2, <1>3, <1>4, <1>5

\* Without a failure the marks are set.
LEMMA MarksSet ==
  ASSUME NEW order, MarkRecovered(order), ~Mishap
  PROVE  marks' = marks \cup ToSet(order)
  BY DEF MarkRecovered

\* No job.
LEMMA JobMarksNone == \A p, q : JobMarks(p, q, NoJob)
  BY DEF JobMarks

\* A job that is for no block of a tree.
LEMMA JobMarksElse ==
  ASSUME NEW kind, NEW src, NEW name, NEW plan, NEW size, NEW p, NEW q,
         kind \notin {"tree", "leaf", "probe"} \/ p = "targeted", p # "aggressive", name[1] # "leaf"
  PROVE  JobMarks(p, q, Job(kind, src, name, plan, size))
<1> DEFINE j == Job(kind, src, name, plan, size)
<1>1. j.kind = kind /\ j.name = name
  BY Fields
<1> HIDE DEF j
<1>2. JobMarks(p, q, j)
  BY <1>1 DEF JobMarks
<1> QED
  BY <1>2 DEF j

\* A mark in front of the scan adds nothing that is not there.
LEMMA MarkBehind ==
  ASSUME NEW p, NEW s, NEW m, NEW q, NEW b, Closed(p, s, m, q), b < q, b \notin disk.bad
  PROVE  Closed(p, s, m \cup {b}, q)
  BY DEF Closed

\* A block is marked when its output is done.
LEMMA BlockDoneMarks ==
  ASSUME NameState, JobInv, MarksInv, BlockDone, mishaps' = 0, WellFormed, ~Mishap,
         Unmarked(phase, marks), Closed(phase, saving, marks, pos), JobMarks(phase, pos, job)
  PROVE  Unmarked(phase, marks') /\ Closed(phase, saving, marks', pos)
<1>1. /\ job # NoJob /\ job.kind \in {"tree", "leaf", "targeted"}
      /\ \/ UNCHANGED marks
         \/ MarkRecovered(IF job.kind = "targeted" THEN <<>> ELSE <<job.src>>)
  BY DEF BlockDone, Copied
<1>2. CASE UNCHANGED marks
  BY <1>2
<1>3. CASE job.kind = "targeted" /\ MarkRecovered(<<>>)
  <2>1. marks' = marks \cup ToSet(<<>>)
    BY <1>3, MarksSet
  <2>2. ToSet(<<>>) = {}
    BY DEF ToSet
  <2> QED
    BY <1>2, <2>1, <2>2
<1>4. CASE job.kind # "targeted" /\ MarkRecovered(<<job.src>>)
  <2> DEFINE b == job.src
             s == <<b>>
  <2>1. marks' = marks \cup ToSet(s)
    BY <1>4, MarksSet
  <2>2. ToSet(s) = {b}
    <3>1. DOMAIN s = {1} /\ s[1] = b
      OBVIOUS
    <3> HIDE DEF s
    <3> QED
      BY <3>1 DEF ToSet
  <2>3. marks' = marks \cup {b}
    BY <2>1, <2>2
  <2>4. /\ phase \in {"aggressive", "targeted"}
        /\ phase = "aggressive" => b < pos /\ b \notin disk.bad
    BY <1>1, <1>4 DEF JobMarks
  <2>5. Unmarked(phase, marks')
    BY <2>4 DEF Unmarked
  <2> HIDE DEF b
  <2>6. CASE phase = "aggressive"
    BY <2>3, <2>4, <2>5, <2>6, MarkBehind
  <2>7. CASE phase = "targeted"
    BY <2>5, <2>7 DEF Closed
  <2> QED
    BY <2>4, <2>6, <2>7
<1> QED
  BY <1>1, <1>2, <1>3, <1>4

\* Steps that end a job keep MarksInv.
LEMMA ClosingMarks ==
  ASSUME NameState, JobInv, MarksInv, Closing
  PROVE  MarksInv'
<1>1. NamesInv
  BY DEF NameState
<1>2. Counted /\ UNCHANGED <<disk, phase, saving>> /\ job # NoJob
  BY ClosingInside, ResolvesCounted DEF Inside, Quiet
<1>3. UNCHANGED pos
  BY DEF Closing, InodeDone, BlockDone, Promote, PromoteFails, IndirectDone, InlineDone, RevokedTree, run
<1> SUFFICES ASSUME mishaps' = 0, WellFormed
             PROVE  /\ Unmarked(phase', marks') /\ Closed(phase', saving', marks', pos')
                    /\ JobMarks(phase', pos', job') /\ LeafFiles(DOMAIN files')
  BY <1>2, MarksNext
<1>4. ~Mishap /\ mishaps = 0
  BY <1>1, <1>2, TidyBefore
<1>5. /\ Unmarked(phase, marks) /\ Closed(phase, saving, marks, pos)
      /\ JobMarks(phase, pos, job) /\ LeafFiles(DOMAIN files)
  BY <1>4, MarksIs DEF Tidy
<1>6. CASE BlockDone
  <2>1. Unmarked(phase, marks') /\ Closed(phase, saving, marks', pos)
    BY <1>4, <1>5, <1>6, BlockDoneMarks
  <2>2. job' = NoJob /\ DOMAIN files' \subseteq DOMAIN files
    BY <1>6 DEF BlockDone, Without
  <2>3. LeafFiles(DOMAIN files')
    BY <1>5, <2>2 DEF LeafFiles
  <2> QED
    BY <1>2, <1>3, <2>1, <2>2, <2>3, JobMarksNone
<1>7. CASE RevokedTree
  <2> DEFINE h == read_tree_block_versioned(disk, job.src)
             b == job.src
             plan == TreePlan(walk_extent_tree(disk, h).exts)
  <2>1. job.kind = "probe" /\ UNCHANGED files
    BY <1>7 DEF RevokedTree, Copied, dirvars
  <2>2. phase = "targeted"
    BY <1>2, <1>5, <2>1 DEF JobMarks
  <2>3. job' = NoJob \/ job' = Job("tree", b, <<"tree", b>>, plan, 0)
    BY <1>7 DEF RevokedTree, StartTree
  <2> HIDE DEF plan, b
  <2>4. JobMarks(phase, pos, job')
    <3> DEFINE name == <<"tree", b>>
    <3>1. name[1] # "leaf"
      OBVIOUS
    <3> HIDE DEF name
    <3>2. JobMarks(phase, pos, Job("tree", b, name, plan, 0))
      BY <2>2, <3>1, JobMarksElse
    <3> QED
      BY <2>3, <3>2, JobMarksNone DEF name
  <2>5. Unmarked(phase, marks') /\ Closed(phase, saving, marks', pos)
    BY <2>2 DEF Unmarked, Closed
  <2> QED
    BY <1>2, <1>3, <1>5, <2>1, <2>4, <2>5
<1>8. CASE InodeDone \/ Promote \/ PromoteFails \/ IndirectDone \/ InlineDone
  <2>1. job' = NoJob /\ UNCHANGED marks
    BY <1>8 DEF InodeDone, Promote, PromoteFails, IndirectDone, InlineDone
  <2>2. \E n : n[1] # "leaf" /\ DOMAIN files' \subseteq DOMAIN files \cup {n}
    <3>1. CASE Promote
      <4> DEFINE final == <<"out", Resolved(job.src)>>
      <4>1. PICK got : files' = Put(Without(files, job.name), final, got)
        BY <3>1 DEF Promote
      <4>2. final[1] # "leaf"
        OBVIOUS
      <4> HIDE DEF final
      <4>3. DOMAIN files' \subseteq DOMAIN files \cup {final}
        BY <4>1 DEF Put, Without
      <4> QED
        BY <4>2, <4>3
    <3>2. CASE ~Promote
      <4>1. DOMAIN files' \subseteq DOMAIN files
        BY <1>8, <3>2 DEF InodeDone, PromoteFails, IndirectDone, InlineDone, dirvars, Without
      <4>2. <<"out", 0>>[1] # "leaf"
        OBVIOUS
      <4> QED
        BY <4>1, <4>2
    <3> QED
      BY <3>1, <3>2
  <2>3. LeafFiles(DOMAIN files')
    BY <1>5, <2>2 DEF LeafFiles
  <2> QED
    BY <1>2, <1>3, <1>5, <2>1, <2>3, JobMarksNone
<1> QED
  BY <1>6, <1>7, <1>8 DEF Closing

\* What becomes of a tree, when no call fails.
TreeBegun(b, w) ==
    /\ marks' = marks \cup ToSet(w.marks) \/ marks' = marks \cup ToSet(w.marks) \cup {b}
    /\ \/ job' = NoJob /\ w.exts = <<>>
       \/ job' = NoJob /\ FullyCovered(w.exts, covered)
       \/ job' = Job("tree", b, <<"tree", b>>, TreePlan(w.exts), 0)

\* A tree is begun.
LEMMA StartTreeBegun ==
  ASSUME disk \in Disks, NEW b \in Blocks, NEW h, h.slots \in Seq(Slots), StartTree(b, h), ~Mishap
  PROVE  TreeBegun(b, walk_extent_tree(disk, h))
<1> DEFINE w == walk_extent_tree(disk, h)
           x == w.marks
           s == <<b>>
<1>1. \/ job' = NoJob /\ w.exts = <<>> /\ MarkRecovered(x)
      \/ job' = NoJob /\ FullyCovered(w.exts, covered) /\ MarkRecovered(x \o s)
      \/ job' = Job("tree", b, <<"tree", b>>, TreePlan(w.exts), 0) /\ MarkRecovered(x)
  BY DEF StartTree
<1>2. w \in Walks
  BY WalkTreeType
<1> HIDE DEF w
<1>3. x \in Seq(Blocks)
  BY <1>2 DEF Walks
<1> HIDE DEF x
<1>4. s \in Seq(Blocks) /\ ToSet(s) = {b}
  <2> DEFINE B == Blocks
  <2>1. b \in B
    OBVIOUS
  <2> HIDE DEF B
  <2>2. s \in Seq(B) /\ DOMAIN s = {1} /\ s[1] = b
    BY <2>1
  <2> HIDE DEF s
  <2> QED
    BY <2>2 DEF ToSet, B
<1> HIDE DEF s
<1>5. ToSet(x \o s) = ToSet(x) \cup {b}
  BY <1>3, <1>4, ConcatSet
<1>6. MarkRecovered(x) => marks' = marks \cup ToSet(x)
  BY MarksSet
<1>7. MarkRecovered(x \o s) => marks' = marks \cup ToSet(x) \cup {b}
  BY <1>5, MarksSet
<1>8. marks' = marks \cup ToSet(x) \/ marks' = marks \cup ToSet(x) \cup {b}
  BY <1>1, <1>6, <1>7
<1>9. TreeBegun(b, w)
  BY <1>1, <1>8 DEF TreeBegun, x
<1> QED
  BY <1>9 DEF w

\* ... and of a leaf.
LeafBegun(b) ==
    \/ job' = NoJob /\ FullyCovered(LeafProbed(disk.node[b]), covered) /\ marks' = marks \cup {b}
    \/ job' = Job("leaf", b, <<"leaf", b>>, LeafPlan(disk.node[b]), 0) /\ UNCHANGED marks

\* A leaf is begun.
LEMMA StartLeafBegun ==
  ASSUME NEW b, StartLeaf(b, disk.node[b]), ~Mishap
  PROVE  LeafBegun(b)
<1> DEFINE s == <<b>>
<1>1. \/ job' = NoJob /\ FullyCovered(LeafProbed(disk.node[b]), covered) /\ MarkRecovered(s)
      \/ job' = Job("leaf", b, <<"leaf", b>>, LeafPlan(disk.node[b]), 0) /\ UNCHANGED marks
  BY DEF StartLeaf
<1>2. DOMAIN s = {1} /\ s[1] = b
  OBVIOUS
<1> HIDE DEF s
<1>3. ToSet(s) = {b}
  BY <1>2 DEF ToSet
<1>4. MarkRecovered(s) => marks' = marks \cup {b}
  BY <1>3, MarksSet
<1> QED
  BY <1>1, <1>4 DEF LeafBegun

\* Blocks in front of the scan after a turn were in front of it before, but one.
LEMMA Behind ==
  ASSUME JobInv, NEW b \in Blocks, Hit(b)
  PROVE  /\ pos \in Nat /\ b \in Nat /\ pos <= b /\ pos' = b + 1
         /\ \A r \in Blocks : r < pos' => r = b \/ r < pos \/ r \in disk.bad \/ ~disk.node[r].magic
         /\ \A r \in 1 .. b - 1 : r \in Blocks /\ (r < pos \/ r \in disk.bad \/ ~disk.node[r].magic)
<1>1. pos \in Nat /\ Blocks \subseteq Nat /\ b \in Nat /\ pos <= b /\ pos' = b + 1
  BY TreeAssumption DEF Blocks, JobInv, Hit
<1>2. \A r \in Blocks : pos <= r /\ r < b => r \in disk.bad \/ ~disk.node[r].magic
  BY DEF Hit
<1>3. ASSUME NEW r \in Blocks PROVE r < b + 1 => r = b \/ r < pos \/ (pos <= r /\ r < b)
  <2>1. r \in Nat
    BY <1>1
  <2> QED
    BY <1>1, <2>1
<1>4. ASSUME NEW r \in 1 .. b - 1 PROVE r \in Blocks /\ r < b + 1 /\ r # b
  <2>1. b \in 1 .. TotalBlocks - 1 /\ TotalBlocks \in Nat
    BY TreeAssumption DEF Blocks
  <2>2. r \in 1 .. TotalBlocks - 1
    BY <1>1, <2>1
  <2>3. r < b + 1 /\ r # b
    BY <1>1
  <2> QED
    BY <2>2, <2>3 DEF Blocks
<1>5. \A r \in Blocks : r < b + 1 => r = b \/ r < pos \/ r \in disk.bad \/ ~disk.node[r].magic
  BY <1>2, <1>3
<1>6. \A r \in 1 .. b - 1 : r \in Blocks /\ (r < pos \/ r \in disk.bad \/ ~disk.node[r].magic)
  BY <1>4, <1>5
<1> QED
  BY <1>1, <1>5, <1>6

\* A block of a tree has a header.
LEMMA IndexMagic == \A b : IndexAt(b) \/ LeafAt(b) => disk.node[b].magic
  BY DEF IndexAt, LeafAt, validate_extent_header

\* The marks stay closed when the scan moves on.
LEMMA ScanClosed ==
  ASSUME disk \in Disks, JobInv, WellFormed, NEW b \in Blocks, Hit(b), ~Mishap,
         phase = "aggressive", Closed(phase, FALSE, marks, pos)
  PROVE  Closed(phase, FALSE, marks', pos') /\ marks \subseteq marks'
<1>1. \A r \in Blocks : r < pos' => r = b \/ r < pos \/ r \in disk.bad \/ ~disk.node[r].magic
  BY Behind
<1>2. \A r \in Blocks : IndexAt(r) /\ (r \in marks \/ (r < pos /\ r \notin disk.bad)) => Below(r) \subseteq marks
  BY DEF Closed
<1>3. ASSUME marks \subseteq marks',
             \A r \in Blocks : IndexAt(r) /\ (r = b \/ (r \in marks' /\ r \notin marks)) => Below(r) \subseteq marks'
      PROVE  Closed(phase, FALSE, marks', pos')
  <2> SUFFICES ASSUME NEW r \in Blocks, IndexAt(r), r \in marks' \/ (r < pos' /\ r \notin disk.bad)
               PROVE  Below(r) \subseteq marks'
    BY DEF Closed
  <2>1. disk.node[r].magic
    BY IndexMagic
  <2>2. CASE r \in marks \/ (r < pos /\ r \notin disk.bad)
    <3>1. Below(r) \subseteq marks
      BY <1>2, <2>2
    <3> QED
      BY <1>3, <3>1
  <2>3. CASE ~(r \in marks \/ (r < pos /\ r \notin disk.bad))
    <3>1. r = b \/ (r \in marks' /\ r \notin marks)
      BY <1>1, <2>1, <2>3
    <3> QED
      BY <1>3, <3>1
  <2> QED
    BY <2>2, <2>3
<1>4. CASE (b \in marks \/ ~validate_extent_header(disk.node[b])) /\ UNCHANGED <<job, marks, mishaps>>
  <2>1. IndexAt(b) => b \in marks
    BY <1>4 DEF IndexAt
  <2> QED
    BY <1>2, <1>3, <1>4, <2>1
<1>5. CASE LeafAt(b) /\ StartLeaf(b, disk.node[b])
  <2>1. marks' = marks \cup {b} \/ marks' = marks
    BY <1>5, StartLeafBegun DEF LeafBegun
  <2>2. ~IndexAt(b)
    <3>1. disk.node[b].depth = 0
      BY <1>5 DEF LeafAt
    <3> QED
      BY <3>1 DEF IndexAt
  <2> QED
    BY <1>3, <2>1, <2>2
<1>6. CASE IndexAt(b) /\ StartTree(b, disk.node[b])
  <2> DEFINE w == walk_extent_tree(disk, disk.node[b])
  <2>1. Thorough(b, w)
    BY <1>6, WalkThorough
  <2>2. disk.node[b].slots \in Seq(Slots)
    <3>1. disk.node \in [Blocks -> Headers]
      BY DisksAssumption DEF DiskOK
    <3>2. disk.node[b] \in Headers
      BY <3>1
    <3> QED
      BY <3>2 DEF Headers
  <2>3. TreeBegun(b, w)
    BY <1>6, <2>2, StartTreeBegun
  <2> HIDE DEF w
  <2>4. marks \subseteq marks' /\ ToSet(w.marks) \subseteq marks'
        /\ \A r \in marks' : r \in marks \/ r = b \/ r \in ToSet(w.marks)
    BY <2>3 DEF TreeBegun
  <2>5. Below(b) \subseteq ToSet(w.marks) /\ \A r \in ToSet(w.marks) : IndexAt(r) => Below(r) \subseteq ToSet(w.marks)
    BY <1>6, <2>1 DEF Thorough, Complete
  <2> QED
    BY <1>3, <2>4, <2>5
<1> QED
  BY <1>4, <1>5, <1>6 DEF Hit

\* A turn of the scan keeps the parts of MarksInv.
LEMMA ScanMarks ==
  ASSUME disk \in Disks, JobInv, WellFormed, ScanBlock, ~Mishap, JobMarks(phase, pos, job),
         Closed(phase, saving, marks, pos)
  PROVE  /\ Unmarked(phase, marks') /\ Closed(phase, saving, marks', pos')
         /\ JobMarks(phase, pos', job')
<1>1. phase = "aggressive" /\ ~saving /\ job = NoJob
  BY DEF ScanBlock, Turn
<1>2. PICK b \in Blocks : Hit(b)
  BY ScanHit
<1>3. Closed(phase, FALSE, marks, pos)
  BY <1>1 DEF Closed
<1>4. Closed(phase, FALSE, marks', pos')
  BY <1>1, <1>2, <1>3, ScanClosed
<1>5. Closed(phase, saving, marks', pos')
  BY <1>1, <1>4 DEF Closed
<1>6. Unmarked(phase, marks')
  BY <1>1 DEF Unmarked
<1>7. b < pos' /\ b \notin disk.bad
  <2>1. b \in Nat /\ pos' = b + 1
    BY <1>2, Behind
  <2> QED
    BY <1>2, <2>1 DEF Hit
<1>8. b \notin marks => Unparented(b)
  <2> SUFFICES ASSUME b \notin marks, NEW r \in 1 .. b - 1, r \notin disk.bad, IndexAt(r)
               PROVE  b \notin Below(r)
    BY DEF Unparented
  <2>1. r \in Blocks /\ (r < pos \/ r \in disk.bad \/ ~disk.node[r].magic)
    BY <1>2, Behind
  <2>2. r < pos
    BY <2>1, IndexMagic
  <2>3. Below(r) \subseteq marks
    BY <1>1, <2>1, <2>2 DEF Closed
  <2> QED
    BY <2>3
<1>9. ASSUME NEW kind \in {"tree", "leaf"}, NEW plan, b \notin marks, job' = Job(kind, b, <<kind, b>>, plan, 0)
      PROVE  JobMarks(phase, pos', job')
  <2> DEFINE name == <<kind, b>>
  <2>1. name[1] = kind /\ name[2] = b
    OBVIOUS
  <2> HIDE DEF name
  <2>2. job'.kind = kind /\ job'.src = b /\ job'.name = name
    BY <1>9, Fields DEF name
  <2>3. job'.name[1] = "leaf" => Unparented(job'.name[2])
    BY <1>8, <1>9, <2>1, <2>2
  <2>4. kind \in {"tree", "leaf"} /\ kind \in {"tree", "leaf", "probe"}
    BY <1>9
  <2> QED
    BY <1>1, <1>7, <2>2, <2>3, <2>4 DEF JobMarks
<1>10. CASE UNCHANGED <<job, marks, mishaps>>
  BY <1>1, <1>5, <1>6, <1>10, JobMarksNone
<1>11. CASE b \notin marks /\ StartLeaf(b, disk.node[b])
  <2>1. job' = NoJob \/ job' = Job("leaf", b, <<"leaf", b>>, LeafPlan(disk.node[b]), 0)
    BY <1>11 DEF StartLeaf
  <2> QED
    BY <1>5, <1>6, <1>9, <1>11, <2>1, JobMarksNone
<1>12. CASE b \notin marks /\ StartTree(b, disk.node[b])
  <2>1. job' = NoJob \/ \E plan : job' = Job("tree", b, <<"tree", b>>, plan, 0)
    BY <1>12 DEF StartTree
  <2> QED
    BY <1>5, <1>6, <1>9, <1>12, <2>1, JobMarksNone
<1> QED
  BY <1>2, <1>10, <1>11, <1>12 DEF Hit

\* The job of an inode.
LEMMA StartInodeMarks ==
  ASSUME NEW ino, StartInode(ino) \/ Pass, job = NoJob, NEW p, NEW q, p # "aggressive"
  PROVE  JobMarks(p, q, job')
<1> DEFINE name == <<"out", Resolved(ino)>>
           plan == TravelPlan(disk, disk.inodes[ino])
<1>1. job' = job \/ job' = Job("inode", ino, name, plan, 0)
  BY DEF StartInode, Pass
<1>2. name[1] # "leaf"
  OBVIOUS
<1> HIDE DEF name, plan
<1> QED
  BY <1>1, <1>2, JobMarksElse, JobMarksNone

\* The jobs of the journal phase.
LEMMA JournalCopyMarks ==
  ASSUME JournalInv, disk \in Disks, JournalCopy, NEW p, NEW q, p # "aggressive"
  PROVE  JobMarks(p, q, job')
<1> DEFINE c == disk.copies[pos]
           tmp == <<"tmp", c.ino>>
           name == <<IF c.kind = "inline" THEN "inline" ELSE "ind", Resolved(c.ino)>>
           jplan == JournalPlan(AsOf(c), c)
           iplan == IF c.kind = "inline" THEN <<>> ELSE IndirectPlan(disk, c.ptrs)
<1>1. job = NoJob /\ phase = "journal" /\ ~Over
  BY DEF JournalCopy, Turn
<1>2. \/ job' = job \/ job' = NoJob
      \/ job' = Job("journal", c.ino, tmp, jplan, c.size)
      \/ job' = Job(c.kind, c.ino, name, iplan, c.size)
  BY DEF JournalCopy, FromExtents, FromInode, Pass, JournalName
<1>3. c.kind \notin {"tree", "leaf", "probe"}
  <2>1. disk.copies \in Seq(InodeCopies)
    BY DisksAssumption DEF DiskOK
  <2>2. pos \in Nat \ {0} /\ ~(pos > Len(disk.copies))
    BY <1>1 DEF JournalInv, Over
  <2>3. c \in InodeCopies
    BY <2>1, <2>2
  <2> HIDE DEF c
  <2> QED
    BY <2>3 DEF InodeCopies
<1>4. tmp[1] # "leaf" /\ name[1] # "leaf"
  OBVIOUS
<1> HIDE DEF c, tmp, name, jplan, iplan
<1>5. CASE job' = job \/ job' = NoJob
  BY <1>1, <1>5, JobMarksNone
<1>6. CASE job' = Job("journal", c.ino, tmp, jplan, c.size)
  BY <1>4, <1>6, JobMarksElse
<1>7. CASE job' = Job(c.kind, c.ino, name, iplan, c.size)
  BY <1>3, <1>4, <1>7, JobMarksElse
<1> QED
  BY <1>2, <1>5, <1>6, <1>7

\* The jobs of revoked blocks.
LEMMA RevokedMarks ==
  ASSUME RevokedBlock, NEW q
  PROVE  JobMarks("targeted", q, job')
<1> DEFINE b == disk.revoked[pos]
           h == read_tree_block_versioned(disk, b)
           plan == ClearedPlan(h.slots)
           name == <<"targeted", b>>
<1>1. job = NoJob /\ \/ job' = job
                     \/ job' = Job("targeted", b, name, plan, 0)
                     \/ job' = Job("probe", b, name, <<>>, 0)
  BY DEF RevokedBlock, Turn
<1>2. name[1] # "leaf"
  OBVIOUS
<1> HIDE DEF b, plan, name
<1> QED
  BY <1>1, <1>2, JobMarksElse, JobMarksNone

\* Steps of the loops keep MarksInv.
LEMMA LoopingMarks ==
  ASSUME NameState, JournalInv, JobInv, MarksInv, Looping
  PROVE  MarksInv'
<1>1. NamesInv /\ disk \in Disks
  BY DEF NameState, PhaseInv
<1>2. Counted /\ UNCHANGED <<disk, phase, saving>>
  BY LoopingInside, ResolvesCounted DEF Inside, Quiet
<1>3. UNCHANGED files /\ job = NoJob
  BY <1>1, LoopingStarts
<1> SUFFICES ASSUME mishaps' = 0, WellFormed
             PROVE  /\ Unmarked(phase', marks') /\ Closed(phase', saving', marks', pos')
                    /\ JobMarks(phase', pos', job') /\ LeafFiles(DOMAIN files')
  BY <1>2, MarksNext
<1>4. ~Mishap /\ mishaps = 0
  BY <1>1, <1>2, TidyBefore
<1>5. /\ Unmarked(phase, marks) /\ Closed(phase, saving, marks, pos)
      /\ JobMarks(phase, pos, job) /\ LeafFiles(DOMAIN files)
  BY <1>4, MarksIs DEF Tidy
<1>6. CASE ScanBlock
  BY <1>1, <1>2, <1>3, <1>4, <1>5, <1>6, ScanMarks
<1>7. CASE ~ScanBlock
  <2>1. UNCHANGED marks /\ phase # "aggressive"
    BY <1>7 DEF Looping, OrphanChain, OrphanFile, JournalCopy, NormalInode, RevokedBlock, Turn
  <2>2. JobMarks(phase, pos', job')
    <3>1. CASE OrphanChain \/ OrphanFile \/ NormalInode
      <4>1. \E ino : StartInode(ino) \/ Pass
        BY <3>1 DEF OrphanChain, OrphanFile, NormalInode
      <4> QED
        BY <1>3, <2>1, <4>1, StartInodeMarks
    <3>2. CASE JournalCopy
      BY <1>1, <2>1, <3>2, JournalCopyMarks
    <3>3. CASE RevokedBlock
      <4>1. phase = "targeted"
        BY <3>3 DEF RevokedBlock, Turn
      <4> QED
        BY <3>3, <4>1, RevokedMarks
    <3> QED
      BY <1>7, <3>1, <3>2, <3>3 DEF Looping
  <2>3. Closed(phase, saving, marks, pos')
    BY <2>1 DEF Closed
  <2> QED
    BY <1>2, <1>3, <1>5, <2>1, <2>2, <2>3
<1> QED
  BY <1>6, <1>7

\* From one phase to the next: the marks are there in the phases behind the scan only.
LEMMA EnterMarks ==
  ASSUME NameState, Unmarked(phase, marks), NEW p, p = After(phase, mode), phase \in {"names"} \cup ToSet(Order),
         Enter(p)
  PROVE  Unmarked(p, marks) /\ Closed(p, FALSE, marks, pos')
<1>1. mode \subseteq ToSet(Order)
  BY DEF NameState, PhaseInv
<1>2. pos' = First(p)
  BY DEF Enter
<1>3. CASE phase \in {"aggressive", "targeted"}
  <2>1. p \in {"targeted", "report"}
    BY <1>1, <1>3, AfterOrder
  <2> QED
    BY <2>1 DEF Unmarked, Closed
<1>4. CASE phase \in {"names", "orphan", "journal", "normal"}
  <2>1. marks = {}
    BY <1>4 DEF Unmarked
  <2>2. p = "aggressive" => pos' = 1
    BY <1>2 DEF First
  <2>3. p = "aggressive" => \A r \in Blocks : ~(r < pos')
    BY <2>2, TreeAssumption DEF Blocks
  <2> QED
    BY <2>1, <2>3 DEF Unmarked, Closed
<1> QED
  BY <1>3, <1>4, Phases

\* Every step keeps MarksInv.
LEMMA NextMarks == NameState /\ JournalInv /\ JobInv /\ AnswersInv /\ MarksInv /\ [Next]_vars => MarksInv'
<1> SUFFICES ASSUME NameState, JournalInv, JobInv, AnswersInv, MarksInv, [Next]_vars PROVE MarksInv'
  OBVIOUS
<1>1. NamesInv
  BY DEF NameState
<1>2. CASE Looping
  BY <1>2, LoopingMarks
<1>3. CASE Writing
  BY <1>3, WritingMarks
<1>4. CASE Closing
  BY <1>4, ClosingMarks
<1>5. CASE Setup \/ SetupFails \/ AddName \/ NamesDone \/ PhaseDone \/ CheckpointWritten \/ Report \/ Clear
  <2>1. UNCHANGED <<disk, files, job>>
    BY <1>5 DEF Setup, SetupFails, AddName, NamesDone, PhaseDone, CheckpointWritten, Report, Clear, dirvars
  <2>2. Mishap \/ UNCHANGED mishaps
    <3>1. CASE AddName
      BY <3>1 DEF AddName, add_filename_mapping, RefuseName, GrowFails, UpdateName, AppendName
    <3>2. CASE Setup
      BY <3>2 DEF Setup, init_filename_map
    <3>3. CASE SetupFails \/ NamesDone \/ PhaseDone \/ CheckpointWritten \/ Report \/ Clear
      BY <3>3 DEF SetupFails, NamesDone, PhaseDone, CheckpointWritten, Report, Clear
    <3> QED
      BY <1>5, <3>1, <3>2, <3>3
  <2> SUFFICES ASSUME mishaps' = 0, WellFormed
               PROVE  /\ Unmarked(phase', marks') /\ Closed(phase', saving', marks', pos')
                      /\ JobMarks(phase', pos', job') /\ LeafFiles(DOMAIN files')
    BY <2>1, MarksNext
  <2>3. ~Mishap /\ mishaps = 0
    BY <1>1, <2>2, TidyBefore DEF Counted
  <2>4. /\ Unmarked(phase, marks) /\ Closed(phase, saving, marks, pos)
        /\ JobMarks(phase, pos, job) /\ LeafFiles(DOMAIN files)
    BY <2>3, MarksIs DEF Tidy
  <2>5. job # NoJob => phase \in ToSet(Order) /\ ~saving
    BY DEF NameState, PhaseInv
  <2>6. job = NoJob
    BY <1>5, <2>5, Phases DEF Setup, SetupFails, AddName, NamesDone, PhaseDone, CheckpointWritten, Report, Clear
  <2>7. Unmarked(phase', marks') /\ Closed(phase', saving', marks', pos')
    <3>1. CASE Setup \/ SetupFails \/ AddName \/ Report \/ Clear
      <4>1. UNCHANGED marks /\ phase' \in {"names", "failed", "clear", "done"}
            /\ (phase' = "names" => phase \in {"setup", "names"})
        BY <3>1 DEF Setup, SetupFails, AddName, Report, Clear
      <4> QED
        BY <2>4, <4>1 DEF Unmarked, Closed
    <3>2. CASE NamesDone
      <4>1. Enter(After(phase, mode)) /\ phase = "names" /\ UNCHANGED marks /\ phase' = After(phase, mode)
        BY <3>2 DEF NamesDone, Enter
      <4>2. Unmarked(phase', marks) /\ Closed(phase', FALSE, marks, pos')
        BY <2>4, <4>1, EnterMarks
      <4> QED
        BY <4>1, <4>2 DEF Closed
    <3>3. CASE CheckpointWritten
      <4>1. Enter(After(phase, mode)) /\ saving /\ UNCHANGED marks /\ phase' = After(phase, mode)
        BY <3>3 DEF CheckpointWritten, Enter
      <4>2. phase \in ToSet(Order)
        BY <4>1 DEF AnswersInv
      <4>3. Unmarked(phase', marks) /\ Closed(phase', FALSE, marks, pos')
        BY <2>4, <4>1, <4>2, EnterMarks
      <4> QED
        BY <4>1, <4>3 DEF Closed
    <3>4. CASE PhaseDone
      <4>1. saving' = TRUE /\ UNCHANGED phase /\ marks' = IF phase = "aggressive" THEN {} ELSE marks
        BY <2>3, <3>4 DEF PhaseDone
      <4>2. Unmarked(phase', marks')
        BY <2>4, <4>1 DEF Unmarked
      <4> QED
        BY <4>1, <4>2 DEF Closed
    <3> QED
      BY <1>5, <3>1, <3>2, <3>3, <3>4
  <2> QED
    BY <2>1, <2>4, <2>6, <2>7, JobMarksNone
<1>6. CASE Crash
  <2>1. Mishap /\ UNCHANGED disk
    BY <1>6 DEF Crash
  <2> QED
    BY <1>1, <2>1, MishapCounts, MarksNext
<1>7. CASE UNCHANGED vars
  <2>1. UNCHANGED <<disk, files, marks, phase, saving, pos, job, mishaps>>
    BY <1>7 DEF vars
  <2> QED
    BY <2>1, MarksNext, MarksIs DEF Tidy
<1> QED
  BY <1>2, <1>3, <1>4, <1>5, <1>6, <1>7 DEF Next, Program, Finished

\* MarksInv holds at the start.
LEMMA InitMarks == Init => MarksInv
<1> SUFFICES ASSUME Init PROVE MarksInv
  OBVIOUS
<1>1. marks = {} /\ phase = "setup" /\ job = NoJob /\ files = NoEntries
  BY DEF Init
<1>2. DOMAIN files = {}
  BY <1>1 DEF NoEntries
<1> QED
  BY <1>1, <1>2, MarksIs, JobMarksNone DEF Unmarked, Closed, LeafFiles

\* A run without failures on a disk with sound trees gives no leaf an output of its own
\* when the index that leads to it lies in front of it: for every such disk, whatever the
\* phases before the scan have recovered, in whichever order trees and leaves lie.
THEOREM NoFragmentsCorrect == Spec => []NoFragments
<1>1. Init => AnswersInv /\ MarksInv
  BY InitAnswers, InitMarks
<1>2. NameState /\ JournalInv /\ AnswersInv /\ [Next]_vars => AnswersInv'
  BY NextAnswers
<1>3. NameState /\ JournalInv /\ JobInv /\ AnswersInv /\ MarksInv /\ [Next]_vars => MarksInv'
  BY NextMarks
<1>4. MarksInv => NoFragments
  <2> SUFFICES ASSUME MarksInv, Tidy, NEW b \in Blocks, NEW r \in 1 .. b - 1, r \notin disk.bad,
                      IndexAt(r), b \in Below(r), <<"leaf", b>> \in DOMAIN files
               PROVE  FALSE
    BY DEF NoFragments, Tidy, IndexAt, Below
  <2> DEFINE n == <<"leaf", b>>
  <2>1. n[1] = "leaf" /\ n[2] = b /\ n \in DOMAIN files
    OBVIOUS
  <2> HIDE DEF n
  <2>2. Unparented(b)
    BY <2>1, MarksIs DEF LeafFiles
  <2> QED
    BY <2>2 DEF Unparented
<1> QED
  BY <1>1, <1>2, <1>3, <1>4, NameStateInvariant, JournalInvariant, JobInvariant, PTL DEF Spec

-----------------------------------------------------------------------------
(* The leaves of the aggressive scan. *)

\* The parts of LeavesInv.
AllRegistered(j, c) ==
    j # NoJob /\ j.kind \in {"tree", "leaf"} =>
        \A i \in 1 .. Len(j.plan) - Len(j.todo) : BlocksOf(j.plan[i]) \subseteq c
GotBy(e, j, c) == BlocksOf(e) \subseteq c \/ (j # NoJob /\ e \in ToSet(j.plan))
LeavesBehind(p, s, q, m, j, c) ==
    p = "aggressive" /\ ~s =>
        \A b \in Blocks : LeafAt(b) /\ (b < q \/ b \in m) => \A e \in Giving(b) : GotBy(e, j, c)
AllGiven(c) == \A b \in Blocks : LeafAt(b) => \A e \in Giving(b) : BlocksOf(e) \subseteq c
IsScanned(p, m) == "aggressive" \in m /\ p \in {"targeted", "report", "clear", "done"}
LeavesOver(p, s, m, c) == (p = "aggressive" /\ s) \/ IsScanned(p, m) => AllGiven(c)

\* LeavesInv, from its parts.
LEMMA LeavesIs ==
  LeavesInv <=> (Smooth /\ WellFormed =>
                    /\ AllRegistered(job, covered) /\ LeavesBehind(phase, saving, pos, marks, job, covered)
                    /\ LeavesOver(phase, saving, mode, covered))
  BY DEF LeavesInv, Smooth, AllRegistered, Registered, LeavesBehind, LeavesOver, AllGiven, IsScanned,
         Scanned, Got, GotBy

\* LeavesInv in the next state, from its parts.
LEMMA LeavesNext ==
  ASSUME UNCHANGED disk
  PROVE  LeavesInv' <=> (mishaps' = 0 /\ disk.bad = {} /\ WellFormed =>
                    /\ AllRegistered(job', covered')
                    /\ LeavesBehind(phase', saving', pos', marks', job', covered')
                    /\ LeavesOver(phase', saving', mode', covered'))
<1>1. WellFormed' <=> WellFormed
  BY SameWellFormed
<1> QED
  BY <1>1 DEF LeavesInv, Smooth, AllRegistered, Registered, LeavesBehind, LeavesOver, AllGiven, IsScanned,
         Scanned, Got, GotBy, LeafAt, Giving

\* A job that has read nothing has nothing to register.
LEMMA FreshRegistered ==
  ASSUME NEW dev, NEW j, NEW c, j = NoJob \/ Starts(dev, j)
  PROVE  AllRegistered(j, c)
<1>1. CASE j = NoJob
  BY <1>1 DEF AllRegistered
<1>2. CASE Starts(dev, j)
  <2>1. j.plan = j.todo /\ j.plan \in Seq(Exts)
    <3>1. JobOK(dev, j) /\ \E kind, src, name, plan, size : j = Job(kind, src, name, plan, size)
      BY <1>2 DEF Starts
    <3>2. j.plan = j.todo
      BY <3>1, Fields
    <3> QED
      BY <3>1, <3>2 DEF JobOK, PlanOK
  <2> DEFINE n == Len(j.plan)
  <2>2. n \in Nat /\ Len(j.todo) = n
    BY <2>1
  <2> HIDE DEF n
  <2>3. 1 .. n - Len(j.todo) = {}
    BY <2>2
  <2> QED
    BY <2>3 DEF AllRegistered, n
<1> QED
  BY <1>1, <1>2

\* More that is recovered does no harm.
LEMMA CoveredGrows ==
  ASSUME NEW c, NEW d, c \subseteq d
  PROVE  /\ AllGiven(c) => AllGiven(d)
         /\ \A p, s, m : LeavesOver(p, s, m, c) => LeavesOver(p, s, m, d)
<1>1. AllGiven(c) => AllGiven(d)
  BY DEF AllGiven
<1> QED
  BY <1>1 DEF LeavesOver

\* The plan of a tree or a leaf that is read to its end is all recovered.
LEMMA AllReadCovered ==
  ASSUME JobInv, AllRegistered(job, covered), job # NoJob, job.kind \in {"tree", "leaf"}, job.todo = <<>>,
         NEW e, GotBy(e, job, covered)
  PROVE  BlocksOf(e) \subseteq covered
<1>1. job.plan \in Seq(Exts)
  BY DEF JobInv, JobOK, PlanOK
<1> DEFINE n == Len(job.plan)
<1>2. n \in Nat /\ DOMAIN job.plan = 1 .. n /\ Len(job.todo) = 0
  BY <1>1
<1> HIDE DEF n
<1>3. n - Len(job.todo) = n
  BY <1>2
<1>4. \A i \in DOMAIN job.plan : BlocksOf(job.plan[i]) \subseteq covered
  BY <1>2, <1>3 DEF AllRegistered, n
<1> QED
  BY <1>4 DEF GotBy, ToSet

\* What a chunk does to what is registered.
LEMMA ChunkRegistered ==
  ASSUME JobInv, CopyChunk, AllRegistered(job, covered)
  PROVE  AllRegistered(job', covered') /\ covered \subseteq covered'
<1> DEFINE e == job.todo[1]
           k == Len(job.plan) - Len(job.todo)
<1>1. /\ job # NoJob /\ job.open /\ job.todo # <<>>
      /\ \/ /\ \E n : job' = [job EXCEPT !.todo = Tail(@), !.done = 0, !.ok = @ + n]
            /\ covered' = IF job.kind = "indirect" THEN covered ELSE covered \cup BlocksOf(e)
         \/ (\E n : job' = [job EXCEPT !.done = @ + n]) /\ UNCHANGED covered
  BY DEF CopyChunk, Copying, Extent
<1>2. JobOK(disk, job) /\ Reading(job, files)
  BY <1>1 DEF JobInv
<1>3. DOMAIN job = JobFields /\ PlanOK(job.kind, job.plan)
  BY <1>2 DEF JobOK
<1>4. k \in 0 .. Len(job.plan) - 1 /\ e = job.plan[k + 1]
  BY <1>1, <1>2, <1>3, NextExtent
<1>5. job.plan \in Seq(Exts) /\ job.todo \in Seq(Exts)
  BY <1>2, <1>3 DEF PlanOK, Reading
<1>6. covered \subseteq covered'
  <2> HIDE DEF e
  <2> QED
    BY <1>1
<1>7. CASE \E n : job' = [job EXCEPT !.done = @ + n]
  <2>1. job'.plan = job.plan /\ job'.todo = job.todo /\ job'.kind = job.kind
    BY <1>3, <1>7, Fields
  <2> QED
    BY <1>1, <1>6, <2>1 DEF AllRegistered
<1>8. CASE /\ \E n : job' = [job EXCEPT !.todo = Tail(@), !.done = 0, !.ok = @ + n]
           /\ covered' = IF job.kind = "indirect" THEN covered ELSE covered \cup BlocksOf(e)
  <2>1. job'.plan = job.plan /\ job'.todo = Tail(job.todo) /\ job'.kind = job.kind
    BY <1>3, <1>8, Fields
  <2> DEFINE t == job.todo
             p == job.plan
             X == Exts
             m == Len(Tail(t))
  <2>2. t \in Seq(X) /\ p \in Seq(X) /\ t # <<>> /\ k = Len(p) - Len(t) /\ k \in 0 .. Len(p) - 1
    BY <1>1, <1>4, <1>5
  <2> HIDE DEF t, p, X, k
  <2>3. m = Len(p) - k - 1 /\ Len(p) \in Nat
    <3>1. Len(t) \in Nat /\ Len(p) \in Nat /\ m = Len(t) - 1
      BY <2>2
    <3> HIDE DEF m
    <3> QED
      BY <2>2, <3>1
  <2> HIDE DEF m
  <2>4. Len(p) - m = k + 1 /\ k \in Nat
    BY <2>2, <2>3
  <2>5. \A i \in 1 .. k + 1 : i \in 1 .. k \/ i = k + 1
    BY <2>4
  <2> SUFFICES ASSUME job.kind \in {"tree", "leaf"}, NEW i \in 1 .. k + 1
               PROVE  BlocksOf(job.plan[i]) \subseteq covered'
    BY <1>6, <2>1, <2>4 DEF AllRegistered, t, p, m
  <2>6. covered' = covered \cup BlocksOf(e)
    BY <1>8
  <2>7. CASE i \in 1 .. k
    BY <1>1, <1>6, <2>7 DEF AllRegistered, k
  <2>8. CASE i = k + 1
    BY <1>4, <2>6, <2>8
  <2> QED
    BY <2>5, <2>7, <2>8
<1> QED
  BY <1>1, <1>6, <1>7, <1>8

\* Steps that open and write files keep LeavesInv.
LEMMA WritingLeaves ==
  ASSUME NameState, JournalInv, JobInv, WholeInv, MarksInv, LeavesInv, Writing
  PROVE  LeavesInv'
<1>1. NamesInv
  BY DEF NameState
<1>2. /\ Kept /\ job # NoJob /\ Counted
      /\ UNCHANGED <<disk, phase, saving, pos, marks, mode>>
  BY WritingKeeps
<1> SUFFICES ASSUME mishaps' = 0, disk.bad = {}, WellFormed
             PROVE  /\ AllRegistered(job', covered')
                    /\ LeavesBehind(phase', saving', pos', marks', job', covered')
                    /\ LeavesOver(phase', saving', mode', covered')
  BY <1>2, LeavesNext
<1>3. ~Mishap /\ mishaps = 0
  BY <1>1, <1>2, TidyBefore
<1>4. /\ AllRegistered(job, covered) /\ LeavesBehind(phase, saving, pos, marks, job, covered)
      /\ LeavesOver(phase, saving, mode, covered)
  BY <1>3, LeavesIs DEF Smooth
<1>5. DOMAIN job = JobFields
  BY <1>2 DEF JobInv, JobOK
<1>6. AllRegistered(job', covered') /\ covered \subseteq covered' /\ job' # NoJob
  <2>1. CASE OpenFile
    <3>1. job' = [job EXCEPT !.open = TRUE] /\ UNCHANGED covered
      BY <2>1 DEF OpenFile
    <3>2. Updated(job, job', {"open"})
      BY <1>5, <3>1, Fields DEF Updated
    <3>3. job'.plan = job.plan /\ job'.todo = job.todo /\ job'.kind = job.kind /\ job' # NoJob
      BY <3>2, Fields, HasFields DEF Updated
    <3> QED
      BY <1>2, <1>4, <3>1, <3>3 DEF AllRegistered
  <2>2. CASE OpenFails
    BY <1>3, <2>2 DEF OpenFails
  <2>3. CASE CopyChunk
    BY <1>4, <2>3, ChunkRegistered, ChunkStep
  <2>4. CASE ChunkFails
    <3>1. job'.stopped /\ job' # NoJob /\ UNCHANGED covered
      BY <2>4, FailStep DEF ChunkFails
    <3>2. WholeInv'
      BY WritingWhole
    <3>3. Halted(files', job')
      BY <1>2, <3>2, WholeNext DEF Smooth
    <3>4. job'.kind = "inode"
      BY <3>1, <3>3 DEF Halted
    <3> QED
      BY <3>1, <3>4 DEF AllRegistered
  <2> QED
    BY <2>1, <2>2, <2>3, <2>4 DEF Writing
<1>7. \A e : GotBy(e, job, covered) => GotBy(e, job', covered')
  <2>1. job'.plan = job.plan
    BY <1>2, <1>6 DEF Kept
  <2> QED
    BY <1>6, <2>1 DEF GotBy
<1>8. LeavesBehind(phase, saving, pos, marks, job', covered')
  BY <1>4, <1>7 DEF LeavesBehind
<1>9. LeavesOver(phase, saving, mode, covered')
  BY <1>4, <1>6, CoveredGrows
<1> QED
  BY <1>2, <1>6, <1>8, <1>9

\* Steps that end a job keep LeavesInv.
LEMMA ClosingLeaves ==
  ASSUME NameState, JournalInv, JobInv, MarksInv, LeavesInv, Closing
  PROVE  LeavesInv'
<1>1. NamesInv /\ disk \in Disks
  BY DEF NameState, PhaseInv
<1>2. Counted /\ UNCHANGED <<disk, mode, phase, saving>> /\ job # NoJob
  BY ClosingInside, ResolvesCounted DEF Inside, Quiet
<1>3. UNCHANGED <<pos, covered>>
  BY DEF Closing, InodeDone, BlockDone, Promote, PromoteFails, IndirectDone, InlineDone, RevokedTree, run
<1> SUFFICES ASSUME mishaps' = 0, disk.bad = {}, WellFormed
             PROVE  /\ AllRegistered(job', covered')
                    /\ LeavesBehind(phase', saving', pos', marks', job', covered')
                    /\ LeavesOver(phase', saving', mode', covered')
  BY <1>2, LeavesNext
<1>4. ~Mishap /\ mishaps = 0
  BY <1>1, <1>2, TidyBefore
<1>5. /\ AllRegistered(job, covered) /\ LeavesBehind(phase, saving, pos, marks, job, covered)
      /\ LeavesOver(phase, saving, mode, covered)
  BY <1>4, LeavesIs DEF Smooth
<1>6. JobMarks(phase, pos, job)
  BY <1>4, MarksIs DEF Tidy
<1>7. AllRegistered(job', covered')
  BY <1>1, ClosingJob, FreshRegistered
<1>8. CASE phase # "aggressive"
  BY <1>2, <1>3, <1>5, <1>7, <1>8 DEF LeavesBehind
<1>9. CASE phase = "aggressive"
  <2>1. job.kind \in {"tree", "leaf"} /\ job.src < pos
    BY <1>2, <1>6, <1>9 DEF JobMarks
  <2>2. BlockDone
    BY <2>1 DEF Closing, InodeDone, Promote, PromoteFails, IndirectDone, InlineDone, RevokedTree, Copied
  <2>3. job.todo = <<>> /\ (UNCHANGED marks \/ MarkRecovered(<<job.src>>))
    BY <2>1, <2>2 DEF BlockDone, Copied
  <2>4. \A b \in marks' : b \in marks \/ b = job.src
    <3> DEFINE s == <<job.src>>
    <3>1. DOMAIN s = {1} /\ s[1] = job.src
      OBVIOUS
    <3>2. UNCHANGED marks \/ MarkRecovered(s)
      BY <2>3
    <3> HIDE DEF s
    <3>3. ToSet(s) = {job.src}
      BY <3>1 DEF ToSet
    <3> QED
      BY <1>4, <3>2, <3>3, MarksSet
  <2>5. LeavesBehind(phase, saving, pos, marks', job', covered)
    <3> SUFFICES ASSUME ~saving, NEW b \in Blocks, LeafAt(b), b < pos \/ b \in marks', NEW e \in Giving(b)
                 PROVE  BlocksOf(e) \subseteq covered
      BY DEF LeavesBehind, GotBy
    <3>1. b < pos \/ b \in marks
      BY <2>1, <2>4
    <3>2. GotBy(e, job, covered)
      BY <1>5, <1>9, <3>1 DEF LeavesBehind
    <3> QED
      BY <1>2, <1>5, <2>1, <2>3, <3>2, AllReadCovered
  <2> QED
    BY <1>2, <1>3, <1>5, <1>7, <2>5
<1> QED
  BY <1>8, <1>9

\* What the pre-checks let pass is recovered already.
LEMMA CoveredHas ==
  ASSUME NEW x, FullyCovered(x, covered), NEW e \in ToSet(x), e \in Exts, ~Uninit(e)
  PROVE  BlocksOf(e) \subseteq covered
<1>1. PICK i \in DOMAIN x : x[i] = e
  BY DEF ToSet
<1>2. BlocksOf(Cleared(e)) \subseteq covered
  BY <1>1 DEF FullyCovered
<1> QED
  BY <1>2, ClearedLen

\* What a leaf has to give is among what its pre-check asks about.
LEMMA GivingProbed ==
  ASSUME disk \in Disks, NEW b \in Blocks, NEW e \in Giving(b)
  PROVE  e \in ToSet(LeafProbed(disk.node[b])) /\ e \in Exts /\ ~Uninit(e)
<1> DEFINE x == Extents(disk.node[b].slots)
           I == {i \in DOMAIN x : Mapped(x[i])}
           J == {i \in DOMAIN x : Mapped(x[i]) /\ InDevice(x[i])}
<1>1. disk.node[b].slots \in Seq(Slots)
  <2>1. disk.node \in [Blocks -> Headers]
    BY DisksAssumption DEF DiskOK
  <2>2. disk.node[b] \in Headers
    BY <2>1
  <2> QED
    BY <2>2 DEF Headers
<1>2. x \in Seq(Exts)
  BY <1>1, ExtentsType
<1>3. LeafProbed(disk.node[b]) = PickSeq(x, I) /\ LeafPlan(disk.node[b]) = PickSeq(x, J)
  BY DEF LeafProbed, LeafPlan, Select
<1>4. J \subseteq I /\ I \subseteq DOMAIN x
  OBVIOUS
<1>5. \A i \in DOMAIN x : x[i] \in Exts
  <2> HIDE DEF x
  <2> DEFINE X == Exts
  <2>1. x \in Seq(X)
    BY <1>2
  <2> HIDE DEF X
  <2>2. \A i \in DOMAIN x : x[i] \in X
    BY <2>1
  <2> QED
    BY <2>2 DEF X
<1> HIDE DEF x, I, J
<1>6. ToSet(PickSeq(x, I)) = {x[i] : i \in DOMAIN x \cap I} /\ ToSet(PickSeq(x, J)) = {x[i] : i \in DOMAIN x \cap J}
  BY <1>2, PickSet
<1>7. e \in ToSet(LeafPlan(disk.node[b])) /\ ~Uninit(e)
  BY DEF Giving
<1> QED
  BY <1>3, <1>4, <1>5, <1>6, <1>7

\* What is in the plan of a job.
LEMMA GotByJob ==
  ASSUME NEW kind, NEW src, NEW name, NEW plan, NEW size, NEW c, NEW e \in ToSet(plan)
  PROVE  GotBy(e, Job(kind, src, name, plan, size), c)
<1> DEFINE j == Job(kind, src, name, plan, size)
<1>1. j # NoJob /\ j.plan = plan
  BY Fields
<1> HIDE DEF j
<1>2. GotBy(e, j, c)
  BY <1>1 DEF GotBy
<1> QED
  BY <1>2 DEF j

\* The leaves the scan passes, or marks on its way, are recovered or being recovered.
LEMMA ScanLeaves ==
  ASSUME disk \in Disks, JobInv, disk.bad = {}, WellFormed, ~Mishap, ScanBlock,
         LeavesBehind(phase, saving, pos, marks, job, covered)
  PROVE  LeavesBehind(phase, saving, pos', marks', job', covered)
<1>1. phase = "aggressive" /\ ~saving /\ job = NoJob
  BY DEF ScanBlock, Turn
<1>2. PICK b \in Blocks : Hit(b)
  BY ScanHit
<1>3. \A r \in Blocks : r < pos' => r = b \/ r < pos \/ r \in disk.bad \/ ~disk.node[r].magic
  BY <1>2, Behind
<1> SUFFICES ASSUME NEW l \in Blocks, LeafAt(l), l < pos' \/ l \in marks', NEW e \in Giving(l)
             PROVE  GotBy(e, job', covered)
  BY DEF LeavesBehind
<1>4. l < pos \/ l \in marks => GotBy(e, job', covered)
  BY <1>1 DEF LeavesBehind, GotBy
<1>5. l < pos' => l = b \/ l < pos
  BY <1>3, IndexMagic
<1>6. e \in ToSet(LeafProbed(disk.node[l])) /\ e \in Exts /\ ~Uninit(e)
  BY GivingProbed
<1>7. CASE (b \in marks \/ ~validate_extent_header(disk.node[b])) /\ UNCHANGED <<job, marks, mishaps>>
  <2>1. LeafAt(b) => b \in marks
    BY <1>7 DEF LeafAt
  <2> QED
    BY <1>4, <1>5, <1>7, <2>1
<1>8. CASE LeafAt(b) /\ StartLeaf(b, disk.node[b])
  <2>1. LeafBegun(b)
    BY <1>8, StartLeafBegun
  <2>2. l = b \/ l < pos \/ l \in marks
    BY <1>5, <2>1 DEF LeafBegun
  <2>3. CASE l = b
    <3>1. CASE FullyCovered(LeafProbed(disk.node[b]), covered)
      <4>1. BlocksOf(e) \subseteq covered
        BY <1>6, <2>3, <3>1, CoveredHas
      <4> QED
        BY <4>1 DEF GotBy
    <3>2. CASE job' = Job("leaf", b, <<"leaf", b>>, LeafPlan(disk.node[b]), 0)
      <4>1. e \in ToSet(LeafPlan(disk.node[b]))
        BY <2>3 DEF Giving
      <4> QED
        BY <3>2, <4>1, GotByJob
    <3> QED
      BY <2>1, <3>1, <3>2 DEF LeafBegun
  <2> QED
    BY <1>4, <2>2, <2>3
<1>9. CASE IndexAt(b) /\ StartTree(b, disk.node[b])
  <2> DEFINE w == walk_extent_tree(disk, disk.node[b])
  <2>1. Thorough(b, w)
    BY <1>9, WalkThorough
  <2>2. disk.node[b].slots \in Seq(Slots)
    <3>1. disk.node \in [Blocks -> Headers]
      BY DisksAssumption DEF DiskOK
    <3>2. disk.node[b] \in Headers
      BY <3>1
    <3> QED
      BY <3>2 DEF Headers
  <2>3. TreeBegun(b, w) /\ w \in Walks
    BY <1>9, <2>2, StartTreeBegun, WalkTreeType
  <2> HIDE DEF w
  <2>4. w.exts \in Seq(Uses)
    BY <2>3 DEF Walks
  <2>5. l # b
    <3>1. disk.node[l].depth = 0
      BY DEF LeafAt
    <3> QED
      BY <1>9, <3>1 DEF IndexAt
  <2>6. l < pos \/ l \in marks \/ l \in ToSet(w.marks)
    BY <1>5, <2>3, <2>5 DEF TreeBegun
  <2>7. CASE l \in ToSet(w.marks)
    <3>1. Taken(l) \subseteq ToSet(w.exts)
      BY <2>1, <2>7 DEF Thorough, Complete
    <3>2. e \in ToSet(w.exts)
      BY <3>1, GivingTaken
    <3>3. CASE w.exts = <<>>
      BY <3>2, <3>3 DEF ToSet
    <3>4. CASE FullyCovered(w.exts, covered)
      <4>1. BlocksOf(e) \subseteq covered
        BY <1>6, <3>2, <3>4, CoveredHas
      <4> QED
        BY <4>1 DEF GotBy
    <3>5. CASE job' = Job("tree", b, <<"tree", b>>, TreePlan(w.exts), 0)
      <4>1. e \in ToSet(TreePlan(w.exts))
        BY <1>6, <2>4, <3>2, TreePlanHas
      <4> QED
        BY <3>5, <4>1, GotByJob
    <3> QED
      BY <2>3, <3>3, <3>4, <3>5 DEF TreeBegun
  <2> QED
    BY <1>4, <2>6, <2>7
<1> QED
  BY <1>2, <1>7, <1>8, <1>9 DEF Hit

\* Steps of the loops keep LeavesInv.
LEMMA LoopingLeaves ==
  ASSUME NameState, JournalInv, JobInv, MarksInv, LeavesInv, Looping
  PROVE  LeavesInv'
<1>1. NamesInv /\ disk \in Disks
  BY DEF NameState, PhaseInv
<1>2. Counted /\ UNCHANGED <<disk, mode, phase, saving>>
  BY LoopingInside, ResolvesCounted DEF Inside, Quiet
<1>3. UNCHANGED covered /\ job = NoJob /\ (job' = NoJob \/ Starts(disk, job'))
  BY <1>1, LoopingStarts
<1> SUFFICES ASSUME mishaps' = 0, disk.bad = {}, WellFormed
             PROVE  /\ AllRegistered(job', covered')
                    /\ LeavesBehind(phase', saving', pos', marks', job', covered')
                    /\ LeavesOver(phase', saving', mode', covered')
  BY <1>2, LeavesNext
<1>4. ~Mishap /\ mishaps = 0
  BY <1>1, <1>2, TidyBefore
<1>5. /\ LeavesBehind(phase, saving, pos, marks, job, covered)
      /\ LeavesOver(phase, saving, mode, covered)
  BY <1>4, LeavesIs DEF Smooth
<1>6. AllRegistered(job', covered')
  BY <1>3, FreshRegistered
<1>7. LeavesBehind(phase, saving, pos', marks', job', covered)
  <2>1. CASE ScanBlock
    BY <1>1, <1>4, <1>5, <2>1, ScanLeaves
  <2>2. CASE ~ScanBlock
    <3>1. phase # "aggressive"
      BY <2>2 DEF Looping, OrphanChain, OrphanFile, JournalCopy, NormalInode, RevokedBlock, Turn
    <3> QED
      BY <3>1 DEF LeavesBehind
  <2> QED
    BY <2>1, <2>2
<1> QED
  BY <1>2, <1>3, <1>5, <1>6, <1>7

\* The next phase begins with the marks and the position a phase begins with, and is behind
\* the scan only if the scan is over or not wanted.
LEMMA EnterLeaves ==
  ASSUME NameState, Unmarked(phase, marks), NEW p, p = After(phase, mode), phase \in {"names"} \cup ToSet(Order),
         Enter(p), phase = "aggressive" => saving, LeavesOver(phase, saving, mode, covered)
  PROVE  LeavesBehind(p, FALSE, pos', marks, job, covered) /\ LeavesOver(p, FALSE, mode, covered)
<1>1. mode \subseteq ToSet(Order)
  BY DEF NameState, PhaseInv
<1>2. pos' = First(p)
  BY DEF Enter
<1>3. CASE phase \in {"aggressive", "targeted"}
  <2>1. p \in {"targeted", "report"}
    BY <1>1, <1>3, AfterOrder
  <2>2. "aggressive" \in mode => AllGiven(covered)
    BY <1>3 DEF LeavesOver, IsScanned
  <2> QED
    BY <2>1, <2>2 DEF LeavesBehind, LeavesOver, IsScanned
<1>4. CASE phase \in {"names", "orphan", "journal", "normal"}
  <2>1. marks = {}
    BY <1>4 DEF Unmarked
  <2>2. p = "aggressive" => pos' = 1
    BY <1>2 DEF First
  <2>3. p = "aggressive" => \A r \in Blocks : ~(r < pos')
    BY <2>2, TreeAssumption DEF Blocks
  <2>4. "aggressive" \in mode => p \in {"orphan", "journal", "normal", "aggressive"}
    BY <1>1, <1>4, AfterOrder
  <2> QED
    BY <2>1, <2>3, <2>4 DEF LeavesBehind, LeavesOver, IsScanned
<1> QED
  BY <1>3, <1>4, Phases

\* The scan is over when no leaf is in front of it any more.
LEMMA OverGiven ==
  ASSUME phase = "aggressive", Over, ~saving, job = NoJob, disk.bad = {}, pos \in Nat,
         LeavesBehind(phase, saving, pos, marks, job, covered)
  PROVE  AllGiven(covered)
<1> SUFFICES ASSUME NEW b \in Blocks, LeafAt(b), NEW e \in Giving(b) PROVE BlocksOf(e) \subseteq covered
  BY DEF AllGiven
<1>1. b >= pos => b \in disk.bad \/ ~disk.node[b].magic
  BY DEF Over
<1>2. ~(b >= pos)
  BY <1>1, IndexMagic
<1>3. b \in Nat
  BY TreeAssumption DEF Blocks
<1>4. b < pos
  BY <1>2, <1>3
<1> QED
  BY <1>4 DEF LeavesBehind, GotBy

\* Every step keeps LeavesInv.
LEMMA NextLeaves ==
  /\ NameState /\ JournalInv /\ JobInv /\ AnswersInv /\ WholeInv /\ MarksInv /\ LeavesInv
  /\ [Next]_vars
  => LeavesInv'
<1> SUFFICES ASSUME NameState, JournalInv, JobInv, AnswersInv, WholeInv, MarksInv, LeavesInv, [Next]_vars
             PROVE  LeavesInv'
  OBVIOUS
<1>1. NamesInv
  BY DEF NameState
<1>2. CASE Looping
  BY <1>2, LoopingLeaves
<1>3. CASE Writing
  BY <1>3, WritingLeaves
<1>4. CASE Closing
  BY <1>4, ClosingLeaves
<1>5. CASE Setup \/ SetupFails \/ AddName \/ NamesDone \/ PhaseDone \/ CheckpointWritten \/ Report \/ Clear
  <2>1. UNCHANGED <<disk, job, covered>>
    BY <1>5 DEF Setup, SetupFails, AddName, NamesDone, PhaseDone, CheckpointWritten, Report, Clear
  <2>2. Mishap \/ UNCHANGED mishaps
    <3>1. CASE AddName
      BY <3>1 DEF AddName, add_filename_mapping, RefuseName, GrowFails, UpdateName, AppendName
    <3>2. CASE Setup
      BY <3>2 DEF Setup, init_filename_map
    <3>3. CASE SetupFails \/ NamesDone \/ PhaseDone \/ CheckpointWritten \/ Report \/ Clear
      BY <3>3 DEF SetupFails, NamesDone, PhaseDone, CheckpointWritten, Report, Clear
    <3> QED
      BY <1>5, <3>1, <3>2, <3>3
  <2> SUFFICES ASSUME mishaps' = 0, disk.bad = {}, WellFormed
               PROVE  /\ AllRegistered(job', covered')
                      /\ LeavesBehind(phase', saving', pos', marks', job', covered')
                      /\ LeavesOver(phase', saving', mode', covered')
    BY <2>1, LeavesNext
  <2>3. ~Mishap /\ mishaps = 0
    BY <1>1, <2>2, TidyBefore DEF Counted
  <2>4. /\ AllRegistered(job, covered) /\ LeavesBehind(phase, saving, pos, marks, job, covered)
        /\ LeavesOver(phase, saving, mode, covered)
    BY <2>3, LeavesIs DEF Smooth
  <2>5. Unmarked(phase, marks)
    BY <2>3, MarksIs DEF Tidy
  <2>6. LeavesBehind(phase', saving', pos', marks', job, covered) /\ LeavesOver(phase', saving', mode', covered)
    <3>1. CASE Setup \/ SetupFails \/ AddName
      <4>1. phase' \in {"names", "failed"}
        BY <3>1 DEF Setup, SetupFails, AddName
      <4> QED
        BY <4>1 DEF LeavesBehind, LeavesOver, IsScanned
    <3>2. CASE Report \/ Clear
      <4>1. UNCHANGED mode /\ phase \in {"report", "clear"} /\ phase' \in {"clear", "done"}
        BY <3>2 DEF Report, Clear
      <4> QED
        BY <2>4, <4>1 DEF LeavesBehind, LeavesOver, IsScanned
    <3>3. CASE NamesDone \/ CheckpointWritten
      <4>1. /\ Enter(After(phase, mode)) /\ UNCHANGED <<marks, mode>> /\ phase' = After(phase, mode)
            /\ phase = "names" \/ saving
        BY <3>3 DEF NamesDone, CheckpointWritten, Enter
      <4>2. phase \in {"names"} \cup ToSet(Order)
        BY <4>1 DEF AnswersInv
      <4>3. phase = "aggressive" => saving
        BY <4>1
      <4>4. LeavesBehind(phase', FALSE, pos', marks, job, covered) /\ LeavesOver(phase', FALSE, mode, covered)
        BY <2>4, <2>5, <4>1, <4>2, <4>3, EnterLeaves
      <4>5. saving' = FALSE
        <5>1. saving => phase \in ToSet(Order)
          BY DEF AnswersInv
        <5>2. CASE NamesDone
          <6>1. phase = "names" /\ saving' = saving
            BY <5>2 DEF NamesDone
          <6>2. ~saving
            BY <5>1, <6>1, Phases
          <6> QED
            BY <6>1, <6>2
        <5>3. CASE CheckpointWritten
          BY <5>3 DEF CheckpointWritten
        <5> QED
          BY <3>3, <5>2, <5>3
      <4> QED
        BY <4>1, <4>4, <4>5
    <3>4. CASE PhaseDone
      <4>1. /\ saving' = TRUE /\ UNCHANGED <<phase, mode>> /\ Over /\ ~saving /\ job = NoJob
        BY <2>3, <3>4 DEF PhaseDone
      <4>2. phase = "aggressive" => AllGiven(covered)
        BY <2>4, <4>1, OverGiven DEF JobInv
      <4> QED
        BY <2>4, <4>1, <4>2 DEF LeavesBehind, LeavesOver
    <3> QED
      BY <1>5, <3>1, <3>2, <3>3, <3>4
  <2> QED
    BY <2>1, <2>4, <2>6
<1>6. CASE Crash
  <2>1. Mishap /\ UNCHANGED disk
    BY <1>6 DEF Crash
  <2> QED
    BY <1>1, <2>1, MishapCounts, LeavesNext
<1>7. CASE UNCHANGED vars
  <2>1. UNCHANGED <<disk, covered, marks, phase, saving, pos, mode, job, mishaps>>
    BY <1>7 DEF vars
  <2> QED
    BY <2>1, LeavesNext, LeavesIs DEF Smooth
<1> QED
  BY <1>2, <1>3, <1>4, <1>5, <1>6, <1>7 DEF Next, Program, Finished

\* LeavesInv holds at the start.
LEMMA InitLeaves == Init => LeavesInv
<1> SUFFICES ASSUME Init PROVE LeavesInv
  OBVIOUS
<1>1. phase = "setup" /\ job = NoJob
  BY DEF Init
<1> QED
  BY <1>1, LeavesIs DEF AllRegistered, LeavesBehind, LeavesOver, IsScanned

\* A run without failures on a readable disk with sound trees copies every initialized
\* extent of every leaf into some output, for every such disk, whatever was recovered before
\* the scan: a leaf is passed over only when a walk has taken all it has, or it has been
\* copied elsewhere.  That the outputs still hold it is NothingLostCorrect.
THEOREM NothingPassedOverCorrect == Spec => []NothingPassedOver
<1>1. Init => AnswersInv /\ WholeInv /\ MarksInv /\ LeavesInv
  BY InitAnswers, InitWhole, InitMarks, InitLeaves
<1>2. NameState /\ JournalInv /\ AnswersInv /\ [Next]_vars => AnswersInv'
  BY NextAnswers
<1>3. NameState /\ JournalInv /\ JobInv /\ WholeInv /\ [Next]_vars => WholeInv'
  BY NextWhole
<1>4. NameState /\ JournalInv /\ JobInv /\ AnswersInv /\ MarksInv /\ [Next]_vars => MarksInv'
  BY NextMarks
<1>5. /\ NameState /\ JournalInv /\ JobInv /\ AnswersInv /\ WholeInv /\ MarksInv /\ LeavesInv
      /\ [Next]_vars
      => LeavesInv'
  BY NextLeaves
<1>6. LeavesInv => NothingPassedOver
  <2> SUFFICES ASSUME LeavesInv, Smooth, WellFormed, Scanned PROVE AllGiven(covered)
    BY DEF NothingPassedOver, Smooth, AllGiven, LeafAt, Giving
  <2>1. IsScanned(phase, mode)
    BY DEF IsScanned, Scanned
  <2> QED
    BY <2>1, LeavesIs DEF LeavesOver
<1> QED
  BY <1>1, <1>2, <1>3, <1>4, <1>5, <1>6, NameStateInvariant, JournalInvariant, JobInvariant, PTL DEF Spec

-----------------------------------------------------------------------------
(* What the outputs of the aggressive scan hold. *)

\* The parts of HeldInv.
Alone == Smooth /\ Unfolded /\ mode = {"aggressive"}
HeldBy(fs) == UNION {Range(fs[n]) : n \in DOMAIN fs}
NamedBefore(p, q, ns) == p = "aggressive" => \A n \in ns : n[2] \in 0 .. q - 1
Span(e, d) == e.at .. e.at + d - 1
Within(f, plan, k, todo, d) ==
    \A l \in DOMAIN f : (\E i \in 1 .. k : l \in Span(plan[i], plan[i].len)) \/ (todo # <<>> /\ l \in Span(todo[1], d))
Begun(f, todo, d) ==
    todo # <<>> => \A l \in 0 .. d - 1 : todo[1].at + l \in DOMAIN f /\ f[todo[1].at + l] = todo[1].start + l
KeepingBy(j, fs, q) ==
    LET k == Len(j.plan) - Len(j.todo)
    IN /\ j.kind \in {"tree", "leaf"} /\ j.name = <<j.kind, j.src>> /\ j.src \in 0 .. q - 1
       /\ Apart(j.plan)
       /\ j.ok \in Nat /\ (k > 0 => j.ok > 0)
       /\ ~j.open => j.name \notin DOMAIN fs
       /\ j.open => Within(fs[j.name], j.plan, k, j.todo, j.done) /\ Begun(fs[j.name], j.todo, j.done)
HeldParts(c, fs, p, q, j) ==
    /\ c \subseteq HeldBy(fs) /\ NamedBefore(p, q, DOMAIN fs)
    /\ j # NoJob => KeepingBy(j, fs, q)
InMode(p, m) == p \in ToSet(Order) => p \in m
Unwritten(p, fs, c) == p \in {"setup", "names"} => fs = NoEntries /\ c = {}

\* HeldInv, from its parts.
LEMMA HeldIs ==
  HeldInv <=> /\ InMode(phase, mode)
              /\ mishaps = 0 => Unwritten(phase, files, covered)
              /\ Alone => HeldParts(covered, files, phase, pos, job)
  BY DEF HeldInv, Keeping, Held, Alone, Smooth, HeldBy, NamedBefore, Span, Within, Begun, KeepingBy,
         HeldParts, InMode, Unwritten

\* HeldInv in the next state, from its parts.
LEMMA HeldNext ==
  ASSUME UNCHANGED disk
  PROVE  HeldInv' <=> /\ InMode(phase', mode')
                      /\ mishaps' = 0 => Unwritten(phase', files', covered')
                      /\ mishaps' = 0 /\ disk.bad = {} /\ Unfolded /\ mode' = {"aggressive"} =>
                           HeldParts(covered', files', phase', pos', job')
<1>1. Unfolded' <=> Unfolded
  BY DEF Unfolded
<1> QED
  BY <1>1 DEF HeldInv, Keeping, Held, HeldBy, NamedBefore, Span, Within, Begun, KeepingBy,
         HeldParts, InMode, Unwritten

\* Outputs that lose nothing hold what they held.
LEMMA HeldGrows ==
  ASSUME NEW c, NEW fs, NEW gs, c \subseteq HeldBy(fs),
         \A n \in DOMAIN fs : \A l \in DOMAIN fs[n] :
            n \in DOMAIN gs /\ l \in DOMAIN gs[n] /\ gs[n][l] = fs[n][l]
  PROVE  c \subseteq HeldBy(gs)
<1> SUFFICES ASSUME NEW b \in c PROVE b \in HeldBy(gs)
  OBVIOUS
<1>1. PICK n \in DOMAIN fs : b \in Range(fs[n])
  BY DEF HeldBy
<1>2. PICK l \in DOMAIN fs[n] : fs[n][l] = b
  BY <1>1 DEF Range
<1>3. n \in DOMAIN gs /\ l \in DOMAIN gs[n] /\ gs[n][l] = b
  BY <1>2
<1>4. b \in Range(gs[n])
  BY <1>3 DEF Range
<1> QED
  BY <1>3, <1>4 DEF HeldBy

\* Part of a span does not meet what the span does not.
LEMMA SpansApart ==
  ASSUME NEW a \in Nat, NEW n \in Nat, NEW b \in Nat, NEW m \in Nat, NEW d \in Nat, NEW t \in Nat,
         a + n <= b \/ b + m <= a, d + t <= m, NEW l \in a .. a + n - 1
  PROVE  l \notin b + d .. b + d + t - 1
  OBVIOUS

\* A file has all it had; it has nothing beyond k extents of a plan and n blocks of e, and
\* these n blocks.
Extended(f, g) == \A l \in DOMAIN f : l \in DOMAIN g /\ g[l] = f[l]
Spread(f, plan, k, e, n) ==
    \A l \in DOMAIN f : (\E i \in 1 .. k : l \in Span(plan[i], plan[i].len)) \/ l \in Span(e, n)
HasFirst(f, e, n) == \A l \in 0 .. n - 1 : e.at + l \in DOMAIN f /\ f[e.at + l] = e.start + l

\* A chunk goes where the file has nothing yet.
LEMMA ChunkApart ==
  ASSUME NEW plan \in Seq(Exts), Apart(plan), NEW k \in 0 .. Len(plan) - 1, NEW d \in Nat, NEW t \in Nat \ {0},
         NEW e, e = plan[k + 1], d + t <= e.len, NEW f, Spread(f, plan, k, e, d), HasFirst(f, e, d)
  PROVE  LET g == Overlay(f, Filling(e, d, t))
         IN Extended(f, g) /\ Spread(g, plan, k, e, d + t) /\ HasFirst(g, e, d + t)
<1> DEFINE h == Filling(e, d, t)
           g == Overlay(f, h)
           N == Len(plan)
<1>1. N \in Nat /\ DOMAIN plan = 1 .. N /\ k + 1 \in 1 .. N /\ k \in Nat
  <2>1. N \in Nat /\ DOMAIN plan = 1 .. N /\ k \in 0 .. N - 1
    OBVIOUS
  <2> HIDE DEF N
  <2> QED
    BY <2>1
<1>2. e \in Exts /\ \A i \in 1 .. k : plan[i] \in Exts /\ i \in DOMAIN plan /\ i # k + 1
  <2> HIDE DEF N
  <2> QED
    BY <1>1
<1>3. e.at \in Nat /\ e.len \in Nat /\ e.start \in Nat
  BY <1>2 DEF Exts
<1>4. DOMAIN h = e.at + d .. e.at + d + t - 1
  BY DEF Filling
<1>5. \A i \in 1 .. k : \A l \in Span(plan[i], plan[i].len) : l \notin DOMAIN h
  <2> TAKE i \in 1 .. k
  <2> TAKE l \in Span(plan[i], plan[i].len)
  <2> DEFINE x == plan[i]
  <2>1. x \in Exts /\ (x.at + x.len <= e.at \/ e.at + e.len <= x.at)
    BY <1>1, <1>2 DEF Apart
  <2>2. l \in x.at .. x.at + x.len - 1
    BY DEF Span
  <2> HIDE DEF x, h, N
  <2>3. x.at \in Nat /\ x.len \in Nat
    BY <2>1 DEF Exts
  <2>4. l \notin e.at + d .. e.at + d + t - 1
    BY <1>3, <2>1, <2>2, <2>3, SpansApart
  <2> QED
    BY <1>4, <2>4
<1>6. \A l \in Span(e, d) : l \notin DOMAIN h
  <2> HIDE DEF h, N
  <2> QED
    BY <1>3, <1>4 DEF Span
<1>7. \A l \in DOMAIN f : l \notin DOMAIN h
  <2> HIDE DEF h, N
  <2> QED
    BY <1>5, <1>6 DEF Spread
<1>8. DOMAIN g = DOMAIN f \cup DOMAIN h /\ \A l \in DOMAIN g : g[l] = IF l \in DOMAIN h THEN h[l] ELSE f[l]
  BY DEF Overlay
<1>9. \A l \in DOMAIN h : h[l] = e.start + d + l - (e.at + d)
  BY DEF Filling
<1> HIDE DEF h, g, N
<1>10. \A l \in DOMAIN f : l \in DOMAIN g /\ g[l] = f[l]
  BY <1>7, <1>8
<1>11. \A l \in DOMAIN g : (\E i \in 1 .. k : l \in Span(plan[i], plan[i].len)) \/ l \in Span(e, d + t)
  <2> TAKE l \in DOMAIN g
  <2>1. \A m \in Span(e, d) : m \in Span(e, d + t)
    BY <1>3 DEF Span
  <2>2. \A m \in DOMAIN h : m \in Span(e, d + t)
    BY <1>3, <1>4 DEF Span
  <2> QED
    BY <1>8, <2>1, <2>2 DEF Spread
<1>12. \A l \in 0 .. d + t - 1 : e.at + l \in DOMAIN g /\ g[e.at + l] = e.start + l
  <2> TAKE l \in 0 .. d + t - 1
  <2>1. CASE l \in 0 .. d - 1
    BY <1>10, <2>1 DEF HasFirst
  <2>2. CASE l \notin 0 .. d - 1
    <3>1. e.at + l \in DOMAIN h
      BY <1>3, <1>4, <2>2
    <3>2. h[e.at + l] = e.start + d + (e.at + l) - (e.at + d)
      BY <1>9, <3>1
    <3>3. h[e.at + l] = e.start + l
      BY <1>3, <3>2
    <3> QED
      BY <1>8, <3>1, <3>3
  <2> QED
    BY <2>1, <2>2
<1> QED
  BY <1>10, <1>11, <1>12 DEF g, h, Extended, Spread, HasFirst

\* A chunk of the aggressive scan: nothing that was in the file is written over, and the
\* last chunk of an extent has all of it there.
LEMMA ChunkHeld ==
  ASSUME JobInv, CopyChunk, job.kind \in {"tree", "leaf"}, ~job.stopped,
         HeldParts(covered, files, phase, pos, job), phase = "aggressive"
  PROVE  HeldParts(covered', files', phase, pos, job')
<1> DEFINE e == job.todo[1]
           d == job.done
           t == ChunkLen(e, d)
           plan == job.plan
           k == Len(plan) - Len(job.todo)
           f == files[job.name]
           g == Overlay(f, Filling(e, d, t))
<1>1. /\ job # NoJob /\ job.open /\ job.todo # <<>>
      /\ files' = [files EXCEPT ![job.name] = Overlay(@, [l \in At .. At + t - 1 |-> e.start + d + l - At])]
      /\ IF d + t = e.len
         THEN /\ job' = [job EXCEPT !.todo = Tail(@), !.done = 0, !.ok = @ + e.len]
              /\ covered' = covered \cup BlocksOf(e)
         ELSE job' = [job EXCEPT !.done = @ + t] /\ UNCHANGED covered
      /\ At = e.at + d
  BY DEF CopyChunk, Copying, This, Extent, ChunkLen, At
<1>2. JobOK(disk, job) /\ Reading(job, files)
  BY <1>1 DEF JobInv
<1>3. DOMAIN job = JobFields /\ PlanOK(job.kind, plan)
  BY <1>2 DEF JobOK
<1>4. k \in 0 .. Len(plan) - 1 /\ e = plan[k + 1] /\ plan \in Seq(Exts) /\ job.todo \in Seq(Exts)
  BY <1>1, <1>2, <1>3, NextExtent DEF PlanOK, Reading
<1>5. /\ e \in Exts /\ d \in Nat /\ t \in Nat \ {0} /\ d < e.len /\ job.name \in DOMAIN files
      /\ job'.name = job.name /\ job' # NoJob /\ job'.open /\ job'.kind = job.kind /\ job'.plan = plan
  BY ChunkStep
<1>6. d + t <= e.len
  <2> HIDE DEF e, d
  <2>1. e.len \in Nat
    BY <1>5 DEF Exts
  <2> QED
    BY <1>5, <2>1, ChunkFits
<1>7. /\ job.name = <<job.kind, job.src>> /\ job.src \in 0 .. pos - 1 /\ Apart(plan)
      /\ job.ok \in Nat /\ (k > 0 => job.ok > 0)
      /\ Within(f, plan, k, job.todo, d) /\ Begun(f, job.todo, d)
      /\ covered \subseteq HeldBy(files) /\ NamedBefore(phase, pos, DOMAIN files)
  BY <1>1 DEF HeldParts, KeepingBy
<1>8. files' = [files EXCEPT ![job.name] = g] /\ files'[job.name] = g /\ DOMAIN files' = DOMAIN files
  BY <1>1, <1>5 DEF Filling
<1>9. /\ \A l \in DOMAIN f : l \in DOMAIN g /\ g[l] = f[l]
      /\ \A l \in DOMAIN g : (\E i \in 1 .. k : l \in Span(plan[i], plan[i].len)) \/ l \in Span(e, d + t)
      /\ \A l \in 0 .. d + t - 1 : e.at + l \in DOMAIN g /\ g[e.at + l] = e.start + l
  <2>1. Spread(f, plan, k, e, d) /\ HasFirst(f, e, d)
    BY <1>1, <1>7 DEF Within, Begun, Spread, HasFirst
  <2>2. /\ plan \in Seq(Exts) /\ Apart(plan) /\ k \in 0 .. Len(plan) - 1
        /\ d \in Nat /\ t \in Nat \ {0} /\ e = plan[k + 1] /\ d + t <= e.len
    BY <1>4, <1>5, <1>6, <1>7
  <2> HIDE DEF e, d, t, plan, k, f
  <2>3. Extended(f, g) /\ Spread(g, plan, k, e, d + t) /\ HasFirst(g, e, d + t)
    BY <2>1, <2>2, ChunkApart
  <2> HIDE DEF g
  <2> QED
    BY <2>2, <2>3 DEF Extended, Spread, HasFirst
<1>10. \A n \in DOMAIN files : \A l \in DOMAIN files[n] :
          n \in DOMAIN files' /\ l \in DOMAIN files'[n] /\ files'[n][l] = files[n][l]
  <2> HIDE DEF g
  <2> QED
    BY <1>8, <1>9
<1>11. covered \subseteq HeldBy(files')
  BY <1>7, <1>10, HeldGrows
<1>12. NamedBefore(phase, pos, DOMAIN files')
  BY <1>7, <1>8
<1>13. job'.src = job.src
  BY <1>5, WritingKeeps DEF Kept, Writing
<1>14. CASE d + t = e.len
  <2>1. /\ job'.todo = Tail(job.todo) /\ job'.done = 0 /\ job'.ok = job.ok + e.len
        /\ covered' = covered \cup BlocksOf(e)
    <3> DEFINE n == e.len
    <3>1. job' = [job EXCEPT !.todo = Tail(@), !.done = 0, !.ok = @ + n] /\ covered' = covered \cup BlocksOf(e)
      BY <1>1, <1>14
    <3> HIDE DEF n, d, t
    <3>2. job'.todo = Tail(job.todo) /\ job'.done = 0 /\ job'.ok = job.ok + n
      BY <1>3, <3>1, Fields
    <3> QED
      BY <3>1, <3>2 DEF n
  <2>2. Len(plan) - Len(job'.todo) = k + 1 /\ k \in Nat
    <3> DEFINE a == Len(plan)
               s == job.todo
               b == Len(Tail(s))
    <3>0. s # <<>>
      BY <1>1
    <3>1. a \in Nat /\ s \in Seq(Exts) /\ s # <<>> /\ k = a - Len(s) /\ k \in 0 .. a - 1
      <4>1. a \in Nat
        <5> HIDE DEF plan
        <5> QED
          BY <1>4
      <4> QED
        BY <1>4, <3>0, <4>1
    <3> HIDE DEF a, s, k
    <3>2. b = Len(s) - 1 /\ Len(s) \in Nat
      BY <3>1
    <3> HIDE DEF b
    <3>3. a - b = k + 1 /\ k \in Nat
      BY <3>1, <3>2
    <3> QED
      BY <2>1, <3>3 DEF a, b, s
  <2>3. e.len \in Nat /\ e.len > 0 /\ e.at \in Nat /\ e.start \in Nat
    <3> HIDE DEF e, d
    <3>1. e.len \in Nat /\ e.at \in Nat /\ e.start \in Nat
      BY <1>5 DEF Exts
    <3> QED
      BY <1>5, <3>1
  <2>4. BlocksOf(e) \subseteq Range(g)
    <3> SUFFICES ASSUME NEW x \in BlocksOf(e) PROVE x \in Range(g)
      OBVIOUS
    <3> HIDE DEF g, e, d, t
    <3> DEFINE l == x - e.start
    <3>1. l \in 0 .. d + t - 1 /\ x = e.start + l
      <4>1. x \in e.start .. e.start + e.len - 1
        BY DEF BlocksOf
      <4>2. l \in 0 .. e.len - 1 /\ x = e.start + l
        BY <2>3, <4>1
      <4> QED
        BY <1>5, <1>14, <2>3, <4>2
    <3> HIDE DEF l
    <3>2. e.at + l \in DOMAIN g /\ g[e.at + l] = x
      BY <1>9, <3>1
    <3> QED
      BY <3>2 DEF Range
  <2>5. covered' \subseteq HeldBy(files')
    <3> HIDE DEF g
    <3>1. BlocksOf(e) \subseteq HeldBy(files')
      BY <1>5, <1>8, <2>4 DEF HeldBy
    <3> QED
      BY <1>11, <2>1, <3>1
  <2>6. Within(g, plan, k + 1, job'.todo, 0) /\ Begun(g, job'.todo, 0)
    <3>1. \A l \in Span(e, d + t) : l \in Span(plan[k + 1], plan[k + 1].len)
      BY <1>4, <1>14
    <3>2. \A i \in 1 .. k : i \in 1 .. k + 1
      BY <2>2
    <3>3. k + 1 \in 1 .. k + 1
      BY <2>2
    <3>4. \A l \in DOMAIN g : \E i \in 1 .. k + 1 : l \in Span(plan[i], plan[i].len)
      <4> HIDE DEF g, e, d, t, plan, k
      <4> QED
        BY <1>9, <3>1, <3>2, <3>3
    <3>5. \A l \in 0 .. 0 - 1 : FALSE
      OBVIOUS
    <3> HIDE DEF g, e, d, t, plan, k
    <3> QED
      BY <3>4, <3>5 DEF Within, Begun
  <2>7. job'.ok \in Nat /\ job'.ok > 0
    <3> HIDE DEF e
    <3> QED
      BY <1>7, <2>1, <2>3
  <2>8. KeepingBy(job', files', pos)
    <3> HIDE DEF g, e, d, t, plan, k
    <3> QED
      BY <1>5, <1>7, <1>8, <1>13, <2>1, <2>2, <2>6, <2>7 DEF KeepingBy
  <2> QED
    BY <1>12, <2>5, <2>8 DEF HeldParts
<1>15. CASE d + t # e.len
  <2>1. job'.todo = job.todo /\ job'.done = d + t /\ job'.ok = job.ok /\ covered' = covered
    <3> DEFINE n == t
    <3>1. job' = [job EXCEPT !.done = @ + n] /\ covered' = covered
      BY <1>1, <1>15
    <3> HIDE DEF n
    <3>2. job'.todo = job.todo /\ job'.done = d + n /\ job'.ok = job.ok
      BY <1>3, <3>1, Fields
    <3> QED
      BY <3>1, <3>2 DEF n
  <2>2. Within(g, plan, k, job.todo, d + t) /\ Begun(g, job.todo, d + t)
    <3>1. job.todo # <<>> /\ e = job.todo[1]
      BY <1>1
    <3> HIDE DEF g, e, d, t, plan, k
    <3> QED
      BY <1>5, <1>9, <3>1 DEF Within, Begun
  <2>3. KeepingBy(job', files', pos)
    <3> HIDE DEF g, d, t, e
    <3> QED
      BY <1>5, <1>7, <1>8, <1>13, <2>1, <2>2 DEF KeepingBy
  <2> QED
    BY <1>11, <1>12, <2>1, <2>3 DEF HeldParts
<1> QED
  BY <1>14, <1>15

\* Steps that open and write files keep HeldInv.
LEMMA WritingHeld ==
  ASSUME NameState, JobInv, WholeInv, HeldInv, Writing
  PROVE  HeldInv'
<1>1. NamesInv
  BY DEF NameState
<1>2. /\ Kept /\ job # NoJob /\ Counted
      /\ UNCHANGED <<disk, phase, saving, pos, marks, mode>>
  BY WritingKeeps
<1>3. phase \in ToSet(Order) /\ phase \in mode /\ phase \notin {"setup", "names"}
  <2>1. phase \in ToSet(Order)
    BY <1>2 DEF NameState, PhaseInv
  <2> QED
    BY <2>1, HeldIs, Phases DEF InMode
<1> SUFFICES ASSUME mishaps' = 0, disk.bad = {}, Unfolded, mode = {"aggressive"}
             PROVE  HeldParts(covered', files', phase, pos, job')
  BY <1>2, <1>3, HeldNext DEF InMode, Unwritten
<1>4. ~Mishap /\ mishaps = 0 /\ phase = "aggressive"
  BY <1>1, <1>2, <1>3, TidyBefore
<1>5. HeldParts(covered, files, phase, pos, job)
  BY <1>4, HeldIs DEF Alone, Smooth
<1>6. KeepingBy(job, files, pos)
  BY <1>2, <1>5 DEF HeldParts
<1>7. job.kind \in {"tree", "leaf"} /\ job.name = <<job.kind, job.src>> /\ job.src \in 0 .. pos - 1
  BY <1>6 DEF KeepingBy
<1>8. DOMAIN job = JobFields /\ Reading(job, files) /\ PlanOK(job.kind, job.plan)
  BY <1>2 DEF JobInv, JobOK
<1>9. CASE OpenFile
  <2>1. /\ job' = [job EXCEPT !.open = TRUE] /\ ~job.open /\ UNCHANGED covered
        /\ files' = Put(files, job.name, NoFile)
    BY <1>9 DEF OpenFile
  <2>2. /\ job'.kind = job.kind /\ job'.src = job.src /\ job'.name = job.name /\ job'.plan = job.plan
        /\ job'.todo = job.todo /\ job'.done = job.done /\ job'.ok = job.ok /\ job'.open
    BY <1>8, <2>1, Fields
  <2>3. job.name \notin DOMAIN files /\ job.done = 0
    BY <1>6, <1>8, <2>1 DEF KeepingBy, Reading
  <2>4. /\ DOMAIN files' = DOMAIN files \cup {job.name} /\ files'[job.name] = NoFile
        /\ \A n \in DOMAIN files : files'[n] = files[n]
    BY <2>1, <2>3 DEF Put
  <2>5. covered' \subseteq HeldBy(files')
    <3>1. \A n \in DOMAIN files : \A l \in DOMAIN files[n] :
             n \in DOMAIN files' /\ l \in DOMAIN files'[n] /\ files'[n][l] = files[n][l]
      BY <2>4
    <3> QED
      BY <1>5, <2>1, <3>1, HeldGrows DEF HeldParts
  <2>6. NamedBefore(phase, pos, DOMAIN files')
    <3>1. job.name[2] = job.src
      BY <1>7
    <3> QED
      BY <1>5, <1>7, <2>4, <3>1 DEF HeldParts, NamedBefore
  <2>7. KeepingBy(job', files', pos)
    <3>1. DOMAIN NoFile = {}
      BY DEF NoFile, NoEntries
    <3>2. \A l \in 0 .. 0 - 1 : FALSE
      OBVIOUS
    <3>3. Within(files'[job.name], job.plan, Len(job.plan) - Len(job.todo), job.todo, job.done)
      BY <2>4, <3>1 DEF Within
    <3>4. Begun(files'[job.name], job.todo, job.done)
      BY <2>3, <3>2 DEF Begun
    <3> QED
      BY <1>6, <2>2, <3>3, <3>4 DEF KeepingBy
  <2> QED
    BY <2>5, <2>6, <2>7 DEF HeldParts
<1>10. CASE OpenFails
  BY <1>4, <1>10 DEF OpenFails
<1>11. CASE CopyChunk
  <2>1. ~job.stopped
    <3>1. Halted(files, job)
      BY <1>2, <1>4, WholeIs DEF Smooth
    <3> QED
      BY <1>2, <1>7, <3>1 DEF Halted
  <2> QED
    BY <1>4, <1>5, <1>7, <1>11, <2>1, ChunkHeld
<1>12. CASE ChunkFails
  <2>1. job'.stopped /\ job' # NoJob /\ job'.kind = job.kind
    BY <1>12, FailStep
  <2>2. WholeInv'
    BY WritingWhole
  <2>3. Halted(files', job')
    BY <1>2, <2>2, WholeNext DEF Smooth
  <2> QED
    BY <1>7, <2>1, <2>3 DEF Halted
<1> QED
  BY <1>9, <1>10, <1>11, <1>12 DEF Writing

\* Steps that end a job keep HeldInv: an output that is unlinked has nothing in it.
LEMMA ClosingHeld ==
  ASSUME NameState, JobInv, HeldInv, Closing
  PROVE  HeldInv'
<1>1. NamesInv
  BY DEF NameState
<1>2. Counted /\ UNCHANGED <<disk, mode, phase, saving>> /\ job # NoJob
  BY ClosingInside, ResolvesCounted DEF Inside, Quiet
<1>3. UNCHANGED <<pos, covered>>
  BY DEF Closing, InodeDone, BlockDone, Promote, PromoteFails, IndirectDone, InlineDone, RevokedTree, run
<1>4. phase \in ToSet(Order) /\ phase \in mode /\ phase \notin {"setup", "names"}
  <2>1. phase \in ToSet(Order)
    BY <1>2 DEF NameState, PhaseInv
  <2> QED
    BY <2>1, HeldIs, Phases DEF InMode
<1> SUFFICES ASSUME mishaps' = 0, disk.bad = {}, Unfolded, mode = {"aggressive"}
             PROVE  HeldParts(covered, files', phase, pos, job')
  BY <1>2, <1>3, <1>4, HeldNext DEF InMode, Unwritten
<1>5. ~Mishap /\ mishaps = 0
  BY <1>1, <1>2, TidyBefore
<1>6. HeldParts(covered, files, phase, pos, job)
  BY <1>5, HeldIs DEF Alone, Smooth
<1>7. KeepingBy(job, files, pos)
  BY <1>2, <1>6 DEF HeldParts
<1>8. BlockDone
  <2>1. job.kind \in {"tree", "leaf"}
    BY <1>7 DEF KeepingBy
  <2> QED
    BY <2>1 DEF Closing, InodeDone, Promote, PromoteFails, IndirectDone, InlineDone, RevokedTree, Copied
<1>9. /\ job' = NoJob /\ job.open /\ job.todo = <<>>
      /\ UNCHANGED files \/ (~(job.ok > 0) /\ files' = Without(files, job.name))
  BY <1>8 DEF BlockDone, Copied
<1>10. CASE UNCHANGED files
  BY <1>6, <1>9, <1>10 DEF HeldParts
<1>11. CASE ~(job.ok > 0) /\ files' = Without(files, job.name)
  <2> DEFINE k == Len(job.plan) - Len(job.todo)
  <2>1. ~(k > 0) /\ Within(files[job.name], job.plan, k, job.todo, job.done)
    BY <1>7, <1>9, <1>11 DEF KeepingBy
  <2>2. k \in 0 .. Len(job.plan)
    BY <1>2 DEF JobInv, Reading
  <2>3. Len(job.plan) \in Nat
    BY <1>2 DEF JobInv, JobOK, PlanOK
  <2> HIDE DEF k
  <2>4. \A i \in 1 .. k : FALSE
    BY <2>1, <2>2, <2>3
  <2>5. DOMAIN files[job.name] = {}
    BY <1>9, <2>1, <2>4 DEF Within
  <2>6. DOMAIN files' = DOMAIN files \ {job.name} /\ \A n \in DOMAIN files' : files'[n] = files[n]
    BY <1>11 DEF Without
  <2>7. \A n \in DOMAIN files : \A l \in DOMAIN files[n] :
           n \in DOMAIN files' /\ l \in DOMAIN files'[n] /\ files'[n][l] = files[n][l]
    BY <2>5, <2>6
  <2>8. covered \subseteq HeldBy(files')
    BY <1>6, <2>7, HeldGrows DEF HeldParts
  <2>9. NamedBefore(phase, pos, DOMAIN files')
    BY <1>6, <2>6 DEF HeldParts, NamedBefore
  <2> QED
    BY <1>9, <2>8, <2>9 DEF HeldParts
<1> QED
  BY <1>9, <1>10, <1>11

\* A job of the scan begins with an output of its own.
LEMMA BegunHeld ==
  ASSUME NEW kind \in {"tree", "leaf"}, NEW b \in Nat, NEW plan, NEW fs, NEW q, b \in 0 .. q - 1, Apart(plan),
         plan \in Seq(Exts), \A n \in DOMAIN fs : n[2] # b
  PROVE  KeepingBy(Job(kind, b, <<kind, b>>, plan, 0), fs, q)
<1> DEFINE j == Job(kind, b, <<kind, b>>, plan, 0)
           name == <<kind, b>>
<1>1. /\ j.kind = kind /\ j.src = b /\ j.name = name /\ j.plan = plan /\ j.todo = plan
      /\ j.open = FALSE /\ j.done = 0 /\ j.ok = 0
  BY Fields
<1>2. name[2] = b
  OBVIOUS
<1>3. name \notin DOMAIN fs
  BY <1>2
<1>4. Len(j.plan) - Len(j.todo) = 0
  <2> DEFINE n == Len(plan)
  <2>1. n \in Nat
    OBVIOUS
  <2> HIDE DEF n
  <2>2. n - n = 0
    BY <2>1
  <2> HIDE DEF j
  <2> QED
    BY <1>1, <2>2 DEF n
<1> HIDE DEF j
<1>5. KeepingBy(j, fs, q)
  BY <1>1, <1>3, <1>4 DEF KeepingBy, name
<1> QED
  BY <1>5 DEF j

\* Steps of the loops keep HeldInv.
LEMMA LoopingHeld ==
  ASSUME NameState, JournalInv, JobInv, HeldInv, Looping
  PROVE  HeldInv'
<1>1. NamesInv /\ disk \in Disks
  BY DEF NameState, PhaseInv
<1>2. Counted /\ UNCHANGED <<disk, mode, phase, saving>> /\ phase \in ToSet(Order)
  BY LoopingInside, ResolvesCounted DEF Inside, Quiet
<1>3. UNCHANGED <<files, covered>> /\ job = NoJob /\ (job' = NoJob \/ Starts(disk, job'))
  BY <1>1, LoopingStarts
<1>4. phase \in mode /\ phase \notin {"setup", "names"}
  BY <1>2, HeldIs, Phases DEF InMode
<1> SUFFICES ASSUME mishaps' = 0, disk.bad = {}, Unfolded, mode = {"aggressive"}
             PROVE  HeldParts(covered, files, phase, pos', job')
  BY <1>2, <1>3, <1>4, HeldNext DEF InMode, Unwritten
<1>5. ~Mishap /\ mishaps = 0 /\ phase = "aggressive"
  BY <1>1, <1>2, <1>4, TidyBefore
<1>6. covered \subseteq HeldBy(files) /\ NamedBefore(phase, pos, DOMAIN files)
  BY <1>5, HeldIs DEF Alone, Smooth, HeldParts
<1>7. ScanBlock
  BY <1>5 DEF Looping, OrphanChain, OrphanFile, JournalCopy, NormalInode, RevokedBlock, Turn
<1>8. PICK b \in Blocks : Hit(b)
  BY <1>1, <1>7, ScanHit
<1>9. b \in Nat /\ pos \in Nat /\ pos <= b /\ pos' = b + 1
  BY <1>8, TreeAssumption DEF Blocks, Hit, JobInv
<1>10. \A n \in DOMAIN files : n[2] \in 0 .. pos - 1
  BY <1>5, <1>6 DEF NamedBefore
<1>11. NamedBefore(phase, pos', DOMAIN files) /\ \A n \in DOMAIN files : n[2] # b
  <2>1. \A x \in 0 .. pos - 1 : x \in 0 .. pos' - 1 /\ x # b
    BY <1>9
  <2> QED
    BY <1>10, <2>1 DEF NamedBefore
<1>12. b \in 0 .. pos' - 1
  BY <1>9
<1>13. Apart(LeafPlan(disk.node[b])) /\ Apart(TreePlan(walk_extent_tree(disk, disk.node[b]).exts))
  BY DEF Unfolded
<1>14. disk.node[b].slots \in Seq(Slots)
  <2>1. disk.node \in [Blocks -> Headers]
    BY <1>1, DisksAssumption DEF DiskOK
  <2>2. disk.node[b] \in Headers
    BY <2>1
  <2> QED
    BY <2>2 DEF Headers
<1>15. ASSUME NEW kind \in {"tree", "leaf"}, NEW plan, Apart(plan), job' = Job(kind, b, <<kind, b>>, plan, 0)
       PROVE  HeldParts(covered, files, phase, pos', job')
  <2>1. plan \in Seq(Exts)
    <3>1. job' # NoJob /\ job'.plan = plan
      BY <1>15, Fields
    <3>2. JobOK(disk, job')
      BY <1>3, <3>1 DEF Starts
    <3> QED
      BY <3>1, <3>2 DEF JobOK, PlanOK
  <2>2. KeepingBy(job', files, pos')
    BY <1>9, <1>11, <1>12, <1>15, <2>1, BegunHeld
  <2> QED
    BY <1>6, <1>11, <2>2 DEF HeldParts
<1>16. job' = NoJob => HeldParts(covered, files, phase, pos', job')
  BY <1>6, <1>11 DEF HeldParts
<1>17. CASE UNCHANGED <<job, marks, mishaps>>
  BY <1>3, <1>16, <1>17
<1>18. CASE LeafAt(b) /\ StartLeaf(b, disk.node[b])
  <2>1. LeafBegun(b)
    BY <1>5, <1>18, StartLeafBegun
  <2> QED
    BY <1>13, <1>15, <1>16, <2>1 DEF LeafBegun
<1>19. CASE IndexAt(b) /\ StartTree(b, disk.node[b])
  <2> DEFINE w == walk_extent_tree(disk, disk.node[b])
  <2>1. TreeBegun(b, w)
    BY <1>1, <1>5, <1>14, <1>19, StartTreeBegun
  <2>2. Apart(TreePlan(w.exts))
    BY <1>13
  <2> HIDE DEF w
  <2> QED
    BY <1>15, <1>16, <2>1, <2>2 DEF TreeBegun
<1> QED
  BY <1>8, <1>17, <1>18, <1>19 DEF Hit

\* Steps that leave files and jobs alone keep HeldInv.
LEMMA IdleHeld ==
  ASSUME NamesInv, HeldInv, job = NoJob, UNCHANGED <<disk, mode, files, covered, job>>, Counted,
         InMode(phase', mode),
         mishaps = 0 /\ ~Mishap => Unwritten(phase', files, covered),
         Alone /\ ~Mishap /\ NamedBefore(phase, pos, DOMAIN files) => NamedBefore(phase', pos', DOMAIN files)
  PROVE  HeldInv'
<1> SUFFICES ASSUME mishaps' = 0
             PROVE  /\ Unwritten(phase', files, covered)
                    /\ disk.bad = {} /\ Unfolded /\ mode = {"aggressive"} =>
                         HeldParts(covered, files, phase', pos', NoJob)
  BY HeldNext
<1>1. ~Mishap /\ mishaps = 0
  BY TidyBefore
<1>2. ASSUME disk.bad = {}, Unfolded, mode = {"aggressive"}
      PROVE  HeldParts(covered, files, phase', pos', NoJob)
  <2>1. Alone
    BY <1>1, <1>2 DEF Alone, Smooth
  <2> QED
    BY <1>1, <2>1, HeldIs DEF HeldParts
<1> QED
  BY <1>1, <1>2

\* What has not been written yet is held, and in no order.
LEMMA UnwrittenHeld ==
  ASSUME NEW p, NEW q, Unwritten("setup", files, covered)
  PROVE  HeldParts(covered, files, p, q, NoJob)
  BY DEF Unwritten, NoEntries, HeldParts, HeldBy, NamedBefore

\* Steps between the loops keep HeldInv.
LEMMA MainHeld ==
  ASSUME NameState, AnswersInv, HeldInv,
         \/ Setup \/ SetupFails \/ AddName \/ NamesDone \/ PhaseDone \/ CheckpointWritten
         \/ Report \/ Clear
  PROVE  HeldInv'
<1>1. NamesInv /\ mode \subseteq ToSet(Order)
  BY DEF NameState, PhaseInv
<1>2. UNCHANGED <<disk, job, files, covered>>
  BY DEF Setup, SetupFails, AddName, NamesDone, PhaseDone, CheckpointWritten, Report, Clear, dirvars
<1>3. Counted
  <2>1. CASE AddName
    BY <2>1 DEF AddName, add_filename_mapping, RefuseName, GrowFails, UpdateName, AppendName, Counted
  <2>2. CASE Setup
    BY <2>2 DEF Setup, init_filename_map, Counted
  <2>3. CASE SetupFails \/ NamesDone \/ PhaseDone \/ CheckpointWritten \/ Report \/ Clear
    BY <2>3 DEF SetupFails, NamesDone, PhaseDone, CheckpointWritten, Report, Clear, Counted
  <2> QED
    BY <2>1, <2>2, <2>3
<1>4. /\ phase \in {"setup", "names", "report", "clear"} => job = NoJob
      /\ saving => job = NoJob /\ phase \in ToSet(Order)
      /\ {"setup", "names", "report", "clear", "done", "failed"} \cap ToSet(Order) = {}
  BY Phases DEF NameState, PhaseInv, AnswersInv
<1>5. /\ InMode(phase, mode) /\ (mishaps = 0 => Unwritten(phase, files, covered))
  BY HeldIs
<1>6. CASE Setup
  <2>1. phase = "setup" /\ phase' = "names" /\ job = NoJob
    BY <1>4, <1>6 DEF Setup
  <2>2. mishaps = 0 => Unwritten("setup", files, covered)
    BY <1>5, <2>1
  <2>3. mishaps' = 0 => mishaps = 0
    BY <1>1, <1>3, TidyBefore
  <2>4. InMode(phase', mode')
    BY <1>4, <2>1 DEF InMode
  <2>5. mishaps' = 0 => Unwritten(phase', files, covered) /\ HeldParts(covered, files, phase', pos', NoJob)
    BY <2>2, <2>3, UnwrittenHeld DEF Unwritten
  <2> QED
    BY <1>2, <2>1, <2>4, <2>5, HeldNext
<1>7. CASE SetupFails \/ Report \/ Clear
  <2>1. job = NoJob /\ phase' \in {"failed", "clear", "done"} /\ UNCHANGED mode
    BY <1>4, <1>7 DEF SetupFails, Report, Clear
  <2>2. InMode(phase', mode) /\ Unwritten(phase', files, covered) /\ NamedBefore(phase', pos', DOMAIN files)
    BY <1>4, <2>1 DEF InMode, Unwritten, NamedBefore
  <2> QED
    BY <1>1, <1>2, <1>3, <2>1, <2>2, IdleHeld
<1>8. CASE AddName
  <2>1. job = NoJob /\ phase = "names" /\ UNCHANGED <<phase, mode>>
    BY <1>4, <1>8 DEF AddName
  <2>2. NamedBefore(phase', pos', DOMAIN files)
    BY <2>1 DEF NamedBefore
  <2> QED
    BY <1>1, <1>2, <1>3, <1>5, <2>1, <2>2, IdleHeld
<1>9. CASE NamesDone
  <2>1. job = NoJob /\ phase = "names" /\ phase' = After("names", mode) /\ UNCHANGED mode
    BY <1>4, <1>9 DEF NamesDone, Enter
  <2>2. phase' \in {"report"} \cup mode
    BY <1>1, <2>1, AfterType
  <2>3. InMode(phase', mode) /\ Unwritten(phase', files, covered)
    BY <1>1, <1>4, <2>2 DEF InMode, Unwritten
  <2>4. mishaps = 0 => files = NoEntries
    BY <1>5, <2>1 DEF Unwritten
  <2>5. Alone => NamedBefore(phase', pos', DOMAIN files)
    BY <2>4 DEF Alone, Smooth, NamedBefore, NoEntries
  <2> QED
    BY <1>1, <1>2, <1>3, <2>1, <2>3, <2>5, IdleHeld
<1>10. CASE PhaseDone
  <2>1. job = NoJob /\ UNCHANGED mode
    BY <1>10 DEF PhaseDone
  <2>2. UNCHANGED <<phase, pos>> \/ (Mishap /\ phase' = After(phase, mode))
    BY <1>10 DEF PhaseDone, Enter
  <2>3. phase' = phase \/ phase' \in {"report"} \cup mode
    BY <1>1, <2>2, AfterType
  <2>4. InMode(phase', mode)
    BY <1>4, <1>5, <2>3 DEF InMode
  <2> QED
    BY <1>1, <1>2, <1>3, <1>5, <2>1, <2>2, <2>4, IdleHeld
<1>11. CASE CheckpointWritten
  <2>1. job = NoJob /\ phase \in ToSet(Order) /\ phase' = After(phase, mode) /\ UNCHANGED mode
    BY <1>4, <1>11 DEF CheckpointWritten, Enter
  <2>2. phase' \in {"report"} \cup mode
    BY <1>1, <2>1, AfterType
  <2>3. InMode(phase', mode) /\ Unwritten(phase', files, covered)
    BY <1>1, <1>4, <2>2 DEF InMode, Unwritten
  <2>4. Alone => NamedBefore(phase', pos', DOMAIN files)
    <3> SUFFICES ASSUME Alone PROVE phase' # "aggressive"
      BY DEF NamedBefore
    <3>1. phase = "aggressive"
      BY <1>5, <2>1 DEF InMode, Alone
    <3> QED
      BY <1>1, <2>1, <3>1, AfterOrder
  <2> QED
    BY <1>1, <1>2, <1>3, <2>1, <2>3, <2>4, IdleHeld
<1> QED
  BY <1>6, <1>7, <1>8, <1>9, <1>10, <1>11

\* Every step keeps HeldInv.
LEMMA NextHeld ==
  NameState /\ JournalInv /\ JobInv /\ AnswersInv /\ WholeInv /\ HeldInv /\ [Next]_vars => HeldInv'
<1> SUFFICES ASSUME NameState, JournalInv, JobInv, AnswersInv, WholeInv, HeldInv, [Next]_vars
             PROVE  HeldInv'
  OBVIOUS
<1>1. CASE Looping
  BY <1>1, LoopingHeld
<1>2. CASE Writing
  BY <1>2, WritingHeld
<1>3. CASE Closing
  BY <1>3, ClosingHeld
<1>4. CASE Setup \/ SetupFails \/ AddName \/ NamesDone \/ PhaseDone \/ CheckpointWritten \/ Report \/ Clear
  BY <1>4, MainHeld
<1>5. CASE Crash
  <2>1. Mishap /\ UNCHANGED disk /\ phase' = "setup"
    BY <1>5 DEF Crash
  <2>2. mishaps' # 0
    BY <2>1, MishapCounts DEF NameState
  <2>3. InMode(phase', mode')
    BY <2>1, Phases DEF InMode
  <2> QED
    BY <2>1, <2>2, <2>3, HeldNext
<1>6. CASE UNCHANGED vars
  <2>1. UNCHANGED <<disk, files, covered, phase, pos, mode, job, mishaps>>
    BY <1>6 DEF vars, dirvars, run
  <2> QED
    BY <2>1, HeldNext, HeldIs DEF Alone, Smooth
<1> QED
  BY <1>1, <1>2, <1>3, <1>4, <1>5, <1>6 DEF Next, Program, Finished

\* HeldInv holds at the start.
LEMMA InitHeld == Init => HeldInv
<1> SUFFICES ASSUME Init PROVE HeldInv
  OBVIOUS
<1>1. phase = "setup" /\ job = NoJob /\ files = NoEntries /\ covered = {}
  BY DEF Init
<1>2. InMode(phase, mode) /\ Unwritten(phase, files, covered) /\ Unwritten("setup", files, covered)
  BY <1>1, Phases DEF InMode, Unwritten
<1> QED
  BY <1>1, <1>2, HeldIs, UnwrittenHeld

\* When the aggressive scan, run on its own on a readable disk with sound trees whose extents
\* do not meet in a file, is over without a failure, its outputs hold the blocks of every
\* initialized extent of every leaf, for every such disk: what is registered as recovered
\* has not been written over, nor removed with an output.
THEOREM NothingLostCorrect == Spec => []NothingLost
<1>1. Init => AnswersInv /\ WholeInv /\ MarksInv /\ LeavesInv /\ HeldInv
  BY InitAnswers, InitWhole, InitMarks, InitLeaves, InitHeld
<1>2. NameState /\ JournalInv /\ AnswersInv /\ [Next]_vars => AnswersInv'
  BY NextAnswers
<1>3. NameState /\ JournalInv /\ JobInv /\ WholeInv /\ [Next]_vars => WholeInv'
  BY NextWhole
<1>4. NameState /\ JournalInv /\ JobInv /\ AnswersInv /\ MarksInv /\ [Next]_vars => MarksInv'
  BY NextMarks
<1>5. /\ NameState /\ JournalInv /\ JobInv /\ AnswersInv /\ WholeInv /\ MarksInv /\ LeavesInv
      /\ [Next]_vars
      => LeavesInv'
  BY NextLeaves
<1>6. NameState /\ JournalInv /\ JobInv /\ AnswersInv /\ WholeInv /\ HeldInv /\ [Next]_vars => HeldInv'
  BY NextHeld
<1>7. LeavesInv /\ HeldInv => NothingLost
  <2> SUFFICES ASSUME LeavesInv, HeldInv, Smooth, WellFormed, Unfolded, mode = {"aggressive"},
                      Scanned \/ (phase = "aggressive" /\ saving),
                      NEW b \in Blocks, LeafAt(b), NEW e \in Giving(b)
               PROVE  BlocksOf(e) \subseteq Held
    BY DEF NothingLost, Smooth, LeafAt, Giving
  <2>1. AllGiven(covered)
    BY LeavesIs DEF LeavesOver, IsScanned, Scanned
  <2>2. covered \subseteq Held
    BY HeldIs DEF HeldParts, HeldBy, Held, Alone
  <2> QED
    BY <2>1, <2>2 DEF AllGiven
<1> QED
  BY <1>1, <1>2, <1>3, <1>4, <1>5, <1>6, <1>7, NameStateInvariant, JournalInvariant, JobInvariant, PTL DEF Spec

-----------------------------------------------------------------------------
(* Files of block pointers. *)

\* A place in part j + 1 of a sequence of sequences, behind j parts of one length.
BehindParts(T, ss, per, j, r) ==
    /\ ss \in Seq(Seq(T)) /\ per \in Nat /\ j \in 0 .. Len(ss) - 1
    /\ \A i \in 1 .. j : Len(ss[i]) = per
    /\ r \in 1 .. Len(ss[j + 1])

\* Where it is in the sequence they are made.
LEMMA FlattenAt ==
  ASSUME NEW T, NEW ss, NEW per, NEW j, NEW r, BehindParts(T, ss, per, j, r)
  PROVE  /\ per * j + r \in 1 .. Len(FlattenSeq(ss))
         /\ FlattenSeq(ss)[per * j + r] = ss[j + 1][r]
<1> DEFINE N == Len(ss)
           P == Seq(T)
           at == per * j + r
<1>0. /\ ss \in Seq(Seq(T)) /\ per \in Nat /\ j \in 0 .. Len(ss) - 1
      /\ \A i \in 1 .. j : Len(ss[i]) = per
      /\ r \in 1 .. Len(ss[j + 1])
  BY DEF BehindParts
<1>1. ss \in Seq(P)
  BY <1>0
<1> HIDE DEF P
<1>2. N \in Nat /\ DOMAIN ss = 1 .. N /\ \A i \in 1 .. N : ss[i] \in P
  BY <1>1
<1>3. PICK f : Flattening(ss, T, f) /\ FlattenSeq(ss) = f[Len(ss)]
  BY <1>0, FlattenSteps
<1>4. /\ f \in [0 .. N -> P] /\ f[0] = <<>>
      /\ \A n \in 1 .. N : f[n] = f[n - 1] \o ss[n]
  BY <1>3 DEF Flattening, P
<1>5. FlattenSeq(ss) = f[N]
  BY <1>3
<1>6. j \in Nat /\ j + 1 \in 1 .. N /\ j \in 0 .. N
  BY <1>0, <1>2
<1> HIDE DEF N
<1>7. /\ \A n \in 0 .. N : f[n] \in P /\ Len(f[n]) \in Nat
      /\ \A n \in 1 .. N : Len(ss[n]) \in Nat
  <2>1. \A q \in P : Len(q) \in Nat
    BY DEF P
  <2>2. \A n \in 0 .. N : f[n] \in P
    BY <1>4
  <2> QED
    BY <1>2, <2>1, <2>2
<1>8. r \in Nat \ {0} /\ r <= Len(ss[j + 1]) /\ per * j \in Nat /\ at \in Nat \ {0}
  <2> DEFINE m == Len(ss[j + 1])
             x == per * j
  <2>1. m \in Nat /\ r \in 1 .. m
    BY <1>0, <1>6, <1>7
  <2>2. x \in Nat
    BY <1>0, <1>6
  <2> HIDE DEF m, x
  <2>3. r \in Nat \ {0} /\ r <= m /\ x + r \in Nat \ {0}
    BY <2>1, <2>2
  <2> QED
    BY <2>2, <2>3 DEF m, x
<1> HIDE DEF at
<1> DEFINE A == {n \in Nat : n <= j => Len(f[n]) = per * n}
           B == {n \in Nat : n <= N /\ n > j => at <= Len(f[n]) /\ f[n][at] = ss[j + 1][r]}
<1>9. Len(f[j]) = per * j
  <2>1. 0 \in A
    <3>1. Len(<<>>) = 0 /\ per * 0 = 0
      BY <1>0
    <3> QED
      BY <1>4, <3>1
  <2>2. ASSUME NEW n \in 1 .. j, n - 1 \in A PROVE n \in A
    <3>1. n \in 1 .. N /\ n - 1 \in 0 .. N /\ n - 1 <= j /\ n \in Nat
      BY <1>2, <1>6
    <3>2. f[n] = f[n - 1] \o ss[n] /\ f[n - 1] \in Seq(T) /\ ss[n] \in Seq(T)
      BY <1>2, <1>4, <1>7, <3>1 DEF P
    <3>3. Len(f[n]) = Len(f[n - 1]) + Len(ss[n])
      BY <3>2
    <3>4. Len(f[n - 1]) = per * (n - 1) /\ Len(ss[n]) = per
      BY <1>0, <2>2, <3>1
    <3>5. per * (n - 1) + per = per * n
      BY <1>0, <3>1
    <3> QED
      BY <3>1, <3>3, <3>4, <3>5
  <2>3. \A n \in 0 .. j : n \in A
    <3> HIDE DEF A
    <3> QED
      BY <1>6, <2>1, <2>2, Induct
  <2>4. j \in A
    BY <1>6, <2>3
  <2> QED
    BY <1>6, <2>4
<1>10. ASSUME NEW n \in 1 .. N, n - 1 \in B PROVE n \in B
  <2>1. n - 1 \in 0 .. N /\ n \in Nat /\ n <= N
    BY <1>2
  <2> DEFINE g == f[n - 1]
             h == ss[n]
  <2>2. f[n] = g \o h /\ g \in Seq(T) /\ h \in Seq(T)
    BY <1>2, <1>4, <1>7, <2>1 DEF P
  <2>3. Len(f[n]) = Len(g) + Len(h) /\ Len(g) \in Nat /\ Len(h) \in Nat
    BY <2>2
  <2>4. CASE n > j + 1
    <3>1. n - 1 <= N /\ n - 1 > j
      BY <1>2, <1>6, <2>1, <2>4
    <3>2. at <= Len(g) /\ g[at] = ss[j + 1][r]
      BY <1>10, <3>1
    <3> HIDE DEF g, h
    <3>3. f[n][at] = g[at]
      BY <1>8, <2>2, <3>2
    <3>4. at <= Len(f[n])
      BY <1>8, <2>3, <3>2
    <3> QED
      BY <2>1, <3>2, <3>3, <3>4
  <2>5. CASE n = j + 1
    <3>1. n - 1 = j
      BY <1>6, <2>1, <2>5
    <3>2. Len(g) = per * j /\ h = ss[j + 1]
      BY <1>9, <2>5, <3>1
    <3> HIDE DEF g, h
    <3>3. at = Len(g) + r /\ r <= Len(h)
      BY <1>8, <3>2 DEF at
    <3>4. f[n][at] = h[r]
      BY <1>8, <2>2, <2>3, <3>3
    <3>5. at <= Len(f[n])
      BY <1>8, <2>3, <3>3
    <3> QED
      BY <2>1, <3>2, <3>4, <3>5
  <2>6. CASE ~(n > j)
    BY <2>1, <2>6
  <2> QED
    BY <1>6, <2>1, <2>4, <2>5, <2>6
<1>11. N \in B
  <2>1. 0 \in B
    BY <1>6
  <2>2. \A n \in 0 .. N : n \in B
    <3> HIDE DEF B
    <3> QED
      BY <1>2, <1>10, <2>1, Induct
  <2> QED
    BY <1>2, <2>2
<1>12. N > j /\ N <= N
  BY <1>2, <1>6
<1>13. at <= Len(f[N]) /\ f[N][at] = ss[j + 1][r]
  BY <1>11, <1>12
<1>14. Len(f[N]) \in Nat
  BY <1>2, <1>7
<1>15. at \in 1 .. Len(f[N])
  BY <1>8, <1>13, <1>14
<1> QED
  BY <1>5, <1>13, <1>15 DEF at

\* No block is behind a pointer that is none.
LEMMA NoPointer == \A b, i : ind_block_valid(PointerIn(b, i)) => ind_block_valid(b) /\ PointerIn(b, i) = disk.ptrs[b][i + 1]
<1>1. ~ind_block_valid(0)
  BY TreeAssumption DEF ind_block_valid, Blocks
<1> QED
  BY <1>1 DEF PointerIn

\* The pointers in a block are as many as fit.
LEMMA PointersOf ==
  ASSUME disk \in Disks, disk.bad = {}, NEW b, ind_block_valid(b)
  PROVE  /\ disk.ptrs[b] \in Seq(Nat) /\ Len(disk.ptrs[b]) = PerBlock
         /\ dump_indirect(disk, b) = ValidPrefix(disk.ptrs[b])
<1>1. disk.ptrs \in [Blocks -> [1 .. PerBlock -> Nat]] /\ PerBlock \in Nat
  BY DisksAssumption, TreeAssumption DEF DiskOK
<1>2. disk.ptrs[b] \in [1 .. PerBlock -> Nat]
  BY <1>1 DEF ind_block_valid
<1>3. disk.ptrs[b] \in Seq(Nat) /\ Len(disk.ptrs[b]) = PerBlock
  BY <1>1, <1>2
<1> QED
  BY <1>3 DEF dump_indirect

\* What an indirect block yields, if the first k blocks it leads to are there.
LEMMA IndirectHas ==
  ASSUME disk \in Disks, disk.bad = {}, NEW b, NEW k \in 1 .. PerBlock,
         \A i \in 0 .. k - 1 : ind_block_valid(PointerIn(b, i))
  PROVE  LET d == dump_indirect(disk, b)
         IN /\ d \in Seq(Blocks) /\ k <= Len(d) /\ Len(d) <= PerBlock
            /\ \A i \in 0 .. k - 1 : d[i + 1] = PointerIn(b, i)
<1> DEFINE d == dump_indirect(disk, b)
           p == disk.ptrs[b]
<1>0. PerBlock \in Nat \ {0} /\ k \in Nat \ {0}
  BY TreeAssumption
<1>1. \A i \in 0 .. k - 1 : ind_block_valid(b) /\ PointerIn(b, i) = p[i + 1] /\ ind_block_valid(p[i + 1])
  BY NoPointer
<1>2. ind_block_valid(b)
  <2>1. 0 \in 0 .. k - 1
    BY <1>0
  <2> QED
    BY <1>1, <2>1
<1>3. p \in Seq(Nat) /\ Len(p) = PerBlock /\ d = ValidPrefix(p)
  BY <1>2, PointersOf
<1>4. d \in Seq(Blocks)
  BY DumpIndirectType
<1> HIDE DEF p, d
<1>5. ASSUME NEW i \in 1 .. k PROVE ind_block_valid(p[i])
  <2>1. i - 1 \in 0 .. k - 1 /\ (i - 1) + 1 = i
    BY <1>0
  <2>2. ind_block_valid(p[(i - 1) + 1])
    BY <1>1, <2>1
  <2> QED
    BY <2>1, <2>2
<1>6. k \in 0 .. Len(p)
  BY <1>0, <1>3
<1>7. k <= Len(d) /\ Len(d) <= Len(p) /\ \A i \in 1 .. k : d[i] = p[i]
  BY <1>3, <1>5, <1>6, PrefixHas
<1>8. ASSUME NEW i \in 0 .. k - 1 PROVE d[i + 1] = PointerIn(b, i)
  <2>1. i + 1 \in 1 .. k
    BY <1>0
  <2> QED
    BY <1>1, <1>7, <2>1
<1> QED
  BY <1>3, <1>4, <1>7, <1>8 DEF d

\* What a double-indirect block yields, if block m of those it leads to is there and all
\* before it are.
LEMMA DoubleHas ==
  ASSUME disk \in Disks, disk.bad = {}, NEW b, NEW m \in 0 .. PerBlock * PerBlock - 1,
         \A x \in 0 .. m : ind_block_valid(PointerIn(PointerIn(b, x \div PerBlock), x % PerBlock))
  PROVE  LET d == dump_double_indirect(disk, b)
         IN /\ d \in Seq(Blocks) /\ m + 1 <= Len(d)
            /\ d[m + 1] = PointerIn(PointerIn(b, m \div PerBlock), m % PerBlock)
<1> DEFINE d == dump_double_indirect(disk, b)
           B == PerBlock
           j == m \div B
           r == m % B
           inds == dump_indirect(disk, b)
           ss == [i \in DOMAIN inds |-> dump_indirect(disk, inds[i])]
           Twice(i, s) == PointerIn(PointerIn(b, i), s)
<1>0. B \in Nat \ {0} /\ m \in Nat /\ m < B * B
  BY TreeAssumption
<1>1. j \in Int /\ r \in 0 .. B - 1 /\ m = B * j + r
  BY <1>0, DivMod
<1>2. \A x \in 0 .. m : ind_block_valid(Twice(x \div B, x % B))
  OBVIOUS
<1>3. d = FlattenSeq(ss)
  BY DEF dump_double_indirect
<1>4. d \in Seq(Blocks)
  BY DumpDoubleType
<1> HIDE DEF B, j, r, d, Twice, inds
<1>5. j \in 0 .. B - 1
  <2>1. ASSUME j < 0 PROVE FALSE
    <3>1. B * j <= B * (-1)
      BY <1>0, <1>1, <2>1
    <3> QED
      BY <1>0, <1>1, <3>1
  <2>2. ASSUME j >= B PROVE FALSE
    <3>1. B * j >= B * B
      BY <1>0, <1>1, <2>2
    <3> QED
      BY <1>0, <1>1, <3>1
  <2> QED
    BY <1>0, <1>1, <2>1, <2>2
<1>6. ASSUME NEW i \in 0 .. j, NEW s \in 0 .. B - 1, i < j \/ s <= r PROVE ind_block_valid(Twice(i, s))
  <2> DEFINE x == B * i + s
  <2>1. x \in Nat
    BY <1>0, <1>5
  <2>2. x <= m
    <3>1. CASE i < j
      <4>1. B * (i + 1) <= B * j
        BY <1>0, <1>5, <3>1
      <4>2. B * (i + 1) = B * i + B
        BY <1>0, <1>5
      <4> QED
        BY <1>0, <1>1, <1>5, <4>1, <4>2
    <3>2. CASE i = j /\ s <= r
      BY <1>0, <1>1, <1>5, <3>2
    <3> QED
      BY <1>5, <1>6, <3>1, <3>2
  <2>3. x \div B = i /\ x % B = s
    BY <1>0, <1>5, <2>1, DivUnique
  <2> HIDE DEF x
  <2>4. x \in 0 .. m
    BY <1>0, <2>1, <2>2
  <2> QED
    BY <1>2, <2>3, <2>4
<1>7. /\ inds \in Seq(Blocks) /\ j + 1 <= Len(inds)
      /\ \A i \in 0 .. j : inds[i + 1] = PointerIn(b, i)
  <2>1. \A i \in 0 .. j : ind_block_valid(PointerIn(b, i))
    <3> TAKE i \in 0 .. j
    <3>1. 0 \in 0 .. B - 1 /\ (i < j \/ 0 <= r)
      BY <1>0, <1>1
    <3>2. ind_block_valid(PointerIn(PointerIn(b, i), 0))
      BY <1>6, <3>1 DEF Twice
    <3> QED
      BY <3>2, NoPointer
  <2>2. j + 1 \in 1 .. PerBlock /\ (j + 1) - 1 = j
    BY <1>0, <1>5 DEF B
  <2> QED
    BY <2>1, <2>2, IndirectHas DEF inds
<1>8. ASSUME NEW i \in 0 .. j
      PROVE  /\ i < j => Len(ss[i + 1]) = B
             /\ i + 1 \in DOMAIN inds
             /\ r + 1 <= Len(ss[j + 1]) /\ ss[j + 1][r + 1] = Twice(j, r)
  <2> DEFINE q == PointerIn(b, i)
             p == PointerIn(b, j)
  <2>1. i + 1 \in 1 .. Len(inds) /\ DOMAIN inds = 1 .. Len(inds) /\ j \in 0 .. j /\ j + 1 \in 1 .. Len(inds)
    <3>1. Len(inds) \in Nat /\ DOMAIN inds = 1 .. Len(inds)
      BY <1>7
    <3> QED
      BY <1>5, <1>7, <3>1
  <2>2. ss[i + 1] = dump_indirect(disk, q) /\ ss[j + 1] = dump_indirect(disk, p)
    BY <1>7, <2>1
  <2>3. ASSUME i < j PROVE Len(ss[i + 1]) = B
    <3>1. B \in 1 .. PerBlock /\ B - 1 \in Nat
      BY <1>0 DEF B
    <3>2. \A s \in 0 .. B - 1 : ind_block_valid(PointerIn(q, s))
      BY <1>6, <2>3 DEF Twice
    <3>3. LET x == dump_indirect(disk, q) IN x \in Seq(Blocks) /\ B <= Len(x) /\ Len(x) <= PerBlock
      <4> HIDE DEF q
      <4> QED
        BY <3>1, <3>2, IndirectHas
    <3>4. Len(dump_indirect(disk, q)) \in Nat
      BY <3>3
    <3> QED
      BY <1>0, <2>2, <3>3, <3>4 DEF B
  <2>4. r + 1 <= Len(ss[j + 1]) /\ ss[j + 1][r + 1] = Twice(j, r)
    <3>1. r + 1 \in 1 .. PerBlock /\ (r + 1) - 1 = r
      BY <1>0, <1>1 DEF B
    <3>2. \A s \in 0 .. r : ind_block_valid(PointerIn(p, s))
      <4> TAKE s \in 0 .. r
      <4>1. s \in 0 .. B - 1 /\ s <= r
        BY <1>0, <1>1
      <4> QED
        BY <1>6, <2>1, <4>1 DEF Twice
    <3>3. LET x == dump_indirect(disk, p) IN r + 1 <= Len(x) /\ \A s \in 0 .. r : x[s + 1] = PointerIn(p, s)
      <4> HIDE DEF p
      <4> QED
        BY <3>1, <3>2, IndirectHas
    <3>4. r \in 0 .. r
      BY <1>0, <1>1
    <3> QED
      BY <2>2, <3>3, <3>4 DEF Twice
  <2> QED
    BY <2>1, <2>3, <2>4
<1>9. ss \in Seq(Seq(Blocks)) /\ Len(ss) = Len(inds)
  <2> DEFINE V == Seq(Blocks)
             N == Len(inds)
  <2>1. N \in Nat /\ DOMAIN inds = 1 .. N
    BY <1>7
  <2>2. \A i \in DOMAIN inds : dump_indirect(disk, inds[i]) \in V
    BY DumpIndirectType
  <2> HIDE DEF V, N
  <2>3. ss \in [1 .. N -> V]
    BY <2>1, <2>2
  <2>4. ss \in Seq(V) /\ Len(ss) = N
    BY <2>1, <2>3
  <2> QED
    BY <2>4 DEF V, N
<1> HIDE DEF ss
<1>10. ASSUME NEW i \in 1 .. j PROVE Len(ss[i]) = B
  <2>1. i - 1 \in 0 .. j /\ i - 1 < j /\ (i - 1) + 1 = i
    BY <1>5
  <2> QED
    BY <1>8, <2>1
<1>11. j \in 0 .. Len(ss) - 1 /\ j \in 0 .. j
  <2>1. Len(inds) \in Nat
    BY <1>7
  <2> QED
    BY <1>0, <1>5, <1>7, <1>9, <2>1
<1>12. r + 1 \in 1 .. Len(ss[j + 1])
  <2> DEFINE y == ss[j + 1]
             V == Seq(Blocks)
  <2>1. ss \in Seq(V) /\ j + 1 \in 1 .. Len(ss)
    <3>1. Len(ss) \in Nat
      BY <1>9
    <3> QED
      BY <1>0, <1>5, <1>9, <1>11, <3>1
  <2>2. y \in V
    <3> HIDE DEF V
    <3> QED
      BY <2>1
  <2>3. Len(y) \in Nat
    BY <2>2
  <2>4. r + 1 <= Len(y)
    BY <1>8, <1>11
  <2> HIDE DEF y
  <2>5. r + 1 \in 1 .. Len(y)
    BY <1>0, <1>1, <2>3, <2>4
  <2> QED
    BY <2>5 DEF y
<1>13. B * j + (r + 1) \in 1 .. Len(d) /\ d[B * j + (r + 1)] = ss[j + 1][r + 1]
  <2> DEFINE t == r + 1
             T == Blocks
  <2>1. B \in Nat /\ ss \in Seq(Seq(T)) /\ t \in 1 .. Len(ss[j + 1])
    BY <1>0, <1>9, <1>12
  <2> HIDE DEF t, T
  <2>2. B * j + t \in 1 .. Len(FlattenSeq(ss)) /\ FlattenSeq(ss)[B * j + t] = ss[j + 1][t]
    <3>1. \A i \in 1 .. j : Len(ss[i]) = B
      BY <1>10
    <3>2. BehindParts(T, ss, B, j, t)
      BY <1>11, <2>1, <3>1 DEF BehindParts
    <3> QED
      BY <3>2, FlattenAt
  <2> QED
    BY <1>3, <2>2 DEF t
<1>14. B * j + (r + 1) = m + 1
  <2>1. B * j \in Int
    BY <1>0, <1>1
  <2> QED
    BY <1>0, <1>1, <2>1
<1>15. Len(d) \in Nat
  BY <1>4
<1>16. m + 1 <= Len(d) /\ d[m + 1] = Twice(j, r)
  BY <1>0, <1>8, <1>11, <1>13, <1>14, <1>15
<1> QED
  BY <1>4, <1>16 DEF d, Twice, j, r, B

\* The plan of a file of block pointers, in front of the first hole.
LEMMA PlanPlaced ==
  ASSUME disk \in Disks, disk.bad = {}, NEW ptrs \in Seq(Nat), Len(ptrs) = NDirect + 3, NEW l \in Intact(ptrs)
  PROVE  LET plan == IndirectPlan(disk, ptrs)
         IN l + 1 \in DOMAIN plan /\ plan[l + 1].start = PointedTo(ptrs, l)
<1> DEFINE D == NDirect
           B == PerBlock
           direct == SubSeq(ptrs, 1, D)
           a == ValidPrefix(direct)
           b == dump_indirect(disk, ptrs[D + 1])
           c == dump_double_indirect(disk, ptrs[D + 2])
           all == a \o b \o c
           n == IF Len(all) < MaxInd THEN Len(all) ELSE MaxInd
           plan == IndirectPlan(disk, ptrs)
           To(m) == PointedTo(ptrs, m)
           In1(i) == PointerIn(ptrs[D + 1], i)
           In2(i) == PointerIn(PointerIn(ptrs[D + 2], i \div B), i % B)
<1>0. D \in Nat /\ B \in Nat \ {0} /\ MaxInd \in Nat
  BY TreeAssumption
<1>1. /\ l \in Nat /\ l < MaxInd /\ l < D + B + B * B
      /\ \A m \in 0 .. l : ind_block_valid(To(m))
  <2>1. l \in 0 .. TripleFrom - 1 /\ l < MaxInd /\ \A m \in 0 .. l : ind_block_valid(To(m))
    BY DEF Intact
  <2>2. TripleFrom = D + B + B * B /\ B * B \in Nat
    BY <1>0 DEF TripleFrom, DoubleFrom
  <2> HIDE DEF To
  <2> QED
    BY <1>0, <2>1, <2>2
<1>2. \A m \in Nat : /\ m < D => To(m) = ptrs[m + 1]
                     /\ m >= D /\ m < D + B => To(m) = In1(m - D)
                     /\ m >= D + B /\ m < D + B + B * B => To(m) = In2(m - (D + B))
  <2> TAKE m \in Nat
  <2>1. /\ To(m) = IF m < D THEN ptrs[m + 1]
                   ELSE IF m < D + B THEN In1(m - D)
                   ELSE IF m < D + B + B * B THEN In2(m - (D + B)) ELSE To(m)
    BY DEF PointedTo, DoubleFrom, TripleFrom
  <2>2. B * B \in Nat
    BY <1>0
  <2> HIDE DEF To, In1, In2, D, B
  <2>3. /\ m >= D => ~(m < D)
        /\ m >= D + B => ~(m < D) /\ ~(m < D + B)
    BY <1>0
  <2> QED
    BY <2>1, <2>3
<1>3. plan = [i \in 1 .. n |-> [at |-> i - 1, len |-> 1, start |-> all[i]]]
  BY DEF IndirectPlan
<1>4. /\ direct \in Seq(Nat) /\ Len(direct) = D /\ \A i \in 1 .. D : direct[i] = ptrs[i]
  BY <1>0
<1>5. a \in Seq(Blocks) /\ b \in Seq(Blocks) /\ c \in Seq(Blocks)
  BY <1>4, ValidPrefixType, DumpIndirectType, DumpDoubleType
<1> HIDE DEF To, In1, In2, direct, plan, D, B
\* The direct pointers.
<1>6. ASSUME NEW k \in 0 .. D, k <= l + 1
      PROVE  k <= Len(a) /\ Len(a) <= D /\ \A i \in 1 .. k : a[i] = To(i - 1)
  <2>1. ASSUME NEW i \in 1 .. k PROVE direct[i] = To(i - 1) /\ ind_block_valid(direct[i])
    <3>1. i \in 1 .. D /\ i - 1 \in Nat /\ i - 1 < D /\ (i - 1) + 1 = i /\ i - 1 \in 0 .. l
      BY <1>0, <1>1, <1>6
    <3>2. To(i - 1) = ptrs[(i - 1) + 1] /\ ind_block_valid(To(i - 1))
      BY <1>1, <1>2, <3>1
    <3>3. direct[i] = ptrs[i]
      BY <1>4, <3>1
    <3> QED
      BY <3>1, <3>2, <3>3
  <2>2. k \in 0 .. Len(direct)
    BY <1>4
  <2>3. k <= Len(a) /\ Len(a) <= Len(direct) /\ \A i \in 1 .. k : a[i] = direct[i]
    BY <1>4, <2>1, <2>2, PrefixHas
  <2> QED
    BY <1>4, <2>1, <2>3
\* The indirect block.
<1>7. ASSUME l >= D, NEW k \in 1 .. B, k <= (l - D) + 1
      PROVE  k <= Len(b) /\ Len(b) <= B /\ \A i \in 0 .. k - 1 : b[i + 1] = To(D + i)
  <2>1. ASSUME NEW i \in 0 .. k - 1 PROVE In1(i) = To(D + i) /\ ind_block_valid(In1(i))
    <3>1. D + i \in 0 .. l /\ D + i >= D /\ D + i < D + B /\ (D + i) - D = i /\ D + i \in Nat
      BY <1>0, <1>1, <1>7
    <3>2. To(D + i) = In1((D + i) - D) /\ ind_block_valid(To(D + i))
      BY <1>1, <1>2, <3>1
    <3> QED
      BY <3>1, <3>2
  <2>2. k \in 1 .. PerBlock
    BY DEF B
  <2>3. \A i \in 0 .. k - 1 : ind_block_valid(PointerIn(ptrs[D + 1], i))
    BY <2>1 DEF In1
  <2> DEFINE q == ptrs[D + 1]
  <2>4. b = dump_indirect(disk, q) /\ \A i \in 0 .. k - 1 : In1(i) = PointerIn(q, i)
    BY DEF In1
  <2> HIDE DEF q, b
  <2>5. k <= Len(b) /\ Len(b) <= PerBlock /\ \A i \in 0 .. k - 1 : b[i + 1] = PointerIn(q, i)
    BY <2>2, <2>3, <2>4, IndirectHas DEF q
  <2> QED
    BY <2>1, <2>4, <2>5 DEF B
\* The double-indirect block.
<1>8. ASSUME l >= D + B
      PROVE  LET m == l - (D + B) IN m \in Nat /\ m + 1 <= Len(c) /\ c[m + 1] = To(l)
  <2> DEFINE m == l - (D + B)
             q == ptrs[D + 2]
  <2>1. m \in 0 .. B * B - 1 /\ m \in Nat
    <3>1. B * B \in Nat
      BY <1>0
    <3> QED
      BY <1>0, <1>1, <1>8, <3>1
  <2>2. ASSUME NEW x \in 0 .. m PROVE In2(x) = To(D + B + x) /\ ind_block_valid(In2(x))
    <3> DEFINE y == D + B + x
    <3>1. B * B \in Nat
      BY <1>0
    <3>2. y \in 0 .. l /\ y >= D + B /\ y < D + B + B * B /\ y - (D + B) = x /\ y \in Nat
      BY <1>0, <1>1, <1>8, <3>1
    <3> HIDE DEF y
    <3>3. To(y) = In2(y - (D + B)) /\ ind_block_valid(To(y))
      BY <1>1, <1>2, <3>2
    <3> QED
      BY <3>2, <3>3 DEF y
  <2>3. c = dump_double_indirect(disk, q)
    OBVIOUS
  <2>4. \A x : In2(x) = PointerIn(PointerIn(q, x \div PerBlock), x % PerBlock)
    BY DEF In2, B
  <2>5. m \in 0 .. m /\ D + B + m = l
    BY <1>0, <1>1, <2>1
  <2> HIDE DEF q, c, m
  <2>6. m + 1 <= Len(c) /\ c[m + 1] = In2(m)
    <3>1. m \in 0 .. PerBlock * PerBlock - 1
      BY <2>1 DEF B
    <3>2. \A x \in 0 .. m : ind_block_valid(PointerIn(PointerIn(q, x \div PerBlock), x % PerBlock))
      BY <2>2, <2>4
    <3> QED
      BY <2>3, <2>4, <3>1, <3>2, DoubleHas
  <2>7. c[m + 1] = To(l)
    BY <2>2, <2>5, <2>6
  <2> QED
    BY <2>1, <2>6, <2>7 DEF m
<1>9. /\ Len(a) \in Nat /\ Len(b) \in Nat /\ Len(c) \in Nat
      /\ all \in Seq(Blocks) /\ Len(all) = Len(a) + Len(b) + Len(c)
      /\ \A i \in 1 .. Len(a) : all[i] = a[i]
      /\ \A i \in 1 .. Len(b) : all[Len(a) + i] = b[i]
      /\ \A i \in 1 .. Len(c) : all[Len(a) + Len(b) + i] = c[i]
  <2> HIDE DEF a, b, c, Blocks
  <2>1. Len(a) \in Nat /\ Len(b) \in Nat /\ Len(c) \in Nat
    BY <1>5
  <2> DEFINE ab == a \o b
  <2>2. /\ ab \in Seq(Blocks) /\ Len(ab) = Len(a) + Len(b)
        /\ \A i \in 1 .. Len(a) : ab[i] = a[i]
        /\ \A i \in 1 .. Len(b) : ab[Len(a) + i] = b[i]
    BY <1>5, <2>1
  <2>3. all = ab \o c
    OBVIOUS
  <2>7. ab \in Seq(Blocks) /\ Len(ab) \in Nat /\ c \in Seq(Blocks)
    BY <1>5, <2>1, <2>2
  <2> HIDE DEF ab, all
  <2>4. /\ all \in Seq(Blocks) /\ Len(all) = Len(ab) + Len(c)
        /\ \A i \in 1 .. Len(ab) : all[i] = ab[i]
        /\ \A i \in 1 .. Len(c) : all[Len(ab) + i] = c[i]
    BY <2>1, <2>3, <2>7
  <2>5. \A i \in 1 .. Len(a) : i \in 1 .. Len(ab)
    BY <2>1, <2>2
  <2>6. \A i \in 1 .. Len(b) : Len(a) + i \in 1 .. Len(ab)
    BY <2>1, <2>2
  <2> QED
    BY <2>1, <2>2, <2>4, <2>5, <2>6
<1> HIDE DEF a, b, c, all
<1>10. l + 1 <= Len(all) /\ all[l + 1] = To(l)
  <2>1. CASE l < D
    <3>1. l + 1 \in 0 .. D /\ l + 1 \in 1 .. l + 1 /\ (l + 1) - 1 = l
      BY <1>0, <1>1, <2>1
    <3>2. l + 1 <= Len(a) /\ a[l + 1] = To((l + 1) - 1)
      BY <1>6, <3>1
    <3>3. l + 1 \in 1 .. Len(a) /\ l + 1 <= Len(all)
      BY <1>1, <1>9, <3>2
    <3> QED
      BY <1>9, <3>1, <3>2, <3>3
  <2>2. CASE l >= D
    <3>1. D \in 0 .. D /\ D <= l + 1
      BY <1>0, <1>1, <2>2
    <3>2. Len(a) = D
      BY <1>0, <1>6, <1>9, <3>1
    <3>3. CASE l < D + B
      <4> DEFINE k == (l - D) + 1
      <4>1. k \in 1 .. B /\ l - D \in 0 .. k - 1 /\ D + (l - D) = l /\ k \in Nat /\ D + k = l + 1
        BY <1>0, <1>1, <2>2, <3>3
      <4>2. k <= Len(b) /\ b[k] = To(l)
        BY <1>7, <2>2, <4>1
      <4> HIDE DEF k
      <4>3. k \in 1 .. Len(b) /\ D + k <= Len(all)
        BY <1>0, <1>9, <3>2, <4>1, <4>2
      <4> QED
        BY <1>9, <3>2, <4>1, <4>2, <4>3
    <3>4. CASE l >= D + B
      <4>1. B \in 1 .. B /\ B <= (l - D) + 1
        BY <1>0, <1>1, <3>4
      <4>2. Len(b) = B
        BY <1>0, <1>7, <1>9, <2>2, <4>1
      <4> DEFINE m == l - (D + B)
      <4>3. m \in Nat /\ m + 1 <= Len(c) /\ c[m + 1] = To(l)
        BY <1>8, <3>4
      <4>4. D + B + (m + 1) = l + 1
        BY <1>0, <1>1
      <4> HIDE DEF m
      <4>5. m + 1 \in 1 .. Len(c) /\ D + B + (m + 1) <= Len(all)
        BY <1>0, <1>9, <3>2, <4>2, <4>3
      <4> QED
        BY <1>9, <3>2, <4>2, <4>3, <4>4, <4>5
    <3> QED
      BY <1>0, <1>1, <3>3, <3>4
  <2> QED
    BY <1>0, <1>1, <2>1, <2>2
<1>11. l + 1 \in 1 .. n
  <2>1. Len(all) \in Nat
    BY <1>9
  <2> QED
    BY <1>0, <1>1, <1>10, <2>1
<1> HIDE DEF n
<1>12. DOMAIN plan = 1 .. n /\ plan[l + 1].start = all[l + 1]
  BY <1>3, <1>11
<1> QED
  BY <1>10, <1>11, <1>12 DEF plan, To

\* ... and holds the block each pointer of the plan names.
LEMMA IndirectContent ==
  ASSUME NEW plan, PlanOK("indirect", plan), NEW k \in 0 .. Len(plan)
  PROVE  \A l \in 0 .. k - 1 : CopiesUpto(plan)[k][l] = plan[l + 1].start
<1> DEFINE N == Len(plan)
           C == CopiesUpto(plan)
           S == {n \in 0 .. N : \A l \in 0 .. n - 1 : C[n][l] = plan[l + 1].start}
<1>1. /\ plan \in Seq(Exts)
      /\ \A i \in DOMAIN plan : plan[i].at = i - 1 /\ plan[i].len = 1
  BY DEF PlanOK
<1>2. N \in Nat /\ DOMAIN plan = 1 .. N
  BY <1>1
<1>3. C[0] = NoFile /\ \A n \in 1 .. N : C[n] = Overlay(C[n - 1], Piece(plan[n]))
  BY <1>1, CopiesRun
<1>4. \A n \in 0 .. N : DOMAIN C[n] = 0 .. n - 1
  BY IndirectDomain
<1>5. \A i \in 1 .. N : plan[i].start \in Nat
  <2>1. \A i \in 1 .. N : plan[i] \in Exts
    <3> HIDE DEF Exts
    <3> QED
      BY <1>1, <1>2
  <2> QED
    BY <2>1 DEF Exts
<1> HIDE DEF C, N
<1>6. 0 \in S
  BY <1>2
<1>7. ASSUME NEW n \in 1 .. N, n - 1 \in S PROVE n \in S
  <2>1. n - 1 \in 0 .. N /\ n \in 0 .. N /\ n \in Nat
    BY <1>2
  <2>2. plan[n].at = n - 1 /\ plan[n].len = 1 /\ plan[n].start \in Nat
    BY <1>1, <1>2, <1>5
  <2>3. DOMAIN Piece(plan[n]) = {n - 1} /\ Piece(plan[n])[n - 1] = plan[n].start
    <3> DEFINE e == plan[n]
    <3>1. Piece(e) = [l \in e.at .. e.at + e.len - 1 |-> e.start + l - e.at]
      BY DEF Piece
    <3>2. e.at .. e.at + e.len - 1 = {n - 1} /\ e.start + (n - 1) - e.at = e.start
      BY <2>1, <2>2
    <3> HIDE DEF e
    <3> QED
      BY <3>1, <3>2 DEF e
  <2>4. ASSUME NEW l \in 0 .. n - 1 PROVE C[n][l] = plan[l + 1].start
    <3>1. l \in DOMAIN C[n]
      BY <1>4, <2>1
    <3>2. C[n][l] = IF l \in DOMAIN Piece(plan[n]) THEN Piece(plan[n])[l] ELSE C[n - 1][l]
      <4>1. l \in DOMAIN C[n - 1] \cup DOMAIN Piece(plan[n])
        BY <1>3, <3>1 DEF Overlay
      <4> QED
        BY <1>3, <4>1 DEF Overlay
    <3>3. CASE l = n - 1
      <4>1. l + 1 = n
        BY <2>1, <3>3
      <4> QED
        BY <2>3, <3>2, <3>3, <4>1
    <3>4. CASE l # n - 1
      <4>1. l \in 0 .. (n - 1) - 1
        BY <2>1, <3>4
      <4> QED
        BY <1>7, <2>3, <3>2, <3>4, <4>1
    <3> QED
      BY <3>3, <3>4
  <2> QED
    BY <2>1, <2>4
<1>8. k \in S
  <2>1. \A n \in 1 .. N : n - 1 \in S => n \in S
    BY <1>7
  <2> HIDE DEF S
  <2> QED
    BY <1>2, <1>6, <2>1, Induct DEF N
<1> QED
  BY <1>8 DEF S, C

\* A file whose blocks are where the pointers put them.
PlacedBy(f, ptrs) == \A l \in DOMAIN f \cap Intact(ptrs) : f[l] = PointedTo(ptrs, l)

\* What has been copied of a plan is at its place.
LEMMA CopiesPlaced ==
  ASSUME disk \in Disks, disk.bad = {}, NEW ptrs \in Seq(Nat), Len(ptrs) = NDirect + 3,
         NEW k \in 0 .. Len(IndirectPlan(disk, ptrs))
  PROVE  PlacedBy(CopiesUpto(IndirectPlan(disk, ptrs))[k], ptrs)
<1> DEFINE plan == IndirectPlan(disk, ptrs)
           f == CopiesUpto(plan)[k]
<1>1. PlanOK("indirect", plan)
  <2>1. Len(ptrs) >= NDirect + 2
    BY TreeAssumption
  <2> QED
    BY <2>1, IndirectPlanOK
<1>2. \A l \in Intact(ptrs) : plan[l + 1].start = PointedTo(ptrs, l)
  BY PlanPlaced
<1> HIDE DEF plan
<1>3. DOMAIN f = 0 .. k - 1 /\ \A l \in 0 .. k - 1 : f[l] = plan[l + 1].start
  BY <1>1, IndirectDomain, IndirectContent DEF plan
<1> HIDE DEF f
<1>4. PlacedBy(f, ptrs)
  BY <1>2, <1>3 DEF PlacedBy
<1> QED
  BY <1>4 DEF f, plan

\* A file that is all it was to be has its blocks, and no more.
LEMMA TargetPlaced ==
  ASSUME disk \in Disks, disk.bad = {}, NEW ptrs \in Seq(Nat), Len(ptrs) = NDirect + 3, NEW size \in Nat
  PROVE  LET f == Target("indirect", IndirectPlan(disk, ptrs), size)
         IN /\ PlacedBy(f, ptrs)
            /\ Intact(ptrs) \cap 0 .. size - 1 \subseteq DOMAIN f
            /\ DOMAIN f \subseteq 0 .. size - 1
<1> DEFINE plan == IndirectPlan(disk, ptrs)
           N == Len(plan)
           all == CopiesUpto(plan)[N]
           f == Target("indirect", plan, size)
<1>1. PlanOK("indirect", plan)
  <2>1. Len(ptrs) >= NDirect + 2
    BY TreeAssumption
  <2> QED
    BY <2>1, IndirectPlanOK
<1>2. N \in Nat /\ DOMAIN plan = 1 .. N
  <2>1. plan \in Seq(Exts)
    BY <1>1 DEF PlanOK
  <2> HIDE DEF plan, Exts
  <2> QED
    BY <2>1
<1>3. PlacedBy(all, ptrs)
  <2>1. N \in 0 .. N
    BY <1>2
  <2> QED
    BY <2>1, CopiesPlaced
<1>4. \A l \in Intact(ptrs) : l + 1 \in 1 .. N /\ l \in Nat
  <2>1. \A l \in Intact(ptrs) : l + 1 \in DOMAIN plan
    BY PlanPlaced
  <2>2. \A l \in Intact(ptrs) : l \in Nat
    BY DEF Intact
  <2> QED
    BY <1>2, <2>1, <2>2
<1>5. f = IF size < N THEN Cut(all, size) ELSE all
  BY DEF Target
<1>6. DOMAIN all = 0 .. N - 1
  <2>1. N \in 0 .. N
    BY <1>2
  <2> QED
    BY <1>1, <2>1, IndirectDomain
<1> HIDE DEF plan, N, all, f
<1>7. CASE size < N
  <2>1. f = [l \in {l \in DOMAIN all : l < size} |-> all[l]]
    BY <1>5, <1>7 DEF Cut
  <2>2. DOMAIN f = {l \in DOMAIN all : l < size} /\ \A l \in DOMAIN f : f[l] = all[l]
    BY <2>1
  <2>3. PlacedBy(f, ptrs)
    BY <1>3, <2>2 DEF PlacedBy
  <2>4. \A l \in DOMAIN f : l \in 0 .. size - 1
    BY <1>2, <1>6, <2>2
  <2>5. \A l \in Intact(ptrs) \cap 0 .. size - 1 : l \in DOMAIN f
    BY <1>2, <1>6, <1>7, <2>2
  <2> QED
    BY <2>3, <2>4, <2>5 DEF f, plan
<1>8. CASE ~(size < N)
  <2>1. f = all
    BY <1>5, <1>8
  <2>2. \A l \in DOMAIN f : l \in 0 .. size - 1
    BY <1>2, <1>6, <1>8, <2>1
  <2>3. \A l \in Intact(ptrs) : l \in DOMAIN f
    BY <1>2, <1>4, <1>6, <2>1
  <2> QED
    BY <1>3, <2>1, <2>2, <2>3 DEF f, plan
<1> QED
  BY <1>7, <1>8

\* The parts of PointersInv.
FromCopy(src, plan, size) ==
    \E i \in DOMAIN disk.copies :
        /\ CopyOf(disk.copies[i], src)
        /\ plan = IndirectPlan(disk, disk.copies[i].ptrs) /\ size = disk.copies[i].size
Planned(n, ow, ps) ==
    /\ n \in DOMAIN ps /\ n \in DOMAIN ow
    /\ \E i \in DOMAIN disk.copies :
         /\ CopyOf(disk.copies[i], ow[n].src)
         /\ ps[n] = Target("indirect", IndirectPlan(disk, disk.copies[i].ptrs), disk.copies[i].size)
JobPointers(j, ow) ==
    j # NoJob =>
        /\ j.kind = "indirect" <=> j.name[1] = "ind"
        /\ j.kind = "indirect" => FromCopy(j.src, j.plan, j.size) /\ (j.open => ow[j.name].src = j.src)
FilePointers(ns, ow, ps) == \A n \in ns : n[1] = "ind" => Planned(n, ow, ps)

\* PointersInv, from its parts.
LEMMA PointersIs == PointersInv <=> JobPointers(job, owner) /\ FilePointers(DOMAIN files, owner, planned)
  BY DEF PointersInv, JobPointers, FilePointers, FromCopy, Planned

\* PointersInv in the next state, from its parts.
LEMMA PointersNext ==
  ASSUME UNCHANGED disk, JobPointers(job', owner'), FilePointers(DOMAIN files', owner', planned')
  PROVE  PointersInv'
  BY DEF PointersInv, JobPointers, FilePointers, FromCopy, Planned

LEMMA JobPointersNone == \A ow : JobPointers(NoJob, ow)
  BY DEF JobPointers

\* A job that is for no file of block pointers.
LEMMA JobPointersElse ==
  ASSUME NEW kind, NEW src, NEW name, NEW plan, NEW size, NEW ow, kind # "indirect", name[1] # "ind"
  PROVE  JobPointers(Job(kind, src, name, plan, size), ow)
<1> DEFINE j == Job(kind, src, name, plan, size)
<1>1. j.kind = kind /\ j.name = name
  BY Fields
<1> HIDE DEF j
<1>2. JobPointers(j, ow)
  BY <1>1 DEF JobPointers
<1> QED
  BY <1>2 DEF j

\* The job of a copy with block pointers.
LEMMA JobPointersOf ==
  ASSUME NEW i \in DOMAIN disk.copies, disk.copies[i].kind = "indirect", NEW name, name[1] = "ind", NEW ow
  PROVE  LET c == disk.copies[i]
         IN JobPointers(Job("indirect", c.ino, name, IndirectPlan(disk, c.ptrs), c.size), ow)
<1> DEFINE c == disk.copies[i]
           plan == IndirectPlan(disk, c.ptrs)
           j == Job("indirect", c.ino, name, plan, c.size)
<1>1. j.kind = "indirect" /\ j.name = name /\ j.src = c.ino /\ j.plan = plan /\ j.size = c.size /\ j.open = FALSE
  BY Fields
<1>2. FromCopy(c.ino, plan, c.size)
  BY DEF FromCopy, CopyOf
<1> HIDE DEF j, c, plan
<1>3. JobPointers(j, ow)
  BY <1>1, <1>2 DEF JobPointers
<1> QED
  BY <1>3 DEF j, c, plan

\* The jobs of the journal phase.
LEMMA JournalCopyPointers ==
  ASSUME JournalInv, disk \in Disks, JournalCopy, NEW ow
  PROVE  JobPointers(job', ow)
<1> DEFINE c == disk.copies[pos]
           tmp == <<"tmp", c.ino>>
           iname == <<"inline", Resolved(c.ino)>>
           name == <<"ind", Resolved(c.ino)>>
           jplan == JournalPlan(AsOf(c), c)
           iplan == IndirectPlan(disk, c.ptrs)
<1>1. job = NoJob /\ phase = "journal" /\ ~Over
  BY DEF JournalCopy, Turn
<1>2. pos \in DOMAIN disk.copies /\ c.kind \in {"extents", "inline", "indirect"}
  <2>1. disk.copies \in Seq(InodeCopies)
    BY DisksAssumption DEF DiskOK
  <2>2. pos \in Nat \ {0} /\ ~(pos > Len(disk.copies))
    BY <1>1 DEF JournalInv, Over
  <2>3. pos \in DOMAIN disk.copies /\ c \in InodeCopies
    BY <2>1, <2>2
  <2> HIDE DEF c
  <2> QED
    BY <2>3 DEF InodeCopies
<1>3. \/ job' = job \/ job' = NoJob
      \/ job' = Job("journal", c.ino, tmp, jplan, c.size)
      \/ c.kind = "inline" /\ job' = Job("inline", c.ino, iname, <<>>, c.size)
      \/ c.kind = "indirect" /\ job' = Job("indirect", c.ino, name, iplan, c.size)
  <2>1. \/ job' = job \/ job' = NoJob
        \/ job' = Job("journal", c.ino, tmp, jplan, c.size)
        \/ c.kind # "extents" /\ job' = Job(c.kind, c.ino, <<IF c.kind = "inline" THEN "inline" ELSE "ind", Resolved(c.ino)>>,
                           IF c.kind = "inline" THEN <<>> ELSE iplan, c.size)
    BY DEF JournalCopy, FromExtents, FromInode, Pass, JournalName
  <2> QED
    BY <1>2, <2>1
<1>4. tmp[1] # "ind" /\ iname[1] # "ind" /\ name[1] = "ind"
  OBVIOUS
<1>5. CASE job' = job \/ job' = NoJob
  BY <1>1, <1>5, JobPointersNone
<1>6. CASE c.kind = "indirect" /\ job' = Job("indirect", c.ino, name, iplan, c.size)
  <2> HIDE DEF name
  <2> QED
    BY <1>2, <1>4, <1>6, JobPointersOf
<1> HIDE DEF c, tmp, iname, name, jplan, iplan
<1>7. CASE job' = Job("journal", c.ino, tmp, jplan, c.size)
  BY <1>4, <1>7, JobPointersElse
<1>8. CASE job' = Job("inline", c.ino, iname, <<>>, c.size)
  BY <1>4, <1>8, JobPointersElse
<1> QED
  BY <1>3, <1>5, <1>6, <1>7, <1>8

\* The jobs of inodes and of blocks.
LEMMA OtherPointers ==
  ASSUME job = NoJob, NEW ow, NEW x,
         \/ StartInode(x) \/ Pass \/ RevokedBlock \/ UNCHANGED <<job, marks>>
         \/ \E h : StartLeaf(x, h) \/ StartTree(x, h)
  PROVE  JobPointers(job', ow)
<1>1. CASE StartInode(x) \/ Pass
  <2> DEFINE name == <<"out", Resolved(x)>>
             plan == TravelPlan(disk, disk.inodes[x])
  <2>1. job' = job \/ job' = Job("inode", x, name, plan, 0)
    BY <1>1 DEF StartInode, Pass
  <2>2. name[1] # "ind"
    OBVIOUS
  <2> HIDE DEF name, plan
  <2> QED
    BY <2>1, <2>2, JobPointersElse, JobPointersNone
<1>2. CASE RevokedBlock
  <2> DEFINE b == disk.revoked[pos]
             h == read_tree_block_versioned(disk, b)
             plan == ClearedPlan(h.slots)
             name == <<"targeted", b>>
  <2>1. \/ job' = job
        \/ job' = Job("targeted", b, name, plan, 0)
        \/ job' = Job("probe", b, name, <<>>, 0)
    BY <1>2 DEF RevokedBlock, Turn
  <2>2. name[1] # "ind"
    OBVIOUS
  <2> HIDE DEF b, plan, name
  <2> QED
    BY <2>1, <2>2, JobPointersElse, JobPointersNone
<1>3. CASE UNCHANGED <<job, marks>>
  BY <1>3, JobPointersNone
<1>4. ASSUME NEW h, StartLeaf(x, h) PROVE JobPointers(job', ow)
  <2> DEFINE name == <<"leaf", x>>
             plan == LeafPlan(h)
  <2>1. job' = NoJob \/ job' = Job("leaf", x, name, plan, 0)
    BY <1>4 DEF StartLeaf
  <2>2. name[1] # "ind"
    OBVIOUS
  <2> HIDE DEF name, plan
  <2> QED
    BY <2>1, <2>2, JobPointersElse, JobPointersNone
<1>5. ASSUME NEW h, StartTree(x, h) PROVE JobPointers(job', ow)
  <2> DEFINE name == <<"tree", x>>
             plan == TreePlan(walk_extent_tree(disk, h).exts)
  <2>1. job' = NoJob \/ job' = Job("tree", x, name, plan, 0)
    BY <1>5 DEF StartTree
  <2>2. name[1] # "ind"
    OBVIOUS
  <2> HIDE DEF name, plan
  <2> QED
    BY <2>1, <2>2, JobPointersElse, JobPointersNone
<1> QED
  BY <1>1, <1>2, <1>3, <1>4, <1>5

\* Steps of the loops keep PointersInv.
LEMMA LoopingPointers ==
  ASSUME NameState, JournalInv, JobInv, PointersInv, Looping
  PROVE  PointersInv'
<1>1. disk \in Disks
  BY DEF NameState, PhaseInv
<1>2. UNCHANGED <<disk, files, owner, planned>> /\ job = NoJob
  BY <1>1, LoopingStarts
<1>3. FilePointers(DOMAIN files', owner', planned')
  BY <1>2, PointersIs
<1>4. JobPointers(job', owner')
  <2>1. CASE OrphanChain \/ OrphanFile \/ NormalInode
    <3>1. \E ino : StartInode(ino) \/ Pass
      BY <2>1 DEF OrphanChain, OrphanFile, NormalInode
    <3> QED
      BY <1>2, <3>1, OtherPointers
  <2>2. CASE JournalCopy
    BY <1>1, <2>2, JournalCopyPointers
  <2>3. CASE RevokedBlock
    BY <1>2, <2>3, OtherPointers
  <2>4. CASE ScanBlock
    BY <1>1, <1>2, <2>4, ScanTurn, OtherPointers
  <2> QED
    BY <2>1, <2>2, <2>3, <2>4 DEF Looping
<1> QED
  BY <1>2, <1>3, <1>4, PointersNext

\* Steps that open and write files keep PointersInv.
LEMMA WritingPointers ==
  ASSUME JobInv, PointersInv, Writing
  PROVE  PointersInv'
<1>1. /\ Kept /\ job # NoJob /\ UNCHANGED disk
      /\ DOMAIN files' \subseteq DOMAIN files \cup {job.name}
  BY WritingKeeps
<1>2. JobPointers(job, owner) /\ FilePointers(DOMAIN files, owner, planned)
  BY PointersIs
<1>3. CASE OpenFile
  <2> DEFINE own == [src |-> job.src, by |-> job.kind]
             all == Target(job.kind, job.plan, job.size)
  <2>1. CASE job.kind \in {"journal", "probe"}
    <3>1. UNCHANGED <<owner, planned>> /\ job.kind # "indirect" /\ job.name[1] # "ind"
      BY <1>1, <1>2, <1>3, <2>1 DEF OpenFile, JobPointers
    <3>2. FilePointers(DOMAIN files', owner, planned)
      BY <1>1, <1>2, <3>1 DEF FilePointers
    <3>3. JobPointers(job', owner)
      BY <1>1, <1>2, <3>1 DEF JobPointers, Kept
    <3> QED
      BY <1>1, <3>1, <3>2, <3>3, PointersNext
  <2>2. CASE job.kind \notin {"journal", "probe"}
    <3>1. owner' = Put(owner, job.name, own) /\ planned' = Put(planned, job.name, all)
      BY <1>3, <2>2 DEF OpenFile
    <3>2. own.src = job.src
      OBVIOUS
    <3> HIDE DEF own, all
    <3>3. /\ owner'[job.name] = own /\ job.name \in DOMAIN owner' /\ job.name \in DOMAIN planned' /\ planned'[job.name] = all
          /\ DOMAIN planned \subseteq DOMAIN planned'
      BY <3>1 DEF Put
    <3>4. \A n \in DOMAIN planned : n # job.name => planned'[n] = planned[n]
      BY <3>1 DEF Put
    <3>5. JobPointers(job', owner')
      BY <1>1, <1>2, <3>2, <3>3 DEF JobPointers, Kept
    <3>6. ASSUME NEW n \in DOMAIN files', n[1] = "ind" PROVE Planned(n, owner', planned')
      <4>1. CASE n = job.name
        <5>1. job.kind = "indirect"
          BY <1>1, <1>2, <3>6, <4>1 DEF JobPointers
        <5>2. PICK i \in DOMAIN disk.copies :
                 /\ CopyOf(disk.copies[i], job.src)
                 /\ job.plan = IndirectPlan(disk, disk.copies[i].ptrs) /\ job.size = disk.copies[i].size
          BY <1>1, <1>2, <5>1 DEF JobPointers, FromCopy
        <5>3. planned'[n] = Target("indirect", IndirectPlan(disk, disk.copies[i].ptrs), disk.copies[i].size)
          BY <3>3, <4>1, <5>1, <5>2 DEF all
        <5>4. CopyOf(disk.copies[i], owner'[n].src)
          BY <3>2, <3>3, <4>1, <5>2
        <5> QED
          BY <3>3, <4>1, <5>3, <5>4 DEF Planned
      <4>2. CASE n # job.name
        <5>1. n \in DOMAIN files /\ Planned(n, owner, planned)
          BY <1>1, <1>2, <3>6, <4>2 DEF FilePointers
        <5>2. n \in DOMAIN planned
          BY <5>1 DEF Planned
        <5>3. n \in DOMAIN owner => owner'[n] = owner[n]
          BY <3>1, <4>2 DEF Put
        <5>4. n \in DOMAIN owner /\ n \in DOMAIN owner'
          BY <3>1, <5>1 DEF Planned, Put
        <5> QED
          BY <3>3, <3>4, <4>2, <5>1, <5>2, <5>3, <5>4 DEF Planned
      <4> QED
        BY <4>1, <4>2
    <3> QED
      BY <1>1, <3>5, <3>6, PointersNext DEF FilePointers
  <2> QED
    BY <2>1, <2>2
<1>4. CASE OpenFails
  <2>1. UNCHANGED <<files, owner, planned>> /\ job' = NoJob
    BY <1>4 DEF OpenFails, dirvars
  <2> QED
    BY <1>1, <1>2, <2>1, JobPointersNone, PointersNext
<1>5. CASE CopyChunk \/ ChunkFails
  <2>1. UNCHANGED <<owner, planned>> /\ job.open
    BY <1>5 DEF CopyChunk, ChunkFails, Copying
  <2>2. job.name \in DOMAIN files
    BY <1>1, <2>1 DEF JobInv, Reading
  <2>3. JobPointers(job', owner)
    BY <1>1, <1>2, <2>1 DEF JobPointers, Kept
  <2>4. FilePointers(DOMAIN files', owner, planned)
    BY <1>1, <1>2, <2>2 DEF FilePointers
  <2> QED
    BY <1>1, <2>1, <2>3, <2>4, PointersNext
<1> QED
  BY <1>3, <1>4, <1>5 DEF Writing

\* Steps that close files keep PointersInv.
LEMMA ClosingPointers ==
  ASSUME JobInv, PointersInv, Closing
  PROVE  PointersInv'
<1>1. UNCHANGED disk /\ job # NoJob
  BY DEF Closing, InodeDone, BlockDone, Promote, PromoteFails, IndirectDone, InlineDone, RevokedTree, Copied
<1>2. JobPointers(job, owner) /\ FilePointers(DOMAIN files, owner, planned)
  BY PointersIs
<1>3. CASE Promote
  <2> DEFINE final == <<"out", Resolved(job.src)>>
             own == [src |-> job.src, by |-> "journal"]
  <2>1. PICK got, all : /\ files' = Put(Without(files, job.name), final, got)
                        /\ owner' = Put(owner, final, own) /\ planned' = Put(planned, final, all)
    BY <1>3 DEF Promote
  <2>2. final[1] # "ind" /\ job' = NoJob
    BY <1>3 DEF Promote
  <2> HIDE DEF final, own
  <2>3. ASSUME NEW n \in DOMAIN files', n[1] = "ind" PROVE Planned(n, owner', planned')
    <3>1. n # final /\ n \in DOMAIN files
      BY <2>1, <2>2, <2>3 DEF Put, Without
    <3>2. Planned(n, owner, planned)
      BY <1>2, <2>3, <3>1 DEF FilePointers
    <3>3. n \in DOMAIN planned /\ n \in DOMAIN owner
      BY <3>2 DEF Planned
    <3>4. planned'[n] = planned[n] /\ owner'[n] = owner[n] /\ n \in DOMAIN planned' /\ n \in DOMAIN owner'
      BY <2>1, <3>1, <3>3 DEF Put
    <3> QED
      BY <3>2, <3>4 DEF Planned
  <2> QED
    BY <1>1, <2>2, <2>3, JobPointersNone, PointersNext DEF FilePointers
<1>4. CASE RevokedTree
  <2> DEFINE b == job.src
             h == read_tree_block_versioned(disk, b)
             name == <<"tree", b>>
             plan == TreePlan(walk_extent_tree(disk, h).exts)
  <2>1. UNCHANGED <<files, owner, planned>>
    BY <1>4 DEF RevokedTree, dirvars
  <2>2. job' = NoJob \/ job' = Job("tree", b, name, plan, 0)
    BY <1>4 DEF RevokedTree, StartTree
  <2>3. name[1] # "ind"
    OBVIOUS
  <2> HIDE DEF name, plan, b
  <2>4. JobPointers(job', owner')
    BY <2>2, <2>3, JobPointersElse, JobPointersNone
  <2> QED
    BY <1>1, <1>2, <2>1, <2>4, PointersNext
<1>5. CASE InodeDone \/ BlockDone \/ PromoteFails \/ IndirectDone \/ InlineDone
  <2>1. UNCHANGED <<owner, planned>> /\ job' = NoJob
    BY <1>5 DEF InodeDone, BlockDone, PromoteFails, IndirectDone, InlineDone
  <2>2. DOMAIN files' \subseteq DOMAIN files
    BY <1>5 DEF InodeDone, BlockDone, PromoteFails, IndirectDone, InlineDone, dirvars, Without
  <2>3. FilePointers(DOMAIN files', owner, planned)
    BY <1>2, <2>2 DEF FilePointers
  <2> QED
    BY <1>1, <2>1, <2>3, JobPointersNone, PointersNext
<1> QED
  BY <1>3, <1>4, <1>5 DEF Closing

\* Every step keeps PointersInv, a crash too.
LEMMA NextPointers == NameState /\ JournalInv /\ JobInv /\ PointersInv /\ [Next]_vars => PointersInv'
<1> SUFFICES ASSUME NameState, JournalInv, JobInv, PointersInv, [Next]_vars PROVE PointersInv'
  OBVIOUS
<1>1. CASE Looping
  BY <1>1, LoopingPointers
<1>2. CASE Writing
  BY <1>2, WritingPointers
<1>3. CASE Closing
  BY <1>3, ClosingPointers
<1>4. CASE Setup \/ SetupFails \/ AddName \/ NamesDone \/ PhaseDone \/ CheckpointWritten \/ Report \/ Clear \/ Crash
           \/ UNCHANGED vars
  <2>1. UNCHANGED <<disk, files, owner, planned>> /\ (job' = job \/ job' = NoJob)
    BY <1>4 DEF Setup, SetupFails, AddName, NamesDone, PhaseDone, CheckpointWritten, Report, Clear, Crash, dirvars, vars
  <2> QED
    BY <2>1, PointersIs, PointersNext, JobPointersNone
<1> QED
  BY <1>1, <1>2, <1>3, <1>4 DEF Next, Program, Finished

\* PointersInv holds at the start.
LEMMA InitPointers == Init => PointersInv
<1> SUFFICES ASSUME Init PROVE PointersInv
  OBVIOUS
<1>1. job = NoJob /\ DOMAIN files = {}
  BY DEF Init, NoEntries
<1> QED
  BY <1>1, PointersIs, JobPointersNone DEF FilePointers

\* What has been read of a file of block pointers.
LEMMA PointersReading ==
  ASSUME JobInv, job # NoJob, job.open, job.kind = "indirect", ~job.stopped
  PROVE  \E k \in 0 .. Len(job.plan) : files[job.name] = CopiesUpto(job.plan)[k]
<1> DEFINE plan == job.plan
           k == Len(plan) - Len(job.todo)
<1>1. PlanOK("indirect", plan) /\ Reading(job, files)
  BY DEF JobInv, JobOK
<1>2. plan \in Seq(Exts) /\ k \in 0 .. Len(plan) /\ files[job.name] = Upto(plan, k, job.done)
  BY <1>1 DEF PlanOK, Reading
<1>3. job.done = 0
  <2>1. CASE job.todo = <<>>
    BY <1>1, <2>1 DEF Reading
  <2>2. CASE job.todo # <<>>
    <3>1. k + 1 \in DOMAIN plan /\ job.todo[1] = plan[k + 1]
      BY <1>1, <2>2, NextExtent
    <3>2. job.todo[1].len = 1
      BY <1>1, <3>1 DEF PlanOK
    <3>3. job.done \in Nat /\ (job.done # 0 => job.done < job.todo[1].len)
      BY <1>1 DEF Reading
    <3> QED
      BY <3>2, <3>3
  <2> QED
    BY <2>1, <2>2
<1> HIDE DEF plan, k
<1>4. files[job.name] = CopiesUpto(plan)[k]
  BY <1>2, <1>3, UptoNothing
<1> QED
  BY <1>2, <1>4 DEF plan

\* A copy of an inode with block pointers.
LEMMA CopyPointers ==
  ASSUME disk \in Disks, NEW i \in DOMAIN disk.copies, disk.copies[i].kind = "indirect"
  PROVE  LET c == disk.copies[i]
         IN c.ptrs \in Seq(Nat) /\ Len(c.ptrs) = NDirect + 3 /\ c.size \in Nat
<1> DEFINE c == disk.copies[i]
<1>1. disk.copies \in Seq(InodeCopies) /\ Len(c.ptrs) = NDirect + 3
  BY DisksAssumption DEF DiskOK
<1>2. c \in InodeCopies
  <2> HIDE DEF InodeCopies
  <2> QED
    BY <1>1
<1> HIDE DEF c
<1>3. c.ptrs \in Seq(Nat) /\ c.size \in Nat
  BY <1>2 DEF InodeCopies
<1> QED
  BY <1>1, <1>3 DEF c

\* On a readable device, and unless a call fails, a file of block pointers has every block
\* up to its first hole where the pointers of a copy of its inode put it, direct, indirect
\* and double-indirect, at every moment; it has them all once it has been written, and
\* nothing past its size: for every device, however many pointers a block has.
THEOREM IndirectPlacedCorrect == Spec => []IndirectPlaced
<1>1. Init => WholeInv /\ PointersInv
  BY InitWhole, InitPointers
<1>2. NameState /\ JournalInv /\ JobInv /\ WholeInv /\ [Next]_vars => WholeInv'
  BY NextWhole
<1>3. NameState /\ JournalInv /\ JobInv /\ PointersInv /\ [Next]_vars => PointersInv'
  BY NextPointers
<1>4. NameState /\ JobInv /\ WholeInv /\ PointersInv => IndirectPlaced
  <2> DEFINE Good(n, i) ==
               LET c == disk.copies[i]
               IN /\ c.kind = "indirect" /\ c.ino = owner[n].src
                  /\ \A l \in DOMAIN files[n] \cap Intact(c.ptrs) : files[n][l] = PointedTo(c.ptrs, l)
                  /\ ~BeingWritten(n) =>
                       /\ Intact(c.ptrs) \cap 0 .. c.size - 1 \subseteq DOMAIN files[n]
                       /\ DOMAIN files[n] \subseteq 0 .. c.size - 1
  <2> SUFFICES ASSUME NameState, JobInv, WholeInv, PointersInv, Smooth, NEW n \in DOMAIN files, n[1] = "ind"
               PROVE  \E i \in DOMAIN disk.copies : Good(n, i)
    BY DEF IndirectPlaced, Smooth
  <2>1. disk \in Disks /\ disk.bad = {}
    BY DEF NameState, PhaseInv, Smooth
  <2>2. Done(files, planned, job) /\ Halted(files, job)
    BY WholeIs
  <2>3. JobPointers(job, owner) /\ Planned(n, owner, planned)
    BY PointersIs DEF FilePointers
  <2>4. CASE BeingWritten(n)
    <3>1. job # NoJob /\ job.open /\ job.name = n
      BY <2>4 DEF BeingWritten
    <3>2. job.kind = "indirect" /\ owner[n].src = job.src /\ FromCopy(job.src, job.plan, job.size)
      BY <2>3, <3>1 DEF JobPointers
    <3>3. ~job.stopped
      BY <2>2, <3>1, <3>2 DEF Halted
    <3>4. PICK k \in 0 .. Len(job.plan) : files[job.name] = CopiesUpto(job.plan)[k]
      BY <3>1, <3>2, <3>3, PointersReading
    <3>5. PICK i \in DOMAIN disk.copies :
             CopyOf(disk.copies[i], job.src) /\ job.plan = IndirectPlan(disk, disk.copies[i].ptrs)
      BY <3>2 DEF FromCopy
    <3> DEFINE c == disk.copies[i]
    <3>6. c.kind = "indirect" /\ c.ino = owner[n].src
      BY <3>2, <3>5 DEF CopyOf
    <3>7. c.ptrs \in Seq(Nat) /\ Len(c.ptrs) = NDirect + 3
      BY <2>1, <3>6, CopyPointers
    <3>8. PlacedBy(files[n], c.ptrs)
      BY <2>1, <3>1, <3>4, <3>5, <3>7, CopiesPlaced
    <3> QED
      BY <2>4, <3>6, <3>8 DEF PlacedBy
  <2>5. CASE ~BeingWritten(n)
    <3>1. PICK i \in DOMAIN disk.copies :
             /\ CopyOf(disk.copies[i], owner[n].src)
             /\ planned[n] = Target("indirect", IndirectPlan(disk, disk.copies[i].ptrs), disk.copies[i].size)
      BY <2>3 DEF Planned
    <3>2. files[n] = planned[n]
      BY <2>2, <2>3, <2>5 DEF Done, BeingWritten, Planned
    <3> DEFINE c == disk.copies[i]
    <3>3. c.kind = "indirect" /\ c.ino = owner[n].src
      BY <3>1 DEF CopyOf
    <3>4. c.ptrs \in Seq(Nat) /\ Len(c.ptrs) = NDirect + 3 /\ c.size \in Nat
      BY <2>1, <3>3, CopyPointers
    <3> DEFINE f == Target("indirect", IndirectPlan(disk, c.ptrs), c.size)
    <3>5. /\ PlacedBy(f, c.ptrs)
          /\ Intact(c.ptrs) \cap 0 .. c.size - 1 \subseteq DOMAIN f
          /\ DOMAIN f \subseteq 0 .. c.size - 1
      BY <2>1, <3>4, TargetPlaced
    <3>6. files[n] = f
      BY <3>1, <3>2
    <3> HIDE DEF f
    <3> QED
      BY <3>3, <3>5, <3>6 DEF PlacedBy
  <2> QED
    BY <2>4, <2>5
<1> QED
  BY <1>1, <1>2, <1>3, <1>4, NameStateInvariant, JournalInvariant, JobInvariant, PTL DEF Spec

-----------------------------------------------------------------------------
(* The run gets on. *)

\* The order of two lists of eight.
LEMMA LessAt ==
  ASSUME NEW a1, NEW a2, NEW a3, NEW a4, NEW a5, NEW a6, NEW a7, NEW a8,
         NEW b1, NEW b2, NEW b3, NEW b4, NEW b5, NEW b6, NEW b7, NEW b8,
         \/ a1 < b1 /\ b1 > 0
         \/ a1 = b1 /\ a2 < b2 /\ b2 > 0
         \/ a1 = b1 /\ a2 = b2 /\ a3 < b3 /\ b3 > 0
         \/ a1 = b1 /\ a2 = b2 /\ a3 = b3 /\ a4 < b4 /\ b4 > 0
         \/ a1 = b1 /\ a2 = b2 /\ a3 = b3 /\ a4 = b4 /\ a5 < b5 /\ b5 > 0
         \/ a1 = b1 /\ a2 = b2 /\ a3 = b3 /\ a4 = b4 /\ a5 = b5 /\ a6 < b6 /\ b6 > 0
         \/ /\ a1 = b1 /\ a2 = b2 /\ a3 = b3 /\ a4 = b4 /\ a5 = b5 /\ a6 = b6
            /\ a7 < b7 /\ b7 > 0
         \/ /\ a1 = b1 /\ a2 = b2 /\ a3 = b3 /\ a4 = b4 /\ a5 = b5 /\ a6 = b6 /\ a7 = b7
            /\ a8 < b8 /\ b8 > 0
  PROVE  Less(<<a1, a2, a3, a4, a5, a6, a7, a8>>, <<b1, b2, b3, b4, b5, b6, b7, b8>>)
<1> DEFINE v == <<a1, a2, a3, a4, a5, a6, a7, a8>>
           w == <<b1, b2, b3, b4, b5, b6, b7, b8>>
<1>1. /\ v[1] = a1 /\ v[2] = a2 /\ v[3] = a3 /\ v[4] = a4
      /\ v[5] = a5 /\ v[6] = a6 /\ v[7] = a7 /\ v[8] = a8
  OBVIOUS
<1>2. /\ w[1] = b1 /\ w[2] = b2 /\ w[3] = b3 /\ w[4] = b4
      /\ w[5] = b5 /\ w[6] = b6 /\ w[7] = b7 /\ w[8] = b8
  OBVIOUS
<1>3. DOMAIN w = 1 .. 8
  OBVIOUS
<1> HIDE DEF v, w
<1>4. ASSUME NEW k \in 1 .. 8, v[k] < w[k], w[k] > 0, \A j \in 1 .. k - 1 : v[j] = w[j]
      PROVE  Less(v, w)
  BY <1>3, <1>4 DEF Less
<1>5. \A j \in 1 .. 7 : j = 1 \/ j = 2 \/ j = 3 \/ j = 4 \/ j = 5 \/ j = 6 \/ j = 7
  OBVIOUS
<1>6. Less(v, w)
  BY <1>1, <1>2, <1>4, <1>5
<1> QED
  BY <1>6 DEF v, w

LEMMA WorkFalls ==
  ASSUME NEW n,
         \/ CallsLeft' < CallsLeft /\ CallsLeft > 0
         \/ /\ CallsLeft' = CallsLeft
            /\ \/ PhasesLeft' < PhasesLeft /\ PhasesLeft > 0
               \/ /\ PhasesLeft' = PhasesLeft
                  /\ \/ TurnsLeft(n)' < TurnsLeft(n) /\ TurnsLeft(n) > 0
                     \/ /\ TurnsLeft(n)' = TurnsLeft(n)
                        /\ \/ Unsaved' < Unsaved /\ Unsaved > 0
                           \/ /\ Unsaved' = Unsaved
                              /\ \/ Openings' < Openings /\ Openings > 0
                                 \/ /\ Openings' = Openings
                                    /\ \/ Unopened' < Unopened /\ Unopened > 0
                                       \/ /\ Unopened' = Unopened
                                          /\ \/ ExtentsLeft' < ExtentsLeft /\ ExtentsLeft > 0
                                             \/ /\ ExtentsLeft' = ExtentsLeft
                                                /\ BlocksLeft' < BlocksLeft /\ BlocksLeft > 0
  PROVE  Less(Work(n)', Work(n))
  BY LessAt DEF Work

LEMMA MishapFalls ==
  ASSUME NamesInv, Mishap, NEW n
  PROVE  Less(Work(n)', Work(n))
<1>1. CallsLeft' < CallsLeft /\ CallsLeft > 0
  BY NamesAssumption DEF NamesInv, NamesTypeOK, Mishap, CallsLeft
<1> QED
  BY <1>1, WorkFalls

\* What follows a phase comes later in the order.
LEMMA AfterLater ==
  ASSUME NEW p, NEW m, m \subseteq ToSet(Order)
  PROVE  \/ After(p, m) = "report"
         \/ /\ After(p, m) \in ToSet(Order)
            /\ p \in ToSet(Order) => RankOf(After(p, m)) > RankOf(p)
<1> DEFINE later == {q \in m : p \notin ToSet(Order) \/ RankOf(q) > RankOf(p)}
           first(q) == \A r \in later : RankOf(q) <= RankOf(r)
           a == After(p, m)
<1>1. a = IF later = {} THEN "report" ELSE CHOOSE q \in later : first(q)
  BY DEF After, RankOf
<1>2. later \subseteq {"orphan", "journal", "normal", "aggressive", "targeted"}
  BY Phases
<1>3. \A q \in later : RankOf(q) \in Nat
  BY <1>2, PhaseRanks
<1>4. CASE later # {}
  <2>1. \E q \in later : first(q)
    <3> HIDE DEF later
    <3> DEFINE S == {RankOf(q) : q \in later}
    <3>1. S \subseteq Nat /\ S # {}
      BY <1>3, <1>4
    <3>2. PICK k \in S : \A j \in S : k <= j
      <4> HIDE DEF S
      <4> QED
        BY <3>1, LeastOf
    <3>3. PICK q \in later : k = RankOf(q)
      BY <3>2
    <3>4. first(q)
      BY <3>2, <3>3
    <3> QED
      BY <3>3, <3>4
  <2>2. a \in later
    <3> HIDE DEF later, first
    <3> QED
      BY <1>1, <1>4, <2>1
  <2> HIDE DEF a
  <2>3. a \in m /\ (p \notin ToSet(Order) \/ RankOf(a) > RankOf(p))
    BY <2>2
  <2> QED
    BY <2>3 DEF a
<1> QED
  BY <1>1, <1>4

\* The next phase leaves fewer phases to do.
LEMMA PhaseFalls ==
  ASSUME NEW n, UNCHANGED mishaps, mode \subseteq ToSet(Order),
         phase \in {"names"} \cup ToSet(Order), phase' = After(phase, mode)
  PROVE  Less(Work(n)', Work(n)) /\ phase' # phase
<1> DEFINE a == After(phase, mode)
<1>1. \/ a = "report"
      \/ a \in ToSet(Order) /\ (phase \in ToSet(Order) => RankOf(a) > RankOf(phase))
  BY AfterLater
<1>2. phase' = a
  OBVIOUS
<1> HIDE DEF a
<1>3. /\ phase \in {"names", "orphan", "journal", "normal", "aggressive", "targeted"}
      /\ phase' \in {"report", "orphan", "journal", "normal", "aggressive", "targeted"}
      /\ phase = "names" \/ phase' = "report" \/ RankOf(phase') > RankOf(phase)
  BY <1>1, <1>2, Phases
<1>4. PhasesLeft = IF phase = "names" THEN 8 ELSE 8 - RankOf(phase)
  BY <1>3, PhaseRanks DEF PhasesLeft
<1>5. PhasesLeft' = IF phase' = "report" THEN 2 ELSE 8 - RankOf(phase')
  BY <1>3, PhaseRanks DEF PhasesLeft
<1>6. /\ phase # "names" => RankOf(phase) \in 1 .. 5
      /\ phase' # "report" => RankOf(phase') \in 1 .. 5
  BY <1>3, PhaseRanks
<1>7. PhasesLeft' < PhasesLeft /\ PhasesLeft > 0
  BY <1>3, <1>4, <1>5, <1>6
<1>8. CallsLeft' = CallsLeft
  BY DEF CallsLeft
<1> QED
  BY <1>7, <1>8, <1>3, PhaseRanks, WorkFalls

\* A turn of a loop.
LEMMA TurnFalls ==
  ASSUME NEW n, UNCHANGED <<mishaps, phase>>, TurnsLeft(n)' < TurnsLeft(n), TurnsLeft(n) > 0
  PROVE  Less(Work(n)', Work(n))
<1>1. CallsLeft' = CallsLeft /\ PhasesLeft' = PhasesLeft
  BY DEF CallsLeft, PhasesLeft
<1> QED
  BY <1>1, WorkFalls

\* A step of a job.
LEMMA JobFalls ==
  ASSUME NEW n, UNCHANGED <<mishaps, phase, pos, count, disk, saving>>,
         \/ Openings' < Openings /\ Openings > 0
         \/ /\ Openings' = Openings
            /\ \/ Unopened' < Unopened /\ Unopened > 0
               \/ /\ Unopened' = Unopened
                  /\ \/ ExtentsLeft' < ExtentsLeft /\ ExtentsLeft > 0
                     \/ /\ ExtentsLeft' = ExtentsLeft
                        /\ BlocksLeft' < BlocksLeft /\ BlocksLeft > 0
  PROVE  Less(Work(n)', Work(n))
<1>1. /\ CallsLeft' = CallsLeft /\ PhasesLeft' = PhasesLeft /\ TurnsLeft(n)' = TurnsLeft(n)
      /\ Unsaved' = Unsaved
  BY DEF CallsLeft, PhasesLeft, TurnsLeft, Unsaved
<1> QED
  BY <1>1, WorkFalls

LEMMA OneTurnLess ==
  ASSUME NEW last \in Nat, NEW p \in Nat, ~(p > last)
  PROVE  last + 1 - (p + 1) < last + 1 - p /\ last + 1 - p > 0
  OBVIOUS

\* The loops of the phases: each turn is one less.
LEMMA LoopingFalls ==
  ASSUME NameState, JobInv, Rest, Looping, NEW n
  PROVE  Less(Work(n)', Work(n))
<1>0. /\ disk \in Disks /\ NamesInv /\ pos \in Nat /\ count \in Nat /\ MaxChain \in Nat
      /\ InodesCount \in Nat /\ TotalBlocks \in Nat
  BY RunAssumption, NamesAssumption, TreeAssumption DEF NameState, PhaseInv, JobInv, Rest
<1>1. /\ Len(disk.orphan_file) \in Nat /\ Len(disk.copies) \in Nat /\ Len(disk.revoked) \in Nat
  <2>1. disk.orphan_file \in Seq(Nat) /\ disk.revoked \in Seq(Nat) /\ disk.copies \in Seq(InodeCopies)
    BY <1>0, DisksAssumption DEF DiskOK
  <2> QED
    BY <2>1
<1>2. UNCHANGED <<disk, phase>> /\ ~Over
  BY DEF Looping, OrphanChain, OrphanFile, JournalCopy, NormalInode, ScanBlock, RevokedBlock, Turn
<1>3. Mishap \/ UNCHANGED mishaps
  BY LoopingInside, ResolvesCounted DEF Inside, Quiet, Counted
<1>4. TurnsLeft(n)' < TurnsLeft(n) /\ TurnsLeft(n) > 0
  <2>1. CASE OrphanChain
    <3>1. phase = "orphan" /\ ~disk.has_orphan_file /\ count' = count + 1 /\ ~(count > MaxChain)
      BY <1>2, <2>1 DEF OrphanChain, Turn, Over
    <3>2. TurnsLeft(n) = MaxChain + 1 - count /\ TurnsLeft(n)' = MaxChain + 1 - count'
      BY <1>2, <3>1 DEF TurnsLeft
    <3> QED
      BY <1>0, <3>1, <3>2
  <2>2. CASE OrphanFile
    <3>1. phase = "orphan" /\ disk.has_orphan_file /\ pos' = pos + 1 /\ ~(pos > Len(disk.orphan_file))
      BY <1>2, <2>2 DEF OrphanFile, Turn, Over
    <3>2. /\ TurnsLeft(n) = Len(disk.orphan_file) + 1 - pos
          /\ TurnsLeft(n)' = Len(disk.orphan_file) + 1 - pos'
      BY <1>2, <3>1 DEF TurnsLeft
    <3> QED
      BY <1>0, <1>1, <3>1, <3>2, OneTurnLess
  <2>3. CASE JournalCopy
    <3>1. phase = "journal" /\ pos' = pos + 1 /\ ~(pos > Len(disk.copies))
      BY <1>2, <2>3 DEF JournalCopy, Turn, Over
    <3>2. TurnsLeft(n) = Len(disk.copies) + 1 - pos /\ TurnsLeft(n)' = Len(disk.copies) + 1 - pos'
      BY <1>2, <3>1 DEF TurnsLeft
    <3> QED
      BY <1>0, <1>1, <3>1, <3>2, OneTurnLess
  <2>4. CASE NormalInode
    <3>1. phase = "normal" /\ pos' \in {pos + 1, InodesCount + 1} /\ ~(pos > InodesCount)
      BY <1>2, <2>4 DEF NormalInode, Turn, Over
    <3>2. TurnsLeft(n) = InodesCount + 1 - pos /\ TurnsLeft(n)' = InodesCount + 1 - pos'
      BY <1>2, <3>1 DEF TurnsLeft
    <3>3. CASE pos' = pos + 1
      BY <1>0, <3>1, <3>2, <3>3, OneTurnLess
    <3>4. CASE pos' = InodesCount + 1
      <4>1. TurnsLeft(n)' = 0 /\ TurnsLeft(n) > 0
        BY <1>0, <3>1, <3>2, <3>4
      <4> QED
        BY <4>1
    <3> QED
      BY <3>1, <3>3, <3>4
  <2>5. CASE ScanBlock
    <3>1. PICK b \in Blocks : Hit(b)
      BY <1>0, <2>5, ScanHit
    <3>2. phase = "aggressive" /\ pos' = b + 1 /\ b >= pos /\ b \in 1 .. TotalBlocks - 1
      BY <2>5, <3>1 DEF Hit, ScanBlock, Turn, Blocks
    <3>3. TurnsLeft(n) = TotalBlocks - pos /\ TurnsLeft(n)' = TotalBlocks - pos'
      BY <1>2, <3>2 DEF TurnsLeft
    <3> QED
      BY <1>0, <3>2, <3>3
  <2>6. CASE RevokedBlock
    <3>1. phase = "targeted" /\ pos' = pos + 1 /\ ~(pos > Len(disk.revoked))
      BY <1>2, <2>6 DEF RevokedBlock, Turn, Over
    <3>2. TurnsLeft(n) = Len(disk.revoked) + 1 - pos /\ TurnsLeft(n)' = Len(disk.revoked) + 1 - pos'
      BY <1>2, <3>1 DEF TurnsLeft
    <3> QED
      BY <1>0, <1>1, <3>1, <3>2, OneTurnLess
  <2> QED
    BY <2>1, <2>2, <2>3, <2>4, <2>5, <2>6 DEF Looping
<1> QED
  BY <1>0, <1>2, <1>3, <1>4, MishapFalls, TurnFalls

\* Writing: the output is opened, or an extent or a chunk of it is behind.
LEMMA WritingFalls ==
  ASSUME NameState, JobInv, Writing, NEW n
  PROVE  Less(Work(n)', Work(n))
<1>0. NamesInv /\ Chunk \in Nat \ {0}
  BY RunAssumption DEF NameState
<1>1. /\ job # NoJob /\ UNCHANGED <<disk, phase, pos, count, saving>>
      /\ JobOK(disk, job) /\ Reading(job, files)
  BY DEF Writing, OpenFile, OpenFails, CopyChunk, ChunkFails, Copying, run, JobInv
<1>2. job.todo \in Seq(Exts) /\ DOMAIN job = JobFields /\ PlanOK(job.kind, job.plan)
  BY <1>1 DEF JobOK, Reading
<1>3. CASE Mishap
  BY <1>0, <1>3, MishapFalls
<1>4. CASE UNCHANGED mishaps /\ OpenFile
  <2>1. ~job.open /\ job' = [job EXCEPT !.open = TRUE]
    BY <1>4 DEF OpenFile
  <2>2. job' # NoJob /\ job'.open /\ job'.kind = job.kind
    BY <1>2, <2>1, Fields, HasFields
  <2>3. Openings' = Openings /\ Unopened' = 0 /\ Unopened = 1
    BY <1>1, <2>1, <2>2 DEF Openings, Unopened
  <2> QED
    BY <1>1, <1>4, <2>3, JobFalls
<1>5. ASSUME Copying, UNCHANGED mishaps, job' # NoJob, job'.kind = job.kind, job'.open,
             job'.todo = Tail(job.todo) \/ job'.todo = <<>>
      PROVE  Less(Work(n)', Work(n))
  <2>1. job.open /\ job.todo # <<>>
    BY <1>5 DEF Copying
  <2>2. Openings' = Openings /\ Unopened' = Unopened
    BY <1>1, <1>5, <2>1 DEF Openings, Unopened
  <2>3. Len(Tail(job.todo)) < Len(job.todo) /\ Len(job.todo) > 0 /\ Len(<<>>) = 0
    <3> HIDE DEF Exts
    <3> QED
      BY <1>2, <2>1
  <2>4. ExtentsLeft' < ExtentsLeft /\ ExtentsLeft > 0
    BY <1>1, <1>5, <2>3 DEF ExtentsLeft
  <2> QED
    BY <1>1, <1>5, <2>2, <2>4, JobFalls
<1>6. CASE UNCHANGED mishaps /\ CopyChunk
  <2>1. /\ job' # NoJob /\ job'.kind = job.kind /\ job'.open /\ Copying
        /\ Extent \in Exts /\ job.done \in Nat /\ job.done < Extent.len
    BY <1>6, ChunkStep DEF CopyChunk, Extent
  <2>2. CASE job.done + This = Extent.len
    <3>1. job' = [job EXCEPT !.todo = Tail(@), !.done = 0, !.ok = @ + Extent.len]
      BY <1>6, <2>2 DEF CopyChunk
    <3>2. job'.todo = Tail(job.todo)
      BY <1>2, <3>1, Fields, HasFields
    <3> QED
      BY <1>5, <1>6, <2>1, <3>2
  <2>3. CASE job.done + This # Extent.len
    <3>1. job' = [job EXCEPT !.done = @ + This]
      BY <1>6, <2>3 DEF CopyChunk
    <3>2. job'.todo = job.todo /\ job'.done = job.done + This
      BY <1>2, <3>1, Fields, HasFields
    <3>3. Extent.len \in Nat
      BY <2>1 DEF Exts
    <3>4. This = Chunk /\ Extent.len - job.done > Chunk
      BY <1>0, <2>1, <2>3, <3>3 DEF This
    <3>5. ExtentsLeft' = ExtentsLeft /\ ExtentsLeft # 0
      <4>1. Len(job.todo) # 0
        <5> HIDE DEF Exts
        <5> QED
          BY <1>2, <2>1 DEF Copying
      <4> QED
        BY <1>1, <2>1, <3>2, <4>1 DEF ExtentsLeft
    <3>6. BlocksLeft = Extent.len - job.done /\ BlocksLeft' = Extent.len - job'.done
      BY <3>2, <3>5 DEF BlocksLeft, Extent
    <3>7. BlocksLeft' < BlocksLeft /\ BlocksLeft > 0
      BY <1>0, <2>1, <3>2, <3>3, <3>4, <3>6
    <3>8. Openings' = Openings /\ Unopened' = Unopened
      BY <1>1, <2>1 DEF Openings, Unopened, Copying
    <3> QED
      BY <1>1, <1>6, <3>5, <3>7, <3>8, JobFalls
  <2> QED
    BY <2>2, <2>3
<1>7. CASE UNCHANGED mishaps /\ ChunkFails
  <2>1. /\ job' = [job EXCEPT !.todo = IF job.kind = "inode" THEN <<>> ELSE Tail(@),
                              !.done = 0, !.stopped = TRUE]
        /\ Copying
    BY <1>7 DEF ChunkFails
  <2>2. job'.todo = IF job.kind = "inode" THEN <<>> ELSE Tail(job.todo)
    BY <1>2, <2>1, Fields, HasFields
  <2>3. job' # NoJob /\ job'.kind = job.kind /\ job'.open
    BY <1>7, FailStep
  <2> QED
    BY <1>5, <1>7, <2>1, <2>2, <2>3
<1> QED
  BY <1>3, <1>4, <1>6, <1>7 DEF Writing, OpenFile, OpenFails, CopyChunk, ChunkFails

\* The end of a job: there is none any more, or a tree to be dumped instead of a probe.
LEMMA ClosingFalls ==
  ASSUME NameState, Closing, NEW n
  PROVE  Less(Work(n)', Work(n))
<1>1. NamesInv /\ job # NoJob /\ UNCHANGED <<disk, phase, pos, count, saving>>
  BY DEF NameState, Closing, InodeDone, BlockDone, Promote, PromoteFails, IndirectDone, InlineDone,
         RevokedTree, Copied, run
<1>2. Counted
  BY ClosingInside, ResolvesCounted DEF Inside, Quiet
<1>3. Openings' < Openings /\ Openings > 0
  <2>1. Openings \in {1, 2} /\ (job.kind = "probe" => Openings = 2)
    BY <1>1 DEF Openings
  <2>2. CASE RevokedTree
    <3>1. job.kind = "probe"
      BY <2>2 DEF RevokedTree, Copied
    <3>2. job' = NoJob \/ \E src, name, plan, size : job' = Job("tree", src, name, plan, size)
      BY <2>2 DEF RevokedTree, StartTree
    <3>3. job' = NoJob \/ (job' # NoJob /\ job'.kind = "tree")
      BY <3>2, Fields
    <3>4. Openings' \in {0, 1}
      BY <3>3 DEF Openings
    <3> QED
      BY <2>1, <3>1, <3>4
  <2>3. CASE ~RevokedTree
    <3>1. job' = NoJob
      BY <2>3 DEF Closing, InodeDone, BlockDone, Promote, PromoteFails, IndirectDone, InlineDone
    <3>2. Openings' = 0
      BY <3>1 DEF Openings
    <3> QED
      BY <2>1, <3>2
  <2> QED
    BY <2>2, <2>3
<1> QED
  BY <1>1, <1>2, <1>3, MishapFalls, JobFalls DEF Counted

\* Between the loops: the names, the checkpoints, what comes before and after.
LEMMA MainFalls ==
  ASSUME NameState, AnswersInv, NEW n, n = Len(Found),
         \/ Setup \/ SetupFails \/ AddName \/ NamesDone \/ PhaseDone \/ CheckpointWritten
         \/ Report \/ Clear \/ Crash
  PROVE  Less(Work(n)', Work(n)) /\ (phase' = phase => UNCHANGED <<disk, mode>>)
<1>0. NamesInv /\ disk \in Disks /\ mode \subseteq ToSet(Order)
  BY DEF NameState, PhaseInv
<1>1. UNCHANGED disk
  BY DEF Setup, SetupFails, AddName, NamesDone, PhaseDone, CheckpointWritten, Report, Clear, Crash
<1>2. phase' = phase => UNCHANGED mode
  BY DEF Setup, SetupFails, AddName, NamesDone, PhaseDone, CheckpointWritten, Report, Clear, Crash
<1>3. CASE Mishap
  BY <1>0, <1>1, <1>2, <1>3, MishapFalls
<1>4. CASE UNCHANGED mishaps
  <2>1. CallsLeft' = CallsLeft
    BY <1>4 DEF CallsLeft
  <2>2. CASE Setup \/ SetupFails \/ Report \/ Clear
    <3>1. \/ phase = "setup" /\ phase' \in {"names", "failed"}
          \/ phase = "report" /\ phase' = "clear"
          \/ phase = "clear" /\ phase' = "done"
      BY <2>2 DEF Setup, SetupFails, Report, Clear
    <3>2. PhasesLeft' < PhasesLeft /\ PhasesLeft > 0
      BY <3>1 DEF PhasesLeft
    <3> QED
      BY <1>1, <1>2, <2>1, <3>2, WorkFalls
  <2>3. CASE AddName
    <3>1. phase = "names" /\ phase' = phase /\ pos <= n /\ pos' = pos + 1
      BY <2>3 DEF AddName
    <3>2. n \in Nat /\ pos \in Nat
      <4>1. Found \in Seq(Found_) /\ pos \in Nat \ {0}
        BY <1>0, <3>1, FoundType DEF NameState, PhaseInv
      <4> HIDE DEF Found
      <4>2. Len(Found) \in Nat
        BY <4>1
      <4> QED
        BY <4>1, <4>2
    <3>3. TurnsLeft(n) = n + 1 - pos /\ TurnsLeft(n)' = n + 1 - pos'
      BY <3>1 DEF TurnsLeft
    <3>4. TurnsLeft(n)' < TurnsLeft(n) /\ TurnsLeft(n) > 0
      BY <3>1, <3>2, <3>3
    <3> QED
      BY <1>1, <1>2, <1>4, <3>1, <3>4, TurnFalls
  <2>4. CASE NamesDone
    <3>1. phase = "names" /\ phase' = After(phase, mode)
      BY <2>4 DEF NamesDone, Enter
    <3> QED
      BY <1>0, <1>1, <1>2, <1>4, <3>1, PhaseFalls
  <2>5. CASE CheckpointWritten
    <3>1. phase \in ToSet(Order) /\ phase' = After(phase, mode)
      BY <2>5 DEF CheckpointWritten, Enter, AnswersInv
    <3> QED
      BY <1>0, <1>1, <1>2, <1>4, <3>1, PhaseFalls
  <2>6. CASE PhaseDone
    <3>1. ~Mishap
      <4>1. mishaps \in Nat
        BY <1>0 DEF NamesInv, NamesTypeOK
      <4> QED
        BY <1>4, <4>1 DEF Mishap
    <3>2. ~saving /\ saving' = TRUE /\ UNCHANGED <<phase, pos, count>>
      BY <2>6, <3>1 DEF PhaseDone
    <3>3. /\ Unsaved = 1 /\ Unsaved' = 0 /\ PhasesLeft' = PhasesLeft
          /\ TurnsLeft(n)' = TurnsLeft(n)
      BY <1>1, <3>2 DEF Unsaved, PhasesLeft, TurnsLeft
    <3> QED
      BY <1>1, <1>2, <2>1, <3>3, WorkFalls
  <2>7. ~Crash
    <3>1. mishaps \in Nat
      BY <1>0 DEF NamesInv, NamesTypeOK
    <3> QED
      BY <1>4, <3>1 DEF Crash, Mishap
  <2> QED
    BY <2>2, <2>3, <2>4, <2>5, <2>6, <2>7
<1>5. Mishap \/ UNCHANGED mishaps
  <2>1. CASE AddName
    BY <2>1 DEF AddName, add_filename_mapping, RefuseName, GrowFails, UpdateName, AppendName
  <2>2. CASE Setup
    BY <2>2 DEF Setup, init_filename_map
  <2>3. CASE SetupFails \/ NamesDone \/ PhaseDone \/ CheckpointWritten \/ Report \/ Clear \/ Crash
    BY <2>3 DEF SetupFails, NamesDone, PhaseDone, CheckpointWritten, Report, Clear, Crash
  <2> QED
    BY <2>1, <2>2, <2>3
<1> QED
  BY <1>3, <1>4, <1>5

\* Every step of every run leaves less to do, in an order in which nothing falls for
\* ever: no orphan chain, tree or list of names on any disk makes the program go round,
\* whatever the bounds are.  (That a step is possible until the run has ended is left to
\* the runs.)
THEOREM RunAdvancesCorrect == Spec => RunAdvances
<1> DEFINE Advance == /\ \E n \in {Len(Found)} : Less(Work(n)', Work(n))
                      /\ phase' = phase => UNCHANGED <<disk, mode>>
<1>1. Init => AnswersInv /\ Rest
  BY InitAnswers, InitRest
<1>2. NameState /\ JournalInv /\ AnswersInv /\ [Next]_vars => AnswersInv'
  BY NextAnswers
<1>3. NameState /\ JournalInv /\ JobInv /\ Rest /\ [Next]_vars => Rest'
  BY NextRest
<1>4. NameState /\ JobInv /\ AnswersInv /\ Rest /\ [Next]_vars => [Advance]_vars
  <2> SUFFICES ASSUME NameState, JobInv, AnswersInv, Rest, Next, vars' # vars
               PROVE  Advance
    BY DEF vars
  <2>1. PICK n : n = Len(Found)
    OBVIOUS
  <2>2. CASE Looping \/ Writing \/ Closing
    <3>1. Less(Work(n)', Work(n))
      BY <2>2, LoopingFalls, WritingFalls, ClosingFalls
    <3>2. UNCHANGED <<disk, mode>>
      BY <2>2, LoopingInside, WritingInside, ClosingInside DEF Inside
    <3> QED
      BY <2>1, <3>1, <3>2
  <2>3. CASE \/ Setup \/ SetupFails \/ AddName \/ NamesDone \/ PhaseDone \/ CheckpointWritten
           \/ Report \/ Clear \/ Crash
    BY <2>1, <2>3, MainFalls
  <2> QED
    BY <2>2, <2>3 DEF Next, Program, Finished
<1>5. RunAdvances <=> [][Advance]_vars
  BY DEF RunAdvances
<1> HIDE DEF Advance
<1> QED
  BY <1>1, <1>2, <1>3, <1>4, <1>5, NameStateInvariant, JournalInvariant, JobInvariant, PTL DEF Spec
=============================================================================
