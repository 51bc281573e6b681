------------------------- MODULE ParallelScanProofs -------------------------
(***************************************************************************)
(* Proofs about ParallelScan for every number of workers, ring slots and   *)
(* blocks, every layout of headers and unreadable blocks.                  *)
(***************************************************************************)
EXTENDS ParallelScan, TLAPS

-----------------------------------------------------------------------------
(* Arithmetic of the ring and of the chunks. *)

\* slot_for_chunk() yields a slot of the ring.
LEMMA SlotForType == \A k \in Nat : SlotFor(k) \in SlotIds
  BY ScanAssumption DEF SlotFor, SlotIds

\* Division with remainder, for the two lemmas on the ring below.
LEMMA DivMod ==
  \A k \in Nat : /\ k = (RingSlots * (k \div RingSlots)) + (k % RingSlots)
                 /\ k \div RingSlots \in Nat
                 /\ k % RingSlots \in 0 .. RingSlots - 1
  BY ScanAssumption

LEMMA MultipleAtLeast ==
  ASSUME NEW q \in Int, NEW r \in Nat \ {0}, q >= 1 PROVE r * q >= r
  OBVIOUS

LEMMA MultipleAtMost ==
  ASSUME NEW q \in Int, NEW r \in Nat \ {0}, q <= 0 PROVE r * q <= 0
  OBVIOUS

\* Two chunks less than a ring apart have different slots.
LEMMA SlotsDiffer ==
  ASSUME NEW a \in Nat, NEW b \in Nat, a < b, b < a + RingSlots
  PROVE  SlotFor(a) # SlotFor(b)
<1> DEFINE q == (b \div RingSlots) - (a \div RingSlots)
<1> SUFFICES ASSUME SlotFor(a) = SlotFor(b) PROVE FALSE
  OBVIOUS
<1>1. b - a = RingSlots * (b \div RingSlots) - RingSlots * (a \div RingSlots)
  BY DivMod, ScanAssumption DEF SlotFor
<1>2. q \in Int
  BY DivMod
<1>3. b - a = RingSlots * q
  BY <1>1, DivMod, ScanAssumption
<1>4. CASE q >= 1
  BY <1>2, <1>3, <1>4, MultipleAtLeast, ScanAssumption
<1>5. CASE q <= 0
  BY <1>2, <1>3, <1>5, MultipleAtMost, ScanAssumption
<1> QED
  BY <1>2, <1>4, <1>5

\* A chunk a whole ring later falls on the same slot.
LEMMA SlotWraps ==
  ASSUME NEW a \in Nat PROVE SlotFor(a + RingSlots) = SlotFor(a)
<1> DEFINE c == a + RingSlots
           q == (c \div RingSlots) - (a \div RingSlots) - 1
           d == (a % RingSlots) - (c % RingSlots)
<1>1. c \in Nat /\ RingSlots \in Nat \ {0}
  BY ScanAssumption
<1>2. /\ a = (RingSlots * (a \div RingSlots)) + (a % RingSlots)
      /\ a \div RingSlots \in Nat
      /\ a % RingSlots \in 0 .. RingSlots - 1
  BY DivMod
<1>3. /\ c = (RingSlots * (c \div RingSlots)) + (c % RingSlots)
      /\ c \div RingSlots \in Nat
      /\ c % RingSlots \in 0 .. RingSlots - 1
  BY DivMod, <1>1
<1>4. q \in Int
  BY <1>2, <1>3
<1>5. d = RingSlots * q
  BY <1>1, <1>2, <1>3
<1>6. d < RingSlots /\ d + RingSlots > 0 /\ d \in Int
  BY <1>1, <1>2, <1>3
<1>7. ~(q >= 1)
  BY <1>1, <1>4, <1>5, <1>6, MultipleAtLeast
<1>8. ~(q + 1 <= 0)
  <2> SUFFICES ASSUME q + 1 <= 0 PROVE FALSE
    OBVIOUS
  <2>1. RingSlots * (q + 1) <= 0
    BY <1>1, <1>4, MultipleAtMost
  <2>2. d + RingSlots <= 0
    BY <2>1, <1>1, <1>4, <1>5
  <2> QED
    BY <2>2, <1>1, <1>6
<1> HIDE DEF q
<1>9. q = 0
  BY <1>4, <1>7, <1>8
<1>10. d = 0
  BY <1>1, <1>5, <1>9
<1> QED
  BY <1>2, <1>3, <1>10 DEF SlotFor

\* Chunks are contiguous.
LEMMA ChunkStep ==
  \A k \in Nat : /\ ChunkStart(k) \in Nat
                 /\ ChunkStart(k + 1) = ChunkStart(k) + ChunkBlocks
  BY ScanAssumption DEF ChunkStart

\* A later chunk starts after an earlier one has ended.
LEMMA ChunkOrder ==
  ASSUME NEW j \in Nat, NEW k \in Nat, j < k
  PROVE  ChunkStart(j) + ChunkBlocks <= ChunkStart(k)
<1>1. PICK d \in Nat : k = j + 1 + d
  <2> WITNESS k - j - 1 \in Nat
  <2> QED
    OBVIOUS
<1>2. k * ChunkBlocks = j * ChunkBlocks + ChunkBlocks + d * ChunkBlocks
  BY <1>1, ScanAssumption
<1>3. d * ChunkBlocks >= 0
  BY <1>1, ScanAssumption
<1> QED
  BY <1>2, <1>3, ScanAssumption DEF ChunkStart

-----------------------------------------------------------------------------
(* Type correctness. *)

LEMMA EmptyHits == << >> \in HitSeqs
  BY DEF HitSeqs

LEMMA TypeOKInit == Init => TypeOK
<1> SUFFICES ASSUME Init PROVE TypeOK
  OBVIOUS
<1>1. slot \in [SlotIds -> SlotRecords]
  BY EmptyHits DEF Init, SlotRecords
<1>2. waiting \subseteq Threads /\ recovered \subseteq Headers
  BY DEF Init
<1>3. totalChunks \in Nat \cup {-1} /\ cur \in Start .. End /\ pos \in Nat
  BY ScanAssumption DEF Init
<1>4. /\ wpc \in [Workers -> {"none", "claim", "lock", "scan", "exit"}]
      /\ mine \in [Workers -> Nat] /\ wblk \in [Workers -> Nat]
  BY DEF Init
<1>5. /\ rpc \in {"none", "read", "done", "bcast", "end"}
      /\ rchunk \in Nat /\ bcast \in 0 .. RingSlots
      /\ rpc = "bcast" => bcast < RingSlots
  BY ScanAssumption DEF Init
<1>6. /\ nextRead \in Nat /\ nextWrite \in Nat /\ readerDone \in BOOLEAN
  BY DEF Init
<1>7. /\ xpc \in {"setup", "failed", "gate", "lock", "dump", "advance", "join",
                "return"}
      /\ want \in Nat /\ h \in Nat \ {0}
  BY DEF Init
<1>8. xhits \in HitSeqs /\ dumped \in HitSeqs
  BY EmptyHits DEF Init
<1> QED
  BY <1>1, <1>2, <1>3, <1>4, <1>5, <1>6, <1>7, <1>8 DEF TypeOK

LEMMA TypeOKNext == TypeOK /\ [Next]_vars => TypeOK'
<1> SUFFICES ASSUME TypeOK, [Next]_vars PROVE TypeOK'
  OBVIOUS
<1> USE DEF TypeOK, gate, reader, worker, writer, output
<1>1. CASE ReaderWait
  BY <1>1 DEF ReaderWait, Threads
<1>2. CASE ReaderFill
  <2> DEFINE len == IF cur + ChunkBlocks > End THEN End - cur ELSE ChunkBlocks
  <2>1. len \in Nat /\ cur + len \in Start .. End
    BY <1>2, ScanAssumption DEF ReaderFill
  <2>2. PICK m \in 0 .. len :
          slot' = [slot EXCEPT ![SlotFor(rchunk)] =
                     [state |-> "FILLED", chunk |-> rchunk,
                      start |-> cur, n |-> m, hits |-> << >>]]
    BY <1>2 DEF ReaderFill
  <2>3. [state |-> "FILLED", chunk |-> rchunk, start |-> cur, n |-> m,
         hits |-> << >>] \in SlotRecords
    BY <2>1, <2>2, EmptyHits, ScanAssumption DEF SlotRecords
  <2>4. slot' \in [SlotIds -> SlotRecords]
    BY <2>2, <2>3, SlotForType
  <2> QED
    BY <1>2, <2>1, <2>4, ScanAssumption DEF ReaderFill, Broadcast
<1>3. CASE ReaderTotal
  BY <1>3 DEF ReaderTotal
<1>4. CASE ReaderDone
  BY <1>4, ScanAssumption DEF ReaderDone
<1>5. CASE ReaderBroadcast
  BY <1>5, ScanAssumption DEF ReaderBroadcast, Broadcast
<1>6. ASSUME NEW w \in Workers, WorkerStep(w) PROVE TypeOK'
  <2>1. CASE WorkerClaim(w)
    BY <2>1 DEF WorkerClaim
  <2>2. CASE WorkerWait(w)
    BY <2>2 DEF WorkerWait, Threads
  <2>3. CASE WorkerBail(w)
    BY <2>3 DEF WorkerBail
  <2>4. CASE WorkerTake(w)
    BY <2>4, SlotForType DEF WorkerTake, SlotRecords
  <2>5. CASE WorkerScan(w)
    <3> DEFINE i == SlotFor(mine[w])
               b == slot[i].start + wblk[w]
    <3>1. i \in SlotIds /\ slot[i] \in SlotRecords
      BY SlotForType DEF SlotRecords
    <3>2. b \in Headers => Append(slot[i].hits, b) \in HitSeqs
      BY <3>1 DEF SlotRecords, HitSeqs
    <3>3. slot' \in [SlotIds -> SlotRecords]
      BY <2>5, <3>1, <3>2 DEF WorkerScan, SlotRecords
    <3>4. wblk' \in [Workers -> Nat]
      BY <2>5 DEF WorkerScan
    <3>5. UNCHANGED <<gate, waiting, reader, wpc, mine, writer, output>>
      BY <2>5 DEF WorkerScan
    <3> QED
      BY <3>3, <3>4, <3>5
  <2>6. CASE WorkerFinish(w)
    BY <2>6, SlotForType DEF WorkerFinish, SlotRecords, Broadcast
  <2> QED
    BY <1>6, <2>1, <2>2, <2>3, <2>4, <2>5, <2>6 DEF WorkerStep
<1>7. CASE Launch
  BY <1>7 DEF Launch
<1>8. CASE SetupFails
  BY <1>8 DEF SetupFails
<1>9. CASE WriterGate
  BY <1>9 DEF WriterGate
<1>10. CASE WriterWait \/ WriterQuit
  BY <1>10 DEF WriterWait, WriterQuit, Threads
<1>11. CASE WriterTake
  <2>1. SlotFor(want) \in SlotIds /\ slot[SlotFor(want)] \in SlotRecords
    BY SlotForType
  <2>2. xhits' \in HitSeqs
    BY <1>11, <2>1 DEF WriterTake, SlotRecords
  <2>3. slot' \in [SlotIds -> SlotRecords]
    BY <1>11, <2>1, EmptyHits DEF WriterTake, SlotRecords
  <2> QED
    BY <1>11, <2>2, <2>3 DEF WriterTake
<1>12. CASE WriterDump
  <2>1. xhits[h] \in Headers
    BY <1>12 DEF WriterDump, HitSeqs
  <2>2. xhits[h] + 1 \in Nat /\ Marks[xhits[h]] \subseteq Headers
    BY <2>1, ScanAssumption
  <2>3. recovered' \subseteq Headers
    BY <1>12, <2>2 DEF WriterDump
  <2>4. Append(dumped, xhits[h]) \in HitSeqs
    BY <2>1 DEF HitSeqs
  <2>5. dumped' \in HitSeqs
    BY <1>12, <2>4 DEF WriterDump
  <2> QED
    BY <1>12, <2>2, <2>3, <2>5 DEF WriterDump
<1>13. CASE WriterRecycle
  BY <1>13, SlotForType DEF WriterRecycle, SlotRecords, Broadcast
<1>14. CASE WriterAdvance
  BY <1>14 DEF WriterAdvance
<1>17. CASE Join
  BY <1>17 DEF Join
<1>15. CASE \E t \in Threads : SpuriousWakeup(t)
  BY <1>15 DEF SpuriousWakeup
<1>16. CASE UNCHANGED vars
  BY <1>16 DEF vars
<1> QED
  BY <1>1, <1>2, <1>3, <1>4, <1>5, <1>6, <1>7, <1>8, <1>9, <1>10, <1>11, <1>12,
     <1>13, <1>14, <1>15, <1>16, <1>17
     DEF Next, ReaderStep, WriterStep, Returned

\* Every behaviour of the pipeline keeps its state within its types: the
\* reader stays in the range, the broadcast loop within the ring.
THEOREM TypeCorrect == Spec => []TypeOK
  BY TypeOKInit, TypeOKNext, PTL DEF Spec

-----------------------------------------------------------------------------
(* The inductive invariant, part by part. *)

\* All steps but the reader's fill and the writer's recycle leave the window
\* of chunks in flight, and what the slots say about them, alone.
LEMMA QuietStep ==
  ASSUME TypeOK, WriterInv, SlotOwnership, [Next]_vars, ~ReaderFill,
         ~WriterRecycle
  PROVE  /\ rchunk' = rchunk /\ cur' = cur /\ Drained' = Drained
         /\ \A i \in SlotIds :
              /\ slot'[i].chunk = slot[i].chunk
              /\ slot'[i].start = slot[i].start
              /\ slot'[i].n = slot[i].n
              /\ slot'[i].state = "EMPTY" <=> slot[i].state = "EMPTY"
<1> USE DEF gate, reader, worker, writer, output
<1> DEFINE Goal == /\ rchunk' = rchunk /\ cur' = cur /\ Drained' = Drained
                   /\ \A i \in SlotIds :
                        /\ slot'[i].chunk = slot[i].chunk
                        /\ slot'[i].start = slot[i].start
                        /\ slot'[i].n = slot[i].n
                        /\ slot'[i].state = "EMPTY" <=> slot[i].state = "EMPTY"
<1>1. CASE ReaderWait \/ ReaderTotal \/ ReaderDone \/ ReaderBroadcast
  BY <1>1 DEF ReaderWait, ReaderTotal, ReaderDone, ReaderBroadcast, Drained
<1>2. ASSUME NEW w \in Workers, WorkerStep(w) PROVE Goal
  <2> SUFFICES ASSUME NEW i \in SlotIds
               PROVE  /\ rchunk' = rchunk /\ cur' = cur /\ Drained' = Drained
                      /\ slot'[i].chunk = slot[i].chunk
                      /\ slot'[i].start = slot[i].start
                      /\ slot'[i].n = slot[i].n
                      /\ slot'[i].state = "EMPTY" <=> slot[i].state = "EMPTY"
    BY SlotForType DEF SlotIds
  <2>0. slot[i] \in SlotRecords /\ slot[SlotFor(mine[w])] \in SlotRecords
    BY SlotForType DEF TypeOK
  <2>1. CASE WorkerClaim(w) \/ WorkerWait(w) \/ WorkerBail(w)
    BY <2>1 DEF WorkerClaim, WorkerWait, WorkerBail, Drained
  <2>2. CASE WorkerTake(w)
    BY <2>0, <2>2 DEF WorkerTake, Ready, Drained, TypeOK, SlotRecords
  <2>3. CASE WorkerScan(w)
    BY <2>0, <2>3 DEF WorkerScan, Drained, TypeOK, SlotRecords
  <2>4. CASE WorkerFinish(w)
    BY <2>0, <2>4 DEF WorkerFinish, Drained, TypeOK, SlotRecords, SlotOwnership
  <2> QED
    BY <1>2, <2>1, <2>2, <2>3, <2>4 DEF WorkerStep
<1>3. CASE Launch \/ SetupFails \/ WriterGate \/ WriterWait \/ WriterQuit
  BY <1>3 DEF Launch, SetupFails, WriterGate, WriterWait, WriterQuit, Drained,
              WriterInv
<1>4. CASE WriterTake
  BY <1>4 DEF WriterTake, Drained, TypeOK, SlotRecords
<1>5. CASE WriterDump \/ Join
  BY <1>5 DEF WriterDump, Join, Drained
<1>6. CASE WriterAdvance
  BY <1>6 DEF WriterAdvance, Drained, WriterInv
<1>7. CASE \E t \in Threads : SpuriousWakeup(t)
  BY <1>7 DEF SpuriousWakeup, Drained
<1>8. CASE UNCHANGED vars
  BY <1>8 DEF vars, Drained
<1> QED
  BY <1>1, <1>2, <1>3, <1>4, <1>5, <1>6, <1>7, <1>8
     DEF Next, ReaderStep, WriterStep, Returned

\* The chunks in flight after the reader has filled a slot.
LEMMA FillStep ==
  ASSUME TypeOK, RingWindow, ReaderInv, ReaderFill
  PROVE  /\ rchunk' = rchunk + 1 /\ Drained' = Drained
         /\ rchunk < Drained + RingSlots
         /\ Drained \in Nat /\ rchunk \in Nat
         /\ \A i \in SlotIds : i # SlotFor(rchunk) => slot'[i] = slot[i]
         /\ slot'[SlotFor(rchunk)].state = "FILLED"
         /\ slot'[SlotFor(rchunk)].chunk = rchunk
         /\ slot'[SlotFor(rchunk)].start = ChunkStart(rchunk)
         /\ slot'[SlotFor(rchunk)].hits = << >>
         /\ slot[SlotFor(rchunk)].state = "EMPTY"
<1> USE DEF gate, reader, worker, writer, output
<1>1. Drained \in Nat /\ rchunk \in Nat /\ SlotFor(rchunk) \in SlotIds
  BY SlotForType DEF Drained, TypeOK
<1>2. rchunk < Drained + RingSlots
  <2> SUFFICES ASSUME rchunk = Drained + RingSlots PROVE FALSE
    BY <1>1, ScanAssumption DEF RingWindow
  <2>1. SlotFor(rchunk) = SlotFor(Drained)
    BY <1>1, SlotWraps
  <2>2. Drained \in Drained .. rchunk - 1
    BY <1>1, ScanAssumption
  <2> QED
    BY <2>1, <2>2 DEF RingWindow, ReaderFill
<1>3. cur = ChunkStart(rchunk)
  BY DEF ReaderFill, ReaderInv
<1>4. PICK m : slot' = [slot EXCEPT ![SlotFor(rchunk)] =
                          [state |-> "FILLED", chunk |-> rchunk,
                           start |-> cur, n |-> m, hits |-> << >>]]
  BY DEF ReaderFill
<1>5. slot \in [SlotIds -> SlotRecords]
  BY DEF TypeOK
<1> QED
  BY <1>1, <1>2, <1>3, <1>4, <1>5 DEF ReaderFill, Drained

\* The chunks in flight after the writer has recycled a slot.
LEMMA RecycleStep ==
  ASSUME TypeOK, RingWindow, SlotOwnership, WriterInv, WriterRecycle
  PROVE  /\ rchunk' = rchunk /\ cur' = cur
         /\ Drained \in Nat /\ Drained = want /\ Drained' = Drained + 1
         /\ slot[SlotFor(want)].state = "DONE"
         /\ slot[SlotFor(want)].chunk = want
         /\ want < rchunk
         /\ slot'[SlotFor(want)].state = "EMPTY"
         /\ \A i \in SlotIds : i # SlotFor(want) => slot'[i] = slot[i]
<1> USE DEF gate, reader, worker, writer, output
<1>1. want \in Nat /\ SlotFor(want) \in SlotIds /\ want = nextWrite
  BY SlotForType DEF TypeOK, WriterRecycle, WriterInv
<1>2. slot[SlotFor(want)].state = "DONE" /\ slot[SlotFor(want)].chunk = want
  BY DEF SlotOwnership, WriterRecycle
<1>3. Drained = want /\ Drained' = Drained + 1
  BY <1>1 DEF Drained, WriterRecycle
<1>4. want < rchunk
  BY <1>1, <1>2 DEF RingWindow, TypeOK
<1>5. slot \in [SlotIds -> SlotRecords]
  BY DEF TypeOK
<1>6. /\ slot'[SlotFor(want)].state = "EMPTY"
      /\ \A i \in SlotIds : i # SlotFor(want) => slot'[i] = slot[i]
  BY <1>1, <1>5 DEF WriterRecycle, SlotRecords
<1> QED
  BY <1>1, <1>2, <1>3, <1>4, <1>6 DEF WriterRecycle

LEMMA RingWindowNext ==
  ASSUME TypeOK, TypeOK', RingWindow, SlotOwnership, ReaderInv, WriterInv,
         [Next]_vars
  PROVE  RingWindow'
<1>1. CASE ReaderFill
  <2>1. SlotFor(rchunk) \in SlotIds /\ (\A k \in Nat : SlotFor(k) \in SlotIds)
    BY SlotForType DEF TypeOK
  <2>2. ASSUME NEW k \in Drained' .. rchunk' - 1
        PROVE  slot'[SlotFor(k)].state # "EMPTY" /\ slot'[SlotFor(k)].chunk = k
    <3>1. CASE k = rchunk
      BY <3>1, <1>1, FillStep
    <3>2. CASE k # rchunk
      <4>1. k \in Drained .. rchunk - 1 /\ k \in Nat
        BY <3>2, <1>1, FillStep
      <4>2. SlotFor(k) # SlotFor(rchunk) /\ SlotFor(k) \in SlotIds
        BY <4>1, <2>1, <1>1, FillStep DEF RingWindow
      <4> QED
        BY <4>1, <4>2, <1>1, FillStep DEF RingWindow
    <3> QED
      BY <3>1, <3>2
  <2>3. ASSUME NEW i \in SlotIds, slot'[i].state # "EMPTY"
        PROVE  /\ slot'[i].chunk \in Drained' .. rchunk' - 1
               /\ SlotFor(slot'[i].chunk) = i
    <3>1. CASE i = SlotFor(rchunk)
      BY <3>1, <1>1, FillStep DEF RingWindow
    <3>2. CASE i # SlotFor(rchunk)
      BY <3>2, <2>3, <1>1, FillStep DEF RingWindow
    <3> QED
      BY <3>1, <3>2
  <2>4. Drained' <= rchunk' /\ rchunk' <= Drained' + RingSlots
    BY <1>1, FillStep, ScanAssumption DEF RingWindow
  <2> QED
    BY <2>2, <2>3, <2>4 DEF RingWindow
<1>2. CASE WriterRecycle
  <2>1. ASSUME NEW k \in Drained' .. rchunk' - 1
        PROVE  slot'[SlotFor(k)].state # "EMPTY" /\ slot'[SlotFor(k)].chunk = k
    <3>1. k \in Drained .. rchunk - 1 /\ k \in Nat /\ want < k
               /\ k < want + RingSlots /\ want \in Nat
      <4>1. /\ want \in Nat /\ rchunk \in Nat /\ RingSlots \in Nat
            /\ Drained = want /\ Drained' = want + 1 /\ rchunk' = rchunk
        BY <1>2, RecycleStep, ScanAssumption DEF TypeOK
      <4>2. rchunk <= want + RingSlots
        BY <4>1 DEF RingWindow
      <4> QED
        BY <4>1, <4>2
    <3>2. SlotFor(k) # SlotFor(want) /\ SlotFor(k) \in SlotIds
      BY <3>1, SlotsDiffer, SlotForType
    <3> QED
      BY <3>1, <3>2, <1>2, RecycleStep DEF RingWindow
  <2>2. ASSUME NEW i \in SlotIds, slot'[i].state # "EMPTY"
        PROVE  /\ slot'[i].chunk \in Drained' .. rchunk' - 1
               /\ SlotFor(slot'[i].chunk) = i
    <3>1. i # SlotFor(want) /\ slot'[i] = slot[i]
      BY <2>2, <1>2, RecycleStep
    <3>2. /\ slot[i].chunk \in Drained .. rchunk - 1
          /\ SlotFor(slot[i].chunk) = i
      BY <3>1, <2>2 DEF RingWindow
    <3>3. slot[i].chunk # want
      BY <3>1, <3>2
    <3>4. slot[i].chunk \in Drained + 1 .. rchunk - 1
      <4>1. Drained \in Nat /\ Drained = want /\ rchunk \in Nat
        BY <1>2, RecycleStep DEF TypeOK
      <4> QED
        BY <4>1, <3>2, <3>3
    <3>5. Drained' = Drained + 1 /\ rchunk' = rchunk
      BY <1>2, RecycleStep
    <3> QED
      BY <3>1, <3>2, <3>4, <3>5
  <2>3. Drained' <= rchunk' /\ rchunk' <= Drained' + RingSlots
    BY <1>2, RecycleStep, ScanAssumption DEF RingWindow, TypeOK
  <2> QED
    BY <2>1, <2>2, <2>3 DEF RingWindow
<1>3. CASE ~ReaderFill /\ ~WriterRecycle
  <2>1. Drained \in Nat /\ rchunk \in Nat
    BY DEF TypeOK, Drained
  <2>2. \A k \in Drained .. rchunk - 1 : SlotFor(k) \in SlotIds
    BY <2>1, SlotForType
  <2> QED
    BY <1>3, <2>2, QuietStep DEF RingWindow
<1> QED
  BY <1>1, <1>2, <1>3

\* What the steps that write a slot do to it and to the other slots.
LEMMA TakeStep ==
  ASSUME TypeOK, NEW w \in Workers, WorkerTake(w)
  PROVE  /\ mine[w] \in Nat /\ SlotFor(mine[w]) \in SlotIds
         /\ slot[SlotFor(mine[w])].state = "FILLED"
         /\ slot[SlotFor(mine[w])].chunk = mine[w]
         /\ slot'[SlotFor(mine[w])].state = "PROCESSING"
         /\ slot'[SlotFor(mine[w])].hits = slot[SlotFor(mine[w])].hits
         /\ slot'[SlotFor(mine[w])].start = slot[SlotFor(mine[w])].start
         /\ slot'[SlotFor(mine[w])].n = slot[SlotFor(mine[w])].n
         /\ slot'[SlotFor(mine[w])].chunk = mine[w]
         /\ \A i \in SlotIds : i # SlotFor(mine[w]) => slot'[i] = slot[i]
         /\ wpc' = [wpc EXCEPT ![w] = "scan"] /\ wblk' = [wblk EXCEPT ![w] = 0]
         /\ UNCHANGED <<gate, waiting, reader, mine, writer, output>>
<1>1. mine[w] \in Nat /\ SlotFor(mine[w]) \in SlotIds
  BY SlotForType DEF TypeOK
<1>2. slot \in [SlotIds -> SlotRecords] /\ slot[SlotFor(mine[w])] \in SlotRecords
  BY <1>1 DEF TypeOK
<1> QED
  BY <1>1, <1>2 DEF WorkerTake, Ready, SlotRecords

LEMMA ScanStep ==
  ASSUME TypeOK, NEW w \in Workers, WorkerScan(w)
  PROVE  LET i == SlotFor(mine[w])
             b == slot[i].start + wblk[w]
         IN /\ mine[w] \in Nat /\ i \in SlotIds /\ b \in Nat
            /\ wblk[w] < slot[i].n
            /\ slot'[i].state = slot[i].state /\ slot'[i].chunk = slot[i].chunk
            /\ slot'[i].start = slot[i].start /\ slot'[i].n = slot[i].n
            /\ slot'[i].hits = IF b \in Headers THEN Append(slot[i].hits, b)
                                              ELSE slot[i].hits
            /\ \A j \in SlotIds : j # i => slot'[j] = slot[j]
            /\ wpc[w] = "scan" /\ wblk' = [wblk EXCEPT ![w] = @ + 1]
            /\ UNCHANGED <<gate, waiting, reader, wpc, mine, writer, output>>
<1>1. mine[w] \in Nat /\ SlotFor(mine[w]) \in SlotIds
  BY SlotForType DEF TypeOK
<1>2. slot \in [SlotIds -> SlotRecords] /\ slot[SlotFor(mine[w])] \in SlotRecords
      /\ wblk[w] \in Nat
  BY <1>1 DEF TypeOK
<1> QED
  BY <1>1, <1>2 DEF WorkerScan, SlotRecords

LEMMA FinishStep ==
  ASSUME TypeOK, SlotOwnership, NEW w \in Workers, WorkerFinish(w)
  PROVE  LET i == SlotFor(mine[w])
         IN /\ mine[w] \in Nat /\ i \in SlotIds
            /\ wpc[w] = "scan" /\ wblk[w] >= slot[i].n
            /\ slot[i].state = "PROCESSING" /\ slot[i].chunk = mine[w]
            /\ slot'[i].state = "DONE" /\ slot'[i].chunk = mine[w]
            /\ slot'[i].hits = slot[i].hits
            /\ slot'[i].start = slot[i].start /\ slot'[i].n = slot[i].n
            /\ \A j \in SlotIds : j # i => slot'[j] = slot[j]
            /\ wpc' = [wpc EXCEPT ![w] = "claim"]
            /\ UNCHANGED <<gate, reader, mine, wblk, writer, output>>
<1>1. mine[w] \in Nat /\ SlotFor(mine[w]) \in SlotIds
  BY SlotForType DEF TypeOK
<1>2. slot \in [SlotIds -> SlotRecords] /\ slot[SlotFor(mine[w])] \in SlotRecords
  BY <1>1 DEF TypeOK
<1>3. slot[SlotFor(mine[w])].state = "PROCESSING"
      /\ slot[SlotFor(mine[w])].chunk = mine[w]
  BY DEF SlotOwnership, WorkerFinish
<1> QED
  BY <1>1, <1>2, <1>3 DEF WorkerFinish, SlotRecords

LEMMA WriterTakeStep ==
  ASSUME TypeOK, WriterTake
  PROVE  /\ want \in Nat /\ SlotFor(want) \in SlotIds
         /\ slot[SlotFor(want)].state = "DONE" /\ slot[SlotFor(want)].chunk = want
         /\ slot'[SlotFor(want)].state = "DONE"
         /\ slot'[SlotFor(want)].chunk = want
         /\ slot'[SlotFor(want)].start = slot[SlotFor(want)].start
         /\ slot'[SlotFor(want)].n = slot[SlotFor(want)].n
         /\ xhits' = slot[SlotFor(want)].hits /\ h' = 1
         /\ \A j \in SlotIds : j # SlotFor(want) => slot'[j] = slot[j]
         /\ xpc = "lock" /\ xpc' = "dump"
         /\ UNCHANGED <<gate, waiting, reader, worker, want, output>>
<1>1. want \in Nat /\ SlotFor(want) \in SlotIds
  BY SlotForType DEF TypeOK
<1>2. slot \in [SlotIds -> SlotRecords] /\ slot[SlotFor(want)] \in SlotRecords
  BY <1>1 DEF TypeOK
<1> QED
  BY <1>1, <1>2 DEF WriterTake, Finished, SlotRecords

\* A step that writes a slot.
SlotWrite == \/ ReaderFill \/ WriterTake \/ WriterRecycle
             \/ \E w \in Workers : WorkerTake(w) \/ WorkerScan(w) \/ WorkerFinish(w)

\* Every other step leaves the ring alone.
LEMMA OtherStep ==
  ASSUME [Next]_vars, ~SlotWrite PROVE slot' = slot
  BY DEF SlotWrite, Next, vars, ReaderStep, WriterStep, WorkerStep, Returned,
         ReaderWait, ReaderTotal, ReaderDone, ReaderBroadcast, WorkerClaim,
         WorkerWait, WorkerBail, Launch, SetupFails, WriterGate, WriterWait,
         WriterQuit, WriterDump, WriterAdvance, Join, SpuriousWakeup

LEMMA SlotOwnershipNext ==
  ASSUME TypeOK, TypeOK', RingWindow, SlotOwnership, ReaderInv, ClaimInv,
         WriterInv, [Next]_vars
  PROVE  SlotOwnership'
<1> USE DEF gate, reader, worker, writer, output
<1>0. /\ \A w \in Workers : mine[w] \in Nat /\ SlotFor(mine[w]) \in SlotIds
      /\ want \in Nat /\ SlotFor(want) \in SlotIds
  BY SlotForType DEF TypeOK
<1>1. CASE ReaderFill
  <2>1. UNCHANGED <<wpc, mine, xpc, want>>
    BY <1>1 DEF ReaderFill
  <2> QED
    BY <1>0, <1>1, <2>1, FillStep DEF SlotOwnership
<1>2. CASE WriterRecycle
  <2>1. UNCHANGED <<wpc, mine, want>> /\ xpc' = "advance"
    BY <1>2 DEF WriterRecycle
  <2> QED
    BY <1>0, <1>2, <2>1, RecycleStep DEF SlotOwnership
<1>3. CASE WriterTake
  BY <1>0, <1>3, WriterTakeStep DEF SlotOwnership
<1>4. ASSUME NEW w \in Workers, WorkerTake(w) PROVE SlotOwnership'
  <2>1. ASSUME NEW v \in Workers, wpc'[v] = "scan"
        PROVE  /\ slot'[SlotFor(mine'[v])].state = "PROCESSING"
               /\ slot'[SlotFor(mine'[v])].chunk = mine'[v]
    BY <1>0, <1>4, <2>1, TakeStep DEF SlotOwnership, TypeOK
  <2>2. wpc[w] = "lock"
    BY <1>4 DEF WorkerTake
  <2>3. ASSUME NEW u \in Workers, NEW v \in Workers, u # v,
               {wpc'[u], wpc'[v]} \subseteq {"lock", "scan"}
        PROVE  mine'[u] # mine'[v]
    BY <1>4, <2>2, <2>3, TakeStep DEF SlotOwnership, TypeOK
  <2>4. xpc' = "dump" => /\ slot'[SlotFor(want')].state = "DONE"
                         /\ slot'[SlotFor(want')].chunk = want'
    BY <1>0, <1>4, TakeStep DEF SlotOwnership
  <2> QED
    BY <2>1, <2>3, <2>4 DEF SlotOwnership
<1>5. ASSUME NEW w \in Workers, WorkerScan(w) PROVE SlotOwnership'
  BY <1>0, <1>5, ScanStep DEF SlotOwnership
<1>6. ASSUME NEW w \in Workers, WorkerFinish(w) PROVE SlotOwnership'
  <2>1. ASSUME NEW v \in Workers, wpc'[v] = "scan"
        PROVE  /\ slot'[SlotFor(mine'[v])].state = "PROCESSING"
               /\ slot'[SlotFor(mine'[v])].chunk = mine'[v]
    <3>1. v # w /\ wpc[v] = "scan" /\ mine' = mine
      BY <1>6, <2>1, FinishStep DEF TypeOK
    <3>2. mine[v] # mine[w]
      BY <1>6, <3>1, FinishStep DEF SlotOwnership
    <3>3. SlotFor(mine[v]) # SlotFor(mine[w])
      BY <1>6, <3>1, <3>2, FinishStep DEF SlotOwnership
    <3> QED
      BY <1>0, <1>6, <3>1, <3>3, FinishStep DEF SlotOwnership
  <2>2. ASSUME NEW u \in Workers, NEW v \in Workers, u # v,
               {wpc'[u], wpc'[v]} \subseteq {"lock", "scan"}
        PROVE  mine'[u] # mine'[v]
    BY <1>6, <2>2, FinishStep DEF SlotOwnership, TypeOK
  <2>3. xpc' = "dump" => /\ slot'[SlotFor(want')].state = "DONE"
                         /\ slot'[SlotFor(want')].chunk = want'
    BY <1>0, <1>6, FinishStep DEF SlotOwnership
  <2> QED
    BY <2>1, <2>2, <2>3 DEF SlotOwnership
<1>7. CASE ~SlotWrite
  <2>0. slot' = slot
    BY <1>7, OtherStep
  <2>1. ASSUME NEW w \in Workers, WorkerClaim(w) PROVE SlotOwnership'
    BY <2>0, <2>1 DEF WorkerClaim, SlotOwnership, ClaimInv, TypeOK
  <2>2. ASSUME NEW w \in Workers, WorkerWait(w) \/ WorkerBail(w)
        PROVE  SlotOwnership'
    BY <2>0, <2>2 DEF WorkerWait, WorkerBail, SlotOwnership, TypeOK
  <2>3. CASE UNCHANGED <<worker, xpc, want>>
    BY <2>0, <2>3 DEF SlotOwnership
  <2>4. CASE WriterGate \/ WriterQuit \/ WriterAdvance \/ Join \/ SetupFails
    BY <2>0, <2>4 DEF WriterGate, WriterQuit, WriterAdvance, Join, SetupFails,
                      SlotOwnership
  <2>5. CASE Launch
    BY <2>0, <2>5 DEF Launch, SlotOwnership
  <2> QED
    BY <1>7, <2>1, <2>2, <2>3, <2>4, <2>5
       DEF SlotWrite, Next, vars, ReaderStep, WriterStep, WorkerStep, Returned,
           ReaderWait, ReaderTotal, ReaderDone, ReaderBroadcast, WriterWait,
           WriterDump, SpuriousWakeup
<1> QED
  BY <1>1, <1>2, <1>3, <1>4, <1>5, <1>6, <1>7 DEF SlotWrite

LEMMA ReaderInvNext ==
  ASSUME TypeOK, ReaderInv, [Next]_vars PROVE ReaderInv'
<1> USE DEF gate, reader, worker, writer, output
<1>1. CASE ReaderFill
  <2> DEFINE len == IF cur + ChunkBlocks > End THEN End - cur ELSE ChunkBlocks
  <2>1. /\ cur' = cur + len /\ rchunk' = rchunk + 1 /\ rpc' = "read"
        /\ cur = ChunkStart(rchunk) /\ UNCHANGED <<gate, xpc>> /\ rpc = "read"
    BY <1>1 DEF ReaderFill, ReaderInv
  <2>2. /\ ChunkStart(rchunk + 1) = ChunkStart(rchunk) + ChunkBlocks
        /\ ChunkStart(rchunk) \in Nat /\ ChunkBlocks \in Nat /\ End \in Nat
    BY ChunkStep, ScanAssumption DEF TypeOK
  <2>3. /\ cur' < End => cur' = ChunkStart(rchunk')
        /\ cur' >= End => ChunkStart(rchunk') >= End
    BY <2>1, <2>2
  <2> QED
    BY <2>1, <2>3 DEF ReaderInv
<1>2. CASE ReaderTotal \/ ReaderDone \/ ReaderBroadcast
  BY <1>2 DEF ReaderTotal, ReaderDone, ReaderBroadcast, ReaderInv, TypeOK
<1>3. CASE Launch
  BY <1>3 DEF Launch, ReaderInv
<1>4. CASE UNCHANGED <<reader, totalChunks, readerDone>> /\ xpc' # "setup"
  BY <1>4 DEF ReaderInv
<1>5. CASE UNCHANGED <<reader, totalChunks, readerDone, xpc>>
  BY <1>5 DEF ReaderInv
<1> QED
  BY <1>1, <1>2, <1>3, <1>4, <1>5
     DEF Next, vars, ReaderStep, WriterStep, WorkerStep, Returned,
         ReaderWait, WorkerClaim, WorkerWait, WorkerBail, WorkerTake, WorkerScan,
         WorkerFinish, SetupFails, WriterGate, WriterWait, WriterQuit, WriterTake,
         WriterDump, WriterRecycle, WriterAdvance, Join, SpuriousWakeup

LEMMA ClaimInvNext ==
  ASSUME TypeOK, TypeOK', RingWindow, SlotOwnership, ReaderInv, ClaimInv,
         WriterInv, [Next]_vars
  PROVE  ClaimInv'
<1> USE DEF gate, reader, worker, writer, output
<1>0. /\ \A w \in Workers : mine[w] \in Nat /\ SlotFor(mine[w]) \in SlotIds
      /\ want \in Nat /\ SlotFor(want) \in SlotIds
      /\ Drained \in Nat /\ rchunk \in Nat /\ nextRead \in Nat
  BY SlotForType DEF TypeOK, Drained
<1>1. CASE ReaderFill
  <2>1. UNCHANGED <<wpc, mine, xpc, nextRead>> /\ cur < End
    BY <1>1 DEF ReaderFill
  <2>2. ASSUME NEW w \in Workers, wpc'[w] = "lock", mine'[w] < rchunk'
        PROVE  Drained' <= mine'[w] /\ slot'[SlotFor(mine'[w])].state = "FILLED"
    <3>1. CASE mine[w] = rchunk
      BY <1>0, <1>1, <2>1, <3>1, FillStep DEF RingWindow
    <3>2. CASE mine[w] < rchunk
      BY <1>0, <1>1, <2>1, <2>2, <3>2, FillStep DEF ClaimInv
    <3> QED
      BY <1>0, <1>1, <2>1, <2>2, <3>1, <3>2, FillStep
  <2>3. ASSUME NEW k \in 0 .. nextRead' - 1, k >= rchunk', cur' < End
        PROVE  \E w \in Workers : wpc'[w] = "lock" /\ mine'[w] = k
    <3>1. rchunk' = rchunk + 1
      BY <1>1, FillStep
    <3>2. k \in 0 .. nextRead - 1 /\ k >= rchunk
      BY <1>0, <2>1, <2>3, <3>1
    <3>3. \E w \in Workers : wpc[w] = "lock" /\ mine[w] = k
      BY <2>1, <3>2 DEF ClaimInv
    <3> QED
      BY <2>1, <3>3
  <2>4. ASSUME NEW k \in nextRead' .. rchunk' - 1
        PROVE  Drained' <= k /\ slot'[SlotFor(k)].state = "FILLED"
    <3>0. k \in Nat /\ SlotFor(k) \in SlotIds
      BY <1>0, <2>1, SlotForType
    <3>1. CASE k = rchunk
      BY <1>1, <3>1, FillStep DEF RingWindow
    <3>2. CASE k # rchunk
      <4>1. k \in nextRead .. rchunk - 1
        BY <1>0, <1>1, <2>1, <3>0, <3>2, FillStep
      <4> QED
        BY <1>1, <3>0, <4>1, FillStep DEF ClaimInv
    <3> QED
      BY <3>1, <3>2
  <2> QED
    BY <2>1, <2>2, <2>3, <2>4 DEF ClaimInv
<1>2. CASE WriterRecycle
  <2>1. UNCHANGED <<wpc, mine, nextRead, rchunk, cur>> /\ xpc' = "advance"
    BY <1>2 DEF WriterRecycle
  <2>2. ASSUME NEW w \in Workers, wpc'[w] = "lock", mine'[w] < rchunk'
        PROVE  Drained' <= mine'[w] /\ slot'[SlotFor(mine'[w])].state = "FILLED"
    <3>1. Drained <= mine[w] /\ slot[SlotFor(mine[w])].state = "FILLED"
      BY <2>1, <2>2 DEF ClaimInv
    <3>2. SlotFor(mine[w]) # SlotFor(want)
      BY <3>1, <1>2, RecycleStep
    <3>3. mine[w] # want
      BY <3>2
    <3> QED
      BY <1>0, <1>2, <2>1, <3>1, <3>2, <3>3, RecycleStep
  <2>3. ASSUME NEW k \in nextRead' .. rchunk' - 1
        PROVE  Drained' <= k /\ slot'[SlotFor(k)].state = "FILLED"
    <3>0. k \in Nat /\ SlotFor(k) \in SlotIds
      BY <1>0, <2>1, SlotForType
    <3>1. Drained <= k /\ slot[SlotFor(k)].state = "FILLED"
      BY <2>1, <2>3 DEF ClaimInv
    <3>2. SlotFor(k) # SlotFor(want)
      BY <3>1, <1>2, RecycleStep
    <3>3. k # want
      BY <3>2
    <3> QED
      BY <1>0, <1>2, <2>1, <3>0, <3>1, <3>2, <3>3, RecycleStep
  <2> QED
    BY <2>1, <2>2, <2>3 DEF ClaimInv
<1>3. CASE WriterTake
  <2>1. Drained' = Drained /\ UNCHANGED <<rchunk, cur>>
    BY <1>3, QuietStep DEF ReaderFill, WriterRecycle, WriterTake
  <2>2. \A k \in nextRead .. rchunk - 1 : SlotFor(k) \in SlotIds
    BY <1>0, SlotForType
  <2> QED
    BY <1>0, <1>3, <2>1, <2>2, WriterTakeStep DEF ClaimInv
<1>4. ASSUME NEW w \in Workers, WorkerTake(w) PROVE ClaimInv'
  <2>1. Drained' = Drained /\ wpc[w] = "lock"
    BY <1>4 DEF WorkerTake, Drained
  <2>2. UNCHANGED <<mine, nextRead, rchunk, cur, xpc>> /\ mine[w] < rchunk
    BY <1>0, <1>4, TakeStep DEF RingWindow
  <2>3. ASSUME NEW v \in Workers, wpc'[v] = "lock", mine'[v] < rchunk'
        PROVE  Drained' <= mine'[v] /\ slot'[SlotFor(mine'[v])].state = "FILLED"
    <3>1. v # w /\ wpc[v] = "lock"
      BY <1>4, <2>3, TakeStep DEF TypeOK
    <3>2. Drained <= mine[v] /\ slot[SlotFor(mine[v])].state = "FILLED"
      BY <2>2, <2>3, <3>1 DEF ClaimInv
    <3>3. mine[v] # mine[w]
      BY <2>1, <3>1 DEF SlotOwnership
    <3>4. slot[SlotFor(mine[v])].chunk = mine[v]
      BY <1>0, <2>2, <2>3, <3>2 DEF RingWindow
    <3>5. SlotFor(mine[v]) # SlotFor(mine[w])
      BY <1>4, <3>3, <3>4, TakeStep
    <3> QED
      BY <1>0, <1>4, <2>1, <2>2, <3>2, <3>5, TakeStep
  <2>4. ASSUME NEW k \in 0 .. nextRead' - 1, k >= rchunk', cur' < End
        PROVE  \E v \in Workers : wpc'[v] = "lock" /\ mine'[v] = k
    <3>1. PICK v \in Workers : wpc[v] = "lock" /\ mine[v] = k
      BY <2>2, <2>4 DEF ClaimInv
    <3>2. v # w
      BY <1>0, <2>2, <2>4, <3>1
    <3> QED
      BY <1>4, <2>2, <3>1, <3>2, TakeStep DEF TypeOK
  <2>5. \A v \in Workers : wpc'[v] \in {"lock", "scan"} => mine'[v] < nextRead'
    BY <1>4, <2>1, <2>2, TakeStep DEF ClaimInv, TypeOK
  <2>6. xpc' # "setup"
    BY <2>1, <2>2 DEF ClaimInv
  <2>7. ASSUME NEW k \in nextRead' .. rchunk' - 1
        PROVE  Drained' <= k /\ slot'[SlotFor(k)].state = "FILLED"
    <3>1. k \in nextRead .. rchunk - 1 /\ k \in Nat /\ SlotFor(k) \in SlotIds
      BY <1>0, <2>2, SlotForType
    <3>2. Drained <= k /\ slot[SlotFor(k)].state = "FILLED"
      BY <3>1 DEF ClaimInv
    <3>3. slot[SlotFor(k)].chunk = k
      BY <1>0, <3>1, <3>2 DEF RingWindow
    <3>4. mine[w] < nextRead
      BY <2>1 DEF ClaimInv
    <3>5. SlotFor(k) # SlotFor(mine[w])
      BY <1>0, <1>4, <3>1, <3>3, <3>4, TakeStep
    <3> QED
      BY <1>4, <2>1, <3>1, <3>2, <3>5, TakeStep
  <2> QED
    BY <2>3, <2>4, <2>5, <2>6, <2>7 DEF ClaimInv
<1>5. ASSUME NEW w \in Workers, WorkerScan(w) PROVE ClaimInv'
  <2>1. Drained' = Drained
    BY <1>5 DEF WorkerScan, Drained
  <2>2. \A k \in nextRead .. rchunk - 1 : SlotFor(k) \in SlotIds
    BY <1>0, SlotForType
  <2> QED
    BY <1>0, <1>5, <2>1, <2>2, ScanStep DEF ClaimInv
<1>6. ASSUME NEW w \in Workers, WorkerFinish(w) PROVE ClaimInv'
  <2>1. Drained' = Drained
    BY <1>6 DEF WorkerFinish, Drained
  <2>2. ASSUME NEW v \in Workers, wpc'[v] = "lock", mine'[v] < rchunk'
        PROVE  Drained' <= mine'[v] /\ slot'[SlotFor(mine'[v])].state = "FILLED"
    BY <1>0, <1>6, <2>1, <2>2, FinishStep DEF ClaimInv, TypeOK
  <2>3. \A v \in Workers : wpc'[v] \in {"lock", "scan"} => mine'[v] < nextRead'
    BY <1>6, FinishStep DEF ClaimInv, TypeOK
  <2>4. ASSUME NEW k \in 0 .. nextRead' - 1, k >= rchunk', cur' < End
        PROVE  \E v \in Workers : wpc'[v] = "lock" /\ mine'[v] = k
    <3>1. PICK v \in Workers : wpc[v] = "lock" /\ mine[v] = k
      BY <1>6, <2>4, FinishStep DEF ClaimInv
    <3> QED
      BY <1>6, <3>1, FinishStep DEF TypeOK
  <2>5. xpc' # "setup"
    BY <1>6, FinishStep DEF ClaimInv
  <2>6. \A k \in nextRead .. rchunk - 1 : SlotFor(k) \in SlotIds
    BY <1>0, SlotForType
  <2>7. ASSUME NEW k \in nextRead' .. rchunk' - 1
        PROVE  Drained' <= k /\ slot'[SlotFor(k)].state = "FILLED"
    BY <1>6, <2>1, <2>6, <2>7, FinishStep DEF ClaimInv
  <2> QED
    BY <2>2, <2>3, <2>4, <2>5, <2>7 DEF ClaimInv
<1>7. CASE ~SlotWrite
  <2>0. slot' = slot /\ Drained' = Drained /\ UNCHANGED <<rchunk, cur>>
    BY <1>7, OtherStep, QuietStep DEF SlotWrite
  <2>1. ASSUME NEW w \in Workers, WorkerClaim(w) PROVE ClaimInv'
    <3>1. xpc' # "setup" /\ nextRead' \in Nat
      BY <2>1 DEF WorkerClaim, ClaimInv, TypeOK
    <3>2. CASE readerDone /\ nextRead >= totalChunks
      <4>1. wpc' = [wpc EXCEPT ![w] = "exit"] /\ UNCHANGED <<nextRead, mine>>
        BY <2>1, <3>2 DEF WorkerClaim
      <4>2. ~(cur' < End)
        BY <2>0, <3>2, ScanAssumption DEF ReaderInv, TypeOK
      <4> QED
        BY <2>0, <3>1, <4>1, <4>2 DEF ClaimInv, TypeOK
    <3>3. CASE ~(readerDone /\ nextRead >= totalChunks)
      <4>1. /\ wpc' = [wpc EXCEPT ![w] = "lock"] /\ nextRead' = nextRead + 1
            /\ mine' = [mine EXCEPT ![w] = nextRead] /\ wpc[w] = "claim"
        BY <2>1, <3>3 DEF WorkerClaim
      <4>2. \A v \in Workers : wpc'[v] \in {"lock", "scan"} => mine'[v] < nextRead'
        BY <1>0, <4>1 DEF ClaimInv, TypeOK
      <4>3. ASSUME NEW k \in 0 .. nextRead' - 1, k >= rchunk', cur' < End
            PROVE  \E v \in Workers : wpc'[v] = "lock" /\ mine'[v] = k
        BY <1>0, <2>0, <4>1, <4>3 DEF ClaimInv, TypeOK
      <4>4. ASSUME NEW v \in Workers, wpc'[v] = "lock", mine'[v] < rchunk'
            PROVE  /\ Drained' <= mine'[v]
                   /\ slot'[SlotFor(mine'[v])].state = "FILLED"
        <5>1. CASE v = w
          <6>1. mine'[v] = nextRead /\ nextRead < rchunk
            BY <2>0, <4>1, <4>4, <5>1 DEF TypeOK
          <6>2. nextRead \in nextRead .. rchunk - 1
            BY <1>0, <6>1
          <6> QED
            BY <2>0, <6>1, <6>2 DEF ClaimInv
        <5>2. CASE v # w
          BY <2>0, <4>1, <4>4, <5>2 DEF ClaimInv, TypeOK
        <5> QED
          BY <5>1, <5>2
      <4>5. ASSUME NEW k \in nextRead' .. rchunk' - 1
            PROVE  Drained' <= k /\ slot'[SlotFor(k)].state = "FILLED"
        BY <1>0, <2>0, <4>1 DEF ClaimInv
      <4> QED
        BY <3>1, <4>2, <4>3, <4>4, <4>5 DEF ClaimInv
    <3> QED
      BY <3>2, <3>3
  <2>2. ASSUME NEW w \in Workers, WorkerBail(w) PROVE ClaimInv'
    <3>1. ~(cur' < End) /\ xpc' # "setup"
      BY <2>0, <2>2, ScanAssumption
         DEF WorkerBail, MaySeePastEnd, ReaderInv, ClaimInv, TypeOK
    <3> QED
      BY <2>0, <2>2, <3>1 DEF WorkerBail, ClaimInv, TypeOK
  <2>3. CASE Launch
    BY <1>0, <2>0, <2>3 DEF Launch, ClaimInv
  <2>4. CASE UNCHANGED <<wpc, mine, nextRead>> /\ (xpc' = xpc \/ xpc' # "setup")
    BY <2>0, <2>4 DEF ClaimInv
  <2> QED
    BY <1>7, <2>1, <2>2, <2>3, <2>4
       DEF SlotWrite, Next, vars, ReaderStep, WriterStep, WorkerStep, Returned,
           ReaderWait, ReaderTotal, ReaderDone, ReaderBroadcast, WorkerWait,
           SetupFails, WriterGate, WriterWait, WriterQuit, WriterDump,
           WriterAdvance, Join, SpuriousWakeup
<1> QED
  BY <1>1, <1>2, <1>3, <1>4, <1>5, <1>6, <1>7 DEF SlotWrite

LEMMA NoAbandonedChunkNext ==
  ASSUME TypeOK, TypeOK', RingWindow, SlotOwnership, ReaderInv, ClaimInv,
         WriterInv, NoAbandonedChunk, [Next]_vars
  PROVE  NoAbandonedChunk'
<1> USE DEF gate, reader, worker, writer, output
<1> DEFINE Waited(i) == \E w \in Workers : wpc[w] = "lock" /\ mine[w] = slot[i].chunk
           Scanned(i) == \E w \in Workers : wpc[w] = "scan" /\ mine[w] = slot[i].chunk
<1> SUFFICES ASSUME NEW i \in SlotIds
             PROVE  /\ slot'[i].state = "FILLED" =>
                         slot'[i].chunk >= nextRead' \/ Waited(i)'
                    /\ slot'[i].state = "PROCESSING" => Scanned(i)'
  BY DEF NoAbandonedChunk, SlotIds
<1>0. /\ slot[i].state = "FILLED" => slot[i].chunk >= nextRead \/ Waited(i)
      /\ slot[i].state = "PROCESSING" => Scanned(i)
      /\ slot[i].chunk \in Nat /\ slot[i] \in SlotRecords /\ nextRead \in Nat
      /\ slot[i].state # "EMPTY" => SlotFor(slot[i].chunk) = i
      /\ rchunk \in Nat
  BY DEF NoAbandonedChunk, TypeOK, SlotRecords, RingWindow
<1>1. CASE ReaderFill
  <2>1. UNCHANGED <<wpc, mine, nextRead>> /\ cur < End
    BY <1>1 DEF ReaderFill
  <2>2. CASE i = SlotFor(rchunk)
    <3>1. rchunk < nextRead => rchunk \in 0 .. nextRead - 1 /\ rchunk >= rchunk
      BY <1>0
    <3>2. rchunk < nextRead => \E w \in Workers : wpc[w] = "lock" /\ mine[w] = rchunk
      BY <2>1, <3>1 DEF ClaimInv
    <3> QED
      BY <1>0, <1>1, <2>1, <2>2, <3>2, FillStep
  <2>3. CASE i # SlotFor(rchunk)
    BY <1>0, <1>1, <2>1, <2>3, FillStep
  <2> QED
    BY <2>2, <2>3
<1>2. CASE WriterRecycle
  <2>1. UNCHANGED <<wpc, mine, nextRead>>
    BY <1>2 DEF WriterRecycle
  <2> QED
    BY <1>0, <1>2, <2>1, RecycleStep
<1>3. CASE WriterTake
  BY <1>0, <1>3, WriterTakeStep
<1>4. ASSUME NEW w \in Workers, WorkerTake(w)
      PROVE  /\ slot'[i].state = "FILLED" =>
                  slot'[i].chunk >= nextRead' \/ Waited(i)'
             /\ slot'[i].state = "PROCESSING" => Scanned(i)'
  <2>1. CASE i = SlotFor(mine[w])
    BY <1>4, <2>1, TakeStep DEF TypeOK
  <2>2. CASE i # SlotFor(mine[w])
    <3>1. slot'[i] = slot[i] /\ mine' = mine /\ nextRead' = nextRead
      BY <1>4, <2>2, TakeStep
    <3>2. slot[i].state # "EMPTY" => mine[w] # slot[i].chunk
      BY <1>0, <2>2
    <3>3. ASSUME slot[i].state = "FILLED", Waited(i) PROVE Waited(i)'
      BY <1>4, <3>1, <3>2, <3>3, TakeStep DEF TypeOK
    <3>4. ASSUME slot[i].state = "PROCESSING", Scanned(i) PROVE Scanned(i)'
      BY <1>4, <3>1, <3>2, <3>4, TakeStep DEF TypeOK
    <3> QED
      BY <1>0, <3>1, <3>3, <3>4
  <2> QED
    BY <2>1, <2>2
<1>5. ASSUME NEW w \in Workers, WorkerScan(w)
      PROVE  /\ slot'[i].state = "FILLED" =>
                  slot'[i].chunk >= nextRead' \/ Waited(i)'
             /\ slot'[i].state = "PROCESSING" => Scanned(i)'
  BY <1>0, <1>5, ScanStep
<1>6. ASSUME NEW w \in Workers, WorkerFinish(w)
      PROVE  /\ slot'[i].state = "FILLED" =>
                  slot'[i].chunk >= nextRead' \/ Waited(i)'
             /\ slot'[i].state = "PROCESSING" => Scanned(i)'
  <2>1. CASE i = SlotFor(mine[w])
    BY <1>6, <2>1, FinishStep
  <2>2. CASE i # SlotFor(mine[w])
    <3>1. slot'[i] = slot[i] /\ mine' = mine /\ nextRead' = nextRead
      BY <1>6, <2>2, FinishStep
    <3>2. slot[i].state # "EMPTY" => mine[w] # slot[i].chunk
      BY <1>0, <2>2
    <3>3. ASSUME slot[i].state = "FILLED", Waited(i) PROVE Waited(i)'
      BY <1>6, <3>1, <3>2, <3>3, FinishStep DEF TypeOK
    <3>4. ASSUME slot[i].state = "PROCESSING", Scanned(i) PROVE Scanned(i)'
      BY <1>6, <3>1, <3>2, <3>4, FinishStep DEF TypeOK
    <3> QED
      BY <1>0, <3>1, <3>3, <3>4
  <2> QED
    BY <2>1, <2>2
<1>7. CASE ~SlotWrite
  <2>0. slot' = slot
    BY <1>7, OtherStep
  <2>1. ASSUME NEW w \in Workers, WorkerClaim(w)
        PROVE  /\ slot[i].state = "FILLED" =>
                    slot[i].chunk >= nextRead' \/ Waited(i)'
               /\ slot[i].state = "PROCESSING" => Scanned(i)'
    <3>1. wpc[w] = "claim"
      BY <2>1 DEF WorkerClaim
    <3>2. ASSUME slot[i].state = "PROCESSING" PROVE Scanned(i)'
      <4>1. PICK v \in Workers : wpc[v] = "scan" /\ mine[v] = slot[i].chunk
        BY <1>0, <3>2
      <4> QED
        BY <2>0, <2>1, <3>1, <4>1 DEF WorkerClaim, TypeOK
    <3>3. ASSUME slot[i].state = "FILLED", Waited(i) PROVE Waited(i)'
      <4>1. PICK v \in Workers : wpc[v] = "lock" /\ mine[v] = slot[i].chunk
        BY <3>3
      <4> QED
        BY <2>0, <2>1, <3>1, <4>1 DEF WorkerClaim, TypeOK
    <3>4. ASSUME slot[i].state = "FILLED", slot[i].chunk >= nextRead
          PROVE  slot[i].chunk >= nextRead' \/ Waited(i)'
      <4>1. CASE readerDone /\ nextRead >= totalChunks
        BY <2>1, <3>4, <4>1 DEF WorkerClaim
      <4>2. CASE ~(readerDone /\ nextRead >= totalChunks)
        <5>1. /\ wpc' = [wpc EXCEPT ![w] = "lock"] /\ nextRead' = nextRead + 1
              /\ mine' = [mine EXCEPT ![w] = nextRead]
          BY <2>1, <4>2 DEF WorkerClaim
        <5>2. wpc'[w] = "lock" /\ mine'[w] = nextRead
          BY <5>1 DEF TypeOK
        <5>3. slot[i].chunk = nextRead => Waited(i)'
          BY <2>0, <5>2
        <5> QED
          BY <1>0, <3>4, <5>1, <5>3
      <4> QED
        BY <4>1, <4>2
    <3> QED
      BY <1>0, <3>2, <3>3, <3>4
  <2>2. ASSUME NEW w \in Workers, WorkerBail(w)
        PROVE  /\ slot[i].state = "FILLED" =>
                    slot[i].chunk >= nextRead' \/ Waited(i)'
               /\ slot[i].state = "PROCESSING" => Scanned(i)'
    <3>1. slot[i].state = "FILLED" => mine[w] # slot[i].chunk
      BY <1>0, <2>2 DEF WorkerBail, Ready
    <3>2. /\ wpc' = [wpc EXCEPT ![w] = "exit"] /\ wpc[w] = "lock"
          /\ mine' = mine /\ nextRead' = nextRead
      BY <2>2 DEF WorkerBail
    <3>3. ASSUME slot[i].state = "FILLED", Waited(i) PROVE Waited(i)'
      BY <2>0, <3>1, <3>2, <3>3 DEF TypeOK
    <3>4. ASSUME slot[i].state = "PROCESSING", Scanned(i) PROVE Scanned(i)'
      BY <2>0, <3>2, <3>4 DEF TypeOK
    <3> QED
      BY <1>0, <3>2, <3>3, <3>4
  <2>3. CASE Launch
    <3>1. nextRead' = nextRead /\ \A w \in Workers : wpc[w] = "none"
      BY <2>3 DEF Launch, ClaimInv
    <3> QED
      BY <1>0, <2>0, <3>1
  <2>4. CASE UNCHANGED <<wpc, mine, nextRead>>
    BY <1>0, <2>0, <2>4
  <2> QED
    BY <1>7, <2>0, <2>1, <2>2, <2>3, <2>4
       DEF SlotWrite, Next, vars, ReaderStep, WriterStep, WorkerStep, Returned,
           ReaderWait, ReaderTotal, ReaderDone, ReaderBroadcast, WorkerWait,
           SetupFails, WriterGate, WriterWait, WriterQuit, WriterDump,
           WriterAdvance, Join, SpuriousWakeup
<1> QED
  BY <1>1, <1>2, <1>3, <1>4, <1>5, <1>6, <1>7 DEF SlotWrite

-----------------------------------------------------------------------------
(* Hit lists. *)

LEMMA HitListEmpty ==
  ASSUME NEW lo \in Nat PROVE HitList(<< >>, lo, lo + 0)
<1>1. \A b \in Headers : ~(lo <= b /\ b < lo + 0)
  BY ScanAssumption
<1> QED
  BY <1>1 DEF HitList

\* add_hit() of the next block keeps the list complete and ascending.
LEMMA HitListAppend ==
  ASSUME NEW s \in HitSeqs, NEW lo \in Nat, NEW hi \in Nat, lo <= hi,
         hi \in Headers, HitList(s, lo, hi)
  PROVE  HitList(Append(s, hi), lo, hi + 1)
<1> DEFINE t == Append(s, hi)
<1>1. /\ Len(t) = Len(s) + 1 /\ Len(s) \in Nat /\ t[Len(s) + 1] = hi
      /\ \A i \in 1 .. Len(s) : t[i] = s[i]
  BY DEF HitSeqs
<1> HIDE DEF t
<1>2. \A i \in 1 .. Len(s) : s[i] \in Nat /\ s[i] < hi
  BY ScanAssumption DEF HitList
<1>3. \A i, j \in 1 .. Len(t) : i < j => t[i] < t[j]
  <2> SUFFICES ASSUME NEW i \in 1 .. Len(t), NEW j \in 1 .. Len(t), i < j
               PROVE  t[i] < t[j]
    OBVIOUS
  <2>1. i \in 1 .. Len(s) /\ (j \in 1 .. Len(s) \/ j = Len(s) + 1)
    BY <1>1
  <2> QED
    BY <1>1, <1>2, <2>1 DEF HitList
<1>4. \A i \in 1 .. Len(t) : t[i] \in Headers /\ lo <= t[i] /\ t[i] < hi + 1
  <2> SUFFICES ASSUME NEW i \in 1 .. Len(t)
               PROVE  t[i] \in Headers /\ lo <= t[i] /\ t[i] < hi + 1
    OBVIOUS
  <2>1. i \in 1 .. Len(s) \/ i = Len(s) + 1
    BY <1>1
  <2> QED
    BY <1>1, <1>2, <2>1 DEF HitList
<1>5. \A b \in Headers : lo <= b /\ b < hi + 1 => \E i \in 1 .. Len(t) : t[i] = b
  <2> SUFFICES ASSUME NEW b \in Headers, lo <= b, b < hi + 1
               PROVE  \E i \in 1 .. Len(t) : t[i] = b
    OBVIOUS
  <2>1. CASE b = hi
    BY <1>1, <2>1
  <2>2. CASE b < hi
    <3>1. PICK i \in 1 .. Len(s) : s[i] = b
      BY <2>2 DEF HitList
    <3> QED
      BY <1>1, <3>1
  <2> QED
    BY <2>1, <2>2, ScanAssumption
<1> QED
  BY <1>3, <1>4, <1>5 DEF HitList, t

LEMMA HitListSkip ==
  ASSUME NEW s, NEW lo \in Nat, NEW hi \in Nat, hi \notin Headers,
         HitList(s, lo, hi)
  PROVE  HitList(s, lo, hi + 1)
<1>1. \A i \in 1 .. Len(s) : s[i] \in Headers /\ lo <= s[i] /\ s[i] < hi + 1
  BY ScanAssumption DEF HitList
<1>2. \A b \in Headers : b < hi + 1 => b < hi
  BY ScanAssumption
<1> QED
  BY <1>1, <1>2 DEF HitList

LEMMA ScanInvNext ==
  ASSUME TypeOK, TypeOK', RingWindow, SlotOwnership, ReaderInv, ClaimInv,
         ContentInv, ScanInv, WriterInv, [Next]_vars
  PROVE  ScanInv'
<1> USE DEF gate, reader, worker, writer, output
<1> SUFFICES ASSUME NEW v \in Workers, wpc'[v] = "scan"
             PROVE  LET s == slot'[SlotFor(mine'[v])]
                    IN /\ wblk'[v] <= s.n
                       /\ HitList(s.hits, s.start, s.start + wblk'[v])
  BY DEF ScanInv
<1>0. /\ mine[v] \in Nat /\ SlotFor(mine[v]) \in SlotIds
      /\ want \in Nat /\ SlotFor(want) \in SlotIds
      /\ slot[SlotFor(mine[v])] \in SlotRecords
  BY SlotForType DEF TypeOK
<1>1. CASE ReaderFill
  <2>1. UNCHANGED worker
    BY <1>1 DEF ReaderFill
  <2>2. slot'[SlotFor(mine[v])] = slot[SlotFor(mine[v])]
    BY <1>0, <1>1, <2>1, FillStep DEF SlotOwnership
  <2> QED
    BY <2>1, <2>2 DEF ScanInv
<1>2. CASE WriterRecycle
  <2>1. UNCHANGED worker
    BY <1>2 DEF WriterRecycle
  <2>2. slot'[SlotFor(mine[v])] = slot[SlotFor(mine[v])]
    BY <1>0, <1>2, <2>1, RecycleStep DEF SlotOwnership
  <2> QED
    BY <2>1, <2>2 DEF ScanInv
<1>3. CASE WriterTake
  <2>1. slot'[SlotFor(mine[v])] = slot[SlotFor(mine[v])]
    BY <1>0, <1>3, WriterTakeStep DEF SlotOwnership
  <2> QED
    BY <1>3, <2>1, WriterTakeStep DEF ScanInv
<1>4. ASSUME NEW w \in Workers, WorkerTake(w)
      PROVE  LET s == slot'[SlotFor(mine'[v])]
             IN /\ wblk'[v] <= s.n
                /\ HitList(s.hits, s.start, s.start + wblk'[v])
  <2> DEFINE i == SlotFor(mine[w])
  <2>1. CASE v = w
    <3>1. /\ slot'[i].hits = << >> /\ wblk'[v] = 0 /\ slot'[i].start = slot[i].start
          /\ slot'[i].n = slot[i].n /\ mine' = mine /\ i \in SlotIds
      <4>1. slot[i].state = "FILLED" /\ i \in SlotIds
        BY <1>4, TakeStep
      <4>2. slot[i].hits = << >>
        BY <4>1 DEF ContentInv
      <4>3. wblk'[w] = 0
        BY <1>4, TakeStep DEF TypeOK
      <4> QED
        BY <1>4, <2>1, <4>1, <4>2, <4>3, TakeStep
    <3>2. slot[i].start \in Nat /\ slot[i].n \in Nat
      BY <3>1 DEF TypeOK, SlotRecords
    <3>3. HitList(<< >>, slot[i].start, slot[i].start + 0) /\ 0 <= slot[i].n
      BY <3>2, HitListEmpty
    <3> QED
      BY <2>1, <3>1, <3>3
  <2>2. CASE v # w
    <3>1. wpc[v] = "scan" /\ wblk'[v] = wblk[v] /\ mine' = mine
      BY <1>4, <2>2, TakeStep DEF TypeOK
    <3>2. slot'[SlotFor(mine[v])] = slot[SlotFor(mine[v])]
      BY <1>0, <1>4, <3>1, TakeStep DEF SlotOwnership
    <3> QED
      BY <3>1, <3>2 DEF ScanInv
  <2> QED
    BY <2>1, <2>2
<1>5. ASSUME NEW w \in Workers, WorkerScan(w)
      PROVE  LET s == slot'[SlotFor(mine'[v])]
             IN /\ wblk'[v] <= s.n
                /\ HitList(s.hits, s.start, s.start + wblk'[v])
  <2> DEFINE i == SlotFor(mine[w])
             b == slot[i].start + wblk[w]
  <2>0. /\ i \in SlotIds /\ b \in Nat /\ wpc[w] = "scan" /\ mine' = mine /\ wpc' = wpc
        /\ wblk' = [wblk EXCEPT ![w] = @ + 1] /\ wblk[w] < slot[i].n
        /\ slot'[i].start = slot[i].start /\ slot'[i].n = slot[i].n
        /\ slot'[i].hits = IF b \in Headers THEN Append(slot[i].hits, b)
                                          ELSE slot[i].hits
    BY <1>5, ScanStep
  <2>1. CASE v = w
    <3>1. /\ slot[i].start \in Nat /\ slot[i].n \in Nat /\ slot[i].hits \in HitSeqs
          /\ wblk[w] \in Nat /\ wblk'[w] = wblk[w] + 1
      BY <2>0 DEF TypeOK, SlotRecords
    <3>2. HitList(slot[i].hits, slot[i].start, b)
      BY <2>0 DEF ScanInv
    <3>3. slot[i].start <= b /\ slot[i].start + wblk'[w] = b + 1
      BY <3>1
    <3> HIDE DEF b
    <3>4. HitList(slot'[i].hits, slot[i].start, b + 1)
      BY <2>0, <3>1, <3>2, <3>3, HitListAppend, HitListSkip
    <3> QED
      BY <2>0, <2>1, <3>1, <3>3, <3>4
  <2>2. CASE v # w
    <3>1. wblk'[v] = wblk[v] /\ wpc[v] = "scan"
      BY <2>0, <2>2 DEF TypeOK
    <3>2. mine[v] # mine[w]
      BY <2>0, <2>2, <3>1 DEF SlotOwnership
    <3>3. SlotFor(mine[v]) # i
      BY <2>0, <3>1, <3>2 DEF SlotOwnership
    <3>4. slot'[SlotFor(mine[v])] = slot[SlotFor(mine[v])]
      BY <1>0, <1>5, <3>3, ScanStep
    <3> QED
      BY <2>0, <3>1, <3>4 DEF ScanInv
  <2> QED
    BY <2>1, <2>2
<1>6. ASSUME NEW w \in Workers, WorkerFinish(w)
      PROVE  LET s == slot'[SlotFor(mine'[v])]
             IN /\ wblk'[v] <= s.n
                /\ HitList(s.hits, s.start, s.start + wblk'[v])
  <2>1. v # w /\ wpc[v] = "scan" /\ mine' = mine /\ wblk' = wblk /\ wpc[w] = "scan"
    BY <1>6, FinishStep DEF TypeOK
  <2>2. SlotFor(mine[v]) # SlotFor(mine[w])
    BY <2>1 DEF SlotOwnership
  <2>3. slot'[SlotFor(mine[v])] = slot[SlotFor(mine[v])]
    BY <1>0, <1>6, <2>2, FinishStep
  <2> QED
    BY <2>1, <2>3 DEF ScanInv
<1>7. CASE ~SlotWrite
  <2>0. slot' = slot
    BY <1>7, OtherStep
  <2>1. ASSUME NEW w \in Workers, WorkerClaim(w) \/ WorkerBail(w)
        PROVE  mine'[v] = mine[v] /\ wpc[v] = "scan" /\ wblk' = wblk
    BY <2>1 DEF WorkerClaim, WorkerBail, TypeOK
  <2>2. CASE Launch
    BY <2>2 DEF Launch
  <2>3. CASE UNCHANGED worker
    BY <2>0, <2>3 DEF ScanInv
  <2> QED
    BY <1>7, <2>0, <2>1, <2>2, <2>3
       DEF SlotWrite, Next, vars, ReaderStep, WriterStep, WorkerStep, Returned,
           ReaderWait, ReaderTotal, ReaderDone, ReaderBroadcast, WorkerWait,
           SetupFails, WriterGate, WriterWait, WriterQuit, WriterDump,
           WriterAdvance, Join, SpuriousWakeup, ScanInv
<1> QED
  BY <1>1, <1>2, <1>3, <1>4, <1>5, <1>6, <1>7 DEF SlotWrite

LEMMA ContentInvNext ==
  ASSUME TypeOK, TypeOK', RingWindow, SlotOwnership, ReaderInv, ClaimInv,
         ContentInv, ScanInv, WriterInv, [Next]_vars
  PROVE  ContentInv'
<1> USE DEF gate, reader, worker, writer, output
<1> DEFINE Frame(s) == /\ s.start = ChunkStart(s.chunk)
                       /\ s.n <= ChunkBlocks
                       /\ \A c \in s.start .. s.start + s.n - 1 : c \notin Bad
                       /\ \/ s.n = ChunkBlocks \/ s.start + s.n >= End
                          \/ s.start + s.n \in Bad
           Full(s) == HitList(s.hits, s.start, s.start + s.n)
           Taken(i) == xpc = "dump" /\ i = SlotFor(want)
           Content(i) == slot[i].state # "EMPTY" =>
                            /\ Frame(slot[i])
                            /\ slot[i].state = "FILLED" => slot[i].hits = << >>
                            /\ slot[i].state = "DONE" /\ ~Taken(i) => Full(slot[i])
<1>0. ContentInv <=> \A i \in SlotIds : Content(i)
  BY DEF ContentInv
<1>01. ContentInv' <=> \A i \in SlotIds : Content(i)'
  BY DEF ContentInv
<1> SUFFICES ASSUME NEW i \in SlotIds, Content(i) PROVE Content(i)'
  BY <1>0, <1>01
<1>02. /\ want \in Nat /\ SlotFor(want) \in SlotIds /\ slot[i] \in SlotRecords
  BY SlotForType DEF TypeOK
<1>1. CASE ReaderFill
  <2>0. UNCHANGED <<xpc, want>>
    BY <1>1 DEF ReaderFill
  <2>1. CASE i = SlotFor(rchunk)
    <3> DEFINE len == IF cur + ChunkBlocks > End THEN End - cur ELSE ChunkBlocks
    <3>1. PICK m \in 0 .. len :
            /\ Pread(cur, len, m)
            /\ slot' = [slot EXCEPT ![SlotFor(rchunk)] =
                           [state |-> "FILLED", chunk |-> rchunk,
                            start |-> cur, n |-> m, hits |-> << >>]]
      BY <1>1 DEF ReaderFill
    <3>2. slot'[i] = [state |-> "FILLED", chunk |-> rchunk, start |-> cur,
                      n |-> m, hits |-> << >>]
      BY <2>1, <3>1 DEF TypeOK
    <3>3. len \in Nat /\ len <= ChunkBlocks /\ (len = ChunkBlocks \/ cur + len = End)
          /\ cur \in Nat /\ ChunkBlocks \in Nat /\ End \in Nat
      BY <1>1, ScanAssumption DEF ReaderFill, TypeOK
    <3>4. cur = ChunkStart(rchunk)
      BY <1>1, FillStep DEF ReaderFill, ReaderInv
    <3> HIDE DEF len
    <3>5. m <= ChunkBlocks /\ (m = ChunkBlocks \/ cur + m >= End \/ cur + m \in Bad)
      BY <3>1, <3>3 DEF Pread
    <3> QED
      BY <3>1, <3>2, <3>4, <3>5 DEF Pread
  <2>2. CASE i # SlotFor(rchunk)
    <3>1. slot'[i] = slot[i]
      BY <1>1, <2>2, FillStep
    <3> QED
      BY <2>0, <3>1
  <2> QED
    BY <2>1, <2>2
<1>2. CASE WriterRecycle
  <2>1. CASE i = SlotFor(want)
    BY <1>2, <2>1, RecycleStep
  <2>2. CASE i # SlotFor(want)
    <3>1. slot'[i] = slot[i] /\ ~Taken(i)
      BY <1>2, <2>2, RecycleStep
    <3> QED
      BY <3>1
  <2> QED
    BY <2>1, <2>2
<1>3. CASE WriterTake
  <2>1. CASE i = SlotFor(want)
    <3>1. /\ slot'[i].start = slot[i].start /\ slot'[i].n = slot[i].n
          /\ slot'[i].chunk = slot[i].chunk /\ slot[i].state = "DONE"
          /\ slot'[i].state = "DONE" /\ xpc' = "dump" /\ want' = want
      BY <1>3, <2>1, WriterTakeStep
    <3>2. Taken(i)'
      BY <2>1, <3>1
    <3> QED
      BY <3>1, <3>2
  <2>2. CASE i # SlotFor(want)
    <3>1. slot'[i] = slot[i] /\ ~Taken(i)
      BY <1>3, <2>2, WriterTakeStep
    <3> QED
      BY <3>1
  <2> QED
    BY <2>1, <2>2
<1>4. ASSUME NEW w \in Workers, WorkerTake(w) PROVE Content(i)'
  <2>1. UNCHANGED <<xpc, want>>
    BY <1>4, TakeStep
  <2>2. CASE i = SlotFor(mine[w])
    BY <1>4, <2>2, TakeStep
  <2>3. CASE i # SlotFor(mine[w])
    <3>1. slot'[i] = slot[i]
      BY <1>4, <2>3, TakeStep
    <3> QED
      BY <2>1, <3>1
  <2> QED
    BY <2>2, <2>3
<1>5. ASSUME NEW w \in Workers, WorkerScan(w) PROVE Content(i)'
  <2>1. UNCHANGED <<xpc, want>>
    BY <1>5, ScanStep
  <2>2. CASE i = SlotFor(mine[w])
    <3>1. slot[i].state = "PROCESSING"
      BY <1>5, <2>2, ScanStep DEF SlotOwnership
    <3> QED
      BY <1>5, <2>2, <3>1, ScanStep
  <2>3. CASE i # SlotFor(mine[w])
    <3>1. slot'[i] = slot[i]
      BY <1>5, <2>3, ScanStep
    <3> QED
      BY <2>1, <3>1
  <2> QED
    BY <2>2, <2>3
<1>6. ASSUME NEW w \in Workers, WorkerFinish(w) PROVE Content(i)'
  <2>1. UNCHANGED <<xpc, want>>
    BY <1>6, FinishStep
  <2>2. CASE i = SlotFor(mine[w])
    <3>1. wblk[w] >= slot[i].n /\ wblk[w] <= slot[i].n
          /\ HitList(slot[i].hits, slot[i].start, slot[i].start + wblk[w])
      BY <1>6, <2>2, FinishStep DEF ScanInv
    <3>2. wblk[w] = slot[i].n
      <4>1. wblk[w] \in Nat
        BY DEF TypeOK
      <4>2. slot[i].n \in Nat
        BY <1>02 DEF SlotRecords
      <4> QED
        BY <3>1, <4>1, <4>2
    <3>3. Full(slot[i])
      BY <3>1, <3>2
    <3>4. Full(slot[i])' /\ slot'[i].state = "DONE" /\ Frame(slot[i])'
      BY <1>6, <2>2, <3>3, FinishStep
    <3> QED
      BY <3>4
  <2>3. CASE i # SlotFor(mine[w])
    <3>1. slot'[i] = slot[i]
      BY <1>6, <2>3, FinishStep
    <3> QED
      BY <2>1, <3>1
  <2> QED
    BY <2>2, <2>3
<1>7. CASE ~SlotWrite
  <2>0. slot' = slot
    BY <1>7, OtherStep
  <2>1. CASE xpc # "dump"
    BY <2>0, <2>1
  <2>2. CASE xpc = "dump"
    <3>1. UNCHANGED <<xpc, want>>
      BY <1>7, <2>2
         DEF SlotWrite, Next, vars, ReaderStep, WriterStep, WorkerStep, Returned,
             ReaderWait, ReaderTotal, ReaderDone, ReaderBroadcast, WorkerClaim,
             WorkerWait, WorkerBail, Launch, SetupFails, WriterGate, WriterWait,
             WriterQuit, WriterDump, WriterAdvance, Join, SpuriousWakeup
    <3> QED
      BY <2>0, <3>1
  <2> QED
    BY <2>1, <2>2
<1> QED
  BY <1>1, <1>2, <1>3, <1>4, <1>5, <1>6, <1>7 DEF SlotWrite

-----------------------------------------------------------------------------
(* The writer. *)

\* A header seen in the range of chunk k is one that chunk k's own read got
\* to see: chunks do not overlap.
LEMMA SeenInChunk ==
  ASSUME NEW b \in Seen, NEW k \in Nat,
         ChunkStart(k) <= b, b < ChunkStart(k) + ChunkBlocks
  PROVE  \A c \in ChunkStart(k) .. b : c \notin Bad
<1>0. b \in Nat
  BY ScanAssumption DEF Seen
<1>1. PICK j \in 0 .. End - Start :
        /\ ChunkStart(j) <= b /\ b < ChunkStart(j) + ChunkBlocks
        /\ \A c \in ChunkStart(j) .. b : c \notin Bad
  BY DEF Seen
<1>2. /\ j \in Nat /\ ChunkStart(j) \in Nat /\ ChunkStart(k) \in Nat
      /\ ChunkBlocks \in Nat
  BY <1>1, ChunkStep, ScanAssumption
<1>3. ~(j < k)
  BY <1>0, <1>1, <1>2, ChunkOrder
<1>4. ~(k < j)
  BY <1>0, <1>1, <1>2, ChunkOrder
<1>5. j = k
  BY <1>2, <1>3, <1>4
<1> QED
  BY <1>1, <1>5

\* While the writer dumps, nobody else touches the slot it dumps from.
LEMMA DumpSlot ==
  ASSUME TypeOK, RingWindow, SlotOwnership, ReaderInv, xpc = "dump",
         ~WriterTake, ~WriterRecycle, [Next]_vars
  PROVE  slot'[SlotFor(want)] = slot[SlotFor(want)]
<1>0. /\ SlotFor(want) \in SlotIds
      /\ slot[SlotFor(want)].state = "DONE"
  BY SlotForType DEF TypeOK, SlotOwnership
<1>1. CASE ReaderFill
  BY <1>0, <1>1, FillStep
<1>2. ASSUME NEW w \in Workers, WorkerTake(w)
      PROVE  slot'[SlotFor(want)] = slot[SlotFor(want)]
  BY <1>0, <1>2, TakeStep
<1>3. ASSUME NEW w \in Workers, WorkerScan(w)
      PROVE  slot'[SlotFor(want)] = slot[SlotFor(want)]
  <2>1. slot[SlotFor(mine[w])].state = "PROCESSING"
    BY <1>3, ScanStep DEF SlotOwnership
  <2> QED
    BY <1>0, <1>3, <2>1, ScanStep
<1>4. ASSUME NEW w \in Workers, WorkerFinish(w)
      PROVE  slot'[SlotFor(want)] = slot[SlotFor(want)]
  BY <1>0, <1>4, FinishStep
<1>5. CASE ~SlotWrite
  BY <1>5, OtherStep
<1> QED
  BY <1>1, <1>2, <1>3, <1>4, <1>5 DEF SlotWrite

\* When the end is announced and nothing is left to drain, the whole range
\* has been drained.
LEMMA NothingLeft ==
  ASSUME TypeOK, RingWindow, ReaderInv, WriterInv, readerDone,
         nextWrite >= totalChunks, Drained = nextWrite
  PROVE  ChunkStart(Drained) >= End
<1>1. totalChunks = rchunk /\ cur >= End
  BY DEF ReaderInv
<1>2. ChunkStart(rchunk) >= End
  BY <1>1 DEF ReaderInv
<1>3. Drained = rchunk
  BY <1>1 DEF RingWindow, TypeOK
<1> QED
  BY <1>2, <1>3

LEMMA WriterInvNext ==
  ASSUME TypeOK, TypeOK', RingWindow, SlotOwnership, ReaderInv, ContentInv,
         WriterInv, [Next]_vars
  PROVE  WriterInv'
<1> USE DEF gate, reader, worker, writer, output
<1>0. /\ want \in Nat /\ nextWrite \in Nat /\ pos \in Nat /\ h \in Nat \ {0}
      /\ SlotFor(want) \in SlotIds /\ xhits \in HitSeqs
  BY SlotForType DEF TypeOK
<1>1. CASE WriterTake
  <2> DEFINE s == slot[SlotFor(want)]
             lo == ChunkStart(want)
  <2>1. /\ s.state = "DONE" /\ s.chunk = want /\ xpc = "lock"
        /\ slot'[SlotFor(want)].n = s.n /\ xhits' = s.hits /\ h' = 1
        /\ xpc' = "dump" /\ want' = want /\ pos' = pos /\ nextWrite' = nextWrite
    BY <1>1, WriterTakeStep
  <2>2. /\ HitList(s.hits, lo, lo + s.n) /\ s.n <= ChunkBlocks
        /\ s.n = ChunkBlocks \/ lo + s.n >= End \/ lo + s.n \in Bad
    BY <1>0, <2>1 DEF ContentInv
  <2>3. want = nextWrite /\ pos <= lo /\ \A b \in Seen : pos <= b => lo <= b
    BY <2>1 DEF WriterInv, Drained
  <2>4. /\ lo \in Nat /\ ChunkBlocks \in Nat /\ ChunkStart(want + 1) = lo + ChunkBlocks
        /\ End \in Nat
    BY <1>0, ChunkStep, ScanAssumption
  <2>5. s.n \in Nat /\ s.hits \in HitSeqs
    BY <1>0 DEF TypeOK, SlotRecords
  <2>51. Len(s.hits) \in Nat
    BY <2>5 DEF HitSeqs
  <2> HIDE DEF s, lo
  <2>6. \A j \in 1 .. Len(s.hits) : pos <= s.hits[j]
    <3> SUFFICES ASSUME NEW j \in 1 .. Len(s.hits) PROVE pos <= s.hits[j]
      OBVIOUS
    <3>1. s.hits[j] \in Nat /\ lo <= s.hits[j]
      BY <2>2, ScanAssumption DEF HitList
    <3> QED
      BY <1>0, <2>3, <2>4, <3>1
  <2>7. ASSUME NEW b \in Seen, pos <= b, ~(lo + ChunkBlocks <= b)
        PROVE  \E j \in 1 .. Len(s.hits) : s.hits[j] = b
    <3>1. b \in Headers /\ b \in Nat /\ b < End /\ lo <= b /\ b < lo + ChunkBlocks
      BY <2>3, <2>4, <2>7, ScanAssumption DEF Seen
    <3>2. \A c \in lo .. b : c \notin Bad
      BY <1>0, <2>7, <3>1, SeenInChunk DEF lo
    <3>3. b < lo + s.n
      BY <2>2, <2>4, <2>5, <3>1, <3>2
    <3> QED
      BY <2>2, <3>1, <3>3 DEF HitList
  <2>8. pos <= lo + ChunkBlocks
    BY <1>0, <2>3, <2>4
  <2>9. HitList(xhits', ChunkStart(want'), ChunkStart(want') + slot'[SlotFor(want')].n)
    BY <2>1, <2>2 DEF lo
  <2>10. \A j \in h' .. Len(xhits') : pos' <= xhits'[j]
    BY <2>1, <2>6
  <2>11. \A b \in Seen : pos' <= b =>
               \/ ChunkStart(want' + 1) <= b
               \/ \E j \in h' .. Len(xhits') : xhits'[j] = b
    BY <2>1, <2>4, <2>7
  <2>12. h' <= Len(xhits') + 1 /\ pos' <= ChunkStart(want' + 1) /\ want' = nextWrite'
    BY <2>1, <2>3, <2>4, <2>51, <2>8
  <2>13. ~ScanFinished'
    BY <2>1 DEF ScanFinished
  <2> QED
    BY <2>1, <2>9, <2>10, <2>11, <2>12, <2>13 DEF WriterInv, Seen
<1>2. CASE WriterRecycle
  <2>1. /\ xpc = "dump" /\ xpc' = "advance" /\ h > Len(xhits) /\ want' = want
        /\ nextWrite' = nextWrite /\ pos' = pos
    BY <1>2 DEF WriterRecycle
  <2>2. want = nextWrite /\ pos <= ChunkStart(want + 1)
    BY <2>1 DEF WriterInv
  <2>3. Len(xhits) \in Nat
    BY <1>0 DEF HitSeqs
  <2>4. h .. Len(xhits) = {}
    BY <1>0, <2>1, <2>3
  <2>5. \A b \in Seen : pos <= b => ChunkStart(want + 1) <= b
    BY <2>1, <2>4 DEF WriterInv
  <2>6. Drained' = want + 1
    BY <2>1 DEF Drained
  <2>7. ~ScanFinished'
    BY <2>1 DEF ScanFinished
  <2> QED
    BY <2>1, <2>2, <2>5, <2>6, <2>7 DEF WriterInv, Seen
<1>3. CASE WriterDump
  <2> DEFINE b == xhits[h]
             s == slot[SlotFor(want)]
             lo == ChunkStart(want)
  <2>1. /\ xpc = "dump" /\ h <= Len(xhits) /\ pos' = b + 1 /\ h' = h + 1
        /\ xpc' = xpc /\ want' = want /\ xhits' = xhits /\ slot' = slot
        /\ nextWrite' = nextWrite
    BY <1>3 DEF WriterDump
  <2>2. /\ HitList(xhits, lo, lo + s.n) /\ want = nextWrite
        /\ \A j \in h .. Len(xhits) : pos <= xhits[j]
        /\ \A c \in Seen : pos <= c =>
               \/ ChunkStart(want + 1) <= c
               \/ \E j \in h .. Len(xhits) : xhits[j] = c
    BY <2>1 DEF WriterInv
  <2>3. s.state = "DONE"
    BY <2>1 DEF SlotOwnership
  <2>4. s.n <= ChunkBlocks
    BY <1>0, <2>3 DEF ContentInv
  <2>5. s.n \in Nat
    BY <1>0 DEF TypeOK, SlotRecords
  <2>6. /\ lo \in Nat /\ ChunkBlocks \in Nat /\ ChunkStart(want + 1) = lo + ChunkBlocks
    BY <1>0, ChunkStep, ScanAssumption
  <2>7. Len(xhits) \in Nat /\ h \in 1 .. Len(xhits)
    BY <1>0, <2>1 DEF HitSeqs
  <2> HIDE DEF s, lo
  <2>8. b \in Nat /\ b < lo + s.n /\ pos <= b
    BY <1>0, <2>2, <2>7, ScanAssumption DEF HitList
  <2>9. \A j \in h + 1 .. Len(xhits) : b + 1 <= xhits[j] /\ xhits[j] \in Nat
    <3> SUFFICES ASSUME NEW j \in h + 1 .. Len(xhits)
                 PROVE  b + 1 <= xhits[j] /\ xhits[j] \in Nat
      OBVIOUS
    <3>1. j \in 1 .. Len(xhits) /\ h < j
      BY <2>7
    <3>2. b < xhits[j] /\ xhits[j] \in Nat
      BY <2>2, <2>7, <3>1, ScanAssumption DEF HitList
    <3> QED
      BY <2>8, <3>2
  <2>10. ASSUME NEW c \in Seen, b + 1 <= c, ~(ChunkStart(want + 1) <= c)
         PROVE  \E j \in h + 1 .. Len(xhits) : xhits[j] = c
    <3>1. c \in Nat
      BY ScanAssumption DEF Seen
    <3>2. pos <= c /\ c # b
      BY <1>0, <2>8, <2>10, <3>1
    <3>3. PICK j \in h .. Len(xhits) : xhits[j] = c
      BY <2>2, <2>10, <3>2
    <3>4. j # h
      BY <3>2, <3>3
    <3>5. j \in h + 1 .. Len(xhits)
      BY <2>7, <3>3, <3>4
    <3> QED
      BY <3>3, <3>5
  <2>11. b + 1 <= ChunkStart(want + 1) /\ h + 1 <= Len(xhits) + 1
    BY <2>4, <2>5, <2>6, <2>7, <2>8
  <2>12. HitList(xhits', ChunkStart(want'), ChunkStart(want') + slot'[SlotFor(want')].n)
    BY <2>1, <2>2 DEF lo, s
  <2>13. ~ScanFinished'
    BY <2>1 DEF ScanFinished
  <2> HIDE DEF b
  <2>14. \A j \in h' .. Len(xhits') : pos' <= xhits'[j]
    BY <2>1, <2>9
  <2>15. \A c \in Seen : pos' <= c =>
               \/ ChunkStart(want' + 1) <= c
               \/ \E j \in h' .. Len(xhits') : xhits'[j] = c
    BY <2>1, <2>10
  <2> QED
    BY <2>1, <2>2, <2>11, <2>12, <2>13, <2>14, <2>15 DEF WriterInv, Seen
<1>4. CASE WriterAdvance
  <2>1. /\ xpc = "advance" /\ xpc' = "gate" /\ want' = want
        /\ nextWrite' = want + 1 /\ pos' = pos
    BY <1>4 DEF WriterAdvance
  <2>2. Drained = want + 1 /\ Drained' = want + 1 /\ ~ScanFinished'
    BY <2>1 DEF Drained, ScanFinished
  <2> QED
    BY <2>1, <2>2 DEF WriterInv, Seen
<1>5. CASE WriterGate
  <2>1. /\ xpc = "gate" /\ want' = nextWrite /\ nextWrite' = nextWrite
        /\ xpc' = IF readerDone /\ nextWrite >= totalChunks THEN "join" ELSE "lock"
        /\ pos' = pos
    BY <1>5 DEF WriterGate
  <2>2. Drained = nextWrite /\ Drained' = nextWrite
    BY <2>1 DEF Drained
  <2>3. ScanFinished' => ChunkStart(Drained) >= End
    BY <2>1, <2>2, NothingLeft DEF ScanFinished
  <2> QED
    BY <2>1, <2>2, <2>3 DEF WriterInv, Seen
<1>6. CASE WriterQuit
  <2>1. /\ xpc = "lock" /\ want' = want /\ nextWrite' = nextWrite
        /\ xpc' = "join" /\ pos' = pos /\ readerDone /\ want >= totalChunks
    BY <1>6 DEF WriterQuit
  <2>2. Drained = nextWrite /\ Drained' = nextWrite /\ want = nextWrite
    BY <2>1 DEF Drained, WriterInv
  <2>3. ChunkStart(Drained) >= End
    BY <2>1, <2>2, NothingLeft
  <2> QED
    BY <2>1, <2>2, <2>3 DEF WriterInv, Seen
<1>7. CASE Launch \/ SetupFails \/ Join
  <2>1. /\ xpc \in {"setup", "join"} /\ xpc' \in {"gate", "failed", "return"}
        /\ xpc' = "return" => xpc = "join"
        /\ want' = want /\ nextWrite' = nextWrite /\ pos' = pos
    BY <1>7 DEF Launch, SetupFails, Join
  <2>2. Drained = nextWrite /\ Drained' = nextWrite
    BY <2>1 DEF Drained
  <2>3. ScanFinished' => ScanFinished
    BY <2>1 DEF ScanFinished
  <2> QED
    BY <2>1, <2>2, <2>3 DEF WriterInv, Seen
<1>8. CASE UNCHANGED <<writer, nextWrite, pos>> /\ ~WriterTake /\ ~WriterRecycle
  <2>1. /\ xpc' = xpc /\ want' = want /\ xhits' = xhits /\ h' = h
        /\ nextWrite' = nextWrite /\ pos' = pos
    BY <1>8
  <2>2. Drained' = Drained /\ ScanFinished' = ScanFinished
    BY <2>1 DEF Drained, ScanFinished
  <2>3. CASE xpc = "dump"
    <3>1. slot'[SlotFor(want)] = slot[SlotFor(want)]
      BY <1>8, <2>3, DumpSlot
    <3> QED
      BY <2>1, <2>2, <3>1 DEF WriterInv, Seen
  <2>4. CASE xpc # "dump"
    BY <2>1, <2>2, <2>4 DEF WriterInv, Seen
  <2> QED
    BY <2>3, <2>4
<1>9. ASSUME ~WriterTake, ~WriterRecycle, ~WriterDump, ~WriterAdvance, ~WriterGate,
             ~WriterQuit, ~(Launch \/ SetupFails \/ Join)
      PROVE  UNCHANGED <<writer, nextWrite, pos>>
  BY <1>9 DEF Next, vars, ReaderStep, WriterStep, WorkerStep, Returned,
         ReaderWait, ReaderFill, ReaderTotal, ReaderDone, ReaderBroadcast,
         WorkerClaim, WorkerWait, WorkerBail, WorkerTake, WorkerScan,
         WorkerFinish, WriterWait, SpuriousWakeup
<1> QED
  BY <1>1, <1>2, <1>3, <1>4, <1>5, <1>6, <1>7, <1>8, <1>9

-----------------------------------------------------------------------------
(* The invariants. *)

LEMMA PipelineInvInit == Init => PipelineInv
<1> SUFFICES ASSUME Init PROVE PipelineInv
  OBVIOUS
<1>1. TypeOK
  BY TypeOKInit
<1>2. /\ Drained = 0 /\ rchunk = 0 /\ nextRead = 0 /\ xpc = "setup" /\ pos = Start
      /\ cur = Start /\ rpc = "none" /\ totalChunks = -1 /\ readerDone = FALSE
  BY DEF Init, Drained
<1>3. \A i \in SlotIds : slot[i].state = "EMPTY"
  BY DEF Init
<1>4. \A w \in Workers : wpc[w] = "none"
  BY DEF Init
<1>5. ChunkStart(0) = Start /\ RingSlots \in Nat
  BY ScanAssumption DEF ChunkStart
<1>6. RingWindow
  BY <1>2, <1>3, <1>5 DEF RingWindow
<1>7. SlotOwnership
  BY <1>2, <1>4 DEF SlotOwnership
<1>8. NoAbandonedChunk
  BY <1>3 DEF NoAbandonedChunk
<1>9. ReaderInv
  BY <1>2, <1>5 DEF ReaderInv
<1>10. ClaimInv
  BY <1>2, <1>4 DEF ClaimInv
<1>11. ContentInv
  BY <1>3 DEF ContentInv
<1>12. ScanInv
  BY <1>4 DEF ScanInv
<1>13. WriterInv
  <2>1. Start \in Nat /\ ~ScanFinished
    BY <1>2, ScanAssumption DEF ScanFinished
  <2> QED
    BY <1>2, <1>5, <2>1 DEF WriterInv
<1> QED
  BY <1>1, <1>6, <1>7, <1>8, <1>9, <1>10, <1>11, <1>12, <1>13 DEF PipelineInv

LEMMA PipelineInvNext == PipelineInv /\ [Next]_vars => PipelineInv'
<1> SUFFICES ASSUME PipelineInv, [Next]_vars PROVE PipelineInv'
  OBVIOUS
<1>1. /\ TypeOK /\ RingWindow /\ SlotOwnership /\ NoAbandonedChunk
      /\ ReaderInv /\ ClaimInv /\ ContentInv /\ ScanInv /\ WriterInv
  BY DEF PipelineInv
<1>2. TypeOK'
  BY <1>1, TypeOKNext
<1>3. RingWindow' /\ SlotOwnership' /\ NoAbandonedChunk'
  BY <1>1, <1>2, RingWindowNext, SlotOwnershipNext, NoAbandonedChunkNext
<1>4. ReaderInv' /\ ClaimInv' /\ ContentInv'
  BY <1>1, <1>2, ReaderInvNext, ClaimInvNext, ContentInvNext
<1>5. ScanInv' /\ WriterInv'
  BY <1>1, <1>2, ScanInvNext, WriterInvNext
<1> QED
  BY <1>2, <1>3, <1>4, <1>5 DEF PipelineInv

\* The inductive invariant of the pipeline holds in every behaviour.
THEOREM PipelineCorrect == Spec => []PipelineInv
  BY PipelineInvInit, PipelineInvNext, PTL DEF Spec

\* slot_for_chunk() never makes two chunks in flight share a slot: the reader
\* overwrites none that is not drained, the writer recycles only the oldest.
THEOREM RingWindowCorrect == Spec => []RingWindow
<1>1. PipelineInv => RingWindow
  BY DEF PipelineInv
<1> QED
  BY <1>1, PipelineCorrect, PTL

\* The unlocked scan of a worker and the unlocked dump of the writer work on
\* slots nobody else writes, whatever the number of threads.
THEOREM SlotOwnershipCorrect == Spec => []SlotOwnership
<1>1. PipelineInv => SlotOwnership
  BY DEF PipelineInv
<1> QED
  BY <1>1, PipelineCorrect, PTL

\* The worker's racy read of reader_done and total_chunks never makes it
\* abandon a chunk the reader produced.
THEOREM NoAbandonedChunkCorrect == Spec => []NoAbandonedChunk
<1>1. PipelineInv => NoAbandonedChunk
  BY DEF PipelineInv
<1> QED
  BY <1>1, PipelineCorrect, PTL

-----------------------------------------------------------------------------
(* No lost wakeup, and no deadlock round the ring. *)

\* A worker only gives up its chunk, or finds none to claim, after the end
\* was announced, and the writer leaves the drain only then.
LEMMA EndInvNext ==
  ASSUME PipelineInv, EndInv, [Next]_vars PROVE EndInv'
<1> USE DEF gate, reader, worker, writer, output, ScanFinished
<1>0. TypeOK /\ RingWindow /\ SlotOwnership /\ ReaderInv /\ ClaimInv
  BY DEF PipelineInv
<1>1. CASE ReaderTotal \/ ReaderDone \/ ReaderBroadcast \/ ReaderFill
           \/ ReaderWait
  BY <1>0, <1>1 DEF ReaderTotal, ReaderDone, ReaderBroadcast, ReaderFill,
                    ReaderWait, EndInv, ReaderInv, TypeOK
<1>2. ASSUME NEW w \in Workers, WorkerClaim(w) PROVE EndInv'
  BY <1>0, <1>2 DEF WorkerClaim, EndInv, ReaderInv, TypeOK
<1>3. ASSUME NEW w \in Workers, WorkerBail(w) PROVE EndInv'
  <2>1. /\ readerDone /\ wpc[w] = "lock" /\ ~Ready(w)
        /\ totalChunks = rchunk /\ mine[w] < nextRead
        /\ mine[w] \in Nat /\ SlotFor(mine[w]) \in SlotIds
    BY <1>0, <1>3, SlotForType
       DEF WorkerBail, MaySeePastEnd, ReaderInv, ClaimInv, TypeOK
  <2>2. ASSUME mine[w] < rchunk PROVE FALSE
    <3>1. Drained <= mine[w] /\ slot[SlotFor(mine[w])].state = "FILLED"
      BY <1>0, <2>1, <2>2 DEF ClaimInv
    <3>2. mine[w] \in Drained .. rchunk - 1
      BY <1>0, <2>1, <2>2, <3>1 DEF TypeOK, Drained
    <3>3. slot[SlotFor(mine[w])].chunk = mine[w]
      BY <1>0, <3>2 DEF RingWindow
    <3> QED
      BY <2>1, <3>1, <3>3 DEF Ready
  <2>3. nextRead >= totalChunks
    BY <1>0, <2>1, <2>2 DEF TypeOK
  <2> QED
    BY <1>0, <1>3, <2>1, <2>3 DEF WorkerBail, EndInv, TypeOK
<1>4. ASSUME NEW w \in Workers,
             WorkerWait(w) \/ WorkerTake(w) \/ WorkerScan(w) \/ WorkerFinish(w)
      PROVE  EndInv'
  BY <1>0, <1>4 DEF WorkerWait, WorkerTake, WorkerScan, WorkerFinish, EndInv,
                    TypeOK
<1>5. CASE Launch
  BY <1>0, <1>5 DEF Launch, EndInv, Threads, ReaderInv
<1>6. CASE WriterGate \/ WriterQuit \/ WriterWait \/ WriterTake \/ WriterDump
           \/ WriterRecycle \/ WriterAdvance \/ Join \/ SetupFails
  BY <1>6 DEF WriterGate, WriterQuit, WriterWait, WriterTake, WriterDump,
              WriterRecycle, WriterAdvance, Join, SetupFails, EndInv
<1>7. CASE UNCHANGED <<gate, reader, worker, writer>>
  BY <1>7 DEF EndInv
<1> QED
  BY <1>1, <1>2, <1>3, <1>4, <1>5, <1>6, <1>7
     DEF Next, vars, ReaderStep, WriterStep, WorkerStep, Returned,
         SpuriousWakeup

\* Whom the broadcast of slot i leaves asleep.
LEMMA StillAsleep ==
  ASSUME TypeOK, NEW i, Broadcast(i)
  PROVE  /\ Reader \in waiting' => Reader \in waiting /\ SlotFor(rchunk) # i
         /\ Writer \in waiting' => Writer \in waiting /\ SlotFor(want) # i
         /\ \A w \in Workers : w \in waiting' =>
               w \in waiting /\ SlotFor(mine[w]) # i
  BY ScanAssumption DEF Broadcast, SlotOf, Reader, Writer

LEMMA NoLostWakeupNext ==
  ASSUME PipelineInv, NoLostWakeup, [Next]_vars PROVE NoLostWakeup'
<1> USE DEF gate, reader, worker, writer, output
<1>0. /\ TypeOK /\ RingWindow /\ SlotOwnership /\ ReaderInv /\ ClaimInv
      /\ WriterInv
      /\ want \in Nat /\ SlotFor(want) \in SlotIds /\ SlotFor(rchunk) \in SlotIds
      /\ \A w \in Workers : mine[w] \in Nat /\ SlotFor(mine[w]) \in SlotIds
  BY SlotForType DEF PipelineInv, TypeOK
<1>1. CASE ReaderWait
  BY <1>1, ScanAssumption DEF ReaderWait, NoLostWakeup, Ready, Finished,
                              MayMissDone, Reader, Writer
<1>2. CASE ReaderFill
  <2>1. /\ UNCHANGED <<gate, rpc, bcast, worker, writer, output>>
        /\ Broadcast(SlotFor(rchunk)) /\ Reader \notin waiting
        /\ \A i \in SlotIds : i # SlotFor(rchunk) => slot'[i] = slot[i]
    BY <1>0, <1>2, FillStep DEF ReaderFill, Running
  <2> QED
    BY <1>0, <2>1, StillAsleep
       DEF NoLostWakeup, Ready, Finished, MayMissDone, Broadcast
<1>3. CASE ReaderTotal
  <2>1. /\ ~readerDone /\ ~readerDone'
        /\ UNCHANGED <<slot, waiting, rchunk, worker, writer>>
    BY <1>0, <1>3 DEF ReaderTotal, ReaderInv
  <2>2. ~(cur < End)
    BY <1>0, <1>3, ScanAssumption DEF ReaderTotal, TypeOK
  <2>3. Reader \notin waiting
    BY <2>2 DEF NoLostWakeup
  <2> QED
    BY <2>1, <2>3 DEF NoLostWakeup, Ready, Finished, MayMissDone
<1>4. CASE ReaderDone
  <2>1. ASSUME NEW i \in SlotIds PROVE 0 <= i
    BY DEF SlotIds
  <2> QED
    BY <1>0, <1>4, <2>1 DEF ReaderDone, NoLostWakeup, Ready, Finished,
                            MayMissDone
<1>5. CASE ReaderBroadcast
  <2>1. /\ rpc = "bcast" /\ bcast' = bcast + 1 /\ Broadcast(bcast)
        /\ rpc' = IF bcast + 1 = RingSlots THEN "end" ELSE "bcast"
        /\ UNCHANGED <<gate, slot, rchunk, cur, worker, writer, output>>
    BY <1>5 DEF ReaderBroadcast
  <2>2. ASSUME NEW i \in SlotIds, i # bcast, bcast <= i
        PROVE  rpc' = "bcast" /\ bcast' <= i
    BY <1>0, <2>1, <2>2, ScanAssumption DEF SlotIds, TypeOK
  <2>3. Reader \notin waiting
    BY <2>1 DEF NoLostWakeup
  <2>4. /\ Writer \in waiting' => Writer \in waiting /\ SlotFor(want) # bcast
        /\ Reader \notin waiting'
        /\ \A w \in Workers : w \in waiting' =>
              w \in waiting /\ SlotFor(mine[w]) # bcast
    BY <1>0, <2>1, <2>3, StillAsleep
  <2>5. ASSUME NEW w \in Workers, w \in waiting'
        PROVE  /\ wpc'[w] = "lock" /\ ~Ready(w)'
               /\ MayMissDone(w)' \/ mine'[w] < totalChunks'
    BY <1>0, <2>1, <2>2, <2>4, <2>5 DEF NoLostWakeup, Ready, MayMissDone
  <2>6. Writer \in waiting' =>
          /\ xpc' = "lock" /\ ~Finished'
          /\ \/ ~(readerDone' /\ want' >= totalChunks')
             \/ rpc' = "bcast" /\ bcast' <= SlotFor(want')
    BY <1>0, <2>1, <2>2, <2>4 DEF NoLostWakeup, Finished
  <2> QED
    BY <2>4, <2>5, <2>6 DEF NoLostWakeup
<1>6. ASSUME NEW w \in Workers, WorkerClaim(w) \/ WorkerBail(w)
      PROVE  NoLostWakeup'
  <2>1. /\ w \notin waiting
        /\ UNCHANGED <<totalChunks, readerDone, slot, waiting, reader, writer>>
        /\ \A v \in Workers : v # w => wpc'[v] = wpc[v] /\ mine'[v] = mine[v]
    BY <1>0, <1>6 DEF WorkerClaim, WorkerBail, NoLostWakeup, Running, TypeOK
  <2> QED
    BY <2>1 DEF NoLostWakeup, Ready, Finished, MayMissDone
<1>7. ASSUME NEW w \in Workers, WorkerWait(w) PROVE NoLostWakeup'
  BY <1>7, ScanAssumption DEF WorkerWait, NoLostWakeup, Ready, Finished,
                              MayMissDone
<1>8. ASSUME NEW w \in Workers, WorkerTake(w) PROVE NoLostWakeup'
  <2>1. w \notin waiting
    BY <1>8 DEF WorkerTake, Running
  <2> QED
    BY <1>0, <1>8, <2>1, TakeStep
       DEF NoLostWakeup, Ready, Finished, MayMissDone, TypeOK
<1>9. ASSUME NEW w \in Workers, WorkerScan(w) PROVE NoLostWakeup'
  <2>1. \A i \in SlotIds : slot'[i].state = slot[i].state
                           /\ slot'[i].chunk = slot[i].chunk
    BY <1>0, <1>9, ScanStep
  <2> QED
    BY <1>0, <1>9, <2>1, ScanStep
       DEF NoLostWakeup, Ready, Finished, MayMissDone
<1>10. ASSUME NEW w \in Workers, WorkerFinish(w) PROVE NoLostWakeup'
  <2>1. Broadcast(SlotFor(mine[w])) /\ w \notin waiting
    BY <1>10 DEF WorkerFinish, NoLostWakeup
  <2>2. /\ wpc' = [wpc EXCEPT ![w] = "claim"]
        /\ UNCHANGED <<gate, reader, mine, writer>>
        /\ \A j \in SlotIds : j # SlotFor(mine[w]) => slot'[j] = slot[j]
    BY <1>0, <1>10, FinishStep
  <2>3. waiting' \subseteq waiting
    BY <2>1 DEF Broadcast
  <2> QED
    BY <1>0, <2>1, <2>2, <2>3, StillAsleep
       DEF NoLostWakeup, Ready, Finished, MayMissDone, TypeOK
<1>11. CASE Launch
  BY <1>0, <1>11 DEF Launch, NoLostWakeup, ReaderInv, ClaimInv
<1>12. CASE SetupFails \/ WriterGate \/ WriterQuit \/ WriterDump
            \/ WriterAdvance \/ Join
  BY <1>12 DEF SetupFails, WriterGate, WriterQuit, WriterDump, WriterAdvance,
               Join, NoLostWakeup, Ready, Finished, MayMissDone, Running
<1>13. CASE WriterWait
  BY <1>13, ScanAssumption DEF WriterWait, NoLostWakeup, Ready, Finished,
                               MayMissDone, Reader, Writer
<1>14. CASE WriterTake
  <2>1. Writer \notin waiting
    BY <1>14 DEF WriterTake, Running
  <2>2. \A i \in SlotIds : slot'[i].state = slot[i].state
                           /\ slot'[i].chunk = slot[i].chunk
    BY <1>0, <1>14, WriterTakeStep
  <2> QED
    BY <1>0, <1>14, <2>1, <2>2, WriterTakeStep
       DEF NoLostWakeup, Ready, MayMissDone
<1>15. CASE WriterRecycle
  <2>1. /\ Broadcast(SlotFor(want)) /\ Writer \notin waiting
        /\ UNCHANGED <<gate, reader, worker, want>>
    BY <1>15 DEF WriterRecycle, NoLostWakeup
  <2>2. \A i \in SlotIds : i # SlotFor(want) => slot'[i] = slot[i]
    BY <1>0, <1>15, RecycleStep
  <2>3. waiting' \subseteq waiting
    BY <2>1 DEF Broadcast
  <2> QED
    BY <1>0, <2>1, <2>2, <2>3, StillAsleep
       DEF NoLostWakeup, Ready, MayMissDone
<1>16. CASE \E t \in Threads : SpuriousWakeup(t)
  BY <1>16 DEF SpuriousWakeup, NoLostWakeup, Ready, Finished, MayMissDone
<1>17. CASE UNCHANGED vars
  BY <1>17 DEF vars, NoLostWakeup, Ready, Finished, MayMissDone
<1> QED
  BY <1>1, <1>2, <1>3, <1>4, <1>5, <1>6, <1>7, <1>8, <1>9, <1>10, <1>11,
     <1>12, <1>13, <1>14, <1>15, <1>16, <1>17
     DEF Next, ReaderStep, WriterStep, WorkerStep, Returned

\* Nobody sleeps through the broadcast he waits for, whatever the number of
\* workers and slots, and even when pthread_create() failed for some thread.
THEOREM NoLostWakeupCorrect == Spec => []NoLostWakeup
<1>1. Init => NoLostWakeup
  BY DEF Init, NoLostWakeup
<1>2. PipelineInv /\ NoLostWakeup /\ [Next]_vars => NoLostWakeup'
  BY NoLostWakeupNext
<1> QED
  BY <1>1, <1>2, PipelineCorrect, PTL DEF Spec

\* The chunk the writer waits for, when the reader has produced it, is in the
\* hands of a worker that is awake.
LEMMA DueChunkMoves ==
  ASSUME PipelineInv, EndInv, NoLostWakeup, ~CreateMayFail,
         Writer \in waiting, want < rchunk
  PROVE  \E w \in Workers : wpc[w] \in {"claim", "lock", "scan"} /\ Running(w)
<1>0. /\ TypeOK /\ RingWindow /\ SlotOwnership /\ NoAbandonedChunk /\ ReaderInv
      /\ ClaimInv /\ WriterInv
      /\ want \in Nat /\ SlotFor(want) \in SlotIds
      /\ rchunk \in Nat /\ nextRead \in Nat
  BY SlotForType DEF PipelineInv, TypeOK
<1>1. xpc = "lock" /\ ~Finished /\ want = nextWrite /\ Drained = want
  BY <1>0 DEF NoLostWakeup, WriterInv, Drained
<1>2. slot[SlotFor(want)].state # "EMPTY" /\ slot[SlotFor(want)].chunk = want
  BY <1>0, <1>1 DEF RingWindow
<1>3. slot[SlotFor(want)].state \in {"FILLED", "PROCESSING"}
  <2>1. slot[SlotFor(want)] \in SlotRecords
    BY <1>0 DEF TypeOK
  <2> QED
    BY <1>1, <1>2, <2>1 DEF Finished, SlotRecords
<1>4. CASE slot[SlotFor(want)].state = "PROCESSING"
  <2>1. PICK w \in Workers : wpc[w] = "scan"
    BY <1>0, <1>4 DEF NoAbandonedChunk
  <2> QED
    BY <2>1 DEF NoLostWakeup, Running
<1>5. ASSUME NEW w \in Workers, wpc[w] = "lock", mine[w] = want,
             slot[SlotFor(want)].state = "FILLED"
      PROVE  Running(w)
  BY <1>2, <1>5 DEF NoLostWakeup, Running, Ready
<1>6. CASE /\ slot[SlotFor(want)].state = "FILLED"
           /\ nextRead <= want
  <2>1. PICK w \in Workers : TRUE
    BY ScanAssumption
  <2>2. wpc[w] # "none" /\ wpc[w] # "exit"
    BY <1>0, <1>1, <1>6 DEF EndInv, ReaderInv
  <2>3. wpc[w] \in {"claim", "lock", "scan"}
    BY <1>0, <2>2 DEF TypeOK
  <2>4. wpc[w] # "lock"
    <3> SUFFICES ASSUME wpc[w] = "lock" PROVE FALSE
      OBVIOUS
    <3>1. mine[w] \in Nat /\ mine[w] < nextRead
      BY <1>0 DEF ClaimInv, TypeOK
    <3>2. Drained <= mine[w]
      BY <1>0, <1>6, <3>1 DEF ClaimInv
    <3> QED
      BY <1>0, <1>1, <1>6, <3>1, <3>2
  <2> QED
    BY <2>3, <2>4 DEF NoLostWakeup, Running
<1>7. CASE slot[SlotFor(want)].state = "FILLED" /\ ~(nextRead <= want)
  <2>1. PICK w \in Workers : wpc[w] = "lock" /\ mine[w] = want
    BY <1>0, <1>2, <1>7 DEF NoAbandonedChunk
  <2> QED
    BY <1>5, <1>7, <2>1
<1> QED
  BY <1>3, <1>4, <1>6, <1>7

\* From the invariants: whoever sleeps, somebody he waits for does not.
LEMMA RingTurns ==
  ASSUME PipelineInv, EndInv, NoLostWakeup, ~CreateMayFail
  PROVE  SomeThreadRuns
<1>0. /\ TypeOK /\ RingWindow /\ SlotOwnership /\ NoAbandonedChunk /\ ReaderInv
      /\ ClaimInv /\ WriterInv
      /\ want \in Nat /\ SlotFor(want) \in SlotIds
      /\ rchunk \in Nat /\ nextRead \in Nat /\ SlotFor(rchunk) \in SlotIds
  BY SlotForType DEF PipelineInv, TypeOK
<1>1. CASE Writer \in waiting
  <2>1. xpc = "lock" /\ want = nextWrite /\ Drained = want
    BY <1>0, <1>1 DEF NoLostWakeup, WriterInv, Drained
  <2>2. CASE want < rchunk
    BY <1>1, <2>2, DueChunkMoves DEF SomeThreadRuns
  <2>3. CASE want = rchunk
    <3>1. Reader \notin waiting
      BY <1>0, <2>1, <2>3 DEF NoLostWakeup, RingWindow
    <3>2. CASE rpc = "end"
      BY <1>0, <1>1, <2>3, <3>2 DEF EndInv, ReaderInv, NoLostWakeup
    <3>3. CASE rpc \in {"read", "done", "bcast"}
      BY <3>1, <3>3 DEF SomeThreadRuns, Running
    <3> QED
      BY <1>0, <2>1, <3>2, <3>3 DEF EndInv, TypeOK
  <2> QED
    BY <1>0, <2>1, <2>2, <2>3 DEF RingWindow
<1>2. CASE xpc = "join"
  <2>1. readerDone /\ totalChunks = rchunk /\ rpc \in {"bcast", "end"}
    BY <1>0, <1>2 DEF EndInv, ScanFinished, ReaderInv
  <2>2. CASE rpc = "bcast"
    BY <2>2 DEF SomeThreadRuns, NoLostWakeup, Running
  <2>3. ASSUME NEW w \in Workers, w \in waiting, rpc = "end" PROVE FALSE
    <3>1. /\ wpc[w] = "lock" /\ ~Ready(w) /\ mine[w] < rchunk
          /\ mine[w] \in Nat
      BY <1>0, <2>1, <2>3 DEF NoLostWakeup, MayMissDone, TypeOK
    <3>2. Drained <= mine[w] /\ slot[SlotFor(mine[w])].state = "FILLED"
      BY <1>0, <3>1 DEF ClaimInv
    <3>3. mine[w] \in Drained .. rchunk - 1
      BY <1>0, <3>1, <3>2 DEF TypeOK, Drained
    <3> QED
      BY <1>0, <3>1, <3>2, <3>3 DEF RingWindow, Ready
  <2>4. ASSUME NEW w \in Workers, wpc[w] \notin {"exit", "none"}
        PROVE  wpc[w] \in {"claim", "lock", "scan"}
    BY <1>0, <2>4 DEF TypeOK
  <2> QED
    BY <1>2, <2>1, <2>2, <2>3, <2>4 DEF SomeThreadRuns, Running
<1> QED
  BY <1>1, <1>2 DEF SomeThreadRuns, Running

\* When every thread could be created, the pipeline never deadlocks: some
\* thread can always go on, for every number of workers and of ring slots.
THEOREM SomeThreadRunsCorrect ==
  ASSUME CreateMayFail = FALSE PROVE Spec => []SomeThreadRuns
<1>1. Init => EndInv
  BY DEF Init, EndInv, ScanFinished
<1>2. PipelineInv /\ EndInv /\ [Next]_vars => EndInv'
  BY EndInvNext
<1>3. PipelineInv /\ EndInv /\ NoLostWakeup => SomeThreadRuns
  BY RingTurns
<1> QED
  BY <1>1, <1>2, <1>3, PipelineCorrect, NoLostWakeupCorrect, PTL DEF Spec

-----------------------------------------------------------------------------
(* The parallel scan implements the serial one on the headers it sees. *)

\* A listed hit is a header the scan sees.
LEMMA HitSeen ==
  ASSUME PipelineInv, xpc = "dump", h <= Len(xhits)
  PROVE  xhits[h] \in Seen
<1>0. /\ TypeOK /\ ContentInv /\ WriterInv /\ SlotOwnership
  BY DEF PipelineInv
<1> DEFINE b == xhits[h]
           s == slot[SlotFor(want)]
           lo == ChunkStart(want)
<1>1. /\ s.state = "DONE" /\ s.chunk = want
      /\ HitList(xhits, lo, lo + s.n)
  BY <1>0 DEF SlotOwnership, WriterInv
<1>2. want \in Nat /\ SlotFor(want) \in SlotIds /\ h \in 1 .. Len(xhits)
  <2>1. want \in Nat /\ SlotFor(want) \in SlotIds /\ h \in Nat \ {0} /\ xhits \in HitSeqs
    BY <1>0, SlotForType DEF TypeOK
  <2>2. Len(xhits) \in Nat
    BY <2>1 DEF HitSeqs
  <2> QED
    BY <2>1, <2>2
<1>3. /\ s.start = lo /\ s.n <= ChunkBlocks
      /\ \A c \in lo .. lo + s.n - 1 : c \notin Bad
  BY <1>0, <1>1, <1>2 DEF ContentInv
<1>4. s.n \in Nat /\ lo \in Nat /\ ChunkBlocks \in Nat \ {0} /\ Start \in Nat /\ End \in Nat
  BY <1>0, <1>2, ChunkStep, ScanAssumption DEF TypeOK, SlotRecords
<1>5. lo = Start + want * ChunkBlocks
  BY DEF ChunkStart
<1> HIDE DEF s, lo
<1>6. b \in Headers /\ b \in Nat /\ lo <= b /\ b < lo + s.n /\ b < End
  BY <1>1, <1>2, ScanAssumption DEF HitList
<1>7. b < lo + ChunkBlocks /\ \A c \in lo .. b : c \notin Bad
  BY <1>3, <1>4, <1>6
<1>8. want \in 0 .. End - Start
  <2>1. want * ChunkBlocks >= want
    BY <1>2, <1>4
  <2>2. want * ChunkBlocks \in Nat
    BY <1>2, <1>4
  <2> QED
    BY <1>2, <1>4, <1>5, <1>6, <2>1, <2>2
<1> QED
  BY <1>6, <1>7, <1>8 DEF Seen, lo

\* It is the first one not handled yet.
LEMMA HitNext ==
  ASSUME PipelineInv, xpc = "dump", h <= Len(xhits)
  PROVE  pos <= xhits[h] /\ \A c \in Seen : pos <= c => xhits[h] <= c
<1>0. /\ TypeOK /\ ContentInv /\ WriterInv /\ SlotOwnership
  BY DEF PipelineInv
<1> DEFINE s == slot[SlotFor(want)]
           lo == ChunkStart(want)
<1>1. /\ s.state = "DONE" /\ HitList(xhits, lo, lo + s.n)
      /\ \A j \in h .. Len(xhits) : pos <= xhits[j]
      /\ \A b \in Seen : pos <= b =>
               \/ ChunkStart(want + 1) <= b
               \/ \E j \in h .. Len(xhits) : xhits[j] = b
  BY <1>0 DEF SlotOwnership, WriterInv
<1>2. want \in Nat /\ SlotFor(want) \in SlotIds /\ h \in 1 .. Len(xhits) /\ Len(xhits) \in Nat
  <2>1. want \in Nat /\ SlotFor(want) \in SlotIds /\ h \in Nat \ {0} /\ xhits \in HitSeqs
    BY <1>0, SlotForType DEF TypeOK
  <2>2. Len(xhits) \in Nat
    BY <2>1 DEF HitSeqs
  <2> QED
    BY <2>1, <2>2
<1>3. s.n <= ChunkBlocks
  BY <1>0, <1>1, <1>2 DEF ContentInv
<1>4. s.n \in Nat
  BY <1>0, <1>2 DEF TypeOK, SlotRecords
<1>5. lo \in Nat /\ ChunkBlocks \in Nat /\ ChunkStart(want + 1) = lo + ChunkBlocks
  BY <1>2, ChunkStep, ScanAssumption
<1> HIDE DEF s, lo
<1>6. xhits[h] \in Nat /\ xhits[h] < lo + s.n
  BY <1>1, <1>2, ScanAssumption DEF HitList
<1>7. ASSUME NEW c \in Seen, pos <= c PROVE xhits[h] <= c
  <2>1. CASE ChunkStart(want + 1) <= c
    <3>1. c \in Nat
      BY ScanAssumption DEF Seen
    <3> QED
      BY <1>3, <1>4, <1>5, <1>6, <2>1, <3>1
  <2>2. CASE \E j \in h .. Len(xhits) : xhits[j] = c
    <3>1. PICK j \in h .. Len(xhits) : xhits[j] = c
      BY <2>2
    <3>2. CASE j = h
      BY <1>6, <3>1, <3>2
    <3>3. CASE j # h
      <4>1. j \in 1 .. Len(xhits) /\ h < j
        BY <1>2, <3>1, <3>3
      <4>2. xhits[h] < xhits[j] /\ xhits[j] \in Nat
        BY <1>1, <1>2, <4>1, ScanAssumption DEF HitList
      <4> QED
        BY <1>6, <3>1, <4>2
    <3> QED
      BY <3>2, <3>3
  <2> QED
    BY <1>1, <1>7, <2>1, <2>2
<1> QED
  BY <1>1, <1>2, <1>7

LEMMA SerialInit == Init => Ordered!Init
  BY DEF Init, Ordered!Init, ScanFinished

LEMMA SerialStep ==
  ASSUME PipelineInv, [Next]_vars
  PROVE  [Ordered!Next]_(Ordered!vars)
<1> USE DEF gate, reader, worker, writer, output
<1>0. TypeOK /\ RingWindow /\ ReaderInv /\ WriterInv
  BY DEF PipelineInv
<1>1. CASE WriterDump
  <2> DEFINE b == xhits[h]
  <2>1. /\ xpc = "dump" /\ h <= Len(xhits) /\ pos' = b + 1 /\ xpc' = xpc
        /\ IF b \in recovered \/ b \in Bad
           THEN UNCHANGED <<recovered, dumped>>
           ELSE /\ recovered' = recovered \cup Marks[b]
                /\ dumped' = Append(dumped, b)
    BY <1>1 DEF WriterDump
  <2>2. b \in Seen /\ pos <= b /\ \A c \in Seen : pos <= c => b <= c
    BY <2>1, HitSeen, HitNext
  <2> HIDE DEF b
  <2>3. b \notin Bad
    <3>1. PICK k \in 0 .. End - Start :
             /\ ChunkStart(k) <= b /\ \A c \in ChunkStart(k) .. b : c \notin Bad
      BY <2>2 DEF Seen
    <3>2. b \in Nat /\ ChunkStart(k) \in Nat
      BY <2>2, ChunkStep, ScanAssumption DEF Seen
    <3>3. b \in ChunkStart(k) .. b
      BY <3>1, <3>2
    <3> QED
      BY <3>1, <3>3
  <2>4. ScanFinished = FALSE /\ ScanFinished' = FALSE
    BY <2>1 DEF ScanFinished
  <2>5. Ordered!Visit(b)
    BY <2>1, <2>2, <2>3, <2>4 DEF Ordered!Visit, Ordered!IsNext
  <2> QED
    BY <2>2, <2>5 DEF Ordered!Next
<1>2. CASE (WriterGate \/ WriterQuit) /\ xpc' = "join"
  <2>1. /\ xpc \in {"gate", "lock"} /\ readerDone /\ nextWrite >= totalChunks
        /\ UNCHANGED <<pos, recovered, dumped>>
    BY <1>0, <1>2 DEF WriterGate, WriterQuit, WriterInv
  <2>2. Drained = nextWrite /\ ScanFinished = FALSE /\ ScanFinished' = TRUE
    BY <1>2, <2>1 DEF Drained, ScanFinished
  <2>3. ChunkStart(Drained) >= End
    BY <1>0, <2>1, <2>2, NothingLeft
  <2>4. \A c \in Seen : pos <= c => ChunkStart(Drained) <= c
    BY <1>0, <2>1 DEF WriterInv
  <2>5. nextWrite \in Nat /\ pos \in Nat
    BY <1>0 DEF TypeOK
  <2>6. ChunkStart(Drained) \in Nat /\ End \in Nat
    BY <2>2, <2>5, ChunkStep, ScanAssumption
  <2>7. \A c \in Seen : c \in Nat /\ c < End
    BY ScanAssumption DEF Seen
  <2>8. \A c \in Seen : c < pos
    BY <2>3, <2>4, <2>5, <2>6, <2>7
  <2> QED
    BY <2>1, <2>2, <2>8 DEF Ordered!Next, Ordered!Finish
<1>3. CASE (WriterGate \/ WriterQuit) /\ xpc' # "join"
  BY <1>3 DEF WriterGate, WriterQuit, ScanFinished, Ordered!vars
<1>4. CASE Launch \/ SetupFails \/ WriterTake \/ WriterRecycle \/ WriterAdvance \/ Join
  BY <1>4 DEF Launch, SetupFails, WriterTake, WriterRecycle, WriterAdvance, Join,
              ScanFinished, Ordered!vars
<1>5. CASE UNCHANGED <<xpc, output>>
  BY <1>5 DEF ScanFinished, Ordered!vars
<1>6. ASSUME ~WriterDump, ~WriterGate, ~WriterQuit,
             ~(Launch \/ SetupFails \/ WriterTake \/ WriterRecycle \/ WriterAdvance \/ Join)
      PROVE  UNCHANGED <<xpc, output>>
  BY <1>6 DEF Next, vars, ReaderStep, WriterStep, WorkerStep, Returned,
         ReaderWait, ReaderFill, ReaderTotal, ReaderDone, ReaderBroadcast,
         WorkerClaim, WorkerWait, WorkerBail, WorkerTake, WorkerScan,
         WorkerFinish, WriterWait, SpuriousWakeup
<1> QED
  BY <1>1, <1>2, <1>3, <1>4, <1>5, <1>6

\* Whatever the interleaving of reader, workers and writer, the parallel scan
\* makes the dumps a serial pass over the headers it sees would make.
THEOREM ParallelIsSerial == Spec => ScansSeenInOrder
  BY SerialInit, SerialStep, PipelineCorrect, PTL
     DEF Spec, ScansSeenInOrder, Ordered!Spec

\* Every header lies in some chunk, so without read errors it is seen.
LEMMA AllSeen == ASSUME Bad = {} PROVE Seen = Headers \ Bad
<1>1. ASSUME NEW b \in Headers PROVE b \in Seen
  <2> DEFINE k == (b - Start) \div ChunkBlocks
  <2>1. /\ b \in Nat /\ Start \in Nat /\ End \in Nat /\ Start <= b /\ b < End
        /\ ChunkBlocks \in Nat \ {0}
    BY ScanAssumption
  <2>2. /\ k \in Nat /\ k * ChunkBlocks <= b - Start
        /\ b - Start < k * ChunkBlocks + ChunkBlocks
    BY <2>1
  <2> HIDE DEF k
  <2>3. k * ChunkBlocks >= k /\ k * ChunkBlocks \in Nat
    BY <2>1, <2>2
  <2>4. k \in 0 .. End - Start
    BY <2>1, <2>2, <2>3
  <2>5. ChunkStart(k) <= b /\ b < ChunkStart(k) + ChunkBlocks
    BY <2>1, <2>2, <2>3 DEF ChunkStart
  <2> QED
    BY <2>4, <2>5 DEF Seen
<1> QED
  BY <1>1 DEF Seen

\* On a device that reads without errors the parallel scan is
\* indistinguishable from the single-threaded one.
THEOREM ParallelIsSerialWithoutErrors ==
  ASSUME Bad = {} PROVE Spec => EqualsSerialScan
<1>1. Seen = Headers \ Bad
  BY AllSeen
<1>2. Ordered!Init => Serial!Init
  BY DEF Ordered!Init, Serial!Init
<1>3. [Ordered!Next]_(Ordered!vars) => [Serial!Next]_(Serial!vars)
  BY <1>1 DEF Ordered!Next, Ordered!Visit, Ordered!IsNext, Ordered!Finish,
              Ordered!vars, Serial!Next, Serial!Visit, Serial!IsNext,
              Serial!Finish, Serial!vars
<1> QED
  BY <1>2, <1>3, ParallelIsSerial, PTL
     DEF ScansSeenInOrder, EqualsSerialScan, Ordered!Spec, Serial!Spec
=============================================================================
