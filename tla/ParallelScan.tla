---------------------------- MODULE ParallelScan ----------------------------
(***************************************************************************)
(* The parallel aggressive scan of parallel_scan.c: one reader thread      *)
(* fills a ring of chunk slots, worker threads claim chunk numbers and     *)
(* scan them for extent headers, and the calling thread drains the chunks  *)
(* in order and dumps every hit.                                           *)
(*                                                                         *)
(* A critical section (of the gate or of one slot's lock) is one step: no  *)
(* thread takes a slot lock while it holds the gate, so the locks cannot   *)
(* be waited for in a cycle.  What happens between two critical sections   *)
(* (the worker's scan, the writer's dump loop) is a step per block.  A     *)
(* thread blocked in pthread_cond_wait() is in the set `waiting`.          *)
(***************************************************************************)
EXTENDS Integers, Sequences, FiniteSets

CONSTANTS Workers,       \* worker threads
          RingSlots,     \* RING_SLOTS
          ChunkBlocks,   \* CHUNK_BYTES / blocksize
          Start, End,    \* scan range: Start, ..., End - 1
          Headers,       \* blocks holding a magic and a valid extent header
          Bad,           \* blocks the device fails to read
          Marks,         \* Marks[b]: blocks marked recovered by dumping b
          CreateMayFail  \* may pthread_create() fail?

Reader == "reader"
Writer == "writer"
Threads == Workers \cup {Reader, Writer}

ASSUME ScanAssumption ==
    /\ Workers # {} /\ {Reader, Writer} \cap Workers = {}
    /\ RingSlots \in Nat \ {0} /\ ChunkBlocks \in Nat \ {0}
    /\ Start \in Nat /\ End \in Nat /\ Start <= End
    /\ \A b \in Headers : b \in Nat /\ Start <= b /\ b < End
    /\ Marks \in [Headers -> SUBSET Headers]
    /\ CreateMayFail \in BOOLEAN

VARIABLES
    nextRead, nextWrite, totalChunks, readerDone,  \* scan_ctx, behind the gate
    slot,              \* the ring: chunk_slot records
    waiting,           \* threads inside pthread_cond_wait()
    rpc, rchunk, cur, bcast,              \* reader_thread
    wpc, mine, wblk,                      \* worker_thread
    xpc, want, xhits, h,                  \* writer_drain, on the main thread
    recovered, dumped,                    \* what the dumps leave behind
    pos                                   \* history: 1 + the last hit handled

gate   == <<nextRead, nextWrite, totalChunks, readerDone>>
reader == <<rpc, rchunk, cur, bcast>>
worker == <<wpc, mine, wblk>>
writer == <<xpc, want, xhits, h>>
output == <<recovered, dumped, pos>>
vars   == <<gate, slot, waiting, reader, worker, writer, output>>

SlotFor(k) == k % RingSlots
SlotIds == 0 .. RingSlots - 1

\* First block of chunk k (the reader's cur when chunk_index = k).
ChunkStart(k) == Start + k * ChunkBlocks

\* The slot whose condition variable thread t waits on.
SlotOf(t) == IF t = Reader THEN SlotFor(rchunk)
             ELSE IF t = Writer THEN SlotFor(want) ELSE SlotFor(mine[t])

\* pthread_cond_broadcast on slot i.
Broadcast(i) == waiting' = {t \in waiting : SlotOf(t) # i}

Running(t) == t \notin waiting

Init ==
    /\ nextRead = 0 /\ nextWrite = 0 /\ totalChunks = -1 /\ readerDone = FALSE
    /\ slot = [i \in SlotIds |-> [state |-> "EMPTY", chunk |-> 0, start |-> 0,
                                  n |-> 0, hits |-> << >>]]
    /\ waiting = {}
    /\ rpc = "none" /\ rchunk = 0 /\ cur = Start /\ bcast = 0
    /\ wpc = [w \in Workers |-> "none"]
    /\ mine = [w \in Workers |-> 0]
    /\ wblk = [w \in Workers |-> 0]
    /\ xpc = "setup" /\ want = 0 /\ xhits = << >> /\ h = 1
    /\ recovered = {} /\ dumped = << >> /\ pos = Start

-----------------------------------------------------------------------------
\* parallel_scan_for_extent_headers: buffers, then threads.  The results of
\* pthread_create() are ignored, so a thread in Threads \ up never runs.
Launch ==
    /\ xpc = "setup"
    /\ \E up \in IF CreateMayFail THEN SUBSET Threads ELSE {Threads} :
          /\ rpc' = IF Reader \in up THEN "read" ELSE "none"
          /\ wpc' = [w \in Workers |-> IF w \in up THEN "claim" ELSE "none"]
    /\ xpc' = "gate"
    /\ UNCHANGED <<gate, slot, waiting, rchunk, cur, bcast, mine, wblk, want,
                   xhits, h, output>>

\* malloc() of a chunk buffer fails: return -1 before any thread exists.
SetupFails ==
    /\ xpc = "setup"
    /\ xpc' = "failed"
    /\ UNCHANGED <<gate, slot, waiting, reader, worker, want, xhits, h, output>>

-----------------------------------------------------------------------------
\* Reader: the slot of the next chunk is still in use.
ReaderWait ==
    /\ rpc = "read" /\ Running(Reader) /\ cur < End
    /\ slot[SlotFor(rchunk)].state # "EMPTY"
    /\ waiting' = waiting \cup {Reader}
    /\ UNCHANGED <<gate, slot, reader, worker, writer, output>>

\* pread() of len blocks at block b returns m whole blocks: it stops at the
\* first one the device cannot read.
Pread(b, len, m) == /\ \A c \in b .. b + m - 1 : c \notin Bad
                    /\ m = len \/ b + m \in Bad

\* Mutant of ReaderFill: the reader does not wait for its slot to be EMPTY.
ReaderFillAnySlot ==
    /\ rpc = "read" /\ Running(Reader) /\ cur < End
    /\ LET len == IF cur + ChunkBlocks > End THEN End - cur ELSE ChunkBlocks
       IN /\ \E m \in 0 .. len :
                /\ Pread(cur, len, m)
                /\ slot' = [slot EXCEPT ![SlotFor(rchunk)] =
                               [state |-> "FILLED", chunk |-> rchunk,
                                start |-> cur, n |-> m, hits |-> << >>]]
          /\ cur' = cur + len
    /\ rchunk' = rchunk + 1
    /\ Broadcast(SlotFor(rchunk))
    /\ UNCHANGED <<gate, rpc, bcast, worker, writer, output>>

\* Reader: fill the free slot with the next chunk, as far as it is readable.
ReaderFill ==
    /\ rpc = "read" /\ Running(Reader) /\ cur < End
    /\ slot[SlotFor(rchunk)].state = "EMPTY"
    /\ LET len == IF cur + ChunkBlocks > End THEN End - cur ELSE ChunkBlocks
       IN /\ \E m \in 0 .. len :
                /\ Pread(cur, len, m)
                /\ slot' = [slot EXCEPT ![SlotFor(rchunk)] =
                               [state |-> "FILLED", chunk |-> rchunk,
                                start |-> cur, n |-> m, hits |-> << >>]]
          /\ cur' = cur + len
    /\ rchunk' = rchunk + 1
    /\ Broadcast(SlotFor(rchunk))
    /\ UNCHANGED <<gate, rpc, bcast, worker, writer, output>>

\* Reader, at the end of the range: the unlocked store to total_chunks.
ReaderTotal ==
    /\ rpc = "read" /\ cur >= End
    /\ totalChunks' = rchunk
    /\ rpc' = "done"
    /\ UNCHANGED <<nextRead, nextWrite, readerDone, slot, waiting, rchunk, cur,
                   bcast, worker, writer, output>>

\* Reader, under the gate: announce the end.
ReaderDone ==
    /\ rpc = "done"
    /\ readerDone' = TRUE
    /\ totalChunks' = rchunk
    /\ rpc' = "bcast"
    /\ bcast' = 0
    /\ UNCHANGED <<nextRead, nextWrite, slot, waiting, rchunk, cur, worker,
                   writer, output>>

\* Mutant of ReaderBroadcast: the loop runs one slot too far.
ReaderBroadcastPastRing ==
    /\ rpc = "bcast"
    /\ Broadcast(bcast)
    /\ bcast' = bcast + 1
    /\ rpc' = IF bcast + 1 > RingSlots THEN "end" ELSE "bcast"
    /\ UNCHANGED <<gate, slot, rchunk, cur, worker, writer, output>>

\* Mutant of ReaderBroadcast: the loop leaves out the last slot.
ReaderBroadcastShort ==
    /\ rpc = "bcast"
    /\ Broadcast(bcast)
    /\ bcast' = bcast + 1
    /\ rpc' = IF bcast + 2 >= RingSlots THEN "end" ELSE "bcast"
    /\ UNCHANGED <<gate, slot, rchunk, cur, worker, writer, output>>

\* Reader: wake whoever waits on one slot, slot after slot.
ReaderBroadcast ==
    /\ rpc = "bcast"
    /\ Broadcast(bcast)
    /\ bcast' = bcast + 1
    /\ rpc' = IF bcast + 1 = RingSlots THEN "end" ELSE "bcast"
    /\ UNCHANGED <<gate, slot, rchunk, cur, worker, writer, output>>

-----------------------------------------------------------------------------
\* Worker: claim the next chunk number, produced or not, or leave.
WorkerClaim(w) ==
    /\ wpc[w] = "claim"
    /\ IF readerDone /\ nextRead >= totalChunks
       THEN /\ wpc' = [wpc EXCEPT ![w] = "exit"]
            /\ UNCHANGED <<nextRead, mine>>
       ELSE /\ wpc' = [wpc EXCEPT ![w] = "lock"]
            /\ mine' = [mine EXCEPT ![w] = nextRead]
            /\ nextRead' = nextRead + 1
    /\ UNCHANGED <<nextWrite, totalChunks, readerDone, slot, waiting, reader,
                   wblk, writer, output>>

\* The slot of w's chunk holds that chunk, filled.
Ready(w) == LET s == slot[SlotFor(mine[w])]
            IN s.state = "FILLED" /\ s.chunk = mine[w]

\* Worker, holding its slot's lock but not the gate, tests reader_done &&
\* my_chunk >= total_chunks.  The two loads race with the reader's stores: it
\* may miss a reader_done whose broadcast of this slot is still to come, and
\* it may see reader_done and still the initial total_chunks of -1.
MayMissDone(w) == ~readerDone \/ (rpc = "bcast" /\ bcast <= SlotFor(mine[w]))
MaySeePastEnd(w) == readerDone /\ \E p \in {-1, totalChunks} : mine[w] >= p

\* Worker: not its chunk yet, and the reader still runs.
WorkerWait(w) ==
    /\ wpc[w] = "lock" /\ Running(w)
    /\ ~Ready(w)
    /\ MayMissDone(w) \/ mine[w] < totalChunks
    /\ waiting' = waiting \cup {w}
    /\ UNCHANGED <<gate, slot, reader, worker, writer, output>>

\* Mutant of WorkerBail: the end is tested before the slot is.
WorkerBailFirst(w) ==
    /\ wpc[w] = "lock" /\ Running(w)
    /\ MaySeePastEnd(w)
    /\ wpc' = [wpc EXCEPT ![w] = "exit"]
    /\ UNCHANGED <<gate, slot, waiting, reader, mine, wblk, writer, output>>

\* Worker: the reader is done and never produced this chunk.
WorkerBail(w) ==
    /\ wpc[w] = "lock" /\ Running(w)
    /\ ~Ready(w)
    /\ MaySeePastEnd(w)
    /\ wpc' = [wpc EXCEPT ![w] = "exit"]
    /\ UNCHANGED <<gate, slot, waiting, reader, mine, wblk, writer, output>>

\* Worker: take the filled chunk.
WorkerTake(w) ==
    /\ wpc[w] = "lock" /\ Running(w)
    /\ Ready(w)
    /\ slot' = [slot EXCEPT ![SlotFor(mine[w])].state = "PROCESSING"]
    /\ wpc' = [wpc EXCEPT ![w] = "scan"]
    /\ wblk' = [wblk EXCEPT ![w] = 0]
    /\ UNCHANGED <<gate, waiting, reader, mine, writer, output>>

\* Worker, holding no lock: look at one block of the chunk and add_hit() it
\* when it holds a valid extent header.
WorkerScan(w) ==
    LET i == SlotFor(mine[w])
        b == slot[i].start + wblk[w]
    IN /\ wpc[w] = "scan"
       /\ wblk[w] < slot[i].n
       /\ slot' = IF b \in Headers
                  THEN [slot EXCEPT ![i].hits = Append(@, b)] ELSE slot
       /\ wblk' = [wblk EXCEPT ![w] = @ + 1]
       /\ UNCHANGED <<gate, waiting, reader, wpc, mine, writer, output>>

\* Worker: publish the hit list.
WorkerFinish(w) ==
    LET i == SlotFor(mine[w])
    IN /\ wpc[w] = "scan"
       /\ wblk[w] >= slot[i].n
       /\ slot' = [slot EXCEPT ![i].state = "DONE"]
       /\ wpc' = [wpc EXCEPT ![w] = "claim"]
       /\ Broadcast(i)
       /\ UNCHANGED <<gate, reader, mine, wblk, writer, output>>

-----------------------------------------------------------------------------
\* Writer: under the gate, see which chunk is due, or that none is left.
WriterGate ==
    /\ xpc = "gate"
    /\ want' = nextWrite
    /\ xpc' = IF readerDone /\ nextWrite >= totalChunks THEN "join" ELSE "lock"
    /\ UNCHANGED <<gate, slot, waiting, reader, worker, xhits, h, output>>

\* Mutant of Finished: the writer looks only at the chunk number.
FinishedByNumber == slot[SlotFor(want)].chunk = want

\* The slot of the due chunk holds its finished hit list.
Finished == LET s == slot[SlotFor(want)]
            IN s.state = "DONE" /\ s.chunk = want

\* Writer: the due chunk is not finished; re-check for the end, then wait.
WriterWait ==
    /\ xpc = "lock" /\ Running(Writer)
    /\ ~Finished
    /\ ~(readerDone /\ want >= totalChunks)
    /\ waiting' = waiting \cup {Writer}
    /\ UNCHANGED <<gate, slot, reader, worker, writer, output>>

WriterQuit ==
    /\ xpc = "lock" /\ Running(Writer)
    /\ ~Finished
    /\ readerDone /\ want >= totalChunks
    /\ xpc' = "join"
    /\ UNCHANGED <<gate, slot, waiting, reader, worker, want, xhits, h, output>>

\* Mutant of WriterTake: the slot is released before its hits are dumped.
WriterTakeReleasing ==
    /\ xpc = "lock" /\ Running(Writer)
    /\ Finished
    /\ xhits' = slot[SlotFor(want)].hits
    /\ slot' = [slot EXCEPT ![SlotFor(want)].hits = << >>,
                            ![SlotFor(want)].state = "EMPTY"]
    /\ h' = 1
    /\ xpc' = "dump"
    /\ UNCHANGED <<gate, waiting, reader, worker, want, output>>

\* Writer: take the hit list out of the slot, whose state stays DONE.
WriterTake ==
    /\ xpc = "lock" /\ Running(Writer)
    /\ Finished
    /\ xhits' = slot[SlotFor(want)].hits
    /\ slot' = [slot EXCEPT ![SlotFor(want)].hits = << >>]
    /\ h' = 1
    /\ xpc' = "dump"
    /\ UNCHANGED <<gate, waiting, reader, worker, want, output>>

\* Writer, holding no lock: dump the next hit, unless an earlier dump marked
\* it recovered or it cannot be read again.
WriterDump ==
    /\ xpc = "dump" /\ h <= Len(xhits)
    /\ LET b == xhits[h]
       IN /\ IF b \in recovered \/ b \in Bad
             THEN UNCHANGED <<recovered, dumped>>
             ELSE /\ recovered' = recovered \cup Marks[b]
                  /\ dumped' = Append(dumped, b)
          /\ pos' = b + 1
    /\ h' = h + 1
    /\ UNCHANGED <<gate, slot, waiting, reader, worker, xpc, want, xhits>>

\* Mutant of WriterRecycle: the reader is not woken.
WriterRecycleQuietly ==
    /\ xpc = "dump" /\ h > Len(xhits)
    /\ slot' = [slot EXCEPT ![SlotFor(want)].state = "EMPTY"]
    /\ xpc' = "advance"
    /\ UNCHANGED <<gate, waiting, reader, worker, want, xhits, h, output>>

\* Writer: give the slot back to the reader.
WriterRecycle ==
    /\ xpc = "dump" /\ h > Len(xhits)
    /\ slot' = [slot EXCEPT ![SlotFor(want)].state = "EMPTY"]
    /\ Broadcast(SlotFor(want))
    /\ xpc' = "advance"
    /\ UNCHANGED <<gate, reader, worker, want, xhits, h, output>>

\* Writer: count the chunk as written.
WriterAdvance ==
    /\ xpc = "advance"
    /\ nextWrite' = want + 1
    /\ xpc' = "gate"
    /\ UNCHANGED <<nextRead, totalChunks, readerDone, slot, waiting, reader,
                   worker, want, xhits, h, output>>

\* pthread_join() of every thread that was created, then return.
Join ==
    /\ xpc = "join"
    /\ rpc \in {"end", "none"}
    /\ \A w \in Workers : wpc[w] \in {"exit", "none"}
    /\ xpc' = "return"
    /\ UNCHANGED <<gate, slot, waiting, reader, worker, want, xhits, h, output>>

-----------------------------------------------------------------------------
\* POSIX lets pthread_cond_wait() return without a broadcast.
SpuriousWakeup(t) ==
    /\ t \in waiting
    /\ waiting' = waiting \ {t}
    /\ UNCHANGED <<gate, slot, reader, worker, writer, output>>

\* parallel_scan_for_extent_headers() has returned to its caller.
Returned == xpc \in {"return", "failed"} /\ UNCHANGED vars

ReaderStep == ReaderWait \/ ReaderFill \/ ReaderTotal \/ ReaderDone
              \/ ReaderBroadcast
WorkerStep(w) == WorkerClaim(w) \/ WorkerWait(w) \/ WorkerBail(w)
                 \/ WorkerTake(w) \/ WorkerScan(w) \/ WorkerFinish(w)
WriterStep == Launch \/ SetupFails \/ WriterGate \/ WriterWait \/ WriterQuit
              \/ WriterTake \/ WriterDump \/ WriterRecycle \/ WriterAdvance
              \/ Join

Next == \/ ReaderStep
        \/ \E w \in Workers : WorkerStep(w)
        \/ WriterStep
        \/ \E t \in Threads : SpuriousWakeup(t)
        \/ Returned

\* Every runnable thread is eventually scheduled; nothing is assumed of
\* spurious wakeups.
Fairness == /\ WF_vars(ReaderStep)
            /\ \A w \in Workers : WF_vars(WorkerStep(w))
            /\ WF_vars(WriterStep)

Spec == Init /\ [][Next]_vars
FairSpec == Spec /\ Fairness

-----------------------------------------------------------------------------
(* Properties. *)

HitSeqs == Seq(Headers)
SlotRecords == [state : {"EMPTY", "FILLED", "PROCESSING", "DONE"}, chunk : Nat,
                start : Nat, n : Nat, hits : HitSeqs]

\* Type invariant of the scan context, the ring and the threads' locals.
TypeOK ==
    /\ nextRead \in Nat /\ nextWrite \in Nat
    /\ totalChunks \in Nat \cup {-1} /\ readerDone \in BOOLEAN
    /\ slot \in [SlotIds -> SlotRecords]
    /\ waiting \subseteq Threads
    /\ rpc \in {"none", "read", "done", "bcast", "end"}
    /\ rchunk \in Nat /\ cur \in Start .. End /\ bcast \in 0 .. RingSlots
    /\ rpc = "bcast" => bcast < RingSlots
    /\ wpc \in [Workers -> {"none", "claim", "lock", "scan", "exit"}]
    /\ mine \in [Workers -> Nat] /\ wblk \in [Workers -> Nat]
    /\ xpc \in {"setup", "failed", "gate", "lock", "dump", "advance", "join",
                "return"}
    /\ want \in Nat /\ xhits \in HitSeqs /\ h \in Nat \ {0}
    /\ recovered \subseteq Headers /\ dumped \in HitSeqs /\ pos \in Nat

\* The number of chunks drained and recycled so far.
Drained == IF xpc = "advance" THEN want + 1 ELSE nextWrite

\* The ring holds exactly the chunks between the writer and the reader, each
\* in its own slot: nothing in flight is overwritten by the reader or
\* recycled by the writer before its turn (parallel_scan.c, "Concurrency").
RingWindow ==
    /\ Drained <= rchunk /\ rchunk <= Drained + RingSlots
    /\ \A k \in Drained .. rchunk - 1 :
          /\ slot[SlotFor(k)].state # "EMPTY"
          /\ slot[SlotFor(k)].chunk = k
    /\ \A i \in SlotIds : slot[i].state # "EMPTY" =>
          /\ slot[i].chunk \in Drained .. rchunk - 1
          /\ SlotFor(slot[i].chunk) = i

\* A slot in PROCESSING belongs to exactly one worker, which reads the buffer
\* and appends hits without a lock; the slot the writer dumps from is DONE.
SlotOwnership ==
    /\ \A w \in Workers : wpc[w] = "scan" =>
          /\ slot[SlotFor(mine[w])].state = "PROCESSING"
          /\ slot[SlotFor(mine[w])].chunk = mine[w]
    /\ \A v, w \in Workers : v # w /\ {wpc[v], wpc[w]} \subseteq {"lock", "scan"}
          => mine[v] # mine[w]
    /\ xpc = "dump" => /\ slot[SlotFor(want)].state = "DONE"
                       /\ slot[SlotFor(want)].chunk = want

\* No produced chunk is ever left without a worker: a filled one is still
\* unclaimed or claimed by a worker that waits for it, one in PROCESSING is
\* being scanned.  In particular the bail-out test that reads reader_done and
\* total_chunks without the gate never makes a worker drop its chunk.
NoAbandonedChunk ==
    \A i \in SlotIds :
      /\ slot[i].state = "FILLED" =>
            \/ slot[i].chunk >= nextRead
            \/ \E w \in Workers : wpc[w] = "lock" /\ mine[w] = slot[i].chunk
      /\ slot[i].state = "PROCESSING" =>
            \E w \in Workers : wpc[w] = "scan" /\ mine[w] = slot[i].chunk

\* No lost wakeup.  A thread that sleeps in pthread_cond_wait() still has its
\* reason to: the reader's slot is in use, the worker's chunk is not filled, the
\* writer's is not finished.  And if reader_done has meanwhile become a reason
\* to leave, the reader's broadcast of that very slot is still to come.
NoLostWakeup ==
    /\ Reader \in waiting =>
          rpc = "read" /\ cur < End /\ slot[SlotFor(rchunk)].state # "EMPTY"
    /\ \A w \in Workers : w \in waiting =>
          /\ wpc[w] = "lock" /\ ~Ready(w)
          /\ MayMissDone(w) \/ mine[w] < totalChunks
    /\ Writer \in waiting =>
          /\ xpc = "lock" /\ ~Finished
          /\ \/ ~(readerDone /\ want >= totalChunks)
             \/ rpc = "bcast" /\ bcast <= SlotFor(want)

\* Until the call returns, some thread can go on without being woken: reader,
\* workers and writer never all wait for each other round the ring, and the
\* pthread_join() at the end waits for no thread that sleeps for ever.
SomeThreadRuns ==
    \/ xpc \in {"return", "failed"}
    \/ rpc \in {"read", "done", "bcast"} /\ Running(Reader)
    \/ \E w \in Workers : wpc[w] \in {"claim", "lock", "scan"} /\ Running(w)
    \/ xpc # "join" /\ Running(Writer)
    \/ /\ xpc = "join" /\ rpc \in {"end", "none"}
       /\ \A w \in Workers : wpc[w] \in {"exit", "none"}

\* The headers the readers of the chunks get to see: none behind an
\* unreadable block of the same chunk.
Seen == {b \in Headers : \E k \in 0 .. End - Start :
            /\ ChunkStart(k) <= b /\ b < ChunkStart(k) + ChunkBlocks
            /\ \A c \in ChunkStart(k) .. b : c \notin Bad}

ScanFinished == xpc \in {"join", "return"}

\* The parallel scan makes the dumps a serial pass over the headers it sees
\* would make: same blocks, same order, same skips of recovered blocks.
Ordered == INSTANCE SerialScan WITH Visible <- Seen, finished <- ScanFinished
ScansSeenInOrder == Ordered!Spec

\* The stronger promise of parallel_scan.h, "byte-identical to the
\* single-threaded scan": a serial pass skips an unreadable block and goes on.
Serial == INSTANCE SerialScan WITH Visible <- Headers \ Bad,
                                   finished <- ScanFinished
EqualsSerialScan == Serial!Spec

-----------------------------------------------------------------------------
(* The parts of the inductive invariant behind RingWindow, SlotOwnership,   *)
(* NoAbandonedChunk and ScansSeenInOrder.                                   *)

\* Where the reader stands on the device.
ReaderInv ==
    /\ cur < End => cur = ChunkStart(rchunk)
    /\ cur >= End => ChunkStart(rchunk) >= End
    /\ rpc \in {"done", "bcast", "end"} => cur >= End
    /\ totalChunks # -1 =>
          totalChunks = rchunk /\ rpc \in {"done", "bcast", "end"}
    /\ readerDone => totalChunks = rchunk /\ rpc \in {"bcast", "end"}
    /\ xpc = "setup" => rpc = "none"

\* A claimed chunk number has one owner, which still finds its chunk FILLED;
\* a produced chunk that nobody claimed is FILLED; a claimed number that the
\* reader has yet to produce has a live owner.
ClaimInv ==
    /\ \A w \in Workers : wpc[w] \in {"lock", "scan"} => mine[w] < nextRead
    /\ \A w \in Workers : wpc[w] = "lock" /\ mine[w] < rchunk =>
          /\ Drained <= mine[w]
          /\ slot[SlotFor(mine[w])].state = "FILLED"
    /\ \A k \in nextRead .. rchunk - 1 :
          Drained <= k /\ slot[SlotFor(k)].state = "FILLED"
    /\ \A k \in 0 .. nextRead - 1 : k >= rchunk /\ cur < End =>
          \E w \in Workers : wpc[w] = "lock" /\ mine[w] = k
    /\ xpc = "setup" => nextRead = 0 /\ \A w \in Workers : wpc[w] = "none"

\* s lists the headers of the blocks lo, ..., hi - 1 in ascending order.
HitList(s, lo, hi) ==
    /\ \A i, j \in 1 .. Len(s) : i < j => s[i] < s[j]
    /\ \A i \in 1 .. Len(s) : s[i] \in Headers /\ lo <= s[i] /\ s[i] < hi
    /\ \A b \in Headers : lo <= b /\ b < hi => \E i \in 1 .. Len(s) : s[i] = b

\* What a slot in flight holds.
ContentInv ==
    \A i \in SlotIds : slot[i].state # "EMPTY" =>
      LET s == slot[i] IN
      /\ s.start = ChunkStart(s.chunk)
      /\ s.n <= ChunkBlocks
      /\ \A c \in s.start .. s.start + s.n - 1 : c \notin Bad
      /\ \/ s.n = ChunkBlocks \/ s.start + s.n >= End \/ s.start + s.n \in Bad
      /\ s.state = "FILLED" => s.hits = << >>
      /\ s.state = "DONE" /\ ~(xpc = "dump" /\ i = SlotFor(want)) =>
            HitList(s.hits, s.start, s.start + s.n)

\* A scanning worker has listed exactly the headers it has passed.
ScanInv ==
    \A w \in Workers : wpc[w] = "scan" =>
      LET s == slot[SlotFor(mine[w])] IN
      /\ wblk[w] <= s.n
      /\ HitList(s.hits, s.start, s.start + wblk[w])

\* How far the writer has come: pos separates the handled headers from the
\* ones still listed in xhits or still in later chunks.
WriterInv ==
    /\ xpc \in {"lock", "dump", "advance"} => want = nextWrite
    /\ xpc # "dump" =>
         /\ pos <= ChunkStart(Drained)
         /\ \A b \in Seen : pos <= b => ChunkStart(Drained) <= b
    /\ xpc = "dump" =>
         /\ HitList(xhits, ChunkStart(want),
                    ChunkStart(want) + slot[SlotFor(want)].n)
         /\ h <= Len(xhits) + 1
         /\ pos <= ChunkStart(want + 1)
         /\ \A j \in h .. Len(xhits) : pos <= xhits[j]
         /\ \A b \in Seen : pos <= b =>
               \/ ChunkStart(want + 1) <= b
               \/ \E j \in h .. Len(xhits) : xhits[j] = b
    /\ ScanFinished => ChunkStart(Drained) >= End

PipelineInv == /\ TypeOK /\ RingWindow /\ SlotOwnership /\ NoAbandonedChunk
               /\ ReaderInv /\ ClaimInv /\ ContentInv /\ ScanInv /\ WriterInv

\* Who has seen the end of the scan: it was announced, and no chunk is left.
\* Every thread that pthread_create() did start is past "none".
EndInv ==
    /\ rpc \in {"bcast", "end"} => readerDone
    /\ \A w \in Workers : wpc[w] = "exit" => readerDone /\ nextRead >= totalChunks
    /\ ScanFinished => readerDone
    /\ ~CreateMayFail /\ xpc \notin {"setup", "failed"} =>
          rpc # "none" /\ \A w \in Workers : wpc[w] # "none"

\* The call returns: no lost wakeup, no thread waiting on another in a ring.
Termination == <>(xpc \in {"return", "failed"})
=============================================================================
