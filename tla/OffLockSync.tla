---------------------------- MODULE OffLockSync ----------------------------
(***************************************************************************)
(* Durability under the deferred sync policies (SyncEvery > 1, NoSync):    *)
(* the off-lock flush behind Queue.Sync and the SyncInterval backstop      *)
(* (diskqueue.go), beside the operations that write segments, flush them   *)
(* under the lock, evict their handles (store.go) and reclaim them, and    *)
(* beside Close.                                                           *)
(*                                                                         *)
(* "ops" stands for every producer and consumer: each of their operations  *)
(* keeps the queue mutex from beginning to end.  "loop" is syncLoop,       *)
(* "user" a caller of Sync, "closer" the caller of Close.  A segment is    *)
(* the sequence of writes made to it, known by their number: an append     *)
(* (record and header) or a commit (header alone).                         *)
(*                                                                         *)
(* The kernel (external): an fsync that succeeds makes durable at least    *)
(* what was written before it began.  Writeback may fail at any time; the  *)
(* pages are then dropped, and the failure is reported once, to the first  *)
(* fsync of the file that returns.                                         *)
(***************************************************************************)
EXTENDS Integers, FiniteSets

CONSTANTS
    MaxFile,     \* bound: segments are numbered 1 .. MaxFile
    Found,       \* how many of them the open found
    MaxWrites,   \* bound: appends and commits, all in all
    MaxOpen,     \* Options.MaxOpenFiles, floored by openStore
    SyncEvery,   \* Options.SyncEvery
    Policies,    \* the sync policies: "batched", "noSync"
    MaxLost,     \* bound: writeback failures
    Faults       \* which other system calls may fail: "open", "dir", "unlink"

ASSUME OffLockSyncAssumption ==
    /\ MaxFile \in Nat /\ Found \in 1 .. MaxFile /\ MaxWrites \in Nat
    /\ MaxOpen \in Nat /\ MaxOpen >= 3
    /\ SyncEvery \in Nat /\ SyncEvery > 1
    /\ Policies \subseteq {"batched", "noSync"}
    /\ MaxLost \in Nat
    /\ Faults \subseteq {"open", "dir", "unlink"}

Files == 1 .. MaxFile
Syncers == {"loop", "user"}
Procs == Syncers \union {"ops", "closer"}
Free == "free"
NoFile == 0
Unpinned == [f \in {} |-> NoFile]
Nth == 1 .. MaxWrites + 1  \* the numbers of a segment's writes

VARIABLES
    policy,        \* what Options chose, for good
    closed, storeClosed, ioErr,
    live,          \* store.files
    committed,     \* the segments up to this one are fully committed
    open,          \* the segments with an open handle: the nodes of the LRU list
    newer,         \* <<f, g>>: f is in front of g in that list
    keep,          \* the segment whose opening is evicting others, or NoFile
    dirty,         \* dataFile.dirty
    writeSeq,      \* dataFile.writeSeq
    records,       \* <<f, n>>: the n-th write to f was a record
    unsynced, unsyncedBytes, flushEpoch,
    mu, syncMu, pc,
    opFile,        \* the segment an operation of "ops" opened
    flushTodo,     \* flushBatch's and close's remaining segments
    flushBad,      \* one of these could not be flushed
    todo, left,    \* syncOffLock's remaining segments; how many are in this chunk
    target,        \* flushChunk's pinned segments: their writeSeq and the verdict
    syncBad,       \* errs
    snap,          \* snapOps, snapBytes, snapEpoch
    \* The kernel, and what a Sync promises:
    durable,       \* how many of a segment's writes are on stable storage
    dropped,       \* segments that lost pages
    wberr,         \* of these, the ones no fsync has reported
    promise,       \* writeSeq when a Sync listed the dirty set, until it returns
    kept           \* every Sync that returned nil had kept its promise

kernel == <<durable, dropped, wberr>>
files  == <<live, committed, open, newer, keep, dirty, writeSeq, records>>
gauges == <<unsynced, unsyncedBytes, flushEpoch>>
latch  == <<closed, storeClosed, ioErr>>
sync   == <<todo, left, target, syncBad, snap, promise, kept>>
op     == <<opFile, flushTodo, flushBad>>
vars   == <<policy, latch, files, gauges, mu, syncMu, pc, op, sync, kernel>>

Verdicts == {"run", "ok", "err"}
Places == {"idle", "opened", "cycled", "flush", "commitFlush", "reclaim", "wait", "enter",
           "prepare", "fsync", "finish", "exited", "stopping", "closing", "closeFlush", "done"}

Init ==
    /\ policy \in Policies
    /\ closed = FALSE /\ storeClosed = FALSE /\ ioErr = FALSE
    /\ live = 1 .. Found /\ committed = 0
    /\ open = {Found} /\ newer = {} /\ keep = NoFile
    /\ dirty = {} /\ writeSeq = [f \in Files |-> 0] /\ records = {}
    /\ unsynced = 0 /\ unsyncedBytes = 0 /\ flushEpoch = 0
    /\ mu = Free /\ syncMu = Free /\ pc = [p \in Procs |-> "idle"]
    /\ opFile = NoFile /\ flushTodo = {} /\ flushBad = FALSE
    /\ todo = {} /\ left = 0 /\ target = Unpinned /\ syncBad = FALSE
    /\ snap = [ops |-> 0, bytes |-> 0, epoch |-> 0]
    /\ durable = [f \in Files |-> 0] /\ dropped = {} /\ wberr = {}
    /\ promise = [f \in Files |-> 0] /\ kept = TRUE

-----------------------------------------------------------------------------
(* Handles *)

active == CHOOSE f \in live : \A g \in live : g <= f
pinned == DOMAIN target

\* Segments are gone through in order
First(f, F) == f \in F /\ \A g \in F : f <= g

Goto(p, place) == pc' = [pc EXCEPT ![p] = place]

\* Mutant: the node is pushed without being unlinked
TouchedTwice(f) == newer' = newer \union ({f} \X (open \ {f}))

\* ensureOpen of an open segment: touchOpen moves it to the front
Touches(f) ==
    newer' = {e \in newer : f \notin {e[1], e[2]}} \union ({f} \X (open \ {f}))

\* evictOpen has work to do
Evicting(f) == keep' = IF Cardinality(open') > MaxOpen THEN f ELSE NoFile

\* ensureOpen of a closed one: trackOpen, whose evictOpen goes on in Evict
Opens(f) ==
    /\ open' = open \union {f} /\ newer' = newer \union ({f} \X open)
    /\ Evicting(f)

\* closeFile, untrackOpen
Closes(F) ==
    /\ open' = open \ F
    /\ newer' = {e \in newer : e[1] \notin F /\ e[2] \notin F}

-----------------------------------------------------------------------------
(* The kernel *)

\* An fsync of f that began after upto writes returns: nil, or the failure
FsyncOk(f, upto) ==
    /\ f \notin wberr
    /\ durable' = [durable EXCEPT ![f] = IF f \in dropped \/ @ > upto THEN @ ELSE upto]
    /\ UNCHANGED <<dropped, wberr>>

FsyncFails(f) ==
    /\ f \in wberr
    /\ wberr' = wberr \ {f}
    /\ UNCHANGED <<durable, dropped>>

WritebackFails(f) ==
    /\ f \in live \ dropped /\ durable[f] < writeSeq[f]
    /\ Cardinality(dropped) < MaxLost
    /\ dropped' = dropped \union {f} /\ wberr' = wberr \union {f}
    /\ UNCHANGED <<policy, latch, files, gauges, mu, syncMu, pc, op, sync, durable>>

-----------------------------------------------------------------------------
(* evictOpen, and flushFile on its victim *)

\* Mutant: a pinned handle may be closed
EvictableIfPinned(f) == f # active /\ f # keep

Evictable(f) == f # active /\ f # keep /\ f \notin pinned

\* flushFile of an open segment: nothing if clean, refused on a latched store
FlushOpen(f, ok) ==
    \/ f \notin dirty /\ ok /\ UNCHANGED <<dirty, ioErr, kernel>>
    \/ f \in dirty /\ ioErr /\ ~ok /\ UNCHANGED <<dirty, ioErr, kernel>>
    \/ /\ f \in dirty /\ ~ioErr /\ ok /\ FsyncOk(f, writeSeq[f])
       /\ dirty' = dirty \ {f} /\ UNCHANGED ioErr
    \/ /\ f \in dirty /\ ~ioErr /\ ~ok /\ FsyncFails(f)
       /\ ioErr' = TRUE /\ UNCHANGED dirty

\* One turn of evictOpen's loop
Evict ==
    /\ keep # NoFile
    /\ LET victims == {f \in open : Evictable(f)} IN
       \/ /\ Cardinality(open) > MaxOpen
          /\ \E v \in victims :
                /\ \A g \in victims \ {v} : <<g, v>> \in newer
                /\ Closes({v}) /\ UNCHANGED keep
                /\ IF policy = "noSync" THEN UNCHANGED <<dirty, ioErr, kernel>>
                   ELSE \E ok \in BOOLEAN : FlushOpen(v, ok)
       \/ /\ ~(Cardinality(open) > MaxOpen /\ victims # {})
          /\ keep' = NoFile /\ UNCHANGED <<open, newer, dirty, ioErr, kernel>>
    /\ UNCHANGED <<policy, closed, storeClosed, live, committed, writeSeq, records,
                   gauges, mu, syncMu, pc, op, sync>>

\* p has the mutex and its ensureOpen is over
Holds(p) == mu = p /\ keep = NoFile

-----------------------------------------------------------------------------
(* The operations of producers and consumers *)

Begins == mu = Free /\ ~closed /\ pc["ops"] = "idle"

\* The bound on writes, which leaves out the header a segment is created with
Room ==
    Cardinality({w \in Files \X Nth : w[2] <= writeSeq[w[1]] /\ (w[1] > Found => w[2] > 1)})
        < MaxWrites

Done == Goto("ops", "idle") /\ mu' = Free

\* A write to f, and recordOp: the operation that crosses SyncEvery flushes
Writes(f, isRecord) ==
    /\ Room
    /\ writeSeq' = [writeSeq EXCEPT ![f] = @ + 1]
    /\ dirty' = dirty \union {f}
    /\ records' = IF isRecord THEN records \union {<<f, writeSeq'[f]>>} ELSE records
    /\ unsyncedBytes' = unsyncedBytes + IF isRecord THEN 1 ELSE 0
    /\ unsynced' = unsynced + IF policy = "batched" THEN 1 ELSE 0
    /\ UNCHANGED flushEpoch

\* The operation crosses SyncEvery: flushBatch, under the lock it has
Crosses == policy = "batched" /\ unsynced' >= SyncEvery

FlushBegins(place) ==
    /\ Goto("ops", place) /\ mu' = "ops"
    /\ flushTodo' = live /\ flushBad' = FALSE

\* appendRecord into the active segment, which a cycle may just have created
OpAppends ==
    /\ Begins \/ (pc["ops"] = "cycled" /\ Holds("ops"))
    /\ ~ioErr
    /\ Writes(active, TRUE)
    /\ IF Crosses THEN FlushBegins("flush") ELSE Done /\ UNCHANGED <<flushTodo, flushBad>>
    /\ Touches(active)
    /\ UNCHANGED <<policy, latch, live, committed, open, keep, syncMu, opFile, sync, kernel>>

\* dropCommitted: what it closes and unlinks
Reclaimed(upto) == {f \in live : f <= upto /\ f \notin pinned}

\* One that will not unlink stays, its handle closed
Stuck(F) == IF "unlink" \in Faults THEN SUBSET F ELSE {{}}

\* cycle: reclaim, a drained active segment too, and create the successor.  Its
\* header is fsynced, unless nothing is.
OpCycles(drained) ==
    LET f    == active + 1
        upto == IF drained THEN active ELSE committed
    IN  /\ Begins /\ ~ioErr /\ f \in Files /\ Room
        /\ drained => \A g \in live : g <= committed \/ g = active
        /\ committed' = upto
        /\ \E stuck \in Stuck(Reclaimed(upto)) :
              live' = (live \ (Reclaimed(upto) \ stuck)) \union {f}
        /\ open' = (open \ Reclaimed(upto)) \union {f}
        /\ newer' = {e \in newer : {e[1], e[2]} \intersect Reclaimed(upto) = {}}
                    \union ({f} \X (open \ Reclaimed(upto)))
        /\ Evicting(f)
        /\ writeSeq' = [writeSeq EXCEPT ![f] = 1]
        /\ IF policy = "noSync" THEN dirty' = dirty \union {f} /\ UNCHANGED durable
           ELSE durable' = [durable EXCEPT ![f] = 1] /\ UNCHANGED dirty
        /\ Goto("ops", "cycled") /\ mu' = "ops"
        /\ UNCHANGED <<policy, latch, records, gauges, syncMu, op, sync, dropped, wberr>>

\* An eviction latched, or cycle's directory fsync fails: no record follows
OpCycleFails ==
    /\ pc["ops"] = "cycled" /\ Holds("ops")
    /\ \/ ioErr /\ UNCHANGED ioErr
       \/ ~ioErr /\ policy = "batched" /\ "dir" \in Faults /\ ioErr' = TRUE
    /\ Done
    /\ UNCHANGED <<policy, closed, storeClosed, files, gauges, syncMu, op, sync, kernel>>

\* A read of an open segment, and of one that has to be opened first
OpReads(f) ==
    /\ Begins /\ f \in live /\ f > committed
    /\ \/ f \in open /\ Touches(f) /\ UNCHANGED <<open, keep, opFile, pc, mu>>
       \/ /\ f \notin open /\ Opens(f) /\ opFile' = f
          /\ Goto("ops", "opened") /\ mu' = "ops"
    /\ UNCHANGED <<policy, latch, live, committed, dirty, writeSeq, records, gauges,
                   syncMu, flushTodo, flushBad, sync, kernel>>

\* The opened segment was only read, or the store is latched
OpReadEnds ==
    /\ pc["ops"] = "opened" /\ Holds("ops")
    /\ Done /\ opFile' = NoFile
    /\ UNCHANGED <<policy, latch, files, gauges, syncMu, flushTodo, flushBad, sync, kernel>>

\* commitTo within the segment f at the commit cursor, up to its end if full: the
\* header and recordOp
OpCommits(f, full) ==
    /\ \/ Begins /\ f \in open
       \/ pc["ops"] = "opened" /\ Holds("ops") /\ f = opFile
    /\ ~ioErr
    /\ f \in live /\ f > committed /\ \A g \in live : g < f => g <= committed
    /\ full => f # active
    /\ Writes(f, FALSE)
    /\ committed' = IF full THEN f ELSE committed
    /\ IF Crosses THEN FlushBegins("commitFlush")
       ELSE Goto("ops", "reclaim") /\ mu' = "ops" /\ UNCHANGED <<flushTodo, flushBad>>
    /\ opFile' = NoFile
    /\ UNCHANGED <<policy, latch, live, open, newer, keep, syncMu, sync, kernel>>

\* ... and dropCommitted, whatever recordOp answered
OpReclaims ==
    /\ pc["ops"] = "reclaim" /\ Holds("ops")
    /\ \E stuck \in Stuck(Reclaimed(committed)) :
          live' = live \ (Reclaimed(committed) \ stuck)
    /\ Closes(Reclaimed(committed))
    /\ Done
    /\ UNCHANGED <<policy, latch, committed, keep, dirty, writeSeq, records, gauges, syncMu,
                   op, sync, kernel>>

-----------------------------------------------------------------------------
(* flushBatch, under the lock *)

Flushing == pc["ops"] \in {"flush", "commitFlush"} /\ Holds("ops")

\* flushFile of the next segment, which is opened first if its handle is gone
FlushNext ==
    /\ Flushing
    /\ \E f \in Files :
          /\ First(f, flushTodo)
          /\ \/ /\ f \in open \/ f \notin dirty
                /\ \E ok \in BOOLEAN : FlushOpen(f, ok) /\ flushBad' = (flushBad \/ ~ok)
                /\ flushTodo' = flushTodo \ {f}
                /\ UNCHANGED <<open, newer, keep>>
             \/ /\ f \notin open /\ f \in dirty /\ Opens(f)
                /\ UNCHANGED <<flushTodo, flushBad, dirty, ioErr, kernel>>
             \/ /\ f \notin open /\ f \in dirty /\ "open" \in Faults
                /\ flushTodo' = flushTodo \ {f} /\ flushBad' = TRUE
                /\ UNCHANGED <<open, newer, keep, dirty, ioErr, kernel>>
    /\ UNCHANGED <<policy, closed, storeClosed, live, committed, writeSeq, records,
                   gauges, mu, syncMu, pc, opFile, sync>>

\* The gauges are reset only if every segment and the directory were flushed
FlushEnds ==
    /\ Flushing /\ flushTodo = {}
    /\ \/ (flushBad \/ ioErr) /\ UNCHANGED <<gauges, ioErr>>
       \/ /\ ~flushBad /\ ~ioErr /\ "dir" \in Faults
          /\ ioErr' = TRUE /\ UNCHANGED gauges
       \/ /\ ~flushBad /\ ~ioErr
          /\ unsynced' = 0 /\ unsyncedBytes' = 0 /\ flushEpoch' = flushEpoch + 1
          /\ UNCHANGED ioErr
    /\ IF pc["ops"] = "flush" THEN Done ELSE Goto("ops", "reclaim") /\ UNCHANGED mu
    /\ flushBad' = FALSE
    /\ UNCHANGED <<policy, closed, storeClosed, files, syncMu, opFile, flushTodo, sync,
                   kernel>>

-----------------------------------------------------------------------------
(* syncOffLock *)

\* Mutant: no slot is left for what a reader opens meanwhile
ChunkSizeGreedy == MaxOpen - 1

\* flushChunkSize
ChunkSize == MaxOpen - 2

Chunk(t) == IF Cardinality(t) < ChunkSize THEN Cardinality(t) ELSE ChunkSize

SyncCalled(p) ==
    /\ pc[p] = "idle" /\ (p = "loop" => ~closed)
    /\ Goto(p, "wait")
    /\ UNCHANGED <<policy, latch, files, gauges, mu, syncMu, op, sync, kernel>>

SyncLocks(p) ==
    /\ pc[p] = "wait" /\ syncMu = Free
    /\ syncMu' = p /\ Goto(p, "enter")
    /\ UNCHANGED <<policy, latch, files, gauges, mu, op, sync, kernel>>

SyncReturns(p, a) ==
    /\ kept' = (kept /\ (a = "nil" => \A f \in live : durable[f] >= promise[f]))
    /\ promise' = [f \in Files |-> 0]
    /\ Goto(p, "idle") /\ mu' = Free /\ syncMu' = Free

SyncRefused(p) ==
    /\ pc[p] = "enter" /\ mu = Free
    /\ \/ closed /\ SyncReturns(p, "closed")
       \/ ~closed /\ ioErr /\ SyncReturns(p, "io")
    /\ UNCHANGED <<policy, latch, files, gauges, op, todo, left, target, syncBad, snap,
                   kernel>>

\* The dirty set is listed and the gauges are read
SyncLists(p) ==
    /\ pc[p] = "enter" /\ mu = Free /\ ~closed /\ ~ioErr
    /\ todo' = dirty \intersect live
    /\ snap' = [ops |-> unsynced, bytes |-> unsyncedBytes, epoch |-> flushEpoch]
    /\ syncBad' = FALSE /\ left' = Chunk(todo')
    /\ promise' = writeSeq
    /\ mu' = p /\ Goto(p, IF todo' = {} THEN "finish" ELSE "prepare")
    /\ UNCHANGED <<policy, latch, files, gauges, syncMu, op, target, kept, kernel>>

Pin(f) ==
    target' = [g \in pinned \union {f} |->
                  IF g = f THEN [seq |-> writeSeq[f], res |-> "run"] ELSE target[g]]

\* flushChunk's first loop: skip what was reclaimed or flushed meanwhile, open and
\* pin the rest
SyncPrepares(p) ==
    /\ pc[p] = "prepare" /\ Holds(p) /\ left > 0
    /\ \E f \in Files :
          /\ First(f, todo) /\ todo' = todo \ {f} /\ left' = left - 1
          /\ \/ /\ f \notin live \/ f \notin dirty
                /\ UNCHANGED <<open, newer, keep, target, syncBad>>
             \/ /\ f \in live /\ f \in dirty /\ f \in open
                /\ Touches(f) /\ Pin(f) /\ UNCHANGED <<open, keep, syncBad>>
             \/ /\ f \in live /\ f \in dirty /\ f \notin open
                /\ Opens(f) /\ Pin(f) /\ UNCHANGED syncBad
             \/ /\ f \in live /\ f \in dirty /\ f \notin open /\ "open" \in Faults
                /\ syncBad' = TRUE /\ UNCHANGED <<open, newer, keep, target>>
    /\ UNCHANGED <<policy, latch, live, committed, dirty, writeSeq, records, gauges, mu,
                   syncMu, pc, op, snap, promise, kept, kernel>>

SyncUnlocks(p) ==
    /\ pc[p] = "prepare" /\ Holds(p) /\ left = 0
    /\ Goto(p, "fsync") /\ mu' = Free
    /\ UNCHANGED <<policy, latch, files, gauges, syncMu, op, sync, kernel>>

\* One of the fsyncs, without the mutex.  It began after the pin; what was written
\* since then may not be covered.
SyncFsyncs(p, f) ==
    /\ pc[p] = "fsync" /\ f \in pinned /\ target[f].res = "run"
    /\ \/ FsyncOk(f, target[f].seq) /\ target' = [target EXCEPT ![f].res = "ok"]
       \/ FsyncFails(f) /\ target' = [target EXCEPT ![f].res = "err"]
    /\ UNCHANGED <<policy, latch, files, gauges, mu, syncMu, pc, op, todo, left, syncBad,
                   snap, promise, kept>>

\* Mutant: a segment written during its fsync is called clean
CleanedAll == {f \in pinned : target[f].res = "ok"}

\* Nothing was written to it since it was pinned
Cleaned == {f \in pinned : target[f].res = "ok" /\ writeSeq[f] = target[f].seq}

\* flushChunk's last loop: unpin, latch, and clear dirty
SyncSettles(p) ==
    /\ pc[p] = "fsync" /\ mu = Free /\ \A f \in pinned : target[f].res # "run"
    /\ dirty' = dirty \ Cleaned
    /\ LET bad == \E f \in pinned : target[f].res = "err" IN
       ioErr' = (ioErr \/ bad) /\ syncBad' = (syncBad \/ bad)
    /\ target' = Unpinned /\ left' = Chunk(todo)
    /\ mu' = p /\ Goto(p, IF todo = {} THEN "finish" ELSE "prepare")
    /\ UNCHANGED <<policy, closed, storeClosed, live, committed, open, newer, keep,
                   writeSeq, records, gauges, syncMu, op, todo, snap, promise, kept, kernel>>

\* Mutant: the snapshot is subtracted whatever happened meanwhile
SettledIfStale(n, old) == IF n > old THEN n - old ELSE 0

\* The gauges keep what was added since the snapshot, unless flushBatch reset them
Settled(n, old) ==
    IF flushEpoch # snap.epoch THEN n ELSE IF n > old THEN n - old ELSE 0

SyncEnds(p) ==
    /\ pc[p] = "finish" /\ Holds(p)
    /\ \/ syncBad /\ SyncReturns(p, "fail") /\ UNCHANGED <<unsynced, unsyncedBytes, ioErr>>
       \/ /\ ~syncBad /\ ioErr /\ SyncReturns(p, "io")
          /\ UNCHANGED <<unsynced, unsyncedBytes, ioErr>>
       \/ /\ ~syncBad /\ ~ioErr /\ "dir" \in Faults /\ SyncReturns(p, "io")
          /\ ioErr' = TRUE /\ UNCHANGED <<unsynced, unsyncedBytes>>
       \/ /\ ~syncBad /\ ~ioErr /\ SyncReturns(p, "nil")
          /\ unsynced' = Settled(unsynced, snap.ops)
          /\ unsyncedBytes' = Settled(unsyncedBytes, snap.bytes)
          /\ UNCHANGED ioErr
    /\ syncBad' = FALSE /\ snap' = [ops |-> 0, bytes |-> 0, epoch |-> 0]
    /\ UNCHANGED <<policy, closed, storeClosed, files, flushEpoch, op, todo, left, target,
                   kernel>>

-----------------------------------------------------------------------------
(* Close *)

CloseBegins ==
    /\ pc["closer"] = "idle" /\ mu = Free
    /\ closed' = TRUE /\ Goto("closer", "stopping")
    /\ UNCHANGED <<policy, storeClosed, ioErr, files, gauges, mu, syncMu, op, sync, kernel>>

\* syncLoop sees syncStop between two ticks
LoopExits ==
    /\ pc["loop"] = "idle" /\ closed
    /\ Goto("loop", "exited")
    /\ UNCHANGED <<policy, latch, files, gauges, mu, syncMu, op, sync, kernel>>

\* Mutant: syncMu is taken first, and the syncer waited for with it
CloseLocksFirst ==
    /\ syncMu' = "closer"
    /\ \/ pc["closer"] = "stopping" /\ syncMu = Free /\ UNCHANGED pc
       \/ /\ pc["closer"] = "stopping" /\ syncMu = "closer" /\ pc["loop"] = "exited"
          /\ Goto("closer", "closing")
    /\ UNCHANGED <<policy, latch, files, gauges, mu, op, sync, kernel>>

\* The syncer is gone; a Sync still running is waited out
CloseLocks ==
    /\ pc["closer"] = "stopping" /\ pc["loop"] = "exited" /\ syncMu = Free
    /\ syncMu' = "closer" /\ Goto("closer", "closing")
    /\ UNCHANGED <<policy, latch, files, gauges, mu, op, sync, kernel>>

\* store.close begins
CloseFlushes ==
    /\ pc["closer"] = "closing" /\ mu = Free
    /\ mu' = "closer" /\ Goto("closer", "closeFlush")
    /\ storeClosed' = TRUE
    /\ flushTodo' = live /\ flushBad' = ioErr
    /\ UNCHANGED <<policy, closed, ioErr, files, gauges, syncMu, opFile, sync, kernel>>

Closing == pc["closer"] = "closeFlush" /\ Holds("closer")

\* Each segment is flushed, under any policy, unless the store is latched (the
\* eviction that a reopen makes room by may latch it); flushed or not, its handle
\* goes
CloseNext ==
    /\ Closing
    /\ \E f \in Files :
          /\ First(f, flushTodo)
          /\ \/ /\ f \in dirty /\ f \notin open /\ ~ioErr /\ Opens(f)
                /\ UNCHANGED <<flushTodo, flushBad, dirty, ioErr, kernel>>
             \/ /\ \/ /\ f \in dirty /\ f \notin open /\ ~ioErr /\ "open" \in Faults
                      /\ flushBad' = TRUE /\ UNCHANGED <<ioErr, kernel>>
                   \/ /\ f \notin dirty \/ ioErr
                      /\ flushBad' = (flushBad \/ ioErr) /\ UNCHANGED <<ioErr, kernel>>
                   \/ /\ f \in dirty /\ f \in open /\ ~ioErr
                      /\ \/ FsyncOk(f, writeSeq[f]) /\ UNCHANGED <<ioErr, flushBad>>
                         \/ FsyncFails(f) /\ ioErr' = TRUE /\ flushBad' = TRUE
                /\ flushTodo' = flushTodo \ {f}
                /\ dirty' = dirty \ {f} /\ Closes({f}) /\ UNCHANGED keep
    /\ UNCHANGED <<policy, closed, storeClosed, live, committed, writeSeq, records,
                   gauges, mu, syncMu, pc, opFile, sync>>

\* The directory, and the gauges if everything reached the disk
CloseEnds ==
    /\ Closing /\ flushTodo = {}
    /\ \/ flushBad /\ UNCHANGED <<unsynced, unsyncedBytes, ioErr>>
       \/ ~flushBad /\ "dir" \in Faults /\ ioErr' = TRUE
                    /\ UNCHANGED <<unsynced, unsyncedBytes>>
       \/ ~flushBad /\ UNCHANGED ioErr /\ unsynced' = 0 /\ unsyncedBytes' = 0
    /\ Goto("closer", "done") /\ mu' = Free /\ syncMu' = Free /\ flushBad' = FALSE
    /\ UNCHANGED <<policy, closed, storeClosed, files, flushEpoch, opFile, flushTodo, sync,
                   kernel>>

-----------------------------------------------------------------------------
SyncStep(p) ==
    \/ SyncLocks(p) \/ SyncRefused(p) \/ SyncLists(p) \/ SyncPrepares(p) \/ SyncUnlocks(p)
    \/ SyncSettles(p) \/ SyncEnds(p) \/ \E f \in Files : SyncFsyncs(p, f)

CloseStep == CloseLocks \/ CloseFlushes \/ CloseNext \/ CloseEnds

\* What an operation begun under the mutex does until it releases it
OpStep ==
    \/ OpCycleFails \/ OpReadEnds \/ OpReclaims \/ FlushNext \/ FlushEnds
    \/ pc["ops"] = "cycled" /\ OpAppends

OpBegins ==
    \/ pc["ops"] = "idle" /\ OpAppends
    \/ \E drained \in BOOLEAN : OpCycles(drained)
    \/ \E f \in Files : OpReads(f) \/ \E full \in BOOLEAN : OpCommits(f, full)

Next ==
    \/ OpBegins \/ OpStep \/ Evict \/ CloseBegins \/ CloseStep \/ LoopExits
    \/ \E p \in Syncers : SyncCalled(p) \/ SyncStep(p)
    \/ \E f \in Files : WritebackFails(f)

Spec == Init /\ [][Next]_vars

-----------------------------------------------------------------------------
(* Properties *)

SegType ==
    /\ live \subseteq Files /\ live # {} /\ committed \in 0 .. MaxFile
    /\ dirty \subseteq Files /\ keep \in Files \union {NoFile}
    /\ writeSeq \in [Files -> 0 .. MaxWrites + 1] /\ records \subseteq Files \X Nth

\* The list of open handles orders them
ListType ==
    /\ open \subseteq Files /\ newer \subseteq open \X open
    /\ \A f, g \in open :
          f # g <=> (<<f, g>> \in newer /\ <<g, f>> \notin newer)
                 \/ (<<g, f>> \in newer /\ <<f, g>> \notin newer)

SyncType ==
    /\ todo \subseteq Files /\ left \in Nat
    /\ pinned \subseteq Files
    /\ \A f \in pinned : target[f] \in [seq : 0 .. MaxWrites + 1, res : Verdicts]
    /\ snap \in [ops : Nat, bytes : Nat, epoch : Nat]
    /\ promise \in [Files -> 0 .. MaxWrites + 1]

\* The types of the fields the flush uses, the list of open handles among them.
TypeOK ==
    /\ policy \in Policies
    /\ {closed, storeClosed, ioErr, flushBad, syncBad, kept} \subseteq BOOLEAN
    /\ SegType /\ ListType /\ SyncType
    /\ {unsynced, unsyncedBytes, flushEpoch} \subseteq Nat
    /\ {mu, syncMu} \subseteq Procs \union {Free} /\ pc \in [Procs -> Places]
    /\ opFile \in Files \union {NoFile} /\ flushTodo \subseteq Files
    /\ durable \in [Files -> 0 .. MaxWrites + 1]
    /\ dropped \subseteq Files /\ wberr \subseteq dropped

\* On a nil return of Sync every byte written before it listed the dirty set, and so
\* before the call, in a segment that still exists, is durable: whatever was written,
\* flushed, evicted, reopened or reclaimed beside it, and whoever was told of a failed
\* writeback (syncOffLock).
SyncKeepsPromise == kept

\* A Sync has been told of a failed writeback and has not got the mutex yet
FailureInHand == \E f \in pinned : target[f].res = "err"

\* The writes a power loss would undo
AtRisk ==
    {w \in Files \X Nth : /\ w[1] \in live
                          /\ durable[w[1]] < w[2] /\ w[2] <= writeSeq[w[1]]}

\* A segment that is not dirty has nothing left to lose, unless a failure is
\* latched or about to be: the clear after an off-lock fsync misses no write made
\* during it, and no eviction calls an unflushed segment clean (flushChunk,
\* flushFile, evictOpen).
CleanIsDurable ==
    ioErr \/ FailureInHand \/ storeClosed
        \/ \A w \in AtRisk : w[1] \in dirty

\* Stats().UnsyncedBytes never understates what a power loss would cost, and the
\* SyncEvery counter never understates the operations at risk: a stale snapshot is
\* not subtracted from counters another flush reset (syncOffLock, flushBatch).
GaugesHonest ==
    ioErr \/ FailureInHand
        \/ /\ unsyncedBytes >= Cardinality(AtRisk \intersect records)
           /\ policy = "batched" => unsynced >= Cardinality(AtRisk)

\* No handle is closed, and no segment reclaimed, under an fsync that is running
\* without the mutex (pins; Close's wait for syncMu).
HandlesOutliveFsync ==
    \A f \in pinned : f \in open /\ f \in live /\ ~storeClosed

\* MaxOpenFiles is in force whenever the mutex is free, during an off-lock flush
\* too (flushChunkSize, evictOpen).
OpenFilesCapped == mu = Free => Cardinality(open) <= MaxOpen

\* Whom p is waiting for: the holder of a mutex it wants, or the syncer
WaitsOn(p) ==
    CASE pc[p] = "wait" -> syncMu
      [] pc[p] = "enter" \/ (pc[p] = "fsync" /\ mu # p) -> mu
      [] p = "closer" /\ pc[p] = "stopping" ->
            IF pc["loop"] # "exited" THEN "loop" ELSE syncMu
      [] p = "closer" /\ pc[p] = "closing" -> mu
      [] OTHER -> Free

\* Nobody waits in a circle: Close waits for the syncer with no mutex in its hands,
\* and whoever has syncMu gets the queue mutex after it, never before (syncOffLock,
\* Close).
NoCircularWait ==
    \A S \in SUBSET Procs : S # {} => \E p \in S : WaitsOn(p) \notin S
=============================================================================
