---------------------------- MODULE GroupCommit ----------------------------
(***************************************************************************)
(* Group commit under the per-operation sync policy (diskqueue.go): the    *)
(* goroutines that stage records, lead a flush, follow one, quiesce the    *)
(* store (AddBatch, Sync, Close), wait for room (AddWait) or wait for a    *)
(* record (Take, Reserve).                                                 *)
(*                                                                         *)
(* A step is what one goroutine does while it holds the queue mutex w.mu,  *)
(* between two points where it releases it: the two fsyncs of a leader,    *)
(* the fsync of a Sync, and every wait on a channel.  mu names a holder    *)
(* only between steps that share one lock hold.  Closing a channel makes   *)
(* every goroutine parked on it runnable; each still has to take the mutex.*)
(*                                                                         *)
(* Calls repeat for ever, so nothing here counts them: a record is known   *)
(* by the process that wrote it and by its place in the active segment.    *)
(***************************************************************************)
EXTENDS Integers, FiniteSets

CONSTANTS
    Procs,      \* the goroutines
    Free,       \* the holder of a mutex nobody holds
    Calls,      \* which calls each of them makes
    Size,       \* the framed length of the records it writes
    BatchLen,   \* the number of items in an AddBatch
    SegCap,     \* Options.SegmentSize
    MaxBytes,   \* Options.MaxBytes, set here
    MaxOwed,    \* bound: corruption reports owed at a time
    Faults      \* which system calls and callbacks may fail

Kinds == {"add", "addWait", "batch", "sync", "close", "take"}
FaultKinds == {"stage", "data", "write", "header", "create", "dir", "commit",
               "sync", "marshal", "panic", "damage"}

ASSUME GroupCommitAssumption ==
    /\ IsFiniteSet(Procs) /\ Free \notin Procs
    /\ Calls \in [Procs -> SUBSET Kinds]
    /\ Size \in [Procs -> 1 .. SegCap]
    /\ BatchLen \in Nat \ {0} /\ SegCap \in Nat /\ MaxBytes \in Nat
    /\ MaxOwed \in Nat
    /\ \A p \in Procs : Size[p] <= MaxBytes
    /\ Faults \subseteq FaultKinds

VARIABLES
    closed,        \* Close has begun: new operations are refused
    storeClosed,   \* store.close has released the handles
    ioErr,         \* the latch
    flushing,      \* a leader is running
    pendingBytes, inFlight,      \* staged behind the span, and in the span
    group, curGroup,             \* followers of the span, and of the next one
    quiesceWant,   \* goroutines inside waitFlushQuiescedLocked
    size,          \* bytes published and not committed
    unread,        \* of these, the ones past the read cursor
    owed,          \* pendingCorrupt: losses no read has reported yet
    fill,          \* bytes published in the active segment
    mu, syncMu,    \* the holders of the two mutexes, or Free
    pc, call,      \* where each goroutine is, and in which call
    ret, count,    \* what its last call returned, and AddBatch's n
    item,          \* AddBatch's position in its items
    \* History, read by no action:
    pend, flight, heading,  \* records staged, in the span, under a header not synced
    real, safe,    \* records of the call that were published; that are durable
    torn           \* a header was published over bytes not written or not synced

flush  == <<flushing, pendingBytes, inFlight, group, curGroup, pend, flight, heading,
            real, safe, torn>>
room   == <<size, fill, unread, owed>>
locks  == <<mu, syncMu>>
latch  == <<closed, storeClosed, ioErr>>
result == <<ret, count, item>>
vars   == <<latch, flush, quiesceWant, room, locks, pc, call, result>>

Places == {"idle", "enter", "release", "space", "drain", "drainCheck", "quiesced",
           "follow", "verdict", "data", "header", "batch", "batchPublish", "notify",
           "syncLocked", "syncFlush", "closeSync", "closeLocked"}
Answers == {"none", "nil", "closed", "io", "full", "fail", "panic", "more", "corrupt"}

\* A staged record: who wrote it, where in the segment, whether that segment is
\* still the active one, and whether an fsync has covered its bytes
Staged == [by : Procs, at : Nat, live : BOOLEAN, synced : BOOLEAN]

Init ==
    /\ closed = FALSE /\ storeClosed = FALSE /\ ioErr = FALSE
    /\ flushing = FALSE /\ pendingBytes = 0 /\ inFlight = 0
    /\ group = {} /\ curGroup = {} /\ quiesceWant = 0
    /\ size = 0 /\ fill = 0 /\ unread = 0 /\ owed \in 0 .. MaxOwed /\ mu = Free /\ syncMu = Free
    /\ pc = [p \in Procs |-> "idle"] /\ call = [p \in Procs |-> "add"]
    /\ ret = [p \in Procs |-> "none"]
    /\ count = [p \in Procs |-> 0] /\ item = [p \in Procs |-> 0]
    /\ pend = {} /\ flight = {} /\ heading = {}
    /\ real = [p \in Procs |-> 0] /\ safe = [p \in Procs |-> 0]
    /\ torn = FALSE

-----------------------------------------------------------------------------
(* Pieces shared by the handlers *)

Locked(p) == mu \in {Free, p}

stagedBytes == pendingBytes + inFlight
Busy == flushing \/ stagedBytes > 0

\* Mutant: the cap does not see what is staged
FullPublished(p) == size + Size[p] > MaxBytes

\* admitRecord's ErrFull, and needsCycle
Full(p) == size + stagedBytes + Size[p] > MaxBytes
NeedsCycle(p) == fill + stagedBytes + Size[p] > SegCap

\* Closing a channel: everyone parked at one place goes on from another
Wake(at, from, to) == [q \in Procs |-> IF at[q] = from THEN to ELSE at[q]]

\* signalSpace: AddWait's loop starts over
SignalSpace(at) == Wake(at, "space", "enter")

\* signal: Take's and Reserve's loops start over
Signal(at) == Wake(at, "notify", "enter")

\* signalProgress, deferred by every consume operation
SignalProgress(at, reports) == IF reports > 0 THEN Signal(SignalSpace(at))
                               ELSE SignalSpace(at)

Recs(R, p) == Cardinality({r \in R : r.by = p})
Tally(f, R) == [p \in Procs |-> f[p] + Recs(R, p)]

\* stagePending: the bytes go behind everything staged so far
Stage(p) ==
    /\ pendingBytes' = pendingBytes + Size[p]
    /\ pend' = pend \union {[by |-> p, at |-> fill + stagedBytes, live |-> TRUE,
                             synced |-> FALSE]}

\* discardStaged
DiscardStaged ==
    /\ pendingBytes' = 0 /\ inFlight' = 0 /\ pend' = {} /\ flight' = {}

\* The span lies where the header says it does, and its bytes were fsynced
Intact(R, n) ==
    /\ \A r \in R : r.live /\ r.synced
    /\ UNION {r.at .. r.at + Size[r.by] - 1 : r \in R} = fill .. fill + n - 1

\* publishSpan's header went out over the records R, n bytes of them
Published(R, n) ==
    /\ fill' = fill + n /\ size' = size + n /\ unread' = unread + n
    /\ UNCHANGED owed
    /\ real' = Tally(real, R)
    /\ torn' = (torn \/ ~Intact(R, n))

Synced(R) == {[r EXCEPT !.synced = TRUE] : r \in R}

\* cycle: the new segment is empty and nothing written before lies in it
Cycle ==
    /\ fill' = 0
    /\ pend' = {[r EXCEPT !.live = FALSE] : r \in pend}
    /\ flight' = {[r EXCEPT !.live = FALSE] : r \in flight}

\* p's call returns a
Return(p, a, at) ==
    /\ pc' = [at EXCEPT ![p] = "idle"]
    /\ ret' = [ret EXCEPT ![p] = a]
    /\ mu' = Free

Goto(p, place) == pc' = [pc EXCEPT ![p] = place]

Begin(p, k) ==
    /\ pc[p] = "idle" /\ k \in Calls[p]
    /\ Goto(p, "enter")
    /\ call' = [call EXCEPT ![p] = k]
    /\ ret' = [ret EXCEPT ![p] = "none"]
    /\ count' = [count EXCEPT ![p] = 0] /\ item' = [item EXCEPT ![p] = 0]
    /\ real' = [real EXCEPT ![p] = 0] /\ safe' = [safe EXCEPT ![p] = 0]
    /\ UNCHANGED <<latch, flushing, pendingBytes, inFlight, group, curGroup, pend,
                   flight, heading, torn, quiesceWant, room, locks>>

-----------------------------------------------------------------------------
(* addDurableLocked: one pass of its loop, and AddWait's loop around it *)

Adding(p) == pc[p] = "enter" /\ call[p] \in {"add", "addWait"} /\ Locked(p)
Open == ~closed /\ ~ioErr

\* Mutant: producers take no notice of a goroutine waiting to quiesce
YieldsNever == FALSE

\* Producers hold off while anyone quiesces
Yields == quiesceWant > 0

AddRefused(p) ==
    /\ Adding(p)
    /\ \/ closed /\ Return(p, "closed", pc)
       \/ ~closed /\ ioErr /\ Return(p, "io", pc)
       \/ /\ Open /\ ~Yields /\ Full(p) /\ call[p] = "add"
          /\ Return(p, "full", pc)
    /\ UNCHANGED <<latch, flush, quiesceWant, room, syncMu, call, count, item>>

\* waitQuiesceReleaseLocked: give way to whoever is quiescing
AddYields(p) ==
    /\ Adding(p) /\ Open /\ Yields
    /\ Goto(p, "release") /\ mu' = Free
    /\ UNCHANGED <<latch, flush, quiesceWant, room, syncMu, call, result>>

\* waitSpaceLocked
AddParks(p) ==
    /\ Adding(p) /\ Open /\ ~Yields
    /\ Full(p) /\ call[p] = "addWait"
    /\ Goto(p, "space") /\ mu' = Free
    /\ UNCHANGED <<latch, flush, quiesceWant, room, syncMu, call, result>>

\* AddWait's context is done
AddCancelled(p) ==
    /\ pc[p] = "space" /\ mu = Free
    /\ Return(p, "fail", pc)
    /\ UNCHANGED <<latch, flush, quiesceWant, room, syncMu, call, count, item>>

Admitted(p) == Adding(p) /\ Open /\ ~Yields /\ ~Full(p)

\* The segment is full behind its staged tail: quiesce, and look again
AddQuiesces(p) ==
    /\ Admitted(p) /\ NeedsCycle(p) /\ Busy
    /\ quiesceWant' = quiesceWant + 1
    /\ Goto(p, "drainCheck") /\ mu' = p
    /\ UNCHANGED <<latch, flush, room, syncMu, call, result>>

\* Mutant: the segment is cycled under the staged tail
AddCyclesBusy(p) ==
    /\ Admitted(p) /\ NeedsCycle(p)
    /\ Cycle /\ mu' = p
    /\ UNCHANGED <<latch, flushing, pendingBytes, inFlight, group, curGroup, heading,
                   real, safe, torn, quiesceWant, size, unread, owed, syncMu, pc, call,
                   result>>

AddCycles(p) ==
    /\ Admitted(p) /\ NeedsCycle(p) /\ ~Busy
    /\ Cycle /\ mu' = p
    /\ UNCHANGED <<latch, flushing, pendingBytes, inFlight, group, curGroup, heading,
                   real, safe, torn, quiesceWant, size, unread, owed, syncMu, pc, call,
                   result>>

\* cycle or stagePending failed.  A failed directory fsync latches.
AddFails(p) ==
    /\ Admitted(p)
    /\ \/ NeedsCycle(p) /\ ~Busy /\ "create" \in Faults /\ Return(p, "fail", pc)
                        /\ UNCHANGED <<ioErr, fill>>
       \/ NeedsCycle(p) /\ ~Busy /\ "dir" \in Faults /\ Return(p, "io", pc)
                        /\ ioErr' = TRUE /\ fill' = 0
       \/ ~NeedsCycle(p) /\ "stage" \in Faults /\ Return(p, "fail", pc)
                         /\ UNCHANGED <<ioErr, fill>>
    /\ UNCHANGED <<closed, storeClosed, flush, quiesceWant, size, unread, owed, syncMu,
                   call, count, item>>

\* A leader is mid-flush: the record joins the next span
AddFollows(p) ==
    /\ Admitted(p) /\ ~NeedsCycle(p) /\ flushing
    /\ Stage(p)
    /\ curGroup' = curGroup \union {p}
    /\ Goto(p, "follow") /\ mu' = Free
    /\ UNCHANGED <<latch, flushing, inFlight, group, flight, heading, real, safe, torn,
                   quiesceWant, room, syncMu, call, result>>

\* leadFlushLocked begins: the span is taken and the data fsync is under way
AddLeads(p) ==
    /\ Admitted(p) /\ ~NeedsCycle(p) /\ ~flushing
    /\ flushing' = TRUE
    /\ inFlight' = pendingBytes + Size[p] /\ pendingBytes' = 0
    /\ flight' = pend \union {[by |-> p, at |-> fill + stagedBytes, live |-> TRUE,
                               synced |-> FALSE]}
    /\ pend' = {}
    /\ group' = curGroup /\ curGroup' = {}
    /\ Goto(p, "data") /\ mu' = Free
    /\ UNCHANGED <<latch, heading, real, safe, torn, quiesceWant, room, syncMu, call,
                   result>>

-----------------------------------------------------------------------------
(* leadFlushLocked *)

Answer(f, Q, a) == [q \in Procs |-> IF q \in Q THEN a ELSE f[q]]

\* Mutant: the leader answers with its last span's verdict
MineLast(p, a) == a

\* The leader's own verdict is the first span's
Mine(p, a) == IF ret[p] = "none" THEN a ELSE ret[p]

\* The leader is done: the quiescers and AddWait's waiters are woken
Leave(p, answers, Q) ==
    LET at == [q \in Procs |-> IF q \in Q THEN "verdict" ELSE pc[q]]
    IN  /\ flushing' = FALSE
        /\ pc' = [SignalSpace(Wake(at, "drain", "drainCheck")) EXCEPT ![p] = "idle"]
        /\ ret' = answers

\* Mutant: the followers of the next span are left to a leader that never comes
SpanFailedAlone(p, a) ==
    /\ DiscardStaged /\ group' = {} /\ curGroup' = {} /\ heading' = {}
    /\ Leave(p, [Answer(ret, group, a) EXCEPT ![p] = Mine(p, a)], group)

\* The span failed: it, and whatever was staged behind it, is gone; both groups
\* of followers are told
SpanFailed(p, a) ==
    /\ DiscardStaged /\ group' = {} /\ curGroup' = {} /\ heading' = {}
    /\ Leave(p, [Answer(ret, group \union curGroup, a) EXCEPT ![p] = Mine(p, a)],
             group \union curGroup)

\* The span is durable.  With followers waiting the leader takes the next span.
SpanDone(p) ==
    LET answers == [Answer(ret, group, "nil") EXCEPT ![p] = Mine(p, "nil")]
    IN  /\ heading' = {}
        /\ safe' = Tally(safe, heading)
        /\ \/ /\ curGroup = {}
              /\ group' = {}
              /\ Leave(p, answers, group)
              /\ UNCHANGED <<curGroup, pendingBytes, inFlight, pend, flight>>
           \/ /\ curGroup # {}
              /\ group' = curGroup /\ curGroup' = {}
              /\ inFlight' = pendingBytes /\ pendingBytes' = 0
              /\ flight' = pend /\ pend' = {}
              /\ pc' = [q \in Procs |-> IF q = p THEN "data"
                                        ELSE IF q \in group THEN "verdict" ELSE pc[q]]
              /\ ret' = answers
              /\ UNCHANGED flushing

\* The data fsync returned nil and nothing else latched meanwhile: publishSpan
\* writes the header, and the header fsync is under way
LeaderPublishes(p) ==
    /\ pc[p] = "data" /\ mu = Free /\ ~ioErr
    /\ Published(Synced(flight), inFlight)
    /\ inFlight' = 0 /\ flight' = {} /\ heading' = flight
    /\ pc' = [Signal(pc) EXCEPT ![p] = "header"]
    /\ UNCHANGED <<latch, flushing, pendingBytes, group, curGroup, pend, safe,
                   quiesceWant, locks, call, result>>

\* The data fsync failed, or the store latched while it ran, or the header could
\* not be written: nothing is published, and only an fsync latches
LeaderUnpublished(p) ==
    /\ pc[p] = "data" /\ mu = Free
    /\ \/ ioErr /\ SpanFailed(p, "io") /\ UNCHANGED ioErr
       \/ "data" \in Faults /\ SpanFailed(p, "io") /\ ioErr' = TRUE
       \/ "write" \in Faults /\ ~ioErr /\ SpanFailed(p, "fail") /\ UNCHANGED ioErr
    /\ UNCHANGED <<closed, storeClosed, real, safe, torn, quiesceWant, room, locks,
                   call, count, item>>

\* The header fsync failed, or the store latched while it ran: the records stay
LeaderPoisoned(p) ==
    /\ pc[p] = "header" /\ mu = Free
    /\ ioErr \/ "header" \in Faults
    /\ ioErr' = TRUE
    /\ SpanFailed(p, "io")
    /\ UNCHANGED <<closed, storeClosed, real, safe, torn, quiesceWant, room, locks,
                   call, count, item>>

LeaderSettles(p) ==
    /\ pc[p] = "header" /\ mu = Free /\ ~ioErr
    /\ SpanDone(p)
    /\ UNCHANGED <<latch, real, torn, quiesceWant, room, locks, call, count, item>>

\* A follower's group is done
FollowerReturns(p) ==
    /\ pc[p] = "verdict" /\ mu = Free
    /\ Goto(p, "idle")
    /\ UNCHANGED <<latch, flush, quiesceWant, room, locks, call, result>>

-----------------------------------------------------------------------------
(* waitFlushQuiescedLocked *)

\* Mutant: the quiescer is not counted
QuiesceStartsUncounted(p) ==
    /\ Locked(p)
    /\ \/ pc[p] = "enter" /\ call[p] = "batch" /\ ~closed
       \/ pc[p] = "syncLocked" /\ ~closed
       \/ pc[p] = "closeLocked"
    /\ Goto(p, "drainCheck") /\ mu' = p
    /\ UNCHANGED <<latch, flush, quiesceWant, room, syncMu, call, result>>

\* AddBatch, Sync and Close enter the wait, unless Close came first
QuiesceStarts(p) ==
    /\ Locked(p)
    /\ \/ pc[p] = "enter" /\ call[p] = "batch" /\ ~closed
       \/ pc[p] = "syncLocked" /\ ~closed
       \/ pc[p] = "closeLocked"
    /\ quiesceWant' = quiesceWant + 1
    /\ Goto(p, "drainCheck") /\ mu' = p
    /\ UNCHANGED <<latch, flush, room, syncMu, call, result>>

QuiesceWaits(p) ==
    /\ pc[p] = "drainCheck" /\ Locked(p) /\ Busy
    /\ Goto(p, "drain") /\ mu' = Free
    /\ UNCHANGED <<latch, flush, quiesceWant, room, syncMu, call, result>>

\* Mutant: the last quiescer out does not close quiesceRelease
QuiesceEndsSilent(p) ==
    /\ pc[p] = "drainCheck" /\ Locked(p) /\ ~Busy
    /\ quiesceWant' = quiesceWant - 1
    /\ Goto(p, IF call[p] \in {"add", "addWait"} THEN "enter" ELSE "quiesced")
    /\ mu' = p
    /\ UNCHANGED <<latch, flush, room, syncMu, call, result>>

\* The last quiescer out releases the producers that gave way
QuiesceEnds(p) ==
    /\ pc[p] = "drainCheck" /\ Locked(p) /\ ~Busy
    /\ quiesceWant' = quiesceWant - 1
    /\ pc' = [(IF quiesceWant = 1 THEN Wake(pc, "release", "enter") ELSE pc)
                EXCEPT ![p] = IF call[p] \in {"add", "addWait"} THEN "enter"
                              ELSE "quiesced"]
    /\ mu' = p
    /\ UNCHANGED <<latch, flush, room, syncMu, call, result>>

-----------------------------------------------------------------------------
(* addBatchLocked, under one lock hold once it is quiesced *)

\* Mutant: the flags are not looked at again after the quiesce
BatchBeginsUnchecked(p) ==
    /\ call[p] = "batch"
    /\ \/ pc[p] = "quiesced" /\ Goto(p, "batch") /\ UNCHANGED <<mu, ret>>
       \/ pc[p] = "enter" /\ Locked(p) /\ closed /\ Return(p, "closed", pc)
    /\ UNCHANGED <<latch, flush, quiesceWant, room, syncMu, call, count, item>>

BatchBegins(p) ==
    /\ call[p] = "batch"
    /\ \/ pc[p] = "quiesced" /\ Open /\ Goto(p, "batch") /\ UNCHANGED <<mu, ret>>
       \/ pc[p] = "quiesced" /\ closed /\ Return(p, "closed", pc)
       \/ pc[p] = "quiesced" /\ ~closed /\ ioErr /\ Return(p, "io", pc)
       \/ pc[p] = "enter" /\ Locked(p) /\ closed /\ Return(p, "closed", pc)
    /\ UNCHANGED <<latch, flush, quiesceWant, room, syncMu, call, count, item>>

BatchAt(p) == pc[p] = "batch" /\ item[p] < BatchLen

\* Mutant: only a batch that succeeds tells the readers
BatchReturnQuiet(p, a, n) == Return(p, a, IF a = "nil" THEN Signal(pc) ELSE pc)

\* AddBatch's deferred signal: writeOff moved, n records are new, however it ended.
\* (What other producers published during the quiesce they signalled themselves.)
BatchReturn(p, a, n) == Return(p, a, IF n > 0 THEN Signal(pc) ELSE pc)

BatchStages(p) ==
    /\ BatchAt(p) /\ ~Full(p) /\ ~NeedsCycle(p)
    /\ Stage(p)
    /\ item' = [item EXCEPT ![p] = @ + 1]
    /\ UNCHANGED <<latch, flushing, inFlight, group, curGroup, flight, heading, real,
                   safe, torn, quiesceWant, room, locks, pc, call, ret, count>>

\* Why the batch publishes what it has: the cap, a codec or write error, a full
\* segment, or its end
BatchStops(p) ==
    /\ pc[p] = "batch"
    /\ \E why \in {"nil", "full", "fail", "more"} :
          /\ CASE why = "nil"  -> item[p] = BatchLen
               [] why = "full" -> BatchAt(p) /\ Full(p)
               [] why = "fail" -> /\ BatchAt(p)
                                  /\ \/ "marshal" \in Faults
                                     \/ "stage" \in Faults /\ ~Full(p) /\ ~NeedsCycle(p)
               [] why = "more" -> /\ BatchAt(p) /\ ~Full(p) /\ NeedsCycle(p)
                                  /\ pendingBytes > 0
          /\ ret' = [ret EXCEPT ![p] = why]
    /\ Goto(p, "batchPublish")
    /\ UNCHANGED <<latch, flush, quiesceWant, room, locks, call, count, item>>

BatchCycles(p) ==
    /\ BatchAt(p) /\ ~Full(p) /\ NeedsCycle(p) /\ pendingBytes = 0
    /\ \/ /\ Cycle
          /\ UNCHANGED <<ioErr, pc, ret, mu>>
       \/ /\ "create" \in Faults /\ BatchReturn(p, "fail", count[p])
          /\ UNCHANGED <<ioErr, fill, pend, flight>>
       \/ /\ "dir" \in Faults /\ BatchReturn(p, "io", count[p])
          /\ ioErr' = TRUE /\ Cycle
    /\ UNCHANGED <<closed, storeClosed, flushing, pendingBytes, inFlight, group,
                   curGroup, heading, real, safe, torn, quiesceWant, size, unread,
                   owed, syncMu, call, count, item>>

\* Mutant: the codec's panic leaves the staged tail behind
BatchPanicsStaged(p) ==
    /\ BatchAt(p) /\ "panic" \in Faults
    /\ BatchReturn(p, "panic", count[p])
    /\ UNCHANGED <<latch, flush, quiesceWant, room, syncMu, call, count, item>>

\* The codec panics under the lock: the staged tail is discarded on the way out
BatchPanics(p) ==
    /\ BatchAt(p) /\ "panic" \in Faults
    /\ DiscardStaged
    /\ BatchReturn(p, "panic", count[p])
    /\ UNCHANGED <<latch, flushing, group, curGroup, heading, real, safe, torn,
                   quiesceWant, room, syncMu, call, count, item>>

\* publishBatchLocked returned nil, and the batch goes on or is over
BatchGoesOn(p) ==
    IF ret[p] = "more"
    THEN /\ Goto(p, "batch")
         /\ ret' = [ret EXCEPT ![p] = "none"]
         /\ UNCHANGED mu
    ELSE BatchReturn(p, ret[p], count'[p])

BatchPublishes(p) ==
    /\ pc[p] = "batchPublish"
    /\ DiscardStaged
    /\ Published(Synced(pend), pendingBytes)
    /\ count' = [count EXCEPT ![p] = @ + Cardinality(pend)]
    /\ \/ /\ safe' = Tally(safe, pend)
          /\ BatchGoesOn(p) /\ UNCHANGED ioErr
       \/ /\ "header" \in Faults /\ pendingBytes > 0
          /\ ioErr' = TRUE
          /\ BatchReturn(p, "io", count'[p]) /\ UNCHANGED safe
    /\ UNCHANGED <<closed, storeClosed, flushing, group, curGroup, heading, quiesceWant,
                   syncMu, call, item>>

\* The data fsync or the header write failed: nothing staged survives
BatchUnpublished(p) ==
    /\ pc[p] = "batchPublish" /\ pendingBytes > 0
    /\ \/ "data" \in Faults /\ BatchReturn(p, "io", count[p]) /\ ioErr' = TRUE
       \/ "write" \in Faults /\ BatchReturn(p, "fail", count[p]) /\ UNCHANGED ioErr
    /\ DiscardStaged
    /\ UNCHANGED <<closed, storeClosed, flushing, group, curGroup, heading, real, safe,
                   torn, quiesceWant, room, syncMu, call, count, item>>

-----------------------------------------------------------------------------
(* Sync and Close *)

\* syncOffLock takes syncMu first and keeps it to the end
SyncLocks(p) ==
    /\ pc[p] = "enter" /\ call[p] = "sync" /\ syncMu = Free
    /\ syncMu' = p
    /\ Goto(p, "syncLocked")
    /\ UNCHANGED <<latch, flush, quiesceWant, room, mu, call, result>>

\* Refused before or after the quiesce; otherwise the fsyncs begin, off the lock
SyncBegins(p) ==
    /\ Locked(p) /\ call[p] = "sync"
    /\ \/ /\ pc[p] = "quiesced" /\ Open
          /\ Goto(p, "syncFlush") /\ mu' = Free
          /\ UNCHANGED <<syncMu, ret>>
       \/ /\ \/ pc[p] = "syncLocked" /\ closed /\ Return(p, "closed", SignalSpace(pc))
             \/ pc[p] = "quiesced" /\ closed /\ Return(p, "closed", SignalSpace(pc))
             \/ pc[p] = "quiesced" /\ ~closed /\ ioErr
                                   /\ Return(p, "io", SignalSpace(pc))
          /\ syncMu' = Free
    /\ UNCHANGED <<latch, flush, quiesceWant, room, call, count, item>>

SyncEnds(p) ==
    /\ pc[p] = "syncFlush" /\ mu = Free
    /\ \/ ~ioErr /\ UNCHANGED ioErr /\ Return(p, "nil", SignalSpace(pc))
       \/ ioErr /\ UNCHANGED ioErr /\ Return(p, "io", SignalSpace(pc))
       \/ "sync" \in Faults /\ ioErr' = TRUE /\ Return(p, "io", SignalSpace(pc))
    /\ syncMu' = Free
    /\ UNCHANGED <<closed, storeClosed, flush, quiesceWant, room, call, count, item>>

CloseBegins(p) ==
    /\ pc[p] = "enter" /\ call[p] = "close" /\ mu = Free
    /\ \/ closed /\ Return(p, "closed", pc) /\ UNCHANGED closed
       \/ /\ ~closed /\ closed' = TRUE
          /\ pc' = [Signal(SignalSpace(pc)) EXCEPT ![p] = "closeSync"]
          /\ UNCHANGED <<ret, mu>>
    /\ UNCHANGED <<storeClosed, ioErr, flush, quiesceWant, room, syncMu, call, count,
                   item>>

\* Close waits out a Sync
CloseLocks(p) ==
    /\ pc[p] = "closeSync" /\ syncMu = Free
    /\ syncMu' = p
    /\ Goto(p, "closeLocked")
    /\ UNCHANGED <<latch, flush, quiesceWant, room, mu, call, result>>

\* store.close: a last flush, and the handles go
CloseEnds(p) ==
    /\ pc[p] = "quiesced" /\ call[p] = "close"
    /\ storeClosed' = TRUE
    /\ \/ Return(p, IF ioErr THEN "io" ELSE "nil", pc) /\ UNCHANGED ioErr
       \/ "sync" \in Faults /\ ioErr' = TRUE /\ Return(p, "io", pc)
    /\ syncMu' = Free
    /\ UNCHANGED <<closed, flush, quiesceWant, room, call, count, item>>

-----------------------------------------------------------------------------
(* The consumers: a goroutine inside Take, one pass of its loop, ... *)

Taking(p) == pc[p] = "enter" /\ call[p] = "take" /\ mu = Free
consumed == <<closed, storeClosed, flush, quiesceWant, fill, locks, call, count, item>>

\* Closed, or a loss is still to be reported: takeHead pays that first
TakeAnswers(p) ==
    /\ Taking(p)
    /\ \/ closed /\ Return(p, "closed", SignalProgress(pc, owed)) /\ UNCHANGED owed
       \/ /\ ~closed /\ owed > 0 /\ owed' = owed - 1
          /\ Return(p, "corrupt", SignalProgress(pc, owed'))
    /\ UNCHANGED <<ioErr, size, unread, consumed>>

\* waitLocked: nothing to read and nothing to report
TakeParks(p) ==
    /\ Taking(p) /\ ~closed /\ owed = 0 /\ unread = 0
    /\ Goto(p, "notify")
    /\ UNCHANGED <<ioErr, room, consumed, ret>>

\* Take's context is done
TakeCancelled(p) ==
    /\ pc[p] = "notify" /\ mu = Free
    /\ Return(p, "fail", SignalProgress(pc, owed))
    /\ UNCHANGED <<ioErr, room, consumed>>

\* A walk of the commit cursor to s bytes short of the tail: it arrives, or fails a
\* write on the way, or fails the last fsync; it may quarantine and owe the report.
\* A latched store commits nothing.
CommitWalk(s, a) ==
    \/ ~ioErr /\ size' = s /\ a = "nil" /\ UNCHANGED <<ioErr, owed>>
    \/ /\ ~ioErr /\ "write" \in Faults /\ size' \in s .. size /\ a = "fail"
       /\ UNCHANGED <<ioErr, owed>>
    \/ /\ ~ioErr /\ "damage" \in Faults /\ owed < MaxOwed
       /\ size' = s /\ a = "nil" /\ owed' = owed + 1 /\ UNCHANGED ioErr
    \/ /\ ~ioErr /\ "commit" \in Faults /\ size' = s /\ a = "io" /\ ioErr' = TRUE
       /\ UNCHANGED owed
    \/ ioErr /\ a = "io" /\ UNCHANGED <<size, ioErr, owed>>

\* The record at the head, n bytes, is read and committed; or the codec rejects it
\* and it stays; or it is damaged, and the segment's rest is quarantined with it or
\* set aside behind a reservation
TakeReads(p, n) ==
    /\ Taking(p) /\ ~closed /\ owed = 0 /\ n <= unread
    /\ \/ /\ unread' = unread - n
          /\ \E a \in {"nil", "fail", "io"} :
                /\ CommitWalk(unread - n, a)
                /\ Return(p, a, SignalProgress(pc, owed'))
       \/ /\ "marshal" \in Faults /\ Return(p, "fail", SignalProgress(pc, owed))
          /\ UNCHANGED <<size, unread, owed, ioErr>>
       \/ /\ "damage" \in Faults
          /\ \/ size > unread /\ unread' = unread - n /\ UNCHANGED size
             \/ size = unread /\ unread' = unread - n /\ size' = unread - n
          /\ size = unread => ~ioErr
          /\ Return(p, "corrupt", SignalProgress(pc, owed))
          /\ UNCHANGED <<owed, ioErr>>
       \/ /\ "damage" \in Faults /\ size = unread /\ ioErr
          /\ Return(p, "io", SignalProgress(pc, owed))
          /\ UNCHANGED <<size, unread, owed, ioErr>>
    /\ UNCHANGED consumed

-----------------------------------------------------------------------------
(* ... and the operations that do not wait, by anyone *)

Consuming == mu = Free /\ ~closed

\* TryReserve moves the read cursor alone
TryReserve(n) ==
    /\ Consuming /\ owed = 0 /\ n <= unread
    /\ unread' = unread - n
    /\ pc' = SignalProgress(pc, owed)
    /\ UNCHANGED <<ioErr, size, owed, ret, consumed>>

\* Commit, Ack and AckBatch move the commit cursor over n bytes that were read
Retire(n) ==
    /\ Consuming /\ n <= size - unread
    /\ \E a \in {"nil", "fail", "io"} : CommitWalk(size - n, a)
    /\ pc' = SignalProgress(pc, owed')
    /\ UNCHANGED <<unread, ret, consumed>>

Rewind ==
    /\ Consuming
    /\ unread' = size
    /\ pc' = IF unread < size THEN Signal(pc) ELSE pc
    /\ UNCHANGED <<ioErr, size, owed, ret, consumed>>

-----------------------------------------------------------------------------
AddStep(p) ==
    \/ AddRefused(p) \/ AddYields(p) \/ AddParks(p) \/ AddQuiesces(p) \/ AddCycles(p)
    \/ AddFails(p) \/ AddFollows(p) \/ AddLeads(p)

LeadStep(p) ==
    \/ LeaderPublishes(p) \/ LeaderUnpublished(p) \/ LeaderPoisoned(p)
    \/ LeaderSettles(p) \/ FollowerReturns(p)

QuiesceStep(p) == QuiesceStarts(p) \/ QuiesceWaits(p) \/ QuiesceEnds(p)

BatchStep(p) ==
    \/ BatchBegins(p) \/ BatchStages(p) \/ BatchStops(p) \/ BatchCycles(p)
    \/ BatchPanics(p) \/ BatchPublishes(p) \/ BatchUnpublished(p)

SyncStep(p) == SyncLocks(p) \/ SyncBegins(p) \/ SyncEnds(p)

TakeStep(p) ==
    TakeAnswers(p) \/ TakeParks(p) \/ \E n \in 1 .. MaxBytes : TakeReads(p, n)

CloseStep(p) == CloseBegins(p) \/ CloseLocks(p) \/ CloseEnds(p)

\* What a goroutine inside a call does next
Step(p) ==
    \/ AddStep(p) \/ LeadStep(p) \/ QuiesceStep(p) \/ BatchStep(p) \/ SyncStep(p)
    \/ CloseStep(p) \/ TakeStep(p)

Next ==
    \/ \E p \in Procs :
          Step(p) \/ AddCancelled(p) \/ TakeCancelled(p) \/ \E k \in Kinds : Begin(p, k)
    \/ \E n \in 1 .. MaxBytes : TryReserve(n) \/ Retire(n)
    \/ Rewind

Spec == Init /\ [][Next]_vars

\* A goroutine inside a call runs again and again, and one that keeps finding the
\* mutex taken gets it in the end: sync.Mutex hands over to a starved waiter.
\* Nobody has to begin a call, to consume, or to cancel.
FairSpec == Spec /\ \A p \in Procs : SF_vars(Step(p))

-----------------------------------------------------------------------------
(* Properties *)

\* The types of the fields of Queue and store that group commit uses.
TypeOK ==
    /\ {closed, storeClosed, ioErr, flushing, torn} \subseteq BOOLEAN
    /\ {pendingBytes, inFlight, size, fill} \subseteq Nat
    /\ unread \in 0 .. size /\ owed \in 0 .. MaxOwed
    /\ group \subseteq Procs /\ curGroup \subseteq Procs
    /\ quiesceWant \in 0 .. Cardinality(Procs)
    /\ {mu, syncMu} \subseteq Procs \union {Free}
    /\ pc \in [Procs -> Places] /\ call \in [Procs -> Kinds]
    /\ ret \in [Procs -> Answers]
    /\ {count, item, real, safe} \subseteq [Procs -> Nat]
    /\ (pend \union flight \union heading) \subseteq Staged

\* What a call answers is true.  A nil Add or AddBatch: every record is
\* published and durable, its bytes fsynced before the header that publishes
\* them and that header fsynced.  An error other than ErrIO: none of an Add's
\* records is in the queue.  AddBatch's n is the number of its records that are
\* in the queue, whatever stopped it (addDurableLocked, leadFlushLocked,
\* publishBatchLocked).
VerdictTrue ==
    \A p \in Procs : pc[p] = "idle" =>
        /\ call[p] \in {"add", "addWait"} =>
              /\ ret[p] = "nil" => safe[p] = 1
              /\ ret[p] \in {"full", "fail", "closed"} => real[p] = 0
        /\ call[p] = "batch" =>
              /\ ret[p] = "nil" => safe[p] = BatchLen
              /\ real[p] = count[p]

\* A header is only ever published over bytes that were fsynced and that lie in
\* the active segment where the header says: no flush, discard or cycle by
\* another goroutine slips in between a stage and its publication (stagePending,
\* publishSpan, the quiesce before a cycle).
SpanIntact == ~torn

\* Staged records always have someone who will settle them: a leader, or a batch
\* holding the lock.  A tail nobody owns would block every later quiesce.
NoOrphanTail ==
    stagedBytes > 0 =>
        \/ flushing /\ \E p \in Procs : pc[p] \in {"data", "header"}
        \/ \E p \in Procs : mu = p /\ pc[p] \in {"batch", "batchPublish"}

\* Backpressure counts what is staged: published and staged bytes together never
\* pass MaxBytes, however many producers were admitted at once (admitRecord).  The
\* forced append of Requeue, which the cap does not bind, is no call of this module.
CapHeld == size + stagedBytes <= MaxBytes

\* Once store.close has released the handles nobody is inside an fsync, nothing
\* is staged, and nothing will be (Close, the re-checks after every wait).
ClosedQuiet ==
    storeClosed =>
        /\ ~Busy
        /\ \A p \in Procs : pc[p] \notin {"data", "header", "syncFlush", "batch"}

\* No wakeup is lost: while the mutex is free a consumer is parked in waitLocked
\* only if there is nothing to read, no loss to report and the queue is open,
\* whoever made the work and however that call ended: a leader whose header fsync
\* is still to come, a batch whose codec panicked after a segment was published, a
\* commit that found damage, a Rewind, Close (signal, signalProgress).
NoLostWakeup ==
    mu = Free =>
        \A p \in Procs : pc[p] = "notify" => unread = 0 /\ owed = 0 /\ ~closed

\* AddBatch, Sync and Close end, whatever stream of Adds runs beside them: the
\* barrier of quiesceWant (waitFlushQuiescedLocked).
QuiescersServed ==
    \A p \in Procs :
        (call[p] \in {"batch", "sync", "close"} /\ pc[p] # "idle") ~> pc[p] = "idle"

\* A follower gets a verdict and returns: no leader leaves a group behind.
FollowersAnswered == \A p \in Procs : pc[p] = "follow" ~> pc[p] = "idle"

\* The Add that leads a flush returns, although the leader stays as long as
\* followers keep arriving: the segment fills up behind its spans, and the
\* producer that has to cycle it quiesces the others (leadFlushLocked,
\* addDurableLocked).
LeadersReturn == \A p \in Procs : pc[p] = "data" ~> pc[p] = "idle"

\* A producer that gave way to a quiescer is let go again.
YieldersReleased == \A p \in Procs : pc[p] = "release" ~> pc[p] # "release"
=============================================================================
