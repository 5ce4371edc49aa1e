------------------------------- MODULE Store -------------------------------
(***************************************************************************)
(* The segment store of diskqueue (store.go, reserve.go, the consume side  *)
(* of reader.go, the reopen path of recovery.go), as the queue mutex w.mu  *)
(* serialises it.                                                          *)
(*                                                                         *)
(* A handler that only touches a few fields is one action.  A handler that *)
(* loops (the commit walk, the acknowledged-run scan, reclamation) or that *)
(* calls several fallible steps (append, cycle) is a chain of steps driven *)
(* by op, the call in progress: while op.pc # "idle" the mutex is held and *)
(* the only steps enabled are the next one of that call and a process      *)
(* crash.                                                                  *)
(*                                                                         *)
(* Offsets are global positions in units of a fixed number of bytes; a     *)
(* record is 1..MaxLen units long and is known by the offset it starts at. *)
(* load re-bases offsets at zero when a process restarts; the model keeps  *)
(* the old ones, which is a translation nobody can observe.                *)
(***************************************************************************)
EXTENDS Integers, Sequences, FiniteSets

CONSTANTS
    MaxOff,       \* bound on the write cursor
    MaxLen,       \* the longest record
    SegCap,       \* Options.SegmentSize
    MaxSegs,      \* bound on the segments ever created
    MaxSegments,  \* Options.MaxSegments, 0 for no cap
    MaxBytes,     \* Options.MaxBytes, 0 for no cap
    Policy,       \* the sync policy: "perOp", "batched" or "noSync"
    Damage,       \* what the disk may do to a published record
    Faults,       \* which system calls may fail
    MaxRot,       \* bound on the damaged records
    MaxGone,      \* bound on the segment files that vanish
    MaxReplays,   \* bound on Rewind calls and restarts together
    MaxRefusals   \* no Ack or Commit is called once so many were refused

Policies == {"perOp", "batched", "noSync"}
DamageKinds == {"sum", "frame"}
FaultKinds == {"open", "write", "create", "unlink", "fsync"}

ASSUME StoreAssumption ==
    /\ MaxOff \in Nat /\ MaxLen \in Nat \ {0} /\ SegCap \in Nat \ {0}
    /\ MaxSegs \in Nat \ {0} /\ MaxSegments \in Nat /\ MaxBytes \in Nat
    /\ Policy \in Policies
    /\ Damage \subseteq DamageKinds
    /\ Faults \subseteq FaultKinds
    /\ MaxRot \in Nat /\ MaxGone \in Nat /\ MaxReplays \in Nat
    /\ MaxRefusals \in Nat

VARIABLES
    writeOff, headOff, commitOff,  \* the three cursors
    files,           \* the numbers of the live segments
    nextNum,         \* the number the next segment gets
    seg,             \* per segment number: see SegmentRec
    gone,            \* segments whose file vanished from the directory
    rlen,            \* the length of the record starting at an offset, 0: none
    rot,             \* what became of that record's bytes: "ok" or the damage
    nWritten, nCommitted,          \* the counts Count() subtracts
    reserved,        \* the reservation ledger
    lastFrame,       \* lastFrameAt, lastFrameEnd: the frame last read
    pendingCorrupt,  \* corruption reports owed to the consumer
    corruptions, lostBytes,        \* Stats().Corruptions, Stats().LostBytes
    ioErr,           \* the latch: an fsync has failed
    op,              \* the call in progress
    \* History, read by no action:
    authorised,      \* offsets whose retirement a consumer asked for
    lostSet,         \* offsets a read reported lost
    quarantined,     \* offsets a quarantine header was published over
    reports,         \* calls that answered ErrCorrupt since the open
    refusals,        \* those among them that report no event counted
    replays          \* Rewinds and restarts so far

cursors == <<writeOff, headOff, commitOff>>
disk    == <<files, nextNum, seg, gone, rlen, rot>>
counts  == <<nWritten, nCommitted>>
ledger  == <<reserved, lastFrame>>
loss    == <<pendingCorrupt, corruptions, lostBytes>>
history == <<authorised, lostSet, quarantined, reports, refusals, replays>>
vars    == <<cursors, disk, counts, ledger, loss, ioErr, op, history>>

-----------------------------------------------------------------------------
(* State *)

Offsets == 0 .. MaxOff
Segs    == 1 .. MaxSegs

\* dataFile: base, size and capacity, the record counts, and the commit cursor
\* and count its header carries in the page cache.  hcur is relative to base, as
\* commitCursor is.  The header's write cursor always equals size between steps.
SegmentRec ==
    [base : Offsets, size : Nat, cap : Nat, written : Nat, committed : Nat,
     hcur : Nat, hcnt : Nat]

\* reservation
Reservation ==
    [start : Offsets, end : Offsets, acked : BOOLEAN, corrupt : BOOLEAN,
     written : Nat]

\* The call in progress.  kind: which public operation it serves; len: the
\* length being appended; start: where the head stood when a Requeue took its
\* frame, or before forceCommitAll; at, i: the scan of
\* ackedRunEnd or of dropCommitted; off, before, cur, durable: commitDurable's
\* locals; led: the commit was asked for through the ledger.
Op ==
    [pc : {"idle", "cycleDrop", "create", "write", "run", "walk", "settle",
           "settled", "commitDrop", "force", "load"},
     kind : {"none", "add", "requeue", "commit"},
     len : Nat, start : Offsets, at : Offsets, i : Nat, off : Offsets,
     before : Offsets, cur : 0 .. MaxSegs, durable : BOOLEAN, led : BOOLEAN]

Idle ==
    [pc |-> "idle", kind |-> "none", len |-> 0, start |-> 0, at |-> 0, i |-> 0,
     off |-> 0, before |-> 0, cur |-> 0, durable |-> FALSE, led |-> FALSE]

NoFrame == [at |-> 0, end |-> 0]

Fresh(base, cap) ==
    [base |-> base, size |-> 0, cap |-> cap, written |-> 0, committed |-> 0,
     hcur |-> 0, hcnt |-> 0]

Min2(a, b) == IF a < b THEN a ELSE b
Max2(a, b) == IF a < b THEN b ELSE a

End(i) == seg[i].base + seg[i].size

\* active: the last segment
IsActive(i) == i \in files /\ \A j \in files : j <= i

\* fileForOffset: the live segment holding off, as a set of at most one
Holding(off) == {i \in files : seg[i].base <= off /\ off < End(i)}

\* batched() and perOp() are Policy; only a policy that syncs can fail to
CanLatch == "fsync" \in Faults /\ Policy # "noSync"

Init ==
    /\ writeOff = 0 /\ headOff = 0 /\ commitOff = 0
    /\ files = {1} /\ nextNum = 2 /\ gone = {}
    /\ seg = [i \in Segs |-> Fresh(0, SegCap)]
    /\ rlen = [p \in Offsets |-> 0]
    /\ rot = [p \in Offsets |-> "ok"]
    /\ nWritten = 0 /\ nCommitted = 0
    /\ reserved = <<>> /\ lastFrame = NoFrame
    /\ pendingCorrupt = 0 /\ corruptions = 0 /\ lostBytes = 0
    /\ ioErr = FALSE /\ op = Idle
    /\ authorised = {} /\ lostSet = {} /\ quarantined = {}
    /\ reports = 0 /\ refusals = 0 /\ replays = 0

-----------------------------------------------------------------------------
(* The ledger *)

\* dropRetired: how many leading entries the cursor c has passed (one number),
\* and the ledger without them
Passed(r, c) ==
    {k \in 0 .. Len(r) :
        /\ \A j \in 1 .. k : r[j].end <= c
        /\ k = Len(r) \/ r[k + 1].end > c}

From(r, k) == SubSeq(r, k + 1, Len(r))

\* The ledger entry the commit walk finds at c: the first not yet passed, when
\* it starts there.  A set of at most one index.
EntryAt(c) ==
    {k \in 1 .. Len(reserved) :
        /\ reserved[k].start = c /\ reserved[k].end > c
        /\ \A j \in 1 .. k - 1 : reserved[j].end <= c}

Held(start, end) ==
    [start |-> start, end |-> end, acked |-> FALSE, corrupt |-> FALSE,
     written |-> 0]

Settled(start, end) ==
    [start |-> start, end |-> end, acked |-> TRUE, corrupt |-> FALSE,
     written |-> 0]

\* Mutant: the deferred damage does not remember how many records it covers
AbandonedUncounted(start, end, written) ==
    [start |-> start, end |-> end, acked |-> TRUE, corrupt |-> TRUE, written |-> 0]

Abandoned(start, end, written) ==
    [start |-> start, end |-> end, acked |-> TRUE, corrupt |-> TRUE,
     written |-> written]

\* commitAckedRunDurable begins with the scan of ackedRunEnd
StartRun(durable) ==
    op' = IF ioErr THEN Idle
          ELSE [Idle EXCEPT !.pc = "run", !.kind = "commit",
                            !.at = commitOff, !.durable = durable, !.led = TRUE]

\* commitDurable, once past its early returns
StartWalk(off, durable, led) ==
    op' = [Idle EXCEPT !.pc = "walk", !.kind = "commit",
                       !.off = Min2(off, writeOff), !.before = commitOff,
                       !.durable = durable, !.led = led]

\* retireFrameDurable: the frame enters the ledger already acknowledged
RetireFrame(start, end, durable) ==
    /\ \E k \in Passed(reserved, commitOff) :
          reserved' = Append(From(reserved, k), Settled(start, end))
    /\ StartRun(durable)

-----------------------------------------------------------------------------
(* Appending *)

NeedsCycle(n) ==
    \A i \in files : IsActive(i) => seg[i].size + n > seg[i].cap

\* appendRecord up to the cycle; MaxOff and MaxSegs bound the model
StartAppend(kind, n, start) ==
    /\ writeOff + n <= MaxOff
    /\ NeedsCycle(n) => nextNum <= MaxSegs
    /\ op' = [Idle EXCEPT !.pc = IF NeedsCycle(n) THEN "cycleDrop" ELSE "write",
                          !.kind = kind, !.len = n, !.start = start]

\* Add, AddWait, AddBatch: a record is admitted under MaxBytes
Add(n) ==
    /\ op.pc = "idle" /\ ~ioErr
    /\ MaxBytes > 0 => writeOff - commitOff + n <= MaxBytes
    /\ StartAppend("add", n, 0)
    /\ UNCHANGED <<cursors, disk, counts, ledger, loss, ioErr, history>>

\* The append returned an error: a Requeue puts the read cursor back
AppendFailed ==
    /\ headOff' = IF op.kind = "requeue" THEN Min2(op.start, headOff) ELSE headOff
    /\ op' = Idle
    /\ UNCHANGED <<writeOff, commitOff>>

\* cycle's ErrFull and createFile's failures: nothing is created.  Requeue is
\* exempt from MaxSegments.
CreateRefused ==
    /\ op.pc = "create"
    /\ \/ op.kind = "add" /\ MaxSegments > 0 /\ Cardinality(files) >= MaxSegments
       \/ "create" \in Faults
    /\ AppendFailed
    /\ UNCHANGED <<disk, counts, ledger, loss, ioErr, history>>

\* cycle: the new segment starts at the write cursor; a failed directory fsync
\* latches with the segment in place
Create ==
    /\ op.pc = "create"
    /\ op.kind = "add" /\ MaxSegments > 0 => Cardinality(files) < MaxSegments
    /\ files' = files \union {nextNum}
    /\ seg' = [seg EXCEPT ![nextNum] = Fresh(writeOff, Max2(SegCap, op.len))]
    /\ nextNum' = nextNum + 1
    /\ \/ /\ op' = [op EXCEPT !.pc = "write"]
          /\ UNCHANGED <<cursors, ioErr>>
       \/ /\ CanLatch /\ ioErr' = TRUE
          /\ AppendFailed
    /\ UNCHANGED <<gone, rlen, rot, counts, ledger, loss, history>>

\* A failed pwrite of the record or of the header, rolled back, or a failed
\* fsync of the record's bytes, which latches: nothing is published
WriteFailed ==
    /\ op.pc = "write"
    /\ \/ "write" \in Faults /\ UNCHANGED ioErr
       \/ CanLatch /\ Policy = "perOp" /\ ioErr' = TRUE
    /\ AppendFailed
    /\ UNCHANGED <<disk, counts, ledger, loss, history>>

\* appendRecord publishes the record in the active segment
Publish(af) ==
    /\ IsActive(af)
    /\ rlen' = [rlen EXCEPT ![End(af)] = op.len]
    /\ rot' = [rot EXCEPT ![End(af)] = "ok"]
    /\ seg' = [seg EXCEPT ![af].size = @ + op.len, ![af].written = @ + 1]
    /\ writeOff' = writeOff + op.len
    /\ nWritten' = nWritten + 1
    /\ UNCHANGED <<commitOff, nCommitted, files, nextNum, gone, loss>>

\* appendRecord returned nil.  Requeue then retires the frame it took.
Write ==
    /\ op.pc = "write"
    /\ \E af \in files : Publish(af)
    /\ \/ /\ op.kind = "add"
          /\ op' = Idle
          /\ UNCHANGED <<reserved, authorised>>
       \/ /\ op.kind = "requeue"
          /\ RetireFrame(op.start, op.start + op.len, TRUE)
          /\ authorised' = authorised \union (op.start .. op.start + op.len - 1)
    /\ UNCHANGED <<headOff, lastFrame, ioErr, lostSet, quarantined, reports, refusals,
                   replays>>

\* The record is published, and then the header's fsync (or the flush a
\* SyncEvery boundary makes) fails: the append returns the latched error
WriteLatched ==
    /\ op.pc = "write" /\ CanLatch
    /\ \E af \in files : Publish(af)
    /\ ioErr' = TRUE
    /\ headOff' = IF op.kind = "requeue" THEN Min2(op.start, headOff) ELSE headOff
    /\ op' = Idle
    /\ UNCHANGED <<ledger, history>>

-----------------------------------------------------------------------------
(* Reclamation: dropCommitted, one segment of the slice per step *)

\* Mutant: a segment is dropped as soon as a commit has entered it
ReclaimableOnceEntered(i) ==
    /\ op.pc = "commitDrop" => ~IsActive(i)
    /\ seg[i].base < commitOff

\* keep is nil in a cycle and the active segment in a commit
Reclaimable(i) ==
    /\ op.pc = "commitDrop" => ~IsActive(i)
    /\ End(i) <= commitOff

NextDrop(i) ==
    /\ i \in files /\ i > op.i
    /\ \A j \in files : j > op.i => i <= j

\* The file is unlinked (one that vanished counts as unlinked)
DropSegment ==
    /\ op.pc \in {"cycleDrop", "commitDrop"}
    /\ \E i \in files :
          /\ NextDrop(i) /\ Reclaimable(i)
          /\ files' = files \ {i}
          /\ nWritten' = nWritten - seg[i].written
          /\ nCommitted' = nCommitted - seg[i].committed
          /\ op' = [op EXCEPT !.i = i]
    /\ lastFrame' = NoFrame
    /\ UNCHANGED <<cursors, nextNum, seg, gone, rlen, rot, reserved, loss, ioErr,
                   history>>

\* The file will not unlink, or an off-lock flush has it pinned: it stays live
DropStuck ==
    /\ op.pc \in {"cycleDrop", "commitDrop"} /\ "unlink" \in Faults
    /\ \E i \in files :
          /\ NextDrop(i) /\ Reclaimable(i)
          /\ op' = [op EXCEPT !.i = i]
    /\ lastFrame' = NoFrame
    /\ UNCHANGED <<cursors, disk, counts, reserved, loss, ioErr, history>>

\* commitAckedRunDurable reconciles the ledger once its commit is over
FinishCommit ==
    /\ IF op.led
       THEN \E k \in Passed(reserved, commitOff) : reserved' = From(reserved, k)
       ELSE UNCHANGED reserved
    /\ op' = Idle

DropDone ==
    /\ op.pc \in {"cycleDrop", "commitDrop"}
    /\ \A i \in files : NextDrop(i) => ~Reclaimable(i)
    /\ UNCHANGED <<cursors, disk, counts, lastFrame, loss, ioErr, history>>
    /\ \/ /\ op.pc = "cycleDrop"
          /\ op' = [op EXCEPT !.pc = "create", !.i = 0]
          /\ UNCHANGED reserved
       \/ op.pc = "commitDrop" /\ FinishCommit

-----------------------------------------------------------------------------
(* Committing: ackedRunEnd, then the walk of commitDurable *)

\* Mutant: the run looks at the acknowledgements and not at contiguity
InRunAcrossHoles(k, at) == k \in 1 .. Len(reserved) /\ reserved[k].acked

\* ackedRunEnd steps over an acknowledged entry that starts where the run ends
InRun(k, at) ==
    /\ k \in 1 .. Len(reserved)
    /\ reserved[k].acked /\ reserved[k].start = at

RunStep ==
    /\ op.pc = "run"
    /\ \/ /\ InRun(op.i + 1, op.at)
          /\ op' = [op EXCEPT !.at = reserved[op.i + 1].end, !.i = op.i + 1]
       \/ /\ ~InRun(op.i + 1, op.at)
          /\ IF op.at <= commitOff THEN op' = Idle
             ELSE StartWalk(op.at, op.durable, TRUE)
    /\ UNCHANGED <<cursors, disk, counts, ledger, loss, ioErr, history>>

\* persistCommit, the header written: the commit cursor and count of segment i,
\* made durable at once under the per-op policy.  A segment whose file vanished
\* has no header left and counts as persisted.
Persisted(i) ==
    /\ seg' = IF i \in gone THEN seg
              ELSE [seg EXCEPT ![i].hcur = Min2(commitOff - seg[i].base, seg[i].size),
                               ![i].hcnt = seg[i].committed]
    /\ i \in gone \/ ~ioErr
    /\ UNCHANGED <<commitOff, nCommitted>>

\* Mutants: the failed header write keeps the advance; forgets the count; falls
\* back to the start of the segment
RolledBackNever(i) ==
    /\ i \notin gone /\ (ioErr \/ "write" \in Faults)
    /\ UNCHANGED <<commitOff, nCommitted, seg, ioErr>>

RolledBackUncounted(i) ==
    /\ i \notin gone /\ (ioErr \/ "write" \in Faults)
    /\ commitOff' = seg[i].base + seg[i].hcur
    /\ seg' = [seg EXCEPT ![i].committed = seg[i].hcnt]
    /\ UNCHANGED <<nCommitted, ioErr>>

RolledBackToBase(i) ==
    /\ i \notin gone /\ (ioErr \/ "write" \in Faults)
    /\ commitOff' = seg[i].base
    /\ nCommitted' = nCommitted - seg[i].committed
    /\ seg' = [seg EXCEPT ![i].committed = 0]
    /\ UNCHANGED ioErr

\* persistCommit, the header not written: the commit falls back to what the
\* header says
RolledBack(i) ==
    /\ i \notin gone /\ (ioErr \/ "write" \in Faults)
    /\ commitOff' = seg[i].base + seg[i].hcur
    /\ nCommitted' = nCommitted - (seg[i].committed - seg[i].hcnt)
    /\ seg' = [seg EXCEPT ![i].committed = seg[i].hcnt]
    /\ UNCHANGED ioErr

\* commitDurable stops with an ErrCorrupt of its own, no event counted, and the
\* consumer's call returns it.  takeHead's retirement of a dropped record, the one
\* call that is not durable, only joins it to the ErrCorrupt it already answers.
Refuse ==
    IF op.durable THEN reports' = reports + 1 /\ refusals' = refusals + 1
    ELSE UNCHANGED <<reports, refusals>>

FlushMayFail == CanLatch /\ Policy = "perOp" /\ op.durable

\* The cursor reached the target, or addresses no live segment: ErrCorrupt
WalkOver ==
    /\ op.pc = "walk"
    /\ \/ commitOff >= op.off /\ UNCHANGED <<reports, refusals>>
       \/ commitOff < op.off /\ Holding(commitOff) = {} /\ Refuse
    /\ op' = [op EXCEPT !.pc = "settle"]
    /\ UNCHANGED <<cursors, disk, counts, ledger, loss, ioErr, authorised, lostSet,
                   quarantined, replays>>

\* The walk stands in segment df with its header the only one outstanding
Walking(df) ==
    /\ op.pc = "walk" /\ commitOff < op.off
    /\ df \in Holding(commitOff)
    /\ op.cur \in {0, df}

\* Leaving a segment: its final header goes out first
WalkLeave ==
    /\ op.pc = "walk" /\ commitOff < op.off
    /\ op.cur # 0 /\ op.cur \notin Holding(commitOff)
    /\ Holding(commitOff) # {}
    /\ \/ /\ Persisted(op.cur)
          /\ \/ op' = [op EXCEPT !.cur = 0] /\ UNCHANGED ioErr
             \/ /\ FlushMayFail /\ op.cur \notin gone /\ ioErr' = TRUE
                /\ op' = [op EXCEPT !.cur = 0, !.pc = "settle"]
       \/ RolledBack(op.cur) /\ op' = [op EXCEPT !.cur = 0, !.pc = "settle"]
    /\ UNCHANGED <<writeOff, headOff, files, nextNum, gone, rlen, rot, nWritten,
                   ledger, loss, history>>

\* Damage a read already reported: its extent is retired without a walk
WalkAbandoned ==
    /\ UNCHANGED <<writeOff, headOff, files, nextNum, gone, rlen, rot, nWritten,
                   ledger, loss, ioErr, history>>
    /\ \E df \in files : \E k \in EntryAt(commitOff) :
         LET e == reserved[k]
             n == Max2(e.written - seg[df].committed, 0)
         IN  /\ Walking(df) /\ e.corrupt
             /\ IF e.end > op.off
                THEN /\ op' = [op EXCEPT !.pc = "settle"]
                     /\ UNCHANGED <<commitOff, nCommitted, seg>>
                ELSE /\ commitOff' = e.end
                     /\ nCommitted' = nCommitted + n
                     /\ seg' = [seg EXCEPT ![df].committed = @ + n]
                     /\ op' = [op EXCEPT !.cur = df]

\* The segment cannot be opened or read right now, or opening it evicted a
\* dirty segment whose flush failed
WalkUnreadable ==
    /\ \E df \in files : Walking(df)
    /\ \A k \in EntryAt(commitOff) : ~reserved[k].corrupt
    /\ \/ "open" \in Faults /\ UNCHANGED ioErr
       \/ CanLatch /\ ioErr' = TRUE
    /\ op' = [op EXCEPT !.pc = "settle"]
    /\ UNCHANGED <<cursors, disk, counts, ledger, loss, history>>

\* frameHeader: the bytes at off frame a record.  Where no record starts they do
\* not.
Framed(off) == rot[off] # "frame" /\ rlen[off] > 0

\* frameEnd: where the record at off ends, as a set of at most one offset.  The
\* boundary comes from the frame cache, else from the bytes; of a vanished
\* segment only the ledger still knows one.
FrameEnd(df, off) ==
    IF df \in gone THEN {reserved[k].end : k \in EntryAt(off)}
    ELSE IF lastFrame.end # 0 /\ lastFrame.at = off THEN {lastFrame.end}
    ELSE IF Framed(off) THEN {off + rlen[off]}
    ELSE {}

\* Retire one record, unless it ends past the target
WalkRecord ==
    /\ UNCHANGED <<writeOff, headOff, files, nextNum, gone, rlen, rot, nWritten,
                   ledger, loss, ioErr, history>>
    /\ \A k \in EntryAt(commitOff) : ~reserved[k].corrupt
    /\ \E df \in files : \E next \in FrameEnd(df, commitOff) :
         /\ Walking(df)
         /\ commitOff < next /\ next <= writeOff
         /\ IF next > op.off
            THEN /\ op' = [op EXCEPT !.pc = "settle"]
                 /\ UNCHANGED <<commitOff, nCommitted, seg>>
            ELSE /\ commitOff' = next
                 /\ nCommitted' = nCommitted + 1
                 /\ seg' = [seg EXCEPT ![df].committed = @ + 1]
                 /\ op' = [op EXCEPT !.cur = df]

Unframed(df) ==
    /\ \A next \in FrameEnd(df, commitOff) : ~(commitOff < next /\ next <= writeOff)
    /\ \A k \in EntryAt(commitOff) : ~reserved[k].corrupt

\* publishFullCommit wrote the header that quarantines segment i
HeaderFull(s, i) ==
    IF i \in gone THEN s
    ELSE [s EXCEPT ![i].hcur = s[i].size, ![i].hcnt = s[i].written]

\* An unframable record short of the segment's end stops the walk: a prefix
\* commit does not license discarding what lies past its target
WalkStopsAtDamage ==
    /\ \E df \in files : Walking(df) /\ Unframed(df) /\ op.off < End(df)
    /\ Refuse
    /\ op' = [op EXCEPT !.pc = "settle"]
    /\ UNCHANGED <<cursors, disk, counts, ledger, loss, ioErr, authorised, lostSet,
                   quarantined, replays>>

\* Mutant: the commit path quarantines without owing a report
WalkQuarantineSilent ==
    /\ \E df \in files :
          /\ Walking(df) /\ Unframed(df) /\ End(df) <= op.off
          /\ seg' = [HeaderFull(seg, df) EXCEPT ![df].committed = seg[df].written]
          /\ nCommitted' = nCommitted + (seg[df].written - seg[df].committed)
          /\ commitOff' = End(df)
    /\ op' = [op EXCEPT !.cur = 0]
    /\ corruptions' = corruptions + 1
    /\ UNCHANGED <<writeOff, headOff, files, nextNum, gone, rlen, rot, nWritten,
                   ledger, pendingCorrupt, lostBytes, ioErr, history>>

\* skipCorruptSegment from the commit path: the target covers the segment, so
\* it is quarantined, and the report is owed to the next read
WalkQuarantine ==
    /\ \E df \in files :
          /\ Walking(df) /\ Unframed(df) /\ End(df) <= op.off
          /\ seg' = [HeaderFull(seg, df) EXCEPT ![df].committed = seg[df].written]
          /\ nCommitted' = nCommitted + (seg[df].written - seg[df].committed)
          /\ commitOff' = End(df)
          /\ lostBytes' = lostBytes + Max2(End(df) - headOff, 0)
          /\ headOff' = Max2(headOff, End(df))
          /\ quarantined' = quarantined \union (commitOff .. End(df) - 1)
    /\ op' = [op EXCEPT !.cur = 0]
    /\ corruptions' = corruptions + 1
    /\ pendingCorrupt' = pendingCorrupt + 1
    /\ UNCHANGED <<writeOff, files, nextNum, gone, rlen, rot, nWritten, ledger,
                   ioErr, authorised, lostSet, reports, refusals, replays>>

\* The quarantine header could not be written, or was written and its fsync
\* failed: the walk stops with the in-memory state as it was
WalkQuarantineFailed ==
    /\ \E df \in files \ gone :
          /\ Walking(df) /\ Unframed(df) /\ End(df) <= op.off
          /\ \/ "write" \in Faults /\ UNCHANGED <<seg, ioErr, quarantined>>
             \/ /\ CanLatch /\ ioErr' = TRUE
                /\ seg' = HeaderFull(seg, df)
                /\ quarantined' = quarantined \union (commitOff .. End(df) - 1)
    /\ op' = [op EXCEPT !.pc = "settle"]
    /\ UNCHANGED <<cursors, files, nextNum, gone, rlen, rot, counts, ledger, loss,
                   authorised, lostSet, reports, refusals, replays>>

\* What a prefix commit in progress adds to the authority to retire: its target.
\* A Take or Commit that stops short authorises only what it did retire.
Authority ==
    IF op.led THEN authorised ELSE authorised \union (0 .. op.off - 1)

\* After the loop: the last segment's header goes out
Settle ==
    /\ op.pc = "settle"
    /\ \/ op.cur = 0 /\ UNCHANGED <<seg, commitOff, nCommitted, ioErr>>
       \/ /\ op.cur # 0 /\ Persisted(op.cur)
          /\ \/ UNCHANGED ioErr
             \/ FlushMayFail /\ op.cur \notin gone /\ ioErr' = TRUE
       \/ op.cur # 0 /\ RolledBack(op.cur)
    /\ op' = [op EXCEPT !.pc = "settled", !.cur = 0]
    /\ authorised' = authorised \union (Authority \intersect (0 .. commitOff' - 1))
    /\ UNCHANGED <<writeOff, headOff, files, nextNum, gone, rlen, rot, nWritten,
                   ledger, loss, lostSet, quarantined, reports, refusals, replays>>

\* Nothing committed: the call is over.  Otherwise a SyncEvery tick may flush,
\* the read cursor is dragged along, and drained segments are reclaimed.
CommitEnds ==
    /\ op.pc = "settled"
    /\ \/ /\ commitOff = op.before
          /\ FinishCommit
          /\ UNCHANGED <<headOff, ioErr>>
       \/ /\ commitOff # op.before
          /\ headOff' = Max2(headOff, commitOff)
          /\ op' = [op EXCEPT !.pc = "commitDrop", !.i = 0]
          /\ \/ UNCHANGED ioErr
             \/ CanLatch /\ Policy = "batched" /\ op.durable /\ ioErr' = TRUE
          /\ UNCHANGED reserved
    /\ UNCHANGED <<writeOff, commitOff, disk, counts, lastFrame, loss, history>>

-----------------------------------------------------------------------------
(* Reading the head: takeHead *)

\* Mutant: the backlog of reports is not tested before it is paid down
PayReportUnowed ==
    /\ op.pc = "idle" /\ headOff = writeOff
    /\ pendingCorrupt' = pendingCorrupt - 1
    /\ reports' = reports + 1
    /\ UNCHANGED <<cursors, disk, counts, ledger, corruptions, lostBytes, ioErr, op,
                   authorised, lostSet, quarantined, refusals, replays>>

\* A report owed from an earlier loss is paid before anything is read
PayReport ==
    /\ op.pc = "idle" /\ pendingCorrupt > 0
    /\ pendingCorrupt' = pendingCorrupt - 1
    /\ reports' = reports + 1
    /\ UNCHANGED <<cursors, disk, counts, ledger, corruptions, lostBytes, ioErr, op,
                   authorised, lostSet, quarantined, refusals, replays>>

\* read finds a record at the head and segment df holds it
Reading(df) ==
    /\ op.pc = "idle" /\ pendingCorrupt = 0 /\ headOff < writeOff
    /\ df \in Holding(headOff)

Readable(df) == Reading(df) /\ df \notin gone /\ Framed(headOff)
HeadNext == headOff + rlen[headOff]

\* The record is intact: takeHead hands it over and remembers its frame
TakeHead(df) ==
    /\ Readable(df) /\ rot[headOff] = "ok"
    /\ headOff' = HeadNext
    /\ lastFrame' = [at |-> headOff, end |-> HeadNext]
    /\ UNCHANGED <<writeOff, commitOff, disk, counts, loss, ioErr, lostSet,
                   quarantined, reports, refusals, replays>>

\* Reserve, TryReserve: trackReserve enters the frame in the ledger
Reserve ==
    \E df \in files :
        /\ TakeHead(df)
        /\ \E k \in Passed(reserved, commitOff) :
              reserved' = Append(From(reserved, k), Held(headOff, HeadNext))
        /\ UNCHANGED <<op, authorised>>

\* Take, TryTake, and each item of Drain and Follow: a prefix commit of the
\* record just read
Take ==
    \E df \in files :
        /\ TakeHead(df)
        /\ IF ioErr THEN op' = Idle ELSE StartWalk(HeadNext, TRUE, FALSE)
        /\ UNCHANGED <<reserved, authorised>>

\* Mutant: Skip commits the prefix up to the frame it took
SkipPrefix ==
    \E df \in files :
        /\ TakeHead(df)
        /\ IF ioErr THEN op' = Idle ELSE StartWalk(HeadNext, TRUE, TRUE)
        /\ authorised' = authorised \union (headOff .. HeadNext - 1)
        /\ UNCHANGED reserved

\* Skip: the frame is retired through the ledger
Skip ==
    \E df \in files :
        /\ TakeHead(df)
        /\ RetireFrame(headOff, HeadNext, TRUE)
        /\ authorised' = authorised \union (headOff .. HeadNext - 1)

\* Requeue: the record is appended again and only then retired here
Requeue ==
    \E df \in files :
        /\ TakeHead(df)
        /\ ~ioErr /\ StartAppend("requeue", rlen[headOff], headOff)
        /\ UNCHANGED <<reserved, authorised>>

\* The codec rejects the record, or a Requeue meets the latch: rewindHead
\* un-reads it, and only the frame cache remembers the read
Unread ==
    \E df \in files :
        /\ Readable(df) /\ rot[headOff] = "ok"
        /\ lastFrame' = [at |-> headOff, end |-> HeadNext]
        /\ UNCHANGED <<cursors, disk, counts, reserved, loss, ioErr, op, history>>

\* The frame is intact and its checksum is not: one record is dropped and its
\* frame retired through the ledger, without an fsync
DropRecord ==
    \E df \in files :
        /\ Readable(df) /\ rot[headOff] = "sum"
        /\ lostBytes' = lostBytes + rlen[headOff]
        /\ corruptions' = corruptions + 1
        /\ reports' = reports + 1
        /\ headOff' = HeadNext
        /\ lostSet' = lostSet \union (headOff .. HeadNext - 1)
        /\ RetireFrame(headOff, HeadNext, FALSE)
        /\ UNCHANGED <<writeOff, commitOff, disk, counts, lastFrame, pendingCorrupt,
                       ioErr, authorised, quarantined, refusals, replays>>

Unreadable(df) == Reading(df) /\ (df \in gone \/ ~Framed(headOff))

\* skipCorruptSegment with nothing outstanding before the damage: the header
\* that quarantines the rest of the segment goes out, then memory follows
QuarantineHead ==
    \E df \in files :
        /\ Unreadable(df) /\ commitOff = headOff
        /\ df \in gone \/ ~ioErr
        /\ seg' = [HeaderFull(seg, df) EXCEPT ![df].committed = seg[df].written]
        /\ nCommitted' = nCommitted + (seg[df].written - seg[df].committed)
        /\ commitOff' = End(df) /\ headOff' = End(df)
        /\ lostBytes' = lostBytes + (End(df) - headOff)
        /\ corruptions' = corruptions + 1
        /\ reports' = reports + 1
        /\ lostSet' = lostSet \union (headOff .. End(df) - 1)
        /\ quarantined' = quarantined \union (headOff .. End(df) - 1)
        /\ UNCHANGED <<writeOff, files, nextNum, gone, rlen, rot, nWritten, ledger,
                       pendingCorrupt, ioErr, op, authorised, refusals, replays>>

\* The quarantine header is written and its fsync fails: takeHead returns the
\* latched error and no cursor moves
QuarantineLatched ==
    \E df \in files \ gone :
        /\ Unreadable(df) /\ commitOff = headOff /\ ~ioErr /\ CanLatch
        /\ seg' = HeaderFull(seg, df)
        /\ ioErr' = TRUE
        /\ quarantined' = quarantined \union (headOff .. End(df) - 1)
        /\ UNCHANGED <<cursors, files, nextNum, gone, rlen, rot, counts, ledger, loss,
                       op, authorised, lostSet, reports, refusals, replays>>

\* Mutant: damage behind an outstanding reservation waits for it
DeferDamageNever == FALSE /\ UNCHANGED vars

\* Earlier work is outstanding: the damaged extent waits in the ledger
DeferDamage ==
    \E df \in files :
        /\ Unreadable(df) /\ commitOff # headOff
        /\ lostBytes' = lostBytes + (End(df) - headOff)
        /\ headOff' = End(df)
        /\ corruptions' = corruptions + 1
        /\ reports' = reports + 1
        /\ lostSet' = lostSet \union (headOff .. End(df) - 1)
        /\ \E k \in Passed(reserved, commitOff) :
              reserved' = Append(From(reserved, k),
                                 Abandoned(headOff, End(df), seg[df].written))
        /\ UNCHANGED <<writeOff, commitOff, disk, counts, lastFrame, pendingCorrupt,
                       ioErr, op, authorised, quarantined, refusals, replays>>

\* skipCorruptSegment when the head addresses no live segment: forceCommitAll
\* squares every segment, header first, one per step.  takeHead remembers where
\* the head stood.
StartForce ==
    /\ op.pc = "idle" /\ pendingCorrupt = 0
    /\ headOff < writeOff /\ Holding(headOff) = {}
    /\ op' = [Idle EXCEPT !.pc = "force", !.start = headOff]
    /\ UNCHANGED <<cursors, disk, counts, ledger, loss, ioErr, history>>

Squared(i) == seg[i].committed >= seg[i].written /\ seg[i].hcur >= seg[i].size

ForceStep ==
    /\ op.pc = "force"
    /\ \E i \in files :
          /\ NextDrop(i)
          /\ op' = [op EXCEPT !.i = i]
          /\ IF Squared(i)
             THEN UNCHANGED <<seg, nCommitted, commitOff, headOff, quarantined>>
             ELSE /\ i \in gone \/ ~ioErr
                  /\ seg' = [HeaderFull(seg, i) EXCEPT ![i].committed = seg[i].written]
                  /\ nCommitted' = nCommitted + (seg[i].written - seg[i].committed)
                  /\ commitOff' = Max2(commitOff, End(i))
                  /\ headOff' = Max2(headOff, commitOff')
                  /\ quarantined' = quarantined \union (seg[i].base .. End(i) - 1)
    /\ UNCHANGED <<writeOff, files, nextNum, gone, rlen, rot, nWritten, ledger, loss,
                   ioErr, authorised, lostSet, reports, refusals, replays>>

\* takeHead, forceCommitAll cut short: once the head has moved the call answers
\* ErrCorrupt joined with the failure, though no event is counted; else the
\* failure alone
CutShort ==
    IF headOff # op.start THEN reports' = reports + 1 /\ refusals' = refusals + 1
    ELSE UNCHANGED <<reports, refusals>>

\* A segment that cannot be opened or whose header cannot be written stops
\* forceCommitAll where it is; so does an eviction whose flush failed
ForceFailed ==
    /\ op.pc = "force"
    /\ \E i \in files \ gone : NextDrop(i) /\ ~Squared(i)
    /\ \/ (ioErr \/ Faults \intersect {"open", "write"} # {}) /\ UNCHANGED ioErr
       \/ CanLatch /\ ioErr' = TRUE
    /\ CutShort
    /\ op' = Idle
    /\ UNCHANGED <<cursors, disk, counts, ledger, loss, authorised, lostSet,
                   quarantined, replays>>

\* So does one that is written and whose fsync fails
ForceLatched ==
    /\ op.pc = "force" /\ ~ioErr /\ CanLatch
    /\ \E i \in files \ gone :
          /\ NextDrop(i) /\ ~Squared(i)
          /\ seg' = HeaderFull(seg, i)
          /\ quarantined' = quarantined \union (seg[i].base .. End(i) - 1)
    /\ CutShort
    /\ ioErr' = TRUE
    /\ op' = Idle
    /\ UNCHANGED <<cursors, files, nextNum, gone, rlen, rot, counts, ledger, loss,
                   authorised, lostSet, replays>>

\* Mutants: the abandonment is not counted; leaves the read cursor behind
ForceDoneUncounted ==
    /\ op.pc = "force" /\ \A i \in files : ~NextDrop(i)
    /\ nCommitted' = nWritten
    /\ reports' = reports + 1
    /\ headOff' = writeOff /\ commitOff' = writeOff
    /\ op' = Idle
    /\ UNCHANGED <<writeOff, disk, nWritten, ledger, loss, ioErr, authorised, lostSet,
                   quarantined, refusals, replays>>

ForceDoneHeadLeft ==
    /\ op.pc = "force" /\ \A i \in files : ~NextDrop(i)
    /\ nCommitted' = nWritten
    /\ commitOff' = writeOff
    /\ op' = Idle
    /\ UNCHANGED <<writeOff, headOff, disk, nWritten, ledger, loss, ioErr, history>>

ForceDone ==
    /\ op.pc = "force"
    /\ \A i \in files : ~NextDrop(i)
    /\ nCommitted' = nWritten
    /\ corruptions' = corruptions + 1
    /\ reports' = reports + 1
    /\ lostBytes' = lostBytes + (writeOff - op.start)
    /\ lostSet' = lostSet \union (commitOff .. writeOff - 1)
    /\ headOff' = writeOff /\ commitOff' = writeOff
    /\ op' = Idle
    /\ UNCHANGED <<writeOff, disk, nWritten, ledger, pendingCorrupt, ioErr,
                   authorised, quarantined, refusals, replays>>

-----------------------------------------------------------------------------
(* Acknowledging *)

Extent(e) == e.start .. e.end - 1

\* findReserved: the entries ending at one of the offsets in ends
Marked(r, ends) ==
    [k \in 1 .. Len(r) |->
        [r[k] EXCEPT !.acked = @ \/ r[k].end \in ends]]

\* Ack: an offset already retired does nothing; one that names a reservation is
\* marked, and the run it completes commits
Ack(off) ==
    /\ op.pc = "idle" /\ ~ioErr /\ refusals < MaxRefusals /\ off <= headOff
    /\ \E k \in Passed(reserved, commitOff) :
          LET r == From(reserved, k)
              hit == {j \in 1 .. Len(r) : r[j].end = off}
          IN  IF off <= commitOff \/ hit = {}
              THEN reserved' = r /\ UNCHANGED <<op, authorised>>
              ELSE /\ reserved' = Marked(r, {off})
                   /\ authorised' = authorised \union UNION {Extent(r[j]) : j \in hit}
                   /\ StartRun(TRUE)
    /\ UNCHANGED <<cursors, disk, counts, lastFrame, loss, ioErr, lostSet,
                   quarantined, reports, refusals, replays>>

\* AckBatch: every offset that names a reservation is marked, and the run
\* commits even when some offset was invalid
AckBatch(offs) ==
    /\ op.pc = "idle" /\ ~ioErr /\ refusals < MaxRefusals
    /\ \E k \in Passed(reserved, commitOff) :
          LET r == From(reserved, k)
              ends == {o \in offs : commitOff < o /\ o <= headOff}
              hit == {j \in 1 .. Len(r) : r[j].end \in ends}
          IN  /\ reserved' = Marked(r, ends)
              /\ authorised' = authorised \union UNION {Extent(r[j]) : j \in hit}
    /\ StartRun(TRUE)
    /\ UNCHANGED <<cursors, disk, counts, lastFrame, loss, ioErr, lostSet,
                   quarantined, reports, refusals, replays>>

\* Mutant: any offset up to the tail may be committed
CommitUnread(off) ==
    /\ op.pc = "idle" /\ ~ioErr /\ refusals < MaxRefusals
    /\ commitOff < off
    /\ StartWalk(off, TRUE, FALSE)
    /\ UNCHANGED <<cursors, disk, counts, ledger, loss, ioErr, history>>

\* Commit: every record ending at or before off; past the read cursor is refused
Commit(off) ==
    /\ op.pc = "idle" /\ ~ioErr /\ refusals < MaxRefusals
    /\ off <= headOff /\ commitOff < off
    /\ StartWalk(off, TRUE, FALSE)
    /\ UNCHANGED <<cursors, disk, counts, ledger, loss, ioErr, history>>

\* Mutant: the ledger outlives the Rewind
RewindKeepsLedger ==
    /\ op.pc = "idle" /\ replays < MaxReplays
    /\ headOff' = commitOff
    /\ replays' = replays + 1
    /\ UNCHANGED <<writeOff, commitOff, disk, counts, ledger, loss, ioErr, op,
                   authorised, lostSet, quarantined, reports, refusals>>

\* Rewind: the read cursor returns to the commit cursor, the ledger is dropped,
\* and with it every authority not yet acted on
Rewind ==
    /\ op.pc = "idle" /\ replays < MaxReplays
    /\ headOff' = commitOff
    /\ reserved' = <<>>
    /\ replays' = replays + 1
    /\ authorised' = authorised \intersect (0 .. commitOff - 1)
    /\ UNCHANGED <<writeOff, commitOff, disk, counts, lastFrame, loss, ioErr, op,
                   lostSet, quarantined, reports, refusals>>

-----------------------------------------------------------------------------
(* Restart: the process dies at any point and load reopens the directory.    *)
(* The page cache survives; a file missing at open is outside this module.   *)

\* load: the first segment whose header's commit cursor is short of its end
Short(i) == i \in files /\ seg[i].hcur < seg[i].size
Recovered ==
    {c \in Offsets :
        \/ c = writeOff /\ \A i \in files : ~Short(i)
        \/ \E i \in files : /\ Short(i) /\ \A j \in files : Short(j) => i <= j
                            /\ c = seg[i].base + seg[i].hcur}


\* load's count of the committed records of segment s: the cursor c wins
LoadedCount(s, c) ==
    CASE s.base + s.size <= c -> s.written
      [] s.base + s.size > c /\ s.base >= c -> 0
      [] s.base + s.size > c /\ s.base < c -> Min2(s.hcnt, s.written)

\* and the commit cursor its header must publish
LoadedCursor(s, c) ==
    CASE s.base + s.size <= c -> s.size
      [] s.base + s.size > c /\ s.base < c -> c - s.base
      [] s.base + s.size > c /\ s.base >= c -> 0

\* The process dies, in the middle of load too; the next open reads every header
\* and recovers the cursor
Crash ==
    /\ replays < MaxReplays
    /\ gone \intersect files = {}
    /\ \E c \in Recovered :
          /\ commitOff' = c /\ headOff' = c
          /\ authorised' = Authority \intersect (0 .. c - 1)
    /\ nWritten' = 0 /\ nCommitted' = 0
    /\ reserved' = <<>> /\ lastFrame' = NoFrame
    /\ pendingCorrupt' = 0 /\ corruptions' = 0 /\ lostBytes' = 0
    /\ reports' = 0 /\ refusals' = 0
    /\ ioErr' = FALSE
    /\ gone' = {}
    /\ op' = [Idle EXCEPT !.pc = "load", !.i = MaxSegs + 1]
    /\ replays' = replays + 1
    /\ UNCHANGED <<writeOff, files, nextNum, seg, rlen, rot, lostSet, quarantined>>

\* load's repair pass, from the tail backwards
LoadStep ==
    /\ op.pc = "load"
    /\ \E i \in files :
          LET n == LoadedCount(seg[i], commitOff) IN
          /\ i < op.i /\ \A j \in files : j < op.i => j <= i
          /\ seg' = [seg EXCEPT ![i].committed = n, ![i].hcnt = n,
                                ![i].hcur = LoadedCursor(seg[i], commitOff)]
          /\ nWritten' = nWritten + seg[i].written
          /\ nCommitted' = nCommitted + n
          /\ op' = [op EXCEPT !.i = i]
    /\ UNCHANGED <<cursors, files, nextNum, gone, rlen, rot, ledger, loss, ioErr,
                   history>>

\* The queue is open; startFresh gives an empty directory its first segment
LoadDone ==
    /\ op.pc = "load" /\ \A i \in files : i >= op.i
    /\ op' = Idle
    /\ \/ /\ files = {}
          /\ files' = {1} /\ nextNum' = 2
          /\ seg' = [seg EXCEPT ![1] = Fresh(writeOff, SegCap)]
       \/ /\ \E a \in files : IsActive(a) /\ nextNum' = a + 1
          /\ UNCHANGED <<files, seg>>
    /\ UNCHANGED <<cursors, gone, rlen, rot, counts, ledger, loss, ioErr, history>>

-----------------------------------------------------------------------------
(* The environment *)

\* Bytes of a record not yet retired go bad
Rot(p, d) ==
    /\ op.pc = "idle"
    /\ commitOff <= p /\ p < writeOff /\ rlen[p] > 0 /\ rot[p] = "ok"
    /\ Cardinality({q \in Offsets : rot[q] # "ok"}) < MaxRot
    /\ rot' = [rot EXCEPT ![p] = d]
    /\ UNCHANGED <<cursors, files, nextNum, seg, gone, rlen, counts, ledger, loss,
                   ioErr, op, history>>

\* A segment file disappears while no handle to it is open
Vanish(i) ==
    /\ op.pc = "idle"
    /\ i \in files \ gone /\ ~IsActive(i)
    /\ Cardinality(gone) < MaxGone
    /\ gone' = gone \union {i}
    /\ UNCHANGED <<cursors, files, nextNum, seg, rlen, rot, counts, ledger, loss,
                   ioErr, op, history>>

\* A flush that belongs to no step here fails and latches: Sync, the
\* SyncInterval flush, the eviction of a dirty segment
FailSync ==
    /\ op.pc = "idle" /\ "fsync" \in Faults /\ ~ioErr
    /\ ioErr' = TRUE
    /\ UNCHANGED <<cursors, disk, counts, ledger, loss, op, history>>

-----------------------------------------------------------------------------
AppendStep == CreateRefused \/ Create \/ WriteFailed \/ Write \/ WriteLatched

DropStep == DropSegment \/ DropStuck \/ DropDone

WalkStep ==
    \/ WalkOver \/ WalkLeave \/ WalkAbandoned \/ WalkUnreadable \/ WalkRecord
    \/ WalkStopsAtDamage \/ WalkQuarantine \/ WalkQuarantineFailed

\* The steps of a call in progress
OpStep ==
    \/ AppendStep \/ DropStep \/ RunStep \/ WalkStep \/ Settle \/ CommitEnds
    \/ ForceStep \/ ForceFailed \/ ForceLatched \/ ForceDone \/ LoadStep \/ LoadDone

\* What a read does when no intact record is there to hand over
ReadDamage ==
    \/ PayReport \/ DropRecord \/ QuarantineHead \/ QuarantineLatched
    \/ DeferDamage \/ StartForce

Consume == Reserve \/ Take \/ Skip \/ Requeue \/ Unread \/ ReadDamage

\* An offset that ends no ledger entry changes nothing in an AckBatch
Retire ==
    \/ \E off \in Offsets : Ack(off) \/ Commit(off)
    \/ \E offs \in SUBSET {reserved[k].end : k \in 1 .. Len(reserved)} : AckBatch(offs)

Environment ==
    \/ Crash \/ FailSync
    \/ \E p \in Offsets, d \in Damage : Rot(p, d)
    \/ \E i \in Segs : Vanish(i)

Next ==
    \/ \E n \in 1 .. MaxLen : Add(n)
    \/ Consume \/ Retire \/ Rewind \/ OpStep \/ Environment

Spec == Init /\ [][Next]_vars

\* The goroutine holding the mutex keeps running, and one consumer keeps calling
\* Take.  Strong fairness: other callers may take the mutex between its attempts,
\* but sync.Mutex hands over to a waiter it has starved.
FairSpec == Spec /\ WF_vars(OpStep) /\ SF_vars(Take \/ ReadDamage)

-----------------------------------------------------------------------------
(* Properties *)

CursorType == writeOff \in Offsets /\ headOff \in Offsets /\ commitOff \in Offsets

DiskType ==
    /\ files \subseteq Segs /\ gone \subseteq Segs
    /\ nextNum \in 1 .. MaxSegs + 1
    /\ rlen \in [Offsets -> 0 .. MaxLen]
    /\ rot \in [Offsets -> {"ok"} \union DamageKinds]

SegType == seg \in [Segs -> SegmentRec]

CountType ==
    /\ nWritten \in Int /\ nCommitted \in Int
    /\ pendingCorrupt \in Nat /\ corruptions \in Nat /\ lostBytes \in Int
    /\ reports \in Nat /\ refusals \in Nat /\ replays \in 0 .. MaxReplays

LedgerType ==
    /\ reserved \in Seq(Reservation)
    /\ lastFrame \in [at : Offsets, end : Offsets]

OpType == op \in Op /\ ioErr \in BOOLEAN

HistoryType ==
    /\ authorised \subseteq Offsets /\ lostSet \subseteq Offsets
    /\ quarantined \subseteq Offsets

\* The types of the store's fields (the store struct).
TypeOK ==
    /\ CursorType /\ DiskType /\ SegType /\ CountType /\ LedgerType /\ OpType
    /\ HistoryType

\* The cursors never cross: nothing is retired before it is read, nothing is
\* read before it is published (commitDurable, takeHead, rewindHead, load).
CursorOrder == commitOff <= headOff /\ headOff <= writeOff

\* The ledger stays in read order, its extents disjoint and behind the read
\* cursor: what findReserved's bisection and ackedRunEnd's chain rely on,
\* whatever Requeue's rewinds, Rewind and deferred damage did to the head.
LedgerSound ==
    \A k \in 1 .. Len(reserved) :
        /\ reserved[k].start < reserved[k].end
        /\ reserved[k].end <= headOff
        /\ \A j \in 1 .. k - 1 : reserved[j].end <= reserved[k].start

\* No record is retired that nobody said was done: every offset behind the
\* commit cursor was acknowledged, skipped, requeued, committed or taken, was
\* reported lost, or lies under a quarantine header.  Holds across rollbacks of
\* a failed commit and across restarts (ackedRunEnd, commitDurable, load).
AuthorisedRetirement ==
    0 .. commitOff - 1 \subseteq Authority \union lostSet \union quarantined

\* A record not yet read lies in a live segment: reclamation and rollback never
\* strand the read cursor (dropCommitted, skipCorruptSegment's df == nil arm).
HeadAddressable == headOff < writeOff => Holding(headOff) # {}

\* Count() is the number of records between the commit cursor and the tail,
\* through damage, rollback, reclamation and restart.
CountExact ==
    op.pc = "idle" =>
        nWritten - nCommitted =
            Cardinality({p \in commitOff .. writeOff - 1 : rlen[p] > 0})

\* Between calls, on a store that has not latched, the headers in the page cache
\* recover exactly the commit cursor in memory: a restart neither replays what a
\* nil Commit retired nor retires what it did not (persistCommit, load).
HeadersAgree ==
    op.pc = "idle" /\ ~ioErr /\ gone \intersect files = {}
        => Recovered = {commitOff}

\* Every corruption event counted is answered with exactly one ErrCorrupt or still
\* owed (takeHead, skipCorruptSegment, commitDurable's pendingCorrupt++).  An
\* ErrCorrupt that reports no event counted is a commit that stopped at damage or
\* outside every segment, or a forceCommitAll cut short behind a head it moved.
ReportsExact == corruptions + refusals = reports + pendingCorrupt

\* The commit cursor falls back only within the call that advanced it, and
\* never below where that call found it: a failed header write, or a crash in
\* the middle of a commit, cannot un-retire what an earlier call retired.
NoUncommit ==
    [][commitOff' < commitOff => op.pc # "idle" /\ op.before <= commitOff']_vars

\* Damage never wedges the consumer: with a consumer that keeps taking and no
\* failing system call, the queue is drained and every report delivered,
\* whatever was damaged (takeHead: "the *next* call makes progress").
DamageNeverWedges ==
    <>[](headOff = writeOff /\ pendingCorrupt = 0)
=============================================================================
