# A TLA+ model of diskqueue

diskqueue is an embedded, durable FIFO queue for Go: a directory of segment files,
one process, many producers and consumers. This directory holds TLA+ modules that
model its core, TLC configurations that check them on small instances, and TLAPS
proofs of the facts that matter most for every size of instance.

    tlc -workers 2 -config StoreDamage.cfg MCStore      # a run
    tlapm StoreProofs.tla                               # the proofs

`PROJECT.json` lists the runs, the mutants that show each property can fail, the
source lines behind every definition, the hazards, the findings and the theorems.

## The system

| Component | State it keeps | Operations | What makes it correct |
|---|---|---|---|
| Segment store (`store.go`) | `writeOff`, `headOff`, `commitOff`; `files`, each with base, size, record counts and a 64-byte header carrying a write cursor, a commit cursor and two counts | `appendRecord`, `cycle`, `dropCommitted` | the cursors never cross; a live segment holds every unread record; `Count()` is exact |
| Commit walk and quarantine (`store.go`) | the latch `ioErr`, `pendingCorrupt`, the loss counters | `commitDurable`, `persistCommit`, `publishFullCommit`, `skipCorruptSegment`, `forceCommitAll` | nothing is retired that nobody said was done; a failed header write rolls back exactly; every loss is reported once |
| Reservation ledger (`reserve.go`) | `reserved`, in read order | `trackReserve`, `ackTo`, `retireFrame`, `ackedRunEnd`, `dropRetired` | sorted and disjoint; an acknowledgement never steps over a hole |
| Reader (`reader.go`) | a scratch buffer | `Reserve`, `Take`, `Skip`, `Requeue`, `Commit`, `Ack`, `AckBatch`, `Drain`, `Follow` | damage never wedges a consumer |
| Producers, group commit (`diskqueue.go`) | `flushing`, the span in flight, the staged tail, the follower groups, `quiesceWant` | `Add`, `AddWait`, `AddBatch` | the verdict of a call is true; bytes are synced before the header over them |
| Sync and Close (`diskqueue.go`) | `syncMu`, `closed`, pins, `writeSeq`, `flushEpoch` | `Sync`, `Close`, `syncLoop` | Close leaves nothing running; a file written during a flush stays dirty |
| Waiters (`diskqueue.go`, `reader.go`) | `notify`, `spaceNotify`, `flushDrained`, `quiesceRelease` | `waitLocked`, `signal`, `signalSpace` | no lost wakeup |
| Recovery (`recovery.go`) | none of its own | `load`, `loadFile`, `salvageTornHeader`, `abortedCreate` | the reopened queue loses no unretired record and replays no durable retirement |
| Framing, header (`record.go`, `header.go`) | bytes, the frame cache | `recordAt`, `frameEnd` | a length is believed only inside its segment |
| Open files (`store.go`) | the LRU list, `nOpen`, `pins` | `ensureOpen`, `evictOpen` | the cap holds; no handle is closed under an fsync |
| Platform (`lock_*`, `prealloc_*`, `datasync_*`, `syncdir_*`, `faults_*`) | none | system calls | their effects are the external actions of `Recovery` and `OffLockSync` |

All store state is guarded by one mutex, `w.mu`. What is hard is therefore of two
kinds. Inside one lock hold, a call is a loop of fallible steps (header writes,
fsyncs, unlinks) and may stop, or the process may die, after any of them; and long
sequences of legal calls (reserve, acknowledge out of order, requeue, rewind, meet
damage) leave states nobody wrote a test for. Between lock holds, a leader releases
the mutex around two fsyncs, Sync around one per file, and four kinds of waiters
park on channels, so that producers, batches, Sync and Close interleave there.

## Modules

| Module | Models | Composition |
|---|---|---|
| `Store` | every operation on cursors, headers, ledger and counts, one lock hold at a time | |
| `QueueSpec` | nothing in the code: what the queue promises | |
| `StoreQueue` | the refinement mapping from `Store` to `QueueSpec` | extends `Store`, instantiates `QueueSpec` |
| `GroupCommit` | producers, leader, followers, quiesce, waiting consumers, Sync and Close under the per-operation policy | |
| `OffLockSync` | `syncOffLock`, the interval syncer, in-lock flushes, evictions and Close under the deferred policies | |
| `Recovery` | what is durable, what a power loss leaves, and `load` | |
| `StoreProofs`, `StoreOrderProofs`, `StoreRecordProofs`, `StoreQueueProofs` | the proofs about `Store`, the last one of the refinement | each extends the one before it, `StoreQueueProofs` also `StoreQueue` |
| `GroupCommitProofs`, `GroupCommitVerdictProofs` | the proofs about `GroupCommit` | the second extends the first |
| `OffLockSyncProofs` | the proofs about `OffLockSync` | extends `OffLockSync` |
| `RecoveryProofs` | the proofs about `Recovery` | extends `Recovery` |

The modules share the append, the flush and the latch, each abstracting the others.
An `Add` of `Store` is one synchronous append (what a deferred policy and `Requeue`
run, and what a span amounts to once it is published); `TakeReads` and `Retire` of
`GroupCommit` are any read and any commit of a consumer, with `Store`'s possible
outcomes; `DropStuck` of `Store` is also a segment `OffLockSync` has pinned; `Store`'s
restart loses memory only, `Recovery`'s also what was not fsynced.

### Store

Offsets are positions in units; a record is `1..MaxLen` units and is named by its
start. `rlen` and `rot` say what lies there: nothing, an intact record, one whose
checksum fails (`"sum"`), or one that no longer frames (`"frame"`). `seg[i]` is a
`dataFile` with its header in the page cache (`hcur`, `hcnt`); a restart of the
process reads those headers back. `gone` are segments whose file vanished.

A short handler is one action (`Reserve`, `Skip`, `Ack`, `Rewind`, `PayReport`,
`DropRecord`, `QuarantineHead`, `DeferDamage`...). A looping one is a chain of steps
driven by `op`, the call that holds the mutex:

    Add, Requeue   -> cycleDrop* -> create -> write          appendRecord, cycle
    Ack, Skip, ... -> run* -> walk* -> settle -> settled -> commitDrop*
                                                             commitAckedRun, commitDurable
    a read with no live segment -> force*                    forceCommitAll
    Crash          -> load*                                  load

`Crash` is enabled in the middle of every chain, `load` included: memory goes, the
page cache stays. `Faults` chooses which system calls may fail and `Policy` which
fsyncs happen. `DropStuck` also stands for a segment an off-lock flush has pinned.

History variables, read by no action: `authorised` (offsets whose retirement a
consumer asked for), `lostSet` (offsets a read reported lost), `quarantined`
(offsets a quarantine header was published over), `replays`, and two that count answers:
`reports`, the calls that answered `ErrCorrupt`, and `refusals`, those among them that report
no event counted. The code has three of these: an acknowledgement or a commit that stops at
damage short of its target, or outside every segment (`Refuse`), and a read whose
`forceCommitAll` fails behind a head it has moved (`CutShort`).

### GroupCommit

Each goroutine is in one of `Places`, and a step is what it does in one hold of the
mutex. `AddLeads` takes the span and starts the data fsync; `LeaderPublishes` writes
the header and starts the second; `LeaderSettles` answers the group and takes the
next span or leaves. `AddFollows` joins the next span. `AddBatch`, `Sync`, `Close`
and an `Add` that must cycle go through `Quiesce*`; `AddYields` gives way to them.
Goroutines repeat their calls for ever, so the model is finite without a bound on
the number of calls. A consumer inside `Take` (`TakeAnswers`, `TakeReads`, `TakeParks`)
sleeps at `"notify"` until somebody's `Signal`; `unread` and `owed` are the work it
could have. `TryReserve`, `Retire` and `Rewind` are done by anyone in one hold of the
mutex. The history variables follow each record from the stage to the
durable header (`pend`, `flight`, `heading`, `real`, `safe`) and note a header
published over bytes it should not cover (`torn`).

### QueueSpec and StoreQueue

`QueueSpec` is a log with two positions. Records are published at the tail and handed
over one by one in order; the read position falls back only to unread one record
(`Unread`) or to where the retired prefix ends (`Replay`); the retired prefix grows
over what was asked for or is lost, and never shrinks. `StoreQueue` maps `writeOff`,
`headOff`, the starts of records and the history variables to it. The one decision is
what counts as retired: `commitDurable` advances `commitOff` record by record, but a
header that cannot be written takes it back, so while a commit is walking and settling
the retired prefix is still where the commit began (`op.before`). A crash in the middle
is a `Replay` that may move the prefix forward, over what the caller had asked for, when
the header had reached the page cache.

### OffLockSync

`"ops"` stands for all producers and consumers, whose operations keep the mutex
throughout; `"loop"`, `"user"` and `"closer"` are the goroutines of `syncLoop`, `Sync`
and `Close`. A segment is the number of writes made to it (`writeSeq`) and how many of
them are on stable storage (`durable`). `open` are the segments with an open handle, the
nodes of the LRU list, and `newer` is their order in it; `keep` is set while `evictOpen` is
at work, one victim a step. The lists a flush works off (`todo`, `flushTodo`) are sets gone
through in the order of the segments (`First`). `SyncLists`, `SyncPrepares`,
`SyncUnlocks`, `SyncFsyncs`, `SyncSettles` and `SyncEnds` are `syncOffLock` and
`flushChunk`; between `SyncUnlocks` and `SyncSettles` everything else may happen.
`WritebackFails` is the kernel losing pages; the next fsync of the file that returns is
told, once, whoever called it. `promise` is what a running Sync has to cover.

### Recovery

A segment is a header, slots for records and a length. Each is kept twice: what the page
cache holds (`hdr`, `data`, `len`) and what a power loss may leave (`hdrs`, `disk`,
`lens`), which an fsync makes the same. Entries of the directory are durable, new or
unlinked until a `syncDir`. `PowerLoss` picks for each file any mixture: an old or a new
header or one torn between them, a slot or garbage, any length it had, or no file. `Crash`
loses memory only. `Cut` and `Overwritten` damage a file while nobody has the queue open.
`load` is `OpenBegins`, one `LoadDrops` or `LoadKeeps` per segment, `LoadConcludes`, then
one `RepairWrites` and `RepairFlushes` per header to be rewritten, and may die between any
two. The live segments are a set, in the order of their numbers. The history says what had
become durable and was not booked as lost since (`promised`), what was asked for and not
taken back by a replay (`asked`), what was given up unpublished (`discarded`), which
segments had a torn header rebuilt from their frames (`rebuilt`), and which records a header
may come back to retire because the process died in the middle of its repair (`orphaned`).
Of bytes that do not verify, `surviveCount` counts what happens to look like a frame:
`Framing` says in which slots that is.

## Runs

| Run | Instance | Shows |
|---|---|---|
| `store_damage` | 4 units, records of 1 and 2, segments of 3; one damaged record of either kind, one vanished file, one Rewind or restart; no failing call | `LedgerSound`, `AuthorisedRetirement`, `HeadAddressable`, `CountExact`, `ReportsExact`; `DamageNeverWedges` with a fair consumer; `ImplementsQueue` |
| `store_faults` | per-operation policy, both caps set, opens, writes, creates and fsyncs fail, one unframable record, two restarts or Rewinds, also during `load` | `CursorOrder`, `AuthorisedRetirement`, `CountExact`, `HeadersAgree`, `NoUncommit`; `ImplementsQueue` |
| `store_stuck` | `SyncEvery`, 6 units, segments of 1 (a record of 2 gets one its size), opens, unlinks, creates and fsyncs fail | forceCommitAll is reached and also cut short after it has moved the head; `CursorOrder`, `ReportsExact` |
| `group_commit` | three goroutines with different calls and record sizes, one of them also a consumer, every fault, deadlock checked | `VerdictTrue`, `SpanIntact`, `NoOrphanTail`, `CapHeld`, `ClosedQuiet`, `NoLostWakeup` |
| `group_commit_live` | three producers, one of which also batches, syncs and closes; header writes fail | `QuiescersServed`, `FollowersAnswered`, `LeadersReturn`, `YieldersReleased` |
| `offlock_sync` | three segments found and one to come, three writes, `SyncEvery` 2 and `NoSync`, an open-file cap of 3, one lost writeback, failing opens, unlinks and directory fsyncs, deadlock checked | `SyncKeepsPromise`, `CleanIsDurable`, `GaugesHonest`, `HandlesOutliveFsync`, `OpenFilesCapped`, `NoCircularWait` |
| `recovery` | three segments of two records, three records, two power losses or crashes, all three policies, one cut or overwritten segment under the per-operation policy | `PromisedKept`, `NothingSkipped`, `OneCursor`, `NoPhantom` |
| `store_stranded`, `loss_unseen`, `poisoned_wedge`, `latch_unseen`, `sync_adopted` | smallest instances | the five statements below that the code does not keep |

*Bounds.* Four units with records of one and two give up to four records over up to
three segments, hence a commit that crosses a segment boundary, a damaged record
with intact ones before and after it in the same segment and in the next, and a
reservation on either side of it. Two replays allow a crash inside the recovery from
a crash. `forceCommitAll` needs a segment that would not unlink and an append into it; for it
to fail behind a head it moved there must be two more segments to square, hence the six units
and the segments of one in `store_stuck`. `MaxRefusals` (2, and 1 in `store_faults`) ends the
acknowledgements once so many were refused, so that `refusals` stays bounded. `store_faults`
takes states for equal that differ only in the counters `corruptions`, `lostBytes` and `reports`
(`Uncounted`), which no action and no property of that run reads. Three goroutines
allow a leader, a follower and a quiescer at once. In `group_commit_live` the one goroutine that
syncs is the one that closes, so that a Sync there meets producers and spans but no other holder
of `syncMu`; `group_commit` has both. `Store` runs with `CHECK_DEADLOCK FALSE`, because the
bounded offsets and segment numbers do stop the model, and so does `Recovery`; `GroupCommit` and
`OffLockSync` are checked for deadlock. A cap of 3 is the smallest `openStore` allows and leaves
a chunk of one file, so that a Sync of two dirty files takes two chunks with operations between
them, and a reader beside a pinned and an active file is at the cap; three writes with
`SyncEvery` 2 let a flush reset the gauges under a Sync that has a snapshot of them, and a write
follow it. In
`Recovery` three records over segments of two make the second segment necessary, three
segments allow a create behind it or a gap in the numbering, and two losses allow the
second to strike the recovery from the first. `Framing` takes the first slot of every second
segment, so that a cut segment that holds garbage keeps it in one and loses it in another.
Outside damage is left to the per-operation
policy because the deferred ones already lose what is not fsynced in every combination.

*Exemptions stated in the properties.* `CleanIsDurable` and `GaugesHonest` say nothing of a
store that is latched, or while a Sync that has been told of a failed writeback waits for
the mutex to latch it (`FailureInHand`): between the two an eviction may call the same file
clean. `SyncKeepsPromise` has no such exemption. `PromisedKept` allows the loss of a record
that a corruption event was booked for, and of a segment that damage from outside made look
like one of another version, or, with nothing durable behind it, like a create that was
interrupted. `NothingSkipped` holds an open to its conclusion that a record is to be
replayed only where the segment has nothing left to fsync. One step is outside it: when the
process dies between the `writeHeader` and the `flushFile` of a repair, the records which a
header of that segment may still retire become `orphaned`, and stay so until they are written
again or an open settles them; the code may skip them (the third case at the end of the next
section). `PromisedKept` exempts the same records. In the run the exemption plays no part: both
properties hold there without it as well, since the skip needs a third loss. With three losses and three segments of one record
`NothingSkipped` fails without it and holds with it.
`ReportsExact` sets an `ErrCorrupt` that reports no event counted apart (`refusals`).

*Fairness.* `Store`: the goroutine that holds the mutex keeps running (weak), and one
consumer keeps calling `Take` (strong, because others take the mutex between its
attempts and `sync.Mutex` hands over to a waiter it has starved). `GroupCommit`:
strong fairness of each goroutine that is inside a call, for the same reason. Nobody
has to begin a call, to consume, to cancel or to close. `OffLockSync` and `Recovery` state
no liveness. `LeadersReturn` holds because
the segment fills behind the spans and its rotation quiesces the followers; until
then a leader serves as many spans as arrive.

## What the code does not do as written

- **`store_stranded`.** `cycle` drops the drained active segment before it knows that
  it can create the next. When an earlier committed segment would not unlink and the
  creation is refused or fails, that stale segment becomes the active one, the next
  record lands in it at an offset its base does not explain, and the read cursor
  addresses no segment. `skipCorruptSegment` calls that case unreachable; the record
  is abandoned as corrupt.
- **`loss_unseen`.** A quarantine header that reaches the page cache and fails its
  fsync leaves memory unmoved and no report, but the next open believes it.
- **`poisoned_wedge`.** `doc.go` says a poisoned queue can still be drained. An
  unframable record at the commit cursor stops it: the latch refuses the quarantine.
- **`latch_unseen`.** A latch set by `AddBatch`, or by a directory fsync, does not
  wake `AddWait`; the comments in `leadFlushLocked` and `syncOffLock` say it must.
- **`sync_adopted`.** `loadFile` builds an existing segment as clean. When a process dies
  with unsynced pages and the machine stays up, the next process shows those records, its
  `Sync` finds no dirty file, returns nil and has made nothing durable.

Four more were met while modelling and have no run of their own. A `forceCommitAll` that is
cut short has abandoned the records of the segments it squared: the call answers `ErrCorrupt`
joined with the failure, and neither `Corruptions` nor `LostBytes` ever has them
(`takeHead` and `skipCorruptSegment`, `store.go:1046` and `1240`; `CutShort`). The others are
of `Recovery`. A process that
dies in `cycle` between linking a segment and the directory fsync leaves an entry that the
next open adopts without syncing the directory: a record a per-operation `Add` then
acknowledges in it can go with the entry (`promised` waits for the entry for this reason).
A torn header is rebuilt from every frame that verifies, those of a discarded stage
included, so a record whose `Add` or `AddBatch` failed can be delivered after all;
`NoPhantom` shows that it takes a torn header, rebuilt. And `load` repairs headers from the
tail backwards, so that a torn header, the only witness that later commits must be replayed,
goes last ("an interrupted repair cannot erase the witness before its consequences reach
disk", `recovery.go:155`); but a process that dies between `writeHeader` and `flushFile` of a
later segment leaves the reset header in the page cache only, the next load finds it as
wanted, skips it without an fsync and replaces the torn header durably. A power loss then
brings the old commit header back, and the records to be replayed are skipped.

## Proofs

Every invariant of the passing runs, the one action property and the refinement are theorems,
proved for every value of the constants that the `ASSUME` of their module allows: sizes,
lengths, caps, policies, sets of goroutines and of faults. Each proof has one lemma per
action, or per family of actions that changes the state in the same way, and the theorem
combines them. No invariant is inductive as the run states it; what
follows is what had to be added, and why.

### Store

From `StoreAssumption` alone (the bounds are naturals, the policy and the fault sets are of
the right kind):

- `TypeCorrect`: `Spec => []TypeOK`. That `commitOff` stays an offset after `persistCommit`
  falls back to `base + hcur` needs `hcur <= size` and `base + size <= writeOff` for every
  segment (`SegExtents`); that a frame ends inside the queue needs the same of records
  (`RecExtents`); an append in progress must still fit (`AppendFits`), and a walk must know
  where it began (`WalkBase`). `TInv` is their conjunction.
- `EveryEventReported`: `Spec => []ReportsExact`, over `TInv`: for every set of faults an event
  counted is answered once or owed, and every other `ErrCorrupt` is one of the three answers
  above. It does not say that every loss is counted: a `forceCommitAll` that is cut short
  loses records uncounted.
- `CursorsNeverCross`: `Spec => []CursorOrder`. The rollback and the restart set the commit
  cursor from a header, so headers may not be ahead of it (`HeadersBehind`, which a latched
  quarantine breaks and the latch then makes harmless, and which `load` restores segment by
  segment); the run and the walk may not aim past the read cursor (`RunBehind`,
  `WalkBehind`, `LedgerBehind`); segments are laid out in order (`Layout`); a Requeue in
  progress still holds the frame it took (`RequeueHolds`); a latched store walks no more
  (`Unlatched`). `OInv` is their conjunction.
- `LedgerStaysInReadOrder`: `Spec => []LedgerSound`. Over `OInv` it needs that the entries
  ascend (`Ascending`) and that no record is empty (`Sized`).

The others assume that unlinks succeed (`UnlinksSucceed`: `"unlink"` is not in `Faults`).
They are false without it: that is the finding `store_stranded`, in which a segment that
would not unlink takes appends at an offset its base does not explain. Since `DropStuck`
also stands for a segment pinned by an off-lock flush, they say nothing of a reclamation
that passes over one.

- `ReadCursorIsAddressable` (`HeadAddressable`). `CInv`: every segment ends where the next
  begins and the last at the write cursor (`Chained`), nothing the commit cursor has not
  passed lies before the first (`Fronted`), and segments are dropped from the front
  (`DropsInOrder`).
- `CursorsStandBetweenRecords`. `RInv`: records tile the queue without gaps, and every cursor,
  base and header cursor is the start of a record or the tail, whether it came from the
  ledger, the frame cache or the bytes.
- `ARestartFindsTheCursor` (`HeadersAgree`). `HeadersBehind` is one half; `HInv` is the
  other: no header is behind the commit cursor, except the one the commit in progress has
  still to write, and that one is not behind where the call began.
- `RetirementIsNeverTakenBack` (`NoUncommit`), an action property, from `OInv` and `HInv`.
- `NothingIsRetiredUnasked` (`AuthorisedRetirement`). `AInv`: what lies behind the commit
  cursor, what a run or a walk heads for, what the ledger has acknowledged and what a header
  claims ahead of the commit cursor was asked for or is lost.
- `TheStoreIsAQueue`: `Spec => ImplementsQueue`. The initial states map to initial states,
  and every step of `Store`, a crash in the middle of any chain included, is a step of
  `QueueSpec` or a stutter.
- `CountIsExact` (`CountExact`). The counts are kept by increments and differences in the append,
  the commit, the quarantine, the reclamation and `load`, and the invariant `NInv` says which
  records each of them is the number of: `written` of a segment those it holds (`WrittenExact`), the header's count those
  before the header's cursor (`HeadersExact`), `committed` those before the commit cursor, of
  the segments `load` has got to in the middle of a restart (`CommittedExact`), and what a deferred
  extent remembers those of its segment up to its end (`AbandonedExact`). With the first
  three the totals differ by the records between the commit cursor and the tail, or, during
  `load`, between the part added up so far and the tail (`Balanced`, `LoadHolder`). A
  rollback to the header, a quarantine and the settling of deferred damage then move the
  totals by as many records as they move the cursor.

### GroupCommit

From `GroupCommitAssumption`, of which the one notable part is that there are finitely many
goroutines:

- `FieldsKeepTheirTypes`, `NoTailIsOrphaned`, `CapCountsTheStaged`, `AClosedStoreIsQuiet`,
  `NoWakeupIsLost` and `HeadersCoverTheirSpans` share `GInv`, which says what the code relies
  on without a check: which places hold `w.mu` and `w.syncMu` (`LockPlaces`, `SyncPlaces`),
  that the span in flight and its followers are the one leader's (`OneLeader`,
  `Followers`), that a batch that stages is alone (`TailOwned`, `BatchOwns`), and that the
  staged records lie end to end behind the published bytes (`SpanLies`). With the last, a
  header names the bytes its leader fsynced, whatever others did while the mutex was free.
- `AnswersAreTrue` (`VerdictTrue`), over `GInv`. `VInv` follows every record of a call from
  the stage to the durable header and says in which of these places it can be for each place
  of its goroutine and each verdict it will be given.

### OffLockSync

From `OffLockSyncAssumption` alone, a chain in which each invariant uses those before it:

| Invariant | Says | Theorem |
|---|---|---|
| `Owner` | who holds `mu` and `syncMu` at each place, and where everyone is once `closed` | `NobodyWaitsInACircle` |
| `SegInv` | the active segment is the last, numbers beyond it are fresh, pins are on live segments, the writes made fit `MaxWrites` | |
| `SessionInv`, `HandleInv` | outside a session nothing is listed or pinned; a pinned segment has its handle, and so has the active one until the store is closed | `PinnedHandlesSurvive` |
| `CapInv` | the pinned segments and those left in the chunk are at most `ChunkSize`, so an eviction always finds a victim | `TheCapIsKept` |
| `TypeInv` | `newer` orders the open handles | `TypeCorrect` |
| `DiskInv` | a lost writeback is untold, in a Sync's hand or latched; a segment an fsync answered nil for is durable up to the last write before that fsync began, and a live one with undurable writes is dirty | `CleanMeansDurable` |
| `PromiseInv` | what a running Sync owes is durable, still listed or pinned, or the Sync already has an error | `SyncIsHonest` |
| `GaugeInv` | the counters cover the records at risk, and until a flush resets them they exceed a running Sync's snapshot by at least the records written since | `GaugesNeverUnderstate` |

`OffLockSync` keeps its lists as sets and a relation for the sake of these proofs.

### Recovery

From `RecoveryAssumption` alone, for every number of segments, records, losses and damages:

- `TypeCorrect` (`TypeOK`) and `OpenFindsOneCursor` (`OneCursor`) share `BInv`. `DiskInv`:
  every header that may come back and verifies has counts that go with its cursors (`Sane`).
  `ControlInv`: which segments, numbers and entries there are in each phase of an open, a
  create and `load`. `CursorInv`: while the queue is open the live headers lie inside their
  files (`Believed`) and only one segment is partly committed (`OneAtWork`); during `load`
  what it makes of each segment is sane (`MemSane`) and, once reconciled, has one cursor
  (`MemOnce`), which the repairs write; an append in progress still fits (`Staged`).
  `Crash`, `PowerLoss` and damage leave only `DiskInv` and the numbering, and `load` builds
  the rest from them, however often it is interrupted.
- `GivenUpStaysGivenUp` (`NoPhantom`), over `PInv`: a record lies only in the segment it was
  staged in (`Homed`); no header that may come back publishes more than the one in the page
  cache, except between the repair of a segment that was cut and its flush (`Widths`); a
  record on its way lies behind every header (`Unseen`); `load` believes no more of a segment
  than its header says unless it rebuilds it (`NoMore`); hence no header that may come back
  publishes a slot that may hold what was given up (`Clean`).
- `CursorSkipsNothing` (`NothingSkipped`), over `SInv`. A record that is still due lies plainly
  in one slot, and every header that may come back spans it once it is durable (`Plainly`,
  `Spans`, `Slotted`).
  A header that retires it all the same, which the reset of a cursor leaves behind until the
  repair is durable, may come back only as long as an earlier segment is not wholly
  committed, durably (`Chased`): `load` is bound to find its cursor there or before, and to
  reset the rest. Of such headers only the one under repair is not yet durable
  (`StaleSettled`). This is why the repairs go from the tail backwards; that a header behind
  an open segment retires nothing unless that segment is open for good (`OpenFirst`), and
  that what `load` wants on disk retires nothing due (`MemReset`, `MemSpares`), carries it
  across every interrupted repair, but for the records orphaned: the theorem makes no claim for
  a process that dies between a repair's header and its flush.
- `WhatIsPromisedIsKept` (`PromisedKept`), over `KInv`, which adds to `SInv` that every record
  the directory owes a consumer is durable where it was staged, inside the file and published
  by every header that may come back, or lies in a segment damaged for good in a way `load`
  has yet to book (`Kept`); that a header announcing a record is written over durable slots
  only (`AddSound`); and that nothing is owed of a segment that looks like another version's
  (`Strange`). `Kept` also says that a segment which looks like an unfinished create, and
  which `load` would remove without booking anything, is not the last if it held something
  owed.

### Checked by TLC only

The temporal properties (`DamageNeverWedges`, `QuiescersServed`, `FollowersAnswered`,
`LeadersReturn`, `YieldersReleased`), since liveness under fairness is out of TLAPS's reach,
and the findings: TLC's counterexamples to what five runs state. One of the five properties,
`HeadAddressable`, is a theorem where unlinks succeed.

## What is not modelled

A damaged length that still frames inside its segment, which would also make `Count()`
inexact: it needs the bytes of a frame. A failure of `restoreHeader`; the lifetime counters
of `Stats`; the read-ahead block, the codec bytes, stamps and buffers; `TryPeek`; the stop
conditions of `Drain`; the `closed` flag in `Store`. `GroupCommit` leaves out `MaxSegments`
in `cycle`, `Requeue` (its quiesce, and its forced append, which may pass `MaxBytes` and to which
`CapHeld` does not apply), and the deferred policies of `AddBatch`; `OffLockSync`
the group commit that `Sync` waits out first, which `GroupCommit` has. `Recovery` leaves out
a failing `createFile` (its file is unlinked again), oversized segments and the geometry
fields, and takes an unlink and a later create of one name as ordered. An open that fails because it
could not look, or because the segment size differs, changes nothing that a crash in `load`
does not, and is that crash. The directory lock, the fault hooks and the platform branches of
the wrappers are system calls; the examples are clients.

## Plan

Done: the four component modules, `QueueSpec` with `StoreQueue`, and a theorem for every
invariant, action property and refinement that the runs check. What would say more, in this
order:

1. What `Store` keeps where an unlink fails: `HeadAddressable` and `CountExact` are both false
   there as the code stands, and `store_stranded` shows why.
2. An abstract specification of a directory under power loss, for `Recovery` to implement, so
   that `Store`'s `Crash` could be replaced by it.
3. The quiesce of `Requeue` and `MaxSegments` in `GroupCommit`, and a failing `createFile` in
   `Recovery`.
