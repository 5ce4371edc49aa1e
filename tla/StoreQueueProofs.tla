-------------------------- MODULE StoreQueueProofs --------------------------
(***************************************************************************)
(* What Store retires, it retires for good and with authority, and so it   *)
(* is the queue QueueSpec describes, for every value of the constants with *)
(* which unlinks succeed.                                                  *)
(*                                                                         *)
(* A restart knows only the headers, so the argument is about them.        *)
(* StoreOrderProofs has one half: on a store that has not latched no       *)
(* header is ahead of the commit cursor.  HInv is the other half: none is  *)
(* behind it, except the one the commit in progress still has to write,    *)
(* and that one is not behind where the call began.                        *)
(*                                                                         *)
(* AInv says that what lies behind the commit cursor, what a run or a walk *)
(* heads for, what is acknowledged in the ledger and what a header claims  *)
(* ahead of the commit cursor was asked for or is lost.  With the three    *)
(* invariants, Store implements QueueSpec.                                 *)
(*                                                                         *)
(* The last part is about Count().  NInv says that what a segment, its     *)
(* header and a deferred extent count are the records between two offsets, *)
(* and that the totals differ by those between the commit cursor and the   *)
(* tail.                                                                   *)
(***************************************************************************)
EXTENDS StoreRecordProofs, StoreQueue, FiniteSetTheorems

\* The header of segment i says all the commit cursor has passed
NotShort(i) == seg[i].hcur >= LoadedCursor(seg[i], commitOff)

\* True of every segment that has a file, but the one being walked
HeadersReach == \A i \in files \ gone : (Walks /\ i = op.cur) \/ NotShort(i)

\* The walk has not left the segment whose header is outstanding, and that header
\* is not behind where the call began
Outstanding ==
    Walks /\ op.cur # 0 =>
        /\ op.cur \in files /\ commitOff <= End(op.cur)
        /\ op.cur \notin gone => op.before <= seg[op.cur].base + seg[op.cur].hcur

\* The call in progress has not taken back what it found committed
Since == op.before <= commitOff

HInv == HeadersReach /\ Outstanding /\ Since

-----------------------------------------------------------------------------
(* What load makes of a segment *)

LEMMA LoadedBounds ==
    ASSUME NEW s \in SegmentRec, NEW c \in Nat
    PROVE  /\ LoadedCursor(s, c) \in Nat /\ LoadedCursor(s, c) <= s.size
           /\ s.base + s.size <= c => LoadedCursor(s, c) = s.size
           /\ c <= s.base => LoadedCursor(s, c) = 0
           /\ s.base <= c /\ c <= s.base + s.size => LoadedCursor(s, c) = c - s.base
<1>1. s.base \in Nat /\ s.size \in Nat
  BY StoreAssumption DEF SegmentRec, Offsets
<1>2. CASE s.base + s.size <= c
  BY <1>1, <1>2 DEF LoadedCursor
<1>3. CASE s.base + s.size > c /\ s.base >= c
  BY <1>1, <1>3 DEF LoadedCursor
<1>4. CASE s.base + s.size > c /\ s.base < c
  BY <1>1, <1>4 DEF LoadedCursor
<1> QED
  BY <1>1, <1>2, <1>3, <1>4

LEMMA LoadedGrows ==
    ASSUME NEW s \in SegmentRec, NEW c \in Nat, NEW d \in Nat, c <= d
    PROVE  LoadedCursor(s, c) <= LoadedCursor(s, d)
<1>1. s.base \in Nat /\ s.size \in Nat
  BY StoreAssumption DEF SegmentRec, Offsets
<1>2. /\ LoadedCursor(s, c) \in Nat /\ LoadedCursor(s, c) <= s.size
      /\ s.base + s.size <= c => LoadedCursor(s, c) = s.size
      /\ c <= s.base => LoadedCursor(s, c) = 0
      /\ s.base <= c /\ c <= s.base + s.size => LoadedCursor(s, c) = c - s.base
  BY LoadedBounds
<1>3. /\ LoadedCursor(s, d) \in Nat /\ LoadedCursor(s, d) <= s.size
      /\ s.base + s.size <= d => LoadedCursor(s, d) = s.size
      /\ d <= s.base => LoadedCursor(s, d) = 0
      /\ s.base <= d /\ d <= s.base + s.size => LoadedCursor(s, d) = d - s.base
  BY LoadedBounds
<1> HIDE DEF LoadedCursor
<1>4. CASE c <= s.base
  BY <1>2, <1>3, <1>4
<1>5. CASE s.base < c /\ s.base + s.size <= d
  BY <1>2, <1>3, <1>5
<1>6. CASE s.base < c /\ d < s.base + s.size
  BY <1>1, <1>2, <1>3, <1>6
<1> QED
  BY <1>1, <1>4, <1>5, <1>6

\* Only a segment's extent matters
LEMMA LoadedExtent ==
    ASSUME NEW s, NEW t, s.base = t.base, s.size = t.size, NEW c
    PROVE  LoadedCursor(s, c) = LoadedCursor(t, c)
  BY DEF LoadedCursor

-----------------------------------------------------------------------------
(* HInv is an invariant *)

\* The steps that move no commit cursor and settle no header
LEMMA OtherSteps ==
    ASSUME TInv, CInv, [Next]_vars,
           ~WalkLeave, ~Settle, ~WalkRecord, ~WalkAbandoned, ~WalkQuarantine, ~Crash,
           ~QuarantineHead
    PROVE  /\ UNCHANGED commitOff /\ gone \subseteq gone'
           /\ Walks => Walks' /\ op'.cur = op.cur
           /\ Walks' /\ ~Walks => op'.cur = 0
           /\ op'.before \in {0, op.before, commitOff}
<1>0. op \in Op /\ Idle \in Op /\ Idle.before = 0 /\ Idle.pc = "idle" /\ Idle.cur = 0
  BY IdleType DEF TInv, TypeOK, OpType, Idle
<1>r. ASSUME NEW d, StartRun(d)
      PROVE  op'.pc \in {"idle", "run"} /\ op'.before = 0
  <2>1. CASE ioErr
    BY <1>0, <1>r, <2>1 DEF StartRun
  <2>2. CASE ~ioErr
    BY <1>0, <1>r, <2>2 DEF StartRun, Op
  <2> QED
    BY <2>1, <2>2
<1>w. ASSUME NEW off, NEW d, NEW l, StartWalk(off, d, l)
      PROVE  op'.pc = "walk" /\ op'.before = commitOff /\ op'.cur = 0
  BY <1>0, <1>w, StoreAssumption DEF StartWalk, Op, TInv, TypeOK, CursorType
<1>1. CASE (\E n \in 1 .. MaxLen : Add(n)) \/ Requeue
  BY <1>0, <1>1 DEF Add, Requeue, TakeHead, Readable, Reading, StartAppend, Op, Walks,
     cursors, disk
<1>2. CASE Reserve \/ Take \/ Skip \/ Unread
  BY <1>0, <1>r, <1>w, <1>2 DEF Reserve, Take, Skip, Unread, TakeHead, Readable, Reading,
     RetireFrame, Walks, cursors, disk
<1>3. CASE PayReport \/ DropRecord \/ QuarantineLatched \/ DeferDamage \/ StartForce
  BY <1>0, <1>r, <1>3 DEF PayReport, DropRecord, QuarantineLatched, DeferDamage,
                          StartForce,
     Readable, Unreadable, Reading, RetireFrame, Op, Walks, cursors, disk
<1>4. CASE Retire \/ Rewind
  BY <1>0, <1>r, <1>w, <1>4 DEF Retire, Ack, AckBatch, Commit, Rewind, Walks, cursors,
                                disk
<1>5. CASE AppendStep
  BY <1>0, <1>r, <1>5 DEF AppendStep, CreateRefused, WriteFailed, WriteLatched, Write,
     AppendFailed, RetireFrame, Create, Publish, Op, Walks, cursors, disk
<1>6. CASE DropStep
  BY <1>0, <1>6 DEF DropStep, DropSegment, DropStuck, DropDone, FinishCommit, Op, Walks,
     cursors, disk
<1>7. CASE RunStep \/ CommitEnds
  BY <1>0, <1>w, <1>7 DEF RunStep, CommitEnds, FinishCommit, Op, Walks, cursors, disk
<1>8. CASE WalkOver \/ WalkUnreadable \/ WalkStopsAtDamage \/ WalkQuarantineFailed
  BY <1>0, <1>8 DEF WalkOver, WalkUnreadable, WalkStopsAtDamage, WalkQuarantineFailed,
     Walking, Op, Walks, cursors, disk
<1>9. CASE ForceStep \/ ForceFailed \/ ForceLatched \/ ForceDone
  BY <1>9 DEF CInv, ForceStep, ForceFailed, ForceLatched, ForceDone
<1>10. CASE LoadStep \/ LoadDone
  BY <1>0, <1>10 DEF LoadStep, LoadDone, Op, Walks, cursors
<1>11. CASE Environment
  BY <1>0, <1>11 DEF Environment, FailSync, Rot, Vanish, Walks, cursors, disk
<1>12. CASE UNCHANGED vars
  BY <1>12 DEF vars, cursors, disk, Walks
<1> QED
  BY <1>1, <1>2, <1>3, <1>4, <1>5, <1>6, <1>7, <1>8, <1>9, <1>10, <1>11, <1>12
     DEF Next, OpStep, WalkStep, Consume, ReadDamage

\* Only a publish changes the extent of a live segment
LEMMA ExtentsStay ==
    ASSUME TInv, OInv, CInv, [Next]_vars, NEW i \in files, i \in files'
    PROVE  \/ seg'[i].base = seg[i].base /\ seg'[i].size = seg[i].size
           \/ op.pc = "write" /\ \E af \in files : Publish(af)
<1>0. i \in Segs
  BY SegFacts
<1>1. CASE UNCHANGED <<files, nextNum, writeOff, rlen>> /\ Kept(seg, seg')
  BY <1>0, <1>1 DEF Kept
<1>2. CASE Create
  <2>1. seg' = [seg EXCEPT ![nextNum] = Fresh(writeOff, Max2(SegCap, op.len))]
    BY <1>2 DEF Create
  <2>2. i # nextNum
    BY SegFacts, StoreAssumption DEF OInv, Layout, Segs, TInv, TypeOK, DiskType
  <2> QED
    BY <1>0, <2>1, <2>2 DEF TInv, TypeOK, SegType
<1>3. CASE DropSegment
  BY <1>3 DEF DropSegment
<1>4. CASE LoadDone
  BY <1>4 DEF LoadDone
<1> QED
  BY <1>1, <1>2, <1>3, <1>4, GeometrySteps

\* A segment that grows had all its header needed
LEMMA PublishReach ==
    ASSUME TInv, OInv, CInv, op.pc = "write", NEW af \in files, Publish(af), TInv',
           NEW i \in files, NotShort(i)
    PROVE  NotShort(i)'
<1>1. /\ \A j \in Segs : /\ seg'[j].base = seg[j].base /\ seg'[j].hcur = seg[j].hcur
                         /\ j # af => seg'[j] = seg[j]
      /\ i \in Segs /\ af \in Segs /\ commitOff' = commitOff
  BY PublishTypes, SegFacts DEF Publish
<1>2. CASE i # af
  BY <1>1, <1>2 DEF NotShort
<1>3. CASE i = af
  <2>1. seg[i] \in SegmentRec /\ seg'[i] \in SegmentRec /\ commitOff \in Nat
    BY <1>1, SegFacts DEF TInv, TypeOK, SegType
  <2>2. End(i) = writeOff /\ commitOff <= writeOff
    BY <1>3, ActiveIsLast, SegFacts DEF Publish, OInv, CursorOrder
  <2>3. seg'[i].size = seg[i].size + op.len /\ op.len \in Nat
    BY <1>1, <1>3 DEF Publish, TInv, TypeOK, SegType, SegmentRec, OpType, Op
  <2>4. /\ LoadedCursor(seg[i], commitOff) <= seg[i].size
        /\ commitOff <= seg[i].base => LoadedCursor(seg'[i], commitOff) = 0
        /\ seg[i].base <= commitOff =>
              LoadedCursor(seg[i], commitOff) = commitOff - seg[i].base
        /\ seg[i].base <= commitOff =>
              LoadedCursor(seg'[i], commitOff) = commitOff - seg[i].base
    BY <1>1, <2>1, <2>2, <2>3, LoadedBounds, SegFacts
  <2>5. seg[i].hcur >= LoadedCursor(seg[i], commitOff) /\ seg[i].hcur \in Nat
        /\ seg[i].base \in Nat
    BY <1>1, SegFacts DEF NotShort
  <2>6. seg[i].hcur >= LoadedCursor(seg'[i], commitOff)
    BY <2>1, <2>4, <2>5
  <2> QED
    BY <1>1, <2>6 DEF NotShort
<1> QED
  BY <1>2, <1>3

\* A step that leaves the commit cursor alone and settles no header
LEMMA ReachStays ==
    ASSUME TInv, OInv, CInv, [Next]_vars, TInv', UNCHANGED commitOff,
           NEW i \in files', i \in files => NotShort(i), ~(Walks /\ i = op.cur)
    PROVE  NotShort(i)'
<1>1. i \in Segs /\ seg'[i] \in SegmentRec /\ commitOff \in Nat
  BY SegFacts DEF TInv, TypeOK, SegType, DiskType
<1>2. CASE seg'[i].base = writeOff /\ seg'[i].hcur = 0 /\ seg'[i].size = 0
  <2>1. LoadedCursor(seg'[i], commitOff) \in Nat /\ LoadedCursor(seg'[i], commitOff) <= 0
    BY <1>1, <1>2, LoadedBounds
  <2> QED
    BY <1>2, <2>1 DEF NotShort
<1>3. CASE i \in files /\ HeaderStep(i)
  <2>1. CASE op.pc = "write" /\ \E af \in files : Publish(af)
    BY <1>3, <2>1, PublishReach
  <2>2. CASE seg'[i].base = seg[i].base /\ seg'[i].size = seg[i].size
    <3>1. LoadedCursor(seg'[i], commitOff) = LoadedCursor(seg[i], commitOff)
      BY <2>2, LoadedExtent
    <3>2. /\ LoadedCursor(seg[i], commitOff) \in Nat
          /\ LoadedCursor(seg[i], commitOff) <= seg[i].size /\ seg[i].size \in Nat
      BY <1>1, LoadedBounds, SegFacts DEF TInv, TypeOK, SegType
    <3>3. seg'[i].hcur >= LoadedCursor(seg[i], commitOff)
      BY <1>3, <3>2 DEF HeaderStep, NotShort
    <3> QED
      BY <3>1, <3>3 DEF NotShort
  <2> QED
    BY <1>3, <2>1, <2>2, ExtentsStay
<1> QED
  BY <1>2, <1>3, BasesStay

LEMMA OtherHeaders ==
    ASSUME SInv, HInv, [Next]_vars, SInv',
           ~WalkLeave, ~Settle, ~WalkRecord, ~WalkAbandoned, ~WalkQuarantine, ~Crash,
           ~QuarantineHead
    PROVE  HInv'
<1>0. TInv /\ OInv /\ CInv /\ TInv' /\ OInv' /\ CInv'
  BY DEF SInv
<1>1. /\ UNCHANGED commitOff /\ gone \subseteq gone'
      /\ Walks => Walks' /\ op'.cur = op.cur
      /\ Walks' /\ ~Walks => op'.cur = 0
      /\ op'.before \in {0, op.before, commitOff}
  BY <1>0, OtherSteps
<1>2. Since'
  <2>1. op.before \in Nat /\ commitOff \in Nat
    BY <1>0, SegFacts, StoreAssumption DEF TInv, TypeOK, OpType, Op, Offsets
  <2> QED
    BY <1>1, <2>1 DEF HInv, Since
<1>3. HeadersReach'
  <2>1. SUFFICES ASSUME NEW i \in files', i \notin gone', ~(Walks' /\ i = op'.cur)
                 PROVE  NotShort(i)'
    BY DEF HeadersReach
  <2>2. ~(Walks /\ i = op.cur) /\ i \notin gone
    BY <1>1, <2>1
  <2>3. i \in files => NotShort(i)
    BY <2>2 DEF HInv, HeadersReach
  <2> QED
    BY <1>0, <1>1, <2>2, <2>3, ReachStays
<1>4. Outstanding'
  <2>1. SUFFICES ASSUME Walks', op'.cur # 0
                 PROVE  /\ op'.cur \in files' /\ commitOff' <= End(op.cur)'
                        /\ op'.cur \notin gone' =>
                              op'.before <= seg'[op'.cur].base + seg'[op'.cur].hcur
    BY DEF Outstanding
  <2>2. Walks /\ op'.cur = op.cur
    BY <1>1, <2>1
  <2>3. WalkOver \/ WalkUnreadable \/ WalkStopsAtDamage \/ WalkQuarantineFailed \/ UNCHANGED vars
    BY <2>2, <1>0 DEF Walks, Next, OpStep, AppendStep, DropStep, WalkStep, Consume,
                      ReadDamage, Retire, Environment,
       Add, CInv, CreateRefused, Create, WriteFailed, Write, WriteLatched, DropSegment,
       DropStuck, DropDone, RunStep, CommitEnds, ForceStep, ForceFailed, ForceLatched,
       ForceDone, LoadStep, LoadDone, Reserve, Take, Skip, Requeue, Unread, TakeHead,
       Readable, Unreadable, Reading, PayReport, DropRecord, QuarantineHead,
       QuarantineLatched, DeferDamage, StartForce, Ack, AckBatch, Commit, Rewind,
       FailSync, Rot, Vanish
  <2>4. /\ UNCHANGED <<files, gone>> /\ op'.before = op.before
        /\ \/ UNCHANGED seg
           \/ \E df \in files : seg' = HeaderFull(seg, df)
    BY <1>0, <2>3 DEF WalkOver, WalkUnreadable, WalkStopsAtDamage, WalkQuarantineFailed,
       vars, disk, TInv, TypeOK, OpType, Op
  <2>5. op.cur \in files /\ op.cur \in Segs
    BY <1>0, <2>1, <2>2, WalkFacts
  <2>6. /\ seg'[op.cur].base = seg[op.cur].base /\ seg'[op.cur].size = seg[op.cur].size
        /\ seg'[op.cur].hcur >= seg[op.cur].hcur /\ seg'[op.cur].hcur \in Nat
    <3>1. CASE UNCHANGED seg
      BY <1>0, <2>5, <3>1, SegFacts
    <3>2. CASE \E df \in files : seg' = HeaderFull(seg, df)
      <4>1. PICK df \in files : seg' = HeaderFull(seg, df)
        BY <3>2
      <4>2. df \in Segs /\ seg \in [Segs -> SegmentRec]
        BY <1>0, SegFacts DEF TInv, TypeOK, SegType
      <4>3. /\ Kept(seg, seg') /\ HeadersKept(seg, seg', df)
            /\ seg'[df].hcur \in {seg[df].hcur, seg[df].size}
        BY <4>1, <4>2, HeaderFullShape
      <4>4. seg'[op.cur].hcur \in {seg[op.cur].hcur, seg[op.cur].size}
        BY <2>5, <4>3 DEF HeadersKept
      <4>5. /\ seg[op.cur].hcur \in Nat /\ seg[op.cur].size \in Nat
            /\ seg[op.cur].hcur <= seg[op.cur].size
        BY <1>0, <2>5, SegFacts
      <4> QED
        BY <2>5, <4>3, <4>4, <4>5 DEF Kept
    <3> QED
      BY <2>4, <3>1, <3>2
  <2>7. End(op.cur)' = End(op.cur)
    BY <2>2, <2>6 DEF End
  <2>8. /\ commitOff <= End(op.cur)
        /\ op.cur \notin gone => op.before <= seg[op.cur].base + seg[op.cur].hcur
    BY <2>1, <2>2 DEF HInv, Outstanding
  <2>9. seg[op.cur].base \in Nat /\ seg[op.cur].hcur \in Nat /\ op.before \in Nat
    BY <1>0, <2>5, SegFacts, StoreAssumption DEF TInv, TypeOK, OpType, Op, Offsets
  <2> QED
    BY <1>1, <2>2, <2>4, <2>5, <2>6, <2>7, <2>8, <2>9
<1> QED
  BY <1>2, <1>3, <1>4 DEF HInv

\* A commit cursor that moves within one segment changes what load makes of that
\* segment only
LEMMA ReachElsewhere ==
    ASSUME TInv, OInv, NEW df \in Holding(commitOff), NEW c \in Nat, commitOff <= c,
           c <= End(df), NEW i \in files, i # df, NotShort(i)
    PROVE  seg[i].hcur >= LoadedCursor(seg[i], c)
<1>1. /\ df \in files /\ df \in Segs /\ i \in Segs /\ seg[i] \in SegmentRec
      /\ df \in Nat /\ i \in Nat /\ seg[df].base <= commitOff
  BY SegFacts DEF Holding, Segs, TInv, TypeOK, SegType
<1>2. /\ seg[i].base \in Nat /\ seg[i].size \in Nat /\ seg[i].hcur \in Nat /\ commitOff \in Nat
      /\ seg[df].base \in Nat /\ End(df) \in Nat /\ End(i) = seg[i].base + seg[i].size
  BY <1>1, SegFacts, StoreAssumption DEF Offsets
<1>3. CASE i < df
  <2>1. End(i) <= seg[df].base
    BY <1>1, <1>3 DEF OInv, Layout
  <2>2. seg[i].base + seg[i].size <= commitOff /\ seg[i].base + seg[i].size <= c
    BY <1>1, <1>2, <2>1
  <2>3. LoadedCursor(seg[i], commitOff) = seg[i].size /\ LoadedCursor(seg[i], c) = seg[i].size
    BY <1>1, <1>2, <2>2, LoadedBounds
  <2> QED
    BY <2>3 DEF NotShort
<1>4. CASE df < i
  <2>1. End(df) <= seg[i].base
    BY <1>1, <1>4 DEF OInv, Layout
  <2>2. c <= seg[i].base
    BY <1>2, <2>1
  <2>3. LoadedCursor(seg[i], c) = 0
    BY <1>1, <2>2, LoadedBounds
  <2> QED
    BY <1>2, <2>3
<1> QED
  BY <1>1, <1>3, <1>4

\* The walk steps over a record, or over an abandoned extent, within its segment
LEMMA AdvanceHeaders ==
    ASSUME SInv, HInv, NEW df \in files, Walking(df), NEW next \in Nat, NEW n \in Nat,
           commitOff < next, next <= End(df), commitOff' = next,
           seg' = WithCommitted(seg, df, seg[df].committed + n),
           op' = [op EXCEPT !.cur = df], UNCHANGED <<files, gone>>
    PROVE  HInv'
<1>0. TInv /\ OInv /\ CInv
  BY DEF SInv
<1>1. /\ op.pc = "walk" /\ Walks /\ ~ioErr /\ df \in Segs /\ op \in Op /\ df # 0
      /\ df \in Holding(commitOff) /\ op.cur \in {0, df}
  BY <1>0, SegFacts, WalkFacts, StoreAssumption DEF Walking, Walks, OInv, Unlatched, Segs
<1>2. op'.pc = "walk" /\ op'.cur = df /\ op'.before = op.before /\ Walks'
  BY <1>1 DEF Op, Walks
<1>3. Kept(seg, seg') /\ \A j \in Segs : seg'[j].hcur = seg[j].hcur
  <2>1. seg[df].committed + n \in Nat /\ seg \in [Segs -> SegmentRec]
    BY <1>0, <1>1, SegFacts DEF TInv, TypeOK, SegType
  <2> QED
    BY <1>1, <2>1, CommittedShape
<1>n. /\ seg[df].base \in Nat /\ seg[df].hcur \in Nat /\ seg[df].size \in Nat
      /\ commitOff \in Nat /\ op.before \in Nat /\ seg[df] \in SegmentRec
  BY <1>0, <1>1, SegFacts, StoreAssumption
     DEF TInv, TypeOK, OpType, Op, Offsets, SegType
<1>4. Since'
  BY <1>2, <1>n DEF HInv, Since
<1>5. Outstanding'
  <2>1. End(df)' = End(df) /\ seg'[df].base = seg[df].base /\ seg'[df].hcur = seg[df].hcur
    BY <1>1, <1>3 DEF Kept, End
  <2>2. ASSUME df \notin gone PROVE op.before <= seg[df].base + seg[df].hcur
    <3>1. CASE op.cur = df
      BY <1>1, <2>2, <3>1 DEF HInv, Outstanding
    <3>2. CASE op.cur = 0
      <4>1. NotShort(df)
        BY <1>1, <2>2, <3>2 DEF HInv, HeadersReach
      <4>2. seg[df].base <= commitOff /\ commitOff < seg[df].base + seg[df].size
        BY <1>1 DEF Holding, End
      <4>3. seg[df].hcur >= commitOff - seg[df].base
        BY <1>n, <4>1, <4>2, LoadedBounds DEF NotShort
      <4> QED
        BY <1>n, <4>3 DEF HInv, Since
    <3> QED
      BY <1>1, <3>1, <3>2
  <2> QED
    BY <1>2, <2>1, <2>2 DEF Outstanding
<1>6. HeadersReach'
  <2>1. SUFFICES ASSUME NEW i \in files, i \notin gone, i # df PROVE NotShort(i)'
    BY <1>2 DEF HeadersReach
  <2>2. NotShort(i) /\ i \in Segs
    BY <1>0, <1>1, <2>1, SegFacts DEF HInv, HeadersReach, Segs
  <2>3. seg[i].hcur >= LoadedCursor(seg[i], next)
    BY <1>0, <1>1, <1>n, <2>1, <2>2, ReachElsewhere
  <2>4. LoadedCursor(seg'[i], next) = LoadedCursor(seg[i], next)
    BY <1>3, <2>2, LoadedExtent DEF Kept
  <2> QED
    BY <1>3, <2>2, <2>3, <2>4 DEF NotShort
<1> QED
  BY <1>4, <1>5, <1>6 DEF HInv

\* The walk stops where it stands
LEMMA StopHeaders ==
    ASSUME SInv, HInv, Walks, op' = [op EXCEPT !.pc = "settle"],
           UNCHANGED <<files, gone, seg, commitOff>>
    PROVE  HInv'
<1>1. op'.pc = "settle" /\ op'.cur = op.cur /\ op'.before = op.before
  BY DEF SInv, TInv, TypeOK, OpType, Op
<1> QED
  BY <1>1 DEF HInv, HeadersReach, Outstanding, Since, NotShort, Walks, End

LEMMA WalkHeaders ==
    ASSUME SInv, HInv, WalkRecord \/ WalkAbandoned
    PROVE  HInv'
<1>0. TInv /\ OInv /\ CInv /\ commitOff \in Offsets
  BY DEF SInv, TInv, TypeOK, CursorType
<1>1. CASE WalkRecord
  <2>0. PICK df \in files : \E next \in FrameEnd(df, commitOff) :
          /\ Walking(df) /\ commitOff < next
          /\ \/ /\ op' = [op EXCEPT !.pc = "settle"]
                /\ UNCHANGED <<commitOff, seg>>
             \/ /\ commitOff' = next
                /\ seg' = [seg EXCEPT ![df].committed = @ + 1]
                /\ op' = [op EXCEPT !.cur = df]
    BY <1>1 DEF WalkRecord
  <2>1. PICK next \in FrameEnd(df, commitOff) :
          /\ Walking(df) /\ commitOff < next
          /\ \/ /\ op' = [op EXCEPT !.pc = "settle"]
                /\ UNCHANGED <<commitOff, seg>>
             \/ /\ commitOff' = next
                /\ seg' = [seg EXCEPT ![df].committed = @ + 1]
                /\ op' = [op EXCEPT !.cur = df]
    BY <2>0
  <2>2. UNCHANGED <<files, gone>> /\ Walks
    BY <1>1, <2>1 DEF WalkRecord, Walks, Walking
  <2>3. Frame(commitOff, next)
    BY <1>1, FrameEndFrames DEF WalkRecord
  <2>4. next <= End(df) /\ next \in Nat
    BY <1>0, <2>1, <2>3, FrameInSegment, FrameEndNat DEF Walking
  <2>5. CASE op' = [op EXCEPT !.pc = "settle"] /\ UNCHANGED <<commitOff, seg>>
    BY <2>2, <2>5, StopHeaders
  <2>6. CASE /\ commitOff' = next /\ seg' = [seg EXCEPT ![df].committed = @ + 1]
             /\ op' = [op EXCEPT !.cur = df]
    <3>1. seg' = WithCommitted(seg, df, seg[df].committed + 1)
      BY <2>6 DEF WithCommitted
    <3> QED
      BY <2>1, <2>2, <2>4, <2>6, <3>1, AdvanceHeaders
  <2> QED
    BY <2>1, <2>5, <2>6
<1>2. CASE WalkAbandoned
  <2>1. PICK df \in files, k \in EntryAt(commitOff) :
          /\ Walking(df) /\ reserved[k].corrupt
          /\ \/ op' = [op EXCEPT !.pc = "settle"] /\ UNCHANGED <<commitOff, seg>>
             \/ /\ commitOff' = reserved[k].end
                /\ seg' = [seg EXCEPT ![df].committed =
                                @ + Max2(reserved[k].written - seg[df].committed, 0)]
                /\ op' = [op EXCEPT !.cur = df]
    BY <1>2 DEF WalkAbandoned
  <2>2. UNCHANGED <<files, gone>> /\ Walks
    BY <1>2, <2>1 DEF WalkAbandoned, Walks, Walking
  <2>3. reserved[k].end <= End(df) /\ commitOff < reserved[k].end
    BY <2>1, AbandonedInSegment DEF Walking, EntryAt
  <2>4. reserved[k].end \in Nat /\ reserved[k].written \in Nat
    BY <1>0, EntryType DEF EntryAt
  <2>5. Max2(reserved[k].written - seg[df].committed, 0) \in Nat
    BY <1>0, <2>4, SegFacts DEF Max2
  <2>6. CASE op' = [op EXCEPT !.pc = "settle"] /\ UNCHANGED <<commitOff, seg>>
    BY <2>2, <2>6, StopHeaders
  <2> HIDE DEF Max2
  <2>7. CASE /\ commitOff' = reserved[k].end
             /\ seg' = [seg EXCEPT ![df].committed =
                             @ + Max2(reserved[k].written - seg[df].committed, 0)]
             /\ op' = [op EXCEPT !.cur = df]
    <3>1. seg' = WithCommitted(seg, df, seg[df].committed
                                 + Max2(reserved[k].written - seg[df].committed, 0))
      BY <2>7 DEF WithCommitted
    <3> QED
      BY <2>1, <2>2, <2>3, <2>4, <2>5, <2>7, <3>1, AdvanceHeaders
  <2> QED
    BY <2>1, <2>6, <2>7
<1> QED
  BY <1>1, <1>2

\* A quarantine takes the commit cursor to the segment's end, with the header full
LEMMA QuarantineReach ==
    ASSUME SInv, HInv, NEW df \in Holding(commitOff), commitOff' = End(df),
           seg' = Quarantine(seg, df), UNCHANGED <<files, gone>>,
           Walks => op.cur \in {0, df}, ~Walks' \/ op'.cur = 0, op'.before = op.before
    PROVE  HInv'
<1>0. TInv /\ OInv /\ CInv
  BY DEF SInv
<1>1. /\ df \in files /\ df \in Segs /\ seg \in [Segs -> SegmentRec]
      /\ commitOff \in Nat /\ op.before \in Nat /\ End(df) \in Nat /\ commitOff <= End(df)
  BY <1>0, SegFacts, StoreAssumption
     DEF Holding, TInv, TypeOK, SegType, OpType, Op, Offsets
<1>2. Since' /\ Outstanding'
  BY <1>1 DEF HInv, Since, Outstanding
<1>3. Kept(seg, seg') /\ HeadersKept(seg, seg', df)
  BY <1>1, QuarantineShape
<1>4. HeadersReach'
  <2>1. SUFFICES ASSUME NEW i \in files, i \notin gone PROVE NotShort(i)'
    BY DEF HeadersReach
  <2>2. /\ i \in Segs /\ i # 0 /\ seg[i] \in SegmentRec
        /\ LoadedCursor(seg'[i], End(df)) = LoadedCursor(seg[i], End(df))
    BY <1>0, <1>1, <1>3, <2>1, SegFacts, LoadedExtent DEF Kept, Segs
  <2>3. CASE i = df
    <3>1. seg'[i].hcur = seg[i].size
      BY <1>1, <2>1, <2>3 DEF Quarantine, HeaderFull, SegmentRec
    <3>2. LoadedCursor(seg[i], End(df)) <= seg[i].size /\ seg[i].size \in Nat
          /\ LoadedCursor(seg[i], End(df)) \in Nat
      BY <1>0, <1>1, <2>2, LoadedBounds, SegFacts
    <3> QED
      BY <2>2, <3>1, <3>2 DEF NotShort
  <2>4. CASE i # df
    <3>1. NotShort(i)
      BY <2>1, <2>2, <2>4 DEF HInv, HeadersReach
    <3>2. seg[i].hcur >= LoadedCursor(seg[i], End(df))
      BY <1>0, <1>1, <2>4, <3>1, ReachElsewhere
    <3>3. seg'[i].hcur = seg[i].hcur
      BY <1>3, <2>2, <2>4 DEF HeadersKept
    <3> QED
      BY <2>2, <3>2, <3>3 DEF NotShort
  <2> QED
    BY <2>3, <2>4
<1> QED
  BY <1>2, <1>4 DEF HInv

LEMMA QuarantinedHeaders ==
    ASSUME SInv, HInv, WalkQuarantine \/ QuarantineHead
    PROVE  HInv'
<1>1. CASE WalkQuarantine
  <2>1. PICK df \in files : /\ Walking(df) /\ commitOff' = End(df)
                            /\ seg' = Quarantine(seg, df)
    BY <1>1 DEF WalkQuarantine, Quarantine
  <2>2. op'.cur = 0 /\ op'.before = op.before /\ UNCHANGED <<files, gone>>
    BY <1>1 DEF WalkQuarantine, SInv, TInv, TypeOK, OpType, Op
  <2> QED
    BY <2>1, <2>2, QuarantineReach DEF Walking
<1>2. CASE QuarantineHead
  <2>1. PICK df \in files : /\ df \in Holding(headOff) /\ commitOff = headOff
                            /\ commitOff' = End(df) /\ seg' = Quarantine(seg, df)
                            /\ op.pc = "idle" /\ UNCHANGED <<op, files, gone>>
    BY <1>2 DEF QuarantineHead, Unreadable, Reading, Quarantine
  <2> QED
    BY <2>1, QuarantineReach DEF Walks
<1> QED
  BY <1>1, <1>2

\* The outstanding header is settled: written, it says what the commit cursor says;
\* not written, the commit cursor says what it says
LEMMA SettledHeaders ==
    ASSUME SInv, HInv, WalkLeave \/ Settle
    PROVE  HInv'
<1>0. TInv /\ OInv /\ CInv /\ Walks /\ op \in Op /\ commitOff \in Nat /\ op.before \in Nat
  BY SegFacts, StoreAssumption
     DEF SInv, WalkLeave, Settle, Walks, TInv, TypeOK, OpType, Op, Offsets
<1>1. op'.cur = 0 /\ op'.before = op.before /\ UNCHANGED <<files, gone>>
  BY <1>0 DEF WalkLeave, Settle, Op
<1>2. Outstanding'
  BY <1>1 DEF Outstanding
<1>3. CASE op.cur = 0 /\ UNCHANGED <<seg, commitOff>>
  <2>1. \A i \in files \ gone : NotShort(i)
    BY <1>0, <1>3, SegFacts DEF HInv, HeadersReach, Segs
  <2> QED
    BY <1>1, <1>2, <1>3, <2>1 DEF HInv, HeadersReach, Since, NotShort
<1>c. ASSUME op.cur # 0
      PROVE  /\ op.cur \in files /\ op.cur \in Segs /\ seg[op.cur].base <= commitOff
             /\ commitOff <= End(op.cur) /\ seg[op.cur] \in SegmentRec
             /\ op.cur \notin gone => op.before <= seg[op.cur].base + seg[op.cur].hcur
             /\ seg[op.cur].base \in Nat /\ seg[op.cur].size \in Nat
             /\ seg[op.cur].hcur \in Nat
             /\ End(op.cur) = seg[op.cur].base + seg[op.cur].size
  BY <1>0, <1>c, WalkFacts, SegFacts DEF HInv, Outstanding, TInv, TypeOK, SegType
<1>4. CASE op.cur # 0 /\ Persisted(op.cur)
  <2>1. commitOff' = commitOff /\ Kept(seg, seg') /\ HeadersKept(seg, seg', op.cur)
    BY <1>0, <1>c, <1>4, PersistedShape DEF Persisted, TInv, TypeOK
  <2>2. Since'
    BY <1>1, <2>1 DEF HInv, Since
  <2>3. HeadersReach'
    <3>1. SUFFICES ASSUME NEW i \in files, i \notin gone PROVE NotShort(i)'
      BY <1>1 DEF HeadersReach
    <3>2. i \in Segs /\ LoadedCursor(seg'[i], commitOff) = LoadedCursor(seg[i], commitOff)
      BY <1>0, <2>1, <3>1, SegFacts, LoadedExtent DEF Kept
    <3>3. CASE i # op.cur
      BY <2>1, <3>1, <3>2, <3>3 DEF HInv, HeadersReach, NotShort, HeadersKept
    <3>4. CASE i = op.cur
      <4>1. LoadedCursor(seg[i], commitOff) = commitOff - seg[i].base
        BY <1>0, <1>c, <1>4, <3>4, LoadedBounds
      <4>2. seg'[i].hcur = Min2(commitOff - seg[i].base, seg[i].size)
        BY <1>0, <1>4, <3>1, <3>2, <3>4 DEF Persisted, TInv, TypeOK, SegType, SegmentRec
      <4>3. seg'[i].hcur >= commitOff - seg[i].base
        BY <1>0, <1>c, <1>4, <3>4, <4>2 DEF Min2
      <4> QED
        BY <2>1, <3>2, <4>1, <4>3 DEF NotShort
    <3> QED
      BY <3>3, <3>4
  <2> QED
    BY <1>2, <2>2, <2>3 DEF HInv
<1>5. CASE op.cur # 0 /\ RolledBack(op.cur)
  <2> DEFINE c == seg[op.cur].base + seg[op.cur].hcur
  <2>1. /\ commitOff' = c /\ op.cur \notin gone
        /\ Kept(seg, seg') /\ \A j \in Segs : seg'[j].hcur = seg[j].hcur
    BY <1>0, <1>c, <1>5, RolledBackShape DEF RolledBack, TInv, TypeOK
  <2>2. Since'
    BY <1>1, <1>c, <1>5, <2>1 DEF Since
  <2>3. HeadersReach'
    <3>1. SUFFICES ASSUME NEW i \in files, i \notin gone PROVE NotShort(i)'
      BY <1>1 DEF HeadersReach
    <3>i. i \in Segs /\ i \in Nat /\ op.cur \in Nat /\ seg[i] \in SegmentRec
      BY <1>0, <1>5, <1>c, <3>1, SegFacts DEF Segs, TInv, TypeOK, SegType
    <3>l. c \in Nat /\ LoadedCursor(seg'[i], c) = LoadedCursor(seg[i], c)
      BY <1>5, <1>c, <2>1, <3>i, LoadedExtent DEF Kept
    <3>2. i \in Segs /\ LoadedCursor(seg'[i], c) = LoadedCursor(seg[i], c)
          /\ i \in Nat /\ op.cur \in Nat /\ seg[i] \in SegmentRec /\ c \in Nat
      BY <3>i, <3>l
    <3>n. seg[i].base \in Nat /\ seg[i].size \in Nat /\ seg[i].hcur \in Nat
          /\ End(i) = seg[i].base + seg[i].size
      BY <1>0, <3>2, SegFacts
    <3> HIDE DEF c
    <3>3. seg[i].hcur >= LoadedCursor(seg[i], c)
      <4>1. CASE i = op.cur
        <5>1. seg[i].hcur <= seg[i].size /\ c = seg[i].base + seg[i].hcur
          BY <1>0, <3>2, <4>1, SegFacts DEF c
        <5>2. LoadedCursor(seg[i], c) = c - seg[i].base
          BY <3>2, <3>n, <5>1, LoadedBounds
        <5> QED
          BY <3>n, <5>1, <5>2
      <4>2. CASE i < op.cur
        <5>1. End(i) <= seg[op.cur].base
          BY <1>0, <1>c, <1>5, <4>2 DEF OInv, Layout
        <5>2. seg[i].base + seg[i].size <= commitOff
          BY <1>0, <1>c, <1>5, <3>n, <5>1
        <5>3. LoadedCursor(seg[i], commitOff) = seg[i].size
          BY <1>0, <3>2, <5>2, LoadedBounds
        <5>4. NotShort(i)
          BY <3>1, <3>2, <4>2 DEF HInv, HeadersReach
        <5>5. LoadedCursor(seg[i], c) <= seg[i].size /\ LoadedCursor(seg[i], c) \in Nat
          BY <3>2, LoadedBounds
        <5> QED
          BY <3>n, <5>3, <5>4, <5>5 DEF NotShort
      <4>3. CASE op.cur < i
        <5>1. End(op.cur) <= seg[i].base
          BY <1>0, <1>c, <1>5, <4>3 DEF OInv, Layout
        <5>2. c <= End(op.cur)
          BY <1>0, <1>c, <1>5, SegFacts DEF c
        <5>3. c <= seg[i].base
          BY <1>c, <1>5, <3>2, <3>n, <5>1, <5>2
        <5>4. LoadedCursor(seg[i], c) = 0
          BY <3>2, <5>3, LoadedBounds
        <5> QED
          BY <3>n, <5>4
      <4> QED
        BY <3>2, <4>1, <4>2, <4>3
    <3> QED
      BY <2>1, <3>2, <3>3 DEF NotShort
  <2> QED
    BY <1>2, <2>2, <2>3 DEF HInv
<1> QED
  <2>1. \/ op.cur = 0 /\ UNCHANGED <<seg, commitOff>>
        \/ op.cur # 0 /\ Persisted(op.cur)
        \/ op.cur # 0 /\ RolledBack(op.cur)
    BY DEF WalkLeave, Settle
  <2> QED
    BY <1>3, <1>4, <1>5, <2>1

\* What load recovers, every header reaches
LEMMA CrashHeaders ==
    ASSUME SInv, HInv, Crash
    PROVE  HInv'
<1>0. TInv /\ OInv /\ CInv
  BY DEF SInv
<1>1. /\ op' = [Idle EXCEPT !.pc = "load", !.i = MaxSegs + 1] /\ commitOff' \in Recovered
      /\ UNCHANGED <<files, seg>>
  BY DEF Crash
<1>2. op'.pc = "load" /\ op'.before = 0 /\ commitOff' \in Nat
  BY <1>1, IdleType, StoreAssumption DEF Op, Idle, Recovered, Offsets
<1>3. Since' /\ Outstanding'
  BY <1>2 DEF Since, Outstanding, Walks
<1>4. HeadersReach'
  <2>1. SUFFICES ASSUME NEW i \in files, NEW c \in Recovered, c = commitOff'
                 PROVE  seg[i].hcur >= LoadedCursor(seg[i], c)
    BY <1>1 DEF HeadersReach, NotShort
  <2>2. /\ i \in Segs /\ i \in Nat /\ seg[i] \in SegmentRec /\ c \in Nat
        /\ seg[i].base \in Nat /\ seg[i].size \in Nat /\ seg[i].hcur \in Nat
        /\ End(i) = seg[i].base + seg[i].size
    BY <1>0, <1>2, <2>1, SegFacts DEF Segs, TInv, TypeOK, SegType
  <2>3. CASE ~Short(i)
    <3>1. seg[i].hcur >= seg[i].size
      BY <2>2, <2>3 DEF Short
    <3>2. LoadedCursor(seg[i], c) <= seg[i].size /\ LoadedCursor(seg[i], c) \in Nat
      BY <2>2, LoadedBounds
    <3> QED
      BY <2>2, <3>1, <3>2
  <2>4. CASE Short(i)
    <3>1. PICK f \in files : /\ Short(f) /\ \A j \in files : Short(j) => f <= j
                             /\ c = seg[f].base + seg[f].hcur
      BY <2>1, <2>4 DEF Recovered
    <3>2. /\ f \in Segs /\ f \in Nat /\ f <= i /\ c < End(f) /\ End(f) \in Nat
      BY <1>0, <2>4, <3>1, SegFacts, StoreAssumption DEF Short, Segs, Offsets
    <3>3. CASE f = i
      <4>1. seg[i].base <= c /\ c <= seg[i].base + seg[i].size
        BY <2>2, <3>1, <3>2, <3>3
      <4>2. LoadedCursor(seg[i], c) = c - seg[i].base
        BY <2>2, <4>1, LoadedBounds
      <4> QED
        BY <2>2, <3>1, <3>3, <4>2
    <3>4. CASE f < i
      <4>1. End(f) <= seg[i].base
        BY <3>4 DEF SInv, OInv, Layout
      <4>2. LoadedCursor(seg[i], c) = 0
        BY <2>2, <3>2, <4>1, LoadedBounds
      <4> QED
        BY <2>2, <4>2
    <3> QED
      BY <2>2, <3>2, <3>3, <3>4
  <2> QED
    BY <2>3, <2>4
<1> QED
  BY <1>3, <1>4 DEF HInv

LEMMA NextHeaders ==
    ASSUME UnlinksSucceed, SInv, HInv, [Next]_vars
    PROVE  HInv'
<1>1. SInv'
  BY NextRecords
<1> QED
  BY <1>1, OtherHeaders, WalkHeaders, QuarantinedHeaders, SettledHeaders, CrashHeaders

-----------------------------------------------------------------------------
(* The headers recover the commit cursor *)

LEMMA LeastExists ==
    ASSUME NEW S, S # {}, S \subseteq Nat
    PROVE  \E m \in S : \A j \in S : m <= j
<1>1. PICK m \in S : \A u \in S : ~(<<u, m>> \in OpToRel(<, Nat))
  BY WFMin, NatLessThanWellFounded
<1>2. ASSUME NEW j \in S PROVE m <= j
  <2>1. j \in Nat /\ m \in Nat
    OBVIOUS
  <2>2. ~(j < m)
    BY <1>1, <2>1 DEF OpToRel
  <2> QED
    BY <2>1, <2>2
<1> QED
  BY <1>2

\* Where every header reaches the commit cursor and none is ahead of it, the first
\* segment that is not fully committed is the one the commit cursor stands in
LEMMA Agree ==
    ASSUME TInv, OInv, CInv, \A i \in files : NotShort(i) /\ NotAhead(i)
    PROVE  Recovered = {commitOff}
<1>1. /\ commitOff \in Nat /\ commitOff \in Offsets /\ writeOff \in Nat
      /\ commitOff <= writeOff
  BY SegFacts DEF TInv, TypeOK, CursorType, OInv, CursorOrder
<1>2. \A i \in files :
        /\ i \in Nat /\ i \in Segs /\ seg[i] \in SegmentRec
        /\ seg[i].base \in Nat /\ seg[i].size \in Nat /\ seg[i].hcur \in Nat
        /\ End(i) = seg[i].base + seg[i].size /\ End(i) <= writeOff
  BY SegFacts DEF Segs, TInv, TypeOK, SegType
<1>3. ASSUME NEW j \in Holding(commitOff) PROVE j \in files /\ Short(j)
  <2>1. j \in files /\ seg[j].base <= commitOff /\ commitOff < End(j)
    BY DEF Holding
  <2>2. seg[j].hcur = 0 \/ seg[j].base + seg[j].hcur <= commitOff
    BY <2>1 DEF NotAhead
  <2> QED
    BY <1>1, <1>2, <2>1, <2>2 DEF Short
<1>4. commitOff < writeOff => \E j \in files : j \in Holding(commitOff) /\ Short(j)
  <2>1. ASSUME commitOff < writeOff PROVE Holding(commitOff) # {}
    BY <1>1, <2>1, Addressed DEF OInv, CInv
  <2> QED
    BY <1>3, <2>1
<1>5. ASSUME NEW i \in files, Short(i), \A j \in files : Short(j) => i <= j
      PROVE  seg[i].base + seg[i].hcur = commitOff
  <2>1. ~(seg[i].base + seg[i].size <= commitOff)
    BY <1>1, <1>2, <1>5, LoadedBounds DEF NotShort, Short
  <2>2. CASE seg[i].base <= commitOff
    <3>1. LoadedCursor(seg[i], commitOff) = commitOff - seg[i].base
      BY <1>1, <1>2, <2>1, <2>2, LoadedBounds
    <3>2. seg[i].hcur >= commitOff - seg[i].base
      BY <3>1 DEF NotShort
    <3>3. seg[i].hcur = 0 \/ seg[i].base + seg[i].hcur <= commitOff
      BY DEF NotAhead
    <3> QED
      BY <1>1, <1>2, <2>2, <3>2, <3>3
  <2>3. CASE commitOff < seg[i].base
    <3>1. commitOff < writeOff
      BY <1>1, <1>2, <2>3
    <3>2. PICK j \in files : j \in Holding(commitOff) /\ Short(j)
      BY <1>4, <3>1
    <3>3. seg[j].base <= commitOff /\ commitOff < End(j) /\ i <= j
      BY <1>5, <3>2 DEF Holding
    <3>4. i # j
      BY <1>1, <1>2, <2>3, <3>3
    <3>5. End(i) <= seg[j].base
      BY <1>2, <3>3, <3>4 DEF OInv, Layout
    <3> QED
      BY <1>1, <1>2, <2>3, <3>3, <3>5
  <2> QED
    BY <1>1, <1>2, <2>2, <2>3
<1>6. ASSUME NEW c \in Recovered PROVE c = commitOff
  BY <1>1, <1>4, <1>5 DEF Recovered
<1>7. commitOff \in Recovered
  <2>1. CASE \A i \in files : ~Short(i)
    BY <1>1, <1>4, <2>1 DEF Recovered
  <2>2. CASE \E i \in files : Short(i)
    <3>1. PICK i \in {j \in files : Short(j)} : \A j \in {k \in files : Short(k)} : i <= j
      BY <1>2, <2>2, LeastExists
    <3>2. seg[i].base + seg[i].hcur = commitOff
      BY <1>5, <3>1
    <3> QED
      BY <1>1, <3>1, <3>2 DEF Recovered
  <2> QED
    BY <2>1, <2>2
<1> QED
  BY <1>6, <1>7

LEMMA HeadersAgreeHere ==
    ASSUME SInv, HInv
    PROVE  HeadersAgree
<1>1. SUFFICES ASSUME op.pc = "idle", ~ioErr, gone \intersect files = {}
               PROVE  Recovered = {commitOff}
  BY DEF HeadersAgree
<1>2. \A i \in files : NotShort(i)
  BY <1>1 DEF HInv, HeadersReach, Walks
<1>3. \A i \in files : NotAhead(i)
  BY <1>1 DEF SInv, OInv, HeadersBehind
<1> QED
  BY <1>2, <1>3, Agree DEF SInv

\* The commit cursor falls back, in a rollback or a restart, only to the header the
\* commit in progress has not written yet
LEMMA FallsBackTo ==
    ASSUME SInv, HInv, [Next]_vars, commitOff' < commitOff
    PROVE  /\ Walks /\ op.cur # 0 /\ op.cur \in files \ gone
           /\ commitOff' = seg[op.cur].base + seg[op.cur].hcur
           /\ files' = files
           /\ \A j \in Segs : seg'[j].base = seg[j].base /\ seg'[j].hcur = seg[j].hcur
<1>0. /\ TInv /\ OInv /\ CInv /\ commitOff \in Nat /\ op.before \in Nat
      /\ op.before <= commitOff
  BY SegFacts, StoreAssumption DEF SInv, TInv, TypeOK, OpType, Op, Offsets, HInv, Since
<1>1. CASE WalkLeave \/ Settle
  <2>1. Walks /\ (UNCHANGED commitOff \/ (op.cur # 0 /\ RolledBack(op.cur)))
    BY <1>1 DEF WalkLeave, Settle, Persisted, Walks
  <2>2. op.cur # 0 /\ RolledBack(op.cur)
    BY <1>0, <2>1
  <2>3. op.cur \in files /\ op.cur \in Segs
    BY <1>0, <2>1, <2>2, WalkFacts
  <2>4. Kept(seg, seg') /\ \A j \in Segs : seg'[j].hcur = seg[j].hcur
    BY <1>0, <2>2, <2>3, RolledBackShape DEF TInv, TypeOK
  <2> QED
    BY <1>1, <2>1, <2>2, <2>3, <2>4 DEF RolledBack, Kept, WalkLeave, Settle
<1>2. CASE Crash
  <2>1. commitOff' \in Recovered /\ gone \intersect files = {}
    BY <1>2 DEF Crash
  <2>2. commitOff' # writeOff
    BY <1>0, SegFacts DEF OInv, CursorOrder
  <2>3. PICK i \in files : Short(i) /\ commitOff' = seg[i].base + seg[i].hcur
    BY <2>1, <2>2 DEF Recovered
  <2>4. /\ i \in Segs /\ seg[i] \in SegmentRec /\ seg[i].base \in Nat
        /\ seg[i].size \in Nat /\ seg[i].hcur \in Nat
    BY <1>0, SegFacts DEF TInv, TypeOK, SegType
  <2>5. ~NotShort(i)
    <3>1. SUFFICES ASSUME NotShort(i) PROVE FALSE
      OBVIOUS
    <3>2. seg[i].base < commitOff
      BY <1>0, <2>3, <2>4
    <3>3. ~(seg[i].base + seg[i].size <= commitOff)
      BY <1>0, <2>3, <2>4, <3>1, LoadedBounds DEF NotShort, Short
    <3>4. LoadedCursor(seg[i], commitOff) = commitOff - seg[i].base
      BY <1>0, <2>4, <3>2, <3>3, LoadedBounds
    <3> QED
      BY <1>0, <2>3, <2>4, <3>1, <3>4 DEF NotShort
  <2>6. Walks /\ i = op.cur /\ op.cur # 0
    BY <2>1, <2>3, <2>4, <2>5 DEF HInv, HeadersReach, Segs
  <2> QED
    BY <1>2, <2>1, <2>3, <2>6 DEF Crash
<1>3. CASE WalkRecord \/ WalkAbandoned \/ WalkQuarantine \/ QuarantineHead
  <2>1. ~(commitOff <= commitOff')
    <3>1. commitOff' \in Nat
      <4>1. TInv'
        BY <1>0, NextTypes
      <4> QED
        BY <4>1, StoreAssumption DEF TInv, TypeOK, CursorType, Offsets
    <3> QED
      BY <1>0, <3>1
  <2>2. CASE WalkQuarantine \/ QuarantineHead
    <3>1. PICK df \in files : df \in Holding(commitOff) /\ commitOff' = End(df)
      BY <2>2 DEF WalkQuarantine, Walking, QuarantineHead, Unreadable, Reading
    <3> QED
      BY <1>0, <2>1, <3>1, SegFacts DEF Holding
  <2>3. CASE WalkRecord
    BY <1>0, <2>1, <2>3, FrameEndNat DEF WalkRecord
  <2>4. CASE WalkAbandoned
    <3>1. \/ UNCHANGED commitOff
          \/ \E k \in EntryAt(commitOff) : commitOff' = reserved[k].end
      BY <2>4 DEF WalkAbandoned
    <3>2. \A k \in EntryAt(commitOff) : reserved[k].end \in Nat /\ commitOff < reserved[k].end
      BY <1>0, EntryType DEF EntryAt
    <3> QED
      BY <1>0, <2>1, <3>1, <3>2
  <2> QED
    BY <1>3, <2>2, <2>3, <2>4
<1>4. CASE UNCHANGED commitOff
  BY <1>0, <1>4
<1> QED
  BY <1>0, <1>1, <1>2, <1>3, <1>4, OtherSteps

LEMMA FallsBack ==
    ASSUME SInv, HInv, [Next]_vars, commitOff' < commitOff
    PROVE  op.pc # "idle" /\ op.before <= commitOff'
  BY FallsBackTo DEF HInv, Outstanding, Walks

LEMMA InitHeaders == Init => HInv
<1> SUFFICES ASSUME Init PROVE HInv
  OBVIOUS
<1>1. op.pc = "idle" /\ op.before = 0 /\ ~Walks
  BY Begun DEF Init, Idle, Walks
<1>2. TInv
  BY InitTypes
<1>3. ASSUME NEW i \in files PROVE NotShort(i)
  <2>1. i \in Segs /\ seg[i] = Fresh(0, SegCap) /\ commitOff = 0 /\ seg[i] \in SegmentRec
    BY <1>2, SegFacts DEF Init, TInv, TypeOK, SegType
  <2>2. seg[i].hcur = 0 /\ seg[i].base = 0
    BY <2>1 DEF Fresh
  <2>3. LoadedCursor(seg[i], 0) = 0
    BY <2>1, <2>2, LoadedBounds
  <2> QED
    BY <2>1, <2>2, <2>3 DEF NotShort
<1> QED
  BY <1>1, <1>3 DEF Init, HInv, HeadersReach, Outstanding, Since

\* As long as unlinks succeed, the headers of an idle store that has not latched
\* recover exactly its commit cursor: a restart neither replays what a nil Commit
\* retired nor retires what it did not (persistCommit, load).
THEOREM ARestartFindsTheCursor == UnlinksSucceed => (Spec => []HeadersAgree)
<1> SUFFICES ASSUME UnlinksSucceed PROVE Spec => []HeadersAgree
  OBVIOUS
<1> DEFINE Inv == SInv /\ HInv
<1>1. Init => Inv
  BY InitRecords, InitHeaders
<1>2. Inv /\ [Next]_vars => Inv'
  BY NextRecords, NextHeaders
<1>3. Inv => HeadersAgree
  BY HeadersAgreeHere
<1> HIDE DEF Inv
<1> QED
  BY <1>1, <1>2, <1>3, PTL DEF Spec

\* As long as unlinks succeed, a failed header write or a crash in the middle of a
\* commit takes the commit cursor back no further than where that call found it,
\* latched store or not (persistCommit's rollback, load).
THEOREM RetirementIsNeverTakenBack == UnlinksSucceed => (Spec => NoUncommit)
<1> SUFFICES ASSUME UnlinksSucceed PROVE Spec => NoUncommit
  OBVIOUS
<1> DEFINE Inv == SInv /\ HInv
           A == commitOff' < commitOff => op.pc # "idle" /\ op.before <= commitOff'
<1>1. Init => Inv
  BY InitRecords, InitHeaders
<1>2. Inv /\ [Next]_vars => Inv'
  BY NextRecords, NextHeaders
<1>3. Inv /\ [Next]_vars => [A]_vars
  BY FallsBack
<1> HIDE DEF Inv
<1> QED
  BY <1>1, <1>2, <1>3, PTL DEF Spec, NoUncommit

-----------------------------------------------------------------------------
(* Nothing is retired without authority *)

\* The offsets a consumer asked to retire or that are lost
Safe == authorised \union lostSet \union quarantined

\* Between commits everything behind the commit cursor is
RetiredSafe == ~Walks => 0 .. commitOff - 1 \subseteq Safe

\* A commit in progress does not pass its target, and what one started through the
\* ledger heads for is
TargetSafe ==
    Walks => commitOff <= op.off /\ (op.led => 0 .. op.off - 1 \subseteq Safe)

RunSafe == op.pc = "run" => 0 .. op.at - 1 \subseteq Safe

AckedSafe ==
    \A k \in 1 .. Len(reserved) :
        reserved[k].acked => Extent(reserved[k]) \subseteq authorised \union lostSet

\* A header ahead of the commit cursor quarantines
HeadersSafe ==
    \A i \in files : \A p \in Nat :
        seg[i].base <= p /\ p < seg[i].base + seg[i].hcur =>
            p < commitOff \/ p \in lostSet \union quarantined

AInv == RetiredSafe /\ TargetSafe /\ RunSafe /\ AckedSafe /\ HeadersSafe

LEMMA AuthorisedHere ==
    ASSUME SInv, AInv
    PROVE  AuthorisedRetirement
<1>1. CASE ~Walks
  BY <1>1 DEF AInv, RetiredSafe, Safe, AuthorisedRetirement, Authority
<1>2. CASE Walks
  <2>1. commitOff \in Nat /\ op.off \in Nat /\ commitOff <= op.off
    BY <1>2, SegFacts, StoreAssumption
       DEF AInv, TargetSafe, SInv, TInv, TypeOK, OpType, Op, Offsets
  <2>2. 0 .. commitOff - 1 \subseteq 0 .. op.off - 1
    BY <2>1
  <2>3. CASE op.led
    BY <1>2, <2>2, <2>3 DEF AInv, TargetSafe, Safe, AuthorisedRetirement, Authority
  <2>4. CASE ~op.led
    BY <2>2, <2>4 DEF AuthorisedRetirement, Authority
  <2> QED
    BY <2>3, <2>4
<1> QED
  BY <1>1, <1>2

\* Only a Rewind and a restart take authority back
LEMMA HistoryGrows ==
    ASSUME CInv, [Next]_vars, ~Rewind, ~Crash
    PROVE  /\ authorised \subseteq authorised' /\ lostSet \subseteq lostSet'
           /\ quarantined \subseteq quarantined'
<1>1. CASE \E n \in 1 .. MaxLen : Add(n)
  BY <1>1 DEF Add, history
<1>2. CASE Reserve \/ Take \/ Skip \/ Requeue \/ Unread
  BY <1>2 DEF Reserve, Take, Skip, Requeue, Unread, TakeHead, history
<1>3. CASE ReadDamage
  BY <1>3 DEF ReadDamage, PayReport, DropRecord, QuarantineHead, QuarantineLatched,
     DeferDamage, StartForce, history
<1>4. CASE Retire
  BY <1>4 DEF Retire, Ack, AckBatch, Commit, history
<1>5. CASE AppendStep
  BY <1>5 DEF AppendStep, CreateRefused, WriteFailed, WriteLatched, Write, Create, history
<1>6. CASE DropStep \/ RunStep \/ CommitEnds \/ Settle
  BY <1>6 DEF DropStep, DropSegment, DropStuck, DropDone, RunStep, CommitEnds, Settle,
              history
<1>7. CASE WalkStep
  BY <1>7 DEF WalkStep, WalkOver, WalkLeave, WalkAbandoned, WalkUnreadable, WalkRecord,
     WalkStopsAtDamage, WalkQuarantine, WalkQuarantineFailed, history
<1>8. CASE ForceStep \/ ForceFailed \/ ForceLatched \/ ForceDone
  BY <1>8 DEF CInv, ForceStep, ForceFailed, ForceLatched, ForceDone
<1>9. CASE LoadStep \/ LoadDone
  BY <1>9 DEF LoadStep, LoadDone, history
<1>10. CASE Environment
  BY <1>10 DEF Environment, FailSync, Rot, Vanish, history
<1>11. CASE UNCHANGED vars
  BY <1>11 DEF vars, history
<1> QED
  BY <1>1, <1>2, <1>3, <1>4, <1>5, <1>6, <1>7, <1>8, <1>9, <1>10, <1>11
     DEF Next, OpStep, Consume

\* What is lost stays lost
LEMMA LossGrows ==
    ASSUME CInv, [Next]_vars
    PROVE  lostSet \union quarantined \subseteq lostSet' \union quarantined'
<1>1. CASE Rewind \/ Crash
  BY <1>1 DEF Rewind, Crash
<1> QED
  BY <1>1, HistoryGrows

LEMMA NextHeadersSafe ==
    ASSUME SInv, HInv, AInv, [Next]_vars
    PROVE  HeadersSafe'
<1>0. /\ TInv /\ OInv /\ CInv /\ commitOff \in Nat /\ TInv' /\ commitOff' \in Nat
      /\ lostSet \union quarantined \subseteq lostSet' \union quarantined'
  <2>1. TInv /\ OInv /\ CInv /\ TInv'
    BY NextTypes DEF SInv
  <2> QED
    BY <2>1, SegFacts, LossGrows, StoreAssumption DEF TInv, TypeOK, CursorType, Offsets
<1>1. SUFFICES ASSUME NEW i \in files', NEW p \in Nat, seg'[i].base <= p,
                      p < seg'[i].base + seg'[i].hcur
               PROVE  p < commitOff' \/ p \in lostSet' \union quarantined'
  BY DEF HeadersSafe
<1>2. CASE commitOff' < commitOff
  <2>1. /\ Walks /\ op.cur # 0 /\ op.cur \in files
        /\ commitOff' = seg[op.cur].base + seg[op.cur].hcur /\ files' = files
        /\ \A j \in Segs : seg'[j].base = seg[j].base /\ seg'[j].hcur = seg[j].hcur
    BY <1>2, FallsBackTo
  <2>2. /\ i \in files /\ i \in Segs /\ i \in Nat /\ op.cur \in Segs /\ op.cur \in Nat
    BY <1>0, <2>1, SegFacts DEF Segs
  <2>3. /\ seg[i].base \in Nat /\ seg[i].hcur \in Nat /\ seg[i].size \in Nat
        /\ seg[i].hcur <= seg[i].size /\ End(i) = seg[i].base + seg[i].size
        /\ seg[op.cur].base \in Nat /\ seg[op.cur].hcur \in Nat /\ End(op.cur) \in Nat
    BY <1>0, <2>2, SegFacts, StoreAssumption DEF Offsets
  <2>4. seg[i].base <= p /\ p < seg[i].base + seg[i].hcur
    BY <1>1, <2>1, <2>2
  <2>5. p < commitOff \/ p \in lostSet \union quarantined
    BY <2>2, <2>4 DEF AInv, HeadersSafe
  <2>6. CASE i < op.cur
    <3>1. End(i) <= seg[op.cur].base
      BY <1>0, <2>1, <2>2, <2>6 DEF OInv, Layout
    <3> QED
      BY <1>0, <2>1, <2>3, <2>4, <3>1
  <2>7. CASE i = op.cur
    BY <2>1, <2>4, <2>7
  <2>8. CASE op.cur < i
    <3>1. End(op.cur) <= seg[i].base /\ commitOff <= End(op.cur)
      BY <1>0, <2>1, <2>2, <2>8 DEF OInv, Layout, HInv, Outstanding
    <3>2. ~(p < commitOff)
      BY <1>0, <2>3, <2>4, <3>1
    <3> QED
      BY <1>0, <2>5, <3>2
  <2> QED
    BY <2>2, <2>6, <2>7, <2>8
<1>3. CASE commitOff <= commitOff'
  <2>1. CASE seg'[i].hcur = 0
    <3>1. i \in Segs /\ seg'[i].base \in Nat
      BY <1>0, StoreAssumption DEF TInv, TypeOK, DiskType, SegType, SegmentRec, Offsets
    <3> QED
      BY <1>1, <2>1, <3>1
  <2>2. CASE i \in files /\ seg'[i].base = seg[i].base /\ HeaderStep(i)
    <3>1. /\ i \in Segs /\ seg[i].base \in Nat /\ seg[i].hcur \in Nat /\ seg[i].size \in Nat
          /\ End(i) = seg[i].base + seg[i].size /\ seg[i].base <= p
      BY <1>0, <1>1, <2>2, SegFacts
    <3>2. CASE seg'[i].hcur = seg[i].hcur
      <4>1. p < commitOff \/ p \in lostSet \union quarantined
        BY <1>1, <2>2, <3>1, <3>2 DEF AInv, HeadersSafe
      <4> QED
        BY <1>0, <1>3, <4>1
    <3>3. CASE Walks /\ i = op.cur /\ seg'[i].hcur = Min2(commitOff - seg[i].base, seg[i].size)
      <4>1. seg[i].base <= commitOff
        BY <1>0, <3>1, <3>3, WalkFacts DEF Segs
      <4>2. p < commitOff
        BY <1>0, <1>1, <2>2, <3>1, <3>3, <4>1 DEF Min2
      <4> QED
        BY <1>0, <1>3, <4>2
    <3>4. CASE /\ seg'[i].hcur = seg[i].size
               /\ \A q \in seg[i].base .. End(i) - 1 : q < commitOff' \/ q \in quarantined'
      <4>1. p \in seg[i].base .. End(i) - 1
        BY <1>1, <2>2, <3>1, <3>4
      <4> QED
        BY <3>4, <4>1
    <3>5. CASE seg'[i].hcur = LoadedCursor(seg[i], commitOff)
      <4>1. /\ LoadedCursor(seg[i], commitOff) \in Nat
            /\ \/ LoadedCursor(seg[i], commitOff) = 0
               \/ seg[i].base + LoadedCursor(seg[i], commitOff) <= commitOff
        BY <1>0, <3>1, LoadedFacts
      <4>2. p < commitOff
        BY <1>0, <1>1, <2>2, <3>1, <3>5, <4>1
      <4> QED
        BY <1>0, <1>3, <4>2
    <3> QED
      BY <2>2, <3>2, <3>3, <3>4, <3>5 DEF HeaderStep
  <2> QED
    BY <1>0, <2>1, <2>2, BasesStay
<1> QED
  BY <1>0, <1>2, <1>3

LEMMA NextAckedSafe ==
    ASSUME SInv, AInv, [Next]_vars
    PROVE  AckedSafe'
<1>1. SUFFICES ASSUME NEW k \in 1 .. Len(reserved'), reserved'[k].acked
               PROVE  Extent(reserved'[k]) \subseteq authorised' \union lostSet'
  BY DEF AckedSafe, Extent
<1>2. CASE Rewind \/ Crash
  BY <1>1, <1>2 DEF Rewind, Crash
<1>3. CASE ~Rewind /\ ~Crash
  <2>1. authorised \subseteq authorised' /\ lostSet \subseteq lostSet'
    BY <1>3, HistoryGrows DEF SInv
  <2>2. CASE \E j \in 1 .. Len(reserved) : Carried(reserved'[k], reserved[j])
    <3>1. PICK j \in 1 .. Len(reserved) : Carried(reserved'[k], reserved[j])
      BY <2>2
    <3>2. Extent(reserved'[k]) = Extent(reserved[j])
      BY <3>1 DEF Carried, Extent
    <3>3. reserved[j].acked \/ Extent(reserved[j]) \subseteq authorised'
      BY <1>1, <3>1 DEF Carried
    <3>4. reserved[j].acked => Extent(reserved[j]) \subseteq authorised \union lostSet
      BY DEF AInv, AckedSafe
    <3> QED
      BY <2>1, <3>2, <3>3, <3>4
  <2>3. CASE Entered(reserved'[k])
    BY <1>1, <2>3 DEF Entered
  <2> QED
    BY <2>2, <2>3, EntriesStep DEF SInv, RInv
<1> QED
  BY <1>2, <1>3

\* How a walk begins and goes on
LEMMA WalkBegins ==
    ASSUME TInv, CInv, [Next]_vars, Walks'
    PROVE  \/ Walks /\ op'.off = op.off /\ op'.led = op.led /\ (WalkStep \/ UNCHANGED vars)
           \/ RunStep /\ ~InRun(op.i + 1, op.at) /\ ~(op.at <= commitOff)
              /\ StartWalk(op.at, op.durable, TRUE)
           \/ Take /\ StartWalk(HeadNext, TRUE, FALSE)
           \/ \E off \in Offsets : Commit(off)
<1>0. op \in Op /\ Idle \in Op /\ Idle.pc = "idle" /\ op'.pc \in {"walk", "settle"}
  BY IdleType DEF TInv, TypeOK, OpType, Idle, Walks
<1>1. CASE (\E n \in 1 .. MaxLen : Add(n)) \/ Requeue
  BY <1>0, <1>1 DEF Add, Requeue, StartAppend, Op
<1>3. CASE AppendStep
  BY <1>0, <1>3, Begun DEF AppendStep, CreateRefused, WriteFailed, WriteLatched, Write,
     AppendFailed, RetireFrame, Create, Op
<1>4. CASE DropStep
  BY <1>0, <1>4, Begun DEF DropStep, DropSegment, DropStuck, DropDone, FinishCommit, Op
<1>5. CASE RunStep
  BY <1>0, <1>5, Begun DEF RunStep, Op
<1>6. CASE Settle \/ CommitEnds
  BY <1>0, <1>6, Begun DEF Settle, CommitEnds, FinishCommit, Op
<1>7. CASE WalkStep
  BY <1>0, <1>7 DEF WalkStep, WalkOver, WalkLeave, WalkAbandoned, WalkUnreadable,
     WalkRecord, WalkStopsAtDamage, WalkQuarantine, WalkQuarantineFailed, Walking, Op,
     Walks
<1>8. CASE ForceStep \/ ForceFailed \/ ForceLatched \/ ForceDone \/ LoadStep \/ LoadDone
  BY <1>0, <1>8, Begun DEF CInv, ForceStep, ForceFailed, ForceLatched, ForceDone,
                           LoadStep,
     LoadDone, Op
<1>9. CASE Take
  BY <1>0, <1>9 DEF Take
<1>10. CASE Consume /\ ~Requeue /\ ~Take
  BY <1>0, <1>10, Begun DEF Consume, ReadDamage, Reserve, Skip, Unread, PayReport,
     DropRecord, QuarantineHead, QuarantineLatched, DeferDamage, StartForce, TakeHead,
     Readable, Unreadable, Reading, RetireFrame, Op
<1>11. CASE Retire \/ Rewind
  BY <1>0, <1>11, Begun DEF Retire, Ack, AckBatch, Rewind
<1>12. CASE Environment
  BY <1>0, <1>12, Begun DEF Environment, Crash, FailSync, Rot, Vanish, Op
<1>13. CASE UNCHANGED vars
  BY <1>0, <1>13 DEF vars, Walks
<1> QED
  BY <1>1, <1>3, <1>4, <1>5, <1>6, <1>7, <1>8, <1>9, <1>10, <1>11, <1>12, <1>13
     DEF Next, OpStep

LEMMA StartWalkTarget ==
    ASSUME TInv, NEW off \in Nat, NEW d, NEW l \in BOOLEAN, StartWalk(off, d, l)
    PROVE  op'.off = Min2(off, writeOff) /\ (op'.led = l) /\ op'.before = commitOff
  BY IdleType DEF StartWalk, Op

\* The walk does not pass its target
LEMMA WalkWithinTarget ==
    ASSUME SInv, TargetSafe, WalkStep
    PROVE  commitOff' <= op.off
<1>0. /\ TInv /\ OInv /\ Walks /\ commitOff <= op.off
      /\ commitOff \in Nat /\ op.off \in Nat
  <2>1. TInv /\ OInv /\ Walks
    BY DEF SInv, WalkStep, WalkOver, WalkLeave, WalkAbandoned, WalkUnreadable, WalkRecord,
       WalkStopsAtDamage, WalkQuarantine, WalkQuarantineFailed, Walking, Walks
  <2> QED
    BY <2>1, SegFacts, WalkFacts DEF TargetSafe
<1>1. CASE UNCHANGED commitOff
  BY <1>0, <1>1
<1>2. CASE WalkLeave
  <2>1. UNCHANGED commitOff \/ (op.cur # 0 /\ RolledBack(op.cur))
    BY <1>2 DEF WalkLeave, Persisted
  <2>2. CASE op.cur # 0 /\ RolledBack(op.cur)
    BY <1>0, <2>2, WalkFacts DEF RolledBack
  <2> QED
    BY <1>1, <2>1, <2>2
<1>3. CASE WalkAbandoned
  <2>1. \/ UNCHANGED commitOff
        \/ \E k \in EntryAt(commitOff) :
              ~(reserved[k].end > op.off) /\ commitOff' = reserved[k].end
    BY <1>3 DEF WalkAbandoned
  <2>2. \A k \in EntryAt(commitOff) : reserved[k].end \in Nat
    BY <1>0, EntryType DEF EntryAt
  <2> QED
    BY <1>0, <1>1, <2>1, <2>2
<1>4. CASE WalkRecord
  BY <1>0, <1>1, <1>4, FrameEndNat DEF WalkRecord
<1>5. CASE WalkQuarantine
  BY <1>5 DEF WalkQuarantine
<1>6. CASE WalkOver \/ WalkUnreadable \/ WalkStopsAtDamage \/ WalkQuarantineFailed
  BY <1>1, <1>6 DEF WalkOver, WalkUnreadable, WalkStopsAtDamage, WalkQuarantineFailed,
     cursors
<1> QED
  BY <1>2, <1>3, <1>4, <1>5, <1>6 DEF WalkStep

LEMMA NextTargetSafe ==
    ASSUME SInv, AInv, [Next]_vars
    PROVE  TargetSafe'
<1>1. SUFFICES ASSUME Walks'
               PROVE  commitOff' <= op'.off /\ (op'.led => 0 .. op'.off - 1 \subseteq Safe')
  BY DEF TargetSafe
<1>0. /\ TInv /\ OInv /\ CInv /\ commitOff \in Nat /\ headOff \in Nat /\ writeOff \in Nat
      /\ commitOff <= headOff /\ headOff <= writeOff /\ op \in Op
  BY SegFacts DEF SInv, OInv, CursorOrder, TInv, TypeOK, OpType
<1>2. ~Rewind /\ ~Crash
  <2>1. CASE Rewind
    BY <1>1, <2>1 DEF Rewind, Walks
  <2>2. CASE Crash
    BY <1>1, <2>2, IdleType DEF Crash, Op, Walks
  <2> QED
    BY <2>1, <2>2
<1>3. Safe \subseteq Safe'
  BY <1>0, <1>2, HistoryGrows DEF Safe
<1>4. CASE Walks /\ op'.off = op.off /\ op'.led = op.led /\ (WalkStep \/ UNCHANGED vars)
  <2>1. commitOff' <= op.off
    BY <1>4, WalkWithinTarget DEF AInv, TargetSafe, vars, cursors
  <2> QED
    BY <1>3, <1>4, <2>1 DEF AInv, TargetSafe
<1>5. CASE /\ RunStep /\ ~(op.at <= commitOff) /\ StartWalk(op.at, op.durable, TRUE)
  <2>1. op.at \in Nat /\ op.pc = "run" /\ UNCHANGED commitOff
    BY <1>0, <1>5, StoreAssumption DEF Op, Offsets, RunStep, cursors
  <2>2. op'.off = Min2(op.at, writeOff)
    BY <1>0, <1>5, <2>1, StartWalkTarget
  <2>3. commitOff' <= op'.off /\ op'.off <= op.at /\ op'.off \in Nat
    BY <1>0, <1>5, <2>1, <2>2 DEF Min2
  <2>4. 0 .. op.at - 1 \subseteq Safe
    BY <2>1 DEF AInv, RunSafe
  <2>5. 0 .. op'.off - 1 \subseteq 0 .. op.at - 1
    BY <2>1, <2>3
  <2> QED
    BY <1>3, <2>3, <2>4, <2>5
<1>6. CASE Take /\ StartWalk(HeadNext, TRUE, FALSE)
  <2>1. PICK df \in files : TakeHead(df)
    BY <1>6 DEF Take
  <2>2. headOff < HeadNext /\ HeadNext \in Offsets /\ UNCHANGED commitOff
    BY <1>0, <2>1, RecordRead DEF TakeHead
  <2>3. HeadNext \in Nat
    BY <2>2, StoreAssumption DEF Offsets
  <2>4. op'.off = Min2(HeadNext, writeOff) /\ op'.led = FALSE
    BY <1>0, <1>6, <2>3, StartWalkTarget
  <2>5. commitOff' <= op'.off
    BY <1>0, <2>2, <2>3, <2>4 DEF Min2
  <2> QED
    BY <2>4, <2>5
<1>7. CASE \E off \in Offsets : Commit(off)
  <2>1. PICK off \in Offsets : Commit(off)
    BY <1>7
  <2>s. StartWalk(off, TRUE, FALSE)
    BY <2>1 DEF Commit
  <2>2. off \in Nat /\ commitOff < off /\ UNCHANGED commitOff
    BY <2>1, StoreAssumption DEF Offsets, Commit, cursors
  <2>3. op'.off = Min2(off, writeOff) /\ op'.led = FALSE
    BY <1>0, <2>s, <2>2, StartWalkTarget
  <2>4. commitOff' <= op'.off
    BY <1>0, <2>2, <2>3 DEF Min2
  <2> QED
    BY <2>3, <2>4
<1> QED
  BY <1>0, <1>1, <1>4, <1>5, <1>6, <1>7, WalkBegins

\* How a scan of the ledger begins and goes on
LEMMA RunBegins ==
    ASSUME TInv, CInv, [Next]_vars, op'.pc = "run"
    PROVE  \/ op.pc = "run" /\ InRun(op.i + 1, op.at) /\ op'.at = reserved[op.i + 1].end
              /\ UNCHANGED history
           \/ op.pc = "run" /\ op'.at = op.at /\ UNCHANGED history
           \/ ~Walks /\ op'.at = commitOff /\ ~Rewind /\ ~Crash
<1>0. op \in Op /\ Idle \in Op /\ Idle.pc = "idle"
  BY IdleType DEF TInv, TypeOK, OpType, Idle
<1>r. ASSUME NEW d, StartRun(d) PROVE op'.at = commitOff \/ op'.pc = "idle"
  <2>1. CASE ioErr
    BY <1>0, <1>r, <2>1 DEF StartRun
  <2>2. CASE ~ioErr
    BY <1>0, <1>r, <2>2 DEF StartRun, Op
  <2> QED
    BY <2>1, <2>2
<1>1. CASE (\E n \in 1 .. MaxLen : Add(n)) \/ Requeue
  BY <1>0, <1>1 DEF Add, Requeue, StartAppend, Op
<1>c. ~Crash /\ ~Rewind
  BY <1>0 DEF Crash, Rewind, Op
<1>3. CASE AppendStep
  BY <1>0, <1>c, <1>r, <1>3 DEF AppendStep, CreateRefused, WriteFailed, WriteLatched,
                                Write,
     AppendFailed, RetireFrame, Create, Op, Walks
<1>4. CASE DropStep
  BY <1>0, <1>4, Begun DEF DropStep, DropSegment, DropStuck, DropDone, FinishCommit, Op
<1>5. CASE RunStep
  BY <1>0, <1>5, Begun DEF RunStep, Op
<1>6. CASE Settle \/ CommitEnds
  BY <1>0, <1>6, Begun DEF Settle, CommitEnds, FinishCommit, Op
<1>7. CASE WalkStep
  BY <1>0, <1>7 DEF WalkStep, WalkOver, WalkLeave, WalkAbandoned, WalkUnreadable,
     WalkRecord, WalkStopsAtDamage, WalkQuarantine, WalkQuarantineFailed, Walking, Op,
     Walks
<1>8. CASE ForceStep \/ ForceFailed \/ ForceLatched \/ ForceDone \/ LoadStep \/ LoadDone
  BY <1>0, <1>8, Begun DEF CInv, ForceStep, ForceFailed, ForceLatched, ForceDone,
                           LoadStep,
     LoadDone, Op
<1>10. CASE Consume /\ ~Requeue
  BY <1>0, <1>c, <1>r, <1>10, Begun DEF Consume, ReadDamage, Reserve, Take, Skip, Unread,
     PayReport, DropRecord, QuarantineHead, QuarantineLatched, DeferDamage, StartForce,
     TakeHead, Readable, Unreadable, Reading, RetireFrame, Op, Walks
<1>11. CASE Retire
  BY <1>0, <1>c, <1>r, <1>11, Begun DEF Retire, Ack, AckBatch, Commit, Walks
<1>12. CASE Environment
  BY <1>0, <1>c, <1>12 DEF Environment, FailSync, Rot, Vanish, Op
<1>13. CASE UNCHANGED vars
  BY <1>0, <1>13 DEF vars
<1> QED
  BY <1>1, <1>c, <1>3, <1>4, <1>5, <1>6, <1>7, <1>8, <1>10, <1>11, <1>12, <1>13
     DEF Next, OpStep

LEMMA NextRunSafe ==
    ASSUME SInv, AInv, [Next]_vars
    PROVE  RunSafe'
<1>1. SUFFICES ASSUME op'.pc = "run" PROVE 0 .. op'.at - 1 \subseteq Safe'
  BY DEF RunSafe
<1>0. TInv /\ CInv
  BY DEF SInv
<1>2. CASE op.pc = "run" /\ InRun(op.i + 1, op.at) /\ op'.at = reserved[op.i + 1].end
           /\ UNCHANGED history
  <2> DEFINE k == op.i + 1
  <2>1. k \in 1 .. Len(reserved) /\ reserved[k].acked /\ reserved[k].start = op.at
    BY <1>2 DEF InRun
  <2>2. reserved[k].start \in Nat /\ reserved[k].end \in Nat
    BY <1>0, <2>1, EntryType
  <2>3. Extent(reserved[k]) \subseteq Safe
    BY <2>1 DEF AInv, AckedSafe, Safe
  <2>4. 0 .. op.at - 1 \subseteq Safe
    BY <1>2 DEF AInv, RunSafe
  <2> HIDE DEF k
  <2>5. 0 .. reserved[k].end - 1 \subseteq Safe
    BY <2>1, <2>2, <2>3, <2>4 DEF Extent
  <2>6. op'.at = reserved[k].end
    BY <1>2 DEF k
  <2> QED
    BY <1>2, <2>5, <2>6 DEF Safe, history
<1>3. CASE op.pc = "run" /\ op'.at = op.at /\ UNCHANGED history
  BY <1>3 DEF AInv, RunSafe, Safe, history
<1>4. CASE ~Walks /\ op'.at = commitOff /\ ~Rewind /\ ~Crash
  BY <1>0, <1>4, HistoryGrows DEF AInv, RetiredSafe, Safe
<1> QED
  BY <1>0, <1>1, <1>2, <1>3, <1>4, RunBegins

\* What a restart finds retired, the headers say is
LEMMA CrashSafe ==
    ASSUME SInv, AInv, Crash
    PROVE  0 .. commitOff' - 1 \subseteq Safe'
<1>0. TInv /\ OInv /\ CInv /\ commitOff \in Nat /\ writeOff \in Nat
  BY SegFacts DEF SInv
<1>1. PICK c \in Recovered : /\ commitOff' = c
                             /\ authorised' = Authority \intersect (0 .. c - 1)
                             /\ UNCHANGED <<lostSet, quarantined>>
  BY DEF Crash
<1>2. c \in Nat /\ c \in Offsets
  BY StoreAssumption DEF Recovered, Offsets
<1>3. SUFFICES ASSUME NEW p \in Nat, p < c
               PROVE  p \in Authority \union lostSet \union quarantined
  <2>1. \A p \in 0 .. c - 1 : p \in Nat /\ p < c
    BY <1>2
  <2> QED
    BY <1>1, <1>3, <2>1 DEF Safe
<1>4. CASE p < commitOff
  <2>1. p \in 0 .. commitOff - 1
    BY <1>0, <1>4
  <2> QED
    BY <2>1, AuthorisedHere DEF AuthorisedRetirement
<1>5. CASE commitOff <= p
  <2>1. c <= writeOff
    <3>1. CASE c = writeOff
      BY <1>0, <3>1
    <3>2. CASE \E i \in files : c = seg[i].base + seg[i].hcur
      BY <1>0, <3>2, SegFacts
    <3> QED
      BY <3>1, <3>2 DEF Recovered
  <2>2. Holding(p) # {}
    BY <1>0, <1>2, <1>3, <1>5, <2>1, Addressed DEF OInv, CInv
  <2>3. PICK j \in files : seg[j].base <= p /\ p < End(j)
    BY <2>2 DEF Holding
  <2>4. /\ j \in Segs /\ j \in Nat /\ seg[j].base \in Nat /\ seg[j].size \in Nat
        /\ seg[j].hcur \in Nat /\ End(j) = seg[j].base + seg[j].size
    BY <1>0, <2>3, SegFacts DEF Segs
  <2>5. p < seg[j].base + seg[j].hcur
    <3>1. CASE ~Short(j)
      BY <2>3, <2>4, <3>1 DEF Short
    <3>2. CASE Short(j)
      <4>1. PICK i \in files : /\ Short(i) /\ i <= j /\ c = seg[i].base + seg[i].hcur
        BY <3>2 DEF Recovered
      <4>2. i \in Nat /\ c < End(i) /\ End(i) \in Nat
        BY <1>0, <4>1, SegFacts, StoreAssumption DEF Segs, Short, Offsets
      <4>3. CASE i = j
        BY <1>3, <4>1, <4>3
      <4>4. CASE i < j
        <5>1. End(i) <= seg[j].base
          BY <1>0, <4>1, <4>4 DEF OInv, Layout
        <5> QED
          BY <1>2, <1>3, <2>3, <2>4, <4>2, <5>1
      <4> QED
        BY <2>4, <4>1, <4>2, <4>3, <4>4
    <3> QED
      BY <3>1, <3>2
  <2>6. p < commitOff \/ p \in lostSet \union quarantined
    BY <2>3, <2>5 DEF AInv, HeadersSafe
  <2> QED
    BY <1>0, <1>5, <2>6
<1> QED
  BY <1>0, <1>4, <1>5

LEMMA NextRetiredSafe ==
    ASSUME SInv, AInv, [Next]_vars
    PROVE  RetiredSafe'
<1>1. SUFFICES ASSUME ~Walks' PROVE 0 .. commitOff' - 1 \subseteq Safe'
  BY DEF RetiredSafe
<1>0. TInv /\ OInv /\ CInv /\ op \in Op /\ commitOff \in Nat
  BY SegFacts DEF SInv, TInv, TypeOK, OpType
<1>2. CASE Settle
  <2>1. /\ Walks /\ UNCHANGED <<lostSet, quarantined>>
        /\ authorised' = authorised \union (Authority \intersect (0 .. commitOff' - 1))
    BY <1>2 DEF Settle, Walks
  <2>2. commitOff <= op.off /\ op.off \in Nat
    BY <1>0, <2>1, WalkFacts DEF AInv, TargetSafe
  <2>3. commitOff' <= op.off
    <3>1. UNCHANGED commitOff \/ (op.cur # 0 /\ RolledBack(op.cur))
      BY <1>2 DEF Settle, Persisted
    <3>2. CASE op.cur # 0 /\ RolledBack(op.cur)
      BY <1>0, <2>1, <3>2, WalkFacts DEF RolledBack
    <3> QED
      BY <2>2, <3>1, <3>2
  <2>4. commitOff' \in Nat
    <3>1. TInv'
      BY <1>0, NextTypes
    <3> QED
      BY <3>1, StoreAssumption DEF TInv, TypeOK, CursorType, Offsets
  <2>5. 0 .. commitOff' - 1 \subseteq 0 .. op.off - 1
    <3>1. ASSUME NEW c \in Nat, NEW d \in Nat, c <= d
          PROVE  0 .. c - 1 \subseteq 0 .. d - 1
      BY <3>1
    <3> QED
      BY ONLY <2>2, <2>3, <2>4, <3>1
  <2>6. 0 .. op.off - 1 \subseteq Authority \union lostSet \union quarantined
    BY <2>1 DEF AInv, TargetSafe, Authority, Safe
  <2> QED
    BY <2>1, <2>5, <2>6 DEF Safe
<1>3. CASE WalkLeave \/ WalkRecord \/ WalkAbandoned \/ WalkQuarantine
  BY <1>0, <1>1, <1>3
     DEF WalkLeave, WalkRecord, WalkAbandoned, WalkQuarantine, Walking, Op, Walks
<1>4. CASE Crash
  BY <1>4, CrashSafe
<1>5. CASE QuarantineHead
  <2>1. PICK df \in files :
          /\ commitOff = headOff /\ commitOff' = End(df) /\ op.pc = "idle"
          /\ lostSet' = lostSet \union (headOff .. End(df) - 1)
          /\ authorised' = authorised /\ quarantined \subseteq quarantined'
    BY <1>5 DEF QuarantineHead, Unreadable, Reading
  <2>2. 0 .. commitOff - 1 \subseteq Safe /\ End(df) \in Nat
    BY <1>0, <2>1, SegFacts, StoreAssumption DEF AInv, RetiredSafe, Walks, Offsets
  <2>3. \A p \in 0 .. End(df) - 1 :
          p \in 0 .. commitOff - 1 \/ p \in commitOff .. End(df) - 1
    BY <1>0, <2>2
  <2> QED
    BY <2>1, <2>2, <2>3 DEF Safe
<1>6. CASE Rewind
  BY <1>6 DEF Rewind, AInv, RetiredSafe, Walks, Safe
<1>7. CASE /\ ~WalkLeave /\ ~Settle /\ ~WalkRecord /\ ~WalkAbandoned /\ ~WalkQuarantine
           /\ ~Crash /\ ~QuarantineHead /\ ~Rewind
  <2>1. UNCHANGED commitOff /\ ~Walks
    BY <1>0, <1>1, <1>7, OtherSteps
  <2>2. Safe \subseteq Safe'
    BY <1>0, <1>7, HistoryGrows DEF Safe
  <2> QED
    BY <2>1, <2>2 DEF AInv, RetiredSafe
<1> QED
  BY <1>2, <1>3, <1>4, <1>5, <1>6, <1>7

LEMMA NextAuthority ==
    ASSUME SInv, HInv, AInv, [Next]_vars
    PROVE  AInv'
  BY NextRetiredSafe, NextTargetSafe, NextRunSafe, NextAckedSafe, NextHeadersSafe DEF AInv

LEMMA InitAuthority == Init => AInv
<1> SUFFICES ASSUME Init PROVE AInv
  OBVIOUS
<1>1. op.pc = "idle"
  BY Begun DEF Init
<1>2. RetiredSafe /\ TargetSafe /\ RunSafe /\ AckedSafe
  BY <1>1 DEF Init, RetiredSafe, TargetSafe, RunSafe, AckedSafe, Walks
<1>3. TInv
  BY InitTypes
<1>4. HeadersSafe
  <2>1. \A i \in files : seg[i].hcur = 0 /\ seg[i].base = 0
    BY <1>3, SegFacts DEF Init, Fresh
  <2> QED
    BY <2>1 DEF HeadersSafe
<1> QED
  BY <1>2, <1>4 DEF AInv

\* As long as unlinks succeed, every offset behind the commit cursor was asked for
\* by a consumer, was reported lost or lies under a quarantine header, through
\* rollbacks of a failed commit, latches and restarts (ackedRunEnd, commitDurable,
\* load).
THEOREM NothingIsRetiredUnasked == UnlinksSucceed => (Spec => []AuthorisedRetirement)
<1> SUFFICES ASSUME UnlinksSucceed PROVE Spec => []AuthorisedRetirement
  OBVIOUS
<1> DEFINE Inv == SInv /\ HInv /\ AInv
<1>1. Init => Inv
  BY InitRecords, InitHeaders, InitAuthority
<1>2. Inv /\ [Next]_vars => Inv'
  BY NextRecords, NextHeaders, NextAuthority
<1>3. Inv => AuthorisedRetirement
  BY AuthorisedHere
<1> HIDE DEF Inv
<1> QED
  BY <1>1, <1>2, <1>3, PTL DEF Spec


-----------------------------------------------------------------------------
(* The refinement.  Three facts carry it: records tile the queue and every *)
(* cursor stands between two of them (SInv), what a call found retired     *)
(* stays retired (HInv), and what it retires was asked for or is lost      *)
(* (AInv).  What is missing is that a call never asks past the read        *)
(* cursor, which matters when a restart keeps part of what it asked for.   *)

Aimed ==
    IF op.pc \in {"walk", "settle", "settled", "commitDrop"}
    THEN op.off <= headOff
    ELSE op.off = 0

LEMMA OpBegins ==
    /\ Idle.pc = "idle" /\ Idle.off = 0 /\ Idle.before = 0
    /\ \A d : StartRun(d) => op'.pc \in {"idle", "run"} /\ op'.off = 0
    /\ \A kind, n, start :
          StartAppend(kind, n, start) => op'.pc \in {"cycleDrop", "write"} /\ op'.off = 0
<1>1. Idle \in Op /\ Idle.pc = "idle" /\ Idle.off = 0 /\ Idle.before = 0
  BY IdleType DEF Idle
<1>2. ASSUME NEW d, StartRun(d) PROVE op'.pc \in {"idle", "run"} /\ op'.off = 0
  <2>1. CASE ioErr
    BY <1>1, <1>2, <2>1 DEF StartRun
  <2>2. CASE ~ioErr
    BY <1>1, <1>2, <2>2 DEF StartRun, Op
  <2> QED
    BY <2>1, <2>2
<1>3. ASSUME NEW kind, NEW n, NEW start, StartAppend(kind, n, start)
      PROVE  op'.pc \in {"cycleDrop", "write"} /\ op'.off = 0
  BY <1>1, <1>3 DEF StartAppend, Op
<1> QED
  BY <1>1, <1>2, <1>3

LEMMA NextAimed ==
    ASSUME TInv, OInv', CInv, Aimed, [Next]_vars
    PROVE  Aimed'
<1>0. op \in Op /\ op.pc # "force"
  BY DEF TInv, TypeOK, OpType, CInv
<1>1. CASE Walks'
  BY <1>1 DEF OInv, WalkBehind, Walks, Aimed
<1>2. CASE (\E n \in 1 .. MaxLen : Add(n)) \/ Requeue
  BY <1>2, OpBegins DEF Add, Requeue, Aimed
<1>3. CASE Reserve \/ Skip \/ Unread \/ DropRecord \/ DeferDamage
  BY <1>3, OpBegins DEF Reserve, Skip, Unread, DropRecord, DeferDamage, TakeHead,
                        Readable,
     Unreadable, Reading, RetireFrame, cursors, Aimed
<1>4. CASE Take /\ ~Walks'
  BY <1>4, OpBegins, Begun DEF Take, Aimed, Walks
<1>5. CASE PayReport \/ QuarantineHead \/ QuarantineLatched
  BY <1>5 DEF PayReport, QuarantineHead, QuarantineLatched, Unreadable, Reading, Aimed
<1>6. CASE StartForce
  BY <1>0, <1>6, IdleType, OpBegins DEF StartForce, Aimed, Op
<1>7. CASE Retire /\ ~Walks'
  <2>1. CASE \E off \in Offsets : Ack(off)
    BY <2>1, OpBegins DEF Ack, Aimed
  <2>2. CASE \E off \in Offsets : Commit(off)
    BY <1>7, <2>2, Begun DEF Commit, Walks
  <2>3. CASE \E offs \in SUBSET {reserved[k].end : k \in 1 .. Len(reserved)} : AckBatch(offs)
    BY <2>3, OpBegins DEF AckBatch, Aimed
  <2> QED
    BY <1>7, <2>1, <2>2, <2>3 DEF Retire
<1>8. CASE Rewind
  BY <1>8 DEF Rewind, Aimed
<1>9. CASE CreateRefused \/ WriteFailed \/ Write \/ WriteLatched
  BY <1>9, OpBegins DEF CreateRefused, WriteFailed, Write, WriteLatched, AppendFailed,
     RetireFrame, Aimed
<1>10. CASE Create
  BY <1>0, <1>10, OpBegins DEF Create, AppendFailed, Aimed, Op
<1>11. CASE DropStep
  BY <1>0, <1>11, OpBegins DEF DropStep, DropSegment, DropStuck, DropDone, FinishCommit,
     cursors, Aimed, Op
<1>12. CASE RunStep /\ ~Walks'
  BY <1>0, <1>12, OpBegins, Begun DEF RunStep, Aimed, Walks, Op
<1>13. CASE WalkStep /\ ~Walks'
  BY <1>0, <1>13 DEF WalkStep, WalkOver, WalkLeave, WalkAbandoned, WalkUnreadable,
     WalkRecord, WalkStopsAtDamage, WalkQuarantine, WalkQuarantineFailed, Walking, Op,
     Walks
<1>14. CASE Settle
  BY <1>0, <1>14 DEF Settle, Aimed, Op
<1>15. CASE CommitEnds
  <2>1. op.pc = "settled" /\ op.off <= headOff
    BY <1>15 DEF CommitEnds, Aimed
  <2>2. CASE FinishCommit
    BY <2>2, OpBegins DEF FinishCommit, Aimed
  <2>3. CASE headOff' = Max2(headOff, commitOff) /\ op' = [op EXCEPT !.pc = "commitDrop", !.i = 0]
    <3>1. op'.off = op.off /\ op'.pc = "commitDrop"
      BY <1>0, <2>3 DEF Op
    <3>2. op.off <= Max2(headOff, commitOff)
      <4>1. op.off \in Nat
        BY <1>0, StoreAssumption DEF Op, Offsets
      <4> QED
        BY <2>1, <4>1, SegFacts DEF Max2
    <3> QED
      BY <2>3, <3>1, <3>2 DEF Aimed
  <2> QED
    BY <1>15, <2>2, <2>3 DEF CommitEnds
<1>16. CASE LoadStep \/ LoadDone
  BY <1>0, <1>16, OpBegins DEF LoadStep, LoadDone, Aimed, Op
<1>17. CASE Crash
  BY <1>17, IdleType, OpBegins DEF Crash, Aimed, Op
<1>18. CASE Environment /\ ~Crash
  BY <1>18 DEF Environment, FailSync, Rot, Vanish, cursors, Aimed
<1>19. CASE UNCHANGED vars
  BY <1>19 DEF vars, cursors, Aimed
<1>20. CASE ForceStep \/ ForceFailed \/ ForceLatched \/ ForceDone
  BY <1>0, <1>20 DEF ForceStep, ForceFailed, ForceLatched, ForceDone
<1> QED
  BY <1>1, <1>2, <1>3, <1>4, <1>5, <1>6, <1>7, <1>8, <1>9, <1>10, <1>11, <1>12, <1>13,
     <1>14, <1>15, <1>16, <1>17, <1>18, <1>19, <1>20
     DEF Next, OpStep, AppendStep, Consume, ReadDamage

-----------------------------------------------------------------------------
(* Each step is a step of QueueSpec, or changes nothing there *)

Settling == op.pc \in {"walk", "settle", "settled"}

\* A step that changes nothing the mapping looks at
LEMMA Unseen ==
    ASSUME UNCHANGED <<writeOff, headOff, rlen, authorised, lostSet, quarantined>>,
           Retired' = Retired
    PROVE  UNCHANGED Queue!qvars
  BY DEF Queue!qvars

\* A frame between two boundaries is one record
LEMMA FrameIsRecord ==
    ASSUME SInv, NEW a \in Offsets, NEW b, Frame(a, b)
    PROVE  Queue!OneRecord(a, b)
<1>0. TInv /\ Tiled
  BY DEF SInv, RInv
<1>1. /\ a \in Nat /\ b \in Offsets /\ b \in Nat /\ a < b /\ Boundary(b)
      /\ rlen[a] > 0 /\ rlen[a] \in Nat /\ b = a + rlen[a]
  BY <1>0, TailIsClear, StoreAssumption DEF Frame, Tiled, Offsets
<1>2. \A s \in Offsets : rlen[s] > 0 => s <= a \/ b <= s
  <2>1. SUFFICES ASSUME NEW s \in Offsets, rlen[s] > 0, ~(s <= a), ~(b <= s) PROVE FALSE
    OBVIOUS
  <2>2. a < s /\ s < b
    BY <1>1, <2>1, StoreAssumption DEF Offsets
  <2>3. rlen[s] = 0
    BY <1>0, <1>1, <2>2 DEF Tiled
  <2> QED
    BY <2>1, <2>3
<1>3. b \in {p \in Offsets : rlen[p] > 0} \union {writeOff}
  BY <1>1 DEF Boundary
<1> QED
  BY <1>1, <1>2, <1>3 DEF Queue!OneRecord

\* Reads: Reserve, Take, Skip and Requeue each deliver one record
LEMMA ReadDelivers ==
    ASSUME SInv, HInv, Reserve \/ Take \/ Skip \/ Requeue
    PROVE  Queue!Deliver
<1>0. TInv
  BY DEF SInv
<1>1. PICK df \in files : TakeHead(df)
  BY DEF Reserve, Take, Skip, Requeue
<1>2. /\ headOff \in Offsets /\ HeadNext \in Offsets /\ Frame(headOff, HeadNext)
      /\ headOff < HeadNext /\ op.pc = "idle"
  BY <1>0, <1>1, RecordRead
<1>3. /\ headOff' = HeadNext
      /\ UNCHANGED <<writeOff, commitOff, rlen, lostSet, quarantined>>
  BY <1>1 DEF TakeHead, disk
<1>4. Queue!OneRecord(headOff, headOff')
  BY <1>2, <1>3, FrameIsRecord
<1>5. /\ authorised \subseteq authorised'
      /\ authorised' \subseteq authorised \union (0 .. HeadNext - 1)
  <2>1. headOff .. HeadNext - 1 \subseteq 0 .. HeadNext - 1
    BY <1>2, StoreAssumption DEF Offsets
  <2>2. authorised' = authorised \/ authorised' = authorised \union (headOff .. HeadNext - 1)
    BY DEF Reserve, Take, Skip, Requeue
  <2> QED
    BY <2>1, <2>2
<1>6. Retired' = commitOff'
  <2>1. CASE Reserve \/ Skip \/ Requeue
    <3>1. op'.pc \in {"idle", "run", "cycleDrop", "write"}
      BY <1>2, <2>1, OpBegins DEF Reserve, Skip, Requeue, RetireFrame
    <3> QED
      BY <3>1 DEF Retired
  <2>2. CASE Take
    <3>1. op'.pc = "idle" \/ op'.before = commitOff
      <4>1. CASE ioErr
        BY <2>2, <4>1, OpBegins DEF Take
      <4>2. CASE ~ioErr
        <5>1. StartWalk(HeadNext, TRUE, FALSE)
          BY <2>2, <4>2 DEF Take
        <5>2. HeadNext \in Nat /\ TRUE \in BOOLEAN /\ FALSE \in BOOLEAN
          BY <1>2, StoreAssumption DEF Offsets
        <5> QED
          BY <1>0, <5>1, <5>2, StartWalkTarget
      <4> QED
        BY <4>1, <4>2
    <3> QED
      BY <1>3, <3>1 DEF Retired
  <2> QED
    BY <2>1, <2>2
<1>7. Retired' = Retired
  BY <1>2, <1>3, <1>6 DEF Retired
<1> QED
  BY <1>3, <1>4, <1>5, <1>7 DEF Queue!Deliver, Queue!AskUpTo

\* A read that meets damage loses what it steps over: one record, the rest of the
\* segment deferred behind earlier work, or a quarantine header that latched
LEMMA ReadLoses ==
    ASSUME SInv, DropRecord \/ DeferDamage \/ QuarantineLatched
    PROVE  Queue!Lose
<1>0. TInv /\ writeOff \in Nat /\ headOff \in Nat
  BY SegFacts DEF SInv
<1>1. PICK h \in Nat :
        /\ headOff <= h /\ h <= writeOff
        /\ headOff' = h \/ headOff' = headOff
        /\ lostSet' \union quarantined' = lostSet \union quarantined \union (headOff .. h - 1)
  <2>1. CASE DropRecord
    <3>1. PICK df \in files : Readable(df) /\ rot[headOff] = "sum"
      BY <2>1 DEF DropRecord
    <3>2. headOff < writeOff /\ headOff \in Offsets /\ rlen[headOff] > 0
      BY <1>0, <3>1, RecordRead DEF Frame
    <3>3. HeadNext \in Nat /\ headOff <= HeadNext /\ HeadNext <= writeOff
      BY <1>0, <3>2, TailIsClear DEF HeadNext
    <3> QED
      BY <2>1, <3>3 DEF DropRecord
  <2>2. CASE DeferDamage \/ QuarantineLatched
    <3>1. PICK df \in files :
            /\ headOff' = End(df) \/ headOff' = headOff
            /\ df \in Holding(headOff)
            /\ lostSet' \union quarantined' =
                  lostSet \union quarantined \union (headOff .. End(df) - 1)
      BY <2>2 DEF DeferDamage, QuarantineLatched, Unreadable, Reading, cursors
    <3>2. End(df) \in Nat /\ headOff <= End(df) /\ End(df) <= writeOff
      BY <1>0, <3>1, SegFacts, StoreAssumption DEF Holding, Offsets
    <3> QED
      BY <3>1, <3>2
  <2> QED
    BY <2>1, <2>2
<1>2. headOff .. h - 1 \subseteq 0 .. writeOff - 1
  BY <1>0, <1>1
<1>3. headOff <= headOff' /\ headOff .. headOff' - 1 \subseteq headOff .. h - 1
  <2>1. CASE headOff' = h
    BY <1>1, <2>1
  <2>2. CASE headOff' = headOff
    <3>1. headOff .. headOff - 1 = {}
      BY <1>0
    <3> QED
      BY <1>0, <2>2, <3>1
  <2> QED
    BY <1>1, <2>1, <2>2
<1>4. UNCHANGED <<writeOff, commitOff, rlen, authorised>> /\ op.pc = "idle"
  BY DEF DropRecord, DeferDamage, QuarantineLatched, Readable, Unreadable, Reading, disk,
     cursors
<1>5. op'.pc \in {"idle", "run"}
  BY <1>4, OpBegins DEF DropRecord, DeferDamage, QuarantineLatched, RetireFrame
<1>6. Retired' = Retired
  BY <1>4, <1>5 DEF Retired
<1> QED
  BY <1>1, <1>2, <1>3, <1>4, <1>6 DEF Queue!Lose

\* A quarantine at the head loses and retires the rest of the segment at once
LEMMA QuarantineRetires ==
    ASSUME SInv, QuarantineHead
    PROVE  Queue!Retire
<1>0. TInv /\ writeOff \in Nat /\ headOff \in Nat
  BY SegFacts DEF SInv
<1>1. PICK df \in files :
        /\ df \in Holding(headOff) /\ commitOff = headOff /\ op.pc = "idle"
        /\ commitOff' = End(df) /\ headOff' = End(df)
        /\ lostSet' \union quarantined' =
              lostSet \union quarantined \union (headOff .. End(df) - 1)
        /\ UNCHANGED <<writeOff, rlen, authorised, op>>
  BY DEF QuarantineHead, Unreadable, Reading
<1>2. PICK h \in Nat : h = End(df) /\ headOff < h /\ h <= writeOff
  BY <1>0, <1>1, SegFacts, StoreAssumption DEF Holding, Offsets
<1>3. headOff .. h - 1 \subseteq 0 .. writeOff - 1
  BY <1>0, <1>2
<1>4. Retired = headOff /\ Retired' = h /\ headOff' = h
  BY <1>1, <1>2 DEF Retired
<1>5. headOff <= h /\ h <= h
  BY <1>0, <1>2
<1> QED
  BY <1>1, <1>2, <1>3, <1>4, <1>5 DEF Queue!Retire

\* A published record joins the log at its tail
LEMMA PublishedRecord ==
    ASSUME SInv, op.pc = "write", NEW af \in files, Publish(af)
    PROVE  /\ writeOff' \in Nat /\ writeOff < writeOff' /\ UNCHANGED commitOff
           /\ {p \in Offsets : rlen'[p] > 0} = {p \in Offsets : rlen[p] > 0} \union {writeOff}
<1>0. TInv /\ OInv /\ CInv /\ Sized /\ writeOff \in Nat
  BY SegFacts DEF SInv, RInv
<1>1. /\ writeOff \in Offsets /\ writeOff' = writeOff + op.len /\ writeOff' \in Offsets
      /\ op.len \in Nat /\ op.len > 0 /\ rlen'[writeOff] = op.len
      /\ \A p \in Offsets : p # writeOff => rlen'[p] = rlen[p]
  BY <1>0, PublishRecord
<1>2. writeOff' \in Nat /\ writeOff < writeOff'
  BY <1>0, <1>1
<1>3. {p \in Offsets : rlen'[p] > 0} = {p \in Offsets : rlen[p] > 0} \union {writeOff}
  BY <1>1
<1> QED
  BY <1>2, <1>3 DEF Publish

\* What a failed Requeue puts back is the record it took
LEMMA RequeueUnreads ==
    ASSUME SInv, Appending,
           headOff' = IF op.kind = "requeue" THEN Min2(op.start, headOff) ELSE headOff
    PROVE  \/ UNCHANGED headOff
           \/ /\ op.kind = "requeue" /\ commitOff <= headOff'
              /\ Queue!OneRecord(headOff', headOff)
<1>0. TInv /\ OInv /\ headOff \in Nat /\ op \in Op
  BY SegFacts DEF SInv, TInv, TypeOK, OpType
<1>1. CASE op.kind # "requeue"
  BY <1>1
<1>2. CASE op.kind = "requeue"
  <2>1. /\ Frame(op.start, op.start + op.len) /\ op.start + op.len = headOff
        /\ commitOff <= op.start
    BY <1>0, <1>2 DEF SInv, RInv, RequeueFramed, OInv, RequeueHolds
  <2>2. op.start \in Offsets /\ op.start \in Nat /\ op.len \in Nat
    BY <1>0, StoreAssumption DEF Op, Offsets
  <2>3. headOff' = op.start
    BY <1>0, <1>2, <2>1, <2>2 DEF Min2
  <2>4. Queue!OneRecord(op.start, headOff)
    BY <2>1, <2>2, FrameIsRecord
  <2> QED
    BY <1>2, <2>1, <2>3, <2>4
<1> QED
  BY <1>1, <1>2

LEMMA WritePublishes ==
    ASSUME SInv, Write \/ WriteLatched
    PROVE  Queue!Publish \/ Queue!PublishAgain
<1>0. TInv /\ OInv /\ headOff \in Nat /\ op \in Op /\ op.pc = "write" /\ Appending
  BY SegFacts DEF SInv, TInv, TypeOK, OpType, Write, WriteLatched, Appending
<1>1. PICK af \in files : Publish(af)
  BY DEF Write, WriteLatched
<1>2. /\ writeOff' \in Nat /\ writeOff < writeOff' /\ UNCHANGED commitOff
      /\ {p \in Offsets : rlen'[p] > 0} = {p \in Offsets : rlen[p] > 0} \union {writeOff}
  BY <1>0, <1>1, PublishedRecord
<1>3. UNCHANGED <<lostSet, quarantined>>
  BY DEF Write, WriteLatched, history
<1>4. op'.pc \in {"idle", "run"}
  BY OpBegins DEF Write, WriteLatched, RetireFrame
<1>5. Retired' = Retired /\ Retired = commitOff
  BY <1>0, <1>2, <1>4 DEF Retired
<1>6. CASE UNCHANGED <<headOff, authorised>>
  BY <1>2, <1>3, <1>5, <1>6 DEF Queue!Publish
<1>7. CASE Write
  <2>1. CASE op.kind = "add"
    BY <1>6, <1>7, <2>1 DEF Write
  <2>2. CASE op.kind = "requeue"
    <3>1. op.start + op.len = headOff /\ op.start \in Nat /\ op.len \in Nat
      BY <1>0, <2>2, StoreAssumption DEF OInv, RequeueHolds, Op, Offsets
    <3>2. op.start .. op.start + op.len - 1 \subseteq 0 .. headOff - 1
      BY <3>1
    <3>3. headOff' = headOff /\ authorised' = authorised \union (op.start .. op.start + op.len - 1)
      BY <1>7, <2>2 DEF Write
    <3>4. Queue!AskUpTo(headOff)
      BY <3>2, <3>3 DEF Queue!AskUpTo
    <3> QED
      BY <1>2, <1>3, <1>5, <3>3, <3>4 DEF Queue!PublishAgain
  <2> QED
    BY <1>7, <2>1, <2>2 DEF Write
<1>8. CASE WriteLatched
  <2>1. /\ headOff' = IF op.kind = "requeue" THEN Min2(op.start, headOff) ELSE headOff
        /\ UNCHANGED authorised
    BY <1>8 DEF WriteLatched, history
  <2>2. CASE /\ op.kind = "requeue" /\ commitOff <= headOff'
             /\ Queue!OneRecord(headOff', headOff)
    BY <1>2, <1>3, <1>5, <2>1, <2>2 DEF Queue!PublishAgain
  <2> QED
    BY <1>0, <1>6, <2>1, <2>2, RequeueUnreads
<1> QED
  BY <1>7, <1>8

\* An append that fails unreads what its Requeue took
LEMMA FailureUnreads ==
    ASSUME SInv, CreateRefused \/ WriteFailed \/ Create
    PROVE  Queue!Unread \/ UNCHANGED Queue!qvars
<1>0. op.pc \in {"create", "write"} /\ Appending /\ op \in Op
  BY DEF SInv, TInv, TypeOK, OpType, CreateRefused, WriteFailed, Create, Appending
<1>1. UNCHANGED <<writeOff, commitOff, rlen, authorised, lostSet, quarantined>>
  BY DEF CreateRefused, WriteFailed, Create, AppendFailed, disk, history, cursors
<1>2. op'.pc \in {"idle", "write"}
  BY <1>0, OpBegins DEF CreateRefused, WriteFailed, Create, AppendFailed, Op
<1>3. Retired' = Retired /\ Retired = commitOff
  BY <1>0, <1>1, <1>2 DEF Retired
<1>4. CASE UNCHANGED headOff
  BY <1>1, <1>3, <1>4, Unseen
<1>5. CASE headOff' = IF op.kind = "requeue" THEN Min2(op.start, headOff) ELSE headOff
  <2>1. CASE commitOff <= headOff' /\ Queue!OneRecord(headOff', headOff)
    BY <1>1, <1>3, <2>1 DEF Queue!Unread
  <2> QED
    BY <1>0, <1>4, <1>5, <2>1, RequeueUnreads
<1> QED
  BY <1>4, <1>5 DEF CreateRefused, WriteFailed, Create, AppendFailed, cursors

\* A walk retires nothing yet, and loses what it quarantines
LEMMA WalkLoses ==
    ASSUME SInv, WalkStep
    PROVE  Queue!Lose \/ UNCHANGED Queue!qvars
<1>0. TInv /\ OInv /\ op \in Op /\ writeOff \in Nat /\ headOff \in Nat /\ commitOff \in Nat
  BY SegFacts DEF SInv, TInv, TypeOK, OpType
<1>1. /\ op.pc = "walk" /\ op'.pc \in {"walk", "settle"} /\ op'.before = op.before
      /\ UNCHANGED <<writeOff, rlen, authorised, lostSet>>
  BY <1>0 DEF WalkStep, WalkOver, WalkLeave, WalkAbandoned, WalkUnreadable, WalkRecord,
     WalkStopsAtDamage, WalkQuarantine, WalkQuarantineFailed, Walking, Op, cursors, disk,
     history
<1>2. Retired' = Retired
  BY <1>1 DEF Retired
<1>3. CASE UNCHANGED <<headOff, quarantined>>
  BY <1>1, <1>2, <1>3, Unseen
<1>4. CASE WalkQuarantine \/ WalkQuarantineFailed
  <2>1. CASE UNCHANGED quarantined /\ UNCHANGED headOff
    BY <1>3, <2>1
  <2>2. ASSUME NEW df \in files, df \in Holding(commitOff), End(df) <= op.off,
               headOff' = headOff \/ headOff' = Max2(headOff, End(df)),
               quarantined' = quarantined \union (commitOff .. End(df) - 1)
        PROVE  Queue!Lose
    <3>1. op.off <= headOff /\ op.off \in Nat
      BY <1>0, <1>1, WalkFacts DEF Walks
    <3>2. PICK e \in Nat : e = End(df) /\ e <= headOff /\ e <= writeOff
      BY <1>0, <2>2, <3>1, SegFacts, StoreAssumption DEF Offsets
    <3>3. headOff' = headOff
      BY <1>0, <2>2, <3>2 DEF Max2
    <3>4. commitOff .. e - 1 \subseteq 0 .. writeOff - 1 /\ headOff .. headOff - 1 = {}
          /\ headOff <= headOff
      BY <1>0, <3>2
    <3> QED
      BY <1>1, <1>2, <2>2, <3>2, <3>3, <3>4 DEF Queue!Lose
  <2> QED
    BY <1>4, <2>1, <2>2 DEF WalkQuarantine, WalkQuarantineFailed, Walking, cursors
<1>5. CASE ~WalkQuarantine /\ ~WalkQuarantineFailed
  <2>1. UNCHANGED <<headOff, quarantined>>
    BY <1>5 DEF WalkStep, WalkOver, WalkLeave, WalkAbandoned, WalkUnreadable, WalkRecord,
       WalkStopsAtDamage, cursors, history
  <2> QED
    BY <1>3, <2>1
<1> QED
  BY <1>4, <1>5

\* The end of a walk settles what was asked for
LEMMA SettleAsks ==
    ASSUME SInv, SInv', Settle
    PROVE  Queue!Ask
<1>0. TInv /\ OInv /\ op \in Op /\ op.pc = "settle" /\ headOff \in Nat
  BY SegFacts DEF SInv, TInv, TypeOK, OpType, Settle
<1>1. /\ op'.pc = "settled" /\ op'.before = op.before
      /\ UNCHANGED <<writeOff, headOff, rlen, lostSet, quarantined>>
      /\ authorised' = authorised \union (Authority \intersect (0 .. commitOff' - 1))
  BY <1>0 DEF Settle, Op
<1>2. Retired' = Retired
  BY <1>0, <1>1 DEF Retired
<1>3. Authority \subseteq authorised \union (0 .. op.off - 1)
  BY DEF Authority
<1>4. 0 .. op.off - 1 \subseteq 0 .. headOff - 1
  <2>1. op.off \in Nat /\ op.off <= headOff
    BY <1>0, WalkFacts DEF Walks
  <2> QED
    BY <1>0, <2>1
<1>5. Queue!AskUpTo(headOff)
  BY <1>1, <1>3, <1>4 DEF Queue!AskUpTo
<1> QED
  BY <1>1, <1>2, <1>5 DEF Queue!Ask

\* A commit that has settled retires what it advanced over
LEMMA CommitRetires ==
    ASSUME SInv, HInv, AInv, CommitEnds
    PROVE  Queue!Retire \/ UNCHANGED Queue!qvars
<1>0. /\ TInv /\ op \in Op /\ op.pc = "settled" /\ headOff \in Nat /\ commitOff \in Nat
      /\ commitOff <= headOff /\ op.before \in Nat /\ op.before <= commitOff
  BY SegFacts, StoreAssumption
     DEF SInv, OInv, CursorOrder, TInv, TypeOK, OpType, Op, Offsets, CommitEnds, HInv,
         Since
<1>1. UNCHANGED <<writeOff, commitOff, rlen, authorised, lostSet, quarantined>>
  BY DEF CommitEnds, disk, history
<1>2. op'.pc \in {"idle", "commitDrop"}
  BY <1>0, OpBegins DEF CommitEnds, FinishCommit, Op
<1>3. headOff' = headOff
  BY <1>0 DEF CommitEnds, Max2
<1>4. Retired = op.before /\ Retired' = commitOff
  BY <1>0, <1>1, <1>2 DEF Retired
<1>5. CASE commitOff = op.before
  BY <1>1, <1>3, <1>4, <1>5, Unseen
<1>6. CASE commitOff # op.before
  <2>1. op.before < commitOff /\ headOff .. headOff - 1 = {} /\ headOff <= headOff
    BY <1>0, <1>6
  <2>2. 0 .. commitOff - 1 \subseteq authorised \union lostSet \union quarantined
    BY <1>0 DEF AInv, RetiredSafe, Walks, Safe
  <2>3. op.before .. commitOff - 1 \subseteq 0 .. commitOff - 1
    BY <1>0
  <2> QED
    BY <1>0, <1>1, <1>3, <1>4, <2>1, <2>2, <2>3 DEF Queue!Retire
<1> QED
  BY <1>5, <1>6

\* An acknowledgement asks for extents that were read
LEMMA ReservedRead ==
    ASSUME SInv, NEW k \in Passed(reserved, commitOff),
           NEW hit \in SUBSET (1 .. Len(From(reserved, k)))
    PROVE  UNION {Extent(From(reserved, k)[j]) : j \in hit} \subseteq 0 .. headOff - 1
<1>0. TInv /\ LedgerType /\ LedgerBehind(reserved, headOff) /\ headOff \in Nat
  BY SegFacts DEF SInv, OInv, TInv, TypeOK
<1>1. k \in 0 .. Len(reserved) /\ reserved \in Seq(Reservation)
  BY <1>0 DEF Passed, LedgerType
<1>2. SUFFICES ASSUME NEW j \in hit
               PROVE  Extent(From(reserved, k)[j]) \subseteq 0 .. headOff - 1
  OBVIOUS
<1>3. /\ j \in 1 .. Len(reserved) - k /\ j + k \in 1 .. Len(reserved)
      /\ From(reserved, k)[j] = reserved[j + k]
  <2>1. Len(From(reserved, k)) = Len(reserved) - k
    BY <1>1, FromType
  <2>2. j \in 1 .. Len(reserved) - k
    BY <2>1
  <2>3. From(reserved, k)[j] = reserved[j + k]
    BY <1>1, <2>2, FromType
  <2>4. Len(reserved) \in Nat
    BY <1>1, LenProperties
  <2> QED
    BY <1>1, <2>2, <2>3, <2>4
<1>4. PICK m \in 1 .. Len(reserved) : m = j + k
  BY <1>3
<1>5. reserved[m].end <= headOff /\ reserved[m].start \in Nat /\ reserved[m].end \in Nat
  BY <1>0, <1>4, EntryType DEF LedgerBehind
<1>6. reserved[m].start .. reserved[m].end - 1 \subseteq 0 .. headOff - 1
  BY <1>0, <1>5
<1> QED
  BY <1>3, <1>4, <1>6 DEF Extent

LEMMA AckAsks ==
    ASSUME SInv, Retire
    PROVE  Queue!Ask \/ UNCHANGED Queue!qvars
<1>1. CASE \E off \in Offsets : Commit(off)
  <2>1. PICK off \in Offsets : Commit(off)
    BY <1>1
  <2>2. /\ UNCHANGED <<writeOff, commitOff, headOff, rlen, authorised, lostSet,
                       quarantined>>
        /\ op.pc = "idle" /\ StartWalk(off, TRUE, FALSE)
    BY <2>1 DEF Commit, cursors, disk, history
  <2>3. off \in Nat /\ TRUE \in BOOLEAN /\ FALSE \in BOOLEAN
    BY StoreAssumption DEF Offsets
  <2>4. op'.before = commitOff
    BY <2>2, <2>3, StartWalkTarget DEF SInv
  <2>5. Retired' = Retired
    BY <2>2, <2>4 DEF Retired
  <2> QED
    BY <2>2, <2>5, Unseen
<1>2. CASE ~\E off \in Offsets : Commit(off)
  <2>1. /\ UNCHANGED <<writeOff, commitOff, headOff, rlen, lostSet, quarantined>>
        /\ op.pc = "idle" /\ op'.pc \in {"idle", "run"}
    BY <1>2, OpBegins DEF Retire, Ack, AckBatch, cursors, disk
  <2>2. \/ UNCHANGED authorised
        \/ \E k \in Passed(reserved, commitOff) :
              \E hit \in SUBSET (1 .. Len(From(reserved, k))) :
                 authorised' = authorised \union UNION {Extent(From(reserved, k)[j]) : j \in hit}
    <3>1. CASE \E off \in Offsets : Ack(off)
      BY <3>1 DEF Ack
    <3>2. CASE \E offs \in SUBSET {reserved[k].end : k \in 1 .. Len(reserved)} : AckBatch(offs)
      BY <3>2 DEF AckBatch
    <3> QED
      BY <1>2, <3>1, <3>2 DEF Retire
  <2>3. Queue!AskUpTo(headOff)
    BY <2>2, ReservedRead DEF Queue!AskUpTo
  <2>4. Retired' = Retired
    BY <2>1 DEF Retired
  <2> QED
    BY <2>1, <2>3, <2>4 DEF Queue!Ask
<1> QED
  BY <1>1, <1>2

\* Rewind and a restart replay from the retired prefix
LEMMA RewindReplays ==
    ASSUME SInv, Rewind
    PROVE  Queue!Replay
<1>0. /\ commitOff \in Nat /\ headOff \in Nat /\ writeOff \in Nat
      /\ commitOff <= headOff /\ headOff <= writeOff
  BY SegFacts DEF SInv, OInv, CursorOrder
<1>1. /\ UNCHANGED <<writeOff, commitOff, rlen, lostSet, quarantined, op>>
      /\ headOff' = commitOff /\ op.pc = "idle"
      /\ authorised' = authorised \intersect (0 .. commitOff - 1)
  BY DEF Rewind, disk
<1>2. Retired = commitOff /\ Retired' = commitOff
  BY <1>1 DEF Retired
<1>3. commitOff <= commitOff /\ commitOff <= writeOff /\ commitOff .. commitOff - 1 = {}
  BY <1>0
<1> QED
  BY <1>1, <1>2, <1>3 DEF Queue!Replay

LEMMA CrashReplays ==
    ASSUME SInv, SInv', HInv, AInv, Aimed, Crash
    PROVE  Queue!Replay
<1>0. /\ TInv /\ op \in Op /\ commitOff \in Nat /\ headOff \in Nat /\ writeOff \in Nat
      /\ op.before \in Nat /\ op.before <= commitOff /\ op.off \in Nat
      /\ op.off <= headOff
  <2>1. op \in Op /\ op.before \in Nat /\ op.off \in Nat
    BY StoreAssumption DEF SInv, TInv, TypeOK, OpType, Op, Offsets
  <2> QED
    BY <2>1, SegFacts DEF SInv, HInv, Since, Aimed
<1>1. PICK c \in Offsets :
        /\ c \in Recovered /\ commitOff' = c /\ headOff' = c
        /\ authorised' = Authority \intersect (0 .. c - 1)
  BY DEF Crash, Recovered
<1>2. UNCHANGED <<writeOff, rlen, lostSet, quarantined>> /\ op'.pc = "load"
  BY IdleType DEF Crash, Op
<1>3. c \in Nat /\ c <= writeOff
  BY <1>1, <1>2, StoreAssumption DEF SInv, OInv, CursorOrder, Offsets
<1>4. Retired' = c
  BY <1>1, <1>2 DEF Retired
<1>5. PICK r \in Nat : r = Retired
  BY <1>0 DEF Retired
<1>6. r <= c
  <2>1. CASE c < commitOff
    <3>1. commitOff' < commitOff
      BY <1>1, <2>1
    <3>2. [Next]_vars
      BY DEF Next, Environment
    <3>3. Walks /\ op.before <= c
      BY <1>1, <3>1, <3>2, FallsBackTo, FallsBack
    <3> QED
      BY <1>5, <3>3 DEF Retired, Walks
  <2>2. CASE commitOff <= c
    <3>1. r <= commitOff
      BY <1>0, <1>5 DEF Retired
    <3> QED
      BY <1>0, <1>3, <2>2, <3>1
  <2> QED
    BY <1>0, <1>3, <2>1, <2>2
<1>7. /\ Authority \subseteq authorised \union (0 .. headOff - 1)
      /\ authorised \subseteq Authority
  <2>1. 0 .. op.off - 1 \subseteq 0 .. headOff - 1
    BY <1>0
  <2> QED
    BY <2>1 DEF Authority
<1>8. 0 .. c - 1 \subseteq authorised' \union lostSet \union quarantined
  BY <1>1, <1>2, CrashSafe DEF Safe
<1>9. r .. c - 1 \subseteq 0 .. c - 1
  BY <1>3
<1> QED
  BY <1>1, <1>2, <1>3, <1>4, <1>5, <1>6, <1>7, <1>8, <1>9 DEF Queue!Replay

\* Reclamation, the scan of the ledger, load's repairs and the environment change
\* nothing the queue promises
LEMMA RestUnseen ==
    ASSUME SInv,
           \/ \E n \in 1 .. MaxLen : Add(n)
           \/ Unread \/ PayReport \/ DropStep \/ RunStep \/ LoadStep \/ LoadDone
           \/ Environment /\ ~Crash
           \/ UNCHANGED vars
    PROVE  UNCHANGED Queue!qvars
<1>0. TInv /\ op \in Op
  BY DEF SInv, TInv, TypeOK, OpType
<1>1. UNCHANGED <<writeOff, commitOff, headOff, rlen, authorised, lostSet, quarantined>>
  BY DEF Add, Unread, PayReport, DropStep, DropSegment, DropStuck, DropDone, RunStep,
     LoadStep, LoadDone, Environment, FailSync, Rot, Vanish, vars, cursors, disk, history
<1>2. CASE UNCHANGED op
  BY <1>1, <1>2, Unseen DEF Retired
<1>3. CASE ~Settling /\ ~Settling'
  BY <1>1, <1>3, Unseen DEF Retired, Settling
<1>4. CASE RunStep
  <2>1. op.pc = "run" /\ (op'.pc \in {"run", "idle"} \/ StartWalk(op.at, op.durable, TRUE))
    BY <1>0, <1>4, OpBegins DEF RunStep, Op
  <2>2. CASE StartWalk(op.at, op.durable, TRUE)
    <3>1. op.at \in Nat /\ op.durable \in BOOLEAN /\ TRUE \in BOOLEAN
      BY <1>0, StoreAssumption DEF Op, Offsets
    <3>2. op'.before = commitOff
      BY <1>0, <2>2, <3>1, StartWalkTarget
    <3> QED
      BY <1>1, <2>1, <3>2, Unseen DEF Retired
  <2> QED
    BY <1>3, <2>1, <2>2 DEF Settling
<1>5. CASE (\E n \in 1 .. MaxLen : Add(n)) \/ DropStep \/ LoadStep \/ LoadDone
  <2>1. ~Settling /\ ~Settling'
    BY <1>0, <1>5, OpBegins DEF Add, DropStep, DropSegment, DropStuck, DropDone,
       FinishCommit, LoadStep, LoadDone, Settling, Op
  <2> QED
    BY <1>3, <2>1
<1> QED
  BY <1>2, <1>4, <1>5 DEF Unread, PayReport, Environment, FailSync, Rot, Vanish, vars

LEMMA NextIsAStep ==
    ASSUME SInv, SInv', HInv, AInv, Aimed, [Next]_vars
    PROVE  [Queue!Next]_(Queue!qvars)
<1>0. op.pc # "force" /\ ~StartForce
  BY HeadAddressed DEF SInv, CInv, StartForce, HeadAddressable
<1>1. ~ForceStep /\ ~ForceFailed /\ ~ForceLatched /\ ~ForceDone
  BY <1>0 DEF ForceStep, ForceFailed, ForceLatched, ForceDone
<1>2. CASE Consume
  BY <1>0, <1>2, ReadDelivers, ReadLoses, QuarantineRetires, RestUnseen
     DEF Consume, ReadDamage, Queue!Next
<1>3. CASE AppendStep
  BY <1>3, WritePublishes, FailureUnreads DEF AppendStep, Queue!Next
<1>4. CASE WalkStep \/ Settle \/ CommitEnds \/ Retire
  BY <1>4, WalkLoses, SettleAsks, CommitRetires, AckAsks DEF Queue!Next
<1>5. CASE Rewind \/ Crash
  BY <1>5, RewindReplays, CrashReplays DEF Queue!Next
<1>6. CASE \/ \E n \in 1 .. MaxLen : Add(n)
           \/ DropStep \/ RunStep \/ LoadStep \/ LoadDone
           \/ Environment /\ ~Crash
           \/ UNCHANGED vars
  BY <1>6, RestUnseen
<1> QED
  BY <1>1, <1>2, <1>3, <1>4, <1>5, <1>6 DEF Next, OpStep

\* As long as unlinks succeed, the store is an at-least-once queue of records read
\* in append order: every step, failing system calls, latches, quarantines and
\* restarts in the middle of a call or of load included, is a step of QueueSpec or
\* changes nothing there (appendRecord, takeHead, commitDurable, skipCorruptSegment,
\* rewindHead, load).
THEOREM TheStoreIsAQueue == UnlinksSucceed => (Spec => ImplementsQueue)
<1> SUFFICES ASSUME UnlinksSucceed PROVE Spec => ImplementsQueue
  OBVIOUS
<1> DEFINE Inv == SInv /\ HInv /\ AInv /\ Aimed
<1>1. Init => Inv
  <2>1. Init => Aimed
    BY OpBegins DEF Init, Aimed
  <2> QED
    BY <2>1, InitRecords, InitHeaders, InitAuthority
<1>2. Inv /\ [Next]_vars => Inv'
  <2>1. Inv /\ [Next]_vars => SInv' /\ HInv' /\ AInv'
    BY NextRecords, NextHeaders, NextAuthority
  <2> QED
    BY <2>1, NextAimed DEF SInv
<1>3. Init => Queue!Init
  <2>1. Init => Retired = 0
    BY OpBegins DEF Init, Retired
  <2> QED
    BY <2>1 DEF Init, Queue!Init
<1>4. Inv /\ Inv' /\ [Next]_vars => [Queue!Next]_(Queue!qvars)
  BY NextIsAStep
<1> HIDE DEF Inv
<1> QED
  BY <1>1, <1>2, <1>3, <1>4, PTL DEF Spec, ImplementsQueue, Queue!Spec

-----------------------------------------------------------------------------
(* Count() is exact: what the segments count, what their headers count and *)
(* what a deferred extent remembers are all counts of the records between  *)
(* two offsets, so a cursor that moves within a segment takes the totals   *)
(* with it.                                                                *)

\* The records that start at or after a and before b
Records(r, a, b) == Cardinality({p \in a .. b - 1 : r[p] > 0})

LEMMA RecordsFinite ==
    ASSUME NEW r, NEW a \in Nat, NEW b \in Nat
    PROVE  /\ IsFiniteSet({p \in a .. b - 1 : r[p] > 0})
           /\ Records(r, a, b) \in Nat
<1>1. IsFiniteSet(a .. b - 1)
  BY FS_Interval
<1>2. {p \in a .. b - 1 : r[p] > 0} \in SUBSET (a .. b - 1)
  OBVIOUS
<1>3. IsFiniteSet({p \in a .. b - 1 : r[p] > 0})
  BY <1>1, <1>2, FS_Subset
<1> QED
  BY <1>3, FS_CardinalityType DEF Records

LEMMA RecordsSplit ==
    ASSUME NEW r, NEW a \in Nat, NEW b \in Nat, NEW c \in Nat, a <= b, b <= c
    PROVE  Records(r, a, c) = Records(r, a, b) + Records(r, b, c)
<1> DEFINE S(x, y) == {p \in x .. y - 1 : r[p] > 0}
<1>1. IsFiniteSet(S(a, b)) /\ IsFiniteSet(S(b, c))
  BY RecordsFinite
<1>2. S(a, c) = S(a, b) \union S(b, c)
  OBVIOUS
<1>3. S(a, b) \intersect S(b, c) = {}
  OBVIOUS
<1>4. Cardinality(S(a, b) \intersect S(b, c)) = 0
  BY <1>3, FS_EmptySet
<1>5. Cardinality(S(a, b)) \in Nat /\ Cardinality(S(b, c)) \in Nat
  BY <1>1, FS_CardinalityType
<1>6. Cardinality(S(a, c)) = Cardinality(S(a, b)) + Cardinality(S(b, c))
      - Cardinality(S(a, b) \intersect S(b, c))
  BY <1>1, <1>2, FS_Union
<1>7. Cardinality(S(a, c)) = Cardinality(S(a, b)) + Cardinality(S(b, c))
  BY <1>4, <1>5, <1>6
<1> QED
  BY <1>7 DEF Records

LEMMA NoRecords ==
    ASSUME NEW r, NEW a \in Nat
    PROVE  Records(r, a, a) = 0
<1>1. {p \in a .. a - 1 : r[p] > 0} = {}
  OBVIOUS
<1> QED
  BY <1>1, FS_EmptySet DEF Records

LEMMA OneRecord ==
    ASSUME NEW r, NEW a \in Nat, NEW b \in Nat, a < b, r[a] > 0,
           \A q \in a + 1 .. b - 1 : ~(r[q] > 0)
    PROVE  Records(r, a, b) = 1
<1>1. {p \in a .. b - 1 : r[p] > 0} = {a}
  <2>1. \A q \in a .. b - 1 : q = a \/ q \in a + 1 .. b - 1
    OBVIOUS
  <2> QED
    BY <2>1
<1> QED
  BY <1>1, FS_Singleton DEF Records

LEMMA SameRecords ==
    ASSUME NEW r, NEW s, NEW a \in Nat, NEW b \in Nat,
           \A p \in a .. b - 1 : s[p] = r[p]
    PROVE  Records(s, a, b) = Records(r, a, b)
<1>1. {p \in a .. b - 1 : s[p] > 0} = {p \in a .. b - 1 : r[p] > 0}
  OBVIOUS
<1> QED
  BY <1>1 DEF Records

\* A frame is one record
LEMMA FrameCounts ==
    ASSUME TInv, Tiled, NEW a \in Offsets, NEW b, Frame(a, b)
    PROVE  Records(rlen, a, b) = 1 /\ b \in Nat /\ a < b
<1>1. /\ rlen[a] > 0 /\ b = a + rlen[a] /\ rlen[a] \in Nat /\ a \in Nat
      /\ b \in Offsets
  BY TailIsClear DEF Frame
<1>2. \A q \in a + 1 .. b - 1 : q \in Offsets /\ rlen[q] = 0
  BY <1>1, StoreAssumption DEF Tiled, Offsets
<1>3. b \in Nat /\ a < b
  BY <1>1
<1>4. \A q \in a + 1 .. b - 1 : ~(rlen[q] > 0)
  BY <1>2
<1> QED
  BY <1>1, <1>3, <1>4, OneRecord

\* Where the commit cursor c stands in segment i
Reached(i, c) == seg[i].base + LoadedCursor(seg[i], c)

WrittenExact == \A i \in files : seg[i].written = Records(rlen, seg[i].base, End(i))

HeadersExact ==
    \A i \in files :
        seg[i].hcnt = Records(rlen, seg[i].base, seg[i].base + seg[i].hcur)

\* load has yet to work this out for the segments before op.i
CommittedExact ==
    \A i \in files : (op.pc = "load" => i >= op.i) =>
        seg[i].committed = Records(rlen, seg[i].base, Reached(i, commitOff))

\* Deferred damage remembers the records up to its end, of the segment it is in
AbandonedExact ==
    \A k \in 1 .. Len(reserved) : reserved[k].corrupt =>
        \A i \in Holding(reserved[k].start) :
            reserved[k].written = Records(rlen, seg[i].base, reserved[k].end)

\* load adds up the segments from op.i on
Balanced ==
    IF op.pc = "load"
    THEN IF op.i \in files
         THEN nWritten - nCommitted =
                 Records(rlen, Max2(commitOff, seg[op.i].base), writeOff)
         ELSE nWritten = nCommitted /\ \A i \in files : i < op.i
    ELSE nWritten - nCommitted = Records(rlen, commitOff, writeOff)

\* The cursor load recovered is the header's of the segment that holds it
LoadHolder ==
    op.pc = "load" =>
        \A i \in files : seg[i].base < commitOff /\ commitOff < End(i) =>
            /\ seg[i].base + seg[i].hcur = commitOff

NInv ==
    /\ WrittenExact /\ HeadersExact /\ CommittedExact /\ AbandonedExact /\ Balanced
    /\ LoadHolder

-----------------------------------------------------------------------------
(* What a step leaves of the counts *)

\* What lies before the write cursor stays as it is
LEMMA OldRecords ==
    ASSUME TInv, OInv, CInv, Sized, [Next]_vars, NEW a \in Nat, NEW b \in Nat,
           b <= writeOff
    PROVE  Records(rlen', a, b) = Records(rlen, a, b)
<1>1. CASE UNCHANGED rlen
  BY <1>1
<1>2. CASE op.pc = "write" /\ \E af \in files : Publish(af)
  <2>1. \A p \in Offsets : p # writeOff => rlen'[p] = rlen[p]
    BY <1>2, PublishRecord
  <2>2. \A p \in a .. b - 1 : p \in Offsets /\ p # writeOff
    BY SegFacts, StoreAssumption DEF Offsets
  <2>3. \A p \in a .. b - 1 : rlen'[p] = rlen[p]
    BY <2>1, <2>2
  <2> QED
    BY <2>3, SameRecords
<1> QED
  BY <1>1, <1>2, GeometrySteps DEF Create, DropSegment, LoadDone

\* The active segment takes the record published
Grows(i) ==
    /\ op.pc = "write" /\ i \in files /\ Publish(i) /\ i \in Segs
    /\ End(i) = writeOff /\ seg'[i].base = seg[i].base
    /\ seg'[i].size = seg[i].size + op.len /\ seg'[i].written = seg[i].written + 1
    /\ seg'[i].hcur = seg[i].hcur /\ seg'[i].hcnt = seg[i].hcnt
    /\ seg'[i].committed = seg[i].committed

\* A segment is created, or is the one startFresh gives an empty directory
Appears(i) ==
    /\ Create \/ LoadDone
    /\ seg'[i].base = writeOff /\ seg'[i].size = 0 /\ seg'[i].written = 0
    /\ seg'[i].hcur = 0 /\ seg'[i].hcnt = 0 /\ seg'[i].committed = 0
    /\ UNCHANGED <<writeOff, commitOff>>

Stays(i) ==
    /\ i \in files /\ i \in Segs
    /\ seg'[i].base = seg[i].base /\ seg'[i].size = seg[i].size
    /\ seg'[i].written = seg[i].written

LEMMA FreshAppears ==
    ASSUME TInv, Create \/ LoadDone, NEW i \in Segs, NEW cap,
           seg' = [seg EXCEPT ![i] = Fresh(writeOff, cap)]
    PROVE  Appears(i)
<1>1. UNCHANGED <<writeOff, commitOff>>
  BY DEF Create, AppendFailed, LoadDone, cursors
<1>2. seg'[i] = Fresh(writeOff, cap)
  BY DEF TInv, TypeOK, SegType
<1> QED
  BY <1>1, <1>2 DEF Appears, Fresh

LEMMA SegmentSteps ==
    ASSUME TInv, OInv, CInv, [Next]_vars, NEW i \in files'
    PROVE  Stays(i) \/ Grows(i) \/ Appears(i)
<1>1. CASE UNCHANGED <<files, nextNum, writeOff, rlen>> /\ Kept(seg, seg')
  BY <1>1, SegFacts DEF Kept, Stays
<1>2. CASE op.pc = "write" /\ \E af \in files : Publish(af)
  <2>1. PICK af \in files : Publish(af)
    BY <1>2
  <2>2. i \in files /\ i \in Segs /\ af \in Segs /\ seg \in [Segs -> SegmentRec]
    BY <1>2, <2>1, SegFacts DEF Publish, TInv, TypeOK, SegType
  <2>3. seg' = [seg EXCEPT ![af].size = @ + op.len, ![af].written = @ + 1]
    BY <2>1 DEF Publish
  <2>4. CASE i # af
    BY <2>2, <2>3, <2>4 DEF Stays
  <2>5. CASE i = af
    <3>1. End(i) = writeOff
      BY <2>1, <2>5, ActiveIsLast DEF Publish
    <3>2. seg[af] \in SegmentRec
      BY <2>2
    <3>3. /\ seg'[af].base = seg[af].base /\ seg'[af].size = seg[af].size + op.len
          /\ seg'[af].written = seg[af].written + 1 /\ seg'[af].hcur = seg[af].hcur
          /\ seg'[af].hcnt = seg[af].hcnt /\ seg'[af].committed = seg[af].committed
      BY <2>2, <2>3, <3>2 DEF SegmentRec
    <3> QED
      BY <1>2, <2>1, <2>2, <2>5, <3>1, <3>3 DEF Grows
  <2> QED
    BY <2>4, <2>5
<1>3. CASE Create
  <2>1. /\ files' = files \union {nextNum}
        /\ seg' = [seg EXCEPT ![nextNum] = Fresh(writeOff, Max2(SegCap, op.len))]
    BY <1>3 DEF Create
  <2>2. nextNum \in Segs /\ files \subseteq Segs
    BY <1>3, SegFacts, StoreAssumption
       DEF Create, TInv, TypeOK, DiskType, Segs, AppendFits, Appending
  <2>3. CASE i = nextNum
    BY <1>3, <2>1, <2>2, <2>3, FreshAppears
  <2>4. CASE i # nextNum
    BY <2>1, <2>2, <2>4 DEF TInv, TypeOK, SegType, Stays
  <2> QED
    BY <2>3, <2>4
<1>4. CASE DropSegment
  BY <1>4, SegFacts DEF DropSegment, Stays
<1>5. CASE LoadDone
  <2>1. CASE files' = {1} /\ seg' = [seg EXCEPT ![1] = Fresh(writeOff, SegCap)]
    <3>1. i = 1 /\ 1 \in Segs
      BY <2>1, StoreAssumption DEF Segs
    <3> QED
      BY <1>5, <2>1, <3>1, FreshAppears
  <2>2. CASE UNCHANGED <<files, seg>>
    BY <2>2, SegFacts DEF Stays
  <2> QED
    BY <1>5, <2>1, <2>2 DEF LoadDone
<1> QED
  BY <1>1, <1>2, <1>3, <1>4, <1>5, GeometrySteps

\* One record is published
LEMMA PublishedCount ==
    ASSUME SInv, SInv', op.pc = "write", NEW af \in files, Publish(af)
    PROVE  /\ Records(rlen', writeOff, writeOff') = 1
           /\ writeOff \in Nat /\ writeOff' \in Nat /\ writeOff < writeOff'
<1>0. TInv /\ OInv /\ CInv /\ Sized /\ TInv' /\ writeOff \in Nat
  BY SegFacts DEF SInv, RInv
<1>1. /\ writeOff' = writeOff + op.len /\ op.len \in Nat
      /\ op.len > 0 /\ rlen'[writeOff] = op.len
      /\ \A p \in Offsets : p # writeOff => rlen'[p] = rlen[p]
  BY <1>0, PublishRecord
<1>2. writeOff' \in Nat /\ writeOff < writeOff' /\ rlen'[writeOff] > 0
  BY <1>0, <1>1
<1>3. \A q \in writeOff + 1 .. writeOff' - 1 : ~(rlen'[q] > 0)
  <2>1. SUFFICES ASSUME NEW q \in writeOff + 1 .. writeOff' - 1
                 PROVE  ~(rlen'[q] > 0)
    OBVIOUS
  <2>2. writeOff' <= MaxOff
    BY <1>0, StoreAssumption DEF TInv, TypeOK, CursorType, Offsets
  <2> PICK w \in Nat : w = writeOff'
    BY <1>2
  <2>5. q \in writeOff + 1 .. w - 1 /\ w <= MaxOff /\ MaxOff \in Nat /\ writeOff \in Nat
    BY <1>0, <2>2, StoreAssumption
  <2>3. q \in Offsets /\ q # writeOff /\ q >= writeOff
    BY ONLY <2>5 DEF Offsets
  <2>4. rlen'[q] = rlen[q]
    BY <1>1, <2>3
  <2> QED
    BY <1>0, <2>3, <2>4, TailIsClear
<1> QED
  BY <1>0, <1>2, <1>3, OneRecord

\* A segment counts one more record when one more is published in it
LEMMA NextWritten ==
    ASSUME SInv, SInv', [Next]_vars, WrittenExact
    PROVE  WrittenExact'
<1>0. TInv /\ OInv /\ CInv /\ Sized /\ TInv' /\ Tiled'
  BY DEF SInv, RInv
<1>1. SUFFICES ASSUME NEW i \in files'
               PROVE  seg'[i].written =
                         Records(rlen', seg'[i].base, seg'[i].base + seg'[i].size)
  BY DEF WrittenExact, End
<1>2. CASE Stays(i)
  <2>1. /\ seg[i].written = Records(rlen, seg[i].base, seg[i].base + seg[i].size)
        /\ seg[i].base \in Nat /\ seg[i].base + seg[i].size \in Nat
        /\ seg[i].base + seg[i].size <= writeOff
    BY <1>0, <1>2, SegFacts DEF WrittenExact, Stays, End
  <2> QED
    BY <1>0, <1>2, <2>1, OldRecords DEF Stays
<1>3. CASE Grows(i)
  <2>1. /\ seg[i].written = Records(rlen, seg[i].base, writeOff)
        /\ seg[i].base \in Nat /\ seg[i].size \in Nat /\ writeOff \in Nat
        /\ seg[i].base + seg[i].size = writeOff
    BY <1>0, <1>3, SegFacts DEF WrittenExact, Grows
  <2>2. /\ writeOff \in Offsets /\ writeOff' = writeOff + op.len /\ op.len \in Nat
        /\ op.len > 0 /\ rlen'[writeOff] = op.len
    BY <1>0, <1>3, PublishRecord DEF Grows
  <2>3. seg'[i].base + seg'[i].size = writeOff'
    BY <1>3, <2>1, <2>2 DEF Grows
  <2>4. Records(rlen', writeOff, writeOff') = 1
    BY <1>3, PublishedCount DEF Grows
  <2>5. Records(rlen', seg[i].base, writeOff) = Records(rlen, seg[i].base, writeOff)
    BY <1>0, <2>1, OldRecords
  <2>6. Records(rlen', seg[i].base, writeOff') =
           Records(rlen', seg[i].base, writeOff) + Records(rlen', writeOff, writeOff')
    <3>1. seg[i].base <= writeOff /\ writeOff <= writeOff' /\ writeOff' \in Nat
      BY <2>1, <2>2
    <3> QED
      BY <2>1, <3>1, RecordsSplit
  <2> QED
    BY <1>3, <2>1, <2>3, <2>4, <2>5, <2>6 DEF Grows
<1>4. CASE Appears(i)
  BY <1>0, <1>4, NoRecords, SegFacts DEF Appears
<1> QED
  BY <1>0, <1>2, <1>3, <1>4, SegmentSteps

-----------------------------------------------------------------------------
(* A header's count goes with its cursor *)

\* The header of segment i after a step: as it was, or full, or what the commit
\* cursor makes of it, or what load makes of it
CountStep(i) ==
    \/ seg'[i].hcur = seg[i].hcur /\ seg'[i].hcnt = seg[i].hcnt
    \/ seg'[i].hcur = seg[i].size /\ seg'[i].hcnt = seg[i].written
    \/ /\ op.pc # "load" /\ seg'[i].hcur = LoadedCursor(seg[i], commitOff)
       /\ seg'[i].hcnt = seg[i].committed
    \/ /\ op.pc = "load" /\ seg'[i].hcur = LoadedCursor(seg[i], commitOff)
       /\ seg'[i].hcnt = LoadedCount(seg[i], commitOff)

LEMMA FullCounts ==
    ASSUME TInv, NEW df \in files, seg' = Quarantine(seg, df) \/ seg' = HeaderFull(seg, df),
           NEW i \in Segs
    PROVE  CountStep(i)
<1>1. df \in Segs /\ seg \in [Segs -> SegmentRec]
  BY SegFacts DEF TInv, TypeOK, SegType
<1>2. HeaderFull(seg, df) \in [Segs -> SegmentRec]
  BY <1>1, HeaderFullShape DEF Kept
<1>3. /\ Quarantine(seg, df)[i].hcur = HeaderFull(seg, df)[i].hcur
      /\ Quarantine(seg, df)[i].hcnt = HeaderFull(seg, df)[i].hcnt
  BY <1>1, <1>2 DEF Quarantine, SegmentRec
<1>4. \/ /\ HeaderFull(seg, df)[i].hcur = seg[i].hcur
         /\ HeaderFull(seg, df)[i].hcnt = seg[i].hcnt
      \/ /\ HeaderFull(seg, df)[i].hcur = seg[i].size
         /\ HeaderFull(seg, df)[i].hcnt = seg[i].written
  BY <1>1 DEF HeaderFull, SegmentRec
<1> QED
  BY <1>3, <1>4 DEF CountStep

\* What the walk and the rollback find in the segment whose header is outstanding
LEMMA OutstandingFacts ==
    ASSUME SInv, HInv, Walks, op.cur # 0
    PROVE  /\ op.cur \in files /\ op.cur \in Segs /\ op.pc # "load"
           /\ seg[op.cur].base <= commitOff /\ commitOff <= End(op.cur)
           /\ LoadedCursor(seg[op.cur], commitOff) = commitOff - seg[op.cur].base
           /\ Min2(commitOff - seg[op.cur].base, seg[op.cur].size)
                 = commitOff - seg[op.cur].base
<1>1. TInv /\ OInv
  BY DEF SInv
<1>2. /\ op.cur \in files /\ op.cur \in Segs /\ op.pc # "load"
      /\ seg[op.cur].base <= commitOff /\ commitOff <= End(op.cur)
  BY <1>1, WalkFacts DEF HInv, Outstanding
<1> DEFINE i == op.cur
<1>3. /\ seg[i] \in SegmentRec /\ seg[i].base \in Nat /\ seg[i].size \in Nat
      /\ commitOff \in Nat /\ commitOff <= seg[i].base + seg[i].size
  BY <1>1, <1>2, SegFacts DEF TInv, TypeOK, SegType
<1> HIDE DEF i
<1>4. LoadedCursor(seg[i], commitOff) = commitOff - seg[i].base
  BY <1>2, <1>3, LoadedBounds DEF i
<1>5. Min2(commitOff - seg[i].base, seg[i].size) = commitOff - seg[i].base
  BY <1>3 DEF Min2
<1> QED
  BY <1>2, <1>4, <1>5 DEF i

LEMMA CountSteps ==
    ASSUME SInv, HInv, [Next]_vars, NEW i \in files', Stays(i)
    PROVE  CountStep(i)
<1>0. TInv /\ OInv /\ CInv /\ i \in Segs /\ i \in files /\ seg \in [Segs -> SegmentRec]
  BY DEF SInv, Stays, TInv, TypeOK, SegType
<1>1. CASE UNCHANGED seg
  BY <1>1 DEF CountStep
<1>2. CASE \E n \in 1 .. MaxLen : Add(n)
  BY <1>1, <1>2 DEF Add, disk
<1>3. CASE QuarantineHead \/ QuarantineLatched \/ WalkQuarantine \/ WalkQuarantineFailed
  <2>1. \/ UNCHANGED seg
        \/ \E df \in files : seg' = Quarantine(seg, df) \/ seg' = HeaderFull(seg, df)
    BY <1>3 DEF QuarantineHead, QuarantineLatched, WalkQuarantine, WalkQuarantineFailed,
       Quarantine
  <2> QED
    BY <1>0, <1>1, <2>1, FullCounts
<1>4. CASE Consume /\ ~(QuarantineHead \/ QuarantineLatched)
  BY <1>1, <1>4 DEF Consume, ReadDamage, Reserve, Take, Skip, Requeue, Unread, PayReport,
     DropRecord, DeferDamage, StartForce, TakeHead, disk
<1>5. CASE Retire \/ Rewind
  BY <1>1, <1>5 DEF Retire, Ack, AckBatch, Commit, Rewind, disk
<1>6. CASE CreateRefused \/ WriteFailed
  BY <1>1, <1>6 DEF CreateRefused, WriteFailed, disk
<1>7. CASE Create
  <2>1. seg' = [seg EXCEPT ![nextNum] = Fresh(writeOff, Max2(SegCap, op.len))]
    BY <1>7 DEF Create
  <2>2. i # nextNum
    BY <1>0, SegFacts, StoreAssumption DEF OInv, Layout, Segs, TInv, TypeOK, DiskType
  <2> QED
    BY <1>0, <2>1, <2>2 DEF CountStep
<1>8. CASE Write \/ WriteLatched
  <2>1. PICK af \in files : Publish(af)
    BY <1>8 DEF Write, WriteLatched
  <2>2. seg' = [seg EXCEPT ![af].size = @ + op.len, ![af].written = @ + 1]
    BY <2>1 DEF Publish
  <2> QED
    BY <1>0, <2>2 DEF CountStep, SegmentRec
<1>9. CASE DropStep \/ RunStep \/ CommitEnds
  BY <1>1, <1>9 DEF DropStep, DropSegment, DropStuck, DropDone, RunStep, CommitEnds, disk
<1>10. CASE WalkOver \/ WalkUnreadable \/ WalkStopsAtDamage
  BY <1>1, <1>10 DEF WalkOver, WalkUnreadable, WalkStopsAtDamage, disk
<1>11. CASE WalkLeave \/ Settle
  <2>1. /\ Walks
        /\ \/ UNCHANGED seg
           \/ op.cur # 0 /\ (Persisted(op.cur) \/ RolledBack(op.cur))
    BY <1>11 DEF WalkLeave, Settle, Walks
  <2>2. CASE op.cur # 0 /\ Persisted(op.cur)
    <3>1. /\ op.pc # "load" /\ op.cur \in Segs
          /\ LoadedCursor(seg[op.cur], commitOff) = commitOff - seg[op.cur].base
          /\ Min2(commitOff - seg[op.cur].base, seg[op.cur].size)
                = commitOff - seg[op.cur].base
      BY <2>1, <2>2, OutstandingFacts
    <3>2. \/ UNCHANGED seg
          \/ seg' = [seg EXCEPT ![op.cur].hcur = LoadedCursor(seg[op.cur], commitOff),
                                ![op.cur].hcnt = seg[op.cur].committed]
      BY <2>2, <3>1 DEF Persisted
    <3>3. seg[op.cur] \in SegmentRec
      BY <1>0, <3>1
    <3> QED
      BY <1>0, <1>1, <3>1, <3>2, <3>3 DEF CountStep, SegmentRec
  <2>3. CASE op.cur # 0 /\ RolledBack(op.cur)
    BY <1>0, <2>3 DEF RolledBack, CountStep, SegmentRec
  <2> QED
    BY <1>1, <2>1, <2>2, <2>3
<1>12. CASE WalkAbandoned \/ WalkRecord
  <2>1. CASE WalkRecord
    BY <1>0, <1>1, <2>1 DEF WalkRecord, CountStep, SegmentRec
  <2>2. CASE WalkAbandoned
    BY <1>0, <1>1, <2>2 DEF WalkAbandoned, CountStep, SegmentRec
  <2> QED
    BY <1>12, <2>1, <2>2
<1>13. CASE ForceStep \/ ForceFailed \/ ForceLatched \/ ForceDone
  BY <1>0, <1>13 DEF CInv, ForceStep, ForceFailed, ForceLatched, ForceDone
<1>14. CASE LoadStep
  BY <1>0, <1>14 DEF LoadStep, CountStep, SegmentRec
<1>15. CASE LoadDone
  BY <1>0, <1>1, <1>15 DEF LoadDone
<1>16. CASE Environment
  BY <1>1, <1>16 DEF Environment, Crash, FailSync, Rot, Vanish, disk
<1>17. CASE UNCHANGED vars
  BY <1>1, <1>17 DEF vars, disk
<1> QED
  BY <1>2, <1>3, <1>4, <1>5, <1>6, <1>7, <1>8, <1>9, <1>10, <1>11, <1>12, <1>13, <1>14,
     <1>15, <1>16, <1>17 DEF Next, OpStep, AppendStep, WalkStep

\* What load counts is what the cursor it recovered has passed
LEMMA LoadedIsExact ==
    ASSUME SInv, NInv, op.pc = "load", NEW i \in files
    PROVE  LoadedCount(seg[i], commitOff) = Records(rlen, seg[i].base, Reached(i, commitOff))
<1>0. /\ TInv /\ i \in Segs /\ seg[i].base \in Nat /\ seg[i].size \in Nat
      /\ seg[i].hcur \in Nat /\ seg[i].written \in Nat /\ seg[i].hcnt \in Nat
      /\ commitOff \in Nat /\ End(i) = seg[i].base + seg[i].size
  BY SegFacts DEF SInv
<1>1. /\ seg[i].written = Records(rlen, seg[i].base, seg[i].base + seg[i].size)
      /\ seg[i].hcnt = Records(rlen, seg[i].base, seg[i].base + seg[i].hcur)
      /\ seg[i].base < commitOff /\ commitOff < seg[i].base + seg[i].size =>
            seg[i].base + seg[i].hcur = commitOff
  BY <1>0 DEF NInv, WrittenExact, HeadersExact, LoadHolder
<1>2. CASE seg[i].base + seg[i].size <= commitOff
  BY <1>0, <1>1, <1>2 DEF LoadedCount, LoadedCursor, Reached
<1>3. CASE seg[i].base + seg[i].size > commitOff /\ seg[i].base >= commitOff
  <2>1. LoadedCount(seg[i], commitOff) = 0 /\ Reached(i, commitOff) = seg[i].base
    BY <1>0, <1>3 DEF LoadedCount, LoadedCursor, Reached
  <2> QED
    BY <1>0, <2>1, NoRecords
<1>4. CASE seg[i].base + seg[i].size > commitOff /\ seg[i].base < commitOff
  <2>1. /\ LoadedCount(seg[i], commitOff) = Min2(seg[i].hcnt, seg[i].written)
        /\ Reached(i, commitOff) = commitOff
    BY <1>0, <1>4 DEF LoadedCount, LoadedCursor, Reached
  <2>2. seg[i].hcnt = Records(rlen, seg[i].base, commitOff)
    BY <1>0, <1>1, <1>4
  <2>3. seg[i].written = seg[i].hcnt
                         + Records(rlen, commitOff, seg[i].base + seg[i].size)
    BY <1>0, <1>1, <1>4, <2>2, RecordsSplit
  <2>4. Records(rlen, commitOff, seg[i].base + seg[i].size) \in Nat
    <3>1. seg[i].base + seg[i].size \in Nat
      BY <1>0
    <3> QED
      BY <1>0, <3>1, RecordsFinite
  <2>5. Min2(seg[i].hcnt, seg[i].written) = seg[i].hcnt
    BY <1>0, <2>3, <2>4 DEF Min2
  <2> QED
    BY <2>1, <2>2, <2>5
<1> QED
  BY <1>0, <1>2, <1>3, <1>4

LEMMA NextHeaderCounts ==
    ASSUME SInv, HInv, NInv, [Next]_vars
    PROVE  HeadersExact'
<1>0. TInv /\ OInv /\ CInv /\ Sized
  BY DEF SInv, RInv
<1>1. SUFFICES ASSUME NEW i \in files'
               PROVE  seg'[i].hcnt =
                         Records(rlen', seg'[i].base, seg'[i].base + seg'[i].hcur)
  BY DEF HeadersExact
<1>s. ASSUME i \in files, i \in Segs
      PROVE  /\ seg[i].base \in Nat /\ seg[i].size \in Nat /\ seg[i].hcur \in Nat
             /\ seg[i].base + seg[i].size <= writeOff /\ seg[i].hcur <= seg[i].size
             /\ writeOff \in Nat
             /\ seg[i].hcnt = Records(rlen, seg[i].base, seg[i].base + seg[i].hcur)
             /\ seg[i].written = Records(rlen, seg[i].base, seg[i].base + seg[i].size)
             /\ LoadedCursor(seg[i], commitOff) \in Nat
             /\ LoadedCursor(seg[i], commitOff) <= seg[i].size
  BY <1>0, <1>s, SegFacts, LoadedFacts DEF NInv, WrittenExact, HeadersExact, End
<1>2. ASSUME NEW h \in Nat, i \in files, i \in Segs, h <= seg[i].size,
             seg'[i].base = seg[i].base, seg'[i].hcur = h,
             seg'[i].hcnt = Records(rlen, seg[i].base, seg[i].base + h)
      PROVE  seg'[i].hcnt = Records(rlen', seg'[i].base, seg'[i].base + seg'[i].hcur)
  <2>1. seg[i].base + h \in Nat /\ seg[i].base + h <= writeOff /\ seg[i].base \in Nat
    BY <1>2, <1>s
  <2>2. Records(rlen', seg[i].base, seg[i].base + h)
           = Records(rlen, seg[i].base, seg[i].base + h)
    BY <1>0, <2>1, OldRecords
  <2> QED
    BY <1>2, <2>2
<1>3. CASE Stays(i)
  <2>1. i \in files /\ i \in Segs /\ seg'[i].base = seg[i].base
    BY <1>3 DEF Stays
  <2>2. CASE seg'[i].hcur = seg[i].hcur /\ seg'[i].hcnt = seg[i].hcnt
    BY <1>2, <1>s, <2>1, <2>2
  <2>3. CASE seg'[i].hcur = seg[i].size /\ seg'[i].hcnt = seg[i].written
    BY <1>2, <1>s, <2>1, <2>3
  <2>4. CASE /\ op.pc # "load" /\ seg'[i].hcur = LoadedCursor(seg[i], commitOff)
             /\ seg'[i].hcnt = seg[i].committed
    <3>1. seg[i].committed =
             Records(rlen, seg[i].base, seg[i].base + LoadedCursor(seg[i], commitOff))
      BY <2>1, <2>4 DEF NInv, CommittedExact, Reached
    <3> QED
      BY <1>2, <1>s, <2>1, <2>4, <3>1
  <2>5. CASE /\ op.pc = "load" /\ seg'[i].hcur = LoadedCursor(seg[i], commitOff)
             /\ seg'[i].hcnt = LoadedCount(seg[i], commitOff)
    <3>1. LoadedCount(seg[i], commitOff) =
             Records(rlen, seg[i].base, seg[i].base + LoadedCursor(seg[i], commitOff))
      BY <2>1, <2>5, LoadedIsExact DEF Reached
    <3> QED
      BY <1>2, <1>s, <2>1, <2>5, <3>1
  <2> QED
    BY <1>3, <2>2, <2>3, <2>4, <2>5, CountSteps DEF CountStep
<1>4. CASE Grows(i)
  BY <1>2, <1>s, <1>4 DEF Grows
<1>5. CASE Appears(i)
  BY <1>0, <1>5, NoRecords, SegFacts DEF Appears
<1> QED
  BY <1>0, <1>3, <1>4, <1>5, SegmentSteps

-----------------------------------------------------------------------------
(* The commit cursor and the totals move together *)

\* Where the cursor stands in a segment it has passed, not reached, or is in
LEMMA ReachedFacts ==
    ASSUME TInv, NEW i \in Segs, NEW c \in Nat
    PROVE  /\ Reached(i, c) \in Nat /\ seg[i].base <= Reached(i, c)
           /\ Reached(i, c) <= End(i) /\ End(i) <= writeOff
           /\ End(i) <= c => Reached(i, c) = End(i)
           /\ c <= seg[i].base => Reached(i, c) = seg[i].base
           /\ seg[i].base <= c /\ c <= End(i) => Reached(i, c) = c
<1>1. /\ seg[i] \in SegmentRec /\ seg[i].base \in Nat /\ seg[i].size \in Nat
      /\ End(i) = seg[i].base + seg[i].size /\ End(i) <= writeOff
  BY SegFacts DEF TInv, TypeOK, SegType
<1>2. /\ LoadedCursor(seg[i], c) \in Nat /\ LoadedCursor(seg[i], c) <= seg[i].size
      /\ seg[i].base + seg[i].size <= c => LoadedCursor(seg[i], c) = seg[i].size
      /\ c <= seg[i].base => LoadedCursor(seg[i], c) = 0
      /\ seg[i].base <= c /\ c <= seg[i].base + seg[i].size =>
            LoadedCursor(seg[i], c) = c - seg[i].base
  BY <1>1, LoadedBounds
<1> QED
  BY <1>1, <1>2 DEF Reached

\* A segment the commit cursor stays clear of keeps what it has reached
LEMMA ReachedElsewhere ==
    ASSUME TInv, OInv, NEW df \in files, NEW i \in files, i # df,
           NEW c \in Nat, seg[df].base <= c, c <= End(df),
           NEW d \in Nat, seg[df].base <= d, d <= End(df)
    PROVE  Reached(i, c) = Reached(i, d)
<1>1. i \in Segs /\ df \in Segs /\ i \in Nat /\ df \in Nat
  BY SegFacts DEF Segs
<1>2. /\ End(i) \in Nat /\ End(df) \in Nat /\ seg[i].base \in Nat /\ seg[df].base \in Nat
  BY <1>1, SegFacts, StoreAssumption DEF Offsets
<1>3. CASE i < df
  <2>1. End(i) <= seg[df].base
    BY <1>3 DEF OInv, Layout
  <2>2. End(i) <= c /\ End(i) <= d
    BY <1>2, <2>1
  <2> QED
    BY <1>1, <2>2, ReachedFacts
<1>4. CASE df < i
  <2>1. End(df) <= seg[i].base
    BY <1>4 DEF OInv, Layout
  <2>2. c <= seg[i].base /\ d <= seg[i].base
    BY <1>2, <2>1
  <2> QED
    BY <1>1, <2>2, ReachedFacts
<1> QED
  BY <1>1, <1>3, <1>4

\* The commit cursor moves within segment df, either way, and df's count with it
LEMMA CursorCounts ==
    ASSUME SInv, NInv, NEW df \in files, NEW c \in Nat, op.pc # "load", op'.pc # "load",
           seg[df].base <= commitOff, commitOff <= End(df),
           seg[df].base <= c, c <= End(df), commitOff' = c,
           Kept(seg, seg'), UNCHANGED <<files, rlen, writeOff, nWritten>>,
           seg'[df].committed = Records(rlen, seg[df].base, c),
           \A j \in Segs : j # df => seg'[j].committed = seg[j].committed,
           nCommitted' = nCommitted + (seg'[df].committed - seg[df].committed)
    PROVE  CommittedExact' /\ Balanced'
<1>0. /\ TInv /\ OInv /\ df \in Segs /\ commitOff \in Nat /\ writeOff \in Nat
      /\ seg[df].base \in Nat /\ End(df) \in Nat /\ End(df) <= writeOff
      /\ nWritten \in Int /\ nCommitted \in Int
  BY SegFacts, StoreAssumption DEF SInv, Offsets, TInv, TypeOK, CountType
<1>1. CommittedExact'
  <2>1. SUFFICES ASSUME NEW i \in files
                 PROVE  seg'[i].committed =
                           Records(rlen, seg'[i].base,
                                   seg'[i].base + LoadedCursor(seg'[i], c))
    BY DEF CommittedExact, Reached
  <2>2. /\ i \in Segs /\ seg'[i].base = seg[i].base
        /\ LoadedCursor(seg'[i], c) = LoadedCursor(seg[i], c)
    BY <1>0, SegFacts, LoadedExtent DEF Kept
  <2>3. seg'[i].committed = Records(rlen, seg[i].base, Reached(i, c))
    <3>1. CASE i = df
      BY <1>0, <3>1, ReachedFacts
    <3>2. CASE i # df
      <4>1. seg[i].committed = Records(rlen, seg[i].base, Reached(i, commitOff))
        BY DEF NInv, CommittedExact
      <4>2. Reached(i, commitOff) = Reached(i, c)
        BY <1>0, <3>2, ReachedElsewhere
      <4> QED
        BY <2>2, <3>2, <4>1, <4>2
    <3> QED
      BY <3>1, <3>2
  <2> QED
    BY <2>2, <2>3 DEF Reached
<1>2. Balanced'
  <2>1. seg[df].committed = Records(rlen, seg[df].base, commitOff)
    BY <1>0, ReachedFacts DEF NInv, CommittedExact
  <2>2. nWritten - nCommitted = Records(rlen, commitOff, writeOff)
    BY DEF NInv, Balanced
  <2>3. /\ Records(rlen, seg[df].base, writeOff) =
              Records(rlen, seg[df].base, commitOff) + Records(rlen, commitOff, writeOff)
        /\ Records(rlen, seg[df].base, writeOff) =
              Records(rlen, seg[df].base, c) + Records(rlen, c, writeOff)
    <3>1. commitOff <= writeOff /\ c <= writeOff
      BY <1>0
    <3> QED
      BY <1>0, <3>1, RecordsSplit
  <2>4. /\ Records(rlen, seg[df].base, commitOff) \in Nat
        /\ Records(rlen, commitOff, writeOff) \in Nat
        /\ Records(rlen, seg[df].base, c) \in Nat /\ Records(rlen, c, writeOff) \in Nat
    BY <1>0, RecordsFinite
  <2>5. nWritten - nCommitted' = Records(rlen, c, writeOff)
    BY <1>0, <2>1, <2>2, <2>3, <2>4
  <2> QED
    BY <2>5 DEF Balanced
<1> QED
  BY <1>1, <1>2

\* A step that leaves the commit cursor where it is
LEMMA CommittedStays ==
    ASSUME SInv, SInv', NInv, [Next]_vars, UNCHANGED commitOff, NEW i \in files',
           i \in files =>
              (op.pc = "load" => i >= op.i) /\ seg'[i].committed = seg[i].committed
    PROVE  seg'[i].committed = Records(rlen', seg'[i].base, Reached(i, commitOff)')
<1>0. TInv /\ OInv /\ CInv /\ Sized /\ commitOff \in Nat /\ writeOff \in Nat /\ TInv'
  BY SegFacts DEF SInv, RInv
<1>1. ASSUME i \in files, i \in Segs, seg'[i].base = seg[i].base,
             LoadedCursor(seg'[i], commitOff) = LoadedCursor(seg[i], commitOff)
      PROVE  seg'[i].committed = Records(rlen', seg'[i].base, Reached(i, commitOff)')
  <2>1. seg[i].committed = Records(rlen, seg[i].base, Reached(i, commitOff))
    BY <1>1 DEF NInv, CommittedExact
  <2>2. /\ Reached(i, commitOff) \in Nat /\ Reached(i, commitOff) <= End(i)
        /\ End(i) <= writeOff /\ seg[i].base \in Nat /\ End(i) \in Nat
    BY <1>0, <1>1, ReachedFacts, SegFacts, StoreAssumption DEF Offsets
  <2>3. Records(rlen', seg[i].base, Reached(i, commitOff))
           = Records(rlen, seg[i].base, Reached(i, commitOff))
    <3>1. Reached(i, commitOff) <= writeOff
      BY <1>0, <2>2
    <3> QED
      BY <1>0, <2>2, <3>1, OldRecords
  <2>4. Reached(i, commitOff)' = Reached(i, commitOff)
    BY <1>1 DEF Reached
  <2> QED
    BY <1>1, <2>1, <2>3, <2>4
<1>2. CASE Stays(i)
  BY <1>1, <1>2, LoadedExtent DEF Stays
<1>3. CASE Grows(i)
  <2>1. /\ i \in files /\ i \in Segs /\ seg'[i].base = seg[i].base
        /\ seg'[i].size = seg[i].size + op.len /\ End(i) = writeOff /\ op.len \in Nat
    BY <1>0, <1>3 DEF Grows, TInv, TypeOK, OpType, Op
  <2>2. /\ seg[i] \in SegmentRec /\ seg'[i] \in SegmentRec /\ seg[i].base \in Nat
        /\ seg[i].size \in Nat /\ seg[i].base + seg[i].size = writeOff
        /\ commitOff <= writeOff
    BY <1>0, <2>1, SegFacts DEF TInv, TypeOK, SegType, SInv, OInv, CursorOrder
  <2>3. /\ commitOff <= seg[i].base => LoadedCursor(seg[i], commitOff) = 0
        /\ seg[i].base <= commitOff =>
              LoadedCursor(seg[i], commitOff) = commitOff - seg[i].base
    BY <1>0, <2>2, LoadedBounds
  <2>4. /\ commitOff <= seg[i].base => LoadedCursor(seg'[i], commitOff) = 0
        /\ seg[i].base <= commitOff =>
              LoadedCursor(seg'[i], commitOff) = commitOff - seg[i].base
    <3>1. commitOff <= seg'[i].base + seg'[i].size
      BY <1>0, <2>1, <2>2
    <3> QED
      BY <1>0, <2>1, <2>2, <3>1, LoadedBounds
  <2>5. LoadedCursor(seg'[i], commitOff) = LoadedCursor(seg[i], commitOff)
    BY <1>0, <2>2, <2>3, <2>4
  <2> QED
    BY <1>1, <2>1, <2>5
<1>4. CASE Appears(i)
  <2>1. /\ seg'[i].base = writeOff /\ seg'[i].size = 0 /\ seg'[i].committed = 0
        /\ i \in Segs /\ seg'[i] \in SegmentRec
    BY <1>0, <1>4, SegFacts DEF Appears, TInv, TypeOK, SegType, DiskType
  <2>2. LoadedCursor(seg'[i], commitOff) \in Nat /\ LoadedCursor(seg'[i], commitOff) <= 0
    BY <1>0, <2>1, LoadedBounds
  <2>3. Reached(i, commitOff)' = writeOff
    BY <1>0, <2>1, <2>2 DEF Reached
  <2> QED
    BY <1>0, <2>1, <2>3, NoRecords
<1> QED
  BY <1>0, <1>2, <1>3, <1>4, SegmentSteps

-----------------------------------------------------------------------------
(* The steps that move the commit cursor *)

\* The walk steps over a record, or over deferred damage
LEMMA AdvanceCounts ==
    ASSUME SInv, NInv, NEW df \in files, Walking(df), NEW c \in Nat, NEW n \in Nat,
           commitOff <= c, c <= End(df), commitOff' = c,
           seg' = [seg EXCEPT ![df].committed = @ + n], nCommitted' = nCommitted + n,
           Records(rlen, seg[df].base, c) = seg[df].committed + n,
           UNCHANGED <<files, rlen, writeOff, nWritten>>, op' = [op EXCEPT !.cur = df]
    PROVE  CommittedExact' /\ Balanced'
<1>1. /\ TInv /\ df \in Segs /\ seg \in [Segs -> SegmentRec] /\ commitOff \in Nat
      /\ seg[df].base \in Nat /\ End(df) \in Nat /\ seg[df].committed \in Nat
      /\ op \in Op /\ nCommitted \in Int
  BY SegFacts, StoreAssumption
     DEF SInv, Offsets, TInv, TypeOK, SegType, OpType, CountType
<1>2. /\ op.pc # "load" /\ op'.pc # "load"
      /\ seg[df].base <= commitOff /\ commitOff <= End(df) /\ seg[df].base <= c
  BY <1>1 DEF Walking, Holding, Op
<1>3. Kept(seg, seg')
  <2>1. PICK m \in Nat : m = seg[df].committed + n
    BY <1>1
  <2>2. seg' = WithCommitted(seg, df, m)
    BY <2>1 DEF WithCommitted
  <2>3. Kept(seg, WithCommitted(seg, df, m))
    BY <1>1, CommittedShape
  <2> QED
    BY <2>2, <2>3
<1>4. /\ seg'[df].committed = seg[df].committed + n
      /\ \A j \in Segs : j # df => seg'[j].committed = seg[j].committed
  BY <1>1 DEF SegmentRec
<1>5. nCommitted' = nCommitted + (seg'[df].committed - seg[df].committed)
  BY <1>1, <1>4
<1>6. seg'[df].committed = Records(rlen, seg[df].base, c)
  BY <1>4
<1> QED
  BY <1>2, <1>3, <1>4, <1>5, <1>6, CursorCounts

\* What segment df holds up to the commit cursor the walk stands at
LEMMA WalkedCount ==
    ASSUME SInv, NInv, op.pc # "load", NEW df \in Holding(commitOff)
    PROVE  /\ seg[df].committed = Records(rlen, seg[df].base, commitOff)
           /\ df \in Segs /\ seg[df].base \in Nat /\ commitOff \in Nat /\ End(df) \in Nat
           /\ seg[df].base <= commitOff /\ commitOff < End(df) /\ End(df) <= writeOff
           /\ seg[df].written = Records(rlen, seg[df].base, End(df))
           /\ writeOff \in Nat /\ seg[df].committed \in Nat /\ seg[df].written \in Nat
<1>1. /\ TInv /\ df \in files /\ df \in Segs /\ seg[df].base \in Nat /\ commitOff \in Nat
      /\ End(df) \in Nat /\ seg[df].base <= commitOff /\ commitOff < End(df)
      /\ End(df) <= writeOff /\ writeOff \in Nat
      /\ seg[df].committed \in Nat /\ seg[df].written \in Nat
  BY SegFacts, StoreAssumption DEF SInv, Offsets, Holding
<1>2. Reached(df, commitOff) = commitOff
  BY <1>1, ReachedFacts
<1> QED
  BY <1>1, <1>2 DEF NInv, CommittedExact, WrittenExact

LEMMA StopCounts ==
    ASSUME SInv, NInv, op.pc # "load", op'.pc # "load",
           UNCHANGED <<files, rlen, writeOff, nWritten, commitOff, nCommitted>>,
           \A i \in files : /\ seg'[i].base = seg[i].base /\ seg'[i].size = seg[i].size
                            /\ seg'[i].committed = seg[i].committed
    PROVE  CommittedExact' /\ Balanced'
<1>1. Balanced'
  BY DEF NInv, Balanced
<1>2. ASSUME NEW i \in files
      PROVE  seg'[i].committed =
                Records(rlen, seg'[i].base, seg'[i].base + LoadedCursor(seg'[i], commitOff))
  <2>1. LoadedCursor(seg'[i], commitOff) = LoadedCursor(seg[i], commitOff)
    BY LoadedExtent
  <2> QED
    BY <2>1 DEF NInv, CommittedExact, Reached
<1> QED
  BY <1>1, <1>2 DEF CommittedExact, Reached

LEMMA WalkRecordCounts ==
    ASSUME SInv, NInv, WalkRecord
    PROVE  CommittedExact' /\ Balanced'
<1>0. TInv /\ OInv /\ CInv /\ Tiled /\ commitOff \in Offsets
  BY DEF SInv, RInv, TInv, TypeOK, CursorType
<1>w. PICK df \in files : \E next \in FrameEnd(df, commitOff) :
        /\ Walking(df) /\ commitOff < next
        /\ \/ /\ op' = [op EXCEPT !.pc = "settle"]
              /\ UNCHANGED <<commitOff, nCommitted, seg>>
           \/ /\ commitOff' = next /\ nCommitted' = nCommitted + 1
              /\ seg' = [seg EXCEPT ![df].committed = @ + 1]
              /\ op' = [op EXCEPT !.cur = df]
  BY DEF WalkRecord
<1>1. PICK next \in FrameEnd(df, commitOff) :
        /\ Walking(df) /\ commitOff < next
        /\ \/ /\ op' = [op EXCEPT !.pc = "settle"]
              /\ UNCHANGED <<commitOff, nCommitted, seg>>
           \/ /\ commitOff' = next /\ nCommitted' = nCommitted + 1
              /\ seg' = [seg EXCEPT ![df].committed = @ + 1]
              /\ op' = [op EXCEPT !.cur = df]
  BY <1>w
<1>2. UNCHANGED <<files, rlen, writeOff, nWritten>>
  BY DEF WalkRecord
<1>3. Frame(commitOff, next)
  BY FrameEndFrames DEF WalkRecord
<1>4. next \in Nat /\ next <= End(df) /\ Records(rlen, commitOff, next) = 1
  BY <1>0, <1>1, <1>3, FrameInSegment, FrameCounts DEF Walking
<1>5. CASE op' = [op EXCEPT !.pc = "settle"] /\ UNCHANGED <<commitOff, nCommitted, seg>>
  <2>1. op.pc # "load" /\ op'.pc # "load"
    BY <1>0, <1>1, <1>5 DEF Walking, TInv, TypeOK, OpType, Op
  <2> QED
    BY <1>2, <1>5, <2>1, StopCounts
<1>6. CASE /\ commitOff' = next /\ nCommitted' = nCommitted + 1
           /\ seg' = [seg EXCEPT ![df].committed = @ + 1]
           /\ op' = [op EXCEPT !.cur = df]
  <2>1. /\ seg[df].committed = Records(rlen, seg[df].base, commitOff)
        /\ seg[df].base \in Nat /\ commitOff \in Nat /\ seg[df].base <= commitOff
    BY <1>1, WalkedCount DEF Walking
  <2>2. Records(rlen, seg[df].base, next)
           = Records(rlen, seg[df].base, commitOff) + Records(rlen, commitOff, next)
    <3>1. commitOff <= next
      BY <1>1, <1>4, <2>1
    <3> QED
      BY <1>4, <2>1, <3>1, RecordsSplit
  <2>3. Records(rlen, seg[df].base, next) = seg[df].committed + 1
    BY <1>4, <2>1, <2>2
  <2>4. commitOff <= next
    BY <1>1, <1>4, <2>1
  <2> QED
    BY <1>1, <1>2, <1>4, <1>6, <2>3, <2>4, AdvanceCounts
<1> QED
  BY <1>1, <1>5, <1>6

LEMMA WalkAbandonedCounts ==
    ASSUME SInv, NInv, WalkAbandoned
    PROVE  CommittedExact' /\ Balanced'
<1>0. TInv /\ OInv /\ CInv
  BY DEF SInv
<1>1. PICK df \in files, k \in EntryAt(commitOff) :
        /\ Walking(df) /\ reserved[k].corrupt
        /\ \/ /\ op' = [op EXCEPT !.pc = "settle"]
              /\ UNCHANGED <<commitOff, nCommitted, seg>>
           \/ /\ commitOff' = reserved[k].end
              /\ nCommitted' = nCommitted + Max2(reserved[k].written - seg[df].committed, 0)
              /\ seg' = [seg EXCEPT ![df].committed =
                              @ + Max2(reserved[k].written - seg[df].committed, 0)]
              /\ op' = [op EXCEPT !.cur = df]
  BY DEF WalkAbandoned
<1>2. UNCHANGED <<files, rlen, writeOff, nWritten>>
  BY DEF WalkAbandoned
<1>3. CASE op' = [op EXCEPT !.pc = "settle"] /\ UNCHANGED <<commitOff, nCommitted, seg>>
  <2>1. op.pc # "load" /\ op'.pc # "load"
    BY <1>0, <1>1, <1>3 DEF Walking, TInv, TypeOK, OpType, Op
  <2> QED
    BY <1>2, <1>3, <2>1, StopCounts
<1> DEFINE c == reserved[k].end
           n == Max2(reserved[k].written - seg[df].committed, 0)
<1>4. CASE /\ commitOff' = c /\ nCommitted' = nCommitted + n
           /\ seg' = [seg EXCEPT ![df].committed = @ + n]
           /\ op' = [op EXCEPT !.cur = df]
  <2>1. /\ seg[df].committed = Records(rlen, seg[df].base, commitOff)
        /\ seg[df].base \in Nat /\ commitOff \in Nat /\ seg[df].base <= commitOff
        /\ seg[df].committed \in Nat
    BY <1>1, WalkedCount DEF Walking
  <2>2. /\ c \in Nat /\ c <= End(df) /\ commitOff <= c
    <3>1. df \in Holding(commitOff) /\ c > commitOff
      BY <1>1 DEF Walking, EntryAt
    <3>2. c \in Offsets /\ c <= End(df)
      BY <1>1, <3>1, AbandonedInSegment
    <3> QED
      BY <2>1, <3>1, <3>2, StoreAssumption DEF Offsets
  <2>3. reserved[k].written = Records(rlen, seg[df].base, c)
    BY <1>1 DEF NInv, AbandonedExact, EntryAt, Walking
  <2>4. Records(rlen, seg[df].base, c)
           = Records(rlen, seg[df].base, commitOff) + Records(rlen, commitOff, c)
    BY <2>1, <2>2, RecordsSplit
  <2>5. Records(rlen, commitOff, c) \in Nat
    BY <2>1, <2>2, RecordsFinite
  <2>6. n \in Nat /\ Records(rlen, seg[df].base, c) = seg[df].committed + n
    BY <2>1, <2>3, <2>4, <2>5 DEF Max2
  <2> HIDE DEF n, c
  <2> QED
    BY <1>1, <1>2, <1>4, <2>2, <2>6, AdvanceCounts
<1> QED
  BY <1>1, <1>3, <1>4

\* A quarantine commits what the segment still holds
LEMMA QuarantineCounts ==
    ASSUME SInv, NInv, WalkQuarantine \/ QuarantineHead
    PROVE  CommittedExact' /\ Balanced'
<1>0. TInv /\ seg \in [Segs -> SegmentRec] /\ op \in Op
  BY DEF SInv, TInv, TypeOK, SegType, OpType
<1>1. PICK df \in files :
        /\ df \in Holding(commitOff) /\ commitOff' = End(df)
        /\ seg' = Quarantine(seg, df)
        /\ nCommitted' = nCommitted + (seg[df].written - seg[df].committed)
  BY DEF WalkQuarantine, QuarantineHead, Walking, Unreadable, Reading, Quarantine
<1>2. /\ UNCHANGED <<files, rlen, writeOff, nWritten>>
      /\ op.pc # "load" /\ op'.pc # "load"
  BY <1>0 DEF WalkQuarantine, QuarantineHead, Walking, Unreadable, Reading, Op
<1>3. /\ df \in Segs /\ seg[df].base <= commitOff /\ commitOff <= End(df)
      /\ seg[df].base <= End(df) /\ End(df) \in Nat
      /\ seg[df].written = Records(rlen, seg[df].base, End(df))
  BY <1>1, <1>2, WalkedCount
<1>4. Kept(seg, seg')
  BY <1>0, <1>1, <1>3, QuarantineShape
<1>5. /\ seg'[df].committed = seg[df].written
      /\ \A j \in Segs : j # df => seg'[j].committed = seg[j].committed
  <2>1. HeaderFull(seg, df) \in [Segs -> SegmentRec]
    BY <1>0, <1>3, HeaderFullShape DEF Kept
  <2>2. \A j \in Segs : HeaderFull(seg, df)[j].committed = seg[j].committed
    BY <1>0, <1>3 DEF HeaderFull, SegmentRec
  <2> QED
    BY <1>1, <1>3, <2>1, <2>2 DEF Quarantine, SegmentRec
<1> QED
  BY <1>1, <1>2, <1>3, <1>4, <1>5, CursorCounts

\* The header is written, and nothing is counted; or it is not, and the totals fall
\* back to what it says
LEMMA SettledCounts ==
    ASSUME SInv, HInv, NInv, WalkLeave \/ Settle
    PROVE  CommittedExact' /\ Balanced'
<1>0. /\ TInv /\ seg \in [Segs -> SegmentRec] /\ op \in Op /\ Walks
  BY DEF SInv, TInv, TypeOK, SegType, OpType, WalkLeave, Settle, Walks
<1>1. /\ UNCHANGED <<files, rlen, writeOff, nWritten>>
      /\ op.pc # "load" /\ op'.pc # "load"
  BY <1>0 DEF WalkLeave, Settle, Walks, Op
<1>2. CASE UNCHANGED <<seg, commitOff, nCommitted>>
  BY <1>1, <1>2, StopCounts
<1>c. ASSUME op.cur # 0
      PROVE  /\ op.cur \in files /\ op.cur \in Segs /\ seg[op.cur].base <= commitOff
             /\ commitOff <= End(op.cur) /\ seg[op.cur] \in SegmentRec
  BY <1>0, <1>c, OutstandingFacts
<1>3. CASE op.cur # 0 /\ Persisted(op.cur)
  <2>1. UNCHANGED <<commitOff, nCommitted>>
    BY <1>3 DEF Persisted
  <2>2. \A i \in Segs : /\ seg'[i].base = seg[i].base /\ seg'[i].size = seg[i].size
                        /\ seg'[i].committed = seg[i].committed
    BY <1>0, <1>c, <1>3 DEF Persisted, SegmentRec
  <2> QED
    BY <1>0, <1>1, <2>1, <2>2, SegFacts, StopCounts
<1>4. CASE op.cur # 0 /\ RolledBack(op.cur)
  <2> DEFINE df == op.cur
             c == seg[df].base + seg[df].hcur
  <2>1. /\ df \in files /\ df \in Segs /\ seg[df].base <= commitOff
        /\ commitOff <= End(df) /\ seg[df] \in SegmentRec
    BY <1>c, <1>4
  <2>2. /\ commitOff' = c
        /\ nCommitted' = nCommitted - (seg[df].committed - seg[df].hcnt)
        /\ seg' = [seg EXCEPT ![df].committed = seg[df].hcnt]
    BY <1>4 DEF RolledBack
  <2>3. /\ Kept(seg, seg') /\ seg'[df].committed = seg[df].hcnt
        /\ \A j \in Segs : j # df => seg'[j].committed = seg[j].committed
    BY <1>0, <1>4, <2>1, <2>2, RolledBackShape DEF TInv, TypeOK, SegmentRec
  <2>4. seg[df].hcnt = Records(rlen, seg[df].base, c)
    BY <2>1 DEF NInv, HeadersExact
  <2>5. c \in Nat /\ seg[df].base <= c /\ c <= End(df)
    <3>1. /\ seg[df].base \in Nat /\ seg[df].hcur \in Nat /\ seg[df].size \in Nat
          /\ seg[df].hcur <= seg[df].size /\ End(df) = seg[df].base + seg[df].size
      BY <1>0, <2>1, SegFacts
    <3> HIDE DEF df
    <3> QED
      BY <3>1
  <2>6. nCommitted' = nCommitted + (seg'[df].committed - seg[df].committed)
    <3>1. seg[df].hcnt \in Nat /\ seg[df].committed \in Nat /\ nCommitted \in Int
      BY <1>0, <2>1 DEF SegmentRec, TInv, TypeOK, CountType
    <3> HIDE DEF df
    <3> QED
      BY <2>2, <2>3, <3>1
  <2> HIDE DEF c, df
  <2> QED
    BY <1>1, <2>1, <2>2, <2>3, <2>4, <2>5, <2>6, CursorCounts
<1> QED
  <2>1. \/ UNCHANGED <<seg, commitOff, nCommitted>>
        \/ op.cur # 0 /\ Persisted(op.cur)
        \/ op.cur # 0 /\ RolledBack(op.cur)
    BY DEF WalkLeave, Settle
  <2> QED
    BY <1>2, <1>3, <1>4, <2>1

-----------------------------------------------------------------------------
(* What deferred damage remembers stays right *)

LEMMA NextAbandoned ==
    ASSUME SInv, NInv, [Next]_vars
    PROVE  AbandonedExact'
<1>0. TInv /\ OInv /\ CInv /\ Sized
  BY DEF SInv, RInv
<1>1. SUFFICES ASSUME NEW k \in 1 .. Len(reserved'), reserved'[k].corrupt,
                      NEW i \in files', seg'[i].base <= reserved'[k].start,
                      reserved'[k].start < End(i)'
               PROVE  reserved'[k].written = Records(rlen', seg'[i].base, reserved'[k].end)
  BY DEF AbandonedExact, Holding
<1>2. ASSUME NEW d \in Reservation, d.start < d.end, d.end <= writeOff,
             \A j \in Holding(d.start) : d.written = Records(rlen, seg[j].base, d.end),
             reserved'[k].start = d.start, reserved'[k].end = d.end,
             reserved'[k].written = d.written
      PROVE  reserved'[k].written = Records(rlen', seg'[i].base, reserved'[k].end)
  <2>1. d.start \in Nat /\ d.end \in Nat /\ d.start < writeOff /\ writeOff \in Nat
    BY <1>0, <1>2, SegFacts, StoreAssumption DEF Reservation, Offsets
  <2>2. i \in files /\ seg[i].base <= d.start /\ d.start < End(i)
    BY <1>0, <1>1, <1>2, <2>1, SegmentsStay
  <2>3. seg'[i].base = seg[i].base /\ seg[i].base \in Nat
    <3>1. ~Appears(i)
      BY <1>1, <1>2, <2>1 DEF Appears
    <3>2. Stays(i) \/ Grows(i)
      BY <1>0, <3>1, SegmentSteps
    <3> QED
      BY <1>0, <2>2, <3>2, SegFacts DEF Stays, Grows
  <2>4. d.written = Records(rlen, seg[i].base, d.end)
    BY <1>2, <2>2 DEF Holding
  <2>5. Records(rlen', seg[i].base, d.end) = Records(rlen, seg[i].base, d.end)
    BY <1>0, <1>2, <2>1, <2>3, OldRecords
  <2> QED
    BY <1>2, <2>3, <2>4, <2>5
<1>3. CASE \E j \in 1 .. Len(reserved) : Carried(reserved'[k], reserved[j])
  <2>1. PICK j \in 1 .. Len(reserved) : Carried(reserved'[k], reserved[j])
    BY <1>3
  <2>2. reserved[j] \in Reservation /\ reserved[j].end \in Nat
    BY <1>0, EntryType
  <2>3. reserved[j].start < reserved[j].end /\ reserved[j].end <= headOff
    BY DEF SInv, RInv, Ascending, OInv, LedgerBehind
  <2>4. reserved[j].end <= writeOff
    BY <1>0, <2>2, <2>3, SegFacts DEF OInv, CursorOrder
  <2>5. \A h \in Holding(reserved[j].start) :
           reserved[j].written = Records(rlen, seg[h].base, reserved[j].end)
    BY <1>1, <2>1 DEF NInv, AbandonedExact, Carried
  <2> QED
    BY <1>2, <2>1, <2>2, <2>3, <2>4, <2>5 DEF Carried
<1>4. CASE reserved'[k] \in Reservation /\ Entered(reserved'[k])
  <2> DEFINE e == reserved'[k]
  <2>1. /\ e \in Reservation /\ e.start < e.end /\ e.start = headOff
        /\ \E j \in Holding(headOff) : e.end = End(j) /\ e.written = seg[j].written
    BY <1>1, <1>4 DEF Entered
  <2>2. PICK j \in Holding(headOff) : e.end = End(j) /\ e.written = seg[j].written
    BY <2>1
  <2>3. j \in files /\ j \in Segs /\ headOff \in Nat /\ e.end <= writeOff
    BY <1>0, <2>2, SegFacts DEF Holding
  <2>4. e.written = Records(rlen, seg[j].base, e.end)
    BY <2>2, <2>3 DEF NInv, WrittenExact
  <2>5. \A h \in Holding(headOff) : h = j
    BY <1>0, <2>3, OneHolder
  <2>6. \A h \in Holding(e.start) : e.written = Records(rlen, seg[h].base, e.end)
    BY <2>1, <2>4, <2>5
  <2> HIDE DEF e
  <2> QED
    BY <1>2, <2>1, <2>3, <2>6 DEF e
<1> QED
  BY <1>0, <1>3, <1>4, EntriesStep

-----------------------------------------------------------------------------
(* The steps that leave the commit cursor alone *)

LEMMA StillSteps ==
    ASSUME TInv, CInv, [Next]_vars, ~WalkLeave, ~Settle, ~WalkRecord, ~WalkAbandoned,
           ~WalkQuarantine, ~QuarantineHead, ~Crash, ~LoadStep, ~LoadDone, ~DropSegment,
           ~Write, ~WriteLatched
    PROVE  /\ UNCHANGED <<commitOff, nWritten, nCommitted, writeOff, rlen>>
           /\ \A i \in files : seg'[i].committed = seg[i].committed \/ Create
           /\ op'.pc = "load" => UNCHANGED vars
           /\ op.pc = "load" => UNCHANGED vars
<1>0. /\ op \in Op /\ Idle.pc = "idle" /\ op.pc # "force" /\ Idle \in Op
      /\ seg \in [Segs -> SegmentRec] /\ files \subseteq Segs
  BY IdleType, SegFacts DEF CInv, TInv, TypeOK, OpType, SegType, Idle
<1>r. \A d : StartRun(d) => op'.pc \in {"idle", "run"}
  BY OpBegins
<1>a. \A kind, n, start : StartAppend(kind, n, start) => op'.pc \in {"cycleDrop", "write"}
  BY OpBegins
<1>w. \A off, d, l : StartWalk(off, d, l) => op'.pc = "walk"
  BY Begun
<1>f. ASSUME NEW df \in files, seg' = HeaderFull(seg, df)
      PROVE  \A i \in files : seg'[i].committed = seg[i].committed
  BY <1>0, <1>f DEF HeaderFull, SegmentRec
<1>1. CASE (\E n \in 1 .. MaxLen : Add(n)) \/ Requeue
  BY <1>0, <1>a, <1>1 DEF Add, Requeue, TakeHead, Readable, Reading, cursors, disk, counts
<1>2. CASE Reserve \/ Take \/ Skip \/ Unread
  BY <1>0, <1>r, <1>w, <1>2 DEF Reserve, Take, Skip, Unread, TakeHead, Readable, Reading,
     RetireFrame, cursors, disk, counts
<1>3. CASE PayReport \/ DropRecord \/ DeferDamage \/ StartForce
  BY <1>0, <1>r, <1>3 DEF PayReport, DropRecord, DeferDamage, StartForce,
     Readable, Unreadable, Reading, RetireFrame, Op, cursors, disk, counts
<1>4. CASE QuarantineLatched
  BY <1>0, <1>f, <1>4 DEF QuarantineLatched, Unreadable, Reading, cursors, counts
<1>5. CASE Retire \/ Rewind
  BY <1>0, <1>r, <1>w, <1>5 DEF Retire, Ack, AckBatch, Commit, Rewind, cursors, disk,
     counts
<1>6. CASE CreateRefused \/ Create \/ WriteFailed
  BY <1>0, <1>6 DEF CreateRefused, Create, WriteFailed, AppendFailed, Op, cursors, disk,
     counts
<1>7. CASE DropStuck \/ DropDone
  BY <1>0, <1>7 DEF DropStuck, DropDone, FinishCommit, Op, cursors, disk, counts
<1>8. CASE RunStep \/ CommitEnds
  BY <1>0, <1>w, <1>8 DEF RunStep, CommitEnds, FinishCommit, Op, cursors, disk, counts
<1>9. CASE WalkOver \/ WalkUnreadable \/ WalkStopsAtDamage
  BY <1>0, <1>9 DEF WalkOver, WalkUnreadable, WalkStopsAtDamage, Walking, Op, cursors,
     disk, counts
<1>10. CASE WalkQuarantineFailed
  <2>1. \/ UNCHANGED seg
        \/ \E df \in files : seg' = HeaderFull(seg, df)
    BY <1>10 DEF WalkQuarantineFailed
  <2> QED
    BY <1>0, <1>f, <1>10, <2>1 DEF WalkQuarantineFailed, Walking, Op, cursors, counts
<1>11. CASE ForceStep \/ ForceFailed \/ ForceLatched \/ ForceDone
  BY <1>0, <1>11 DEF ForceStep, ForceFailed, ForceLatched, ForceDone
<1>12. CASE Environment
  BY <1>0, <1>12 DEF Environment, FailSync, Rot, Vanish, cursors, disk, counts
<1>13. CASE UNCHANGED vars
  BY <1>13 DEF vars, cursors, disk, counts
<1> QED
  BY <1>1, <1>2, <1>3, <1>4, <1>5, <1>6, <1>7, <1>8, <1>9, <1>10, <1>11, <1>12, <1>13
     DEF Next, OpStep, AppendStep, DropStep, WalkStep, Consume, ReadDamage

LEMMA StillCounts ==
    ASSUME SInv, SInv', NInv, [Next]_vars, ~WalkLeave, ~Settle, ~WalkRecord,
           ~WalkAbandoned, ~WalkQuarantine, ~QuarantineHead, ~Crash, ~LoadStep, ~LoadDone,
           ~DropSegment, ~Write, ~WriteLatched
    PROVE  CommittedExact' /\ Balanced' /\ LoadHolder'
<1>0. TInv /\ OInv /\ CInv
  BY DEF SInv
<1>1. /\ UNCHANGED <<commitOff, nWritten, nCommitted, writeOff, rlen>>
      /\ \A i \in files : seg'[i].committed = seg[i].committed \/ Create
      /\ op'.pc = "load" => UNCHANGED vars
      /\ op.pc = "load" => UNCHANGED vars
  BY <1>0, StillSteps
<1>2. CASE UNCHANGED vars
  BY <1>2 DEF vars, cursors, disk, counts, NInv, CommittedExact, Balanced, LoadHolder,
     Reached, End
<1>3. CASE op.pc # "load" /\ op'.pc # "load"
  <2>1. Balanced' /\ LoadHolder'
    BY <1>1, <1>3 DEF NInv, Balanced, LoadHolder
  <2>2. ASSUME NEW i \in files PROVE seg'[i].committed = seg[i].committed
    <3>1. CASE Create
      <4>1. seg' = [seg EXCEPT ![nextNum] = Fresh(writeOff, Max2(SegCap, op.len))]
        BY <3>1 DEF Create
      <4>2. i # nextNum /\ i \in Segs
        BY <1>0, SegFacts, StoreAssumption
           DEF OInv, Layout, Segs, TInv, TypeOK, DiskType
      <4> QED
        BY <1>0, <4>1, <4>2 DEF TInv, TypeOK, SegType
    <3> QED
      BY <1>1, <3>1
  <2>3. \A i \in files' :
           seg'[i].committed = Records(rlen', seg'[i].base, Reached(i, commitOff)')
    BY <1>1, <1>3, <2>2, CommittedStays
  <2>4. CommittedExact'
    BY <2>3 DEF CommittedExact
  <2> QED
    BY <2>1, <2>4
<1> QED
  BY <1>1, <1>2, <1>3

LEMMA WriteCounts ==
    ASSUME SInv, SInv', NInv, [Next]_vars, Write \/ WriteLatched
    PROVE  CommittedExact' /\ Balanced' /\ LoadHolder'
<1>0. TInv /\ OInv /\ CInv /\ Sized /\ seg \in [Segs -> SegmentRec] /\ TInv'
  BY DEF SInv, RInv, TInv, TypeOK, SegType
<1>1. PICK af \in files : op.pc = "write" /\ Publish(af)
  BY DEF Write, WriteLatched
<1>2. op'.pc # "load"
  BY OpBegins DEF Write, WriteLatched, RetireFrame
<1>3. /\ seg' = [seg EXCEPT ![af].size = @ + op.len, ![af].written = @ + 1]
      /\ nWritten' = nWritten + 1 /\ UNCHANGED <<commitOff, nCommitted>>
  BY <1>1 DEF Publish
<1>4. \A i \in files : seg'[i].committed = seg[i].committed
  BY <1>0, <1>3, SegFacts DEF SegmentRec
<1>5. \A i \in files' :
         seg'[i].committed = Records(rlen', seg'[i].base, Reached(i, commitOff)')
  BY <1>1, <1>3, <1>4, CommittedStays
<1>6. nWritten - nCommitted = Records(rlen, commitOff, writeOff)
  BY <1>1 DEF NInv, Balanced
<1>7. /\ Records(rlen', writeOff, writeOff') = 1
      /\ writeOff \in Nat /\ writeOff' \in Nat /\ writeOff < writeOff'
  BY <1>1, PublishedCount
<1>8. commitOff \in Nat /\ commitOff <= writeOff /\ nWritten \in Int /\ nCommitted \in Int
  BY <1>0, SegFacts DEF SInv, OInv, CursorOrder, TInv, TypeOK, CountType
<1>9. Records(rlen', commitOff, writeOff) = Records(rlen, commitOff, writeOff)
  BY <1>0, <1>7, <1>8, OldRecords
<1>10. Records(rlen', commitOff, writeOff')
          = Records(rlen', commitOff, writeOff) + Records(rlen', writeOff, writeOff')
  <2>1. writeOff <= writeOff'
    BY <1>7
  <2> QED
    BY <1>7, <1>8, <2>1, RecordsSplit
<1>11. nWritten' - nCommitted = Records(rlen', commitOff, writeOff')
  BY <1>3, <1>6, <1>7, <1>8, <1>9, <1>10
<1> QED
  BY <1>2, <1>3, <1>5, <1>11 DEF CommittedExact, Balanced, LoadHolder

\* A segment is dropped with as many records committed as written
LEMMA DropCounts ==
    ASSUME SInv, SInv', NInv, [Next]_vars, DropSegment
    PROVE  CommittedExact' /\ Balanced' /\ LoadHolder'
<1>0. TInv /\ op \in Op /\ commitOff \in Nat /\ nWritten \in Int /\ nCommitted \in Int
  BY SegFacts DEF SInv, TInv, TypeOK, OpType, CountType
<1>1. PICK d \in files :
        /\ Reclaimable(d) /\ files' = files \ {d}
        /\ nWritten' = nWritten - seg[d].written
        /\ nCommitted' = nCommitted - seg[d].committed
        /\ op' = [op EXCEPT !.i = d]
  BY DEF DropSegment
<1>2. op.pc # "load" /\ op'.pc # "load" /\ UNCHANGED <<seg, rlen, writeOff, commitOff>>
  BY <1>0, <1>1 DEF DropSegment, Op, cursors
<1>3. /\ d \in Segs /\ seg[d].written \in Nat /\ seg[d].committed \in Nat
      /\ End(d) <= commitOff
  BY <1>0, <1>1, SegFacts DEF Reclaimable
<1>4. seg[d].committed = seg[d].written
  <2>1. Reached(d, commitOff) = End(d)
    BY <1>0, <1>3, ReachedFacts
  <2> QED
    BY <1>2, <2>1 DEF NInv, CommittedExact, WrittenExact
<1>5. nWritten' - nCommitted' = nWritten - nCommitted
  BY <1>0, <1>1, <1>3, <1>4
<1>6. Balanced' /\ LoadHolder'
  BY <1>2, <1>5 DEF NInv, Balanced, LoadHolder
<1>7. CommittedExact'
  BY <1>1, <1>2 DEF NInv, CommittedExact, Reached
<1> QED
  BY <1>6, <1>7

-----------------------------------------------------------------------------
(* Restart: load adds the segments up from the tail backwards *)

\* The cursor a restart recovers is that of the header that holds it
LEMMA CrashCounts ==
    ASSUME SInv, SInv', NInv, Crash
    PROVE  CommittedExact' /\ Balanced' /\ LoadHolder'
<1>0. TInv /\ OInv
  BY DEF SInv
<1>1. /\ op' = [Idle EXCEPT !.pc = "load", !.i = MaxSegs + 1] /\ commitOff' \in Recovered
      /\ nWritten' = 0 /\ nCommitted' = 0 /\ UNCHANGED <<files, seg>>
  BY DEF Crash
<1>2. op'.pc = "load" /\ op'.i = MaxSegs + 1
  BY <1>1, IdleType DEF Op, Idle
<1>3. \A i \in files : i \in Nat /\ i < MaxSegs + 1 /\ ~(i >= MaxSegs + 1)
  BY <1>0, SegFacts, StoreAssumption DEF Segs
<1>4. MaxSegs + 1 \notin files
  BY <1>3, StoreAssumption
<1>5. CommittedExact' /\ Balanced'
  BY <1>1, <1>2, <1>3, <1>4 DEF CommittedExact, Balanced
<1>6. ASSUME NEW c \in Recovered, NEW i \in files, seg[i].base < c, c < End(i)
      PROVE  seg[i].base + seg[i].hcur = c
  <2>1. /\ i \in Segs /\ c \in Nat /\ End(i) \in Nat /\ End(i) <= writeOff
        /\ seg[i].base \in Nat /\ writeOff \in Nat
    BY <1>0, SegFacts, StoreAssumption DEF Recovered, Offsets
  <2>2. c # writeOff
    BY <1>6, <2>1
  <2>3. PICK f \in files : Short(f) /\ c = seg[f].base + seg[f].hcur
    BY <2>2 DEF Recovered
  <2>4. /\ seg[f].base \in Nat /\ seg[f].hcur \in Nat /\ seg[f].size \in Nat
        /\ seg[f].hcur < seg[f].size /\ End(f) = seg[f].base + seg[f].size
    BY <1>0, <2>3, SegFacts DEF Short
  <2>5. f \in Holding(c)
    BY <2>3, <2>4 DEF Holding
  <2>6. i \in Holding(c)
    BY <1>6, <2>1 DEF Holding
  <2>7. f = i
    BY <1>0, <2>1, <2>5, <2>6, OneHolder
  <2> QED
    BY <2>3, <2>7
<1>7. LoadHolder'
  BY <1>1, <1>6 DEF LoadHolder, End
<1> QED
  BY <1>5, <1>7

\* load takes the segments one after the other, the last one first
LEMMA LoadOrder ==
    ASSUME SInv, op.pc = "load", NEW i \in files, i < op.i,
           \A j \in files : j < op.i => j <= i
    PROVE  /\ op.i \in files => End(i) = seg[op.i].base
           /\ (\A j \in files : j < op.i) => End(i) = writeOff
<1>0. TInv /\ OInv /\ CInv /\ i \in Nat /\ \A j \in files : j \in Nat /\ j < nextNum
  BY SegFacts DEF SInv, Segs, OInv, Layout
<1>1. /\ i + 1 \in files \/ i + 1 = nextNum
      /\ i + 1 \in files => End(i) = seg[i + 1].base
      /\ i + 1 = nextNum => End(i) = writeOff
  BY <1>0 DEF CInv, Chained
<1>2. nextNum \in Nat /\ op.i \in Nat
  BY <1>0, StoreAssumption DEF TInv, TypeOK, DiskType, OpType, Op
<1>3. i + 1 \in files => ~(i + 1 < op.i)
  BY <1>0
<1>4. ASSUME op.i \in files PROVE i + 1 = op.i /\ i + 1 \in files
  <2>1. op.i < nextNum
    BY <1>0, <1>4
  <2>2. i + 1 # nextNum
    BY <1>0, <1>2, <2>1
  <2> QED
    BY <1>0, <1>1, <1>2, <1>3, <2>2
<1>5. ASSUME \A j \in files : j < op.i PROVE i + 1 = nextNum
  BY <1>1, <1>3, <1>5
<1> QED
  BY <1>1, <1>4, <1>5

LEMMA LoadStepCounts ==
    ASSUME SInv, SInv', NInv, [Next]_vars, LoadStep
    PROVE  CommittedExact' /\ Balanced' /\ LoadHolder'
<1>0. /\ TInv /\ OInv /\ CInv /\ seg \in [Segs -> SegmentRec] /\ op \in Op
      /\ commitOff \in Nat /\ writeOff \in Nat /\ commitOff <= writeOff
      /\ nWritten \in Int /\ nCommitted \in Int
  BY SegFacts DEF SInv, TInv, TypeOK, SegType, OpType, CountType, OInv, CursorOrder
<1>1. PICK i \in files :
        /\ i < op.i /\ \A j \in files : j < op.i => j <= i
        /\ seg' = Repaired(seg, i, LoadedCount(seg[i], commitOff),
                           LoadedCursor(seg[i], commitOff))
        /\ nWritten' = nWritten + seg[i].written
        /\ nCommitted' = nCommitted + LoadedCount(seg[i], commitOff)
        /\ op' = [op EXCEPT !.i = i]
  BY DEF LoadStep, Repaired
<1>2. /\ op.pc = "load" /\ op'.pc = "load" /\ op'.i = i /\ i \in Segs /\ i \in Nat
      /\ UNCHANGED <<files, rlen, writeOff, commitOff>> /\ op.i \in Nat
  BY <1>0, <1>1, SegFacts DEF LoadStep, Op, cursors, Segs
<1> DEFINE n == LoadedCount(seg[i], commitOff)
           h == LoadedCursor(seg[i], commitOff)
<1>3. n \in Nat /\ h \in Nat /\ n = Records(rlen, seg[i].base, Reached(i, commitOff))
  BY <1>0, <1>2, LoadedFacts, LoadedIsExact
<1> HIDE DEF n, h
<1>4. /\ \A j \in Segs : seg'[j].base = seg[j].base /\ seg'[j].size = seg[j].size
      /\ seg'[i].committed = n /\ seg'[i].hcur = h
      /\ \A j \in Segs : j # i => seg'[j] = seg[j]
  BY <1>0, <1>1, <1>2, <1>3 DEF Repaired, SegmentRec, n, h
<1>5. ASSUME NEW j \in files, j >= i
      PROVE  seg'[j].committed = Records(rlen, seg'[j].base, Reached(j, commitOff)')
  <2>1. j \in Segs /\ j \in Nat
    BY <1>0, SegFacts DEF Segs
  <2>2. LoadedCursor(seg'[j], commitOff) = LoadedCursor(seg[j], commitOff)
    BY <1>4, <2>1, LoadedExtent
  <2>3. Reached(j, commitOff)' = Reached(j, commitOff)
    BY <1>2, <1>4, <2>1, <2>2 DEF Reached
  <2>4. CASE j = i
    BY <1>3, <1>4, <2>1, <2>3, <2>4
  <2>5. CASE j # i
    <3>1. j >= op.i
      BY <1>1, <1>2, <1>5, <2>1, <2>5
    <3> QED
      BY <1>4, <2>1, <2>3, <2>5, <3>1 DEF NInv, CommittedExact
  <2> QED
    BY <2>4, <2>5
<1>6. CommittedExact'
  BY <1>2, <1>5 DEF CommittedExact
<1>7. LoadHolder'
  <2>1. SUFFICES ASSUME NEW j \in files, seg[j].base < commitOff, commitOff < End(j)
                 PROVE  seg[j].base + seg'[j].hcur = commitOff
    BY <1>2, <1>4, SegFacts, <1>0 DEF LoadHolder, End
  <2>2. CASE j = i
    <3>1. Reached(i, commitOff) = commitOff
      <4>1. seg[i].base \in Nat /\ End(i) \in Nat
        BY <1>0, <1>2, SegFacts, StoreAssumption DEF Offsets
      <4>2. seg[i].base <= commitOff /\ commitOff <= End(i)
        BY <1>0, <2>1, <2>2, <4>1
      <4> QED
        BY <1>0, <1>2, <4>2, ReachedFacts
    <3> QED
      BY <1>4, <2>2, <3>1 DEF Reached, h
  <2>3. CASE j # i
    BY <1>0, <1>2, <1>4, <2>1, <2>3, SegFacts DEF NInv, LoadHolder
  <2> QED
    BY <2>2, <2>3
<1>8. Balanced'
  <2> DEFINE e == End(i)
             b == seg[i].base
             r == Reached(i, commitOff)
  <2>1. /\ b \in Nat /\ e \in Nat /\ r \in Nat /\ b <= r /\ r <= e /\ e <= writeOff
        /\ e <= commitOff => r = e
        /\ commitOff <= b => r = b
        /\ b <= commitOff /\ commitOff <= e => r = commitOff
        /\ b <= e
    <3>1. b \in Nat /\ e \in Nat
      BY <1>0, <1>2, SegFacts, StoreAssumption DEF Offsets
    <3>2. /\ r \in Nat /\ b <= r /\ r <= e /\ e <= writeOff
          /\ e <= commitOff => r = e
          /\ commitOff <= b => r = b
          /\ b <= commitOff /\ commitOff <= e => r = commitOff
      BY <1>0, <1>2, ReachedFacts
    <3> HIDE DEF b, e, r
    <3> QED
      BY <3>1, <3>2
  <2>2. nWritten - nCommitted = Records(rlen, Max2(commitOff, e), writeOff)
    <3>1. CASE op.i \in files
      <4>1. e = seg[op.i].base
        BY <1>1, <1>2, <3>1, LoadOrder
      <4> QED
        BY <1>2, <3>1, <4>1 DEF NInv, Balanced
    <3>2. CASE op.i \notin files
      <4>1. nWritten = nCommitted /\ \A j \in files : j < op.i
        BY <1>2, <3>2 DEF NInv, Balanced
      <4>2. e = writeOff
        BY <1>1, <1>2, <4>1, LoadOrder
      <4>3. Max2(commitOff, writeOff) = writeOff
        BY <1>0 DEF Max2
      <4>4. Records(rlen, Max2(commitOff, e), writeOff) = 0
        BY <1>0, <4>2, <4>3, NoRecords
      <4> QED
        BY <1>0, <4>1, <4>4
    <3> QED
      BY <3>1, <3>2
  <2>3. seg[i].written = Records(rlen, b, e)
    BY DEF NInv, WrittenExact
  <2>4. n = Records(rlen, b, r)
    BY <1>3
  <2>5. seg[i].written \in Nat
    BY <1>0, <1>2, SegFacts
  <2> HIDE DEF b, e, r
  <2>6. Records(rlen, b, e) = Records(rlen, b, r) + Records(rlen, r, e)
    BY <2>1, RecordsSplit
  <2>7. Records(rlen, r, e) + Records(rlen, Max2(commitOff, e), writeOff)
           = Records(rlen, Max2(commitOff, b), writeOff)
    <3>1. CASE e <= commitOff
      <4>1. Max2(commitOff, e) = commitOff /\ Max2(commitOff, b) = commitOff /\ r = e
        BY <1>0, <2>1, <3>1 DEF Max2
      <4>2. Records(rlen, r, e) = 0
        BY <2>1, <4>1, NoRecords
      <4>3. Records(rlen, commitOff, writeOff) \in Nat
        BY <1>0, RecordsFinite
      <4> QED
        BY <4>1, <4>2, <4>3
    <3>2. CASE commitOff < e
      <4>1. Max2(commitOff, e) = e /\ Max2(commitOff, b) = r
        BY <1>0, <2>1, <3>2 DEF Max2
      <4>2. Records(rlen, r, writeOff) = Records(rlen, r, e) + Records(rlen, e, writeOff)
        BY <1>0, <2>1, RecordsSplit
      <4> QED
        BY <4>1, <4>2
    <3> QED
      BY <1>0, <2>1, <3>1, <3>2
  <2>8. /\ Records(rlen, b, r) \in Nat /\ Records(rlen, r, e) \in Nat
        /\ Records(rlen, Max2(commitOff, e), writeOff) \in Int
    <3>1. PICK m \in Nat : m = Max2(commitOff, e)
      BY <1>0, <2>1 DEF Max2
    <3>2. Records(rlen, b, r) \in Nat
      BY <2>1, RecordsFinite
    <3>3. Records(rlen, r, e) \in Nat
      BY <2>1, RecordsFinite
    <3>4. Records(rlen, m, writeOff) \in Nat
      BY <1>0, RecordsFinite
    <3>5. Records(rlen, m, writeOff) \in Int
      BY <3>4
    <3> QED
      BY <3>1, <3>2, <3>3, <3>5
  <2>9. nWritten' = nWritten + seg[i].written /\ nCommitted' = nCommitted + n
    BY <1>1 DEF n
  <2>10. nWritten' - nCommitted' = Records(rlen, Max2(commitOff, b), writeOff)
    BY <1>0, <1>3, <2>2, <2>3, <2>4, <2>5, <2>6, <2>7, <2>8, <2>9
  <2> QED
    BY <1>2, <1>4, <2>10 DEF Balanced, b
<1> QED
  BY <1>6, <1>7, <1>8

LEMMA LoadDoneCounts ==
    ASSUME SInv, SInv', NInv, [Next]_vars, LoadDone
    PROVE  CommittedExact' /\ Balanced' /\ LoadHolder'
<1>0. /\ TInv /\ OInv /\ CInv /\ commitOff \in Nat /\ writeOff \in Nat
      /\ nWritten \in Int /\ nCommitted \in Int
  BY SegFacts DEF SInv, TInv, TypeOK, CountType
<1>1. /\ op.pc = "load" /\ op'.pc = "idle" /\ \A i \in files : i >= op.i
      /\ UNCHANGED <<writeOff, commitOff, rlen, nWritten, nCommitted>>
  BY Begun DEF LoadDone, cursors, counts
<1>2. \A i \in files : seg'[i] = seg[i]
  BY DEF LoadDone
<1>3. \A i \in files' :
         seg'[i].committed = Records(rlen', seg'[i].base, Reached(i, commitOff)')
  BY <1>1, <1>2, CommittedStays
<1>4. nWritten - nCommitted = Records(rlen, commitOff, writeOff)
  <2>1. CASE op.i \in files
    <3>1. PICK f \in files : seg[f].base <= commitOff
      BY <1>0, <2>1 DEF CInv, Fronted
    <3>2. seg[op.i].base <= commitOff
      <4>1. /\ f \in Nat /\ op.i \in Nat /\ f \in Segs /\ op.i \in Segs
            /\ seg[f].base \in Nat /\ seg[op.i].base \in Nat /\ End(op.i) \in Nat
            /\ seg[op.i].base <= End(op.i)
        <5>1. f \in Nat /\ op.i \in Nat /\ f \in Segs /\ op.i \in Segs
          BY <1>0, <2>1, SegFacts DEF Segs
        <5>2. /\ seg[f].base \in Nat /\ seg[op.i].base \in Nat /\ seg[op.i].size \in Nat
              /\ End(op.i) = seg[op.i].base + seg[op.i].size
          BY <1>0, <5>1, SegFacts
        <5> QED
          BY <5>1, <5>2
      <4>2. CASE f = op.i
        BY <3>1, <4>2
      <4>3. CASE op.i < f
        <5>1. End(op.i) <= seg[f].base
          BY <1>0, <2>1, <4>3 DEF OInv, Layout
        <5> QED
          BY <1>0, <3>1, <4>1, <5>1
      <4> QED
        BY <1>1, <4>1, <4>2, <4>3
    <3>3. Max2(commitOff, seg[op.i].base) = commitOff
      <4>1. seg[op.i].base \in Nat
        BY <1>0, <2>1, SegFacts
      <4> QED
        BY <1>0, <3>2, <4>1 DEF Max2
    <3> QED
      BY <1>1, <2>1, <3>3 DEF NInv, Balanced
  <2>2. CASE op.i \notin files
    <3>1. nWritten = nCommitted /\ \A i \in files : i < op.i
      BY <1>1, <2>2 DEF NInv, Balanced
    <3>2. \A i \in files : i \in Nat /\ op.i \in Nat
      BY <1>0, SegFacts DEF Segs, TInv, TypeOK, OpType, Op
    <3>3. files = {}
      BY <1>1, <3>1, <3>2
    <3>4. commitOff = writeOff
      BY <1>0, <3>3 DEF CInv, Fronted
    <3> QED
      BY <1>0, <3>1, <3>4, NoRecords
  <2> QED
    BY <2>1, <2>2
<1> QED
  BY <1>1, <1>3, <1>4 DEF CommittedExact, Balanced, LoadHolder

LEMMA NextCounts ==
    ASSUME UnlinksSucceed, SInv, HInv, NInv, [Next]_vars
    PROVE  NInv'
<1>1. SInv'
  BY NextRecords
<1>2. WrittenExact' /\ HeadersExact' /\ AbandonedExact'
  BY <1>1, NextWritten, NextHeaderCounts, NextAbandoned DEF NInv
<1>3. CASE WalkRecord \/ WalkAbandoned \/ WalkQuarantine \/ QuarantineHead \/ WalkLeave
           \/ Settle
  <2>1. CommittedExact' /\ Balanced'
    BY <1>3, WalkRecordCounts, WalkAbandonedCounts, QuarantineCounts, SettledCounts
  <2>2. op'.pc # "load"
    <3>1. op \in Op
      BY DEF SInv, TInv, TypeOK, OpType
    <3> QED
      BY <1>3, <3>1 DEF WalkRecord, WalkAbandoned, WalkQuarantine, QuarantineHead,
         WalkLeave, Settle, Walking, Unreadable, Reading, Op
  <2> QED
    BY <1>2, <2>1, <2>2 DEF NInv, LoadHolder
<1>4. CASE ~(WalkRecord \/ WalkAbandoned \/ WalkQuarantine \/ QuarantineHead \/ WalkLeave
             \/ Settle)
  <2>1. CommittedExact' /\ Balanced' /\ LoadHolder'
    BY <1>1, <1>4, StillCounts, WriteCounts, DropCounts, CrashCounts, LoadStepCounts,
       LoadDoneCounts
  <2> QED
    BY <1>2, <2>1 DEF NInv
<1> QED
  BY <1>3, <1>4

LEMMA InitCounts == Init => NInv
<1> SUFFICES ASSUME Init PROVE NInv
  OBVIOUS
<1>1. TInv /\ op.pc = "idle"
  BY InitTypes, Begun DEF Init
<1>2. /\ writeOff = 0 /\ commitOff = 0 /\ nWritten = 0 /\ nCommitted = 0
      /\ Len(reserved) = 0 /\ 0 \in Nat
  BY DEF Init
<1>3. Records(rlen, 0, 0) = 0
  BY NoRecords
<1>4. ASSUME NEW i \in files
      PROVE  /\ seg[i].written = Records(rlen, seg[i].base, End(i))
             /\ seg[i].hcnt = Records(rlen, seg[i].base, seg[i].base + seg[i].hcur)
             /\ seg[i].committed = Records(rlen, seg[i].base, Reached(i, commitOff))
  <2>1. seg[i] = Fresh(0, SegCap) /\ i \in Segs /\ seg[i] \in SegmentRec
    BY <1>1, SegFacts DEF Init, TInv, TypeOK, SegType
  <2>2. /\ seg[i].base = 0 /\ seg[i].size = 0 /\ seg[i].written = 0
        /\ seg[i].committed = 0 /\ seg[i].hcur = 0 /\ seg[i].hcnt = 0
    BY <2>1 DEF Fresh
  <2>3. LoadedCursor(seg[i], 0) = 0
    BY <2>1, <2>2, LoadedBounds
  <2> QED
    BY <1>2, <1>3, <2>2, <2>3 DEF End, Reached
<1> QED
  BY <1>1, <1>2, <1>3, <1>4
     DEF NInv, WrittenExact, HeadersExact, CommittedExact, AbandonedExact, Balanced,
         LoadHolder

\* As long as unlinks succeed, Count() of an idle store is exactly the number of
\* records between the commit cursor and the tail: whatever a rolled-back commit, a
\* quarantine, deferred damage, reclamation or a restart did to the counts, the
\* totals moved with the cursor (commitDurable, persistCommit, skipCorruptSegment,
\* dropCommitted, load).
THEOREM CountIsExact == UnlinksSucceed => (Spec => []CountExact)
<1> SUFFICES ASSUME UnlinksSucceed PROVE Spec => []CountExact
  OBVIOUS
<1> DEFINE Inv == SInv /\ HInv /\ NInv
<1>1. Init => Inv
  BY InitRecords, InitHeaders, InitCounts
<1>2. Inv /\ [Next]_vars => Inv'
  BY NextRecords, NextHeaders, NextCounts
<1>3. Inv => CountExact
  BY DEF NInv, Balanced, CountExact, Records
<1> HIDE DEF Inv
<1> QED
  BY <1>1, <1>2, <1>3, PTL DEF Spec
=============================================================================
