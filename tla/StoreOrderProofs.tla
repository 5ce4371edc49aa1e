-------------------------- MODULE StoreOrderProofs --------------------------
(***************************************************************************)
(* The cursors of Store never cross, for every value of its constants.     *)
(*                                                                         *)
(* CursorOrder alone is not inductive.  The commit cursor moves forward to *)
(* the target of a call and, when a header cannot be written, back to what *)
(* the header says; the read cursor moves back to where a Requeue took its *)
(* frame, or to what the headers recover.  So the invariant says that      *)
(* every target is behind the read cursor (RunBehind, WalkBehind,          *)
(* LedgerBehind), that a Requeue in flight holds the last frame read       *)
(* (RequeueHolds), and that on a store that has not latched no header is   *)
(* ahead of the commit cursor (HeadersBehind), which rests on segments not *)
(* overlapping (Layout).  After a failed fsync a header may be ahead; no   *)
(* commit starts then (Unlatched).                                         *)
(***************************************************************************)
EXTENDS StoreProofs

\* Live segments do not overlap, and their numbers grow with their offsets
Layout ==
    /\ \A i \in files : i < nextNum
    /\ \A i, j \in files : i < j => End(i) <= seg[j].base

\* Every entry of the ledger ends at or before h
LedgerBehind(r, h) == \A k \in 1 .. Len(r) : r[k].end <= h

\* A Requeue in flight holds the last frame read
RequeueHolds ==
    Appending /\ op.kind = "requeue" =>
        /\ op.start + op.len = headOff /\ commitOff <= op.start
        /\ LedgerBehind(reserved, op.start)

\* The header of segment i says nothing the commit cursor has not reached
NotAhead(i) == seg[i].hcur = 0 \/ seg[i].base + seg[i].hcur <= commitOff

HeadersBehind ==
    /\ op.pc # "load" /\ ~ioErr => \A i \in files : NotAhead(i)
    /\ op.pc = "load" => \A i \in files : i >= op.i => NotAhead(i)

\* A commit does not start on a latched store, and one that latches settles
Unlatched == op.pc \in {"run", "walk"} => ~ioErr

RunBehind == op.pc = "run" => op.at <= headOff

\* The commit's target has been read, and the outstanding header can take the
\* commit cursor back to no later than the target
WalkBehind ==
    Walks =>
        /\ op.off <= headOff
        /\ op.cur # 0 =>
              /\ op.cur \in files
              /\ seg[op.cur].base + seg[op.cur].hcur <= op.off
              /\ ~ioErr => \A j \in files : j > op.cur => seg[j].hcur = 0

OInv ==
    /\ CursorOrder /\ Layout /\ LedgerBehind(reserved, headOff) /\ RequeueHolds
    /\ HeadersBehind /\ Unlatched /\ RunBehind /\ WalkBehind

-----------------------------------------------------------------------------
(* The ledger *)

LEMMA BehindFrom ==
    ASSUME NEW r \in Seq(Reservation), NEW k \in 0 .. Len(r), NEW h, LedgerBehind(r, h)
    PROVE  LedgerBehind(From(r, k), h)
<1>1. /\ Len(From(r, k)) = Len(r) - k
      /\ \A j \in 1 .. Len(r) - k : From(r, k)[j] = r[j + k]
  BY FromType
<1>2. Len(r) \in Nat
  BY LenProperties
<1> QED
  BY <1>1, <1>2 DEF LedgerBehind

LEMMA BehindAppend ==
    ASSUME NEW r \in Seq(Reservation), NEW e \in Reservation, NEW h, LedgerBehind(r, h),
           e.end <= h
    PROVE  LedgerBehind(Append(r, e), h)
<1>1. /\ Len(Append(r, e)) = Len(r) + 1 /\ Append(r, e)[Len(r) + 1] = e
      /\ \A j \in 1 .. Len(r) : Append(r, e)[j] = r[j]
  BY AppendProperties
<1>2. Len(r) \in Nat
  BY LenProperties
<1> QED
  BY <1>1, <1>2 DEF LedgerBehind

LEMMA BehindGrows ==
    ASSUME NEW r \in Seq(Reservation), NEW h \in Nat, NEW g \in Nat, h <= g,
           LedgerBehind(r, h)
    PROVE  LedgerBehind(r, g)
<1> SUFFICES ASSUME NEW k \in 1 .. Len(r) PROVE r[k].end <= g
  BY DEF LedgerBehind
<1>1. r[k] \in Reservation
  BY ElementOfSeq
<1>2. r[k].end \in Nat
  BY <1>1, StoreAssumption DEF Reservation, Offsets
<1>3. r[k].end <= h
  BY DEF LedgerBehind
<1> QED
  BY <1>2, <1>3

\* A ledger cut at the commit cursor, with or without a new entry, stays behind
LEMMA CutBehind ==
    ASSUME LedgerType, NEW c, NEW k \in Passed(reserved, c), NEW h \in Nat, NEW g \in Nat,
           h <= g, LedgerBehind(reserved, h)
    PROVE  /\ LedgerBehind(From(reserved, k), g) /\ LedgerBehind(From(reserved, k), h)
           /\ \A e \in Reservation :
                 e.end <= g => LedgerBehind(Append(From(reserved, k), e), g)
           /\ \A ends : LedgerBehind(Marked(From(reserved, k), ends), g)
<1>1. k \in 0 .. Len(reserved) /\ reserved \in Seq(Reservation)
  BY DEF Passed, LedgerType
<1>2. From(reserved, k) \in Seq(Reservation)
  BY FromLedger
<1>3. LedgerBehind(From(reserved, k), h)
  BY <1>1, BehindFrom
<1>4. LedgerBehind(From(reserved, k), g)
  BY <1>2, <1>3, BehindGrows
<1>5. ASSUME NEW e \in Reservation, e.end <= g
      PROVE  LedgerBehind(Append(From(reserved, k), e), g)
  BY <1>2, <1>4, <1>5, BehindAppend
<1>6. ASSUME NEW ends
      PROVE  LedgerBehind(Marked(From(reserved, k), ends), g)
  BY <1>2, <1>4, MarkedType DEF LedgerBehind
<1> QED
  BY <1>3, <1>4, <1>5, <1>6

-----------------------------------------------------------------------------
(* Frames: what a step that leaves part of the state alone preserves *)

\* A call that is over, or past its walk, is bound by nothing
LEMMA NoTarget ==
    ASSUME op'.pc \in {"idle", "settled", "commitDrop", "force", "load"}
    PROVE  RequeueHolds' /\ Unlatched' /\ RunBehind' /\ WalkBehind'
  BY DEF RequeueHolds, Appending, Unlatched, RunBehind, WalkBehind, Walks

\* A run that starts, starts at the commit cursor
LEMMA RunStarts ==
    ASSUME NEW d, StartRun(d), UNCHANGED ioErr, commitOff <= headOff'
    PROVE  RequeueHolds' /\ Unlatched' /\ RunBehind' /\ WalkBehind'
           /\ op'.pc \in {"idle", "run"}
<1>1. CASE ioErr
  <2>1. op'.pc = "idle"
    BY <1>1 DEF StartRun, Idle
  <2> QED
    BY <2>1, NoTarget
<1>2. CASE ~ioErr
  <2>1. op'.pc = "run" /\ op'.at = commitOff
    BY <1>2 DEF StartRun, Idle
  <2> QED
    BY <1>2, <2>1 DEF RequeueHolds, Appending, Unlatched, RunBehind, WalkBehind, Walks
<1> QED
  BY <1>1, <1>2

\* A walk that starts has been read up to its target
LEMMA WalkStarts ==
    ASSUME TInv, NEW off \in Nat, NEW d, NEW l, StartWalk(off, d, l), UNCHANGED ioErr,
           ~ioErr, headOff' \in Nat, off <= headOff'
    PROVE  RequeueHolds' /\ Unlatched' /\ RunBehind' /\ WalkBehind' /\ op'.pc = "walk"
<1>1. op'.pc = "walk" /\ op'.cur = 0 /\ op'.off = Min2(off, writeOff)
  BY DEF StartWalk, Idle
<1>2. Min2(off, writeOff) <= headOff'
  BY SegFacts DEF Min2
<1> QED
  BY <1>1, <1>2 DEF RequeueHolds, Appending, Unlatched, RunBehind, WalkBehind, Walks

\* The disk and the commit cursor alone: segments and headers stay as they are
LEMMA DiskStill ==
    ASSUME OInv, UNCHANGED <<files, nextNum, seg, commitOff>>, op.pc # "load",
           op'.pc # "load", ioErr => ioErr'
    PROVE  Layout' /\ HeadersBehind'
<1>1. Layout'
  BY DEF OInv, Layout, End
<1>2. HeadersBehind'
  BY DEF OInv, HeadersBehind, NotAhead
<1> QED
  BY <1>1, <1>2

\* Segments keep their extents, and headers may follow a commit cursor that moved
\* forward
LEMMA HeadersFollow ==
    ASSUME TInv, OInv, UNCHANGED <<files, nextNum>>, Kept(seg, seg'), op.pc # "load",
           op'.pc # "load", ioErr => ioErr', commitOff' \in Nat, commitOff <= commitOff',
           ~ioErr' => \A j \in files :
              seg'[j].hcur = seg[j].hcur \/ seg[j].base + seg'[j].hcur <= commitOff'
    PROVE  Layout' /\ HeadersBehind'
<1>1. Layout'
  BY SegFacts DEF OInv, Layout, End, Kept
<1>2. ASSUME ~ioErr', NEW j \in files PROVE NotAhead(j)'
  <2>1. NotAhead(j) /\ j \in Segs
    BY <1>2, SegFacts DEF OInv, HeadersBehind
  <2>2. /\ seg'[j].base = seg[j].base
        /\ seg'[j].hcur = seg[j].hcur \/ seg[j].base + seg'[j].hcur <= commitOff'
    BY <1>2, <2>1 DEF Kept
  <2>3. seg[j].base \in Nat /\ seg[j].hcur \in Nat /\ commitOff \in Nat
    BY <2>1, SegFacts
  <2> QED
    BY <2>1, <2>2, <2>3 DEF NotAhead
<1>3. HeadersBehind'
  BY <1>2 DEF HeadersBehind
<1> QED
  BY <1>1, <1>3

-----------------------------------------------------------------------------
(* Appending *)

LEMMA AddOrder ==
    ASSUME TInv, OInv, NEW n \in 1 .. MaxLen, Add(n)
    PROVE  OInv'
<1>1. /\ UNCHANGED <<cursors, disk, ledger, ioErr>> /\ op.pc = "idle"
      /\ StartAppend("add", n, 0)
  BY DEF Add
<1>2. n \in Nat /\ 0 \in Offsets
  BY StoreAssumption DEF Offsets
<1>3. op'.pc \in {"cycleDrop", "write"} /\ op'.kind = "add"
  BY <1>1, <1>2, StartAppendType
<1>4. Layout' /\ HeadersBehind'
  BY <1>1, <1>3, DiskStill DEF cursors, disk
<1>5. RequeueHolds' /\ Unlatched' /\ RunBehind' /\ WalkBehind'
  BY <1>3 DEF RequeueHolds, Unlatched, RunBehind, WalkBehind, Walks
<1>6. CursorOrder' /\ LedgerBehind(reserved, headOff)'
  BY <1>1 DEF OInv, CursorOrder, LedgerBehind, cursors, ledger
<1> QED
  BY <1>4, <1>5, <1>6 DEF OInv

\* A failed append puts the read cursor back where the frame it took starts, which
\* is behind no commit and ahead of every reservation
LEMMA FailedAppend ==
    ASSUME TInv, OInv, Appending, UNCHANGED <<commitOff, reserved>>,
           headOff' = IF op.kind = "requeue" THEN Min2(op.start, headOff) ELSE headOff
    PROVE  commitOff' <= headOff' /\ headOff' <= headOff /\ headOff' \in Nat
           /\ LedgerBehind(reserved, headOff)'
<1>1. op.start \in Nat /\ op.len \in Nat
  BY StoreAssumption DEF TInv, TypeOK, OpType, Op, Offsets
<1>2. CASE op.kind = "requeue"
  <2>1. /\ op.start + op.len = headOff /\ commitOff <= op.start
        /\ LedgerBehind(reserved, op.start)
    BY <1>2 DEF OInv, RequeueHolds
  <2>2. headOff' = op.start
    BY <1>1, <1>2, <2>1 DEF Min2
  <2>3. LedgerBehind(reserved, headOff)'
    BY <2>1, <2>2 DEF LedgerBehind
  <2> QED
    BY <1>1, <2>1, <2>2, <2>3
<1>3. CASE op.kind # "requeue"
  <2>1. headOff' = headOff
    BY <1>3
  <2> QED
    BY <2>1, SegFacts DEF OInv, CursorOrder, LedgerBehind
<1> QED
  BY <1>2, <1>3

LEMMA RefusedOrder ==
    ASSUME TInv, OInv, CreateRefused \/ WriteFailed
    PROVE  OInv'
<1>1. /\ AppendFailed /\ UNCHANGED <<disk, ledger>> /\ Appending
      /\ ioErr' = ioErr \/ ioErr' = TRUE
  BY DEF CreateRefused, WriteFailed, Appending
<1>2. op'.pc = "idle" /\ op.pc # "load" /\ UNCHANGED <<writeOff, commitOff, reserved>>
  BY <1>1 DEF AppendFailed, Idle, Appending, ledger
<1>3. /\ commitOff' <= headOff' /\ headOff' <= headOff /\ headOff' \in Nat
      /\ LedgerBehind(reserved, headOff)'
  BY <1>1, <1>2, FailedAppend DEF AppendFailed
<1>4. CursorOrder'
  BY <1>2, <1>3, SegFacts DEF OInv, CursorOrder
<1>5. Layout' /\ HeadersBehind'
  BY <1>1, <1>2, DiskStill DEF disk
<1> QED
  BY <1>2, <1>3, <1>4, <1>5, NoTarget DEF OInv

LEMMA CreateOrder ==
    ASSUME TInv, OInv, Create
    PROVE  OInv'
<1>1. /\ op.pc = "create" /\ files' = files \union {nextNum} /\ nextNum' = nextNum + 1
      /\ seg' = [seg EXCEPT ![nextNum] = Fresh(writeOff, Max2(SegCap, op.len))]
      /\ UNCHANGED <<reserved, writeOff, commitOff>>
  BY DEF Create, ledger, cursors, AppendFailed
<1>2. nextNum \in Segs /\ nextNum \in Nat /\ nextNum \notin files
      /\ \A i \in files : i \in Segs /\ i \in Nat /\ i < nextNum
  BY <1>1, SegFacts, StoreAssumption
     DEF TInv, TypeOK, DiskType, Segs, AppendFits, Appending, OInv, Layout
<1>3. /\ seg'[nextNum] = Fresh(writeOff, Max2(SegCap, op.len))
      /\ \A j \in files : seg'[j] = seg[j]
  BY <1>1, <1>2 DEF TInv, TypeOK, SegType
<1>4. seg'[nextNum].base = writeOff /\ seg'[nextNum].hcur = 0
  BY <1>3 DEF Fresh
<1>5. Layout'
  <2>1. \A i \in files' : i < nextNum'
    BY <1>1, <1>2
  <2>2. ASSUME NEW i \in files', NEW j \in files', i < j
        PROVE  End(i)' <= seg'[j].base
    <3>1. i \in files /\ End(i)' = End(i)
      BY <1>1, <1>2, <1>3, <2>2 DEF End
    <3>2. CASE j = nextNum
      BY <1>2, <1>4, <3>1, <3>2, SegFacts
    <3>3. CASE j \in files
      BY <1>3, <2>2, <3>1, <3>3 DEF OInv, Layout
    <3> QED
      BY <1>1, <3>2, <3>3
  <2> QED
    BY <2>1, <2>2 DEF Layout
<1>6. \/ op' = [op EXCEPT !.pc = "write"] /\ UNCHANGED <<headOff, ioErr>>
      \/ ioErr' = TRUE /\ AppendFailed
  BY DEF Create, cursors
<1>7. op'.pc \in {"write", "idle"}
  BY <1>6 DEF AppendFailed, Idle, TInv, TypeOK, OpType, Op
<1>8. HeadersBehind'
  <2>1. ioErr => ioErr'
    BY <1>6
  <2>2. ASSUME ~ioErr', NEW j \in files' PROVE NotAhead(j)'
    <3>1. CASE j = nextNum
      BY <1>4, <3>1 DEF NotAhead
    <3>2. CASE j \in files
      BY <1>1, <1>3, <2>1, <2>2, <3>2 DEF OInv, HeadersBehind, NotAhead
    <3> QED
      BY <1>1, <3>1, <3>2
  <2> QED
    BY <1>7, <2>2 DEF HeadersBehind
<1>9. CASE op' = [op EXCEPT !.pc = "write"] /\ UNCHANGED <<headOff, ioErr>>
  <2>1. op'.pc = "write" /\ op'.kind = op.kind /\ op'.start = op.start /\ op'.len = op.len
    BY <1>9 DEF TInv, TypeOK, OpType, Op
  <2>2. RequeueHolds'
    BY <1>1, <1>9, <2>1 DEF OInv, RequeueHolds, Appending, LedgerBehind
  <2>3. Unlatched' /\ RunBehind' /\ WalkBehind'
    BY <2>1 DEF Unlatched, RunBehind, WalkBehind, Walks
  <2>4. CursorOrder' /\ LedgerBehind(reserved, headOff)'
    BY <1>1, <1>9 DEF OInv, CursorOrder, LedgerBehind
  <2> QED
    BY <1>5, <1>8, <2>2, <2>3, <2>4 DEF OInv
<1>10. CASE ioErr' = TRUE /\ AppendFailed
  <2>1. op'.pc = "idle"
    BY <1>10 DEF AppendFailed, Idle
  <2>2. /\ commitOff' <= headOff' /\ headOff' <= headOff /\ headOff' \in Nat
        /\ LedgerBehind(reserved, headOff)'
    BY <1>1, <1>10, FailedAppend DEF AppendFailed, Appending
  <2>3. CursorOrder'
    BY <1>1, <2>2, SegFacts DEF OInv, CursorOrder
  <2> QED
    BY <1>5, <1>8, <2>1, <2>2, <2>3, NoTarget DEF OInv
<1> QED
  BY <1>6, <1>9, <1>10

\* The record published extends the last segment, so nothing lies after it
LEMMA PublishOrder ==
    ASSUME TInv, OInv, op.pc = "write", NEW af \in files, Publish(af),
           op'.pc # "load", ioErr => ioErr'
    PROVE  /\ Layout' /\ HeadersBehind' /\ commitOff' = commitOff
           /\ writeOff' \in Nat /\ writeOff <= writeOff'
<1>1. /\ \A j \in Segs : /\ seg'[j].base = seg[j].base /\ seg'[j].hcur = seg[j].hcur
                         /\ j # af => seg'[j] = seg[j]
      /\ writeOff' \in Offsets
  BY PublishTypes
<1>2. /\ files' = files /\ nextNum' = nextNum /\ commitOff' = commitOff
      /\ writeOff' = writeOff + op.len /\ \A j \in files : j <= af
  BY DEF Publish, IsActive
<1>3. op.len \in Nat
  BY DEF TInv, TypeOK, OpType, Op
<1>4. \A i \in files : i \in Segs /\ i \in Nat
  BY SegFacts, StoreAssumption DEF Segs
<1>5. Layout'
  <2>1. \A i \in files' : i < nextNum'
    BY <1>2 DEF OInv, Layout
  <2>2. ASSUME NEW i \in files', NEW j \in files', i < j
        PROVE  End(i)' <= seg'[j].base
    <3>1. i # af /\ i \in Segs /\ j \in Segs
      BY <1>2, <1>4, <2>2
    <3>2. End(i)' = End(i) /\ seg'[j].base = seg[j].base
      BY <1>1, <3>1 DEF End
    <3> QED
      BY <1>2, <2>2, <3>2 DEF OInv, Layout
  <2> QED
    BY <2>1, <2>2 DEF Layout
<1>6. HeadersBehind'
  BY <1>1, <1>2, <1>4 DEF OInv, HeadersBehind, NotAhead
<1> QED
  BY <1>1, <1>2, <1>3, <1>5, <1>6, SegFacts, StoreAssumption DEF Offsets

LEMMA WriteOrder ==
    ASSUME TInv, OInv, Write \/ WriteLatched
    PROVE  OInv'
<1>1. op.pc = "write" /\ Appending /\ (ioErr => ioErr')
  <2>1. op.pc = "write" /\ (ioErr' = ioErr \/ ioErr' = TRUE)
    BY DEF Write, WriteLatched
  <2> QED
    BY <2>1 DEF Appending
<1>2. op.start \in Nat /\ op.len \in Nat /\ op.start \in Offsets
  BY StoreAssumption DEF TInv, TypeOK, OpType, Op, Offsets
<1>3. CASE Write
  <2>1. /\ UNCHANGED <<headOff, ioErr>> /\ \E af \in files : Publish(af)
        /\ \/ op' = Idle /\ UNCHANGED reserved
           \/ op.kind = "requeue" /\ RetireFrame(op.start, op.start + op.len, TRUE)
    BY <1>3 DEF Write
  <2>2. /\ LedgerBehind(reserved, headOff)' /\ op'.pc # "load"
        /\ RequeueHolds' /\ Unlatched' /\ RunBehind' /\ WalkBehind'
    <3>1. CASE op' = Idle /\ UNCHANGED reserved
      <4>1. op'.pc = "idle"
        BY <3>1 DEF Idle
      <4> QED
        BY <2>1, <3>1, <4>1, NoTarget DEF OInv, LedgerBehind
    <3>2. CASE op.kind = "requeue" /\ RetireFrame(op.start, op.start + op.len, TRUE)
      <4>1. op.start + op.len = headOff /\ commitOff <= headOff' /\ headOff \in Nat
        BY <1>1, <2>1, <3>2, SegFacts DEF OInv, RequeueHolds, CursorOrder
      <4>2. PICK k \in Passed(reserved, commitOff) :
              reserved' = Append(From(reserved, k), Settled(op.start, headOff))
        BY <3>2, <4>1 DEF RetireFrame
      <4>3. /\ Settled(op.start, headOff) \in Reservation
            /\ Settled(op.start, headOff).end <= headOff
        BY <1>2, <4>1 DEF Settled, Reservation, TInv, TypeOK, CursorType
      <4>4. LedgerBehind(reserved', headOff)
        BY <4>1, <4>2, <4>3, CutBehind DEF OInv, TInv, TypeOK
      <4>5. /\ RequeueHolds' /\ Unlatched' /\ RunBehind' /\ WalkBehind'
            /\ op'.pc \in {"idle", "run"}
        BY <2>1, <3>2, <4>1, RunStarts DEF RetireFrame
      <4> QED
        BY <2>1, <4>4, <4>5 DEF LedgerBehind
    <3> QED
      BY <2>1, <3>1, <3>2
  <2>3. /\ Layout' /\ HeadersBehind' /\ commitOff' = commitOff
        /\ writeOff' \in Nat /\ writeOff <= writeOff'
    BY <1>1, <2>1, <2>2, PublishOrder
  <2>4. CursorOrder'
    BY <2>1, <2>3, SegFacts DEF OInv, CursorOrder
  <2> QED
    BY <2>2, <2>3, <2>4 DEF OInv
<1>4. CASE WriteLatched
  <2>1. /\ op' = Idle /\ UNCHANGED reserved /\ \E af \in files : Publish(af)
        /\ headOff' = IF op.kind = "requeue" THEN Min2(op.start, headOff) ELSE headOff
    BY <1>4 DEF WriteLatched, ledger
  <2>2. op'.pc = "idle"
    BY <2>1 DEF Idle
  <2>3. /\ Layout' /\ HeadersBehind' /\ commitOff' = commitOff
        /\ writeOff' \in Nat /\ writeOff <= writeOff'
    BY <1>1, <2>1, <2>2, PublishOrder
  <2>4. /\ commitOff' <= headOff' /\ headOff' <= headOff /\ headOff' \in Nat
        /\ LedgerBehind(reserved, headOff)'
    BY <1>1, <2>1, <2>3, FailedAppend
  <2>5. CursorOrder'
    BY <2>3, <2>4, SegFacts DEF OInv, CursorOrder
  <2> QED
    BY <2>2, <2>3, <2>4, <2>5, NoTarget DEF OInv
<1> QED
  BY <1>3, <1>4

-----------------------------------------------------------------------------
(* Reclaiming and committing *)

LEMMA FinishOrder ==
    ASSUME TInv, OInv, FinishCommit, UNCHANGED headOff
    PROVE  LedgerBehind(reserved, headOff)' /\ op'.pc = "idle"
<1>1. headOff \in Nat /\ headOff <= headOff
  BY SegFacts
<1>2. LedgerBehind(reserved', headOff)
  BY <1>1, CutBehind DEF FinishCommit, OInv, TInv, TypeOK, LedgerBehind
<1> QED
  BY <1>2 DEF FinishCommit, Idle, LedgerBehind

LEMMA DropOrder ==
    ASSUME TInv, OInv, DropStep
    PROVE  OInv'
<1>1. /\ UNCHANGED <<cursors, seg, nextNum, ioErr>> /\ files' \subseteq files
      /\ op.pc \in {"cycleDrop", "commitDrop"}
  BY DEF DropStep, DropSegment, DropStuck, DropDone, disk
<1>2. Layout'
  BY <1>1 DEF OInv, Layout, End
<1>3. CursorOrder'
  BY <1>1 DEF OInv, CursorOrder, cursors
<1>4. ASSUME op'.pc # "load" PROVE HeadersBehind'
  BY <1>1, <1>4 DEF OInv, HeadersBehind, NotAhead, cursors
<1>5. ASSUME op'.pc \in {"cycleDrop", "commitDrop", "create"}, op'.kind = op.kind,
             op'.start = op.start, op'.len = op.len, UNCHANGED reserved,
             op'.pc # "commitDrop" => op.pc # "commitDrop"
      PROVE  OInv'
  <2>1. HeadersBehind'
    BY <1>4, <1>5
  <2>2. LedgerBehind(reserved, headOff)'
    BY <1>1, <1>5 DEF OInv, LedgerBehind, cursors
  <2>3. RequeueHolds'
    BY <1>1, <1>5 DEF OInv, RequeueHolds, Appending, LedgerBehind, cursors
  <2>4. Unlatched' /\ RunBehind' /\ WalkBehind'
    BY <1>5 DEF Unlatched, RunBehind, WalkBehind, Walks
  <2> QED
    BY <1>2, <1>3, <2>1, <2>2, <2>3, <2>4 DEF OInv
<1>6. CASE DropSegment \/ DropStuck
  <2>1. PICK i \in files : op' = [op EXCEPT !.i = i]
    BY <1>6 DEF DropSegment, DropStuck
  <2>2. UNCHANGED reserved
    BY <1>6 DEF DropSegment, DropStuck
  <2> QED
    BY <1>1, <1>5, <2>1, <2>2 DEF TInv, TypeOK, OpType, Op
<1>7. CASE op.pc = "cycleDrop" /\ op' = [op EXCEPT !.pc = "create", !.i = 0]
           /\ UNCHANGED reserved
  BY <1>5, <1>7 DEF TInv, TypeOK, OpType, Op
<1>8. CASE FinishCommit
  <2>1. LedgerBehind(reserved, headOff)' /\ op'.pc = "idle"
    BY <1>1, <1>8, FinishOrder DEF cursors
  <2> QED
    BY <1>2, <1>3, <1>4, <2>1, NoTarget DEF OInv
<1> QED
  BY <1>6, <1>7, <1>8 DEF DropStep, DropDone

LEMMA RunOrder ==
    ASSUME TInv, OInv, RunStep
    PROVE  OInv'
<1>1. UNCHANGED <<cursors, disk, ledger, ioErr>> /\ op.pc = "run" /\ ~ioErr
  BY DEF RunStep, OInv, Unlatched
<1>2. CursorOrder' /\ LedgerBehind(reserved, headOff)'
  BY <1>1 DEF OInv, CursorOrder, LedgerBehind, cursors, ledger
<1>3. op'.pc # "load" /\ RequeueHolds' /\ Unlatched' /\ RunBehind' /\ WalkBehind'
  <2>1. CASE /\ InRun(op.i + 1, op.at)
             /\ op' = [op EXCEPT !.at = reserved[op.i + 1].end, !.i = op.i + 1]
    <3>1. op'.pc = "run" /\ op'.at = reserved[op.i + 1].end
      BY <1>1, <2>1 DEF TInv, TypeOK, OpType, Op
    <3>2. reserved[op.i + 1].end <= headOff
      BY <2>1 DEF InRun, OInv, LedgerBehind
    <3> QED
      BY <1>1, <3>1, <3>2 DEF RequeueHolds, Appending, Unlatched, RunBehind, WalkBehind,
         Walks, cursors
  <2>2. CASE op' = Idle
    <3>1. op'.pc = "idle"
      BY <2>2 DEF Idle
    <3> QED
      BY <3>1, NoTarget
  <2>3. CASE StartWalk(op.at, op.durable, TRUE)
    <3>1. op.at \in Nat /\ op.at <= headOff' /\ headOff' \in Nat
      BY <1>1, SegFacts, StoreAssumption
         DEF TInv, TypeOK, OpType, Op, Offsets, OInv, RunBehind, cursors
    <3> QED
      BY <1>1, <2>3, <3>1, WalkStarts
  <2> QED
    BY <2>1, <2>2, <2>3 DEF RunStep
<1>4. Layout' /\ HeadersBehind'
  BY <1>1, <1>3, DiskStill DEF cursors, disk
<1> QED
  BY <1>2, <1>3, <1>4 DEF OInv

\* The walk's facts, as its steps use them
LEMMA WalkFacts ==
    ASSUME TInv, OInv, Walks
    PROVE  /\ op.off \in Nat /\ op.off <= headOff /\ op.pc # "load" /\ op \in Op
           /\ op.cur # 0 => /\ op.cur \in files /\ op.cur \in Segs
                            /\ seg[op.cur].base <= commitOff
                            /\ seg[op.cur].base + seg[op.cur].hcur <= op.off
                            /\ ~ioErr => \A j \in files : j > op.cur => seg[j].hcur = 0
<1>1. op.off \in Nat /\ op \in Op
  BY StoreAssumption DEF TInv, TypeOK, OpType, Op, Offsets
<1> QED
  BY <1>1, SegFacts DEF OInv, WalkBehind, TInv, WalkBase, Walks

\* A step that keeps the walk's target and its outstanding segment
LEMMA SameWalk ==
    ASSUME TInv, OInv, Walks, op'.pc \in {"walk", "settle"}, op'.off = op.off,
           op'.cur = op.cur, UNCHANGED <<headOff, files>>, ioErr => ioErr',
           op'.pc = "walk" => ~ioErr',
           op.cur # 0 => /\ seg'[op.cur].base + seg'[op.cur].hcur <= op.off
                         /\ ~ioErr' => \A j \in files : seg'[j].hcur = seg[j].hcur
    PROVE  RequeueHolds' /\ Unlatched' /\ RunBehind' /\ WalkBehind'
<1>1. WalkBehind'
  BY WalkFacts DEF WalkBehind, Walks
<1> QED
  BY <1>1 DEF RequeueHolds, Appending, Unlatched, RunBehind

\* and one with no header outstanding
LEMMA CleanWalk ==
    ASSUME TInv, OInv, Walks, op'.pc \in {"walk", "settle", "settled"}, op'.off = op.off,
           op'.cur = 0, headOff' = headOff, op'.pc = "walk" => ~ioErr'
    PROVE  RequeueHolds' /\ Unlatched' /\ RunBehind' /\ WalkBehind'
<1>1. WalkBehind'
  BY WalkFacts DEF WalkBehind, Walks
<1> QED
  BY <1>1 DEF RequeueHolds, Appending, Unlatched, RunBehind

LEMMA WalkStopOrder ==
    ASSUME TInv, OInv, WalkOver \/ WalkUnreadable \/ WalkStopsAtDamage
    PROVE  OInv'
<1>1. /\ UNCHANGED <<cursors, disk, ledger>>
      /\ op.pc = "walk" /\ op' = [op EXCEPT !.pc = "settle"]
      /\ ioErr' = ioErr \/ ioErr' = TRUE
  BY DEF WalkOver, WalkUnreadable, WalkStopsAtDamage, Walking
<1>2. op'.pc = "settle" /\ op'.off = op.off /\ op'.cur = op.cur /\ Walks
  BY <1>1 DEF TInv, TypeOK, OpType, Op, Walks
<1>3. Layout' /\ HeadersBehind'
  BY <1>1, <1>2, DiskStill DEF cursors, disk
<1>4. RequeueHolds' /\ Unlatched' /\ RunBehind' /\ WalkBehind'
  BY <1>1, <1>2, SameWalk, WalkFacts DEF cursors, disk
<1>5. CursorOrder' /\ LedgerBehind(reserved, headOff)'
  BY <1>1 DEF OInv, CursorOrder, LedgerBehind, cursors, ledger
<1> QED
  BY <1>3, <1>4, <1>5 DEF OInv

\* The header of the outstanding segment goes out, or the commit falls back to it:
\* either way no header is ahead of the commit cursor
LEMMA HeaderOrder ==
    ASSUME TInv, OInv, Walks, op.cur # 0, Persisted(op.cur) \/ RolledBack(op.cur),
           UNCHANGED <<files, nextNum, headOff, writeOff>>, op'.pc # "load",
           ioErr => ioErr'
    PROVE  Layout' /\ HeadersBehind' /\ CursorOrder'
<1>1. /\ op.cur \in files /\ op.cur \in Segs /\ seg[op.cur].base <= commitOff
      /\ seg[op.cur].base + seg[op.cur].hcur <= op.off /\ op.off <= headOff
      /\ op.off \in Nat
      /\ ~ioErr => \A j \in files : j > op.cur => seg[j].hcur = 0
  BY WalkFacts
<1>2. op.pc # "load"
  BY DEF Walks
<1>3. CASE Persisted(op.cur)
  <2>1. /\ Kept(seg, seg') /\ HeadersKept(seg, seg', op.cur)
        /\ \/ seg'[op.cur].hcur = seg[op.cur].hcur
           \/ seg[op.cur].base + seg'[op.cur].hcur <= commitOff
    BY <1>1, <1>3, PersistedShape DEF TInv, TypeOK
  <2>2. commitOff' = commitOff /\ commitOff \in Nat
    BY <1>3, SegFacts DEF Persisted
  <2>3. Layout' /\ HeadersBehind'
    BY <1>2, <2>1, <2>2, SegFacts, HeadersFollow DEF HeadersKept
  <2> QED
    BY <2>2, <2>3 DEF OInv, CursorOrder
<1>4. CASE RolledBack(op.cur)
  <2>1. Kept(seg, seg') /\ \A j \in Segs : seg'[j].hcur = seg[j].hcur
    BY <1>1, <1>4, RolledBackShape DEF TInv, TypeOK
  <2>2. commitOff' = seg[op.cur].base + seg[op.cur].hcur
    BY <1>4 DEF RolledBack
  <2>3. Layout'
    BY <2>1, SegFacts DEF OInv, Layout, End, Kept
  <2>4. CursorOrder'
    BY <1>1, <2>2, SegFacts DEF OInv, CursorOrder
  <2>5. ASSUME ~ioErr', NEW j \in files PROVE NotAhead(j)'
    <3>1. j \in Segs /\ j \in Nat /\ op.cur \in Nat
      BY <1>1, SegFacts, StoreAssumption DEF Segs
    <3>2. seg'[j].base = seg[j].base /\ seg'[j].hcur = seg[j].hcur
      BY <2>1, <3>1 DEF Kept
    <3>3. CASE j = op.cur
      BY <1>1, <2>2, <3>2, <3>3, SegFacts DEF NotAhead
    <3>4. CASE j > op.cur
      BY <1>1, <2>5, <3>2, <3>4 DEF NotAhead
    <3>5. CASE j < op.cur
      <4>1. seg[j].base + seg[j].size <= seg[op.cur].base
        BY <1>1, <3>5 DEF OInv, Layout, End
      <4>2. seg[j].base + seg[j].hcur <= commitOff'
        BY <1>1, <2>2, <3>1, <4>1, SegFacts
      <4> QED
        BY <3>2, <4>2 DEF NotAhead
    <3> QED
      BY <3>1, <3>3, <3>4, <3>5
  <2>6. HeadersBehind'
    BY <2>5 DEF HeadersBehind
  <2> QED
    BY <2>3, <2>4, <2>6
<1> QED
  BY <1>3, <1>4

LEMMA WalkLeaveOrder ==
    ASSUME TInv, OInv, WalkLeave
    PROVE  OInv'
<1>1. /\ op.pc = "walk" /\ op.cur # 0 /\ (Persisted(op.cur) \/ RolledBack(op.cur))
      /\ UNCHANGED <<writeOff, headOff, files, nextNum, ledger>> /\ Walks
  BY DEF WalkLeave, Walks
<1>2. \/ op' = [op EXCEPT !.cur = 0] /\ ioErr' = ioErr
      \/ op' = [op EXCEPT !.cur = 0, !.pc = "settle"] /\ (ioErr' = ioErr \/ ioErr' = TRUE)
  BY DEF WalkLeave, RolledBack
<1>3. op'.pc \in {"walk", "settle"} /\ op'.cur = 0 /\ op'.off = op.off
  BY <1>1, <1>2 DEF TInv, TypeOK, OpType, Op
<1>4. op'.pc = "walk" => ~ioErr'
  <2>1. ~ioErr
    BY <1>1 DEF OInv, Unlatched
  <2>2. op' = [op EXCEPT !.cur = 0, !.pc = "settle"] => op'.pc = "settle"
    BY DEF TInv, TypeOK, OpType, Op
  <2> QED
    BY <1>2, <2>1, <2>2
<1>5. Layout' /\ HeadersBehind' /\ CursorOrder'
  BY <1>1, <1>2, <1>3, HeaderOrder
<1>6. RequeueHolds' /\ Unlatched' /\ RunBehind' /\ WalkBehind'
  BY <1>1, <1>3, <1>4, CleanWalk
<1>7. LedgerBehind(reserved, headOff)'
  BY <1>1 DEF OInv, LedgerBehind, ledger
<1> QED
  BY <1>5, <1>6, <1>7 DEF OInv

LEMMA SettleOrder ==
    ASSUME TInv, OInv, Settle
    PROVE  OInv'
<1>1. /\ op.pc = "settle" /\ UNCHANGED <<writeOff, headOff, files, nextNum, ledger>>
      /\ op' = [op EXCEPT !.pc = "settled", !.cur = 0] /\ Walks
  BY DEF Settle, Walks
<1>2. op'.pc = "settled"
  BY <1>1 DEF TInv, TypeOK, OpType, Op
<1>3. ioErr' = ioErr \/ ioErr' = TRUE
  BY DEF Settle, RolledBack
<1>4. Layout' /\ HeadersBehind' /\ CursorOrder'
  <2>1. CASE UNCHANGED <<seg, commitOff>>
    BY <1>1, <1>2, <1>3, <2>1, DiskStill DEF OInv, CursorOrder
  <2>2. CASE op.cur # 0 /\ (Persisted(op.cur) \/ RolledBack(op.cur))
    BY <1>1, <1>2, <1>3, <2>2, HeaderOrder
  <2> QED
    BY <2>1, <2>2 DEF Settle
<1>5. LedgerBehind(reserved, headOff)'
  BY <1>1 DEF OInv, LedgerBehind, ledger
<1> QED
  BY <1>2, <1>4, <1>5, NoTarget DEF OInv

\* One record, or one reported extent, forward: the segment entered becomes the
\* outstanding one, and no later segment's header has started
LEMMA Advance ==
    ASSUME TInv, OInv, NEW df \in files, Walking(df), NEW next \in Nat, NEW n \in Nat,
           commitOff < next, next <= op.off, commitOff' = next,
           seg' = [seg EXCEPT ![df].committed = @ + n], op' = [op EXCEPT !.cur = df],
           UNCHANGED <<writeOff, headOff, files, nextNum, ledger, ioErr>>
    PROVE  OInv'
<1>1. /\ op.pc = "walk" /\ Walks /\ ~ioErr /\ commitOff < op.off /\ df \in Segs
      /\ seg[df].base <= commitOff /\ commitOff < End(df)
  BY SegFacts DEF Walking, Holding, Walks, OInv, Unlatched
<1>2. op.off \in Nat /\ op.off <= headOff /\ op \in Op /\ df # 0
  BY <1>1, WalkFacts, StoreAssumption DEF Segs
<1>3. op'.pc = "walk" /\ op'.off = op.off /\ op'.cur = df
  BY <1>1, <1>2 DEF Op
<1>4. Kept(seg, seg') /\ \A j \in Segs : seg'[j].hcur = seg[j].hcur
  <2>1. seg[df].committed + n \in Nat /\ seg' = WithCommitted(seg, df, seg[df].committed + n)
    BY <1>1, SegFacts DEF WithCommitted
  <2>2. seg \in [Segs -> SegmentRec]
    BY DEF TInv, TypeOK, SegType
  <2>3. /\ Kept(seg, WithCommitted(seg, df, seg[df].committed + n))
        /\ \A j \in Segs :
              WithCommitted(seg, df, seg[df].committed + n)[j].hcur = seg[j].hcur
    BY <1>1, <2>1, <2>2, CommittedShape
  <2> QED
    BY <2>1, <2>3
<1>5. CursorOrder'
  BY <1>2, SegFacts DEF OInv, CursorOrder
<1>6. Layout' /\ HeadersBehind'
  BY <1>1, <1>3, <1>4, SegFacts, HeadersFollow
<1>7. seg[df].base + seg[df].hcur <= op.off
  BY <1>1, <1>2, SegFacts DEF OInv, HeadersBehind, NotAhead
<1>8. ASSUME NEW j \in files, j > df PROVE seg[j].hcur = 0
  <2>1. j \in Segs /\ End(df) <= seg[j].base /\ NotAhead(j)
    BY <1>1, <1>8, SegFacts DEF OInv, Layout, HeadersBehind
  <2> QED
    BY <1>1, <2>1, SegFacts, StoreAssumption DEF NotAhead, Offsets
<1>9. WalkBehind'
  <2>1. seg'[df].base + seg'[df].hcur <= op.off
    BY <1>1, <1>4, <1>7 DEF Kept
  <2>2. \A j \in files : j > df => seg'[j].hcur = 0
    BY <1>4, <1>8, SegFacts
  <2> QED
    BY <1>2, <1>3, <2>1, <2>2 DEF WalkBehind
<1>10. RequeueHolds' /\ Unlatched' /\ RunBehind'
  BY <1>1, <1>3 DEF RequeueHolds, Appending, Unlatched, RunBehind
<1>11. LedgerBehind(reserved, headOff)'
  BY DEF OInv, LedgerBehind, ledger
<1> QED
  BY <1>5, <1>6, <1>9, <1>10, <1>11 DEF OInv

\* The walk stops before a record that ends past its target
LEMMA StopShort ==
    ASSUME TInv, OInv, op.pc = "walk", op' = [op EXCEPT !.pc = "settle"],
           UNCHANGED <<cursors, seg, files, nextNum, ledger, ioErr>>
    PROVE  OInv'
<1>1. op'.pc = "settle" /\ op'.off = op.off /\ op'.cur = op.cur /\ Walks
  BY DEF TInv, TypeOK, OpType, Op, Walks
<1>2. Layout' /\ HeadersBehind'
  BY <1>1, DiskStill DEF cursors
<1>3. RequeueHolds' /\ Unlatched' /\ RunBehind' /\ WalkBehind'
  BY <1>1, SameWalk, WalkFacts DEF cursors
<1>4. CursorOrder' /\ LedgerBehind(reserved, headOff)'
  BY DEF OInv, CursorOrder, LedgerBehind, cursors, ledger
<1> QED
  BY <1>2, <1>3, <1>4 DEF OInv

LEMMA WalkAbandonedOrder ==
    ASSUME TInv, OInv, WalkAbandoned
    PROVE  OInv'
<1>1. UNCHANGED <<writeOff, headOff, files, nextNum, ledger, ioErr>>
  BY DEF WalkAbandoned
<1>2. PICK df \in files, k \in EntryAt(commitOff) :
        /\ Walking(df)
        /\ \/ op' = [op EXCEPT !.pc = "settle"] /\ UNCHANGED <<commitOff, seg>>
           \/ /\ ~(reserved[k].end > op.off)
              /\ commitOff' = reserved[k].end
              /\ seg' = [seg EXCEPT ![df].committed =
                               @ + Max2(reserved[k].written - seg[df].committed, 0)]
              /\ op' = [op EXCEPT !.cur = df]
  BY DEF WalkAbandoned
<1>3. k \in 1 .. Len(reserved) /\ reserved[k].end > commitOff /\ reserved \in Seq(Reservation)
  BY DEF EntryAt, TInv, TypeOK, LedgerType
<1>4. reserved[k] \in Reservation
  BY <1>3, ElementOfSeq
<1>5. reserved[k].end \in Nat /\ reserved[k].written \in Nat
  BY <1>4, StoreAssumption DEF Reservation, Offsets
<1>6. Max2(reserved[k].written - seg[df].committed, 0) \in Nat
  BY <1>5, SegFacts DEF Max2
<1>7. op.pc = "walk" /\ op.off \in Nat
  BY <1>2, WalkFacts DEF Walking, Walks
<1>8. CASE op' = [op EXCEPT !.pc = "settle"] /\ UNCHANGED <<commitOff, seg>>
  BY <1>1, <1>7, <1>8, StopShort DEF cursors
<1>9. CASE ~(reserved[k].end > op.off) /\ commitOff' = reserved[k].end
  <2>1. commitOff < reserved[k].end /\ reserved[k].end <= op.off
    BY <1>3, <1>5, <1>7, <1>9, SegFacts
  <2>2. commitOff' # commitOff
    BY <1>5, <1>9, <2>1, SegFacts
  <2> HIDE DEF Max2
  <2> QED
    BY <1>1, <1>2, <1>5, <1>6, <1>9, <2>1, <2>2, Advance
<1> QED
  BY <1>2, <1>8, <1>9

LEMMA WalkRecordOrder ==
    ASSUME TInv, OInv, WalkRecord
    PROVE  OInv'
<1>1. UNCHANGED <<writeOff, headOff, files, nextNum, ledger, ioErr>>
  BY DEF WalkRecord
<1> DEFINE Advances(df, next) ==
        /\ Walking(df) /\ commitOff < next /\ next <= writeOff
        /\ \/ op' = [op EXCEPT !.pc = "settle"] /\ UNCHANGED <<commitOff, seg>>
           \/ /\ ~(next > op.off)
              /\ commitOff' = next
              /\ seg' = [seg EXCEPT ![df].committed = @ + 1]
              /\ op' = [op EXCEPT !.cur = df]
<1>2. PICK df \in files : \E next \in FrameEnd(df, commitOff) : Advances(df, next)
  BY DEF WalkRecord
<1>3. PICK next \in FrameEnd(df, commitOff) : Advances(df, next)
  BY <1>2
<1>4. next \in Nat
  BY FrameEndNat
<1>5. op.pc = "walk" /\ op.off \in Nat
  BY <1>3, WalkFacts DEF Walking, Walks
<1>6. CASE op' = [op EXCEPT !.pc = "settle"] /\ UNCHANGED <<commitOff, seg>>
  BY <1>1, <1>5, <1>6, StopShort DEF cursors
<1>7. CASE ~(next > op.off) /\ commitOff' = next
           /\ seg' = [seg EXCEPT ![df].committed = @ + 1] /\ op' = [op EXCEPT !.cur = df]
  <2>1. next <= op.off /\ 1 \in Nat
    BY <1>4, <1>5, <1>7
  <2> QED
    BY <1>1, <1>3, <1>4, <1>7, <2>1, Advance
<1> QED
  BY <1>3, <1>6, <1>7

\* A quarantined segment's header says its end, which the commit cursor reaches
LEMMA QuarantineHeaders ==
    ASSUME TInv, NEW i \in files, NEW s, s = Quarantine(seg, i) \/ s = HeaderFull(seg, i)
    PROVE  /\ Kept(seg, s)
           /\ \A j \in Segs : \/ s[j].hcur = seg[j].hcur
                              \/ j = i /\ seg[i].base + s[i].hcur = End(i)
<1>1. i \in Segs /\ seg \in [Segs -> SegmentRec]
  BY DEF TInv, TypeOK, DiskType, SegType
<1>2. /\ Kept(seg, Quarantine(seg, i)) /\ HeadersKept(seg, Quarantine(seg, i), i)
      /\ Quarantine(seg, i)[i].hcur \in {seg[i].hcur, seg[i].size}
  BY <1>1, QuarantineShape
<1>3. /\ Kept(seg, HeaderFull(seg, i)) /\ HeadersKept(seg, HeaderFull(seg, i), i)
      /\ HeaderFull(seg, i)[i].hcur \in {seg[i].hcur, seg[i].size}
  BY <1>1, HeaderFullShape
<1> QED
  BY <1>1, <1>2, <1>3 DEF HeadersKept, End

LEMMA WalkQuarantineOrder ==
    ASSUME TInv, OInv, WalkQuarantine
    PROVE  OInv'
<1>1. PICK df \in files :
        /\ Walking(df) /\ End(df) <= op.off
        /\ seg' = Quarantine(seg, df)
        /\ commitOff' = End(df)
        /\ headOff' = Max2(headOff, End(df))
  BY DEF WalkQuarantine, Quarantine
<1>2. UNCHANGED <<writeOff, files, nextNum, ledger, ioErr>> /\ op' = [op EXCEPT !.cur = 0]
  BY DEF WalkQuarantine
<1>3. /\ op.pc = "walk" /\ Walks /\ ~ioErr /\ commitOff < End(df) /\ df \in Segs
  BY <1>1, SegFacts DEF Walking, Holding, Walks, OInv, Unlatched
<1>4. op.off \in Nat /\ op.off <= headOff /\ op \in Op
  BY <1>3, WalkFacts
<1>5. End(df) \in Nat /\ headOff' = headOff
  BY <1>1, <1>3, <1>4, SegFacts, StoreAssumption DEF Max2, Offsets
<1>6. op'.pc = "walk" /\ op'.off = op.off /\ op'.cur = 0
  BY <1>2, <1>3, <1>4 DEF Op
<1>7. CursorOrder'
  BY <1>1, <1>2, <1>4, <1>5, SegFacts DEF OInv, CursorOrder
<1>8. Layout' /\ HeadersBehind'
  <2>1. /\ Kept(seg, seg')
        /\ \A j \in Segs : \/ seg'[j].hcur = seg[j].hcur
                           \/ j = df /\ seg[df].base + seg'[df].hcur = End(df)
    BY <1>1, QuarantineHeaders
  <2>2. commitOff' \in Nat /\ commitOff <= commitOff'
    BY <1>1, <1>3, <1>5, SegFacts
  <2>3. \A j \in files : seg'[j].hcur = seg[j].hcur \/ seg[j].base + seg'[j].hcur <= commitOff'
    BY <1>1, <1>5, <2>1, <2>2, SegFacts
  <2> QED
    BY <1>2, <1>3, <1>6, <2>1, <2>2, <2>3, HeadersFollow
<1>9. RequeueHolds' /\ Unlatched' /\ RunBehind' /\ WalkBehind'
  BY <1>2, <1>3, <1>5, <1>6, CleanWalk
<1>10. LedgerBehind(reserved, headOff)'
  BY <1>2, <1>5 DEF OInv, LedgerBehind, ledger
<1> QED
  BY <1>7, <1>8, <1>9, <1>10 DEF OInv

LEMMA WalkQuarantineFailedOrder ==
    ASSUME TInv, OInv, WalkQuarantineFailed
    PROVE  OInv'
<1>1. PICK df \in files :
        /\ Walking(df) /\ End(df) <= op.off
        /\ \/ UNCHANGED <<seg, ioErr>>
           \/ ioErr' = TRUE /\ seg' = HeaderFull(seg, df)
  BY DEF WalkQuarantineFailed
<1>2. UNCHANGED <<cursors, files, nextNum, ledger>> /\ op' = [op EXCEPT !.pc = "settle"]
  BY DEF WalkQuarantineFailed
<1>3. op.pc = "walk" /\ op.cur \in {0, df}
  BY <1>1 DEF Walking
<1>4. CASE UNCHANGED <<seg, ioErr>>
  BY <1>2, <1>3, <1>4, StopShort
<1>5. CASE ioErr' = TRUE /\ seg' = HeaderFull(seg, df)
  <2>1. op'.pc = "settle" /\ op'.off = op.off /\ op'.cur = op.cur /\ Walks
    BY <1>2, <1>3 DEF TInv, TypeOK, OpType, Op, Walks
  <2>2. /\ Kept(seg, seg')
        /\ \A j \in Segs : \/ seg'[j].hcur = seg[j].hcur
                           \/ j = df /\ seg[df].base + seg'[df].hcur = End(df)
    BY <1>5, QuarantineHeaders
  <2>3. Layout' /\ HeadersBehind'
    BY <1>2, <1>3, <1>5, <2>1, <2>2, SegFacts, HeadersFollow DEF cursors
  <2>4. op.cur # 0 => seg'[op.cur].base + seg'[op.cur].hcur <= op.off
    <3>1. op.cur # 0 => op.cur = df /\ df \in Segs /\ seg[df].base + seg[df].hcur <= op.off
      BY <1>3, <2>1, WalkFacts
    <3> QED
      BY <1>1, <2>2, <3>1 DEF Kept
  <2>5. RequeueHolds' /\ Unlatched' /\ RunBehind' /\ WalkBehind'
    BY <1>2, <1>5, <2>1, <2>4, SameWalk DEF cursors
  <2>6. CursorOrder' /\ LedgerBehind(reserved, headOff)'
    BY <1>2 DEF OInv, CursorOrder, LedgerBehind, cursors, ledger
  <2> QED
    BY <2>3, <2>5, <2>6 DEF OInv
<1> QED
  BY <1>1, <1>4, <1>5

LEMMA CommitEndsOrder ==
    ASSUME TInv, OInv, CommitEnds
    PROVE  OInv'
<1>1. /\ UNCHANGED <<writeOff, commitOff, disk>> /\ op.pc = "settled"
      /\ ioErr' = ioErr \/ ioErr' = TRUE
  BY DEF CommitEnds
<1>2. CASE FinishCommit /\ UNCHANGED headOff
  <2>1. LedgerBehind(reserved, headOff)' /\ op'.pc = "idle"
    BY <1>2, FinishOrder
  <2>2. Layout' /\ HeadersBehind'
    BY <1>1, <2>1, DiskStill DEF disk
  <2>3. CursorOrder'
    BY <1>1, <1>2 DEF OInv, CursorOrder
  <2> QED
    BY <2>1, <2>2, <2>3, NoTarget DEF OInv
<1>3. CASE /\ headOff' = Max2(headOff, commitOff) /\ UNCHANGED reserved
           /\ op' = [op EXCEPT !.pc = "commitDrop", !.i = 0]
  <2>1. op'.pc = "commitDrop"
    BY <1>3 DEF TInv, TypeOK, OpType, Op
  <2>2. headOff' = headOff
    BY <1>3, SegFacts DEF OInv, CursorOrder, Max2
  <2>3. Layout' /\ HeadersBehind'
    BY <1>1, <2>1, DiskStill DEF disk
  <2>4. CursorOrder' /\ LedgerBehind(reserved, headOff)'
    BY <1>1, <1>3, <2>2 DEF OInv, CursorOrder, LedgerBehind
  <2> QED
    BY <2>1, <2>3, <2>4, NoTarget DEF OInv
<1> QED
  BY <1>2, <1>3 DEF CommitEnds

-----------------------------------------------------------------------------
(* Reading, acknowledging, restarting *)

\* A read moves the read cursor forward over one record
LEMMA HeadMoves ==
    ASSUME TInv, OInv, headOff < writeOff
    PROVE  /\ HeadNext \in Nat /\ headOff <= HeadNext /\ HeadNext <= writeOff
           /\ commitOff <= HeadNext /\ HeadNext \in Offsets /\ headOff \in Offsets
<1>1. headOff \in Offsets /\ rlen[headOff] \in Nat
  BY StoreAssumption DEF TInv, TypeOK, CursorType, DiskType
<1>2. headOff + rlen[headOff] <= writeOff
  BY <1>1, SegFacts DEF TInv, RecExtents
<1> QED
  BY <1>1, <1>2, SegFacts, HeadFacts DEF HeadNext, OInv, CursorOrder

LEMMA TakeHeadOrder ==
    ASSUME TInv, OInv, NEW df, TakeHead(df), op'.pc # "load"
    PROVE  /\ CursorOrder' /\ Layout' /\ HeadersBehind' /\ headOff' = HeadNext
           /\ headOff < writeOff /\ UNCHANGED <<commitOff, ioErr>> /\ op.pc = "idle"
<1>1. /\ headOff < writeOff /\ headOff' = HeadNext /\ op.pc = "idle"
      /\ UNCHANGED <<writeOff, commitOff, disk, ioErr>>
  BY DEF TakeHead, Readable, Reading
<1>2. Layout' /\ HeadersBehind'
  BY <1>1, DiskStill DEF disk
<1> QED
  BY <1>1, <1>2, HeadMoves DEF CursorOrder

\* The frame just read joins the ledger, whatever the entry says of it
LEMMA EntryOrder ==
    ASSUME TInv, OInv, NEW k \in Passed(reserved, commitOff), NEW e \in Reservation,
           headOff' \in Nat, headOff <= headOff', e.end <= headOff',
           reserved' = Append(From(reserved, k), e)
    PROVE  LedgerBehind(reserved, headOff)'
<1>1. LedgerBehind(reserved', headOff')
  BY CutBehind, SegFacts DEF OInv, TInv, TypeOK
<1> QED
  BY <1>1 DEF LedgerBehind

LEMMA ReserveOrder ==
    ASSUME TInv, OInv, Reserve
    PROVE  OInv'
<1>1. PICK df \in files :
        /\ TakeHead(df)
        /\ \E k \in Passed(reserved, commitOff) :
              reserved' = Append(From(reserved, k), Held(headOff, HeadNext))
        /\ UNCHANGED op
  BY DEF Reserve
<1>2. op'.pc = "idle"
  BY <1>1 DEF TakeHead, Readable, Reading
<1>3. /\ CursorOrder' /\ Layout' /\ HeadersBehind' /\ headOff' = HeadNext
      /\ headOff < writeOff
  BY <1>1, <1>2, TakeHeadOrder
<1>4. Held(headOff, HeadNext) \in Reservation /\ Held(headOff, HeadNext).end <= HeadNext
  BY <1>3, HeadMoves DEF Held, Reservation
<1>5. LedgerBehind(reserved, headOff)'
  BY <1>1, <1>3, <1>4, HeadMoves, EntryOrder
<1> QED
  BY <1>2, <1>3, <1>5, NoTarget DEF OInv

LEMMA TakeOrder ==
    ASSUME TInv, OInv, Take
    PROVE  OInv'
<1>1. PICK df \in files :
        /\ TakeHead(df)
        /\ IF ioErr THEN op' = Idle ELSE StartWalk(HeadNext, TRUE, FALSE)
        /\ UNCHANGED reserved
  BY DEF Take
<1>2. op'.pc # "load"
  <2>1. op' = Idle => op'.pc = "idle"
    BY DEF Idle
  <2>2. StartWalk(HeadNext, TRUE, FALSE) => op'.pc = "walk"
    BY DEF StartWalk, Idle
  <2> QED
    BY <1>1, <2>1, <2>2
<1>3. /\ CursorOrder' /\ Layout' /\ HeadersBehind' /\ headOff' = HeadNext
      /\ headOff < writeOff /\ UNCHANGED ioErr
  BY <1>1, <1>2, TakeHeadOrder
<1>4. HeadNext \in Nat /\ headOff <= HeadNext /\ HeadNext <= HeadNext
  BY <1>3, HeadMoves
<1>5. LedgerBehind(reserved, headOff)'
  <2>1. LedgerBehind(reserved, HeadNext)
    BY <1>4, BehindGrows, SegFacts DEF OInv, TInv, TypeOK, LedgerType
  <2> QED
    BY <1>1, <1>3, <2>1 DEF LedgerBehind
<1>6. RequeueHolds' /\ Unlatched' /\ RunBehind' /\ WalkBehind'
  <2>1. CASE ioErr
    <3>1. op'.pc = "idle"
      BY <1>1, <2>1 DEF Idle
    <3> QED
      BY <3>1, NoTarget
  <2>2. CASE ~ioErr
    BY <1>1, <1>3, <1>4, <2>2, WalkStarts
  <2> QED
    BY <2>1, <2>2
<1> QED
  BY <1>3, <1>5, <1>6 DEF OInv

\* A frame read and retired through the ledger at once: Skip, and a record whose
\* checksum does not hold
LEMMA RetiredOrder ==
    ASSUME TInv, OInv, NEW d, headOff < writeOff, headOff' = HeadNext, op.pc = "idle",
           UNCHANGED <<writeOff, commitOff, disk, ioErr>>,
           RetireFrame(headOff, HeadNext, d)
    PROVE  OInv'
<1>1. /\ HeadNext \in Nat /\ headOff <= HeadNext /\ HeadNext <= writeOff
      /\ commitOff <= HeadNext /\ HeadNext \in Offsets /\ headOff \in Offsets
  BY HeadMoves
<1>2. /\ RequeueHolds' /\ Unlatched' /\ RunBehind' /\ WalkBehind'
      /\ op'.pc \in {"idle", "run"}
  BY <1>1, RunStarts DEF RetireFrame
<1>3. Layout' /\ HeadersBehind'
  BY <1>2, DiskStill DEF disk
<1>4. CursorOrder'
  BY <1>1 DEF CursorOrder
<1>5. Settled(headOff, HeadNext) \in Reservation /\ Settled(headOff, HeadNext).end <= HeadNext
  BY <1>1 DEF Settled, Reservation
<1>6. LedgerBehind(reserved, headOff)'
  BY <1>1, <1>5, EntryOrder DEF RetireFrame
<1> QED
  BY <1>2, <1>3, <1>4, <1>6 DEF OInv

LEMMA SkipOrder ==
    ASSUME TInv, OInv, Skip \/ DropRecord
    PROVE  OInv'
<1>1. /\ headOff < writeOff /\ headOff' = HeadNext /\ op.pc = "idle"
      /\ UNCHANGED <<writeOff, commitOff, disk, ioErr>>
      /\ \E d \in BOOLEAN : RetireFrame(headOff, HeadNext, d)
  BY DEF Skip, DropRecord, TakeHead, Readable, Reading
<1> QED
  BY <1>1, RetiredOrder

LEMMA RequeueOrder ==
    ASSUME TInv, OInv, Requeue
    PROVE  OInv'
<1>1. PICK df \in files :
        /\ TakeHead(df)
        /\ StartAppend("requeue", rlen[headOff], headOff)
        /\ UNCHANGED reserved
  BY DEF Requeue
<1>2. headOff < writeOff
  BY <1>1 DEF TakeHead, Readable, Reading
<1>3. rlen[headOff] \in Nat /\ headOff \in Offsets /\ HeadNext = headOff + rlen[headOff]
  BY <1>2, HeadFacts, StoreAssumption
<1>4. /\ op'.pc \in {"cycleDrop", "write"} /\ op'.len = rlen[headOff]
      /\ op'.start = headOff /\ op'.kind = "requeue"
  BY <1>1, <1>3, StartAppendType
<1>5. /\ CursorOrder' /\ Layout' /\ HeadersBehind' /\ headOff' = HeadNext
      /\ UNCHANGED commitOff
  BY <1>1, <1>4, TakeHeadOrder
<1>6. HeadNext \in Nat /\ headOff <= HeadNext
  BY <1>2, HeadMoves
<1>7. LedgerBehind(reserved, headOff)'
  <2>1. LedgerBehind(reserved, HeadNext)
    BY <1>6, BehindGrows, SegFacts DEF OInv, TInv, TypeOK, LedgerType
  <2> QED
    BY <1>1, <1>5, <2>1 DEF LedgerBehind
<1>8. RequeueHolds'
  BY <1>1, <1>3, <1>4, <1>5 DEF RequeueHolds, OInv, CursorOrder, LedgerBehind
<1>9. Unlatched' /\ RunBehind' /\ WalkBehind'
  BY <1>4 DEF Unlatched, RunBehind, WalkBehind, Walks
<1> QED
  BY <1>5, <1>7, <1>8, <1>9 DEF OInv

\* Steps that leave the cursors, the segments and the ledger alone
LEMMA Nothing ==
    ASSUME OInv, UNCHANGED <<cursors, files, nextNum, seg, reserved>>, op.pc # "load",
           op'.pc \in {"idle", "force"}, ioErr' = ioErr \/ ioErr' = TRUE
    PROVE  OInv'
<1>1. Layout' /\ HeadersBehind'
  BY DiskStill DEF cursors
<1>2. CursorOrder' /\ LedgerBehind(reserved, headOff)'
  BY DEF OInv, CursorOrder, LedgerBehind, cursors
<1> QED
  BY <1>1, <1>2, NoTarget DEF OInv

LEMMA StartForcePc ==
    ASSUME StartForce
    PROVE  op'.pc = "force"
<1>1. op' = [Idle EXCEPT !.pc = "force", !.start = headOff]
  BY DEF StartForce
<1> QED
  BY <1>1 DEF Idle

LEMMA NothingOrder ==
    ASSUME TInv, OInv,
           \/ PayReport \/ Unread \/ StartForce \/ ForceFailed \/ FailSync
           \/ \E p \in Offsets, d \in Damage : Rot(p, d)
           \/ \E i \in Segs : Vanish(i)
    PROVE  OInv'
<1>1. /\ UNCHANGED <<cursors, files, nextNum, seg, reserved>> /\ op.pc \in {"idle", "force"}
      /\ ioErr' = ioErr \/ ioErr' = TRUE
  BY DEF PayReport, Unread, Readable, Reading, StartForce, ForceFailed, FailSync, Rot,
     Vanish, disk, ledger
<1>2. op'.pc \in {"idle", "force"}
  <2>1. CASE StartForce
    BY <2>1, StartForcePc
  <2>3. CASE ForceFailed
    BY <2>3 DEF ForceFailed, Idle
  <2>2. CASE UNCHANGED op
    BY <1>1, <2>2
  <2> QED
    BY <2>1, <2>2, <2>3 DEF PayReport, Unread, FailSync, Rot, Vanish
<1> QED
  BY <1>1, <1>2, Nothing

LEMMA QuarantineHeadOrder ==
    ASSUME TInv, OInv, QuarantineHead
    PROVE  OInv'
<1>1. PICK df \in files :
        /\ df \in Holding(headOff) /\ commitOff = headOff /\ op.pc = "idle"
        /\ seg' = Quarantine(seg, df) /\ commitOff' = End(df) /\ headOff' = End(df)
        /\ UNCHANGED <<writeOff, files, nextNum, ledger, ioErr, op>>
  BY DEF QuarantineHead, Quarantine, Unreadable, Reading
<1>2. /\ df \in Segs /\ headOff < End(df) /\ End(df) \in Nat /\ End(df) <= writeOff
  BY <1>1, SegFacts, StoreAssumption DEF Holding, Offsets
<1>3. /\ Kept(seg, seg')
      /\ \A j \in Segs : \/ seg'[j].hcur = seg[j].hcur
                         \/ j = df /\ seg[df].base + seg'[df].hcur = End(df)
  BY <1>1, QuarantineHeaders
<1>4. commitOff' \in Nat /\ commitOff <= commitOff' /\ headOff <= headOff'
  BY <1>1, <1>2, SegFacts
<1>5. \A j \in files : seg'[j].hcur = seg[j].hcur \/ seg[j].base + seg'[j].hcur <= commitOff'
  BY <1>1, <1>2, <1>3, SegFacts
<1>6. Layout' /\ HeadersBehind'
  BY <1>1, <1>3, <1>4, <1>5, HeadersFollow
<1>7. CursorOrder'
  BY <1>1, <1>2 DEF CursorOrder
<1>8. LedgerBehind(reserved, headOff)'
  <2>1. LedgerBehind(reserved, headOff')
    BY <1>1, <1>2, <1>4, BehindGrows, SegFacts DEF OInv, TInv, TypeOK, LedgerType
  <2> QED
    BY <1>1, <2>1 DEF LedgerBehind, ledger
<1> QED
  BY <1>1, <1>6, <1>7, <1>8, NoTarget DEF OInv

LEMMA QuarantineLatchedOrder ==
    ASSUME TInv, OInv, QuarantineLatched
    PROVE  OInv'
<1>1. PICK df \in files :
        /\ op.pc = "idle" /\ seg' = HeaderFull(seg, df) /\ ioErr' = TRUE
        /\ UNCHANGED <<cursors, files, nextNum, ledger, op>>
  BY DEF QuarantineLatched, Unreadable, Reading
<1>2. Kept(seg, seg')
  BY <1>1, QuarantineHeaders
<1>3. Layout' /\ HeadersBehind'
  BY <1>1, <1>2, HeadersFollow, SegFacts DEF cursors
<1>4. CursorOrder' /\ LedgerBehind(reserved, headOff)'
  BY <1>1 DEF OInv, CursorOrder, LedgerBehind, cursors, ledger
<1> QED
  BY <1>1, <1>3, <1>4, NoTarget DEF OInv

LEMMA ForceLatchedOrder ==
    ASSUME TInv, OInv, ForceLatched
    PROVE  OInv'
<1>1. PICK i \in files : seg' = HeaderFull(seg, i)
  BY DEF ForceLatched
<1>2. /\ op.pc = "force" /\ ioErr' = TRUE /\ op' = Idle
      /\ UNCHANGED <<cursors, files, nextNum, ledger>>
  BY DEF ForceLatched
<1>3. op'.pc = "idle"
  BY <1>2 DEF Idle
<1>4. Kept(seg, seg')
  BY <1>1, QuarantineHeaders
<1>5. Layout' /\ HeadersBehind'
  BY <1>2, <1>3, <1>4, HeadersFollow, SegFacts DEF cursors
<1>6. CursorOrder' /\ LedgerBehind(reserved, headOff)'
  BY <1>2 DEF OInv, CursorOrder, LedgerBehind, cursors, ledger
<1> QED
  BY <1>3, <1>5, <1>6, NoTarget DEF OInv

LEMMA DeferDamageOrder ==
    ASSUME TInv, OInv, DeferDamage
    PROVE  OInv'
<1>1. PICK df \in files :
        /\ df \in Holding(headOff) /\ op.pc = "idle" /\ headOff' = End(df)
        /\ \E k \in Passed(reserved, commitOff) :
              reserved' = Append(From(reserved, k),
                                 Abandoned(headOff, End(df), seg[df].written))
        /\ UNCHANGED <<writeOff, commitOff, disk, ioErr, op>>
  BY DEF DeferDamage, Unreadable, Reading
<1>2. /\ df \in Segs /\ headOff < End(df) /\ End(df) \in Nat /\ End(df) <= writeOff
      /\ End(df) \in Offsets /\ headOff \in Offsets /\ seg[df].written \in Nat
  BY <1>1, SegFacts, StoreAssumption DEF Holding, Offsets
<1>3. Layout' /\ HeadersBehind'
  BY <1>1, DiskStill DEF disk
<1>4. CursorOrder'
  BY <1>1, <1>2, SegFacts DEF OInv, CursorOrder
<1>5. LedgerBehind(reserved, headOff)'
  <2>1. /\ Abandoned(headOff, End(df), seg[df].written) \in Reservation
        /\ Abandoned(headOff, End(df), seg[df].written).end <= End(df)
    BY <1>2 DEF Abandoned, Reservation
  <2>2. headOff <= End(df)
    BY <1>2, SegFacts
  <2> QED
    BY <1>1, <1>2, <2>1, <2>2, EntryOrder
<1> QED
  BY <1>1, <1>3, <1>4, <1>5, NoTarget DEF OInv

LEMMA ForceStepOrder ==
    ASSUME TInv, OInv, ForceStep
    PROVE  OInv'
<1>1. PICK i \in files :
        /\ op.pc = "force" /\ op' = [op EXCEPT !.i = i]
        /\ \/ UNCHANGED <<seg, commitOff, headOff>>
           \/ /\ seg' = Quarantine(seg, i)
              /\ commitOff' = Max2(commitOff, End(i))
              /\ headOff' = Max2(headOff, commitOff')
  BY DEF ForceStep, Quarantine
<1>2. UNCHANGED <<writeOff, files, nextNum, ledger, ioErr>>
  BY DEF ForceStep
<1>3. op'.pc = "force"
  BY <1>1 DEF TInv, TypeOK, OpType, Op
<1>4. CASE UNCHANGED <<seg, commitOff, headOff>>
  BY <1>1, <1>2, <1>3, <1>4, Nothing DEF cursors, ledger
<1>5. CASE /\ seg' = Quarantine(seg, i)
           /\ commitOff' = Max2(commitOff, End(i))
           /\ headOff' = Max2(headOff, commitOff')
  <2>1. i \in Segs /\ End(i) \in Nat /\ End(i) <= writeOff
    BY SegFacts, StoreAssumption DEF Offsets
  <2>2. commitOff' \in Nat /\ commitOff <= commitOff' /\ End(i) <= commitOff' /\ commitOff' <= writeOff
    BY <1>5, <2>1, SegFacts DEF OInv, CursorOrder, Max2
  <2>3. headOff' \in Nat /\ headOff <= headOff' /\ commitOff' <= headOff' /\ headOff' <= writeOff
    BY <1>5, <2>2, SegFacts DEF OInv, CursorOrder, Max2
  <2>4. /\ Kept(seg, seg')
        /\ \A j \in Segs : \/ seg'[j].hcur = seg[j].hcur
                           \/ j = i /\ seg[i].base + seg'[i].hcur = End(i)
    BY <1>5, QuarantineHeaders
  <2>5. \A j \in files : seg'[j].hcur = seg[j].hcur \/ seg[j].base + seg'[j].hcur <= commitOff'
    <3>1. \A j \in files : j \in Segs
      BY SegFacts
    <3> QED
      BY <2>1, <2>2, <2>4, <3>1
  <2>6. Layout' /\ HeadersBehind'
    BY <1>1, <1>2, <1>3, <2>2, <2>4, <2>5, HeadersFollow
  <2>7. LedgerBehind(reserved, headOff)'
    <3>1. LedgerBehind(reserved, headOff')
      BY <2>3, BehindGrows, SegFacts DEF OInv, TInv, TypeOK, LedgerType
    <3> QED
      BY <1>2, <3>1 DEF LedgerBehind, ledger
  <2>8. CursorOrder'
    BY <1>2, <2>3 DEF CursorOrder
  <2> QED
    BY <1>3, <2>6, <2>7, <2>8, NoTarget DEF OInv
<1> QED
  BY <1>1, <1>4, <1>5

LEMMA ForceDoneOrder ==
    ASSUME TInv, OInv, ForceDone
    PROVE  OInv'
<1>1. /\ op.pc = "force" /\ op' = Idle /\ headOff' = writeOff /\ commitOff' = writeOff
      /\ UNCHANGED <<writeOff, disk, ledger, ioErr>>
  BY DEF ForceDone
<1>2. op'.pc = "idle"
  BY <1>1 DEF Idle
<1>3. /\ commitOff' \in Nat /\ commitOff <= commitOff' /\ headOff <= headOff'
      /\ headOff' \in Nat /\ writeOff <= writeOff
  BY <1>1, SegFacts DEF OInv, CursorOrder
<1>4. Kept(seg, seg')
  BY <1>1, KeptSelf DEF disk
<1>5. Layout' /\ HeadersBehind'
  BY <1>1, <1>2, <1>3, <1>4, HeadersFollow DEF disk
<1>6. LedgerBehind(reserved, headOff)'
  <2>1. LedgerBehind(reserved, headOff')
    BY <1>3, BehindGrows, SegFacts DEF OInv, TInv, TypeOK, LedgerType
  <2> QED
    BY <1>1, <2>1 DEF LedgerBehind, ledger
<1>7. CursorOrder'
  BY <1>1, <1>3 DEF CursorOrder
<1> QED
  BY <1>2, <1>5, <1>6, <1>7, NoTarget DEF OInv

\* An acknowledgement marks entries of the ledger and moves no cursor
LEMMA MarkOrder ==
    ASSUME TInv, OInv, UNCHANGED <<cursors, disk, ioErr>>, op.pc = "idle",
           NEW k \in Passed(reserved, commitOff),
           \/ reserved' = From(reserved, k)
           \/ \E ends : reserved' = Marked(From(reserved, k), ends),
           UNCHANGED op \/ StartRun(TRUE)
    PROVE  OInv'
<1>1. headOff \in Nat /\ headOff <= headOff /\ commitOff <= headOff'
  BY SegFacts DEF OInv, CursorOrder, cursors
<1>2. LedgerBehind(reserved', headOff)
  BY <1>1, CutBehind DEF OInv, TInv, TypeOK
<1>3. CursorOrder' /\ LedgerBehind(reserved, headOff)'
  BY <1>2 DEF OInv, CursorOrder, LedgerBehind, cursors
<1>4. RequeueHolds' /\ Unlatched' /\ RunBehind' /\ WalkBehind' /\ op'.pc # "load"
  <2>1. CASE UNCHANGED op
    BY <2>1, NoTarget
  <2>2. CASE StartRun(TRUE)
    BY <1>1, <2>2, RunStarts
  <2> QED
    BY <2>1, <2>2
<1>5. Layout' /\ HeadersBehind'
  BY <1>4, DiskStill DEF cursors, disk
<1> QED
  BY <1>3, <1>4, <1>5 DEF OInv

LEMMA AckOrder ==
    ASSUME TInv, OInv, NEW off, Ack(off)
    PROVE  OInv'
<1>1. UNCHANGED <<cursors, disk, ioErr>> /\ op.pc = "idle"
  BY DEF Ack
<1>2. PICK k \in Passed(reserved, commitOff) :
        \/ reserved' = From(reserved, k) /\ UNCHANGED op
        \/ reserved' = Marked(From(reserved, k), {off}) /\ StartRun(TRUE)
  BY DEF Ack
<1> QED
  BY <1>1, <1>2, MarkOrder

LEMMA AckBatchOrder ==
    ASSUME TInv, OInv, NEW offs, AckBatch(offs)
    PROVE  OInv'
<1>1. UNCHANGED <<cursors, disk, ioErr>> /\ op.pc = "idle" /\ StartRun(TRUE)
  BY DEF AckBatch
<1>2. PICK k \in Passed(reserved, commitOff) :
        reserved' = Marked(From(reserved, k),
                           {o \in offs : commitOff < o /\ o <= headOff})
  BY DEF AckBatch
<1> QED
  BY <1>1, <1>2, MarkOrder

LEMMA CommitOrder ==
    ASSUME TInv, OInv, NEW off \in Offsets, Commit(off)
    PROVE  OInv'
<1>1. /\ UNCHANGED <<cursors, disk, ledger, ioErr>> /\ ~ioErr /\ op.pc = "idle"
      /\ off <= headOff /\ StartWalk(off, TRUE, FALSE)
  BY DEF Commit
<1>2. off \in Nat /\ headOff' \in Nat /\ off <= headOff'
  BY <1>1, SegFacts, StoreAssumption DEF Offsets, cursors
<1>3. RequeueHolds' /\ Unlatched' /\ RunBehind' /\ WalkBehind' /\ op'.pc = "walk"
  BY <1>1, <1>2, WalkStarts
<1>4. Layout' /\ HeadersBehind'
  BY <1>1, <1>3, DiskStill DEF cursors, disk
<1>5. CursorOrder' /\ LedgerBehind(reserved, headOff)'
  BY <1>1 DEF OInv, CursorOrder, LedgerBehind, cursors, ledger
<1> QED
  BY <1>3, <1>4, <1>5 DEF OInv

LEMMA RewindOrder ==
    ASSUME TInv, OInv, Rewind
    PROVE  OInv'
<1>1. /\ op.pc = "idle" /\ headOff' = commitOff /\ reserved' = <<>>
      /\ UNCHANGED <<writeOff, commitOff, disk, ioErr, op>>
  BY DEF Rewind
<1>2. Layout' /\ HeadersBehind'
  BY <1>1, DiskStill DEF disk
<1>3. CursorOrder'
  BY <1>1, SegFacts DEF OInv, CursorOrder
<1>4. LedgerBehind(reserved, headOff)'
  BY <1>1 DEF LedgerBehind
<1> QED
  BY <1>1, <1>2, <1>3, <1>4, NoTarget DEF OInv

\* The cursor load recovers is within a segment or at the tail
LEMMA CrashOrder ==
    ASSUME TInv, OInv, Crash
    PROVE  OInv'
<1>1. PICK c \in Recovered :
        /\ commitOff' = c /\ headOff' = c /\ reserved' = <<>> /\ ioErr' = FALSE
        /\ op' = [Idle EXCEPT !.pc = "load", !.i = MaxSegs + 1]
        /\ UNCHANGED <<writeOff, files, nextNum, seg>>
  BY DEF Crash
<1>2. op'.pc = "load" /\ op'.i = MaxSegs + 1
  BY <1>1 DEF Idle
<1>3. c \in Nat /\ c <= writeOff
  <2>1. c \in Nat
    BY StoreAssumption DEF Recovered, Offsets
  <2>2. CASE c = writeOff
    BY <2>1, <2>2
  <2>3. CASE \E i \in files : c = seg[i].base + seg[i].hcur
    BY <2>1, <2>3, SegFacts
  <2> QED
    BY <2>1, <2>2, <2>3 DEF Recovered
<1>4. CursorOrder'
  BY <1>1, <1>3 DEF CursorOrder
<1>5. Layout'
  BY <1>1 DEF OInv, Layout, End
<1>6. HeadersBehind'
  <2>1. \A i \in files : i \in Nat /\ i <= MaxSegs
    BY SegFacts, StoreAssumption DEF Segs
  <2> QED
    BY <1>1, <1>2, <2>1, StoreAssumption DEF HeadersBehind
<1>7. LedgerBehind(reserved, headOff)'
  BY <1>1 DEF LedgerBehind
<1> QED
  BY <1>2, <1>4, <1>5, <1>6, <1>7, NoTarget DEF OInv

LEMMA LoadStepOrder ==
    ASSUME TInv, OInv, LoadStep
    PROVE  OInv'
<1>1. PICK i \in files :
        /\ op.pc = "load" /\ i < op.i /\ \A j \in files : j < op.i => j <= i
        /\ seg' = Repaired(seg, i, LoadedCount(seg[i], commitOff),
                           LoadedCursor(seg[i], commitOff))
        /\ op' = [op EXCEPT !.i = i]
        /\ UNCHANGED <<cursors, files, nextNum, ledger>>
  BY DEF LoadStep, Repaired
<1>2. i \in Segs /\ i \in Nat /\ seg \in [Segs -> SegmentRec]
  BY SegFacts DEF Segs, TInv, TypeOK, SegType
<1>3. op'.pc = "load" /\ op'.i = i /\ op.i \in Nat
  BY <1>1 DEF TInv, TypeOK, OpType, Op
<1>4. /\ LoadedCount(seg[i], commitOff) \in Nat /\ LoadedCursor(seg[i], commitOff) \in Nat
      /\ \/ LoadedCursor(seg[i], commitOff) = 0
         \/ seg[i].base + LoadedCursor(seg[i], commitOff) <= commitOff
  BY <1>2, LoadedFacts
<1>5. /\ Kept(seg, seg') /\ HeadersKept(seg, seg', i)
      /\ seg'[i].hcur = LoadedCursor(seg[i], commitOff)
  BY <1>1, <1>2, <1>4, RepairedShape
<1>6. Layout'
  BY <1>1, <1>5, SegFacts DEF OInv, Layout, End, Kept
<1>7. ASSUME NEW j \in files, j >= i PROVE NotAhead(j)'
  <2>1. j \in Segs /\ j \in Nat
    BY SegFacts DEF Segs
  <2>2. CASE j = i
    BY <1>1, <1>2, <1>4, <1>5, <2>2 DEF NotAhead, Kept, cursors
  <2>3. CASE j # i
    <3>1. j >= op.i
      BY <1>1, <1>2, <1>3, <1>7, <2>1, <2>3
    <3>2. NotAhead(j)
      BY <1>1, <3>1 DEF OInv, HeadersBehind
    <3> QED
      BY <1>1, <1>5, <2>1, <2>3, <3>2 DEF NotAhead, Kept, HeadersKept, cursors
  <2> QED
    BY <2>2, <2>3
<1>8. HeadersBehind'
  BY <1>1, <1>3, <1>7 DEF HeadersBehind
<1>9. CursorOrder' /\ LedgerBehind(reserved, headOff)'
  BY <1>1 DEF OInv, CursorOrder, LedgerBehind, cursors, ledger
<1> QED
  BY <1>3, <1>6, <1>8, <1>9, NoTarget DEF OInv

LEMMA LoadDoneOrder ==
    ASSUME TInv, OInv, LoadDone
    PROVE  OInv'
<1>1. /\ op.pc = "load" /\ op' = Idle /\ \A i \in files : i >= op.i
      /\ UNCHANGED <<cursors, ledger>>
  BY DEF LoadDone
<1>2. op'.pc = "idle"
  BY <1>1 DEF Idle
<1>3. Layout' /\ HeadersBehind'
  <2>1. CASE files' = {1} /\ nextNum' = 2 /\ seg' = [seg EXCEPT ![1] = Fresh(writeOff, SegCap)]
    <3>1. seg'[1] = Fresh(writeOff, SegCap)
      BY <2>1, StoreAssumption DEF TInv, TypeOK, SegType, Segs
    <3>2. seg'[1].hcur = 0
      BY <3>1 DEF Fresh
    <3> QED
      BY <1>2, <2>1, <3>2 DEF Layout, HeadersBehind, NotAhead
  <2>2. CASE (\E a \in files : IsActive(a) /\ nextNum' = a + 1) /\ UNCHANGED <<files, seg>>
    <3>1. \A i \in files : i \in Nat /\ i < nextNum'
      BY <2>2, SegFacts, StoreAssumption DEF IsActive, Segs
    <3>2. Layout'
      BY <2>2, <3>1 DEF OInv, Layout, End
    <3>3. HeadersBehind'
      BY <1>1, <1>2, <2>2 DEF OInv, HeadersBehind, NotAhead, cursors
    <3> QED
      BY <3>2, <3>3
  <2> QED
    BY <2>1, <2>2 DEF LoadDone
<1>4. CursorOrder' /\ LedgerBehind(reserved, headOff)'
  BY <1>1 DEF OInv, CursorOrder, LedgerBehind, cursors, ledger
<1> QED
  BY <1>2, <1>3, <1>4, NoTarget DEF OInv

LEMMA StutterOrder ==
    ASSUME OInv, UNCHANGED vars
    PROVE  OInv'
<1>1. UNCHANGED <<writeOff, headOff, commitOff, files, nextNum, seg, reserved, ioErr, op>>
  BY DEF vars, cursors, disk, ledger
<1> QED
  BY <1>1 DEF OInv, CursorOrder, Layout, End, LedgerBehind, RequeueHolds, Appending,
     HeadersBehind, NotAhead, Unlatched, RunBehind, WalkBehind, Walks

LEMMA InitOrder == Init => OInv
<1> SUFFICES ASSUME Init PROVE OInv
  OBVIOUS
<1>1. op.pc = "idle"
  BY DEF Init, Idle
<1>2. CursorOrder
  BY DEF Init, CursorOrder
<1>3. Layout
  BY DEF Init, Layout
<1>4. LedgerBehind(reserved, headOff)
  BY DEF Init, LedgerBehind
<1>5. HeadersBehind
  BY <1>1, StoreAssumption DEF Init, HeadersBehind, NotAhead, Fresh, Segs
<1> QED
  BY <1>1, <1>2, <1>3, <1>4, <1>5 DEF OInv, RequeueHolds, Appending, Unlatched,
     RunBehind, WalkBehind, Walks

LEMMA NextOrder == TInv /\ OInv /\ [Next]_vars => OInv'
<1> SUFFICES ASSUME TInv, OInv, [Next]_vars PROVE OInv'
  OBVIOUS
<1>1. CASE \E n \in 1 .. MaxLen : Add(n)
  BY <1>1, AddOrder
<1>2. CASE Consume
  BY <1>2, ReserveOrder, TakeOrder, SkipOrder, RequeueOrder, NothingOrder,
     QuarantineHeadOrder, QuarantineLatchedOrder, DeferDamageOrder
     DEF Consume, ReadDamage
<1>3. CASE Retire
  BY <1>3, AckOrder, AckBatchOrder, CommitOrder DEF Retire
<1>4. CASE Rewind
  BY <1>4, RewindOrder
<1>5. CASE AppendStep \/ DropStep \/ RunStep
  BY <1>5, RefusedOrder, CreateOrder, WriteOrder, DropOrder, RunOrder DEF AppendStep
<1>6. CASE WalkStep \/ Settle \/ CommitEnds
  BY <1>6, WalkStopOrder, WalkLeaveOrder, WalkAbandonedOrder, WalkRecordOrder,
     WalkQuarantineOrder, WalkQuarantineFailedOrder, SettleOrder, CommitEndsOrder
     DEF WalkStep
<1>7. CASE ForceStep \/ ForceFailed \/ ForceLatched \/ ForceDone \/ LoadStep \/ LoadDone
  BY <1>7, NothingOrder, ForceStepOrder, ForceLatchedOrder, ForceDoneOrder, LoadStepOrder,
     LoadDoneOrder
<1>8. CASE Environment
  BY <1>8, CrashOrder, NothingOrder DEF Environment
<1>9. CASE UNCHANGED vars
  BY <1>9, StutterOrder
<1> QED
  BY <1>1, <1>2, <1>3, <1>4, <1>5, <1>6, <1>7, <1>8, <1>9 DEF Next, OpStep

\* Nothing is retired before it is read and nothing is read before it is published,
\* through failed header writes, latched fsyncs, quarantines, Requeue's rewinds,
\* Rewind and restarts in the middle of a call, at any size of queue and segment.
THEOREM CursorsNeverCross == Spec => []CursorOrder
<1>1. Init => TInv /\ OInv
  BY InitTypes, InitOrder
<1>2. (TInv /\ OInv) /\ [Next]_vars => (TInv /\ OInv)'
  BY NextTypes, NextOrder
<1>3. OInv => CursorOrder
  BY DEF OInv
<1> QED
  BY <1>1, <1>2, <1>3, PTL DEF Spec
=============================================================================
