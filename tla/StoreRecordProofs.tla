------------------------- MODULE StoreRecordProofs -------------------------
(***************************************************************************)
(* The ledger of Store stays sorted, its segments stay contiguous and its  *)
(* cursors stay between records, for every value of the constants.         *)
(*                                                                         *)
(* LedgerSound needs one strengthening beyond OInv: an append has a record *)
(* to write (Sized), so that the frame a Requeue retires is not empty.     *)
(*                                                                         *)
(* The rest is about stores whose unlinks succeed.  CInv says that the     *)
(* live segments follow one another without a hole (Chained) from at or    *)
(* before the commit cursor (Fronted), which is what makes the read cursor *)
(* addressable.  RInv says that records tile the queue (Tiled) and that    *)
(* cursors, segment bases and header cursors stand between two of them     *)
(* (Placed), as do the ledger, the frame cache and a Requeue in flight     *)
(* (LedgerFramed, CacheFramed, RequeueFramed): what a walk over frames     *)
(* that the ledger, the cache or the bytes know must preserve.             *)
(***************************************************************************)
EXTENDS StoreOrderProofs, WellFoundedInduction

\* An append in progress has a record to write
Sized == Appending => op.len > 0

\* a .. b - 1 is the record that starts at a
Frame(a, b) == rlen[a] > 0 /\ b = a + rlen[a]

\* The entry e joins the ledger behind everything in it: a frame just read, the
\* frame a Requeue took, or the damaged rest of a segment
Entered(e) ==
    /\ e.start < e.end /\ LedgerBehind(reserved, e.start)
    /\ e.acked => Extent(e) \subseteq authorised' \union lostSet'
    /\ \/ ~e.corrupt /\ e.start = headOff /\ Frame(headOff, e.end)
       \/ ~e.corrupt /\ Appending /\ op.kind = "requeue" /\ e.start = op.start
                     /\ e.end = op.start + op.len
       \/ /\ e.corrupt /\ e.start = headOff
          /\ \E i \in Holding(headOff) : e.end = End(i) /\ e.written = seg[i].written

\* What one step may do to the ledger: nothing, drop it, drop the entries the
\* commit cursor has passed, and then acknowledge or enter something
LedgerStep ==
    \/ UNCHANGED reserved
    \/ reserved' = <<>>
    \/ \E k \in Passed(reserved, commitOff) :
          \/ reserved' = From(reserved, k)
          \/ \E ends : /\ reserved' = Marked(From(reserved, k), ends)
                       /\ \A j \in 1 .. Len(From(reserved, k)) :
                             From(reserved, k)[j].end \in ends =>
                                Extent(From(reserved, k)[j]) \subseteq authorised'
          \/ \E e \in Reservation :
                Entered(e) /\ reserved' = Append(From(reserved, k), e)

-----------------------------------------------------------------------------
(* Which step begins an append *)

LEMMA Begun ==
    /\ Idle.pc = "idle"
    /\ op' = Idle => op'.pc = "idle"
    /\ \A d : StartRun(d) => op'.pc \in {"idle", "run"}
    /\ \A off, d, l : StartWalk(off, d, l) => op'.pc = "walk"
<1>1. Idle.pc = "idle" /\ Idle \in Op
  BY IdleType DEF Idle
<1>2. ASSUME NEW d, StartRun(d) PROVE op'.pc \in {"idle", "run"}
  <2>1. CASE ioErr
    BY <1>1, <1>2, <2>1 DEF StartRun
  <2>2. CASE ~ioErr
    BY <1>1, <1>2, <2>2 DEF StartRun, Op
  <2> QED
    BY <2>1, <2>2
<1>3. ASSUME NEW off, NEW d, NEW l, StartWalk(off, d, l) PROVE op'.pc = "walk"
  BY <1>1, <1>3 DEF StartWalk, Op
<1> QED
  BY <1>1, <1>2, <1>3

LEMMA EntryType ==
    ASSUME TInv, NEW k \in 1 .. Len(reserved)
    PROVE  /\ reserved[k] \in Reservation /\ reserved[k].written \in Nat
           /\ reserved[k].start \in Nat /\ reserved[k].end \in Nat
           /\ reserved[k].start \in Offsets /\ reserved[k].end \in Offsets
<1>1. reserved \in Seq(Reservation)
  BY DEF TInv, TypeOK, LedgerType
<1>2. reserved[k] \in Reservation
  BY <1>1, ElementOfSeq
<1> QED
  BY <1>2, StoreAssumption DEF Reservation, Offsets

LEMMA AppendBegins ==
    ASSUME TInv, [Next]_vars, Appending'
    PROVE  \/ Appending /\ op'.len = op.len /\ op'.kind = op.kind /\ op'.start = op.start
           \/ \E n \in 1 .. MaxLen : Add(n)
           \/ Requeue
<1>0. op'.pc \in {"cycleDrop", "create", "write"} /\ op \in Op
  BY DEF Appending, TInv, TypeOK, OpType
<1>1. CASE CreateRefused \/ WriteFailed \/ WriteLatched \/ Write
  BY <1>0, <1>1, Begun DEF CreateRefused, WriteFailed, WriteLatched, Write, AppendFailed,
     RetireFrame
<1>2. CASE Create
  BY <1>0, <1>2, Begun DEF Create, AppendFailed, Appending, Op
<1>3. CASE DropStep
  BY <1>0, <1>3, Begun DEF DropStep, DropSegment, DropStuck, DropDone, FinishCommit,
     Appending, Op
<1>4. CASE RunStep \/ Settle \/ CommitEnds
  BY <1>0, <1>4, Begun DEF RunStep, Settle, CommitEnds, FinishCommit, Op
<1>5. CASE WalkStep
  BY <1>0, <1>5 DEF WalkStep, WalkOver, WalkLeave, WalkAbandoned, WalkUnreadable,
     WalkRecord, WalkStopsAtDamage, WalkQuarantine, WalkQuarantineFailed, Walking, Op
<1>6. CASE ForceStep \/ ForceFailed \/ ForceLatched \/ ForceDone \/ LoadStep \/ LoadDone
  BY <1>0, <1>6, Begun DEF ForceStep, ForceFailed, ForceLatched, ForceDone, LoadStep,
     LoadDone, Op
<1>7. CASE Consume /\ ~Requeue
  BY <1>0, <1>7, Begun DEF Consume, ReadDamage, Reserve, Take, Skip, Unread, PayReport,
     DropRecord, QuarantineHead, QuarantineLatched, DeferDamage, StartForce, TakeHead,
     Readable, Unreadable, Reading, RetireFrame, Idle
<1>8. CASE Retire \/ Rewind
  BY <1>0, <1>8, Begun DEF Retire, Ack, AckBatch, Commit, Rewind
<1>9. CASE Environment
  BY <1>0, <1>9, Begun DEF Environment, Crash, FailSync, Rot, Vanish, Idle
<1>10. CASE UNCHANGED vars
  BY <1>0, <1>10 DEF vars, Appending
<1> QED
  BY <1>1, <1>2, <1>3, <1>4, <1>5, <1>6, <1>7, <1>8, <1>9, <1>10
     DEF Next, OpStep, AppendStep

LEMMA RecordRead ==
    ASSUME TInv, NEW df, TakeHead(df) \/ (Readable(df) /\ rot[headOff] = "sum")
    PROVE  /\ headOff < writeOff /\ headOff \in Offsets /\ HeadNext \in Offsets
           /\ Frame(headOff, HeadNext) /\ headOff < HeadNext /\ op.pc = "idle"
<1>1. headOff < writeOff /\ rlen[headOff] > 0 /\ op.pc = "idle"
  BY DEF TakeHead, Readable, Reading, Framed
<1> QED
  BY <1>1, HeadFacts, SegFacts DEF Frame

LEMMA NextSized == TInv /\ Sized /\ [Next]_vars => Sized'
<1> SUFFICES ASSUME TInv, Sized, [Next]_vars, Appending' PROVE op'.len > 0
  BY DEF Sized
<1>1. CASE Appending /\ op'.len = op.len
  BY <1>1 DEF Sized
<1>2. CASE \E n \in 1 .. MaxLen : Add(n)
  <2>1. PICK n \in 1 .. MaxLen : Add(n)
    BY <1>2
  <2>2. n \in Nat /\ n > 0 /\ 0 \in Offsets
    BY StoreAssumption DEF Offsets
  <2> QED
    BY <2>1, <2>2, StartAppendType DEF Add
<1>3. CASE Requeue
  <2>1. PICK df \in files :
          TakeHead(df) /\ StartAppend("requeue", rlen[headOff], headOff)
    BY <1>3 DEF Requeue
  <2>2. headOff \in Offsets /\ rlen[headOff] > 0
    BY <2>1, RecordRead DEF Frame
  <2>3. rlen[headOff] \in Nat
    BY <2>2, StoreAssumption DEF TInv, TypeOK, DiskType
  <2> QED
    BY <2>1, <2>2, <2>3, StartAppendType
<1> QED
  BY <1>1, <1>2, <1>3, AppendBegins

-----------------------------------------------------------------------------
(* What a step may do to the ledger *)

LEMMA WriteLedger ==
    ASSUME TInv, OInv, Sized, Write
    PROVE  LedgerStep
<1>1. op.pc = "write" /\ Appending /\ op \in Op
  BY DEF Write, Appending, TInv, TypeOK, OpType
<1>2. CASE UNCHANGED reserved
  BY <1>2 DEF LedgerStep
<1>3. CASE /\ op.kind = "requeue" /\ RetireFrame(op.start, op.start + op.len, TRUE)
           /\ authorised' = authorised \union (op.start .. op.start + op.len - 1)
  <2>1. PICK k \in Passed(reserved, commitOff) :
          reserved' = Append(From(reserved, k), Settled(op.start, op.start + op.len))
    BY <1>3 DEF RetireFrame
  <2>2. op.start \in Nat /\ op.len \in Nat /\ op.len > 0 /\ op.start + op.len \in Offsets
    BY <1>1, StoreAssumption DEF Op, Sized, TInv, AppendFits, Offsets
  <2>3. LedgerBehind(reserved, op.start)
    BY <1>1, <1>3 DEF OInv, RequeueHolds
  <2>4. Settled(op.start, op.start + op.len) \in Reservation
    BY <1>1, <2>2 DEF Settled, Reservation, Op
  <2>5. Entered(Settled(op.start, op.start + op.len))
    BY <1>1, <1>3, <2>2, <2>3 DEF Entered, Settled, Extent
  <2> QED
    BY <2>1, <2>4, <2>5 DEF LedgerStep
<1> QED
  BY <1>2, <1>3 DEF Write

LEMMA ReadLedger ==
    ASSUME TInv, OInv, Reserve \/ Skip \/ DropRecord
    PROVE  LedgerStep
<1>1. PICK df \in files, e \in {Held(headOff, HeadNext), Settled(headOff, HeadNext)} :
        /\ TakeHead(df) \/ (Readable(df) /\ rot[headOff] = "sum")
        /\ \E k \in Passed(reserved, commitOff) : reserved' = Append(From(reserved, k), e)
        /\ e.acked => headOff .. HeadNext - 1 \subseteq authorised' \union lostSet'
  BY DEF Reserve, Skip, DropRecord, RetireFrame, Held
<1>2. /\ headOff \in Offsets /\ HeadNext \in Offsets
      /\ Frame(headOff, HeadNext) /\ headOff < HeadNext
  BY <1>1, RecordRead
<1>3. e \in Reservation /\ e.start = headOff /\ e.end = HeadNext /\ ~e.corrupt
  <2>1. CASE e = Held(headOff, HeadNext)
    BY <1>2, <2>1 DEF Held, Reservation
  <2>2. CASE e = Settled(headOff, HeadNext)
    BY <1>2, <2>2 DEF Settled, Reservation
  <2> QED
    BY <2>1, <2>2
<1>4. Entered(e)
  BY <1>1, <1>2, <1>3 DEF Entered, Extent, OInv
<1> QED
  BY <1>1, <1>3, <1>4 DEF LedgerStep

LEMMA DeferLedger ==
    ASSUME TInv, OInv, DeferDamage
    PROVE  LedgerStep
<1>1. PICK df \in files :
        /\ df \in Holding(headOff)
        /\ \E k \in Passed(reserved, commitOff) :
              reserved' = Append(From(reserved, k),
                                 Abandoned(headOff, End(df), seg[df].written))
        /\ lostSet' = lostSet \union (headOff .. End(df) - 1)
  BY DEF DeferDamage, Unreadable, Reading
<1>2. /\ df \in Segs /\ headOff < End(df) /\ End(df) \in Offsets /\ headOff \in Offsets
      /\ seg[df].written \in Nat
  BY <1>1, SegFacts DEF Holding, TInv, TypeOK, CursorType
<1>3. Abandoned(headOff, End(df), seg[df].written) \in Reservation
  BY <1>2 DEF Abandoned, Reservation
<1>4. Entered(Abandoned(headOff, End(df), seg[df].written))
  BY <1>1, <1>2 DEF Entered, Abandoned, Extent, OInv
<1> QED
  BY <1>1, <1>3, <1>4 DEF LedgerStep

LEMMA AckLedger ==
    ASSUME TInv, NEW off, Ack(off)
    PROVE  LedgerStep
<1> DEFINE hit(r) == {j \in 1 .. Len(r) : r[j].end = off}
<1>1. PICK k \in Passed(reserved, commitOff) :
        \/ reserved' = From(reserved, k)
        \/ /\ reserved' = Marked(From(reserved, k), {off})
           /\ authorised' = authorised \union
                 UNION {Extent(From(reserved, k)[j]) : j \in hit(From(reserved, k))}
  BY DEF Ack
<1>2. CASE reserved' = From(reserved, k)
  BY <1>2 DEF LedgerStep
<1>3. CASE /\ reserved' = Marked(From(reserved, k), {off})
           /\ authorised' = authorised \union
                 UNION {Extent(From(reserved, k)[j]) : j \in hit(From(reserved, k))}
  <2>1. ASSUME NEW j \in 1 .. Len(From(reserved, k)), From(reserved, k)[j].end \in {off}
        PROVE  Extent(From(reserved, k)[j]) \subseteq authorised'
    <3>1. j \in hit(From(reserved, k))
      BY <2>1
    <3> HIDE DEF hit
    <3> QED
      BY <1>3, <3>1
  <2> QED
    BY <1>3, <2>1 DEF LedgerStep
<1> QED
  BY <1>1, <1>2, <1>3

LEMMA AckBatchLedger ==
    ASSUME TInv, NEW offs, AckBatch(offs)
    PROVE  LedgerStep
<1> DEFINE ends == {o \in offs : commitOff < o /\ o <= headOff}
           hit(r) == {j \in 1 .. Len(r) : r[j].end \in ends}
<1>1. PICK k \in Passed(reserved, commitOff) :
        /\ reserved' = Marked(From(reserved, k), ends)
        /\ authorised' = authorised \union
              UNION {Extent(From(reserved, k)[j]) : j \in hit(From(reserved, k))}
  BY DEF AckBatch
<1>2. ASSUME NEW j \in 1 .. Len(From(reserved, k)), From(reserved, k)[j].end \in ends
      PROVE  Extent(From(reserved, k)[j]) \subseteq authorised'
  <2>1. j \in hit(From(reserved, k))
    BY <1>2
  <2> HIDE DEF hit
  <2> QED
    BY <1>1, <2>1
<1> HIDE DEF ends
<1> QED
  BY <1>1, <1>2 DEF LedgerStep

LEMMA LedgerSteps ==
    ASSUME TInv, OInv, Sized, [Next]_vars
    PROVE  LedgerStep
<1>1. CASE UNCHANGED reserved
  BY <1>1 DEF LedgerStep
<1>2. CASE \E n \in 1 .. MaxLen : Add(n)
  BY <1>1, <1>2 DEF Add, ledger
<1>3. CASE Consume
  BY <1>1, <1>3, ReadLedger, DeferLedger DEF Consume, ReadDamage, Take, Requeue, Unread,
     PayReport, QuarantineHead, QuarantineLatched, StartForce, ledger
<1>4. CASE Retire
  BY <1>1, <1>4, AckLedger, AckBatchLedger DEF Retire, Commit, ledger
<1>5. CASE Rewind \/ Crash
  BY <1>5 DEF Rewind, Crash, LedgerStep
<1>6. CASE AppendStep
  BY <1>1, <1>6, WriteLedger DEF AppendStep, CreateRefused, Create, WriteFailed,
     WriteLatched, ledger
<1>7. CASE FinishCommit
  BY <1>1, <1>7 DEF FinishCommit, LedgerStep
<1>8. CASE DropStep
  BY <1>1, <1>7, <1>8 DEF DropStep, DropSegment, DropStuck, DropDone
<1>9. CASE RunStep \/ WalkStep \/ Settle
  BY <1>1, <1>9 DEF RunStep, Settle, WalkStep, WalkOver, WalkLeave, WalkAbandoned,
     WalkUnreadable, WalkRecord, WalkStopsAtDamage, WalkQuarantine, WalkQuarantineFailed,
     ledger
<1>10. CASE CommitEnds
  BY <1>1, <1>7, <1>10 DEF CommitEnds
<1>11. CASE ForceStep \/ ForceFailed \/ ForceLatched \/ ForceDone \/ LoadStep \/ LoadDone
  BY <1>1, <1>11 DEF ForceStep, ForceFailed, ForceLatched, ForceDone, LoadStep, LoadDone,
     ledger
<1>12. CASE Environment
  BY <1>1, <1>5, <1>12 DEF Environment, FailSync, Rot, Vanish, ledger
<1>13. CASE UNCHANGED vars
  BY <1>1, <1>13 DEF vars, ledger
<1> QED
  BY <1>2, <1>3, <1>4, <1>5, <1>6, <1>8, <1>9, <1>10, <1>11, <1>12, <1>13
     DEF Next, OpStep

-----------------------------------------------------------------------------
(* The ledger stays in read order *)

Ascending(r) ==
    \A k \in 1 .. Len(r) :
        r[k].start < r[k].end /\ \A j \in 1 .. k - 1 : r[j].end <= r[k].start

LEMMA AscendingFrom ==
    ASSUME NEW r \in Seq(Reservation), NEW n \in 0 .. Len(r), Ascending(r)
    PROVE  Ascending(From(r, n))
<1>1. /\ Len(From(r, n)) = Len(r) - n
      /\ \A j \in 1 .. Len(r) - n : From(r, n)[j] = r[j + n]
  BY FromType
<1>2. Len(r) \in Nat
  BY LenProperties
<1> SUFFICES ASSUME NEW k \in 1 .. Len(r) - n
             PROVE  /\ From(r, n)[k].start < From(r, n)[k].end
                    /\ \A j \in 1 .. k - 1 : From(r, n)[j].end <= From(r, n)[k].start
  BY <1>1 DEF Ascending
<1>3. From(r, n)[k] = r[k + n] /\ k + n \in 1 .. Len(r)
  BY <1>1, <1>2
<1>4. ASSUME NEW j \in 1 .. k - 1 PROVE From(r, n)[j].end <= From(r, n)[k].start
  <2>1. From(r, n)[j] = r[j + n] /\ j + n \in 1 .. (k + n) - 1
    BY <1>1, <1>2
  <2> QED
    BY <1>3, <2>1 DEF Ascending
<1> QED
  BY <1>3, <1>4 DEF Ascending

LEMMA AscendingAppend ==
    ASSUME NEW r \in Seq(Reservation), NEW e \in Reservation, Ascending(r),
           e.start < e.end, LedgerBehind(r, e.start)
    PROVE  Ascending(Append(r, e))
<1>1. /\ Len(Append(r, e)) = Len(r) + 1 /\ Append(r, e)[Len(r) + 1] = e
      /\ \A j \in 1 .. Len(r) : Append(r, e)[j] = r[j]
  BY AppendProperties
<1>2. Len(r) \in Nat
  BY LenProperties
<1> SUFFICES ASSUME NEW k \in 1 .. Len(r) + 1
             PROVE  /\ Append(r, e)[k].start < Append(r, e)[k].end
                    /\ \A j \in 1 .. k - 1 : Append(r, e)[j].end <= Append(r, e)[k].start
  BY <1>1 DEF Ascending
<1>3. CASE k = Len(r) + 1
  BY <1>1, <1>2, <1>3 DEF LedgerBehind
<1>4. CASE k \in 1 .. Len(r)
  BY <1>1, <1>2, <1>4 DEF Ascending
<1> QED
  BY <1>2, <1>3, <1>4

LEMMA AscendingMarked ==
    ASSUME NEW r \in Seq(Reservation), NEW ends, Ascending(r)
    PROVE  Ascending(Marked(r, ends))
<1>1. Len(r) \in Nat
  BY LenProperties
<1> QED
  BY <1>1, MarkedType DEF Ascending

LEMMA NextAscending ==
    ASSUME TInv, OInv, Sized, Ascending(reserved), [Next]_vars
    PROVE  Ascending(reserved')
<1>1. LedgerStep
  BY LedgerSteps
<1>2. reserved \in Seq(Reservation)
  BY DEF TInv, TypeOK, LedgerType
<1>3. CASE UNCHANGED reserved
  BY <1>3
<1>4. CASE reserved' = <<>>
  BY <1>4 DEF Ascending
<1>5. CASE \E k \in Passed(reserved, commitOff) :
             \/ reserved' = From(reserved, k)
             \/ \E ends : reserved' = Marked(From(reserved, k), ends)
             \/ \E e \in Reservation :
                   Entered(e) /\ reserved' = Append(From(reserved, k), e)
  <2>1. PICK k \in Passed(reserved, commitOff) :
          \/ reserved' = From(reserved, k)
          \/ \E ends : reserved' = Marked(From(reserved, k), ends)
          \/ \E e \in Reservation :
                Entered(e) /\ reserved' = Append(From(reserved, k), e)
    BY <1>5
  <2>2. k \in 0 .. Len(reserved)
    BY DEF Passed
  <2>3. From(reserved, k) \in Seq(Reservation) /\ Ascending(From(reserved, k))
    BY <1>2, <2>2, FromType, AscendingFrom
  <2>4. ASSUME NEW e \in Reservation, Entered(e), reserved' = Append(From(reserved, k), e)
        PROVE  Ascending(reserved')
    <3>1. e.start < e.end /\ LedgerBehind(From(reserved, k), e.start)
      BY <1>2, <2>2, <2>4, BehindFrom DEF Entered
    <3> QED
      BY <2>3, <2>4, <3>1, AscendingAppend
  <2> QED
    BY <2>1, <2>3, <2>4, AscendingMarked
<1> QED
  BY <1>1, <1>3, <1>4, <1>5 DEF LedgerStep

\* The ledger findReserved bisects and ackedRunEnd chains stays in read order, its
\* extents disjoint and behind the read cursor, through Requeue's rewinds, deferred
\* damage, Rewind and restarts, under every combination of failing system calls.
THEOREM LedgerStaysInReadOrder == Spec => []LedgerSound
<1> DEFINE LInv == TInv /\ OInv /\ Sized /\ Ascending(reserved)
<1>1. Init => LInv
  <2>1. Init => Sized /\ Ascending(reserved)
    BY Begun DEF Init, Sized, Appending, Ascending
  <2> QED
    BY <2>1, InitTypes, InitOrder
<1>2. LInv /\ [Next]_vars => LInv'
  <2>1. LInv /\ [Next]_vars => Ascending(reserved)'
    BY NextAscending DEF Ascending
  <2> QED
    BY <2>1, NextTypes, NextOrder, NextSized
<1>3. LInv => LedgerSound
  BY DEF OInv, LedgerBehind, Ascending, LedgerSound
<1> HIDE DEF LInv
<1> QED
  BY <1>1, <1>2, <1>3, PTL DEF Spec

-----------------------------------------------------------------------------
(* Segments follow one another without a hole.  cycle may drop the active  *)
(* segment before it creates the next; where an earlier segment would not  *)
(* unlink, that one would become active again and the records after it     *)
(* would lie at offsets its base does not explain.  So this part, and what *)
(* rests on it, is about stores whose unlinks succeed.                     *)

UnlinksSucceed == "unlink" \notin Faults

\* Every segment ends where the next begins, and the last at the write cursor
Chained ==
    /\ \A i \in files : i + 1 \in files \/ i + 1 = nextNum
    /\ \A i \in files : i + 1 \in files => End(i) = seg[i + 1].base
    /\ \A i \in files : i + 1 = nextNum => End(i) = writeOff

\* Nothing the commit cursor has not passed lies before the first segment
Fronted ==
    /\ files = {} => commitOff = writeOff
    /\ files # {} => \E i \in files : seg[i].base <= commitOff

\* dropCommitted takes the segments from the front
DropsInOrder == op.pc \in {"cycleDrop", "commitDrop"} => \A i \in files : op.i < i

CInv == Chained /\ Fronted /\ DropsInOrder /\ op.pc # "force"

LEMMA GreatestExists ==
    ASSUME NEW N \in Nat, NEW S, S # {}, S \subseteq 1 .. N
    PROVE  \E m \in S : \A j \in S : j <= m
<1> DEFINE T == {N - i : i \in S}
<1>1. T # {} /\ T \subseteq Nat
  <2>1. \A i \in S : N - i \in Nat
    OBVIOUS
  <2> QED
    BY <2>1
<1>2. PICK t \in T : \A u \in T : ~(<<u, t>> \in OpToRel(<, Nat))
  BY <1>1, WFMin, NatLessThanWellFounded
<1>3. PICK m \in S : t = N - m
  OBVIOUS
<1>4. ASSUME NEW j \in S PROVE j <= m
  <2>1. N - j \in T /\ N - j \in Nat /\ N - m \in Nat
    OBVIOUS
  <2>2. ~(N - j < N - m)
    BY <1>2, <1>3, <2>1 DEF OpToRel
  <2> QED
    BY <2>2
<1> QED
  BY <1>3, <1>4

\* Every offset from the commit cursor to the tail lies in a live segment
LEMMA Addressed ==
    ASSUME TInv, Layout, Chained, Fronted, NEW p \in Nat, commitOff <= p, p < writeOff
    PROVE  Holding(p) # {}
<1>1. \A i \in files : i \in Segs /\ i \in Nat /\ i + 1 \in Nat
  BY SegFacts DEF Segs
<1> DEFINE S == {i \in files : seg[i].base <= p}
<1>2. S # {} /\ S \subseteq 1 .. MaxSegs
  BY <1>1, SegFacts DEF Fronted, Segs
<1>3. PICK m \in S : \A j \in S : j <= m
  BY <1>2, GreatestExists, StoreAssumption
<1>4. p < End(m)
  <2>1. CASE m + 1 \in files
    <3>1. ~(m + 1 \in S)
      BY <1>1, <1>3
    <3>2. ~(seg[m + 1].base <= p) /\ End(m) = seg[m + 1].base
      BY <2>1, <3>1 DEF Chained
    <3> QED
      BY <1>1, <2>1, <3>2, SegFacts
  <2>2. CASE m + 1 = nextNum
    BY <2>2 DEF Chained
  <2> QED
    BY <2>1, <2>2 DEF Chained
<1> QED
  BY <1>4 DEF Holding

LEMMA HeadAddressed ==
    ASSUME TInv, OInv, CInv
    PROVE  HeadAddressable
  BY Addressed, SegFacts DEF OInv, CInv, CursorOrder, HeadAddressable

\* The steps that change which segments there are, or where they lie
LEMMA GeometrySteps ==
    ASSUME TInv, OInv, [Next]_vars
    PROVE  \/ UNCHANGED <<files, nextNum, writeOff, rlen>> /\ Kept(seg, seg')
           \/ op.pc = "write" /\ \E af \in files : Publish(af)
           \/ Create \/ DropSegment \/ LoadDone
<1>1. ASSUME UNCHANGED <<files, nextNum, writeOff, rlen, seg>>
      PROVE  UNCHANGED <<files, nextNum, writeOff, rlen>> /\ Kept(seg, seg')
  BY <1>1, KeptSelf
<1>2. CASE \E n \in 1 .. MaxLen : Add(n)
  BY <1>1, <1>2 DEF Add, cursors, disk
<1>3. CASE QuarantineHead \/ QuarantineLatched
  <2>1. PICK df \in files : seg' = Quarantine(seg, df) \/ seg' = HeaderFull(seg, df)
    BY <1>3 DEF QuarantineHead, QuarantineLatched, Quarantine
  <2> QED
    BY <1>3, <2>1, QuarantineHeaders DEF QuarantineHead, QuarantineLatched, cursors
<1>4. CASE Consume /\ ~(QuarantineHead \/ QuarantineLatched)
  BY <1>1, <1>4 DEF Consume, ReadDamage, Reserve, Take, Skip, Requeue, Unread, PayReport,
     DropRecord, DeferDamage, StartForce, TakeHead, cursors, disk
<1>5. CASE Retire \/ Rewind
  BY <1>1, <1>5 DEF Retire, Ack, AckBatch, Commit, Rewind, cursors, disk
<1>6. CASE CreateRefused \/ WriteFailed
  BY <1>1, <1>6 DEF CreateRefused, WriteFailed, AppendFailed, disk
<1>7. CASE Write \/ WriteLatched
  BY <1>7 DEF Write, WriteLatched
<1>8. CASE DropStuck \/ DropDone \/ RunStep \/ CommitEnds
  BY <1>1, <1>8 DEF DropStuck, DropDone, RunStep, CommitEnds, cursors, disk
<1>9. CASE WalkOver \/ WalkUnreadable \/ WalkStopsAtDamage
  BY <1>1, <1>9 DEF WalkOver, WalkUnreadable, WalkStopsAtDamage, cursors, disk
<1>10. CASE WalkLeave \/ Settle
  <2>1. /\ Walks /\ UNCHANGED <<files, nextNum, writeOff, rlen>>
        /\ \/ UNCHANGED seg
           \/ op.cur # 0 /\ (Persisted(op.cur) \/ RolledBack(op.cur))
    BY <1>10 DEF WalkLeave, Settle, Walks
  <2>2. CASE op.cur # 0 /\ (Persisted(op.cur) \/ RolledBack(op.cur))
    <3>1. op.cur \in Segs /\ seg[op.cur].base <= commitOff
      BY <2>1, <2>2, WalkFacts
    <3> QED
      BY <2>1, <2>2, <3>1, PersistedShape, RolledBackShape DEF TInv, TypeOK
  <2> QED
    BY <1>1, <2>1, <2>2
<1>11. CASE WalkAbandoned \/ WalkRecord
  <2>1. UNCHANGED <<files, nextNum, writeOff, rlen>>
    BY <1>11 DEF WalkAbandoned, WalkRecord
  <2>2. \/ UNCHANGED seg
        \/ \E df \in files, n \in Nat : seg' = WithCommitted(seg, df, seg[df].committed + n)
    <3>1. CASE WalkRecord
      BY <3>1 DEF WalkRecord, WithCommitted
    <3>2. CASE WalkAbandoned
      <4>1. PICK df \in files, k \in EntryAt(commitOff) :
              \/ UNCHANGED seg
              \/ seg' = [seg EXCEPT ![df].committed =
                               @ + Max2(reserved[k].written - seg[df].committed, 0)]
        BY <3>2 DEF WalkAbandoned
      <4>2. reserved[k].written \in Nat
        BY EntryType DEF EntryAt
      <4>3. Max2(reserved[k].written - seg[df].committed, 0) \in Nat
        BY <4>2, SegFacts DEF Max2
      <4> HIDE DEF Max2
      <4> QED
        BY <4>1, <4>3 DEF WithCommitted
    <3> QED
      BY <1>11, <3>1, <3>2
  <2>3. ASSUME NEW df \in files, NEW n \in Nat,
               seg' = WithCommitted(seg, df, seg[df].committed + n)
        PROVE  Kept(seg, seg')
    <3>1. df \in Segs /\ seg[df].committed + n \in Nat
      BY SegFacts
    <3> QED
      BY <2>3, <3>1, CommittedShape DEF TInv, TypeOK, SegType
  <2> QED
    BY <1>1, <2>1, <2>2, <2>3
<1>12. CASE WalkQuarantine
  <2>1. PICK df \in files : seg' = Quarantine(seg, df)
    BY <1>12 DEF WalkQuarantine, Quarantine
  <2> QED
    BY <1>12, <2>1, QuarantineHeaders DEF WalkQuarantine
<1>13. CASE WalkQuarantineFailed
  <2>1. PICK df \in files : UNCHANGED seg \/ seg' = HeaderFull(seg, df)
    BY <1>13 DEF WalkQuarantineFailed
  <2> QED
    BY <1>1, <1>13, <2>1, QuarantineHeaders DEF WalkQuarantineFailed, cursors
<1>14. CASE ForceStep \/ ForceLatched
  <2>1. PICK i \in files :
          UNCHANGED seg \/ seg' = Quarantine(seg, i) \/ seg' = HeaderFull(seg, i)
    BY <1>14 DEF ForceStep, ForceLatched, Quarantine
  <2> QED
    BY <1>1, <1>14, <2>1, QuarantineHeaders DEF ForceStep, ForceLatched, cursors
<1>15. CASE ForceFailed \/ ForceDone
  BY <1>1, <1>15 DEF ForceFailed, ForceDone, cursors, disk
<1>16. CASE LoadStep
  <2>1. PICK i \in files :
          seg' = Repaired(seg, i, LoadedCount(seg[i], commitOff),
                          LoadedCursor(seg[i], commitOff))
    BY <1>16 DEF LoadStep, Repaired
  <2>2. i \in Segs /\ seg \in [Segs -> SegmentRec]
    BY SegFacts DEF TInv, TypeOK, SegType
  <2>3. LoadedCount(seg[i], commitOff) \in Nat /\ LoadedCursor(seg[i], commitOff) \in Nat
    BY <2>2, LoadedFacts
  <2>4. Kept(seg, seg')
    BY <2>1, <2>2, <2>3, RepairedShape
  <2> QED
    BY <1>16, <2>4 DEF LoadStep, cursors
<1>17. CASE Environment
  BY <1>1, <1>17 DEF Environment, Crash, FailSync, Rot, Vanish, cursors, disk
<1>18. CASE UNCHANGED vars
  BY <1>1, <1>18 DEF vars, cursors, disk
<1> QED
  BY <1>2, <1>3, <1>4, <1>5, <1>6, <1>7, <1>8, <1>9, <1>10, <1>11, <1>12, <1>13, <1>14,
     <1>15, <1>16, <1>17, <1>18 DEF Next, OpStep, AppendStep, DropStep, WalkStep

\* The commit cursor falls back only into a live segment
LEMMA CommitMoves ==
    ASSUME TInv, OInv, [Next]_vars
    PROVE  \/ commitOff <= commitOff'
           \/ files' = files /\ Kept(seg, seg') /\ \E i \in files : seg[i].base <= commitOff'
<1>0. commitOff <= commitOff
  BY SegFacts
<1>1. CASE UNCHANGED commitOff
  BY <1>0, <1>1
<1>2. CASE \E n \in 1 .. MaxLen : Add(n)
  BY <1>1, <1>2 DEF Add, cursors
<1>3. CASE Consume /\ ~QuarantineHead
  BY <1>1, <1>3 DEF Consume, ReadDamage, Reserve, Take, Skip, Requeue, Unread, PayReport,
     DropRecord, QuarantineLatched, DeferDamage, StartForce, TakeHead, cursors
<1>4. CASE QuarantineHead
  <2>1. PICK df \in files : df \in Holding(commitOff) /\ commitOff' = End(df)
    BY <1>4 DEF QuarantineHead, Unreadable, Reading
  <2> QED
    BY <2>1, SegFacts DEF Holding
<1>5. CASE Retire \/ Rewind
  BY <1>1, <1>5 DEF Retire, Ack, AckBatch, Commit, Rewind, cursors
<1>6. CASE AppendStep \/ DropStep \/ RunStep \/ CommitEnds
  BY <1>1, <1>6 DEF AppendStep, CreateRefused, Create, WriteFailed, Write, WriteLatched,
     AppendFailed, Publish, DropStep, DropSegment, DropStuck, DropDone, RunStep,
     CommitEnds,
     cursors
<1>7. CASE WalkOver \/ WalkUnreadable \/ WalkStopsAtDamage \/ WalkQuarantineFailed
  BY <1>1, <1>7 DEF WalkOver, WalkUnreadable, WalkStopsAtDamage, WalkQuarantineFailed,
     cursors
<1>8. CASE WalkLeave \/ Settle
  <2>1. /\ Walks /\ files' = files
        /\ \/ UNCHANGED commitOff
           \/ op.cur # 0 /\ RolledBack(op.cur)
    BY <1>8 DEF WalkLeave, Settle, Walks, Persisted
  <2>2. CASE op.cur # 0 /\ RolledBack(op.cur)
    <3>1. op.cur \in files /\ op.cur \in Segs
      BY <2>1, <2>2, WalkFacts
    <3>2. commitOff' = seg[op.cur].base + seg[op.cur].hcur
      BY <2>2 DEF RolledBack
    <3>3. seg[op.cur].base <= commitOff' /\ Kept(seg, seg')
      BY <2>2, <3>1, <3>2, SegFacts, RolledBackShape DEF TInv, TypeOK
    <3> QED
      BY <2>1, <3>1, <3>3
  <2> QED
    BY <1>1, <2>1, <2>2
<1>9. CASE WalkAbandoned
  <2>1. \/ UNCHANGED commitOff
        \/ \E k \in EntryAt(commitOff) : commitOff' = reserved[k].end
    BY <1>9 DEF WalkAbandoned
  <2>2. \A k \in EntryAt(commitOff) : reserved[k].end \in Nat /\ commitOff <= reserved[k].end
    BY EntryType, SegFacts DEF EntryAt
  <2> QED
    BY <1>1, <2>1, <2>2
<1>10. CASE WalkRecord
  BY <1>1, <1>10, SegFacts, FrameEndNat DEF WalkRecord
<1>11. CASE WalkQuarantine
  <2>1. PICK df \in files : df \in Holding(commitOff) /\ commitOff' = End(df)
    BY <1>11 DEF WalkQuarantine, Walking
  <2> QED
    BY <2>1, SegFacts DEF Holding
<1>12. CASE ForceStep \/ ForceFailed \/ ForceLatched \/ ForceDone
  <2>1. CASE ForceStep
    <3>1. PICK i \in files : UNCHANGED commitOff \/ commitOff' = Max2(commitOff, End(i))
      BY <2>1 DEF ForceStep
    <3> QED
      BY <1>1, <3>1, SegFacts, StoreAssumption DEF Max2, Offsets
  <2>2. CASE ForceDone
    BY <2>2, SegFacts DEF ForceDone, OInv, CursorOrder
  <2> QED
    BY <1>1, <1>12, <2>1, <2>2 DEF ForceFailed, ForceLatched, cursors
<1>13. CASE LoadStep \/ LoadDone
  BY <1>1, <1>13 DEF LoadStep, LoadDone, cursors
<1>14. CASE Crash
  <2>1. PICK c \in Recovered : commitOff' = c /\ UNCHANGED <<files, seg>>
    BY <1>14 DEF Crash
  <2>2. CASE c = writeOff
    BY <2>1, <2>2, SegFacts DEF OInv, CursorOrder
  <2>3. CASE \E i \in files : c = seg[i].base + seg[i].hcur
    <3>1. PICK i \in files : c = seg[i].base + seg[i].hcur
      BY <2>3
    <3>2. seg[i].base <= commitOff' /\ Kept(seg, seg')
      BY <2>1, <3>1, SegFacts, KeptSelf
    <3> QED
      BY <2>1, <3>2
  <2> QED
    BY <2>1, <2>2, <2>3 DEF Recovered
<1>15. CASE Environment
  BY <1>1, <1>14, <1>15 DEF Environment, FailSync, Rot, Vanish, cursors
<1>16. CASE UNCHANGED vars
  BY <1>1, <1>16 DEF vars, cursors
<1> QED
  BY <1>2, <1>3, <1>4, <1>5, <1>6, <1>7, <1>8, <1>9, <1>10, <1>11, <1>12, <1>13, <1>15,
     <1>16 DEF Next, OpStep, WalkStep

\* A drop begins before every segment, and each step of it takes the next
LEMMA DropBegins ==
    ASSUME TInv, UnlinksSucceed, [Next]_vars, op'.pc \in {"cycleDrop", "commitDrop"}
    PROVE  \/ op'.i = 0 /\ files' = files
           \/ DropSegment
           \/ UNCHANGED <<op, files>>
<1>0. op \in Op /\ ~DropStuck /\ Idle \in Op /\ Idle.i = 0
  BY IdleType DEF TInv, TypeOK, OpType, DropStuck, UnlinksSucceed, Idle
<1>1. CASE \E n \in 1 .. MaxLen : Add(n)
  BY <1>0, <1>1 DEF Add, StartAppend, disk, Op
<1>2. CASE Requeue
  BY <1>0, <1>2 DEF Requeue, TakeHead, StartAppend, disk, Op
<1>3. CASE AppendStep
  BY <1>0, <1>3, Begun DEF AppendStep, CreateRefused, WriteFailed, WriteLatched, Write,
     AppendFailed, RetireFrame, Create, Op
<1>4. CASE DropStep
  BY <1>0, <1>4, Begun DEF DropStep, DropDone, FinishCommit, Op
<1>5. CASE RunStep \/ Settle
  BY <1>0, <1>5, Begun DEF RunStep, Settle, Op
<1>6. CASE CommitEnds
  BY <1>0, <1>6, Begun DEF CommitEnds, FinishCommit, disk, Op
<1>7. CASE WalkStep
  BY <1>0, <1>7 DEF WalkStep, WalkOver, WalkLeave, WalkAbandoned, WalkUnreadable,
     WalkRecord, WalkStopsAtDamage, WalkQuarantine, WalkQuarantineFailed, Walking, Op
<1>8. CASE ForceStep \/ ForceFailed \/ ForceLatched \/ ForceDone \/ LoadStep \/ LoadDone
  BY <1>0, <1>8, Begun DEF ForceStep, ForceFailed, ForceLatched, ForceDone, LoadStep,
     LoadDone, Op
<1>9. CASE Consume /\ ~Requeue
  BY <1>0, <1>9, Begun DEF Consume, ReadDamage, Reserve, Take, Skip, Unread, PayReport,
     DropRecord, QuarantineHead, QuarantineLatched, DeferDamage, StartForce, TakeHead,
     Readable, Unreadable, Reading, RetireFrame, Op
<1>10. CASE Retire \/ Rewind
  BY <1>0, <1>10, Begun DEF Retire, Ack, AckBatch, Commit, Rewind
<1>11. CASE Environment
  BY <1>0, <1>11, Begun DEF Environment, Crash, FailSync, Rot, Vanish, Op
<1>12. CASE UNCHANGED vars
  BY <1>12 DEF vars, disk
<1> QED
  BY <1>1, <1>2, <1>3, <1>4, <1>5, <1>6, <1>7, <1>8, <1>9, <1>10, <1>11, <1>12
     DEF Next, OpStep

\* forceCommitAll begins only where the read cursor addresses no segment
LEMMA ForceBegins ==
    ASSUME TInv, [Next]_vars, op'.pc = "force"
    PROVE  op.pc = "force" \/ StartForce
<1>0. op \in Op /\ Idle \in Op
  BY IdleType DEF TInv, TypeOK, OpType
<1>1. CASE (\E n \in 1 .. MaxLen : Add(n)) \/ Requeue
  BY <1>0, <1>1 DEF Add, Requeue, StartAppend, Op
<1>3. CASE AppendStep
  BY <1>0, <1>3, Begun DEF AppendStep, CreateRefused, WriteFailed, WriteLatched, Write,
     AppendFailed, RetireFrame, Create, Op
<1>4. CASE DropStep
  BY <1>0, <1>4, Begun DEF DropStep, DropSegment, DropStuck, DropDone, FinishCommit, Op
<1>5. CASE RunStep \/ Settle \/ CommitEnds
  BY <1>0, <1>5, Begun DEF RunStep, Settle, CommitEnds, FinishCommit, Op
<1>7. CASE WalkStep
  BY <1>0, <1>7 DEF WalkStep, WalkOver, WalkLeave, WalkAbandoned, WalkUnreadable,
     WalkRecord, WalkStopsAtDamage, WalkQuarantine, WalkQuarantineFailed, Walking, Op
<1>8. CASE ForceStep \/ ForceFailed \/ ForceLatched \/ ForceDone \/ LoadStep \/ LoadDone
  BY <1>0, <1>8, Begun DEF ForceStep, ForceFailed, ForceLatched, ForceDone, LoadStep,
     LoadDone, Op
<1>9. CASE Consume /\ ~Requeue
  BY <1>0, <1>9, Begun DEF Consume, ReadDamage, Reserve, Take, Skip, Unread, PayReport,
     DropRecord, QuarantineHead, QuarantineLatched, DeferDamage, TakeHead,
     Readable, Unreadable, Reading, RetireFrame, Op
<1>10. CASE Retire \/ Rewind
  BY <1>0, <1>10, Begun DEF Retire, Ack, AckBatch, Commit, Rewind
<1>11. CASE Environment
  BY <1>0, <1>11, Begun DEF Environment, Crash, FailSync, Rot, Vanish, Op
<1>12. CASE UNCHANGED vars
  BY <1>12 DEF vars
<1> QED
  BY <1>1, <1>3, <1>4, <1>5, <1>7, <1>8, <1>9, <1>10, <1>11, <1>12 DEF Next, OpStep

\* A segment that keeps its extent keeps its place in the chain
LEMMA ChainKept ==
    ASSUME TInv, OInv, CInv, CursorOrder', TInv',
           UNCHANGED <<files, nextNum, writeOff>>, Kept(seg, seg'),
           \/ commitOff <= commitOff'
           \/ \E i \in files : seg[i].base <= commitOff'
    PROVE  Chained' /\ Fronted'
<1>1. \A i \in files : i \in Segs
  BY SegFacts
<1>2. \A i \in files : End(i)' = End(i) /\ seg'[i].base = seg[i].base
  BY <1>1 DEF Kept, End
<1>3. Chained'
  BY <1>2 DEF CInv, Chained
<1>4. commitOff' \in Nat /\ headOff' \in Nat /\ writeOff' \in Nat
  BY StoreAssumption DEF TInv, TypeOK, CursorType, Offsets
<1>5. Fronted'
  <2>1. CASE files = {}
    <3>1. commitOff = writeOff /\ commitOff <= commitOff' /\ commitOff' <= writeOff
      BY <1>4, <2>1 DEF CInv, Fronted, CursorOrder
    <3>2. commitOff' = writeOff
      BY <1>4, <3>1, SegFacts
    <3> QED
      BY <2>1, <3>2 DEF Fronted
  <2>2. CASE files # {}
    <3>1. PICK i \in files : seg[i].base <= commitOff
      BY <2>2 DEF CInv, Fronted
    <3>2. \E j \in files : seg[j].base <= commitOff'
      BY <1>1, <1>4, <3>1, SegFacts
    <3> QED
      BY <1>2, <2>2, <3>2 DEF Fronted
  <2> QED
    BY <2>1, <2>2
<1> QED
  BY <1>3, <1>5

LEMMA ActiveIsLast ==
    ASSUME TInv, OInv, CInv, NEW af \in files, IsActive(af)
    PROVE  af + 1 = nextNum /\ End(af) = writeOff
<1>1. af \in Nat /\ af + 1 \notin files
  BY SegFacts DEF IsActive, Segs
<1> QED
  BY <1>1 DEF CInv, Chained

LEMMA PublishChain ==
    ASSUME TInv, OInv, CInv, op.pc = "write", NEW af \in files, Publish(af)
    PROVE  Chained' /\ Fronted'
<1>1. /\ \A j \in Segs : seg'[j].base = seg[j].base /\ (j # af => seg'[j] = seg[j])
      /\ \A j \in files : j \in Segs /\ j \in Nat
  BY PublishTypes, SegFacts DEF Segs
<1>2. /\ files' = files /\ nextNum' = nextNum /\ commitOff' = commitOff
      /\ writeOff' = writeOff + op.len /\ IsActive(af)
      /\ seg' = [seg EXCEPT ![af].size = @ + op.len, ![af].written = @ + 1]
  BY DEF Publish
<1>3. af + 1 = nextNum /\ End(af) = writeOff
  BY <1>2, ActiveIsLast
<1>4. op.len \in Nat
  BY DEF TInv, TypeOK, OpType, Op
<1>5. End(af)' = writeOff'
  <2>1. seg'[af].size = seg[af].size + op.len
    BY <1>1, <1>2 DEF TInv, TypeOK, SegType, SegmentRec
  <2>2. End(af)' = seg[af].base + (seg[af].size + op.len)
    BY <1>1, <2>1 DEF End
  <2>3. seg[af].base + seg[af].size = writeOff /\ seg[af].base \in Nat /\ seg[af].size \in Nat
    BY <1>1, <1>3, SegFacts
  <2> QED
    BY <1>2, <1>4, <2>2, <2>3
<1>6. \A i \in files : i # af => End(i)' = End(i) /\ i + 1 # nextNum
  BY <1>1, <1>3 DEF End
<1>7. Chained'
  <2>1. \A i \in files' : i + 1 \in files' \/ i + 1 = nextNum'
    BY <1>2 DEF CInv, Chained
  <2>2. ASSUME NEW i \in files', i + 1 \in files' PROVE End(i)' = seg'[i + 1].base
    <3>1. i # af
      BY <1>1, <1>2, <1>3, <2>2 DEF OInv, Layout
    <3> QED
      BY <1>1, <1>2, <1>6, <2>2, <3>1 DEF CInv, Chained
  <2>3. \A i \in files' : i + 1 = nextNum' => End(i)' = writeOff'
    BY <1>2, <1>5, <1>6
  <2> QED
    BY <2>1, <2>2, <2>3 DEF Chained
<1>8. Fronted'
  BY <1>1, <1>2 DEF CInv, Fronted
<1> QED
  BY <1>7, <1>8

LEMMA CreateChain ==
    ASSUME TInv, OInv, CInv, Create
    PROVE  Chained' /\ Fronted'
<1>1. /\ op.pc = "create" /\ files' = files \union {nextNum} /\ nextNum' = nextNum + 1
      /\ seg' = [seg EXCEPT ![nextNum] = Fresh(writeOff, Max2(SegCap, op.len))]
      /\ UNCHANGED <<writeOff, commitOff>>
  BY DEF Create, cursors, AppendFailed
<1>2. nextNum \in Segs /\ nextNum \in Nat /\ nextNum \notin files
      /\ \A i \in files : i \in Segs /\ i \in Nat /\ i < nextNum
  BY <1>1, SegFacts, StoreAssumption
     DEF TInv, TypeOK, DiskType, Segs, AppendFits, Appending, OInv, Layout
<1>n. PICK n \in Segs : n = nextNum
  BY <1>2
<1>3. /\ seg'[n] = Fresh(writeOff, Max2(SegCap, op.len))
      /\ \A j \in files : seg'[j] = seg[j]
  BY <1>1, <1>2, <1>n DEF TInv, TypeOK, SegType
<1>4. /\ seg'[n].base = writeOff /\ End(n)' = writeOff
      /\ \A j \in files : End(j)' = End(j)
  <2>1. seg'[n].base = writeOff /\ seg'[n].size = 0
    BY <1>3 DEF Fresh
  <2>2. End(n)' = writeOff + 0
    BY <2>1 DEF End
  <2> QED
    BY <1>3, <2>1, <2>2, SegFacts DEF End
<1>5. Chained'
  <2>1. \A i \in files' : i + 1 \in files' \/ i + 1 = nextNum'
    BY <1>1, <1>2 DEF CInv, Chained
  <2>2. ASSUME NEW i \in files', i + 1 \in files' PROVE End(i)' = seg'[i + 1].base
    <3>1. i \in files
      BY <1>1, <1>2, <2>2
    <3>2. CASE i + 1 = nextNum
      BY <1>n, <1>4, <3>1, <3>2 DEF CInv, Chained
    <3>3. CASE i + 1 \in files
      BY <1>3, <1>4, <3>1, <3>3 DEF CInv, Chained
    <3> QED
      BY <1>1, <2>2, <3>2, <3>3
  <2>3. ASSUME NEW i \in files', i + 1 = nextNum' PROVE End(i)' = writeOff'
    <3>1. i = n
      BY <1>1, <1>2, <1>n, <2>3
    <3> QED
      BY <1>1, <1>4, <3>1
  <2> QED
    BY <2>1, <2>2, <2>3 DEF Chained
<1>6. Fronted'
  <2>1. CASE files = {}
    BY <1>1, <1>n, <1>4, <2>1, SegFacts DEF CInv, Fronted
  <2>2. CASE files # {}
    BY <1>1, <1>3, <2>2 DEF CInv, Fronted
  <2> QED
    BY <2>1, <2>2
<1> QED
  BY <1>5, <1>6

LEMMA DropChain ==
    ASSUME TInv, OInv, CInv, DropSegment
    PROVE  Chained' /\ Fronted' /\ DropsInOrder'
<1>1. PICK i \in files :
        /\ NextDrop(i) /\ Reclaimable(i) /\ files' = files \ {i}
        /\ op' = [op EXCEPT !.i = i] /\ op.pc \in {"cycleDrop", "commitDrop"}
        /\ UNCHANGED <<cursors, nextNum, seg>>
  BY DEF DropSegment
<1>2. \A j \in files : j \in Nat /\ j \in Segs /\ i <= j /\ j < nextNum
  BY <1>1, SegFacts DEF NextDrop, CInv, DropsInOrder, Segs, OInv, Layout
<1>3. op'.i = i
  BY <1>1 DEF TInv, TypeOK, OpType, Op
<1>4. nextNum \in Nat
  BY StoreAssumption DEF TInv, TypeOK, DiskType
<1>5. Chained'
  <2>1. \A j \in files' : j + 1 \in files' \/ j + 1 = nextNum'
    BY <1>1, <1>2 DEF CInv, Chained
  <2>2. \A j \in files' : j + 1 \in files' => End(j)' = seg'[j + 1].base
    BY <1>1 DEF CInv, Chained, End
  <2>3. \A j \in files' : j + 1 = nextNum' => End(j)' = writeOff'
    BY <1>1 DEF CInv, Chained, End, cursors
  <2> QED
    BY <2>1, <2>2, <2>3 DEF Chained
<1>6. Fronted'
  <2>1. End(i) <= commitOff /\ commitOff <= writeOff
    BY <1>1, SegFacts DEF Reclaimable, OInv, CursorOrder
  <2>2. CASE i + 1 \in files
    <3>1. i + 1 \in files' /\ seg[i + 1].base <= commitOff
      BY <1>1, <1>2, <2>1, <2>2 DEF CInv, Chained
    <3> QED
      BY <1>1, <3>1 DEF Fronted, cursors
  <2>3. CASE i + 1 = nextNum
    <3>1. End(i) = writeOff /\ files' = {}
      BY <1>1, <1>2, <1>4, <2>3 DEF CInv, Chained
    <3>2. commitOff = writeOff
      BY <2>1, <3>1, SegFacts
    <3> QED
      BY <1>1, <3>1, <3>2 DEF Fronted, cursors
  <2> QED
    BY <2>2, <2>3 DEF CInv, Chained
<1>7. DropsInOrder'
  BY <1>1, <1>2, <1>3 DEF DropsInOrder
<1> QED
  BY <1>5, <1>6, <1>7

LEMMA LoadDoneChain ==
    ASSUME TInv, OInv, CInv, LoadDone
    PROVE  Chained' /\ Fronted'
<1>1. CASE /\ files = {} /\ files' = {1} /\ nextNum' = 2
           /\ seg' = [seg EXCEPT ![1] = Fresh(writeOff, SegCap)]
  <2>1. seg'[1] = Fresh(writeOff, SegCap)
    BY <1>1, StoreAssumption DEF TInv, TypeOK, SegType, Segs
  <2>2. seg'[1].base = writeOff /\ End(1)' = writeOff /\ UNCHANGED <<writeOff, commitOff>>
    BY <2>1, SegFacts DEF Fresh, End, LoadDone, cursors
  <2>3. commitOff = writeOff /\ writeOff <= writeOff
    BY <1>1, SegFacts DEF CInv, Fronted
  <2> QED
    BY <1>1, <2>2, <2>3 DEF Chained, Fronted
<1>2. CASE (\E a \in files : IsActive(a) /\ nextNum' = a + 1) /\ UNCHANGED <<files, seg>>
  <2>1. nextNum' = nextNum /\ UNCHANGED <<writeOff, commitOff>>
    BY <1>2, ActiveIsLast DEF LoadDone, cursors
  <2> QED
    BY <1>2, <2>1 DEF CInv, Chained, Fronted, End
<1> QED
  BY <1>1, <1>2 DEF LoadDone

LEMMA NextChain ==
    ASSUME UnlinksSucceed, TInv, OInv, CInv, [Next]_vars, TInv', OInv'
    PROVE  CInv'
<1>1. Chained' /\ Fronted'
  <2>1. CASE UNCHANGED <<files, nextNum, writeOff, rlen>> /\ Kept(seg, seg')
    BY <2>1, CommitMoves, ChainKept DEF OInv
  <2> QED
    BY <2>1, GeometrySteps, PublishChain, CreateChain, DropChain, LoadDoneChain
<1>2. DropsInOrder'
  <2>1. SUFFICES ASSUME op'.pc \in {"cycleDrop", "commitDrop"} PROVE DropsInOrder'
    BY DEF DropsInOrder
  <2>2. CASE op'.i = 0 /\ files' = files
    BY <2>2, SegFacts DEF DropsInOrder, Segs
  <2>3. CASE UNCHANGED <<op, files>>
    BY <2>3 DEF CInv, DropsInOrder
  <2> QED
    BY <2>1, <2>2, <2>3, DropBegins, DropChain
<1>3. op'.pc # "force"
  BY ForceBegins, HeadAddressed DEF CInv, StartForce, HeadAddressable
<1> QED
  BY <1>1, <1>2, <1>3 DEF CInv

LEMMA InitChain == Init => CInv
<1> SUFFICES ASSUME Init PROVE CInv
  OBVIOUS
<1>1. op.pc = "idle"
  BY Begun DEF Init
<1>2. seg[1].base = 0 /\ seg[1].size = 0
  BY StoreAssumption DEF Init, Fresh, Segs
<1>3. Chained /\ Fronted
  BY <1>2 DEF Init, Chained, Fronted, End
<1> QED
  BY <1>1, <1>3 DEF CInv, DropsInOrder

\* As long as unlinks succeed the read cursor always addresses a live segment: the
\* df == nil arm of skipCorruptSegment is unreachable, whatever else fails.
THEOREM ReadCursorIsAddressable == UnlinksSucceed => (Spec => []HeadAddressable)
<1> SUFFICES ASSUME UnlinksSucceed PROVE Spec => []HeadAddressable
  OBVIOUS
<1> DEFINE Inv == TInv /\ OInv /\ CInv
<1>1. Init => Inv
  BY InitTypes, InitOrder, InitChain
<1>2. Inv /\ [Next]_vars => Inv'
  <2>1. TInv /\ OInv /\ [Next]_vars => TInv' /\ OInv'
    BY NextTypes, NextOrder
  <2> QED
    BY <2>1, NextChain
<1>3. Inv => HeadAddressable
  BY HeadAddressed
<1> HIDE DEF Inv
<1> QED
  BY <1>1, <1>2, <1>3, PTL DEF Spec

-----------------------------------------------------------------------------
(* Records fill the queue without gaps, so every cursor stands between two *)
(* records and no frame crosses the end of a segment                       *)

\* A record starts at p, or will
Boundary(p) == p = writeOff \/ rlen[p] > 0

\* Each record ends where another starts, and none starts inside it
Tiled ==
    \A p \in Offsets : rlen[p] > 0 =>
        /\ Boundary(p + rlen[p])
        /\ \A q \in Offsets : p < q /\ q < p + rlen[p] => rlen[q] = 0

\* Cursors, segments and headers stand between records
Placed ==
    /\ Boundary(headOff) /\ Boundary(commitOff)
    /\ \A i \in files : Boundary(seg[i].base) /\ Boundary(seg[i].base + seg[i].hcur)

\* A ledger entry is one record, or damage that ends with the segment it began in
EntryFramed(e) ==
    IF e.corrupt
    THEN /\ Boundary(e.end)
         /\ \A i \in files : seg[i].base <= e.start /\ e.start < End(i) => e.end <= End(i)
    ELSE Frame(e.start, e.end)

LedgerFramed == \A k \in 1 .. Len(reserved) : EntryFramed(reserved[k])

\* What the frame cache and a Requeue remember is one record
CacheFramed == lastFrame.end # 0 => Frame(lastFrame.at, lastFrame.end)

RequeueFramed ==
    Appending /\ op.kind = "requeue" => Frame(op.start, op.start + op.len)

RInv ==
    /\ Sized /\ Ascending(reserved) /\ Tiled /\ Placed /\ LedgerFramed /\ CacheFramed
    /\ RequeueFramed

\* The invariants so far
SInv == TInv /\ OInv /\ CInv /\ RInv

\* An entry of the ledger was there before the step or entered it
Carried(e, d) ==
    /\ e.start = d.start /\ e.end = d.end /\ e.corrupt = d.corrupt
    /\ e.written = d.written
    /\ e.acked => d.acked \/ Extent(d) \subseteq authorised'

LEMMA EntriesStep ==
    ASSUME TInv, OInv, Sized, [Next]_vars
    PROVE  \A k \in 1 .. Len(reserved') :
              \/ \E j \in 1 .. Len(reserved) : Carried(reserved'[k], reserved[j])
              \/ reserved'[k] \in Reservation /\ Entered(reserved'[k])
<1>1. LedgerStep
  BY LedgerSteps
<1>2. reserved \in Seq(Reservation) /\ Len(reserved) \in Nat
  BY LenProperties DEF TInv, TypeOK, LedgerType
<1>3. CASE UNCHANGED reserved
  BY <1>3 DEF Carried
<1>4. CASE reserved' = <<>>
  BY <1>4
<1>5. ASSUME NEW n \in Passed(reserved, commitOff)
      PROVE  /\ From(reserved, n) \in Seq(Reservation) /\ Len(From(reserved, n)) \in Nat
             /\ \A k \in 1 .. Len(From(reserved, n)) :
                   \E j \in 1 .. Len(reserved) : From(reserved, n)[k] = reserved[j]
  <2>1. n \in 0 .. Len(reserved)
    BY DEF Passed
  <2>2. /\ From(reserved, n) \in Seq(Reservation)
        /\ Len(From(reserved, n)) = Len(reserved) - n
        /\ \A j \in 1 .. Len(reserved) - n : From(reserved, n)[j] = reserved[j + n]
    BY <1>2, <2>1, FromType
  <2>3. \A k \in 1 .. Len(reserved) - n : k + n \in 1 .. Len(reserved)
    BY <1>2, <2>1
  <2> QED
    BY <1>2, <2>1, <2>2, <2>3
<1>6. CASE \E n \in Passed(reserved, commitOff) : reserved' = From(reserved, n)
  BY <1>5, <1>6 DEF Carried
<1>7. ASSUME NEW n \in Passed(reserved, commitOff), NEW ends,
             reserved' = Marked(From(reserved, n), ends),
             \A j \in 1 .. Len(From(reserved, n)) :
                From(reserved, n)[j].end \in ends =>
                   Extent(From(reserved, n)[j]) \subseteq authorised',
             NEW k \in 1 .. Len(reserved')
      PROVE  \E j \in 1 .. Len(reserved) : Carried(reserved'[k], reserved[j])
  <2> DEFINE r == From(reserved, n)
  <2>1. r \in Seq(Reservation) /\ Len(r) \in Nat
    BY <1>5
  <2>2. k \in 1 .. Len(r)
    BY <1>7, <2>1, MarkedType
  <2>3. PICK j \in 1 .. Len(reserved) : r[k] = reserved[j]
    BY <1>5, <2>2
  <2>4. reserved'[k] = [r[k] EXCEPT !.acked = @ \/ r[k].end \in ends]
    BY <1>7, <2>2 DEF Marked
  <2>5. reserved[j] \in Reservation
    BY EntryType
  <2>6. r[k].end \in ends => Extent(r[k]) \subseteq authorised'
    BY <1>7, <2>2
  <2> HIDE DEF r
  <2>7. Carried(reserved'[k], reserved[j])
    BY <2>3, <2>4, <2>5, <2>6 DEF Carried, Reservation
  <2> QED
    BY <2>7
<1>8. ASSUME NEW n \in Passed(reserved, commitOff), NEW e \in Reservation, Entered(e),
             reserved' = Append(From(reserved, n), e), NEW k \in 1 .. Len(reserved')
      PROVE  \/ \E j \in 1 .. Len(reserved) : Carried(reserved'[k], reserved[j])
             \/ reserved'[k] \in Reservation /\ Entered(reserved'[k])
  <2> DEFINE r == From(reserved, n)
  <2>1. r \in Seq(Reservation) /\ Len(r) \in Nat
    BY <1>5
  <2>2. /\ Len(Append(r, e)) = Len(r) + 1 /\ Append(r, e)[Len(r) + 1] = e
        /\ \A j \in 1 .. Len(r) : Append(r, e)[j] = r[j]
    BY <2>1, AppendProperties
  <2>3. CASE k = Len(r) + 1
    BY <1>8, <2>2, <2>3
  <2>4. CASE k \in 1 .. Len(r)
    <3>1. PICK j \in 1 .. Len(reserved) : r[k] = reserved[j]
      BY <1>5, <2>4
    <3>2. reserved'[k] = reserved[j]
      BY <1>8, <2>2, <2>4, <3>1
    <3> QED
      BY <3>2 DEF Carried
  <2> QED
    BY <1>8, <2>1, <2>2, <2>3, <2>4
<1> QED
  BY <1>1, <1>3, <1>4, <1>6, <1>7, <1>8 DEF LedgerStep

\* Nothing starts at or past the write cursor
LEMMA TailIsClear ==
    ASSUME TInv, NEW p \in Offsets
    PROVE  /\ p >= writeOff => rlen[p] = 0
           /\ rlen[p] > 0 => p < writeOff /\ p + rlen[p] <= writeOff
           /\ p + rlen[p] \in Offsets
           /\ rlen[p] \in Nat /\ p \in Nat
           /\ Boundary(p) => p <= writeOff
<1>1. rlen[p] \in Nat /\ p \in Nat
  BY StoreAssumption DEF TInv, TypeOK, DiskType, Offsets
<1>2. p + rlen[p] <= writeOff \/ rlen[p] = 0
  BY DEF TInv, RecExtents
<1>3. writeOff \in Nat /\ writeOff <= MaxOff
  BY SegFacts
<1> QED
  BY <1>1, <1>2, <1>3, StoreAssumption DEF Boundary, Offsets

\* A record does not reach past a boundary after its start
LEMMA FrameStopsAtBoundary ==
    ASSUME TInv, Tiled, NEW a \in Offsets, NEW b, Frame(a, b), NEW q \in Offsets,
           Boundary(q), a < q
    PROVE  b <= q /\ Boundary(b) /\ b \in Offsets
<1>1. rlen[a] > 0 /\ b = a + rlen[a] /\ a \in Nat /\ q \in Nat /\ rlen[a] \in Nat
  BY TailIsClear DEF Frame
<1>2. a + rlen[a] <= writeOff /\ b \in Offsets
  BY <1>1, TailIsClear
<1>3. ~(q < a + rlen[a])
  <2>1. CASE q = writeOff
    BY <1>1, <1>2, <2>1
  <2>2. CASE rlen[q] > 0
    <3>1. q < a + rlen[a] => rlen[q] = 0
      BY <1>1 DEF Tiled
    <3> QED
      BY <2>2, <3>1
  <2> QED
    BY <2>1, <2>2 DEF Boundary
<1> QED
  BY <1>1, <1>2, <1>3 DEF Tiled

\* The record published starts at the write cursor
LEMMA PublishRecord ==
    ASSUME TInv, OInv, CInv, Sized, op.pc = "write", NEW af \in files, Publish(af)
    PROVE  /\ writeOff \in Offsets /\ rlen' = [rlen EXCEPT ![writeOff] = op.len]
           /\ writeOff' = writeOff + op.len /\ writeOff' \in Offsets
           /\ op.len \in Nat /\ op.len > 0
           /\ \A p \in Offsets : p # writeOff => rlen'[p] = rlen[p]
           /\ rlen'[writeOff] = op.len
<1>1. End(af) = writeOff
  BY ActiveIsLast DEF Publish
<1>2. op.len \in Nat /\ op.len > 0
  BY DEF TInv, TypeOK, OpType, Op, Sized, Appending
<1>3. writeOff \in Offsets /\ rlen \in [Offsets -> 0 .. MaxLen]
  BY DEF TInv, TypeOK, CursorType, DiskType
<1> QED
  BY <1>1, <1>2, <1>3, PublishTypes DEF Publish

LEMMA RecordsStay ==
    ASSUME TInv, OInv, CInv, Sized, [Next]_vars
    PROVE  /\ \A p \in Offsets : Boundary(p) => p = writeOff' \/ rlen'[p] > 0
           /\ \A p \in Offsets : rlen[p] > 0 => rlen'[p] = rlen[p]
<1>1. CASE UNCHANGED <<writeOff, rlen>>
  BY <1>1 DEF Boundary
<1>2. CASE op.pc = "write" /\ \E af \in files : Publish(af)
  <2>1. /\ \A p \in Offsets : p # writeOff => rlen'[p] = rlen[p]
        /\ rlen'[writeOff] = op.len /\ op.len > 0
    BY <1>2, PublishRecord
  <2>2. \A p \in Offsets : rlen[p] > 0 => p # writeOff
    BY TailIsClear, SegFacts
  <2> QED
    BY <2>1, <2>2 DEF Boundary
<1> QED
  BY <1>1, <1>2, GeometrySteps DEF Create, AppendFailed, DropSegment, LoadDone, cursors

LEMMA FramesStay ==
    ASSUME TInv, OInv, CInv, Sized, [Next]_vars, NEW a \in Offsets, NEW b, Frame(a, b)
    PROVE  rlen'[a] > 0 /\ b = a + rlen'[a]
  BY RecordsStay DEF Frame

LEMMA NextTiled ==
    ASSUME SInv, [Next]_vars
    PROVE  Tiled'
<1>1. CASE UNCHANGED <<writeOff, rlen>>
  BY <1>1 DEF SInv, RInv, Tiled, Boundary
<1>2. CASE op.pc = "write" /\ \E af \in files : Publish(af)
  <2>1. /\ writeOff \in Offsets /\ writeOff' = writeOff + op.len
        /\ op.len \in Nat /\ op.len > 0
        /\ \A p \in Offsets : p # writeOff => rlen'[p] = rlen[p]
        /\ rlen'[writeOff] = op.len
    BY <1>2, PublishRecord DEF SInv, RInv
  <2>2. SUFFICES ASSUME NEW p \in Offsets, rlen'[p] > 0
                 PROVE  /\ p + rlen'[p] = writeOff' \/ rlen'[p + rlen'[p]] > 0
                        /\ \A q \in Offsets : p < q /\ q < p + rlen'[p] => rlen'[q] = 0
    BY DEF Tiled, Boundary
  <2>3. CASE p = writeOff
    <3>1. \A q \in Offsets : p < q => rlen'[q] = 0
      BY <2>1, <2>3, TailIsClear, SegFacts DEF SInv
    <3> QED
      BY <2>1, <2>3, <3>1
  <2>4. CASE p # writeOff
    <3>1. rlen'[p] = rlen[p] /\ rlen[p] > 0
      BY <2>1, <2>2, <2>4
    <3>2. p + rlen[p] \in Offsets /\ p + rlen[p] <= writeOff /\ p \in Nat /\ rlen[p] \in Nat
      BY <3>1, TailIsClear DEF SInv
    <3>3. Boundary(p + rlen[p]) /\ \A q \in Offsets : p < q /\ q < p + rlen[p] => rlen[q] = 0
      BY <3>1 DEF SInv, RInv, Tiled
    <3>4. rlen'[p + rlen[p]] > 0
      BY <2>1, <3>2, <3>3 DEF Boundary
    <3>5. ASSUME NEW q \in Offsets, p < q, q < p + rlen[p] PROVE rlen'[q] = 0
      <4>1. q # writeOff
        BY <3>2, <3>5, StoreAssumption DEF Offsets
      <4> QED
        BY <2>1, <3>3, <3>5, <4>1
    <3> QED
      BY <3>1, <3>4, <3>5
  <2> QED
    BY <2>3, <2>4
<1> QED
  BY <1>1, <1>2, GeometrySteps
     DEF SInv, Create, AppendFailed, DropSegment, LoadDone, cursors

-----------------------------------------------------------------------------
(* What the caches and the ledger hold stays a record *)

LEMMA CacheSteps ==
    ASSUME TInv, [Next]_vars
    PROVE  \/ UNCHANGED lastFrame
           \/ lastFrame' = NoFrame
           \/ /\ Frame(headOff, HeadNext) /\ headOff \in Offsets
              /\ lastFrame' = [at |-> headOff, end |-> HeadNext]
<1>1. ASSUME NEW df, Readable(df), rot[headOff] = "ok",
             lastFrame' = [at |-> headOff, end |-> HeadNext]
      PROVE  /\ Frame(headOff, HeadNext) /\ headOff \in Offsets
             /\ lastFrame' = [at |-> headOff, end |-> HeadNext]
  <2>1. headOff < writeOff /\ rlen[headOff] > 0
    BY <1>1 DEF Readable, Reading, Framed
  <2> QED
    BY <1>1, <2>1, HeadFacts DEF Frame
<1>2. CASE \E n \in 1 .. MaxLen : Add(n)
  BY <1>2 DEF Add, ledger
<1>3. CASE Reserve \/ Take \/ Skip \/ Requeue \/ Unread
  BY <1>1, <1>3 DEF Reserve, Take, Skip, Requeue, Unread, TakeHead
<1>4. CASE ReadDamage
  BY <1>4 DEF ReadDamage, PayReport, DropRecord, QuarantineHead, QuarantineLatched,
     DeferDamage, StartForce, ledger
<1>5. CASE Retire \/ Rewind
  BY <1>5 DEF Retire, Ack, AckBatch, Commit, Rewind, ledger
<1>6. CASE AppendStep
  BY <1>6 DEF AppendStep, CreateRefused, Create, WriteFailed, Write, WriteLatched, ledger
<1>7. CASE DropStep \/ RunStep \/ Settle \/ CommitEnds
  BY <1>7 DEF DropStep, DropSegment, DropStuck, DropDone, RunStep, Settle, CommitEnds,
              ledger
<1>8. CASE WalkStep
  BY <1>8 DEF WalkStep, WalkOver, WalkLeave, WalkAbandoned, WalkUnreadable, WalkRecord,
     WalkStopsAtDamage, WalkQuarantine, WalkQuarantineFailed, ledger
<1>9. CASE ForceStep \/ ForceFailed \/ ForceLatched \/ ForceDone \/ LoadStep \/ LoadDone
  BY <1>9 DEF ForceStep, ForceFailed, ForceLatched, ForceDone, LoadStep, LoadDone, ledger
<1>10. CASE Environment
  BY <1>10 DEF Environment, Crash, FailSync, Rot, Vanish, ledger
<1>11. CASE UNCHANGED vars
  BY <1>11 DEF vars, ledger
<1> QED
  BY <1>2, <1>3, <1>4, <1>5, <1>6, <1>7, <1>8, <1>9, <1>10, <1>11
     DEF Next, Consume, OpStep

LEMMA NextCache ==
    ASSUME SInv, [Next]_vars
    PROVE  CacheFramed'
<1>1. SUFFICES ASSUME lastFrame'.end # 0
               PROVE  Frame(lastFrame.at, lastFrame.end)'
  BY DEF CacheFramed
<1>2. CASE UNCHANGED lastFrame
  <2>1. lastFrame.at \in Offsets /\ Frame(lastFrame.at, lastFrame.end)
    BY <1>1, <1>2 DEF SInv, TInv, TypeOK, LedgerType, RInv, CacheFramed
  <2> QED
    BY <1>2, <2>1, FramesStay DEF SInv, RInv, Frame
<1>3. CASE lastFrame' = NoFrame
  BY <1>1, <1>3 DEF NoFrame
<1>4. CASE /\ Frame(headOff, HeadNext) /\ headOff \in Offsets
           /\ lastFrame' = [at |-> headOff, end |-> HeadNext]
  <2>1. rlen'[headOff] > 0 /\ HeadNext = headOff + rlen'[headOff]
    BY <1>4, FramesStay DEF SInv, RInv
  <2>2. lastFrame'.at = headOff /\ lastFrame'.end = HeadNext
    BY <1>4
  <2>3. Frame(lastFrame.at, lastFrame.end)' =
          (rlen'[lastFrame'.at] > 0 /\ lastFrame'.end = lastFrame'.at + rlen'[lastFrame'.at])
    BY DEF Frame
  <2> HIDE DEF HeadNext
  <2> QED
    BY <2>1, <2>2, <2>3
<1> QED
  BY <1>2, <1>3, <1>4, CacheSteps DEF SInv

LEMMA NextRequeue ==
    ASSUME SInv, [Next]_vars
    PROVE  RequeueFramed'
<1>1. SUFFICES ASSUME Appending', op'.kind = "requeue"
               PROVE  Frame(op.start, op.start + op.len)'
  BY DEF RequeueFramed
<1>2. CASE Appending /\ op'.len = op.len /\ op'.kind = op.kind /\ op'.start = op.start
  <2>1. op.start \in Offsets /\ Frame(op.start, op.start + op.len)
    BY <1>1, <1>2 DEF SInv, TInv, TypeOK, OpType, Op, RInv, RequeueFramed
  <2> QED
    BY <1>2, <2>1, FramesStay DEF SInv, RInv, Frame
<1>3. CASE \E n \in 1 .. MaxLen : Add(n)
  <2>1. PICK n \in 1 .. MaxLen : Add(n)
    BY <1>3
  <2>2. op'.kind = "add"
    BY <2>1, IdleType DEF Add, StartAppend, Op
  <2> QED
    BY <1>1, <2>2
<1>4. CASE Requeue
  <2>1. PICK df \in files : TakeHead(df) /\ StartAppend("requeue", rlen[headOff], headOff)
    BY <1>4 DEF Requeue
  <2>2. Frame(headOff, HeadNext) /\ headOff \in Offsets
    BY <2>1, RecordRead DEF SInv
  <2>3. op'.start = headOff /\ op'.len = rlen[headOff]
    BY <2>1, IdleType DEF StartAppend, Op
  <2>4. UNCHANGED rlen
    BY <2>1 DEF TakeHead, disk
  <2> QED
    BY <2>2, <2>3, <2>4 DEF Frame
<1> QED
  BY <1>1, <1>2, <1>3, <1>4, AppendBegins DEF SInv

\* A position already written stays in the segment it lies in, and a segment
\* never loses its end
LEMMA SegmentsStay ==
    ASSUME TInv, OInv, CInv, [Next]_vars, NEW i \in files', NEW p \in Nat,
           p < writeOff, seg'[i].base <= p, p < End(i)'
    PROVE  i \in files /\ seg[i].base <= p /\ p < End(i) /\ End(i) <= End(i)'
<1>1. CASE UNCHANGED <<files, nextNum, writeOff, rlen>> /\ Kept(seg, seg')
  BY <1>1, SegFacts DEF Kept, End
<1>2. CASE op.pc = "write" /\ \E af \in files : Publish(af)
  <2>1. PICK af \in files : Publish(af)
    BY <1>2
  <2>2. /\ \A j \in Segs : seg'[j].base = seg[j].base /\ (j # af => seg'[j] = seg[j])
        /\ files' = files /\ i \in Segs /\ af \in Segs
    BY <1>2, <2>1, PublishTypes, SegFacts DEF Publish
  <2>3. CASE i # af
    BY <2>2, <2>3, SegFacts DEF End
  <2>4. CASE i = af
    <3>1. End(af) = writeOff /\ op.len \in Nat
      BY <2>1, ActiveIsLast DEF Publish, TInv, TypeOK, OpType, Op
    <3>2. seg'[af].size = seg[af].size + op.len
      BY <2>1, <2>2 DEF Publish, TInv, TypeOK, SegType, SegmentRec
    <3>3. End(i)' = seg[i].base + (seg[i].size + op.len)
      BY <2>2, <2>4, <3>2 DEF End
    <3> QED
      BY <2>2, <2>4, <3>1, <3>3, SegFacts
  <2> QED
    BY <2>3, <2>4
<1>3. CASE Create
  <2>1. /\ files' = files \union {nextNum}
        /\ seg' = [seg EXCEPT ![nextNum] = Fresh(writeOff, Max2(SegCap, op.len))]
    BY <1>3 DEF Create
  <2>2. /\ nextNum \in Segs /\ \A j \in files : j < nextNum /\ j \in Nat /\ j \in Segs
    BY <1>3, SegFacts, StoreAssumption
       DEF Create, TInv, TypeOK, DiskType, Segs, AppendFits, Appending, OInv, Layout
  <2>3. CASE i = nextNum
    <3>1. seg'[i].base = writeOff
      BY <2>1, <2>2, <2>3 DEF TInv, TypeOK, SegType, Fresh
    <3> QED
      BY <3>1, SegFacts
  <2>4. CASE i # nextNum
    <3>1. i \in files /\ seg'[i] = seg[i]
      BY <2>1, <2>2, <2>4 DEF TInv, TypeOK, SegType
    <3> QED
      BY <2>2, <3>1, SegFacts DEF End
  <2> QED
    BY <2>3, <2>4
<1>4. CASE DropSegment
  BY <1>4, SegFacts DEF DropSegment, End
<1>5. CASE LoadDone
  <2>1. CASE files' = {1} /\ seg' = [seg EXCEPT ![1] = Fresh(writeOff, SegCap)]
    <3>1. seg'[i].base = writeOff
      BY <2>1, StoreAssumption DEF TInv, TypeOK, SegType, Segs, Fresh
    <3> QED
      BY <3>1, SegFacts
  <2>2. CASE UNCHANGED <<files, seg>>
    BY <2>2, SegFacts DEF End
  <2> QED
    BY <1>5, <2>1, <2>2 DEF LoadDone
<1> QED
  BY <1>1, <1>2, <1>3, <1>4, <1>5, GeometrySteps

\* A segment ends between two records
LEMMA EndsPlaced ==
    ASSUME CInv, Placed, NEW i \in files
    PROVE  Boundary(End(i))
  BY DEF CInv, Chained, Placed, Boundary

LEMMA OneHolder ==
    ASSUME TInv, OInv, NEW p \in Nat, NEW i \in Holding(p), NEW j \in Holding(p)
    PROVE  i = j
<1>1. i \in Nat /\ j \in Nat /\ i \in Segs /\ j \in Segs
  BY SegFacts DEF Holding, Segs
<1> QED
  BY <1>1, SegFacts DEF OInv, Layout, Holding

LEMMA NextLedger ==
    ASSUME SInv, [Next]_vars
    PROVE  LedgerFramed'
<1>1. SUFFICES ASSUME NEW k \in 1 .. Len(reserved') PROVE EntryFramed(reserved[k])'
  BY DEF LedgerFramed
<1>0. TInv /\ OInv /\ CInv /\ Sized /\ Placed
  BY DEF SInv, RInv
<1>2. ASSUME NEW d \in Reservation, EntryFramed(d), d.start < d.end, d.end <= writeOff,
             reserved'[k].start = d.start, reserved'[k].end = d.end,
             reserved'[k].corrupt = d.corrupt
      PROVE  EntryFramed(reserved[k])'
  <2>0. d.start \in Nat /\ d.start \in Offsets /\ d.end \in Offsets /\ d.end \in Nat
    BY StoreAssumption DEF Reservation, Offsets
  <2>1. CASE ~d.corrupt
    <3>1. Frame(d.start, d.end)
      BY <1>2, <2>1 DEF EntryFramed
    <3>2. rlen'[d.start] > 0 /\ d.end = d.start + rlen'[d.start]
      BY <1>0, <2>0, <3>1, FramesStay
    <3> QED
      BY <1>2, <2>1, <3>2 DEF EntryFramed, Frame
  <2>2. CASE d.corrupt
    <3>1. /\ Boundary(d.end)
          /\ \A i \in files : seg[i].base <= d.start /\ d.start < End(i) => d.end <= End(i)
      BY <1>2, <2>2 DEF EntryFramed
    <3>2. d.end = writeOff' \/ rlen'[d.end] > 0
      BY <1>0, <2>0, <3>1, RecordsStay
    <3>3. ASSUME NEW i \in files', seg'[i].base <= d.start, d.start < End(i)'
          PROVE  d.end <= End(i)'
      <4>1. d.start < writeOff
        BY <1>0, <1>2, <2>0, SegFacts
      <4>2. i \in files /\ seg[i].base <= d.start /\ d.start < End(i) /\ End(i) <= End(i)'
        BY <1>0, <2>0, <3>3, <4>1, SegmentsStay
      <4>3. End(i) \in Nat /\ i \in Segs
        BY <1>0, <4>2, SegFacts
      <4>4. End(i)' \in Nat
        <5>1. TInv'
          BY <1>0, NextTypes
        <5>2. seg'[i] \in SegmentRec
          BY <4>3, <5>1 DEF TInv, TypeOK, SegType
        <5>3. seg'[i].base \in Nat /\ seg'[i].size \in Nat
          BY <5>2, StoreAssumption DEF SegmentRec, Offsets
        <5> QED
          BY <5>3 DEF End
      <4> QED
        BY <2>0, <3>1, <4>2, <4>3, <4>4
    <3> QED
      BY <1>2, <2>2, <3>2, <3>3 DEF EntryFramed, Boundary
  <2> QED
    BY <2>1, <2>2
<1>3. CASE \E j \in 1 .. Len(reserved) : Carried(reserved'[k], reserved[j])
  <2>1. PICK j \in 1 .. Len(reserved) : Carried(reserved'[k], reserved[j])
    BY <1>3
  <2>2. reserved[j] \in Reservation /\ EntryFramed(reserved[j])
        /\ reserved[j].end \in Nat
    BY <1>0, EntryType DEF SInv, RInv, LedgerFramed
  <2>3. reserved[j].start < reserved[j].end /\ reserved[j].end <= headOff
    BY DEF SInv, RInv, Ascending, OInv, LedgerBehind
  <2>4. reserved[j].end <= writeOff
    BY <1>0, <2>2, <2>3, SegFacts DEF OInv, CursorOrder
  <2> QED
    BY <1>2, <2>1, <2>2, <2>3, <2>4 DEF Carried
<1>4. CASE reserved'[k] \in Reservation /\ Entered(reserved'[k])
  <2> DEFINE e == reserved'[k]
  <2>1. e \in Reservation /\ Entered(e) /\ e.start < e.end
    BY <1>4 DEF Entered
  <2>2. e.end \in Offsets /\ e.start \in Offsets /\ e.end \in Nat
    BY <2>1, StoreAssumption DEF Reservation, Offsets
  <2>3. CASE ~e.corrupt /\ e.start = headOff /\ Frame(headOff, e.end)
    <3>1. EntryFramed(e)
      BY <2>3 DEF EntryFramed
    <3>2. e.end <= writeOff
      BY <1>0, <2>2, <2>3, TailIsClear DEF Frame
    <3> QED
      BY <1>2, <2>1, <3>1, <3>2
  <2>4. CASE ~e.corrupt /\ Appending /\ op.kind = "requeue" /\ e.start = op.start
             /\ e.end = op.start + op.len
    <3>1. Frame(op.start, op.start + op.len)
      BY <2>4 DEF SInv, RInv, RequeueFramed
    <3>2. EntryFramed(e)
      BY <2>4, <3>1 DEF EntryFramed
    <3>3. e.end <= writeOff
      BY <1>0, <2>2, <2>4, <3>1, TailIsClear DEF Frame
    <3> QED
      BY <1>2, <2>1, <3>2, <3>3
  <2>5. CASE e.corrupt /\ e.start = headOff /\ \E i \in Holding(headOff) : e.end = End(i)
    <3>1. PICK i \in Holding(headOff) : e.end = End(i)
      BY <2>5
    <3>2. i \in files /\ i \in Segs /\ headOff \in Nat
      BY <1>0, SegFacts DEF Holding
    <3>3. Boundary(e.end) /\ e.end <= writeOff
      BY <1>0, <3>1, <3>2, EndsPlaced, SegFacts
    <3>4. \A j \in files : seg[j].base <= headOff /\ headOff < End(j) => j = i
      BY <1>0, <3>2, OneHolder DEF Holding
    <3>5. EntryFramed(e)
      BY <2>2, <2>5, <3>1, <3>3, <3>4 DEF EntryFramed
    <3> QED
      BY <1>2, <2>1, <3>3, <3>5
  <2> QED
    BY <2>1, <2>3, <2>4, <2>5 DEF Entered
<1> QED
  BY <1>0, <1>3, <1>4, EntriesStep

\* frameEnd's answer is the end of the record at the commit cursor
LEMMA FrameEndFrames ==
    ASSUME SInv, NEW df, NEW next \in FrameEnd(df, commitOff),
           \A k \in EntryAt(commitOff) : ~reserved[k].corrupt
    PROVE  Frame(commitOff, next)
<1>1. CASE next \in {reserved[k].end : k \in EntryAt(commitOff)}
  <2>1. PICK k \in EntryAt(commitOff) : next = reserved[k].end
    BY <1>1
  <2>2. k \in 1 .. Len(reserved) /\ reserved[k].start = commitOff /\ ~reserved[k].corrupt
    BY DEF EntryAt
  <2> QED
    BY <2>1, <2>2 DEF SInv, RInv, LedgerFramed, EntryFramed
<1>2. CASE lastFrame.end # 0 /\ lastFrame.at = commitOff /\ next = lastFrame.end
  BY <1>2 DEF SInv, RInv, CacheFramed
<1>3. CASE Framed(commitOff) /\ next = commitOff + rlen[commitOff]
  BY <1>3 DEF Framed, Frame
<1> QED
  BY <1>1, <1>2, <1>3 DEF FrameEnd

\* The walk's next position is the end of a record, and lies in the segment the
\* record starts in
LEMMA FrameInSegment ==
    ASSUME SInv, NEW p \in Offsets, NEW next, Frame(p, next), NEW df \in Holding(p)
    PROVE  next \in Offsets /\ Boundary(next) /\ next <= End(df)
<1>1. TInv /\ CInv /\ Tiled /\ Placed /\ df \in files /\ df \in Segs
  BY SegFacts DEF SInv, RInv, Holding
<1>2. Boundary(End(df)) /\ End(df) \in Offsets /\ p < End(df)
  BY <1>1, EndsPlaced, SegFacts DEF Holding
<1> QED
  BY <1>1, <1>2, FrameStopsAtBoundary

\* and so is the end of an abandoned extent
LEMMA AbandonedInSegment ==
    ASSUME SInv, NEW df \in Holding(commitOff), NEW k \in EntryAt(commitOff),
           reserved[k].corrupt
    PROVE  /\ reserved[k].end \in Offsets /\ Boundary(reserved[k].end)
           /\ reserved[k].end <= End(df)
<1>1. k \in 1 .. Len(reserved) /\ reserved[k].start = commitOff
  BY DEF EntryAt
<1> QED
  BY <1>1, EntryType DEF SInv, RInv, LedgerFramed, EntryFramed, Holding

\* Every cursor moves from one boundary to another, and every header is left where
\* it is or set to one
LEMMA CommitPlaced ==
    ASSUME SInv, [Next]_vars
    PROVE  Boundary(commitOff')
<1>0. TInv /\ OInv /\ CInv /\ Placed /\ Boundary(commitOff)
  BY DEF SInv, RInv, Placed
<1>1. CASE UNCHANGED commitOff
  BY <1>0, <1>1
<1>2. CASE \E n \in 1 .. MaxLen : Add(n)
  BY <1>1, <1>2 DEF Add, cursors
<1>3. CASE Consume /\ ~QuarantineHead
  BY <1>1, <1>3 DEF Consume, ReadDamage, Reserve, Take, Skip, Requeue, Unread, PayReport,
     DropRecord, QuarantineLatched, DeferDamage, StartForce, TakeHead, cursors
<1>4. CASE QuarantineHead
  BY <1>0, <1>4, EndsPlaced DEF QuarantineHead
<1>5. CASE Retire \/ Rewind
  BY <1>1, <1>5 DEF Retire, Ack, AckBatch, Commit, Rewind, cursors
<1>6. CASE AppendStep \/ DropStep \/ RunStep \/ CommitEnds
  BY <1>1, <1>6 DEF AppendStep, CreateRefused, Create, WriteFailed, Write, WriteLatched,
     AppendFailed, Publish, DropStep, DropSegment, DropStuck, DropDone, RunStep,
     CommitEnds,
     cursors
<1>7. CASE WalkOver \/ WalkUnreadable \/ WalkStopsAtDamage \/ WalkQuarantineFailed
  BY <1>1, <1>7 DEF WalkOver, WalkUnreadable, WalkStopsAtDamage, WalkQuarantineFailed,
     cursors
<1>8. CASE WalkLeave \/ Settle
  <2>1. /\ Walks
        /\ \/ UNCHANGED commitOff
           \/ op.cur # 0 /\ RolledBack(op.cur)
    BY <1>8 DEF WalkLeave, Settle, Walks, Persisted
  <2>2. CASE op.cur # 0 /\ RolledBack(op.cur)
    BY <1>0, <2>1, <2>2, WalkFacts DEF RolledBack, Placed
  <2> QED
    BY <1>1, <2>1, <2>2
<1>9. CASE WalkAbandoned
  <2>1. \/ UNCHANGED commitOff
        \/ \E df \in files : \E k \in EntryAt(commitOff) :
              Walking(df) /\ reserved[k].corrupt /\ commitOff' = reserved[k].end
    BY <1>9 DEF WalkAbandoned
  <2> QED
    BY <1>1, <2>1, AbandonedInSegment DEF Walking
<1>10. CASE WalkRecord
  <2>1. \/ UNCHANGED commitOff
        \/ \E df \in files : \E next \in FrameEnd(df, commitOff) :
              /\ Walking(df) /\ commitOff' = next
              /\ \A k \in EntryAt(commitOff) : ~reserved[k].corrupt
    BY <1>10 DEF WalkRecord
  <2>2. commitOff \in Offsets
    BY <1>0 DEF TInv, TypeOK, CursorType
  <2> QED
    BY <1>1, <2>1, <2>2, FrameEndFrames, FrameInSegment DEF Walking
<1>11. CASE WalkQuarantine
  BY <1>0, <1>11, EndsPlaced DEF WalkQuarantine
<1>12. CASE ForceStep \/ ForceFailed \/ ForceLatched \/ ForceDone
  BY <1>0, <1>12 DEF CInv, ForceStep, ForceFailed, ForceLatched, ForceDone
<1>13. CASE LoadStep \/ LoadDone
  BY <1>1, <1>13 DEF LoadStep, LoadDone, cursors
<1>14. CASE Crash
  BY <1>0, <1>14 DEF Crash, Recovered, Placed, Boundary
<1>15. CASE Environment
  BY <1>1, <1>14, <1>15 DEF Environment, FailSync, Rot, Vanish, cursors
<1>16. CASE UNCHANGED vars
  BY <1>1, <1>16 DEF vars, cursors
<1> QED
  BY <1>2, <1>3, <1>4, <1>5, <1>6, <1>7, <1>8, <1>9, <1>10, <1>11, <1>12, <1>13, <1>15,
     <1>16 DEF Next, OpStep, WalkStep

LEMMA HeadPlaced ==
    ASSUME SInv, [Next]_vars
    PROVE  Boundary(headOff')
<1>0. TInv /\ OInv /\ CInv /\ Placed /\ Boundary(headOff) /\ Boundary(commitOff)
  BY DEF SInv, RInv, Placed
<1>n. headOff \in Offsets /\ commitOff \in Offsets /\ headOff \in Nat /\ commitOff \in Nat
  BY <1>0, SegFacts DEF TInv, TypeOK, CursorType
<1>1. CASE UNCHANGED headOff
  BY <1>0, <1>1
<1>2. CASE \E n \in 1 .. MaxLen : Add(n)
  BY <1>1, <1>2 DEF Add, cursors
<1>3. CASE Reserve \/ Take \/ Skip \/ Requeue \/ DropRecord
  <2>1. PICK df \in files : /\ TakeHead(df) \/ (Readable(df) /\ rot[headOff] = "sum")
                            /\ headOff' = HeadNext
    BY <1>3 DEF Reserve, Take, Skip, Requeue, DropRecord, TakeHead
  <2>2. df \in Holding(headOff) /\ Frame(headOff, HeadNext)
    BY <1>0, <2>1, RecordRead DEF TakeHead, Readable, Reading
  <2> QED
    BY <1>n, <2>1, <2>2, FrameInSegment
<1>4. CASE QuarantineHead \/ DeferDamage
  BY <1>0, <1>4, EndsPlaced DEF QuarantineHead, DeferDamage
<1>5. CASE Unread \/ PayReport \/ QuarantineLatched \/ StartForce
  BY <1>1, <1>5 DEF Unread, PayReport, QuarantineLatched, StartForce, cursors
<1>6. CASE Retire \/ Rewind
  BY <1>0, <1>1, <1>6 DEF Retire, Ack, AckBatch, Commit, Rewind, cursors
<1>7. CASE CreateRefused \/ Create \/ WriteFailed \/ Write \/ WriteLatched
  <2>1. /\ Appending
        /\ \/ UNCHANGED headOff
           \/ headOff' = IF op.kind = "requeue" THEN Min2(op.start, headOff) ELSE headOff
    BY <1>7 DEF CreateRefused, Create, WriteFailed, Write, WriteLatched, AppendFailed,
       Appending, cursors
  <2>2. CASE op.kind = "requeue" /\ headOff' = Min2(op.start, headOff)
    <3>1. Boundary(op.start)
      BY <2>1, <2>2 DEF SInv, RInv, RequeueFramed, Frame, Boundary
    <3> QED
      BY <1>0, <2>2, <3>1 DEF Min2
  <2> QED
    BY <1>1, <2>1, <2>2
<1>8. CASE DropStep \/ RunStep \/ Settle \/ LoadStep \/ LoadDone
  BY <1>1, <1>8 DEF DropStep, DropSegment, DropStuck, DropDone, RunStep, Settle, LoadStep,
     LoadDone, cursors
<1>9. CASE CommitEnds
  BY <1>0, <1>1, <1>9 DEF CommitEnds, Max2
<1>10. CASE WalkQuarantine
  <2>1. PICK df \in files : headOff' = Max2(headOff, End(df))
    BY <1>10 DEF WalkQuarantine
  <2> QED
    BY <1>0, <2>1, EndsPlaced DEF Max2
<1>11. CASE WalkStep /\ ~WalkQuarantine
  BY <1>1, <1>11 DEF WalkStep, WalkOver, WalkLeave, WalkAbandoned, WalkUnreadable,
     WalkRecord, WalkStopsAtDamage, WalkQuarantineFailed, cursors
<1>12. CASE ForceStep \/ ForceFailed \/ ForceLatched \/ ForceDone
  BY <1>0, <1>12 DEF CInv, ForceStep, ForceFailed, ForceLatched, ForceDone
<1>14. CASE Crash
  BY <1>0, <1>14 DEF Crash, Recovered, Placed, Boundary
<1>15. CASE Environment
  BY <1>1, <1>14, <1>15 DEF Environment, FailSync, Rot, Vanish, cursors
<1>16. CASE UNCHANGED vars
  BY <1>1, <1>16 DEF vars, cursors
<1> QED
  BY <1>2, <1>3, <1>4, <1>5, <1>6, <1>7, <1>8, <1>9, <1>10, <1>11, <1>12, <1>14, <1>15,
     <1>16 DEF Next, OpStep, AppendStep, Consume, ReadDamage

-----------------------------------------------------------------------------
(* What a step may do to the headers *)

\* The header of segment i after a step: as it was, or the commit cursor within
\* the segment (persistCommit), or the segment's end with what that retires on
\* record as quarantined (publishFullCommit), or what load works out
HeaderStep(i) ==
    \/ seg'[i].hcur = seg[i].hcur
    \/ Walks /\ i = op.cur /\ seg'[i].hcur = Min2(commitOff - seg[i].base, seg[i].size)
    \/ /\ seg'[i].hcur = seg[i].size
       /\ \A p \in seg[i].base .. End(i) - 1 : p < commitOff' \/ p \in quarantined'
    \/ op.pc = "load" /\ seg'[i].hcur = LoadedCursor(seg[i], commitOff)

LEMMA HeaderSteps ==
    ASSUME TInv, OInv, CInv, [Next]_vars, ~Create, ~LoadDone
    PROVE  \A i \in Segs : HeaderStep(i)
<1>1. CASE UNCHANGED seg
  BY <1>1 DEF HeaderStep
<1>2. CASE \E n \in 1 .. MaxLen : Add(n)
  BY <1>1, <1>2 DEF Add, disk
<1>3. ASSUME NEW df \in files, seg' = Quarantine(seg, df) \/ seg' = HeaderFull(seg, df),
             \A p \in seg[df].base .. End(df) - 1 : p < commitOff' \/ p \in quarantined'
      PROVE  \A i \in Segs : HeaderStep(i)
  <2>1. df \in Segs /\ seg \in [Segs -> SegmentRec]
    BY SegFacts DEF TInv, TypeOK, SegType
  <2>2. HeadersKept(seg, seg', df) /\ seg'[df].hcur \in {seg[df].hcur, seg[df].size}
    BY <1>3, <2>1, HeaderFullShape, QuarantineShape
  <2> QED
    BY <1>3, <2>2 DEF HeadersKept, HeaderStep
<1>q. ASSUME NEW df \in files
      PROVE  /\ commitOff' = End(df) =>
                  \A p \in seg[df].base .. End(df) - 1 : p < commitOff' \/ p \in quarantined'
             /\ /\ commitOff' = commitOff
                /\ quarantined' = quarantined \union (commitOff .. End(df) - 1)
                => \A p \in seg[df].base .. End(df) - 1 : p < commitOff' \/ p \in quarantined'
  <2>1. seg[df].base \in Nat /\ End(df) \in Nat /\ commitOff \in Nat
    BY SegFacts, StoreAssumption DEF Offsets
  <2> QED
    BY <2>1
<1>4. CASE QuarantineHead \/ QuarantineLatched
  <2>1. PICK df \in files :
          \/ seg' = Quarantine(seg, df) /\ commitOff' = End(df)
          \/ /\ seg' = HeaderFull(seg, df) /\ commitOff' = commitOff
             /\ quarantined' = quarantined \union (commitOff .. End(df) - 1)
    BY <1>4 DEF QuarantineHead, QuarantineLatched, Quarantine, cursors
  <2> QED
    BY <1>3, <1>q, <2>1
<1>5. CASE Consume /\ ~(QuarantineHead \/ QuarantineLatched)
  BY <1>1, <1>5 DEF Consume, ReadDamage, Reserve, Take, Skip, Requeue, Unread, PayReport,
     DropRecord, DeferDamage, StartForce, TakeHead, disk
<1>6. CASE Retire \/ Rewind
  BY <1>1, <1>6 DEF Retire, Ack, AckBatch, Commit, Rewind, disk
<1>7. CASE CreateRefused \/ WriteFailed
  BY <1>1, <1>7 DEF CreateRefused, WriteFailed, disk
<1>8. CASE Write \/ WriteLatched
  <2>1. op.pc = "write" /\ \E af \in files : Publish(af)
    BY <1>8 DEF Write, WriteLatched
  <2> QED
    BY <2>1, PublishTypes DEF HeaderStep
<1>9. CASE DropStep \/ RunStep \/ CommitEnds
  BY <1>1, <1>9 DEF DropStep, DropSegment, DropStuck, DropDone, RunStep, CommitEnds, disk
<1>10. CASE WalkOver \/ WalkUnreadable \/ WalkStopsAtDamage
  BY <1>1, <1>10 DEF WalkOver, WalkUnreadable, WalkStopsAtDamage, disk
<1>11. CASE WalkLeave \/ Settle
  <2>1. /\ Walks
        /\ \/ UNCHANGED seg
           \/ op.cur # 0 /\ (Persisted(op.cur) \/ RolledBack(op.cur))
    BY <1>11 DEF WalkLeave, Settle, Walks
  <2>2. CASE op.cur # 0 /\ Persisted(op.cur)
    <3>1. op.cur \in Segs /\ seg[op.cur].base <= commitOff
      BY <2>1, <2>2, WalkFacts
    <3>2. HeadersKept(seg, seg', op.cur)
      BY <2>2, <3>1, PersistedShape DEF TInv, TypeOK
    <3>3. \/ seg'[op.cur].hcur = seg[op.cur].hcur
          \/ seg'[op.cur].hcur = Min2(commitOff - seg[op.cur].base, seg[op.cur].size)
      BY <2>2, <3>1 DEF Persisted, TInv, TypeOK, SegType, SegmentRec
    <3> QED
      BY <2>1, <3>2, <3>3 DEF HeadersKept, HeaderStep
  <2>3. CASE op.cur # 0 /\ RolledBack(op.cur)
    BY <2>1, <2>3, WalkFacts, RolledBackShape DEF TInv, TypeOK, HeaderStep
  <2> QED
    BY <1>1, <2>1, <2>2, <2>3
<1>12. CASE WalkAbandoned \/ WalkRecord
  <2>1. CASE WalkRecord
    BY <1>1, <2>1, SegFacts DEF WalkRecord, HeaderStep, TInv, TypeOK, SegType, SegmentRec
  <2>2. CASE WalkAbandoned
    BY <1>1, <2>2, SegFacts DEF WalkAbandoned, HeaderStep, TInv, TypeOK, SegType,
                                SegmentRec
  <2> QED
    BY <1>12, <2>1, <2>2
<1>13. CASE WalkQuarantine \/ WalkQuarantineFailed
  <2>1. \/ UNCHANGED seg
        \/ \E df \in files :
              \/ seg' = Quarantine(seg, df) /\ commitOff' = End(df)
              \/ /\ seg' = HeaderFull(seg, df) /\ commitOff' = commitOff
                 /\ quarantined' = quarantined \union (commitOff .. End(df) - 1)
    BY <1>13 DEF WalkQuarantine, WalkQuarantineFailed, Quarantine, cursors
  <2> QED
    BY <1>1, <1>3, <1>q, <2>1
<1>14. CASE ForceStep \/ ForceFailed \/ ForceLatched \/ ForceDone
  BY <1>14 DEF CInv, ForceStep, ForceFailed, ForceLatched, ForceDone
<1>15. CASE LoadStep
  <2>1. PICK i \in files :
          seg' = Repaired(seg, i, LoadedCount(seg[i], commitOff),
                          LoadedCursor(seg[i], commitOff))
    BY <1>15 DEF LoadStep, Repaired
  <2>2. i \in Segs /\ seg \in [Segs -> SegmentRec] /\ op.pc = "load"
    BY <1>15, SegFacts DEF TInv, TypeOK, SegType, LoadStep
  <2>3. LoadedCount(seg[i], commitOff) \in Nat /\ LoadedCursor(seg[i], commitOff) \in Nat
    BY <2>2, LoadedFacts
  <2>4. HeadersKept(seg, seg', i) /\ seg'[i].hcur = LoadedCursor(seg[i], commitOff)
    BY <2>1, <2>2, <2>3, RepairedShape
  <2> QED
    BY <2>2, <2>4 DEF HeadersKept, HeaderStep
<1>16. CASE Environment
  BY <1>1, <1>16 DEF Environment, Crash, FailSync, Rot, Vanish, disk
<1>17. CASE UNCHANGED vars
  BY <1>1, <1>17 DEF vars, disk
<1> QED
  BY <1>2, <1>4, <1>5, <1>6, <1>7, <1>8, <1>9, <1>10, <1>11, <1>12, <1>13, <1>14, <1>15,
     <1>16, <1>17 DEF Next, OpStep, AppendStep, WalkStep

\* A header is always set to a boundary
LEMMA HeaderPlaced ==
    ASSUME SInv, NEW i \in files, HeaderStep(i)
    PROVE  Boundary(seg[i].base + seg'[i].hcur)
<1>0. TInv /\ OInv /\ CInv /\ Placed
  BY DEF SInv, RInv
<1>1. /\ i \in Segs /\ seg[i].base \in Nat /\ seg[i].size \in Nat /\ commitOff \in Nat
      /\ End(i) = seg[i].base + seg[i].size
  BY <1>0, SegFacts
<1>2. /\ Boundary(seg[i].base) /\ Boundary(seg[i].base + seg[i].hcur) /\ Boundary(End(i))
      /\ Boundary(commitOff)
  BY <1>0, EndsPlaced DEF Placed
<1>3. CASE seg'[i].hcur = seg[i].hcur \/ seg'[i].hcur = seg[i].size
  BY <1>1, <1>2, <1>3
<1>4. CASE Walks /\ i = op.cur /\ seg'[i].hcur = Min2(commitOff - seg[i].base, seg[i].size)
  <2>1. seg[i].base + seg'[i].hcur \in {commitOff, End(i)}
    BY <1>1, <1>4 DEF Min2
  <2> QED
    BY <1>2, <2>1
<1>5. CASE seg'[i].hcur = LoadedCursor(seg[i], commitOff)
  <2>1. seg[i].base + LoadedCursor(seg[i], commitOff) \in {commitOff, End(i), seg[i].base}
    <3>1. CASE seg[i].base + seg[i].size <= commitOff
      BY <1>1, <3>1 DEF LoadedCursor
    <3>2. CASE seg[i].base + seg[i].size > commitOff /\ seg[i].base >= commitOff
      BY <1>1, <3>2 DEF LoadedCursor
    <3>3. CASE seg[i].base + seg[i].size > commitOff /\ seg[i].base < commitOff
      BY <1>1, <3>3 DEF LoadedCursor
    <3> QED
      BY <1>1, <3>1, <3>2, <3>3
  <2> QED
    BY <1>2, <1>5, <2>1
<1> QED
  BY <1>3, <1>4, <1>5 DEF HeaderStep

\* A segment the step does not create keeps its base; one it creates starts at the
\* write cursor, empty
LEMMA BasesStay ==
    ASSUME TInv, OInv, CInv, [Next]_vars, NEW i \in files'
    PROVE  \/ i \in files /\ seg'[i].base = seg[i].base /\ HeaderStep(i)
           \/ seg'[i].base = writeOff /\ seg'[i].hcur = 0 /\ seg'[i].size = 0
              /\ UNCHANGED writeOff
<1>1. CASE Create
  <2>1. /\ files' = files \union {nextNum} /\ UNCHANGED writeOff
        /\ seg' = [seg EXCEPT ![nextNum] = Fresh(writeOff, Max2(SegCap, op.len))]
    BY <1>1 DEF Create, AppendFailed, cursors
  <2>2. nextNum \in Segs /\ files \subseteq Segs
    BY <1>1, SegFacts, StoreAssumption
       DEF Create, TInv, TypeOK, DiskType, Segs, AppendFits, Appending
  <2>3. CASE i = nextNum
    BY <2>1, <2>2, <2>3 DEF TInv, TypeOK, SegType, Fresh
  <2>4. CASE i # nextNum
    BY <2>1, <2>2, <2>4 DEF TInv, TypeOK, SegType, HeaderStep
  <2> QED
    BY <2>3, <2>4
<1>2. CASE LoadDone
  <2>1. CASE files' = {1} /\ seg' = [seg EXCEPT ![1] = Fresh(writeOff, SegCap)]
    BY <1>2, <2>1, StoreAssumption DEF TInv, TypeOK, SegType, Segs, Fresh, LoadDone,
                                       cursors
  <2>2. CASE UNCHANGED <<files, seg>>
    BY <2>2 DEF HeaderStep
  <2> QED
    BY <1>2, <2>1, <2>2 DEF LoadDone
<1>3. CASE ~Create /\ ~LoadDone
  <2>1. \A j \in Segs : HeaderStep(j)
    BY <1>3, HeaderSteps
  <2>2. CASE UNCHANGED <<files, nextNum, writeOff, rlen>> /\ Kept(seg, seg')
    BY <2>1, <2>2, SegFacts DEF Kept
  <2>3. CASE op.pc = "write" /\ \E af \in files : Publish(af)
    BY <2>1, <2>3, PublishTypes, SegFacts DEF Publish
  <2>4. CASE DropSegment
    BY <2>1, <2>4, SegFacts DEF DropSegment
  <2> QED
    BY <1>3, <2>2, <2>3, <2>4, GeometrySteps
<1> QED
  BY <1>1, <1>2, <1>3

LEMMA NextPlaced ==
    ASSUME SInv, [Next]_vars
    PROVE  Placed'
<1>0. TInv /\ OInv /\ CInv /\ Sized /\ Placed /\ TInv'
  BY NextTypes DEF SInv, RInv
<1>1. \A p \in Offsets : Boundary(p) => p = writeOff' \/ rlen'[p] > 0
  BY <1>0, RecordsStay
<1>2. headOff' \in Offsets /\ commitOff' \in Offsets
  BY <1>0 DEF TInv, TypeOK, CursorType
<1>3. Boundary(headOff)' /\ Boundary(commitOff)'
  BY <1>1, <1>2, HeadPlaced, CommitPlaced DEF Boundary
<1>4. ASSUME NEW i \in files'
      PROVE  Boundary(seg[i].base)' /\ Boundary(seg[i].base + seg[i].hcur)'
  <2>1. CASE i \in files /\ seg'[i].base = seg[i].base /\ HeaderStep(i)
    <3>1. Boundary(seg[i].base) /\ Boundary(seg[i].base + seg'[i].hcur)
      BY <1>0, <2>1, HeaderPlaced DEF Placed
    <3>2. i \in Segs /\ seg'[i] \in SegmentRec
      BY <1>0, <2>1, SegFacts DEF TInv, TypeOK, SegType
    <3>3. /\ seg'[i].base \in Nat /\ seg'[i].hcur \in Nat /\ seg'[i].size \in Nat
          /\ writeOff' \in Nat /\ writeOff' <= MaxOff
      BY <1>0, <3>2, StoreAssumption DEF SegmentRec, Offsets, TInv, TypeOK, CursorType
    <3>4. seg'[i].base + seg'[i].size <= writeOff' /\ seg'[i].hcur <= seg'[i].size
      BY <1>0, <3>2 DEF TInv, SegExtents
    <3>5. seg'[i].base \in Offsets /\ seg'[i].base + seg'[i].hcur \in Offsets
      BY <3>3, <3>4, StoreAssumption DEF Offsets
    <3> QED
      BY <1>1, <2>1, <3>1, <3>5 DEF Boundary
  <2>2. CASE seg'[i].base = writeOff /\ seg'[i].hcur = 0 /\ UNCHANGED writeOff
    BY <1>0, <2>2, SegFacts DEF Boundary
  <2> QED
    BY <1>0, <2>1, <2>2, BasesStay
<1> QED
  BY <1>3, <1>4 DEF Placed

LEMMA NextRecords ==
    ASSUME UnlinksSucceed, SInv, [Next]_vars
    PROVE  SInv'
<1>1. TInv' /\ OInv'
  BY NextTypes, NextOrder DEF SInv
<1>2. CInv'
  BY <1>1, NextChain DEF SInv
<1>3. Sized' /\ Ascending(reserved)'
  BY NextSized, NextAscending DEF SInv, RInv, Ascending
<1>4. Tiled' /\ Placed' /\ LedgerFramed' /\ CacheFramed' /\ RequeueFramed'
  BY NextTiled, NextPlaced, NextLedger, NextCache, NextRequeue
<1> QED
  BY <1>1, <1>2, <1>3, <1>4 DEF SInv, RInv

LEMMA InitRecords == Init => SInv
<1> SUFFICES ASSUME Init PROVE SInv
  OBVIOUS
<1>1. TInv /\ OInv /\ CInv
  BY InitTypes, InitOrder, InitChain
<1>2. op.pc = "idle"
  BY Begun DEF Init
<1>3. Len(reserved) = 0 /\ lastFrame.end = 0
  BY DEF Init, NoFrame
<1>4. Sized /\ RequeueFramed /\ Ascending(reserved) /\ LedgerFramed /\ CacheFramed
  BY <1>2, <1>3 DEF Sized, RequeueFramed, Appending, Ascending, LedgerFramed, CacheFramed
<1>5. Tiled
  BY DEF Init, Tiled
<1>6. seg[1].base = 0 /\ seg[1].hcur = 0
  BY StoreAssumption DEF Init, Fresh, Segs
<1>7. Placed
  BY <1>6 DEF Init, Placed, Boundary
<1> QED
  BY <1>1, <1>4, <1>5, <1>7 DEF SInv, RInv

\* As long as unlinks succeed, records tile the queue, and both cursors, the start
\* of every segment and the commit cursor of every header stand where a record
\* begins or the queue ends, whether the walk took the boundary from the ledger,
\* the frame cache or the bytes (frameEnd, commitDurable, skipCorruptSegment, load).
THEOREM CursorsStandBetweenRecords == UnlinksSucceed => (Spec => [](Tiled /\ Placed))
<1> SUFFICES ASSUME UnlinksSucceed PROVE Spec => [](Tiled /\ Placed)
  OBVIOUS
<1>1. Init => SInv
  BY InitRecords
<1>2. SInv /\ [Next]_vars => SInv'
  BY NextRecords
<1>3. SInv => Tiled /\ Placed
  BY DEF SInv, RInv
<1> QED
  BY <1>1, <1>2, <1>3, PTL DEF Spec

=============================================================================
