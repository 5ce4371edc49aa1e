---------------------------- MODULE StoreProofs ----------------------------
(***************************************************************************)
(* What holds of Store for every value of its constants.                   *)
(*                                                                         *)
(* TypeOK is not inductive: a cursor is reset from a header, a header from *)
(* a cursor, and the read cursor moves by the length of a record, so the   *)
(* types rest on where segments and records lie (SegExtents, RecExtents),  *)
(* on what an append in progress was admitted with (AppendFits) and on     *)
(* where the commit walk stands (WalkBase).                                *)
(***************************************************************************)
EXTENDS Store, SequenceTheorems, TLAPS

Appending == op.pc \in {"cycleDrop", "create", "write"}
Walks == op.pc \in {"walk", "settle"}

\* Segments end at or before the write cursor, and no header's commit cursor
\* passes its segment's end
SegExtents ==
    \A i \in Segs :
        seg[i].base + seg[i].size <= writeOff /\ seg[i].hcur <= seg[i].size

\* So do records
RecExtents == \A p \in Offsets : p + rlen[p] <= writeOff \/ rlen[p] = 0

\* The record being appended fits below the bounds, and so does a new segment
AppendFits ==
    Appending =>
        /\ writeOff + op.len <= MaxOff /\ op.len <= MaxLen
        /\ op.start + op.len <= MaxOff
        /\ op.pc # "write" => nextNum <= MaxSegs

\* The segment whose header is outstanding starts at or before the commit cursor
WalkBase == Walks /\ op.cur # 0 => seg[op.cur].base <= commitOff

TInv == TypeOK /\ SegExtents /\ RecExtents /\ AppendFits /\ WalkBase

-----------------------------------------------------------------------------
(* Facts about the operators of the model *)

\* A suffix of the ledger is a ledger (dropRetired)
LEMMA FromType ==
    ASSUME NEW S, NEW r \in Seq(S), NEW k \in 0 .. Len(r)
    PROVE  /\ From(r, k) \in Seq(S)
           /\ Len(From(r, k)) = Len(r) - k
           /\ \A j \in 1 .. Len(r) - k : From(r, k)[j] = r[j + k]
<1>1. k + 1 \in 1 .. Len(r) + 1 /\ Len(r) \in k .. Len(r)
  BY LenProperties
<1>2. SubSeq(r, k + 1, Len(r)) \in Seq(S)
  BY <1>1, SubSeqProperties, LenProperties
<1> QED
  BY <1>1, <1>2, SubSeqProperties, LenProperties DEF From

\* Marking acknowledgements keeps every entry's extent (findReserved)
LEMMA MarkedType ==
    ASSUME NEW r \in Seq(Reservation), NEW ends
    PROVE  /\ Marked(r, ends) \in Seq(Reservation)
           /\ Len(Marked(r, ends)) = Len(r)
           /\ \A k \in 1 .. Len(r) : /\ Marked(r, ends)[k].end = r[k].end
                                     /\ Marked(r, ends)[k].start = r[k].start
<1>1. \A k \in 1 .. Len(r) : r[k] \in Reservation
  BY ElementOfSeq, LenProperties
<1>2. Marked(r, ends) \in [1 .. Len(r) -> Reservation]
  BY <1>1 DEF Marked, Reservation
<1>3. Len(r) \in Nat
  BY LenProperties
<1> QED
  BY <1>1, <1>2, <1>3 DEF Marked, Reservation

LEMMA IdleType == Idle \in Op
  BY StoreAssumption DEF Idle, Op, Offsets

\* The commit walk's start and the run's start are calls in progress
LEMMA StartWalkType ==
    ASSUME CursorType, NEW off \in Nat, NEW d \in BOOLEAN, NEW l \in BOOLEAN,
           StartWalk(off, d, l)
    PROVE  op' \in Op
<1>1. Min2(off, writeOff) \in Offsets
  BY StoreAssumption DEF CursorType, Offsets, Min2
<1> QED
  BY <1>1, IdleType, StoreAssumption DEF StartWalk, Idle, Op, CursorType, Offsets

LEMMA StartRunType ==
    ASSUME CursorType, NEW d \in BOOLEAN, StartRun(d)
    PROVE  op' \in Op
  BY IdleType, StoreAssumption DEF StartRun, Idle, Op, CursorType, Offsets

\* Two versions of the segments agree on everything but commit state
Kept(s, t) ==
    /\ t \in [Segs -> SegmentRec]
    /\ \A j \in Segs : /\ t[j].base = s[j].base /\ t[j].size = s[j].size
                       /\ t[j].written = s[j].written

\* and the header cursors of every segment but i
HeadersKept(s, t, i) == \A j \in Segs : j # i => t[j].hcur = s[j].hcur

WithCommitted(s, i, n) == [s EXCEPT ![i].committed = n]

LEMMA CommittedShape ==
    ASSUME NEW s \in [Segs -> SegmentRec], NEW i \in Segs, NEW n \in Nat
    PROVE  /\ Kept(s, WithCommitted(s, i, n))
           /\ \A j \in Segs : WithCommitted(s, i, n)[j].hcur = s[j].hcur
  BY DEF SegmentRec, Kept, WithCommitted

LEMMA HeaderFullShape ==
    ASSUME NEW s \in [Segs -> SegmentRec], NEW i \in Segs
    PROVE  /\ Kept(s, HeaderFull(s, i)) /\ HeadersKept(s, HeaderFull(s, i), i)
           /\ HeaderFull(s, i)[i].hcur \in {s[i].hcur, s[i].size}
  BY DEF SegmentRec, Kept, HeadersKept, HeaderFull

\* A quarantined segment: the header full and every record counted committed
Quarantine(s, i) == [HeaderFull(s, i) EXCEPT ![i].committed = s[i].written]

LEMMA QuarantineShape ==
    ASSUME NEW s \in [Segs -> SegmentRec], NEW i \in Segs
    PROVE  /\ Kept(s, Quarantine(s, i)) /\ HeadersKept(s, Quarantine(s, i), i)
           /\ Quarantine(s, i)[i].hcur \in {s[i].hcur, s[i].size}
<1>1. s[i].written \in Nat
  BY DEF SegmentRec
<1>2. /\ Kept(s, HeaderFull(s, i)) /\ HeadersKept(s, HeaderFull(s, i), i)
      /\ HeaderFull(s, i)[i].hcur \in {s[i].hcur, s[i].size}
  BY HeaderFullShape
<1>3. Quarantine(s, i) = WithCommitted(HeaderFull(s, i), i, s[i].written)
  BY DEF Quarantine, WithCommitted
<1>4. HeaderFull(s, i) \in [Segs -> SegmentRec]
  BY <1>2 DEF Kept
<1>5. /\ Kept(HeaderFull(s, i), Quarantine(s, i))
      /\ \A j \in Segs : Quarantine(s, i)[j].hcur = HeaderFull(s, i)[j].hcur
  BY <1>1, <1>3, <1>4, CommittedShape
<1> QED
  BY <1>2, <1>5 DEF Kept, HeadersKept

\* persistCommit's header is within the segment and not past the commit cursor
LEMMA PersistedShape ==
    ASSUME SegType, CursorType, NEW i \in Segs, seg[i].base <= commitOff, Persisted(i)
    PROVE  /\ Kept(seg, seg') /\ HeadersKept(seg, seg', i)
           /\ \/ seg'[i].hcur = seg[i].hcur
              \/ /\ seg'[i].hcur <= seg[i].size
                 /\ seg[i].base + seg'[i].hcur <= commitOff
<1>1. Min2(commitOff - seg[i].base, seg[i].size) \in Nat
  BY StoreAssumption DEF SegType, CursorType, SegmentRec, Offsets, Min2
<1>2. /\ Min2(commitOff - seg[i].base, seg[i].size) <= seg[i].size
      /\ seg[i].base + Min2(commitOff - seg[i].base, seg[i].size) <= commitOff
  BY StoreAssumption DEF SegType, CursorType, SegmentRec, Offsets, Min2
<1>3. seg[i].committed \in Nat
  BY DEF SegType, SegmentRec
<1> HIDE DEF Min2
<1>4. CASE i \in gone
  BY <1>4 DEF Persisted, Kept, HeadersKept, SegType
<1>5. CASE i \notin gone
  BY <1>1, <1>2, <1>3, <1>5 DEF Persisted, Kept, HeadersKept, SegType, SegmentRec
<1> QED
  BY <1>4, <1>5

\* A rollback touches no header
LEMMA RolledBackShape ==
    ASSUME SegType, NEW i \in Segs, RolledBack(i)
    PROVE  Kept(seg, seg') /\ \A j \in Segs : seg'[j].hcur = seg[j].hcur
<1>1. seg[i].hcnt \in Nat
  BY DEF SegType, SegmentRec
<1>2. seg' = WithCommitted(seg, i, seg[i].hcnt)
  BY DEF RolledBack, WithCommitted
<1> QED
  BY <1>1, <1>2, CommittedShape DEF SegType

LEMMA KeptExtents ==
    ASSUME SegExtents, Kept(seg, seg'), UNCHANGED writeOff,
           \A j \in Segs : seg'[j].hcur <= seg[j].size
    PROVE  SegType' /\ SegExtents'
  BY DEF Kept, SegExtents, SegType

\* What an action leaves alone keeps its type
LEMMA Frames ==
    /\ CursorType /\ UNCHANGED cursors => CursorType'
    /\ DiskType /\ UNCHANGED <<files, nextNum, gone, rlen, rot>> => DiskType'
    /\ SegType /\ UNCHANGED seg => SegType'
    /\ CountType /\ UNCHANGED <<counts, loss, reports, refusals, replays>> => CountType'
    /\ LedgerType /\ UNCHANGED ledger => LedgerType'
    /\ OpType /\ UNCHANGED <<op, ioErr>> => OpType'
    /\ HistoryType /\ UNCHANGED <<authorised, lostSet, quarantined>> => HistoryType'
    /\ SegExtents /\ UNCHANGED <<writeOff, seg>> => SegExtents'
    /\ RecExtents /\ UNCHANGED <<writeOff, rlen>> => RecExtents'
  BY DEF cursors, counts, loss, ledger, CursorType, DiskType, SegType, CountType,
     LedgerType, OpType, HistoryType, SegExtents, RecExtents

-----------------------------------------------------------------------------
(* The type invariant, one lemma per part of Next *)

\* A step that leaves the disk, the write cursor and the bounds of the call alone
LEMMA Quiet ==
    ASSUME TInv, UNCHANGED <<writeOff, disk>>, CursorType', CountType', LedgerType',
           OpType', HistoryType', ~Appending', ~Walks' \/ op'.cur = 0
    PROVE  TInv'
<1>1. DiskType' /\ SegType' /\ SegExtents' /\ RecExtents'
  BY Frames DEF TInv, TypeOK, disk
<1>2. AppendFits' /\ WalkBase'
  BY DEF AppendFits, WalkBase
<1> QED
  BY <1>1, <1>2 DEF TInv, TypeOK

LEMMA StartAppendType ==
    ASSUME NEW kind \in {"add", "requeue"}, NEW n \in Nat, NEW start \in Offsets,
           StartAppend(kind, n, start)
    PROVE  /\ op' \in Op /\ op'.pc \in {"cycleDrop", "write"}
           /\ op'.len = n /\ op'.start = start /\ op'.kind = kind
           /\ writeOff + n <= MaxOff /\ (op'.pc # "write" => nextNum <= MaxSegs)
<1>1. PICK c \in {"cycleDrop", "write"} :
         /\ op' = [Idle EXCEPT !.pc = c, !.kind = kind, !.len = n, !.start = start]
         /\ c # "write" => nextNum <= MaxSegs
  BY DEF StartAppend
<1>2. op' \in Op /\ op'.pc = c /\ op'.len = n /\ op'.start = start /\ op'.kind = kind
  BY <1>1, IdleType DEF Op
<1> QED
  BY <1>1, <1>2 DEF StartAppend

LEMMA AddTypes ==
    ASSUME TInv, NEW n \in 1 .. MaxLen, Add(n)
    PROVE  TInv'
<1>1. n \in Nat /\ n <= MaxLen /\ 0 \in Offsets /\ writeOff \in Nat
  BY StoreAssumption DEF Offsets, TInv, TypeOK, CursorType
<1>2. /\ op' \in Op /\ op'.pc \in {"cycleDrop", "write"}
      /\ op'.len = n /\ op'.start = 0
      /\ writeOff + n <= MaxOff /\ (op'.pc # "write" => nextNum <= MaxSegs)
  BY <1>1, StartAppendType DEF Add
<1>4. /\ CursorType' /\ DiskType' /\ SegType' /\ CountType' /\ LedgerType' /\ HistoryType'
      /\ SegExtents' /\ RecExtents'
  BY Frames DEF TInv, TypeOK, Add, cursors, disk, history
<1>5. OpType'
  BY <1>2 DEF TInv, TypeOK, OpType, Add
<1>6. AppendFits'
  BY <1>1, <1>2, StoreAssumption DEF AppendFits, Appending, Add, cursors, disk
<1>7. WalkBase'
  BY <1>2 DEF WalkBase, Walks
<1> QED
  BY <1>4, <1>5, <1>6, <1>7 DEF TInv, TypeOK

\* A failed append moves only the read cursor, and only back
LEMMA AppendFailedTypes ==
    ASSUME TInv, AppendFailed
    PROVE  CursorType' /\ op' \in Op /\ ~Appending' /\ ~Walks'
<1>1. CursorType'
  BY StoreAssumption DEF AppendFailed, TInv, TypeOK, CursorType, OpType, Op, Min2
<1>2. op' \in Op /\ op'.pc = "idle"
  BY IdleType DEF AppendFailed, Idle
<1> QED
  BY <1>1, <1>2 DEF Appending, Walks

LEMMA CreateRefusedTypes ==
    ASSUME TInv, CreateRefused \/ WriteFailed
    PROVE  TInv'
<1>1. AppendFailed /\ UNCHANGED <<disk, counts, ledger, loss, history>> /\ ioErr' \in BOOLEAN
  BY DEF CreateRefused, WriteFailed, TInv, TypeOK, OpType
<1>2. CursorType' /\ op' \in Op /\ ~Appending' /\ ~Walks'
  BY <1>1, AppendFailedTypes
<1>3. CountType' /\ LedgerType' /\ HistoryType' /\ OpType'
  BY <1>1, <1>2, Frames DEF TInv, TypeOK, history, OpType
<1> QED
  BY <1>1, <1>2, <1>3, Quiet DEF AppendFailed

LEMMA CreateTypes ==
    ASSUME TInv, Create
    PROVE  TInv'
<1>1. nextNum \in Segs /\ op.len \in Nat /\ op.len <= MaxLen /\ op \in Op
  BY StoreAssumption
     DEF Create, TInv, TypeOK, DiskType, Segs, AppendFits, Appending, OpType, Op
<1>2. Fresh(writeOff, Max2(SegCap, op.len)) \in SegmentRec
  BY <1>1, StoreAssumption DEF Fresh, SegmentRec, Max2, TInv, TypeOK, CursorType
<1>3. seg' = [seg EXCEPT ![nextNum] = Fresh(writeOff, Max2(SegCap, op.len))]
  BY DEF Create
<1>4. SegType' /\ SegExtents'
  <2>1. UNCHANGED writeOff
    BY DEF Create, cursors, AppendFailed
  <2>2. SegType'
    BY <1>1, <1>2, <1>3 DEF TInv, TypeOK, SegType
  <2>3. \A j \in Segs : j # nextNum => seg'[j] = seg[j]
    BY <1>3 DEF TInv, TypeOK, SegType
  <2>4. seg'[nextNum] = Fresh(writeOff, Max2(SegCap, op.len))
    BY <1>1, <1>3 DEF TInv, TypeOK, SegType
  <2>5. writeOff \in Nat
    BY StoreAssumption DEF TInv, TypeOK, CursorType, Offsets
  <2>6. SegExtents'
    BY <2>1, <2>3, <2>4, <2>5 DEF TInv, SegExtents, Fresh
  <2> QED
    BY <2>2, <2>6
<1>5. DiskType' /\ RecExtents' /\ CountType' /\ LedgerType' /\ HistoryType'
  <2>1. UNCHANGED <<writeOff, rlen, rot, gone>>
    BY DEF Create, cursors, AppendFailed
  <2>2. files' \subseteq Segs /\ nextNum' \in 1 .. MaxSegs + 1
    BY <1>1, StoreAssumption DEF Create, TInv, TypeOK, DiskType, Segs
  <2>3. DiskType'
    BY <2>1, <2>2 DEF TInv, TypeOK, DiskType
  <2> QED
    BY <2>1, <2>3, Frames DEF Create, TInv, TypeOK, history
<1>6. CASE op' = [op EXCEPT !.pc = "write"] /\ UNCHANGED <<cursors, ioErr>>
  <2>1. op' \in Op /\ op'.pc = "write" /\ op'.len = op.len /\ op'.start = op.start
    BY <1>1, <1>6 DEF Op
  <2>2. AppendFits' /\ WalkBase'
    BY <1>6, <2>1 DEF AppendFits, Appending, WalkBase, Walks, TInv, Create, cursors
  <2>3. CursorType' /\ OpType'
    BY <1>6, <2>1, Frames DEF TInv, TypeOK, OpType
  <2> QED
    BY <1>4, <1>5, <2>2, <2>3 DEF TInv, TypeOK
<1>7. CASE ioErr' = TRUE /\ AppendFailed
  <2>1. CursorType' /\ OpType' /\ AppendFits' /\ WalkBase'
    BY <1>7, AppendFailedTypes DEF OpType, AppendFits, WalkBase
  <2> QED
    BY <1>4, <1>5, <2>1 DEF TInv, TypeOK
<1> QED
  BY <1>6, <1>7 DEF Create

\* The record appendRecord publishes lies below the new write cursor, and so
\* does the segment it extends
LEMMA PublishTypes ==
    ASSUME TInv, op.pc = "write", NEW af \in files, Publish(af)
    PROVE  /\ writeOff' \in Offsets /\ DiskType' /\ SegType' /\ SegExtents' /\ RecExtents'
           /\ \A j \in Segs : /\ seg'[j].base = seg[j].base /\ seg'[j].hcur = seg[j].hcur
                              /\ j # af => seg'[j] = seg[j]
<1>1. af \in Segs /\ op.len \in 0 .. MaxLen /\ writeOff + op.len <= MaxOff
  BY StoreAssumption
     DEF TInv, TypeOK, DiskType, AppendFits, Appending, OpType, Op
<1>2. writeOff \in Nat /\ writeOff <= MaxOff
  BY StoreAssumption DEF TInv, TypeOK, CursorType, Offsets
<1>3. writeOff' = writeOff + op.len /\ writeOff' \in Offsets
  BY <1>1, <1>2, StoreAssumption DEF Publish, Offsets
<1>4. /\ seg[af] \in SegmentRec /\ seg[af].base \in Nat /\ seg[af].size \in Nat
      /\ End(af) \in Nat /\ End(af) <= writeOff /\ End(af) \in Offsets
  BY <1>1, <1>2, StoreAssumption
     DEF TInv, TypeOK, SegType, SegmentRec, SegExtents, End, Offsets
<1>5. SegType' /\ \A j \in Segs :
         /\ seg'[j].base = seg[j].base /\ seg'[j].hcur = seg[j].hcur
         /\ j # af => seg'[j] = seg[j]
         /\ seg'[j].size = IF j = af THEN seg[j].size + op.len ELSE seg[j].size
  <2>1. seg' = [seg EXCEPT ![af].size = @ + op.len, ![af].written = @ + 1]
    BY DEF Publish
  <2> QED
    BY <1>1, <2>1 DEF TInv, TypeOK, SegType, SegmentRec
<1>6. SegExtents'
  <2> SUFFICES ASSUME NEW j \in Segs
               PROVE  /\ seg'[j].base + seg'[j].size <= writeOff'
                      /\ seg'[j].hcur <= seg'[j].size
    BY DEF SegExtents
  <2>1. /\ seg[j].base \in Nat /\ seg[j].size \in Nat /\ seg[j].hcur \in Nat
        /\ seg[j].base + seg[j].size <= writeOff /\ seg[j].hcur <= seg[j].size
    BY StoreAssumption DEF TInv, TypeOK, SegType, SegmentRec, SegExtents, Offsets
  <2> QED
    BY <1>1, <1>2, <1>3, <1>5, <2>1
<1>7. DiskType'
  BY <1>1, <1>4, StoreAssumption DEF Publish, TInv, TypeOK, DiskType
<1>8. RecExtents'
  <2> SUFFICES ASSUME NEW p \in Offsets
               PROVE  p + rlen'[p] <= writeOff' \/ rlen'[p] = 0
    BY DEF RecExtents
  <2>1. rlen'[p] = IF p = End(af) THEN op.len ELSE rlen[p]
    BY <1>4 DEF Publish, TInv, TypeOK, DiskType
  <2>2. rlen[p] \in Nat /\ p \in Nat /\ (p + rlen[p] <= writeOff \/ rlen[p] = 0)
    BY StoreAssumption DEF TInv, TypeOK, DiskType, RecExtents, Offsets
  <2> QED
    BY <1>1, <1>2, <1>3, <1>4, <2>1, <2>2
<1> QED
  BY <1>3, <1>5, <1>6, <1>7, <1>8

\* A frame retired through the ledger keeps the ledger's type (retireFrameDurable)
LEMMA AppendLedger ==
    ASSUME LedgerType, NEW c, NEW e \in Reservation, NEW k \in Passed(reserved, c)
    PROVE  Append(From(reserved, k), e) \in Seq(Reservation)
<1>1. k \in 0 .. Len(reserved) /\ reserved \in Seq(Reservation)
  BY DEF Passed, LedgerType
<1>2. From(reserved, k) \in Seq(Reservation)
  BY <1>1, FromType
<1> QED
  BY <1>2, AppendProperties

LEMMA FromLedger ==
    ASSUME LedgerType, NEW c, NEW k \in Passed(reserved, c)
    PROVE  From(reserved, k) \in Seq(Reservation)
<1>1. k \in 0 .. Len(reserved) /\ reserved \in Seq(Reservation)
  BY DEF Passed, LedgerType
<1> QED
  BY <1>1, FromType

LEMMA RetireFrameTypes ==
    ASSUME CursorType, LedgerType, NEW start \in Offsets, NEW end \in Offsets,
           NEW d \in BOOLEAN, RetireFrame(start, end, d)
    PROVE  reserved' \in Seq(Reservation) /\ op' \in Op /\ op'.pc \in {"idle", "run"}
<1>1. Settled(start, end) \in Reservation
  BY DEF Settled, Reservation
<1>2. reserved' \in Seq(Reservation)
  BY <1>1, AppendLedger DEF RetireFrame
<1>3. op' \in Op
  BY StartRunType DEF RetireFrame
<1>4. op'.pc \in {"idle", "run"}
  BY DEF RetireFrame, StartRun, Idle
<1> QED
  BY <1>2, <1>3, <1>4

LEMMA WriteTypes ==
    ASSUME TInv, Write \/ WriteLatched
    PROVE  TInv'
<1>1. op.pc = "write" /\ \E af \in files : Publish(af)
  BY DEF Write, WriteLatched
<1>2. /\ writeOff' \in Offsets /\ DiskType' /\ SegType' /\ SegExtents' /\ RecExtents'
      /\ commitOff' = commitOff /\ nWritten' = nWritten + 1 /\ UNCHANGED <<nCommitted, loss>>
  BY <1>1, PublishTypes DEF Publish
<1>3. CountType'
  <2>1. UNCHANGED <<reports, refusals, replays>>
    BY DEF Write, WriteLatched, history
  <2> QED
    BY <1>2, <2>1 DEF TInv, TypeOK, CountType, loss
<1>4. /\ op.start \in Offsets /\ op.start + op.len \in Offsets
      /\ op.start .. op.start + op.len - 1 \subseteq Offsets
  BY <1>1, StoreAssumption
     DEF TInv, TypeOK, OpType, Op, AppendFits, Appending, Offsets
<1>5. CASE Write
  <2>1. CursorType'
    BY <1>2, <1>5 DEF Write, TInv, TypeOK, CursorType
  <2>3. /\ LedgerType' /\ op' \in Op /\ op'.pc \in {"idle", "run"}
        /\ authorised' \subseteq Offsets
    <3>1. CASE op' = Idle /\ UNCHANGED <<reserved, authorised>>
      BY <1>5, <3>1, IdleType DEF Write, Idle, TInv, TypeOK, LedgerType, HistoryType
    <3>2. CASE /\ RetireFrame(op.start, op.start + op.len, TRUE)
               /\ authorised' = authorised \union (op.start .. op.start + op.len - 1)
      <4>1. reserved' \in Seq(Reservation) /\ op' \in Op /\ op'.pc \in {"idle", "run"}
        BY <1>4, <3>2, RetireFrameTypes DEF TInv, TypeOK
      <4> QED
        BY <1>4, <1>5, <3>2, <4>1 DEF Write, TInv, TypeOK, LedgerType, HistoryType
    <3> QED
      BY <1>5, <3>1, <3>2 DEF Write
  <2>4. OpType' /\ HistoryType'
    BY <1>5, <2>3 DEF Write, TInv, TypeOK, OpType, HistoryType
  <2>5. AppendFits' /\ WalkBase'
    BY <2>3 DEF AppendFits, Appending, WalkBase, Walks
  <2> QED
    BY <1>2, <1>3, <2>1, <2>3, <2>4, <2>5 DEF TInv, TypeOK
<1>6. CASE WriteLatched
  <2>1. CursorType'
    BY <1>2, <1>4, <1>6 DEF WriteLatched, Min2, TInv, TypeOK, CursorType
  <2>2. op' \in Op /\ op'.pc = "idle" /\ ioErr' = TRUE
    BY <1>6, IdleType DEF WriteLatched, Idle
  <2>3. OpType' /\ AppendFits' /\ WalkBase'
    BY <2>2 DEF OpType, AppendFits, Appending, WalkBase, Walks
  <2>4. LedgerType' /\ HistoryType'
    BY <1>6, Frames DEF WriteLatched, TInv, TypeOK, history
  <2> QED
    BY <1>2, <1>3, <2>1, <2>3, <2>4 DEF TInv, TypeOK
<1> QED
  BY <1>5, <1>6

LEMMA FinishCommitTypes ==
    ASSUME LedgerType, FinishCommit
    PROVE  reserved' \in Seq(Reservation) /\ op' \in Op /\ op'.pc = "idle"
<1>1. reserved' \in Seq(Reservation)
  BY FromLedger DEF FinishCommit, LedgerType
<1> QED
  BY <1>1, IdleType DEF FinishCommit, Idle

\* Reclamation changes which segments are live and what they count for
LEMMA DropTypes ==
    ASSUME TInv, DropStep
    PROVE  TInv'
<1>1. op.pc \in {"cycleDrop", "commitDrop"} /\ op \in Op
  BY DEF DropStep, DropSegment, DropStuck, DropDone, TInv, TypeOK, OpType
<1>2. /\ UNCHANGED <<cursors, seg, nextNum, gone, rlen, rot, loss, ioErr, history>>
      /\ files' \subseteq files
  BY DEF DropStep, DropSegment, DropStuck, DropDone, disk
<1>3. /\ CursorType' /\ SegType' /\ HistoryType' /\ SegExtents' /\ RecExtents'
  BY <1>2, Frames DEF TInv, TypeOK, history, cursors
<1>4. DiskType'
  BY <1>2 DEF TInv, TypeOK, DiskType
<1>5. CASE DropSegment \/ DropStuck
  <2>1. PICK i \in files : op' = [op EXCEPT !.i = i]
    BY <1>5 DEF DropSegment, DropStuck
  <2>2. i \in Nat /\ i \in Segs
    BY StoreAssumption DEF TInv, TypeOK, DiskType, Segs
  <2>3. op' \in Op /\ op'.pc = op.pc /\ op'.len = op.len /\ op'.start = op.start
    BY <1>1, <2>1, <2>2 DEF Op
  <2>4. LedgerType'
    BY <1>5, StoreAssumption
       DEF DropSegment, DropStuck, NoFrame, TInv, TypeOK, LedgerType, Offsets
  <2>5. CountType'
    <3>1. CASE DropStuck
      BY <3>1, Frames DEF DropStuck, TInv, TypeOK, history
    <3>2. CASE DropSegment
      <4>1. \A j \in Segs : seg[j].written \in Int /\ seg[j].committed \in Int
        BY DEF TInv, TypeOK, SegType, SegmentRec
      <4> QED
        BY <3>2, <4>1, <1>2
           DEF DropSegment, TInv, TypeOK, CountType, DiskType, loss, history
    <3> QED
      BY <1>5, <3>1, <3>2
  <2>6. OpType' /\ AppendFits' /\ WalkBase'
    BY <1>1, <1>2, <2>3
       DEF OpType, TInv, TypeOK, AppendFits, Appending, WalkBase, Walks, cursors
  <2> QED
    BY <1>3, <1>4, <2>4, <2>5, <2>6 DEF TInv, TypeOK
<1>6. CASE DropDone
  <2>1. CountType'
    BY <1>6, Frames DEF DropDone, TInv, TypeOK, history
  <2>2. CASE op.pc = "cycleDrop" /\ op' = [op EXCEPT !.pc = "create", !.i = 0]
             /\ UNCHANGED reserved
    <3>1. op' \in Op /\ op'.pc = "create" /\ op'.len = op.len /\ op'.start = op.start
      BY <1>1, <2>2 DEF Op
    <3>2. OpType' /\ AppendFits' /\ WalkBase'
      BY <1>2, <2>2, <3>1
         DEF OpType, TInv, TypeOK, AppendFits, Appending, WalkBase, Walks, cursors
    <3>3. LedgerType'
      BY <1>6, <2>2 DEF DropDone, TInv, TypeOK, LedgerType
    <3> QED
      BY <1>3, <1>4, <2>1, <3>2, <3>3 DEF TInv, TypeOK
  <2>3. CASE op.pc = "commitDrop" /\ FinishCommit
    <3>1. reserved' \in Seq(Reservation) /\ op' \in Op /\ op'.pc = "idle"
      BY <2>3, FinishCommitTypes DEF TInv, TypeOK
    <3>2. OpType' /\ AppendFits' /\ WalkBase'
      BY <1>2, <3>1
         DEF OpType, TInv, TypeOK, AppendFits, Appending, WalkBase, Walks
    <3>3. LedgerType'
      BY <1>6, <3>1 DEF DropDone, TInv, TypeOK, LedgerType
    <3> QED
      BY <1>3, <1>4, <2>1, <3>2, <3>3 DEF TInv, TypeOK
  <2> QED
    BY <1>6, <2>2, <2>3 DEF DropDone
<1> QED
  BY <1>5, <1>6 DEF DropStep

LEMMA RunTypes ==
    ASSUME TInv, RunStep
    PROVE  TInv'
<1>1. UNCHANGED <<cursors, disk, counts, ledger, loss, ioErr, history>> /\ op.pc = "run"
  BY DEF RunStep
<1>2. /\ CursorType' /\ CountType' /\ LedgerType' /\ HistoryType'
  BY <1>1, Frames DEF TInv, TypeOK, history
<1>3. op' \in Op /\ op'.pc \in {"idle", "run", "walk"} /\ (op'.pc = "walk" => op'.cur = 0)
  <2>1. CASE /\ InRun(op.i + 1, op.at)
             /\ op' = [op EXCEPT !.at = reserved[op.i + 1].end, !.i = op.i + 1]
    <3>1. op \in Op /\ op.i + 1 \in Nat
      BY DEF TInv, TypeOK, OpType, Op
    <3>2. reserved[op.i + 1].end \in Offsets
      <4>1. op.i + 1 \in 1 .. Len(reserved) /\ reserved \in Seq(Reservation)
        BY <2>1 DEF InRun, TInv, TypeOK, LedgerType
      <4>2. reserved[op.i + 1] \in Reservation
        BY <4>1, ElementOfSeq
      <4> QED
        BY <4>2 DEF Reservation
    <3> QED
      BY <1>1, <2>1, <3>1, <3>2 DEF Op
  <2>2. CASE op' = Idle
    BY <2>2, IdleType DEF Idle
  <2>3. CASE StartWalk(op.at, op.durable, TRUE)
    <3>1. op.at \in Nat /\ op.durable \in BOOLEAN
      BY StoreAssumption DEF TInv, TypeOK, OpType, Op, Offsets
    <3>2. op' \in Op
      BY <2>3, <3>1, StartWalkType DEF TInv, TypeOK
    <3> QED
      BY <2>3, <3>2 DEF StartWalk, Idle
  <2> QED
    BY <2>1, <2>2, <2>3 DEF RunStep
<1>4. OpType' /\ ~Appending' /\ (~Walks' \/ op'.cur = 0)
  BY <1>1, <1>3 DEF OpType, TInv, TypeOK, Appending, Walks
<1> QED
  BY <1>1, <1>2, <1>4, Quiet DEF cursors

\* A step that leaves the write cursor and the live segments alone and moves only
\* commit state on the disk
LEMMA Moves ==
    ASSUME TInv, UNCHANGED <<writeOff, files, nextNum, gone, rlen, rot>>,
           Kept(seg, seg'), \A j \in Segs : seg'[j].hcur <= seg[j].size,
           CursorType', CountType', LedgerType', OpType', HistoryType', ~Appending',
           Walks' /\ op'.cur # 0 => seg[op'.cur].base <= commitOff'
    PROVE  TInv'
<1>1. SegType' /\ SegExtents'
  BY KeptExtents DEF TInv
<1>2. DiskType' /\ RecExtents'
  BY Frames DEF TInv, TypeOK
<1>3. AppendFits'
  BY DEF AppendFits
<1>4. WalkBase'
  <2> SUFFICES ASSUME Walks', op'.cur # 0 PROVE seg'[op'.cur].base <= commitOff'
    BY DEF WalkBase
  <2>1. op'.cur \in Segs
    BY StoreAssumption DEF OpType, Op, Segs
  <2> QED
    BY <2>1 DEF Kept
<1> QED
  BY <1>1, <1>2, <1>3, <1>4 DEF TInv, TypeOK

\* The numbers a step computes with
LEMMA SegFacts ==
    ASSUME TInv
    PROVE  /\ writeOff \in Nat /\ headOff \in Nat /\ commitOff \in Nat
           /\ writeOff <= MaxOff /\ headOff <= MaxOff /\ commitOff <= MaxOff
           /\ files \subseteq Segs
           /\ \A i \in Segs :
                 /\ seg[i].base \in Nat /\ seg[i].size \in Nat /\ seg[i].hcur \in Nat
                 /\ seg[i].written \in Nat /\ seg[i].committed \in Nat /\ seg[i].hcnt \in Nat
                 /\ seg[i].base + seg[i].size <= writeOff /\ seg[i].hcur <= seg[i].size
                 /\ End(i) \in Offsets /\ End(i) = seg[i].base + seg[i].size
<1>1. /\ writeOff \in Nat /\ headOff \in Nat /\ commitOff \in Nat
      /\ writeOff <= MaxOff /\ headOff <= MaxOff /\ commitOff <= MaxOff
  BY StoreAssumption DEF TInv, TypeOK, CursorType, Offsets
<1>2. files \subseteq Segs
  BY DEF TInv, TypeOK, DiskType
<1>3. ASSUME NEW i \in Segs
      PROVE  /\ seg[i].base \in Nat /\ seg[i].size \in Nat /\ seg[i].hcur \in Nat
             /\ seg[i].written \in Nat /\ seg[i].committed \in Nat /\ seg[i].hcnt \in Nat
             /\ seg[i].base + seg[i].size <= writeOff /\ seg[i].hcur <= seg[i].size
             /\ End(i) \in Offsets /\ End(i) = seg[i].base + seg[i].size
  <2>1. seg[i] \in SegmentRec
    BY DEF TInv, TypeOK, SegType
  <2>2. /\ seg[i].base \in Nat /\ seg[i].size \in Nat /\ seg[i].hcur \in Nat
        /\ seg[i].written \in Nat /\ seg[i].committed \in Nat /\ seg[i].hcnt \in Nat
    BY <2>1, StoreAssumption DEF SegmentRec, Offsets
  <2>3. seg[i].base + seg[i].size <= writeOff /\ seg[i].hcur <= seg[i].size
    BY DEF TInv, SegExtents
  <2> QED
    BY <1>1, <2>2, <2>3, StoreAssumption DEF End, Offsets
<1> QED
  BY <1>1, <1>2, <1>3

LEMMA KeptSelf ==
    ASSUME TInv, UNCHANGED seg
    PROVE  Kept(seg, seg') /\ \A j \in Segs : seg'[j].hcur <= seg[j].size
  BY SegFacts DEF Kept, TInv, TypeOK, SegType

\* The walk's steps that only move on to the settling of the commit
LEMMA WalkStopTypes ==
    ASSUME TInv, WalkOver \/ WalkUnreadable \/ WalkStopsAtDamage
    PROVE  TInv'
<1>1. /\ UNCHANGED <<cursors, disk, counts, ledger, loss, authorised, lostSet,
                     quarantined, replays>>
      /\ op.pc = "walk" /\ op' = [op EXCEPT !.pc = "settle"] /\ ioErr' \in BOOLEAN
  BY DEF WalkOver, WalkUnreadable, WalkStopsAtDamage, Walking, TInv, TypeOK, OpType,
     history
<1>2. op \in Op
  BY DEF TInv, TypeOK, OpType
<1>3. op' \in Op /\ op'.pc = "settle" /\ op'.cur = op.cur
  BY <1>1, <1>2 DEF Op
<1>4. CursorType' /\ CountType' /\ LedgerType' /\ HistoryType'
  <2>1. reports' \in Nat /\ refusals' \in Nat
    BY DEF WalkOver, WalkUnreadable, WalkStopsAtDamage, Refuse, TInv, TypeOK, CountType,
       history
  <2>2. CountType'
    BY <1>1, <2>1 DEF TInv, TypeOK, CountType, counts, loss
  <2> QED
    BY <1>1, <2>2, Frames DEF TInv, TypeOK
<1>5. OpType' /\ ~Appending'
  BY <1>1, <1>3 DEF OpType, Appending
<1>6. Walks' /\ op'.cur # 0 => seg[op'.cur].base <= commitOff'
  BY <1>1, <1>3 DEF TInv, WalkBase, Walks, cursors
<1>7. Kept(seg, seg') /\ \A j \in Segs : seg'[j].hcur <= seg[j].size
  BY <1>1, KeptSelf DEF disk
<1> QED
  BY <1>1, <1>4, <1>5, <1>6, <1>7, Moves DEF cursors, disk

\* The header of the outstanding segment, written or rolled back
LEMMA HeaderTypes ==
    ASSUME TInv, NEW i \in Segs, seg[i].base <= commitOff, Persisted(i) \/ RolledBack(i)
    PROVE  /\ Kept(seg, seg') /\ \A j \in Segs : seg'[j].hcur <= seg[j].size
           /\ commitOff' \in Offsets /\ nCommitted' \in Int
<1>1. CASE Persisted(i)
  <2>1. /\ Kept(seg, seg') /\ HeadersKept(seg, seg', i)
        /\ seg'[i].hcur = seg[i].hcur \/ seg'[i].hcur <= seg[i].size
    BY <1>1, PersistedShape DEF TInv, TypeOK
  <2>2. commitOff' \in Offsets /\ nCommitted' \in Int
    BY <1>1 DEF Persisted, TInv, TypeOK, CursorType, CountType
  <2> QED
    BY <2>1, <2>2, SegFacts DEF HeadersKept
<1>2. CASE RolledBack(i)
  <2>1. Kept(seg, seg') /\ \A j \in Segs : seg'[j].hcur = seg[j].hcur
    BY <1>2, RolledBackShape DEF TInv, TypeOK
  <2>2. commitOff' = seg[i].base + seg[i].hcur
    BY <1>2 DEF RolledBack
  <2>3. commitOff' \in Offsets
    BY <2>2, SegFacts, StoreAssumption DEF Offsets
  <2>4. nCommitted' \in Int
    BY <1>2, SegFacts DEF RolledBack, TInv, TypeOK, CountType
  <2> QED
    BY <2>1, <2>3, <2>4, SegFacts
<1> QED
  BY <1>1, <1>2

LEMMA WalkLeaveTypes ==
    ASSUME TInv, WalkLeave
    PROVE  TInv'
<1>1. /\ op.pc = "walk" /\ op.cur # 0 /\ op \in Op /\ op.cur \in Segs
  BY StoreAssumption DEF WalkLeave, TInv, TypeOK, OpType, Op, Segs
<1>2. /\ UNCHANGED <<writeOff, headOff, files, nextNum, gone, rlen, rot, nWritten,
                     ledger, loss, history>>
      /\ Persisted(op.cur) \/ RolledBack(op.cur)
  BY DEF WalkLeave
<1>3. seg[op.cur].base <= commitOff
  BY <1>1 DEF TInv, WalkBase, Walks
<1>4. /\ Kept(seg, seg') /\ \A j \in Segs : seg'[j].hcur <= seg[j].size
      /\ commitOff' \in Offsets /\ nCommitted' \in Int
  BY <1>1, <1>2, <1>3, HeaderTypes
<1>5. /\ op' \in Op /\ op'.cur = 0 /\ op'.pc \in {"walk", "settle"} /\ ioErr' \in BOOLEAN
  <2>1. \/ op' = [op EXCEPT !.cur = 0]
        \/ op' = [op EXCEPT !.cur = 0, !.pc = "settle"]
    BY DEF WalkLeave
  <2>2. ioErr' = ioErr \/ ioErr' = TRUE
    BY DEF WalkLeave, RolledBack
  <2>3. ioErr' \in BOOLEAN
    BY <2>2 DEF TInv, TypeOK, OpType
  <2>4. 0 \in 0 .. MaxSegs
    BY StoreAssumption
  <2>5. op' \in Op /\ op'.cur = 0 /\ op'.pc \in {"walk", "settle"}
    BY <1>1, <2>1, <2>4 DEF Op
  <2> QED
    BY <2>3, <2>5
<1>6. CursorType' /\ CountType'
  BY <1>2, <1>4 DEF TInv, TypeOK, CursorType, CountType, loss, history
<1>7. LedgerType' /\ HistoryType'
  BY <1>2, Frames DEF TInv, TypeOK, history
<1>8. OpType' /\ ~Appending'
  BY <1>5 DEF OpType, Appending
<1> QED
  BY <1>2, <1>4, <1>5, <1>6, <1>7, <1>8, Moves

\* frameEnd's answer is a position
LEMMA FrameEndNat ==
    ASSUME TInv, NEW df, NEW next \in FrameEnd(df, commitOff)
    PROVE  next \in Nat
<1>1. CASE next \in {reserved[k].end : k \in EntryAt(commitOff)}
  <2>1. PICK k \in EntryAt(commitOff) : next = reserved[k].end
    BY <1>1
  <2>2. k \in 1 .. Len(reserved) /\ reserved \in Seq(Reservation)
    BY DEF EntryAt, TInv, TypeOK, LedgerType
  <2>3. reserved[k] \in Reservation
    BY <2>2, ElementOfSeq
  <2> QED
    BY <2>1, <2>3, StoreAssumption DEF Reservation, Offsets
<1>2. CASE next = lastFrame.end
  BY <1>2, StoreAssumption DEF TInv, TypeOK, LedgerType, Offsets
<1>3. CASE next = commitOff + rlen[commitOff]
  BY <1>3, StoreAssumption DEF TInv, TypeOK, DiskType, CursorType, Offsets
<1> QED
  BY <1>1, <1>2, <1>3 DEF FrameEnd

\* The step forward of the commit walk: past one record, or past the extent of
\* damage a read already reported
LEMMA WalkAdvanceTypes ==
    ASSUME TInv, WalkAbandoned \/ WalkRecord
    PROVE  TInv'
<1>1. /\ UNCHANGED <<writeOff, headOff, files, nextNum, gone, rlen, rot, nWritten,
                     ledger, loss, ioErr, history>>
      /\ op.pc = "walk" /\ op \in Op
  BY DEF WalkAbandoned, WalkRecord, Walking, TInv, TypeOK, OpType
<1>2. LedgerType' /\ HistoryType'
  BY <1>1, Frames DEF TInv, TypeOK, history
<1>3. CASE op' = [op EXCEPT !.pc = "settle"] /\ UNCHANGED <<commitOff, nCommitted, seg>>
  <2>1. op' \in Op /\ op'.pc = "settle" /\ op'.cur = op.cur
    BY <1>1, <1>3 DEF Op
  <2>2. CursorType' /\ CountType'
    BY <1>1, <1>3, Frames DEF TInv, TypeOK, cursors, counts, history
  <2>3. OpType' /\ ~Appending'
    BY <1>1, <2>1 DEF OpType, Appending, TInv, TypeOK
  <2>4. Walks' /\ op'.cur # 0 => seg[op'.cur].base <= commitOff'
    BY <1>1, <1>3, <2>1 DEF TInv, WalkBase, Walks
  <2>5. Kept(seg, seg') /\ \A j \in Segs : seg'[j].hcur <= seg[j].size
    BY <1>3, KeptSelf
  <2> QED
    BY <1>1, <1>2, <2>2, <2>3, <2>4, <2>5, Moves
<1>4. ASSUME NEW df \in files, NEW n \in Nat, NEW next \in Offsets,
             seg[df].base <= next, commitOff' = next, nCommitted' = nCommitted + n,
             seg' = [seg EXCEPT ![df].committed = @ + n], op' = [op EXCEPT !.cur = df]
      PROVE  TInv'
  <2>1. df \in Segs /\ df \in 0 .. MaxSegs
    BY StoreAssumption DEF TInv, TypeOK, DiskType, Segs
  <2>2. op' \in Op /\ op'.pc = "walk" /\ op'.cur = df
    BY <1>1, <1>4, <2>1 DEF Op
  <2>3. CursorType' /\ CountType'
    BY <1>1, <1>4 DEF TInv, TypeOK, CursorType, CountType, loss, history
  <2>4. OpType' /\ ~Appending'
    BY <1>1, <2>2 DEF OpType, Appending, TInv, TypeOK
  <2>5. seg[df].committed + n \in Nat /\ seg' = WithCommitted(seg, df, seg[df].committed + n)
    BY <1>4, <2>1, SegFacts DEF WithCommitted
  <2>6. Kept(seg, seg') /\ \A j \in Segs : seg'[j].hcur = seg[j].hcur
    BY <2>1, <2>5, CommittedShape DEF TInv, TypeOK, SegType
  <2>7. \A j \in Segs : seg'[j].hcur <= seg[j].size
    BY <2>6, SegFacts
  <2> QED
    BY <1>1, <1>2, <1>4, <2>2, <2>3, <2>4, <2>6, <2>7, Moves
<1>5. CASE WalkAbandoned
  <2>1. PICK df \in files, k \in EntryAt(commitOff) :
          /\ Walking(df)
          /\ \/ op' = [op EXCEPT !.pc = "settle"] /\ UNCHANGED <<commitOff, nCommitted, seg>>
             \/ /\ commitOff' = reserved[k].end
                /\ nCommitted' = nCommitted
                                   + Max2(reserved[k].written - seg[df].committed, 0)
                /\ seg' = [seg EXCEPT ![df].committed =
                                 @ + Max2(reserved[k].written - seg[df].committed, 0)]
                /\ op' = [op EXCEPT !.cur = df]
    BY <1>5 DEF WalkAbandoned
  <2>2. k \in 1 .. Len(reserved) /\ reserved[k].end > commitOff /\ reserved \in Seq(Reservation)
    BY DEF EntryAt, TInv, TypeOK, LedgerType
  <2>3. reserved[k] \in Reservation
    BY <2>2, ElementOfSeq
  <2>4. reserved[k].end \in Offsets /\ reserved[k].written \in Nat
    BY <2>3 DEF Reservation
  <2>5. seg[df].base <= commitOff /\ df \in Segs
    BY <2>1, SegFacts DEF Walking, Holding
  <2>6. seg[df].base <= reserved[k].end
    BY <2>2, <2>4, <2>5, SegFacts, StoreAssumption DEF Offsets
  <2>7. Max2(reserved[k].written - seg[df].committed, 0) \in Nat
    BY <2>4, <2>5, SegFacts DEF Max2
  <2> HIDE DEF Max2
  <2> QED
    BY <1>3, <1>4, <2>1, <2>4, <2>6, <2>7
<1>6. CASE WalkRecord
  <2> DEFINE Advances(df, next) ==
          /\ Walking(df) /\ commitOff < next /\ next <= writeOff
          /\ \/ op' = [op EXCEPT !.pc = "settle"] /\ UNCHANGED <<commitOff, nCommitted, seg>>
             \/ /\ commitOff' = next
                /\ nCommitted' = nCommitted + 1
                /\ seg' = [seg EXCEPT ![df].committed = @ + 1]
                /\ op' = [op EXCEPT !.cur = df]
  <2>1. PICK df \in files : \E next \in FrameEnd(df, commitOff) : Advances(df, next)
    BY <1>6 DEF WalkRecord
  <2> PICK next \in FrameEnd(df, commitOff) : Advances(df, next)
    BY <2>1
  <2>2. next \in Nat
    BY FrameEndNat
  <2>3. seg[df].base <= commitOff /\ df \in Segs
    BY <2>1, SegFacts DEF Walking, Holding
  <2>4. next \in Offsets /\ seg[df].base <= next
    BY <2>1, <2>2, <2>3, SegFacts, StoreAssumption DEF Offsets
  <2> QED
    BY <1>3, <1>4, <2>1, <2>4
<1> QED
  BY <1>5, <1>6

\* A quarantine moves the commit cursor to the segment's end
LEMMA QuarantineTypes ==
    ASSUME TInv, NEW i \in files
    PROVE  /\ Kept(seg, Quarantine(seg, i)) /\ Kept(seg, HeaderFull(seg, i))
           /\ \A j \in Segs : /\ Quarantine(seg, i)[j].hcur <= seg[j].size
                              /\ HeaderFull(seg, i)[j].hcur <= seg[j].size
<1>1. i \in Segs /\ seg \in [Segs -> SegmentRec]
  BY DEF TInv, TypeOK, DiskType, SegType
<1>2. /\ Kept(seg, Quarantine(seg, i)) /\ HeadersKept(seg, Quarantine(seg, i), i)
      /\ Quarantine(seg, i)[i].hcur \in {seg[i].hcur, seg[i].size}
  BY <1>1, QuarantineShape
<1>3. /\ Kept(seg, HeaderFull(seg, i)) /\ HeadersKept(seg, HeaderFull(seg, i), i)
      /\ HeaderFull(seg, i)[i].hcur \in {seg[i].hcur, seg[i].size}
  BY <1>1, HeaderFullShape
<1>4. \A j \in Segs : seg[j].hcur <= seg[j].size /\ seg[j].size <= seg[j].size
  BY SegFacts
<1> QED
  BY <1>1, <1>2, <1>3, <1>4 DEF HeadersKept

LEMMA WalkQuarantineTypes ==
    ASSUME TInv, WalkQuarantine
    PROVE  TInv'
<1>1. /\ UNCHANGED <<writeOff, files, nextNum, gone, rlen, rot, nWritten, ledger,
                     ioErr, authorised, lostSet, reports, refusals, replays>>
      /\ op' = [op EXCEPT !.cur = 0] /\ corruptions' = corruptions + 1
      /\ pendingCorrupt' = pendingCorrupt + 1
  BY DEF WalkQuarantine
<1>2. PICK df \in files :
        /\ op.pc = "walk"
        /\ seg' = Quarantine(seg, df)
        /\ nCommitted' = nCommitted + (seg[df].written - seg[df].committed)
        /\ commitOff' = End(df)
        /\ lostBytes' = lostBytes + Max2(End(df) - headOff, 0)
        /\ headOff' = Max2(headOff, End(df))
        /\ quarantined' = quarantined \union (commitOff .. End(df) - 1)
  BY DEF WalkQuarantine, Quarantine, Walking
<1>3. /\ Kept(seg, seg') /\ \A j \in Segs : seg'[j].hcur <= seg[j].size
  BY <1>2, QuarantineTypes
<1>4. df \in Segs /\ End(df) \in Offsets /\ End(df) \in Nat /\ End(df) <= MaxOff
  BY SegFacts, StoreAssumption DEF Offsets
<1>5. CursorType'
  BY <1>1, <1>2, <1>4 DEF TInv, TypeOK, CursorType, Max2
<1>6. CountType'
  <2>1. nCommitted' \in Int
    BY <1>2, <1>4, SegFacts DEF TInv, TypeOK, CountType
  <2>2. lostBytes' \in Int
    BY <1>2, <1>4, SegFacts DEF TInv, TypeOK, CountType, Max2
  <2> QED
    BY <1>1, <2>1, <2>2 DEF TInv, TypeOK, CountType
<1>7. LedgerType'
  BY <1>1, Frames DEF TInv, TypeOK
<1>8. HistoryType'
  <2>1. commitOff .. End(df) - 1 \subseteq Offsets
    BY <1>4, SegFacts, StoreAssumption DEF Offsets
  <2> QED
    BY <1>1, <1>2, <2>1 DEF TInv, TypeOK, HistoryType
<1>9. OpType' /\ ~Appending' /\ op'.cur = 0
  <2>1. op \in Op /\ 0 \in 0 .. MaxSegs
    BY StoreAssumption DEF TInv, TypeOK, OpType
  <2>2. op' \in Op /\ op'.pc = "walk" /\ op'.cur = 0
    BY <1>1, <1>2, <2>1 DEF Op
  <2> QED
    BY <1>1, <2>2 DEF OpType, Appending, TInv, TypeOK
<1> QED
  BY <1>1, <1>3, <1>5, <1>6, <1>7, <1>8, <1>9, Moves

LEMMA WalkQuarantineFailedTypes ==
    ASSUME TInv, WalkQuarantineFailed
    PROVE  TInv'
<1>1. /\ UNCHANGED <<cursors, files, nextNum, gone, rlen, rot, counts, ledger, loss,
                     authorised, lostSet, reports, refusals, replays>>
      /\ op' = [op EXCEPT !.pc = "settle"]
  BY DEF WalkQuarantineFailed
<1>2. PICK df \in files :
        /\ op.pc = "walk"
        /\ \/ UNCHANGED <<seg, ioErr, quarantined>>
           \/ /\ ioErr' = TRUE
              /\ seg' = HeaderFull(seg, df)
              /\ quarantined' = quarantined \union (commitOff .. End(df) - 1)
  BY DEF WalkQuarantineFailed, Walking
<1>3. /\ Kept(seg, seg') /\ \A j \in Segs : seg'[j].hcur <= seg[j].size
  BY <1>2, QuarantineTypes, KeptSelf
<1>4. CursorType' /\ CountType' /\ LedgerType'
  BY <1>1, Frames DEF TInv, TypeOK
<1>5. HistoryType'
  <2>1. commitOff .. End(df) - 1 \subseteq Offsets
    BY SegFacts, StoreAssumption DEF Offsets
  <2> QED
    BY <1>1, <1>2, <2>1 DEF TInv, TypeOK, HistoryType
<1>6. op' \in Op /\ op'.pc = "settle" /\ op'.cur = op.cur
  BY <1>1 DEF Op, TInv, TypeOK, OpType
<1>7. OpType' /\ ~Appending'
  BY <1>2, <1>6 DEF OpType, Appending, TInv, TypeOK
<1>8. Walks' /\ op'.cur # 0 => seg[op'.cur].base <= commitOff'
  BY <1>1, <1>2, <1>6 DEF TInv, WalkBase, Walks, cursors
<1> QED
  BY <1>1, <1>3, <1>4, <1>5, <1>7, <1>8, Moves DEF cursors

LEMMA SettleTypes ==
    ASSUME TInv, Settle
    PROVE  TInv'
<1>1. /\ UNCHANGED <<writeOff, headOff, files, nextNum, gone, rlen, rot, nWritten,
                     ledger, loss, lostSet, quarantined, reports, refusals, replays>>
      /\ op.pc = "settle" /\ op' = [op EXCEPT !.pc = "settled", !.cur = 0]
      /\ authorised' = authorised \union (Authority \intersect (0 .. commitOff' - 1))
  BY DEF Settle
<1>2. op \in Op
  BY DEF TInv, TypeOK, OpType
<1>3. /\ Kept(seg, seg') /\ \A j \in Segs : seg'[j].hcur <= seg[j].size
      /\ commitOff' \in Offsets /\ nCommitted' \in Int
  <2>1. CASE UNCHANGED <<seg, commitOff, nCommitted>>
    BY <2>1, KeptSelf DEF TInv, TypeOK, CursorType, CountType
  <2>2. CASE op.cur # 0 /\ (Persisted(op.cur) \/ RolledBack(op.cur))
    <3>1. op.cur \in Segs
      BY <1>2, <2>2, StoreAssumption DEF Op, Segs
    <3>2. seg[op.cur].base <= commitOff
      BY <1>1, <2>2 DEF TInv, WalkBase, Walks
    <3> QED
      BY <2>2, <3>1, <3>2, HeaderTypes
  <2> QED
    BY <2>1, <2>2 DEF Settle
<1>4. CursorType' /\ CountType'
  BY <1>1, <1>3 DEF TInv, TypeOK, CursorType, CountType, loss
<1>5. LedgerType'
  BY <1>1, Frames DEF TInv, TypeOK
<1>6. HistoryType'
  <2>1. 0 .. commitOff' - 1 \subseteq Offsets
    <3>1. commitOff' \in Offsets
      BY <1>3
    <3>2. \A c \in Offsets : 0 .. c - 1 \subseteq Offsets
      BY StoreAssumption DEF Offsets
    <3> QED
      BY <3>1, <3>2
  <2> QED
    BY <1>1, <2>1 DEF TInv, TypeOK, HistoryType
<1>7. op' \in Op /\ op'.pc = "settled"
  <2>1. 0 \in 0 .. MaxSegs
    BY StoreAssumption
  <2> QED
    BY <1>1, <1>2, <2>1 DEF Op
<1>8. ioErr' \in BOOLEAN
  BY DEF Settle, RolledBack, TInv, TypeOK, OpType
<1>9. OpType' /\ ~Appending' /\ ~Walks'
  BY <1>7, <1>8 DEF OpType, Appending, Walks
<1> QED
  BY <1>1, <1>3, <1>4, <1>5, <1>6, <1>9, Moves

LEMMA CommitEndsTypes ==
    ASSUME TInv, CommitEnds
    PROVE  TInv'
<1>1. UNCHANGED <<writeOff, commitOff, disk, counts, lastFrame, loss, history>>
  BY DEF CommitEnds
<1>2. CountType' /\ HistoryType'
  BY <1>1, Frames DEF TInv, TypeOK, history
<1>3. CASE FinishCommit /\ UNCHANGED <<headOff, ioErr>>
  <2>1. reserved' \in Seq(Reservation) /\ op' \in Op /\ op'.pc = "idle"
    BY <1>3, FinishCommitTypes DEF TInv, TypeOK
  <2>2. CursorType' /\ LedgerType' /\ OpType' /\ ~Appending' /\ ~Walks'
    BY <1>1, <1>3, <2>1
       DEF TInv, TypeOK, CursorType, LedgerType, OpType, Appending, Walks
  <2> QED
    BY <1>1, <1>2, <2>2, Quiet
<1>4. CASE /\ headOff' = Max2(headOff, commitOff)
           /\ op' = [op EXCEPT !.pc = "commitDrop", !.i = 0]
           /\ ioErr' = ioErr \/ ioErr' = TRUE
           /\ UNCHANGED reserved
  <2>1. op' \in Op /\ op'.pc = "commitDrop"
    BY <1>4 DEF TInv, TypeOK, OpType, Op
  <2>2. CursorType'
    BY <1>1, <1>4 DEF TInv, TypeOK, CursorType, Max2
  <2>3. LedgerType' /\ OpType' /\ ~Appending' /\ ~Walks'
    BY <1>1, <1>4, <2>1 DEF TInv, TypeOK, LedgerType, OpType, Appending, Walks
  <2> QED
    BY <1>1, <1>2, <2>2, <2>3, Quiet
<1> QED
  BY <1>3, <1>4 DEF CommitEnds

LEMMA PayReportTypes ==
    ASSUME TInv, PayReport
    PROVE  TInv'
<1>1. /\ UNCHANGED <<cursors, disk, counts, ledger, corruptions, lostBytes, ioErr, op,
                     authorised, lostSet, quarantined, replays>>
      /\ op.pc = "idle"
  BY DEF PayReport
<1>2. CountType'
  BY DEF PayReport, TInv, TypeOK, CountType, counts
<1>3. CursorType' /\ LedgerType' /\ HistoryType' /\ OpType' /\ ~Appending' /\ ~Walks'
  BY <1>1, Frames DEF TInv, TypeOK, Appending, Walks
<1> QED
  BY <1>1, <1>2, <1>3, Quiet DEF cursors

\* The read cursor moves by the length of a record, which lies below the write
\* cursor
LEMMA HeadFacts ==
    ASSUME TInv, headOff < writeOff
    PROVE  /\ HeadNext \in Offsets /\ headOff \in Offsets
           /\ headOff .. HeadNext - 1 \subseteq Offsets
           /\ rlen[headOff] \in 0 .. MaxLen /\ HeadNext = headOff + rlen[headOff]
<1>1. headOff \in Offsets /\ rlen[headOff] \in 0 .. MaxLen
  BY DEF TInv, TypeOK, CursorType, DiskType
<1>2. headOff + rlen[headOff] <= writeOff
  BY <1>1, SegFacts DEF TInv, RecExtents
<1> QED
  BY <1>1, <1>2, SegFacts, StoreAssumption DEF HeadNext, Offsets

LEMMA TakeHeadTypes ==
    ASSUME TInv, NEW df, TakeHead(df)
    PROVE  /\ headOff < writeOff /\ CursorType' /\ CountType'
           /\ lastFrame' \in [at : Offsets, end : Offsets]
           /\ UNCHANGED <<writeOff, disk, ioErr, lostSet, quarantined>>
<1>1. /\ headOff < writeOff /\ headOff' = HeadNext
      /\ lastFrame' = [at |-> headOff, end |-> HeadNext]
      /\ UNCHANGED <<writeOff, commitOff, disk, counts, loss, ioErr, lostSet,
                     quarantined, reports, refusals, replays>>
  BY DEF TakeHead, Readable, Reading
<1>2. HeadNext \in Offsets /\ headOff \in Offsets
  BY <1>1, HeadFacts
<1>3. CursorType'
  BY <1>1, <1>2 DEF TInv, TypeOK, CursorType
<1>4. CountType'
  BY <1>1, Frames DEF TInv, TypeOK
<1> QED
  BY <1>1, <1>2, <1>3, <1>4

LEMMA ReserveTypes ==
    ASSUME TInv, Reserve
    PROVE  TInv'
<1>1. PICK df \in files :
        /\ TakeHead(df)
        /\ \E k \in Passed(reserved, commitOff) :
              reserved' = Append(From(reserved, k), Held(headOff, HeadNext))
        /\ UNCHANGED <<op, authorised>>
  BY DEF Reserve
<1>2. /\ headOff < writeOff /\ CursorType' /\ CountType'
      /\ lastFrame' \in [at : Offsets, end : Offsets]
      /\ UNCHANGED <<writeOff, disk, ioErr, lostSet, quarantined>>
  BY <1>1, TakeHeadTypes
<1>3. Held(headOff, HeadNext) \in Reservation
  BY <1>2, HeadFacts DEF Held, Reservation
<1>4. LedgerType'
  BY <1>1, <1>2, <1>3, AppendLedger DEF TInv, TypeOK, LedgerType
<1>5. HistoryType' /\ OpType'
  BY <1>1, <1>2, Frames DEF TInv, TypeOK
<1>6. ~Appending' /\ ~Walks'
  BY <1>1 DEF TakeHead, Readable, Reading, Appending, Walks
<1> QED
  BY <1>2, <1>4, <1>5, <1>6, Quiet

LEMMA TakeTypes ==
    ASSUME TInv, Take
    PROVE  TInv'
<1>1. PICK df \in files :
        /\ TakeHead(df)
        /\ IF ioErr THEN op' = Idle ELSE StartWalk(HeadNext, TRUE, FALSE)
        /\ UNCHANGED <<reserved, authorised>>
  BY DEF Take
<1>2. /\ headOff < writeOff /\ CursorType' /\ CountType'
      /\ lastFrame' \in [at : Offsets, end : Offsets]
      /\ UNCHANGED <<writeOff, disk, ioErr, lostSet, quarantined>>
  BY <1>1, TakeHeadTypes
<1>3. op' \in Op /\ op'.pc \in {"idle", "walk"} /\ op'.cur = 0
  <2>1. CASE op' = Idle
    BY <2>1, IdleType DEF Idle
  <2>2. CASE StartWalk(HeadNext, TRUE, FALSE)
    <3>1. HeadNext \in Nat
      BY <1>2, HeadFacts, StoreAssumption DEF Offsets
    <3>2. op' \in Op
      BY <2>2, <3>1, StartWalkType DEF TInv, TypeOK
    <3> QED
      BY <2>2, <3>2 DEF StartWalk, Idle
  <2> QED
    BY <1>1, <2>1, <2>2
<1>4. LedgerType' /\ HistoryType'
  BY <1>1, <1>2 DEF TInv, TypeOK, LedgerType, HistoryType
<1>5. OpType' /\ ~Appending'
  BY <1>2, <1>3 DEF TInv, TypeOK, OpType, Appending
<1> QED
  BY <1>2, <1>3, <1>4, <1>5, Quiet

LEMMA SkipTypes ==
    ASSUME TInv, Skip
    PROVE  TInv'
<1>1. PICK df \in files :
        /\ TakeHead(df)
        /\ RetireFrame(headOff, HeadNext, TRUE)
        /\ authorised' = authorised \union (headOff .. HeadNext - 1)
  BY DEF Skip
<1>2. /\ headOff < writeOff /\ CursorType' /\ CountType'
      /\ lastFrame' \in [at : Offsets, end : Offsets]
      /\ UNCHANGED <<writeOff, disk, ioErr, lostSet, quarantined>>
  BY <1>1, TakeHeadTypes
<1>3. HeadNext \in Offsets /\ headOff \in Offsets /\ headOff .. HeadNext - 1 \subseteq Offsets
  BY <1>2, HeadFacts
<1>4. reserved' \in Seq(Reservation) /\ op' \in Op /\ op'.pc \in {"idle", "run"}
  BY <1>1, <1>3, RetireFrameTypes DEF TInv, TypeOK
<1>5. LedgerType' /\ HistoryType'
  BY <1>1, <1>2, <1>3, <1>4 DEF TInv, TypeOK, LedgerType, HistoryType
<1>6. OpType' /\ ~Appending' /\ ~Walks'
  BY <1>2, <1>4 DEF TInv, TypeOK, OpType, Appending, Walks
<1> QED
  BY <1>2, <1>5, <1>6, Quiet

LEMMA RequeueTypes ==
    ASSUME TInv, Requeue
    PROVE  TInv'
<1>1. PICK df \in files :
        /\ TakeHead(df)
        /\ StartAppend("requeue", rlen[headOff], headOff)
        /\ UNCHANGED <<reserved, authorised>>
  BY DEF Requeue
<1>2. /\ headOff < writeOff /\ CursorType' /\ CountType'
      /\ lastFrame' \in [at : Offsets, end : Offsets]
      /\ UNCHANGED <<writeOff, disk, ioErr, lostSet, quarantined>>
  BY <1>1, TakeHeadTypes
<1>3. /\ headOff \in Offsets /\ rlen[headOff] \in 0 .. MaxLen
      /\ headOff + rlen[headOff] \in Offsets
  BY <1>2, HeadFacts
<1>4. /\ op' \in Op /\ op'.pc \in {"cycleDrop", "write"}
      /\ op'.len = rlen[headOff] /\ op'.start = headOff
      /\ writeOff + rlen[headOff] <= MaxOff /\ (op'.pc # "write" => nextNum <= MaxSegs)
  <2>1. rlen[headOff] \in Nat
    BY <1>3, StoreAssumption
  <2> QED
    BY <1>1, <1>3, <2>1, StartAppendType
<1>5. LedgerType' /\ HistoryType'
  BY <1>1, <1>2 DEF TInv, TypeOK, LedgerType, HistoryType
<1>6. OpType'
  BY <1>2, <1>4 DEF TInv, TypeOK, OpType
<1>7. DiskType' /\ SegType' /\ SegExtents' /\ RecExtents'
  BY <1>2, Frames DEF TInv, TypeOK, disk
<1>8. AppendFits'
  BY <1>2, <1>3, <1>4, StoreAssumption DEF AppendFits, disk, Offsets
<1>9. WalkBase'
  BY <1>4 DEF WalkBase, Walks
<1> QED
  BY <1>2, <1>5, <1>6, <1>7, <1>8, <1>9 DEF TInv, TypeOK

LEMMA UnreadTypes ==
    ASSUME TInv, Unread
    PROVE  TInv'
<1>1. /\ headOff < writeOff /\ op.pc = "idle"
      /\ lastFrame' = [at |-> headOff, end |-> HeadNext]
      /\ UNCHANGED <<cursors, disk, counts, reserved, loss, ioErr, op, history>>
  BY DEF Unread, Readable, Reading
<1>2. HeadNext \in Offsets /\ headOff \in Offsets
  BY <1>1, HeadFacts
<1>3. LedgerType'
  BY <1>1, <1>2 DEF TInv, TypeOK, LedgerType
<1>4. CursorType' /\ CountType' /\ HistoryType' /\ OpType' /\ ~Appending' /\ ~Walks'
  BY <1>1, Frames DEF TInv, TypeOK, Appending, Walks, history
<1> QED
  BY <1>1, <1>3, <1>4, Quiet DEF cursors

LEMMA DropRecordTypes ==
    ASSUME TInv, DropRecord
    PROVE  TInv'
<1>1. /\ headOff < writeOff
      /\ lostBytes' = lostBytes + rlen[headOff] /\ corruptions' = corruptions + 1
      /\ reports' = reports + 1 /\ headOff' = HeadNext
      /\ lostSet' = lostSet \union (headOff .. HeadNext - 1)
      /\ RetireFrame(headOff, HeadNext, FALSE)
      /\ UNCHANGED <<writeOff, commitOff, disk, counts, lastFrame, pendingCorrupt,
                     ioErr, authorised, quarantined, refusals, replays>>
  BY DEF DropRecord, Readable, Reading
<1>2. /\ HeadNext \in Offsets /\ headOff \in Offsets
      /\ headOff .. HeadNext - 1 \subseteq Offsets /\ rlen[headOff] \in 0 .. MaxLen
  BY <1>1, HeadFacts
<1>3. reserved' \in Seq(Reservation) /\ op' \in Op /\ op'.pc \in {"idle", "run"}
  BY <1>1, <1>2, RetireFrameTypes DEF TInv, TypeOK
<1>4. CursorType' /\ LedgerType' /\ HistoryType'
  BY <1>1, <1>2, <1>3 DEF TInv, TypeOK, CursorType, LedgerType, HistoryType
<1>5. CountType'
  BY <1>1, <1>2 DEF TInv, TypeOK, CountType, counts
<1>6. OpType' /\ ~Appending' /\ ~Walks'
  BY <1>1, <1>3 DEF TInv, TypeOK, OpType, Appending, Walks
<1> QED
  BY <1>1, <1>4, <1>5, <1>6, Quiet

LEMMA QuarantineHeadTypes ==
    ASSUME TInv, QuarantineHead
    PROVE  TInv'
<1>1. PICK df \in files :
        /\ op.pc = "idle"
        /\ seg' = Quarantine(seg, df)
        /\ nCommitted' = nCommitted + (seg[df].written - seg[df].committed)
        /\ commitOff' = End(df) /\ headOff' = End(df)
        /\ lostBytes' = lostBytes + (End(df) - headOff)
        /\ corruptions' = corruptions + 1
        /\ reports' = reports + 1
        /\ lostSet' = lostSet \union (headOff .. End(df) - 1)
        /\ quarantined' = quarantined \union (headOff .. End(df) - 1)
        /\ UNCHANGED <<writeOff, files, nextNum, gone, rlen, rot, nWritten, ledger,
                       pendingCorrupt, ioErr, op, authorised, refusals, replays>>
  BY DEF QuarantineHead, Quarantine, Unreadable, Reading
<1>2. Kept(seg, seg') /\ \A j \in Segs : seg'[j].hcur <= seg[j].size
  BY <1>1, QuarantineTypes
<1>3. df \in Segs /\ End(df) \in Offsets /\ End(df) \in Nat /\ End(df) <= MaxOff
  BY SegFacts, StoreAssumption DEF Offsets
<1>4. CursorType'
  BY <1>1, <1>3 DEF TInv, TypeOK, CursorType
<1>5. CountType'
  <2>1. nCommitted' \in Int /\ lostBytes' \in Int
    BY <1>1, <1>3, SegFacts DEF TInv, TypeOK, CountType
  <2> QED
    BY <1>1, <2>1 DEF TInv, TypeOK, CountType
<1>6. HistoryType'
  <2>1. headOff .. End(df) - 1 \subseteq Offsets
    BY <1>3, SegFacts, StoreAssumption DEF Offsets
  <2> QED
    BY <1>1, <2>1 DEF TInv, TypeOK, HistoryType
<1>7. LedgerType' /\ OpType' /\ ~Appending' /\ ~Walks'
  BY <1>1, Frames DEF TInv, TypeOK, Appending, Walks
<1> QED
  BY <1>1, <1>2, <1>4, <1>5, <1>6, <1>7, Moves

LEMMA QuarantineLatchedTypes ==
    ASSUME TInv, QuarantineLatched
    PROVE  TInv'
<1>1. PICK df \in files :
        /\ op.pc = "idle" /\ seg' = HeaderFull(seg, df) /\ ioErr' = TRUE
        /\ quarantined' = quarantined \union (headOff .. End(df) - 1)
        /\ UNCHANGED <<cursors, files, nextNum, gone, rlen, rot, counts, ledger, loss,
                       op, authorised, lostSet, reports, refusals, replays>>
  BY DEF QuarantineLatched, Unreadable, Reading
<1>2. Kept(seg, seg') /\ \A j \in Segs : seg'[j].hcur <= seg[j].size
  BY <1>1, QuarantineTypes
<1>3. headOff .. End(df) - 1 \subseteq Offsets
  BY SegFacts, StoreAssumption DEF Offsets
<1>4. HistoryType'
  BY <1>1, <1>3 DEF TInv, TypeOK, HistoryType
<1>5. CursorType' /\ CountType' /\ LedgerType'
  BY <1>1, Frames DEF TInv, TypeOK
<1>6. OpType' /\ ~Appending' /\ ~Walks'
  BY <1>1 DEF TInv, TypeOK, OpType, Appending, Walks
<1> QED
  BY <1>1, <1>2, <1>4, <1>5, <1>6, Moves DEF cursors

LEMMA DeferDamageTypes ==
    ASSUME TInv, DeferDamage
    PROVE  TInv'
<1>1. PICK df \in files :
        /\ op.pc = "idle"
        /\ lostBytes' = lostBytes + (End(df) - headOff)
        /\ headOff' = End(df)
        /\ corruptions' = corruptions + 1
        /\ reports' = reports + 1
        /\ lostSet' = lostSet \union (headOff .. End(df) - 1)
        /\ \E k \in Passed(reserved, commitOff) :
              reserved' = Append(From(reserved, k),
                                 Abandoned(headOff, End(df), seg[df].written))
        /\ UNCHANGED <<writeOff, commitOff, disk, counts, lastFrame, pendingCorrupt,
                       ioErr, op, authorised, quarantined, refusals, replays>>
  BY DEF DeferDamage, Unreadable, Reading
<1>2. /\ df \in Segs /\ End(df) \in Offsets /\ End(df) \in Nat
      /\ headOff .. End(df) - 1 \subseteq Offsets /\ seg[df].written \in Nat
  BY SegFacts, StoreAssumption DEF Offsets
<1>3. CursorType' /\ HistoryType'
  BY <1>1, <1>2 DEF TInv, TypeOK, CursorType, HistoryType
<1>4. CountType'
  <2>1. lostBytes' \in Int
    BY <1>1, <1>2, SegFacts DEF TInv, TypeOK, CountType
  <2> QED
    BY <1>1, <2>1 DEF TInv, TypeOK, CountType, counts
<1>5. LedgerType'
  <2>1. Abandoned(headOff, End(df), seg[df].written) \in Reservation
    BY <1>2 DEF Abandoned, Reservation, TInv, TypeOK, CursorType
  <2> QED
    BY <1>1, <2>1, AppendLedger DEF TInv, TypeOK, LedgerType
<1>6. OpType' /\ ~Appending' /\ ~Walks'
  BY <1>1, Frames DEF TInv, TypeOK, Appending, Walks
<1> QED
  BY <1>1, <1>3, <1>4, <1>5, <1>6, Quiet

LEMMA ForceTypes ==
    ASSUME TInv, StartForce \/ ForceFailed \/ ForceDone
    PROVE  TInv'
<1>1. op' \in Op /\ op'.pc \in {"idle", "force"} /\ ioErr' \in BOOLEAN
  <2>1. /\ op' = Idle \/ op' = [Idle EXCEPT !.pc = "force", !.start = headOff]
        /\ ioErr' \in BOOLEAN
    BY DEF StartForce, ForceFailed, ForceDone, TInv, TypeOK, OpType
  <2>2. headOff \in Offsets
    BY DEF TInv, TypeOK, CursorType
  <2> QED
    BY <2>1, <2>2, IdleType DEF Op, Idle
<1>2. OpType' /\ ~Appending' /\ ~Walks'
  BY <1>1 DEF TInv, TypeOK, OpType, Appending, Walks
<1>3. CASE StartForce \/ ForceFailed
  <2>1. UNCHANGED <<cursors, disk, counts, ledger, loss, authorised, lostSet,
                    quarantined, replays>>
    BY <1>3 DEF StartForce, ForceFailed, history
  <2>2. reports' \in Nat /\ refusals' \in Nat
    BY <1>3 DEF StartForce, ForceFailed, CutShort, TInv, TypeOK, CountType, history
  <2>3. CountType'
    BY <2>1, <2>2 DEF TInv, TypeOK, CountType, counts, loss
  <2>4. CursorType' /\ LedgerType' /\ HistoryType'
    BY <2>1, Frames DEF TInv, TypeOK
  <2> QED
    BY <1>2, <2>1, <2>3, <2>4, Quiet DEF cursors
<1>4. CASE ForceDone
  <2>1. /\ UNCHANGED <<writeOff, disk, nWritten, ledger, pendingCorrupt, ioErr,
                       authorised, quarantined, refusals, replays>>
        /\ headOff' = writeOff /\ commitOff' = writeOff
        /\ lostSet' = lostSet \union (commitOff .. writeOff - 1)
    BY <1>4 DEF ForceDone
  <2>2. commitOff .. writeOff - 1 \subseteq Offsets
    BY SegFacts, StoreAssumption DEF Offsets
  <2>3. CursorType' /\ HistoryType'
    BY <2>1, <2>2 DEF TInv, TypeOK, CursorType, HistoryType
  <2>4. CountType'
    <3>1. op.start \in Int
      BY StoreAssumption DEF TInv, TypeOK, OpType, Op, Offsets
    <3> QED
      BY <1>4, <3>1, SegFacts DEF ForceDone, TInv, TypeOK, CountType
  <2>5. LedgerType'
    BY <2>1, Frames DEF TInv, TypeOK
  <2> QED
    BY <1>2, <2>1, <2>3, <2>4, <2>5, Quiet
<1> QED
  BY <1>3, <1>4

LEMMA ForceLatchedTypes ==
    ASSUME TInv, ForceLatched
    PROVE  TInv'
<1>1. PICK i \in files :
        /\ seg' = HeaderFull(seg, i)
        /\ quarantined' = quarantined \union (seg[i].base .. End(i) - 1)
  BY DEF ForceLatched
<1>2. /\ ioErr' = TRUE /\ op' = Idle
      /\ UNCHANGED <<cursors, files, nextNum, gone, rlen, rot, counts, ledger, loss,
                     authorised, lostSet, replays>>
  BY DEF ForceLatched
<1>3. Kept(seg, seg') /\ \A j \in Segs : seg'[j].hcur <= seg[j].size
  BY <1>1, QuarantineTypes
<1>4. seg[i].base .. End(i) - 1 \subseteq Offsets
  BY SegFacts, StoreAssumption DEF Offsets
<1>5. HistoryType'
  BY <1>1, <1>2, <1>4 DEF TInv, TypeOK, HistoryType
<1>6. CursorType' /\ CountType' /\ LedgerType'
  <2>1. reports' \in Nat /\ refusals' \in Nat
    BY DEF ForceLatched, CutShort, TInv, TypeOK, CountType
  <2>2. CountType'
    BY <1>2, <2>1 DEF TInv, TypeOK, CountType, counts, loss
  <2> QED
    BY <1>2, <2>2, Frames DEF TInv, TypeOK
<1>7. OpType' /\ ~Appending' /\ ~Walks'
  BY <1>2, IdleType DEF OpType, Idle, Appending, Walks
<1> QED
  BY <1>2, <1>3, <1>5, <1>6, <1>7, Moves DEF cursors

LEMMA ForceStepTypes ==
    ASSUME TInv, ForceStep
    PROVE  TInv'
<1>1. PICK i \in files :
        /\ op.pc = "force" /\ op' = [op EXCEPT !.i = i]
        /\ \/ UNCHANGED <<seg, nCommitted, commitOff, headOff, quarantined>>
           \/ /\ seg' = Quarantine(seg, i)
              /\ nCommitted' = nCommitted + (seg[i].written - seg[i].committed)
              /\ commitOff' = Max2(commitOff, End(i))
              /\ headOff' = Max2(headOff, commitOff')
              /\ quarantined' = quarantined \union (seg[i].base .. End(i) - 1)
  BY DEF ForceStep, Quarantine
<1>2. UNCHANGED <<writeOff, files, nextNum, gone, rlen, rot, nWritten, ledger, loss,
                  ioErr, authorised, lostSet, reports, refusals, replays>>
  BY DEF ForceStep
<1>3. i \in Segs /\ i \in Nat /\ End(i) \in Offsets
  BY SegFacts, StoreAssumption DEF Segs
<1>4. Kept(seg, seg') /\ \A j \in Segs : seg'[j].hcur <= seg[j].size
  BY <1>1, QuarantineTypes, KeptSelf
<1>5. CursorType'
  BY <1>1, <1>2, <1>3 DEF TInv, TypeOK, CursorType, Max2
<1>6. CountType'
  <2>1. nCommitted' \in Int
    BY <1>1, <1>3, SegFacts DEF TInv, TypeOK, CountType
  <2> QED
    BY <1>2, <2>1 DEF TInv, TypeOK, CountType, loss
<1>7. op' \in Op /\ op'.pc = "force"
  BY <1>1, <1>3 DEF TInv, TypeOK, OpType, Op
<1>8. OpType' /\ ~Appending' /\ ~Walks'
  BY <1>2, <1>7 DEF TInv, TypeOK, OpType, Appending, Walks
<1>9. LedgerType'
  BY <1>2, Frames DEF TInv, TypeOK
<1>10. HistoryType'
  <2>1. seg[i].base .. End(i) - 1 \subseteq Offsets
    BY SegFacts, StoreAssumption DEF Offsets
  <2> QED
    BY <1>1, <1>2, <2>1 DEF TInv, TypeOK, HistoryType
<1> QED
  BY <1>2, <1>4, <1>5, <1>6, <1>8, <1>9, <1>10, Moves

\* What an acknowledgement authorises are extents of ledger entries
LEMMA ExtentType ==
    ASSUME TInv, NEW k \in Passed(reserved, commitOff),
           NEW hit \in SUBSET (1 .. Len(From(reserved, k)))
    PROVE  UNION {Extent(From(reserved, k)[j]) : j \in hit} \subseteq Offsets
<1>1. From(reserved, k) \in Seq(Reservation)
  BY FromLedger DEF TInv, TypeOK
<1>2. \A j \in hit : From(reserved, k)[j] \in Reservation
  BY <1>1, ElementOfSeq
<1>3. \A e \in Reservation : Extent(e) \subseteq Offsets
  BY StoreAssumption DEF Extent, Reservation, Offsets
<1> QED
  BY <1>2, <1>3

LEMMA AckTypes ==
    ASSUME TInv, NEW off, Ack(off)
    PROVE  TInv'
<1>1. PICK k \in Passed(reserved, commitOff) :
        \/ reserved' = From(reserved, k) /\ UNCHANGED <<op, authorised>>
        \/ /\ reserved' = Marked(From(reserved, k), {off})
           /\ \E hit \in SUBSET (1 .. Len(From(reserved, k))) :
                 authorised' = authorised
                                 \union UNION {Extent(From(reserved, k)[j]) : j \in hit}
           /\ StartRun(TRUE)
  <2>1. PICK k \in Passed(reserved, commitOff) :
          LET r == From(reserved, k)
              hit == {j \in 1 .. Len(r) : r[j].end = off}
          IN  IF off <= commitOff \/ hit = {}
              THEN reserved' = r /\ UNCHANGED <<op, authorised>>
              ELSE /\ reserved' = Marked(r, {off})
                   /\ authorised' = authorised \union UNION {Extent(r[j]) : j \in hit}
                   /\ StartRun(TRUE)
    BY DEF Ack
  <2> QED
    BY <2>1
<1>2. /\ UNCHANGED <<cursors, disk, counts, lastFrame, loss, ioErr, lostSet,
                     quarantined, reports, refusals, replays>>
      /\ op.pc = "idle"
  BY DEF Ack
<1>3. CursorType' /\ CountType'
  BY <1>2, Frames DEF TInv, TypeOK
<1>4. From(reserved, k) \in Seq(Reservation)
  BY FromLedger DEF TInv, TypeOK
<1>5. LedgerType'
  <2>1. Marked(From(reserved, k), {off}) \in Seq(Reservation)
    BY <1>4, MarkedType
  <2> QED
    BY <1>1, <1>2, <1>4, <2>1 DEF TInv, TypeOK, LedgerType
<1>6. HistoryType'
  BY <1>1, <1>2, ExtentType DEF TInv, TypeOK, HistoryType
<1>7. op' \in Op /\ op'.pc \in {"idle", "run"}
  <2>1. CASE UNCHANGED op
    BY <1>2, <2>1 DEF TInv, TypeOK, OpType
  <2>2. CASE StartRun(TRUE)
    <3>1. op' \in Op
      BY <2>2, StartRunType DEF TInv, TypeOK
    <3> QED
      BY <2>2, <3>1 DEF StartRun, Idle
  <2> QED
    BY <1>1, <2>1, <2>2
<1>8. OpType' /\ ~Appending' /\ ~Walks'
  BY <1>2, <1>7 DEF TInv, TypeOK, OpType, Appending, Walks
<1> QED
  BY <1>2, <1>3, <1>5, <1>6, <1>8, Quiet DEF cursors

LEMMA AckBatchTypes ==
    ASSUME TInv, NEW offs, AckBatch(offs)
    PROVE  TInv'
<1>1. PICK k \in Passed(reserved, commitOff) :
        /\ \E ends : reserved' = Marked(From(reserved, k), ends)
        /\ \E hit \in SUBSET (1 .. Len(From(reserved, k))) :
              authorised' = authorised
                              \union UNION {Extent(From(reserved, k)[j]) : j \in hit}
  <2>1. PICK k \in Passed(reserved, commitOff) :
          LET r == From(reserved, k)
              ends == {o \in offs : commitOff < o /\ o <= headOff}
              hit == {j \in 1 .. Len(r) : r[j].end \in ends}
          IN  /\ reserved' = Marked(r, ends)
              /\ authorised' = authorised \union UNION {Extent(r[j]) : j \in hit}
    BY DEF AckBatch
  <2>2. \E hit \in SUBSET (1 .. Len(From(reserved, k))) :
              authorised' = authorised
                              \union UNION {Extent(From(reserved, k)[j]) : j \in hit}
    BY <2>1
  <2> QED
    BY <2>1, <2>2
<1>2. /\ UNCHANGED <<cursors, disk, counts, lastFrame, loss, ioErr, lostSet,
                     quarantined, reports, refusals, replays>>
      /\ StartRun(TRUE)
  BY DEF AckBatch
<1>3. CursorType' /\ CountType'
  BY <1>2, Frames DEF TInv, TypeOK
<1>4. From(reserved, k) \in Seq(Reservation)
  BY FromLedger DEF TInv, TypeOK
<1>5. LedgerType'
  <2>1. PICK ends : reserved' = Marked(From(reserved, k), ends)
    BY <1>1
  <2>2. Marked(From(reserved, k), ends) \in Seq(Reservation)
    BY <1>4, MarkedType
  <2> QED
    BY <1>2, <2>1, <2>2 DEF TInv, TypeOK, LedgerType
<1>6. HistoryType'
  BY <1>1, <1>2, ExtentType DEF TInv, TypeOK, HistoryType
<1>7. op' \in Op /\ op'.pc \in {"idle", "run"}
  <2>1. op' \in Op
    BY <1>2, StartRunType DEF TInv, TypeOK
  <2> QED
    BY <1>2, <2>1 DEF StartRun, Idle
<1>8. OpType' /\ ~Appending' /\ ~Walks'
  BY <1>2, <1>7 DEF TInv, TypeOK, OpType, Appending, Walks
<1> QED
  BY <1>2, <1>3, <1>5, <1>6, <1>8, Quiet DEF cursors

LEMMA CommitTypes ==
    ASSUME TInv, NEW off \in Offsets, Commit(off)
    PROVE  TInv'
<1>1. /\ UNCHANGED <<cursors, disk, counts, ledger, loss, ioErr, history>>
      /\ StartWalk(off, TRUE, FALSE)
  BY DEF Commit
<1>2. CursorType' /\ CountType' /\ LedgerType' /\ HistoryType'
  BY <1>1, Frames DEF TInv, TypeOK, history
<1>3. off \in Nat
  BY StoreAssumption DEF Offsets
<1>4. op' \in Op
  BY <1>1, <1>3, StartWalkType DEF TInv, TypeOK
<1>5. op'.pc = "walk" /\ op'.cur = 0
  BY <1>1 DEF StartWalk, Idle
<1>6. OpType' /\ ~Appending'
  BY <1>1, <1>4, <1>5 DEF TInv, TypeOK, OpType, Appending
<1> QED
  BY <1>1, <1>2, <1>5, <1>6, Quiet DEF cursors

LEMMA RewindTypes ==
    ASSUME TInv, Rewind
    PROVE  TInv'
<1>1. /\ op.pc = "idle" /\ replays < MaxReplays
      /\ headOff' = commitOff /\ reserved' = <<>> /\ replays' = replays + 1
      /\ authorised' = authorised \intersect (0 .. commitOff - 1)
      /\ UNCHANGED <<writeOff, commitOff, disk, counts, lastFrame, loss, ioErr, op,
                     lostSet, quarantined, reports, refusals>>
  BY DEF Rewind
<1>2. CursorType' /\ HistoryType'
  BY <1>1 DEF TInv, TypeOK, CursorType, HistoryType
<1>3. CountType'
  BY <1>1, StoreAssumption DEF TInv, TypeOK, CountType, counts, loss
<1>4. LedgerType' /\ OpType' /\ ~Appending' /\ ~Walks'
  BY <1>1 DEF TInv, TypeOK, LedgerType, OpType, Appending, Walks
<1> QED
  BY <1>1, <1>2, <1>3, <1>4, Quiet

LEMMA CrashTypes ==
    ASSUME TInv, Crash
    PROVE  TInv'
<1>1. PICK c \in Offsets :
        /\ replays < MaxReplays
        /\ commitOff' = c /\ headOff' = c
        /\ authorised' = Authority \intersect (0 .. c - 1)
        /\ nWritten' = 0 /\ nCommitted' = 0
        /\ reserved' = <<>> /\ lastFrame' = NoFrame
        /\ pendingCorrupt' = 0 /\ corruptions' = 0 /\ lostBytes' = 0
        /\ reports' = 0 /\ refusals' = 0
        /\ ioErr' = FALSE /\ gone' = {}
        /\ op' = [Idle EXCEPT !.pc = "load", !.i = MaxSegs + 1]
        /\ replays' = replays + 1
        /\ UNCHANGED <<writeOff, files, nextNum, seg, rlen, rot, lostSet, quarantined>>
  BY DEF Crash, Recovered
<1>2. CursorType'
  BY <1>1 DEF TInv, TypeOK, CursorType
<1>3. DiskType'
  BY <1>1 DEF TInv, TypeOK, DiskType
<1>4. SegType' /\ SegExtents' /\ RecExtents'
  BY <1>1, Frames DEF TInv, TypeOK
<1>5. CountType'
  <2>1. replays \in 0 .. MaxReplays /\ MaxReplays \in Nat
    BY StoreAssumption DEF StoreAssumption, TInv, TypeOK, CountType
  <2>2. replays' \in 0 .. MaxReplays
    BY <1>1, <2>1
  <2> QED
    BY <1>1, <2>2 DEF CountType
<1>6. LedgerType'
  BY <1>1, StoreAssumption DEF LedgerType, NoFrame, Offsets
<1>7. HistoryType'
  <2>1. 0 .. c - 1 \subseteq Offsets
    BY StoreAssumption DEF Offsets
  <2> QED
    BY <1>1, <2>1 DEF TInv, TypeOK, HistoryType
<1>8. op' \in Op /\ op'.pc = "load"
  <2>1. MaxSegs + 1 \in Nat
    BY StoreAssumption
  <2> QED
    BY <1>1, <2>1, IdleType DEF Op
<1>9. OpType' /\ AppendFits' /\ WalkBase'
  BY <1>1, <1>8 DEF OpType, AppendFits, Appending, WalkBase, Walks
<1> QED
  BY <1>2, <1>3, <1>4, <1>5, <1>6, <1>7, <1>9 DEF TInv, TypeOK

\* load's repair of one segment's commit state
Repaired(s, i, n, h) ==
    [s EXCEPT ![i].committed = n, ![i].hcnt = n, ![i].hcur = h]

LEMMA RepairedShape ==
    ASSUME NEW s \in [Segs -> SegmentRec], NEW i \in Segs, NEW n \in Nat, NEW h \in Nat
    PROVE  /\ Kept(s, Repaired(s, i, n, h)) /\ HeadersKept(s, Repaired(s, i, n, h), i)
           /\ Repaired(s, i, n, h)[i].hcur = h
  BY DEF SegmentRec, Kept, HeadersKept, Repaired

\* What load publishes is within the segment, and at or before the cursor it
\* recovered or at the segment's start
LEMMA LoadedFacts ==
    ASSUME TInv, NEW i \in Segs
    PROVE  /\ LoadedCount(seg[i], commitOff) \in Nat
           /\ LoadedCursor(seg[i], commitOff) \in Nat
           /\ LoadedCursor(seg[i], commitOff) <= seg[i].size
           /\ \/ LoadedCursor(seg[i], commitOff) = 0
              \/ seg[i].base + LoadedCursor(seg[i], commitOff) <= commitOff
<1>1. /\ seg[i].base \in Nat /\ seg[i].size \in Nat /\ seg[i].written \in Nat
      /\ seg[i].hcnt \in Nat /\ commitOff \in Nat
  BY SegFacts
<1>2. CASE seg[i].base + seg[i].size <= commitOff
  BY <1>1, <1>2 DEF LoadedCount, LoadedCursor
<1>3. CASE seg[i].base + seg[i].size > commitOff /\ seg[i].base >= commitOff
  BY <1>1, <1>3 DEF LoadedCount, LoadedCursor
<1>4. CASE seg[i].base + seg[i].size > commitOff /\ seg[i].base < commitOff
  BY <1>1, <1>4 DEF LoadedCount, LoadedCursor, Min2
<1> QED
  BY <1>1, <1>2, <1>3, <1>4

LEMMA LoadStepTypes ==
    ASSUME TInv, LoadStep
    PROVE  TInv'
<1>1. PICK i \in files :
        /\ op.pc = "load"
        /\ seg' = Repaired(seg, i, LoadedCount(seg[i], commitOff),
                           LoadedCursor(seg[i], commitOff))
        /\ nWritten' = nWritten + seg[i].written
        /\ nCommitted' = nCommitted + LoadedCount(seg[i], commitOff)
        /\ op' = [op EXCEPT !.i = i]
        /\ UNCHANGED <<cursors, files, nextNum, gone, rlen, rot, ledger, loss, ioErr,
                       history>>
  BY DEF LoadStep, Repaired
<1>2. i \in Segs /\ i \in Nat /\ seg \in [Segs -> SegmentRec]
  BY SegFacts DEF Segs, TInv, TypeOK, SegType
<1>3. /\ LoadedCount(seg[i], commitOff) \in Nat /\ LoadedCursor(seg[i], commitOff) \in Nat
      /\ LoadedCursor(seg[i], commitOff) <= seg[i].size
  BY <1>2, LoadedFacts
<1>4. Kept(seg, seg') /\ HeadersKept(seg, seg', i) /\ seg'[i].hcur <= seg[i].size
  BY <1>1, <1>2, <1>3, RepairedShape
<1>5. \A j \in Segs : seg'[j].hcur <= seg[j].size
  BY <1>4, SegFacts DEF HeadersKept
<1>6. CountType'
  BY <1>1, <1>2, <1>3, SegFacts DEF TInv, TypeOK, CountType, loss, history
<1>7. CursorType' /\ LedgerType' /\ HistoryType'
  BY <1>1, Frames DEF TInv, TypeOK, history
<1>8. op' \in Op /\ op'.pc = "load"
  BY <1>1, <1>2 DEF TInv, TypeOK, OpType, Op
<1>9. OpType' /\ ~Appending' /\ ~Walks'
  BY <1>1, <1>8 DEF TInv, TypeOK, OpType, Appending, Walks
<1> QED
  BY <1>1, <1>4, <1>5, <1>6, <1>7, <1>9, Moves DEF cursors

LEMMA LoadDoneTypes ==
    ASSUME TInv, LoadDone
    PROVE  TInv'
<1>1. /\ op' = Idle
      /\ UNCHANGED <<cursors, gone, rlen, rot, counts, ledger, loss, ioErr, history>>
  BY DEF LoadDone
<1>2. CursorType' /\ CountType' /\ LedgerType' /\ HistoryType' /\ RecExtents'
  BY <1>1, Frames DEF TInv, TypeOK, history, cursors
<1>3. OpType' /\ AppendFits' /\ WalkBase'
  BY <1>1, IdleType
     DEF TInv, TypeOK, OpType, Idle, AppendFits, Appending, WalkBase, Walks
<1>4. DiskType' /\ SegType' /\ SegExtents'
  <2>1. CASE files' = {1} /\ nextNum' = 2 /\ seg' = [seg EXCEPT ![1] = Fresh(writeOff, SegCap)]
    <3>1. 1 \in Segs /\ 2 \in 1 .. MaxSegs + 1
      BY StoreAssumption DEF Segs
    <3>2. DiskType'
      BY <1>1, <2>1, <3>1 DEF TInv, TypeOK, DiskType
    <3>3. Fresh(writeOff, SegCap) \in SegmentRec
      BY StoreAssumption DEF Fresh, SegmentRec, TInv, TypeOK, CursorType
    <3>4. SegType'
      BY <2>1, <3>3 DEF TInv, TypeOK, SegType
    <3>5. /\ seg'[1] = Fresh(writeOff, SegCap)
          /\ \A j \in Segs : j # 1 => seg'[j] = seg[j]
      BY <2>1, <3>1 DEF TInv, TypeOK, SegType
    <3>6. SegExtents'
      BY <1>1, <3>5, SegFacts DEF SegExtents, Fresh, cursors
    <3> QED
      BY <3>2, <3>4, <3>6
  <2>2. CASE (\E a \in files : IsActive(a) /\ nextNum' = a + 1) /\ UNCHANGED <<files, seg>>
    <3>1. nextNum' \in 1 .. MaxSegs + 1
      BY <2>2, StoreAssumption DEF TInv, TypeOK, DiskType, Segs
    <3>2. DiskType'
      BY <1>1, <2>2, <3>1 DEF TInv, TypeOK, DiskType
    <3> QED
      BY <1>1, <2>2, <3>2, Frames DEF TInv, TypeOK, cursors
  <2> QED
    BY <2>1, <2>2 DEF LoadDone
<1> QED
  BY <1>2, <1>3, <1>4 DEF TInv, TypeOK

LEMMA EnvironmentTypes ==
    ASSUME TInv,
           \/ \E p \in Offsets, d \in Damage : Rot(p, d)
           \/ \E i \in Segs : Vanish(i)
           \/ FailSync
    PROVE  TInv'
<1>1. /\ UNCHANGED <<cursors, files, nextNum, seg, rlen, counts, ledger, loss, op,
                     history>>
      /\ op.pc = "idle"
  BY DEF Rot, Vanish, FailSync, disk
<1>2. /\ CursorType' /\ CountType' /\ LedgerType' /\ HistoryType' /\ SegType'
      /\ SegExtents' /\ RecExtents'
  BY <1>1, Frames DEF TInv, TypeOK, history, cursors
<1>3. ioErr' = ioErr \/ ioErr' = TRUE
  BY DEF Rot, Vanish, FailSync
<1>4. OpType' /\ AppendFits' /\ WalkBase'
  BY <1>1, <1>3 DEF TInv, TypeOK, OpType, AppendFits, Appending, WalkBase, Walks
<1>5. gone' \subseteq Segs
  BY DEF Rot, Vanish, FailSync, disk, TInv, TypeOK, DiskType
<1>6. rot' \in [Offsets -> {"ok"} \union DamageKinds]
  <2>1. CASE UNCHANGED rot
    BY <2>1 DEF TInv, TypeOK, DiskType
  <2>2. CASE \E p \in Offsets, d \in Damage : Rot(p, d)
    BY <2>2, StoreAssumption DEF Rot, TInv, TypeOK, DiskType
  <2> QED
    BY <2>1, <2>2 DEF Vanish, FailSync, disk
<1>7. DiskType'
  BY <1>1, <1>5, <1>6 DEF TInv, TypeOK, DiskType
<1> QED
  BY <1>2, <1>4, <1>7 DEF TInv, TypeOK

LEMMA StutterTypes ==
    ASSUME TInv, UNCHANGED vars
    PROVE  TInv'
<1>1. UNCHANGED <<cursors, disk, counts, ledger, loss, ioErr, op, history>>
  BY DEF vars
<1>2. TypeOK' /\ SegExtents' /\ RecExtents'
  BY <1>1, Frames DEF TInv, TypeOK, disk, history, cursors
<1>3. AppendFits' /\ WalkBase'
  BY <1>1 DEF TInv, AppendFits, Appending, WalkBase, Walks, cursors, disk
<1> QED
  BY <1>2, <1>3 DEF TInv

LEMMA InitTypes == Init => TInv
<1> SUFFICES ASSUME Init PROVE TInv
  OBVIOUS
<1>1. 0 \in Offsets /\ 1 \in Segs /\ 2 \in 1 .. MaxSegs + 1
  BY StoreAssumption DEF Offsets, Segs
<1>2. CursorType
  BY <1>1 DEF Init, CursorType
<1>3. DiskType
  BY <1>1, StoreAssumption DEF Init, DiskType
<1>4. Fresh(0, SegCap) \in SegmentRec
  BY <1>1, StoreAssumption DEF Fresh, SegmentRec
<1>5. SegType
  BY <1>4 DEF Init, SegType
<1>6. CountType
  BY StoreAssumption DEF Init, CountType
<1>7. LedgerType
  BY <1>1 DEF Init, LedgerType, NoFrame
<1>8. OpType /\ HistoryType
  BY IdleType DEF Init, OpType, HistoryType
<1>9. SegExtents
  BY DEF Init, SegExtents, Fresh
<1>10. RecExtents
  BY DEF Init, RecExtents
<1>11. AppendFits /\ WalkBase
  BY DEF Init, Idle, AppendFits, Appending, WalkBase, Walks
<1> QED
  BY <1>2, <1>3, <1>5, <1>6, <1>7, <1>8, <1>9, <1>10, <1>11 DEF TInv, TypeOK

LEMMA NextTypes == TInv /\ [Next]_vars => TInv'
<1> SUFFICES ASSUME TInv, [Next]_vars PROVE TInv'
  OBVIOUS
<1>1. CASE \E n \in 1 .. MaxLen : Add(n)
  BY <1>1, AddTypes
<1>2. CASE Consume
  BY <1>2, PayReportTypes, ReserveTypes, TakeTypes, SkipTypes, RequeueTypes, UnreadTypes,
     DropRecordTypes, QuarantineHeadTypes, QuarantineLatchedTypes, DeferDamageTypes,
     ForceTypes DEF Consume, ReadDamage
<1>3. CASE Retire
  BY <1>3, AckTypes, AckBatchTypes, CommitTypes DEF Retire
<1>4. CASE Rewind
  BY <1>4, RewindTypes
<1>5. CASE AppendStep \/ DropStep \/ RunStep
  BY <1>5, CreateRefusedTypes, CreateTypes, WriteTypes, DropTypes, RunTypes DEF AppendStep
<1>6. CASE WalkStep \/ Settle \/ CommitEnds
  BY <1>6, WalkStopTypes, WalkLeaveTypes, WalkAdvanceTypes, WalkQuarantineTypes,
     WalkQuarantineFailedTypes, SettleTypes, CommitEndsTypes DEF WalkStep
<1>7. CASE ForceStep \/ ForceFailed \/ ForceLatched \/ ForceDone \/ LoadStep \/ LoadDone
  BY <1>7, ForceTypes, ForceLatchedTypes, ForceStepTypes, LoadStepTypes, LoadDoneTypes
<1>8. CASE Environment
  BY <1>8, CrashTypes, EnvironmentTypes DEF Environment
<1>9. CASE UNCHANGED vars
  BY <1>9, StutterTypes
<1> QED
  BY <1>1, <1>2, <1>3, <1>4, <1>5, <1>6, <1>7, <1>8, <1>9 DEF Next, OpStep

\* Every field keeps its type in every reachable state, whatever the bounds, the
\* policy, the damage and the faults: no cursor leaves the queue's extent, no
\* header's commit cursor passes its segment, no report is paid that is not owed.
THEOREM TypeCorrect == Spec => []TypeOK
<1>1. Spec => []TInv
  BY InitTypes, NextTypes, PTL DEF Spec
<1>2. TInv => TypeOK
  BY DEF TInv
<1> QED
  BY <1>1, <1>2, PTL

-----------------------------------------------------------------------------
(* Reports.  Four counters kept by ten handlers: the ones a step leaves alone   *)
(* are one case, an answer that reports no event another, the others one each.  *)

Tally == <<corruptions, refusals, reports, pendingCorrupt>>

LEMMA TallyKept ==
    ASSUME TInv, ReportsExact, UNCHANGED Tally
    PROVE  ReportsExact'
  BY DEF ReportsExact, Tally

\* An answer that reports no event moves both sides together
LEMMA RefusedKept ==
    ASSUME TInv, ReportsExact, UNCHANGED <<corruptions, pendingCorrupt>>,
           \/ UNCHANGED <<reports, refusals>>
           \/ reports' = reports + 1 /\ refusals' = refusals + 1
    PROVE  ReportsExact'
  BY DEF ReportsExact, TInv, TypeOK, CountType

LEMMA NextReports == TInv /\ ReportsExact /\ [Next]_vars => ReportsExact'
<1> SUFFICES ASSUME TInv, ReportsExact, [Next]_vars PROVE ReportsExact'
  OBVIOUS
<1>1. /\ corruptions \in Nat /\ refusals \in Nat
      /\ reports \in Nat /\ pendingCorrupt \in Nat
  BY DEF TInv, TypeOK, CountType
<1>2. CASE \E n \in 1 .. MaxLen : Add(n)
  BY <1>2, TallyKept DEF Add, Tally, loss, history
<1>3. CASE Reserve \/ Take \/ Skip \/ Requeue \/ Unread
  BY <1>3, TallyKept DEF Reserve, Take, Skip, Requeue, Unread, TakeHead, Tally, loss, history
<1>4. CASE PayReport
  BY <1>1, <1>4 DEF PayReport, ReportsExact
<1>5. CASE DropRecord
  BY <1>1, <1>5 DEF DropRecord, ReportsExact
<1>6. CASE QuarantineHead
  BY <1>1, <1>6 DEF QuarantineHead, ReportsExact
<1>7. CASE DeferDamage
  BY <1>1, <1>7 DEF DeferDamage, ReportsExact
<1>8. CASE QuarantineLatched \/ StartForce
  BY <1>8, TallyKept DEF QuarantineLatched, StartForce, Tally, loss, history
<1>9. CASE Retire \/ Rewind
  BY <1>9, TallyKept DEF Retire, Ack, AckBatch, Commit, Rewind, Tally, loss, history
<1>10. CASE AppendStep \/ DropStep \/ RunStep
  BY <1>10, TallyKept DEF AppendStep, CreateRefused, Create, WriteFailed, Write,
     WriteLatched, Publish, DropStep, DropSegment, DropStuck, DropDone, RunStep, Tally,
     loss, history
<1>11. CASE WalkLeave \/ WalkAbandoned \/ WalkUnreadable \/ WalkRecord
            \/ WalkQuarantineFailed
  BY <1>11, TallyKept DEF WalkLeave, WalkAbandoned, WalkUnreadable, WalkRecord,
     WalkQuarantineFailed, Tally, loss, history
<1>12. CASE WalkQuarantine
  BY <1>1, <1>12 DEF WalkQuarantine, ReportsExact
<1>13. CASE Settle \/ CommitEnds \/ ForceStep \/ LoadStep \/ LoadDone
  BY <1>13, TallyKept DEF Settle, CommitEnds, ForceStep, LoadStep, LoadDone, Tally, loss,
     history
<1>14. CASE ForceDone
  BY <1>1, <1>14 DEF ForceDone, ReportsExact
<1>15. CASE Crash
  BY <1>15 DEF Crash, ReportsExact
<1>16. CASE \/ FailSync \/ (\E p \in Offsets, d \in Damage : Rot(p, d))
            \/ \E i \in Segs : Vanish(i)
  BY <1>16, TallyKept DEF FailSync, Rot, Vanish, Tally, loss, history
<1>17. CASE UNCHANGED vars
  BY <1>17, TallyKept DEF vars, Tally, loss, history
<1>18. CASE WalkOver \/ WalkStopsAtDamage
  BY <1>18, RefusedKept DEF WalkOver, WalkStopsAtDamage, Refuse, loss
<1>19. CASE ForceFailed \/ ForceLatched
  BY <1>19, RefusedKept DEF ForceFailed, ForceLatched, CutShort, loss
<1> QED
  BY <1>2, <1>3, <1>4, <1>5, <1>6, <1>7, <1>8, <1>9, <1>10, <1>11, <1>12, <1>13, <1>14,
     <1>15, <1>16, <1>17, <1>18, <1>19
     DEF Next, OpStep, Consume, ReadDamage, WalkStep, Environment

\* Every corruption event counted since the open was answered to a consumer with
\* exactly one ErrCorrupt or is still owed, whichever of takeHead,
\* skipCorruptSegment, the commit path and forceCommitAll met it and whatever failed
\* in between.  Any other ErrCorrupt is one of two: a commit that stops at damage or
\* outside every segment, or a forceCommitAll cut short behind a head it moved.
THEOREM EveryEventReported == Spec => []ReportsExact
<1>1. Init => ReportsExact
  BY DEF Init, ReportsExact
<1>2. Init => TInv
  BY InitTypes
<1>3. (TInv /\ ReportsExact) /\ [Next]_vars => (TInv /\ ReportsExact)'
  BY NextTypes, NextReports
<1> QED
  BY <1>1, <1>2, <1>3, PTL DEF Spec
=============================================================================
