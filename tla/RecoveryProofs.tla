--------------------------- MODULE RecoveryProofs ---------------------------
(***************************************************************************)
(* What load concludes, proved for every number of segments, records,      *)
(* losses and damages, under every policy.                                 *)
(*                                                                         *)
(* BInv carries the types and the one commit cursor.  DiskInv: what the    *)
(* page cache holds is among what a power loss may leave, and every header *)
(* that verifies has counts that go with its cursors, torn mixtures        *)
(* included.  ControlInv: which segments, numbers and entries there are in *)
(* each phase of an open, of a create and of load.  CursorInv: the live    *)
(* headers, and during load what load makes of each segment, describe one  *)
(* commit cursor; load gets to it however it was interrupted before.       *)
(*                                                                         *)
(* PInv adds what it takes for a record that was given up to stay so: it   *)
(* lies in the segment it was staged in (Homed), behind every header that  *)
(* may come back (Widths, Unseen), and load believes no more of a segment  *)
(* than its header says unless it has to rebuild that (NoMore, Clean).     *)
(*                                                                         *)
(* SInv adds what it takes for a record that is due to stay ahead of the   *)
(* commit cursor: where a header may come back that retires it (Stale),    *)
(* load has not concluded yet and is sure to find a segment before it that *)
(* was not finished, which makes it replay the rest (Chased, Witness,      *)
(* OpenFirst).                                                             *)
(*                                                                         *)
(* KInv adds what it takes for such a record to be there: it is durable in *)
(* the segment it was staged in, under every header that may come back     *)
(* (Sound), or that segment was damaged in a way that load has yet to book *)
(* (Booked).                                                               *)
(***************************************************************************)
EXTENDS Recovery, FiniteSetTheorems, WellFoundedInduction, TLAPS

(* Greatest and least *)

LEMMA MinOf ==
    ASSUME NEW S, S # {}, S \subseteq Nat
    PROVE  Min(S) \in S /\ \A y \in S : Min(S) <= y
<1>1. \E m \in S : \A u \in S : ~(<<u, m>> \in OpToRel(<, Nat))
  BY WFMin, NatLessThanWellFounded
<1>0. PICK m \in S : \A u \in S : ~(<<u, m>> \in OpToRel(<, Nat))
  BY <1>1
<1>2. ASSUME NEW y \in S PROVE m <= y
  <2>1. m \in Nat /\ y \in Nat
    OBVIOUS
  <2>2. ~(y < m)
    BY <1>0, <2>1 DEF OpToRel
  <2> QED
    BY <2>1, <2>2
<1> QED
  BY <1>2 DEF Min

LEMMA MaxOf ==
    ASSUME NEW N \in Nat, NEW S, S # {}, S \subseteq 0 .. N
    PROVE  Max(S) \in S /\ \A y \in S : y <= Max(S)
<1> DEFINE T == {N - i : i \in S}
<1>1. T # {} /\ T \subseteq Nat
  <2>1. \A i \in S : N - i \in Nat
    OBVIOUS
  <2> QED
    BY <2>1
<1>2. Min(T) \in T /\ \A u \in T : Min(T) <= u
  BY <1>1, MinOf
<1>3. PICK m \in S : Min(T) = N - m
  BY <1>2
<1>4. ASSUME NEW j \in S PROVE j <= m
  <2>1. N - j \in T /\ N - j \in Nat /\ N - m \in Nat
    OBVIOUS
  <2>2. N - m <= N - j
    BY <1>2, <1>3, <2>1
  <2> QED
    BY <2>2
<1> QED
  BY <1>4 DEF Max

LEMMA MinPair ==
    ASSUME NEW a \in Nat, NEW b \in Nat
    PROVE  Min({a, b}) = IF a <= b THEN a ELSE b
  BY MinOf

-----------------------------------------------------------------------------
(* The disk *)

Cells == Recs \union {None, Junk}

DiskTypes ==
    /\ entry \in [Segs -> {"none", "new", "gone", "here"}]
    /\ len \in [Segs -> 0 .. Full] /\ lens \in [Segs -> SUBSET (0 .. Full)]
    /\ hdr \in [Segs -> Headers] /\ hdrs \in [Segs -> SUBSET Headers]
    /\ data \in [Segs -> [Slots -> Cells]] /\ disk \in [Segs -> [Slots -> SUBSET Cells]]

\* What the page cache holds is one of the things a power loss may leave
Cached ==
    \A f \in Segs : /\ len[f] \in lens[f] /\ hdr[f] \in hdrs[f]
                    /\ \A k \in Slots : data[f][k] \in disk[f][k]

\* A header that verifies has whole frames, counts that agree with its cursors, and
\* retires no more than it publishes
Sane(h) == h.kind = "ok" => h.w = Unit * h.nw /\ h.c = Unit * h.nc /\ h.nc <= h.nw

HeadersSane == \A f \in Segs : \A h \in hdrs[f] : Sane(h)

DiskInv == DiskTypes /\ Cached /\ HeadersSane

-----------------------------------------------------------------------------
(* The store *)

Phases == {"open", "losing", "off", "load", "conclude", "fresh", "repair", "flush"}

\* Who is at work in which phase
Phased ==
    /\ policy \in Policies /\ phase \in Phases /\ at \in 0 .. MaxSeg
    /\ phase = "losing" => at \in Segs
    /\ phase \in {"load", "flush"} => at \in Segs
    /\ phase = "flush" => at \in files
    /\ phase \in {"losing", "off", "fresh"} => files = {}
    /\ phase \in {"repair", "flush"} => files # {}
    /\ phase = "open" /\ making = None => files # {}
    /\ phase \notin {"open", "fresh"} => making = None
    /\ phase = "fresh" => making # None
    /\ phase # "open" \/ making # None => adding = None /\ committing = None

Numbered == {"open", "load", "conclude", "repair", "flush"}

\* No number names two segments
Numbers ==
    /\ making \in Segs \union {None} /\ nextNum \in 0 .. MaxSeg + 1
    /\ files \subseteq Visible /\ making \notin files
    /\ committing \in files \union {None}
    /\ phase = "open" /\ making # None => making = nextNum
    /\ phase \in Numbered => \A f \in Visible \ {making} : f < nextNum
    /\ phase = "fresh" => Visible \subseteq {making}
    /\ making # None => entry[making] # "here"
    /\ phase = "load" => /\ at \in Visible /\ \A f \in files : f < at
                         /\ \A f \in Visible : f \in files \/ f >= at
    /\ phase = "conclude" => Visible \subseteq files

\* What createFile has made so far
Made ==
    Linked => /\ hdr[making] \in {Broken("zero"), Header(0, 0, 0, 0)}
              /\ hdr[making].kind = "ok" => len[making] = Full

\* What is left of an append that is under way
Staged ==
    adding # None =>
        \/ adding \in Published(active)
        \/ /\ hdr[active].nw + 1 \in Slots /\ Hdr + hdr[active].w + Unit <= len[active]
           /\ data[active][hdr[active].nw + 1] = adding

Plain ==
    /\ dirty \subseteq Segs /\ adding \in Recs \union {None}
    /\ home \in Seq(Segs) /\ Len(home) <= MaxRec

ControlInv == Phased /\ Numbers /\ Made /\ Plain

-----------------------------------------------------------------------------
(* The cursor *)

\* A live segment can be read, and holds all its header publishes
Believed ==
    phase = "open" => \A f \in files : hdr[f].kind = "ok" /\ Hdr + hdr[f].w <= len[f]

OneAtWork ==
    phase = "open" =>
        \A f, g \in files : f < g => hdr[f].c = hdr[f].w \/ hdr[g].c = 0

Mems == [size : 0 .. Unit * Cap, nw : 0 .. Cap, nc : 0 .. Cap, c : 0 .. Unit * Cap,
         truncated : BOOLEAN, reset : BOOLEAN]

Loads == {"load", "conclude", "repair", "flush"}

\* What load has read of a segment lies in the file and agrees with itself
MemSane ==
    /\ mem \in [Segs -> Mems]
    /\ phase \in Loads => \A f \in files :
          /\ mem[f].size = Unit * mem[f].nw /\ mem[f].c = Unit * mem[f].nc
          /\ mem[f].nc <= mem[f].nw /\ Hdr + mem[f].size <= len[f]

MemOnce ==
    phase \in {"repair", "flush"} =>
        \A f, g \in files : f < g => mem[f].c = mem[f].size \/ mem[g].c = 0

CursorInv == Believed /\ OneAtWork /\ MemSane /\ MemOnce /\ Staged

BInv == DiskInv /\ ControlInv /\ CursorInv

-----------------------------------------------------------------------------
(* Every step leaves a disk *)

Entries == {"none", "new", "gone", "here"}

LEMMA Sizes ==
    /\ MaxSeg \in Nat /\ MaxSeg >= 1 /\ Cap \in Nat /\ Cap >= 1 /\ MaxRec \in Nat
    /\ MaxRec >= 1
    /\ Full \in Nat /\ Full = 2 + 2 * Cap /\ Hdr = 2 /\ Unit = 2
    /\ Segs = 1 .. MaxSeg /\ Slots = 1 .. Cap /\ Recs = 1 .. MaxRec
    /\ Segs \subseteq Nat /\ None \notin Segs /\ None \notin Recs /\ Junk \notin Recs
    /\ Segs \subseteq 0 .. MaxSeg /\ 1 \in Segs
  BY RecoveryAssumption DEF Full, Hdr, Unit, Segs, Slots, Recs, None, Junk

LEMMA BrokenIs ==
    ASSUME NEW k \in HeaderKinds \ {"ok"}
    PROVE  Broken(k) \in Headers /\ Sane(Broken(k)) /\ Broken(k).kind = k
  BY Sizes DEF Broken, Headers, HeaderKinds, Sane

LEMMA FreshIs == Header(0, 0, 0, 0) \in Headers /\ Sane(Header(0, 0, 0, 0))
  BY Sizes DEF Header, Headers, HeaderKinds, Sane

LEMMA HeaderIs ==
    ASSUME NEW h \in Headers
    PROVE  /\ h.kind \in HeaderKinds /\ h.w \in 0 .. Unit * Cap /\ h.c \in 0 .. Unit * Cap
           /\ h.nw \in 0 .. Cap /\ h.nc \in 0 .. Cap
           /\ h.w \in Nat /\ h.c \in Nat /\ h.nw \in Nat /\ h.nc \in Nat
  BY Sizes DEF Headers

\* One record more is published, or retired
LEMMA HeaderGrows ==
    ASSUME NEW h \in Headers, h.kind = "ok", Sane(h), h.nw + 1 \in Slots,
           NEW j, j = [h EXCEPT !.w = @ + Unit, !.nw = @ + 1]
    PROVE  j \in Headers /\ Sane(j)
<1>1. h.w + 2 \in 0 .. 2 * Cap /\ h.nw + 1 \in 0 .. Cap /\ h.w = 2 * h.nw /\ h.c = 2 * h.nc
         /\ h.nc <= h.nw
  BY HeaderIs, Sizes DEF Sane
<1>2. /\ j.w = h.w + 2 /\ j.nw = h.nw + 1 /\ j.c = h.c /\ j.nc = h.nc /\ j.kind = h.kind
  BY Sizes DEF Headers
<1>3. j \in Headers
  BY <1>1, Sizes DEF Headers
<1>5. h.nw \in Nat /\ h.nc \in Nat /\ Unit = 2
  BY HeaderIs, Sizes
<1>4. Sane(j)
  BY ONLY <1>1, <1>2, <1>5 DEF Sane
<1> QED
  BY <1>3, <1>4

LEMMA HeaderRetires ==
    ASSUME NEW h \in Headers, h.kind = "ok", Sane(h), h.c < h.w,
           NEW j, j = [h EXCEPT !.c = @ + Unit, !.nc = @ + 1]
    PROVE  j \in Headers /\ Sane(j)
<1>0. /\ h.w = 2 * h.nw /\ h.c = 2 * h.nc /\ h.nw \in 0 .. Cap /\ h.nc \in 0 .. Cap
      /\ Cap \in Nat /\ h.w \in Nat /\ h.c \in Nat
  BY HeaderIs, Sizes DEF Sane
<1>1. h.nc + 1 <= h.nw /\ h.c + 2 \in 0 .. 2 * Cap /\ h.nc + 1 \in 0 .. Cap
  BY ONLY <1>0, h.c < h.w
<1>2. /\ j.c = h.c + 2 /\ j.nc = h.nc + 1 /\ j.w = h.w /\ j.nw = h.nw /\ j.kind = h.kind
  BY Sizes DEF Headers
<1>3. j \in Headers
  BY <1>1, Sizes DEF Headers
<1>5. h.nw \in Nat /\ h.nc \in Nat /\ Unit = 2
  BY HeaderIs, Sizes
<1>4. Sane(j)
  BY ONLY <1>0, <1>1, <1>2, <1>5 DEF Sane
<1> QED
  BY <1>3, <1>4

LEMMA ActiveIsLive ==
    ASSUME files # {}, files \subseteq Visible
    PROVE  active \in files /\ active \in Segs /\ \A f \in files : f <= active
<1>1. files \subseteq 0 .. MaxSeg /\ files \subseteq Segs
  BY Sizes DEF Visible
<1> QED
  BY <1>1, MaxOf, Sizes DEF active

LEMMA LeftSlots ==
    ASSUME NEW d \in [Slots -> Cells], NEW l \in 0 .. Full
    PROVE  Within(d, l) \in [Slots -> Cells]
  BY DEF Within, Cells

LEMMA LeftDisk ==
    ASSUME DiskInv, NEW f \in Segs, NEW e \in Entries, NEW l \in 0 .. Full,
           NEW h \in Headers, Sane(h), NEW d \in [Slots -> Cells], Left(f, e, l, h, d)
    PROVE  DiskInv'
<1> DEFINE there == e # "none" /\ l > 0
           l0 == IF there THEN l ELSE 0
           h0 == IF there THEN h ELSE Broken("zero")
           d0 == IF there THEN Within(d, l) ELSE Blank
<1>1. l0 \in 0 .. Full /\ h0 \in Headers /\ Sane(h0) /\ d0 \in [Slots -> Cells]
  BY LeftSlots, BrokenIs, Sizes DEF HeaderKinds, Blank, Cells
<1>2. /\ entry' = [entry EXCEPT ![f] = e] /\ len' = [len EXCEPT ![f] = l0]
      /\ hdr' = [hdr EXCEPT ![f] = h0] /\ data' = [data EXCEPT ![f] = d0]
  BY DEF Left
<1>3. len'[f] = l0 /\ hdr'[f] = h0 /\ data'[f] = d0
  BY <1>2 DEF DiskInv, DiskTypes
<1>4. /\ lens' = [lens EXCEPT ![f] = {l0}] /\ hdrs' = [hdrs EXCEPT ![f] = {h0}]
      /\ disk' = [disk EXCEPT ![f] = [k \in Slots |-> {d0[k]}]]
  BY <1>3 DEF Left
<1> HIDE DEF l0, h0, d0
<1>5. DiskTypes'
  <2>1. [k \in Slots |-> {d0[k]}] \in [Slots -> SUBSET Cells]
    BY <1>1
  <2> QED
    BY <1>1, <1>2, <1>4, <2>1 DEF DiskInv, DiskTypes, Entries
<1>6. Cached'
  <2> SUFFICES ASSUME NEW g \in Segs
               PROVE  /\ len'[g] \in lens'[g] /\ hdr'[g] \in hdrs'[g]
                      /\ \A k \in Slots : data'[g][k] \in disk'[g][k]
    BY DEF Cached
  <2>1. CASE g = f
    BY <1>1, <1>2, <1>4, <2>1 DEF DiskInv, DiskTypes
  <2>2. CASE g # f
    BY <1>2, <1>4, <2>2 DEF DiskInv, DiskTypes, Cached
  <2> QED
    BY <2>1, <2>2
<1>7. HeadersSane'
  BY <1>1, <1>4 DEF DiskInv, DiskTypes, HeadersSane
<1> QED
  BY <1>5, <1>6, <1>7 DEF DiskInv

\* The header of f becomes h, which a power loss may leave or not
Writes(f, h) ==
    /\ hdr' = [hdr EXCEPT ![f] = h]
    /\ \E H \in SUBSET (hdrs[f] \union {h}) :
          h \in H /\ hdrs' = [hdrs EXCEPT ![f] = H]

\* Headers become durable
Settles ==
    /\ hdr' = hdr /\ hdrs' \in [Segs -> SUBSET Headers]
    /\ \A f \in Segs : hdr[f] \in hdrs'[f] /\ hdrs'[f] \subseteq hdrs[f]

HeadersOK ==
    /\ hdr \in [Segs -> Headers] /\ hdrs \in [Segs -> SUBSET Headers]
    /\ \A f \in Segs : hdr[f] \in hdrs[f] /\ \A h \in hdrs[f] : Sane(h)

LEMMA WritesOK ==
    ASSUME HeadersOK, NEW f \in Segs, NEW h \in Headers, Sane(h), Writes(f, h)
    PROVE  HeadersOK'
<1>1. PICK H \in SUBSET (hdrs[f] \union {h}) : h \in H /\ hdrs' = [hdrs EXCEPT ![f] = H]
  BY DEF Writes
<1>2. hdr' = [hdr EXCEPT ![f] = h] /\ H \in SUBSET Headers /\ \A j \in H : Sane(j)
  BY <1>1 DEF Writes, HeadersOK
<1>3. hdr' \in [Segs -> Headers] /\ hdrs' \in [Segs -> SUBSET Headers]
  BY <1>1, <1>2 DEF HeadersOK
<1>4. \A g \in Segs : hdr'[g] \in hdrs'[g] /\ \A j \in hdrs'[g] : Sane(j)
  BY <1>1, <1>2 DEF HeadersOK
<1> QED
  BY <1>3, <1>4 DEF HeadersOK

LEMMA SettlesOK ==
    ASSUME HeadersOK, Settles
    PROVE  HeadersOK'
  BY DEF HeadersOK, Settles

\* What a running store or an open writes into headers
WrittenBy(f, h) ==
    \/ h = [hdr[f] EXCEPT !.w = @ + Unit, !.nw = @ + 1] /\ f = active /\ AddPublishes
    \/ h = [hdr[f] EXCEPT !.c = @ + Unit, !.nc = @ + 1] /\ CommitWrites(f)
    \/ h = Header(0, 0, 0, 0) /\ CreateWrites /\ f = making
    \/ h = Broken("zero") /\ CreateLinks /\ f = making
    \/ h = Wanted(f) /\ RepairWrites(f)

Lefts == PowerLossLeaves \/ \E f \in Segs : \/ \E l \in 0 .. Full - 1 : Cut(f, l)
                       \/ \E kind \in {"zero", "garbage", "torn", "foreign"} : Overwritten(f, kind)

LEMMA HeaderSteps ==
    ASSUME BInv, [Next]_vars
    PROVE  \/ Lefts
           \/ Settles
           \/ \E f \in Segs : \E h \in Headers : Sane(h) /\ Writes(f, h) /\ WrittenBy(f, h)
<1>1. HeadersOK
  BY DEF BInv, DiskInv, DiskTypes, Cached, HeadersSane, HeadersOK
<1>2. CASE UNCHANGED <<hdr, hdrs>>
  BY <1>1, <1>2 DEF Settles, HeadersOK
<1>3. CASE AddPublishes
  <2> DEFINE f == active
             h == [hdr[f] EXCEPT !.w = @ + Unit, !.nw = @ + 1]
  <2>1. f \in files /\ f \in Segs /\ phase = "open"
    BY <1>3, ActiveIsLive DEF AddPublishes, Idle, BInv, ControlInv, Phased, Numbers
  <2>2. hdr[f].kind = "ok" /\ hdr[f].nw + 1 \in Slots /\ hdr[f] \in Headers /\ Sane(hdr[f])
    BY <1>1, <1>3, <2>1 DEF AddPublishes, BInv, CursorInv, Believed, Staged, HeadersOK
  <2>3. h \in Headers /\ Sane(h)
    BY <2>2, HeaderGrows
  <2>4. Writes(f, h)
    <3>1. hdr' = [hdr EXCEPT ![f] = h]
      BY <1>3 DEF AddPublishes, Publishes
    <3>2. CASE policy = "perOp"
      <4>1. hdrs' = [hdrs EXCEPT ![f] = {hdr[f], h}]
        BY <1>3, <3>2 DEF AddPublishes, Publishes
      <4> QED
        BY <1>1, <2>1, <3>1, <4>1 DEF Writes, HeadersOK
    <3>3. CASE policy # "perOp"
      <4>1. hdrs' = [hdrs EXCEPT ![f] = @ \union {h}]
        BY <1>3, <3>3 DEF AddPublishes, Publishes
      <4>2. hdrs' = [hdrs EXCEPT ![f] = hdrs[f] \union {h}]
        BY <4>1
      <4> QED
        BY <1>1, <2>1, <3>1, <4>2 DEF Writes, HeadersOK
    <3> QED
      BY <3>2, <3>3
  <2> QED
    BY <1>3, <2>1, <2>3, <2>4 DEF WrittenBy
<1>4. ASSUME NEW f \in Segs, CommitWrites(f)
      PROVE  \E h \in Headers : Sane(h) /\ Writes(f, h) /\ WrittenBy(f, h)
  <2> DEFINE h == [hdr[f] EXCEPT !.c = @ + Unit, !.nc = @ + 1]
  <2>1. hdr[f].kind = "ok" /\ hdr[f] \in Headers /\ Sane(hdr[f]) /\ hdr[f].c < hdr[f].w
    BY <1>1, <1>4 DEF CommitWrites, Free, Idle, BInv, CursorInv, Believed, HeadersOK
  <2>2. h \in Headers /\ Sane(h)
    BY <2>1, HeaderRetires
  <2>3. Writes(f, h)
    BY <1>1, <1>4 DEF CommitWrites, WriteHeader, Writes, HeadersOK
  <2> QED
    BY <1>4, <2>2, <2>3 DEF WrittenBy
<1>5. CASE CreateLinks
  <2>1. making \in Segs
    BY <1>5 DEF CreateLinks, BInv, ControlInv, Numbers
  <2>2. Writes(making, Broken("zero"))
    BY <1>1, <1>5, <2>1 DEF CreateLinks, Writes, HeadersOK
  <2> QED
    BY <1>5, <2>1, <2>2, BrokenIs DEF WrittenBy, HeaderKinds
<1>6. CASE CreateWrites
  <2>1. making \in Segs
    BY <1>6 DEF CreateWrites, Linked, BInv, ControlInv, Numbers
  <2>2. Writes(making, Header(0, 0, 0, 0))
    BY <1>1, <1>6, <2>1 DEF CreateWrites, WriteHeader, Writes, HeadersOK
  <2> QED
    BY <1>6, <2>1, <2>2, FreshIs DEF WrittenBy
<1>7. ASSUME NEW f \in Segs, RepairWrites(f)
      PROVE  \E h \in Headers : Sane(h) /\ Writes(f, h) /\ WrittenBy(f, h)
  <2>1. /\ f \in files /\ mem[f] \in Mems /\ mem[f].size = Unit * mem[f].nw
        /\ mem[f].c = Unit * mem[f].nc /\ mem[f].nc <= mem[f].nw
    BY <1>7 DEF RepairWrites, Unrepaired, BInv, CursorInv, MemSane, Loads
  <2>2. Wanted(f) \in Headers /\ Sane(Wanted(f))
    BY <2>1, Sizes DEF Wanted, Header, Headers, HeaderKinds, Sane, Mems
  <2>3. Writes(f, Wanted(f))
    BY <1>1, <1>7 DEF RepairWrites, WriteHeader, Writes, HeadersOK
  <2> QED
    BY <1>7, <2>2, <2>3 DEF WrittenBy
<1>8. ASSUME NEW f \in Segs, hdr' = hdr, hdrs' = [hdrs EXCEPT ![f] = {hdr[f]}]
      PROVE  Settles
  BY <1>1, <1>8 DEF Settles, HeadersOK
<1>9. CASE AddSettles
  <2>1. active \in Segs
    BY <1>9, ActiveIsLive DEF AddSettles, BInv, ControlInv, Phased, Numbers
  <2> QED
    BY <1>8, <1>9, <2>1 DEF AddSettles
<1>10. CASE FlushAll
  <2>1. hdr' = hdr
           /\ hdrs' = [f \in Segs |-> IF f \in dirty \intersect files THEN {hdr[f]} ELSE hdrs[f]]
    BY <1>10 DEF FlushAll
  <2> QED
    BY <1>1, <2>1 DEF Settles, HeadersOK
<1>11. ASSUME NEW f \in Segs, FlushOne(f) PROVE Settles
  BY <1>8, <1>11 DEF FlushOne, Fsync
<1>12. CASE CommitFlushes
  <2>1. committing \in Segs
    BY <1>12 DEF CommitFlushes, BInv, ControlInv, Numbers, Visible
  <2> QED
    BY <1>8, <1>12, <2>1 DEF CommitFlushes, Fsync
<1>13. CASE CreateSyncs
  <2>1. making \in Segs
    BY <1>13 DEF CreateSyncs, Linked, BInv, ControlInv, Numbers
  <2> QED
    BY <1>8, <1>13, <2>1 DEF CreateSyncs, Fsync
<1>14. CASE RepairFlushes
  <2>1. at \in Segs
    BY <1>14 DEF RepairFlushes, BInv, ControlInv, Phased
  <2> QED
    BY <1>8, <1>14, <2>1 DEF RepairFlushes
<1>15. CASE Running
  BY <1>2, <1>3, <1>4, <1>5, <1>6, <1>9, <1>10, <1>11, <1>12, <1>13, <1>15
     DEF Running, AddStages, AddDiscards, CycleDrops, CreateReserves, CreateEnds, fs
<1>16. CASE Failing
  BY <1>2, <1>16 DEF Failing, Lefts, Crash, PowerLoss, Dies, fs
<1>17. CASE Loading
  BY <1>2, <1>7, <1>14, <1>17
     DEF Loading, OpenBegins, LoadDrops, LoadKeeps, LoadConcludes, OpenReturns, fs
<1> QED
  BY <1>2, <1>15, <1>16, <1>17 DEF Next, vars, fs

\* The header and the slots of f that are left were among those that may be
Remains(f, h, d) ==
    /\ h.kind = "ok" => h \in hdrs[f]
    /\ \A k \in Slots : d[k] \in disk[f][k] \union {None, Junk}

\* What a power loss or somebody else leaves of a file
LEMMA LeftSteps ==
    ASSUME BInv, Lefts
    PROVE  /\ \E f \in Segs, e \in Entries, l \in 0 .. Full, h \in Headers, d \in [Slots -> Cells] :
                  Sane(h) /\ Left(f, e, l, h, d) /\ Remains(f, h, d) /\ (PowerLossLeaves => f = at)
           /\ UNCHANGED <<policy, store, home, discarded,
                          rebuilt>> /\ phase \in {"losing", "off"}
<1>1. DiskInv /\ DiskTypes
  BY DEF BInv, DiskInv
<1>2. CASE PowerLossLeaves
  <2>1. phase = "losing" /\ at \in Segs
    BY <1>2 DEF PowerLossLeaves, BInv, ControlInv, Phased
  <2>2. PICK e \in (CASE entry[at] = "here" -> {"here"} [] entry[at] = "none" -> {"none"}
                      [] OTHER -> {"here", "none"}) :
            \E l \in (IF e = "none" THEN {0} ELSE lens[at]) :
            \E h \in (IF l < Hdr THEN {Broken("zero")} ELSE HeaderLeft(at)) :
            \E d \in (IF l = 0 THEN {Blank}
                      ELSE {d \in [Slots -> UNION {SlotLeft(at, k) : k \in Slots}] :
                              \A k \in Slots : d[k] \in SlotLeft(at, k)}) :
                 Left(at, e, l, h, d)
    BY <1>2 DEF PowerLossLeaves
  <2>3. e \in Entries
    BY <2>2 DEF Entries
  <2>4. PICK l \in (IF e = "none" THEN {0} ELSE lens[at]) :
            \E h \in (IF l < Hdr THEN {Broken("zero")} ELSE HeaderLeft(at)) :
            \E d \in (IF l = 0 THEN {Blank}
                      ELSE {d \in [Slots -> UNION {SlotLeft(at, k) : k \in Slots}] :
                              \A k \in Slots : d[k] \in SlotLeft(at, k)}) :
                 Left(at, e, l, h, d)
    BY <2>2
  <2>5. l \in 0 .. Full
    BY <1>1, <2>1, <2>4, Sizes DEF DiskTypes
  <2>6. PICK h \in (IF l < Hdr THEN {Broken("zero")} ELSE HeaderLeft(at)) :
            \E d \in (IF l = 0 THEN {Blank}
                      ELSE {d \in [Slots -> UNION {SlotLeft(at, k) : k \in Slots}] :
                              \A k \in Slots : d[k] \in SlotLeft(at, k)}) :
                 Left(at, e, l, h, d)
    BY <2>4
  <2>7. h \in Headers /\ Sane(h)
    <3>1. /\ Broken("zero") \in Headers /\ Sane(Broken("zero"))
          /\ Broken("garbage") \in Headers /\ Sane(Broken("garbage"))
          /\ Broken("torn") \in Headers /\ Sane(Broken("torn"))
      BY BrokenIs DEF HeaderKinds
    <3>2. \A j \in HeaderLeft(at) : j \in Headers /\ Sane(j)
      BY <1>1, <2>1, <3>1 DEF DiskInv, DiskTypes, HeadersSane, HeaderLeft
    <3> QED
      BY <2>6, <3>1, <3>2
  <2>8. PICK d \in (IF l = 0 THEN {Blank}
                    ELSE {d \in [Slots -> UNION {SlotLeft(at, k) : k \in Slots}] :
                            \A k \in Slots : d[k] \in SlotLeft(at, k)}) :
              Left(at, e, l, h, d)
    BY <2>6
  <2>9. d \in [Slots -> Cells]
    <3>1. \A k \in Slots : SlotLeft(at, k) \subseteq Cells
      BY <1>1, <2>1 DEF DiskTypes, SlotLeft, Cells
    <3>2. Blank \in [Slots -> Cells]
      BY DEF Blank, Cells
    <3>3. CASE l # 0
      <4>1. d \in [Slots -> UNION {SlotLeft(at, k) : k \in Slots}]
        BY <2>8, <3>3
      <4> QED
        BY <3>1, <4>1
    <3> QED
      BY <2>8, <3>2, <3>3
  <2>10. UNCHANGED <<policy, store, home, discarded, rebuilt>>
    BY <1>2 DEF PowerLossLeaves, ghost
  <2>11. Remains(at, h, d)
    <3>1. \A k \in Slots : d[k] \in disk[at][k] \union {None, Junk}
      BY <2>8 DEF SlotLeft, Blank
    <3>2. ASSUME h.kind = "ok" PROVE h \in hdrs[at]
      <4>1. /\ h # Broken("zero") /\ h # Broken("garbage") /\ h # Broken("torn")
        BY <3>2, BrokenIs DEF HeaderKinds
      <4> QED
        BY <2>6, <4>1 DEF HeaderLeft
    <3> QED
      BY <3>1, <3>2 DEF Remains
  <2> QED
    BY <2>1, <2>3, <2>5, <2>7, <2>8, <2>9, <2>10, <2>11
<1>3. ASSUME NEW f \in Segs, NEW l \in 0 .. Full - 1, Cut(f, l)
      PROVE  /\ \E e \in Entries, h \in Headers, d \in [Slots -> Cells] :
                    Sane(h) /\ Left(f, e, l, h, d) /\ Remains(f, h, d) /\ (PowerLossLeaves => f = at)
             /\ UNCHANGED <<policy, store, home, discarded,
                            rebuilt>> /\ phase \in {"losing", "off"} /\ l \in 0 .. Full
  <2>1. ~PowerLossLeaves /\ UNCHANGED <<policy, store, home, discarded,
                                        rebuilt>> /\ phase \in {"losing", "off"}
    BY <1>3 DEF Cut, Struck, PowerLossLeaves, store
  <2>2. /\ Left(f, entry[f], l, IF l < Hdr THEN Broken("zero") ELSE hdr[f], data[f])
        /\ entry[f] \in Entries /\ data[f] \in [Slots -> Cells]
    BY <1>1, <1>3 DEF Cut, Struck, DiskTypes, Entries
  <2>3. \A h \in {Broken("zero"), hdr[f]} : h \in Headers /\ Sane(h)
    BY <1>1, BrokenIs DEF DiskInv, DiskTypes, Cached, HeadersSane, HeaderKinds
  <2>4. l \in 0 .. Full
    BY Sizes
  <2>5. \A h \in {Broken("zero"), hdr[f]} : Remains(f, h, data[f])
    BY <1>1, BrokenIs DEF DiskInv, Cached, Remains, HeaderKinds
  <2> QED
    BY <2>1, <2>2, <2>3, <2>4, <2>5
<1>4. ASSUME NEW f \in Segs, NEW kind \in {"zero", "garbage", "torn", "foreign"},
             Overwritten(f, kind)
      PROVE  /\ \E e \in Entries, l \in 0 .. Full, h \in Headers, d \in [Slots -> Cells] :
                    Sane(h) /\ Left(f, e, l, h, d) /\ Remains(f, h, d) /\ (PowerLossLeaves => f = at)
             /\ UNCHANGED <<policy, store, home, discarded,
                            rebuilt>> /\ phase \in {"losing", "off"}
  <2>1. ~PowerLossLeaves /\ UNCHANGED <<policy, store, home, discarded,
                                        rebuilt>> /\ phase \in {"losing", "off"}
    BY <1>4 DEF Overwritten, Struck, PowerLossLeaves, store
  <2>2. /\ Left(f, entry[f], len[f], Broken(kind), data[f])
        /\ entry[f] \in Entries /\ len[f] \in 0 .. Full /\ data[f] \in [Slots -> Cells]
    BY <1>1, <1>4 DEF Overwritten, Struck, DiskTypes, Entries
  <2>3. Broken(kind) \in Headers /\ Sane(Broken(kind))
    BY BrokenIs DEF HeaderKinds
  <2>4. Remains(f, Broken(kind), data[f])
    BY <1>1, BrokenIs DEF DiskInv, Cached, Remains, HeaderKinds
  <2> QED
    BY <2>1, <2>2, <2>3, <2>4
<1> QED
  BY <1>2, <1>3, <1>4 DEF Lefts

LEMMA EntryNext ==
    ASSUME BInv, [Next]_vars, ~Lefts
    PROVE  entry' \in [Segs -> Entries]
<1>1. entry \in [Segs -> Entries]
  BY DEF BInv, DiskInv, DiskTypes, Entries
<1>2. ASSUME NEW e \in [Segs -> Entries] PROVE EntriesDurable(e) \in [Segs -> Entries]
  BY DEF EntriesDurable, Entries
<1>3. CASE UNCHANGED entry
  BY <1>1, <1>3
<1>4. ASSUME NEW h, NEW keep, DropCommitted(h, keep) PROVE entry' \in [Segs -> Entries]
  BY <1>1, <1>4 DEF DropCommitted, Entries
<1>5. CASE FlushAll \/ CreateEnds
  BY <1>1, <1>2, <1>5 DEF FlushAll, CreateEnds
<1>6. CASE CreateLinks
  BY <1>1, <1>6 DEF CreateLinks, Entries
<1>7. CASE LoadDrops
  <2>1. \A e \in {"gone", "none"} : [entry EXCEPT ![at] = e] \in [Segs -> Entries]
    BY <1>1 DEF Entries
  <2> QED
    BY <1>2, <1>7, <2>1 DEF LoadDrops, RemoveFile
<1>8. CASE (\E f \in Segs : CommitWrites(f)) \/ CommitFlushes \/ CycleDrops
  BY <1>3, <1>4, <1>8 DEF CommitWrites, CommitFlushes, CycleDrops
<1>9. CASE Running
  BY <1>3, <1>5, <1>6, <1>8, <1>9
     DEF Running, AddStages, AddDiscards, AddPublishes, AddSettles, FlushOne,
         CreateReserves,
         CreateWrites, CreateSyncs, fs
<1>10. CASE Failing
  BY <1>3, <1>10 DEF Failing, Lefts, Crash, PowerLoss, Dies, fs
<1>11. CASE Loading
  BY <1>3, <1>7, <1>11
     DEF Loading, OpenBegins, LoadKeeps, LoadConcludes, OpenReturns, RepairWrites,
         RepairFlushes, fs
<1> QED
  BY <1>3, <1>9, <1>10, <1>11 DEF Next, vars, fs

LensOK ==
    /\ len \in [Segs -> 0 .. Full] /\ lens \in [Segs -> SUBSET (0 .. Full)]
    /\ \A f \in Segs : len[f] \in lens[f]

\* The lengths change
LenSteps ==
    \/ UNCHANGED <<len, lens>>
    \/ AddStages \/ CreateLinks \/ CreateReserves \/ RepairFlushes
    \/ /\ UNCHANGED len
       /\ \E F \in SUBSET Segs : lens' = [f \in Segs |-> IF f \in F THEN {len[f]} ELSE lens[f]]

LEMMA LenChanges ==
    ASSUME BInv, [Next]_vars, ~Lefts
    PROVE  LenSteps
<1>0. lens \in [Segs -> SUBSET (0 .. Full)]
  BY DEF BInv, DiskInv, DiskTypes
<1>1. ASSUME NEW f \in Segs, UNCHANGED len, lens' = [lens EXCEPT ![f] = {len[f]}]
      PROVE  LenSteps
  <2>1. lens' = [g \in Segs |-> IF g \in {f} THEN {len[g]} ELSE lens[g]]
    BY <1>0, <1>1
  <2> QED
    BY <1>1, <2>1 DEF LenSteps
<1>2. CASE UNCHANGED <<len, lens>>
  BY <1>2 DEF LenSteps
<1>3. CASE AddPublishes
  <2>1. active \in Segs
    BY <1>3, ActiveIsLive DEF AddPublishes, Idle, BInv, ControlInv, Phased, Numbers
  <2> QED
    BY <1>1, <1>2, <1>3, <2>1 DEF AddPublishes, Publishes, FsyncData
<1>4. CASE FlushAll
  <2>1. len' = len
           /\ lens' = [f \in Segs |-> IF f \in dirty \intersect files THEN {len[f]} ELSE lens[f]]
    BY <1>4 DEF FlushAll
  <2>2. dirty \intersect files \in SUBSET Segs
    BY DEF BInv, ControlInv, Plain
  <2> QED
    BY <2>1, <2>2 DEF LenSteps
<1>5. ASSUME NEW f \in Segs, FlushOne(f) PROVE LenSteps
  BY <1>1, <1>5 DEF FlushOne, Fsync, FsyncData
<1>6. CASE CommitFlushes
  <2>1. committing \in Segs
    BY <1>6 DEF CommitFlushes, BInv, ControlInv, Numbers, Visible
  <2> QED
    BY <1>1, <1>6, <2>1 DEF CommitFlushes, Fsync, FsyncData
<1>7. CASE CreateSyncs
  <2>1. making \in Segs
    BY <1>7 DEF CreateSyncs, Linked, BInv, ControlInv, Numbers
  <2> QED
    BY <1>1, <1>7, <2>1 DEF CreateSyncs, Fsync, FsyncData
<1>9. CASE Running
  BY <1>2, <1>3, <1>4, <1>5, <1>6, <1>7, <1>9
     DEF Running, LenSteps, AddDiscards, AddSettles, CommitWrites, CycleDrops,
         CreateWrites,
         CreateEnds, fs
<1>10. CASE Failing
  BY <1>2, <1>10 DEF Failing, Lefts, Crash, PowerLoss, Dies, fs
<1>11. CASE Loading
  BY <1>2, <1>11
     DEF Loading, LenSteps, OpenBegins, LoadDrops, LoadKeeps, LoadConcludes, OpenReturns,
         RepairWrites, fs
<1> QED
  BY <1>2, <1>9, <1>10, <1>11 DEF Next, vars, fs

\* A file in use only grows
LEMMA LenNext ==
    ASSUME BInv, LenSteps
    PROVE  LensOK' /\ \A f \in Segs : f # making => len'[f] >= len[f]
<1>0. LensOK
  BY DEF BInv, DiskInv, DiskTypes, Cached, LensOK
<1>1. CASE UNCHANGED <<len, lens>>
  BY <1>0, <1>1, Sizes DEF LensOK
<1>2. ASSUME NEW F \in SUBSET Segs, UNCHANGED len,
             lens' = [f \in Segs |-> IF f \in F THEN {len[f]} ELSE lens[f]]
      PROVE  LensOK' /\ \A f \in Segs : f # making => len'[f] >= len[f]
  BY <1>0, <1>2, Sizes DEF LensOK
<1>3. ASSUME NEW f \in Segs, NEW l \in 0 .. Full, NEW L \in SUBSET (0 .. Full), l \in L,
             len' = [len EXCEPT ![f] = l], lens' = [lens EXCEPT ![f] = L],
             f = making \/ l >= len[f]
      PROVE  LensOK' /\ \A g \in Segs : g # making => len'[g] >= len[g]
  BY <1>0, <1>3, Sizes DEF LensOK
<1>4. CASE AddStages
  <2> DEFINE k == hdr[active].w \div Unit + 1
             l == IF len[active] < Hdr + Unit * k THEN Hdr + Unit * k ELSE len[active]
  <2>1. active \in Segs
    BY <1>4, ActiveIsLive DEF AddStages, Idle, BInv, ControlInv, Phased, Numbers
  <2>2. k \in Slots /\ len[active] \in 0 .. Full
    BY <1>0, <1>4, <2>1 DEF AddStages, LensOK
  <2>3. l \in 0 .. Full /\ l >= len[active]
    <3> HIDE DEF k
    <3> QED
      BY <2>2, Sizes
  <2>4. len' = [len EXCEPT ![active] = l] /\ lens' = [lens EXCEPT ![active] = lens[active] \union {l}]
    BY <1>4 DEF AddStages
  <2>5. lens[active] \union {l} \in SUBSET (0 .. Full)
    BY <1>0, <2>1, <2>3 DEF LensOK
  <2> HIDE DEF l
  <2> QED
    BY <1>3, <2>1, <2>3, <2>4, <2>5
<1>5. CASE CreateLinks \/ CreateReserves
  <2>1. making \in Segs
    BY <1>5 DEF CreateLinks, CreateReserves, Linked, BInv, ControlInv, Numbers
  <2>2. CASE CreateLinks
    <3>1. 0 \in 0 .. Full /\ {0} \in SUBSET (0 .. Full) /\ 0 \in {0}
      BY Sizes
    <3>2. len' = [len EXCEPT ![making] = 0] /\ lens' = [lens EXCEPT ![making] = {0}]
      BY <2>2 DEF CreateLinks
    <3> QED
      BY <1>3, <2>1, <3>1, <3>2
  <2>3. CASE CreateReserves
    <3>1. len' = [len EXCEPT ![making] = Full]
             /\ lens' = [lens EXCEPT ![making] = lens[making] \union {Full}]
      BY <2>3 DEF CreateReserves
    <3>2. Full \in 0 .. Full /\ lens[making] \union {Full} \in SUBSET (0 .. Full)
      BY <1>0, <2>1, Sizes DEF LensOK
    <3> QED
      BY <1>3, <2>1, <3>1, <3>2
  <2> QED
    BY <1>5, <2>2, <2>3
<1>6. CASE RepairFlushes
  <2>1. at \in Segs
    BY <1>6 DEF RepairFlushes, BInv, ControlInv, Phased
  <2>2. PICK l \in {len[at], Full} :
            len' = [len EXCEPT ![at] = l] /\ lens' = [lens EXCEPT ![at] = {len[at], l}]
    BY <1>6 DEF RepairFlushes
  <2>3. len[at] \in 0 .. Full /\ l \in 0 .. Full /\ l >= len[at]
    BY <1>0, <2>1, <2>2, Sizes DEF LensOK
  <2> QED
    BY <1>3, <2>1, <2>2, <2>3
<1> QED
  BY <1>1, <1>2, <1>4, <1>5, <1>6 DEF LenSteps

DataOK ==
    /\ data \in [Segs -> [Slots -> Cells]] /\ disk \in [Segs -> [Slots -> SUBSET Cells]]
    /\ \A f \in Segs, k \in Slots : data[f][k] \in disk[f][k]

DataSteps ==
    \/ UNCHANGED <<data, disk>>
    \/ AddStages \/ CreateLinks
    \/ /\ UNCHANGED data
       /\ \E F \in SUBSET Segs :
             disk' = [f \in Segs |-> IF f \in F THEN [k \in Slots |-> {data[f][k]}] ELSE disk[f]]

LEMMA DataChanges ==
    ASSUME BInv, [Next]_vars, ~Lefts
    PROVE  DataSteps
<1>0. disk \in [Segs -> [Slots -> SUBSET Cells]]
  BY DEF BInv, DiskInv, DiskTypes
<1>1. ASSUME NEW f \in Segs, UNCHANGED data, disk' = [disk EXCEPT ![f] = [k \in Slots |-> {data[f][k]}]]
      PROVE  DataSteps
  <2>1. disk' = [g \in Segs |-> IF g \in {f} THEN [k \in Slots |-> {data[g][k]}] ELSE disk[g]]
    BY <1>0, <1>1
  <2> QED
    BY <1>1, <2>1 DEF DataSteps
<1>2. CASE UNCHANGED <<data, disk>>
  BY <1>2 DEF DataSteps
<1>3. CASE AddPublishes
  <2>1. active \in Segs
    BY <1>3, ActiveIsLive DEF AddPublishes, Idle, BInv, ControlInv, Phased, Numbers
  <2> QED
    BY <1>1, <1>2, <1>3, <2>1 DEF AddPublishes, Publishes, FsyncData
<1>4. CASE FlushAll
  <2>1. data' = data /\ disk' = [f \in Segs |-> IF f \in dirty \intersect files
                                  THEN [k \in Slots |-> {data[f][k]}] ELSE disk[f]]
    BY <1>4 DEF FlushAll
  <2>2. dirty \intersect files \in SUBSET Segs
    BY DEF BInv, ControlInv, Plain
  <2> QED
    BY <2>1, <2>2 DEF DataSteps
<1>5. ASSUME NEW f \in Segs, FlushOne(f) PROVE DataSteps
  BY <1>1, <1>5 DEF FlushOne, Fsync, FsyncData
<1>6. CASE CommitFlushes
  <2>1. committing \in Segs
    BY <1>6 DEF CommitFlushes, BInv, ControlInv, Numbers, Visible
  <2> QED
    BY <1>1, <1>6, <2>1 DEF CommitFlushes, Fsync, FsyncData
<1>7. CASE CreateSyncs
  <2>1. making \in Segs
    BY <1>7 DEF CreateSyncs, Linked, BInv, ControlInv, Numbers
  <2> QED
    BY <1>1, <1>7, <2>1 DEF CreateSyncs, Fsync, FsyncData
<1>8. CASE RepairFlushes
  <2>1. at \in Segs
    BY <1>8 DEF RepairFlushes, BInv, ControlInv, Phased
  <2> QED
    BY <1>1, <1>8, <2>1 DEF RepairFlushes
<1>9. CASE Running
  BY <1>2, <1>3, <1>4, <1>5, <1>6, <1>7, <1>9
     DEF Running, DataSteps, AddDiscards, AddSettles, CommitWrites, CycleDrops,
         CreateWrites,
         CreateReserves, CreateEnds, fs
<1>10. CASE Failing
  BY <1>2, <1>10 DEF Failing, Lefts, Crash, PowerLoss, Dies, fs
<1>11. CASE Loading
  BY <1>2, <1>8, <1>11
     DEF Loading, OpenBegins, LoadDrops, LoadKeeps, LoadConcludes, OpenReturns,
         RepairWrites, fs
<1> QED
  BY <1>2, <1>9, <1>10, <1>11 DEF Next, vars, fs

LEMMA DataNext ==
    ASSUME BInv, DataSteps
    PROVE  DataOK'
<1>0. DataOK
  BY DEF BInv, DiskInv, DiskTypes, Cached, DataOK
<1>1. CASE UNCHANGED <<data, disk>>
  BY <1>0, <1>1 DEF DataOK
<1>2. ASSUME NEW F \in SUBSET Segs, UNCHANGED data,
             disk' = [f \in Segs |-> IF f \in F THEN [k \in Slots |-> {data[f][k]}] ELSE disk[f]]
      PROVE  DataOK'
  BY <1>0, <1>2 DEF DataOK
<1>3. CASE AddStages
  <2> DEFINE k == hdr[active].w \div Unit + 1
             r == Len(home) + 1
  <2>1. active \in Segs
    BY <1>3, ActiveIsLive DEF AddStages, Idle, BInv, ControlInv, Phased, Numbers
  <2>2. k \in Slots /\ r \in Cells
    BY <1>3 DEF AddStages, Cells
  <2>3. /\ data' = [data EXCEPT ![active] = [data[active] EXCEPT ![k] = r]]
        /\ disk' = [disk EXCEPT ![active] = [disk[active] EXCEPT ![k] = disk[active][k] \union {r}]]
    BY <1>3 DEF AddStages
  <2> HIDE DEF k, r
  <2>4. /\ [data[active] EXCEPT ![k] = r] \in [Slots -> Cells]
        /\ [disk[active] EXCEPT ![k] = disk[active][k] \union {r}] \in [Slots -> SUBSET Cells]
    BY <1>0, <2>1, <2>2 DEF DataOK
  <2>5. data' \in [Segs -> [Slots -> Cells]] /\ disk' \in [Segs -> [Slots -> SUBSET Cells]]
    BY <1>0, <2>1, <2>3, <2>4 DEF DataOK
  <2>6. \A f \in Segs, j \in Slots : data'[f][j] \in disk'[f][j]
    BY <1>0, <2>1, <2>2, <2>3 DEF DataOK
  <2> QED
    BY <2>5, <2>6 DEF DataOK
<1>4. CASE CreateLinks
  <2>1. making \in Segs
    BY <1>4 DEF CreateLinks, BInv, ControlInv, Numbers
  <2>2. Blank \in [Slots -> Cells] /\ [k \in Slots |-> {None}] \in [Slots -> SUBSET Cells]
    BY DEF Blank, Cells
  <2> QED
    BY <1>0, <1>4, <2>1, <2>2 DEF DataOK, CreateLinks, Blank
<1> QED
  BY <1>1, <1>2, <1>3, <1>4 DEF DataSteps

LEMMA DiskNext ==
    ASSUME BInv, [Next]_vars
    PROVE  DiskInv'
<1>1. CASE Lefts
  BY <1>1, LeftSteps, LeftDisk DEF BInv
<1>2. CASE ~Lefts
  <2>1. HeadersOK
    BY DEF BInv, DiskInv, DiskTypes, Cached, HeadersSane, HeadersOK
  <2>2. HeadersOK'
    BY <1>2, <2>1, HeaderSteps, WritesOK, SettlesOK
  <2> QED
    BY <1>2, <2>2, EntryNext, LenChanges, LenNext, DataChanges, DataNext
       DEF HeadersOK, LensOK, DataOK, DiskInv, DiskTypes, Cached, HeadersSane, Entries
<1> QED
  BY <1>1, <1>2

-----------------------------------------------------------------------------
(* Every step leaves a store *)

LEMMA SegsFacts ==
    ASSUME BInv
    PROVE  /\ files \subseteq Segs /\ files \subseteq Visible /\ Visible \subseteq Segs
           /\ phase \in Phases /\ making \in Segs \union {None}
           /\ files # {} => active \in files /\ active \in Segs
           /\ \A f \in files : f <= active
  BY ActiveIsLive DEF BInv, ControlInv, Phased, Numbers, Visible

\* The live segments that a commit or a cycle leaves
LEMMA Dropped ==
    ASSUME BInv, NEW h, NEW keep, DropCommitted(h, keep)
    PROVE  /\ files' \subseteq files /\ Visible' \subseteq Visible /\ files' \subseteq Visible'
           /\ \A f \in files : f = keep => f \in files'
           /\ \A f \in Segs : f \notin files => entry'[f] = entry[f]
<1>1. entry \in [Segs -> Entries] /\ files \subseteq Visible /\ Visible \subseteq Segs
         /\ Segs \subseteq Nat
  BY SegsFacts, Sizes DEF BInv, DiskInv, DiskTypes, Entries
<1>2. files' = files \ Drained(h, keep)
  BY DEF DropCommitted
<1>3. \A f \in Segs : entry'[f] = IF f \in Drained(h, keep) THEN "gone" ELSE entry[f]
  BY <1>1 DEF DropCommitted
<1>4. ASSUME NEW f \in Segs, f = keep PROVE f \notin Drained(h, keep)
  <2>1. ~(f < keep)
    BY <1>1, <1>4
  <2> QED
    BY <2>1 DEF Drained
<1> QED
  BY <1>1, <1>2, <1>3, <1>4 DEF Visible, Drained

LEMMA DurableEntries ==
    ASSUME NEW e \in [Segs -> Entries], NEW f \in Segs
    PROVE  /\ EntriesDurable(e)[f] \in {"new", "here"} <=> e[f] \in {"new", "here"}
           /\ EntriesDurable(e)[f] # "new"
  BY DEF EntriesDurable, Entries

LEMMA PlainNext ==
    ASSUME BInv, [Next]_vars
    PROVE  Plain'
<1>1. Plain /\ files \subseteq Segs /\ making \in Segs \union {None}
  BY SegsFacts DEF BInv, ControlInv
<1>2. CASE UNCHANGED <<dirty, adding, home>>
  BY <1>1, <1>2 DEF Plain
<1>3. CASE AddStages
  <2>1. active \in Segs
    BY <1>3, SegsFacts DEF AddStages, Idle, BInv, ControlInv, Phased
  <2>2. home' = Append(home, active) /\ adding' = Len(home) + 1 /\ Len(home) + 1 \in Recs
    BY <1>3 DEF AddStages
  <2>3. home' \in Seq(Segs) /\ Len(home') = Len(home) + 1
    BY <1>1, <2>1, <2>2 DEF Plain
  <2>4. dirty' \subseteq Segs
    BY <1>1, <1>3, <2>1 DEF AddStages, Plain
  <2> QED
    BY <2>2, <2>3, <2>4, Sizes DEF Plain
<1>4. CASE AddDiscards \/ AddPublishes \/ AddSettles
  <2>1. active \in Segs
    BY <1>4, SegsFacts DEF AddDiscards, AddPublishes, AddSettles, Idle, BInv, ControlInv,
                           Phased
  <2> QED
    BY <1>1, <1>4, <2>1 DEF AddDiscards, AddPublishes, AddSettles, Plain, ghost
<1>5. CASE FlushAll \/ (\E f \in Segs : FlushOne(f) \/ CommitWrites(f) \/ RepairWrites(f))
           \/ CommitFlushes \/ CreateSyncs \/ RepairFlushes
  BY <1>1, <1>5
     DEF FlushAll, FlushOne, CommitWrites, RepairWrites, CommitFlushes, CreateSyncs,
         RepairFlushes, Fsync, WriteHeader, Plain, ghost
<1>6. CASE CreateWrites
  <2>1. making \in Segs
    BY <1>1, <1>6 DEF CreateWrites, Linked
  <2> QED
    BY <1>1, <1>6, <2>1 DEF CreateWrites, WriteHeader, Plain, ghost
<1>7. CASE Crash \/ PowerLoss
  BY <1>1, <1>7 DEF Crash, PowerLoss, Dies, Plain
<1>8. CASE Lefts
  BY <1>2, <1>8, LeftSteps DEF store
<1>9. CASE Running
  BY <1>2, <1>3, <1>4, <1>5, <1>6, <1>9
     DEF Running, CycleDrops, CreateLinks, CreateReserves, CreateEnds, store, ghost
<1>10. CASE Failing
  BY <1>7, <1>8, <1>10 DEF Failing, Lefts
<1>11. CASE Loading
  BY <1>2, <1>5, <1>11
     DEF Loading, OpenBegins, LoadDrops, LoadKeeps, LoadConcludes, OpenReturns, store,
         ghost
<1> QED
  BY <1>2, <1>9, <1>10, <1>11 DEF Next, vars, store, ghost

\* The steps that leave the segments and their names alone
Quiet ==
    /\ UNCHANGED <<policy, phase, at, entry, files, nextNum, making, committing>>
    /\ adding' \in {None, adding} \/ (phase = "open" /\ making = None)

LEMMA QuietSteps ==
    ASSUME BInv, Running
    PROVE  \/ Quiet \/ FlushAll \/ (\E f \in Segs : CommitWrites(f)) \/ CommitFlushes
           \/ CycleDrops \/ CreateLinks \/ CreateEnds
<1>1. CASE AddStages \/ AddDiscards \/ AddPublishes \/ AddSettles
  BY <1>1 DEF Quiet, AddStages, AddDiscards, AddPublishes, AddSettles, Idle, fs
<1>2. CASE (\E f \in Segs : FlushOne(f)) \/ CreateReserves \/ CreateWrites \/ CreateSyncs
  BY <1>2 DEF Quiet, FlushOne, CreateReserves, CreateWrites, CreateSyncs, store
<1> QED
  BY <1>1, <1>2 DEF Running

LEMMA PhasedNext ==
    ASSUME BInv, [Next]_vars
    PROVE  Phased'
<1>1. Phased /\ Numbers
  BY DEF BInv, ControlInv
<1>2. CASE Quiet
  BY <1>1, <1>2 DEF Quiet, Phased
<1>3. CASE UNCHANGED vars
  BY <1>1, <1>3 DEF vars, store, Phased
<1>4. CASE FlushAll
  BY <1>1, <1>4 DEF FlushAll, Idle, Phased
<1>5. ASSUME NEW f \in Segs, CommitWrites(f) PROVE Phased'
  <2>1. /\ phase = "open" /\ making = None /\ UNCHANGED <<policy, phase, at, making,
                                                          adding>>
        /\ files # {}
    BY <1>1, <1>5 DEF CommitWrites, Free, Idle, Phased
  <2>2. files' # {}
    <3>1. CASE UNCHANGED files
      BY <2>1, <3>1
    <3>2. ASSUME NEW h, DropCommitted(h, active) PROVE files' # {}
      BY <2>1, <3>2, Dropped, SegsFacts
    <3> QED
      BY <1>5, <3>1, <3>2 DEF CommitWrites
  <2> QED
    BY <1>1, <2>1, <2>2 DEF Phased
<1>6. CASE CommitFlushes
  <2>1. /\ phase = "open" /\ making = None /\ UNCHANGED <<policy, phase, at, making,
                                                          adding>>
        /\ files # {}
    BY <1>1, <1>6 DEF CommitFlushes, Phased
  <2>2. files' # {}
    BY <1>6, <2>1, Dropped, SegsFacts DEF CommitFlushes
  <2> QED
    BY <1>1, <2>1, <2>2 DEF Phased
<1>7. CASE CycleDrops
  <2>1. nextNum # None
    BY <1>7, Sizes DEF CycleDrops
  <2> QED
    BY <1>1, <1>7, <2>1 DEF CycleDrops, Idle, Phased
<1>8. CASE CreateLinks
  BY <1>1, <1>8 DEF CreateLinks, store, Phased
<1>9. CASE CreateEnds
  BY <1>1, <1>9, Sizes DEF CreateEnds, Linked, Phased, Phases
<1>10. CASE Crash \/ PowerLoss
  BY <1>1, <1>10, Sizes DEF Crash, PowerLoss, Dies, Phased, Phases
<1>11. CASE Lefts
  <2>1. UNCHANGED <<policy, store>> /\ phase \in {"losing", "off"}
    BY <1>11, LeftSteps
  <2>2. CASE PowerLossLeaves
    <3>1. phase' \in {"losing", "off"} /\ at' \in 0 .. MaxSeg /\ (phase' = "losing" => at' \in Segs)
      BY <1>1, <2>2, Sizes DEF PowerLossLeaves, Phased
    <3> QED
      BY <1>1, <2>1, <3>1 DEF Phased, Phases, store
  <2>3. CASE ~PowerLossLeaves
    <3>1. UNCHANGED <<phase, at>>
      BY <1>11, <2>3 DEF Lefts, Cut, Overwritten, Struck
    <3> QED
      BY <1>1, <2>1, <3>1 DEF Phased, store
  <2> QED
    BY <2>2, <2>3
<1>12. CASE OpenBegins
  <2>1. Visible # {} => Min(Visible) \in Visible
    BY SegsFacts, MinOf, Sizes
  <2>2. Visible # {} => Min(Visible) \in Segs /\ Min(Visible) \in 0 .. MaxSeg
    BY <2>1, SegsFacts, Sizes
  <2>3. UNCHANGED <<policy, files, adding, committing>> /\ files = {}
    BY <1>1, <1>12 DEF OpenBegins, Phased
  <2>4. CASE Visible = {}
    BY <1>1, <1>12, <2>3, <2>4, Sizes DEF OpenBegins, Phased, Phases, None
  <2>5. CASE Visible # {}
    BY <1>1, <1>12, <2>2, <2>3, <2>5 DEF OpenBegins, Phased, Phases
  <2> QED
    BY <2>4, <2>5
<1>13. CASE LoadDrops \/ LoadKeeps
  <2>1. /\ UNCHANGED <<policy, making, adding, committing>>
        /\ phase = "load" /\ LoadNext(at)
    BY <1>13 DEF LoadDrops, LoadKeeps, store
  <2>2. phase' \in {"load", "conclude"} /\ at' \in 0 .. MaxSeg /\ (phase' = "load" => at' \in Segs)
    <3>1. Above(at) # {} => Min(Above(at)) \in Above(at)
      BY SegsFacts, MinOf, Sizes DEF Above
    <3>2. Above(at) \subseteq Segs
      BY SegsFacts DEF Above
    <3> QED
      BY <2>1, <3>1, <3>2, Sizes DEF LoadNext
  <2> QED
    BY <1>1, <2>1, <2>2 DEF Phased, Phases
<1>14. CASE LoadConcludes
  <2>1. nextNum \in Segs => nextNum # None
    BY Sizes
  <2> QED
    BY <1>1, <1>14, <2>1 DEF LoadConcludes, Phased, Phases
<1>15. ASSUME NEW f \in Segs, RepairWrites(f) PROVE Phased'
  <2>1. f \in files /\ f \in 0 .. MaxSeg
    BY <1>15, Sizes DEF RepairWrites, Unrepaired
  <2> QED
    BY <1>1, <1>15, <2>1 DEF RepairWrites, Phased, Phases
<1>16. CASE RepairFlushes \/ OpenReturns
  <2>1. 0 \in 0 .. MaxSeg
    BY Sizes
  <2> QED
    BY <1>1, <1>16, <2>1 DEF RepairFlushes, OpenReturns, Phased, Phases
<1>17. CASE Running
  BY <1>2, <1>4, <1>5, <1>6, <1>7, <1>8, <1>9, <1>17, QuietSteps
<1>18. CASE Failing
  BY <1>10, <1>11, <1>18 DEF Failing, Lefts
<1>19. CASE Loading
  BY <1>12, <1>13, <1>14, <1>15, <1>16, <1>19 DEF Loading
<1> QED
  BY <1>3, <1>17, <1>18, <1>19 DEF Next

LEMMA NumbersNext ==
    ASSUME BInv, [Next]_vars
    PROVE  Numbers'
<1>1. Phased /\ Numbers
  BY DEF BInv, ControlInv
<1>0. entry \in [Segs -> Entries]
  BY DEF BInv, DiskInv, DiskTypes, Entries
<1>2. CASE Quiet
  BY <1>1, <1>2 DEF Quiet, Numbers, Visible
<1>3. CASE UNCHANGED vars
  BY <1>1, <1>3 DEF vars, store, fs, Numbers, Visible
<1>4. CASE FlushAll
  <2>1. Visible' = Visible
    BY <1>0, <1>4, DurableEntries DEF FlushAll, Visible
  <2> QED
    BY <1>1, <1>4, <2>1 DEF FlushAll, Idle, Numbers
<1>5. ASSUME NEW f \in Segs, CommitWrites(f) PROVE Numbers'
  <2>1. /\ phase = "open" /\ making = None /\ UNCHANGED <<phase, making, nextNum>>
        /\ committing = None /\ f \in files
    BY <1>1, <1>5 DEF CommitWrites, Free, Idle
  <2>2. CASE policy = "perOp"
    BY <1>1, <1>5, <2>1, <2>2 DEF CommitWrites, Numbers, Visible
  <2>3. CASE policy # "perOp"
    <3>1. files' \subseteq files /\ Visible' \subseteq Visible /\ files' \subseteq Visible'
      BY <1>5, <2>3, Dropped DEF CommitWrites
    <3> QED
      BY <1>1, <1>5, <2>1, <2>3, <3>1 DEF CommitWrites, Numbers
  <2> QED
    BY <2>2, <2>3
<1>6. CASE CommitFlushes
  <2>1. /\ phase = "open" /\ making = None /\ UNCHANGED <<phase, making, nextNum>>
        /\ committing' = None
    BY <1>1, <1>6 DEF CommitFlushes, Phased
  <2>2. files' \subseteq files /\ Visible' \subseteq Visible /\ files' \subseteq Visible'
    BY <1>6, Dropped DEF CommitFlushes
  <2> QED
    BY <1>1, <2>1, <2>2 DEF Numbers
<1>7. CASE CycleDrops
  <2>1. files' \subseteq files /\ Visible' \subseteq Visible /\ files' \subseteq Visible'
    BY <1>7, Dropped DEF CycleDrops
  <2>2. /\ phase = "open" /\ making = None /\ committing = None /\ making' = nextNum
        /\ UNCHANGED <<phase, nextNum, committing>> /\ nextNum \in Segs
    BY <1>7 DEF CycleDrops, Idle
  <2>3. nextNum \notin Visible /\ nextNum \notin files /\ \A f \in Visible : f < nextNum
    <3>1. \A f \in Visible \ {None} : f < nextNum
      BY <1>1, <2>2 DEF Numbers, Numbered
    <3> QED
      BY <1>1, <2>2, <3>1, SegsFacts, Sizes
  <2>4. entry'[nextNum] # "here"
    BY <2>1, <2>2, <2>3 DEF Visible
  <2>5. \A f \in Visible' : f < nextNum'
    BY <2>1, <2>2, <2>3
  <2> QED
    BY <1>1, <2>1, <2>2, <2>3, <2>4, <2>5 DEF Numbers, Numbered
<1>8. CASE CreateLinks
  <2>1. making \in Segs /\ Visible' = Visible \union {making} /\ entry'[making] = "new"
    BY <1>0, <1>1, <1>8 DEF CreateLinks, Numbers, Visible
  <2>2. phase \in {"open", "fresh"} /\ UNCHANGED <<phase, files, nextNum, making,
                                                   committing>>
    BY <1>1, <1>8 DEF CreateLinks, store, Phased
  <2> QED
    BY <1>1, <2>1, <2>2 DEF Numbers, Numbered
<1>9. CASE CreateEnds
  <2>1. /\ making \in Segs /\ making' = None /\ nextNum' = making + 1
        /\ files' = files \union {making} /\ UNCHANGED committing /\ committing = None
        /\ phase' = "open" /\ making \in Visible /\ phase \in {"open", "fresh"}
    BY <1>1, <1>9 DEF CreateEnds, Linked, Phased, Numbers, Visible
  <2>2. Visible' = Visible
    BY <1>0, <1>9, DurableEntries DEF CreateEnds, Visible
  <2>3. \A f \in Visible : f < making + 1
    <3>1. CASE phase = "open"
      BY <1>1, <2>1, <3>1, SegsFacts, Sizes DEF Numbers, Numbered
    <3>2. CASE phase = "fresh"
      BY <1>1, <2>1, <3>2, SegsFacts, Sizes DEF Numbers
    <3> QED
      BY <2>1, <3>1, <3>2
  <2>4. making + 1 \in 0 .. MaxSeg + 1 /\ None \notin Segs
    BY <2>1, Sizes
  <2> QED
    BY <1>1, <2>1, <2>2, <2>3, <2>4, SegsFacts DEF Numbers
<1>10. CASE Crash \/ PowerLoss
  <2>1. 0 \in 0 .. MaxSeg + 1
    BY Sizes
  <2> QED
    BY <1>1, <1>10, <2>1 DEF Crash, PowerLoss, Dies, Numbers, Numbered
<1>11. CASE Lefts
  <2>1. UNCHANGED store /\ phase' \in {"losing", "off"} /\ phase \in {"losing", "off"}
    BY <1>11, LeftSteps DEF Lefts, PowerLossLeaves, Cut, Overwritten, Struck
  <2>2. files = {} /\ making = None
    BY <1>1, <2>1 DEF Phased
  <2> QED
    BY <1>1, <2>1, <2>2 DEF Numbers, Numbered, store
<1>12. CASE OpenBegins
  <2>1. UNCHANGED <<entry, files,
                    committing>> /\ files = {} /\ making = None /\ Visible' = Visible
    BY <1>1, <1>12 DEF OpenBegins, Phased, fs, Visible
  <2>2. CASE Visible = {}
    <3>1. making' = 1 /\ phase' = "fresh" /\ nextNum' = nextNum /\ 1 \in Segs
      BY <1>12, <2>2, Sizes DEF OpenBegins
    <3>2. entry[1] # "here"
      BY <2>2, <3>1 DEF Visible
    <3> QED
      BY <1>1, <2>1, <2>2, <3>1, <3>2 DEF Numbers, Numbered
  <2>3. CASE Visible # {}
    <3>1. Min(Visible) \in Visible /\ \A f \in Visible : Min(Visible) <= f
      BY <2>3, SegsFacts, MinOf, Sizes
    <3>2. Max(Visible) \in Visible /\ \A f \in Visible : f <= Max(Visible)
      <4>1. Visible \subseteq 0 .. MaxSeg /\ MaxSeg \in Nat
        BY SegsFacts, Sizes
      <4> QED
        BY <2>3, <4>1, MaxOf
    <3>3. /\ making' = None /\ phase' = "load" /\ at' = Min(Visible)
          /\ nextNum' = Max(Visible) + 1
      BY <1>12, <2>1, <2>3 DEF OpenBegins, NextNumber
    <3>4. Max(Visible) + 1 \in 0 .. MaxSeg + 1 /\ \A f \in Visible : f < Max(Visible) + 1
      BY <3>2, SegsFacts, Sizes
    <3>5. \A f \in Visible : f >= Min(Visible)
      BY <3>1, SegsFacts, Sizes
    <3> QED
      BY <1>1, <2>1, <3>1, <3>3, <3>4, <3>5 DEF Numbers
  <2> QED
    BY <2>2, <2>3
<1>13. CASE LoadDrops \/ LoadKeeps
  <2>1. /\ UNCHANGED <<making, committing, nextNum>>
        /\ phase = "load" /\ LoadNext(at) /\ making = None /\ committing = None
        /\ at \in Segs /\ at \in Visible
    BY <1>1, <1>13, SegsFacts DEF LoadDrops, LoadKeeps, store, Phased, Numbers
  <2>2. \/ files' = files /\ Visible' = Visible \ {at}
        \/ files' = files \union {at} /\ Visible' = Visible
    <3>1. CASE LoadKeeps
      BY <3>1 DEF LoadKeeps, fs, Visible
    <3>2. CASE LoadDrops
      <4>1. UNCHANGED files /\ RemoveFile(at)
        BY <3>2 DEF LoadDrops, store
      <4>2. \A f \in Segs : entry'[f] \in {"new", "here"} <=> (f # at /\ entry[f] \in {"new", "here"})
        <5>1. [entry EXCEPT ![at] = "none"] \in [Segs -> Entries]
          BY <1>0 DEF Entries
        <5>2. CASE policy = "noSync"
          BY <1>0, <2>1, <4>1, <5>2 DEF RemoveFile
        <5>3. CASE policy # "noSync"
          <6>1. entry' = EntriesDurable([entry EXCEPT ![at] = "none"])
            BY <4>1, <5>3 DEF RemoveFile
          <6> QED
            BY <1>0, <2>1, <5>1, <6>1, DurableEntries
        <5> QED
          BY <5>2, <5>3
      <4> QED
        BY <4>1, <4>2 DEF Visible
    <3> QED
      BY <1>13, <3>1, <3>2
  <2>3. \A f \in files : f < at
    BY <1>1, <2>1 DEF Numbers
  <2>4. files' \subseteq Visible' /\ Visible' \subseteq Visible /\ None \notin files'
    BY <1>1, <2>1, <2>2, <2>3, SegsFacts, Sizes DEF Numbers
  <2>5. \A f \in Visible : f \in files \/ f = at \/ f \in Above(at)
    BY <1>1, <2>1, SegsFacts, Sizes DEF Numbers, Above
  <2>6. CASE Above(at) = {}
    <3>1. phase' = "conclude"
      BY <2>1, <2>6 DEF LoadNext
    <3>2. Visible' \subseteq files'
      BY <2>2, <2>5, <2>6
    <3> QED
      BY <1>1, <2>1, <2>4, <3>1, <3>2 DEF Numbers, Numbered
  <2>7. CASE Above(at) # {}
    <3>1. phase' = "load" /\ at' = Min(Above(at))
      BY <2>1, <2>7 DEF LoadNext
    <3>2. /\ Min(Above(at)) \in Above(at) /\ \A f \in Above(at) : Min(Above(at)) <= f
      BY <2>7, SegsFacts, MinOf, Sizes DEF Above
    <3>3. at' \in Visible /\ at' > at /\ at' \in Segs /\ at' \in Visible'
      BY <2>2, <3>1, <3>2, SegsFacts, Sizes DEF Above
    <3>4. \A f \in files' : f < at'
      BY <2>1, <2>2, <2>3, <3>3, SegsFacts, Sizes
    <3>5. \A f \in Visible' : f \in files' \/ f >= at'
      BY <2>2, <2>4, <2>5, <3>1, <3>2, <3>3, SegsFacts, Sizes
    <3> QED
      BY <1>1, <2>1, <2>4, <3>1, <3>3, <3>4, <3>5 DEF Numbers, Numbered
  <2> QED
    BY <2>6, <2>7
<1>14. CASE LoadConcludes
  <2>1. /\ UNCHANGED <<entry, files, nextNum, committing>> /\ Visible' = Visible
        /\ phase = "conclude" /\ making = None /\ committing = None
    BY <1>1, <1>14 DEF LoadConcludes, Phased, fs, Visible
  <2>2. CASE files = {}
    <3>1. phase' = "fresh" /\ making' = nextNum /\ nextNum \in Segs /\ Visible = {}
      BY <1>1, <1>14, <2>1, <2>2 DEF LoadConcludes, Numbers
    <3> QED
      BY <1>1, <2>1, <2>2, <3>1 DEF Numbers, Numbered, Visible
  <2>3. CASE files # {}
    BY <1>1, <1>14, <2>1, <2>3 DEF LoadConcludes, Numbers, Numbered
  <2> QED
    BY <2>2, <2>3
<1>15. CASE (\E f \in Segs : RepairWrites(f)) \/ RepairFlushes \/ OpenReturns
  <2>1. /\ UNCHANGED <<entry, files, nextNum, making, committing>> /\ Visible' = Visible
        /\ phase \in {"repair", "flush"} /\ phase' \in {"repair", "flush", "open"}
        /\ making = None
    BY <1>1, <1>15 DEF RepairWrites, RepairFlushes, OpenReturns, Phased, fs, Visible
  <2> QED
    BY <1>1, <2>1 DEF Numbers, Numbered
<1>17. CASE Running
  BY <1>2, <1>4, <1>5, <1>6, <1>7, <1>8, <1>9, <1>17, QuietSteps
<1>18. CASE Failing
  BY <1>10, <1>11, <1>18 DEF Failing, Lefts
<1>19. CASE Loading
  BY <1>12, <1>13, <1>14, <1>15, <1>19 DEF Loading
<1> QED
  BY <1>3, <1>17, <1>18, <1>19 DEF Next

\* While a segment is being created nothing else happens
LEMMA MakingSteps ==
    ASSUME BInv, making # None, [Next]_vars
    PROVE  \/ CreateLinks \/ CreateReserves \/ CreateWrites \/ CreateSyncs \/ CreateEnds
           \/ Crash \/ PowerLoss \/ UNCHANGED vars
<1>1. adding = None /\ committing = None /\ phase \in {"open", "fresh"}
  BY DEF BInv, ControlInv, Phased
<1>2. ASSUME NEW f \in Segs PROVE ~FlushOne(f) /\ ~CommitWrites(f)
  BY <1>1 DEF FlushOne, CommitWrites, Free, Idle
<1>3. ~AddStages /\ ~AddDiscards /\ ~AddPublishes /\ ~AddSettles /\ ~FlushAll /\ ~CommitFlushes
         /\ ~CycleDrops
  BY <1>1 DEF AddStages, AddDiscards, AddPublishes, AddSettles, FlushAll, CommitFlushes,
              CycleDrops, Idle
<1>4. ~Lefts
  BY <1>1, LeftSteps
<1>5. ~Loading
  BY <1>1 DEF Loading, OpenBegins, LoadDrops, LoadKeeps, LoadConcludes, RepairWrites,
              RepairFlushes, OpenReturns
<1> QED
  BY <1>2, <1>3, <1>4, <1>5 DEF Next, Running, Failing, Lefts

\* createFile is called for a name that is not there
LEMMA MakingBegins ==
    ASSUME BInv, [Next]_vars, making = None, making' # None
    PROVE  entry'[making'] # "new"
<1>0. Numbers
  BY DEF BInv, ControlInv
<1>1. CycleDrops \/ OpenBegins \/ LoadConcludes
  <2>1. CASE Running
    BY <2>1, QuietSteps DEF Quiet, FlushAll, CommitWrites, CommitFlushes, CreateLinks,
       CreateEnds, Linked
  <2>2. CASE Failing
    BY <2>2, LeftSteps DEF Failing, Lefts, Crash, PowerLoss, Dies, store
  <2>3. CASE Loading
    BY <2>3 DEF Loading, LoadDrops, LoadKeeps, RepairWrites, RepairFlushes, OpenReturns,
                store
  <2> QED
    BY <2>1, <2>2, <2>3 DEF Next, vars, store
<1> QED
  <2>1. CASE CycleDrops
    <3>1. Visible' \subseteq Visible /\ making' = nextNum /\ nextNum \in Segs
      BY <2>1, Dropped DEF CycleDrops
    <3>2. nextNum \notin Visible
      <4>1. \A f \in Visible \ {None} : f < nextNum
        BY <1>0, <2>1 DEF Numbers, Numbered, CycleDrops, Idle
      <4> QED
        BY <3>1, <4>1, Sizes
    <3> QED
      BY <3>1, <3>2 DEF Visible
  <2>2. CASE OpenBegins
    <3>1. Visible = {} /\ making' = 1 /\ UNCHANGED entry
      BY <2>2 DEF OpenBegins, fs
    <3> QED
      BY <3>1, Sizes DEF Visible
  <2>3. CASE LoadConcludes
    <3>1. files = {} /\ making' = nextNum /\ nextNum \in Segs /\ UNCHANGED entry /\ Visible = {}
      BY <1>0, <2>3 DEF LoadConcludes, fs, Numbers
    <3> QED
      BY <3>1 DEF Visible
  <2> QED
    BY <1>1, <2>1, <2>2, <2>3

LEMMA MadeNext ==
    ASSUME BInv, [Next]_vars
    PROVE  Made'
<1>1. Made /\ Numbers /\ Phased /\ DiskInv
  BY DEF BInv, ControlInv
<1>2. CASE making' = None
  BY <1>2 DEF Made, Linked
<1>3. CASE making = None /\ making' # None
  BY <1>3, MakingBegins DEF Made, Linked
<1>4. CASE making # None /\ making' # None
  <2>1. making \in Segs
    BY <1>1, <1>4 DEF Numbers
  <2>2. CASE UNCHANGED vars
    BY <1>1, <2>2 DEF vars, fs, store, Made, Linked
  <2>3. CASE CreateLinks
    <3>1. making' = making /\ hdr'[making] = Broken("zero")
      BY <1>1, <2>1, <2>3 DEF CreateLinks, store, DiskInv, DiskTypes
    <3> QED
      BY <3>1, BrokenIs DEF Made, Linked, HeaderKinds
  <2>4. CASE CreateReserves
    <3>1. making' = making /\ hdr' = hdr /\ len'[making] = Full /\ Linked
      BY <1>1, <2>1, <2>4 DEF CreateReserves, store, DiskInv, DiskTypes
    <3> QED
      BY <1>1, <3>1 DEF Made
  <2>5. CASE CreateWrites
    <3>1. making' = making /\ hdr'[making] = Header(0, 0, 0, 0) /\ len' = len /\ len[making] = Full
      BY <1>1, <2>1, <2>5 DEF CreateWrites, WriteHeader, DiskInv, DiskTypes
    <3> QED
      BY <3>1 DEF Made
  <2>6. CASE CreateSyncs
    <3>1. making' = making /\ hdr' = hdr /\ len' = len /\ Linked
      BY <2>6 DEF CreateSyncs
    <3> QED
      BY <1>1, <3>1 DEF Made
  <2>7. CASE CreateEnds \/ Crash \/ PowerLoss
    BY <1>4, <2>7 DEF CreateEnds, Crash, PowerLoss, Dies
  <2> QED
    BY <1>4, <2>2, <2>3, <2>4, <2>5, <2>6, <2>7, MakingSteps
<1> QED
  BY <1>2, <1>3, <1>4

\* While an append is under way, so is at most a commit
LEMMA AddingSteps ==
    ASSUME BInv, adding # None, [Next]_vars
    PROVE  \/ AddDiscards \/ AddPublishes \/ AddSettles \/ (\E f \in Segs : CommitWrites(f))
           \/ CommitFlushes \/ Crash \/ PowerLoss \/ UNCHANGED vars
<1>1. phase = "open" /\ making = None
  BY DEF BInv, ControlInv, Phased
<1>2. ~AddStages /\ ~FlushAll /\ ~CycleDrops /\ \A f \in Segs : ~FlushOne(f)
  BY DEF AddStages, FlushAll, CycleDrops, FlushOne
<1>3. ~CreateLinks /\ ~CreateReserves /\ ~CreateWrites /\ ~CreateSyncs /\ ~CreateEnds
  BY <1>1 DEF CreateLinks, CreateReserves, CreateWrites, CreateSyncs, CreateEnds, Linked
<1>4. ~Lefts
  BY <1>1, LeftSteps
<1>5. ~Loading
  BY <1>1 DEF Loading, OpenBegins, LoadDrops, LoadKeeps, LoadConcludes, RepairWrites,
              RepairFlushes, OpenReturns
<1> QED
  BY <1>2, <1>3, <1>4, <1>5 DEF Next, Running, Failing, Lefts

LEMMA ActiveStays ==
    ASSUME BInv, files' \subseteq files, files # {}, active \in files'
    PROVE  active' = active
<1>1. files \subseteq 0 .. MaxSeg /\ MaxSeg \in Nat /\ files \subseteq Nat
  BY SegsFacts, Sizes
<1>2. Max(files') \in files' /\ \A f \in files' : f <= Max(files')
  BY <1>1, MaxOf
<1>3. active \in files /\ \A f \in files : f <= active
  BY SegsFacts
<1>4. active <= Max(files') /\ Max(files') <= active /\ active \in Nat /\ Max(files') \in Nat
  BY <1>1, <1>2, <1>3
<1> QED
  BY <1>4 DEF active

\* A commit keeps the active segment
LEMMA CommitKeepsActive ==
    ASSUME BInv, (\E f \in Segs : CommitWrites(f)) \/ CommitFlushes
    PROVE  files' \subseteq files /\ active' = active /\ phase = "open" /\ phase' = "open"
       /\ making = None
           /\ files # {}
<1>1. phase = "open" /\ phase' = "open" /\ making = None /\ files # {}
  BY DEF CommitWrites, CommitFlushes, Free, Idle, BInv, ControlInv, Phased
<1>2. CASE UNCHANGED files
  BY <1>1, <1>2 DEF active
<1>3. ASSUME NEW h, DropCommitted(h, active) PROVE files' \subseteq files /\ active' = active
  BY <1>1, <1>3, Dropped, SegsFacts, ActiveStays
<1> QED
  BY <1>1, <1>2, <1>3 DEF CommitWrites, CommitFlushes

LEMMA AddingBegins ==
    ASSUME BInv, [Next]_vars, adding = None, adding' # None
    PROVE  AddStages
<1>1. CASE Running
  BY <1>1 DEF Running, AddDiscards, AddPublishes, AddSettles, FlushAll,
     FlushOne, CommitWrites, CommitFlushes, CycleDrops, CreateLinks, CreateReserves,
     CreateWrites, CreateSyncs, CreateEnds, store
<1>2. CASE Failing
  BY <1>2, LeftSteps DEF Failing, Lefts, Crash, PowerLoss, Dies, store
<1>3. CASE Loading
  BY <1>3 DEF Loading, OpenBegins, LoadDrops, LoadKeeps, LoadConcludes, RepairWrites,
     RepairFlushes, OpenReturns, store
<1> QED
  BY <1>1, <1>2, <1>3 DEF Next, vars, store

\* A header published covers the record it is published for
LEMMA PublishedNow ==
    ASSUME BInv, AddPublishes
    PROVE  /\ active \in files /\ active \in Segs /\ active' = active
           /\ hdr[active].kind = "ok" /\ hdr[active].w = Unit * hdr[active].nw
           /\ hdr[active].nw \in Nat /\ hdr[active].nw + 1 \in Slots
           /\ data[active][hdr[active].nw + 1] = adding
           /\ hdr'[active].w = hdr[active].w + Unit /\ hdr'[active].kind = "ok"
           /\ adding \in Published(active)'
<1> DEFINE h == [hdr[active] EXCEPT !.w = @ + Unit, !.nw = @ + 1]
<1>0. /\ DiskInv /\ DiskTypes /\ Phased /\ Plain /\ Staged
  BY DEF BInv, DiskInv, ControlInv, CursorInv
<1>1. /\ hdr' = [hdr EXCEPT ![active] = h] /\ data' = data /\ adding # None
      /\ active' = active /\ adding \notin Published(active) /\ phase = "open"
      /\ making = None
  BY DEF AddPublishes, Publishes, active, Idle
<1>9. active \in files /\ active \in Segs
  BY <1>0, <1>1, SegsFacts DEF Phased
<1>2. /\ hdr[active].nw + 1 \in Slots /\ data[active][hdr[active].nw + 1] = adding
  BY <1>0, <1>1 DEF Staged
<1>3. hdr[active] \in Headers /\ hdr[active].kind = "ok" /\ Sane(hdr[active])
  BY <1>0, <1>1, <1>9 DEF DiskInv, DiskTypes, Cached, HeadersSane, BInv, CursorInv,
                          Believed
<1>4. /\ hdr'[active].w = hdr[active].w + 2 /\ hdr[active].w = 2 * hdr[active].nw
      /\ hdr[active].nw \in Nat /\ hdr'[active].kind = "ok"
  BY <1>0, <1>1, <1>3, <1>9, HeaderIs, Sizes DEF DiskTypes, Headers, Sane
<1>5. /\ 0 < Unit * (hdr[active].nw + 1) /\ Unit * (hdr[active].nw + 1) <= hdr'[active].w
  BY <1>4, Sizes
<1>6. adding \notin {None, Junk}
  BY <1>0, <1>1, Sizes DEF Plain
<1>7. adding \in Between(active, 0, hdr'[active].w)
  BY <1>2, <1>5, <1>6 DEF Between
<1>8. adding \in Published(active)'
  BY <1>1, <1>7 DEF Published, Between
<1> QED
  BY <1>1, <1>2, <1>3, <1>4, <1>8, <1>9, Sizes

LEMMA StagedNext ==
    ASSUME BInv, [Next]_vars
    PROVE  Staged'
<1>0. /\ DiskInv /\ DiskTypes /\ Phased /\ Plain /\ Staged
  BY DEF BInv, DiskInv, ControlInv, CursorInv
<1>1. CASE adding' = None
  BY <1>1 DEF Staged
<1>2. ASSUME active' = active, active \in Segs, hdr'[active].w = hdr[active].w,
             hdr'[active].nw = hdr[active].nw, data' = data, len' = len, adding' = adding
      PROVE  Staged'
  BY <1>0, <1>2 DEF Staged, Published, Between
<1>3. CASE adding = None /\ adding' # None
  <2>1. AddStages
    BY <1>3, AddingBegins
  <2> DEFINE k == hdr[active].w \div Unit + 1
             l == IF len[active] < Hdr + Unit * k THEN Hdr + Unit * k ELSE len[active]
  <2>2. active \in Segs /\ active \in files /\ active' = active /\ phase = "open"
    BY <2>1, <1>0, SegsFacts DEF AddStages, Idle, Phased, active
  <2>3. hdr[active] \in Headers /\ hdr[active].kind = "ok" /\ Sane(hdr[active])
           /\ len[active] \in 0 .. Full
    BY <1>0, <2>2 DEF DiskInv, DiskTypes, Cached, HeadersSane, BInv, CursorInv, Believed
  <2>4. hdr[active].w = 2 * hdr[active].nw /\ hdr[active].nw \in Nat /\ k = hdr[active].nw + 1
    BY <2>3, HeaderIs, Sizes DEF Sane
  <2>5. /\ k \in Slots /\ hdr' = hdr /\ adding' = Len(home) + 1
        /\ data' = [data EXCEPT ![active] = [data[active] EXCEPT ![k] = Len(home) + 1]]
        /\ len' = [len EXCEPT ![active] = l]
    BY <2>1 DEF AddStages
  <2>6. l \in Nat /\ l >= Hdr + Unit * k /\ Unit * k = hdr[active].w + Unit /\ hdr[active].w \in Nat
    <3>1. k \in Nat /\ Hdr = 2 /\ Unit = 2 /\ len[active] \in Nat /\ hdr[active].w \in Nat
      BY <2>3, <2>4, HeaderIs, Sizes
    <3>2. Unit * k = hdr[active].w + Unit
      BY ONLY <2>4, <3>1
    <3>3. Hdr + Unit * k \in Nat
      <4> HIDE DEF k
      <4> QED
        BY <3>1
    <3> HIDE DEF k
    <3>4. l \in Nat /\ l >= Hdr + Unit * k
      BY <3>1, <3>3
    <3> QED
      BY <3>1, <3>2, <3>4
  <2> HIDE DEF k, l
  <2>7. data'[active][hdr[active].nw + 1] = adding' /\ len'[active] = l
    BY <1>0, <2>2, <2>4, <2>5 DEF DiskTypes
  <2>8. Hdr + hdr[active].w + Unit <= l
    <3>1. Hdr = 2 /\ Unit = 2
      BY Sizes
    <3> QED
      BY ONLY <2>6, <3>1
  <2> QED
    BY <2>2, <2>4, <2>5, <2>7, <2>8 DEF Staged
<1>4. CASE adding # None /\ adding' # None
  <2>1. phase = "open" /\ making = None /\ active \in files /\ active \in Segs
    BY <1>0, <1>4, SegsFacts DEF Phased
  <2>2. CASE UNCHANGED vars
    BY <1>0, <2>2 DEF vars, fs, store, Staged, Published, Between, active
  <2>3. CASE AddPublishes
    <3>1. adding' = adding
      BY <1>4, <2>3 DEF AddPublishes
    <3> QED
      BY <2>3, <3>1, PublishedNow DEF Staged
  <2>4. ASSUME NEW f \in Segs, CommitWrites(f) PROVE Staged'
    <3>1. /\ hdr' = [hdr EXCEPT ![f] = [hdr[f] EXCEPT !.c = @ + Unit, !.nc = @ + 1]]
          /\ data' = data /\ len' = len /\ adding' = adding
      BY <2>4 DEF CommitWrites, WriteHeader
    <3>2. hdr'[active].w = hdr[active].w /\ hdr'[active].nw = hdr[active].nw
      BY <1>0, <2>1, <3>1 DEF DiskTypes, Headers
    <3> QED
      BY <1>2, <2>1, <2>4, <3>1, <3>2, CommitKeepsActive
  <2>5. CASE CommitFlushes
    <3>1. hdr' = hdr /\ data' = data /\ len' = len /\ adding' = adding
      BY <2>5 DEF CommitFlushes
    <3> QED
      BY <1>2, <2>1, <2>5, <3>1, CommitKeepsActive
  <2>6. CASE AddDiscards \/ AddSettles \/ Crash \/ PowerLoss
    BY <1>4, <2>6 DEF AddDiscards, AddSettles, Crash, PowerLoss, Dies
  <2> QED
    BY <1>4, <2>2, <2>3, <2>4, <2>5, <2>6, AddingSteps
<1> QED
  BY <1>1, <1>3, <1>4

-----------------------------------------------------------------------------
(* What load makes of a segment *)

MemIs(m, l) ==
    /\ m \in Mems /\ m.size = Unit * m.nw /\ m.c = Unit * m.nc
    /\ m.nc <= m.nw /\ Hdr + m.size <= l

LEMMA WholeFrames ==
    ASSUME NEW l \in Hdr .. Full
    PROVE  /\ Whole(l - Hdr) \in 0 .. Cap /\ Hdr + Unit * Whole(l - Hdr) <= l
           /\ l - Hdr \in Nat
<1>1. l \in 2 .. 2 + 2 * Cap /\ Cap \in Nat /\ Hdr = 2 /\ Unit = 2
  BY Sizes
<1> QED
  BY <1>1 DEF Whole

LEMMA MemFields ==
    ASSUME NEW s \in 0 .. Unit * Cap, NEW nw \in 0 .. Cap, NEW nc \in 0 .. Cap,
           NEW c \in 0 .. Unit * Cap, NEW t \in BOOLEAN, NEW r \in BOOLEAN
    PROVE  [size |-> s, nw |-> nw, nc |-> nc, c |-> c, truncated |-> t, reset |-> r] \in Mems
  BY DEF Mems

LEMMA SalvagedIs ==
    ASSUME NEW f \in Segs, len[f] \in Hdr .. Full
    PROVE  MemIs(Salvaged(f), len[f]) /\ Salvaged(f).reset /\ Salvaged(f).c = 0
<1> DEFINE N == Whole(len[f] - Hdr)
           V == {n \in 0 .. N : \A k \in 1 .. n : data[f][k] \in Recs}
<1>1. N \in 0 .. Cap /\ Hdr + Unit * N <= len[f]
  BY WholeFrames
<1>2. V # {} /\ V \subseteq 0 .. N /\ N \in Nat
  <2>1. 0 \in V
    BY <1>1, Sizes
  <2> QED
    BY <1>1, <2>1, Sizes
<1>3. Verified(f) \in 0 .. N
  BY <1>2, MaxOf DEF Verified
<1> HIDE DEF N
<1>4. /\ Verified(f) \in 0 .. Cap /\ Unit * Verified(f) \in 0 .. Unit * Cap
      /\ Hdr + Unit * Verified(f) <= len[f] /\ 0 \in 0 .. Cap /\ 0 \in 0 .. Unit * Cap
      /\ 0 = Unit * 0 /\ 0 <= Verified(f)
  <2>1. Unit = 2 /\ Hdr = 2 /\ Cap \in Nat /\ len[f] \in Nat
    BY Sizes
  <2> QED
    BY ONLY <1>1, <1>3, <2>1
<1>5. Salvaged(f) \in Mems
  BY <1>4, MemFields DEF Salvaged
<1> QED
  BY <1>4, <1>5 DEF Salvaged, MemIs

LEMMA SurvivingIs ==
    ASSUME NEW f \in Segs, len[f] \in Hdr .. Full
    PROVE  /\ Surviving(f) \in 0 .. Cap /\ Unit * Surviving(f) \in Nat
           /\ Hdr + Unit * Surviving(f) <= len[f]
<1> DEFINE N == Whole(len[f] - Hdr)
           V == {n \in 0 .. N : \A k \in 1 .. n : data[f][k] # Junk \/ <<f, k>> \in Framing}
<1>1. N \in 0 .. Cap /\ Hdr + Unit * N <= len[f]
  BY WholeFrames
<1>2. V # {} /\ V \subseteq 0 .. N /\ N \in Nat
  <2>1. 0 \in V
    BY <1>1, Sizes
  <2> QED
    BY <1>1, <2>1, Sizes
<1>3. Surviving(f) \in 0 .. N
  BY <1>2, MaxOf DEF Surviving
<1> HIDE DEF N
<1>4. Unit = 2 /\ Hdr = 2 /\ Cap \in Nat /\ len[f] \in Nat
  BY Sizes
<1> QED
  BY ONLY <1>1, <1>3, <1>4

LEMMA ReadBackIs ==
    ASSUME NEW f \in Segs, len[f] \in Hdr .. Full, hdr[f] \in Headers, Sane(hdr[f]),
           hdr[f].kind = "ok"
    PROVE  MemIs(ReadBack(f), len[f])
<1> DEFINE h == hdr[f]
           size == IF LostTail(f) THEN Unit * Surviving(f) ELSE h.w
           nw == IF LostTail(f) THEN Surviving(f) ELSE h.nw
<1>0. /\ h.w = Unit * h.nw /\ h.c = Unit * h.nc /\ h.nw \in 0 .. Cap /\ h.nc \in 0 .. Cap
      /\ h.nc <= h.nw
  BY HeaderIs DEF Sane
<1>1. nw \in 0 .. Cap /\ size = Unit * nw
  BY <1>0, SurvivingIs
<1>2. Hdr + size <= len[f]
  <2>1. CASE LostTail(f)
    BY <2>1, SurvivingIs
  <2>2. CASE ~LostTail(f)
    <3>1. ~(Hdr + h.w > len[f]) /\ h.w \in Nat /\ len[f] \in Nat /\ Hdr \in Nat
      BY <2>2, HeaderIs, Sizes DEF LostTail
    <3> QED
      BY <2>2, <3>1
  <2> QED
    BY <2>1, <2>2
<1> HIDE DEF size, nw
<1>3. Unit = 2 /\ Hdr = 2 /\ Cap \in Nat
  BY Sizes
<1> DEFINE nc == IF h.nc <= nw THEN h.nc ELSE nw
           c == IF h.c <= size THEN h.c ELSE size
<1>4. Min({h.nc, nw}) = nc /\ Min({h.c, size}) = c
  <2>1. h.nc \in Nat /\ nw \in Nat /\ h.c \in Nat /\ size \in Nat
    BY <1>0, <1>1, <1>3
  <2> QED
    BY <2>1, MinPair
<1>5. /\ nc \in 0 .. Cap /\ c = Unit * nc /\ nc <= nw /\ c \in 0 .. Unit * Cap
      /\ size \in 0 .. Unit * Cap
  <2>1. h.c <= size <=> h.nc <= nw
    BY <1>0, <1>1, <1>3
  <2>2. CASE h.nc <= nw
    <3>1. nc = h.nc /\ c = h.c
      BY <2>1, <2>2
    <3> HIDE DEF nc, c
    <3> QED
      BY <1>0, <1>1, <1>3, <2>2, <3>1
  <2>3. CASE ~(h.nc <= nw)
    <3>1. nc = nw /\ c = size
      BY <2>1, <2>3
    <3> HIDE DEF nc, c
    <3> QED
      BY <1>0, <1>1, <1>3, <2>3, <3>1
  <2> QED
    BY <2>2, <2>3
<1> HIDE DEF nc, c
<1>6. ReadBack(f) = [size |-> size, nw |-> nw, nc |-> nc, c |-> c,
                     truncated |-> len[f] < Full, reset |-> FALSE]
  BY <1>4 DEF ReadBack, size, nw
<1>7. ReadBack(f) \in Mems
  <2>1. (len[f] < Full) \in BOOLEAN /\ FALSE \in BOOLEAN
    OBVIOUS
  <2> DEFINE t == len[f] < Full
  <2>2. t \in BOOLEAN
    BY <2>1
  <2> HIDE DEF t
  <2>3. [size |-> size, nw |-> nw, nc |-> nc, c |-> c, truncated |-> t, reset |-> FALSE] \in Mems
    BY <1>1, <1>5, <2>2, MemFields
  <2> QED
    BY <1>6, <2>3 DEF t
<1> QED
  BY <1>1, <1>2, <1>5, <1>6, <1>7 DEF MemIs

\* A segment load keeps
LEMMA KeptIs ==
    ASSUME BInv, LoadKeeps
    PROVE  /\ at \in Segs
           /\ \E m \in Mems : MemIs(m, len[at]) /\ mem' = [mem EXCEPT ![at] = m]
<1>1. at \in Segs
  BY DEF LoadKeeps, BInv, ControlInv, Phased
<1>2. len[at] \in 0 .. Full /\ hdr[at] \in Headers /\ Sane(hdr[at])
  BY <1>1 DEF BInv, DiskInv, DiskTypes, Cached, HeadersSane
<1>3. len[at] \in Hdr .. Full /\ hdr[at].kind \in {"ok", "torn"}
  <2>1. ~(len[at] < Hdr) /\ hdr[at].kind \notin {"zero", "garbage", "foreign"}
    BY DEF LoadKeeps, Unreadable
  <2> QED
    BY <1>2, <2>1, HeaderIs, Sizes DEF HeaderKinds
<1>4. CASE hdr[at].kind = "torn"
  BY <1>1, <1>3, <1>4, SalvagedIs DEF LoadKeeps, MemIs
<1>5. CASE hdr[at].kind # "torn"
  BY <1>1, <1>2, <1>3, <1>5, ReadBackIs DEF LoadKeeps, MemIs
<1> QED
  BY <1>1, <1>4, <1>5

\* load's reconciliation leaves one cursor
LEMMA ReconciledIs ==
    ASSUME BInv, phase \in Loads
    PROVE  /\ \A f \in files : MemIs(Reconciled(f), len[f])
           /\ \A f, g \in files :
                 f < g => Reconciled(f).c = Reconciled(f).size \/ Reconciled(g).c = 0
<1> DEFINE cursor == {g \in files : AtCursor(g)}
<1>1. cursor # {} => Min(cursor) \in cursor /\ \A g \in cursor : Min(cursor) <= g
  BY SegsFacts, Sizes, MinOf
<1>2. files \subseteq Nat /\ (cursor # {} => Min(cursor) \in Nat)
  BY <1>1, SegsFacts, Sizes
<1>3. \A f \in files : MemIs(mem[f], len[f])
  BY SegsFacts DEF BInv, CursorInv, MemSane, MemIs
<1>4. \A f \in files :
         Reconciled(f) = IF cursor = {} \/ f < Min(cursor)
                         THEN [mem[f] EXCEPT !.nc = mem[f].nw, !.c = mem[f].size]
                         ELSE IF f > Min(cursor) THEN [mem[f] EXCEPT !.nc = 0, !.c = 0]
                         ELSE mem[f]
  BY DEF Reconciled
<1> HIDE DEF cursor
<1>5. ASSUME NEW f \in files PROVE MemIs(Reconciled(f), len[f])
  <2>1. MemIs([mem[f] EXCEPT !.nc = mem[f].nw, !.c = mem[f].size], len[f])
    <3>1. mem[f].nw \in 0 .. Cap /\ mem[f].nw <= mem[f].nw /\ mem[f].size \in 0 .. Unit * Cap
      BY <1>3, Sizes DEF MemIs, Mems
    <3> QED
      BY <1>3, <3>1 DEF MemIs, Mems
  <2>2. MemIs([mem[f] EXCEPT !.nc = 0, !.c = 0], len[f])
    <3>1. 0 \in 0 .. Cap /\ 0 \in 0 .. Unit * Cap /\ 0 = Unit * 0 /\ \A n \in Nat : 0 <= n
      BY Sizes
    <3>2. mem[f].nw \in Nat
      BY <1>3, Sizes DEF MemIs, Mems
    <3> QED
      BY <1>3, <3>1, <3>2 DEF MemIs, Mems
  <2> QED
    BY <1>3, <1>4, <2>1, <2>2
<1>6. ASSUME NEW f \in files, NEW g \in files, f < g
      PROVE  Reconciled(f).c = Reconciled(f).size \/ Reconciled(g).c = 0
  <2>1. CASE cursor = {} \/ f < Min(cursor)
    <3>1. Reconciled(f) = [mem[f] EXCEPT !.nc = mem[f].nw, !.c = mem[f].size]
      BY <1>4, <2>1
    <3> QED
      BY <1>3, <3>1 DEF MemIs, Mems
  <2>2. CASE ~(cursor = {} \/ f < Min(cursor))
    <3>1. g > Min(cursor) /\ ~(g < Min(cursor))
      BY <1>2, <1>6, <2>2
    <3>2. Reconciled(g) = [mem[g] EXCEPT !.nc = 0, !.c = 0]
      BY <1>4, <2>2, <3>1
    <3> QED
      BY <1>3, <3>2 DEF MemIs, Mems
  <2> QED
    BY <2>1, <2>2
<1> QED
  BY <1>5, <1>6

LEMMA NoMemIs == NoMem \in Mems
<1>1. 0 \in 0 .. Unit * Cap /\ 0 \in 0 .. Cap
  BY Sizes
<1> QED
  BY <1>1, MemFields DEF NoMem

\* The steps of a load that leave the segments and what it has read of them alone
LEMMA MemSteps ==
    ASSUME BInv, [Next]_vars
    PROVE  \/ UNCHANGED mem /\ (phase' \in Loads => phase \in Loads /\ UNCHANGED files)
           \/ UNCHANGED mem /\ files' = {} /\ phase' = "load"
           \/ mem' = [f \in Segs |-> NoMem] /\ phase' \notin Loads
           \/ LoadKeeps \/ LoadConcludes \/ RepairFlushes
<1>1. Phased
  BY DEF BInv, ControlInv
<1>2. CASE UNCHANGED vars
  BY <1>2 DEF vars, store
<1>3. CASE Running
  <2>1. UNCHANGED mem
    BY <1>3 DEF Running, AddStages, AddDiscards, AddPublishes, AddSettles, FlushAll,
         FlushOne, CommitWrites, CommitFlushes, CycleDrops, CreateLinks, CreateReserves,
         CreateWrites, CreateSyncs, CreateEnds, store
  <2>2. phase' \notin Loads
    BY <1>1, <1>3, QuietSteps DEF Running, AddStages, AddDiscards, AddPublishes,
                                  AddSettles, FlushAll,
         FlushOne, CommitWrites, CommitFlushes, CycleDrops, CreateLinks, CreateReserves,
         CreateWrites, CreateSyncs, CreateEnds, Loads, Free, Idle, Linked, Phased
  <2> QED
    BY <2>1, <2>2
<1>4. CASE Crash \/ PowerLoss
  BY <1>4 DEF Crash, PowerLoss, Dies, Loads
<1>5. CASE Lefts
  <2>1. UNCHANGED mem /\ phase' \in {"losing", "off"}
    BY <1>5, LeftSteps DEF Lefts, PowerLossLeaves, Cut, Overwritten, Struck, store
  <2> QED
    BY <2>1 DEF Loads
<1>6. CASE OpenBegins
  <2>1. UNCHANGED <<mem, files>> /\ files = {} /\ phase' \in {"fresh", "load"}
    BY <1>1, <1>6 DEF OpenBegins, Phased
  <2> QED
    BY <2>1 DEF Loads
<1>7. CASE LoadDrops
  BY <1>7 DEF LoadDrops, store, Loads
<1>8. ASSUME NEW f \in Segs, RepairWrites(f)
      PROVE  UNCHANGED mem /\ phase \in Loads /\ UNCHANGED files
  BY <1>8 DEF RepairWrites, Loads
<1>9. CASE OpenReturns
  BY <1>9 DEF OpenReturns, Loads
<1>10. CASE Failing
  BY <1>4, <1>5, <1>10 DEF Failing, Lefts
<1>11. CASE Loading
  BY <1>6, <1>7, <1>8, <1>9, <1>11 DEF Loading
<1> QED
  BY <1>2, <1>3, <1>10, <1>11 DEF Next

LEMMA MemSaneNext ==
    ASSUME BInv, [Next]_vars
    PROVE  MemSane'
<1>0. MemSane /\ DiskInv /\ Phased /\ mem \in [Segs -> Mems]
  BY DEF BInv, CursorInv, ControlInv, MemSane
<1>1. phase \in Loads => \A f \in files : MemIs(mem[f], len[f]) /\ f \in Segs
  BY <1>0, SegsFacts DEF MemSane, MemIs
<1>2. ASSUME mem' \in [Segs -> Mems],
             phase' \in Loads => \A f \in files' : MemIs(mem'[f], len'[f])
      PROVE  MemSane'
  BY <1>2 DEF MemSane, MemIs
<1>3. \A f \in Segs : f \in files /\ ~Lefts => len'[f] >= len[f] /\ len[f] \in 0 .. Full
         /\ len'[f] \in 0 .. Full
  <2>1. ~Lefts => LenSteps
    BY LenChanges
  <2> QED
    BY <1>0, <2>1, LenNext DEF LensOK, DiskInv, DiskTypes, BInv, ControlInv, Numbers
<1>4. ASSUME NEW m, NEW l \in 0 .. Full, NEW k \in 0 .. Full, k >= l, MemIs(m, l)
      PROVE  MemIs(m, k)
  <2>1. m.size \in Nat /\ Hdr = 2
    BY <1>4, Sizes DEF MemIs, Mems
  <2>2. Hdr + m.size <= k
    BY <1>4, <2>1, Sizes DEF MemIs
  <2> QED
    BY <1>4, <2>2 DEF MemIs
<1>5. phase \in Loads => ~Lefts
  BY LeftSteps DEF Loads
<1>6. CASE UNCHANGED mem /\ (phase' \in Loads => phase \in Loads /\ UNCHANGED files)
  BY <1>0, <1>1, <1>2, <1>3, <1>4, <1>5, <1>6
<1>7. CASE UNCHANGED mem /\ files' = {} /\ phase' = "load"
  BY <1>0, <1>2, <1>7
<1>8. CASE mem' = [f \in Segs |-> NoMem] /\ phase' \notin Loads
  BY <1>2, <1>8, NoMemIs
<1>9. CASE LoadKeeps
  <2>1. phase \in Loads /\ files' = files \union {at} /\ UNCHANGED len
    BY <1>9 DEF LoadKeeps, Loads, fs
  <2>2. PICK m \in Mems : MemIs(m, len[at]) /\ mem' = [mem EXCEPT ![at] = m]
    BY <1>9, KeptIs
  <2>3. mem' \in [Segs -> Mems] /\ at \in Segs
    BY <1>0, <1>9, <2>2, KeptIs
  <2>4. \A f \in files' : MemIs(mem'[f], len'[f])
    BY <1>0, <1>1, <2>1, <2>2, <2>3
  <2> QED
    BY <1>2, <2>3, <2>4
<1>10. CASE LoadConcludes
  <2>1. phase \in Loads /\ UNCHANGED <<files, len>>
    BY <1>10 DEF LoadConcludes, Loads, fs
  <2>2. CASE files = {}
    BY <1>0, <1>2, <1>10, <2>1, <2>2 DEF LoadConcludes
  <2>3. CASE files # {}
    <3>1. mem' = [f \in Segs |-> IF f \in files THEN Reconciled(f) ELSE mem[f]]
      BY <1>10, <2>3 DEF LoadConcludes
    <3>2. \A f \in files : MemIs(Reconciled(f), len[f]) /\ Reconciled(f) \in Mems /\ f \in Segs
      BY <2>1, ReconciledIs, SegsFacts DEF MemIs
    <3>3. mem' \in [Segs -> Mems]
      BY <1>0, <3>1, <3>2
    <3>4. \A f \in files' : MemIs(mem'[f], len'[f])
      BY <2>1, <3>1, <3>2
    <3> QED
      BY <1>2, <3>3, <3>4
  <2> QED
    BY <2>2, <2>3
<1>11. CASE RepairFlushes
  <2>1. /\ mem' = [mem EXCEPT ![at] = [mem[at] EXCEPT !.truncated = FALSE]]
        /\ phase \in Loads /\ UNCHANGED files /\ at \in Segs
    BY <1>0, <1>11 DEF RepairFlushes, Loads, Phased
  <2>2. [mem[at] EXCEPT !.truncated = FALSE] \in Mems
    BY <1>0, <2>1 DEF Mems
  <2>3. mem' \in [Segs -> Mems]
    BY <1>0, <2>1, <2>2
  <2>4. \A f \in files : MemIs(mem'[f], len[f])
    <3>1. \A l : MemIs(mem[at], l) => MemIs([mem[at] EXCEPT !.truncated = FALSE], l)
      BY <1>0, <2>1, <2>2 DEF MemIs, Mems
    <3> QED
      BY <1>0, <1>1, <2>1, <3>1
  <2>5. \A f \in files' : MemIs(mem'[f], len'[f])
    BY <1>1, <1>3, <1>4, <1>5, <2>1, <2>4
  <2> QED
    BY <1>2, <2>3, <2>5
<1> QED
  BY <1>6, <1>7, <1>8, <1>9, <1>10, <1>11, MemSteps

LEMMA MemOnceNext ==
    ASSUME BInv, [Next]_vars
    PROVE  MemOnce'
<1>0. MemOnce /\ Phased /\ mem \in [Segs -> Mems]
  BY DEF BInv, CursorInv, ControlInv, MemSane
<1>1. CASE LoadConcludes
  <2>1. CASE files = {}
    BY <1>1, <2>1 DEF LoadConcludes, MemOnce
  <2>2. CASE files # {}
    <3>1. mem' = [f \in Segs |-> IF f \in files THEN Reconciled(f) ELSE mem[f]] /\ UNCHANGED files
          /\ phase \in Loads
      BY <1>1, <2>2 DEF LoadConcludes, Loads
    <3>2. \A f \in files : mem'[f] = Reconciled(f)
      BY <3>1, SegsFacts
    <3> QED
      BY <3>1, <3>2, ReconciledIs DEF MemOnce
  <2> QED
    BY <2>1, <2>2
<1>2. CASE RepairFlushes
  <2>1. /\ mem' = [mem EXCEPT ![at] = [mem[at] EXCEPT !.truncated = FALSE]]
        /\ phase = "flush" /\ UNCHANGED files /\ at \in Segs
    BY <1>0, <1>2 DEF RepairFlushes, Phased
  <2>2. \A f \in files : mem'[f].c = mem[f].c /\ mem'[f].size = mem[f].size
    BY <1>0, <2>1, SegsFacts DEF Mems
  <2> QED
    BY <1>0, <2>1, <2>2 DEF MemOnce
<1>3. CASE phase' \in {"repair", "flush"} /\ ~LoadConcludes /\ ~RepairFlushes
  <2>1. UNCHANGED <<mem, files>> /\ phase \in {"repair", "flush"}
    <3>1. CASE Running
      BY <1>0, <1>3, <3>1 DEF Running, AddStages, AddDiscards, AddPublishes, AddSettles,
                              FlushAll,
         FlushOne, CommitWrites, CommitFlushes, CycleDrops, CreateLinks, CreateReserves,
         CreateWrites, CreateSyncs, CreateEnds, Free, Idle, Linked, Phased
    <3>2. CASE Failing
      BY <1>3, <3>2 DEF Failing, Crash, PowerLoss, PowerLossLeaves, Cut, Overwritten,
                        Struck
    <3>3. CASE Loading
      BY <1>3, <3>3 DEF Loading, OpenBegins, LoadDrops, LoadKeeps, LoadNext,
                        RepairWrites, OpenReturns
    <3> QED
      BY <1>3, <3>1, <3>2, <3>3 DEF Next, vars, store
  <2> QED
    BY <1>0, <2>1 DEF MemOnce
<1>4. CASE phase' \notin {"repair", "flush"}
  BY <1>4 DEF MemOnce
<1> QED
  BY <1>1, <1>2, <1>3, <1>4

-----------------------------------------------------------------------------
(* One commit cursor *)

\* How the live segments and their headers change while the queue is open
LEMMA LiveSteps ==
    ASSUME BInv, [Next]_vars, phase' = "open"
    PROVE  \/ OpenReturns \/ CreateEnds
           \/ phase = "open" /\ files' \subseteq files /\ (\A f \in files : hdr'[f] = hdr[f])
           \/ phase = "open" /\ files' = files /\ AddPublishes
           \/ phase = "open" /\ files' \subseteq files /\ \E f \in files : CommitWrites(f)
<1>0. Phased /\ Numbers /\ DiskTypes
  BY DEF BInv, ControlInv, DiskInv
<1>1. CASE UNCHANGED vars
  BY <1>1 DEF vars, fs, store
<1>2. CASE AddStages \/ AddDiscards \/ AddSettles \/ FlushAll \/ (\E f \in Segs : FlushOne(f))
  BY <1>2 DEF AddStages, AddDiscards, AddSettles, FlushAll, FlushOne, Idle, fs
<1>3. CASE AddPublishes
  BY <1>3 DEF AddPublishes, Idle
<1>4. ASSUME NEW f \in Segs, CommitWrites(f)
      PROVE  phase = "open" /\ files' \subseteq files /\ f \in files
  BY <1>4, CommitKeepsActive DEF CommitWrites
<1>5. CASE CommitFlushes
  BY <1>5, CommitKeepsActive DEF CommitFlushes
<1>6. CASE CycleDrops
  BY <1>6, Dropped DEF CycleDrops, Idle
<1>7. CASE CreateLinks \/ CreateReserves \/ CreateWrites \/ CreateSyncs
  <2>1. making \in Segs /\ making \notin files /\ phase \in {"open", "fresh"}
        /\ UNCHANGED <<phase, files>>
    BY <1>0, <1>7 DEF CreateLinks, CreateReserves, CreateWrites, CreateSyncs, Linked,
                      store,
       Numbers, Phased
  <2>2. \A f \in Segs : f # making => hdr'[f] = hdr[f]
    BY <1>0, <1>7 DEF CreateLinks, CreateReserves, CreateWrites, CreateSyncs, WriteHeader,
       DiskTypes
  <2> QED
    BY <2>1, <2>2, SegsFacts
<1>8. CASE Failing
  BY <1>8, LeftSteps DEF Failing, Crash, PowerLoss, PowerLossLeaves, Cut, Overwritten,
                         Struck
<1>9. CASE Loading
  BY <1>9 DEF Loading, OpenBegins, LoadDrops, LoadKeeps, LoadNext, LoadConcludes,
              RepairWrites,
              RepairFlushes
<1> QED
  BY <1>1, <1>2, <1>3, <1>4, <1>5, <1>6, <1>7, <1>8, <1>9 DEF Next, Running

LEMMA CursorNext ==
    ASSUME BInv, [Next]_vars
    PROVE  Believed' /\ OneAtWork'
<1> SUFFICES ASSUME phase' = "open"
             PROVE  /\ \A f \in files' : hdr'[f].kind = "ok" /\ Hdr + hdr'[f].w <= len'[f]
                    /\ \A f, g \in files' : f < g => hdr'[f].c = hdr'[f].w \/ hdr'[g].c = 0
  BY DEF Believed, OneAtWork
<1>0. Phased /\ Numbers /\ DiskTypes /\ Believed /\ OneAtWork /\ DiskInv
  BY DEF BInv, ControlInv, DiskInv, CursorInv
<1>1. ~Lefts
  BY LeftSteps DEF Lefts, PowerLossLeaves, Cut, Overwritten, Struck
<1>2. \A f \in files : /\ len'[f] >= len[f] /\ len[f] \in Nat /\ len'[f] \in Nat
                       /\ hdr[f] \in Headers /\ hdr[f].w \in Nat /\ f \in Segs
  <2>1. \A f \in files : f \in Segs /\ f # making
    BY <1>0, SegsFacts DEF Numbers
  <2>2. LensOK' /\ \A f \in files : len'[f] >= len[f]
    BY <1>1, <2>1, LenChanges, LenNext
  <2> QED
    BY <1>0, <2>1, <2>2, HeaderIs, Sizes DEF DiskTypes, LensOK
<1>3. CASE phase = "open" /\ files' \subseteq files /\ (\A f \in files : hdr'[f] = hdr[f])
  <2>1. \A f \in files' : hdr'[f].kind = "ok" /\ Hdr + hdr'[f].w <= len'[f]
    BY <1>0, <1>2, <1>3, Sizes DEF Believed
  <2> QED
    BY <1>0, <1>3, <2>1 DEF OneAtWork
<1>4. CASE phase = "open" /\ files' = files /\ AddPublishes
  <2> DEFINE h == [hdr[active] EXCEPT !.w = @ + Unit, !.nw = @ + 1]
  <2>1. active \in files /\ active \in Segs /\ \A f \in files : f <= active
    BY <1>0, <1>4, SegsFacts DEF AddPublishes, Idle, Phased
  <2>2. hdr' = [hdr EXCEPT ![active] = h] /\ adding # None /\ adding \notin Published(active)
           /\ UNCHANGED len
    BY <1>4 DEF AddPublishes, Publishes
  <2>3. Hdr + hdr[active].w + Unit <= len[active]
    BY <2>2 DEF BInv, CursorInv, Staged
  <2>4. /\ hdr'[active].kind = hdr[active].kind /\ hdr'[active].w = hdr[active].w + Unit
        /\ hdr'[active].c = hdr[active].c
        /\ \A f \in Segs : f # active => hdr'[f] = hdr[f]
    BY <1>0, <2>1, <2>2 DEF DiskTypes, Headers
  <2>5. \A f \in files' : hdr'[f].kind = "ok" /\ Hdr + hdr'[f].w <= len'[f]
    <3>1. Hdr + hdr'[active].w <= len'[active]
      BY <1>2, <2>1, <2>2, <2>3, <2>4, Sizes
    <3> QED
      BY <1>0, <1>2, <1>4, <2>1, <2>2, <2>4, <3>1 DEF Believed
  <2>6. ASSUME NEW f \in files, NEW g \in files, f < g
        PROVE  hdr'[f].c = hdr'[f].w \/ hdr'[g].c = 0
    <3>1. f # active
      BY <1>2, <2>1, <2>6, Sizes
    <3>2. hdr'[g].c = hdr[g].c /\ hdr'[f] = hdr[f]
      BY <1>2, <2>4, <3>1
    <3> QED
      BY <1>0, <1>4, <2>6, <3>2 DEF OneAtWork
  <2> QED
    BY <1>4, <2>5, <2>6
<1>5. ASSUME phase = "open", files' \subseteq files, NEW k \in files, CommitWrites(k)
      PROVE  /\ \A f \in files' : hdr'[f].kind = "ok" /\ Hdr + hdr'[f].w <= len'[f]
             /\ \A f, g \in files' : f < g => hdr'[f].c = hdr'[f].w \/ hdr'[g].c = 0
  <2>1. /\ hdr' = [hdr EXCEPT ![k] = [hdr[k] EXCEPT !.c = @ + Unit, !.nc = @ + 1]]
        /\ UNCHANGED len /\ hdr[k].c < hdr[k].w
        /\ \A g \in files : g < k => hdr[g].c = hdr[g].w
    BY <1>5 DEF CommitWrites, WriteHeader
  <2>2. /\ hdr'[k].kind = hdr[k].kind /\ hdr'[k].w = hdr[k].w
        /\ \A f \in Segs : f # k => hdr'[f] = hdr[f]
    BY <1>0, <1>2, <2>1 DEF DiskTypes, Headers
  <2>3. \A f \in files' : hdr'[f].kind = "ok" /\ Hdr + hdr'[f].w <= len'[f]
    BY <1>0, <1>2, <1>5, <2>1, <2>2 DEF Believed
  <2>4. hdr[k].c # hdr[k].w
    BY <1>2, <2>1, HeaderIs
  <2>5. ASSUME NEW f \in files, NEW g \in files, f < g
        PROVE  hdr'[f].c = hdr'[f].w \/ hdr'[g].c = 0
    <3>1. CASE f = k
      <4>1. g # k
        BY <1>2, <2>5, <3>1, Sizes
      <4> QED
        BY <1>0, <1>2, <1>5, <2>2, <2>4, <2>5, <3>1, <4>1 DEF OneAtWork
    <3>2. CASE g = k
      <4>1. f # k
        BY <1>2, <2>5, <3>2, Sizes
      <4> QED
        BY <1>2, <2>1, <2>2, <2>5, <3>2, <4>1
    <3>3. CASE f # k /\ g # k
      BY <1>0, <1>2, <1>5, <2>2, <2>5, <3>3 DEF OneAtWork
    <3> QED
      BY <3>1, <3>2, <3>3
  <2> QED
    BY <1>5, <2>3, <2>5
<1>6. CASE CreateEnds
  <2>1. /\ files' = files \union {making} /\ hdr' = hdr /\ len' = len /\ Linked
              /\ hdr[making].kind = "ok"
        /\ making \in Segs /\ phase \in {"open", "fresh"}
        /\ (phase = "fresh" => files = {})
    BY <1>0, <1>6 DEF CreateEnds, Linked, Numbers, Phased
  <2>2. hdr[making] = Header(0, 0, 0, 0) /\ len[making] = Full
    BY <2>1, BrokenIs DEF BInv, ControlInv, Made, HeaderKinds
  <2>3. hdr[making].w = 0 /\ hdr[making].c = 0 /\ Hdr + 0 <= Full
    BY <2>2, Sizes DEF Header
  <2> QED
    BY <1>0, <2>1, <2>2, <2>3 DEF Believed, OneAtWork
<1>7. CASE OpenReturns
  <2>1. UNCHANGED <<files, hdr, len>> /\ phase = "repair" /\ Unrepaired = {}
    BY <1>7 DEF OpenReturns, fs
  <2>2. \A f \in files : hdr[f] = Wanted(f)
    BY <2>1 DEF Unrepaired
  <2>3. ASSUME NEW f \in files
        PROVE  hdr[f].kind = "ok" /\ hdr[f].w = mem[f].size /\ hdr[f].c = mem[f].c
    <3>1. hdr[f] = [kind |-> "ok", w |-> mem[f].size, c |-> mem[f].c, nw |-> mem[f].nw,
                    nc |-> mem[f].nc]
      BY <2>2 DEF Wanted, Header
    <3> QED
      BY <3>1
  <2> QED
    BY <2>1, <2>3 DEF BInv, CursorInv, MemSane, MemOnce, Loads
<1> QED
  BY <1>3, <1>4, <1>5, <1>6, <1>7, LiveSteps

-----------------------------------------------------------------------------
(* The first theorems *)

LEMMA BInvInit == Init => BInv
<1> SUFFICES ASSUME Init PROVE BInv
  OBVIOUS
<1>1. /\ Header(0, 0, 0, 0) \in Headers /\ Sane(Header(0, 0, 0, 0))
      /\ Broken("zero") \in Headers /\ Sane(Broken("zero"))
  BY FreshIs, BrokenIs DEF HeaderKinds
<1>2. HeadersOK
  BY <1>1 DEF Init, HeadersOK
<1>3. LensOK
  <2>1. 0 \in 0 .. Full /\ Full \in 0 .. Full
    BY Sizes
  <2> QED
    BY <2>1 DEF Init, LensOK
<1>4. DataOK
  BY DEF Init, DataOK, Blank, Cells
<1>5. DiskInv
  BY <1>2, <1>3, <1>4 DEF HeadersOK, LensOK, DataOK, DiskInv, DiskTypes, Cached,
                          HeadersSane, Init
<1>6. Visible = {1} /\ 1 \in Segs
  BY Sizes DEF Init, Visible
<1>7. ControlInv
  <2>1. Phased
    BY Sizes DEF Init, Phased, Phases
  <2>2. Numbers
    BY <1>6, Sizes DEF Init, Numbers, Numbered, None
  <2>3. Made /\ Plain
    BY Sizes DEF Init, Made, Linked, Plain
  <2> QED
    BY <2>1, <2>2, <2>3 DEF ControlInv
<1>8. CursorInv
  <2>1. hdr[1] = Header(0, 0, 0, 0) /\ len[1] = Full
    BY <1>6 DEF Init
  <2>2. Believed
    BY <2>1, Sizes DEF Init, Believed, Header
  <2>3. OneAtWork /\ MemOnce /\ Staged
    BY DEF Init, OneAtWork, MemOnce, Staged
  <2>4. MemSane
    BY NoMemIs DEF Init, MemSane, Loads
  <2> QED
    BY <2>2, <2>3, <2>4 DEF CursorInv
<1> QED
  BY <1>5, <1>7, <1>8 DEF BInv

LEMMA BInvNext ==
    ASSUME BInv, [Next]_vars
    PROVE  BInv'
  BY DiskNext, PhasedNext, NumbersNext, MadeNext, PlainNext, CursorNext, MemSaneNext,
     MemOnceNext,
     StagedNext
     DEF BInv, ControlInv, CursorInv

LEMMA BInvAlways == Spec => []BInv
  BY BInvInit, BInvNext, PTL DEF Spec

\* Every field keeps its type, what the page cache holds is one of the things a power loss
\* may leave, and no number names two segments, for every number of segments, records,
\* losses and damages (openStore, load, createFile).
THEOREM TypeCorrect == Spec => []TypeOK
<1>1. ASSUME BInv PROVE TypeOK
  <2>1. DiskInv /\ Phased /\ Numbers /\ Plain
    BY <1>1 DEF BInv, ControlInv
  <2>2. committing \in Segs \union {None}
    BY <2>1 DEF Numbers, Visible
  <2>3. /\ entry \in [Segs -> {"none", "new", "gone", "here"}] /\ len \in [Segs -> 0 .. Full]
        /\ \A f \in Segs : len[f] \in lens[f] /\ lens[f] \subseteq 0 .. Full
        /\ \A f \in Segs : hdr[f] \in hdrs[f] /\ hdrs[f] \subseteq Headers
        /\ \A f \in Segs, k \in Slots : data[f][k] \in disk[f][k]
                                          /\ disk[f][k] \subseteq Recs \union {None, Junk}
    BY <2>1 DEF DiskInv, DiskTypes, Cached, Cells
  <2> QED
    BY <2>1, <2>2, <2>3 DEF TypeOK, Phased, Phases, Numbers, Numbered, Plain
<1> QED
  BY <1>1, BInvAlways, PTL

\* After every open, whatever losses, cuts, overwritten headers and interrupted repairs
\* came before it, the headers describe one commit cursor, whole frames inside the files
\* and counts that agree with both (load, loadFile, salvageTornHeader).
THEOREM OpenFindsOneCursor == Spec => []OneCursor
<1>1. ASSUME BInv PROVE OneCursor
  <2> SUFFICES ASSUME Serving PROVE
        /\ \A f \in files :
             LET h == hdr[f] IN
             /\ h.kind = "ok" /\ h.c <= h.w /\ Hdr + h.w <= len[f]
             /\ h.w = Unit * h.nw /\ h.c = Unit * h.nc
        /\ \A f, g \in files : f < g => hdr[f].c = hdr[f].w \/ hdr[g].c = 0
    BY DEF OneCursor
  <2>1. phase = "open"
    BY DEF Serving
  <2>2. ASSUME NEW f \in files
        PROVE  /\ hdr[f].kind = "ok" /\ hdr[f].c <= hdr[f].w /\ Hdr + hdr[f].w <= len[f]
               /\ hdr[f].w = Unit * hdr[f].nw /\ hdr[f].c = Unit * hdr[f].nc
    <3>1. f \in Segs /\ hdr[f] \in Headers /\ Sane(hdr[f])
      BY <1>1, SegsFacts DEF BInv, DiskInv, DiskTypes, Cached, HeadersSane
    <3>2. hdr[f].kind = "ok" /\ Hdr + hdr[f].w <= len[f]
      BY <1>1, <2>1 DEF BInv, CursorInv, Believed
    <3>3. hdr[f].w = Unit * hdr[f].nw /\ hdr[f].c = Unit * hdr[f].nc /\ hdr[f].nc <= hdr[f].nw
      BY <3>1, <3>2 DEF Sane
    <3>5. hdr[f].nw \in Nat /\ hdr[f].nc \in Nat /\ Unit = 2
      BY <3>1, HeaderIs, Sizes
    <3>4. hdr[f].c <= hdr[f].w
      BY ONLY <3>3, <3>5
    <3> QED
      BY <3>2, <3>3, <3>4
  <2> QED
    BY <1>1, <2>1, <2>2 DEF BInv, CursorInv, OneAtWork
<1> QED
  BY <1>1, BInvAlways, PTL

-----------------------------------------------------------------------------
(* What was given up stays given up *)

\* Every record lies in the segment it was staged in; what was given up, or is being
\* appended, was staged
Homed ==
    /\ \A f \in Segs, k \in Slots : \A r \in disk[f][k] \intersect Recs :
          r \in 1 .. Len(home) /\ home[r] = f
    /\ discarded \subseteq 1 .. Len(home)
    /\ adding # None => adding \in 1 .. Len(home) /\ adding \notin discarded

\* No header that may come back publishes more of f than the one in the page cache
Widest(f) ==
    \A h \in hdrs[f] : h.kind = "ok" => hdr[f].kind = "ok" /\ h.w <= hdr[f].w

\* That fails only between the repair of a segment that was cut and its flush
Widths ==
    /\ \A f \in Segs : len[f] = Full => Widest(f)
    /\ Linked => Widest(making)
    /\ phase = "open" => \A f \in files : Widest(f)
    /\ phase = "flush" => hdr[at].w = mem[at].size
    /\ phase \in Loads => \A f \in files :
          /\ ~mem[f].truncated => Widest(f)
          /\ ~mem[f].truncated \/ len[f] = Full =>
                (hdr[f].kind = "ok" => hdr[f].w <= mem[f].size)

\* A record on its way lies behind every header
Unseen ==
    adding # None /\ adding \notin Published(active) =>
        \A f \in Segs, k \in Slots :
            adding \in disk[f][k] => f = active /\ hdr[f].w < Unit * k

\* But for the rebuilt ones, load believes no more of a segment than its header says
NoMore ==
    phase \in Loads => \A f \in files \ rebuilt :
        hdr[f].kind = "ok" /\ mem[f].size <= hdr[f].w

\* and no header that may come back publishes a slot that may hold what was given up
CleanUnder(f, h) ==
    h.kind = "ok" => \A k \in Slots : Unit * k <= h.w => disk[f][k] \intersect discarded = {}

Clean == policy = "perOp" => \A f \in Segs \ rebuilt : \A h \in hdrs[f] : CleanUnder(f, h)

PInv == BInv /\ Homed /\ Widths /\ Unseen /\ NoMore /\ Clean

\* What a step leaves of the slots: nothing new but the record that is staged
LEMMA SlotSteps ==
    ASSUME BInv, [Next]_vars
    PROVE  \A f \in Segs, k \in Slots : \A r \in disk'[f][k] \intersect Recs :
               \/ r \in disk[f][k]
               \/ AddStages /\ f = active /\ hdr[f].w < Unit * k /\ r = Len(home) + 1
<1> SUFFICES ASSUME NEW f \in Segs, NEW k \in Slots, NEW r \in disk'[f][k] \intersect Recs
             PROVE  \/ r \in disk[f][k]
                    \/ AddStages /\ f = active /\ hdr[f].w < Unit * k /\ r = Len(home) + 1
  OBVIOUS
<1>0. DiskTypes /\ DiskInv /\ Phased /\ Numbers /\ Cached
  BY DEF BInv, DiskInv, ControlInv
<1>1. CASE Lefts
  <2>1. PICK g \in Segs, e \in Entries, l \in 0 .. Full, h \in Headers, d \in [Slots -> Cells] :
            Left(g, e, l, h, d) /\ Remains(g, h, d)
    BY <1>1, LeftSteps
  <2>2. CASE f # g
    BY <1>0, <2>1, <2>2 DEF Left, DiskTypes
  <2>3. CASE f = g
    <3>1. disk'[f][k] = {data'[f][k]}
      BY <1>0, <2>1, <2>3 DEF Left, DiskTypes
    <3>2. data'[f] = Within(d, l) \/ data'[f] = Blank
      BY <1>0, <2>1, <2>3 DEF Left, DiskTypes
    <3>3. data'[f][k] \in {d[k], None, Junk}
      BY <3>2 DEF Within, Blank
    <3> QED
      BY <2>1, <2>3, <3>1, <3>3, Sizes DEF Remains
  <2> QED
    BY <2>2, <2>3
<1>2. CASE AddStages
  <2>1. active \in files /\ active \in Segs /\ phase = "open"
    BY <1>0, <1>2, SegsFacts DEF AddStages, Idle, Phased
  <2>2. hdr[active] \in Headers /\ hdr[active].kind = "ok" /\ Sane(hdr[active])
    BY <1>0, <2>1 DEF DiskInv, DiskTypes, Cached, HeadersSane, BInv, CursorInv, Believed
  <2> DEFINE j == hdr[active].w \div Unit + 1
  <2>3. hdr[active].w = 2 * hdr[active].nw /\ hdr[active].nw \in Nat /\ j = hdr[active].nw + 1
    BY <2>2, HeaderIs, Sizes DEF Sane
  <2>4. hdr[active].w < Unit * j
    BY <2>3, Sizes
  <2>5. /\ j \in Slots
        /\ disk' = [disk EXCEPT ![active] = [disk[active] EXCEPT ![j] = @ \union {Len(home) + 1}]]
    BY <1>2 DEF AddStages
  <2> HIDE DEF j
  <2>6. disk'[f][k] = disk[f][k] \/ (f = active /\ k = j
           /\ disk'[f][k] = disk[f][k] \union {Len(home) + 1})
    BY <1>0, <2>1, <2>5 DEF DiskTypes
  <2> QED
    BY <1>2, <2>4, <2>6
<1>3. CASE CreateLinks
  <2>1. making \in Segs
    BY <1>0, <1>3 DEF CreateLinks, Numbers
  <2>2. disk'[f][k] = disk[f][k] \/ disk'[f][k] = {None}
    BY <1>0, <1>3, <2>1 DEF CreateLinks, DiskTypes
  <2> QED
    BY <2>2, Sizes
<1>4. ASSUME NEW F \in SUBSET Segs,
             disk' = [g \in Segs |-> IF g \in F THEN [i \in Slots |-> {data[g][i]}] ELSE disk[g]]
      PROVE  r \in disk[f][k]
  <2>1. disk'[f][k] = {data[f][k]} \/ disk'[f][k] = disk[f][k]
    BY <1>4
  <2> QED
    BY <1>0, <2>1 DEF Cached
<1> QED
  BY <1>1, <1>2, <1>3, <1>4, DataChanges DEF DataSteps

\* What a step does to the records that were given up, and to the one on its way
LEMMA GivenUpSteps ==
    ASSUME BInv, [Next]_vars
    PROVE  /\ policy' = policy
           /\ \/ AddStages
              \/ UNCHANGED <<home, discarded>> /\ adding' \in {None, adding}
              \/ /\ UNCHANGED <<home, fs, rebuilt>> /\ adding # None /\ adding' = None
                 /\ discarded' = discarded \union {adding}
                 /\ phase = "open" /\ adding \notin Published(active)
<1>1. CASE UNCHANGED vars
  BY <1>1 DEF vars, store, ghost
<1>2. CASE AddDiscards
  BY <1>2 DEF AddDiscards, Idle
<1>3. CASE Crash \/ PowerLoss
  BY <1>3 DEF Crash, PowerLoss, Dies
<1>4. CASE Lefts
  BY <1>4, LeftSteps DEF store
<1>5. CASE Running
  BY <1>2, <1>5 DEF Running, AddStages, AddPublishes, AddSettles, FlushAll,
     FlushOne, CommitWrites, CommitFlushes, CycleDrops, CreateLinks, CreateReserves,
     CreateWrites, CreateSyncs, CreateEnds, store, ghost
<1>6. CASE Loading
  BY <1>6 DEF Loading, OpenBegins, LoadDrops, LoadKeeps, LoadConcludes, RepairWrites,
     RepairFlushes, OpenReturns, store, ghost
<1> QED
  BY <1>1, <1>3, <1>4, <1>5, <1>6 DEF Next, Failing, Lefts

LEMMA HomedNext ==
    ASSUME PInv, [Next]_vars
    PROVE  Homed'
<1>0. BInv /\ Homed /\ Plain /\ Len(home) \in Nat
  BY DEF PInv, BInv, ControlInv, Plain
<1>1. CASE AddStages
  <2>1. /\ home' = Append(home, active) /\ adding' = Len(home) + 1 /\ UNCHANGED discarded
        /\ active \in Segs
    BY <1>0, <1>1, SegsFacts DEF AddStages, Idle, BInv, ControlInv, Phased
  <2>2. /\ Len(home') = Len(home) + 1 /\ home'[Len(home) + 1] = active
        /\ \A i \in 1 .. Len(home) : home'[i] = home[i] /\ i \in 1 .. Len(home')
    BY <1>0, <2>1 DEF Plain
  <2>3. Len(home) + 1 \in 1 .. Len(home') /\ Len(home) + 1 \notin 1 .. Len(home)
    BY <1>0, <2>2
  <2>4. ASSUME NEW f \in Segs, NEW k \in Slots, NEW r \in disk'[f][k] \intersect Recs
        PROVE  r \in 1 .. Len(home') /\ home'[r] = f
    BY <1>0, <2>2, <2>3, SlotSteps DEF Homed
  <2> QED
    BY <1>0, <2>1, <2>2, <2>3, <2>4 DEF Homed
<1>2. CASE ~AddStages
  <2>1. home' = home /\ \A f \in Segs, k \in Slots : disk'[f][k] \intersect Recs \subseteq disk[f][k]
    BY <1>0, <1>2, SlotSteps, GivenUpSteps
  <2>2. /\ discarded' \subseteq discarded \union {adding}
        /\ adding = None => discarded' = discarded
        /\ adding' # None => adding' = adding /\ discarded' = discarded
    BY <1>0, <1>2, GivenUpSteps
  <2> QED
    BY <1>0, <2>1, <2>2 DEF Homed
<1> QED
  BY <1>1, <1>2

LEMMA UnseenNext ==
    ASSUME PInv, [Next]_vars
    PROVE  Unseen'
<1> SUFFICES ASSUME adding' # None, adding' \notin Published(active)',
                    NEW f \in Segs, NEW k \in Slots, adding' \in disk'[f][k]
             PROVE  f = active' /\ hdr'[f].w < Unit * k
  BY DEF Unseen
<1>0. BInv /\ Homed /\ Unseen /\ Plain /\ Plain' /\ Len(home) \in Nat /\ DiskTypes /\ Phased
  BY PlainNext DEF PInv, BInv, ControlInv, DiskInv, Plain
<1>1. adding' \in Recs
  BY <1>0 DEF Plain
<1>2. CASE adding = None
  <2>1. AddStages
    BY <1>0, <1>2, AddingBegins
  <2>2. adding' = Len(home) + 1 /\ active' = active /\ hdr' = hdr
    BY <2>1 DEF AddStages, active
  <2>3. adding' \notin disk[f][k]
    BY <1>0, <1>1, <2>2 DEF Homed
  <2> QED
    BY <1>0, <1>1, <2>2, <2>3, SlotSteps
<1>3. CASE adding # None
  <2>0. adding' = adding /\ adding \in disk[f][k]
    BY <1>0, <1>1, <1>3, SlotSteps, GivenUpSteps DEF AddStages
  <2>1. phase = "open" /\ making = None /\ active \in files /\ active \in Segs
    BY <1>0, <1>3, SegsFacts DEF Phased
  <2>2. CASE UNCHANGED vars
    BY <1>0, <1>3, <2>0, <2>2 DEF vars, fs, store, Unseen, Published, Between, active
  <2>3. CASE AddPublishes
    BY <1>0, <2>0, <2>3, PublishedNow
  <2>4. ASSUME active' = active, data' = data, hdr'[active].w = hdr[active].w
        PROVE  f = active' /\ hdr'[f].w < Unit * k
    <3>1. adding \notin Published(active)
      BY <2>0, <2>4 DEF Published, Between
    <3> QED
      BY <1>0, <1>3, <2>0, <2>4, <3>1 DEF Unseen
  <2>5. ASSUME NEW g \in Segs, CommitWrites(g) PROVE f = active' /\ hdr'[f].w < Unit * k
    <3>1. /\ hdr' = [hdr EXCEPT ![g] = [hdr[g] EXCEPT !.c = @ + Unit, !.nc = @ + 1]]
          /\ data' = data
      BY <2>5 DEF CommitWrites, WriteHeader
    <3>2. hdr'[active].w = hdr[active].w
      BY <1>0, <2>1, <3>1 DEF DiskTypes, Headers
    <3> QED
      BY <1>0, <2>4, <2>5, <3>1, <3>2, CommitKeepsActive
  <2>6. CASE CommitFlushes
    <3>1. hdr' = hdr /\ data' = data
      BY <2>6 DEF CommitFlushes
    <3> QED
      BY <1>0, <2>4, <2>6, <3>1, CommitKeepsActive
  <2>7. CASE AddDiscards \/ AddSettles \/ Crash \/ PowerLoss
    BY <2>7 DEF AddDiscards, AddSettles, Crash, PowerLoss, Dies
  <2> QED
    BY <1>0, <1>3, <2>2, <2>3, <2>5, <2>6, <2>7, AddingSteps
<1> QED
  BY <1>2, <1>3

\* The steps inside an open
LEMMA LoadingSteps ==
    ASSUME BInv, [Next]_vars, phase' \in Loads
    PROVE  \/ files' = {}
           \/ /\ phase \in Loads
              /\ \/ UNCHANGED vars \/ LoadDrops \/ LoadKeeps \/ LoadConcludes
                 \/ (\E f \in Segs : RepairWrites(f)) \/ RepairFlushes
<1>0. Phased
  BY DEF BInv, ControlInv
<1>1. CASE UNCHANGED vars
  BY <1>1 DEF vars
<1>2. CASE Running
  BY <1>0, <1>2, QuietSteps DEF Running, AddStages, AddDiscards, AddPublishes,
                                AddSettles, FlushAll,
     FlushOne, CommitWrites, CommitFlushes, CycleDrops, CreateLinks, CreateReserves,
     CreateWrites, CreateSyncs, CreateEnds, Loads, Free, Idle, Linked, Phased
<1>3. CASE Failing
  <2>1. phase' \in {"losing", "off"}
    BY <1>3, LeftSteps DEF Failing, Lefts, Crash, PowerLoss, PowerLossLeaves, Cut,
                           Overwritten, Struck
  <2> QED
    BY <2>1 DEF Loads
<1>4. CASE OpenBegins
  BY <1>0, <1>4 DEF OpenBegins, Phased
<1>5. CASE OpenReturns
  BY <1>5 DEF OpenReturns, Loads
<1>6. CASE LoadDrops \/ LoadKeeps \/ LoadConcludes \/ (\E f \in Segs : RepairWrites(f)) \/ RepairFlushes
  BY <1>6 DEF LoadDrops, LoadKeeps, LoadConcludes, RepairWrites, RepairFlushes, Loads
<1> QED
  BY <1>1, <1>2, <1>3, <1>4, <1>5, <1>6 DEF Next, Loading

\* Headers come and go, but for the repair of a segment that was cut, and the widest stays
LEMMA WidestNext ==
    ASSUME BInv, [Next]_vars, NEW f \in Segs, Widest(f),
           RepairWrites(f) => (hdr[f].kind = "ok" => hdr[f].w <= mem[f].size)
    PROVE  Widest(f)'
<1>0. DiskTypes /\ HeadersOK /\ HeadersOK'
  BY DiskNext DEF BInv, DiskInv, DiskTypes, Cached, HeadersSane, HeadersOK
<1>1. CASE Lefts
  <2>1. PICK g \in Segs, e \in Entries, l \in 0 .. Full, h \in Headers, d \in [Slots -> Cells] :
            Left(g, e, l, h, d)
    BY <1>1, LeftSteps
  <2>2. hdrs'[f] = {hdr'[f]} \/ (hdrs'[f] = hdrs[f] /\ hdr'[f] = hdr[f])
    BY <1>0, <2>1 DEF Left, HeadersOK
  <2>3. hdr'[f].w <= hdr'[f].w
    BY <1>0, HeaderIs DEF HeadersOK
  <2> QED
    BY <2>2, <2>3 DEF Widest
<1>2. CASE Settles
  BY <1>2 DEF Settles, Widest
<1>3. ASSUME NEW g \in Segs, NEW h \in Headers, Writes(g, h), WrittenBy(g, h)
      PROVE  Widest(f)'
  <2>1. CASE g # f
    BY <1>0, <1>3, <2>1 DEF Writes, Widest, HeadersOK
  <2>2. CASE g = f
    <3>1. hdr'[f] = h /\ hdrs'[f] \subseteq hdrs[f] \union {h}
      BY <1>0, <1>3, <2>2 DEF Writes, HeadersOK
    <3>2. h.w \in Nat /\ hdr[f].w \in Nat /\ \A j \in hdrs[f] : j.w \in Nat
      BY <1>0, <1>3, HeaderIs DEF HeadersOK
    <3>3. ASSUME h.kind = "ok", hdr[f].kind = "ok" => hdr[f].w <= h.w
          PROVE  Widest(f)'
      BY <3>1, <3>2, <3>3 DEF Widest
    <3>4. CASE h = [hdr[f] EXCEPT !.w = @ + Unit, !.nw = @ + 1] /\ f = active /\ AddPublishes
      <4>1. h.kind = "ok" /\ h.w = hdr[f].w + Unit
        BY <3>1, <3>4, PublishedNow
      <4> QED
        BY <3>2, <3>3, <4>1, Sizes
    <3>5. CASE h = [hdr[f] EXCEPT !.c = @ + Unit, !.nc = @ + 1] /\ CommitWrites(f)
      <4>1. hdr[f].kind = "ok" /\ hdr[f] \in Headers
        BY <1>0, <3>5 DEF CommitWrites, Free, Idle, BInv, CursorInv, Believed, HeadersOK
      <4>2. h.kind = "ok" /\ h.w = hdr[f].w
        BY <3>5, <4>1 DEF Headers
      <4> QED
        BY <3>2, <3>3, <4>2
    <3>6. CASE h = Header(0, 0, 0, 0) /\ CreateWrites
      <4>1. f = making \/ f # making
        OBVIOUS
      <4>2. hdr[making].kind = "zero"
        BY <3>6 DEF CreateWrites
      <4>3. CASE f = making
        BY <3>3, <3>6, <4>2, <4>3 DEF Header
      <4>4. CASE f # making
        <5>1. hdrs' = [hdrs EXCEPT ![making] = hdrs[making] \union {Header(0, 0, 0, 0)}]
              /\ hdr' = [hdr EXCEPT ![making] = Header(0, 0, 0, 0)]
          BY <3>6 DEF CreateWrites, WriteHeader
        <5> QED
          BY <1>0, <4>4, <5>1 DEF Widest, HeadersOK
      <4> QED
        BY <4>3, <4>4
    <3>7. CASE h = Broken("zero") /\ CreateLinks /\ f = making
      <4>1. hdrs'[f] = {Broken("zero")}
        BY <1>0, <3>7 DEF CreateLinks, HeadersOK
      <4>2. Broken("zero").kind # "ok"
        BY BrokenIs DEF HeaderKinds
      <4> QED
        BY <4>1, <4>2 DEF Widest
    <3>8. CASE h = Wanted(f) /\ RepairWrites(f)
      <4>1. h.kind = "ok" /\ h.w = mem[f].size
        BY <3>8 DEF Wanted, Header
      <4> QED
        BY <3>3, <3>8, <4>1
    <3> QED
      BY <1>3, <2>2, <3>4, <3>5, <3>6, <3>7, <3>8 DEF WrittenBy
  <2> QED
    BY <2>1, <2>2
<1> QED
  BY <1>1, <1>2, <1>3, HeaderSteps

\* A header that is all a power loss can leave
LEMMA AloneIsWidest ==
    ASSUME BInv, [Next]_vars, NEW f \in Segs, hdrs'[f] = {hdr'[f]}
    PROVE  Widest(f)'
<1>1. hdr'[f] \in Headers
  BY DiskNext DEF DiskInv, DiskTypes
<1>2. hdr'[f].w <= hdr'[f].w
  BY <1>1, HeaderIs
<1> QED
  BY <1>2 DEF Widest

\* What load keeps of a segment: all its header says, unless the file is short or the
\* header torn, and never more
LEMMA KeptSize ==
    ASSUME BInv, LoadKeeps
    PROVE  /\ at \in Segs /\ at \notin files /\ files' = files \union {at}
           /\ \A f \in files : f \in Segs /\ mem'[f] = mem[f]
           /\ UNCHANGED <<hdr, hdrs, len, disk>> /\ len[at] \in 0 .. Full
           /\ ~mem'[at].truncated => len[at] = Full
           /\ len[at] = Full /\ hdr[at].kind = "ok" => mem'[at].size = hdr[at].w
           /\ hdr[at].kind = "ok" => mem'[at].size <= hdr[at].w /\ rebuilt' = rebuilt
           /\ hdr[at].kind # "ok" => rebuilt' = rebuilt \union {at}
<1>1. /\ at \in Segs /\ at \notin files /\ files \subseteq Segs /\ files' = files \union {at}
      /\ UNCHANGED <<hdr, hdrs, len, disk>>
  <2>1. \A f \in files : f < at
    BY DEF LoadKeeps, BInv, ControlInv, Numbers
  <2>2. at \in Segs
    BY DEF LoadKeeps, BInv, ControlInv, Phased
  <2> QED
    BY <2>1, <2>2, SegsFacts, Sizes DEF LoadKeeps, fs
<1>2. /\ len[at] \in 0 .. Full /\ hdr[at] \in Headers /\ Sane(hdr[at]) /\ mem \in [Segs -> Mems]
  BY <1>1 DEF BInv, DiskInv, DiskTypes, Cached, HeadersSane, CursorInv, MemSane
<1>3. len[at] \in Hdr .. Full /\ hdr[at].kind \in {"ok", "torn"}
  <2>1. ~(len[at] < Hdr) /\ hdr[at].kind \notin {"zero", "garbage", "foreign"}
    BY DEF LoadKeeps, Unreadable
  <2> QED
    BY <1>2, <2>1, HeaderIs, Sizes DEF HeaderKinds
<1>4. \A f \in files : f \in Segs /\ mem'[f] = mem[f]
  BY <1>1, <1>2 DEF LoadKeeps
<1>5. CASE hdr[at].kind = "torn"
  <2>1. mem'[at] = Salvaged(at) /\ rebuilt' = rebuilt \union {at}
    BY <1>1, <1>2, <1>5 DEF LoadKeeps
  <2>2. mem'[at].truncated
    BY <2>1 DEF Salvaged
  <2> QED
    BY <1>1, <1>2, <1>4, <1>5, <2>1, <2>2
<1>6. CASE hdr[at].kind = "ok"
  <2>1. mem'[at] = ReadBack(at) /\ rebuilt' = rebuilt
    BY <1>1, <1>2, <1>6 DEF LoadKeeps
  <2>2. /\ mem'[at].truncated = (len[at] < Full)
        /\ mem'[at].size = IF LostTail(at) THEN Unit * Surviving(at) ELSE hdr[at].w
    BY <2>1 DEF ReadBack
  <2>3. hdr[at].w \in Nat /\ hdr[at].w <= 2 * Cap /\ Cap \in Nat /\ len[at] \in Nat
           /\ Full = 2 + 2 * Cap
    BY <1>2, HeaderIs, Sizes
  <2>4. len[at] = Full => ~LostTail(at)
    BY <2>3, Sizes DEF LostTail
  <2>5. LostTail(at) => Unit * Surviving(at) <= hdr[at].w
    <3>1. Unit * Surviving(at) \in Nat /\ Hdr + Unit * Surviving(at) <= len[at]
      BY <1>1, <1>3, SurvivingIs
    <3> QED
      BY <2>3, <3>1, Sizes DEF LostTail
  <2>6. ~(len[at] < Full) => len[at] = Full
    BY <1>2, Sizes
  <2>7. ~mem'[at].truncated => len[at] = Full
    BY <2>2, <2>6
  <2>8. (len[at] = Full => mem'[at].size = hdr[at].w) /\ mem'[at].size <= hdr[at].w
    BY <2>2, <2>3, <2>4, <2>5
  <2> QED
    BY <1>1, <1>2, <1>4, <1>6, <2>1, <2>7, <2>8
<1> QED
  BY <1>3, <1>5, <1>6

LEMMA ReconciledSize ==
    ASSUME BInv, LoadConcludes, NEW f \in files
    PROVE  /\ f \in Segs /\ files' = files /\ mem'[f].size = mem[f].size
           /\ mem'[f].truncated = mem[f].truncated
<1>1. f \in Segs /\ files' = files /\ mem[f] \in Mems /\ mem'[f] = Reconciled(f)
  BY SegsFacts DEF LoadConcludes, BInv, CursorInv, MemSane
<1>2. \/ Reconciled(f) = [mem[f] EXCEPT !.nc = mem[f].nw, !.c = mem[f].size]
      \/ Reconciled(f) = [mem[f] EXCEPT !.nc = 0, !.c = 0]
      \/ Reconciled(f) = mem[f]
  BY DEF Reconciled
<1> QED
  BY <1>1, <1>2 DEF Mems

\* What a repair writes and what its flush leaves
LEMMA RepairedSize ==
    ASSUME BInv, NEW f \in Segs, RepairWrites(f)
    PROVE  /\ hdr'[f].kind = "ok" /\ hdr'[f].w = mem[f].size /\ at' = f /\ f \in files
           /\ \A g \in Segs : g # f => hdr'[g] = hdr[g]
           /\ UNCHANGED <<len, mem, files,
                          rebuilt>> /\ phase = "repair" /\ phase' = "flush"
<1>1. hdr' = [hdr EXCEPT ![f] = Wanted(f)] /\ hdr \in [Segs -> Headers]
  BY DEF RepairWrites, WriteHeader, BInv, DiskInv, DiskTypes
<1>2. Wanted(f).kind = "ok" /\ Wanted(f).w = mem[f].size
  BY DEF Wanted, Header
<1> QED
  BY <1>1, <1>2 DEF RepairWrites, Unrepaired, ghost

LEMMA FlushedSize ==
    ASSUME BInv, RepairFlushes
    PROVE  /\ at \in Segs /\ hdrs'[at] = {hdr'[at]} /\ hdr' = hdr /\ UNCHANGED <<files,
                                                                                 rebuilt>>
           /\ \A f \in Segs : /\ mem'[f].size = mem[f].size
                              /\ f # at => mem'[f] = mem[f] /\ len'[f] = len[f]
           /\ phase = "flush" /\ phase' = "repair"
<1>1. at \in Segs /\ DiskTypes /\ mem \in [Segs -> Mems]
  BY DEF RepairFlushes, BInv, DiskInv, ControlInv, Phased, CursorInv, MemSane
<1>2. mem' = [mem EXCEPT ![at] = [mem[at] EXCEPT !.truncated = FALSE]]
  BY DEF RepairFlushes
<1>3. \A f \in Segs : mem'[f].size = mem[f].size /\ (f # at => mem'[f] = mem[f])
  BY <1>1, <1>2 DEF Mems
<1>4. PICK l : len' = [len EXCEPT ![at] = l]
  BY DEF RepairFlushes
<1> QED
  BY <1>1, <1>3, <1>4 DEF RepairFlushes, DiskTypes, ghost

LEMMA WidthsNext ==
    ASSUME PInv, [Next]_vars
    PROVE  Widths'
<1>0. /\ BInv /\ Widths /\ Phased /\ Numbers /\ DiskInv /\ DiskTypes /\ files \subseteq Segs
      /\ Phased' /\ DiskInv'
  BY SegsFacts, PhasedNext, DiskNext DEF PInv, BInv, ControlInv, DiskInv
<1>1. ASSUME NEW f \in Segs, Widest(f), f \in files => len[f] = Full \/ ~mem[f].truncated
      PROVE  Widest(f)'
  <2>1. ASSUME RepairWrites(f) PROVE hdr[f].kind = "ok" => hdr[f].w <= mem[f].size
    BY <1>0, <1>1, <2>1, RepairedSize DEF Widths, Loads
  <2> QED
    BY <1>0, <1>1, <2>1, WidestNext
<1>2. ASSUME NEW f \in Segs, Widest(f), phase \notin Loads PROVE Widest(f)'
  <2>1. ~RepairWrites(f)
    BY <1>2 DEF RepairWrites, Loads
  <2> QED
    BY <1>0, <1>2, <2>1, WidestNext
<1>3. ASSUME NEW f \in Segs, len'[f] = Full PROVE Widest(f)'
  <2>1. CASE len[f] = Full
    BY <1>0, <1>1, <2>1 DEF Widths
  <2>2. CASE len[f] # Full
    <3>1. CASE Lefts
      <4>1. PICK g \in Segs, e \in Entries, l \in 0 .. Full, h \in Headers, d \in [Slots -> Cells] :
                Left(g, e, l, h, d)
        BY <1>0, <3>1, LeftSteps
      <4>2. f = g
        BY <1>0, <1>3, <2>2, <4>1 DEF Left, DiskTypes
      <4>3. hdrs'[f] = {hdr'[f]}
        BY <1>0, <4>1, <4>2 DEF Left, DiskTypes
      <4> QED
        BY <1>0, <4>3, AloneIsWidest
    <3>2. CASE AddStages
      <4>1. f \in files /\ phase = "open"
        <5>1. active \in files /\ active \in Segs /\ phase = "open"
          BY <1>0, <3>2, SegsFacts DEF AddStages, Idle, Phased
        <5>2. \A g \in Segs : g # active => len'[g] = len[g]
          BY <1>0, <3>2, <5>1 DEF AddStages, DiskTypes
        <5> QED
          BY <1>3, <2>2, <5>1, <5>2
      <4> QED
        BY <1>0, <1>2, <4>1 DEF Widths, Loads
    <3>3. CASE CreateLinks
      <4>1. making \in Segs
        BY <1>0, <3>3 DEF CreateLinks, Numbers
      <4>2. len'[f] = len[f] \/ len'[f] = 0
        BY <1>0, <3>3, <4>1 DEF CreateLinks, DiskTypes
      <4> QED
        BY <1>3, <2>2, <4>2, Sizes
    <3>4. CASE CreateReserves
      <4>1. making \in Segs /\ Linked /\ phase \notin Loads
        BY <1>0, <3>4 DEF CreateReserves, Linked, Numbers, Phased, Loads
      <4>2. f = making
        BY <1>0, <1>3, <2>2, <3>4, <4>1 DEF CreateReserves, DiskTypes
      <4> QED
        BY <1>0, <1>2, <4>1, <4>2 DEF Widths
    <3>5. CASE RepairFlushes
      <4>1. f = at /\ hdrs'[f] = {hdr'[f]}
        BY <1>0, <1>3, <2>2, <3>5, FlushedSize
      <4> QED
        BY <1>0, <4>1, AloneIsWidest
    <3> QED
      BY <1>0, <1>3, <2>2, <3>1, <3>2, <3>3, <3>4, <3>5, LenChanges DEF LenSteps
  <2> QED
    BY <2>1, <2>2
<1>4. ASSUME Linked' PROVE Widest(making)'
  <2>0. making # None
    BY <1>0, <1>4, MakingBegins DEF Linked
  <2>1. making \in Segs /\ phase \notin Loads
    BY <1>0, <2>0 DEF Numbers, Phased, Loads
  <2>2. CASE CreateLinks
    <3>1. making' = making /\ hdrs'[making] = {hdr'[making]}
      BY <1>0, <2>1, <2>2 DEF CreateLinks, store, DiskTypes
    <3>2. \A f : f = making => Widest(f)'
      BY <1>0, <2>1, <3>1, AloneIsWidest
    <3> QED
      BY <3>1, <3>2 DEF Widest
  <2>3. CASE CreateReserves \/ CreateWrites \/ CreateSyncs \/ UNCHANGED vars
    <3>1. making' = making /\ entry' = entry
      BY <2>3 DEF CreateReserves, CreateWrites, CreateSyncs, vars, store, fs
    <3>2. Linked
      BY <1>4, <3>1 DEF Linked
    <3>3. \A f : f = making => Widest(f)'
      BY <1>0, <1>2, <2>1, <3>2 DEF Widths
    <3> QED
      BY <3>1, <3>3 DEF Widest
  <2>4. CASE CreateEnds \/ Crash \/ PowerLoss
    BY <1>4, <2>4 DEF CreateEnds, Crash, PowerLoss, Dies, Linked
  <2> QED
    BY <1>0, <2>0, <2>2, <2>3, <2>4, MakingSteps
<1>5. ASSUME phase' = "open", NEW f \in files' PROVE Widest(f)'
  <2>1. CASE OpenReturns
    <3>1. f \in files /\ f \in Segs /\ ~mem[f].truncated /\ phase = "repair"
      BY <1>0, <1>5, <2>1 DEF OpenReturns, Unrepaired
    <3> QED
      BY <1>0, <1>1, <3>1 DEF Widths, Loads
  <2>2. CASE CreateEnds
    <3>1. (f = making \/ f \in files) /\ Linked /\ making \in Segs /\ phase \in {"open", "fresh"}
      BY <1>0, <1>5, <2>2 DEF CreateEnds, Linked, Numbers, Phased
    <3>2. f \in Segs /\ Widest(f)
      BY <1>0, <3>1 DEF Widths, Phased
    <3> QED
      BY <1>2, <3>1, <3>2 DEF Loads
  <2>3. CASE phase = "open" /\ files' \subseteq files
    BY <1>0, <1>2, <1>5, <2>3 DEF Widths, Loads
  <2> QED
    BY <1>0, <1>5, <2>1, <2>2, <2>3, LiveSteps
<1>6. ASSUME phase' \in Loads, NEW f \in files'
      PROVE  /\ ~mem'[f].truncated => Widest(f)'
             /\ ~mem'[f].truncated \/ len'[f] = Full =>
                   (hdr'[f].kind = "ok" => hdr'[f].w <= mem'[f].size)
  <2> DEFINE Goal == /\ ~mem'[f].truncated => Widest(f)'
                     /\ ~mem'[f].truncated \/ len'[f] = Full =>
                           (hdr'[f].kind = "ok" => hdr'[f].w <= mem'[f].size)
  <2>1. CASE UNCHANGED vars
    <3>1. f \in files /\ UNCHANGED <<mem, hdr, hdrs, len, phase>>
      BY <1>6, <2>1 DEF vars, fs, store
    <3> QED
      BY <1>0, <1>6, <3>1 DEF Widths, Widest
  <2>2. CASE LoadDrops
    <3>1. f \in files /\ UNCHANGED <<mem, hdr, hdrs, len>> /\ phase \in Loads
      BY <1>6, <2>2 DEF LoadDrops, store, Loads
    <3> QED
      BY <1>0, <3>1 DEF Widths, Widest
  <2>3. CASE LoadKeeps
    <3>1. CASE f = at
      <4>1. ~mem'[f].truncated => len[f] = Full
        BY <1>0, <2>3, <3>1, KeptSize
      <4>2. ~mem'[f].truncated => Widest(f)'
        BY <1>0, <2>3, <3>1, <4>1, KeptSize DEF Widths, Widest
      <4>3. len[f] = Full => (hdr[f].kind = "ok" => hdr[f].w <= mem'[f].size)
        BY <1>0, <2>3, <3>1, KeptSize
      <4> QED
        BY <1>0, <2>3, <3>1, <4>1, <4>2, <4>3, KeptSize
    <3>2. CASE f # at
      <4>1. f \in files /\ mem'[f] = mem[f] /\ UNCHANGED <<hdr, hdrs,
                                                           len>> /\ phase \in Loads
        BY <1>0, <1>6, <2>3, <3>2, KeptSize DEF LoadKeeps, Loads
      <4> QED
        BY <1>0, <4>1 DEF Widths, Widest
    <3> QED
      BY <3>1, <3>2
  <2>4. CASE LoadConcludes
    <3>1. f \in files /\ UNCHANGED <<hdr, hdrs, len>> /\ phase \in Loads
      BY <1>6, <2>4 DEF LoadConcludes, fs, Loads
    <3>2. mem'[f].size = mem[f].size /\ mem'[f].truncated = mem[f].truncated
      BY <1>0, <2>4, <3>1, ReconciledSize
    <3> QED
      BY <1>0, <3>1, <3>2 DEF Widths, Widest
  <2>5. ASSUME NEW g \in Segs, RepairWrites(g) PROVE Goal
    <3>1. f \in files /\ f \in Segs /\ mem' = mem /\ len' = len /\ phase \in Loads
      BY <1>0, <1>6, <2>5, RepairedSize DEF Loads
    <3>2. ~mem[f].truncated => Widest(f)'
      BY <1>0, <1>1, <3>1 DEF Widths
    <3>3. hdr'[f].w \in Nat
      BY <1>0, <3>1, HeaderIs DEF DiskInv, DiskTypes
    <3>4. CASE f = g
      BY <1>0, <2>5, <3>1, <3>2, <3>3, <3>4, RepairedSize
    <3>5. CASE f # g
      BY <1>0, <2>5, <3>1, <3>2, <3>5, RepairedSize DEF Widths
    <3> QED
      BY <3>4, <3>5
  <2>6. CASE RepairFlushes
    <3>1. f \in files /\ f \in Segs /\ hdr' = hdr /\ phase = "flush" /\ phase \in Loads
      BY <1>0, <1>6, <2>6, FlushedSize DEF Loads
    <3>2. hdr[f].w \in Nat
      BY <1>0, <3>1, HeaderIs DEF DiskTypes
    <3>3. CASE f = at
      <4>1. Widest(f)'
        BY <1>0, <2>6, <3>1, <3>3, FlushedSize, AloneIsWidest
      <4>2. hdr[f].w = mem[f].size /\ mem'[f].size = mem[f].size
        BY <1>0, <2>6, <3>1, <3>3, FlushedSize DEF Widths
      <4> QED
        BY <3>1, <3>2, <4>1, <4>2
    <3>4. CASE f # at
      <4>1. mem'[f] = mem[f] /\ len'[f] = len[f]
        BY <1>0, <2>6, <3>1, <3>4, FlushedSize
      <4>2. ~mem[f].truncated => Widest(f)'
        BY <1>0, <1>1, <3>1 DEF Widths
      <4> QED
        BY <1>0, <3>1, <4>1, <4>2 DEF Widths
    <3> QED
      BY <3>3, <3>4
  <2> QED
    BY <1>0, <1>6, <2>1, <2>2, <2>3, <2>4, <2>5, <2>6, LoadingSteps
<1>7. ASSUME phase' = "flush" PROVE hdr'[at'].w = mem'[at'].size
  <2>1. files' # {} /\ phase' \in Loads
    BY <1>0, <1>7 DEF Phased, Loads
  <2>2. CASE UNCHANGED vars
    BY <1>0, <1>7, <2>2 DEF vars, fs, store, Widths
  <2>3. ASSUME NEW f \in Segs, RepairWrites(f) PROVE hdr'[at'].w = mem'[at'].size
    BY <1>0, <2>3, RepairedSize
  <2>4. CASE LoadDrops \/ LoadKeeps \/ LoadConcludes \/ RepairFlushes
    BY <1>7, <2>4 DEF LoadDrops, LoadKeeps, LoadNext, LoadConcludes, RepairFlushes
  <2> QED
    BY <1>0, <2>1, <2>2, <2>3, <2>4, LoadingSteps
<1> QED
  BY <1>3, <1>4, <1>5, <1>6, <1>7 DEF Widths

LEMMA NoMoreNext ==
    ASSUME PInv, [Next]_vars
    PROVE  NoMore'
<1>0. BInv /\ NoMore /\ DiskTypes /\ files \subseteq Segs
  BY SegsFacts DEF PInv, BInv, DiskInv
<1> SUFFICES ASSUME phase' \in Loads, NEW f \in files', f \notin rebuilt'
             PROVE  hdr'[f].kind = "ok" /\ mem'[f].size <= hdr'[f].w
  BY DEF NoMore
<1>1. CASE UNCHANGED vars \/ LoadDrops
  <2>1. UNCHANGED <<files, mem, hdr, rebuilt>> /\ phase \in Loads
    BY <1>1 DEF vars, fs, store, ghost, LoadDrops, Loads
  <2> QED
    BY <1>0, <2>1 DEF NoMore
<1>2. CASE LoadKeeps
  <2>1. phase \in Loads /\ rebuilt \subseteq rebuilt' /\ UNCHANGED hdr
    BY <1>2 DEF LoadKeeps, Loads, fs
  <2>2. CASE f = at
    BY <1>0, <1>2, <2>1, <2>2, KeptSize
  <2>3. CASE f # at
    BY <1>0, <1>2, <2>1, <2>3, KeptSize DEF NoMore
  <2> QED
    BY <2>2, <2>3
<1>3. CASE LoadConcludes
  <2>1. f \in files /\ UNCHANGED <<hdr, rebuilt>> /\ phase \in Loads
    BY <1>3 DEF LoadConcludes, fs, Loads
  <2> QED
    BY <1>0, <1>3, <2>1, ReconciledSize DEF NoMore
<1>4. ASSUME NEW g \in Segs, RepairWrites(g)
      PROVE  hdr'[f].kind = "ok" /\ mem'[f].size <= hdr'[f].w
  <2>1. f \in files /\ f \in Segs /\ f \notin rebuilt /\ mem' = mem /\ phase \in Loads
    BY <1>0, <1>4, RepairedSize DEF Loads
  <2>2. hdr'[f].w \in Nat
    BY <1>0, <2>1, DiskNext, HeaderIs DEF DiskInv, DiskTypes
  <2>3. CASE f = g
    BY <1>0, <1>4, <2>1, <2>2, <2>3, RepairedSize
  <2>4. CASE f # g
    BY <1>0, <1>4, <2>1, <2>4, RepairedSize DEF NoMore
  <2> QED
    BY <2>3, <2>4
<1>5. CASE RepairFlushes
  <2>1. f \in files /\ f \in Segs /\ f \notin rebuilt /\ hdr' = hdr /\ phase \in Loads
        /\ mem'[f].size = mem[f].size
    BY <1>0, <1>5, FlushedSize DEF Loads
  <2> QED
    BY <1>0, <2>1 DEF NoMore
<1> QED
  BY <1>0, <1>1, <1>2, <1>3, <1>4, <1>5, LoadingSteps

\* A segment stops being a rebuilt one when its number is used again, with nothing in it
LEMMA RebuiltSteps ==
    ASSUME BInv, [Next]_vars
    PROVE  rebuilt \subseteq rebuilt' \/ (CreateLinks /\ rebuilt' = rebuilt \ {making})
<1>1. CASE Lefts
  BY <1>1, LeftSteps
<1>2. CASE Running
  BY <1>2 DEF Running, AddStages, AddDiscards, AddPublishes, AddSettles, FlushAll,
     FlushOne, CommitWrites, CommitFlushes, CycleDrops, CreateLinks, CreateReserves,
     CreateWrites, CreateSyncs, CreateEnds, ghost
<1>3. CASE Crash \/ PowerLoss
  <2>1. Dies
    BY <1>3 DEF Crash, PowerLoss
  <2> QED
    BY <2>1 DEF Dies
<1>4. CASE Loading
  BY <1>4 DEF Loading, OpenBegins, LoadDrops, LoadKeeps, LoadConcludes, RepairWrites,
     RepairFlushes, OpenReturns, ghost
<1> QED
  BY <1>1, <1>2, <1>3, <1>4 DEF Next, Failing, Lefts, vars, ghost

LEMMA CleanNext ==
    ASSUME PInv, [Next]_vars
    PROVE  Clean'
<1>0. /\ BInv /\ Homed /\ Widths /\ Unseen /\ NoMore /\ Clean /\ DiskTypes /\ HeadersOK /\ HeadersOK'
      /\ Plain /\ Len(home) \in Nat /\ Numbers /\ Phased
  BY DiskNext DEF PInv, BInv, ControlInv, DiskInv, DiskTypes, Cached, HeadersSane,
                  HeadersOK, Plain
<1> SUFFICES ASSUME policy' = "perOp", NEW f \in Segs \ rebuilt', NEW h \in hdrs'[f], h.kind = "ok",
                    NEW k \in Slots, Unit * k <= h.w,
                    NEW r \in disk'[f][k], r \in discarded'
             PROVE  FALSE
  BY DEF Clean, CleanUnder
<1>1. policy = "perOp" /\ h.w \in Nat /\ Unit * k \in Nat /\ hdr[f].w \in Nat /\ hdr[f] \in hdrs[f]
      /\ Unit * k > 0
  BY <1>0, GivenUpSteps, HeaderIs, Sizes DEF HeadersOK
<1>2. CASE r \notin discarded
  <2>1. /\ UNCHANGED <<fs, rebuilt>> /\ adding # None /\ r = adding
        /\ phase = "open" /\ adding \notin Published(active)
    BY <1>0, <1>2, GivenUpSteps DEF AddStages
  <2>2. active \in files /\ adding \in disk[f][k] /\ h \in hdrs[f]
    <3>1. making = None
      BY <1>0, <2>1 DEF Phased
    <3> QED
      BY <1>0, <2>1, <3>1, SegsFacts DEF Phased, fs
  <2>3. f = active /\ hdr[f].w < Unit * k
    BY <1>0, <2>1, <2>2 DEF Unseen
  <2>4. h.w <= hdr[f].w
    BY <1>0, <2>1, <2>2, <2>3 DEF Widths, Widest
  <2> QED
    BY <1>1, <2>3, <2>4
<1>3. CASE r \in discarded
  <2>1. r \in 1 .. Len(home) /\ r \in Recs
    BY <1>0, <1>3, Sizes DEF Homed, Plain
  <2>2. r \in disk[f][k]
    <3>1. r # Len(home) + 1
      BY <1>0, <2>1
    <3> QED
      BY <1>0, <2>1, <3>1, SlotSteps
  <2>3. f \notin rebuilt
    <3>1. CASE CreateLinks /\ f = making
      <4>1. disk'[f][k] = {None}
        BY <1>0, <3>1 DEF CreateLinks, DiskTypes
      <4> QED
        BY <2>1, <4>1, Sizes
    <3> QED
      BY <1>0, <3>1, RebuiltSteps
  <2>4. ASSUME NEW j \in hdrs[f], j.kind = "ok", Unit * k <= j.w PROVE FALSE
    BY <1>0, <1>1, <1>3, <2>2, <2>3, <2>4 DEF Clean, CleanUnder
  <2>5. h \notin hdrs[f]
    BY <2>4
  <2>6. PICK g \in Segs, H \in Headers : Writes(g, H) /\ WrittenBy(g, H)
    <3>1. ~Settles
      BY <1>0, <2>5 DEF Settles
    <3>2. ~Lefts
      <4>1. SUFFICES ASSUME Lefts PROVE FALSE
        OBVIOUS
      <4>2. PICK g \in Segs, e \in Entries, l \in 0 .. Full, j \in Headers, d \in [Slots -> Cells] :
                Left(g, e, l, j, d) /\ Remains(g, j, d)
        BY <1>0, <4>1, LeftSteps
      <4>3. hdrs'[f] = hdrs[f] \/ (f = g /\ hdrs'[f] = {hdr'[f]} /\ hdr'[f] \in {j, Broken("zero")})
        BY <1>0, <4>2 DEF Left, HeadersOK
      <4>4. Broken("zero").kind # "ok"
        BY BrokenIs DEF HeaderKinds
      <4> QED
        BY <2>5, <4>2, <4>3, <4>4 DEF Remains
    <3> QED
      BY <1>0, <3>1, <3>2, HeaderSteps
  <2>7. g = f /\ h = H
    BY <1>0, <2>5, <2>6 DEF Writes, HeadersOK
  <2>8. CASE h = [hdr[f] EXCEPT !.w = @ + Unit, !.nw = @ + 1] /\ f = active /\ AddPublishes
    <3>1. /\ hdr[f].kind = "ok" /\ hdr[f].w = Unit * hdr[f].nw /\ hdr[f].nw \in Nat
          /\ data[f][hdr[f].nw + 1] = adding /\ adding # None
      BY <1>0, <2>8, PublishedNow DEF AddPublishes
    <3>2. h.w = hdr[f].w + Unit
      BY <1>0, <2>8 DEF HeadersOK, Headers
    <3>3. ~(Unit * k <= hdr[f].w)
      BY <1>1, <2>4, <3>1
    <3>4. k = hdr[f].nw + 1
      <4>1. k \in Nat /\ Unit = 2
        BY Sizes
      <4>2. 2 * k <= 2 * hdr[f].nw + 2 /\ ~(2 * k <= 2 * hdr[f].nw)
        BY <3>1, <3>2, <3>3, <4>1
      <4>3. \A i, n \in Nat : 2 * i <= 2 * n + 2 /\ ~(2 * i <= 2 * n) => i = n + 1
        OBVIOUS
      <4> QED
        BY <3>1, <4>1, <4>2, <4>3
    <3>5. disk'[f][k] = {data[f][k]}
      BY <1>0, <1>1, <2>8 DEF AddPublishes, Publishes, FsyncData, DiskTypes
    <3> QED
      BY <1>0, <1>3, <3>1, <3>4, <3>5 DEF Homed
  <2>9. CASE h = [hdr[f] EXCEPT !.c = @ + Unit, !.nc = @ + 1] /\ CommitWrites(f)
    <3>1. h.kind = hdr[f].kind /\ h.w = hdr[f].w
      BY <1>0, <2>9 DEF HeadersOK, Headers
    <3> QED
      BY <1>1, <2>4, <3>1
  <2>10. CASE h = Header(0, 0, 0, 0)
    <3>1. h.w = 0
      BY <2>10 DEF Header
    <3> QED
      BY <1>1, <3>1
  <2>11. CASE h = Broken("zero")
    BY <2>11, BrokenIs DEF HeaderKinds
  <2>12. CASE h = Wanted(f) /\ RepairWrites(f)
    <3>1. h.w = mem[f].size /\ f \in files /\ phase \in Loads
      BY <1>0, <2>12, RepairedSize DEF Wanted, Header, Loads
    <3>2. hdr[f].kind = "ok" /\ h.w <= hdr[f].w
      BY <1>0, <2>3, <3>1 DEF NoMore
    <3> QED
      BY <1>1, <2>4, <3>2
  <2> QED
    BY <2>6, <2>7, <2>8, <2>9, <2>10, <2>11, <2>12 DEF WrittenBy
<1> QED
  BY <1>2, <1>3

LEMMA PInvInit == Init => PInv
<1> SUFFICES ASSUME Init PROVE PInv
  OBVIOUS
<1>1. BInv
  BY BInvInit
<1>2. Homed
  BY Sizes DEF Init, Homed
<1>3. \A f \in Segs : hdrs[f] = {hdr[f]} /\ hdr[f] \in Headers
  BY <1>1 DEF Init, BInv, DiskInv, DiskTypes
<1>4. \A f \in Segs : Widest(f)
  BY <1>3, HeaderIs DEF Widest
<1>5. Widths
  BY <1>4, Sizes DEF Init, Widths, Linked, Loads
<1>6. Unseen /\ NoMore /\ Clean
  BY DEF Init, Unseen, NoMore, Clean, CleanUnder, Loads
<1> QED
  BY <1>1, <1>2, <1>5, <1>6 DEF PInv

LEMMA PInvAlways == Spec => []PInv
<1>1. ASSUME PInv, [Next]_vars PROVE PInv'
  BY <1>1, BInvNext, HomedNext, WidthsNext, UnseenNext, NoMoreNext, CleanNext DEF PInv
<1> QED
  BY <1>1, PInvInit, PTL DEF Spec

\* Under the per-operation policy, for every number of segments, records, losses and
\* damages, a record that was given up is delivered only out of a segment whose torn header
\* was rebuilt from the frames that verify (discardStaged, countVerified).
THEOREM GivenUpStaysGivenUp == Spec => []NoPhantom
<1>1. ASSUME PInv PROVE NoPhantom
  <2> SUFFICES ASSUME Serving, policy = "perOp", NEW r \in Readable, r \in discarded
               PROVE  home[r] \in rebuilt
    BY DEF NoPhantom
  <2>1. BInv /\ Homed /\ Clean /\ phase = "open" /\ DiskInv /\ Cached /\ files \subseteq Segs /\ Plain
    BY <1>1, SegsFacts DEF PInv, Serving, BInv, ControlInv, DiskInv
  <2>2. PICK f \in files : r \in Backlog(f)
    BY DEF Readable
  <2>3. PICK k \in Slots : r = data[f][k] /\ Unit * k <= hdr[f].w
    BY <2>2 DEF Backlog, Between
  <2>4. r \in disk[f][k] /\ hdr[f] \in hdrs[f] /\ hdr[f].kind = "ok"
    BY <2>1, <2>3 DEF Cached, BInv, CursorInv, Believed
  <2>5. r \in Recs
    BY <2>1, Sizes DEF Homed, Plain
  <2>6. f \in rebuilt
    BY <2>1, <2>3, <2>4 DEF Clean, CleanUnder
  <2> QED
    BY <2>1, <2>4, <2>5, <2>6 DEF Homed
<1> QED
  BY <1>1, PInvAlways, PTL

-----------------------------------------------------------------------------
(* What a step does to one segment *)

\* Nothing but that some of it is fsynced
Same(f) ==
    /\ hdr'[f] = hdr[f] /\ len'[f] = len[f] /\ data'[f] = data[f]
    /\ hdrs'[f] \in {hdrs[f], {hdr[f]}} /\ lens'[f] \in {lens[f], {len[f]}}
    /\ \/ \A k \in Slots : disk'[f][k] = disk[f][k]
       \/ \A k \in Slots : disk'[f][k] = {data[f][k]}

\* or it is written
Stages(f) == AddStages /\ f = active
Announces(f) == AddPublishes /\ f = active
Creates(f) == (CreateLinks \/ CreateReserves \/ CreateWrites) /\ f = making
LeftAs(f) ==
    Lefts /\ \E e \in Entries, l \in 0 .. Full, h \in Headers, d \in [Slots -> Cells] :
                Sane(h) /\ Left(f, e, l, h, d) /\ Remains(f, h, d) /\ (PowerLossLeaves => f = at)

LEMMA Untouched ==
    ASSUME NEW f, UNCHANGED <<hdr, hdrs, len, lens, data, disk>>
    PROVE  Same(f)
  BY DEF Same

LEMMA SegSteps ==
    ASSUME BInv, [Next]_vars, NEW f \in Segs
    PROVE  \/ Same(f) \/ Stages(f) \/ Announces(f) \/ CommitWrites(f) \/ Creates(f) \/ LeftAs(f)
           \/ RepairWrites(f) \/ (RepairFlushes /\ f = at)
<1>0. DiskTypes /\ files \subseteq Segs /\ making \in Segs \union {None}
  BY SegsFacts DEF BInv, DiskInv
<1>1. CASE UNCHANGED <<hdr, hdrs, len, lens, data, disk>>
  BY <1>1, Untouched
<1>2. ASSUME NEW g \in Segs, UNCHANGED <<hdr, len, data>>,
             UNCHANGED lens \/ lens' = [lens EXCEPT ![g] = {len[g]}],
             UNCHANGED disk \/ disk' = [disk EXCEPT ![g] = [k \in Slots |-> {data[g][k]}]],
             UNCHANGED hdrs \/ hdrs' = [hdrs EXCEPT ![g] = {hdr[g]}]
      PROVE  Same(f)
  <2>1. lens'[f] \in {lens[f], {len[f]}} /\ hdrs'[f] \in {hdrs[f], {hdr[f]}}
    BY <1>0, <1>2 DEF DiskTypes
  <2>2. \/ \A k \in Slots : disk'[f][k] = disk[f][k]
        \/ \A k \in Slots : disk'[f][k] = {data[f][k]}
    <3>1. CASE UNCHANGED disk
      BY <3>1
    <3>2. CASE disk' = [disk EXCEPT ![g] = [k \in Slots |-> {data[g][k]}]]
      <4>1. CASE f = g
        <5>1. disk'[f] = [k \in Slots |-> {data[f][k]}]
          BY <1>0, <3>2, <4>1 DEF DiskTypes
        <5> QED
          BY <5>1
      <4>2. CASE f # g
        <5>1. disk'[f] = disk[f]
          BY <1>0, <3>2, <4>2 DEF DiskTypes
        <5> QED
          BY <5>1
      <4> QED
        BY <4>1, <4>2
    <3> QED
      BY <1>2, <3>1, <3>2
  <2> QED
    BY <1>2, <2>1, <2>2 DEF Same
<1>3. ASSUME NEW g \in Segs, f # g, NEW h, NEW l, NEW d, NEW H, NEW L, NEW D,
             UNCHANGED hdr \/ hdr' = [hdr EXCEPT ![g] = h],
             UNCHANGED hdrs \/ hdrs' = [hdrs EXCEPT ![g] = H],
             UNCHANGED len \/ len' = [len EXCEPT ![g] = l],
             UNCHANGED lens \/ lens' = [lens EXCEPT ![g] = L],
             UNCHANGED data \/ data' = [data EXCEPT ![g] = d],
             UNCHANGED disk \/ disk' = [disk EXCEPT ![g] = D]
      PROVE  Same(f)
  BY <1>0, <1>3 DEF DiskTypes, Same
<1>4. CASE AddStages
  <2>1. active \in Segs
    BY <1>4, SegsFacts DEF AddStages, Idle, BInv, ControlInv, Phased
  <2> DEFINE k == hdr[active].w \div Unit + 1
             r == Len(home) + 1
             l == IF len[active] < Hdr + Unit * k THEN Hdr + Unit * k ELSE len[active]
  <2>2. /\ UNCHANGED <<hdr, hdrs>> /\ len' = [len EXCEPT ![active] = l]
        /\ lens' = [lens EXCEPT ![active] = lens[active] \union {l}]
        /\ data' = [data EXCEPT ![active] = [data[active] EXCEPT ![k] = r]]
        /\ disk' = [disk EXCEPT ![active] = [disk[active] EXCEPT ![k] = disk[active][k] \union {r}]]
    BY <1>4 DEF AddStages
  <2>3. CASE f # active
    <3> HIDE DEF k, r, l
    <3> QED
      BY <1>3, <2>1, <2>2, <2>3
  <2> QED
    BY <1>4, <2>3 DEF Stages
<1>5. CASE AddPublishes
  <2>1. active \in Segs
    BY <1>5, SegsFacts DEF AddPublishes, Idle, BInv, ControlInv, Phased
  <2> DEFINE h == [hdr[active] EXCEPT !.w = @ + Unit, !.nw = @ + 1]
  <2>2. /\ UNCHANGED <<len, data>> /\ hdr' = [hdr EXCEPT ![active] = h]
        /\ UNCHANGED lens \/ lens' = [lens EXCEPT ![active] = {len[active]}]
        /\ UNCHANGED disk \/ disk' = [disk EXCEPT ![active] = [k \in Slots |-> {data[active][k]}]]
        /\ \/ hdrs' = [hdrs EXCEPT ![active] = {hdr[active], h}]
           \/ hdrs' = [hdrs EXCEPT ![active] = hdrs[active] \union {h}]
    BY <1>5 DEF AddPublishes, Publishes, FsyncData
  <2>3. CASE f # active
    <3> HIDE DEF h
    <3>1. hdr'[f] = hdr[f] /\ hdrs'[f] = hdrs[f] /\ lens'[f] = lens[f] /\ disk'[f] = disk[f]
      BY <1>0, <2>1, <2>2, <2>3 DEF DiskTypes
    <3> QED
      BY <2>2, <3>1 DEF Same
  <2> QED
    BY <1>5, <2>3 DEF Announces
<1>6. CASE AddSettles
  <2>1. active \in Segs
    BY <1>6, SegsFacts DEF AddSettles, BInv, ControlInv, Phased
  <2> QED
    BY <1>2, <1>6, <2>1 DEF AddSettles
<1>7. CASE FlushAll
  <2> DEFINE due == dirty \intersect files
  <2>1. /\ UNCHANGED <<len, hdr, data>>
        /\ hdrs' = [g \in Segs |-> IF g \in due THEN {hdr[g]} ELSE hdrs[g]]
        /\ lens' = [g \in Segs |-> IF g \in due THEN {len[g]} ELSE lens[g]]
        /\ disk' = [g \in Segs |-> IF g \in due THEN [k \in Slots |-> {data[g][k]}] ELSE disk[g]]
    BY <1>7 DEF FlushAll
  <2> QED
    BY <2>1 DEF Same
<1>8. ASSUME NEW g \in Segs, FlushOne(g) PROVE Same(f)
  BY <1>2, <1>8 DEF FlushOne, Fsync, FsyncData
<1>9. ASSUME NEW g \in Segs, NEW h, WriteHeader(g, h), UNCHANGED <<len, lens, data, disk>>, f # g
      PROVE  Same(f)
  BY <1>3, <1>9 DEF WriteHeader
<1>10. ASSUME NEW g \in Segs, CommitWrites(g) PROVE Same(f) \/ CommitWrites(f)
  BY <1>9, <1>10 DEF CommitWrites
<1>11. CASE CommitFlushes
  <2>1. committing \in Segs
    BY <1>11 DEF CommitFlushes, BInv, ControlInv, Numbers, Visible
  <2> QED
    BY <1>2, <1>11, <2>1 DEF CommitFlushes, Fsync, FsyncData
<1>12. CASE CreateSyncs
  BY <1>0, <1>2, <1>12 DEF CreateSyncs, Linked, Fsync, FsyncData
<1>13. CASE CreateLinks \/ CreateReserves \/ CreateWrites
  <2>1. making \in Segs
    BY <1>0, <1>13 DEF CreateLinks, CreateReserves, CreateWrites, Linked
  <2>2. CASE f = making
    BY <1>13, <2>2 DEF Creates
  <2>3. CASE f # making
    BY <1>3, <1>9, <1>13, <2>1, <2>3 DEF CreateLinks, CreateReserves, CreateWrites
  <2> QED
    BY <2>2, <2>3
<1>14. CASE Lefts
  <2>1. PICK g \in Segs, e \in Entries, l \in 0 .. Full, h \in Headers, d \in [Slots -> Cells] :
            Sane(h) /\ Left(g, e, l, h, d) /\ Remains(g, h, d) /\ (PowerLossLeaves => g = at)
    BY <1>14, LeftSteps
  <2>2. CASE f = g
    BY <1>14, <2>1, <2>2 DEF LeftAs
  <2>3. CASE f # g
    BY <1>3, <2>1, <2>3 DEF Left
  <2> QED
    BY <2>2, <2>3
<1>15. ASSUME NEW g \in Segs, RepairWrites(g) PROVE Same(f) \/ RepairWrites(f)
  BY <1>9, <1>15 DEF RepairWrites
<1>16. CASE RepairFlushes
  <2>1. at \in Segs
    BY <1>16 DEF RepairFlushes, BInv, ControlInv, Phased
  <2>2. PICK l \in {len[at], Full} :
            len' = [len EXCEPT ![at] = l] /\ lens' = [lens EXCEPT ![at] = {len[at], l}]
    BY <1>16 DEF RepairFlushes
  <2>3. CASE f # at
    BY <1>3, <1>16, <2>1, <2>2, <2>3 DEF RepairFlushes
  <2> QED
    BY <1>16, <2>3
<1>17. CASE Running
  <2>1. CASE AddDiscards \/ CycleDrops \/ CreateEnds
    BY <1>1, <2>1 DEF AddDiscards, CycleDrops, CreateEnds, fs
  <2> QED
    BY <1>4, <1>5, <1>6, <1>7, <1>8, <1>10, <1>11, <1>12, <1>13, <1>17, <2>1 DEF Running
<1>18. CASE Failing
  <2>1. CASE Crash \/ PowerLoss
    BY <1>1, <2>1 DEF Crash, PowerLoss, Dies, fs
  <2> QED
    BY <1>14, <1>18, <2>1 DEF Failing, Lefts
<1>19. CASE Loading
  <2>1. CASE OpenBegins \/ LoadDrops \/ LoadKeeps \/ LoadConcludes \/ OpenReturns
    BY <1>1, <2>1 DEF OpenBegins, LoadDrops, LoadKeeps, LoadConcludes, OpenReturns, fs
  <2> QED
    BY <1>15, <1>16, <1>19, <2>1 DEF Loading
<1> QED
  BY <1>1, <1>17, <1>18, <1>19 DEF Next, vars, fs

\* A record goes into the first slot behind the write cursor
LEMMA StagesAt ==
    ASSUME BInv, AddStages, NEW f, f = active, NEW n, n = hdr[f].nw + 1, NEW r, r = Len(home) + 1
    PROVE  /\ f \in files /\ f \in Segs /\ phase = "open" /\ phase' = "open" /\ making = None
           /\ files' = files /\ active' = active
           /\ hdr[f].kind = "ok" /\ n \in Slots /\ Unit * n = hdr[f].w + Unit
           /\ UNCHANGED <<hdr, hdrs, entry, mem>>
           /\ data'[f][n] = r /\ disk'[f][n] = disk[f][n] \union {r}
           /\ \A k \in Slots : k # n => data'[f][k] = data[f][k] /\ disk'[f][k] = disk[f][k]
           /\ len[f] <= len'[f] /\ Hdr + Unit * n <= len'[f] /\ lens'[f] = lens[f] \union {len'[f]}
           /\ r \in Recs /\ adding = None /\ adding' = r /\ home' = Append(home, f)
           /\ len'[f] # len[f] => len'[f] = Hdr + Unit * n
<1> DEFINE q == hdr[f].w \div Unit + 1
           l == IF len[f] < Hdr + Unit * q THEN Hdr + Unit * q ELSE len[f]
<1>1. f \in files /\ f \in Segs /\ phase = "open" /\ making = None /\ DiskTypes
  BY SegsFacts DEF AddStages, Idle, BInv, ControlInv, Phased, DiskInv
<1>2. hdr[f].kind = "ok" /\ hdr[f] \in Headers /\ Sane(hdr[f])
  BY <1>1 DEF BInv, CursorInv, Believed, DiskInv, DiskTypes, Cached, HeadersSane
<1>3. hdr[f].w = 2 * hdr[f].nw /\ hdr[f].nw \in Nat /\ Unit = 2 /\ Hdr = 2 /\ n = hdr[f].nw + 1
  BY <1>2, HeaderIs, Sizes DEF Sane
<1>4. q = n
  BY ONLY <1>3
<1>5. Unit * n = hdr[f].w + Unit
  BY ONLY <1>3
<1>6. /\ UNCHANGED <<hdr, hdrs, entry, mem, files, phase>> /\ len' = [len EXCEPT ![f] = l]
      /\ lens' = [lens EXCEPT ![f] = lens[f] \union {l}] /\ q \in Slots
      /\ data' = [data EXCEPT ![f] = [data[f] EXCEPT ![q] = r]]
      /\ disk' = [disk EXCEPT ![f] = [disk[f] EXCEPT ![q] = disk[f][q] \union {r}]]
      /\ r \in Recs /\ adding = None /\ adding' = r /\ home' = Append(home, f)
  BY DEF AddStages
<1>7. len'[f] = l /\ lens'[f] = lens[f] \union {l} /\ len[f] \in 0 .. Full
  BY <1>1, <1>6 DEF DiskTypes
<1>8. /\ data'[f][q] = r /\ disk'[f][q] = disk[f][q] \union {r}
      /\ \A k \in Slots : k # q => data'[f][k] = data[f][k] /\ disk'[f][k] = disk[f][k]
  <2>1. data'[f] = [data[f] EXCEPT ![q] = r] /\ disk'[f] = [disk[f] EXCEPT ![q] = disk[f][q] \union {r}]
    BY <1>1, <1>6 DEF DiskTypes
  <2>2. data[f] \in [Slots -> Cells] /\ disk[f] \in [Slots -> SUBSET Cells]
    BY <1>1 DEF DiskTypes
  <2> QED
    BY <1>6, <2>1, <2>2
<1>9. len[f] <= l /\ Hdr + Unit * q <= l /\ (l # len[f] => l = Hdr + Unit * q)
  <2>1. len[f] \in Nat
    <3> HIDE DEF q, l
    <3> QED
      BY <1>7, Sizes
  <2>2. Hdr + Unit * q \in Nat
    BY ONLY <1>3, <1>4
  <2> QED
    BY <2>1, <2>2
<1>10. active' = active
  BY <1>6 DEF active
<1> HIDE DEF q, l
<1> QED
  BY <1>1, <1>2, <1>4, <1>5, <1>6, <1>7, <1>8, <1>9, <1>10

\* A commit moves one header
LEMMA CommitsAt ==
    ASSUME BInv, NEW f \in Segs, CommitWrites(f)
    PROVE  /\ f \in files /\ phase = "open" /\ phase' = "open" /\ making = None /\ making' = None
           /\ hdr[f].kind = "ok" /\ hdr'[f].kind = "ok" /\ hdr'[f].w = hdr[f].w
           /\ hdr[f].c < hdr[f].w /\ hdr'[f].c = hdr[f].c + Unit /\ hdrs'[f] = hdrs[f] \union {hdr'[f]}
           /\ UNCHANGED <<len, lens, data, disk>> /\ promised' = promised /\ adding' = adding
           /\ asked' = asked \union Between(f, hdr[f].c, hdr'[f].c) /\ orphaned' = orphaned
<1> DEFINE h == [hdr[f] EXCEPT !.c = @ + Unit, !.nc = @ + 1]
<1>1. f \in files /\ phase = "open" /\ making = None /\ DiskTypes
  BY DEF CommitWrites, Free, Idle, BInv, DiskInv
<1>2. hdr[f].kind = "ok" /\ hdr[f] \in Headers
  BY <1>1 DEF BInv, CursorInv, Believed, DiskTypes
<1>3. hdr' = [hdr EXCEPT ![f] = h] /\ hdrs' = [hdrs EXCEPT ![f] = hdrs[f] \union {h}]
  BY DEF CommitWrites, WriteHeader
<1>4. hdr'[f] = h /\ hdrs'[f] = hdrs[f] \union {h}
  BY <1>1, <1>3 DEF DiskTypes
<1>5. h.kind = "ok" /\ h.w = hdr[f].w /\ h.c = hdr[f].c + Unit
  BY <1>2 DEF Headers
<1>6. /\ hdr[f].c < hdr[f].w /\ phase' = "open" /\ UNCHANGED <<len, lens, data, disk, making>>
      /\ promised' = promised /\ adding' = adding /\ asked' = asked \union Between(f, hdr[f].c, h.c)
      /\ orphaned' = orphaned
  BY <1>1 DEF CommitWrites
<1> HIDE DEF h
<1> QED
  BY <1>1, <1>2, <1>4, <1>5, <1>6

LEMMA CreatesAt ==
    ASSUME BInv, NEW f \in Segs, Creates(f)
    PROVE  /\ f = making /\ f \notin files /\ phase \in {"open", "fresh"} /\ phase' = phase
           /\ ~Lefts
           /\ \/ /\ hdr'[f] = Broken("zero") /\ hdrs'[f] = {Broken("zero")} /\ len'[f] = 0
                       /\ lens'[f] = {0}
                 /\ \A k \in Slots : data'[f][k] = None /\ disk'[f][k] = {None}
              \/ /\ Linked /\ hdr'[f] = hdr[f] /\ hdrs'[f] = hdrs[f] /\ data'[f] = data[f]
                       /\ disk'[f] = disk[f]
                 /\ len[f] = 0 /\ len'[f] = Full /\ lens'[f] = lens[f] \union {Full}
              \/ /\ Linked /\ hdr[f].kind = "zero" /\ hdr'[f] = Header(0, 0, 0, 0)
                       /\ hdrs'[f] = hdrs[f] \union {hdr'[f]}
                 /\ len'[f] = len[f] /\ lens'[f] = lens[f] /\ data'[f] = data[f] /\ disk'[f] = disk[f]
<1>0. DiskTypes /\ Phased /\ Numbers
  BY DEF BInv, DiskInv, ControlInv
<1>1. f = making /\ f \notin files /\ making # None /\ phase \in {"open", "fresh"}
  BY <1>0, Sizes DEF Creates, Numbers, Phased, Phases
<1>2. ~Lefts
  BY <1>1, LeftSteps
<1>3. CASE CreateLinks
  BY <1>0, <1>1, <1>2, <1>3 DEF CreateLinks, DiskTypes, Blank
<1>4. CASE CreateReserves
  BY <1>0, <1>1, <1>2, <1>4 DEF CreateReserves, DiskTypes
<1>5. CASE CreateWrites
  BY <1>0, <1>1, <1>2, <1>5 DEF CreateWrites, WriteHeader, DiskTypes
<1> QED
  BY <1>3, <1>4, <1>5 DEF Creates

\* What is left of a file is all there is of it
LEMMA LeftAt ==
    ASSUME BInv, NEW f \in Segs, NEW e, NEW l, NEW h, NEW d, Left(f, e, l, h, d)
    PROVE  /\ hdrs'[f] = {hdr'[f]} /\ lens'[f] = {len'[f]} /\ entry'[f] = e
           /\ \A k \in Slots : disk'[f][k] = {data'[f][k]}
           /\ \A g \in Segs : g # f => entry'[g] = entry[g]
           /\ \/ e # "none" /\ l > 0 /\ len'[f] = l /\ hdr'[f] = h /\ data'[f] = Within(d, l)
              \/ (e = "none" \/ ~(l > 0)) /\ len'[f] = 0 /\ hdr'[f] = Broken("zero") /\ data'[f] = Blank
<1> DEFINE there == e # "none" /\ l > 0
           l0 == IF there THEN l ELSE 0
           h0 == IF there THEN h ELSE Broken("zero")
           d0 == IF there THEN Within(d, l) ELSE Blank
<1>0. DiskTypes
  BY DEF BInv, DiskInv
<1>1. /\ entry' = [entry EXCEPT ![f] = e] /\ len' = [len EXCEPT ![f] = l0]
      /\ hdr' = [hdr EXCEPT ![f] = h0] /\ data' = [data EXCEPT ![f] = d0]
      /\ lens' = [lens EXCEPT ![f] = {len'[f]}] /\ hdrs' = [hdrs EXCEPT ![f] = {hdr'[f]}]
      /\ disk' = [disk EXCEPT ![f] = [k \in Slots |-> {data'[f][k]}]]
  BY DEF Left
<1>2. len'[f] = l0 /\ hdr'[f] = h0 /\ data'[f] = d0 /\ entry'[f] = e
  BY <1>0, <1>1 DEF DiskTypes
<1>3. hdrs'[f] = {hdr'[f]} /\ lens'[f] = {len'[f]} /\ disk'[f] = [k \in Slots |-> {data'[f][k]}]
  BY <1>0, <1>1 DEF DiskTypes
<1>4. \A g \in Segs : g # f => entry'[g] = entry[g]
  BY <1>0, <1>1 DEF DiskTypes
<1> QED
  BY <1>2, <1>3, <1>4

LEMMA RepairsAt ==
    ASSUME BInv, NEW f \in Segs, RepairWrites(f)
    PROVE  /\ f \in files /\ f \in Unrepaired /\ phase = "repair" /\ phase' = "flush" /\ at' = f
           /\ \A g \in Unrepaired : g <= f
           /\ hdr'[f] = Wanted(f) /\ hdrs'[f] = hdrs[f] \union {Wanted(f)} /\ Wanted(f).kind = "ok"
           /\ Wanted(f).w = mem[f].size /\ Wanted(f).c = mem[f].c
           /\ UNCHANGED <<len, lens, data, disk, mem, files, entry, promised, asked, orphaned, adding, making,
                         policy, home, excused>>
<1>1. hdr \in [Segs -> Headers] /\ hdrs \in [Segs -> SUBSET Headers]
  BY DEF BInv, DiskInv, DiskTypes
<1>2. hdr'[f] = Wanted(f) /\ hdrs'[f] = hdrs[f] \union {Wanted(f)}
  BY <1>1 DEF RepairWrites, WriteHeader
<1>3. Wanted(f).kind = "ok" /\ Wanted(f).w = mem[f].size /\ Wanted(f).c = mem[f].c
  BY DEF Wanted, Header
<1>4. Unrepaired \subseteq 0 .. MaxSeg /\ MaxSeg \in Nat /\ f \in Unrepaired /\ f = Max(Unrepaired)
         /\ f \in files
  BY SegsFacts, Sizes DEF RepairWrites, NextRepair, Unrepaired
<1>5. \A g \in Unrepaired : g <= f
  BY <1>4, MaxOf
<1> QED
  BY <1>2, <1>3, <1>4, <1>5 DEF RepairWrites, ghost

LEMMA RepairedAt ==
    ASSUME BInv, RepairFlushes
    PROVE  /\ at \in Segs /\ at \in files /\ phase = "flush" /\ phase' = "repair"
           /\ hdr' = hdr /\ hdrs'[at] = {hdr[at]} /\ data' = data
                 /\ \A k \in Slots : disk'[at][k] = {data[at][k]}
           /\ len[at] <= len'[at] /\ lens'[at] = {len[at], len'[at]} /\ len'[at] \in {len[at], Full}
           /\ mem'[at].size = mem[at].size /\ mem'[at].c = mem[at].c
           /\ mem'[at].nw = mem[at].nw /\ mem'[at].nc = mem[at].nc
           /\ \A g \in Segs : g # at => mem'[g] = mem[g]
           /\ UNCHANGED <<files, entry, promised, asked, orphaned, adding, making, policy, home, excused>>
<1>0. /\ at \in Segs /\ at \in files /\ DiskTypes /\ mem \in [Segs -> Mems]
  BY DEF RepairFlushes, BInv, ControlInv, Phased, DiskInv, CursorInv, MemSane
<1>1. PICK l \in {len[at], Full} :
          len' = [len EXCEPT ![at] = l] /\ lens' = [lens EXCEPT ![at] = {len[at], l}]
  BY DEF RepairFlushes
<1>2. len'[at] = l /\ lens'[at] = {len[at], l} /\ len[at] \in 0 .. Full
  BY <1>0, <1>1 DEF DiskTypes
<1>3. len[at] <= l
  BY <1>2, Sizes
<1>4. disk'[at] = [k \in Slots |-> {data[at][k]}] /\ hdrs'[at] = {hdr[at]}
  BY <1>0 DEF RepairFlushes, DiskTypes
<1>5. mem' = [mem EXCEPT ![at] = [mem[at] EXCEPT !.truncated = FALSE]] /\ mem[at] \in Mems
  BY <1>0 DEF RepairFlushes
<1>6. mem'[at] = [mem[at] EXCEPT !.truncated = FALSE] /\ \A g \in Segs : g # at => mem'[g] = mem[g]
  BY <1>0, <1>5
<1>7. /\ mem'[at].size = mem[at].size /\ mem'[at].c = mem[at].c
      /\ mem'[at].nw = mem[at].nw /\ mem'[at].nc = mem[at].nc
  BY <1>5, <1>6 DEF Mems
<1> QED
  BY <1>0, <1>2, <1>3, <1>4, <1>6, <1>7 DEF RepairFlushes, ghost

\* The records a header may retire
Spent == asked \union orphaned

\* What may be counted on grows only when a record is staged, acknowledged or flushed,
\* and when load concludes
LEMMA GhostSteps ==
    ASSUME BInv, [Next]_vars
    PROVE  /\ excused \subseteq excused' /\ (home' = home \/ AddStages)
           /\ \/ promised' \subseteq promised /\ Spent \subseteq Spent' /\ adding' \in {adding, None}
              \/ AddStages /\ promised' = promised /\ Spent' = Spent
              \/ AddSettles \/ FlushAll \/ (LoadConcludes /\ files # {})
<1>1. CASE UNCHANGED vars
  BY <1>1 DEF vars, ghost, store, Spent
<1>2. CASE Running
  BY <1>2 DEF Running, AddStages, AddDiscards, AddPublishes, AddSettles, FlushAll, FlushOne,
              CommitWrites,
     CommitFlushes, CycleDrops, CreateLinks, CreateReserves, CreateWrites, CreateSyncs, CreateEnds, ghost, store,
     Spent
<1>3. CASE Failing
  BY <1>3 DEF Failing, Crash, PowerLoss, Dies, PowerLossLeaves, Cut, Overwritten, Struck, ghost, store,
              Spent
<1>4. CASE Loading
  BY <1>4 DEF Loading, OpenBegins, LoadDrops, LoadKeeps, LoadConcludes, RepairWrites, RepairFlushes,
              OpenReturns, ghost, store, Spent
<1> QED
  BY <1>1, <1>2, <1>3, <1>4 DEF Next

-----------------------------------------------------------------------------
(* Slots, files and headers *)

\* No record lies in two slots
Slotted ==
    \A f \in Segs, j, k \in Slots : disk[f][j] \intersect disk[f][k] \intersect Recs # {} => j = k

\* Behind the end of the file there is nothing
Trim ==
    \A f \in Segs, k \in Slots :
        \/ data[f][k] = None \/ Hdr + Unit * k <= len[f]
        \/ data[f][k] = Junk /\ Hdr + Unit * (k - 1) < len[f]

\* A header that does not verify is all there is, and so is none at all
Alone ==
    \A f \in Segs : /\ hdr[f].kind # "ok" => hdrs[f] = {hdr[f]}
                    /\ len[f] < Hdr => hdr[f].kind = "zero"

\* A segment under construction holds nothing
MadeBlank == Linked => \A k \in Slots : disk[making][k] = {None}

\* Nothing is new in a slot but the record that is staged
LEMMA OldSlot ==
    ASSUME BInv, [Next]_vars, NEW f \in Segs, NEW k \in Slots, NEW r \in Recs, r \in disk'[f][k]
    PROVE  \/ r \in disk[f][k]
           \/ AddStages /\ f = active /\ k = hdr[f].nw + 1 /\ r = Len(home) + 1
<1>1. CASE r \in disk[f][k]
  BY <1>1
<1>2. CASE r \notin disk[f][k]
  <2>1. AddStages /\ f = active /\ r = Len(home) + 1
    BY <1>2, SlotSteps
  <2>2. \A j \in Slots : j # hdr[f].nw + 1 => disk'[f][j] = disk[f][j]
    BY <2>1, StagesAt
  <2> QED
    BY <1>2, <2>1, <2>2
<1> QED
  BY <1>1, <1>2

LEMMA SlottedNext ==
    ASSUME PInv, Slotted, [Next]_vars
    PROVE  Slotted'
<1> SUFFICES ASSUME NEW f \in Segs, NEW j \in Slots, NEW k \in Slots, NEW r \in Recs,
                    r \in disk'[f][j], r \in disk'[f][k]
             PROVE  j = k
  BY DEF Slotted
<1>1. BInv /\ Homed
  BY DEF PInv
<1>2. \/ r \in disk[f][j] \/ (AddStages /\ f = active /\ j = hdr[f].nw + 1 /\ r = Len(home) + 1)
  BY <1>1, OldSlot
<1>3. \/ r \in disk[f][k] \/ (AddStages /\ f = active /\ k = hdr[f].nw + 1 /\ r = Len(home) + 1)
  BY <1>1, OldSlot
<1>4. ASSUME NEW i \in Slots, r \in disk[f][i] PROVE r # Len(home) + 1
  <2>1. r \in 1 .. Len(home) /\ Len(home) \in Nat
    BY <1>1, <1>4 DEF Homed, BInv, ControlInv, Plain
  <2> QED
    BY <2>1
<1>5. CASE r \in disk[f][j] /\ r \in disk[f][k]
  BY <1>5 DEF Slotted
<1> QED
  BY <1>2, <1>3, <1>4, <1>5

\* A file that is left holds nothing behind its end
LEMMA WithinTrim ==
    ASSUME NEW d \in [Slots -> Cells], NEW l \in 0 .. Full, NEW k \in Slots
    PROVE  \/ Within(d, l)[k] = None \/ Hdr + Unit * k <= l
           \/ Within(d, l)[k] = Junk /\ Hdr + Unit * (k - 1) < l
  BY DEF Within

LEMMA TrimNext ==
    ASSUME PInv, Trim, [Next]_vars
    PROVE  Trim'
<1> DEFINE T(f, k) == \/ data[f][k] = None \/ Hdr + Unit * k <= len[f]
                      \/ data[f][k] = Junk /\ Hdr + Unit * (k - 1) < len[f]
<1> SUFFICES ASSUME NEW f \in Segs, NEW k \in Slots
             PROVE  T(f, k)'
  BY DEF Trim
<1>1. BInv /\ T(f, k) /\ DiskTypes /\ DiskTypes'
  BY DiskNext DEF PInv, BInv, DiskInv, Trim
<1>2. k \in Nat /\ len[f] \in Nat /\ len'[f] \in Nat /\ Hdr = 2 /\ Unit = 2
  BY <1>1, Sizes DEF DiskTypes
<1>3. CASE data'[f][k] = data[f][k] /\ len[f] <= len'[f]
  <2>1. CASE data[f][k] = None
    BY <1>3, <2>1
  <2>2. CASE Hdr + Unit * k <= len[f]
    <3>1. Hdr + Unit * k <= len'[f]
      BY <1>2, <1>3, <2>2
    <3> QED
      BY <3>1
  <2>3. CASE data[f][k] = Junk /\ Hdr + Unit * (k - 1) < len[f]
    <3>1. Hdr + Unit * (k - 1) < len'[f]
      BY <1>2, <1>3, <2>3
    <3> QED
      BY <1>3, <2>3, <3>1
  <2> QED
    BY <1>1, <2>1, <2>2, <2>3
<1>4. CASE Same(f)
  <2>1. data'[f][k] = data[f][k] /\ len[f] <= len'[f]
    BY <1>2, <1>4 DEF Same
  <2> QED
    BY <1>3, <2>1
<1>5. CASE Stages(f)
  <2>1. AddStages /\ f = active
    BY <1>5 DEF Stages
  <2>2. /\ len[f] <= len'[f] /\ Hdr + Unit * (hdr[f].nw + 1) <= len'[f]
        /\ k # hdr[f].nw + 1 => data'[f][k] = data[f][k]
    BY <1>1, <2>1, StagesAt
  <2> QED
    BY <1>3, <2>2
<1>6. CASE Announces(f)
  BY <1>2, <1>3, <1>6 DEF Announces, AddPublishes
<1>7. CASE CommitWrites(f)
  BY <1>2, <1>3, <1>7 DEF CommitWrites
<1>8. CASE Creates(f)
  <2>1. \/ data'[f][k] = None
        \/ data'[f][k] = data[f][k] /\ (len'[f] = len[f] \/ len'[f] = Full)
    BY <1>1, <1>8, CreatesAt
  <2>2. len[f] <= Full
    BY <1>1, Sizes DEF DiskTypes
  <2> QED
    BY <1>2, <1>3, <2>1, <2>2
<1>9. CASE LeftAs(f)
  <2>1. PICK e \in Entries, l \in 0 .. Full, h \in Headers, d \in [Slots -> Cells] : Left(f, e, l, h, d)
    BY <1>9 DEF LeftAs
  <2>2. (len'[f] = l /\ data'[f] = Within(d, l)) \/ data'[f] = Blank
    BY <1>1, <2>1, LeftAt
  <2>3. CASE data'[f] = Blank
    BY <2>3 DEF Blank
  <2>4. CASE len'[f] = l /\ data'[f] = Within(d, l)
    BY <2>4, WithinTrim
  <2> QED
    BY <2>2, <2>3, <2>4
<1>10. CASE RepairWrites(f)
  BY <1>2, <1>3, <1>10 DEF RepairWrites
<1>11. CASE RepairFlushes /\ f = at
  BY <1>1, <1>3, <1>11, RepairedAt
<1> QED
  BY <1>1, <1>4, <1>5, <1>6, <1>7, <1>8, <1>9, <1>10, <1>11, SegSteps

LEMMA AloneNext ==
    ASSUME PInv, Alone, [Next]_vars
    PROVE  Alone'
<1> SUFFICES ASSUME NEW f \in Segs
             PROVE  (hdr'[f].kind # "ok" => hdrs'[f] = {hdr'[f]}) /\ (len'[f] < Hdr
                => hdr'[f].kind = "zero")
  BY DEF Alone
<1>1. /\ BInv /\ (hdr[f].kind # "ok" => hdrs[f] = {hdr[f]}) /\ (len[f] < Hdr => hdr[f].kind = "zero")
      /\ DiskTypes /\ DiskTypes'
  BY DiskNext DEF PInv, BInv, DiskInv, Alone
<1>2. len[f] \in Nat /\ len'[f] \in Nat /\ Hdr = 2 /\ Full >= Hdr /\ Full \in Nat
  BY <1>1, Sizes DEF DiskTypes
<1>3. CASE hdr'[f] = hdr[f] /\ hdrs'[f] \in {hdrs[f], {hdr[f]}} /\ len[f] <= len'[f]
  <2>1. len'[f] < Hdr => len[f] < Hdr
    BY <1>2, <1>3
  <2> QED
    BY <1>1, <1>3, <2>1
<1>4. CASE Same(f)
  BY <1>2, <1>3, <1>4 DEF Same
<1>5. CASE Stages(f)
  BY <1>1, <1>3, <1>5, StagesAt DEF Stages
<1>6. CASE Announces(f)
  <2>1. hdr[f].kind = "ok" /\ hdr'[f].kind = "ok" /\ len' = len
    BY <1>1, <1>6, PublishedNow DEF Announces, AddPublishes
  <2> QED
    BY <1>1, <2>1
<1>7. CASE CommitWrites(f)
  <2>1. hdr[f].kind = "ok" /\ hdr'[f].kind = "ok" /\ len' = len
    BY <1>1, <1>7, CommitsAt
  <2> QED
    BY <1>1, <2>1
<1>8. CASE Creates(f)
  <2>1. CASE hdr'[f] = Broken("zero") /\ hdrs'[f] = {Broken("zero")}
    BY <2>1 DEF Broken
  <2>2. CASE hdr'[f] = hdr[f] /\ hdrs'[f] = hdrs[f] /\ len'[f] = Full
    BY <1>1, <1>2, <2>2
  <2>3. CASE Linked /\ hdr'[f] = Header(0, 0, 0, 0) /\ len'[f] = len[f] /\ len[f] = Full
    BY <1>2, <2>3 DEF Header
  <2>4. CreateWrites => len[f] = Full
    BY <1>8 DEF Creates, CreateWrites
  <2>5. CASE CreateWrites
    <3>1. Linked /\ hdr'[f] = Header(0, 0, 0, 0) /\ len'[f] = len[f]
      BY <1>1, <1>8, <2>5 DEF Creates, CreateWrites, WriteHeader, DiskTypes
    <3> QED
      BY <2>3, <2>4, <2>5, <3>1
  <2>6. CASE CreateLinks
    <3>1. hdr'[f] = Broken("zero") /\ hdrs'[f] = {Broken("zero")}
      BY <1>1, <1>8, <2>6 DEF Creates, CreateLinks, DiskTypes
    <3> QED
      BY <2>1, <3>1
  <2>7. CASE CreateReserves
    <3>1. hdr'[f] = hdr[f] /\ hdrs'[f] = hdrs[f] /\ len'[f] = Full
      BY <1>1, <1>8, <2>7 DEF Creates, CreateReserves, DiskTypes
    <3> QED
      BY <2>2, <3>1
  <2> QED
    BY <1>8, <2>5, <2>6, <2>7 DEF Creates
<1>9. CASE LeftAs(f)
  <2>1. PICK e \in Entries, l \in 0 .. Full, h \in Headers, d \in [Slots -> Cells] : Left(f, e, l, h, d)
    BY <1>9 DEF LeftAs
  <2>2. hdrs'[f] = {hdr'[f]}
    BY <1>1, <2>1, LeftAt
  <2>3. len'[f] < Hdr => hdr'[f].kind = "zero"
    <3>1. CASE PowerLossLeaves
      <4>0. f = at
        BY <1>9, <3>1 DEF LeftAs
      <4>1. PICK e1 : \E l1 : \E h1 \in (IF l1 < Hdr THEN {Broken("zero")} ELSE HeaderLeft(at)) : \E d1 : Left(at, e1, l1, h1, d1)
        BY <3>1 DEF PowerLossLeaves
      <4>2. PICK l1 : \E h1 \in (IF l1 < Hdr THEN {Broken("zero")} ELSE HeaderLeft(at)) : \E d1 : Left(at, e1, l1, h1, d1)
        BY <4>1
      <4>3. PICK h1 \in (IF l1 < Hdr THEN {Broken("zero")} ELSE HeaderLeft(at)) : \E d1 : Left(at, e1, l1, h1, d1)
        BY <4>2
      <4>4. PICK d1 : Left(at, e1, l1, h1, d1)
        BY <4>3
      <4>5. \/ len'[f] = l1 /\ hdr'[f] = h1
            \/ hdr'[f] = Broken("zero")
        BY <1>1, <4>0, <4>4, LeftAt
      <4> QED
        BY <4>3, <4>5 DEF Broken
    <3>2. ASSUME NEW g \in Segs, NEW l1 \in 0 .. Full - 1, Cut(g, l1)
          PROVE len'[f] < Hdr => hdr'[f].kind = "zero"
      <4>1. Left(g, entry[g], l1, IF l1 < Hdr THEN Broken("zero") ELSE hdr[g], data[g])
        BY <3>2 DEF Cut, Struck
      <4>2. CASE f = g
        <5>1. \/ len'[f] = l1 /\ hdr'[f] = IF l1 < Hdr THEN Broken("zero") ELSE hdr[g]
              \/ hdr'[f] = Broken("zero")
          BY <1>1, <4>1, <4>2, LeftAt
        <5> QED
          BY <5>1 DEF Broken
      <4>3. CASE f # g
        BY <1>1, <4>1, <4>3 DEF Left, DiskTypes
      <4> QED
        BY <4>2, <4>3
    <3>3. ASSUME NEW g \in Segs, NEW kind \in {"zero", "garbage", "torn", "foreign"}, Overwritten(g,
                 kind)
          PROVE  len'[f] < Hdr => hdr'[f].kind = "zero"
      <4>1. Left(g, entry[g], len[g], Broken(kind), data[g]) /\ len[g] >= Hdr
        BY <3>3 DEF Overwritten, Struck
      <4>2. CASE f = g
        <5>1. len'[f] = len[f] \/ hdr'[f] = Broken("zero")
          BY <1>1, <4>1, <4>2, LeftAt
        <5> QED
          BY <1>2, <4>1, <4>2, <5>1 DEF Broken
      <4>3. CASE f # g
        BY <1>1, <4>1, <4>3 DEF Left, DiskTypes
      <4> QED
        BY <4>2, <4>3
    <3> QED
      BY <1>9, <3>1, <3>2, <3>3 DEF LeftAs, Lefts
  <2> QED
    BY <2>2, <2>3
<1>10. CASE RepairWrites(f)
  <2>1. hdr'[f].kind = "ok" /\ len' = len /\ f \in files /\ phase = "repair"
    BY <1>1, <1>10, RepairsAt
  <2>2. Hdr + mem[f].size <= len[f] /\ mem[f].size \in Nat
    BY <1>1, <2>1, SegsFacts, Sizes DEF BInv, CursorInv, MemSane, Mems, Loads
  <2>3. ~(len[f] < Hdr)
    BY <1>2, <2>2
  <2> QED
    BY <2>1, <2>3
<1>11. CASE RepairFlushes /\ f = at
  BY <1>1, <1>3, <1>11, RepairedAt
<1> QED
  BY <1>1, <1>4, <1>5, <1>6, <1>7, <1>8, <1>9, <1>10, <1>11, SegSteps

LEMMA MadeBlankNext ==
    ASSUME PInv, MadeBlank, [Next]_vars
    PROVE  MadeBlank'
<1> SUFFICES ASSUME Linked', NEW k \in Slots PROVE disk'[making'][k] = {None}
  BY DEF MadeBlank
<1>1. BInv
  BY DEF PInv
<1>2. making # None
  BY <1>1, MakingBegins DEF Linked
<1>3. making \in Segs /\ DiskTypes /\ Cached
  BY <1>1, <1>2, SegsFacts DEF BInv, DiskInv
<1>4. CASE CreateLinks
  BY <1>3, <1>4 DEF CreateLinks, store, DiskTypes
<1>5. CASE Linked /\ making' = making /\ disk' = disk
  BY <1>5 DEF MadeBlank
<1>6. CASE CreateSyncs
  <2>1. Linked /\ making' = making
           /\ disk' = [disk EXCEPT ![making] = [j \in Slots |-> {data[making][j]}]]
    BY <1>6 DEF CreateSyncs, Fsync, FsyncData
  <2>2. disk'[making] = [j \in Slots |-> {data[making][j]}]
    BY <1>3, <2>1 DEF DiskTypes
  <2>3. data[making][k] \in disk[making][k] /\ disk[making][k] = {None}
    BY <1>3, <2>1 DEF Cached, MadeBlank
  <2> QED
    BY <2>1, <2>2, <2>3
<1>7. CASE CreateReserves \/ CreateWrites
  BY <1>5, <1>7 DEF CreateReserves, CreateWrites, store
<1>8. CASE CreateEnds \/ Crash \/ PowerLoss
  BY <1>8 DEF CreateEnds, Crash, PowerLoss, Dies, Linked
<1>9. CASE UNCHANGED vars
  BY <1>5, <1>9 DEF vars, store, fs, Linked
<1> QED
  BY <1>1, <1>2, <1>4, <1>6, <1>7, <1>8, <1>9, MakingSteps

-----------------------------------------------------------------------------
(* Entries *)

Drops == (\E g \in Segs : CommitWrites(g)) \/ CommitFlushes \/ CycleDrops

\* What a step does to one directory entry
LEMMA EntrySteps ==
    ASSUME BInv, [Next]_vars, NEW f \in Segs
    PROVE  \/ entry'[f] = entry[f]
           \/ Drops /\ entry'[f] = "gone" /\ f \in files /\ f \notin files'
           \/ (FlushAll \/ CreateEnds) /\ entry'[f] = EntriesDurable(entry)[f]
           \/ CreateLinks /\ f = making /\ entry'[f] = "new"
           \/ /\ PowerLossLeaves /\ f = at /\ entry'[f] \in {"here", "none"}
              /\ (entry[f] = "here" => entry'[f] = "here") /\ (entry[f] = "none" => entry'[f] = "none")
           \/ LoadDrops /\ f = at /\ entry'[f] \in {"gone", "none"}
           \/ LoadDrops /\ f # at /\ entry'[f] = EntriesDurable(entry)[f]
<1>0. DiskTypes /\ entry \in [Segs -> Entries]
  BY DEF BInv, DiskInv, DiskTypes, Entries
<1>1. CASE UNCHANGED entry
  BY <1>1
<1>2. ASSUME NEW h, NEW keep, DropCommitted(h, keep)
      PROVE  entry'[f] = entry[f] \/ (entry'[f] = "gone" /\ f \in files /\ f \notin files')
  BY <1>2 DEF DropCommitted, Drained
<1>3. CASE Drops
  <2>1. ASSUME NEW g \in Segs, CommitWrites(g)
        PROVE  entry'[f] = entry[f] \/ (entry'[f] = "gone" /\ f \in files /\ f \notin files')
    <3>1. CASE policy = "perOp"
      BY <2>1, <3>1 DEF CommitWrites
    <3>2. CASE policy # "perOp"
      <4>1. PICK h : DropCommitted(h, active)
        BY <2>1, <3>2 DEF CommitWrites
      <4> QED
        BY <1>2, <4>1
    <3> QED
      BY <3>1, <3>2
  <2>2. CommitFlushes => DropCommitted(hdr, active)
    BY DEF CommitFlushes
  <2>3. CycleDrops => DropCommitted(hdr, nextNum)
    BY DEF CycleDrops
  <2> QED
    BY <1>2, <1>3, <2>1, <2>2, <2>3 DEF Drops
<1>4. CASE FlushAll \/ CreateEnds
  BY <1>4 DEF FlushAll, CreateEnds
<1>5. CASE CreateLinks
  BY <1>0, <1>5 DEF CreateLinks
<1>6. CASE PowerLossLeaves
  <2>0. at \in Segs
    BY <1>6 DEF PowerLossLeaves, BInv, ControlInv, Phased
  <2>1. PICK e \in CASE entry[at] = "here" -> {"here"} [] entry[at] = "none" -> {"none"}
                  [] OTHER -> {"here", "none"} :
             \E l, h, d : Left(at, e, l, h, d)
    BY <1>6 DEF PowerLossLeaves
  <2>2. e \in {"here", "none"} /\ (entry[at] = "here" => e = "here") /\ (entry[at] = "none"
           => e = "none")
    BY <2>1
  <2>3. entry' = [entry EXCEPT ![at] = e]
    BY <2>1 DEF Left
  <2> QED
    BY <1>0, <1>6, <2>0, <2>2, <2>3
<1>7. CASE LoadDrops
  <2>0. at \in Segs
    BY <1>7 DEF LoadDrops, BInv, ControlInv, Phased
  <2>1. CASE policy = "noSync"
    <3>1. entry' = [entry EXCEPT ![at] = "gone"]
      BY <1>7, <2>1 DEF LoadDrops, RemoveFile
    <3> QED
      BY <1>0, <1>7, <2>0, <3>1
  <2>2. CASE policy # "noSync"
    <3>1. entry' = EntriesDurable([entry EXCEPT ![at] = "none"])
      BY <1>7, <2>2 DEF LoadDrops, RemoveFile
    <3>2. CASE f = at
      BY <1>0, <1>7, <2>0, <3>1, <3>2 DEF EntriesDurable
    <3>3. CASE f # at
      BY <1>0, <1>7, <2>0, <3>1, <3>3 DEF EntriesDurable
    <3> QED
      BY <3>2, <3>3
  <2> QED
    BY <2>1, <2>2
<1>8. CASE Failing
  <2>1. ASSUME NEW g \in Segs, NEW l, NEW h, Struck(g, l, h) PROVE entry' = entry
    BY <1>0, <2>1 DEF Struck, Left
  <2>2. CASE Crash \/ PowerLoss
    BY <1>1, <2>2 DEF Crash, PowerLoss, Dies, fs
  <2> QED
    BY <1>1, <1>6, <1>8, <2>1, <2>2 DEF Failing, Cut, Overwritten
<1>9. CASE Running
  <2>1. ASSUME NEW g \in Segs, FlushOne(g) PROVE entry' = entry
    BY <2>1 DEF FlushOne
  <2>2. CASE AddStages \/ AddDiscards \/ AddPublishes \/ AddSettles
    BY <1>1, <2>2 DEF AddStages, AddDiscards, AddPublishes, AddSettles, fs
  <2>3. CASE CreateReserves \/ CreateWrites \/ CreateSyncs
    BY <1>1, <2>3 DEF CreateReserves, CreateWrites, CreateSyncs
  <2> QED
    BY <1>1, <1>3, <1>4, <1>5, <1>9, <2>1, <2>2, <2>3 DEF Running, Drops
<1>10. CASE Loading
  <2>1. CASE OpenBegins \/ LoadKeeps \/ LoadConcludes \/ OpenReturns \/ RepairFlushes
    BY <1>1, <2>1 DEF OpenBegins, LoadKeeps, LoadConcludes, OpenReturns, RepairFlushes, fs
  <2>2. ASSUME NEW g \in Segs, RepairWrites(g) PROVE entry' = entry
    BY <2>2 DEF RepairWrites
  <2> QED
    BY <1>1, <1>7, <1>10, <2>1, <2>2 DEF Loading
<1> QED
  BY <1>1, <1>8, <1>9, <1>10 DEF Next, vars, fs

\* All that a power loss can leave of a file is what the page cache holds
Firm(f) ==
    /\ lens[f] = {len[f]} /\ hdrs[f] = {hdr[f]}
    /\ \A k \in Slots : disk[f][k] = {data[f][k]}

\* The files a power loss has got past have come up, and for good
LeftFirm == phase = "losing" => \A f \in Visible : f < at => Firm(f) /\ entry[f] = "here"

\* Entries become durable in the order of the numbers
NewLast == \A f, g \in Visible : g < f /\ entry[g] = "new" => entry[f] = "new"

\* Every segment there is, is live, but for the one being made
AllLive == phase \in {"open", "repair", "flush"} => Visible \ {making} = files

LEMMA LeftFirmNext ==
    ASSUME PInv, LeftFirm, [Next]_vars
    PROVE  LeftFirm'
<1> SUFFICES ASSUME phase' = "losing", NEW f \in Visible', f < at'
             PROVE  Firm(f)' /\ entry'[f] = "here"
  BY DEF LeftFirm
<1>1. BInv /\ f \in Segs /\ at \in 0 .. MaxSeg
  BY DEF PInv, Visible, BInv, ControlInv, Phased
<1>2. CASE PowerLoss
  BY <1>1, <1>2, Sizes DEF PowerLoss
<1>3. CASE PowerLossLeaves
  <2>1. at \in Segs /\ at' = at + 1 /\ phase = "losing"
    BY <1>1, <1>3 DEF PowerLossLeaves, BInv, ControlInv, Phased
  <2>2. PICK e \in CASE entry[at] = "here" -> {"here"} [] entry[at] = "none" -> {"none"}
                  [] OTHER -> {"here", "none"} :
             \E l, h, d : Left(at, e, l, h, d)
    BY <1>3 DEF PowerLossLeaves
  <2>3. e \in {"here", "none"}
    BY <2>2
  <2>4. PICK l, h, d : Left(at, e, l, h, d)
    BY <2>2
  <2>5. CASE f = at
    <3>1. /\ hdrs'[f] = {hdr'[f]} /\ lens'[f] = {len'[f]} /\ entry'[f] = e
          /\ \A k \in Slots : disk'[f][k] = {data'[f][k]}
      BY <1>1, <2>1, <2>4, <2>5, LeftAt
    <3>2. Firm(f)'
      BY <3>1 DEF Firm
    <3> QED
      BY <2>3, <3>1, <3>2 DEF Visible
  <2>6. CASE f # at
    <3>1. f < at
      BY <1>1, <2>1, <2>6, Sizes
    <3>2. /\ hdrs'[f] = hdrs[f] /\ hdr'[f] = hdr[f] /\ lens'[f] = lens[f] /\ len'[f] = len[f]
          /\ entry'[f] = entry[f] /\ disk'[f] = disk[f] /\ data'[f] = data[f]
      BY <1>1, <2>1, <2>4, <2>6 DEF Left, BInv, DiskInv, DiskTypes
    <3> QED
      BY <2>1, <3>1, <3>2 DEF LeftFirm, Firm, Visible
  <2> QED
    BY <2>5, <2>6
<1>4. CASE UNCHANGED vars
  BY <1>4 DEF vars, fs, LeftFirm, Firm, Visible
<1>5. \/ PowerLoss \/ PowerLossLeaves \/ UNCHANGED vars
  <2>1. ~Running
    BY <1>1 DEF Running, AddStages, AddDiscards, AddPublishes, AddSettles, FlushAll, FlushOne,
                CommitWrites,
       CommitFlushes, CycleDrops, CreateLinks, CreateReserves, CreateWrites, CreateSyncs, CreateEnds, Idle, Free,
       BInv, ControlInv, Phased, Linked
  <2>2. ~Loading
    BY DEF Loading, OpenBegins, LoadDrops, LoadKeeps, LoadNext, LoadConcludes, RepairWrites,
           RepairFlushes, OpenReturns
  <2>3. Failing => PowerLoss \/ PowerLossLeaves
    BY DEF Failing, Crash, Cut, Overwritten, Struck
  <2> QED
    BY <2>1, <2>2, <2>3 DEF Next
<1> QED
  BY <1>2, <1>3, <1>4, <1>5

LEMMA NewLastNext ==
    ASSUME PInv, LeftFirm, NewLast, [Next]_vars
    PROVE  NewLast'
<1> SUFFICES ASSUME NEW f \in Visible', NEW g \in Visible', g < f, entry'[g] = "new", entry'[f] # "new"
             PROVE  FALSE
  BY DEF NewLast
<1>1. /\ BInv /\ f \in Segs /\ g \in Segs /\ entry \in [Segs -> Entries] /\ entry'[f] = "here"
      /\ Numbers /\ Phased
  BY DEF PInv, Visible, BInv, DiskInv, DiskTypes, Entries, ControlInv
<1>2. entry[g] = "new" \/ (CreateLinks /\ g = making)
  BY <1>1, EntrySteps, DurableEntries
<1>3. CASE entry'[f] = entry[f]
  <2>1. CASE entry[g] = "new"
    BY <1>1, <1>3, <2>1 DEF NewLast, Visible
  <2>2. CASE CreateLinks /\ g = making
    <3>1. f \in Visible /\ f # making /\ phase \in {"open", "fresh"} /\ making # None
      BY <1>1, <1>3, <2>2, Sizes DEF Visible, CreateLinks, Phased, Phases
    <3>2. f < making
      BY <1>1, <3>1 DEF Numbers, Numbered
    <3> QED
      BY <1>1, <2>2, <3>2, Sizes
  <2> QED
    BY <1>2, <2>1, <2>2
<1>4. CASE FlushAll \/ CreateEnds
  <2>1. entry'[g] # "new" \/ entry' = entry
    BY <1>1, <1>4, DurableEntries DEF FlushAll, CreateEnds
  <2> QED
    BY <1>3, <2>1
<1>5. CASE PowerLossLeaves /\ f = at
  <2>1. ~CreateLinks
    BY <1>1, <1>5 DEF PowerLossLeaves, CreateLinks, Phased
  <2>2. entry[g] = "new" /\ phase = "losing"
    BY <1>2, <1>5, <2>1 DEF PowerLossLeaves
  <2> QED
    BY <1>1, <1>5, <2>2 DEF LeftFirm, Visible
<1>6. CASE LoadDrops /\ f # at
  <2>1. entry'[g] # "new" \/ entry'[f] = entry[f]
    <3>1. CASE policy = "noSync"
      BY <1>1, <1>6, <3>1 DEF LoadDrops, RemoveFile
    <3>2. CASE policy # "noSync"
      <4>1. entry' = EntriesDurable([entry EXCEPT ![at] = "none"])
               /\ [entry EXCEPT ![at] = "none"] \in [Segs -> Entries]
        BY <1>1, <1>6, <3>2 DEF LoadDrops, RemoveFile, Entries
      <4> QED
        BY <1>1, <4>1, DurableEntries
    <3> QED
      BY <3>1, <3>2
  <2> QED
    BY <1>3, <2>1
<1> QED
  BY <1>1, <1>3, <1>4, <1>5, <1>6, EntrySteps

LEMMA AllLiveNext ==
    ASSUME PInv, AllLive, [Next]_vars
    PROVE  AllLive'
<1> SUFFICES ASSUME phase' \in {"open", "repair", "flush"}, NEW f \in Segs
             PROVE  f \in Visible' /\ f # making' <=> f \in files'
  <2>1. files' \subseteq Segs /\ Visible' \subseteq Segs
    BY BInvNext DEF PInv, BInv, ControlInv, Numbers, Visible
  <2> QED
    BY <2>1 DEF AllLive
<1>1. BInv /\ entry \in [Segs -> Entries] /\ Numbers /\ Phased
  BY DEF PInv, BInv, DiskInv, DiskTypes, Entries, ControlInv
<1>2. CASE UNCHANGED <<entry, files, making>> /\ phase \in {"open", "repair", "flush"}
  BY <1>2 DEF AllLive, Visible
<1>3. ASSUME phase = "open",
             entry'[f] = entry[f] \/ (entry'[f] = "gone" /\ f \in files /\ f \notin files'),
             f \in files' <=> f \in files /\ entry'[f] # "gone",
             making' = making \/ (making = None /\ making' = nextNum)
      PROVE  f \in Visible' /\ f # making' <=> f \in files'
  <2>1. f \in Visible /\ f # making <=> f \in files
    BY <1>3 DEF AllLive
  <2>2. f \in files => f # nextNum
    <3>1. f \in files => f < nextNum
      BY <1>1, <1>3 DEF Numbers, Numbered
    <3> QED
      BY <1>1, <3>1, Sizes DEF Numbers
  <2>3. making = None => f # making
    BY Sizes
  <2>4. f \in files => f \in Visible
    BY <1>1 DEF Numbers
  <2>5. making = None /\ f \in Visible => f < nextNum
    BY <1>1, <1>3, <2>3 DEF Numbers, Numbered
  <2>6. f \in Visible' => f \in Visible /\ entry'[f] = entry[f]
    BY <1>1, <1>3 DEF Visible
  <2> QED
    BY <1>3, <2>1, <2>2, <2>3, <2>4, <2>6 DEF Visible
<1>4. ASSUME NEW h, NEW keep, DropCommitted(h, keep)
      PROVE  /\ entry'[f] = entry[f] \/ (entry'[f] = "gone" /\ f \in files /\ f \notin files')
             /\ f \in files' <=> f \in files /\ entry'[f] # "gone"
  <2>1. f \in files => entry[f] # "gone"
    BY <1>1 DEF Numbers, Visible
  <2> QED
    BY <1>4, <2>1 DEF DropCommitted, Drained
<1>5. ASSUME NEW g \in Segs, CommitWrites(g)
      PROVE  f \in Visible' /\ f # making' <=> f \in files'
  <2>1. phase = "open" /\ making' = making
    BY <1>5 DEF CommitWrites, Free, Idle
  <2>2. CASE policy = "perOp"
    BY <1>2, <1>5, <2>1, <2>2 DEF CommitWrites
  <2>3. CASE policy # "perOp"
    <3>1. PICK h : DropCommitted(h, active)
      BY <1>5, <2>3 DEF CommitWrites
    <3> QED
      BY <1>3, <1>4, <2>1, <3>1
  <2> QED
    BY <2>2, <2>3
<1>6. CASE CommitFlushes
  BY <1>3, <1>4, <1>6 DEF CommitFlushes
<1>7. CASE CycleDrops
  BY <1>3, <1>4, <1>7 DEF CycleDrops, Idle
<1>8. CASE FlushAll
  <2>1. UNCHANGED <<files, making, phase>> /\ entry' = EntriesDurable(entry) /\ phase = "open"
    BY <1>8 DEF FlushAll, Idle
  <2>2. f \in Visible' <=> f \in Visible
    BY <1>1, <2>1, DurableEntries DEF Visible
  <2> QED
    BY <2>1, <2>2 DEF AllLive
<1>9. CASE CreateLinks
  <2>1. UNCHANGED <<files, making, phase>> /\ entry' = [entry EXCEPT ![making] = "new"] /\ making # None
    BY <1>9 DEF CreateLinks, store
  <2>2. phase = "open"
    BY <1>1, <2>1 DEF Phased
  <2>3. f # making => (f \in Visible' <=> f \in Visible)
    BY <1>1, <2>1 DEF Visible
  <2> QED
    BY <1>1, <2>1, <2>2, <2>3 DEF AllLive, Numbers
<1>10. CASE CreateEnds
  <2>1. /\ making # None /\ making \in Segs /\ files' = files \union {making} /\ making' = None
        /\ entry'[f] \in {entry[f], EntriesDurable(entry)[f]} /\ making \in Visible
    BY <1>1, <1>10, Sizes DEF CreateEnds, Linked, Numbers, Visible
  <2>2. f \in Visible' <=> f \in Visible
    BY <1>1, <2>1, DurableEntries DEF Visible
  <2>3. phase \in {"open", "fresh"}
    BY <1>1, <2>1 DEF Phased, Phases
  <2>4. f \in Visible /\ f # making <=> f \in files
    BY <1>1, <2>3 DEF AllLive, Phased, Numbers
  <2> QED
    BY <2>1, <2>2, <2>4, Sizes
<1>11. CASE LoadConcludes
  <2>1. phase = "conclude" /\ UNCHANGED <<files, fs>> /\ making' = making
    BY <1>11 DEF LoadConcludes
  <2>2. making' = None
    BY <1>1, <2>1 DEF Phased
  <2>3. f \in Visible' <=> f \in Visible
    BY <2>1 DEF Visible, fs
  <2> QED
    BY <1>1, <2>1, <2>2, <2>3, Sizes DEF Numbers
<1>12. CASE Running
  <2>1. CASE Quiet
    BY <1>2, <2>1 DEF Quiet
  <2> QED
    BY <1>1, <1>5, <1>6, <1>7, <1>8, <1>9, <1>10, <1>12, <2>1, QuietSteps
<1>13. CASE Failing
  BY <1>13 DEF Failing, Crash, PowerLoss, PowerLossLeaves, Cut, Overwritten, Struck
<1>14. CASE Loading
  <2>1. CASE OpenBegins \/ LoadDrops \/ LoadKeeps
    BY <2>1 DEF OpenBegins, LoadDrops, LoadKeeps, LoadNext
  <2>2. CASE RepairFlushes \/ OpenReturns
    BY <1>2, <2>2 DEF RepairFlushes, OpenReturns, fs
  <2>3. ASSUME NEW g \in Segs, RepairWrites(g) PROVE f \in Visible' /\ f # making' <=> f \in files'
    BY <1>2, <2>3 DEF RepairWrites
  <2> QED
    BY <1>11, <1>14, <2>1, <2>2, <2>3 DEF Loading
<1> QED
  BY <1>2, <1>12, <1>13, <1>14 DEF Next, vars, fs, store

-----------------------------------------------------------------------------
(* What load reads, and what a consumer may count on *)

\* Load has read what the page cache holds, out of segments with a header to go by
MemRead ==
    /\ phase \in Loads => \A f \in files : hdr[f].kind \in {"torn", "ok"}
    /\ phase \in {"load", "conclude"} =>
          \A f \in files : mem[f] = IF hdr[f].kind = "torn" THEN Salvaged(f) ELSE ReadBack(f)

LEMMA MemReadNext ==
    ASSUME PInv, MemRead, [Next]_vars
    PROVE  MemRead'
<1> DEFINE K(f) == hdr[f].kind \in {"torn", "ok"}
           M(f) == mem[f] = IF hdr[f].kind = "torn" THEN Salvaged(f) ELSE ReadBack(f)
<1> SUFFICES ASSUME phase' \in Loads, NEW f \in files'
             PROVE  K(f)' /\ (phase' \in {"load", "conclude"} => M(f)')
  BY DEF MemRead, Loads
<1>1. BInv /\ DiskTypes /\ mem \in [Segs -> Mems]
  BY DEF PInv, BInv, DiskInv, CursorInv, MemSane
<1>2. phase \in Loads /\ \/ UNCHANGED vars \/ LoadDrops \/ LoadKeeps \/ LoadConcludes
                         \/ (\E g \in Segs : RepairWrites(g)) \/ RepairFlushes
  BY <1>1, LoadingSteps
<1>3. CASE f \in files /\ UNCHANGED <<hdr, len, data>> /\ mem'[f] = mem[f]
              /\ (phase' \in {"load", "conclude"} => phase \in {"load", "conclude"})
  BY <1>2, <1>3 DEF MemRead, Salvaged, Verified, ReadBack, Surviving, LostTail
<1>4. CASE UNCHANGED vars
  BY <1>3, <1>4 DEF vars, fs, store
<1>5. CASE LoadDrops
  BY <1>3, <1>5 DEF LoadDrops, store
<1>6. CASE LoadKeeps
  <2>1. at \in Segs /\ files' = files \union {at} /\ (\A g \in files : mem'[g] = mem[g])
           /\ UNCHANGED <<hdr, len, data>> /\ phase = "load"
    BY <1>1, <1>6, KeptSize DEF LoadKeeps, fs
  <2>2. CASE f = at
    <3>1. hdr[at] \in Headers
      BY <1>1, <2>1 DEF DiskTypes
    <3>2. K(at)
      BY <1>6, <3>1, HeaderIs DEF LoadKeeps, Unreadable, HeaderKinds
    <3>3. mem'[at] = IF hdr[at].kind = "torn" THEN Salvaged(at) ELSE ReadBack(at)
      BY <1>1, <1>6, <2>1 DEF LoadKeeps
    <3> QED
      BY <2>1, <2>2, <3>2, <3>3 DEF Salvaged, Verified, ReadBack, Surviving, LostTail
  <2>3. CASE f # at
    BY <1>3, <2>1, <2>3
  <2> QED
    BY <2>2, <2>3
<1>7. CASE LoadConcludes
  <2>1. phase' \notin {"load", "conclude"} /\ files' = files /\ hdr' = hdr
    BY <1>7 DEF LoadConcludes, fs
  <2> QED
    BY <1>2, <2>1 DEF MemRead
<1>8. ASSUME NEW g \in Segs, RepairWrites(g) PROVE K(f)' /\ phase' \notin {"load", "conclude"}
  <2>1. files' = files /\ hdr'[g].kind = "ok" /\ phase' = "flush"
    BY <1>1, <1>8, RepairsAt
  <2>2. f \in Segs /\ (f # g => hdr'[f] = hdr[f])
    BY <1>1, <1>8, <2>1, RepairedSize, SegsFacts
  <2> QED
    BY <1>2, <2>1, <2>2 DEF MemRead
<1>9. CASE RepairFlushes
  <2>1. phase' = "repair" /\ files' = files /\ hdr' = hdr
    BY <1>1, <1>9, RepairedAt
  <2> QED
    BY <1>2, <2>1 DEF MemRead
<1> QED
  BY <1>2, <1>4, <1>5, <1>6, <1>7, <1>8, <1>9

\* Load will find the commit cursor at g, or before it
Open(g) ==
    \/ hdr[g].kind = "torn"
    \/ hdr[g].kind = "ok" /\ ReadBack(g).c < ReadBack(g).size

\* What load has read of a segment
LEMMA ReadIs ==
    ASSUME BInv, MemRead, phase \in {"load", "conclude"}, NEW f \in files
    PROVE  /\ f \in Segs /\ hdr[f].kind \in {"torn", "ok"} /\ mem[f].c \in Nat /\ mem[f].size \in Nat
           /\ mem[f].c <= mem[f].size /\ Hdr + mem[f].size <= len[f]
           /\ hdr[f].kind = "torn" => mem[f].c = 0
           /\ hdr[f].kind = "ok" => /\ mem[f].size <= hdr[f].w /\ mem[f].c <= hdr[f].c
                                    /\ mem[f].c = IF hdr[f].c <= mem[f].size THEN hdr[f].c ELSE mem[f].size
           /\ AtCursor(f) <=> Open(f)
<1>1. /\ f \in Segs /\ hdr[f].kind \in {"torn", "ok"} /\ phase \in Loads /\ mem[f] \in Mems
      /\ mem[f] = IF hdr[f].kind = "torn" THEN Salvaged(f) ELSE ReadBack(f)
  BY SegsFacts DEF MemRead, Loads, BInv, CursorInv, MemSane
<1>2. /\ mem[f].size \in Nat /\ mem[f].c \in Nat /\ len[f] \in 0 .. Full /\ hdr[f] \in Headers
      /\ mem[f].nc \in Nat /\ mem[f].nw \in Nat
  BY <1>1, Sizes DEF Mems, BInv, DiskInv, DiskTypes
<1>3. /\ mem[f].size = Unit * mem[f].nw /\ mem[f].c = Unit * mem[f].nc
      /\ mem[f].nc <= mem[f].nw /\ Hdr + mem[f].size <= len[f]
  BY <1>1 DEF BInv, CursorInv, MemSane
<1>4. mem[f].c <= mem[f].size
  BY ONLY <1>2, <1>3, Sizes
<1>5. CASE hdr[f].kind = "torn"
  <2>1. mem[f].c = 0 /\ mem[f].reset
    BY <1>1, <1>5 DEF Salvaged
  <2> QED
    BY <1>1, <1>2, <1>3, <1>4, <1>5, <2>1 DEF AtCursor, Open
<1>6. CASE hdr[f].kind = "ok"
  <2>1. mem[f] = ReadBack(f) /\ hdr[f].w \in Nat /\ hdr[f].c \in Nat /\ len[f] \in Nat
    BY <1>1, <1>2, <1>6, HeaderIs, Sizes
  <2>2. /\ mem[f].size = (IF LostTail(f) THEN Unit * Surviving(f) ELSE hdr[f].w)
        /\ mem[f].c = Min({hdr[f].c, mem[f].size}) /\ ~mem[f].reset
    BY <2>1 DEF ReadBack
  <2>3. mem[f].c = IF hdr[f].c <= mem[f].size THEN hdr[f].c ELSE mem[f].size
    BY <1>2, <2>1, <2>2, MinPair
  <2>4. mem[f].size <= hdr[f].w
    <3>1. CASE LostTail(f)
      <4>1. Hdr + hdr[f].w > len[f] /\ Hdr = 2 /\ len[f] \in Nat /\ hdr[f].w \in Nat
        BY <2>1, <3>1, Sizes DEF LostTail
      <4>2. mem[f].size \in Nat /\ Hdr + mem[f].size <= len[f]
        BY <1>2, <1>3
      <4> QED
        BY ONLY <4>1, <4>2
    <3>2. CASE ~LostTail(f)
      BY <2>1, <2>2, <3>2
    <3> QED
      BY <3>1, <3>2
  <2>5. mem[f].c <= hdr[f].c
    BY <1>2, <2>1, <2>3
  <2>6. AtCursor(f) <=> Open(f)
    BY <1>6, <2>1, <2>2 DEF AtCursor, Open
  <2> QED
    BY <1>1, <1>2, <1>3, <1>4, <1>6, <2>3, <2>4, <2>5, <2>6
<1> QED
  BY <1>1, <1>5, <1>6

\* The records a consumer may still count on
Due == ((promised \union {adding}) \ Spent) \intersect Recs

\* They lie where they can be seen
Plainly == \A f \in Segs, k \in Slots : \A r \in disk[f][k] \intersect Due : data[f][k] = r

\* and every header that may come back publishes the durable ones
Spans ==
    \A f \in Segs, k \in Slots : \A r \in ((disk[f][k] \intersect promised) \ Spent) \intersect Recs :
        /\ \A h \in hdrs[f] : h.kind = "ok" => Unit * k <= h.w
        /\ phase \in Loads /\ f \in files => Unit * k <= mem[f].size

\* A record is seen between two cursors where it lies
LEMMA BetweenAt ==
    ASSUME PInv, Slotted, NEW f \in Segs, NEW g \in Segs, NEW k \in Slots, NEW r \in Recs,
           r \in disk[f][k], NEW c, NEW w, r \in Between(g, c, w)
    PROVE  f = g /\ data[f][k] = r /\ c < Unit * k /\ Unit * k <= w /\ home[r] = f
       /\ r \in 1 .. Len(home)
<1>1. PICK j \in Slots : data[g][j] = r /\ c < Unit * j /\ Unit * j <= w
  BY DEF Between
<1>2. r \in disk[g][j]
  BY <1>1 DEF PInv, BInv, DiskInv, Cached
<1>3. home[r] = f /\ home[r] = g /\ r \in 1 .. Len(home)
  BY <1>2 DEF PInv, Homed
<1>4. j = k
  BY <1>2, <1>3 DEF Slotted
<1> QED
  BY <1>1, <1>3, <1>4

\* A record that is seen is a record, and lies in a slot
LEMMA BetweenIs ==
    ASSUME PInv, NEW g \in Segs, NEW c, NEW w, NEW r, r \in Between(g, c, w)
    PROVE  r \in Recs /\ \E k \in Slots : data[g][k] = r /\ r \in disk[g][k] /\ c < Unit * k
       /\ Unit * k <= w
<1>1. PICK j \in Slots : data[g][j] = r /\ c < Unit * j /\ Unit * j <= w
  BY DEF Between
<1>2. r \in disk[g][j] /\ r \in Cells
  BY <1>1 DEF PInv, BInv, DiskInv, DiskTypes, Cached
<1>3. r \in Recs
  BY <1>2 DEF Between, Cells
<1> QED
  BY <1>1, <1>2, <1>3

\* Where what is flushed, and what is to be delivered again, lies
Flushed(r) == FlushAll /\ \E f \in dirty \intersect files : r \in Backlog(f)
Replayed(r) ==
    LoadConcludes /\ files # {} /\ \E f \in files : Settled(f)
       /\ r \in Between(f, mem'[f].c, mem'[f].size)

LEMMA DueSteps ==
    ASSUME BInv, [Next]_vars, NEW r \in Due'
    PROVE  r \in Due \/ (AddStages /\ r = Len(home) + 1) \/ Flushed(r) \/ Replayed(r)
<1>1. r \in Recs /\ r \in promised' \union {adding'} /\ r \notin Spent'
  BY DEF Due
<1>2. CASE promised' \subseteq promised /\ Spent \subseteq Spent' /\ adding' \in {adding, None}
  BY <1>1, <1>2, Sizes DEF Due
<1>3. CASE AddStages /\ promised' = promised /\ Spent' = Spent
  BY <1>1, <1>3 DEF Due, Spent, AddStages
<1>4. CASE AddSettles
  BY <1>1, <1>4, Sizes DEF Due, Spent, AddSettles
<1>5. CASE FlushAll
  <2>1. PICK kept : /\ kept = UNION {Backlog(f) : f \in dirty \intersect files} /\ Spent' = Spent \ kept
                    /\ promised' = promised \union (kept \ discarded) /\ adding' = adding
    BY <1>5 DEF FlushAll, Spent
  <2>2. r \in Due \/ r \in kept
    BY <1>1, <2>1 DEF Due
  <2> QED
    BY <1>5, <2>1, <2>2 DEF Flushed
<1>6. CASE LoadConcludes /\ files # {}
  <2> DEFINE replay == UNION {Between(f, mem'[f].c, mem'[f].size) : f \in {f \in files : Settled(f)}}
  <2>1. Spent' = Spent \ replay /\ promised' = promised \union (replay \ discarded)
           /\ adding' = adding
    BY <1>6 DEF LoadConcludes, Spent
  <2>2. r \in Due \/ r \in replay
    <3> HIDE DEF replay
    <3> QED
      BY <1>1, <2>1 DEF Due
  <2> QED
    BY <1>6, <2>2 DEF Replayed
<1> QED
  BY <1>2, <1>3, <1>4, <1>5, <1>6, GhostSteps

LEMMA PlainlyNext ==
    ASSUME PInv, Slotted, Plainly, Spans, [Next]_vars
    PROVE  Plainly'
<1> SUFFICES ASSUME NEW f \in Segs, NEW k \in Slots, NEW r \in Due', r \in disk'[f][k]
             PROVE  data'[f][k] = r
  BY DEF Plainly
<1>1. BInv /\ r \in Recs /\ DiskTypes /\ Cached'
  BY DiskNext DEF PInv, Due, BInv, DiskInv
<1>2. \/ r \in disk[f][k] \/ (AddStages /\ f = active /\ k = hdr[f].nw + 1 /\ r = Len(home) + 1)
  BY <1>1, OldSlot
<1>3. CASE AddStages /\ f = active /\ k = hdr[f].nw + 1 /\ r = Len(home) + 1
  BY <1>1, <1>3, StagesAt
<1>4. ASSUME r \in disk[f][k] PROVE data[f][k] = r
  <2>1. CASE r \in Due
    BY <1>4, <2>1 DEF Plainly
  <2>2. CASE AddStages /\ r = Len(home) + 1
    <3>1. r \in 1 .. Len(home) /\ Len(home) \in Nat
      BY <1>1, <1>4 DEF PInv, Homed, BInv, ControlInv, Plain
    <3> QED
      BY <2>2, <3>1
  <2>3. CASE Flushed(r)
    BY <1>1, <1>4, <2>3, BetweenAt, SegsFacts DEF Flushed, Backlog
  <2>4. CASE Replayed(r)
    BY <1>1, <1>4, <2>4, BetweenAt, SegsFacts DEF Replayed
  <2> QED
    BY <1>1, <2>1, <2>2, <2>3, <2>4, DueSteps
<1>5. CASE r \in disk[f][k] /\ data'[f][k] = data[f][k]
  BY <1>4, <1>5
<1>6. CASE r \in disk[f][k] /\ data'[f][k] # data[f][k]
  <2>1. CASE Stages(f)
    <3>1. /\ AddStages /\ f = active /\ k = hdr[f].nw + 1 /\ hdr[f].kind = "ok"
                /\ Unit * k = hdr[f].w + Unit /\ adding = None
      BY <1>1, <1>6, <2>1, StagesAt DEF Stages
    <3>2. hdr[f] \in hdrs[f] /\ hdr[f].w \in Nat
      BY <1>1, HeaderIs DEF BInv, DiskInv, Cached, DiskTypes
    <3>3. r \notin Due
      <4>1. SUFFICES ASSUME r \in Due PROVE FALSE
        OBVIOUS
      <4>2. r \in promised /\ r \notin Spent
        BY <3>1, <4>1, Sizes DEF Due
      <4>3. Unit * k <= hdr[f].w
        BY <1>1, <1>6, <3>1, <3>2, <4>2 DEF Spans
      <4> QED
        BY <3>1, <3>2, <4>3, Sizes
    <3>4. r = Len(home) + 1
      <4>1. ~FlushAll /\ ~LoadConcludes
        BY <3>1 DEF AddStages, FlushAll, LoadConcludes, Idle
      <4> QED
        BY <1>1, <3>3, <4>1, DueSteps DEF Flushed, Replayed
    <3>5. r \in 1 .. Len(home) /\ Len(home) \in Nat
      BY <1>1, <1>6 DEF PInv, Homed, BInv, ControlInv, Plain
    <3> QED
      BY <3>4, <3>5
  <2>2. CASE Creates(f)
    <3>1. disk'[f][k] = {None} \/ data'[f] = data[f]
      BY <1>1, <2>2, CreatesAt
    <3> QED
      BY <1>1, <1>6, <3>1, Sizes
  <2>3. CASE LeftAs(f)
    <3>1. disk'[f][k] = {data'[f][k]}
      BY <1>1, <2>3, LeftAt DEF LeftAs
    <3> QED
      BY <3>1
  <2>4. CASE Same(f) \/ Announces(f) \/ CommitWrites(f) \/ RepairWrites(f)
    BY <1>6, <2>4 DEF Same, Announces, AddPublishes, CommitWrites, RepairWrites
  <2>5. CASE RepairFlushes
    BY <1>6, <2>5 DEF RepairFlushes
  <2> QED
    BY <1>1, <2>1, <2>2, <2>3, <2>4, <2>5, SegSteps
<1> QED
  BY <1>2, <1>3, <1>5, <1>6

\* What is promised was staged
Known == promised \subseteq 1 .. Len(home)

LEMMA KnownNext ==
    ASSUME PInv, Known, [Next]_vars
    PROVE  Known'
<1> SUFFICES ASSUME NEW r \in promised' PROVE r \in 1 .. Len(home')
  BY DEF Known
<1>1. BInv /\ Homed /\ Len(home) \in Nat /\ home \in Seq(Segs)
  BY DEF PInv, BInv, ControlInv, Plain
<1>2. Len(home) <= Len(home') /\ Len(home') \in Nat
  <2>1. home' = home \/ (AddStages /\ active \in Segs)
    BY <1>1, GhostSteps, StagesAt
  <2> QED
    BY <1>1, <2>1 DEF AddStages
<1>3. ASSUME NEW g \in Segs, NEW c, NEW w, r \in Between(g, c, w) PROVE r \in 1 .. Len(home)
  BY <1>1, <1>3, BetweenIs DEF Homed
<1>4. r \in 1 .. Len(home)
  <2>1. CASE promised' \subseteq promised
    BY <2>1 DEF Known
  <2>2. CASE AddSettles
    BY <1>1, <2>2 DEF AddSettles, Homed, Known
  <2>3. CASE FlushAll
    <3>1. r \in promised \/ \E f \in dirty \intersect files : r \in Backlog(f)
      BY <2>3 DEF FlushAll
    <3> QED
      BY <1>1, <1>3, <3>1, SegsFacts DEF Known, Backlog
  <2>4. CASE LoadConcludes /\ files # {}
    <3>1. r \in promised \/ \E f \in files : r \in Between(f, mem'[f].c, mem'[f].size)
      BY <2>4 DEF LoadConcludes
    <3> QED
      BY <1>1, <1>3, <3>1, SegsFacts DEF Known
  <2> QED
    BY <1>1, <2>1, <2>2, <2>3, <2>4, GhostSteps
<1> QED
  BY <1>1, <1>2, <1>4

\* A record that becomes durable does so under a header that publishes it
LEMMA SpansHeaders ==
    ASSUME PInv, Known, Slotted, MadeBlank, Spans, MemRead, [Next]_vars, NEW f \in Segs,
           NEW k \in Slots, NEW r \in Recs,
           r \in disk'[f][k], r \in promised', r \notin Spent', NEW h \in hdrs'[f], h.kind = "ok"
    PROVE  Unit * k <= h.w
<1>1. BInv /\ DiskTypes /\ Cached
  BY DEF PInv, BInv, DiskInv
<1>2. \A g \in Segs : hdr[g] \in hdrs[g] /\ hdr[g] \in Headers /\ hdr[g].w \in Nat
  BY <1>1, HeaderIs DEF Cached, DiskTypes
<1>3. r \in disk[f][k] \/ (AddStages /\ r = Len(home) + 1)
  BY <1>1, OldSlot
<1>4. CASE r \in disk[f][k] /\ r \in promised /\ r \notin Spent
  <2>1. \A o \in hdrs[f] : o.kind = "ok" => Unit * k <= o.w
    BY <1>4 DEF Spans
  <2>2. CASE h \in hdrs[f]
    BY <2>1, <2>2
  <2>3. CASE h \notin hdrs[f]
    <3>1. CASE Same(f)
      BY <1>2, <2>3, <3>1 DEF Same
    <3>2. CASE Stages(f)
      BY <2>3, <3>2 DEF Stages, AddStages
    <3>3. CASE Announces(f)
      <4>1. AddPublishes /\ f = active
        BY <3>3 DEF Announces
      <4>2. hdr[f].kind = "ok" /\ hdr'[f].w = hdr[f].w + Unit
        BY <1>1, <4>1, PublishedNow
      <4>3. h = hdr'[f]
        <5>1. PICK j : /\ hdr' = [hdr EXCEPT ![f] = j]
                       /\ hdrs' = [hdrs EXCEPT ![f] = {hdr[f], j}]
                             \/ hdrs' = [hdrs EXCEPT ![f] = @ \union {j}]
          BY <4>1 DEF AddPublishes, Publishes
        <5>2. hdr'[f] = j /\ hdrs'[f] \subseteq hdrs[f] \union {j}
          BY <1>1, <1>2, <5>1 DEF DiskTypes
        <5> QED
          BY <2>3, <5>2
      <4>4. Unit * k <= hdr[f].w /\ k \in Nat
        BY <1>2, <2>1, <4>2, Sizes
      <4> QED
        BY <1>2, <4>2, <4>3, <4>4, Sizes
    <3>4. CASE CommitWrites(f)
      BY <1>1, <1>2, <2>1, <2>3, <3>4, CommitsAt
    <3>5. CASE Creates(f)
      <4>1. \/ disk'[f][k] = {None} \/ hdrs'[f] = hdrs[f] \/ (Linked /\ f = making)
        BY <1>1, <3>5, CreatesAt
      <4> QED
        BY <1>4, <2>3, <4>1, Sizes DEF MadeBlank
    <3>6. CASE LeftAs(f)
      <4>1. PICK e, l, o, d : Left(f, e, l, o, d) /\ Remains(f, o, d)
        BY <3>6 DEF LeftAs
      <4>2. h = hdr'[f] /\ (hdr'[f] = o \/ hdr'[f] = Broken("zero"))
        BY <1>1, <4>1, LeftAt
      <4> QED
        BY <2>3, <4>1, <4>2 DEF Remains, Broken
    <3>7. CASE RepairWrites(f)
      <4>1. f \in files /\ phase = "repair" /\ h = Wanted(f) /\ Wanted(f).w = mem[f].size
        BY <1>1, <2>3, <3>7, RepairsAt
      <4> QED
        BY <1>4, <4>1 DEF Spans, Loads
    <3>8. CASE RepairFlushes /\ f = at
      BY <1>1, <1>2, <2>3, <3>8, RepairedAt
    <3> QED
      BY <1>1, <3>1, <3>2, <3>3, <3>4, <3>5, <3>6, <3>7, <3>8, SegSteps
  <2> QED
    BY <2>2, <2>3
<1>5. CASE AddSettles /\ r = adding
  <2>1. active \in Segs /\ hdrs'[active] = {hdr[active]} /\ r \in Between(active, 0, hdr[active].w)
           /\ ~AddStages
    BY <1>1, <1>5, SegsFacts DEF AddSettles, BInv, ControlInv, Phased, DiskInv, DiskTypes, Published,
                                 AddStages
  <2> QED
    BY <1>3, <2>1, BetweenAt
<1>6. CASE Flushed(r)
  <2>1. PICK g \in dirty \intersect files : r \in Backlog(g)
    BY <1>6 DEF Flushed
  <2>2. g \in Segs /\ hdrs'[g] = {hdr[g]} /\ ~AddStages
    BY <1>1, <1>6, <2>1, SegsFacts DEF Flushed, FlushAll, AddStages
  <2> QED
    BY <1>3, <2>1, <2>2, BetweenAt DEF Backlog
<1>7. CASE Replayed(r)
  <2>1. PICK g \in files : Settled(g) /\ r \in Between(g, mem'[g].c, mem'[g].size)
    BY <1>7 DEF Replayed
  <2>2. g \in Segs /\ mem'[g].size = mem[g].size /\ phase = "conclude"
    BY <1>1, <1>7, ReconciledSize DEF Replayed, LoadConcludes
  <2>3. hdrs' = hdrs /\ hdrs[g] = {hdr[g]} /\ ~AddStages
    BY <1>7, <2>1, <2>2 DEF Replayed, LoadConcludes, fs, Settled, AddStages, Idle
  <2>4. f = g /\ Unit * k <= mem[g].size /\ k \in Nat
    BY <1>3, <2>1, <2>2, <2>3, BetweenAt, Sizes
  <2>5. h = hdr[g] /\ mem[g].size <= hdr[g].w /\ mem[g].size \in Nat
    BY <1>1, <2>2, <2>3, <2>4, ReadIs
  <2> QED
    BY <1>2, <2>4, <2>5, Sizes
<1>8. CASE AddStages
  <2>1. promised' = promised /\ Spent' = Spent
    BY <1>8 DEF AddStages, Spent
  <2>2. r # Len(home) + 1
    <3>1. promised \subseteq 1 .. Len(home) /\ Len(home) \in Nat
      BY <1>1 DEF BInv, ControlInv, Plain, Known
    <3> QED
      BY <2>1, <3>1
  <2> QED
    BY <1>3, <1>4, <2>1, <2>2
<1>9. (r \in promised /\ r \notin Spent) \/ (AddSettles /\ r = adding) \/ Flushed(r) \/ Replayed(r)
  <2>1. CASE AddSettles
    BY <2>1 DEF AddSettles, Spent
  <2>2. CASE promised' \subseteq promised /\ Spent \subseteq Spent'
    BY <2>2
  <2>3. CASE AddStages
    BY <2>3 DEF AddStages, Spent
  <2>4. CASE FlushAll
    BY <2>4 DEF FlushAll, Flushed, Spent
  <2>5. CASE LoadConcludes /\ files # {}
    BY <2>5 DEF LoadConcludes, Replayed, Spent
  <2> QED
    BY <1>1, <2>1, <2>2, <2>3, <2>4, <2>5, GhostSteps
<1> QED
  BY <1>3, <1>4, <1>5, <1>6, <1>7, <1>8, <1>9

LEMMA SpansNext ==
    ASSUME PInv, Known, Slotted, MadeBlank, Spans, MemRead, [Next]_vars
    PROVE  Spans'
<1> SUFFICES ASSUME NEW f \in Segs, NEW k \in Slots, NEW r \in Recs,
                    r \in disk'[f][k], r \in promised', r \notin Spent'
             PROVE  /\ \A h \in hdrs'[f] : h.kind = "ok" => Unit * k <= h.w
                    /\ phase' \in Loads /\ f \in files' => Unit * k <= mem'[f].size
  BY DEF Spans
<1>1. \A h \in hdrs'[f] : h.kind = "ok" => Unit * k <= h.w
  BY SpansHeaders
<1>2. ASSUME phase' \in Loads, f \in files' PROVE Unit * k <= mem'[f].size
  <2>1. BInv /\ DiskTypes /\ Cached
    BY DEF PInv, BInv, DiskInv
  <2>2. phase \in Loads /\ \/ UNCHANGED vars \/ LoadDrops \/ LoadKeeps \/ LoadConcludes
                           \/ (\E g \in Segs : RepairWrites(g)) \/ RepairFlushes
    BY <1>2, <2>1, LoadingSteps
  <2>3. r \in disk[f][k]
    <3>1. ~AddStages
      BY <2>2 DEF AddStages, Idle, Loads
    <3> QED
      BY <2>1, <3>1, OldSlot
  <2>4. CASE r \in promised /\ r \notin Spent /\ f \in files /\ mem'[f].size = mem[f].size
    BY <2>2, <2>3, <2>4 DEF Spans
  <2>5. CASE UNCHANGED vars
    BY <1>2, <2>4, <2>5 DEF vars, store, ghost, Spent
  <2>6. CASE LoadDrops
    <3>1. promised' \subseteq promised /\ Spent' = Spent /\ UNCHANGED <<mem, files>>
      BY <2>6 DEF LoadDrops, store, Spent
    <3> QED
      BY <1>2, <2>4, <3>1
  <2>7. CASE LoadKeeps
    <3>1. /\ promised' \subseteq promised /\ Spent' = Spent /\ at \in Segs /\ files' = files \union {at}
          /\ \A g \in files : mem'[g] = mem[g]
      BY <2>1, <2>7, KeptSize DEF LoadKeeps, Spent
    <3>2. CASE f # at
      BY <1>2, <2>4, <3>1, <3>2
    <3>3. CASE f = at
      <4>1. home[r] = at
        BY <2>1, <2>3, <3>3 DEF PInv, Homed
      <4>2. CASE hdr[at].kind = "torn" \/ LostTail(at)
        <5>1. r \in Between(at, 0, mem'[at].size)
          BY <2>7, <3>1, <4>1, <4>2 DEF LoadKeeps, Lost
        <5> QED
          BY <2>3, <3>1, <3>3, <5>1, BetweenAt
      <4>3. CASE hdr[at].kind # "torn" /\ ~LostTail(at)
        <5>1. hdr[at].kind = "ok" /\ mem \in [Segs -> Mems] /\ hdr[at] \in hdrs[at]
          BY <2>1, <2>7, <3>1, <4>3, HeaderIs DEF LoadKeeps, Unreadable, HeaderKinds, DiskTypes,
                                                  Cached, BInv, CursorInv, MemSane
        <5>2. mem'[at] = ReadBack(at)
          BY <2>7, <3>1, <4>3, <5>1 DEF LoadKeeps
        <5>3. mem'[at].size = hdr[at].w
          BY <4>3, <5>2 DEF ReadBack
        <5> QED
          BY <2>3, <3>1, <3>3, <5>1, <5>3 DEF Spans
      <4> QED
        BY <4>2, <4>3
    <3> QED
      BY <3>2, <3>3
  <2>8. CASE LoadConcludes
    <3>1. files' = files /\ f \in files
      BY <1>2, <2>8 DEF LoadConcludes
    <3>2. mem'[f].size = mem[f].size
      BY <2>1, <2>8, <3>1, ReconciledSize
    <3>3. (r \in promised /\ r \notin Spent) \/ Replayed(r)
      BY <2>8, <3>1 DEF LoadConcludes, Replayed, Spent
    <3>4. CASE Replayed(r)
      <4>1. PICK g \in files : r \in Between(g, mem'[g].c, mem'[g].size)
        BY <3>4 DEF Replayed
      <4> QED
        BY <2>1, <2>3, <4>1, BetweenAt, SegsFacts
    <3> QED
      BY <2>4, <3>1, <3>2, <3>3, <3>4
  <2>9. ASSUME NEW g \in Segs, RepairWrites(g) PROVE Unit * k <= mem'[f].size
    BY <1>2, <2>1, <2>4, <2>9, RepairsAt DEF Spent
  <2>10. CASE RepairFlushes
    BY <1>2, <2>1, <2>4, <2>10, RepairedAt, FlushedSize DEF Spent
  <2> QED
    BY <2>2, <2>5, <2>6, <2>7, <2>8, <2>9, <2>10
<1> QED
  BY <1>1, <1>2

-----------------------------------------------------------------------------
(* The commit cursor never passes what is due *)

\* A header retires slot k
Retires(h, k) == h.kind = "ok" /\ Unit * k <= h.c

\* A header may come back that retires what is due in f
Stale(f) == \E k \in Slots : disk[f][k] \intersect Due # {} /\ \E h \in hdrs[f] : Retires(h, k)

\* Load is bound to find the cursor at g, or before it, and to reset what lies behind
Witness(g) == entry[g] = "here" /\ Firm(g) /\ Open(g)

\* A header behind an open segment retires nothing, unless the open segment is so for good
OpenFirst ==
    \A f, g \in Visible : g < f /\ Open(g) /\ hdr[f].kind = "ok" /\ hdr[f].c > 0 => Firm(g)

\* Load has reset what lies behind an open segment; repairs go from the tail backwards
MemReset ==
    /\ phase \in {"repair", "flush"} => \A f, g \in files : g < f /\ Open(g) => mem[f].c = 0
    /\ phase = "flush" => hdr[at] = Wanted(at) /\ \A f \in Unrepaired : f <= at

\* and what it wants on disk retires nothing that is due
MemSpares ==
    phase \in {"repair", "flush"} =>
        \A f \in files, k \in Slots : disk[f][k] \intersect Due # {} => mem[f].c < Unit * k

\* A stale header is durable, but for the one a repair is at work on and what a power loss
\* has yet to get to
StaleSettled ==
    \A f \in Segs : Stale(f) =>
        Settled(f) \/ (phase = "flush" /\ at = f) \/ (phase = "losing" /\ at <= f)

\* and it is there only while load has it before it
Chased ==
    \A f \in Segs : Stale(f) =>
        /\ f \in Visible /\ phase \notin {"open", "fresh"}
        /\ \E g \in Visible : g < f /\ Witness(g)
        /\ phase \in {"repair", "flush"} => f \in Unrepaired \/ (phase = "flush" /\ at = f)

\* The numbers load has read
LEMMA MemNats ==
    ASSUME BInv, NEW f \in files
    PROVE  /\ f \in Segs /\ mem[f] \in Mems /\ mem[f].c \in Nat /\ mem[f].size \in Nat /\ len[f] \in Nat
           /\ phase \in Loads => mem[f].c <= mem[f].size /\ Hdr + mem[f].size <= len[f]
<1>1. f \in Segs /\ mem[f] \in Mems /\ len[f] \in Nat
  BY SegsFacts, Sizes DEF BInv, CursorInv, MemSane, DiskInv, DiskTypes
<1>2. /\ mem[f].c \in 0 .. Unit * Cap /\ mem[f].size \in 0 .. Unit * Cap /\ mem[f].nc \in 0 .. Cap
      /\ mem[f].nw \in 0 .. Cap
  BY <1>1 DEF Mems
<1>3. mem[f].c \in Nat /\ mem[f].size \in Nat /\ mem[f].nc \in Nat /\ mem[f].nw \in Nat
  BY <1>2, Sizes
<1>4. ASSUME phase \in Loads PROVE mem[f].c <= mem[f].size /\ Hdr + mem[f].size <= len[f]
  <2>1. /\ mem[f].size = Unit * mem[f].nw /\ mem[f].c = Unit * mem[f].nc
        /\ mem[f].nc <= mem[f].nw /\ Hdr + mem[f].size <= len[f] /\ Unit = 2
    BY <1>4, Sizes DEF BInv, CursorInv, MemSane
  <2>2. mem[f].c <= mem[f].size
    BY ONLY <1>3, <2>1
  <2> QED
    BY <2>1, <2>2
<1> QED
  BY <1>1, <1>3, <1>4

\* What the reconciliation does to the commit cursor of a segment
LEMMA ReconciledCursor ==
    ASSUME BInv, phase \in Loads, NEW f \in files
    PROVE  /\ \A g \in files : g < f /\ AtCursor(g) => Reconciled(f).c = 0
           /\ Reconciled(f).c = mem[f].c \/ (Reconciled(f).c = 0 /\ \E g \in files : g < f
                 /\ AtCursor(g))
<1> DEFINE cursor == {g \in files : AtCursor(g)}
<1>1. f \in Segs /\ files \subseteq Nat /\ mem[f] \in Mems /\ f \in Nat
  BY SegsFacts, Sizes DEF BInv, CursorInv, MemSane
<1>2. mem[f].size \in Nat /\ mem[f].c \in Nat
  BY MemNats
<1>3. mem[f].c <= mem[f].size
  BY MemNats
<1>4. CASE cursor = {}
  <2>1. Reconciled(f) = [mem[f] EXCEPT !.nc = mem[f].nw, !.c = mem[f].size]
    BY <1>4 DEF Reconciled
  <2>2. Reconciled(f).c = mem[f].size
    BY <1>1, <2>1 DEF Mems
  <2>3. ~(mem[f].c < mem[f].size)
    BY <1>4 DEF AtCursor
  <2>4. mem[f].c = mem[f].size
    BY <1>2, <1>3, <2>3
  <2> QED
    BY <1>4, <2>2, <2>4
<1>5. CASE cursor # {}
  <2>1. Min(cursor) \in cursor /\ \A y \in cursor : Min(cursor) <= y
    BY <1>1, <1>5, MinOf
  <2>2. PICK m \in Nat : m = Min(cursor)
    BY <1>1, <2>1
  <2>3. CASE f < m
    <3>1. Reconciled(f) = [mem[f] EXCEPT !.nc = mem[f].nw, !.c = mem[f].size]
      BY <2>2, <2>3 DEF Reconciled
    <3>2. Reconciled(f).c = mem[f].size
      BY <1>1, <3>1 DEF Mems
    <3>3. f \notin cursor
      BY <1>1, <2>1, <2>2, <2>3
    <3>4. mem[f].c = mem[f].size
      BY <1>2, <1>3, <3>3 DEF AtCursor
    <3>5. \A g \in files : g < f => g \notin cursor
      BY <1>1, <2>1, <2>2, <2>3
    <3> QED
      BY <3>2, <3>4, <3>5
  <2>4. CASE f > m
    <3>1. Reconciled(f) = [mem[f] EXCEPT !.nc = 0, !.c = 0]
      BY <1>1, <1>5, <2>2, <2>4 DEF Reconciled
    <3>2. Reconciled(f).c = 0
      BY <1>1, <3>1 DEF Mems
    <3>3. m \in files /\ m < f /\ AtCursor(m)
      BY <1>1, <2>1, <2>2, <2>4
    <3> QED
      BY <3>2, <3>3
  <2>5. CASE f = m
    <3>1. Reconciled(f) = mem[f]
      BY <1>1, <1>5, <2>2, <2>5 DEF Reconciled
    <3>2. \A g \in files : g < f => g \notin cursor
      BY <1>1, <2>1, <2>2, <2>5
    <3> QED
      BY <3>1, <3>2
  <2>6. f < m \/ f > m \/ f = m
    BY <1>1, <2>2
  <2> QED
    BY <2>3, <2>4, <2>5, <2>6
<1> QED
  BY <1>4, <1>5

\* A segment that has lost nothing is open if it is not drained
LEMMA OpenLooks ==
    ASSUME NEW g, hdr[g].kind = "ok", hdr[g].c \in Nat, hdr[g].w \in Nat, len[g] \in Nat,
           Hdr + hdr[g].w <= len[g]
    PROVE  Open(g) <=> hdr[g].c < hdr[g].w
<1>1. ~LostTail(g)
  BY Sizes DEF LostTail
<1>2. ReadBack(g).size = hdr[g].w /\ ReadBack(g).c = Min({hdr[g].c, hdr[g].w})
  BY <1>1 DEF ReadBack
<1>3. ReadBack(g).c = IF hdr[g].c <= hdr[g].w THEN hdr[g].c ELSE hdr[g].w
  BY <1>2, MinPair
<1> QED
  BY <1>2, <1>3 DEF Open

LEMMA OpenLooksNext ==
    ASSUME NEW g, hdr'[g].kind = "ok", hdr'[g].c \in Nat, hdr'[g].w \in Nat, len'[g] \in Nat,
           Hdr + hdr'[g].w <= len'[g]
    PROVE  Open(g)' <=> hdr'[g].c < hdr'[g].w
<1>1. ~LostTail(g)'
  BY Sizes DEF LostTail
<1>2. ReadBack(g).size' = hdr'[g].w /\ ReadBack(g).c' = Min({hdr'[g].c, hdr'[g].w})
  BY <1>1 DEF ReadBack
<1>3. ReadBack(g).c' = IF hdr'[g].c <= hdr'[g].w THEN hdr'[g].c ELSE hdr'[g].w
  BY <1>2, MinPair
<1> QED
  BY <1>2, <1>3 DEF Open

\* Its header, its length and its slots say whether a segment is open
LEMMA OpenStays ==
    ASSUME NEW g, hdr'[g] = hdr[g], len'[g] = len[g], data'[g] = data[g]
    PROVE  Open(g)' <=> Open(g)
  BY DEF Open, ReadBack, Surviving, LostTail

\* The repair of a segment leaves it open only if load found the cursor in it
LEMMA RepairOpen ==
    ASSUME BInv, [Next]_vars, NEW g \in files, phase \in {"repair", "flush"},
           RepairWrites(g) \/ (RepairFlushes /\ g = at /\ hdr[g] = Wanted(g)), Open(g)'
    PROVE  mem[g].c < mem[g].size
<1>1. g \in Segs /\ DiskInv' /\ mem[g] \in Mems /\ phase \in Loads
  BY SegsFacts, DiskNext DEF BInv, CursorInv, MemSane, Loads
<1>2. hdr'[g] = Wanted(g) /\ len[g] <= len'[g]
  <2>1. len[g] \in Nat
    BY <1>1, Sizes DEF BInv, DiskInv, DiskTypes
  <2> QED
    BY <1>1, <2>1, RepairsAt, RepairedAt
<1>3. hdr'[g].kind = "ok" /\ hdr'[g].c = mem[g].c /\ hdr'[g].w = mem[g].size
  BY <1>2 DEF Wanted, Header
<1>4. mem[g].c \in Nat /\ mem[g].size \in Nat /\ len'[g] \in Nat /\ len[g] \in Nat
         /\ Hdr + mem[g].size <= len[g]
  BY <1>1, Sizes DEF Mems, DiskInv, DiskTypes, BInv, CursorInv, MemSane
<1>5. Hdr + hdr'[g].w <= len'[g]
  BY <1>2, <1>3, <1>4, Sizes
<1> QED
  BY <1>3, <1>4, <1>5, OpenLooksNext

LEMMA MemResetNext ==
    ASSUME PInv, MemRead, MemReset, [Next]_vars
    PROVE  MemReset'
<1>1. BInv
  BY DEF PInv
<1>2. CASE phase' \notin {"repair", "flush"}
  BY <1>2 DEF MemReset
<1>3. CASE UNCHANGED vars
  <2>1. /\ files' = files /\ mem' = mem /\ phase' = phase /\ at' = at
        /\ hdr' = hdr /\ len' = len /\ data' = data
    BY <1>3 DEF vars, fs, store
  <2>2. \A g \in files : Open(g)' <=> Open(g)
    BY <2>1, OpenStays
  <2>3. /\ \A g : Wanted(g)' = Wanted(g)
        /\ Unrepaired' = Unrepaired
    BY <2>1 DEF Wanted, Unrepaired
  <2> QED
    BY <2>1, <2>2, <2>3 DEF MemReset
<1>4. CASE LoadConcludes /\ phase' = "repair"
  <2>1. phase = "conclude" /\ files' = files /\ UNCHANGED fs /\ files # {}
           /\ \A f \in files : mem'[f] = Reconciled(f)
    BY <1>1, <1>4, SegsFacts DEF LoadConcludes
  <2>2. ASSUME NEW f \in files, NEW g \in files, g < f, Open(g)' PROVE mem'[f].c = 0
    <3>1. Open(g)
      BY <2>1, <2>2, OpenStays DEF fs
    <3>2. AtCursor(g)
      BY <1>1, <2>1, <3>1, ReadIs
    <3> QED
      BY <1>1, <2>1, <2>2, <3>2, ReconciledCursor DEF Loads
  <2> QED
    BY <1>4, <2>1, <2>2 DEF MemReset
<1>5. ASSUME NEW f0 \in Segs, RepairWrites(f0) PROVE MemReset'
  <2>1. /\ f0 \in files /\ phase = "repair" /\ phase' = "flush" /\ at' = f0
              /\ UNCHANGED <<len, data, mem, files>>
        /\ \A g \in Unrepaired : g <= f0
    BY <1>1, <1>5, RepairsAt
  <2>2. hdr'[f0] = Wanted(f0) /\ \A g \in Segs : g # f0 => hdr'[g] = hdr[g]
    BY <1>1, <1>5, RepairsAt, RepairedSize
  <2>3. ASSUME NEW f \in files, NEW g \in files, g < f, Open(g)' PROVE mem[f].c = 0
    <3>1. CASE g = f0
      <4>1. mem[g].c < mem[g].size
        BY <1>1, <1>5, <2>1, <2>3, <3>1, RepairOpen
      <4>2. mem[g].c = mem[g].size \/ mem[f].c = 0
        BY <1>1, <2>1, <2>3 DEF BInv, CursorInv, MemOnce
      <4>3. mem[g].c \in Nat /\ mem[g].size \in Nat
        BY <1>1, MemNats
      <4> QED
        BY <4>1, <4>2, <4>3
    <3>2. CASE g # f0
      <4>1. Open(g)
        BY <1>1, <2>1, <2>2, <2>3, <3>2, OpenStays, SegsFacts
      <4> QED
        BY <2>1, <2>3, <4>1 DEF MemReset
    <3> QED
      BY <3>1, <3>2
  <2>4. (hdr[at] = Wanted(at))'
    BY <2>1, <2>2 DEF Wanted
  <2>5. \A f \in Unrepaired' : f <= at'
    <3>1. \A f \in files : f # f0 => (f \in Unrepaired' <=> f \in Unrepaired)
      BY <1>1, <2>1, <2>2, SegsFacts DEF Unrepaired, Wanted
    <3>2. f0 <= f0
      BY Sizes
    <3> QED
      BY <2>1, <3>1, <3>2 DEF Unrepaired
  <2> QED
    BY <2>1, <2>3, <2>4, <2>5 DEF MemReset
<1>6. CASE RepairFlushes
  <2>1. /\ at \in files /\ at \in Segs /\ phase = "flush" /\ phase' = "repair" /\ hdr' = hdr
              /\ UNCHANGED <<files, data>>
        /\ \A f \in Segs : mem'[f].c = mem[f].c /\ (f # at => len'[f] = len[f])
    BY <1>1, <1>6, RepairedAt, FlushedSize
  <2>2. ASSUME NEW f \in files, NEW g \in files, g < f, Open(g)' PROVE mem'[f].c = 0
    <3>0. mem'[f].c = mem[f].c /\ g \in Segs
      BY <1>1, <2>1, SegsFacts
    <3>1. CASE g = at
      <4>1. mem[g].c < mem[g].size
        BY <1>1, <1>6, <2>1, <2>2, <3>1, RepairOpen DEF MemReset
      <4>2. mem[g].c = mem[g].size \/ mem[f].c = 0
        BY <1>1, <2>1, <2>2 DEF BInv, CursorInv, MemOnce
      <4>3. mem[g].c \in Nat /\ mem[g].size \in Nat
        BY <1>1, MemNats
      <4> QED
        BY <3>0, <4>1, <4>2, <4>3
    <3>2. CASE g # at
      <4>1. Open(g)
        BY <2>1, <2>2, <3>0, <3>2, OpenStays
      <4> QED
        BY <2>1, <2>2, <3>0, <4>1 DEF MemReset
    <3> QED
      BY <3>1, <3>2
  <2> QED
    BY <2>1, <2>2 DEF MemReset
<1>7. CASE phase' \in {"repair", "flush"}
  <2>1. phase' \in Loads /\ BInv'
    BY <1>1, <1>7, BInvNext DEF Loads
  <2>2. files' # {}
    BY <1>7, <2>1 DEF BInv, ControlInv, Phased
  <2>3. \/ UNCHANGED vars \/ LoadDrops \/ LoadKeeps \/ LoadConcludes
        \/ (\E g \in Segs : RepairWrites(g)) \/ RepairFlushes
    BY <1>1, <2>1, <2>2, LoadingSteps
  <2>4. ~LoadDrops /\ ~LoadKeeps
    BY <1>7 DEF LoadDrops, LoadKeeps, LoadNext
  <2>5. LoadConcludes => phase' = "repair"
    BY <1>7 DEF LoadConcludes
  <2> QED
    BY <1>3, <1>4, <1>5, <1>6, <2>3, <2>4, <2>5
<1> QED
  BY <1>2, <1>7

\* The steps after which the queue is neither open nor being made
LEMMA ShutSteps ==
    ASSUME BInv, [Next]_vars, phase' \notin {"open", "fresh"}
    PROVE  \/ UNCHANGED vars \/ Crash \/ PowerLoss \/ Lefts \/ OpenBegins \/ LoadDrops \/ LoadKeeps
           \/ LoadConcludes \/ (\E g \in Segs : RepairWrites(g)) \/ RepairFlushes
<1>1. Running => phase' \in {"open", "fresh"}
  <2>1. making # None => phase \in {"open", "fresh"}
    BY DEF BInv, ControlInv, Phased, Phases
  <2> QED
    BY <2>1 DEF Running, AddStages, AddDiscards, AddPublishes, AddSettles, FlushAll, FlushOne,
                CommitWrites,
       CommitFlushes, CycleDrops, CreateLinks, CreateReserves, CreateWrites, CreateSyncs, CreateEnds, Idle, Free, Linked
<1>2. OpenReturns => phase' = "open"
  BY DEF OpenReturns
<1> QED
  BY <1>1, <1>2 DEF Next, Failing, Loading, Lefts

\* While the queue is open nothing behind an open segment is retired
LEMMA OpenQuiet == BInv /\ AllLive /\ phase = "open" => OpenFirst
<1> SUFFICES ASSUME BInv, AllLive, phase = "open", NEW f \in Visible, NEW g \in Visible, g < f, Open(g),
                    hdr[f].kind = "ok", hdr[f].c > 0
             PROVE  FALSE
  BY DEF OpenFirst
<1>1. /\ f \in Segs /\ g \in Segs /\ hdr[f] \in Headers /\ hdr[g] \in Headers /\ Numbers /\ Made
            /\ Believed
      /\ hdr[f].c \in Nat /\ hdr[g].c \in Nat /\ hdr[g].w \in Nat /\ len[g] \in Nat /\ f \in Nat
            /\ g \in Nat
  BY HeaderIs, Sizes DEF Visible, BInv, DiskInv, DiskTypes, ControlInv, CursorInv
<1>2. f # making
  <2>1. SUFFICES ASSUME f = making PROVE FALSE
    OBVIOUS
  <2>2. making # None /\ entry[making] = "new"
    BY <1>1, <2>1, Sizes DEF Numbers, Visible
  <2>3. hdr[f] \in {Broken("zero"), Header(0, 0, 0, 0)}
    BY <1>1, <2>1, <2>2 DEF Made, Linked
  <2> QED
    BY <1>1, <2>3 DEF Broken, Header
<1>3. g # making
  <2>1. SUFFICES ASSUME g = making PROVE FALSE
    OBVIOUS
  <2>2. making # None /\ making = nextNum /\ f < nextNum
    BY <1>1, <1>2, <2>1, Sizes DEF Numbers, Numbered
  <2> QED
    BY <1>1, <2>1, <2>2
<1>4. f \in files /\ g \in files
  BY <1>2, <1>3 DEF AllLive
<1>5. hdr[g].kind = "ok" /\ Hdr + hdr[g].w <= len[g]
  BY <1>1, <1>4 DEF Believed
<1>6. hdr[g].c < hdr[g].w
  BY <1>1, <1>5, OpenLooks
<1>7. hdr[g].c = hdr[g].w \/ hdr[f].c = 0
  BY <1>4 DEF BInv, CursorInv, OneAtWork
<1> QED
  BY <1>1, <1>6, <1>7

LEMMA OpenFirstNext ==
    ASSUME PInv, LeftFirm, AllLive, MemReset, OpenFirst, [Next]_vars
    PROVE  OpenFirst'
<1>1. BInv /\ BInv' /\ AllLive' /\ DiskTypes /\ Phased
  BY BInvNext, AllLiveNext DEF PInv, BInv, DiskInv, ControlInv
<1>2. CASE phase' = "open"
  <2>1. (BInv /\ AllLive /\ phase = "open" => OpenFirst)'
    BY OpenQuiet, PTL
  <2> QED
    BY <1>1, <1>2, <2>1
<1>3. CASE phase' = "fresh"
  <2>1. Visible' \subseteq {making'} /\ Visible' \subseteq Nat
    BY <1>1, <1>3, Sizes DEF BInv, ControlInv, Numbers, Visible
  <2> QED
    BY <2>1 DEF OpenFirst
<1>4. ASSUME phase' \notin {"open", "fresh"}, NEW f \in Visible', NEW g \in Visible', g < f, Open(g)',
             hdr'[f].kind = "ok", hdr'[f].c > 0
      PROVE  Firm(g)'
  <2>0. f \in Segs /\ g \in Segs /\ f # g
    BY <1>4, Sizes DEF Visible
  <2>1. CASE /\ hdr'[f] = hdr[f] /\ hdr'[g] = hdr[g] /\ len'[g] = len[g] /\ hdrs'[g] = hdrs[g]
                /\ lens'[g] = lens[g] /\ data'[g] = data[g] /\ disk'[g] = disk[g]
             /\ f \in Visible /\ g \in Visible
    <3>1. Open(g)
      BY <1>4, <2>1, OpenStays
    <3>2. Firm(g)
      BY <1>4, <2>1, <3>1 DEF OpenFirst
    <3> QED
      BY <2>1, <3>2 DEF Firm
  <2>2. CASE UNCHANGED fs
    BY <2>1, <2>2 DEF fs, Visible
  <2>3. CASE UNCHANGED vars \/ Crash \/ PowerLoss \/ OpenBegins \/ LoadKeeps \/ LoadConcludes
    BY <2>2, <2>3 DEF vars, Crash, PowerLoss, Dies, OpenBegins, LoadKeeps, LoadConcludes
  <2>4. CASE LoadDrops
    <3>1. UNCHANGED <<len, lens, hdr, hdrs, data, disk>>
      BY <2>4 DEF LoadDrops
    <3>2. \A x \in Segs : x \in Visible' => x \in Visible
      <4>1. entry \in [Segs -> Entries] /\ ~FlushAll /\ ~CreateEnds /\ ~CreateLinks /\ ~PowerLossLeaves
        BY <1>1, <2>4 DEF DiskTypes, Entries, LoadDrops, FlushAll, Idle, CreateEnds, CreateLinks,
                          PowerLossLeaves, Linked, Phased
      <4> QED
        BY <1>1, <4>1, EntrySteps, DurableEntries DEF Visible
    <3> QED
      BY <2>0, <2>1, <3>1, <3>2
  <2>5. CASE PowerLossLeaves
    <3>1. at \in Segs /\ phase = "losing"
      BY <1>1, <2>5 DEF PowerLossLeaves, Phased
    <3>2. PICK e, l, h, d : Left(at, e, l, h, d)
      BY <2>5 DEF PowerLossLeaves
    <3>3. \A x \in Segs : x # at => hdr'[x] = hdr[x] /\ hdrs'[x] = hdrs[x] /\ len'[x] = len[x]
             /\ lens'[x] = lens[x] /\ entry'[x] = entry[x] /\ data'[x] = data[x] /\ disk'[x] = disk[x]
      BY <1>1, <3>2 DEF Left, DiskTypes
    <3>4. CASE g = at
      BY <1>1, <3>1, <3>2, <3>4, LeftAt DEF Firm
    <3>5. CASE g # at /\ f # at
      BY <2>0, <2>1, <3>3, <3>5 DEF Visible
    <3>6. CASE f = at
      <4>1. g # at /\ g \in Visible
        BY <2>0, <3>3, <3>6 DEF Visible
      <4>2. Firm(g)
        BY <1>4, <3>1, <3>6, <4>1 DEF LeftFirm
      <4> QED
        BY <2>0, <3>3, <4>1, <4>2 DEF Firm
    <3> QED
      BY <3>4, <3>5, <3>6
  <2>6. ASSUME NEW x \in Segs, NEW l, NEW h, Struck(x, l, h), h = hdr[x] \/ h.kind # "ok" PROVE Firm(g)'
    <3>1. Left(x, entry[x], l, h, data[x])
      BY <2>6 DEF Struck
    <3>2. \A y \in Segs : /\ entry'[y] = entry[y]
                          /\ y # x => hdr'[y] = hdr[y] /\ hdrs'[y] = hdrs[y] /\ len'[y] = len[y]
                                /\ lens'[y] = lens[y] /\ data'[y] = data[y] /\ disk'[y] = disk[y]
      BY <1>1, <3>1 DEF Left, DiskTypes
    <3>3. f \in Visible /\ g \in Visible
      BY <2>0, <3>2 DEF Visible
    <3>4. CASE g = x
      BY <1>1, <3>1, <3>4, LeftAt DEF Firm
    <3>5. CASE g # x
      <4>1. hdr'[f] = hdr[f]
        <5>1. CASE f = x
          <6>1. hdr'[f] = h \/ hdr'[f] = Broken("zero")
            BY <1>1, <3>1, <5>1, LeftAt
          <6> QED
            BY <1>4, <2>6, <5>1, <6>1 DEF Broken
        <5> QED
          BY <2>0, <3>2, <5>1
      <4> QED
        BY <2>0, <2>1, <3>2, <3>3, <3>5, <4>1
    <3> QED
      BY <3>4, <3>5
  <2>7. CASE Lefts
    <3>1. ASSUME NEW x \in Segs, NEW l \in 0 .. Full - 1, Cut(x, l) PROVE Firm(g)'
      <4>1. PICK h : h = (IF l < Hdr THEN Broken("zero") ELSE hdr[x]) /\ Struck(x, l, h)
        BY <3>1 DEF Cut
      <4> QED
        BY <2>6, <4>1 DEF Broken
    <3>2. ASSUME NEW x \in Segs, NEW kind \in {"zero", "garbage", "torn", "foreign"}, Overwritten(x, kind)
          PROVE Firm(g)'
      <4>1. Struck(x, len[x], Broken(kind)) /\ Broken(kind).kind # "ok"
        BY <3>2 DEF Overwritten, Broken
      <4> QED
        BY <2>6, <4>1
    <3> QED
      BY <2>5, <2>7, <3>1, <3>2 DEF Lefts
  <2>8. ASSUME phase \in {"repair", "flush"}, UNCHANGED <<entry, files>> PROVE f \in files
           /\ g \in files /\ f \in Visible /\ g \in Visible
    <3>1. f \in Visible /\ g \in Visible
      BY <1>4, <2>8 DEF Visible
    <3>2. making = None
      BY <1>1, <2>8 DEF Phased
    <3> QED
      BY <2>0, <2>8, <3>1, <3>2, Sizes DEF AllLive
  <2>9. ASSUME NEW x \in Segs, RepairWrites(x) PROVE Firm(g)'
    <3>1. /\ x \in files /\ phase = "repair" /\ (\A y \in Unrepaired : y <= x)
                /\ UNCHANGED <<len, lens, data, disk, mem, files, entry>>
          /\ hdr'[x].c = mem[x].c
      BY <1>1, <2>9, RepairsAt
    <3>2. \A y \in Segs : y # x => hdr'[y] = hdr[y] /\ hdrs'[y] = hdrs[y]
      BY <1>1, <2>9 DEF RepairWrites, WriteHeader, DiskTypes
    <3>3. f \in files /\ g \in files /\ f \in Visible /\ g \in Visible
      BY <2>8, <3>1
    <3>4. CASE f = x
      <4>1. Open(g)
        BY <1>4, <2>0, <3>1, <3>2, <3>4, OpenStays
      <4>2. mem[f].c = 0
        BY <1>4, <3>1, <3>3, <4>1 DEF MemReset
      <4> QED
        BY <1>4, <3>1, <3>4, <4>2
    <3>5. CASE g = x
      <4>1. mem[g].c < mem[g].size /\ mem[g].c \in Nat /\ mem[g].size \in Nat
        BY <1>1, <1>4, <2>9, <3>1, <3>5, RepairOpen, MemNats
      <4>2. mem[g].c = mem[g].size \/ mem[f].c = 0
        BY <1>1, <1>4, <3>1, <3>3 DEF BInv, CursorInv, MemOnce
      <4>3. f \notin Unrepaired
        BY <1>4, <2>0, <3>1, <3>5, Sizes
      <4>4. hdr[f] = Wanted(f) /\ hdr'[f] = hdr[f]
        BY <2>0, <3>2, <3>3, <3>5, <4>3 DEF Unrepaired
      <4>5. hdr'[f].c = mem[f].c
        BY <4>4 DEF Wanted, Header
      <4> QED
        BY <1>4, <4>1, <4>2, <4>5
    <3>6. CASE f # x /\ g # x
      BY <2>0, <2>1, <3>1, <3>2, <3>3, <3>6
    <3> QED
      BY <3>4, <3>5, <3>6
  <2>10. CASE RepairFlushes
    <3>1. /\ at \in files /\ at \in Segs /\ phase = "flush" /\ hdr' = hdr
          /\ UNCHANGED <<files, entry, data>>
      BY <1>1, <2>10, RepairedAt
    <3>2. \A y \in Segs : y # at => hdrs'[y] = hdrs[y] /\ lens'[y] = lens[y] /\ len'[y] = len[y]
                                    /\ disk'[y] = disk[y]
      BY <1>1, <2>10, <3>1 DEF RepairFlushes, DiskTypes
    <3>3. f \in files /\ g \in files /\ f \in Visible /\ g \in Visible
      BY <2>8, <3>1
    <3>4. CASE g # at
      BY <2>0, <2>1, <3>1, <3>2, <3>3, <3>4
    <3>5. CASE g = at
      <4>1. mem[g].c < mem[g].size /\ mem[g].c \in Nat /\ mem[g].size \in Nat
        BY <1>1, <1>4, <2>10, <3>1, <3>5, RepairOpen, MemNats DEF MemReset
      <4>2. mem[g].c = mem[g].size \/ mem[f].c = 0
        BY <1>1, <1>4, <3>1, <3>3 DEF BInv, CursorInv, MemOnce
      <4>3. f \notin Unrepaired
        <5>1. \A y \in Unrepaired : y <= at
          BY <3>1 DEF MemReset
        <5> QED
          BY <1>4, <2>0, <3>5, <5>1, Sizes
      <4>4. hdr[f] = Wanted(f) /\ hdr'[f] = hdr[f]
        BY <3>1, <3>3, <4>3 DEF Unrepaired
      <4>5. hdr'[f].c = mem[f].c
        BY <4>4 DEF Wanted, Header
      <4> QED
        BY <1>4, <4>1, <4>2, <4>5
    <3> QED
      BY <3>4, <3>5
  <2> QED
    BY <1>1, <1>4, <2>3, <2>4, <2>7, <2>9, <2>10, ShutSteps
<1>5. CASE phase' \notin {"open", "fresh"}
  BY <1>4, <1>5 DEF OpenFirst
<1> QED
  BY <1>2, <1>3, <1>5

LEMMA MemSparesNext ==
    ASSUME PInv, Slotted, Plainly, MemRead, MemSpares, Chased, [Next]_vars
    PROVE  MemSpares'
<1> SUFFICES ASSUME phase' \in {"repair", "flush"}, NEW f \in files', NEW k \in Slots, NEW r \in Due',
                    r \in disk'[f][k]
             PROVE  mem'[f].c < Unit * k
  BY DEF MemSpares
<1>1. BInv /\ r \in Recs /\ phase' \in Loads /\ BInv'
  BY BInvNext DEF PInv, Due, Loads
<1>2. \/ UNCHANGED vars \/ LoadConcludes \/ (\E g \in Segs : RepairWrites(g)) \/ RepairFlushes
  <2>1. ~LoadDrops /\ ~LoadKeeps
    BY DEF LoadDrops, LoadKeeps, LoadNext
  <2> QED
    BY <1>1, <2>1, LoadingSteps
<1>3. f \in files /\ f \in Segs /\ files' = files
  <2>1. files' = files
    BY <1>2 DEF vars, store, LoadConcludes, RepairWrites, RepairFlushes
  <2> QED
    BY <1>1, <2>1, SegsFacts
<1>4. r \in disk[f][k]
  <2>1. ~AddStages
    BY DEF AddStages, Idle
  <2> QED
    BY <1>1, <1>3, <2>1, OldSlot
<1>5. CASE r \in Due /\ phase \in {"repair", "flush"} /\ mem'[f].c = mem[f].c
  BY <1>3, <1>4, <1>5 DEF MemSpares
<1>6. CASE UNCHANGED vars
  BY <1>5, <1>6 DEF vars, store, ghost, Due, Spent
<1>7. ASSUME NEW g \in Segs, RepairWrites(g) PROVE mem'[f].c < Unit * k
  <2>1. phase = "repair" /\ UNCHANGED <<mem, promised, Spent, adding>>
    BY <1>1, <1>7, RepairsAt DEF Spent
  <2> QED
    BY <1>5, <2>1 DEF Due
<1>8. CASE RepairFlushes
  <2>1. phase = "flush" /\ UNCHANGED <<promised, Spent, adding>> /\ mem'[f].c = mem[f].c
    BY <1>1, <1>3, <1>8, RepairedAt DEF Spent
  <2> QED
    BY <1>5, <2>1 DEF Due
<1>9. CASE LoadConcludes
  <2>1. phase = "conclude" /\ phase \in Loads /\ files # {} /\ mem'[f] = Reconciled(f)
    BY <1>3, <1>9 DEF LoadConcludes, Loads
  <2>2. r \in Due \/ Replayed(r)
    BY <1>1, <1>9, DueSteps DEF LoadConcludes, AddStages, Idle, Flushed, FlushAll
  <2>3. CASE Replayed(r)
    <3>1. PICK g \in files : r \in Between(g, mem'[g].c, mem'[g].size)
      BY <2>3 DEF Replayed
    <3> QED
      BY <1>1, <1>3, <1>4, <3>1, BetweenAt, SegsFacts
  <2>4. CASE r \in Due
    <3>1. SUFFICES ASSUME ~(mem'[f].c < Unit * k) PROVE FALSE
      OBVIOUS
    <3>2. mem[f].c \in Nat /\ k \in Nat /\ k > 0 /\ Unit = 2
      BY <1>1, <1>3, MemNats, Sizes
    <3>3. mem'[f].c # 0
      BY <3>1, <3>2
    <3>4. mem'[f].c = mem[f].c /\ \A g \in files : g < f => ~AtCursor(g)
      BY <1>1, <1>3, <2>1, <3>3, ReconciledCursor
    <3>5. /\ hdr[f].kind \in {"torn", "ok"} /\ (hdr[f].kind = "torn" => mem[f].c = 0)
          /\ (hdr[f].kind = "ok" => mem[f].c <= hdr[f].c)
      BY <1>1, <1>3, <2>1, ReadIs
    <3>6. hdr[f].kind = "ok" /\ mem[f].c <= hdr[f].c
      BY <3>3, <3>4, <3>5
    <3>7. hdr[f].c \in Nat /\ hdr[f] \in hdrs[f]
      BY <1>1, <1>3, HeaderIs DEF BInv, DiskInv, DiskTypes, Cached
    <3>8. Unit * k <= hdr[f].c
      BY <3>1, <3>2, <3>4, <3>6, <3>7
    <3>9. Stale(f)
      BY <1>4, <2>4, <3>6, <3>7, <3>8 DEF Stale, Retires
    <3>10. PICK g \in Visible : g < f /\ Witness(g)
      BY <1>3, <3>9 DEF Chased
    <3>11. g \in files /\ Open(g)
      BY <1>1, <2>1, <3>10 DEF Witness, BInv, ControlInv, Numbers
    <3>12. AtCursor(g)
      BY <1>1, <2>1, <3>11, ReadIs
    <3> QED
      BY <3>4, <3>10, <3>11, <3>12
  <2> QED
    BY <2>2, <2>3, <2>4
<1> QED
  BY <1>2, <1>6, <1>7, <1>8, <1>9

\* A header that retires what is due was there before
LEMMA StaleWas ==
    ASSUME PInv, Slotted, Plainly, MemSpares, Chased, [Next]_vars, NEW f \in Segs, NEW k \in Slots,
           NEW r \in Due', r \in Due, r \in disk'[f][k], r \in disk[f][k], NEW h \in hdrs'[f], Retires(h, k)
    PROVE  h \in hdrs[f] /\ Stale(f)
<1>0. BInv /\ DiskTypes /\ Cached /\ k \in Nat /\ k > 0 /\ Unit = 2
  BY Sizes DEF PInv, BInv, DiskInv
<1>1. BInv /\ DiskTypes /\ Cached /\ hdr[f] \in hdrs[f] /\ hdr[f].c \in Nat /\ k \in Nat /\ k > 0
         /\ Unit = 2
  BY <1>0, HeaderIs DEF DiskTypes, Cached
<1>2. data[f][k] = r /\ r \in Recs
  BY DEF Plainly, Due
<1>3. CASE h \in hdrs[f]
  BY <1>3 DEF Stale
<1>4. CASE h \notin hdrs[f]
  <2>0. phase = "open" => ~Stale(f)
    BY DEF Chased
  <2>1. CASE Same(f)
    BY <1>1, <1>4, <2>1 DEF Same
  <2>2. CASE Stages(f)
    BY <1>4, <2>2 DEF Stages, AddStages
  <2>3. CASE Announces(f)
    <3>1. AddPublishes /\ f = active /\ phase = "open"
      BY <2>3 DEF Announces, AddPublishes, Idle
    <3>2. hdr[f].kind = "ok"
      BY <1>1, <3>1, PublishedNow
    <3>3. PICK j : /\ j = [hdr[f] EXCEPT !.w = @ + Unit, !.nw = @ + 1]
                   /\ hdrs' = [hdrs EXCEPT ![f] = {hdr[f], j}]
                         \/ hdrs' = [hdrs EXCEPT ![f] = @ \union {j}]
      BY <3>1 DEF AddPublishes, Publishes
    <3>4. h = j
      BY <1>1, <1>4, <3>3 DEF DiskTypes
    <3>5. h.c = hdr[f].c
      BY <1>1, <3>3, <3>4 DEF DiskTypes, Headers
    <3>6. Stale(f)
      BY <1>1, <3>2, <3>5 DEF Stale, Retires
    <3> QED
      BY <2>0, <3>1, <3>6
  <2>4. CASE CommitWrites(f)
    <3>1. /\ phase = "open" /\ hdr[f].kind = "ok" /\ h = hdr'[f] /\ h.c = hdr[f].c + Unit
          /\ Spent' = Spent \union Between(f, hdr[f].c, h.c)
      BY <1>1, <1>4, <2>4, CommitsAt DEF Spent
    <3>2. CASE Unit * k <= hdr[f].c
      <4>1. Stale(f)
        BY <1>1, <3>1, <3>2 DEF Stale, Retires
      <4> QED
        BY <2>0, <3>1, <4>1
    <3>3. CASE ~(Unit * k <= hdr[f].c)
      <4>1. hdr[f].c < Unit * k /\ Unit * k <= h.c
        BY <1>1, <3>3 DEF Retires
      <4>2. r \in Between(f, hdr[f].c, h.c)
        BY <1>2, <4>1, Sizes DEF Between
      <4> QED
        BY <3>1, <4>2 DEF Due
    <3> QED
      BY <3>2, <3>3
  <2>5. CASE Creates(f)
    <3>1. h \in {Broken("zero"), Header(0, 0, 0, 0)}
      BY <1>1, <1>4, <2>5, CreatesAt
    <3> QED
      BY <1>1, <3>1 DEF Broken, Header, Retires
  <2>6. CASE LeftAs(f)
    <3>1. PICK e, l, o, d : Left(f, e, l, o, d) /\ Remains(f, o, d)
      BY <2>6 DEF LeftAs
    <3>2. h = hdr'[f] /\ (hdr'[f] = o \/ hdr'[f] = Broken("zero"))
      BY <1>1, <3>1, LeftAt
    <3> QED
      BY <1>4, <3>1, <3>2 DEF Remains, Broken, Retires
  <2>7. CASE RepairWrites(f)
    <3>1. f \in files /\ phase = "repair" /\ h = Wanted(f) /\ h.c = mem[f].c
      BY <1>1, <1>4, <2>7, RepairsAt
    <3>2. mem[f].c < Unit * k /\ mem[f].c \in Nat
      BY <1>1, <3>1, MemNats DEF MemSpares
    <3> QED
      BY <1>1, <3>1, <3>2 DEF Retires
  <2>8. CASE RepairFlushes /\ f = at
    BY <1>1, <1>4, <2>8, RepairedAt
  <2> QED
    BY <1>1, <2>1, <2>2, <2>3, <2>4, <2>5, <2>6, <2>7, <2>8, SegSteps
<1> QED
  BY <1>3, <1>4

\* and what is due was due before, unless load has just found that it is
LEMMA StaleSteps ==
    ASSUME PInv, Slotted, Plainly, MemSpares, Chased, [Next]_vars, NEW f \in Segs, NEW k \in Slots,
           NEW r \in Due', r \in disk'[f][k], NEW h \in hdrs'[f], Retires(h, k)
    PROVE  r \in disk[f][k] /\ h \in hdrs[f] /\ ((r \in Due /\ Stale(f)) \/ Replayed(r))
<1>1. BInv /\ DiskTypes /\ Cached /\ r \in Recs /\ k \in Nat /\ Unit = 2
  BY Sizes DEF PInv, BInv, DiskInv, Due
<1>2. CASE AddStages /\ f = active /\ k = hdr[f].nw + 1
  <2>1. f \in files /\ f \in Segs /\ phase = "open" /\ Unit * k = hdr[f].w + Unit /\ hdrs' = hdrs
           /\ hdr[f].kind = "ok"
    BY <1>1, <1>2, StagesAt
  <2>2. h \in hdrs[f] /\ h \in Headers /\ Sane(h) /\ h.kind = "ok"
    BY <1>1, <2>1 DEF Retires, BInv, DiskInv, HeadersSane, DiskTypes
  <2>3. h.w <= hdr[f].w
    BY <2>1, <2>2 DEF PInv, Widths, Widest
  <2>4. h.w = Unit * h.nw /\ h.c = Unit * h.nc /\ h.nc <= h.nw /\ h.nc \in Nat /\ h.nw \in Nat
           /\ hdr[f].w \in Nat
    BY <1>1, <2>1, <2>2, HeaderIs DEF Sane, DiskTypes
  <2>5. Unit * k <= h.c
    BY DEF Retires
  <2> QED
    BY ONLY <1>1, <2>1, <2>3, <2>4, <2>5
<1>3. CASE ~(AddStages /\ f = active /\ k = hdr[f].nw + 1)
  <2>1. r \in disk[f][k]
    BY <1>1, <1>3, OldSlot
  <2>2. CASE r \in Due
    BY <2>1, <2>2, StaleWas
  <2>3. CASE AddStages /\ r = Len(home) + 1
    <3>1. r \in 1 .. Len(home) /\ Len(home) \in Nat
      BY <1>1, <2>1 DEF PInv, Homed, BInv, ControlInv, Plain
    <3> QED
      BY <2>3, <3>1
  <2>4. CASE Flushed(r)
    <3>1. PICK g \in dirty \intersect files : r \in Backlog(g)
      BY <2>4 DEF Flushed
    <3>2. g \in Segs /\ hdrs'[g] = {hdr[g]}
      BY <1>1, <2>4, <3>1, SegsFacts DEF Flushed, FlushAll
    <3>3. f = g /\ hdr[g].c < Unit * k
      BY <1>1, <2>1, <3>1, <3>2, BetweenAt DEF Backlog
    <3>4. h = hdr[g] /\ hdr[g].c \in Nat
      BY <1>1, <3>2, <3>3, HeaderIs DEF DiskTypes
    <3> QED
      BY <1>1, <3>3, <3>4 DEF Retires
  <2>5. CASE Replayed(r)
    <3>1. hdrs' = hdrs
      BY <2>5 DEF Replayed, LoadConcludes, fs
    <3> QED
      BY <2>1, <2>5, <3>1
  <2> QED
    BY <1>1, <2>2, <2>3, <2>4, <2>5, DueSteps
<1> QED
  BY <1>2, <1>3

LEMMA WitnessStays ==
    ASSUME NEW g, hdr'[g] = hdr[g], hdrs'[g] = hdrs[g], len'[g] = len[g], lens'[g] = lens[g],
           entry'[g] = entry[g], data'[g] = data[g], disk'[g] = disk[g]
    PROVE  Witness(g)' <=> Witness(g)
  BY OpenStays DEF Witness, Firm

\* A witness has a header to go by
LEMMA WitnessIs ==
    ASSUME BInv, Alone, NEW g \in Segs, Witness(g)
    PROVE  /\ g \in Visible /\ hdr[g].kind \in {"torn", "ok"} /\ ~(len[g] < Hdr) /\ ~Unreadable(g)
       /\ ~Unfinished(g)
           /\ len[g] \in Nat /\ lens[g] = {len[g]} /\ hdrs[g] = {hdr[g]} /\ entry[g] = "here"
           /\ \A k \in Slots : disk[g][k] = {data[g][k]}
<1>1. /\ g \in Visible /\ lens[g] = {len[g]} /\ hdrs[g] = {hdr[g]} /\ len[g] \in Nat
      /\ entry[g] = "here" /\ \A k \in Slots : disk[g][k] = {data[g][k]}
  BY Sizes DEF Witness, Firm, Visible, BInv, DiskInv, DiskTypes
<1>2. hdr[g].kind \in {"torn", "ok"}
  BY DEF Witness, Open
<1>3. ~(len[g] < Hdr)
  BY <1>2 DEF Alone
<1>4. ~Unreadable(g) /\ ~Unfinished(g)
  BY <1>1, <1>2, <1>3, Sizes DEF Unreadable, Unfinished, Erased, AllZero
<1> QED
  BY <1>1, <1>2, <1>3, <1>4

\* A power loss leaves a witness as it is
LEMMA WitnessLeft ==
    ASSUME BInv, Alone, Trim, PowerLossLeaves, NEW g \in Segs, Witness(g)
    PROVE  Witness(g)'
<1>0. at \in Segs /\ DiskTypes
  BY DEF PowerLossLeaves, BInv, ControlInv, Phased, DiskInv
<1>1. CASE g # at
  <2>1. PICK e, l, h, d : Left(at, e, l, h, d)
    BY DEF PowerLossLeaves
  <2>2. hdr'[g] = hdr[g] /\ hdrs'[g] = hdrs[g] /\ len'[g] = len[g] /\ lens'[g] = lens[g]
           /\ entry'[g] = entry[g] /\ data'[g] = data[g] /\ disk'[g] = disk[g]
    BY <1>0, <1>1, <2>1 DEF Left, DiskTypes
  <2> QED
    BY <2>2, WitnessStays
<1>2. CASE g = at
  <2>1. /\ lens[g] = {len[g]} /\ hdrs[g] = {hdr[g]} /\ entry[g] = "here" /\ ~(len[g] < Hdr)
              /\ len[g] \in Nat
        /\ \A k \in Slots : disk[g][k] = {data[g][k]}
    BY WitnessIs
  <2>2. PICK e \in CASE entry[at] = "here" -> {"here"} [] entry[at] = "none" -> {"none"}
                  [] OTHER -> {"here", "none"} :
            \E l \in (IF e = "none" THEN {0} ELSE lens[at]) :
            \E h \in (IF l < Hdr THEN {Broken("zero")} ELSE HeaderLeft(at)) :
            \E d \in (IF l = 0 THEN {Blank}
                     ELSE {d \in [Slots -> UNION {SlotLeft(at, k) : k \in Slots}] :
                             \A k \in Slots : d[k] \in SlotLeft(at, k)}) :
                Left(at, e, l, h, d)
    BY DEF PowerLossLeaves
  <2>3. e = "here"
    BY <1>2, <2>1, <2>2
  <2>4. PICK l \in lens[at] :
            \E h \in (IF l < Hdr THEN {Broken("zero")} ELSE HeaderLeft(at)) :
            \E d \in (IF l = 0 THEN {Blank}
                     ELSE {d \in [Slots -> UNION {SlotLeft(at, k) : k \in Slots}] :
                             \A k \in Slots : d[k] \in SlotLeft(at, k)}) :
                Left(at, e, l, h, d)
    BY <2>2, <2>3
  <2>5. l = len[g]
    BY <1>2, <2>1, <2>4
  <2>6. PICK h \in HeaderLeft(at) :
            \E d : /\ \A k \in Slots : d[k] \in SlotLeft(at, k)
                  /\ Left(at, e, l, h, d)
    BY <2>1, <2>4, <2>5, Sizes
  <2>7. HeaderLeft(at) = {hdr[g]}
    <3>1. Cardinality({hdr[g]}) = 1
      BY FS_Singleton
    <3> QED
      BY <1>2, <2>1, <3>1 DEF HeaderLeft
  <2>8. PICK d : (\A k \in Slots : d[k] \in SlotLeft(at, k)) /\ Left(at, e, l, h, d)
    BY <2>6
  <2>9. l > 0
    BY <2>1, <2>5, Sizes
  <2>10. /\ hdrs'[g] = {hdr'[g]} /\ lens'[g] = {len'[g]} /\ entry'[g] = "here" /\ len'[g] = l
               /\ hdr'[g] = h /\ data'[g] = Within(d, l)
         /\ \A k \in Slots : disk'[g][k] = {data'[g][k]}
    BY <1>0, <1>2, <2>3, <2>8, <2>9, LeftAt
  <2>11. hdr'[g] = hdr[g] /\ len'[g] = len[g] /\ hdrs'[g] = hdrs[g] /\ lens'[g] = lens[g]
            /\ entry'[g] = entry[g]
    BY <2>1, <2>5, <2>6, <2>7, <2>10
  <2>12. ASSUME NEW k \in Slots PROVE Within(d, l)[k] = data[g][k]
    <3>1. d[k] = data[g][k]
      <4>1. Cardinality({data[g][k]}) = 1
        BY FS_Singleton
      <4>2. SlotLeft(g, k) = {data[g][k]}
        BY <2>1, <4>1 DEF SlotLeft
      <4> QED
        BY <1>2, <2>8, <4>2
    <3>2. \/ data[g][k] = None \/ Hdr + Unit * k <= l
          \/ data[g][k] = Junk /\ Hdr + Unit * (k - 1) < l
      BY <2>5 DEF Trim
    <3> QED
      BY <3>1, <3>2, Sizes DEF Within
  <2>13. data'[g] = data[g] /\ disk'[g] = disk[g]
    <3>1. data[g] \in [Slots -> Cells] /\ disk[g] \in [Slots -> SUBSET Cells]
          /\ disk'[g] = [k \in Slots |-> {data'[g][k]}]
      BY <1>0, <1>2, <2>8 DEF DiskTypes, Left
    <3>2. data'[g] = [k \in Slots |-> data[g][k]]
      BY <2>10, <2>12 DEF Within
    <3>3. data'[g] = data[g]
      BY <3>1, <3>2
    <3>4. \A k \in Slots : disk'[g][k] = disk[g][k]
      BY <2>1, <2>10, <3>3
    <3> QED
      BY <3>1, <3>3, <3>4
  <2> QED
    BY <2>11, <2>13, WitnessStays
<1> QED
  BY <1>1, <1>2

\* Load finds that what a settled header retires is due, out of a segment behind the cursor
LEMMA ChasedReplay ==
    ASSUME PInv, Slotted, NewLast, MemRead, OpenFirst, [Next]_vars, NEW f \in Segs, NEW k \in Slots,
           NEW r \in Recs, r \in disk[f][k], NEW h \in hdrs[f], Retires(h, k), Replayed(r)
    PROVE  /\ f \in Visible' /\ phase' = "repair" /\ f \in Unrepaired'
           /\ \E g \in Visible' : g < f /\ Witness(g)'
<1>1. PICK f1 \in files : Settled(f1) /\ r \in Between(f1, mem'[f1].c, mem'[f1].size)
  BY DEF Replayed
<1>2. BInv /\ f1 \in Segs
  BY SegsFacts DEF PInv
<1>3. f1 = f /\ mem'[f].c < Unit * k /\ Unit * k <= mem'[f].size
  BY <1>1, <1>2, BetweenAt
<1>4. /\ phase = "conclude" /\ phase \in Loads /\ files # {} /\ phase' = "repair"
            /\ UNCHANGED <<files, fs>>
      /\ mem'[f] = Reconciled(f) /\ f \in files /\ Settled(f)
  BY <1>1, <1>3 DEF Replayed, LoadConcludes, Loads
<1>5. h = hdr[f] /\ hdr[f].kind = "ok" /\ Unit * k <= hdr[f].c /\ entry[f] = "here"
  BY <1>4 DEF Settled, Retires
<1>6. mem'[f].size = mem[f].size
  BY <1>2, <1>4, ReconciledSize DEF Replayed
<1>7. /\ mem[f].c = (IF hdr[f].c <= mem[f].size THEN hdr[f].c ELSE mem[f].size) /\ mem[f].size \in Nat
  BY <1>2, <1>4, <1>5, ReadIs
<1>8. hdr[f].c \in Nat /\ k \in Nat /\ k > 0 /\ Unit = 2
  BY <1>2, HeaderIs, Sizes DEF BInv, DiskInv, DiskTypes
<1>9. Unit * k <= mem[f].c
  BY <1>3, <1>5, <1>6, <1>7, <1>8
<1>10. mem'[f].c # mem[f].c
  BY <1>3, <1>7, <1>8, <1>9
<1>11. mem'[f].c = 0 /\ \E g \in files : g < f /\ AtCursor(g)
  BY <1>2, <1>4, <1>10, ReconciledCursor
<1>12. PICK g \in files : g < f /\ AtCursor(g)
  BY <1>11
<1>13. Open(g)
  BY <1>2, <1>4, <1>12, ReadIs
<1>14. f \in Visible /\ g \in Visible /\ g \in Segs
  BY <1>2, <1>4, SegsFacts
<1>15. Firm(g)
  <2>1. hdr[f].c > 0
    BY <1>5, <1>8
  <2> QED
    BY <1>5, <1>12, <1>13, <1>14, <2>1 DEF OpenFirst
<1>16. entry[g] = "here"
  BY <1>5, <1>12, <1>14 DEF NewLast, Visible
<1>17. Witness(g)' /\ Visible' = Visible
  <2>1. Witness(g)
    BY <1>13, <1>15, <1>16 DEF Witness
  <2> QED
    BY <1>4, <2>1, WitnessStays DEF fs, Visible
<1>18. f \in Unrepaired'
  <2>1. Wanted(f)'.c = 0
    BY <1>11 DEF Wanted, Header
  <2>2. hdr'[f].c # 0
    BY <1>4, <1>5, <1>8 DEF fs
  <2> QED
    BY <1>4, <2>1, <2>2 DEF Unrepaired
<1> QED
  BY <1>4, <1>12, <1>14, <1>17, <1>18

LEMMA ChasedNext ==
    ASSUME PInv, Slotted, Trim, Alone, NewLast, MemRead, OpenFirst, MemReset, Plainly, MemSpares, Chased,
           StaleSettled, [Next]_vars
    PROVE  Chased'
<1> DEFINE Goal(f) == /\ f \in Visible' /\ phase' \notin {"open", "fresh"}
                      /\ \E g \in Visible' : g < f /\ Witness(g)'
                      /\ phase' \in {"repair", "flush"} => f \in Unrepaired' \/ (phase' = "flush"
                            /\ at' = f)
<1> SUFFICES ASSUME NEW f \in Segs, NEW k \in Slots, NEW r \in Due', r \in disk'[f][k],
                    NEW h \in hdrs'[f], Retires(h, k)
             PROVE  Goal(f)
  BY DEF Chased, Stale, Retires
<1>1. BInv /\ DiskTypes /\ r \in Recs /\ Numbers /\ Phased
  BY DEF PInv, BInv, DiskInv, Due, ControlInv
<1>2. r \in disk[f][k] /\ h \in hdrs[f] /\ ((r \in Due /\ Stale(f)) \/ Replayed(r))
  BY StaleSteps
<1>3. CASE Replayed(r)
  BY <1>1, <1>2, <1>3, ChasedReplay
<1>4. CASE r \in Due /\ Stale(f) /\ ~Replayed(r)
  <2>1. f \in Visible /\ phase \notin {"open", "fresh"}
    BY <1>4 DEF Chased
  <2>2. PICK g \in Visible : g < f /\ Witness(g)
    BY <1>4 DEF Chased
  <2>3. phase \in {"repair", "flush"} => f \in Unrepaired \/ (phase = "flush" /\ at = f)
    BY <1>4 DEF Chased
  <2>4. data[f][k] = r /\ g \in Segs /\ g # f /\ k \in Nat /\ k > 0 /\ Unit = 2
    BY <1>2, <1>4, <2>2, Sizes DEF Plainly, Visible
  <2>5. CASE f \in Visible' /\ g \in Visible' /\ Witness(g)'
                /\ phase' \notin {"open", "fresh", "repair", "flush"}
    BY <2>2, <2>5
  <2>6. CASE UNCHANGED fs /\ phase' \notin {"open", "fresh", "repair", "flush"}
    BY <2>1, <2>2, <2>5, <2>6, WitnessStays DEF fs, Visible
  <2>7. CASE UNCHANGED vars
    <3>1. Witness(g)' /\ Visible' = Visible /\ Unrepaired' = Unrepaired
      BY <2>2, <2>7, WitnessStays DEF vars, fs, store, Visible, Unrepaired, Wanted
    <3> QED
      BY <2>1, <2>2, <2>3, <2>7, <3>1 DEF vars
  <2>8. CASE Crash \/ PowerLoss
    BY <2>6, <2>8 DEF Crash, PowerLoss, Dies
  <2>9. CASE OpenBegins
    BY <2>1, <2>6, <2>9 DEF OpenBegins
  <2>10. CASE LoadKeeps
    BY <2>6, <2>10 DEF LoadKeeps, LoadNext
  <2>11. CASE LoadDrops
    <3>0. at \in Segs /\ phase = "load"
      BY <1>1, <2>11 DEF LoadDrops, Phased
    <3>1. g # at
      BY <1>1, <2>2, <2>4, <2>11, WitnessIs DEF LoadDrops
    <3>2. f # at
      <4>1. SUFFICES ASSUME f = at PROVE FALSE
        OBVIOUS
      <4>2. hdr[f].kind # "ok"
        <5>1. CASE Unfinished(f)
          BY <5>1, Sizes DEF Unfinished, Erased, AllZero, Alone
        <5>2. CASE Unreadable(f)
          BY <5>2 DEF Unreadable, Alone
        <5> QED
          BY <2>11, <4>1, <5>1, <5>2 DEF LoadDrops
      <4> QED
        BY <1>2, <4>2 DEF Alone, Retires
    <3>3. entry'[g] \in {entry[g], EntriesDurable(entry)[g]}
             /\ entry'[f] \in {entry[f], EntriesDurable(entry)[f]}
      <4>1. ~Drops /\ ~CreateLinks /\ ~PowerLossLeaves
        BY <1>1, <3>0 DEF Drops, CommitWrites, Free, Idle, CommitFlushes, CycleDrops, CreateLinks,
                          PowerLossLeaves, Phased
      <4> QED
        BY <1>1, <2>4, <3>1, <3>2, <4>1, EntrySteps
    <3>4. entry'[g] = entry[g] /\ f \in Visible' /\ g \in Visible'
      <4>1. entry \in [Segs -> Entries] /\ entry[g] = "here"
        BY <1>1, <2>2 DEF DiskTypes, Entries, Witness
      <4>2. EntriesDurable(entry)[g] = "here"
        BY <2>4, <4>1 DEF EntriesDurable
      <4>3. f \in Visible'
        BY <2>1, <3>3, <4>1, DurableEntries DEF Visible
      <4> QED
        BY <2>4, <3>3, <4>1, <4>2, <4>3 DEF Visible
    <3>5. UNCHANGED <<len, lens, hdr, hdrs, data, disk>> /\ phase' \in {"load", "conclude"}
      BY <2>11 DEF LoadDrops, LoadNext
    <3>6. Witness(g)'
      BY <2>2, <3>4, <3>5, WitnessStays
    <3> QED
      BY <2>5, <3>4, <3>5, <3>6
  <2>12. CASE PowerLossLeaves
    <3>0. at \in Segs /\ phase' \in {"losing", "off"}
      BY <1>1, <2>12 DEF PowerLossLeaves, Phased
    <3>1. Witness(g)'
      BY <1>1, <2>2, <2>4, <2>12, WitnessLeft
    <3>2. g \in Visible'
      BY <2>4, <3>1 DEF Witness, Visible
    <3>3. f \in Visible'
      <4>1. PICK e \in {"here", "none"} : \E l, o, d : Left(at, e, l, o, d)
        <5>1. PICK e \in CASE entry[at] = "here" -> {"here"} [] entry[at] = "none" -> {"none"}
                          [] OTHER -> {"here", "none"} : \E l, o, d : Left(at, e, l, o, d)
          BY <2>12 DEF PowerLossLeaves
        <5>2. e \in {"here", "none"}
          BY <5>1
        <5> QED
          BY <5>1, <5>2
      <4>2. PICK l, o, d : Left(at, e, l, o, d)
        BY <4>1
      <4>3. CASE f # at
        BY <1>1, <2>1, <3>0, <4>2, <4>3, LeftAt DEF Visible
      <4>4. CASE f = at /\ e = "none"
        <5>1. disk'[f][k] = {data'[f][k]} /\ data'[f] = Blank
          BY <1>1, <4>2, <4>4, LeftAt
        <5> QED
          BY <1>1, <5>1, Sizes DEF Blank
      <4>5. CASE f = at /\ e = "here"
        BY <1>1, <4>2, <4>5, LeftAt DEF Visible
      <4> QED
        BY <4>1, <4>3, <4>4, <4>5
    <3> QED
      BY <2>5, <3>0, <3>1, <3>2, <3>3
  <2>13. ASSUME NEW x, NEW l, NEW o, Struck(x, l, o) PROVE FALSE
    <3>1. Spent' = Spent \union UNION {UNION {Between(y, 0, j.c) : j \in hdrs[y]} : y \in Visible}
      BY <2>13 DEF Struck, Spent
    <3>2. r \in Between(f, 0, h.c)
      BY <1>1, <2>4, Sizes DEF Between, Retires
    <3>3. r \in Spent'
      BY <1>2, <2>1, <3>1, <3>2
    <3> QED
      BY <3>3 DEF Due
  <2>14. CASE Lefts
    BY <2>12, <2>13, <2>14 DEF Lefts, Cut, Overwritten
  <2>15. CASE LoadConcludes
    <3>1. /\ phase = "conclude" /\ phase \in Loads /\ UNCHANGED <<files, fs>> /\ f \in files
                /\ g \in files
      BY <1>1, <2>1, <2>15 DEF LoadConcludes, Numbers, Loads
    <3>2. phase' = "repair" /\ mem'[f] = Reconciled(f)
      BY <2>15, <3>1 DEF LoadConcludes
    <3>3. mem'[f].c = 0
      <4>1. AtCursor(g)
        BY <1>1, <2>2, <3>1, ReadIs DEF Witness
      <4> QED
        BY <1>1, <2>2, <3>1, <3>2, <4>1, ReconciledCursor
    <3>4. Settled(f)
      BY <1>4, <3>1 DEF StaleSettled
    <3>5. h = hdr[f] /\ hdr[f].c # 0
      <4>1. h = hdr[f]
        BY <1>2, <3>4 DEF Settled
      <4>2. Unit * k <= hdr[f].c
        BY <4>1 DEF Retires
      <4> QED
        BY <2>4, <4>1, <4>2
    <3>6. f \in Unrepaired'
      <4>1. Wanted(f)'.c = 0
        BY <3>3 DEF Wanted, Header
      <4> QED
        BY <3>1, <3>5, <4>1 DEF Unrepaired, fs
    <3>7. Witness(g)' /\ Visible' = Visible
      BY <2>2, <3>1, WitnessStays DEF fs, Visible
    <3> QED
      BY <2>1, <2>2, <3>2, <3>6, <3>7
  <2>16. ASSUME NEW x \in Segs, RepairWrites(x) PROVE Goal(f)
    <3>1. /\ phase = "repair" /\ phase' = "flush" /\ at' = x /\ (\A y \in Unrepaired : y <= x)
          /\ UNCHANGED <<len, lens, data, disk, mem, files, entry>>
      BY <1>1, <2>16, RepairsAt
    <3>2. \A y \in Segs : y # x => hdr'[y] = hdr[y] /\ hdrs'[y] = hdrs[y]
      BY <1>1, <2>16 DEF RepairWrites, WriteHeader, DiskTypes
    <3>3. f \in Unrepaired /\ f <= x /\ f \in Nat /\ g \in Nat /\ x \in Nat
      BY <2>3, <2>4, <3>1, Sizes
    <3>4. g # x
      BY <2>2, <3>3
    <3>5. Witness(g)' /\ Visible' = Visible
      BY <2>2, <2>4, <3>1, <3>2, <3>4, WitnessStays DEF Visible
    <3>6. f # x => f \in Unrepaired'
      BY <3>1, <3>2, <3>3 DEF Unrepaired, Wanted
    <3> QED
      BY <2>1, <2>2, <3>1, <3>5, <3>6
  <2>17. CASE RepairFlushes
    <3>1. /\ at \in files /\ at \in Segs /\ phase = "flush" /\ phase' = "repair" /\ hdr' = hdr
                /\ hdrs'[at] = {hdr[at]}
          /\ (\A y \in Segs : y # at => mem'[y] = mem[y]) /\ UNCHANGED <<files, entry, data>>
      BY <1>1, <2>17, RepairedAt
    <3>2. \A y \in Segs : y # at => hdrs'[y] = hdrs[y] /\ lens'[y] = lens[y] /\ len'[y] = len[y]
                                    /\ disk'[y] = disk[y]
      BY <1>1, <2>17, <3>1 DEF RepairFlushes, DiskTypes
    <3>3. f # at
      <4>1. SUFFICES ASSUME f = at PROVE FALSE
        OBVIOUS
      <4>2. h = Wanted(at)
        BY <3>1, <4>1 DEF MemReset
      <4>3. h.c = mem[at].c
        BY <4>2 DEF Wanted, Header
      <4>4. mem[at].c < Unit * k /\ mem[at].c \in Nat
        BY <1>1, <1>2, <1>4, <3>1, <4>1, MemNats DEF MemSpares
      <4> QED
        BY <2>4, <4>3, <4>4 DEF Retires
    <3>4. f \in Unrepaired /\ f \in files
      BY <2>3, <3>3, <3>1 DEF Unrepaired
    <3>5. g # at
      <4>1. f <= at
        BY <3>1, <3>4 DEF MemReset
      <4> QED
        BY <2>2, <2>4, <3>1, <4>1, Sizes
    <3>6. Witness(g)' /\ Visible' = Visible
      BY <2>2, <2>4, <3>1, <3>2, <3>5, WitnessStays DEF Visible
    <3>7. f \in Unrepaired'
      BY <3>1, <3>3, <3>4 DEF Unrepaired, Wanted
    <3> QED
      BY <2>1, <2>2, <3>1, <3>6, <3>7
  <2>18. CASE OpenReturns
    BY <2>3, <2>18 DEF OpenReturns
  <2>19. ~Running
    BY <1>1, <2>1 DEF Running, AddStages, AddDiscards, AddPublishes, AddSettles, FlushAll, FlushOne,
                      CommitWrites,
       CommitFlushes, CycleDrops, CreateLinks, CreateReserves, CreateWrites, CreateSyncs, CreateEnds, Idle, Free,
       Phased, Linked
  <2>20. CASE Failing
    BY <2>8, <2>14, <2>20 DEF Failing, Lefts
  <2>21. CASE Loading
    BY <2>9, <2>10, <2>11, <2>15, <2>16, <2>17, <2>18, <2>21 DEF Loading
  <2> QED
    BY <2>7, <2>19, <2>20, <2>21 DEF Next
<1> QED
  BY <1>2, <1>3, <1>4

LEMMA StaleSettledNext ==
    ASSUME PInv, Slotted, Plainly, MemReset, MemSpares, Chased, Chased', StaleSettled, [Next]_vars
    PROVE  StaleSettled'
<1> DEFINE Goal(f) == Settled(f)' \/ (phase' = "flush" /\ at' = f) \/ (phase' = "losing" /\ at' <= f)
<1> SUFFICES ASSUME NEW f \in Segs, Stale(f)' PROVE Goal(f)
  BY DEF StaleSettled
<1>0. PICK k \in Slots : (disk[f][k] \intersect Due)' # {} /\ (\E h \in hdrs'[f] : Retires(h, k))
  BY DEF Stale, Retires
<1>1. PICK r \in Due' : r \in disk'[f][k]
  BY <1>0
<1>2. PICK h \in hdrs'[f] : Retires(h, k)
  BY <1>0
<1>3. BInv /\ DiskTypes /\ Phased /\ r \in Recs /\ f \in Visible'
  BY <1>1 DEF PInv, BInv, DiskInv, ControlInv, Due, Chased
<1>4. r \in disk[f][k] /\ h \in hdrs[f] /\ ((r \in Due /\ Stale(f)) \/ Replayed(r))
  BY <1>1, <1>2, StaleSteps
<1>5. CASE UNCHANGED fs /\ Settled(f)
  BY <1>5 DEF Settled, fs
<1>6. CASE Replayed(r)
  <2>1. PICK g \in files : Settled(g) /\ r \in Between(g, mem'[g].c, mem'[g].size)
    BY <1>6 DEF Replayed
  <2>2. f = g /\ UNCHANGED fs
    BY <1>3, <1>4, <1>6, <2>1, BetweenAt, SegsFacts DEF Replayed, LoadConcludes
  <2> QED
    BY <1>5, <2>1, <2>2
<1>7. CASE r \in Due /\ Stale(f)
  <2>1. /\ phase \notin {"open", "fresh"}
        /\ Settled(f) \/ (phase = "flush" /\ at = f) \/ (phase = "losing" /\ at <= f)
    BY <1>7 DEF Chased, StaleSettled
  <2>2. data[f][k] = r /\ k \in Nat /\ k > 0 /\ Unit = 2
    BY <1>4, <1>7, Sizes DEF Plainly
  <2>3. r \in Between(f, 0, h.c)
    BY <1>2, <1>3, <2>2, Sizes DEF Between, Retires
  <2>4. r \notin Spent'
    BY <1>1 DEF Due
  <2>5. CASE UNCHANGED vars
    BY <2>1, <2>5 DEF vars, fs, Settled
  <2>6. CASE Crash
    <3>1. phase # "losing" /\ UNCHANGED fs /\ asked' = asked
      BY <2>6 DEF Crash, Dies
    <3>2. ~(phase = "flush" /\ at = f)
      <4>1. SUFFICES ASSUME phase = "flush", at = f PROVE FALSE
        OBVIOUS
      <4>2. orphaned' = orphaned \union UNION {Between(f, 0, o.c) : o \in hdrs[f]}
        BY <2>6, <4>1 DEF Crash
      <4>3. r \in orphaned'
        BY <1>4, <2>3, <4>2
      <4> QED
        BY <2>4, <4>3 DEF Spent
    <3> QED
      BY <1>5, <2>1, <3>1, <3>2
  <2>7. CASE PowerLoss
    BY <2>7, Sizes DEF PowerLoss
  <2>8. CASE PowerLossLeaves
    <3>1. at \in Segs /\ phase = "losing" /\ at' = (IF at = MaxSeg THEN 0 ELSE at + 1)
             /\ phase' = (IF at = MaxSeg THEN "off" ELSE "losing")
      BY <1>3, <2>8 DEF PowerLossLeaves, Phased
    <3>2. PICK e \in {"here", "none"} : \E l, o, d : Left(at, e, l, o, d)
      <4>1. PICK e \in CASE entry[at] = "here" -> {"here"} [] entry[at] = "none" -> {"none"}
                        [] OTHER -> {"here", "none"} : \E l, o, d : Left(at, e, l, o, d)
        BY <2>8 DEF PowerLossLeaves
      <4>2. e \in {"here", "none"}
        BY <4>1
      <4> QED
        BY <4>1, <4>2
    <3>3. PICK l, o, d : Left(at, e, l, o, d)
      BY <3>2
    <3>4. CASE f = at
      BY <1>3, <3>2, <3>3, <3>4, LeftAt DEF Settled, Visible
    <3>5. CASE f # at /\ Settled(f)
      <4>1. /\ hdr'[f] = hdr[f] /\ hdrs'[f] = hdrs[f] /\ len'[f] = len[f] /\ lens'[f] = lens[f]
            /\ entry'[f] = entry[f] /\ data'[f] = data[f] /\ disk'[f] = disk[f]
        BY <1>3, <3>1, <3>3, <3>5 DEF Left, DiskTypes
      <4> QED
        BY <3>5, <4>1 DEF Settled
    <3>6. CASE f # at /\ at <= f
      <4>1. at # MaxSeg /\ at + 1 <= f
        BY <3>1, <3>6, Sizes
      <4> QED
        BY <3>1, <4>1
    <3> QED
      BY <2>1, <3>1, <3>4, <3>5, <3>6
  <2>9. ASSUME NEW x, NEW l, NEW o, Struck(x, l, o) PROVE FALSE
    <3>1. Spent' = Spent \union UNION {UNION {Between(y, 0, j.c) : j \in hdrs[y]} : y \in Visible}
      BY <2>9 DEF Struck, Spent
    <3>2. f \in Visible
      BY <1>7 DEF Chased
    <3> QED
      BY <1>4, <2>3, <2>4, <3>1, <3>2
  <2>10. CASE Lefts
    BY <2>8, <2>9, <2>10 DEF Lefts, Cut, Overwritten
  <2>11. CASE OpenBegins \/ LoadKeeps \/ LoadConcludes
    <3>1. UNCHANGED fs /\ phase \notin {"flush", "losing"}
      BY <2>11 DEF OpenBegins, LoadKeeps, LoadConcludes
    <3> QED
      BY <1>5, <2>1, <3>1
  <2>12. CASE LoadDrops
    <3>1. Settled(f) /\ UNCHANGED <<len, lens, hdr, hdrs, data, disk>>
      BY <2>1, <2>12 DEF LoadDrops
    <3>2. at \in Segs /\ phase = "load"
      BY <1>3, <2>12 DEF LoadDrops, Phased
    <3>3. ~Drops /\ ~CreateLinks /\ ~PowerLossLeaves /\ ~FlushAll /\ ~CreateEnds
      BY <1>3, <3>2 DEF Drops, CommitWrites, Free, Idle, CommitFlushes, CycleDrops, CreateLinks,
                        PowerLossLeaves, Phased, FlushAll, CreateEnds, Linked
    <3>4. entry'[f] \in {entry[f], EntriesDurable(entry)[f]}
      BY <1>3, <3>3, EntrySteps DEF Visible
    <3>5. entry'[f] = "here"
      BY <3>1, <3>4 DEF Settled, EntriesDurable
    <3> QED
      BY <3>1, <3>5 DEF Settled
  <2>13. ASSUME NEW x \in Segs, RepairWrites(x) PROVE Goal(f)
    <3>1. /\ phase = "repair" /\ phase' = "flush" /\ at' = x
          /\ UNCHANGED <<len, lens, data, disk, entry>>
      BY <1>3, <2>13, RepairsAt
    <3>2. CASE f = x
      BY <3>1, <3>2
    <3>3. CASE f # x
      <4>1. hdr'[f] = hdr[f] /\ hdrs'[f] = hdrs[f]
        BY <1>3, <2>13, <3>3 DEF RepairWrites, WriteHeader, DiskTypes
      <4>2. Settled(f)
        BY <2>1, <3>1
      <4> QED
        BY <3>1, <4>1, <4>2 DEF Settled
    <3> QED
      BY <3>2, <3>3
  <2>14. CASE RepairFlushes
    <3>1. /\ at \in files /\ at \in Segs /\ phase = "flush" /\ hdr' = hdr
          /\ hdrs'[at] = {hdr[at]} /\ UNCHANGED <<entry, data>>
      BY <1>3, <2>14, RepairedAt
    <3>2. f # at
      <4>1. SUFFICES ASSUME f = at PROVE FALSE
        OBVIOUS
      <4>2. h = Wanted(at)
        BY <1>2, <3>1, <4>1 DEF MemReset
      <4>3. h.c = mem[at].c
        BY <4>2 DEF Wanted, Header
      <4>4. mem[at].c < Unit * k /\ mem[at].c \in Nat
        BY <1>3, <1>4, <1>7, <3>1, <4>1, MemNats DEF MemSpares
      <4> QED
        BY <1>2, <2>2, <4>3, <4>4 DEF Retires
    <3>3. /\ hdrs'[f] = hdrs[f] /\ lens'[f] = lens[f] /\ len'[f] = len[f] /\ disk'[f] = disk[f]
      BY <1>3, <2>14, <3>1, <3>2 DEF RepairFlushes, DiskTypes
    <3>4. Settled(f)
      BY <2>1, <3>1, <3>2
    <3> QED
      BY <3>1, <3>3, <3>4 DEF Settled
  <2>15. CASE phase' \in {"open", "fresh"}
    BY <2>15 DEF Chased
  <2> QED
    BY <1>3, <2>5, <2>6, <2>7, <2>10, <2>11, <2>12, <2>13, <2>14, <2>15, ShutSteps
<1> QED
  BY <1>4, <1>6, <1>7

-----------------------------------------------------------------------------
(* Nothing is skipped *)

SInv ==
    /\ PInv /\ Slotted /\ Trim /\ Alone /\ MadeBlank /\ LeftFirm /\ NewLast /\ AllLive /\ MemRead
          /\ Known
    /\ Plainly /\ Spans /\ OpenFirst /\ MemReset /\ MemSpares /\ Chased /\ StaleSettled

LEMMA SInvInit == Init => SInv
<1> SUFFICES ASSUME Init PROVE SInv
  OBVIOUS
<1>1. PInv
  BY PInvInit
<1>2. /\ phase = "open" /\ making = None /\ files = {1} /\ adding = None /\ promised = {} /\ home = <<>>
      /\ entry = [f \in Segs |-> IF f = 1 THEN "here" ELSE "none"]
      /\ len = [f \in Segs |-> IF f = 1 THEN Full ELSE 0]
      /\ hdr = [f \in Segs |-> IF f = 1 THEN Header(0, 0, 0, 0) ELSE Broken("zero")]
      /\ hdrs = [f \in Segs |-> {hdr[f]}]
      /\ data = [f \in Segs |-> Blank] /\ disk = [f \in Segs |-> [k \in Slots |-> {None}]]
  BY DEF Init
<1>3. Slotted
  BY <1>2, Sizes DEF Slotted
<1>4. Trim
  BY <1>2 DEF Trim, Blank
<1>5. Alone
  <2>1. ASSUME NEW f \in Segs PROVE hdrs[f] = {hdr[f]} /\ (len[f] < Hdr => hdr[f].kind = "zero")
    <3>1. CASE f = 1
      BY <1>2, <3>1, Sizes
    <3>2. CASE f # 1
      BY <1>2, <3>2 DEF Broken
    <3> QED
      BY <3>1, <3>2
  <2> QED
    BY <2>1 DEF Alone
<1>6. MadeBlank /\ LeftFirm /\ MemRead /\ Known /\ MemReset /\ MemSpares
  BY <1>2 DEF MadeBlank, Linked, LeftFirm, MemRead, Loads, Known, MemReset, MemSpares
<1>7. Visible = {1}
  BY <1>2, Sizes DEF Visible
<1>8. NewLast /\ AllLive /\ OpenFirst
  BY <1>2, <1>7, Sizes DEF NewLast, AllLive, OpenFirst
<1>9. Due = {}
  BY <1>2, Sizes DEF Due
<1>10. Plainly /\ Spans /\ Chased /\ StaleSettled
  BY <1>2, <1>9 DEF Plainly, Spans, Chased, StaleSettled, Stale
<1> QED
  BY <1>1, <1>3, <1>4, <1>5, <1>6, <1>8, <1>10 DEF SInv

LEMMA SInvAlways == Spec => []SInv
<1>1. PInv /\ [Next]_vars => PInv'
  BY BInvNext, HomedNext, WidthsNext, UnseenNext, NoMoreNext, CleanNext DEF PInv
<1>2. SInv /\ [Next]_vars => SInv'
  BY <1>1, SlottedNext, TrimNext, AloneNext, MadeBlankNext, LeftFirmNext, NewLastNext, AllLiveNext,
     MemReadNext,
     KnownNext, PlainlyNext, SpansNext, OpenFirstNext, MemResetNext, MemSparesNext, ChasedNext,
     StaleSettledNext DEF SInv
<1> QED
  BY SInvInit, <1>2, PTL DEF Spec

\* Load never moves the commit cursor over a durable record whose retirement nobody asked
\* for, nor over one that an earlier open had concluded must be replayed, interrupted or
\* not, for every number of segments, records, losses and damages, under every policy
\* (load's reconciliation, the order of its repairs and their fsyncs). One step is outside
\* the claim: when the process dies between a repair's writeHeader and its flushFile
\* (load, repairSegment) that one segment's header is ahead of the disk, and the next open,
\* which takes it for settled, may advance the cursor over the records it retires. Crash
\* takes exactly those records, of that segment and no other, into orphaned.
THEOREM CursorSkipsNothing == Spec => []NothingSkipped
<1>1. SInv => NothingSkipped
  <2> SUFFICES ASSUME SInv, Serving, NEW f \in files, NEW r \in promised, r \in Between(f, 0, hdr[f].c), r \notin Spent
               PROVE  FALSE
    BY DEF NothingSkipped, Spent
  <2>1. PInv /\ BInv /\ Chased /\ f \in Segs /\ phase = "open"
    BY SegsFacts DEF SInv, PInv, Serving
  <2>2. r \in Recs /\ \E k \in Slots : data[f][k] = r /\ r \in disk[f][k] /\ 0 < Unit * k
           /\ Unit * k <= hdr[f].c
    BY <2>1, BetweenIs
  <2>3. PICK k \in Slots : r \in disk[f][k] /\ Unit * k <= hdr[f].c
    BY <2>2
  <2>4. r \in Due
    BY <2>2 DEF Due
  <2>5. hdr[f] \in hdrs[f] /\ hdr[f].kind = "ok"
    BY <2>1 DEF BInv, DiskInv, Cached, CursorInv, Believed
  <2>6. Stale(f)
    BY <2>3, <2>4, <2>5 DEF Stale, Retires
  <2> QED
    BY <2>1, <2>6 DEF Chased
<1> QED
  BY <1>1, SInvAlways, PTL

-----------------------------------------------------------------------------
(* What was promised is kept *)

\* What the directory owes a consumer
Owed == promised \ (Spent \union excused)

\* Whatever a power loss leaves, r lies in slot k of f, published and inside the file
Sound(f, k, r) ==
    /\ disk[f][k] = {r} /\ \A l \in lens[f] : Hdr + Unit * k <= l
    /\ \A h \in hdrs[f] : h.kind = "ok" => Unit * k <= h.w

\* f is damaged, for good, and in a way that load books as a loss
Booked(f) ==
    /\ Firm(f) /\ \A k \in Slots : disk[f][k] = {data[f][k]}
    /\ hdr[f].kind # "ok" \/ LostTail(f)

\* A segment that looks of another version was made to, and nobody is owed what it held
Strange ==
    \A f \in Segs : (\E h \in hdrs[f] : h.kind = "foreign") =>
        hdr[f].kind = "foreign" /\ \A r \in 1 .. Len(home) : home[r] = f => r \in excused

\* A header that announces a record is written over slots that are durable
AddSound ==
    adding # None /\ adding \in Published(active) =>
        lens[active] = {len[active]} /\ \A k \in Slots : disk[active][k] = {data[active][k]}

\* What is owed is durable where it was staged, or load has yet to book it as lost, which it
\* does unless the file looks like an unfinished create, the last there is
Kept ==
    \A r \in Owed :
        /\ r \in 1 .. Len(home) /\ entry[home[r]] = "here"
        /\ \/ \E k \in Slots : Sound(home[r], k, r)
           \/ Booked(home[r]) /\ home[r] \notin files
        /\ home[r] \notin files /\ Erased(home[r]) => \E g \in Segs : g > home[r] /\ entry[g] = "here"

\* What a power loss leaves of a file
LEMMA LossAt ==
    ASSUME BInv, PowerLossLeaves
    PROVE  /\ at \in Segs
           /\ \E e \in {"here", "none"}, l \in 0 .. Full : \E h, d :
                 /\ Left(at, e, l, h, d) /\ (entry[at] = "here" => e = "here")
                 /\ e = "here" => l \in lens[at]
                 /\ IF l < Hdr THEN h = Broken("zero") ELSE h \in HeaderLeft(at)
                 /\ l # 0 => \A k \in Slots : d[k] \in SlotLeft(at, k)
<1>0. at \in Segs /\ lens[at] \subseteq 0 .. Full
  BY DEF PowerLossLeaves, BInv, ControlInv, Phased, DiskInv, DiskTypes
<1>1. PICK e \in CASE entry[at] = "here" -> {"here"} [] entry[at] = "none" -> {"none"}
                  [] OTHER -> {"here", "none"} :
         \E l \in (IF e = "none" THEN {0} ELSE lens[at]) :
         \E h \in (IF l < Hdr THEN {Broken("zero")} ELSE HeaderLeft(at)) :
         \E d \in (IF l = 0 THEN {Blank}
                   ELSE {d \in [Slots -> UNION {SlotLeft(at, k) : k \in Slots}] :
                           \A k \in Slots : d[k] \in SlotLeft(at, k)}) : Left(at, e, l, h, d)
  BY DEF PowerLossLeaves
<1>2. e \in {"here", "none"} /\ (entry[at] = "here" => e = "here")
  BY <1>1
<1>3. PICK l \in (IF e = "none" THEN {0} ELSE lens[at]) :
         \E h \in (IF l < Hdr THEN {Broken("zero")} ELSE HeaderLeft(at)) :
         \E d \in (IF l = 0 THEN {Blank}
                   ELSE {d \in [Slots -> UNION {SlotLeft(at, k) : k \in Slots}] :
                           \A k \in Slots : d[k] \in SlotLeft(at, k)}) : Left(at, e, l, h, d)
  BY <1>1
<1>4. l \in 0 .. Full /\ (e = "here" => l \in lens[at])
  BY <1>0, <1>3, Sizes
<1>5. PICK h \in (IF l < Hdr THEN {Broken("zero")} ELSE HeaderLeft(at)) :
         \E d \in (IF l = 0 THEN {Blank}
                   ELSE {d \in [Slots -> UNION {SlotLeft(at, k) : k \in Slots}] :
                           \A k \in Slots : d[k] \in SlotLeft(at, k)}) : Left(at, e, l, h, d)
  BY <1>3
<1>6. PICK d \in (IF l = 0 THEN {Blank}
                   ELSE {d \in [Slots -> UNION {SlotLeft(at, k) : k \in Slots}] :
                           \A k \in Slots : d[k] \in SlotLeft(at, k)}) : Left(at, e, l, h, d)
  BY <1>5
<1>7. l # 0 => \A k \in Slots : d[k] \in SlotLeft(at, k)
  BY <1>6
<1>8. IF l < Hdr THEN h = Broken("zero") ELSE h \in HeaderLeft(at)
  BY <1>5
<1> QED
  BY <1>0, <1>2, <1>4, <1>6, <1>7, <1>8

LEMMA SlotAlone ==
    ASSUME NEW f, NEW k, NEW r, disk[f][k] = {r}
    PROVE  SlotLeft(f, k) = {r}
<1>1. Cardinality({r}) = 1
  BY FS_Singleton
<1> QED
  BY <1>1 DEF SlotLeft

LEMMA HeaderAlone ==
    ASSUME NEW f, hdrs[f] = {hdr[f]}
    PROVE  HeaderLeft(f) = {hdr[f]}
<1>1. Cardinality({hdr[f]}) = 1
  BY FS_Singleton
<1> QED
  BY <1>1 DEF HeaderLeft

\* What somebody else leaves of a file
LEMMA StruckAt ==
    ASSUME BInv, Lefts, ~PowerLossLeaves
    PROVE  \E x \in Segs, l \in 0 .. Full : \E h :
              /\ Struck(x, l, h) /\ l <= len[x]
              /\ \/ (l < Hdr /\ h = Broken("zero")) \/ (h = hdr[x] /\ l < len[x] /\ ~(l < Hdr))
                 \/ (h.kind \in {"zero", "garbage", "torn", "foreign"} /\ l = len[x] /\ ~(l < Hdr))
<1>0. DiskTypes
  BY DEF BInv, DiskInv
<1>1. ASSUME NEW x \in Segs, NEW l \in 0 .. Full - 1, Cut(x, l)
      PROVE  \E h : /\ Struck(x, l, h) /\ l <= len[x] /\ l \in 0 .. Full
                    /\ (l < Hdr /\ h = Broken("zero")) \/ (h = hdr[x] /\ l < len[x] /\ ~(l < Hdr))
  <2>1. l <= len[x] /\ l \in 0 .. Full /\ l < len[x]
    BY <1>0, <1>1, Sizes DEF Cut, DiskTypes
  <2>2. PICK h : h = (IF l < Hdr THEN Broken("zero") ELSE hdr[x]) /\ Struck(x, l, h)
    BY <1>1 DEF Cut
  <2> QED
    BY <2>1, <2>2
<1>2. ASSUME NEW x \in Segs, NEW kind \in {"zero", "garbage", "torn", "foreign"}, Overwritten(x, kind)
      PROVE  /\ Struck(x, len[x], Broken(kind)) /\ len[x] <= len[x] /\ len[x] \in 0 .. Full
         /\ ~(len[x] < Hdr)
             /\ Broken(kind).kind \in {"zero", "garbage", "torn", "foreign"}
  BY <1>0, <1>2, Sizes DEF Overwritten, DiskTypes, Broken
<1>3. CASE \E x \in Segs : \E l \in 0 .. Full - 1 : Cut(x, l)
  <2>1. PICK x \in Segs : \E l \in 0 .. Full - 1 : Cut(x, l)
    BY <1>3
  <2>2. PICK l \in 0 .. Full - 1 : Cut(x, l)
    BY <2>1
  <2>3. PICK h : /\ Struck(x, l, h) /\ l <= len[x] /\ l \in 0 .. Full
                 /\ (l < Hdr /\ h = Broken("zero")) \/ (h = hdr[x] /\ l < len[x] /\ ~(l < Hdr))
    BY <1>1, <2>2
  <2> QED
    BY <2>3
<1>4. CASE \E x \in Segs : \E kind \in {"zero", "garbage", "torn", "foreign"} : Overwritten(x, kind)
  <2>1. PICK x \in Segs : \E kind \in {"zero", "garbage", "torn", "foreign"} : Overwritten(x, kind)
    BY <1>4
  <2>2. PICK kind \in {"zero", "garbage", "torn", "foreign"} : Overwritten(x, kind)
    BY <2>1
  <2> QED
    BY <1>2, <2>2
<1> QED
  BY <1>3, <1>4 DEF Lefts

LEMMA StrangeNext ==
    ASSUME SInv, Strange, [Next]_vars
    PROVE  Strange'
<1> DEFINE Gone(f) == \A r \in 1 .. Len(home) : home[r] = f => r \in excused
<1> SUFFICES ASSUME NEW f \in Segs, NEW h \in hdrs'[f], h.kind = "foreign"
             PROVE  hdr'[f].kind = "foreign" /\ Gone(f)'
  BY DEF Strange
<1>1. BInv /\ DiskTypes /\ hdr[f] \in hdrs[f] /\ excused \subseteq excused' /\ MemRead
  BY GhostSteps DEF SInv, PInv, BInv, DiskInv, Cached
<1>2. ASSUME Gone(f), ~Stages(f) PROVE Gone(f)'
  <2>1. CASE home' = home
    BY <1>1, <1>2, <2>1
  <2>2. CASE AddStages
    <3>1. f # active /\ active \in Segs /\ home' = Append(home, active) /\ home \in Seq(Segs)
      BY <1>1, <1>2, <2>2, StagesAt DEF Stages, BInv, ControlInv, Plain
    <3> QED
      BY <1>1, <1>2, <3>1
  <2> QED
    BY <1>1, <2>1, <2>2, GhostSteps
<1>3. CASE h \in hdrs[f] /\ hdr'[f] = hdr[f] /\ ~Stages(f)
  BY <1>2, <1>3 DEF Strange
<1>4. h \in hdrs[f] => hdr[f].kind = "foreign" /\ Gone(f)
  BY DEF Strange
<1>5. Stages(f) => hdr[f].kind = "ok" /\ hdrs' = hdrs
  BY <1>1, StagesAt DEF Stages
<1>6. CASE Same(f)
  BY <1>1, <1>3, <1>4, <1>5, <1>6 DEF Same
<1>7. CASE Stages(f)
  BY <1>4, <1>5, <1>7
<1>8. CASE Announces(f)
  <2>1. hdr[f].kind = "ok" /\ hdr'[f].kind = "ok"
    BY <1>1, <1>8, PublishedNow DEF Announces
  <2>2. h \in hdrs[f] \/ h = hdr'[f]
    <3>1. PICK j : /\ hdr' = [hdr EXCEPT ![f] = j]
                   /\ hdrs' = [hdrs EXCEPT ![f] = {hdr[f], j}]
                         \/ hdrs' = [hdrs EXCEPT ![f] = @ \union {j}]
      BY <1>8 DEF Announces, AddPublishes, Publishes
    <3> QED
      BY <1>1, <3>1 DEF DiskTypes
  <2> QED
    BY <1>4, <2>1, <2>2
<1>9. CASE CommitWrites(f)
  BY <1>1, <1>4, <1>9, CommitsAt
<1>10. CASE Creates(f)
  <2>0. ~Stages(f)
    BY <1>1, <1>10, CreatesAt, StagesAt DEF Stages
  <2>1. CASE hdrs'[f] = {Broken("zero")}
    BY <2>1 DEF Broken
  <2>2. CASE hdr'[f] = hdr[f] /\ hdrs'[f] = hdrs[f]
    BY <1>3, <2>0, <2>2
  <2>3. CASE hdr[f].kind = "zero" /\ hdr'[f] = Header(0, 0, 0, 0) /\ hdrs'[f] = hdrs[f] \union {hdr'[f]}
    BY <1>4, <2>3 DEF Header
  <2> QED
    BY <1>1, <1>10, <2>1, <2>2, <2>3, CreatesAt
<1>11. CASE LeftAs(f)
  <2>0. Lefts /\ ~AddStages /\ home' = home
    <3>1. Lefts /\ UNCHANGED home /\ phase \in {"losing", "off"}
      BY <1>1, <1>11, LeftSteps DEF LeftAs
    <3> QED
      BY <3>1 DEF AddStages, Idle
  <2>1. CASE PowerLossLeaves
    <3>1. f = at
      BY <1>11, <2>1 DEF LeftAs
    <3>2. PICK e, l, o, d :
               Left(at, e, l, o, d) /\ (IF l < Hdr THEN o = Broken("zero") ELSE o \in HeaderLeft(at))
      BY <1>1, <2>1, LossAt
    <3>3. h = hdr'[f] /\ (hdr'[f] = o \/ hdr'[f] = Broken("zero"))
      BY <1>1, <3>1, <3>2, LeftAt
    <3>4. h \in hdrs[f]
      BY <3>1, <3>2, <3>3 DEF Broken, HeaderLeft
    <3> QED
      BY <1>2, <1>4, <2>0, <3>3, <3>4 DEF Stages
  <2>2. CASE ~PowerLossLeaves
    <3>1. PICK x \in Segs, l \in 0 .. Full : \E o : Struck(x, l, o)
      BY <1>1, <2>0, <2>2, StruckAt
    <3>2. PICK o : Struck(x, l, o)
      BY <3>1
    <3>3. /\ Left(x, entry[x], l, o, data[x])
          /\ o.kind = "foreign" => excused' = excused \union {r \in DOMAIN home : home[r] = x}
      BY <3>2 DEF Struck
    <3>4. CASE f = x
      <4>1. h = hdr'[f] /\ (hdr'[f] = o \/ hdr'[f] = Broken("zero"))
        BY <1>1, <3>3, <3>4, LeftAt
      <4>2. o.kind = "foreign" /\ hdr'[f].kind = "foreign"
        BY <4>1 DEF Broken
      <4>3. home \in Seq(Segs) /\ DOMAIN home = 1 .. Len(home)
        BY <1>1 DEF BInv, ControlInv, Plain
      <4> QED
        BY <2>0, <3>3, <3>4, <4>2, <4>3
    <3>5. CASE f # x
      <4>1. hdr'[f] = hdr[f] /\ hdrs'[f] = hdrs[f]
        BY <1>1, <3>3, <3>5 DEF Left, DiskTypes
      <4> QED
        BY <1>3, <2>0, <4>1 DEF Stages
    <3> QED
      BY <3>4, <3>5
  <2> QED
    BY <2>1, <2>2
<1>12. CASE RepairWrites(f)
  <2>1. f \in files /\ phase = "repair" /\ hdr'[f].kind = "ok" /\ hdrs'[f] = hdrs[f] \union {hdr'[f]}
    BY <1>1, <1>12, RepairsAt
  <2>2. hdr[f].kind \in {"torn", "ok"}
    BY <1>1, <2>1 DEF MemRead, Loads
  <2> QED
    BY <1>4, <2>1, <2>2
<1>13. CASE RepairFlushes /\ f = at
  BY <1>1, <1>3, <1>4, <1>5, <1>13, RepairedAt
<1> QED
  BY <1>1, <1>6, <1>7, <1>8, <1>9, <1>10, <1>11, <1>12, <1>13, SegSteps

LEMMA AddSoundNext ==
    ASSUME SInv, AddSound, [Next]_vars
    PROVE  AddSound'
<1> SUFFICES ASSUME adding' # None, adding' \in Published(active)'
             PROVE  lens'[active'] = {len'[active']}
                /\ \A k \in Slots : disk'[active'][k] = {data'[active'][k]}
  BY DEF AddSound
<1>1. BInv /\ PInv /\ DiskTypes /\ Cached
  BY DEF SInv, PInv, BInv, DiskInv
<1>2. CASE adding = None
  <2>1. AddStages
    BY <1>1, <1>2, AddingBegins
  <2>2. PICK f : f = active
    OBVIOUS
  <2>3. PICK n : n = hdr[f].nw + 1
    OBVIOUS
  <2>4. PICK r : r = Len(home) + 1
    OBVIOUS
  <2>5. /\ f \in Segs /\ active' = f /\ hdr' = hdr /\ n \in Slots /\ Unit * n = hdr[f].w + Unit
              /\ adding' = r
        /\ (\A k \in Slots : k # n => data'[f][k] = data[f][k]) /\ r \in Recs
    BY <1>1, <2>1, <2>2, <2>3, <2>4, StagesAt
  <2>6. PICK k \in Slots : data'[f][k] = r /\ Unit * k <= hdr[f].w
    BY <2>5 DEF Published, Between
  <2>7. k # n
    BY <1>1, <2>5, <2>6, HeaderIs, Sizes DEF DiskTypes
  <2>8. r \in disk[f][k]
    BY <1>1, <2>5, <2>6, <2>7 DEF Cached
  <2>9. r \in 1 .. Len(home) /\ Len(home) \in Nat
    BY <1>1, <2>5, <2>8 DEF PInv, Homed, BInv, ControlInv, Plain
  <2> QED
    BY <2>4, <2>9
<1>3. CASE adding # None
  <2>0. phase = "open" /\ making = None /\ files # {} /\ active \in Segs
    BY <1>1, <1>3, SegsFacts DEF BInv, ControlInv, Phased
  <2>1. CASE AddPublishes
    <3>1. policy = "perOp" /\ FsyncData(active) /\ UNCHANGED <<len, data>> /\ active' = active
      BY <1>1, <2>1, PublishedNow DEF AddPublishes, Publishes
    <3>2. lens'[active] = {len[active]} /\ disk'[active] = [k \in Slots |-> {data[active][k]}]
      BY <1>1, <2>0, <3>1 DEF FsyncData, DiskTypes
    <3> QED
      BY <3>1, <3>2
  <2>2. ASSUME active' = active, adding' = adding, hdr'[active].w = hdr[active].w, Same(active)
           \/ UNCHANGED <<len, lens, data, disk>>
        PROVE  lens'[active'] = {len'[active']}
           /\ \A k \in Slots : disk'[active'][k] = {data'[active'][k]}
    <3>1. len'[active] = len[active] /\ data'[active] = data[active]
      BY <2>2 DEF Same
    <3>2. adding \in Published(active)
      BY <2>2, <3>1 DEF Published, Between
    <3>3. lens[active] = {len[active]} /\ \A k \in Slots : disk[active][k] = {data[active][k]}
      BY <1>3, <3>2 DEF AddSound
    <3> QED
      BY <2>2, <3>1, <3>3 DEF Same
  <2>3. ASSUME NEW x \in Segs, CommitWrites(x)
        PROVE  lens'[active'] = {len'[active']}
           /\ \A k \in Slots : disk'[active'][k] = {data'[active'][k]}
    <3>1. active' = active
      BY <1>1, <2>3, CommitKeepsActive
    <3>2. UNCHANGED <<len, lens, data, disk>> /\ adding' = adding /\ hdr'[x].w = hdr[x].w
      BY <1>1, <2>3, CommitsAt
    <3>3. active # x => hdr'[active] = hdr[active]
      BY <1>1, <2>0, <2>3 DEF CommitWrites, WriteHeader, DiskTypes
    <3> QED
      BY <2>2, <3>1, <3>2, <3>3
  <2>4. CASE CommitFlushes
    <3>1. active' = active
      BY <1>1, <2>4, CommitKeepsActive
    <3>2. adding' = adding /\ hdr' = hdr
      BY <2>4 DEF CommitFlushes
    <3>3. Same(active)
      <4>1. ~Lefts /\ ~AddStages /\ ~AddPublishes /\ ~RepairFlushes /\ \A x : ~RepairWrites(x)
        <5>1. phase = "open" /\ committing # None
          BY <2>4 DEF CommitFlushes
        <5>2. ~Lefts
          BY <1>1, <5>1, LeftSteps
        <5> QED
          BY <5>1, <5>2 DEF AddStages, AddPublishes, Idle, RepairFlushes, RepairWrites
      <4>2. ~CommitWrites(active) /\ ~Creates(active)
        <5>1. committing # None /\ making = None
          BY <2>0, <2>4 DEF CommitFlushes
        <5> QED
          BY <5>1 DEF CommitWrites, Free, Idle, Creates, CreateLinks, CreateReserves, CreateWrites,
                      Linked
      <4> QED
        BY <1>1, <2>0, <4>1, <4>2, SegSteps DEF Stages, Announces, LeftAs
    <3> QED
      BY <2>2, <3>1, <3>2, <3>3
  <2>5. CASE AddDiscards \/ AddSettles \/ Crash \/ PowerLoss
    BY <2>5 DEF AddDiscards, AddSettles, Crash, PowerLoss, Dies
  <2>6. CASE UNCHANGED vars
    <3>1. active' = active
      BY <2>6 DEF vars, store, active
    <3> QED
      BY <2>2, <2>6, <3>1 DEF vars, fs, store
  <2> QED
    BY <1>1, <1>3, <2>1, <2>3, <2>4, <2>5, <2>6, AddingSteps
<1> QED
  BY <1>2, <1>3

\* What lies sound in a segment stays so, until somebody else damages the segment
LEMMA SoundNext ==
    ASSUME SInv, [Next]_vars, NEW f \in Segs, entry[f] = "here", NEW k \in Slots, NEW r \in Recs,
           r \in promised, r \notin Spent, Sound(f, k, r)
    PROVE  Sound(f, k, r)' \/ (Booked(f)' /\ Lefts /\ ~PowerLossLeaves)
<1>1. /\ BInv /\ DiskTypes /\ Cached /\ hdr[f] \in hdrs[f] /\ len[f] \in lens[f] /\ data[f][k] = r
            /\ Spans
      /\ lens[f] \subseteq 0 .. Full /\ Numbers
  BY DEF SInv, PInv, BInv, DiskInv, Cached, DiskTypes, Sound, ControlInv
<1>2. /\ hdr[f].w \in Nat /\ k \in Nat /\ k > 0 /\ Unit = 2 /\ Hdr = 2 /\ len[f] \in Nat
            /\ Hdr + Unit * k <= len[f]
  <2>1. hdr[f].w \in Nat /\ len[f] \in Nat
    BY <1>1, HeaderIs, Sizes DEF DiskTypes
  <2> QED
    BY <1>1, <2>1, Sizes DEF Sound
<1>3. CASE /\ disk'[f][k] = {r} /\ (\A l \in lens'[f] : l \in lens[f] \/ (l \in Nat /\ len[f] <= l))
           /\ \A h \in hdrs'[f] : h \in hdrs[f] \/ h.kind # "ok" \/ Unit * k <= h.w
  <2>1. \A l \in lens'[f] : Hdr + Unit * k <= l
    <3>1. ASSUME NEW l \in Nat, len[f] <= l PROVE Hdr + Unit * k <= l
      BY ONLY <1>2, <3>1
    <3> QED
      BY <1>3, <3>1 DEF Sound
  <2> QED
    BY <1>3, <2>1 DEF Sound
<1>4. CASE Same(f)
  <2>1. disk'[f][k] = {r} /\ lens'[f] \subseteq lens[f] /\ hdrs'[f] \subseteq hdrs[f]
    BY <1>1, <1>4 DEF Same, Sound
  <2> QED
    BY <1>3, <2>1
<1>5. CASE Stages(f)
  <2>1. AddStages /\ f = active
    BY <1>5 DEF Stages
  <2>2. PICK n : n = hdr[f].nw + 1
    OBVIOUS
  <2>3. /\ n \in Slots /\ Unit * n = hdr[f].w + Unit /\ hdrs' = hdrs /\ hdr[f].kind = "ok"
        /\ (k # n => disk'[f][k] = disk[f][k]) /\ len[f] <= len'[f]
              /\ lens'[f] = lens[f] \union {len'[f]}
    BY <1>1, <2>1, <2>2, StagesAt
  <2>4. k # n
    <3>1. Unit * k <= hdr[f].w
      BY <1>1, <2>3 DEF Sound
    <3> QED
      BY <1>2, <2>3, <3>1
  <2>5. len'[f] \in Nat
    BY <1>1, DiskNext, Sizes DEF DiskInv, DiskTypes
  <2>6. disk'[f][k] = {r}
    BY <2>3, <2>4 DEF Sound
  <2>7. \A l \in lens'[f] : l \in lens[f] \/ (l \in Nat /\ len[f] <= l)
    BY <2>3, <2>5
  <2> QED
    BY <1>3, <2>3, <2>6, <2>7
<1>6. CASE Announces(f)
  <2>1. AddPublishes /\ f = active
    BY <1>6 DEF Announces
  <2>2. hdr[f].kind = "ok" /\ hdr'[f].w = hdr[f].w + Unit
    BY <1>1, <2>1, PublishedNow
  <2>3. /\ disk'[f][k] \in {disk[f][k], {data[f][k]}} /\ lens'[f] \in {lens[f], {len[f]}}
              /\ hdrs'[f] \subseteq hdrs[f] \union {hdr'[f]}
    <3>1. PICK j : /\ hdr' = [hdr EXCEPT ![f] = j]
                   /\ hdrs' = [hdrs EXCEPT ![f] = {hdr[f], j}]
                         \/ hdrs' = [hdrs EXCEPT ![f] = @ \union {j}]
                   /\ UNCHANGED <<disk, lens>> \/ FsyncData(f)
      BY <2>1 DEF AddPublishes, Publishes
    <3>2. hdrs'[f] \subseteq hdrs[f] \union {hdr'[f]}
      BY <1>1, <3>1 DEF DiskTypes
    <3>3. CASE FsyncData(f)
      <4>1. lens'[f] = {len[f]} /\ disk'[f] = [i \in Slots |-> {data[f][i]}]
        BY <1>1, <3>3 DEF FsyncData, DiskTypes
      <4> QED
        BY <3>2, <4>1
    <3> QED
      BY <3>1, <3>2, <3>3
  <2>4. Unit * k <= hdr'[f].w
    <3>1. Unit * k <= hdr[f].w
      BY <1>1, <2>2 DEF Sound
    <3> QED
      BY <1>2, <2>2, <3>1
  <2> QED
    BY <1>1, <1>3, <2>3, <2>4 DEF Sound
<1>7. CASE CommitWrites(f)
  <2>1. hdr[f].kind = "ok" /\ hdr'[f].w = hdr[f].w /\ hdrs'[f] = hdrs[f] \union {hdr'[f]}
           /\ UNCHANGED <<lens, disk>>
    BY <1>1, <1>7, CommitsAt
  <2> QED
    BY <1>1, <1>3, <2>1 DEF Sound
<1>8. CASE Creates(f)
  <2>1. f = making
    BY <1>8 DEF Creates
  <2> QED
    BY <1>1, <2>1, Sizes DEF Numbers
<1>9. CASE LeftAs(f) /\ PowerLossLeaves
  <2>1. f = at
    BY <1>9 DEF LeftAs
  <2>2. PICK e \in {"here", "none"}, l \in 0 .. Full : \E h, d :
                 /\ Left(at, e, l, h, d) /\ (entry[at] = "here" => e = "here")
                 /\ e = "here" => l \in lens[at]
                 /\ IF l < Hdr THEN h = Broken("zero") ELSE h \in HeaderLeft(at)
                 /\ l # 0 => \A i \in Slots : d[i] \in SlotLeft(at, i)
    BY <1>1, <1>9, LossAt
  <2>3. PICK h, d :
                 /\ Left(f, e, l, h, d) /\ e = "here" /\ l \in lens[f]
                 /\ IF l < Hdr THEN h = Broken("zero") ELSE h \in HeaderLeft(f)
                 /\ l # 0 => \A i \in Slots : d[i] \in SlotLeft(f, i)
    BY <2>1, <2>2
  <2>4. Hdr + Unit * k <= l /\ l \in Nat
    BY <1>1, <2>3, Sizes DEF Sound
  <2>5. l > 0 /\ ~(l < Hdr) /\ l # 0
    BY <1>2, <2>4
  <2>6. d[k] = r
    <3>1. disk[f][k] = {r}
      BY DEF Sound
    <3>2. SlotLeft(f, k) = {r}
      BY ONLY <3>1, SlotAlone
    <3> QED
      BY <2>3, <2>5, <3>2
  <2>7. /\ hdrs'[f] = {h} /\ lens'[f] = {l} /\ disk'[f][k] = {Within(d, l)[k]}
    BY <1>1, <2>3, <2>5, LeftAt
  <2>8. Within(d, l)[k] = r
    BY <2>4, <2>6 DEF Within
  <2>9. h \in hdrs[f] \/ h.kind # "ok"
    BY <2>3, <2>5 DEF HeaderLeft, Broken
  <2> QED
    BY <1>3, <2>3, <2>7, <2>8, <2>9
<1>10. CASE LeftAs(f) /\ ~PowerLossLeaves
  <2>1. Lefts
    BY <1>10 DEF LeftAs
  <2>2. PICK x \in Segs, l \in 0 .. Full : \E h :
              /\ Struck(x, l, h) /\ l <= len[x]
              /\ \/ (l < Hdr /\ h = Broken("zero")) \/ (h = hdr[x] /\ l < len[x] /\ ~(l < Hdr))
                 \/ (h.kind \in {"zero", "garbage", "torn", "foreign"} /\ l = len[x] /\ ~(l < Hdr))
    BY <1>1, <1>10, <2>1, StruckAt
  <2>3. PICK h :
              /\ Struck(x, l, h) /\ l <= len[x]
              /\ \/ (l < Hdr /\ h = Broken("zero")) \/ (h = hdr[x] /\ l < len[x] /\ ~(l < Hdr))
                 \/ (h.kind \in {"zero", "garbage", "torn", "foreign"} /\ l = len[x] /\ ~(l < Hdr))
    BY <2>2
  <2>4. Left(x, entry[x], l, h, data[x]) /\ l \in Nat
    BY <2>3, Sizes DEF Struck
  <2>5. CASE f # x
    <3>1. hdrs'[f] = hdrs[f] /\ lens'[f] = lens[f] /\ disk'[f] = disk[f]
      BY <1>1, <2>4, <2>5 DEF Left, DiskTypes
    <3> QED
      BY <3>1 DEF Sound
  <2>6. CASE f = x
    <3>1. /\ hdrs'[f] = {hdr'[f]} /\ lens'[f] = {len'[f]}
                /\ \A i \in Slots : disk'[f][i] = {data'[f][i]}
      BY <1>1, <2>4, <2>6, LeftAt
    <3>2. Firm(f)' /\ \A i \in Slots : disk'[f][i] = {data'[f][i]}
      BY <3>1 DEF Firm
    <3>3. CASE hdr'[f].kind # "ok"
      BY <1>10, <2>1, <3>2, <3>3 DEF Booked
    <3>4. CASE hdr'[f].kind = "ok"
      <4>1. l > 0 /\ len'[f] = l /\ hdr'[f] = h /\ data'[f] = Within(data[f], l)
        BY <1>1, <2>4, <2>6, <3>4, LeftAt DEF Broken
      <4>2. h = hdr[f]
        BY <2>3, <2>6, <3>4, <4>1 DEF Broken
      <4>3. Unit * k <= hdr[f].w
        BY <1>1, <3>4, <4>1, <4>2 DEF Sound
      <4>4. CASE Hdr + Unit * k <= l
        <5>1. data'[f][k] = r
          BY <1>1, <4>1, <4>4 DEF Within
        <5>2. disk'[f][k] = {r} /\ lens'[f] = {l} /\ hdrs'[f] = {hdr[f]}
          BY <3>1, <4>1, <4>2, <5>1
        <5> QED
          BY <4>3, <4>4, <5>2 DEF Sound
      <4>5. CASE ~(Hdr + Unit * k <= l)
        <5>1. Hdr + hdr[f].w > l
          BY <1>2, <2>4, <4>3, <4>5
        <5>2. LostTail(f)'
          BY <4>1, <4>2, <5>1 DEF LostTail
        <5> QED
          BY <1>10, <2>1, <3>2, <5>2 DEF Booked
      <4> QED
        BY <4>4, <4>5
    <3> QED
      BY <3>3, <3>4
  <2> QED
    BY <2>5, <2>6
<1>11. CASE RepairWrites(f)
  <2>1. f \in files /\ phase = "repair" /\ hdrs'[f] = hdrs[f] \union {Wanted(f)}
           /\ Wanted(f).w = mem[f].size /\ UNCHANGED <<lens, disk>>
    BY <1>1, <1>11, RepairsAt
  <2>2. Unit * k <= mem[f].size
    <3>1. r \in disk[f][k]
      BY DEF Sound
    <3> QED
      BY <1>1, <2>1, <3>1 DEF Spans, Loads
  <2> QED
    BY <1>3, <2>1, <2>2 DEF Sound
<1>12. CASE RepairFlushes /\ f = at
  <2>1. /\ hdrs'[f] = {hdr[f]} /\ disk'[f][k] = {data[f][k]} /\ len[f] <= len'[f]
              /\ lens'[f] = {len[f], len'[f]}
    BY <1>1, <1>12, RepairedAt
  <2>2. len'[f] \in Nat
    BY <1>1, DiskNext, Sizes DEF DiskInv, DiskTypes
  <2> QED
    BY <1>1, <1>3, <2>1, <2>2
<1> QED
  BY <1>1, <1>4, <1>5, <1>6, <1>7, <1>8, <1>9, <1>10, <1>11, <1>12, SegSteps

\* What is booked stays so until load gets to it, and a power loss erases no more of it
LEMMA BookedNext ==
    ASSUME SInv, [Next]_vars, NEW f \in Segs, entry[f] = "here", f \notin files, Booked(f)
    PROVE  Booked(f)' /\ (Erased(f)' => Erased(f) \/ (Lefts /\ ~PowerLossLeaves))
<1>1. /\ BInv /\ DiskTypes /\ Numbers /\ Alone /\ Trim
      /\ lens[f] = {len[f]} /\ hdrs[f] = {hdr[f]} /\ (\A k \in Slots : disk[f][k] = {data[f][k]})
      /\ (hdr[f].kind # "ok" \/ LostTail(f)) /\ len[f] \in Nat /\ data[f] \in [Slots -> Cells]
  BY Sizes DEF SInv, PInv, BInv, DiskInv, DiskTypes, ControlInv, Booked, Firm
<1>2. Same(f) \/ LeftAs(f)
  <2>1. ~Stages(f) /\ ~Announces(f)
    <3>1. AddStages \/ AddPublishes => active \in files
      BY <1>1, SegsFacts DEF AddStages, AddPublishes, Idle, BInv, ControlInv, Phased
    <3> QED
      BY <3>1 DEF Stages, Announces
  <2>2. ~CommitWrites(f) /\ ~RepairWrites(f) /\ ~(RepairFlushes /\ f = at)
    BY <1>1, CommitsAt, RepairsAt, RepairedAt
  <2>3. ~Creates(f)
    BY <1>1, Sizes DEF Creates, Numbers
  <2> QED
    BY <1>1, <2>1, <2>2, <2>3, SegSteps
<1>3. CASE Same(f)
  <2>1. /\ hdr'[f] = hdr[f] /\ len'[f] = len[f] /\ data'[f] = data[f] /\ hdrs'[f] = {hdr[f]}
              /\ lens'[f] = {len[f]}
        /\ \A k \in Slots : disk'[f][k] = {data[f][k]}
    BY <1>1, <1>3 DEF Same
  <2>2. Booked(f)'
    BY <1>1, <2>1 DEF Booked, Firm, LostTail
  <2>3. Erased(f)' => Erased(f)
    BY <2>1 DEF Erased, AllZero
  <2> QED
    BY <2>2, <2>3
<1>4. CASE LeftAs(f) /\ PowerLossLeaves
  <2>1. f = at
    BY <1>4 DEF LeftAs
  <2>2. PICK e \in {"here", "none"}, l \in 0 .. Full : \E h, d :
                 /\ Left(at, e, l, h, d) /\ (entry[at] = "here" => e = "here")
                 /\ e = "here" => l \in lens[at]
                 /\ IF l < Hdr THEN h = Broken("zero") ELSE h \in HeaderLeft(at)
                 /\ l # 0 => \A i \in Slots : d[i] \in SlotLeft(at, i)
    BY <1>1, <1>4, LossAt
  <2>3. PICK h, d :
                 /\ Left(f, e, l, h, d) /\ e = "here" /\ l = len[f]
                 /\ IF l < Hdr THEN h = Broken("zero") ELSE h \in HeaderLeft(f)
                 /\ l # 0 => \A i \in Slots : d[i] \in SlotLeft(f, i)
    BY <1>1, <2>1, <2>2
  <2>4. HeaderLeft(f) = {hdr[f]} /\ \A i \in Slots : SlotLeft(f, i) = {data[f][i]}
    <3>1. HeaderLeft(f) = {hdr[f]}
      BY <1>1, HeaderAlone
    <3>2. ASSUME NEW i \in Slots PROVE SlotLeft(f, i) = {data[f][i]}
      <4>1. disk[f][i] = {data[f][i]}
        BY <1>1
      <4> QED
        BY ONLY <4>1, SlotAlone
    <3> QED
      BY <3>1, <3>2
  <2>5. /\ hdrs'[f] = {hdr'[f]} /\ lens'[f] = {len'[f]}
              /\ (\A i \in Slots : disk'[f][i] = {data'[f][i]})
        /\ \/ (l > 0 /\ len'[f] = l /\ hdr'[f] = h /\ data'[f] = Within(d, l))
           \/ (~(l > 0) /\ len'[f] = 0 /\ hdr'[f] = Broken("zero"))
    BY <1>1, <2>3, LeftAt
  <2>6. CASE ~(l > 0)
    <3>1. len[f] = 0
      BY <1>1, <2>3, <2>6
    <3> QED
      BY <2>5, <2>6, <3>1 DEF Booked, Firm, Broken, Erased
  <2>7. CASE l > 0 /\ l < Hdr
    <3>1. hdr'[f] = Broken("zero") /\ len'[f] = len[f]
      BY <2>3, <2>5, <2>7
    <3>2. ~Erased(f)'
      BY <1>1, <2>3, <2>7, <3>1, Sizes DEF Erased
    <3> QED
      BY <2>5, <3>1, <3>2 DEF Booked, Firm, Broken
  <2>8. CASE l > 0 /\ ~(l < Hdr)
    <3>1. hdr'[f] = hdr[f] /\ len'[f] = len[f] /\ data'[f] = Within(d, l)
             /\ \A i \in Slots : d[i] = data[f][i]
      <4>1. l # 0
        BY <1>1, <2>3, <2>8
      <4> QED
        BY <2>3, <2>4, <2>5, <2>8, <4>1
    <3>2. Booked(f)'
      BY <1>1, <2>5, <3>1 DEF Booked, Firm, LostTail
    <3>3. ASSUME Erased(f)' PROVE Erased(f)
      <4>1. hdr[f].kind = "zero" /\ data'[f] = Blank /\ len[f] >= Hdr
        BY <1>1, <2>3, <2>8, <3>1, <3>3, Sizes DEF Erased, AllZero
      <4>2. ASSUME NEW i \in Slots PROVE data[f][i] = None
        <5>1. Within(d, l)[i] = None /\ d[i] = data[f][i] /\ l = len[f]
          BY <2>3, <3>1, <4>1, <4>2 DEF Blank
        <5>2. CASE Hdr + Unit * i <= len[f]
          BY <5>1, <5>2 DEF Within
        <5>3. CASE ~(Hdr + Unit * i <= len[f]) /\ data[f][i] = Junk /\ Hdr + Unit * (i - 1) < len[f]
          <6>1. Junk # None
            BY DEF Junk, None
          <6>2. Within(d, l)[i] = Junk
            BY <5>1, <5>3, <6>1 DEF Within
          <6> QED
            BY <5>1, <6>1, <6>2
        <5> QED
          BY <1>1, <5>2, <5>3 DEF Trim
      <4>3. data[f] = Blank
        BY <1>1, <4>2 DEF Blank
      <4> QED
        BY <4>1, <4>3 DEF Erased, AllZero
    <3> QED
      BY <3>2, <3>3
  <2> QED
    BY <2>6, <2>7, <2>8
<1>5. CASE LeftAs(f) /\ ~PowerLossLeaves
  <2>1. Lefts
    BY <1>5 DEF LeftAs
  <2>2. PICK x \in Segs, l \in 0 .. Full : \E h :
              /\ Struck(x, l, h) /\ l <= len[x]
              /\ \/ (l < Hdr /\ h = Broken("zero")) \/ (h = hdr[x] /\ l < len[x] /\ ~(l < Hdr))
                 \/ (h.kind \in {"zero", "garbage", "torn", "foreign"} /\ l = len[x] /\ ~(l < Hdr))
    BY <1>1, <1>5, <2>1, StruckAt
  <2>3. PICK h :
              /\ Struck(x, l, h) /\ l <= len[x]
              /\ \/ (l < Hdr /\ h = Broken("zero")) \/ (h = hdr[x] /\ l < len[x] /\ ~(l < Hdr))
                 \/ (h.kind \in {"zero", "garbage", "torn", "foreign"} /\ l = len[x] /\ ~(l < Hdr))
    BY <2>2
  <2>4. Left(x, entry[x], l, h, data[x]) /\ l \in Nat
    BY <2>3, Sizes DEF Struck
  <2>5. CASE f # x
    <3>1. hdr'[f] = hdr[f] /\ len'[f] = len[f] /\ data'[f] = data[f] /\ hdrs'[f] = hdrs[f]
             /\ lens'[f] = lens[f] /\ disk'[f] = disk[f]
      BY <1>1, <2>4, <2>5 DEF Left, DiskTypes
    <3>2. Booked(f)'
      BY <1>1, <3>1 DEF Booked, Firm, LostTail
    <3> QED
      BY <1>5, <2>1, <3>2
  <2>6. CASE f = x
    <3>1. /\ hdrs'[f] = {hdr'[f]} /\ lens'[f] = {len'[f]}
                /\ \A i \in Slots : disk'[f][i] = {data'[f][i]}
      BY <1>1, <2>4, <2>6, LeftAt
    <3>2. hdr'[f].kind # "ok" \/ LostTail(f)'
      <4>1. CASE hdr'[f].kind = "ok"
        <5>1. len'[f] = l /\ hdr'[f] = h
          BY <1>1, <2>4, <2>6, <4>1, LeftAt DEF Broken
        <5>2. h = hdr[f] /\ l <= len[f]
          BY <2>3, <2>6, <4>1, <5>1 DEF Broken
        <5>3. Hdr + hdr[f].w > len[f] /\ hdr[f].w \in Nat
          BY <1>1, <4>1, <5>1, <5>2, HeaderIs DEF LostTail, DiskTypes
        <5>4. Hdr + hdr[f].w > l
          BY <1>1, <2>4, <5>2, <5>3, Sizes
        <5> QED
          BY <5>1, <5>2, <5>4 DEF LostTail
      <4> QED
        BY <4>1
    <3>3. Booked(f)'
      BY <3>1, <3>2 DEF Booked, Firm
    <3> QED
      BY <1>5, <2>1, <3>3
  <2> QED
    BY <2>5, <2>6
<1> QED
  BY <1>2, <1>3, <1>4, <1>5

\* A segment is not dropped while it holds what is due
LEMMA DropsSpare ==
    ASSUME SInv, [Next]_vars, Drops, NEW f \in files, f \notin files', NEW k \in Slots, NEW r \in Recs,
           r \in promised, r \notin Spent, Sound(f, k, r)
    PROVE  r \in Spent'
<1>1. BInv /\ DiskTypes /\ f \in Segs /\ phase = "open" /\ ~Stale(f) /\ Believed
  BY SegsFacts DEF SInv, PInv, BInv, DiskInv, CursorInv, Drops, CommitWrites, Free, Idle,
                   CommitFlushes, CycleDrops, Chased
<1>2. /\ hdr[f] \in hdrs[f] /\ hdr[f].kind = "ok" /\ data[f][k] = r /\ Unit * k <= hdr[f].w
      /\ hdr[f].w \in Nat /\ hdr[f].c \in Nat /\ k \in Nat /\ Unit = 2
  <2>1. hdr[f] \in hdrs[f] /\ hdr[f].kind = "ok" /\ data[f][k] = r
    BY <1>1 DEF BInv, DiskInv, Cached, Believed, Sound
  <2> QED
    BY <1>1, <2>1, HeaderIs, Sizes DEF Sound, DiskTypes
<1>3. hdr[f].c < Unit * k
  <2>1. r \in Due /\ r \in disk[f][k]
    BY DEF Due, Sound
  <2>2. ~(Unit * k <= hdr[f].c)
    BY <1>1, <1>2, <2>1 DEF Stale, Retires
  <2> QED
    BY <1>2, <2>2
<1>4. ASSUME NEW keep, DropCommitted(hdr, keep) PROVE FALSE
  <2>1. f \in Drained(hdr, keep)
    BY <1>4 DEF DropCommitted
  <2>2. hdr[f].c = hdr[f].w
    BY <1>1, <2>1, Sizes DEF Drained
  <2> QED
    BY <1>2, <1>3, <2>2
<1>5. ASSUME NEW x \in Segs, CommitWrites(x) PROVE r \in Spent'
  <2>1. PICK h : h = [hdr[x] EXCEPT !.c = @ + Unit, !.nc = @ + 1]
    OBVIOUS
  <2>2. DropCommitted([hdr EXCEPT ![x] = h], active) /\ Spent' = Spent \union Between(x, hdr[x].c, h.c)
    BY <1>5, <2>1 DEF CommitWrites, Spent
  <2>3. f \in Drained([hdr EXCEPT ![x] = h], active)
    BY <2>2 DEF DropCommitted
  <2>4. f <= f
    BY <1>1, Sizes
  <2>5. [hdr EXCEPT ![x] = h][f].c = [hdr EXCEPT ![x] = h][f].w
    BY <2>3, <2>4 DEF Drained
  <2>6. CASE f # x
    <3>1. hdr[f].c = hdr[f].w
      BY <1>1, <2>5, <2>6 DEF DiskTypes
    <3> QED
      BY <1>2, <1>3, <3>1
  <2>7. CASE f = x
    <3>1. h.c = h.w
      BY <1>1, <2>5, <2>7 DEF DiskTypes
    <3>2. h.w = hdr[f].w
      BY <1>1, <2>1, <2>7 DEF DiskTypes, Headers
    <3>3. r \in Between(f, hdr[f].c, h.c)
      BY <1>2, <1>3, <3>1, <3>2, Sizes DEF Between
    <3> QED
      BY <2>2, <2>7, <3>3
  <2> QED
    BY <2>6, <2>7
<1> QED
  BY <1>4, <1>5 DEF Drops, CommitFlushes, CycleDrops

\* The entry of a segment that is owed for stays
LEMMA EntryKept ==
    ASSUME SInv, Strange, Kept, [Next]_vars, NEW r \in Owed, r \in Owed', NEW f, f = home[r]
    PROVE  f \in Segs /\ entry[f] = "here" /\ entry'[f] = "here" /\ home'[r] = f
       /\ r \in 1 .. Len(home')
<1>1. BInv /\ DiskTypes /\ Numbers /\ Phased /\ entry \in [Segs -> Entries]
  BY DEF SInv, PInv, BInv, DiskInv, DiskTypes, ControlInv, Entries
<1>2. r \in 1 .. Len(home) /\ entry[f] = "here" /\ home \in Seq(Segs) /\ r \in promised
         /\ r \notin Spent /\ r \notin excused
  BY <1>1 DEF Kept, Owed, BInv, ControlInv, Plain
<1>3. f \in Segs
  BY <1>2
<1>4. r \in Recs
  BY <1>1, <1>2, Sizes DEF BInv, ControlInv, Plain
<1>5. home'[r] = f /\ r \in 1 .. Len(home')
  <2>1. CASE home' = home
    BY <1>2, <2>1
  <2>2. CASE AddStages
    <3>1. home' = Append(home, active) /\ active \in Segs
      BY <1>1, <2>2, StagesAt
    <3> QED
      BY <1>2, <3>1
  <2> QED
    BY <1>1, <2>1, <2>2, GhostSteps
<1>6. CASE Drops /\ f \in files /\ f \notin files'
  <2>1. PICK k \in Slots : Sound(f, k, r)
    BY <1>6 DEF Kept
  <2>2. r \in Spent'
    BY <1>2, <1>4, <1>6, <2>1, DropsSpare
  <2> QED
    BY <2>2 DEF Owed
<1>7. CASE entry'[f] = EntriesDurable(entry)[f]
  BY <1>2, <1>3, <1>5, <1>7 DEF EntriesDurable
<1>8. CASE LoadDrops /\ f = at
  <2>1. f \notin files /\ f \in Visible
    <3>1. phase = "load"
      BY <1>8 DEF LoadDrops
    <3>2. \A x \in files : x < at
      BY <1>1, <3>1 DEF Numbers
    <3> QED
      BY <1>2, <1>3, <1>8, <3>2, Sizes DEF Visible
  <2>2. ~Unfinished(at)
    <3>1. SUFFICES ASSUME Unfinished(at) PROVE FALSE
      OBVIOUS
    <3>2. PICK g \in Segs : g > f /\ entry[g] = "here"
      BY <1>8, <2>1, <3>1 DEF Kept, Unfinished
    <3>3. g <= f
      BY <1>8, <3>1, <3>2 DEF Unfinished, AtTail, Visible
    <3> QED
      BY <1>3, <3>2, <3>3, Sizes
  <2>3. hdr[at].kind # "foreign"
    <3>1. hdr[f] \in hdrs[f]
      BY <1>1, <1>3 DEF BInv, DiskInv, Cached
    <3> QED
      BY <1>2, <1>3, <1>8, <3>1 DEF Strange
  <2>4. promised' = promised \ Lost(at, 0)
    BY <1>8, <2>2, <2>3 DEF LoadDrops
  <2>5. Between(at, 0, 0) = {}
    <3>1. \A k \in Slots : ~(0 < Unit * k /\ Unit * k <= 0)
      BY Sizes
    <3> QED
      BY <3>1 DEF Between
  <2>6. r \in Lost(at, 0)
    BY <1>2, <1>8, <2>5 DEF Lost
  <2> QED
    BY <2>4, <2>6 DEF Owed
<1>9. CASE CreateLinks /\ f = making
  BY <1>1, <1>2, <1>9, Sizes DEF Numbers, CreateLinks
<1>10. entry'[f] = "here"
  BY <1>1, <1>2, <1>3, <1>6, <1>7, <1>8, <1>9, EntrySteps DEF EntriesDurable
<1> QED
  BY <1>2, <1>3, <1>5, <1>10

\* What is sound in a segment is not erased
LEMMA SoundLooks ==
    ASSUME BInv, [Next]_vars, NEW f \in Segs, NEW k \in Slots, NEW r \in Recs, Sound(f, k, r)'
    PROVE  ~Erased(f)'
<1>1. DiskTypes' /\ Cached'
  BY DiskNext DEF DiskInv
<1>2. data'[f][k] = r /\ Hdr + Unit * k <= len'[f] /\ len'[f] \in Nat /\ k \in Nat /\ k > 0
  BY <1>1, Sizes DEF Cached, DiskTypes, Sound
<1>3. len'[f] # 0
  BY <1>2, Sizes
<1>4. data'[f] # Blank
  BY <1>2, Sizes DEF Blank
<1> QED
  BY <1>3, <1>4 DEF Erased, AllZero

\* A segment that is erased from outside and owed for is not the last
LEMMA ErasedLater ==
    ASSUME SInv, [Next]_vars, Lefts, ~PowerLossLeaves, NEW f \in Segs, NEW r \in 1 .. Len(home),
           home[r] = f,
           r \notin excused', Erased(f)', Erased(f) /\ f \notin files => \E g \in Segs : g > f
              /\ entry[g] = "here"
    PROVE  \E g \in Segs : g > f /\ entry'[g] = "here"
<1>1. BInv /\ DiskTypes /\ files = {} /\ home \in Seq(Segs)
  BY LeftSteps DEF SInv, PInv, BInv, DiskInv, ControlInv, Phased, Plain
<1>2. PICK x \in Segs, l \in 0 .. Full : \E h : Struck(x, l, h)
  BY <1>1, StruckAt
<1>3. PICK h : Struck(x, l, h)
  BY <1>2
<1>4. Left(x, entry[x], l, h, data[x])
  BY <1>3 DEF Struck
<1>5. \A g \in Segs : entry'[g] = entry[g]
  BY <1>1, <1>4, LeftAt
<1>6. CASE f = x
  <2>1. SUFFICES ASSUME ~\E g \in Segs : g > f /\ entry[g] = "here" PROVE FALSE
    BY <1>5
  <2>2. excused' = excused \union {s \in DOMAIN home : home[s] = f}
    BY <1>3, <1>6, <2>1 DEF Struck
  <2>3. r \in DOMAIN home
    BY <1>1
  <2> QED
    BY <2>2, <2>3
<1>7. CASE f # x
  <2>1. hdr'[f] = hdr[f] /\ len'[f] = len[f] /\ data'[f] = data[f]
    BY <1>1, <1>4, <1>7 DEF Left, DiskTypes
  <2>2. Erased(f)
    BY <2>1 DEF Erased, AllZero
  <2> QED
    BY <1>1, <1>5, <2>2
<1> QED
  BY <1>6, <1>7

\* Load finds what it keeps of a damaged segment sound, and books the rest
LEMMA KeepsSound ==
    ASSUME SInv, [Next]_vars, LoadKeeps, NEW f, f = at, Booked(f), NEW r \in promised', home[r] = f,
           r \in Recs
    PROVE  \E k \in Slots : Sound(f, k, r)'
<1>1. BInv /\ PInv /\ f \in Segs /\ UNCHANGED <<hdr, hdrs, len, disk>> /\ fs' = fs
  BY KeptSize DEF SInv, PInv, LoadKeeps
<1>2. hdr[f].kind = "torn" \/ LostTail(f)
  <2>1. hdr[f] \in Headers
    BY <1>1 DEF BInv, DiskInv, DiskTypes
  <2> QED
    BY <2>1, HeaderIs DEF Booked, LoadKeeps, Unreadable, HeaderKinds
<1>3. r \in Between(f, 0, mem'[f].size)
  BY <1>2 DEF LoadKeeps, Lost
<1>4. PICK k \in Slots : data[f][k] = r /\ Unit * k <= mem'[f].size
  BY <1>3 DEF Between
<1>5. PICK m \in Mems : MemIs(m, len[f]) /\ mem' = [mem EXCEPT ![f] = m]
  BY <1>1, KeptIs
<1>6. mem'[f] = m /\ m.size \in Nat /\ Hdr + m.size <= len[f] /\ len[f] \in Nat /\ k \in Nat
  BY <1>1, <1>5, Sizes DEF BInv, CursorInv, MemSane, MemIs, Mems, DiskInv, DiskTypes
<1>7. Hdr + Unit * k <= len[f]
  BY <1>4, <1>6, Sizes
<1>8. hdr[f].kind = "ok" => Unit * k <= hdr[f].w
  <2>1. hdr[f].kind = "ok" => mem'[f].size <= hdr[f].w
    BY <1>1, KeptSize
  <2>2. hdr[f].w \in Nat
    BY <1>1, HeaderIs DEF BInv, DiskInv, DiskTypes
  <2> QED
    BY <1>4, <1>6, <2>1, <2>2, Sizes
<1>9. lens[f] = {len[f]} /\ hdrs[f] = {hdr[f]} /\ disk[f][k] = {r}
  BY <1>4 DEF Booked, Firm
<1>10. UNCHANGED lens
  BY <1>1 DEF fs
<1>11. Sound(f, k, r)'
  BY <1>1, <1>7, <1>8, <1>9, <1>10 DEF Sound
<1> QED
  BY <1>11

\* What was owed before is kept
LEMMA OldKept ==
    ASSUME SInv, Strange, Kept, [Next]_vars, NEW r \in Owed, r \in Owed', NEW f, f = home[r]
    PROVE  /\ f \in Segs /\ entry'[f] = "here" /\ home'[r] = f /\ r \in 1 .. Len(home')
           /\ \/ \E k \in Slots : Sound(f, k, r)'
              \/ Booked(f)' /\ f \notin files'
           /\ f \notin files' /\ Erased(f)' => \E g \in Segs : g > f /\ entry'[g] = "here"
<1>1. f \in Segs /\ entry[f] = "here" /\ entry'[f] = "here" /\ home'[r] = f /\ r \in 1 .. Len(home')
  BY EntryKept
<1>2. /\ BInv /\ DiskTypes /\ Numbers /\ Phased /\ BInv' /\ r \in 1 .. Len(home) /\ r \in promised
            /\ r \notin Spent
      /\ r \in promised' /\ r \notin excused' /\ r \in Recs /\ entry \in [Segs -> Entries]
  <2>1. BInv /\ BInv' /\ r \in 1 .. Len(home) /\ r \in promised /\ r \notin Spent /\ r \in promised'
           /\ r \notin excused'
    BY BInvNext DEF SInv, PInv, Owed, Kept
  <2>2. DiskTypes /\ Numbers /\ Phased /\ entry \in [Segs -> Entries]
    BY <2>1 DEF BInv, DiskInv, DiskTypes, ControlInv, Entries
  <2>3. Len(home) <= MaxRec /\ Len(home) \in Nat
    BY <2>1 DEF BInv, ControlInv, Plain
  <2>4. r \in Recs
    BY <2>1, <2>3, Sizes
  <2> QED
    BY <2>1, <2>2, <2>4
<1>3. f \notin files /\ Erased(f) => \E g \in Segs : g > f /\ entry[g] = "here"
  BY DEF Kept
<1>4. ASSUME NEW k \in Slots, Sound(f, k, r)'
      PROVE  ~Erased(f)'
  BY <1>1, <1>2, <1>4, SoundLooks
<1>5. CASE Lefts /\ ~PowerLossLeaves
  <2>1. files' = {} /\ files = {}
    BY <1>2, <1>5, LeftSteps DEF store, Phased
  <2>2. Booked(f)' \/ \E k \in Slots : Sound(f, k, r)'
    BY <1>1, <1>2, <2>1, SoundNext, BookedNext DEF Kept
  <2>3. Erased(f)' => \E g \in Segs : g > f /\ entry'[g] = "here"
    BY <1>1, <1>2, <1>3, <1>5, ErasedLater
  <2> QED
    BY <1>1, <2>1, <2>2, <2>3
<1>6. CASE ~(Lefts /\ ~PowerLossLeaves)
  <2>1. CASE \E k \in Slots : Sound(f, k, r)
    <3>1. PICK k \in Slots : Sound(f, k, r)
      BY <2>1
    <3>2. Sound(f, k, r)'
      BY <1>1, <1>2, <1>6, <3>1, SoundNext
    <3> QED
      BY <1>1, <1>4, <3>2
  <2>2. CASE Booked(f) /\ f \notin files
    <3>1. Booked(f)' /\ (Erased(f)' => Erased(f))
      BY <1>1, <1>6, <2>2, BookedNext
    <3>2. CASE f \in files'
      <4>1. LoadKeeps /\ f = at
        <5>1. CASE LoadKeeps
          BY <1>2, <2>2, <3>2, <5>1, KeptSize
        <5>2. CASE CreateEnds
          BY <1>1, <1>2, <2>2, <3>2, <5>2, Sizes DEF CreateEnds, Linked, Numbers
        <5>3. LoadKeeps \/ CreateEnds \/ files' \subseteq files
          <6>1. CASE Running
            <7>1. ASSUME NEW g \in Segs, CommitWrites(g) PROVE files' \subseteq files
              BY <1>2, <7>1, CommitKeepsActive
            <7> QED
              BY <1>2, <6>1, <7>1, QuietSteps DEF Quiet, FlushAll, CommitFlushes, CycleDrops,
                                                  DropCommitted, CreateLinks, store
          <6>2. CASE Failing
            BY <6>2 DEF Failing, Crash, PowerLoss, Dies, PowerLossLeaves, Cut, Overwritten, Struck,
                        store
          <6>3. CASE Loading
            BY <6>3 DEF Loading, OpenBegins, LoadDrops, LoadConcludes, RepairWrites, RepairFlushes,
                        OpenReturns, store
          <6> QED
            BY <6>1, <6>2, <6>3 DEF Next, vars, store
        <5> QED
          BY <2>2, <3>2, <5>1, <5>2, <5>3
      <4>2. \E k \in Slots : Sound(f, k, r)'
        BY <1>2, <2>2, <4>1, KeepsSound
      <4> QED
        BY <1>1, <1>4, <4>2
    <3>3. CASE f \notin files'
      <4>1. ASSUME Erased(f)' PROVE \E g \in Segs : g > f /\ entry'[g] = "here"
        <5>1. PICK g \in Segs : g > f /\ entry[g] = "here"
          BY <1>3, <2>2, <3>1, <4>1
        <5>2. f \in Visible /\ f # making
          BY <1>1, <1>2, Sizes DEF Visible, Numbers
        <5>3. ~Drops
          <6>1. Drops => phase = "open"
            BY DEF Drops, CommitWrites, Free, Idle, CommitFlushes, CycleDrops
          <6>2. phase # "open"
            BY <2>2, <5>2 DEF SInv, AllLive
          <6> QED
            BY <6>1, <6>2
        <5>4. ~(CreateLinks /\ g = making)
          BY <1>2, <5>1, Sizes DEF Numbers, CreateLinks
        <5>5. ~(LoadDrops /\ g = at)
          <6>1. phase = "load" => f \in files \/ f >= at
            BY <1>2, <5>2 DEF Numbers
          <6>2. g \in Nat /\ f \in Nat
            BY <1>1, Sizes
          <6> QED
            BY <2>2, <5>1, <6>1, <6>2 DEF LoadDrops
        <5>6. EntriesDurable(entry)[g] = "here"
          BY <1>2, <5>1 DEF EntriesDurable
        <5>7. entry'[g] = "here"
          BY <1>2, <5>1, <5>3, <5>4, <5>5, <5>6, EntrySteps
        <5> QED
          BY <5>1, <5>7
      <4> QED
        BY <1>1, <3>1, <3>3, <4>1
    <3> QED
      BY <3>2, <3>3
  <2> QED
    BY <2>1, <2>2 DEF Kept
<1> QED
  BY <1>5, <1>6

LEMMA KeptNext ==
    ASSUME SInv, Strange, AddSound, Kept, [Next]_vars
    PROVE  Kept'
<1> DEFINE K(f, r) == /\ r \in 1 .. Len(home') /\ home'[r] = f /\ entry'[f] = "here"
                      /\ \/ \E k \in Slots : Sound(f, k, r)'
                         \/ Booked(f)' /\ f \notin files'
                      /\ f \notin files' /\ Erased(f)' => \E g \in Segs : g > f /\ entry'[g] = "here"
<1> SUFFICES ASSUME NEW r \in Owed' PROVE \E f : K(f, r)
  BY DEF Kept
<1>1. /\ BInv /\ PInv /\ DiskTypes /\ Cached /\ r \in promised' /\ r \notin Spent' /\ r \notin excused'
      /\ excused \subseteq excused' /\ Slotted /\ Homed
  BY GhostSteps DEF SInv, PInv, BInv, DiskInv, Owed
<1>2. CASE r \in Owed
  BY <1>2, OldKept
<1>3. ASSUME NEW f \in files, f \in files', home' = home, entry'[f] = "here", NEW k \in Slots,
             data[f][k] = r, r \in Recs,
             disk'[f][k] = {r}, lens'[f] = {len[f]}, hdrs'[f] = {hdr[f]},
             Hdr + Unit * k <= len[f], hdr[f].kind = "ok" => Unit * k <= hdr[f].w
      PROVE  K(f, r)
  <2>1. r \in 1 .. Len(home) /\ home[r] = f
    <3>1. r \in disk[f][k] /\ f \in Segs
      BY <1>1, <1>3, SegsFacts DEF Cached
    <3> QED
      BY <1>1, <1>3, <3>1 DEF Homed
  <2>2. Sound(f, k, r)'
    BY <1>3 DEF Sound
  <2> QED
    BY <1>3, <2>1, <2>2
<1>4. CASE AddSettles /\ r = adding /\ entry[active] = "here"
  <2>0. PICK f : f = active
    OBVIOUS
  <2>1. /\ f \in Segs /\ f \in files /\ phase = "open" /\ files' = files /\ hdrs'[f] = {hdr[f]}
        /\ UNCHANGED <<home, lens, disk, entry>> /\ r \in Between(f, 0, hdr[f].w)
    BY <1>1, <1>4, <2>0, SegsFacts DEF AddSettles, BInv, ControlInv, Phased, DiskTypes, Published
  <2>2. r \in Recs /\ \E k \in Slots : data[f][k] = r /\ Unit * k <= hdr[f].w
    BY <1>1, <2>1, BetweenIs
  <2>3. PICK k \in Slots : data[f][k] = r /\ Unit * k <= hdr[f].w
    BY <2>2
  <2>4. lens[f] = {len[f]} /\ disk[f][k] = {r}
    BY <1>4, <2>0, <2>3 DEF AddSound, AddSettles
  <2>5. Hdr + Unit * k <= len[f]
    <3>1. Hdr + hdr[f].w <= len[f]
      BY <1>1, <2>1 DEF BInv, CursorInv, Believed
    <3>2. hdr[f].w \in Nat /\ len[f] \in Nat /\ k \in Nat
      BY <1>1, <2>1, HeaderIs, Sizes DEF DiskTypes
    <3> QED
      BY <2>3, <3>1, <3>2, Sizes
  <2>6. K(f, r)
    <3> HIDE DEF K
    <3> QED
      BY <1>3, <1>4, <2>0, <2>1, <2>2, <2>3, <2>4, <2>5
  <2> QED
    BY <2>6
<1>5. CASE Flushed(r)
  <2>1. PICK f \in dirty \intersect files : r \in Backlog(f)
    BY <1>5 DEF Flushed
  <2>2. /\ f \in Segs /\ f \in files /\ f \in files' /\ home' = home /\ phase = "open"
        /\ hdrs'[f] = {hdr[f]} /\ lens'[f] = {len[f]} /\ disk'[f] = [k \in Slots |-> {data[f][k]}]
        /\ entry' = EntriesDurable(entry)
    BY <1>1, <1>5, <2>1, SegsFacts DEF Flushed, FlushAll, Idle
  <2>3. entry'[f] = "here"
    BY <1>1, <2>2, SegsFacts DEF Visible, EntriesDurable
  <2>4. r \in Recs /\ \E k \in Slots : data[f][k] = r /\ Unit * k <= hdr[f].w
    BY <1>1, <2>1, <2>2, BetweenIs DEF Backlog
  <2>5. PICK k \in Slots : data[f][k] = r /\ Unit * k <= hdr[f].w
    BY <2>4
  <2>6. Hdr + Unit * k <= len[f]
    <3>1. Hdr + hdr[f].w <= len[f]
      BY <1>1, <2>2 DEF BInv, CursorInv, Believed
    <3>2. hdr[f].w \in Nat /\ len[f] \in Nat /\ k \in Nat
      BY <1>1, <2>2, HeaderIs, Sizes DEF DiskTypes
    <3> QED
      BY <2>5, <3>1, <3>2, Sizes
  <2>7. disk'[f][k] = {r}
    BY <2>2, <2>5
  <2>8. K(f, r)
    <3> HIDE DEF K
    <3> QED
      BY <1>3, <2>2, <2>3, <2>4, <2>5, <2>6, <2>7
  <2> QED
    BY <2>8
<1>6. CASE Replayed(r)
  <2>1. PICK f \in files : Settled(f) /\ r \in Between(f, mem'[f].c, mem'[f].size)
    BY <1>6 DEF Replayed
  <2>2. f \in Segs /\ files' = files /\ phase = "conclude" /\ UNCHANGED <<home, fs>>
           /\ mem'[f].size = mem[f].size
    BY <1>1, <1>6, ReconciledSize DEF Replayed, LoadConcludes
  <2>3. r \in Recs /\ \E k \in Slots : data[f][k] = r /\ Unit * k <= mem[f].size
    BY <1>1, <2>1, <2>2, BetweenIs
  <2>4. PICK k \in Slots : data[f][k] = r /\ Unit * k <= mem[f].size
    BY <2>3
  <2>5. MemRead
    BY DEF SInv
  <2>6. /\ mem[f].size \in Nat /\ Hdr + mem[f].size <= len[f] /\ (hdr[f].kind = "ok"
              => mem[f].size <= hdr[f].w)
    BY <1>1, <2>2, <2>5, ReadIs
  <2>7. hdr[f].w \in Nat /\ len[f] \in Nat /\ k \in Nat
    BY <1>1, <2>2, HeaderIs, Sizes DEF DiskTypes
  <2>8. Hdr + Unit * k <= len[f] /\ (hdr[f].kind = "ok" => Unit * k <= hdr[f].w)
    BY <2>4, <2>6, <2>7, Sizes
  <2>9. entry'[f] = "here" /\ disk'[f][k] = {r} /\ lens'[f] = {len[f]} /\ hdrs'[f] = {hdr[f]}
    BY <2>1, <2>2, <2>4 DEF Settled, fs
  <2>10. K(f, r)
    <3> HIDE DEF K
    <3> QED
      BY <1>3, <2>2, <2>3, <2>4, <2>8, <2>9
  <2> QED
    BY <2>10
<1>7. (r \in promised /\ r \notin Spent) \/ (AddSettles /\ r = adding /\ entry[active] = "here")
         \/ Flushed(r) \/ Replayed(r)
  <2>1. CASE AddSettles
    BY <1>1, <2>1 DEF AddSettles, Spent
  <2>2. CASE promised' \subseteq promised /\ Spent \subseteq Spent'
    BY <1>1, <2>2
  <2>3. CASE AddStages
    BY <1>1, <2>3 DEF AddStages, Spent
  <2>4. CASE FlushAll
    BY <1>1, <2>4 DEF FlushAll, Flushed, Spent
  <2>5. CASE LoadConcludes /\ files # {}
    BY <1>1, <2>5 DEF LoadConcludes, Replayed, Spent
  <2> QED
    BY <1>1, <2>1, <2>2, <2>3, <2>4, <2>5, GhostSteps
<1>8. CASE r \in promised /\ r \notin Spent
  BY <1>1, <1>2, <1>8 DEF Owed
<1> QED
  BY <1>4, <1>5, <1>6, <1>7, <1>8

KInv == SInv /\ Strange /\ AddSound /\ Kept

LEMMA KInvInit == Init => KInv
<1> SUFFICES ASSUME Init PROVE KInv
  OBVIOUS
<1>1. SInv
  BY SInvInit
<1>2. Strange
  <2>1. ASSUME NEW f \in Segs, NEW h \in hdrs[f] PROVE h.kind # "foreign"
    BY <2>1 DEF Init, Header, Broken
  <2> QED
    BY <2>1 DEF Strange
<1>3. AddSound /\ Kept
  BY DEF Init, AddSound, Kept, Owed
<1> QED
  BY <1>1, <1>2, <1>3 DEF KInv

LEMMA KInvAlways == Spec => []KInv
<1>1. KInv /\ [Next]_vars => Strange' /\ AddSound' /\ Kept'
  BY StrangeNext, AddSoundNext, KeptNext DEF KInv
<1>2. SInv /\ KInv /\ [Next]_vars /\ SInv' => KInv'
  BY <1>1 DEF KInv
<1> QED
  BY KInvInit, SInvAlways, <1>2, PTL DEF Spec

\* A record that reached stable storage under a header that publishes it is still there to
\* be delivered, after any number of power losses, interrupted creates and interrupted
\* repairs, and for every number of segments and records, unless its retirement was asked
\* for, a repair that died between its header and its flush left it orphaned, load booked it as lost, or the damage makes its segment look of another version or
\* like a create that was interrupted (loadFile, abortedCreate, dropSegment).
THEOREM WhatIsPromisedIsKept == Spec => []PromisedKept
<1>1. KInv => PromisedKept
  <2> SUFFICES ASSUME KInv, Serving, NEW r \in promised, r \notin Spent, r \notin excused
               PROVE  r \in Readable
    BY DEF PromisedKept, Spent
  <2>1. BInv /\ PInv /\ Chased /\ AllLive /\ phase = "open" /\ making = None /\ DiskTypes /\ Cached
    BY DEF KInv, SInv, PInv, BInv, DiskInv, Serving
  <2>2. PICK f : f = home[r]
    OBVIOUS
  <2>3. r \in Owed
    BY DEF Owed
  <2>4. r \in 1 .. Len(home) /\ entry[f] = "here" /\ ((\E k \in Slots : Sound(f, k, r))
           \/ f \notin files)
    BY <2>2, <2>3 DEF KInv, Kept
  <2>5. f \in Segs /\ r \in Recs
    <3>1. home \in Seq(Segs) /\ Len(home) <= MaxRec /\ Len(home) \in Nat
      BY <2>1 DEF BInv, ControlInv, Plain
    <3> QED
      BY <2>2, <2>4, <3>1, Sizes
  <2>6. f \in files
    BY <2>1, <2>4, <2>5, Sizes DEF AllLive, Visible
  <2>7. PICK k \in Slots : Sound(f, k, r)
    BY <2>4, <2>6
  <2>8. /\ data[f][k] = r /\ r \in disk[f][k] /\ hdr[f] \in hdrs[f] /\ hdr[f].kind = "ok"
    BY <2>1, <2>5, <2>6, <2>7 DEF Cached, Sound, BInv, CursorInv, Believed
  <2>9. Unit * k <= hdr[f].w /\ hdr[f].c \in Nat /\ Unit * k \in Nat
    BY <2>1, <2>5, <2>7, <2>8, HeaderIs, Sizes DEF Sound, DiskTypes
  <2>10. hdr[f].c < Unit * k
    <3>1. r \in Due
      BY <2>5 DEF Due
    <3>2. ~(Unit * k <= hdr[f].c)
      BY <2>1, <2>5, <2>8, <3>1 DEF Chased, Stale, Retires
    <3> QED
      BY <2>9, <3>2
  <2>11. r \in Backlog(f)
    BY <2>5, <2>8, <2>9, <2>10, Sizes DEF Backlog, Between
  <2> QED
    BY <2>6, <2>11 DEF Readable
<1> QED
  BY <1>1, KInvAlways, PTL

=============================================================================
