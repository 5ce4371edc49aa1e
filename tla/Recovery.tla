------------------------------ MODULE Recovery ------------------------------
(***************************************************************************)
(* What an open makes of the directory a power loss left behind            *)
(* (recovery.go, header.go), and what the running store (store.go) writes  *)
(* and flushes so that it can.                                             *)
(*                                                                         *)
(* A segment is a header and Cap slots, one record each.  Lengths and      *)
(* cursors are in units: the header and a record take two, so that a file  *)
(* can end inside either.  Cursors count from the end of the header.       *)
(*                                                                         *)
(* The disk (external): what is written is in the page cache, seen by      *)
(* every later read, and on stable storage after an fsync.  A power loss   *)
(* leaves any mixture of the old and the new contents of what was not      *)
(* fsynced: header images, slots, file lengths, directory entries.         *)
(***************************************************************************)
EXTENDS Integers, FiniteSets, Sequences, FiniteSetsExt

CONSTANTS
    MaxSeg,      \* bound: segments are numbered 1 .. MaxSeg
    Cap,         \* records in a segment
    MaxRec,      \* bound: records ever staged
    MaxLoss,     \* bound: power losses and crashes
    Policies,    \* the sync policies: "perOp", "batched" (SyncEvery), "noSync"
    MaxDamage,   \* bound, for each policy: segments cut or overwritten from outside
    Framing      \* slots whose bytes, when they do not verify, still look like a frame

ASSUME RecoveryAssumption ==
    /\ {MaxSeg, Cap, MaxRec} \subseteq Nat \ {0}
    /\ MaxLoss \in Nat
    /\ Policies \subseteq {"perOp", "batched", "noSync"}
    /\ MaxDamage \in [Policies -> Nat]
    /\ Framing \subseteq (1 .. MaxSeg) \X (1 .. Cap)

Segs  == 1 .. MaxSeg
Recs  == 1 .. MaxRec
Slots == 1 .. Cap
None  == 0               \* zero fill, or no segment
Junk  == -1              \* bytes that are not zero and do not verify
Hdr   == 2               \* headerSize
Unit  == 2               \* a framed record
Full  == Hdr + Unit * Cap

VARIABLES
    policy,
    phase,       \* "open", "losing", "off", "load", "conclude", "fresh", "repair", "flush"
    at,          \* the segment the power loss, load or its repair has got to
    \* The page cache, and what a power loss may leave of it:
    entry,       \* a directory entry: "none", "new" or "gone" (not durable), "here"
    len, lens,   \* a file's length
    hdr, hdrs,   \* its header
    data, disk,  \* what each of its slots holds
    \* The store:
    files,       \* the live segments, in the order of their numbers
    mem,         \* per segment, while load is at work: size, counts, commit cursor...
    nextNum,
    dirty,       \* live segments with writes of this process that it has not fsynced
    making,      \* the segment createFile is at work on, or None
    adding,      \* the record staged and not yet acknowledged, or None
    committing,  \* the segment whose commit header is written and not flushed, or None
    \* History:
    home,        \* of each record ever staged, the segment
    promised,    \* records on stable storage, with the header that publishes them and
                 \* the entry that names their segment, and not booked as lost since
    asked,       \* records whose retirement was asked for and not taken back
    orphaned,    \* records that a header may come back to retire, because the process died
                 \* between writing the one of its repair and flushing it
    discarded,   \* records given up before a header published them
    rebuilt,     \* segments whose header was rebuilt from the frames that verify
    losses, damage,
    excused      \* records in a segment made to look of an unknown version, or unfinished

fs    == <<entry, len, lens, hdr, hdrs, data, disk>>
store == <<files, mem, nextNum, dirty, making, adding, committing>>
ghost == <<home, promised, asked, orphaned, discarded, rebuilt, losses, damage, excused>>
vars  == <<policy, phase, at, fs, store, ghost>>

Header(w, c, nw, nc) == [kind |-> "ok", w |-> w, c |-> c, nw |-> nw, nc |-> nc]
Broken(k) == [kind |-> k, w |-> 0, c |-> 0, nw |-> 0, nc |-> 0]
NoMem == [size |-> 0, nw |-> 0, nc |-> 0, c |-> 0, truncated |-> FALSE, reset |-> FALSE]
Blank == [k \in Slots |-> None]

Init ==
    /\ policy \in Policies
    /\ phase = "open" /\ at = 0
    /\ entry = [f \in Segs |-> IF f = 1 THEN "here" ELSE "none"]
    /\ len = [f \in Segs |-> IF f = 1 THEN Full ELSE 0]
    /\ lens = [f \in Segs |-> {len[f]}]
    /\ hdr = [f \in Segs |-> IF f = 1 THEN Header(0, 0, 0, 0) ELSE Broken("zero")]
    /\ hdrs = [f \in Segs |-> {hdr[f]}]
    /\ data = [f \in Segs |-> Blank] /\ disk = [f \in Segs |-> [k \in Slots |-> {None}]]
    /\ files = {1} /\ mem = [f \in Segs |-> NoMem] /\ nextNum = 2 /\ dirty = {}
    /\ making = None /\ adding = None /\ committing = None
    /\ home = <<>> /\ promised = {} /\ asked = {} /\ orphaned = {} /\ discarded = {} /\ rebuilt = {}
    /\ losses = 0 /\ damage = 0 /\ excused = {}

-----------------------------------------------------------------------------
(* The disk (external) *)

\* WriteAt of a header, into the page cache
WriteHeader(f, h) ==
    /\ dirty' = dirty \union {f}
    /\ hdr' = [hdr EXCEPT ![f] = h]
    /\ hdrs' = [hdrs EXCEPT ![f] = @ \union {h}]

\* fsync of f: its length, its slots and its header
FsyncData(f) ==
    /\ lens' = [lens EXCEPT ![f] = {len[f]}]
    /\ disk' = [disk EXCEPT ![f] = [k \in Slots |-> {data[f][k]}]]

Fsync(f) ==
    /\ FsyncData(f) /\ hdrs' = [hdrs EXCEPT ![f] = {hdr[f]}]
    /\ dirty' = dirty \ {f}

\* syncDir
EntriesDurable(e) ==
    [f \in Segs |-> CASE e[f] = "new" -> "here" [] e[f] = "gone" -> "none" [] OTHER -> e[f]]

Visible == {f \in Segs : entry[f] \in {"new", "here"}}

-----------------------------------------------------------------------------
(* Adds and commits *)

active == Max(files)

\* The records of f between commit cursor c and write cursor w
Between(f, c, w) ==
    {data[f][k] : k \in {k \in Slots : c < Unit * k /\ Unit * k <= w}} \ {None, Junk}

Published(f) == Between(f, 0, hdr[f].w)
Backlog(f) == Between(f, hdr[f].c, hdr[f].w)

\* The mutex is free for an append
Idle == phase = "open" /\ making = None /\ committing = None

\* and for anything else: only a leader of the per-operation policy releases it between
\* the two halves of an append
Free == Idle /\ (adding # None => policy = "perOp")

\* The record's bytes go down behind the write cursor
AddStages ==
    LET k == hdr[active].w \div Unit + 1
        r == Len(home) + 1
        l == IF len[active] < Hdr + Unit * k THEN Hdr + Unit * k ELSE len[active] IN
    /\ Idle /\ adding = None /\ r \in Recs /\ k \in Slots
    /\ home' = Append(home, active) /\ adding' = r
    /\ data' = [data EXCEPT ![active][k] = r]
    /\ disk' = [disk EXCEPT ![active][k] = @ \union {r}]
    /\ dirty' = dirty \union {active}
    /\ len' = [len EXCEPT ![active] = l] /\ lens' = [lens EXCEPT ![active] = @ \union {l}]
    /\ UNCHANGED <<policy, phase, at, entry, hdr, hdrs, files, mem, nextNum, making,
                   committing, promised, asked, orphaned, discarded, rebuilt, losses, damage,
                   excused>>

\* The codec panics behind it, or the header cannot be written: discardStaged
AddDiscards ==
    /\ Idle /\ adding # None /\ adding \notin Published(active)
    /\ adding' = None /\ discarded' = discarded \union {adding}
    /\ UNCHANGED <<policy, phase, at, fs, files, mem, nextNum, dirty, making, committing, home,
                   promised, asked, orphaned, rebuilt, losses, damage, excused>>

\* Mutant: the header is written before the data is fsynced
PublishesAtOnce(f, h) ==
    /\ hdr' = [hdr EXCEPT ![f] = h] /\ hdrs' = [hdrs EXCEPT ![f] = @ \union {h}]
    /\ UNCHANGED <<disk, lens>>

\* Under the per-operation policy the file is fsynced before its header is written
Publishes(f, h) ==
    /\ hdr' = [hdr EXCEPT ![f] = h]
    /\ IF policy = "perOp"
       THEN FsyncData(f) /\ hdrs' = [hdrs EXCEPT ![f] = {hdr[f], h}]
       ELSE UNCHANGED <<disk, lens>> /\ hdrs' = [hdrs EXCEPT ![f] = @ \union {h}]

AddPublishes ==
    LET h == hdr[active] IN
    /\ Idle /\ adding # None /\ adding \notin Published(active)
    /\ Publishes(active, [h EXCEPT !.w = @ + Unit, !.nw = @ + 1])
    /\ dirty' = dirty \union {active}
    /\ adding' = IF policy = "perOp" THEN adding ELSE None
    /\ UNCHANGED <<policy, phase, at, entry, len, data, files, mem, nextNum, making,
                   committing, ghost>>

\* The header's fsync, after which Add returns nil
AddSettles ==
    /\ phase = "open" /\ adding # None /\ adding \in Published(active)
    /\ hdrs' = [hdrs EXCEPT ![active] = {hdr[active]}] /\ dirty' = dirty \ {active}
    /\ promised' = promised \union {r \in {adding} : entry[active] = "here"}
    /\ adding' = None
    /\ UNCHANGED <<policy, phase, at, entry, len, lens, hdr, data, disk, files, mem, nextNum,
                   making, committing, home, asked, orphaned, discarded, rebuilt, losses, damage,
                   excused>>

\* flushBatch, Sync, Close: every dirty segment and then the directory
FlushAll ==
    LET due == dirty \intersect files
        kept == UNION {Backlog(f) : f \in due}
        on(cache, left) == [f \in Segs |-> IF f \in due THEN cache[f] ELSE left[f]] IN
    /\ Idle /\ adding = None
    /\ hdrs' = on([f \in Segs |-> {hdr[f]}], hdrs)
    /\ lens' = on([f \in Segs |-> {len[f]}], lens)
    /\ disk' = on([f \in Segs |-> [k \in Slots |-> {data[f][k]}]], disk)
    /\ entry' = EntriesDurable(entry)
    /\ dirty' = {}
    /\ promised' = promised \union (kept \ discarded)
    /\ asked' = asked \ kept /\ orphaned' = orphaned \ kept
    /\ UNCHANGED <<policy, phase, at, len, hdr, data, files, mem, nextNum, making, adding,
                   committing, home, discarded, rebuilt, losses, damage, excused>>

\* evictOpen: one segment, whenever the open-file cap says so
FlushOne(f) ==
    /\ Idle /\ adding = None /\ f \in dirty \intersect files
    /\ Fsync(f)
    /\ UNCHANGED <<policy, phase, at, entry, len, hdr, data, files, mem, nextNum, making,
                   adding, committing, ghost>>

\* dropCommitted: the drained segments before keep, whose unlinks are not made durable
Drained(h, keep) == {f \in files : f < keep
                       /\ \A g \in files : g <= f => h[g].c = h[g].w}

DropCommitted(h, keep) ==
    /\ entry' = [f \in Segs |-> IF f \in Drained(h, keep) THEN "gone" ELSE entry[f]]
    /\ files' = files \ Drained(h, keep)

\* A commit retires the record at the commit cursor
CommitWrites(f) ==
    LET h == [hdr[f] EXCEPT !.c = @ + Unit, !.nc = @ + 1] IN
    /\ Free /\ f \in files /\ hdr[f].c < hdr[f].w
    /\ \A g \in files : g < f => hdr[g].c = hdr[g].w
    /\ WriteHeader(f, h)
    /\ asked' = asked \union Between(f, hdr[f].c, h.c)
    /\ IF policy = "perOp" THEN committing' = f /\ UNCHANGED <<entry, files>>
       ELSE DropCommitted([hdr EXCEPT ![f] = h], active) /\ UNCHANGED committing
    /\ UNCHANGED <<policy, phase, at, len, lens, data, disk, mem, nextNum, making, adding,
                   home, promised, orphaned, discarded, rebuilt, losses, damage, excused>>

CommitFlushes ==
    /\ phase = "open" /\ committing # None
    /\ Fsync(committing)
    /\ DropCommitted(hdr, active)
    /\ committing' = None
    /\ UNCHANGED <<policy, phase, at, len, hdr, data, mem, nextNum, making, adding, ghost>>

-----------------------------------------------------------------------------
(* createFile, from cycle and from startFresh *)

\* cycle, on a full segment: the drained ones go, this one among them
CycleDrops ==
    /\ Idle /\ adding = None /\ hdr[active].w = Unit * Cap /\ nextNum \in Segs
    /\ Len(home) < MaxRec
    /\ DropCommitted(hdr, nextNum)
    /\ making' = nextNum
    /\ UNCHANGED <<policy, phase, at, len, lens, hdr, hdrs, data, disk, mem, nextNum, dirty,
                   adding, committing, ghost>>

\* O_CREATE; an unlink of the same name, if it is not durable yet, is ordered before it
CreateLinks ==
    /\ making # None /\ entry[making] \notin {"new", "here"}
    /\ entry' = [entry EXCEPT ![making] = "new"]
    /\ len' = [len EXCEPT ![making] = 0] /\ lens' = [lens EXCEPT ![making] = {0}]
    /\ hdr' = [hdr EXCEPT ![making] = Broken("zero")]
    /\ hdrs' = [hdrs EXCEPT ![making] = {Broken("zero")}]
    /\ data' = [data EXCEPT ![making] = Blank]
    /\ disk' = [disk EXCEPT ![making] = [k \in Slots |-> {None}]]
    /\ rebuilt' = rebuilt \ {making}
    /\ UNCHANGED <<policy, phase, at, store, home, promised, asked, orphaned, discarded, losses,
                   damage, excused>>

Linked == making # None /\ entry[making] = "new"

\* preallocate
CreateReserves ==
    /\ Linked /\ len[making] = 0
    /\ len' = [len EXCEPT ![making] = Full] /\ lens' = [lens EXCEPT ![making] = @ \union {Full}]
    /\ UNCHANGED <<policy, phase, at, entry, hdr, hdrs, data, disk, store, ghost>>

CreateWrites ==
    /\ Linked /\ len[making] = Full /\ hdr[making].kind = "zero"
    /\ WriteHeader(making, Header(0, 0, 0, 0))
    /\ UNCHANGED <<policy, phase, at, entry, len, lens, data, disk, files, mem, nextNum,
                   making, adding, committing, ghost>>

\* f.Sync and then syncDir, unless NoSync; the segment joins the live ones
CreateSyncs ==
    /\ Linked /\ hdr[making].kind = "ok" /\ policy # "noSync" /\ making \in dirty
    /\ Fsync(making)
    /\ UNCHANGED <<policy, phase, at, entry, len, hdr, data, files, mem, nextNum, making,
                   adding, committing, ghost>>

CreateEnds ==
    /\ Linked /\ hdr[making].kind = "ok"
    /\ policy # "noSync" => making \notin dirty
    /\ entry' = IF policy # "noSync" THEN EntriesDurable(entry) ELSE entry
    /\ files' = files \union {making} /\ nextNum' = making + 1 /\ making' = None
    /\ phase' = "open"
    /\ UNCHANGED <<policy, at, len, lens, hdr, hdrs, data, disk, mem, dirty, adding,
                   committing, ghost>>

-----------------------------------------------------------------------------
(* Power loss, crash, damage (external) *)

\* The process is gone
Dies ==
    /\ losses < MaxLoss /\ losses' = losses + 1
    /\ files' = {} /\ mem' = [f \in Segs |-> NoMem] /\ nextNum' = 0 /\ dirty' = {}
    /\ making' = None /\ adding' = None /\ committing' = None
    /\ discarded' = IF phase = "open" /\ adding # None
                    THEN discarded \union ({adding} \ Published(active))
                    ELSE discarded
    /\ UNCHANGED <<policy, fs, home, promised, asked, rebuilt, damage, excused>>

\* A crash leaves the page cache.  The next open takes what it reads for durable, a repair's
\* header that was never flushed among it.
Crash ==
    /\ phase \notin {"off", "losing"} /\ Dies /\ phase' = "off" /\ at' = 0
    /\ orphaned' = IF phase = "flush"
                   THEN orphaned \union UNION {Between(at, 0, h.c) : h \in hdrs[at]}
                   ELSE orphaned

PowerLoss ==
    /\ phase \notin {"off", "losing"} /\ Dies /\ phase' = "losing" /\ at' = 1
    /\ UNCHANGED orphaned

\* What a file of length l keeps of its slots
Within(d, l) ==
    [k \in Slots |-> IF Hdr + Unit * k <= l THEN d[k]
                     ELSE IF Hdr + Unit * (k - 1) < l /\ d[k] # None THEN Junk ELSE None]

\* The headers that are written over one another, in whole or in part
HeaderLeft(f) ==
    hdrs[f] \union
    (IF Cardinality(hdrs[f]) = 1 THEN {}
     ELSE IF Broken("zero") \in hdrs[f] THEN {Broken("garbage"), Broken("torn")}
     ELSE {Broken("torn")})

SlotLeft(f, k) == disk[f][k] \union (IF Cardinality(disk[f][k]) = 1 THEN {} ELSE {Junk})

Left(f, e, l, h, d) ==
    LET there == e # "none" /\ l > 0 IN
    /\ entry' = [entry EXCEPT ![f] = e]
    /\ len' = [len EXCEPT ![f] = IF there THEN l ELSE 0]
    /\ lens' = [lens EXCEPT ![f] = {len'[f]}]
    /\ hdr' = [hdr EXCEPT ![f] = IF there THEN h ELSE Broken("zero")]
    /\ hdrs' = [hdrs EXCEPT ![f] = {hdr'[f]}]
    /\ data' = [data EXCEPT ![f] = IF there THEN Within(d, l) ELSE Blank]
    /\ disk' = [disk EXCEPT ![f] = [k \in Slots |-> {data'[f][k]}]]

\* One file at a time comes up as the disk has it
PowerLossLeaves ==
    /\ phase = "losing"
    /\ \E e \in CASE entry[at] = "here" -> {"here"} [] entry[at] = "none" -> {"none"}
                  [] OTHER -> {"here", "none"} :
       \E l \in (IF e = "none" THEN {0} ELSE lens[at]) :
       \E h \in (IF l < Hdr THEN {Broken("zero")} ELSE HeaderLeft(at)) :
       \E d \in (IF l = 0 THEN {Blank}
                 ELSE {d \in [Slots -> UNION {SlotLeft(at, k) : k \in Slots}] :
                         \A k \in Slots : d[k] \in SlotLeft(at, k)}) :
            Left(at, e, l, h, d)
    /\ IF at = MaxSeg THEN phase' = "off" /\ at' = 0 ELSE phase' = phase /\ at' = at + 1
    /\ UNCHANGED <<policy, store, ghost>>

\* abortedCreate: nothing but zeros
AllZero(f) == hdr[f].kind = "zero" /\ data[f] = Blank

\* As an interrupted create leaves a file
Erased(f) == len[f] = 0 \/ (len[f] >= Hdr /\ AllZero(f))

\* Somebody else damages f while no process has the queue open.  If an open was
\* interrupted before, what it had concluded from f is no longer binding: the
\* headers on the disk say what was asked for.  Erased where it is the tail, or may become it, f
\* cannot be told from an interrupted create.
Struck(f, l, h) ==
    /\ phase = "off" /\ f \in Visible
    /\ damage < MaxDamage[policy] /\ damage' = damage + 1
    /\ Left(f, entry[f], l, h, data[f])
    /\ asked' = asked \union UNION {UNION {Between(g, 0, o.c) : o \in hdrs[g]} : g \in Visible}
    /\ excused' = IF \/ h.kind = "foreign"
                     \/ Erased(f)' /\ ~\E g \in Segs : g > f /\ entry[g] = "here"
                  THEN excused \union {r \in DOMAIN home : home[r] = f} ELSE excused
    /\ UNCHANGED <<policy, phase, at, store, home, promised, orphaned, discarded, rebuilt, losses>>

\* The segment is cut short
Cut(f, l) == l < len[f] /\ Struck(f, l, IF l < Hdr THEN Broken("zero") ELSE hdr[f])

\* Its header is overwritten
Overwritten(f, kind) == len[f] >= Hdr /\ Struck(f, len[f], Broken(kind))

-----------------------------------------------------------------------------
(* load *)

\* Mutant: numbering goes on from how many segments there are
NextNumberDense == Cardinality(Visible) + 1

\* Numbering goes on past the highest seen
NextNumber == Max(Visible) + 1

\* The directory is read; an empty one gets its first segment
OpenBegins ==
    /\ phase = "off"
    /\ IF Visible = {} THEN phase' = "fresh" /\ at' = 0 /\ making' = 1 /\ UNCHANGED nextNum
       ELSE /\ phase' = "load" /\ at' = Min(Visible)
            /\ nextNum' = NextNumber /\ UNCHANGED making
    /\ UNCHANGED <<policy, fs, files, mem, dirty, adding, committing, ghost>>

AtTail(f) == \A g \in Visible : g <= f

\* A create that was interrupted; only the tail can be one
Unfinished(f) == AtTail(f) /\ Erased(f)

\* A segment whose header cannot be believed
Unreadable(f) == len[f] < Hdr \/ hdr[f].kind \in {"zero", "garbage", "foreign"}

\* removeFile
RemoveFile(f) ==
    entry' = IF policy = "noSync" THEN [entry EXCEPT ![f] = "gone"]
             ELSE EntriesDurable([entry EXCEPT ![f] = "none"])

Above(f) == {g \in Visible : g > f}

\* On to the next segment
LoadNext(f) ==
    IF Above(f) = {} THEN phase' = "conclude" /\ at' = 0
    ELSE phase' = phase /\ at' = Min(Above(f))

\* The records a corruption event gives up when load keeps w units of f
Lost(f, w) == {r \in promised : home[r] = f} \ Between(f, 0, w)

\* loadFile, when it keeps nothing: an unfinished create, a foreign segment, a
\* dropped one
LoadDrops ==
    /\ phase = "load" /\ (Unfinished(at) \/ Unreadable(at))
    /\ RemoveFile(at)
    /\ promised' = IF Unfinished(at) \/ (len[at] >= Hdr /\ hdr[at].kind = "foreign")
                   THEN promised ELSE promised \ Lost(at, 0)
    /\ LoadNext(at)
    /\ UNCHANGED <<policy, len, lens, hdr, hdrs, data, disk, store, home, asked, orphaned,
                   discarded, rebuilt, losses, damage, excused>>

\* Whole slots in the first l units of data
Whole(l) == l \div Unit

\* countVerified: how many slots verify, from the first one on
Verified(f) ==
    Max({n \in 0 .. Whole(len[f] - Hdr) : \A k \in 1 .. n : data[f][k] \in Recs})

\* salvageTornHeader
Salvaged(f) ==
    [size |-> Unit * Verified(f), nw |-> Verified(f), nc |-> 0, c |-> 0,
     truncated |-> TRUE, reset |-> TRUE]

LostTail(f) == Hdr + hdr[f].w > len[f]

\* Mutant: load scans for records, whatever the header says of them
ReadBackScan(f) ==
    [size |-> Unit * Verified(f), nw |-> Verified(f), nc |-> hdr[f].nc, c |-> hdr[f].c,
     truncated |-> len[f] < Full, reset |-> FALSE]

\* Mutant: a cut segment publishes everything up to where the file ends
ReadBackRaw(f) ==
    LET h == hdr[f]
        size == IF LostTail(f) THEN len[f] - Hdr ELSE h.w
        nw == IF LostTail(f) THEN Whole(len[f] - Hdr) ELSE h.nw IN
    [size |-> size, nw |-> nw, nc |-> Min({h.nc, nw}), c |-> Min({h.c, size}),
     truncated |-> len[f] < Full, reset |-> FALSE]

\* surviveCount: the whole frames from the first slot on, by their length alone.  Zero
\* fill reads as an empty record; of what else does not verify, some looks like a frame.
Surviving(f) ==
    Max({n \in 0 .. Whole(len[f] - Hdr) :
           \A k \in 1 .. n : data[f][k] # Junk \/ <<f, k>> \in Framing})

\* A header that can be believed, and a file that may have lost its tail: the extent is
\* clamped to the last frame that survives, the commit position to the extent
ReadBack(f) ==
    LET h == hdr[f]
        size == IF LostTail(f) THEN Unit * Surviving(f) ELSE h.w
        nw == IF LostTail(f) THEN Surviving(f) ELSE h.nw IN
    [size |-> size, nw |-> nw, nc |-> Min({h.nc, nw}), c |-> Min({h.c, size}),
     truncated |-> len[f] < Full, reset |-> FALSE]

LoadKeeps ==
    /\ phase = "load" /\ ~Unfinished(at) /\ ~Unreadable(at)
    /\ mem' = [mem EXCEPT ![at] = IF hdr[at].kind = "torn" THEN Salvaged(at) ELSE ReadBack(at)]
    /\ promised' = IF hdr[at].kind = "torn" \/ LostTail(at)
                   THEN promised \ Lost(at, mem'[at].size) ELSE promised
    /\ rebuilt' = IF hdr[at].kind = "torn" THEN rebuilt \union {at} ELSE rebuilt
    /\ files' = files \union {at}
    /\ LoadNext(at)
    /\ UNCHANGED <<policy, fs, nextNum, dirty, making, adding, committing, home, asked,
                   orphaned, discarded, losses, damage, excused>>

\* The commit cursor lies in the first segment not drained, or whose position is lost
AtCursor(f) == mem[f].reset \/ mem[f].c < mem[f].size

\* The segments before it are committed whole, the ones behind it not at all
Reconciled(f) ==
    LET cursor == {g \in files : AtCursor(g)} IN
    IF cursor = {} \/ f < Min(cursor)
    THEN [mem[f] EXCEPT !.nc = mem[f].nw, !.c = mem[f].size]
    ELSE IF f > Min(cursor) THEN [mem[f] EXCEPT !.nc = 0, !.c = 0] ELSE mem[f]

\* Nothing of f is only in the page cache
Settled(f) ==
    /\ entry[f] = "here" /\ lens[f] = {len[f]} /\ hdrs[f] = {hdr[f]}
    /\ \A k \in Slots : disk[f][k] = {data[f][k]}

\* Every segment is loaded.  What lies behind the cursor, in a segment with nothing left
\* to fsync, is to be delivered again.  With no segment left, numbering goes on past the
\* highest seen.
LoadConcludes ==
    LET replay == UNION {Between(f, mem'[f].c, mem'[f].size) :
                           f \in {f \in files : Settled(f)}} IN
    /\ phase = "conclude"
    /\ IF files = {}
       THEN /\ nextNum \in Segs
            /\ phase' = "fresh" /\ making' = nextNum
            /\ UNCHANGED <<mem, asked, orphaned, promised>>
       ELSE /\ phase' = "repair" /\ UNCHANGED making
            /\ mem' = [f \in Segs |-> IF f \in files THEN Reconciled(f) ELSE mem[f]]
            /\ asked' = asked \ replay /\ orphaned' = orphaned \ replay
            /\ promised' = promised \union (replay \ discarded)
    /\ UNCHANGED <<policy, at, fs, files, nextNum, dirty, adding, committing, home, discarded,
                   rebuilt, losses, damage, excused>>

\* The header load wants on disk
Wanted(f) == Header(mem[f].size, mem[f].c, mem[f].nw, mem[f].nc)

Unrepaired == {f \in files : mem[f].truncated \/ hdr[f] # Wanted(f)}

\* Mutant: from the head on
NextRepairForward(f) == f = Min(Unrepaired)

\* The repair goes from the tail backwards
NextRepair(f) == f = Max(Unrepaired)

RepairWrites(f) ==
    /\ phase = "repair" /\ f \in Unrepaired /\ NextRepair(f)
    /\ WriteHeader(f, Wanted(f))
    /\ phase' = "flush" /\ at' = f
    /\ UNCHANGED <<policy, entry, len, lens, data, disk, files, mem, nextNum, making, adding,
                   committing, ghost>>

\* The header is flushed, even under NoSync, and then a short file extended again, if
\* that succeeds
RepairFlushes ==
    /\ phase = "flush"
    /\ hdrs' = [hdrs EXCEPT ![at] = {hdr[at]}] /\ dirty' = dirty \ {at}
    /\ disk' = [disk EXCEPT ![at] = [k \in Slots |-> {data[at][k]}]]
    /\ \E l \in {len[at], Full} :
         /\ mem[at].truncated \/ l = len[at]
         /\ len' = [len EXCEPT ![at] = l] /\ lens' = [lens EXCEPT ![at] = {len[at], l}]
    /\ mem' = [mem EXCEPT ![at].truncated = FALSE]
    /\ phase' = "repair" /\ at' = 0
    /\ UNCHANGED <<policy, entry, hdr, data, files, nextNum, making, adding, committing, ghost>>

OpenReturns ==
    /\ phase = "repair" /\ Unrepaired = {}
    /\ phase' = "open" /\ mem' = [f \in Segs |-> NoMem]
    /\ UNCHANGED <<policy, at, fs, files, nextNum, dirty, making, adding, committing, ghost>>

-----------------------------------------------------------------------------

Running ==
    \/ AddStages \/ AddDiscards \/ AddPublishes \/ AddSettles \/ FlushAll
    \/ \E f \in Segs : FlushOne(f) \/ CommitWrites(f)
    \/ CommitFlushes \/ CycleDrops
    \/ CreateLinks \/ CreateReserves \/ CreateWrites \/ CreateSyncs \/ CreateEnds

Failing ==
    \/ Crash \/ PowerLoss \/ PowerLossLeaves
    \/ \E f \in Segs : \/ \E l \in 0 .. Full - 1 : Cut(f, l)
                       \/ \E kind \in {"zero", "garbage", "torn", "foreign"} : Overwritten(f, kind)

Loading ==
    \/ OpenBegins \/ LoadDrops \/ LoadKeeps \/ LoadConcludes
    \/ \E f \in Segs : RepairWrites(f)
    \/ RepairFlushes \/ OpenReturns

Next == Running \/ Failing \/ Loading

Spec == Init /\ [][Next]_vars

-----------------------------------------------------------------------------
(* Properties *)

HeaderKinds == {"ok", "zero", "torn", "garbage", "foreign"}
Headers == [kind : HeaderKinds, w : 0 .. Unit * Cap, c : 0 .. Unit * Cap,
            nw : 0 .. Cap, nc : 0 .. Cap]

\* The types; a cached value is one a power loss may leave; and the next segment's number
\* is above every one in the directory, so that no number names two segments.
TypeOK ==
    /\ policy \in Policies
    /\ phase \in {"open", "losing", "off", "load", "conclude", "fresh", "repair", "flush"}
    /\ at \in 0 .. MaxSeg
    /\ entry \in [Segs -> {"none", "new", "gone", "here"}]
    /\ len \in [Segs -> 0 .. Full] /\ \A f \in Segs : len[f] \in lens[f] /\ lens[f] \subseteq 0 .. Full
    /\ \A f \in Segs : hdr[f] \in hdrs[f] /\ hdrs[f] \subseteq Headers
    /\ \A f \in Segs, k \in Slots : data[f][k] \in disk[f][k]
                                      /\ disk[f][k] \subseteq Recs \union {None, Junk}
    /\ files \subseteq Visible
    /\ phase \in {"open", "load", "repair"} => \A f \in Visible \ {making} : f < nextNum
    /\ dirty \subseteq Segs /\ nextNum \in 0 .. MaxSeg + 1
    /\ making \in Segs \union {None} /\ committing \in Segs \union {None}
    /\ adding \in Recs \union {None}
    /\ Len(home) <= MaxRec

Serving == phase = "open" /\ making = None

\* The records a consumer of the open queue can still be given
Readable == UNION {Backlog(f) : f \in files}

\* A record that reached stable storage under a header that publishes it is still
\* there to be delivered, after any number of power losses, interrupted creates and
\* interrupted repairs, unless its retirement was asked for, it is orphaned, load booked a
\* corruption event for it when it found the segment damaged, or the damage makes the
\* segment look like one of another version or like a create that was interrupted
\* (loadFile, abortedCreate, dropSegment).
PromisedKept ==
    Serving => promised \ (asked \union orphaned \union excused) \subseteq Readable

\* Load never moves the commit cursor over a record on stable storage whose retirement
\* nobody asked for, nor over one that an earlier open had concluded must be replayed, out
\* of a segment with nothing left to fsync, whether that open returned, lost power at any
\* step or crashed at any step but one (load's reconciliation, the order of its repairs
\* and their fsyncs).  The one is between a repair's writeHeader and its flushFile: the
\* records of that segment are orphaned, and the code may skip them.
NothingSkipped ==
    Serving => \A f \in files :
        promised \intersect Between(f, 0, hdr[f].c) \subseteq asked \union orphaned

\* After every open the headers describe one commit cursor, whole frames inside the
\* files, and counts that agree with both, so that Count is what a drain delivers.
OneCursor ==
    Serving =>
        /\ \A f \in files :
             LET h == hdr[f] IN
             /\ h.kind = "ok" /\ h.c <= h.w /\ Hdr + h.w <= len[f]
             /\ h.w = Unit * h.nw /\ h.c = Unit * h.nc
        /\ \A f, g \in files : f < g => hdr[f].c = hdr[f].w \/ hdr[g].c = 0

\* Under the per-operation policy a record that was given up is delivered only out of a
\* segment whose header was lost and rebuilt from the frames that verify (discardStaged,
\* countVerified).
NoPhantom ==
    Serving /\ policy = "perOp" =>
        \A r \in Readable \intersect discarded : home[r] \in rebuilt
=============================================================================
