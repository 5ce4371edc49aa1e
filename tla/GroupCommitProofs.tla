------------------------ MODULE GroupCommitProofs ------------------------
(***************************************************************************)
(* What holds of GroupCommit for every set of goroutines, every mix of     *)
(* calls, every record length, cap and segment size, and every set of      *)
(* faults: its types, that no staged tail is orphaned, that the cap counts *)
(* what is staged, that a closed store is quiet, that no wakeup is lost,   *)
(* and that a header is published only over the bytes it names.            *)
(*                                                                         *)
(* None of these is inductive alone.  GInv adds what the code relies on    *)
(* without a check: which places hold w.mu and w.syncMu (LockPlaces,       *)
(* SyncPlaces), that the span and its followers are the one leader's       *)
(* (OneLeader, Followers), that a batch that stages is alone (TailOwned,   *)
(* BatchOwns), and that the staged records lie end to end behind the       *)
(* published bytes (SpanLies).                                             *)
(*                                                                         *)
(* The proof goes through the shape of the steps: every step of a          *)
(* goroutine moves it and at most wakes others (Moved), every step of a    *)
(* consumer takes bytes away (Consumes), and most steps touch no byte at   *)
(* all (Aside).                                                            *)
(***************************************************************************)
EXTENDS GroupCommit, FiniteSetTheorems, TLAPS

-----------------------------------------------------------------------------
(* The inductive invariant *)

Leading == {"data", "header"}           \* leadFlushLocked, off the lock
Batching == {"batch", "batchPublish"}   \* addBatchLocked, under the lock
Waiting == {"drain", "drainCheck"}      \* waitFlushQuiescedLocked
Adds == {"add", "addWait"}

\* A goroutine keeps w.mu between steps only inside a batch, after a quiesce, or in
\* a producer's loop that quiesced or cycled and looks again
LockPlaces ==
    /\ \A p \in Procs : pc[p] \in Batching \union {"quiesced"} => mu = p
    /\ mu # Free => \/ pc[mu] \in Batching \union {"quiesced", "drainCheck"}
                    \/ pc[mu] = "enter" /\ call[mu] \in Adds

\* There is one leader, and the span and its followers are the leader's
OneLeader ==
    /\ \A p, q \in Procs : pc[p] \in Leading /\ pc[q] \in Leading => p = q
    /\ flushing <=> \E p \in Procs : pc[p] \in Leading
    /\ ~flushing => /\ inFlight = 0 /\ flight = {} /\ heading = {}
                    /\ group = {} /\ curGroup = {}
    /\ \A p \in Procs : pc[p] = "header" => inFlight = 0 /\ flight = {}
    /\ \A p \in Procs : pc[p] = "data" => heading = {}

\* What is staged is a leader's or a batch's
TailOwned ==
    /\ \A p \in Procs : pc[p] \in Batching => ~flushing /\ ~closed /\ ~ioErr
    /\ \A p \in Procs : pc[p] = "quiesced" => ~Busy
    /\ pendingBytes > 0 => flushing \/ \E p \in Procs : pc[p] \in Batching
    /\ pendingBytes > 0 /\ flushing => curGroup # {}

\* The groups are the goroutines parked for a verdict
Followers ==
    /\ \A p \in Procs : pc[p] = "follow" <=> p \in group \union curGroup
    /\ group \intersect curGroup = {}

\* The places a call passes through, and what Close has done by then
CallPlaces ==
    \A p \in Procs :
        /\ pc[p] \in {"syncLocked", "syncFlush"} => call[p] = "sync"
        /\ pc[p] \in {"closeSync", "closeLocked"} => call[p] = "close"
        /\ pc[p] \in {"release", "space", "follow", "verdict"} \union Leading
              => call[p] \in Adds
        /\ pc[p] = "notify" => call[p] = "take"
        /\ pc[p] \in Waiting => call[p] # "take"
        /\ pc[p] = "quiesced" => call[p] \in {"batch", "sync", "close"}
        /\ pc[p] \in Batching => call[p] = "batch"
        /\ pc[p] \in Waiting \union {"quiesced", "closeSync", "closeLocked"}
              => (call[p] = "close" => closed)

\* A Sync, and a Close that waits or is quiesced, holds w.syncMu
SyncPlaces ==
    \A p \in Procs :
        \/ pc[p] \in {"syncLocked", "syncFlush", "closeLocked"}
        \/ pc[p] \in Waiting \union {"quiesced"} /\ call[p] \in {"sync", "close"}
        => syncMu = p

\* quiesceWant counts the goroutines inside waitFlushQuiescedLocked
QuiesceCounted == quiesceWant = Cardinality({p \in Procs : pc[p] \in Waiting})

\* Nobody is inside an fsync of a store whose handles are gone
ClosedSilent ==
    storeClosed => closed /\ ~Busy /\ \A p \in Procs : pc[p] # "syncFlush"

\* There are staged bytes just when there are staged records
RecordsCounted ==
    /\ IsFiniteSet(pend) /\ IsFiniteSet(flight) /\ IsFiniteSet(heading)
    /\ pend = {} <=> pendingBytes = 0
    /\ flight = {} <=> inFlight = 0

\* A batch is alone with the tail
BatchOwns == \A p \in Procs : pc[p] \in Batching => \A r \in pend : r.by = p

\* A consumer is parked while there is something to read only under a batch that
\* has published, and will signal when it returns
WakeupOwed ==
    \A q \in Procs : pc[q] = "notify" =>
        /\ ~closed /\ owed = 0
        /\ unread = 0 \/ \E p \in Procs : pc[p] \in Batching /\ count[p] > 0

\* The bytes of the segment that records occupy
Extent(R) == UNION {r.at .. r.at + Size[r.by] - 1 : r \in R}

\* n bytes of the records F begin at f, and m bytes of the records P come next
Lies(P, F, f, n, m) ==
    /\ \A r \in P \union F : r.live
    /\ Extent(F) = f .. f + n - 1
    /\ Extent(P) = f + n .. f + n + m - 1

\* The span begins where the published bytes end, and the tail where the span ends
SpanLies == Lies(pend, flight, fill, inFlight, pendingBytes) /\ ~torn

\* TypeOK, without the bound on quiesceWant
PlaceTypes ==
    /\ closed \in BOOLEAN /\ storeClosed \in BOOLEAN /\ ioErr \in BOOLEAN
    /\ flushing \in BOOLEAN /\ torn \in BOOLEAN
    /\ group \subseteq Procs /\ curGroup \subseteq Procs
    /\ mu \in Procs \union {Free} /\ syncMu \in Procs \union {Free}
    /\ pc \in [Procs -> Places] /\ call \in [Procs -> Kinds]
    /\ ret \in [Procs -> Answers]

ByteTypes ==
    /\ pendingBytes \in Nat /\ inFlight \in Nat /\ size \in Nat /\ fill \in Nat
    /\ unread \in 0 .. size /\ owed \in 0 .. MaxOwed

RecordTypes ==
    /\ count \in [Procs -> Nat] /\ item \in [Procs -> Nat]
    /\ real \in [Procs -> Nat] /\ safe \in [Procs -> Nat]
    /\ pend \subseteq Staged /\ flight \subseteq Staged /\ heading \subseteq Staged

Types == PlaceTypes /\ ByteTypes /\ RecordTypes

\* Who owns what
Order ==
    /\ LockPlaces /\ OneLeader /\ TailOwned /\ Followers /\ CallPlaces /\ SyncPlaces
    /\ ClosedSilent

GInv ==
    /\ Types /\ Order /\ QuiesceCounted /\ RecordsCounted /\ BatchOwns /\ WakeupOwed
    /\ CapHeld /\ SpanLies

-----------------------------------------------------------------------------
(* Facts about the operators of the model *)

LEMMA SizeType ==
    ASSUME NEW p \in Procs
    PROVE  Size[p] \in Nat /\ Size[p] > 0
  BY GroupCommitAssumption

\* The record a producer stages
NewRec(p) == [by |-> p, at |-> fill + stagedBytes, live |-> TRUE, synced |-> FALSE]

LEMMA NewRecType ==
    ASSUME Types, NEW p \in Procs
    PROVE  NewRec(p) \in Staged
  BY DEF NewRec, Staged, Types, ByteTypes, stagedBytes

\* What a span's publication adds is counted per writer
LEMMA TallyType ==
    ASSUME NEW f \in [Procs -> Nat], NEW R, IsFiniteSet(R)
    PROVE  Tally(f, R) \in [Procs -> Nat] /\ \A p \in Procs : Recs(R, p) \in Nat
<1>1. \A p \in Procs : Recs(R, p) \in Nat
  BY FS_Subset, FS_CardinalityType DEF Recs
<1> QED
  BY <1>1 DEF Tally

LEMMA SyncedType ==
    ASSUME NEW R, R \subseteq Staged, IsFiniteSet(R)
    PROVE  IsFiniteSet(Synced(R)) /\ Synced(R) \subseteq Staged
<1> DEFINE f == [r \in R |-> [r EXCEPT !.synced = TRUE]]
<1>1. f \in Surjection(R, Synced(R))
  BY DEF Surjection, Synced
<1>2. Synced(R) \subseteq Staged
  BY DEF Synced, Staged
<1> QED
  BY <1>1, <1>2, FS_Surjection

\* A segment is only cycled with nothing staged
LEMMA CycleEmpty ==
    ASSUME RecordsCounted, Types, ~Busy, Cycle
    PROVE  /\ pend = {} /\ flight = {} /\ pend' = {} /\ flight' = {} /\ fill' = 0
           /\ pendingBytes = 0 /\ inFlight = 0
<1>1. pendingBytes = 0 /\ inFlight = 0
  BY DEF Busy, stagedBytes, Types, ByteTypes
<1> QED
  BY <1>1 DEF RecordsCounted, Cycle

LEMMA AnswerType ==
    ASSUME Types, NEW p \in Procs, NEW Q, NEW a \in Answers
    PROVE  [Answer(ret, Q, a) EXCEPT ![p] = Mine(p, a)] \in [Procs -> Answers]
<1>1. Answer(ret, Q, a) \in [Procs -> Answers] /\ Mine(p, a) \in Answers
  BY DEF Answer, Mine, Types, PlaceTypes
<1> QED
  BY <1>1

\* A record joins the tail
LEMMA TailGrows ==
    ASSUME Types, RecordsCounted, NEW p \in Procs
    PROVE  /\ pend \union {NewRec(p)} \subseteq Staged /\ IsFiniteSet(pend \union {NewRec(p)})
           /\ pend \union {NewRec(p)} # {}
           /\ pendingBytes + Size[p] \in Nat /\ pendingBytes + Size[p] # 0
  BY NewRecType, SizeType, FS_AddElement DEF Types, ByteTypes, RecordTypes, RecordsCounted

\* What a batch publishes it counts
LEMMA OwnCounted ==
    ASSUME NEW R, IsFiniteSet(R), NEW p, \A r \in R : r.by = p
    PROVE  Recs(R, p) = Cardinality(R) /\ (Recs(R, p) = 0 <=> R = {})
<1>1. {r \in R : r.by = p} = R
  OBVIOUS
<1> QED
  BY <1>1, FS_EmptySet DEF Recs

\* Freeing bytes keeps the cap
LEMMA CapKept ==
    ASSUME NEW a \in Nat, NEW b \in Nat, NEW c \in Nat, NEW d \in Nat, NEW m \in Nat,
           d <= a, a + (b + c) <= m
    PROVE  d + (b + c) <= m
  OBVIOUS

\* The goroutines inside waitFlushQuiescedLocked
Quiescers == {p \in Procs : pc[p] \in Waiting}

LEMMA QuiescerArrives ==
    ASSUME QuiesceCounted, NEW p \in Procs, pc[p] \notin Waiting,
           Quiescers' = Quiescers \union {p}, quiesceWant' = quiesceWant + 1
    PROVE  QuiesceCounted'
<1>1. IsFiniteSet(Quiescers) /\ p \notin Quiescers
  BY GroupCommitAssumption, FS_Subset DEF Quiescers
<1>2. Cardinality(Quiescers \union {p}) = Cardinality(Quiescers) + 1
  BY <1>1, FS_AddElement
<1> QED
  BY <1>2 DEF QuiesceCounted, Quiescers

LEMMA QuiescerLeaves ==
    ASSUME QuiesceCounted, NEW p \in Procs, pc[p] \in Waiting,
           Quiescers' = Quiescers \ {p}, quiesceWant' = quiesceWant - 1
    PROVE  QuiesceCounted'
<1>1. IsFiniteSet(Quiescers) /\ p \in Quiescers
  BY GroupCommitAssumption, FS_Subset DEF Quiescers
<1>2. Cardinality(Quiescers \ {p}) = Cardinality(Quiescers) - 1
  BY <1>1, FS_RemoveElement
<1> QED
  BY <1>2 DEF QuiesceCounted, Quiescers

\* The bytes that records occupy
LEMMA ExtentEmpty == Extent({}) = {}
  BY DEF Extent

LEMMA ExtentMember ==
    ASSUME NEW R, NEW x
    PROVE  x \in Extent(R) <=> \E r \in R : x \in r.at .. r.at + Size[r.by] - 1
  BY DEF Extent

LEMMA ExtentGrows ==
    ASSUME NEW R, NEW p \in Procs, NEW n \in Nat, NEW m \in Nat, m <= n,
           Extent(R) = m .. n - 1,
           NEW r, r.by = p, r.at = n
    PROVE  Extent(R \union {r}) = m .. n + Size[p] - 1
<1>1. Size[p] \in Nat /\ Size[p] > 0
  BY SizeType
<1>2. \A x : x \in Extent(R \union {r}) <=> x \in Extent(R) \/ x \in n .. n + Size[p] - 1
  BY ExtentMember
<1>3. \A x : x \in m .. n + Size[p] - 1 <=> x \in m .. n - 1 \/ x \in n .. n + Size[p] - 1
  BY <1>1
<1> QED
  BY <1>2, <1>3

LEMMA ExtentSynced ==
    ASSUME NEW R, R \subseteq Staged
    PROVE  Extent(Synced(R)) = Extent(R)
<1>1. ASSUME NEW r \in R
      PROVE  \E s \in Synced(R) : s.at = r.at /\ s.by = r.by
  <2>1. [r EXCEPT !.synced = TRUE] \in Synced(R)
    BY DEF Synced
  <2>2. [r EXCEPT !.synced = TRUE].at = r.at /\ [r EXCEPT !.synced = TRUE].by = r.by
    BY DEF Staged
  <2> QED
    BY <2>1, <2>2
<1>2. \A s \in Synced(R) : \E r \in R : s.at = r.at /\ s.by = r.by
  BY DEF Synced, Staged
<1>3. \A x : x \in Extent(Synced(R)) <=> x \in Extent(R)
  BY <1>1, <1>2, ExtentMember
<1> QED
  BY <1>3

LEMMA LiesNowhere ==
    ASSUME NEW f \in Nat
    PROVE  Lies({}, {}, f, 0, 0)
  BY ExtentEmpty DEF Lies

\* A staged record goes right behind the tail
LEMMA LiesBehind ==
    ASSUME NEW P, NEW F, NEW f \in Nat, NEW n \in Nat, NEW m \in Nat, Lies(P, F, f, n, m),
           NEW p \in Procs, NEW r, r.by = p, r.at = f + n + m, r.live
    PROVE  Lies(P \union {r}, F, f, n, m + Size[p])
<1>1. Size[p] \in Nat
  BY SizeType
<1>2. /\ f + n \in Nat /\ f + n + m \in Nat /\ f + n <= f + n + m
      /\ f + n + (m + Size[p]) - 1 = f + n + m + Size[p] - 1
  BY <1>1
<1>3. Extent(P) = f + n .. f + n + m - 1
  BY DEF Lies
<1>4. Extent(P \union {r}) = f + n .. f + n + m + Size[p] - 1
  BY <1>2, <1>3, ExtentGrows
<1> QED
  BY <1>2, <1>4 DEF Lies

\* The tail becomes the span
LEMMA LiesTaken ==
    ASSUME NEW P, NEW F, NEW f \in Nat, NEW m \in Nat, Lies(P, F, f, 0, m)
    PROVE  Lies({}, P, f, m, 0)
<1>1. f + 0 = f /\ f + 0 + m - 1 = f + m - 1 /\ f + m .. f + m + 0 - 1 = {}
  OBVIOUS
<1>2. Extent(P) = f .. f + m - 1
  BY <1>1 DEF Lies
<1> QED
  BY <1>1, <1>2, ExtentEmpty DEF Lies

\* The span is published, and the tail begins where it ends
LEMMA LiesPublished ==
    ASSUME NEW P, NEW F, NEW f \in Nat, NEW n \in Nat, NEW m \in Nat, Lies(P, F, f, n, m)
    PROVE  Lies(P, {}, f + n, 0, m)
<1>1. /\ f + n + 0 = f + n /\ f + n + 0 + m - 1 = f + n + m - 1
      /\ f + n .. f + n + 0 - 1 = {}
  OBVIOUS
<1> QED
  BY <1>1, ExtentEmpty DEF Lies

\* The header goes out over the staged bytes and nothing else
LEMMA LiesIntact ==
    ASSUME NEW P, NEW F, F \subseteq Staged, NEW n, NEW m, Lies(P, F, fill, n, m)
    PROVE  Intact(Synced(F), n)
<1>1. \A r \in Synced(F) : r.live /\ r.synced
  BY DEF Synced, Staged, Lies
<1>2. UNION {r.at .. r.at + Size[r.by] - 1 : r \in Synced(F)} = fill .. fill + n - 1
  BY ExtentSynced DEF Extent, Lies
<1> QED
  BY <1>1, <1>2 DEF Intact

LEMMA TailExtends ==
    ASSUME Types, SpanLies, NEW p \in Procs
    PROVE  Lies(pend \union {NewRec(p)}, flight, fill, inFlight, pendingBytes + Size[p])
<1>1. fill \in Nat /\ inFlight \in Nat /\ pendingBytes \in Nat
  BY DEF Types, ByteTypes
<1>2. NewRec(p).by = p /\ NewRec(p).at = fill + inFlight + pendingBytes /\ NewRec(p).live
  BY <1>1 DEF NewRec, stagedBytes
<1> QED
  BY <1>1, <1>2, LiesBehind DEF SpanLies

-----------------------------------------------------------------------------
(* The shape of the steps *)

\* What a step of p makes of the places of the others: a channel was closed
Woken(a, b) ==
    \/ b = a
    \/ a \in {"space", "notify", "release"} /\ b = "enter"
    \/ a = "drain" /\ b = "drainCheck"
    \/ a = "follow" /\ b = "verdict"

Moved(p, to) ==
    /\ pc' \in [Procs -> Places] /\ pc'[p] = to
    /\ \A q \in Procs \ {p} : Woken(pc[q], pc'[q])

\* Closing notify leaves nobody parked for a record
Signalled == \A q \in Procs : pc'[q] # "notify"

FollowersKept(p) == \A q \in Procs \ {p} : pc[q] = "follow" <=> pc'[q] = "follow"

LEMMA LeaderPublishesShape ==
    ASSUME Types, NEW p \in Procs, LeaderPublishes(p)
    PROVE  /\ pc[p] = "data" /\ mu = Free /\ ~ioErr
           /\ Moved(p, "header") /\ Signalled /\ FollowersKept(p)
           /\ Published(Synced(flight), inFlight)
           /\ inFlight' = 0 /\ flight' = {} /\ heading' = flight
           /\ UNCHANGED <<closed, storeClosed, ioErr, flushing, pendingBytes, group,
                          curGroup, pend, safe, quiesceWant, mu, syncMu, call, ret,
                          count, item>>
  BY DEF LeaderPublishes, Types, PlaceTypes, Moved, Woken, Signalled, FollowersKept,
         Signal, Wake,
         Places, latch, locks, result

\* The leader gives up: LeaderUnpublished and LeaderPoisoned
LeaderFails(p, a) ==
    /\ pc[p] \in Leading /\ mu = Free /\ a \in {"io", "fail"}
    /\ a = "fail" => pc[p] = "data"
    /\ Moved(p, "idle")
    /\ \A q \in Procs \ {p} :
          IF q \in group \union curGroup THEN pc'[q] = "verdict"
          ELSE pc[q] = "follow" <=> pc'[q] = "follow"
    /\ ret' = [Answer(ret, group \union curGroup, a) EXCEPT ![p] = Mine(p, a)]
    /\ DiscardStaged /\ ~flushing' /\ flushing' \in BOOLEAN /\ group' = {}
    /\ curGroup' = {} /\ heading' = {}
    /\ ioErr => ioErr'
    /\ ioErr' \in BOOLEAN
    /\ UNCHANGED <<closed, storeClosed, real, safe, torn, quiesceWant, size, fill,
                   unread, owed, mu, syncMu, call, count, item>>

LEMMA SpanFailedMoves ==
    ASSUME Types, Followers, NEW p \in Procs, NEW a, pc[p] \in Leading, SpanFailed(p, a)
    PROVE  /\ Moved(p, "idle")
           /\ \A q \in Procs \ {p} :
                 IF q \in group \union curGroup THEN pc'[q] = "verdict"
                 ELSE pc[q] = "follow" <=> pc'[q] = "follow"
           /\ ret' = [Answer(ret, group \union curGroup, a) EXCEPT ![p] = Mine(p, a)]
           /\ DiscardStaged /\ ~flushing' /\ flushing' \in BOOLEAN /\ group' = {}
           /\ curGroup' = {} /\ heading' = {}
  BY DEF SpanFailed, Leave, Types, PlaceTypes, Followers, Moved, Woken, SignalSpace,
         Wake, Places, Leading

LEMMA LeaderUnpublishedShape ==
    ASSUME Types, Followers, NEW p \in Procs, LeaderUnpublished(p)
    PROVE  \E a \in {"io", "fail"} : LeaderFails(p, a)
<1>1. PICK a \in {"io", "fail"} : SpanFailed(p, a)
  BY DEF LeaderUnpublished
<1>2. /\ pc[p] = "data" /\ mu = Free /\ (ioErr => ioErr') /\ ioErr' \in BOOLEAN
      /\ UNCHANGED <<closed, storeClosed, real, safe, torn, quiesceWant, size, fill,
                     unread, owed, mu, syncMu, call, count, item>>
  BY DEF LeaderUnpublished, Types, PlaceTypes, room, locks
<1> HIDE DEF LeaderUnpublished
<1>3. LeaderFails(p, a)
  BY <1>1, <1>2, SpanFailedMoves DEF LeaderFails, Leading
<1> QED
  BY <1>3

LEMMA LeaderPoisonedShape ==
    ASSUME Types, Followers, NEW p \in Procs, LeaderPoisoned(p)
    PROVE  LeaderFails(p, "io")
<1>1. /\ pc[p] = "header" /\ mu = Free /\ ioErr' = TRUE /\ SpanFailed(p, "io")
      /\ UNCHANGED <<closed, storeClosed, real, safe, torn, quiesceWant, size, fill,
                     unread, owed, mu, syncMu, call, count, item>>
  BY DEF LeaderPoisoned, Types, PlaceTypes, room, locks
<1> QED
  BY <1>1, SpanFailedMoves DEF LeaderFails, Leading

\* The last span is settled, and the leader leaves
LeaderLeaves(p) ==
    /\ pc[p] = "header" /\ mu = Free /\ curGroup = {} /\ ~ioErr
    /\ Moved(p, "idle")
    /\ \A q \in Procs \ {p} : IF q \in group THEN pc'[q] = "verdict"
                              ELSE pc[q] = "follow" <=> pc'[q] = "follow"
    /\ ~flushing' /\ flushing' \in BOOLEAN /\ group' = {} /\ heading' = {}
    /\ safe' = Tally(safe, heading)
    /\ ret' = [Answer(ret, group, "nil") EXCEPT ![p] = Mine(p, "nil")]
    /\ UNCHANGED <<closed, storeClosed, ioErr, curGroup, pendingBytes, inFlight, pend,
                   flight, real, torn, quiesceWant, size, fill, unread, owed, mu,
                   syncMu, call, count, item>>

\* A span is settled, and the leader takes the next one
LeaderGoesOn(p) ==
    /\ pc[p] = "header" /\ mu = Free /\ curGroup # {} /\ ~ioErr
    /\ Moved(p, "data")
    /\ \A q \in Procs \ {p} : IF q \in group THEN pc'[q] = "verdict"
                              ELSE pc[q] = "follow" <=> pc'[q] = "follow"
    /\ group' = curGroup /\ curGroup' = {} /\ heading' = {}
    /\ inFlight' = pendingBytes /\ pendingBytes' = 0 /\ flight' = pend /\ pend' = {}
    /\ safe' = Tally(safe, heading)
    /\ ret' = [Answer(ret, group, "nil") EXCEPT ![p] = Mine(p, "nil")]
    /\ UNCHANGED <<closed, storeClosed, ioErr, flushing, real, torn, quiesceWant, size,
                   fill, unread, owed, mu, syncMu, call, count, item>>

LEMMA LeaderSettlesShape ==
    ASSUME Types, Followers, NEW p \in Procs, LeaderSettles(p)
    PROVE  LeaderLeaves(p) \/ LeaderGoesOn(p)
<1>1. CASE curGroup = {}
  <2>1. Moved(p, "idle") /\ \A q \in Procs \ {p} : IF q \in group THEN pc'[q] = "verdict"
                                                  ELSE pc[q] = "follow" <=> pc'[q] = "follow"
    BY <1>1 DEF LeaderSettles, SpanDone, Leave, Types, PlaceTypes, Followers, Moved,
                Woken, SignalSpace,
                Wake, Places
  <2> QED
    BY <1>1, <2>1 DEF LeaderSettles, SpanDone, Leave, LeaderLeaves, latch, room, locks
<1>2. CASE curGroup # {}
  <2>1. Moved(p, "data") /\ \A q \in Procs \ {p} : IF q \in group THEN pc'[q] = "verdict"
                                                  ELSE pc[q] = "follow" <=> pc'[q] = "follow"
    BY <1>2 DEF LeaderSettles, SpanDone, Types, PlaceTypes, Followers, Moved, Woken,
                Places
  <2> QED
    BY <1>2, <2>1 DEF LeaderSettles, SpanDone, LeaderGoesOn, latch, room, locks
<1> QED
  BY <1>1, <1>2

LEMMA QuiesceEndsShape ==
    ASSUME Types, NEW p \in Procs, QuiesceEnds(p)
    PROVE  /\ Moved(p, IF call[p] \in Adds THEN "enter" ELSE "quiesced")
           /\ FollowersKept(p)
           /\ UNCHANGED <<latch, flush, room, syncMu, call, result>>
  BY DEF QuiesceEnds, Types, PlaceTypes, Moved, Woken, FollowersKept, Wake, Places, Adds

\* A call of p is over: the places alone
Returns(p, a) ==
    Moved(p, "idle") /\ FollowersKept(p) /\ ret' = [ret EXCEPT ![p] = a] /\ mu' = Free

LEMMA BatchReturnShape ==
    ASSUME Types, NEW p \in Procs, NEW a, NEW n, BatchReturn(p, a, n)
    PROVE  Returns(p, a) /\ (n > 0 => Signalled)
<1>1. CASE n > 0
  BY <1>1 DEF BatchReturn, Return, Returns, Types, PlaceTypes, Moved, Woken, Signalled,
              FollowersKept, Signal,
         Wake, Places
<1>2. CASE ~(n > 0)
  BY <1>2 DEF BatchReturn, Return, Returns, Types, PlaceTypes, Moved, Woken, Signalled,
              FollowersKept, Places
<1> QED
  BY <1>1, <1>2

\* A call that ends with a signalSpace
LEMMA SpaceReturnShape ==
    ASSUME Types, NEW p \in Procs, NEW a, Return(p, a, SignalSpace(pc))
    PROVE  Returns(p, a)
  BY DEF Return, Returns, Types, PlaceTypes, Moved, Woken, FollowersKept, SignalSpace,
         Wake, Places

LEMMA CloseBeginsShape ==
    ASSUME Types, NEW p \in Procs, CloseBegins(p)
    PROVE  /\ pc[p] = "enter" /\ call[p] = "close" /\ mu = Free
           /\ FollowersKept(p)
           /\ \/ closed /\ Moved(p, "idle")
              \/ ~closed /\ Moved(p, "closeSync") /\ Signalled
           /\ closed' /\ mu' = Free /\ ret' \in [Procs -> Answers]
           /\ \A q \in Procs \ {p} : ret'[q] = ret[q]
           /\ UNCHANGED <<storeClosed, ioErr, flush, quiesceWant, room, syncMu, call,
                          count,
                          item>>
<1>1. CASE closed
  BY <1>1 DEF CloseBegins, Return, Types, PlaceTypes, Moved, Woken, FollowersKept,
              Places, Answers
<1>2. CASE ~closed
  BY <1>2 DEF CloseBegins, Types, PlaceTypes, Moved, Woken, FollowersKept, Signalled,
              Signal, SignalSpace,
              Wake, Places
<1> QED
  BY <1>1, <1>2

\* What any consumer's step leaves alone, and what becomes of the places: a
\* consumer moves or is parked, and waiters are woken
ConsumerMoves ==
    /\ pc' \in [Procs -> Places] /\ ret' \in [Procs -> Answers]
    /\ \A q \in Procs :
          \/ pc'[q] = pc[q]
          \/ pc[q] \in {"space", "notify"} /\ pc'[q] = "enter"
          \/ /\ pc[q] \in {"enter", "notify"} /\ call[q] = "take"
             /\ pc'[q] \in {"idle", "notify"}
    /\ \A q \in Procs :
          ret'[q] = ret[q] \/ (pc[q] \in {"enter", "notify"} /\ call[q] = "take")

NotifyKept == \A q \in Procs : pc'[q] = "notify" => pc[q] = "notify"

Consumes ==
    /\ ConsumerMoves /\ mu = Free
    /\ size' \in Nat /\ unread' \in 0 .. size' /\ owed' \in 0 .. MaxOwed /\ size' <= size
    /\ ioErr' \in BOOLEAN
    /\ WakeupOwed'
    /\ UNCHANGED <<closed, storeClosed, flush, quiesceWant, fill, mu, syncMu, call,
                   count, item>>

\* A step that closes notify when it must: when a report is owed, or when there was
\* nothing to read before and there may be now
LEMMA WakeupKept ==
    ASSUME Types, WakeupOwed, mu = Free, LockPlaces, NotifyKept,
           owed' > 0 => Signalled,
           owed' \in Nat, UNCHANGED closed,
           unread' = unread \/ Signalled \/ unread > 0
    PROVE  WakeupOwed'
<1>1. \A q \in Procs : pc[q] \notin Batching
  BY GroupCommitAssumption DEF LockPlaces
<1> QED
  BY <1>1 DEF WakeupOwed, NotifyKept, Signalled

\* signalProgress: AddWait's waiters go on, and if a report is owed so do the readers
LEMMA ProgressShape ==
    ASSUME Types, NEW n \in Nat
    PROVE  /\ SignalProgress(pc, n) \in [Procs -> Places]
           /\ \A q \in Procs :
                 \/ SignalProgress(pc, n)[q] = pc[q]
                 \/ pc[q] \in {"space", "notify"} /\ SignalProgress(pc, n)[q] = "enter"
           /\ n > 0 => \A q \in Procs : SignalProgress(pc, n)[q] # "notify"
<1>1. CASE n > 0
  BY <1>1 DEF SignalProgress, Signal, SignalSpace, Wake, Types, PlaceTypes, Places
<1>2. CASE ~(n > 0)
  BY <1>2 DEF SignalProgress, SignalSpace, Wake, Types, PlaceTypes, Places
<1> QED
  BY <1>1, <1>2

\* A consumer's call ends
LEMMA TakeReturnShape ==
    ASSUME Types, NEW p \in Procs, pc[p] \in {"enter", "notify"}, call[p] = "take",
           NEW n \in Nat, NEW a \in Answers, Return(p, a, SignalProgress(pc, n))
    PROVE  ConsumerMoves /\ mu' = Free /\ NotifyKept /\ (n > 0 => Signalled)
<1>1. /\ pc' = [SignalProgress(pc, n) EXCEPT ![p] = "idle"]
      /\ ret' = [ret EXCEPT ![p] = a] /\ mu' = Free
  BY DEF Return
<1>2. ConsumerMoves
  BY <1>1, ProgressShape DEF Types, PlaceTypes, Places, ConsumerMoves
<1>3. NotifyKept /\ (n > 0 => Signalled)
  BY <1>1, ProgressShape DEF Types, PlaceTypes, NotifyKept, Signalled
<1> QED
  BY <1>1, <1>2, <1>3

LEMMA TakeAnswersShape ==
    ASSUME Types, LockPlaces, WakeupOwed, NEW p \in Procs, TakeAnswers(p)
    PROVE  Consumes
<1> USE DEF Taking
<1>1. /\ pc[p] = "enter" /\ call[p] = "take" /\ mu = Free
      /\ UNCHANGED <<ioErr, size, unread, consumed>>
  BY DEF TakeAnswers
<1>2. PICK a \in Answers : /\ Return(p, a, SignalProgress(pc, owed'))
                           /\ owed' \in 0 .. MaxOwed /\ owed' \in Nat
  BY GroupCommitAssumption DEF TakeAnswers, Types, PlaceTypes, ByteTypes, Answers
<1>3. ConsumerMoves /\ mu' = Free /\ NotifyKept /\ (owed' > 0 => Signalled)
  BY <1>1, <1>2, TakeReturnShape
<1>4. WakeupOwed'
  BY <1>1, <1>2, <1>3, WakeupKept DEF consumed
<1> QED
  BY <1>1, <1>2, <1>3, <1>4 DEF consumed, Consumes, Types, PlaceTypes, ByteTypes, locks

LEMMA TakeParksShape ==
    ASSUME Types, WakeupOwed, NEW p \in Procs, TakeParks(p)
    PROVE  Consumes
  BY DEF TakeParks, Taking, Goto, consumed, Consumes, ConsumerMoves, Types, PlaceTypes,
         ByteTypes, Places, locks,
         room, WakeupOwed

LEMMA TakeCancelledShape ==
    ASSUME Types, LockPlaces, CallPlaces, WakeupOwed, NEW p \in Procs, TakeCancelled(p)
    PROVE  Consumes
<1>1. /\ pc[p] = "notify" /\ call[p] = "take" /\ mu = Free
      /\ Return(p, "fail", SignalProgress(pc, owed)) /\ owed \in Nat /\ "fail" \in Answers
      /\ UNCHANGED <<ioErr, size, unread, owed, consumed>>
  BY GroupCommitAssumption DEF TakeCancelled, Types, PlaceTypes, ByteTypes, Answers,
                               CallPlaces, room
<1>2. ConsumerMoves /\ mu' = Free /\ NotifyKept /\ (owed > 0 => Signalled)
  BY <1>1, TakeReturnShape
<1>3. WakeupOwed'
  BY <1>1, <1>2, WakeupKept DEF consumed
<1> QED
  BY <1>1, <1>2, <1>3 DEF consumed, Consumes, Types, PlaceTypes, ByteTypes, locks

\* Where a commit walk to s leaves the bytes and the reports
LEMMA CommitWalkShape ==
    ASSUME Types, NEW s \in Nat, s <= size, NEW a, CommitWalk(s, a)
    PROVE  /\ size' \in s .. size /\ ioErr' \in BOOLEAN
           /\ owed' \in 0 .. MaxOwed /\ owed' \in {owed, owed + 1}
<1> USE GroupCommitAssumption DEF CommitWalk, Types, PlaceTypes, ByteTypes
<1>1. size' \in s .. size
  OBVIOUS
<1>2. ioErr' \in BOOLEAN
  OBVIOUS
<1>3. owed' \in 0 .. MaxOwed /\ owed' \in {owed, owed + 1}
  OBVIOUS
<1> QED
  BY <1>1, <1>2, <1>3

LEMMA TakeReadsShape ==
    ASSUME Types, LockPlaces, WakeupOwed, NEW p \in Procs, NEW n \in 1 .. MaxBytes,
           TakeReads(p, n)
    PROVE  Consumes
<1>1. /\ pc[p] = "enter" /\ call[p] = "take" /\ mu = Free /\ n \in Nat /\ n > 0 /\ n <= unread
      /\ MaxBytes \in Nat /\ MaxOwed \in Nat
      /\ UNCHANGED consumed
  BY GroupCommitAssumption DEF TakeReads, Taking
<1>3. /\ size' \in Nat /\ unread' \in 0 .. size' /\ owed' \in 0 .. MaxOwed /\ size' <= size
      /\ ioErr' \in BOOLEAN
      /\ \E a \in Answers, m \in Nat : Return(p, a, SignalProgress(pc, m)) /\ owed' = m
  <2>1. CASE /\ unread' = unread - n
             /\ \E a \in {"nil", "fail", "io"} :
                   CommitWalk(unread - n, a) /\ Return(p, a, SignalProgress(pc, owed'))
    BY <1>1, <2>1, CommitWalkShape DEF Types, PlaceTypes, ByteTypes, Answers
  <2>2. CASE /\ \E a \in Answers : Return(p, a, SignalProgress(pc, owed))
             /\ UNCHANGED <<size, unread, owed, ioErr>>
    BY <1>1, <2>2 DEF Types, PlaceTypes, ByteTypes, Answers
  <2>3. CASE /\ \/ size > unread /\ unread' = unread - n /\ UNCHANGED size
                \/ size = unread /\ unread' = unread - n /\ size' = unread - n
             /\ Return(p, "corrupt", SignalProgress(pc, owed))
             /\ UNCHANGED <<owed, ioErr>>
    BY <1>1, <2>3 DEF Types, PlaceTypes, ByteTypes, Answers
  <2> QED
    BY <2>1, <2>2, <2>3 DEF TakeReads, Answers
<1>4. PICK a \in Answers, m \in Nat : Return(p, a, SignalProgress(pc, m)) /\ owed' = m
  BY <1>3
<1>5. ConsumerMoves /\ mu' = Free /\ NotifyKept /\ (owed' > 0 => Signalled)
  BY <1>1, <1>4, TakeReturnShape
<1>6. WakeupOwed'
  BY <1>1, <1>3, <1>4, <1>5, WakeupKept DEF consumed, Types, PlaceTypes, ByteTypes
<1> QED
  BY <1>1, <1>3, <1>4, <1>5, <1>6 DEF consumed, Consumes, locks, Types, PlaceTypes,
                                      ByteTypes

LEMMA ProgressMoves ==
    ASSUME Types, NEW n \in Nat, pc' = SignalProgress(pc, n), UNCHANGED ret
    PROVE  ConsumerMoves /\ NotifyKept /\ (n > 0 => Signalled)
<1> HIDE DEF SignalProgress
<1>1. ConsumerMoves
  BY ProgressShape DEF Types, PlaceTypes, ByteTypes, ConsumerMoves
<1> QED
  BY <1>1, ProgressShape DEF NotifyKept, Signalled

LEMMA TryReserveShape ==
    ASSUME Types, LockPlaces, WakeupOwed, NEW n \in 1 .. MaxBytes, TryReserve(n)
    PROVE  Consumes
<1>1. /\ owed \in Nat /\ n \in Nat /\ n > 0 /\ n <= unread /\ unread' = unread - n
      /\ mu = Free /\ pc' = SignalProgress(pc, owed)
      /\ UNCHANGED <<ioErr, size, owed, ret, consumed>>
  BY GroupCommitAssumption DEF TryReserve, Consuming, Types, PlaceTypes, ByteTypes
<1>2. ConsumerMoves /\ NotifyKept /\ (owed > 0 => Signalled)
  BY <1>1, ProgressMoves
<1>3. WakeupOwed'
  BY <1>1, <1>2, WakeupKept DEF consumed, Types, PlaceTypes, ByteTypes
<1> QED
  BY <1>1, <1>2, <1>3 DEF consumed, Consumes, Types, PlaceTypes, ByteTypes, locks

LEMMA RetireShape ==
    ASSUME Types, LockPlaces, WakeupOwed, NEW n \in 1 .. MaxBytes, Retire(n)
    PROVE  Consumes
<1>1. PICK a : CommitWalk(size - n, a)
  BY DEF Retire
<1>2. /\ size - n \in Nat /\ size - n <= size /\ unread <= size - n /\ n \in Nat
      /\ MaxOwed \in Nat /\ mu = Free /\ pc' = SignalProgress(pc, owed')
      /\ UNCHANGED <<unread, ret, consumed>>
  BY GroupCommitAssumption DEF Retire, Consuming, Types, PlaceTypes, ByteTypes
<1>3. /\ size' \in (size - n) .. size /\ ioErr' \in BOOLEAN
      /\ owed' \in 0 .. MaxOwed /\ owed' \in Nat
  BY <1>1, <1>2, CommitWalkShape
<1>4. ConsumerMoves /\ NotifyKept /\ (owed' > 0 => Signalled)
  BY <1>2, <1>3, ProgressMoves
<1>5. WakeupOwed'
  BY <1>2, <1>3, <1>4, WakeupKept DEF consumed, Types, PlaceTypes, ByteTypes
<1> QED
  BY <1>2, <1>3, <1>4, <1>5 DEF consumed, Consumes, Types, PlaceTypes, ByteTypes, locks

LEMMA RewindShape ==
    ASSUME Types, WakeupOwed, Rewind
    PROVE  Consumes
<1>1. CASE unread < size
  BY <1>1 DEF Rewind, Consuming, Signal, Wake, consumed, Consumes, ConsumerMoves, Types,
              PlaceTypes, ByteTypes, Places, locks, WakeupOwed
<1>2. CASE ~(unread < size)
  BY <1>2 DEF Rewind, Consuming, consumed, Consumes, ConsumerMoves, Types, PlaceTypes,
              ByteTypes, locks, WakeupOwed
<1> QED
  BY <1>1, <1>2

\* A batch that finds the segment full and nothing staged cycles it, or gives up
LEMMA BatchCyclesShape ==
    ASSUME Types, OneLeader, TailOwned, RecordsCounted, NEW p \in Procs, BatchCycles(p)
    PROVE  /\ pc[p] = "batch" /\ pendingBytes = 0 /\ fill' \in {fill, 0}
           /\ pend = {} /\ flight = {} /\ pend' = {} /\ flight' = {} /\ inFlight = 0
           /\ \/ UNCHANGED <<ioErr, pc, ret, mu>>
              \/ /\ \E a \in {"fail", "io"} : Returns(p, a)
                 /\ count[p] > 0 => Signalled
                 /\ ioErr' \in BOOLEAN
           /\ UNCHANGED <<closed, storeClosed, flushing, pendingBytes, inFlight, group,
                          curGroup, heading, real, safe, torn, quiesceWant, size, unread,
                          owed, syncMu, call, count, item>>
<1>1. /\ pc[p] = "batch" /\ pendingBytes = 0
      /\ UNCHANGED <<closed, storeClosed, flushing, pendingBytes, inFlight, group,
                     curGroup, heading, real, safe, torn, quiesceWant, size, unread,
                     owed, syncMu, call, count, item>>
  BY DEF BatchCycles, BatchAt
<1>2. pend = {} /\ flight = {} /\ inFlight = 0
  BY <1>1 DEF OneLeader, TailOwned, RecordsCounted, Batching
<1>3. pend' = {} /\ flight' = {} /\ fill' \in {fill, 0}
  BY <1>2 DEF BatchCycles, Cycle
<1>4. \/ UNCHANGED <<ioErr, pc, ret, mu>>
      \/ \E a \in {"fail", "io"} : BatchReturn(p, a, count[p]) /\ ioErr' \in BOOLEAN
  BY DEF BatchCycles, Types, PlaceTypes
<1>5. ASSUME NEW a \in {"fail", "io"}, BatchReturn(p, a, count[p])
      PROVE  Returns(p, a) /\ (count[p] > 0 => Signalled)
  BY <1>5, BatchReturnShape
<1> QED
  BY <1>1, <1>2, <1>3, <1>4, <1>5

\* A batch whose tail is discarded: BatchPanics and BatchUnpublished
BatchDrops(p, a) ==
    /\ pc[p] \in Batching /\ Returns(p, a) /\ (count[p] > 0 => Signalled)
    /\ DiscardStaged /\ ioErr' \in BOOLEAN
    /\ UNCHANGED <<closed, storeClosed, flushing, group, curGroup, heading, real, safe,
                   torn, quiesceWant, size, fill, unread, owed, syncMu, call, count,
                   item>>

LEMMA BatchPanicsShape ==
    ASSUME Types, NEW p \in Procs, BatchPanics(p)
    PROVE  BatchDrops(p, "panic")
<1>1. /\ pc[p] = "batch" /\ BatchReturn(p, "panic", count[p]) /\ DiscardStaged
      /\ UNCHANGED <<closed, storeClosed, ioErr, flushing, group, curGroup, heading,
                     real, safe,
                     torn, quiesceWant, size, fill, unread, owed, syncMu, call, count,
                     item>>
  BY DEF BatchPanics, BatchAt, latch, room
<1> QED
  BY <1>1, BatchReturnShape DEF BatchDrops, Batching, Types, PlaceTypes

LEMMA BatchUnpublishedShape ==
    ASSUME Types, NEW p \in Procs, BatchUnpublished(p)
    PROVE  \E a \in {"io", "fail"} : BatchDrops(p, a)
<1>1. PICK a \in {"io", "fail"} : BatchReturn(p, a, count[p]) /\ ioErr' \in BOOLEAN
  BY DEF BatchUnpublished, Types, PlaceTypes
<1>2. /\ pc[p] = "batchPublish" /\ DiscardStaged
      /\ UNCHANGED <<closed, storeClosed, flushing, group, curGroup, heading, real, safe,
                     torn, quiesceWant, size, fill, unread, owed, syncMu, call, count,
                     item>>
  BY DEF BatchUnpublished, room
<1>3. BatchDrops(p, a)
  BY <1>1, <1>2, BatchReturnShape DEF BatchDrops, Batching
<1> QED
  BY <1>3

\* A batch's tail is published; the batch goes on, or returns
LEMMA BatchPublishesShape ==
    ASSUME Types, NEW p \in Procs, BatchPublishes(p)
    PROVE  /\ pc[p] = "batchPublish" /\ DiscardStaged
           /\ Published(Synced(pend), pendingBytes)
           /\ count' = [count EXCEPT ![p] = @ + Cardinality(pend)]
           /\ \/ /\ ret[p] = "more" /\ Moved(p, "batch") /\ FollowersKept(p)
                 /\ ret' = [ret EXCEPT ![p] = "none"]
                 /\ safe' = Tally(safe, pend)
                 /\ UNCHANGED <<mu, ioErr>>
              \/ /\ ret[p] # "more" /\ Returns(p, ret[p])
                 /\ count'[p] > 0 => Signalled
                 /\ safe' = Tally(safe, pend)
                 /\ UNCHANGED ioErr
              \/ /\ Returns(p, "io") /\ (count'[p] > 0 => Signalled)
                 /\ ioErr' /\ UNCHANGED safe
           /\ UNCHANGED <<closed, storeClosed, flushing, group, curGroup, heading,
                          quiesceWant, syncMu, call, item>>
<1>1. /\ pc[p] = "batchPublish" /\ DiscardStaged
      /\ Published(Synced(pend), pendingBytes)
      /\ count' = [count EXCEPT ![p] = @ + Cardinality(pend)]
      /\ UNCHANGED <<closed, storeClosed, flushing, group, curGroup, heading,
                     quiesceWant, syncMu, call, item>>
  BY DEF BatchPublishes
<1>2. \/ /\ safe' = Tally(safe, pend)
         /\ BatchGoesOn(p) /\ UNCHANGED ioErr
      \/ ioErr' = TRUE /\ BatchReturn(p, "io", count'[p]) /\ UNCHANGED safe
  BY DEF BatchPublishes
<1>3. CASE safe' = Tally(safe, pend) /\ BatchGoesOn(p) /\ UNCHANGED ioErr
  <2>1. CASE ret[p] = "more"
    <3>1. /\ pc' = [pc EXCEPT ![p] = "batch"] /\ ret' = [ret EXCEPT ![p] = "none"]
          /\ UNCHANGED mu
      BY <1>3, <2>1 DEF BatchGoesOn, Goto
    <3>2. Moved(p, "batch") /\ FollowersKept(p)
      BY <3>1, <1>1 DEF Moved, Woken, FollowersKept, Types, PlaceTypes, Places
    <3> QED
      BY <1>1, <1>3, <2>1, <3>1, <3>2
  <2>2. CASE ret[p] # "more"
    <3>1. BatchReturn(p, ret[p], count'[p])
      BY <1>3, <2>2 DEF BatchGoesOn
    <3>2. Returns(p, ret[p]) /\ (count'[p] > 0 => Signalled)
      BY <3>1, BatchReturnShape
    <3> QED
      BY <1>1, <1>3, <2>2, <3>2
  <2> QED
    BY <2>1, <2>2
<1>4. CASE ioErr' = TRUE /\ BatchReturn(p, "io", count'[p]) /\ UNCHANGED safe
  <2>1. Returns(p, "io") /\ (count'[p] > 0 => Signalled)
    BY <1>4, BatchReturnShape
  <2> QED
    BY <1>1, <1>4, <2>1
<1> QED
  BY <1>2, <1>3, <1>4

LEMMA SyncBeginsShape ==
    ASSUME Types, NEW p \in Procs, SyncBegins(p)
    PROVE  /\ call[p] = "sync" /\ mu \in {Free, p} /\ mu' = Free
           /\ \/ /\ pc[p] = "quiesced" /\ Open /\ Moved(p, "syncFlush") /\ FollowersKept(p)
                 /\ UNCHANGED <<syncMu, ret>>
              \/ /\ pc[p] \in {"syncLocked", "quiesced"} /\ syncMu' = Free
                 /\ \E a \in {"closed", "io"} : Returns(p, a)
           /\ UNCHANGED <<latch, flush, quiesceWant, room, call, count, item>>
<1>1. CASE /\ pc[p] = "quiesced" /\ Open
           /\ Goto(p, "syncFlush") /\ mu' = Free
           /\ UNCHANGED <<syncMu, ret>>
  BY <1>1 DEF SyncBegins, Locked, Goto, Moved, Woken, FollowersKept, Types, PlaceTypes,
              Places
<1>2. CASE /\ pc[p] \in {"syncLocked", "quiesced"} /\ syncMu' = Free
           /\ \E a \in {"closed", "io"} : Return(p, a, SignalSpace(pc))
  <2>1. \E a \in {"closed", "io"} : Returns(p, a)
    BY <1>2, SpaceReturnShape
  <2> QED
    BY <1>2, <2>1 DEF SyncBegins, Locked, Return
<1> QED
  BY <1>1, <1>2 DEF SyncBegins

LEMMA SyncEndsShape ==
    ASSUME Types, NEW p \in Procs, SyncEnds(p)
    PROVE  /\ pc[p] = "syncFlush" /\ mu = Free /\ syncMu' = Free
           /\ \E a \in {"nil", "io"} : Returns(p, a)
           /\ ioErr' \in BOOLEAN
           /\ UNCHANGED <<closed, storeClosed, flush, quiesceWant, room, call, count,
                          item>>
<1>1. PICK a \in {"nil", "io"} : Return(p, a, SignalSpace(pc))
  BY DEF SyncEnds
<1>2. Returns(p, a)
  BY <1>1, SpaceReturnShape
<1> QED
  BY <1>2 DEF SyncEnds, Types, PlaceTypes

\* Every step is one of these
LEMMA StepCases ==
    ASSUME GInv, [Next]_vars
    PROVE  \/ \E p \in Procs :
                 \/ AddRefused(p) \/ AddYields(p) \/ AddParks(p) \/ AddQuiesces(p)
                 \/ AddCycles(p) \/ AddFails(p) \/ AddFollows(p) \/ AddLeads(p)
                 \/ AddCancelled(p) \/ \E k \in Kinds : Begin(p, k)
           \/ \E p \in Procs :
                 \/ LeaderPublishes(p) \/ LeaderUnpublished(p) \/ LeaderPoisoned(p)
                 \/ LeaderSettles(p) \/ FollowerReturns(p)
           \/ \E p \in Procs :
                 \/ QuiesceStarts(p) \/ QuiesceWaits(p) \/ QuiesceEnds(p)
                 \/ BatchBegins(p) \/ BatchStages(p) \/ BatchStops(p) \/ BatchCycles(p)
                 \/ BatchPanics(p) \/ BatchPublishes(p) \/ BatchUnpublished(p)
           \/ \E p \in Procs :
                 \/ SyncLocks(p) \/ SyncBegins(p) \/ SyncEnds(p)
                 \/ CloseBegins(p) \/ CloseLocks(p) \/ CloseEnds(p)
           \/ Consumes
           \/ UNCHANGED vars
<1>1. ASSUME NEW p \in Procs, TakeStep(p) \/ TakeCancelled(p)
      PROVE  Consumes
  BY <1>1, TakeAnswersShape, TakeParksShape, TakeReadsShape, TakeCancelledShape
     DEF TakeStep, GInv, Order
<1>2. ASSUME NEW n \in 1 .. MaxBytes, TryReserve(n) \/ Retire(n)
      PROVE  Consumes
  BY <1>2, TryReserveShape, RetireShape DEF GInv, Order
<1>3. ASSUME Rewind
      PROVE  Consumes
  BY <1>3, RewindShape DEF GInv, Order
<1> QED
  BY <1>1, <1>2, <1>3
     DEF Next, Step, AddStep, LeadStep, QuiesceStep, BatchStep, SyncStep, CloseStep

\* A step that touches no byte and no record
Aside == UNCHANGED <<flush, room, count, item>>

LEMMA DataCases ==
    ASSUME GInv, [Next]_vars
    PROVE  \/ Aside
           \/ \E p \in Procs :
                 \/ AddCycles(p) \/ AddFails(p) \/ AddFollows(p) \/ AddLeads(p)
                 \/ \E k \in Kinds : Begin(p, k)
           \/ \E p \in Procs :
                 \/ LeaderPublishes(p) \/ LeaderUnpublished(p) \/ LeaderPoisoned(p)
                 \/ LeaderSettles(p)
           \/ \E p \in Procs :
                 \/ BatchStages(p) \/ BatchCycles(p)
                 \/ BatchPanics(p) \/ BatchPublishes(p) \/ BatchUnpublished(p)
           \/ Consumes
           \/ UNCHANGED vars
<1>1. ASSUME NEW p \in Procs,
             \/ AddRefused(p) \/ AddYields(p) \/ AddParks(p) \/ AddQuiesces(p)
             \/ AddCancelled(p) \/ FollowerReturns(p)
      PROVE  Aside
  BY <1>1 DEF AddRefused, AddYields, AddParks, AddQuiesces, AddCancelled, FollowerReturns,
              Aside, result
<1>2. ASSUME NEW p \in Procs,
             \/ QuiesceStarts(p) \/ QuiesceWaits(p) \/ QuiesceEnds(p)
             \/ BatchBegins(p) \/ BatchStops(p)
      PROVE  Aside
  BY <1>2 DEF QuiesceStarts, QuiesceWaits, QuiesceEnds, BatchBegins, BatchStops, Aside,
              result
<1>3. ASSUME NEW p \in Procs,
             \/ SyncLocks(p) \/ SyncBegins(p) \/ SyncEnds(p)
             \/ CloseBegins(p) \/ CloseLocks(p) \/ CloseEnds(p)
      PROVE  Aside
  BY <1>3 DEF SyncLocks, SyncBegins, SyncEnds, CloseBegins, CloseLocks, CloseEnds, Aside,
              result
<1> QED
  BY <1>1, <1>2, <1>3, StepCases

-----------------------------------------------------------------------------
(* Every step keeps the invariant *)

LEMMA ConsumesKeepsCap ==
    ASSUME Types, CapHeld, Consumes
    PROVE  CapHeld'
<1>1. size' \in Nat /\ size' <= size /\ pendingBytes' = pendingBytes /\ inFlight' = inFlight
  BY DEF Consumes, flush
<1>2. /\ size \in Nat /\ pendingBytes \in Nat /\ inFlight \in Nat /\ MaxBytes \in Nat
      /\ size + (pendingBytes + inFlight) <= MaxBytes
  BY GroupCommitAssumption DEF CapHeld, stagedBytes, Types, ByteTypes
<1>3. size' + (pendingBytes + inFlight) <= MaxBytes
  BY <1>1, <1>2, CapKept
<1> QED
  BY <1>1, <1>3 DEF CapHeld, stagedBytes

\* No step disturbs who owns what
LEMMA OrderStep ==
    ASSUME GInv, [Next]_vars
    PROVE  Order'
<1> USE GroupCommitAssumption
   DEF GInv, Types, PlaceTypes, Places, Kinds, Order, LockPlaces, OneLeader, TailOwned,
       Followers, FollowersKept, CallPlaces, SyncPlaces, ClosedSilent, Batching,
       Leading, Waiting, Adds, stagedBytes, Busy, Open, Locked
<1>1. ASSUME NEW p \in Procs, AddRefused(p) PROVE Order'
  BY <1>1 DEF AddRefused, Adding, Return, latch, flush, room, locks, result
<1>2. ASSUME NEW p \in Procs, AddYields(p) PROVE Order'
  BY <1>2 DEF AddYields, Adding, Goto, latch, flush, room, locks, result
<1>3. ASSUME NEW p \in Procs, AddParks(p) PROVE Order'
  BY <1>3 DEF AddParks, Adding, Goto, latch, flush, room, locks, result
<1>4. ASSUME NEW p \in Procs, AddQuiesces(p) PROVE Order'
  BY <1>4 DEF AddQuiesces, Admitted, Adding, Goto, latch, flush, room, locks, result
<1>5. ASSUME NEW p \in Procs, AddCycles(p) PROVE Order'
  BY <1>5 DEF AddCycles, Admitted, Adding, Cycle, latch, flush, room, locks, result
<1>6. ASSUME NEW p \in Procs, AddFails(p) PROVE Order'
  BY <1>6 DEF AddFails, Admitted, Adding, Return, latch, flush, room, locks, result
<1>7. ASSUME NEW p \in Procs, AddFollows(p) PROVE Order'
  BY <1>7 DEF AddFollows, Admitted, Adding, Stage, Goto, latch, flush, room, locks, result
<1>8. ASSUME NEW p \in Procs, AddLeads(p) PROVE Order'
  BY <1>8 DEF AddLeads, Admitted, Adding, Goto, latch, flush, room, locks, result
<1>9. ASSUME NEW p \in Procs, LeaderPublishes(p) PROVE Order'
  BY <1>9, LeaderPublishesShape DEF Moved, Woken
<1>10. ASSUME NEW p \in Procs, LeaderUnpublished(p) PROVE Order'
  BY <1>10, LeaderUnpublishedShape DEF Moved, Woken, LeaderFails, DiscardStaged
<1>11. ASSUME NEW p \in Procs, LeaderPoisoned(p) PROVE Order'
  BY <1>11, LeaderPoisonedShape DEF Moved, Woken, LeaderFails, DiscardStaged
<1>12. ASSUME NEW p \in Procs, LeaderSettles(p) PROVE Order'
  BY <1>12, LeaderSettlesShape DEF Moved, Woken, LeaderLeaves, LeaderGoesOn
<1>13. ASSUME NEW p \in Procs, FollowerReturns(p) PROVE Order'
  BY <1>13 DEF FollowerReturns, Goto, latch, flush, room, locks, result
<1>14. ASSUME NEW p \in Procs, QuiesceStarts(p) PROVE Order'
  BY <1>14 DEF QuiesceStarts, Goto, latch, flush, room, locks, result
<1>15. ASSUME NEW p \in Procs, QuiesceWaits(p) PROVE Order'
  BY <1>15 DEF QuiesceWaits, Goto, latch, flush, room, locks, result
<1>16. ASSUME NEW p \in Procs, QuiesceEnds(p) PROVE Order'
  BY <1>16, QuiesceEndsShape DEF Moved, Woken, QuiesceEnds, latch, flush, room, result
<1>17. ASSUME NEW p \in Procs, BatchBegins(p) PROVE Order'
  BY <1>17 DEF BatchBegins, Goto, Return, latch, flush, room, locks, result
<1>18. ASSUME NEW p \in Procs, BatchStages(p) PROVE Order'
  BY <1>18 DEF BatchStages, BatchAt, Stage, latch, flush, room, locks, result
<1>19. ASSUME NEW p \in Procs, BatchStops(p) PROVE Order'
  BY <1>19 DEF BatchStops, BatchAt, Goto, latch, flush, room, locks, result
<1>20. ASSUME NEW p \in Procs, BatchCycles(p) PROVE Order'
  BY <1>20, BatchCyclesShape DEF Moved, Woken, Returns
<1>21. ASSUME NEW p \in Procs, BatchPanics(p) PROVE Order'
  BY <1>21, BatchPanicsShape DEF Moved, Woken, BatchDrops, DiscardStaged, Returns
<1>22. ASSUME NEW p \in Procs, BatchPublishes(p) PROVE Order'
  BY <1>22, BatchPublishesShape DEF Moved, Woken, DiscardStaged, Published, Returns
<1>23. ASSUME NEW p \in Procs, BatchUnpublished(p) PROVE Order'
  BY <1>23, BatchUnpublishedShape DEF Moved, Woken, BatchDrops, DiscardStaged, Returns
<1>24. ASSUME NEW p \in Procs, SyncLocks(p) PROVE Order'
  BY <1>24 DEF SyncLocks, Goto, latch, flush, room, locks, result
<1>25. ASSUME NEW p \in Procs, SyncBegins(p) PROVE Order'
  BY <1>25, SyncBeginsShape DEF Moved, Woken, Returns, latch, flush, room
<1>26. ASSUME NEW p \in Procs, SyncEnds(p) PROVE Order'
  BY <1>26, SyncEndsShape DEF Moved, Woken, Returns, flush, room
<1>27. ASSUME NEW p \in Procs, CloseBegins(p) PROVE Order'
  BY <1>27, CloseBeginsShape DEF Moved, Woken, flush, room
<1>28. ASSUME NEW p \in Procs, CloseLocks(p) PROVE Order'
  BY <1>28 DEF CloseLocks, Goto, latch, flush, room, locks, result
<1>29. ASSUME NEW p \in Procs, CloseEnds(p) PROVE Order'
  BY <1>29 DEF CloseEnds, Return, latch, flush, room, locks, result
<1>30. ASSUME NEW p \in Procs, AddCancelled(p) PROVE Order'
  BY <1>30 DEF AddCancelled, Return, latch, flush, room, locks, result
<1>31. ASSUME NEW p \in Procs, NEW k \in Kinds, Begin(p, k) PROVE Order'
  BY <1>31 DEF Begin, Goto, latch, flush, room, locks, result
<1>32. ASSUME Consumes PROVE Order'
  BY <1>32 DEF Consumes, ConsumerMoves, flush
<1>33. ASSUME UNCHANGED vars PROVE Order'
  BY <1>33 DEF vars, latch, flush, room, locks, result
<1> HIDE DEF Types, PlaceTypes, Places, Kinds, Order, LockPlaces, OneLeader, TailOwned,
       Followers, FollowersKept, CallPlaces, SyncPlaces, ClosedSilent, Batching,
       Leading, Waiting, Adds, stagedBytes, Busy, Open, Locked
<1> QED
  BY StepCases, <1>1, <1>2, <1>3, <1>4, <1>5, <1>6, <1>7, <1>8, <1>9, <1>10, <1>11,
     <1>12, <1>13, <1>14, <1>15, <1>16, <1>17, <1>18, <1>19, <1>20, <1>21, <1>22, <1>23,
     <1>24, <1>25, <1>26, <1>27, <1>28, <1>29, <1>30, <1>31, <1>32, <1>33

\* ... nor the types of places and flags,
LEMMA PlaceTypesStep ==
    ASSUME GInv, [Next]_vars
    PROVE  PlaceTypes'
<1> USE GroupCommitAssumption DEF GInv, Order, Types, PlaceTypes, Places, Kinds, Answers
<1>1. ASSUME NEW p \in Procs, AddRefused(p) PROVE PlaceTypes'
  BY <1>1 DEF AddRefused, Adding, Return, latch, flush, room, locks, result
<1>2. ASSUME NEW p \in Procs, AddYields(p) PROVE PlaceTypes'
  BY <1>2 DEF AddYields, Adding, Goto, latch, flush, room, locks, result
<1>3. ASSUME NEW p \in Procs, AddParks(p) PROVE PlaceTypes'
  BY <1>3 DEF AddParks, Adding, Goto, latch, flush, room, locks, result
<1>4. ASSUME NEW p \in Procs, AddQuiesces(p) PROVE PlaceTypes'
  BY <1>4 DEF AddQuiesces, Admitted, Adding, Goto, latch, flush, room, locks, result
<1>5. ASSUME NEW p \in Procs, AddCycles(p) PROVE PlaceTypes'
  BY <1>5 DEF AddCycles, Admitted, Adding, Cycle, latch, flush, room, locks, result
<1>6. ASSUME NEW p \in Procs, AddFails(p) PROVE PlaceTypes'
  BY <1>6 DEF AddFails, Admitted, Adding, Return, latch, flush, room, locks, result
<1>7. ASSUME NEW p \in Procs, AddFollows(p) PROVE PlaceTypes'
  BY <1>7 DEF AddFollows, Admitted, Adding, Stage, Goto, latch, flush, room, locks, result
<1>8. ASSUME NEW p \in Procs, AddLeads(p) PROVE PlaceTypes'
  BY <1>8 DEF AddLeads, Admitted, Adding, Goto, latch, flush, room, locks, result
<1>9. ASSUME NEW p \in Procs, LeaderPublishes(p) PROVE PlaceTypes'
  <2>1. torn' \in BOOLEAN
    BY <1>9, Zenon DEF LeaderPublishes, Published
  <2> QED
    BY <1>9, <2>1, LeaderPublishesShape DEF Moved, Types, PlaceTypes
<1>10. ASSUME NEW p \in Procs, LeaderUnpublished(p) PROVE PlaceTypes'
  <2>1. PICK a \in {"io", "fail"} : LeaderFails(p, a)
    BY <1>10, LeaderUnpublishedShape
  <2>2. ret' \in [Procs -> Answers]
    BY <2>1, AnswerType DEF LeaderFails, Answers
  <2> QED
    BY <2>1, <2>2 DEF LeaderFails, Moved, Types, PlaceTypes
<1>11. ASSUME NEW p \in Procs, LeaderPoisoned(p) PROVE PlaceTypes'
  <2>1. LeaderFails(p, "io")
    BY <1>11, LeaderPoisonedShape
  <2>2. ret' \in [Procs -> Answers]
    BY <2>1, AnswerType DEF LeaderFails, Answers
  <2> QED
    BY <2>1, <2>2 DEF LeaderFails, Moved, Types, PlaceTypes
<1>12. ASSUME NEW p \in Procs, LeaderSettles(p) PROVE PlaceTypes'
  <2>1. LeaderLeaves(p) \/ LeaderGoesOn(p)
    BY <1>12, LeaderSettlesShape
  <2>2. ret' \in [Procs -> Answers]
    BY <2>1, AnswerType DEF LeaderLeaves, LeaderGoesOn, Answers
  <2> QED
    BY <2>1, <2>2 DEF LeaderLeaves, LeaderGoesOn, Moved, Types, PlaceTypes
<1>13. ASSUME NEW p \in Procs, FollowerReturns(p) PROVE PlaceTypes'
  BY <1>13 DEF FollowerReturns, Goto, latch, flush, room, locks, result
<1>14. ASSUME NEW p \in Procs, QuiesceStarts(p) PROVE PlaceTypes'
  BY <1>14 DEF QuiesceStarts, Goto, latch, flush, room, locks, result
<1>15. ASSUME NEW p \in Procs, QuiesceWaits(p) PROVE PlaceTypes'
  BY <1>15 DEF QuiesceWaits, Goto, latch, flush, room, locks, result
<1>16. ASSUME NEW p \in Procs, QuiesceEnds(p) PROVE PlaceTypes'
  BY <1>16, QuiesceEndsShape
     DEF Moved, Woken, QuiesceEnds, Locked, Adds, latch, flush, room, result
<1>17. ASSUME NEW p \in Procs, BatchBegins(p) PROVE PlaceTypes'
  BY <1>17 DEF BatchBegins, Goto, Return, latch, flush, room, locks, result
<1>18. ASSUME NEW p \in Procs, BatchStages(p) PROVE PlaceTypes'
  BY <1>18 DEF BatchStages, BatchAt, Stage, latch, flush, room, locks, result
<1>19. ASSUME NEW p \in Procs, BatchStops(p) PROVE PlaceTypes'
  BY <1>19 DEF BatchStops, BatchAt, Goto, latch, flush, room, locks, result
<1>20. ASSUME NEW p \in Procs, BatchCycles(p) PROVE PlaceTypes'
  BY <1>20, BatchCyclesShape DEF Moved, Woken, Returns
<1>21. ASSUME NEW p \in Procs, BatchPanics(p) PROVE PlaceTypes'
  BY <1>21, BatchPanicsShape DEF Moved, Woken, BatchDrops, DiscardStaged, Returns
<1>22. ASSUME NEW p \in Procs, BatchPublishes(p) PROVE PlaceTypes'
  <2>1. torn' \in BOOLEAN
    BY <1>22, Zenon DEF BatchPublishes, Published
  <2> QED
    BY <1>22, <2>1, BatchPublishesShape DEF Moved, Returns, Types, PlaceTypes, Answers
<1>23. ASSUME NEW p \in Procs, BatchUnpublished(p) PROVE PlaceTypes'
  BY <1>23, BatchUnpublishedShape DEF Moved, Woken, BatchDrops, DiscardStaged, Returns
<1>24. ASSUME NEW p \in Procs, SyncLocks(p) PROVE PlaceTypes'
  BY <1>24 DEF SyncLocks, Goto, latch, flush, room, locks, result
<1>25. ASSUME NEW p \in Procs, SyncBegins(p) PROVE PlaceTypes'
  BY <1>25, SyncBeginsShape DEF Moved, Woken, Returns, Locked, latch, flush, room
<1>26. ASSUME NEW p \in Procs, SyncEnds(p) PROVE PlaceTypes'
  BY <1>26, SyncEndsShape DEF Moved, Woken, Returns, flush, room
<1>27. ASSUME NEW p \in Procs, CloseBegins(p) PROVE PlaceTypes'
  BY <1>27, CloseBeginsShape DEF Moved, Woken, flush, room
<1>28. ASSUME NEW p \in Procs, CloseLocks(p) PROVE PlaceTypes'
  BY <1>28 DEF CloseLocks, Goto, latch, flush, room, locks, result
<1>29. ASSUME NEW p \in Procs, CloseEnds(p) PROVE PlaceTypes'
  BY <1>29 DEF CloseEnds, Return, latch, flush, room, locks, result
<1>30. ASSUME NEW p \in Procs, AddCancelled(p) PROVE PlaceTypes'
  BY <1>30 DEF AddCancelled, Return, latch, flush, room, locks, result
<1>31. ASSUME NEW p \in Procs, NEW k \in Kinds, Begin(p, k) PROVE PlaceTypes'
  BY <1>31 DEF Begin, Goto, latch, flush, room, locks, result
<1>32. ASSUME Consumes PROVE PlaceTypes'
  BY <1>32 DEF Consumes, ConsumerMoves, flush
<1>33. ASSUME UNCHANGED vars PROVE PlaceTypes'
  BY <1>33 DEF vars, latch, flush, room, locks, result
<1> QED
  BY StepCases, <1>1, <1>2, <1>3, <1>4, <1>5, <1>6, <1>7, <1>8, <1>9, <1>10, <1>11,
     <1>12, <1>13, <1>14, <1>15, <1>16, <1>17, <1>18, <1>19, <1>20, <1>21, <1>22, <1>23,
     <1>24, <1>25, <1>26, <1>27, <1>28, <1>29, <1>30, <1>31, <1>32, <1>33

\* ... nor of the byte counts,
LEMMA ByteTypesStep ==
    ASSUME GInv, [Next]_vars
    PROVE  ByteTypes'
<1> USE GroupCommitAssumption DEF GInv, Order, Types, ByteTypes
<1>1. ASSUME Aside PROVE ByteTypes'
  BY <1>1 DEF Aside, room, flush
<1>2. ASSUME NEW p \in Procs, AddCycles(p) PROVE ByteTypes'
  BY <1>2 DEF AddCycles, Admitted, Adding, Cycle, latch, flush, room, locks, result
<1>3. ASSUME NEW p \in Procs, AddFails(p) PROVE ByteTypes'
  BY <1>3 DEF AddFails, Admitted, Adding, Return, latch, flush, room, locks, result
<1>4. ASSUME NEW p \in Procs, AddFollows(p) PROVE ByteTypes'
  BY <1>4, SizeType
     DEF AddFollows, Admitted, Adding, Stage, Goto, latch, flush, room, locks, result
<1>5. ASSUME NEW p \in Procs, AddLeads(p) PROVE ByteTypes'
  BY <1>5, SizeType
     DEF AddLeads, Admitted, Adding, Goto, latch, flush, room, locks, result
<1>6. ASSUME NEW p \in Procs, LeaderPublishes(p) PROVE ByteTypes'
  BY <1>6, LeaderPublishesShape DEF Moved, Woken, Leading, Published
<1>7. ASSUME NEW p \in Procs, LeaderUnpublished(p) PROVE ByteTypes'
  BY <1>7, LeaderUnpublishedShape DEF Moved, Woken, LeaderFails, DiscardStaged, Leading
<1>8. ASSUME NEW p \in Procs, LeaderPoisoned(p) PROVE ByteTypes'
  BY <1>8, LeaderPoisonedShape DEF Moved, Woken, LeaderFails, DiscardStaged, Leading
<1>9. ASSUME NEW p \in Procs, LeaderSettles(p) PROVE ByteTypes'
  BY <1>9, LeaderSettlesShape DEF Moved, Woken, LeaderLeaves, LeaderGoesOn, Leading
<1>10. ASSUME NEW p \in Procs, BatchStages(p) PROVE ByteTypes'
  BY <1>10, SizeType DEF BatchStages, BatchAt, Stage, latch, flush, room, locks, result
<1>11. ASSUME NEW p \in Procs, BatchCycles(p) PROVE ByteTypes'
  BY <1>11, BatchCyclesShape DEF Moved, Woken, Returns
<1>12. ASSUME NEW p \in Procs, BatchPanics(p) PROVE ByteTypes'
  BY <1>12, BatchPanicsShape DEF Moved, Woken, BatchDrops, DiscardStaged, Returns
<1>13. ASSUME NEW p \in Procs, BatchPublishes(p) PROVE ByteTypes'
  BY <1>13, BatchPublishesShape DEF Moved, Woken, DiscardStaged, Published, Returns
<1>14. ASSUME NEW p \in Procs, BatchUnpublished(p) PROVE ByteTypes'
  BY <1>14, BatchUnpublishedShape DEF Moved, Woken, BatchDrops, DiscardStaged, Returns
<1>15. ASSUME NEW p \in Procs, NEW k \in Kinds, Begin(p, k) PROVE ByteTypes'
  BY <1>15 DEF Begin, Goto, latch, flush, room, locks, result
<1>16. ASSUME Consumes PROVE ByteTypes'
  BY <1>16 DEF Consumes, ConsumerMoves, flush
<1>17. ASSUME UNCHANGED vars PROVE ByteTypes'
  BY <1>17 DEF vars, latch, flush, room, locks, result
<1> QED
  BY DataCases, <1>1, <1>2, <1>3, <1>4, <1>5, <1>6, <1>7, <1>8, <1>9, <1>10, <1>11,
     <1>12, <1>13, <1>14, <1>15, <1>16, <1>17

\* ... nor the cap,
LEMMA CapHeldStep ==
    ASSUME GInv, [Next]_vars
    PROVE  CapHeld'
<1> USE GroupCommitAssumption DEF GInv, Order, Types, ByteTypes, CapHeld, stagedBytes
<1>1. ASSUME Aside PROVE CapHeld'
  BY <1>1 DEF Aside, room, flush
<1>2. ASSUME NEW p \in Procs, AddCycles(p) PROVE CapHeld'
  BY <1>2 DEF AddCycles, Admitted, Adding, Cycle, latch, flush, room, locks, result
<1>3. ASSUME NEW p \in Procs, AddFails(p) PROVE CapHeld'
  BY <1>3 DEF AddFails, Admitted, Adding, Return, latch, flush, room, locks, result
<1>4. ASSUME NEW p \in Procs, AddFollows(p) PROVE CapHeld'
  BY <1>4, SizeType
     DEF AddFollows, Admitted, Adding, Stage, Goto, latch, flush, room, locks, result,
         Full
<1>5. ASSUME NEW p \in Procs, AddLeads(p) PROVE CapHeld'
  BY <1>5, SizeType
     DEF AddLeads, Admitted, Adding, Goto, latch, flush, room, locks, result, Full,
         OneLeader
<1>6. ASSUME NEW p \in Procs, LeaderPublishes(p) PROVE CapHeld'
  BY <1>6, LeaderPublishesShape DEF Moved, Woken, Leading, Published
<1>7. ASSUME NEW p \in Procs, LeaderUnpublished(p) PROVE CapHeld'
  BY <1>7, LeaderUnpublishedShape DEF Moved, Woken, LeaderFails, DiscardStaged, Leading
<1>8. ASSUME NEW p \in Procs, LeaderPoisoned(p) PROVE CapHeld'
  BY <1>8, LeaderPoisonedShape DEF Moved, Woken, LeaderFails, DiscardStaged, Leading
<1>9. ASSUME NEW p \in Procs, LeaderSettles(p) PROVE CapHeld'
  BY <1>9, LeaderSettlesShape DEF Moved, Woken, LeaderLeaves, LeaderGoesOn, Leading
<1>10. ASSUME NEW p \in Procs, BatchStages(p) PROVE CapHeld'
  BY <1>10, SizeType
     DEF BatchStages, BatchAt, Stage, latch, flush, room, locks, result, Full
<1>11. ASSUME NEW p \in Procs, BatchCycles(p) PROVE CapHeld'
  BY <1>11, BatchCyclesShape DEF Moved, Woken, Returns
<1>12. ASSUME NEW p \in Procs, BatchPanics(p) PROVE CapHeld'
  BY <1>12, BatchPanicsShape DEF Moved, Woken, BatchDrops, DiscardStaged, Returns
<1>13. ASSUME NEW p \in Procs, BatchPublishes(p) PROVE CapHeld'
  BY <1>13, BatchPublishesShape DEF Moved, Woken, DiscardStaged, Published, Returns
<1>14. ASSUME NEW p \in Procs, BatchUnpublished(p) PROVE CapHeld'
  BY <1>14, BatchUnpublishedShape DEF Moved, Woken, BatchDrops, DiscardStaged, Returns
<1>15. ASSUME NEW p \in Procs, NEW k \in Kinds, Begin(p, k) PROVE CapHeld'
  BY <1>15 DEF Begin, Goto, latch, flush, room, locks, result
<1>16. ASSUME Consumes PROVE CapHeld'
  BY <1>16, ConsumesKeepsCap
<1>17. ASSUME UNCHANGED vars PROVE CapHeld'
  BY <1>17 DEF vars, latch, flush, room, locks, result
<1> QED
  BY DataCases, <1>1, <1>2, <1>3, <1>4, <1>5, <1>6, <1>7, <1>8, <1>9, <1>10, <1>11,
     <1>12, <1>13, <1>14, <1>15, <1>16, <1>17

\* ... nor the sets of records,
LEMMA RecordsStep ==
    ASSUME GInv, [Next]_vars
    PROVE  RecordTypes' /\ RecordsCounted'
<1> USE FS_EmptySet DEF GInv, Order, Types, RecordTypes, RecordsCounted
<1>1. ASSUME Aside PROVE RecordTypes' /\ RecordsCounted'
  BY <1>1 DEF Aside, flush
<1>2. ASSUME NEW p \in Procs, AddCycles(p) PROVE RecordTypes' /\ RecordsCounted'
  BY <1>2, CycleEmpty
     DEF AddCycles, Admitted, Adding, Cycle, latch, flush, room, locks, result
<1>3. ASSUME NEW p \in Procs, AddFails(p) PROVE RecordTypes' /\ RecordsCounted'
  BY <1>3 DEF AddFails, Admitted, Adding, Return, latch, flush, room, locks, result
<1>4. ASSUME NEW p \in Procs, AddFollows(p) PROVE RecordTypes' /\ RecordsCounted'
  <2>1. /\ pend' = pend \union {NewRec(p)} /\ pendingBytes' = pendingBytes + Size[p]
        /\ UNCHANGED <<inFlight, flight, heading, real, safe, count, item>>
    BY <1>4 DEF AddFollows, Stage, NewRec, result
  <2> QED
    BY <2>1, TailGrows DEF Types, RecordTypes, RecordsCounted
<1>5. ASSUME NEW p \in Procs, AddLeads(p) PROVE RecordTypes' /\ RecordsCounted'
  <2>1. /\ flight' = pend \union {NewRec(p)} /\ inFlight' = pendingBytes + Size[p]
        /\ pend' = {} /\ pendingBytes' = 0
        /\ UNCHANGED <<heading, real, safe, count, item>>
    BY <1>5 DEF AddLeads, NewRec, result
  <2> QED
    BY <2>1, TailGrows, FS_EmptySet DEF Types, RecordTypes, RecordsCounted
<1>6. ASSUME NEW p \in Procs, LeaderPublishes(p) PROVE RecordTypes' /\ RecordsCounted'
  <2>1. /\ pc[p] = "data" /\ inFlight' = 0 /\ flight' = {} /\ heading' = flight
        /\ real' = Tally(real, Synced(flight))
        /\ UNCHANGED <<pendingBytes, pend, safe, count, item>>
    BY <1>6, LeaderPublishesShape DEF Published
  <2>2. real' \in [Procs -> Nat]
    BY <2>1, SyncedType, TallyType DEF RecordsCounted, Types, RecordTypes
  <2> QED
    BY <2>1, <2>2, FS_EmptySet DEF Types, RecordTypes, RecordsCounted
<1>7. ASSUME NEW p \in Procs, LeaderUnpublished(p) PROVE RecordTypes' /\ RecordsCounted'
  BY <1>7, LeaderUnpublishedShape DEF Moved, Woken, LeaderFails, DiscardStaged, Leading
<1>8. ASSUME NEW p \in Procs, LeaderPoisoned(p) PROVE RecordTypes' /\ RecordsCounted'
  BY <1>8, LeaderPoisonedShape DEF Moved, Woken, LeaderFails, DiscardStaged, Leading
<1>9. ASSUME NEW p \in Procs, LeaderSettles(p) PROVE RecordTypes' /\ RecordsCounted'
  <2>1. LeaderLeaves(p) \/ LeaderGoesOn(p)
    BY <1>9, LeaderSettlesShape
  <2>2. safe' \in [Procs -> Nat]
    BY <2>1, TallyType DEF LeaderLeaves, LeaderGoesOn, Types, RecordTypes, RecordsCounted
  <2> QED
    BY <2>1, <2>2, FS_EmptySet DEF LeaderLeaves, LeaderGoesOn, Types, RecordTypes,
                                   RecordsCounted
<1>10. ASSUME NEW p \in Procs, BatchStages(p) PROVE RecordTypes' /\ RecordsCounted'
  <2>1. /\ pend' = pend \union {NewRec(p)} /\ pendingBytes' = pendingBytes + Size[p]
        /\ item' = [item EXCEPT ![p] = @ + 1]
        /\ UNCHANGED <<inFlight, flight, heading, real, safe, count>>
    BY <1>10 DEF BatchStages, Stage, NewRec
  <2>2. item' \in [Procs -> Nat]
    BY <2>1 DEF Types, RecordTypes
  <2> QED
    BY <2>1, <2>2, TailGrows DEF Types, RecordTypes, RecordsCounted
<1>11. ASSUME NEW p \in Procs, BatchCycles(p) PROVE RecordTypes' /\ RecordsCounted'
  BY <1>11, BatchCyclesShape DEF Moved, Woken, Returns
<1>12. ASSUME NEW p \in Procs, BatchPanics(p) PROVE RecordTypes' /\ RecordsCounted'
  BY <1>12, BatchPanicsShape DEF Moved, Woken, BatchDrops, DiscardStaged, Returns
<1>13. ASSUME NEW p \in Procs, BatchPublishes(p) PROVE RecordTypes' /\ RecordsCounted'
  <2>1. /\ DiscardStaged /\ real' = Tally(real, Synced(pend))
        /\ count' = [count EXCEPT ![p] = @ + Cardinality(pend)]
        /\ safe' \in {safe, Tally(safe, pend)}
        /\ UNCHANGED <<heading, item>>
    BY <1>13, BatchPublishesShape DEF Published
  <2>2. real' \in [Procs -> Nat] /\ safe' \in [Procs -> Nat] /\ Cardinality(pend) \in Nat
    BY <2>1, SyncedType, TallyType, FS_CardinalityType DEF RecordsCounted, Types, RecordTypes
  <2>3. count' \in [Procs -> Nat]
    BY <2>1, <2>2 DEF Types, RecordTypes
  <2> QED
    BY <2>1, <2>2, <2>3, FS_EmptySet DEF Types, RecordTypes, RecordsCounted, DiscardStaged
<1>14. ASSUME NEW p \in Procs, BatchUnpublished(p) PROVE RecordTypes' /\ RecordsCounted'
  BY <1>14, BatchUnpublishedShape DEF Moved, Woken, BatchDrops, DiscardStaged, Returns
<1>15. ASSUME NEW p \in Procs, NEW k \in Kinds, Begin(p, k)
      PROVE  RecordTypes' /\ RecordsCounted'
  BY <1>15 DEF Begin, Goto, latch, flush, room, locks, result
<1>16. ASSUME Consumes PROVE RecordTypes' /\ RecordsCounted'
  BY <1>16 DEF Consumes, ConsumerMoves, flush
<1>17. ASSUME UNCHANGED vars PROVE RecordTypes' /\ RecordsCounted'
  BY <1>17 DEF vars, latch, flush, room, locks, result
<1> QED
  BY DataCases, <1>1, <1>2, <1>3, <1>4, <1>5, <1>6, <1>7, <1>8, <1>9, <1>10, <1>11,
     <1>12, <1>13, <1>14, <1>15, <1>16, <1>17

\* ... nor whose records a batch publishes,
LEMMA BatchOwnsStep ==
    ASSUME GInv, [Next]_vars
    PROVE  BatchOwns'
<1> USE GroupCommitAssumption
   DEF GInv, Order, BatchOwns, Batching, Types, PlaceTypes, Places, LockPlaces, TailOwned,
       OneLeader, RecordsCounted, Locked, stagedBytes, Busy
<1>1. ASSUME NEW p \in Procs, AddRefused(p) PROVE BatchOwns'
  BY <1>1 DEF AddRefused, Adding, Return, latch, flush, room, locks, result
<1>2. ASSUME NEW p \in Procs, AddYields(p) PROVE BatchOwns'
  BY <1>2 DEF AddYields, Adding, Goto, latch, flush, room, locks, result
<1>3. ASSUME NEW p \in Procs, AddParks(p) PROVE BatchOwns'
  BY <1>3 DEF AddParks, Adding, Goto, latch, flush, room, locks, result
<1>4. ASSUME NEW p \in Procs, AddQuiesces(p) PROVE BatchOwns'
  BY <1>4 DEF AddQuiesces, Admitted, Adding, Goto, latch, flush, room, locks, result
<1>5. ASSUME NEW p \in Procs, AddCycles(p) PROVE BatchOwns'
  BY <1>5 DEF AddCycles, Admitted, Adding, Cycle, latch, flush, room, locks, result
<1>6. ASSUME NEW p \in Procs, AddFails(p) PROVE BatchOwns'
  BY <1>6 DEF AddFails, Admitted, Adding, Return, latch, flush, room, locks, result
<1>7. ASSUME NEW p \in Procs, AddFollows(p) PROVE BatchOwns'
  BY <1>7 DEF AddFollows, Admitted, Adding, Stage, Goto, latch, flush, room, locks, result
<1>8. ASSUME NEW p \in Procs, AddLeads(p) PROVE BatchOwns'
  BY <1>8 DEF AddLeads, Admitted, Adding, Goto, latch, flush, room, locks, result
<1>9. ASSUME NEW p \in Procs, LeaderPublishes(p) PROVE BatchOwns'
  BY <1>9, LeaderPublishesShape DEF Moved, Woken, Leading
<1>10. ASSUME NEW p \in Procs, LeaderUnpublished(p) PROVE BatchOwns'
  BY <1>10, LeaderUnpublishedShape DEF Moved, Woken, LeaderFails, DiscardStaged, Leading
<1>11. ASSUME NEW p \in Procs, LeaderPoisoned(p) PROVE BatchOwns'
  BY <1>11, LeaderPoisonedShape DEF Moved, Woken, LeaderFails, DiscardStaged, Leading
<1>12. ASSUME NEW p \in Procs, LeaderSettles(p) PROVE BatchOwns'
  BY <1>12, LeaderSettlesShape DEF Moved, Woken, LeaderLeaves, LeaderGoesOn, Leading
<1>13. ASSUME NEW p \in Procs, FollowerReturns(p) PROVE BatchOwns'
  BY <1>13 DEF FollowerReturns, Goto, latch, flush, room, locks, result
<1>14. ASSUME NEW p \in Procs, QuiesceStarts(p) PROVE BatchOwns'
  BY <1>14 DEF QuiesceStarts, Goto, latch, flush, room, locks, result
<1>15. ASSUME NEW p \in Procs, QuiesceWaits(p) PROVE BatchOwns'
  BY <1>15 DEF QuiesceWaits, Goto, latch, flush, room, locks, result
<1>16. ASSUME NEW p \in Procs, QuiesceEnds(p) PROVE BatchOwns'
  BY <1>16, QuiesceEndsShape
     DEF Moved, Woken, QuiesceEnds, Adds, latch, flush, room, result
<1>17. ASSUME NEW p \in Procs, BatchBegins(p) PROVE BatchOwns'
  BY <1>17 DEF BatchBegins, Goto, Return, latch, flush, room, locks, result, ByteTypes
<1>18. ASSUME NEW p \in Procs, BatchStages(p) PROVE BatchOwns'
  BY <1>18 DEF BatchStages, BatchAt, Stage, latch, flush, room, locks, result
<1>19. ASSUME NEW p \in Procs, BatchStops(p) PROVE BatchOwns'
  BY <1>19 DEF BatchStops, BatchAt, Goto, latch, flush, room, locks, result
<1>20. ASSUME NEW p \in Procs, BatchCycles(p) PROVE BatchOwns'
  BY <1>20, BatchCyclesShape DEF Moved, Woken, Returns
<1>21. ASSUME NEW p \in Procs, BatchPanics(p) PROVE BatchOwns'
  BY <1>21, BatchPanicsShape DEF Moved, Woken, BatchDrops, DiscardStaged, Returns
<1>22. ASSUME NEW p \in Procs, BatchPublishes(p) PROVE BatchOwns'
  BY <1>22, BatchPublishesShape DEF Moved, Woken, DiscardStaged, Published, Returns
<1>23. ASSUME NEW p \in Procs, BatchUnpublished(p) PROVE BatchOwns'
  BY <1>23, BatchUnpublishedShape DEF Moved, Woken, BatchDrops, DiscardStaged, Returns
<1>24. ASSUME NEW p \in Procs, SyncLocks(p) PROVE BatchOwns'
  BY <1>24 DEF SyncLocks, Goto, latch, flush, room, locks, result
<1>25. ASSUME NEW p \in Procs, SyncBegins(p) PROVE BatchOwns'
  BY <1>25, SyncBeginsShape DEF Moved, Woken, Returns, latch, flush, room
<1>26. ASSUME NEW p \in Procs, SyncEnds(p) PROVE BatchOwns'
  BY <1>26, SyncEndsShape DEF Moved, Woken, Returns, flush, room
<1>27. ASSUME NEW p \in Procs, CloseBegins(p) PROVE BatchOwns'
  BY <1>27, CloseBeginsShape DEF Moved, Woken, flush, room
<1>28. ASSUME NEW p \in Procs, CloseLocks(p) PROVE BatchOwns'
  BY <1>28 DEF CloseLocks, Goto, latch, flush, room, locks, result
<1>29. ASSUME NEW p \in Procs, CloseEnds(p) PROVE BatchOwns'
  BY <1>29 DEF CloseEnds, Return, latch, flush, room, locks, result
<1>30. ASSUME NEW p \in Procs, AddCancelled(p) PROVE BatchOwns'
  BY <1>30 DEF AddCancelled, Return, latch, flush, room, locks, result
<1>31. ASSUME NEW p \in Procs, NEW k \in Kinds, Begin(p, k) PROVE BatchOwns'
  BY <1>31 DEF Begin, Goto, latch, flush, room, locks, result
<1>32. ASSUME Consumes PROVE BatchOwns'
  BY <1>32 DEF Consumes, ConsumerMoves, flush
<1>33. ASSUME UNCHANGED vars PROVE BatchOwns'
  BY <1>33 DEF vars, latch, flush, room, locks, result
<1> QED
  BY StepCases, <1>1, <1>2, <1>3, <1>4, <1>5, <1>6, <1>7, <1>8, <1>9, <1>10, <1>11,
     <1>12, <1>13, <1>14, <1>15, <1>16, <1>17, <1>18, <1>19, <1>20, <1>21, <1>22, <1>23,
     <1>24, <1>25, <1>26, <1>27, <1>28, <1>29, <1>30, <1>31, <1>32, <1>33

\* ... nor a parked consumer's reason to stay parked,
LEMMA WakeupOwedStep ==
    ASSUME GInv, [Next]_vars
    PROVE  WakeupOwed'
<1> USE GroupCommitAssumption
   DEF GInv, Order, WakeupOwed, Signalled, Batching, LockPlaces, Types, PlaceTypes,
       Places,
       Locked
<1>1. ASSUME NEW p \in Procs, AddRefused(p) PROVE WakeupOwed'
  BY <1>1 DEF AddRefused, Adding, Return, latch, flush, room, locks, result
<1>2. ASSUME NEW p \in Procs, AddYields(p) PROVE WakeupOwed'
  BY <1>2 DEF AddYields, Adding, Goto, latch, flush, room, locks, result
<1>3. ASSUME NEW p \in Procs, AddParks(p) PROVE WakeupOwed'
  BY <1>3 DEF AddParks, Adding, Goto, latch, flush, room, locks, result
<1>4. ASSUME NEW p \in Procs, AddQuiesces(p) PROVE WakeupOwed'
  BY <1>4 DEF AddQuiesces, Admitted, Adding, Goto, latch, flush, room, locks, result
<1>5. ASSUME NEW p \in Procs, AddCycles(p) PROVE WakeupOwed'
  BY <1>5 DEF AddCycles, Admitted, Adding, Cycle, latch, flush, room, locks, result
<1>6. ASSUME NEW p \in Procs, AddFails(p) PROVE WakeupOwed'
  BY <1>6 DEF AddFails, Admitted, Adding, Return, latch, flush, room, locks, result
<1>7. ASSUME NEW p \in Procs, AddFollows(p) PROVE WakeupOwed'
  BY <1>7 DEF AddFollows, Admitted, Adding, Stage, Goto, latch, flush, room, locks, result
<1>8. ASSUME NEW p \in Procs, AddLeads(p) PROVE WakeupOwed'
  BY <1>8 DEF AddLeads, Admitted, Adding, Goto, latch, flush, room, locks, result
<1>9. ASSUME NEW p \in Procs, LeaderPublishes(p) PROVE WakeupOwed'
  BY <1>9, LeaderPublishesShape DEF Moved, Woken, Leading
<1>10. ASSUME NEW p \in Procs, LeaderUnpublished(p) PROVE WakeupOwed'
  BY <1>10, LeaderUnpublishedShape DEF Moved, Woken, LeaderFails, DiscardStaged, Leading
<1>11. ASSUME NEW p \in Procs, LeaderPoisoned(p) PROVE WakeupOwed'
  BY <1>11, LeaderPoisonedShape DEF Moved, Woken, LeaderFails, DiscardStaged, Leading
<1>12. ASSUME NEW p \in Procs, LeaderSettles(p) PROVE WakeupOwed'
  BY <1>12, LeaderSettlesShape DEF Moved, Woken, LeaderLeaves, LeaderGoesOn, Leading
<1>13. ASSUME NEW p \in Procs, FollowerReturns(p) PROVE WakeupOwed'
  BY <1>13 DEF FollowerReturns, Goto, latch, flush, room, locks, result
<1>14. ASSUME NEW p \in Procs, QuiesceStarts(p) PROVE WakeupOwed'
  BY <1>14 DEF QuiesceStarts, Goto, latch, flush, room, locks, result
<1>15. ASSUME NEW p \in Procs, QuiesceWaits(p) PROVE WakeupOwed'
  BY <1>15 DEF QuiesceWaits, Goto, latch, flush, room, locks, result
<1>16. ASSUME NEW p \in Procs, QuiesceEnds(p) PROVE WakeupOwed'
  BY <1>16, QuiesceEndsShape
     DEF Moved, Woken, QuiesceEnds, Adds, latch, flush, room, result
<1>17. ASSUME NEW p \in Procs, BatchBegins(p) PROVE WakeupOwed'
  BY <1>17 DEF BatchBegins, Goto, Return, latch, flush, room, locks, result
<1>18. ASSUME NEW p \in Procs, BatchStages(p) PROVE WakeupOwed'
  BY <1>18 DEF BatchStages, BatchAt, Stage, latch, flush, room, locks, result
<1>19. ASSUME NEW p \in Procs, BatchStops(p) PROVE WakeupOwed'
  BY <1>19 DEF BatchStops, BatchAt, Goto, latch, flush, room, locks, result
<1>20. ASSUME NEW p \in Procs, BatchCycles(p) PROVE WakeupOwed'
  BY <1>20, BatchCyclesShape DEF Moved, Woken, Returns
<1>21. ASSUME NEW p \in Procs, BatchPanics(p) PROVE WakeupOwed'
  BY <1>21, BatchPanicsShape DEF Moved, Woken, BatchDrops, DiscardStaged, Returns
<1>22. ASSUME NEW p \in Procs, BatchPublishes(p) PROVE WakeupOwed'
  <2>1. /\ pc[p] = "batchPublish"
        /\ unread' = unread + pendingBytes
        /\ count' = [count EXCEPT ![p] = @ + Cardinality(pend)]
        /\ UNCHANGED <<owed, closed>>
    BY <1>22, BatchPublishesShape DEF Published
  <2>2. /\ Moved(p, "batch") \/ Moved(p, "idle")
        /\ pc'[p] = "batch" \/ (count'[p] > 0 => Signalled)
    BY <1>22, BatchPublishesShape DEF Moved, Returns
  <2>3. Cardinality(pend) \in Nat /\ count[p] \in Nat
    BY FS_CardinalityType DEF RecordsCounted, Types, RecordTypes
  <2>4. ASSUME Cardinality(pend) = 0 PROVE pendingBytes = 0
    BY <2>4, FS_EmptySet DEF RecordsCounted, Types, RecordTypes
  <2>5. count'[p] = count[p] + Cardinality(pend)
    BY <2>1 DEF Types, RecordTypes
  <2>6. \A q \in Procs : pc[q] \in Batching => q = p
    BY <2>1 DEF LockPlaces, Batching
  <2>7. \A q \in Procs : pc'[q] = "notify" => pc[q] = "notify" /\ q # p
    BY <2>2 DEF Moved, Woken
  <2>8. CASE count'[p] > 0
    BY <2>1, <2>2, <2>7, <2>8 DEF WakeupOwed, Signalled, Batching
  <2>9. CASE ~(count'[p] > 0)
    <3>1. count[p] = 0 /\ pendingBytes = 0
      BY <2>3, <2>4, <2>5, <2>9
    <3>2. unread' = unread
      BY <2>1, <3>1 DEF Types, ByteTypes
    <3> QED
      BY <2>1, <2>6, <2>7, <3>1, <3>2 DEF WakeupOwed
  <2> QED
    BY <2>8, <2>9
<1>23. ASSUME NEW p \in Procs, BatchUnpublished(p) PROVE WakeupOwed'
  BY <1>23, BatchUnpublishedShape DEF Moved, Woken, BatchDrops, DiscardStaged, Returns
<1>24. ASSUME NEW p \in Procs, SyncLocks(p) PROVE WakeupOwed'
  BY <1>24 DEF SyncLocks, Goto, latch, flush, room, locks, result
<1>25. ASSUME NEW p \in Procs, SyncBegins(p) PROVE WakeupOwed'
  BY <1>25, SyncBeginsShape DEF Moved, Woken, Returns, latch, flush, room
<1>26. ASSUME NEW p \in Procs, SyncEnds(p) PROVE WakeupOwed'
  BY <1>26, SyncEndsShape DEF Moved, Woken, Returns, flush, room
<1>27. ASSUME NEW p \in Procs, CloseBegins(p) PROVE WakeupOwed'
  BY <1>27, CloseBeginsShape DEF Moved, Woken, flush, room
<1>28. ASSUME NEW p \in Procs, CloseLocks(p) PROVE WakeupOwed'
  BY <1>28 DEF CloseLocks, Goto, latch, flush, room, locks, result
<1>29. ASSUME NEW p \in Procs, CloseEnds(p) PROVE WakeupOwed'
  BY <1>29 DEF CloseEnds, Return, latch, flush, room, locks, result
<1>30. ASSUME NEW p \in Procs, AddCancelled(p) PROVE WakeupOwed'
  BY <1>30 DEF AddCancelled, Return, latch, flush, room, locks, result
<1>31. ASSUME NEW p \in Procs, NEW k \in Kinds, Begin(p, k) PROVE WakeupOwed'
  BY <1>31 DEF Begin, Goto, latch, flush, room, locks, result
<1>32. ASSUME Consumes PROVE WakeupOwed'
  BY <1>32 DEF Consumes
<1>33. ASSUME UNCHANGED vars PROVE WakeupOwed'
  BY <1>33 DEF vars, latch, flush, room, locks, result
<1> QED
  BY StepCases, <1>1, <1>2, <1>3, <1>4, <1>5, <1>6, <1>7, <1>8, <1>9, <1>10, <1>11,
     <1>12, <1>13, <1>14, <1>15, <1>16, <1>17, <1>18, <1>19, <1>20, <1>21, <1>22, <1>23,
     <1>24, <1>25, <1>26, <1>27, <1>28, <1>29, <1>30, <1>31, <1>32, <1>33

\* ... nor the count of the quiescers,
LEMMA QuiesceCountedStep ==
    ASSUME GInv, [Next]_vars
    PROVE  QuiesceCounted'
<1> USE GroupCommitAssumption
   DEF GInv, Order, QuiesceCounted, Waiting, Types, PlaceTypes, Places, Batching
<1>1. ASSUME NEW p \in Procs, AddRefused(p) PROVE QuiesceCounted'
  BY <1>1 DEF AddRefused, Adding, Return, latch, flush, room, locks, result
<1>2. ASSUME NEW p \in Procs, AddYields(p) PROVE QuiesceCounted'
  BY <1>2 DEF AddYields, Adding, Goto, latch, flush, room, locks, result
<1>3. ASSUME NEW p \in Procs, AddParks(p) PROVE QuiesceCounted'
  BY <1>3 DEF AddParks, Adding, Goto, latch, flush, room, locks, result
<1>4. ASSUME NEW p \in Procs, AddQuiesces(p) PROVE QuiesceCounted'
  <2>1. /\ pc' = [pc EXCEPT ![p] = "drainCheck"] /\ quiesceWant' = quiesceWant + 1
        /\ pc[p] \notin Waiting
    BY <1>4 DEF AddQuiesces, Admitted, Adding, Goto, Waiting
  <2>2. Quiescers' = Quiescers \union {p}
    BY <2>1 DEF Quiescers, Waiting, Types, PlaceTypes
  <2> QED
    BY <2>1, <2>2, QuiescerArrives
<1>5. ASSUME NEW p \in Procs, AddCycles(p) PROVE QuiesceCounted'
  BY <1>5 DEF AddCycles, Admitted, Adding, Cycle, latch, flush, room, locks, result
<1>6. ASSUME NEW p \in Procs, AddFails(p) PROVE QuiesceCounted'
  BY <1>6 DEF AddFails, Admitted, Adding, Return, latch, flush, room, locks, result
<1>7. ASSUME NEW p \in Procs, AddFollows(p) PROVE QuiesceCounted'
  BY <1>7 DEF AddFollows, Admitted, Adding, Stage, Goto, latch, flush, room, locks, result
<1>8. ASSUME NEW p \in Procs, AddLeads(p) PROVE QuiesceCounted'
  BY <1>8 DEF AddLeads, Admitted, Adding, Goto, latch, flush, room, locks, result
<1>9. ASSUME NEW p \in Procs, LeaderPublishes(p) PROVE QuiesceCounted'
  BY <1>9, LeaderPublishesShape DEF Moved, Woken, Leading
<1>10. ASSUME NEW p \in Procs, LeaderUnpublished(p) PROVE QuiesceCounted'
  BY <1>10, LeaderUnpublishedShape DEF Moved, Woken, LeaderFails, DiscardStaged, Leading
<1>11. ASSUME NEW p \in Procs, LeaderPoisoned(p) PROVE QuiesceCounted'
  BY <1>11, LeaderPoisonedShape DEF Moved, Woken, LeaderFails, DiscardStaged, Leading
<1>12. ASSUME NEW p \in Procs, LeaderSettles(p) PROVE QuiesceCounted'
  BY <1>12, LeaderSettlesShape DEF Moved, Woken, LeaderLeaves, LeaderGoesOn, Leading
<1>13. ASSUME NEW p \in Procs, FollowerReturns(p) PROVE QuiesceCounted'
  BY <1>13 DEF FollowerReturns, Goto, latch, flush, room, locks, result
<1>14. ASSUME NEW p \in Procs, QuiesceStarts(p) PROVE QuiesceCounted'
  <2>1. /\ pc' = [pc EXCEPT ![p] = "drainCheck"] /\ quiesceWant' = quiesceWant + 1
        /\ pc[p] \notin Waiting
    BY <1>14 DEF QuiesceStarts, Goto, Waiting
  <2>2. Quiescers' = Quiescers \union {p}
    BY <2>1 DEF Quiescers, Waiting, Types, PlaceTypes
  <2> QED
    BY <2>1, <2>2, QuiescerArrives
<1>15. ASSUME NEW p \in Procs, QuiesceWaits(p) PROVE QuiesceCounted'
  BY <1>15 DEF QuiesceWaits, Goto, latch, flush, room, locks, result
<1>16. ASSUME NEW p \in Procs, QuiesceEnds(p) PROVE QuiesceCounted'
  <2>1. pc[p] \in Waiting /\ quiesceWant' = quiesceWant - 1
    BY <1>16 DEF QuiesceEnds, Waiting
  <2>2. Quiescers' = Quiescers \ {p}
    BY <1>16, QuiesceEndsShape DEF Quiescers, Waiting, Moved, Woken, Types
  <2> QED
    BY <2>1, <2>2, QuiescerLeaves
<1>17. ASSUME NEW p \in Procs, BatchBegins(p) PROVE QuiesceCounted'
  BY <1>17 DEF BatchBegins, Goto, Return, latch, flush, room, locks, result
<1>18. ASSUME NEW p \in Procs, BatchStages(p) PROVE QuiesceCounted'
  BY <1>18 DEF BatchStages, BatchAt, Stage, latch, flush, room, locks, result
<1>19. ASSUME NEW p \in Procs, BatchStops(p) PROVE QuiesceCounted'
  BY <1>19 DEF BatchStops, BatchAt, Goto, latch, flush, room, locks, result
<1>20. ASSUME NEW p \in Procs, BatchCycles(p) PROVE QuiesceCounted'
  BY <1>20, BatchCyclesShape DEF Moved, Woken, Returns
<1>21. ASSUME NEW p \in Procs, BatchPanics(p) PROVE QuiesceCounted'
  BY <1>21, BatchPanicsShape DEF Moved, Woken, BatchDrops, DiscardStaged, Returns
<1>22. ASSUME NEW p \in Procs, BatchPublishes(p) PROVE QuiesceCounted'
  BY <1>22, BatchPublishesShape DEF Moved, Woken, DiscardStaged, Published, Returns
<1>23. ASSUME NEW p \in Procs, BatchUnpublished(p) PROVE QuiesceCounted'
  BY <1>23, BatchUnpublishedShape DEF Moved, Woken, BatchDrops, DiscardStaged, Returns
<1>24. ASSUME NEW p \in Procs, SyncLocks(p) PROVE QuiesceCounted'
  BY <1>24 DEF SyncLocks, Goto, latch, flush, room, locks, result
<1>25. ASSUME NEW p \in Procs, SyncBegins(p) PROVE QuiesceCounted'
  BY <1>25, SyncBeginsShape DEF Moved, Woken, Returns, Locked, latch, flush, room
<1>26. ASSUME NEW p \in Procs, SyncEnds(p) PROVE QuiesceCounted'
  BY <1>26, SyncEndsShape DEF Moved, Woken, Returns, flush, room
<1>27. ASSUME NEW p \in Procs, CloseBegins(p) PROVE QuiesceCounted'
  BY <1>27, CloseBeginsShape DEF Moved, Woken, flush, room
<1>28. ASSUME NEW p \in Procs, CloseLocks(p) PROVE QuiesceCounted'
  BY <1>28 DEF CloseLocks, Goto, latch, flush, room, locks, result
<1>29. ASSUME NEW p \in Procs, CloseEnds(p) PROVE QuiesceCounted'
  BY <1>29 DEF CloseEnds, Return, latch, flush, room, locks, result
<1>30. ASSUME NEW p \in Procs, AddCancelled(p) PROVE QuiesceCounted'
  BY <1>30 DEF AddCancelled, Return, latch, flush, room, locks, result
<1>31. ASSUME NEW p \in Procs, NEW k \in Kinds, Begin(p, k) PROVE QuiesceCounted'
  BY <1>31 DEF Begin, Goto, latch, flush, room, locks, result
<1>32. ASSUME Consumes PROVE QuiesceCounted'
  BY <1>32 DEF Consumes, ConsumerMoves, flush
<1>33. ASSUME UNCHANGED vars PROVE QuiesceCounted'
  BY <1>33 DEF vars, latch, flush, room, locks, result
<1> QED
  BY StepCases, <1>1, <1>2, <1>3, <1>4, <1>5, <1>6, <1>7, <1>8, <1>9, <1>10, <1>11,
     <1>12, <1>13, <1>14, <1>15, <1>16, <1>17, <1>18, <1>19, <1>20, <1>21, <1>22, <1>23,
     <1>24, <1>25, <1>26, <1>27, <1>28, <1>29, <1>30, <1>31, <1>32, <1>33

\* ... nor where the staged bytes lie.
LEMMA SpanLiesStep ==
    ASSUME GInv, [Next]_vars
    PROVE  SpanLies'
<1> USE GroupCommitAssumption DEF GInv, Order, SpanLies
<1>1. ASSUME Aside PROVE SpanLies'
  BY <1>1 DEF Aside, flush, room
<1>2. ASSUME NEW p \in Procs, AddCycles(p) PROVE SpanLies'
  <2>1. ~Busy /\ Cycle /\ UNCHANGED <<pendingBytes, inFlight, torn>>
    BY <1>2 DEF AddCycles
  <2>2. pend' = {} /\ flight' = {} /\ fill' = 0 /\ pendingBytes' = 0 /\ inFlight' = 0
    BY <2>1, CycleEmpty
  <2> QED
    BY <2>1, <2>2, LiesNowhere DEF SpanLies
<1>3. ASSUME NEW p \in Procs, AddFails(p) PROVE SpanLies'
  <2>1. UNCHANGED <<pend, flight, pendingBytes, inFlight, torn>>
    BY <1>3 DEF AddFails, flush
  <2>2. CASE UNCHANGED fill
    BY <2>1, <2>2 DEF SpanLies
  <2>3. CASE ~Busy /\ fill' = 0
    <3>1. pendingBytes = 0 /\ inFlight = 0
      BY <2>3 DEF Busy, stagedBytes, Types, ByteTypes
    <3>2. pend = {} /\ flight = {}
      BY <3>1 DEF RecordsCounted
    <3> QED
      BY <2>1, <2>3, <3>1, <3>2, LiesNowhere DEF SpanLies
  <2> QED
    BY <1>3, <2>2, <2>3 DEF AddFails
<1>4. ASSUME NEW p \in Procs, AddFollows(p) PROVE SpanLies'
  <2>1. /\ pend' = pend \union {NewRec(p)} /\ pendingBytes' = pendingBytes + Size[p]
        /\ UNCHANGED <<inFlight, flight, fill, torn>>
    BY <1>4 DEF AddFollows, Stage, NewRec, room
  <2> QED
    BY <2>1, TailExtends DEF SpanLies
<1>5. ASSUME NEW p \in Procs, AddLeads(p) PROVE SpanLies'
  <2>1. /\ flight' = pend \union {NewRec(p)} /\ inFlight' = pendingBytes + Size[p]
        /\ pend' = {} /\ pendingBytes' = 0 /\ ~flushing
        /\ UNCHANGED <<fill, torn>>
    BY <1>5 DEF AddLeads, NewRec, room
  <2>2. inFlight = 0 /\ fill \in Nat /\ pendingBytes + Size[p] \in Nat
    BY <2>1, SizeType DEF OneLeader, Types, ByteTypes
  <2>3. Lies(pend \union {NewRec(p)}, flight, fill, 0, pendingBytes + Size[p])
    BY <2>2, TailExtends
  <2> QED
    BY <2>1, <2>2, <2>3, LiesTaken DEF SpanLies
<1>6. ASSUME NEW p \in Procs, LeaderPublishes(p) PROVE SpanLies'
  <2>1. /\ flight' = {} /\ inFlight' = 0 /\ fill' = fill + inFlight
        /\ torn' = (torn \/ ~Intact(Synced(flight), inFlight))
        /\ UNCHANGED <<pend, pendingBytes>>
    BY <1>6, LeaderPublishesShape DEF Published
  <2>2. Intact(Synced(flight), inFlight)
    BY LiesIntact DEF SpanLies, Types, RecordTypes
  <2>3. ~torn'
    BY <2>1, <2>2 DEF SpanLies
  <2> QED
    BY <2>1, <2>3, LiesPublished DEF SpanLies, Types, ByteTypes
<1>7. ASSUME NEW p \in Procs, LeaderUnpublished(p) PROVE SpanLies'
  <2>1. \E a \in {"io", "fail"} : LeaderFails(p, a)
    BY <1>7, LeaderUnpublishedShape
  <2>2. /\ pend' = {} /\ flight' = {} /\ pendingBytes' = 0 /\ inFlight' = 0
        /\ UNCHANGED <<fill, torn>>
    BY <2>1 DEF LeaderFails, DiscardStaged
  <2> QED
    BY <2>2, LiesNowhere DEF SpanLies, Types, ByteTypes
<1>8. ASSUME NEW p \in Procs, LeaderPoisoned(p) PROVE SpanLies'
  <2>1. LeaderFails(p, "io")
    BY <1>8, LeaderPoisonedShape
  <2>2. /\ pend' = {} /\ flight' = {} /\ pendingBytes' = 0 /\ inFlight' = 0
        /\ UNCHANGED <<fill, torn>>
    BY <2>1 DEF LeaderFails, DiscardStaged
  <2> QED
    BY <2>2, LiesNowhere DEF SpanLies, Types, ByteTypes
<1>9. ASSUME NEW p \in Procs, LeaderSettles(p) PROVE SpanLies'
  <2>1. CASE LeaderLeaves(p)
    BY <2>1 DEF LeaderLeaves, SpanLies
  <2>2. CASE LeaderGoesOn(p)
    <3>1. /\ pc[p] = "header" /\ flight' = pend /\ inFlight' = pendingBytes
          /\ pend' = {} /\ pendingBytes' = 0 /\ UNCHANGED <<fill, torn>>
      BY <2>2 DEF LeaderGoesOn
    <3>2. inFlight = 0
      BY <3>1 DEF OneLeader
    <3> QED
      BY <3>1, <3>2, LiesTaken DEF SpanLies, Types, ByteTypes
  <2> QED
    BY <1>9, <2>1, <2>2, LeaderSettlesShape
<1>10. ASSUME NEW p \in Procs, BatchStages(p) PROVE SpanLies'
  <2>1. /\ pend' = pend \union {NewRec(p)} /\ pendingBytes' = pendingBytes + Size[p]
        /\ UNCHANGED <<inFlight, flight, fill, torn>>
    BY <1>10 DEF BatchStages, Stage, NewRec, room
  <2> QED
    BY <2>1, TailExtends DEF SpanLies
<1>11. ASSUME NEW p \in Procs, BatchCycles(p) PROVE SpanLies'
  <2>1. /\ pend' = {} /\ flight' = {} /\ pendingBytes' = 0 /\ inFlight' = 0
        /\ fill' \in Nat /\ UNCHANGED torn
    BY <1>11, BatchCyclesShape DEF Types, ByteTypes
  <2> QED
    BY <2>1, LiesNowhere DEF SpanLies
<1>12. ASSUME NEW p \in Procs, BatchPanics(p) PROVE SpanLies'
  <2>1. BatchDrops(p, "panic")
    BY <1>12, BatchPanicsShape
  <2>2. /\ pend' = {} /\ flight' = {} /\ pendingBytes' = 0 /\ inFlight' = 0
        /\ UNCHANGED <<fill, torn>>
    BY <2>1 DEF BatchDrops, DiscardStaged
  <2> QED
    BY <2>2, LiesNowhere DEF SpanLies, Types, ByteTypes
<1>13. ASSUME NEW p \in Procs, BatchPublishes(p) PROVE SpanLies'
  <2>1. /\ pc[p] = "batchPublish" /\ DiscardStaged /\ fill' = fill + pendingBytes
        /\ torn' = (torn \/ ~Intact(Synced(pend), pendingBytes))
    BY <1>13, BatchPublishesShape DEF Published
  <2>2. inFlight = 0
    BY <2>1 DEF OneLeader, TailOwned, Batching
  <2>3. Lies({}, pend, fill, pendingBytes, 0)
    BY <2>2, LiesTaken DEF SpanLies, Types, ByteTypes
  <2>4. Intact(Synced(pend), pendingBytes)
    BY <2>3, LiesIntact DEF Types, RecordTypes
  <2>5. ~torn'
    BY <2>1, <2>4 DEF SpanLies
  <2>6. fill' \in Nat
    BY <2>1 DEF Types, ByteTypes
  <2> QED
    BY <2>1, <2>5, <2>6, LiesNowhere DEF DiscardStaged, SpanLies
<1>14. ASSUME NEW p \in Procs, BatchUnpublished(p) PROVE SpanLies'
  <2>1. \E a \in {"io", "fail"} : BatchDrops(p, a)
    BY <1>14, BatchUnpublishedShape
  <2>2. /\ pend' = {} /\ flight' = {} /\ pendingBytes' = 0 /\ inFlight' = 0
        /\ UNCHANGED <<fill, torn>>
    BY <2>1 DEF BatchDrops, DiscardStaged
  <2> QED
    BY <2>2, LiesNowhere DEF SpanLies, Types, ByteTypes
<1>15. ASSUME NEW p \in Procs, NEW k \in Kinds, Begin(p, k) PROVE SpanLies'
  BY <1>15 DEF Begin, Goto, latch, flush, room, locks, result
<1>16. ASSUME Consumes PROVE SpanLies'
  BY <1>16 DEF Consumes, flush, SpanLies
<1>17. ASSUME UNCHANGED vars PROVE SpanLies'
  BY <1>17 DEF vars, latch, flush, room, locks, result
<1> QED
  BY DataCases, <1>1, <1>2, <1>3, <1>4, <1>5, <1>6, <1>7, <1>8, <1>9, <1>10, <1>11,
     <1>12, <1>13, <1>14, <1>15, <1>16, <1>17

LEMMA GInvInit == Init => GInv
<1> SUFFICES ASSUME Init
             PROVE  GInv
  OBVIOUS
<1> USE GroupCommitAssumption DEF Init
<1>1. Types
  <2>1. PlaceTypes
    BY DEF PlaceTypes, Places, Kinds, Answers
  <2>2. ByteTypes
    BY DEF ByteTypes
  <2>3. RecordTypes
    BY DEF RecordTypes
  <2> QED
    BY <2>1, <2>2, <2>3 DEF Types
<1>2. Order
  BY DEF Order, LockPlaces, OneLeader, TailOwned, Followers, CallPlaces, SyncPlaces,
         ClosedSilent, Batching, Leading, Waiting, stagedBytes, Busy
<1>3. QuiesceCounted
  <2>1. {p \in Procs : pc[p] \in Waiting} = {}
    BY DEF Waiting
  <2> QED
    BY <2>1, FS_EmptySet DEF QuiesceCounted
<1>4. RecordsCounted
  BY FS_EmptySet DEF RecordsCounted
<1>5. BatchOwns /\ WakeupOwed
  BY DEF BatchOwns, WakeupOwed, Batching
<1>6. CapHeld
  BY DEF CapHeld, stagedBytes
<1>7. SpanLies
  BY LiesNowhere DEF SpanLies
<1> QED
  BY <1>1, <1>2, <1>3, <1>4, <1>5, <1>6, <1>7 DEF GInv

LEMMA GInvStep == GInv /\ [Next]_vars => GInv'
<1> SUFFICES ASSUME GInv, [Next]_vars
             PROVE  GInv'
  OBVIOUS
<1>1. Types'
  BY PlaceTypesStep, ByteTypesStep, RecordsStep DEF Types
<1> QED
  BY <1>1, OrderStep, QuiesceCountedStep, RecordsStep, BatchOwnsStep, WakeupOwedStep,
     CapHeldStep, SpanLiesStep DEF GInv

LEMMA GInvAlways == Spec => []GInv
  BY GInvInit, GInvStep, PTL DEF Spec

-----------------------------------------------------------------------------
(* The properties *)

\* Every field of Queue and store that group commit uses keeps its type, and
\* quiesceWant never counts more goroutines than there are.
THEOREM FieldsKeepTheirTypes == Spec => []TypeOK
<1>1. GInv => TypeOK
  <2> SUFFICES ASSUME GInv
               PROVE  TypeOK
    OBVIOUS
  <2>1. quiesceWant \in 0 .. Cardinality(Procs)
    <3>1. /\ IsFiniteSet(Quiescers) /\ Cardinality(Quiescers) <= Cardinality(Procs)
      BY GroupCommitAssumption, FS_Subset DEF Quiescers
    <3> QED
      BY <3>1, GroupCommitAssumption, FS_CardinalityType
         DEF GInv, QuiesceCounted, Quiescers
  <2>2. Types
    BY DEF GInv
  <2> QED
    BY <2>1, <2>2 DEF TypeOK, Types, PlaceTypes, ByteTypes, RecordTypes
<1> QED
  BY <1>1, GInvAlways, PTL

\* Whatever is staged is a leader's or a batch's: no failed fsync, panic or refusal
\* leaves a tail that every later quiesce would wait for.
THEOREM NoTailIsOrphaned == Spec => []NoOrphanTail
<1>1. GInv => NoOrphanTail
  BY DEF GInv, Order, Types, PlaceTypes, ByteTypes, NoOrphanTail, LockPlaces, OneLeader,
         TailOwned,
         Leading, Batching, stagedBytes
<1> QED
  BY <1>1, GInvAlways, PTL

\* Published and staged bytes together never pass MaxBytes, however many producers
\* were admitted while a leader was inside its fsyncs.
THEOREM CapCountsTheStaged == Spec => []CapHeld
<1>1. GInv => CapHeld
  BY DEF GInv
<1> QED
  BY <1>1, GInvAlways, PTL

\* Once store.close has released the handles nobody is inside an fsync and nothing
\* is staged.
THEOREM AClosedStoreIsQuiet == Spec => []ClosedQuiet
<1>1. GInv => ClosedQuiet
  BY DEF GInv, Order, ClosedQuiet, ClosedSilent, OneLeader, TailOwned, Leading, Batching,
         Busy
<1> QED
  BY <1>1, GInvAlways, PTL

\* While w.mu is free no consumer is parked beside something to read, a loss to
\* report or a Close, whoever made the work and however that call ended.
THEOREM NoWakeupIsLost == Spec => []NoLostWakeup
<1>1. GInv => NoLostWakeup
  BY GroupCommitAssumption DEF GInv, Order, NoLostWakeup, WakeupOwed, LockPlaces
<1> QED
  BY <1>1, GInvAlways, PTL

\* A header is only ever published over bytes that were fsynced and that lie in the
\* active segment where the header says.
THEOREM HeadersCoverTheirSpans == Spec => []SpanIntact
<1>1. GInv => SpanIntact
  BY DEF GInv, SpanLies, SpanIntact
<1> QED
  BY <1>1, GInvAlways, PTL
=============================================================================
