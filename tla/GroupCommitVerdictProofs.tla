-------------------- MODULE GroupCommitVerdictProofs --------------------
(***************************************************************************)
(* That what a call answers is true (VerdictTrue), for every instance of   *)
(* GroupCommit.                                                            *)
(*                                                                         *)
(* The records of a call are counted where they are: in the tail, in the   *)
(* span, under a header not yet fsynced, published, durable.  VInv says    *)
(* for every place a goroutine can be at where its record is then          *)
(* (RecordPlaces), and for a batch how many of its items each count stands *)
(* for (BatchTally); GInv supplies who may touch the tail and the span.    *)
(***************************************************************************)
EXTENDS GroupCommitProofs

-----------------------------------------------------------------------------
(* The inductive invariant *)

\* How many of the records R the goroutine p wrote
None(R, p) == \A r \in R : r.by # p
One(R, p) == \E x \in R : {r \in R : r.by = p} = {x}

\* Nothing of p is staged, in the span or under a header
Absent(p) == None(pend, p) /\ None(flight, p) /\ None(heading, p)
Unwritten(p) == real[p] = 0 /\ safe[p] = 0

\* p's record is in the span the leader takes through its two fsyncs
InSpan(p) ==
    /\ None(pend, p) /\ safe[p] = 0
    /\ \/ One(flight, p) /\ heading = {} /\ real[p] = 0
       \/ flight = {} /\ One(heading, p) /\ real[p] = 1

\* p's record is staged behind the span
InTail(p) == One(pend, p) /\ None(flight, p) /\ None(heading, p) /\ Unwritten(p)

\* Where an Add's record is: in the next span with its follower, in the span with
\* the leader and its followers, durable once a leader has settled its own
PlacedAt(p) ==
    /\ pc[p] \notin Leading \union Batching \union {"follow"} => Absent(p)
    /\ pc[p] \in {"enter", "release", "space", "quiesced"} \union Waiting
          => (call[p] \in Adds \union {"batch"} => Unwritten(p) /\ ret[p] = "none")
    /\ p \in curGroup => InTail(p) /\ ret[p] = "none"
    /\ p \in group => InSpan(p) /\ ret[p] = "none"
    /\ pc[p] \in Leading =>
          \/ ret[p] = "none" /\ InSpan(p)
          \/ ret[p] = "nil" /\ Absent(p) /\ real[p] = 1 /\ safe[p] = 1
    /\ pc[p] \in {"verdict", "idle"} /\ call[p] \in Adds =>
          /\ ret[p] = "nil" => safe[p] = 1
          /\ ret[p] \in {"full", "fail", "closed"} => real[p] = 0

RecordPlaces == \A p \in Procs : PlacedAt(p)

\* What AddBatch has counted is published and durable, and its position in the items
\* is ahead of that by what is staged
TalliedAt(p) ==
    /\ pc[p] \in {"enter", "quiesced"} \union Waiting => count[p] = 0 /\ item[p] = 0
    /\ pc[p] \in Batching =>
          /\ real[p] = count[p] /\ safe[p] = count[p]
          /\ item[p] = count[p] + Cardinality(pend)
          /\ item[p] <= BatchLen
          /\ \A r \in pend : ~r.synced
    /\ pc[p] = "batch" => ret[p] = "none"
    /\ pc[p] = "batchPublish" =>
          /\ ret[p] \in {"nil", "full", "fail", "more"}
          /\ ret[p] = "nil" => item[p] = BatchLen
    /\ pc[p] = "idle" => real[p] = count[p] /\ (ret[p] = "nil" => safe[p] = BatchLen)

BatchTally == \A p \in Procs : call[p] = "batch" => TalliedAt(p)

VInv == GInv /\ RecordPlaces /\ BatchTally

-----------------------------------------------------------------------------
(* Counting the records of one writer *)

LEMMA NoneEmpty == \A p : None({}, p) /\ ~One({}, p)
  BY DEF None, One

\* A record of q is none of p's
LEMMA NoneGrows ==
    ASSUME NEW R, NEW p, NEW q, p # q, NEW r, r.by = q
    PROVE  /\ None(R, p) => None(R \union {r}, p)
           /\ One(R, p) => One(R \union {r}, p)
<1>1. None(R, p) => None(R \union {r}, p)
  BY DEF None
<1>2. ASSUME One(R, p)
      PROVE  One(R \union {r}, p)
  <2>1. PICK x \in R : {s \in R : s.by = p} = {x}
    BY <1>2 DEF One
  <2>2. {s \in R \union {r} : s.by = p} = {x}
    BY <2>1
  <2> QED
    BY <2>2 DEF One
<1> QED
  BY <1>1, <1>2

LEMMA OneArrives ==
    ASSUME NEW R, NEW p, None(R, p), NEW r, r.by = p
    PROVE  One(R \union {r}, p)
<1>1. {s \in R \union {r} : s.by = p} = {r}
  BY DEF None
<1> QED
  BY <1>1 DEF One

LEMMA RecsNone ==
    ASSUME NEW R, NEW p, None(R, p)
    PROVE  Recs(R, p) = 0
<1>1. {r \in R : r.by = p} = {}
  BY DEF None
<1> QED
  BY <1>1, FS_EmptySet DEF Recs

LEMMA RecsOne ==
    ASSUME NEW R, NEW p, One(R, p)
    PROVE  Recs(R, p) = 1
<1>1. PICK x \in R : {r \in R : r.by = p} = {x}
  BY DEF One
<1> QED
  BY <1>1, FS_Singleton DEF Recs

\* An fsync changes no writer
LEMMA SyncedNone ==
    ASSUME NEW R, R \subseteq Staged, NEW p, None(R, p)
    PROVE  None(Synced(R), p)
  BY DEF None, Synced, Staged

LEMMA SyncedOne ==
    ASSUME NEW R, R \subseteq Staged, NEW p, One(R, p)
    PROVE  One(Synced(R), p)
<1>1. PICK x \in R : {r \in R : r.by = p} = {x}
  BY DEF One
<1> DEFINE y == [x EXCEPT !.synced = TRUE]
<1>2. y \in Synced(R) /\ y.by = p
  BY <1>1 DEF Synced, Staged
<1>3. ASSUME NEW s \in Synced(R), s.by = p
      PROVE  s = y
  <2>1. PICK r \in R : s = [r EXCEPT !.synced = TRUE]
    BY DEF Synced
  <2>2. r.by = p
    BY <2>1, <1>3 DEF Staged
  <2>3. r = x
    BY <1>1, <2>2
  <2> QED
    BY <2>1, <2>3
<1>4. {s \in Synced(R) : s.by = p} = {y}
  BY <1>2, <1>3
<1> QED
  BY <1>2, <1>4 DEF One

\* ... nor how many records there are, when none of them was fsynced before
LEMMA SyncedCounts ==
    ASSUME NEW R, R \subseteq Staged, IsFiniteSet(R), \A r \in R : ~r.synced
    PROVE  Cardinality(Synced(R)) = Cardinality(R) /\ IsFiniteSet(Synced(R))
<1> DEFINE f == [r \in R |-> [r EXCEPT !.synced = TRUE]]
<1>1. f \in Surjection(R, Synced(R))
  BY DEF Surjection, Synced
<1>2. ASSUME NEW r \in R, NEW s \in R, f[r] = f[s]
      PROVE  r = s
  <2>1. r.synced = s.synced
    <3>1. r.synced \in BOOLEAN /\ s.synced \in BOOLEAN /\ ~r.synced /\ ~s.synced
      BY DEF Staged
    <3> QED
      BY <3>1, Zenon
  <2>2. r.by = s.by /\ r.at = s.at /\ r.live = s.live
    BY <1>2 DEF Staged
  <2> QED
    BY <2>1, <2>2 DEF Staged
<1>3. f \in Bijection(R, Synced(R))
  <2>1. f \in [R -> Synced(R)]
    BY DEF Synced
  <2> HIDE DEF f
  <2>2. DOMAIN f = R
    BY <2>1
  <2> QED
    BY <1>1, <1>2, <2>1, <2>2 DEF Bijection, Injection, IsInjective
<1> QED
  BY <1>3, FS_Bijection DEF ExistsBijection

\* A staged record begins where no other does
LEMMA NewRecIsNew ==
    ASSUME Types, SpanLies, NEW p \in Procs
    PROVE  NewRec(p) \notin pend
<1>1. fill \in Nat /\ inFlight \in Nat /\ pendingBytes \in Nat
  BY DEF Types, ByteTypes
<1>2. Extent(pend) = fill + inFlight .. fill + inFlight + pendingBytes - 1
  BY DEF SpanLies, Lies
<1>3. ASSUME NEW r \in pend
      PROVE  r.at < fill + inFlight + pendingBytes
  <2>1. r.at \in Nat /\ Size[r.by] \in Nat /\ Size[r.by] > 0
    BY SizeType DEF Types, RecordTypes, Staged
  <2>2. r.at \in r.at .. r.at + Size[r.by] - 1
    BY <2>1
  <2>3. r.at \in Extent(pend)
    BY <2>2, ExtentMember
  <2> QED
    BY <1>1, <1>2, <2>3
<1>4. NewRec(p).at = fill + inFlight + pendingBytes
  BY <1>1 DEF NewRec, stagedBytes
<1> QED
  BY <1>1, <1>3, <1>4

\* What a publication or a settled span adds to a writer's count
LEMMA TallyCounts ==
    ASSUME NEW f \in [Procs -> Nat], NEW R, NEW q \in Procs
    PROVE  /\ None(R, q) => Tally(f, R)[q] = f[q]
           /\ One(R, q) => Tally(f, R)[q] = f[q] + 1
  BY RecsNone, RecsOne DEF Tally

LEMMA TallySynced ==
    ASSUME NEW f \in [Procs -> Nat], NEW R, R \subseteq Staged, NEW q \in Procs
    PROVE  /\ None(R, q) => Tally(f, Synced(R))[q] = f[q]
           /\ One(R, q) => Tally(f, Synced(R))[q] = f[q] + 1
  BY SyncedNone, SyncedOne, TallyCounts

\* Only the batch has records in its tail, and nobody has one further on
LEMMA BatchAlone ==
    ASSUME GInv, NEW p \in Procs, pc[p] \in Batching
    PROVE  /\ \A q \in Procs \ {p} : pc[q] \notin Leading \union Batching \union {"follow"}
           /\ \A q \in Procs \ {p} : None(pend, q)
           /\ flight = {} /\ heading = {} /\ group = {} /\ curGroup = {} /\ mu = p
           /\ inFlight = 0 /\ ~flushing
  BY GroupCommitAssumption
     DEF GInv, Order, LockPlaces, OneLeader, TailOwned, Followers, BatchOwns, None,
         Leading,
         Batching

-----------------------------------------------------------------------------
(* Every step keeps the invariant *)

\* A goroutine that a step leaves alone
LEMMA PlacedKept ==
    ASSUME NEW q \in Procs, PlacedAt(q), pc'[q] = pc[q], call'[q] = call[q],
           ret'[q] = ret[q], real'[q] = real[q], safe'[q] = safe[q],
           q \in curGroup' <=> q \in curGroup, q \in group' <=> q \in group,
           UNCHANGED <<flight, heading>>,
           None(pend, q) => None(pend', q), One(pend, q) => One(pend', q)
    PROVE  PlacedAt(q)'
  BY DEF PlacedAt, Absent, Unwritten, InSpan, InTail

\* ... and that has nothing staged
LEMMA PlacedAbsent ==
    ASSUME NEW q \in Procs, PlacedAt(q), pc'[q] = pc[q], call'[q] = call[q],
           ret'[q] = ret[q], real'[q] = real[q], safe'[q] = safe[q],
           q \notin curGroup', q \notin group', pc[q] \notin Leading,
           None(pend', q), None(flight', q), None(heading', q)
    PROVE  PlacedAt(q)'
  BY DEF PlacedAt, Absent, Unwritten

\* A batch, staging or just over
LEMMA PlacedBatch ==
    ASSUME NEW p \in Procs, pc'[p] \in Batching \union {"idle"}, call'[p] = "batch",
           None(pend', p), None(flight', p), None(heading', p),
           p \notin curGroup', p \notin group'
    PROVE  PlacedAt(p)'
  BY DEF PlacedAt, Absent, Adds, Batching, Leading, Waiting

LEMMA LeaderFailsPlaces ==
    ASSUME VInv, NEW p \in Procs, NEW a \in {"io", "fail"}, LeaderFails(p, a)
    PROVE  RecordPlaces'
<1> SUFFICES ASSUME NEW q \in Procs
             PROVE  PlacedAt(q)'
  BY DEF RecordPlaces
<1>1. PlacedAt(q) /\ PlacedAt(p)
  BY DEF VInv, RecordPlaces
<1>2. None({}, q) /\ ~One({}, q)
  BY NoneEmpty
<1>3. /\ pend' = {} /\ flight' = {} /\ heading' = {} /\ group' = {} /\ curGroup' = {}
      /\ UNCHANGED <<real, safe, call>>
      /\ ret' = [Answer(ret, group \union curGroup, a) EXCEPT ![p] = Mine(p, a)]
      /\ pc[p] \in Leading /\ (a = "fail" => heading = {})
  BY DEF LeaderFails, DiscardStaged, Leading, VInv, GInv, Order, OneLeader
<1>4. /\ pc[q] = "follow" <=> q \in group \union curGroup
      /\ ret \in [Procs -> Answers] /\ (pc[q] \in Leading => q = p)
      /\ pc[q] = "notify" => call[q] = "take"
      /\ pc[q] \in Batching => call[q] = "batch"
  BY <1>3 DEF VInv, GInv, Order, Followers, OneLeader, CallPlaces, Types, PlaceTypes
<1>5. CASE q = p
  <2>1. pc'[q] = "idle" /\ ret'[q] = (IF ret[p] = "none" THEN a ELSE ret[p])
    BY <1>3, <1>4, <1>5 DEF LeaderFails, Moved, Mine, Answer
  <2> QED
    BY <1>1, <1>2, <1>3, <1>4, <1>5, <2>1
       DEF PlacedAt, Absent, Unwritten, InSpan, Leading, Batching, Waiting
<1>6. CASE q \in group \union curGroup /\ q # p
  <2>1. pc'[q] = "verdict" /\ ret'[q] = a
    BY <1>3, <1>4, <1>6 DEF LeaderFails, Answer
  <2> QED
    BY <1>1, <1>2, <1>3, <1>4, <1>6, <2>1
       DEF PlacedAt, Absent, Unwritten, InSpan, InTail, Leading, Batching, Waiting
<1>7. CASE q \notin group \union curGroup /\ q # p
  <2>1. /\ Woken(pc[q], pc'[q]) /\ ret'[q] = ret[q]
        /\ pc[q] \notin Leading \union {"follow"} /\ pc'[q] # "follow"
    BY <1>3, <1>4, <1>7 DEF LeaderFails, Answer, Moved
  <2>2. CASE pc[q] \in Batching
    BY <1>2, <1>3, <1>4, <2>1, <2>2, PlacedBatch DEF Woken, Batching
  <2>3. CASE pc[q] \notin Batching
    BY <1>1, <1>2, <1>3, <1>4, <1>7, <2>1, <2>3
       DEF PlacedAt, Absent, Unwritten, Leading, Batching, Waiting, Adds, Woken
  <2> QED
    BY <2>2, <2>3
<1> QED
  BY <1>5, <1>6, <1>7

\* No step loses sight of an Add's record
LEMMA RecordPlacesStep ==
    ASSUME VInv, [Next]_vars
    PROVE  RecordPlaces'
<1>0. ASSUME NEW p \in Procs, pc[p] \in Batching
      PROVE  /\ \A q \in Procs \ {p} : pc[q] \notin Leading \union Batching \union {"follow"}
             /\ \A q \in Procs \ {p} : None(pend, q)
             /\ flight = {} /\ heading = {} /\ group = {} /\ curGroup = {}
  BY <1>0, BatchAlone DEF VInv
<1> USE GroupCommitAssumption, NoneEmpty
   DEF VInv, GInv, Order, LockPlaces, OneLeader, TailOwned, Followers, FollowersKept,
       CallPlaces, RecordsCounted, Types, PlaceTypes, Places, Kinds, RecordTypes,
       Leading, Batching, Waiting, Adds, Locked, RecordPlaces, PlacedAt, Absent,
       Unwritten, InSpan, InTail
<1>1. ASSUME NEW p \in Procs, AddRefused(p) PROVE RecordPlaces'
  BY <1>1 DEF AddRefused, Adding, Return, latch, flush, room, locks, result
<1>2. ASSUME NEW p \in Procs, AddYields(p) PROVE RecordPlaces'
  BY <1>2 DEF AddYields, Adding, Goto, latch, flush, room, locks, result
<1>3. ASSUME NEW p \in Procs, AddParks(p) PROVE RecordPlaces'
  BY <1>3 DEF AddParks, Adding, Goto, latch, flush, room, locks, result
<1>4. ASSUME NEW p \in Procs, AddQuiesces(p) PROVE RecordPlaces'
  BY <1>4 DEF AddQuiesces, Admitted, Adding, Goto, latch, flush, room, locks, result
<1>5. ASSUME NEW p \in Procs, AddCycles(p) PROVE RecordPlaces'
  <2>1. UNCHANGED <<pend, flight, heading, group, curGroup, real, safe, pc, call, ret>>
    BY <1>5, CycleEmpty DEF AddCycles, result
  <2> QED
    BY <2>1
<1>6. ASSUME NEW p \in Procs, AddFails(p) PROVE RecordPlaces'
  BY <1>6 DEF AddFails, Admitted, Adding, Return, latch, flush, room, locks, result
<1>7. ASSUME NEW p \in Procs, AddFollows(p) PROVE RecordPlaces'
  <2>1. /\ pc[p] = "enter" /\ call[p] \in Adds /\ flushing
        /\ pend' = pend \union {NewRec(p)} /\ curGroup' = curGroup \union {p}
        /\ pc' = [pc EXCEPT ![p] = "follow"] /\ NewRec(p).by = p
        /\ UNCHANGED <<flight, heading, real, safe, group, call, ret>>
    BY <1>7 DEF AddFollows, Admitted, Adding, Stage, NewRec, Goto, result
  <2>2. One(pend', p)
    BY <2>1, OneArrives
  <2>3. \A q \in Procs \ {p} : /\ None(pend, q) => None(pend', q)
                               /\ One(pend, q) => One(pend', q)
    BY <2>1, NoneGrows
  <2> SUFFICES ASSUME NEW q \in Procs
               PROVE  PlacedAt(q)'
    BY DEF RecordPlaces
  <2>own. CASE q = p
    BY <2>own, <2>1, <2>2, <2>3
  <2>other. CASE q # p
    <3>1. /\ pc'[q] = pc[q] /\ (q \in curGroup' <=> q \in curGroup) /\ PlacedAt(q)
      BY <2>1, <2>other DEF VInv, GInv, Types, PlaceTypes, RecordPlaces
    <3> QED
      BY <2>1, <2>3, <2>other, <3>1, PlacedKept
  <2> QED
    BY <2>own, <2>other
<1>8. ASSUME NEW p \in Procs, AddLeads(p) PROVE RecordPlaces'
  <2>1. /\ pc[p] = "enter" /\ call[p] \in Adds /\ ~flushing /\ mu \in {Free, p}
        /\ flight' = pend \union {NewRec(p)} /\ pend' = {}
        /\ group' = curGroup /\ curGroup' = {}
        /\ pc' = [pc EXCEPT ![p] = "data"] /\ NewRec(p).by = p
        /\ UNCHANGED <<heading, real, safe, call, ret>>
    BY <1>8 DEF AddLeads, Admitted, Adding, NewRec, Goto, result
  <2>2. heading = {} /\ group = {} /\ curGroup = {} /\ \A q \in Procs : pc[q] \notin Leading
    BY <2>1
  <2>3. One(flight', p)
    BY <2>1, OneArrives
  <2>4. \A q \in Procs \ {p} : None(pend, q) => None(flight', q)
    BY <2>1, NoneGrows
  <2>5. \A q \in Procs : pc[q] \notin Batching
    BY <2>1
  <2>6. \A q \in Procs : None(pend, q)
    BY <2>2, <2>5
  <2> SUFFICES ASSUME NEW q \in Procs
               PROVE  PlacedAt(q)'
    BY DEF RecordPlaces
  <2>own. CASE q = p
    BY <2>own, <2>1, <2>2, <2>3, <2>4, <2>5, <2>6
  <2>other. CASE q # p
    <3>1. pc'[q] = pc[q] /\ PlacedAt(q) /\ None(heading', q) /\ None(pend', q)
      BY <2>1, <2>2, <2>other, NoneEmpty DEF VInv, GInv, Types, PlaceTypes, RecordPlaces
    <3> QED
      BY <2>1, <2>2, <2>4, <2>6, <2>other, <3>1, PlacedAbsent
  <2> QED
    BY <2>own, <2>other
<1>9. ASSUME NEW p \in Procs, LeaderPublishes(p) PROVE RecordPlaces'
  <2>1. /\ pc[p] = "data" /\ Moved(p, "header") /\ FollowersKept(p) /\ heading = {}
        /\ flight' = {} /\ heading' = flight /\ real' = Tally(real, Synced(flight))
        /\ UNCHANGED <<group, curGroup, pend, safe, call, ret>>
    BY <1>9, LeaderPublishesShape DEF Published
  <2>2. \A q \in Procs : /\ None(flight, q) => real'[q] = real[q]
                         /\ One(flight, q) => real'[q] = real[q] + 1
    BY <2>1, TallySynced
  <2> QED
    BY <2>1, <2>2 DEF Moved, Woken
<1>10. ASSUME NEW p \in Procs, LeaderUnpublished(p) PROVE RecordPlaces'
  BY <1>10, LeaderUnpublishedShape, LeaderFailsPlaces DEF VInv, GInv, Order
<1>11. ASSUME NEW p \in Procs, LeaderPoisoned(p) PROVE RecordPlaces'
  BY <1>11, LeaderPoisonedShape, LeaderFailsPlaces DEF VInv, GInv, Order
<1>12. ASSUME NEW p \in Procs, LeaderSettles(p) PROVE RecordPlaces'
  <2>1. CASE LeaderLeaves(p)
    <3>1. /\ pc[p] = "header" /\ Moved(p, "idle") /\ heading' = {} /\ flight = {}
          /\ \A q \in Procs \ {p} : IF q \in group THEN pc'[q] = "verdict"
                                    ELSE pc[q] = "follow" <=> pc'[q] = "follow"
          /\ safe' = Tally(safe, heading)
          /\ ret' = [Answer(ret, group, "nil") EXCEPT ![p] = Mine(p, "nil")]
          /\ UNCHANGED <<real, call>>
      BY <2>1 DEF LeaderLeaves
    <3>2. curGroup = {} /\ group' = {} /\ UNCHANGED <<curGroup, pend, flight>>
      BY <2>1 DEF LeaderLeaves
    <3>3. \A q \in Procs : /\ None(heading, q) => safe'[q] = safe[q]
                           /\ One(heading, q) => safe'[q] = safe[q] + 1
      BY <3>1, TallyCounts
    <3> QED
      BY <3>1, <3>2, <3>3 DEF Moved, Woken, Answer, Mine
  <2>2. CASE LeaderGoesOn(p)
    <3>1. /\ pc[p] = "header" /\ Moved(p, "data") /\ heading' = {} /\ flight = {}
          /\ \A q \in Procs \ {p} : IF q \in group THEN pc'[q] = "verdict"
                                    ELSE pc[q] = "follow" <=> pc'[q] = "follow"
          /\ safe' = Tally(safe, heading)
          /\ ret' = [Answer(ret, group, "nil") EXCEPT ![p] = Mine(p, "nil")]
          /\ UNCHANGED <<real, call>>
      BY <2>2 DEF LeaderGoesOn
    <3>2. group' = curGroup /\ curGroup' = {} /\ flight' = pend /\ pend' = {}
      BY <2>2 DEF LeaderGoesOn
    <3>3. \A q \in Procs : /\ None(heading, q) => safe'[q] = safe[q]
                           /\ One(heading, q) => safe'[q] = safe[q] + 1
      BY <3>1, TallyCounts
    <3> QED
      BY <3>1, <3>2, <3>3 DEF Moved, Woken, Answer, Mine
  <2> QED
    BY <1>12, <2>1, <2>2, LeaderSettlesShape
<1>13. ASSUME NEW p \in Procs, FollowerReturns(p) PROVE RecordPlaces'
  BY <1>13 DEF FollowerReturns, Goto, latch, flush, room, locks, result
<1>14. ASSUME NEW p \in Procs, QuiesceStarts(p) PROVE RecordPlaces'
  BY <1>14 DEF QuiesceStarts, Goto, latch, flush, room, locks, result
<1>15. ASSUME NEW p \in Procs, QuiesceWaits(p) PROVE RecordPlaces'
  BY <1>15 DEF QuiesceWaits, Goto, latch, flush, room, locks, result
<1>16. ASSUME NEW p \in Procs, QuiesceEnds(p) PROVE RecordPlaces'
  BY <1>16, QuiesceEndsShape DEF Moved, Woken, QuiesceEnds, latch, flush, room, result
<1>17. ASSUME NEW p \in Procs, BatchBegins(p) PROVE RecordPlaces'
  BY <1>17 DEF BatchBegins, Goto, Return, latch, flush, room, locks, result
<1>18. ASSUME NEW p \in Procs, BatchStages(p) PROVE RecordPlaces'
  <2>1. /\ pc[p] = "batch" /\ pend' = pend \union {NewRec(p)} /\ NewRec(p).by = p
        /\ UNCHANGED <<flight, heading, real, safe, group, curGroup, pc, call, ret>>
    BY <1>18 DEF BatchStages, BatchAt, Stage, NewRec
  <2>2. \A q \in Procs \ {p} : None(pend, q) => None(pend', q)
    BY <2>1, NoneGrows
  <2> SUFFICES ASSUME NEW q \in Procs
               PROVE  PlacedAt(q)'
    OBVIOUS
  <2>own. CASE q = p
    BY <2>own, <2>1, <2>2, <1>0
  <2>other. CASE q # p
    BY <2>other, <2>1, <2>2, <1>0
  <2> QED
    BY <2>own, <2>other
<1>19. ASSUME NEW p \in Procs, BatchStops(p) PROVE RecordPlaces'
  BY <1>19 DEF BatchStops, BatchAt, Goto, latch, flush, room, locks, result
<1>20. ASSUME NEW p \in Procs, BatchCycles(p) PROVE RecordPlaces'
  <2>1. /\ pc[p] = "batch" /\ pend' = {} /\ flight' = {}
        /\ \/ UNCHANGED <<pc, ret>>
           \/ \E a \in {"fail", "io"} : Returns(p, a)
        /\ UNCHANGED <<heading, real, safe, group, curGroup, call>>
    BY <1>20, BatchCyclesShape
  <2> SUFFICES ASSUME NEW q \in Procs
               PROVE  PlacedAt(q)'
    BY DEF RecordPlaces
  <2>own. CASE q = p
    <3>1. /\ pc'[p] \in Batching \union {"idle"} /\ call'[p] = "batch"
          /\ pend' = {} /\ flight' = {} /\ heading' = {} /\ p \notin group'
          /\ p \notin curGroup'
      BY <2>1, <1>0 DEF Returns, Moved, VInv, GInv, Order, CallPlaces, Batching
    <3> QED
      BY <3>1, <2>own, NoneEmpty, PlacedBatch
  <2>other. CASE q # p
    BY <2>other, <2>1, <1>0 DEF Returns, Moved, Woken
  <2> QED
    BY <2>own, <2>other
<1>21. ASSUME NEW p \in Procs, BatchPanics(p) PROVE RecordPlaces'
  <2>1. BatchDrops(p, "panic")
    BY <1>21, BatchPanicsShape
  <2> SUFFICES ASSUME NEW q \in Procs
               PROVE  PlacedAt(q)'
    BY DEF RecordPlaces
  <2>own. CASE q = p
    <3>1. /\ pc'[p] \in Batching \union {"idle"} /\ call'[p] = "batch"
          /\ pend' = {} /\ flight' = {} /\ heading' = {} /\ p \notin group'
          /\ p \notin curGroup'
      BY <2>1, <1>0 DEF BatchDrops, DiscardStaged, Returns, Moved, VInv, GInv, Order,
                        CallPlaces, Batching
    <3> QED
      BY <3>1, <2>own, NoneEmpty, PlacedBatch
  <2>other. CASE q # p
    BY <2>other, <2>1, <1>0 DEF BatchDrops, Returns, Moved, Woken, DiscardStaged
  <2> QED
    BY <2>own, <2>other
<1>22. ASSUME NEW p \in Procs, BatchPublishes(p) PROVE RecordPlaces'
  <2>1. /\ pc[p] = "batchPublish" /\ pend' = {} /\ flight' = {}
        /\ real' = Tally(real, Synced(pend)) /\ safe' \in {safe, Tally(safe, pend)}
        /\ Moved(p, "batch") \/ Moved(p, "idle")
        /\ FollowersKept(p) /\ \E a \in Answers : ret' = [ret EXCEPT ![p] = a]
        /\ UNCHANGED <<heading, group, curGroup, call>>
    BY <1>22, BatchPublishesShape DEF Published, DiscardStaged, Returns, Answers
  <2>2. \A q \in Procs \ {p} : real'[q] = real[q] /\ safe'[q] = safe[q]
    BY <2>1, <1>0, TallySynced, TallyCounts
  <2> SUFFICES ASSUME NEW q \in Procs
               PROVE  PlacedAt(q)'
    BY DEF RecordPlaces
  <2>own. CASE q = p
    <3>1. /\ pc'[p] \in Batching \union {"idle"} /\ call'[p] = "batch"
          /\ pend' = {} /\ flight' = {} /\ heading' = {} /\ p \notin group'
          /\ p \notin curGroup'
      BY <2>1, <1>0 DEF Moved, VInv, GInv, Order, CallPlaces, Batching
    <3> QED
      BY <3>1, <2>own, NoneEmpty, PlacedBatch
  <2>other. CASE q # p
    BY <2>other, <2>1, <2>2, <1>0 DEF Moved, Woken
  <2> QED
    BY <2>own, <2>other
<1>23. ASSUME NEW p \in Procs, BatchUnpublished(p) PROVE RecordPlaces'
  <2>1. PICK a \in {"io", "fail"} : BatchDrops(p, a)
    BY <1>23, BatchUnpublishedShape
  <2> SUFFICES ASSUME NEW q \in Procs
               PROVE  PlacedAt(q)'
    BY DEF RecordPlaces
  <2>own. CASE q = p
    <3>1. /\ pc'[p] \in Batching \union {"idle"} /\ call'[p] = "batch"
          /\ pend' = {} /\ flight' = {} /\ heading' = {} /\ p \notin group'
          /\ p \notin curGroup'
      BY <2>1, <1>0 DEF BatchDrops, DiscardStaged, Returns, Moved, VInv, GInv, Order,
                        CallPlaces, Batching
    <3> QED
      BY <3>1, <2>own, NoneEmpty, PlacedBatch
  <2>other. CASE q # p
    BY <2>other, <2>1, <1>0 DEF BatchDrops, Returns, Moved, Woken, DiscardStaged
  <2> QED
    BY <2>own, <2>other
<1>24. ASSUME NEW p \in Procs, SyncLocks(p) PROVE RecordPlaces'
  BY <1>24 DEF SyncLocks, Goto, latch, flush, room, locks, result
<1>25. ASSUME NEW p \in Procs, SyncBegins(p) PROVE RecordPlaces'
  BY <1>25, SyncBeginsShape DEF Moved, Woken, Returns, latch, flush, room
<1>26. ASSUME NEW p \in Procs, SyncEnds(p) PROVE RecordPlaces'
  BY <1>26, SyncEndsShape DEF Moved, Woken, Returns, flush, room
<1>27. ASSUME NEW p \in Procs, CloseBegins(p) PROVE RecordPlaces'
  BY <1>27, CloseBeginsShape DEF Moved, Woken, flush, room
<1>28. ASSUME NEW p \in Procs, CloseLocks(p) PROVE RecordPlaces'
  BY <1>28 DEF CloseLocks, Goto, latch, flush, room, locks, result
<1>29. ASSUME NEW p \in Procs, CloseEnds(p) PROVE RecordPlaces'
  BY <1>29 DEF CloseEnds, Return, latch, flush, room, locks, result
<1>30. ASSUME NEW p \in Procs, AddCancelled(p) PROVE RecordPlaces'
  BY <1>30 DEF AddCancelled, Return, latch, flush, room, locks, result
<1>31. ASSUME NEW p \in Procs, NEW k \in Kinds, Begin(p, k) PROVE RecordPlaces'
  BY <1>31 DEF Begin, Goto, latch, flush, room, locks, result
<1>32. ASSUME Consumes PROVE RecordPlaces'
  BY <1>32 DEF Consumes, ConsumerMoves, flush
<1>33. ASSUME UNCHANGED vars PROVE RecordPlaces'
  BY <1>33 DEF vars, latch, flush, room, locks, result
<1> HIDE DEF VInv, GInv, Order, LockPlaces, OneLeader, TailOwned, Followers,
             FollowersKept,
       CallPlaces, RecordsCounted, Types, PlaceTypes, Places, Kinds, RecordTypes,
       Leading, Batching, Waiting, Adds, Locked, RecordPlaces, PlacedAt, Absent,
       Unwritten, InSpan, InTail
<1> QED
  BY StepCases, <1>1, <1>2, <1>3, <1>4, <1>5, <1>6, <1>7, <1>8, <1>9, <1>10, <1>11,
     <1>12, <1>13, <1>14, <1>15, <1>16, <1>17, <1>18, <1>19, <1>20, <1>21, <1>22, <1>23,
     <1>24, <1>25, <1>26, <1>27, <1>28, <1>29, <1>30, <1>31, <1>32, <1>33
     DEF VInv

\* A batch that a step only wakes, or that is over
LEMMA TalliedKept ==
    ASSUME NEW q \in Procs, TalliedAt(q), pc[q] \notin Batching, Woken(pc[q], pc'[q]),
           pc[q] \notin {"space", "release", "notify", "follow"},
           count'[q] = count[q], item'[q] = item[q], ret'[q] = ret[q],
           real'[q] = real[q], safe'[q] = safe[q]
    PROVE  TalliedAt(q)'
  BY DEF TalliedAt, Batching, Waiting, Woken

\* A leader's steps pass the batches by
LEMMA LeaderPassesBatch ==
    ASSUME VInv, NEW p \in Procs, pc[p] \in Leading,
           \A q \in Procs \ {p} : Woken(pc[q], pc'[q]),
           UNCHANGED <<call, count, item>>,
           \A q \in Procs \ {p} : pc[q] # "follow" => ret'[q] = ret[q],
           \A q \in Procs : Absent(q) => real'[q] = real[q] /\ safe'[q] = safe[q]
    PROVE  BatchTally'
<1> SUFFICES ASSUME NEW q \in Procs, call'[q] = "batch"
             PROVE  TalliedAt(q)'
  BY DEF BatchTally
<1>1. /\ call[q] = "batch" /\ TalliedAt(q) /\ q # p /\ pc[q] \notin Leading
      /\ pc[q] \notin Batching /\ pc[q] \notin {"space", "release", "notify", "follow"}
  BY DEF VInv, GInv, Order, BatchTally, CallPlaces, OneLeader, TailOwned, Adds, Leading
<1>2. Absent(q)
  BY <1>1 DEF VInv, RecordPlaces, PlacedAt
<1> QED
  BY <1>1, <1>2, TalliedKept

\* The other calls of AddBatch while one of them stages
LEMMA BatchPassesBatch ==
    ASSUME VInv, NEW p \in Procs, pc[p] \in Batching, NEW q \in Procs, q # p,
           call[q] = "batch", Woken(pc[q], pc'[q]),
           count'[q] = count[q], item'[q] = item[q], ret'[q] = ret[q],
           real'[q] = real[q], safe'[q] = safe[q]
    PROVE  TalliedAt(q)'
<1>1. /\ TalliedAt(q) /\ pc[q] \notin Batching
      /\ pc[q] \notin {"space", "release", "notify", "follow"}
  BY BatchAlone DEF VInv, GInv, Order, BatchTally, CallPlaces, Adds
<1> QED
  BY <1>1, TalliedKept

\* Publishing a batch's tail counts each of its records once
LEMMA BatchCounts ==
    ASSUME VInv, NEW p \in Procs, pc[p] \in Batching
    PROVE  /\ Cardinality(pend) \in Nat
           /\ Recs(pend, p) = Cardinality(pend)
           /\ Tally(real, Synced(pend))[p] = real[p] + Cardinality(pend)
           /\ Tally(safe, pend)[p] = safe[p] + Cardinality(pend)
<1>1. /\ pend \subseteq Staged /\ IsFiniteSet(pend) /\ \A r \in pend : ~r.synced /\ r.by = p
  BY DEF VInv, GInv, Order, Types, RecordTypes, RecordsCounted, BatchOwns, CallPlaces,
         BatchTally, TalliedAt, Batching
<1>2. \A s \in Synced(pend) : s.by = p
  BY <1>1 DEF Synced, Staged
<1>3. Cardinality(Synced(pend)) = Cardinality(pend) /\ IsFiniteSet(Synced(pend))
  BY <1>1, SyncedCounts
<1>4. Recs(pend, p) = Cardinality(pend) /\ Recs(Synced(pend), p) = Cardinality(pend)
  BY <1>1, <1>2, <1>3, OwnCounted
<1> QED
  BY <1>1, <1>4, FS_CardinalityType DEF Tally

\* ... nor of what a batch has counted: the steps of batches ...
LEMMA BatchBeginsTally ==
    ASSUME VInv, NEW p \in Procs, BatchBegins(p)
    PROVE  BatchTally'
<1> SUFFICES ASSUME NEW q \in Procs, call'[q] = "batch"
             PROVE  TalliedAt(q)'
  BY DEF BatchTally
<1>1. /\ call[p] = "batch" /\ pc[p] \in {"enter", "quiesced"} /\ call' = call
      /\ \/ /\ pc[p] = "quiesced" /\ pc' = [pc EXCEPT ![p] = "batch"]
            /\ UNCHANGED ret
         \/ \E a \in {"closed", "io"} : /\ pc' = [pc EXCEPT ![p] = "idle"]
                                        /\ ret' = [ret EXCEPT ![p] = a]
      /\ UNCHANGED <<pend, real, safe, count, item>>
  BY DEF BatchBegins, Return, Goto, flush
<1>2. TalliedAt(p) /\ TalliedAt(q) /\ Unwritten(p) /\ ret[p] = "none" /\ BatchLen \in Nat
  BY <1>1, GroupCommitAssumption DEF VInv, BatchTally, RecordPlaces, PlacedAt
<1>3. pc \in [Procs -> Places] /\ ret \in [Procs -> Answers]
  BY DEF VInv, GInv, Types, PlaceTypes
<1>4. pc[p] = "quiesced" => pend = {} /\ Cardinality(pend) = 0
  BY FS_EmptySet DEF VInv, GInv, Order, TailOwned, RecordsCounted, Types, ByteTypes, Busy,
                     stagedBytes
<1>5. CASE q = p
  BY <1>1, <1>2, <1>3, <1>4, <1>5 DEF TalliedAt, Unwritten, Batching, Waiting
<1>6. CASE q # p
  BY <1>1, <1>2, <1>3, <1>6 DEF TalliedAt
<1> QED
  BY <1>5, <1>6

LEMMA BatchStagesTally ==
    ASSUME VInv, NEW p \in Procs, BatchStages(p)
    PROVE  BatchTally'
<1> SUFFICES ASSUME NEW q \in Procs, call'[q] = "batch"
             PROVE  TalliedAt(q)'
  BY DEF BatchTally
<1>1. /\ pc[p] = "batch" /\ item[p] < BatchLen /\ pend' = pend \union {NewRec(p)}
      /\ item' = [item EXCEPT ![p] = @ + 1]
      /\ UNCHANGED <<pc, call, ret, count, real, safe>>
  BY DEF BatchStages, BatchAt, Stage, NewRec
<1>2. CASE q # p
  <2>1. item'[q] = item[q] /\ pc[p] \in Batching
    BY <1>1, <1>2 DEF VInv, GInv, Types, RecordTypes, Batching
  <2> QED
    BY <1>1, <1>2, <2>1, BatchPassesBatch DEF Woken
<1>3. CASE q = p
  <2>1. TalliedAt(p) /\ IsFiniteSet(pend) /\ NewRec(p) \notin pend
    BY <1>1, <1>3, NewRecIsNew DEF VInv, GInv, BatchTally, RecordsCounted
  <2>2. Cardinality(pend') = Cardinality(pend) + 1 /\ Cardinality(pend) \in Nat
    BY <1>1, <2>1, FS_AddElement, FS_CardinalityType
  <2>3. \A r \in pend' : ~r.synced
    BY <1>1, <2>1 DEF TalliedAt, Batching, NewRec
  <2>4. item'[p] = item[p] + 1 /\ item[p] \in Nat /\ count[p] \in Nat /\ BatchLen \in Nat
    BY <1>1, GroupCommitAssumption DEF VInv, GInv, Types, RecordTypes
  <2>5. /\ item'[p] <= BatchLen /\ item'[p] = count[p] + Cardinality(pend')
    BY <1>1, <2>1, <2>2, <2>4 DEF TalliedAt, Batching
  <2> QED
    BY <1>1, <1>3, <2>1, <2>3, <2>5 DEF TalliedAt, Batching, Waiting
<1> QED
  BY <1>2, <1>3

LEMMA BatchStopsTally ==
    ASSUME VInv, NEW p \in Procs, BatchStops(p)
    PROVE  BatchTally'
<1> SUFFICES ASSUME NEW q \in Procs, call'[q] = "batch"
             PROVE  TalliedAt(q)'
  BY DEF BatchTally
<1>1. PICK why \in {"nil", "full", "fail", "more"} :
          ret' = [ret EXCEPT ![p] = why] /\ (why = "nil" => item[p] = BatchLen)
  BY DEF BatchStops
<1>2. /\ pc[p] = "batch" /\ pc' = [pc EXCEPT ![p] = "batchPublish"]
      /\ UNCHANGED <<pend, real, safe, call, count, item>>
  BY DEF BatchStops, Goto, flush
<1>3. pc \in [Procs -> Places] /\ ret \in [Procs -> Answers] /\ TalliedAt(q)
  BY <1>2 DEF VInv, GInv, Types, PlaceTypes, BatchTally
<1>4. CASE q # p
  BY <1>1, <1>2, <1>3, <1>4 DEF TalliedAt
<1>5. CASE q = p
  BY <1>1, <1>2, <1>3, <1>5 DEF TalliedAt, Batching, Waiting
<1> QED
  BY <1>4, <1>5

LEMMA BatchCyclesTally ==
    ASSUME VInv, NEW p \in Procs, BatchCycles(p)
    PROVE  BatchTally'
<1> SUFFICES ASSUME NEW q \in Procs, call'[q] = "batch"
             PROVE  TalliedAt(q)'
  BY DEF BatchTally
<1>1. /\ pc[p] = "batch" /\ pend = {} /\ pend' = {}
      /\ \/ UNCHANGED <<pc, ret>>
         \/ \E a \in {"fail", "io"} : Returns(p, a)
      /\ UNCHANGED <<real, safe, call, count, item>>
  BY BatchCyclesShape DEF VInv, GInv, Order
<1>2. pc \in [Procs -> Places] /\ ret \in [Procs -> Answers] /\ TalliedAt(q)
  BY <1>1 DEF VInv, GInv, Types, PlaceTypes, BatchTally
<1>3. CASE q # p
  <2>1. Woken(pc[q], pc'[q]) /\ ret'[q] = ret[q] /\ pc[p] \in Batching
    BY <1>1, <1>2, <1>3 DEF Returns, Moved, Woken, Batching
  <2> QED
    BY <1>1, <1>3, <2>1, BatchPassesBatch
<1>4. CASE q = p
  BY <1>1, <1>2, <1>4 DEF TalliedAt, Batching, Waiting, Returns, Moved
<1> QED
  BY <1>3, <1>4

LEMMA BatchPublishesTally ==
    ASSUME VInv, NEW p \in Procs, BatchPublishes(p)
    PROVE  BatchTally'
<1> SUFFICES ASSUME NEW q \in Procs, call'[q] = "batch"
             PROVE  TalliedAt(q)'
  BY DEF BatchTally
<1> DEFINE n == Cardinality(pend)
<1>1. /\ pc[p] = "batchPublish" /\ pc[p] \in Batching /\ pend' = {}
      /\ real' = Tally(real, Synced(pend))
      /\ count' = [count EXCEPT ![p] = @ + Cardinality(pend)]
      /\ UNCHANGED <<call, item>>
  BY BatchPublishesShape DEF VInv, GInv, DiscardStaged, Published, Batching
<1>2. \/ /\ Moved(p, "batch") /\ ret' = [ret EXCEPT ![p] = "none"]
         /\ safe' = Tally(safe, pend)
      \/ /\ Moved(p, "idle") /\ ret' = [ret EXCEPT ![p] = ret[p]]
         /\ safe' = Tally(safe, pend)
      \/ Moved(p, "idle") /\ ret' = [ret EXCEPT ![p] = "io"] /\ UNCHANGED safe
  BY BatchPublishesShape DEF VInv, GInv, Returns
<1>3. /\ ret \in [Procs -> Answers] /\ count \in [Procs -> Nat] /\ item \in [Procs -> Nat]
      /\ real \in [Procs -> Nat] /\ safe \in [Procs -> Nat] /\ pend \subseteq Staged
      /\ BatchLen \in Nat /\ TalliedAt(q)
  BY <1>1, GroupCommitAssumption DEF VInv, GInv, Types, PlaceTypes, RecordTypes,
                                     BatchTally
<1>4. CASE q # p
  <2>1. None(pend, q)
    BY <1>1, <1>4, BatchAlone DEF VInv
  <2>2. /\ Woken(pc[q], pc'[q]) /\ ret'[q] = ret[q] /\ count'[q] = count[q]
        /\ real'[q] = real[q] /\ safe'[q] = safe[q] /\ item'[q] = item[q]
    BY <1>1, <1>2, <1>3, <1>4, <2>1, TallySynced, TallyCounts DEF Moved
  <2> QED
    BY <1>1, <1>4, <2>2, BatchPassesBatch
<1>5. CASE q = p
  <2>1. /\ n \in Nat /\ real'[p] = real[p] + n /\ count'[p] = count[p] + n
        /\ Tally(safe, pend)[p] = safe[p] + n
    BY <1>1, <1>3, BatchCounts
  <2>2. /\ real[p] = count[p] /\ safe[p] = count[p] /\ item[p] = count[p] + n
        /\ item[p] <= BatchLen /\ (ret[p] = "nil" => item[p] = BatchLen)
    BY <1>1, <1>3, <1>5 DEF TalliedAt, Batching
  <2>3. real'[p] = count'[p] /\ item'[p] = count'[p] /\ item'[p] <= BatchLen
    BY <1>1, <1>3, <2>1, <2>2
  <2>4. \/ pc'[p] = "batch" /\ ret'[p] = "none" /\ safe'[p] = count'[p]
        \/ /\ pc'[p] = "idle"
           /\ ret'[p] = "nil" => safe'[p] = BatchLen
    BY <1>2, <1>3, <2>1, <2>2 DEF Moved
  <2>5. Cardinality(pend') = 0 /\ count'[p] + 0 = count'[p] /\ \A r \in pend' : ~r.synced
    BY <1>1, <1>3, <2>1, FS_EmptySet
  <2> HIDE DEF n
  <2> QED
    BY <1>5, <2>3, <2>4, <2>5 DEF TalliedAt, Batching, Waiting
<1> QED
  BY <1>4, <1>5

\* ... and the steps of everyone else
LEMMA BatchTallyStep ==
    ASSUME VInv, [Next]_vars
    PROVE  BatchTally'
<1> USE GroupCommitAssumption
   DEF VInv, GInv, Order, LockPlaces, CallPlaces, Types, PlaceTypes, Places, Kinds,
       RecordTypes, Leading, Batching, Waiting, Adds, Locked, BatchTally, TalliedAt
<1>1. ASSUME NEW p \in Procs, AddRefused(p) PROVE BatchTally'
  BY <1>1 DEF AddRefused, Adding, Return, latch, flush, room, locks, result
<1>2. ASSUME NEW p \in Procs, AddYields(p) PROVE BatchTally'
  BY <1>2 DEF AddYields, Adding, Goto, latch, flush, room, locks, result
<1>3. ASSUME NEW p \in Procs, AddParks(p) PROVE BatchTally'
  BY <1>3 DEF AddParks, Adding, Goto, latch, flush, room, locks, result
<1>4. ASSUME NEW p \in Procs, AddQuiesces(p) PROVE BatchTally'
  BY <1>4 DEF AddQuiesces, Admitted, Adding, Goto, latch, flush, room, locks, result
<1>5. ASSUME NEW p \in Procs, AddCycles(p) PROVE BatchTally'
  <2>1. UNCHANGED <<pend, real, safe, pc, call, ret, count, item>>
    BY <1>5, CycleEmpty DEF AddCycles, result, VInv, GInv
  <2> QED
    BY <2>1
<1>6. ASSUME NEW p \in Procs, AddFails(p) PROVE BatchTally'
  BY <1>6 DEF AddFails, Admitted, Adding, Return, latch, flush, room, locks, result
<1>7. ASSUME NEW p \in Procs, AddFollows(p) PROVE BatchTally'
  BY <1>7 DEF AddFollows, Admitted, Adding, Stage, Goto, latch, flush, room, locks, result
<1>8. ASSUME NEW p \in Procs, AddLeads(p) PROVE BatchTally'
  BY <1>8 DEF AddLeads, Admitted, Adding, Goto, latch, flush, room, locks, result
<1>9. ASSUME NEW p \in Procs, LeaderPublishes(p) PROVE BatchTally'
  <2>1. /\ pc[p] \in Leading /\ Moved(p, "header") /\ real' = Tally(real, Synced(flight))
        /\ UNCHANGED <<safe, call, count, item, ret>>
    BY <1>9, LeaderPublishesShape DEF Published
  <2>2. \A q \in Procs : Absent(q) => real'[q] = real[q] /\ safe'[q] = safe[q]
    BY <2>1, TallySynced DEF Absent
  <2> QED
    BY <2>1, <2>2, LeaderPassesBatch DEF Moved
<1>10. ASSUME NEW p \in Procs, LeaderUnpublished(p) PROVE BatchTally'
  <2>1. PICK a \in {"io", "fail"} : LeaderFails(p, a)
    BY <1>10, LeaderUnpublishedShape
  <2> QED
    BY <2>1, LeaderPassesBatch DEF LeaderFails, Moved, Answer, Followers
<1>11. ASSUME NEW p \in Procs, LeaderPoisoned(p) PROVE BatchTally'
  <2>1. LeaderFails(p, "io")
    BY <1>11, LeaderPoisonedShape
  <2> QED
    BY <2>1, LeaderPassesBatch DEF LeaderFails, Moved, Answer, Followers
<1>12. ASSUME NEW p \in Procs, LeaderSettles(p) PROVE BatchTally'
  <2>1. LeaderLeaves(p) \/ LeaderGoesOn(p)
    BY <1>12, LeaderSettlesShape
  <2>2. \A q \in Procs : Absent(q) => real'[q] = real[q] /\ safe'[q] = safe[q]
    BY <2>1, TallyCounts DEF LeaderLeaves, LeaderGoesOn, Absent
  <2>3. /\ pc[p] \in Leading /\ UNCHANGED <<call, count, item>>
        /\ \A q \in Procs \ {p} : Woken(pc[q], pc'[q])
        /\ \A q \in Procs \ {p} : pc[q] # "follow" => ret'[q] = ret[q]
    BY <2>1 DEF LeaderLeaves, LeaderGoesOn, Moved, Answer, Followers
  <2> QED
    BY <2>2, <2>3, LeaderPassesBatch
<1>13. ASSUME NEW p \in Procs, FollowerReturns(p) PROVE BatchTally'
  BY <1>13 DEF FollowerReturns, Goto, latch, flush, room, locks, result
<1>14. ASSUME NEW p \in Procs, QuiesceStarts(p) PROVE BatchTally'
  BY <1>14 DEF QuiesceStarts, Goto, latch, flush, room, locks, result
<1>15. ASSUME NEW p \in Procs, QuiesceWaits(p) PROVE BatchTally'
  BY <1>15 DEF QuiesceWaits, Goto, latch, flush, room, locks, result
<1>16. ASSUME NEW p \in Procs, QuiesceEnds(p) PROVE BatchTally'
  BY <1>16, QuiesceEndsShape DEF Moved, Woken, QuiesceEnds, latch, flush, room, result
<1>17. ASSUME NEW p \in Procs, BatchBegins(p) PROVE BatchTally'
  BY <1>17, BatchBeginsTally
<1>18. ASSUME NEW p \in Procs, BatchStages(p) PROVE BatchTally'
  BY <1>18, BatchStagesTally
<1>19. ASSUME NEW p \in Procs, BatchStops(p) PROVE BatchTally'
  BY <1>19, BatchStopsTally
<1>20. ASSUME NEW p \in Procs, BatchCycles(p) PROVE BatchTally'
  BY <1>20, BatchCyclesTally
<1>21. ASSUME NEW p \in Procs, BatchPanics(p) PROVE BatchTally'
  BY <1>21, BatchPanicsShape DEF Moved, Woken, BatchDrops, DiscardStaged, Returns
<1>22. ASSUME NEW p \in Procs, BatchPublishes(p) PROVE BatchTally'
  BY <1>22, BatchPublishesTally
<1>23. ASSUME NEW p \in Procs, BatchUnpublished(p) PROVE BatchTally'
  BY <1>23, BatchUnpublishedShape DEF Moved, Woken, BatchDrops, DiscardStaged, Returns
<1>24. ASSUME NEW p \in Procs, SyncLocks(p) PROVE BatchTally'
  BY <1>24 DEF SyncLocks, Goto, latch, flush, room, locks, result
<1>25. ASSUME NEW p \in Procs, SyncBegins(p) PROVE BatchTally'
  BY <1>25, SyncBeginsShape DEF Moved, Woken, Returns, latch, flush, room
<1>26. ASSUME NEW p \in Procs, SyncEnds(p) PROVE BatchTally'
  BY <1>26, SyncEndsShape DEF Moved, Woken, Returns, flush, room
<1>27. ASSUME NEW p \in Procs, CloseBegins(p) PROVE BatchTally'
  BY <1>27, CloseBeginsShape DEF Moved, Woken, flush, room
<1>28. ASSUME NEW p \in Procs, CloseLocks(p) PROVE BatchTally'
  BY <1>28 DEF CloseLocks, Goto, latch, flush, room, locks, result
<1>29. ASSUME NEW p \in Procs, CloseEnds(p) PROVE BatchTally'
  BY <1>29 DEF CloseEnds, Return, latch, flush, room, locks, result
<1>30. ASSUME NEW p \in Procs, AddCancelled(p) PROVE BatchTally'
  BY <1>30 DEF AddCancelled, Return, latch, flush, room, locks, result
<1>31. ASSUME NEW p \in Procs, NEW k \in Kinds, Begin(p, k) PROVE BatchTally'
  BY <1>31 DEF Begin, Goto, latch, flush, room, locks, result
<1>32. ASSUME Consumes PROVE BatchTally'
  BY <1>32 DEF Consumes, ConsumerMoves, flush
<1>33. ASSUME UNCHANGED vars PROVE BatchTally'
  BY <1>33 DEF vars, latch, flush, room, locks, result
<1> HIDE DEF VInv, GInv, Order, LockPlaces, CallPlaces, Types, PlaceTypes, Places, Kinds,
       RecordTypes, Leading, Batching, Waiting, Adds, Locked, BatchTally, TalliedAt
<1> QED
  BY StepCases, <1>1, <1>2, <1>3, <1>4, <1>5, <1>6, <1>7, <1>8, <1>9, <1>10, <1>11,
     <1>12, <1>13, <1>14, <1>15, <1>16, <1>17, <1>18, <1>19, <1>20, <1>21, <1>22, <1>23,
     <1>24, <1>25, <1>26, <1>27, <1>28, <1>29, <1>30, <1>31, <1>32, <1>33
     DEF VInv

LEMMA VInvInit == Init => VInv
<1> SUFFICES ASSUME Init
             PROVE  VInv
  OBVIOUS
<1>1. RecordPlaces
  BY NoneEmpty
     DEF Init, RecordPlaces, PlacedAt, Absent, Unwritten, Leading, Batching, Waiting
<1>2. BatchTally
  BY DEF Init, BatchTally
<1> QED
  BY <1>1, <1>2, GInvInit DEF VInv

LEMMA VInvStep == VInv /\ [Next]_vars => VInv'
<1> SUFFICES ASSUME VInv, [Next]_vars
             PROVE  VInv'
  OBVIOUS
<1>1. GInv'
  BY GInvStep DEF VInv
<1> QED
  BY <1>1, RecordPlacesStep, BatchTallyStep DEF VInv

-----------------------------------------------------------------------------
(* The property *)

\* What a call answers is true: a nil Add or AddBatch is published and durable, an
\* Add refused without ErrIO left nothing in the queue, and AddBatch's n counts
\* exactly what is in the queue, however many spans, followers, failed fsyncs,
\* panics and cycles came between (addDurableLocked, leadFlushLocked,
\* publishBatchLocked).
THEOREM AnswersAreTrue == Spec => []VerdictTrue
<1>1. VInv => VerdictTrue
  BY DEF VInv, RecordPlaces, PlacedAt, BatchTally, TalliedAt, VerdictTrue, Adds
<1> QED
  BY <1>1, VInvInit, VInvStep, PTL DEF Spec
=============================================================================
