------------------------- MODULE OffLockSyncProofs -------------------------
(***************************************************************************)
(* What holds of OffLockSync for every number of segments, writes, open    *)
(* files and lost writebacks: its types, that nobody waits in a circle,    *)
(* that no handle is closed under an fsync, that the cap on open files is  *)
(* kept, that a clean segment is durable, that Sync keeps its promise and  *)
(* that the gauges never understate.                                       *)
(*                                                                         *)
(* Each invariant rests on the one before it.  Owner says who holds which  *)
(* mutex at each place; SegInv how segments are numbered and filled;       *)
(* SessionInv and HandleInv what a flush has pinned and which handles are  *)
(* open (BaseInv).  CapInv counts pinned handles.  DiskInv follows the     *)
(* kernel: a lost writeback stays untold, in hand or latched.  PromiseInv  *)
(* says that what a running Sync owes is durable, still listed or pinned.  *)
(* GaugeInv relates the counters to what a power loss would take, through  *)
(* the epoch under which a Sync took its snapshot of them.                 *)
(***************************************************************************)
EXTENDS OffLockSync, FiniteSetTheorems, WellFoundedInduction, TLAPS

(* Who is where, and who holds which mutex *)

PlacesOK ==
    /\ pc \in [Procs -> Places]
    /\ pc["ops"] \in {"idle", "opened", "cycled", "flush", "commitFlush", "reclaim"}
    /\ pc["closer"] \in {"idle", "stopping", "closing", "closeFlush", "done"}
    /\ \A p \in Syncers :
          pc[p] \in {"idle", "wait", "enter", "prepare", "fsync", "finish", "exited"}

MuHeld ==
    /\ mu \in Procs \union {Free}
    /\ mu = "ops" <=> pc["ops"] # "idle"
    /\ mu = "closer" <=> pc["closer"] = "closeFlush"
    /\ \A p \in Syncers : mu = p <=> pc[p] \in {"prepare", "finish"}

SyncMuHeld ==
    /\ syncMu \in {"loop", "user", "closer", Free}
    /\ syncMu = "closer" <=> pc["closer"] \in {"closing", "closeFlush"}
    /\ \A p \in Syncers : syncMu = p <=> pc[p] \in {"enter", "prepare", "fsync", "finish"}

ClosedAt ==
    /\ closed \in BOOLEAN /\ storeClosed \in BOOLEAN
    /\ closed <=> pc["closer"] # "idle"
    /\ storeClosed <=> pc["closer"] \in {"closeFlush", "done"}
    /\ closed => pc["ops"] = "idle"

Owner == PlacesOK /\ MuHeld /\ SyncMuHeld /\ ClosedAt

LEMMA GotoPlace ==
    ASSUME PlacesOK, NEW p \in Procs, NEW q \in Places, Goto(p, q)
    PROVE  /\ pc' \in [Procs -> Places] /\ pc'[p] = q
           /\ \A r \in Procs \ {p} : pc'[r] = pc[r]
  BY DEF PlacesOK, Goto

LEMMA OwnerInit == Init => Owner
  BY DEF Init, Owner, PlacesOK, MuHeld, SyncMuHeld, ClosedAt, Procs, Syncers, Places, Free

LEMMA OwnerSame ==
    ASSUME Owner, UNCHANGED <<mu, syncMu, pc, closed, storeClosed>>
    PROVE  Owner'
  BY DEF Owner, PlacesOK, MuHeld, SyncMuHeld, ClosedAt

\* A step of "ops": it has the mutex, or takes it
LEMMA OwnerOps ==
    ASSUME Owner, ~closed,
           mu \in {Free, "ops"}, UNCHANGED <<syncMu, closed, storeClosed>>,
           \/ Goto("ops", "idle") /\ mu' = Free
           \/ mu' = "ops" /\ \E q \in {"opened", "cycled", "flush", "commitFlush", "reclaim"} :
                                 Goto("ops", q)
    PROVE  Owner'
<1>1. CASE Goto("ops", "idle") /\ mu' = Free
  <2>1. /\ pc' \in [Procs -> Places] /\ pc'["ops"] = "idle"
        /\ \A r \in Procs \ {"ops"} : pc'[r] = pc[r]
    BY <1>1, GotoPlace DEF Owner, Procs, Places
  <2> QED
    BY <1>1, <2>1 DEF Owner, PlacesOK, MuHeld, SyncMuHeld, ClosedAt, Procs, Syncers, Free
<1>2. CASE mu' = "ops" /\ \E q \in {"opened", "cycled", "flush", "commitFlush", "reclaim"} :
                             Goto("ops", q)
  <2>1. PICK q \in {"opened", "cycled", "flush", "commitFlush", "reclaim"} : Goto("ops", q)
    BY <1>2
  <2>2. /\ pc' \in [Procs -> Places] /\ pc'["ops"] = q
        /\ \A r \in Procs \ {"ops"} : pc'[r] = pc[r]
    BY <2>1, GotoPlace DEF Owner, Procs, Places
  <2> QED
    BY <1>2, <2>2 DEF Owner, PlacesOK, MuHeld, SyncMuHeld, ClosedAt, Procs, Syncers, Free
<1> QED
  BY <1>1, <1>2

LEMMA OpenToOps ==
    ASSUME Owner, Begins \/ mu = "ops"
    PROVE  ~closed /\ mu \in {Free, "ops"}
  BY DEF Owner, MuHeld, ClosedAt, Begins

LEMMA OwnerSync ==
    ASSUME Owner, NEW p \in Syncers, UNCHANGED <<closed, storeClosed>>,
           SyncCalled(p) \/ SyncLocks(p) \/ SyncRefused(p) \/ SyncLists(p) \/ SyncUnlocks(p)
           \/ SyncSettles(p) \/ SyncEnds(p)
    PROVE  Owner'
<1>1. /\ p \in Procs
      /\ \A q \in {"idle", "wait", "enter", "prepare", "fsync", "finish"} : q \in Places
  BY DEF Procs, Syncers, Places
<1>2. ASSUME NEW q \in {"idle", "wait", "enter", "prepare", "fsync", "finish"},
             NEW m, NEW s, Goto(p, q), mu' = m, syncMu' = s,
             mu \in {Free, p},
             m = IF q \in {"prepare", "finish"} THEN p ELSE Free,
             syncMu \in {Free, p},
             s = IF q \in {"idle", "wait"} THEN Free ELSE p
      PROVE Owner'
  <2>1. /\ pc' \in [Procs -> Places] /\ pc'[p] = q
        /\ \A r \in Procs \ {p} : pc'[r] = pc[r]
    BY <1>1, <1>2, GotoPlace DEF Owner
  <2>2. PlacesOK' /\ SyncMuHeld'
    BY <1>2, <2>1 DEF Owner, PlacesOK, MuHeld, SyncMuHeld, Procs, Syncers, Free
  <2>3. MuHeld'
    BY <1>2, <2>1 DEF Owner, PlacesOK, MuHeld, SyncMuHeld, Procs, Syncers, Free
  <2>4. ClosedAt'
    BY <1>2, <2>1 DEF Owner, PlacesOK, ClosedAt, Procs, Syncers
  <2> QED
    BY <2>2, <2>3, <2>4 DEF Owner
<1>3. CASE SyncCalled(p)
  <2>1. /\ pc' \in [Procs -> Places] /\ pc'[p] = "wait"
        /\ \A r \in Procs \ {p} : pc'[r] = pc[r]
    BY <1>1, <1>3, GotoPlace DEF Owner, SyncCalled
  <2> QED
    BY <1>3, <2>1 DEF SyncCalled, Owner, PlacesOK, MuHeld, SyncMuHeld, ClosedAt, Procs,
       Syncers, Free
<1>4. CASE SyncLocks(p)
  <2>1. /\ pc' \in [Procs -> Places] /\ pc'[p] = "enter"
        /\ \A r \in Procs \ {p} : pc'[r] = pc[r]
    BY <1>1, <1>4, GotoPlace DEF Owner, SyncLocks
  <2> QED
    BY <1>4, <2>1 DEF SyncLocks, Owner, PlacesOK, MuHeld, SyncMuHeld, ClosedAt, Procs,
       Syncers, Free
<1>5. CASE SyncRefused(p)
  BY <1>2, <1>5 DEF SyncRefused, SyncReturns, Owner, SyncMuHeld
<1>6. CASE SyncLists(p)
  BY <1>2, <1>6 DEF SyncLists, Owner, SyncMuHeld
<1>7. CASE SyncUnlocks(p)
  BY <1>2, <1>7 DEF SyncUnlocks, Owner, SyncMuHeld, Holds
<1>8. CASE SyncSettles(p)
  BY <1>2, <1>8 DEF SyncSettles, Owner, SyncMuHeld
<1>9. CASE SyncEnds(p)
  BY <1>2, <1>9 DEF SyncEnds, SyncReturns, Owner, SyncMuHeld, Holds
<1> QED
  BY <1>3, <1>4, <1>5, <1>6, <1>7, <1>8, <1>9

LEMMA OwnerClose ==
    ASSUME Owner, CloseBegins \/ LoopExits \/ CloseLocks \/ CloseFlushes \/ CloseEnds
    PROVE  Owner'
<1>1. CASE CloseBegins
  <2>1. /\ pc' \in [Procs -> Places] /\ pc'["closer"] = "stopping"
        /\ \A r \in Procs \ {"closer"} : pc'[r] = pc[r]
    BY <1>1, GotoPlace DEF Owner, CloseBegins, Procs, Places
  <2> QED
    BY <1>1, <2>1 DEF CloseBegins, Owner, PlacesOK, MuHeld, SyncMuHeld, ClosedAt, Procs,
       Syncers, Free
<1>2. CASE LoopExits
  <2>1. /\ pc' \in [Procs -> Places] /\ pc'["loop"] = "exited"
        /\ \A r \in Procs \ {"loop"} : pc'[r] = pc[r]
    BY <1>2, GotoPlace DEF Owner, LoopExits, Procs, Places, Syncers
  <2> QED
    BY <1>2, <2>1 DEF LoopExits, Owner, PlacesOK, MuHeld, SyncMuHeld, ClosedAt, Procs,
       Syncers, Free, latch
<1>3. CASE CloseLocks
  <2>1. /\ pc' \in [Procs -> Places] /\ pc'["closer"] = "closing"
        /\ \A r \in Procs \ {"closer"} : pc'[r] = pc[r]
    BY <1>3, GotoPlace DEF Owner, CloseLocks, Procs, Places
  <2> QED
    BY <1>3, <2>1 DEF CloseLocks, Owner, PlacesOK, MuHeld, SyncMuHeld, ClosedAt, Procs,
       Syncers, Free, latch
<1>4. CASE CloseFlushes
  <2>1. /\ pc' \in [Procs -> Places] /\ pc'["closer"] = "closeFlush"
        /\ \A r \in Procs \ {"closer"} : pc'[r] = pc[r]
    BY <1>4, GotoPlace DEF Owner, CloseFlushes, Procs, Places
  <2> QED
    BY <1>4, <2>1 DEF CloseFlushes, Owner, PlacesOK, MuHeld, SyncMuHeld, ClosedAt, Procs,
       Syncers, Free
<1>5. CASE CloseEnds
  <2>1. /\ pc' \in [Procs -> Places] /\ pc'["closer"] = "done"
        /\ \A r \in Procs \ {"closer"} : pc'[r] = pc[r]
    BY <1>5, GotoPlace DEF Owner, CloseEnds, Procs, Places
  <2> QED
    BY <1>5, <2>1 DEF CloseEnds, Closing, Holds, Owner, PlacesOK, MuHeld, SyncMuHeld,
       ClosedAt, Procs, Syncers, Free
<1> QED
  BY <1>1, <1>2, <1>3, <1>4, <1>5

LEMMA OwnerNext ==
    ASSUME Owner, [Next]_vars
    PROVE  Owner'
<1>1. CASE OpAppends
  <2>1. Begins \/ mu = "ops"
    BY <1>1 DEF OpAppends, Holds
  <2> QED
    BY <1>1, <2>1, OpenToOps, OwnerOps DEF OpAppends, FlushBegins, Done, latch
<1>2. CASE \E drained \in BOOLEAN : OpCycles(drained)
  BY <1>2, OpenToOps, OwnerOps DEF OpCycles, latch
<1>3. CASE OpCycleFails
  BY <1>3, OpenToOps, OwnerOps DEF OpCycleFails, Holds, Done
<1>4. CASE \E f \in Files : OpReads(f)
  <2>1. PICK f \in Files : OpReads(f)
    BY <1>4
  <2>2. CASE UNCHANGED <<pc, mu>>
    BY <2>1, <2>2, OwnerSame DEF OpReads, latch
  <2>3. CASE Goto("ops", "opened") /\ mu' = "ops"
    BY <2>1, <2>3, OpenToOps, OwnerOps DEF OpReads, latch
  <2> QED
    BY <2>1, <2>2, <2>3 DEF OpReads
<1>5. CASE OpReadEnds
  BY <1>5, OpenToOps, OwnerOps DEF OpReadEnds, Holds, Done, latch
<1>6. CASE \E f \in Files : \E full \in BOOLEAN : OpCommits(f, full)
  <2>1. PICK f \in Files, full \in BOOLEAN : OpCommits(f, full)
    BY <1>6
  <2>2. Begins \/ mu = "ops"
    BY <2>1 DEF OpCommits, Holds
  <2> QED
    BY <2>1, <2>2, OpenToOps, OwnerOps DEF OpCommits, FlushBegins, latch
<1>7. CASE OpReclaims
  BY <1>7, OpenToOps, OwnerOps DEF OpReclaims, Holds, Done, latch
<1>8. CASE FlushEnds
  <2>1. mu = "ops"
    BY <1>8 DEF FlushEnds, Flushing, Holds
  <2> QED
    BY <1>8, <2>1, OpenToOps, OwnerOps DEF FlushEnds, Done
<1>9. CASE FlushNext \/ Evict \/ CloseNext \/ (\E f \in Files : WritebackFails(f))
           \/ (\E p \in Syncers : SyncPrepares(p) \/ \E f \in Files : SyncFsyncs(p, f))
           \/ UNCHANGED vars
  BY <1>9, OwnerSame DEF FlushNext, Evict, CloseNext, WritebackFails, SyncPrepares,
     SyncFsyncs, vars, latch
<1>10. CASE CloseBegins \/ LoopExits \/ CloseLocks \/ CloseFlushes \/ CloseEnds
  BY <1>10, OwnerClose
<1>11. ASSUME NEW p \in Syncers,
              SyncCalled(p) \/ SyncLocks(p) \/ SyncRefused(p) \/ SyncLists(p)
              \/ SyncUnlocks(p) \/ SyncSettles(p) \/ SyncEnds(p)
       PROVE  Owner'
  <2>1. UNCHANGED <<closed, storeClosed>>
    BY <1>11 DEF SyncCalled, SyncLocks, SyncRefused, SyncLists, SyncUnlocks, SyncSettles,
       SyncEnds, latch
  <2> QED
    BY <1>11, <2>1, OwnerSync
<1> QED
  BY <1>1, <1>2, <1>3, <1>4, <1>5, <1>6, <1>7, <1>8, <1>9, <1>10, <1>11
     DEF Next, OpBegins, OpStep, CloseStep, SyncStep

LEMMA OwnerHolds == Spec => []Owner
  BY OwnerInit, OwnerNext, PTL DEF Spec

\* A circle of waiters has nobody in it who holds a mutex
LEMMA NoCircle ==
    ASSUME Owner
    PROVE  NoCircularWait
<1> SUFFICES ASSUME NEW S \in SUBSET Procs, S # {}
             PROVE  \E p \in S : WaitsOn(p) \notin S
  BY DEF NoCircularWait
<1>1. Free \notin S
  BY DEF Procs, Syncers, Free
<1>2. CASE "ops" \in S
  <2>1. WaitsOn("ops") = Free
    BY DEF WaitsOn, Owner, PlacesOK
  <2> QED
    BY <1>1, <1>2, <2>1
<1>3. CASE mu \in S
  <2>1. mu = "ops" \/ WaitsOn(mu) = Free
    BY <1>3 DEF WaitsOn, Owner, MuHeld, Procs, Syncers
  <2> QED
    BY <1>1, <1>2, <1>3, <2>1
<1>4. CASE mu \notin S /\ syncMu \in S
  <2>1. WaitsOn(syncMu) \in {mu, Free}
    BY <1>1, <1>4 DEF WaitsOn, Owner, SyncMuHeld, Procs, Syncers
  <2> QED
    BY <1>1, <1>4, <2>1
<1>5. CASE mu \notin S /\ syncMu \notin S
  <2>1. ASSUME NEW p \in Syncers PROVE WaitsOn(p) \in {mu, syncMu, Free}
    BY DEF WaitsOn, Syncers
  <2>2. WaitsOn("closer") \in {mu, syncMu, "loop", Free}
    BY DEF WaitsOn
  <2> QED
    BY <1>1, <1>2, <1>5, <2>1, <2>2 DEF Procs, Syncers
<1> QED
  BY <1>3, <1>4, <1>5

\* Nobody waits in a circle for a mutex or for the syncer to exit (syncOffLock, Close):
\* no deadlock among producers, consumers, Sync, the syncer and Close.
THEOREM NobodyWaitsInACircle == Spec => []NoCircularWait
  BY OwnerHolds, NoCircle, PTL

-----------------------------------------------------------------------------
(* Segments *)

LEMMA FileFacts == \A f \in Files : f \in Nat /\ 1 <= f /\ f <= MaxFile
  BY OffLockSyncAssumption DEF Files

LEMMA GreatestExists ==
    ASSUME NEW N \in Nat, NEW S, S # {}, S \subseteq 1 .. N
    PROVE  \E m \in S : \A j \in S : j <= m
<1> DEFINE T == {N - i : i \in S}
<1>1. T # {} /\ T \subseteq Nat
  <2>1. \A i \in S : N - i \in Nat
    OBVIOUS
  <2> QED
    BY <2>1
<1>2. PICK t \in T : \A u \in T : ~(<<u, t>> \in OpToRel(<, Nat))
  BY <1>1, WFMin, NatLessThanWellFounded
<1>3. PICK m \in S : t = N - m
  OBVIOUS
<1>4. ASSUME NEW j \in S PROVE j <= m
  <2>1. N - j \in T /\ N - j \in Nat /\ N - m \in Nat
    OBVIOUS
  <2>2. ~(N - j < N - m)
    BY <1>2, <1>3, <2>1 DEF OpToRel
  <2> QED
    BY <2>2
<1> QED
  BY <1>3, <1>4

Top(S) == CHOOSE f \in S : \A g \in S : g <= f

LEMMA TopIs ==
    ASSUME NEW S, S # {}, S \subseteq Files
    PROVE  Top(S) \in S /\ \A g \in S : g <= Top(S)
  BY GreatestExists, OffLockSyncAssumption DEF Files, Top

LEMMA TopUnique ==
    ASSUME NEW S, S \subseteq Files, NEW f \in S, \A g \in S : g <= f
    PROVE  Top(S) = f
<1>1. Top(S) \in S /\ \A g \in S : g <= Top(S)
  BY TopIs
<1>2. Top(S) <= f /\ f <= Top(S) /\ f \in Nat /\ Top(S) \in Nat
  BY <1>1, FileFacts
<1> QED
  BY <1>2

\* The active segment is the last, and the commit cursor is not past it
LiveInv ==
    /\ live \subseteq Files /\ live # {} /\ committed \in 0 .. MaxFile
    /\ committed < active

LEMMA ActiveIsLast ==
    ASSUME LiveInv
    PROVE  /\ active = Top(live) /\ active \in live /\ active \in Files
           /\ \A g \in live : g <= active
  BY TopIs DEF LiveInv, active, Top

LEMMA LiveInit == Init => LiveInv
<1> SUFFICES ASSUME Init PROVE LiveInv
  OBVIOUS
<1>1. live \subseteq Files /\ Found \in live /\ \A g \in live : g <= Found
  BY OffLockSyncAssumption DEF Init, Files
<1>2. active = Found
  BY <1>1, TopUnique DEF active, Top
<1> QED
  BY <1>1, <1>2, OffLockSyncAssumption DEF Init, LiveInv

LEMMA CycledLive ==
    ASSUME LiveInv, NEW drained \in BOOLEAN, OpCycles(drained)
    PROVE  /\ LiveInv' /\ active' = active + 1 /\ active + 1 \in Files /\ active + 1 \notin live
           /\ active + 1 \in live' /\ live' \subseteq live \union {active + 1}
           /\ pinned \intersect live \subseteq live'
<1> DEFINE f == active + 1
           upto == IF drained THEN active ELSE committed
<1>1. /\ f \in Files /\ f \notin live /\ \A g \in live : g <= f
  <2>1. active \in Nat /\ \A g \in live : g \in Nat /\ g <= active
    BY ActiveIsLast, FileFacts DEF LiveInv
  <2> QED
    BY <2>1 DEF OpCycles
<1>2. PICK stuck \in Stuck(Reclaimed(upto)) :
         live' = (live \ (Reclaimed(upto) \ stuck)) \union {f}
  BY DEF OpCycles
<1>3. /\ f \in live' /\ live' \subseteq live \union {f}
      /\ pinned \intersect live \subseteq live'
  BY <1>2 DEF Reclaimed
<1>4. live' \subseteq Files /\ \A g \in live' : g <= f
  BY <1>1, <1>3, OffLockSyncAssumption DEF LiveInv, Files
<1>5. active' = f
  BY <1>3, <1>4, TopUnique DEF active, Top
<1>6. committed' \in 0 .. MaxFile /\ committed' < f
  BY ActiveIsLast, OffLockSyncAssumption DEF OpCycles, LiveInv, Files
<1> QED
  BY <1>1, <1>3, <1>4, <1>5, <1>6 DEF LiveInv

LEMMA ReclaimedLive ==
    ASSUME LiveInv, OpReclaims
    PROVE  /\ LiveInv' /\ active' = active /\ live' \subseteq live
           /\ pinned \intersect live \subseteq live' /\ active \notin Reclaimed(committed)
<1>1. PICK stuck \in Stuck(Reclaimed(committed)) :
         live' = live \ (Reclaimed(committed) \ stuck)
  BY DEF OpReclaims
<1>2. active \notin Reclaimed(committed)
  BY ActiveIsLast, OffLockSyncAssumption DEF Reclaimed, LiveInv, Files
<1>3. live' \subseteq live /\ active \in live' /\ pinned \intersect live \subseteq live'
  BY <1>1, <1>2, ActiveIsLast DEF Reclaimed
<1>4. active' = active
  <2>1. live' \subseteq Files /\ \A g \in live' : g <= active
    BY <1>3, ActiveIsLast DEF LiveInv
  <2>2. Top(live') = active
    BY <1>3, <2>1, TopUnique
  <2> QED
    BY <2>2 DEF active, Top
<1> QED
  BY <1>2, <1>3, <1>4 DEF OpReclaims, LiveInv

\* The steps that change which segments there are, or write one
LEMMA SegSteps ==
    ASSUME [Next]_vars
    PROVE  \/ UNCHANGED <<live, committed, writeSeq, records>>
           \/ OpAppends \/ OpReclaims
           \/ \E drained \in BOOLEAN : OpCycles(drained)
           \/ \E f \in Files : \E full \in BOOLEAN : OpCommits(f, full)
<1>1. CASE OpCycleFails \/ OpReadEnds \/ FlushNext \/ FlushEnds \/ Evict
           \/ (\E f \in Files : OpReads(f))
           \/ (\E f \in Files : WritebackFails(f)) \/ UNCHANGED vars
  BY <1>1 DEF OpCycleFails, OpReadEnds, FlushNext, FlushEnds, Evict, OpReads,
     WritebackFails, vars, files
<1>2. CASE CloseBegins \/ CloseStep \/ LoopExits
  BY <1>2 DEF CloseBegins, CloseStep, LoopExits, CloseLocks, CloseFlushes, CloseNext,
     CloseEnds, files
<1>3. CASE \E p \in Syncers : SyncCalled(p) \/ SyncStep(p)
  BY <1>3 DEF SyncCalled, SyncStep, SyncLocks, SyncRefused, SyncLists, SyncPrepares,
     SyncUnlocks, SyncSettles, SyncEnds, SyncFsyncs, files
<1> QED
  BY <1>1, <1>2, <1>3 DEF Next, OpBegins, OpStep

LEMMA LiveNext ==
    ASSUME LiveInv, [Next]_vars
    PROVE  LiveInv'
<1>1. CASE UNCHANGED <<live, committed>>
  BY <1>1 DEF LiveInv, active
<1>2. CASE OpAppends
  BY <1>2 DEF OpAppends, LiveInv, active
<1>3. CASE \E f \in Files : \E full \in BOOLEAN : OpCommits(f, full)
  <2>1. PICK f \in Files, full \in BOOLEAN : OpCommits(f, full)
    BY <1>3
  <2>2. active' = active /\ live' = live
    BY <2>1 DEF OpCommits, active
  <2>3. full => f < active
    BY <2>1, ActiveIsLast, OffLockSyncAssumption DEF OpCommits, Files
  <2> QED
    BY <2>1, <2>2, <2>3, OffLockSyncAssumption DEF OpCommits, LiveInv, Files
<1> QED
  BY <1>1, <1>2, <1>3, SegSteps, CycledLive, ReclaimedLive

LEMMA LiveHolds == Spec => []LiveInv
  BY LiveInit, LiveNext, PTL DEF Spec

-----------------------------------------------------------------------------
(* Writes *)

WriteInv ==
    /\ writeSeq \in [Files -> 0 .. MaxWrites + 1] /\ records \subseteq Files \X Nth
    /\ \A w \in records : w[2] <= writeSeq[w[1]]
    /\ \A g \in Files : g > active => writeSeq[g] = 0

LEMMA FilesFinite == IsFiniteSet(Files) /\ IsFiniteSet(Nth) /\ IsFiniteSet(Files \X Nth)
<1>1. IsFiniteSet(1 .. MaxFile) /\ IsFiniteSet(1 .. MaxWrites + 1)
  BY FS_Interval, OffLockSyncAssumption
<1> QED
  BY <1>1, FS_Product DEF Files, Nth

LEMMA RoomLeft ==
    ASSUME WriteInv, Room, NEW f \in Files
    PROVE  writeSeq[f] + 1 \in Nth
<1> DEFINE W == {w \in Files \X Nth : w[2] <= writeSeq[w[1]] /\ (w[1] > Found => w[2] > 1)}
           V == {f} \X (2 .. writeSeq[f])
<1>1. writeSeq[f] \in 0 .. MaxWrites + 1 /\ MaxWrites \in Nat /\ MaxFile \in Nat
  BY OffLockSyncAssumption DEF WriteInv
<1>2. IsFiniteSet(W) /\ Cardinality(W) \in Nat
  BY FilesFinite, FS_Subset, FS_CardinalityType
<1>3. V \subseteq W
  BY <1>1, OffLockSyncAssumption DEF Nth, Files
<1>4. CASE writeSeq[f] < 2
  <2>1. Cardinality(W) < MaxWrites
    BY DEF Room
  <2> QED
    BY <1>1, <1>2, <1>4, <2>1 DEF Nth
<1>5. CASE writeSeq[f] >= 2
  <2>1. IsFiniteSet({f}) /\ Cardinality({f}) = 1
    BY FS_Singleton
  <2>2. IsFiniteSet(2 .. writeSeq[f]) /\ Cardinality(2 .. writeSeq[f]) = writeSeq[f] - 1
    BY <1>1, <1>5, FS_Interval
  <2>3. Cardinality(V) = writeSeq[f] - 1
    <3>1. Cardinality(V) = Cardinality({f}) * Cardinality(2 .. writeSeq[f])
      BY <2>1, <2>2, FS_Product
    <3> QED
      BY <1>1, <2>1, <2>2, <3>1
  <2>4. Cardinality(V) <= Cardinality(W)
    BY <1>2, <1>3, FS_Subset
  <2>5. Cardinality(W) < MaxWrites
    BY DEF Room
  <2> QED
    BY <1>1, <1>2, <1>5, <2>3, <2>4, <2>5 DEF Nth
<1> QED
  BY <1>1, <1>4, <1>5

LEMMA WriteInit == Init => WriteInv
  BY OffLockSyncAssumption DEF Init, WriteInv

LEMMA Wrote ==
    ASSUME LiveInv, WriteInv, NEW f \in live, NEW isRecord \in BOOLEAN, Writes(f,
           isRecord),
           UNCHANGED live
    PROVE  /\ WriteInv' /\ writeSeq'[f] = writeSeq[f] + 1
           /\ \A g \in Files \ {f} : writeSeq'[g] = writeSeq[g]
           /\ \A g \in Files : writeSeq'[g] >= writeSeq[g]
           /\ records' \subseteq records \union {<<f, writeSeq[f] + 1>>}
           /\ ~isRecord => records' = records
<1>1. f \in Files /\ writeSeq[f] + 1 \in Nth /\ MaxWrites \in Nat
  BY RoomLeft, OffLockSyncAssumption DEF LiveInv, Writes
<1>2. /\ writeSeq' \in [Files -> 0 .. MaxWrites + 1] /\ writeSeq'[f] = writeSeq[f] + 1
      /\ \A g \in Files \ {f} : writeSeq'[g] = writeSeq[g]
  BY <1>1 DEF Writes, WriteInv, Nth
<1>3. \A g \in Files : writeSeq'[g] >= writeSeq[g]
  BY <1>1, <1>2 DEF WriteInv
<1>4. /\ records' \subseteq records \union {<<f, writeSeq[f] + 1>>}
      /\ ~isRecord => records' = records
  BY <1>2 DEF Writes
<1>5. records' \subseteq Files \X Nth
  BY <1>1, <1>4 DEF WriteInv
<1>6. ASSUME NEW w \in records' PROVE w[2] <= writeSeq'[w[1]]
  <2>1. CASE w = <<f, writeSeq[f] + 1>>
    BY <1>1, <1>2, <2>1 DEF Nth
  <2>2. CASE w \in records
    <3>1. w[1] \in Files /\ w[2] \in Nat /\ w[2] <= writeSeq[w[1]]
      BY <2>2, OffLockSyncAssumption DEF WriteInv, Nth
    <3>2. writeSeq[w[1]] \in Nat /\ writeSeq'[w[1]] \in Nat
      BY <1>1, <1>2, <3>1 DEF WriteInv
    <3> QED
      BY <1>3, <3>1, <3>2
  <2> QED
    BY <1>4, <2>1, <2>2
<1>7. ASSUME NEW g \in Files, g > active' PROVE writeSeq'[g] = 0
  <2>1. active' = active
    BY DEF active
  <2>2. f <= active /\ f \in Nat /\ active \in Nat /\ g \in Nat
    BY ActiveIsLast, FileFacts DEF LiveInv
  <2> QED
    BY <1>2, <1>7, <2>1, <2>2 DEF WriteInv
<1> QED
  BY <1>2, <1>3, <1>4, <1>5, <1>6, <1>7 DEF WriteInv

LEMMA Appended ==
    ASSUME LiveInv, OpAppends
    PROVE  active \in live /\ Writes(active, TRUE) /\ UNCHANGED live /\ TRUE \in BOOLEAN
  BY ActiveIsLast DEF OpAppends

LEMMA CycledWrites ==
    ASSUME LiveInv, WriteInv, NEW drained \in BOOLEAN, OpCycles(drained)
    PROVE  /\ WriteInv' /\ writeSeq'[active + 1] = 1 /\ writeSeq[active + 1] = 0
           /\ \A g \in Files \ {active + 1} : writeSeq'[g] = writeSeq[g]
           /\ UNCHANGED records
<1>1. /\ active' = active + 1 /\ active + 1 \in Files /\ active \in Nat
      /\ MaxWrites \in Nat
  BY CycledLive, ActiveIsLast, FileFacts, OffLockSyncAssumption
<1>2. writeSeq' = [writeSeq EXCEPT ![active + 1] = 1] /\ UNCHANGED records
  BY DEF OpCycles
<1>3. writeSeq[active + 1] = 0
  BY <1>1 DEF WriteInv
<1>4. /\ writeSeq' \in [Files -> 0 .. MaxWrites + 1] /\ writeSeq'[active + 1] = 1
      /\ \A g \in Files \ {active + 1} : writeSeq'[g] = writeSeq[g]
  BY <1>1, <1>2 DEF WriteInv
<1>5. ASSUME NEW w \in records PROVE w[2] <= writeSeq'[w[1]]
  <2>1. w[1] \in Files /\ w[2] \in Nat /\ w[2] >= 1 /\ w[2] <= writeSeq[w[1]]
    BY <1>5, OffLockSyncAssumption DEF WriteInv, Nth
  <2>2. w[1] # active + 1
    BY <1>3, <2>1
  <2> QED
    BY <1>4, <2>1, <2>2
<1>6. ASSUME NEW g \in Files, g > active + 1 PROVE writeSeq'[g] = 0
  <2>1. g \in Nat /\ g > active /\ g # active + 1
    BY <1>1, <1>6, FileFacts
  <2> QED
    BY <1>4, <2>1 DEF WriteInv
<1> QED
  BY <1>1, <1>2, <1>3, <1>4, <1>5, <1>6 DEF WriteInv

LEMMA WriteNext ==
    ASSUME LiveInv, WriteInv, [Next]_vars
    PROVE  /\ WriteInv'
           /\ \A g \in Files : writeSeq'[g] >= writeSeq[g]
<1>0. \A g \in Files : writeSeq[g] \in Nat
  BY OffLockSyncAssumption DEF WriteInv
<1>1. CASE UNCHANGED <<live, committed, writeSeq, records>>
  BY <1>0, <1>1 DEF WriteInv, active
<1>2. CASE OpAppends
  BY <1>2, Appended, Wrote
<1>3. CASE \E f \in Files : \E full \in BOOLEAN : OpCommits(f, full)
  <2>1. PICK f \in Files, full \in BOOLEAN : OpCommits(f, full)
    BY <1>3
  <2>2. f \in live /\ Writes(f, FALSE) /\ UNCHANGED live /\ FALSE \in BOOLEAN
    BY <2>1 DEF OpCommits
  <2> QED
    BY <2>2, Wrote
<1>4. CASE \E drained \in BOOLEAN : OpCycles(drained)
  BY <1>0, <1>4, CycledWrites
<1>5. CASE OpReclaims
  <2>1. active' = active /\ UNCHANGED <<writeSeq, records>>
    BY <1>5, ReclaimedLive DEF OpReclaims
  <2> QED
    BY <1>0, <2>1 DEF WriteInv
<1> QED
  BY <1>1, <1>2, <1>3, <1>4, <1>5, SegSteps

-----------------------------------------------------------------------------
(* What is dirty, what is pinned and what is durable *)

\* The steps that fsync a segment, or that lose one's pages
LEMMA KernelSteps ==
    ASSUME [Next]_vars
    PROVE  \/ UNCHANGED kernel
           \/ \E f \in Files : WritebackFails(f)
           \/ \E f \in dirty : FsyncOk(f, writeSeq[f]) /\ UNCHANGED <<live, target>>
           \/ \E f \in dirty : FsyncFails(f) /\ ioErr' = TRUE /\ UNCHANGED <<live,
                                                                             target>>
           \/ \E p \in Syncers, f \in Files : SyncFsyncs(p, f)
           \/ \E drained \in BOOLEAN : OpCycles(drained)
<1>1. CASE OpAppends \/ OpReclaims \/ OpCycleFails \/ OpReadEnds \/ FlushEnds
           \/ (\E f \in Files : OpReads(f) \/ \E full \in BOOLEAN : OpCommits(f, full))
           \/ UNCHANGED vars
  BY <1>1 DEF OpAppends, OpReclaims, OpCycleFails, OpReadEnds, FlushEnds, OpReads,
              OpCommits,
     vars
<1>2. CASE CloseBegins \/ LoopExits \/ CloseLocks \/ CloseFlushes \/ CloseEnds
  BY <1>2 DEF CloseBegins, LoopExits, CloseLocks, CloseFlushes, CloseEnds
<1>3. CASE \E p \in Syncers : SyncCalled(p) \/ SyncLocks(p) \/ SyncRefused(p) \/ SyncLists(p)
              \/ SyncPrepares(p) \/ SyncUnlocks(p) \/ SyncSettles(p) \/ SyncEnds(p)
  BY <1>3 DEF SyncCalled, SyncLocks, SyncRefused, SyncLists, SyncPrepares,
     SyncUnlocks, SyncSettles, SyncEnds
<1>4. CASE Evict \/ FlushNext
  BY <1>4 DEF Evict, FlushNext, FlushOpen, sync
<1>5. CASE CloseNext
  BY <1>5 DEF CloseNext, sync
<1> QED
  BY <1>1, <1>2, <1>3, <1>4, <1>5 DEF Next, OpBegins, OpStep, CloseStep, SyncStep

\* The steps that make a segment dirty
LEMMA DirtySteps ==
    ASSUME [Next]_vars
    PROVE  \/ dirty' \subseteq dirty
           \/ OpAppends
           \/ \E f \in Files : \E full \in BOOLEAN : OpCommits(f, full)
           \/ \E drained \in BOOLEAN : OpCycles(drained)
<1>1. CASE OpReclaims \/ OpCycleFails \/ OpReadEnds \/ FlushEnds
           \/ (\E f \in Files : OpReads(f) \/ WritebackFails(f)) \/ UNCHANGED vars
  BY <1>1 DEF OpReclaims, OpCycleFails, OpReadEnds, FlushEnds, OpReads, WritebackFails,
     vars, files
<1>2. CASE CloseBegins \/ LoopExits \/ CloseLocks \/ CloseFlushes \/ CloseEnds \/ CloseNext
  BY <1>2 DEF CloseBegins, LoopExits, CloseLocks, CloseFlushes, CloseEnds, CloseNext,
              files
<1>3. CASE \E p \in Syncers : SyncCalled(p) \/ SyncStep(p)
  BY <1>3 DEF SyncCalled, SyncStep, SyncLocks, SyncRefused, SyncLists, SyncPrepares,
     SyncUnlocks, SyncSettles, SyncEnds, SyncFsyncs, files
<1>4. CASE Evict \/ FlushNext
  BY <1>4 DEF Evict, FlushNext, FlushOpen
<1> QED
  BY <1>1, <1>2, <1>3, <1>4 DEF Next, OpBegins, OpStep, CloseStep

\* The steps of flushChunk that pin, record a verdict or unpin
LEMMA TargetSteps ==
    ASSUME [Next]_vars
    PROVE  \/ UNCHANGED target
           \/ \E p \in Syncers : SyncPrepares(p) \/ SyncSettles(p)
           \/ \E p \in Syncers, f \in Files : SyncFsyncs(p, f)
<1>1. CASE OpBegins \/ OpStep \/ Evict \/ (\E f \in Files : WritebackFails(f))
           \/ UNCHANGED vars
  BY <1>1 DEF OpBegins, OpStep, OpAppends, OpCycles, OpReads, OpCommits, OpReclaims,
     OpCycleFails, OpReadEnds, FlushNext, FlushEnds, Evict, WritebackFails, vars, sync
<1>2. CASE CloseBegins \/ LoopExits \/ CloseStep
  BY <1>2 DEF CloseBegins, LoopExits, CloseStep, CloseLocks, CloseFlushes, CloseEnds,
     CloseNext, sync
<1>3. CASE \E p \in Syncers : SyncCalled(p) \/ SyncLocks(p) \/ SyncRefused(p) \/ SyncLists(p)
              \/ SyncUnlocks(p) \/ SyncEnds(p)
  BY <1>3 DEF SyncCalled, SyncLocks, SyncRefused, SyncLists, SyncUnlocks, SyncEnds, sync
<1> QED
  BY <1>1, <1>2, <1>3 DEF Next, SyncStep

DirtyInv == dirty \subseteq Files /\ \A g \in dirty : g <= active

KernelInv ==
    /\ durable \in [Files -> 0 .. MaxWrites + 1]
    /\ dropped \subseteq Files /\ wberr \subseteq dropped
    /\ \A g \in Files : g > active => durable[g] = 0
    /\ \A g \in dropped : g <= active

\* A pin is on a segment that is there, whatever is reclaimed meanwhile
PinInv ==
    /\ pinned \subseteq live
    /\ \A f \in pinned : /\ target[f] \in [seq : 0 .. MaxWrites + 1, res : Verdicts]
                         /\ target[f].seq <= writeSeq[f]

SegInv == LiveInv /\ WriteInv /\ DirtyInv /\ KernelInv /\ PinInv

LEMMA ActiveGrows ==
    ASSUME LiveInv, [Next]_vars
    PROVE  /\ active \in Nat /\ active' \in Nat /\ active <= active'
           /\ \/ \E drained \in BOOLEAN : OpCycles(drained)
              \/ active' = active /\ live' \subseteq live
           /\ pinned \intersect live \subseteq live'
<1>1. active \in Nat
  BY ActiveIsLast, FileFacts
<1>2. CASE UNCHANGED live
  BY <1>1, <1>2 DEF active
<1>3. CASE \E drained \in BOOLEAN : OpCycles(drained)
  BY <1>1, <1>3, CycledLive
<1>4. CASE OpReclaims
  BY <1>1, <1>4, ReclaimedLive
<1>5. CASE OpAppends \/ \E f \in Files : \E full \in BOOLEAN : OpCommits(f, full)
  BY <1>2, <1>5 DEF OpAppends, OpCommits
<1> QED
  BY <1>2, <1>3, <1>4, <1>5, SegSteps

LEMMA DirtyNext ==
    ASSUME LiveInv, DirtyInv, [Next]_vars
    PROVE  DirtyInv'
<1>0. active \in Nat /\ active' \in Nat /\ active <= active' /\ \A g \in Files : g \in Nat
  BY ActiveGrows, FileFacts
<1>1. CASE dirty' \subseteq dirty
  BY <1>0, <1>1 DEF DirtyInv
<1>2. ASSUME NEW f \in live, dirty' = dirty \union {f} PROVE DirtyInv'
  <2>1. f <= active /\ f \in Files
    BY ActiveIsLast DEF LiveInv
  <2> QED
    BY <1>0, <1>2, <2>1 DEF DirtyInv
<1>3. CASE OpAppends \/ \E f \in Files : \E full \in BOOLEAN : OpCommits(f, full)
  <2>1. PICK f \in live : dirty' = dirty \union {f}
    BY <1>3, Appended DEF OpCommits, Writes
  <2> QED
    BY <1>2, <2>1
<1>4. CASE \E drained \in BOOLEAN : OpCycles(drained)
  <2>1. dirty' \subseteq dirty \union {active + 1} /\ active' = active + 1 /\ active + 1 \in Files
    BY <1>4, CycledLive DEF OpCycles
  <2> QED
    BY <1>0, <2>1 DEF DirtyInv
<1> QED
  BY <1>1, <1>3, <1>4, DirtySteps

LEMMA FsyncedKernel ==
    ASSUME KernelInv, NEW f \in Files, f <= active, NEW n \in 0 .. MaxWrites + 1,
           FsyncOk(f, n),
           active' = active, active \in Nat
    PROVE  /\ KernelInv' /\ \A g \in Files : durable'[g] >= durable[g]
           /\ f \notin dropped => durable'[f] >= n
<1>1. /\ durable' = [durable EXCEPT ![f] = IF f \in dropped \/ durable[f] > n
                                           THEN durable[f] ELSE n]
      /\ UNCHANGED <<dropped, wberr>>
  BY DEF FsyncOk
<1>2. \A g \in Files : durable[g] \in 0 .. MaxWrites + 1 /\ g \in Nat
  BY FileFacts DEF KernelInv
<1>3. \A g \in Files : durable'[g] >= durable[g]
  BY <1>1, <1>2, OffLockSyncAssumption DEF KernelInv
<1>4. f \notin dropped => durable'[f] >= n
  BY <1>1, <1>2, OffLockSyncAssumption DEF KernelInv
<1>5. KernelInv'
  BY <1>1, <1>2 DEF KernelInv
<1> QED
  BY <1>3, <1>4, <1>5

LEMMA KernelNext ==
    ASSUME SegInv, [Next]_vars
    PROVE  /\ KernelInv' /\ \A g \in Files : durable'[g] >= durable[g]
<1>0. /\ active \in Nat /\ active' \in Nat /\ active <= active'
      /\ \A g \in Files : g \in Nat /\ durable[g] \in Nat /\ writeSeq[g] \in 0 .. MaxWrites + 1
      /\ \A g \in live : g <= active /\ g \in Files
  BY ActiveGrows, ActiveIsLast, FileFacts, OffLockSyncAssumption
     DEF SegInv, LiveInv, WriteInv, KernelInv
<1>1. CASE UNCHANGED kernel
  BY <1>0, <1>1 DEF SegInv, KernelInv, kernel
<1>2. CASE \E f \in Files : WritebackFails(f)
  <2>1. PICK f \in Files : WritebackFails(f)
    BY <1>2
  <2>2. active' = active
    BY <2>1 DEF WritebackFails, active, files
  <2> QED
    BY <1>0, <2>1, <2>2 DEF SegInv, KernelInv, WritebackFails
<1>3. CASE \E f \in dirty : FsyncOk(f, writeSeq[f]) /\ UNCHANGED <<live, target>>
  <2>1. PICK f \in dirty : FsyncOk(f, writeSeq[f]) /\ UNCHANGED live
    BY <1>3
  <2>2. f \in Files /\ f <= active /\ active' = active
    BY <2>1 DEF SegInv, DirtyInv, active
  <2> QED
    BY <1>0, <2>1, <2>2, FsyncedKernel DEF SegInv
<1>4. CASE \E f \in dirty : FsyncFails(f) /\ ioErr' = TRUE /\ UNCHANGED <<live, target>>
  BY <1>0, <1>4 DEF FsyncFails, SegInv, KernelInv
<1>5. CASE \E p \in Syncers, f \in Files : SyncFsyncs(p, f)
  <2>1. PICK p \in Syncers, f \in Files : SyncFsyncs(p, f)
    BY <1>5
  <2>2. f \in pinned /\ active' = active
    BY <2>1 DEF SyncFsyncs, active, files
  <2>3. f <= active /\ target[f].seq \in 0 .. MaxWrites + 1
    BY <1>0, <2>2 DEF SegInv, PinInv
  <2>4. CASE FsyncOk(f, target[f].seq)
    BY <1>0, <2>2, <2>3, <2>4, FsyncedKernel DEF SegInv
  <2>5. CASE FsyncFails(f)
    BY <1>0, <2>2, <2>5 DEF FsyncFails, SegInv, KernelInv
  <2> QED
    BY <2>1, <2>4, <2>5 DEF SyncFsyncs
<1>6. CASE \E drained \in BOOLEAN : OpCycles(drained)
  <2>1. active' = active + 1 /\ active + 1 \in Files
    BY <1>6, CycledLive DEF SegInv
  <2>2. durable' = durable \/ durable' = [durable EXCEPT ![active + 1] = 1]
    BY <1>6 DEF OpCycles
  <2>3. UNCHANGED <<dropped, wberr>>
    BY <1>6 DEF OpCycles
  <2>4. durable[active + 1] = 0 /\ 1 \in 0 .. MaxWrites + 1
    BY <1>0, <2>1, OffLockSyncAssumption DEF SegInv, KernelInv
  <2> QED
    BY <1>0, <2>1, <2>2, <2>3, <2>4 DEF SegInv, KernelInv
<1> QED
  BY <1>1, <1>2, <1>3, <1>4, <1>5, <1>6, KernelSteps

LEMMA PinNext ==
    ASSUME SegInv, [Next]_vars
    PROVE  PinInv'
<1>0. /\ \A g \in Files : /\ writeSeq[g] \in 0 .. MaxWrites + 1 /\ writeSeq'[g] \in 0 .. MaxWrites + 1
                          /\ writeSeq'[g] >= writeSeq[g]
      /\ live \subseteq Files /\ pinned \intersect live \subseteq live'
      /\ MaxWrites \in Nat
  BY WriteNext, ActiveGrows, OffLockSyncAssumption DEF SegInv, LiveInv, WriteInv
<1>1. CASE UNCHANGED target
  BY <1>0, <1>1 DEF SegInv, PinInv, pinned
<1>2. CASE \E p \in Syncers : SyncPrepares(p)
  <2>1. PICK p \in Syncers : SyncPrepares(p)
    BY <1>2
  <2>2. UNCHANGED <<live, writeSeq>>
    BY <2>1 DEF SyncPrepares
  <2>3. ASSUME NEW f \in live, Pin(f) PROVE PinInv'
    <3>1. /\ pinned' = pinned \union {f}
          /\ target'[f] = [seq |-> writeSeq[f], res |-> "run"]
          /\ \A g \in pinned \ {f} : target'[g] = target[g]
      BY <2>3 DEF Pin, pinned
    <3> QED
      BY <1>0, <2>2, <2>3, <3>1 DEF SegInv, PinInv, Verdicts
  <2> QED
    BY <1>1, <2>1, <2>3 DEF SyncPrepares
<1>3. CASE \E p \in Syncers : SyncSettles(p)
  BY <1>3 DEF SyncSettles, Unpinned, PinInv, pinned
<1>4. CASE \E p \in Syncers, f \in Files : SyncFsyncs(p, f)
  <2>1. PICK p \in Syncers, f \in Files : SyncFsyncs(p, f)
    BY <1>4
  <2>2. PICK r \in {"ok", "err"} : target' = [target EXCEPT ![f].res = r]
    BY <2>1 DEF SyncFsyncs
  <2>3. pinned' = pinned
    BY <2>2 DEF pinned
  <2>4. \A g \in pinned : /\ target'[g] \in [seq : 0 .. MaxWrites + 1, res : Verdicts]
                          /\ target'[g].seq = target[g].seq
    BY <2>2 DEF SegInv, PinInv, pinned, Verdicts
  <2> QED
    BY <1>0, <2>1, <2>3, <2>4 DEF SegInv, PinInv, SyncFsyncs, files
<1> QED
  BY <1>1, <1>2, <1>3, <1>4, TargetSteps

LEMMA SegInit == Init => SegInv
<1> SUFFICES ASSUME Init PROVE SegInv
  OBVIOUS
<1>1. DirtyInv /\ KernelInv /\ PinInv
  BY OffLockSyncAssumption DEF Init, DirtyInv, KernelInv, PinInv, pinned, Unpinned
<1> QED
  BY <1>1, LiveInit, WriteInit DEF SegInv

LEMMA SegNext ==
    ASSUME SegInv, [Next]_vars
    PROVE  SegInv'
  BY LiveNext, WriteNext, DirtyNext, KernelNext, PinNext DEF SegInv

-----------------------------------------------------------------------------
(* The Sync that is running *)

Running(p) == pc[p] \in {"prepare", "fsync", "finish"}

\* A step that leaves the running Sync as it is
Elsewhere == UNCHANGED sync /\ \A p \in Syncers : pc'[p] = pc[p] \/ ~(Running(p) \/ Running(p)')

LEMMA SyncSteps ==
    ASSUME Owner, [Next]_vars
    PROVE  \/ Elsewhere
           \/ \E p \in Syncers : \/ SyncRefused(p) \/ SyncLists(p) \/ SyncPrepares(p)
                                 \/ SyncUnlocks(p) \/ SyncSettles(p) \/ SyncEnds(p)
                                 \/ \E f \in Files : SyncFsyncs(p, f)
<1>1. ASSUME NEW r \in Procs, NEW q \in Places, Goto(r, q), r \in {"ops", "closer"},
             UNCHANGED sync
      PROVE  Elsewhere
  <2>1. \A p \in Syncers : p \in Procs \ {r}
    BY <1>1 DEF Syncers, Procs
  <2> QED
    BY <1>1, <2>1, GotoPlace DEF Elsewhere, Owner
<1>2. ASSUME UNCHANGED <<pc, sync>> PROVE Elsewhere
  BY <1>2 DEF Elsewhere
<1>3. ASSUME NEW p \in Syncers, NEW q \in {"wait", "enter", "exited"}, Goto(p, q),
             ~Running(p), UNCHANGED sync
      PROVE  Elsewhere
  <2>1. p \in Procs /\ q \in Places /\ \A r \in Syncers : r = p \/ r \in Procs \ {p}
    BY DEF Syncers, Procs, Places
  <2>2. pc'[p] = q /\ \A r \in Procs \ {p} : pc'[r] = pc[r]
    BY <1>3, <2>1, GotoPlace DEF Owner
  <2> QED
    BY <1>3, <2>1, <2>2 DEF Elsewhere, Running
<1>4. /\ {"ops", "closer"} \subseteq Procs
      /\ {"idle", "opened", "cycled", "flush", "commitFlush", "reclaim", "stopping", "closing",
          "closeFlush", "done"} \subseteq Places
  BY DEF Procs, Places
<1>5. CASE OpAppends \/ OpReclaims \/ OpCycleFails \/ OpReadEnds \/ FlushEnds
  <2>1. UNCHANGED sync
    BY <1>5 DEF OpAppends, OpReclaims, OpCycleFails, OpReadEnds, FlushEnds
  <2>2. \E q \in {"idle", "flush", "reclaim"} : Goto("ops", q)
    BY <1>5 DEF OpAppends, FlushBegins, OpReclaims, OpCycleFails, OpReadEnds, FlushEnds,
                Done
  <2> QED
    BY <1>1, <1>4, <2>1, <2>2
<1>6. CASE (\E f \in Files : OpReads(f) \/ \E full \in BOOLEAN : OpCommits(f, full))
           \/ \E drained \in BOOLEAN : OpCycles(drained)
  <2>1. UNCHANGED sync
    BY <1>6 DEF OpReads, OpCommits, OpCycles
  <2>2. UNCHANGED pc \/ \E q \in {"opened", "cycled", "commitFlush", "reclaim"} : Goto("ops", q)
    BY <1>6 DEF OpReads, OpCommits, FlushBegins, OpCycles
  <2> QED
    BY <1>1, <1>2, <1>4, <2>1, <2>2
<1>7. CASE FlushNext \/ Evict \/ CloseNext \/ (\E f \in Files : WritebackFails(f))
           \/ UNCHANGED vars
  BY <1>2, <1>7 DEF FlushNext, Evict, CloseNext, WritebackFails, vars
<1>8. CASE CloseBegins \/ CloseLocks \/ CloseFlushes \/ CloseEnds
  <2>1. UNCHANGED sync
    BY <1>8 DEF CloseBegins, CloseLocks, CloseFlushes, CloseEnds
  <2>2. \E q \in {"stopping", "closing", "closeFlush", "done"} : Goto("closer", q)
    BY <1>8 DEF CloseBegins, CloseLocks, CloseFlushes, CloseEnds
  <2> QED
    BY <1>1, <1>4, <2>1, <2>2
<1>9. CASE LoopExits \/ \E p \in Syncers : SyncCalled(p) \/ SyncLocks(p)
  BY <1>3, <1>9 DEF LoopExits, SyncCalled, SyncLocks, Running, Syncers
<1> QED
  BY <1>5, <1>6, <1>7, <1>8, <1>9 DEF Next, OpBegins, OpStep, CloseStep, SyncStep

\* What p's own steps do to the others: nothing
LEMMA OwnStep ==
    ASSUME Owner, NEW p \in Syncers, NEW q \in Places, Goto(p, q)
    PROVE  pc'[p] = q /\ \A r \in Syncers \ {p} : pc'[r] = pc[r]
<1>1. p \in Procs /\ \A r \in Syncers \ {p} : r \in Procs \ {p}
  BY DEF Syncers, Procs
<1> QED
  BY <1>1, GotoPlace DEF Owner

\* There is at most one
LEMMA OneRuns ==
    ASSUME Owner, NEW p \in Syncers, pc[p] = "enter" \/ Running(p)
    PROVE  \A r \in Syncers \ {p} : ~Running(r)
  BY DEF Owner, SyncMuHeld, Running

\* It alone pins, and the store is not closed under it
SessionInv ==
    /\ todo \subseteq Files
    /\ pinned # {} \/ todo # {} => \E p \in Syncers : pc[p] \in {"prepare", "fsync"}
    /\ storeClosed => \A p \in Syncers : ~Running(p)

LEMMA SessionInit == Init => SessionInv
  BY DEF Init, SessionInv, pinned, Unpinned

LEMMA SessionNext ==
    ASSUME Owner, SegInv, SessionInv, [Next]_vars
    PROVE  SessionInv'
<1>1. todo' \subseteq Files
  <2>1. CASE Elsewhere
    BY <2>1 DEF Elsewhere, sync, SessionInv
  <2> QED
    BY <2>1, SyncSteps DEF SyncRefused, SyncLists, SyncPrepares, SyncUnlocks, SyncSettles,
       SyncEnds, SyncFsyncs, sync, SessionInv, SegInv, LiveInv
<1>2. ASSUME storeClosed', NEW p \in Syncers PROVE ~Running(p)'
  <2>1. CASE storeClosed
    <3>1. closed /\ ~Running(p)
      BY <2>1 DEF Owner, ClosedAt, SessionInv
    <3>2. CASE Elsewhere
      BY <3>1, <3>2 DEF Elsewhere, Running
    <3>3. CASE \E r \in Syncers : SyncRefused(r)
      BY <3>1, <3>3, OwnStep DEF SyncRefused, SyncReturns, Running, Places
    <3> QED
      BY <2>1, <3>1, <3>2, <3>3, SyncSteps DEF SyncLists, SyncPrepares, SyncUnlocks,
                                               SyncSettles,
         SyncEnds, SyncFsyncs, SessionInv, Running
  <2>2. CASE ~storeClosed
    <3>1. CloseFlushes
      BY <1>2, <2>2 DEF Next, OpBegins, OpStep, CloseStep, SyncStep, OpAppends, OpCycles,
                        OpReads,
         OpCommits, OpReclaims, OpCycleFails, OpReadEnds, FlushNext, FlushEnds, Evict,
         WritebackFails, CloseBegins, LoopExits, CloseLocks, CloseNext, CloseEnds,
         SyncCalled,
         SyncLocks, SyncRefused, SyncLists, SyncPrepares, SyncUnlocks, SyncSettles,
         SyncEnds,
         SyncFsyncs, vars, latch
    <3>2. ~Running(p)
      BY <3>1 DEF CloseFlushes, Owner, SyncMuHeld, Running, Syncers
    <3>3. pc'[p] = pc[p]
      BY <3>1, GotoPlace DEF CloseFlushes, Owner, Procs, Places, Syncers
    <3> QED
      BY <3>2, <3>3 DEF Running
  <2> QED
    BY <2>1, <2>2
<1>3. ASSUME pinned' # {} \/ todo' # {}
      PROVE  (\E p \in Syncers : pc[p] \in {"prepare", "fsync"})'
  <2>1. CASE Elsewhere
    <3>1. UNCHANGED <<pinned, todo>>
      BY <2>1 DEF Elsewhere, sync, pinned
    <3>2. PICK p \in Syncers : pc[p] \in {"prepare", "fsync"}
      BY <1>3, <3>1 DEF SessionInv
    <3> QED
      BY <2>1, <3>2 DEF Elsewhere, Running
  <2>2. ASSUME NEW p \in Syncers, SyncRefused(p) \/ SyncEnds(p) PROVE FALSE
    <3>1. UNCHANGED <<pinned, todo>>
      BY <2>2 DEF SyncRefused, SyncEnds, pinned
    <3>2. pc[p] \in {"enter", "finish"}
      BY <2>2 DEF SyncRefused, SyncEnds
    <3>3. \A r \in Syncers : pc[r] \notin {"prepare", "fsync"}
      BY <3>2, OneRuns DEF Running
    <3> QED
      BY <1>3, <3>1, <3>3 DEF SessionInv
  <2>3. ASSUME NEW p \in Syncers, SyncLists(p) \/ SyncSettles(p)
        PROVE  pc'[p] \in {"prepare", "fsync"}
    <3>1. Goto(p, IF todo' = {} THEN "finish" ELSE "prepare")
      BY <2>3 DEF SyncLists, SyncSettles
    <3>2. todo' # {}
      <4>1. CASE SyncLists(p)
        <5>1. \A r \in Syncers : pc[r] \notin {"prepare", "fsync"}
          BY <4>1, OneRuns DEF SyncLists, Running
        <5>2. pinned' = {}
          BY <4>1, <5>1 DEF SyncLists, SessionInv, pinned
        <5> QED
          BY <1>3, <5>2
      <4>2. CASE SyncSettles(p)
        BY <1>3, <4>2 DEF SyncSettles, pinned, Unpinned
      <4> QED
        BY <2>3, <4>1, <4>2
    <3> QED
      BY <3>1, <3>2, OwnStep DEF Places
  <2>4. ASSUME NEW p \in Syncers, SyncUnlocks(p) \/ SyncPrepares(p)
                                  \/ \E f \in Files : SyncFsyncs(p, f)
        PROVE  pc'[p] \in {"prepare", "fsync"}
    BY <2>4, OwnStep DEF SyncUnlocks, SyncPrepares, SyncFsyncs, Places
  <2> QED
    BY <2>1, <2>2, <2>3, <2>4, SyncSteps
<1> QED
  BY <1>1, <1>2, <1>3 DEF SessionInv

-----------------------------------------------------------------------------
(* Handles *)

\* The active segment and the pinned ones keep theirs; an eviction in progress has
\* the mutex
HandleInv ==
    /\ ListType /\ keep \in Files \union {NoFile}
    /\ mu = Free => keep = NoFile
    /\ active \in open \/ storeClosed
    /\ pinned \subseteq open /\ \A g \in open : g <= active

BaseInv == Owner /\ SegInv /\ SessionInv /\ HandleInv

\* The steps that touch the list
LEMMA ListSteps ==
    ASSUME BaseInv, [Next]_vars
    PROVE  \/ UNCHANGED <<open, newer, keep>>
           \/ \E f \in open : Touches(f) /\ UNCHANGED <<open, keep>>
           \/ \E f \in Files \ open : /\ f <= active /\ Opens(f) /\ UNCHANGED storeClosed
                                      /\ mu' # Free /\ UNCHANGED live
           \/ \E F : /\ Closes(F) /\ UNCHANGED keep /\ F \intersect pinned = {}
                     /\ active \notin F \/ storeClosed
           \/ UNCHANGED <<open, newer>> /\ Evict /\ keep' = NoFile
           \/ \E drained \in BOOLEAN : OpCycles(drained)
<1>1. CASE OpAppends
  <2>1. ~storeClosed
    BY <1>1, OpenToOps DEF OpAppends, Holds, BaseInv, Owner, ClosedAt
  <2> QED
    BY <1>1, <2>1 DEF OpAppends, BaseInv, HandleInv
<1>2. CASE \E f \in Files : OpReads(f)
  <2>1. PICK f \in Files : OpReads(f)
    BY <1>2
  <2>2. f <= active
    BY <2>1, ActiveIsLast DEF OpReads, BaseInv, SegInv
  <2> QED
    BY <2>1, <2>2 DEF OpReads, latch, Free
<1>3. CASE OpReclaims
  <2>1. active \notin Reclaimed(committed)
    BY <1>3, ReclaimedLive DEF BaseInv, SegInv
  <2>2. Reclaimed(committed) \intersect pinned = {}
    BY DEF Reclaimed
  <2> QED
    BY <1>3, <2>1, <2>2 DEF OpReclaims
<1>4. CASE Evict
  <2>1. CASE \E v \in open : Evictable(v) /\ Closes({v}) /\ UNCHANGED keep
    <3>1. PICK v \in open : Evictable(v) /\ Closes({v}) /\ UNCHANGED keep
      BY <2>1
    <3>2. {v} \intersect pinned = {} /\ active \notin {v}
      BY <3>1 DEF Evictable
    <3> QED
      BY <3>1, <3>2
  <2>2. CASE keep' = NoFile /\ UNCHANGED <<open, newer>>
    BY <1>4, <2>2
  <2> QED
    BY <1>4, <2>1, <2>2 DEF Evict
<1>5. CASE FlushNext
  BY <1>5 DEF FlushNext, Flushing, Holds, Free, BaseInv, SegInv, DirtyInv
<1>6. CASE \E p \in Syncers : SyncPrepares(p)
  <2>1. PICK p \in Syncers : SyncPrepares(p)
    BY <1>6
  <2>2. UNCHANGED storeClosed /\ mu' = p /\ p # Free
    BY <2>1 DEF SyncPrepares, latch, Holds, Syncers, Free
  <2>3. UNCHANGED live /\ \A f \in live : f <= active
    BY <2>1, ActiveIsLast DEF SyncPrepares, BaseInv, SegInv
  <2> QED
    BY <2>1, <2>2, <2>3 DEF SyncPrepares
<1>7. CASE CloseNext
  <2>1. storeClosed /\ pinned = {}
    <3>1. storeClosed
      BY <1>7 DEF CloseNext, Closing, BaseInv, Owner, ClosedAt
    <3> QED
      BY <3>1 DEF BaseInv, SessionInv, Running
  <2>2. PICK f \in Files : \/ f \in dirty /\ f \notin open /\ Opens(f)
                           \/ Closes({f}) /\ UNCHANGED keep
    BY <1>7 DEF CloseNext
  <2>3. CASE f \in dirty /\ f \notin open /\ Opens(f)
    <3>1. UNCHANGED <<storeClosed, live>> /\ mu' # Free /\ f <= active
      BY <1>7, <2>3 DEF CloseNext, Closing, Holds, Free, BaseInv, SegInv, DirtyInv
    <3> QED
      BY <2>3, <3>1
  <2>4. CASE Closes({f}) /\ UNCHANGED keep
    <3>1. {f} \intersect pinned = {}
      BY <2>1
    <3> QED
      BY <2>1, <2>4, <3>1
  <2> QED
    BY <2>2, <2>3, <2>4
<1>8. CASE OpCycleFails \/ OpReadEnds \/ FlushEnds
           \/ (\E f \in Files : WritebackFails(f) \/ \E full \in BOOLEAN : OpCommits(f, full))
           \/ UNCHANGED vars
  BY <1>8 DEF OpCycleFails, OpReadEnds, FlushEnds, WritebackFails, OpCommits, vars, files
<1>9. CASE CloseBegins \/ LoopExits \/ CloseLocks \/ CloseFlushes \/ CloseEnds
  BY <1>9 DEF CloseBegins, LoopExits, CloseLocks, CloseFlushes, CloseEnds, files
<1>10. CASE \E p \in Syncers : SyncCalled(p) \/ SyncLocks(p) \/ SyncRefused(p) \/ SyncLists(p)
              \/ SyncUnlocks(p) \/ SyncSettles(p) \/ SyncEnds(p) \/ \E f \in Files : SyncFsyncs(p, f)
  BY <1>10 DEF SyncCalled, SyncLocks, SyncRefused, SyncLists, SyncUnlocks, SyncSettles,
     SyncEnds, SyncFsyncs, files
<1> QED
  BY <1>1, <1>2, <1>3, <1>4, <1>5, <1>6, <1>7, <1>8, <1>9, <1>10
     DEF Next, OpBegins, OpStep, CloseStep, SyncStep

\* Moving to the front, pushing and unlinking keep the list a list
LEMMA ListTouched ==
    ASSUME ListType, NEW f \in open, Touches(f), UNCHANGED open
    PROVE  ListType'
<1>1. newer' \subseteq open \X open
  BY DEF Touches, ListType
<1>2. ASSUME NEW a \in open, NEW b \in open
      PROVE  <<a, b>> \in newer' <=> b # f /\ (a = f \/ <<a, b>> \in newer)
  BY DEF Touches
<1>3. ASSUME NEW a \in open, NEW b \in open
      PROVE  a # b <=> (<<a, b>> \in newer' /\ <<b, a>> \notin newer')
                    \/ (<<b, a>> \in newer' /\ <<a, b>> \notin newer')
  BY <1>2 DEF ListType
<1> QED
  BY <1>1, <1>3 DEF ListType

LEMMA ListOpened ==
    ASSUME ListType, NEW f \in Files \ open, Opens(f)
    PROVE  ListType'
<1>1. open' = open \union {f} /\ open' \subseteq Files
  BY DEF Opens, ListType
<1>2. newer' \subseteq open' \X open'
  BY DEF Opens, ListType
<1>3. ASSUME NEW a \in open', NEW b \in open'
      PROVE  <<a, b>> \in newer' <=> (a = f /\ b \in open) \/ <<a, b>> \in newer
  BY DEF Opens
<1>4. \A a \in open' : <<a, f>> \notin newer /\ <<f, a>> \notin newer
  BY DEF ListType
<1>5. ASSUME NEW a \in open', NEW b \in open'
      PROVE  a # b <=> (<<a, b>> \in newer' /\ <<b, a>> \notin newer')
                    \/ (<<b, a>> \in newer' /\ <<a, b>> \notin newer')
  BY <1>1, <1>3, <1>4 DEF ListType
<1> QED
  BY <1>1, <1>2, <1>5 DEF ListType

LEMMA ListClosed ==
    ASSUME ListType, NEW F, Closes(F)
    PROVE  ListType'
<1>1. open' = open \ F /\ newer' \subseteq open' \X open'
  BY DEF Closes, ListType
<1>2. ASSUME NEW a \in open', NEW b \in open'
      PROVE  <<a, b>> \in newer' <=> <<a, b>> \in newer
  BY <1>1 DEF Closes
<1> QED
  BY <1>1, <1>2 DEF ListType

LEMMA ListCycled ==
    ASSUME ListType, LiveInv, pinned \subseteq open, \A g \in open : g <= active,
           NEW drained \in BOOLEAN, OpCycles(drained)
    PROVE  /\ ListType' /\ active + 1 \in open' /\ keep' \in {active + 1, NoFile}
           /\ pinned \subseteq open' /\ open' \subseteq open \union {active + 1}
<1> DEFINE f == active + 1
           R == Reclaimed(IF drained THEN active ELSE committed)
<1>1. /\ open' = (open \ R) \union {f}
      /\ newer' = {e \in newer : {e[1], e[2]} \intersect R = {}} \union ({f} \X (open \ R))
      /\ keep' \in {f, NoFile}
  BY DEF OpCycles, Evicting
<1>2. f \in Files /\ R \intersect pinned = {} /\ R \subseteq live
  BY CycledLive DEF Reclaimed
<1> HIDE DEF R
<1>3. f \notin open
  BY ActiveIsLast, FileFacts
<1>4. open' \subseteq Files /\ newer' \subseteq open' \X open'
  BY <1>1, <1>2 DEF ListType
<1>5. ASSUME NEW a \in open', NEW b \in open'
      PROVE  <<a, b>> \in newer' <=> (a = f /\ b # f) \/ (a # f /\ b # f /\ <<a,
               b>> \in newer)
  <2>1. newer \subseteq open \X open
    BY DEF ListType
  <2>2. b # f => b \in open \ R
    BY <1>1
  <2>3. a # f => a \in open \ R
    BY <1>1
  <2> QED
    BY <1>1, <1>3, <2>1, <2>2, <2>3
<1>6. ASSUME NEW a \in open', NEW b \in open'
      PROVE  a # b <=> (<<a, b>> \in newer' /\ <<b, a>> \notin newer')
                    \/ (<<b, a>> \in newer' /\ <<a, b>> \notin newer')
  BY <1>1, <1>5 DEF ListType
<1> QED
  BY <1>1, <1>2, <1>4, <1>6 DEF ListType

LEMMA HandleInit == Init => HandleInv
<1> SUFFICES ASSUME Init PROVE HandleInv
  OBVIOUS
<1>1. live \subseteq Files /\ Found \in live /\ \A g \in live : g <= Found
  BY OffLockSyncAssumption DEF Init, Files
<1>2. active = Found
  BY <1>1, TopUnique DEF active, Top
<1> QED
  BY <1>1, <1>2 DEF Init, HandleInv, ListType, pinned, Unpinned

LEMMA PinSteps ==
    ASSUME BaseInv, [Next]_vars
    PROVE  \A f \in pinned' : f \in pinned \/ f \in open'
<1>1. CASE UNCHANGED target
  BY <1>1 DEF pinned
<1>2. CASE \E p \in Syncers : SyncPrepares(p)
  <2>1. PICK p \in Syncers : SyncPrepares(p)
    BY <1>2
  <2>2. ASSUME NEW f, Pin(f) PROVE pinned' = pinned \union {f}
    BY <2>2 DEF Pin, pinned
  <2>3. CASE UNCHANGED target
    BY <1>1, <2>3
  <2>4. CASE \E f \in Files : Pin(f) /\ f \in open'
    BY <2>2, <2>4
  <2> QED
    BY <2>1, <2>3, <2>4 DEF SyncPrepares, Opens
<1>3. CASE \E p \in Syncers : SyncSettles(p)
  BY <1>3 DEF SyncSettles, pinned, Unpinned
<1>4. CASE \E p \in Syncers, f \in Files : SyncFsyncs(p, f)
  BY <1>4 DEF SyncFsyncs, pinned
<1> QED
  BY <1>1, <1>2, <1>3, <1>4, TargetSteps

LEMMA EvictingHolds ==
    ASSUME BaseInv, [Next]_vars
    PROVE  (mu = Free => keep = NoFile)'
<1>1. SUFFICES ASSUME mu' = Free PROVE keep' = NoFile
  OBVIOUS
<1>2. CASE keep = NoFile
  <2>1. ASSUME NEW drained \in BOOLEAN, OpCycles(drained) PROVE FALSE
    BY <1>1, <2>1 DEF OpCycles, Free
  <2> QED
    BY <1>1, <1>2, <2>1, ListSteps
<1>3. CASE keep # NoFile
  <2>1. mu # Free
    BY <1>3 DEF BaseInv, HandleInv
  <2>2. UNCHANGED mu
    <3>1. CASE OpBegins \/ OpStep
      BY <1>3, <2>1, <3>1 DEF OpBegins, OpStep, OpAppends, OpCycles, OpReads, OpCommits,
                              OpReclaims,
         OpCycleFails, OpReadEnds, FlushNext, FlushEnds, Flushing, Holds, Begins
    <3>2. CASE Evict \/ (\E f \in Files : WritebackFails(f)) \/ UNCHANGED vars
      BY <3>2 DEF Evict, WritebackFails, vars
    <3>3. CASE CloseBegins \/ LoopExits \/ CloseStep
      BY <1>3, <2>1, <3>3 DEF CloseBegins, LoopExits, CloseStep, CloseLocks,
                              CloseFlushes, CloseNext,
         CloseEnds, Closing, Holds
    <3>4. CASE \E p \in Syncers : SyncCalled(p) \/ SyncStep(p)
      BY <1>3, <2>1, <3>4 DEF SyncCalled, SyncStep, SyncLocks, SyncRefused, SyncLists,
                              SyncPrepares,
         SyncUnlocks, SyncSettles, SyncEnds, SyncFsyncs, Holds
    <3> QED
      BY <3>1, <3>2, <3>3, <3>4 DEF Next
  <2> QED
    BY <1>1, <2>1, <2>2
<1> QED
  BY <1>2, <1>3

LEMMA HandleNext ==
    ASSUME BaseInv, [Next]_vars
    PROVE  HandleInv'
<1>1. /\ active \in Nat /\ active' \in Nat /\ active <= active'
      /\ \A g \in Files : g \in Nat
      /\ open \subseteq Files
  BY ActiveGrows, FileFacts DEF BaseInv, SegInv, HandleInv, ListType
<1>2. ListType'
  <2>1. CASE \E drained \in BOOLEAN : OpCycles(drained)
    BY <2>1, ListCycled DEF BaseInv, SegInv, HandleInv
  <2>2. CASE UNCHANGED <<open, newer>>
    BY <2>2 DEF BaseInv, HandleInv, ListType
  <2> QED
    BY <2>1, <2>2, ListSteps, ListTouched, ListOpened, ListClosed DEF BaseInv, HandleInv
<1>3. keep' \in Files \union {NoFile}
  <2>1. CASE \E drained \in BOOLEAN : OpCycles(drained)
    BY <2>1, ListCycled, CycledLive DEF BaseInv, SegInv, HandleInv
  <2> QED
    BY <2>1, ListSteps DEF BaseInv, HandleInv, Opens, Evicting
<1>4. /\ pinned \subseteq open' /\ \A g \in open' : g <= active'
      /\ active' \in open' \/ storeClosed'
  <2>1. CASE \E drained \in BOOLEAN : OpCycles(drained)
    BY <1>1, <2>1, ListCycled, CycledLive DEF BaseInv, SegInv, HandleInv
  <2>2. CASE ~\E drained \in BOOLEAN : OpCycles(drained)
    <3>1. active' = active
      BY <2>2, ActiveGrows DEF BaseInv, SegInv
    <3>2. storeClosed => storeClosed'
      BY DEF Next, OpBegins, OpStep, CloseStep, SyncStep, OpAppends, OpCycles, OpReads,
         OpCommits, OpReclaims, OpCycleFails, OpReadEnds, FlushNext, FlushEnds, Evict,
         WritebackFails, CloseBegins, LoopExits, CloseLocks, CloseFlushes, CloseNext,
         CloseEnds,
         SyncCalled, SyncLocks, SyncRefused, SyncLists, SyncPrepares, SyncUnlocks,
         SyncSettles,
         SyncEnds, SyncFsyncs, vars, latch
    <3>3. pinned \subseteq open' /\ \A g \in open' : g <= active
      BY <2>2, ListSteps DEF BaseInv, HandleInv, Opens, Closes
    <3>4. active \in open /\ ~storeClosed => active \in open'
      BY <2>2, ListSteps DEF Opens, Closes
    <3> QED
      BY <3>1, <3>2, <3>3, <3>4 DEF BaseInv, HandleInv
  <2> QED
    BY <2>1, <2>2
<1> QED
  BY <1>2, <1>3, <1>4, PinSteps, EvictingHolds DEF HandleInv

LEMMA BaseInit == Init => BaseInv
  BY OwnerInit, SegInit, SessionInit, HandleInit DEF BaseInv

LEMMA BaseNext ==
    ASSUME BaseInv, [Next]_vars
    PROVE  BaseInv'
  BY OwnerNext, SegNext, SessionNext, HandleNext DEF BaseInv

LEMMA BaseHolds == Spec => []BaseInv
  BY BaseInit, BaseNext, PTL DEF Spec

LEMMA PinsProtect ==
    ASSUME BaseInv
    PROVE  HandlesOutliveFsync
  BY DEF BaseInv, SegInv, PinInv, SessionInv, HandleInv, HandlesOutliveFsync, Running

\* No handle is closed, and no segment reclaimed, under an off-lock fsync, whatever
\* evictions, reclamations and closes happen beside it (pins, Close's wait for syncMu).
THEOREM PinnedHandlesSurvive == Spec => []HandlesOutliveFsync
  BY BaseHolds, PinsProtect, PTL

-----------------------------------------------------------------------------
(* The cap on open files *)

PinsBounded == left \in Nat /\ Cardinality(pinned) + left <= ChunkSize

Capped == keep = NoFile => Cardinality(open) <= MaxOpen

CapInv == PinsBounded /\ Capped

LEMMA SetFacts ==
    ASSUME NEW S, S \subseteq Files
    PROVE  /\ IsFiniteSet(S) /\ Cardinality(S) \in Nat
           /\ \A T \in SUBSET S : IsFiniteSet(T) /\ Cardinality(T) <= Cardinality(S)
  BY FilesFinite, FS_Subset, FS_CardinalityType

LEMMA ChunkFits ==
    ASSUME NEW S, S \subseteq Files
    PROVE  Chunk(S) \in Nat /\ Chunk(S) <= ChunkSize
<1>1. ChunkSize \in Nat
  BY OffLockSyncAssumption DEF ChunkSize
<1>2. Cardinality(S) \in Nat
  BY SetFacts
<1> QED
  BY <1>1, <1>2 DEF Chunk

LEMMA PinsBoundedNext ==
    ASSUME BaseInv, PinsBounded, [Next]_vars
    PROVE  PinsBounded'
<1>1. pinned \subseteq Files /\ Cardinality({}) = 0 /\ ChunkSize \in Nat
  BY FS_EmptySet, OffLockSyncAssumption DEF BaseInv, SegInv, LiveInv, PinInv, ChunkSize
<1>2. CASE UNCHANGED <<target, left>>
  BY <1>2 DEF PinsBounded, pinned, ChunkSize
<1>3. ASSUME NEW p \in Syncers, SyncLists(p) PROVE PinsBounded'
  <2>1. pinned = {}
    BY <1>3, OneRuns DEF SyncLists, BaseInv, SessionInv, Running
  <2>2. pinned' = {} /\ left' = Chunk(todo') /\ todo' \subseteq Files
    BY <1>3, <2>1 DEF SyncLists, pinned, BaseInv, SegInv, DirtyInv
  <2> QED
    BY <1>1, <2>2, ChunkFits DEF PinsBounded, ChunkSize
<1>4. ASSUME NEW p \in Syncers, SyncPrepares(p) PROVE PinsBounded'
  <2>1. left \in Nat /\ left > 0 /\ left' = left - 1
    BY <1>4 DEF SyncPrepares, PinsBounded
  <2>2. \/ pinned' = pinned
        \/ \E f \in Files : pinned' = pinned \union {f}
    <3>1. CASE UNCHANGED target
      BY <3>1 DEF pinned
    <3>2. CASE \E f \in Files : Pin(f)
      BY <3>2 DEF Pin, pinned
    <3> QED
      BY <1>4, <3>1, <3>2 DEF SyncPrepares
  <2>3. Cardinality(pinned) \in Nat /\ Cardinality(pinned') <= Cardinality(pinned) + 1
        /\ Cardinality(pinned') \in Nat
    <3>1. IsFiniteSet(pinned) /\ Cardinality(pinned) \in Nat
      BY <1>1, SetFacts
    <3>2. ASSUME NEW f \in Files
          PROVE  /\ Cardinality(pinned \union {f}) \in Nat
                 /\ Cardinality(pinned \union {f}) <= Cardinality(pinned) + 1
      <4>1. /\ IsFiniteSet(pinned \union {f})
            /\ Cardinality(pinned \union {f})
                  = IF f \in pinned THEN Cardinality(pinned) ELSE Cardinality(pinned) + 1
        BY <3>1, FS_AddElement
      <4> QED
        BY <3>1, <4>1
    <3> QED
      BY <2>2, <3>1, <3>2
  <2> QED
    BY <1>1, <2>1, <2>3 DEF PinsBounded, ChunkSize
<1>5. ASSUME NEW p \in Syncers, SyncSettles(p) PROVE PinsBounded'
  <2>1. pinned' = {} /\ left' = Chunk(todo) /\ todo \subseteq Files
    BY <1>5 DEF SyncSettles, pinned, Unpinned, BaseInv, SessionInv
  <2> QED
    BY <1>1, <2>1, ChunkFits DEF PinsBounded, ChunkSize
<1>6. ASSUME NEW p \in Syncers, NEW f \in Files, SyncFsyncs(p, f) PROVE PinsBounded'
  <2>1. pinned' = pinned /\ left' = left
    BY <1>6 DEF SyncFsyncs, pinned
  <2> QED
    BY <2>1 DEF PinsBounded, ChunkSize
<1>7. CASE Elsewhere
  BY <1>2, <1>7 DEF Elsewhere, sync
<1>8. CASE \E p \in Syncers : SyncRefused(p) \/ SyncUnlocks(p) \/ SyncEnds(p)
  BY <1>2, <1>8 DEF SyncRefused, SyncUnlocks, SyncEnds, sync
<1> QED
  BY <1>3, <1>4, <1>5, <1>6, <1>7, <1>8, SyncSteps DEF BaseInv

\* evictOpen stops short of the cap only if every handle is pinned, active or the
\* one being opened, and these are few
LEMMA NoVictimLeft ==
    ASSUME BaseInv, PinsBounded, {f \in open : Evictable(f)} = {}
    PROVE  Cardinality(open) <= MaxOpen
<1> DEFINE S == (pinned \union {active}) \union {keep}
<1>1. pinned \subseteq Files /\ open \subseteq S
  BY DEF BaseInv, SegInv, LiveInv, PinInv, Evictable
<1>2. IsFiniteSet(pinned) /\ Cardinality(pinned) \in Nat
  BY <1>1, SetFacts
<1>3. /\ IsFiniteSet(pinned \union {active}) /\ Cardinality(pinned \union {active}) \in Nat
      /\ Cardinality(pinned \union {active}) <= Cardinality(pinned) + 1
  BY <1>2, FS_AddElement
<1>4. /\ IsFiniteSet(S) /\ Cardinality(S) \in Nat
      /\ Cardinality(S) <= Cardinality(pinned \union {active}) + 1
  BY <1>3, FS_AddElement
<1>5. Cardinality(open) <= Cardinality(S) /\ Cardinality(open) \in Nat
  BY <1>1, <1>4, FS_Subset, FS_CardinalityType
<1>6. Cardinality(pinned) <= MaxOpen - 2 /\ MaxOpen \in Nat
  BY <1>2, OffLockSyncAssumption DEF PinsBounded, ChunkSize
<1> QED
  BY <1>2, <1>3, <1>4, <1>5, <1>6

LEMMA CappedNext ==
    ASSUME BaseInv, CapInv, [Next]_vars
    PROVE  Capped'
<1>0. /\ open \subseteq Files /\ open' \subseteq Files
      /\ Cardinality(open) \in Nat /\ Cardinality(open') \in Nat
      /\ MaxOpen \in Nat
  <2>1. open \subseteq Files /\ open' \subseteq Files
    BY HandleNext DEF BaseInv, HandleInv, ListType
  <2> QED
    BY <2>1, SetFacts, OffLockSyncAssumption
<1>1. ASSUME NEW f \in Files, Evicting(f) PROVE Capped'
  <2>1. f # NoFile
    BY <1>1, FileFacts DEF NoFile
  <2> QED
    BY <1>0, <1>1, <2>1 DEF Evicting, Capped
<1>2. CASE UNCHANGED <<open, keep>>
  BY <1>2 DEF CapInv, Capped
<1>3. ASSUME NEW F, Closes(F), UNCHANGED keep PROVE Capped'
  <2>1. open' \subseteq open
    BY <1>3 DEF Closes
  <2>2. Cardinality(open') <= Cardinality(open)
    BY <1>0, <2>1, SetFacts
  <2> QED
    BY <1>0, <1>3, <2>2 DEF CapInv, Capped
<1>4. CASE UNCHANGED <<open, newer>> /\ Evict /\ keep' = NoFile
  <2>1. keep # NoFile
    BY <1>4 DEF Evict
  <2>2. CASE Cardinality(open) > MaxOpen /\ {f \in open : Evictable(f)} # {}
    BY <1>4, <2>1, <2>2 DEF Evict
  <2>3. CASE ~(Cardinality(open) > MaxOpen /\ {f \in open : Evictable(f)} # {})
    BY <1>0, <1>4, <2>3, NoVictimLeft DEF CapInv, Capped
  <2> QED
    BY <2>2, <2>3
<1>5. CASE \E drained \in BOOLEAN : OpCycles(drained)
  BY <1>1, <1>5, CycledLive DEF OpCycles, BaseInv, SegInv
<1> QED
  BY <1>1, <1>2, <1>3, <1>4, <1>5, ListSteps DEF Opens

LEMMA CapKept ==
    ASSUME BaseInv, CapInv
    PROVE  OpenFilesCapped
  BY DEF BaseInv, HandleInv, CapInv, Capped, OpenFilesCapped

-----------------------------------------------------------------------------
(* Types *)

FlagInv == policy \in Policies /\ {ioErr, flushBad, syncBad, kept} \subseteq BOOLEAN

CountInv ==
    /\ {unsynced, unsyncedBytes, flushEpoch} \subseteq Nat
    /\ snap \in [ops : Nat, bytes : Nat, epoch : Nat]
    /\ promise \in [Files -> 0 .. MaxWrites + 1]
    /\ opFile \in Files \union {NoFile} /\ flushTodo \subseteq Files

\* The steps that move a gauge
LEMMA GaugeSteps ==
    ASSUME [Next]_vars
    PROVE  \/ UNCHANGED gauges
           \/ OpAppends \/ FlushEnds \/ CloseEnds
           \/ \E f \in Files : \E full \in BOOLEAN : OpCommits(f, full)
           \/ \E p \in Syncers : SyncEnds(p)
<1>1. CASE OpReclaims \/ OpCycleFails \/ OpReadEnds \/ FlushNext \/ Evict
           \/ (\E f \in Files : OpReads(f) \/ WritebackFails(f))
           \/ (\E drained \in BOOLEAN : OpCycles(drained)) \/ UNCHANGED vars
  BY <1>1 DEF OpReclaims, OpCycleFails, OpReadEnds, FlushNext, Evict, OpReads,
              WritebackFails,
     OpCycles, vars
<1>2. CASE CloseBegins \/ LoopExits \/ CloseLocks \/ CloseFlushes \/ CloseNext
  BY <1>2 DEF CloseBegins, LoopExits, CloseLocks, CloseFlushes, CloseNext
<1>3. CASE \E p \in Syncers : SyncCalled(p) \/ SyncLocks(p) \/ SyncRefused(p) \/ SyncLists(p)
              \/ SyncPrepares(p) \/ SyncUnlocks(p) \/ SyncSettles(p)
              \/ \E f \in Files : SyncFsyncs(p, f)
  BY <1>3 DEF SyncCalled, SyncLocks, SyncRefused, SyncLists, SyncPrepares, SyncUnlocks,
     SyncSettles, SyncFsyncs
<1> QED
  BY <1>1, <1>2, <1>3 DEF Next, OpBegins, OpStep, CloseStep, SyncStep

LEMMA FlagNext ==
    ASSUME FlagInv, [Next]_vars
    PROVE  FlagInv'
<1>1. CASE OpAppends \/ OpReclaims \/ OpCycleFails \/ OpReadEnds \/ FlushEnds
           \/ (\E drained \in BOOLEAN : OpCycles(drained))
           \/ (\E f \in Files : OpReads(f) \/ WritebackFails(f)) \/ UNCHANGED vars
  BY <1>1 DEF FlagInv, OpAppends, FlushBegins, OpReclaims, OpCycleFails, OpReadEnds,
              FlushEnds,
     OpCycles, OpReads, WritebackFails, vars, latch, op, sync
<1>2. CASE \E f \in Files : \E full \in BOOLEAN : OpCommits(f, full)
  BY <1>2 DEF FlagInv, OpCommits, FlushBegins, latch, op, sync
<1>3. CASE Evict
  <2>1. ioErr' \in {ioErr, TRUE}
    BY <1>3 DEF Evict, FlushOpen
  <2> QED
    BY <1>3, <2>1 DEF FlagInv, Evict, op, sync
<1>4. CASE FlushNext
  <2>1. ioErr' \in {ioErr, TRUE}
    BY <1>4 DEF FlushNext, FlushOpen
  <2>2. flushBad' \in BOOLEAN
    BY <1>4 DEF FlushNext, FlagInv
  <2> QED
    BY <1>4, <2>1, <2>2 DEF FlagInv, FlushNext, sync
<1>5. CASE CloseBegins \/ LoopExits \/ CloseLocks \/ CloseFlushes \/ CloseNext \/ CloseEnds
  BY <1>5 DEF FlagInv, CloseBegins, LoopExits, CloseLocks, CloseFlushes, CloseNext,
              CloseEnds,
     latch, op, sync
<1>6. ASSUME NEW p \in Syncers, SyncRefused(p) \/ SyncEnds(p) PROVE FlagInv'
  <2>1. kept' \in BOOLEAN
    BY <1>6 DEF SyncRefused, SyncEnds, SyncReturns
  <2> QED
    BY <1>6, <2>1 DEF FlagInv, SyncRefused, SyncEnds, latch, op
<1>7. ASSUME NEW p \in Syncers, SyncSettles(p) PROVE FlagInv'
  BY <1>7 DEF FlagInv, SyncSettles, op
<1>8. CASE \E p \in Syncers : SyncCalled(p) \/ SyncLocks(p) \/ SyncLists(p) \/ SyncPrepares(p)
              \/ SyncUnlocks(p) \/ \E f \in Files : SyncFsyncs(p, f)
  BY <1>8 DEF FlagInv, SyncCalled, SyncLocks, SyncLists, SyncPrepares, SyncUnlocks,
              SyncFsyncs,
     latch, op, sync
<1> QED
  BY <1>1, <1>2, <1>3, <1>4, <1>5, <1>6, <1>7, <1>8
     DEF Next, OpBegins, OpStep, CloseStep, SyncStep

LEMMA CountNext ==
    ASSUME BaseInv, CountInv, [Next]_vars
    PROVE  CountInv'
<1>1. {unsynced', unsyncedBytes', flushEpoch'} \subseteq Nat
  <2>1. CASE OpAppends \/ \E f \in Files : \E full \in BOOLEAN : OpCommits(f, full)
    <3>1. \E f, r : Writes(f, r)
      BY <2>1 DEF OpAppends, OpCommits
    <3> QED
      BY <3>1 DEF Writes, CountInv
  <2>2. CASE FlushEnds \/ CloseEnds
    BY <2>2 DEF FlushEnds, CloseEnds, CountInv, gauges
  <2>3. CASE \E p \in Syncers : SyncEnds(p)
    <3>1. \A n \in Nat : Settled(n, snap.ops) \in Nat /\ Settled(n, snap.bytes) \in Nat
      BY DEF Settled, CountInv
    <3> QED
      BY <2>3, <3>1 DEF SyncEnds, CountInv
  <2>4. CASE UNCHANGED gauges
    BY <2>4 DEF gauges, CountInv
  <2> QED
    BY <2>1, <2>2, <2>3, <2>4, GaugeSteps
<1>2. /\ snap' \in [ops : Nat, bytes : Nat, epoch : Nat]
      /\ promise' \in [Files -> 0 .. MaxWrites + 1]
  <2>1. CASE Elsewhere
    BY <2>1 DEF Elsewhere, sync, CountInv
  <2>2. 0 \in 0 .. MaxWrites + 1 /\ writeSeq \in [Files -> 0 .. MaxWrites + 1]
    BY OffLockSyncAssumption DEF BaseInv, SegInv, WriteInv
  <2>3. CASE \E p \in Syncers : SyncRefused(p) \/ SyncEnds(p)
    BY <2>2, <2>3 DEF SyncRefused, SyncEnds, SyncReturns, CountInv
  <2>4. CASE \E p \in Syncers : SyncLists(p)
    BY <2>2, <2>4 DEF SyncLists, CountInv
  <2> QED
    BY <2>1, <2>3, <2>4, SyncSteps DEF BaseInv, SyncPrepares, SyncUnlocks, SyncSettles,
                                       SyncFsyncs,
       sync, CountInv
<1>3. opFile' \in Files \union {NoFile}
  <2>1. CASE OpBegins \/ OpStep \/ Evict \/ (\E f \in Files : WritebackFails(f))
             \/ UNCHANGED vars
    BY <2>1 DEF OpBegins, OpStep, OpAppends, OpCycles, OpReads, OpCommits, OpReclaims,
       OpCycleFails, OpReadEnds, FlushNext, FlushEnds, Evict, WritebackFails, vars, op,
       CountInv
  <2>2. CASE CloseBegins \/ LoopExits \/ CloseStep
    BY <2>2 DEF CloseBegins, LoopExits, CloseStep, CloseLocks, CloseFlushes, CloseEnds,
       CloseNext, op, CountInv
  <2>3. CASE \E p \in Syncers : SyncCalled(p) \/ SyncStep(p)
    BY <2>3 DEF SyncCalled, SyncStep, SyncLocks, SyncRefused, SyncLists, SyncPrepares,
       SyncUnlocks, SyncSettles, SyncEnds, SyncFsyncs, op, CountInv
  <2> QED
    BY <2>1, <2>2, <2>3 DEF Next
<1>4. flushTodo' \subseteq flushTodo \/ flushTodo' = live
  <2>1. CASE OpBegins \/ OpStep \/ Evict \/ (\E f \in Files : WritebackFails(f))
             \/ UNCHANGED vars
    BY <2>1 DEF OpBegins, OpStep, OpAppends, FlushBegins, OpCycles, OpReads, OpCommits,
                OpReclaims,
       OpCycleFails, OpReadEnds, FlushNext, FlushEnds, Evict, WritebackFails, vars, op
  <2>2. CASE CloseBegins \/ LoopExits \/ CloseStep
    BY <2>2 DEF CloseBegins, LoopExits, CloseStep, CloseLocks, CloseFlushes, CloseEnds,
       CloseNext, op
  <2>3. CASE \E p \in Syncers : SyncCalled(p) \/ SyncStep(p)
    BY <2>3 DEF SyncCalled, SyncStep, SyncLocks, SyncRefused, SyncLists, SyncPrepares,
       SyncUnlocks, SyncSettles, SyncEnds, SyncFsyncs, op
  <2> QED
    BY <2>1, <2>2, <2>3 DEF Next
<1>5. flushTodo' \subseteq Files
  BY <1>4 DEF CountInv, BaseInv, SegInv, LiveInv
<1> QED
  BY <1>1, <1>2, <1>3, <1>5 DEF CountInv

TypeInv == BaseInv /\ CapInv /\ FlagInv /\ CountInv

LEMMA TypeInit == Init => TypeInv
<1> SUFFICES ASSUME Init PROVE TypeInv
  OBVIOUS
<1>1. CapInv
  <2>1. Cardinality({}) = 0 /\ Cardinality({Found}) = 1
    BY FS_EmptySet, FS_Singleton
  <2> QED
    BY <2>1, OffLockSyncAssumption
       DEF Init, CapInv, PinsBounded, Capped, pinned, Unpinned, ChunkSize
<1>2. FlagInv
  BY DEF Init, FlagInv
<1>3. CountInv
  BY OffLockSyncAssumption DEF Init, CountInv
<1> QED
  BY <1>1, <1>2, <1>3, BaseInit DEF TypeInv

LEMMA TypeNext ==
    ASSUME TypeInv, [Next]_vars
    PROVE  TypeInv'
<1>1. BaseInv /\ CapInv /\ FlagInv /\ CountInv
  BY DEF TypeInv
<1>2. CapInv'
  BY <1>1, PinsBoundedNext, CappedNext DEF CapInv
<1> QED
  BY <1>1, <1>2, BaseNext, FlagNext, CountNext DEF TypeInv

LEMMA TypeHolds == Spec => []TypeInv
  BY TypeInit, TypeNext, PTL DEF Spec

LEMMA TypesOK ==
    ASSUME TypeInv
    PROVE  TypeOK
<1>1. SegType /\ ListType
  BY DEF TypeInv, BaseInv, SegInv, LiveInv, WriteInv, DirtyInv, HandleInv, SegType
<1>2. SyncType
  BY DEF TypeInv, BaseInv, SegInv, LiveInv, PinInv, SessionInv, CapInv, PinsBounded,
         CountInv,
     SyncType
<1>3. /\ policy \in Policies
      /\ {closed, storeClosed, ioErr, flushBad, syncBad, kept} \subseteq BOOLEAN
  BY DEF TypeInv, BaseInv, Owner, ClosedAt, FlagInv
<1>4. /\ {unsynced, unsyncedBytes, flushEpoch} \subseteq Nat
      /\ opFile \in Files \union {NoFile} /\ flushTodo \subseteq Files
  BY DEF TypeInv, CountInv
<1>5. {mu, syncMu} \subseteq Procs \union {Free} /\ pc \in [Procs -> Places]
  BY DEF TypeInv, BaseInv, Owner, PlacesOK, MuHeld, SyncMuHeld, Procs, Syncers
<1>6. /\ durable \in [Files -> 0 .. MaxWrites + 1]
      /\ dropped \subseteq Files /\ wberr \subseteq dropped
  BY DEF TypeInv, BaseInv, SegInv, KernelInv
<1> QED
  BY <1>1, <1>2, <1>3, <1>4, <1>5, <1>6 DEF TypeOK

\* Every field keeps its type, and the list of open handles stays a list, for every
\* number of segments, writes and open files.
THEOREM TypeCorrect == Spec => []TypeOK
  BY TypeHolds, TypesOK, PTL

\* MaxOpenFiles is in force whenever the mutex is free, for every cap, every number of
\* segments and every number of pinned ones a chunk holds (flushChunkSize, evictOpen).
THEOREM TheCapIsKept == Spec => []OpenFilesCapped
  BY TypeHolds, CapKept, PTL DEF TypeInv

-----------------------------------------------------------------------------
(* What is clean is durable *)

\* A failure has been met: latched, or in the hands of a Sync that will latch it
Tainted == ioErr \/ FailureInHand

\* Nobody pins a segment twice
Listed == todo \intersect pinned = {}

\* The kernel's one report of a failed writeback is not lost
Told == Tainted \/ dropped \subseteq wberr

\* An fsync that returned nil covers what was written before it began
Fsynced == Tainted \/ \A f \in pinned : target[f].res = "ok" => durable[f] >= target[f].seq

Dirtied ==
    Tainted \/ storeClosed \/ \A f \in live : durable[f] < writeSeq[f] => f \in dirty

DiskInv == Listed /\ Told /\ Fsynced /\ Dirtied

LEMMA ListedNext ==
    ASSUME BaseInv, Listed, [Next]_vars
    PROVE  Listed'
<1>1. CASE Elsewhere
  BY <1>1 DEF Elsewhere, sync, Listed, pinned
<1>2. ASSUME NEW p \in Syncers, SyncLists(p) PROVE Listed'
  <2>1. pinned = {}
    BY <1>2, OneRuns DEF SyncLists, BaseInv, SessionInv, Running
  <2> QED
    BY <1>2, <2>1 DEF SyncLists, Listed, pinned
<1>3. ASSUME NEW p \in Syncers, SyncPrepares(p) PROVE Listed'
  <2>1. PICK f \in Files : First(f, todo) /\ todo' = todo \ {f} /\ (UNCHANGED target \/ Pin(f))
    BY <1>3 DEF SyncPrepares
  <2>2. pinned' \subseteq pinned \union {f}
    BY <2>1 DEF Pin, pinned
  <2> QED
    BY <2>1, <2>2 DEF Listed
<1>4. ASSUME NEW p \in Syncers, SyncSettles(p) PROVE Listed'
  BY <1>4 DEF SyncSettles, Listed, pinned, Unpinned
<1>5. ASSUME NEW p \in Syncers, NEW f \in Files, SyncFsyncs(p, f) PROVE Listed'
  BY <1>5 DEF SyncFsyncs, Listed, pinned
<1>6. CASE \E p \in Syncers : SyncRefused(p) \/ SyncUnlocks(p) \/ SyncEnds(p)
  BY <1>6 DEF SyncRefused, SyncUnlocks, SyncEnds, sync, Listed, pinned
<1> QED
  BY <1>1, <1>2, <1>3, <1>4, <1>5, <1>6, SyncSteps DEF BaseInv

LEMMA Pinned ==
    ASSUME NEW f, Pin(f)
    PROVE  /\ pinned' = pinned \union {f}
           /\ target'[f] = [seq |-> writeSeq[f], res |-> "run"]
           /\ \A g \in pinned \ {f} : target'[g] = target[g]
  BY DEF Pin, pinned

LEMMA Judged ==
    ASSUME BaseInv, NEW p \in Syncers, NEW f \in Files, SyncFsyncs(p, f)
    PROVE  /\ pinned' = pinned /\ f \in pinned /\ target[f].res = "run"
           /\ \A g \in pinned : target'[g].seq = target[g].seq
           /\ \A g \in pinned \ {f} : target'[g] = target[g]
           /\ \/ FsyncOk(f, target[f].seq) /\ target'[f].res = "ok"
              \/ FsyncFails(f) /\ target'[f].res = "err"
<1>1. f \in pinned /\ target[f].res = "run" /\ target[f] \in [seq : 0 .. MaxWrites + 1, res : Verdicts]
  BY DEF SyncFsyncs, BaseInv, SegInv, PinInv
<1>2. CASE FsyncOk(f, target[f].seq) /\ target' = [target EXCEPT ![f].res = "ok"]
  BY <1>1, <1>2 DEF pinned, BaseInv, SegInv, PinInv
<1>3. CASE FsyncFails(f) /\ target' = [target EXCEPT ![f].res = "err"]
  BY <1>1, <1>3 DEF pinned, BaseInv, SegInv, PinInv
<1> QED
  BY <1>2, <1>3 DEF SyncFsyncs

LEMMA TaintStays ==
    ASSUME BaseInv, Listed, Tainted, [Next]_vars
    PROVE  Tainted'
<1>1. CASE ioErr
  <2>1. CASE OpBegins \/ OpStep \/ Evict \/ (\E f \in Files : WritebackFails(f))
             \/ UNCHANGED vars
    BY <1>1, <2>1 DEF OpBegins, OpStep, OpAppends, OpCycles, OpReads, OpCommits,
                      OpReclaims,
       OpCycleFails, OpReadEnds, FlushNext, FlushEnds, FlushOpen, Evict, WritebackFails,
       vars,
       latch, Tainted
  <2>2. CASE CloseBegins \/ LoopExits \/ CloseStep
    BY <1>1, <2>2 DEF CloseBegins, LoopExits, CloseStep, CloseLocks, CloseFlushes,
                      CloseEnds,
       CloseNext, latch, Tainted
  <2>3. CASE \E p \in Syncers : SyncCalled(p) \/ SyncStep(p)
    BY <1>1, <2>3 DEF SyncCalled, SyncStep, SyncLocks, SyncRefused, SyncLists,
                      SyncPrepares,
       SyncUnlocks, SyncSettles, SyncEnds, SyncFsyncs, latch, Tainted
  <2> QED
    BY <2>1, <2>2, <2>3 DEF Next
<1>2. CASE FailureInHand
  <2>1. PICK g \in pinned : target[g].res = "err"
    BY <1>2 DEF FailureInHand
  <2>2. CASE UNCHANGED target
    BY <1>2, <2>2 DEF Tainted, FailureInHand, pinned
  <2>3. ASSUME NEW p \in Syncers, SyncPrepares(p) PROVE Tainted'
    <3>1. PICK f \in Files : First(f, todo) /\ (UNCHANGED target \/ Pin(f))
      BY <2>3 DEF SyncPrepares
    <3>2. CASE Pin(f)
      <4>1. g # f
        BY <2>1, <3>1 DEF First, Listed
      <4> QED
        BY <2>1, <3>2, <4>1, Pinned DEF Tainted, FailureInHand
    <3> QED
      BY <2>2, <3>1, <3>2
  <2>4. ASSUME NEW p \in Syncers, SyncSettles(p) PROVE Tainted'
    BY <2>1, <2>4 DEF SyncSettles, Tainted
  <2>5. ASSUME NEW p \in Syncers, NEW f \in Files, SyncFsyncs(p, f) PROVE Tainted'
    <3>1. g # f
      BY <2>1, <2>5, Judged
    <3> QED
      BY <2>1, <2>5, <3>1, Judged DEF Tainted, FailureInHand
  <2> QED
    BY <2>2, <2>3, <2>4, <2>5, TargetSteps
<1> QED
  BY <1>1, <1>2 DEF Tainted

LEMMA ToldNext ==
    ASSUME BaseInv, Listed, Told, [Next]_vars
    PROVE  Told'
<1> SUFFICES ASSUME ~Tainted' PROVE dropped' \subseteq wberr'
  BY DEF Told
<1>0. dropped \subseteq wberr
  BY TaintStays DEF Told
<1>1. CASE \E p \in Syncers, f \in Files : SyncFsyncs(p, f)
  <2>1. PICK p \in Syncers, f \in Files : SyncFsyncs(p, f)
    BY <1>1
  <2>2. FsyncOk(f, target[f].seq)
    BY <2>1, Judged DEF Tainted, FailureInHand
  <2> QED
    BY <1>0, <2>2 DEF FsyncOk
<1> QED
  BY <1>0, <1>1, KernelSteps DEF kernel, WritebackFails, FsyncOk, Tainted, OpCycles

LEMMA FsyncCovers ==
    ASSUME BaseInv, NEW f \in Files, f <= active, NEW n \in 0 .. MaxWrites + 1,
           FsyncOk(f, n),
           live' = live, dropped \subseteq wberr
    PROVE  durable'[f] >= n
<1>1. active' = active /\ active \in Nat
  BY ActiveIsLast, FileFacts DEF active, BaseInv, SegInv
<1> QED
  BY <1>1, FsyncedKernel DEF BaseInv, SegInv, FsyncOk

LEMMA PinFacts ==
    ASSUME BaseInv, NEW f \in pinned
    PROVE  /\ f \in live /\ f \in Files /\ f <= active /\ target[f].seq \in 0 .. MaxWrites + 1
           /\ target[f].seq \in Nat
           /\ target[f].seq <= writeSeq[f]
  BY ActiveIsLast, OffLockSyncAssumption DEF BaseInv, SegInv, LiveInv, PinInv

LEMMA Numbers ==
    ASSUME BaseInv, NEW f \in Files
    PROVE  /\ writeSeq[f] \in Nat /\ durable[f] \in Nat /\ writeSeq[f] \in 0 .. MaxWrites + 1
           /\ f \in Nat /\ active \in Nat
  BY ActiveIsLast, FileFacts, OffLockSyncAssumption DEF BaseInv, SegInv, WriteInv,
                                                        KernelInv

LEMMA FsyncedNext ==
    ASSUME BaseInv, Listed, Told, Fsynced, [Next]_vars
    PROVE  Fsynced'
<1> SUFFICES ASSUME ~Tainted', NEW g \in pinned', target'[g].res = "ok"
             PROVE  durable'[g] >= target'[g].seq
  BY DEF Fsynced
<1>0. /\ dropped \subseteq wberr
      /\ \A f \in pinned : target[f].res = "ok" => durable[f] >= target[f].seq
  BY TaintStays DEF Told, Fsynced
<1>1. \A f \in Files : durable'[f] >= durable[f] /\ durable[f] \in Nat /\ durable'[f] \in Nat
  BY KernelNext, BaseNext, OffLockSyncAssumption DEF BaseInv, SegInv, KernelInv
<1>2. ASSUME g \in pinned, target'[g] = target[g] PROVE durable'[g] >= target'[g].seq
  BY <1>0, <1>1, <1>2, PinFacts
<1>3. CASE UNCHANGED target
  BY <1>2, <1>3 DEF pinned
<1>4. ASSUME NEW p \in Syncers, SyncPrepares(p) PROVE durable'[g] >= target'[g].seq
  <2>1. PICK f \in Files : UNCHANGED target \/ Pin(f)
    BY <1>4 DEF SyncPrepares
  <2>2. CASE Pin(f)
    <3>1. pinned' = pinned \union {f} /\ target'[f].res = "run"
      <4>1. pinned' = pinned \union {f} /\ target'[f] = [seq |-> writeSeq[f], res |-> "run"]
        BY ONLY <2>2, Pinned
      <4> QED
        BY ONLY <4>1
    <3>2. g \in pinned /\ g # f
      BY <3>1
    <3>3. target'[g] = target[g]
      BY <2>2, <3>2, Pinned
    <3> QED
      BY <1>2, <3>2, <3>3
  <2> QED
    BY <1>3, <2>1, <2>2
<1>5. ASSUME NEW p \in Syncers, SyncSettles(p) PROVE FALSE
  BY <1>5 DEF SyncSettles, pinned, Unpinned
<1>6. ASSUME NEW p \in Syncers, NEW f \in Files, SyncFsyncs(p, f)
      PROVE  durable'[g] >= target'[g].seq
  <2>1. CASE g # f
    BY <1>2, <1>6, <2>1, Judged
  <2>2. CASE g = f
    <3>1. f \in pinned /\ target'[f].seq = target[f].seq /\ FsyncOk(f, target[f].seq)
      BY <1>6, Judged DEF Tainted, FailureInHand
    <3>2. live' = live
      BY <1>6 DEF SyncFsyncs, files
    <3> QED
      BY <1>0, <2>2, <3>1, <3>2, FsyncCovers, PinFacts
  <2> QED
    BY <2>1, <2>2
<1> QED
  BY <1>3, <1>4, <1>5, <1>6, TargetSteps

\* How a segment comes clean
LEMMA CleanSteps ==
    ASSUME BaseInv, [Next]_vars, NEW f \in dirty, f \notin dirty'
    PROVE  \/ FsyncOk(f, writeSeq[f]) /\ UNCHANGED live
           \/ f \in Cleaned
           \/ storeClosed /\ CloseNext
<1>1. CASE Evict
  BY <1>1 DEF Evict, FlushOpen
<1>2. CASE FlushNext
  BY <1>2 DEF FlushNext, FlushOpen
<1>3. CASE CloseNext
  BY <1>3 DEF CloseNext, Closing, BaseInv, Owner, ClosedAt
<1>4. CASE \E p \in Syncers : SyncSettles(p)
  BY <1>4 DEF SyncSettles
<1>5. CASE \/ OpBegins \/ OpReclaims \/ OpCycleFails \/ OpReadEnds \/ FlushEnds
           \/ pc["ops"] = "cycled" /\ OpAppends
           \/ (\E g \in Files : WritebackFails(g)) \/ UNCHANGED vars
  BY <1>5 DEF OpBegins, OpAppends, OpCycles, OpReads, OpCommits, Writes, OpReclaims,
     OpCycleFails, OpReadEnds, FlushEnds, WritebackFails, vars, files
<1>6. CASE CloseBegins \/ LoopExits \/ CloseLocks \/ CloseFlushes \/ CloseEnds
  BY <1>6 DEF CloseBegins, LoopExits, CloseLocks, CloseFlushes, CloseEnds, files
<1>7. CASE \E p \in Syncers : SyncCalled(p) \/ SyncLocks(p) \/ SyncRefused(p) \/ SyncLists(p)
              \/ SyncPrepares(p) \/ SyncUnlocks(p) \/ SyncEnds(p)
              \/ \E g \in Files : SyncFsyncs(p, g)
  BY <1>7 DEF SyncCalled, SyncLocks, SyncRefused, SyncLists, SyncPrepares, SyncUnlocks,
              SyncEnds,
     SyncFsyncs, files
<1> QED
  BY <1>1, <1>2, <1>3, <1>4, <1>5, <1>6, <1>7 DEF Next, OpStep, CloseStep, SyncStep

\* Unless a failure is met, a segment that comes clean has nothing at risk
LEMMA CleanedIsDurable ==
    ASSUME BaseInv, Told, Fsynced, ~Tainted, [Next]_vars, NEW f \in dirty,
           f \notin dirty',
           ~storeClosed
    PROVE  durable'[f] >= writeSeq[f]
<1>1. f \in Files /\ f <= active /\ dropped \subseteq wberr
  BY DEF BaseInv, SegInv, DirtyInv, Told
<1>2. CASE FsyncOk(f, writeSeq[f]) /\ UNCHANGED live
  BY <1>1, <1>2, FsyncCovers, Numbers
<1>3. CASE f \in Cleaned
  <2>1. durable[f] >= writeSeq[f]
    BY <1>3 DEF Cleaned, Fsynced
  <2>2. durable'[f] >= durable[f] /\ durable[f] \in Nat /\ durable'[f] \in Nat
    BY <1>1, KernelNext, BaseNext, OffLockSyncAssumption DEF BaseInv, SegInv, KernelInv
  <2> QED
    BY <1>1, <2>1, <2>2, Numbers
<1> QED
  BY <1>2, <1>3, CleanSteps

LEMMA DirtiedNext ==
    ASSUME BaseInv, Listed, Told, Fsynced, Dirtied, [Next]_vars
    PROVE  Dirtied'
<1> SUFFICES ASSUME ~Tainted', ~storeClosed', NEW f \in live', durable'[f] < writeSeq'[f]
             PROVE  f \in dirty'
  BY DEF Dirtied
<1>0. ~Tainted /\ ~storeClosed
  <2>1. storeClosed => storeClosed'
    BY DEF Next, OpBegins, OpStep, CloseStep, SyncStep, OpAppends, OpCycles, OpReads,
       OpCommits, OpReclaims, OpCycleFails, OpReadEnds, FlushNext, FlushEnds, Evict,
       WritebackFails, CloseBegins, LoopExits, CloseLocks, CloseFlushes, CloseNext,
       CloseEnds,
       SyncCalled, SyncLocks, SyncRefused, SyncLists, SyncPrepares, SyncUnlocks,
       SyncSettles,
       SyncEnds, SyncFsyncs, vars, latch
  <2> QED
    BY <2>1, TaintStays
<1>1. \A g \in live : durable[g] < writeSeq[g] => g \in dirty
  BY <1>0 DEF Dirtied
<1>2. /\ f \in Files /\ durable'[f] >= durable[f] /\ durable[f] \in Nat /\ durable'[f] \in Nat
      /\ writeSeq[f] \in Nat /\ writeSeq'[f] \in Nat
  <2>1. f \in Files
    BY BaseNext DEF BaseInv, SegInv, LiveInv
  <2> QED
    BY <2>1, KernelNext, BaseNext, OffLockSyncAssumption DEF BaseInv, SegInv, KernelInv,
                                                             WriteInv
<1>3. CASE f \in live /\ writeSeq'[f] = writeSeq[f]
  <2>1. f \in dirty
    BY <1>1, <1>2, <1>3
  <2>2. ~(durable'[f] >= writeSeq[f])
    BY <1>2, <1>3
  <2> QED
    BY <1>0, <2>1, <2>2, CleanedIsDurable
<1>4. CASE OpAppends
  <2>1. UNCHANGED live /\ Writes(active, TRUE) /\ active \in live
    BY <1>4, Appended DEF BaseInv, SegInv
  <2>2. f = active \/ writeSeq'[f] = writeSeq[f]
    BY <1>2, <2>1, Wrote DEF BaseInv, SegInv
  <2> QED
    BY <1>3, <2>1, <2>2 DEF Writes
<1>5. ASSUME NEW h \in Files, NEW full \in BOOLEAN, OpCommits(h, full) PROVE f \in dirty'
  <2>1. UNCHANGED live /\ Writes(h, FALSE) /\ h \in live
    BY <1>5 DEF OpCommits
  <2>2. f = h \/ writeSeq'[f] = writeSeq[f]
    BY <1>2, <2>1, Wrote DEF BaseInv, SegInv
  <2> QED
    BY <1>3, <2>1, <2>2 DEF Writes
<1>6. ASSUME NEW drained \in BOOLEAN, OpCycles(drained) PROVE f \in dirty'
  <2>1. f \in live \/ f = active + 1
    BY <1>6, CycledLive DEF BaseInv, SegInv
  <2>2. writeSeq'[active + 1] = 1 /\ \A g \in Files \ {active + 1} : writeSeq'[g] = writeSeq[g]
    BY <1>6, CycledWrites DEF BaseInv, SegInv
  <2>3. CASE f = active + 1
    <3>1. policy = "noSync" \/ durable'[f] = 1
      BY <1>2, <1>6, <2>3 DEF OpCycles, BaseInv, SegInv, KernelInv
    <3>2. policy = "noSync"
      BY <2>2, <2>3, <3>1
    <3> QED
      BY <1>6, <2>3, <3>2 DEF OpCycles
  <2>4. CASE f # active + 1
    BY <1>2, <1>3, <2>1, <2>2, <2>4
  <2> QED
    BY <2>3, <2>4
<1>7. CASE OpReclaims
  BY <1>3, <1>7, ReclaimedLive DEF OpReclaims, BaseInv, SegInv
<1>8. CASE UNCHANGED <<live, writeSeq>>
  BY <1>3, <1>8
<1> QED
  BY <1>4, <1>5, <1>6, <1>7, <1>8, SegSteps

LEMMA DiskInit == Init => DiskInv
<1> SUFFICES ASSUME Init PROVE DiskInv
  OBVIOUS
<1>1. Listed /\ Told /\ Fsynced
  BY DEF Init, Listed, Told, Fsynced, pinned, Unpinned
<1>2. live \subseteq Files
  BY LiveInit DEF LiveInv
<1>3. Dirtied
  BY <1>2 DEF Init, Dirtied
<1> QED
  BY <1>1, <1>3 DEF DiskInv

LEMMA DiskNext ==
    ASSUME BaseInv, DiskInv, [Next]_vars
    PROVE  DiskInv'
  BY ListedNext, ToldNext, FsyncedNext, DirtiedNext DEF DiskInv

LEMMA DiskHolds == Spec => [](BaseInv /\ DiskInv)
  BY BaseInit, BaseNext, DiskInit, DiskNext, PTL DEF Spec

LEMMA CleanOK ==
    ASSUME BaseInv, DiskInv
    PROVE  CleanIsDurable
<1> SUFFICES ASSUME ~ioErr, ~FailureInHand, ~storeClosed, NEW w \in AtRisk
             PROVE  w[1] \in dirty
  BY DEF CleanIsDurable
<1>1. w[1] \in live /\ durable[w[1]] < w[2] /\ w[2] <= writeSeq[w[1]] /\ w[1] \in Files /\ w[2] \in Nat
  BY OffLockSyncAssumption DEF AtRisk, Nth
<1>2. durable[w[1]] < writeSeq[w[1]]
  BY <1>1, Numbers
<1> QED
  BY <1>1, <1>2 DEF DiskInv, Dirtied, Tainted

\* A segment that is not marked dirty has nothing left to lose, unless a failure is
\* latched or about to be: whatever is written during an off-lock fsync, and whoever is
\* told of a failed writeback first (flushChunk, flushFile, evictOpen).
THEOREM CleanMeansDurable == Spec => []CleanIsDurable
  BY DiskHolds, CleanOK, PTL

-----------------------------------------------------------------------------
(* What a Sync promises *)

\* A Sync promises what had been written
Promised == \A f \in Files : promise[f] <= writeSeq[f]

\* Every segment is still to be fsynced, being fsynced, or done with
SyncCovers ==
    (\E p \in Syncers : Running(p)) /\ ~syncBad /\ ~Tainted =>
        \A f \in live : \/ durable[f] >= promise[f]
                        \/ f \in todo
                        \/ f \in pinned /\ target[f].seq >= promise[f]

PromiseInv == Promised /\ SyncCovers /\ kept

\* The steps that make or drop a promise
LEMMA PromiseSteps ==
    ASSUME BaseInv, [Next]_vars
    PROVE  \/ UNCHANGED promise
           \/ promise' = [f \in Files |-> 0]
           \/ promise' = writeSeq /\ UNCHANGED writeSeq
<1>1. CASE Elsewhere
  BY <1>1 DEF Elsewhere, sync
<1> QED
  BY <1>1, SyncSteps DEF BaseInv, SyncRefused, SyncLists, SyncPrepares, SyncUnlocks,
                         SyncSettles,
     SyncEnds, SyncReturns, SyncFsyncs, sync, files

LEMMA PromisedNext ==
    ASSUME BaseInv, CountInv, Promised, [Next]_vars
    PROVE  Promised'
<1>1. \A f \in Files : /\ writeSeq[f] \in Nat /\ writeSeq'[f] \in Nat /\ promise[f] \in Nat
                       /\ writeSeq'[f] >= writeSeq[f] /\ promise[f] <= writeSeq[f]
  BY WriteNext, OffLockSyncAssumption DEF BaseInv, SegInv, WriteInv, CountInv, Promised
<1> QED
  BY <1>1, PromiseSteps DEF Promised

\* Who runs after a step of p
LEMMA NoneRuns ==
    ASSUME BaseInv, NEW p \in Syncers, SyncRefused(p) \/ SyncEnds(p)
    PROVE  \A r \in Syncers : ~Running(r)'
<1>1. \A r \in Syncers \ {p} : ~Running(r)
  BY OneRuns DEF BaseInv, SyncRefused, SyncEnds, Running
<1>2. pc'[p] = "idle" /\ \A r \in Syncers \ {p} : pc'[r] = pc[r]
  BY OwnStep DEF BaseInv, SyncRefused, SyncEnds, SyncReturns, Places
<1> QED
  BY <1>1, <1>2 DEF Running

LEMMA SyncCoversNext ==
    ASSUME BaseInv, CountInv, DiskInv, Promised, SyncCovers, [Next]_vars
    PROVE  SyncCovers'
<1> SUFFICES ASSUME (\E p \in Syncers : Running(p))', ~syncBad', ~Tainted', NEW f \in live'
             PROVE  \/ durable'[f] >= promise'[f]
                    \/ f \in todo'
                    \/ f \in pinned' /\ target'[f].seq >= promise'[f]
  BY DEF SyncCovers
<1>0. ~Tainted
  BY TaintStays DEF DiskInv
<1>1. /\ f \in Files /\ durable'[f] >= durable[f] /\ durable[f] \in Nat /\ durable'[f] \in Nat
      /\ writeSeq[f] \in Nat /\ promise[f] \in Nat /\ promise[f] <= writeSeq[f]
  <2>1. f \in Files
    BY BaseNext DEF BaseInv, SegInv, LiveInv
  <2> QED
    BY <2>1, KernelNext, BaseNext, OffLockSyncAssumption
       DEF BaseInv, SegInv, KernelInv, WriteInv, CountInv, Promised
<1>2. CASE Elsewhere
  <2>1. UNCHANGED <<promise, todo, target, pinned, syncBad>>
    BY <1>2 DEF Elsewhere, sync, pinned
  <2>2. \E p \in Syncers : Running(p)
    BY <1>2 DEF Elsewhere, Running
  <2>3. CASE f \in live
    BY <1>0, <1>1, <2>1, <2>2, <2>3 DEF SyncCovers
  <2>4. CASE f \notin live
    <3>1. f = active + 1 /\ active \in Nat
      BY <2>4, ActiveGrows, CycledLive DEF BaseInv, SegInv
    <3>2. writeSeq[f] = 0
      BY <1>1, <3>1 DEF BaseInv, SegInv, WriteInv
    <3> QED
      BY <1>1, <2>1, <3>2
  <2> QED
    BY <2>3, <2>4
<1>3. ASSUME NEW p \in Syncers, SyncLists(p) PROVE durable'[f] >= promise'[f] \/ f \in todo'
  <2>1. f \in live /\ promise' = writeSeq /\ todo' = dirty \intersect live
    BY <1>3 DEF SyncLists, files
  <2>2. ~storeClosed
    BY <1>3 DEF SyncLists, BaseInv, Owner, ClosedAt
  <2>3. f \in dirty \/ ~(durable[f] < writeSeq[f])
    BY <1>0, <2>1, <2>2 DEF DiskInv, Dirtied
  <2> QED
    BY <1>1, <2>1, <2>3
<1>4. ASSUME NEW p \in Syncers, SyncPrepares(p)
      PROVE  \/ durable'[f] >= promise'[f] \/ f \in todo'
             \/ f \in pinned' /\ target'[f].seq >= promise'[f]
  <2>1. UNCHANGED <<live, dirty, writeSeq, promise>> /\ Running(p)
    BY <1>4 DEF SyncPrepares, Running
  <2>2. PICK h \in Files :
           /\ First(h, todo) /\ todo' = todo \ {h}
           /\ \/ (h \notin live \/ h \notin dirty) /\ UNCHANGED <<target, syncBad>>
              \/ Pin(h) /\ UNCHANGED syncBad
              \/ syncBad' = TRUE
    BY <1>4 DEF SyncPrepares
  <2>3. ~syncBad /\ (h \notin live \/ h \notin dirty \/ Pin(h)) /\ (UNCHANGED target \/ Pin(h))
    BY <2>2
  <2>4. h \in todo /\ h \notin pinned
    BY <2>2 DEF First, DiskInv, Listed
  <2>5. \A g \in pinned : g \in pinned' /\ target'[g] = target[g]
    <3>1. CASE UNCHANGED target
      BY <3>1 DEF pinned
    <3>2. CASE Pin(h)
      BY <2>4, <3>2, Pinned
    <3> QED
      BY <2>3, <3>1, <3>2
  <2>6. CASE f = h
    <3>1. CASE Pin(h)
      <4>1. pinned' = pinned \union {h} /\ target'[h] = [seq |-> writeSeq[h], res |-> "run"]
        BY ONLY <3>1, Pinned
      <4>2. h \in pinned' /\ target'[h].seq = writeSeq[h]
        BY ONLY <4>1
      <4> QED
        BY <1>1, <2>1, <2>6, <4>2
    <3>2. CASE h \notin dirty
      <4>1. ~storeClosed
        BY <2>1 DEF BaseInv, SessionInv
      <4>2. ~(durable[f] < writeSeq[f])
        BY <1>0, <2>1, <2>6, <3>2, <4>1 DEF DiskInv, Dirtied
      <4> QED
        BY <1>1, <2>1, <4>2
    <3> QED
      BY <2>1, <2>3, <2>6, <3>1, <3>2
  <2>7. CASE f # h
    BY <1>0, <1>1, <2>1, <2>2, <2>3, <2>5, <2>7 DEF SyncCovers
  <2> QED
    BY <2>6, <2>7
<1>5. ASSUME NEW p \in Syncers, SyncSettles(p) PROVE durable'[f] >= promise'[f] \/ f \in todo'
  <2>1. UNCHANGED <<live, promise, todo, durable>> /\ Running(p)
    BY <1>5 DEF SyncSettles, Running, kernel
  <2>2. ~syncBad /\ \A g \in pinned : target[g].res \notin {"run", "err"}
    BY <1>5 DEF SyncSettles
  <2>3. CASE f \in pinned /\ target[f].seq >= promise[f]
    <3>1. target[f].res = "ok"
      BY <2>2, <2>3 DEF BaseInv, SegInv, PinInv, Verdicts
    <3>2. durable[f] >= target[f].seq /\ target[f].seq \in Nat
      BY <1>0, <2>3, <3>1, PinFacts DEF DiskInv, Fsynced
    <3> QED
      BY <1>1, <2>1, <2>3, <3>2
  <2> QED
    BY <1>0, <1>1, <2>1, <2>2, <2>3 DEF SyncCovers
<1>6. ASSUME NEW p \in Syncers, NEW h \in Files, SyncFsyncs(p, h)
      PROVE  \/ durable'[f] >= promise'[f] \/ f \in todo'
             \/ f \in pinned' /\ target'[f].seq >= promise'[f]
  <2>1. UNCHANGED <<live, promise, todo, syncBad>> /\ Running(p)
    BY <1>6 DEF SyncFsyncs, Running, files
  <2>2. pinned' = pinned /\ \A g \in pinned : target'[g].seq = target[g].seq
    BY <1>6, Judged
  <2> QED
    BY <1>0, <1>1, <2>1, <2>2 DEF SyncCovers
<1>7. ASSUME NEW p \in Syncers, SyncUnlocks(p)
      PROVE  \/ durable'[f] >= promise'[f] \/ f \in todo'
             \/ f \in pinned' /\ target'[f].seq >= promise'[f]
  <2>1. UNCHANGED <<live, promise, todo, syncBad, target, pinned>> /\ Running(p)
    BY <1>7 DEF SyncUnlocks, Running, files, sync, pinned
  <2> QED
    BY <1>0, <1>1, <2>1 DEF SyncCovers
<1> QED
  BY <1>2, <1>3, <1>4, <1>5, <1>6, <1>7, SyncSteps, NoneRuns DEF BaseInv

\* At the end of a Sync nothing is left to do
LEMMA NothingLeft ==
    ASSUME BaseInv, NEW p \in Syncers, pc[p] = "finish"
    PROVE  pinned = {} /\ todo = {} /\ ~FailureInHand
<1>1. \A r \in Syncers : pc[r] \notin {"prepare", "fsync"}
  BY OneRuns DEF BaseInv, Running
<1>2. pinned = {} /\ todo = {}
  BY <1>1 DEF BaseInv, SessionInv
<1> QED
  BY <1>2 DEF FailureInHand

LEMMA PromiseDone ==
    ASSUME BaseInv, SyncCovers, NEW p \in Syncers, pc[p] = "finish", ~syncBad, ~ioErr
    PROVE  \A f \in live : durable[f] >= promise[f]
<1>1. Running(p)
  BY DEF Running
<1> QED
  BY <1>1, NothingLeft DEF SyncCovers, Tainted

LEMMA KeptNext ==
    ASSUME BaseInv, SyncCovers, kept, [Next]_vars
    PROVE  kept'
<1>1. CASE Elsewhere
  BY <1>1 DEF Elsewhere, sync
<1>2. ASSUME NEW p \in Syncers, SyncEnds(p) PROVE kept'
  <2>1. CASE ~syncBad /\ ~ioErr
    <3>1. \A f \in live : durable[f] >= promise[f]
      BY <1>2, <2>1, PromiseDone DEF SyncEnds
    <3> QED
      BY <1>2, <3>1 DEF SyncEnds, SyncReturns
  <2>2. CASE syncBad \/ ioErr
    BY <1>2, <2>2 DEF SyncEnds, SyncReturns
  <2> QED
    BY <2>1, <2>2
<1>3. ASSUME NEW p \in Syncers, SyncRefused(p) PROVE kept'
  BY <1>3 DEF SyncRefused, SyncReturns
<1> QED
  BY <1>1, <1>2, <1>3, SyncSteps DEF BaseInv, SyncLists, SyncPrepares, SyncUnlocks,
                                     SyncSettles,
     SyncFsyncs, sync

LEMMA PromiseNext ==
    ASSUME BaseInv, CountInv, DiskInv, PromiseInv, [Next]_vars
    PROVE  PromiseInv'
  BY PromisedNext, SyncCoversNext, KeptNext DEF PromiseInv

SyncInv == TypeInv /\ DiskInv /\ PromiseInv

LEMMA SyncInit == Init => SyncInv
<1> SUFFICES ASSUME Init PROVE SyncInv
  OBVIOUS
<1>1. Promised /\ kept
  BY DEF Init, Promised
<1>2. SyncCovers
  <2>1. live \subseteq Files
    BY LiveInit DEF LiveInv
  <2> QED
    BY <2>1 DEF Init, SyncCovers
<1> QED
  BY <1>1, <1>2, TypeInit, DiskInit DEF SyncInv, PromiseInv

LEMMA SyncNext ==
    ASSUME SyncInv, [Next]_vars
    PROVE  SyncInv'
<1>1. TypeInv /\ DiskInv /\ PromiseInv /\ BaseInv /\ CountInv
  BY DEF SyncInv, TypeInv
<1> QED
  BY <1>1, TypeNext, DiskNext, PromiseNext DEF SyncInv

LEMMA SyncHolds == Spec => []SyncInv
  BY SyncInit, SyncNext, PTL DEF Spec

\* On a nil return of Sync everything written before it listed the dirty set, in a
\* segment that still exists, is durable: for every number of segments, writes, chunks
\* and lost writebacks, and whatever runs beside it (syncOffLock).
THEOREM SyncIsHonest == Spec => []SyncKeepsPromise
<1>1. SyncInv => SyncKeepsPromise
  BY DEF SyncInv, PromiseInv, SyncKeepsPromise
<1> QED
  BY <1>1, SyncHolds, PTL

-----------------------------------------------------------------------------
(* The gauges *)

InFlush == pc["ops"] \in {"flush", "commitFlush"} \/ pc["closer"] = "closeFlush"

\* A flush under the lock has the rest of what is at risk before it
FlushCovers ==
    InFlush /\ ~flushBad /\ ~Tainted =>
        \A f \in live : durable[f] < writeSeq[f] => f \in flushTodo /\ f \in dirty

\* What such a flush meets
LEMMA FlushSteps ==
    ASSUME BaseInv, [Next]_vars, InFlush'
    PROVE  \/ InFlush /\ UNCHANGED <<live, writeSeq, dirty, flushTodo, flushBad>>
           \/ InFlush /\ Evict /\ UNCHANGED <<live, writeSeq, flushTodo, flushBad>>
           \/ FlushNext \/ CloseNext \/ CloseFlushes
           \/ flushTodo' = live' /\ ~storeClosed'
<1>0. Owner'
  BY BaseNext DEF BaseInv
<1>1. mu' \in {"ops", "closer"} /\ (mu' = "ops" => pc'["ops"] \in {"flush", "commitFlush"})
  BY <1>0 DEF InFlush, Owner, MuHeld, PlacesOK
<1>2. CASE OpAppends \/ \E f \in Files : \E full \in BOOLEAN : OpCommits(f, full)
  <2>1. mu' = "ops"
    BY <1>1, <1>2 DEF OpAppends, OpCommits, FlushBegins, Done, Free
  <2>2. ~storeClosed'
    BY <1>0, <2>1 DEF Owner, MuHeld, ClosedAt
  <2>3. pc'["ops"] # "reclaim"
    BY <1>1, <2>1
  <2>4. ~Goto("ops", "reclaim")
    BY <2>3, GotoPlace DEF BaseInv, Owner, Procs, Places
  <2>5. flushTodo' = live
    BY <1>1, <1>2, <2>1, <2>4 DEF OpAppends, OpCommits, FlushBegins, Done, Free
  <2> QED
    BY <1>2, <2>2, <2>5 DEF OpAppends, OpCommits
<1>3. CASE OpReclaims \/ OpCycleFails \/ OpReadEnds \/ CloseEnds
  BY <1>1, <1>3 DEF OpReclaims, OpCycleFails, OpReadEnds, CloseEnds, Done, Free
<1>4. CASE FlushEnds
  <2>1. mu = "ops" /\ mu' = "ops" /\ Goto("ops", "reclaim")
    BY <1>1, <1>4 DEF FlushEnds, Flushing, Holds, Done, Free
  <2> QED
    BY <1>1, <2>1, GotoPlace DEF BaseInv, Owner, Procs, Places
<1>5. CASE (\E drained \in BOOLEAN : OpCycles(drained)) \/ \E f \in Files : OpReads(f)
  <2>1. mu' = Free \/ (mu' = "ops" /\ (Goto("ops", "cycled") \/ Goto("ops", "opened")))
    BY <1>5 DEF OpCycles, OpReads, Begins
  <2>2. mu' = "ops" /\ pc'["ops"] \in {"cycled", "opened"}
    BY <1>1, <2>1, GotoPlace DEF BaseInv, Owner, Procs, Places, Free
  <2> QED
    BY <1>1, <2>2
<1>6. CASE Evict
  <2>1. InFlush
    BY <1>6 DEF InFlush, Evict
  <2> QED
    BY <1>6, <2>1 DEF Evict, op
<1>7. CASE (\E f \in Files : WritebackFails(f)) \/ UNCHANGED vars
           \/ \E p \in Syncers, f \in Files : SyncFsyncs(p, f)
  BY <1>7 DEF InFlush, WritebackFails, SyncFsyncs, vars, files, op
<1>8. CASE CloseBegins \/ CloseLocks
  <2>1. UNCHANGED <<live, writeSeq, dirty, flushTodo, flushBad>>
    BY <1>8 DEF CloseBegins, CloseLocks, files, op
  <2>2. pc'["ops"] = pc["ops"] /\ pc'["closer"] # "closeFlush"
    BY <1>8, GotoPlace DEF CloseBegins, CloseLocks, BaseInv, Owner, Procs, Places
  <2> QED
    BY <2>1, <2>2 DEF InFlush
<1>9. CASE LoopExits \/ \E p \in Syncers : SyncCalled(p) \/ SyncLocks(p)
  <2>1. UNCHANGED <<live, writeSeq, dirty, flushTodo, flushBad>>
    BY <1>9 DEF LoopExits, SyncCalled, SyncLocks, files, op
  <2>2. PICK p \in Syncers, q \in {"exited", "wait", "enter"} : Goto(p, q)
    BY <1>9 DEF LoopExits, SyncCalled, SyncLocks, Syncers
  <2>3. pc'["ops"] = pc["ops"] /\ pc'["closer"] = pc["closer"]
    BY <2>2, GotoPlace DEF BaseInv, Owner, Procs, Places, Syncers
  <2> QED
    BY <2>1, <2>3 DEF InFlush
<1>10. ASSUME NEW p \in Syncers,
              SyncRefused(p) \/ SyncLists(p) \/ SyncPrepares(p) \/ SyncUnlocks(p)
              \/ SyncSettles(p) \/ SyncEnds(p)
       PROVE  FALSE
  BY <1>1, <1>10 DEF SyncRefused, SyncLists, SyncPrepares, SyncUnlocks, SyncSettles,
                     SyncEnds,
     SyncReturns, Holds, Free, Syncers
<1> QED
  BY <1>2, <1>3, <1>4, <1>5, <1>6, <1>7, <1>8, <1>9, <1>10
     DEF Next, OpBegins, OpStep, CloseStep, SyncStep

LEMMA FlushCoversNext ==
    ASSUME BaseInv, DiskInv, FlushCovers, [Next]_vars
    PROVE  FlushCovers'
<1> SUFFICES ASSUME InFlush', ~flushBad', ~Tainted', NEW f \in live', durable'[f] < writeSeq'[f]
             PROVE  f \in flushTodo' /\ f \in dirty'
  BY DEF FlushCovers
<1>0. ~Tainted /\ ~ioErr /\ dropped \subseteq wberr
  BY TaintStays DEF DiskInv, Told, Tainted
<1>1. /\ f \in Files /\ durable'[f] >= durable[f] /\ durable[f] \in Nat /\ durable'[f] \in Nat
      /\ writeSeq[f] \in Nat /\ writeSeq'[f] \in Nat
  <2>1. f \in Files
    BY BaseNext DEF BaseInv, SegInv, LiveInv
  <2> QED
    BY <2>1, KernelNext, BaseNext, OffLockSyncAssumption DEF BaseInv, SegInv, KernelInv,
                                                             WriteInv
<1>2. CASE InFlush /\ UNCHANGED <<live, writeSeq, dirty, flushTodo, flushBad>>
  BY <1>0, <1>1, <1>2 DEF FlushCovers
<1>3. CASE flushTodo' = live' /\ ~storeClosed'
  BY <1>3, DirtiedNext DEF DiskInv, Dirtied
<1>4. CASE CloseFlushes
  <2>1. ~storeClosed
    BY <1>4 DEF CloseFlushes, BaseInv, Owner, ClosedAt
  <2>2. UNCHANGED <<live, writeSeq, dirty>> /\ flushTodo' = live
    BY <1>4 DEF CloseFlushes, files
  <2> QED
    BY <1>0, <1>1, <2>1, <2>2 DEF DiskInv, Dirtied
<1>5. ASSUME NEW h \in dirty, FsyncOk(h, writeSeq[h]), live' = live, writeSeq' = writeSeq PROVE f # h
  <2>1. SUFFICES ASSUME f = h PROVE FALSE
    OBVIOUS
  <2>2. h \in Files /\ h <= active
    BY DEF BaseInv, SegInv, DirtyInv
  <2>3. durable'[h] >= writeSeq[h]
    BY <1>0, <1>5, <2>2, FsyncCovers, Numbers
  <2> QED
    BY <1>1, <1>5, <2>1, <2>3
<1>6. CASE InFlush /\ Evict /\ UNCHANGED <<live, writeSeq, flushTodo, flushBad>>
  <2>1. f \in flushTodo /\ f \in dirty
    BY <1>0, <1>1, <1>6 DEF FlushCovers
  <2>2. dirty' = dirty \/ \E v \in dirty : FsyncOk(v, writeSeq[v]) /\ dirty' = dirty \ {v}
    BY <1>6 DEF Evict, FlushOpen
  <2> QED
    BY <1>5, <1>6, <2>1, <2>2
<1>7. CASE FlushNext
  <2>1. UNCHANGED <<live, writeSeq>> /\ InFlush
    BY <1>7 DEF FlushNext, Flushing, InFlush
  <2>2. PICK h \in Files :
           \/ /\ \E ok \in BOOLEAN : FlushOpen(h, ok) /\ flushBad' = (flushBad \/ ~ok)
              /\ flushTodo' = flushTodo \ {h}
           \/ UNCHANGED <<flushTodo, flushBad, dirty>>
    BY <1>7 DEF FlushNext
  <2>3. CASE UNCHANGED <<flushTodo, flushBad, dirty>>
    BY <1>0, <1>1, <2>1, <2>3 DEF FlushCovers
  <2>4. CASE /\ \E ok \in BOOLEAN : FlushOpen(h, ok) /\ flushBad' = (flushBad \/ ~ok)
             /\ flushTodo' = flushTodo \ {h}
    <3>1. PICK ok \in BOOLEAN : FlushOpen(h, ok) /\ flushBad' = (flushBad \/ ~ok)
      BY <2>4
    <3>2. ok /\ ~flushBad
      BY <3>1
    <3>3. f \in flushTodo /\ f \in dirty
      BY <1>0, <1>1, <2>1, <3>2 DEF FlushCovers
    <3>4. \/ h \notin dirty /\ dirty' = dirty
          \/ h \in dirty /\ FsyncOk(h, writeSeq[h]) /\ dirty' = dirty \ {h}
      BY <1>0, <3>1, <3>2 DEF FlushOpen
    <3> QED
      BY <1>5, <2>1, <2>4, <3>3, <3>4
  <2> QED
    BY <2>2, <2>3, <2>4
<1>8. CASE CloseNext
  <2>1. UNCHANGED <<live, writeSeq>> /\ InFlush
    BY <1>8 DEF CloseNext, Closing, InFlush
  <2>2. PICK h \in Files :
           \/ UNCHANGED <<flushTodo, flushBad, dirty>>
           \/ flushBad'
           \/ /\ \/ h \notin dirty \/ ioErr
                 \/ FsyncOk(h, writeSeq[h])
              /\ flushBad' = flushBad \/ flushBad' = (flushBad \/ ioErr)
              /\ flushTodo' = flushTodo \ {h} /\ dirty' = dirty \ {h}
    BY <1>8 DEF CloseNext
  <2>3. ~flushBad
    BY <2>2
  <2>4. f \in flushTodo /\ f \in dirty
    BY <1>0, <1>1, <2>1, <2>3 DEF FlushCovers
  <2> QED
    BY <1>0, <1>5, <2>1, <2>2, <2>4
<1> QED
  BY <1>2, <1>3, <1>4, <1>6, <1>7, <1>8, FlushSteps

\* Once it is through, nothing is at risk
LEMMA NothingAtRisk ==
    ASSUME BaseInv, FlushCovers, InFlush, ~flushBad, ~Tainted, flushTodo = {}
    PROVE  AtRisk = {}
<1> SUFFICES ASSUME NEW w \in AtRisk PROVE FALSE
  OBVIOUS
<1>1. w[1] \in live /\ durable[w[1]] < w[2] /\ w[2] <= writeSeq[w[1]] /\ w[1] \in Files /\ w[2] \in Nat
  BY OffLockSyncAssumption DEF AtRisk, Nth
<1>2. durable[w[1]] < writeSeq[w[1]]
  BY <1>1, Numbers
<1> QED
  BY <1>1, <1>2 DEF FlushCovers

\* How the set of writes at risk changes
LEMMA RiskSteps ==
    ASSUME BaseInv, [Next]_vars
    PROVE  \/ AtRisk' \subseteq AtRisk /\ records' = records
           \/ \E f \in live, r \in BOOLEAN :
                 /\ Writes(f, r)
                 /\ AtRisk' \subseteq AtRisk \union {<<f, writeSeq[f] + 1>>}
                 /\ records' \subseteq records \union {<<f, writeSeq[f] + 1>>}
                 /\ ~r => records' = records
                 /\ <<f, writeSeq[f] + 1>> \notin records
           \/ /\ UNCHANGED <<gauges, policy>> /\ records' = records
              /\ <<active + 1, 1>> \notin records
              /\ AtRisk' \subseteq AtRisk \union {<<active + 1, 1>>}
              /\ policy # "noSync" => AtRisk' \subseteq AtRisk
<1>1. \A f \in Files : /\ durable'[f] >= durable[f] /\ durable[f] \in Nat /\ durable'[f] \in Nat
                       /\ writeSeq[f] \in Nat /\ writeSeq'[f] \in Nat
  BY KernelNext, BaseNext, OffLockSyncAssumption DEF BaseInv, SegInv, KernelInv, WriteInv
<1>2. ASSUME NEW w \in AtRisk'
      PROVE  /\ w \in Files \X Nth /\ w = <<w[1], w[2]>>
             /\ w[1] \in live' /\ w[1] \in Files
             /\ w[2] \in Nat /\ w[2] >= 1
             /\ durable'[w[1]] < w[2] /\ w[2] <= writeSeq'[w[1]]
             /\ durable[w[1]] < w[2]
  <2>1. /\ w \in Files \X Nth /\ w[1] \in live' /\ w[1] \in Files /\ w[2] \in Nat /\ w[2] >= 1
        /\ w = <<w[1], w[2]>> /\ durable'[w[1]] < w[2] /\ w[2] <= writeSeq'[w[1]]
    BY OffLockSyncAssumption DEF AtRisk, Nth
  <2> QED
    BY <1>1, <2>1
<1>3. ASSUME NEW w \in AtRisk', w[1] \in live, writeSeq'[w[1]] = writeSeq[w[1]]
      PROVE  w \in AtRisk
  BY <1>2, <1>3 DEF AtRisk
<1>4. ASSUME live' \subseteq live, UNCHANGED <<writeSeq, records>>
      PROVE  AtRisk' \subseteq AtRisk /\ records' = records
  BY <1>2, <1>3, <1>4
<1>5. ASSUME NEW f \in live, NEW r \in BOOLEAN, Writes(f, r), UNCHANGED live
      PROVE  /\ AtRisk' \subseteq AtRisk \union {<<f, writeSeq[f] + 1>>}
             /\ records' \subseteq records \union {<<f, writeSeq[f] + 1>>}
             /\ ~r => records' = records
             /\ <<f, writeSeq[f] + 1>> \notin records
  <2>1. /\ writeSeq'[f] = writeSeq[f] + 1 /\ f \in Files
        /\ \A g \in Files \ {f} : writeSeq'[g] = writeSeq[g]
        /\ records' \subseteq records \union {<<f, writeSeq[f] + 1>>}
        /\ ~r => records' = records
    BY <1>5, Wrote DEF BaseInv, SegInv, LiveInv
  <2>2. <<f, writeSeq[f] + 1>> \notin records
    <3>1. ASSUME <<f, writeSeq[f] + 1>> \in records PROVE writeSeq[f] + 1 <= writeSeq[f]
      BY <3>1 DEF BaseInv, SegInv, WriteInv
    <3> QED
      BY <1>1, <2>1, <3>1
  <2>3. ASSUME NEW w \in AtRisk' PROVE w \in AtRisk \/ w = <<f, writeSeq[f] + 1>>
    <3>1. CASE w[1] # f
      BY <1>2, <1>3, <1>5, <2>1, <3>1
    <3>2. CASE w[1] = f /\ w[2] <= writeSeq[f]
      BY <1>2, <1>5, <3>2 DEF AtRisk
    <3>3. CASE w[1] = f /\ ~(w[2] <= writeSeq[f])
      <4>1. w[2] = writeSeq[f] + 1
        BY <1>1, <1>2, <2>1, <3>3
      <4> QED
        BY <1>2, <3>3, <4>1
    <3> QED
      BY <3>1, <3>2, <3>3
  <2> QED
    BY <2>1, <2>2, <2>3
<1>6. CASE OpAppends
  BY <1>5, <1>6, Appended DEF BaseInv, SegInv
<1>7. CASE \E f \in Files : \E full \in BOOLEAN : OpCommits(f, full)
  <2>1. PICK f \in Files, full \in BOOLEAN : OpCommits(f, full)
    BY <1>7
  <2>2. f \in live /\ Writes(f, FALSE) /\ UNCHANGED live /\ FALSE \in BOOLEAN
    BY <2>1 DEF OpCommits
  <2> QED
    BY <1>5, <2>2
<1>8. ASSUME NEW drained \in BOOLEAN, OpCycles(drained)
      PROVE  /\ UNCHANGED <<gauges, policy>> /\ records' = records
             /\ <<active + 1, 1>> \notin records
             /\ AtRisk' \subseteq AtRisk \union {<<active + 1, 1>>}
             /\ policy # "noSync" => AtRisk' \subseteq AtRisk
  <2>1. /\ UNCHANGED <<gauges, policy>> /\ active + 1 \in Files
        /\ live' \subseteq live \union {active + 1}
        /\ active + 1 \notin live
    BY <1>8, CycledLive DEF OpCycles, BaseInv, SegInv
  <2>2. /\ writeSeq'[active + 1] = 1 /\ writeSeq[active + 1] = 0 /\ records' = records
        /\ \A g \in Files \ {active + 1} : writeSeq'[g] = writeSeq[g]
    BY <1>8, CycledWrites DEF BaseInv, SegInv
  <2>3. <<active + 1, 1>> \notin records
    <3>1. ASSUME <<active + 1, 1>> \in records PROVE 1 <= writeSeq[active + 1]
      BY <3>1 DEF BaseInv, SegInv, WriteInv
    <3> QED
      BY <2>2, <3>1
  <2>4. ASSUME NEW w \in AtRisk', w[1] # active + 1 PROVE w \in AtRisk
    BY <1>2, <1>3, <2>1, <2>2, <2>4
  <2>5. ASSUME NEW w \in AtRisk', w[1] = active + 1
        PROVE  w = <<active + 1, 1>> /\ durable'[active + 1] = 0
    <3>1. /\ w = <<w[1], w[2]>> /\ w[2] \in Nat /\ w[2] >= 1 /\ w[2] <= 1
          /\ durable'[active + 1] < w[2]
      BY <1>2, <2>2, <2>5
    <3>2. w[2] = 1 /\ durable'[active + 1] = 0
      BY <1>1, <2>1, <3>1
    <3> QED
      BY <2>5, <3>1, <3>2
  <2>6. policy # "noSync" => durable'[active + 1] = 1
    BY <1>8, <2>1 DEF OpCycles, BaseInv, SegInv, KernelInv
  <2> QED
    BY <2>1, <2>2, <2>3, <2>4, <2>5, <2>6
<1>9. CASE OpReclaims
  BY <1>4, <1>9, ReclaimedLive DEF OpReclaims, BaseInv, SegInv
<1>10. CASE UNCHANGED <<live, committed, writeSeq, records>>
  BY <1>4, <1>10
<1> QED
  BY <1>6, <1>7, <1>8, <1>9, <1>10, SegSteps

\* The writes at risk that are newer than a snapshot of the write numbers, and gauges
\* that exceed a snapshot of them by at least as much
Newer(since) == {w \in AtRisk : w[2] > since[w[1]]}

Exceed(since, ops, bytes) ==
    /\ unsyncedBytes >= bytes + Cardinality(Newer(since) \intersect records)
    /\ policy = "batched" => unsynced >= ops + Cardinality(Newer(since))

LEMMA RiskFacts ==
    ASSUME NEW S, S \subseteq Files \X Nth
    PROVE  /\ IsFiniteSet(S) /\ Cardinality(S) \in Nat
           /\ \A T \in SUBSET S : IsFiniteSet(T) /\ Cardinality(T) \in Nat
                                  /\ Cardinality(T) <= Cardinality(S)
           /\ \A e : Cardinality(S \union {e}) \in Nat /\ Cardinality(S \union {e}) <= Cardinality(S) + 1
                     /\ IsFiniteSet(S \union {e})
<1>1. IsFiniteSet(S) /\ Cardinality(S) \in Nat
  BY FilesFinite, FS_Subset, FS_CardinalityType
<1>2. ASSUME NEW T \in SUBSET S
      PROVE  IsFiniteSet(T) /\ Cardinality(T) \in Nat /\ Cardinality(T) <= Cardinality(S)
  BY <1>1, FS_Subset, FS_CardinalityType
<1>3. ASSUME NEW e
      PROVE  /\ Cardinality(S \union {e}) \in Nat /\ Cardinality(S \union {e}) <= Cardinality(S) + 1
             /\ IsFiniteSet(S \union {e})
  <2>1. /\ IsFiniteSet(S \union {e})
        /\ Cardinality(S \union {e}) = IF e \in S THEN Cardinality(S) ELSE Cardinality(S) + 1
    BY <1>1, FS_AddElement
  <2> QED
    BY <1>1, <2>1
<1> QED
  BY <1>1, <1>2, <1>3

LEMMA Grows ==
    ASSUME NEW S, S \subseteq Files \X Nth, NEW T, NEW e, T \subseteq S \union {e}
    PROVE  Cardinality(T) \in Nat /\ Cardinality(T) <= Cardinality(S) + 1
<1>1. /\ IsFiniteSet(S \union {e}) /\ Cardinality(S \union {e}) \in Nat
      /\ Cardinality(S \union {e}) <= Cardinality(S) + 1 /\ Cardinality(S) \in Nat
  BY RiskFacts
<1>2. Cardinality(T) \in Nat /\ Cardinality(T) <= Cardinality(S \union {e})
  BY <1>1, FS_Subset, FS_CardinalityType
<1> QED
  BY <1>1, <1>2

\* Between two resets the gauges keep up with what is written
LEMMA ExceedKept ==
    ASSUME BaseInv, CountInv, [Next]_vars, NEW since, NEW ops \in Nat, NEW bytes \in Nat,
           Exceed(since, ops, bytes), UNCHANGED gauges \/ \E f, r : Writes(f, r),
           UNCHANGED policy
    PROVE  Exceed(since, ops, bytes)'
<1> DEFINE N == Newer(since)
           M == N \intersect records
           Nx == {w \in AtRisk' : w[2] > since[w[1]]}
           Mx == Nx \intersect records'
<1>1. N \subseteq Files \X Nth /\ M \subseteq Files \X Nth
  BY DEF Newer, AtRisk
<1>2. Cardinality(N) \in Nat /\ Cardinality(M) \in Nat
  BY <1>1, RiskFacts
<1>3. unsynced \in Nat /\ unsyncedBytes \in Nat
  BY DEF CountInv
<1>4. /\ unsyncedBytes >= bytes + Cardinality(M)
      /\ policy = "batched" => unsynced >= ops + Cardinality(N)
  BY DEF Exceed
<1>5. SUFFICES /\ unsyncedBytes' >= bytes + Cardinality(Mx)
               /\ policy = "batched" => unsynced' >= ops + Cardinality(Nx)
  BY DEF Exceed, Newer
<1>6. unsyncedBytes' >= unsyncedBytes /\ unsynced' >= unsynced
      /\ unsyncedBytes' \in Nat /\ unsynced' \in Nat
  BY <1>3 DEF gauges, Writes
<1>7. CASE AtRisk' \subseteq AtRisk /\ records' = records
  <2>1. Nx \subseteq N /\ Mx \subseteq M
    BY <1>7 DEF Newer
  <2>2. /\ Cardinality(Nx) \in Nat /\ Cardinality(Nx) <= Cardinality(N)
        /\ Cardinality(Mx) \in Nat /\ Cardinality(Mx) <= Cardinality(M)
    BY <1>1, <2>1, RiskFacts
  <2> HIDE DEF N, M, Nx, Mx
  <2> QED
    BY <1>2, <1>3, <1>4, <1>6, <2>2
<1>8. ASSUME NEW f \in live, NEW r \in BOOLEAN, Writes(f, r),
             AtRisk' \subseteq AtRisk \union {<<f, writeSeq[f] + 1>>},
             records' \subseteq records \union {<<f, writeSeq[f] + 1>>},
             ~r => records' = records, <<f, writeSeq[f] + 1>> \notin records
      PROVE  /\ unsyncedBytes' >= bytes + Cardinality(Mx)
             /\ policy = "batched" => unsynced' >= ops + Cardinality(Nx)
  <2>1. Nx \subseteq N \union {<<f, writeSeq[f] + 1>>}
    BY <1>8 DEF Newer
  <2>2. Mx \subseteq M \union {<<f, writeSeq[f] + 1>>} /\ (~r => Mx \subseteq M)
    BY <1>8, <2>1
  <2>3. Cardinality(Nx) \in Nat /\ Cardinality(Nx) <= Cardinality(N) + 1
    BY <1>1, <2>1, Grows
  <2>4. Cardinality(Mx) \in Nat /\ Cardinality(Mx) <= Cardinality(M) + 1
    BY <1>1, <2>2, Grows
  <2>5. ~r => Cardinality(Mx) <= Cardinality(M)
    BY <1>1, <2>2, RiskFacts
  <2>6. policy = "batched" => unsynced' = unsynced + 1
    BY <1>3, <1>8 DEF Writes
  <2>7. r => unsyncedBytes' = unsyncedBytes + 1
    BY <1>3, <1>8 DEF Writes
  <2> HIDE DEF N, M, Nx, Mx
  <2>8. policy = "batched" => unsynced' >= ops + Cardinality(Nx)
    BY <1>2, <1>3, <1>4, <2>3, <2>6
  <2>9. CASE r
    <3>1. unsyncedBytes' = unsyncedBytes + 1
      BY <2>7, <2>9
    <3>2. unsyncedBytes' >= bytes + Cardinality(Mx)
      BY ONLY <1>2, <1>3, <1>4, <2>4, <3>1, bytes \in Nat
    <3> QED
      BY <2>8, <3>2
  <2>10. CASE ~r
    <3>1. Cardinality(Mx) <= Cardinality(M)
      BY <2>5, <2>10
    <3>2. unsyncedBytes' >= bytes + Cardinality(Mx)
      BY ONLY <1>2, <1>3, <1>4, <1>6, <2>4, <3>1, bytes \in Nat
    <3> QED
      BY <2>8, <3>2
  <2> QED
    BY <2>9, <2>10
<1>9. CASE /\ records' = records /\ <<active + 1, 1>> \notin records
           /\ AtRisk' \subseteq AtRisk \union {<<active + 1, 1>>}
           /\ policy # "noSync" => AtRisk' \subseteq AtRisk
  <2>1. Mx \subseteq M
    BY <1>9 DEF Newer
  <2>2. Cardinality(Mx) \in Nat /\ Cardinality(Mx) <= Cardinality(M)
    BY <1>1, <2>1, RiskFacts
  <2>3. ASSUME policy = "batched" PROVE unsynced' >= ops + Cardinality(Nx)
    <3>1. Nx \subseteq N
      BY <1>9, <2>3 DEF Newer
    <3>2. Cardinality(Nx) \in Nat /\ Cardinality(Nx) <= Cardinality(N)
      BY <1>1, <3>1, RiskFacts
    <3>3. unsynced >= ops + Cardinality(N)
      BY <1>4, <2>3
    <3> HIDE DEF N, M, Nx, Mx
    <3> QED
      BY ONLY <1>2, <1>3, <1>6, <3>2, <3>3, ops \in Nat
  <2>4. unsyncedBytes' >= bytes + Cardinality(Mx)
    <3> HIDE DEF N, M, Nx, Mx
    <3> QED
      BY ONLY <1>2, <1>3, <1>4, <1>6, <2>2, bytes \in Nat
  <2> QED
    BY <2>3, <2>4
<1> QED
  BY <1>7, <1>8, <1>9, RiskSteps

Epochs == snap.epoch <= flushEpoch

\* Until a flush resets them, the gauges are ahead of a running Sync's snapshot
SnapHonest ==
    (\E p \in Syncers : Running(p)) /\ ~Tainted /\ flushEpoch = snap.epoch =>
        Exceed(promise, snap.ops, snap.bytes)

GaugeInv == FlushCovers /\ Epochs /\ SnapHonest /\ GaugesHonest

LEMMA PolicyKept ==
    ASSUME [Next]_vars
    PROVE  UNCHANGED policy
  BY DEF Next, OpBegins, OpStep, CloseStep, SyncStep, OpAppends, OpCycles, OpReads,
     OpCommits, OpReclaims, OpCycleFails, OpReadEnds, FlushNext, FlushEnds, Evict,
     WritebackFails, CloseBegins, LoopExits, CloseLocks, CloseFlushes, CloseNext,
     CloseEnds,
     SyncCalled, SyncLocks, SyncRefused, SyncLists, SyncPrepares, SyncUnlocks,
     SyncSettles,
     SyncEnds, SyncFsyncs, vars

\* Every step resets the gauges, adds a write to them or leaves them alone
LEMMA ResetSteps ==
    ASSUME [Next]_vars
    PROVE  \/ UNCHANGED gauges
           \/ UNCHANGED flushEpoch /\ \E f, r : Writes(f, r)
           \/ /\ FlushEnds /\ ~flushBad /\ ~ioErr
              /\ unsynced' = 0 /\ unsyncedBytes' = 0 /\ flushEpoch' = flushEpoch + 1
           \/ /\ CloseEnds /\ ~flushBad /\ unsynced' = 0 /\ unsyncedBytes' = 0
              /\ UNCHANGED flushEpoch
           \/ \E p \in Syncers :
                 /\ SyncEnds(p) /\ ~syncBad /\ ~ioErr /\ UNCHANGED flushEpoch
                 /\ unsynced' = Settled(unsynced, snap.ops)
                 /\ unsyncedBytes' = Settled(unsyncedBytes, snap.bytes)
<1>1. CASE OpAppends \/ \E f \in Files : \E full \in BOOLEAN : OpCommits(f, full)
  BY <1>1 DEF OpAppends, OpCommits, Writes
<1>2. CASE FlushEnds \/ CloseEnds
  BY <1>2 DEF FlushEnds, CloseEnds, gauges
<1>3. CASE \E p \in Syncers : SyncEnds(p)
  BY <1>3 DEF SyncEnds, gauges
<1> QED
  BY <1>1, <1>2, <1>3, GaugeSteps

LEMMA EpochsNext ==
    ASSUME BaseInv, CountInv, Epochs, [Next]_vars
    PROVE  Epochs'
<1>1. /\ flushEpoch \in Nat /\ flushEpoch' \in Nat /\ flushEpoch' >= flushEpoch
      /\ snap.epoch \in Nat
  BY ResetSteps DEF CountInv, gauges
<1>2. CASE UNCHANGED snap
  BY <1>1, <1>2 DEF Epochs
<1>3. ASSUME NEW p \in Syncers, SyncLists(p) PROVE Epochs'
  <2>1. snap'.epoch = flushEpoch
    BY <1>3 DEF SyncLists
  <2> QED
    BY <1>1, <2>1 DEF Epochs
<1>4. ASSUME NEW p \in Syncers, SyncEnds(p) PROVE Epochs'
  <2>1. snap'.epoch = 0
    BY <1>4 DEF SyncEnds
  <2> QED
    BY <1>1, <2>1 DEF Epochs
<1>5. CASE Elsewhere
  BY <1>2, <1>5 DEF Elsewhere, sync
<1> QED
  BY <1>2, <1>3, <1>4, <1>5, SyncSteps DEF BaseInv, SyncRefused, SyncPrepares,
                                           SyncUnlocks,
     SyncSettles, SyncFsyncs, sync

LEMMA SnapHonestNext ==
    ASSUME SyncInv, Epochs, SnapHonest, [Next]_vars
    PROVE  SnapHonest'
<1> SUFFICES ASSUME (\E p \in Syncers : Running(p))', ~Tainted', flushEpoch' = snap'.epoch
             PROVE  Exceed(promise, snap.ops, snap.bytes)'
  BY DEF SnapHonest
<1>0. /\ BaseInv /\ CountInv /\ DiskInv /\ ~Tainted /\ UNCHANGED policy
      /\ snap.ops \in Nat /\ snap.bytes \in Nat
  <2>1. BaseInv /\ CountInv /\ DiskInv
    BY DEF SyncInv, TypeInv
  <2> QED
    BY <2>1, TaintStays, PolicyKept DEF DiskInv, CountInv
<1>1. ASSUME UNCHANGED <<snap, promise>>, \E p \in Syncers : Running(p),
             UNCHANGED gauges \/ (UNCHANGED flushEpoch /\ \E f, r : Writes(f, r))
      PROVE  Exceed(promise, snap.ops, snap.bytes)'
  <2>1. PICK since, ops, bytes : since = promise /\ ops = snap.ops /\ bytes = snap.bytes
    OBVIOUS
  <2>2. flushEpoch = snap.epoch
    BY <1>1 DEF gauges
  <2>3. Exceed(since, ops, bytes)
    BY <1>0, <1>1, <2>1, <2>2 DEF SnapHonest
  <2>4. Exceed(since, ops, bytes)'
    BY <1>0, <1>1, <2>1, <2>3, ExceedKept
  <2>5. since = promise' /\ ops = snap'.ops /\ bytes = snap'.bytes
    BY <1>1, <2>1
  <2> QED
    BY <2>4, <2>5 DEF Exceed, Newer
<1>2. CASE Elsewhere
  <2>1. UNCHANGED <<snap, promise>> /\ \E p \in Syncers : Running(p)
    BY <1>2 DEF Elsewhere, sync, Running
  <2>2. ASSUME CloseEnds PROVE FALSE
    BY <1>0, <2>1, <2>2 DEF CloseEnds, Closing, BaseInv, Owner, SyncMuHeld, Running,
                            Syncers
  <2>3. ASSUME flushEpoch' = flushEpoch + 1 PROVE FALSE
    <3>1. flushEpoch \in Nat /\ snap.epoch \in Nat /\ snap.epoch <= flushEpoch
      BY <1>0 DEF CountInv, Epochs
    <3>2. snap.epoch = flushEpoch + 1
      BY <2>1, <2>3
    <3> QED
      BY <3>1, <3>2
  <2>4. ASSUME NEW p \in Syncers, SyncEnds(p) PROVE FALSE
    BY <1>0, <2>4, NoneRuns
  <2> QED
    BY <1>1, <2>1, <2>2, <2>3, <2>4, ResetSteps
<1>3. ASSUME NEW p \in Syncers, SyncLists(p) PROVE Exceed(promise, snap.ops, snap.bytes)'
  <2>1. /\ promise' = writeSeq /\ writeSeq' = writeSeq /\ UNCHANGED gauges
        /\ snap' = [ops |-> unsynced, bytes |-> unsyncedBytes, epoch |-> flushEpoch]
    BY <1>3 DEF SyncLists, files
  <2>2. ASSUME NEW w \in AtRisk', w[2] > promise'[w[1]] PROVE FALSE
    <3>1. w[1] \in Files /\ w[2] \in Nat /\ w[2] <= writeSeq[w[1]]
      BY <2>1, OffLockSyncAssumption DEF AtRisk, Nth
    <3>2. w[2] > writeSeq[w[1]] /\ writeSeq[w[1]] \in Nat
      BY <1>0, <2>1, <2>2, <3>1, Numbers
    <3> QED
      BY <3>1, <3>2
  <2>3. Newer(promise)' = {} /\ (Newer(promise) \intersect records)' = {}
    BY <2>2 DEF Newer
  <2>4. Cardinality({}) = 0
    BY FS_EmptySet
  <2>5. snap'.ops = unsynced /\ snap'.bytes = unsyncedBytes /\ unsynced \in Nat /\ unsyncedBytes \in Nat
        /\ unsynced' = unsynced /\ unsyncedBytes' = unsyncedBytes
    BY <1>0, <2>1 DEF CountInv, gauges
  <2> QED
    BY <2>3, <2>4, <2>5 DEF Exceed
<1>4. ASSUME NEW p \in Syncers, SyncPrepares(p) \/ SyncUnlocks(p) \/ SyncSettles(p)
                                \/ \E f \in Files : SyncFsyncs(p, f)
      PROVE  Exceed(promise, snap.ops, snap.bytes)'
  <2>1. UNCHANGED <<snap, promise>> /\ UNCHANGED gauges /\ Running(p)
    BY <1>4 DEF SyncPrepares, SyncUnlocks, SyncSettles, SyncFsyncs, sync, Running
  <2> QED
    BY <1>1, <2>1
<1> QED
  BY <1>0, <1>2, <1>3, <1>4, SyncSteps, NoneRuns DEF BaseInv

LEMMA HonestNext ==
    ASSUME SyncInv, GaugeInv, [Next]_vars
    PROVE  GaugesHonest'
<1> SUFFICES ASSUME ~Tainted'
             PROVE  /\ unsyncedBytes' >= Cardinality(AtRisk' \intersect records')
                    /\ policy' = "batched" => unsynced' >= Cardinality(AtRisk')
  BY DEF GaugesHonest, Tainted
<1>0. /\ BaseInv /\ CountInv /\ DiskInv /\ ~Tainted /\ UNCHANGED policy
      /\ snap.ops \in Nat /\ snap.bytes \in Nat /\ unsynced \in Nat
      /\ unsyncedBytes \in Nat
  <2>1. BaseInv /\ CountInv /\ DiskInv
    BY DEF SyncInv, TypeInv
  <2> QED
    BY <2>1, TaintStays, PolicyKept DEF DiskInv, CountInv
<1>1. /\ unsyncedBytes >= Cardinality(AtRisk \intersect records)
      /\ policy = "batched" => unsynced >= Cardinality(AtRisk)
  BY <1>0 DEF GaugeInv, GaugesHonest, Tainted
<1>2. ASSUME UNCHANGED gauges \/ \E f, r : Writes(f, r)
      PROVE  /\ unsyncedBytes' >= Cardinality(AtRisk' \intersect records')
             /\ policy' = "batched" => unsynced' >= Cardinality(AtRisk')
  <2>1. PICK z : z = [f \in Files |-> 0]
    OBVIOUS
  <2>2. Newer(z) = AtRisk /\ Newer(z)' = AtRisk'
    <3>1. ASSUME NEW w \in Files \X Nth PROVE w[2] > z[w[1]]
      BY <2>1, OffLockSyncAssumption DEF Nth
    <3> QED
      BY <3>1 DEF Newer, AtRisk
  <2>3. AtRisk \subseteq Files \X Nth /\ AtRisk' \subseteq Files \X Nth
    BY DEF AtRisk
  <2>4. /\ Cardinality(AtRisk) \in Nat /\ Cardinality(AtRisk \intersect records) \in Nat
        /\ Cardinality(AtRisk') \in Nat
        /\ Cardinality(AtRisk' \intersect records') \in Nat
    BY <2>3, RiskFacts
  <2>5. Exceed(z, 0, 0)
    BY <1>0, <1>1, <2>2, <2>4 DEF Exceed
  <2>6. Exceed(z, 0, 0)'
    BY <1>0, <1>2, <2>5, ExceedKept
  <2>7. /\ unsyncedBytes' >= 0 + Cardinality(AtRisk' \intersect records')
        /\ policy' = "batched" => unsynced' >= 0 + Cardinality(AtRisk')
    BY <2>2, <2>6 DEF Exceed
  <2> QED
    BY <2>4, <2>7
<1>3. Cardinality({}) = 0
  BY FS_EmptySet
<1>4. CASE FlushEnds /\ ~flushBad /\ ~ioErr /\ unsynced' = 0 /\ unsyncedBytes' = 0
  <2>1. AtRisk = {}
    BY <1>0, <1>4, NothingAtRisk DEF GaugeInv, FlushEnds, Flushing, InFlush
  <2>2. AtRisk' = {}
    BY <1>4, <2>1 DEF AtRisk, FlushEnds, files, kernel
  <2> QED
    BY <1>3, <1>4, <2>2
<1>5. CASE CloseEnds /\ ~flushBad /\ unsynced' = 0 /\ unsyncedBytes' = 0
  <2>1. AtRisk = {}
    BY <1>0, <1>5, NothingAtRisk DEF GaugeInv, CloseEnds, Closing, InFlush
  <2>2. AtRisk' = {}
    BY <1>5, <2>1 DEF AtRisk, CloseEnds, files, kernel
  <2> QED
    BY <1>3, <1>5, <2>2
<1>6. ASSUME NEW p \in Syncers, SyncEnds(p), ~syncBad, ~ioErr,
             unsynced' = Settled(unsynced, snap.ops),
             unsyncedBytes' = Settled(unsyncedBytes, snap.bytes)
      PROVE  /\ unsyncedBytes' >= Cardinality(AtRisk' \intersect records')
             /\ policy' = "batched" => unsynced' >= Cardinality(AtRisk')
  <2>1. AtRisk' = AtRisk /\ records' = records /\ pc[p] = "finish" /\ Running(p)
    BY <1>6 DEF AtRisk, SyncEnds, files, kernel, Running
  <2>2. CASE flushEpoch # snap.epoch
    <3>1. unsynced' = unsynced /\ unsyncedBytes' = unsyncedBytes
      BY <1>6, <2>2 DEF Settled
    <3> QED
      BY <1>0, <1>1, <2>1, <3>1
  <2>3. CASE flushEpoch = snap.epoch
    <3>1. Exceed(promise, snap.ops, snap.bytes)
      BY <1>0, <2>1, <2>3 DEF GaugeInv, SnapHonest
    <3>2. \A f \in live : durable[f] >= promise[f]
      BY <1>0, <1>6, <2>1, PromiseDone DEF SyncInv, PromiseInv
    <3>3. ASSUME NEW w \in AtRisk PROVE w[2] > promise[w[1]]
      <4>1. w[1] \in live /\ w[1] \in Files /\ w[2] \in Nat /\ durable[w[1]] < w[2]
        BY OffLockSyncAssumption DEF AtRisk, Nth
      <4>2. durable[w[1]] \in Nat /\ promise[w[1]] \in Nat
        BY <1>0, <4>1, Numbers, OffLockSyncAssumption DEF CountInv
      <4> QED
        BY <3>2, <4>1, <4>2
    <3>4. Newer(promise) = AtRisk
      BY <3>3 DEF Newer
    <3>5. Cardinality(AtRisk) \in Nat /\ Cardinality(AtRisk \intersect records) \in Nat
      <4>1. AtRisk \subseteq Files \X Nth
        BY DEF AtRisk
      <4> QED
        BY <4>1, RiskFacts
    <3>6. /\ unsyncedBytes >= snap.bytes + Cardinality(AtRisk \intersect records)
          /\ policy = "batched" => unsynced >= snap.ops + Cardinality(AtRisk)
      BY <3>1, <3>4 DEF Exceed
    <3>7. ASSUME NEW n \in Nat, NEW old \in Nat, NEW c \in Nat, n >= old + c
          PROVE  Settled(n, old) >= c
      BY <2>3, <3>7 DEF Settled
    <3>8. unsyncedBytes' >= Cardinality(AtRisk \intersect records)
      BY <1>0, <1>6, <3>5, <3>6, <3>7
    <3>9. policy = "batched" => unsynced' >= Cardinality(AtRisk)
      BY <1>0, <1>6, <3>5, <3>6, <3>7
    <3> QED
      BY <1>0, <2>1, <3>8, <3>9
  <2> QED
    BY <2>2, <2>3
<1> QED
  BY <1>2, <1>4, <1>5, <1>6, ResetSteps

LEMMA GaugeInit == Init => GaugeInv
<1> SUFFICES ASSUME Init PROVE GaugeInv
  OBVIOUS
<1>1. FlushCovers /\ SnapHonest
  BY DEF Init, FlushCovers, InFlush, SnapHonest, Running, Procs, Syncers
<1>2. Epochs
  BY DEF Init, Epochs
<1>3. GaugesHonest
  <2>1. AtRisk = {}
    BY OffLockSyncAssumption DEF Init, AtRisk, Nth
  <2>2. Cardinality({}) = 0
    BY FS_EmptySet
  <2>3. AtRisk \intersect records = {}
    BY <2>1
  <2> QED
    BY <2>1, <2>2, <2>3 DEF Init, GaugesHonest
<1> QED
  BY <1>1, <1>2, <1>3 DEF GaugeInv

LEMMA GaugeNext ==
    ASSUME SyncInv, GaugeInv, [Next]_vars
    PROVE  GaugeInv'
<1>1. BaseInv /\ CountInv /\ DiskInv
  BY DEF SyncInv, TypeInv
<1> QED
  BY <1>1, FlushCoversNext, EpochsNext, SnapHonestNext, HonestNext DEF GaugeInv

LEMMA GaugeHolds == Spec => [](SyncInv /\ GaugeInv)
  BY SyncInit, SyncNext, GaugeInit, GaugeNext, PTL DEF Spec

\* Neither Stats().UnsyncedBytes nor the SyncEvery counter ever understates what a power
\* loss would cost: whatever flushes and writes come between the snapshot a Sync takes of
\* them and its subtraction (syncOffLock, flushBatch).
THEOREM GaugesNeverUnderstate == Spec => []GaugesHonest
<1>1. GaugeInv => GaugesHonest
  BY DEF GaugeInv
<1> QED
  BY <1>1, GaugeHolds, PTL
=============================================================================
