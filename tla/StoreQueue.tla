----------------------------- MODULE StoreQueue -----------------------------
(***************************************************************************)
(* Store implements QueueSpec.  The one idea of the mapping is when a      *)
(* record is retired: not when commitDurable's walk passes it, for a       *)
(* header that cannot be written takes the walk back, but when the walk    *)
(* has settled, or when a restart finds its header.                        *)
(***************************************************************************)
EXTENDS Store

\* commitOff between commits; a commit still walking has retired nothing yet
Retired ==
    IF op.pc \in {"walk", "settle", "settled"} THEN op.before ELSE commitOff

Queue ==
    INSTANCE QueueSpec WITH
        tail   <- writeOff,
        starts <- {p \in Offsets : rlen[p] > 0},
        head   <- headOff,
        done   <- Retired,
        asked  <- authorised,
        lost   <- lostSet \union quarantined

\* The store is an at-least-once queue: it hands records over one by one in
\* append order, steps over lost ones only, retires only what was read and asked
\* for or lost, and never takes a retirement back, whatever system calls fail and
\* wherever the process dies (appendRecord, takeHead, commitDurable,
\* skipCorruptSegment, rewindHead, load).
ImplementsQueue == Queue!Spec
=============================================================================
