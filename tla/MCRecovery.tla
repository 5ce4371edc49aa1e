----------------------------- MODULE MCRecovery -----------------------------
(***************************************************************************)
(* Recovery for TLC, with the statement of the documentation that the code *)
(* does not keep.                                                          *)
(***************************************************************************)
EXTENDS Recovery

\* Damage from outside beside the per-operation policy only: the deferred ones already
\* lose what is not fsynced in every combination.
DamagePerOp == [p \in Policies |-> IF p = "perOp" THEN 1 ELSE 0]
NoDamage == [p \in Policies |-> 0]

\* Bytes that do not verify look like a frame in the first slot of every second segment
SomeFraming == {f \in Segs : f % 2 = 1} \X {1}

\* diskqueue.go, Sync: "on a nil return, every byte written before the call is
\* durable".  With no dirty segment a Sync returns nil at once; a segment whose unsynced
\* pages were written by a process that died is loaded as clean.
SyncCovers ==
    Serving /\ adding = None /\ committing = None /\ dirty = {} =>
        \A f \in files : Published(f) # {} => hdrs[f] = {hdr[f]}
=============================================================================
