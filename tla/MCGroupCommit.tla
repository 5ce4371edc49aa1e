--------------------------- MODULE MCGroupCommit ---------------------------
(***************************************************************************)
(* GroupCommit for TLC, with the statements of the documentation that the  *)
(* code does not keep.                                                     *)
(***************************************************************************)
EXTENDS GroupCommit

CONSTANTS p1, p2, p3

\* Three producers: one that also calls AddBatch and Sync, one that waits for room
\* with records of two units, and one that takes records and closes the queue
MixedCalls == [p \in Procs |-> CASE p = p1 -> {"add", "batch", "sync"}
                                 [] p = p2 -> {"addWait"}
                                 [] OTHER  -> {"add", "take", "close"}]
MixedSizes == [p \in Procs |-> IF p = p2 THEN 2 ELSE 1]

\* Producers of one-unit records, one of which also calls AddBatch, Sync and Close
LiveCalls == [p \in Procs |-> IF p = p3 THEN {"add", "batch", "sync", "close"} ELSE {"add"}]
LiveSizes == [p \in Procs |-> 1]

\* diskqueue.go, leadFlushLocked: "a latch must wake AddWait".  publishBatchLocked
\* and a failed directory fsync latch without signalSpace.
LatchWakesAddWait == ioErr => \A p \in Procs : pc[p] # "space"
=============================================================================
