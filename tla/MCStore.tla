------------------------------ MODULE MCStore ------------------------------
(***************************************************************************)
(* Store for TLC, with the statements of the documentation that the code   *)
(* does not keep.                                                          *)
(***************************************************************************)
EXTENDS StoreQueue

\* What the steps and the properties of store_faults read: all but the counters of
\* Stats and of answers.  States that agree on this differ in nothing the run checks.
Uncounted ==
    <<cursors, disk, counts, ledger, pendingCorrupt, ioErr, op, authorised, lostSet,
      quarantined, refusals, replays>>

\* docs/guide.md: "Every loss path is observable.  Each event surfaces as exactly
\* one ErrCorrupt from a read".  Every offset behind the commit cursor was handled
\* by a consumer or reported to one as lost.  QuarantineLatched breaks it: the
\* quarantine header is in the page cache, its fsync fails, takeHead returns the
\* latched error, and the next open believes the header.
LossSeen == 0 .. commitOff - 1 \subseteq Authority \union lostSet

\* doc.go: "Reads keep working, so a poisoned queue can still be drained."  Once
\* latched, publishFullCommit refuses every header, so the read cursor never
\* passes an unframable record that stands at the commit cursor.
PoisonedDrains == <>[](ioErr => headOff = writeOff)
=============================================================================
