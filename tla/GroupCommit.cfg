SPECIFICATION Spec
CONSTANTS
    p1 = p1
    p2 = p2
    p3 = p3
    Free = Free
    Procs = {p1, p2, p3}
    Calls <- MixedCalls
    Size <- MixedSizes
    BatchLen = 2
    SegCap = 3
    MaxBytes = 4
    MaxOwed = 1
    Faults = {"stage", "data", "write", "header", "create", "dir", "commit", "sync", "marshal", "panic", "damage"}
INVARIANTS
    TypeOK
    VerdictTrue
    SpanIntact
    NoOrphanTail
    CapHeld
    ClosedQuiet
    NoLostWakeup
