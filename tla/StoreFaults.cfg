SPECIFICATION Spec
CONSTANTS
    MaxOff = 4
    MaxLen = 2
    SegCap = 2
    MaxSegs = 3
    MaxSegments = 2
    MaxBytes = 3
    Policy = "perOp"
    Damage = {"frame"}
    Faults = {"open", "write", "fsync", "create"}
    MaxRot = 1
    MaxGone = 0
    MaxReplays = 2
    MaxRefusals = 1
VIEW Uncounted
INVARIANTS
    CursorOrder
    AuthorisedRetirement
    CountExact
    HeadersAgree
PROPERTIES
    NoUncommit
    ImplementsQueue
CHECK_DEADLOCK FALSE
