SPECIFICATION Spec
CONSTANTS
    MaxOff = 6
    MaxLen = 2
    SegCap = 1
    MaxSegs = 4
    MaxSegments = 3
    MaxBytes = 0
    Policy = "batched"
    Damage = {}
    Faults = {"create", "unlink", "open", "fsync"}
    MaxRot = 0
    MaxGone = 0
    MaxReplays = 0
    MaxRefusals = 2
INVARIANTS
    CursorOrder
    ReportsExact
CHECK_DEADLOCK FALSE
