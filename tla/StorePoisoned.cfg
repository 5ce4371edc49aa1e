SPECIFICATION FairSpec
CONSTANTS
    MaxOff = 2
    MaxLen = 1
    SegCap = 2
    MaxSegs = 2
    MaxSegments = 2
    MaxBytes = 0
    Policy = "perOp"
    Damage = {"frame"}
    Faults = {"fsync"}
    MaxRot = 1
    MaxGone = 0
    MaxReplays = 0
    MaxRefusals = 2
PROPERTIES
    PoisonedDrains
CHECK_DEADLOCK FALSE
