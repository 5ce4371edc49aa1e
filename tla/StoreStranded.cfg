SPECIFICATION Spec
CONSTANTS
    MaxOff = 4
    MaxLen = 2
    SegCap = 2
    MaxSegs = 3
    MaxSegments = 2
    MaxBytes = 0
    Policy = "noSync"
    Damage = {}
    Faults = {"create", "unlink"}
    MaxRot = 0
    MaxGone = 0
    MaxReplays = 0
    MaxRefusals = 2
INVARIANTS
    HeadAddressable
CHECK_DEADLOCK FALSE
