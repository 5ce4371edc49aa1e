SPECIFICATION FairSpec
CONSTANTS
    MaxOff = 4
    MaxLen = 2
    SegCap = 3
    MaxSegs = 3
    MaxSegments = 0
    MaxBytes = 0
    Policy = "noSync"
    Damage = {"sum", "frame"}
    Faults = {}
    MaxRot = 1
    MaxGone = 1
    MaxReplays = 1
    MaxRefusals = 2
INVARIANTS
    TypeOK
    LedgerSound
    AuthorisedRetirement
    HeadAddressable
    CountExact
    ReportsExact
PROPERTIES
    DamageNeverWedges
    ImplementsQueue
CHECK_DEADLOCK FALSE
