SPECIFICATION Spec
CONSTANTS
    MaxSeg = 2
    Cap = 2
    MaxRec = 2
    MaxLoss = 1
    Policies = {"batched", "noSync"}
    MaxDamage <- NoDamage
    Framing <- SomeFraming
INVARIANTS
    SyncCovers
CHECK_DEADLOCK FALSE
