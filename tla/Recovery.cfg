SPECIFICATION Spec
CONSTANTS
    MaxSeg = 3
    Cap = 2
    MaxRec = 3
    MaxLoss = 2
    MaxDamage <- DamagePerOp
    Framing <- SomeFraming
    Policies = {"perOp", "batched", "noSync"}
INVARIANTS
    TypeOK
    PromisedKept
    NothingSkipped
    OneCursor
    NoPhantom
CHECK_DEADLOCK FALSE
