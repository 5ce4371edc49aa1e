SPECIFICATION Spec
CONSTANTS
    MaxFile = 4
    Found = 3
    MaxWrites = 3
    MaxOpen = 3
    SyncEvery = 2
    Policies = {"batched", "noSync"}
    MaxLost = 1
    Faults = {"open", "dir", "unlink"}
INVARIANTS
    TypeOK
    SyncKeepsPromise
    CleanIsDurable
    GaugesHonest
    HandlesOutliveFsync
    OpenFilesCapped
    NoCircularWait
