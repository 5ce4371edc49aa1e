SPECIFICATION FairSpec
CONSTANTS
    p1 = p1
    p2 = p2
    p3 = p3
    Free = Free
    Procs = {p1, p2, p3}
    Calls <- LiveCalls
    Size <- LiveSizes
    BatchLen = 1
    SegCap = 2
    MaxBytes = 2
    MaxOwed = 0
    Faults = {"write"}
PROPERTIES
    QuiescersServed
    FollowersAnswered
    LeadersReturn
    YieldersReleased
