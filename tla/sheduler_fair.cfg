SPECIFICATION FairSpec
CONSTANTS
    Object = {a, b, c, d}
    NoObject = NoObject
    Flags = {FALSE}
    MaxUpdate = 1
    MaxElapsed = 1
    MaxLate = 3
    MaxPending = 1
    StableRT = TRUE
INVARIANTS InTime
PROPERTIES UpdateEnds NobodyStarves
