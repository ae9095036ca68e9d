SPECIFICATION Spec
CONSTANTS
    Object = {a, b}
    NoObject = NoObject
    Flags = {TRUE, FALSE}
    MaxUpdate = 1
    MaxElapsed = 1
    MaxLate = 3
    MaxPending = 3
    StableRT = TRUE
INVARIANTS IInv EveryRT
PROPERTIES KeepsToRegistered
