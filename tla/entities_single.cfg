SPECIFICATION Spec
CONSTANTS
    ID = {e1, e2, e3, e4, e5}
    NoID = NoID
    Client = {sv}
    Server = sv
    NoClient = NoClient
    GameType = "single"
    BagsDropped = TRUE
    MaxEntities = 5
    Kinds <- SingleKinds
SYMMETRY Sym
INVARIANTS IInv OwnedOnceServed
CHECK_DEADLOCK FALSE
