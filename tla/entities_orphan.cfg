SPECIFICATION Spec
CONSTANTS
    ID = {e1, e2, e3, e4}
    NoID = NoID
    Client = {sv, c1}
    Server = sv
    NoClient = NoClient
    GameType = "deathmatch"
    BagsDropped = FALSE
    MaxEntities = 3
    Kinds <- DeathmatchKinds
SYMMETRY Sym
INVARIANTS VerifyAfterEvent
CHECK_DEADLOCK FALSE
