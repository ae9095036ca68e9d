SPECIFICATION Spec
CONSTANTS
    ID = {e1, e2, e3, e4, e5}
    NoID = NoID
    Client = {sv, c1}
    Server = sv
    NoClient = NoClient
    GameType = "deathmatch"
    BagsDropped = TRUE
    MaxEntities = 4
    Kinds <- DeathmatchKinds
SYMMETRY Sym
INVARIANTS VerifyEntities RejectSafe AvatarOwned RoundKeepsPlayers
PROPERTIES HandlerReturns
CHECK_DEADLOCK FALSE
