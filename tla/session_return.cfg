SPECIFICATION FairSpec
CONSTANTS
    Id = {c1, c2, c3}
    None = None
    Main = Main
    Home = Home
    Abroad = Abroad
    AddressOf <- OneAddress
    Local = {c1}
    Reconnects = TRUE
    AuthCheck = TRUE
    MaxPackets = 1
INVARIANTS SendersThere NoGhosts ScoreKept
PROPERTIES ToldInOrder EveryoneServed
