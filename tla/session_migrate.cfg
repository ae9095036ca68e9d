SPECIFICATION Spec
CONSTANTS
    Id = {c1, c2}
    None = None
    Main = Main
    Home = Home
    Abroad = Abroad
    AddressOf <- TwoAddresses
    Local = {c1}
    Reconnects = FALSE
    AuthCheck = FALSE
    MaxPackets = 0
INVARIANTS EntitiesMigrated
