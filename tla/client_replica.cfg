CONSTANTS
    actor = actor
    stalker = stalker
    item = item
    spectator = spectator
    ID = {actor, stalker, item, spectator}
    NoID = NoID
    Watcher = {stalker}
    Stalker = {stalker}
    Spectator = {spectator}
    Holds <- Hands
    Sees <- Sight
    MaxToClient = 2
    MaxToServer = 1
SPECIFICATION FairSpec
INVARIANTS ReplicaAgrees NobodyDangles HandsFree FailsByRefusal
PROPERTIES LeavingEnds
CHECK_DEADLOCK FALSE
