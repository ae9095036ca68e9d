SPECIFICATION Spec
CONSTANTS
    Actor = 1
    Creature = {2,4}
    Box = {6}
    Item = {3, 5}
    Unsavable = {5}
    Vertex = {1, 2, 3}
    Near = {1, 2}
    objects_per_update = 1
    MaxObjects = 4
    Watched = 3
INVARIANTS RegistriesAgree HandsTogether NothingFails
PROPERTY OneRound
