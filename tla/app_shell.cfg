CONSTANT
    Address = {"first", "second"}
SPECIFICATION FairSpec
INVARIANTS NobodyDangles LevelMoves OneAtATime ClockRuns NobodyStranded
PROPERTIES ListenersServed StartServed
CHECK_DEADLOCK FALSE
