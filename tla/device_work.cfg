SPECIFICATION FairSpec
CONSTANTS
    Task = {t1, t2}
    MaxTasks = 3
    MaxFrame = 4
INVARIANTS IInv
PROPERTIES DoesTheWork FrameEnds RunReturns
CHECK_DEADLOCK FALSE
