SPECIFICATION Spec
CONSTANTS
    tMaxValue = 4
    tBlockSize = 2
    MaxTime = 2
INVARIANTS IInv
PROPERTIES ReuseIsLate
