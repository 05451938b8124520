CONSTANTS
    BspHart = 0
    Cores = 3
    MaxKeys = 2
    Null = Null
SPECIFICATION FairSpec
INVARIANTS InterruptIsExpected CoresSound
PROPERTY BootEnds
CHECK_DEADLOCK FALSE
