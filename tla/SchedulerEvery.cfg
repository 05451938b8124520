SPECIFICATION Spec
CONSTANTS
    Loaded <- TwoLoaded
    Calls <- EveryCalls
    Chars = {65}
    MaxThreads = 2
    UsizeMod = 64
INVARIANTS TypeOK UniqueThreads
CHECK_DEADLOCK FALSE
