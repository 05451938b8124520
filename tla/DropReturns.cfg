SPECIFICATION Spec
CONSTANTS
    Loaded <- TwoLoaded
    Calls <- DroppersCalls
    Chars = {65}
    MaxThreads = 1
    UsizeMod = 64
INVARIANTS DropNoReturn
CHECK_DEADLOCK FALSE
