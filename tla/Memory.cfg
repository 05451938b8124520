CONSTANTS
    Levels = 3
    Fan = 6
    Memory <- Frames58
    BootMem <- Boot
    BootRoot = 101
    IoRequests <- Io
    Programs <- TwoPrograms
    StackBlocks = 2
    HartStack = 2
    Calls <- Scattered
    MaxHarts = 1
    MaxAllocs = 2
    Watched = {6}
    Written = {}
    Leftovers <- Left
SPECIFICATION Spec
INVARIANTS TablesSound PagesMapped TlbFresh
PROPERTIES ImplementsSpaces PullsUnused
CHECK_DEADLOCK FALSE
