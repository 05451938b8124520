CONSTANTS
    IndexMod = 65536
    MaxQueue = 32768
    QueueSize = 8
    Commands = 1
SPECIFICATION Spec
INVARIANT OnlyNames
CHECK_DEADLOCK FALSE
