CONSTANTS
    Freq = 5
    Micros = 3
    Duration = 4
    Word = 8
    Second = 3
    MaxTime = 40
SPECIFICATION FairClock
INVARIANTS WaitInTime TimestampWithinTurn
PROPERTY WaitEnds
CHECK_DEADLOCK FALSE
