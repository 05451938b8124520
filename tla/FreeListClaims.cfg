SPECIFICATION Spec
CONSTANTS
    Pages <- HolePages
    Map <- HoleMap
    Sections = {0, 2, 3}
    Aligns = {1, 2}
    Reserve = 2
    MaxOwners = 2
    UsizeMod = 64
INVARIANTS ListSound Exclusive SectionFree SearchOnList SearchComplete
PROPERTIES HeldUntouched ImplementsAllocator
CHECK_DEADLOCK FALSE
