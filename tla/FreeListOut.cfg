SPECIFICATION Spec
CONSTANTS
    Pages <- ShortPages
    Map <- ShortMap
    Sections = {2}
    Aligns = {1}
    Reserve = 0
    MaxOwners = 2
    UsizeMod = 8
INVARIANTS TypeOK
CHECK_DEADLOCK FALSE
