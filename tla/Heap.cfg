CONSTANTS
    HeapStart = 40
    HeapSize = 96
    NodeSize = 16
    NodeAlign = 8
    Layouts <- MCLayouts
    Null = Null
SPECIFICATION Spec
INVARIANT HeapSound
PROPERTIES LosesAlignmentOnly FreedComesBack ImplementsHeapBlocks
