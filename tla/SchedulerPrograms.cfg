SPECIFICATION TypingSpec
CONSTANTS
    Loaded <- ThreeLoaded
    Calls <- ProgramsCalls
    Chars = {65, 66}
    MaxThreads = 2
    UsizeMod = 64
INVARIANTS CurrentIsLoaded FramesOwned WaitersListed InCharReturnsChar KernelRuns
PROPERTIES InCharReturns RoundRobin ImplementsPool
