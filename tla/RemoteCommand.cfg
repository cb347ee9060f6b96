CONSTANTS
    Window = 2
    InWindow = 1
    Pipe = 1
    MaxOutput = 3
    MaxInput = 2
    Calls <- MCCalls
SPECIFICATION Spec
INVARIANTS
    NoMutualWait
    CompleteResult
    TruncationBounded
    Released
PROPERTIES
    PromiseSpec
    Finishes
    IoTimeoutFrees
CHECK_DEADLOCK FALSE
