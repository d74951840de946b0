SPECIFICATION OutputSpec
CONSTANTS
    MaxChunks = 2
    Sizes = {s1, s2}
    MaxTries = 3
INVARIANTS
    OutputInOrder
    HandlesOutliveThread
    WriteBufferIsStable
    WindowIsInSync
    NoInvalidationIsLost
    SyncFollowsMode
    HandleMeansRunning
PROPERTIES
    CloseReturns
    ExitIsReported
    TeardownReturns
    NotifiedChangeIsDrawn
