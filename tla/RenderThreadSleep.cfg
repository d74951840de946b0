SPECIFICATION RenderSpec
CONSTANTS
    MaxTries = 3
INVARIANTS
    SleepsOnlyDuringUpdate
CHECK_DEADLOCK FALSE
