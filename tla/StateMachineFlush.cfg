SPECIFICATION ParserSpec
CONSTANTS
    Chars = {"CAN", "ESC", "P", "7", "A", "ST"}
    MAX_PARAMETER_COUNT = 2
    MAX_SUBPARAMETER_COUNT = 1
    MAX_PARAMETER_VALUE = 80
    MaxIntermediates = 1
    MaxHeld = 6
INVARIANTS
    FlushedWhole
