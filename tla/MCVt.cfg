SPECIFICATION VtSpec
CONSTANTS
    Chars = {"NUL", "BEL", "CAN", "ESC", "DEL", "SP", "7", "semicolon", ":", "?", "[", "]", "P", "O", "Y", "A", "underscore", "R", "c", "ST", "C1CSI", "C1ST", "C1DCS"}
    MAX_PARAMETER_COUNT = 2
    MAX_SUBPARAMETER_COUNT = 1
    MAX_PARAMETER_VALUE = 20
    MaxIntermediates = 1
    MaxHeld = 5
    MacroIds = {m0, m1}
    MAX_SPACE = 4
    MaxDepth = 2
    Encoded = {"ris", m0, m1, "def"}
    MaxString = 2
INVARIANTS
    ParserIsReady
    ParametersAreTheText
    PassedThroughWhole
    KeysAreNotHeld
    SpaceIsAccounted
    InvocationIsBounded
PROPERTIES
    MacroInUseIsStable
    InvocationEnds
