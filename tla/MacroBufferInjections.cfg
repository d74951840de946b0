SPECIFICATION Spec
CONSTANTS
    MacroIds = {m0, m1}
    MAX_SPACE = 3
    MAX_PARAMETER_VALUE = 3
    MaxDepth = 2
    Encoded = {"x", "ris"}
    MaxString = 2
INVARIANTS
    ModesAreSetAgain
