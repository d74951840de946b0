SPECIFICATION Spec
CONSTANTS
    MaxChunks = 2
    Sizes = {s1}
INVARIANTS
    AllOutputIsRaised
