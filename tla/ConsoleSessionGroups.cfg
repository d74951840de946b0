SPECIFICATION Spec
CONSTANTS
    Clients = {"p1", "p2"}
    Sizes = {"s1"}
    Chunks = {{}}
    Generated = {"c"}
    Visible = TRUE
INVARIANTS
    GroupEventStaysInGroup
