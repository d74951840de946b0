SPECIFICATION FairSpec
CONSTANTS
    Clients = {"p1", "p2"}
    Sizes = {"s1", "s2"}
    Chunks = {{}, {"c"}, {"echo"}, {"c", "break"}, {"c", "echo"}}
    Generated = {"c"}
    Visible = TRUE
INVARIANTS ListMatchesClients SizeIsCurrent CtrlStaysInGroup
PROPERTIES SettledConsoleExits
