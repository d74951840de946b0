SPECIFICATION Spec
CONSTANTS
    p1 = p1
    p2 = p2
    Processes = {p1, p2}
    Shared = {conin}
    conin = conin
    Threads = {1}
    Wide = {"w"}
    Keys = {"w", "s"}
    Pause = "s"
    Amounts = {1, 3}
    MaxStorage = 2
    MaxRep = 2
    AnsiPeek = FALSE
INVARIANTS
    QueuesAgree
    NoReadOutlivesItsHandle
    InputIsConserved
    InputIsSignalled
    BlockedWritesHaveReason
