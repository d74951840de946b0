SPECIFICATION FairSpec
CONSTANTS
    Capacity = 3
    MaxItems = 5
    MaxCount = 4
INVARIANTS
    SlotDiscipline
    FreedByTheLast
    NoLostWakeup
PROPERTIES
    IsChannel
    DropUnblocks
CHECK_DEADLOCK FALSE
