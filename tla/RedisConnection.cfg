CONSTANTS
    Capacity = 12
    ReadSize = 3
    MaxLength = 9
    MaxCommands = 5
SPECIFICATION FairSpec
INVARIANT TypeOK
INVARIANT OneWriter
INVARIANT DropOnlyLongCommands
PROPERTY RepliesInOrder
PROPERTY EveryCommandAnswered
CHECK_DEADLOCK FALSE
