SPECIFICATION FairSpec
CONSTANTS
    Parent = 0
    Num = 3
    Times = 4
    Commands <- TwoCommands
CHECK_DEADLOCK FALSE
INVARIANTS
    CommandsInOrder
    EvenlySpread
    QuitOnlyWhenDone
    WriteEndsPrivate
    NoChildLeft
PROPERTY ShutsDown
