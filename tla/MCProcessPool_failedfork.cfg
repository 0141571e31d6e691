SPECIFICATION FairSpec
CONSTANTS
    Parent = 0
    Num = 3
    Times = 1
    Commands <- OneCommand
CHECK_DEADLOCK FALSE
PROPERTY CleansUp
