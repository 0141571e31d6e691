SPECIFICATION FairSpec
CONSTANTS
    c1 = c1
    c2 = c2
    Clients <- TheClients
    MaxLines <- TheLines
    MaxPieces = 2
    FdLimit = 4
INVARIANTS
    DescriptorsAccounted
    InStep
    KilledOnlyAfterCut
PROPERTIES
    LineAnswered
\* The server may be killed, and clients may all wait after empty lines.
CHECK_DEADLOCK FALSE
