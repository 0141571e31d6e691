SPECIFICATION FairSpec
CONSTANTS
    Clients = {c1, c2}
    FirstFd = 2
    FdLimit = 5
    MaxPending = 2
    Room = 1
    Listening = listening
    NoFile = nofile
    SelectSlots = 5
    PollSlots = 3
    SmallSlots = 2
    EpollEvents = 2
    FewEvents = 1
INVARIANTS
    TableExact
    NeverBlocks
PROPERTIES
    EventsHandled
\* A process that SIGPIPE has killed does nothing any more.
CHECK_DEADLOCK FALSE
