SPECIFICATION FairSpec
CONSTANTS
    Servers = {1, 2}
    Clients = {3, 4}
    Capacity = 2
    MaxMessages = 2
    Letters = 2
    Threads = {1, 2, 3}
    Stock = 2
    Tasks <- MCTasks
    MaxPush = 3
    MaxCalls = 3
    MaxTime = 1
    Rounds = 5
    Server = 5
    MaxLines = 2
    MaxCopies = 1
    Words = {"sad", "happy"}
    Files <- MCFiles
INVARIANTS
    MessagesKept
    WorkDone
    EntriesKept
    OutOfReach
    AnswersInStep
PROPERTIES
    NobodyStuck
\* Programs that have ended do nothing any more.
CHECK_DEADLOCK FALSE
