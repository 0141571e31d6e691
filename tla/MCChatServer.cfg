SPECIFICATION FairSpec
CONSTANTS
    alice = alice
    bob = bob
    hello = hello
    bye = bye
    hi = hi
    nothing = nothing
    w1 = w1
    w2 = w2
    MainThread = MainThread
    NoThread = NoThread
    NoTask = NoTask
    Users <- TwoUsers
    Messages <- FourMessages
    Sender <- TheSender
    Quits <- TheQuits
    Empty <- TheEmpty
    Workers <- TwoWorkers
CHECK_DEADLOCK FALSE
INVARIANTS
    OnlineMatchesHistory
    BoundedOvertaking
    ForwardedToThoseOnline
PROPERTY EveryMessageForwarded
