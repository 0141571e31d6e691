SPECIFICATION Spec
CONSTANTS
    c1 = c1
    c2 = c2
    w1 = w1
    w2 = w2
    w3 = w3
    t1 = t1
    t2 = t2
    Callers <- TwoCallers
    Workers <- ThreeWorkers
    Tasks <- TwoTasks
    NoThread = NoThread
    NoTask = NoTask
INVARIANT DroppedOnlyAfterStop
CHECK_DEADLOCK FALSE
