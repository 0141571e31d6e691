SPECIFICATION FairSpec
CONSTANTS
    p1 = p1
    p2 = p2
    c1 = c1
    c2 = c2
    v1 = v1
    v2 = v2
    NoValue = NoValue
    NoThread = NoThread
    Producers <- TwoProducers
    Consumers <- TwoConsumers
    Values <- TwoValues
    Cap = 2
INVARIANTS
    PlacesConserved
    NoSlotRace
PROPERTIES
    ImplementsBuffer
    EverySlotDrained
    PushProgress
