SPECIFICATION FairSpec
CONSTANTS
    p1 = p1
    p2 = p2
    c1 = c1
    c2 = c2
    c3 = c3
    Producers <- OneProducer
    Consumers <- OneConsumer
    Capacity = 16
    SpuriousWakeup = FALSE
INVARIANTS
    NeverPopEmpty
    Bounded
    SleepJustified
PROPERTY EveryoneProceeds
