SPECIFICATION Spec
CONSTANTS
    p1 = p1
    p2 = p2
    c1 = c1
    c2 = c2
    c3 = c3
    Producers <- TwoProducers
    Consumers <- ThreeConsumers
    Capacity = 5
    SpuriousWakeup = TRUE
SYMMETRY Interchangeable
CONSTRAINT SizeBound
CHECK_DEADLOCK FALSE
INVARIANTS
    NoLostWakeup
