----------------------------- MODULE MCBlockQueue -----------------------------
(* Constants, symmetry and a bound for the instances of BlockQueue that TLC     *)
(* checks.                                                                      *)
EXTENDS BlockQueue, TLC

CONSTANTS p1, p2, c1, c2, c3

OneProducer    == {p1}
TwoProducers   == {p1, p2}
OneConsumer    == {c1}
ThreeConsumers == {c1, c2, c3}

\* Several producers may push beyond Capacity, and without end: the search stops
\* three elements above it.
SizeBound == size <= Capacity + 3

\* Threads are only compared for equality; used for safety only.
Interchangeable == Permutations(Producers) \cup Permutations(Consumers)
=============================================================================
