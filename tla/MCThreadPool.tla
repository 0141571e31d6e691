---------------------------- MODULE MCThreadPool ----------------------------
(* Constants for the instances of ThreadPool that TLC checks. *)
EXTENDS ThreadPool

CONSTANTS c1, c2, w1, w2, w3, t1, t2

TwoCallers   == {c1, c2}
ThreeWorkers == {w1, w2, w3}
TwoTasks     == {t1, t2}
=============================================================================
