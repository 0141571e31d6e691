---------------------------- MODULE MCProcessPool ----------------------------
(* Constants for the instances of ProcessPool that TLC checks.  The parent is  *)
(* the process 0.                                                              *)
EXTENDS ProcessPool

OneCommand  == {0}
TwoCommands == {0, 2}
=============================================================================
