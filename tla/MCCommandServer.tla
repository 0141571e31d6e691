--------------------------- MODULE MCCommandServer ---------------------------
(***************************************************************************)
(* Two clients, of which one types two lines.  Four descriptors are enough *)
(* for both connections and one stream of popen, so that popen and accept  *)
(* can fail.                                                               *)
(***************************************************************************)
EXTENDS CommandServer
CONSTANTS c1, c2
TheClients == {c1, c2}
TheLines == [c \in TheClients |-> IF c = c1 THEN 2 ELSE 1]
=============================================================================
