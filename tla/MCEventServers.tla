---------------------------- MODULE MCEventServers ----------------------------
(***************************************************************************)
(* Two clients.  The select server's table covers every descriptor number; *)
(* the poll server's has room for both clients or for one.                 *)
(***************************************************************************)
EXTENDS EventServers
=============================================================================
