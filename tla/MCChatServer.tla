----------------------------- MODULE MCChatServer -----------------------------
(* Constants for the instances of ChatServer that TLC checks: alice says one   *)
(* thing, leaves and, since datagrams may be reordered, may come back; bob     *)
(* says one thing and sends an empty datagram.                                 *)
EXTENDS ChatServer, TLC

CONSTANTS alice, bob, hello, bye, hi, nothing, w1, w2

TwoUsers      == {alice, bob}
FourMessages  == {hello, bye, hi, nothing}
TheSender     == (hello :> alice) @@ (bye :> alice) @@ (hi :> bob) @@ (nothing :> bob)
TheQuits      == {bye}
TheEmpty      == {nothing}
TwoWorkers    == {w1, w2}

=============================================================================
