-------------------------------- MODULE Signals --------------------------------
(***************************************************************************)
(* 6.zc/testcore.cc: the program tries three dispositions of SIGINT one    *)
(* after the other, blocks it, and gives the old mask back in the fifth    *)
(* round of a loop that has no end.  Somebody sends SIGINT at any time.    *)
(* The kernel keeps at most one pending, and delivers it as soon as it is  *)
(* not blocked, before the program goes on.                                *)
(***************************************************************************)
EXTENDS Integers

CONSTANT Rounds (* cnt at first, 5 *)

SignalsAssumption == Rounds \in Nat \ {0}

VARIABLES
    pc,      \* where main is
    action,  \* what SIGINT does: "default", "handler" or "ignore"
    blocked, \* SIGINT is in the mask of the process
    old,     \* SIGINT is in old_set: it was blocked by whoever started the program
    pending,
    cnt,
    alive

vars == <<pc, action, blocked, old, pending, cnt, alive>>

Init ==
    /\ pc = "catch" /\ action = "default"
    /\ blocked \in BOOLEAN /\ pending = FALSE
    /\ old = FALSE
    /\ cnt = Rounds
    /\ alive = TRUE

Deliverable == pending /\ ~blocked

-----------------------------------------------------------------------------
(* main                                                                    *)

\* signal; one that is pending is discarded when it is ignored from now on.
Signal(from, to, disposition) ==
    /\ alive /\ ~Deliverable
    /\ pc = from /\ pc' = to
    /\ action' = disposition
    /\ pending' = (pending /\ disposition # "ignore")
    /\ UNCHANGED <<blocked, old, cnt, alive>>

SetActions ==
    \/ Signal("catch", "ignore", "handler")
    \/ Signal("ignore", "reset", "ignore")
    \/ Signal("reset", "block", "default")

Block ==
    /\ alive /\ ~Deliverable
    /\ pc = "block" /\ pc' = "loop"
    /\ old' = blocked /\ blocked' = TRUE
    /\ UNCHANGED <<action, pending, cnt, alive>>

\* Mutant: the mask is given back one round early.
RoundEarly ==
    /\ alive /\ ~Deliverable
    /\ pc = "loop" /\ cnt >= 0 /\ cnt' = cnt - 1
    /\ blocked' = IF cnt' = 1 THEN old ELSE blocked
    /\ UNCHANGED <<pc, action, old, pending, alive>>

\* Mutant: block_set is given back in place of old_set.
RoundKeepingBlock ==
    /\ alive /\ ~Deliverable
    /\ pc = "loop" /\ cnt >= 0 /\ cnt' = cnt - 1
    /\ UNCHANGED <<pc, action, blocked, old, pending, alive>>

\* One round of the loop; below zero cnt means nothing any more.
Round ==
    /\ alive /\ ~Deliverable
    /\ pc = "loop" /\ cnt >= 0 /\ cnt' = cnt - 1
    /\ blocked' = IF cnt' = 0 THEN old ELSE blocked
    /\ UNCHANGED <<pc, action, old, pending, alive>>

-----------------------------------------------------------------------------
(* SIGINT                                                                  *)

\* An ignored signal that is not blocked never becomes pending.
Interrupt ==
    /\ alive
    /\ pending' = (pending \/ blocked \/ action # "ignore")
    /\ UNCHANGED <<pc, action, blocked, old, cnt, alive>>

\* The handler only prints.
Deliver ==
    /\ alive /\ Deliverable
    /\ pending' = FALSE
    /\ alive' = (action # "default")
    /\ UNCHANGED <<pc, action, blocked, old, cnt>>

-----------------------------------------------------------------------------
Step == SetActions \/ Block \/ Round \/ Deliver

Next == Step \/ Interrupt

Spec == Init /\ [][Next]_vars

-----------------------------------------------------------------------------
(* Properties                                                              *)

\* Between the block and the fifth round no SIGINT ends the program, and none that
\* was sent then is lost: it waits, and ends the program as soon as the old mask is
\* back (testcore.cc:37-47, 58-62).
NotInterrupted ==
    /\ ~alive => pc \in {"catch", "block"} \/ cnt <= 0
    /\ pc = "loop" /\ alive /\ cnt > 0 => blocked

\* A SIGINT sent in the loop ends the program, unless SIGINT was blocked before the
\* program started and so stays blocked.
Interrupted == pc = "loop" /\ pending
Excused == ~alive \/ (pc = "loop" /\ old)
=============================================================================
