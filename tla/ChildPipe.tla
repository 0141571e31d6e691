------------------------------- MODULE ChildPipe -------------------------------
(***************************************************************************)
(* 1.testPipe/testpipe.cc: a child writes messages into a pipe for ever,   *)
(* its parent reads once, closes its end and waits for the child, which    *)
(* only SIGPIPE can end.  So it matters who holds which end.               *)
(***************************************************************************)
EXTENDS Integers

CONSTANT Capacity (* messages that fit into the pipe *)

ChildPipeAssumption == Capacity \in Nat \ {0}

VARIABLES
    pc,      \* "parent" and "child"
    readers, \* who has pipefd[0] open
    writers, \* who has pipefd[1] open
    filled,  \* messages in the pipe
    got      \* what the parent's read returned, once it has

vars == <<pc, readers, writers, filled, got>>

Unread == -1

Init ==
    /\ pc = [parent |-> "start", child |-> "none"]
    /\ readers = {} /\ writers = {} /\ filled = 0
    /\ got = Unread

Goto(p, place) == pc' = [pc EXCEPT ![p] = place]

-----------------------------------------------------------------------------
(* The parent                                                              *)

Pipe ==
    /\ pc["parent"] = "start"
    /\ \/ Goto("parent", "fork") /\ readers' = {"parent"} /\ writers' = {"parent"}
       \/ Goto("parent", "exit") /\ UNCHANGED <<readers, writers>>
    /\ UNCHANGED <<filled, got>>

\* fork: the child has copies of both ends; a failure passes for a child.
Fork ==
    /\ pc["parent"] = "fork"
    /\ \/ /\ pc' = [parent |-> "close", child |-> "close"]
          /\ readers' = readers \cup {"child"} /\ writers' = writers \cup {"child"}
       \/ Goto("parent", "close") /\ UNCHANGED <<readers, writers>>
    /\ UNCHANGED <<filled, got>>

CloseWriteEnd ==
    /\ pc["parent"] = "close" /\ Goto("parent", "read")
    /\ writers' = writers \ {"parent"}
    /\ UNCHANGED <<readers, filled, got>>

\* FatherProcessRead leaves its loop after the first round whatever it has read.
FatherProcessRead ==
    /\ pc["parent"] = "read" /\ Goto("parent", "closeread")
    /\ filled > 0 \/ writers = {}
    /\ \E rest \in 0..filled :
        /\ filled > 0 => rest < filled
        /\ got' = filled - rest /\ filled' = rest
    /\ UNCHANGED <<readers, writers>>

CloseReadEnd ==
    /\ pc["parent"] = "closeread" /\ Goto("parent", "wait")
    /\ readers' = readers \ {"parent"}
    /\ UNCHANGED <<writers, filled, got>>

\* waitpid returns -1 at once where there is no child.
Wait ==
    /\ pc["parent"] = "wait" /\ pc["child"] \in {"none", "zombie"}
    /\ pc' = [parent |-> "exit", child |-> IF pc["child"] = "none" THEN "none" ELSE "reaped"]
    /\ UNCHANGED <<readers, writers, filled, got>>

-----------------------------------------------------------------------------
(* The child                                                               *)

\* Mutant: the child keeps its copy of the read end.
CloseUnusedMissing ==
    /\ pc["child"] = "close" /\ Goto("child", "write")
    /\ UNCHANGED <<readers, writers, filled, got>>

CloseUnused ==
    /\ pc["child"] = "close" /\ Goto("child", "write")
    /\ readers' = readers \ {"child"}
    /\ UNCHANGED <<writers, filled, got>>

SubProcessWrite ==
    /\ pc["child"] = "write" /\ readers # {} /\ filled < Capacity
    /\ filled' = filled + 1
    /\ UNCHANGED <<pc, readers, writers, got>>

\* SIGPIPE; the message itself is never read.
Killed ==
    /\ pc["child"] = "write" /\ readers = {} /\ Goto("child", "zombie")
    /\ writers' = writers \ {"child"}
    /\ UNCHANGED <<readers, filled, got>>

-----------------------------------------------------------------------------
ParentStep == Pipe \/ Fork \/ CloseWriteEnd \/ FatherProcessRead \/ CloseReadEnd \/ Wait
ChildStep == CloseUnused \/ SubProcessWrite \/ Killed

Next == ParentStep \/ ChildStep

Spec == Init /\ [][Next]_vars

-----------------------------------------------------------------------------
(* Properties                                                              *)

\* The parent reads the end of file only if there was no child to write: a slow
\* child is waited for (testpipe.cc:69-81).
EndOfFileWithoutChild == got = 0 => pc["child"] = "none"

\* The program ends, although its child never stops of itself, and leaves no
\* zombie (testpipe.cc:113, 124-138).
CleanlyOver == pc["parent"] = "exit" /\ pc["child"] \in {"none", "reaped"}
=============================================================================
