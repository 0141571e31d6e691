----------------------------- MODULE ProcessPool -----------------------------
(***************************************************************************)
(* The process pool of 2.ProcessPool: a parent that creates one pipe and   *)
(* one child per channel, hands out commands round robin, then closes each *)
(* channel and waits for its child.  The state kept for a pipe is who      *)
(* still has its two ends open, since that decides when a child reads the  *)
(* end of file and when a write raises SIGPIPE.                            *)
(*                                                                         *)
(* fork copies every open descriptor, so a child starts with the write     *)
(* ends of all earlier channels; it closes them while the parent is already *)
(* creating the next ones.  fork and pipe may fail.                        *)
(***************************************************************************)
EXTENDS Integers, Sequences, FiniteSets

CONSTANTS Num,      (* the number of channels asked for          *)
          Times,    (* the argument of ctrlProcess               *)
          Commands, (* the values SelectTask may return          *)
          Parent    (* the parent process                        *)

\* TaskNum of Task.hpp: the indices of tasks are 0..TaskNum-1.
TaskNum == 3

ASSUME ProcessAssumption ==
    /\ Commands \subseteq 0..TaskNum-1
    /\ Num \in Nat \ {0}
    /\ Times \in Nat \ {0}
    /\ Parent \notin 1..Num

VARIABLES
    ppc,      \* where the parent is
    i,        \* its position in the loop it is in
    next,     \* the static counter of NextChannel, plus 1
    left,     \* rounds of ctrlProcess that remain
    channels, \* number of elements of the vector
    reaped,   \* children the parent has waited for
    writers,  \* per pipe: the processes with its write end open
    readers,  \* per pipe: the processes with its read end open
    pipe,     \* per pipe: the commands in it
    cpc,      \* where each child is
    toClose,  \* per child: inherited channels it has not closed yet
    command,  \* per child: the command it has read, or NoCommand
    sent,     \* history: the commands written to each channel
    executed  \* history: the commands each child has executed

vars == <<ppc, i, next, left, channels, reaped, writers, readers, pipe, cpc,
          toClose, command, sent, executed>>
parentVars == <<ppc, i, next, left, channels, reaped>>
childVars  == <<cpc, toClose, command, executed>>

Children  == 1..Num
Processes == Children \cup {Parent}
NoCommand == -1

Ended == {"done", "killed"}

\* exit, return from main or a fatal signal close every descriptor.
WithoutProcess(ends, x) == [k \in Children |-> ends[k] \ {x}]

Init ==
    /\ ppc = "pipe" /\ i = 1 /\ next = 1 /\ left = Times /\ channels = 0
    /\ reaped = {}
    /\ writers = [k \in Children |-> {}]
    /\ readers = [k \in Children |-> {}]
    /\ pipe = [k \in Children |-> <<>>]
    /\ cpc = [k \in Children |-> "unborn"]
    /\ toClose = [k \in Children |-> {}]
    /\ command = [k \in Children |-> NoCommand]
    /\ sent = [k \in Children |-> <<>>]
    /\ executed = [k \in Children |-> <<>>]

-----------------------------------------------------------------------------
(* The parent                                                              *)

ParentExits(pc) ==
    /\ ppc' = pc
    /\ writers' = WithoutProcess(writers, Parent)
    /\ readers' = WithoutProcess(readers, Parent)

\* pipe(pipefd); a failure ends the parent, but not the children it has.
CreatePipe ==
    /\ ppc = "pipe" /\ i <= Num
    /\ \/ /\ ppc' = "fork"
          /\ writers' = [writers EXCEPT ![i] = {Parent}]
          /\ readers' = [readers EXCEPT ![i] = {Parent}]
       \/ ParentExits("killed")
    /\ UNCHANGED <<i, next, left, channels, reaped, pipe, sent, childVars>>

\* Mutant: without the loop of ProcessPool.cc:97, the bug the comment there names.
ForkKeepsInherited ==
    /\ ppc = "fork"
    /\ ppc' = "record"
    /\ writers' = [k \in Children |-> IF Parent \in writers[k]
                                      THEN writers[k] \cup {i} ELSE writers[k]]
    /\ readers' = [readers EXCEPT ![i] = @ \cup {i}]
    /\ cpc' = [cpc EXCEPT ![i] = "closing"]
    /\ UNCHANGED <<i, next, left, channels, reaped, pipe, sent, toClose, command,
                   executed>>

\* fork: the child owns every descriptor the parent owns and a copy of the
\* vector.  The code does not look at a result of -1.
Fork ==
    /\ ppc = "fork"
    /\ ppc' = "record"
    /\ \/ /\ writers' = [k \in Children |-> IF Parent \in writers[k]
                                            THEN writers[k] \cup {i} ELSE writers[k]]
          /\ readers' = [k \in Children |-> IF Parent \in readers[k]
                                            THEN readers[k] \cup {i} ELSE readers[k]]
          /\ cpc' = [cpc EXCEPT ![i] = "closing"]
          /\ toClose' = [toClose EXCEPT ![i] = 1..channels]
       \/ UNCHANGED <<writers, readers, cpc, toClose>>
    /\ UNCHANGED <<i, next, left, channels, reaped, pipe, sent, command, executed>>

\* close(pipefd[0]) and push_back
RecordChannel ==
    /\ ppc = "record"
    /\ readers' = [readers EXCEPT ![i] = @ \ {Parent}]
    /\ channels' = channels + 1
    /\ i' = i + 1
    /\ ppc' = "pipe"
    /\ UNCHANGED <<next, left, reaped, writers, pipe, sent, childVars>>

StartControl ==
    /\ ppc = "pipe" /\ i > Num
    /\ ppc' = "control"
    /\ UNCHANGED <<i, next, left, channels, reaped, writers, readers, pipe, sent,
                   childVars>>

\* Mutant: the counter is reduced before it has been used up.
NextChannelEarly == IF channels = 1 THEN 1 ELSE (next % (channels - 1)) + 1

NextChannel == (next % channels) + 1

\* ctrlProcessOnce.  A pipe holds many more commands than are ever sent, so write
\* does not block; SIGPIPE kills the parent when nobody can read.
SendTaskCommand ==
    /\ ppc = "control" /\ left > 0
    /\ next' = NextChannel
    /\ left' = left - 1
    /\ \/ /\ readers[next] # {}
          /\ \E cmd \in Commands :
                /\ pipe' = [pipe EXCEPT ![next] = Append(@, cmd)]
                /\ sent' = [sent EXCEPT ![next] = Append(@, cmd)]
          /\ UNCHANGED <<ppc, writers, readers>>
       \/ /\ readers[next] = {}
          /\ ParentExits("killed")
          /\ UNCHANGED <<pipe, sent>>
    /\ UNCHANGED <<i, channels, reaped, childVars>>

StartCleanUp ==
    /\ ppc = "control" /\ left = 0
    /\ ppc' = "close" /\ i' = 1
    /\ UNCHANGED <<next, left, channels, reaped, writers, readers, pipe, sent,
                   childVars>>

\* Mutant: the child is not waited for.
CloseWithoutWait ==
    /\ ppc = "close" /\ i <= channels
    /\ writers' = [writers EXCEPT ![i] = @ \ {Parent}]
    /\ i' = i + 1
    /\ UNCHANGED <<ppc, next, left, channels, reaped, readers, pipe, sent, childVars>>

CloseChannel ==
    /\ ppc = "close" /\ i <= channels
    /\ writers' = [writers EXCEPT ![i] = @ \ {Parent}]
    /\ ppc' = "wait"
    /\ UNCHANGED <<i, next, left, channels, reaped, readers, pipe, sent, childVars>>

\* waitpid(_subprocessid) returns once that child has exited.  For a channel whose
\* fork failed the id is -1: waitpid then waits for any child not reaped yet, and
\* returns at once if there is none.
Wait ==
    /\ ppc = "wait"
    /\ LET alive == {k \in Children : cpc[k] # "unborn"} \ reaped
           wanted == IF cpc[i] = "unborn" THEN alive ELSE {i} \cap alive IN
       \/ wanted = {} /\ UNCHANGED reaped
       \/ \E k \in wanted : cpc[k] = "exited" /\ reaped' = reaped \cup {k}
    /\ ppc' = "close" /\ i' = i + 1
    /\ UNCHANGED <<next, left, channels, writers, readers, pipe, sent, childVars>>

ReturnFromMain ==
    /\ ppc = "close" /\ i > channels
    /\ ParentExits("done")
    /\ UNCHANGED <<i, next, left, channels, reaped, pipe, sent, childVars>>

-----------------------------------------------------------------------------
(* A child                                                                 *)

\* The loop over the copied vector, one inherited write end per round.
CloseInherited(k) ==
    /\ cpc[k] = "closing" /\ toClose[k] # {}
    /\ \E j \in toClose[k] :
        /\ \A l \in toClose[k] : j <= l
        /\ writers' = [writers EXCEPT ![j] = @ \ {k}]
        /\ toClose' = [toClose EXCEPT ![k] = @ \ {j}]
    /\ UNCHANGED <<parentVars, readers, pipe, sent, cpc, command, executed>>

\* close(pipefd[1]); the read end becomes standard input.
CloseOwnWriteEnd(k) ==
    /\ cpc[k] = "closing" /\ toClose[k] = {}
    /\ cpc' = [cpc EXCEPT ![k] = "read"]
    /\ writers' = [writers EXCEPT ![k] = @ \ {k}]
    /\ UNCHANGED <<parentVars, readers, pipe, sent, toClose, command, executed>>

\* Mutant: a command stays in the pipe.
ReadCommandAgain(k) ==
    /\ cpc[k] = "read" /\ pipe[k] # <<>>
    /\ command' = [command EXCEPT ![k] = Head(pipe[k])]
    /\ cpc' = [cpc EXCEPT ![k] = "execute"]
    /\ UNCHANGED <<parentVars, writers, readers, pipe, sent, toClose, executed>>

\* read(0, &command, sizeof(command)) with something in the pipe: a whole command,
\* since only whole commands are written.
ReadCommand(k) ==
    /\ cpc[k] = "read" /\ pipe[k] # <<>>
    /\ command' = [command EXCEPT ![k] = Head(pipe[k])]
    /\ pipe' = [pipe EXCEPT ![k] = Tail(@)]
    /\ cpc' = [cpc EXCEPT ![k] = "execute"]
    /\ UNCHANGED <<parentVars, writers, readers, sent, toClose, executed>>

\* ExcuteTask ignores a number that is not an index of tasks.
ExcuteTask(k) ==
    /\ cpc[k] = "execute"
    /\ executed' = [executed EXCEPT ![k] =
                        IF command[k] \in 0..TaskNum-1 THEN Append(@, command[k]) ELSE @]
    /\ command' = [command EXCEPT ![k] = NoCommand]
    /\ cpc' = [cpc EXCEPT ![k] = "read"]
    /\ UNCHANGED <<parentVars, writers, readers, pipe, sent, toClose>>

\* Mutant: an empty pipe is taken for the end of file.
ReadNothing(k) ==
    /\ cpc[k] = "read" /\ pipe[k] = <<>>
    /\ cpc' = [cpc EXCEPT ![k] = "quit"]
    /\ UNCHANGED <<parentVars, writers, readers, pipe, sent, toClose, command,
                   executed>>

\* read returns 0: the pipe is empty and nobody has its write end open.
ReadEndOfFile(k) ==
    /\ cpc[k] = "read" /\ pipe[k] = <<>> /\ writers[k] = {}
    /\ cpc' = [cpc EXCEPT ![k] = "quit"]
    /\ UNCHANGED <<parentVars, writers, readers, pipe, sent, toClose, command,
                   executed>>

\* close(pipefd[0]) and exit(0)
Exit(k) ==
    /\ cpc[k] = "quit"
    /\ cpc' = [cpc EXCEPT ![k] = "exited"]
    /\ writers' = WithoutProcess(writers, k)
    /\ readers' = WithoutProcess(readers, k)
    /\ UNCHANGED <<parentVars, pipe, sent, toClose, command, executed>>

-----------------------------------------------------------------------------
ParentStep ==
    \/ CreatePipe \/ Fork \/ RecordChannel \/ StartControl \/ SendTaskCommand
    \/ StartCleanUp \/ CloseChannel \/ Wait \/ ReturnFromMain

ChildStep(k) ==
    \/ CloseInherited(k) \/ CloseOwnWriteEnd(k) \/ ReadCommand(k)
    \/ ExcuteTask(k) \/ ReadEndOfFile(k) \/ Exit(k)

Next == ParentStep \/ \E k \in Children : ChildStep(k)

Spec == Init /\ [][Next]_vars

\* The kernel schedules every process that is not blocked.
FairSpec == Spec /\ WF_vars(ParentStep) /\ \A k \in Children : WF_vars(ChildStep(k))

-----------------------------------------------------------------------------
(* Properties                                                              *)

InHand(k) == IF command[k] = NoCommand THEN <<>> ELSE <<command[k]>>

\* Every command is executed by the child it was sent to, once and in the order of
\* the writes, whoever else holds the ends of that pipe.
CommandsInOrder ==
    \A k \in Children : sent[k] = executed[k] \o InHand(k) \o pipe[k]

\* The commands go round the channels: none gets two more than another, whether or
\* not all forks succeeded (ProcessPool.cc:127-133).
EvenlySpread ==
    \A k, j \in 1..channels : Len(sent[k]) <= Len(sent[j]) + 1

\* A child leaves its loop only after the parent has closed its channel and all
\* that was sent has been executed (ProcessPool.cc:198): neither a slow child nor
\* a parent that dies early loses a command.
QuitOnlyWhenDone ==
    \A k \in Children :
        cpc[k] \in {"quit", "exited"} =>
            Parent \notin writers[k] /\ executed[k] = sent[k]

\* The inherited write ends (ProcessPool.cc:78 and 91-101): besides the parent and
\* the child itself, pipe k is held open for writing only by younger children
\* that are still closing what they inherited; a child at work holds none.
WriteEndsPrivate ==
    \A k, j \in Children :
        j \in writers[k] => cpc[j] = "closing" /\ (j = k \/ k \in toClose[j])

\* When main returns no child is left, running or zombie.
NoChildLeft ==
    ppc = "done" => \A k \in Children : cpc[k] = "unborn" \/ k \in reaped

\* The pool shuts down: the parent ends and so does every child, also when fork
\* or pipe failed or SIGPIPE killed the parent.  With at least as many commands
\* as channels; see CleansUp.
ShutsDown ==
    <>[](ppc \in Ended /\ \A k \in Children : cpc[k] \in {"unborn", "exited"})

\* "a. close all write ends, b. reap the children" (ProcessPool.cc:226): once it
\* has been reached, the clean-up comes to an end.
CleansUp == (ppc = "close") ~> (ppc \in Ended)
=============================================================================
