------------------------------ MODULE PollServer ------------------------------
(***************************************************************************)
(* The server of IO/Pollserver/PollServer.hpp: a table of pollfd records.  *)
(* poll writes its answer into the slots themselves, so a slot carries its *)
(* readiness with it when its descriptor is closed or replaced.  Nothing   *)
(* bounds descriptor numbers by the size of the table here, so the table   *)
(* can be full.                                                            *)
(***************************************************************************)
EXTENDS TcpKernel

CONSTANT gnum   (* number of slots *)

PollAssumption == gnum \in Nat \ {0}

VARIABLES
    fd_events, \* per slot its descriptor and whether revents has POLLIN set
    pos,       \* the walk of HandlerEvent
    sending,   \* the descriptor HandlerIO owes an answer, or NoFd
    spc        \* "start", "poll", "handle", "exited", or "killed" by SIGPIPE

serverVars == <<fd_events, pos, sending, spc>>
vars == <<kernelVars, serverVars>>

Slots == 0..gnum-1
Empty == [fd |-> NoFd, revents |-> FALSE]
Watched == {fd_events[i].fd : i \in Slots} \ {NoFd}

\* A member of the class has no value before InitServer; nothing reads it.
Init ==
    /\ KernelInit
    /\ fd_events = [i \in Slots |-> Empty]
    /\ pos = 0
    /\ sending = NoFd
    /\ spc = "start"

\* Marked slots the walk has still to visit.
ToHandle == {i \in pos..gnum-1 : fd_events[i].fd # NoFd /\ fd_events[i].revents}

-----------------------------------------------------------------------------
(* BuildListenSocket: each step succeeds or ends the process; whether      *)
(* ReUseAddr has succeeded is not looked at.  Clients may connect from     *)
(* listen on, before the server is ready for them.                         *)

Die == spc' = "exited" /\ UNCHANGED kernelVars

CreateSocketOrDie == (OpenSocket /\ UNCHANGED spc) \/ (listensock = "none" /\ Die)
CreateBindOrDie   == (Bind /\ UNCHANGED spc) \/ (listensock = "created" /\ Die)
CreateListenOrDie == (Listen /\ UNCHANGED spc) \/ (listensock = "bound" /\ Die)

BuildListenSocket ==
    /\ spc = "start"
    /\ CreateSocketOrDie \/ CreateBindOrDie \/ CreateListenOrDie
    /\ UNCHANGED <<fd_events, pos, sending>>

InitServer ==
    /\ spc = "start" /\ listensock = "listening"
    /\ fd_events' = [i \in Slots |-> IF i = 0 THEN [Empty EXCEPT !.fd = FirstFd] ELSE Empty]
    /\ spc' = "poll"
    /\ UNCHANGED <<kernelVars, pos, sending>>

-----------------------------------------------------------------------------
Ready(i) == fd_events[i].fd # NoFd /\ Readable(fd_events[i].fd)

\* Mutant: poll only ever adds marks.
PollAddingMarks ==
    /\ spc = "poll"
    /\ \E i \in Slots : Ready(i)
    /\ fd_events' = [i \in Slots |-> [fd_events[i] EXCEPT !.revents = @ \/ Ready(i)]]
    /\ pos' = 0 /\ spc' = "handle"
    /\ UNCHANGED <<kernelVars, sending>>

\* poll returns with every revents set anew, to 0 where the descriptor is negative.
Poll ==
    /\ spc = "poll"
    /\ \E i \in Slots : Ready(i)
    /\ fd_events' = [i \in Slots |-> [fd_events[i] EXCEPT !.revents = Ready(i)]]
    /\ pos' = 0 /\ spc' = "handle"
    /\ UNCHANGED <<kernelVars, sending>>

\* The walk finds no further marked slot; PrintDebug, and back to the loop.
EndOfWalk ==
    /\ spc = "handle" /\ sending = NoFd /\ ToHandle = {}
    /\ spc' = "poll" /\ pos' = 0
    /\ UNCHANGED <<kernelVars, fd_events, sending>>

\* The next slot the walk stops at, on its way to the slot behind it.
Visit(i) ==
    /\ spc = "handle" /\ sending = NoFd
    /\ i \in ToHandle /\ \A j \in ToHandle : i <= j
    /\ pos' = i + 1

IsListening(i) == files[fd_events[i].fd] = Listening
FreeSlots == {slot \in Slots \ {0} : fd_events[slot].fd = NoFd}

\* Socket's Accepter: it gives the new descriptor, or NoFd when accept has failed for
\* want of a descriptor or of memory; the connection then stays in the backlog.
TcpAccepter(fd) == IF fd = NoFd THEN UNCHANGED kernelVars ELSE Accept(fd)

\* Accepter with a free slot: the first one gets the new descriptor.
AddConnection(i) ==
    /\ Visit(i) /\ IsListening(i)
    /\ \E fd \in FreeFds, slot \in FreeSlots :
        /\ TcpAccepter(fd)
        /\ \A s \in FreeSlots : slot <= s
        /\ fd_events' = [fd_events EXCEPT ![slot].fd = fd]
    /\ UNCHANGED <<sending, spc>>

\* Mutant: a full server accepts and keeps the descriptor.
RefuseLeaking(i) ==
    /\ Visit(i) /\ IsListening(i) /\ FreeSlots = {}
    /\ \E fd \in FreeFds : Accept(fd)
    /\ UNCHANGED <<fd_events, sending, spc>>

\* Accepter without one: "Server Is Full!".
Refuse(i) ==
    /\ Visit(i) /\ IsListening(i) /\ FreeSlots = {}
    /\ AcceptAndClose
    /\ UNCHANGED <<fd_events, sending, spc>>

\* Accepter, nothing accepted.
AcceptError(i) ==
    /\ Visit(i) /\ IsListening(i)
    /\ TcpAccepter(NoFd)
    /\ UNCHANGED <<fd_events, sending, spc>>

\* HandlerIO with n > 0, up to the call of send.
ReadRequest(i) ==
    /\ Visit(i) /\ ~IsListening(i)
    /\ Recv(fd_events[i].fd)
    /\ sending' = fd_events[i].fd
    /\ UNCHANGED <<fd_events, spc>>

\* Its send, which waits for room; one to a reset connection may raise SIGPIPE.
Send ==
    /\ sending # NoFd /\ sending' = NoFd
    /\ \/ SendAnswer(sending) /\ UNCHANGED spc
       \/ SendError(sending) /\ spc' \in {spc, "killed"}
    /\ UNCHANGED <<fd_events, pos>>

\* HandlerIO with n = 0 or n < 0: the slot is emptied, its revents included.
RemoveConnection(i) ==
    /\ Visit(i) /\ ~IsListening(i)
    /\ RecvEnd(fd_events[i].fd)
    /\ Close(fd_events[i].fd)
    /\ fd_events' = [fd_events EXCEPT ![i] = Empty]
    /\ UNCHANGED <<sending, spc>>

-----------------------------------------------------------------------------
HandlerEvent ==
    \/ \E i \in Slots :
           \/ AddConnection(i) \/ Refuse(i) \/ AcceptError(i)
           \/ ReadRequest(i) \/ RemoveConnection(i)
    \/ Send

ServerStep == BuildListenSocket \/ InitServer \/ Poll \/ EndOfWalk \/ HandlerEvent

\* A failing poll marks nothing and changes nothing: it is a stuttering step.
Next ==
    /\ spc \notin {"killed", "exited"}
    /\ ServerStep \/ (ClientStep /\ UNCHANGED serverVars)

Spec == Init /\ [][Next]_vars

\* The server is scheduled; clients and failures are free.
Fairness == WF_vars(ServerStep)

-----------------------------------------------------------------------------
(* Properties                                                              *)

\* The table lists every open descriptor once and nothing else, whether the server
\* has been full or not (PollServer.hpp:46-63 and 92-107).
TableExact ==
    /\ Watched = IF spc \in {"start", "exited"} THEN {} ELSE OpenFds
    /\ \A i, j \in Slots : fd_events[i].fd = fd_events[j].fd /\ fd_events[i].fd # NoFd => i = j

\* accept and recv are only called on what is readable then: no slot keeps a mark of
\* its former descriptor ("will reading block here? no", PollServer.hpp:75).
NeverBlocks == spc = "handle" => \A i \in ToHandle : Readable(fd_events[i].fd)

\* The only thread of the server waits inside send.
Blocked == sending # NoFd /\ SendBlocks(sending)

Answering(c) == sending # NoFd /\ files[sending] = c

\* As for the select server: while no send blocks for ever (PollServer.hpp:86),
\* requests are received and answered, and closed connections are closed, unless the
\* process has been killed.
EventsHandled ==
    []<>~Blocked =>
        \A c \in Clients :
            /\ (Accepted(c) /\ pending[c] > 0) ~> (Answering(c) \/ ~Accepted(c) \/ spc = "killed")
            /\ (Accepted(c) /\ peer[c] # "open") ~> (~Accepted(c) \/ spc = "killed")
=============================================================================
