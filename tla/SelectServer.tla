----------------------------- MODULE SelectServer -----------------------------
(***************************************************************************)
(* The server of IO/SelectServer/SelectServer.hpp: a table of descriptors, *)
(* a bitmap built from it before every select, and a walk over the table   *)
(* that handles what select has marked.  Clients act between any two of    *)
(* the server's system calls.                                              *)
(***************************************************************************)
EXTENDS TcpKernel

CONSTANT gnum   (* size of fd_array and number of bits of an fd_set *)

\* A process may not have more descriptors than an fd_set has bits: the default
\* soft limit of 1024 is exactly sizeof(fd_set) * 8.
SelectAssumption == gnum \in Nat /\ FdLimit <= gnum

VARIABLES
    fd_array, \* the descriptors select is asked about
    rfds,     \* those it has marked, a local of Loop's body
    pos,      \* the walk of HandlerEvent
    sending,  \* the descriptor HandlerIO owes an answer, or NoFd
    spc       \* "start", "select", "handle", "exited", or "killed" by SIGPIPE

serverVars == <<fd_array, rfds, pos, sending, spc>>
vars == <<kernelVars, serverVars>>

Slots == 0..gnum-1
Watched == {fd_array[i] : i \in Slots} \ {NoFd}

\* A member of the class has no value before InitServer; nothing reads it.
Init ==
    /\ KernelInit
    /\ fd_array = [i \in Slots |-> NoFd]
    /\ rfds = {}
    /\ pos = 0
    /\ sending = NoFd
    /\ spc = "start"

\* Marked slots the walk has still to visit.
ToHandle == {i \in pos..gnum-1 : fd_array[i] # NoFd /\ fd_array[i] \in rfds}

\* Mutant: the walk ends after the first event.
ProceedFirst(i) ==
    /\ pos' = gnum
    /\ UNCHANGED <<rfds, spc>>

\* The walk goes on behind slot i.
Proceed(i) ==
    /\ pos' = i + 1
    /\ UNCHANGED <<rfds, spc>>

-----------------------------------------------------------------------------
(* BuildListenSocket: each step succeeds or ends the process; whether      *)
(* ReUseAddr has succeeded is not looked at.  Clients may connect from     *)
(* listen on, before the server is ready for them.                         *)

Die == spc' = "exited" /\ UNCHANGED kernelVars

CreateSocketOrDie == (OpenSocket /\ UNCHANGED spc) \/ (listensock = "none" /\ Die)
CreateBindOrDie   == (Bind /\ UNCHANGED spc) \/ (listensock = "created" /\ Die)
CreateListenOrDie == (Listen /\ UNCHANGED spc) \/ (listensock = "bound" /\ Die)

BuildListenSocket ==
    /\ spc = "start"
    /\ CreateSocketOrDie \/ CreateBindOrDie \/ CreateListenOrDie
    /\ UNCHANGED <<fd_array, rfds, pos, sending>>

InitServer ==
    /\ spc = "start" /\ listensock = "listening"
    /\ fd_array' = [i \in Slots |-> IF i = 0 THEN FirstFd ELSE NoFd]
    /\ spc' = "select"
    /\ UNCHANGED <<kernelVars, rfds, pos, sending>>

-----------------------------------------------------------------------------
\* FD_ZERO, FD_SET for the whole table, and a select that returns: the bitmap holds
\* exactly the descriptors that are readable at that moment.
Select ==
    /\ spc = "select"
    /\ \E fd \in Watched : Readable(fd)
    /\ rfds' = {fd \in Watched : Readable(fd)}
    /\ pos' = 0 /\ spc' = "handle"
    /\ UNCHANGED <<kernelVars, fd_array, sending>>

\* Mutant: the events are handled although select has failed.
SelectErrorHandled ==
    /\ spc = "select"
    /\ rfds' = Watched
    /\ pos' = 0 /\ spc' = "handle"
    /\ UNCHANGED <<kernelVars, fd_array, sending>>

\* select fails, say with EINTR: it leaves the bitmap as it was given, and Loop does
\* not look at it.
SelectError ==
    /\ spc = "select"
    /\ UNCHANGED vars

\* The walk finds no further marked slot; PrintDebug, and back to the loop, where
\* the bitmap is made anew.
EndOfWalk ==
    /\ spc = "handle" /\ sending = NoFd /\ ToHandle = {}
    /\ spc' = "select" /\ rfds' = {} /\ pos' = 0
    /\ UNCHANGED <<kernelVars, fd_array, sending>>

\* The next slot the walk stops at.
At(i) ==
    /\ spc = "handle" /\ sending = NoFd
    /\ i \in ToHandle /\ \A j \in ToHandle : i <= j

FreeSlots == {slot \in Slots \ {0} : fd_array[slot] = NoFd}

\* Socket's Accepter: it gives the new descriptor, or NoFd when accept has failed for
\* want of a descriptor or of memory; the connection then stays in the backlog.
TcpAccepter(fd) == IF fd = NoFd THEN UNCHANGED kernelVars ELSE Accept(fd)

\* Accepter: the new descriptor goes to the first free slot; without one it is
\* closed ("Server Is Full!").
AddConnection(i) ==
    /\ At(i) /\ files[fd_array[i]] = Listening
    /\ IF FreeSlots = {}
       THEN AcceptAndClose /\ UNCHANGED fd_array
       ELSE \E fd \in FreeFds, slot \in FreeSlots :
                /\ TcpAccepter(fd)
                /\ \A s \in FreeSlots : slot <= s
                /\ fd_array' = [fd_array EXCEPT ![slot] = fd]
    /\ Proceed(i) /\ UNCHANGED sending

\* Accepter, nothing accepted.
AcceptError(i) ==
    /\ At(i) /\ files[fd_array[i]] = Listening
    /\ TcpAccepter(NoFd)
    /\ Proceed(i)
    /\ UNCHANGED <<fd_array, sending>>

\* HandlerIO with n > 0, up to the call of send.
ReadRequest(i) ==
    /\ At(i) /\ files[fd_array[i]] # Listening
    /\ Recv(fd_array[i])
    /\ sending' = fd_array[i]
    /\ Proceed(i)
    /\ UNCHANGED fd_array

\* The send of HandlerIO, which waits for room.  The first answer after a reset may
\* still be refused with an error, which nobody looks at; a later one raises SIGPIPE,
\* which the program does not handle.
Send ==
    /\ sending # NoFd /\ sending' = NoFd
    /\ \/ SendAnswer(sending) /\ UNCHANGED spc
       \/ SendError(sending) /\ spc' \in {spc, "killed"}
    /\ UNCHANGED <<fd_array, rfds, pos>>

\* Mutant: the slot keeps the number of the closed descriptor.
RemoveConnectionKeepingSlot(i) ==
    /\ At(i) /\ files[fd_array[i]] # Listening
    /\ RecvEnd(fd_array[i])
    /\ Close(fd_array[i])
    /\ Proceed(i)
    /\ UNCHANGED <<fd_array, sending>>

\* HandlerIO with n = 0 or n < 0.
RemoveConnection(i) ==
    /\ At(i) /\ files[fd_array[i]] # Listening
    /\ RecvEnd(fd_array[i])
    /\ Close(fd_array[i])
    /\ fd_array' = [fd_array EXCEPT ![i] = NoFd]
    /\ Proceed(i) /\ UNCHANGED sending

-----------------------------------------------------------------------------
HandlerEvent ==
    \/ \E i \in Slots :
           AddConnection(i) \/ AcceptError(i) \/ ReadRequest(i) \/ RemoveConnection(i)
    \/ Send

ServerStep == BuildListenSocket \/ InitServer \/ Select \/ EndOfWalk \/ HandlerEvent

Next ==
    /\ spc \notin {"killed", "exited"}
    /\ \/ ServerStep \/ SelectError
       \/ ClientStep /\ UNCHANGED serverVars

Spec == Init /\ [][Next]_vars

\* The server is scheduled; clients and failures are free.
Fairness == WF_vars(ServerStep)

-----------------------------------------------------------------------------
(* Properties                                                              *)

\* The table lists every open descriptor once and nothing else: no connection is
\* leaked, watched twice, or watched after it was closed.
TableExact ==
    /\ Watched = IF spc \in {"start", "exited"} THEN {} ELSE OpenFds
    /\ \A i, j \in Slots : fd_array[i] = fd_array[j] /\ fd_array[i] # NoFd => i = j

\* accept and recv are only called on what is readable then, however long ago
\* select said so and whatever was accepted and closed since ("will this block? it
\* certainly will not", SelectServer.hpp:34 and 68).
NeverBlocks == spc = "handle" => \A i \in ToHandle : Readable(fd_array[i])

\* The only thread of the server waits inside send.
Blocked == sending # NoFd /\ SendBlocks(sending)

Answering(c) == sending # NoFd /\ files[sending] = c

\* As long as no send blocks for ever, no connection is starved by the others: a
\* request is received and its answer begun, and once the client has closed, so does
\* the server - unless the process has been killed.  The premise is a fact about the
\* clients: the thread that waits in send serves nobody (SelectServer.hpp:79).
EventsHandled ==
    []<>~Blocked =>
        \A c \in Clients :
            /\ (Accepted(c) /\ pending[c] > 0) ~> (Answering(c) \/ ~Accepted(c) \/ spc = "killed")
            /\ (Accepted(c) /\ peer[c] # "open") ~> (~Accepted(c) \/ spc = "killed")
=============================================================================
