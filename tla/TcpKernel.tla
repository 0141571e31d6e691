------------------------------ MODULE TcpKernel ------------------------------
(***************************************************************************)
(* What the event-driven servers under IO/ see of TCP: the accept queue,   *)
(* the descriptor table of the process with its lowest-free-number rule,   *)
(* and per client what recv and send would do.  Everything here is outside *)
(* the repository; it is modelled from the calls in Socket.hpp.            *)
(*                                                                         *)
(* A client may connect again after the server has closed its connection,  *)
(* so descriptor numbers are used again and again.                         *)
(***************************************************************************)
EXTENDS Integers, Sequences, FiniteSets

CONSTANTS Clients,
          FirstFd,    (* the number of the listening socket                  *)
          FdLimit,    (* descriptors have numbers below this one             *)
          MaxPending, (* bound: requests of a client waiting to be received  *)
          Room,       (* answers on their way to a client that does not read *)
          Listening,  (* the file behind the listening socket                *)
          NoFile      (* the file behind a free number                       *)

ASSUME KernelAssumption ==
    /\ FirstFd \in Nat /\ FdLimit \in Nat /\ FirstFd < FdLimit
    /\ MaxPending \in Nat \ {0} /\ Room \in Nat \ {0}
    /\ Listening \notin Clients /\ NoFile \notin Clients /\ Listening # NoFile

VARIABLES
    listensock, \* how far the listening socket is: "none", "created", "bound", "listening"
    backlog, \* connections the kernel has established and nobody has accepted
    files,   \* the file behind each descriptor number
    pending, \* requests of each client that wait to be received
    peer,    \* the client's end of its connection
    unread   \* answers sent to each client that it has not read

connVars == <<backlog, files, pending, peer, unread>>
kernelVars == <<listensock, connVars>>

Fds  == FirstFd..FdLimit-1
NoFd == -1

Accepted(c)  == \E fd \in Fds : files[fd] = c
Connected(c) == Accepted(c) \/ \E n \in DOMAIN backlog : backlog[n] = c
OpenFds      == {fd \in Fds : files[fd] # NoFile}
FreeFds      == Fds \ OpenFds

KernelInit ==
    /\ listensock = "none"
    /\ backlog = <<>>
    /\ files = [fd \in Fds |-> NoFile]
    /\ pending = [c \in Clients |-> 0]
    /\ peer = [c \in Clients |-> "open"]
    /\ unread = [c \in Clients |-> 0]

\* accept or recv on this descriptor would not block.
Readable(fd) ==
    \/ files[fd] = Listening /\ backlog # <<>>
    \/ files[fd] \in Clients /\ (pending[files[fd]] > 0 \/ peer[files[fd]] # "open")

-----------------------------------------------------------------------------
(* The clients                                                             *)

\* Nobody gets through before listen: the connection is refused.
Connect(c) ==
    /\ listensock = "listening" /\ ~Connected(c)
    /\ backlog' = Append(backlog, c)
    /\ UNCHANGED <<listensock, files, pending, peer, unread>>

SendRequest(c) ==
    /\ Connected(c) /\ peer[c] = "open" /\ pending[c] < MaxPending
    /\ pending' = [pending EXCEPT ![c] = @ + 1]
    /\ UNCHANGED <<listensock, backlog, files, peer, unread>>

CloseClient(c) ==
    /\ Connected(c) /\ peer[c] = "open"
    /\ peer' = [peer EXCEPT ![c] = "closed"]
    /\ UNCHANGED <<listensock, backlog, files, pending, unread>>

\* Nothing makes a client read its answers.
ReadAnswer(c) ==
    /\ Connected(c) /\ peer[c] = "open" /\ unread[c] > 0
    /\ \E rest \in 0..unread[c]-1 : unread' = [unread EXCEPT ![c] = rest]
    /\ UNCHANGED <<listensock, backlog, files, pending, peer>>

\* A client that has closed resets the connection for an answer it did not read.
Reset(c) ==
    /\ Connected(c) /\ peer[c] = "closed" /\ unread[c] > 0
    /\ peer' = [peer EXCEPT ![c] = "reset"]
    /\ UNCHANGED <<listensock, backlog, files, pending, unread>>

ClientStep ==
    \E c \in Clients :
        Connect(c) \/ SendRequest(c) \/ ReadAnswer(c) \/ CloseClient(c) \/ Reset(c)

-----------------------------------------------------------------------------
(* System calls of the server                                              *)

\* socket, bind and listen of the listening socket, which is the first descriptor.
OpenSocket ==
    /\ listensock = "none" /\ listensock' = "created"
    /\ files' = [files EXCEPT ![FirstFd] = Listening]
    /\ UNCHANGED <<backlog, pending, peer, unread>>

Bind   == listensock = "created" /\ listensock' = "bound" /\ UNCHANGED connVars
Listen == listensock = "bound" /\ listensock' = "listening" /\ UNCHANGED connVars

\* accept gives the oldest connection the lowest free number.
Accept(fd) ==
    /\ backlog # <<>> /\ fd \in FreeFds
    /\ \A other \in FreeFds : fd <= other
    /\ files' = [files EXCEPT ![fd] = Head(backlog)]
    /\ backlog' = Tail(backlog)
    /\ UNCHANGED <<listensock, pending, peer, unread>>

\* What is left of a connection after close.
Forget(c) ==
    /\ pending' = [pending EXCEPT ![c] = 0]
    /\ peer' = [peer EXCEPT ![c] = "open"]
    /\ unread' = [unread EXCEPT ![c] = 0]

Close(fd) ==
    /\ files' = [files EXCEPT ![fd] = NoFile]
    /\ Forget(files[fd])
    /\ UNCHANGED <<listensock, backlog>>

\* accept followed at once by close.
AcceptAndClose ==
    /\ backlog # <<>> /\ FreeFds # {}
    /\ backlog' = Tail(backlog)
    /\ Forget(Head(backlog))
    /\ UNCHANGED <<listensock, files>>

\* recv returns some of the requests, which arrive as bytes without boundaries.
Recv(fd) ==
    /\ pending[files[fd]] > 0
    /\ \E rest \in 0..pending[files[fd]]-1 : pending' = [pending EXCEPT ![files[fd]] = rest]
    /\ UNCHANGED <<listensock, backlog, files, peer, unread>>

\* recv returns 0 or, after a reset, -1.
RecvEnd(fd) == pending[files[fd]] = 0 /\ peer[files[fd]] # "open"

\* send on a blocking socket waits while there is no room for the answer; a reset wakes it.
SendBlocks(fd) == unread[files[fd]] = Room /\ peer[files[fd]] # "reset"

SendAnswer(fd) ==
    /\ unread[files[fd]] < Room /\ peer[files[fd]] # "reset"
    /\ unread' = [unread EXCEPT ![files[fd]] = @ + 1]
    /\ UNCHANGED <<listensock, backlog, files, pending, peer>>

\* send fails with ECONNRESET or EPIPE.
SendError(fd) == peer[files[fd]] = "reset" /\ UNCHANGED kernelVars

=============================================================================
