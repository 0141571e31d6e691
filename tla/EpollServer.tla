------------------------------ MODULE EpollServer ------------------------------
(***************************************************************************)
(* The server of IO/1.epollserver/EpollServer.hpp: the kernel keeps the    *)
(* set of descriptors of interest, so there is no table that could be      *)
(* full, and the order in which ready descriptors are reported is the      *)
(* kernel's.  The descriptor of epoll itself is not among Fds.             *)
(*                                                                         *)
(* As committed, Loop has its call of HandlerEvent commented out (line     *)
(* 145).  Dispatch says whether it is there: the handlers are checked with *)
(* it, and without it the server does nothing but wait.                    *)
(***************************************************************************)
EXTENDS TcpKernel

CONSTANTS num,     (* room in revs, at most so many events are reported at a time *)
          Dispatch (* HandlerEvent is called by the loop                          *)

EpollAssumption == num \in Nat \ {0} /\ Dispatch \in BOOLEAN

VARIABLES
    interest,  \* descriptors added to the epoll set
    unwatched, \* history: open descriptors that epoll_ctl has failed to add
    revs,      \* events reported and not yet visited
    skipped,   \* ready descriptors that did not fit into revs, first in the next report
    sending,   \* the descriptor HandlerIO owes an answer, or NoFd
    spc        \* "start", "created", "wait", "handle", "exited", or "killed"

serverVars == <<interest, unwatched, revs, skipped, sending, spc>>
vars == <<kernelVars, serverVars>>

Init ==
    /\ KernelInit
    /\ interest = {} /\ unwatched = {}
    /\ revs = {} /\ skipped = {}
    /\ sending = NoFd
    /\ spc = "start"

-----------------------------------------------------------------------------
(* BuildListenSocket: each step succeeds or ends the process; whether      *)
(* ReUseAddr has succeeded is not looked at.  Clients may connect from     *)
(* listen on, before the server is ready for them.                         *)

Die == spc' = "exited" /\ UNCHANGED kernelVars

CreateSocketOrDie == (OpenSocket /\ UNCHANGED spc) \/ (listensock = "none" /\ Die)
CreateBindOrDie   == (Bind /\ UNCHANGED spc) \/ (listensock = "created" /\ Die)
CreateListenOrDie == (Listen /\ UNCHANGED spc) \/ (listensock = "bound" /\ Die)

BuildListenSocket ==
    /\ spc = "start"
    /\ CreateSocketOrDie \/ CreateBindOrDie \/ CreateListenOrDie
    /\ UNCHANGED <<interest, unwatched, revs, skipped, sending>>

\* epoll_create, the rest of the constructor.
EpollCreate ==
    /\ spc = "start" /\ listensock = "listening"
    /\ spc' \in {"created", "exited"}
    /\ UNCHANGED <<kernelVars, interest, unwatched, revs, skipped, sending>>

\* Here the outcome of epoll_ctl is looked at.
InitServer ==
    /\ spc = "created"
    /\ \/ interest' = {FirstFd} /\ spc' = "wait"
       \/ spc' = "exited" /\ UNCHANGED interest
    /\ UNCHANGED <<kernelVars, unwatched, revs, skipped, sending>>

-----------------------------------------------------------------------------
Ready == {fd \in interest : Readable(fd)}

\* Mutant: the kernel's choice is not fair.
ReportUnfair(events) ==
    /\ events \subseteq Ready
    /\ Cardinality(events) = num \/ (events = Ready /\ Cardinality(events) < num)

\* What epoll_wait may report: all that is ready or, if it does not fit, as much as
\* fits; successive calls go round, so that what was skipped comes before what was not.
Report(events) ==
    /\ events \subseteq Ready
    /\ Cardinality(events) = num \/ (events = Ready /\ Cardinality(events) < num)
    /\ skipped \cap Ready \subseteq events \/ events \subseteq skipped

\* epoll_wait; HandlerEvent meets the reported events in any order.
EpollWait ==
    /\ spc = "wait"
    /\ Ready # {}
    /\ IF Dispatch
       THEN \E events \in SUBSET Ready :
                /\ Report(events)
                /\ revs' = events /\ spc' = "handle"
                /\ skipped' = (IF skipped \cap Ready \subseteq events THEN Ready ELSE skipped) \ events
       ELSE UNCHANGED <<revs, skipped, spc>>
    /\ UNCHANGED <<kernelVars, interest, unwatched, sending>>

\* HandlerEvent comes to the event of fd.
Visit(fd) ==
    /\ spc = "handle" /\ sending = NoFd /\ fd \in revs
    /\ revs' = revs \ {fd}
    /\ UNCHANGED skipped

EndOfEvents ==
    /\ spc = "handle" /\ sending = NoFd /\ revs = {}
    /\ spc' = "wait"
    /\ UNCHANGED <<kernelVars, interest, unwatched, revs, skipped, sending>>

\* Socket's Accepter: it gives the new descriptor, or NoFd when accept has failed for
\* want of a descriptor or of memory; the connection then stays in the backlog.
TcpAccepter(fd) == IF fd = NoFd THEN UNCHANGED kernelVars ELSE Accept(fd)

\* Accepter: nobody looks whether epoll_ctl has added the descriptor.
Accepter(fd) ==
    /\ Visit(fd) /\ files[fd] = Listening
    /\ \E new \in FreeFds :
        /\ TcpAccepter(new)
        /\ \/ interest' = interest \cup {new} /\ UNCHANGED unwatched
           \/ unwatched' = unwatched \cup {new} /\ UNCHANGED interest
    /\ UNCHANGED <<sending, spc>>

\* Accepter, nothing accepted.
AcceptError(fd) ==
    /\ Visit(fd) /\ files[fd] = Listening
    /\ TcpAccepter(NoFd)
    /\ UNCHANGED <<interest, unwatched, sending, spc>>

\* HandlerIO with n > 0, up to the call of send.
ReadRequest(fd) ==
    /\ Visit(fd) /\ files[fd] \in Clients
    /\ Recv(fd)
    /\ sending' = fd
    /\ UNCHANGED <<interest, unwatched, spc>>

\* Its send, which waits for room; one to a reset connection may raise SIGPIPE.
Send ==
    /\ sending # NoFd /\ sending' = NoFd
    /\ \/ SendAnswer(sending) /\ UNCHANGED spc
       \/ SendError(sending) /\ spc' \in {spc, "killed"}
    /\ UNCHANGED <<interest, unwatched, revs, skipped>>

\* Mutant: a connection that has failed is taken out of the epoll set and left open.
RemoveWithoutClose(fd) ==
    /\ Visit(fd) /\ files[fd] \in Clients
    /\ RecvEnd(fd) /\ UNCHANGED kernelVars
    /\ interest' = interest \ {fd}
    /\ UNCHANGED <<unwatched, sending, spc>>

\* HandlerIO with n = 0 or n < 0: EPOLL_CTL_DEL, then close.
RemoveConnection(fd) ==
    /\ Visit(fd) /\ files[fd] \in Clients
    /\ RecvEnd(fd) /\ Close(fd)
    /\ interest' = interest \ {fd}
    /\ UNCHANGED <<unwatched, sending, spc>>

HandlerEvent ==
    \/ \E fd \in Fds :
           Accepter(fd) \/ AcceptError(fd) \/ ReadRequest(fd) \/ RemoveConnection(fd)
    \/ Send

-----------------------------------------------------------------------------
ServerStep ==
    \/ BuildListenSocket \/ EpollCreate \/ InitServer
    \/ EpollWait \/ EndOfEvents \/ HandlerEvent

Next ==
    /\ spc \notin {"killed", "exited"}
    /\ ServerStep \/ (ClientStep /\ UNCHANGED serverVars)

Spec == Init /\ [][Next]_vars

Fairness == WF_vars(ServerStep)

-----------------------------------------------------------------------------
(* Properties                                                              *)

\* The epoll set is exactly the open descriptors, but for those that epoll_ctl has
\* failed to add, which stay open all the same; without the dispatch nothing is ever
\* accepted (EpollServer.hpp:71, 98-100 and 145).
TableExact ==
    /\ interest = IF spc \in {"start", "created", "exited"} THEN {} ELSE OpenFds \ unwatched
    /\ unwatched \subseteq OpenFds
    /\ Dispatch \/ OpenFds \subseteq {FirstFd}

\* accept and recv are only called on what is readable then, in whatever order the
\* events come and although descriptors are closed and their numbers given to new
\* connections on the way (EpollServer.hpp:57 "will not block", 80).
NeverBlocks == spc = "handle" => \A fd \in revs : Readable(fd)

Watched(c) == \E fd \in interest : files[fd] = c

\* The only thread of the server waits inside send.
Blocked == sending # NoFd /\ SendBlocks(sending)

Answering(c) == sending # NoFd /\ files[sending] = c

\* As long as no send blocks for ever (EpollServer.hpp:92), a connection that made it
\* into the epoll set is served, however many are ready at a time: its requests are
\* received and answered and it is closed after its client has closed.
EventsHandled ==
    []<>~Blocked =>
        \A c \in Clients :
            /\ (Watched(c) /\ pending[c] > 0) ~> (Answering(c) \/ ~Watched(c) \/ spc = "killed")
            /\ (Watched(c) /\ peer[c] # "open") ~> (~Watched(c) \/ spc = "killed")
=============================================================================
