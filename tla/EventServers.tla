----------------------------- MODULE EventServers -----------------------------
(***************************************************************************)
(* The select, the poll and the epoll server in front of the same clients. *)
(* A behaviour is one of a single server: `server' says which and never    *)
(* changes, and the variables of the others keep their initial values.     *)
(* The poll server comes with a table that is never full and with a small  *)
(* one that can be, the epoll server as committed ("idle") and with the    *)
(* call of its handler that is commented out, then with room for several   *)
(* events per epoll_wait or for few ("narrow").                            *)
(***************************************************************************)
EXTENDS TcpKernel

CONSTANTS SelectSlots, PollSlots, SmallSlots, EpollEvents, FewEvents

VARIABLES server, fd_array, rfds, fd_events, pos,
          interest, unwatched, revs, skipped, sending, spc

Select == INSTANCE SelectServer WITH gnum <- SelectSlots
Poll(slots) == INSTANCE PollServer WITH gnum <- slots
Epoll(room, handled) == INSTANCE EpollServer WITH num <- room, Dispatch <- handled

ASSUME EventServersAssumption ==
    /\ Select!SelectAssumption
    /\ Poll(PollSlots)!PollAssumption /\ Poll(SmallSlots)!PollAssumption
    /\ Epoll(EpollEvents, TRUE)!EpollAssumption /\ Epoll(FewEvents, TRUE)!EpollAssumption

vars == <<kernelVars, server, fd_array, rfds, fd_events, pos,
          interest, unwatched, revs, skipped, sending, spc>>

\* The variables of one kind of server that the others do not have.
selectOnly == <<fd_array, rfds>>
pollOnly == <<fd_events>>
epollOnly == <<interest, unwatched, revs, skipped>>

Init ==
    \/ /\ server = "select" /\ Select!Init
       /\ fd_events = <<>>
       /\ interest = {} /\ unwatched = {} /\ revs = {} /\ skipped = {}
    \/ /\ \/ server = "poll" /\ Poll(PollSlots)!Init
          \/ server = "small" /\ Poll(SmallSlots)!Init
       /\ fd_array = <<>> /\ rfds = {}
       /\ interest = {} /\ unwatched = {} /\ revs = {} /\ skipped = {}
    \/ /\ \/ server = "epoll" /\ Epoll(EpollEvents, TRUE)!Init
          \/ server = "narrow" /\ Epoll(FewEvents, TRUE)!Init
          \/ server = "idle" /\ Epoll(EpollEvents, FALSE)!Init
       /\ fd_array = <<>> /\ rfds = {} /\ fd_events = <<>> /\ pos = 0

Next ==
    /\ UNCHANGED server
    /\ \/ server = "select" /\ Select!Next /\ UNCHANGED <<pollOnly, epollOnly>>
       \/ server = "poll" /\ Poll(PollSlots)!Next /\ UNCHANGED <<selectOnly, epollOnly>>
       \/ server = "small" /\ Poll(SmallSlots)!Next /\ UNCHANGED <<selectOnly, epollOnly>>
       \/ server = "epoll" /\ Epoll(EpollEvents, TRUE)!Next /\ UNCHANGED <<selectOnly, pollOnly, pos>>
       \/ server = "narrow" /\ Epoll(FewEvents, TRUE)!Next /\ UNCHANGED <<selectOnly, pollOnly, pos>>
       \/ server = "idle" /\ Epoll(EpollEvents, FALSE)!Next /\ UNCHANGED <<selectOnly, pollOnly, pos>>

ServerStep ==
    /\ UNCHANGED server
    /\ \/ server = "select" /\ Select!ServerStep /\ UNCHANGED <<pollOnly, epollOnly>>
       \/ server = "poll" /\ Poll(PollSlots)!ServerStep /\ UNCHANGED <<selectOnly, epollOnly>>
       \/ server = "small" /\ Poll(SmallSlots)!ServerStep /\ UNCHANGED <<selectOnly, epollOnly>>
       \/ server = "epoll" /\ Epoll(EpollEvents, TRUE)!ServerStep /\ UNCHANGED <<selectOnly, pollOnly, pos>>
       \/ server = "narrow" /\ Epoll(FewEvents, TRUE)!ServerStep /\ UNCHANGED <<selectOnly, pollOnly, pos>>

FairSpec == Init /\ [][Next]_vars /\ WF_vars(ServerStep)

-----------------------------------------------------------------------------
\* The table, or epoll set, of a server lists the open descriptors, each once, and
\* nothing else (SelectServer.hpp:45-59 and 81-96, PollServer.hpp:46-63 and 86-107);
\* only a failing epoll_ctl leaves a descriptor out (EpollServer.hpp:71 and 98-108).
TableExact ==
    /\ server = "select" => Select!TableExact
    /\ server = "poll" => Poll(PollSlots)!TableExact
    /\ server = "small" => Poll(SmallSlots)!TableExact
    /\ server = "epoll" => Epoll(EpollEvents, TRUE)!TableExact
    /\ server = "narrow" => Epoll(FewEvents, TRUE)!TableExact
    /\ server = "idle" => Epoll(EpollEvents, FALSE)!TableExact

\* No server calls accept or recv where it would block (SelectServer.hpp:34 and 68,
\* PollServer.hpp:39 and 75, EpollServer.hpp:57 and 80).
NeverBlocks ==
    /\ server = "select" => Select!NeverBlocks
    /\ server = "poll" => Poll(PollSlots)!NeverBlocks
    /\ server = "small" => Poll(SmallSlots)!NeverBlocks
    /\ server = "epoll" => Epoll(EpollEvents, TRUE)!NeverBlocks
    /\ server = "narrow" => Epoll(FewEvents, TRUE)!NeverBlocks

\* No server with its handlers starves a connection while the process lives and
\* nobody lets it wait in send for ever (SelectServer.hpp:79 and 102, PollServer.hpp:86
\* and 113, EpollServer.hpp:92 and 113).
EventsHandled ==
    /\ server = "select" => Select!EventsHandled
    /\ server = "poll" => Poll(PollSlots)!EventsHandled
    /\ server = "small" => Poll(SmallSlots)!EventsHandled
    /\ server = "epoll" => Epoll(EpollEvents, TRUE)!EventsHandled
    /\ server = "narrow" => Epoll(FewEvents, TRUE)!EventsHandled
=============================================================================
