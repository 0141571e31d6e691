------------------------------ MODULE NamedPipe ------------------------------
(***************************************************************************)
(* The class NamePiped of 3.fifo/namedPipe.hpp and what the kernel does    *)
(* for it: a name that may be taken away while the fifo behind it is in    *)
(* use, open that waits for the other side, a buffer that goes with the    *)
(* last descriptor.  Servers create and read, Clients write.               *)
(***************************************************************************)
EXTENDS Integers, Sequences, FiniteSets

CONSTANTS Servers, Clients,
          Capacity (* messages that fit into a fifo *)

NamedPipeAssumption == Capacity \in Nat \ {0} /\ Servers \cap Clients = {}

VARIABLES
    pc,   \* where each process is
    path, \* the fifo that has the name comm_path
    data, \* what is in each fifo ever made; a fifo is its index
    fd    \* the fifo each process has opened, or is opening

pipeVars == <<pc, path, data, fd>>

Processes == Servers \cup Clients
NoFifo == 0 \* also the descriptor of one that has opened nothing

Readers(f) == {s \in Servers : fd[s] = f}
Writers(f) == {c \in Clients : fd[c] = f}
Partners(p, f) == IF p \in Servers THEN Writers(f) ELSE Readers(f)

PipeInit ==
    /\ pc = [p \in Processes |-> "off"]
    /\ path = NoFifo
    /\ data = <<>>
    /\ fd = [p \in Processes |-> NoFifo]

Goto(p, place) == pc' = [pc EXCEPT ![p] = place]

-----------------------------------------------------------------------------
\* The constructor of a creator: EEXIST is reported and the fifo used as it is.
CreateNamedPipe ==
    IF path = NoFifo THEN data' = Append(data, <<>>) /\ path' = Len(data')
                     ELSE UNCHANGED <<data, path>>

\* open returns when the other side is there, which it lets go on, too.
OpenNamedPipe(p) ==
    /\ path # NoFifo
    /\ fd' = [fd EXCEPT ![p] = path]
    /\ LET partners == Partners(p, path)
       IN  pc' = [q \in Processes |->
                     CASE q = p -> IF partners = {} THEN "opening" ELSE "open"
                       [] q \in partners /\ pc[q] = "opening" -> "open"
                       [] OTHER -> pc[q]]
    /\ UNCHANGED <<path, data>>

\* read: everything in the fifo or, as BaseSize is reached, the first part of it.
ReadNamedPipe(s, n) ==
    /\ fd[s] # NoFifo /\ n \in 1..Len(data[fd[s]])
    /\ data' = [data EXCEPT ![fd[s]] = SubSeq(@, n + 1, Len(@))]

\* read has returned 0, or -1 for want of an open fifo.
ReadEndOfFile(s) ==
    fd[s] # NoFifo => data[fd[s]] = <<>> /\ Writers(fd[s]) = {}

WriteNamedPipe(c, message) ==
    /\ fd[c] # NoFifo /\ Readers(fd[c]) # {} /\ Len(data[fd[c]]) < Capacity
    /\ data' = [data EXCEPT ![fd[c]] = Append(@, message)]

\* write raises SIGPIPE.
Broken(c) == fd[c] # NoFifo /\ Readers(fd[c]) = {}

\* close, by the destructor or by the end of the process.
Close(p) ==
    /\ fd' = [fd EXCEPT ![p] = NoFifo]
    /\ data' = IF fd[p] # NoFifo /\ Readers(fd[p]) \cup Writers(fd[p]) = {p}
                 THEN [data EXCEPT ![fd[p]] = <<>>] ELSE data

\* unlink, whatever fifo has the name by now.
RemoveName == path' = NoFifo
=============================================================================
