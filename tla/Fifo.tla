--------------------------------- MODULE Fifo ---------------------------------
(***************************************************************************)
(* The server and the client of 3.fifo: server.cc and client.cc.           *)
(* Several of each may run, each of them once: a server that is started    *)
(* while another one quits finds the fifo of that one.  The client never   *)
(* leaves its loop, after the end of its input it writes empty messages,   *)
(* which are nothing to the fifo; only a signal ends it.                   *)
(***************************************************************************)
EXTENDS NamedPipe

CONSTANT MaxMessages (* bound: messages of a client *)

FifoAssumption == NamedPipeAssumption /\ MaxMessages \in Nat

VARIABLES
    written, \* messages each client has written
    heard,   \* what each server has read
    late     \* clients whose open found only servers that had read the end of file

vars == <<pipeVars, written, heard, late>>

Init ==
    /\ PipeInit
    /\ written = [c \in Clients |-> 0]
    /\ heard = [s \in Servers |-> <<>>]
    /\ late = {}

history == <<written, heard, late>>

-----------------------------------------------------------------------------
(* The server                                                              *)

StartServer(s) ==
    /\ pc[s] = "off" /\ Goto(s, "created")
    /\ CreateNamedPipe
    /\ UNCHANGED <<fd, history>>

OpenForRead(s) == pc[s] = "created" /\ OpenNamedPipe(s) /\ UNCHANGED history

\* The name has gone since the constructor.
OpenForReadFails(s) ==
    /\ pc[s] = "created" /\ path = NoFifo /\ Goto(s, "leaving")
    /\ UNCHANGED <<path, data, fd, history>>

Hear(s) ==
    /\ pc[s] = "open"
    /\ \E n \in 1..Capacity :
        /\ ReadNamedPipe(s, n)
        /\ heard' = [heard EXCEPT ![s] = @ \o SubSeq(data[fd[s]], 1, n)]
    /\ UNCHANGED <<pc, path, fd, written, late>>

\* Mutant: the end of file is taken from the writers alone.
HearEndTooEarly(s) ==
    /\ pc[s] = "open" /\ Writers(fd[s]) = {} /\ Goto(s, "leaving")
    /\ UNCHANGED <<path, data, fd, history>>

\* Mutant: the end of file is read again and again.
HearEndForEver(s) == pc[s] = "open" /\ ReadEndOfFile(s) /\ UNCHANGED vars

HearEnd(s) ==
    /\ pc[s] = "open" /\ ReadEndOfFile(s) /\ Goto(s, "leaving")
    /\ UNCHANGED <<path, data, fd, history>>

\* The destructor: unlink, then close.
Unlink(s) ==
    /\ pc[s] = "leaving" /\ Goto(s, "closing")
    /\ RemoveName
    /\ UNCHANGED <<data, fd, history>>

Quit(s) ==
    /\ pc[s] = "closing" /\ Goto(s, "done")
    /\ Close(s)
    /\ UNCHANGED <<path, history>>

-----------------------------------------------------------------------------
(* The client                                                              *)

OpenForWrite(c) ==
    /\ pc[c] = "off" /\ OpenNamedPipe(c)
    /\ late' = IF Readers(path) # {} /\ \A s \in Readers(path) : pc[s] \notin {"opening", "open"}
                 THEN late \cup {c} ELSE late
    /\ UNCHANGED <<written, heard>>

OpenForWriteFails(c) ==
    /\ pc[c] = "off" /\ path = NoFifo /\ Goto(c, "done")
    /\ UNCHANGED <<path, data, fd, history>>

Say(c) ==
    /\ pc[c] = "open" /\ written[c] < MaxMessages
    /\ WriteNamedPipe(c, <<c, written[c] + 1>>)
    /\ written' = [written EXCEPT ![c] = @ + 1]
    /\ UNCHANGED <<pc, path, fd, heard, late>>

\* SIGPIPE, or a signal from the terminal, which also ends a server.
Killed(p) ==
    /\ \/ p \in Clients /\ pc[p] = "open" /\ Broken(p)
       \/ pc[p] \in {"created", "opening", "open"}
    /\ Goto(p, "killed") /\ Close(p)
    /\ UNCHANGED <<path, history>>

-----------------------------------------------------------------------------
ServerStep(s) ==
    \/ StartServer(s) \/ OpenForRead(s) \/ OpenForReadFails(s)
    \/ Hear(s) \/ HearEnd(s) \/ Unlink(s) \/ Quit(s)

ClientStep(c) == OpenForWrite(c) \/ OpenForWriteFails(c) \/ Say(c)

Next ==
    \/ \E s \in Servers : ServerStep(s)
    \/ \E c \in Clients : ClientStep(c)
    \/ \E p \in Processes : Killed(p)

Spec == Init /\ [][Next]_vars

-----------------------------------------------------------------------------
(* Properties                                                              *)

Heard(m) == \E s \in Servers : \E n \in DOMAIN heard[s] : heard[s][n] = m
InFifo(m) == \E f \in DOMAIN data : \E n \in DOMAIN data[f] : data[f][n] = m

\* A message is lost only to a killed server, or because its client had come to a
\* server that had read the end of file and was about to leave (server.cc:22-25).
LostOnlyLate ==
    \A c \in Clients : \A k \in 1..written[c] :
        \/ Heard(<<c, k>>) \/ InFifo(<<c, k>>)
        \/ c \in late
        \/ \E s \in Servers : pc[s] = "killed"

\* A server waits for clients on a fifo they can find, unless another server has
\* removed its name: the destructor removes whatever has it (namedPipe.hpp:73-81).
StrandedOnlyByAnother ==
    \A s \in Servers :
        pc[s] = "opening" /\ fd[s] # path =>
            \E other \in Servers \ {s} : pc[other] \in {"closing", "done"}

\* A server whose clients have all gone leaves, unless another client comes
\* (server.cc:22-25).
Deserted(s) == pc[s] = "open" /\ Writers(fd[s]) = {}
Resolved(s) == pc[s] \in {"done", "killed"} \/ Writers(fd[s]) # {}
=============================================================================
