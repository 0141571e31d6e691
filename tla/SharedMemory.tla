----------------------------- MODULE SharedMemory -----------------------------
(***************************************************************************)
(* The programs of 4.shm: a server and clients share a segment of memory   *)
(* and pace themselves by a named pipe (4.shm/namedPipe.hpp, a copy of     *)
(* that of 3.fifo).  Every process may run once; servers run one after     *)
(* the other or at the same time.                                          *)
(*                                                                         *)
(* As committed, the user of the segment asks for it with IPC_EXCL, as     *)
(* its creator does, so that it gets it only if nobody else has made it.   *)
(* UserExclusive says so; without it the programs do what they are for.    *)
(* The memory is the set of the positions that hold their letter.          *)
(***************************************************************************)
EXTENDS NamedPipe

CONSTANTS Letters,      (* how many letters a client writes, 26 in client.cc *)
          UserExclusive,(* GetShmForUser passes IPC_EXCL                     *)
          Nobody        (* no process                                        *)

ShmAssumption ==
    NamedPipeAssumption /\ Letters \in Nat /\ UserExclusive \in BOOLEAN /\ Nobody \notin Processes

VARIABLES
    exists, \* the segment has been made; nothing removes it
    memory, \* the positions of the segment that hold their letter
    mapped, \* processes whose _addrshm is that of the segment
    owner,  \* the client that was the last to call Zero
    letter  \* the letters a client has stored; the last message of a server

vars == <<pipeVars, exists, memory, mapped, owner, letter>>

shmVars == <<exists, memory, mapped, owner, letter>>

NoMessage == <<Nobody, 0>>

Init ==
    /\ PipeInit
    /\ exists = FALSE /\ memory = {} /\ mapped = {}
    /\ owner = Nobody
    /\ letter = [p \in Processes |-> IF p \in Clients THEN 0 ELSE NoMessage]

-----------------------------------------------------------------------------
(* Shm                                                                     *)

\* shmget by GetShmUserCreate and GetShmForUser: both ask for IPC_CREAT.
ShmGet(exclusive) == ~(exists /\ exclusive)

\* The constructor.  After a failing shmget the address is that of a failed shmat,
\* -1, and not taken for an error.  shmat itself fails for everybody but root, as
\* the segment is made without any permissions.
AttachShm(p, exclusive) ==
    /\ exists' = TRUE
    /\ \/ ShmGet(exclusive) /\ mapped' = mapped \cup {p}
       \/ UNCHANGED mapped

\* The first access to memory that is not there.
SegmentationFault(p) ==
    /\ p \notin mapped
    /\ pc[p] \in {"zero", "show"}
    /\ Goto(p, "killed") /\ Close(p)
    /\ UNCHANGED <<path, shmVars>>

-----------------------------------------------------------------------------
(* The server                                                              *)

StartServer(s) ==
    /\ pc[s] = "off" /\ Goto(s, "attached")
    /\ AttachShm(s, TRUE)
    /\ UNCHANGED <<path, data, fd, memory, owner, letter>>

MakeFifo(s) ==
    /\ pc[s] = "attached" /\ Goto(s, "created")
    /\ CreateNamedPipe
    /\ UNCHANGED <<fd, shmVars>>

OpenForRead(s) == pc[s] = "created" /\ OpenNamedPipe(s) /\ UNCHANGED shmVars

\* One read for the messages of one or several letters.
Wakeup(s) ==
    /\ pc[s] = "open" /\ Goto(s, "show")
    /\ \E n \in 1..Capacity :
        /\ ReadNamedPipe(s, n)
        /\ letter' = [letter EXCEPT ![s] = data[fd[s]][n]]
    /\ UNCHANGED <<path, fd, exists, memory, mapped, owner>>

\* The result of the read is not looked at: without clients the server goes on.
WakeupByEndOfFile(s) ==
    /\ pc[s] = "open" /\ ReadEndOfFile(s) /\ Goto(s, "show")
    /\ letter' = [letter EXCEPT ![s] = NoMessage]
    /\ UNCHANGED <<path, data, fd, exists, memory, mapped, owner>>

\* What it prints ends before the first position without a letter.
Show(s) ==
    /\ pc[s] = "show" /\ s \in mapped /\ Goto(s, "open")
    /\ UNCHANGED <<path, data, fd, shmVars>>

-----------------------------------------------------------------------------
(* The client                                                              *)

StartClient(c) ==
    /\ pc[c] = "off" /\ Goto(c, "zero")
    /\ AttachShm(c, UserExclusive)
    /\ UNCHANGED <<path, data, fd, memory, owner, letter>>

Zero(c) ==
    /\ pc[c] = "zero" /\ c \in mapped /\ Goto(c, "zeroed")
    /\ memory' = {} /\ owner' = c
    /\ UNCHANGED <<path, data, fd, exists, mapped, letter>>

OpenForWrite(c) == pc[c] = "zeroed" /\ OpenNamedPipe(c) /\ UNCHANGED shmVars

\* Nobody looks whether the fifo was there; all writes will fail.
OpenForWriteFails(c) ==
    /\ pc[c] = "zeroed" /\ path = NoFifo /\ Goto(c, "open")
    /\ UNCHANGED <<path, data, fd, shmVars>>

\* Mutant: every letter is stored one place too far.
StoreBeside(c) ==
    /\ pc[c] = "open" /\ letter[c] < Letters /\ Goto(c, "stored")
    /\ letter' = [letter EXCEPT ![c] = @ + 1]
    /\ memory' = memory \cup {letter[c] + 2}
    /\ UNCHANGED <<path, data, fd, exists, mapped, owner>>

Store(c) ==
    /\ pc[c] = "open" /\ letter[c] < Letters /\ Goto(c, "stored")
    /\ letter' = [letter EXCEPT ![c] = @ + 1]
    /\ memory' = memory \cup {letter'[c]}
    /\ UNCHANGED <<path, data, fd, exists, mapped, owner>>

Tell(c) ==
    /\ pc[c] = "stored" /\ Goto(c, "open")
    /\ \/ fd[c] = NoFifo /\ UNCHANGED data
       \/ WriteNamedPipe(c, <<c, letter[c]>>)
    /\ UNCHANGED <<path, fd, shmVars>>

Exit(c) ==
    /\ pc[c] = "open" /\ letter[c] = Letters /\ Goto(c, "done")
    /\ Close(c)
    /\ UNCHANGED <<path, shmVars>>

\* SIGPIPE, or a signal from the terminal to a server, which removes nothing.
Killed(p) ==
    /\ \/ p \in Clients /\ pc[p] = "stored" /\ Broken(p)
       \/ p \in Servers /\ pc[p] \in {"attached", "created", "opening", "open", "show"}
    /\ Goto(p, "killed") /\ Close(p)
    /\ UNCHANGED <<path, shmVars>>

-----------------------------------------------------------------------------
ServerStep(s) ==
    \/ StartServer(s) \/ MakeFifo(s) \/ OpenForRead(s)
    \/ Wakeup(s) \/ WakeupByEndOfFile(s) \/ Show(s) \/ SegmentationFault(s)

ClientStep(c) ==
    \/ StartClient(c) \/ Zero(c) \/ OpenForWrite(c) \/ OpenForWriteFails(c)
    \/ Store(c) \/ Tell(c) \/ Exit(c) \/ SegmentationFault(c)
    \/ Broken(c) /\ Killed(c)

Next ==
    \/ \E s \in Servers : ServerStep(s)
    \/ \E c \in Clients : ClientStep(c)
    \/ \E s \in Servers : Killed(s)

Spec == Init /\ [][Next]_vars

-----------------------------------------------------------------------------
(* Properties                                                              *)

\* A server that has been told of a letter finds it in the memory, and all before
\* it, unless another client has cleared the memory since (client.cc:18-21,
\* server.cc:16-17).
ToldLettersThere ==
    \A s \in mapped \cap Servers :
        pc[s] = "show" /\ letter[s][1] = owner => 1..letter[s][2] \subseteq memory

\* As committed the segment is never in use by two processes, and once it has been
\* made no later process gets it (Shm.hpp:99 and 110).
NeverShared == UserExclusive => \A p, q \in mapped : p = q

\* A client that has opened the fifo finishes, or is killed because its server was
\* (client.cc:16-23): the server reads on whatever happens.
Writing(c) == pc[c] = "open"
Ended(c) == pc[c] \in {"done", "killed"}
=============================================================================
