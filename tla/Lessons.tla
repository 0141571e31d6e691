-------------------------------- MODULE Lessons --------------------------------
(***************************************************************************)
(* The small programs of the repository beside each other.  A behaviour is *)
(* one of a single program: `lesson' says which and never changes.  The    *)
(* programs share nothing, so their variables share places: pc is the      *)
(* control state of all of them, v1 to v8 are what each INSTANCE says.     *)
(* The programs of 4.shm come as committed ("segment") and with the flag   *)
(* they should have ("shared"), with one server then: a second one would   *)
(* not get the memory either way.  The pool of My_Thread_Pool_Test.hpp     *)
(* comes as committed ("unsized") and with room for its threads ("sized"). *)
(***************************************************************************)
EXTENDS Integers, Sequences, FiniteSets

CONSTANTS
    Servers, Clients, Capacity, MaxMessages, Letters, \* pipes and shared memory
    Threads, Stock,                                   \* threads, tickets
    Tasks, MaxPush,                                   \* pools
    MaxCalls, MaxTime,                                \* log
    Rounds,                                           \* signals
    Server, MaxLines, MaxCopies, Words, Files         \* datagrams

VARIABLES lesson, pc, v1, v2, v3, v4, v5, v6, v7, v8

vars == <<lesson, pc, v1, v2, v3, v4, v5, v6, v7, v8>>

OneServer == {CHOOSE s \in Servers : TRUE}
OneThread == CHOOSE t \in Threads : TRUE

FifoL == INSTANCE Fifo WITH
    path <- v1, data <- v2, fd <- v3, written <- v4, heard <- v5, late <- v6
Shm(servers, exclusive) == INSTANCE SharedMemory WITH
    Servers <- servers, UserExclusive <- exclusive, Nobody <- 0, path <- v1, data <- v2,
    fd <- v3, exists <- v4, memory <- v5, mapped <- v6, owner <- v7, letter <- v8
PipeL == INSTANCE ChildPipe WITH
    readers <- v1, writers <- v2, filled <- v3, got <- v4
TicketsL == INSTANCE Tickets WITH
    main <- v1, tickets <- v2, reg <- v3, sales <- v4
CondL == INSTANCE CondLesson WITH
    i <- v1, number <- v2
Pool == INSTANCE TeachPool WITH
    Workers <- Threads, tasks <- v1, held <- v2, pushed <- v3, done <- v4
Unsized == INSTANCE StopPool WITH
    Workers <- Threads, MaxTasks <- MaxPush, Sized <- FALSE,
    main <- v1, tasks <- v2, stop <- v3, held <- v4, done <- v5
SizedPool == INSTANCE StopPool WITH
    Workers <- Threads, MaxTasks <- MaxPush, Sized <- TRUE,
    main <- v1, tasks <- v2, stop <- v3, held <- v4, done <- v5
LogL == INSTANCE Log WITH
    Threads <- Clients, type <- v1, clock <- v2, tm <- v3, now <- v4, entry <- v5,
    sinks <- v6, notes <- v7
DaemonL == INSTANCE Daemon WITH
    how <- v1, ignored <- v2, leader <- v3, session <- v4, cwd <- v5, fds <- v6, fd <- v7
SignalsL == INSTANCE Signals WITH
    action <- v1, blocked <- v2, old <- v3, pending <- v4, cnt <- v5, alive <- v6
Chat == INSTANCE ChatClient WITH
    MaxArrivals <- MaxMessages,
    sock <- v1, lines <- v2, online <- v3, arrived <- v4, shown <- v5
ThreadsL == INSTANCE ThreadLesson WITH
    Crowd <- Threads, First <- OneThread, Main <- Server, MaxGval <- MaxPush,
    program <- v1, td <- v2, cnt <- v3, gval <- v4
Polling == INSTANCE NonBlock WITH
    nonblock <- v1, typed <- v2, echoed <- v3, eof <- v4
Udp == INSTANCE UdpLesson WITH
    net <- v1, service <- v2, file <- v3, dict <- v4,
    lines <- v5, shown <- v6, copies <- v7, lost <- v8

ASSUME LessonsAssumption ==
    /\ FifoL!FifoAssumption
    /\ Shm(OneServer, FALSE)!ShmAssumption /\ Shm(Servers, TRUE)!ShmAssumption
    /\ PipeL!ChildPipeAssumption
    /\ TicketsL!TicketsAssumption /\ CondL!CondAssumption
    /\ Pool!TeachPoolAssumption
    /\ Unsized!StopPoolAssumption /\ SizedPool!StopPoolAssumption
    /\ LogL!LogAssumption
    /\ SignalsL!SignalsAssumption
    /\ Udp!UdpAssumption /\ Chat!ChatClientAssumption
    /\ ThreadsL!ThreadLessonAssumption /\ Polling!NonBlockAssumption

-----------------------------------------------------------------------------
\* Places a lesson does not use stay as they are.
Unused == 0
above2 == <<v3, v4, v5, v6, v7, v8>>
above4 == <<v5, v6, v7, v8>>
above5 == <<v6, v7, v8>>
above6 == <<v7, v8>>

Init ==
    \/ lesson = "fifo" /\ FifoL!Init /\ v7 = Unused /\ v8 = Unused
    \/ lesson = "segment" /\ Shm(Servers, TRUE)!Init
    \/ lesson = "shared" /\ Shm(OneServer, FALSE)!Init
    \/ lesson = "udp" /\ Udp!Init
    \/ lesson = "log" /\ LogL!Init /\ v8 = Unused
    \/ lesson = "daemon" /\ DaemonL!Init /\ v8 = Unused
    \/ lesson = "signals" /\ SignalsL!Init /\ v7 = Unused /\ v8 = Unused
    \/ /\ v6 = Unused /\ v7 = Unused /\ v8 = Unused
       /\ \/ lesson = "unsized" /\ Unsized!Init
          \/ lesson = "sized" /\ SizedPool!Init
          \/ lesson = "chat" /\ Chat!Init
    \/ /\ v5 = Unused /\ v6 = Unused /\ v7 = Unused /\ v8 = Unused
       /\ \/ lesson = "pipe" /\ PipeL!Init
          \/ lesson = "tickets" /\ TicketsL!Init
          \/ lesson = "pool" /\ Pool!Init
          \/ lesson = "threads" /\ ThreadsL!Init
          \/ lesson = "polling" /\ Polling!Init
          \/ lesson = "cond" /\ CondL!Init /\ v3 = Unused /\ v4 = Unused

Next ==
    /\ UNCHANGED lesson
    /\ \/ lesson = "fifo" /\ FifoL!Next /\ UNCHANGED above6
       \/ lesson = "segment" /\ Shm(Servers, TRUE)!Next
       \/ lesson = "shared" /\ Shm(OneServer, FALSE)!Next
       \/ lesson = "udp" /\ Udp!Next
       \/ lesson = "log" /\ LogL!Next /\ UNCHANGED v8
       \/ lesson = "daemon" /\ DaemonL!Next /\ UNCHANGED v8
       \/ lesson = "signals" /\ SignalsL!Next /\ UNCHANGED above6
       \/ lesson = "unsized" /\ Unsized!Next /\ UNCHANGED above5
       \/ lesson = "sized" /\ SizedPool!Next /\ UNCHANGED above5
       \/ lesson = "chat" /\ Chat!Next /\ UNCHANGED above5
       \/ lesson = "pipe" /\ PipeL!Next /\ UNCHANGED above4
       \/ lesson = "tickets" /\ TicketsL!Next /\ UNCHANGED above4
       \/ lesson = "pool" /\ Pool!Next /\ UNCHANGED above4
       \/ lesson = "threads" /\ ThreadsL!Next /\ UNCHANGED above4
       \/ lesson = "polling" /\ Polling!Next /\ UNCHANGED above4
       \/ lesson = "cond" /\ CondL!Next /\ UNCHANGED above2

\* The steps of the n-th process or thread of a lesson, that is scheduled fairly.
ActorStep(n) ==
    /\ UNCHANGED lesson
    /\ \/ lesson = "fifo" /\ n \in Servers /\ FifoL!ServerStep(n) /\ UNCHANGED above6
       \/ /\ lesson = "segment"
          /\ \/ n \in Servers /\ Shm(Servers, TRUE)!ServerStep(n)
             \/ n \in Clients /\ Shm(Servers, TRUE)!ClientStep(n)
       \/ /\ lesson = "shared"
          /\ \/ n \in OneServer /\ Shm(OneServer, FALSE)!ServerStep(n)
             \/ n \in Clients /\ Shm(OneServer, FALSE)!ClientStep(n)
       \/ /\ lesson = "udp"
          /\ \/ n \in Clients /\ Udp!ClientStep(n)
             \/ n = Server /\ Udp!ServerStep
       \/ /\ lesson = "pipe" /\ UNCHANGED above4
          /\ \/ n = 1 /\ PipeL!ParentStep
             \/ n = 2 /\ PipeL!ChildStep
       \/ lesson = "tickets" /\ n = 1 /\ TicketsL!Next /\ UNCHANGED above4
       \/ lesson = "pool" /\ n \in Threads /\ Pool!WorkerStep(n) /\ UNCHANGED above4
       \/ lesson = "signals" /\ n = 1 /\ SignalsL!Step /\ UNCHANGED above6
       \/ lesson = "unsized" /\ n = Server /\ Unsized!MainStep /\ UNCHANGED above5
       \/ /\ lesson = "sized" /\ UNCHANGED above5
          /\ \/ n \in Threads /\ SizedPool!WorkerStep(n)
             \/ n = Server /\ SizedPool!MainStep
       \/ /\ lesson = "chat" /\ UNCHANGED above5
          /\ \/ n = 1 /\ Chat!MainStep
             \/ n = 2 /\ Chat!RecverStep
       \/ /\ lesson = "threads" /\ UNCHANGED above4
          /\ \/ n = 1 /\ ThreadsL!ThreadStep
             \/ n = 2 /\ ThreadsL!MainStep
       \/ lesson = "polling" /\ n = 1 /\ Polling!Step /\ UNCHANGED above4
       \/ lesson = "cond" /\ n = 1 /\ CondL!MainStep /\ UNCHANGED above2

\* The threads of mycond.cc contend for a mutex that they give back again and again.
MutexStep(t) ==
    /\ UNCHANGED lesson
    /\ lesson = "cond" /\ CondL!ThreadStep(t) /\ UNCHANGED above2

Actors == Servers \cup Clients \cup Threads \cup {Server}

FairSpec ==
    /\ Init /\ [][Next]_vars
    /\ \A n \in Actors : WF_vars(ActorStep(n))
    /\ \A t \in Threads : SF_vars(MutexStep(t))

-----------------------------------------------------------------------------
\* What is written into a pipe is lost only to a reader that was killed or that had
\* already seen the end; a server is only cut off from its clients by another one; an
\* end of file without a writer's fault means that there never was a writer
\* (3.fifo/server.cc:16-25, 3.fifo/namedPipe.hpp:73-81, testpipe.cc:69-81).
\* As committed no two processes of 4.shm ever use the same memory; if they did, a
\* server would find the letters it is told of (Shm.hpp:99 and 110, client.cc:16-21).
\* The chat client keeps its socket open for its threads (UdpClientMain.cc:80-86).
\* What is typed for a program that polls is echoed (TestNonBlock/Main.cc:25-57).
MessagesKept ==
    /\ lesson = "fifo" => FifoL!LostOnlyLate /\ FifoL!StrandedOnlyByAnother
    /\ lesson = "pipe" => PipeL!EndOfFileWithoutChild
    /\ lesson = "segment" =>
          Shm(Servers, TRUE)!NeverShared /\ Shm(Servers, TRUE)!ToldLettersThere
    /\ lesson = "shared" => Shm(OneServer, FALSE)!ToldLettersThere
    /\ lesson = "chat" => Chat!SocketOutlivesUsers
    /\ lesson = "polling" => Polling!AllEchoed

\* The unlocked sale sells too many tickets, never too few (Thread/Main.cc:12-24).
\* Every task of the teaching pool runs once, with the right outcome, and none waits
\* while all workers sleep (Teach_ThreadPool.hpp:57-95, Task.hpp:21-49).  The other
\* pool empties its queue before main returns (My_Thread_Pool_Test.hpp:29-41).  Main
\* leaves after its thread, and no thread counts for another (testThread.cc:69-71,
\* MyPthread.cc:6).
WorkDone ==
    /\ lesson = "tickets" => TicketsL!NeverUndersold /\ TicketsL!SoldOut
    /\ lesson = "pool" => Pool!RunOnce /\ Pool!NoneOverslept
    /\ lesson = "unsized" => Unsized!DrainedBeforeReturn
    /\ lesson = "sized" => SizedPool!DrainedBeforeReturn
    /\ lesson = "threads" => ThreadsL!MainLeavesLast /\ ThreadsL!OwnCounter

\* No entry of the log gets lost, doubled or out of order, and a wrong time is shown
\* only if two calls were in localtime at once (Log.hpp:46-55, 97-127).
EntriesKept ==
    lesson = "log" => LogL!NothingMissing /\ LogL!InOrder /\ LogL!OwnTime

\* A signal that is blocked neither ends the program nor is lost, and a daemon is out
\* of reach of its terminal, except as said there (testcore.cc:37-62, Daemon.hpp:12-43).
OutOfReach ==
    /\ lesson = "signals" => SignalsL!NotInterrupted
    /\ lesson = "daemon" => DaemonL!Detached

\* Answers over UDP are right, and get out of step only by a duplicate
\* (UdpClientMain.cc:41-73, UdpServer.hpp:76-96, Dict.hpp:18-61).
AnswersInStep == lesson = "udp" => Udp!AnswersInStep

\* Nobody waits for ever: a fifo server for clients that have gone, a client of the
\* shared memory for its server, the parent for its child, main for its sellers, a
\* thread for its turn, a task for a worker, a destructor for its threads, a line for
\* its answer, a blocked signal for the old mask, a message for being shown, a
\* program for its thread or for the end of its input
\* (chat UdpClientMain.cc:25, 3.fifo/server.cc:22,
\* 4.shm/client.cc:16, testpipe.cc:138, Thread/Main.cc:40, mycond.cc:17,
\* Teach_ThreadPool.hpp:64, My_Thread_Pool_Test.hpp:78, UdpClientMain.cc:56,
\* testcore.cc:61, testThread.cc:71, TestNonBlock/Main.cc:31).
Waits(n) ==
    \/ lesson = "fifo" /\ n \in Servers /\ FifoL!Deserted(n)
    \/ lesson = "segment" /\ n \in Clients /\ Shm(Servers, TRUE)!Writing(n)
    \/ lesson = "shared" /\ n \in Clients /\ Shm(OneServer, FALSE)!Writing(n)
    \/ lesson = "pipe" /\ n = 1
    \/ lesson = "tickets" /\ n = 1
    \/ lesson = "cond" /\ n \in Threads /\ CondL!Waiting(n)
    \/ lesson = "pool" /\ n \in 1..MaxPush /\ Pool!Pending(n)
    \/ lesson \in {"unsized", "sized"} /\ n = 1
    \/ lesson = "signals" /\ n = 1 /\ SignalsL!Interrupted
    \/ lesson = "chat" /\ n \in 1..MaxMessages /\ Chat!Arrived(n)
    \/ lesson = "threads" /\ n = 1 /\ ThreadsL!Counting
    \/ lesson = "polling" /\ n = 1 /\ Polling!InputOver
    \/ lesson = "udp" /\ n \in Clients /\ Udp!Asking(n)

Proceeds(n) ==
    \/ lesson = "fifo" /\ n \in Servers /\ FifoL!Resolved(n)
    \/ lesson = "segment" /\ n \in Clients /\ Shm(Servers, TRUE)!Ended(n)
    \/ lesson = "shared" /\ n \in Clients /\ Shm(OneServer, FALSE)!Ended(n)
    \/ lesson = "pipe" /\ PipeL!CleanlyOver
    \/ lesson = "tickets" /\ ~TicketsL!Alive
    \/ lesson = "cond" /\ n \in Threads /\ ~CondL!Waiting(n)
    \/ lesson = "pool" /\ n \in 1..MaxPush /\ v4[n] # <<>>
    \/ lesson = "unsized" /\ Unsized!Over
    \/ lesson = "sized" /\ SizedPool!Over
    \/ lesson = "signals" /\ SignalsL!Excused
    \/ lesson = "chat" /\ Chat!Handled(n)
    \/ lesson = "threads" /\ ThreadsL!Counted
    \/ lesson = "polling" /\ Polling!Stopped
    \/ lesson = "udp" /\ n \in Clients /\ (~Udp!Asking(n) \/ Udp!Excused(n))

NobodyStuck == \A n \in Actors \cup 1..MaxPush : Waits(n) ~> Proceeds(n)
=============================================================================
