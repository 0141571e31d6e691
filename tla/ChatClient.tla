------------------------------ MODULE ChatClient ------------------------------
(***************************************************************************)
(* Socket/3. chat_server/UdpClientMain.cc: a client of the chat server     *)
(* with two threads on one socket, one that shows what arrives and one     *)
(* that sends what is typed.  Main waits for both before it closes the     *)
(* socket they use.  Of a line only matters whether it is empty, which is  *)
(* also what getline leaves at the end of the input; of a message, that it *)
(* is not.                                                                 *)
(***************************************************************************)
EXTENDS Integers

CONSTANTS MaxLines,   \* bound: lines typed
          MaxArrivals \* bound: messages the server forwards

ChatClientAssumption == MaxLines \in Nat /\ MaxArrivals \in Nat

VARIABLES
    pc,      \* of "main" and of the Thread objects "recver" and "sender"
    sock,    \* "none", "open" or "closed"
    lines,   \* number of lines typed
    online,  \* the server may have had a message from here
    arrived, \* number of messages that have come to the socket
    shown    \* number of messages recver has printed

vars == <<pc, sock, lines, online, arrived, shown>>

Workers == {"recver", "sender"}
Alive(t) == pc[t] \in {"created", "running"}
Over == pc["main"] \in {"exited", "crashed", "returned"}

Init ==
    /\ pc = [main |-> "InitClient", recver |-> "constructed", sender |-> "constructed"]
    /\ sock = "none"
    /\ lines = 0 /\ arrived = 0 /\ shown = 0
    /\ online = FALSE

At(t, here, there) == pc[t] = here /\ pc' = [pc EXCEPT ![t] = there]

-----------------------------------------------------------------------------
(* Main                                                                    *)

\* socket fails or gives a descriptor.
InitClient ==
    /\ \/ At("main", "InitClient", "exited") /\ UNCHANGED sock
       \/ At("main", "InitClient", "start recver") /\ sock' = "open"
    /\ UNCHANGED <<lines, online, arrived, shown>>

\* Nobody looks whether Start has returned true.
Start(t, here, there) ==
    /\ pc["main"] = here
    /\ \E result \in {"created", "failed"} :
           pc' = [pc EXCEPT !["main"] = there, ![t] = result]
    /\ UNCHANGED <<sock, lines, online, arrived, shown>>

\* Mutant: a thread that runs is not waited for.
JoinRunning(t, here, there) ==
    /\ \/ Alive(t) /\ At("main", here, there)
       \/ pc[t] = "failed" /\ (At("main", here, there) \/ At("main", here, "crashed"))
    /\ UNCHANGED <<sock, lines, online, arrived, shown>>

\* The identifier of a thread that could not be created was never written: what
\* pthread_join makes of it is an error, which is ignored, or a crash.
Join(t, here, there) ==
    /\ \/ pc[t] = "ended" /\ At("main", here, there)
       \/ pc[t] = "failed" /\ (At("main", here, there) \/ At("main", here, "crashed"))
    /\ UNCHANGED <<sock, lines, online, arrived, shown>>

CloseSocket ==
    /\ At("main", "close", "returned")
    /\ sock' = "closed"
    /\ UNCHANGED <<lines, online, arrived, shown>>

MainStep ==
    /\ ~Over
    /\ \/ InitClient
       \/ Start("recver", "start recver", "start sender")
       \/ Start("sender", "start sender", "join recver")
       \/ Join("recver", "join recver", "join sender")
       \/ Join("sender", "join sender", "close")
       \/ CloseSocket

-----------------------------------------------------------------------------
(* The threads                                                             *)

\* ThreadRoutine and Excute: the thread enters its function.
Excute(t) ==
    /\ At(t, "created", "running")
    /\ UNCHANGED <<sock, lines, online, arrived, shown>>

\* RecvMessage, n > 0.
Show ==
    /\ pc["recver"] = "running" /\ shown < arrived
    /\ shown' = shown + 1
    /\ UNCHANGED <<pc, sock, lines, online, arrived>>

\* RecvMessage, recvfrom fails.
RecvError ==
    /\ At("recver", "running", "ended")
    /\ UNCHANGED <<sock, lines, online, arrived, shown>>

\* SendMessage, a line that is sent.
Say ==
    /\ pc["sender"] = "running" /\ lines < MaxLines
    /\ lines' = lines + 1
    /\ online' = TRUE
    /\ UNCHANGED <<pc, sock, arrived, shown>>

\* SendMessage: sendto has failed, or has sent the 0 bytes of an empty line, which
\* the server takes no notice of.
StopSaying ==
    /\ lines < MaxLines
    /\ At("sender", "running", "ended")
    /\ lines' = lines + 1
    /\ UNCHANGED <<sock, online, arrived, shown>>

\* A message another user has sent; UDP may have lost others.
Arrive ==
    /\ sock = "open" /\ online /\ arrived < MaxArrivals
    /\ arrived' = arrived + 1
    /\ UNCHANGED <<pc, sock, lines, online, shown>>

RecverStep == ~Over /\ (Excute("recver") \/ Show)
SenderStep == ~Over /\ (Excute("sender") \/ Say \/ StopSaying)

Next == MainStep \/ RecverStep \/ SenderStep \/ (~Over /\ (RecvError \/ Arrive))

-----------------------------------------------------------------------------
(* Properties                                                              *)

\* The socket is closed, and the Thread objects on main's stack are gone, only after
\* every thread that uses them has ended, also when threads could not be created.
SocketOutlivesUsers ==
    sock = "closed" \/ pc["main"] = "returned" => \A t \in Workers : ~Alive(t)

\* The k-th message to come; it is shown, whether there is still somebody typing or
\* not, unless the receiving thread has failed or the program has ended before.
Arrived(k) == arrived >= k
Handled(k) == shown >= k \/ ~Alive("recver") \/ Over
=============================================================================
