------------------------------ MODULE ChatServer ------------------------------
(***************************************************************************)
(* The UDP chat server of Socket/3. chat_server: the main thread receives a *)
(* datagram, keeps the list of online users (Route::Forward) and hands the *)
(* message to the thread pool; a worker of the pool forwards it to every   *)
(* user who is online by then (Route::ForwardHelper).                      *)
(*                                                                         *)
(* The pool is the module ThreadPool with the main thread as its only      *)
(* caller and the messages as its tasks; nobody calls Stop.  Each critical *)
(* section of Route's mutex is one action: it contains no other wait.      *)
(* A datagram that the network duplicates is two messages.                 *)
(***************************************************************************)
EXTENDS Naturals, Sequences, FiniteSets, SequencesExt

CONSTANTS Users,     (* the addresses of the clients                        *)
          Messages,  (* the datagrams                                       *)
          Sender,    (* the address each one comes from                     *)
          Quits,     (* those that read "QUIT" or "Q"                       *)
          Empty,     (* those of length zero                                *)
          MainThread, Workers, NoThread, NoTask

ASSUME ChatAssumption ==
    /\ Sender \in [Messages -> Users]
    /\ Quits \subseteq Messages
    /\ Empty \subseteq Messages \ Quits

VARIABLES
    tp, sigMutex, mutex, isrunning, queue, sleepNum, unstarted, wpc, held, cpc,
    arg, issued, accepted, taken, ran, builds, stopped,
    network,    \* datagrams on their way to the server
    unsent,     \* datagrams the clients have not sent yet
    spc,        \* where the main thread is in InitServer, Start and Forward
    current,    \* message and addr of the main thread
    online,     \* _online_user
    received,   \* history: the messages received, in order
    forwarded   \* history: the messages forwarded, in order, each with its receivers
                \* and the number of messages received by then

pool == <<tp, sigMutex, mutex, isrunning, queue, sleepNum, unstarted, wpc, held,
          cpc, arg, issued, accepted, taken, ran, builds, stopped>>
chat == <<network, unsent, spc, current, online, received, forwarded>>
vars == <<pool, chat>>

Pool == INSTANCE ThreadPool WITH Callers <- {MainThread}, Tasks <- Messages

ASSUME ChatPoolAssumption == Pool!PoolAssumption

Init ==
    /\ Pool!Init
    /\ network = {}
    /\ unsent = Messages
    /\ spc = "socket"
    /\ current = NoTask
    /\ online = <<>>
    /\ received = <<>>
    /\ forwarded = <<>>

-----------------------------------------------------------------------------
(* Clients and network                                                     *)

SendMessage(m) ==
    /\ m \in unsent
    /\ unsent' = unsent \ {m}
    /\ network' = network \cup {m}
    /\ UNCHANGED <<pool, spc, current, online, received, forwarded>>

\* UDP may lose a datagram; the set network already lets it reorder them.
Lose(m) ==
    /\ m \in network
    /\ network' = network \ {m}
    /\ UNCHANGED <<pool, unsent, spc, current, online, received, forwarded>>

-----------------------------------------------------------------------------
(* The main thread                                                         *)

\* socket and bind; without one of them the program ends.  What is sent before the
\* socket is bound finds nobody there: it is lost, or late enough.
InitServer ==
    /\ \/ spc = "socket" /\ spc' \in {"bind", "exited"}
       \/ spc = "bind" /\ spc' \in {"recv", "exited"}
    /\ UNCHANGED <<pool, network, unsent, current, online, received, forwarded>>

\* recvfrom returns a datagram that is not empty: n > 0.
Receive(m) ==
    /\ spc = "recv" /\ m \in network \ Empty
    /\ network' = network \ {m}
    /\ current' = m
    /\ received' = Append(received, m)
    /\ spc' = "check"
    /\ UNCHANGED <<pool, unsent, online, forwarded>>

\* The other branch: an empty datagram is taken from the socket and dropped.  (An
\* error of recvfrom takes nothing and leads to the next call: no step of the model.)
Discard(m) ==
    /\ spc = "recv" /\ m \in network \cap Empty
    /\ network' = network \ {m}
    /\ UNCHANGED <<pool, unsent, spc, current, online, received, forwarded>>

\* Adds the sender unless it is in the list.
CheckOnlineUser ==
    /\ spc = "check"
    /\ online' = IF \E n \in DOMAIN online : online[n] = Sender[current]
                 THEN online ELSE Append(online, Sender[current])
    /\ spc' = IF current \in Quits THEN "offline" ELSE "enqueue"
    /\ UNCHANGED <<pool, network, unsent, current, received, forwarded>>

\* Mutant: erase(begin()) instead of erase(iter).
OfflineFirst ==
    /\ spc = "offline"
    /\ online' = Tail(online)
    /\ spc' = "enqueue"
    /\ UNCHANGED <<pool, network, unsent, current, received, forwarded>>

\* Erases the first entry equal to the sender.
Offline ==
    /\ spc = "offline"
    /\ online' = RemoveFirst(online, Sender[current])
    /\ spc' = "enqueue"
    /\ UNCHANGED <<pool, network, unsent, current, received, forwarded>>

\* GetInstance()->Equeue(t) with t bound to the message and its sender.
HandOver ==
    /\ spc = "enqueue"
    /\ Pool!Submit(MainThread, current)
    /\ spc' = "pool"
    /\ UNCHANGED <<network, unsent, current, online, received, forwarded>>

InPool == Pool!CallerStep(MainThread) /\ UNCHANGED chat

\* Forward returns to the loop of Start.
Return ==
    /\ spc = "pool" /\ cpc[MainThread] = "idle"
    /\ spc' = "recv"
    /\ current' = NoTask
    /\ UNCHANGED <<pool, network, unsent, online, received, forwarded>>

-----------------------------------------------------------------------------
(* A worker of the pool                                                    *)

Work(w) == (Pool!WorkerStep(w) \/ Pool!WakeSpuriously(w)) /\ UNCHANGED chat

\* By the first k messages received, u is online: its last one exists and is not QUIT.
StaysAfter(u, k) ==
    \E n \in 1..k :
        /\ Sender[received[n]] = u /\ received[n] \notin Quits
        /\ \A j \in n+1..k : Sender[received[j]] # u

\* Position of m in the order of arrival.
Arrival(m) == CHOOSE n \in DOMAIN received : received[n] = m

\* held[w] has been sent to the users of the sequence.
Forwarded(w, users) ==
    forwarded' = Append(forwarded, [message |-> held[w], to |-> users,
                                    at |-> Len(received)])

\* Mutant: the receivers are copied into the task when it is handed over.
ForwardHelperCopied(w) ==
    /\ Pool!Run(w)
    /\ Forwarded(w, SetToSeq({u \in Users : StaysAfter(u, Arrival(held[w]))}))
    /\ UNCHANGED <<network, unsent, spc, current, online, received>>

\* One sendto per entry of the list, under the mutex of Route.
ForwardHelper(w) ==
    /\ Pool!Run(w)
    /\ Forwarded(w, online)
    /\ UNCHANGED <<network, unsent, spc, current, online, received>>

-----------------------------------------------------------------------------
MainStep ==
    \/ InitServer
    \/ \E m \in Messages : Receive(m) \/ Discard(m)
    \/ CheckOnlineUser \/ Offline \/ HandOver \/ InPool \/ Return

Next ==
    \/ \E m \in Messages : SendMessage(m) \/ Lose(m)
    \/ MainStep
    \/ \E w \in Workers : Work(w) \/ ForwardHelper(w)

Spec == Init /\ [][Next]_vars

\* The main thread and the workers are scheduled; clients and network are free.
\* Strong fairness for the main thread: a worker that wakes spuriously again and
\* again takes and releases _mutex in between, and the kernel, which wakes a
\* thread blocked in pthread_mutex_lock at every unlock, lets it in eventually.
FairSpec ==
    /\ Spec
    /\ SF_vars(MainStep)
    /\ \A w \in Workers :
          WF_vars((Pool!WorkerStep(w) /\ UNCHANGED chat) \/ ForwardHelper(w))

-----------------------------------------------------------------------------
(* Properties                                                              *)

\* A user is in the list at most once, so nobody is sent a message twice.
NoDuplicateUser == IsInjective(online)

Stays(u) == StaysAfter(u, Len(received))

\* Between two datagrams the list holds exactly the users whose last message was
\* not QUIT, whatever the workers have forwarded in the meantime.
OnlineMatchesHistory ==
    spc \in {"recv", "enqueue", "pool"} =>
        \A u \in Users : (\E n \in DOMAIN online : online[n] = u) <=> Stays(u)

\* A message is forwarded some time after it was handed over, when others may have come
\* and gone: it goes once to each user who is online by the messages received until it
\* is forwarded.  Only for the sender of the last of them, whose place in the list
\* Forward is about to settle, may it be what the message before said, and a user
\* whose message is QUIT may be served in between.
SentToThoseOnline(entry) ==
    /\ IsInjective(entry.to)
    /\ \A u \in Users :
          \/ (\E n \in DOMAIN entry.to : entry.to[n] = u) <=> StaysAfter(u, entry.at)
          \/ /\ u = Sender[received[entry.at]]
             /\ ~(StaysAfter(u, entry.at - 1) /\ StaysAfter(u, entry.at))

ForwardedToThoseOnline == \A n \in DOMAIN forwarded : SentToThoseOnline(forwarded[n])

\* Workers may overtake each other, but a message overtakes at most as many others
\* as there are other workers: what was received earlier and is forwarded later
\* was in the hands of another worker at that time.
BoundedOvertaking ==
    \A n \in DOMAIN forwarded :
        LET later == {m \in Messages :
                        /\ \E k \in 1..Len(received) : received[k] = m
                        /\ Arrival(m) < Arrival(forwarded[n].message)
                        /\ \A k \in 1..n : forwarded[k].message # m}
        IN  Cardinality(later) < Cardinality(Workers)

\* Every message that reaches the server is forwarded, if the pool has a thread.
EveryMessageForwarded ==
    \A m \in Messages :
        (/\ \E n \in DOMAIN received : received[n] = m
         /\ Pool!WorkersAt({"unborn"}) # Workers)
            ~> \E n \in DOMAIN forwarded : forwarded[n].message = m
=============================================================================
