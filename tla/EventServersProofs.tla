-------------------------- MODULE EventServersProofs --------------------------
(***************************************************************************)
(* Theorems about the select, the poll and the epoll server, for any       *)
(* number of clients, any size of the poll server's table and any room for *)
(* epoll's events; for the select server, for any table of slots and any   *)
(* limit of descriptors up to its size.  Each table lists exactly the open *)
(* descriptors - epoll's set all but those epoll_ctl has failed to add -   *)
(* and no server calls accept or recv where it would block.                *)
(*                                                                         *)
(* The kernel's part of the invariant is the same for all of them and is   *)
(* proved first, one lemma per system call; a server's part relates its    *)
(* table and its marks to the kernel's.                                    *)
(***************************************************************************)
EXTENDS EventServers, TLAPS, SequenceTheorems

KernelTypes ==
    /\ listensock \in {"none", "created", "bound", "listening"}
    /\ backlog \in Seq(Clients)
    /\ files \in [Fds -> Clients \cup {Listening, NoFile}]
    /\ pending \in [Clients -> Nat]
    /\ peer \in [Clients -> {"open", "closed", "reset"}]
    /\ unread \in [Clients -> Nat]

\* The listening socket is the first descriptor and no other.
OneListening ==
    /\ \A fd \in Fds : files[fd] = Listening => fd = FirstFd
    /\ listensock = "none" => \A fd \in Fds : files[fd] = NoFile
    /\ listensock # "none" => files[FirstFd] = Listening

\* A client has at most one connection, accepted or not.
OneConnection ==
    /\ \A fd, other \in Fds : files[fd] = files[other] /\ files[fd] \in Clients => fd = other
    /\ \A m, n \in DOMAIN backlog : backlog[m] = backlog[n] => m = n
    /\ \A n \in DOMAIN backlog, fd \in Fds : files[fd] # backlog[n]

KernelInv == KernelTypes /\ OneListening /\ OneConnection

\* A handler for one file leaves what is readable at the others readable.
OthersStayReadable(file) ==
    \A fd \in Fds : files[fd] # file /\ Readable(fd) => Readable(fd)'

-----------------------------------------------------------------------------
(* The kernel                                                              *)

LEMMA Numbers ==
    /\ FirstFd \in Fds /\ NoFd \notin Fds /\ Fds \subseteq Nat /\ FirstFd \in Nat
    /\ FdLimit \in Nat /\ FirstFd < FdLimit
    /\ Listening \notin Clients /\ NoFile \notin Clients /\ Listening # NoFile
BY KernelAssumption DEF Fds, NoFd

LEMMA KernelStart == KernelInit => KernelInv
BY Numbers
   DEF KernelInit, KernelInv, KernelTypes, OneListening, OneConnection

\* A step that leaves the kernel's variables alone.
LEMMA KernelUntouched ==
    ASSUME KernelInv, UNCHANGED kernelVars
    PROVE  /\ KernelInv' /\ UNCHANGED <<listensock, backlog, files, pending, peer, unread>>
           /\ \A fd \in Fds : Readable(fd)' <=> Readable(fd)
<1>1. UNCHANGED <<listensock, backlog, files, pending, peer, unread>>
  BY DEF kernelVars, connVars
<1>2. QED
  BY <1>1 DEF KernelInv, KernelTypes, OneListening, OneConnection, Readable

\* socket, bind and listen.
LEMMA SocketSteps ==
    ASSUME KernelInv, OpenSocket \/ Bind \/ Listen
    PROVE  /\ KernelInv'
           /\ \A fd \in Fds \ {FirstFd} : files'[fd] = files[fd]
<1>1. /\ UNCHANGED <<backlog, pending, peer, unread>>
      /\ listensock' \in {"created", "bound", "listening"}
      /\ \/ files' = files /\ listensock # "none"
         \/ files' = [files EXCEPT ![FirstFd] = Listening] /\ listensock = "none"
  BY DEF OpenSocket, Bind, Listen, connVars
<1>2. QED
  BY <1>1, Numbers DEF KernelInv, KernelTypes, OneListening, OneConnection

\* The steps of the clients: nothing readable becomes unreadable.
LEMMA ClientSteps ==
    ASSUME KernelInv, ClientStep
    PROVE  /\ KernelInv' /\ UNCHANGED <<listensock, files>>
           /\ \A fd \in Fds : Readable(fd) => Readable(fd)'
<1> USE Numbers
<1>1. PICK c \in Clients : Connect(c) \/ SendRequest(c) \/ ReadAnswer(c) \/ CloseClient(c) \/ Reset(c)
  BY DEF ClientStep
<1>2. UNCHANGED <<files, listensock>>
  BY <1>1 DEF Connect, SendRequest, ReadAnswer, CloseClient, Reset
<1>3. KernelTypes'
  <2>1. CASE Connect(c)
    BY <2>1, <1>2 DEF Connect, KernelInv, KernelTypes
  <2>2. CASE SendRequest(c)
    BY <2>2, <1>2 DEF SendRequest, KernelInv, KernelTypes
  <2>3. CASE CloseClient(c)
    BY <2>3, <1>2 DEF CloseClient, KernelInv, KernelTypes
  <2>4. CASE Reset(c)
    BY <2>4, <1>2 DEF Reset, KernelInv, KernelTypes
  <2>5. CASE ReadAnswer(c)
    <3>1. PICK rest \in 0..unread[c]-1 : unread' = [unread EXCEPT ![c] = rest]
      BY <2>5 DEF ReadAnswer
    <3>2. QED
      BY <2>5, <3>1, <1>2 DEF ReadAnswer, KernelInv, KernelTypes
  <2>6. QED
    BY <1>1, <2>1, <2>2, <2>3, <2>4, <2>5
<1>4. OneListening'
  BY <1>2 DEF KernelInv, OneListening
<1>5. OneConnection'
  <2>1. CASE Connect(c)
    <3>1. /\ backlog' = Append(backlog, c) /\ backlog \in Seq(Clients)
          /\ \A n \in DOMAIN backlog : backlog[n] # c
          /\ \A fd \in Fds : files[fd] # c
      BY <2>1 DEF Connect, Connected, Accepted, KernelInv, KernelTypes
    <3>2. /\ Len(backlog) \in Nat
          /\ DOMAIN backlog = 1..Len(backlog) /\ DOMAIN backlog' = 1..Len(backlog)+1
          /\ \A n \in 1..Len(backlog)+1 :
                 backlog'[n] = IF n = Len(backlog) + 1 THEN c ELSE backlog[n]
      BY <3>1
    <3>3. \A m, n \in DOMAIN backlog' : backlog'[m] = backlog'[n] => m = n
      BY <3>1, <3>2 DEF KernelInv, OneConnection
    <3>4. \A n \in DOMAIN backlog', fd \in Fds : files'[fd] # backlog'[n]
      BY <3>1, <3>2, <1>2 DEF KernelInv, OneConnection
    <3>5. QED
      BY <3>3, <3>4, <1>2 DEF KernelInv, OneConnection
  <2>2. CASE backlog' = backlog
    BY <2>2, <1>2 DEF KernelInv, OneConnection
  <2>3. QED
    BY <1>1, <2>1, <2>2 DEF SendRequest, ReadAnswer, CloseClient, Reset
<1>6. \A fd \in Fds : Readable(fd) => Readable(fd)'
  <2>1. backlog # <<>> => backlog' # <<>>
    BY <1>1 DEF Connect, SendRequest, ReadAnswer, CloseClient, Reset, KernelInv, KernelTypes
  <2>2. \A d \in Clients : pending[d] > 0 => pending'[d] > 0
    <3>1. CASE SendRequest(c)
      BY <3>1 DEF SendRequest, KernelInv, KernelTypes
    <3>2. CASE pending' = pending
      BY <3>2
    <3>3. QED
      BY <1>1, <3>1, <3>2 DEF Connect, ReadAnswer, CloseClient, Reset
  <2>3. \A d \in Clients : peer[d] # "open" => peer'[d] # "open"
    BY <1>1 DEF Connect, SendRequest, ReadAnswer, CloseClient, Reset, KernelInv, KernelTypes
  <2>4. QED
    BY <1>2, <2>1, <2>2, <2>3 DEF Readable
<1>7. QED
  BY <1>2, <1>3, <1>4, <1>5, <1>6 DEF KernelInv

\* A backlog without its oldest connection.
LEMMA BacklogTail ==
    ASSUME KernelInv, backlog # <<>>
    PROVE  /\ Head(backlog) \in Clients /\ Tail(backlog) \in Seq(Clients)
           /\ \A fd \in Fds : files[fd] # Head(backlog)
           /\ \A n \in DOMAIN Tail(backlog) : n + 1 \in DOMAIN backlog
                                            /\ n \in Nat
                                            /\ Tail(backlog)[n] = backlog[n + 1]
                                            /\ Tail(backlog)[n] # Head(backlog)
<1>1. backlog \in Seq(Clients) /\ DOMAIN backlog = 1..Len(backlog) /\ Len(backlog) \in Nat \ {0}
  BY DEF KernelInv, KernelTypes
<1>2. Head(backlog) = backlog[1] /\ 1 \in DOMAIN backlog
  BY <1>1
<1>3. /\ Tail(backlog) \in Seq(Clients) /\ DOMAIN Tail(backlog) = 1..Len(backlog)-1
      /\ \A n \in 1..Len(backlog)-1 : Tail(backlog)[n] = backlog[n + 1]
  BY <1>1, HeadTailProperties, LenProperties
<1>4. \A n \in DOMAIN Tail(backlog) : n \in Nat /\ n + 1 \in DOMAIN backlog /\ n + 1 # 1
  BY <1>1, <1>3
<1>5. Head(backlog) \in Clients
  BY <1>1, HeadTailProperties
<1>6. QED
  BY <1>2, <1>3, <1>4, <1>5 DEF KernelInv, OneConnection

\* accept: the other connections keep what there is to read at them.
LEMMA AcceptStep ==
    ASSUME KernelInv, files[FirstFd] = Listening, NEW new \in Fds, Accept(new)
    PROVE  /\ KernelInv'
           /\ files[new] = NoFile /\ new # FirstFd
           /\ \E c \in Clients : files' = [files EXCEPT ![new] = c]
           /\ OthersStayReadable(Listening)
<1> USE Numbers
<1>1. /\ backlog # <<>> /\ backlog' = Tail(backlog)
      /\ files' = [files EXCEPT ![new] = Head(backlog)]
      /\ UNCHANGED <<listensock, pending, peer, unread>>
  BY DEF Accept
<1>2. files[new] = NoFile /\ new # FirstFd
  BY DEF Accept, FreeFds, OpenFds
<1>3. KernelTypes'
  BY <1>1, BacklogTail DEF KernelInv, KernelTypes
<1>4. OneListening'
  BY <1>1, <1>2, BacklogTail DEF KernelInv, OneListening, KernelTypes
<1>5. OneConnection'
  <2>1. \A a, b \in Fds : files'[a] = files'[b] /\ files'[a] \in Clients => a = b
    BY <1>1, <1>2, BacklogTail DEF KernelInv, OneConnection, KernelTypes
  <2>2. \A m, n \in DOMAIN backlog' : backlog'[m] = backlog'[n] => m = n
    BY <1>1, BacklogTail DEF KernelInv, OneConnection
  <2>3. ASSUME NEW n \in DOMAIN backlog', NEW a \in Fds
        PROVE  files'[a] # backlog'[n]
    <3>1. n + 1 \in DOMAIN backlog /\ backlog'[n] = backlog[n + 1] /\ backlog'[n] # Head(backlog)
      BY <1>1, BacklogTail
    <3>2. files[a] # backlog[n + 1]
      BY <3>1 DEF KernelInv, OneConnection
    <3>3. files'[a] = files[a] \/ files'[a] = Head(backlog)
      BY <1>1 DEF KernelInv, KernelTypes
    <3>4. QED
      BY <3>1, <3>2, <3>3
  <2>4. QED
    BY <2>1, <2>2, <2>3 DEF OneConnection
<1>6. OthersStayReadable(Listening)
  BY <1>1, <1>2 DEF OthersStayReadable, Readable, KernelInv, KernelTypes
<1>7. QED
  BY <1>1, <1>2, <1>3, <1>4, <1>5, <1>6, BacklogTail DEF KernelInv

\* accept followed by close.
LEMMA AcceptAndCloseStep ==
    ASSUME KernelInv, AcceptAndClose
    PROVE  /\ KernelInv' /\ UNCHANGED files
           /\ OthersStayReadable(Listening)
<1> USE Numbers
<1> DEFINE h == Head(backlog)
<1>1. /\ backlog # <<>> /\ backlog' = Tail(backlog) /\ UNCHANGED <<listensock, files>>
      /\ pending' = [pending EXCEPT ![h] = 0]
      /\ peer' = [peer EXCEPT ![h] = "open"]
      /\ unread' = [unread EXCEPT ![h] = 0]
  BY DEF AcceptAndClose, Forget
<1>2. KernelTypes'
  BY <1>1, BacklogTail DEF KernelInv, KernelTypes
<1>3. OneListening' /\ OneConnection'
  <2>1. OneListening'
    BY <1>1 DEF KernelInv, OneListening
  <2>2. \A m, n \in DOMAIN backlog' : backlog'[m] = backlog'[n] => m = n
    BY <1>1, BacklogTail DEF KernelInv, OneConnection
  <2>3. ASSUME NEW n \in DOMAIN backlog', NEW a \in Fds
        PROVE  files'[a] # backlog'[n]
    <3>1. n + 1 \in DOMAIN backlog /\ backlog'[n] = backlog[n + 1]
      BY <1>1, BacklogTail
    <3>2. QED
      BY <1>1, <3>1 DEF KernelInv, OneConnection
  <2>4. QED
    BY <1>1, <2>1, <2>2, <2>3 DEF KernelInv, OneConnection
<1>4. OthersStayReadable(Listening)
  BY <1>1, BacklogTail DEF OthersStayReadable, Readable, KernelInv, KernelTypes
<1>5. QED
  BY <1>1, <1>2, <1>3, <1>4 DEF KernelInv

\* recv of something.
LEMMA RecvStep ==
    ASSUME KernelInv, NEW fd \in Fds, files[fd] \in Clients, Recv(fd)
    PROVE  KernelInv' /\ UNCHANGED files /\ OthersStayReadable(files[fd])
<1> USE Numbers
<1> DEFINE c == files[fd]
<1>1. UNCHANGED <<listensock, backlog, files, peer, unread>>
  BY DEF Recv
<1>2. PICK rest \in 0..pending[c]-1 : pending' = [pending EXCEPT ![c] = rest]
  BY DEF Recv
<1>3. KernelTypes'
  BY <1>1, <1>2 DEF KernelInv, KernelTypes
<1>4. OneListening' /\ OneConnection'
  BY <1>1 DEF KernelInv, OneListening, OneConnection
<1>5. OthersStayReadable(c)
  BY <1>1, <1>2 DEF OthersStayReadable, Readable, KernelInv, KernelTypes
<1>6. QED
  BY <1>1, <1>3, <1>4, <1>5 DEF KernelInv

\* send, whether it succeeds or fails: it changes nothing that could be read.
LEMMA SendStep ==
    ASSUME KernelInv, NEW fd, SendAnswer(fd) \/ SendError(fd)
    PROVE  /\ KernelInv' /\ UNCHANGED <<listensock, files>>
           /\ \A other \in Fds : Readable(other)' <=> Readable(other)
<1>1. CASE SendAnswer(fd)
  <2>1. /\ UNCHANGED <<listensock, backlog, files, pending, peer>>
        /\ unread' = [unread EXCEPT ![files[fd]] = @ + 1]
    BY <1>1 DEF SendAnswer
  <2>2. unread' \in [Clients -> Nat]
    <3>1. \A c \in Clients : unread[c] \in Nat /\ unread[c] + 1 \in Nat
      BY DEF KernelInv, KernelTypes
    <3>2. QED
      BY <2>1, <3>1 DEF KernelInv, KernelTypes
  <2>3. KernelInv'
    BY <2>1, <2>2 DEF KernelInv, KernelTypes, OneListening, OneConnection
  <2>4. QED
    BY <2>1, <2>3 DEF Readable
<1>2. CASE SendError(fd)
  BY <1>2, KernelUntouched DEF SendError
<1>3. QED
  BY <1>1, <1>2

\* close of a connection.
LEMMA CloseStep ==
    ASSUME KernelInv, NEW fd \in Fds, files[fd] \in Clients, Close(fd)
    PROVE  /\ KernelInv' /\ files' = [files EXCEPT ![fd] = NoFile]
           /\ OthersStayReadable(files[fd])
<1> USE Numbers
<1> DEFINE c == files[fd]
<1>1. /\ files' = [files EXCEPT ![fd] = NoFile]
      /\ UNCHANGED <<listensock, backlog>>
      /\ pending' = [pending EXCEPT ![c] = 0]
      /\ peer' = [peer EXCEPT ![c] = "open"]
      /\ unread' = [unread EXCEPT ![c] = 0]
  BY DEF Close, Forget
<1>2. KernelTypes'
  BY <1>1 DEF KernelInv, KernelTypes
<1>3. OneListening'
  BY <1>1 DEF KernelInv, OneListening, KernelTypes
<1>4. OneConnection'
  BY <1>1 DEF KernelInv, OneConnection, KernelTypes
<1>5. OthersStayReadable(c)
  BY <1>1 DEF OthersStayReadable, Readable, KernelInv, KernelTypes
<1>6. QED
  BY <1>1, <1>2, <1>3, <1>4, <1>5 DEF KernelInv

-----------------------------------------------------------------------------
(* Tables: t gives the descriptor of every slot, f the file behind every   *)
(* descriptor.                                                             *)

Places(slots) == 0..slots-1
Tables(slots) == [Places(slots) -> Fds \cup {NoFd}]
FileTables    == [Fds -> Clients \cup {Listening, NoFile}]

\* The table begins with the listening socket, and has every open descriptor in one
\* slot and nothing else.
Exact(t, f, slots) ==
    /\ t[0] = FirstFd /\ f[FirstFd] = Listening
    /\ \A i \in Places(slots) : t[i] # NoFd => f[t[i]] # NoFile
    /\ \A fd \in Fds : f[fd] # NoFile => \E i \in Places(slots) : t[i] = fd
    /\ \A i, j \in Places(slots) : t[i] = t[j] /\ t[i] # NoFd => i = j

\* Before its listening socket is in the table, a server has nothing else.
OnlySocket == \A fd \in Fds \ {FirstFd} : files[fd] = NoFile

LEMMA TableStart ==
    ASSUME NEW slots \in Nat \ {0}, NEW f \in FileTables,
           f[FirstFd] = Listening, \A fd \in Fds \ {FirstFd} : f[fd] = NoFile
    PROVE  Exact([i \in Places(slots) |-> IF i = 0 THEN FirstFd ELSE NoFd], f, slots)
BY Numbers DEF Exact, Places

LEMMA TableAdd ==
    ASSUME NEW slots \in Nat \ {0}, NEW t \in Tables(slots), NEW f \in FileTables,
           Exact(t, f, slots),
           NEW slot \in Places(slots), slot # 0, t[slot] = NoFd,
           NEW new \in Fds, f[new] = NoFile, NEW c \in Clients
    PROVE  Exact([t EXCEPT ![slot] = new], [f EXCEPT ![new] = c], slots)
<1> USE Numbers DEF Tables, FileTables
<1> DEFINE u == [t EXCEPT ![slot] = new]
           g == [f EXCEPT ![new] = c]
<1>1. u[slot] = new /\ \A i \in Places(slots) \ {slot} : u[i] = t[i]
  OBVIOUS
<1>2. g[new] = c /\ \A fd \in Fds \ {new} : g[fd] = f[fd]
  OBVIOUS
<1>3. \A i \in Places(slots) : t[i] # new
  BY DEF Exact
<1>4. new # FirstFd /\ 0 \in Places(slots)
  BY DEF Exact, Places
<1>5. u[0] = FirstFd /\ g[FirstFd] = Listening
  BY <1>1, <1>2, <1>4 DEF Exact
<1>6. \A i \in Places(slots) : u[i] # NoFd => g[u[i]] # NoFile
  BY <1>1, <1>2, <1>3 DEF Exact
<1>7. ASSUME NEW fd \in Fds, g[fd] # NoFile
      PROVE  \E i \in Places(slots) : u[i] = fd
  BY <1>1, <1>2, <1>7 DEF Exact
<1>8. \A i, j \in Places(slots) : u[i] = u[j] /\ u[i] # NoFd => i = j
  BY <1>1, <1>3 DEF Exact
<1>9. QED
  BY <1>5, <1>6, <1>7, <1>8 DEF Exact

LEMMA TableRemove ==
    ASSUME NEW slots \in Nat \ {0}, NEW t \in Tables(slots), NEW f \in FileTables,
           Exact(t, f, slots), NEW i \in Places(slots), i # 0, t[i] \in Fds
    PROVE  Exact([t EXCEPT ![i] = NoFd], [f EXCEPT ![t[i]] = NoFile], slots)
<1> USE Numbers DEF Tables, FileTables
<1> DEFINE u == [t EXCEPT ![i] = NoFd]
           g == [f EXCEPT ![t[i]] = NoFile]
<1>1. u[i] = NoFd /\ \A j \in Places(slots) \ {i} : u[j] = t[j]
  OBVIOUS
<1>2. g[t[i]] = NoFile /\ \A fd \in Fds \ {t[i]} : g[fd] = f[fd]
  OBVIOUS
<1>3. \A j \in Places(slots) \ {i} : t[j] # t[i]
  BY DEF Exact
<1>4. 0 \in Places(slots)
  BY DEF Places
<1>5. u[0] = FirstFd /\ g[FirstFd] = Listening
  BY <1>1, <1>2, <1>3, <1>4 DEF Exact
<1>6. \A j \in Places(slots) : u[j] # NoFd => g[u[j]] # NoFile
  BY <1>1, <1>2, <1>3 DEF Exact
<1>7. ASSUME NEW fd \in Fds, g[fd] # NoFile
      PROVE  \E j \in Places(slots) : u[j] = fd
  BY <1>1, <1>2, <1>7 DEF Exact
<1>8. \A j, k \in Places(slots) : u[j] = u[k] /\ u[j] # NoFd => j = k
  BY <1>1 DEF Exact
<1>9. QED
  BY <1>5, <1>6, <1>7, <1>8 DEF Exact

LEMMA TableEntries ==
    ASSUME NEW slots, NEW t \in Tables(slots), NEW f, Exact(t, f, slots)
    PROVE  {t[i] : i \in Places(slots)} \ {NoFd} = {fd \in Fds : f[fd] # NoFile}
<1>1. ASSUME NEW i \in Places(slots), t[i] # NoFd PROVE t[i] \in Fds /\ f[t[i]] # NoFile
  BY <1>1 DEF Tables, Exact
<1>2. ASSUME NEW fd \in Fds, f[fd] # NoFile
      PROVE  fd # NoFd /\ \E i \in Places(slots) : t[i] = fd
  BY <1>2, Numbers DEF Exact
<1>3. QED
  BY <1>1, <1>2

\* What an exact table says of one slot and of two.
LEMMA TableSlots ==
    ASSUME KernelInv, NEW slots \in Nat \ {0}, NEW t \in Tables(slots),
           Exact(t, files, slots),
           NEW i \in Places(slots), t[i] # NoFd
    PROVE  /\ t[i] \in Fds /\ files[t[i]] \in Clients \cup {Listening}
           /\ files[t[i]] = Listening <=> i = 0
           /\ i = 0 => t[i] = FirstFd
           /\ \A j \in Places(slots) \ {0, i} : t[j] # NoFd =>
                  /\ t[j] \in Fds /\ t[j] # t[i]
                  /\ files[t[j]] \in Clients \ {files[t[i]]}
<1> USE Numbers DEF Tables
<1>1. ASSUME NEW j \in Places(slots), t[j] # NoFd
      PROVE  /\ t[j] \in Fds /\ files[t[j]] \in Clients \cup {Listening}
             /\ files[t[j]] = Listening <=> t[j] = FirstFd
  <2>1. t[j] \in Fds /\ files[t[j]] # NoFile
    BY <1>1 DEF Exact
  <2>2. files[t[j]] \in Clients \cup {Listening}
    BY <2>1 DEF KernelInv, KernelTypes
  <2>3. files[t[j]] = Listening <=> t[j] = FirstFd
    BY <2>1 DEF Exact, KernelInv, OneListening
  <2>4. QED
    BY <2>1, <2>2, <2>3
<1>2. 0 \in Places(slots) /\ t[0] = FirstFd
  BY DEF Exact, Places
<1>3. \A j \in Places(slots) : t[j] # NoFd => (t[j] = FirstFd <=> j = 0)
  BY <1>2 DEF Exact
<1>4. ASSUME NEW j \in Places(slots) \ {0, i}, t[j] # NoFd
      PROVE  t[j] # t[i] /\ files[t[j]] \in Clients \ {files[t[i]]}
  <2>1. t[j] # t[i]
    BY <1>4 DEF Exact
  <2>2. files[t[j]] \in Clients
    BY <1>1, <1>3, <1>4
  <2>3. files[t[j]] # files[t[i]]
    BY <1>1, <1>4, <2>1, <2>2 DEF KernelInv, OneConnection
  <2>4. QED
    BY <2>1, <2>2, <2>3
<1>5. QED
  BY <1>1, <1>2, <1>3, <1>4

-----------------------------------------------------------------------------
(* The select server                                                       *)

\* Slots the walk has still to visit.
SelectToHandle ==
    {i \in Places(SelectSlots) : i >= pos /\ fd_array[i] # NoFd /\ fd_array[i] \in rfds}

\* New descriptors are only made at the beginning of a walk, when everything marked
\* is still open; so none of them has a mark of its number's former connection.
SelectMarks ==
    spc = "handle" =>
        /\ \A i \in SelectToHandle : Readable(fd_array[i])
        /\ pos = 0 => \A fd \in rfds : files[fd] # NoFile

SelectTypes ==
    /\ fd_array \in Tables(SelectSlots)
    /\ rfds \in SUBSET Fds
    /\ pos \in Nat
    /\ sending \in Fds \cup {NoFd} /\ (sending # NoFd => spc = "handle")
    /\ spc \in {"start", "select", "handle", "exited", "killed"}

SelectTable ==
    IF spc \in {"start", "exited"}
    THEN OnlySocket /\ rfds = {} /\ pos = 0 /\ \A i \in Places(SelectSlots) : fd_array[i] = NoFd
    ELSE Exact(fd_array, files, SelectSlots)

SelectInv == KernelInv /\ SelectTypes /\ SelectTable /\ SelectMarks

\* The select server's names for the kernel's operators.
LEMMA SelectNames ==
    /\ SelectSlots \in Nat \ {0} /\ Fds \subseteq Places(SelectSlots)
    /\ Select!Fds = Fds /\ Select!NoFd = NoFd /\ Select!Slots = Places(SelectSlots)
    /\ Select!OpenFds = OpenFds /\ Select!FreeFds = FreeFds
    /\ \A fd : Select!Readable(fd) <=> Readable(fd)
BY Numbers, EventServersAssumption
   DEF Select!SelectAssumption, Select!Fds, Fds, Select!NoFd, NoFd, Select!Slots, Places,
       Select!OpenFds, OpenFds, Select!FreeFds, FreeFds, Select!Readable, Readable

LEMMA SelectWalk == ASSUME SelectTypes PROVE Select!ToHandle = SelectToHandle
BY SelectNames
   DEF SelectTypes, Select!ToHandle, SelectToHandle, Places, Select!NoFd, NoFd

LEMMA SelectInit == Select!Init => SelectInv
<1> SUFFICES ASSUME Select!Init PROVE SelectInv
  OBVIOUS
<1>1. KernelInv
  BY KernelStart
     DEF Select!Init, Select!KernelInit, KernelInit, Select!Fds, Fds
<1>2. OnlySocket /\ rfds = {} /\ pos = 0 /\ sending = NoFd /\ spc = "start"
      /\ fd_array = [i \in Places(SelectSlots) |-> NoFd]
  BY SelectNames DEF Select!Init, Select!KernelInit, OnlySocket
<1>3. QED
  BY <1>1, <1>2 DEF SelectInv, SelectTypes, SelectTable, SelectMarks, Tables

\* The steps before the first select.
LEMMA SelectStart ==
    ASSUME SelectInv, Select!BuildListenSocket \/ Select!InitServer
    PROVE  SelectInv'
<1> USE Numbers, SelectNames
<1>1. spc = "start" /\ spc' # "handle" /\ UNCHANGED <<rfds, pos, sending>> /\ sending = NoFd
      /\ OnlySocket /\ \A i \in Places(SelectSlots) : fd_array[i] = NoFd
  BY DEF Select!BuildListenSocket, Select!InitServer, SelectInv, SelectTable,
         SelectTypes, Select!CreateSocketOrDie, Select!CreateBindOrDie, Select!CreateListenOrDie, Select!Die
<1>2. CASE Select!BuildListenSocket
  <2>1. spc' \in {"start", "exited"} /\ UNCHANGED fd_array
    BY <1>2, <1>1 DEF Select!BuildListenSocket, Select!CreateSocketOrDie,
           Select!CreateBindOrDie, Select!CreateListenOrDie, Select!Die
  <2>2. OpenSocket \/ Bind \/ Listen \/ UNCHANGED kernelVars
    BY <1>2 DEF Select!BuildListenSocket, Select!CreateSocketOrDie, Select!CreateBindOrDie,
           Select!CreateListenOrDie, Select!Die, Select!OpenSocket, OpenSocket,
           Select!Bind, Bind, Select!Listen, Listen, Select!kernelVars, kernelVars,
           Select!connVars, connVars
  <2>3. KernelInv' /\ OnlySocket'
    BY <1>1, <2>2, SocketSteps, KernelUntouched DEF SelectInv, OnlySocket
  <2>4. QED
    BY <1>1, <2>1, <2>3 DEF SelectInv, SelectTypes, SelectTable, SelectMarks
<1>3. CASE Select!InitServer
  <2>1. /\ spc' = "select" /\ listensock = "listening" /\ UNCHANGED kernelVars
        /\ fd_array' = [i \in Places(SelectSlots) |-> IF i = 0 THEN FirstFd ELSE NoFd]
    BY <1>3 DEF Select!InitServer, Select!kernelVars, kernelVars, Select!connVars, connVars
  <2>2. KernelInv' /\ UNCHANGED files /\ files \in FileTables
    BY <2>1, KernelUntouched DEF SelectInv, KernelInv, KernelTypes, FileTables
  <2>3. Exact(fd_array', files, SelectSlots)
    BY <1>1, <2>1, <2>2, TableStart DEF SelectInv, KernelInv, OneListening, OnlySocket
  <2>4. SelectTypes'
    BY <1>1, <2>1 DEF SelectInv, SelectTypes, Tables
  <2>5. QED
    BY <1>1, <2>1, <2>2, <2>3, <2>4 DEF SelectInv, SelectTable, SelectMarks
<1>4. QED
  BY <1>2, <1>3

\* select, and the end of a walk: the table stays as it is.
LEMMA SelectLoop ==
    ASSUME SelectInv, Select!Select \/ Select!EndOfWalk
    PROVE  SelectInv'
<1> USE Numbers, SelectNames
<1>1. /\ spc \in {"select", "handle"} /\ spc' \in {"select", "handle"}
      /\ UNCHANGED <<kernelVars, fd_array, sending>> /\ pos' = 0 /\ sending = NoFd
  BY DEF Select!Select, Select!EndOfWalk, Select!kernelVars, kernelVars,
         Select!connVars, connVars, SelectInv, SelectTypes
<1>2. rfds' = {fd \in Select!Watched : Readable(fd)} \/ (spc' = "select" /\ rfds' = {})
  BY DEF Select!Select, Select!EndOfWalk
<1>3. Select!Watched \subseteq {fd \in Fds : files[fd] # NoFile}
  BY <1>1 DEF Select!Watched, SelectInv, SelectTypes, SelectTable, Tables, Exact
<1>4. KernelInv' /\ UNCHANGED files /\ \A fd \in Fds : Readable(fd)' <=> Readable(fd)
  BY <1>1, KernelUntouched DEF SelectInv
<1>5. SelectTypes'
  BY <1>1, <1>2, <1>3 DEF SelectInv, SelectTypes
<1>6. SelectTable'
  BY <1>1, <1>4 DEF SelectInv, SelectTable
<1>7. SelectMarks'
  <2>1. CASE spc' = "handle"
    <3>1. \A fd \in rfds' : Readable(fd)' /\ files'[fd] # NoFile
      BY <1>2, <1>3, <1>4, <2>1
    <3>2. QED
      BY <3>1 DEF SelectMarks, SelectToHandle
  <2>2. QED
    BY <2>1 DEF SelectMarks
<1>8. QED
  BY <1>4, <1>5, <1>6, <1>7 DEF SelectInv

\* A client's step between two calls of the server.
LEMMA SelectClient ==
    ASSUME SelectInv, ClientStep, UNCHANGED <<fd_array, rfds, pos, sending, spc>>
    PROVE  SelectInv'
<1>1. KernelInv' /\ UNCHANGED files /\ \A fd \in Fds : Readable(fd) => Readable(fd)'
  BY ClientSteps DEF SelectInv
<1>2. SelectTypes' /\ SelectTable'
  BY <1>1 DEF SelectInv, SelectTypes, SelectTable, OnlySocket
<1>3. \A i \in SelectToHandle : fd_array[i] \in Fds
  BY DEF SelectToHandle, SelectInv, SelectTypes, Tables
<1>4. SelectToHandle' = SelectToHandle
  BY DEF SelectToHandle
<1>5. SelectMarks'
  BY <1>1, <1>3, <1>4 DEF SelectInv, SelectMarks
<1>6. QED
  BY <1>1, <1>2, <1>5 DEF SelectInv

\* The slot a handler is at.
LEMMA SelectVisited ==
    ASSUME SelectInv, NEW i, Select!At(i)
    PROVE  /\ spc = "handle" /\ sending = NoFd
           /\ i \in Places(SelectSlots) /\ i >= pos /\ pos \in Nat
           /\ fd_array[i] \in Fds /\ fd_array[i] \in rfds
           /\ files[fd_array[i]] \in Clients \cup {Listening}
           /\ files[fd_array[i]] = Listening <=> i = 0
           /\ Exact(fd_array, files, SelectSlots)
<1> USE Numbers, SelectNames
<1>1. spc = "handle" /\ sending = NoFd /\ i \in SelectToHandle
  BY SelectWalk DEF Select!At, SelectInv
<1>2. i \in Places(SelectSlots) /\ i >= pos /\ fd_array[i] # NoFd /\ fd_array[i] \in rfds
  BY <1>1 DEF SelectToHandle
<1>3. Exact(fd_array, files, SelectSlots) /\ fd_array \in Tables(SelectSlots) /\ pos \in Nat
  BY <1>1 DEF SelectInv, SelectTable, SelectTypes
<1>4. QED
  BY <1>1, <1>2, <1>3, TableSlots DEF SelectInv

\* The walk goes on, and what is readable at the other connections stays so: no slot
\* behind has a new descriptor with a mark.
LEMMA SelectOnward ==
    ASSUME SelectInv, NEW i, Select!At(i), Select!Proceed(i),
           \A j \in Places(SelectSlots) :
               j > i /\ fd_array'[j] # fd_array[j] => fd_array'[j] \notin rfds,
           OthersStayReadable(files[fd_array[i]])
    PROVE  SelectMarks'
<1> USE Numbers, SelectNames
<1>1. spc' = "handle" /\ rfds' = rfds /\ pos' = i + 1
  BY SelectVisited DEF Select!Proceed
<1>2. i \in Places(SelectSlots) /\ i \in Nat /\ i >= pos /\ pos \in Nat
  BY SelectVisited DEF Places
<1>3. ASSUME NEW j \in SelectToHandle'
      PROVE  Readable(fd_array[j])'
  <2>1. j \in Places(SelectSlots) /\ j > i /\ fd_array'[j] \in rfds /\ fd_array'[j] # NoFd
    BY <1>1, <1>2 DEF SelectToHandle, Places
  <2>2. fd_array'[j] = fd_array[j] /\ j # 0 /\ j # i /\ j >= pos
    BY <1>2, <2>1 DEF Places
  <2>3. j \in SelectToHandle
    BY <2>1, <2>2 DEF SelectToHandle
  <2>4. /\ fd_array[j] \in Fds
        /\ files[fd_array[j]] \in Clients \ {files[fd_array[i]]}
    <3>1. /\ KernelInv /\ fd_array \in Tables(SelectSlots)
          /\ Exact(fd_array, files, SelectSlots) /\ fd_array[i] # NoFd
      BY SelectVisited DEF SelectInv, SelectTypes
    <3>2. \A k \in Places(SelectSlots) \ {0, i} : fd_array[k] # NoFd =>
             fd_array[k] \in Fds /\ files[fd_array[k]] \in Clients \ {files[fd_array[i]]}
      BY <1>2, <3>1, TableSlots
    <3>3. j \in Places(SelectSlots) \ {0, i} /\ fd_array[j] # NoFd
      BY <2>1, <2>2
    <3> QED BY <3>2, <3>3
  <2>5. Readable(fd_array[j])
    BY <2>3, SelectVisited DEF SelectInv, SelectMarks
  <2>6. QED
    BY <2>2, <2>4, <2>5 DEF OthersStayReadable
<1>4. QED
  BY <1>1, <1>2, <1>3 DEF SelectMarks

\* Accepter gives the new connection a slot.
LEMMA SelectAccept ==
    ASSUME SelectInv, NEW i, Select!At(i), Select!Proceed(i), files[fd_array[i]] = Listening,
           NEW new \in Fds, Accept(new),
           NEW slot \in Places(SelectSlots) \ {0}, fd_array[slot] = NoFd,
           fd_array' = [fd_array EXCEPT ![slot] = new], UNCHANGED sending
    PROVE  SelectInv'
<1> USE Numbers, SelectNames
<1>1. /\ spc = "handle" /\ spc' = "handle" /\ sending = NoFd
      /\ UNCHANGED rfds /\ pos' = i + 1 /\ pos \in Nat
      /\ i = 0 /\ pos = 0 /\ Exact(fd_array, files, SelectSlots)
  BY SelectVisited DEF Select!Proceed, Places
<1>2. fd_array \in Tables(SelectSlots) /\ files \in FileTables /\ files[FirstFd] = Listening
  BY <1>1 DEF SelectInv, SelectTypes, KernelInv, KernelTypes, FileTables, Exact
<1>3. /\ KernelInv' /\ files[new] = NoFile /\ new # FirstFd
      /\ OthersStayReadable(Listening)
  BY <1>2, AcceptStep DEF SelectInv
<1>4. PICK c \in Clients : files' = [files EXCEPT ![new] = c]
  BY <1>2, AcceptStep DEF SelectInv
<1>5. SelectTypes'
  BY <1>1, <1>2 DEF SelectInv, SelectTypes, Tables
<1>6. Exact(fd_array', files', SelectSlots)
  BY <1>1, <1>2, <1>3, <1>4, TableAdd
<1>7. SelectTable'
  BY <1>1, <1>6 DEF SelectTable
<1>8. new \notin rfds
  BY <1>1, <1>3 DEF SelectInv, SelectMarks
<1>9. \A j \in Places(SelectSlots) : fd_array'[j] # fd_array[j] => fd_array'[j] = new
  BY <1>2 DEF Tables
<1>10. SelectMarks'
  BY <1>3, <1>8, <1>9, SelectOnward
<1>11. QED
  BY <1>3, <1>5, <1>7, <1>10 DEF SelectInv

\* The handlers that leave the table as it is: "Server Is Full!", an accept that has
\* failed, and the recv of a request.
LEMMA SelectSameTable ==
    ASSUME SelectInv, NEW i, Select!At(i), Select!Proceed(i),
           UNCHANGED <<fd_array, files>>, sending' \in Fds \cup {NoFd},
           KernelInv', OthersStayReadable(files[fd_array[i]])
    PROVE  SelectInv'
<1> USE Numbers, SelectNames
<1>1. /\ spc = "handle" /\ spc' = "handle" /\ pos' \in Nat /\ UNCHANGED rfds
      /\ Exact(fd_array, files, SelectSlots)
  BY SelectVisited DEF Select!Proceed, Places
<1>2. SelectTypes'
  BY <1>1 DEF SelectInv, SelectTypes
<1>3. SelectTable'
  BY <1>1 DEF SelectTable
<1>4. SelectMarks'
  BY SelectOnward
<1>5. QED
  BY <1>2, <1>3, <1>4 DEF SelectInv

\* The answer is sent or refused, which may end the process.
LEMMA SelectSend ==
    ASSUME SelectInv, Select!Send
    PROVE  SelectInv'
<1> USE Numbers, SelectNames
<1>1. /\ sending # NoFd /\ sending' = NoFd /\ UNCHANGED <<fd_array, rfds, pos>>
      /\ spc' \in {spc, "killed"}
  BY DEF Select!Send
<1>2. SendAnswer(sending) \/ SendError(sending)
  BY DEF Select!Send, Select!SendAnswer, SendAnswer, Select!SendError, SendError,
         Select!kernelVars, kernelVars, Select!connVars, connVars
<1>3. /\ KernelInv' /\ UNCHANGED files
      /\ \A fd \in Fds : Readable(fd)' <=> Readable(fd)
  BY <1>2, SendStep DEF SelectInv
<1>4. spc = "handle" /\ Exact(fd_array, files, SelectSlots)
  BY <1>1 DEF SelectInv, SelectTypes, SelectTable
<1>5. SelectTypes'
  BY <1>1, <1>4 DEF SelectInv, SelectTypes
<1>6. SelectTable'
  BY <1>1, <1>3, <1>4 DEF SelectTable
<1>7. SelectMarks'
  <2>1. \A i \in SelectToHandle : fd_array[i] \in Fds
    BY DEF SelectToHandle, SelectInv, SelectTypes, Tables
  <2>2. SelectToHandle' = SelectToHandle
    BY <1>1 DEF SelectToHandle
  <2>3. QED
    BY <1>1, <1>3, <1>4, <2>1, <2>2 DEF SelectInv, SelectMarks
<1>8. QED
  BY <1>3, <1>5, <1>6, <1>7 DEF SelectInv

\* HandlerIO has met the end of the connection, closes it and clears its slot.
LEMMA SelectRemove ==
    ASSUME SelectInv, NEW i, Select!RemoveConnection(i)
    PROVE  SelectInv'
<1> USE Numbers, SelectNames
<1>1. /\ Select!At(i) /\ Select!Proceed(i) /\ files[fd_array[i]] # Listening
      /\ Close(fd_array[i]) /\ fd_array' = [fd_array EXCEPT ![i] = NoFd]
      /\ UNCHANGED sending
  BY DEF Select!RemoveConnection, Select!Close, Close, Select!Forget, Forget
<1>2. /\ spc = "handle" /\ spc' = "handle" /\ sending = NoFd
      /\ UNCHANGED rfds /\ pos' = i + 1
      /\ i \in Places(SelectSlots) /\ i # 0 /\ fd_array[i] \in Fds
      /\ files[fd_array[i]] \in Clients /\ Exact(fd_array, files, SelectSlots)
  BY <1>1, SelectVisited DEF Select!Proceed
<1>3. fd_array \in Tables(SelectSlots) /\ files \in FileTables
  BY DEF SelectInv, SelectTypes, KernelInv, KernelTypes, FileTables
<1>4. /\ KernelInv' /\ files' = [files EXCEPT ![fd_array[i]] = NoFile]
      /\ OthersStayReadable(files[fd_array[i]])
  BY <1>1, <1>2, CloseStep DEF SelectInv
<1>5. SelectTypes'
  BY <1>1, <1>2, <1>3 DEF SelectInv, SelectTypes, Tables, Places
<1>6. Exact(fd_array', files', SelectSlots)
  BY <1>1, <1>2, <1>3, <1>4, TableRemove
<1>7. SelectTable'
  BY <1>2, <1>6 DEF SelectTable
<1>8. \A j \in Places(SelectSlots) : j > i => fd_array'[j] = fd_array[j]
  BY <1>1, <1>2, <1>3 DEF Tables, Places
<1>9. SelectMarks'
  BY <1>1, <1>4, <1>8, SelectOnward
<1>10. QED
  BY <1>4, <1>5, <1>7, <1>9 DEF SelectInv

LEMMA SelectHandler ==
    ASSUME SelectInv, Select!HandlerEvent
    PROVE  SelectInv'
<1> USE Numbers, SelectNames
<1> SUFFICES ASSUME NEW i,
                    \/ Select!AddConnection(i) \/ Select!AcceptError(i)
                    \/ Select!ReadRequest(i) \/ Select!RemoveConnection(i)
             PROVE  SelectInv'
  BY SelectSend DEF Select!HandlerEvent
<1>2. CASE Select!AddConnection(i)
  <2>1. /\ Select!At(i) /\ Select!Proceed(i) /\ files[fd_array[i]] = Listening
        /\ UNCHANGED sending /\ sending \in Fds \cup {NoFd}
    BY <1>2 DEF Select!AddConnection, SelectInv, SelectTypes
  <2>2. CASE AcceptAndClose /\ UNCHANGED fd_array
    <3>1. /\ KernelInv' /\ UNCHANGED files /\ OthersStayReadable(files[fd_array[i]])
      BY <2>1, <2>2, AcceptAndCloseStep DEF SelectInv
    <3>2. QED
      BY <2>1, <2>2, <3>1, SelectSameTable
  <2>3. CASE \E new \in FreeFds, slot \in Select!FreeSlots :
                 Accept(new) /\ fd_array' = [fd_array EXCEPT ![slot] = new]
    <3>1. PICK new \in FreeFds, slot \in Select!FreeSlots :
                 Accept(new) /\ fd_array' = [fd_array EXCEPT ![slot] = new]
      BY <2>3
    <3>2. new \in Fds /\ slot \in Places(SelectSlots) \ {0} /\ fd_array[slot] = NoFd
      BY DEF FreeFds, Select!FreeSlots
    <3>3. QED
      BY <2>1, <3>1, <3>2, SelectAccept
  <2>4. QED
    BY <1>2, <2>2, <2>3
       DEF Select!AddConnection, Select!TcpAccepter, Select!Accept, Accept, FreeFds,
           Select!AcceptAndClose, AcceptAndClose, Select!Forget, Forget
<1>3. CASE Select!AcceptError(i)
  <2>1. /\ Select!At(i) /\ Select!Proceed(i) /\ UNCHANGED <<kernelVars, fd_array, sending>>
        /\ sending \in Fds \cup {NoFd}
    BY <1>3 DEF Select!AcceptError, Select!TcpAccepter, Select!kernelVars, kernelVars,
                Select!connVars, connVars, SelectInv, SelectTypes
  <2>2. KernelInv' /\ UNCHANGED files /\ OthersStayReadable(files[fd_array[i]])
    BY <2>1, KernelUntouched DEF SelectInv, OthersStayReadable
  <2>3. QED
    BY <2>1, <2>2, SelectSameTable
<1>4. CASE Select!ReadRequest(i)
  <2>1. /\ Select!At(i) /\ Select!Proceed(i) /\ files[fd_array[i]] # Listening
        /\ sending' = fd_array[i] /\ UNCHANGED fd_array
    BY <1>4 DEF Select!ReadRequest
  <2>2. Recv(fd_array[i])
    BY <1>4 DEF Select!ReadRequest, Select!Recv, Recv
  <2>3. fd_array[i] \in Fds /\ files[fd_array[i]] \in Clients
    BY <2>1, SelectVisited
  <2>4. KernelInv' /\ UNCHANGED files /\ OthersStayReadable(files[fd_array[i]])
    BY <2>2, <2>3, RecvStep DEF SelectInv
  <2>5. QED
    BY <2>1, <2>3, <2>4, SelectSameTable
<1>5. CASE Select!RemoveConnection(i)
  BY <1>5, SelectRemove
<1>6. QED
  BY <1>2, <1>3, <1>4, <1>5

LEMMA SelectNext ==
    ASSUME SelectInv, [Select!Next]_Select!vars
    PROVE  SelectInv'
<1>1. CASE UNCHANGED Select!vars
  <2>1. UNCHANGED <<kernelVars, fd_array, rfds, pos, sending, spc>>
    BY <1>1 DEF Select!vars, Select!kernelVars, kernelVars, Select!connVars, connVars,
                Select!serverVars
  <2>2. KernelInv' /\ UNCHANGED files /\ \A fd \in Fds : Readable(fd)' <=> Readable(fd)
    BY <2>1, KernelUntouched DEF SelectInv
  <2>3. QED
    BY <2>1, <2>2 DEF SelectInv, SelectTypes, SelectTable, SelectMarks, SelectToHandle,
                      OnlySocket, Tables
<1>2. CASE Select!ClientStep /\ UNCHANGED Select!serverVars
  BY <1>2, SelectNames, SelectClient
     DEF Select!ClientStep, ClientStep, Select!Connect, Connect, Select!SendRequest,
         SendRequest, Select!ReadAnswer, ReadAnswer, Select!CloseClient, CloseClient, Select!Reset, Reset, Select!serverVars,
         Select!Connected, Connected, Select!Accepted, Accepted
<1>3. CASE Select!ServerStep
  BY <1>3, SelectStart, SelectLoop, SelectHandler DEF Select!ServerStep
<1>4. QED
  BY <1>1, <1>2, <1>3 DEF Select!Next, Select!SelectError

\* What the invariant says of the table and of what the walk is about to call.
LEMMA SelectSafe == SelectInv => Select!TableExact /\ Select!NeverBlocks
<1> USE Numbers, SelectNames
<1> SUFFICES ASSUME SelectInv PROVE Select!TableExact /\ Select!NeverBlocks
  OBVIOUS
<1>1. Select!NeverBlocks
  BY SelectWalk DEF SelectInv, SelectMarks, Select!NeverBlocks
<1>2. CASE spc \in {"start", "exited"}
  BY <1>1, <1>2 DEF SelectInv, SelectTable, Select!TableExact, Select!Watched
<1>3. CASE spc \notin {"start", "exited"}
  <2>1. Exact(fd_array, files, SelectSlots) /\ fd_array \in Tables(SelectSlots)
    BY <1>3 DEF SelectInv, SelectTable, SelectTypes
  <2>2. Select!Watched = OpenFds
    <3>1. {fd_array[k] : k \in Places(SelectSlots)} \ {NoFd} = {fd \in Fds : files[fd] # NoFile}
      BY <2>1, TableEntries
    <3>2. Select!Watched = {fd_array[k] : k \in Places(SelectSlots)} \ {NoFd}
      BY DEF Select!Watched
    <3> QED BY <3>1, <3>2 DEF OpenFds
  <2>3. QED
    BY <1>1, <1>3, <2>1, <2>2 DEF Exact, Select!TableExact
<1>4. QED
  BY <1>2, <1>3

-----------------------------------------------------------------------------
(* The poll server, with a table of any size                               *)

PollFds == [fd : Fds \cup {NoFd}, revents : BOOLEAN]
Polled(slots) == [i \in Places(slots) |-> fd_events[i].fd]

\* A mark ahead of the walk is one of a descriptor that is readable.  A free slot has
\* none, so a new descriptor does not come with the mark of another.
PollMarks(slots) ==
    spc = "handle" =>
        \A i \in Places(slots) :
            i >= pos /\ fd_events[i].revents => fd_events[i].fd # NoFd /\ Readable(fd_events[i].fd)

PollTypes(slots) ==
    /\ fd_events \in [Places(slots) -> PollFds]
    /\ pos \in Nat
    /\ sending \in Fds \cup {NoFd} /\ (sending # NoFd => spc = "handle")
    /\ spc \in {"start", "poll", "handle", "exited", "killed"}

PollTable(slots) ==
    IF spc \in {"start", "exited"}
    THEN OnlySocket /\ pos = 0 /\ \A i \in Places(slots) : fd_events[i].fd = NoFd
    ELSE Exact(Polled(slots), files, slots)

PollInv(slots) == KernelInv /\ PollTypes(slots) /\ PollTable(slots) /\ PollMarks(slots)

\* The poll server's names for the kernel's operators.
LEMMA PollNames ==
    ASSUME NEW slots \in Nat \ {0}
    PROVE  /\ Poll(slots)!Fds = Fds /\ Poll(slots)!NoFd = NoFd
           /\ Poll(slots)!Slots = Places(slots)
           /\ Poll(slots)!OpenFds = OpenFds /\ Poll(slots)!FreeFds = FreeFds
           /\ Poll(slots)!Empty = [fd |-> NoFd, revents |-> FALSE]
           /\ \A fd : Poll(slots)!Readable(fd) <=> Readable(fd)
BY DEF Poll!Fds, Fds, Poll!NoFd, NoFd, Poll!Slots, Places, Poll!OpenFds, OpenFds,
       Poll!FreeFds, FreeFds, Poll!Readable, Readable, Poll!Empty

\* The number in a slot is replaced, the mark is not.
LEMMA NewFd ==
    ASSUME NEW r \in PollFds, NEW fd \in Fds \cup {NoFd}
    PROVE  [r EXCEPT !.fd = fd] = [fd |-> fd, revents |-> r.revents]
BY DEF PollFds

LEMMA PollInit ==
    ASSUME NEW slots \in Nat \ {0}, Poll(slots)!Init
    PROVE  PollInv(slots)
<1>1. KernelInv
  BY KernelStart
     DEF Poll!Init, Poll!KernelInit, KernelInit, Poll!Fds, Fds
<1>2. OnlySocket /\ pos = 0 /\ sending = NoFd /\ spc = "start"
      /\ fd_events = [i \in Places(slots) |-> [fd |-> NoFd, revents |-> FALSE]]
  BY PollNames DEF Poll!Init, Poll!KernelInit, OnlySocket
<1>3. QED
  BY <1>1, <1>2 DEF PollInv, PollTypes, PollFds, PollTable, PollMarks

\* The steps before the first poll.
LEMMA PollStart ==
    ASSUME NEW slots \in Nat \ {0}, PollInv(slots),
           Poll(slots)!BuildListenSocket \/ Poll(slots)!InitServer
    PROVE  PollInv(slots)'
<1> USE Numbers, PollNames
<1>1. spc = "start" /\ spc' # "handle" /\ UNCHANGED <<pos, sending>> /\ sending = NoFd
      /\ OnlySocket /\ \A i \in Places(slots) : fd_events[i].fd = NoFd
  BY DEF Poll!BuildListenSocket, Poll!InitServer, PollInv, PollTable,
         PollTypes, Poll!CreateSocketOrDie, Poll!CreateBindOrDie, Poll!CreateListenOrDie, Poll!Die
<1>2. CASE Poll(slots)!BuildListenSocket
  <2>1. spc' \in {"start", "exited"} /\ UNCHANGED fd_events
    BY <1>2, <1>1 DEF Poll!BuildListenSocket, Poll!CreateSocketOrDie,
           Poll!CreateBindOrDie, Poll!CreateListenOrDie, Poll!Die
  <2>2. OpenSocket \/ Bind \/ Listen \/ UNCHANGED kernelVars
    BY <1>2 DEF Poll!BuildListenSocket, Poll!CreateSocketOrDie, Poll!CreateBindOrDie,
           Poll!CreateListenOrDie, Poll!Die, Poll!OpenSocket, OpenSocket,
           Poll!Bind, Bind, Poll!Listen, Listen, Poll!kernelVars, kernelVars,
           Poll!connVars, connVars
  <2>3. KernelInv' /\ OnlySocket'
    BY <1>1, <2>2, SocketSteps, KernelUntouched DEF PollInv, OnlySocket
  <2>4. QED
    BY <1>1, <2>1, <2>3 DEF PollInv, PollTypes, PollFds, PollTable, PollMarks
<1>3. CASE Poll(slots)!InitServer
  <2>1. /\ spc' = "poll" /\ listensock = "listening" /\ UNCHANGED kernelVars
    BY <1>3 DEF Poll!InitServer, Poll!kernelVars, kernelVars, Poll!connVars, connVars
  <2>2. fd_events' = [i \in Places(slots) |->
                          [fd |-> IF i = 0 THEN FirstFd ELSE NoFd, revents |-> FALSE]]
    <3>1. [fd |-> NoFd, revents |-> FALSE] \in PollFds
      BY DEF PollFds
    <3>2. [[fd |-> NoFd, revents |-> FALSE] EXCEPT !.fd = FirstFd]
              = [fd |-> FirstFd, revents |-> FALSE]
      BY <3>1, NewFd
    <3>3. QED
      BY <1>3, <3>2 DEF Poll!InitServer
  <2>3. KernelInv' /\ UNCHANGED files /\ files \in FileTables
    BY <2>1, KernelUntouched DEF PollInv, KernelInv, KernelTypes, FileTables
  <2>4. Polled(slots)' = [i \in Places(slots) |-> IF i = 0 THEN FirstFd ELSE NoFd]
    BY <2>2 DEF Polled
  <2>5. Exact(Polled(slots)', files, slots)
    BY <1>1, <2>1, <2>3, <2>4, TableStart DEF PollInv, KernelInv, OneListening, OnlySocket
  <2>6. PollTypes(slots)'
    BY <1>1, <2>1, <2>2 DEF PollInv, PollTypes, PollFds
  <2>7. QED
    BY <1>1, <2>1, <2>3, <2>5, <2>6 DEF PollInv, PollTable, PollMarks
<1>4. QED
  BY <1>2, <1>3

\* poll, and the end of a walk: the table stays as it is, and its marks are made anew.
LEMMA PollLoop ==
    ASSUME NEW slots \in Nat \ {0}, PollInv(slots), Poll(slots)!Poll \/ Poll(slots)!EndOfWalk
    PROVE  PollInv(slots)'
<1> USE Numbers, PollNames
<1>1. /\ spc \in {"poll", "handle"} /\ spc' \in {"poll", "handle"}
      /\ UNCHANGED <<kernelVars, sending>> /\ pos' = 0 /\ sending = NoFd
  BY DEF Poll!Poll, Poll!EndOfWalk, Poll!kernelVars, kernelVars, Poll!connVars, connVars,
         PollInv, PollTypes
<1>2. KernelInv' /\ UNCHANGED files /\ \A fd \in Fds : Readable(fd)' <=> Readable(fd)
  BY <1>1, KernelUntouched DEF PollInv
<1>3. \/ spc' # "handle" /\ UNCHANGED fd_events
      \/ fd_events' = [i \in Places(slots) |->
             [fd_events[i] EXCEPT !.revents = Poll(slots)!Ready(i)]]
  BY DEF Poll!Poll, Poll!EndOfWalk
<1>4. \A i \in Places(slots) : Poll(slots)!Ready(i) <=>
          fd_events[i].fd # NoFd /\ Readable(fd_events[i].fd)
  BY DEF Poll!Ready
<1>5. \A i \in Places(slots) :
          /\ fd_events'[i].fd = fd_events[i].fd
          /\ spc' = "handle" /\ fd_events'[i].revents => Poll(slots)!Ready(i)
  BY <1>3 DEF PollInv, PollTypes, PollFds
<1>6. PollTypes(slots)'
  <2>1. \A i \in Places(slots) : Poll(slots)!Ready(i) \in BOOLEAN
    BY DEF Poll!Ready
  <2>2. fd_events' \in [Places(slots) -> PollFds]
    BY <1>3, <2>1 DEF PollInv, PollTypes, PollFds
  <2>3. QED
    BY <1>1, <2>2 DEF PollTypes
<1>7. PollTable(slots)'
  BY <1>1, <1>2, <1>5 DEF PollInv, PollTable, Polled
<1>8. PollMarks(slots)'
  <2>1. \A i \in Places(slots) : fd_events[i].fd \in Fds \cup {NoFd}
    BY DEF PollInv, PollTypes, PollFds
  <2>2. QED
    BY <1>2, <1>4, <1>5, <2>1 DEF PollMarks
<1>9. QED
  BY <1>2, <1>6, <1>7, <1>8 DEF PollInv

\* A client's step between two calls of the server.
LEMMA PollClient ==
    ASSUME NEW slots \in Nat \ {0}, PollInv(slots), ClientStep,
           UNCHANGED <<fd_events, pos, sending, spc>>
    PROVE  PollInv(slots)'
<1>1. KernelInv' /\ UNCHANGED files /\ \A fd \in Fds : Readable(fd) => Readable(fd)'
  BY ClientSteps DEF PollInv
<1>2. PollTypes(slots)' /\ PollTable(slots)'
  BY <1>1 DEF PollInv, PollTypes, PollFds, PollTable, OnlySocket, Polled
<1>3. \A i \in Places(slots) : fd_events[i].fd \in Fds \cup {NoFd}
  BY DEF PollInv, PollTypes, PollFds
<1>4. PollMarks(slots)'
  BY <1>1, <1>3 DEF PollInv, PollMarks
<1>5. QED
  BY <1>1, <1>2, <1>4 DEF PollInv

\* The slot a handler is at.
LEMMA PollVisited ==
    ASSUME NEW slots \in Nat \ {0}, PollInv(slots), NEW i, Poll(slots)!Visit(i)
    PROVE  /\ spc = "handle" /\ sending = NoFd /\ pos' = i + 1
           /\ i \in Places(slots) /\ i \in Nat /\ i >= pos /\ pos \in Nat
           /\ fd_events[i].fd \in Fds /\ Polled(slots)[i] = fd_events[i].fd
           /\ files[fd_events[i].fd] \in Clients \cup {Listening}
           /\ files[fd_events[i].fd] = Listening <=> i = 0
           /\ Polled(slots) \in Tables(slots) /\ files \in FileTables
           /\ Exact(Polled(slots), files, slots) /\ files[FirstFd] = Listening
<1> USE Numbers, PollNames
<1>1. /\ spc = "handle" /\ sending = NoFd /\ pos' = i + 1
      /\ i \in pos..slots-1 /\ fd_events[i].fd # NoFd
  BY DEF Poll!Visit, Poll!ToHandle
<1>2. pos \in Nat /\ Polled(slots) \in Tables(slots) /\ files \in FileTables
  BY DEF PollInv, PollTypes, PollFds, Polled, Tables, KernelInv, KernelTypes, FileTables
<1>3. i \in Places(slots) /\ i \in Nat /\ i >= pos
  BY <1>1, <1>2 DEF Places
<1>4. Exact(Polled(slots), files, slots) /\ Polled(slots)[i] = fd_events[i].fd
  BY <1>1, <1>3 DEF PollInv, PollTable, Polled
<1>5. Polled(slots)[i] # NoFd /\ files[FirstFd] = Listening
  BY <1>1, <1>4 DEF Exact
<1>6. QED
  BY <1>1, <1>2, <1>3, <1>4, <1>5, TableSlots DEF PollInv

\* The walk goes on, and what is readable at the other connections stays so: no slot
\* behind has a new descriptor with a mark.
LEMMA PollOnward ==
    ASSUME NEW slots \in Nat \ {0}, PollInv(slots), NEW i, Poll(slots)!Visit(i),
           \A j \in Places(slots) :
               j > i /\ fd_events'[j] # fd_events[j] => ~fd_events'[j].revents,
           OthersStayReadable(files[fd_events[i].fd])
    PROVE  PollMarks(slots)'
<1> USE Numbers, PollNames
<1>1. /\ spc = "handle" /\ pos' = i + 1 /\ i \in Places(slots) /\ i \in Nat
      /\ i >= pos /\ pos \in Nat
  BY PollVisited
<1>2. ASSUME NEW j \in Places(slots), j >= i + 1, fd_events'[j].revents
      PROVE  /\ fd_events'[j] = fd_events[j] /\ fd_events[j].fd # NoFd
             /\ Readable(fd_events[j].fd)'
  <2>1. j # 0 /\ j # i /\ j >= pos /\ j > i
    BY <1>1, <1>2 DEF Places
  <2>2. fd_events'[j] = fd_events[j]
    BY <1>2, <2>1
  <2>3. fd_events[j].fd # NoFd /\ Readable(fd_events[j].fd)
    BY <1>1, <1>2, <2>1, <2>2 DEF PollInv, PollMarks
  <2>4. Polled(slots)[j] = fd_events[j].fd /\ Polled(slots)[i] = fd_events[i].fd
    BY <1>1 DEF Polled
  <2>5. /\ fd_events[j].fd \in Fds
        /\ files[fd_events[j].fd] \in Clients \ {files[fd_events[i].fd]}
    BY <1>1, <2>1, <2>3, <2>4, TableSlots, PollVisited DEF PollInv
  <2>6. Readable(fd_events[j].fd)'
    BY <2>2, <2>3, <2>5 DEF OthersStayReadable
  <2>7. QED
    BY <2>2, <2>3, <2>6
<1>3. QED
  BY <1>1, <1>2 DEF PollMarks

\* Accepter gives the new connection a slot.
LEMMA PollAccept ==
    ASSUME NEW slots \in Nat \ {0}, PollInv(slots), NEW i, Poll(slots)!Visit(i),
           files[fd_events[i].fd] = Listening, NEW new \in Fds, Accept(new),
           NEW slot \in Places(slots) \ {0}, fd_events[slot].fd = NoFd,
           fd_events' = [fd_events EXCEPT ![slot].fd = new], UNCHANGED <<sending, spc>>
    PROVE  PollInv(slots)'
<1> USE Numbers, PollNames
<1>1. /\ spc = "handle" /\ sending = NoFd /\ pos' = i + 1 /\ i = 0 /\ pos = 0
      /\ files[FirstFd] = Listening
      /\ Polled(slots) \in Tables(slots) /\ files \in FileTables
      /\ Exact(Polled(slots), files, slots)
  BY PollVisited
<1>2. /\ KernelInv' /\ files[new] = NoFile
      /\ OthersStayReadable(Listening)
  BY <1>1, AcceptStep DEF PollInv
<1>3. PICK c \in Clients : files' = [files EXCEPT ![new] = c]
  BY <1>1, AcceptStep DEF PollInv
<1>4. /\ fd_events \in [Places(slots) -> PollFds]
      /\ fd_events[slot] \in PollFds /\ ~fd_events[slot].revents
  <2>1. slot >= pos
    BY <1>1 DEF Places
  <2>2. QED
    BY <1>1, <2>1 DEF PollInv, PollTypes, PollFds, PollMarks
<1>5. fd_events' = [fd_events EXCEPT ![slot] = [fd |-> new, revents |-> FALSE]]
  <2>1. [fd_events[slot] EXCEPT !.fd = new] = [fd |-> new, revents |-> FALSE]
    BY <1>4, NewFd DEF PollFds
  <2>2. QED
    BY <2>1
<1>6. PollTypes(slots)'
  BY <1>1, <1>4, <1>5 DEF PollInv, PollTypes, PollFds
<1>7. Polled(slots)' = [Polled(slots) EXCEPT ![slot] = new] /\ Polled(slots)[slot] = NoFd
  BY <1>4, <1>5 DEF Polled
<1>8. Exact(Polled(slots)', files', slots)
  <2>1. slot \in Places(slots) /\ slot # 0
    OBVIOUS
  <2>2. Exact([Polled(slots) EXCEPT ![slot] = new], [files EXCEPT ![new] = c], slots)
    BY <1>1, <1>2, <1>7, <2>1, TableAdd
  <2>3. QED
    BY <1>3, <1>7, <2>2
<1>9. PollTable(slots)'
  BY <1>1, <1>8 DEF PollTable
<1>10. \A j \in Places(slots) : fd_events'[j] # fd_events[j] => ~fd_events'[j].revents
  BY <1>4, <1>5
<1>11. PollMarks(slots)'
  BY <1>2, <1>10, PollOnward
<1>12. QED
  BY <1>2, <1>6, <1>9, <1>11 DEF PollInv

\* The handlers that leave the table as it is: "Server Is Full!", an accept that has
\* failed, and the recv of a request.
LEMMA PollSameTable ==
    ASSUME NEW slots \in Nat \ {0}, PollInv(slots), NEW i, Poll(slots)!Visit(i),
           UNCHANGED <<fd_events, files, spc>>, sending' \in Fds \cup {NoFd},
           KernelInv', OthersStayReadable(files[fd_events[i].fd])
    PROVE  PollInv(slots)'
<1>1. /\ spc = "handle" /\ pos' \in Nat /\ Exact(Polled(slots), files, slots)
  BY PollVisited
<1>2. PollTypes(slots)'
  BY <1>1 DEF PollInv, PollTypes
<1>3. PollTable(slots)'
  BY <1>1 DEF PollTable, Polled
<1>4. PollMarks(slots)'
  BY PollOnward
<1>5. QED
  BY <1>2, <1>3, <1>4 DEF PollInv

\* The answer is sent or refused, which may end the process.
LEMMA PollSend ==
    ASSUME NEW slots \in Nat \ {0}, PollInv(slots), Poll(slots)!Send
    PROVE  PollInv(slots)'
<1> USE Numbers, PollNames
<1>1. /\ sending # NoFd /\ sending' = NoFd /\ UNCHANGED <<fd_events, pos>>
      /\ spc' \in {spc, "killed"}
  BY DEF Poll!Send
<1>2. SendAnswer(sending) \/ SendError(sending)
  BY DEF Poll!Send, Poll!SendAnswer, SendAnswer, Poll!SendError, SendError,
         Poll!kernelVars, kernelVars, Poll!connVars, connVars
<1>3. /\ KernelInv' /\ UNCHANGED files
      /\ \A fd \in Fds : Readable(fd)' <=> Readable(fd)
  BY <1>2, SendStep DEF PollInv
<1>4. spc = "handle" /\ Exact(Polled(slots), files, slots)
  BY <1>1 DEF PollInv, PollTypes, PollTable
<1>5. PollTypes(slots)'
  BY <1>1, <1>4 DEF PollInv, PollTypes
<1>6. PollTable(slots)'
  BY <1>1, <1>3, <1>4 DEF PollTable, Polled
<1>7. PollMarks(slots)'
  <2>1. \A i \in Places(slots) : fd_events[i].fd \in Fds \cup {NoFd}
    BY DEF PollInv, PollTypes, PollFds
  <2>2. QED
    BY <1>1, <1>3, <1>4, <2>1 DEF PollInv, PollMarks
<1>8. QED
  BY <1>3, <1>5, <1>6, <1>7 DEF PollInv

\* HandlerIO has met the end of the connection, closes it and empties its slot.
LEMMA PollRemove ==
    ASSUME NEW slots \in Nat \ {0}, PollInv(slots), NEW i, Poll(slots)!RemoveConnection(i)
    PROVE  PollInv(slots)'
<1> USE Numbers, PollNames
<1>1. /\ Poll(slots)!Visit(i) /\ files[fd_events[i].fd] # Listening
      /\ UNCHANGED <<sending, spc>> /\ Close(fd_events[i].fd)
      /\ fd_events' = [fd_events EXCEPT ![i] = [fd |-> NoFd, revents |-> FALSE]]
  BY DEF Poll!RemoveConnection, Poll!IsListening, Poll!Close, Close, Poll!Forget, Forget
<1>2. /\ spc = "handle" /\ sending = NoFd /\ pos' = i + 1
      /\ i \in Places(slots) /\ i \in Nat /\ i # 0
      /\ fd_events[i].fd \in Fds /\ Polled(slots)[i] = fd_events[i].fd
      /\ files[fd_events[i].fd] \in Clients
      /\ Polled(slots) \in Tables(slots) /\ files \in FileTables
      /\ Exact(Polled(slots), files, slots)
  BY <1>1, PollVisited
<1>3. /\ KernelInv' /\ files' = [files EXCEPT ![fd_events[i].fd] = NoFile]
      /\ OthersStayReadable(files[fd_events[i].fd])
  BY <1>1, <1>2, CloseStep DEF PollInv
<1>4. fd_events \in [Places(slots) -> PollFds]
  BY DEF PollInv, PollTypes
<1>5. PollTypes(slots)'
  BY <1>1, <1>2, <1>4 DEF PollInv, PollTypes, PollFds
<1>6. Polled(slots)' = [Polled(slots) EXCEPT ![i] = NoFd]
  BY <1>1, <1>4 DEF Polled
<1>7. Exact(Polled(slots)', files', slots)
  <2>1. Exact([Polled(slots) EXCEPT ![i] = NoFd],
              [files EXCEPT ![Polled(slots)[i]] = NoFile], slots)
    BY <1>2, TableRemove
  <2>2. QED
    BY <1>2, <1>3, <1>6, <2>1
<1>8. PollTable(slots)'
  BY <1>1, <1>2, <1>7 DEF PollTable
<1>9. \A j \in Places(slots) : fd_events'[j] # fd_events[j] => ~fd_events'[j].revents
  BY <1>1, <1>4
<1>10. PollMarks(slots)'
  BY <1>1, <1>3, <1>9, PollOnward
<1>11. QED
  BY <1>3, <1>5, <1>8, <1>10 DEF PollInv

LEMMA PollHandler ==
    ASSUME NEW slots \in Nat \ {0}, PollInv(slots), Poll(slots)!HandlerEvent
    PROVE  PollInv(slots)'
<1> USE Numbers, PollNames
<1> SUFFICES ASSUME NEW i,
                    \/ Poll(slots)!AddConnection(i) \/ Poll(slots)!Refuse(i)
                    \/ Poll(slots)!AcceptError(i)
                    \/ Poll(slots)!ReadRequest(i) \/ Poll(slots)!RemoveConnection(i)
             PROVE  PollInv(slots)'
  BY PollSend DEF Poll!HandlerEvent
<1>1. sending \in Fds \cup {NoFd}
  BY DEF PollInv, PollTypes
<1>2. CASE Poll(slots)!AddConnection(i)
  <2>1. /\ Poll(slots)!Visit(i) /\ files[fd_events[i].fd] = Listening
        /\ UNCHANGED <<sending, spc>>
    BY <1>2 DEF Poll!AddConnection, Poll!IsListening
  <2>2. PICK new \in FreeFds, slot \in Poll(slots)!FreeSlots :
            /\ Poll(slots)!TcpAccepter(new)
            /\ fd_events' = [fd_events EXCEPT ![slot].fd = new]
    BY <1>2 DEF Poll!AddConnection
  <2>3. new \in Fds /\ slot \in Places(slots) \ {0} /\ fd_events[slot].fd = NoFd
    BY DEF FreeFds, Poll!FreeSlots
  <2>4. Accept(new)
    BY <2>2, <2>3 DEF Poll!TcpAccepter, Poll!Accept, Accept
  <2>5. QED
    BY <2>1, <2>2, <2>3, <2>4, PollAccept
<1>3. CASE Poll(slots)!Refuse(i)
  <2>1. /\ Poll(slots)!Visit(i) /\ files[fd_events[i].fd] = Listening
        /\ UNCHANGED <<sending, spc, fd_events>> /\ AcceptAndClose
    BY <1>3 DEF Poll!Refuse, Poll!IsListening, Poll!AcceptAndClose, AcceptAndClose,
                Poll!Forget, Forget
  <2>2. KernelInv' /\ UNCHANGED files /\ OthersStayReadable(files[fd_events[i].fd])
    BY <2>1, AcceptAndCloseStep DEF PollInv
  <2>3. QED
    BY <1>1, <2>1, <2>2, PollSameTable
<1>4. CASE Poll(slots)!AcceptError(i)
  <2>1. /\ Poll(slots)!Visit(i) /\ UNCHANGED <<kernelVars, fd_events, sending, spc>>
    BY <1>4 DEF Poll!AcceptError, Poll!TcpAccepter, Poll!kernelVars, kernelVars,
                Poll!connVars, connVars
  <2>2. KernelInv' /\ UNCHANGED files /\ OthersStayReadable(files[fd_events[i].fd])
    BY <2>1, KernelUntouched DEF PollInv, OthersStayReadable
  <2>3. QED
    BY <1>1, <2>1, <2>2, PollSameTable
<1>5. CASE Poll(slots)!ReadRequest(i)
  <2>1. /\ Poll(slots)!Visit(i) /\ files[fd_events[i].fd] # Listening
        /\ sending' = fd_events[i].fd /\ UNCHANGED <<fd_events, spc>>
    BY <1>5 DEF Poll!ReadRequest, Poll!IsListening
  <2>2. Recv(fd_events[i].fd)
    BY <1>5 DEF Poll!ReadRequest, Poll!Recv, Recv
  <2>3. fd_events[i].fd \in Fds /\ files[fd_events[i].fd] \in Clients
    BY <2>1, PollVisited
  <2>4. KernelInv' /\ UNCHANGED files /\ OthersStayReadable(files[fd_events[i].fd])
    BY <2>2, <2>3, RecvStep DEF PollInv
  <2>5. QED
    BY <2>1, <2>3, <2>4, PollSameTable
<1>6. CASE Poll(slots)!RemoveConnection(i)
  BY <1>6, PollRemove
<1>7. QED
  BY <1>2, <1>3, <1>4, <1>5, <1>6

LEMMA PollNext ==
    ASSUME NEW slots \in Nat \ {0}, PollInv(slots),
           Poll(slots)!Next \/ UNCHANGED Poll(slots)!vars
    PROVE  PollInv(slots)'
<1>1. CASE UNCHANGED Poll(slots)!vars
  <2>1. UNCHANGED <<kernelVars, fd_events, pos, sending, spc>>
    BY <1>1 DEF Poll!vars, Poll!kernelVars, kernelVars, Poll!connVars, connVars,
                Poll!serverVars
  <2>2. KernelInv' /\ UNCHANGED files /\ \A fd \in Fds : Readable(fd)' <=> Readable(fd)
    BY <2>1, KernelUntouched DEF PollInv
  <2>3. \A i \in Places(slots) : fd_events[i].fd \in Fds \cup {NoFd}
    BY DEF PollInv, PollTypes, PollFds
  <2>4. PollMarks(slots)'
    BY <2>1, <2>2, <2>3 DEF PollInv, PollMarks
  <2>5. QED
    BY <2>1, <2>2, <2>4 DEF PollInv, PollTypes, PollTable, OnlySocket, Polled
<1>2. CASE Poll(slots)!ClientStep /\ UNCHANGED Poll(slots)!serverVars
  BY <1>2, PollNames, PollClient
     DEF Poll!ClientStep, ClientStep, Poll!Connect, Connect, Poll!SendRequest,
         SendRequest, Poll!ReadAnswer, ReadAnswer, Poll!CloseClient, CloseClient, Poll!Reset, Reset, Poll!serverVars,
         Poll!Connected, Connected, Poll!Accepted, Accepted
<1>3. CASE Poll(slots)!ServerStep
  BY <1>3, PollStart, PollLoop, PollHandler DEF Poll!ServerStep
<1>4. QED
  BY <1>1, <1>2, <1>3 DEF Poll!Next

\* What the invariant says of the table and of what the walk is about to call.
LEMMA PollSafe ==
    ASSUME NEW slots \in Nat \ {0}, PollInv(slots)
    PROVE  Poll(slots)!TableExact /\ Poll(slots)!NeverBlocks
<1> USE Numbers, PollNames
<1>1. Poll(slots)!NeverBlocks
  <2>1. ASSUME NEW i \in Poll(slots)!ToHandle
        PROVE  i \in Places(slots) /\ i >= pos /\ fd_events[i].revents
    BY DEF Poll!ToHandle, PollInv, PollTypes, Places
  <2>2. QED
    BY <2>1 DEF PollInv, PollMarks, Poll!NeverBlocks
<1>2. CASE spc \in {"start", "exited"}
  BY <1>1, <1>2 DEF PollInv, PollTable, Poll!TableExact, Poll!Watched
<1>3. CASE spc \notin {"start", "exited"}
  <2>1. Exact(Polled(slots), files, slots) /\ Polled(slots) \in Tables(slots)
    BY <1>3 DEF PollInv, PollTable, PollTypes, PollFds, Polled, Tables
  <2>2. \A i \in Places(slots) : Polled(slots)[i] = fd_events[i].fd
    BY DEF Polled
  <2>3. Poll(slots)!Watched = {Polled(slots)[i] : i \in Places(slots)} \ {NoFd}
    BY <2>2 DEF Poll!Watched
  <2>4. Poll(slots)!Watched = OpenFds
    BY <2>1, <2>3, TableEntries DEF OpenFds
  <2>5. QED
    BY <1>1, <1>3, <2>1, <2>2, <2>4 DEF Exact, Poll!TableExact
<1>4. QED
  BY <1>2, <1>3

-----------------------------------------------------------------------------
(* The epoll server, with its handlers or without, for any room for events *)

EpollTypes ==
    /\ interest \in SUBSET Fds
    /\ unwatched \in SUBSET Fds
    /\ revs \in SUBSET Fds
    /\ sending \in Fds \cup {NoFd} /\ (sending # NoFd => spc = "handle")
    /\ spc \in {"start", "created", "wait", "handle", "exited", "killed"}

\* From InitServer on the set has every open descriptor that epoll_ctl has not failed
\* to add, and nothing else; without the handlers nothing is ever accepted.
EpollSet(handled) ==
    /\ spc \in {"start", "created", "exited"} =>
           OnlySocket /\ interest = {} /\ unwatched = {} /\ revs = {}
    /\ spc = "created" => listensock = "listening"
    /\ spc \in {"wait", "handle", "killed"} =>
           /\ FirstFd \in interest
           /\ \A fd \in Fds : fd \in interest <=> files[fd] # NoFile /\ fd \notin unwatched
           /\ \A fd \in unwatched : files[fd] # NoFile
    /\ handled \/ (OnlySocket /\ spc # "handle")

\* Every event that is still to come is one of a descriptor that is watched and readable.
EpollMarks == spc = "handle" => revs \subseteq interest /\ \A fd \in revs : Readable(fd)

EpollInv(handled) == KernelInv /\ EpollTypes /\ EpollSet(handled) /\ EpollMarks

\* The epoll server's names for the kernel's operators.
LEMMA EpollNames ==
    ASSUME NEW room, NEW handled
    PROVE  /\ Epoll(room, handled)!Fds = Fds /\ Epoll(room, handled)!NoFd = NoFd
           /\ Epoll(room, handled)!OpenFds = OpenFds
           /\ Epoll(room, handled)!FreeFds = FreeFds
           /\ \A fd : Epoll(room, handled)!Readable(fd) <=> Readable(fd)
BY DEF Epoll!Fds, Fds, Epoll!NoFd, NoFd, Epoll!OpenFds, OpenFds, Epoll!FreeFds, FreeFds,
       Epoll!Readable, Readable

LEMMA EpollInit ==
    ASSUME NEW room, NEW handled \in BOOLEAN, Epoll(room, handled)!Init
    PROVE  EpollInv(handled)
<1>1. KernelInv
  BY KernelStart
     DEF Epoll!Init, Epoll!KernelInit, KernelInit, Epoll!Fds, Fds
<1>2. OnlySocket /\ interest = {} /\ unwatched = {} /\ revs = {} /\ sending = NoFd /\ spc = "start"
  BY EpollNames DEF Epoll!Init, Epoll!KernelInit, OnlySocket
<1>3. QED
  BY <1>1, <1>2 DEF EpollInv, EpollTypes, EpollSet, EpollMarks

\* The steps before the first epoll_wait.
LEMMA EpollStart ==
    ASSUME NEW room, NEW handled \in BOOLEAN, EpollInv(handled),
           \/ Epoll(room, handled)!BuildListenSocket \/ Epoll(room, handled)!EpollCreate
           \/ Epoll(room, handled)!InitServer
    PROVE  EpollInv(handled)'
<1> USE Numbers, EpollNames
<1>1. CASE Epoll(room, handled)!BuildListenSocket
  <2>1. /\ spc = "start" /\ spc' \in {"start", "exited"}
        /\ UNCHANGED <<interest, unwatched, revs, sending>>
    BY <1>1 DEF Epoll!BuildListenSocket, Epoll!CreateSocketOrDie,
           Epoll!CreateBindOrDie, Epoll!CreateListenOrDie, Epoll!Die
  <2>2. OpenSocket \/ Bind \/ Listen \/ UNCHANGED kernelVars
    BY <1>1 DEF Epoll!BuildListenSocket, Epoll!CreateSocketOrDie, Epoll!CreateBindOrDie,
           Epoll!CreateListenOrDie, Epoll!Die, Epoll!OpenSocket, OpenSocket,
           Epoll!Bind, Bind, Epoll!Listen, Listen, Epoll!kernelVars, kernelVars,
           Epoll!connVars, connVars
  <2>3. OnlySocket /\ interest = {} /\ unwatched = {} /\ revs = {} /\ sending = NoFd
    BY <2>1 DEF EpollInv, EpollSet, EpollTypes
  <2>4. KernelInv' /\ OnlySocket'
    BY <2>2, <2>3, SocketSteps, KernelUntouched DEF EpollInv, OnlySocket
  <2>5. QED
    BY <2>1, <2>3, <2>4 DEF EpollInv, EpollTypes, EpollSet, EpollMarks
<1>2. CASE Epoll(room, handled)!EpollCreate \/ Epoll(room, handled)!InitServer
  <2>1. /\ UNCHANGED <<kernelVars, unwatched, revs, sending>>
        /\ \/ /\ spc = "start" /\ listensock = "listening" /\ UNCHANGED interest
              /\ spc' \in {"created", "exited"}
           \/ spc = "created" /\ interest' = {FirstFd} /\ spc' = "wait"
           \/ spc = "created" /\ UNCHANGED interest /\ spc' = "exited"
    BY <1>2 DEF Epoll!EpollCreate, Epoll!InitServer, Epoll!kernelVars, kernelVars,
                Epoll!connVars, connVars
  <2>2. KernelInv' /\ UNCHANGED <<files, listensock>>
    BY <2>1, KernelUntouched DEF EpollInv
  <2>3. OnlySocket /\ interest = {} /\ unwatched = {} /\ revs = {} /\ sending = NoFd
    BY <2>1 DEF EpollInv, EpollSet, EpollTypes
  <2>4. files[FirstFd] = Listening
    BY <2>1 DEF EpollInv, EpollSet, KernelInv, OneListening
  <2>5. EpollTypes'
    BY <2>1, <2>3 DEF EpollInv, EpollTypes
  <2>6. EpollSet(handled)'
    BY <2>1, <2>2, <2>3, <2>4 DEF EpollSet, OnlySocket
  <2>7. QED
    BY <2>1, <2>2, <2>5, <2>6 DEF EpollInv, EpollMarks
<1>3. QED
  BY <1>1, <1>2

\* epoll_wait, and the end of the events.
LEMMA EpollLoop ==
    ASSUME NEW room, NEW handled \in BOOLEAN, EpollInv(handled),
           Epoll(room, handled)!EpollWait \/ Epoll(room, handled)!EndOfEvents
    PROVE  EpollInv(handled)'
<1> USE Numbers, EpollNames
<1>1. /\ spc \in {"wait", "handle"} /\ UNCHANGED <<kernelVars, interest, unwatched, sending>>
      /\ sending = NoFd
      /\ \/ handled /\ spc' = "handle" /\ revs' \subseteq Epoll(room, handled)!Ready
         \/ spc' = "wait" /\ UNCHANGED revs
  <2>1. CASE Epoll(room, handled)!EpollWait
    <3>1. /\ spc = "wait" /\ UNCHANGED <<kernelVars, interest, unwatched, sending>>
      BY <2>1 DEF Epoll!EpollWait, Epoll!kernelVars, kernelVars, Epoll!connVars, connVars
    <3>2. \/ handled /\ spc' = "handle" /\ revs' \in SUBSET Epoll(room, handled)!Ready
          \/ UNCHANGED <<revs, spc>>
      BY <2>1 DEF Epoll!EpollWait
    <3>3. QED
      BY <3>1, <3>2 DEF EpollInv, EpollTypes
  <2>2. CASE Epoll(room, handled)!EndOfEvents
    BY <2>2 DEF Epoll!EndOfEvents, Epoll!kernelVars, kernelVars, Epoll!connVars, connVars
  <2>3. QED
    BY <2>1, <2>2
<1>2. \A fd \in Epoll(room, handled)!Ready : fd \in interest /\ fd \in Fds /\ Readable(fd)
  BY DEF Epoll!Ready, EpollInv, EpollTypes
<1>3. /\ KernelInv' /\ UNCHANGED <<files, listensock>>
      /\ \A fd \in Fds : Readable(fd)' <=> Readable(fd)
  BY <1>1, KernelUntouched DEF EpollInv
<1>4. EpollTypes'
  BY <1>1, <1>2 DEF EpollInv, EpollTypes
<1>5. EpollSet(handled)'
  BY <1>1, <1>3 DEF EpollInv, EpollSet, OnlySocket
<1>6. EpollMarks'
  BY <1>1, <1>2, <1>3 DEF EpollMarks
<1>7. QED
  BY <1>3, <1>4, <1>5, <1>6 DEF EpollInv

\* A client's step between two calls of the server.
LEMMA EpollClient ==
    ASSUME NEW handled \in BOOLEAN, EpollInv(handled), ClientStep,
           UNCHANGED <<interest, unwatched, revs, sending, spc>>
    PROVE  EpollInv(handled)'
<1>1. /\ KernelInv' /\ UNCHANGED <<files, listensock>>
      /\ \A fd \in Fds : Readable(fd) => Readable(fd)'
  BY ClientSteps DEF EpollInv
<1>2. EpollTypes' /\ EpollSet(handled)'
  BY <1>1 DEF EpollInv, EpollTypes, EpollSet, OnlySocket
<1>3. EpollMarks'
  BY <1>1 DEF EpollInv, EpollTypes, EpollMarks
<1>4. QED
  BY <1>1, <1>2, <1>3 DEF EpollInv

\* A handler keeps every event readable that is still to come, whatever their order.
LEMMA EpollOnward ==
    ASSUME NEW room, NEW handled \in BOOLEAN, EpollInv(handled), NEW fd,
           Epoll(room, handled)!Visit(fd)
    PROVE  /\ handled /\ spc = "handle" /\ sending = NoFd /\ revs' = revs \ {fd}
           /\ fd \in Fds /\ fd \in interest /\ FirstFd \in interest
           /\ files[FirstFd] = Listening
           /\ files[fd] = Listening => fd = FirstFd
           /\ OthersStayReadable(files[fd]) => \A other \in revs' : Readable(other)'
<1> USE Numbers, EpollNames
<1>1. spc = "handle" /\ sending = NoFd /\ fd \in revs /\ revs' = revs \ {fd}
  BY DEF Epoll!Visit
<1>2. handled /\ fd \in Fds /\ FirstFd \in interest /\ revs \in SUBSET Fds /\ fd \in interest
  BY <1>1 DEF EpollInv, EpollSet, EpollTypes, EpollMarks
<1>3. files[FirstFd] = Listening
  BY <1>1, <1>2 DEF EpollInv, EpollSet, KernelInv, OneListening
<1>4. \A other \in revs : Readable(other)
  BY <1>1 DEF EpollInv, EpollMarks
<1>5. files[fd] = Listening => fd = FirstFd
  BY <1>2 DEF EpollInv, KernelInv, OneListening
<1>6. ASSUME OthersStayReadable(files[fd]), NEW other \in revs \ {fd}
      PROVE  Readable(other)'
  <2>1. other \in Fds /\ Readable(other)
    BY <1>2, <1>4, <1>6
  <2>2. files[fd] = Listening \/ files[fd] \in Clients
    BY <1>1, <1>4 DEF Readable
  <2>3. files[other] # files[fd]
    BY <1>2, <1>6, <2>1, <2>2 DEF EpollInv, KernelInv, OneConnection, OneListening
  <2>4. QED
    BY <1>6, <2>1, <2>3 DEF OthersStayReadable
<1>7. QED
  BY <1>1, <1>2, <1>3, <1>5, <1>6

\* A handler that leaves the epoll set alone: an accept that has failed, and the recv of
\* a request.
LEMMA EpollSameSet ==
    ASSUME NEW room, NEW handled \in BOOLEAN, EpollInv(handled), NEW fd,
           Epoll(room, handled)!Visit(fd),
           UNCHANGED <<interest, unwatched, spc, listensock, files>>,
           sending' \in Fds \cup {NoFd},
           KernelInv', OthersStayReadable(files[fd])
    PROVE  EpollInv(handled)'
<1>1. /\ spc = "handle" /\ revs' = revs \ {fd}
      /\ \A other \in revs' : Readable(other)'
  BY EpollOnward
<1>2. EpollTypes'
  BY <1>1 DEF EpollInv, EpollTypes
<1>3. EpollSet(handled)'
  BY <1>1 DEF EpollInv, EpollSet, OnlySocket
<1>4. EpollMarks'
  BY <1>1 DEF EpollInv, EpollMarks
<1>5. QED
  BY <1>2, <1>3, <1>4 DEF EpollInv

\* Accepter: the new descriptor was free, so neither watched nor left out.
LEMMA EpollAccept ==
    ASSUME NEW room, NEW handled \in BOOLEAN, EpollInv(handled), NEW fd,
           Epoll(room, handled)!Accepter(fd)
    PROVE  EpollInv(handled)'
<1> USE Numbers
<1>1. /\ Epoll(room, handled)!Visit(fd) /\ files[fd] = Listening /\ UNCHANGED <<sending, spc>>
  BY DEF Epoll!Accepter
<1>2. PICK new \in FreeFds :
          /\ Epoll(room, handled)!TcpAccepter(new)
          /\ \/ interest' = interest \cup {new} /\ UNCHANGED unwatched
             \/ unwatched' = unwatched \cup {new} /\ UNCHANGED interest
  BY EpollNames DEF Epoll!Accepter
<1>3. new \in Fds /\ Accept(new)
  BY <1>2, EpollNames DEF FreeFds, OpenFds, Epoll!TcpAccepter, Epoll!Accept, Accept
<1>4. /\ handled /\ spc = "handle" /\ revs' = revs \ {fd}
      /\ FirstFd \in interest /\ files[FirstFd] = Listening
      /\ OthersStayReadable(files[fd]) => \A other \in revs' : Readable(other)'
  <2>1. Epoll(room, handled)!Visit(fd)
    BY <1>1
  <2>2. QED
    BY ONLY handled \in BOOLEAN, EpollInv(handled), <2>1, EpollOnward
<1>5. KernelInv' /\ files[new] = NoFile /\ OthersStayReadable(Listening)
  BY <1>3, <1>4, AcceptStep DEF EpollInv
<1>6. PICK c \in Clients : files' = [files EXCEPT ![new] = c]
  BY <1>3, <1>4, AcceptStep DEF EpollInv
<1>7. /\ files'[new] = c /\ c # NoFile
      /\ \A other \in Fds \ {new} : files'[other] = files[other]
  BY <1>3, <1>6 DEF EpollInv, KernelInv, KernelTypes
<1>8. /\ \A other \in Fds : other \in interest <=> files[other] # NoFile /\ other \notin unwatched
      /\ \A other \in unwatched : files[other] # NoFile
      /\ interest \in SUBSET Fds /\ unwatched \in SUBSET Fds /\ revs \subseteq interest
  BY <1>4 DEF EpollInv, EpollSet, EpollTypes, EpollMarks
<1>9. new \notin interest /\ new \notin unwatched
  BY <1>3, <1>5, <1>8
<1>10. EpollTypes'
  BY <1>1, <1>2, <1>3, <1>4, <1>8 DEF EpollInv, EpollTypes
<1>11. \A other \in Fds :
           other \in interest' <=> files'[other] # NoFile /\ other \notin unwatched'
  BY <1>2, <1>7, <1>8, <1>9
<1>12. \A other \in unwatched' : files'[other] # NoFile
  BY <1>2, <1>3, <1>7, <1>8
<1>13. EpollSet(handled)'
  BY <1>1, <1>2, <1>4, <1>11, <1>12 DEF EpollSet
<1>14. EpollMarks'
  BY <1>1, <1>2, <1>4, <1>5, <1>8 DEF EpollMarks
<1>15. QED
  BY <1>5, <1>10, <1>13, <1>14 DEF EpollInv

\* HandlerIO has met the end of the connection, which it takes out of the set and closes.
LEMMA EpollRemove ==
    ASSUME NEW room, NEW handled \in BOOLEAN, EpollInv(handled), NEW fd,
           Epoll(room, handled)!RemoveConnection(fd)
    PROVE  EpollInv(handled)'
<1> USE Numbers
<1>1. /\ Epoll(room, handled)!Visit(fd) /\ files[fd] \in Clients /\ Close(fd)
      /\ interest' = interest \ {fd} /\ UNCHANGED <<unwatched, sending, spc>>
  BY DEF Epoll!RemoveConnection, Epoll!Close, Close, Epoll!Forget, Forget
<1>2. /\ handled /\ spc = "handle" /\ revs' = revs \ {fd} /\ fd \in Fds /\ fd \in interest
      /\ FirstFd \in interest /\ files[FirstFd] = Listening
      /\ OthersStayReadable(files[fd]) => \A other \in revs' : Readable(other)'
  <2>1. Epoll(room, handled)!Visit(fd)
    BY <1>1
  <2>2. QED
    BY ONLY handled \in BOOLEAN, EpollInv(handled), <2>1, EpollOnward
<1>3. /\ KernelInv' /\ files' = [files EXCEPT ![fd] = NoFile]
      /\ OthersStayReadable(files[fd])
  BY <1>1, <1>2, CloseStep DEF EpollInv
<1>4. files'[fd] = NoFile /\ \A other \in Fds \ {fd} : files'[other] = files[other]
  BY <1>2, <1>3 DEF EpollInv, KernelInv, KernelTypes
<1>5. /\ \A other \in Fds : other \in interest <=> files[other] # NoFile /\ other \notin unwatched
      /\ \A other \in unwatched : files[other] # NoFile
      /\ interest \in SUBSET Fds /\ unwatched \in SUBSET Fds /\ revs \subseteq interest
  BY <1>2 DEF EpollInv, EpollSet, EpollTypes, EpollMarks
<1>6. fd \notin unwatched /\ fd # FirstFd
  BY <1>1, <1>2, <1>5
<1>7. EpollTypes'
  BY <1>1, <1>2, <1>5 DEF EpollInv, EpollTypes
<1>8. \A other \in Fds :
          other \in interest' <=> files'[other] # NoFile /\ other \notin unwatched'
  BY <1>1, <1>4, <1>5
<1>9. \A other \in unwatched' : files'[other] # NoFile
  BY <1>1, <1>4, <1>5, <1>6
<1>10. EpollSet(handled)'
  BY <1>1, <1>2, <1>6, <1>8, <1>9 DEF EpollSet
<1>11. EpollMarks'
  BY <1>1, <1>2, <1>3, <1>5 DEF EpollMarks
<1>12. QED
  BY <1>3, <1>7, <1>10, <1>11 DEF EpollInv

\* The answer is sent or refused, which may end the process.
LEMMA EpollSend ==
    ASSUME NEW room, NEW handled \in BOOLEAN, EpollInv(handled), Epoll(room, handled)!Send
    PROVE  EpollInv(handled)'
<1> USE Numbers, EpollNames
<1>1. /\ sending # NoFd /\ sending' = NoFd /\ UNCHANGED <<interest, unwatched, revs>>
      /\ spc' \in {spc, "killed"}
  BY DEF Epoll!Send
<1>2. SendAnswer(sending) \/ SendError(sending)
  BY DEF Epoll!Send, Epoll!SendAnswer, SendAnswer, Epoll!SendError, SendError,
         Epoll!kernelVars, kernelVars, Epoll!connVars, connVars
<1>3. /\ KernelInv' /\ UNCHANGED <<listensock, files>>
      /\ \A fd \in Fds : Readable(fd)' <=> Readable(fd)
  BY <1>2, SendStep DEF EpollInv
<1>4. spc = "handle" /\ spc' \in {"handle", "killed"}
  BY <1>1 DEF EpollInv, EpollTypes
<1>5. EpollTypes'
  BY <1>1, <1>4 DEF EpollInv, EpollTypes
<1>6. EpollSet(handled)'
  BY <1>1, <1>3, <1>4 DEF EpollInv, EpollSet, OnlySocket
<1>7. EpollMarks'
  BY <1>1, <1>3, <1>4 DEF EpollInv, EpollTypes, EpollMarks
<1>8. QED
  BY <1>3, <1>5, <1>6, <1>7 DEF EpollInv

LEMMA EpollHandler ==
    ASSUME NEW room, NEW handled \in BOOLEAN, EpollInv(handled),
           Epoll(room, handled)!HandlerEvent
    PROVE  EpollInv(handled)'
<1> USE Numbers, EpollNames
<1> SUFFICES ASSUME NEW fd, Epoll(room, handled)!AcceptError(fd)
                            \/ Epoll(room, handled)!ReadRequest(fd)
             PROVE  EpollInv(handled)'
  BY EpollAccept, EpollRemove, EpollSend DEF Epoll!HandlerEvent
<1>1. Epoll(room, handled)!Visit(fd)
  BY DEF Epoll!AcceptError, Epoll!ReadRequest
<1>2. fd \in Fds
  BY <1>1, EpollOnward
<1>3. sending \in Fds \cup {NoFd}
  BY DEF EpollInv, EpollTypes
<1>4. CASE Epoll(room, handled)!AcceptError(fd)
  <2>1. UNCHANGED <<kernelVars, interest, unwatched, sending, spc>>
    BY <1>4 DEF Epoll!AcceptError, Epoll!TcpAccepter, Epoll!kernelVars, kernelVars,
                Epoll!connVars, connVars
  <2>2. KernelInv' /\ UNCHANGED <<listensock, files>> /\ OthersStayReadable(files[fd])
    BY <2>1, KernelUntouched DEF EpollInv, OthersStayReadable
  <2>3. QED
    BY <1>1, <1>3, <2>1, <2>2, EpollSameSet
<1>5. CASE Epoll(room, handled)!ReadRequest(fd)
  <2>1. /\ files[fd] \in Clients /\ sending' = fd /\ UNCHANGED <<interest, unwatched, spc>>
    BY <1>5 DEF Epoll!ReadRequest
  <2>2. Recv(fd)
    BY <1>5 DEF Epoll!ReadRequest, Epoll!Recv, Recv
  <2>3. KernelInv' /\ UNCHANGED <<listensock, files>> /\ OthersStayReadable(files[fd])
    BY <1>2, <2>1, <2>2, RecvStep DEF EpollInv, Recv
  <2>4. QED
    BY <1>1, <1>2, <2>1, <2>3, EpollSameSet
<1>6. QED
  BY <1>4, <1>5

LEMMA EpollNext ==
    ASSUME NEW room, NEW handled \in BOOLEAN, EpollInv(handled),
           Epoll(room, handled)!Next \/ UNCHANGED Epoll(room, handled)!vars
    PROVE  EpollInv(handled)'
<1>1. CASE UNCHANGED Epoll(room, handled)!vars
  <2>1. UNCHANGED <<kernelVars, interest, unwatched, revs, sending, spc>>
    BY <1>1 DEF Epoll!vars, Epoll!kernelVars, kernelVars, Epoll!connVars, connVars,
                Epoll!serverVars
  <2>2. /\ KernelInv' /\ UNCHANGED <<files, listensock>>
        /\ \A fd \in Fds : Readable(fd)' <=> Readable(fd)
    BY <2>1, KernelUntouched DEF EpollInv
  <2>3. EpollMarks'
    BY <2>1, <2>2 DEF EpollInv, EpollTypes, EpollMarks
  <2>4. QED
    BY <2>1, <2>2, <2>3 DEF EpollInv, EpollTypes, EpollSet, OnlySocket
<1>2. CASE Epoll(room, handled)!ClientStep /\ UNCHANGED Epoll(room, handled)!serverVars
  BY <1>2, EpollNames, EpollClient
     DEF Epoll!ClientStep, ClientStep, Epoll!Connect, Connect, Epoll!SendRequest,
         SendRequest, Epoll!ReadAnswer, ReadAnswer, Epoll!CloseClient, CloseClient,
         Epoll!Reset, Reset, Epoll!serverVars,
         Epoll!Connected, Connected, Epoll!Accepted, Accepted
<1>3. CASE Epoll(room, handled)!ServerStep
  BY <1>3, EpollStart, EpollLoop, EpollHandler DEF Epoll!ServerStep
<1>4. QED
  BY <1>1, <1>2, <1>3 DEF Epoll!Next

LEMMA EpollSafe ==
    ASSUME NEW room, NEW handled \in BOOLEAN, EpollInv(handled)
    PROVE  Epoll(room, handled)!TableExact /\ Epoll(room, handled)!NeverBlocks
<1> USE Numbers, EpollNames
<1>1. Epoll(room, handled)!NeverBlocks
  BY DEF EpollInv, EpollTypes, EpollMarks, Epoll!NeverBlocks
<1>2. unwatched \subseteq OpenFds /\ (handled \/ OpenFds \subseteq {FirstFd})
  BY DEF EpollInv, EpollTypes, EpollSet, OnlySocket, OpenFds
<1>3. interest = IF spc \in {"start", "created", "exited"} THEN {} ELSE OpenFds \ unwatched
  <2>1. CASE spc \in {"start", "created", "exited"}
    BY <2>1 DEF EpollInv, EpollSet
  <2>2. CASE spc \notin {"start", "created", "exited"}
    <3>1. \A fd \in Fds : fd \in interest <=> files[fd] # NoFile /\ fd \notin unwatched
      BY <2>2 DEF EpollInv, EpollTypes, EpollSet
    <3>2. interest \in SUBSET Fds
      BY DEF EpollInv, EpollTypes
    <3>3. QED
      BY <2>2, <3>1, <3>2 DEF OpenFds
  <2>3. QED
    BY <2>1, <2>2
<1>4. QED
  BY <1>1, <1>2, <1>3 DEF Epoll!TableExact

-----------------------------------------------------------------------------
(* The servers together                                                    *)

\* A behaviour is one of a single server, and its invariant holds.
IInv ==
    \/ server = "select" /\ SelectInv
    \/ server = "poll" /\ PollInv(PollSlots)
    \/ server = "small" /\ PollInv(SmallSlots)
    \/ server \in {"epoll", "narrow"} /\ EpollInv(TRUE)
    \/ server = "idle" /\ EpollInv(FALSE)

LEMMA Slots == PollSlots \in Nat \ {0} /\ SmallSlots \in Nat \ {0}
BY EventServersAssumption DEF Poll!PollAssumption

LEMMA InitIInv == Init => IInv
BY Slots, SelectInit, PollInit, EpollInit DEF Init, IInv

LEMMA NextIInv == IInv /\ [Next]_vars => IInv'
<1> SUFFICES ASSUME IInv, [Next]_vars PROVE IInv'
  OBVIOUS
<1>1. UNCHANGED server
  BY DEF Next, vars
<1>2. CASE server = "select" /\ SelectInv
  <2>1. [Select!Next]_Select!vars
    BY <1>2 DEF Next, vars, kernelVars, connVars, Select!vars, Select!kernelVars,
                Select!connVars, Select!serverVars
  <2>2. QED
    BY <1>1, <1>2, <2>1, SelectNext DEF IInv
<1>3. CASE server = "poll" /\ PollInv(PollSlots)
  <2>1. Poll(PollSlots)!Next \/ UNCHANGED Poll(PollSlots)!vars
    BY <1>3 DEF Next, vars, kernelVars, connVars, Poll!vars, Poll!kernelVars,
                Poll!connVars, Poll!serverVars
  <2>2. PollInv(PollSlots)'
    BY <1>3, <2>1, Slots, PollNext
  <2>3. QED
    BY <1>1, <1>3, <2>2 DEF IInv
<1>4. CASE server = "small" /\ PollInv(SmallSlots)
  <2>1. Poll(SmallSlots)!Next \/ UNCHANGED Poll(SmallSlots)!vars
    BY <1>4 DEF Next, vars, kernelVars, connVars, Poll!vars, Poll!kernelVars,
                Poll!connVars, Poll!serverVars
  <2>2. PollInv(SmallSlots)'
    BY <1>4, <2>1, Slots, PollNext
  <2>3. QED
    BY <1>1, <1>4, <2>2 DEF IInv
<1>5. CASE server \in {"epoll", "narrow"} /\ EpollInv(TRUE)
  <2>1. PICK room \in {EpollEvents, FewEvents} :
            Epoll(room, TRUE)!Next \/ UNCHANGED Epoll(room, TRUE)!vars
    BY <1>5 DEF Next, vars, kernelVars, connVars, Epoll!vars, Epoll!kernelVars,
                Epoll!connVars, Epoll!serverVars
  <2>2. EpollInv(TRUE)'
    BY <1>5, <2>1, EpollNext
  <2>3. QED
    BY <1>1, <1>5, <2>2 DEF IInv
<1>6. CASE server = "idle" /\ EpollInv(FALSE)
  <2>1. Epoll(EpollEvents, FALSE)!Next \/ UNCHANGED Epoll(EpollEvents, FALSE)!vars
    BY <1>6 DEF Next, vars, kernelVars, connVars, Epoll!vars, Epoll!kernelVars,
                Epoll!connVars, Epoll!serverVars
  <2>2. EpollInv(FALSE)'
    BY <1>6, <2>1, Slots, EpollNext
  <2>3. QED
    BY <1>1, <1>6, <2>2 DEF IInv
<1>7. QED
  BY <1>2, <1>3, <1>4, <1>5, <1>6 DEF IInv

LEMMA Invariance == FairSpec => []IInv
BY InitIInv, NextIInv, PTL DEF FairSpec

\* Accepter and HandlerIO of all three servers keep their table, or epoll set, exact:
\* every open descriptor is watched, in one slot, and none that is closed.  It holds for
\* the poll server whatever its table's size, so when it is full, and for the select
\* server while descriptor numbers fit into an fd_set (SelectAssumption).  The epoll set
\* is exactly the open descriptors without those whose epoll_ctl has failed, whatever
\* the room for events (EpollServer.hpp:71 and 98-108).
THEOREM TablesExact == FairSpec => []TableExact
<1>1. IInv => TableExact
  BY Slots, SelectSafe, PollSafe, EpollSafe DEF IInv, TableExact
<1>2. QED
  BY <1>1, Invariance, PTL

\* However long ago select, poll or epoll_wait returned, and whatever the walk has
\* accepted and closed since, accept and recv are only called on what is readable.
THEOREM NobodyBlocks == FairSpec => []NeverBlocks
<1>1. IInv => NeverBlocks
  BY Slots, SelectSafe, PollSafe, EpollSafe DEF IInv, NeverBlocks
<1>2. QED
  BY <1>1, Invariance, PTL

\* The same for a select server by itself.
THEOREM SelectServerExact == Select!Spec => [](Select!TableExact /\ Select!NeverBlocks)
<1>1. Select!Init => SelectInv
  BY SelectInit
<1>2. SelectInv /\ [Select!Next]_Select!vars => SelectInv'
  BY SelectNext
<1>3. QED
  BY <1>1, <1>2, SelectSafe, PTL DEF Select!Spec

\* The same for a poll server by itself, whatever the size of its table: full or not,
\* it keeps no connection it does not watch (PollServer.hpp:46-63).
THEOREM PollServerExact ==
    ASSUME NEW CONSTANT slots \in Nat \ {0}
    PROVE  Poll(slots)!Spec => [](Poll(slots)!TableExact /\ Poll(slots)!NeverBlocks)
<1>1. Poll(slots)!Init => PollInv(slots)
  BY PollInit
<1>2. PollInv(slots) /\ [Poll(slots)!Next]_(Poll(slots)!vars) => PollInv(slots)'
  BY PollNext
<1>3. PollInv(slots) => Poll(slots)!TableExact /\ Poll(slots)!NeverBlocks
  BY PollSafe
<1>4. QED
  BY <1>1, <1>2, <1>3, PTL DEF Poll!Spec

\* The same for an epoll server by itself, whatever the room for its events, as
\* committed and with its handlers: its set has lost no open descriptor but those
\* epoll_ctl has failed to add, and none that is closed.
THEOREM EpollServerExact ==
    ASSUME NEW CONSTANT room \in Nat \ {0}, NEW CONSTANT handled \in BOOLEAN
    PROVE  Epoll(room, handled)!Spec =>
               [](Epoll(room, handled)!TableExact /\ Epoll(room, handled)!NeverBlocks)
<1>1. Epoll(room, handled)!Init => EpollInv(handled)
  BY EpollInit
<1>2. EpollInv(handled) /\ [Epoll(room, handled)!Next]_(Epoll(room, handled)!vars)
          => EpollInv(handled)'
  BY EpollNext
<1>3. EpollInv(handled) =>
          Epoll(room, handled)!TableExact /\ Epoll(room, handled)!NeverBlocks
  BY EpollSafe
<1>4. QED
  BY <1>1, <1>2, <1>3, PTL DEF Epoll!Spec
=============================================================================
