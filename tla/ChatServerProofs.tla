--------------------------- MODULE ChatServerProofs ---------------------------
(***************************************************************************)
(* Theorems about the UDP chat server of Socket/3. chat_server, for any    *)
(* users, messages and workers: the list of online users is what the       *)
(* messages received say, the server uses its thread pool as the pool      *)
(* expects, so that whatever is proved of ThreadPool holds of it, messages *)
(* overtake each other no further than the number of workers, and each is  *)
(* sent to those who are online when it is forwarded.                      *)
(***************************************************************************)
EXTENDS ChatServer, SequenceTheorems, FiniteSetTheorems, TLAPS

ServerPlaces == {"socket", "bind", "exited", "recv", "check", "offline", "enqueue", "pool"}

Types ==
    /\ network \in SUBSET Messages /\ unsent \in SUBSET Messages
    /\ spc \in ServerPlaces
    /\ spc \in {"check", "offline", "enqueue"} => current \in Messages
    /\ online \in Seq(Users)
    /\ received \in Seq(Messages)

On(u) == \E n \in DOMAIN online : online[n] = u

\* In Forward the last message is the current one; Forward is about to settle the
\* place of its sender in the list, and all others have theirs.
InForward ==
    /\ spc \in {"socket", "bind", "exited"} => online = <<>> /\ received = <<>>
    /\ spc \in {"check", "offline"} =>
          /\ received # <<>> /\ received[Len(received)] = current
          /\ \A u \in Users \ {Sender[current]} : On(u) <=> Stays(u)
    /\ spc = "check" => \A u \in Users : On(u) <=> StaysAfter(u, Len(received) - 1)
    /\ spc = "offline" => current \in Quits /\ On(Sender[current])

IInv == Types /\ InForward /\ NoDuplicateUser /\ OnlineMatchesHistory

-----------------------------------------------------------------------------
(* The list of users                                                       *)

\* What erase(iter) leaves.
LEMMA ErasedIs ==
    ASSUME NEW s \in Seq(Users), IsInjective(s), NEW k \in 1..Len(s)
    PROVE  /\ RemoveFirst(s, s[k]) \in Seq(Users)
           /\ Len(RemoveFirst(s, s[k])) = Len(s) - 1
           /\ \A n \in 1..Len(s)-1 :
                 RemoveFirst(s, s[k])[n] = IF n < k THEN s[n] ELSE s[n + 1]
<1> DEFINE a == SubSeq(s, 1, k - 1)
           b == SubSeq(s, k + 1, Len(s))
<1>1. RemoveFirst(s, s[k]) = a \o b
  <2>1. {n \in 1..Len(s) : s[n] = s[k]} = {k}
    BY DEF IsInjective
  <2>2. Min({k}) = k
    BY DEF Min
  <2>3. SelectInSeq(s, LAMBDA v : v = s[k]) = k
    BY <2>1, <2>2 DEF SelectInSeq
  <2>4. QED
    BY <2>3 DEF RemoveFirst, RemoveAt
<1>2. /\ a \in Seq(Users) /\ Len(a) = k - 1 /\ \A n \in 1..k-1 : a[n] = s[n]
  BY SubSeqProperties
<1>3. /\ b \in Seq(Users) /\ Len(b) = Len(s) - k /\ \A n \in 1..Len(s)-k : b[n] = s[k + n]
  BY SubSeqProperties
<1> HIDE DEF a, b
<1>4. /\ a \o b \in Seq(Users) /\ Len(a \o b) = Len(a) + Len(b)
      /\ \A n \in 1..Len(a)+Len(b) :
            (a \o b)[n] = IF n <= Len(a) THEN a[n] ELSE b[n - Len(a)]
  BY ONLY <1>2, <1>3, ConcatProperties
<1>5. ASSUME NEW n \in 1..Len(s)-1
      PROVE  (a \o b)[n] = IF n < k THEN s[n] ELSE s[n + 1]
  <2>1. CASE n < k
    BY <1>2, <1>3, <1>4, <2>1
  <2>2. CASE n >= k
    <3>1. (a \o b)[n] = b[n - (k - 1)] /\ n - (k - 1) \in 1..Len(s)-k
      BY <1>2, <1>3, <1>4, <2>2
    <3>2. b[n - (k - 1)] = s[k + (n - (k - 1))]
      BY <1>3, <3>1
    <3>3. k + (n - (k - 1)) = n + 1
      OBVIOUS
    <3>4. QED
      BY <2>2, <3>1, <3>2, <3>3
  <2>3. n < k \/ n >= k
    OBVIOUS
  <2>4. QED
    BY <2>1, <2>2, <2>3, Zenon
<1>6. QED
  BY <1>1, <1>2, <1>3, <1>4, <1>5

\* The list without one of its users.
LEMMA Erased ==
    ASSUME online \in Seq(Users), NoDuplicateUser, NEW x \in Users, On(x),
           online' = RemoveFirst(online, x)
    PROVE  /\ online' \in Seq(Users) /\ NoDuplicateUser'
           /\ \A u \in Users : On(u)' <=> On(u) /\ u # x
<1>1. PICK k \in 1..Len(online) : online[k] = x
  BY DEF On
<1>2. /\ online' \in Seq(Users) /\ Len(online') = Len(online) - 1
      /\ \A n \in 1..Len(online)-1 :
            online'[n] = IF n < k THEN online[n] ELSE online[n + 1]
  BY <1>1, ErasedIs DEF NoDuplicateUser
<1>3. DOMAIN online = 1..Len(online) /\ DOMAIN online' = 1..Len(online)-1
  BY <1>2
<1>4. \A i, j \in 1..Len(online) : online[i] = online[j] => i = j
  BY <1>3 DEF NoDuplicateUser, IsInjective
<1>5. Len(online) \in Nat
  OBVIOUS
<1>6. NoDuplicateUser'
  <2> SUFFICES ASSUME NEW i \in 1..Len(online)-1, NEW j \in 1..Len(online)-1,
                      online'[i] = online'[j]
               PROVE  i = j
    BY <1>3 DEF NoDuplicateUser, IsInjective
  <2>1. /\ i \in 1..Len(online) /\ i + 1 \in 1..Len(online)
        /\ j \in 1..Len(online) /\ j + 1 \in 1..Len(online)
    BY <1>5
  <2>2. QED
    BY <1>2, <1>4, <2>1
<1>7. ASSUME NEW u \in Users, On(u)'
      PROVE  On(u) /\ u # x
  <2>1. PICK n \in 1..Len(online)-1 : online'[n] = u
    BY <1>3, <1>7 DEF On
  <2>2. CASE n < k
    <3>1. n \in 1..Len(online) /\ n # k
      BY <1>5, <2>2
    <3>2. online[n] = u
      BY <1>2, <2>1, <2>2
    <3>3. QED
      BY <1>1, <1>3, <1>4, <3>1, <3>2 DEF On
  <2>3. CASE n >= k
    <3>1. n + 1 \in 1..Len(online) /\ n + 1 # k /\ ~(n < k)
      BY <1>5, <2>3
    <3>2. online[n + 1] = u
      BY <1>2, <2>1, <3>1
    <3>3. QED
      BY <1>1, <1>3, <1>4, <3>1, <3>2 DEF On
  <2>4. QED
    BY <2>2, <2>3
<1>8. ASSUME NEW u \in Users, On(u), u # x
      PROVE  On(u)'
  <2>1. PICK n \in 1..Len(online) : online[n] = u
    BY <1>3, <1>8 DEF On
  <2>2. CASE n < k
    BY <1>2, <1>3, <2>1, <2>2 DEF On
  <2>3. CASE n > k
    <3>1. n - 1 \in 1..Len(online)-1 /\ online'[n - 1] = online[n]
      BY <1>2, <2>3
    <3>2. QED
      BY <1>3, <2>1, <3>1 DEF On
  <2>4. QED
    BY <1>1, <1>8, <2>1, <2>2, <2>3
<1>9. QED
  BY <1>2, <1>6, <1>7, <1>8

\* The list with a user who was not in it.
LEMMA Added ==
    ASSUME online \in Seq(Users), NoDuplicateUser, NEW x \in Users, ~On(x),
           online' = Append(online, x)
    PROVE  /\ online' \in Seq(Users) /\ NoDuplicateUser'
           /\ \A u \in Users : On(u)' <=> On(u) \/ u = x
<1>1. /\ online' \in Seq(Users)
      /\ DOMAIN online = 1..Len(online) /\ DOMAIN online' = 1..Len(online)+1
      /\ \A n \in 1..Len(online) : online'[n] = online[n]
      /\ online'[Len(online) + 1] = x
  OBVIOUS
<1>2. NoDuplicateUser'
  BY <1>1 DEF NoDuplicateUser, IsInjective, On
<1>3. \A u \in Users : On(u)' <=> On(u) \/ u = x
  BY <1>1 DEF On
<1>4. QED
  BY <1>1, <1>2, <1>3

\* What the last message says of its sender, and what a new one leaves of the others.
LEMMA LastSays ==
    ASSUME received # <<>>, received \in Seq(Messages)
    PROVE  Stays(Sender[received[Len(received)]])
              <=> received[Len(received)] \notin Quits
  BY DEF Stays, StaysAfter

LEMMA PastStays ==
    ASSUME received \in Seq(Messages), NEW m \in Messages,
           received' = Append(received, m), NEW u, NEW k \in 0..Len(received)
    PROVE  StaysAfter(u, k)' <=> StaysAfter(u, k)
<1>1. \A n \in 1..k : received'[n] = received[n]
  OBVIOUS
<1>2. QED
  BY <1>1 DEF StaysAfter

LEMMA OthersStay ==
    ASSUME received \in Seq(Messages), NEW m \in Messages,
           received' = Append(received, m), NEW u, u # Sender[m]
    PROVE  Stays(u)' <=> Stays(u)
<1>1. /\ Len(received) \in Nat /\ Len(received') = Len(received) + 1
      /\ \A n \in 1..Len(received) : received'[n] = received[n]
      /\ received'[Len(received) + 1] = m
  OBVIOUS
<1>2. QED
  BY <1>1 DEF Stays, StaysAfter

-----------------------------------------------------------------------------
(* The steps                                                               *)

\* The pool's steps leave everything of the chat alone; so do clients and network.
LEMMA Untouched ==
    ASSUME IInv, UNCHANGED <<spc, current, online, received>>,
           network' \in SUBSET Messages, unsent' \in SUBSET Messages
    PROVE  IInv'
  BY DEF IInv, Types, InForward, NoDuplicateUser, OnlineMatchesHistory, On, Stays, StaysAfter

LEMMA ReceiveStep == ASSUME IInv, NEW m \in Messages, Receive(m) PROVE IInv'
<1>1. /\ spc = "recv" /\ spc' = "check" /\ current' = m /\ online' = online
      /\ received \in Seq(Messages) /\ received' = Append(received, m)
      /\ network' \in SUBSET Messages /\ unsent' = unsent
  BY DEF Receive, IInv, Types
<1>2. /\ received' \in Seq(Messages) /\ received' # <<>>
      /\ received'[Len(received')] = m
  BY <1>1
<1>3. Types' /\ NoDuplicateUser' /\ OnlineMatchesHistory'
  BY <1>1, <1>2 DEF IInv, Types, ServerPlaces, NoDuplicateUser, OnlineMatchesHistory
<1>4. \A u \in Users \ {Sender[m]} : On(u)' <=> Stays(u)'
  BY <1>1, OthersStay DEF IInv, OnlineMatchesHistory, On
<1>5. \A u \in Users : On(u)' <=> StaysAfter(u, Len(received) - 1)'
  <2>1. PICK k \in 0..Len(received) : k = Len(received) /\ k = Len(received') - 1
    BY <1>1
  <2>2. ASSUME NEW u \in Users PROVE On(u) <=> StaysAfter(u, k)
    BY <1>1, <2>1 DEF IInv, OnlineMatchesHistory, On, Stays
  <2>3. ASSUME NEW u \in Users PROVE On(u)' <=> StaysAfter(u, k)'
    BY <1>1, <2>2, PastStays DEF On
  <2>4. QED
    BY <2>1, <2>3
<1>6. QED
  BY <1>1, <1>2, <1>3, <1>4, <1>5 DEF IInv, InForward

LEMMA CheckStep == ASSUME IInv, CheckOnlineUser PROVE IInv'
<1> DEFINE x == Sender[current]
<1>1. /\ spc = "check" /\ current \in Messages /\ x \in Users
      /\ spc' = IF current \in Quits THEN "offline" ELSE "enqueue"
      /\ UNCHANGED <<network, unsent, current, received>>
      /\ received # <<>> /\ received[Len(received)] = current
      /\ online \in Seq(Users) /\ received \in Seq(Messages)
  BY ChatAssumption DEF CheckOnlineUser, IInv, Types, InForward
<1>2. /\ online' \in Seq(Users) /\ NoDuplicateUser' /\ On(x)'
      /\ \A u \in Users \ {x} : On(u)' <=> On(u)
  <2>1. CASE On(x)
    BY <1>1, <2>1 DEF CheckOnlineUser, IInv, NoDuplicateUser, On
  <2>2. CASE ~On(x)
    <3>1. online' = Append(online, x)
      BY <2>2 DEF CheckOnlineUser, On
    <3>2. QED
      BY <1>1, <2>2, <3>1, Added DEF IInv
  <2>3. QED
    BY <2>1, <2>2
<1>3. \A u \in Users \ {x} : On(u)' <=> Stays(u)'
  BY <1>1, <1>2 DEF IInv, InForward, Stays, StaysAfter
<1>4. Stays(x)' <=> current \notin Quits
  BY <1>1, LastSays DEF Stays, StaysAfter
<1>5. Types'
  BY <1>1, <1>2 DEF IInv, Types, ServerPlaces
<1>6. InForward'
  BY <1>1, <1>2, <1>3 DEF InForward
<1>7. OnlineMatchesHistory'
  BY <1>1, <1>2, <1>3, <1>4 DEF OnlineMatchesHistory, On
<1>8. QED
  BY <1>2, <1>5, <1>6, <1>7 DEF IInv

LEMMA OfflineStep == ASSUME IInv, Offline PROVE IInv'
<1> DEFINE x == Sender[current]
<1>1. /\ spc = "offline" /\ spc' = "enqueue" /\ current \in Messages /\ x \in Users
      /\ online' = RemoveFirst(online, x)
      /\ UNCHANGED <<network, unsent, current, received>>
      /\ received # <<>> /\ received[Len(received)] = current
      /\ current \in Quits /\ On(x)
      /\ online \in Seq(Users) /\ received \in Seq(Messages)
  BY ChatAssumption DEF Offline, IInv, Types, InForward
<1>2. /\ online' \in Seq(Users) /\ NoDuplicateUser'
      /\ \A u \in Users : On(u)' <=> On(u) /\ u # x
  BY <1>1, Erased DEF IInv
<1>3. ~Stays(x)'
  BY <1>1, LastSays DEF Stays, StaysAfter
<1>4. \A u \in Users : On(u)' <=> Stays(u)'
  BY <1>1, <1>2, <1>3 DEF IInv, InForward, Stays, StaysAfter
<1>5. Types' /\ InForward' /\ OnlineMatchesHistory'
  BY <1>1, <1>2, <1>4 DEF IInv, Types, ServerPlaces, InForward, OnlineMatchesHistory, On
<1>6. QED
  BY <1>2, <1>5 DEF IInv

LEMMA NextIInv == ASSUME IInv, [Next]_vars PROVE IInv'
<1>1. ASSUME NEW m \in Messages, SendMessage(m) \/ Lose(m) \/ Discard(m)
      PROVE  IInv'
  BY <1>1, Untouched DEF SendMessage, Lose, Discard, IInv, Types
<1>2. CASE InitServer
  BY <1>2 DEF InitServer, IInv, Types, ServerPlaces, InForward, NoDuplicateUser,
              OnlineMatchesHistory, On, Stays, StaysAfter
<1>3. CASE HandOver
  BY <1>3 DEF HandOver, IInv, Types, ServerPlaces, InForward, NoDuplicateUser,
              OnlineMatchesHistory, On, Stays, StaysAfter
<1>4. CASE Return
  BY <1>4 DEF Return, IInv, Types, ServerPlaces, InForward, NoDuplicateUser,
              OnlineMatchesHistory, On, Stays, StaysAfter
<1>5. CASE InPool \/ \E w \in Workers : Work(w) \/ ForwardHelper(w)
  BY <1>5, Untouched DEF InPool, Work, ForwardHelper, chat, IInv, Types
<1>6. CASE UNCHANGED vars
  BY <1>6, Untouched DEF vars, chat, IInv, Types
<1>7. QED
  BY <1>1, <1>2, <1>3, <1>4, <1>5, <1>6, ReceiveStep, CheckStep, OfflineStep
     DEF Next, MainStep

LEMMA Invariance == Spec => []IInv
<1>1. Init => IInv
  BY DEF Init, IInv, Types, ServerPlaces, InForward, NoDuplicateUser,
         OnlineMatchesHistory, IsInjective
<1>2. QED
  BY <1>1, NextIInv, PTL DEF Spec

-----------------------------------------------------------------------------
(* The theorems                                                            *)

\* Nobody is in the list twice, so nobody is sent a message twice
\* (Route.hpp:25-38).
THEOREM ListedOnce == Spec => []NoDuplicateUser
<1>1. IInv => NoDuplicateUser
  BY DEF IInv
<1>2. QED
  BY <1>1, Invariance, PTL

\* Between two datagrams exactly those are in the list whose last message was not
\* QUIT (Route.hpp:25-54), whatever the network does to the datagrams and the
\* workers do in between.
THEOREM ListIsHistory == Spec => []OnlineMatchesHistory
<1>1. IInv => OnlineMatchesHistory
  BY DEF IInv
<1>2. QED
  BY <1>1, Invariance, PTL

\* The server uses the pool as ThreadPool describes its callers: every behaviour of
\* the server is one of the pool, with the main thread as the only caller.
THEOREM UsesPool == Spec => Pool!Spec
<1>1. Init => Pool!Init
  BY DEF Init
<1>2. ASSUME IInv, [Next]_vars
      PROVE  [Pool!Next]_(Pool!vars)
  <2> USE DEF pool, Pool!vars
  <2>1. ASSUME NEW m \in Messages, SendMessage(m) \/ Lose(m) \/ Receive(m) \/ Discard(m)
        PROVE  UNCHANGED Pool!vars
    BY <2>1 DEF SendMessage, Lose, Receive, Discard
  <2>2. CASE InitServer \/ CheckOnlineUser \/ Offline \/ Return
    BY <2>2 DEF InitServer, CheckOnlineUser, Offline, Return
  <2>3. CASE HandOver
    <3>1. current \in Messages
      BY <1>2, <2>3 DEF HandOver, IInv, Types
    <3>2. Pool!Submit(MainThread, current)
      BY <2>3 DEF HandOver
    <3>3. QED
      BY <3>1, <3>2 DEF Pool!Next
  <2>4. CASE InPool
    BY <2>4 DEF InPool, Pool!Next
  <2>5. ASSUME NEW w \in Workers, Work(w) \/ ForwardHelper(w)
        PROVE  Pool!Next
    BY <2>5 DEF Work, ForwardHelper, Pool!Next
  <2>6. CASE UNCHANGED vars
    BY <2>6 DEF vars
  <2>7. QED
    BY <1>2, <2>1, <2>2, <2>3, <2>4, <2>5, <2>6 DEF Next, MainStep
<1>3. QED
  BY <1>1, <1>2, Invariance, PTL DEF Spec, Pool!Spec

-----------------------------------------------------------------------------
(* How far messages overtake each other                                    *)

\* The pool as the main thread, its only caller, uses it: nothing is queued before it
\* exists, it runs whenever the main thread is at Equeue, so that no message is
\* discarded, and a worker carries a message exactly while it forwards one.
PoolUse ==
    /\ queue \in Seq(Messages) /\ taken \in Seq(Messages) /\ accepted \in Seq(Messages)
    /\ unstarted \subseteq Workers
    /\ wpc \in [Workers -> Pool!WorkerPcs]
    /\ held \in [Workers -> Messages \cup {NoTask}]
    /\ cpc \in [{MainThread} -> Pool!CallerPcs \ {"stoplock", "stop"}]
    /\ arg \in [{MainThread} -> Messages \cup {NoTask}]
    /\ accepted = taken \o queue
    /\ ~tp => queue = <<>>
    /\ cpc[MainThread] = "new" => ~tp
    /\ cpc[MainThread] \in {"run", "start", "sigunlock", "eqlock", "equeue"} => tp
    /\ tp /\ cpc[MainThread] # "run" => isrunning
    /\ \A w \in Workers : wpc[w] = "run" <=> held[w] # NoTask

\* The main thread has received a message that is not in the queue yet.
BeforeQueue == spc \in {"check", "offline", "enqueue"} \/ cpc[MainThread] # "idle"

\* The messages pushed are those received, up to the one in the main thread's hands.
Pushed ==
    /\ spc \in {"check", "offline", "enqueue"} => cpc[MainThread] = "idle"
    /\ cpc[MainThread] # "idle" => arg[MainThread] = current /\ spc = "pool"
    /\ BeforeQueue => current \in Messages /\ received = Append(accepted, current)
    /\ ~BeforeQueue => received = accepted

\* No message is received twice.
OnceReceived ==
    /\ received \in Seq(Messages)
    /\ network \subseteq Messages /\ unsent \subseteq Messages /\ network \cap unsent = {}
    /\ \A n \in DOMAIN received : received[n] \notin network \cup unsent
    /\ \A n, k \in DOMAIN received : received[n] = received[k] => n = k

InHand(m) == \E w \in Workers : held[w] = m
IsForwarded(m) == \E n \in DOMAIN forwarded : forwarded[n].message = m
IsTaken(m) == \E n \in DOMAIN taken : taken[n] = m

Entries == [message : Messages, to : Seq(Users), at : Nat]

\* The messages popped are those forwarded and those in a worker's hands.
TakenAre ==
    /\ forwarded \in Seq(Entries)
    /\ \A m \in Messages : IsTaken(m) <=> IsForwarded(m) \/ InHand(m)

\* Received before the n-th message forwarded, and not forwarded by then.
Overtaken(n) ==
    {m \in Messages :
        /\ \E p, q \in DOMAIN received :
              received[p] = m /\ received[q] = forwarded[n].message /\ p < q
        /\ \A k \in 1..n : forwarded[k].message # m}

FewOvertaken ==
    \A n \in DOMAIN forwarded : Cardinality(Overtaken(n)) < Cardinality(Workers)

OInv == PoolUse /\ Pushed /\ OnceReceived /\ TakenAre /\ FewOvertaken

\* What ThreadPool assumes of its constants, for the server's use of it.
LEMMA PoolConstants ==
    IsFiniteSet(Workers) /\ NoTask \notin Messages /\ Cardinality(Workers) \in Nat
<1>1. IsFiniteSet(Workers)
  BY ChatPoolAssumption DEF Pool!PoolAssumption, Pool!IsFiniteSet, IsFiniteSet
<1>2. NoTask \notin Messages
  BY ChatPoolAssumption DEF Pool!PoolAssumption
<1>3. QED
  BY <1>1, <1>2, FS_CardinalityType

\* Popping at the front, seen from what is popped and queued.
LEMMA PopFirst ==
    ASSUME NEW S, NEW a \in Seq(S), NEW b \in Seq(S), b # <<>>
    PROVE  /\ Head(b) \in S /\ Tail(b) \in Seq(S) /\ Append(a, Head(b)) \in Seq(S)
           /\ a \o b = Append(a, Head(b)) \o Tail(b)
<1>1. Head(b) \in S /\ Tail(b) \in Seq(S) /\ <<Head(b)>> \in Seq(S)
  BY HeadTailProperties
<1>2. Append(a, Head(b)) = a \o <<Head(b)>> /\ Append(a, Head(b)) \in Seq(S)
  BY <1>1, AppendIsConcat
<1>3. b = <<Head(b)>> \o Tail(b)
  <2>1. Len(b) \in Nat /\ Len(b) > 0
    OBVIOUS
  <2>2. SubSeq(b, 1, Len(b)) = <<b[1]>> \o SubSeq(b, 2, Len(b))
    BY <2>1, SubSeqRecursiveFirst
  <2>3. QED
    BY <2>1, <2>2, SubSeqFull, TailIsSubSeq
<1>4. (a \o <<Head(b)>>) \o Tail(b) = a \o (<<Head(b)>> \o Tail(b))
  BY ONLY <1>1, a \in Seq(S), ConcatAssociative
<1>5. QED
  BY <1>1, <1>2, <1>3, <1>4

LEMMA InitOInv == Init => OInv
<1> SUFFICES ASSUME Init PROVE OInv
  OBVIOUS
<1> USE DEF Init, Pool!Init
<1>1. PoolUse
  BY DEF PoolUse, Pool!WorkerPcs, Pool!CallerPcs
<1>2. Pushed /\ OnceReceived
  BY DEF Pushed, BeforeQueue, OnceReceived
<1>3. TakenAre
  BY PoolConstants DEF TakenAre, IsTaken, IsForwarded, InHand
<1>4. FewOvertaken
  BY DEF FewOvertaken
<1>5. QED
  BY <1>1, <1>2, <1>3, <1>4 DEF OInv

\* The messages popped are the first ones received, in their order.
LEMMA TakenFirst ==
    ASSUME PoolUse, Pushed
    PROVE  /\ Len(taken) \in Nat /\ Len(received) \in Nat /\ Len(taken) <= Len(received)
           /\ DOMAIN taken = 1..Len(taken) /\ DOMAIN received = 1..Len(received)
           /\ \A n \in 1..Len(taken) : received[n] = taken[n]
<1>1. /\ taken \in Seq(Messages) /\ queue \in Seq(Messages) /\ accepted \in Seq(Messages)
      /\ accepted = taken \o queue
  BY DEF PoolUse
<1>2. /\ Len(accepted) = Len(taken) + Len(queue)
      /\ \A n \in 1..Len(taken) : accepted[n] = taken[n]
  BY <1>1
<1>3. \/ received = accepted
      \/ current \in Messages /\ received = Append(accepted, current)
  BY DEF Pushed
<1>4. /\ received \in Seq(Messages) /\ Len(accepted) <= Len(received)
      /\ \A n \in 1..Len(accepted) : received[n] = accepted[n]
  <2>1. CASE received = accepted
    BY <1>1, <2>1
  <2>2. ASSUME NEW m \in Messages, received = Append(accepted, m)
        PROVE  /\ received \in Seq(Messages) /\ Len(accepted) <= Len(received)
               /\ \A n \in 1..Len(accepted) : received[n] = accepted[n]
    BY <1>1, <2>2
  <2>3. QED
    BY <1>3, <2>1, <2>2
<1>5. Len(taken) \in Nat /\ Len(queue) \in Nat
  BY <1>1
<1>6. QED
  BY <1>1, <1>2, <1>4, <1>5

\* A step that neither receives nor forwards lets nobody be overtaken.
LEMMA NobodyOvertaken ==
    ASSUME FewOvertaken, UNCHANGED <<received, forwarded>>
    PROVE  FewOvertaken'
BY DEF FewOvertaken, Overtaken

-----------------------------------------------------------------------------
LEMMA ClientOInv ==
    ASSUME OInv, NEW m \in Messages, SendMessage(m) \/ Lose(m) \/ Discard(m)
    PROVE  OInv'
<1>1. UNCHANGED <<pool, spc, current, online, received, forwarded>>
  BY DEF SendMessage, Lose, Discard
<1>2. PoolUse' /\ Pushed' /\ TakenAre'
  <2>1. PoolUse'
    BY <1>1 DEF pool, OInv, PoolUse
  <2>2. Pushed'
    BY <1>1 DEF pool, OInv, Pushed, BeforeQueue
  <2>3. TakenAre'
    BY <1>1 DEF pool, OInv, TakenAre, IsTaken, IsForwarded, InHand
  <2>4. QED
    BY <2>1, <2>2, <2>3
<1>3. OnceReceived'
  BY <1>1 DEF OInv, OnceReceived, SendMessage, Lose, Discard
<1>4. FewOvertaken'
  BY <1>1, NobodyOvertaken DEF OInv
<1>5. QED
  BY <1>2, <1>3, <1>4 DEF OInv

LEMMA ReceiveOInv ==
    ASSUME OInv, NEW m \in Messages, Receive(m)
    PROVE  OInv'
<1>1. /\ spc = "recv" /\ spc' = "check" /\ current' = m
      /\ m \in network /\ network' = network \ {m} /\ unsent' = unsent
      /\ received' = Append(received, m) /\ received \in Seq(Messages)
      /\ UNCHANGED <<pool, forwarded>>
  BY DEF Receive, OInv, OnceReceived
<1>2. UNCHANGED <<queue, taken, accepted, wpc, held, cpc, arg, tp, isrunning, unstarted>>
  BY <1>1 DEF pool
<1>3. PoolUse' /\ TakenAre'
  BY <1>1, <1>2 DEF OInv, PoolUse, TakenAre, IsTaken, IsForwarded, InHand
<1>4. Pushed'
  BY <1>1, <1>2 DEF OInv, Pushed, BeforeQueue
<1>5. /\ DOMAIN received = 1..Len(received) /\ DOMAIN received' = 1..Len(received)+1
      /\ Len(received) \in Nat
      /\ \A n \in 1..Len(received) : received'[n] = received[n]
      /\ received'[Len(received) + 1] = m /\ received' \in Seq(Messages)
  BY <1>1
<1>6. OnceReceived'
  <2>1. \A n \in 1..Len(received) : received[n] # m /\ received[n] \notin network \cup unsent
    BY <1>1, <1>5 DEF OInv, OnceReceived
  <2>2. m \notin network' \cup unsent'
    BY <1>1 DEF OInv, OnceReceived
  <2>3. \A n \in DOMAIN received' : received'[n] \notin network' \cup unsent'
    BY <1>1, <1>5, <2>1, <2>2
  <2>4. \A n, k \in DOMAIN received' : received'[n] = received'[k] => n = k
    BY <1>5, <2>1 DEF OInv, OnceReceived
  <2>5. QED
    BY <1>1, <1>5, <2>3, <2>4 DEF OInv, OnceReceived
<1>7. ASSUME NEW n \in DOMAIN forwarded PROVE Overtaken(n)' = Overtaken(n)
  <2>1. forwarded[n] \in Entries
    <3>1. forwarded \in Seq(Entries)
      BY DEF OInv, TakenAre
    <3>2. n \in 1..Len(forwarded)
      BY <3>1
    <3>3. QED
      BY <3>1, <3>2, ElementOfSeq
  <2>a. forwarded[n].message \in Messages
    BY <2>1 DEF Entries
  <2>2. IsTaken(forwarded[n].message)
    BY <2>a DEF OInv, TakenAre, IsForwarded
  <2>3. PICK r \in 1..Len(received) : received[r] = forwarded[n].message
    BY <2>2, TakenFirst DEF OInv, IsTaken
  <2>4. ASSUME NEW x \in Messages, NEW p \in DOMAIN received', NEW q \in DOMAIN received',
               received'[p] = x, received'[q] = forwarded[n].message, p < q
        PROVE  p \in DOMAIN received /\ q \in DOMAIN received
    <3>1. q = r
      BY <1>5, <1>6, <2>3, <2>4 DEF OnceReceived
    <3>2. QED
      BY <1>5, <2>4, <3>1
  <2>5. QED
    BY <1>1, <1>5, <2>4 DEF Overtaken
<1>8. FewOvertaken'
  BY <1>1, <1>7 DEF OInv, FewOvertaken
<1>9. QED
  BY <1>3, <1>4, <1>6, <1>8 DEF OInv

\* The main thread's steps outside of the pool.
LEMMA OutsideOInv ==
    ASSUME OInv, InitServer \/ CheckOnlineUser \/ Offline \/ Return
    PROVE  OInv'
<1>1. UNCHANGED <<pool, network, unsent, received, forwarded>>
  BY DEF InitServer, CheckOnlineUser, Offline, Return
<1>2. PoolUse' /\ OnceReceived' /\ TakenAre'
  BY <1>1 DEF pool, OInv, PoolUse, OnceReceived, TakenAre, IsTaken, IsForwarded, InHand
<1>3. Pushed'
  BY <1>1 DEF pool, OInv, Pushed, BeforeQueue, InitServer, CheckOnlineUser, Offline, Return
<1>4. FewOvertaken'
  BY <1>1, NobodyOvertaken DEF OInv
<1>5. QED
  BY <1>2, <1>3, <1>4 DEF OInv

LEMMA HandOverOInv ==
    ASSUME OInv, HandOver
    PROVE  OInv'
<1> USE DEF Pool!Submit, Pool!CallerAt, Pool!poolVars, Pool!workerVars, Pool!flowVars
<1>1. /\ spc = "enqueue" /\ spc' = "pool" /\ cpc[MainThread] = "idle"
      /\ cpc' = [cpc EXCEPT ![MainThread] = "check"]
      /\ arg' = [arg EXCEPT ![MainThread] = current]
      /\ UNCHANGED <<queue, taken, accepted, wpc, held, tp, isrunning, unstarted>>
      /\ UNCHANGED <<network, unsent, current, received, forwarded>>
      /\ current \in Messages
  BY DEF HandOver, OInv, Pushed, BeforeQueue
<1>2. cpc'[MainThread] = "check" /\ arg'[MainThread] = current
  BY <1>1 DEF OInv, PoolUse
<1>3. PoolUse'
  BY <1>1, <1>2 DEF OInv, PoolUse, Pool!CallerPcs
<1>4. Pushed' /\ OnceReceived' /\ TakenAre'
  BY <1>1, <1>2
     DEF OInv, Pushed, BeforeQueue, OnceReceived, TakenAre, IsTaken, IsForwarded, InHand
<1>5. FewOvertaken'
  BY <1>1, NobodyOvertaken DEF OInv
<1>6. QED
  BY <1>3, <1>4, <1>5 DEF OInv

\* A step of the main thread in the pool that pushes nothing.
LEMMA NotPushed ==
    ASSUME OInv, PoolUse', UNCHANGED <<chat, held, taken, accepted, arg>>,
           cpc[MainThread] # "idle", cpc'[MainThread] # "idle"
    PROVE  OInv'
<1>1. UNCHANGED <<network, unsent, spc, current, received, forwarded>>
  BY DEF chat
<1>2. Pushed' /\ OnceReceived' /\ TakenAre'
  BY <1>1
     DEF OInv, Pushed, BeforeQueue, OnceReceived, TakenAre, IsTaken, IsForwarded, InHand
<1>3. FewOvertaken'
  BY <1>1, NobodyOvertaken DEF OInv
<1>4. QED
  BY <1>2, <1>3 DEF OInv

LEMMA EqueueOInv ==
    ASSUME OInv, Pool!Equeue(MainThread), UNCHANGED chat
    PROVE  OInv'
<1>1. /\ cpc[MainThread] = "equeue" /\ cpc' = [cpc EXCEPT ![MainThread] = "idle"]
      /\ arg' = [arg EXCEPT ![MainThread] = NoTask]
      /\ UNCHANGED <<held, taken, tp, isrunning, unstarted>>
  BY DEF Pool!Equeue, Pool!EqueueSignalling, Pool!CallerAt, Pool!poolVars
<1>2. tp /\ isrunning /\ arg[MainThread] \in Messages /\ arg[MainThread] = current
      /\ received = Append(accepted, current) /\ current \in Messages /\ spc = "pool"
  BY <1>1 DEF OInv, PoolUse, Pushed, BeforeQueue
<1>3. queue' = Append(queue, current) /\ accepted' = Append(accepted, current)
  BY <1>2 DEF Pool!Equeue, Pool!EqueueSignalling
<1>4. wpc' = wpc \/ \E w \in Workers : wpc[w] = "wait" /\ wpc' = [wpc EXCEPT ![w] = "relock"]
  BY <1>2
     DEF Pool!Equeue, Pool!EqueueSignalling, Pool!Wakeup, Pool!Waiting, Pool!WorkersAt
<1>5. UNCHANGED <<network, unsent, spc, current, received, forwarded>>
  BY DEF chat
<1>6. cpc'[MainThread] = "idle" /\ arg'[MainThread] = NoTask
  BY <1>1 DEF OInv, PoolUse
<1>7. PoolUse'
  <2>1. /\ queue' \in Seq(Messages) /\ accepted' \in Seq(Messages)
        /\ accepted' = taken \o queue'
    <3>1. taken \in Seq(Messages) /\ queue \in Seq(Messages) /\ accepted = taken \o queue
      BY DEF OInv, PoolUse
    <3>2. /\ Append(queue, current) \in Seq(Messages)
          /\ Append(taken \o queue, current) \in Seq(Messages)
          /\ Append(taken \o queue, current) = taken \o Append(queue, current)
      <4>1. PICK m \in Messages : m = current
        BY <1>2
      <4>2. /\ Append(queue, m) \in Seq(Messages)
            /\ Append(taken \o queue, m) \in Seq(Messages)
            /\ Append(taken \o queue, m) = taken \o Append(queue, m)
        <5>1. taken \in Seq(Messages) /\ queue \in Seq(Messages)
          BY <3>1
        <5>2. Append(queue, m) \in Seq(Messages) /\ Append(taken \o queue, m) \in Seq(Messages)
          BY ONLY m \in Messages, <5>1
        <5>3. (taken \o queue) \o <<m>> = taken \o (queue \o <<m>>)
          <6>1. <<m>> \in Seq(Messages)
            BY ONLY m \in Messages
          <6>2. QED
            BY ONLY <5>1, <6>1, ConcatAssociative
        <5>4. /\ Append(queue, m) = queue \o <<m>>
              /\ Append(taken \o queue, m) = (taken \o queue) \o <<m>>
          BY ONLY m \in Messages, <5>1, AppendIsConcat
        <5>5. QED
          BY ONLY <5>2, <5>3, <5>4
      <4>3. QED
        BY <4>1, <4>2
    <3>3. QED
      BY <1>3, <3>1, <3>2
  <2>2. /\ wpc' \in [Workers -> Pool!WorkerPcs]
        /\ \A w \in Workers : wpc'[w] = "run" <=> wpc[w] = "run"
    BY <1>4 DEF OInv, PoolUse, Pool!WorkerPcs
  <2>3. /\ cpc' \in [{MainThread} -> Pool!CallerPcs \ {"stoplock", "stop"}]
        /\ arg' \in [{MainThread} -> Messages \cup {NoTask}]
    BY <1>1 DEF OInv, PoolUse, Pool!CallerPcs
  <2>4. QED
    BY <1>1, <1>2, <1>6, <2>1, <2>2, <2>3 DEF OInv, PoolUse
<1>8. Pushed'
  BY <1>2, <1>3, <1>5, <1>6 DEF Pushed, BeforeQueue
<1>9. OnceReceived' /\ TakenAre'
  BY <1>1, <1>5 DEF OInv, OnceReceived, TakenAre, IsTaken, IsForwarded, InHand
<1>10. FewOvertaken'
  BY <1>5, NobodyOvertaken DEF OInv
<1>11. QED
  BY <1>7, <1>8, <1>9, <1>10 DEF OInv

LEMMA InPoolOInv ==
    ASSUME OInv, InPool
    PROVE  OInv'
<1> USE DEF OInv, Pool!CallerAt, Pool!WorkerAt, Pool!poolVars, Pool!workerVars,
            Pool!callerVars, Pool!flowVars
<1>1. UNCHANGED chat /\ Pool!CallerStep(MainThread)
  BY DEF InPool
<1>2. /\ cpc \in [{MainThread} -> Pool!CallerPcs \ {"stoplock", "stop"}]
      /\ MainThread \in {MainThread}
  BY DEF PoolUse
<1>3. ASSUME NEW from, NEW to \in Pool!CallerPcs \ {"stoplock", "stop", "idle"},
             from # "idle", cpc[MainThread] = from, cpc' = [cpc EXCEPT ![MainThread] = to],
             UNCHANGED <<held, taken, accepted, arg, wpc, unstarted>>,
             /\ queue' \in Seq(Messages) /\ accepted = taken \o queue'
             /\ ~tp' => queue' = <<>>
             /\ to = "new" => ~tp'
             /\ to \in {"run", "start", "sigunlock", "eqlock", "equeue"} => tp'
             /\ tp' /\ to # "run" => isrunning'
      PROVE  OInv'
  <2>1. cpc'[MainThread] = to /\ cpc' \in [{MainThread} -> Pool!CallerPcs \ {"stoplock", "stop"}]
    BY <1>2, <1>3
  <2>2. PoolUse'
    BY <1>3, <2>1 DEF PoolUse
  <2>3. QED
    BY <1>1, <1>3, <2>1, <2>2, NotPushed
<1>4. CASE Pool!CheckInstance(MainThread)
  BY <1>3, <1>4 DEF Pool!CheckInstance, PoolUse, Pool!CallerPcs
<1>5. CASE Pool!LockSig(MainThread)
  BY <1>3, <1>5 DEF Pool!LockSig, PoolUse, Pool!CallerPcs
<1>6. CASE Pool!RecheckInstance(MainThread)
  BY <1>3, <1>6 DEF Pool!RecheckInstance, PoolUse, Pool!CallerPcs
<1>7. CASE Pool!NewPool(MainThread)
  <2>1. queue = <<>> /\ queue' = <<>> /\ tp'
    BY <1>7 DEF Pool!NewPool, PoolUse
  <2>2. QED
    BY <1>3, <1>7, <2>1 DEF Pool!NewPool, PoolUse, Pool!CallerPcs
<1>8. CASE Pool!SetRunning(MainThread)
  BY <1>3, <1>8 DEF Pool!SetRunning, PoolUse, Pool!CallerPcs
<1>9. CASE Pool!StartThread(MainThread)
  <2>1. /\ cpc[MainThread] = "start" /\ UNCHANGED <<cpc, arg, held, taken, accepted, queue, tp>>
        /\ isrunning' = isrunning /\ unstarted' \subseteq Workers
        /\ \/ wpc' = wpc
           \/ \E w \in Workers : wpc[w] = "unborn" /\ wpc' = [wpc EXCEPT ![w] = "lock"]
    BY <1>9 DEF Pool!StartThread, PoolUse
  <2>2. /\ wpc' \in [Workers -> Pool!WorkerPcs]
        /\ \A w \in Workers : wpc'[w] = "run" <=> wpc[w] = "run"
    BY <2>1 DEF PoolUse, Pool!WorkerPcs
  <2>3. PoolUse'
    BY <2>1, <2>2 DEF PoolUse
  <2>4. QED
    BY <1>1, <2>1, <2>3, NotPushed
<1>10. CASE Pool!StartDone(MainThread)
  BY <1>3, <1>10 DEF Pool!StartDone, PoolUse, Pool!CallerPcs
<1>11. CASE Pool!UnlockSig(MainThread)
  BY <1>3, <1>11 DEF Pool!UnlockSig, PoolUse, Pool!CallerPcs
<1>12. CASE Pool!LockForEqueue(MainThread)
  BY <1>3, <1>12 DEF Pool!LockForEqueue, PoolUse, Pool!CallerPcs
<1>13. CASE Pool!Equeue(MainThread)
  BY <1>1, <1>13, EqueueOInv
<1>14. ~Pool!LockForStop(MainThread) /\ ~Pool!Stop(MainThread)
  BY <1>2 DEF Pool!LockForStop, Pool!Stop
<1>15. QED
  BY <1>1, <1>4, <1>5, <1>6, <1>7, <1>8, <1>9, <1>10, <1>11, <1>12, <1>13, <1>14
     DEF Pool!CallerStep, Pool!GetInstance

-----------------------------------------------------------------------------
(* The workers                                                             *)

LEMMA TakeOInv ==
    ASSUME OInv, NEW w \in Workers, Pool!Take(w), UNCHANGED chat
    PROVE  OInv'
<1> DEFINE h == Head(queue)
<1>1. /\ queue # <<>> /\ queue' = Tail(queue) /\ taken' = Append(taken, h)
      /\ wpc[w] = "check" /\ wpc' = [wpc EXCEPT ![w] = "run"]
      /\ held' = [held EXCEPT ![w] = h]
      /\ UNCHANGED <<tp, isrunning, unstarted, accepted, cpc, arg>>
  BY DEF Pool!Take, Pool!TakeTask, Pool!WorkerAt, Pool!poolVars, Pool!callerVars
<1>2. UNCHANGED <<network, unsent, spc, current, received, forwarded>>
  BY DEF chat
<1>3. /\ queue \in Seq(Messages) /\ taken \in Seq(Messages) /\ accepted = taken \o queue
      /\ held \in [Workers -> Messages \cup {NoTask}] /\ held[w] = NoTask
  BY <1>1 DEF OInv, PoolUse
<1>4. /\ h \in Messages /\ queue' \in Seq(Messages) /\ taken' \in Seq(Messages)
      /\ accepted = taken' \o queue'
  <2>1. /\ Head(queue) \in Messages /\ Tail(queue) \in Seq(Messages)
        /\ Append(taken, Head(queue)) \in Seq(Messages)
        /\ taken \o queue = Append(taken, Head(queue)) \o Tail(queue)
    BY <1>1, <1>3, PopFirst
  <2>2. QED
    BY <1>1, <1>3, <2>1
<1>5. h # NoTask
  BY <1>4, PoolConstants
<1> HIDE DEF h
<1>6. PoolUse'
  <2>1. /\ wpc' \in [Workers -> Pool!WorkerPcs]
        /\ held' \in [Workers -> Messages \cup {NoTask}]
    BY <1>1, <1>3, <1>4 DEF OInv, PoolUse, Pool!WorkerPcs
  <2>2. ASSUME NEW v \in Workers PROVE wpc'[v] = "run" <=> held'[v] # NoTask
    BY <1>1, <1>3, <1>5 DEF OInv, PoolUse
  <2>3. tp
    BY <1>1 DEF OInv, PoolUse
  <2>4. QED
    BY <1>1, <1>4, <2>1, <2>2, <2>3 DEF OInv, PoolUse
<1>7. Pushed' /\ OnceReceived'
  BY <1>1, <1>2 DEF OInv, Pushed, BeforeQueue, OnceReceived
<1>8. TakenAre'
  <2>1. ASSUME NEW m \in Messages
        PROVE  /\ IsTaken(m)' <=> IsTaken(m) \/ m = h
               /\ InHand(m)' <=> InHand(m) \/ m = h
               /\ IsForwarded(m)' <=> IsForwarded(m)
    <3>1. /\ DOMAIN taken = 1..Len(taken) /\ DOMAIN taken' = 1..Len(taken)+1
          /\ \A n \in 1..Len(taken) : taken'[n] = taken[n]
          /\ taken'[Len(taken) + 1] = h /\ Len(taken) \in Nat
      BY <1>1, <1>3, <1>4
    <3>2. IsTaken(m)' <=> IsTaken(m) \/ m = h
      BY <3>1 DEF IsTaken
    <3>3. InHand(m)' <=> InHand(m) \/ m = h
      BY <1>1, <1>3, PoolConstants DEF InHand
    <3>4. QED
      BY <1>2, <3>2, <3>3 DEF IsForwarded
  <2>2. forwarded' = forwarded
    BY <1>2
  <2>3. QED
    BY <2>1, <2>2 DEF OInv, TakenAre
<1>9. FewOvertaken'
  BY <1>2, NobodyOvertaken DEF OInv
<1>10. QED
  BY <1>6, <1>7, <1>8, <1>9 DEF OInv

\* The other steps of a worker in the pool concern the mutex and the condition only.
LEMMA WorkOInv ==
    ASSUME OInv, NEW w \in Workers, Work(w)
    PROVE  OInv'
<1> USE DEF Pool!WorkerAt, Pool!poolVars, Pool!callerVars, Pool!flowVars
<1>1. CASE Pool!Take(w)
  BY <1>1, TakeOInv DEF Work
<1>2. CASE \/ Pool!LockQueue(w) \/ Pool!Sleep(w) \/ Pool!Relock(w) \/ Pool!Quit(w)
           \/ Pool!WakeSpuriously(w)
  <2>1. /\ UNCHANGED <<queue, taken, accepted, held, cpc, arg, tp, isrunning, unstarted>>
        /\ \E to \in {"check", "wait", "quit", "relock"} :
               wpc[w] # "run" /\ wpc' = [wpc EXCEPT ![w] = to]
    BY <1>2 DEF Pool!LockQueue, Pool!Sleep, Pool!Relock, Pool!Quit, Pool!WakeSpuriously
  <2>2. UNCHANGED <<network, unsent, spc, current, received, forwarded>>
    BY DEF Work, chat
  <2>3. PoolUse'
    <3>1. /\ wpc' \in [Workers -> Pool!WorkerPcs]
          /\ \A v \in Workers : wpc'[v] = "run" <=> wpc[v] = "run"
      BY <2>1 DEF OInv, PoolUse, Pool!WorkerPcs
    <3>2. QED
      BY <2>1, <3>1 DEF OInv, PoolUse
  <2>4. Pushed' /\ OnceReceived' /\ TakenAre'
    BY <2>1, <2>2
       DEF OInv, Pushed, BeforeQueue, OnceReceived, TakenAre, IsTaken, IsForwarded, InHand
  <2>5. FewOvertaken'
    BY <2>2, NobodyOvertaken DEF OInv
  <2>6. QED
    BY <2>3, <2>4, <2>5 DEF OInv
<1>3. QED
  BY <1>1, <1>2 DEF Work, Pool!WorkerStep

\* Whom a message overtakes when it is forwarded is in another worker's hands.
LEMMA OthersHands ==
    ASSUME NEW w \in Workers, NEW S, S \subseteq {held[v] : v \in Workers \ {w}}
    PROVE  Cardinality(S) < Cardinality(Workers)
<1> DEFINE W == Workers \ {w}
           H == {held[v] : v \in W}
           f == [v \in W |-> held[v]]
<1>1. /\ IsFiniteSet(W) /\ Cardinality(W) = Cardinality(Workers) - 1
      /\ Cardinality(Workers) \in Nat
  BY PoolConstants, FS_RemoveElement
<1>2. f \in Surjection(W, H)
  BY DEF Surjection
<1>3. IsFiniteSet(H) /\ Cardinality(H) <= Cardinality(W)
  BY <1>1, <1>2, FS_Surjection
<1>4. IsFiniteSet(S) /\ Cardinality(S) <= Cardinality(H)
  BY <1>3, FS_Subset
<1>5. Cardinality(S) \in Nat /\ Cardinality(H) \in Nat
  BY <1>3, <1>4, FS_CardinalityType
<1>6. QED
  BY <1>1, <1>3, <1>4, <1>5

LEMMA ForwardOInv ==
    ASSUME Types, OInv, NEW w \in Workers, ForwardHelper(w)
    PROVE  OInv'
<1>1. /\ wpc[w] = "run" /\ wpc' = [wpc EXCEPT ![w] = "lock"]
      /\ held' = [held EXCEPT ![w] = NoTask]
      /\ UNCHANGED <<queue, taken, accepted, cpc, arg, tp, isrunning, unstarted>>
      /\ forwarded' = Append(forwarded, [message |-> held[w], to |-> online, at |-> Len(received)])
      /\ UNCHANGED <<network, unsent, spc, current, received>>
  BY DEF ForwardHelper, Forwarded, Pool!Run, Pool!WorkerAt, Pool!poolVars, Pool!callerVars
<1>2. /\ held \in [Workers -> Messages \cup {NoTask}] /\ held[w] \in Messages
      /\ wpc \in [Workers -> Pool!WorkerPcs]
      /\ forwarded \in Seq(Entries)
  BY <1>1 DEF OInv, PoolUse, TakenAre
<1>a. PICK h \in Messages : h = held[w]
  BY <1>2
<1>3. PICK entry \in Entries :
          entry = [message |-> held[w], to |-> online, at |-> Len(received)] /\ entry.message = h
  <2>1. held[w] \in Messages /\ online \in Seq(Users) /\ Len(received) \in Nat
    BY <1>2 DEF Types
  <2>2. [message |-> held[w], to |-> online, at |-> Len(received)] \in Entries
    BY <2>1 DEF Entries
  <2>3. [message |-> held[w], to |-> online, at |-> Len(received)].message = h
    BY <1>a
  <2>4. QED
    BY <2>2, <2>3
<1>b. PICK next \in Nat : next = Len(forwarded) + 1
  BY <1>2
<1>4. /\ DOMAIN forwarded = 1..Len(forwarded) /\ DOMAIN forwarded' = 1..Len(forwarded)+1
      /\ \A n \in 1..Len(forwarded) : forwarded'[n] = forwarded[n]
      /\ forwarded'[Len(forwarded) + 1] = entry /\ Len(forwarded) \in Nat
      /\ forwarded' \in Seq(Entries)
  BY <1>1, <1>2, <1>3
<1>5. PoolUse'
  <2>1. /\ wpc' \in [Workers -> Pool!WorkerPcs]
        /\ held' \in [Workers -> Messages \cup {NoTask}]
    BY <1>1, <1>2 DEF Pool!WorkerPcs
  <2>2. ASSUME NEW v \in Workers PROVE wpc'[v] = "run" <=> held'[v] # NoTask
    BY <1>1, <1>2 DEF OInv, PoolUse
  <2>3. QED
    BY <1>1, <2>1, <2>2 DEF OInv, PoolUse
<1>6. Pushed' /\ OnceReceived'
  BY <1>1 DEF OInv, Pushed, BeforeQueue, OnceReceived
<1>7. ASSUME NEW m \in Messages
      PROVE  /\ IsForwarded(m)' <=> IsForwarded(m) \/ m = h
             /\ InHand(m) => InHand(m)' \/ m = h
             /\ InHand(m)' => InHand(m)
  <2>1. IsForwarded(m)' <=> IsForwarded(m) \/ m = h
    <3>1. IsForwarded(m)' => IsForwarded(m) \/ m = h
      <4>1. ASSUME NEW n \in DOMAIN forwarded', forwarded'[n].message = m
            PROVE  IsForwarded(m) \/ m = h
        <5>1. CASE n = Len(forwarded) + 1
          BY <1>3, <1>4, <4>1, <5>1
        <5>2. CASE n \in 1..Len(forwarded)
          BY <1>4, <4>1, <5>2 DEF IsForwarded
        <5> QED BY <1>4, <5>1, <5>2
      <4> QED BY <4>1 DEF IsForwarded
    <3>2. IsForwarded(m) => IsForwarded(m)'
      BY <1>4 DEF IsForwarded
    <3>3. IsForwarded(h)'
      <4>1. Len(forwarded) + 1 \in DOMAIN forwarded'
        BY <1>4
      <4> QED BY <1>3, <1>4, <4>1 DEF IsForwarded
    <3>4. QED
      BY <3>1, <3>2, <3>3
  <2>2. (InHand(m) => InHand(m)' \/ m = h) /\ (InHand(m)' => InHand(m))
    BY <1>1, <1>2, <1>a, PoolConstants DEF InHand
  <2>3. QED
    BY <2>1, <2>2
<1>8. TakenAre'
  <2>1. InHand(h)
    BY <1>a DEF InHand
  <2>2. ASSUME NEW m \in Messages PROVE IsTaken(m)' <=> IsTaken(m)
    BY <1>1 DEF IsTaken
  <2>3. QED
    BY <1>2, <1>4, <1>7, <2>1, <2>2 DEF OInv, TakenAre
<1>9. ASSUME NEW n \in 1..Len(forwarded) PROVE Overtaken(n)' = Overtaken(n)
  BY <1>1, <1>4 DEF Overtaken
<1>10. Overtaken(next)' \subseteq {held[v] : v \in Workers \ {w}}
  <2>1. SUFFICES ASSUME NEW m \in Overtaken(next)'
                 PROVE  \E v \in Workers \ {w} : held[v] = m
    OBVIOUS
  <2>2. /\ m \in Messages
        /\ \A k \in 1..Len(forwarded)+1 : forwarded'[k].message # m
        /\ \E p, q \in DOMAIN received : received[p] = m /\ received[q] = h /\ p < q
    <3>1. forwarded'[next].message = h /\ 1..next = 1..Len(forwarded)+1
      BY <1>3, <1>4, <1>b
    <3>2. QED
      BY <1>1, <2>1, <3>1 DEF Overtaken
  <2>3. PICK p \in DOMAIN received, q \in DOMAIN received :
            received[p] = m /\ received[q] = h /\ p < q
    BY <2>2
  <2>4. IsTaken(h)
    BY <1>a DEF OInv, TakenAre, InHand
  <2>5. q \in 1..Len(taken)
    BY <2>3, <2>4, TakenFirst DEF OInv, IsTaken, OnceReceived
  <2>6. IsTaken(m)
    BY <2>3, <2>5, TakenFirst DEF OInv, IsTaken
  <2>7. ~IsForwarded(m) /\ m # h
    BY <1>3, <1>4, <2>2 DEF IsForwarded
  <2>8. InHand(m)
    BY <2>2, <2>6, <2>7 DEF OInv, TakenAre
  <2>9. QED
    BY <1>a, <2>7, <2>8 DEF InHand
<1>11. FewOvertaken'
  <2>1. ASSUME NEW n \in 1..Len(forwarded)+1
        PROVE  Cardinality(Overtaken(n)') < Cardinality(Workers)
    <3>1. CASE n \in 1..Len(forwarded)
      BY <1>4, <1>9, <3>1 DEF OInv, FewOvertaken
    <3>2. CASE n = next
      BY <1>10, <3>2, OthersHands
    <3>3. QED
      BY <1>4, <1>b, <3>1, <3>2
  <2>2. QED
    BY <1>4, <2>1 DEF FewOvertaken
<1>12. QED
  BY <1>5, <1>6, <1>8, <1>11 DEF OInv

LEMMA NextOInv ==
    ASSUME Types, OInv, [Next]_vars
    PROVE  OInv'
<1>1. CASE UNCHANGED vars
  <2>1. UNCHANGED pool /\ UNCHANGED chat
    BY <1>1 DEF vars
  <2>2. PoolUse'
    BY <2>1 DEF pool, OInv, PoolUse
  <2>3. Pushed' /\ OnceReceived'
    BY <2>1 DEF pool, chat, OInv, Pushed, BeforeQueue, OnceReceived
  <2>4. TakenAre'
    BY <2>1 DEF pool, chat, OInv, TakenAre, IsTaken, IsForwarded, InHand
  <2>5. FewOvertaken'
    BY <2>1, NobodyOvertaken DEF chat, OInv
  <2>6. QED
    BY <2>2, <2>3, <2>4, <2>5 DEF OInv
<1>2. CASE Next
  BY <1>2, ClientOInv, ReceiveOInv, OutsideOInv, HandOverOInv, InPoolOInv, WorkOInv,
     ForwardOInv DEF Next, MainStep
<1>3. QED
  BY <1>1, <1>2

\* Whoever is late in the sense of BoundedOvertaking has been overtaken.
LEMMA LateIsOvertaken ==
    ASSUME OInv
    PROVE  BoundedOvertaking
<1>1. ASSUME NEW p \in DOMAIN received
      PROVE  Arrival(received[p]) = p
  BY DEF Arrival, OInv, OnceReceived
<1>2. SUFFICES ASSUME NEW n \in DOMAIN forwarded
               PROVE  Cardinality({m \in Messages :
                         /\ \E k \in 1..Len(received) : received[k] = m
                         /\ Arrival(m) < Arrival(forwarded[n].message)
                         /\ \A k \in 1..n : forwarded[k].message # m})
                      < Cardinality(Workers)
  BY DEF BoundedOvertaking
<1>3. PICK q \in DOMAIN received : received[q] = forwarded[n].message
  <2>1. forwarded[n] \in Entries
    <3>1. forwarded \in Seq(Entries)
      BY DEF OInv, TakenAre
    <3>2. n \in 1..Len(forwarded)
      BY <3>1
    <3>3. QED
      BY <3>1, <3>2, ElementOfSeq
  <2>2. forwarded[n].message \in Messages /\ IsForwarded(forwarded[n].message)
    BY <2>1 DEF Entries, IsForwarded
  <2>3. IsTaken(forwarded[n].message)
    BY <2>2 DEF OInv, TakenAre
  <2>4. QED
    BY <2>3, TakenFirst DEF OInv, IsTaken
<1>4. DOMAIN received = 1..Len(received)
  BY TakenFirst DEF OInv
<1>5. {m \in Messages :
          /\ \E k \in 1..Len(received) : received[k] = m
          /\ Arrival(m) < Arrival(forwarded[n].message)
          /\ \A k \in 1..n : forwarded[k].message # m} = Overtaken(n)
  <2>1. Arrival(forwarded[n].message) = q
    BY <1>1, <1>3
  <2>2. ASSUME NEW m \in Messages
        PROVE  /\ \E k \in 1..Len(received) : received[k] = m
               /\ Arrival(m) < Arrival(forwarded[n].message)
               <=> \E p, r \in DOMAIN received :
                      received[p] = m /\ received[r] = forwarded[n].message /\ p < r
    <3>1. ASSUME NEW p \in DOMAIN received, NEW r \in DOMAIN received,
                 received[p] = m, received[r] = forwarded[n].message
          PROVE  Arrival(m) = p /\ Arrival(forwarded[n].message) = r
      BY <1>1, <3>1
    <3>2. QED
      BY <1>3, <1>4, <2>1, <3>1
  <2>3. QED
    BY <2>2 DEF Overtaken
<1>6. QED
  BY <1>5 DEF OInv, FewOvertaken

\* Workers overtake each other, but when a message is forwarded fewer messages that were
\* received before it are still to be forwarded than there are workers: each of them is
\* in another worker's hands (ThreadPool.hpp:76-82, Route.hpp:56-75).
THEOREM OvertakingBounded == Spec => []BoundedOvertaking
<1>1. Init => OInv
  BY InitOInv
<1>2. IInv /\ OInv /\ [Next]_vars => OInv'
  BY NextOInv DEF IInv
<1>3. OInv => BoundedOvertaking
  BY LateIsOvertaken
<1>4. QED
  BY <1>1, <1>2, <1>3, Invariance, PTL DEF Spec

-----------------------------------------------------------------------------
(* Whom a message is forwarded to                                          *)

\* What has been forwarded, and when.
RInv ==
    \A n \in DOMAIN forwarded :
        forwarded[n].at \in 1..Len(received) /\ SentToThoseOnline(forwarded[n])

\* A message received later says nothing of what was forwarded earlier.
LEMMA PastSent ==
    ASSUME received \in Seq(Messages), NEW m \in Messages,
           received' = Append(received, m), NEW entry, entry.at \in 1..Len(received),
           SentToThoseOnline(entry)
    PROVE  SentToThoseOnline(entry)'
<1> DEFINE at == entry.at
<1>1. at \in 1..Len(received) /\ at \in 0..Len(received) /\ at - 1 \in 0..Len(received)
  OBVIOUS
<1>2. received'[at] = received[at]
  BY <1>1
<1> HIDE DEF at
<1>3. ASSUME NEW u \in Users
      PROVE  /\ StaysAfter(u, at)' <=> StaysAfter(u, at)
             /\ StaysAfter(u, at - 1)' <=> StaysAfter(u, at - 1)
  BY <1>1, PastStays
<1>4. QED
  BY <1>2, <1>3 DEF SentToThoseOnline, at

\* What the list is when a worker reads it.
LEMMA SentNow ==
    ASSUME IInv, OInv, NEW w \in Workers, ForwardHelper(w),
           NEW entry, entry.to = online, entry.at = Len(received)
    PROVE  entry.at \in 1..Len(received) /\ SentToThoseOnline(entry)
<1>1. Len(received) \in Nat /\ Len(received) > 0
  <2>1. PICK h \in Messages : h = held[w]
    BY DEF ForwardHelper, Pool!Run, Pool!WorkerAt, OInv, PoolUse
  <2>2. IsTaken(h)
    BY <2>1 DEF OInv, TakenAre, InHand
  <2>3. QED
    BY <2>2, TakenFirst DEF OInv, IsTaken
<1>2. spc \notin {"socket", "bind", "exited"} /\ received # <<>>
  BY <1>1 DEF IInv, InForward
<1>3. spc \in {"recv", "enqueue", "pool"} => \A u \in Users : On(u) <=> Stays(u)
  BY DEF IInv, OnlineMatchesHistory, On
<1>4. spc \in {"check", "offline"} =>
         /\ received[Len(received)] = current
         /\ \A u \in Users \ {Sender[current]} : On(u) <=> Stays(u)
  BY DEF IInv, InForward
<1>5. spc = "check" => \A u \in Users : On(u) <=> StaysAfter(u, Len(received) - 1)
  BY DEF IInv, InForward
<1>6. spc = "offline" => ~Stays(Sender[current])
  BY <1>2, <1>4, LastSays DEF IInv, Types, InForward
<1>7. spc \in {"recv", "check", "offline", "enqueue", "pool"}
  BY <1>2 DEF IInv, Types, ServerPlaces
<1>8. \A u \in Users :
         \/ On(u) <=> StaysAfter(u, Len(received))
         \/ /\ u = Sender[received[Len(received)]]
            /\ ~(StaysAfter(u, Len(received) - 1) /\ StaysAfter(u, Len(received)))
  BY <1>3, <1>4, <1>5, <1>6, <1>7 DEF Stays
<1>9. IsInjective(entry.to)
  BY DEF IInv, NoDuplicateUser
<1>10. QED
  BY <1>1, <1>8, <1>9 DEF SentToThoseOnline, On

LEMMA NextRInv ==
    ASSUME IInv, OInv, RInv, [Next]_vars
    PROVE  RInv'
<1>1. received \in Seq(Messages) /\ forwarded \in Seq(Entries)
  BY DEF IInv, Types, OInv, TakenAre
<1>2. CASE UNCHANGED <<received, forwarded>>
  BY <1>2 DEF RInv, SentToThoseOnline, StaysAfter
<1>3. ASSUME NEW m \in Messages, Receive(m)
      PROVE  RInv'
  <2>1. received' = Append(received, m) /\ forwarded' = forwarded
    BY <1>3 DEF Receive
  <2>2. SUFFICES ASSUME NEW n \in DOMAIN forwarded
                 PROVE  /\ forwarded[n].at \in 1..Len(received')
                        /\ SentToThoseOnline(forwarded[n])'
    BY <2>1 DEF RInv
  <2>3. PICK entry : entry = forwarded[n]
    OBVIOUS
  <2>4. entry.at \in 1..Len(received) /\ SentToThoseOnline(entry)
    BY <2>3 DEF RInv
  <2>5. SentToThoseOnline(entry)'
    BY <1>1, <2>1, <2>4, PastSent
  <2>6. forwarded'[n] = entry /\ entry.at \in 1..Len(received')
    BY <1>1, <2>1, <2>3, <2>4
  <2>7. QED
    BY <2>1, <2>3, <2>5, <2>6
<1>4. ASSUME NEW w \in Workers, ForwardHelper(w)
      PROVE  RInv'
  <2>1. /\ received' = received
        /\ forwarded' = Append(forwarded, [message |-> held[w], to |-> online,
                                           at |-> Len(received)])
    BY <1>4 DEF ForwardHelper, Forwarded
  <2>2. PICK entry : entry = [message |-> held[w], to |-> online, at |-> Len(received)]
    OBVIOUS
  <2>3. entry.at \in 1..Len(received) /\ SentToThoseOnline(entry)
    BY <1>4, <2>2, SentNow
  <2>4. /\ DOMAIN forwarded' = 1..Len(forwarded)+1 /\ DOMAIN forwarded = 1..Len(forwarded)
        /\ \A n \in 1..Len(forwarded) : forwarded'[n] = forwarded[n]
        /\ forwarded'[Len(forwarded) + 1] = entry /\ Len(forwarded) \in Nat
    <3>1. entry \in Entries
      BY <1>4, <2>2, PoolConstants
         DEF Entries, ForwardHelper, Pool!Run, Pool!WorkerAt, OInv, PoolUse, IInv, Types
    <3>2. QED
      BY <1>1, <2>1, <2>2, <3>1
  <2>5. \A n \in DOMAIN forwarded' :
           forwarded'[n].at \in 1..Len(received) /\ SentToThoseOnline(forwarded'[n])
    BY <2>3, <2>4 DEF RInv
  <2>6. SUFFICES ASSUME NEW n \in DOMAIN forwarded'
                 PROVE  /\ forwarded'[n].at \in 1..Len(received)
                        /\ SentToThoseOnline(forwarded[n])'
    BY <2>1 DEF RInv
  <2>7. PICK e : e = forwarded'[n]
    OBVIOUS
  <2>8. e.at \in 1..Len(received) /\ SentToThoseOnline(e)
    BY <2>5, <2>7
  <2>9. SentToThoseOnline(e)' <=> SentToThoseOnline(e)
    BY <2>1 DEF SentToThoseOnline, StaysAfter
  <2>10. QED
    BY <2>7, <2>8, <2>9
<1>5. CASE \/ \E m \in Messages : SendMessage(m) \/ Lose(m) \/ Discard(m)
           \/ InitServer \/ CheckOnlineUser \/ Offline \/ HandOver \/ InPool \/ Return
           \/ \E w \in Workers : Work(w)
           \/ UNCHANGED vars
  BY <1>2, <1>5 DEF SendMessage, Lose, Discard, InitServer, CheckOnlineUser, Offline,
                    HandOver, InPool, Return, Work, vars, chat
<1>6. QED
  BY <1>3, <1>4, <1>5 DEF Next, MainStep

\* Whatever comes between the hand-over of a message and its turn in a worker, it is
\* sent once to each of those who are online by what has been received until then
\* (Route.hpp:56-82); only the place of the last message's sender may be on its way.
THEOREM ReceiversOnline == Spec => []ForwardedToThoseOnline
<1>1. Init => OInv /\ RInv
  BY InitOInv DEF Init, RInv
<1>2. IInv /\ OInv /\ RInv /\ [Next]_vars => OInv' /\ RInv'
  BY NextOInv, NextRInv DEF IInv
<1>3. RInv => ForwardedToThoseOnline
  BY DEF RInv, ForwardedToThoseOnline
<1>4. QED
  BY <1>1, <1>2, <1>3, Invariance, PTL DEF Spec

=============================================================================
